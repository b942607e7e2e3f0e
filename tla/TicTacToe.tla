------------------------------ MODULE TicTacToe ------------------------------
(***************************************************************************)
(* What the two-player game of Source_codes_Ch7 promises its players,      *)
(* without network, messages or processes: marks are placed alternately on *)
(* free cells until a line is complete or the board is full, and then each *)
(* player is told the true verdict, once.                                  *)
(***************************************************************************)
EXTENDS Integers

Players == {1, 2}
Free    == 0
Cells   == (0 .. 2) \X (0 .. 2)
Boards  == [Cells -> Players \cup {Free}]

Lines == {{<<r, 0>>, <<r, 1>>, <<r, 2>>} : r \in 0 .. 2}
         \cup {{<<0, c>>, <<1, c>>, <<2, c>>} : c \in 0 .. 2}
         \cup {{<<0, 0>>, <<1, 1>>, <<2, 2>>}, {<<0, 2>>, <<1, 1>>, <<2, 0>>}}

Has(b, p) == \E l \in Lines : \A x \in l : b[x] = p
Full(b)   == \A x \in Cells : b[x] # Free
Over(b)   == Full(b) \/ \E p \in Players : Has(b, p)

Other(p) == 3 - p

Draw     == 0
NoResult == 3   \* a player who has not been told a verdict

IsVerdict(b, w) == IF w = Draw THEN Full(b) /\ \A p \in Players : ~ Has(b, p)
                               ELSE Has(b, w)

VARIABLES
  board,  \* the marks placed so far
  turn,   \* whose mark is placed next
  told    \* the verdict each player has been told

Init ==
  /\ board = [x \in Cells |-> Free]
  /\ turn = 1
  /\ told = [p \in Players |-> NoResult]

Play(x) ==
  /\ board[x] = Free
  /\ board' = [board EXCEPT ![x] = turn]
  /\ ~ Over(board)
  /\ turn' = Other(turn)
  /\ UNCHANGED told

Tell(p) ==
  /\ told[p] = NoResult
  /\ \E w \in Players \cup {Draw} :
       told' = [told EXCEPT ![p] = w] /\ IsVerdict(board, w)
  /\ UNCHANGED <<board, turn>>

Next == (\E x \in Cells : Play(x)) \/ (\E p \in Players : Tell(p))

Spec == Init /\ [][Next]_<<board, turn, told>>
==============================================================================
