---------------------------- MODULE TicTacToeNet ----------------------------
(***************************************************************************)
(* The game as Source_codes_Ch7 plays it: server.c accepts two clients,    *)
(* prompts the player whose turn it is (TURN), waits for that player's     *)
(* MOVE, answers with ERROR, or with STATE to both and, at the end, RESULT *)
(* to both; client.c is a loop around recv().                              *)
(*                                                                         *)
(* Messages are 1024-byte records over the loopback address client.c       *)
(* names: they arrive whole and in order.  A player's process may die at   *)
(* any moment: its connection then ends with a FIN or, if records were     *)
(* unread, a RST.  recv() returns 0 or -1, the first send() is lost (and   *)
(* answered by a reset, or reports the one received), the next one raises  *)
(* SIGPIPE.                                                                *)
(***************************************************************************)
EXTENDS Integers, Sequences, FiniteSets

CONSTANTS
  Inputs,   \* the pairs of integers a player may type for row and column
  MayQuit   \* the players whose process may die during the game

Players == {1, 2}
Cells   == (0 .. 2) \X (0 .. 2)

ASSUME InputsAssumption == Inputs \subseteq Int \X Int
ASSUME MayQuitAssumption == MayQuit \subseteq Players

VARIABLES
  pc,         \* where the server is
  players,    \* how many clients it has accepted
  board, current_player, move_count,
  toClient,   \* records on their way to each client
  toServer,   \* records on their way to the server
  client,     \* where each client is
  view,       \* marks on the board each client last printed
  shown,      \* the result each client has printed, 3 if none
  gone        \* a closed client connection, as the server's kernel sees it

server == <<pc, players, board, current_player, move_count>>
vars == <<server, toClient, toServer, client, view, shown, gone>>

Results == 0 .. 3

\* Messages of the server (0x03 .. 0x06) and of the client (0x02).  Marks are
\* only ever added in a game, so the number of marks names the board that a
\* STATE carries and that a client prints.
Messages == [type : {"TURN", "ERROR"}]
            \cup [type : {"STATE"}, marks : 0 .. 9]
            \cup [type : {"RESULT"}, winner : 0 .. 2]
Moves == [type : {"MOVE"}, row : -128 .. 127, col : -128 .. 127]

TypeOK ==
  /\ pc \in {"accept", "turn", "recv", "error", "state1", "state2", "judge",
             "result1", "result2", "closed", "killed"}
  /\ players \in 0 .. 2
  /\ board \in [Cells -> 0 .. 2]
  /\ current_player \in Players
  /\ move_count \in 0 .. 9
  /\ \A p \in Players : /\ \A k \in DOMAIN toClient[p] :
                             toClient[p][k] \in Messages
                        /\ \A k \in DOMAIN toServer[p] :
                             toServer[p][k] \in Moves
  /\ client \in [Players -> {"start", "recv", "scanf", "done", "dead"}]
  /\ view \in [Players -> 0 .. 9]
  /\ shown \in [Players -> Results]
  /\ gone \in [Players -> {"up", "fin", "rst", "broken"}]

Init ==
  /\ pc = "accept"
  /\ players = 0
  /\ board = [x \in Cells |-> 0]
  /\ current_player = 1
  /\ move_count = 0
  /\ toClient = [p \in Players |-> <<>>]
  /\ toServer = [p \in Players |-> <<>>]
  /\ client = [p \in Players |-> "start"]
  /\ view = [p \in Players |-> 0]
  /\ shown = [p \in Players |-> 3]
  /\ gone = [p \in Players |-> "up"]

-----------------------------------------------------------------------------
(* check_winner(): the lines in the order the function looks at them       *)

Tests == << <<<<0, 0>>, <<0, 1>>, <<0, 2>>>>, <<<<0, 0>>, <<1, 0>>, <<2, 0>>>>,
            <<<<1, 0>>, <<1, 1>>, <<1, 2>>>>, <<<<0, 1>>, <<1, 1>>, <<2, 1>>>>,
            <<<<2, 0>>, <<2, 1>>, <<2, 2>>>>, <<<<0, 2>>, <<1, 2>>, <<2, 2>>>>,
            <<<<0, 0>>, <<1, 1>>, <<2, 2>>>>, <<<<0, 2>>, <<1, 1>>, <<2, 0>>>> >>

Complete(b, k) == /\ b[Tests[k][1]] # 0
                  /\ b[Tests[k][1]] = b[Tests[k][2]]
                  /\ b[Tests[k][2]] = b[Tests[k][3]]

FirstComplete(b, k) == Complete(b, k) /\ \A j \in 1 .. k - 1 : ~ Complete(b, j)

\* Mutant: the last test is forgotten.
check_winner_rows(b) ==
  IF \E k \in 1 .. 7 : Complete(b, k)
  THEN b[Tests[CHOOSE k \in 1 .. 7 : FirstComplete(b, k)][1]]
  ELSE 0

check_winner(b) ==
  IF \E k \in 1 .. 8 : Complete(b, k)
  THEN b[Tests[CHOOSE k \in 1 .. 8 : FirstComplete(b, k)][1]]
  ELSE 0

\* int to (signed) char, as in buffer[1] = row.
Char(n) == ((n + 128) % 256) - 128

-----------------------------------------------------------------------------
(* The server *)

\* send() to client p, then on to next; the result of send() is not looked at.
SendTo(p, msg, next) ==
  \/ /\ gone[p] = "up"
     /\ toClient' = [toClient EXCEPT ![p] = Append(@, msg)]
     /\ pc' = next
     /\ UNCHANGED gone
  \/ /\ gone[p] \in {"fin", "rst"}
     /\ gone' = [gone EXCEPT ![p] = "broken"]
     /\ pc' = next
     /\ UNCHANGED toClient
  \/ /\ gone[p] = "broken"
     /\ pc' = "killed"
     /\ UNCHANGED <<toClient, gone>>

Accept ==
  /\ pc = "accept"
  /\ client[players + 1] # "start"
  /\ players' = players + 1
  /\ pc' = IF players' = 2 THEN "turn" ELSE "accept"
  /\ UNCHANGED <<board, current_player, move_count, toClient, toServer,
                 client, view, shown, gone>>

notify_turn ==
  /\ pc = "turn"
  /\ SendTo(current_player, [type |-> "TURN"], "recv")
  /\ UNCHANGED <<players, board, current_player, move_count, toServer, client,
                 view, shown>>

\* A MOVE whose cell is on the board and free.
Valid(m) == <<m.row, m.col>> \in Cells /\ board[<<m.row, m.col>>] = 0

Receive == toServer' = [toServer EXCEPT ![current_player] = Tail(@)]

RecvValid ==
  /\ pc = "recv"
  /\ toServer[current_player] # <<>>
  /\ LET m == Head(toServer[current_player]) IN
       /\ Valid(m)
       /\ board' = [board EXCEPT ![<<m.row, m.col>>] = current_player]
  /\ move_count' = move_count + 1
  /\ Receive
  /\ pc' = "state1"
  /\ UNCHANGED <<players, current_player, toClient, client, view, shown, gone>>

RecvInvalid ==
  /\ pc = "recv"
  /\ toServer[current_player] # <<>>
  /\ ~ Valid(Head(toServer[current_player]))
  /\ Receive
  /\ pc' = "error"
  /\ UNCHANGED <<players, board, current_player, move_count, toClient, client,
                 view, shown, gone>>

\* recv() returns 0, or -1 once for a reset: the buffer stays zeroed and the
\* loop starts over.
RecvNothing ==
  /\ pc = "recv"
  /\ toServer[current_player] = <<>>
  /\ gone[current_player] # "up"
  /\ gone' = [gone EXCEPT ![current_player] = IF @ = "rst" THEN "broken" ELSE @]
  /\ pc' = "turn"
  /\ UNCHANGED <<players, board, current_player, move_count, toClient,
                 toServer, client, view, shown>>

\* Mutant: after an error the player is not prompted again.
notify_turn_error_only ==
  /\ pc = "error"
  /\ SendTo(current_player, [type |-> "ERROR"], "recv")
  /\ UNCHANGED <<players, board, current_player, move_count, toServer, client,
                 view, shown>>

\* Mutant: the error is reported with a second prompt.
notify_turn_error_twice ==
  /\ pc = "error"
  /\ SendTo(current_player, [type |-> "TURN"], "turn")
  /\ UNCHANGED <<players, board, current_player, move_count, toServer, client,
                 view, shown>>

notify_turn_error ==
  /\ pc = "error"
  /\ SendTo(current_player, [type |-> "ERROR"], "turn")
  /\ UNCHANGED <<players, board, current_player, move_count, toServer, client,
                 view, shown>>

\* send_state_update(), one send() per client.
SendState(p, here, next) ==
  /\ pc = here
  /\ SendTo(p, [type |-> "STATE", marks |-> move_count], next)
  /\ UNCHANGED <<players, board, current_player, move_count, toServer, client,
                 view, shown>>

\* Mutant: only the player who moved gets the new board.
send_state_mover == SendState(current_player, "state1", "judge")

send_state_update ==
  SendState(1, "state1", "state2") \/ SendState(2, "state2", "judge")

Ends == check_winner(board) > 0 \/ move_count = 9

\* Winner or full board: announce; otherwise the other player's turn.
Judge ==
  /\ pc = "judge"
  /\ pc' = IF Ends THEN "result1" ELSE "turn"
  /\ current_player' = IF Ends THEN current_player
                       ELSE IF current_player = 1 THEN 2 ELSE 1
  /\ UNCHANGED <<players, board, move_count, toClient, toServer, client, view,
                 shown, gone>>

SendResult(p, here, next) ==
  /\ pc = here
  /\ SendTo(p, [type |-> "RESULT", winner |-> check_winner(board)], next)
  /\ UNCHANGED <<players, board, current_player, move_count, toServer, client,
                 view, shown>>

Result == SendResult(1, "result1", "result2") \/ SendResult(2, "result2", "closed")

Server ==
  \/ Accept \/ notify_turn \/ RecvValid \/ RecvInvalid \/ RecvNothing
  \/ notify_turn_error \/ send_state_update \/ Judge \/ Result

-----------------------------------------------------------------------------
(* The clients *)

\* Players are numbered in the order in which they connect.
Connect(p) ==
  /\ client[p] = "start"
  /\ \A q \in Players : q < p => client[q] # "start"
  /\ client' = [client EXCEPT ![p] = "recv"]
  /\ UNCHANGED <<server, toClient, toServer, view, shown, gone>>

\* One turn of the loop: recv() one record and act on its type.
ClientRecv(p) ==
  /\ client[p] = "recv"
  /\ toClient[p] # <<>>
  /\ toClient' = [toClient EXCEPT ![p] = Tail(@)]
  /\ LET m == Head(toClient[p]) IN
     \/ /\ m.type = "TURN"
        /\ client' = [client EXCEPT ![p] = "scanf"]
        /\ UNCHANGED <<view, shown, gone>>
     \/ /\ m.type = "STATE"
        /\ view' = [view EXCEPT ![p] = m.marks]
        /\ UNCHANGED <<client, shown, gone>>
     \/ /\ m.type = "RESULT"
        /\ shown' = [shown EXCEPT ![p] = m.winner]
        /\ client' = [client EXCEPT ![p] = "done"]
        /\ gone' = [gone EXCEPT ![p] = "fin"]
        /\ UNCHANGED view
     \/ /\ m.type = "ERROR"
        /\ UNCHANGED <<client, view, shown, gone>>
  /\ UNCHANGED <<server, toServer>>

\* scanf() and the MOVE.  When scanf() cannot convert the input, row and col
\* keep what they held: any pair typed before, or what the stack held.
ClientMove(p, in) ==
  /\ client[p] = "scanf"
  /\ client' = [client EXCEPT ![p] = "recv"]
  /\ toServer' = [toServer EXCEPT ![p] =
       Append(@, [type |-> "MOVE", row |-> Char(in[1]), col |-> Char(in[2])])]
  /\ UNCHANGED <<server, toClient, view, shown, gone>>

\* The process dies; with records unread its kernel resets the connection.
Quit(p) ==
  /\ p \in MayQuit
  /\ client[p] \in {"recv", "scanf"}
  /\ client' = [client EXCEPT ![p] = "dead"]
  /\ gone' = [gone EXCEPT ![p] = IF toClient[p] = <<>> THEN "fin" ELSE "rst"]
  /\ toClient' = [toClient EXCEPT ![p] = <<>>]
  /\ UNCHANGED <<server, toServer, view, shown>>

Moving(p) == \E in \in Inputs : ClientMove(p, in)

Next ==
  \/ Server
  \/ \E p \in Players : Connect(p) \/ ClientRecv(p) \/ Moving(p) \/ Quit(p)

Spec == Init /\ [][Next]_vars

-----------------------------------------------------------------------------
(* Fairness: the processes are scheduled, records arrive, and players who   *)
(* are prompted again and again do not for ever fail to type a free cell.  *)

GoodMove(p) == \E in \in Cells \cap Inputs : board[in] = 0 /\ ClientMove(p, in)

FairSpec ==
  /\ Spec
  /\ WF_vars(Server)
  /\ WF_vars(\E p \in Players : ClientRecv(p))
  /\ SF_vars(\E p \in Players : GoodMove(p))

-----------------------------------------------------------------------------
(* Properties *)

Prompts(q) == {k \in DOMAIN q : q[k].type = "TURN"}

Outstanding(p) == Cardinality(Prompts(toClient[p])) + Len(toServer[p])
                  + (IF client[p] = "scanf" THEN 1 ELSE 0)

\* "Send the turn, receive the MOVE" (server.c:55-60) stays in step: exactly
\* while the server waits is one prompt or answer of the current player under
\* way, and never one of the other player, through errors and departures.
TurnDiscipline ==
  /\ TypeOK
  /\ pc # "killed" => \A p \in Players : client[p] # "dead" =>
       Outstanding(p) = IF pc = "recv" /\ p = current_player THEN 1 ELSE 0

\* A player is asked for a move, and shown a result, only with the server's
\* present board on the screen.
NeverStale ==
  \A p \in Players : client[p] \in {"scanf", "done"} => view[p] = move_count

\* The game the players see is a game of TicTacToe: the marks alternate on
\* free cells and each client prints the right verdict once.
Game == INSTANCE TicTacToe WITH
          turn <- IF move_count % 2 = 0 THEN 1 ELSE 2,
          told <- shown
GameSpec == Game!Spec

\* Two players who stay until the end are both told the result.  When one
\* leaves, the server does not wait for it for ever: the game ends or SIGPIPE
\* ends the server.
GameEnds ==
  /\ players = 2 ~>
       \/ \A p \in Players : client[p] = "done"
       \/ \E p \in Players : client[p] = "dead"
  /\ (players = 2 /\ \E p \in Players : client[p] = "dead")
       ~> pc \in {"closed", "killed"}
=============================================================================
