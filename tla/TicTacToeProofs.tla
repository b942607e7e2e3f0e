-------------------------- MODULE TicTacToeProofs ---------------------------
(* TLAPS proofs about the game server: its verdict on every board,         *)
(* the dialogue with its players, and the game they see.                   *)
EXTENDS TicTacToeNet, SequenceTheorems, FiniteSetTheorems, TLAPS

AnyBoard == [Cells -> 0 .. 2]

\* The cells of the k-th test, spelled out.
LEMMA TestCells ==
  /\ Tests[1] = <<<<0, 0>>, <<0, 1>>, <<0, 2>>>>
  /\ Tests[2] = <<<<0, 0>>, <<1, 0>>, <<2, 0>>>>
  /\ Tests[3] = <<<<1, 0>>, <<1, 1>>, <<1, 2>>>>
  /\ Tests[4] = <<<<0, 1>>, <<1, 1>>, <<2, 1>>>>
  /\ Tests[5] = <<<<2, 0>>, <<2, 1>>, <<2, 2>>>>
  /\ Tests[6] = <<<<0, 2>>, <<1, 2>>, <<2, 2>>>>
  /\ Tests[7] = <<<<0, 0>>, <<1, 1>>, <<2, 2>>>>
  /\ Tests[8] = <<<<0, 2>>, <<1, 1>>, <<2, 0>>>>
BY DEF Tests

\* The cells the k-th test compares.
Tested(k) == {Tests[k][1], Tests[k][2], Tests[k][3]}

LEMMA TestedCells ==
  /\ Tested(1) = {<<0, 0>>, <<0, 1>>, <<0, 2>>}
  /\ Tested(2) = {<<0, 0>>, <<1, 0>>, <<2, 0>>}
  /\ Tested(3) = {<<1, 0>>, <<1, 1>>, <<1, 2>>}
  /\ Tested(4) = {<<0, 1>>, <<1, 1>>, <<2, 1>>}
  /\ Tested(5) = {<<2, 0>>, <<2, 1>>, <<2, 2>>}
  /\ Tested(6) = {<<0, 2>>, <<1, 2>>, <<2, 2>>}
  /\ Tested(7) = {<<0, 0>>, <<1, 1>>, <<2, 2>>}
  /\ Tested(8) = {<<0, 2>>, <<1, 1>>, <<2, 0>>}
BY TestCells DEF Tested

\* The lines of the game are exactly the sets of cells the eight tests read.
LEMMA TestsAreLines ==
  ASSUME NEW l
  PROVE  l \in Game!Lines <=> \E k \in 1 .. 8 : l = Tested(k)
<1>1. \A k \in 1 .. 8 : k = 1 \/ k = 2 \/ k = 3 \/ k = 4 \/ k = 5 \/ k = 6 \/ k = 7 \/ k = 8
  OBVIOUS
<1>2. 0 \in 0 .. 2 /\ 1 \in 0 .. 2 /\ 2 \in 0 .. 2
  OBVIOUS
<1>3. \A x \in 0 .. 2 : x = 0 \/ x = 1 \/ x = 2
  OBVIOUS
<1>4. /\ Tested(1) \in Game!Lines /\ Tested(3) \in Game!Lines /\ Tested(5) \in Game!Lines
      /\ Tested(2) \in Game!Lines /\ Tested(4) \in Game!Lines /\ Tested(6) \in Game!Lines
      /\ Tested(7) \in Game!Lines /\ Tested(8) \in Game!Lines
  BY <1>2, TestedCells, Zenon DEF Game!Lines
<1>5. \A k \in 1 .. 8 : Tested(k) \in Game!Lines
  BY <1>1, <1>4, Zenon
<1>6. ASSUME l \in Game!Lines
      PROVE  l = Tested(1) \/ l = Tested(2) \/ l = Tested(3) \/ l = Tested(4)
             \/ l = Tested(5) \/ l = Tested(6) \/ l = Tested(7) \/ l = Tested(8)
  <2>1. CASE \E r \in 0 .. 2 : l = {<<r, 0>>, <<r, 1>>, <<r, 2>>}
    BY <2>1, <1>3, TestedCells, Zenon
  <2>2. CASE \E c \in 0 .. 2 : l = {<<0, c>>, <<1, c>>, <<2, c>>}
    BY <2>2, <1>3, TestedCells, Zenon
  <2>3. CASE l \in {{<<0, 0>>, <<1, 1>>, <<2, 2>>}, {<<0, 2>>, <<1, 1>>, <<2, 0>>}}
    BY <2>3, TestedCells, Zenon
  <2> QED BY <1>6, <2>1, <2>2, <2>3, Zenon DEF Game!Lines
<1>7. /\ 1 \in 1 .. 8 /\ 2 \in 1 .. 8 /\ 3 \in 1 .. 8 /\ 4 \in 1 .. 8
      /\ 5 \in 1 .. 8 /\ 6 \in 1 .. 8 /\ 7 \in 1 .. 8 /\ 8 \in 1 .. 8
  OBVIOUS
<1> QED BY <1>5, <1>6, <1>7, Zenon

LEMMA FirstCells == \A k \in 1 .. 8 : Tests[k][1] \in Cells
<1> SUFFICES ASSUME NEW k \in 1 .. 8 PROVE Tests[k][1] \in Cells
  OBVIOUS
<1>1. k = 1 \/ k = 2 \/ k = 3 \/ k = 4 \/ k = 5 \/ k = 6 \/ k = 7 \/ k = 8
  OBVIOUS
<1> QED BY <1>1, TestCells DEF Cells

\* A non-zero test is a line of one player.
LEMMA CompleteIsLine ==
  ASSUME NEW b \in AnyBoard
  PROVE  /\ \A p \in Players :
              Game!Has(b, p) <=> \E k \in 1 .. 8 : Complete(b, k) /\ b[Tests[k][1]] = p
         /\ \A k \in 1 .. 8 : Complete(b, k) => b[Tests[k][1]] \in Players
<1>2. \A k \in 1 .. 8 : Complete(b, k) => b[Tests[k][1]] \in Players
  BY FirstCells DEF Complete, AnyBoard, Players
<1>3. ASSUME NEW p \in Players, Game!Has(b, p)
      PROVE  \E k \in 1 .. 8 : Complete(b, k) /\ b[Tests[k][1]] = p
  <2>1. PICK l \in Game!Lines : \A x \in l : b[x] = p
    BY <1>3 DEF Game!Has
  <2>2. PICK k \in 1 .. 8 : l = Tested(k)
    BY TestsAreLines
  <2> QED BY <2>1, <2>2 DEF Complete, Tested, Players
<1>4. ASSUME NEW p \in Players, NEW k \in 1 .. 8, Complete(b, k), b[Tests[k][1]] = p
      PROVE  Game!Has(b, p)
  <2>1. Tested(k) \in Game!Lines
    BY TestsAreLines
  <2> QED BY <1>4, <2>1 DEF Complete, Tested, Game!Has
<1> QED BY <1>2, <1>3, <1>4

\* On every board, reachable or not, check_winner() returns 0 exactly if no
\* player has a line, and otherwise a player who has one.
THEOREM CheckWinnerCorrect ==
  ASSUME NEW b \in AnyBoard
  PROVE  /\ check_winner(b) = 0 <=> \A p \in Players : ~ Game!Has(b, p)
         /\ check_winner(b) # 0 => /\ check_winner(b) \in Players
                                   /\ Game!Has(b, check_winner(b))
<1>1. CASE \E k \in 1 .. 8 : Complete(b, k)
  <2>1. \E k \in 1 .. 8 : FirstComplete(b, k)
    BY <1>1 DEF FirstComplete
  <2>2. PICK k \in 1 .. 8 : /\ FirstComplete(b, k)
                            /\ check_winner(b) = b[Tests[k][1]]
    <3> DEFINE k == CHOOSE j \in 1 .. 8 : FirstComplete(b, j)
    <3>1. k \in 1 .. 8 /\ FirstComplete(b, k)
      BY <2>1
    <3>2. check_winner(b) = b[Tests[k][1]]
      BY <1>1 DEF check_winner
    <3> QED BY <3>1, <3>2
  <2>3. Complete(b, k)
    BY <2>2 DEF FirstComplete
  <2>4. check_winner(b) \in Players /\ Game!Has(b, check_winner(b))
    BY <2>2, <2>3, CompleteIsLine
  <2> QED BY <2>4 DEF Players
<1>2. CASE ~ \E k \in 1 .. 8 : Complete(b, k)
  BY <1>2, CompleteIsLine DEF check_winner
<1> QED BY <1>1, <1>2

-----------------------------------------------------------------------------
(* The network: what is on its way between the server and its players *)

\* Whose mark is placed next.
Turn == IF move_count % 2 = 0 THEN 1 ELSE 2

\* The free cells get fewer by one with each move, and the server's turn is the
\* game's whenever it is about to wait for a move.
Marked(b) == {x \in Cells : b[x] # 0}

BoardInv ==
  /\ move_count = Cardinality(Marked(board))
  /\ pc = "accept" => players < 2
  /\ pc \in {"accept", "turn", "recv", "error"} => ~ Ends /\ current_player = Turn
  /\ pc \in {"state1", "state2", "judge"} => current_player # Turn
  /\ pc \in {"result1", "result2", "closed"} => Ends

\* What a screen shows once all records in q have been received is n marks.
State(n) == [type |-> "STATE", marks |-> n]

Shows(q, v, n) ==
  \/ v = n /\ \A k \in DOMAIN q : q[k].type # "STATE"
  \/ \E k \in DOMAIN q : /\ q[k] = State(n)
                         /\ \A j \in DOMAIN q : j > k => q[j].type # "STATE"

\* Nothing that makes a client ask its user or end; or only at the end.
Calm(q)  == \A k \in DOMAIN q : q[k].type \in {"STATE", "ERROR"}
Lasts(q) == \A k \in DOMAIN q : q[k].type \in {"TURN", "RESULT"} => k = Len(q)

\* The server has sent p the result, or nobody knows any more.
Told(p) == pc \in {"closed", "killed"} \/ (pc = "result2" /\ p = 1)

\* The server may not have sent p the board yet.
Behind(p) == pc \in {"state1", "killed"} \/ (pc = "state2" /\ p = 2)

Prompted(p) == pc = "recv" /\ p = current_player

\* The prompt, the user's thinking and the move take turns.
Await(p) ==
  IF Prompted(p)
  THEN \/ /\ Prompts(toClient[p]) # {} /\ client[p] # "scanf" /\ toServer[p] = <<>>
       \/ /\ Prompts(toClient[p]) = {} /\ client[p] = "scanf" /\ toServer[p] = <<>>
       \/ /\ Prompts(toClient[p]) = {} /\ client[p] # "scanf" /\ Len(toServer[p]) = 1
  ELSE Prompts(toClient[p]) = {} /\ client[p] # "scanf" /\ toServer[p] = <<>>

Verdict(p, m) == m.type = "RESULT" => Told(p) /\ Ends /\ m.winner = check_winner(board)

Session(p) ==
  /\ gone[p] = "up" <=> client[p] \notin {"done", "dead"}
  /\ client[p] \in {"scanf", "done", "dead"} => toClient[p] = <<>>
  /\ client[p] = "done" => Told(p) /\ Ends
  /\ shown[p] # 3 => client[p] = "done"
  /\ Lasts(toClient[p]) /\ \A k \in DOMAIN toClient[p] : Verdict(p, toClient[p][k])
  /\ client[p] # "dead" =>
       /\ pc # "killed" => Await(p)
       /\ \/ Shows(toClient[p], view[p], move_count)
          \/ Behind(p) /\ Calm(toClient[p]) /\ client[p] \notin {"scanf", "done"}

NetInv ==
  /\ TypeOK
  /\ toClient \in [Players -> Seq(Messages)] /\ toServer \in [Players -> Seq(Moves)]
  /\ BoardInv
  /\ \A p \in Players : Session(p)

LEMMA MessageTypes ==
  /\ \A m \in Messages : /\ m.type \in {"TURN", "ERROR", "STATE", "RESULT"}
                         /\ m.type = "STATE" => m.marks \in 0 .. 9
                         /\ m.type = "RESULT" => m.winner \in 0 .. 2
  /\ [type |-> "TURN"] \in Messages /\ [type |-> "ERROR"] \in Messages
  /\ \A n \in 0 .. 9 : State(n) \in Messages
  /\ \A w \in 0 .. 2 : [type |-> "RESULT", winner |-> w] \in Messages
BY DEF Messages, State

\* A record behind others none of which is a prompt or a result.
LEMMA AppendRecord ==
  ASSUME NEW q \in Seq(Messages), NEW m \in Messages, Calm(q)
  PROVE  /\ Append(q, m) \in Seq(Messages) /\ Lasts(Append(q, m))
         /\ m.type \in {"STATE", "ERROR"} => Calm(Append(q, m))
         /\ Prompts(Append(q, m)) = {} <=> m.type # "TURN"
         /\ \A k \in DOMAIN Append(q, m) :
              Append(q, m)[k] = m \/ (k \in DOMAIN q /\ Append(q, m)[k] = q[k])
<1> DEFINE a == Append(q, m)
<1>1. /\ a \in Seq(Messages) /\ Len(a) = Len(q) + 1 /\ a[Len(q) + 1] = m
      /\ \A k \in 1 .. Len(q) : a[k] = q[k]
  BY AppendProperties
<1>2. DOMAIN a = 1 .. Len(a) /\ DOMAIN q = 1 .. Len(q) /\ Len(q) \in Nat
  BY <1>1, LenProperties
<1> HIDE DEF a
<1>3. \A k \in DOMAIN a : (k = Len(a) /\ a[k] = m) \/ (k \in DOMAIN q /\ a[k] = q[k])
  BY <1>1, <1>2
<1>4. Len(a) \in DOMAIN a /\ a[Len(a)] = m
  BY <1>1, <1>2
<1>5. Lasts(a) /\ (m.type \in {"STATE", "ERROR"} => Calm(a))
  BY <1>3 DEF Lasts, Calm
<1>6. Prompts(a) = {} <=> m.type # "TURN"
  BY <1>3, <1>4 DEF Prompts, Calm
<1> QED BY <1>1, <1>3, <1>5, <1>6 DEF a

LEMMA AppendShows ==
  ASSUME NEW q \in Seq(Messages), NEW m \in Messages, NEW v, NEW n
  PROVE  /\ m.type # "STATE" /\ Shows(q, v, n) => Shows(Append(q, m), v, n)
         /\ m = State(n) => Shows(Append(q, m), v, n)
<1> DEFINE a == Append(q, m)
<1>1. /\ a \in Seq(Messages) /\ Len(a) = Len(q) + 1 /\ a[Len(q) + 1] = m
      /\ \A k \in 1 .. Len(q) : a[k] = q[k]
  BY AppendProperties
<1>2. DOMAIN a = 1 .. Len(q) + 1 /\ DOMAIN q = 1 .. Len(q) /\ Len(q) \in Nat
  BY <1>1, LenProperties
<1> HIDE DEF a
<1>3. ASSUME m.type # "STATE", Shows(q, v, n) PROVE Shows(a, v, n)
  <2>1. CASE v = n /\ \A k \in DOMAIN q : q[k].type # "STATE"
    BY <1>1, <1>2, <1>3, <2>1 DEF Shows
  <2>2. ASSUME NEW k \in DOMAIN q, q[k] = State(n), \A j \in DOMAIN q : j > k => q[j].type # "STATE"
        PROVE  Shows(a, v, n)
    <3>1. k \in DOMAIN a /\ a[k] = State(n)
      BY <1>1, <1>2, <2>2
    <3>2. \A j \in DOMAIN a : j > k => a[j].type # "STATE"
      BY <1>1, <1>2, <1>3, <2>2
    <3> QED BY <3>1, <3>2 DEF Shows
  <2> QED BY <1>3, <2>1, <2>2 DEF Shows
<1>4. ASSUME m = State(n) PROVE Shows(a, v, n)
  <2>1. Len(q) + 1 \in DOMAIN a /\ a[Len(q) + 1] = State(n)
        /\ \A j \in DOMAIN a : ~ (j > Len(q) + 1)
    BY <1>1, <1>2, <1>4
  <2> QED BY <2>1 DEF Shows
<1> QED BY <1>3, <1>4 DEF a

\* The first record is received.
LEMMA TailRecord ==
  ASSUME NEW q \in Seq(Messages), q # <<>>, Lasts(q)
  PROVE  /\ Head(q) = q[1] /\ 1 \in DOMAIN q /\ Head(q) \in Messages /\ Tail(q) \in Seq(Messages)
         /\ \A k \in DOMAIN Tail(q) : k + 1 \in DOMAIN q /\ Tail(q)[k] = q[k + 1]
         /\ Lasts(Tail(q)) /\ (Calm(q) => Calm(Tail(q)))
         /\ Head(q).type \in {"TURN", "RESULT"} => Tail(q) = <<>>
         /\ Head(q).type # "TURN" => (Prompts(Tail(q)) = {} <=> Prompts(q) = {})
         /\ Head(q).type = "TURN" => Prompts(Tail(q)) = {} /\ Prompts(q) # {}
<1> DEFINE t == Tail(q)
<1>1. /\ Head(q) = q[1] /\ Head(q) \in Messages /\ t \in Seq(Messages) /\ Len(t) = Len(q) - 1
      /\ \A k \in 1 .. Len(t) : t[k] = q[k + 1]
  BY HeadTailProperties
<1>2. DOMAIN t = 1 .. Len(t) /\ DOMAIN q = 1 .. Len(q) /\ Len(q) \in Nat /\ Len(q) > 0
      /\ Len(t) \in Nat
  BY <1>1, LenProperties, EmptySeq
<1>e. Len(t) = 0 => t = <<>>
  BY <1>1, EmptySeq
<1> HIDE DEF t
<1>3. \A k \in DOMAIN t : k + 1 \in DOMAIN q /\ t[k] = q[k + 1] /\ k \in Nat
  BY <1>1, <1>2
<1>4. \A k \in DOMAIN q : k = 1 \/ (k - 1 \in DOMAIN t /\ t[k - 1] = q[k])
  BY <1>1, <1>2
<1>5. 1 \in DOMAIN q
  BY <1>2
<1>6. Lasts(t)
  <2> SUFFICES ASSUME NEW k \in DOMAIN t, t[k].type \in {"TURN", "RESULT"} PROVE k = Len(t)
    BY DEF Lasts
  <2>1. k + 1 = Len(q)
    BY <1>3 DEF Lasts
  <2> QED BY <1>1, <1>2, <1>3, <2>1
<1>7. Calm(q) => Calm(t)
  BY <1>3 DEF Calm
<1>8. Head(q).type \in {"TURN", "RESULT"} => t = <<>>
  <2>1. Head(q).type \in {"TURN", "RESULT"} => 1 = Len(q)
    BY <1>1, <1>5 DEF Lasts
  <2> QED BY <1>1, <1>e, <2>1
<1>9. ASSUME Head(q).type # "TURN" PROVE Prompts(t) = {} <=> Prompts(q) = {}
  <2>1. ASSUME NEW k \in DOMAIN t, t[k].type = "TURN" PROVE k + 1 \in Prompts(q)
    BY <1>3, <2>1 DEF Prompts
  <2>2. ASSUME NEW k \in DOMAIN q, q[k].type = "TURN" PROVE k - 1 \in Prompts(t)
    BY <1>1, <1>4, <1>9, <2>2 DEF Prompts
  <2> QED BY <2>1, <2>2 DEF Prompts
<1>10. Head(q).type = "TURN" => Prompts(t) = {} /\ Prompts(q) # {}
  BY <1>1, <1>5, <1>8 DEF Prompts
<1> QED BY <1>1, <1>3, <1>5, <1>6, <1>7, <1>8, <1>9, <1>10 DEF t

LEMMA TailShows ==
  ASSUME NEW q \in Seq(Messages), q # <<>>, NEW v, NEW n, Shows(q, v, n)
  PROVE  Shows(Tail(q), IF Head(q).type = "STATE" THEN Head(q).marks ELSE v, n)
<1> DEFINE t == Tail(q)
           w == IF Head(q).type = "STATE" THEN Head(q).marks ELSE v
<1>1. /\ Head(q) = q[1] /\ t \in Seq(Messages) /\ Len(t) = Len(q) - 1
      /\ \A k \in 1 .. Len(t) : t[k] = q[k + 1]
  BY HeadTailProperties
<1>2. DOMAIN t = 1 .. Len(t) /\ DOMAIN q = 1 .. Len(q) /\ Len(q) \in Nat /\ Len(q) > 0
      /\ Len(t) \in Nat
  BY <1>1, LenProperties, EmptySeq
<1> HIDE DEF t
<1>3. \A k \in DOMAIN t : k + 1 \in DOMAIN q /\ t[k] = q[k + 1] /\ k \in Nat
  BY <1>1, <1>2
<1>4. \A k \in DOMAIN q : k \in Nat /\ (k = 1 \/ (k - 1 \in DOMAIN t /\ t[k - 1] = q[k]))
  BY <1>1, <1>2
<1>5. CASE v = n /\ \A k \in DOMAIN q : q[k].type # "STATE"
  <2>1. w = n
    BY <1>1, <1>2, <1>5
  <2>2. \A k \in DOMAIN t : t[k].type # "STATE"
    BY <1>3, <1>5
  <2> QED BY <2>1, <2>2 DEF Shows, t
<1>6. ASSUME NEW k \in DOMAIN q, q[k] = State(n), \A j \in DOMAIN q : j > k => q[j].type # "STATE"
      PROVE  Shows(t, w, n)
  <2>1. CASE k = 1
    <3>1. w = n
      BY <1>1, <1>6, <2>1 DEF State
    <3>2. \A j \in DOMAIN t : t[j].type # "STATE"
      <4> SUFFICES ASSUME NEW j \in DOMAIN t PROVE t[j].type # "STATE"
        OBVIOUS
      <4>1. j + 1 > k /\ j + 1 \in DOMAIN q /\ t[j] = q[j + 1]
        BY <1>2, <1>3, <2>1
      <4> QED BY <1>6, <4>1
    <3> QED BY <3>1, <3>2 DEF Shows
  <2>2. CASE k # 1
    <3>1. k - 1 \in DOMAIN t /\ t[k - 1] = State(n)
      BY <1>4, <1>6, <2>2
    <3>2. ASSUME NEW j \in DOMAIN t, j > k - 1 PROVE t[j].type # "STATE"
      <4>1. j + 1 > k /\ j + 1 \in DOMAIN q /\ t[j] = q[j + 1]
        BY <1>3, <1>4, <3>2
      <4> QED BY <1>6, <4>1
    <3> QED BY <3>1, <3>2 DEF Shows
  <2> QED BY <2>1, <2>2
<1> QED BY <1>5, <1>6 DEF Shows, t

-----------------------------------------------------------------------------
(* The board *)

LEMMA CellsCount == IsFiniteSet(Cells) /\ Cardinality(Cells) = 9
<1>1. 0 \in Int /\ 2 \in Int /\ (IF 0 > 2 THEN 0 ELSE 2 - 0 + 1) = 3
  OBVIOUS
<1>2. IsFiniteSet(0 .. 2) /\ Cardinality(0 .. 2) = 3
  BY <1>1, FS_Interval, Zenon
<1> QED BY <1>2, FS_Product DEF Cells

LEMMA MarkedCount ==
  ASSUME NEW b \in AnyBoard
  PROVE  /\ IsFiniteSet(Marked(b)) /\ Cardinality(Marked(b)) \in 0 .. 9
         /\ Cardinality(Marked(b)) = 9 <=> \A x \in Cells : b[x] # 0
<1>1. Marked(b) \subseteq Cells
  BY DEF Marked
<1>2. IsFiniteSet(Marked(b)) /\ Cardinality(Marked(b)) \in Nat /\ Cardinality(Marked(b)) <= 9
  BY <1>1, CellsCount, FS_Subset, FS_CardinalityType
<1>3. Cardinality(Marked(b)) = 9 => Marked(b) = Cells
  BY <1>1, CellsCount, FS_Subset
<1>4. Marked(b) = Cells <=> \A x \in Cells : b[x] # 0
  BY DEF Marked
<1> QED BY <1>2, <1>3, <1>4, CellsCount

\* A mark on a free cell.
LEMMA MarkOne ==
  ASSUME NEW b \in AnyBoard, NEW x \in Cells, b[x] = 0, NEW p \in Players
  PROVE  /\ [b EXCEPT ![x] = p] \in AnyBoard
         /\ Cardinality(Marked([b EXCEPT ![x] = p])) = Cardinality(Marked(b)) + 1
<1> DEFINE c == [b EXCEPT ![x] = p]
<1>1. c \in AnyBoard /\ Marked(c) = Marked(b) \cup {x} /\ x \notin Marked(b)
  BY DEF AnyBoard, Marked, Players
<1> QED BY <1>1, MarkedCount, FS_AddElement

LEMMA TurnAlternates ==
  ASSUME NEW n \in Nat
  PROVE  /\ (IF n % 2 = 0 THEN 1 ELSE 2) \in Players
         /\ (IF (n + 1) % 2 = 0 THEN 1 ELSE 2) = 3 - (IF n % 2 = 0 THEN 1 ELSE 2)
BY DEF Players

\* The game is over exactly when check_winner() or the count of moves says so.
LEMMA EndsIsOver ==
  ASSUME TypeOK, move_count = Cardinality(Marked(board))
  PROVE  /\ Ends <=> Game!Over(board)
         /\ Ends => Game!IsVerdict(board, check_winner(board))
         /\ check_winner(board) \in 0 .. 2
<1>1. board \in AnyBoard
  BY DEF TypeOK, AnyBoard
<1>2. Game!Full(board) <=> move_count = 9
  BY <1>1, MarkedCount DEF Game!Full, Game!Free, Game!Cells, Cells
<1>3. /\ check_winner(board) = 0 <=> \A p \in Players : ~ Game!Has(board, p)
      /\ check_winner(board) # 0 => /\ check_winner(board) \in Players
                                    /\ Game!Has(board, check_winner(board))
  BY <1>1, CheckWinnerCorrect
<1>4. check_winner(board) \in 0 .. 2 /\ (check_winner(board) > 0 <=> check_winner(board) # 0)
  BY <1>3 DEF Players
<1>5. Ends <=> Game!Over(board)
  BY <1>2, <1>3, <1>4 DEF Ends, Game!Over, Game!Players, Players
<1>6. Ends => Game!IsVerdict(board, check_winner(board))
  BY <1>2, <1>3, <1>4 DEF Ends, Game!IsVerdict, Game!Draw, Game!Players, Players
<1> QED BY <1>4, <1>5, <1>6

-----------------------------------------------------------------------------
(* The server's steps *)

\* The server's program counter while nobody has been told the result.
Undecided == {"accept", "turn", "recv", "error", "state1", "state2", "judge"}

\* Two players who have not been told anything yet.
LEMMA NotTold ==
  ASSUME NetInv, NEW p \in Players, ~ Told(p)
  PROVE  /\ client[p] # "done" /\ shown[p] = 3 /\ (gone[p] # "up" => client[p] = "dead")
         /\ \A k \in DOMAIN toClient[p] : toClient[p][k].type # "RESULT"
         /\ Prompts(toClient[p]) = {} => Calm(toClient[p])
<1>1. Session(p) /\ toClient[p] \in Seq(Messages)
  BY DEF NetInv
<1>2. \A k \in DOMAIN toClient[p] : /\ toClient[p][k].type # "RESULT"
                                    /\ toClient[p][k].type \in {"TURN", "ERROR", "STATE", "RESULT"}
  BY <1>1, MessageTypes DEF Session, Verdict
<1> QED BY <1>1, <1>2 DEF Session, Prompts, Calm

\* What the network sees of a step of the server.
Sends(p, m, next) ==
  /\ SendTo(p, m, next)
  /\ \/ pc = "turn" /\ p = current_player /\ m = [type |-> "TURN"] /\ next = "recv"
     \/ pc = "error" /\ p = current_player /\ m = [type |-> "ERROR"] /\ next = "turn"
     \/ pc = "state1" /\ p = 1 /\ m = State(move_count) /\ next = "state2"
     \/ pc = "state2" /\ p = 2 /\ m = State(move_count) /\ next = "judge"
     \/ /\ pc = "result1" /\ p = 1 /\ next = "result2"
        /\ m = [type |-> "RESULT", winner |-> check_winner(board)]
     \/ /\ pc = "result2" /\ p = 2 /\ next = "closed"
        /\ m = [type |-> "RESULT", winner |-> check_winner(board)]
  /\ UNCHANGED <<players, board, current_player, move_count, toServer, client, view, shown>>

LEMMA ServerSends ==
  ASSUME NetInv, notify_turn \/ notify_turn_error \/ send_state_update \/ Result
  PROVE  \E p \in Players, m \in Messages, next \in {"recv", "turn", "state2", "judge", "result2", "closed"} :
           Sends(p, m, next)
<1>1. /\ current_player \in Players /\ 1 \in Players /\ 2 \in Players /\ move_count \in 0 .. 9
      /\ check_winner(board) \in 0 .. 2
  BY EndsIsOver DEF NetInv, TypeOK, BoardInv, Players
<1>2. CASE notify_turn
  <2>1. Sends(current_player, [type |-> "TURN"], "recv")
    BY <1>2 DEF notify_turn, Sends
  <2> QED BY <1>1, <2>1, MessageTypes
<1>3. CASE notify_turn_error
  <2>1. Sends(current_player, [type |-> "ERROR"], "turn")
    BY <1>3 DEF notify_turn_error, Sends
  <2> QED BY <1>1, <2>1, MessageTypes
<1>4. CASE send_state_update
  <2>1. Sends(1, State(move_count), "state2") \/ Sends(2, State(move_count), "judge")
    BY <1>4 DEF send_state_update, SendState, State, Sends
  <2> QED BY <1>1, <2>1, MessageTypes
<1>5. CASE Result
  <2>1. \/ Sends(1, [type |-> "RESULT", winner |-> check_winner(board)], "result2")
        \/ Sends(2, [type |-> "RESULT", winner |-> check_winner(board)], "closed")
    BY <1>5 DEF Result, SendResult, Sends
  <2> QED BY <1>1, <2>1, MessageTypes
<1> QED BY <1>2, <1>3, <1>4, <1>5

\* A player to whom nothing is sent: it does not matter where the server goes,
\* except to a prompt or an answer of this player.
LEMMA BystanderKeeps ==
  ASSUME NetInv, NEW d \in Players,
         UNCHANGED <<board, move_count, client, view, shown>>,
         toClient'[d] = toClient[d], gone'[d] = "up" <=> gone[d] = "up",
         Told(d) => Told(d)',
         client[d] # "dead" => /\ Behind(d) => Behind(d)'
                               /\ pc' # "killed" => Await(d)'
  PROVE  Session(d)'
<1>1. Session(d)
  BY DEF NetInv
<1>2. Ends' = Ends /\ check_winner(board)' = check_winner(board)
  BY DEF Ends
<1>3. \A k \in DOMAIN toClient'[d] : Verdict(d, toClient[d][k])'
  BY <1>1, <1>2 DEF Session, Verdict
<1>4. client[d] # "dead" =>
        \/ Shows(toClient'[d], view'[d], move_count')
        \/ Behind(d)' /\ Calm(toClient'[d]) /\ client'[d] \notin {"scanf", "done"}
  BY <1>1 DEF Session
<1> QED BY <1>1, <1>2, <1>3, <1>4 DEF Session

LEMMA RecordTypes ==
  ASSUME NEW f \in [Players -> Seq(Messages)], NEW g \in [Players -> Seq(Moves)]
  PROVE  \A p \in Players : /\ \A k \in DOMAIN f[p] : f[p][k] \in Messages
                            /\ \A k \in DOMAIN g[p] : g[p][k] \in Moves
OBVIOUS

LEMMA SendTypes ==
  ASSUME NetInv, NEW p \in Players, NEW m \in Messages,
         NEW next \in {"recv", "turn", "state2", "judge", "result2", "closed"}, Sends(p, m, next)
  PROVE  TypeOK' /\ toClient' \in [Players -> Seq(Messages)] /\ toServer' \in [Players -> Seq(Moves)]
         /\ BoardInv'
<1>t. /\ TypeOK /\ toClient \in [Players -> Seq(Messages)] /\ toServer \in [Players -> Seq(Moves)]
      /\ gone \in [Players -> {"up", "fin", "rst", "broken"}]
  BY DEF NetInv, TypeOK
<1>1. UNCHANGED <<players, board, current_player, move_count, toServer, client, view, shown>>
  BY DEF Sends
<1>2. /\ toClient' \in [Players -> Seq(Messages)] /\ pc' \in {next, "killed"}
      /\ gone' \in [Players -> {"up", "fin", "rst", "broken"}]
  <2>1. Append(toClient[p], m) \in Seq(Messages)
    BY <1>t, AppendProperties
  <2> QED BY <1>t, <2>1 DEF Sends, SendTo
<1>3. TypeOK'
  <2>1. \A q \in Players : /\ \A k \in DOMAIN toClient'[q] : toClient'[q][k] \in Messages
                           /\ \A k \in DOMAIN toServer'[q] : toServer'[q][k] \in Moves
    BY <1>t, <1>1, <1>2, RecordTypes
  <2> QED BY <1>t, <1>1, <1>2, <2>1 DEF TypeOK
<1>4. BoardInv'
  <2>1. Ends' = Ends /\ Turn' = Turn /\ Marked(board)' = Marked(board)
    BY <1>1 DEF Ends, Turn
  <2>2. \/ pc = "turn" /\ next = "recv"
        \/ pc = "error" /\ next = "turn"
        \/ pc = "state1" /\ next = "state2"
        \/ pc = "state2" /\ next = "judge"
        \/ pc = "result1" /\ next = "result2"
        \/ pc = "result2" /\ next = "closed"
    BY DEF Sends
  <2> QED BY <1>1, <1>2, <2>1, <2>2 DEF NetInv, BoardInv
<1> QED BY <1>t, <1>1, <1>2, <1>3, <1>4

LEMMA SendKeeps ==
  ASSUME NetInv, NEW p \in Players, NEW m \in Messages,
         NEW next \in {"recv", "turn", "state2", "judge", "result2", "closed"}, Sends(p, m, next)
  PROVE  \A d \in Players : Session(d)'
<1>1. UNCHANGED <<players, board, current_player, move_count, toServer, client, view, shown>>
  BY DEF Sends
<1>2. /\ pc \in {"turn", "error", "state1", "state2", "result1", "result2"} /\ ~ Told(p)
      /\ \A d \in Players : d # p /\ Told(d) => next = "closed"
      /\ \A d \in Players : d # p /\ Behind(d) => next = "state2" /\ d = 2
      /\ next = "recv" => p = current_player
  BY DEF Sends, Told, Behind, Players
<1>3. /\ gone \in [Players -> {"up", "fin", "rst", "broken"}]
      /\ toClient \in [Players -> Seq(Messages)]
  BY DEF NetInv, TypeOK
<1>4. \A d \in Players : client[d] # "dead" =>
        Prompts(toClient[d]) = {} /\ client[d] # "scanf" /\ toServer[d] = <<>>
  BY <1>2 DEF NetInv, Session, Await, Prompted
<1>5. ASSUME NEW d \in Players, d # p \/ client[d] = "dead", pc' = next,
             toClient'[d] = toClient[d], gone'[d] = "up" <=> gone[d] = "up"
      PROVE  Session(d)'
  <2>1. Told(d) => Told(d)'
    BY <1>2, <1>5 DEF Told
  <2>2. client[d] # "dead" => (Behind(d) => Behind(d)')
    BY <1>2, <1>5 DEF Behind
  <2>3. client[d] # "dead" => Await(d)'
    BY <1>1, <1>2, <1>4, <1>5 DEF Await, Prompted
  <2> QED BY <1>1, <1>5, <2>1, <2>2, <2>3, BystanderKeeps
<1>6. CASE pc' = "killed" /\ UNCHANGED <<toClient, gone>>
  <2> SUFFICES ASSUME NEW d \in Players PROVE Session(d)'
    OBVIOUS
  <2>1. Told(d)' /\ Behind(d)'
    BY <1>6 DEF Told, Behind
  <2> QED BY <1>1, <1>6, <2>1, BystanderKeeps
<1>7. CASE /\ gone[p] \in {"fin", "rst"} /\ gone' = [gone EXCEPT ![p] = "broken"]
           /\ pc' = next /\ UNCHANGED toClient
  <2>1. client[p] = "dead"
    BY <1>2, <1>7, NotTold
  <2>2. \A d \in Players : gone'[d] = "up" <=> gone[d] = "up"
    BY <1>3, <1>7
  <2> QED BY <1>5, <1>7, <2>1, <2>2
<1>8. CASE /\ gone[p] = "up" /\ toClient' = [toClient EXCEPT ![p] = Append(@, m)]
           /\ pc' = next /\ UNCHANGED gone
  <2>1. ASSUME NEW d \in Players, d # p PROVE Session(d)'
    BY <1>3, <1>5, <1>8, <2>1
  <2> DEFINE q == toClient[p]
  <2>2. /\ Session(p) /\ client[p] \notin {"done", "dead", "scanf"} /\ shown[p] = 3 /\ Calm(q)
        /\ \A k \in DOMAIN q : q[k].type # "RESULT"
        /\ Prompts(q) = {} /\ toServer[p] = <<>>
    BY <1>2, <1>4, <1>8, NotTold DEF NetInv, Session
  <2>3. /\ toClient'[p] = Append(q, m) /\ q \in Seq(Messages)
        /\ Lasts(Append(q, m)) /\ (m.type \in {"STATE", "ERROR"} => Calm(Append(q, m)))
        /\ Prompts(Append(q, m)) = {} <=> m.type # "TURN"
        /\ \A k \in DOMAIN Append(q, m) :
             Append(q, m)[k] = m \/ (k \in DOMAIN q /\ Append(q, m)[k] = q[k])
    BY <1>3, <1>8, <2>2, AppendRecord
  <2>4. /\ m.type # "STATE" /\ Shows(q, view[p], move_count) => Shows(Append(q, m), view[p], move_count)
        /\ m = State(move_count) => Shows(Append(q, m), view[p], move_count)
    BY <2>3, AppendShows
  <2> HIDE DEF q
  <2>5. Ends' = Ends /\ check_winner(board)' = check_winner(board)
    BY <1>1 DEF Ends
  <2>6. /\ m.type = "TURN" <=> next = "recv"
        /\ m.type = "STATE" => m = State(move_count)
        /\ m.type # "STATE" => ~ Behind(p)
        /\ m.type = "RESULT" =>
             /\ next = "closed" \/ (next = "result2" /\ p = 1)
             /\ m.winner = check_winner(board) /\ Ends
    BY <1>2 DEF Sends, State, Behind, NetInv, BoardInv
  <2>7. \A k \in DOMAIN toClient'[p] : Verdict(p, toClient[p][k])'
    BY <1>8, <2>2, <2>3, <2>5, <2>6 DEF Verdict, Told
  <2>8. Await(p)'
    BY <1>1, <1>2, <1>8, <2>2, <2>3, <2>6 DEF Await, Prompted
  <2>9. Shows(toClient[p], view[p], move_count)'
    <3>1. ~ Behind(p) => Shows(q, view[p], move_count)
      BY <2>2 DEF Session, q
    <3> QED BY <1>1, <2>3, <2>4, <2>6, <3>1
  <2>10. Session(p)'
    BY <1>1, <1>8, <2>2, <2>3, <2>7, <2>8, <2>9 DEF Session
  <2> QED BY <2>1, <2>10
<1> QED BY <1>6, <1>7, <1>8 DEF Sends, SendTo

\* A step of the server that sends nothing, and Await() of everyone after it.
LEMMA QuietServerKeeps ==
  ASSUME NetInv, Accept \/ RecvInvalid \/ RecvNothing \/ Judge,
         \A d \in Players : client[d] # "dead" => Await(d)'
  PROVE  \A d \in Players : Session(d)'
<1>1. UNCHANGED <<board, move_count, client, view, shown, toClient>>
  BY DEF Accept, RecvInvalid, RecvNothing, Judge
<1>2. pc \in {"accept", "recv", "judge"}
  BY DEF Accept, RecvInvalid, RecvNothing, Judge
<1>3. \A d \in Players : ~ Told(d) /\ ~ Behind(d)
  BY <1>2 DEF Told, Behind
<1>4. \A d \in Players : gone'[d] = "up" <=> gone[d] = "up"
  BY DEF NetInv, TypeOK, Accept, RecvInvalid, RecvNothing, Judge
<1> QED BY <1>1, <1>3, <1>4, BystanderKeeps

LEMMA AcceptKeeps == ASSUME NetInv, Accept PROVE NetInv'
<1>1. /\ pc = "accept" /\ players' = players + 1
      /\ pc' = IF players' = 2 THEN "turn" ELSE "accept"
      /\ UNCHANGED <<board, current_player, move_count, toClient, toServer, client, view, shown, gone>>
  BY DEF Accept
<1>2. players' \in 0 .. 2 /\ (pc' = "accept" => players' < 2) /\ pc' \in {"accept", "turn"}
  BY <1>1 DEF NetInv, TypeOK, BoardInv
<1>3. TypeOK'
  BY <1>1, <1>2 DEF NetInv, TypeOK
<1>4. BoardInv'
  BY <1>1, <1>2 DEF NetInv, BoardInv, Ends, Turn
<1>5. \A d \in Players : client[d] # "dead" => Await(d)'
  BY <1>1, <1>2 DEF NetInv, Session, Await, Prompted
<1>6. \A d \in Players : Session(d)'
  BY <1>5, QuietServerKeeps
<1> QED BY <1>1, <1>3, <1>4, <1>6 DEF NetInv

\* The sequence of moves after the first one has been received.
LEMMA OtherMoves ==
  ASSUME NEW s \in Seq(Moves), s # <<>>
  PROVE  Head(s) \in Moves /\ Tail(s) \in Seq(Moves) /\ (Len(s) = 1 => Tail(s) = <<>>)
<1>1. Head(s) \in Moves /\ Tail(s) \in Seq(Moves) /\ Len(Tail(s)) = Len(s) - 1
  BY HeadTailProperties
<1> QED BY <1>1, EmptySeq

LEMMA ReceiveMove ==
  ASSUME NetInv, pc = "recv", toServer[current_player] # <<>>, Receive
  PROVE  /\ current_player \in Players /\ Head(toServer[current_player]) \in Moves
         /\ toServer' \in [Players -> Seq(Moves)]
         /\ \A d \in Players : client[d] # "dead" =>
              Prompts(toClient[d]) = {} /\ client[d] # "scanf" /\ toServer'[d] = <<>>
<1> DEFINE p == current_player
<1>1. p \in Players /\ toServer \in [Players -> Seq(Moves)] /\ toServer[p] \in Seq(Moves)
  BY DEF NetInv, TypeOK
<1>2. toServer' = [toServer EXCEPT ![p] = Tail(toServer[p])]
  BY DEF Receive
<1>3. /\ Head(toServer[p]) \in Moves /\ Tail(toServer[p]) \in Seq(Moves)
      /\ Len(toServer[p]) = 1 => Tail(toServer[p]) = <<>>
  BY <1>1, OtherMoves
<1>4. ASSUME NEW d \in Players, client[d] # "dead"
      PROVE  Prompts(toClient[d]) = {} /\ client[d] # "scanf" /\ toServer'[d] = <<>>
  <2>1. Await(d)
    BY <1>4 DEF NetInv, Session
  <2>2. CASE d = p
    BY <1>1, <1>2, <1>3, <2>1, <2>2 DEF Await, Prompted
  <2>3. CASE d # p
    BY <1>1, <1>2, <2>1, <2>3 DEF Await, Prompted
  <2> QED BY <2>2, <2>3
<1> QED BY <1>1, <1>2, <1>3, <1>4

LEMMA RecvInvalidKeeps == ASSUME NetInv, RecvInvalid PROVE NetInv'
<1>1. /\ pc = "recv" /\ pc' = "error" /\ toServer[current_player] # <<>> /\ Receive
      /\ UNCHANGED <<players, board, current_player, move_count, toClient, client, view, shown, gone>>
  BY DEF RecvInvalid
<1>2. /\ toServer' \in [Players -> Seq(Moves)]
      /\ \A d \in Players : client[d] # "dead" =>
           Prompts(toClient[d]) = {} /\ client[d] # "scanf" /\ toServer'[d] = <<>>
  BY <1>1, ReceiveMove
<1>3. TypeOK'
  <2>1. \A q \in Players : \A k \in DOMAIN toServer'[q] : toServer'[q][k] \in Moves
    BY <1>2, RecordTypes DEF NetInv
  <2> QED BY <1>1, <2>1 DEF NetInv, TypeOK
<1>4. BoardInv'
  BY <1>1 DEF NetInv, BoardInv, Ends, Turn
<1>5. \A d \in Players : client[d] # "dead" => Await(d)'
  BY <1>1, <1>2 DEF Await, Prompted
<1>6. \A d \in Players : Session(d)'
  BY <1>5, QuietServerKeeps
<1> QED BY <1>1, <1>2, <1>3, <1>4, <1>6 DEF NetInv

LEMMA RecvNothingKeeps == ASSUME NetInv, RecvNothing PROVE NetInv'
<1>1. /\ pc = "recv" /\ pc' = "turn" /\ gone[current_player] # "up"
      /\ gone' = [gone EXCEPT ![current_player] = IF @ = "rst" THEN "broken" ELSE @]
      /\ UNCHANGED <<players, board, current_player, move_count, toClient, toServer, client, view, shown>>
  BY DEF RecvNothing
<1>2. current_player \in Players /\ client[current_player] = "dead"
  <2>1. current_player \in Players /\ ~ Told(current_player)
    BY <1>1 DEF NetInv, TypeOK, Told
  <2> QED BY <1>1, <2>1, NotTold
<1>3. TypeOK'
  BY <1>1 DEF NetInv, TypeOK
<1>4. BoardInv'
  BY <1>1 DEF NetInv, BoardInv, Ends, Turn
<1>5. \A d \in Players : client[d] # "dead" => Await(d)'
  BY <1>1, <1>2 DEF NetInv, Session, Await, Prompted
<1>6. \A d \in Players : Session(d)'
  BY <1>5, QuietServerKeeps
<1> QED BY <1>1, <1>3, <1>4, <1>6 DEF NetInv

LEMMA JudgeKeeps == ASSUME NetInv, Judge PROVE NetInv'
<1>1. /\ pc = "judge" /\ pc' = IF Ends THEN "result1" ELSE "turn"
      /\ current_player' = IF Ends THEN current_player ELSE IF current_player = 1 THEN 2 ELSE 1
      /\ UNCHANGED <<players, board, move_count, toClient, toServer, client, view, shown, gone>>
  BY DEF Judge
<1>2. current_player' \in Players /\ current_player \in Players
  BY <1>1 DEF NetInv, TypeOK, Players
<1>3. TypeOK'
  BY <1>1, <1>2 DEF NetInv, TypeOK
<1>4. BoardInv'
  <2>1. Ends' = Ends /\ Turn' = Turn /\ Turn \in Players /\ current_player # Turn
    BY <1>1, TurnAlternates DEF Ends, Turn, Players, NetInv, BoardInv
  <2>2. ~ Ends => current_player' = Turn'
    BY <1>1, <1>2, <2>1 DEF Players
  <2> QED BY <1>1, <2>1, <2>2 DEF NetInv, BoardInv
<1>5. \A d \in Players : client[d] # "dead" => Await(d)'
  BY <1>1 DEF NetInv, Session, Await, Prompted
<1>6. \A d \in Players : Session(d)'
  BY <1>5, QuietServerKeeps
<1> QED BY <1>1, <1>3, <1>4, <1>6 DEF NetInv

\* A mark: it is the next player's, and all living clients are to be sent the
\* board before they are asked anything.
LEMMA RecvValidKeeps == ASSUME NetInv, RecvValid PROVE NetInv'
<1> DEFINE p == current_player
           m == Head(toServer[p])
           x == <<m.row, m.col>>
<1>1. /\ pc = "recv" /\ pc' = "state1" /\ toServer[p] # <<>> /\ Receive
      /\ x \in Cells /\ board[x] = 0 /\ board' = [board EXCEPT ![x] = p]
      /\ move_count' = move_count + 1
      /\ UNCHANGED <<players, current_player, toClient, client, view, shown, gone>>
  BY DEF RecvValid, Valid
<1>2. /\ p \in Players /\ toServer' \in [Players -> Seq(Moves)]
      /\ \A d \in Players : client[d] # "dead" =>
           Prompts(toClient[d]) = {} /\ client[d] # "scanf" /\ toServer'[d] = <<>>
  BY <1>1, ReceiveMove
<1> HIDE DEF x
<1>3. /\ board \in AnyBoard /\ board' \in AnyBoard /\ move_count = Cardinality(Marked(board))
      /\ move_count' = Cardinality(Marked(board'))
  <2>1. board \in AnyBoard /\ move_count = Cardinality(Marked(board))
    BY DEF NetInv, BoardInv, TypeOK, AnyBoard
  <2>2. board' \in AnyBoard /\ Cardinality(Marked(board')) = Cardinality(Marked(board)) + 1
    BY <1>1, <1>2, <2>1, MarkOne
  <2> QED BY <1>1, <2>1, <2>2
<1>4. move_count' \in 0 .. 9 /\ move_count \in Nat
  BY <1>3, MarkedCount
<1>5. TypeOK'
  <2>1. \A q \in Players : \A k \in DOMAIN toServer'[q] : toServer'[q][k] \in Moves
    BY <1>2, RecordTypes DEF NetInv
  <2> QED BY <1>1, <1>3, <1>4, <2>1 DEF NetInv, TypeOK, AnyBoard
<1>6. BoardInv'
  <2>1. Turn \in Players /\ Turn' = 3 - Turn /\ current_player' = Turn
    BY <1>1, <1>4, TurnAlternates DEF Turn, NetInv, BoardInv
  <2>2. current_player' # Turn'
    BY <2>1 DEF Players
  <2> QED BY <1>1, <1>3, <2>2 DEF BoardInv
<1>7. ASSUME NEW d \in Players PROVE Session(d)'
  <2>1. ~ Told(d) /\ ~ Told(d)' /\ Behind(d)'
    BY <1>1 DEF Told, Behind
  <2>2. /\ Session(d) /\ client[d] # "done" /\ shown[d] = 3
        /\ \A k \in DOMAIN toClient[d] : toClient[d][k].type # "RESULT"
        /\ Prompts(toClient[d]) = {} => Calm(toClient[d])
    BY <2>1, NotTold DEF NetInv
  <2>3. client[d] # "dead" => Await(d)'
    BY <1>1, <1>2 DEF Await, Prompted
  <2>4. \A k \in DOMAIN toClient'[d] : Verdict(d, toClient[d][k])'
    BY <1>1, <2>2 DEF Verdict
  <2> QED BY <1>1, <1>2, <2>1, <2>2, <2>3, <2>4 DEF Session
<1> QED BY <1>1, <1>2, <1>5, <1>6, <1>7 DEF NetInv

-----------------------------------------------------------------------------
(* The clients' steps *)

Link(d) == <<toClient[d], toServer[d], client[d], view[d], shown[d], gone[d]>>

\* A client's step changes nothing of the other's, nor the board.
LEMMA ClientFrame ==
  ASSUME NetInv, NEW p \in Players, UNCHANGED server, Session(p)',
         \A d \in Players : d # p => UNCHANGED Link(d)
  PROVE  BoardInv' /\ \A d \in Players : Session(d)'
<1>1. Ends' = Ends /\ check_winner(board)' = check_winner(board) /\ Turn' = Turn
      /\ UNCHANGED <<pc, players, board, current_player, move_count>>
  BY DEF server, Ends, Turn
<1>2. BoardInv'
  BY <1>1 DEF NetInv, BoardInv
<1>3. ASSUME NEW d \in Players, d # p PROVE Session(d)'
  <2>1. UNCHANGED Link(d) /\ Session(d)
    BY <1>3 DEF NetInv
  <2>2. /\ Told(d)' <=> Told(d)
        /\ Behind(d)' <=> Behind(d)
    BY <1>1 DEF Told, Behind
  <2>3. Await(d)' <=> Await(d)
    BY <1>1, <2>1 DEF Await, Prompted, Link
  <2>4. \A k \in DOMAIN toClient'[d] : Verdict(d, toClient[d][k])'
    BY <1>1, <2>1, <2>2 DEF Verdict, Session, Link
  <2> QED BY <1>1, <2>1, <2>2, <2>3, <2>4 DEF Session, Link
<1> QED BY <1>2, <1>3

LEMMA ConnectKeeps == ASSUME NetInv, NEW p \in Players, Connect(p) PROVE NetInv'
<1>1. /\ client[p] = "start" /\ client' = [client EXCEPT ![p] = "recv"]
      /\ UNCHANGED <<server, toClient, toServer, view, shown, gone>>
  BY DEF Connect
<1>2. client'[p] = "recv" /\ \A d \in Players : d # p => client'[d] = client[d]
  BY <1>1 DEF NetInv, TypeOK
<1>3. TypeOK'
  BY <1>1 DEF NetInv, TypeOK, server
<1>4. UNCHANGED <<pc, board, current_player, move_count>> /\ Ends' = Ends
      /\ check_winner(board)' = check_winner(board)
  BY <1>1 DEF server, Ends
<1>5. Session(p)'
  <2>1. Session(p)
    BY DEF NetInv
  <2>2. (Told(p)' <=> Told(p)) /\ (Behind(p)' <=> Behind(p))
    BY <1>4 DEF Told, Behind
  <2>3. Await(p)' <=> Await(p)
    BY <1>1, <1>2, <1>4 DEF Await, Prompted
  <2>4. \A k \in DOMAIN toClient'[p] : Verdict(p, toClient[p][k])'
    BY <1>1, <1>4, <2>1, <2>2 DEF Verdict, Session
  <2> QED BY <1>1, <1>2, <1>4, <2>1, <2>2, <2>3, <2>4 DEF Session
<1>6. \A d \in Players : d # p => UNCHANGED Link(d)
  BY <1>1, <1>2 DEF Link
<1>7. BoardInv' /\ \A d \in Players : Session(d)'
  BY <1>1, <1>5, <1>6, ClientFrame
<1> QED BY <1>1, <1>3, <1>7 DEF NetInv

\* A record is received: a prompt or a result only behind all boards.
LEMMA ClientRecvKeeps == ASSUME NetInv, NEW p \in Players, ClientRecv(p) PROVE NetInv'
<1> DEFINE q == toClient[p]
           m == Head(q)
<1>t. /\ TypeOK /\ q \in Seq(Messages) /\ toClient \in [Players -> Seq(Messages)]
      /\ client \in [Players -> {"start", "recv", "scanf", "done", "dead"}]
      /\ view \in [Players -> 0 .. 9] /\ shown \in [Players -> Results]
      /\ gone \in [Players -> {"up", "fin", "rst", "broken"}]
  BY DEF NetInv, TypeOK
<1>1. /\ client[p] = "recv" /\ q # <<>> /\ toClient' = [toClient EXCEPT ![p] = Tail(q)]
      /\ UNCHANGED <<server, toServer>>
  BY DEF ClientRecv
<1>2. /\ Session(p) /\ gone[p] = "up" /\ shown[p] = 3 /\ Lasts(q)
      /\ (pc # "killed" => Await(p))
  BY <1>1 DEF NetInv, Session
<1>3. /\ m = q[1] /\ 1 \in DOMAIN q /\ m \in Messages /\ Tail(q) \in Seq(Messages)
      /\ \A k \in DOMAIN Tail(q) : k + 1 \in DOMAIN q /\ Tail(q)[k] = q[k + 1]
      /\ Lasts(Tail(q)) /\ (Calm(q) => Calm(Tail(q)))
      /\ m.type \in {"TURN", "RESULT"} => Tail(q) = <<>>
      /\ m.type # "TURN" => (Prompts(Tail(q)) = {} <=> Prompts(q) = {})
      /\ m.type = "TURN" => Prompts(Tail(q)) = {} /\ Prompts(q) # {}
  BY <1>t, <1>1, <1>2, TailRecord
<1>4. Verdict(p, m)
  BY <1>2, <1>3 DEF Session
<1> DEFINE v == IF m.type = "STATE" THEN m.marks ELSE view[p]
<1>5. Shows(q, view[p], move_count) => Shows(Tail(q), v, move_count)
  BY <1>t, <1>1, TailShows
<1>6. /\ client' = [client EXCEPT ![p] = IF m.type = "TURN" THEN "scanf"
                                       ELSE IF m.type = "RESULT" THEN "done" ELSE @]
      /\ view' = [view EXCEPT ![p] = v]
      /\ shown' = [shown EXCEPT ![p] = IF m.type = "RESULT" THEN m.winner ELSE @]
      /\ gone' = [gone EXCEPT ![p] = IF m.type = "RESULT" THEN "fin" ELSE @]
  <2> HIDE DEF m
  <2>1. \/ m.type = "TURN" /\ client' = [client EXCEPT ![p] = "scanf"] /\ UNCHANGED <<view, shown, gone>>
        \/ m.type = "STATE" /\ view' = [view EXCEPT ![p] = m.marks] /\ UNCHANGED <<client, shown, gone>>
        \/ /\ m.type = "RESULT" /\ shown' = [shown EXCEPT ![p] = m.winner]
           /\ client' = [client EXCEPT ![p] = "done"] /\ gone' = [gone EXCEPT ![p] = "fin"]
           /\ UNCHANGED view
        \/ m.type = "ERROR" /\ UNCHANGED <<client, view, shown, gone>>
    BY Zenon DEF ClientRecv, m
  <2> QED BY <1>t, <2>1
<1>7. m.type \in {"TURN", "ERROR", "STATE", "RESULT"} /\ (m.type = "STATE" => m.marks \in 0 .. 9)
      /\ (m.type = "RESULT" => m.winner \in 0 .. 2)
  BY <1>3, MessageTypes
<1>8. /\ toClient' \in [Players -> Seq(Messages)] /\ toClient'[p] = Tail(q)
      /\ \A d \in Players : d # p => toClient'[d] = toClient[d]
  BY <1>t, <1>1, <1>3
<1> HIDE DEF q, m, v
<1>9. /\ client' \in [Players -> {"start", "recv", "scanf", "done", "dead"}]
      /\ shown' \in [Players -> Results] /\ gone' \in [Players -> {"up", "fin", "rst", "broken"}]
      /\ client'[p] = IF m.type = "TURN" THEN "scanf" ELSE IF m.type = "RESULT" THEN "done" ELSE "recv"
      /\ gone'[p] = IF m.type = "RESULT" THEN "fin" ELSE "up"
      /\ shown'[p] = IF m.type = "RESULT" THEN m.winner ELSE 3
      /\ \A d \in Players : d # p => client'[d] = client[d] /\ shown'[d] = shown[d] /\ gone'[d] = gone[d]
  BY <1>t, <1>1, <1>2, <1>6, <1>7 DEF Results
<1>10. /\ view' \in [Players -> 0 .. 9] /\ view'[p] = v
       /\ \A d \in Players : d # p => view'[d] = view[d]
  <2>1. v \in 0 .. 9
    BY <1>t, <1>7 DEF v
  <2> QED BY <1>t, <1>6, <2>1
<1>11. TypeOK'
  <2>1. \A d \in Players : \A k \in DOMAIN toClient'[d] : toClient'[d][k] \in Messages
    BY <1>8, RecordTypes DEF NetInv
  <2> QED BY <1>t, <1>1, <1>9, <1>10, <2>1 DEF TypeOK, server
<1>12. UNCHANGED <<pc, board, current_player, move_count>> /\ Ends' = Ends
       /\ check_winner(board)' = check_winner(board)
       /\ (Told(p)' <=> Told(p)) /\ (Behind(p)' <=> Behind(p))
  BY <1>1 DEF server, Ends, Told, Behind
<1>13. Session(p)'
  <2>1. gone'[p] = "up" <=> client'[p] \notin {"done", "dead"}
    BY <1>7, <1>9
  <2>2. client'[p] \in {"scanf", "done", "dead"} => toClient'[p] = <<>>
    BY <1>3, <1>8, <1>9
  <2>3. client'[p] = "done" => Told(p)' /\ Ends'
    BY <1>4, <1>9, <1>12 DEF Verdict
  <2>4. shown'[p] # 3 => client'[p] = "done"
    BY <1>7, <1>9
  <2>5. Lasts(toClient'[p])
    BY <1>3, <1>8
  <2>6. \A k \in DOMAIN toClient'[p] : Verdict(p, toClient[p][k])'
    <3>1. \A k \in DOMAIN q : Verdict(p, q[k])
      BY <1>2 DEF Session, q
    <3> QED BY <1>3, <1>8, <1>12, <3>1 DEF Verdict
  <2>7. pc' # "killed" => Await(p)'
    <3> SUFFICES ASSUME pc # "killed" PROVE Await(p)'
      BY <1>12
    <3>1. Await(p)
      BY <1>2
    <3>2. toServer'[p] = toServer[p]
      BY <1>1
    <3>3. CASE m.type = "TURN"
      BY <1>1, <1>3, <1>8, <1>9, <1>12, <3>1, <3>2, <3>3 DEF Await, Prompted, q
    <3>4. CASE m.type # "TURN"
      BY <1>1, <1>3, <1>8, <1>9, <1>12, <3>1, <3>2, <3>4 DEF Await, Prompted, q
    <3> QED BY <3>3, <3>4
  <2>8. \/ Shows(toClient'[p], view'[p], move_count')
        \/ Behind(p)' /\ Calm(toClient'[p]) /\ client'[p] \notin {"scanf", "done"}
    <3>1. CASE Shows(q, view[p], move_count)
      BY <1>5, <1>8, <1>10, <1>12, <3>1
    <3>2. CASE Behind(p) /\ Calm(q)
      <4>1. m.type \notin {"TURN", "RESULT"}
        BY <1>3, <3>2 DEF Calm
      <4> QED BY <1>3, <1>8, <1>9, <1>12, <3>2, <4>1
    <3> QED BY <1>1, <1>2, <3>1, <3>2 DEF Session, q
  <2> QED BY <2>1, <2>2, <2>3, <2>4, <2>5, <2>6, <2>7, <2>8 DEF Session
<1>14. \A d \in Players : d # p => UNCHANGED Link(d)
  BY <1>1, <1>8, <1>9, <1>10 DEF Link
<1>15. BoardInv' /\ \A d \in Players : Session(d)'
  BY <1>1, <1>13, <1>14, ClientFrame
<1> QED BY <1>1, <1>8, <1>11, <1>15 DEF NetInv

\* Whatever is typed, a MOVE carries two chars.
LEMMA CharType == \A n \in Int : Char(n) \in -128 .. 127
BY DEF Char

LEMMA MoveKeeps == ASSUME NetInv, NEW p \in Players, NEW in \in Inputs, ClientMove(p, in) PROVE NetInv'
<1> DEFINE m == [type |-> "MOVE", row |-> Char(in[1]), col |-> Char(in[2])]
<1>1. /\ client[p] = "scanf" /\ client' = [client EXCEPT ![p] = "recv"]
      /\ toServer' = [toServer EXCEPT ![p] = Append(@, m)]
      /\ UNCHANGED <<server, toClient, view, shown, gone>>
  BY DEF ClientMove
<1>2. m \in Moves
  <2>1. in[1] \in Int /\ in[2] \in Int
    BY InputsAssumption
  <2> QED BY <2>1, CharType DEF Moves
<1> HIDE DEF m
<1>t. TypeOK /\ toServer \in [Players -> Seq(Moves)] /\ toServer[p] \in Seq(Moves)
  BY DEF NetInv
<1>3. /\ Append(toServer[p], m) \in Seq(Moves)
      /\ toServer[p] = <<>> => Len(Append(toServer[p], m)) = 1
  BY <1>2, <1>t, AppendProperties
<1>4. /\ client'[p] = "recv" /\ client' \in [Players -> {"start", "recv", "scanf", "done", "dead"}]
      /\ toServer' \in [Players -> Seq(Moves)] /\ toServer'[p] = Append(toServer[p], m)
      /\ \A d \in Players : d # p => client'[d] = client[d] /\ toServer'[d] = toServer[d]
  BY <1>1, <1>3, <1>t DEF TypeOK
<1>5. TypeOK'
  <2>1. \A d \in Players : \A k \in DOMAIN toServer'[d] : toServer'[d][k] \in Moves
    BY <1>4, RecordTypes DEF NetInv
  <2> QED BY <1>1, <1>4, <1>t, <2>1 DEF TypeOK, server
<1>6. UNCHANGED <<pc, board, current_player, move_count>> /\ Ends' = Ends
      /\ check_winner(board)' = check_winner(board)
      /\ (Told(p)' <=> Told(p)) /\ (Behind(p)' <=> Behind(p))
  BY <1>1 DEF server, Ends, Told, Behind
<1>7. Session(p)'
  <2>1. Session(p)
    BY DEF NetInv
  <2>2. pc' # "killed" => Await(p)'
    BY <1>1, <1>3, <1>4, <1>6, <2>1 DEF Session, Await, Prompted
  <2>3. \A k \in DOMAIN toClient'[p] : Verdict(p, toClient[p][k])'
    BY <1>1, <1>6, <2>1 DEF Verdict, Session
  <2> QED BY <1>1, <1>4, <1>6, <2>1, <2>2, <2>3 DEF Session
<1>8. \A d \in Players : d # p => UNCHANGED Link(d)
  BY <1>1, <1>4 DEF Link
<1>9. BoardInv' /\ \A d \in Players : Session(d)'
  BY <1>1, <1>7, <1>8, ClientFrame
<1> QED BY <1>1, <1>4, <1>5, <1>9 DEF NetInv

LEMMA QuitKeeps == ASSUME NetInv, NEW p \in Players, Quit(p) PROVE NetInv'
<1>1. /\ client[p] \in {"recv", "scanf"} /\ client' = [client EXCEPT ![p] = "dead"]
      /\ gone' = [gone EXCEPT ![p] = IF toClient[p] = <<>> THEN "fin" ELSE "rst"]
      /\ toClient' = [toClient EXCEPT ![p] = <<>>]
      /\ UNCHANGED <<server, toServer, view, shown>>
  BY DEF Quit
<1>t. /\ TypeOK /\ toClient \in [Players -> Seq(Messages)] /\ <<>> \in Seq(Messages)
      /\ Lasts(<<>>) /\ DOMAIN <<>> = {}
  BY EmptySeq DEF NetInv, Lasts
<1>2. /\ client'[p] = "dead" /\ client' \in [Players -> {"start", "recv", "scanf", "done", "dead"}]
      /\ toClient'[p] = <<>> /\ toClient' \in [Players -> Seq(Messages)]
      /\ gone'[p] # "up" /\ gone' \in [Players -> {"up", "fin", "rst", "broken"}]
      /\ \A d \in Players : d # p => client'[d] = client[d] /\ toClient'[d] = toClient[d] /\ gone'[d] = gone[d]
  BY <1>1, <1>t DEF TypeOK
<1>3. TypeOK'
  <2>1. \A d \in Players : \A k \in DOMAIN toClient'[d] : toClient'[d][k] \in Messages
    BY <1>2, RecordTypes DEF NetInv
  <2> QED BY <1>1, <1>2, <1>t, <2>1 DEF TypeOK, server
<1>4. Session(p)'
  <2>1. shown'[p] = 3
    BY <1>1 DEF NetInv, Session
  <2> QED BY <1>2, <1>t, <2>1 DEF Session
<1>5. \A d \in Players : d # p => UNCHANGED Link(d)
  BY <1>1, <1>2 DEF Link
<1>6. BoardInv' /\ \A d \in Players : Session(d)'
  BY <1>1, <1>4, <1>5, ClientFrame
<1> QED BY <1>1, <1>2, <1>3, <1>6 DEF NetInv

-----------------------------------------------------------------------------
(* The theorems *)

LEMMA NetInit == Init => NetInv
<1> SUFFICES ASSUME Init PROVE NetInv
  OBVIOUS
<1>t. /\ 0 \in 0 .. 9 /\ 0 \in 0 .. 2 /\ 3 \in Results /\ 1 \in Players /\ <<>> \in Seq(Messages)
      /\ <<>> \in Seq(Moves) /\ DOMAIN <<>> = {} /\ 0 < 2
  BY EmptySeq DEF Results, Players
<1>1. TypeOK /\ toClient \in [Players -> Seq(Messages)] /\ toServer \in [Players -> Seq(Moves)]
  BY <1>t DEF Init, TypeOK
<1>2. board \in AnyBoard /\ (\A x \in Cells : board[x] = 0) /\ Marked(board) = {}
  BY <1>t DEF Init, AnyBoard, Marked
<1>3. move_count = Cardinality(Marked(board)) /\ move_count = 0
  BY <1>2, FS_EmptySet DEF Init
<1>4. ~ Ends /\ Turn = 1
  <2>1. \A k \in 1 .. 8 : ~ Complete(board, k)
    BY <1>2, FirstCells DEF Complete
  <2>2. check_winner(board) = 0
    BY <2>1 DEF check_winner
  <2>3. 0 % 2 = 0
    OBVIOUS
  <2> QED BY <1>3, <2>2, <2>3 DEF Ends, Turn
<1>5. BoardInv
  BY <1>t, <1>3, <1>4 DEF Init, BoardInv
<1>6. \A p \in Players : Session(p)
  BY <1>t DEF Init, Session, Lasts, Await, Prompted, Prompts, Shows
<1> QED BY <1>1, <1>5, <1>6 DEF NetInv

\* The next-state relation, by what the proof distinguishes.
LEMMA NetCases ==
  ASSUME [Next]_vars
  PROVE  \/ notify_turn \/ notify_turn_error \/ send_state_update \/ Result
         \/ Accept \/ RecvInvalid \/ RecvNothing \/ Judge \/ RecvValid
         \/ \E p \in Players : \/ Connect(p) \/ ClientRecv(p) \/ Quit(p)
                               \/ \E in \in Inputs : ClientMove(p, in)
         \/ UNCHANGED vars
BY DEF Next, Server, Moving

LEMMA NetStep == NetInv /\ [Next]_vars => NetInv'
<1> SUFFICES ASSUME NetInv, [Next]_vars PROVE NetInv'
  OBVIOUS
<1>1. CASE notify_turn \/ notify_turn_error \/ send_state_update \/ Result
  <2>1. PICK p \in Players, m \in Messages,
             next \in {"recv", "turn", "state2", "judge", "result2", "closed"} : Sends(p, m, next)
    BY <1>1, ServerSends
  <2> QED BY <2>1, SendTypes, SendKeeps DEF NetInv
<1>2. CASE Accept \/ RecvInvalid \/ RecvNothing \/ Judge \/ RecvValid
  BY <1>2, AcceptKeeps, RecvInvalidKeeps, RecvNothingKeeps, JudgeKeeps, RecvValidKeeps
<1>3. ASSUME NEW p \in Players, Connect(p) \/ ClientRecv(p) \/ Quit(p) PROVE NetInv'
  BY <1>3, ConnectKeeps, ClientRecvKeeps, QuitKeeps
<1>4. ASSUME NEW p \in Players, NEW in \in Inputs, ClientMove(p, in) PROVE NetInv'
  BY <1>4, MoveKeeps
<1>5. CASE UNCHANGED vars
  <2>1. UNCHANGED server /\ \A d \in Players : UNCHANGED Link(d)
    BY <1>5 DEF vars, Link
  <2>2. UNCHANGED <<pc, players, board, current_player, move_count>>
        /\ UNCHANGED <<toClient, toServer, client, view, shown, gone>>
    BY <1>5 DEF vars, server
  <2>3. TypeOK'
    BY <2>2 DEF NetInv, TypeOK
  <2>4. Session(1)'
    <3>1. 1 \in Players /\ (Told(1)' <=> Told(1)) /\ (Behind(1)' <=> Behind(1)) /\ Ends' = Ends
      BY <2>2 DEF Players, Told, Behind, Ends
    <3>2. Await(1)' <=> Await(1)
      BY <2>2 DEF Await, Prompted
    <3> QED BY <2>2, <3>1, <3>2, BystanderKeeps DEF NetInv, Session
  <2>5. BoardInv' /\ \A d \in Players : Session(d)'
    BY <2>1, <2>4, ClientFrame DEF Players
  <2> QED BY <2>2, <2>3, <2>5 DEF NetInv
<1> QED BY <1>1, <1>2, <1>3, <1>4, <1>5, NetCases

LEMMA NetCorrect == Spec => []NetInv
BY NetInit, NetStep, PTL DEF Spec

\* However the players' errors, departures and the server's sends interleave:
\* exactly while the server waits for a player who lives is one prompt or
\* answer of that player under way, and never one of the other.
THEOREM TurnDisciplineCorrect == Spec => []TurnDiscipline
<1>1. NetInv => TurnDiscipline
  <2> SUFFICES ASSUME NetInv, pc # "killed", NEW p \in Players, client[p] # "dead"
               PROVE  Outstanding(p) = IF Prompted(p) THEN 1 ELSE 0
    BY DEF TurnDiscipline, NetInv, Prompted
  <2> DEFINE q == toClient[p]
  <2>1. Await(p) /\ Lasts(q)
    BY DEF NetInv, Session
  <2>2. Prompts(q) = {} => Cardinality(Prompts(q)) = 0
    BY FS_EmptySet
  <2>3. Prompts(q) # {} => Cardinality(Prompts(q)) = 1
    <3>1. Prompts(q) # {} => Prompts(q) = {Len(q)}
      BY <2>1 DEF Prompts, Lasts
    <3> QED BY <3>1, FS_Singleton
  <2>4. toServer[p] = <<>> => Len(toServer[p]) = 0
    OBVIOUS
  <2> HIDE DEF q
  <2>5. Outstanding(p) = Cardinality(Prompts(q)) + Len(toServer[p])
                         + (IF client[p] = "scanf" THEN 1 ELSE 0)
    BY DEF Outstanding, q
  <2>6. CASE Prompted(p)
    <3>1. \/ Prompts(q) # {} /\ client[p] # "scanf" /\ toServer[p] = <<>>
          \/ Prompts(q) = {} /\ client[p] = "scanf" /\ toServer[p] = <<>>
          \/ Prompts(q) = {} /\ client[p] # "scanf" /\ Len(toServer[p]) = 1
      BY <2>1, <2>6 DEF Await, q
    <3>2. ASSUME Prompts(q) # {}, client[p] # "scanf", toServer[p] = <<>> PROVE Outstanding(p) = 1
      BY <2>3, <2>4, <2>5, <3>2
    <3>3. ASSUME Prompts(q) = {}, client[p] = "scanf", toServer[p] = <<>> PROVE Outstanding(p) = 1
      BY <2>2, <2>4, <2>5, <3>3
    <3>4. ASSUME Prompts(q) = {}, client[p] # "scanf", Len(toServer[p]) = 1 PROVE Outstanding(p) = 1
      BY <2>2, <2>5, <3>4
    <3> QED BY <2>6, <3>1, <3>2, <3>3, <3>4
  <2>7. CASE ~ Prompted(p)
    <3>1. Prompts(q) = {} /\ client[p] # "scanf" /\ toServer[p] = <<>>
      BY <2>1, <2>7 DEF Await, q
    <3>2. Outstanding(p) = 0
      BY <2>2, <2>4, <2>5, <3>1
    <3> QED BY <2>7, <3>2
  <2> QED BY <2>6, <2>7
<1> QED BY <1>1, NetCorrect, PTL

\* Who is asked for a move, or shown a result, sees all marks there are on the
\* server's board.
THEOREM NeverStaleCorrect == Spec => []NeverStale
<1>1. NetInv => NeverStale
  BY DEF NetInv, Session, Shows, NeverStale
<1> QED BY <1>1, NetCorrect, PTL

\* A mark the server makes is a move of the game, a result that a client prints
\* the verdict of the game, and nothing else the program does is seen in it.
LEMMA GameStep == NetInv /\ [Next]_vars => [Game!Next]_<<board, Turn, shown>>
<1> SUFFICES ASSUME NetInv, [Next]_vars PROVE [Game!Next]_<<board, Turn, shown>>
  OBVIOUS
<1>1. CASE RecvValid
  <2> DEFINE m == Head(toServer[current_player])
             x == <<m.row, m.col>>
  <2>1. /\ x \in Cells /\ board[x] = 0 /\ board' = [board EXCEPT ![x] = Turn]
        /\ ~ Ends /\ move_count' = move_count + 1 /\ move_count \in Nat /\ UNCHANGED shown
    BY <1>1 DEF RecvValid, Valid, NetInv, BoardInv, TypeOK
  <2> HIDE DEF x
  <2>2. ~ Game!Over(board)
    BY <2>1, EndsIsOver DEF NetInv, BoardInv
  <2>3. Turn' = 3 - Turn
    BY <2>1, TurnAlternates DEF Turn
  <2>4. Game!Play(x)
    BY <2>1, <2>2, <2>3 DEF Game!Play, Game!Free, Game!Other, Turn
  <2>5. x \in Game!Cells
    BY <2>1 DEF Cells, Game!Cells
  <2> QED BY <2>4, <2>5 DEF Game!Next
<1>2. ASSUME NEW p \in Players, ClientRecv(p) PROVE [Game!Next]_<<board, Turn, shown>>
  <2> DEFINE q == toClient[p]
             m == Head(q)
  <2>1. UNCHANGED <<board, Turn>>
    BY <1>2 DEF ClientRecv, server, Turn
  <2>2. UNCHANGED shown \/ (m.type = "RESULT" /\ shown' = [shown EXCEPT ![p] = m.winner])
    BY <1>2, Zenon DEF ClientRecv
  <2>3. CASE m.type = "RESULT" /\ shown' = [shown EXCEPT ![p] = m.winner]
    <3>1. q # <<>> /\ client[p] = "recv" /\ q \in Seq(Messages) /\ Session(p)
      BY <1>2 DEF ClientRecv, NetInv
    <3>2. shown[p] = 3 /\ Verdict(p, m)
      <4>1. m = q[1] /\ 1 \in DOMAIN q
        BY <3>1, TailRecord DEF Session
      <4> QED BY <3>1, <4>1 DEF Session
    <3> HIDE DEF m
    <3>3. Ends /\ m.winner = check_winner(board)
      BY <2>3, <3>2 DEF Verdict
    <3>4. Game!IsVerdict(board, m.winner) /\ m.winner \in 0 .. 2
      BY <3>3, EndsIsOver DEF NetInv, BoardInv
    <3>5. p \in Game!Players /\ m.winner \in Game!Players \cup {Game!Draw}
      BY <3>4 DEF Players, Game!Players, Game!Draw
    <3>6. Game!Tell(p)
      BY <2>1, <2>3, <3>2, <3>4, <3>5 DEF Game!Tell, Game!NoResult, Turn
    <3> QED BY <3>5, <3>6 DEF Game!Next
  <2> QED BY <2>1, <2>2, <2>3
<1>3. CASE \/ notify_turn \/ notify_turn_error \/ send_state_update \/ Result
           \/ Accept \/ RecvInvalid \/ RecvNothing \/ Judge
  BY <1>3 DEF notify_turn, notify_turn_error, send_state_update, SendState, Result, SendResult,
              Accept, RecvInvalid, RecvNothing, Judge, Turn
<1>4. ASSUME NEW p \in Players, \/ Connect(p) \/ Quit(p) \/ \E in \in Inputs : ClientMove(p, in)
      PROVE  UNCHANGED <<board, Turn, shown>>
  BY <1>4 DEF Connect, Quit, ClientMove, server, Turn
<1>5. CASE UNCHANGED vars
  BY <1>5 DEF vars, server, Turn
<1> QED BY <1>1, <1>2, <1>3, <1>4, <1>5, NetCases

\* The program implements the game: what its two users see of the board and of
\* the result is a behaviour of TicTacToe, whatever they type and whoever
\* leaves.
THEOREM GameCorrect == Spec => GameSpec
<1>1. Init => Game!Init
  <2>1. 0 % 2 = 0
    OBVIOUS
  <2> QED BY <2>1 DEF Init, Game!Init, Game!Cells, Cells, Game!Free, Game!Players, Players, Game!NoResult
<1>2. NetInv /\ [Next]_vars => [Game!Next]_<<board, IF move_count % 2 = 0 THEN 1 ELSE 2, shown>>
  BY GameStep DEF Turn
<1> QED BY <1>1, <1>2, NetCorrect, PTL DEF Spec, GameSpec, Game!Spec
=============================================================================
