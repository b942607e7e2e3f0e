---------------------------- MODULE SmallProofs ----------------------------
(* TLAPS proofs about the programs that serve without a table of clients:  *)
(* the UDP game, the acknowledging UDP server and the echo server with     *)
(* threads, for any clients, and the counters that threads share, for any  *)
(* number of increments.                                                   *)
EXTENDS UdpGame, UdpAck, Counters, ThreadedEcho, SequenceTheorems, FiniteSetTheorems, TLAPS

-----------------------------------------------------------------------------
(* The counters *)

\* The increments a thread has stored.
Made(t) == IF todo[t] = -1 THEN 0 ELSE Each - todo[t]

\* A loaded thread has a whole step left, and under the mutex it is the holder
\* and nobody has stored since.
Loading ==
  \A t \in Workers :
    /\ loaded[t] => todo[t] >= step
    /\ todo[t] > 0 => todo[t] >= step
    /\ Locked /\ loaded[t] => holder = t /\ base[t] = counter

\* Under the mutex nothing is lost.
Exact ==
  /\ exercise = "mutex" => counter = Made(1) + Made(2)
  /\ exercise = "file"  =>
       /\ counter = 1 + Made(1) + Made(2) + Made(3)
       /\ Len(lines) = counter - (IF \E t \in Workers : loaded[t] THEN 0 ELSE 1)
       /\ \A i \in 1 .. Len(lines) : lines[i] = i

\* Without it: what a thread loads after its own first store is not 0, so that
\* the last store of all leaves at least 2.
Lossy ==
  ~ Locked =>
    /\ counter <= Made(1) + Made(2)
    /\ \A t \in Workers :
         /\ base[t] <= Made(1) + Made(2)
         /\ Made(t) > 0 => counter > 0
         /\ Made(t) > 0 /\ loaded[t] => base[t] > 0
    /\ (\A t \in Workers : todo[t] = 0) => counter >= 2

CountInv ==
  /\ CountTypeOK
  /\ creator = "done" => \A t \in Workers : todo[t] = 0
  /\ Loading /\ Exact /\ Lossy

LEMMA CountStart == CountInit => CountInv
<1> SUFFICES ASSUME CountInit PROVE CountInv
  OBVIOUS
<1> USE LoopsAssumption DEF CountInit, Workers, Each, First, Locked, Exercises
<1>1. CountTypeOK
  BY DEF CountTypeOK
<1>2. Loading /\ Lossy
  BY DEF Loading, Lossy, Made
<1>3. Exact
  BY DEF Exact, Made
<1> QED BY <1>1, <1>2, <1>3 DEF CountInv

LEMMA CreateKeeps == ASSUME CountInv, NEW t \in Workers, Create(t) PROVE CountInv'
<1> USE LoopsAssumption DEF CountInv, CountTypeOK, Create, Workers, Each, Locked, Exercises
<1>1. CountTypeOK'
  OBVIOUS
<1>2. \A u \in Workers : Made(u)' = Made(u)
  BY DEF Made
<1>3. Loading'
  BY DEF Loading
<1>4. Lossy'
  BY <1>2 DEF Lossy
<1>5. Exact'
  <2>1. UNCHANGED <<exercise, counter, loaded, lines>> /\ Workers' = Workers
    OBVIOUS
  <2>2. exercise # "file" => Made(1)' = Made(1) /\ Made(2)' = Made(2)
    BY <1>2
  <2>3. exercise = "file" => /\ Made(1)' = Made(1) /\ Made(2)' = Made(2)
                             /\ Made(3)' = Made(3)
    BY <1>2
  <2>4. Exact
    OBVIOUS
  <2> QED BY ONLY <2>1, <2>2, <2>3, <2>4 DEF Exact
<1> QED BY <1>1, <1>3, <1>4, <1>5

LEMMA LockKeeps == ASSUME CountInv, NEW t \in Workers, Lock(t) PROVE CountInv'
<1> USE LoopsAssumption DEF CountInv, CountTypeOK, Lock, Workers, Each, Locked, Exercises
<1>1. CountTypeOK'
  OBVIOUS
<1>2. \A u \in Workers : Made(u)' = Made(u)
  BY DEF Made
<1>3. Loading'
  BY DEF Loading
<1>4. Lossy'
  BY <1>2 DEF Lossy
<1>5. Exact'
  <2>1. UNCHANGED <<exercise, counter, loaded, lines>> /\ Workers' = Workers
    OBVIOUS
  <2>2. exercise # "file" => Made(1)' = Made(1) /\ Made(2)' = Made(2)
    BY <1>2
  <2>3. exercise = "file" => /\ Made(1)' = Made(1) /\ Made(2)' = Made(2)
                             /\ Made(3)' = Made(3)
    BY <1>2
  <2>4. Exact
    OBVIOUS
  <2> QED BY ONLY <2>1, <2>2, <2>3, <2>4 DEF Exact
<1> QED BY <1>1, <1>3, <1>4, <1>5

LEMMA LoadKeeps == ASSUME CountInv, NEW t \in Workers, Load(t) PROVE CountInv'
<1> USE LoopsAssumption DEF CountInv, CountTypeOK, Load, Workers, Each, Locked, Exercises
<1>1. CountTypeOK'
  OBVIOUS
<1>2. \A u \in Workers : Made(u)' = Made(u)
  BY DEF Made
<1>3. Loading'
  BY DEF Loading
<1>4. Lossy'
  BY <1>2 DEF Lossy
<1>5. exercise = "mutex" => counter' = Made(1)' + Made(2)'
  BY <1>2 DEF Exact
<1>6. ASSUME exercise = "file"
      PROVE  /\ counter' = 1 + Made(1)' + Made(2)' + Made(3)'
             /\ Len(lines') = counter'
             /\ \A i \in 1 .. Len(lines') : lines'[i] = i
  <2>1. \A u \in Workers : ~ loaded[u]
    BY <1>6 DEF Loading
  <2>2. Len(lines) = counter - 1 /\ lines' = Append(lines, counter)
    BY <1>6, <2>1 DEF Exact
  <2> QED BY <1>2, <1>6, <2>2 DEF Exact
<1>7. Exact'
  <2>1. loaded'[t] /\ Workers' = Workers /\ exercise' = exercise
    OBVIOUS
  <2>2. (IF \E u \in Workers' : loaded'[u] THEN 0 ELSE 1) = 0
    BY <2>1
  <2>3. CASE exercise # "file"
    BY <1>5, <2>1, <2>3 DEF Exact
  <2>4. CASE exercise = "file"
    <3>1. Len(lines') = counter' - (IF \E u \in Workers' : loaded'[u] THEN 0 ELSE 1)
      BY <1>6, <2>2, <2>4
    <3> QED BY <1>6, <2>1, <2>4, <3>1 DEF Exact
  <2> QED BY <2>3, <2>4
<1> QED BY <1>1, <1>3, <1>4, <1>7

LEMMA SumOfTwo ==
  ASSUME NEW a \in Int, NEW b \in Int, NEW s \in Int, NEW t \in 1 .. 2, NEW c, NEW d,
         c = IF t = 1 THEN a + s ELSE a, d = IF t = 2 THEN b + s ELSE b
  PROVE  c + d = a + b + s
OBVIOUS

LEMMA SumOfThree ==
  ASSUME NEW a \in Int, NEW b \in Int, NEW e \in Int, NEW s \in Int, NEW t \in 1 .. 3,
         NEW c, NEW d, NEW f,
         c = IF t = 1 THEN a + s ELSE a, d = IF t = 2 THEN b + s ELSE b,
         f = IF t = 3 THEN e + s ELSE e
  PROVE  1 + c + d + f = 1 + a + b + e + s
OBVIOUS

\* A store is a step more of the thread that makes it, and of nobody else.
LEMMA StoreMakes ==
  ASSUME CountInv, NEW t \in Workers, Store(t)
  PROVE  /\ step \in Nat /\ step >= 1 /\ base[t] \in Nat
         /\ todo[t] >= step /\ todo[t] \in Nat /\ todo[t] <= Each
         /\ todo' = [todo EXCEPT ![t] = @ - step] /\ counter' = base[t] + step
         /\ \A u \in Workers : /\ Made(u) \in Nat /\ u \in Int
                               /\ Made(u)' = IF u = t THEN Made(u) + step ELSE Made(u)
<1> USE LoopsAssumption DEF CountInv, CountTypeOK, Store, Workers, Each, Exercises
<1>1. step \in Nat /\ step >= 1 /\ todo[t] >= step /\ base[t] \in Nat
  BY DEF Loading
<1>2. todo[t] \in Nat /\ todo[t] <= Each
  BY <1>1
<1>3. \A u \in Workers : Made(u) \in Nat /\ u \in Int
  BY DEF Made
<1>4. \A u \in Workers : Made(u)' = IF u = t THEN Made(u) + step ELSE Made(u)
  BY <1>1 DEF Made
<1> QED BY <1>1, <1>2, <1>3, <1>4

LEMMA StoreExact == ASSUME CountInv, NEW t \in Workers, Store(t) PROVE Exact'
<1>0. UNCHANGED <<exercise, lines, Workers>> /\ (exercise # "race" => step = 1)
  BY DEF Store, CountInv, CountTypeOK, Workers
<1>1. CASE exercise = "mutex"
  <2>1. Workers = 1 .. 2 /\ base[t] = counter /\ counter = Made(1) + Made(2)
    BY <1>1 DEF CountInv, Loading, Exact, Store, Locked, Workers
  <2>2. /\ Made(1) \in Nat /\ Made(1)' = IF t = 1 THEN Made(1) + step ELSE Made(1)
        /\ Made(2) \in Nat /\ Made(2)' = IF t = 2 THEN Made(2) + step ELSE Made(2)
    BY <2>1, StoreMakes
  <2>3. t \in 1 .. 2 /\ step \in Nat
    BY <2>1, StoreMakes
  <2>4. Made(1)' + Made(2)' = Made(1) + Made(2) + step
    BY <2>2, <2>3, SumOfTwo
  <2>5. counter' = Made(1)' + Made(2)'
    BY <2>1, <2>4, StoreMakes
  <2> QED BY <1>0, <1>1, <2>5 DEF Exact
<1>2. CASE exercise = "file"
  <2>1. Workers = 1 .. 3 /\ base[t] = counter /\ loaded[t] /\ holder = t /\ step = 1
    BY <1>0, <1>2 DEF CountInv, Loading, Store, Locked, Workers
  <2>2. /\ counter = 1 + Made(1) + Made(2) + Made(3)
        /\ Len(lines) = counter /\ \A i \in 1 .. Len(lines) : lines[i] = i
    <3>1. (IF \E u \in Workers : loaded[u] THEN 0 ELSE 1) = 0
      BY <2>1
    <3>2. counter \in Nat
      BY DEF CountInv, CountTypeOK
    <3> QED BY <1>2, <3>1, <3>2 DEF CountInv, Exact
  <2>3. /\ Made(1) \in Nat /\ Made(1)' = IF t = 1 THEN Made(1) + step ELSE Made(1)
        /\ Made(2) \in Nat /\ Made(2)' = IF t = 2 THEN Made(2) + step ELSE Made(2)
        /\ Made(3) \in Nat /\ Made(3)' = IF t = 3 THEN Made(3) + step ELSE Made(3)
    BY <2>1, StoreMakes
  <2>4. t \in 1 .. 3
    BY <2>1
  <2>5. counter' = counter + 1
    BY <2>1, StoreMakes
  <2>6. 1 + Made(1)' + Made(2)' + Made(3)' = 1 + Made(1) + Made(2) + Made(3) + step
    BY <2>1, <2>3, <2>4, SumOfThree
  <2>7. counter' = 1 + Made(1)' + Made(2)' + Made(3)'
    BY <2>1, <2>2, <2>5, <2>6
  <2>8. \A u \in Workers' : ~ loaded'[u]
    BY <1>2, <2>1 DEF CountInv, CountTypeOK, Loading, Store, Locked, Workers
  <2>9. (IF \E u \in Workers' : loaded'[u] THEN 0 ELSE 1) = 1
    BY <2>8
  <2>10. counter \in Nat
    BY DEF CountInv, CountTypeOK
  <2>11. Len(lines') = counter' - (IF \E u \in Workers' : loaded'[u] THEN 0 ELSE 1)
    BY <1>0, <2>2, <2>5, <2>9, <2>10
  <2> QED BY <1>0, <1>2, <2>2, <2>7, <2>11 DEF Exact
<1> QED BY <1>0, <1>1, <1>2 DEF Exact

LEMMA StoreLossy == ASSUME CountInv, NEW t \in Workers, Store(t) PROVE Lossy'
<1>0. UNCHANGED <<exercise, Workers, base>>
  BY DEF Store, Workers
<1> SUFFICES ASSUME ~ Locked PROVE Lossy'
  BY <1>0 DEF Lossy, Locked
<1>1. Workers = 1 .. 2 /\ Each = Loops
  BY DEF Locked, Workers, Each
<1>2. Made(1) \in Nat /\ Made(2) \in Nat /\ Made(1)' \in Nat /\ Made(2)' \in Nat
  BY <1>1, StoreMakes
<1>3. Made(1)' + Made(2)' = Made(1) + Made(2) + step
  BY <1>1, StoreMakes, SumOfTwo
<1>4. \A u \in Workers : base[u] \in Nat /\ base[u] <= Made(1) + Made(2)
  BY DEF CountInv, CountTypeOK, Lossy
<1>5. counter' <= Made(1)' + Made(2)' /\ counter' > 0
  BY <1>2, <1>3, <1>4, StoreMakes
<1>6. \A u \in Workers : base'[u] <= Made(1)' + Made(2)'
  BY <1>0, <1>2, <1>3, <1>4, StoreMakes
<1>7. \A u \in Workers : Made(u)' > 0 /\ loaded'[u] => base'[u] > 0
  <2>1. \A u \in Workers : loaded'[u] => u # t /\ loaded[u]
    BY DEF CountInv, CountTypeOK, Store
  <2> QED BY <1>0, <2>1, StoreMakes DEF CountInv, Lossy
<1>8. todo'[t] = 0 => counter' >= 2
  <2>1. SUFFICES ASSUME todo'[t] = 0 PROVE counter' >= 2
    OBVIOUS
  <2>2. todo[t] = step
    BY <2>1, StoreMakes DEF CountInv, CountTypeOK
  <2>3. CASE step = 1
    <3>1. Made(t) = Loops - 1 /\ Made(t) > 0
      BY <1>1, <2>2, <2>3, LoopsAssumption DEF Made
    <3>2. base[t] > 0
      BY <3>1 DEF CountInv, Lossy, Store
    <3> QED BY <2>3, <3>2, StoreMakes
  <2>4. CASE step = Loops
    BY <2>4, StoreMakes, LoopsAssumption
  <2> QED BY <2>3, <2>4 DEF CountInv, CountTypeOK
<1> QED BY <1>0, <1>5, <1>6, <1>7, <1>8 DEF Lossy

LEMMA StoreKeeps == ASSUME CountInv, NEW t \in Workers, Store(t) PROVE CountInv'
<1>0. /\ step \in Nat /\ step >= 1 /\ base[t] \in Nat /\ todo[t] >= step
      /\ todo[t] \in Nat /\ todo[t] <= Each
  BY StoreMakes
<1>1. CountTypeOK'
  <2> USE DEF CountInv, CountTypeOK, Store
  <2>1. counter' \in Nat /\ holder' \in Workers' \cup {0}
    BY <1>0
  <2>2. todo' \in [Workers' -> -1 .. Each']
    <3>1. Workers' = Workers /\ Each' = Each /\ todo[t] - step \in -1 .. Each
      BY <1>0, LoopsAssumption DEF Workers, Each
    <3> QED BY <3>1
  <2>3. loaded' \in [Workers' -> BOOLEAN] /\ base' \in [Workers' -> Nat]
    BY DEF Workers
  <2> QED BY <2>1, <2>2, <2>3
<1>2. Loading'
  <2>1. \A u \in Workers : u # t => todo'[u] = todo[u] /\ loaded'[u] = loaded[u]
    BY DEF CountInv, CountTypeOK, Store
  <2>2. todo'[t] = todo[t] - step /\ ~ loaded'[t]
    BY DEF CountInv, CountTypeOK, Store
  <2>3. UNCHANGED <<exercise, step, base>> /\ Workers' = Workers
    BY DEF Store, Workers
  <2>4. \A u \in Workers : todo'[u] > 0 => todo'[u] >= step'
    <3>1. todo'[t] > 0 => todo'[t] >= step
      BY <1>0, <2>2, LoopsAssumption DEF CountInv, CountTypeOK, Each
    <3> QED BY <2>1, <2>3, <3>1 DEF CountInv, Loading
  <2>5. \A u \in Workers : loaded'[u] => todo'[u] >= step'
    BY <2>1, <2>2, <2>3 DEF CountInv, Loading
  <2>6. \A u \in Workers : Locked /\ loaded'[u] => FALSE
    BY <2>1, <2>2 DEF CountInv, Loading, Store
  <2> QED BY <2>3, <2>4, <2>5, <2>6 DEF Loading, Locked
<1>3. creator' # "done"
  BY <1>0 DEF CountInv, Store
<1> QED BY <1>1, <1>2, <1>3, StoreExact, StoreLossy DEF CountInv

LEMMA CountStep == CountInv /\ [CountNext]_count_vars => CountInv'
<1> SUFFICES ASSUME CountInv, [CountNext]_count_vars PROVE CountInv'
  OBVIOUS
<1>1. CASE Join \/ UNCHANGED count_vars
  <2> USE <1>1 DEF CountInv, CountTypeOK, Join, count_vars
  <2>1. UNCHANGED <<exercise, step, counter, holder, todo, loaded, base, lines>>
    OBVIOUS
  <2>2. CountTypeOK' /\ (creator' = "done" => \A t \in Workers' : todo'[t] = 0)
    BY <2>1 DEF Workers, Each
  <2>3. Loading' /\ Exact' /\ Lossy'
    BY <2>1 DEF Loading, Exact, Lossy, Made, Workers, Each, Locked
  <2> QED BY <2>2, <2>3
<1>2. ASSUME NEW t \in Workers, Create(t) \/ Lock(t) \/ Load(t) \/ Store(t) PROVE CountInv'
  BY <1>2, CreateKeeps, LockKeeps, LoadKeeps, StoreKeeps
<1> QED BY <1>1, <1>2 DEF CountNext

\* Whatever the number of increments and however the threads interleave: under
\* the mutex nothing is lost and the file has its lines in order; without it at
\* least two increments are left, and never more than were made.
THEOREM CountRightCorrect == CountSpec => []CountRight
<1>1. CountInv => CountRight
  <2> SUFFICES ASSUME CountInv, creator = "done" PROVE CountRight
    BY DEF CountInv, CountRight
  <2> USE LoopsAssumption DEF CountInv, CountTypeOK, Workers, Each, Made, Exercises, Locked
  <2>1. \A t \in Workers : todo[t] = 0 /\ ~ loaded[t]
    BY DEF Loading
  <2>2. ASSUME exercise = "file" PROVE counter = 4 /\ lines = <<1, 2, 3>>
    <3>1. counter = 4
      BY <2>1, <2>2 DEF Exact
    <3>2. (IF \E t \in Workers : loaded[t] THEN 0 ELSE 1) = 1
      BY <2>1
    <3>3. Len(lines) = 3 /\ \A i \in 1 .. Len(lines) : lines[i] = i
      BY <2>2, <3>1, <3>2 DEF Exact
    <3>4. lines[1] = 1 /\ lines[2] = 2 /\ lines[3] = 3
      BY <3>3
    <3>5. lines \in Seq(Nat) /\ <<1, 2, 3>> \in Seq(Nat)
      OBVIOUS
    <3>6. \A i \in 1 .. 3 : lines[i] = <<1, 2, 3>>[i]
      BY <3>4
    <3> QED BY ONLY <3>1, <3>3, <3>5, <3>6, SeqEqual
  <2>4. exercise = "mutex" => counter = 2 * Loops
    BY <2>1 DEF Exact
  <2>5. ~ Locked => 2 <= counter /\ counter <= 2 * Loops
    BY <2>1 DEF Lossy
  <2> QED BY <2>2, <2>4, <2>5 DEF CountRight
<1> QED BY <1>1, CountStart, CountStep, PTL DEF CountSpec

-----------------------------------------------------------------------------
(* The game *)

\* Clients with one of their two datagrams answered.
Odd == {c \in Players : \/ player[c] = "first" /\ inbox[c] # <<>>
                        \/ player[c] = "second" /\ inbox[c] = <<>>}

\* If nothing was lost, a client that waits has a datagram on its way, and the
\* server has answered an odd number of them when it waits for an answer.
Parity ==
  ~ lost =>
    /\ \A c \in Playing : Requests(c) # {} \/ inbox[c] # <<>>
    /\ IsFiniteSet(Odd)
    /\ Cardinality(Odd) % 2 = IF server = "answer" THEN 1 ELSE 0

\* What a client that plays alone is told, and what it says.
Alone ==
  /\ \A c, d \in Playing : c # d => c \in mixed
  /\ ~ lost =>
       \A c \in Players \ mixed :
         /\ player[c] = "first" /\ inbox[c] # <<>> => Head(inbox[c]) = data
         /\ player[c] = "second" => \A k \in Requests(c) : queue[k].text = Xor(data)
         /\ player[c] = "second" /\ inbox[c] # <<>> => Head(inbox[c]) = Right
         /\ player[c] = "done" => told[c] = Right

GameInv == OneInFlight /\ Parity /\ Alone

LEMMA XorType == ASSUME NEW t \in Texts PROVE Xor(t) \in Texts
<1>1. CASE t.kind = "plain"
  <2>1. PICK w \in Words : t = Plain(w)
    BY <1>1 DEF Texts, Plain, Cipher, Hello, Junk, Right, Wrong, Text
  <2>2. Xor(t) = Cipher(t.word)
    BY <1>1, Zenon DEF Xor
  <2>3. t.word = w
    BY <2>1 DEF Plain, Text
  <2> QED BY <2>2, <2>3 DEF Texts
<1>2. CASE t.kind = "cipher"
  <2>1. PICK w \in Words : t = Cipher(w)
    BY <1>2 DEF Texts, Plain, Cipher, Hello, Junk, Right, Wrong, Text
  <2>2. Xor(t) = Plain(t.word)
    BY <1>2, Zenon DEF Xor
  <2>3. t.word = w
    BY <2>1 DEF Cipher, Text
  <2> QED BY <2>2, <2>3 DEF Texts
<1>3. CASE t.kind # "plain" /\ t.kind # "cipher"
  <2>1. Xor(t) = Junk
    BY <1>3, Zenon DEF Xor
  <2> QED BY <2>1 DEF Texts
<1> QED BY <1>1, <1>2, <1>3

\* The first datagram is gone, the others have moved up.
Taken(c) ==
  /\ c \in Players
  /\ queue' \in Seq([from : Players, text : Texts])
  /\ 1 \in Requests(c) /\ queue[1] = Head(queue)
  /\ Requests(c)' = {}
  /\ \A d \in Players : d # c =>
       /\ Requests(d)' = {} <=> Requests(d) = {}
       /\ \A k, n \in Requests(d)' : k = n
       /\ \A k \in Requests(d)' : k + 1 \in Requests(d) /\ queue'[k] = queue[k + 1]

LEMMA TakeFirst ==
  ASSUME OneInFlight, queue # <<>>, queue' = Tail(queue), NEW c, c = Head(queue).from
  PROVE  Taken(c)
<1> DEFINE S == [from : Players, text : Texts]
<1>1. /\ queue \in Seq(S)
      /\ \A d \in Players : \A k, n \in Requests(d) : k = n
  BY DEF OneInFlight, GameTypeOK
<1> HIDE DEF S
<1>a. Len(queue) \in Nat /\ Len(queue) >= 1 /\ DOMAIN queue = 1 .. Len(queue)
  BY <1>1, EmptySeq, LenProperties
<1>b. /\ queue' \in Seq(S) /\ Len(queue') = Len(queue) - 1
      /\ \A k \in 1 .. Len(queue') : queue'[k] = queue[k + 1]
  BY <1>1, HeadTailProperties
<1>c. DOMAIN queue' = 1 .. Len(queue')
  BY <1>b, LenProperties
<1>d. queue[1] = Head(queue) /\ queue[1] \in S
  BY <1>1, <1>a, ElementOfSeq
<1>2. /\ Len(queue) \in Nat /\ Len(queue) >= 1 /\ Len(queue') = Len(queue) - 1
      /\ \A k \in 1 .. Len(queue) - 1 : queue'[k] = queue[k + 1]
      /\ DOMAIN queue = 1 .. Len(queue) /\ DOMAIN queue' = 1 .. Len(queue')
      /\ queue' \in Seq([from : Players, text : Texts])
      /\ queue[1] = Head(queue) /\ queue[1] \in [from : Players, text : Texts]
  BY <1>a, <1>b, <1>c, <1>d DEF S
<1>3. 1 \in Requests(c)
  BY <1>2 DEF Requests
<1>4. \A d : \A k \in Requests(d)' : k \in Int /\ k >= 1 /\ k + 1 \in Requests(d) /\ queue'[k] = queue[k + 1]
  BY <1>2 DEF Requests
<1>5. \A d \in Players : \A k, n \in Requests(d)' : k = n
  BY <1>1, <1>4
<1>6. Requests(c)' = {}
  BY <1>1, <1>2, <1>3, <1>4
<1>7. ASSUME NEW d \in Players, d # c, NEW k \in Requests(d) PROVE Requests(d)' # {}
  <2>1. k \in 2 .. Len(queue) /\ queue[k].from = d
    BY <1>2, <1>7 DEF Requests
  <2>2. k - 1 \in DOMAIN queue' /\ queue'[k - 1] = queue[k]
    BY <1>2, <2>1
  <2>3. k - 1 \in Requests(d)'
    BY <2>1, <2>2 DEF Requests
  <2> QED BY <2>3
<1> QED BY <1>2, <1>3, <1>4, <1>5, <1>6, <1>7 DEF Taken

\* One datagram more at the end.
LEMMA PutLast ==
  ASSUME OneInFlight, NEW c \in Players, NEW t \in Texts, SendDatagram(c, t)
  PROVE  /\ queue' \in Seq([from : Players, text : Texts])
         /\ \E k : Requests(c)' = Requests(c) \cup {k} /\ queue'[k].text = t
         /\ \A d \in Players : /\ d # c => Requests(d)' = Requests(d)
                               /\ \A k \in Requests(d) : queue'[k] = queue[k]
<1> DEFINE x == [from |-> c, text |-> t]
<1>1. queue \in Seq([from : Players, text : Texts]) /\ queue' = Append(queue, x)
  BY DEF OneInFlight, GameTypeOK, SendDatagram
<1>2. x \in [from : Players, text : Texts] /\ x.from = c /\ x.text = t
  OBVIOUS
<1> HIDE DEF x
<1>3. /\ Len(queue) \in Nat /\ Len(queue') = Len(queue) + 1
      /\ \A k \in 1 .. Len(queue) : queue'[k] = queue[k]
      /\ queue'[Len(queue) + 1] = x
      /\ DOMAIN queue = 1 .. Len(queue) /\ DOMAIN queue' = 1 .. Len(queue')
      /\ queue' \in Seq([from : Players, text : Texts])
  BY <1>1, <1>2, AppendProperties, LenProperties
<1>4. Requests(c)' = Requests(c) \cup {Len(queue) + 1}
  BY <1>2, <1>3 DEF Requests
<1>5. \A d \in Players : d # c => Requests(d)' = Requests(d)
  BY <1>2, <1>3 DEF Requests
<1>6. \A d \in Players : \A k \in Requests(d) : queue'[k] = queue[k]
  BY <1>3 DEF Requests
<1> QED BY <1>2, <1>3, <1>4, <1>5, <1>6

\* One datagram is gone, from wherever it was.
LEMMA TakeAny ==
  ASSUME OneInFlight, NEW p \in DOMAIN queue, queue' = RemoveAt(queue, p)
  PROVE  /\ queue' \in Seq([from : Players, text : Texts])
         /\ \A d \in Players :
              /\ \A k, n \in Requests(d)' : k = n
              /\ Requests(d) = {} => Requests(d)' = {}
              /\ Requests(d) # {} /\ Requests(d)' = {} => d = queue[p].from
<1> DEFINE S == [from : Players, text : Texts]
           a == SubSeq(queue, 1, p - 1)
           b == SubSeq(queue, p + 1, Len(queue))
<1>1. /\ queue \in Seq(S)
      /\ \A d \in Players : \A k, n \in Requests(d) : k = n
  BY DEF OneInFlight, GameTypeOK
<1>2. /\ Len(queue) \in Nat /\ DOMAIN queue = 1 .. Len(queue)
      /\ p \in Int /\ 1 <= p /\ p <= Len(queue)
  BY <1>1, LenProperties
<1> HIDE DEF S
<1>3. a \in Seq(S) /\ Len(a) = p - 1 /\ \A k \in 1 .. p - 1 : a[k] = queue[k]
  BY <1>1, <1>2, SubSeqProperties
<1>4. /\ b \in Seq(S) /\ Len(b) = Len(queue) - p
      /\ \A k \in 1 .. Len(queue) - p : b[k] = queue[p + k]
  BY <1>1, <1>2, SubSeqProperties
<1>5. queue' = a \o b
  BY DEF RemoveAt
<1> HIDE DEF a, b
<1>6. /\ queue' \in Seq(S) /\ Len(queue') = Len(queue) - 1
      /\ DOMAIN queue' = 1 .. Len(queue) - 1
      /\ \A k \in 1 .. Len(queue) - 1 :
           queue'[k] = IF k < p THEN queue[k] ELSE queue[k + 1]
  <2>1. queue' \in Seq(S) /\ Len(queue') = Len(a) + Len(b)
        /\ \A k \in 1 .. Len(a) + Len(b) : queue'[k] = IF k <= Len(a) THEN a[k] ELSE b[k - Len(a)]
    BY <1>3, <1>4, <1>5, ConcatProperties
  <2>2. Len(a) + Len(b) = Len(queue) - 1
    BY <1>2, <1>3, <1>4
  <2>3. DOMAIN queue' = 1 .. Len(queue) - 1
    BY <2>1, <2>2, LenProperties
  <2>4. ASSUME NEW k \in 1 .. Len(queue) - 1
        PROVE  queue'[k] = IF k < p THEN queue[k] ELSE queue[k + 1]
    <3>1. queue'[k] = IF k <= p - 1 THEN a[k] ELSE b[k - (p - 1)]
      BY <1>3, <2>1, <2>2
    <3>2. CASE k < p
      BY <1>2, <1>3, <3>1, <3>2
    <3>3. CASE k >= p
      <4>1. k - (p - 1) \in 1 .. Len(queue) - p /\ p + (k - (p - 1)) = k + 1 /\ ~ (k <= p - 1)
        BY <1>2, <3>3
      <4>2. b[k - (p - 1)] = queue[p + (k - (p - 1))]
        BY <1>4, <4>1
      <4>3. ~ (k < p)
        BY <1>2, <3>3
      <4> QED BY <3>1, <4>1, <4>2, <4>3
    <3> QED BY <1>2, <3>2, <3>3
  <2> QED BY <2>1, <2>2, <2>3, <2>4
<1> DEFINE From(k) == IF k < p THEN k ELSE k + 1
<1>7. \A d : \A k \in Requests(d)' : k \in Int /\ From(k) \in Requests(d)
  BY <1>2, <1>6 DEF Requests
<1>8. \A d \in Players : \A k, n \in Requests(d)' : k = n
  <2> SUFFICES ASSUME NEW d \in Players, NEW k \in Requests(d)', NEW n \in Requests(d)'
               PROVE  k = n
    OBVIOUS
  <2>1. From(k) = From(n) /\ k \in Int /\ n \in Int
    BY <1>1, <1>7
  <2> QED BY <1>2, <2>1
<1>9. ASSUME NEW d \in Players, NEW k \in Requests(d), d # queue[p].from PROVE Requests(d)' # {}
  <2>1. k \in 1 .. Len(queue) /\ k # p /\ queue[k].from = d
    BY <1>2, <1>9 DEF Requests
  <2>2. CASE k < p
    <3>1. k \in Requests(d)'
      BY <1>2, <1>6, <2>1, <2>2 DEF Requests
    <3> QED BY <3>1
  <2>3. CASE k > p
    <3>1. k - 1 \in 1 .. Len(queue) - 1 /\ queue'[k - 1] = queue[k]
      BY <1>2, <1>6, <2>1, <2>3
    <3>2. k - 1 \in Requests(d)'
      BY <1>6, <2>1, <3>1 DEF Requests
    <3> QED BY <3>2
  <2> QED BY <1>2, <2>1, <2>2, <2>3
<1>10. \A d \in Players : Requests(d) = {} => Requests(d)' = {}
  BY <1>7
<1> QED BY <1>6, <1>8, <1>9, <1>10 DEF S

LEMMA OneMoreOrLess ==
  ASSUME NEW S, IsFiniteSet(S), NEW c, NEW T, T = IF c \in S THEN S \ {c} ELSE S \cup {c}
  PROVE  IsFiniteSet(T) /\ Cardinality(T) % 2 = IF Cardinality(S) % 2 = 0 THEN 1 ELSE 0
<1>1. Cardinality(S) \in Nat
  BY FS_CardinalityType
<1>2. CASE c \in S
  <2>1. IsFiniteSet(T) /\ Cardinality(T) = Cardinality(S) - 1
    BY <1>2, FS_RemoveElement
  <2>2. IsFiniteSet(T) /\ Cardinality(T) \in Nat
    BY <2>1, FS_CardinalityType
  <2> QED BY <1>1, <2>1, <2>2
<1>3. CASE c \notin S
  <2>1. IsFiniteSet(T) /\ Cardinality(T) = Cardinality(S) + 1
    BY <1>3, FS_AddElement
  <2> QED BY <1>1, <2>1
<1> QED BY <1>2, <1>3

LEMMA OnlyOne ==
  ASSUME NEW S, NEW s \in Seq(S), s # <<>>, Len(s) <= 1
  PROVE  Len(s) = 1 /\ Head(s) \in S /\ Tail(s) = <<>>
<1>1. Len(s) \in Nat /\ Len(s) # 0
  BY EmptySeq, LenProperties
<1>2. Head(s) \in S /\ Tail(s) \in Seq(S) /\ Len(Tail(s)) = Len(s) - 1
  BY HeadTailProperties
<1> QED BY <1>1, <1>2, EmptySeq

LEMMA GreetKeeps == ASSUME GameInv, NEW c \in Players, Greet(c) PROVE GameInv'
<1> USE DEF GameInv
<1>1. Hello \in Texts
  BY DEF Texts
<1>2. /\ queue' \in Seq([from : Players, text : Texts])
      /\ \E k : Requests(c)' = Requests(c) \cup {k} /\ queue'[k].text = Hello
      /\ \A d \in Players : /\ d # c => Requests(d)' = Requests(d)
                            /\ \A k \in Requests(d) : queue'[k] = queue[k]
  BY <1>1, PutLast DEF Greet
<1>3. Requests(c) = {} /\ inbox[c] = <<>> /\ c \notin Playing /\ Playing' = Playing \cup {c}
  BY DEF OneInFlight, Playing, Greet, GameTypeOK
<1>4. OneInFlight'
  <2>1. GameTypeOK'
    BY <1>2 DEF OneInFlight, GameTypeOK, Greet, Playing
  <2> QED BY <1>2, <1>3, <2>1 DEF OneInFlight, Greet
<1>5. Parity'
  <2>1. Odd' = Odd
    BY <1>3 DEF Odd, Greet, OneInFlight, GameTypeOK
  <2>2. \A d \in Players : d # c => Requests(d)' = Requests(d)
    BY <1>2
  <2>3. Requests(c)' # {}
    BY <1>2
  <2>4. \A d \in Playing' : ~ lost' => Requests(d)' # {} \/ inbox'[d] # <<>>
    BY <1>3, <2>2, <2>3 DEF Parity, Greet, Playing
  <2> QED BY <2>1, <2>4 DEF Parity, Greet
<1>6. Alone'
  <2>1. \A a, b \in Playing' : a # b => a \in mixed'
    BY <1>3 DEF Alone, Greet
  <2>2. ASSUME ~ lost', NEW d \in Players \ mixed'
        PROVE  /\ player'[d] = "first" /\ inbox'[d] # <<>> => Head(inbox'[d]) = data'
               /\ player'[d] = "second" => \A k \in Requests(d)' : queue'[k].text = Xor(data')
               /\ player'[d] = "second" /\ inbox'[d] # <<>> => Head(inbox'[d]) = Right
               /\ player'[d] = "done" => told'[d] = Right
    <3>1. CASE d = c
      BY <1>3, <3>1 DEF Greet, OneInFlight, GameTypeOK
    <3>2. CASE d # c
      <4>1. player'[d] = player[d] /\ inbox' = inbox /\ data' = data /\ told' = told
            /\ d \notin mixed /\ ~ lost
        BY <2>2, <3>2 DEF Greet, OneInFlight, GameTypeOK
      <4> QED BY <1>2, <2>2, <3>2, <4>1 DEF Alone
    <3> QED BY <3>1, <3>2
  <2>3. Xor(data)' = Xor(data')
    BY DEF Xor
  <2> QED BY <2>1, <2>2 DEF Alone
<1> QED BY <1>4, <1>5, <1>6

LEMMA DecodeKeeps == ASSUME GameInv, NEW c \in Players, Decode(c) PROVE GameInv'
<1> USE DEF GameInv
<1> DEFINE t == Xor(Head(inbox[c]))
<1>1. t \in Texts /\ inbox[c] # <<>> /\ inbox[c] \in Seq(Texts) /\ Len(inbox[c]) = 1
      /\ Tail(inbox[c]) = <<>>
  <2>1. inbox[c] # <<>> /\ inbox[c] \in Seq(Texts) /\ Len(inbox[c]) <= 1
    BY DEF OneInFlight, GameTypeOK, Decode
  <2>2. Len(inbox[c]) = 1 /\ Head(inbox[c]) \in Texts /\ Tail(inbox[c]) = <<>>
    BY <2>1, OnlyOne
  <2> QED BY <2>1, <2>2, XorType
<1> HIDE DEF t
<1>2. SendDatagram(c, t) /\ inbox' = [inbox EXCEPT ![c] = <<>>]
  BY <1>1 DEF Decode, t
<1>3. /\ queue' \in Seq([from : Players, text : Texts])
      /\ \E k : Requests(c)' = Requests(c) \cup {k} /\ queue'[k].text = t
      /\ \A d \in Players : /\ d # c => Requests(d)' = Requests(d)
                            /\ \A k \in Requests(d) : queue'[k] = queue[k]
  BY <1>1, <1>2, PutLast
<1>4. Requests(c) = {} /\ c \in Playing /\ Playing' = Playing
  BY <1>1 DEF OneInFlight, Playing, Decode, GameTypeOK
<1>5. OneInFlight'
  <2>1. GameTypeOK'
    BY <1>2, <1>3 DEF OneInFlight, GameTypeOK, Decode
  <2>2. \A d \in Players : d # c => Requests(d)' = Requests(d) /\ inbox'[d] = inbox[d]
    BY <1>2, <1>3 DEF OneInFlight, GameTypeOK
  <2>3. inbox'[c] = <<>> /\ Len(<<>>) = 0
    BY <1>2, EmptySeq DEF OneInFlight, GameTypeOK
  <2>4. \E k : Requests(c)' = {k}
    BY <1>3, <1>4
  <2> QED BY <2>4, <1>4, <2>1, <2>2, <2>3 DEF OneInFlight
<1>6. Parity'
  <2>1. Odd' = Odd
    BY <1>1, <1>2 DEF Odd, Decode, OneInFlight, GameTypeOK
  <2>2. \A d \in Playing' : ~ lost' => Requests(d)' # {} \/ inbox'[d] # <<>>
    BY <1>2, <1>3, <1>4 DEF Parity, Decode, OneInFlight, GameTypeOK, Playing
  <2> QED BY <2>1, <2>2 DEF Parity, Decode
<1>7. Alone'
  <2>1. \A a, b \in Playing' : a # b => a \in mixed'
    BY <1>4 DEF Alone, Decode
  <2>2. ASSUME ~ lost', NEW d \in Players \ mixed'
        PROVE  /\ player'[d] = "first" /\ inbox'[d] # <<>> => Head(inbox'[d]) = data'
               /\ player'[d] = "second" => \A k \in Requests(d)' : queue'[k].text = Xor(data')
               /\ player'[d] = "second" /\ inbox'[d] # <<>> => Head(inbox'[d]) = Right
               /\ player'[d] = "done" => told'[d] = Right
    <3>1. ~ lost /\ d \in Players \ mixed /\ data' = data /\ told' = told
      BY <2>2 DEF Decode
    <3>2. CASE d = c
      <4>1. player'[d] = "second" /\ inbox'[d] = <<>>
        BY <1>2, <3>2 DEF Decode, OneInFlight, GameTypeOK
      <4>2. t = Xor(data)
        BY <1>1, <3>1, <3>2 DEF Alone, Decode, t
      <4> QED BY <1>3, <1>4, <3>1, <3>2, <4>1, <4>2
    <3>3. CASE d # c
      <4>1. player'[d] = player[d] /\ inbox'[d] = inbox[d]
        BY <1>2, <3>3 DEF Decode, OneInFlight, GameTypeOK
      <4> QED BY <1>3, <3>1, <3>3, <4>1 DEF Alone
    <3> QED BY <3>2, <3>3
  <2> QED BY <2>1, <2>2 DEF Alone
<1> QED BY <1>5, <1>6, <1>7

LEMMA FinishKeeps == ASSUME GameInv, NEW c \in Players, Finish(c) PROVE GameInv'
<1> USE DEF GameInv
<1>1. inbox[c] # <<>> /\ Head(inbox[c]) \in Texts /\ inbox' = [inbox EXCEPT ![c] = <<>>]
      /\ Requests(c) = {} /\ UNCHANGED queue
  <2>1. inbox[c] # <<>> /\ inbox[c] \in Seq(Texts) /\ Len(inbox[c]) <= 1
    BY DEF OneInFlight, GameTypeOK, Finish
  <2>2. Len(inbox[c]) = 1 /\ Head(inbox[c]) \in Texts /\ Tail(inbox[c]) = <<>>
    BY <2>1, OnlyOne
  <2> QED BY <2>1, <2>2 DEF Finish, OneInFlight
<1>2. /\ Playing' = Playing \ {c}
      /\ \A d : Requests(d)' = Requests(d)
  BY <1>1 DEF Playing, Requests, Finish, OneInFlight, GameTypeOK
<1>3. OneInFlight'
  <2>1. GameTypeOK'
    BY <1>1 DEF OneInFlight, GameTypeOK, Finish
  <2> QED BY <1>1, <1>2, <2>1 DEF OneInFlight, GameTypeOK
<1>4. Parity'
  <2>1. Odd' = Odd
    BY <1>1 DEF Odd, Finish, OneInFlight, GameTypeOK
  <2>2. \A d \in Playing' : ~ lost' => Requests(d)' # {} \/ inbox'[d] # <<>>
    BY <1>1, <1>2 DEF Parity, Finish, OneInFlight, GameTypeOK, Playing
  <2> QED BY <2>1, <2>2 DEF Parity, Finish
<1>5. Alone'
  <2>1. \A a, b \in Playing' : a # b => a \in mixed'
    BY <1>2 DEF Alone, Finish
  <2>2. ASSUME ~ lost', NEW d \in Players \ mixed'
        PROVE  /\ player'[d] = "first" /\ inbox'[d] # <<>> => Head(inbox'[d]) = data'
               /\ player'[d] = "second" => \A k \in Requests(d)' : queue'[k].text = Xor(data')
               /\ player'[d] = "second" /\ inbox'[d] # <<>> => Head(inbox'[d]) = Right
               /\ player'[d] = "done" => told'[d] = Right
    <3>1. ~ lost /\ d \in Players \ mixed /\ data' = data
      BY <2>2 DEF Finish
    <3>2. CASE d = c
      <4>1. player'[d] = "done" /\ told'[d] = Right
        BY <1>1, <3>1, <3>2 DEF Finish, OneInFlight, GameTypeOK, Alone
      <4> QED BY <4>1
    <3>3. CASE d # c
      <4>1. player'[d] = player[d] /\ inbox'[d] = inbox[d] /\ told'[d] = told[d]
        BY <1>1, <3>3 DEF Finish, OneInFlight, GameTypeOK
      <4> QED BY <1>1, <1>2, <3>1, <4>1 DEF Alone
    <3> QED BY <3>2, <3>3
  <2> QED BY <2>1, <2>2 DEF Alone
<1> QED BY <1>3, <1>4, <1>5

\* The server answers the first datagram and waits for the other kind.
LEMMA ReplyKeeps ==
  ASSUME GameInv, queue # <<>>, NEW r \in Texts, Reply(r),
         server' = IF server = "greeting" THEN "answer" ELSE "greeting",
         server = "greeting" => r = data' /\ data' \in {Cipher(w) : w \in Words},
         server = "answer" =>
           r = (IF Head(queue).text = Xor(data) THEN Right ELSE Wrong) /\ data' = data,
         UNCHANGED <<player, told, lost, mixed>>
  PROVE  GameInv'
<1> USE DEF GameInv
<1>0. PICK c : c = Head(queue).from
  OBVIOUS
<1>1. queue' = Tail(queue) /\ inbox' = [inbox EXCEPT ![c] = Append(@, r)]
  BY <1>0 DEF Reply
<1>2. /\ c \in Players
      /\ queue' \in Seq([from : Players, text : Texts])
      /\ 1 \in Requests(c) /\ queue[1] = Head(queue)
      /\ Requests(c)' = {}
      /\ \A d \in Players : d # c =>
           /\ Requests(d)' = {} <=> Requests(d) = {}
           /\ \A k, n \in Requests(d)' : k = n
           /\ \A k \in Requests(d)' : k + 1 \in Requests(d) /\ queue'[k] = queue[k + 1]
  <2>1. Taken(c)
    BY <1>0, <1>1, TakeFirst
  <2> QED BY <2>1 DEF Taken
<1>3. c \in Playing /\ Playing' = Playing /\ inbox[c] = <<>>
  BY <1>2 DEF OneInFlight, Playing
<1>4. /\ inbox' \in [Players -> Seq(Texts)]
      /\ inbox'[c] # <<>> /\ Head(inbox'[c]) = r /\ Len(inbox'[c]) = 1
      /\ \A d \in Players : d # c => inbox'[d] = inbox[d]
  <2>1. inbox \in [Players -> Seq(Texts)] /\ inbox[c] \in Seq(Texts)
    BY <1>2 DEF OneInFlight, GameTypeOK
  <2>2. inbox'[c] = Append(inbox[c], r) /\ Len(inbox[c]) = 0
    BY <1>1, <1>2, <1>3, <2>1, EmptySeq
  <2>3. /\ Append(inbox[c], r) \in Seq(Texts) /\ Append(inbox[c], r) # <<>>
        /\ Len(Append(inbox[c], r)) = 1 /\ Append(inbox[c], r)[1] = r
    BY <2>1, <2>2, AppendProperties
  <2>4. Head(Append(inbox[c], r)) = r
    BY <1>3, HeadTailAppend
  <2> QED BY <1>1, <1>2, <2>1, <2>2, <2>3, <2>4
<1>5. OneInFlight'
  <2>1. GameTypeOK'
    <3>1. data' \in {Cipher(w) : w \in Words} \cup {Nothing} /\ server \in {"greeting", "answer"}
      BY DEF OneInFlight, GameTypeOK
    <3>2. server' = "answer" => data' # Nothing
      BY <3>1 DEF Cipher, Nothing, Text
    <3>3. server' \in {"greeting", "answer"}
      BY <3>1
    <3> QED BY <1>2, <1>4, <3>1, <3>2, <3>3 DEF OneInFlight, GameTypeOK
  <2>2. ASSUME NEW d \in Players, d # c
        PROVE  /\ \A k, n \in Requests(d)' : k = n
               /\ Requests(d)' = {} <=> Requests(d) = {}
               /\ inbox'[d] = inbox[d] /\ (d \in Playing' <=> d \in Playing)
    BY <1>2, <1>3, <1>4, <2>2
  <2>3. Requests(c)' = {} /\ inbox'[c] # <<>> /\ Len(inbox'[c]) <= 1 /\ c \in Playing'
    BY <1>2, <1>3, <1>4
  <2> QED BY <1>3, <2>1, <2>2, <2>3 DEF OneInFlight
<1>6. Parity'
  <2> SUFFICES ASSUME ~ lost PROVE Parity'
    BY DEF Parity
  <2>1. Odd' = IF c \in Odd THEN Odd \ {c} ELSE Odd \cup {c}
    <3>1. c \in Odd <=> c \notin Odd'
      BY <1>2, <1>3, <1>4 DEF Odd, Playing
    <3>2. \A d \in Players : d # c => (d \in Odd <=> d \in Odd')
      BY <1>4 DEF Odd
    <3>3. Odd \subseteq Players /\ Odd' \subseteq Players
      BY DEF Odd
    <3> QED BY <1>2, <3>1, <3>2, <3>3
  <2>2. IsFiniteSet(Odd) /\ Cardinality(Odd) % 2 = IF server = "answer" THEN 1 ELSE 0
    BY DEF Parity
  <2> HIDE DEF GameInv
  <2>3. IsFiniteSet(Odd') /\ Cardinality(Odd') % 2 = IF Cardinality(Odd) % 2 = 0 THEN 1 ELSE 0
    BY <2>1, <2>2, OneMoreOrLess
  <2>4. server \in {"greeting", "answer"}
    BY DEF GameInv, OneInFlight, GameTypeOK
  <2>5. Cardinality(Odd') % 2 = IF server' = "answer" THEN 1 ELSE 0
    <3>1. CASE server = "greeting"
      <4>1. Cardinality(Odd) % 2 = 0 /\ server' = "answer"
        BY <2>2, <3>1
      <4> QED BY <2>3, <4>1
    <3>2. CASE server = "answer"
      <4>1. Cardinality(Odd) % 2 = 1 /\ server' = "greeting"
        BY <2>2, <3>2
      <4> QED BY <2>3, <4>1
    <3> QED BY <2>4, <3>1, <3>2
  <2>6. \A d \in Playing' : Requests(d)' # {} \/ inbox'[d] # <<>>
    BY <1>2, <1>3, <1>4 DEF GameInv, Parity, Playing
  <2> QED BY <2>3, <2>5, <2>6 DEF Parity
<1>7. Alone'
  <2>1. \A a, b \in Playing' : a # b => a \in mixed'
    BY <1>3 DEF Alone
  <2>2. ASSUME ~ lost', NEW d \in Players \ mixed'
        PROVE  /\ player'[d] = "first" /\ inbox'[d] # <<>> => Head(inbox'[d]) = data'
               /\ player'[d] = "second" => \A k \in Requests(d)' : queue'[k].text = Xor(data')
               /\ player'[d] = "second" /\ inbox'[d] # <<>> => Head(inbox'[d]) = Right
               /\ player'[d] = "done" => told'[d] = Right
    <3>1. ~ lost /\ d \in Players \ mixed /\ player' = player /\ told' = told
      BY <2>2
    <3>2. CASE d = c
      <4>1. Odd \subseteq {c}
        BY <1>3, <3>1, <3>2 DEF Odd, Alone, Playing
      <4>2. c \in Odd <=> player[c] = "second"
        BY <1>2, <1>3 DEF Odd, Playing
      <4>3. server = "answer" <=> c \in Odd
        <5>1. Cardinality(Odd) % 2 = IF server = "answer" THEN 1 ELSE 0
          BY <3>1 DEF Parity
        <5>2. CASE c \in Odd
          <6>1. Odd = {c}
            BY <4>1, <5>2
          <6>2. Cardinality({c}) = 1
            BY FS_Singleton
          <6> QED BY <5>1, <5>2, <6>1, <6>2
        <5>3. CASE c \notin Odd
          <6>1. Odd = {}
            BY <4>1, <5>3
          <6>2. Cardinality({}) = 0
            BY FS_EmptySet
          <6> QED BY <5>1, <5>3, <6>1, <6>2
        <5> QED BY <5>2, <5>3
      <4>4. CASE player[c] = "first"
        <5>1. r = data'
          BY <4>2, <4>3, <4>4 DEF OneInFlight, GameTypeOK
        <5> QED BY <1>4, <3>1, <3>2, <4>4, <5>1
      <4>5. CASE player[c] = "second"
        <5>1. server = "answer" /\ Head(queue).text = Xor(data)
          BY <1>2, <3>1, <3>2, <4>2, <4>3, <4>5 DEF Alone
        <5>2. r = Right
          BY <5>1
        <5>3. Requests(d)' = {} /\ Head(inbox'[d]) = r /\ player'[d] = "second"
          BY <1>2, <1>4, <3>1, <3>2, <4>5
        <5> QED BY <5>2, <5>3
      <4> QED BY <1>3, <4>4, <4>5 DEF Playing
    <3>3. CASE d # c
      <4>1. d \notin Playing
        BY <1>3, <3>1, <3>3 DEF Alone
      <4>2. player[d] # "first" /\ player[d] # "second"
        BY <3>1, <4>1 DEF Playing
      <4> QED BY <3>1, <4>2 DEF Alone
    <3> QED BY <3>2, <3>3
  <2> QED BY <2>1, <2>2 DEF Alone
<1> QED BY <1>5, <1>6, <1>7

LEMMA ServerKeeps == ASSUME GameInv, Server PROVE GameInv'
<1>1. server \in {"greeting", "answer"}
  BY DEF GameInv, OneInFlight, GameTypeOK
<1>2. CASE Challenge
  <2>1. PICK w \in Words : data' = Cipher(w) /\ Reply(Cipher(w))
    BY <1>2 DEF Challenge
  <2>2. Cipher(w) \in Texts
    BY DEF Texts
  <2>3. server = "greeting" /\ server' = "answer" /\ queue # <<>>
        /\ UNCHANGED <<player, told, lost, mixed>>
    BY <1>2 DEF Challenge
  <2> QED BY <2>1, <2>2, <2>3, ReplyKeeps
<1>3. CASE Judge
  <2> DEFINE r == IF Head(queue).text = Xor(data) THEN Right ELSE Wrong
  <2>1. r \in Texts
    BY DEF Texts
  <2>2. server = "answer" /\ server' = "greeting" /\ queue # <<>> /\ Reply(r)
        /\ UNCHANGED <<data, player, told, lost, mixed>>
    BY <1>3 DEF Judge
  <2>3. r = IF Head(queue).text = Xor(data) THEN Right ELSE Wrong
    OBVIOUS
  <2> HIDE DEF r
  <2> QED BY <2>1, <2>2, <2>3, ReplyKeeps
<1> QED BY <1>2, <1>3 DEF Server

LEMMA LoseRequestKeeps == ASSUME GameInv, LoseRequest PROVE GameInv'
<1>1. PICK p \in DOMAIN queue : queue[p].from \in MayLose /\ queue' = RemoveAt(queue, p)
  BY DEF LoseRequest
<1>2. lost' = TRUE /\ UNCHANGED <<server, data, inbox, player, told, mixed, Playing>>
  BY DEF LoseRequest, Playing
<1>3. /\ queue' \in Seq([from : Players, text : Texts])
      /\ \A d \in Players :
           /\ \A k, n \in Requests(d)' : k = n
           /\ Requests(d) = {} => Requests(d)' = {}
           /\ Requests(d) # {} /\ Requests(d)' = {} => d = queue[p].from
  BY <1>1, TakeAny DEF GameInv
<1>4. GameTypeOK'
  BY <1>2, <1>3 DEF GameInv, OneInFlight, GameTypeOK
<1>5. OneInFlight'
  BY <1>1, <1>2, <1>3, <1>4 DEF GameInv, OneInFlight
<1>6. Parity' /\ Alone'
  BY <1>2 DEF GameInv, Parity, Alone
<1> QED BY <1>5, <1>6 DEF GameInv

LEMMA LoseReplyKeeps == ASSUME GameInv, NEW c \in Players, LoseReply(c) PROVE GameInv'
<1>1. inbox' = [inbox EXCEPT ![c] = <<>>] /\ inbox[c] # <<>> /\ c \in MayLose
  <2>1. inbox[c] # <<>> /\ inbox[c] \in Seq(Texts) /\ Len(inbox[c]) <= 1
    BY DEF GameInv, OneInFlight, GameTypeOK, LoseReply
  <2>2. Tail(inbox[c]) = <<>>
    BY <2>1, OnlyOne
  <2> QED BY <2>2 DEF LoseReply
<1>2. lost' = TRUE /\ UNCHANGED <<server, data, queue, player, told, mixed, Playing>>
  BY DEF LoseReply, Playing
<1>3. \A d : Requests(d)' = Requests(d)
  BY <1>2 DEF Requests
<1>4. GameTypeOK'
  BY <1>1, <1>2 DEF GameInv, OneInFlight, GameTypeOK
<1>5. OneInFlight'
  BY <1>1, <1>2, <1>3, <1>4, EmptySeq DEF GameInv, OneInFlight, GameTypeOK
<1>6. Parity' /\ Alone'
  BY <1>2 DEF GameInv, Parity, Alone
<1> QED BY <1>5, <1>6 DEF GameInv

LEMMA GameStart == GameInit => GameInv
<1> SUFFICES ASSUME GameInit PROVE GameInv
  OBVIOUS
<1>1. Playing = {} /\ Odd = {} /\ \A c : Requests(c) = {}
  BY DEF GameInit, Playing, Odd, Requests
<1>2. OneInFlight
  <2>1. Len(<<>>) = 0 /\ inbox \in [Players -> Seq(Texts)]
    BY EmptySeq DEF GameInit
  <2>2. GameTypeOK
    BY <2>1, EmptySeq DEF GameInit, GameTypeOK
  <2>3. \A c \in Players : inbox[c] = <<>>
    BY DEF GameInit
  <2> QED BY <1>1, <2>1, <2>2, <2>3 DEF OneInFlight
<1>3. IsFiniteSet({}) /\ Cardinality({}) = 0 /\ 0 % 2 = 0
  BY FS_EmptySet
<1>4. Parity
  BY <1>1, <1>3 DEF GameInit, Parity
<1>5. Alone
  BY <1>1 DEF GameInit, Alone
<1> QED BY <1>2, <1>4, <1>5 DEF GameInv

LEMMA GameCorrect == GameSpec => []GameInv
<1>1. GameInv /\ [GameNext]_game_vars => GameInv'
  <2> SUFFICES ASSUME GameInv, [GameNext]_game_vars PROVE GameInv'
    OBVIOUS
  <2>1. CASE UNCHANGED game_vars
    <3>1. UNCHANGED <<Playing, Odd>> /\ \A c : Requests(c)' = Requests(c)
      BY <2>1 DEF game_vars, Playing, Odd, Requests
    <3>2. OneInFlight'
      BY <2>1, <3>1 DEF game_vars, GameInv, OneInFlight, GameTypeOK
    <3>3. Parity'
      BY <2>1, <3>1 DEF game_vars, GameInv, Parity
    <3>4. Alone'
      BY <2>1, <3>1 DEF game_vars, GameInv, Alone
    <3> QED BY <3>2, <3>3, <3>4 DEF GameInv
  <2>2. ASSUME NEW c \in Players, Greet(c) \/ Decode(c) \/ Finish(c) \/ LoseReply(c)
        PROVE  GameInv'
    BY <2>2, GreetKeeps, DecodeKeeps, FinishKeeps, LoseReplyKeeps
  <2> QED BY <2>1, <2>2, ServerKeeps, LoseRequestKeeps DEF GameNext
<1> QED BY <1>1, GameStart, PTL DEF GameSpec

\* For any clients and words, whatever is lost and however the games overlap:
\* every datagram is answered by one, to its own sender, so that who waits has
\* just one under way unless it was lost, and nobody else has any.
THEOREM OneInFlightCorrect == GameSpec => []OneInFlight
<1>1. GameInv => OneInFlight
  BY DEF GameInv
<1> QED BY <1>1, GameCorrect, PTL

\* As long as nothing is lost the server is back where it began when all games
\* are over, in whatever order it took their texts, and who plays alone is
\* told that it is right.
THEOREM PhaseRestoredCorrect == GameSpec => []PhaseRestored
<1>1. GameInv => PhaseRestored
  <2> SUFFICES ASSUME GameInv, ~ lost PROVE PhaseRestored
    BY DEF PhaseRestored
  <2>1. ASSUME Playing = {} PROVE server = "greeting"
    <3>1. Odd = {}
      BY <2>1 DEF Odd, Playing
    <3>2. Cardinality({}) = 0 /\ 0 % 2 = 0
      BY FS_EmptySet
    <3>3. Cardinality(Odd) % 2 = IF server = "answer" THEN 1 ELSE 0
      BY DEF GameInv, Parity
    <3>4. server \in {"greeting", "answer"}
      BY DEF GameInv, OneInFlight, GameTypeOK
    <3> QED BY <3>1, <3>2, <3>3, <3>4
  <2> QED BY <2>1 DEF GameInv, Alone, PhaseRestored
<1> QED BY <1>1, GameCorrect, PTL

-----------------------------------------------------------------------------
(* The acknowledgements *)

TakenOnes == {c \in Askers : request[c] = "taken"}

\* A server that waits has yet to take the one of its run.
OnePerRun ==
  /\ IsFiniteSet(TakenOnes)
  /\ Cardinality(TakenOnes) <= runs
  /\ ack = "receiving" => Cardinality(TakenOnes) < runs
  /\ ack = "answering" => cliaddr \in TakenOnes

\* What is in a socket or printed, and whose it is.
HeardRight ==
  \A c \in Askers :
    /\ asker[c] = "start" => request[c] = "unsent" /\ c \notin ToSet(requests)
    /\ heard[c] = "server" \/ "server" \in ToSet(replies[c]) => request[c] = "taken"
    /\ heard[c] = "stranger" => kind[c] = "plain"
    /\ "stranger" \in ToSet(replies[c]) => kind[c] # "connected"

AckInv == AckTypeOK /\ OnePerRun /\ HeardRight

LEMMA SetOfAppend ==
  ASSUME NEW S, NEW s \in Seq(S), NEW x \in S
  PROVE  Append(s, x) \in Seq(S) /\ ToSet(Append(s, x)) = ToSet(s) \cup {x}
<1>1. /\ Append(s, x) \in Seq(S) /\ Len(Append(s, x)) = Len(s) + 1
      /\ \A k \in 1 .. Len(s) : Append(s, x)[k] = s[k]
      /\ Append(s, x)[Len(s) + 1] = x
  BY AppendProperties
<1>2. /\ DOMAIN s = 1 .. Len(s) /\ Len(s) \in Nat
      /\ DOMAIN Append(s, x) = 1 .. Len(Append(s, x))
  BY <1>1, LenProperties
<1>3. DOMAIN Append(s, x) = DOMAIN s \cup {Len(s) + 1}
  BY <1>1, <1>2
<1> QED BY <1>1, <1>2, <1>3 DEF ToSet

LEMMA SetOfTail ==
  ASSUME NEW S, NEW s \in Seq(S), s # <<>>
  PROVE  /\ Head(s) \in ToSet(s) /\ Head(s) \in S
         /\ Tail(s) \in Seq(S) /\ ToSet(Tail(s)) \subseteq ToSet(s)
<1>1. /\ Tail(s) \in Seq(S) /\ Len(Tail(s)) = Len(s) - 1
      /\ \A k \in 1 .. Len(Tail(s)) : Tail(s)[k] = s[k + 1]
      /\ Head(s) \in S
  BY HeadTailProperties
<1>2. /\ DOMAIN s = 1 .. Len(s) /\ Len(s) \in Nat /\ Len(s) # 0
      /\ DOMAIN Tail(s) = 1 .. Len(Tail(s))
  BY <1>1, EmptySeq, LenProperties
<1>3. Head(s) = s[1]
  OBVIOUS
<1> QED BY <1>1, <1>2, <1>3 DEF ToSet

LEMMA SetOfEmpty == ToSet(<<>>) = {}
BY DEF ToSet

LEMMA Delivered ==
  ASSUME AckTypeOK, NEW c \in Askers, NEW from \in {"server", "stranger"}, Deliver(c, from)
  PROVE  /\ replies' \in [Askers -> Seq({"server", "stranger"})]
         /\ \A d \in Askers : \/ replies'[d] = replies[d]
                              \/ d = c /\ ToSet(replies'[d]) = ToSet(replies[d]) \cup {from}
<1>1. replies \in [Askers -> Seq({"server", "stranger"})]
  BY DEF AckTypeOK
<1>2. /\ Append(replies[c], from) \in Seq({"server", "stranger"})
      /\ ToSet(Append(replies[c], from)) = ToSet(replies[c]) \cup {from}
  BY <1>1, SetOfAppend
<1>3. \/ replies' = replies
      \/ replies' = [replies EXCEPT ![c] = Append(@, from)]
  BY DEF Deliver
<1> QED BY <1>1, <1>2, <1>3

\* What a step of the clients leaves alone.
LEMMA CountKeeps ==
  ASSUME OnePerRun, TakenOnes' = TakenOnes, UNCHANGED <<ack, runs, cliaddr>>
  PROVE  OnePerRun'
BY DEF OnePerRun

LEMMA ServerAckKeeps ==
  ASSUME AckInv, RunServer \/ TakeRequest \/ Acknowledge
  PROVE  AckInv'
<1>t. AckTypeOK /\ Cardinality(TakenOnes) \in Nat
  BY FS_CardinalityType DEF AckInv, OnePerRun
<1>1. CASE RunServer
  <2>1. AckTypeOK'
    BY <1>1, <1>t, AskersAssumption DEF RunServer, AckTypeOK
  <2>2. TakenOnes' = TakenOnes
    BY <1>1 DEF RunServer, TakenOnes
  <2>3. OnePerRun'
    BY <1>1, <1>t, <2>2 DEF AckInv, OnePerRun, RunServer, AckTypeOK
  <2>4. HeardRight'
    BY <1>1 DEF AckInv, HeardRight, RunServer
  <2> QED BY <2>1, <2>3, <2>4 DEF AckInv
<1>2. CASE TakeRequest
  <2>1. requests \in Seq(Askers) /\ requests # <<>>
    BY <1>2, <1>t DEF AckTypeOK, TakeRequest
  <2>2. /\ Head(requests) \in ToSet(requests) /\ Head(requests) \in Askers
        /\ Tail(requests) \in Seq(Askers) /\ ToSet(Tail(requests)) \subseteq ToSet(requests)
    BY <2>1, SetOfTail
  <2>c. PICK c \in Askers : c = Head(requests)
    BY <2>2
  <2>3. /\ ack = "receiving" /\ ack' = "answering" /\ cliaddr' = c /\ runs' = runs
        /\ request' = [request EXCEPT ![c] = "taken"] /\ requests' = Tail(requests)
        /\ UNCHANGED <<kind, asker, replies, heard>>
    BY <1>2, <2>c DEF TakeRequest
  <2>4. AckTypeOK'
    BY <1>t, <2>2, <2>3 DEF AckTypeOK
  <2>5. TakenOnes' = TakenOnes \cup {c}
    BY <1>t, <2>3 DEF TakenOnes, AckTypeOK
  <2>6. OnePerRun'
    <3>1. IsFiniteSet(TakenOnes) /\ Cardinality(TakenOnes) < runs
      BY <2>3 DEF AckInv, OnePerRun
    <3>2. /\ IsFiniteSet(TakenOnes \cup {c})
          /\ Cardinality(TakenOnes \cup {c}) \in {Cardinality(TakenOnes), Cardinality(TakenOnes) + 1}
      BY <3>1, FS_AddElement
    <3>3. runs \in Int
      BY <1>t DEF AckTypeOK
    <3>4. Cardinality(TakenOnes \cup {c}) <= runs
      BY <1>t, <3>1, <3>2, <3>3
    <3> QED BY <2>3, <2>5, <3>2, <3>4 DEF OnePerRun
  <2>7. asker[c] # "start"
    BY <2>2, <2>c DEF AckInv, HeardRight
  <2>8. HeardRight'
    <3>1. \A d \in Askers : \/ request'[d] = request[d]
                            \/ d = c /\ request'[d] = "taken"
      BY <1>t, <2>3 DEF AckTypeOK
    <3>2. ToSet(requests)' \subseteq ToSet(requests)
      BY <2>2, <2>3
    <3> QED BY <2>3, <2>7, <3>1, <3>2 DEF AckInv, HeardRight
  <2> QED BY <2>4, <2>6, <2>8 DEF AckInv
<1>3. CASE Acknowledge
  <2>1. ack = "answering" /\ ack' = "absent" /\ cliaddr' = Nobody /\ requests' = <<>>
        /\ request' = [c \in Askers |-> IF request[c] = "queued" THEN "dropped" ELSE request[c]]
        /\ Deliver(cliaddr, "server") /\ UNCHANGED <<kind, runs, asker, heard>>
    BY <1>3 DEF Acknowledge
  <2>c. PICK c \in Askers : c = cliaddr /\ request[c] = "taken"
    BY <2>1 DEF AckInv, OnePerRun, TakenOnes
  <2>2. /\ replies' \in [Askers -> Seq({"server", "stranger"})]
        /\ \A d \in Askers : \/ replies'[d] = replies[d]
                             \/ d = c /\ ToSet(replies'[d]) = ToSet(replies[d]) \cup {"server"}
    BY <1>t, <2>1, <2>c, Delivered
  <2>3. AckTypeOK'
    BY <1>t, <2>1, <2>2 DEF AckTypeOK
  <2>4. TakenOnes' = TakenOnes
    BY <2>1 DEF TakenOnes
  <2>5. OnePerRun'
    BY <2>1, <2>4 DEF AckInv, OnePerRun
  <2>6. HeardRight'
    <3>1. \A d \in Askers : /\ request[d] = "taken" => request'[d] = "taken"
                            /\ request[d] = "unsent" => request'[d] = "unsent"
      BY <2>1
    <3>2. ToSet(requests)' = {}
      BY <2>1, SetOfEmpty
    <3>3. \A d \in Askers : /\ "server" \in ToSet(replies'[d]) => request'[d] = "taken"
                            /\ "stranger" \in ToSet(replies'[d]) => "stranger" \in ToSet(replies[d])
      BY <2>2, <2>c, <3>1 DEF AckInv, HeardRight
    <3>4. kind' = kind /\ asker' = asker /\ heard' = heard
      BY <2>1
    <3>5. \A d \in Askers : /\ asker'[d] = "start" => request'[d] = "unsent"
                            /\ heard'[d] = "server" => request'[d] = "taken"
      BY <3>1, <3>4 DEF AckInv, HeardRight
    <3>6. \A d \in Askers : d \notin ToSet(requests)'
      BY <3>2
    <3>7. \A d \in Askers : /\ heard'[d] = "stranger" => kind'[d] = "plain"
                            /\ "stranger" \in ToSet(replies'[d]) => kind'[d] # "connected"
      BY <3>3, <3>4 DEF AckInv, HeardRight
    <3> QED BY <3>3, <3>5, <3>6, <3>7 DEF HeardRight
  <2> QED BY <2>3, <2>5, <2>6 DEF AckInv
<1> QED BY <1>1, <1>2, <1>3

LEMMA AskerKeeps ==
  ASSUME AckInv, NEW c \in Askers, Ask(c) \/ Stranger(c) \/ HearReply(c) \/ HearRefusal(c)
  PROVE  AckInv'
<1>t. AckTypeOK
  BY DEF AckInv
<1>1. CASE Ask(c)
  <2>1. /\ asker[c] = "start" /\ asker' = [asker EXCEPT ![c] = "waiting"]
        /\ request[c] = "unsent" /\ "server" \notin ToSet(replies[c]) /\ heard[c] # "server"
        /\ request' = [request EXCEPT ![c] = IF ack = "absent" THEN "refused" ELSE "queued"]
        /\ requests' = IF ack = "absent" THEN requests ELSE Append(requests, c)
        /\ UNCHANGED <<kind, ack, runs, cliaddr, replies, heard>>
    BY <1>1 DEF Ask, AckInv, HeardRight
  <2>2. requests' \in Seq(Askers) /\ ToSet(requests)' \subseteq ToSet(requests) \cup {c}
    BY <1>t, <2>1, SetOfAppend DEF AckTypeOK
  <2>3. AckTypeOK'
    BY <1>t, <2>1, <2>2 DEF AckTypeOK
  <2>4. TakenOnes' = TakenOnes
    BY <1>t, <2>1 DEF TakenOnes, AckTypeOK
  <2>5. OnePerRun'
    BY <2>1, <2>4, CountKeeps DEF AckInv
  <2>6. HeardRight'
    BY <1>t, <2>1, <2>2 DEF AckInv, HeardRight, AckTypeOK
  <2> QED BY <2>3, <2>5, <2>6 DEF AckInv
<1>2. CASE Stranger(c)
  <2>1. /\ asker[c] = "waiting" /\ kind[c] # "connected" /\ Deliver(c, "stranger")
        /\ UNCHANGED <<kind, ack, runs, cliaddr, requests, asker, request, heard>>
    BY <1>2 DEF Stranger
  <2>2. /\ replies' \in [Askers -> Seq({"server", "stranger"})]
        /\ \A d \in Askers : \/ replies'[d] = replies[d]
                             \/ d = c /\ ToSet(replies'[d]) = ToSet(replies[d]) \cup {"stranger"}
    BY <1>t, <2>1, Delivered
  <2>3. AckTypeOK'
    BY <1>t, <2>1, <2>2 DEF AckTypeOK
  <2>4. OnePerRun'
    BY <2>1, CountKeeps DEF AckInv, TakenOnes
  <2>5. HeardRight'
    BY <2>1, <2>2 DEF AckInv, HeardRight
  <2> QED BY <2>3, <2>4, <2>5 DEF AckInv
<1>3. CASE HearReply(c)
  <2>1. /\ asker[c] = "waiting" /\ asker' = [asker EXCEPT ![c] = "done"]
        /\ heard' = [heard EXCEPT ![c] = Shows(c, Head(replies[c]))]
        /\ replies' = [replies EXCEPT ![c] = <<>>]
        /\ UNCHANGED <<kind, ack, runs, cliaddr, requests, request>>
    BY <1>3 DEF HearReply
  <2>2. replies[c] \in Seq({"server", "stranger"}) /\ replies[c] # <<>>
    BY <1>3, <1>t DEF HearReply, AckTypeOK
  <2>3. Head(replies[c]) \in ToSet(replies[c]) /\ Head(replies[c]) \in {"server", "stranger"}
    BY <2>2, SetOfTail
  <2>4. /\ heard'[c] \in {"server", "stranger", "unexpected"}
        /\ heard'[c] = "server" => Head(replies[c]) = "server"
        /\ heard'[c] = "stranger" => Head(replies[c]) = "stranger" /\ kind[c] \notin {"fields", "whole"}
        /\ \A d \in Askers : d # c => heard'[d] = heard[d]
    BY <1>t, <2>1, <2>3 DEF Shows, AckTypeOK
  <2>5. heard' \in [Askers -> {"nothing", "server", "stranger", "unexpected", "garbage"}]
    BY <1>t, <2>1, <2>4 DEF AckTypeOK
  <2>6. AckTypeOK'
    BY <1>t, <2>1, <2>5 DEF AckTypeOK
  <2>7. OnePerRun'
    BY <2>1, CountKeeps DEF AckInv, TakenOnes
  <2>8. HeardRight'
    <3>1. \A d \in Askers : d # c => replies'[d] = replies[d] /\ asker'[d] = asker[d]
      BY <1>t, <2>1 DEF AckTypeOK
    <3>2. ToSet(replies'[c]) = {} /\ asker'[c] = "done"
      BY <1>t, <2>1, SetOfEmpty DEF AckTypeOK
    <3>3. kind[c] \in {"plain", "fields", "whole", "connected"}
      BY <1>t DEF AckTypeOK, Kinds
    <3>4. /\ heard'[c] = "server" => request[c] = "taken"
          /\ heard'[c] = "stranger" => kind[c] = "plain"
      BY <2>3, <2>4, <3>3 DEF AckInv, HeardRight
    <3> QED BY <2>1, <2>4, <3>1, <3>2, <3>4 DEF AckInv, HeardRight
  <2> QED BY <2>6, <2>7, <2>8 DEF AckInv
<1>4. CASE HearRefusal(c)
  <2>1. /\ asker' = [asker EXCEPT ![c] = "done"] /\ heard' = [heard EXCEPT ![c] = "garbage"]
        /\ UNCHANGED <<kind, ack, runs, cliaddr, requests, request, replies>>
    BY <1>4 DEF HearRefusal
  <2>2. AckTypeOK'
    BY <1>t, <2>1 DEF AckTypeOK
  <2>3. OnePerRun'
    BY <2>1, CountKeeps DEF AckInv, TakenOnes
  <2>4. HeardRight'
    BY <1>t, <2>1 DEF AckInv, HeardRight, AckTypeOK
  <2> QED BY <2>2, <2>3, <2>4 DEF AckInv
<1> QED BY <1>1, <1>2, <1>3, <1>4

LEMMA AckStart == AckInit => AckInv
<1> SUFFICES ASSUME AckInit PROVE AckInv
  OBVIOUS
<1>1. AckTypeOK
  BY AskersAssumption, EmptySeq DEF AckInit, AckTypeOK
<1>2. TakenOnes = {}
  BY DEF AckInit, TakenOnes
<1>3. IsFiniteSet({}) /\ Cardinality({}) = 0
  BY FS_EmptySet
<1>4. OnePerRun
  BY <1>2, <1>3 DEF AckInit, OnePerRun
<1>5. HeardRight
  BY SetOfEmpty DEF AckInit, HeardRight
<1> QED BY <1>1, <1>4, <1>5 DEF AckInv

\* For any number of clients of the four kinds and of runs of the server: each
\* run acknowledges one client at most, who prints an acknowledgement was
\* acknowledged, and only the client that looks at no address is deceived.
THEOREM AckRightCorrect == AckSpec => []AckRight
<1>1. AckInv /\ [AckNext]_ack_vars => AckInv'
  <2> SUFFICES ASSUME AckInv, [AckNext]_ack_vars PROVE AckInv'
    OBVIOUS
  <2>1. CASE UNCHANGED ack_vars
    <3>1. AckTypeOK' /\ HeardRight'
      BY <2>1 DEF ack_vars, AckInv, AckTypeOK, HeardRight
    <3>2. OnePerRun'
      BY <2>1 DEF ack_vars, AckInv, OnePerRun, TakenOnes
    <3> QED BY <3>1, <3>2 DEF AckInv
  <2> QED BY <2>1, ServerAckKeeps, AskerKeeps DEF AckNext, AckServer
<1>2. AckInv => AckRight
  BY DEF AckInv, AckRight, OnePerRun, HeardRight, TakenOnes
<1> QED BY <1>1, <1>2, AckStart, PTL DEF AckSpec

-----------------------------------------------------------------------------
(* The threaded echo server *)

\* A piece as fgets() returns it: the newline is its last byte, and it ends
\* without one only if it fills the buffer.
Whole(p) ==
  /\ p \in Seq(Nat) /\ p # <<>> /\ Len(p) <= Cap - 1
  /\ p[Len(p)] = Newline \/ Len(p) = Cap - 1
  /\ \A j \in 1 .. Len(p) - 1 : p[j] # Newline

EchoTypes ==
  /\ new \in Clients
  /\ main \in {"loop", "call", "accept", "create", "close", "exited", "killed"}
  /\ g_stop \in BOOLEAN /\ listening \in BOOLEAN /\ signalled \in BOOLEAN
  /\ thread \in [Clients -> {"none", "recv", "send", "ended"}]
  /\ conn \in [Clients -> {"idle", "backlog", "open", "fin", "rst"}]
  /\ gone \in [Clients -> {"up", "down", "broken"}]
  /\ client \in [Clients -> {"start", "prompt", "recv", "done", "aborted"}]
  /\ pieces \in [Clients -> Nat]
  /\ buf \in [Clients -> Seq(Nat)] /\ line \in [Clients -> Seq(Nat)]
  /\ recvbuf \in [Clients -> Seq(Nat)]
  /\ toServer \in [Clients -> Seq(Nat)] /\ toClient \in [Clients -> Seq(Nat)]

\* A thread lives only on an open connection, and a connection is handed to a
\* thread once.
Served(c) ==
  /\ thread[c] \in {"recv", "send"} => conn[c] = "open"
  /\ conn[c] \in {"idle", "backlog"} => thread[c] = "none"
  /\ main = "create" /\ new = c => conn[c] = "open" /\ thread[c] = "none"
  /\ buf[c] # <<>> <=> thread[c] = "send"
  /\ client[c] = "start" <=> conn[c] = "idle"

\* Only a killed client leaves while its echo is under way.
Left(c) ==
  /\ gone[c] # "up" => client[c] \in {"done", "aborted"}
  /\ gone[c] = "broken" => client[c] = "aborted"

\* What is read of the echo, and what is on its way to the client, continue to
\* the piece with some rest: while the connection is open, what the thread has
\* to send and to receive.  Nothing is on its way when the client has its line.
Echo(c) ==
  /\ Len(line[c]) < Cap
  /\ client[c] = "recv" => Whole(line[c])
  /\ client[c] # "aborted" =>
       \E r \in Seq(Nat) :
         /\ line[c] = recvbuf[c] \o (toClient[c] \o r)
         /\ ServerClosed(c) \/ r = buf[c] \o toServer[c]
  /\ client[c] \in {"start", "prompt", "done"} =>
       /\ toClient[c] = <<>>
       /\ ServerClosed(c) \/ (buf[c] = <<>> /\ toServer[c] = <<>>)

EchoSession(c) == Len(recvbuf[c]) < Cap /\ Served(c) /\ Left(c) /\ Echo(c)

ThreadInv ==
  /\ EchoTypes
  /\ IsFiniteSet(Open) /\ Cardinality(Open) <= MaxOpen
  /\ OthersKept
  /\ \A c \in Clients : EchoSession(c)

LEMMA BytesConcat ==
  ASSUME NEW s \in Seq(Nat), NEW t \in Seq(Nat), NEW u \in Seq(Nat)
  PROVE  (s \o t) \o u = s \o (t \o u)
BY ConcatAssociative, SMTT(60)

LEMMA NoBytes == ASSUME NEW q \in Seq(Nat) PROVE Len(q) = 0 <=> q = <<>>
BY EmptySeq

LEMMA NoBytesTwice ==
  ASSUME NEW q \in Seq(Nat), NEW r \in Seq(Nat), q \o r = <<>>
  PROVE  q = <<>> /\ r = <<>>
<1>1. Len(q) + Len(r) = 0 /\ Len(q) \in Nat /\ Len(r) \in Nat
  BY ConcatProperties, LenProperties, EmptySeq
<1>2. Len(q) = 0 /\ Len(r) = 0
  BY <1>1
<1> QED BY <1>2, NoBytes

\* The bytes that SubSeq leaves are those it has not taken.
LEMMA SplitAt ==
  ASSUME NEW s \in Seq(Nat), NEW n \in 1 .. Len(s)
  PROVE  /\ SubSeq(s, 1, n) \in Seq(Nat) /\ SubSeq(s, n + 1, Len(s)) \in Seq(Nat)
         /\ SubSeq(s, 1, n) \o SubSeq(s, n + 1, Len(s)) = s
         /\ SubSeq(s, 1, n) # <<>>
         /\ SubSeq(s, n + 1, Len(s)) = <<>> <=> n = Len(s)
<1>1. \A i \in 1 .. Len(s) : s[i] \in Nat
  BY ElementOfSeq
<1>2. /\ SubSeq(s, 1, n) \in Seq(Nat) /\ Len(SubSeq(s, 1, n)) = n
      /\ SubSeq(s, n + 1, Len(s)) \in Seq(Nat) /\ Len(SubSeq(s, n + 1, Len(s))) = Len(s) - n
  BY <1>1, SubSeqProperties
<1>3. SubSeq(s, 1, n) \o SubSeq(s, n + 1, Len(s)) = SubSeq(s, 1, Len(s))
  BY ConcatAdjacentSubSeq
<1>4. SubSeq(s, 1, Len(s)) = s
  BY SubSeqFull
<1>5. SubSeq(s, 1, n) # <<>>
  BY <1>2, NoBytes
<1>7. SubSeq(s, n + 1, Len(s)) = <<>> <=> n = Len(s)
  <2> DEFINE q == SubSeq(s, n + 1, Len(s))
  <2>1. q \in Seq(Nat) /\ Len(q) = Len(s) - n
    BY <1>2
  <2>2. Len(q) = 0 <=> n = Len(s)
    BY <2>1
  <2> HIDE DEF q
  <2>3. Len(q) = 0 <=> q = <<>>
    BY <2>1, NoBytes
  <2> QED BY <2>2, <2>3 DEF q
<1>6. SubSeq(s, 1, n) \o SubSeq(s, n + 1, Len(s)) = s
  BY <1>3, <1>4
<1> QED BY <1>2, <1>5, <1>6, <1>7

\* A byte that moves from what is on its way to what is read.
LEMMA ReadOne ==
  ASSUME NEW s \in Seq(Nat), NEW t \in Seq(Nat), t # <<>>, NEW r \in Seq(Nat)
  PROVE  Append(s, Head(t)) \o (Tail(t) \o r) = s \o (t \o r)
<1> DEFINE h == <<Head(t)>>
           k == Tail(t)
           cat(x, y) == x \o y
<1>1. Head(t) \in Nat /\ k \in Seq(Nat) /\ h \in Seq(Nat)
  BY HeadTailProperties
<1>2. cat(h, k) = t
  BY <1>1, HeadTailProperties
<1>3. Append(s, Head(t)) = cat(s, h)
  BY <1>1, AppendIsConcat
<1>4. \A x, y \in Seq(Nat) : cat(x, y) \in Seq(Nat)
  BY ConcatProperties
<1>5. \A x, y, z \in Seq(Nat) : cat(cat(x, y), z) = cat(x, cat(y, z))
  BY BytesConcat
<1>6. cat(cat(s, h), cat(k, r)) = cat(s, cat(t, r))
  <2> HIDE DEF h, k, cat
  <2>1. cat(k, r) \in Seq(Nat)
    BY <1>1, <1>4
  <2>2. cat(cat(s, h), cat(k, r)) = cat(s, cat(h, cat(k, r)))
    BY <1>1, <1>5, <2>1
  <2>3. cat(cat(h, k), r) = cat(h, cat(k, r))
    BY <1>1, <1>5
  <2> QED BY <1>2, <2>2, <2>3
<1> QED BY <1>3, <1>6

LEMMA LastOne ==
  ASSUME NEW a \in Nat, NEW b \in Nat, NEW c \in Nat, b # 0, a + 1 = a + b + c
  PROVE  b = 1 /\ c = 0
OBVIOUS

\* recv_line() stops only at the end of a whole piece.
LEMMA StopsAtEnd ==
  ASSUME NEW p, Whole(p), NEW s \in Seq(Nat), NEW t \in Seq(Nat), t # <<>>,
         NEW r \in Seq(Nat), p = s \o (t \o r),
         Head(t) = Newline \/ Len(s) + 2 = Cap
  PROVE  Tail(t) = <<>> /\ r = <<>>
<1> DEFINE i == Len(s) + 1
<1>1. /\ t \o r \in Seq(Nat) /\ Len(t \o r) = Len(t) + Len(r) /\ (t \o r)[1] = t[1]
  BY ConcatProperties
<1>2. Len(p) = Len(s) + Len(t) + Len(r) /\ p[i] = (t \o r)[1]
  BY <1>1, ConcatProperties
<1>3. Head(t) = t[1] /\ Len(Tail(t)) = Len(t) - 1 /\ Tail(t) \in Seq(Nat)
  BY HeadTailProperties
<1>4. Len(s) \in Nat /\ Len(t) \in Nat /\ Len(r) \in Nat /\ Len(t) # 0
  BY NoBytes
<1>5. p[i] = Head(t) /\ i \in 1 .. Len(p)
  BY <1>1, <1>2, <1>3, <1>4
<1>6. i = Len(p)
  <2>1. CASE Head(t) = Newline
    <3>1. Len(p) \in Nat
      BY <1>2, <1>4
    <3>2. i # Len(p) => i \in 1 .. Len(p) - 1
      BY <1>5, <3>1
    <3> HIDE DEF i
    <3> QED BY <1>5, <2>1, <3>2 DEF Whole
  <2>2. CASE Len(s) + 2 = Cap
    <3>1. i = Cap - 1 /\ Len(p) <= Cap - 1
      BY <1>4, <2>2, CapAssumption DEF Whole
    <3> QED BY <1>4, <1>5, <3>1, CapAssumption
  <2> QED BY <2>1, <2>2
<1>7. Len(t) = 1 /\ Len(r) = 0
  BY <1>2, <1>4, <1>6, LastOne
<1>8. Len(Tail(t)) = 0
  BY <1>3, <1>7
<1>9. Tail(t) = <<>>
  BY <1>3, <1>8, NoBytes
<1>10. r = <<>>
  BY <1>7, NoBytes
<1> QED BY <1>9, <1>10

\* Of a prefix of the line no more can be read than the line has.
LEMMA ReadFits ==
  ASSUME NEW s \in Seq(Nat), NEW t \in Seq(Nat), NEW r \in Seq(Nat)
  PROVE  /\ s \o (t \o r) \in Seq(Nat)
         /\ Len(s) <= Len(s \o (t \o r))
         /\ IsPrefix(s, s \o (t \o r))
<1>1. t \o r \in Seq(Nat)
  BY ConcatProperties
<1>2. s \o (t \o r) \in Seq(Nat) /\ Len(s) <= Len(s \o (t \o r))
  BY <1>1, ConcatProperties
<1>3. SubSeq(s \o (t \o r), 1, Len(s)) = SubSeq(s, 1, Len(s))
  <2>1. CASE s = <<>>
    BY <1>2, <2>1, SubSeqEmpty
  <2>2. CASE s # <<>>
    BY <1>1, <2>2, SubSeqOfConcat1
  <2> QED BY <2>1, <2>2
<1> QED BY <1>2, <1>3 DEF IsPrefix

LEMMA WholePieces ==
  ASSUME NEW k \in Nat, NEW p \in Pieces(k + 1)
  PROVE  Whole(p) /\ Len(p) < Cap
<1> USE CapAssumption DEF Whole, Newline
<1>1. CASE \E n \in 1 .. Cap - 1 : p = [j \in 1 .. n |-> IF j = n THEN Newline ELSE k + 1]
  <2>1. PICK n \in 1 .. Cap - 1 : p = [j \in 1 .. n |-> IF j = n THEN Newline ELSE k + 1]
    BY <1>1
  <2>2. p \in Seq(Nat) /\ Len(p) = n
    BY <2>1
  <2> QED BY <2>1, <2>2
<1>2. CASE p = [j \in 1 .. Cap - 1 |-> k + 1]
  <2>1. p \in Seq(Nat) /\ Len(p) = Cap - 1
    BY <1>2
  <2> QED BY <1>2, <2>1
<1> QED BY <1>1, <1>2 DEF Pieces

LEMMA ThreadStart == Init => ThreadInv
<1> SUFFICES ASSUME Init PROVE ThreadInv
  OBVIOUS
<1>1. EchoTypes
  BY EmptySeq DEF Init, EchoTypes
<1>2. Open = {}
  BY DEF Init, Open
<1>3. OthersKept
  BY DEF Init, OthersKept, Alive
<1>4. ASSUME NEW c \in Clients PROVE EchoSession(c)
  <2>1. <<>> \in Seq(Nat) /\ <<>> = <<>> \o (<<>> \o <<>>) /\ <<>> = <<>> \o <<>> /\ Len(<<>>) = 0
    BY EmptySeq, ConcatEmptySeq
  <2>2. Served(c) /\ Left(c)
    BY DEF Init, Served, Left
  <2>3. /\ line[c] = <<>> /\ recvbuf[c] = <<>> /\ toClient[c] = <<>> /\ buf[c] = <<>>
        /\ toServer[c] = <<>> /\ client[c] = "start"
    BY DEF Init
  <2>4. \E r \in Seq(Nat) :
           /\ line[c] = recvbuf[c] \o (toClient[c] \o r)
           /\ ServerClosed(c) \/ r = buf[c] \o toServer[c]
    BY <2>1, <2>3
  <2>5. Echo(c)
    BY <2>1, <2>3, <2>4, CapAssumption DEF Echo
  <2> QED BY <2>1, <2>2, <2>3, <2>5, CapAssumption DEF EchoSession
<1> QED BY <1>1, <1>2, <1>3, <1>4, FS_EmptySet, OpenAssumption DEF ThreadInv

\* A step leaves a connection and its client alone: then they stay in order.
LeavesAlone(d) ==
  /\ thread'[d] = thread[d] /\ buf'[d] = buf[d] /\ conn'[d] = conn[d] /\ gone'[d] = gone[d]
  /\ client'[d] = client[d] /\ line'[d] = line[d] /\ recvbuf'[d] = recvbuf[d]
  /\ toServer'[d] = toServer[d] /\ toClient'[d] = toClient[d]
  /\ main' = "create" /\ new' = d => main = "create" /\ new = d

LEMMA BystanderKeeps ==
  ASSUME ThreadInv, NEW d \in Clients, LeavesAlone(d)
  PROVE  EchoSession(d)'
<1> USE DEF LeavesAlone
<1>1. EchoSession(d)
  BY DEF ThreadInv
<1>2. Served(d)' /\ Left(d)'
  BY <1>1 DEF EchoSession, Served, Left
<1>3. Echo(d)'
  BY <1>1 DEF EchoSession, Echo, ServerClosed
<1> QED BY <1>1, <1>2, <1>3 DEF EchoSession

\* A connection that the server's side closes: of the echo, what is on its way
\* may be lost, and no more comes.
LEMMA ClosingKeeps ==
  ASSUME ThreadInv, NEW d \in Clients, conn[d] # "idle", conn'[d] \in {"fin", "rst"},
         thread'[d] \in {"none", "ended"}, buf'[d] = <<>>,
         client'[d] = client[d], line'[d] = line[d], recvbuf'[d] = recvbuf[d],
         gone'[d] = gone[d] \/ (gone'[d] # "up" /\ client[d] = "aborted"),
         toServer'[d] = toServer[d], toClient'[d] \in {toClient[d], <<>>},
         ~ (main' = "create" /\ new' = d)
  PROVE  EchoSession(d)'
<1>1. EchoSession(d)
  BY DEF ThreadInv
<1>2. Served(d)' /\ Left(d)'
  BY <1>1 DEF EchoSession, Served, Left
<1>3. client[d] # "aborted" =>
        \E r \in Seq(Nat) : line[d] = recvbuf[d] \o (toClient'[d] \o r)
  <2> SUFFICES ASSUME client[d] # "aborted"
               PROVE  \E r \in Seq(Nat) : line[d] = recvbuf[d] \o (toClient'[d] \o r)
    OBVIOUS
  <2>1. PICK r \in Seq(Nat) : line[d] = recvbuf[d] \o (toClient[d] \o r)
    BY <1>1 DEF EchoSession, Echo
  <2>2. toClient[d] \in Seq(Nat)
    BY DEF ThreadInv, EchoTypes
  <2>3. toClient[d] \o r \in Seq(Nat) /\ <<>> \o (toClient[d] \o r) = toClient[d] \o r
    BY <2>2, ConcatProperties, ConcatEmptySeq
  <2> QED BY <2>1, <2>3
<1>4. Echo(d)'
  BY <1>1, <1>3 DEF EchoSession, Echo, ServerClosed
<1> QED BY <1>1, <1>2, <1>4 DEF EchoSession

\* A step that kills nobody and ends no thread whose client is there.
Harmless ==
  /\ main' = "killed" <=> main = "killed"
  /\ main = "exited" => main' = "exited"
  /\ \A d \in Clients :
       /\ thread'[d] = "ended" => thread[d] = "ended" \/ gone'[d] # "up" \/ main' = "exited"
       /\ gone[d] # "up" => gone'[d] # "up"
       /\ gone[d] = "broken" => gone'[d] = "broken"
       /\ client[d] = "aborted" => client'[d] = "aborted"

LEMMA HarmlessKeeps ==
  ASSUME ThreadInv, EchoTypes', \A d \in Clients : EchoSession(d)', Harmless,
         \A d \in Clients : conn'[d] = "open" => conn[d] = "open"
  PROVE  ThreadInv'
<1>1. IsFiniteSet(Open') /\ Cardinality(Open') <= MaxOpen
  <2>1. Open' \in SUBSET Open
    BY DEF Open
  <2>2. IsFiniteSet(Open) /\ Cardinality(Open) <= MaxOpen
    BY DEF ThreadInv
  <2>3. IsFiniteSet(Open') /\ Cardinality(Open') <= Cardinality(Open)
    BY <2>1, <2>2, FS_Subset
  <2>4. Cardinality(Open) \in Nat /\ Cardinality(Open') \in Nat
    BY <2>2, <2>3, FS_CardinalityType
  <2> QED BY <2>2, <2>3, <2>4, OpenAssumption
<1>2. OthersKept'
  BY DEF ThreadInv, OthersKept, Harmless, Alive
<1> QED BY <1>1, <1>2 DEF ThreadInv

-----------------------------------------------------------------------------
(* The steps of its main thread *)

LEMMA LoopKeeps == ASSUME ThreadInv, CheckStop \/ CallAccept \/ AcceptError PROVE ThreadInv'
<1>1. /\ UNCHANGED <<new, g_stop, listening, thread_vars, client_vars, toServer, toClient, conn,
                     gone, signalled>>
      /\ main \in {"loop", "call", "accept"} /\ main' \in {"loop", "call", "accept", "close"}
  BY DEF CheckStop, CallAccept, AcceptError
<1>2. EchoTypes'
  BY <1>1 DEF ThreadInv, EchoTypes, thread_vars, client_vars
<1>3. ASSUME NEW d \in Clients PROVE EchoSession(d)'
  BY <1>1, BystanderKeeps DEF LeavesAlone, thread_vars, client_vars
<1>4. Harmless
  BY <1>1 DEF Harmless, thread_vars, client_vars
<1> QED BY <1>1, <1>2, <1>3, <1>4, HarmlessKeeps

LEMMA AcceptKeeps == ASSUME ThreadInv, NEW c \in Clients, Accept(c) PROVE ThreadInv'
<1>1. /\ UNCHANGED <<g_stop, listening, thread, buf, client, pieces, line, recvbuf, toServer,
                     toClient, gone, signalled>>
      /\ main = "accept" /\ main' = "create" /\ new' = c
      /\ conn[c] = "backlog" /\ conn' = [conn EXCEPT ![c] = "open"]
      /\ Cardinality(Open) < MaxOpen
  BY DEF Accept, thread_vars, client_vars
<1>2. EchoTypes'
  BY <1>1 DEF ThreadInv, EchoTypes
<1>3. conn' \in [Clients -> {"idle", "backlog", "open", "fin", "rst"}] /\ conn'[c] = "open"
      /\ \A d \in Clients : d # c => conn'[d] = conn[d]
  BY <1>1 DEF ThreadInv, EchoTypes
<1>4. EchoSession(c)'
  <2>1. EchoSession(c)
    BY DEF ThreadInv
  <2>2. Served(c)' /\ Left(c)'
    BY <1>1, <1>3, <2>1 DEF EchoSession, Served, Left
  <2>3. Echo(c)'
    BY <1>1, <1>3, <2>1 DEF EchoSession, Echo, ServerClosed
  <2> QED BY <1>1, <2>1, <2>2, <2>3 DEF EchoSession
<1>5. ASSUME NEW d \in Clients, d # c PROVE EchoSession(d)'
  BY <1>1, <1>3, <1>5, BystanderKeeps DEF LeavesAlone
<1>6. IsFiniteSet(Open') /\ Cardinality(Open') <= MaxOpen
  <2>1. Open' = Open \cup {c} /\ c \notin Open
    BY <1>1, <1>3 DEF Open
  <2>2. IsFiniteSet(Open) /\ Cardinality(Open) \in Nat
    BY FS_CardinalityType DEF ThreadInv
  <2>3. IsFiniteSet(Open') /\ Cardinality(Open') = Cardinality(Open) + 1
    BY <2>1, <2>2, FS_AddElement
  <2> QED BY <1>1, <2>2, <2>3, OpenAssumption
<1>7. OthersKept'
  BY <1>1 DEF ThreadInv, OthersKept, Alive
<1> QED BY <1>2, <1>4, <1>5, <1>6, <1>7 DEF ThreadInv

LEMMA CreateThreadKeeps == ASSUME ThreadInv, CreateThread PROVE ThreadInv'
<1>1. /\ UNCHANGED <<new, g_stop, listening, buf, client, pieces, line, recvbuf, toServer,
                     toClient, conn, gone, signalled>>
      /\ main = "create" /\ main' = "loop" /\ thread' = [thread EXCEPT ![new] = "recv"]
  BY DEF CreateThread, client_vars
<1>2. EchoTypes' /\ new \in Clients
  BY <1>1 DEF ThreadInv, EchoTypes
<1>3. thread'[new] = "recv" /\ \A d \in Clients : d # new => thread'[d] = thread[d]
  BY <1>1, <1>2 DEF ThreadInv, EchoTypes
<1>4. EchoSession(new)'
  <2>1. EchoSession(new)
    BY <1>2 DEF ThreadInv
  <2>2. Served(new)' /\ Left(new)'
    BY <1>1, <1>3, <2>1 DEF EchoSession, Served, Left
  <2>3. Echo(new)'
    BY <1>1, <1>3, <2>1 DEF EchoSession, Echo, ServerClosed
  <2> QED BY <1>1, <2>1, <2>2, <2>3 DEF EchoSession
<1>5. ASSUME NEW d \in Clients, d # new PROVE EchoSession(d)'
  BY <1>1, <1>3, <1>5, BystanderKeeps DEF LeavesAlone
<1>6. Harmless
  BY <1>1, <1>2, <1>3 DEF Harmless
<1>7. \A d \in Clients : EchoSession(d)'
  BY <1>1, <1>4, <1>5
<1> QED BY <1>1, <1>2, <1>6, <1>7, HarmlessKeeps

\* The kernel closes connections of S.
LEMMA KernelCloses ==
  ASSUME EchoTypes, NEW S, NEW d \in Clients
  PROVE  /\ Closed(S)[d] = IF d \in S THEN IF toServer[d] = <<>> THEN "fin" ELSE "rst"
                                      ELSE conn[d]
         /\ Kept(S)[d] \in {toClient[d], <<>>}
         /\ d \notin S => Kept(S)[d] = toClient[d]
         /\ Closed(S) \in [Clients -> {"idle", "backlog", "open", "fin", "rst"}]
         /\ Kept(S) \in [Clients -> Seq(Nat)]
BY EmptySeq DEF EchoTypes, Closed, Kept

LEMMA CreateFailsKeeps == ASSUME ThreadInv, CreateFails PROVE ThreadInv'
<1>1. /\ UNCHANGED <<new, g_stop, listening, thread, buf, client, pieces, line, recvbuf, toServer,
                     gone, signalled>>
      /\ main = "create" /\ main' = "loop" /\ conn' = Closed({new}) /\ toClient' = Kept({new})
  BY DEF CreateFails, client_vars, thread_vars
<1>2. EchoTypes /\ new \in Clients
  BY DEF ThreadInv, EchoTypes
<1>3. /\ conn'[new] \in {"fin", "rst"} /\ toClient'[new] \in {toClient[new], <<>>}
      /\ \A d \in Clients : d # new => conn'[d] = conn[d] /\ toClient'[d] = toClient[d]
      /\ conn' \in [Clients -> {"idle", "backlog", "open", "fin", "rst"}]
      /\ toClient' \in [Clients -> Seq(Nat)]
  BY <1>1, <1>2, KernelCloses
<1>4. EchoTypes'
  BY <1>1, <1>2, <1>3 DEF EchoTypes
<1>5. EchoSession(new)'
  <2>1. conn[new] = "open" /\ thread[new] = "none" /\ buf[new] = <<>>
    BY <1>1, <1>2 DEF ThreadInv, EchoSession, Served
  <2> QED BY <1>1, <1>2, <1>3, <2>1, ClosingKeeps
<1>6. ASSUME NEW d \in Clients, d # new PROVE EchoSession(d)'
  BY <1>1, <1>3, <1>6, BystanderKeeps DEF LeavesAlone
<1>7. Harmless
  BY <1>1 DEF Harmless
<1>8. \A d \in Clients : EchoSession(d)'
  BY <1>1, <1>5, <1>6
<1> QED BY <1>1, <1>3, <1>4, <1>7, <1>8, HarmlessKeeps

\* All sockets of the process are closed, and its threads end.
LEMMA ProcessEndsKeeps ==
  ASSUME ThreadInv, ProcessEnds, main' \in {"exited", "killed"},
         UNCHANGED <<new, g_stop, client_vars, toServer, gone, signalled>>
  PROVE  /\ EchoTypes' /\ \A d \in Clients : EchoSession(d)'
         /\ \A d \in Clients : conn'[d] # "open"
<1>1. /\ thread' = [c \in Clients |-> IF thread[c] = "none" THEN "none" ELSE "ended"]
      /\ buf' = [c \in Clients |-> <<>>]
      /\ conn' = [c \in Clients |-> IF conn[c] = "backlog" THEN "rst" ELSE Closed(Open)[c]]
      /\ toClient' = Kept(Open) /\ listening' = FALSE
  BY DEF ProcessEnds
<1>2. EchoTypes
  BY DEF ThreadInv
<1>3. /\ toClient' \in [Clients -> Seq(Nat)]
      /\ \A d \in Clients :
           /\ Closed(Open)[d] = IF d \in Open THEN IF toServer[d] = <<>> THEN "fin" ELSE "rst"
                                              ELSE conn[d]
           /\ toClient'[d] \in {toClient[d], <<>>}
           /\ d \notin Open => toClient'[d] = toClient[d]
  <2>1. toClient' \in [Clients -> Seq(Nat)]
    BY <1>1, <1>2, EmptySeq DEF EchoTypes, Kept
  <2> QED BY <1>1, <1>2, <2>1, KernelCloses
<1>4. \A d \in Clients : conn'[d] = IF conn[d] \in {"open", "backlog"}
                                    THEN IF conn[d] = "open" /\ toServer[d] = <<>>
                                         THEN "fin" ELSE "rst"
                                    ELSE conn[d]
  BY <1>1, <1>3 DEF Open
<1>5. conn' \in [Clients -> {"idle", "backlog", "open", "fin", "rst"}]
  BY <1>1, <1>2, <1>4 DEF EchoTypes
<1>6. thread' \in [Clients -> {"none", "recv", "send", "ended"}] /\ buf' \in [Clients -> Seq(Nat)]
  BY <1>1, EmptySeq
<1>7. EchoTypes'
  BY <1>1, <1>2, <1>3, <1>5, <1>6 DEF EchoTypes, client_vars
<1>8. ASSUME NEW d \in Clients PROVE EchoSession(d)'
  <2>1. Served(d) /\ thread[d] \in {"none", "recv", "send", "ended"}
    BY <1>2 DEF ThreadInv, EchoSession, EchoTypes
  <2>2. thread'[d] \in {"none", "ended"} /\ buf'[d] = <<>>
    BY <1>1
  <2>3. CASE conn[d] \in {"open", "backlog"}
    <3>1. conn'[d] \in {"fin", "rst"} /\ toClient'[d] \in {toClient[d], <<>>}
      BY <1>3, <1>4, <2>3
    <3> QED BY <2>2, <2>3, <3>1, ClosingKeeps DEF client_vars
  <2>4. CASE conn[d] \notin {"open", "backlog"}
    <3>1. thread'[d] = thread[d] /\ buf'[d] = buf[d]
      BY <1>1, <2>1, <2>2, <2>4 DEF Served
    <3>2. conn'[d] = conn[d] /\ toClient'[d] = toClient[d]
      BY <1>3, <1>4, <2>4 DEF Open
    <3> QED BY <3>1, <3>2, BystanderKeeps DEF LeavesAlone, client_vars
  <2> QED BY <2>3, <2>4
<1> QED BY <1>4, <1>7, <1>8

LEMMA ReturnKeeps == ASSUME ThreadInv, Return PROVE ThreadInv'
<1>1. /\ ProcessEnds /\ main = "close" /\ main' = "exited"
      /\ UNCHANGED <<new, g_stop, client_vars, toServer, gone, signalled>>
  BY DEF Return
<1>2. Harmless
  BY <1>1 DEF Harmless, client_vars
<1>3. /\ EchoTypes' /\ \A d \in Clients : EchoSession(d)'
      /\ \A d \in Clients : conn'[d] # "open"
  BY <1>1, ProcessEndsKeeps
<1> QED BY <1>2, <1>3, HarmlessKeeps

LEMMA HandleSigintKeeps == ASSUME ThreadInv, HandleSigint PROVE ThreadInv'
<1>1. /\ UNCHANGED <<new, thread, buf, client, pieces, line, recvbuf, toServer, toClient, gone>>
      /\ g_stop' = TRUE /\ signalled' = TRUE /\ listening' = FALSE
      /\ main \notin {"exited", "killed"}
      /\ main' = IF main = "accept" THEN "close" ELSE main
      /\ conn' = [c \in Clients |-> IF conn[c] = "backlog" THEN "rst" ELSE conn[c]]
  BY DEF HandleSigint, Alive, client_vars, thread_vars
<1>2. EchoTypes'
  BY <1>1 DEF ThreadInv, EchoTypes
<1>3. ASSUME NEW d \in Clients PROVE EchoSession(d)'
  <2>1. Served(d)
    BY DEF ThreadInv, EchoSession
  <2>2. CASE conn[d] = "backlog"
    <3>1. thread'[d] = "none" /\ buf'[d] = <<>> /\ conn'[d] = "rst"
      BY <1>1, <2>1, <2>2 DEF Served
    <3>2. ~ (main' = "create" /\ new' = d)
      BY <1>1, <2>1, <2>2 DEF Served
    <3> QED BY <1>1, <2>2, <3>1, <3>2, ClosingKeeps
  <2>3. CASE conn[d] # "backlog"
    BY <1>1, <2>3, BystanderKeeps DEF LeavesAlone
  <2> QED BY <2>2, <2>3
<1>4. Harmless
  BY <1>1 DEF Harmless
<1> QED BY <1>1, <1>2, <1>3, <1>4, HarmlessKeeps

-----------------------------------------------------------------------------
(* The steps of a thread of the echo server *)

\* The client's part of EchoSession, when none of its variables changes and the
\* connection stays as it is.
LEMMA EchoMoves ==
  ASSUME ThreadInv, NEW c \in Clients, thread[c] \in {"recv", "send"},
         client'[c] = client[c], line'[c] = line[c], recvbuf'[c] = recvbuf[c],
         conn'[c] = conn[c], toClient[c] = <<>> /\ buf[c] = <<>> /\ toServer[c] = <<>> =>
           toClient'[c] = <<>> /\ buf'[c] = <<>> /\ toServer'[c] = <<>>,
         toClient'[c] \o (buf'[c] \o toServer'[c]) = toClient[c] \o (buf[c] \o toServer[c]),
         buf'[c] \in Seq(Nat), toServer'[c] \in Seq(Nat)
  PROVE  Echo(c)'
<1>1. Echo(c) /\ conn[c] = "open"
  BY DEF ThreadInv, EchoSession, Served
<1>2. ~ ServerClosed(c) /\ ~ ServerClosed(c)'
  BY <1>1 DEF ServerClosed
<1>3. buf'[c] \o toServer'[c] \in Seq(Nat)
  BY ConcatProperties
<1>4. client[c] # "aborted" =>
        line'[c] = recvbuf'[c] \o (toClient'[c] \o (buf'[c] \o toServer'[c]))
  BY <1>1, <1>2 DEF Echo
<1>5. client'[c] # "aborted" =>
       \E r \in Seq(Nat) :
         /\ line'[c] = recvbuf'[c] \o (toClient'[c] \o r)
         /\ ServerClosed(c)' \/ r = buf'[c] \o toServer'[c]
  BY <1>3, <1>4
<1> QED BY <1>1, <1>2, <1>5 DEF Echo

LEMMA RecvKeeps == ASSUME ThreadInv, NEW c \in Clients, Recv(c) PROVE ThreadInv'
<1>1. /\ UNCHANGED <<main, new, g_stop, listening, client, pieces, line, recvbuf, toClient,
                     conn, gone, signalled>>
      /\ thread[c] = "recv" /\ thread' = [thread EXCEPT ![c] = "send"] /\ toServer[c] # <<>>
  BY DEF Recv, server_vars, client_vars
<1>2. PICK n \in 1 .. Len(toServer[c]) :
        /\ buf' = [buf EXCEPT ![c] = SubSeq(toServer[c], 1, n)]
        /\ toServer' = [toServer EXCEPT ![c] = SubSeq(@, n + 1, Len(@))]
  BY DEF Recv
<1>3. EchoTypes /\ EchoSession(c)
  BY DEF ThreadInv
<1>4. /\ SubSeq(toServer[c], 1, n) \in Seq(Nat) /\ SubSeq(toServer[c], 1, n) # <<>>
      /\ SubSeq(toServer[c], n + 1, Len(toServer[c])) \in Seq(Nat)
      /\ SubSeq(toServer[c], 1, n) \o SubSeq(toServer[c], n + 1, Len(toServer[c])) = toServer[c]
  BY <1>3, SplitAt DEF EchoTypes
<1>5. /\ buf'[c] = SubSeq(toServer[c], 1, n) /\ thread'[c] = "send"
      /\ toServer'[c] = SubSeq(toServer[c], n + 1, Len(toServer[c]))
      /\ \A d \in Clients : d # c =>
           buf'[d] = buf[d] /\ toServer'[d] = toServer[d] /\ thread'[d] = thread[d]
      /\ buf' \in [Clients -> Seq(Nat)] /\ toServer' \in [Clients -> Seq(Nat)]
      /\ thread' \in [Clients -> {"none", "recv", "send", "ended"}]
  BY <1>1, <1>2, <1>3, <1>4 DEF EchoTypes
<1>6. EchoTypes'
  BY <1>1, <1>3, <1>5 DEF EchoTypes
<1>7. EchoSession(c)'
  <2>1. Served(c)' /\ Left(c)'
    BY <1>1, <1>3, <1>4, <1>5 DEF EchoSession, Served, Left
  <2>2. buf[c] = <<>> /\ buf[c] \o toServer[c] = toServer[c]
    BY <1>1, <1>3, ConcatEmptySeq DEF EchoSession, Served, EchoTypes
  <2>3. buf'[c] \o toServer'[c] = buf[c] \o toServer[c]
    BY <1>4, <1>5, <2>2
  <2>4. toClient'[c] \o (buf'[c] \o toServer'[c]) = toClient[c] \o (buf[c] \o toServer[c])
    BY <1>1, <2>3
  <2>5. Echo(c)'
    BY <1>1, <1>4, <1>5, <2>4, EchoMoves
  <2> QED BY <1>1, <1>3, <2>1, <2>5 DEF EchoSession
<1>8. ASSUME NEW d \in Clients, d # c PROVE EchoSession(d)'
  BY <1>1, <1>5, <1>8, BystanderKeeps DEF LeavesAlone
<1>9. Harmless
  BY <1>1, <1>5 DEF Harmless
<1>10. \A d \in Clients : EchoSession(d)'
  BY <1>7, <1>8
<1> QED BY <1>1, <1>6, <1>9, <1>10, HarmlessKeeps

LEMMA SendKeeps == ASSUME ThreadInv, NEW c \in Clients, Send(c) PROVE ThreadInv'
<1>1. /\ UNCHANGED <<main, new, g_stop, listening, client, pieces, line, recvbuf, toServer,
                     conn, gone, signalled>>
      /\ thread[c] = "send"
  BY DEF Send, server_vars, client_vars
<1>2. PICK n \in 1 .. Len(buf[c]) :
        /\ toClient' = [toClient EXCEPT ![c] = @ \o SubSeq(buf[c], 1, n)]
        /\ buf' = [buf EXCEPT ![c] = SubSeq(@, n + 1, Len(@))]
        /\ thread' = [thread EXCEPT ![c] = IF n = Len(buf[c]) THEN "recv" ELSE "send"]
  BY DEF Send
<1> DEFINE sent == SubSeq(buf[c], 1, n)
           left == SubSeq(buf[c], n + 1, Len(buf[c]))
<1>3. EchoTypes /\ EchoSession(c) /\ buf[c] # <<>>
  BY <1>1 DEF ThreadInv, EchoSession, Served
<1>4. sent \in Seq(Nat) /\ left \in Seq(Nat) /\ sent \o left = buf[c]
      /\ (left = <<>> <=> n = Len(buf[c]))
  BY <1>3, SplitAt DEF EchoTypes
<1>5. toClient[c] \o sent \in Seq(Nat)
  BY <1>3, <1>4, ConcatProperties DEF EchoTypes
<1>6. /\ toClient'[c] = toClient[c] \o sent /\ buf'[c] = left
      /\ thread'[c] = IF n = Len(buf[c]) THEN "recv" ELSE "send"
      /\ \A d \in Clients : d # c =>
           buf'[d] = buf[d] /\ toClient'[d] = toClient[d] /\ thread'[d] = thread[d]
  BY <1>2, <1>3 DEF EchoTypes
<1>7. /\ buf' \in [Clients -> Seq(Nat)] /\ toClient' \in [Clients -> Seq(Nat)]
      /\ thread' \in [Clients -> {"none", "recv", "send", "ended"}]
  BY <1>2, <1>3, <1>4, <1>5 DEF EchoTypes
<1> HIDE DEF sent, left
<1>8. EchoTypes'
  BY <1>1, <1>3, <1>7 DEF EchoTypes
<1>9. EchoSession(c)'
  <2>1. Served(c)' /\ Left(c)'
    BY <1>1, <1>3, <1>4, <1>6 DEF EchoSession, Served, Left
  <2>2. toServer[c] \in Seq(Nat) /\ toClient[c] \in Seq(Nat)
    BY <1>3 DEF EchoTypes
  <2>3. left \o toServer[c] \in Seq(Nat)
    BY <1>4, <2>2, ConcatProperties
  <2>4. (toClient[c] \o sent) \o (left \o toServer[c])
          = toClient[c] \o (sent \o (left \o toServer[c]))
    BY <1>4, <2>2, <2>3, BytesConcat
  <2>5. sent \o (left \o toServer[c]) = buf[c] \o toServer[c]
    <3>1. (sent \o left) \o toServer[c] = sent \o (left \o toServer[c])
      BY <1>4, <2>2, BytesConcat
    <3> QED BY <1>4, <3>1
  <2>6. toClient'[c] \o (buf'[c] \o toServer'[c]) = toClient[c] \o (buf[c] \o toServer[c])
    BY <1>1, <1>6, <2>4, <2>5
  <2>7. Echo(c)'
    BY <1>1, <1>3, <1>4, <1>6, <2>2, <2>6, EchoMoves
  <2> QED BY <1>1, <1>3, <2>1, <2>7 DEF EchoSession
<1>10. ASSUME NEW d \in Clients, d # c PROVE EchoSession(d)'
  BY <1>1, <1>6, <1>10, BystanderKeeps DEF LeavesAlone
<1>11. Harmless
  BY <1>1, <1>6 DEF Harmless
<1>12. \A d \in Clients : EchoSession(d)'
  BY <1>9, <1>10
<1> QED BY <1>1, <1>8, <1>11, <1>12, HarmlessKeeps

\* A thread that sends to a client that has left: that client was killed.
LEMMA SendsToKilled ==
  ASSUME ThreadInv, NEW c \in Clients, thread[c] = "send", gone[c] # "up"
  PROVE  client[c] = "aborted"
BY DEF ThreadInv, EchoSession, Served, Left, Echo, ServerClosed

LEMMA EndThreadKeeps ==
  ASSUME ThreadInv, NEW c \in Clients, thread[c] \in {"recv", "send"}, EndThread(c),
         gone[c] # "up",
         \/ UNCHANGED gone
         \/ client[c] = "aborted" /\ gone' = [gone EXCEPT ![c] = "broken"],
         UNCHANGED <<server_vars, client_vars, toServer, toClient, signalled>>
  PROVE  ThreadInv'
<1>1. EchoTypes /\ EchoSession(c)
  BY DEF ThreadInv
<1>2. /\ conn'[c] \in {"fin", "rst"} /\ conn' \in [Clients -> {"idle", "backlog", "open", "fin", "rst"}]
      /\ \A d \in Clients : d # c => conn'[d] = conn[d]
  BY <1>1, KernelCloses DEF EndThread
<1>3. /\ thread'[c] = "ended" /\ buf'[c] = <<>> /\ gone'[c] # "up" /\ conn[c] = "open"
      /\ gone'[c] = gone[c] \/ client[c] = "aborted"
      /\ gone[c] = "broken" => gone'[c] = "broken"
      /\ \A d \in Clients : d # c =>
           thread'[d] = thread[d] /\ buf'[d] = buf[d] /\ gone'[d] = gone[d]
      /\ thread' \in [Clients -> {"none", "recv", "send", "ended"}]
      /\ buf' \in [Clients -> Seq(Nat)] /\ gone' \in [Clients -> {"up", "down", "broken"}]
  BY <1>1, EmptySeq DEF EndThread, EchoTypes, EchoSession, Served
<1>4. EchoTypes'
  BY <1>1, <1>2, <1>3 DEF EchoTypes, server_vars, client_vars
<1>5. EchoSession(c)'
  <2>1. ~ (main' = "create" /\ new' = c)
    BY <1>1 DEF EchoSession, Served, server_vars
  <2> QED BY <1>2, <1>3, <2>1, ClosingKeeps DEF client_vars
<1>6. ASSUME NEW d \in Clients, d # c PROVE EchoSession(d)'
  BY <1>2, <1>3, <1>6, BystanderKeeps DEF LeavesAlone, server_vars, client_vars
<1>7. Harmless
  BY <1>3 DEF Harmless, server_vars, client_vars
<1>8. \A d \in Clients : EchoSession(d)' /\ (conn'[d] = "open" => conn[d] = "open")
  BY <1>2, <1>5, <1>6
<1> QED BY <1>4, <1>7, <1>8, HarmlessKeeps

LEMMA SendLostKeeps == ASSUME ThreadInv, NEW c \in Clients, SendLost(c) PROVE ThreadInv'
<1>1. /\ UNCHANGED <<server_vars, client_vars, toServer, toClient, signalled>>
      /\ thread[c] = "send" /\ gone[c] = "down" /\ gone' = [gone EXCEPT ![c] = "broken"]
      /\ client[c] = "aborted"
  BY SendsToKilled DEF SendLost
<1>2. CASE EndThread(c)
  BY <1>1, <1>2, EndThreadKeeps
<1>3. ASSUME NEW n \in 1 .. Len(buf[c]),
             buf' = [buf EXCEPT ![c] = SubSeq(@, n + 1, Len(@))],
             thread' = [thread EXCEPT ![c] = IF n = Len(buf[c]) THEN "recv" ELSE "send"],
             UNCHANGED conn
      PROVE  ThreadInv'
  <2> DEFINE left == SubSeq(buf[c], n + 1, Len(buf[c]))
  <2>1. EchoTypes /\ EchoSession(c) /\ buf[c] # <<>>
    BY <1>1 DEF ThreadInv, EchoSession, Served
  <2>2. left \in Seq(Nat) /\ (left = <<>> <=> n = Len(buf[c]))
    BY <2>1, SplitAt DEF EchoTypes
  <2>3. /\ buf'[c] = left /\ thread'[c] = IF n = Len(buf[c]) THEN "recv" ELSE "send"
        /\ gone'[c] = "broken"
        /\ \A d \in Clients : d # c =>
             buf'[d] = buf[d] /\ gone'[d] = gone[d] /\ thread'[d] = thread[d]
    BY <1>1, <1>3, <2>1 DEF EchoTypes
  <2>4. /\ buf' \in [Clients -> Seq(Nat)] /\ gone' \in [Clients -> {"up", "down", "broken"}]
        /\ thread' \in [Clients -> {"none", "recv", "send", "ended"}]
    BY <1>1, <1>3, <2>1, <2>2 DEF EchoTypes
  <2> HIDE DEF left
  <2>5. EchoTypes'
    BY <1>1, <1>3, <2>1, <2>4 DEF EchoTypes, server_vars, client_vars
  <2>6. EchoSession(c)'
    <3>1. conn[c] = "open" /\ client[c] # "start" /\ ~ (main = "create" /\ new = c)
      BY <1>1, <2>1 DEF EchoSession, Served
    <3>2. Served(c)'
      <4>1. buf'[c] # <<>> <=> thread'[c] = "send"
        BY <2>2, <2>3
      <4>2. conn'[c] = "open" /\ client'[c] # "start" /\ ~ (main' = "create" /\ new' = c)
        BY <1>1, <1>3, <3>1 DEF server_vars, client_vars
      <4> QED BY <4>1, <4>2 DEF Served
    <3>3. Left(c)'
      BY <1>1, <2>3 DEF Left, client_vars
    <3>4. Echo(c)'
      BY <1>1, <2>1 DEF EchoSession, Echo, client_vars
    <3> QED BY <1>1, <2>1, <3>2, <3>3, <3>4 DEF EchoSession, client_vars
  <2>7. ASSUME NEW d \in Clients, d # c PROVE EchoSession(d)'
    BY <1>1, <1>3, <2>3, <2>7, BystanderKeeps DEF LeavesAlone, server_vars, client_vars
  <2>8. Harmless
    BY <1>1, <2>3 DEF Harmless, server_vars, client_vars
  <2>9. \A d \in Clients : EchoSession(d)'
    BY <2>6, <2>7
  <2> QED BY <1>3, <2>5, <2>8, <2>9, HarmlessKeeps
<1> QED BY <1>2, <1>3 DEF SendLost

LEMMA SigpipeKeeps == ASSUME ThreadInv, NEW c \in Clients, Sigpipe(c) PROVE ThreadInv'
<1>1. /\ thread[c] = "send" /\ gone[c] = "broken" /\ ProcessEnds /\ main' = "killed"
      /\ UNCHANGED <<new, g_stop, client_vars, toServer, gone, signalled>>
  BY DEF Sigpipe
<1>2. /\ EchoTypes' /\ \A d \in Clients : EchoSession(d)'
      /\ \A d \in Clients : conn'[d] # "open"
  BY <1>1, ProcessEndsKeeps
<1>3. Open' = {}
  BY <1>2 DEF Open
<1>4. client'[c] = "aborted" /\ gone'[c] = "broken"
  BY <1>1 DEF ThreadInv, EchoSession, Left, client_vars
<1>5. OthersKept'
  BY <1>1, <1>4 DEF OthersKept
<1> QED BY <1>2, <1>3, <1>5, FS_EmptySet, OpenAssumption DEF ThreadInv

LEMMA RecvEndKeeps == ASSUME ThreadInv, NEW c \in Clients, RecvEnd(c) PROVE ThreadInv'
BY EndThreadKeeps DEF RecvEnd

-----------------------------------------------------------------------------
(* The steps of its client *)

LEMMA ConnectKeeps == ASSUME ThreadInv, NEW c \in Clients, Connect(c) PROVE ThreadInv'
<1>1. /\ UNCHANGED <<main, new, g_stop, listening, thread, buf, pieces, line, recvbuf, toServer,
                     toClient, gone, signalled>>
      /\ client[c] = "start" /\ client' = [client EXCEPT ![c] = "prompt"]
      /\ conn' = [conn EXCEPT ![c] = "backlog"]
  BY DEF Connect, server_vars, thread_vars
<1>2. EchoTypes /\ EchoSession(c)
  BY DEF ThreadInv
<1>3. EchoTypes'
  BY <1>1, <1>2 DEF EchoTypes
<1>4. /\ client'[c] = "prompt" /\ conn'[c] = "backlog" /\ conn[c] = "idle"
      /\ \A d \in Clients : d # c => client'[d] = client[d] /\ conn'[d] = conn[d]
  BY <1>1, <1>2 DEF EchoTypes, EchoSession, Served
<1>5. EchoSession(c)'
  <2>1. Served(c)' /\ Left(c)'
    BY <1>1, <1>2, <1>4 DEF EchoSession, Served, Left
  <2>2. Echo(c)'
    BY <1>1, <1>2, <1>4 DEF EchoSession, Echo, ServerClosed
  <2> QED BY <1>1, <1>2, <2>1, <2>2 DEF EchoSession
<1>6. ASSUME NEW d \in Clients, d # c PROVE EchoSession(d)'
  BY <1>1, <1>4, <1>6, BystanderKeeps DEF LeavesAlone
<1>7. Harmless
  BY <1>1, <1>4 DEF Harmless
<1>8. \A d \in Clients : EchoSession(d)' /\ (conn'[d] = "open" => conn[d] = "open")
  BY <1>4, <1>5, <1>6
<1> QED BY <1>3, <1>7, <1>8, HarmlessKeeps

LEMMA SendPieceKeeps == ASSUME ThreadInv, NEW c \in Clients, SendPiece(c) PROVE ThreadInv'
<1>1. /\ UNCHANGED <<main, new, g_stop, listening, thread, buf, toClient, conn, gone, signalled>>
      /\ client[c] = "prompt"
      /\ pieces' = [pieces EXCEPT ![c] = @ + 1] /\ recvbuf' = [recvbuf EXCEPT ![c] = <<>>]
  BY DEF SendPiece, server_vars, thread_vars
<1>2. PICK p \in Pieces(pieces[c] + 1) :
        /\ line' = [line EXCEPT ![c] = p]
        /\ \/ /\ conn[c] \in {"backlog", "open"}
              /\ toServer' = [toServer EXCEPT ![c] = @ \o p]
              /\ client' = [client EXCEPT ![c] = "recv"]
           \/ /\ conn[c] \in {"fin", "rst"}
              /\ UNCHANGED toServer
              /\ client' \in {[client EXCEPT ![c] = s] : s \in {"recv", "done"}}
  BY DEF SendPiece
<1>3. EchoTypes /\ EchoSession(c)
  BY DEF ThreadInv
<1>4. Whole(p) /\ Len(p) < Cap /\ p \in Seq(Nat)
  BY <1>3, WholePieces DEF EchoTypes, Whole
<1>5. toServer[c] \o p \in Seq(Nat)
  BY <1>3, <1>4, ConcatProperties DEF EchoTypes
<1>6. /\ toServer' \in [Clients -> Seq(Nat)] /\ line' \in [Clients -> Seq(Nat)]
      /\ recvbuf' \in [Clients -> Seq(Nat)] /\ pieces' \in [Clients -> Nat]
      /\ client' \in [Clients -> {"start", "prompt", "recv", "done", "aborted"}]
  <2>1. toServer' \in [Clients -> Seq(Nat)]
    BY <1>2, <1>3, <1>5 DEF EchoTypes
  <2>2. line' \in [Clients -> Seq(Nat)]
    BY <1>2, <1>3, <1>4 DEF EchoTypes
  <2>3. recvbuf' \in [Clients -> Seq(Nat)]
    BY <1>1, <1>3, EmptySeq DEF EchoTypes
  <2>4. pieces' \in [Clients -> Nat]
    BY <1>1, <1>3 DEF EchoTypes
  <2>5. \E state \in {"recv", "done"} : client' = [client EXCEPT ![c] = state]
    BY <1>2
  <2>6. client' \in [Clients -> {"start", "prompt", "recv", "done", "aborted"}]
    BY <1>3, <2>5 DEF EchoTypes
  <2> QED BY <2>1, <2>2, <2>3, <2>4, <2>6
<1>7. EchoTypes'
  BY <1>1, <1>3, <1>6 DEF EchoTypes
<1>8. /\ line'[c] = p /\ recvbuf'[c] = <<>> /\ client'[c] \in {"recv", "done"}
      /\ \/ /\ conn[c] \in {"backlog", "open"} /\ client'[c] = "recv"
            /\ toServer'[c] = toServer[c] \o p
         \/ conn[c] \in {"fin", "rst"} /\ toServer'[c] = toServer[c]
      /\ \A d \in Clients : d # c =>
           /\ line'[d] = line[d] /\ recvbuf'[d] = recvbuf[d]
           /\ client'[d] = client[d] /\ toServer'[d] = toServer[d]
  BY <1>1, <1>2, <1>3 DEF EchoTypes
<1>9. EchoSession(c)'
  <2>1. Served(c)' /\ Left(c)'
    BY <1>1, <1>3, <1>8 DEF EchoSession, Served, Left
  <2>2. toClient[c] = <<>> /\ (ServerClosed(c) \/ (buf[c] = <<>> /\ toServer[c] = <<>>))
    BY <1>1, <1>3 DEF EchoSession, Echo
  <2>3. <<>> \o p = p /\ <<>> \in Seq(Nat) /\ <<>> \o <<>> = <<>>
    BY <1>4, ConcatEmptySeq, EmptySeq
  <2>4. p = recvbuf'[c] \o (toClient'[c] \o p)
    BY <1>1, <1>8, <2>2, <2>3
  <2>5. ServerClosed(c)' \/ p = buf'[c] \o toServer'[c]
    BY <1>1, <1>8, <2>2, <2>3 DEF ServerClosed
  <2>6. \E r \in Seq(Nat) :
          /\ line'[c] = recvbuf'[c] \o (toClient'[c] \o r)
          /\ ServerClosed(c)' \/ r = buf'[c] \o toServer'[c]
    BY <1>4, <1>8, <2>4, <2>5
  <2>7. client'[c] = "done" => ServerClosed(c)'
    BY <1>1, <1>8 DEF ServerClosed
  <2>8. Echo(c)'
    BY <1>1, <1>4, <1>8, <2>2, <2>6, <2>7 DEF Echo
  <2>9. Len(recvbuf'[c]) < Cap
    BY <1>8, EmptySeq, CapAssumption
  <2> QED BY <2>1, <2>8, <2>9 DEF EchoSession
<1>10. ASSUME NEW d \in Clients, d # c PROVE EchoSession(d)'
  BY <1>1, <1>8, <1>10, BystanderKeeps DEF LeavesAlone
<1>11. Harmless
  BY <1>1, <1>8 DEF Harmless
<1>12. \A d \in Clients : EchoSession(d)'
  BY <1>9, <1>10
<1> QED BY <1>1, <1>7, <1>11, <1>12, HarmlessKeeps

LEMMA RecvByteKeeps == ASSUME ThreadInv, NEW c \in Clients, RecvByte(c) PROVE ThreadInv'
<1> DEFINE b == Head(toClient[c])
           s == recvbuf[c]
           t == toClient[c]
<1>1. /\ UNCHANGED <<main, new, g_stop, listening, thread, buf, pieces, line, toServer, conn,
                     gone, signalled>>
      /\ client[c] = "recv" /\ t # <<>>
      /\ recvbuf' = [recvbuf EXCEPT ![c] = Append(@, b)]
      /\ client' = [client EXCEPT ![c] =
           IF b = Newline \/ Len(s) + 2 = Cap THEN "prompt" ELSE "recv"]
      /\ toClient' = [toClient EXCEPT ![c] = Tail(@)]
  BY DEF RecvByte, server_vars, thread_vars
<1>2. EchoTypes /\ EchoSession(c)
  BY DEF ThreadInv
<1>3. s \in Seq(Nat) /\ t \in Seq(Nat)
  BY <1>2 DEF EchoTypes
<1>4. b \in Nat /\ Tail(t) \in Seq(Nat) /\ Append(s, b) \in Seq(Nat)
  BY <1>1, <1>3, HeadTailProperties, AppendProperties
<1>5. /\ recvbuf' \in [Clients -> Seq(Nat)] /\ toClient' \in [Clients -> Seq(Nat)]
      /\ client' \in [Clients -> {"start", "prompt", "recv", "done", "aborted"}]
  BY <1>1, <1>2, <1>4 DEF EchoTypes
<1>6. EchoTypes'
  BY <1>1, <1>2, <1>5 DEF EchoTypes
<1>7. /\ recvbuf'[c] = Append(s, b) /\ toClient'[c] = Tail(t)
      /\ client'[c] = IF b = Newline \/ Len(s) + 2 = Cap THEN "prompt" ELSE "recv"
      /\ \A d \in Clients : d # c =>
           recvbuf'[d] = recvbuf[d] /\ toClient'[d] = toClient[d] /\ client'[d] = client[d]
  BY <1>1, <1>2 DEF EchoTypes
<1>8. EchoSession(c)'
  <2>1. Served(c)' /\ Left(c)'
    BY <1>1, <1>2, <1>7 DEF EchoSession, Served, Left
  <2>2. PICK r \in Seq(Nat) :
          line[c] = s \o (t \o r) /\ (ServerClosed(c) \/ r = buf[c] \o toServer[c])
    BY <1>1, <1>2 DEF EchoSession, Echo
  <2>3. Whole(line[c]) /\ Len(line[c]) < Cap
    BY <1>1, <1>2 DEF EchoSession, Echo
  <2>4. line[c] = Append(s, b) \o (Tail(t) \o r)
    BY <1>1, <1>3, <2>2, ReadOne
  <2>5. ServerClosed(c)' <=> ServerClosed(c)
    BY <1>1 DEF ServerClosed
  <2>6. \E q \in Seq(Nat) :
          /\ line'[c] = recvbuf'[c] \o (toClient'[c] \o q)
          /\ ServerClosed(c)' \/ q = buf'[c] \o toServer'[c]
    <3>1. line'[c] = recvbuf'[c] \o (toClient'[c] \o r)
      BY <1>1, <1>7, <2>4
    <3>2. ServerClosed(c)' \/ r = buf'[c] \o toServer'[c]
      BY <1>1, <2>2, <2>5
    <3> QED BY <3>1, <3>2
  <2>7. client'[c] = "prompt" => Tail(t) = <<>> /\ r = <<>>
    <3>1. client'[c] = "prompt" => Head(t) = Newline \/ Len(s) + 2 = Cap
      BY <1>7
    <3>2. line[c] = s \o (t \o r) /\ t # <<>>
      BY <1>1, <2>2
    <3> HIDE DEF s, t
    <3> QED BY <1>3, <2>3, <3>1, <3>2, StopsAtEnd
  <2>8. r = <<>> /\ r = buf[c] \o toServer[c] => buf[c] = <<>> /\ toServer[c] = <<>>
    BY <1>2, NoBytesTwice DEF EchoTypes
  <2>9. Echo(c)'
    BY <1>1, <1>7, <2>2, <2>3, <2>5, <2>6, <2>7, <2>8 DEF Echo
  <2>10. Len(Append(s, b)) < Cap
    <3>1. Len(Append(s, b)) <= Len(line[c])
      BY <1>4, <2>2, <2>4, ReadFits
    <3>2. Len(Append(s, b)) \in Nat /\ Len(line[c]) \in Nat
      BY <1>2, <1>4, LenProperties DEF EchoTypes
    <3> QED BY <2>3, <3>1, <3>2, CapAssumption
  <2> QED BY <1>7, <2>1, <2>9, <2>10 DEF EchoSession
<1>9. ASSUME NEW d \in Clients, d # c PROVE EchoSession(d)'
  BY <1>1, <1>7, <1>9, BystanderKeeps DEF LeavesAlone
<1>10. Harmless
  BY <1>1, <1>7 DEF Harmless
<1>11. \A d \in Clients : EchoSession(d)'
  BY <1>8, <1>9
<1> QED BY <1>1, <1>6, <1>10, <1>11, HarmlessKeeps

\* What a client does without sending or reading anything.
LEMMA QuietClientKeeps ==
  ASSUME ThreadInv, NEW c \in Clients, RecvEof(c) \/ Quit(c) \/ Abort(c)
  PROVE  ThreadInv'
<1>1. /\ UNCHANGED <<main, new, g_stop, listening, thread, buf, pieces, line, recvbuf, toServer,
                     conn, signalled>>
      /\ client[c] \in {"prompt", "recv"}
      /\ \/ /\ client[c] = "recv" /\ toClient[c] = <<>> /\ conn[c] \in {"fin", "rst"}
            /\ client' = [client EXCEPT ![c] = IF conn[c] = "fin" /\ recvbuf[c] # <<>>
                                               THEN "prompt" ELSE "done"]
            /\ UNCHANGED <<toClient, gone>>
         \/ /\ client[c] = "prompt" /\ client' = [client EXCEPT ![c] = "done"]
            /\ gone' = [gone EXCEPT ![c] = "down"] /\ UNCHANGED toClient
         \/ /\ client' = [client EXCEPT ![c] = "aborted"]
            /\ gone' = [gone EXCEPT ![c] = "down"]
            /\ toClient' = [toClient EXCEPT ![c] = <<>>]
  BY DEF RecvEof, Quit, Abort, server_vars, thread_vars
<1>2. EchoTypes /\ EchoSession(c)
  BY DEF ThreadInv
<1>3. EchoTypes'
  <2>1. client' \in [Clients -> {"start", "prompt", "recv", "done", "aborted"}]
    <3>1. \E state \in {"prompt", "done", "aborted"} : client' = [client EXCEPT ![c] = state]
      BY <1>1
    <3> QED BY <1>2, <3>1 DEF EchoTypes
  <2>2. gone' \in [Clients -> {"up", "down", "broken"}]
    BY <1>1, <1>2 DEF EchoTypes
  <2>3. toClient' \in [Clients -> Seq(Nat)]
    <3>1. toClient' = toClient \/ toClient' = [toClient EXCEPT ![c] = <<>>]
      BY <1>1
    <3>2. <<>> \in Seq(Nat)
      BY EmptySeq
    <3> QED BY <1>2, <3>1, <3>2 DEF EchoTypes
  <2> QED BY <1>1, <1>2, <2>1, <2>2, <2>3 DEF EchoTypes
<1>4. /\ \/ /\ client[c] = "recv" /\ toClient[c] = <<>> /\ conn[c] \in {"fin", "rst"}
            /\ client'[c] \in {"prompt", "done"}
            /\ toClient'[c] = toClient[c] /\ gone'[c] = gone[c]
         \/ /\ client[c] = "prompt" /\ client'[c] = "done"
            /\ gone'[c] = "down" /\ toClient'[c] = toClient[c]
         \/ client'[c] = "aborted" /\ gone'[c] = "down"
      /\ \A d \in Clients : d # c =>
           toClient'[d] = toClient[d] /\ client'[d] = client[d] /\ gone'[d] = gone[d]
  BY <1>1, <1>2 DEF EchoTypes
<1>5. gone[c] = "up"
  BY <1>1, <1>2 DEF EchoSession, Left, EchoTypes
<1>6. EchoSession(c)'
  <2>1. Served(c)'
    BY <1>1, <1>2, <1>4 DEF EchoSession, Served
  <2>2. Left(c)'
    BY <1>1, <1>4, <1>5 DEF Left
  <2>3. Echo(c)'
    BY <1>1, <1>2, <1>4 DEF EchoSession, Echo, ServerClosed
  <2> QED BY <1>1, <1>2, <2>1, <2>2, <2>3 DEF EchoSession
<1>7. ASSUME NEW d \in Clients, d # c PROVE EchoSession(d)'
  BY <1>1, <1>4, <1>7, BystanderKeeps DEF LeavesAlone
<1>8. Harmless
  BY <1>1, <1>4, <1>5 DEF Harmless
<1>9. \A d \in Clients : EchoSession(d)'
  BY <1>6, <1>7
<1> QED BY <1>1, <1>3, <1>8, <1>9, HarmlessKeeps

-----------------------------------------------------------------------------
LEMMA ThreadStep == ThreadInv /\ [Next]_vars => ThreadInv'
<1> SUFFICES ASSUME ThreadInv, [Next]_vars PROVE ThreadInv'
  OBVIOUS
<1>1. CASE Main
  BY <1>1, LoopKeeps, AcceptKeeps, CreateThreadKeeps, CreateFailsKeeps, ReturnKeeps DEF Main
<1>2. CASE HandleSigint
  BY <1>2, HandleSigintKeeps
<1>3. ASSUME NEW c \in Clients, Thread(c) PROVE ThreadInv'
  BY <1>3, RecvKeeps, SendKeeps, SendLostKeeps, SigpipeKeeps, RecvEndKeeps DEF Thread
<1>4. ASSUME NEW c \in Clients,
             Connect(c) \/ SendPiece(c) \/ RecvByte(c) \/ RecvEof(c) \/ Quit(c) \/ Abort(c)
      PROVE  ThreadInv'
  BY <1>4, ConnectKeeps, SendPieceKeeps, RecvByteKeeps, QuietClientKeeps
<1>5. CASE UNCHANGED vars
  <2>1. UNCHANGED <<main, new, g_stop, listening, thread, buf, client, pieces, line, recvbuf,
                    toServer, toClient, conn, gone, signalled>>
    BY <1>5 DEF vars, server_vars, thread_vars, client_vars
  <2>2. EchoTypes'
    BY <2>1 DEF ThreadInv, EchoTypes
  <2>3. \A d \in Clients : EchoSession(d)'
    BY <2>1, BystanderKeeps DEF LeavesAlone
  <2>4. Harmless
    BY <2>1 DEF Harmless
  <2> QED BY <2>1, <2>2, <2>3, <2>4, HarmlessKeeps
<1> QED BY <1>1, <1>2, <1>3, <1>4, <1>5 DEF Next

LEMMA ThreadInvCorrect == Spec => []ThreadInv
BY ThreadStart, ThreadStep, PTL DEF Spec

\* For any clients, buffer size above one and number of descriptors, however
\* recv(), send() and the threads interleave: what recv_line() returns is the
\* piece that was sent, and nothing of its echo is left over.
THEOREM EchoedExactlyCorrect == Spec => []EchoedExactly
<1>1. ThreadInv => EchoedExactly
  <2> SUFFICES ASSUME ThreadInv PROVE EchoedExactly
    OBVIOUS
  <2>1. TypeOK
    <3>1. main = "create" => new \in Open
      BY DEF ThreadInv, EchoTypes, EchoSession, Served, Open
    <3>2. \A c \in Clients : Len(line[c]) < Cap /\ Len(recvbuf[c]) < Cap
      BY DEF ThreadInv, EchoSession, Echo
    <3>3. \A c \in Clients : buf[c] # <<>> <=> thread[c] = "send"
      BY DEF ThreadInv, EchoSession, Served
    <3> QED BY <3>1, <3>2, <3>3 DEF ThreadInv, EchoTypes, TypeOK
  <2>2. ASSUME NEW c \in Clients, client[c] # "aborted" PROVE IsPrefix(recvbuf[c], line[c])
    <3>1. PICK r \in Seq(Nat) : line[c] = recvbuf[c] \o (toClient[c] \o r)
      BY <2>2 DEF ThreadInv, EchoSession, Echo
    <3>2. recvbuf[c] \in Seq(Nat) /\ toClient[c] \in Seq(Nat)
      BY DEF ThreadInv, EchoTypes
    <3> QED BY <3>1, <3>2, ReadFits
  <2>3. ASSUME NEW c \in Clients, client[c] = "prompt", ~ ServerClosed(c)
        PROVE  /\ recvbuf[c] = line[c] /\ toServer[c] = <<>>
               /\ buf[c] = <<>> /\ toClient[c] = <<>>
    <3>1. toClient[c] = <<>> /\ buf[c] = <<>> /\ toServer[c] = <<>>
      BY <2>3 DEF ThreadInv, EchoSession, Echo
    <3>2. line[c] = recvbuf[c] \o (toClient[c] \o (buf[c] \o toServer[c]))
      BY <2>3 DEF ThreadInv, EchoSession, Echo
    <3>3. recvbuf[c] \in Seq(Nat) /\ <<>> \in Seq(Nat)
      BY EmptySeq DEF ThreadInv, EchoTypes
    <3>4. recvbuf[c] \o (<<>> \o (<<>> \o <<>>)) = recvbuf[c]
      BY <3>3, ConcatEmptySeq
    <3> QED BY <3>1, <3>2, <3>4
  <2> QED BY <2>1, <2>2, <2>3 DEF EchoedExactly
<1> QED BY <1>1, ThreadInvCorrect, PTL

\* No thread ends before its client has left, and the process dies of SIGPIPE
\* only of a client that was killed: a client that quits in order has read all
\* of its echo, so that no thread has anything to send to it.
THEOREM OthersKeptCorrect == Spec => []OthersKept
<1>1. ThreadInv => OthersKept
  BY DEF ThreadInv
<1> QED BY <1>1, ThreadInvCorrect, PTL
=============================================================================
