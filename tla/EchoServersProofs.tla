-------------------------- MODULE EchoServersProofs --------------------------
(* TLAPS proofs about the single-threaded echo servers, for any number of  *)
(* clients, slots and descriptors and any number of texts.                 *)
EXTENDS EchoServers, FiniteSetTheorems, NaturalsInduction, WellFoundedInduction, TLAPS

-----------------------------------------------------------------------------
(* The inductive invariant *)

\* The part of SlotTable that TypeOK does not say, after the end as before it.
TableInv ==
  /\ \A s \in Used : Holder(s) # NoClient /\ conn[Holder(s)] = "open"
  /\ \A s, t \in Used : slot[s] = slot[t] => s = t
  /\ program = "poll" => Used = 1 .. Cardinality(Used)

\* A descriptor is open on a connection that is, and no two on the same one.
FdInv ==
  /\ \A f \in Fds : fdtab[f] # NoClient => conn[fdtab[f]] = "open"
  /\ \A f, g \in Fds : fdtab[f] = fdtab[g] /\ fdtab[f] # NoClient => f = g

\* The slot the scan has not come to, or has not left, begins here.
Ahead(s) == IF pc = "reply" THEN s > i ELSE s >= i

\* What keeps recv() from blocking: whatever was reported of a slot the scan has
\* still to come to is true, but for the slot of a new connection; and no
\* descriptor select() left in the set is one that accept() may return.
ReportInv ==
  /\ pc = "reply" => i \in Used
  /\ pc = "accept" => fresh = NoClient
  /\ pc = "accept" /\ program # "poll" => \A f \in ready : fdtab[f] # NoClient
  /\ \A s \in Used : Ahead(s) /\ Reported(s) =>
       Readable(Holder(s)) \/ (program = "poll" /\ Holder(s) = fresh)

\* Texts of c that are unread, that were read and not answered, and that were
\* answered when c had gone: c has sent each of these.
Unanswered(c) == IF pc = "reply" /\ Holder(i) = c THEN 1 ELSE 0
Lost(c)       == IF peer[c] \in Broken THEN 1 ELSE 0

CountInv ==
  \A c \in Clients :
    \/ program = "select" /\ peer[c] = "reset"
    \/ pc = "killed"
    \/ sent[c] >= inbox[c] + Unanswered(c) + Lost(c)

Inv == TypeOK /\ TableInv /\ FdInv /\ ReportInv /\ CountInv

-----------------------------------------------------------------------------
(* Lowest descriptors, first slots and the room in the array *)

Below == {p \in Nat \X Nat : p[1] < p[2]}

LEMMA BelowWellFounded == IsWellFoundedOn(Below, Nat)
<1>1. Below = OpToRel(<, Nat)
  BY DEF Below, OpToRel
<1> QED BY <1>1, NatLessThanWellFounded

\* The CHOOSE of LowestFd and of FirstFree has something to choose.
LEMMA Least ==
  ASSUME NEW S \in SUBSET Nat, S # {}
  PROVE  \E m \in S : \A n \in S : m <= n
<1>1. PICK x \in S : \A y \in S : ~ (<<y, x>> \in Below)
  BY BelowWellFounded, WFMin
<1>2. ASSUME NEW y \in S PROVE x <= y
  <2>1. x \in Nat /\ y \in Nat /\ <<y, x>> \in Nat \X Nat
    OBVIOUS
  <2>2. ~ (y < x)
    BY <1>1, <2>1 DEF Below
  <2> QED BY <2>1, <2>2
<1> QED BY <1>2

LEMMA SlotsType == Cardinality(Fds) \in Nat /\ MaxClients \in Slots /\ 1 \in Slots
BY FdsAssumption, SlotsAssumption, FS_CardinalityType DEF Slots

LEMMA LowestIsFree ==
  ASSUME FreeFds # {}
  PROVE  LowestFd \in Fds /\ LowestFd # 0 /\ fdtab[LowestFd] = NoClient
<1>1. FreeFds \in SUBSET Nat
  BY FdsAssumption DEF FreeFds
<1>2. LowestFd \in FreeFds
  BY <1>1, Least DEF LowestFd
<1> QED BY <1>2, FdsAssumption DEF FreeFds

LEMMA FirstIsFree ==
  ASSUME FreeSlots # {}
  PROVE  FirstFree \in Slots /\ slot[FirstFree] = 0
<1>1. FreeSlots \in SUBSET Nat
  BY SlotsType DEF FreeSlots, Slots
<1>2. FirstFree \in FreeSlots
  BY <1>1, Least DEF FirstFree
<1> QED BY <1>2, SlotsType DEF FreeSlots, Slots

\* While a descriptor is free, so is a slot of the poll() server's array, which
\* holds a descriptor of its own in each slot in use.
LEMMA RoomForOne ==
  ASSUME TypeOK, TableInv, FreeFds # {}
  PROVE  Cardinality(Used) + 1 \in Slots
<1> DEFINE busy == Fds \ {LowestFd}
           own  == [s \in Used |-> slot[s]]
<1>1. LowestFd \in Fds /\ fdtab[LowestFd] = NoClient
  BY LowestIsFree
<1>2. IsFiniteSet(busy) /\ Cardinality(busy) = Cardinality(Fds) - 1
  BY <1>1, FdsAssumption, FS_RemoveElement
<1>3. own \in Injection(Used, busy)
  <2>1. \A s \in Used : slot[s] \in busy
    BY <1>1 DEF TableInv, Holder, Used, TypeOK
  <2>2. \A s, t \in Used : own[s] = own[t] => s = t
    BY DEF TableInv
  <2> QED BY <2>1, <2>2 DEF Injection, IsInjective
<1>4. IsFiniteSet(Used) /\ Cardinality(Used) <= Cardinality(busy)
  BY <1>2, <1>3, FS_Injection
<1>5. Cardinality(Used) \in Nat
  BY <1>4, FS_CardinalityType
<1> QED BY <1>2, <1>4, <1>5, SlotsType DEF Slots

LEMMA UsedFinite == Cardinality(Used) \in Nat
<1>1. Used \in SUBSET Slots
  BY DEF Used
<1>2. IsFiniteSet(Slots)
  BY SlotsType, FS_Interval DEF Slots
<1> QED BY <1>1, <1>2, FS_Subset, FS_CardinalityType

\* What the three ways of keeping an accepted connection have in common: it goes
\* to a slot that is free or, in the one-client server, is overwritten.
Keeps(c, n) ==
  /\ Take(c)
  /\ slot' = [slot EXCEPT ![n] = LowestFd]
  /\ n \in Used => program = "single"
  /\ program = "poll" => n = Cardinality(Used) + 1

LEMMA AcceptKeeps ==
  ASSUME TypeOK, TableInv, NEW c \in Clients,
         AcceptSlot(c) \/ AcceptAppend(c) \/ AcceptOver(c)
  PROVE  \E n \in Slots : Keeps(c, n)
<1>1. CASE AcceptSlot(c)
  <2>1. FirstFree \in Slots /\ slot[FirstFree] = 0
    BY <1>1, FirstIsFree DEF AcceptSlot
  <2> QED BY <1>1, <2>1 DEF AcceptSlot, Keeps, Used
<1>2. CASE AcceptAppend(c)
  <2> DEFINE n == Cardinality(Used) + 1
  <2>1. n \in Slots
    BY <1>2, RoomForOne DEF AcceptAppend, Take
  <2>2. n \notin 1 .. Cardinality(Used)
    BY UsedFinite
  <2>3. n \notin Used
    BY <1>2, <2>2 DEF TableInv, AcceptAppend
  <2> QED BY <1>2, <2>1, <2>3 DEF AcceptAppend, Keeps
<1>3. CASE AcceptOver(c)
  BY <1>3, SlotsType DEF AcceptOver, Keeps
<1> QED BY <1>1, <1>2, <1>3

-----------------------------------------------------------------------------
(* The table *)

LEMMA InitInv == Init => Inv
<1> SUFFICES ASSUME Init PROVE Inv
  OBVIOUS
<1>1. Used = {}
  BY DEF Init, Used
<1>2. TypeOK
  BY SlotsType, FdsAssumption DEF Init, TypeOK, Programs
<1>3. TableInv
  <2>1. Used = 1 .. Cardinality(Used)
    BY <1>1, FS_EmptySet
  <2> QED BY <1>1, <2>1 DEF TableInv
<1>4. FdInv /\ CountInv
  BY DEF Init, FdInv, CountInv, Unanswered, Lost, Broken
<1>5. ReportInv
  BY <1>1 DEF Init, ReportInv
<1> QED BY <1>2, <1>3, <1>4, <1>5 DEF Inv

\* Removing a slot of the table: what each of the others holds, and where.
LEMMA RemoveUsed ==
  ASSUME TypeOK, TableInv, NEW s \in Used, Remove(s), UNCHANGED program
  PROVE  /\ slot' \in [Slots -> Fds \cup {0}]
         /\ program = "poll" =>
              /\ Cardinality(Used) \in Used
              /\ Used' = 1 .. Cardinality(Used) - 1
              /\ Cardinality(Used') = Cardinality(Used) - 1
              /\ \A t \in Used' :
                   slot'[t] = IF t = s THEN slot[Cardinality(Used)] ELSE slot[t]
         /\ program # "poll" =>
              /\ Used' = Used \ {s}
              /\ \A t \in Used' : slot'[t] = slot[t]
<1> DEFINE last == Cardinality(Used)
<1>1. s \in Slots /\ Used \subseteq Slots
  BY DEF Used
<1>2. CASE program = "poll"
  <2>1. last \in Nat /\ Used = 1 .. last
    BY <1>2, UsedFinite DEF TableInv
  <2>2. last \in Used /\ s <= last
    BY <2>1
  <2>3. slot' = [slot EXCEPT ![s] = slot[last], ![last] = 0]
    BY <1>2 DEF Remove
  <2>4. \A t \in Slots : slot'[t] = IF t = last THEN 0
                                    ELSE IF t = s THEN slot[last] ELSE slot[t]
    BY <1>1, <2>2, <2>3 DEF TypeOK
  <2>5. Used' = Used \ {last}
    BY <2>2, <2>4, <1>1 DEF Used
  <2>6. Used' = 1 .. last - 1
    BY <2>1, <2>5
  <2>7. Cardinality(Used') = last - 1
    <3> HIDE DEF last
    <3>1. last \in Nat /\ last >= 1
      BY <2>1, <2>2, <1>1 DEF Slots
    <3>2. Cardinality(1 .. last - 1) = last - 1
      BY <3>1, FS_Interval
    <3> QED BY <2>6, <3>2
  <2>8. slot' \in [Slots -> Fds \cup {0}]
    BY <1>1, <2>2, <2>3 DEF TypeOK
  <2> QED BY <1>1, <1>2, <2>2, <2>4, <2>5, <2>6, <2>7, <2>8
<1>3. CASE program # "poll"
  <2>1. slot' = [slot EXCEPT ![s] = 0]
    BY <1>3 DEF Remove
  <2> QED BY <1>1, <1>3, <2>1 DEF TypeOK, Used
<1> QED BY <1>2, <1>3

\* Keeping an accepted connection: the table gains it, and loses at most what it
\* is put in the place of.
LEMMA KeepsUsed ==
  ASSUME TypeOK, TableInv, NEW c \in Clients, NEW n \in Slots, Keeps(c, n)
  PROVE  /\ slot' \in [Slots -> Fds \cup {0}]
         /\ Used' = Used \cup {n}
         /\ slot'[n] = LowestFd
         /\ \A t \in Slots \ {n} : slot'[t] = slot[t]
         /\ program = "poll" => Used' = 1 .. Cardinality(Used')
<1>1. LowestFd \in Fds /\ LowestFd # 0
  BY LowestIsFree DEF Keeps, Take
<1>2. /\ slot' \in [Slots -> Fds \cup {0}]
      /\ slot'[n] = LowestFd
      /\ \A t \in Slots \ {n} : slot'[t] = slot[t]
  BY <1>1 DEF Keeps, TypeOK
<1>3. Used' = Used \cup {n}
  BY <1>1, <1>2 DEF Used
<1>4. ASSUME program = "poll" PROVE Used' = 1 .. Cardinality(Used')
  <2>1. Cardinality(Used) \in Nat
    BY UsedFinite
  <2>2. Used' = 1 .. n /\ n \in Nat
    BY <1>3, <1>4, <2>1 DEF Keeps, TableInv
  <2> QED BY <2>2, FS_Interval
<1> QED BY <1>2, <1>3, <1>4

-----------------------------------------------------------------------------
(* The steps *)

\* The steps that open, close or move nothing.
Quiet ==
  \/ Wait \/ PollError \/ Reply
  \/ \E s \in Used : ReadText(s) \/ ReadReset(s)
  \/ \E c \in Clients : Connect(c) \/ SendLine(c) \/ Receive(c) \/ Leave(c)
  \/ UNCHANGED vars

LEMMA StepCases ==
  ASSUME TypeOK, TableInv, [Next]_vars
  PROVE  \/ Quiet \/ AcceptError
         \/ \E c \in Clients : AcceptLeak(c) \/ \E n \in Slots : Keeps(c, n)
         \/ \E s \in Used : ReadEnd(s)
<1>1. ASSUME NEW c \in Clients, AcceptSlot(c) \/ AcceptAppend(c) \/ AcceptOver(c)
      PROVE  \E n \in Slots : Keeps(c, n)
  BY <1>1, AcceptKeeps
<1>2. ASSUME NEW s \in Slots, ReadText(s) \/ ReadReset(s) \/ ReadEnd(s)
      PROVE  s \in Used
  BY <1>2 DEF ReadText, ReadReset, ReadEnd, Reading
<1> QED BY <1>1, <1>2 DEF Next, Server, Quiet

LEMMA QuietTable ==
  ASSUME TypeOK, Quiet
  PROVE  /\ UNCHANGED <<program, slot, fdtab>>
         /\ \A c \in Clients : conn[c] = "open" <=> conn'[c] = "open"
<1>1. CASE Wait \/ PollError \/ Reply \/ UNCHANGED vars
  BY <1>1 DEF Wait, PollError, Reply, vars, server, net
<1>2. CASE \E s \in Used : ReadText(s) \/ ReadReset(s)
  BY <1>2 DEF ReadText, ReadReset
<1>3. CASE \E c \in Clients : Connect(c)
  BY <1>3 DEF Connect, server, TypeOK
<1>4. CASE \E c \in Clients : SendLine(c) \/ Receive(c) \/ Leave(c)
  BY <1>4 DEF SendLine, Receive, Leave, server
<1> QED BY <1>1, <1>2, <1>3, <1>4 DEF Quiet

LEMMA TypeStep == TypeOK /\ TableInv /\ ReportInv /\ [Next]_vars => TypeOK'
<1> SUFFICES ASSUME TypeOK, TableInv, ReportInv, [Next]_vars PROVE TypeOK'
  OBVIOUS
<1>h. \A s \in Used : s \in Slots /\ slot[s] \in Fds /\ Holder(s) \in Clients
  BY DEF TypeOK, TableInv, Used, Holder
<1>1. CASE Wait
  <2>1. ready' \subseteq IF program = "poll" THEN Slots ELSE Fds
    <3>1. CASE Poll
      BY <3>1 DEF Poll
    <3>2. CASE Select
      BY <3>2, <1>h DEF Select
    <3> QED BY <1>1, <3>1, <3>2 DEF Wait
  <2>2. i' \in 1 .. Cardinality(Fds) + 1
    BY <1>1, SlotsType DEF Wait
  <2>3. pc' \in {"accept", "scan"} /\ fresh' = NoClient
    BY <1>1 DEF Wait
  <2> QED BY <1>1, <2>1, <2>2, <2>3 DEF Wait, TypeOK, net
<1>2. CASE PollError
  BY <1>2 DEF PollError, TypeOK, net
<1>3. CASE Reply
  <2>1. i \in Slots /\ Holder(i) \in Clients /\ pc = "reply"
    BY <1>3, <1>h DEF Reply, ReportInv
  <2>2. i' \in 1 .. Cardinality(Fds) + 1
    BY <1>3, <2>1, SlotsType DEF Reply, Slots
  <2>3. \A p : Failed(p) \in {"reset", "lost"}
    BY DEF Failed
  <2>4. peer' \in [Clients -> {"up", "fin", "rst", "lost", "reset"}]
    BY <1>3, <2>1, <2>3 DEF Reply, TypeOK
  <2>5. (peer[Holder(i)] = "up") \in BOOLEAN
    OBVIOUS
  <2>6. unread' \in [Clients -> BOOLEAN]
    BY <1>3, <2>1, <2>5 DEF Reply, TypeOK
  <2>7. pc' \in {"killed", "scan"}
    BY <1>3 DEF Reply
  <2> QED BY <1>3, <2>2, <2>4, <2>6, <2>7 DEF Reply, TypeOK
<1>4. ASSUME NEW s \in Used, ReadText(s) PROVE TypeOK'
  <2>1. s \in 1 .. Cardinality(Fds) + 1
    BY <1>h, SlotsType DEF Slots
  <2> QED BY <1>4, <1>h, <2>1 DEF ReadText, TypeOK
<1>5. ASSUME NEW s \in Used, ReadReset(s) PROVE TypeOK'
  <2>1. s \in 1 .. Cardinality(Fds) + 1
    BY <1>h, SlotsType DEF Slots
  <2> QED BY <1>5, <1>h, <2>1 DEF ReadReset, TypeOK
<1>6. ASSUME NEW s \in Used, ReadEnd(s) PROVE TypeOK'
  <2>1. s \in 1 .. Cardinality(Fds) + 1
    BY <1>h, SlotsType DEF Slots
  <2>2. slot' \in [Slots -> Fds \cup {0}]
    BY <1>6, RemoveUsed DEF ReadEnd
  <2>3. ready' \subseteq ready
    BY <1>6 DEF ReadEnd, Remove
  <2>4. /\ fdtab' \in [Fds -> Clients \cup {NoClient}]
        /\ conn' \in [Clients -> {"idle", "backlog", "open", "closed"}]
        /\ peer' \in [Clients -> {"up", "fin", "rst", "lost", "reset"}]
        /\ sent' \in [Clients -> Nat]
        /\ unread' \in [Clients -> BOOLEAN]
    BY <1>6, <1>h DEF ReadEnd, TypeOK
  <2> QED BY <1>6, <2>1, <2>2, <2>3, <2>4 DEF ReadEnd, TypeOK
<1>7. ASSUME NEW c \in Clients, Take(c), slot' \in [Slots -> Fds \cup {0}]
      PROVE  TypeOK'
  BY <1>7, LowestIsFree DEF Take, TypeOK
<1>8. ASSUME NEW c \in Clients, AcceptLeak(c) PROVE TypeOK'
  BY <1>7, <1>8 DEF AcceptLeak, TypeOK
<1>9. ASSUME NEW c \in Clients, NEW n \in Slots, Keeps(c, n) PROVE TypeOK'
  <2>1. slot' \in [Slots -> Fds \cup {0}]
    BY <1>9, KeepsUsed
  <2> QED BY <1>7, <1>9, <2>1 DEF Keeps
<1>10. CASE AcceptError
  BY <1>10 DEF AcceptError, TypeOK, net
<1>11. ASSUME NEW c \in Clients, Connect(c) \/ SendLine(c) \/ Receive(c) \/ Leave(c)
       PROVE  TypeOK'
  <2>1. CASE Connect(c)
    BY <2>1 DEF Connect, TypeOK, server
  <2>2. CASE SendLine(c)
    BY <2>2 DEF SendLine, TypeOK, server
  <2>3. CASE Receive(c)
    BY <2>3 DEF Receive, TypeOK, server
  <2>4. CASE Leave(c)
    BY <2>4 DEF Leave, TypeOK, server
  <2> QED BY <1>11, <2>1, <2>2, <2>3, <2>4
<1>12. CASE UNCHANGED vars
  BY <1>12 DEF vars, server, net, TypeOK
<1>13. CASE Quiet
  BY <1>1, <1>2, <1>3, <1>4, <1>5, <1>11, <1>12, <1>13 DEF Quiet
<1> QED BY <1>6, <1>8, <1>9, <1>10, <1>13, StepCases

LEMMA TableStep == TypeOK /\ TableInv /\ FdInv /\ [Next]_vars => TableInv'
<1> SUFFICES ASSUME TypeOK, TableInv, FdInv, [Next]_vars PROVE TableInv'
  OBVIOUS
<1>h. \A s \in Used : s \in Slots /\ slot[s] \in Fds /\ Holder(s) \in Clients
  BY DEF TypeOK, TableInv, Used, Holder
<1>1. CASE Quiet
  <2>1. Used' = Used /\ \A s \in Used : Holder(s)' = Holder(s)
    BY <1>1, QuietTable DEF Used, Holder
  <2> QED BY <1>1, <1>h, <2>1, QuietTable DEF TableInv
<1>2. CASE AcceptError
  <2>1. Used' \subseteq Used /\ \A s \in Used' : slot'[s] = slot[s]
    BY <1>2, SlotsType DEF AcceptError, Used, TypeOK
  <2>2. program = "poll" => Used' = Used
    BY <1>2 DEF AcceptError, Used
  <2> QED BY <1>2, <2>1, <2>2 DEF AcceptError, TableInv, Holder, net
<1>3. ASSUME NEW c \in Clients, Take(c), NEW s \in Used
      PROVE  /\ fdtab'[slot[s]] = Holder(s) /\ conn'[Holder(s)] = "open"
             /\ slot[s] # LowestFd
  BY <1>3, <1>h, LowestIsFree DEF Take, Holder, TypeOK, TableInv
<1>4. ASSUME NEW c \in Clients, AcceptLeak(c) PROVE TableInv'
  <2>1. Used' = Used /\ \A s \in Used : Holder(s)' = Holder(s)
    BY <1>3, <1>4 DEF AcceptLeak, Used, Holder
  <2> QED BY <1>3, <1>4, <2>1 DEF AcceptLeak, Take, TableInv
<1>5. ASSUME NEW c \in Clients, NEW n \in Slots, Keeps(c, n) PROVE TableInv'
  <2>1. /\ Used' = Used \cup {n} /\ slot'[n] = LowestFd
        /\ \A t \in Slots \ {n} : slot'[t] = slot[t]
    BY <1>5, KeepsUsed
  <2>2. fdtab'[LowestFd] = c /\ conn'[c] = "open" /\ c # NoClient
    BY <1>5, LowestIsFree, ClientsAssumption DEF Keeps, Take, TypeOK
  <2>3. \A s \in Used' : Holder(s)' # NoClient /\ conn'[Holder(s)'] = "open"
    <3>1. TAKE s \in Used'
    <3>2. CASE s = n
      BY <2>1, <2>2, <3>2 DEF Holder
    <3>3. CASE s # n
      <4>1. s \in Used /\ slot'[s] = slot[s]
        BY <2>1, <3>3, <1>h
      <4>2. fdtab'[slot[s]] = Holder(s) /\ conn'[Holder(s)] = "open"
        BY <1>3, <1>5, <4>1 DEF Keeps
      <4> QED BY <4>1, <4>2 DEF Holder, TableInv
    <3> QED BY <3>2, <3>3
  <2>4. \A s, t \in Used' : slot'[s] = slot'[t] => s = t
    <3>1. \A s \in Used : slot[s] # LowestFd
      BY <1>3, <1>5 DEF Keeps
    <3> QED BY <2>1, <3>1, <1>h DEF TableInv
  <2>5. program' = "poll" => Used' = 1 .. Cardinality(Used')
    BY <1>5, KeepsUsed DEF Keeps, Take
  <2> QED BY <2>3, <2>4, <2>5 DEF TableInv
<1>6. ASSUME NEW s \in Used, ReadEnd(s) PROVE TableInv'
  <2>1. ASSUME NEW t \in Used, t # s
        PROVE  fdtab'[slot[t]] = Holder(t) /\ Holder(t) # Holder(s) /\ conn'[Holder(t)] = "open"
    <3>1. slot[t] # slot[s] /\ Holder(t) # Holder(s)
      BY <2>1, <1>h DEF TableInv, FdInv, Holder
    <3> QED BY <1>6, <1>h, <3>1 DEF ReadEnd, Holder, TypeOK, TableInv
  <2>2. CASE program = "poll"
    <3> DEFINE last == Cardinality(Used)
    <3>1. /\ last \in Used /\ Used' = 1 .. last - 1 /\ Cardinality(Used') = last - 1
          /\ \A t \in Used' : slot'[t] = IF t = s THEN slot[last] ELSE slot[t]
      BY <1>6, <2>2, RemoveUsed DEF ReadEnd
    <3>2. Used = 1 .. last /\ last \in Nat
      BY <2>2, UsedFinite DEF TableInv
    <3> HIDE DEF last
    <3>3. \A t \in Used' : t \in Used /\ t # last
      BY <3>1, <3>2
    <3>4. \A t \in Used' : \E u \in Used \ {s} : slot'[t] = slot[u]
      BY <3>1, <3>3
    <3>5. \A t \in Used' : Holder(t)' # NoClient /\ conn'[Holder(t)'] = "open"
      BY <2>1, <3>4 DEF Holder, TableInv
    <3>6. \A t, u \in Used' : slot'[t] = slot'[u] => t = u
      BY <3>1, <3>3 DEF TableInv
    <3> QED BY <3>1, <3>5, <3>6 DEF TableInv
  <2>3. CASE program # "poll"
    <3>1. Used' = Used \ {s} /\ \A t \in Used' : slot'[t] = slot[t]
      BY <1>6, <2>3, RemoveUsed DEF ReadEnd
    <3>2. program' # "poll"
      BY <1>6, <2>3 DEF ReadEnd
    <3> QED BY <2>1, <3>1, <3>2 DEF TableInv, Holder
  <2> QED BY <2>2, <2>3
<1> QED BY <1>1, <1>2, <1>4, <1>5, <1>6, StepCases

LEMMA FdStep == TypeOK /\ TableInv /\ FdInv /\ [Next]_vars => FdInv'
<1> SUFFICES ASSUME TypeOK, TableInv, FdInv, [Next]_vars PROVE FdInv'
  OBVIOUS
<1>1. CASE Quiet
  BY <1>1, QuietTable DEF FdInv, TypeOK
<1>2. CASE AcceptError
  BY <1>2 DEF AcceptError, FdInv, net
<1>3. ASSUME NEW c \in Clients, Take(c) PROVE FdInv'
  <2>1. \A f \in Fds : fdtab'[f] = IF f = LowestFd THEN c ELSE fdtab[f]
    BY <1>3 DEF Take, TypeOK
  <2>2. \A f \in Fds : fdtab[f] # c
    BY <1>3, ClientsAssumption DEF Take, Backlog, FdInv
  <2>3. \A d \in Clients : conn'[d] = IF d = c THEN "open" ELSE conn[d]
    BY <1>3 DEF Take, TypeOK
  <2>4. \A f \in Fds : fdtab'[f] # NoClient => conn'[fdtab'[f]] = "open"
    BY <2>1, <2>3 DEF FdInv, TypeOK
  <2>5. \A f, g \in Fds : fdtab'[f] = fdtab'[g] /\ fdtab'[f] # NoClient => f = g
    BY <2>1, <2>2 DEF FdInv
  <2> QED BY <2>4, <2>5 DEF FdInv
<1>4. ASSUME NEW s \in Used, ReadEnd(s) PROVE FdInv'
  <2>1. slot[s] \in Fds /\ Holder(s) \in Clients
    BY DEF TypeOK, TableInv, Used, Holder
  <2>2. \A f \in Fds : fdtab'[f] = IF f = slot[s] THEN NoClient ELSE fdtab[f]
    BY <1>4, <2>1 DEF ReadEnd, TypeOK
  <2>3. \A d \in Clients : d # Holder(s) => conn'[d] = conn[d]
    BY <1>4, <2>1 DEF ReadEnd, TypeOK
  <2>4. \A f \in Fds : f # slot[s] /\ fdtab[f] # NoClient => fdtab[f] # Holder(s)
    BY <2>1 DEF FdInv, Holder
  <2>5. \A f \in Fds : fdtab'[f] # NoClient => conn'[fdtab'[f]] = "open"
    BY <2>2, <2>3, <2>4 DEF FdInv, TypeOK
  <2>6. \A f, g \in Fds : fdtab'[f] = fdtab'[g] /\ fdtab'[f] # NoClient => f = g
    BY <2>2 DEF FdInv
  <2> QED BY <2>5, <2>6 DEF FdInv
<1> QED BY <1>1, <1>2, <1>3, <1>4, StepCases DEF AcceptLeak, Keeps

-----------------------------------------------------------------------------
(* What was reported *)

LEMMA ReportStep == TypeOK /\ TableInv /\ FdInv /\ ReportInv /\ [Next]_vars => ReportInv'
<1> SUFFICES ASSUME TypeOK, TableInv, FdInv, ReportInv, [Next]_vars PROVE ReportInv'
  OBVIOUS
<1>h. \A s \in Used : s \in Slots /\ s \in Int /\ slot[s] \in Fds /\ Holder(s) \in Clients
  BY SlotsType DEF TypeOK, TableInv, Used, Holder, Slots
<1>d. \A s, t \in Used : s # t => Holder(s) # Holder(t)
  BY <1>h DEF TableInv, FdInv, Holder
<1>q. ASSUME Quiet
      PROVE  Used' = Used /\ program' = program /\ \A s \in Used : Holder(s)' = Holder(s)
  BY <1>q, QuietTable DEF Used, Holder
<1>k. ASSUME Quiet, UNCHANGED ready, NEW s \in Used
      PROVE  Reported(s)' = Reported(s)
  BY <1>k, QuietTable DEF Reported
<1>1. CASE Wait
  <2>1. \A s \in Used : Reported(s)' => Readable(Holder(s))
    <3>1. CASE Poll
      BY <1>1, <1>h, <3>1 DEF Poll, Reported, Wait
    <3>2. CASE Select
      <4>1. \A s \in Used : slot[s] \in ready' => Readable(Holder(s))
        BY <3>2, <1>h DEF Select, TableInv
      <4> QED BY <1>1, <3>2, <4>1 DEF Select, Reported, Wait
    <3> QED BY <1>1, <3>1, <3>2 DEF Wait
  <2>2. \A s \in Used : Readable(Holder(s))' <=> Readable(Holder(s))
    BY <1>1 DEF Wait, net, Readable, Holder
  <2>3. pc' # "reply" /\ fresh' = NoClient /\ Used' = Used
    BY <1>1 DEF Wait, Used
  <2>4. program' # "poll" => \A f \in ready' : fdtab'[f] # NoClient
    BY <1>1, <1>h DEF Wait, Select, Poll, net, Holder, TableInv
  <2> QED BY <2>1, <2>2, <2>3, <2>4 DEF ReportInv
<1>2. CASE PollError
  BY <1>2 DEF PollError, net, ReportInv, Used, Holder, Readable, Reported, Ahead, ScanEnd
<1>3. CASE Reply
  <2>1. i \in Used /\ pc = "reply" /\ pc' # "reply" /\ pc' # "accept" /\ i' = i + 1
    BY <1>3 DEF Reply, ReportInv
  <2>2. \A s \in Used : Ahead(s)' => Ahead(s)
    BY <2>1, <1>h DEF Ahead
  <2>3. \A p : Failed(p) # "up"
    BY DEF Failed
  <2>4. \A c \in Clients : Readable(c) => Readable(c)'
    BY <1>3, <2>1, <2>3, <1>h DEF Reply, Readable, TypeOK
  <2>5. Quiet /\ UNCHANGED <<ready, fresh>>
    BY <1>3 DEF Quiet, Reply
  <2> QED BY <2>1, <2>2, <2>4, <2>5, <1>q, <1>k, <1>h DEF ReportInv
<1>4. ASSUME NEW s \in Used, ReadText(s) \/ ReadReset(s) PROVE ReportInv'
  <2>1. /\ pc = "scan" /\ pc' = "reply" /\ i' = s /\ s >= i
        /\ UNCHANGED <<ready, fresh>> /\ Quiet
    BY <1>4 DEF Quiet, ReadText, ReadReset, Reading
  <2>2. \A t \in Used : Ahead(t)' => Ahead(t) /\ t # s
    BY <2>1, <1>h DEF Ahead, TypeOK
  <2>3. \A c \in Clients \ {Holder(s)} : Readable(c) => Readable(c)'
    BY <1>4, <1>h DEF ReadText, ReadReset, Readable, TypeOK
  <2>4. \A t \in Used : t # s => (Readable(Holder(t)) => Readable(Holder(t))')
    <3>1. TAKE t \in Used
    <3>2. HAVE t # s
    <3>3. Holder(t) \in Clients \ {Holder(s)}
      BY <1>d, <1>h, <3>2
    <3>4. Holder(t)' = Holder(t)
      BY <1>q, <2>1
    <3> QED BY <2>3, <3>3, <3>4 DEF Readable
  <2>5. ASSUME NEW t \in Used', Ahead(t)', Reported(t)'
        PROVE  Readable(Holder(t))' \/ (program' = "poll" /\ Holder(t)' = fresh')
    <3>1. t \in Used /\ Ahead(t) /\ t # s /\ Reported(t)
      BY <1>q, <1>k, <2>1, <2>2, <2>5
    <3>2. Readable(Holder(t)) \/ (program = "poll" /\ Holder(t) = fresh)
      BY <3>1 DEF ReportInv
    <3> QED BY <3>1, <3>2, <2>4, <2>1, <1>q
  <2> QED BY <1>q, <2>1, <2>5 DEF ReportInv
<1>5. ASSUME NEW c \in Clients, Connect(c) \/ SendLine(c) \/ Receive(c) \/ Leave(c)
      PROVE  ReportInv'
  <2>1. \A d \in Clients : Readable(d) => Readable(d)'
    BY <1>5 DEF Connect, SendLine, Receive, Leave, Connected, Readable, TypeOK
  <2>2. UNCHANGED server
    BY <1>5 DEF Connect, SendLine, Receive, Leave
  <2>3. UNCHANGED <<pc, i, ready, fresh, program>> /\ Quiet
    BY <1>5, <2>2 DEF server, Quiet
  <2>4. \A s \in Used : Ahead(s)' = Ahead(s)
    BY <2>3 DEF Ahead
  <2>5. pc' = "accept" /\ program' # "poll" => \A f \in ready' : fdtab'[f] # NoClient
    BY <2>3, QuietTable DEF ReportInv
  <2> QED BY <1>q, <1>k, <1>h, <2>1, <2>3, <2>4, <2>5 DEF ReportInv
<1>6. CASE UNCHANGED vars
  BY <1>6 DEF vars, server, net, ReportInv, Used, Holder, Readable, Reported, Ahead
<1>7. CASE AcceptError
  <2>1. /\ Used' \subseteq Used /\ \A s \in Used' : slot'[s] = slot[s]
        /\ UNCHANGED <<i, ready, fresh, program, net>>
    BY <1>7, SlotsType DEF AcceptError, Used, TypeOK
  <2>2. \A s \in Used' : Holder(s)' = Holder(s) /\ Reported(s)' = Reported(s)
    BY <2>1 DEF Holder, Reported, net
  <2>3. pc = "accept" /\ pc' # "reply" /\ pc' # "accept"
    BY <1>7 DEF AcceptError
  <2>4. \A s : Ahead(s)' = Ahead(s)
    BY <2>1, <2>3 DEF Ahead
  <2> QED BY <2>1, <2>2, <2>3, <2>4 DEF ReportInv, Readable, net
<1>8. ASSUME NEW c \in Clients, Take(c), NEW s \in Used, slot'[s] = slot[s],
             Ahead(s)', Reported(s)'
      PROVE  Readable(Holder(s))'
  <2>1. pc = "accept" /\ pc' = "scan" /\ UNCHANGED <<i, ready, program, inbox, peer>>
    BY <1>8 DEF Take
  <2>2. Ahead(s) /\ Reported(s)
    BY <1>8, <2>1 DEF Ahead, Reported
  <2>3. Readable(Holder(s))
    BY <1>h, <2>1, <2>2, ClientsAssumption DEF ReportInv
  <2>4. Holder(s)' = Holder(s)
    BY <1>8, <1>h, LowestIsFree DEF Take, Holder, TableInv, TypeOK
  <2> QED BY <2>1, <2>3, <2>4 DEF Readable
<1>9. ASSUME NEW c \in Clients, AcceptLeak(c) PROVE ReportInv'
  <2>1. Used' = Used /\ UNCHANGED slot /\ pc' = "scan" /\ Take(c)
    BY <1>9 DEF AcceptLeak, Used, Take
  <2> QED BY <1>8, <2>1 DEF ReportInv
<1>10. ASSUME NEW c \in Clients, NEW n \in Slots, Keeps(c, n) PROVE ReportInv'
  <2>1. /\ Used' = Used \cup {n} /\ slot'[n] = LowestFd
        /\ \A t \in Slots \ {n} : slot'[t] = slot[t]
    BY <1>10, KeepsUsed
  <2>2. /\ Take(c) /\ pc = "accept" /\ pc' = "scan" /\ fresh' = c
        /\ UNCHANGED <<ready, program>>
    BY <1>10 DEF Keeps, Take
  <2>3. LowestFd \in Fds /\ fdtab[LowestFd] = NoClient
    BY <2>2, LowestIsFree DEF Take
  <2>4. fdtab'[LowestFd] = c
    BY <2>2, <2>3 DEF Take, TypeOK
  <2>5. ASSUME NEW s \in Used', Ahead(s)', Reported(s)'
        PROVE  Readable(Holder(s))' \/ (program' = "poll" /\ Holder(s)' = fresh')
    <3>1. CASE s = n
      <4>1. program # "poll" => LowestFd \notin ready
        BY <2>2, <2>3 DEF ReportInv
      <4>2. program = "poll"
        BY <2>1, <2>2, <2>5, <3>1, <4>1 DEF Reported
      <4> QED BY <2>1, <2>2, <2>4, <3>1, <4>2 DEF Holder
    <3>2. CASE s # n
      <4>1. s \in Used /\ slot'[s] = slot[s]
        BY <2>1, <3>2, <1>h
      <4> QED BY <1>8, <2>2, <2>5, <4>1
    <3> QED BY <3>1, <3>2
  <2> QED BY <2>2, <2>5 DEF ReportInv
<1>11. ASSUME NEW s \in Used, ReadEnd(s) PROVE ReportInv'
  <2>1. /\ pc = "scan" /\ pc' = "scan" /\ s >= i /\ i' = s
        /\ UNCHANGED <<program, fresh, inbox>>
    BY <1>11 DEF ReadEnd, Reading
  \* The other slots' connections are as they were, wherever they are now.
  <2>2. ASSUME NEW t \in Used, t # s, Readable(Holder(t)) \/ (program = "poll" /\ Holder(t) = fresh)
        PROVE  LET c == fdtab'[slot[t]] IN
                 inbox'[c] > 0 \/ peer'[c] # "up" \/ (program' = "poll" /\ c = fresh')
    <3>1. slot[t] # slot[s] /\ Holder(t) # Holder(s)
      BY <2>2, <1>d DEF TableInv
    <3>2. fdtab'[slot[t]] = Holder(t)
      BY <1>11, <1>h, <3>1 DEF ReadEnd, Holder, TypeOK
    <3>3. peer'[Holder(t)] = peer[Holder(t)]
      BY <1>11, <1>h, <3>1 DEF ReadEnd, TypeOK
    <3> QED BY <2>1, <2>2, <3>2, <3>3 DEF Readable
  <2>3. ASSUME NEW t \in Used', Ahead(t)', Reported(t)'
        PROVE  \E u \in Used \ {s} : slot'[t] = slot[u] /\ Ahead(u) /\ Reported(u)
    <3>1. CASE program = "poll"
      <4> DEFINE last == Cardinality(Used)
      <4>1. /\ last \in Used /\ Used' = 1 .. last - 1
            /\ \A u \in Used' : slot'[u] = IF u = s THEN slot[last] ELSE slot[u]
        BY <1>11, <3>1, RemoveUsed DEF ReadEnd
      <4>2. Used = 1 .. last /\ last \in Nat
        BY <3>1, UsedFinite DEF TableInv
      <4>3. ready' = IF last \in ready THEN ready ELSE ready \ {s}
        BY <1>11, <3>1 DEF ReadEnd, Remove
      <4> HIDE DEF last
      <4>4. t \in ready'
        BY <2>1, <2>3, <3>1 DEF Reported
      <4>5. t >= s /\ t < last /\ s \in Int /\ t \in Int /\ t \in Used
        BY <2>1, <2>3, <4>1, <4>2, <1>h DEF Ahead
      <4>6. Ahead(t) /\ Ahead(last)
        BY <2>1, <4>5, <4>2 DEF Ahead, TypeOK
      <4>7. CASE t = s
        <5>1. last \in ready /\ slot'[t] = slot[last] /\ last # s
          BY <4>1, <4>3, <4>4, <4>5, <4>7, <4>2
        <5> QED BY <3>1, <4>1, <4>6, <5>1 DEF Reported
      <4>8. CASE t # s
        <5>1. t \in ready /\ slot'[t] = slot[t]
          BY <4>1, <4>3, <4>4, <4>8
        <5> QED BY <3>1, <4>5, <4>6, <4>8, <5>1 DEF Reported
      <4> QED BY <4>7, <4>8
    <3>2. CASE program # "poll"
      <4>1. Used' = Used \ {s} /\ slot'[t] = slot[t] /\ ready' = ready
        BY <1>11, <2>3, <3>2, RemoveUsed DEF ReadEnd, Remove
      <4>2. Reported(t)
        BY <2>1, <2>3, <3>2, <4>1 DEF Reported
      <4>3. t >= s /\ t \in Int /\ s \in Int
        BY <2>1, <2>3, <4>1, <1>h DEF Ahead
      <4>4. Ahead(t)
        BY <2>1, <4>3 DEF Ahead, TypeOK
      <4> QED BY <4>1, <4>2, <4>4
    <3> QED BY <3>1, <3>2
  <2>4. \A t \in Used' : Ahead(t)' /\ Reported(t)' =>
          Readable(Holder(t))' \/ (program' = "poll" /\ Holder(t)' = fresh')
    BY <2>2, <2>3 DEF ReportInv, Readable, Holder
  <2> QED BY <2>1, <2>4 DEF ReportInv
<1>12. CASE Quiet
  BY <1>1, <1>2, <1>3, <1>4, <1>5, <1>6, <1>12 DEF Quiet
<1> QED BY <1>7, <1>9, <1>10, <1>11, <1>12, StepCases

-----------------------------------------------------------------------------
(* What kills the server *)

LEMMA CountStep == TypeOK /\ TableInv /\ ReportInv /\ CountInv /\ [Next]_vars => CountInv'
<1> SUFFICES ASSUME TypeOK, TableInv, ReportInv, CountInv, [Next]_vars,
                    NEW c \in Clients
             PROVE  \/ program' = "select" /\ peer'[c] = "reset"
                    \/ pc' = "killed"
                    \/ sent'[c] >= inbox'[c] + Unanswered(c)' + Lost(c)'
  BY DEF CountInv
<1> DEFINE Goal == \/ program' = "select" /\ peer'[c] = "reset"
                   \/ pc' = "killed"
                   \/ sent'[c] >= inbox'[c] + Unanswered(c)' + Lost(c)'
<1>h. \A s \in Used : Holder(s) \in Clients
  BY DEF TypeOK, TableInv, Used, Holder
<1>t. /\ sent[c] \in Nat /\ inbox[c] \in Nat
      /\ Unanswered(c) \in 0 .. 1 /\ Lost(c) \in 0 .. 1
  BY DEF TypeOK, Unanswered, Lost
<1>c. \/ program = "select" /\ peer[c] = "reset"
      \/ pc = "killed"
      \/ sent[c] >= inbox[c] + Unanswered(c) + Lost(c)
  BY DEF CountInv
<1>1. ASSUME UNCHANGED <<program, peer, inbox, sent>>, pc # "reply", pc' # "reply",
             pc # "killed"
      PROVE  Goal
  <2>1. Unanswered(c) = 0 /\ Unanswered(c)' = 0 /\ Lost(c)' = Lost(c)
    BY <1>1 DEF Unanswered, Lost
  <2> QED BY <1>1, <1>c, <2>1
<1>2. CASE Wait \/ PollError \/ AcceptError
  BY <1>1, <1>2 DEF Wait, PollError, AcceptError, ScanEnd, net
<1>3. ASSUME NEW d \in Clients, Take(d) PROVE Goal
  BY <1>1, <1>3 DEF Take
<1>4. CASE Reply
  <2> DEFINE d == Holder(i)
  <2>1. pc = "reply" /\ d \in Clients /\ UNCHANGED <<program, inbox, sent>>
    BY <1>4, <1>h DEF Reply, ReportInv
  <2>2. CASE peer[d] \in Broken
    BY <1>4, <2>2 DEF Reply
  <2>3. CASE peer[d] \notin Broken
    <3>1. pc' = "scan" /\ Unanswered(c)' = 0
      BY <1>4, <2>3 DEF Reply, Unanswered
    <3>2. CASE c = d
      <4>1. Unanswered(c) = 1 /\ Lost(c) = 0 /\ Lost(c)' \in 0 .. 1
        BY <2>1, <2>3, <3>2 DEF Unanswered, Lost
      <4>2. peer[c] # "reset"
        BY <2>3, <3>2 DEF Broken
      <4> QED BY <1>c, <1>t, <2>1, <3>1, <4>1, <4>2
    <3>3. CASE c # d
      <4>1. peer'[c] = peer[c]
        BY <1>4, <2>1, <3>3 DEF Reply, TypeOK
      <4>2. Unanswered(c) = 0 /\ Lost(c)' = Lost(c)
        BY <3>3, <4>1 DEF Unanswered, Lost
      <4> QED BY <1>c, <2>1, <3>1, <4>1, <4>2
    <3> QED BY <3>2, <3>3
  <2> QED BY <2>2, <2>3
<1>5. ASSUME NEW s \in Used, ReadText(s) PROVE Goal
  <2>1. /\ pc = "scan" /\ pc' = "reply" /\ i' = s /\ inbox[Holder(s)] > 0
        /\ UNCHANGED <<program, slot, fdtab, peer, sent>>
    BY <1>5 DEF ReadText, Reading
  <2>2. Unanswered(c) = 0 /\ Lost(c)' = Lost(c)
    BY <2>1 DEF Unanswered, Lost
  <2>3. Unanswered(c)' = IF c = Holder(s) THEN 1 ELSE 0
    BY <2>1 DEF Unanswered, Holder
  <2>4. inbox'[c] = IF c = Holder(s) THEN 0 ELSE inbox[c]
    BY <1>5, <1>h DEF ReadText, TypeOK
  <2>5. inbox[c] + Unanswered(c) >= inbox'[c] + Unanswered(c)'
    BY <1>t, <2>1, <2>2, <2>3, <2>4
  <2>6. inbox'[c] \in Nat /\ Unanswered(c)' \in 0 .. 1
    BY <1>t, <2>3, <2>4
  <2> QED BY <1>t, <1>c, <2>1, <2>2, <2>5, <2>6
<1>6. ASSUME NEW s \in Used, ReadReset(s) PROVE Goal
  <2>1. /\ pc = "scan" /\ pc' = "reply" /\ i' = s /\ program = "select"
        /\ UNCHANGED <<program, slot, fdtab, inbox, sent>>
    BY <1>6 DEF ReadReset, Reading
  <2>2. CASE c = Holder(s)
    BY <1>6, <1>h, <2>1, <2>2 DEF ReadReset, TypeOK
  <2>3. CASE c # Holder(s)
    <3>1. peer'[c] = peer[c]
      BY <1>6, <1>h, <2>3 DEF ReadReset, TypeOK
    <3>2. Unanswered(c) = 0 /\ Unanswered(c)' = 0 /\ Lost(c)' = Lost(c)
      BY <2>1, <2>3, <3>1 DEF Unanswered, Lost, Holder
    <3> QED BY <1>c, <2>1, <3>1, <3>2
  <2> QED BY <2>2, <2>3
<1>7. ASSUME NEW s \in Used, ReadEnd(s) PROVE Goal
  <2>1. /\ pc = "scan" /\ pc' = "scan" /\ inbox[Holder(s)] = 0
        /\ UNCHANGED <<program, inbox>>
    BY <1>7 DEF ReadEnd, Reading
  <2>2. Unanswered(c) = 0 /\ Unanswered(c)' = 0
    BY <2>1 DEF Unanswered
  <2>3. CASE c = Holder(s)
    <3>1. peer'[c] = "up" /\ sent'[c] = 0 /\ inbox'[c] = 0
      BY <1>7, <1>h, <2>1, <2>3 DEF ReadEnd, TypeOK
    <3>2. Lost(c)' = 0
      BY <3>1 DEF Lost, Broken
    <3> QED BY <2>2, <3>1, <3>2
  <2>4. CASE c # Holder(s)
    <3>1. peer'[c] = peer[c] /\ sent'[c] = sent[c]
      BY <1>7, <1>h, <2>4 DEF ReadEnd, TypeOK
    <3>2. Lost(c)' = Lost(c)
      BY <3>1 DEF Lost
    <3> QED BY <1>c, <2>1, <2>2, <3>1, <3>2
  <2> QED BY <2>3, <2>4
<1>8. ASSUME UNCHANGED server, UNCHANGED fdtab PROVE Unanswered(c)' = Unanswered(c)
  BY <1>8 DEF Unanswered, Holder, server
<1>9. ASSUME NEW d \in Clients, Connect(d) \/ Receive(d) PROVE Goal
  <2>1. UNCHANGED <<server, fdtab, peer, inbox, sent>>
    BY <1>9 DEF Connect, Receive
  <2>2. Lost(c)' = Lost(c) /\ UNCHANGED <<program, pc>>
    BY <2>1 DEF Lost, server
  <2> QED BY <1>8, <1>c, <2>1, <2>2
<1>10. ASSUME NEW d \in Clients, SendLine(d) PROVE Goal
  <2>1. UNCHANGED <<server, fdtab, peer>>
    BY <1>10 DEF SendLine
  <2>2. Lost(c)' = Lost(c) /\ UNCHANGED <<program, pc>>
    BY <2>1 DEF Lost, server
  <2>3. /\ sent'[c] = IF c = d THEN sent[c] + 1 ELSE sent[c]
        /\ inbox'[c] = IF c = d THEN inbox[c] + 1 ELSE inbox[c]
    BY <1>10 DEF SendLine, TypeOK
  <2> QED BY <1>8, <1>c, <1>t, <2>1, <2>2, <2>3
<1>11. ASSUME NEW d \in Clients, Leave(d) PROVE Goal
  <2>1. UNCHANGED <<server, fdtab, inbox, sent>> /\ peer[d] = "up"
    BY <1>11 DEF Leave, Connected
  <2>2. UNCHANGED <<program, pc>>
    BY <2>1 DEF server
  <2>3. peer'[c] \in Broken <=> peer[c] \in Broken
    BY <1>11, <2>1 DEF Leave, TypeOK, Broken
  <2>4. peer[c] = "reset" => peer'[c] = "reset"
    BY <1>11, <2>1 DEF Leave, TypeOK
  <2> QED BY <1>8, <1>c, <2>1, <2>2, <2>3, <2>4 DEF Lost
<1>12. CASE UNCHANGED vars
  <2>1. UNCHANGED <<server, fdtab, peer, inbox, sent>>
    BY <1>12 DEF vars, net
  <2>2. Lost(c)' = Lost(c) /\ UNCHANGED <<program, pc>>
    BY <2>1 DEF Lost, server
  <2> QED BY <1>8, <1>c, <2>1, <2>2
<1>13. CASE Quiet
  BY <1>2, <1>4, <1>5, <1>6, <1>9, <1>10, <1>11, <1>12, <1>13 DEF Quiet
<1> QED BY <1>2, <1>3, <1>7, <1>13, StepCases DEF AcceptLeak, Keeps

-----------------------------------------------------------------------------
(* The theorems *)

LEMMA InvStep == Inv /\ [Next]_vars => Inv'
BY TypeStep, TableStep, FdStep, ReportStep, CountStep DEF Inv

LEMMA InvCorrect == Spec => []Inv
BY InitInv, InvStep, PTL DEF Spec

\* Whatever the order of accepts, removals and failures, each slot in use holds
\* an open connection of its own and the poll() server's array has no hole.
THEOREM SlotTableCorrect == Spec => []SlotTable
<1>1. Inv => SlotTable
  BY DEF Inv, SlotTable, TableInv
<1> QED BY <1>1, InvCorrect, PTL

\* Only the poll() server can wait in recv() while others are ready, and only
\* for the connection it has just accepted.
THEOREM BlocksCorrect == Spec => []BlocksOnlyOnNew
<1>1. Inv => BlocksOnlyOnNew
  BY DEF Inv, BlocksOnlyOnNew, ReportInv, Reading, Ahead
<1> QED BY <1>1, InvCorrect, PTL

\* What Remembered forbids a step to do to a connection.
Drops(c) ==
  \/ /\ conn[c] = "backlog" /\ conn'[c] = "open" /\ ~ Watched(c)'
     /\ ~ (program = "select" /\ FreeSlots = {})
  \/ /\ Watched(c) /\ conn'[c] = "open" /\ pc' # "exited" /\ ~ Watched(c)'
     /\ ~ (program = "single" /\ pc = "accept")

LEMMA NothingDropped ==
  ASSUME Inv, [Next]_vars, NEW c \in Clients
  PROVE  ~ Drops(c)
<1> USE DEF Inv
<1>h. \A s \in Used : s \in Slots /\ slot[s] \in Fds /\ Holder(s) \in Clients
  BY DEF TypeOK, TableInv, Used, Holder
<1>1. CASE Quiet
  <2>1. conn[c] = "backlog" => conn'[c] # "open"
    BY <1>1, QuietTable
  <2>2. Watched(c) => Watched(c)'
    BY <1>1, QuietTable DEF Watched, Used, Holder
  <2> QED BY <2>1, <2>2 DEF Drops
<1>2. CASE AcceptError
  <2>1. UNCHANGED <<fdtab, conn>> /\ pc = "accept"
    BY <1>2 DEF AcceptError, net
  <2>2. CASE program = "poll"
    BY <1>2, <2>1, <2>2 DEF AcceptError, Drops, Watched, Used, Holder
  <2>3. CASE program # "poll"
    <3>1. program = "select" => pc' = "exited"
      BY <1>2 DEF AcceptError
    <3> QED BY <2>1, <2>3, <3>1 DEF Drops, TypeOK, Programs
  <2> QED BY <2>2, <2>3
<1>3. ASSUME NEW d \in Clients, Take(d), NEW s \in Used, slot'[s] = slot[s]
      PROVE  Holder(s)' = Holder(s)
  BY <1>3, <1>h, LowestIsFree DEF Take, Holder, TableInv, TypeOK
<1>4. ASSUME NEW d \in Clients, AcceptLeak(d) PROVE ~ Drops(c)
  <2>1. Used' = Used /\ \A s \in Used : Holder(s)' = Holder(s)
    BY <1>3, <1>4 DEF AcceptLeak, Used
  <2>2. program = "select" /\ FreeSlots = {}
    BY <1>4 DEF AcceptLeak
  <2> QED BY <2>1, <2>2 DEF Drops, Watched
<1>5. ASSUME NEW d \in Clients, NEW n \in Slots, Keeps(d, n) PROVE ~ Drops(c)
  <2>1. /\ Used' = Used \cup {n} /\ slot'[n] = LowestFd
        /\ \A t \in Slots \ {n} : slot'[t] = slot[t]
    BY <1>5, KeepsUsed
  <2>2. fdtab'[LowestFd] = d /\ pc = "accept"
    BY <1>5, LowestIsFree DEF Keeps, Take, TypeOK
  <2>3. ASSUME c # d PROVE conn'[c] = conn[c]
    BY <1>5, <2>3 DEF Keeps, Take, TypeOK
  <2>4. Watched(d)'
    BY <2>1, <2>2 DEF Watched, Holder
  <2>5. ASSUME program # "single", Watched(c) PROVE Watched(c)'
    <3>1. PICK s \in Used : Holder(s) = c
      BY <2>5 DEF Watched
    <3>2. s # n
      BY <1>5, <2>5 DEF Keeps
    <3>3. slot'[s] = slot[s] /\ s \in Used'
      BY <1>h, <2>1, <3>2
    <3> QED BY <1>3, <1>5, <3>1, <3>3 DEF Keeps, Watched
  <2> QED BY <2>2, <2>3, <2>4, <2>5 DEF Drops
<1>6. ASSUME NEW s \in Used, ReadEnd(s) PROVE ~ Drops(c)
  <2>1. conn[c] # "backlog" \/ conn'[c] # "open"
    BY <1>6, <1>h DEF ReadEnd, TypeOK
  <2>2. ASSUME Watched(c), conn'[c] = "open" PROVE Watched(c)'
    <3>1. PICK t \in Used : Holder(t) = c
      BY <2>2 DEF Watched
    <3>2. t # s
      BY <1>6, <1>h, <2>2, <3>1 DEF ReadEnd, TypeOK
    <3>3. fdtab'[slot[t]] = c
      BY <1>6, <1>h, <3>1, <3>2 DEF ReadEnd, TypeOK, TableInv, Holder
    <3>4. \E u \in Used' : slot'[u] = slot[t]
      <4>1. CASE program = "poll"
        <5> DEFINE last == Cardinality(Used)
        <5>1. /\ last \in Used /\ Used' = 1 .. last - 1
              /\ \A u \in Used' : slot'[u] = IF u = s THEN slot[last] ELSE slot[u]
          BY <1>6, <4>1, RemoveUsed DEF ReadEnd
        <5>2. Used = 1 .. last /\ last \in Nat
          BY <4>1, UsedFinite DEF TableInv
        <5> HIDE DEF last
        <5>3. CASE t = last
          BY <3>2, <5>1, <5>2, <5>3
        <5>4. CASE t # last
          BY <3>2, <5>1, <5>2, <5>4
        <5> QED BY <5>3, <5>4
      <4>2. CASE program # "poll"
        BY <1>6, <3>2, <4>2, RemoveUsed DEF ReadEnd
      <4> QED BY <4>1, <4>2
    <3> QED BY <3>3, <3>4 DEF Watched, Holder
  <2> QED BY <2>1, <2>2 DEF Drops
<1> QED BY <1>1, <1>2, <1>4, <1>5, <1>6, StepCases

\* An accepted client is watched until its connection is closed, but where the
\* table is full or the one-client server's variable is overwritten: no removal
\* of another client drops it.
THEOREM RememberedCorrect == Spec => Remembered
<1>1. Inv /\ [Next]_vars =>
        [\A c \in Clients :
           /\ conn[c] = "backlog" /\ conn'[c] = "open" =>
                Watched(c)' \/ (program = "select" /\ FreeSlots = {})
           /\ Watched(c) /\ conn'[c] = "open" /\ pc' # "exited" =>
                Watched(c)' \/ (program = "single" /\ pc = "accept")]_vars
  BY NothingDropped DEF Drops
<1> QED BY <1>1, InvCorrect, PTL DEF Spec, Remembered

\* SIGPIPE needs a client that had sent a second text, or a reset taken for a
\* length.
THEOREM KilledCorrect == Spec => KilledOnlyBy
<1>1. ASSUME Inv, [Next]_vars, pc # "killed", pc' = "killed"
      PROVE  sent[Holder(i)] >= 2 \/ (program = "select" /\ peer[Holder(i)] = "reset")
  <2>1. Reply
    <3>1. CASE Quiet
      BY <1>1, <3>1 DEF Quiet, Wait, PollError, ReadText, ReadReset, Connect, SendLine,
                        Receive, Leave, vars, server
    <3> QED BY <1>1, <3>1, StepCases DEF Inv, AcceptError, AcceptLeak, Keeps, Take, ReadEnd
  <2>2. pc = "reply" /\ peer[Holder(i)] \in Broken
    BY <1>1, <2>1 DEF Reply
  <2>3. Holder(i) \in Clients
    BY <1>1, <2>2 DEF Inv, ReportInv, TableInv, TypeOK, Used, Holder
  <2>4. Unanswered(Holder(i)) = 1 /\ Lost(Holder(i)) = 1
    BY <2>2 DEF Unanswered, Lost
  <2>5. sent[Holder(i)] \in Nat /\ inbox[Holder(i)] \in Nat
    BY <1>1, <2>3 DEF Inv, TypeOK
  <2> QED BY <1>1, <2>2, <2>3, <2>4, <2>5 DEF Inv, CountInv
<1>2. Inv /\ [Next]_vars =>
        [pc # "killed" /\ pc' = "killed" => LET c == Holder(i) IN
           \/ sent[c] >= 2
           \/ program = "select" /\ peer[c] = "reset"]_vars
  BY <1>1
<1> QED BY <1>2, InvCorrect, PTL DEF Spec, KilledOnlyBy
=============================================================================
