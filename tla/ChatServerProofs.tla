-------------------------- MODULE ChatServerProofs --------------------------
(* TLAPS proofs about the chat room, for any number of clients, slots,     *)
(* descriptors and texts.                                                  *)
EXTENDS ChatServer, NaturalsInduction, WellFoundedInduction,
        SequenceTheorems, FiniteSetTheorems, TLAPS

-----------------------------------------------------------------------------
(* The inductive invariant *)

\* The table: what SlotTable says of it, also when the process is gone, and that
\* no two descriptors are open on one connection.
TableInv ==
  /\ \A s \in Slots : IF fd[s] = 0 THEN username[s] = <<>>
                      ELSE Holder(s) # NoClient /\ conn[Holder(s)] = "open"
  /\ \A s, t \in Slots : fd[s] # 0 /\ fd[s] = fd[t] => s = t
  /\ \A f \in Fds : fdtab[f] # NoClient => conn[fdtab[f]] = "open"
  /\ \A f, g \in Fds : fdtab[f] = fdtab[g] /\ fdtab[f] # NoClient => f = g

\* The set: what is left of it ahead of the scan is true, and accept() returns
\* no descriptor that is in it.
SetInv ==
  /\ pc = "accept" => \A f \in readfds \ {Listener} : fdtab[f] # NoClient
  /\ \A s \in Slots : s >= i /\ fd[s] \in readfds \ {0} => Readable(Holder(s))

\* Who typed what: where no reset is taken for a text, everything that is kept
\* of a client consists of words it has typed, or heard and sent back.
Resets      == {"rst", "reset"}
IsReset(c)  == peer[c] \in Resets
OwnWords(c) == {w \in Pieces : OwnWord(c, w)}

TextInv ==
  \A c \in Clients :
    /\ inbox[c] \in Seq(OwnWords(c)) /\ clibuf[c] \in Seq(OwnWords(c))
    /\ ~ IsReset(c) =>
         /\ \A s \in Slots : fd[s] # 0 /\ Holder(s) = c => username[s] \in Seq(OwnWords(c))
         /\ \A d \in Clients : \A k \in DOMAIN out[d] : out[d][k].of = c =>
              out[d][k].name \in Seq(OwnWords(c)) /\ out[d][k].text \in Seq(OwnWords(c))

\* c has a slot, under this name.
Named(c, name) == \E s \in Slots : fd[s] # 0 /\ Holder(s) = c /\ username[s] = name

\* The phases of a client: it hears nothing but while it is in the room; what has
\* been heard of it under a name is under the name it has, until it has left; and
\* without a name it has only been announced.
PhaseInv ==
  /\ \A c \in Clients : out[c] # <<>> => Present(c)
  /\ \A d \in Clients : \A k \in DOMAIN out[d] :
       LET e == out[d][k]
       IN  /\ e.kind = "leave" => conn[e.of] = "closed"
           /\ e.kind = "welcome" <=> e.of = d
           /\ e.name = <<>> => e.kind \in {"join", "welcome"}
           /\ e.name # <<>> => conn[e.of] = "closed" \/ Named(e.of, e.name)

RoomInv == PhaseInv /\ KeepsName /\ SameConversation

Inv == TypeOK /\ TableInv /\ SetInv /\ TextInv /\ RoomInv

-----------------------------------------------------------------------------
(* Descriptors, slots and texts *)

Below == {p \in Nat \X Nat : p[1] < p[2]}

LEMMA BelowWellFounded == IsWellFoundedOn(Below, Nat)
<1>1. Below = OpToRel(<, Nat)
  BY DEF Below, OpToRel
<1> QED BY <1>1, NatLessThanWellFounded

\* The CHOOSE of LowestFd, FirstFree and FirstLine has something to choose.
LEMMA Least ==
  ASSUME NEW S \in SUBSET Nat, S # {}
  PROVE  \E m \in S : \A n \in S : m <= n
<1>1. PICK x \in S : \A y \in S : ~ (<<y, x>> \in Below)
  BY BelowWellFounded, WFMin
<1>2. ASSUME NEW y \in S PROVE x <= y
  <2>1. x \in Nat /\ y \in Nat /\ <<y, x>> \in Nat \X Nat
    OBVIOUS
  <2>2. ~ (y < x)
    BY <1>1, <2>1 DEF Below
  <2> QED BY <2>1, <2>2
<1> QED BY <1>2

LEMMA LowestIsFree ==
  ASSUME FreeFds # {}
  PROVE  LowestFd \in Fds /\ LowestFd # 0 /\ fdtab[LowestFd] = NoClient
<1>1. FreeFds \in SUBSET Nat
  BY FdsAssumption DEF FreeFds
<1>2. LowestFd \in FreeFds
  BY <1>1, Least DEF LowestFd
<1> QED BY <1>2, FdsAssumption DEF FreeFds

LEMMA FirstIsFree ==
  ASSUME FreeSlots # {}
  PROVE  FirstFree \in Slots /\ fd[FirstFree] = 0
<1>1. FreeSlots \in SUBSET Nat
  BY DEF FreeSlots, Slots
<1>2. FirstFree \in FreeSlots
  BY <1>1, Least DEF FirstFree
<1> QED BY <1>2 DEF FreeSlots

\* The first line of a text is the beginning of it.
LEMMA FirstLineBegins ==
  ASSUME NEW W, NEW text \in Seq(W)
  PROVE  FirstLine(text) \in Seq(W)
<1>1. DOMAIN text = 1 .. Len(text) /\ Len(text) \in Nat
  OBVIOUS
<1>2. CASE Breaks(text) = {}
  BY <1>2 DEF FirstLine
<1>3. CASE Breaks(text) # {}
  <2> DEFINE m == CHOOSE k \in Breaks(text) : \A j \in Breaks(text) : k <= j
  <2>1. Breaks(text) \in SUBSET Nat /\ Breaks(text) \subseteq 1 .. Len(text)
    BY <1>1 DEF Breaks
  <2>2. m \in Breaks(text)
    BY <1>3, <2>1, Least
  <2>3. FirstLine(text) = SubSeq(text, 1, m - 1)
    BY <1>3 DEF FirstLine
  <2> HIDE DEF m
  <2>4. m \in 1 .. Len(text)
    BY <2>1, <2>2
  <2>5. m - 1 \in 0 .. Len(text) /\ \A j \in 1 .. m - 1 : j \in 1 .. Len(text)
    BY <1>1, <2>4
  <2>6. \A j \in 1 .. m - 1 : text[j] \in W
    BY <2>5, ElementOfSeq
  <2> QED BY <1>1, <2>3, <2>5, <2>6, SubSeqProperties
<1> QED BY <1>2, <1>3

-----------------------------------------------------------------------------
(* What a read of a slot sends *)

States == {"up", "fin", "rst", "lost", "reset"}

\* The sends of a handler: each reaches one client's peer at most once, and all
\* do unless SIGPIPE ends the process among them.
Gets(p, ts, d) == p[d] = "up" /\ \E t \in ts : Holder(t) = d

AllSent(p, s, ts, e, w) ==
  LET Heard(d) == Append(out[d], IF d = Holder(s) THEN w ELSE e)
  IN  /\ \A d \in Clients : out'[d] = out[d] \/ (Gets(p, ts, d) /\ out'[d] = Heard(d))
      /\ pc' # "killed" => \A d \in Clients : Gets(p, ts, d) => out'[d] = Heard(d)
      /\ out' = [d \in Clients |-> out'[d]]
      /\ peer' \in [Clients -> States]
      /\ \A d \in Clients :
           peer'[d] = p[d] \/ (p[d] # "up" /\ peer'[d] = Failed(p[d]))
      /\ pc' \in {pc, "killed"}

LEMMA Sends ==
  ASSUME NEW s, NEW ts, NEW p \in [Clients -> States], NEW e, NEW w,
         SendAll(p, s, ts, e, w)
  PROVE  AllSent(p, s, ts, e, w)
<1> DEFINE at(t)   == IF t = s THEN MaxClients + 1 ELSE t
           broken  == {t \in ts : p[Holder(t)] \in Broken}
           reached == {Holder(t) : t \in {u \in ts : \A b \in broken : at(u) < at(b)}}
<1>1. /\ out' = [d \in Clients |->
                   IF d \in reached /\ p[d] = "up"
                   THEN Append(out[d], IF d = Holder(s) THEN w ELSE e)
                   ELSE out[d]]
      /\ peer' = [d \in Clients |->
                    IF d \in reached /\ p[d] # "up" THEN Failed(p[d]) ELSE p[d]]
      /\ pc' = IF broken = {} THEN pc ELSE "killed"
  BY DEF SendAll
<1>2. \A d \in reached : \E t \in ts : Holder(t) = d
  OBVIOUS
<1>3. broken = {} => \A t \in ts : Holder(t) \in reached
  OBVIOUS
<1> HIDE DEF broken, reached
<1>4. peer' \in [Clients -> States]
  BY <1>1 DEF States, Failed
<1>5. \A d \in Clients :
        peer'[d] = p[d] \/ (p[d] # "up" /\ peer'[d] = Failed(p[d]))
  BY <1>1
<1>6. \A d \in reached : p[d] = "up" => Gets(p, ts, d)
  BY <1>2 DEF Gets
<1>7. broken = {} => \A d : Gets(p, ts, d) => d \in reached /\ p[d] = "up"
  BY <1>3 DEF Gets
<1> QED BY <1>1, <1>4, <1>5, <1>6, <1>7 DEF AllSent

\* What any read of slot s does to what the clients have heard: event e to the
\* others in the room, to all of them or to none, unless the process is killed;
\* w to the client itself or nothing.
Tells(s, e, w) ==
  /\ e \in Events /\ e.of = Holder(s) /\ e.kind # "welcome"
  /\ w \in Events /\ w.of = Holder(s) /\ w.kind = "welcome"
  /\ \A d \in Clients \ {Holder(s)} :
       \/ out'[d] = out[d]
       \/ /\ Present(d) /\ (e.kind = "join" \/ username[s] # <<>>)
          /\ out'[d] = Append(out[d], e)
  /\ \/ out'[Holder(s)] = out[Holder(s)]
     \/ /\ Present(Holder(s)) /\ username[s] = <<>>
        /\ out'[Holder(s)] = Append(out[Holder(s)], w)
  /\ pc' # "killed" =>
       \/ \A d \in Clients \ {Holder(s)} : Present(d) => out'[d] = Append(out[d], e)
       \/ /\ e.kind # "join"
          /\ \A d \in Clients \ {Holder(s)} : out'[d] = out[d]
  /\ pc' # "killed" /\ e.kind = "join" /\ Present(Holder(s)) =>
       out'[Holder(s)] = Append(out[Holder(s)], w)

\* And to the connections: one that is up stays up, one that is not does not
\* come up again, and a reset is not forgotten.
Wears(s) ==
  /\ peer' \in [Clients -> States]
  /\ \A d \in Clients : /\ peer'[d] = "up" <=> peer[d] = "up"
                        /\ peer[d] = "reset" => peer'[d] = "reset"
                        /\ IsReset(d) => IsReset(d)'
  /\ pc = "scan" /\ pc' \in {"scan", "killed"}
  /\ out' \in [Clients -> Seq(Events)]

LEMMA HolderType ==
  ASSUME TypeOK, TableInv
  PROVE  /\ \A s \in Slots : fd[s] # 0 =>
              s \in Int /\ fd[s] \in Fds /\ fd[s] > 0 /\ Holder(s) \in Clients
         /\ \A s, t \in Slots : fd[s] # 0 /\ fd[t] # 0 /\ Holder(s) = Holder(t) => s = t
<1>1. ASSUME NEW s \in Slots, fd[s] # 0
      PROVE  s \in Int /\ fd[s] \in Fds /\ fd[s] > 0 /\ Holder(s) \in Clients
  <2>1. fd[s] \in Fds
    BY <1>1 DEF TypeOK
  <2>2. fd[s] \in Nat /\ fd[s] > 0
    <3>1. \A f \in Nat \ {0} : f \in Nat /\ f > 0
      OBVIOUS
    <3> QED BY <2>1, <3>1, FdsAssumption
  <2>3. Holder(s) \in Clients
    BY <1>1, <2>1 DEF TypeOK, TableInv, Holder
  <2>4. s \in Int
    BY DEF Slots
  <2> QED BY <2>1, <2>2, <2>3, <2>4
<1>2. \A s, t \in Slots : fd[s] # 0 /\ fd[t] # 0 /\ Holder(s) = Holder(t) => s = t
  BY <1>1 DEF TableInv, Holder
<1> QED BY <1>1, <1>2

LEMMA SpeakTells ==
  ASSUME TypeOK, TableInv, NEW s \in Slots, Reading(s),
         NEW p \in [Clients -> States],
         \A d \in Clients : p[d] = peer[d] \/ (peer[d] # "up" /\ p[d] = Failed(peer[d])),
         NEW e \in Events, e.of = Holder(s), e.kind # "welcome",
         NEW v, NEW w \in Events, w.of = Holder(s), w.kind = "welcome",
         NEW ts, SendAll(p, s, ts, e, v),
         \/ ts = {} /\ e.kind # "join"
         \/ ts = Others(s) /\ e.kind # "join" /\ username[s] # <<>>
         \/ /\ ts = Others(s) \cup {s} /\ v = w /\ e.kind = "join"
            /\ username[s] = <<>> /\ (peer[Holder(s)] = "up" => p[Holder(s)] = "up")
  PROVE  Tells(s, e, w) /\ Wears(s)
<1> DEFINE c == Holder(s)
<1>h. /\ fd[s] # 0 /\ c \in Clients
      /\ \A t \in Slots : fd[t] # 0 /\ t # s => Holder(t) \in Clients \ {c}
      /\ \A t \in Slots : fd[t] # 0 => fd[t] > 0
  BY HolderType DEF Reading
<1>1. ts \in SUBSET Slots
  BY DEF Others
<1>2. AllSent(p, s, ts, e, v)
  BY Sends
<1>3. \A d \in Clients : Gets(p, ts, d) => Present(d)
  BY <1>1, <1>h DEF Gets, Present, Failed, Others
<1>4. Others(s) \subseteq ts => \A d \in Clients \ {c} : Present(d) => Gets(p, ts, d)
  <2> SUFFICES ASSUME Others(s) \subseteq ts, NEW d \in Clients \ {c}, Present(d)
               PROVE  Gets(p, ts, d)
    OBVIOUS
  <2>1. PICK t \in Slots : fd[t] > 0 /\ Holder(t) = d
    BY DEF Present
  <2>2. t # s /\ fd[t] # fd[s]
    BY <2>1, <1>h DEF Holder
  <2>3. t \in Others(s)
    BY <2>1, <2>2 DEF Others
  <2> QED BY <2>1, <2>3 DEF Present, Gets
<1>5. s \notin Others(s)
  BY DEF Others
<1>6. \A d \in Clients \ {c} : \/ out'[d] = out[d]
                              \/ /\ Present(d) /\ (e.kind = "join" \/ username[s] # <<>>)
                                 /\ out'[d] = Append(out[d], e)
  <2>1. \A d \in Clients \ {c} : out'[d] = out[d] \/ (Gets(p, ts, d) /\ out'[d] = Append(out[d], e))
    BY <1>2 DEF AllSent
  <2>2. \A d \in Clients : Gets(p, ts, d) => e.kind = "join" \/ username[s] # <<>>
    BY DEF Gets
  <2> QED BY <1>3, <2>1, <2>2
<1>7. out'[c] = out[c] \/ (Present(c) /\ username[s] = <<>> /\ out'[c] = Append(out[c], w))
  <2>1. out'[c] = out[c] \/ (Gets(p, ts, c) /\ out'[c] = Append(out[c], v))
    BY <1>2, <1>h DEF AllSent
  <2>2. ASSUME Gets(p, ts, c) PROVE s \in ts
    BY <2>2, <1>h, <1>1 DEF Gets, Others
  <2> QED BY <2>1, <2>2, <1>3, <1>5, <1>h
<1>8. pc' # "killed" =>
        \/ \A d \in Clients \ {c} : Present(d) => out'[d] = Append(out[d], e)
        \/ e.kind # "join" /\ \A d \in Clients \ {c} : out'[d] = out[d]
  <2>1. CASE ts = {} /\ e.kind # "join"
    BY <1>2, <2>1 DEF AllSent, Gets
  <2>2. CASE Others(s) \subseteq ts
    BY <1>2, <1>4, <2>2 DEF AllSent
  <2> QED BY <2>1, <2>2
<1>12. pc' # "killed" /\ e.kind = "join" /\ Present(c) => out'[c] = Append(out[c], w)
  <2> SUFFICES ASSUME pc' # "killed", e.kind = "join", Present(c)
               PROVE  out'[c] = Append(out[c], w)
    OBVIOUS
  <2>1. s \in ts /\ v = w /\ p[c] = "up"
    BY DEF Present
  <2>2. Gets(p, ts, c)
    BY <2>1 DEF Gets
  <2> QED BY <1>2, <1>h, <2>1, <2>2 DEF AllSent
<1>9. Tells(s, e, w)
  BY <1>6, <1>7, <1>8, <1>12 DEF Tells
<1>10. \A d \in Clients : /\ peer'[d] = "up" <=> peer[d] = "up"
                          /\ peer[d] = "reset" => peer'[d] = "reset"
                          /\ IsReset(d) => IsReset(d)'
  BY <1>2 DEF Failed, IsReset, Resets, AllSent
<1>11. out' \in [Clients -> Seq(Events)]
  <2>1. \A d \in Clients : out'[d] \in Seq(Events)
    <3> TAKE d \in Clients
    <3>1. out[d] \in Seq(Events)
      BY DEF TypeOK
    <3>2. Append(out[d], e) \in Seq(Events) /\ Append(out[d], w) \in Seq(Events)
      BY <3>1, AppendProperties
    <3> QED BY <1>6, <1>7, <3>1, <3>2
  <2> QED BY <1>2, <2>1 DEF AllSent
<1> QED BY <1>2, <1>9, <1>10, <1>11 DEF Wears, Reading, AllSent

\* The events of the three reads.
Says(s, e, w) ==
  /\ ReadLeave(s) => e.kind = "leave" /\ e.name = username[s] /\ e.text = <<>>
  /\ ReadName(s)  => /\ e.kind = "join" /\ e.name = FirstLine(Text(s)) /\ e.text = <<>>
                     /\ w.name = FirstLine(Text(s)) /\ w.text = <<>>
  /\ ReadLine(s)  => e.kind = "line" /\ e.name = username[s] /\ e.text = Text(s)

Reads(s) == ReadLeave(s) \/ ReadName(s) \/ ReadLine(s)

LEMMA EventType ==
  ASSUME TypeOK, TableInv, NEW s \in Slots, fd[s] # 0,
         NEW kind \in {"join", "welcome", "line", "leave"},
         NEW name \in Texts, NEW text \in Texts
  PROVE  LET e == Event(kind, s, name, text)
         IN  /\ e \in Events /\ e.kind = kind /\ e.of = Holder(s)
             /\ e.name = name /\ e.text = text
BY HolderType DEF Event, Events

LEMMA TextType ==
  ASSUME TypeOK, TableInv, NEW s \in Slots, fd[s] # 0
  PROVE  /\ Text(s) \in Texts /\ username[s] \in Texts /\ <<>> \in Texts
         /\ FirstLine(Text(s)) \in Texts
<1>1. Text(s) \in Texts /\ username[s] \in Texts /\ <<>> \in Texts
  BY HolderType DEF TypeOK, Text, Texts
<1>2. FirstLine(Text(s)) \in Texts
  BY <1>1, FirstLineBegins DEF Texts
<1> QED BY <1>1, <1>2

\* Which read it is can be told from what it finds.
LEMMA OneRead ==
  ASSUME NEW s \in Slots
  PROVE  /\ ~ (ReadName(s) /\ ReadLine(s))
         /\ ~ (ReadLeave(s) /\ (ReadName(s) \/ ReadLine(s)))
BY DEF ReadName, ReadLine, ReadLeave, Arrived, Broken

LEMMA AfterReadType ==
  ASSUME TypeOK, TableInv, NEW s \in Slots, Reading(s), Arrived(s)
  PROVE  /\ AfterRead(s) \in [Clients -> States]
         /\ \A d \in Clients : \/ AfterRead(s)[d] = peer[d]
                               \/ peer[d] # "up" /\ AfterRead(s)[d] = Failed(peer[d])
         /\ inbox[Holder(s)] = <<>> => AfterRead(s)[Holder(s)] = "reset"
<1>1. Holder(s) \in Clients
  BY HolderType DEF Reading
<1>2. \A q : Failed(q) \in States
  BY DEF Failed, States
<1>3. AfterRead(s) \in [Clients -> States]
  BY <1>2 DEF AfterRead, TypeOK, States
<1>4. \A d \in Clients : \/ AfterRead(s)[d] = peer[d]
                         \/ peer[d] # "up" /\ AfterRead(s)[d] = Failed(peer[d])
  BY <1>1 DEF AfterRead, Arrived, TypeOK
<1>5. inbox[Holder(s)] = <<>> => AfterRead(s)[Holder(s)] = "reset"
  BY <1>1 DEF AfterRead, Arrived, Failed, TypeOK
<1> QED BY <1>3, <1>4, <1>5

LEMMA ReadTells ==
  ASSUME TypeOK, TableInv, NEW s \in Slots, Reads(s)
  PROVE  /\ Wears(s)
         /\ \E e, w : Tells(s, e, w) /\ Says(s, e, w)
<1>r. Reading(s) /\ fd[s] # 0 /\ Holder(s) \in Clients
  BY HolderType DEF Reads, ReadLeave, ReadName, ReadLine, Reading
<1>t. Text(s) \in Texts /\ username[s] \in Texts /\ <<>> \in Texts
  BY <1>r, TextType
<1>f. FirstLine(Text(s)) \in Texts
  BY <1>r, TextType
<1>p. peer \in [Clients -> States]
  BY DEF TypeOK, States
<1>1. CASE ReadLeave(s)
  <2> DEFINE e == Event("leave", s, username[s], <<>>)
             w == Event("welcome", s, <<>>, <<>>)
             ts == IF username[s] = <<>> THEN {} ELSE Others(s)
  <2>1. /\ e \in Events /\ e.of = Holder(s) /\ e.kind = "leave"
        /\ e.name = username[s] /\ e.text = <<>>
    BY <1>r, <1>t, EventType
  <2>2. w \in Events /\ w.of = Holder(s) /\ w.kind = "welcome"
    BY <1>r, <1>t, EventType
  <2>3. SendAll(peer, s, ts, e, <<>>)
    BY <1>1 DEF ReadLeave
  <2>4. ts = {} \/ (ts = Others(s) /\ username[s] # <<>>)
    OBVIOUS
  <2> HIDE DEF e, w, ts
  <2>5. e.kind # "welcome" /\ e.kind # "join"
    BY <2>1
  <2>6. Tells(s, e, w) /\ Wears(s)
    BY <1>r, <1>p, <2>1, <2>2, <2>3, <2>4, <2>5, SpeakTells
  <2> QED BY <1>1, <2>1, <2>6, OneRead DEF Says
<1>2. CASE ReadName(s)
  <2> DEFINE e == Event("join", s, FirstLine(Text(s)), <<>>)
             w == Event("welcome", s, FirstLine(Text(s)), <<>>)
             ts == Others(s) \cup {s}
  <2>1. /\ e \in Events /\ e.of = Holder(s) /\ e.kind = "join"
        /\ e.name = FirstLine(Text(s)) /\ e.text = <<>>
    BY <1>r, <1>t, <1>f, EventType
  <2>2. /\ w \in Events /\ w.of = Holder(s) /\ w.kind = "welcome"
        /\ w.name = FirstLine(Text(s)) /\ w.text = <<>>
    BY <1>r, <1>t, <1>f, EventType
  <2>3. SendAll(AfterRead(s), s, ts, e, w) /\ Arrived(s) /\ username[s] = <<>>
    BY <1>2 DEF ReadName
  <2>4. ts = Others(s) \cup {s}
    OBVIOUS
  <2> HIDE DEF e, w, ts
  <2>5. e.kind # "welcome"
    BY <2>1
  <2>6. Tells(s, e, w) /\ Wears(s)
    <3>1. /\ AfterRead(s) \in [Clients -> States]
          /\ \A d \in Clients : \/ AfterRead(s)[d] = peer[d]
                                \/ peer[d] # "up" /\ AfterRead(s)[d] = Failed(peer[d])
      BY <1>r, <2>3, AfterReadType
    <3>2. peer[Holder(s)] = "up" => AfterRead(s)[Holder(s)] = "up"
      BY <1>r, <3>1
    <3> QED BY <1>r, <2>1, <2>2, <2>3, <2>4, <2>5, <3>1, <3>2, SpeakTells
  <2> QED BY <1>2, <2>1, <2>2, <2>6, OneRead DEF Says
<1>3. CASE ReadLine(s)
  <2> DEFINE e == Event("line", s, username[s], Text(s))
             w == Event("welcome", s, <<>>, <<>>)
             ts == Others(s)
  <2>1. /\ e \in Events /\ e.of = Holder(s) /\ e.kind = "line"
        /\ e.name = username[s] /\ e.text = Text(s)
    BY <1>r, <1>t, EventType
  <2>2. w \in Events /\ w.of = Holder(s) /\ w.kind = "welcome"
    BY <1>r, <1>t, EventType
  <2>3. SendAll(AfterRead(s), s, ts, e, <<>>) /\ Arrived(s) /\ username[s] # <<>>
    BY <1>3 DEF ReadLine
  <2>4. ts = Others(s)
    OBVIOUS
  <2> HIDE DEF e, w, ts
  <2>5. e.kind # "welcome" /\ e.kind # "join"
    BY <2>1
  <2>6. Tells(s, e, w) /\ Wears(s)
    BY <1>r, AfterReadType, <2>1, <2>2, <2>3, <2>4, <2>5, SpeakTells
  <2> QED BY <1>3, <2>1, <2>6, OneRead DEF Says
<1> QED BY <1>1, <1>2, <1>3 DEF Reads

-----------------------------------------------------------------------------
(* The table *)

\* What the reads leave alone, and what they free.
LEMMA ReadTable ==
  ASSUME TypeOK, TableInv, NEW s \in Slots, Reads(s)
  PROVE  /\ i' = s + 1 /\ fd[s] # 0 /\ Holder(s) \in Clients
         /\ UNCHANGED <<readfds, users>>
         /\ \A t \in Slots \ {s} : fd'[t] = fd[t] /\ username'[t] = username[t]
         /\ \A f \in Fds \ {fd[s]} : fdtab'[f] = fdtab[f]
         /\ \A c \in Clients \ {Holder(s)} : conn'[c] = conn[c] /\ inbox'[c] = inbox[c]
         /\ \/ /\ ReadLeave(s) /\ fd'[s] = 0 /\ username'[s] = <<>>
               /\ fdtab'[fd[s]] = NoClient /\ conn'[Holder(s)] = "closed"
               /\ peer[Holder(s)] # "up" /\ UNCHANGED inbox
            \/ /\ ReadName(s) \/ ReadLine(s)
               /\ UNCHANGED <<fd, fdtab, conn>> /\ inbox'[Holder(s)] = <<>>
<1>1. Reading(s) /\ fd[s] \in Fds /\ fd[s] # 0 /\ Holder(s) \in Clients
  BY HolderType DEF Reads, ReadLeave, ReadName, ReadLine, Reading
<1>2. CASE ReadLeave(s)
  BY <1>1, <1>2 DEF ReadLeave, TypeOK, Broken
<1>3. CASE ReadName(s)
  BY <1>1, <1>3 DEF ReadName, TypeOK
<1>4. CASE ReadLine(s)
  BY <1>1, <1>4 DEF ReadLine, TypeOK, table
<1> QED BY <1>2, <1>3, <1>4 DEF Reads

\* The new connection has a new descriptor, and a slot of its own or none.
LEMMA AcceptTable ==
  ASSUME TypeOK, TableInv, NEW c \in Clients, AcceptSlot(c) \/ AcceptLeak(c)
  PROVE  /\ conn[c] = "backlog" /\ conn' = [conn EXCEPT ![c] = "open"]
         /\ LowestFd \in Fds /\ LowestFd # 0 /\ fdtab[LowestFd] = NoClient
         /\ fdtab' = [fdtab EXCEPT ![LowestFd] = c]
         /\ pc = "accept" /\ pc' = "scan"
         /\ UNCHANGED <<i, readfds, buffer, peer, inbox, users, out>>
         /\ \/ UNCHANGED table
            \/ \E s \in Slots : /\ fd[s] = 0 /\ fd' = [fd EXCEPT ![s] = LowestFd]
                                /\ username' = [username EXCEPT ![s] = <<>>]
<1>1. CASE AcceptSlot(c)
  BY <1>1, LowestIsFree, FirstIsFree DEF AcceptSlot, Backlog
<1>2. CASE AcceptLeak(c)
  BY <1>2, LowestIsFree DEF AcceptLeak, Backlog
<1> QED BY <1>1, <1>2

UserStep(c) ==
  \/ Connect(c) \/ EnterName(c) \/ SendLine(c) \/ SendAgain(c)
  \/ \E how \in Departures : Leave(c, how)

LEMMA StepCases ==
  ASSUME [Next]_vars
  PROVE  \/ Select \/ AcceptExit \/ UNCHANGED vars
         \/ \E c \in Clients : AcceptSlot(c) \/ AcceptLeak(c) \/ UserStep(c)
         \/ \E s \in Slots : Reads(s)
BY DEF Next, Server, UserStep, Reads

-----------------------------------------------------------------------------
(* What a client sends *)

\* A join of texts of some words is a text of these words.
LEMMA Joining ==
  ASSUME NEW W, Notice \in W, NewLine \in W, NEW h, NEW n \in Nat, NEW k \in 1 .. n,
         \A j \in k .. n : h[j].name \in Seq(W) /\ h[j].text \in Seq(W)
  PROVE  Joined(h, k, n) \in Seq(W)
<1>1. \A j \in k .. n : Rendered(h[j]) \in Seq(W)
  <2> TAKE j \in k .. n
  <2>1. <<Notice, NewLine>> \in Seq(W)
    OBVIOUS
  <2>2. (IF h[j].kind = "line" THEN h[j].text ELSE <<Notice, NewLine>>) \in Seq(W)
    BY <2>1
  <2> QED BY <2>2, ConcatProperties DEF Rendered
<1>2. ASSUME NEW v \in Seq(W), NEW j \in k .. n PROVE v \o Rendered(h[j]) \in Seq(W)
  BY <1>1, <1>2, ConcatProperties
<1> DEFINE Next1(g, j) == IF j < k THEN <<>> ELSE g[j - 1] \o Rendered(h[j])
           Upto(g, m)  == g \in [k - 1 .. m -> Seq(W)] /\ \A j \in k - 1 .. m : g[j] = Next1(g, j)
           Bad         == {m \in k - 1 .. n : ~ \E g : Upto(g, m)}
           text[j \in k - 1 .. n] == IF j < k THEN <<>> ELSE text[j - 1] \o Rendered(h[j])
<1>3. Bad = {}
  <2> SUFFICES ASSUME Bad # {} PROVE FALSE
    OBVIOUS
  <2>1. Bad \in SUBSET Nat
    OBVIOUS
  <2> HIDE DEF Bad
  <2>2. PICK m \in Bad : \A b \in Bad : m <= b
    BY <2>1, Least
  <2>3. m \in k - 1 .. n /\ ~ \E g : Upto(g, m)
    BY <2>2 DEF Bad
  <2>4. CASE m = k - 1
    <3> DEFINE g == [j \in k - 1 .. m |-> <<>>]
    <3>1. \A j \in k - 1 .. m : j < k
      BY <2>4
    <3>3. <<>> \in Seq(W)
      OBVIOUS
    <3>4. g \in [k - 1 .. m -> Seq(W)] /\ \A j \in k - 1 .. m : g[j] = <<>>
      BY <3>3
    <3> HIDE DEF g
    <3>2. Upto(g, m)
      BY <3>1, <3>4
    <3> QED BY <2>3, <3>2
  <2>5. CASE m # k - 1
    <3>1. m \in k .. n /\ m - 1 \in k - 1 .. n /\ m - 1 < m
      BY <2>3, <2>5
    <3>2. m - 1 \notin Bad
      BY <2>1, <2>2, <3>1
    <3>3. PICK g : Upto(g, m - 1)
      BY <3>1, <3>2 DEF Bad
    <3> DEFINE f == [j \in k - 1 .. m |-> IF j = m THEN g[m - 1] \o Rendered(h[m]) ELSE g[j]]
    <3>4. g[m - 1] \o Rendered(h[m]) \in Seq(W)
      BY <1>2, <3>1, <3>3
    <3>5. \A j \in k - 1 .. m : j # m => j \in k - 1 .. m - 1
      BY <3>1
    <3>6. f \in [k - 1 .. m -> Seq(W)]
      BY <3>3, <3>4, <3>5
    <3>7. \A j \in k - 1 .. m : f[j] = Next1(f, j)
      <4> TAKE j \in k - 1 .. m
      <4>1. CASE j = m
        <5>1. m \in k - 1 .. m /\ m - 1 \in k - 1 .. m /\ m - 1 # m /\ ~ (m < k)
          BY <3>1
        <5>2. f[m - 1] = g[m - 1]
          BY <5>1
        <5>3. f[m] = g[m - 1] \o Rendered(h[m])
          BY <5>1
        <5> HIDE DEF f
        <5> QED BY <4>1, <5>1, <5>2, <5>3
      <4>2. CASE j # m
        <5>1. j \in k - 1 .. m - 1 /\ f[j] = g[j] /\ g[j] = Next1(g, j)
          BY <3>3, <3>5, <4>2
        <5>2. j >= k => j - 1 \in k - 1 .. m /\ j - 1 # m
          BY <3>1, <5>1
        <5>3. j >= k => f[j - 1] = g[j - 1]
          BY <5>2
        <5> HIDE DEF f
        <5>4. j < k \/ j >= k
          BY <3>1
        <5> QED BY <5>1, <5>3, <5>4
      <4> QED BY <4>1, <4>2
    <3> HIDE DEF f
    <3> QED BY <2>3, <3>6, <3>7
  <2> QED BY <2>4, <2>5
<1>4. n \in k - 1 .. n
  OBVIOUS
<1>5. PICK g : Upto(g, n)
  BY <1>3, <1>4
<1>6. g = [j \in k - 1 .. n |-> IF j < k THEN <<>> ELSE g[j - 1] \o Rendered(h[j])]
  BY <1>5
<1>7. text = [j \in k - 1 .. n |-> IF j < k THEN <<>> ELSE text[j - 1] \o Rendered(h[j])]
  BY <1>6
<1>8. Joined(h, k, n) = text[n]
  BY DEF Joined
<1> HIDE DEF text
<1> DEFINE Wrong == {j \in k - 1 .. n : text[j] \notin Seq(W)}
<1>9. Wrong = {}
  <2> SUFFICES ASSUME Wrong # {} PROVE FALSE
    OBVIOUS
  <2>1. Wrong \in SUBSET Nat
    OBVIOUS
  <2> HIDE DEF Wrong
  <2>2. PICK m \in Wrong : \A b \in Wrong : m <= b
    BY <2>1, Least
  <2>3. m \in k - 1 .. n /\ text[m] \notin Seq(W)
    BY <2>2 DEF Wrong
  <2>4. CASE m < k
    BY <1>7, <2>3, <2>4
  <2>5. CASE ~ (m < k)
    <3>1. m \in k .. n /\ m - 1 \in k - 1 .. n /\ m - 1 < m
      BY <2>3, <2>5
    <3>2. text[m - 1] \in Seq(W)
      BY <2>1, <2>2, <3>1 DEF Wrong
    <3>3. text[m] = text[m - 1] \o Rendered(h[m])
      BY <1>7, <2>3, <2>5
    <3> QED BY <1>2, <2>3, <3>1, <3>2, <3>3
  <2> QED BY <2>4, <2>5
<1> QED BY <1>4, <1>8, <1>9

LEMMA HeardType ==
  ASSUME TypeOK
  PROVE  \A d \in Clients : \A k \in DOMAIN out[d] : out[d][k] \in Events
<1> TAKE d \in Clients
<1>1. out[d] \in Seq(Events)
  BY DEF TypeOK
<1> QED BY <1>1, ElementOfSeq, LenProperties

\* Words a client can have typed, and words it has been sent.
TypedWords(c) == {w \in Pieces : w[1] \in {c, NoClient}}
ToldWords(c)  == {w \in Pieces : w[1] = NoClient \/ WasSent(c, w)}

LEMMA OwnPieces ==
  /\ NewLine \in Pieces /\ Notice \in Pieces /\ Junk \in Pieces
  /\ \A c \in Clients, k \in 0 .. MaxTexts : <<c, k>> \in TypedWords(c)
  /\ \A c \in Clients : NewLine \in TypedWords(c) /\ Junk \in TypedWords(c)
  /\ \A c \in Clients : NewLine \in ToldWords(c) /\ Notice \in ToldWords(c)
<1>1. NewLine \in Pieces /\ Notice \in Pieces /\ Junk \in Pieces
  BY DEF Pieces
<1>2. NewLine[1] = NoClient /\ Notice[1] = NoClient /\ Junk[1] = NoClient
  BY DEF NewLine, Notice, Junk
<1>3. \A c \in Clients, k \in 0 .. MaxTexts : <<c, k>> \in Pieces /\ <<c, k>>[1] = c
  BY DEF Pieces
<1> QED BY <1>1, <1>2, <1>3 DEF TypedWords, ToldWords

\* The name and the text of an event that a client has been sent.
LEMMA EventWords ==
  ASSUME TypeOK, NEW c \in Clients, NEW k \in DOMAIN out[c]
  PROVE  out[c][k].name \in Seq(ToldWords(c)) /\ out[c][k].text \in Seq(ToldWords(c))
<1> DEFINE name == out[c][k].name
           text == out[c][k].text
<1>1. name \in Seq(Pieces) /\ text \in Seq(Pieces)
  BY HeardType DEF Events, Texts
<1>2. Told(out[c][k]) = name \o text
  BY DEF Told
<1> HIDE DEF name, text
<1>3. /\ DOMAIN (name \o text) = 1 .. Len(name) + Len(text)
      /\ \A j \in 1 .. Len(name) + Len(text) : (name \o text)[j] =
           IF j <= Len(name) THEN name[j] ELSE text[j - Len(name)]
  BY <1>1, ConcatProperties, LenProperties
<1>4. Len(name) \in Nat /\ Len(text) \in Nat
  BY <1>1
<1>5. \A j \in 1 .. Len(name) + Len(text) : WasSent(c, (name \o text)[j])
  BY <1>2, <1>3 DEF WasSent
<1>6. \A j \in 1 .. Len(name) : name[j] \in ToldWords(c)
  <2> TAKE j \in 1 .. Len(name)
  <2>1. j \in 1 .. Len(name) + Len(text) /\ j <= Len(name)
    BY <1>4
  <2>2. (name \o text)[j] = name[j] /\ name[j] \in Pieces
    BY <1>1, <1>3, <2>1, ElementOfSeq
  <2>3. WasSent(c, name[j])
    BY <1>5, <2>1, <2>2
  <2> QED BY <2>2, <2>3 DEF ToldWords
<1>7. \A j \in 1 .. Len(text) : text[j] \in ToldWords(c)
  <2> TAKE j \in 1 .. Len(text)
  <2>1. /\ j + Len(name) \in 1 .. Len(name) + Len(text) /\ ~ (j + Len(name) <= Len(name))
        /\ j + Len(name) - Len(name) = j
    BY <1>4
  <2>2. (name \o text)[j + Len(name)] = text[j] /\ text[j] \in Pieces
    BY <1>1, <1>3, <2>1, ElementOfSeq
  <2>3. WasSent(c, text[j])
    BY <1>5, <2>1, <2>2
  <2> QED BY <2>2, <2>3 DEF ToldWords
<1>8. name \in Seq(ToldWords(c)) /\ text \in Seq(ToldWords(c))
  BY <1>1, <1>6, <1>7, SeqDef
<1> QED BY <1>8 DEF name, text

Writes(c) == EnterName(c) \/ SendLine(c) \/ SendAgain(c)

\* A client sends what it has typed, what is in its buffer, or, when its input
\* has ended, what it has been sent.
LEMMA Writing ==
  ASSUME TypeOK, NEW c \in Clients, Writes(c)
  PROVE  \E text \in Texts, u \in {"lines", "last", "end"} :
           /\ SendText(c, text, u)
           /\ Ended(c) => u = "end"
           /\ \/ text \in Seq(TypedWords(c)) \/ text = clibuf[c]
              \/ u = "end" /\ text \in Seq(ToldWords(c))
           /\ heard' \in [Clients -> Nat] /\ said' \in 0 .. MaxTexts
<1>0. said \in 0 .. MaxTexts /\ 0 \in 0 .. MaxTexts /\ (SayNext => said' \in 0 .. MaxTexts)
  BY MaxTextsAssumption DEF TypeOK, SayNext
<1>1. \A text : text \in Seq(TypedWords(c)) => text \in Texts
  BY SeqMonotonic DEF TypedWords, Texts
<1>5. /\ \A W, x, y : x \in W /\ y \in W => <<x, y>> \in Seq(W)
      /\ \A W, x : x \in W => <<x>> \in Seq(W)
      /\ \A W : <<>> \in Seq(W)
  OBVIOUS
<1>2. CASE EnterName(c)
  <2>1. /\ ~ Ended(c) /\ heard' = heard
        /\ \E text \in {<<<<c, 0>>>>, <<>>, <<Junk>>}, u \in {"lines", "end"} : SendText(c, text, u)
        /\ said' = said \/ SayNext
    BY <1>2 DEF EnterName, Ended
  <2>2. \A text \in {<<<<c, 0>>>>, <<>>, <<Junk>>} : text \in Seq(TypedWords(c))
    <3>1. <<c, 0>> \in TypedWords(c) /\ Junk \in TypedWords(c)
      BY <1>0, OwnPieces
    <3> QED BY <1>5, <3>1
  <2> QED BY <1>0, <1>1, <2>1, <2>2 DEF TypeOK
<1>3. CASE SendLine(c)
  <2>1. /\ ~ Ended(c) /\ heard' = heard /\ SayNext
        /\ \E text \in {<<<<c, said'>>, NewLine>>, <<NewLine>>, <<<<c, said'>>>>}, u \in {"lines", "last"} :
             SendText(c, text, u)
    BY <1>3 DEF SendLine, Ended
  <2>2. \A text \in {<<<<c, said'>>, NewLine>>, <<NewLine>>, <<<<c, said'>>>>} : text \in Seq(TypedWords(c))
    <3>1. <<c, said'>> \in TypedWords(c) /\ NewLine \in TypedWords(c)
      BY <1>0, <2>1, OwnPieces
    <3> DEFINE x == <<c, said'>>
    <3> HIDE DEF x
    <3>2. x \in TypedWords(c)
      BY <3>1 DEF x
    <3>3. <<x, NewLine>> \in Seq(TypedWords(c)) /\ <<x>> \in Seq(TypedWords(c))
          /\ <<NewLine>> \in Seq(TypedWords(c))
      BY <1>5, <3>1, <3>2
    <3> QED BY <3>3 DEF x
  <2> QED BY <1>0, <1>1, <2>1, <2>2 DEF TypeOK
<1>4. CASE SendAgain(c)
  <2>1. SayNext
    BY <1>4 DEF SendAgain
  <2>2. CASE SendText(c, clibuf[c], "end") /\ UNCHANGED heard
    BY <1>0, <2>1, <2>2 DEF TypeOK
  <2>3. ASSUME NEW n \in heard[c] + 1 .. Len(out[c]), NEW k \in heard[c] + 1 .. n,
               SendText(c, Joined(out[c], k, n), "end"), heard' = [heard EXCEPT ![c] = n]
        PROVE  \E text \in Texts, u \in {"lines", "last", "end"} :
                 /\ SendText(c, text, u)
                 /\ Ended(c) => u = "end"
                 /\ \/ text \in Seq(TypedWords(c)) \/ text = clibuf[c]
                    \/ u = "end" /\ text \in Seq(ToldWords(c))
                 /\ heard' \in [Clients -> Nat] /\ said' \in 0 .. MaxTexts
    <3>1. heard[c] \in Nat /\ out[c] \in Seq(Events) /\ Len(out[c]) \in Nat
      BY DEF TypeOK
    <3>2. n \in Nat /\ k \in 1 .. n /\ \A j \in k .. n : j \in DOMAIN out[c]
      BY <3>1
    <3>3. Joined(out[c], k, n) \in Seq(ToldWords(c))
      BY <3>2, EventWords, OwnPieces, Joining
    <3>4. Joined(out[c], k, n) \in Texts
      BY <3>3, SeqMonotonic DEF ToldWords, Texts
    <3>5. heard' \in [Clients -> Nat]
      BY <2>3, <3>2 DEF TypeOK
    <3> QED BY <1>0, <2>1, <2>3, <3>3, <3>4, <3>5
  <2> QED BY <1>4, <2>2, <2>3 DEF SendAgain
<1> QED BY <1>2, <1>3, <1>4 DEF Writes

\* The user's end of a connection.
LEMMA UserNet ==
  ASSUME TypeOK, NEW c \in Clients, UserStep(c)
  PROVE  /\ UNCHANGED <<pc, i, readfds, fd, username, buffer, fdtab>>
         /\ \A d \in Clients \ {c} : /\ inbox'[d] = inbox[d] /\ peer'[d] = peer[d]
                                     /\ out'[d] = out[d] /\ user'[d] = user[d]
                                     /\ clibuf'[d] = clibuf[d]
         /\ \/ Connect(c) /\ UNCHANGED <<inbox, peer, out, users>>
            \/ /\ Writes(c) /\ peer[c] = "up" /\ UNCHANGED <<conn, peer, out>>
               /\ clibuf'[c] \in Texts /\ inbox'[c] = inbox[c] \o clibuf'[c]
            \/ /\ peer[c] = "up" /\ peer'[c] \in {"fin", "rst"}
               /\ out'[c] = <<>> /\ clibuf'[c] = <<>>
               /\ UNCHANGED <<conn, inbox, user>>
<1>1. CASE Connect(c)
  BY <1>1 DEF Connect, users, table
<1>2. CASE Writes(c)
  <2>1. PICK text \in Texts, u \in {"lines", "last", "end"} : SendText(c, text, u)
    BY <1>2, Writing
  <2>2. inbox'[c] = inbox[c] \o text /\ clibuf'[c] = text
    BY <2>1 DEF SendText, TypeOK
  <2>3. /\ UNCHANGED <<pc, i, readfds, fd, username, buffer, fdtab, conn, peer, out>>
        /\ peer[c] = "up"
        /\ \A d \in Clients \ {c} : /\ inbox'[d] = inbox[d] /\ user'[d] = user[d]
                                    /\ clibuf'[d] = clibuf[d]
    BY <2>1 DEF SendText, Connected, TypeOK, table
  <2> QED BY <1>2, <2>1, <2>2, <2>3
<1>3. ASSUME NEW how \in Departures, Leave(c, how)
      PROVE  /\ UNCHANGED <<pc, i, readfds, fd, username, buffer, fdtab, conn, inbox, user>>
             /\ \A d \in Clients \ {c} : /\ peer'[d] = peer[d] /\ out'[d] = out[d]
                                         /\ clibuf'[d] = clibuf[d]
             /\ peer[c] = "up" /\ peer'[c] \in {"fin", "rst"}
             /\ out'[c] = <<>> /\ clibuf'[c] = <<>>
  BY <1>3, DeparturesAssumption DEF Leave, Connected, TypeOK, table
<1> QED BY <1>1, <1>2, <1>3 DEF UserStep, Writes

-----------------------------------------------------------------------------
(* Types *)

\* The steps that leave the table alone.
Quiet == Select \/ AcceptExit \/ UNCHANGED vars \/ \E c \in Clients : UserStep(c)

LEMMA QuietTable ==
  ASSUME TypeOK, Quiet
  PROVE  /\ UNCHANGED <<fd, username, fdtab>>
         /\ \A c \in Clients : conn[c] = "open" <=> conn'[c] = "open"
         /\ \A c \in Clients : conn[c] = "closed" <=> conn'[c] = "closed"
<1>1. CASE Select \/ AcceptExit \/ UNCHANGED vars
  BY <1>1 DEF Select, AcceptExit, vars, table
<1>2. ASSUME NEW c \in Clients, UserStep(c)
      PROVE  /\ UNCHANGED <<fd, username, fdtab>>
             /\ \A d \in Clients : conn[d] = "open" <=> conn'[d] = "open"
             /\ \A d \in Clients : conn[d] = "closed" <=> conn'[d] = "closed"
  <2>1. UNCHANGED <<fd, username, fdtab>> /\ (Connect(c) \/ UNCHANGED conn)
    BY <1>2, UserNet
  <2>2. CASE Connect(c)
    BY <2>1, <2>2 DEF Connect, TypeOK
  <2> QED BY <2>1, <2>2
<1> QED BY <1>1, <1>2 DEF Quiet

LEMMA InitInv == Init => Inv
<1> SUFFICES ASSUME Init PROVE Inv
  OBVIOUS
<1>0. <<>> \in Texts /\ <<Junk>> \in Texts
  BY OwnPieces DEF Texts
<1>1. TypeOK
  <2>1. i \in 1 .. MaxClients + 1 /\ said \in 0 .. MaxTexts
    BY MaxClientsAssumption, MaxTextsAssumption DEF Init
  <2>2. buffer \in Texts /\ username \in [Slots -> Texts]
    BY <1>0 DEF Init
  <2>3. inbox \in [Clients -> Texts] /\ clibuf \in [Clients -> Texts]
    BY <1>0 DEF Init
  <2>4. out \in [Clients -> Seq(Events)] /\ heard \in [Clients -> Nat]
    BY DEF Init
  <2> QED BY <2>1, <2>2, <2>3, <2>4 DEF Init, TypeOK
<1>2. TableInv /\ SetInv
  BY DEF Init, TableInv, SetInv
<1>3. \A c \in Clients : out[c] = <<>> /\ DOMAIN out[c] = {} /\ inbox[c] = <<>> /\ clibuf[c] = <<>>
  BY DEF Init
<1>4. TextInv
  <2>1. \A c \in Clients : inbox[c] \in Seq(OwnWords(c)) /\ clibuf[c] \in Seq(OwnWords(c))
    <3>1. \A W : <<>> \in Seq(W)
      OBVIOUS
    <3> QED BY <1>3, <3>1
  <2>2. \A s \in Slots : fd[s] = 0
    BY DEF Init
  <2> QED BY <1>3, <2>1, <2>2 DEF TextInv
<1>5. RoomInv
  BY <1>3 DEF RoomInv, PhaseInv, KeepsName, SameConversation, Announced
<1> QED BY <1>1, <1>2, <1>4, <1>5 DEF Inv

LEMMA TypeStep == TypeOK /\ TableInv /\ [Next]_vars => TypeOK'
<1> SUFFICES ASSUME TypeOK, TableInv, [Next]_vars PROVE TypeOK'
  OBVIOUS
<1>1. CASE Select
  <2>1. Ready \subseteq Fds \cup {Listener}
    BY DEF Ready
  <2>2. 1 \in 1 .. MaxClients + 1
    BY MaxClientsAssumption
  <2> QED BY <1>1, <2>1, <2>2 DEF Select, TypeOK, table, users
<1>2. CASE AcceptExit \/ UNCHANGED vars
  BY <1>2 DEF AcceptExit, vars, TypeOK, table, users
<1>3. ASSUME NEW c \in Clients, AcceptSlot(c) \/ AcceptLeak(c) PROVE TypeOK'
  <2>1. /\ fd' \in [Slots -> Fds \cup {0}] /\ username' \in [Slots -> Texts]
        /\ fdtab' \in [Fds -> Clients \cup {NoClient}]
        /\ conn' \in [Clients -> {"idle", "backlog", "open", "closed"}]
    <3>1. /\ conn' = [conn EXCEPT ![c] = "open"]
          /\ LowestFd \in Fds /\ fdtab' = [fdtab EXCEPT ![LowestFd] = c]
          /\ \/ UNCHANGED <<fd, username>>
             \/ \E s \in Slots : /\ fd' = [fd EXCEPT ![s] = LowestFd]
                                 /\ username' = [username EXCEPT ![s] = <<>>]
      BY <1>3, AcceptTable DEF table
    <3>2. <<>> \in Texts
      BY DEF Texts
    <3>3. fd' \in [Slots -> Fds \cup {0}]
      BY <3>1 DEF TypeOK
    <3>4. username' \in [Slots -> Texts]
      BY <3>1, <3>2 DEF TypeOK
    <3>5. fdtab' \in [Fds -> Clients \cup {NoClient}]
      BY <3>1 DEF TypeOK
    <3>6. conn' \in [Clients -> {"idle", "backlog", "open", "closed"}]
      BY <3>1 DEF TypeOK
    <3> QED BY <3>3, <3>4, <3>5, <3>6
  <2> QED BY <1>3, <2>1, AcceptTable DEF TypeOK, users
<1>4. ASSUME NEW s \in Slots, Reads(s) PROVE TypeOK'
  <2>1. peer' \in [Clients -> States] /\ pc' \in {"scan", "killed"} /\ out' \in [Clients -> Seq(Events)]
    BY <1>4, ReadTells DEF Wears
  <2>2. i' \in 1 .. MaxClients + 1
    BY <1>4, ReadTable, MaxClientsAssumption DEF Slots
  <2>3. fd[s] # 0 /\ Holder(s) \in Clients /\ fd[s] \in Fds
    BY <1>4, ReadTable, HolderType
  <2>4. Text(s) \in Texts /\ FirstLine(Text(s)) \in Texts /\ <<>> \in Texts
    BY <2>3, TextType
  <2>6. CASE ReadLeave(s)
    <3>1. /\ fd' \in [Slots -> Fds \cup {0}] /\ username' \in [Slots -> Texts]
          /\ fdtab' \in [Fds -> Clients \cup {NoClient}]
          /\ conn' \in [Clients -> {"idle", "backlog", "open", "closed"}]
      BY <2>3, <2>4, <2>6 DEF ReadLeave, TypeOK
    <3> QED BY <2>1, <2>2, <2>6, <3>1 DEF ReadLeave, TypeOK, States, users
  <2>7. CASE ReadName(s)
    <3>1. username' \in [Slots -> Texts] /\ buffer' \in Texts /\ inbox' \in [Clients -> Texts]
      BY <2>3, <2>4, <2>7 DEF ReadName, TypeOK
    <3> QED BY <2>1, <2>2, <2>7, <3>1 DEF ReadName, TypeOK, States, users
  <2>8. CASE ReadLine(s)
    <3>1. buffer' \in Texts /\ inbox' \in [Clients -> Texts]
      BY <2>3, <2>4, <2>8 DEF ReadLine, TypeOK
    <3> QED BY <2>1, <2>2, <2>8, <3>1 DEF ReadLine, TypeOK, States, table, users
  <2> QED BY <1>4, <2>6, <2>7, <2>8 DEF Reads
<1>5. ASSUME NEW c \in Clients, Connect(c) PROVE TypeOK'
  BY <1>5 DEF Connect, TypeOK, table, users
<1>7. ASSUME NEW c \in Clients, Writes(c) PROVE TypeOK'
  <2>1. PICK text \in Texts, u \in {"lines", "last", "end"} :
          /\ SendText(c, text, u)
          /\ heard' \in [Clients -> Nat] /\ said' \in 0 .. MaxTexts
    BY <1>7, Writing
  <2>2. inbox[c] \o text \in Texts
    BY ConcatProperties DEF TypeOK, Texts
  <2>3. inbox' \in [Clients -> Texts]
    BY <2>1, <2>2 DEF SendText, TypeOK
  <2>4. clibuf' \in [Clients -> Texts] /\ user' \in [Clients -> {"name", "lines", "last", "end"}]
    BY <2>1 DEF SendText, TypeOK
  <2> QED BY <2>1, <2>3, <2>4 DEF SendText, TypeOK, table
<1>9. ASSUME NEW c \in Clients, NEW how \in Departures, Leave(c, how) PROVE TypeOK'
  <2>1. how \in {"fin", "rst"} /\ <<>> \in Seq(Events) /\ <<>> \in Texts
    BY DeparturesAssumption DEF Texts
  <2>2. out' \in [Clients -> Seq(Events)]
    BY <1>9, <2>1 DEF Leave, TypeOK
  <2>3. peer' \in [Clients -> {"up", "fin", "rst", "lost", "reset"}]
    BY <1>9, <2>1 DEF Leave, TypeOK
  <2>4. heard' \in [Clients -> Nat] /\ clibuf' \in [Clients -> Texts]
    BY <1>9, <2>1 DEF Leave, TypeOK
  <2> QED BY <1>9, <2>2, <2>3, <2>4 DEF Leave, TypeOK, table
<1> QED BY <1>1, <1>2, <1>3, <1>4, <1>5, <1>7, <1>9, StepCases DEF UserStep, Writes

LEMMA TableStep == TypeOK /\ TableInv /\ [Next]_vars => TableInv'
<1> SUFFICES ASSUME TypeOK, TableInv, [Next]_vars PROVE TableInv'
  OBVIOUS
<1>h. \A s \in Slots : fd[s] # 0 => fd[s] \in Fds /\ Holder(s) \in Clients
  BY HolderType
<1>o. \A f \in Fds : fdtab[f] # NoClient => fdtab[f] \in Clients /\ conn[fdtab[f]] = "open"
  BY DEF TypeOK, TableInv
<1>1. CASE Quiet
  <2>1. \A s \in Slots : Holder(s)' = Holder(s)
    BY <1>1, QuietTable DEF Holder
  <2>2. \A f \in Fds : fdtab[f] # NoClient => fdtab[f] \in Clients
    BY DEF TypeOK
  <2> QED BY <1>1, <1>h, <2>1, <2>2, QuietTable DEF TableInv
<1>2. ASSUME NEW c \in Clients, AcceptSlot(c) \/ AcceptLeak(c) PROVE TableInv'
  <2>1. /\ conn[c] = "backlog"
        /\ LowestFd \in Fds /\ LowestFd # 0 /\ fdtab[LowestFd] = NoClient
        /\ conn' = [conn EXCEPT ![c] = "open"] /\ fdtab' = [fdtab EXCEPT ![LowestFd] = c]
    BY <1>2, AcceptTable
  <2>2. \A f \in Fds : fdtab'[f] = IF f = LowestFd THEN c ELSE fdtab[f]
    BY <2>1 DEF TypeOK
  <2>3. \A d \in Clients : conn'[d] = IF d = c THEN "open" ELSE conn[d]
    BY <2>1 DEF TypeOK
  <2>4. \A f \in Fds : fdtab[f] # c
    BY <2>1, ClientsAssumption DEF TableInv
  <2>5. \A f \in Fds : fdtab'[f] # NoClient => conn'[fdtab'[f]] = "open"
    BY <1>o, <2>2, <2>3
  <2>6. \A f, g \in Fds : fdtab'[f] = fdtab'[g] /\ fdtab'[f] # NoClient => f = g
    BY <2>2, <2>4 DEF TableInv
  <2>7. \A s \in Slots : fd[s] # 0 => /\ fd[s] # LowestFd
                                      /\ fdtab'[fd[s]] # NoClient
                                      /\ conn'[fdtab'[fd[s]]] = "open"
    BY <1>h, <2>1, <2>2, <2>5 DEF TableInv, Holder
  <2>8. CASE UNCHANGED table
    <3>1. UNCHANGED <<fd, username>>
      BY <2>8 DEF table
    <3> QED BY <2>5, <2>6, <2>7, <3>1 DEF TableInv, Holder
  <2>9. ASSUME NEW s \in Slots, fd[s] = 0, fd' = [fd EXCEPT ![s] = LowestFd],
               username' = [username EXCEPT ![s] = <<>>]
        PROVE  TableInv'
    <3>1. fd'[s] = LowestFd /\ \A t \in Slots \ {s} : fd'[t] = fd[t] /\ username'[t] = username[t]
      BY <2>9 DEF TypeOK
    <3>2. fdtab'[LowestFd] = c /\ conn'[c] = "open" /\ c # NoClient
      BY <2>1, <2>2, <2>3, ClientsAssumption
    <3>3. \A t \in Slots : IF fd'[t] = 0 THEN username'[t] = <<>>
                           ELSE fdtab'[fd'[t]] # NoClient /\ conn'[fdtab'[fd'[t]]] = "open"
      BY <2>1, <2>7, <3>1, <3>2 DEF TableInv
    <3>4. \A t, u \in Slots : fd'[t] # 0 /\ fd'[t] = fd'[u] => t = u
      BY <2>7, <3>1 DEF TableInv
    <3> QED BY <2>5, <2>6, <3>3, <3>4 DEF TableInv, Holder
  <2> QED BY <1>2, <2>8, <2>9, AcceptTable
<1>3. ASSUME NEW s \in Slots, Reads(s) PROVE TableInv'
  <2>h. fd[s] # 0 /\ fd[s] \in Fds /\ Holder(s) \in Clients
    BY <1>3, <1>h, ReadTable
  <2>t. /\ \A t \in Slots \ {s} : fd'[t] = fd[t] /\ username'[t] = username[t]
        /\ \A f \in Fds \ {fd[s]} : fdtab'[f] = fdtab[f]
        /\ \A c \in Clients \ {Holder(s)} : conn'[c] = conn[c]
    BY <1>3, ReadTable
  <2>1. CASE fd'[s] = 0 /\ username'[s] = <<>> /\ fdtab'[fd[s]] = NoClient
    <3>1. \A f \in Fds : f # fd[s] => fdtab[f] # Holder(s)
      BY <2>h DEF TableInv, Holder
    <3>2. \A f \in Fds : fdtab'[f] # NoClient => conn'[fdtab'[f]] = "open"
      BY <1>o, <2>t, <2>1, <3>1
    <3>3. \A f, g \in Fds : fdtab'[f] = fdtab'[g] /\ fdtab'[f] # NoClient => f = g
      BY <2>t, <2>1 DEF TableInv
    <3>4. \A t \in Slots \ {s} : fd[t] # 0 => fdtab'[fd[t]] = Holder(t) /\ conn'[Holder(t)] = "open"
      BY <1>h, <2>h, <2>t, <3>1 DEF TableInv, Holder
    <3>5. \A t \in Slots : IF fd'[t] = 0 THEN username'[t] = <<>>
                           ELSE fdtab'[fd'[t]] # NoClient /\ conn'[fdtab'[fd'[t]]] = "open"
      BY <2>t, <2>1, <3>4 DEF TableInv
    <3>6. \A t, u \in Slots : fd'[t] # 0 /\ fd'[t] = fd'[u] => t = u
      BY <2>t, <2>1 DEF TableInv
    <3> QED BY <3>2, <3>3, <3>5, <3>6 DEF TableInv, Holder
  <2>2. CASE UNCHANGED <<fd, fdtab, conn>>
    BY <2>h, <2>t, <2>2 DEF TableInv, Holder
  <2> QED BY <1>3, <2>1, <2>2, ReadTable
<1> QED BY <1>1, <1>2, <1>3, StepCases DEF Quiet

-----------------------------------------------------------------------------
(* The set select() left *)

LEMMA SetStep == TypeOK /\ TableInv /\ SetInv /\ [Next]_vars => SetInv'
<1> SUFFICES ASSUME TypeOK, TableInv, SetInv, [Next]_vars PROVE SetInv'
  OBVIOUS
<1>h. \A s \in Slots : fd[s] # 0 => s \in Int /\ fd[s] \in Fds /\ Holder(s) \in Clients
  BY HolderType
<1>1. CASE Select
  <2>1. readfds' = Ready /\ UNCHANGED <<fd, fdtab, peer, inbox>>
    BY <1>1 DEF Select, table
  <2>2. \A f \in Ready \ {0} : Readable(fdtab[f]) /\ \E s \in Slots : fd[s] = f
    BY DEF Ready, Listener
  <2>3. \A f \in Ready \ {0} : fdtab[f] # NoClient
    BY <2>2 DEF TableInv, Holder
  <2> QED BY <2>1, <2>2, <2>3 DEF SetInv, Readable, Holder, Listener
<1>2. CASE AcceptExit \/ UNCHANGED vars
  BY <1>2 DEF AcceptExit, vars, table, SetInv, Holder, Readable
<1>3. ASSUME NEW c \in Clients, AcceptSlot(c) \/ AcceptLeak(c) PROVE SetInv'
  <2>1. /\ LowestFd \in Fds /\ LowestFd # 0 /\ fdtab[LowestFd] = NoClient
        /\ fdtab' = [fdtab EXCEPT ![LowestFd] = c] /\ pc = "accept" /\ pc' = "scan"
        /\ UNCHANGED <<i, readfds, peer, inbox>>
    BY <1>3, AcceptTable
  <2>2. LowestFd \notin readfds
    BY <2>1 DEF SetInv, Listener
  <2>3. \A s \in Slots : fd'[s] # LowestFd => fd'[s] = fd[s]
    BY <1>3, AcceptTable DEF table, TypeOK
  <2>4. ASSUME NEW s \in Slots, s >= i, fd'[s] \in readfds \ {0} PROVE Readable(Holder(s))'
    <3>1. fd'[s] = fd[s] /\ fd[s] # 0 /\ fd[s] # LowestFd
      BY <2>2, <2>3, <2>4
    <3>2. Holder(s)' = Holder(s)
      BY <1>h, <2>1, <3>1 DEF Holder, TypeOK
    <3>3. Readable(Holder(s))
      BY <2>4, <3>1 DEF SetInv
    <3> QED BY <2>1, <3>2, <3>3 DEF Readable
  <2> QED BY <2>1, <2>4 DEF SetInv
<1>4. ASSUME NEW s \in Slots, Reads(s) PROVE SetInv'
  <2>1. /\ i' = s + 1 /\ fd[s] # 0 /\ readfds' = readfds /\ Reading(s)
        /\ \A t \in Slots \ {s} : fd'[t] = fd[t]
        /\ \A f \in Fds \ {fd[s]} : fdtab'[f] = fdtab[f]
        /\ \A c \in Clients \ {Holder(s)} : inbox'[c] = inbox[c]
    BY <1>4, ReadTable DEF Reads, ReadLeave, ReadName, ReadLine
  <2>2. pc' # "accept" /\ \A d \in Clients : peer'[d] = "up" <=> peer[d] = "up"
    BY <1>4, ReadTells DEF Wears
  <2>3. ASSUME NEW t \in Slots, t >= i', fd'[t] \in readfds' \ {0} PROVE Readable(Holder(t))'
    <3>1. t # s /\ t >= i
      BY <1>h, <2>1, <2>3 DEF Reading, Slots, TypeOK
    <3>2. fd'[t] = fd[t] /\ fd[t] # fd[s]
      BY <2>1, <2>3, <3>1 DEF TableInv
    <3>3. Holder(t)' = Holder(t) /\ Holder(t) \in Clients \ {Holder(s)}
      BY <1>h, <2>1, <2>3, <3>1, <3>2, HolderType DEF Holder
    <3>4. Readable(Holder(t))
      BY <2>1, <2>3, <3>1, <3>2 DEF SetInv
    <3> QED BY <2>1, <2>2, <3>3, <3>4 DEF Readable
  <2> QED BY <2>2, <2>3 DEF SetInv
<1>5. ASSUME NEW c \in Clients, UserStep(c) PROVE SetInv'
  <2>1. UNCHANGED <<pc, i, readfds, fd, fdtab>>
    BY <1>5, UserNet
  <2>2. \A d \in Clients : Readable(d) => Readable(d)'
    <3> SUFFICES ASSUME NEW d \in Clients, Readable(d) PROVE Readable(d)'
      OBVIOUS
    <3>1. ASSUME NEW text \in Texts, inbox[c] # <<>> PROVE inbox[c] \o text # <<>>
      <4>1. inbox[c] \in Seq(Pieces) /\ text \in Seq(Pieces)
        BY DEF TypeOK, Texts
      <4>2. Len(inbox[c]) > 0 /\ Len(text) \in Nat
        BY <3>1, <4>1, EmptySeq, LenProperties
      <4>3. Len(inbox[c] \o text) = Len(inbox[c]) + Len(text)
        BY <4>1, ConcatProperties
      <4> QED BY <4>2, <4>3
    <3>2. CASE d # c
      BY <1>5, <3>2, UserNet DEF Readable
    <3>3. CASE d = c
      BY <1>5, <3>1, <3>3, UserNet DEF Readable
    <3> QED BY <3>2, <3>3
  <2> QED BY <1>h, <2>1, <2>2 DEF SetInv, Holder
<1> QED BY <1>1, <1>2, <1>3, <1>4, <1>5, StepCases

-----------------------------------------------------------------------------
(* What stays *)

LEMMA PresentStays ==
  ASSUME TypeOK, TableInv, [Next]_vars, NEW c \in Clients, Present(c), peer'[c] = "up"
  PROVE  Present(c)'
<1>1. PICK t \in Slots : fd[t] > 0 /\ Holder(t) = c
  BY DEF Present
<1>h. fd[t] # 0 /\ fd[t] \in Fds
  BY <1>1, HolderType DEF TypeOK
<1>2. CASE Quiet
  <2>1. fd'[t] = fd[t] /\ fdtab' = fdtab
    BY <1>2, QuietTable
  <2> QED BY <1>1, <2>1 DEF Present, Holder
<1>3. ASSUME NEW d \in Clients, AcceptSlot(d) \/ AcceptLeak(d) PROVE Present(c)'
  <2>1. /\ LowestFd \in Fds /\ fdtab[LowestFd] = NoClient
        /\ fdtab' = [fdtab EXCEPT ![LowestFd] = d]
    BY <1>3, AcceptTable
  <2>2. fd[t] # LowestFd
    BY <1>1, <2>1, ClientsAssumption DEF Holder
  <2>3. fd'[t] = fd[t] /\ fdtab'[fd[t]] = fdtab[fd[t]]
    BY <1>3, <1>h, <2>1, <2>2, AcceptTable DEF table, TypeOK
  <2> QED BY <1>1, <2>3 DEF Present, Holder
<1>4. ASSUME NEW s \in Slots, Reads(s) PROVE Present(c)'
  <2>1. peer'[c] = "up" <=> peer[c] = "up"
    BY <1>4, ReadTells DEF Wears
  <2>2. CASE t # s
    <3>1. fd'[t] = fd[t] /\ fd[t] # fd[s]
      BY <1>4, <1>h, <2>2, ReadTable DEF TableInv
    <3>2. fdtab'[fd[t]] = fdtab[fd[t]]
      BY <1>4, <1>h, <3>1, ReadTable
    <3> QED BY <1>1, <3>1, <3>2 DEF Present, Holder
  <2>3. CASE t = s
    <3>1. UNCHANGED <<fd, fdtab>>
      BY <1>1, <1>4, <2>1, <2>3, ReadTable
    <3> QED BY <1>1, <3>1 DEF Present, Holder
  <2> QED BY <2>2, <2>3
<1> QED BY <1>2, <1>3, <1>4, StepCases DEF Quiet

LEMMA ClosedStays ==
  ASSUME TypeOK, TableInv, [Next]_vars, NEW c \in Clients, conn[c] = "closed"
  PROVE  conn'[c] = "closed"
<1>1. CASE Quiet
  BY <1>1, QuietTable
<1>2. ASSUME NEW d \in Clients, AcceptSlot(d) \/ AcceptLeak(d) PROVE conn'[c] = "closed"
  <2>1. conn[d] = "backlog" /\ conn' = [conn EXCEPT ![d] = "open"]
    BY <1>2, AcceptTable
  <2> QED BY <2>1 DEF TypeOK
<1>3. ASSUME NEW s \in Slots, Reads(s) PROVE conn'[c] = "closed"
  BY <1>3, ReadTable
<1> QED BY <1>1, <1>2, <1>3, StepCases DEF Quiet

\* All but the reads leave what has been heard, or take it away whole.
LEMMA HeardStays ==
  ASSUME TypeOK, [Next]_vars, \A s \in Slots : ~ Reads(s), TableInv
  PROVE  \A d \in Clients : out'[d] = out[d] \/ (out'[d] = <<>> /\ peer'[d] # "up")
<1>1. CASE Select \/ AcceptExit \/ UNCHANGED vars
  BY <1>1 DEF Select, AcceptExit, vars
<1>2. ASSUME NEW c \in Clients, AcceptSlot(c) \/ AcceptLeak(c)
      PROVE  \A d \in Clients : out'[d] = out[d]
  BY <1>2, AcceptTable
<1>3. ASSUME NEW c \in Clients, UserStep(c)
      PROVE  \A d \in Clients : out'[d] = out[d] \/ (out'[d] = <<>> /\ peer'[d] # "up")
  BY <1>3, UserNet
<1> QED BY <1>1, <1>2, <1>3, StepCases

\* A read adds at most one event to what a client has heard.
LEMMA OneMore ==
  ASSUME TypeOK, TableInv, NEW s \in Slots, NEW e, NEW w, Tells(s, e, w), NEW d \in Clients
  PROVE  /\ DOMAIN out[d] = 1 .. Len(out[d]) /\ Len(out[d]) \in Nat
         /\ \/ out'[d] = out[d]
            \/ /\ out'[d] = Append(out[d], IF d = Holder(s) THEN w ELSE e)
               /\ DOMAIN out'[d] = 1 .. Len(out[d]) + 1
               /\ \A k \in 1 .. Len(out[d]) : out'[d][k] = out[d][k]
               /\ out'[d][Len(out[d]) + 1] = IF d = Holder(s) THEN w ELSE e
<1>1. out[d] \in Seq(Events) /\ e \in Events /\ w \in Events
  BY DEF TypeOK, Tells
<1>2. out'[d] = out[d] \/ out'[d] = Append(out[d], IF d = Holder(s) THEN w ELSE e)
  BY DEF Tells
<1> DEFINE x == IF d = Holder(s) THEN w ELSE e
<1>3. x \in Events
  BY <1>1
<1> HIDE DEF x
<1>4. /\ Append(out[d], x) \in Seq(Events)
      /\ Len(Append(out[d], x)) = Len(out[d]) + 1
      /\ \A k \in 1 .. Len(out[d]) : Append(out[d], x)[k] = out[d][k]
      /\ Append(out[d], x)[Len(out[d]) + 1] = x
  BY <1>1, <1>3, AppendProperties
<1>5. DOMAIN out[d] = 1 .. Len(out[d]) /\ Len(out[d]) \in Nat
  BY <1>1, LenProperties
<1>6. DOMAIN Append(out[d], x) = 1 .. Len(out[d]) + 1
  BY <1>4, LenProperties
<1> QED BY <1>2, <1>4, <1>5, <1>6 DEF x

\* No connection comes up again, and a reset is not forgotten.
LEMMA PeerStays ==
  ASSUME TypeOK, TableInv, [Next]_vars, NEW c \in Clients
  PROVE  /\ peer'[c] = "up" => peer[c] = "up"
         /\ IsReset(c) => IsReset(c)'
<1>1. CASE Select \/ AcceptExit \/ UNCHANGED vars
  BY <1>1 DEF Select, AcceptExit, vars, IsReset
<1>2. ASSUME NEW d \in Clients, AcceptSlot(d) \/ AcceptLeak(d) PROVE peer' = peer
  BY <1>2, AcceptTable
<1>3. ASSUME NEW d \in Clients, UserStep(d)
      PROVE  (peer'[c] = "up" => peer[c] = "up") /\ (IsReset(c) => IsReset(c)')
  BY <1>3, UserNet DEF IsReset, Resets
<1>4. ASSUME NEW s \in Slots, Reads(s)
      PROVE  (peer'[c] = "up" => peer[c] = "up") /\ (IsReset(c) => IsReset(c)')
  BY <1>4, ReadTells DEF Wears
<1> QED BY <1>1, <1>2, <1>3, <1>4, StepCases DEF IsReset

LEMMA EndedStays ==
  ASSUME TypeOK, TableInv, [Next]_vars, NEW c \in Clients, Ended(c)
  PROVE  Ended(c)'
<1>1. CASE Select \/ AcceptExit \/ UNCHANGED vars
  BY <1>1 DEF Select, AcceptExit, vars, users, Ended
<1>2. ASSUME NEW d \in Clients, AcceptSlot(d) \/ AcceptLeak(d) PROVE Ended(c)'
  BY <1>2, AcceptTable DEF users, Ended
<1>3. ASSUME NEW s \in Slots, Reads(s) PROVE Ended(c)'
  BY <1>3, ReadTable DEF users, Ended
<1>4. ASSUME NEW d \in Clients, UserStep(d) PROVE Ended(c)'
  <2>1. CASE Writes(d)
    <3>1. PICK text \in Texts, u \in {"lines", "last", "end"} :
            SendText(d, text, u) /\ (Ended(d) => u = "end")
      BY <2>1, Writing
    <3> QED BY <3>1 DEF SendText, Ended, TypeOK
  <2>2. CASE UNCHANGED user
    BY <2>2 DEF Ended
  <2> QED BY <1>4, <2>1, <2>2, UserNet DEF users
<1> QED BY <1>1, <1>2, <1>3, <1>4, StepCases

\* What a client has heard it has heard as long as it is up.
LEMMA SentStays ==
  ASSUME TypeOK, TableInv, [Next]_vars, NEW c \in Clients, peer'[c] = "up",
         NEW w, WasSent(c, w)
  PROVE  WasSent(c, w)'
<1>1. CASE \A s \in Slots : ~ Reads(s)
  BY <1>1, HeardStays DEF WasSent
<1>2. ASSUME NEW s \in Slots, Reads(s) PROVE WasSent(c, w)'
  <2>1. PICK e, v : Tells(s, e, v)
    BY <1>2, ReadTells
  <2>2. \A k \in DOMAIN out[c] : k \in DOMAIN out'[c] /\ out'[c][k] = out[c][k]
    BY <2>1, OneMore
  <2> QED BY <2>2 DEF WasSent
<1> QED BY <1>1, <1>2

LEMMA WordsStay ==
  ASSUME TypeOK, TableInv, [Next]_vars, NEW c \in Clients
  PROVE  /\ OwnWords(c) \subseteq OwnWords(c)'
         /\ \A text : text \in Seq(OwnWords(c)) => text \in Seq(OwnWords(c)')
<1>1. \A w \in Pieces : OwnWord(c, w) => OwnWord(c, w)'
  <2> SUFFICES ASSUME NEW w \in Pieces, OwnWord(c, w), ~ (w[1] \in {c, NoClient})
               PROVE  OwnWord(c, w)'
    BY DEF OwnWord
  <2>1. Ended(c)'
    BY EndedStays DEF OwnWord
  <2>2. peer'[c] = "up" => WasSent(c, w)'
    BY PeerStays, SentStays DEF OwnWord
  <2> QED BY <2>1, <2>2 DEF OwnWord
<1>2. OwnWords(c) \subseteq OwnWords(c)'
  BY <1>1 DEF OwnWords
<1> QED BY <1>2, SeqMonotonic

-----------------------------------------------------------------------------
(* Who typed what *)

\* What a client sends.
LEMMA WrittenWords ==
  ASSUME TypeOK, TableInv, TextInv, [Next]_vars, NEW c \in Clients, Writes(c)
  PROVE  clibuf'[c] \in Seq(OwnWords(c)')
<1>1. PICK text \in Texts, u \in {"lines", "last", "end"} :
        /\ SendText(c, text, u)
        /\ \/ text \in Seq(TypedWords(c)) \/ text = clibuf[c]
           \/ u = "end" /\ text \in Seq(ToldWords(c))
  BY Writing
<1>2. clibuf'[c] = text /\ user'[c] = u /\ out' = out
  BY <1>1 DEF SendText, TypeOK
<1>3. CASE text \in Seq(TypedWords(c))
  <2>1. TypedWords(c) \subseteq OwnWords(c)'
    BY DEF TypedWords, OwnWords, OwnWord
  <2> QED BY <1>2, <1>3, <2>1, SeqMonotonic
<1>4. CASE text = clibuf[c]
  BY <1>2, <1>4, WordsStay DEF TextInv
<1>5. CASE u = "end" /\ text \in Seq(ToldWords(c))
  <2>1. Ended(c)' /\ \A w : WasSent(c, w) => WasSent(c, w)'
    BY <1>2, <1>5 DEF Ended, WasSent
  <2>2. ToldWords(c) \subseteq OwnWords(c)'
    BY <2>1 DEF ToldWords, OwnWords, OwnWord
  <2> QED BY <1>2, <1>5, <2>2, SeqMonotonic
<1> QED BY <1>1, <1>3, <1>4, <1>5

\* The events that are only repeated.
LEMMA OldEvents ==
  ASSUME TypeOK, TableInv, TextInv, [Next]_vars, NEW d \in Clients, NEW k \in DOMAIN out[d],
         NEW c \in Clients, out[d][k].of = c, ~ IsReset(c)'
  PROVE  /\ out[d][k].name \in Seq(OwnWords(c)')
         /\ out[d][k].text \in Seq(OwnWords(c)')
<1>1. ~ IsReset(c)
  BY PeerStays
<1>2. out[d][k].name \in Seq(OwnWords(c)) /\ out[d][k].text \in Seq(OwnWords(c))
  BY <1>1 DEF TextInv
<1> QED BY <1>2, WordsStay

LEMMA TextStep == TypeOK /\ TableInv /\ TextInv /\ [Next]_vars => TextInv'
<1> SUFFICES ASSUME TypeOK, TableInv, TextInv, [Next]_vars PROVE TextInv'
  OBVIOUS
<1>h. \A s \in Slots : fd[s] # 0 => s \in Int /\ fd[s] \in Fds /\ Holder(s) \in Clients
  BY HolderType
<1>e. \A W : <<>> \in Seq(W)
  OBVIOUS
\* What is on its way, and the clients' buffers.
<1>1. ASSUME NEW c \in Clients
      PROVE  inbox'[c] \in Seq(OwnWords(c)') /\ clibuf'[c] \in Seq(OwnWords(c)')
  <2>0. inbox[c] \in Seq(OwnWords(c)') /\ clibuf[c] \in Seq(OwnWords(c)')
    BY WordsStay DEF TextInv
  <2>1. CASE Writes(c)
    <3>1. clibuf'[c] \in Seq(OwnWords(c)')
      BY <2>1, WrittenWords
    <3>2. inbox'[c] = inbox[c] \o clibuf'[c]
      <4>1. PICK text, u : SendText(c, text, u)
        BY <2>1, Writing
      <4> QED BY <4>1 DEF SendText, TypeOK
    <3>3. \A W : inbox[c] \in Seq(W) /\ clibuf'[c] \in Seq(W) => inbox[c] \o clibuf'[c] \in Seq(W)
      BY ConcatProperties
    <3> QED BY <2>0, <3>1, <3>2, <3>3
  <2>2. ASSUME inbox'[c] \in {inbox[c], <<>>}, clibuf'[c] \in {clibuf[c], <<>>}
        PROVE  inbox'[c] \in Seq(OwnWords(c)') /\ clibuf'[c] \in Seq(OwnWords(c)')
    BY <1>e, <2>0, <2>2
  <2>3. CASE Select \/ AcceptExit \/ UNCHANGED vars
    BY <2>2, <2>3 DEF Select, AcceptExit, vars, users
  <2>4. ASSUME NEW d \in Clients, AcceptSlot(d) \/ AcceptLeak(d)
        PROVE  inbox'[c] = inbox[c] /\ clibuf'[c] = clibuf[c]
    BY <2>4, AcceptTable DEF users
  <2>5. ASSUME NEW d \in Clients, UserStep(d), ~ Writes(c)
        PROVE  inbox'[c] \in {inbox[c], <<>>} /\ clibuf'[c] \in {clibuf[c], <<>>}
    BY <2>5, UserNet DEF users
  <2>6. ASSUME NEW s \in Slots, Reads(s)
        PROVE  inbox'[c] \in {inbox[c], <<>>} /\ clibuf'[c] = clibuf[c]
    BY <2>6, ReadTable DEF users
  <2> QED BY <2>1, <2>2, <2>3, <2>4, <2>5, <2>6, StepCases
\* The name in the table.
<1>2. ASSUME NEW c \in Clients, NEW t \in Slots, fd'[t] # 0, Holder(t)' = c, ~ IsReset(c)'
      PROVE  username'[t] \in Seq(OwnWords(c)')
  <2>r. ~ IsReset(c)
    BY <1>2, PeerStays
  <2>1. ASSUME fd'[t] = fd[t], fdtab'[fd[t]] = fdtab[fd[t]], username'[t] = username[t]
        PROVE  username'[t] \in Seq(OwnWords(c)')
    <3>1. Holder(t) = c
      BY <1>2, <2>1 DEF Holder
    <3>2. username[t] \in Seq(OwnWords(c))
      BY <1>2, <2>1, <2>r, <3>1 DEF TextInv
    <3> QED BY <2>1, <3>2, WordsStay
  <2>2. CASE Quiet
    BY <2>1, <2>2, QuietTable
  <2>3. ASSUME NEW d \in Clients, AcceptSlot(d) \/ AcceptLeak(d)
        PROVE  username'[t] \in Seq(OwnWords(c)')
    <3>1. /\ LowestFd \in Fds /\ LowestFd # 0 /\ fdtab[LowestFd] = NoClient
          /\ fdtab' = [fdtab EXCEPT ![LowestFd] = d]
      BY <2>3, AcceptTable
    <3>2. \/ fd'[t] = fd[t] /\ username'[t] = username[t]
          \/ username'[t] = <<>>
      BY <2>3, AcceptTable DEF table, TypeOK
    <3>3. fd[t] # 0 => fdtab'[fd[t]] = fdtab[fd[t]]
      BY <1>h, <3>1 DEF Holder, TypeOK, TableInv
    <3> QED BY <1>2, <1>e, <2>1, <3>2, <3>3
  <2>4. ASSUME NEW s \in Slots, Reads(s)
        PROVE  username'[t] \in Seq(OwnWords(c)')
    <3>1. /\ fd[s] # 0
          /\ \A u \in Slots \ {s} : fd'[u] = fd[u] /\ username'[u] = username[u]
          /\ \A f \in Fds \ {fd[s]} : fdtab'[f] = fdtab[f]
      BY <2>4, ReadTable
    <3>2. CASE t # s
      <4>1. fd'[t] = fd[t] /\ fd[t] # fd[s] /\ username'[t] = username[t]
        BY <1>2, <3>1, <3>2 DEF TableInv
      <4>2. fdtab'[fd[t]] = fdtab[fd[t]]
        BY <1>h, <1>2, <3>1, <4>1
      <4> QED BY <2>1, <4>1, <4>2
    <3>3. CASE t = s /\ ReadLine(s)
      BY <2>1, <3>3 DEF ReadLine, table
    <3>4. CASE t = s /\ ReadName(s)
      <4>1. Holder(s) = c /\ username'[s] = FirstLine(Text(s)) /\ Arrived(s)
        BY <1>2, <3>4 DEF ReadName, TypeOK, Holder
      <4>2. Text(s) = inbox[c]
        BY <2>r, <4>1 DEF Arrived, Text, IsReset, Resets
      <4>3. Text(s) \in Seq(OwnWords(c)')
        BY <4>2, WordsStay DEF TextInv
      <4> QED BY <3>4, <4>1, <4>3, FirstLineBegins
    <3>5. CASE t = s /\ ReadLeave(s)
      BY <2>4, <1>e, <3>5, ReadTable, OneRead
    <3> QED BY <2>4, <3>2, <3>3, <3>4, <3>5 DEF Reads
  <2> QED BY <2>2, <2>3, <2>4, StepCases DEF Quiet
\* What has been told.
<1>3. ASSUME NEW c \in Clients, NEW d \in Clients, NEW k \in DOMAIN out'[d],
             out'[d][k].of = c, ~ IsReset(c)'
      PROVE  /\ out'[d][k].name \in Seq(OwnWords(c)')
             /\ out'[d][k].text \in Seq(OwnWords(c)')
  <2>1. CASE k \in DOMAIN out[d] /\ out'[d][k] = out[d][k]
    <3>1. out[d][k].of = c
      BY <1>3, <2>1
    <3>2. out[d][k].name \in Seq(OwnWords(c)') /\ out[d][k].text \in Seq(OwnWords(c)')
      BY <1>3, <2>1, <3>1, OldEvents
    <3> QED BY <2>1, <3>2
  <2>2. CASE \A s \in Slots : ~ Reads(s)
    BY <1>3, <2>1, <2>2, HeardStays
  <2>3. ASSUME NEW s \in Slots, Reads(s), NEW e, NEW w, Tells(s, e, w), Says(s, e, w),
               out'[d] # out[d], out'[d][k] = IF d = Holder(s) THEN w ELSE e
        PROVE  /\ out'[d][k].name \in Seq(OwnWords(c)')
               /\ out'[d][k].text \in Seq(OwnWords(c)')
    <3>1. Holder(s) = c /\ fd[s] # 0
      BY <1>3, <2>3, ReadTable DEF Tells
    <3>2. ~ IsReset(c)
      BY <1>3, PeerStays
    <3>3. username[s] \in Seq(OwnWords(c)')
      BY <3>1, <3>2, WordsStay DEF TextInv
    <3>4. ASSUME ReadName(s) \/ ReadLine(s)
          PROVE  Text(s) \in Seq(OwnWords(c)') /\ FirstLine(Text(s)) \in Seq(OwnWords(c)')
      <4>1. Text(s) = inbox[c]
        BY <3>1, <3>2, <3>4 DEF ReadName, ReadLine, Arrived, Text, IsReset, Resets
      <4>2. Text(s) \in Seq(OwnWords(c)')
        BY <4>1, WordsStay DEF TextInv
      <4> QED BY <4>2, FirstLineBegins
    <3>5. CASE d = c
      <4>1. username[s] = <<>> /\ peer[c] = "up"
        BY <2>3, <3>1, <3>5 DEF Tells, Present
      <4>2. ReadName(s)
        BY <2>3, <3>1, <4>1 DEF Reads, ReadLeave, ReadLine, Broken
      <4>3. w.name = FirstLine(Text(s)) /\ w.text = <<>>
        BY <2>3, <4>2 DEF Says
      <4>4. w.name \in Seq(OwnWords(c)') /\ w.text \in Seq(OwnWords(c)')
        BY <1>e, <3>4, <4>2, <4>3
      <4>5. out'[d][k] = w
        BY <2>3, <3>1, <3>5
      <4> QED BY <4>4, <4>5
    <3>6. CASE d # c
      <4>1. e.name \in Seq(OwnWords(c)') /\ e.text \in Seq(OwnWords(c)')
        <5>1. CASE ReadLeave(s)
          BY <1>e, <2>3, <3>3, <5>1 DEF Says
        <5>2. CASE ReadName(s)
          BY <1>e, <2>3, <3>4, <5>2 DEF Says
        <5>3. CASE ReadLine(s)
          BY <1>e, <2>3, <3>3, <3>4, <5>3 DEF Says
        <5> QED BY <2>3, <5>1, <5>2, <5>3 DEF Reads
      <4>2. out'[d][k] = e
        BY <2>3, <3>1, <3>6
      <4> QED BY <4>1, <4>2
    <3> QED BY <3>5, <3>6
  <2>4. ASSUME NEW s \in Slots, Reads(s)
        PROVE  /\ out'[d][k].name \in Seq(OwnWords(c)')
               /\ out'[d][k].text \in Seq(OwnWords(c)')
    <3>1. PICK e, w : Tells(s, e, w) /\ Says(s, e, w)
      BY <2>4, ReadTells
    <3>2. \/ k \in DOMAIN out[d] /\ out'[d][k] = out[d][k]
          \/ out'[d] # out[d] /\ out'[d][k] = IF d = Holder(s) THEN w ELSE e
      BY <1>3, <3>1, OneMore
    <3> QED BY <2>1, <2>3, <2>4, <3>1, <3>2
  <2> QED BY <2>2, <2>4
<1> QED BY <1>1, <1>2, <1>3 DEF TextInv

-----------------------------------------------------------------------------
(* The phases of a client *)

\* A client keeps its slot, and a name that is not empty, until it is closed.
LEMMA NamedStays ==
  ASSUME TypeOK, TableInv, [Next]_vars, NEW c \in Clients, NEW name,
         name # <<>>, Named(c, name)
  PROVE  Named(c, name)' \/ conn'[c] = "closed"
<1>1. PICK t \in Slots : fd[t] # 0 /\ Holder(t) = c /\ username[t] = name
  BY DEF Named
<1>h. fd[t] # 0 /\ fd[t] \in Fds
  BY <1>1, HolderType
<1>2. CASE Quiet
  <2>1. fd'[t] = fd[t] /\ fdtab' = fdtab /\ username' = username
    BY <1>2, QuietTable
  <2> QED BY <1>1, <2>1 DEF Named, Holder
<1>3. ASSUME NEW d \in Clients, AcceptSlot(d) \/ AcceptLeak(d) PROVE Named(c, name)'
  <2>1. /\ LowestFd \in Fds /\ fdtab[LowestFd] = NoClient
        /\ fdtab' = [fdtab EXCEPT ![LowestFd] = d]
    BY <1>3, AcceptTable
  <2>2. fd[t] # LowestFd
    BY <1>1, <2>1, ClientsAssumption DEF Holder
  <2>3. fd'[t] = fd[t] /\ fdtab'[fd[t]] = fdtab[fd[t]] /\ username'[t] = username[t]
    BY <1>3, <1>h, <2>1, <2>2, AcceptTable DEF table, TypeOK
  <2> QED BY <1>1, <2>3 DEF Named, Holder
<1>4. ASSUME NEW s \in Slots, Reads(s) PROVE Named(c, name)' \/ conn'[c] = "closed"
  <2>2. CASE t # s
    <3>1. fd'[t] = fd[t] /\ fd[t] # fd[s] /\ username'[t] = username[t]
      BY <1>4, <1>h, <2>2, ReadTable DEF TableInv
    <3>2. fdtab'[fd[t]] = fdtab[fd[t]]
      BY <1>4, <1>h, <3>1, ReadTable
    <3> QED BY <1>1, <3>1, <3>2 DEF Named, Holder
  <2>3. CASE t = s /\ ReadLeave(s)
    BY <1>1, <1>4, <2>3, ReadTable, OneRead
  <2>4. CASE t = s /\ ReadLine(s)
    BY <1>1, <2>4 DEF ReadLine, Named, Holder, table
  <2>5. ~ (t = s /\ ReadName(s))
    BY <1>1 DEF ReadName
  <2> QED BY <1>4, <2>2, <2>3, <2>4, <2>5 DEF Reads
<1> QED BY <1>2, <1>3, <1>4, StepCases DEF Quiet

\* What PhaseInv says of an event e in what d has been told.
Phased(d, e) ==
  /\ e.kind = "leave" => conn[e.of] = "closed"
  /\ e.kind = "welcome" <=> e.of = d
  /\ e.name = <<>> => e.kind \in {"join", "welcome"}
  /\ e.name # <<>> => conn[e.of] = "closed" \/ Named(e.of, e.name)

LEMMA PhasedStays ==
  ASSUME TypeOK, TableInv, PhaseInv, [Next]_vars, NEW d \in Clients, NEW k \in DOMAIN out[d],
         NEW x, x = out[d][k]
  PROVE  Phased(d, x)'
<1>1. Phased(d, x)
  BY DEF PhaseInv, Phased
<1>2. x.of \in Clients
  BY HeardType DEF Events
<1> DEFINE c == x.of
           n == x.name
<1>3. conn[c] = "closed" => conn'[c] = "closed"
  BY <1>2, ClosedStays
<1>4. n # <<>> /\ Named(c, n) => Named(c, n)' \/ conn'[c] = "closed"
  BY <1>2, NamedStays
<1> QED BY <1>1, <1>3, <1>4 DEF Phased

\* What a read tells is true of its client when it is told.
LEMMA PhasedNew ==
  ASSUME TypeOK, TableInv, NEW s \in Slots, Reads(s), [Next]_vars,
         NEW e, NEW w, Tells(s, e, w), Says(s, e, w), NEW d \in Clients,
         out'[d] # out[d], NEW x, x = IF d = Holder(s) THEN w ELSE e
  PROVE  Phased(d, x)'
<1>1. PICK c \in Clients : Holder(s) = c
  BY ReadTable
<1>2. e.of = c /\ w.of = c /\ e.kind # "welcome" /\ w.kind = "welcome" /\ fd[s] # 0
  BY <1>1, ReadTable DEF Tells
<1>3. ReadName(s) \/ ReadLine(s) => fd'[s] # 0 /\ Holder(s)' = c
  BY <1>1, <1>2, ReadTable, OneRead DEF Holder
<1>4. CASE d = c
  <2>1. username[s] = <<>> /\ peer[c] = "up"
    BY <1>1, <1>4 DEF Tells, Present
  <2>2. ReadName(s)
    BY <1>1, <2>1 DEF Reads, ReadLeave, ReadLine, Broken
  <2>3. w.name = FirstLine(Text(s)) /\ username'[s] = FirstLine(Text(s))
    BY <2>2 DEF Says, ReadName, TypeOK
  <2>4. Named(c, w.name)'
    BY <1>3, <2>2, <2>3 DEF Named
  <2>5. Phased(d, w)'
    BY <1>2, <1>4, <2>4 DEF Phased
  <2>6. x = w
    BY <1>1, <1>4
  <2> QED BY <2>5, <2>6
<1>5. CASE d # c
  <2>x. x = e
    BY <1>1, <1>5
  <2>0. e.kind = "join" \/ username[s] # <<>>
    BY <1>1, <1>5 DEF Tells
  <2>1. CASE ReadLeave(s)
    <3>1. e.kind = "leave" /\ e.name = username[s] /\ conn'[c] = "closed"
      BY <1>1, <2>1, ReadTable, OneRead DEF Says
    <3>2. Phased(d, e)'
      BY <1>2, <1>5, <2>0, <3>1 DEF Phased
    <3> QED BY <2>x, <3>2
  <2>2. CASE ReadName(s)
    <3>1. e.kind = "join" /\ e.name = FirstLine(Text(s)) /\ username'[s] = FirstLine(Text(s))
      BY <2>2 DEF Says, ReadName, TypeOK
    <3>2. Named(c, e.name)'
      BY <1>3, <2>2, <3>1 DEF Named
    <3>3. Phased(d, e)'
      BY <1>2, <1>5, <3>1, <3>2 DEF Phased
    <3> QED BY <2>x, <3>3
  <2>3. CASE ReadLine(s)
    <3>1. /\ e.kind = "line" /\ e.name = username[s] /\ username'[s] = username[s]
          /\ username[s] # <<>>
      BY <2>3 DEF Says, ReadLine, table
    <3>2. Named(c, e.name)'
      BY <1>3, <2>3, <3>1 DEF Named
    <3>3. Phased(d, e)'
      BY <1>2, <1>5, <3>1, <3>2 DEF Phased
    <3> QED BY <2>x, <3>3
  <2> QED BY <2>1, <2>2, <2>3 DEF Reads
<1> QED BY <1>4, <1>5

LEMMA PhaseStep == TypeOK /\ TableInv /\ PhaseInv /\ [Next]_vars => PhaseInv'
<1> SUFFICES ASSUME TypeOK, TableInv, PhaseInv, [Next]_vars PROVE PhaseInv'
  OBVIOUS
<1>1. ASSUME NEW c \in Clients, out'[c] # <<>> PROVE Present(c)'
  <2>1. Present(c) /\ peer'[c] = "up"
    <3>1. CASE \A s \in Slots : ~ Reads(s)
      <4>1. out'[c] = out[c] /\ Present(c)
        BY <1>1, <3>1, HeardStays DEF PhaseInv
      <4>2. CASE Select \/ AcceptExit \/ UNCHANGED vars
        BY <4>1, <4>2 DEF Select, AcceptExit, vars, Present
      <4>3. ASSUME NEW d \in Clients, AcceptSlot(d) \/ AcceptLeak(d) PROVE peer'[c] = "up"
        BY <4>1, <4>3, AcceptTable DEF Present
      <4>4. ASSUME NEW d \in Clients, UserStep(d) PROVE peer'[c] = "up"
        BY <1>1, <4>1, <4>4, UserNet DEF Present
      <4> QED BY <3>1, <4>1, <4>2, <4>3, <4>4, StepCases
    <3>2. ASSUME NEW s \in Slots, Reads(s) PROVE Present(c) /\ peer'[c] = "up"
      <4>1. PICK e, w : Tells(s, e, w)
        BY <3>2, ReadTells
      <4>2. Present(c)
        BY <1>1, <3>2, <4>1, ReadTable DEF Tells, PhaseInv
      <4> QED BY <3>2, <4>2, ReadTells DEF Wears, Present
    <3> QED BY <3>1, <3>2
  <2> QED BY <2>1, PresentStays
<1>2. ASSUME NEW d \in Clients, NEW k \in DOMAIN out'[d], NEW x, x = out'[d][k]
      PROVE  Phased(d, x)'
  <2>1. CASE k \in DOMAIN out[d] /\ x = out[d][k]
    BY <2>1, PhasedStays
  <2>2. CASE \A s \in Slots : ~ Reads(s)
    BY <1>2, <2>1, <2>2, HeardStays
  <2>3. ASSUME NEW s \in Slots, Reads(s) PROVE Phased(d, x)'
    <3>1. PICK e, w : Tells(s, e, w) /\ Says(s, e, w)
      BY <2>3, ReadTells
    <3>2. \/ k \in DOMAIN out[d] /\ x = out[d][k]
          \/ out'[d] # out[d] /\ x = IF d = Holder(s) THEN w ELSE e
      BY <1>2, <3>1, OneMore
    <3>3. CASE out'[d] # out[d] /\ x = IF d = Holder(s) THEN w ELSE e
      BY <2>3, <3>1, <3>3, PhasedNew
    <3> QED BY <2>1, <3>2, <3>3
  <2> QED BY <2>2, <2>3
<1>3. \A d \in Clients : \A k \in DOMAIN out'[d] : Phased(d, out[d][k])'
  <2> SUFFICES ASSUME NEW d \in Clients, NEW k \in DOMAIN out'[d] PROVE Phased(d, out[d][k])'
    OBVIOUS
  <2>1. PICK x : x = out'[d][k]
    OBVIOUS
  <2>2. Phased(d, x)'
    BY <1>2, <2>1
  <2> QED BY <2>1, <2>2 DEF Phased
<1> QED BY <1>1, <1>3 DEF PhaseInv, Phased

LEMMA KeepsStep ==
  TypeOK /\ TableInv /\ PhaseInv /\ KeepsName /\ [Next]_vars => KeepsName'
<1> SUFFICES ASSUME TypeOK, TableInv, PhaseInv, KeepsName, [Next]_vars,
                    NEW d \in Clients, NEW n \in DOMAIN out'[d], NEW k \in 1 .. n - 1,
                    NEW e, NEW f, e = out'[d][k], f = out'[d][n],
                    e.of = f.of, e.of # d
             PROVE  /\ e.kind # "leave"
                    /\ e.name = <<>> => e.kind = "join"
                    /\ e.name # <<>> => f.kind # "join" /\ f.name = e.name
  BY DEF KeepsName
<1>1. CASE out'[d] = out[d]
  BY <1>1 DEF KeepsName
<1>2. CASE out'[d] # out[d]
  <2>1. PICK s \in Slots : Reads(s)
    <3>1. out'[d] # <<>>
      OBVIOUS
    <3> QED BY <1>2, <3>1, HeardStays
  <2>2. PICK x, w : Tells(s, x, w) /\ Says(s, x, w)
    BY <2>1, ReadTells
  <2>3. /\ DOMAIN out[d] = 1 .. Len(out[d]) /\ Len(out[d]) \in Nat
        /\ DOMAIN out'[d] = 1 .. Len(out[d]) + 1
        /\ \A m \in 1 .. Len(out[d]) : out'[d][m] = out[d][m]
        /\ out'[d][Len(out[d]) + 1] = IF d = Holder(s) THEN w ELSE x
    BY <1>2, <2>2, OneMore
  <2>4. k \in DOMAIN out[d] /\ e = out[d][k]
    BY <2>3
  <2>5. CASE n \in DOMAIN out[d]
    <3>1. f = out[d][n]
      BY <2>3, <2>5
    <3> QED BY <2>4, <2>5, <3>1 DEF KeepsName
  <2>6. CASE n \notin DOMAIN out[d]
    <3>1. f = IF d = Holder(s) THEN w ELSE x
      BY <2>3, <2>6
    <3>2. f = x /\ e.of = Holder(s) /\ d # Holder(s)
      BY <2>2, <3>1 DEF Tells
    <3>3. fd[s] # 0 /\ Holder(s) \in Clients /\ conn[Holder(s)] # "closed"
      BY <2>1, ReadTable DEF TableInv
    <3>4. /\ e.kind # "leave" /\ e.kind # "welcome"
          /\ e.name = <<>> => e.kind \in {"join", "welcome"}
          /\ e.name # <<>> => Named(e.of, e.name)
      BY <2>4, <3>2, <3>3 DEF PhaseInv
    <3>5. e.name # <<>> => username[s] = e.name
      BY <3>2, <3>3, <3>4, HolderType DEF Named
    <3>6. ASSUME e.name # <<>> PROVE f.kind # "join" /\ f.name = e.name
      <4>1. ~ ReadName(s)
        BY <3>5, <3>6 DEF ReadName
      <4>2. x.kind \in {"leave", "line"} /\ x.name = username[s]
        BY <2>1, <2>2, <4>1 DEF Says, Reads
      <4> QED BY <3>2, <3>5, <3>6, <4>2
    <3> QED BY <3>4, <3>6
  <2> QED BY <2>5, <2>6
<1> QED BY <1>1, <1>2

-----------------------------------------------------------------------------
(* The same conversation *)

LEMMA AfterType ==
  ASSUME NEW h \in Seq(Events), NEW k \in Nat, NEW others
  PROVE  \A n \in After(h, k, others) : n \in 1 .. Len(h) /\ n \in Int
BY DEF After

\* An event about one of the others comes last, another one makes no difference.
Extends(h, k, others, x) ==
  /\ After(Append(h, x), k, others)
       = After(h, k, others) \cup {n \in {Len(h) + 1} : x.of \in others}
  /\ \A n \in After(h, k, others) : Append(h, x)[n] = h[n]
  /\ Append(h, x)[Len(h) + 1] = x

LEMMA AfterAppend ==
  ASSUME NEW h \in Seq(Events), NEW k \in DOMAIN h, NEW others, NEW x \in Events
  PROVE  Extends(h, k, others, x)
<1> DEFINE g == Append(h, x)
<1>1. /\ Len(g) = Len(h) + 1 /\ \A n \in 1 .. Len(h) : g[n] = h[n]
      /\ g[Len(h) + 1] = x
  BY AppendProperties
<1>2. DOMAIN h = 1 .. Len(h) /\ Len(h) \in Nat
  BY LenProperties
<1> HIDE DEF g
<1>3. \A n \in k + 1 .. Len(h) : n \in 1 .. Len(h)
  BY <1>2
<1>4. After(g, k, others) = {n \in k + 1 .. Len(h) + 1 : g[n].of \in others}
  BY <1>1 DEF After
<1>5. k + 1 .. Len(h) + 1 = (k + 1 .. Len(h)) \cup {Len(h) + 1}
  BY <1>2
<1>6. After(g, k, others) = {n \in k + 1 .. Len(h) : h[n].of \in others}
                            \cup {n \in {Len(h) + 1} : x.of \in others}
  BY <1>1, <1>3, <1>4, <1>5
<1>7. After(g, k, others) = After(h, k, others) \cup {n \in {Len(h) + 1} : x.of \in others}
  BY <1>6 DEF After
<1>8. \A n \in After(h, k, others) : g[n] = h[n]
  BY <1>1, <1>3 DEF After
<1> QED BY <1>1, <1>7, <1>8 DEF g, Extends

LEMMA SameEmpty ==
  ASSUME NEW h \in Seq(Events), NEW g \in Seq(Events), NEW others
  PROVE  SameHeard(h, Len(h), g, Len(g), others)
<1>1. After(h, Len(h), others) = {} /\ After(g, Len(g), others) = {}
  BY DEF After
<1> DEFINE f == [n \in {} |-> n]
<1>2. f \in [{} -> {}] /\ DOMAIN f = {}
  OBVIOUS
<1> HIDE DEF f
<1> QED BY <1>1, <1>2 DEF SameHeard

LEMMA SameIgnored ==
  ASSUME NEW h \in Seq(Events), NEW k \in DOMAIN h, NEW g \in Seq(Events), NEW j \in DOMAIN g,
         NEW others, SameHeard(h, k, g, j, others), NEW x \in Events, x.of \notin others
  PROVE  /\ SameHeard(Append(h, x), k, g, j, others)
         /\ SameHeard(h, k, Append(g, x), j, others)
<1>a. Extends(h, k, others, x) /\ Extends(g, j, others, x)
  BY AfterAppend
<1>1. /\ After(Append(h, x), k, others) = After(h, k, others)
      /\ \A n \in After(h, k, others) : Append(h, x)[n] = h[n]
  BY <1>a DEF Extends
<1>2. /\ After(Append(g, x), j, others) = After(g, j, others)
      /\ \A n \in After(g, j, others) : Append(g, x)[n] = g[n]
  BY <1>a DEF Extends
<1>3. PICK f \in [After(h, k, others) -> After(g, j, others)] :
        /\ \A n \in After(g, j, others) : \E m \in DOMAIN f : f[m] = n
        /\ \A m, n \in DOMAIN f : m < n => f[m] < f[n]
        /\ \A n \in DOMAIN f : g[f[n]] = h[n]
  BY DEF SameHeard
<1>4. \A n \in DOMAIN f : g[f[n]] = Append(h, x)[n]
  BY <1>1, <1>3
<1>5. \A n \in DOMAIN f : Append(g, x)[f[n]] = h[n]
  BY <1>2, <1>3
<1>6. SameHeard(Append(h, x), k, g, j, others)
  BY <1>1, <1>3, <1>4 DEF SameHeard
<1>7. SameHeard(h, k, Append(g, x), j, others)
  BY <1>2, <1>3, <1>5 DEF SameHeard
<1> QED BY <1>6, <1>7

LEMMA SameBoth ==
  ASSUME NEW h \in Seq(Events), NEW k \in DOMAIN h, NEW g \in Seq(Events), NEW j \in DOMAIN g,
         NEW others, SameHeard(h, k, g, j, others), NEW x \in Events, x.of \in others
  PROVE  SameHeard(Append(h, x), k, Append(g, x), j, others)
<1>a. Extends(h, k, others, x) /\ Extends(g, j, others, x)
  BY AfterAppend
<1> DEFINE H == After(h, k, others)
           G == After(g, j, others)
           a == Len(h) + 1
           b == Len(g) + 1
<1>1. /\ After(Append(h, x), k, others) = H \cup {a}
      /\ \A n \in H : Append(h, x)[n] = h[n]
      /\ Append(h, x)[a] = x
  BY <1>a DEF Extends
<1>2. /\ After(Append(g, x), j, others) = G \cup {b}
      /\ \A n \in G : Append(g, x)[n] = g[n]
      /\ Append(g, x)[b] = x
  BY <1>a DEF Extends
<1>3. (\A n \in H : n < a /\ n \in Int) /\ (\A n \in G : n < b /\ n \in Int) /\ a \in Int /\ b \in Int
  <2>1. k \in Nat /\ j \in Nat /\ Len(h) \in Nat /\ Len(g) \in Nat
    BY LenProperties
  <2> QED BY <2>1, AfterType
<1>4. PICK f \in [H -> G] :
        /\ \A n \in G : \E m \in DOMAIN f : f[m] = n
        /\ \A m, n \in DOMAIN f : m < n => f[m] < f[n]
        /\ \A n \in DOMAIN f : g[f[n]] = h[n]
  BY DEF SameHeard
<1> HIDE DEF H, G, a, b
<1> DEFINE p == [n \in H \cup {a} |-> IF n = a THEN b ELSE f[n]]
<1>5. p \in [H \cup {a} -> G \cup {b}] /\ DOMAIN p = H \cup {a}
  OBVIOUS
<1>6. p[a] = b /\ \A n \in H : p[n] = f[n] /\ f[n] \in G
  BY <1>3
<1> HIDE DEF p
<1>7. \A n \in G \cup {b} : \E m \in DOMAIN p : p[m] = n
  BY <1>4, <1>5, <1>6
<1>8. \A m, n \in DOMAIN p : m < n => p[m] < p[n]
  <2> SUFFICES ASSUME NEW m \in H \cup {a}, NEW n \in H \cup {a}, m < n PROVE p[m] < p[n]
    BY <1>5
  <2>1. m \in H
    BY <1>3
  <2>2. CASE n = a
    BY <1>3, <1>6, <2>1, <2>2
  <2>3. CASE n # a
    BY <1>4, <1>6, <2>1, <2>3
  <2> QED BY <2>2, <2>3
<1>9. \A n \in DOMAIN p : Append(g, x)[p[n]] = Append(h, x)[n]
  <2>1. Append(g, x)[p[a]] = Append(h, x)[a]
    BY <1>1, <1>2, <1>6
  <2>2. ASSUME NEW n \in H PROVE Append(g, x)[p[n]] = Append(h, x)[n]
    <3>1. p[n] = f[n] /\ f[n] \in G /\ g[f[n]] = h[n]
      BY <1>4, <1>6
    <3> QED BY <1>1, <1>2, <3>1
  <2> QED BY <1>5, <2>1, <2>2
<1>10. /\ p \in [After(Append(h, x), k, others) -> After(Append(g, x), j, others)]
       /\ \A n \in After(Append(g, x), j, others) : \E m \in DOMAIN p : p[m] = n
  BY <1>1, <1>2, <1>5, <1>7
<1> QED BY <1>8, <1>9, <1>10 DEF SameHeard

LEMMA DownStays ==
  ASSUME [Next]_vars, \A s \in Slots : ~ Reads(s), Down, TypeOK, TableInv
  PROVE  Down'
<1>1. CASE Select \/ AcceptExit \/ UNCHANGED vars
  BY <1>1 DEF Select, AcceptExit, vars, ScanEnd, Down
<1>2. ASSUME NEW c \in Clients, AcceptSlot(c) \/ AcceptLeak(c) PROVE Down'
  BY <1>2 DEF AcceptSlot, AcceptLeak, Down
<1>3. ASSUME NEW c \in Clients, UserStep(c) PROVE Down'
  BY <1>3, UserNet DEF Down
<1> QED BY <1>1, <1>2, <1>3, StepCases

\* An announcement of c adds its place to those of the earlier ones.
LEMMA AnnouncedAppend ==
  ASSUME NEW h \in Seq(Events), NEW k \in Nat, k <= Len(h), NEW c, NEW x \in Events
  PROVE  LET new == Announced(Append(h, x), k, c)
             old == Announced(h, k, c)
         IN  /\ Cardinality(old) \in Nat
             /\ ~ (x.of = c /\ x.kind \in {"join", "welcome"}) => new = old
             /\ x.of = c /\ x.kind \in {"join", "welcome"} =>
                  Cardinality(new) = Cardinality(old) + 1
<1> DEFINE g   == Append(h, x)
           new == Announced(g, k, c)
           old == Announced(h, k, c)
           a   == Len(h) + 1
           is  == x.of = c /\ x.kind \in {"join", "welcome"}
<1>1. /\ Len(g) = Len(h) + 1 /\ \A n \in 1 .. Len(h) : g[n] = h[n]
      /\ g[Len(h) + 1] = x
  BY AppendProperties
<1>2. Len(h) \in Nat
  OBVIOUS
<1> HIDE DEF g
<1>3. \A n \in k + 1 .. Len(h) : n \in 1 .. Len(h)
  BY <1>2
<1>4. k + 1 .. Len(h) + 1 = (k + 1 .. Len(h)) \cup {Len(h) + 1}
  BY <1>2
<1>5. new = old \cup {n \in {Len(h) + 1} : is}
  <2>1. new = {n \in k + 1 .. Len(h) + 1 : g[n].of = c /\ g[n].kind \in {"join", "welcome"}}
    BY <1>1 DEF Announced
  <2>2. old = {n \in k + 1 .. Len(h) : h[n].of = c /\ h[n].kind \in {"join", "welcome"}}
    BY DEF Announced
  <2> HIDE DEF new, old
  <2> QED BY <1>1, <1>3, <1>4, <2>1, <2>2
<1>6. IsFiniteSet(old)
  <2>1. old \subseteq 1 .. Len(h)
    BY <1>3 DEF Announced
  <2>2. IsFiniteSet(1 .. Len(h))
    BY <1>2, FS_Interval
  <2> QED BY <2>1, <2>2, FS_Subset
<1>7. a \notin old
  BY <1>2 DEF Announced
<1>8. Cardinality(old) \in Nat
  BY <1>6, FS_CardinalityType
<1>9. ~ is => new = old
  BY <1>5
<1>10. is => Cardinality(new) = Cardinality(old) + 1
  <2>1. is => new = old \cup {a}
    BY <1>5
  <2>2. Cardinality(old \cup {a}) = Cardinality(old) + 1
    BY <1>6, <1>7, FS_AddElement
  <2> QED BY <2>1, <2>2
<1> QED BY <1>8, <1>9, <1>10 DEF g

\* Nothing comes after the last event.
LEMMA AnnouncedLast ==
  ASSUME NEW h \in Seq(Events), NEW c
  PROVE  Cardinality(Announced(h, Len(h), c)) = 0
<1>1. Announced(h, Len(h), c) = {}
  BY DEF Announced
<1> QED BY <1>1, FS_EmptySet

LEMMA SameStep ==
  TypeOK /\ TableInv /\ PhaseInv /\ SameConversation /\ [Next]_vars => SameConversation'
<1> SUFFICES ASSUME TypeOK, TableInv, PhaseInv, SameConversation, [Next]_vars,
                    NEW d \in Clients, NEW e \in Clients, d # e,
                    Present(d)', Present(e)', ~ Down',
                    NEW k \in Announced(out'[d], 0, e), NEW j \in Announced(out'[e], 0, e),
                    Cardinality(Announced(out'[d], k, e)) = Cardinality(Announced(out'[e], j, e))
             PROVE  SameHeard(out'[d], k, out'[e], j, Clients \ {d, e})
  BY DEF SameConversation
<1> DEFINE others == Clients \ {d, e}
<1>o. out[d] \in Seq(Events) /\ out[e] \in Seq(Events)
  BY DEF TypeOK
\* What held of two old announcements.
<1>s. ASSUME ~ Down, k \in Announced(out[d], 0, e), j \in Announced(out[e], 0, e),
             Cardinality(Announced(out[d], k, e)) = Cardinality(Announced(out[e], j, e))
      PROVE  SameHeard(out[d], k, out[e], j, others)
  <2>1. out[d] # <<>> /\ out[e] # <<>>
    BY <1>s DEF Announced
  <2> QED BY <1>s, <2>1 DEF SameConversation, PhaseInv
<1>1. CASE \A s \in Slots : ~ Reads(s)
  <2>1. out'[d] = out[d] /\ out'[e] = out[e]
    BY <1>1, HeardStays DEF Present
  <2>2. ~ Down
    BY <1>1, DownStays
  <2> QED BY <1>s, <2>1, <2>2
<1>2. ASSUME NEW s \in Slots, Reads(s) PROVE SameHeard(out'[d], k, out'[e], j, others)
  <2>0. PICK h \in Clients : h = Holder(s)
    BY <1>2, ReadTable
  <2>1. PICK x, w : Tells(s, x, w) /\ Says(s, x, w)
    BY <1>2, ReadTells
  <2>2. ~ Down /\ pc' # "killed" /\ peer[d] = "up" /\ peer[e] = "up"
    BY <1>2, ReadTells DEF Wears, Down, Present
  <2>4. /\ x \in Events /\ x.of = h /\ x.kind # "welcome"
        /\ w \in Events /\ w.of = h /\ w.kind = "welcome"
    BY <2>0, <2>1 DEF Tells
  <2>5. \A c \in {d, e} : /\ DOMAIN out[c] = 1 .. Len(out[c]) /\ Len(out[c]) \in Nat
                          /\ \A n \in 1 .. Len(out[c]) : out'[c][n] = out[c][n]
    BY <2>1, OneMore
  <2>6. \A c \in {d, e} : out'[c] = out[c] \/ out'[c] = Append(out[c], IF c = h THEN w ELSE x)
    BY <2>0, <2>1, OneMore
  <2>p. /\ \A c \in {d, e} : out[c] # <<>> => Present(c)
        /\ \A c \in {d, e} : out'[c] # out[c] => Present(c)
        /\ out'[d] # <<>> /\ out'[e] # <<>>
    <3>1. out'[d] # <<>> /\ out'[e] # <<>>
      BY DEF Announced
    <3> QED BY <2>0, <2>1, <3>1 DEF PhaseInv, Tells
  <2>q. Present(d) /\ Present(e)
    BY <2>p
  \* Two old announcements of the same number: what was heard since grows alike.
  <2>g. ASSUME k \in Announced(out[d], 0, e), j \in Announced(out[e], 0, e),
               Cardinality(Announced(out[d], k, e)) = Cardinality(Announced(out[e], j, e))
        PROVE  SameHeard(out'[d], k, out'[e], j, others)
    <3>1. k \in DOMAIN out[d] /\ j \in DOMAIN out[e]
      BY <2>5, <2>g DEF Announced
    <3>2. SameHeard(out[d], k, out[e], j, others)
      BY <1>s, <2>2, <2>g
    <3>4. CASE h \notin {d, e}
      <4>1. \/ out'[d] = Append(out[d], x) /\ out'[e] = Append(out[e], x)
            \/ out'[d] = out[d] /\ out'[e] = out[e]
        BY <2>0, <2>1, <2>2, <2>q, <3>4 DEF Tells
      <4>2. x.of \in others
        BY <2>4, <3>4
      <4> HIDE DEF others
      <4>3. SameHeard(Append(out[d], x), k, Append(out[e], x), j, others)
        BY <1>o, <2>4, <3>1, <3>2, <4>2, SameBoth
      <4> QED BY <3>2, <4>1, <4>3
    <3>5. CASE h \in {d, e}
      <4>1. x.of \notin others /\ w.of \notin others
        BY <2>4, <3>5
      <4>2. PICK y \in {w, x} : out'[d] = out[d] \/ out'[d] = Append(out[d], y)
        BY <2>6
      <4>3. PICK z \in {w, x} : out'[e] = out[e] \/ out'[e] = Append(out[e], z)
        BY <2>6
      <4>4. /\ y \in Events /\ y.of \notin others /\ z \in Events /\ z.of \notin others
        BY <2>4, <4>1
      <4>5. SameHeard(out'[d], k, out[e], j, others)
        BY <1>o, <3>1, <3>2, <4>2, <4>4, SameIgnored
      <4>6. out'[d] \in Seq(Events) /\ k \in DOMAIN out'[d]
        <5>1. Append(out[d], y) \in Seq(Events) /\ Len(Append(out[d], y)) = Len(out[d]) + 1
          BY <1>o, <4>4, AppendProperties
        <5>2. k \in 1 .. Len(out[d]) /\ Len(out[d]) \in Nat
          BY <2>5, <3>1
        <5>3. k \in DOMAIN Append(out[d], y)
          BY <5>1, <5>2, LenProperties
        <5> QED BY <1>o, <3>1, <4>2, <5>1, <5>3
      <4> QED BY <1>o, <3>1, <4>3, <4>4, <4>5, <4>6, SameIgnored
    <3> QED BY <3>4, <3>5
  \* The read announces nothing of e.
  <2>7. CASE ~ (h = e /\ ReadName(s))
    <3>1. ASSUME NEW c \in {d, e}, out'[c] # out[c]
          PROVE  \E y \in Events : /\ out'[c] = Append(out[c], y)
                                   /\ ~ (y.of = e /\ y.kind \in {"join", "welcome"})
      <4>1. CASE h # e
        BY <2>4, <2>6, <3>1, <4>1
      <4>2. CASE h = e
        <5>1. ReadLine(s)
          BY <1>2, <2>0, <2>2, <2>7, <4>2 DEF Reads, ReadLeave, Broken
        <5>2. x.kind = "line" /\ username[s] # <<>>
          BY <2>1, <5>1 DEF Says, ReadLine
        <5>3. c # h
          BY <2>0, <2>1, <3>1, <4>2, <5>2 DEF Tells
        <5> QED BY <2>4, <2>6, <3>1, <5>2, <5>3
      <4> QED BY <4>1, <4>2
    <3>2. ASSUME NEW c \in {d, e}, NEW n \in Nat, n <= Len(out[c])
          PROVE  Announced(out'[c], n, e) = Announced(out[c], n, e)
      <4>1. CASE out'[c] = out[c]
        BY <4>1
      <4>2. CASE out'[c] # out[c]
        <5>1. PICK y \in Events : /\ out'[c] = Append(out[c], y)
                                  /\ ~ (y.of = e /\ y.kind \in {"join", "welcome"})
          BY <3>1, <4>2
        <5> QED BY <1>o, <3>2, <5>1, AnnouncedAppend
      <4> QED BY <4>1, <4>2
    <3>3. k \in Announced(out[d], 0, e) /\ j \in Announced(out[e], 0, e)
      BY <2>5, <3>2
    <3>4. k \in Nat /\ k <= Len(out[d]) /\ j \in Nat /\ j <= Len(out[e])
      BY <2>5, <3>3 DEF Announced
    <3> QED BY <2>g, <3>2, <3>3, <3>4
  \* The read announces e, to itself and to all others.
  <2>8. CASE h = e /\ ReadName(s)
    <3>1. x.kind = "join"
      BY <2>1, <2>8 DEF Says
    <3>2. out'[d] = Append(out[d], x) /\ out'[e] = Append(out[e], w)
      BY <2>0, <2>1, <2>2, <2>8, <2>q, <3>1 DEF Tells
    <3>3. ASSUME NEW c \in {d, e}, NEW n \in Announced(out'[c], 0, e)
          PROVE  \/ /\ n = Len(out'[c]) /\ Cardinality(Announced(out'[c], n, e)) = 0
                 \/ /\ n \in Announced(out[c], 0, e)
                    /\ Cardinality(Announced(out[c], n, e)) \in Nat
                    /\ Cardinality(Announced(out'[c], n, e)) = Cardinality(Announced(out[c], n, e)) + 1
      <4>1. PICK y \in Events : /\ out'[c] = Append(out[c], y)
                                /\ y.of = e /\ y.kind \in {"join", "welcome"}
        BY <2>4, <2>8, <3>1, <3>2
      <4>2. out'[c] \in Seq(Events) /\ Len(out'[c]) = Len(out[c]) + 1
        BY <1>o, <4>1, AppendProperties
      <4>3. n \in 1 .. Len(out[c]) + 1
        BY <2>5, <4>2 DEF Announced
      <4>4. CASE n = Len(out'[c])
        BY <4>2, <4>4, AnnouncedLast
      <4>5. CASE n # Len(out'[c])
        <5>1. n \in 1 .. Len(out[c]) /\ n \in Nat /\ n <= Len(out[c])
          BY <2>5, <4>2, <4>3, <4>5
        <5>2. n \in Announced(out[c], 0, e)
          BY <2>5, <5>1 DEF Announced
        <5>3. /\ Cardinality(Announced(out[c], n, e)) \in Nat
              /\ Cardinality(Announced(out'[c], n, e)) = Cardinality(Announced(out[c], n, e)) + 1
          BY <1>o, <4>1, <5>1, AnnouncedAppend
        <5> QED BY <5>2, <5>3
      <4> QED BY <4>4, <4>5
    <3> DEFINE Dk == Cardinality(Announced(out[d], k, e))
               Ej == Cardinality(Announced(out[e], j, e))
               Dn == Cardinality(Announced(out'[d], k, e))
               En == Cardinality(Announced(out'[e], j, e))
    <3>4. \/ k = Len(out'[d]) /\ Dn = 0
          \/ k \in Announced(out[d], 0, e) /\ Dk \in Nat /\ Dn = Dk + 1
      BY <3>3
    <3>5. \/ j = Len(out'[e]) /\ En = 0
          \/ j \in Announced(out[e], 0, e) /\ Ej \in Nat /\ En = Ej + 1
      BY <3>3
    <3>6. Dn = En
      OBVIOUS
    <3>7. Dk = Ej => k \notin Announced(out[d], 0, e) \/ j \notin Announced(out[e], 0, e)
                     \/ SameHeard(out'[d], k, out'[e], j, others)
      BY <2>g
    <3>8. out'[d] \in Seq(Events) /\ out'[e] \in Seq(Events)
      BY <1>o, <2>4, <3>2, AppendProperties
    <3>9. k = Len(out'[d]) /\ j = Len(out'[e]) => SameHeard(out'[d], k, out'[e], j, others)
      BY <3>8, SameEmpty
    <3> HIDE DEF Dk, Ej, Dn, En, others
    <3> QED BY <3>4, <3>5, <3>6, <3>7, <3>9
  <2> QED BY <2>7, <2>8
<1> QED BY <1>1, <1>2

-----------------------------------------------------------------------------
(* The theorems *)

LEMMA InvStep == Inv /\ [Next]_vars => Inv'
BY TypeStep, TableStep, SetStep, TextStep, PhaseStep, KeepsStep, SameStep DEF Inv, RoomInv

LEMMA InvCorrect == Spec => []Inv
BY InitInv, InvStep, PTL DEF Spec

\* For any number of clients and slots, and however connections end: a slot in
\* use has an open connection of its own, a free one no left-over name.
THEOREM SlotTableCorrect == Spec => []SlotTable
<1>1. Inv => SlotTable
  BY HolderType DEF Inv, SlotTable, TableInv
<1> QED BY <1>1, InvCorrect, PTL

\* The only thread never reads from a socket that has nothing to read.
THEOREM NeverBlocksCorrect == Spec => []NeverBlocks
<1>1. Inv => NeverBlocks
  BY DEF Inv, NeverBlocks, SetInv, Reading, Slots, TypeOK
<1> QED BY <1>1, InvCorrect, PTL

\* Whatever is shown under the name of a client that is not reset consists, like
\* the name, of words that it has typed, or that it had been sent when its input
\* ended and it sent its buffer again.
THEOREM OwnOrHeardCorrect == Spec => []OwnOrHeard
<1>1. ASSUME NEW name \in Texts, NEW text \in Texts, NEW W,
             name \in Seq(W), text \in Seq(W)
      PROVE  \A j \in DOMAIN (name \o text) : (name \o text)[j] \in W
  <2>1. name \o text \in Seq(W)
    BY <1>1, ConcatProperties
  <2> QED BY <2>1, ElementOfSeq, LenProperties
<1>2. Inv => OwnOrHeard
  <2> SUFFICES ASSUME Inv, NEW d \in Clients, NEW k \in DOMAIN out[d],
                      NEW e, e = out[d][k], ~ IsReset(e.of),
                      NEW j \in DOMAIN Told(e)
               PROVE  OwnWord(e.of, Told(e)[j])
    BY DEF OwnOrHeard, IsReset, Resets
  <2>1. e.of \in Clients /\ e.name \in Texts /\ e.text \in Texts
    BY HeardType DEF Inv, Events
  <2>2. e.name \in Seq(OwnWords(e.of)) /\ e.text \in Seq(OwnWords(e.of))
    BY <2>1 DEF Inv, TextInv
  <2>3. Told(e)[j] \in OwnWords(e.of)
    BY <1>1, <2>1, <2>2 DEF Told
  <2> QED BY <2>3 DEF OwnWords
<1> QED BY <1>2, InvCorrect, PTL

\* Whoever is in the room hears of another client without a name only that it
\* joins, then of one join under the name that it keeps for its lines and its
\* leave, and of nothing after it has left.
THEOREM KeepsNameCorrect == Spec => []KeepsName
<1>1. Inv => KeepsName
  BY DEF Inv, RoomInv
<1> QED BY <1>1, InvCorrect, PTL

\* Any two clients in the room have heard the same of all the others since the
\* later of the two was announced, and since each later announcement of it.
THEOREM SameConversationCorrect == Spec => []SameConversation
<1>1. Inv => SameConversation
  BY DEF Inv, RoomInv
<1> QED BY <1>1, InvCorrect, PTL
=============================================================================
