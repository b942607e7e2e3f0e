----------------------------- MODULE ChatServer -----------------------------
(***************************************************************************)
(* The chat room of Source_codes_Ch5/bai-tap-lab: server.c waits with      *)
(* select(), accepts one connection per round, and reads every client that *)
(* was ready; what a client sends before it has a name is its name, the    *)
(* rest is broadcast.  client.c sends a name without a newline, then the   *)
(* lines of its input and, when that has ended, whatever is in its buffer, *)
(* which is also the one it receives into.                                 *)
(*                                                                         *)
(* TCP keeps no boundaries: one read() returns everything that has arrived *)
(* (what arrives is far shorter than the buffer).  A handler of the server *)
(* is one action: it sends at most once to each client, and neither what a *)
(* client sends back nor its departure concerns any send but its own, so   *)
(* that every interleaving of the sends equals one of whole handlers.      *)
(***************************************************************************)
EXTENDS Integers, Sequences, FiniteSets

CONSTANTS
  Clients,     \* the connections of a behaviour
  NoClient,
  MaxClients,  \* MAX_CLIENTS, the length of clients[]
  Fds,         \* descriptor numbers the process may still obtain
  MaxTexts,    \* bound: what all clients send after their names
  Talkers,     \* bound: clients that send more than a name, or whose input ends
  MaxLeaves,   \* bound: clients that leave
  Departures   \* how a client's connection may end: subset of {"fin", "rst"}

ASSUME ClientsAssumption    == NoClient \notin Clients
ASSUME MaxClientsAssumption == MaxClients \in Nat \ {0}
ASSUME FdsAssumption        == Fds \subseteq Nat \ {0}
ASSUME MaxTextsAssumption   == MaxTexts \in Nat /\ MaxLeaves \in Nat /\ Talkers \subseteq Clients
ASSUME DeparturesAssumption == Departures \subseteq {"fin", "rst"}

Slots    == 1 .. MaxClients
Listener == 0

\* A text is a sequence of pieces: words <<who typed them, number>>, a name has
\* number 0; a newline; the server's own words; what an array held before it
\* was written, if not an empty string.
NewLine == <<NoClient, 1>>
Notice  == <<NoClient, 2>>
Junk    == <<NoClient, 0>>
Pieces  == (Clients \X (0 .. MaxTexts)) \cup {NewLine, Notice, Junk}
Texts   == Seq(Pieces)

\* What broadcast_message() and the welcome say, to one client.
Events == [kind : {"join", "welcome", "line", "leave"}, of : Clients,
           name : Texts, text : Texts]

VARIABLES
  pc,       \* accept, scan; exited and killed are final
  i,        \* first slot the scan has not come to
  readfds,  \* the set select() left
  fd,       \* clients[].fd, 0 if free
  username, \* clients[].username, a text
  buffer,   \* the text in buffer
  fdtab,    \* kernel: what each descriptor is open on
  conn,     \* kernel: idle, backlog, open, closed
  peer,     \* up; fin or rst received; lost or reset: the next send raises SIGPIPE
  inbox,    \* kernel: what a client sent and the server has not read
  out,      \* what the server has sent to each client that has not left
  user,     \* how far a client is with its input: name, lines, last (line, which
            \* has no newline), end (once fgets() has failed)
  clibuf,   \* the text in its buffer
  heard,    \* how many messages of out it has received
  said      \* how many texts all clients have sent after their names

table == <<fd, username>>
users == <<user, clibuf, heard, said>>
vars == <<pc, i, readfds, table, buffer, fdtab, conn, peer, inbox, out, users>>

TypeOK ==
  /\ pc \in {"accept", "scan", "exited", "killed"}
  /\ i \in 1 .. MaxClients + 1
  /\ readfds \subseteq Fds \cup {Listener}
  /\ fd \in [Slots -> Fds \cup {0}]
  /\ username \in [Slots -> Texts]
  /\ buffer \in Texts
  /\ fdtab \in [Fds -> Clients \cup {NoClient}]
  /\ conn \in [Clients -> {"idle", "backlog", "open", "closed"}]
  /\ peer \in [Clients -> {"up", "fin", "rst", "lost", "reset"}]
  /\ inbox \in [Clients -> Texts]
  /\ out \in [Clients -> Seq(Events)]
  /\ user \in [Clients -> {"name", "lines", "last", "end"}]
  /\ clibuf \in [Clients -> Texts]
  /\ heard \in [Clients -> Nat]
  /\ said \in 0 .. MaxTexts

Init ==
  /\ pc = "scan"
  /\ i = MaxClients + 1
  /\ readfds = {}
  /\ fd = [s \in Slots |-> 0]
  /\ username = [s \in Slots |-> <<>>]
  /\ buffer \in {<<>>, <<Junk>>}
  /\ fdtab = [f \in Fds |-> NoClient]
  /\ conn = [c \in Clients |-> "idle"]
  /\ peer = [c \in Clients |-> "up"]
  /\ inbox = [c \in Clients |-> <<>>]
  /\ out = [c \in Clients |-> <<>>]
  /\ user = [c \in Clients |-> "name"]
  /\ clibuf = [c \in Clients |-> <<>>]
  /\ heard = [c \in Clients |-> 0]
  /\ said = 0

-----------------------------------------------------------------------------

Backlog   == {c \in Clients : conn[c] = "backlog"}
FreeFds   == {f \in Fds : fdtab[f] = NoClient}
LowestFd  == CHOOSE f \in FreeFds : \A g \in FreeFds : f <= g
FreeSlots == {s \in Slots : fd[s] = 0}
FirstFree == CHOOSE s \in FreeSlots : \A t \in FreeSlots : s <= t

Holder(s)   == fdtab[fd[s]]
Readable(c) == inbox[c] # <<>> \/ peer[c] # "up"
Broken      == {"lost", "reset"}
\* A departed peer once a send has failed, or read() has returned -1.
Failed(p)   == IF p \in {"rst", "reset"} THEN "reset" ELSE "lost"

\* The sockets the select() call watches that have something to read.
Ready == {f \in Fds : (\E s \in Slots : fd[s] = f) /\ Readable(fdtab[f])}
         \cup (IF Backlog # {} THEN {Listener} ELSE {})

\* strcspn: the text up to and without its first newline.
Breaks(text) == {k \in DOMAIN text : text[k] = NewLine}
FirstLine(text) ==
  IF Breaks(text) = {} THEN text
  ELSE SubSeq(text, 1, (CHOOSE k \in Breaks(text) : \A j \in Breaks(text) : k <= j) - 1)

-----------------------------------------------------------------------------
(* The server *)

\* Mutant: the last slot is left out.
ReadingButLast(s) ==
  /\ pc = "scan"
  /\ s \in i .. MaxClients - 1 /\ fd[s] \in readfds \ {0}
  /\ \A t \in i .. s - 1 : fd[t] \notin readfds \ {0}

\* The scan has come to slot s: it is in use and its descriptor in the set,
\* the slots since the last one read are not.
Reading(s) ==
  /\ pc = "scan"
  /\ s \in i .. MaxClients /\ fd[s] \in readfds \ {0}
  /\ \A t \in i .. s - 1 : fd[t] \notin readfds \ {0}

ScanEnd == pc = "scan" /\ \A s \in Slots : ~ Reading(s)

\* Mutant: the set is not rebuilt from the table, closed clients stay in it.
SelectStale ==
  /\ ScanEnd
  /\ Ready # {}
  /\ readfds' = readfds \cup Ready
  /\ i' = 1
  /\ pc' = IF Listener \in readfds' THEN "accept" ELSE "scan"
  /\ UNCHANGED <<table, buffer, fdtab, conn, peer, inbox, out, users>>

Select ==
  /\ ScanEnd
  /\ Ready # {}
  /\ readfds' = Ready
  /\ i' = 1
  /\ pc' = IF Listener \in readfds' THEN "accept" ELSE "scan"
  /\ UNCHANGED <<table, buffer, fdtab, conn, peer, inbox, out, users>>

\* The accepted socket goes to the first free slot.
AcceptSlot(c) ==
  /\ pc = "accept"
  /\ c \in Backlog
  /\ FreeFds # {}
  /\ FreeSlots # {}
  /\ fdtab' = [fdtab EXCEPT ![LowestFd] = c]
  /\ fd' = [fd EXCEPT ![FirstFree] = LowestFd]
  /\ username' = [username EXCEPT ![FirstFree] = <<>>]
  /\ conn' = [conn EXCEPT ![c] = "open"]
  /\ pc' = "scan"
  /\ UNCHANGED <<i, readfds, buffer, peer, inbox, out, users>>

\* Mutant: with no slot free accept() is not called.
AcceptNot(c) ==
  /\ pc = "accept"
  /\ c \in Backlog
  /\ FreeFds # {}
  /\ FreeSlots = {}
  /\ pc' = "scan"
  /\ UNCHANGED <<i, readfds, table, buffer, fdtab, conn, peer, inbox, out, users>>

\* No slot is free: the socket is kept open and never looked at again.
AcceptLeak(c) ==
  /\ pc = "accept"
  /\ c \in Backlog
  /\ FreeFds # {}
  /\ FreeSlots = {}
  /\ fdtab' = [fdtab EXCEPT ![LowestFd] = c]
  /\ conn' = [conn EXCEPT ![c] = "open"]
  /\ pc' = "scan"
  /\ UNCHANGED <<i, readfds, table, buffer, peer, inbox, out, users>>

\* accept() fails: the server exits.
AcceptExit ==
  /\ pc = "accept"
  /\ FreeFds = {}
  /\ pc' = "exited"
  /\ UNCHANGED <<i, readfds, table, buffer, fdtab, conn, peer, inbox, out, users>>

\* Mutant: the loop ends one slot early.
OthersButLast(s) == {t \in 1 .. MaxClients - 1 : fd[t] > 0 /\ fd[t] # fd[s]}

\* broadcast_message(): the slots in use but the sender's.
Others(s) == {t \in Slots : fd[t] > 0 /\ fd[t] # fd[s]}

\* Event e to the slots ts in ascending order, then welcome to slot s if it is
\* one of them; p is the state of the connections.  A send to a failed peer is
\* lost; one to a broken connection raises SIGPIPE, which ends the process.
SendAll(p, s, ts, e, welcome) ==
  LET at(t)   == IF t = s THEN MaxClients + 1 ELSE t
      broken  == {t \in ts : p[Holder(t)] \in Broken}
      reached == {Holder(t) : t \in {u \in ts : \A b \in broken : at(u) < at(b)}}
  IN /\ out' = [d \in Clients |->
                  IF d \in reached /\ p[d] = "up"
                  THEN Append(out[d], IF d = Holder(s) THEN welcome ELSE e)
                  ELSE out[d]]
     /\ peer' = [d \in Clients |->
                   IF d \in reached /\ p[d] # "up" THEN Failed(p[d]) ELSE p[d]]
     /\ pc' = IF broken = {} THEN pc ELSE "killed"

Event(kind, s, name, text) ==
  [kind |-> kind, of |-> Holder(s), name |-> name, text |-> text]

\* Mutant: the slot is not freed.
ReadLeaveKeep(s) ==
  /\ Reading(s)
  /\ inbox[Holder(s)] = <<>>
  /\ peer[Holder(s)] \in {"fin"} \cup Broken
  /\ SendAll(peer, s, IF username[s] = <<>> THEN {} ELSE Others(s),
             Event("leave", s, username[s], <<>>), <<>>)
  /\ i' = s + 1
  /\ UNCHANGED <<readfds, table, buffer, fdtab, conn, inbox, users>>

\* Mutant: the name stays in the freed slot.
ReadLeaveName(s) ==
  /\ Reading(s)
  /\ inbox[Holder(s)] = <<>>
  /\ peer[Holder(s)] \in {"fin"} \cup Broken
  /\ SendAll(peer, s, IF username[s] = <<>> THEN {} ELSE Others(s),
             Event("leave", s, username[s], <<>>), <<>>)
  /\ fdtab' = [fdtab EXCEPT ![fd[s]] = NoClient]
  /\ conn' = [conn EXCEPT ![Holder(s)] = "closed"]
  /\ fd' = [fd EXCEPT ![s] = 0]
  /\ i' = s + 1
  /\ UNCHANGED <<readfds, username, buffer, inbox, users>>

\* read() returns 0: the others are told if the client had a name.
ReadLeave(s) ==
  /\ Reading(s)
  /\ inbox[Holder(s)] = <<>>
  /\ peer[Holder(s)] \in {"fin"} \cup Broken
  /\ SendAll(peer, s, IF username[s] = <<>> THEN {} ELSE Others(s),
             Event("leave", s, username[s], <<>>), <<>>)
  /\ fdtab' = [fdtab EXCEPT ![fd[s]] = NoClient]
  /\ conn' = [conn EXCEPT ![Holder(s)] = "closed"]
  /\ fd' = [fd EXCEPT ![s] = 0]
  /\ username' = [username EXCEPT ![s] = <<>>]
  /\ i' = s + 1
  /\ UNCHANGED <<readfds, buffer, inbox, users>>

\* read() returns everything that has arrived, or -1 once for a reset: then
\* the text is what the buffer held before.  (buffer[-1] = '\0' falls on a
\* byte that is zero already, or that nothing here looks at.)
Arrived(s) == inbox[Holder(s)] # <<>> \/ peer[Holder(s)] = "rst"
Text(s)    == IF inbox[Holder(s)] # <<>> THEN inbox[Holder(s)] ELSE buffer
AfterRead(s) ==
  [peer EXCEPT ![Holder(s)] =
     IF inbox[Holder(s)] = <<>> THEN Failed(@) ELSE @]

\* The first text is the name, up to its newline; buffer is cut there too.  As long as
\* it is empty, the next text is a name again.
ReadName(s) ==
  /\ Reading(s)
  /\ Arrived(s)
  /\ username[s] = <<>>
  /\ username' = [username EXCEPT ![s] = FirstLine(Text(s))]
  /\ buffer' = FirstLine(Text(s))
  /\ SendAll(AfterRead(s), s, Others(s) \cup {s},
             Event("join", s, FirstLine(Text(s)), <<>>),
             Event("welcome", s, FirstLine(Text(s)), <<>>))
  /\ inbox' = [inbox EXCEPT ![Holder(s)] = <<>>]
  /\ i' = s + 1
  /\ UNCHANGED <<readfds, fd, fdtab, conn, users>>

\* Mutant: the text is shown under the name in the first slot.
ReadLineFirst(s) ==
  /\ Reading(s)
  /\ Arrived(s)
  /\ username[s] # <<>>
  /\ buffer' = Text(s)
  /\ SendAll(AfterRead(s), s, Others(s), Event("line", s, username[1], Text(s)), <<>>)
  /\ inbox' = [inbox EXCEPT ![Holder(s)] = <<>>]
  /\ i' = s + 1
  /\ UNCHANGED <<readfds, table, fdtab, conn, users>>

ReadLine(s) ==
  /\ Reading(s)
  /\ Arrived(s)
  /\ username[s] # <<>>
  /\ buffer' = Text(s)
  /\ SendAll(AfterRead(s), s, Others(s), Event("line", s, username[s], Text(s)), <<>>)
  /\ inbox' = [inbox EXCEPT ![Holder(s)] = <<>>]
  /\ i' = s + 1
  /\ UNCHANGED <<readfds, table, fdtab, conn, users>>

Server ==
  \/ Select \/ AcceptExit
  \/ \E c \in Clients : AcceptSlot(c) \/ AcceptLeak(c)
  \/ \E s \in Slots : ReadLeave(s) \/ ReadName(s) \/ ReadLine(s)

-----------------------------------------------------------------------------
(* The clients *)

Down == pc \in {"exited", "killed"}

Connect(c) ==
  /\ conn[c] = "idle"
  /\ ~ Down
  /\ conn' = [conn EXCEPT ![c] = "backlog"]
  /\ UNCHANGED <<pc, i, readfds, table, buffer, fdtab, peer, inbox, out, users>>

\* When the server is down its clients lose their connections and end.
Connected(c) == conn[c] \in {"backlog", "open"} /\ peer[c] = "up" /\ ~ Down

\* The input of c has ended.
Ended(c) == user[c] \in {"last", "end"}

\* send() of the text in the client's buffer, which is none if the text is empty.
SendText(c, text, u) ==
  /\ Connected(c)
  /\ inbox' = [inbox EXCEPT ![c] = @ \o text]
  /\ clibuf' = [clibuf EXCEPT ![c] = text]
  /\ user' = [user EXCEPT ![c] = u]
  /\ UNCHANGED <<pc, i, readfds, table, buffer, fdtab, conn, peer, out>>

SayNext == said < MaxTexts /\ said' = said + 1

\* The name, empty if the user only hits return; with no input at all it is what
\* the array held.
EnterName(c) ==
  /\ user[c] = "name"
  /\ \/ SendText(c, <<<<c, 0>>>>, "lines") /\ UNCHANGED said
     \/ c \in Talkers /\ SendText(c, <<>>, "lines") /\ UNCHANGED said
     \/ c \in Talkers /\ SayNext /\ SendText(c, <<Junk>>, "end")
  /\ UNCHANGED heard

\* A line, an empty line, or the last line of an input that ends without newline.
SendLine(c) ==
  /\ c \in Talkers /\ user[c] = "lines"
  /\ SayNext
  /\ \/ SendText(c, <<<<c, said'>>, NewLine>>, "lines")
     \/ SendText(c, <<NewLine>>, "lines")
     \/ SendText(c, <<<<c, said'>>>>, "last")
  /\ UNCHANGED heard

\* What the screen shows of an event, and of the k-th to the n-th event in h.
Rendered(e) == e.name \o (IF e.kind = "line" THEN e.text ELSE <<Notice, NewLine>>)
Joined(h, k, n) ==
  LET text[j \in k - 1 .. n] == IF j < k THEN <<>> ELSE text[j - 1] \o Rendered(h[j])
  IN  text[n]

\* fgets() fails, and what the buffer holds is sent again: what the last recv()
\* returned, if there was one since the last send(), of one or of more events.
\* Once fgets() has failed every recv() is followed by a send(); before, several
\* may come one after the other, of which only the last leaves anything behind.
\* (A recv() is no step of its own: what is received here can have arrived just
\* before.  One that a line follows leaves nothing at all.)
SendAgain(c) ==
  /\ c \in Talkers /\ user[c] # "name"
  /\ SayNext
  /\ \/ SendText(c, clibuf[c], "end") /\ UNCHANGED heard
     \/ \E n \in heard[c] + 1 .. Len(out[c]) : \E k \in heard[c] + 1 .. n :
          /\ user[c] = "end" => k = heard[c] + 1
          /\ SendText(c, Joined(out[c], k, n), "end")
          /\ heard' = [heard EXCEPT ![c] = n]

\* The user's process ends; what it has been sent concerns nobody any more.
Leave(c, how) ==
  /\ Connected(c)
  /\ Cardinality({d \in Clients : peer[d] # "up"}) < MaxLeaves
  /\ peer' = [peer EXCEPT ![c] = how]
  /\ out' = [out EXCEPT ![c] = <<>>]
  /\ heard' = [heard EXCEPT ![c] = 0]
  /\ clibuf' = [clibuf EXCEPT ![c] = <<>>]
  /\ UNCHANGED <<pc, i, readfds, table, buffer, fdtab, conn, inbox, user, said>>

Next ==
  \/ Server
  \/ \E c \in Clients :
       \/ Connect(c) \/ EnterName(c) \/ SendLine(c)
       \/ SendAgain(c) \/ \E how \in Departures : Leave(c, how)

Spec == Init /\ [][Next]_vars

\* The server's process is scheduled; the users promise nothing.
FairSpec == Spec /\ WF_vars(Server)

-----------------------------------------------------------------------------
(* Properties *)

\* Each connection has at most one slot, each slot in use an open connection,
\* and a free slot no left-over name for its next client.
SlotTable ==
  /\ TypeOK
  /\ ~ Down =>
       /\ \A s \in Slots : IF fd[s] = 0 THEN username[s] = <<>>
                           ELSE Holder(s) # NoClient /\ conn[Holder(s)] = "open"
       /\ \A s, t \in Slots : s # t /\ fd[s] > 0 => fd[s] # fd[t]

\* The set select() left is still right when a slot is reached: accepts and
\* departures in between never make the only thread read() from a socket with
\* nothing to read, where it would wait while every other client is ready.
NeverBlocks == \A s \in Slots : Reading(s) => Readable(Holder(s))

Present(c) == peer[c] = "up" /\ \E s \in Slots : fd[s] > 0 /\ Holder(s) = c

\* Where in h, after its k-th event, others are spoken of.
After(h, k, others) == {n \in k + 1 .. Len(h) : h[n].of \in others}

\* h after k and g after j tell the same of others: the events match one to one
\* and in the same order.
SameHeard(h, k, g, j, others) ==
  \E f \in [After(h, k, others) -> After(g, j, others)] :
    /\ \A n \in After(g, j, others) : \E m \in DOMAIN f : f[m] = n
    /\ \A m, n \in DOMAIN f : m < n => f[m] < f[n]
    /\ \A n \in DOMAIN f : g[f[n]] = h[n]

\* Where in h, after its k-th event, client c is announced, to itself or others.
Announced(h, k, c) ==
  {n \in k + 1 .. Len(h) : h[n].of = c /\ h[n].kind \in {"join", "welcome"}}

\* Two clients in the room have seen the same conversation of the others, in
\* the same order and without gaps, from any moment on at which the later one was
\* announced.  (It is announced again as long as it has no name; an announcement
\* has as many after it for the one as for the other.)
SameConversation ==
  \A d, e \in Clients : d # e /\ Present(d) /\ Present(e) /\ ~ Down =>
    \A k \in Announced(out[d], 0, e), j \in Announced(out[e], 0, e) :
      Cardinality(Announced(out[d], k, e)) = Cardinality(Announced(out[e], j, e)) =>
        SameHeard(out[d], k, out[e], j, Clients \ {d, e})

\* To everyone, a client is announced without a name, however often, before it
\* has one, once with its name, which it keeps for all it says and for its
\* leave, and after that nothing is heard of it.
KeepsName ==
  \A d \in Clients : \A n \in DOMAIN out[d] : \A k \in 1 .. n - 1 :
    LET e == out[d][k]
        f == out[d][n]
    IN  e.of = f.of /\ e.of # d =>
          /\ e.kind # "leave"
          /\ e.name = <<>> => e.kind = "join"
          /\ e.name # <<>> => f.kind # "join" /\ f.name = e.name

\* An event's name and text were typed by the client it is an event of.
Told(e)       == e.name \o e.text
Attributed(e) == \A j \in DOMAIN Told(e) : Told(e)[j][1] \in {e.of, NoClient}

\* "Normal message" (server.c:162): a line shown under a name was typed, like
\* the name, by the client whose connection it came from, never by another one.
Attribution == \A d \in Clients : \A k \in DOMAIN out[d] : Attributed(out[d][k])

\* c has typed these words, or its input has ended and the server has sent them
\* to c (which is forgotten when c leaves).
WasSent(c, w) == \E k \in DOMAIN out[c] : \E j \in DOMAIN Told(out[c][k]) : Told(out[c][k])[j] = w
OwnWord(c, w) == w[1] \in {c, NoClient} \/ (Ended(c) /\ (peer[c] = "up" => WasSent(c, w)))

\* What does hold: a client that is not reset is given no words that it has not
\* typed, or heard in the room and sent back at the end of its input, whatever
\* happens to the others and whichever slots are reused.
OwnOrHeard ==
  \A d \in Clients : \A k \in DOMAIN out[d] :
    LET e == out[d][k]
    IN  peer[e.of] \notin {"rst", "reset"} => \A j \in DOMAIN Told(e) : OwnWord(e.of, Told(e)[j])

\* Whatever a client in a slot sends is read, and a departure is noticed.
Served ==
  \A c \in Clients :
    (\E s \in Slots : fd[s] > 0 /\ Holder(s) = c) /\ Readable(c)
      ~> Down \/ conn[c] = "closed" \/ ~ Readable(c)

\* Whoever connects is accepted, or the server exits for want of descriptors.
Accepted == \A c \in Clients : conn[c] = "backlog" ~> Down \/ conn[c] # "backlog"
=============================================================================
