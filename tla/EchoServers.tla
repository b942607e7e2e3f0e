---------------------------- MODULE EchoServers ----------------------------
(***************************************************************************)
(* Three single-threaded servers that keep their clients in a table, wait  *)
(* for events, accept at most one connection per round and answer each     *)
(* client that was reported readable:                                      *)
(*   "select"  single-process-select-server.c, ten slots, first free slot  *)
(*   "poll"    bai-tap-poll/bai10.c, an array shrunk by swap removal       *)
(*   "single"  bai-tap-select/bai12.c, one variable for the one client     *)
(* A behaviour runs one of them.  The client is bai-tap-select/bai13.c,    *)
(* which connects to the port all three listen on.                         *)
(*                                                                         *)
(* A read() returns everything that has arrived (texts are far shorter     *)
(* than the buffers); read() and the send() of the answer are two steps,   *)
(* between which the client may send more, or leave.                       *)
(***************************************************************************)
EXTENDS Integers, FiniteSets, Functions

CONSTANTS
  Clients,     \* the connections of a behaviour
  NoClient,
  MaxClients,  \* MAX_CLIENTS of the select() server
  Fds,         \* descriptor numbers the process may still obtain
  MaxSent      \* bound: texts that open connections have sent, taken together

ASSUME ClientsAssumption == NoClient \notin Clients
ASSUME FdsAssumption     == Fds \subseteq Nat \ {0} /\ IsFiniteSet(Fds)
ASSUME SlotsAssumption   == MaxClients \in 1 .. Cardinality(Fds)
ASSUME SentAssumption    == MaxSent \in Nat

Programs == {"select", "poll", "single"}
\* fds[] of the poll() server is never shorter than the descriptors here.
Slots    == 1 .. Cardinality(Fds)

VARIABLES
  program, \* which of the servers runs
  pc,      \* accept, scan, reply; exited and killed are final
  i,       \* first slot the scan has not come to, or the one to reply to
  slot,    \* client_sockets[], fds[1 ..].fd, client: 0 if not in use
  ready,   \* descriptors select() left in the set, or slots with POLLIN
  fresh,   \* history: the connection accepted in this round
  fdtab,   \* kernel: what each descriptor is open on
  conn,    \* kernel: idle, backlog, open, closed
  peer,    \* up; fin or rst received; lost or reset: the next send raises SIGPIPE
  inbox,   \* kernel: texts the server has not read
  sent,    \* texts the client has sent
  unread   \* kernel: the client has answers to read

server == <<program, pc, i, slot, ready, fresh>>
net    == <<fdtab, conn, peer, inbox, sent, unread>>
vars   == <<server, net>>

TypeOK ==
  /\ program \in Programs
  /\ pc \in {"accept", "scan", "reply", "exited", "killed"}
  /\ i \in 1 .. Cardinality(Fds) + 1
  /\ slot \in [Slots -> Fds \cup {0}]
  /\ ready \subseteq IF program = "poll" THEN Slots ELSE Fds
  /\ fresh \in Clients \cup {NoClient}
  /\ fdtab \in [Fds -> Clients \cup {NoClient}]
  /\ conn \in [Clients -> {"idle", "backlog", "open", "closed"}]
  /\ peer \in [Clients -> {"up", "fin", "rst", "lost", "reset"}]
  /\ inbox \in [Clients -> Nat]
  /\ sent \in [Clients -> Nat]
  /\ unread \in [Clients -> BOOLEAN]

\* fds[] is on the stack and not initialised: any slot may hold POLLIN.
Init ==
  /\ program \in Programs
  /\ pc = "scan"
  /\ i = Cardinality(Fds) + 1
  /\ slot = [s \in Slots |-> 0]
  /\ ready \in IF program = "poll" THEN SUBSET Slots ELSE {{}}
  /\ fresh = NoClient
  /\ fdtab = [f \in Fds |-> NoClient]
  /\ conn = [c \in Clients |-> "idle"]
  /\ peer = [c \in Clients |-> "up"]
  /\ inbox = [c \in Clients |-> 0]
  /\ sent = [c \in Clients |-> 0]
  /\ unread = [c \in Clients |-> FALSE]

-----------------------------------------------------------------------------
(* The kernel, and what the loops look at *)

Backlog     == {c \in Clients : conn[c] = "backlog"}
FreeFds     == {f \in Fds : fdtab[f] = NoClient}
LowestFd    == CHOOSE f \in FreeFds : \A g \in FreeFds : f <= g
Readable(c) == inbox[c] > 0 \/ peer[c] # "up"
Broken      == {"lost", "reset"}
\* A departed peer once a send has failed, or read() has returned -1.
Failed(p)   == IF p \in {"rst", "reset"} THEN "reset" ELSE "lost"

Used      == {s \in Slots : slot[s] # 0}
Holder(s) == fdtab[slot[s]]
Watched(c) == \E s \in Used : Holder(s) = c

\* client_sockets[] has MaxClients slots, client is one.
FreeSlots == {s \in 1 .. MaxClients : slot[s] = 0}
FirstFree == CHOOSE s \in FreeSlots : \A t \in FreeSlots : s <= t

\* FD_ISSET of the slot's descriptor, or POLLIN in the slot's revents.
Reported(s) == (IF program = "poll" THEN s ELSE slot[s]) \in ready

\* Mutant: the loop ends one slot early.
ReadingButLast(s) ==
  /\ pc = "scan"
  /\ s \in Used /\ s >= i /\ Reported(s) /\ s < Cardinality(Fds)
  /\ \A t \in Used : i <= t /\ t < s => ~ Reported(t)

\* The scan has come to slot s, the next one in use that was reported.
Reading(s) ==
  /\ pc = "scan"
  /\ s \in Used /\ s >= i /\ Reported(s)
  /\ \A t \in Used : i <= t /\ t < s => ~ Reported(t)

ScanEnd == pc = "scan" /\ \A s \in Used : ~ Reading(s)

\* The only thread waits in recv() for a client with nothing to read.
Blocked == \E s \in Used : Reading(s) /\ ~ Readable(Holder(s))

-----------------------------------------------------------------------------
(* The servers *)

\* Mutant: the set is not cleared before it is filled.
SelectStale ==
  /\ program # "poll"
  /\ ready' = ready \cup {slot[s] : s \in {t \in Used : Readable(Holder(t))}}

\* select() on the listener and the descriptors in use, set up anew.
Select ==
  /\ program # "poll"
  /\ ready' = {slot[s] : s \in {t \in Used : Readable(Holder(t))}}

\* poll() writes revents of the slots in use only.
Poll ==
  /\ program = "poll"
  /\ ready' = {s \in Slots : IF s \in Used THEN Readable(Holder(s)) ELSE s \in ready}

Wait ==
  /\ ScanEnd
  /\ Backlog # {} \/ \E s \in Used : Readable(Holder(s))
  /\ Select \/ Poll
  /\ fresh' = NoClient
  /\ i' = 1
  /\ pc' = IF Backlog # {} THEN "accept" ELSE "scan"
  /\ UNCHANGED <<program, slot, net>>

\* poll() may run out of memory, which ends the loop; select() needs none for
\* so few descriptors.
PollError ==
  /\ program = "poll"
  /\ ScanEnd
  /\ pc' = "exited"
  /\ UNCHANGED <<program, i, slot, ready, fresh, net>>

\* accept(): the lowest free descriptor.
Take(c) ==
  /\ pc = "accept"
  /\ c \in Backlog
  /\ FreeFds # {}
  /\ fdtab' = [fdtab EXCEPT ![LowestFd] = c]
  /\ conn' = [conn EXCEPT ![c] = "open"]
  /\ pc' = "scan"
  /\ fresh' = c
  /\ UNCHANGED <<program, i, ready, peer, inbox, sent, unread>>

AcceptSlot(c) ==
  /\ program = "select"
  /\ FreeSlots # {}
  /\ Take(c)
  /\ slot' = [slot EXCEPT ![FirstFree] = LowestFd]

\* No slot is free: the socket stays open and is never looked at again.
AcceptLeak(c) ==
  /\ program = "select"
  /\ FreeSlots = {}
  /\ Take(c)
  /\ UNCHANGED slot

\* fds[num_fds] = new_fd, whose revents is what the slot held.
AcceptAppend(c) ==
  /\ program = "poll"
  /\ Take(c)
  /\ slot' = [slot EXCEPT ![Cardinality(Used) + 1] = LowestFd]

\* The variable is overwritten; the client it held is never looked at again.
AcceptOver(c) ==
  /\ program = "single"
  /\ Take(c)
  /\ slot' = [slot EXCEPT ![1] = LowestFd]

\* accept() fails: "select" exits, "single" stores the -1, "poll" goes on.
AcceptError ==
  /\ pc = "accept"
  /\ pc' = IF program = "select" THEN "exited" ELSE "scan"
  /\ slot' = IF program = "single" THEN [slot EXCEPT ![1] = 0] ELSE slot
  /\ UNCHANGED <<program, i, ready, fresh, net>>

ReadText(s) ==
  /\ Reading(s)
  /\ inbox[Holder(s)] > 0
  /\ inbox' = [inbox EXCEPT ![Holder(s)] = 0]
  /\ i' = s
  /\ pc' = "reply"
  /\ UNCHANGED <<program, slot, ready, fresh, fdtab, conn, peer, sent, unread>>

\* Mutant: every program tests for 0 only.
ReadResetAll(s) ==
  /\ Reading(s)
  /\ inbox[Holder(s)] = 0 /\ peer[Holder(s)] = "rst"
  /\ peer' = [peer EXCEPT ![Holder(s)] = "reset"]
  /\ i' = s
  /\ pc' = "reply"
  /\ UNCHANGED <<program, slot, ready, fresh, fdtab, conn, inbox, sent, unread>>

\* "select" takes -1 for a length, like any result but 0: it goes on to answer.
ReadReset(s) ==
  /\ program = "select"
  /\ Reading(s)
  /\ inbox[Holder(s)] = 0 /\ peer[Holder(s)] = "rst"
  /\ peer' = [peer EXCEPT ![Holder(s)] = "reset"]
  /\ i' = s
  /\ pc' = "reply"
  /\ UNCHANGED <<program, slot, ready, fresh, fdtab, conn, inbox, sent, unread>>

\* Mutant: a slot behind the end is moved into the freed one.
RemovePast(s) ==
  LET last == Cardinality(Used) IN
  IF program = "poll"
  THEN /\ slot' = [slot EXCEPT ![s] = 0]
       /\ ready' = IF last \in ready THEN ready ELSE ready \ {s}
  ELSE slot' = [slot EXCEPT ![s] = 0] /\ UNCHANGED ready

\* Mutant: the array is shrunk without moving its last element.
RemoveLast(s) ==
  LET last == Cardinality(Used) IN
  IF program = "poll"
  THEN slot' = [slot EXCEPT ![last] = 0] /\ UNCHANGED ready
  ELSE slot' = [slot EXCEPT ![s] = 0] /\ UNCHANGED ready

\* The slot is freed; fds[i] = fds[num_fds - 1] moves its revents as well.
Remove(s) ==
  LET last == Cardinality(Used) IN
  IF program = "poll"
  THEN /\ slot' = [slot EXCEPT ![s] = slot[last], ![last] = 0]
       /\ ready' = IF last \in ready THEN ready ELSE ready \ {s}
  ELSE slot' = [slot EXCEPT ![s] = 0] /\ UNCHANGED ready

\* The end of file, and -1 where the program tests for it: close() and free the
\* slot, which the scan of "poll" then looks at again.  (What was known of a
\* closed connection is forgotten: neither end looks at it any more.)
ReadEnd(s) ==
  LET c == Holder(s) IN
  /\ Reading(s)
  /\ inbox[c] = 0 /\ peer[c] # "up"
  /\ program = "select" => peer[c] # "rst"
  /\ Remove(s)
  /\ fdtab' = [fdtab EXCEPT ![slot[s]] = NoClient]
  /\ conn' = [conn EXCEPT ![c] = "closed"]
  /\ peer' = [peer EXCEPT ![c] = "up"]
  /\ sent' = [sent EXCEPT ![c] = 0]
  /\ unread' = [unread EXCEPT ![c] = FALSE]
  /\ i' = s
  /\ UNCHANGED <<program, pc, fresh, inbox>>

\* send(): answers a client that is there; the first to one that is gone is
\* lost or fails, the next one raises SIGPIPE.
Reply ==
  LET c == Holder(i) IN
  /\ pc = "reply"
  /\ pc' = IF peer[c] \in Broken THEN "killed" ELSE "scan"
  /\ unread' = [unread EXCEPT ![c] = @ \/ peer[c] = "up"]
  /\ peer' = [peer EXCEPT ![c] = IF @ = "up" THEN @ ELSE Failed(@)]
  /\ i' = i + 1
  /\ UNCHANGED <<program, slot, ready, fresh, fdtab, conn, inbox, sent>>

Server ==
  \/ Wait \/ Reply
  \/ \E c \in Clients : AcceptSlot(c) \/ AcceptLeak(c) \/ AcceptAppend(c) \/ AcceptOver(c)
  \/ \E s \in Slots : ReadText(s) \/ ReadReset(s) \/ ReadEnd(s)

-----------------------------------------------------------------------------
(* The clients *)

Down == pc \in {"exited", "killed"}

Connect(c) ==
  /\ conn[c] = "idle"
  /\ ~ Down
  /\ conn' = [conn EXCEPT ![c] = "backlog"]
  /\ UNCHANGED <<server, fdtab, peer, inbox, sent, unread>>

Connected(c) == conn[c] \in {"backlog", "open"} /\ peer[c] = "up" /\ ~ Down

\* The bound of the runs, which no property needs.
WithinBound == FoldFunction(+, 0, sent) < MaxSent

\* One line from stdin; the end of stdin is ignored.
SendLine(c) ==
  /\ Connected(c)
  /\ WithinBound
  /\ sent' = [sent EXCEPT ![c] = @ + 1]
  /\ inbox' = [inbox EXCEPT ![c] = @ + 1]
  /\ UNCHANGED <<server, fdtab, conn, peer, unread>>

\* Everything that has arrived is read and printed.
Receive(c) ==
  /\ Connected(c)
  /\ unread[c]
  /\ unread' = [unread EXCEPT ![c] = FALSE]
  /\ UNCHANGED <<server, fdtab, conn, peer, inbox, sent>>

\* The process ends: with a reset if it leaves something unread.
Leave(c) ==
  /\ Connected(c)
  /\ peer' = [peer EXCEPT ![c] = IF unread[c] THEN "rst" ELSE "fin"]
  /\ unread' = [unread EXCEPT ![c] = FALSE]
  /\ UNCHANGED <<server, fdtab, conn, inbox, sent>>

Next ==
  \/ Server \/ PollError \/ AcceptError
  \/ \E c \in Clients : Connect(c) \/ SendLine(c) \/ Receive(c) \/ Leave(c)

Spec == Init /\ [][Next]_vars

\* The server's process is scheduled; calls need not fail, users promise nothing.
FairSpec == Spec /\ WF_vars(Server)

-----------------------------------------------------------------------------
(* Properties *)

\* Each slot in use holds an open connection of its own, whatever the order of
\* accepts and removals, and the poll() server's slots stay contiguous.
SlotTable ==
  /\ TypeOK
  /\ ~ Down =>
       /\ \A s \in Used : Holder(s) # NoClient /\ conn[Holder(s)] = "open"
       /\ \A s, t \in Used : s # t => slot[s] # slot[t]
       /\ program = "poll" => Used = 1 .. Cardinality(Used)

\* An accepted connection is in the table until it is closed, with these two
\* exceptions: all ten slots of "select" are in use when it is accepted
\* (single-process-select-server.c:99), or a later accept() of "single" takes
\* its place (bai12.c:57).  No removal of another client ever drops it.
Remembered ==
  [][\A c \in Clients :
       /\ conn[c] = "backlog" /\ conn'[c] = "open" =>
            Watched(c)' \/ (program = "select" /\ FreeSlots = {})
       /\ Watched(c) /\ conn'[c] = "open" /\ pc' # "exited" =>
            Watched(c)' \/ (program = "single" /\ pc = "accept")]_vars

\* What select() or poll() reported is still true when the scan comes to it,
\* and the only thread never waits in read() while others are ready.  Only the
\* poll() server can, in recv() (bai10.c:81), for a connection it has accepted
\* in this very round, in a slot whose revents nobody has set.
BlocksOnlyOnNew ==
  \A s \in Used : Reading(s) /\ ~ Readable(Holder(s)) =>
    program = "poll" /\ Holder(s) = fresh

\* A client cannot end the server by leaving in good order after one question,
\* whenever it does: SIGPIPE takes a client that had sent a second text before
\* it left, or (in "select" only) one whose connection was reset.
KilledOnlyBy ==
  [][pc # "killed" /\ pc' = "killed" => LET c == Holder(i) IN
       \/ sent[c] >= 2
       \/ program = "select" /\ peer[c] = "reset"]_vars

\* Whatever a client in the table sends is read and whoever leaves is removed,
\* unless the server ends, forgets the client, or waits for a silent new one.
Served ==
  \A c \in Clients :
    Watched(c) /\ Readable(c) ~> ~ (Watched(c) /\ Readable(c)) \/ Down \/ Blocked
=============================================================================
