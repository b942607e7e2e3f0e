----------------------------- MODULE PollServer -----------------------------
(***************************************************************************)
(* The event-driven server of Source_codes_Ch5/ex_poll_server.c: one       *)
(* thread, one poll() array whose slot 0 is the listening socket and whose *)
(* slots 1 .. nfds-1 are the connected clients, non-blocking sockets,      *)
(* removal of a slot by swapping the last slot into it, and a SIGINT flag. *)
(*                                                                         *)
(* One action per system call or loop branch of the server; the clients,   *)
(* the kernel's queues and the signal interleave with them.                *)
(***************************************************************************)
EXTENDS Integers, FiniteSets

CONSTANTS
  Clients,   \* the client connections of a behaviour, each made at most once
  NoClient,  \* "nobody": a free descriptor, a zeroed address
  MaxFds,    \* MAX_FDS, the length of fds[] and addrs[]
  Fds,       \* descriptor numbers the process may still obtain (RLIMIT_NOFILE)
  MaxSent    \* bound: chunks a client sends

ASSUME ClientsAssumption == NoClient \notin Clients
ASSUME MaxFdsAssumption  == MaxFds \in Nat /\ MaxFds >= 1
ASSUME FdsAssumption     == Fds \subseteq Nat \ {0}
ASSUME MaxSentAssumption == MaxSent \in Nat

Slots  == 0 .. MaxFds - 1
\* POLLIN, and "HUP" for the group POLLERR | POLLHUP | POLLNVAL
Events == {"IN", "HUP"}

VARIABLES
  pc,       \* where the server's thread is
  stop,     \* g_stop
  fds,      \* struct pollfd fds[MAX_FDS]: descriptor and revents per slot
  addrs,    \* addrs[MAX_FDS]: the peer each slot is believed to hold
  nfds,     \* number of slots in use
  i,        \* index of the scan over the clients
  fdtab,    \* kernel: what each descriptor is open on
  conn,     \* kernel: state of each client's connection
  peer,     \* what the client did with its end: up, closed (fin), reset
  sent,     \* chunks each client has sent
  printed,  \* chunks of each client the server has read and printed
  polled    \* history: what the last poll() could see of each client

arrays == <<fds, addrs, nfds>>
kernel == <<fdtab, conn>>
remote == <<peer, sent>>
past   == <<peer, sent, printed, polled>>
vars == <<pc, stop, arrays, i, kernel, past>>

Unseen == [sent |-> 0, peer |-> "unseen"]

TypeOK ==
  /\ pc \in {"check", "enter", "poll", "accept", "scan", "drain", "cleanup",
             "stopped"}
  /\ stop \in BOOLEAN
  /\ fds \in [Slots -> [fd : Fds \cup {0}, revents : SUBSET Events]]
  /\ addrs \in [Slots -> Clients \cup {NoClient}]
  /\ nfds \in 1 .. MaxFds
  /\ i \in 1 .. MaxFds
  /\ fdtab \in [Fds -> Clients \cup {NoClient}]
  /\ conn \in [Clients -> {"idle", "backlog", "open", "closed"}]
  /\ peer \in [Clients -> {"up", "fin", "rst"}]
  /\ sent \in [Clients -> 0 .. MaxSent]
  /\ printed \in [Clients -> 0 .. MaxSent]
  /\ polled \in [Clients -> [sent : 0 .. MaxSent,
                          peer : {"unseen", "up", "fin", "rst"}]]

\* Both arrays are zeroed; the listening socket is bound and in slot 0.
Init ==
  /\ pc = "check"
  /\ stop = FALSE
  /\ fds = [s \in Slots |-> [fd |-> 0, revents |-> {}]]
  /\ addrs = [s \in Slots |-> NoClient]
  /\ nfds = 1
  /\ i = 1
  /\ fdtab = [f \in Fds |-> NoClient]
  /\ conn = [c \in Clients |-> "idle"]
  /\ peer = [c \in Clients |-> "up"]
  /\ sent = [c \in Clients |-> 0]
  /\ printed = [c \in Clients |-> 0]
  /\ polled = [c \in Clients |-> Unseen]

-----------------------------------------------------------------------------
(* The kernel's view *)

Backlog == {c \in Clients : conn[c] = "backlog"}
FreeFds == {f \in Fds : fdtab[f] = NoClient}
\* POSIX: a new descriptor is the lowest one not open.
LowestFree(f) == f \in FreeFds /\ \A g \in FreeFds : f <= g

Unread(c) == sent[c] - printed[c]

\* A reset socket reports an error besides being readable, a half-closed one
\* is only readable.
EventsOf(c) ==
  (IF c = NoClient \/ peer[c] = "rst" THEN {"HUP"} ELSE {}) \cup
  (IF c # NoClient /\ (peer[c] # "up" \/ Unread(c) > 0) THEN {"IN"} ELSE {})

SlotEvents(s) ==
  IF s = 0 THEN IF Backlog # {} THEN {"IN"} ELSE {}
           ELSE EventsOf(fdtab[fds[s].fd])

\* The server's ends of these connections are closed.  Neither side looks at
\* them any more: what was known of them is forgotten.
Close(gone) ==
  LET But(f, v) == [c \in Clients |-> IF c \in gone THEN v ELSE f[c]] IN
  /\ conn' = But(conn, "closed")
  /\ peer' = But(peer, "up")
  /\ sent' = But(sent, 0)
  /\ printed' = But(printed, 0)
  /\ polled' = But(polled, Unseen)

\* The client a slot's descriptor is really open on.
Holder(s) == fdtab[fds[s].fd]

-----------------------------------------------------------------------------
(* The server: while (!g_stop) { poll; accept all; scan the clients }      *)

\* Mutant: while (1).
CheckStopForever ==
  /\ pc = "check"
  /\ pc' = "enter"
  /\ polled' = [c \in Clients |-> Unseen]
  /\ UNCHANGED <<stop, arrays, i, kernel, remote, printed>>

\* A new round begins; what poll() saw in the last one is of no more interest.
CheckStop ==
  /\ pc = "check"
  /\ pc' = IF stop THEN "cleanup" ELSE "enter"
  /\ polled' = [c \in Clients |-> Unseen]
  /\ UNCHANGED <<stop, arrays, i, kernel, remote, printed>>

\* The flag has been tested, the system call is not entered yet: a signal
\* here no longer interrupts anything.
EnterPoll ==
  /\ pc = "enter"
  /\ pc' = "poll"
  /\ UNCHANGED <<stop, arrays, i, kernel, past>>

\* poll() writes revents of the first nfds slots and of no other.
PollReturn ==
  /\ pc = "poll"
  /\ \E s \in 0 .. nfds - 1 : SlotEvents(s) # {}
  /\ fds' = [s \in Slots |-> IF s < nfds
                             THEN [fds[s] EXCEPT !.revents = SlotEvents(s)]
                             ELSE fds[s]]
  /\ i' = 1
  /\ pc' = IF Backlog # {} THEN "accept" ELSE "scan"
  /\ polled' = [c \in Clients |-> IF conn[c] = "open"
                                  THEN [sent |-> sent[c], peer |-> peer[c]]
                                  ELSE Unseen]
  /\ UNCHANGED <<stop, addrs, nfds, kernel, remote, printed>>

\* An error other than EINTR ends the loop.
PollError ==
  /\ pc = "poll"
  /\ pc' = "cleanup"
  /\ UNCHANGED <<stop, arrays, i, kernel, past>>

\* A new client gets slot nfds: its descriptor and address are stored, the
\* slot's revents is whatever the slot held before.
AcceptAdd(c) ==
  /\ pc = "accept"
  /\ conn[c] = "backlog"
  /\ nfds < MaxFds
  /\ \E f \in Fds :
       /\ LowestFree(f)
       /\ fdtab' = [fdtab EXCEPT ![f] = c]
       /\ fds' = [fds EXCEPT ![nfds].fd = f]
  /\ addrs' = [addrs EXCEPT ![nfds] = c]
  /\ nfds' = nfds + 1
  /\ conn' = [conn EXCEPT ![c] = "open"]
  /\ UNCHANGED <<pc, stop, i, past>>

\* accept() succeeded, the connection is closed at once.
Refuse(c) ==
  /\ pc = "accept"
  /\ conn[c] = "backlog"
  /\ FreeFds # {}
  /\ Close({c})
  /\ UNCHANGED <<pc, stop, arrays, i, fdtab>>

AcceptFull(c) == nfds >= MaxFds /\ Refuse(c)

AcceptFcntlError(c) == nfds < MaxFds /\ Refuse(c)

\* accept() fails: EAGAIN with an empty queue, EMFILE without a descriptor.
AcceptEnd ==
  /\ pc = "accept"
  /\ Backlog = {} \/ FreeFds = {}
  /\ pc' = "scan"
  /\ UNCHANGED <<stop, arrays, i, kernel, past>>

\* Mutant: the address is not moved with the descriptor.
RemoveFdOnly(s) ==
  LET last == nfds - 1 IN
  /\ fdtab' = [fdtab EXCEPT ![fds[s].fd] = NoClient]
  /\ Close({Holder(s)})
  /\ fds' = [fds EXCEPT ![s] = fds[last]]
  /\ addrs' = addrs
  /\ nfds' = last

\* Mutant: the events are not moved with the descriptor.
RemoveFdEvents(s) ==
  LET last == nfds - 1 IN
  /\ fdtab' = [fdtab EXCEPT ![fds[s].fd] = NoClient]
  /\ Close({Holder(s)})
  /\ fds' = [fds EXCEPT ![s].fd = fds[last].fd]
  /\ addrs' = [addrs EXCEPT ![s] = addrs[last]]
  /\ nfds' = last

\* remove_fd(): close the descriptor, move the last slot here, shrink.
RemoveFd(s) ==
  LET last == nfds - 1 IN
  /\ fdtab' = [fdtab EXCEPT ![fds[s].fd] = NoClient]
  /\ Close({Holder(s)})
  /\ fds' = [fds EXCEPT ![s] = fds[last]]
  /\ addrs' = [addrs EXCEPT ![s] = addrs[last]]
  /\ nfds' = last

ScanEnd ==
  /\ pc = "scan"
  /\ i >= nfds
  /\ pc' = "check"
  /\ UNCHANGED <<stop, arrays, i, kernel, past>>

\* Mutant: the index is advanced past the client swapped in.
ScanHupSkip ==
  /\ pc = "scan"
  /\ i < nfds
  /\ "HUP" \in fds[i].revents
  /\ RemoveFd(i)
  /\ i' = i + 1
  /\ UNCHANGED <<pc, stop>>

\* Error or hang-up: i is not advanced, the last client was swapped in.
ScanHup ==
  /\ pc = "scan"
  /\ i < nfds
  /\ "HUP" \in fds[i].revents
  /\ RemoveFd(i)
  /\ UNCHANGED <<pc, stop, i>>

ScanReadable ==
  /\ pc = "scan"
  /\ i < nfds
  /\ "HUP" \notin fds[i].revents
  /\ "IN" \in fds[i].revents
  /\ pc' = "drain"
  /\ UNCHANGED <<stop, arrays, i, kernel, past>>

ScanQuiet ==
  /\ pc = "scan"
  /\ i < nfds
  /\ fds[i].revents = {}
  /\ i' = i + 1
  /\ UNCHANGED <<pc, stop, arrays, kernel, past>>

\* for (;;) recv(): one chunk is read and printed.
DrainData ==
  /\ pc = "drain"
  /\ Unread(Holder(i)) > 0
  /\ printed' = [printed EXCEPT ![Holder(i)] = @ + 1]
  /\ UNCHANGED <<pc, stop, arrays, i, kernel, remote, polled>>

\* Mutant: n == 0 taken for "nothing now".
DrainEofIgnored ==
  /\ pc = "drain"
  /\ Unread(Holder(i)) = 0
  /\ peer[Holder(i)] = "fin"
  /\ pc' = "scan"
  /\ i' = i + 1
  /\ UNCHANGED <<stop, arrays, kernel, past>>

\* recv() returns 0: orderly shutdown after all data.
DrainEof ==
  /\ pc = "drain"
  /\ Unread(Holder(i)) = 0
  /\ peer[Holder(i)] = "fin"
  /\ RemoveFd(i)
  /\ pc' = "scan"
  /\ UNCHANGED <<stop, i>>

\* EAGAIN: nothing more to read now.
DrainAgain ==
  /\ pc = "drain"
  /\ Unread(Holder(i)) = 0
  /\ peer[Holder(i)] = "up"
  /\ pc' = "scan"
  /\ i' = i + 1
  /\ UNCHANGED <<stop, arrays, kernel, past>>

\* Any other error; a kernel may drop unread data of a reset connection.
DrainError ==
  /\ pc = "drain"
  /\ peer[Holder(i)] = "rst"
  /\ RemoveFd(i)
  /\ pc' = "scan"
  /\ UNCHANGED <<stop, i>>

\* Every descriptor in use is closed, the listening socket among them: what
\* waits in its queue is reset by the kernel.
Cleanup ==
  /\ pc = "cleanup"
  /\ pc' = "stopped"
  /\ LET held == {fds[s].fd : s \in 1 .. nfds - 1}
         gone == {c \in Clients : \/ conn[c] = "backlog"
                                  \/ \E f \in held : fdtab[f] = c}
     IN /\ fdtab' = [f \in Fds |-> IF f \in held THEN NoClient ELSE fdtab[f]]
        /\ Close(gone)
  /\ UNCHANGED <<stop, arrays, i>>

\* on_sigint(): sets the flag; only a thread already inside poll() returns
\* from it (EINTR) and tests the flag.
Sigint ==
  /\ pc # "stopped"
  /\ ~stop
  /\ stop' = TRUE
  /\ pc' = IF pc = "poll" THEN "check" ELSE pc
  /\ UNCHANGED <<arrays, i, kernel, past>>

-----------------------------------------------------------------------------
(* The clients *)

Connect(c) ==
  /\ conn[c] = "idle"
  /\ pc # "stopped"
  /\ conn' = [conn EXCEPT ![c] = "backlog"]
  /\ UNCHANGED <<pc, stop, arrays, i, fdtab, past>>

Connected(c) == conn[c] \in {"backlog", "open"} /\ peer[c] = "up"

Send(c) ==
  /\ Connected(c)
  /\ sent[c] < MaxSent
  /\ sent' = [sent EXCEPT ![c] = @ + 1]
  /\ UNCHANGED <<pc, stop, arrays, i, kernel, peer, printed, polled>>

Leave(c, how) ==
  /\ Connected(c)
  /\ peer' = [peer EXCEPT ![c] = how]
  /\ UNCHANGED <<pc, stop, arrays, i, kernel, sent, printed, polled>>

-----------------------------------------------------------------------------

Server ==
  \/ CheckStop \/ EnterPoll \/ PollReturn
  \/ \E c \in Clients : AcceptAdd(c) \/ AcceptFull(c) \/ AcceptFcntlError(c)
  \/ AcceptEnd
  \/ ScanEnd \/ ScanHup \/ ScanReadable \/ ScanQuiet
  \/ DrainData \/ DrainEof \/ DrainAgain \/ DrainError
  \/ Cleanup

Environment ==
  \/ Sigint
  \/ \E c \in Clients :
       \/ Connect(c)
       \/ Send(c)
       \/ \E how \in {"fin", "rst"} : Leave(c, how)

Next == Server \/ PollError \/ Environment

Spec == Init /\ [][Next]_vars

\* The scheduler keeps running the server's thread, and poll() returns when
\* there is an event; it need never fail, and clients and the user promise
\* nothing.
FairSpec == Spec /\ WF_vars(Server)

-----------------------------------------------------------------------------
(* Properties *)

SlotsAligned ==
  LET used == 1 .. nfds - 1 IN
  pc # "stopped" =>
    /\ \A s \in used : /\ fds[s].fd \in Fds
                       /\ addrs[s] \in Clients
                       /\ Holder(s) = addrs[s]
                       /\ conn[addrs[s]] = "open"
    /\ \A s, t \in used : s # t => addrs[s] # addrs[t]
    /\ \A c \in Clients : conn[c] = "open" => \E s \in used : addrs[s] = c

\* The slots in use and the open connections are in bijection, and
\* "Peer addresses aligned with fds[]" (ex_poll_server.c:126): each slot's
\* descriptor is open on exactly the client its address names, no client has
\* two slots, and no accepted connection is forgotten, whatever the order of
\* accepts and swap removals.
SlotTable == TypeOK /\ SlotsAligned

\* One pass of the scan serves every client poll() reported: data that had
\* arrived is printed and a departure that had happened is noticed, although
\* removals reorder the array under the running index (line 198 "Do not
\* increment i; we swapped in the last entry").
PassServesAll ==
  pc = "check" =>
    \A c \in Clients : conn[c] = "open" =>
      /\ printed[c] >= polled[c].sent
      /\ polled[c].peer \in {"unseen", "up"}

Removed(c) == conn[c] = "open" /\ conn'[c] = "closed" /\ pc # "cleanup"

\* While the server runs it disconnects a client that poll() has reported on
\* only if that very client is gone, by an error or by an end of file before
\* which everything it sent was printed ("Peer closed connection", line 219):
\* no event or descriptor is taken for another client's after a swap removal.
ClosedRight ==
  [][\A c \in Clients : Removed(c) /\ polled[c] # Unseen =>
       peer[c] = "rst" \/ (peer[c] = "fin" /\ printed[c] = sent[c])]_vars

\* Line 193, "Error or hang-up: close and remove this client": a client is
\* removed on that branch only if its own connection failed.
HupOnlyIfReset ==
  [][\A c \in Clients : Removed(c) /\ pc = "scan" => peer[c] = "rst"]_vars

Waiting(c) == conn[c] = "backlog" \/ (conn[c] = "open" /\ peer[c] # "up")

\* Whoever connects is accepted or turned away (unless the descriptor table is
\* exhausted), and whoever left is removed, while others come, send and leave:
\* the drain loop on accept() leaves nobody queued, the scan passes nobody by.
Attended == \A c \in Clients : Waiting(c) ~> ~ Waiting(c)

\* "Ctrl+C to stop" (lines 76 and 122), as far as it holds: once SIGINT has
\* come the server stops as soon as any descriptor it watches has an event.
\* (Without one it need not: the signal may come between the test of the flag
\* and the entry of poll(), which then waits for ever.)
SigintStopsOnEvent ==
  (stop /\ \E c \in Clients : Waiting(c)) ~> pc = "stopped"

=============================================================================
