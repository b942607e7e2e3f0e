-------------------------- MODULE PollServerProofs --------------------------
(* TLAPS proofs about PollServer, for any number of clients, descriptors   *)
(* and slots.                                                              *)
EXTENDS PollServer, TLAPS

\* While a socket is drained, the scan index is on a slot in use: without it
\* neither the bounds of nfds and i nor the slot table is inductive.
DrainSlot == pc = "drain" => i < nfds

TypeInv == TypeOK /\ DrainSlot

\* What poll() reports of a slot is a set of events.
LEMMA SlotEventsType == \A s \in Slots : SlotEvents(s) \in SUBSET Events
BY DEF SlotEvents, EventsOf, Events

\* Forgetting closed connections keeps the tables about clients well typed.
LEMMA CloseType ==
  ASSUME TypeOK, NEW gone, Close(gone)
  PROVE  /\ conn' \in [Clients -> {"idle", "backlog", "open", "closed"}]
         /\ peer' \in [Clients -> {"up", "fin", "rst"}]
         /\ sent' \in [Clients -> 0 .. MaxSent]
         /\ printed' \in [Clients -> 0 .. MaxSent]
         /\ polled' \in [Clients -> [sent : 0 .. MaxSent,
                                     peer : {"unseen", "up", "fin", "rst"}]]
<1> USE MaxSentAssumption DEF Close
<1>1. conn' \in [Clients -> {"idle", "backlog", "open", "closed"}]
  BY DEF TypeOK
<1>2. peer' \in [Clients -> {"up", "fin", "rst"}]
  BY DEF TypeOK
<1>3. sent' \in [Clients -> 0 .. MaxSent] /\ printed' \in [Clients -> 0 .. MaxSent]
  BY DEF TypeOK
<1>4. polled' \in [Clients -> [sent : 0 .. MaxSent,
                              peer : {"unseen", "up", "fin", "rst"}]]
  BY DEF TypeOK, Unseen
<1> QED BY <1>1, <1>2, <1>3, <1>4

\* What close() does to one connection, and that it does nothing to others.
LEMMA CloseOne ==
  ASSUME TypeOK, NEW d \in Clients, Close({d})
  PROVE  /\ conn' = [conn EXCEPT ![d] = "closed"]
         /\ \A c \in Clients : c # d => /\ conn'[c] = conn[c]
                                       /\ peer'[c] = peer[c]
                                       /\ sent'[c] = sent[c]
                                       /\ printed'[c] = printed[c]
                                       /\ polled'[c] = polled[c]
         /\ conn'[d] = "closed" /\ polled'[d] = Unseen
         /\ sent'[d] = 0 /\ printed'[d] = 0
BY DEF Close, TypeOK

\* remove_fd() on a client slot keeps every array and table well typed.
LEMMA RemoveFdType ==
  ASSUME TypeOK, NEW s \in 1 .. nfds - 1, RemoveFd(s)
  PROVE  /\ fds' \in [Slots -> [fd : Fds \cup {0}, revents : SUBSET Events]]
         /\ addrs' \in [Slots -> Clients \cup {NoClient}]
         /\ nfds' \in 1 .. MaxFds
         /\ fdtab' \in [Fds -> Clients \cup {NoClient}]
<1> DEFINE last == nfds - 1
<1>1. s \in Slots /\ last \in Slots /\ last \in 1 .. MaxFds
  BY MaxFdsAssumption DEF TypeOK, Slots
<1>2. fds' \in [Slots -> [fd : Fds \cup {0}, revents : SUBSET Events]]
  BY <1>1 DEF TypeOK, RemoveFd
<1>3. addrs' \in [Slots -> Clients \cup {NoClient}]
  BY <1>1 DEF TypeOK, RemoveFd
<1>4. nfds' \in 1 .. MaxFds
  BY <1>1 DEF RemoveFd
<1>5. fdtab' \in [Fds -> Clients \cup {NoClient}]
  BY DEF TypeOK, RemoveFd
<1> QED BY <1>2, <1>3, <1>4, <1>5

\* The type invariant: the initial state.
LEMMA TypeInit == Init => TypeInv
<1> SUFFICES ASSUME Init PROVE TypeInv
  OBVIOUS
<1> USE MaxFdsAssumption, MaxSentAssumption DEF Init
<1>1. fds \in [Slots -> [fd : Fds \cup {0}, revents : SUBSET Events]]
  OBVIOUS
<1>2. polled \in [Clients -> [sent : 0 .. MaxSent,
                             peer : {"unseen", "up", "fin", "rst"}]]
  BY DEF Unseen
<1>4. nfds \in 1 .. MaxFds /\ i \in 1 .. MaxFds
  OBVIOUS
<1>5. /\ addrs \in [Slots -> Clients \cup {NoClient}]
      /\ fdtab \in [Fds -> Clients \cup {NoClient}]
      /\ conn \in [Clients -> {"idle", "backlog", "open", "closed"}]
      /\ peer \in [Clients -> {"up", "fin", "rst"}]
  OBVIOUS
<1>6. sent \in [Clients -> 0 .. MaxSent] /\ printed \in [Clients -> 0 .. MaxSent]
  OBVIOUS
<1> QED BY <1>1, <1>2, <1>4, <1>5, <1>6 DEF TypeInv, TypeOK, DrainSlot

\* The type invariant: one step per action.
LEMMA TypeStep == TypeInv /\ [Next]_vars => TypeInv'
<1> SUFFICES ASSUME TypeInv, [Next]_vars PROVE TypeInv'
  OBVIOUS
<1> USE MaxFdsAssumption, MaxSentAssumption
<1> USE DEF arrays, kernel, remote, past
<1> USE DEF TypeInv, DrainSlot
<1>1. ASSUME CheckStop PROVE TypeInv'
  BY <1>1 DEF CheckStop, TypeOK, Unseen
<1>2. ASSUME EnterPoll PROVE TypeInv'
  BY <1>2 DEF EnterPoll, TypeOK
<1>3. ASSUME PollError PROVE TypeInv'
  BY <1>3 DEF PollError, TypeOK
<1>4. ASSUME AcceptEnd PROVE TypeInv'
  BY <1>4 DEF AcceptEnd, TypeOK
<1>5. ASSUME ScanEnd PROVE TypeInv'
  BY <1>5 DEF ScanEnd, TypeOK
<1>6. ASSUME ScanReadable PROVE TypeInv'
  BY <1>6 DEF ScanReadable, TypeOK
<1>7. ASSUME ScanQuiet PROVE TypeInv'
  BY <1>7 DEF ScanQuiet, TypeOK
<1>8. ASSUME DrainAgain PROVE TypeInv'
  BY <1>8 DEF DrainAgain, TypeOK
<1>9. ASSUME Sigint PROVE TypeInv'
  BY <1>9 DEF Sigint, TypeOK
<1>10. ASSUME PollReturn PROVE TypeInv'
  <2>1. \A s \in Slots : s < nfds => SlotEvents(s) \in SUBSET Events
    BY SlotEventsType
  <2>2. fds' \in [Slots -> [fd : Fds \cup {0}, revents : SUBSET Events]]
    BY <1>10, <2>1 DEF PollReturn, TypeOK
  <2>3. polled' \in [Clients -> [sent : 0 .. MaxSent,
                                 peer : {"unseen", "up", "fin", "rst"}]]
    BY <1>10 DEF PollReturn, TypeOK, Unseen
  <2>4. pc' \in {"accept", "scan"} /\ i' = 1 /\ 1 \in 1 .. MaxFds
    BY <1>10 DEF PollReturn
  <2>5. UNCHANGED <<stop, addrs, nfds, fdtab, conn, peer, sent, printed>>
    BY <1>10 DEF PollReturn
  <2> QED BY <2>2, <2>3, <2>4, <2>5 DEF TypeOK
<1>11. ASSUME NEW c \in Clients, AcceptAdd(c) PROVE TypeInv'
  <2>1. PICK f \in Fds : /\ fdtab' = [fdtab EXCEPT ![f] = c]
                         /\ fds' = [fds EXCEPT ![nfds].fd = f]
    BY <1>11 DEF AcceptAdd
  <2>2. nfds \in Slots
    BY <1>11 DEF AcceptAdd, TypeOK, Slots
  <2>3. fds' \in [Slots -> [fd : Fds \cup {0}, revents : SUBSET Events]]
    BY <2>1, <2>2 DEF TypeOK
  <2>4. fdtab' \in [Fds -> Clients \cup {NoClient}]
    BY <2>1 DEF TypeOK
  <2>5. nfds' \in 1 .. MaxFds
    BY <1>11 DEF AcceptAdd, TypeOK
  <2> QED BY <1>11, <2>3, <2>4, <2>5 DEF AcceptAdd, TypeOK
<1>12. ASSUME NEW c \in Clients, AcceptFull(c) PROVE TypeInv'
  <2>1. Close({c}) /\ UNCHANGED <<pc, stop, fds, addrs, nfds, i, fdtab>>
    BY <1>12 DEF AcceptFull, Refuse
  <2> QED BY <2>1, CloseType DEF TypeOK
<1>13. ASSUME NEW c \in Clients, AcceptFcntlError(c) PROVE TypeInv'
  <2>1. Close({c}) /\ UNCHANGED <<pc, stop, fds, addrs, nfds, i, fdtab>>
    BY <1>13 DEF AcceptFcntlError, Refuse
  <2> QED BY <2>1, CloseType DEF TypeOK
<1>14. ASSUME ScanHup PROVE TypeInv'
  <2>1. i \in 1 .. nfds - 1
    BY <1>14 DEF ScanHup, TypeOK
  <2>2. RemoveFd(i) /\ Close({Holder(i)}) /\ pc' = "scan" /\ UNCHANGED <<stop, i>>
    BY <1>14 DEF ScanHup, RemoveFd
  <2> QED BY <2>1, <2>2, RemoveFdType, CloseType DEF TypeOK
<1>15. ASSUME DrainEof PROVE TypeInv'
  <2>1. i \in 1 .. nfds - 1
    BY <1>15 DEF DrainEof, TypeOK
  <2>2. RemoveFd(i) /\ Close({Holder(i)}) /\ pc' = "scan" /\ UNCHANGED <<stop, i>>
    BY <1>15 DEF DrainEof, RemoveFd
  <2> QED BY <2>1, <2>2, RemoveFdType, CloseType DEF TypeOK
<1>16. ASSUME DrainError PROVE TypeInv'
  <2>1. i \in 1 .. nfds - 1
    BY <1>16 DEF DrainError, TypeOK
  <2>2. RemoveFd(i) /\ Close({Holder(i)}) /\ pc' = "scan" /\ UNCHANGED <<stop, i>>
    BY <1>16 DEF DrainError, RemoveFd
  <2> QED BY <2>1, <2>2, RemoveFdType, CloseType DEF TypeOK
<1>17. ASSUME DrainData PROVE TypeInv'
  <2>1. printed' \in [Clients -> 0 .. MaxSent]
    <3> SUFFICES ASSUME NEW c \in Clients PROVE printed'[c] \in 0 .. MaxSent
      BY <1>17 DEF DrainData, TypeOK
    <3>1. CASE c = Holder(i)
      BY <1>17, <3>1 DEF DrainData, TypeOK, Unread
    <3>2. CASE c # Holder(i)
      BY <1>17, <3>2 DEF DrainData, TypeOK
    <3> QED BY <3>1, <3>2
  <2> QED BY <1>17, <2>1 DEF DrainData, TypeOK
<1>18. ASSUME Cleanup PROVE TypeInv'
  <2>1. PICK gone \in SUBSET Clients : Close(gone)
    BY <1>18 DEF Cleanup
  <2>2. fdtab' \in [Fds -> Clients \cup {NoClient}]
    BY <1>18 DEF Cleanup, TypeOK
  <2> QED BY <1>18, <2>1, <2>2, CloseType DEF Cleanup, TypeOK
<1>19. ASSUME NEW c \in Clients, Connect(c) PROVE TypeInv'
  BY <1>19 DEF Connect, TypeOK
<1>20. ASSUME NEW c \in Clients, Send(c) PROVE TypeInv'
  BY <1>20 DEF Send, TypeOK
<1>21. ASSUME NEW c \in Clients, NEW how \in {"fin", "rst"}, Leave(c, how) PROVE TypeInv'
  BY <1>21 DEF Leave, TypeOK
<1>22. ASSUME UNCHANGED vars PROVE TypeInv'
  BY <1>22 DEF vars, TypeOK
<1> QED BY <1>1, <1>2, <1>3, <1>4, <1>5, <1>6, <1>7, <1>8, <1>9, <1>10,
     <1>11, <1>12, <1>13, <1>14, <1>15, <1>16, <1>17, <1>18, <1>19, <1>20,
     <1>21, <1>22 DEF Next, Server, Environment

\* Every reachable state is well typed, and a socket is drained only through
\* a slot in use: the indexes i and nfds never leave fds[] and addrs[].
THEOREM TypeCorrect == Spec => [](TypeOK /\ DrainSlot)
<1>1. TypeInv => TypeOK /\ DrainSlot
  BY DEF TypeInv
<1> QED BY <1>1, TypeInit, TypeStep, PTL DEF Spec

-----------------------------------------------------------------------------
(* The slot table *)

SlotInv == TypeInv /\ SlotsAligned

\* The slot table depends on nothing but the arrays' descriptors and
\* addresses, the descriptor table and the connections' states.
LEMMA SlotsAlignedFrame ==
  ASSUME SlotsAligned, pc # "stopped", UNCHANGED <<addrs, nfds, fdtab, conn>>,
         \A s \in 1 .. nfds - 1 : fds'[s].fd = fds[s].fd
  PROVE  SlotsAligned'
BY DEF SlotsAligned, Holder

\* A closed descriptor's slot taken over by the last one leaves the remaining
\* slots and the remaining open connections in bijection.
LEMMA RemoveFdSlots ==
  ASSUME TypeOK, SlotsAligned, pc # "stopped",
         NEW s \in 1 .. nfds - 1, RemoveFd(s)
  PROVE  SlotsAligned'
<1> DEFINE last == nfds - 1
           from(t) == IF t = s THEN last ELSE t
<1>1. /\ 1 .. last \subseteq Slots
      /\ s \in 1 .. last /\ last \in 1 .. last
      /\ 1 .. nfds' - 1 = 1 .. last - 1
      /\ \A t \in 1 .. last - 1 : from(t) \in 1 .. last /\ from(t) # s
  BY MaxFdsAssumption DEF TypeOK, Slots, RemoveFd
<1>2. \A t \in 1 .. last - 1 : fds'[t] = fds[from(t)] /\ addrs'[t] = addrs[from(t)]
  BY <1>1 DEF TypeOK, RemoveFd
<1>3. \A t \in 1 .. last : /\ fds[t].fd \in Fds
                           /\ addrs[t] \in Clients
                           /\ fdtab[fds[t].fd] = addrs[t]
                           /\ conn[addrs[t]] = "open"
  BY DEF SlotsAligned, Holder
<1>4. \A t, u \in 1 .. last : t # u => addrs[t] # addrs[u]
  BY DEF SlotsAligned
<1>5. /\ fdtab' = [fdtab EXCEPT ![fds[s].fd] = NoClient]
      /\ conn' = [conn EXCEPT ![addrs[s]] = "closed"]
  <2>1. Close({addrs[s]}) /\ addrs[s] \in Clients
    BY <1>1, <1>3 DEF RemoveFd, Holder
  <2> QED BY <2>1, CloseOne DEF RemoveFd
<1>6. \A t \in 1 .. last : t # s => /\ fdtab'[fds[t].fd] = addrs[t]
                                    /\ conn'[addrs[t]] = "open"
  BY <1>1, <1>3, <1>4, <1>5 DEF TypeOK
<1>7. \A t \in 1 .. nfds' - 1 : /\ fds'[t].fd \in Fds
                                /\ addrs'[t] \in Clients
                                /\ fdtab'[fds'[t].fd] = addrs'[t]
                                /\ conn'[addrs'[t]] = "open"
  <2> SUFFICES ASSUME NEW t \in 1 .. last - 1
               PROVE  /\ fds'[t].fd \in Fds
                      /\ addrs'[t] \in Clients
                      /\ fdtab'[fds'[t].fd] = addrs'[t]
                      /\ conn'[addrs'[t]] = "open"
    BY <1>1
  <2>1. from(t) \in 1 .. last /\ from(t) # s
    BY <1>1
  <2>2. fds'[t] = fds[from(t)] /\ addrs'[t] = addrs[from(t)]
    BY <1>2
  <2> QED BY <2>1, <2>2, <1>3, <1>6
<1>8. \A t, u \in 1 .. nfds' - 1 : t # u => addrs'[t] # addrs'[u]
  <2> SUFFICES ASSUME NEW t \in 1 .. last - 1, NEW u \in 1 .. last - 1, t # u
               PROVE  addrs'[t] # addrs'[u]
    BY <1>1
  <2>1. from(t) # from(u) /\ from(t) \in 1 .. last /\ from(u) \in 1 .. last
    BY <1>1
  <2>2. addrs'[t] = addrs[from(t)] /\ addrs'[u] = addrs[from(u)]
    BY <1>2
  <2> HIDE DEF from
  <2> QED BY <2>1, <2>2, <1>4
<1>9. \A c \in Clients : conn'[c] = "open" =>
        \E t \in 1 .. nfds' - 1 : addrs'[t] = c
  <2> SUFFICES ASSUME NEW c \in Clients, conn'[c] = "open"
               PROVE  \E t \in 1 .. last - 1 : addrs'[t] = c
    BY <1>1
  <2>1. conn[c] = "open" /\ c # addrs[s]
    BY <1>1, <1>3, <1>5 DEF TypeOK
  <2>2. PICK t \in 1 .. last : addrs[t] = c
    BY <2>1 DEF SlotsAligned
  <2>3. t # s
    BY <2>1, <2>2
  <2>4. CASE t = last
    BY <2>2, <2>3, <2>4, <1>1, <1>2
  <2>5. CASE t # last
    BY <2>2, <2>3, <2>5, <1>1, <1>2
  <2> QED BY <2>4, <2>5
<1> QED BY <1>7, <1>8, <1>9 DEF SlotsAligned, Holder

\* A new connection in slot nfds, on a descriptor no slot uses.
LEMMA AcceptAddSlots ==
  ASSUME TypeOK, SlotsAligned, NEW c \in Clients, AcceptAdd(c)
  PROVE  SlotsAligned'
<1>1. PICK f \in Fds : /\ fdtab[f] = NoClient
                       /\ fdtab' = [fdtab EXCEPT ![f] = c]
                       /\ fds' = [fds EXCEPT ![nfds].fd = f]
  BY DEF AcceptAdd, LowestFree, FreeFds
<1>2. /\ pc = "accept" /\ conn[c] = "backlog" /\ nfds < MaxFds
      /\ addrs' = [addrs EXCEPT ![nfds] = c]
      /\ nfds' = nfds + 1
      /\ conn' = [conn EXCEPT ![c] = "open"]
  BY DEF AcceptAdd
<1>3. nfds \in Slots /\ 1 .. nfds - 1 \subseteq Slots
  BY <1>2, MaxFdsAssumption DEF TypeOK, Slots
<1>4. /\ fds'[nfds].fd = f /\ addrs'[nfds] = c
      /\ fdtab'[f] = c /\ conn'[c] = "open"
  BY <1>1, <1>2, <1>3 DEF TypeOK
<1>5. \A s \in 1 .. nfds - 1 : /\ fds[s].fd \in Fds
                               /\ addrs[s] \in Clients
                               /\ fdtab[fds[s].fd] = addrs[s]
                               /\ conn[addrs[s]] = "open"
  BY <1>2 DEF SlotsAligned, Holder
<1>6. \A s \in 1 .. nfds - 1 : /\ fds'[s].fd = fds[s].fd
                               /\ addrs'[s] = addrs[s]
                               /\ fds[s].fd # f
                               /\ addrs[s] # c
  BY <1>1, <1>2, <1>3, <1>5, ClientsAssumption DEF TypeOK
<1>7. \A s \in 1 .. nfds - 1 : /\ fdtab'[fds'[s].fd] = addrs'[s]
                               /\ conn'[addrs'[s]] = "open"
  BY <1>1, <1>2, <1>5, <1>6 DEF TypeOK
<1>8. \A s \in 1 .. nfds' - 1 : s = nfds \/ s \in 1 .. nfds - 1
  BY <1>2 DEF TypeOK
<1>9. \A s, t \in 1 .. nfds' - 1 : s # t => addrs'[s] # addrs'[t]
  <2> SUFFICES ASSUME NEW s \in 1 .. nfds' - 1, NEW t \in 1 .. nfds' - 1, s # t
               PROVE  addrs'[s] # addrs'[t]
    OBVIOUS
  <2>1. CASE s = nfds
    BY <2>1, <1>4, <1>6, <1>8
  <2>2. CASE t = nfds
    BY <2>2, <1>4, <1>6, <1>8
  <2>3. CASE s # nfds /\ t # nfds
    BY <2>3, <1>2, <1>6, <1>8 DEF SlotsAligned
  <2> QED BY <2>1, <2>2, <2>3
<1>10. ASSUME NEW d \in Clients, conn'[d] = "open"
       PROVE  \E s \in 1 .. nfds' - 1 : addrs'[s] = d
  <2>1. nfds \in 1 .. nfds' - 1 /\ 1 .. nfds - 1 \subseteq 1 .. nfds' - 1
    BY <1>2 DEF TypeOK
  <2>2. CASE d = c
    BY <2>1, <2>2, <1>4
  <2>3. CASE d # c
    <3>1. PICK s \in 1 .. nfds - 1 : addrs[s] = d
      BY <1>2, <1>10, <2>3 DEF SlotsAligned, TypeOK
    <3> QED BY <3>1, <2>1, <1>6
  <2> QED BY <2>2, <2>3
<1>11. \A s \in 1 .. nfds' - 1 : /\ fds'[s].fd \in Fds
                                 /\ addrs'[s] \in Clients
                                 /\ fdtab'[fds'[s].fd] = addrs'[s]
                                 /\ conn'[addrs'[s]] = "open"
  BY <1>4, <1>5, <1>6, <1>7, <1>8
<1> QED BY <1>9, <1>10, <1>11 DEF SlotsAligned, Holder

\* A connection that is not in a slot changes between states other than open.
LEMMA OtherConnSlots ==
  ASSUME TypeOK, SlotsAligned, NEW c \in Clients, conn[c] # "open",
         NEW st \in {"backlog", "closed"}, conn' = [conn EXCEPT ![c] = st],
         pc # "stopped", UNCHANGED <<fds, addrs, nfds, fdtab>>
  PROVE  SlotsAligned'
<1>1. \A d \in Clients : conn'[d] = "open" <=> conn[d] = "open"
  BY DEF TypeOK
<1> QED BY <1>1 DEF SlotsAligned, Holder

LEMMA SlotStep == SlotInv /\ [Next]_vars => SlotsAligned'
<1> SUFFICES ASSUME SlotInv, [Next]_vars PROVE SlotsAligned'
  OBVIOUS
<1> USE DEF SlotInv, TypeInv, arrays, kernel, remote, past
<1>1. ASSUME CheckStop PROVE SlotsAligned'
  BY <1>1, SlotsAlignedFrame DEF CheckStop
<1>2. ASSUME EnterPoll PROVE SlotsAligned'
  BY <1>2, SlotsAlignedFrame DEF EnterPoll
<1>3. ASSUME PollError PROVE SlotsAligned'
  BY <1>3, SlotsAlignedFrame DEF PollError
<1>4. ASSUME AcceptEnd PROVE SlotsAligned'
  BY <1>4, SlotsAlignedFrame DEF AcceptEnd
<1>5. ASSUME ScanEnd PROVE SlotsAligned'
  BY <1>5, SlotsAlignedFrame DEF ScanEnd
<1>6. ASSUME ScanReadable PROVE SlotsAligned'
  BY <1>6, SlotsAlignedFrame DEF ScanReadable
<1>7. ASSUME ScanQuiet PROVE SlotsAligned'
  BY <1>7, SlotsAlignedFrame DEF ScanQuiet
<1>8. ASSUME DrainData PROVE SlotsAligned'
  BY <1>8, SlotsAlignedFrame DEF DrainData
<1>9. ASSUME DrainAgain PROVE SlotsAligned'
  BY <1>9, SlotsAlignedFrame DEF DrainAgain
<1>10. ASSUME Sigint PROVE SlotsAligned'
  BY <1>10, SlotsAlignedFrame DEF Sigint
<1>11. ASSUME PollReturn PROVE SlotsAligned'
  <2>1. \A s \in 1 .. nfds - 1 : fds'[s].fd = fds[s].fd
    BY <1>11, MaxFdsAssumption DEF PollReturn, TypeOK, Slots
  <2> QED BY <1>11, <2>1, SlotsAlignedFrame DEF PollReturn
<1>12. ASSUME NEW c \in Clients, AcceptAdd(c) PROVE SlotsAligned'
  BY <1>12, AcceptAddSlots
<1>13. ASSUME NEW c \in Clients, AcceptFull(c) PROVE SlotsAligned'
  <2>1. conn' = [conn EXCEPT ![c] = "closed"]
    BY <1>13, CloseOne DEF AcceptFull, Refuse
  <2> QED BY <1>13, <2>1, OtherConnSlots DEF AcceptFull, Refuse
<1>14. ASSUME NEW c \in Clients, AcceptFcntlError(c) PROVE SlotsAligned'
  <2>1. conn' = [conn EXCEPT ![c] = "closed"]
    BY <1>14, CloseOne DEF AcceptFcntlError, Refuse
  <2> QED BY <1>14, <2>1, OtherConnSlots DEF AcceptFcntlError, Refuse
<1>15. ASSUME ScanHup PROVE SlotsAligned'
  <2>1. i \in 1 .. nfds - 1
    BY <1>15 DEF ScanHup, DrainSlot, TypeOK
  <2> QED BY <1>15, <2>1, RemoveFdSlots DEF ScanHup
<1>16. ASSUME DrainEof PROVE SlotsAligned'
  <2>1. i \in 1 .. nfds - 1
    BY <1>16 DEF DrainEof, DrainSlot, TypeOK
  <2> QED BY <1>16, <2>1, RemoveFdSlots DEF DrainEof
<1>17. ASSUME DrainError PROVE SlotsAligned'
  <2>1. i \in 1 .. nfds - 1
    BY <1>17 DEF DrainError, DrainSlot, TypeOK
  <2> QED BY <1>17, <2>1, RemoveFdSlots DEF DrainError
<1>18. ASSUME Cleanup PROVE SlotsAligned'
  BY <1>18 DEF Cleanup, SlotsAligned
<1>19. ASSUME NEW c \in Clients, Connect(c) PROVE SlotsAligned'
  BY <1>19, OtherConnSlots DEF Connect
<1>20. ASSUME NEW c \in Clients, Send(c) PROVE SlotsAligned'
  <2>1. CASE pc = "stopped"
    BY <1>20, <2>1 DEF Send, SlotsAligned
  <2> QED BY <1>20, <2>1, SlotsAlignedFrame DEF Send
<1>21. ASSUME NEW c \in Clients, NEW how \in {"fin", "rst"}, Leave(c, how) PROVE SlotsAligned'
  <2>1. CASE pc = "stopped"
    BY <1>21, <2>1 DEF Leave, SlotsAligned
  <2> QED BY <1>21, <2>1, SlotsAlignedFrame DEF Leave
<1>22. ASSUME UNCHANGED vars PROVE SlotsAligned'
  <2>1. CASE pc = "stopped"
    BY <1>22, <2>1 DEF vars, SlotsAligned
  <2> QED BY <1>22, <2>1, SlotsAlignedFrame DEF vars
<1> QED BY <1>1, <1>2, <1>3, <1>4, <1>5, <1>6, <1>7, <1>8, <1>9, <1>10,
     <1>11, <1>12, <1>13, <1>14, <1>15, <1>16, <1>17, <1>18, <1>19, <1>20,
     <1>21, <1>22 DEF Next, Server, Environment

\* In every reachable state of a running server, with any number of clients,
\* slots and descriptors, the slots in use are exactly the open connections
\* and "Peer addresses aligned with fds[]" (ex_poll_server.c:126) is true.
THEOREM SlotTableCorrect == Spec => []SlotTable
<1>1. Init => SlotsAligned
  BY DEF Init, SlotsAligned
<1>2. Init => SlotInv
  BY <1>1, TypeInit DEF SlotInv
<1>3. SlotInv /\ [Next]_vars => SlotInv'
  BY SlotStep, TypeStep DEF SlotInv
<1>4. SlotInv => SlotTable
  BY DEF SlotInv, TypeInv, SlotTable
<1> QED BY <1>2, <1>3, <1>4, PTL DEF Spec

-----------------------------------------------------------------------------
(* A pass over the clients *)

\* What the last poll() reported of client c has not been dealt with yet.
Pending(c) == polled[c].sent > printed[c] \/ polled[c].peer \in {"fin", "rst"}

\* poll()'s snapshot is about the past of the connection.
SnapshotOld ==
  \A c \in Clients : /\ polled[c].sent <= sent[c]
                     /\ polled[c].peer \in {"fin", "rst"} => peer[c] # "up"
                     /\ conn[c] \in {"idle", "backlog"} => ~ Pending(c)

\* During the pass, whatever is pending lies ahead of the index and is marked
\* in revents; outside of it, nothing is pending.
Ahead ==
  pc \in {"accept", "scan", "drain"} =>
    \A s \in 1 .. nfds - 1 : Pending(addrs[s]) =>
      s >= i /\ "IN" \in fds[s].revents

Idle ==
  pc \in {"check", "enter", "poll"} =>
    \A c \in Clients : conn[c] = "open" => ~ Pending(c)

PassInv == SlotInv /\ SnapshotOld /\ Ahead /\ Idle

\* Steps that change neither the slots nor what is pending.
LEMMA PassFrame ==
  ASSUME PassInv, SnapshotOld',
         UNCHANGED <<fds, addrs, nfds, i, conn, printed, polled>>,
         \/ pc' = pc
         \/ pc \in {"check", "enter", "poll"} /\ pc' \in {"check", "enter", "poll", "cleanup"}
         \/ pc \in {"accept", "scan", "drain"} /\ pc' \in {"accept", "scan", "drain"}
  PROVE  Ahead' /\ Idle'
BY DEF PassInv, Ahead, Idle, Pending

LEMMA SnapshotFrame ==
  ASSUME SnapshotOld, UNCHANGED <<sent, peer, conn, printed, polled>>
  PROVE  SnapshotOld'
BY DEF SnapshotOld, Pending

\* Closing a connection leaves nothing pending of it.
LEMMA CloseSnapshot ==
  ASSUME TypeOK, SnapshotOld, NEW d \in Clients, Close({d})
  PROVE  SnapshotOld' /\ \A c \in Clients : Pending(c)' => Pending(c) /\ c # d
<1>1. /\ conn'[d] = "closed" /\ polled'[d] = [sent |-> 0, peer |-> "unseen"]
      /\ sent'[d] = 0 /\ printed'[d] = 0
  BY CloseOne DEF Unseen
<1>2. ~ Pending(d)'
  BY <1>1 DEF Pending
<1>3. \A c \in Clients : c # d => (Pending(c)' <=> Pending(c))
  BY CloseOne DEF Pending
<1>4. SnapshotOld'
  <2> SUFFICES ASSUME NEW c \in Clients
               PROVE  /\ polled'[c].sent <= sent'[c]
                      /\ polled'[c].peer \in {"fin", "rst"} => peer'[c] # "up"
                      /\ conn'[c] \in {"idle", "backlog"} => ~ Pending(c)'
    BY DEF SnapshotOld
  <2>1. CASE c = d
    BY <1>1, <2>1
  <2>2. CASE c # d
    BY <1>3, <2>2, CloseOne DEF SnapshotOld
  <2> QED BY <2>1, <2>2
<1> QED BY <1>2, <1>3, <1>4

\* The client moved into a removed slot was behind the index and still is.
LEMMA RemoveFdPass ==
  ASSUME PassInv, pc \in {"scan", "drain"}, pc' = "scan",
         i \in 1 .. nfds - 1, RemoveFd(i), UNCHANGED i
  PROVE  SnapshotOld' /\ Ahead' /\ Idle'
<1> DEFINE last == nfds - 1
<1>1. TypeOK /\ SlotsAligned /\ SlotsAligned'
  BY RemoveFdSlots DEF PassInv, SlotInv, TypeInv
<1>2. /\ 1 .. last \subseteq Slots /\ last \in 1 .. last
      /\ 1 .. nfds' - 1 = 1 .. last - 1 /\ i <= last /\ i \in Int
  BY <1>1, MaxFdsAssumption DEF TypeOK, Slots, RemoveFd
<1>3. Close({addrs[i]}) /\ addrs[i] \in Clients
  BY <1>1, <1>2 DEF RemoveFd, SlotsAligned
<1>4. SnapshotOld' /\ \A c \in Clients : Pending(c)' => Pending(c)
  BY <1>1, <1>3, CloseSnapshot DEF PassInv
<1>5. ASSUME NEW t \in 1 .. last - 1, Pending(addrs[t])'
      PROVE  t >= i /\ "IN" \in fds'[t].revents
  <2>p. Pending(addrs'[t])
    <3>1. addrs'[t] \in Clients
      BY <1>1, <1>2 DEF SlotsAligned
    <3>2. (Pending(addrs[t]))' <=> \E c \in Clients : c = addrs'[t] /\ Pending(c)'
      BY <3>1 DEF Pending
    <3> QED BY <1>4, <1>5, <3>2
  <2>1. CASE t = i
    <3>1. addrs'[t] = addrs[last] /\ fds'[t] = fds[last]
      BY <1>1, <1>2, <2>1 DEF TypeOK, RemoveFd
    <3> QED BY <1>2, <2>p, <2>1, <3>1 DEF PassInv, Ahead
  <2>2. CASE t # i
    <3>1. addrs'[t] = addrs[t] /\ fds'[t] = fds[t] /\ t \in 1 .. last
      BY <1>1, <1>2, <2>2 DEF TypeOK, RemoveFd
    <3> QED BY <2>p, <3>1 DEF PassInv, Ahead
  <2> QED BY <2>1, <2>2
<1>6. Ahead'
  BY <1>2, <1>5 DEF Ahead
<1> QED BY <1>4, <1>6 DEF Idle

\* A connection turned away is in no slot.
LEMMA RefusePass ==
  ASSUME PassInv, NEW c \in Clients, Close({c}), pc = "accept", pc' = "accept",
         UNCHANGED <<fds, addrs, nfds, i>>
  PROVE  SnapshotOld' /\ Ahead' /\ Idle'
<1>1. TypeOK /\ SlotsAligned
  BY DEF PassInv, SlotInv, TypeInv
<1>2. SnapshotOld' /\ \A d \in Clients : Pending(d)' => Pending(d)
  BY <1>1, CloseSnapshot DEF PassInv
<1>3. \A s \in 1 .. nfds - 1 : addrs[s] \in Clients
  BY <1>1 DEF SlotsAligned
<1>4. Ahead'
  BY <1>2, <1>3 DEF PassInv, Ahead, Pending
<1> QED BY <1>2, <1>4 DEF Idle

LEMMA PassStep == PassInv /\ [Next]_vars => SnapshotOld' /\ Ahead' /\ Idle'
<1> DEFINE Goal == SnapshotOld' /\ Ahead' /\ Idle'
<1> SUFFICES ASSUME PassInv, [Next]_vars PROVE Goal
  OBVIOUS
<1> USE DEF arrays, kernel, remote, past
<1>t. TypeOK /\ SlotsAligned /\ DrainSlot
  BY DEF PassInv, SlotInv, TypeInv
<1>1. ASSUME CheckStop PROVE Goal
  <2>1. \A c \in Clients : polled'[c] = [sent |-> 0, peer |-> "unseen"]
    BY <1>1 DEF CheckStop, Unseen
  <2>2. \A c \in Clients : ~ Pending(c)' /\ 0 <= sent[c]
    BY <1>1, <1>t, <2>1 DEF CheckStop, Pending, TypeOK
  <2>3. SnapshotOld'
    BY <1>1, <2>1, <2>2 DEF CheckStop, SnapshotOld
  <2> QED BY <1>1, <2>2, <2>3 DEF CheckStop, Ahead, Idle
<1>2. ASSUME EnterPoll PROVE Goal
  <2>1. SnapshotOld'
    BY <1>2, SnapshotFrame DEF PassInv, EnterPoll
  <2> QED BY <1>2, <2>1, PassFrame DEF EnterPoll
<1>3. ASSUME AcceptEnd PROVE Goal
  <2>1. SnapshotOld'
    BY <1>3, SnapshotFrame DEF PassInv, AcceptEnd
  <2> QED BY <1>3, <2>1, PassFrame DEF AcceptEnd
<1>4. ASSUME ScanReadable PROVE Goal
  <2>1. SnapshotOld'
    BY <1>4, SnapshotFrame DEF PassInv, ScanReadable
  <2> QED BY <1>4, <2>1, PassFrame DEF ScanReadable
<1>5. ASSUME Sigint PROVE Goal
  <2>1. SnapshotOld'
    BY <1>5, SnapshotFrame DEF PassInv, Sigint
  <2> QED BY <1>5, <2>1, PassFrame DEF Sigint
<1>6. ASSUME PollError PROVE Goal
  <2>1. SnapshotOld'
    BY <1>6, SnapshotFrame DEF PassInv, PollError
  <2> QED BY <1>6, <2>1, PassFrame DEF PollError
<1>7. ASSUME PollReturn PROVE Goal
  <2>1. /\ i' = 1 /\ pc' \in {"accept", "scan"}
        /\ UNCHANGED <<addrs, nfds, conn, sent, peer, printed, fdtab>>
        /\ 1 .. nfds - 1 \subseteq Slots
    BY <1>7, <1>t, MaxFdsAssumption DEF PollReturn, TypeOK, Slots
  <2>2. \A c \in Clients : polled'[c] = IF conn[c] = "open"
                                        THEN [sent |-> sent[c], peer |-> peer[c]]
                                        ELSE Unseen
    BY <1>7 DEF PollReturn
  <2>3. SnapshotOld'
    <3> SUFFICES ASSUME NEW c \in Clients
                 PROVE  /\ polled'[c].sent <= sent[c]
                        /\ polled'[c].peer \in {"fin", "rst"} => peer[c] # "up"
                        /\ conn[c] \in {"idle", "backlog"} => ~ Pending(c)'
      BY <2>1 DEF SnapshotOld, Pending
    <3>1. sent[c] \in Nat /\ printed[c] \in Nat
      BY <1>t, MaxSentAssumption DEF TypeOK
    <3>2. CASE conn[c] = "open"
      <4>1. polled'[c] = [sent |-> sent[c], peer |-> peer[c]]
        BY <2>2, <3>2
      <4> QED BY <3>1, <3>2, <4>1
    <3>3. CASE conn[c] # "open"
      <4>1. polled'[c] = [sent |-> 0, peer |-> "unseen"]
        BY <2>2, <3>3 DEF Unseen
      <4>2. polled'[c].sent = 0 /\ polled'[c].peer = "unseen" /\ printed'[c] = printed[c]
        BY <2>1, <4>1
      <4>3. ~ Pending(c)'
        BY <3>1, <4>2 DEF Pending
      <4> QED BY <3>1, <4>2, <4>3
    <3> QED BY <3>2, <3>3
  <2>4. ASSUME NEW s \in 1 .. nfds - 1, Pending(addrs[s])'
        PROVE  "IN" \in fds'[s].revents
    <3> DEFINE c == addrs[s]
    <3>1. c \in Clients /\ conn[c] = "open" /\ Holder(s) = c /\ c # NoClient
      BY <1>7, <1>t, <2>1, ClientsAssumption DEF SlotsAligned, PollReturn
    <3>2. polled'[c] = [sent |-> sent[c], peer |-> peer[c]]
      BY <2>2, <3>1
    <3>3. peer[c] # "up" \/ Unread(c) > 0
      <4>1. sent[c] \in Nat /\ printed[c] \in Nat
        BY <1>t, <3>1, MaxSentAssumption DEF TypeOK
      <4>2. polled'[c].sent > printed[c] \/ polled'[c].peer \in {"fin", "rst"}
        BY <2>1, <2>4 DEF Pending
      <4>3. sent[c] > printed[c] \/ peer[c] # "up"
        BY <3>2, <4>2
      <4> QED BY <4>1, <4>3 DEF Unread
    <3>4. "IN" \in SlotEvents(s)
      BY <3>1, <3>3 DEF SlotEvents, EventsOf, Holder
    <3>5. fds'[s].revents = SlotEvents(s)
      <4>1. /\ s \in Slots /\ s < nfds
            /\ fds[s] \in [fd : Fds \cup {0}, revents : SUBSET Events]
        BY <1>t, <2>1 DEF TypeOK
      <4> HIDE DEF SlotEvents
      <4> QED BY <1>7, <4>1 DEF PollReturn
    <3> QED BY <3>4, <3>5
  <2>5. Ahead'
    BY <2>1, <2>4 DEF Ahead
  <2> QED BY <2>1, <2>3, <2>5 DEF Idle
<1>8. ASSUME NEW c \in Clients, AcceptAdd(c) PROVE Goal
  <2>1. /\ pc = "accept" /\ pc' = "accept" /\ conn[c] = "backlog"
        /\ nfds' = nfds + 1
        /\ addrs' = [addrs EXCEPT ![nfds] = c]
        /\ conn' = [conn EXCEPT ![c] = "open"]
        /\ UNCHANGED <<i, sent, peer, printed, polled>>
        /\ nfds \in Slots /\ 1 .. nfds - 1 \subseteq Slots
    BY <1>8, <1>t, MaxFdsAssumption DEF AcceptAdd, TypeOK, Slots
  <2>2. PICK f \in Fds : fds' = [fds EXCEPT ![nfds].fd = f]
    BY <1>8 DEF AcceptAdd
  <2>3. SnapshotOld'
    BY <1>t, <2>1 DEF PassInv, SnapshotOld, Pending, TypeOK
  <2>4. ~ Pending(c)
    BY <2>1 DEF PassInv, SnapshotOld
  <2>5. ASSUME NEW s \in 1 .. nfds' - 1, Pending(addrs'[s])
        PROVE  s >= i /\ "IN" \in fds'[s].revents
    <3>1. s # nfds /\ s \in 1 .. nfds - 1
      BY <1>t, <2>1, <2>4, <2>5 DEF TypeOK
    <3>2. addrs'[s] = addrs[s] /\ fds'[s] = fds[s]
      BY <1>t, <2>1, <2>2, <3>1 DEF TypeOK
    <3> QED BY <2>1, <2>5, <3>1, <3>2 DEF PassInv, Ahead
  <2>6. Ahead'
    BY <2>1, <2>5 DEF Ahead, Pending
  <2> QED BY <2>1, <2>3, <2>6 DEF Idle
<1>9. ASSUME NEW c \in Clients, AcceptFull(c) PROVE Goal
  <2>1. /\ Close({c}) /\ pc = "accept" /\ pc' = "accept"
        /\ UNCHANGED <<fds, addrs, nfds, i>>
    BY <1>9 DEF AcceptFull, Refuse
  <2> QED BY <1>t, <2>1, RefusePass
<1>10. ASSUME NEW c \in Clients, AcceptFcntlError(c) PROVE Goal
  <2>1. /\ Close({c}) /\ pc = "accept" /\ pc' = "accept"
        /\ UNCHANGED <<fds, addrs, nfds, i>>
    BY <1>10 DEF AcceptFcntlError, Refuse
  <2> QED BY <1>t, <2>1, RefusePass
<1>11. ASSUME ScanEnd PROVE Goal
  <2>1. SnapshotOld'
    BY <1>11, SnapshotFrame DEF PassInv, ScanEnd
  <2>2. \A s \in 1 .. nfds - 1 : ~ Pending(addrs[s])
    BY <1>11, <1>t DEF ScanEnd, PassInv, Ahead, TypeOK
  <2>3. \A c \in Clients : conn[c] = "open" => ~ Pending(c)
    BY <1>11, <1>t, <2>2 DEF ScanEnd, SlotsAligned
  <2> QED BY <1>11, <2>1, <2>3 DEF ScanEnd, Idle, Ahead, Pending
<1>12. ASSUME ScanHup PROVE Goal
  <2>1. i \in 1 .. nfds - 1
    BY <1>12, <1>t DEF ScanHup, DrainSlot, TypeOK
  <2> QED BY <1>12, <2>1, RemoveFdPass DEF ScanHup
<1>13. ASSUME DrainEof PROVE Goal
  <2>1. i \in 1 .. nfds - 1
    BY <1>13, <1>t DEF DrainEof, DrainSlot, TypeOK
  <2> QED BY <1>13, <2>1, RemoveFdPass DEF DrainEof
<1>14. ASSUME DrainError PROVE Goal
  <2>1. i \in 1 .. nfds - 1
    BY <1>14, <1>t DEF DrainError, DrainSlot, TypeOK
  <2> QED BY <1>14, <2>1, RemoveFdPass DEF DrainError
<1>15. ASSUME ScanQuiet PROVE Goal
  <2>1. SnapshotOld'
    BY <1>15, SnapshotFrame DEF PassInv, ScanQuiet
  <2>2. ~ Pending(addrs[i])
    BY <1>15, <1>t DEF ScanQuiet, PassInv, Ahead, TypeOK
  <2>3. \A s \in 1 .. nfds - 1 : Pending(addrs[s]) =>
         s >= i + 1 /\ "IN" \in fds[s].revents
    <3> SUFFICES ASSUME NEW s \in 1 .. nfds - 1, Pending(addrs[s])
                 PROVE  s >= i + 1 /\ "IN" \in fds[s].revents
      OBVIOUS
    <3>1. s >= i /\ "IN" \in fds[s].revents
      BY <1>15 DEF ScanQuiet, PassInv, Ahead
    <3>2. s # i /\ i \in Int /\ nfds \in Int
      BY <1>t, <2>2 DEF TypeOK
    <3> QED BY <3>1, <3>2
  <2> QED BY <1>15, <2>1, <2>3 DEF ScanQuiet, Idle, Ahead, Pending
<1>16. ASSUME DrainData PROVE Goal
  <2>1. \A c \in Clients : printed[c] \in Nat /\ (printed'[c] = printed[c] \/ printed'[c] = printed[c] + 1)
    BY <1>16, <1>t DEF DrainData, TypeOK
  <2>2. \A c \in Clients : polled[c].sent \in Nat
    BY <1>t, MaxSentAssumption DEF TypeOK
  <2>3. \A c \in Clients : Pending(c)' => Pending(c)
    BY <1>16, <2>1, <2>2 DEF DrainData, Pending
  <2>4. SnapshotOld'
    BY <1>16, <2>3 DEF DrainData, PassInv, SnapshotOld
  <2>5. \A s \in 1 .. nfds - 1 : addrs[s] \in Clients
    BY <1>16, <1>t DEF DrainData, SlotsAligned
  <2> QED BY <1>16, <2>3, <2>4, <2>5 DEF DrainData, PassInv, Ahead, Idle, Pending
<1>17. ASSUME DrainAgain PROVE Goal
  <2>1. SnapshotOld'
    BY <1>17, SnapshotFrame DEF PassInv, DrainAgain
  <2>2. i \in 1 .. nfds - 1 /\ Holder(i) = addrs[i] /\ addrs[i] \in Clients
    BY <1>17, <1>t DEF DrainAgain, DrainSlot, SlotsAligned, TypeOK
  <2>3. ~ Pending(addrs[i])
    <3>1. /\ polled[addrs[i]].sent <= sent[addrs[i]]
          /\ polled[addrs[i]].peer \notin {"fin", "rst"}
      BY <1>17, <2>2 DEF DrainAgain, PassInv, SnapshotOld
    <3>2. /\ sent[addrs[i]] \in Int /\ printed[addrs[i]] \in Int
          /\ sent[addrs[i]] - printed[addrs[i]] = 0
          /\ polled[addrs[i]].sent \in Int
      BY <1>17, <1>t, <2>2, MaxSentAssumption DEF DrainAgain, Unread, TypeOK
    <3> QED BY <3>1, <3>2 DEF Pending
  <2>4. \A s \in 1 .. nfds - 1 : Pending(addrs[s]) =>
         s >= i + 1 /\ "IN" \in fds[s].revents
    <3> SUFFICES ASSUME NEW s \in 1 .. nfds - 1, Pending(addrs[s])
                 PROVE  s >= i + 1 /\ "IN" \in fds[s].revents
      OBVIOUS
    <3>1. s >= i /\ "IN" \in fds[s].revents
      BY <1>17 DEF DrainAgain, PassInv, Ahead
    <3>2. s # i /\ i \in Int /\ nfds \in Int
      BY <1>t, <2>3 DEF TypeOK
    <3> QED BY <3>1, <3>2
  <2> QED BY <1>17, <2>1, <2>4 DEF DrainAgain, Idle, Ahead, Pending
<1>18. ASSUME Cleanup PROVE Goal
  <2>1. PICK gone \in SUBSET Clients : Close(gone) /\ pc' = "stopped"
    BY <1>18 DEF Cleanup
  <2>2. SnapshotOld'
    <3> SUFFICES ASSUME NEW c \in Clients
                 PROVE  /\ polled'[c].sent <= sent'[c]
                        /\ polled'[c].peer \in {"fin", "rst"} => peer'[c] # "up"
                        /\ conn'[c] \in {"idle", "backlog"} => ~ Pending(c)'
      BY DEF SnapshotOld
    <3>1. CASE c \in gone
      BY <2>1, <3>1 DEF Close, Unseen
    <3>2. CASE c \notin gone
      <4>1. /\ polled'[c] = polled[c] /\ sent'[c] = sent[c] /\ peer'[c] = peer[c]
            /\ conn'[c] = conn[c] /\ printed'[c] = printed[c]
        BY <2>1, <3>2 DEF Close
      <4> QED BY <4>1 DEF PassInv, SnapshotOld, Pending
    <3> QED BY <3>1, <3>2
  <2> QED BY <2>1, <2>2 DEF Ahead, Idle
<1>19. ASSUME NEW c \in Clients, Connect(c) PROVE Goal
  <2>1. /\ conn[c] = "idle" /\ conn' = [conn EXCEPT ![c] = "backlog"]
        /\ UNCHANGED <<pc, fds, addrs, nfds, i, sent, peer, printed, polled>>
    BY <1>19 DEF Connect
  <2> QED BY <1>t, <2>1 DEF PassInv, SnapshotOld, Ahead, Idle, Pending, TypeOK
<1>20. ASSUME NEW c \in Clients, Send(c) PROVE Goal
  <2>1. \A d \in Clients : sent[d] \in Int /\ polled[d].sent \in Int
    BY <1>t DEF TypeOK
  <2>2. \A d \in Clients : sent'[d] = sent[d] \/ sent'[d] = sent[d] + 1
    BY <1>20, <1>t DEF Send, TypeOK
  <2>3. SnapshotOld'
    BY <1>20, <2>1, <2>2 DEF Send, PassInv, SnapshotOld, Pending
  <2> QED BY <1>20, <2>3, PassFrame DEF Send
<1>21. ASSUME NEW c \in Clients, NEW how \in {"fin", "rst"}, Leave(c, how) PROVE Goal
  <2>1. \A d \in Clients : peer'[d] = peer[d] \/ peer'[d] # "up"
    BY <1>21, <1>t DEF Leave, TypeOK
  <2>2. SnapshotOld'
    BY <1>21, <2>1 DEF Leave, PassInv, SnapshotOld, Pending
  <2> QED BY <1>21, <2>2, PassFrame DEF Leave
<1>22. ASSUME UNCHANGED vars PROVE Goal
  <2>1. SnapshotOld'
    BY <1>22, SnapshotFrame DEF PassInv, vars
  <2> QED BY <1>22, <2>1, PassFrame DEF vars
<1> QED BY <1>1, <1>2, <1>3, <1>4, <1>5, <1>6, <1>7, <1>8, <1>9, <1>10,
     <1>11, <1>12, <1>13, <1>14, <1>15, <1>16, <1>17, <1>18, <1>19, <1>20,
     <1>21, <1>22 DEF Next, Server, Environment

\* When a pass over the clients is over, everything poll() had reported of a
\* client still connected has been read and every departure it had reported
\* has been dealt with, however removals reordered the arrays meanwhile.
THEOREM PassServesAllCorrect == Spec => []PassServesAll
<1>1. Init => PassInv
  <2>1. Init => SlotInv
    BY TypeInit DEF SlotInv, Init, SlotsAligned
  <2>2. ASSUME Init PROVE \A c \in Clients : ~ Pending(c)
    BY <2>2 DEF Init, Pending, Unseen
  <2>3. ASSUME Init PROVE SnapshotOld
    <3>1. \A c \in Clients : /\ polled[c] = [sent |-> 0, peer |-> "unseen"]
                             /\ sent[c] = 0
      BY <2>3 DEF Init, Unseen
    <3> QED BY <2>2, <2>3, <3>1 DEF SnapshotOld
  <2> QED BY <2>1, <2>2, <2>3 DEF Init, PassInv, Ahead, Idle
<1>2. PassInv /\ [Next]_vars => PassInv'
  BY PassStep, SlotStep, TypeStep DEF PassInv, SlotInv
<1>3. PassInv => PassServesAll
  <2> SUFFICES ASSUME PassInv, pc = "check", NEW c \in Clients, conn[c] = "open"
               PROVE  /\ printed[c] >= polled[c].sent
                      /\ polled[c].peer \in {"unseen", "up"}
    BY DEF PassServesAll
  <2>1. ~ Pending(c)
    BY DEF PassInv, Idle
  <2>2. /\ printed[c] \in Int /\ polled[c].sent \in Int
        /\ polled[c].peer \in {"unseen", "up", "fin", "rst"}
    BY DEF PassInv, SlotInv, TypeInv, TypeOK
  <2> QED BY <2>1, <2>2 DEF Pending
<1> QED BY <1>1, <1>2, <1>3, PTL DEF Spec

-----------------------------------------------------------------------------
(* Why connections are closed *)

\* During a pass, a hang-up in the events of a client poll() has reported on
\* is that client's own; a client not yet accepted has not been reported on.
SeenHup ==
  pc \in {"accept", "scan", "drain"} =>
    \A s \in 1 .. nfds - 1 :
      polled[addrs[s]] # Unseen /\ "HUP" \in fds[s].revents => peer[addrs[s]] = "rst"

NewUnseen ==
  \A c \in Clients : conn[c] \in {"idle", "backlog"} => polled[c] = Unseen

HupInv == SlotInv /\ SeenHup /\ NewUnseen

LEMMA HupFrame ==
  ASSUME HupInv, UNCHANGED <<fds, addrs, nfds, conn, polled, peer>>,
         pc' \in {"accept", "scan", "drain"} => pc \in {"accept", "scan", "drain"}
  PROVE  SeenHup' /\ NewUnseen'
BY DEF HupInv, SeenHup, NewUnseen

\* One connection is closed and no slot changes.
LEMMA HupRefuse ==
  ASSUME HupInv, NEW c \in Clients, Close({c}), pc = "accept", pc' = "accept",
         UNCHANGED <<fds, addrs, nfds>>
  PROVE  SeenHup' /\ NewUnseen'
<1>1. TypeOK /\ SlotsAligned
  BY DEF HupInv, SlotInv, TypeInv
<1>2. \A s \in 1 .. nfds - 1 : addrs[s] \in Clients
  BY <1>1 DEF SlotsAligned
<1>3. NewUnseen'
  BY <1>1, CloseOne DEF HupInv, NewUnseen
<1>4. SeenHup'
  BY <1>1, <1>2, CloseOne DEF HupInv, SeenHup
<1> QED BY <1>3, <1>4

LEMMA HupRemove ==
  ASSUME HupInv, pc \in {"scan", "drain"}, i \in 1 .. nfds - 1, RemoveFd(i)
  PROVE  SeenHup' /\ NewUnseen'
<1> DEFINE last == nfds - 1
<1>1. TypeOK /\ SlotsAligned
  BY DEF HupInv, SlotInv, TypeInv
<1>2. /\ 1 .. last \subseteq Slots /\ last \in 1 .. last
      /\ 1 .. nfds' - 1 = 1 .. last - 1
  BY <1>1, MaxFdsAssumption DEF TypeOK, Slots, RemoveFd
<1>3. Close({addrs[i]}) /\ addrs[i] \in Clients
  BY <1>1 DEF RemoveFd, SlotsAligned
<1>4. NewUnseen'
  BY <1>1, <1>3, CloseOne DEF HupInv, NewUnseen
<1>5. ASSUME NEW t \in 1 .. last - 1
      PROVE  \E u \in 1 .. last : fds'[t] = fds[u] /\ addrs'[t] = addrs[u]
  <2>1. CASE t = i
    BY <1>1, <1>2, <2>1 DEF TypeOK, RemoveFd
  <2>2. CASE t # i
    BY <1>1, <1>2, <2>2 DEF TypeOK, RemoveFd
  <2> QED BY <2>1, <2>2
<1>6. ASSUME NEW t \in 1 .. last - 1, polled'[addrs'[t]] # Unseen,
             "HUP" \in fds'[t].revents
      PROVE  peer'[addrs'[t]] = "rst"
  <2>1. PICK u \in 1 .. last : fds'[t] = fds[u] /\ addrs'[t] = addrs[u]
    BY <1>5
  <2>2. addrs[u] \in Clients /\ addrs[u] # addrs[i]
    BY <1>1, <1>3, <1>6, <2>1, CloseOne DEF SlotsAligned
  <2>3. polled'[addrs[u]] = polled[addrs[u]] /\ peer'[addrs[u]] = peer[addrs[u]]
    BY <1>1, <1>3, <2>2, CloseOne
  <2> QED BY <1>6, <2>1, <2>3 DEF HupInv, SeenHup
<1> QED BY <1>2, <1>4, <1>6 DEF SeenHup

LEMMA HupStep == HupInv /\ [Next]_vars => SeenHup' /\ NewUnseen'
<1> DEFINE Goal == SeenHup' /\ NewUnseen'
<1> SUFFICES ASSUME HupInv, [Next]_vars PROVE Goal
  OBVIOUS
<1> USE DEF arrays, kernel, remote, past
<1>t. TypeOK /\ SlotsAligned /\ DrainSlot
  BY DEF HupInv, SlotInv, TypeInv
<1>1. ASSUME CheckStop PROVE Goal
  BY <1>1 DEF CheckStop, SeenHup, NewUnseen
<1>2. ASSUME EnterPoll PROVE Goal
  BY <1>2, HupFrame DEF EnterPoll
<1>3. ASSUME AcceptEnd PROVE Goal
  BY <1>3, HupFrame DEF AcceptEnd
<1>4. ASSUME ScanReadable PROVE Goal
  BY <1>4, HupFrame DEF ScanReadable
<1>5. ASSUME Sigint PROVE Goal
  BY <1>5, HupFrame DEF Sigint
<1>6. ASSUME PollError PROVE Goal
  BY <1>6, HupFrame DEF PollError
<1>7. ASSUME ScanEnd PROVE Goal
  BY <1>7, HupFrame DEF ScanEnd
<1>8. ASSUME ScanQuiet PROVE Goal
  BY <1>8, HupFrame DEF ScanQuiet
<1>9. ASSUME DrainData PROVE Goal
  BY <1>9, HupFrame DEF DrainData
<1>10. ASSUME DrainAgain PROVE Goal
  BY <1>10, HupFrame DEF DrainAgain
<1>11. ASSUME NEW c \in Clients, Send(c) PROVE Goal
  BY <1>11, HupFrame DEF Send
<1>12. ASSUME UNCHANGED vars PROVE Goal
  BY <1>12, HupFrame DEF vars
<1>13. ASSUME PollReturn PROVE Goal
  <2>1. /\ UNCHANGED <<addrs, nfds, conn, peer, fdtab>>
        /\ 1 .. nfds - 1 \subseteq Slots
        /\ pc = "poll"
    BY <1>13, <1>t, MaxFdsAssumption DEF PollReturn, TypeOK, Slots
  <2>2. NewUnseen'
    BY <1>13, <2>1 DEF PollReturn, NewUnseen
  <2>3. ASSUME NEW s \in 1 .. nfds - 1, "HUP" \in fds'[s].revents
        PROVE  peer[addrs[s]] = "rst"
    <3>1. fds'[s].revents = SlotEvents(s)
      <4>1. /\ s \in Slots /\ s < nfds
            /\ fds[s] \in [fd : Fds \cup {0}, revents : SUBSET Events]
        BY <1>t, <2>1 DEF TypeOK
      <4> HIDE DEF SlotEvents
      <4> QED BY <1>13, <4>1 DEF PollReturn
    <3>2. addrs[s] \in Clients /\ fdtab[fds[s].fd] = addrs[s] /\ s # 0
      BY <1>t, <2>1 DEF SlotsAligned, Holder
    <3> QED BY <2>3, <3>1, <3>2, ClientsAssumption DEF SlotEvents, EventsOf
  <2> QED BY <2>1, <2>2, <2>3 DEF SeenHup
<1>14. ASSUME NEW c \in Clients, AcceptAdd(c) PROVE Goal
  <2>1. /\ pc = "accept" /\ conn[c] = "backlog" /\ nfds' = nfds + 1
        /\ addrs' = [addrs EXCEPT ![nfds] = c]
        /\ conn' = [conn EXCEPT ![c] = "open"]
        /\ UNCHANGED <<pc, peer, polled>>
        /\ nfds \in Slots /\ 1 .. nfds - 1 \subseteq Slots
    BY <1>14, <1>t, MaxFdsAssumption DEF AcceptAdd, TypeOK, Slots
  <2>2. PICK f \in Fds : fds' = [fds EXCEPT ![nfds].fd = f]
    BY <1>14 DEF AcceptAdd
  <2>3. NewUnseen'
    BY <1>t, <2>1 DEF HupInv, NewUnseen, TypeOK
  <2>4. polled[c] = Unseen
    BY <2>1 DEF HupInv, NewUnseen
  <2>5. ASSUME NEW s \in 1 .. nfds' - 1, polled[addrs'[s]] # Unseen,
               "HUP" \in fds'[s].revents
        PROVE  peer[addrs'[s]] = "rst"
    <3>1. s # nfds /\ s \in 1 .. nfds - 1
      BY <1>t, <2>1, <2>4, <2>5 DEF TypeOK
    <3>2. addrs'[s] = addrs[s] /\ fds'[s] = fds[s]
      BY <1>t, <2>1, <2>2, <3>1 DEF TypeOK
    <3> QED BY <2>1, <2>5, <3>1, <3>2 DEF HupInv, SeenHup
  <2> QED BY <2>1, <2>3, <2>5 DEF SeenHup
<1>15. ASSUME NEW c \in Clients, AcceptFull(c) PROVE Goal
  BY <1>15, HupRefuse DEF AcceptFull, Refuse
<1>16. ASSUME NEW c \in Clients, AcceptFcntlError(c) PROVE Goal
  BY <1>16, HupRefuse DEF AcceptFcntlError, Refuse
<1>17. ASSUME ScanHup PROVE Goal
  <2>1. i \in 1 .. nfds - 1
    BY <1>17, <1>t DEF ScanHup, TypeOK
  <2> QED BY <1>17, <2>1, HupRemove DEF ScanHup
<1>18. ASSUME DrainEof PROVE Goal
  <2>1. i \in 1 .. nfds - 1
    BY <1>18, <1>t DEF DrainEof, DrainSlot, TypeOK
  <2> QED BY <1>18, <2>1, HupRemove DEF DrainEof
<1>19. ASSUME DrainError PROVE Goal
  <2>1. i \in 1 .. nfds - 1
    BY <1>19, <1>t DEF DrainError, DrainSlot, TypeOK
  <2> QED BY <1>19, <2>1, HupRemove DEF DrainError
<1>20. ASSUME Cleanup PROVE Goal
  <2>1. PICK gone \in SUBSET Clients : Close(gone) /\ pc' = "stopped"
    BY <1>20 DEF Cleanup
  <2>2. NewUnseen'
    BY <2>1 DEF Close, HupInv, NewUnseen
  <2> QED BY <2>1, <2>2 DEF SeenHup
<1>21. ASSUME NEW c \in Clients, Connect(c) PROVE Goal
  <2>1. \A d \in Clients : conn'[d] \in {"idle", "backlog"} => conn[d] \in {"idle", "backlog"}
    BY <1>21, <1>t DEF Connect, TypeOK
  <2> QED BY <1>21, <2>1 DEF Connect, HupInv, SeenHup, NewUnseen
<1>22. ASSUME NEW c \in Clients, NEW how \in {"fin", "rst"}, Leave(c, how) PROVE Goal
  <2>1. \A d \in Clients : peer[d] = "rst" => peer'[d] = "rst"
    BY <1>22, <1>t DEF Leave, Connected, TypeOK
  <2>2. \A s \in 1 .. nfds - 1 : pc # "stopped" => addrs[s] \in Clients
    BY <1>t DEF SlotsAligned
  <2> QED BY <1>22, <2>1, <2>2 DEF Leave, HupInv, SeenHup, NewUnseen
<1> QED BY <1>1, <1>2, <1>3, <1>4, <1>5, <1>6, <1>7, <1>8, <1>9, <1>10,
     <1>11, <1>12, <1>13, <1>14, <1>15, <1>16, <1>17, <1>18, <1>19, <1>20,
     <1>21, <1>22 DEF Next, Server, Environment

\* A step that closes a connection poll() has reported on closes one whose
\* client is gone.
LEMMA ClosedStep ==
  ASSUME HupInv, [Next]_vars, NEW c \in Clients, Removed(c), polled[c] # Unseen
  PROVE  peer[c] = "rst" \/ (peer[c] = "fin" /\ printed[c] = sent[c])
<1> USE DEF arrays, kernel, remote, past
<1>t. TypeOK /\ SlotsAligned /\ DrainSlot
  BY DEF HupInv, SlotInv, TypeInv
<1>1. pc # "cleanup" /\ conn[c] = "open" /\ conn'[c] = "closed"
  BY DEF Removed
<1>2. ASSUME i \in 1 .. nfds - 1, RemoveFd(i), pc \in {"scan", "drain"}
      PROVE  c = addrs[i] /\ Holder(i) = addrs[i]
  <2>1. Close({addrs[i]}) /\ addrs[i] \in Clients /\ Holder(i) = addrs[i]
    BY <1>2, <1>t DEF RemoveFd, SlotsAligned
  <2> QED BY <1>1, <1>t, <2>1, CloseOne
<1>3. ASSUME NEW d \in Clients, conn[d] = "backlog", Close({d}) PROVE FALSE
  BY <1>1, <1>3, <1>t, CloseOne
<1>4. CASE ScanHup
  <2>1. i \in 1 .. nfds - 1 /\ RemoveFd(i) /\ pc = "scan" /\ "HUP" \in fds[i].revents
    BY <1>4, <1>t DEF ScanHup, TypeOK
  <2> QED BY <1>2, <2>1 DEF HupInv, SeenHup
<1>5. CASE DrainEof
  <2>1. /\ i \in 1 .. nfds - 1 /\ RemoveFd(i) /\ pc = "drain"
        /\ Unread(Holder(i)) = 0 /\ peer[Holder(i)] = "fin"
    BY <1>5, <1>t DEF DrainEof, DrainSlot, TypeOK
  <2>2. sent[c] \in Int /\ printed[c] \in Int
    BY <1>t, MaxSentAssumption DEF TypeOK
  <2> QED BY <1>2, <2>1, <2>2 DEF Unread
<1>6. CASE DrainError
  <2>1. /\ i \in 1 .. nfds - 1 /\ RemoveFd(i) /\ pc = "drain"
        /\ peer[Holder(i)] = "rst"
    BY <1>6, <1>t DEF DrainError, DrainSlot, TypeOK
  <2> QED BY <1>2, <2>1
<1>7. ASSUME NEW d \in Clients, AcceptFull(d) \/ AcceptFcntlError(d) PROVE FALSE
  BY <1>3, <1>7 DEF AcceptFull, AcceptFcntlError, Refuse
<1>8. ASSUME NEW d \in Clients, AcceptAdd(d) \/ Connect(d) PROVE FALSE
  BY <1>1, <1>8, <1>t DEF AcceptAdd, Connect, TypeOK
<1>9. ~ Cleanup
  BY <1>1 DEF Cleanup
<1>10. ASSUME UNCHANGED conn PROVE FALSE
  BY <1>1, <1>10
<1>11. \/ ScanHup \/ DrainEof \/ DrainError \/ Cleanup \/ UNCHANGED conn
       \/ \E d \in Clients : \/ AcceptFull(d) \/ AcceptFcntlError(d)
                             \/ AcceptAdd(d) \/ Connect(d)
  BY DEF Next, Server, Environment, CheckStop, EnterPoll, PollReturn, PollError,
         AcceptEnd, ScanEnd, ScanReadable, ScanQuiet, DrainData, DrainAgain,
         Sigint, Send, Leave, vars
<1> QED BY <1>4, <1>5, <1>6, <1>7, <1>8, <1>9, <1>10, <1>11

\* With any number of clients, slots and descriptors, the server disconnects a
\* client poll() has reported on only if that client is gone, and after an
\* orderly end only when all it sent is printed.
THEOREM ClosedRightCorrect == Spec => ClosedRight
<1>1. Init => HupInv
  <2>1. Init => SlotInv
    BY TypeInit DEF SlotInv, Init, SlotsAligned
  <2> QED BY <2>1 DEF Init, HupInv, SeenHup, NewUnseen
<1>2. HupInv /\ [Next]_vars => HupInv'
  BY HupStep, SlotStep, TypeStep DEF HupInv, SlotInv
<1>3. HupInv /\ [Next]_vars =>
        [\A c \in Clients : Removed(c) /\ polled[c] # Unseen =>
           peer[c] = "rst" \/ (peer[c] = "fin" /\ printed[c] = sent[c])]_vars
  BY ClosedStep
<1> QED BY <1>1, <1>2, <1>3, PTL DEF Spec, ClosedRight
=============================================================================
