-------------------------- MODULE ForkServerProofs --------------------------
(* TLAPS proofs about the forking accept loop, for any number of clients.  *)
EXTENDS ForkServer, TLAPS

\* What NoLeakedSocket needs to be inductive: connfd is open exactly while the
\* parent is between accept() and close(), the connection in it has no child
\* before fork() and one after it, and nobody holds a connection before it is
\* accepted.
ForkInv ==
  /\ ForkTypeOK
  /\ NoLeakedSocket
  /\ parent = "accept" <=> connfd = NoClient
  /\ parent = "fork" => child[connfd] = "none"
  /\ parent = "close" => child[connfd] # "none"
  /\ \A c \in Clients : conn[c] # "accepted" => child[c] = "none" /\ holders[c] = {}

LEMMA ForkInvInit == ForkInit => ForkInv
BY ClientsAssumption DEF ForkInit, ForkInv, ForkTypeOK, NoLeakedSocket

\* The connection in connfd, when it is open.
LEMMA ConnfdOpen == ForkInv /\ parent # "accept" => connfd \in Clients
BY DEF ForkInv, ForkTypeOK

LEMMA AcceptKeeps == ASSUME ForkInv, NEW c \in Clients, Accept(c) PROVE ForkInv'
<1>1. child[c] = "none" /\ holders[c] = {} /\ connfd = NoClient
  BY DEF ForkInv, Accept
<1>2. ForkTypeOK'
  BY DEF ForkInv, ForkTypeOK, Accept
<1>3. NoLeakedSocket'
  BY <1>1, ClientsAssumption DEF ForkInv, ForkTypeOK, NoLeakedSocket, Accept
<1> QED BY <1>1, <1>2, <1>3, ClientsAssumption DEF ForkInv, ForkTypeOK, Accept

LEMMA ForkKeeps == ASSUME ForkInv, Fork PROVE ForkInv'
<1>1. connfd \in Clients /\ child[connfd] = "none"
  BY ConnfdOpen DEF ForkInv, Fork
<1>2. ForkTypeOK'
  BY <1>1 DEF ForkInv, ForkTypeOK, Fork
<1>3. NoLeakedSocket'
  BY <1>1 DEF ForkInv, ForkTypeOK, NoLeakedSocket, Fork
<1>4. conn[connfd] = "accepted"
  BY <1>1 DEF ForkInv, NoLeakedSocket, ForkTypeOK
<1> QED BY <1>1, <1>2, <1>3, <1>4 DEF ForkInv, ForkTypeOK, Fork

LEMMA DropKeeps ==
  ASSUME ForkInv, parent # "accept", DropConn, UNCHANGED <<conn, child, sigchld, handling>>
  PROVE  ForkInv'
<1>1. connfd \in Clients
  BY ConnfdOpen
<1>2. ForkTypeOK'
  BY <1>1 DEF ForkInv, ForkTypeOK, DropConn
<1>3. NoLeakedSocket'
  BY <1>1, ClientsAssumption DEF ForkInv, ForkTypeOK, NoLeakedSocket, DropConn
<1> QED BY <1>1, <1>2, <1>3 DEF ForkInv, ForkTypeOK, DropConn

\* A step of one child: no other process's descriptors change.
LEMMA ChildKeeps ==
  ASSUME ForkInv, NEW c \in Clients, ChildStart(c) \/ ChildExit(c)
  PROVE  ForkInv'
<1>1. child[c] # "none" /\ (parent = "fork" => connfd # c)
  BY DEF ForkInv, ChildStart, ChildExit
<1>2. ForkTypeOK'
  BY DEF ForkInv, ForkTypeOK, ChildStart, ChildExit
<1>3. NoLeakedSocket'
  BY DEF ForkInv, ForkTypeOK, NoLeakedSocket, ChildStart, ChildExit
<1>4. parent' = parent /\ connfd' = connfd /\ conn' = conn
  BY DEF ChildStart, ChildExit
<1>5. \A d \in Clients : d # c => child'[d] = child[d] /\ holders'[d] = holders[d]
  BY DEF ForkInv, ForkTypeOK, ChildStart, ChildExit
<1>6. parent = "fork" => child'[connfd] = "none"
  BY <1>1, <1>5, ConnfdOpen DEF ForkInv
<1>7. \A d \in Clients : conn[d] # "accepted" => d # c
  BY <1>1 DEF ForkInv
<1>8. parent = "close" => child'[connfd] # "none"
  BY <1>1, <1>5, ConnfdOpen DEF ForkInv, ForkTypeOK, ChildStart, ChildExit
<1> QED BY <1>2, <1>3, <1>4, <1>5, <1>6, <1>7, <1>8 DEF ForkInv

LEMMA ReapKeeps == ASSUME ForkInv, NEW c \in Clients, Reap(c) PROVE ForkInv'
<1>1. (parent = "fork" => connfd # c) /\ conn[c] = "accepted"
  BY DEF ForkInv, Reap
<1>2. ForkTypeOK'
  BY DEF ForkInv, ForkTypeOK, Reap
<1>3. NoLeakedSocket'
  BY DEF ForkInv, ForkTypeOK, NoLeakedSocket, Reap
<1>4. \A d \in Clients : d # c => child'[d] = child[d]
  BY DEF ForkInv, ForkTypeOK, Reap
<1>5. parent = "close" => child'[connfd] # "none"
  BY ConnfdOpen DEF ForkInv, ForkTypeOK, Reap
<1> QED BY <1>1, <1>2, <1>3, <1>4, <1>5, ConnfdOpen DEF ForkInv, Reap

LEMMA ConnectKeeps == ASSUME ForkInv, NEW c \in Clients, Connect(c) PROVE ForkInv'
BY DEF ForkInv, ForkTypeOK, NoLeakedSocket, Connect

LEMMA ForkInvStep == ForkInv /\ [ForkNext]_fork_vars => ForkInv'
<1> SUFFICES ASSUME ForkInv, [ForkNext]_fork_vars PROVE ForkInv'
  OBVIOUS
<1>1. ASSUME NEW c \in Clients, Accept(c) PROVE ForkInv'
  BY <1>1, AcceptKeeps
<1>2. CASE Fork
  BY <1>2, ForkKeeps
<1>3. CASE ForkFails \/ CloseConn
  BY <1>3, DropKeeps DEF ForkFails, CloseConn
<1>4. CASE Sigchld \/ HandlerReturns
  BY <1>4 DEF ForkInv, ForkTypeOK, NoLeakedSocket, Sigchld, HandlerReturns
<1>5. ASSUME NEW c \in Clients, Reap(c) PROVE ForkInv'
  BY <1>5, ReapKeeps
<1>6. ASSUME NEW c \in Clients, ChildStart(c) \/ ChildExit(c) PROVE ForkInv'
  BY <1>6, ChildKeeps
<1>7. ASSUME NEW c \in Clients, Connect(c) PROVE ForkInv'
  BY <1>7, ConnectKeeps
<1>8. CASE UNCHANGED fork_vars
  BY <1>8 DEF fork_vars, ForkInv, ForkTypeOK, NoLeakedSocket
<1> QED BY <1>1, <1>2, <1>3, <1>4, <1>5, <1>6, <1>7, <1>8 DEF ForkNext, Parent, Loop, Handler

\* A connection's socket is open in its child while that lives, in the parent
\* from accept() to close(), and nowhere else, whatever the children do.
THEOREM NoLeakedSocketCorrect == ForkSpec => []NoLeakedSocket
<1>1. ForkInv => NoLeakedSocket
  BY DEF ForkInv
<1> QED BY <1>1, ForkInvInit, ForkInvStep, PTL DEF ForkSpec
=============================================================================
