--------------------------- MODULE ForkEchoProofs ---------------------------
(* TLAPS proofs about the forking echo servers, for any number of clients  *)
(* and workers and any bound on what is under way.                         *)
EXTENDS ForkEcho, ForkServerProofs

-----------------------------------------------------------------------------
(* The accept loop *)

LEMMA EchoStepIsForkStep == [Next]_vars => [ForkNext]_fork_vars
<1> SUFFICES ASSUME [Next]_vars PROVE [ForkNext]_fork_vars
  OBVIOUS
<1>1. CASE WithHandler \/ Sleeping \/ AfterAccept
  BY <1>1 DEF WithHandler, Sleeping, AfterAccept, Parent, ForkNext
<1>2. ASSUME NEW c \in Clients, Finish(c) PROVE [ForkNext]_fork_vars
  BY <1>2 DEF Finish, ForkNext
<1>3. ASSUME NEW c \in Clients, Session(c) PROVE [ForkNext]_fork_vars
  <2>1. CASE Start(c)
    BY <2>1 DEF Start, ForkNext
  <2>2. CASE Receive(c) \/ ReceiveEnd(c) \/ SendBack(c)
    BY <2>2 DEF Receive, ReceiveEnd, SendBack
  <2>3. CASE Close(c) \/ EchoEnd(c) \/ Sigpipe(c)
    BY <1>2, <2>3 DEF Close, EchoEnd, Sigpipe
  <2> QED BY <1>3, <2>1, <2>2, <2>3 DEF Session
<1>4. ASSUME NEW c \in Clients, Client(c) PROVE [ForkNext]_fork_vars
  <2>1. CASE Open(c)
    BY <2>1 DEF Open, ForkNext
  <2>2. CASE ~ Open(c)
    BY <1>4, <2>2 DEF Client, Enter, EndOfInput, ReadEcho, ReadEnd, Leave, Go
  <2> QED BY <2>1, <2>2
<1>5. ASSUME NEW c \in Clients,
             Take(c) \/ SigpipeAll(c) \/ NoThread(c) \/ DetachStale(c)
      PROVE  [ForkNext]_fork_vars
  BY <1>5 DEF Take, SigpipeAll, NoThread, DetachStale, Crash
<1>6. CASE UNCHANGED vars
  BY <1>6 DEF vars
<1> QED BY <1>1, <1>3, <1>4, <1>5, <1>6 DEF Next

\* Each of the servers is a forking accept loop; those of the workers and of the
\* threads never fork for a connection.
THEOREM EchoImplementsFork == Spec => ForkSpec
<1>1. Init => ForkInit
  BY DEF Init
<1> QED BY <1>1, EchoStepIsForkStep, PTL DEF Spec, ForkSpec

-----------------------------------------------------------------------------
(* What is echoed *)

\* This client has no session any more, or never gets one: fork() failed and its
\* connection is closed, there was no thread, or the process is dead.
Refused(c) ==
  \/ conn[c] = "accepted" /\ child[c] = "none" /\ connfd # c
  \/ stage[c] = "refused"
  \/ down

\* What Conserved needs of each client to be inductive: where a session is for
\* each state of its child, that nothing is in its hands but while it sends,
\* and that pieces wait for the client's child before there is one.
SessionInv(c) ==
  /\ down => program = "threads" /\ ~ Serving(c)
  /\ conn[c] = "idle" <=> user[c] = "away"
  /\ lost[c] => user[c] = "gone"
  /\ stage[c] # "send" => hand[c] = 0
  /\ stage[c] = "none" => back[c] = 0
  /\ Forking =>
       /\ stage[c] # "refused"
       /\ child[c] \in {"none", "forked"} <=> stage[c] = "none"
       /\ child[c] = "running" <=> Serving(c)
  /\ ~ Once =>
       /\ stage[c] # "close"
       /\ stage[c] = "over" => user[c] = "gone" \/ down
       /\ program = "threads" => child[c] = "none" /\ conn[c] # "accepted"
       /\ user[c] # "gone" => back[c] <= owed[c]
       /\ user[c] # "gone" /\ ~ Refused(c) => owed[c] = inbox[c] + hand[c] + back[c]
  /\ Once =>
       /\ user[c] # "gone" => inbox[c] <= owed[c]
       /\ hand[c] <= 1
       /\ stage[c] \in {"recv", "send"} => back[c] = 0

EchoInv ==
  /\ ForkInv
  /\ TypeOK
  /\ \A c \in Clients : SessionInv(c)

LEMMA EchoInit == Init => EchoInv
<1> SUFFICES ASSUME Init PROVE EchoInv
  OBVIOUS
<1>1. ForkInv
  BY ForkInvInit DEF Init
<1>2. TypeOK
  <2>1. down \in BOOLEAN /\ ended \in [Clients -> BOOLEAN] /\ lost \in [Clients -> BOOLEAN]
    BY DEF Init
  <2> QED BY <1>1, <2>1, PiecesAssumption DEF Init, TypeOK, ForkInv
<1>3. ASSUME NEW c \in Clients PROVE SessionInv(c)
  BY <1>3 DEF Init, ForkInit, SessionInv, Serving, Once, Refused, Forking
<1> QED BY <1>1, <1>2, <1>3 DEF EchoInv

\* The steps of a parent: only processes and descriptors change, and only a
\* connection that was pending or in connfd gets a child, or is refused one.
LEMMA LoopKeeps ==
  ASSUME EchoInv, Parent, Forking, UNCHANGED <<program, echo_vars>>,
         NEW c \in Clients
  PROVE  SessionInv(c)'
<1> USE DEF EchoInv, TypeOK, ForkTypeOK, SessionInv, Serving, Once, Refused, Forking, echo_vars
<1>1. ASSUME NEW d \in Clients, Accept(d) PROVE SessionInv(c)'
  BY <1>1 DEF Accept
<1>2. CASE Fork
  <2>1. connfd \in Clients /\ child[connfd] = "none"
    BY <1>2, ConnfdOpen DEF Fork, ForkInv
  <2> QED BY <1>2, <2>1 DEF Fork
<1>3. CASE ForkFails
  <2>1. connfd \in Clients /\ child[connfd] = "none"
    BY <1>3, ConnfdOpen DEF ForkFails, ForkInv
  <2>2. connfd # NoClient /\ connfd' = NoClient /\ UNCHANGED <<conn, child>>
    BY <1>3, <2>1, ClientsAssumption DEF ForkFails, DropConn
  <2>3. Refused(c) => Refused(c)'
    BY <2>2, ClientsAssumption
  <2> QED BY <2>2, <2>3
<1>4. CASE CloseConn
  <2>1. connfd \in Clients /\ child[connfd] # "none"
    BY <1>4, ConnfdOpen DEF CloseConn, ForkInv
  <2>2. connfd' = NoClient /\ UNCHANGED <<conn, child>>
    BY <1>4 DEF CloseConn, DropConn
  <2> QED BY <2>1, <2>2, ClientsAssumption
<1>5. CASE Sigchld \/ HandlerReturns
  BY <1>5 DEF Sigchld, HandlerReturns
<1>6. ASSUME NEW d \in Clients, Reap(d) PROVE SessionInv(c)'
  BY <1>6 DEF Reap
<1> QED BY <1>1, <1>2, <1>3, <1>4, <1>5, <1>6 DEF Parent, Loop, Handler

-----------------------------------------------------------------------------
(* The steps of a session and of a client *)

\* They change what is kept of one client only.
LEMMA Others ==
  ASSUME EchoInv, NEW c \in Clients, NEW d \in Clients, d # c,
         UNCHANGED <<program, down, connfd>>,
         conn'[d] = conn[d], child'[d] = child[d],
         stage'[d] = stage[d], hand'[d] = hand[d], inbox'[d] = inbox[d],
         back'[d] = back[d], lost'[d] = lost[d], user'[d] = user[d], owed'[d] = owed[d]
  PROVE  SessionInv(d)'
BY DEF EchoInv, SessionInv, Serving, Once, Refused, Forking

LEMMA StartKeeps == ASSUME EchoInv, NEW c \in Clients, Start(c), ForkInv' PROVE EchoInv'
<1> USE DEF EchoInv, TypeOK, ForkTypeOK, Start, ChildStart
<1>1. TypeOK'
  BY DEF ForkInv
<1>2. SessionInv(c)'
  BY DEF SessionInv, Serving, Once, Refused, Forking
<1>3. ASSUME NEW d \in Clients, d # c PROVE SessionInv(d)'
  BY <1>3, Others
<1> QED BY <1>1, <1>2, <1>3

LEMMA TakeKeeps == ASSUME EchoInv, NEW c \in Clients, Take(c), ForkInv' PROVE EchoInv'
<1> USE DEF EchoInv, TypeOK, ForkTypeOK, Take, fork_vars
<1>1. TypeOK'
  OBVIOUS
<1>2. SessionInv(c)'
  BY DEF SessionInv, Serving, Once, Refused, Forking
<1>3. ASSUME NEW d \in Clients, d # c PROVE SessionInv(d)'
  BY <1>3, Others
<1> QED BY <1>1, <1>2, <1>3

LEMMA ReceiveKeeps ==
  ASSUME EchoInv, NEW c \in Clients, Receive(c) \/ ReceiveEnd(c), ForkInv'
  PROVE  EchoInv'
<1> USE DEF EchoInv, TypeOK, ForkTypeOK, fork_vars
<1>1. CASE Receive(c)
  <2>1. PICK n \in 1 .. inbox[c] :
          /\ inbox' = [inbox EXCEPT ![c] = @ - n]
          /\ hand' = [hand EXCEPT ![c] = IF Once THEN 1 ELSE n]
    BY <1>1 DEF Receive
  <2>2. TypeOK'
    BY <1>1, <2>1, PiecesAssumption DEF Receive
  <2>3. SessionInv(c)'
    BY <1>1, <2>1 DEF Receive, SessionInv, Serving, Once, Refused, Forking
  <2>4. ASSUME NEW d \in Clients, d # c PROVE SessionInv(d)'
    BY <1>1, <2>1, <2>4, Others DEF Receive
  <2> QED BY <2>2, <2>3, <2>4
<1>2. CASE ReceiveEnd(c)
  <2> USE DEF ReceiveEnd
  <2>1. TypeOK'
    BY <1>2, PiecesAssumption
  <2>2. SessionInv(c)'
    BY <1>2 DEF SessionInv, Serving, Once, Refused, Forking
  <2>3. ASSUME NEW d \in Clients, d # c PROVE SessionInv(d)'
    BY <1>2, <2>3, Others
  <2> QED BY <2>1, <2>2, <2>3
<1> QED BY <1>1, <1>2

LEMMA SendBackKeeps == ASSUME EchoInv, NEW c \in Clients, SendBack(c), ForkInv' PROVE EchoInv'
<1> USE DEF EchoInv, TypeOK, ForkTypeOK, SendBack, fork_vars
<1>1. user[c] # "gone" => back[c] + hand[c] \in 0 .. MaxOwed
  <2>1. CASE Once
    BY <2>1, PiecesAssumption DEF SessionInv
  <2>2. CASE ~ Once
    <3>1. ~ Refused(c)
      BY <2>2 DEF SessionInv, Serving, Once, Refused, Forking, Programs
    <3> QED BY <2>2, <3>1, PiecesAssumption DEF SessionInv
  <2> QED BY <2>1, <2>2
<1>2. TypeOK'
  BY <1>1, PiecesAssumption
<1>3. SessionInv(c)'
  <2>1. CASE Once
    BY <1>1, <2>1 DEF SessionInv, Serving, Once, Refused, Forking
  <2>2. CASE ~ Once
    <3>1. ~ Refused(c)
      BY <2>2 DEF SessionInv, Serving, Once, Refused, Forking, Programs
    <3>2. user[c] # "gone" => owed[c] = inbox[c] + hand[c] + back[c]
      BY <2>2, <3>1 DEF SessionInv
    <3>3. /\ stage' = [stage EXCEPT ![c] = "recv"]
          /\ hand'[c] = 0 /\ inbox'[c] = inbox[c] /\ owed'[c] = owed[c]
          /\ user[c] # "gone" => back'[c] = back[c] + hand[c]
      BY <2>2
    <3>4. user[c] # "gone" => owed'[c] = inbox'[c] + hand'[c] + back'[c] /\ back'[c] <= owed'[c]
      BY <1>1, <3>2, <3>3
    <3> QED BY <2>2, <3>3, <3>4 DEF SessionInv, Serving, Once, Refused, Forking
  <2> QED BY <2>1, <2>2
<1>4. ASSUME NEW d \in Clients, d # c PROVE SessionInv(d)'
  BY <1>4, Others
<1> QED BY <1>2, <1>3, <1>4

\* A session of an echo server ends only when its client is gone.
LEMMA FinishKeeps ==
  ASSUME EchoInv, NEW c \in Clients, Close(c) \/ EchoEnd(c) \/ Sigpipe(c), ForkInv'
  PROVE  EchoInv'
<1> USE DEF EchoInv, TypeOK, ForkTypeOK
<1>1. Finish(c) /\ Serving(c) /\ (~ Once => user[c] = "gone")
  BY DEF Close, EchoEnd, Sigpipe, Serving, SessionInv
<1>2. /\ UNCHANGED <<program, down, connfd, conn, back, user, ended, owed>>
      /\ \A d \in Clients : d # c => child'[d] = child[d]
      /\ child'[c] = IF Forking THEN "zombie" ELSE child[c]
  BY <1>1 DEF Finish, ChildExit, fork_vars
<1>3. TypeOK'
  BY <1>1, PiecesAssumption DEF Finish, ForkInv
<1>4. SessionInv(c)'
  BY <1>1, <1>2 DEF Finish, SessionInv, Serving, Once, Refused, Forking
<1>5. ASSUME NEW d \in Clients, d # c PROVE SessionInv(d)'
  BY <1>1, <1>2, <1>5, Others DEF Finish
<1> QED BY <1>3, <1>4, <1>5

LEMMA OpenKeeps == ASSUME EchoInv, NEW c \in Clients, Open(c), ForkInv' PROVE EchoInv'
<1> USE DEF EchoInv, TypeOK, ForkTypeOK, Open, Connect
<1>1. TypeOK'
  OBVIOUS
<1>2. SessionInv(c)'
  BY DEF SessionInv, Serving, Once, Refused, Forking
<1>3. ASSUME NEW d \in Clients, d # c PROVE SessionInv(d)'
  BY <1>3, Others
<1> QED BY <1>1, <1>2, <1>3

\* A thread that is refused, and the death of the process, end sessions of
\* "threads" only, and Conserved claims nothing of them.
LEMMA NoThreadKeeps == ASSUME EchoInv, NEW c \in Clients, NoThread(c), ForkInv' PROVE EchoInv'
<1> USE DEF EchoInv, TypeOK, ForkTypeOK, NoThread, fork_vars
<1>1. TypeOK'
  BY PiecesAssumption
<1>2. SessionInv(c)'
  BY DEF SessionInv, Serving, Once, Refused, Forking
<1>3. ASSUME NEW d \in Clients, d # c PROVE SessionInv(d)'
  BY <1>3, Others
<1> QED BY <1>1, <1>2, <1>3

LEMMA CrashKeeps ==
  ASSUME EchoInv, program = "threads", Crash, ForkInv'
  PROVE  EchoInv'
<1> USE DEF EchoInv, TypeOK, ForkTypeOK, Crash, fork_vars
<1>1. TypeOK'
  BY PiecesAssumption
<1>2. ASSUME NEW d \in Clients PROVE SessionInv(d)'
  BY <1>2 DEF SessionInv, Serving, Once, Refused, Forking
<1> QED BY <1>1, <1>2

\* As long as its client is there, a session's connection is open.
LEMMA NotOver ==
  ASSUME EchoInv, NEW c \in Clients, ~ Once, user[c] # "gone", ~ Refused(c)
  PROVE  ~ Over(c)
<1> USE DEF EchoInv, ForkInv, NoLeakedSocket, SessionInv, Serving, Once, Forking, TypeOK, ForkTypeOK
<1>1. CASE ~ Forking \/ child[c] = "none"
  BY <1>1 DEF Refused, Over
<1>2. CASE Forking /\ child[c] # "none"
  <2>1. child[c] \in {"forked", "running"}
    BY <1>2
  <2> QED BY <1>2, <2>1 DEF Over
<1> QED BY <1>1, <1>2

LEMMA EnterKeeps == ASSUME EchoInv, NEW c \in Clients, Enter(c), ForkInv' PROVE EchoInv'
<1> USE DEF EchoInv, TypeOK, ForkTypeOK
<1>1. PICK n \in 1 .. Pieces :
        /\ owed[c] + n <= MaxOwed
        /\ owed' = [owed EXCEPT ![c] = @ + n]
        /\ inbox' = [inbox EXCEPT ![c] = IF Over(c) THEN @ ELSE @ + n]
  <2>1. (IF Once THEN {1} ELSE 1 .. Pieces) \subseteq 1 .. Pieces
    BY PiecesAssumption
  <2> QED BY <2>1 DEF Enter
<1>2. /\ user[c] = "typing" /\ user' = [user EXCEPT ![c] = "waiting"]
      /\ UNCHANGED <<program, down, fork_vars, stage, hand, back, lost, ended>>
  BY DEF Enter
<1>3. ~ Over(c) => inbox[c] <= owed[c]
  <2>1. child[c] = "none" /\ connfd # c => holders[c] = {}
    BY DEF ForkInv, NoLeakedSocket
  <2>2. Refused(c) /\ ~ Once => Over(c)
    BY <2>1 DEF Refused, Over, Once, Forking, SessionInv, Programs
  <2>3. ~ Once /\ ~ Refused(c) => owed[c] = inbox[c] + hand[c] + back[c]
    BY <1>2 DEF SessionInv
  <2>4. Once => inbox[c] <= owed[c]
    BY <1>2 DEF SessionInv
  <2> QED BY <2>2, <2>3, <2>4, PiecesAssumption
<1>4. TypeOK'
  BY <1>1, <1>2, <1>3, PiecesAssumption DEF fork_vars
<1>5. SessionInv(c)'
  BY <1>1, <1>2, NotOver, PiecesAssumption DEF SessionInv, Serving, Once, Refused, Forking, fork_vars
<1>6. ASSUME NEW d \in Clients, d # c PROVE SessionInv(d)'
  BY <1>1, <1>2, <1>6, Others DEF fork_vars
<1> QED BY <1>4, <1>5, <1>6

LEMMA ReadEchoKeeps == ASSUME EchoInv, NEW c \in Clients, ReadEcho(c), ForkInv' PROVE EchoInv'
<1> USE DEF EchoInv, TypeOK, ForkTypeOK
<1>1. PICK n \in 1 .. back[c] :
        /\ back' = [back EXCEPT ![c] = @ - n]
        /\ owed' = [owed EXCEPT ![c] = IF Once THEN inbox[c] ELSE @ - n]
  BY DEF ReadEcho
<1>2. /\ user[c] = "waiting" /\ user' = [user EXCEPT ![c] = "typing"]
      /\ back[c] > 0
      /\ UNCHANGED <<program, down, fork_vars, stage, hand, inbox, lost, ended>>
  BY DEF ReadEcho
<1>3. ~ Once => back[c] <= owed[c]
  BY <1>2 DEF SessionInv
<1>4. TypeOK'
  BY <1>1, <1>2, <1>3, PiecesAssumption DEF fork_vars
<1>5. SessionInv(c)'
  BY <1>1, <1>2, <1>3, PiecesAssumption DEF SessionInv, Serving, Once, Refused, Forking, fork_vars
<1>6. ASSUME NEW d \in Clients, d # c PROVE SessionInv(d)'
  BY <1>1, <1>2, <1>6, Others DEF fork_vars
<1> QED BY <1>4, <1>5, <1>6

LEMMA GoKeeps ==
  ASSUME EchoInv, NEW c \in Clients, ReadEnd(c) \/ Leave(c), ForkInv'
  PROVE  EchoInv'
<1> USE DEF EchoInv, TypeOK, ForkTypeOK, fork_vars
<1>1. Go(c) /\ user[c] \in {"typing", "waiting"}
  BY DEF ReadEnd, Leave
<1>2. TypeOK'
  BY <1>1, PiecesAssumption DEF Go
<1>3. SessionInv(c)'
  BY <1>1 DEF Go, SessionInv, Serving, Once, Refused, Forking
<1>4. ASSUME NEW d \in Clients, d # c PROVE SessionInv(d)'
  BY <1>1, <1>4, Others DEF Go
<1> QED BY <1>2, <1>3, <1>4

LEMMA EchoInvStep == EchoInv /\ [Next]_vars => EchoInv'
<1> SUFFICES ASSUME EchoInv, [Next]_vars PROVE EchoInv'
  OBVIOUS
<1>1. ForkInv'
  BY EchoStepIsForkStep, ForkInvStep DEF EchoInv
<1>2. CASE WithHandler \/ Sleeping \/ AfterAccept
  <2>1. Parent /\ Forking /\ UNCHANGED <<program, echo_vars>>
    BY <1>2 DEF WithHandler, Sleeping, AfterAccept, Parent, Forking
  <2>2. TypeOK'
    BY <1>1, <2>1 DEF EchoInv, TypeOK, ForkInv, echo_vars
  <2> QED BY <1>1, <2>1, <2>2, LoopKeeps DEF EchoInv
<1>3. ASSUME NEW c \in Clients, Take(c) \/ Session(c) PROVE EchoInv'
  BY <1>1, <1>3, TakeKeeps, StartKeeps, ReceiveKeeps, SendBackKeeps, FinishKeeps DEF Session
<1>4. ASSUME NEW c \in Clients, EndOfInput(c) PROVE EchoInv'
  <2>1. TypeOK'
    BY <1>4 DEF EchoInv, TypeOK, ForkTypeOK, EndOfInput, fork_vars
  <2>2. ASSUME NEW d \in Clients PROVE SessionInv(d)'
    BY <1>4 DEF EchoInv, EndOfInput, fork_vars, SessionInv, Serving, Once, Refused, Forking
  <2> QED BY <1>1, <2>1, <2>2 DEF EchoInv
<1>5. ASSUME NEW c \in Clients, Client(c) PROVE EchoInv'
  BY <1>1, <1>4, <1>5, OpenKeeps, EnterKeeps, ReadEchoKeeps, GoKeeps DEF Client
<1>6. ASSUME NEW c \in Clients, SigpipeAll(c) \/ NoThread(c) \/ DetachStale(c)
      PROVE  EchoInv'
  BY <1>1, <1>6, NoThreadKeeps, CrashKeeps DEF SigpipeAll, DetachStale
<1>7. CASE UNCHANGED vars
  <2>1. TypeOK'
    BY <1>7 DEF EchoInv, TypeOK, ForkTypeOK, vars, echo_vars, fork_vars
  <2>2. ASSUME NEW d \in Clients PROVE SessionInv(d)'
    BY <1>7 DEF EchoInv, vars, echo_vars, fork_vars, SessionInv, Serving, Once, Refused, Forking
  <2> QED BY <1>1, <2>1, <2>2 DEF EchoInv
<1> QED BY <1>2, <1>3, <1>5, <1>6, <1>7 DEF Next

\* However the pieces of the lines are cut and whoever else connects, ends or
\* is killed, an echo child loses nothing of what its client sends, adds nothing
\* to it, and lives as long as its client is there; a thread does while its
\* process lives.
THEOREM ConservedCorrect == Spec => []Conserved
<1>1. EchoInv => Conserved
  BY DEF EchoInv, Conserved, SessionInv, Serving, Refused, Forking, TypeOK, ForkTypeOK, Once, Programs
<1> QED BY <1>1, EchoInit, EchoInvStep, PTL DEF Spec

\* The bounds on what is under way are kept.
THEOREM EchoTypeCorrect == Spec => []TypeOK
<1>1. EchoInv => TypeOK
  BY DEF EchoInv
<1> QED BY <1>1, EchoInit, EchoInvStep, PTL DEF Spec
=============================================================================
