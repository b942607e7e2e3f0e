------------------------------ MODULE ForkEcho ------------------------------
(***************************************************************************)
(* The echo servers of Source_codes_Ch4 without signals or lines, and      *)
(* their client:                                                           *)
(*   "handler"  ccr_server.c (bai6server.c and bai7server.c are copies):   *)
(*              ForkServer with its SIGCHLD handler; the child echoes      *)
(*   "sleeping" bai1labwork.c: no handler; the parent sleeps after each    *)
(*              fork(), which only delays its next accept()                *)
(*   "once"     bai9_sau_accept.c: no handler; the child answers once      *)
(*   "prefork"  bai9_trc_accept.c: NPROCESS workers forked beforehand      *)
(*              accept for themselves and answer once                      *)
(*   "threads"  threads/bai7.c: a thread for each connection echoes        *)
(* A behaviour runs one of them.  The client is ccr_client.c (bai6client.c *)
(* and bai7client.c are copies), whose port all of them listen on.         *)
(*                                                                         *)
(* A line arrives in one or more pieces; recv() returns at least one of    *)
(* those that have come, at both ends.  Only their numbers are kept: TCP   *)
(* keeps them in order.                                                    *)
(***************************************************************************)
EXTENDS ForkServer, FiniteSets

CONSTANTS
  NProcess,  \* NPROCESS: the workers fork() succeeded for
  Callers,   \* bound: the clients that connect to a server that forks for each
  Ending,    \* bound: the clients whose stdin may end
  Pieces,    \* bound: pieces of one line (one to those who answer once)
  MaxOwed    \* bound: pieces of one client sent and not answered

ASSUME NProcessAssumption == NProcess \in Nat \ {0}
ASSUME CallersAssumption  == Callers \subseteq Clients /\ Ending \subseteq Clients
ASSUME PiecesAssumption   == Pieces \in Nat \ {0} /\ MaxOwed \in Nat \ {0}

VARIABLES
  program,
  down,    \* the server of "threads" is dead
  stage,   \* of a session, in a child, worker or thread: none, recv, send,
           \* close, over; refused: no thread could be created
  hand,    \* pieces in its buffer, to be sent
  inbox,   \* kernel: pieces it has not received
  back,    \* kernel: pieces the client has not received
  lost,    \* kernel: it has sent to a client that is gone; the next send kills
  user,    \* the client: away, typing (in fgets), waiting (in recv), gone
  ended,   \* the client's stdin has ended
  owed     \* history: pieces sent and not echoed to the screen (Once: not received)

echo_vars == <<down, stage, hand, inbox, back, lost, user, ended, owed>>
vars == <<program, fork_vars, echo_vars>>

Programs == {"handler", "sleeping", "once", "prefork", "threads"}
Forking  == program \in {"handler", "sleeping", "once"}
Once     == program \in {"once", "prefork"}

TypeOK ==
  /\ ForkTypeOK
  /\ program \in Programs
  /\ down \in BOOLEAN
  /\ stage \in [Clients -> {"none", "recv", "send", "close", "over", "refused"}]
  /\ hand \in [Clients -> 0 .. MaxOwed]
  /\ inbox \in [Clients -> 0 .. MaxOwed]
  /\ back \in [Clients -> 0 .. MaxOwed]
  /\ lost \in [Clients -> BOOLEAN]
  /\ user \in [Clients -> {"away", "typing", "waiting", "gone"}]
  /\ ended \in [Clients -> BOOLEAN]
  /\ owed \in [Clients -> 0 .. MaxOwed]

Init ==
  /\ ForkInit
  /\ program \in Programs
  /\ down = FALSE
  /\ stage = [c \in Clients |-> "none"]
  /\ hand = [c \in Clients |-> 0]
  /\ inbox = [c \in Clients |-> 0]
  /\ back = [c \in Clients |-> 0]
  /\ lost = [c \in Clients |-> FALSE]
  /\ user = [c \in Clients |-> "away"]
  /\ ended = [c \in Clients |-> FALSE]
  /\ owed = [c \in Clients |-> 0]

Serving(c) == stage[c] \in {"recv", "send", "close"}

\* Every process has closed the connection: the client reads the end.
Over(c) ==
  IF Forking THEN conn[c] = "accepted" /\ holders[c] = {}
  ELSE stage[c] \in {"over", "refused"} \/ down

-----------------------------------------------------------------------------
(* The parents *)

WithHandler == program = "handler" /\ Parent /\ UNCHANGED <<program, echo_vars>>
Sleeping    == program = "sleeping" /\ Loop /\ UNCHANGED <<program, echo_vars>>
AfterAccept == program = "once" /\ Loop /\ UNCHANGED <<program, echo_vars>>

-----------------------------------------------------------------------------
(* A session: in a child, or in a worker between accept() and close() *)

Start(c) ==
  /\ Forking
  /\ ChildStart(c)
  /\ stage' = [stage EXCEPT ![c] = "recv"]
  /\ UNCHANGED <<program, down, hand, inbox, back, lost, user, ended, owed>>

\* Mutant: exit(0) stands inside the loop.
TakeOnce(c) ==
  /\ program = "prefork"
  /\ conn[c] = "backlog" /\ stage[c] = "none"
  /\ Cardinality({d \in Clients : stage[d] # "none"}) < NProcess
  /\ stage' = [stage EXCEPT ![c] = "recv"]
  /\ UNCHANGED <<program, down, fork_vars, hand, inbox, back, lost, user, ended, owed>>

\* accept() in a worker that serves nobody, or accept() and pthread_create().
Take(c) ==
  /\ \/ program = "prefork" /\ Cardinality({d \in Clients : Serving(d)}) < NProcess
     \/ program = "threads" /\ ~ down
  /\ conn[c] = "backlog" /\ stage[c] = "none"
  /\ stage' = [stage EXCEPT ![c] = "recv"]
  /\ UNCHANGED <<program, down, fork_vars, hand, inbox, back, lost, user, ended, owed>>

\* The text to be sent is what was received, or (Once) the one greeting.
Receive(c) ==
  /\ stage[c] = "recv" /\ inbox[c] > 0
  /\ \E n \in 1 .. inbox[c] :
       /\ inbox' = [inbox EXCEPT ![c] = @ - n]
       /\ hand' = [hand EXCEPT ![c] = IF Once THEN 1 ELSE n]
  /\ stage' = [stage EXCEPT ![c] = "send"]
  /\ UNCHANGED <<program, down, fork_vars, back, lost, user, ended, owed>>

\* recv() returns 0 or -1: who answers once does not look at its result.
ReceiveEnd(c) ==
  /\ Once
  /\ stage[c] = "recv" /\ inbox[c] = 0 /\ user[c] = "gone"
  /\ hand' = [hand EXCEPT ![c] = 1]
  /\ stage' = [stage EXCEPT ![c] = "send"]
  /\ UNCHANGED <<program, down, fork_vars, inbox, back, lost, user, ended, owed>>

\* Mutant: a short send() is not noticed.
SendPart(c) ==
  /\ stage[c] = "send" /\ ~ lost[c]
  /\ back' = [back EXCEPT ![c] = IF user[c] = "gone" THEN @ ELSE @ + 1]
  /\ lost' = [lost EXCEPT ![c] = user[c] = "gone"]
  /\ hand' = [hand EXCEPT ![c] = 0]
  /\ stage' = [stage EXCEPT ![c] = IF Once THEN "close" ELSE "recv"]
  /\ UNCHANGED <<program, down, fork_vars, inbox, user, ended, owed>>

SendBack(c) ==
  /\ stage[c] = "send" /\ ~ lost[c]
  /\ back' = [back EXCEPT ![c] = IF user[c] = "gone" THEN @ ELSE @ + hand[c]]
  /\ lost' = [lost EXCEPT ![c] = user[c] = "gone"]
  /\ hand' = [hand EXCEPT ![c] = 0]
  /\ stage' = [stage EXCEPT ![c] = IF Once THEN "close" ELSE "recv"]
  /\ UNCHANGED <<program, down, fork_vars, inbox, user, ended, owed>>

\* close(), and in a child or thread its end: what was not received is dropped.
Finish(c) ==
  /\ stage' = [stage EXCEPT ![c] = "over"]
  /\ hand' = [hand EXCEPT ![c] = 0]
  /\ inbox' = [inbox EXCEPT ![c] = 0]
  /\ lost' = [lost EXCEPT ![c] = FALSE]
  /\ IF Forking THEN ChildExit(c) ELSE UNCHANGED fork_vars
  /\ UNCHANGED <<program, down, back, user, ended, owed>>

Close(c) == stage[c] = "close" /\ Finish(c)

\* The loop of handle_client() ends at recv() = 0 or -1.
EchoEnd(c) ==
  /\ ~ Once
  /\ stage[c] = "recv" /\ inbox[c] = 0 /\ user[c] = "gone"
  /\ Finish(c)

\* A child dies alone.
Sigpipe(c) == Forking /\ stage[c] = "send" /\ lost[c] /\ Finish(c)

Session(c) ==
  \/ Start(c) \/ Receive(c) \/ ReceiveEnd(c) \/ SendBack(c)
  \/ Close(c) \/ EchoEnd(c) \/ Sigpipe(c)

\* The process dies, with all its threads.
Crash ==
  /\ down' = TRUE
  /\ stage' = [c \in Clients |-> IF stage[c] = "none" THEN "none" ELSE "over"]
  /\ hand' = [c \in Clients |-> 0]
  /\ inbox' = [c \in Clients |-> 0]
  /\ lost' = [c \in Clients |-> FALSE]
  /\ UNCHANGED <<program, fork_vars, back, user, ended, owed>>

SigpipeAll(c) == program = "threads" /\ stage[c] = "send" /\ lost[c] /\ Crash

\* pthread_create() fails, and thread_id, which is passed to pthread_detach()
\* all the same, is not set or names an older thread: the process goes on ...
NoThread(c) ==
  /\ program = "threads" /\ ~ down
  /\ conn[c] = "backlog" /\ stage[c] = "none"
  /\ stage' = [stage EXCEPT ![c] = "refused"]
  /\ inbox' = [inbox EXCEPT ![c] = 0]
  /\ UNCHANGED <<program, down, fork_vars, hand, back, lost, user, ended, owed>>

\* ... or not.
DetachStale(c) ==
  /\ program = "threads" /\ ~ down
  /\ conn[c] = "backlog" /\ stage[c] = "none"
  /\ Crash

-----------------------------------------------------------------------------
(* The client *)

Open(c) ==
  /\ program = "prefork" \/ c \in Callers
  /\ ~ down
  /\ Connect(c)
  /\ user' = [user EXCEPT ![c] = "typing"]
  /\ UNCHANGED <<program, down, stage, hand, inbox, back, lost, ended, owed>>

\* A line; or, once stdin has ended, what the buffer holds: the last answer, or
\* at first what happens to be there (nothing: the client leaves).
Enter(c) ==
  /\ user[c] = "typing"
  /\ \E n \in IF Once THEN {1} ELSE 1 .. Pieces :
       /\ owed[c] + n <= MaxOwed
       /\ owed' = [owed EXCEPT ![c] = @ + n]
       /\ inbox' = [inbox EXCEPT ![c] = IF Over(c) THEN @ ELSE @ + n]
  /\ user' = [user EXCEPT ![c] = "waiting"]
  /\ UNCHANGED <<program, down, fork_vars, stage, hand, back, lost, ended>>

EndOfInput(c) ==
  /\ c \in Ending
  /\ user[c] = "typing" /\ ~ ended[c]
  /\ ended' = [ended EXCEPT ![c] = TRUE]
  /\ UNCHANGED <<program, down, fork_vars, stage, hand, inbox, back, lost, user, owed>>

\* Whatever one recv() returns is taken for the echo of the line.
ReadEcho(c) ==
  /\ user[c] = "waiting" /\ back[c] > 0
  /\ \E n \in 1 .. back[c] :
       /\ back' = [back EXCEPT ![c] = @ - n]
       /\ owed' = [owed EXCEPT ![c] = IF Once THEN inbox[c] ELSE @ - n]
  /\ user' = [user EXCEPT ![c] = "typing"]
  /\ UNCHANGED <<program, down, fork_vars, stage, hand, inbox, lost, ended>>

\* close() and the end of the process.
Go(c) ==
  /\ user' = [user EXCEPT ![c] = "gone"]
  /\ back' = [back EXCEPT ![c] = 0]
  /\ owed' = [owed EXCEPT ![c] = 0]
  /\ ended' = [ended EXCEPT ![c] = FALSE]
  /\ UNCHANGED <<program, down, fork_vars, stage, hand, inbox, lost>>

\* recv() returns 0 or -1.
ReadEnd(c) == user[c] = "waiting" /\ back[c] = 0 /\ Over(c) /\ Go(c)

\* An empty line, or the user kills the client.
Leave(c) == user[c] \in {"typing", "waiting"} /\ Go(c)

Client(c) == Open(c) \/ Enter(c) \/ EndOfInput(c) \/ ReadEcho(c) \/ ReadEnd(c) \/ Leave(c)

Next ==
  \/ WithHandler \/ Sleeping \/ AfterAccept
  \/ \E c \in Clients :
       \/ Take(c) \/ Session(c) \/ Client(c)
       \/ SigpipeAll(c) \/ NoThread(c) \/ DetachStale(c)

Spec == Init /\ [][Next]_vars

\* All processes are scheduled; users promise nothing, but fgets() returns at
\* once when stdin has ended.
FairSpec ==
  /\ Spec
  /\ WF_vars(WithHandler \/ Sleeping \/ AfterAccept)
  /\ WF_vars(\E c \in Clients : Take(c))
  /\ \A c \in Clients : /\ WF_vars(Session(c) \/ SigpipeAll(c))
                        /\ WF_vars(ReadEcho(c) \/ ReadEnd(c))
                        /\ WF_vars(ended[c] /\ Enter(c))

-----------------------------------------------------------------------------
(* Properties *)

\* handle_client() echoes just what it received: as long as the client is
\* there its child or thread lives, and what the client has sent and not seen
\* again is on its way, however recv() cuts the lines at either end.  Only where
\* threads share a process can another client's end it ("threads" has died).
Conserved ==
  \A c \in Clients :
    /\ ~ Once /\ ~ down /\ user[c] # "gone"
    /\ child[c] # "none" \/ stage[c] \notin {"none", "refused"}
    => /\ child[c] = "forked" \/ Serving(c)
       /\ owed[c] = inbox[c] + hand[c] + back[c]

\* The SIGCHLD handler of ccr_server.c reaps every child; the other programs
\* have none, and their children stay zombies.
HandlerReaps == program = "handler" => Reaped

\* Every worker is in recv() for a client that says nothing.
Exhausted ==
  /\ program = "prefork"
  /\ Cardinality({c \in Clients : stage[c] = "recv" /\ inbox[c] = 0 /\ user[c] = "typing"})
       = NProcess

\* A client that has sent a line gets an answer or the end of the connection.
\* At the end of its input it sends its last answer again (ccr_client.c:46), for
\* ever against the echo servers; the servers that answer once end it, because
\* the connection ends.  In bai9_trc_accept.c only NPROCESS clients that connect
\* and say nothing prevent it; killed clients and empty lines use up no worker.
Answered ==
  \A c \in Clients :
    /\ user[c] = "waiting" ~> user[c] # "waiting" \/ []Exhausted
    /\ ended[c] /\ Once ~> user[c] = "gone" \/ []Exhausted
=============================================================================
