----------------------------- MODULE ForkServer -----------------------------
(***************************************************************************)
(* A server that forks a process for each connection: the accept loop of   *)
(* Source_codes_Ch4/ccr_server.c, which bai-tap-lab/bai2server.c repeats,  *)
(* with its SIGCHLD handler.  What a child does between its start and its  *)
(* exit is left to ForkEcho and QuizServer, which extend this module.      *)
(*                                                                         *)
(* SIGCHLD is one pending bit, not a queue, and is blocked while its       *)
(* handler runs; signal() restarts an accept() that it interrupted.        *)
(***************************************************************************)
EXTENDS Integers

CONSTANTS
  Clients,   \* the connections of a behaviour, and the children forked for them
  NoClient

ASSUME ClientsAssumption == NoClient \notin Clients

VARIABLES
  parent,    \* accept, fork, close: the next system call of the parent
  connfd,    \* the connection the parent's connfd is open on
  conn,      \* kernel: idle, backlog, accepted
  holders,   \* kernel: the processes that have the connection's socket open
  child,     \* none, forked, running, zombie, reaped
  sigchld,   \* kernel: SIGCHLD is pending for the parent
  handling   \* the parent is in sigchld_handler()

fork_vars == <<parent, connfd, conn, holders, child, sigchld, handling>>

ForkTypeOK ==
  /\ parent \in {"accept", "fork", "close"}
  /\ connfd \in Clients \cup {NoClient}
  /\ conn \in [Clients -> {"idle", "backlog", "accepted"}]
  /\ holders \in [Clients -> SUBSET {"parent", "child"}]
  /\ child \in [Clients -> {"none", "forked", "running", "zombie", "reaped"}]
  /\ sigchld \in BOOLEAN
  /\ handling \in BOOLEAN

ForkInit ==
  /\ parent = "accept"
  /\ connfd = NoClient
  /\ conn = [c \in Clients |-> "idle"]
  /\ holders = [c \in Clients |-> {}]
  /\ child = [c \in Clients |-> "none"]
  /\ sigchld = FALSE
  /\ handling = FALSE

Zombies == {c \in Clients : child[c] = "zombie"}

-----------------------------------------------------------------------------
(* The parent *)

Accept(c) ==
  /\ parent = "accept" /\ ~ handling
  /\ conn[c] = "backlog"
  /\ conn' = [conn EXCEPT ![c] = "accepted"]
  /\ connfd' = c
  /\ holders' = [holders EXCEPT ![c] = {"parent"}]
  /\ parent' = "fork"
  /\ UNCHANGED <<child, sigchld, handling>>

\* The child inherits the connection's socket.
Fork ==
  /\ parent = "fork" /\ ~ handling
  /\ child' = [child EXCEPT ![connfd] = "forked"]
  /\ holders' = [holders EXCEPT ![connfd] = @ \cup {"child"}]
  /\ parent' = "close"
  /\ UNCHANGED <<connfd, conn, sigchld, handling>>

\* Closing the connection, in the parent.
DropConn ==
  /\ holders' = [holders EXCEPT ![connfd] = @ \ {"parent"}]
  /\ parent' = "accept"
  /\ connfd' = NoClient

\* For want of processes or memory.
ForkFails ==
  /\ parent = "fork" /\ ~ handling
  /\ DropConn
  /\ UNCHANGED <<conn, child, sigchld, handling>>

\* Mutant: the parent forgets to close connfd.
CloseConnNot ==
  /\ parent = "close" /\ ~ handling
  /\ parent' = "accept"
  /\ connfd' = NoClient
  /\ UNCHANGED <<holders, conn, child, sigchld, handling>>

CloseConn ==
  /\ parent = "close" /\ ~ handling
  /\ DropConn
  /\ UNCHANGED <<conn, child, sigchld, handling>>

Sigchld ==
  /\ sigchld /\ ~ handling
  /\ sigchld' = FALSE
  /\ handling' = TRUE
  /\ UNCHANGED <<parent, connfd, conn, holders, child>>

\* Mutant: if instead of while.
ReapOne(c) ==
  /\ handling
  /\ child[c] = "zombie"
  /\ child' = [child EXCEPT ![c] = "reaped"]
  /\ handling' = FALSE
  /\ UNCHANGED <<parent, connfd, conn, holders, sigchld>>

\* while (waitpid(-1, NULL, WNOHANG) > 0)
Reap(c) ==
  /\ handling
  /\ child[c] = "zombie"
  /\ child' = [child EXCEPT ![c] = "reaped"]
  /\ UNCHANGED <<parent, connfd, conn, holders, sigchld, handling>>

HandlerReturns ==
  /\ handling
  /\ Zombies = {}
  /\ handling' = FALSE
  /\ UNCHANGED <<parent, connfd, conn, holders, child, sigchld>>

Loop    == Fork \/ ForkFails \/ CloseConn \/ \E c \in Clients : Accept(c)
Handler == Sigchld \/ HandlerReturns \/ \E c \in Clients : Reap(c)
Parent  == Loop \/ Handler

-----------------------------------------------------------------------------
(* The children and the clients *)

\* The child closes its copy of the listening socket.
ChildStart(c) ==
  /\ child[c] = "forked"
  /\ child' = [child EXCEPT ![c] = "running"]
  /\ UNCHANGED <<parent, connfd, conn, holders, sigchld, handling>>

\* exit(), or death by a signal, closes all that is still open.
ChildExit(c) ==
  /\ child[c] = "running"
  /\ child' = [child EXCEPT ![c] = "zombie"]
  /\ holders' = [holders EXCEPT ![c] = @ \ {"child"}]
  /\ sigchld' = TRUE
  /\ UNCHANGED <<parent, connfd, conn, handling>>

Connect(c) ==
  /\ conn[c] = "idle"
  /\ conn' = [conn EXCEPT ![c] = "backlog"]
  /\ UNCHANGED <<parent, connfd, holders, child, sigchld, handling>>

ForkNext ==
  Parent \/ \E c \in Clients : ChildStart(c) \/ ChildExit(c) \/ Connect(c)

ForkSpec == ForkInit /\ [][ForkNext]_fork_vars

-----------------------------------------------------------------------------
(* Properties *)

\* A connection is held open by its own child while that lives, by the parent
\* from accept() to its close(), and by nobody else: no child or client has to
\* wait for an end of file that another process's copy of the socket delays.
NoLeakedSocket ==
  \A c \in Clients :
    /\ "parent" \in holders[c] <=> c = connfd
    /\ "child" \in holders[c] <=> child[c] \in {"forked", "running"}

\* "Signal handler to prevent zombie processes" (ccr_server.c:15): every child
\* that ends is reaped, also when several end before the handler runs once.
Reaped == \A c \in Clients : child[c] = "zombie" ~> child[c] = "reaped"
=============================================================================
