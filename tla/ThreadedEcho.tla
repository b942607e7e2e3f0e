---------------------------- MODULE ThreadedEcho ----------------------------
(***************************************************************************)
(* Source_codes_Ch4/multithreaded-server.c, an echo server with a thread   *)
(* for each connection that SIGINT stops, and multithreaded-client.c,      *)
(* which sends a piece of input and reads back one line of echo.           *)
(*                                                                         *)
(* A byte is the number of the piece it belongs to, or Newline.  recv()    *)
(* may return, and send() may take, any part of what there is.             *)
(***************************************************************************)
EXTENDS Integers, FiniteSets, SequencesExt

CONSTANTS
  Clients,
  Cap,        \* BUF_SIZE
  MaxOpen,    \* how many connections the process has descriptors for
  MaxPieces,  \* bound: the pieces of input a client sends
  MayAbort    \* bound: the clients that may be killed

ASSUME CapAssumption      == Cap \in Nat /\ Cap > 1
ASSUME OpenAssumption     == MaxOpen \in Nat \ {0}
ASSUME PiecesAssumption   == MaxPieces \in Nat
ASSUME MayAbortAssumption == MayAbort \subseteq Clients

VARIABLES
  main,      \* loop, call, accept, create, close, exited, killed
  new,       \* the connection that accept() returned
  g_stop,
  listening, \* listen_fd is open
  thread,    \* a connection's thread: none, recv, send, ended
  buf,       \* what a thread has still to send
  toServer, toClient, \* bytes on their way
  conn,      \* idle, backlog, open, fin, rst: the server's side as clients see it
  gone,      \* the client's side: up, down, broken (the next send() kills)
  client,    \* start, prompt, recv, done, aborted
  pieces,    \* how many pieces a client has sent
  line,      \* the piece it sent last
  recvbuf,   \* what recv_line() has read of the echo
  signalled  \* history: a SIGINT was delivered

server_vars == <<main, new, g_stop, listening>>
thread_vars == <<thread, buf>>
client_vars == <<client, pieces, line, recvbuf>>
vars == <<server_vars, thread_vars, client_vars, toServer, toClient, conn, gone, signalled>>

Newline == 0

\* What main() sends for a call of fgets(): at most Cap - 1 bytes, of which the
\* last is a newline unless there is no room for it.
Pieces(k) ==
  {[j \in 1 .. n |-> IF j = n THEN Newline ELSE k] : n \in 1 .. Cap - 1}
    \cup {[j \in 1 .. Cap - 1 |-> k]}

Alive == main \notin {"exited", "killed"}
Open  == {c \in Clients : conn[c] = "open"}

TypeOK ==
  /\ main \in {"loop", "call", "accept", "create", "close", "exited", "killed"}
  /\ main = "create" => new \in Open
  /\ g_stop \in BOOLEAN /\ listening \in BOOLEAN /\ signalled \in BOOLEAN
  /\ thread \in [Clients -> {"none", "recv", "send", "ended"}]
  /\ \A c \in Clients : buf[c] # <<>> <=> thread[c] = "send"
  /\ conn \in [Clients -> {"idle", "backlog", "open", "fin", "rst"}]
  /\ Cardinality(Open) <= MaxOpen
  /\ gone \in [Clients -> {"up", "down", "broken"}]
  /\ client \in [Clients -> {"start", "prompt", "recv", "done", "aborted"}]
  /\ \A c \in Clients : Len(line[c]) < Cap /\ Len(recvbuf[c]) < Cap

Init ==
  /\ main = "loop" /\ new \in Clients
  /\ g_stop = FALSE /\ listening = TRUE /\ signalled = FALSE
  /\ thread = [c \in Clients |-> "none"]
  /\ buf = [c \in Clients |-> <<>>]
  /\ toServer = [c \in Clients |-> <<>>]
  /\ toClient = [c \in Clients |-> <<>>]
  /\ conn = [c \in Clients |-> "idle"]
  /\ gone = [c \in Clients |-> "up"]
  /\ client = [c \in Clients |-> "start"]
  /\ pieces = [c \in Clients |-> 0]
  /\ line = [c \in Clients |-> <<>>]
  /\ recvbuf = [c \in Clients |-> <<>>]

-----------------------------------------------------------------------------
(* The main thread *)

\* How the kernel closes connections: a client sees the end of file, or a reset
\* if the server had not read all that was sent to it.
Closed(S) == [c \in Clients |->
  IF c \in S THEN IF toServer[c] = <<>> THEN "fin" ELSE "rst" ELSE conn[c]]

\* A reset also discards what the client has not read.
Kept(S) == [c \in Clients |->
  IF c \in S /\ toServer[c] # <<>> THEN <<>> ELSE toClient[c]]

CheckStop ==
  /\ main = "loop"
  /\ main' = IF g_stop THEN "close" ELSE "call"
  /\ UNCHANGED <<new, g_stop, listening, thread_vars, client_vars, toServer,
                 toClient, conn, gone, signalled>>

\* accept() is called: it blocks, or fails with EBADF once the handler has
\* closed the listening socket, and the loop goes on.
CallAccept ==
  /\ main = "call"
  /\ main' = IF listening THEN "accept" ELSE "loop"
  /\ UNCHANGED <<new, g_stop, listening, thread_vars, client_vars, toServer,
                 toClient, conn, gone, signalled>>

Accept(c) ==
  /\ main = "accept"
  /\ conn[c] = "backlog" /\ Cardinality(Open) < MaxOpen
  /\ conn' = [conn EXCEPT ![c] = "open"]
  /\ new' = c
  /\ main' = "create"
  /\ UNCHANGED <<g_stop, listening, thread_vars, client_vars, toServer, toClient,
                 gone, signalled>>

\* EMFILE
AcceptError ==
  /\ main = "accept"
  /\ Cardinality(Open) = MaxOpen
  /\ main' = "loop"
  /\ UNCHANGED <<new, g_stop, listening, thread_vars, client_vars, toServer,
                 toClient, conn, gone, signalled>>

CreateThread ==
  /\ main = "create"
  /\ thread' = [thread EXCEPT ![new] = "recv"]
  /\ main' = "loop"
  /\ UNCHANGED <<new, g_stop, listening, buf, client_vars, toServer, toClient,
                 conn, gone, signalled>>

\* malloc() or pthread_create() fails: the connection is closed.
CreateFails ==
  /\ main = "create"
  /\ conn' = Closed({new})
  /\ toClient' = Kept({new})
  /\ main' = "loop"
  /\ UNCHANGED <<new, g_stop, listening, thread_vars, client_vars, toServer, gone,
                 signalled>>

\* The process ends: every thread with it, and every socket is closed, those
\* in the listen queue with a reset.
ProcessEnds ==
  /\ thread' = [c \in Clients |-> IF thread[c] = "none" THEN "none" ELSE "ended"]
  /\ buf' = [c \in Clients |-> <<>>]
  /\ conn' = [c \in Clients |->
                IF conn[c] = "backlog" THEN "rst" ELSE Closed(Open)[c]]
  /\ toClient' = Kept(Open)
  /\ listening' = FALSE

Return ==
  /\ main = "close"
  /\ ProcessEnds
  /\ main' = "exited"
  /\ UNCHANGED <<new, g_stop, client_vars, toServer, gone, signalled>>

\* Mutant: the handler leaves the listening socket open.
HandleSigintOnlyFlag ==
  /\ Alive
  /\ g_stop' = TRUE
  /\ signalled' = TRUE
  /\ main' = IF main = "accept" THEN "close" ELSE main
  /\ UNCHANGED <<new, listening, thread_vars, client_vars, toServer, toClient, conn,
                 gone>>

\* SIGINT or SIGTERM, which Linux hands to the main thread: an accept() that
\* blocks returns EINTR, and the loop is left.  With the listening socket the
\* connections in its queue are closed.
HandleSigint ==
  /\ Alive
  /\ g_stop' = TRUE
  /\ signalled' = TRUE
  /\ listening' = FALSE
  /\ conn' = [c \in Clients |-> IF conn[c] = "backlog" THEN "rst" ELSE conn[c]]
  /\ main' = IF main = "accept" THEN "close" ELSE main
  /\ UNCHANGED <<new, thread_vars, client_vars, toServer, toClient, gone>>

Main ==
  \/ CheckStop \/ CallAccept \/ AcceptError \/ CreateThread \/ CreateFails \/ Return
  \/ \E c \in Clients : Accept(c)

-----------------------------------------------------------------------------
(* A connection's thread *)

Recv(c) ==
  /\ thread[c] = "recv" /\ toServer[c] # <<>>
  /\ \E n \in 1 .. Len(toServer[c]) :
       /\ buf' = [buf EXCEPT ![c] = SubSeq(toServer[c], 1, n)]
       /\ toServer' = [toServer EXCEPT ![c] = SubSeq(@, n + 1, Len(@))]
  /\ thread' = [thread EXCEPT ![c] = "send"]
  /\ UNCHANGED <<server_vars, client_vars, toClient, conn, gone, signalled>>

\* Mutant: what one send() does not take is forgotten.
SendOnce(c) ==
  /\ thread[c] = "send" /\ gone[c] = "up"
  /\ \E n \in 1 .. Len(buf[c]) :
       toClient' = [toClient EXCEPT ![c] = @ \o SubSeq(buf[c], 1, n)]
  /\ buf' = [buf EXCEPT ![c] = <<>>]
  /\ thread' = [thread EXCEPT ![c] = "recv"]
  /\ UNCHANGED <<server_vars, client_vars, toServer, conn, gone, signalled>>

\* One send() of send_all().
Send(c) ==
  /\ thread[c] = "send" /\ gone[c] = "up"
  /\ \E n \in 1 .. Len(buf[c]) :
       /\ toClient' = [toClient EXCEPT ![c] = @ \o SubSeq(buf[c], 1, n)]
       /\ buf' = [buf EXCEPT ![c] = SubSeq(@, n + 1, Len(@))]
       /\ thread' = [thread EXCEPT ![c] = IF n = Len(buf[c]) THEN "recv" ELSE "send"]
  /\ UNCHANGED <<server_vars, client_vars, toServer, conn, gone, signalled>>

EndThread(c) ==
  /\ thread' = [thread EXCEPT ![c] = "ended"]
  /\ buf' = [buf EXCEPT ![c] = <<>>]
  /\ conn' = Closed({c})

\* Sending to a client that has gone: the bytes are lost and a reset comes
\* back, or send() already fails.
SendLost(c) ==
  /\ thread[c] = "send" /\ gone[c] = "down"
  /\ gone' = [gone EXCEPT ![c] = "broken"]
  /\ \/ EndThread(c)
     \/ \E n \in 1 .. Len(buf[c]) :
          /\ buf' = [buf EXCEPT ![c] = SubSeq(@, n + 1, Len(@))]
          /\ thread' = [thread EXCEPT ![c] = IF n = Len(buf[c]) THEN "recv" ELSE "send"]
          /\ UNCHANGED conn
  /\ UNCHANGED <<server_vars, client_vars, toServer, toClient, signalled>>

\* SIGPIPE ends the process and all its threads.
Sigpipe(c) ==
  /\ thread[c] = "send" /\ gone[c] = "broken"
  /\ ProcessEnds
  /\ main' = "killed"
  /\ UNCHANGED <<new, g_stop, client_vars, toServer, gone, signalled>>

\* Mutant: EINTR ends the loop like any other error.
RecvEndEintr(c) ==
  /\ thread[c] = "recv" /\ toServer[c] = <<>>
  /\ gone[c] # "up" \/ signalled
  /\ EndThread(c)
  /\ UNCHANGED <<server_vars, client_vars, toServer, toClient, gone, signalled>>

\* recv() returns 0, or -1 after a reset, which may overtake what was sent.
RecvEnd(c) ==
  /\ thread[c] = "recv" /\ gone[c] # "up"
  /\ toServer[c] = <<>> \/ client[c] = "aborted"
  /\ EndThread(c)
  /\ UNCHANGED <<server_vars, client_vars, toServer, toClient, gone, signalled>>

Thread(c) == Recv(c) \/ Send(c) \/ SendLost(c) \/ Sigpipe(c) \/ RecvEnd(c)

-----------------------------------------------------------------------------
(* A client *)

Connect(c) ==
  /\ client[c] = "start" /\ listening
  /\ client' = [client EXCEPT ![c] = "prompt"]
  /\ conn' = [conn EXCEPT ![c] = "backlog"]
  /\ UNCHANGED <<server_vars, thread_vars, pieces, line, recvbuf, toServer, toClient,
                 gone, signalled>>

\* fgets() and send_all(): to a closed connection it is lost, or fails.
SendPiece(c) ==
  /\ client[c] = "prompt" /\ pieces[c] < MaxPieces
  /\ \E p \in Pieces(pieces[c] + 1) :
       /\ line' = [line EXCEPT ![c] = p]
       /\ \/ /\ conn[c] \in {"backlog", "open"}
             /\ toServer' = [toServer EXCEPT ![c] = @ \o p]
             /\ client' = [client EXCEPT ![c] = "recv"]
          \/ /\ conn[c] \in {"fin", "rst"}
             /\ UNCHANGED toServer
             /\ client' \in {[client EXCEPT ![c] = s] : s \in {"recv", "done"}}
  /\ pieces' = [pieces EXCEPT ![c] = @ + 1]
  /\ recvbuf' = [recvbuf EXCEPT ![c] = <<>>]
  /\ UNCHANGED <<server_vars, thread_vars, toClient, conn, gone, signalled>>

\* Mutant: the last byte of the buffer, which the terminator needs, is used
\* up one byte earlier.
RecvByteShort(c) ==
  /\ client[c] = "recv" /\ toClient[c] # <<>>
  /\ LET b == Head(toClient[c]) IN
       /\ recvbuf' = [recvbuf EXCEPT ![c] = Append(@, b)]
       /\ client' = [client EXCEPT ![c] =
            IF b = Newline \/ Len(recvbuf[c]) + 3 >= Cap THEN "prompt" ELSE "recv"]
  /\ toClient' = [toClient EXCEPT ![c] = Tail(@)]
  /\ UNCHANGED <<server_vars, thread_vars, pieces, line, toServer, conn, gone, signalled>>

\* A byte of recv_line(), which returns after a newline or a full buffer.
RecvByte(c) ==
  /\ client[c] = "recv" /\ toClient[c] # <<>>
  /\ LET b == Head(toClient[c]) IN
       /\ recvbuf' = [recvbuf EXCEPT ![c] = Append(@, b)]
       /\ client' = [client EXCEPT ![c] =
            IF b = Newline \/ Len(recvbuf[c]) + 2 = Cap THEN "prompt" ELSE "recv"]
  /\ toClient' = [toClient EXCEPT ![c] = Tail(@)]
  /\ UNCHANGED <<server_vars, thread_vars, pieces, line, toServer, conn, gone, signalled>>

\* The end of file ends a line too; without a byte, or after an error, it ends
\* the client.
RecvEof(c) ==
  /\ client[c] = "recv" /\ toClient[c] = <<>>
  /\ conn[c] \in {"fin", "rst"}
  /\ client' = [client EXCEPT ![c] =
       IF conn[c] = "fin" /\ recvbuf[c] # <<>> THEN "prompt" ELSE "done"]
  /\ UNCHANGED <<server_vars, thread_vars, pieces, line, recvbuf, toServer, toClient,
                 conn, gone, signalled>>

\* \quit, or the end of the input: shutdown() and close().
Quit(c) ==
  /\ client[c] = "prompt"
  /\ client' = [client EXCEPT ![c] = "done"]
  /\ gone' = [gone EXCEPT ![c] = "down"]
  /\ UNCHANGED <<server_vars, thread_vars, pieces, line, recvbuf, toServer, toClient,
                 conn, signalled>>

Abort(c) ==
  /\ c \in MayAbort
  /\ client[c] \in {"prompt", "recv"}
  /\ client' = [client EXCEPT ![c] = "aborted"]
  /\ gone' = [gone EXCEPT ![c] = "down"]
  /\ toClient' = [toClient EXCEPT ![c] = <<>>]
  /\ UNCHANGED <<server_vars, thread_vars, pieces, line, recvbuf, toServer, conn,
                 signalled>>

Next ==
  \/ Main \/ HandleSigint
  \/ \E c \in Clients :
       \/ Thread(c)
       \/ Connect(c) \/ SendPiece(c) \/ RecvByte(c) \/ RecvEof(c) \/ Quit(c) \/ Abort(c)

Spec == Init /\ [][Next]_vars

\* The threads and the clients' processes are scheduled; users and signals are
\* free to do nothing.
FairSpec ==
  /\ Spec
  /\ WF_vars(Main)
  /\ \A c \in Clients : WF_vars(Thread(c)) /\ WF_vars(RecvByte(c) \/ RecvEof(c))

-----------------------------------------------------------------------------
(* Properties *)

ServerClosed(c) == conn[c] \in {"fin", "rst"}

\* recv_line() stops just where the echo of the last piece does: what a client
\* prints is what it sent, nothing is left over for the next line, and only the
\* end of the connection cuts a line short.  This rests on the client's two
\* buffers, for fgets() and recv_line(), having one size.
EchoedExactly ==
  /\ TypeOK
  /\ \A c \in Clients :
       /\ client[c] # "aborted" => IsPrefix(recvbuf[c], line[c])
       /\ client[c] = "prompt" /\ ~ ServerClosed(c) =>
            recvbuf[c] = line[c] /\ toServer[c] = <<>> /\ buf[c] = <<>> /\ toClient[c] = <<>>

\* A client's departure harms no other: while the server lives, no thread ends
\* before its own client has left, and the server dies of SIGPIPE only if some
\* client was killed while its echo was under way; \quit never does it.
OthersKept ==
  IF main = "killed"
  THEN \E c \in Clients : client[c] = "aborted" /\ gone[c] = "broken"
  ELSE Alive => \A c \in Clients : thread[c] = "ended" => gone[c] # "up"

\* "Ctrl+C to stop" (multithreaded-server.c:135): the signal stops the server,
\* also if it comes between the test of g_stop and accept(), and whatever the
\* clients do.
SigintStops == signalled ~> ~ Alive

\* A client that waits for its echo gets it, or learns that the server closed
\* the connection, unless the server has no descriptor left for it.
EchoArrives ==
  \A c \in Clients :
    client[c] = "recv" ~>
      client[c] # "recv" \/ (conn[c] = "backlog" /\ Cardinality(Open) = MaxOpen)
=============================================================================
