------------------------------ MODULE ReadLine ------------------------------
(***************************************************************************)
(* Source_codes_Ch3/bai3_server.c and bai3_client.c: the server echoes the *)
(* lines it reads with readline(); the client sends one line, prints what  *)
(* its first read() returns, and closes.  read-write-server.c and          *)
(* read-write-client.c are the same programs on another port.              *)
(***************************************************************************)
EXTENDS Integers, SequencesExt

CONSTANT MaxLine   \* MAXLINE

VARIABLES
  server,    \* read, write, ended, killed
  n,         \* readline()'s count, from 1
  buffer,    \* the bytes that readline() has stored
  toServer, toClient,
  client,    \* start, wait, closed, reset
  sendline,  \* what the client sent
  written    \* history: all that the server has written back

vars == <<server, n, buffer, toServer, toClient, client, sendline, written>>

Nul == 0
Char == 1
Newline == 2

\* What fgets() returns: a line, a part of one that fills the buffer, or the
\* last one of an input that does not end in a newline.
Lines ==
  LET chars(len) == [j \in 1 .. len |-> Char] IN
  {Append(chars(len), Newline) : len \in 0 .. MaxLine - 2}
    \cup {chars(len) : len \in 1 .. MaxLine - 1}

Init ==
  /\ server = "read" /\ n = 1 /\ buffer = <<>>
  /\ toServer = <<>> /\ toClient = <<>>
  /\ client = "start" /\ sendline = <<>> /\ written = <<>>

Ended == client \in {"closed", "reset"}

-----------------------------------------------------------------------------

\* One turn of the loop in readline().
ReadByte ==
  /\ server = "read" /\ toServer # <<>>
  /\ buffer' = Append(buffer, Head(toServer))
  /\ toServer' = Tail(toServer)
  /\ IF Head(toServer) = Newline
     THEN n' = n /\ server' = "write"
     ELSE n' = n + 1 /\ server' = IF n + 1 < MaxLine THEN "read" ELSE "write"
  /\ UNCHANGED <<toClient, client, sendline, written>>

\* Nothing was read: the server closes and ends.  Otherwise n, which counts the
\* byte that did not come, is returned.
ReadEof ==
  /\ server = "read" /\ toServer = <<>> /\ client = "closed"
  /\ server' = IF n = 1 THEN "ended" ELSE "write"
  /\ UNCHANGED <<n, buffer, toServer, toClient, client, sendline, written>>

ReadError ==
  /\ server = "read" /\ client = "reset"
  /\ server' = "ended"
  /\ UNCHANGED <<n, buffer, toServer, toClient, client, sendline, written>>

\* The n bytes from the start of the buffer: readline() stored a terminator
\* after the last byte it read.
Echo == IF n > Len(buffer) THEN Append(buffer, Nul) ELSE buffer

Write ==
  /\ server = "write"
  /\ written' = written \o Echo
  /\ toClient' = IF Ended THEN toClient ELSE toClient \o Echo
  /\ \/ server' = "read"
     \/ Ended /\ server' = "ended"     \* EPIPE, ECONNRESET
     \/ Ended /\ server' = "killed"    \* SIGPIPE
  /\ n' = 1 /\ buffer' = <<>>
  /\ UNCHANGED <<toServer, client, sendline>>

-----------------------------------------------------------------------------

Enter ==
  /\ client = "start"
  /\ client' = "wait"
  /\ \E l \in Lines : sendline' = l /\ toServer' = l
  /\ UNCHANGED <<server, n, buffer, toClient, written>>

\* The first read(), of any part of what has come; what is left resets the
\* connection when it is closed.
FirstRead ==
  /\ client = "wait"
  /\ \E k \in DOMAIN toClient :
       client' = IF k = Len(toClient) THEN "closed" ELSE "reset"
  /\ toClient' = <<>>
  /\ UNCHANGED <<server, n, buffer, toServer, sendline, written>>

Next == ReadByte \/ ReadEof \/ ReadError \/ Write \/ Enter \/ FirstRead

Spec == Init /\ [][Next]_vars

-----------------------------------------------------------------------------

\* "Send the received message back to the client" (bai3_server.c:101): what
\* the server has written is what the client sent, as far as it has got.
EchoIsMessage == IsPrefix(written, sendline)
=============================================================================
