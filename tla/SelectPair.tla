----------------------------- MODULE SelectPair -----------------------------
(***************************************************************************)
(* select-server.c and select-client.c of Source_codes_Ch5.  The server    *)
(* accepts one client and waits, with select(), for its operator's stdin   *)
(* and for the client; what the operator types is sent to the client, what *)
(* the client sends is printed.  One buffer serves both.  The client sends *)
(* what its user types and never reads.                                    *)
(*                                                                         *)
(* select() sees the stdin of the process, not what fgets() has read       *)
(* ahead.  A socket holds Room texts: the next send() blocks.              *)
(***************************************************************************)
EXTENDS Integers

CONSTANTS
  Room,      \* texts that fit into a socket's buffers
  MaxTyped   \* bound: lines the operator types, and the user

ASSUME RoomAssumption == Room \in Nat \ {0} /\ MaxTyped \in Nat

VARIABLES
  host,     \* the server: accept, select, scan, send, recv, exited, killed
  netReady, \* what select() left in the set for the client
  buf,      \* whose text is in the server's buffer: nobody, operator, client
  piped,    \* lines in its stdin that nobody has read
  ahead,    \* lines that fgets() has read ahead
  typed,    \* history: lines the operator has typed
  opEnd,    \* its stdin has ended
  outq,     \* texts in the client's socket: it never reads them
  inq,      \* texts in the server's socket
  guest,    \* the client: away, typing, sending, fin, rst; lost: a text was sent
            \* to it after it had gone; killed by SIGPIPE
  entered,  \* lines its user has typed
  userEnd,  \* its stdin has ended
  loose     \* its server has gone and it has sent a text

pair_vars == <<host, netReady, buf, piped, ahead, typed, opEnd, outq, inq,
               guest, entered, userEnd, loose>>

PairTypeOK ==
  /\ host \in {"accept", "select", "scan", "send", "recv", "exited", "killed"}
  /\ netReady \in BOOLEAN
  /\ buf \in {"nobody", "operator", "client"}
  /\ piped \in 0 .. MaxTyped /\ ahead \in 0 .. MaxTyped /\ typed \in 0 .. MaxTyped
  /\ opEnd \in BOOLEAN
  /\ outq \in 0 .. Room /\ inq \in 0 .. Room
  /\ guest \in {"away", "typing", "sending", "fin", "rst", "lost", "killed"}
  /\ entered \in 0 .. MaxTyped
  /\ userEnd \in BOOLEAN
  /\ loose \in BOOLEAN

PairInit ==
  /\ host = "accept" /\ netReady = FALSE /\ buf = "nobody"
  /\ piped = 0 /\ ahead = 0 /\ typed = 0 /\ opEnd = FALSE
  /\ outq = 0 /\ inq = 0
  /\ guest = "away" /\ entered = 0 /\ userEnd = FALSE /\ loose = FALSE

HostOver  == host \in {"exited", "killed"}
GuestGone == guest \in {"fin", "rst", "lost", "killed"}

-----------------------------------------------------------------------------
(* The server *)

AcceptGuest ==
  /\ host = "accept" /\ guest # "away"
  /\ host' = "select"
  /\ UNCHANGED <<netReady, buf, piped, ahead, typed, opEnd, outq, inq,
                 guest, entered, userEnd, loose>>

StdinReady == piped > 0 \/ opEnd
NetReady   == inq > 0 \/ GuestGone

\* select() without its timeout, which only prints.
SelectBoth ==
  /\ host = "select"
  /\ StdinReady \/ NetReady
  /\ netReady' = NetReady
  /\ host' = IF StdinReady THEN "scan" ELSE "recv"
  /\ UNCHANGED <<buf, piped, ahead, typed, opEnd, outq, inq, guest, entered, userEnd, loose>>

\* fgets(): a line, of those read ahead or else all that is there; at the end
\* of the input the buffer is left as it is.
Fgets ==
  /\ host = "scan"
  /\ IF ahead > 0 THEN ahead' = ahead - 1 /\ UNCHANGED piped
     ELSE IF piped > 0 THEN ahead' = piped - 1 /\ piped' = 0
     ELSE UNCHANGED <<ahead, piped>>
  /\ buf' = IF ahead + piped > 0 THEN "operator" ELSE buf
  /\ host' = "send"
  /\ UNCHANGED <<netReady, typed, opEnd, outq, inq, guest, entered, userEnd, loose>>

\* Mutant: an else before the test of the client's socket, which is read only
\* in a round in which the operator has typed nothing.
SendTextElse ==
  /\ host = "send"
  /\ \E n \in IF buf = "nobody" THEN {0, 1} ELSE {1} :
       /\ GuestGone \/ outq + n <= Room
       /\ outq' = IF GuestGone THEN outq ELSE outq + n
       /\ guest' = IF GuestGone /\ ~ (guest = "fin" /\ n = 0) THEN "lost" ELSE guest
  /\ host' = IF guest = "lost" THEN "killed" ELSE "select"
  /\ UNCHANGED <<netReady, buf, piped, ahead, typed, opEnd, inq, entered, userEnd, loose>>

\* send(): blocks while the client's socket is full; the first to a client that
\* is gone is lost, the next one raises SIGPIPE.  A buffer that was never
\* written may hold the empty text.
SendText ==
  /\ host = "send"
  /\ \E n \in IF buf = "nobody" THEN {0, 1} ELSE {1} :
       /\ GuestGone \/ outq + n <= Room
       /\ outq' = IF GuestGone THEN outq ELSE outq + n
       /\ guest' = IF GuestGone /\ ~ (guest = "fin" /\ n = 0) THEN "lost" ELSE guest
  /\ host' = IF guest = "lost" THEN "killed"
             ELSE IF netReady THEN "recv" ELSE "select"
  /\ UNCHANGED <<netReady, buf, piped, ahead, typed, opEnd, inq, entered, userEnd, loose>>

\* recv() takes up to a buffer of what has come.
RecvText ==
  /\ host = "recv" /\ inq > 0
  /\ \E n \in 1 .. inq : inq' = inq - n
  /\ buf' = "client"
  /\ host' = "select"
  /\ UNCHANGED <<netReady, piped, ahead, typed, opEnd, outq, guest, entered, userEnd, loose>>

\* 0 or -1 ends the server.
RecvEnds ==
  /\ host = "recv" /\ inq = 0
  /\ host' = "exited"
  /\ UNCHANGED <<netReady, buf, piped, ahead, typed, opEnd, outq, inq,
                 guest, entered, userEnd, loose>>

Host == AcceptGuest \/ SelectBoth \/ Fgets \/ SendText \/ RecvText \/ RecvEnds

-----------------------------------------------------------------------------
(* The operator, the client and its user *)

TypeLine ==
  /\ typed < MaxTyped /\ ~ opEnd /\ ~ HostOver
  /\ typed' = typed + 1
  /\ piped' = piped + 1
  /\ UNCHANGED <<host, netReady, buf, ahead, opEnd, outq, inq, guest, entered, userEnd, loose>>

EndStdin ==
  /\ ~ opEnd
  /\ opEnd' = TRUE
  /\ UNCHANGED <<host, netReady, buf, piped, ahead, typed, outq, inq,
                 guest, entered, userEnd, loose>>

\* Each end may be killed, too: with a reset if it leaves something unread.
KillHost ==
  /\ ~ HostOver
  /\ host' = "killed"
  /\ UNCHANGED <<netReady, buf, piped, ahead, typed, opEnd, outq, inq,
                 guest, entered, userEnd, loose>>

ConnectGuest ==
  /\ guest = "away" /\ ~ HostOver
  /\ guest' = "typing"
  /\ UNCHANGED <<host, netReady, buf, piped, ahead, typed, opEnd, outq, inq,
                 entered, userEnd, loose>>

\* fgets(): at the end of the input the buffer is left as it is, and sent again.
EnterText ==
  /\ guest = "typing"
  /\ userEnd \/ entered < MaxTyped
  /\ entered' = IF userEnd THEN entered ELSE entered + 1
  /\ guest' = "sending"
  /\ UNCHANGED <<host, netReady, buf, piped, ahead, typed, opEnd, outq, inq, userEnd, loose>>

EndInput ==
  /\ guest = "typing" /\ ~ userEnd
  /\ userEnd' = TRUE
  /\ UNCHANGED <<host, netReady, buf, piped, ahead, typed, opEnd, outq, inq,
                 guest, entered, loose>>

\* send() blocks while the server's socket is full; SIGPIPE, the empty text and
\* the reset of a server that left something unread are as above.
SendToHost ==
  /\ guest = "sending"
  /\ \E n \in IF entered = 0 THEN {0, 1} ELSE {1} :
       /\ HostOver \/ inq + n <= Room
       /\ inq' = IF HostOver THEN inq ELSE inq + n
       /\ loose' = (HostOver /\ (loose \/ n = 1 \/ inq > 0))
  /\ guest' = IF loose THEN "killed" ELSE "typing"
  /\ UNCHANGED <<host, netReady, buf, piped, ahead, typed, opEnd, outq, entered, userEnd>>

KillGuest ==
  /\ guest \in {"typing", "sending"}
  /\ guest' = IF outq > 0 THEN "rst" ELSE "fin"
  /\ UNCHANGED <<host, netReady, buf, piped, ahead, typed, opEnd, outq, inq,
                 entered, userEnd, loose>>

Guest == ConnectGuest \/ EnterText \/ EndInput \/ SendToHost \/ KillGuest

PairNext == Host \/ TypeLine \/ EndStdin \/ KillHost \/ Guest

\* Both processes are scheduled; nobody has to type or to start them, but
\* fgets() returns at once when the input has ended.
PairSpec ==
  /\ PairInit /\ [][PairNext]_pair_vars
  /\ WF_pair_vars(Host)
  /\ WF_pair_vars(SendToHost \/ (userEnd /\ EnterText))

-----------------------------------------------------------------------------
(* Properties *)

\* The server waits in send() for a client that never reads.
Stuck == host = "send" /\ outq = Room /\ ~ GuestGone

\* The client's send() is held up only by a server that waits in its own, each
\* for the other to read.  Once the operator's input has ended the server sends
\* its buffer again and again (select-server.c:82), until it is killed or
\* stuck; only then does the client get back a text of its own as the
\* operator's.  A buffer without a text may be sent for ever.
PairServed ==
  /\ [](PairTypeOK /\ (host = "send" /\ buf # "operator" => opEnd))
  /\ guest = "sending" ~> guest # "sending" \/ Stuck
  /\ opEnd /\ guest # "away" ~> HostOver \/ Stuck \/ buf = "nobody"
=============================================================================
