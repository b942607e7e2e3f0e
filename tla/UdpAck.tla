------------------------------- MODULE UdpAck -------------------------------
(***************************************************************************)
(* The acknowledging UDP server of Source_codes_Ch6 and its four clients.  *)
(* udp-server.c takes one datagram, answers it and ends.  A client sends   *)
(* one datagram and reads one:                                             *)
(*   "plain"     udp-client.c takes it for the server's, whoever sent it   *)
(*   "fields"    mem-check-client2.c compares port, address and family     *)
(*   "whole"     mem-check-client.c compares the whole address; the kernel *)
(*               clears the eight bytes of an address that hold nothing    *)
(*   "connected" udp-connect-client.c lets the kernel compare              *)
(* All run on one host: a datagram is lost only if nobody has the port it  *)
(* is sent to, or with the socket that holds it.                           *)
(***************************************************************************)
EXTENDS Integers, FiniteSets, SequencesExt

CONSTANTS
  Askers,    \* the clients
  Nobody,
  MaxRuns    \* bound: how often the server is started

ASSUME AskersAssumption == Nobody \notin Askers /\ MaxRuns \in Nat

Kinds == {"plain", "fields", "whole", "connected"}

VARIABLES
  kind,     \* which client an asker is
  ack,      \* the server: absent, receiving, answering
  runs,     \* history: how often it was started
  cliaddr,  \* the sender it answers
  requests, \* its socket
  asker,    \* a client: start, waiting, done
  request,  \* where its datagram is: unsent, queued, taken, dropped, refused
  replies,  \* its socket: who sent what is in it
  heard     \* what it printed: nothing, server, stranger (as the server's),
            \* unexpected, garbage (the buffer as it was)

ack_vars == <<kind, ack, runs, cliaddr, requests, asker, request, replies, heard>>

AckTypeOK ==
  /\ kind \in [Askers -> Kinds]
  /\ ack \in {"absent", "receiving", "answering"}
  /\ runs \in 0 .. MaxRuns
  /\ cliaddr \in Askers \cup {Nobody}
  /\ requests \in Seq(Askers)
  /\ asker \in [Askers -> {"start", "waiting", "done"}]
  /\ request \in [Askers -> {"unsent", "queued", "taken", "dropped", "refused"}]
  /\ replies \in [Askers -> Seq({"server", "stranger"})]
  /\ heard \in [Askers -> {"nothing", "server", "stranger", "unexpected", "garbage"}]

AckInit ==
  /\ kind \in [Askers -> Kinds]
  /\ ack = "absent" /\ runs = 0 /\ cliaddr = Nobody
  /\ requests = <<>>
  /\ asker = [c \in Askers |-> "start"]
  /\ request = [c \in Askers |-> "unsent"]
  /\ replies = [c \in Askers |-> <<>>]
  /\ heard = [c \in Askers |-> "nothing"]

-----------------------------------------------------------------------------
(* The server *)

\* socket() and bind().
RunServer ==
  /\ ack = "absent" /\ runs < MaxRuns
  /\ ack' = "receiving"
  /\ runs' = runs + 1
  /\ UNCHANGED <<kind, cliaddr, requests, asker, request, replies, heard>>

TakeRequest ==
  /\ ack = "receiving" /\ requests # <<>>
  /\ cliaddr' = Head(requests)
  /\ request' = [request EXCEPT ![Head(requests)] = "taken"]
  /\ requests' = Tail(requests)
  /\ ack' = "answering"
  /\ UNCHANGED <<kind, runs, asker, replies, heard>>

\* The reply goes to a client that may have ended.
Deliver(c, from) ==
  replies' = IF asker[c] = "waiting" THEN [replies EXCEPT ![c] = Append(@, from)]
             ELSE replies

\* Mutant: len is not set, and sendto() fails.
AcknowledgeNobody ==
  /\ ack = "answering"
  /\ cliaddr' = Nobody
  /\ ack' = "absent"
  /\ request' = [c \in Askers |-> IF request[c] = "queued" THEN "dropped" ELSE request[c]]
  /\ requests' = <<>>
  /\ UNCHANGED <<kind, runs, asker, replies, heard>>

\* sendto() and close(): what else is in the socket goes with it.
Acknowledge ==
  /\ ack = "answering"
  /\ Deliver(cliaddr, "server")
  /\ cliaddr' = Nobody
  /\ ack' = "absent"
  /\ request' = [c \in Askers |-> IF request[c] = "queued" THEN "dropped" ELSE request[c]]
  /\ requests' = <<>>
  /\ UNCHANGED <<kind, runs, asker, heard>>

AckServer == TakeRequest \/ Acknowledge

-----------------------------------------------------------------------------
(* The clients, and others who send to their port *)

\* If nobody has the server's port, the kernel says so to a connected socket.
Ask(c) ==
  /\ asker[c] = "start"
  /\ asker' = [asker EXCEPT ![c] = "waiting"]
  /\ request' = [request EXCEPT ![c] = IF ack = "absent" THEN "refused" ELSE "queued"]
  /\ requests' = IF ack = "absent" THEN requests ELSE Append(requests, c)
  /\ UNCHANGED <<kind, ack, runs, cliaddr, replies, heard>>

\* A connected socket takes nothing from others.
Stranger(c) ==
  /\ asker[c] = "waiting" /\ kind[c] # "connected"
  /\ "stranger" \notin ToSet(replies[c])
  /\ Deliver(c, "stranger")
  /\ UNCHANGED <<kind, ack, runs, cliaddr, requests, asker, request, heard>>

\* Mutant: the address of the sender is not looked at.
ShowsAll(c, from) == from

\* What is printed for a datagram.
Shows(c, from) ==
  IF from = "stranger" /\ kind[c] \in {"fields", "whole"} THEN "unexpected" ELSE from

\* The first datagram is the only one that is read.
HearReply(c) ==
  /\ asker[c] = "waiting" /\ replies[c] # <<>>
  /\ asker' = [asker EXCEPT ![c] = "done"]
  /\ heard' = [heard EXCEPT ![c] = Shows(c, Head(replies[c]))]
  /\ replies' = [replies EXCEPT ![c] = <<>>]
  /\ UNCHANGED <<kind, ack, runs, cliaddr, requests, request>>

\* recv() returns -1 (ECONNREFUSED), which is not tested: buffer is printed.
HearRefusal(c) ==
  /\ asker[c] = "waiting"
  /\ kind[c] = "connected" /\ request[c] = "refused"
  /\ asker' = [asker EXCEPT ![c] = "done"]
  /\ heard' = [heard EXCEPT ![c] = "garbage"]
  /\ UNCHANGED <<kind, ack, runs, cliaddr, requests, request, replies>>

AckNext ==
  \/ RunServer \/ AckServer
  \/ \E c \in Askers : Ask(c) \/ Stranger(c) \/ HearReply(c) \/ HearRefusal(c)

AckSpec == AckInit /\ [][AckNext]_ack_vars

-----------------------------------------------------------------------------
(* Properties *)

\* Each run of the server acknowledges one client at most, a client prints the
\* acknowledgement only if the server took its own datagram, and none that
\* compares the sender, or has the kernel do so, takes a stranger for the
\* server ("Received message from the correct server", mem-check-client2.c:61).
AckRight ==
  /\ AckTypeOK
  /\ Cardinality({c \in Askers : request[c] = "taken"}) <= runs
  /\ \A c \in Askers :
       /\ heard[c] = "server" \/ "server" \in ToSet(replies[c]) => request[c] = "taken"
       /\ heard[c] = "stranger" => kind[c] = "plain"

\* A client ends, unless its datagram was behind another's when the server
\* ended, or nobody was there and its socket is not connected, so that it is
\* not told; none of the four has a timeout.
AskEnds ==
  \A c \in Askers :
    asker[c] = "waiting" ~>
      \/ asker[c] = "done"
      \/ request[c] = "dropped"
      \/ request[c] = "refused" /\ kind[c] # "connected"
=============================================================================
