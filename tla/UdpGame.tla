------------------------------ MODULE UdpGame ------------------------------
(***************************************************************************)
(* The decoding game of Source_codes_Ch6/bai-tap-lab over UDP.             *)
(* baitapclient.c sends a greeting, decodes the word it gets for it, sends *)
(* that back and prints the verdict.  baitapserver.c waits in turn for a   *)
(* greeting and for an answer, from whomever they come, and replies to     *)
(* where each came from.                                                   *)
(*                                                                         *)
(* Both run on one host: datagrams are lost (a full socket buffer, a       *)
(* server that is not yet there) but stay in order.                        *)
(***************************************************************************)
EXTENDS Integers, SequencesExt

CONSTANTS
  Players,
  Words,    \* words[]
  NoWord,   \* for texts that hold none
  MayLose   \* bound: the clients whose datagrams may be lost, both ways

ASSUME NoWordAssumption  == NoWord \notin Words
ASSUME MayLoseAssumption == MayLose \subseteq Players

VARIABLES
  server,   \* greeting, answer: what the server waits for
  data,     \* the text it sent last in return for a greeting
  queue,    \* its socket: what was sent to it, and by whom
  inbox,    \* the clients' sockets
  player,   \* start, first, second, done: the reply a client waits for
  told,     \* the reply a client printed as the verdict
  lost,     \* history: some datagram was lost
  mixed     \* history: clients whose game overlapped with another's

game_vars == <<server, data, queue, inbox, player, told, lost, mixed>>

Text(kind, word) == [kind |-> kind, word |-> word]
Plain(w)  == Text("plain", w)
Cipher(w) == Text("cipher", w)
Hello     == Text("hello", NoWord)
Junk      == Text("junk", NoWord)   \* what the other texts decode to
Right     == Text("right", NoWord)
Wrong     == Text("wrong", NoWord)
Nothing   == Text("nothing", NoWord)

Texts == {Plain(w) : w \in Words} \cup {Cipher(w) : w \in Words}
           \cup {Hello, Junk, Right, Wrong}

\* xor_cipher(): no letter of a word becomes the terminator.
Xor(t) == CASE t.kind = "plain"  -> Cipher(t.word)
            [] t.kind = "cipher" -> Plain(t.word)
            [] OTHER             -> Junk

GameTypeOK ==
  /\ server \in {"greeting", "answer"}
  /\ data \in {Cipher(w) : w \in Words} \cup {Nothing}
  /\ server = "answer" => data # Nothing
  /\ queue \in Seq([from : Players, text : Texts])
  /\ inbox \in [Players -> Seq(Texts)]
  /\ player \in [Players -> {"start", "first", "second", "done"}]
  /\ told \in [Players -> Texts \cup {Nothing}]
  /\ lost \in BOOLEAN /\ mixed \subseteq Players

GameInit ==
  /\ server = "greeting" /\ data = Nothing
  /\ queue = <<>>
  /\ inbox = [c \in Players |-> <<>>]
  /\ player = [c \in Players |-> "start"]
  /\ told = [c \in Players |-> Nothing]
  /\ lost = FALSE /\ mixed = {}

Playing == {c \in Players : player[c] \in {"first", "second"}}

-----------------------------------------------------------------------------
(* The server *)

Reply(text) ==
  LET c == Head(queue).from IN
    /\ queue' = Tail(queue)
    /\ inbox' = [inbox EXCEPT ![c] = Append(@, text)]

\* Whatever comes first is taken for a greeting.
Challenge ==
  /\ server = "greeting" /\ queue # <<>>
  /\ \E w \in Words : data' = Cipher(w) /\ Reply(Cipher(w))
  /\ server' = "answer"
  /\ UNCHANGED <<player, told, lost, mixed>>

\* Mutant: only an answer of the client's own ends the game.
JudgeOwn ==
  /\ server = "answer" /\ queue # <<>>
  /\ IF Head(queue).text.kind = "plain"
     THEN /\ Reply(IF Head(queue).text = Xor(data) THEN Right ELSE Wrong)
          /\ server' = "greeting"
     ELSE /\ queue' = Tail(queue)
          /\ UNCHANGED <<inbox, server>>
  /\ UNCHANGED <<data, player, told, lost, mixed>>

\* Mutant: the server goes on waiting for answers.
JudgeStays ==
  /\ server = "answer" /\ queue # <<>>
  /\ Reply(IF Head(queue).text = Xor(data) THEN Right ELSE Wrong)
  /\ UNCHANGED <<server, data, player, told, lost, mixed>>

\* Whatever comes next is taken for the answer.
Judge ==
  /\ server = "answer" /\ queue # <<>>
  /\ Reply(IF Head(queue).text = Xor(data) THEN Right ELSE Wrong)
  /\ server' = "greeting"
  /\ UNCHANGED <<data, player, told, lost, mixed>>

Server == Challenge \/ Judge

-----------------------------------------------------------------------------
(* The clients and the network *)

SendDatagram(c, text) == queue' = Append(queue, [from |-> c, text |-> text])

Greet(c) ==
  /\ player[c] = "start"
  /\ player' = [player EXCEPT ![c] = "first"]
  /\ SendDatagram(c, Hello)
  /\ mixed' = IF Playing = {} THEN mixed ELSE mixed \cup Playing \cup {c}
  /\ UNCHANGED <<server, data, inbox, told, lost>>

\* Mutant: the answer is sent in two datagrams.
DecodeTwice(c) ==
  /\ player[c] = "first" /\ inbox[c] # <<>>
  /\ player' = [player EXCEPT ![c] = "second"]
  /\ LET d == [from |-> c, text |-> Xor(Head(inbox[c]))] IN queue' = queue \o <<d, d>>
  /\ inbox' = [inbox EXCEPT ![c] = Tail(@)]
  /\ UNCHANGED <<server, data, told, lost, mixed>>

\* The first reply, whatever it is, is decoded and sent back.
Decode(c) ==
  /\ player[c] = "first" /\ inbox[c] # <<>>
  /\ player' = [player EXCEPT ![c] = "second"]
  /\ SendDatagram(c, Xor(Head(inbox[c])))
  /\ inbox' = [inbox EXCEPT ![c] = Tail(@)]
  /\ UNCHANGED <<server, data, told, lost, mixed>>

\* The second reply, whatever it is, is printed.
Finish(c) ==
  /\ player[c] = "second" /\ inbox[c] # <<>>
  /\ player' = [player EXCEPT ![c] = "done"]
  /\ told' = [told EXCEPT ![c] = Head(inbox[c])]
  /\ inbox' = [inbox EXCEPT ![c] = Tail(@)]
  /\ UNCHANGED <<server, data, queue, lost, mixed>>

LoseRequest ==
  /\ \E k \in DOMAIN queue :
       /\ queue[k].from \in MayLose
       /\ queue' = RemoveAt(queue, k)
  /\ lost' = TRUE
  /\ UNCHANGED <<server, data, inbox, player, told, mixed>>

LoseReply(c) ==
  /\ c \in MayLose /\ inbox[c] # <<>>
  /\ inbox' = [inbox EXCEPT ![c] = Tail(@)]
  /\ lost' = TRUE
  /\ UNCHANGED <<server, data, queue, player, told, mixed>>

GameNext ==
  \/ Server \/ LoseRequest
  \/ \E c \in Players : Greet(c) \/ Decode(c) \/ Finish(c) \/ LoseReply(c)

GameSpec == GameInit /\ [][GameNext]_game_vars

\* The processes are scheduled; nobody has to start a client.
FairGameSpec ==
  /\ GameSpec
  /\ WF_game_vars(Server)
  /\ \A c \in Players : WF_game_vars(Decode(c) \/ Finish(c))

-----------------------------------------------------------------------------
(* Properties *)

\* Where in its queue the server has datagrams of c.
Requests(c) == {k \in DOMAIN queue : queue[k].from = c}

\* Every datagram of a client is answered by just one, to its own sender,
\* although the server keeps one address for all: a client that waits has one
\* on its way, there or back, unless it was lost, and no other client has any.
OneInFlight ==
  /\ GameTypeOK
  /\ \A c \in Players :
       /\ \A k, n \in Requests(c) : k = n
       /\ Len(inbox[c]) <= 1
       /\ Requests(c) = {} \/ inbox[c] = <<>>
       /\ c \notin Playing => Requests(c) = {} /\ inbox[c] = <<>>
       /\ c \in Playing \ MayLose => Requests(c) # {} \/ inbox[c] # <<>>

\* As long as nothing was lost: however the games overlapped, the server waits
\* for a greeting again when all are over, and a client that played alone was
\* told that it is right, which it always is.
PhaseRestored ==
  ~ lost =>
    /\ Playing = {} => server = "greeting"
    /\ \A c \in Players : player[c] = "done" /\ c \notin mixed => told[c] = Right

\* The server may wait for ever (baitapserver.c:115 has no timeout), and take
\* one client's text for another's, but a client whose datagrams are not lost
\* always comes to its end, even if those of others are.
ClientFinishes ==
  \A c \in Players \ MayLose : player[c] = "first" ~> player[c] = "done"
=============================================================================
