---------------------------- MODULE MCChatServer ----------------------------
(* Small instances of ChatServer for TLC. *)
EXTENDS ChatServer, TLC

\* Clients are alike but for Talkers, which are one client or none.
Symmetry == Permutations(Clients \ Talkers)

\* In the room: two texts, or one and a client whose connection is reset.
FewTexts == said = MaxTexts => \A c \in Clients : peer[c] \notin {"rst", "reset"}

\* For liveness, where symmetry is unsound: clients are numbers and connect in
\* their order, the first two have names, the others only listen, and no input
\* ends.
LiveNext ==
  \/ Server
  \/ \E c \in Clients :
       \/ (\A d \in Clients : d < c => conn[d] # "idle") /\ Connect(c)
       \/ c <= 2 /\ EnterName(c) /\ ~ Ended(c)'
       \/ SendLine(c) /\ ~ Ended(c)'
       \/ \E how \in Departures : Leave(c, how)

LiveInit == Init /\ buffer = <<>>
LiveSpec == LiveInit /\ [][LiveNext]_vars /\ WF_vars(Server)
=============================================================================
