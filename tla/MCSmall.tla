------------------------------- MODULE MCSmall -------------------------------
(* The small programs for TLC: a behaviour is one of UdpGame, UdpAck,      *)
(* SelectPair or Counters, which share nothing.                            *)
EXTENDS UdpGame, UdpAck, SelectPair, Counters

VARIABLE which

all_vars  == <<which, game_vars, ack_vars, pair_vars, count_vars>>

SmallInit ==
  /\ which \in {"game", "ack", "pair", "count"}
  /\ GameInit /\ AckInit /\ PairInit /\ CountInit
  /\ which # "ack" => kind \in [Askers -> {"plain"}]
  /\ which # "count" => exercise = "file"

Game  == which = "game" /\ UNCHANGED <<which, ack_vars, pair_vars, count_vars>>
Acks  == which = "ack" /\ UNCHANGED <<which, game_vars, pair_vars, count_vars>>
Pair  == which = "pair" /\ UNCHANGED <<which, game_vars, ack_vars, count_vars>>
Count == which = "count" /\ UNCHANGED <<which, game_vars, ack_vars, pair_vars>>

SmallNext ==
  \/ GameNext /\ Game
  \/ AckNext /\ Acks
  \/ PairNext /\ Pair
  \/ CountNext /\ Count

\* The fairness of each module's own specification.
SmallSpec ==
  /\ SmallInit /\ [][SmallNext]_all_vars
  /\ WF_all_vars(Server /\ Game)
  /\ \A c \in Players : WF_all_vars((Decode(c) \/ Finish(c)) /\ Game)
  /\ WF_all_vars(AckServer /\ Acks)
  /\ \A c \in Askers : WF_all_vars((HearReply(c) \/ HearRefusal(c)) /\ Acks)
  /\ WF_all_vars(Host /\ Pair)
  /\ WF_all_vars((SendToHost \/ (userEnd /\ EnterText)) /\ Pair)
=============================================================================
