-------------------------- MODULE QuizServerProofs --------------------------
(* TLAPS proofs about the quiz server, for any number of players, questions *)
(* and options.                                                            *)
EXTENDS QuizServer, ForkServerProofs, SequenceTheorems

-----------------------------------------------------------------------------
(* The shuffle *)

\* The part of the type invariant that the shuffle depends on.
ShuffleType ==
  /\ i \in [Clients -> Questions]
  /\ step \in [Clients -> Options]
  /\ options \in [Clients -> [Options -> Options]]
  /\ correct \in [Clients -> Options]

KeyInv == ShuffleType /\ KeyFollows

\* An order of the options, and the place of one of them.
Order(o, k, right_one) ==
  /\ o \in [Options -> Options]
  /\ k \in Options
  /\ \A m, n \in Options : o[m] = o[n] => m = n
  /\ o[k] = right_one

\* One exchange of two options keeps them all, and Track() finds the option
\* again that was at place k.
LEMMA ExchangeKeepsOrder ==
  ASSUME NEW o, NEW k, NEW x, NEW m \in Options, NEW n \in Options, Order(o, k, x)
  PROVE  Order([o EXCEPT ![m] = o[n], ![n] = o[m]], Track(k, m, n), x)
<1> DEFINE p == [o EXCEPT ![m] = o[n], ![n] = o[m]]
<1>1. p \in [Options -> Options] /\ Track(k, m, n) \in Options
  BY DEF Order, Track
<1>2. \A a \in Options : p[a] = IF a = n THEN o[m] ELSE IF a = m THEN o[n] ELSE o[a]
  BY DEF Order
<1>3. \A a, b \in Options : p[a] = p[b] => a = b
  BY <1>2 DEF Order
<1>4. p[Track(k, m, n)] = x
  BY <1>2 DEF Order, Track
<1> QED BY <1>1, <1>3, <1>4 DEF Order

LEMMA KeyInvIsOrder ==
  KeyInv <=> /\ ShuffleType
             /\ \A c \in Clients : Order(options[c], correct[c], Key[i[c]])
BY DEF KeyInv, KeyFollows, ShuffleType, Order

\* Questions begin with the options in their original order.
LEMMA OriginalOrder == \A n \in Questions : Order(Original, Key[n], Key[n])
BY KeyAssumption DEF Order, Original

LEMMA KeyInit == Init => KeyInv
<1> SUFFICES ASSUME Init PROVE KeyInv
  OBVIOUS
<1>1. 1 \in Questions /\ NumOptions - 1 \in Options
  BY QuestionsAssumption, OptionsAssumption DEF Questions, Options
<1>2. ShuffleType
  BY <1>1, KeyAssumption DEF Init, ShuffleType, Original
<1>3. \A c \in Clients : Order(options[c], correct[c], Key[i[c]])
  BY <1>1, OriginalOrder DEF Init
<1> QED BY <1>2, <1>3, KeyInvIsOrder

\* A turn of the shuffle's loop.
LEMMA KeyShuffle ==
  ASSUME KeyInv, NEW c \in Clients, Shuffle(c)
  PROVE  KeyInv'
<1> DEFINE m == step[c]
<1>1. PICK n \in 0 .. m :
        /\ options' = [options EXCEPT ![c] =
                         [@ EXCEPT ![m] = options[c][n], ![n] = options[c][m]]]
        /\ correct' = [correct EXCEPT ![c] = Track(@, m, n)]
  BY DEF Shuffle
<1>2. m \in Options /\ n \in Options /\ m - 1 \in Options
  <2>1. m \in Options
    BY DEF KeyInv, ShuffleType
  <2>2. m > 0
    BY DEF Shuffle
  <2> HIDE DEF m
  <2> QED BY ONLY <2>1, <2>2, OptionsAssumption, n \in 0 .. m DEF Options
<1>3. i' = i /\ step' = [step EXCEPT ![c] = m - 1]
  BY DEF Shuffle
<1>4. Order(options[c], correct[c], Key[i[c]])
  BY KeyInvIsOrder
<1>5. Order(options'[c], correct'[c], Key[i'[c]])
  <2>1. options'[c] = [options[c] EXCEPT ![m] = options[c][n], ![n] = options[c][m]]
    BY <1>1 DEF KeyInv, ShuffleType
  <2>2. correct'[c] = Track(correct[c], m, n)
    BY <1>1 DEF KeyInv, ShuffleType
  <2>3. Order([options[c] EXCEPT ![m] = options[c][n], ![n] = options[c][m]],
              Track(correct[c], m, n), Key[i[c]])
    <3> HIDE DEF m
    <3> QED BY ONLY <1>2, <1>4, ExchangeKeepsOrder
  <2>4. i'[c] = i[c]
    BY <1>3
  <2> HIDE DEF m
  <2> QED BY ONLY <2>1, <2>2, <2>3, <2>4, Zenon
<1>6. \A d \in Clients : d # c => options'[d] = options[d] /\ correct'[d] = correct[d]
  BY <1>1 DEF KeyInv, ShuffleType
<1>7. \A d \in Clients : Order(options'[d], correct'[d], Key[i'[d]])
  BY <1>3, <1>5, <1>6, KeyInvIsOrder
<1>8. ShuffleType'
  <2>1. options'[c] \in [Options -> Options] /\ correct'[c] \in Options
    BY <1>5 DEF Order
  <2>2. options' \in [Clients -> [Options -> Options]]
    BY <1>1, <1>6, <2>1 DEF KeyInv, ShuffleType
  <2>3. correct' \in [Clients -> Options]
    BY <1>1, <1>6, <2>1 DEF KeyInv, ShuffleType
  <2>4. step' \in [Clients -> Options]
    BY <1>2, <1>3 DEF KeyInv, ShuffleType
  <2> QED BY <1>3, <2>2, <2>3, <2>4 DEF KeyInv, ShuffleType
<1> QED BY <1>7, <1>8 DEF KeyInv, KeyFollows, ShuffleType, Order

\* The next question replaces the options and their key together.
LEMMA KeyJudge ==
  ASSUME KeyInv, NEW c \in Clients, Judge(c)
  PROVE  KeyInv'
<1>1. CASE i[c] < NumQuestions
  <2>1. /\ i' = [i EXCEPT ![c] = i[c] + 1]
        /\ options' = [options EXCEPT ![c] = Original]
        /\ correct' = [correct EXCEPT ![c] = Key[i[c] + 1]]
        /\ step' = [step EXCEPT ![c] = NumOptions - 1]
    BY <1>1 DEF Judge, NextQuestion
  <2>2. i[c] + 1 \in Questions /\ NumOptions - 1 \in Options
    BY <1>1, QuestionsAssumption, OptionsAssumption
       DEF KeyInv, ShuffleType, Questions, Options
  <2>3. Order(Original, Key[i[c] + 1], Key[i[c] + 1])
    BY <2>2, OriginalOrder
  <2>4. ShuffleType'
    BY <2>1, <2>2, <2>3 DEF KeyInv, ShuffleType, Order
  <2>5. \A d \in Clients : Order(options'[d], correct'[d], Key[i'[d]])
    BY <2>1, <2>3, KeyInvIsOrder DEF ShuffleType
  <2> QED BY <2>4, <2>5 DEF KeyInv, KeyFollows, ShuffleType, Order
<1>2. CASE ~ (i[c] < NumQuestions)
  BY <1>2 DEF Judge, NextQuestion, KeyInv, KeyFollows, ShuffleType
<1> QED BY <1>1, <1>2

LEMMA KeyStep == KeyInv /\ [Next]_vars => KeyInv'
<1> SUFFICES ASSUME KeyInv, [Next]_vars PROVE KeyInv'
  OBVIOUS
<1>1. ASSUME NEW c \in Clients, Shuffle(c) PROVE KeyInv'
  BY <1>1, KeyShuffle
<1>2. ASSUME NEW c \in Clients, Judge(c) PROVE KeyInv'
  BY <1>2, KeyJudge
<1>3. ASSUME UNCHANGED <<i, step, options, correct>> PROVE KeyInv'
  BY <1>3 DEF KeyInv, KeyFollows, ShuffleType
<1>4. ASSUME NEW c \in Clients,
             \/ ChildStart(c) /\ UNCHANGED quiz_vars
             \/ Ask(c) \/ Break(c) \/ Finish(c) \/ Killed(c)
      PROVE  UNCHANGED <<i, step, options, correct>>
  BY <1>4 DEF Ask, Break, Finish, Killed, quiz_vars
<1>5. ASSUME NEW c \in Clients,
             \/ Start(c) \/ Receive(c) \/ EndOfFile(c) \/ Answering(c) \/ Leave(c)
      PROVE  UNCHANGED <<i, step, options, correct>>
  BY <1>5 DEF Start, Receive, EndOfFile, Answering, Answer, AnswerNothing, Leave
<1>6. CASE Parent /\ UNCHANGED quiz_vars
  BY <1>3, <1>6 DEF quiz_vars
<1>7. CASE UNCHANGED vars
  BY <1>3, <1>7 DEF vars, quiz_vars
<1> QED BY <1>1, <1>2, <1>3, <1>4, <1>5, <1>6, <1>7 DEF Next, Child

\* However often and with whatever random numbers shuffle_options() exchanges
\* two options, the order it leaves is a permutation of them, and correct is
\* the place of the right one.
THEOREM KeyFollowsCorrect == Spec => []KeyFollows
<1>1. KeyInv => KeyFollows
  BY DEF KeyInv
<1> QED BY <1>1, KeyInit, KeyStep, PTL DEF Spec

-----------------------------------------------------------------------------
(* The accept loop *)

LEMMA QuizStepIsForkStep == [Next]_vars => [ForkNext]_fork_vars
<1> SUFFICES ASSUME [Next]_vars PROVE [ForkNext]_fork_vars
  OBVIOUS
<1>1. CASE Parent
  BY <1>1 DEF ForkNext
<1>2. ASSUME NEW c \in Clients, Child(c) PROVE [ForkNext]_fork_vars
  <2>1. CASE ChildStart(c)
    BY <2>1 DEF ForkNext
  <2>2. CASE Finish(c) \/ Killed(c)
    BY <2>2 DEF ForkNext, Finish, Killed
  <2>3. CASE Shuffle(c) \/ Ask(c) \/ Judge(c) \/ Break(c)
    BY <2>3 DEF Shuffle, Ask, Judge, Break
  <2> QED BY <1>2, <2>1, <2>2, <2>3 DEF Child
<1>3. ASSUME NEW c \in Clients, Start(c) PROVE [ForkNext]_fork_vars
  BY <1>3 DEF Start, ForkNext
<1>4. ASSUME NEW c \in Clients, Receive(c) \/ EndOfFile(c) \/ Answering(c) \/ Leave(c)
      PROVE  [ForkNext]_fork_vars
  BY <1>4 DEF Receive, EndOfFile, Answering, Answer, AnswerNothing, Leave
<1>5. CASE UNCHANGED vars
  BY <1>5 DEF vars
<1> QED BY <1>1, <1>2, <1>3, <1>4, <1>5 DEF Next

\* The quiz server is a forking server: each of its steps is one of the accept
\* loop and its children, or leaves processes and connections alone.
THEOREM QuizImplementsFork == Spec => ForkSpec
<1>1. Init => ForkInit
  BY DEF Init
<1> QED BY <1>1, QuizStepIsForkStep, PTL DEF Spec, ForkSpec

\* No quiz keeps a connection open longer than its own player's child lives.
THEOREM QuizNoLeakedSocket == Spec => []NoLeakedSocket
BY QuizImplementsFork, NoLeakedSocketCorrect, PTL

-----------------------------------------------------------------------------
(* The sessions *)

Messages ==
  {Question(n, o) : n \in Questions, o \in [Options -> Options]}
    \cup {Score(n) : n \in 0 .. NumQuestions} \cup {Verdict}

\* What a screen can show; question 0 is none.
Screens == {Question(n, o) : n \in 0 .. NumQuestions, o \in [Options -> Options]}

\* The types of everything, and the score that can have been reached.
QuizType ==
  /\ TypeOK
  /\ toClient \in [Clients -> Seq(Messages)]
  /\ screen \in [Clients -> Screens]
  /\ \A c \in Clients : at[c] # "score" => score[c] < i[c]

Asked(c)   == Question(i[c], options[c])
Waiting(c) == Running(c) /\ at[c] = "recv"
Over(c)    == child[c] \in {"zombie", "reaped"}

\* The child's count is the player's, but for an answer on its way.
Counted(c) ==
  IF toServer[c] = <<>> THEN right[c] = score[c]
  ELSE /\ player[c] = "recv" /\ Waiting(c)
       /\ \E a \in Answers : /\ toServer[c] = <<a>>
                             /\ right[c] = IF a = correct[c] THEN score[c] + 1 ELSE score[c]

\* What is on its way to a player: verdicts, the question the child waits for
\* an answer to, behind all verdicts, or the score of a child that is over.
Underway(c) ==
  \A p \in DOMAIN toClient[c] :
    \/ toClient[c][p] = Verdict
    \/ /\ toClient[c][p] = Asked(c) /\ p = Len(toClient[c])
       /\ player[c] = "recv" /\ Waiting(c) /\ toServer[c] = <<>>
    \/ toClient[c][p] = Score(score[c]) /\ Over(c)

\* A player who has not left.
Playing(c) ==
  /\ gone[c] = "up"
  /\ player[c] = "start" => conn[c] = "idle"
  /\ player[c] = "prompt" => Waiting(c) /\ toServer[c] = <<>> /\ screen[c] = Asked(c)
  /\ told[c] # -1 => Over(c)
  /\ Counted(c) /\ Underway(c)

Session(c) ==
  /\ told[c] # -1 => told[c] = right[c]
  /\ player[c] \in {"start", "recv", "prompt"} => Playing(c)

QuizInv == ForkInv /\ KeyInv /\ QuizType /\ \A c \in Clients : Session(c)

\* What a session depends on.
At(c) == <<child[c], conn[c], at[c], i[c], options[c], correct[c], score[c], toClient[c],
           toServer[c], gone[c], player[c], screen[c], right[c], told[c]>>

LEMMA SessionFrame == ASSUME NEW c, Session(c), UNCHANGED At(c) PROVE Session(c)'
<1>1. Asked(c)' = Asked(c) /\ (Waiting(c)' <=> Waiting(c)) /\ (Over(c)' <=> Over(c))
  BY DEF At, Asked, Waiting, Running, Over, Question
<1>2. (Counted(c)' <=> Counted(c)) /\ (Underway(c)' <=> Underway(c))
  BY <1>1 DEF At, Counted, Underway, Score
<1> QED BY <1>1, <1>2 DEF At, Session, Playing

LEMMA SessionsKeep ==
  ASSUME QuizInv, NEW c \in Clients, Session(c)', \A d \in Clients : d # c => UNCHANGED At(d)
  PROVE  \A d \in Clients : Session(d)'
BY SessionFrame DEF QuizInv

LEMMA Kinds == /\ Verdict \in Messages /\ Verdict.kind = "verdict"
               /\ \A n, o : Question(n, o).kind = "question" /\ Question(n, o) # Verdict
               /\ \A n : /\ Score(n).kind = "score" /\ Score(n) # Verdict /\ Score(n).points = n
                         /\ \A k, o : Score(n) # Question(k, o)
BY DEF Messages, Verdict, Question, Score

LEMMA AskedType == ASSUME QuizInv, NEW c \in Clients
                   PROVE  Asked(c) \in Messages /\ Score(score[c]) \in Messages
BY DEF QuizInv, QuizType, TypeOK, Asked, Messages

\* Sending puts a message at the end.
LEMMA SendTells ==
  ASSUME QuizInv, NEW c \in Clients, NEW m \in Messages, Send(c, m)
  PROVE  /\ toClient' \in [Clients -> Seq(Messages)]
         /\ gone' \in [Clients -> {"up", "down", "broken"}]
         /\ \A d \in Clients : d # c => toClient'[d] = toClient[d] /\ gone'[d] = gone[d]
         /\ (gone[c] = "up" <=> gone'[c] = "up")
         /\ gone[c] = "up" =>
              /\ Len(toClient'[c]) = Len(toClient[c]) + 1
              /\ DOMAIN toClient'[c] = DOMAIN toClient[c] \cup {Len(toClient[c]) + 1}
              /\ \A p \in DOMAIN toClient[c] : toClient'[c][p] = toClient[c][p] /\ p < Len(toClient'[c])
              /\ toClient'[c][Len(toClient[c]) + 1] = m
<1> DEFINE s == toClient[c]
<1>1. /\ toClient \in [Clients -> Seq(Messages)] /\ s \in Seq(Messages)
      /\ gone \in [Clients -> {"up", "down", "broken"}]
  BY DEF QuizInv, QuizType, TypeOK
<1>2. CASE gone[c] = "up" /\ toClient' = [toClient EXCEPT ![c] = Append(s, m)] /\ gone' = gone
  <2> HIDE DEF s
  <2>1. /\ Append(s, m) \in Seq(Messages) /\ Len(Append(s, m)) = Len(s) + 1
        /\ \A p \in 1 .. Len(s) : Append(s, m)[p] = s[p]
        /\ Append(s, m)[Len(s) + 1] = m
    BY <1>1, AppendProperties
  <2>2. /\ DOMAIN s = 1 .. Len(s) /\ Len(s) \in Nat
        /\ DOMAIN Append(s, m) = 1 .. Len(Append(s, m))
    BY <1>1, <2>1, LenProperties
  <2>3. /\ DOMAIN Append(s, m) = DOMAIN s \cup {Len(s) + 1}
        /\ \A p \in DOMAIN s : Append(s, m)[p] = s[p] /\ p < Len(Append(s, m))
    BY <2>1, <2>2
  <2>4. toClient'[c] = Append(s, m)
    BY <1>1, <1>2
  <2>5. toClient' \in [Clients -> Seq(Messages)]
        /\ \A d \in Clients : d # c => toClient'[d] = toClient[d]
    BY <1>1, <1>2, <2>1
  <2> QED BY <1>1, <1>2, <2>1, <2>3, <2>4, <2>5 DEF s
<1>3. CASE gone[c] = "down" /\ gone' = [gone EXCEPT ![c] = "broken"] /\ toClient' = toClient
  BY <1>1, <1>3
<1> QED BY <1>2, <1>3 DEF Send

\* After a change of the options nobody is looking at.
LEMMA ShuffleKeeps ==
  ASSUME QuizInv, NEW c \in Clients, Shuffle(c), KeyInv'
  PROVE  QuizType' /\ \A d \in Clients : Session(d)'
<1>1. /\ Running(c) /\ at[c] = "shuffle"
      /\ \A d \in Clients : d # c => options'[d] = options[d] /\ correct'[d] = correct[d]
      /\ UNCHANGED <<fork_vars, at, i, score, toClient, toServer, gone, player, screen, right,
                     told, silent>>
  BY DEF Shuffle, QuizInv, QuizType, TypeOK
<1>2. QuizType'
  <2>1. /\ i' \in [Clients -> Questions] /\ step' \in [Clients -> Options]
        /\ options' \in [Clients -> [Options -> Options]] /\ correct' \in [Clients -> Options]
    BY DEF KeyInv, ShuffleType
  <2> QED BY <1>1, <2>1 DEF QuizInv, QuizType, TypeOK, ForkTypeOK, fork_vars
<1>3. child'[c] = child[c] /\ conn'[c] = conn[c]
  BY <1>1 DEF fork_vars
<1>4. Session(c)'
  <2> SUFFICES ASSUME player[c] \in {"start", "recv", "prompt"} PROVE Playing(c)'
    BY <1>1 DEF Session, QuizInv
  <2>1. Playing(c) /\ ~ Waiting(c) /\ ~ Over(c)
    BY <1>1 DEF QuizInv, Session, Waiting, Over, Running
  <2>2. ~ Waiting(c)' /\ ~ Over(c)'
    BY <1>1, <1>3 DEF Waiting, Over, Running
  <2>3. toServer[c] = <<>> /\ right[c] = score[c]
    BY <2>1 DEF Playing, Counted
  <2>4. \A p \in DOMAIN toClient[c] : toClient[c][p] = Verdict
    BY <2>1 DEF Playing, Underway
  <2>5. Counted(c)' /\ Underway(c)'
    BY <1>1, <2>3, <2>4 DEF Counted, Underway
  <2> QED BY <1>1, <1>3, <2>1, <2>2, <2>5 DEF Playing
<1>5. \A d \in Clients : d # c => UNCHANGED At(d)
  BY <1>1 DEF At, fork_vars
<1> QED BY <1>2, <1>4, <1>5, SessionsKeep

LEMMA AskKeeps ==
  ASSUME QuizInv, NEW c \in Clients, Ask(c)
  PROVE  QuizType' /\ \A d \in Clients : Session(d)'
<1>1. /\ Running(c) /\ at[c] = "shuffle" /\ at' = [at EXCEPT ![c] = "recv"]
      /\ Send(c, Asked(c))
      /\ UNCHANGED <<fork_vars, i, step, options, correct, score, toServer, player, screen, right,
                     told, silent>>
  BY DEF Ask, Asked
<1>2. /\ toClient' \in [Clients -> Seq(Messages)]
      /\ gone' \in [Clients -> {"up", "down", "broken"}]
      /\ \A d \in Clients : d # c => toClient'[d] = toClient[d] /\ gone'[d] = gone[d]
      /\ (gone[c] = "up" <=> gone'[c] = "up")
      /\ gone[c] = "up" =>
           /\ Len(toClient'[c]) = Len(toClient[c]) + 1
           /\ DOMAIN toClient'[c] = DOMAIN toClient[c] \cup {Len(toClient[c]) + 1}
           /\ \A p \in DOMAIN toClient[c] : toClient'[c][p] = toClient[c][p] /\ p < Len(toClient'[c])
           /\ toClient'[c][Len(toClient[c]) + 1] = Asked(c)
  BY <1>1, AskedType, SendTells
<1>3. QuizType'
  <2>1. at' \in [Clients -> {"shuffle", "recv", "score"}]
        /\ \A d \in Clients : at'[d] # "score" => at[d] # "score"
    BY <1>1 DEF QuizInv, QuizType, TypeOK
  <2>2. TypeOK'
    BY <1>1, <1>2, <2>1 DEF QuizInv, QuizType, TypeOK, ForkTypeOK, fork_vars
  <2>3. \A d \in Clients : at'[d] # "score" => score'[d] < i'[d]
    BY <1>1, <2>1 DEF QuizInv, QuizType
  <2> QED BY <1>1, <1>2, <2>2, <2>3 DEF QuizInv, QuizType
<1>4. child'[c] = child[c] /\ conn'[c] = conn[c] /\ at'[c] = "recv" /\ Asked(c)' = Asked(c)
  BY <1>1 DEF fork_vars, Asked, QuizInv, QuizType, TypeOK
<1>5. Session(c)'
  <2> SUFFICES ASSUME player[c] \in {"start", "recv", "prompt"} PROVE Playing(c)'
    BY <1>1 DEF Session, QuizInv
  <2>1. Playing(c) /\ ~ Waiting(c) /\ ~ Over(c)
    BY <1>1 DEF QuizInv, Session, Waiting, Over, Running
  <2>2. Waiting(c)' /\ ~ Over(c)'
    BY <1>1, <1>4 DEF Waiting, Over, Running
  <2>3. toServer[c] = <<>> /\ right[c] = score[c] /\ gone[c] = "up" /\ told[c] = -1
    BY <2>1 DEF Playing, Counted
  <2>4. \A p \in DOMAIN toClient[c] : toClient[c][p] = Verdict
    BY <2>1 DEF Playing, Underway
  <2>5. player[c] = "recv"
    <3>1. player[c] # "start"
      BY <1>1, <2>1 DEF Playing, QuizInv, ForkInv, Running
    <3> QED BY <2>1, <3>1 DEF Playing
  <2>6. Counted(c)' /\ Underway(c)'
    BY <1>1, <1>2, <1>4, <2>2, <2>3, <2>4, <2>5 DEF Counted, Underway
  <2> QED BY <1>1, <1>2, <1>4, <2>3, <2>5, <2>6 DEF Playing
<1>6. \A d \in Clients : d # c => UNCHANGED At(d)
  BY <1>1, <1>2 DEF At, fork_vars, QuizInv, QuizType, TypeOK
<1> QED BY <1>3, <1>5, <1>6, SessionsKeep

\* A message may be anything here: what matters is that it is sent last.
Sent(c, m) ==
  /\ toClient' \in [Clients -> Seq(Messages)]
  /\ gone' \in [Clients -> {"up", "down", "broken"}]
  /\ \A d \in Clients : d # c => toClient'[d] = toClient[d] /\ gone'[d] = gone[d]
  /\ (gone[c] = "up" <=> gone'[c] = "up")
  /\ gone[c] = "up" =>
       \A p \in DOMAIN toClient'[c] :
         toClient'[c][p] = m \/ (p \in DOMAIN toClient[c] /\ toClient'[c][p] = toClient[c][p])

LEMMA SendSends ==
  ASSUME QuizInv, NEW c \in Clients, NEW m \in Messages, Send(c, m)
  PROVE  Sent(c, m)
BY SendTells DEF Sent

\* The points and the question of a child that has read an answer.
LEMMA JudgeTypes ==
  ASSUME QuizInv, NEW c \in Clients, Judge(c)
  PROVE  /\ toServer' = [toServer EXCEPT ![c] = <<>>] /\ Sent(c, Verdict)
         /\ score' \in [Clients -> 0 .. NumQuestions]
         /\ score'[c] = IF Head(toServer[c]) = correct[c] THEN score[c] + 1 ELSE score[c]
         /\ at' \in [Clients -> {"shuffle", "recv", "score"}] /\ at'[c] \in {"shuffle", "score"}
         /\ at'[c] # "score" => score'[c] < i'[c]
         /\ \A d \in Clients : d # c =>
              /\ score'[d] = score[d] /\ at'[d] = at[d] /\ i'[d] = i[d]
              /\ options'[d] = options[d] /\ correct'[d] = correct[d]
         /\ UNCHANGED <<fork_vars, player, screen, right, told, silent>>
<1>t. /\ score \in [Clients -> 0 .. NumQuestions] /\ i \in [Clients -> Questions]
      /\ at \in [Clients -> {"shuffle", "recv", "score"}] /\ score[c] < i[c]
      /\ options \in [Clients -> [Options -> Options]] /\ correct \in [Clients -> Options]
  BY DEF QuizInv, QuizType, TypeOK, Judge
<1>1. /\ toServer' = [toServer EXCEPT ![c] = <<>>] /\ Send(c, Verdict) /\ NextQuestion(c)
      /\ score' = [score EXCEPT ![c] = IF Head(toServer[c]) = correct[c] THEN @ + 1 ELSE @]
      /\ UNCHANGED <<fork_vars, player, screen, right, told, silent>>
  BY DEF Judge
<1>2. Sent(c, Verdict)
  BY <1>1, Kinds, SendSends
<1>3. /\ score'[c] \in {score[c], score[c] + 1}
      /\ score'[c] = IF Head(toServer[c]) = correct[c] THEN score[c] + 1 ELSE score[c]
      /\ \A d \in Clients : d # c => score'[d] = score[d]
  BY <1>t, <1>1
<1>4. score'[c] \in 0 .. NumQuestions /\ score'[c] <= i[c] /\ score'[c] \in Nat
  BY <1>t, <1>3, QuestionsAssumption DEF Questions
<1>5. score' \in [Clients -> 0 .. NumQuestions]
  BY <1>t, <1>1, <1>3, <1>4
<1>6. CASE i[c] < NumQuestions
  <2>1. /\ i' = [i EXCEPT ![c] = @ + 1] /\ at' = [at EXCEPT ![c] = "shuffle"]
        /\ options' = [options EXCEPT ![c] = Original]
        /\ correct' = [correct EXCEPT ![c] = Key[i[c] + 1]]
    BY <1>1, <1>6 DEF NextQuestion
  <2>2. i[c] \in Nat /\ i'[c] = i[c] + 1
    BY <1>t, <2>1 DEF Questions
  <2>3. score'[c] < i'[c]
    BY <1>4, <2>2
  <2> QED BY <1>t, <1>1, <1>2, <1>3, <1>5, <2>1, <2>3
<1>7. CASE ~ (i[c] < NumQuestions)
  <2>1. at' = [at EXCEPT ![c] = "score"] /\ UNCHANGED <<i, options, correct, step>>
    BY <1>1, <1>7 DEF NextQuestion
  <2> QED BY <1>t, <1>1, <1>2, <1>3, <1>5, <2>1
<1> QED BY <1>6, <1>7

LEMMA JudgeKeeps ==
  ASSUME QuizInv, NEW c \in Clients, Judge(c), KeyInv'
  PROVE  QuizType' /\ \A d \in Clients : Session(d)'
<1>1. /\ toServer' = [toServer EXCEPT ![c] = <<>>] /\ Sent(c, Verdict)
      /\ score' \in [Clients -> 0 .. NumQuestions]
      /\ score'[c] = IF Head(toServer[c]) = correct[c] THEN score[c] + 1 ELSE score[c]
      /\ at' \in [Clients -> {"shuffle", "recv", "score"}] /\ at'[c] \in {"shuffle", "score"}
      /\ at'[c] # "score" => score'[c] < i'[c]
      /\ \A d \in Clients : d # c =>
           /\ score'[d] = score[d] /\ at'[d] = at[d] /\ i'[d] = i[d]
           /\ options'[d] = options[d] /\ correct'[d] = correct[d]
      /\ UNCHANGED <<fork_vars, player, screen, right, told, silent>>
  BY JudgeTypes
<1>2. Waiting(c) /\ toServer[c] # <<>> /\ toServer[c] \in Seq(Answers)
  BY DEF Judge, Waiting, QuizInv, QuizType, TypeOK
<1>3. QuizType'
  <2>1. /\ i' \in [Clients -> Questions] /\ step' \in [Clients -> Options]
        /\ options' \in [Clients -> [Options -> Options]] /\ correct' \in [Clients -> Options]
    BY DEF KeyInv, ShuffleType
  <2>2. /\ toServer' \in [Clients -> Seq(Answers)]
        /\ gone' \in [Clients -> {"up", "down", "broken"}]
        /\ toClient' \in [Clients -> Seq(Messages)]
    <3>1. <<>> \in Seq(Answers)
      BY EmptySeq
    <3> QED BY <1>1, <3>1 DEF Sent, QuizInv, QuizType, TypeOK
  <2>3. ForkTypeOK' /\ UNCHANGED <<player, screen, right, told, silent>>
    BY <1>1 DEF QuizInv, QuizType, TypeOK, ForkTypeOK, fork_vars
  <2>4. TypeOK'
    BY <1>1, <2>1, <2>2, <2>3 DEF QuizInv, QuizType, TypeOK
  <2>5. ASSUME NEW d \in Clients, at'[d] # "score" PROVE score'[d] < i'[d]
    <3>1. CASE d = c
      BY <1>1, <2>5, <3>1
    <3>2. CASE d # c
      <4>1. score'[d] = score[d] /\ at'[d] = at[d] /\ i'[d] = i[d]
        BY <1>1, <3>2
      <4>2. score[d] < i[d]
        BY <2>5, <4>1 DEF QuizInv, QuizType
      <4> QED BY <4>1, <4>2
    <3> QED BY <3>1, <3>2
  <2> QED BY <2>2, <2>3, <2>4, <2>5 DEF QuizInv, QuizType
<1>4. Session(c)'
  <2> SUFFICES ASSUME player[c] \in {"start", "recv", "prompt"} PROVE Playing(c)'
    BY <1>1 DEF Session, QuizInv
  <2>1. Playing(c)
    BY DEF QuizInv, Session
  <2>2. player[c] = "recv" /\ ~ Over(c) /\ gone[c] = "up" /\ told[c] = -1
    BY <1>2, <2>1 DEF Playing, Counted, Waiting, Running, Over
  <2>3. PICK a \in Answers : /\ toServer[c] = <<a>>
                             /\ right[c] = IF a = correct[c] THEN score[c] + 1 ELSE score[c]
    BY <1>2, <2>1 DEF Playing, Counted
  <2>4. toServer'[c] = <<>> /\ right'[c] = score'[c]
    <3>1. Head(toServer[c]) = a
      BY <2>3
    <3>2. toServer'[c] = <<>>
      BY <1>1 DEF QuizInv, QuizType, TypeOK
    <3> QED BY <1>1, <2>3, <3>1, <3>2
  <2>5. \A p \in DOMAIN toClient[c] : toClient[c][p] = Verdict
    BY <1>2, <2>1, <2>2 DEF Playing, Underway
  <2>6. \A p \in DOMAIN toClient'[c] : toClient'[c][p] = Verdict
    BY <1>1, <2>2, <2>5 DEF Sent
  <2>7. Counted(c)' /\ Underway(c)'
    BY <2>4, <2>6 DEF Counted, Underway
  <2> QED BY <1>1, <2>2, <2>7 DEF Playing, Sent
<1>5. \A d \in Clients : d # c => UNCHANGED At(d)
  BY <1>1 DEF At, Sent, fork_vars, QuizInv, QuizType, TypeOK
<1> QED BY <1>3, <1>4, <1>5, SessionsKeep

LEMMA FinishKeeps ==
  ASSUME QuizInv, NEW c \in Clients, Finish(c)
  PROVE  QuizType' /\ \A d \in Clients : Session(d)'
<1>1. /\ Running(c) /\ at[c] = "score" /\ child' = [child EXCEPT ![c] = "zombie"]
      /\ Send(c, Score(score[c])) /\ ChildExit(c) /\ UNCHANGED <<conn, parent, connfd, handling>>
      /\ UNCHANGED <<at, i, step, options, correct, score, toServer, player, screen, right, told,
                     silent>>
  BY DEF Finish, ChildExit
<1>2. Sent(c, Score(score[c]))
  BY <1>1, AskedType, SendSends
<1>3. QuizType'
  <2>1. ForkTypeOK'
    BY <1>1 DEF QuizInv, QuizType, TypeOK, ForkTypeOK, ChildExit
  <2>2. TypeOK'
    BY <1>1, <1>2, <2>1 DEF QuizInv, QuizType, TypeOK, Sent
  <2> QED BY <1>1, <1>2, <2>2 DEF QuizInv, QuizType, Sent
<1>4. child'[c] = "zombie" /\ \A d \in Clients : d # c => child'[d] = child[d]
  BY <1>1 DEF QuizInv, QuizType, TypeOK, ForkTypeOK
<1>5. Session(c)'
  <2> SUFFICES ASSUME player[c] \in {"start", "recv", "prompt"} PROVE Playing(c)'
    BY <1>1 DEF Session, QuizInv
  <2>1. Playing(c) /\ ~ Waiting(c) /\ ~ Over(c)
    BY <1>1 DEF QuizInv, Session, Waiting, Over, Running
  <2>2. Over(c)'
    BY <1>4 DEF Over
  <2>3. toServer[c] = <<>> /\ right[c] = score[c] /\ gone[c] = "up"
    BY <2>1 DEF Playing, Counted
  <2>4. \A p \in DOMAIN toClient[c] : toClient[c][p] = Verdict
    BY <2>1 DEF Playing, Underway
  <2>5. \A p \in DOMAIN toClient'[c] : toClient'[c][p] = Verdict \/ toClient'[c][p] = Score(score[c])
    BY <1>2, <2>3, <2>4 DEF Sent
  <2>6. Counted(c)' /\ Underway(c)'
    BY <1>1, <2>2, <2>3, <2>5 DEF Counted, Underway, Score
  <2>7. player[c] # "start" /\ player[c] # "prompt"
    BY <1>1, <2>1 DEF Playing, QuizInv, ForkInv, Running
  <2> QED BY <1>1, <1>2, <2>2, <2>3, <2>6, <2>7 DEF Playing, Sent
<1>6. \A d \in Clients : d # c => UNCHANGED At(d)
  BY <1>1, <1>2, <1>4 DEF At, Sent
<1> QED BY <1>3, <1>5, <1>6, SessionsKeep

\* Children whose players have left.
LEMMA DepartedKeeps ==
  ASSUME QuizInv, NEW c \in Clients, Break(c) \/ Killed(c)
  PROVE  QuizType' /\ \A d \in Clients : Session(d)'
<1>t. TypeOK /\ ForkTypeOK
  BY DEF QuizInv, QuizType, TypeOK
<1>1. /\ gone[c] # "up"
      /\ UNCHANGED <<conn, i, step, options, correct, score, toClient, toServer, gone, player,
                     screen, right, told, silent>>
  BY DEF Break, Killed, ChildExit, fork_vars, quiz_vars
<1>2. /\ ForkTypeOK'
      /\ at' \in [Clients -> {"shuffle", "recv", "score"}]
      /\ \A d \in Clients : /\ at'[d] # "score" => at[d] # "score"
                            /\ d # c => at'[d] = at[d] /\ child'[d] = child[d]
  <2>1. CASE Break(c)
    <3>1. at' = [at EXCEPT ![c] = "score"] /\ UNCHANGED fork_vars
      BY <2>1 DEF Break
    <3>2. ForkTypeOK'
      BY <1>t, <3>1 DEF ForkTypeOK, fork_vars
    <3> QED BY <1>t, <3>1, <3>2 DEF TypeOK, fork_vars
  <2>2. CASE Killed(c)
    <3>1. ChildExit(c) /\ UNCHANGED at
      BY <2>2 DEF Killed, quiz_vars
    <3>2. ForkTypeOK'
      BY <1>t, <3>1 DEF ForkTypeOK, ChildExit
    <3>3. \A d \in Clients : d # c => child'[d] = child[d]
      BY <1>t, <3>1 DEF ForkTypeOK, ChildExit
    <3> QED BY <1>t, <3>1, <3>2, <3>3 DEF TypeOK
  <2> QED BY <2>1, <2>2
<1>3. QuizType'
  <2>1. TypeOK'
    BY <1>t, <1>1, <1>2 DEF TypeOK
  <2> QED BY <1>1, <1>2, <2>1 DEF QuizInv, QuizType
<1>4. Session(c)'
  <2>1. player[c] \notin {"start", "recv", "prompt"}
    BY <1>1 DEF QuizInv, Session, Playing
  <2> QED BY <1>1, <2>1 DEF QuizInv, Session
<1>5. \A d \in Clients : d # c => UNCHANGED At(d)
  BY <1>1, <1>2 DEF At
<1> QED BY <1>3, <1>4, <1>5, SessionsKeep

\* What is left when the first k messages have been received.
LEMMA RestOfMessages ==
  ASSUME NEW s \in Seq(Messages), NEW k \in DOMAIN s
  PROVE  /\ SubSeq(s, k + 1, Len(s)) \in Seq(Messages)
         /\ DOMAIN s = 1 .. Len(s) /\ Len(s) \in Nat /\ k \in Int
         /\ Len(SubSeq(s, k + 1, Len(s))) = Len(s) - k
         /\ \A p \in DOMAIN SubSeq(s, k + 1, Len(s)) :
              /\ p \in Int /\ p + k \in DOMAIN s
              /\ SubSeq(s, k + 1, Len(s))[p] = s[p + k]
<1> DEFINE t == SubSeq(s, k + 1, Len(s))
<1>1. DOMAIN s = 1 .. Len(s) /\ Len(s) \in Nat /\ k \in 1 .. Len(s)
  BY LenProperties
<1>2. k + 1 \in 1 .. Len(s) + 1 /\ Len(s) \in 0 .. Len(s) /\ k + 1 \in Int
  BY <1>1
<1>3. t \in Seq(Messages)
  <2>1. \A j \in k + 1 .. Len(s) : s[j] \in Messages
    BY <1>1
  <2> QED BY <1>1, <1>2, <2>1, SubSeqProperties
<1>4. /\ Len(t) = IF k + 1 <= Len(s) THEN Len(s) - (k + 1) + 1 ELSE 0
      /\ \A j \in 1 .. Len(s) - (k + 1) + 1 : t[j] = s[k + 1 + j - 1]
  BY <1>1, <1>2, SubSeqProperties
<1> HIDE DEF t
<1>5. Len(t) = Len(s) - k /\ DOMAIN t = 1 .. Len(t)
  BY <1>1, <1>3, <1>4, LenProperties
<1>6. ASSUME NEW p \in DOMAIN t PROVE p \in Int /\ p + k \in DOMAIN s /\ t[p] = s[p + k]
  <2>1. p \in 1 .. Len(s) - (k + 1) + 1 /\ k + 1 + p - 1 = p + k
    BY <1>1, <1>5
  <2> QED BY <1>1, <1>4, <1>5, <2>1
<1> QED BY <1>1, <1>3, <1>5, <1>6 DEF t

\* A player waiting for a message, and what it may be.
LEMMA MessageIs ==
  ASSUME QuizInv, NEW c \in Clients, player[c] = "recv", NEW p \in DOMAIN toClient[c]
  PROVE  /\ toClient[c][p].kind = "question" =>
              /\ toClient[c][p] = Asked(c) /\ p = Len(toClient[c])
              /\ Waiting(c) /\ toServer[c] = <<>>
         /\ toClient[c][p].kind = "score" => toClient[c][p].points = score[c] /\ Over(c)
<1>1. Underway(c)
  BY DEF QuizInv, Session, Playing
<1>2. CASE toClient[c][p] = Verdict
  BY <1>2, Kinds
<1>3. CASE /\ toClient[c][p] = Asked(c) /\ p = Len(toClient[c])
           /\ player[c] = "recv" /\ Waiting(c) /\ toServer[c] = <<>>
  BY <1>3, Kinds DEF Asked
<1>4. CASE toClient[c][p] = Score(score[c]) /\ Over(c)
  BY <1>4, Kinds
<1> QED BY <1>1, <1>2, <1>3, <1>4 DEF Underway

\* However many messages a recv() returns: the last question is the one the
\* child waits for, nothing follows it, and a score is final.
LEMMA ReceiveKeeps ==
  ASSUME QuizInv, NEW c \in Clients, Receive(c)
  PROVE  QuizType' /\ \A d \in Clients : Session(d)'
<1> DEFINE s == toClient[c]
<1>t. /\ TypeOK /\ toClient \in [Clients -> Seq(Messages)] /\ s \in Seq(Messages)
      /\ screen \in [Clients -> Screens]
      /\ score[c] \in 0 .. NumQuestions /\ player \in [Clients -> {"start", "recv", "prompt", "done", "left"}]
      /\ told \in [Clients -> -1 .. NumQuestions]
  BY DEF QuizInv, QuizType, TypeOK
<1>1. /\ player[c] = "recv"
      /\ UNCHANGED <<fork_vars, at, i, step, options, correct, score, toServer, gone, right, silent>>
  BY DEF Receive
<1>2. PICK k \in DOMAIN s :
        /\ toClient' = [toClient EXCEPT ![c] = SubSeq(@, k + 1, Len(@))]
        /\ \/ UNCHANGED <<player, screen>>
           \/ \E q \in {s[j] : j \in 1 .. k} :
                /\ q.kind = "question"
                /\ player' = [player EXCEPT ![c] = "prompt"]
                /\ screen' = [screen EXCEPT ![c] = q]
        /\ \/ UNCHANGED told
           \/ \E m \in {s[j] : j \in 1 .. k} :
                /\ m.kind = "score"
                /\ told' = [told EXCEPT ![c] = m.points]
  BY Zenon DEF Receive
<1> DEFINE t == SubSeq(s, k + 1, Len(s))
<1>3. /\ t \in Seq(Messages) /\ DOMAIN s = 1 .. Len(s) /\ Len(s) \in Nat /\ k \in Int
      /\ Len(t) = Len(s) - k
      /\ \A p \in DOMAIN t : p \in Int /\ p + k \in DOMAIN s /\ t[p] = s[p + k]
  BY <1>t, RestOfMessages
<1>4. \A j \in 1 .. k : j \in DOMAIN s
  BY <1>3
<1>5. \A j \in DOMAIN s :
        /\ s[j].kind = "question" => s[j] = Asked(c) /\ j = Len(s) /\ Waiting(c) /\ toServer[c] = <<>>
        /\ s[j].kind = "score" => s[j].points = score[c] /\ Over(c)
  BY <1>1, MessageIs
<1>6. toClient'[c] = t /\ toClient' \in [Clients -> Seq(Messages)]
      /\ \A d \in Clients : d # c => toClient'[d] = toClient[d]
  <2>1. toClient' = [toClient EXCEPT ![c] = t]
    BY <1>t, <1>2
  <2> HIDE DEF t
  <2> QED BY <1>t, <1>3, <2>1
<1> HIDE DEF t, s
<1>7. told' = told \/ (told' = [told EXCEPT ![c] = score[c]] /\ Over(c))
  BY <1>2, <1>4, <1>5
<1>8. \/ UNCHANGED <<player, screen>>
      \/ /\ player' = [player EXCEPT ![c] = "prompt"] /\ screen' = [screen EXCEPT ![c] = Asked(c)]
         /\ Waiting(c) /\ toServer[c] = <<>> /\ DOMAIN t = {}
  <2>1. ASSUME NEW j \in 1 .. k, s[j].kind = "question"
        PROVE  s[j] = Asked(c) /\ Waiting(c) /\ toServer[c] = <<>> /\ DOMAIN t = {}
    <3>1. s[j] = Asked(c) /\ j = Len(s) /\ Waiting(c) /\ toServer[c] = <<>>
      BY <1>4, <1>5, <2>1
    <3>2. k = Len(s)
      BY <1>3, <3>1
    <3>3. \A p \in DOMAIN t : p \in Int /\ p + k \in 1 .. k /\ p >= 1
      BY <1>3, <3>2, LenProperties
    <3>4. \A p \in DOMAIN t : FALSE
      BY <1>3, <3>3
    <3> QED BY <3>1, <3>4
  <2> QED BY <1>2, <2>1
<1>9. told' \in [Clients -> -1 .. NumQuestions] /\ \A d \in Clients : d # c => told'[d] = told[d]
  BY <1>t, <1>7
<1>10. /\ player' \in [Clients -> {"start", "recv", "prompt", "done", "left"}]
       /\ screen' \in [Clients -> Screens]
       /\ \A d \in Clients : d # c => player'[d] = player[d] /\ screen'[d] = screen[d]
  <2>1. Asked(c) \in Screens
    <3>1. i[c] \in 0 .. NumQuestions /\ options[c] \in [Options -> Options]
      BY <1>t DEF TypeOK, Questions
    <3> QED BY <3>1 DEF Asked, Screens
  <2>2. CASE UNCHANGED <<player, screen>>
    BY <1>t, <2>2
  <2>3. CASE player' = [player EXCEPT ![c] = "prompt"] /\ screen' = [screen EXCEPT ![c] = Asked(c)]
    BY <1>t, <2>1, <2>3
  <2> QED BY <1>8, <2>2, <2>3
<1>11. QuizType'
  <2>1. ForkTypeOK'
    BY <1>t, <1>1 DEF TypeOK, ForkTypeOK, fork_vars
  <2>2. TypeOK'
    BY <1>t, <1>1, <1>9, <1>10, <2>1 DEF TypeOK
  <2>3. \A d \in Clients : at'[d] # "score" => score'[d] < i'[d]
    BY <1>1 DEF QuizInv, QuizType
  <2> QED BY <1>6, <1>10, <2>2, <2>3 DEF QuizType
<1>12. Session(c)'
  <2>0. /\ child'[c] = child[c] /\ conn'[c] = conn[c] /\ at'[c] = at[c]
        /\ (Waiting(c)' <=> Waiting(c)) /\ (Over(c)' <=> Over(c)) /\ Asked(c)' = Asked(c)
    BY <1>1 DEF fork_vars, Waiting, Over, Running, Asked, Question
  <2>1. Playing(c) /\ gone[c] = "up" /\ Counted(c) /\ Underway(c)
    BY <1>1 DEF QuizInv, Session, Playing
  <2>2. told'[c] # -1 => told'[c] = right[c] /\ Over(c)
    <3>1. Over(c) => right[c] = score[c]
      BY <2>1 DEF Counted, Waiting, Over, Running
    <3>2. told[c] # -1 => told[c] = right[c] /\ Over(c)
      BY <1>1, <2>1 DEF QuizInv, Session, Playing
    <3> QED BY <1>t, <1>7, <3>1, <3>2
  <2>3. player'[c] \in {"recv", "prompt"} /\ (player'[c] = "recv" => UNCHANGED <<player, screen>>)
        /\ (player'[c] = "prompt" => Waiting(c) /\ toServer[c] = <<>> /\ screen'[c] = Asked(c) /\ DOMAIN t = {})
    BY <1>t, <1>1, <1>8
  <2>4. Counted(c)'
    <3>1. CASE toServer[c] = <<>>
      BY <1>1, <2>1, <3>1 DEF Counted
    <3>2. CASE toServer[c] # <<>>
      BY <1>1, <2>0, <2>1, <2>3, <3>2 DEF Counted
    <3> QED BY <3>1, <3>2
  <2>5. Underway(c)'
    <3> SUFFICES ASSUME NEW p \in DOMAIN t
                 PROVE  \/ t[p] = Verdict
                        \/ /\ t[p] = Asked(c) /\ p = Len(t)
                           /\ player'[c] = "recv" /\ Waiting(c) /\ toServer[c] = <<>>
                        \/ t[p] = Score(score[c]) /\ Over(c)
      BY <1>1, <1>6, <2>0 DEF Underway, Score
    <3>1. player'[c] = "recv"
      BY <2>3
    <3>2. t[p] = s[p + k] /\ p + k \in DOMAIN s /\ p \in Int
      BY <1>3
    <3>3. p + k = Len(s) => p = Len(t)
      BY <1>3, <3>2
    <3> QED BY <2>1, <3>1, <3>2, <3>3 DEF Underway, s
  <2> QED BY <1>1, <2>0, <2>1, <2>2, <2>3, <2>4, <2>5 DEF Session, Playing
<1>13. \A d \in Clients : d # c => UNCHANGED At(d)
  BY <1>1, <1>6, <1>9, <1>10 DEF At, fork_vars
<1> QED BY <1>11, <1>12, <1>13, SessionsKeep

\* An answer is right exactly when it is the place of the right option.
LEMMA RightAnswer ==
  ASSUME QuizInv, NEW c \in Clients, NEW a \in Answers
  PROVE  (a \in Options /\ options[c][a] = Key[i[c]]) <=> a = correct[c]
BY DEF QuizInv, KeyInv, KeyFollows, ShuffleType

\* A step that changes only the player's side of a session.
LEMMA PlayerFrame ==
  ASSUME QuizInv, NEW c \in Clients,
         UNCHANGED <<fork_vars, at, i, options, correct, score>>
  PROVE  /\ child'[c] = child[c] /\ conn'[c] = conn[c] /\ (Waiting(c)' <=> Waiting(c))
         /\ (Over(c)' <=> Over(c)) /\ Asked(c)' = Asked(c) /\ Score(score[c])' = Score(score[c])
         /\ \A d \in Clients : at'[d] # "score" => score'[d] < i'[d]
         /\ ForkTypeOK'
<1>1. ForkTypeOK'
  BY DEF QuizInv, QuizType, TypeOK, ForkTypeOK, fork_vars
<1> QED BY <1>1 DEF fork_vars, Waiting, Over, Running, Asked, Question, Score, QuizInv, QuizType

LEMMA AnswerKeeps ==
  ASSUME QuizInv, NEW c \in Clients, NEW a \in Answers, Answer(c, a)
  PROVE  QuizType' /\ \A d \in Clients : Session(d)'
<1>t. /\ TypeOK /\ score[c] \in 0 .. NumQuestions /\ i[c] \in 1 .. NumQuestions /\ NumQuestions \in Nat
      /\ at[c] # "score" => score[c] < i[c]
  BY QuestionsAssumption DEF QuizInv, QuizType, TypeOK, Questions
<1>1. /\ player[c] = "prompt" /\ player' = [player EXCEPT ![c] = "recv"]
      /\ toServer' = [toServer EXCEPT ![c] = Append(@, a)]
      /\ right' = [right EXCEPT ![c] =
           IF a \in Options /\ screen[c].options[a] = Key[screen[c].number] THEN @ + 1 ELSE @]
      /\ UNCHANGED <<fork_vars, at, i, options, correct, score>>
      /\ UNCHANGED <<step, toClient, gone, screen, told, silent>>
  BY DEF Answer
<1>2. /\ Playing(c) /\ Waiting(c) /\ ~ Over(c) /\ toServer[c] = <<>> /\ screen[c] = Asked(c)
      /\ right[c] = score[c] /\ told[c] = -1
  BY <1>1 DEF QuizInv, Session, Playing, Counted, Waiting, Over, Running
<1>3. toServer'[c] = <<a>> /\ toServer'[c] # <<>>
  BY <1>t, <1>1, <1>2 DEF TypeOK
<1>4. right'[c] = IF a = correct[c] THEN score[c] + 1 ELSE score[c]
  <2>1. screen[c].options = options[c] /\ screen[c].number = i[c]
    BY <1>2 DEF Asked, Question
  <2> QED BY <1>t, <1>1, <1>2, <2>1, RightAnswer DEF TypeOK
<1>5. right'[c] \in 0 .. NumQuestions
  <2>1. score[c] < i[c]
    BY <1>t, <1>2 DEF Waiting
  <2> QED BY <1>t, <1>4, <2>1
<1>6. /\ player' \in [Clients -> {"start", "recv", "prompt", "done", "left"}] /\ player'[c] = "recv"
      /\ toServer' \in [Clients -> Seq(Answers)]
      /\ right' \in [Clients -> 0 .. NumQuestions]
      /\ \A d \in Clients : d # c =>
           player'[d] = player[d] /\ toServer'[d] = toServer[d] /\ right'[d] = right[d]
  <2>1. Append(toServer[c], a) \in Seq(Answers)
    BY <1>t, AppendProperties DEF TypeOK
  <2> QED BY <1>t, <1>1, <1>5, <2>1 DEF TypeOK
<1>7. /\ child'[c] = child[c] /\ conn'[c] = conn[c] /\ (Waiting(c)' <=> Waiting(c))
      /\ (Over(c)' <=> Over(c)) /\ Asked(c)' = Asked(c)
      /\ \A d \in Clients : at'[d] # "score" => score'[d] < i'[d]
      /\ ForkTypeOK'
  BY <1>1, PlayerFrame
<1>8. QuizType'
  <2>1. TypeOK'
    BY <1>t, <1>1, <1>6, <1>7 DEF TypeOK
  <2> QED BY <1>1, <1>7, <2>1 DEF QuizInv, QuizType
<1>9. Session(c)'
  <2>1. \A p \in DOMAIN toClient[c] : toClient[c][p] = Verdict
    BY <1>1, <1>2 DEF Playing, Underway
  <2>2. Underway(c)'
    BY <1>1, <2>1 DEF Underway
  <2>3. Counted(c)'
    BY <1>1, <1>2, <1>3, <1>4, <1>6, <1>7 DEF Counted
  <2> QED BY <1>1, <1>2, <1>6, <2>2, <2>3 DEF Session, Playing
<1>10. \A d \in Clients : d # c => UNCHANGED At(d)
  BY <1>1, <1>6 DEF At, fork_vars
<1> QED BY <1>8, <1>9, <1>10, SessionsKeep

\* A player who says nothing waits for the next message, the child for an
\* answer.
LEMMA AnswerNothingKeeps ==
  ASSUME QuizInv, NEW c \in Clients, AnswerNothing(c)
  PROVE  QuizType' /\ \A d \in Clients : Session(d)'
<1>1. /\ player[c] = "prompt" /\ player' = [player EXCEPT ![c] = "recv"]
      /\ silent' = [silent EXCEPT ![c] = TRUE]
      /\ UNCHANGED <<fork_vars, at, i, options, correct, score>>
      /\ UNCHANGED <<step, toClient, toServer, gone, screen, right, told>>
  BY DEF AnswerNothing
<1>2. /\ Playing(c) /\ Waiting(c) /\ ~ Over(c) /\ toServer[c] = <<>>
      /\ right[c] = score[c] /\ told[c] = -1
  BY <1>1 DEF QuizInv, Session, Playing, Counted, Waiting, Over, Running
<1>3. /\ player' \in [Clients -> {"start", "recv", "prompt", "done", "left"}] /\ player'[c] = "recv"
      /\ silent' \in [Clients -> BOOLEAN]
      /\ \A d \in Clients : d # c => player'[d] = player[d]
  BY <1>1 DEF QuizInv, QuizType, TypeOK
<1>4. /\ \A d \in Clients : at'[d] # "score" => score'[d] < i'[d]
      /\ ForkTypeOK'
  BY <1>1, PlayerFrame
<1>5. QuizType'
  <2>1. TypeOK'
    BY <1>1, <1>3, <1>4 DEF QuizInv, QuizType, TypeOK
  <2> QED BY <1>1, <1>4, <2>1 DEF QuizInv, QuizType
<1>6. Session(c)'
  <2>1. \A p \in DOMAIN toClient[c] : toClient[c][p] = Verdict
    BY <1>1, <1>2 DEF Playing, Underway
  <2>2. Underway(c)' /\ Counted(c)'
    BY <1>1, <1>2, <2>1 DEF Underway, Counted
  <2> QED BY <1>1, <1>2, <1>3, <2>2 DEF Session, Playing
<1>7. \A d \in Clients : d # c => UNCHANGED At(d)
  BY <1>1, <1>3 DEF At, fork_vars
<1> QED BY <1>5, <1>6, <1>7, SessionsKeep

\* A player whose session ends.
LEMMA PlayerEndKeeps ==
  ASSUME QuizInv, NEW c \in Clients, EndOfFile(c) \/ Leave(c)
  PROVE  QuizType' /\ \A d \in Clients : Session(d)'
<1>1. /\ UNCHANGED <<fork_vars, at, i, options, correct, score>>
      /\ UNCHANGED <<step, toServer, screen, right, told, silent>>
  BY DEF EndOfFile, Leave
<1>2. /\ player' \in [Clients -> {"start", "recv", "prompt", "done", "left"}]
      /\ player'[c] \in {"done", "left"}
      /\ gone' \in [Clients -> {"up", "down", "broken"}]
      /\ toClient' \in [Clients -> Seq(Messages)]
      /\ \A d \in Clients : d # c =>
           player'[d] = player[d] /\ gone'[d] = gone[d] /\ toClient'[d] = toClient[d]
  <2>1. CASE EndOfFile(c)
    BY <2>1 DEF EndOfFile, QuizInv, QuizType, TypeOK
  <2>2. CASE Leave(c)
    <3>1. <<>> \in Seq(Messages)
      BY EmptySeq
    <3> QED BY <2>2, <3>1 DEF Leave, QuizInv, QuizType, TypeOK
  <2> QED BY <2>1, <2>2
<1>3. /\ \A d \in Clients : at'[d] # "score" => score'[d] < i'[d]
      /\ ForkTypeOK'
  BY <1>1, PlayerFrame
<1>4. QuizType'
  <2>1. TypeOK'
    BY <1>1, <1>2, <1>3 DEF QuizInv, QuizType, TypeOK
  <2> QED BY <1>1, <1>2, <1>3, <2>1 DEF QuizInv, QuizType
<1>5. Session(c)'
  BY <1>1, <1>2 DEF QuizInv, Session
<1>6. \A d \in Clients : d # c => UNCHANGED At(d)
  BY <1>1, <1>2 DEF At, fork_vars
<1> QED BY <1>4, <1>5, <1>6, SessionsKeep

LEMMA StartKeeps ==
  ASSUME QuizInv, NEW c \in Clients, Start(c), ForkInv'
  PROVE  QuizType' /\ \A d \in Clients : Session(d)'
<1>1. /\ player[c] = "start" /\ player' = [player EXCEPT ![c] = "recv"]
      /\ UNCHANGED <<child, at, i, options, correct, score>>
      /\ UNCHANGED <<step, toClient, toServer, gone, screen, right, told, silent>>
  BY DEF Start, Connect
<1>2. \A d \in Clients : d # c => conn'[d] = conn[d]
  BY DEF Start, Connect, QuizInv, QuizType, TypeOK, ForkTypeOK
<1>3. /\ player' \in [Clients -> {"start", "recv", "prompt", "done", "left"}] /\ player'[c] = "recv"
      /\ \A d \in Clients : d # c => player'[d] = player[d]
  BY <1>1 DEF QuizInv, QuizType, TypeOK
<1>4. QuizType'
  <2>1. TypeOK'
    BY <1>1, <1>3 DEF QuizInv, QuizType, TypeOK, ForkInv
  <2>2. \A d \in Clients : at'[d] # "score" => score'[d] < i'[d]
    BY <1>1 DEF QuizInv, QuizType
  <2> QED BY <1>1, <2>1, <2>2 DEF QuizInv, QuizType
<1>5. Session(c)'
  <2>1. Playing(c) /\ gone[c] = "up"
    BY <1>1 DEF QuizInv, Session, Playing
  <2>2. toServer[c] = <<>> /\ right[c] = score[c]
    BY <1>1, <2>1 DEF Playing, Counted
  <2>3. \A p \in DOMAIN toClient[c] :
          toClient[c][p] = Verdict \/ (toClient[c][p] = Score(score[c]) /\ Over(c))
    BY <1>1, <2>1 DEF Playing, Underway
  <2>4. (Over(c)' <=> Over(c)) /\ Score(score[c])' = Score(score[c])
    BY <1>1 DEF Over, Score
  <2>5. Underway(c)' /\ Counted(c)'
    BY <1>1, <2>2, <2>3, <2>4 DEF Underway, Counted
  <2>6. told[c] # -1 => told[c] = right[c] /\ Over(c)
    BY <1>1, <2>1 DEF QuizInv, Session, Playing
  <2> QED BY <1>1, <1>3, <2>1, <2>4, <2>5, <2>6 DEF Session, Playing
<1>6. \A d \in Clients : d # c => UNCHANGED At(d)
  BY <1>1, <1>2, <1>3 DEF At
<1> QED BY <1>4, <1>5, <1>6, SessionsKeep

\* A step of the processes alone, which turns no waiting child into another,
\* begins and ends no session and starts none for a player who has not.
LEMMA ProcessFrame ==
  ASSUME QuizInv, NEW c \in Clients, UNCHANGED quiz_vars, Waiting(c) => Waiting(c)',
         Over(c)' <=> Over(c), conn[c] = "idle" => conn'[c] = "idle"
  PROVE  Session(c)'
<1>1. Session(c)
  BY DEF QuizInv
<1>2. /\ UNCHANGED <<at, i, options, correct, score, toClient, toServer, gone, player, screen, right, told>>
      /\ Asked(c)' = Asked(c) /\ Score(score[c])' = Score(score[c])
  BY DEF quiz_vars, Asked, Question, Score
<1>3. Counted(c) => Counted(c)'
  BY <1>2 DEF Counted
<1>4. Underway(c) => Underway(c)'
  BY <1>2 DEF Underway
<1> QED BY <1>1, <1>2, <1>3, <1>4 DEF Session, Playing

LEMMA ProcessesKeep ==
  ASSUME QuizInv, ForkInv', UNCHANGED quiz_vars,
         Parent \/ \E c \in Clients : ChildStart(c)
  PROVE  QuizType' /\ \A d \in Clients : Session(d)'
<1>t. /\ child \in [Clients -> {"none", "forked", "running", "zombie", "reaped"}]
      /\ conn \in [Clients -> {"idle", "backlog", "accepted"}]
  BY DEF QuizInv, QuizType, TypeOK, ForkTypeOK
<1>1. QuizType'
  <2>1. TypeOK'
    BY DEF QuizInv, QuizType, TypeOK, ForkInv, quiz_vars
  <2> QED BY <2>1 DEF QuizInv, QuizType, quiz_vars
<1>2. ASSUME NEW d \in Clients
      PROVE  /\ conn[d] = "idle" => conn'[d] = "idle"
             /\ child[d] = "running" => child'[d] = "running"
             /\ child'[d] \in {"zombie", "reaped"} <=> child[d] \in {"zombie", "reaped"}
  <2>1. ASSUME NEW c \in Clients, Accept(c)
        PROVE  child' = child /\ (conn[d] = "idle" => conn'[d] = "idle")
    BY <1>t, <2>1 DEF Accept
  <2>2. CASE Fork
    <3>1. connfd \in Clients /\ child[connfd] = "none"
      BY <2>2, ConnfdOpen DEF QuizInv, ForkInv, Fork
    <3> QED BY <1>t, <2>2, <3>1 DEF Fork
  <2>3. ASSUME NEW c \in Clients, Reap(c) \/ ChildStart(c)
        PROVE  /\ conn' = conn
               /\ child[d] = "running" => child'[d] = "running"
               /\ child'[d] \in {"zombie", "reaped"} <=> child[d] \in {"zombie", "reaped"}
    BY <1>t, <2>3 DEF Reap, ChildStart
  <2>4. CASE ForkFails \/ CloseConn \/ Sigchld \/ HandlerReturns
    BY <2>4 DEF ForkFails, CloseConn, Sigchld, HandlerReturns
  <2> QED BY <2>1, <2>2, <2>3, <2>4 DEF Parent, Loop, Handler
<1>3. ASSUME NEW d \in Clients PROVE Session(d)'
  <2>1. (Waiting(d) => Waiting(d)') /\ (Over(d)' <=> Over(d))
    BY <1>2 DEF Waiting, Over, Running, quiz_vars
  <2> QED BY <1>2, <2>1, ProcessFrame
<1> QED BY <1>1, <1>3

LEMMA QuizInvInit == Init => QuizInv
<1> SUFFICES ASSUME Init PROVE QuizInv
  OBVIOUS
<1>1. ForkInv /\ KeyInv
  BY KeyInit, ForkInvInit DEF Init
<1>2. /\ 0 \in 0 .. NumQuestions /\ -1 \in -1 .. NumQuestions /\ Original \in [Options -> Options]
      /\ <<>> \in Seq(Messages) /\ <<>> \in Seq(Answers) /\ 0 < 1
  BY QuestionsAssumption DEF Original
<1>3. TypeOK
  BY <1>1, <1>2 DEF Init, TypeOK, ForkInv, KeyInv, ShuffleType
<1>4. Question(0, Original) \in Screens
  BY <1>2 DEF Screens
<1>5. QuizType
  BY <1>2, <1>3, <1>4 DEF Init, QuizType
<1>6. ASSUME NEW c \in Clients PROVE Session(c)
  <2>1. /\ toClient[c] = <<>> /\ DOMAIN <<>> = {} /\ toServer[c] = <<>> /\ right[c] = score[c]
        /\ told[c] = -1 /\ gone[c] = "up" /\ player[c] = "start" /\ conn[c] = "idle"
    BY DEF Init, ForkInit
  <2>2. Counted(c) /\ Underway(c)
    BY <2>1 DEF Counted, Underway
  <2> QED BY <2>1, <2>2 DEF Session, Playing
<1> QED BY <1>1, <1>5, <1>6 DEF QuizInv

LEMMA QuizInvStep == QuizInv /\ [Next]_vars => QuizInv'
<1> SUFFICES ASSUME QuizInv, [Next]_vars PROVE QuizInv'
  OBVIOUS
<1>1. ForkInv' /\ KeyInv'
  BY QuizStepIsForkStep, ForkInvStep, KeyStep DEF QuizInv
<1> DEFINE Kept == QuizType' /\ \A d \in Clients : Session(d)'
<1> SUFFICES Kept
  BY <1>1 DEF QuizInv
<1>2. ASSUME NEW c \in Clients, Child(c) PROVE Kept
  <2>1. CASE ChildStart(c) /\ UNCHANGED quiz_vars
    BY <1>1, <2>1, ProcessesKeep
  <2>2. CASE Shuffle(c)
    BY <1>1, <2>2, ShuffleKeeps
  <2>3. CASE Ask(c)
    BY <2>3, AskKeeps
  <2>4. CASE Judge(c)
    BY <1>1, <2>4, JudgeKeeps
  <2>5. CASE Break(c) \/ Killed(c)
    BY <2>5, DepartedKeeps
  <2>6. CASE Finish(c)
    BY <2>6, FinishKeeps
  <2> QED BY <1>2, <2>1, <2>2, <2>3, <2>4, <2>5, <2>6 DEF Child
<1>3. CASE Parent /\ UNCHANGED quiz_vars
  BY <1>1, <1>3, ProcessesKeep
<1>4. ASSUME NEW c \in Clients, Start(c) PROVE Kept
  BY <1>1, <1>4, StartKeeps
<1>5. ASSUME NEW c \in Clients, Receive(c) PROVE Kept
  BY <1>5, ReceiveKeeps
<1>6. ASSUME NEW c \in Clients, EndOfFile(c) \/ Leave(c) PROVE Kept
  BY <1>6, PlayerEndKeeps
<1>7. ASSUME NEW c \in Clients, Answering(c) PROVE Kept
  BY <1>7, AnswerKeeps, AnswerNothingKeeps DEF Answering
<1>8. CASE UNCHANGED vars
  <2>1. UNCHANGED quiz_vars /\ UNCHANGED fork_vars
    BY <1>8 DEF vars
  <2>2. TypeOK'
    BY <1>1, <2>1 DEF QuizInv, QuizType, TypeOK, ForkInv, quiz_vars
  <2>3. QuizType'
    BY <2>1, <2>2 DEF QuizInv, QuizType, quiz_vars
  <2>4. \A d \in Clients : UNCHANGED At(d)
    BY <2>1 DEF At, quiz_vars, fork_vars
  <2> QED BY <2>3, <2>4, SessionFrame DEF QuizInv
<1> HIDE DEF Kept
<1> QED BY <1>2, <1>3, <1>4, <1>5, <1>6, <1>7, <1>8 DEF Next

LEMMA QuizCorrect == Spec => []QuizInv
BY QuizInvInit, QuizInvStep, PTL DEF Spec

\* The question on a thinking player's screen is the one the child waits for an
\* answer to, with its options in the order the child has them, and nothing
\* else is on its way to the child: no answer is ever taken for another
\* question's, however the messages were glued together.
THEOREM InStepCorrect == Spec => []InStep
<1>1. QuizInv => InStep
  <2> SUFFICES ASSUME QuizInv, NEW c \in Clients, player[c] = "prompt"
               PROVE  TypeOK /\ Waiting(c) /\ toServer[c] = <<>> /\ screen[c] = Asked(c)
    BY DEF InStep, Waiting, Asked, QuizInv, QuizType
  <2> QED BY DEF QuizInv, QuizType, Session, Playing
<1> QED BY <1>1, QuizCorrect, PTL

\* A score that a player is told is the number of questions in which the player
\* picked the text of the right option, whatever the shuffles made of it.
THEOREM ScoreFairCorrect == Spec => []ScoreFair
<1>1. QuizInv => ScoreFair
  BY DEF QuizInv, Session, ScoreFair
<1> QED BY <1>1, QuizCorrect, PTL
=============================================================================
