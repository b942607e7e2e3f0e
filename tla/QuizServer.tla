----------------------------- MODULE QuizServer -----------------------------
(***************************************************************************)
(* The quiz of Source_codes_Ch4/bai-tap-lab: bai2server.c forks a child    *)
(* for each player (ForkServer), which shuffles the options of a question, *)
(* sends it, compares the answer with where the right option went, and in  *)
(* the end sends the score; bai2client.c prints what it receives and asks  *)
(* the user for an answer when a question is in it.                        *)
(*                                                                         *)
(* Messages are short and the address is the loopback: a send() arrives as *)
(* a whole, but one recv() may return several of them glued together.      *)
(***************************************************************************)
EXTENDS ForkServer, Sequences

CONSTANTS
  NumQuestions,  \* NUM_QUESTIONS
  NumOptions,    \* the options of a question, 4 in the code
  Key,           \* the right option of each question: quiz[].correct
  MayLeave       \* bound: the players who may leave or fall silent

Questions == 1 .. NumQuestions
Options   == 0 .. NumOptions - 1

ASSUME QuestionsAssumption == NumQuestions \in Nat \ {0}
ASSUME OptionsAssumption   == NumOptions \in Nat \ {0}
ASSUME KeyAssumption       == Key \in [Questions -> Options]
ASSUME MayLeaveAssumption  == MayLeave \subseteq Clients

VARIABLES
  at,        \* where a child is: shuffle, recv, score (the last send, exit)
  i,         \* its question, counted from 1
  step,      \* the index of the loop in shuffle_options
  options,   \* q.options: the original index of the option at each place
  correct,   \* q.correct
  score,
  toClient, toServer, \* what is on its way
  gone,      \* the player's end: up, down, broken (the next send kills)
  player,    \* the client: start, recv, prompt, done, left
  screen,    \* the question a player is looking at
  right,     \* history: how often a player picked the right option's text
  told,      \* the score printed, -1 if none
  silent     \* history: a player answered with an empty line

quiz_vars == <<at, i, step, options, correct, score, toClient, toServer, gone,
               player, screen, right, told, silent>>
vars == <<fork_vars, quiz_vars>>

Original == [k \in Options |-> k]
Question(n, opts) == [kind |-> "question", number |-> n, options |-> opts]
Score(n) == [kind |-> "score", points |-> n]
Verdict  == [kind |-> "verdict"]

\* Any text whose first character is none of a-d, A-D counts as an answer.
Other   == NumOptions
Answers == Options \cup {Other}

TypeOK ==
  /\ ForkTypeOK
  /\ at \in [Clients -> {"shuffle", "recv", "score"}]
  /\ i \in [Clients -> Questions]
  /\ step \in [Clients -> Options]
  /\ options \in [Clients -> [Options -> Options]]
  /\ correct \in [Clients -> Options]
  /\ score \in [Clients -> 0 .. NumQuestions]
  /\ toServer \in [Clients -> Seq(Answers)]
  /\ gone \in [Clients -> {"up", "down", "broken"}]
  /\ player \in [Clients -> {"start", "recv", "prompt", "done", "left"}]
  /\ told \in [Clients -> -1 .. NumQuestions]
  /\ right \in [Clients -> 0 .. NumQuestions]
  /\ silent \in [Clients -> BOOLEAN]

Init ==
  /\ ForkInit
  /\ at = [c \in Clients |-> "shuffle"]
  /\ i = [c \in Clients |-> 1]
  /\ step = [c \in Clients |-> NumOptions - 1]
  /\ options = [c \in Clients |-> Original]
  /\ correct = [c \in Clients |-> Key[1]]
  /\ score = [c \in Clients |-> 0]
  /\ toClient = [c \in Clients |-> <<>>]
  /\ toServer = [c \in Clients |-> <<>>]
  /\ gone = [c \in Clients |-> "up"]
  /\ player = [c \in Clients |-> "start"]
  /\ screen = [c \in Clients |-> Question(0, Original)]
  /\ right = [c \in Clients |-> 0]
  /\ told = [c \in Clients |-> -1]
  /\ silent = [c \in Clients |-> FALSE]

-----------------------------------------------------------------------------
(* The child *)

Running(c) == child[c] = "running"

\* Mutant: the second test is not an else.
TrackTwice(k, m, n) ==
  LET first == IF k = m THEN n ELSE k IN IF first = n THEN m ELSE first

\* Where the option at place k is after places m and n are exchanged.
Track(k, m, n) == IF k = m THEN n ELSE IF k = n THEN m ELSE k

\* One turn of the loop in shuffle_options(); n is rand() % (m + 1).
Shuffle(c) ==
  /\ Running(c) /\ at[c] = "shuffle" /\ step[c] > 0
  /\ \E n \in 0 .. step[c] : LET m == step[c] IN
       /\ options' = [options EXCEPT ![c] =
                        [@ EXCEPT ![m] = options[c][n], ![n] = options[c][m]]]
       /\ correct' = [correct EXCEPT ![c] = Track(@, m, n)]
  /\ step' = [step EXCEPT ![c] = @ - 1]
  /\ UNCHANGED <<fork_vars, at, i, score, toClient, toServer, gone, player,
                 screen, right, told, silent>>

\* send() to the player; the first to a player who left is lost.
Send(c, msg) ==
  \/ /\ gone[c] = "up"
     /\ toClient' = [toClient EXCEPT ![c] = Append(@, msg)]
     /\ UNCHANGED gone
  \/ /\ gone[c] = "down"
     /\ gone' = [gone EXCEPT ![c] = "broken"]
     /\ UNCHANGED toClient

Ask(c) ==
  /\ Running(c) /\ at[c] = "shuffle" /\ step[c] = 0
  /\ Send(c, Question(i[c], options[c]))
  /\ at' = [at EXCEPT ![c] = "recv"]
  /\ UNCHANGED <<fork_vars, i, step, options, correct, score, toServer, player,
                 screen, right, told, silent>>

\* The next turn of the loop over the questions, or its end.
NextQuestion(c) ==
  IF i[c] < NumQuestions
  THEN /\ i' = [i EXCEPT ![c] = @ + 1]
       /\ options' = [options EXCEPT ![c] = Original]
       /\ correct' = [correct EXCEPT ![c] = Key[i[c] + 1]]
       /\ step' = [step EXCEPT ![c] = NumOptions - 1]
       /\ at' = [at EXCEPT ![c] = "shuffle"]
  ELSE /\ at' = [at EXCEPT ![c] = "score"]
       /\ UNCHANGED <<i, options, correct, step>>

\* Mutant: the answer is compared with the place before the shuffle.
JudgeUnshuffled(c) ==
  /\ Running(c) /\ at[c] = "recv"
  /\ toServer[c] # <<>>
  /\ toServer' = [toServer EXCEPT ![c] = <<>>]
  /\ score' = [score EXCEPT ![c] = IF Head(toServer[c]) = Key[i[c]] THEN @ + 1 ELSE @]
  /\ Send(c, Verdict)
  /\ NextQuestion(c)
  /\ UNCHANGED <<fork_vars, player, screen, right, told, silent>>

\* An answer: its first character counts, what follows it is dropped.
Judge(c) ==
  /\ Running(c) /\ at[c] = "recv"
  /\ toServer[c] # <<>>
  /\ toServer' = [toServer EXCEPT ![c] = <<>>]
  /\ score' = [score EXCEPT ![c] = IF Head(toServer[c]) = correct[c] THEN @ + 1 ELSE @]
  /\ Send(c, Verdict)
  /\ NextQuestion(c)
  /\ UNCHANGED <<fork_vars, player, screen, right, told, silent>>

\* Mutant: the loop goes on after a failed recv().
BreakNot(c) ==
  /\ Running(c) /\ at[c] = "recv"
  /\ toServer[c] = <<>> /\ gone[c] # "up"
  /\ UNCHANGED <<fork_vars, quiz_vars>>

\* recv() returns 0 or -1.
Break(c) ==
  /\ Running(c) /\ at[c] = "recv"
  /\ toServer[c] = <<>> /\ gone[c] # "up"
  /\ at' = [at EXCEPT ![c] = "score"]
  /\ UNCHANGED <<fork_vars, i, step, options, correct, score, toClient, toServer,
                 gone, player, screen, right, told, silent>>

\* The score, close() and exit().
Finish(c) ==
  /\ Running(c) /\ at[c] = "score"
  /\ Send(c, Score(score[c]))
  /\ ChildExit(c)
  /\ UNCHANGED <<at, i, step, options, correct, score, toServer, player, screen,
                 right, told, silent>>

\* SIGPIPE.
Killed(c) ==
  /\ Running(c) /\ gone[c] = "broken"
  /\ \/ at[c] = "shuffle" /\ step[c] = 0
     \/ at[c] = "score"
  /\ ChildExit(c)
  /\ UNCHANGED quiz_vars

Child(c) ==
  \/ ChildStart(c) /\ UNCHANGED quiz_vars
  \/ Shuffle(c) \/ Ask(c) \/ Judge(c) \/ Break(c) \/ Finish(c) \/ Killed(c)

-----------------------------------------------------------------------------
(* The player *)

Start(c) ==
  /\ player[c] = "start"
  /\ player' = [player EXCEPT ![c] = "recv"]
  /\ Connect(c)
  /\ UNCHANGED <<at, i, step, options, correct, score, toClient, toServer, gone,
                 screen, right, told, silent>>

\* Mutant: the user is asked after every message.
ReceiveAsks(c) ==
  /\ player[c] = "recv"
  /\ toClient[c] # <<>>
  /\ toClient' = [toClient EXCEPT ![c] = Tail(@)]
  /\ player' = [player EXCEPT ![c] = "prompt"]
  /\ screen' = [screen EXCEPT ![c] =
                  IF Head(toClient[c]).kind = "question" THEN Head(toClient[c]) ELSE @]
  /\ UNCHANGED <<fork_vars, at, i, step, options, correct, score, toServer, gone,
                 right, told, silent>>

\* recv() returns the first k messages; the user is asked if there is a
\* question among them.
Receive(c) ==
  /\ player[c] = "recv"
  /\ \E k \in DOMAIN toClient[c] :
       LET got == {toClient[c][j] : j \in 1 .. k} IN
       /\ toClient' = [toClient EXCEPT ![c] = SubSeq(@, k + 1, Len(@))]
       /\ \/ /\ \A m \in got : m.kind # "question"
             /\ UNCHANGED <<player, screen>>
          \/ \E q \in got :
               /\ q.kind = "question"
               /\ player' = [player EXCEPT ![c] = "prompt"]
               /\ screen' = [screen EXCEPT ![c] = q]
       /\ \/ /\ \A m \in got : m.kind # "score"
             /\ UNCHANGED told
          \/ \E m \in got :
               /\ m.kind = "score"
               /\ told' = [told EXCEPT ![c] = m.points]
  /\ UNCHANGED <<fork_vars, at, i, step, options, correct, score, toServer, gone,
                 right, silent>>

\* End of file: every copy of the server's socket is closed.
EndOfFile(c) ==
  /\ player[c] = "recv" /\ toClient[c] = <<>>
  /\ conn[c] = "accepted" /\ holders[c] = {}
  /\ player' = [player EXCEPT ![c] = "done"]
  /\ UNCHANGED <<fork_vars, at, i, step, options, correct, score, toClient,
                 toServer, gone, screen, right, told, silent>>

Answer(c, a) ==
  /\ player[c] = "prompt"
  /\ player' = [player EXCEPT ![c] = "recv"]
  /\ toServer' = [toServer EXCEPT ![c] = Append(@, a)]
  /\ right' = [right EXCEPT ![c] =
       IF a \in Options /\ screen[c].options[a] = Key[screen[c].number]
       THEN @ + 1 ELSE @]
  /\ UNCHANGED <<fork_vars, at, i, step, options, correct, score, toClient, gone,
                 screen, told, silent>>

\* An empty line: send() of no bytes.
AnswerNothing(c) ==
  /\ c \in MayLeave
  /\ player[c] = "prompt"
  /\ player' = [player EXCEPT ![c] = "recv"]
  /\ silent' = [silent EXCEPT ![c] = TRUE]
  /\ UNCHANGED <<fork_vars, at, i, step, options, correct, score, toClient,
                 toServer, gone, screen, right, told>>

Leave(c) ==
  /\ c \in MayLeave
  /\ player[c] \in {"recv", "prompt"}
  /\ player' = [player EXCEPT ![c] = "left"]
  /\ gone' = [gone EXCEPT ![c] = "down"]
  /\ toClient' = [toClient EXCEPT ![c] = <<>>]
  /\ UNCHANGED <<fork_vars, at, i, step, options, correct, score, toServer,
                 screen, right, told, silent>>

Answering(c) == AnswerNothing(c) \/ \E a \in Answers : Answer(c, a)

Next ==
  \/ Parent /\ UNCHANGED quiz_vars
  \/ \E c \in Clients :
       Child(c) \/ Start(c) \/ Receive(c) \/ EndOfFile(c) \/ Answering(c) \/ Leave(c)

Spec == Init /\ [][Next]_vars

\* All processes are scheduled, and a user who is asked types something.
FairSpec ==
  /\ Spec
  /\ WF_vars(Parent /\ UNCHANGED quiz_vars)
  /\ \A c \in Clients : /\ WF_vars(Child(c))
                        /\ WF_vars(Receive(c) \/ EndOfFile(c))
                        /\ WF_vars(Answering(c))

-----------------------------------------------------------------------------
(* Properties *)

\* "Shuffle the order of the options" (bai2server.c:45) is a permutation, at
\* every turn of its loop, and correct follows the right option through it.
KeyFollows ==
  \A c \in Clients :
    /\ \A m, n \in Options : options[c][m] = options[c][n] => m = n
    /\ options[c][correct[c]] = Key[i[c]]

\* While a player thinks, the child waits for the answer to just the question
\* on the screen, whatever was glued together on the way.
InStep ==
  /\ TypeOK
  /\ \A c \in Clients : player[c] = "prompt" /\ child[c] # "none" =>
       Running(c) /\ at[c] = "recv" /\ toServer[c] = <<>>
         /\ screen[c] = Question(i[c], options[c])

\* "Your total score" (bai2server.c:95) is the number of times the player
\* picked the text of the right option from the screen.
ScoreFair == \A c \in Clients : told[c] # -1 => told[c] = right[c]

\* A session ends at both ends, also when the player leaves in the middle,
\* unless an empty answer, which sends nothing, leaves both waiting.
QuizEnds ==
  \A c \in Clients :
    child[c] # "none" ~> \/ player[c] \in {"done", "left"} /\ ~ Running(c)
                         \/ silent[c]
=============================================================================
