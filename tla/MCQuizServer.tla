---------------------------- MODULE MCQuizServer ----------------------------
(* A small instance of QuizServer for TLC: the keys of the first questions. *)
EXTENDS QuizServer

FirstKeys == [n \in Questions |-> (n - 1) % NumOptions]
=============================================================================
