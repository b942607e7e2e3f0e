------------------------------ MODULE Counters ------------------------------
(***************************************************************************)
(* The counters that threads share (Source_codes_Ch4/.../threads):         *)
(*   "race"  bai5.c: two threads count Loops times each, without a mutex   *)
(*   "slow"  bai8.c: as bai5.c, with a printf() after each increment, so   *)
(*           that the compiler has to store each one                       *)
(*   "mutex" bai6.c: as bai5.c, with the increment under a mutex           *)
(*   "file"  bai9.c: three threads; each writes the counter, which starts  *)
(*           at 1, as a line of a file and counts once, under a mutex      *)
(* A behaviour runs one of them.  counter++ is a load and a store; the     *)
(* race is undefined behaviour, of which a build gives one of two forms:   *)
(* each increment stored, or (optimised) the whole loop added at once.     *)
(***************************************************************************)
EXTENDS Integers, Sequences

CONSTANT Loops  \* 1000 in bai5.c and bai6.c, 5 in bai8.c

ASSUME LoopsAssumption == Loops \in Nat /\ Loops >= 2

VARIABLES
  exercise,
  step,     \* increments that are stored at once
  counter,
  holder,   \* of the mutex: 0 if nobody
  todo,     \* a thread: increments left; -1 before it is created
  loaded,   \* a thread: between the load and the store
  base,     \* ... and the value it has loaded
  lines,    \* the numbers in the file
  creator   \* create, join, done

count_vars == <<exercise, step, counter, holder, todo, loaded, base, lines, creator>>

Exercises == {"race", "slow", "mutex", "file"}
Locked    == exercise \in {"mutex", "file"}
Workers   == IF exercise = "file" THEN 1 .. 3 ELSE 1 .. 2
Each      == IF exercise = "file" THEN 1 ELSE Loops
First     == IF exercise = "file" THEN 1 ELSE 0

CountInit ==
  /\ exercise \in Exercises
  /\ step \in IF exercise = "race" THEN {1, Loops} ELSE {1}
  /\ counter = First
  /\ holder = 0
  /\ todo = [t \in Workers |-> -1]
  /\ loaded = [t \in Workers |-> FALSE]
  /\ base = [t \in Workers |-> 0]
  /\ lines = <<>>
  /\ creator = "create"

-----------------------------------------------------------------------------
Create(t) ==
  /\ creator = "create"
  /\ todo[t] = -1 /\ \A u \in Workers : u < t => todo[u] # -1
  /\ todo' = [todo EXCEPT ![t] = Each]
  /\ creator' = IF \A u \in Workers : u <= t THEN "join" ELSE creator
  /\ UNCHANGED <<exercise, step, counter, holder, loaded, base, lines>>

\* Mutant: the mutex is each thread's own.
LockOwn(t) ==
  /\ Locked /\ todo[t] > 0 /\ holder # t
  /\ holder' = t
  /\ UNCHANGED <<exercise, step, counter, todo, loaded, base, lines, creator>>

Lock(t) ==
  /\ Locked /\ todo[t] > 0
  /\ holder = 0
  /\ holder' = t
  /\ UNCHANGED <<exercise, step, counter, todo, loaded, base, lines, creator>>

\* The thread of "file" has written the value before it counts.
Load(t) ==
  /\ todo[t] > 0 /\ ~ loaded[t]
  /\ Locked => holder = t
  /\ loaded' = [loaded EXCEPT ![t] = TRUE]
  /\ base' = [base EXCEPT ![t] = counter]
  /\ lines' = IF exercise = "file" THEN Append(lines, counter) ELSE lines
  /\ UNCHANGED <<exercise, step, counter, holder, todo, creator>>

\* ... and pthread_mutex_unlock().
Store(t) ==
  /\ loaded[t]
  /\ counter' = base[t] + step
  /\ todo' = [todo EXCEPT ![t] = @ - step]
  /\ loaded' = [loaded EXCEPT ![t] = FALSE]
  /\ holder' = 0
  /\ UNCHANGED <<exercise, step, base, lines, creator>>

\* pthread_join() of all; the counter is printed, or the file closed.
Join ==
  /\ creator = "join"
  /\ \A t \in Workers : todo[t] = 0
  /\ creator' = "done"
  /\ UNCHANGED <<exercise, step, counter, holder, todo, loaded, base, lines>>

CountNext == Join \/ \E t \in Workers : Create(t) \/ Lock(t) \/ Load(t) \/ Store(t)

CountSpec == CountInit /\ [][CountNext]_count_vars

-----------------------------------------------------------------------------
CountTypeOK ==
  /\ exercise \in Exercises
  /\ step \in {1, Loops} /\ (exercise # "race" => step = 1)
  /\ counter \in Nat
  /\ holder \in Workers \cup {0}
  /\ todo \in [Workers -> -1 .. Each]
  /\ loaded \in [Workers -> BOOLEAN]
  /\ base \in [Workers -> Nat]
  /\ lines \in Seq(Nat)
  /\ creator \in {"create", "join", "done"}

\* What is printed in the end.  Under the mutex every increment counts and the
\* lines of the file are 1, 2, 3, in this order, whichever threads wrote them.
\* Without it at least two increments are left (not only as many as one thread
\* makes: a thread's last store can undo all but the other's first), and none
\* is counted twice.
CountRight ==
  /\ CountTypeOK
  /\ creator = "done" =>
       /\ exercise = "file"  => counter = 4 /\ lines = <<1, 2, 3>>
       /\ exercise = "mutex" => counter = 2 * Loops
       /\ ~ Locked           => 2 <= counter /\ counter <= 2 * Loops
=============================================================================
