------------------------------- MODULE MCSched -------------------------------
(***************************************************************************)
(* Model checking of Sched.  sched_tasks: tasks that sleep, wake, are      *)
(* created and preempted, on a small priority range.  sched_ticks:         *)
(* CPU-bound tasks with the kernel's own priorities.                       *)
(***************************************************************************)
EXTENDS Sched, SequencesExt

CONSTANT Nested   \* the tasks on whose stack a second do_timer may start

MCMaxNest == [t \in Tasks |-> IF t \in Nested THEN 2 ELSE 1]

(* The tasks sched_init would create, linked after any number of ticks.    *)
(* The order of the list does not matter, the tasks are alike.             *)
InitLinked ==
  /\ list = CHOOSE s \in SetToSeqs(Tasks) : s[1] = Task0
  /\ state = [t \in Tasks |-> IF t = Task0 THEN "RUNNING" ELSE "RUNABLE"]
  /\ \E ticks \in 0 .. PrioMod - 1 :
       priority = [t \in Tasks |-> IF t = Task0 THEN (InitialPrio - RunCost * ticks) % PrioMod
                                   ELSE InitialPrio]
  /\ current = Task0
  /\ queue = [q \in Queues |-> NoTask]
  /\ op = [t \in Tasks |-> Idle]
  /\ timer = [t \in Tasks |-> <<>>]
  /\ halted = FALSE

LinkedSpec == InitLinked /\ [][Next]_vars /\ Fairness
==============================================================================
