-------------------------------- MODULE Sched --------------------------------
(***************************************************************************)
(* The task scheduler of the kernel: the task list and task switch of      *)
(* kernel/sched.c, driven by the timer interrupt of kernel/timer.c.        *)
(*                                                                         *)
(* There is one processor.  `current' executes; the others wait where they *)
(* called schedule().  schedule() runs with interrupts off up to the task  *)
(* switch, and the task switched to turns them on again with its first     *)
(* instruction (the sti() after its own ljmp, or the eflags new_task gave  *)
(* it), so a call of schedule() is one step.  Everything else runs with    *)
(* interrupts on and a timer interrupt may come between any two accesses   *)
(* to the fields other code uses; each such access is a step of its own.   *)
(*                                                                         *)
(* do_timer acknowledges the interrupt before it walks the task list, so a *)
(* second tick may interrupt the walk: each task has a stack of activation *)
(* frames of do_timer, innermost first, at most MaxNest[t] deep.            *)
(***************************************************************************)
EXTENDS Integers, Sequences

CONSTANTS
  Tasks,        \* the task_structs: task0 and the ones new_task may link
  Task0,        \* task0, running from boot on
  NoTask,       \* the NULL pointer
  Queues,       \* the wait queue variables, like task_suspend
  Sleepers,     \* the tasks whose code calls sleep_on
  Wakers,       \* the tasks whose code calls wake_up
  PrioMod,      \* priority is a u8int: arithmetic modulo 256
  InitialPrio,  \* INITIAL_PRIO
  RunCost,      \* what a tick takes from a RUNNING task: 30
  WaitGain,     \* what a tick gives every other task: 10
  MaxNest       \* bound: activations of do_timer on each task's kernel stack

ASSUME TasksAssumption ==
  Task0 \in Tasks /\ NoTask \notin Tasks /\ Sleepers \subseteq Tasks /\ Wakers \subseteq Tasks
ASSUME PriorityAssumption ==
  /\ PrioMod \in Nat \ {0}
  /\ {InitialPrio, RunCost, WaitGain} \subseteq 0 .. PrioMod - 1
ASSUME NestAssumption == MaxNest \in [Tasks -> Nat \ {0}]

VARIABLES
  list,      \* the chain task0, task0.next, ...
  state,     \* task_struct.state
  priority,  \* task_struct.priority
  current,   \* the task on the processor
  queue,     \* what each wait queue variable points to
  op,        \* the kernel call each task is in, and its locals
  timer,     \* the activations of do_timer on each task's stack
  halted     \* sleep_on has executed cli; hlt

vars == <<list, state, priority, current, queue, op, timer, halted>>

TaskState == {"RUNNING", "RUNABLE", "STOPPED", "UNINTERRUPTIBLE"}
Priority  == 0 .. PrioMod - 1
Linked    == {list[i] : i \in 1 .. Len(list)}
Position(t) == CHOOSE i \in 1 .. Len(list) : list[i] = t

(* pc is the next access of the call: sleep_on's enqueue, block, drop,     *)
(* resched and return; wake_up's mark and unlink; new_task's start.        *)
Idle == [pc |-> "idle", q |-> NoTask, task |-> NoTask]
Op   == [pc : {"idle", "enqueue", "block", "drop", "resched", "return",
               "mark", "unlink", "start"},
         q : Queues \cup {NoTask}, task : Tasks \cup {NoTask}]

(* A do_timer activation is at task v = at of the list, about to test its  *)
(* state, load, store, clamp its priority, or read v->next; charged when   *)
(* it took v for the RUNNING task.                                         *)
Frame == [pc : {"test", "load", "store", "clamp", "next", "resched"},
          at : Tasks, acc : Priority, charged : BOOLEAN]
At(pc, v) == [pc |-> pc, at |-> v, acc |-> 0, charged |-> FALSE]

(* new_task leaves a task it has not been called for as static storage:    *)
(* zero, and zero is TS_RUNNING.                                           *)
Init ==
  /\ list = <<Task0>>
  /\ state = [t \in Tasks |-> "RUNNING"]
  /\ priority = [t \in Tasks |-> IF t = Task0 THEN InitialPrio ELSE 0]
  /\ current = Task0
  /\ queue = [q \in Queues |-> NoTask]
  /\ op = [t \in Tasks |-> Idle]
  /\ timer = [t \in Tasks |-> <<>>]
  /\ halted = FALSE
------------------------------------------------------------------------------
(***************************************************************************)
(* schedule(): of the RUNABLE tasks that outrank current the highest, the  *)
(* first one in the list of several; no change when there is none.         *)
(***************************************************************************)
ReadyIfNotStopped(t) == state[t] # "STOPPED"
Ready(t) == state[t] = "RUNABLE"

Candidates == {t \in Linked : Ready(t) /\ priority[t] > priority[current]}

AnyOfHighest(t, u) == priority[t] >= priority[u]
Outranks(t, u) ==
  \/ priority[t] > priority[u]
  \/ priority[t] = priority[u] /\ Position(t) <= Position(u)

Selected(t) == t \in Candidates /\ \A u \in Candidates : Outranks(t, u)

(* The same choice as the loop computes it, tmp and cp after i turns.      *)
Scan[i \in 0 .. Len(list)] ==
  IF i = 0 THEN [tmp |-> NoTask, cp |-> priority[current]]
  ELSE IF Ready(list[i]) /\ Scan[i - 1].cp < priority[list[i]]
       THEN [tmp |-> list[i], cp |-> priority[list[i]]]
       ELSE Scan[i - 1]

SwitchTo(t) ==
  /\ current' = t
  /\ state' = [u \in Tasks |->
                 IF u = t THEN "RUNNING"
                 ELSE IF u = current /\ state[u] = "RUNNING" THEN "RUNABLE"
                 ELSE state[u]]

Schedule ==
  \/ Candidates = {} /\ UNCHANGED <<state, current>>
  \/ \E t \in Tasks : Selected(t) /\ SwitchTo(t)
------------------------------------------------------------------------------
(* do_timer, from its entry to the start of the walk over the task list.   *)
TimerInterrupt ==
  /\ ~halted
  /\ Len(timer[current]) < MaxNest[current]
  /\ timer' = [timer EXCEPT ![current] = <<At("test", Task0)>> \o @]
  /\ UNCHANGED <<list, state, priority, current, queue, op, halted>>

(* The innermost activation on the current stack executes its access pc.   *)
InTimer(pc) == ~halted /\ timer[current] # <<>> /\ Head(timer[current]).pc = pc
InnerFrame  == Head(timer[current])
SetFrame(f) == timer' = [timer EXCEPT ![current] = <<f>> \o Tail(@)]

(* What a tick adds to v->priority: the eight-bit -30 or +10.              *)
ChargeNobody(v) == WaitGain
Charge(v) == IF state[v] = "RUNNING" THEN PrioMod - RunCost ELSE WaitGain

NoWrap(x) == x
Wrap(x) == x % PrioMod

(* The test of v->state; acc keeps what is to be added.                    *)
TimerTest ==
  /\ InTimer("test")
  /\ SetFrame([InnerFrame EXCEPT !.pc = "load", !.acc = Wrap(Charge(InnerFrame.at)),
                                 !.charged = (state[InnerFrame.at] = "RUNNING")])
  /\ UNCHANGED <<list, state, priority, current, queue, op, halted>>

(* The read half of v->priority -= 30 and of += 10, in eight bits.         *)
TimerLoad ==
  /\ InTimer("load")
  /\ SetFrame([InnerFrame EXCEPT !.pc = "store",
                                 !.acc = Wrap(priority[InnerFrame.at] + @)])
  /\ UNCHANGED <<list, state, priority, current, queue, op, halted>>

(* The write half.  The clamp `<= 0' of line 41 compares an unsigned       *)
(* value: only 0 itself passes it.                                         *)
TimerStore ==
  /\ InTimer("store")
  /\ priority' = [priority EXCEPT ![InnerFrame.at] = InnerFrame.acc]
  /\ SetFrame(At(IF InnerFrame.charged /\ InnerFrame.acc = 0 THEN "clamp" ELSE "next",
                 InnerFrame.at))
  /\ UNCHANGED <<list, state, current, queue, op, halted>>

(* The second store of line 42, over what a nested tick may have made of   *)
(* the 0 meanwhile.                                                        *)
TimerClamp ==
  /\ InTimer("clamp")
  /\ priority' = [priority EXCEPT ![InnerFrame.at] = 0]
  /\ SetFrame(At("next", InnerFrame.at))
  /\ UNCHANGED <<list, state, current, queue, op, halted>>

(* v = v->next, which a nested tick may have let task0 change.             *)
TimerNext ==
  /\ InTimer("next")
  /\ LET i == Position(InnerFrame.at)
     IN  SetFrame(IF i < Len(list) THEN At("test", list[i + 1]) ELSE At("resched", Task0))
  /\ UNCHANGED <<list, state, priority, current, queue, op, halted>>

(* schedule() at the end of do_timer.  A task switched out here has        *)
(* nothing left of this activation but to return from it.                  *)
TimerResched ==
  /\ InTimer("resched")
  /\ timer' = [timer EXCEPT ![current] = Tail(@)]
  /\ Schedule
  /\ UNCHANGED <<list, priority, queue, op, halted>>
------------------------------------------------------------------------------
(* The current task executes task code, at the access pc of a call.        *)
InTask(pc) == ~halted /\ timer[current] = <<>> /\ op[current].pc = pc
Goto(pc)   == op' = [op EXCEPT ![current].pc = pc]
Done       == op' = [op EXCEPT ![current] = Idle]

(* sleep_on(q): task0 halts the machine, others read tmp = *task.          *)
AnyMaySleep == TRUE
MaySleep    == current # Task0

SleepInit ==
  /\ InTask("idle")
  /\ current \in Sleepers /\ ~MaySleep
  /\ halted' = TRUE
  /\ UNCHANGED <<list, state, priority, current, queue, op, timer>>

SleepBegin(q) ==
  /\ InTask("idle")
  /\ current \in Sleepers /\ MaySleep
  /\ op' = [op EXCEPT ![current] = [pc |-> "enqueue", q |-> q, task |-> queue[q]]]
  /\ UNCHANGED <<list, state, priority, current, queue, timer, halted>>

(* *task = current *)
SleepEnqueue ==
  /\ InTask("enqueue")
  /\ queue' = [queue EXCEPT ![op[current].q] = current]
  /\ Goto("block")
  /\ UNCHANGED <<list, state, priority, current, timer, halted>>

(* current->state = TS_UNINTERRUPTIBLE *)
SleepBlock ==
  /\ InTask("block")
  /\ state' = [state EXCEPT ![current] = "UNINTERRUPTIBLE"]
  /\ Goto("drop")
  /\ UNCHANGED <<list, priority, current, queue, timer, halted>>

(* current->priority = 0 *)
SleepDrop ==
  /\ InTask("drop")
  /\ priority' = [priority EXCEPT ![current] = 0]
  /\ Goto("resched")
  /\ UNCHANGED <<list, state, current, queue, timer, halted>>

(* schedule(): returns at once when no RUNABLE task outranks the sleeper.  *)
SleepSchedule ==
  /\ InTask("resched")
  /\ Schedule
  /\ Goto("return")
  /\ UNCHANGED <<list, priority, queue, timer, halted>>

(* if (tmp) tmp->state = TS_RUNNING *)
SleepReturn ==
  /\ InTask("return")
  /\ state' = [t \in Tasks |-> IF t = op[current].task THEN "RUNNING" ELSE state[t]]
  /\ Done
  /\ UNCHANGED <<list, priority, current, queue, timer, halted>>

(* wake_up(q): the test *task # NULL ...                                   *)
WakeBegin(q) ==
  /\ InTask("idle")
  /\ current \in Wakers
  /\ queue[q] # NoTask
  /\ op' = [op EXCEPT ![current] = [pc |-> "mark", q |-> q, task |-> NoTask]]
  /\ UNCHANGED <<list, state, priority, current, queue, timer, halted>>

(* ... the store through *task, read again; when another waker has cleared *)
(* it meanwhile the store of TS_RUNNING = 0 goes to the null task_struct,  *)
(* an unused and zero entry of the page directory at address 0 ...         *)
WakeMark ==
  /\ InTask("mark")
  /\ state' = [t \in Tasks |-> IF t = queue[op[current].q] THEN "RUNNING" ELSE state[t]]
  /\ Goto("unlink")
  /\ UNCHANGED <<list, priority, current, queue, timer, halted>>

(* ... and *task = NULL.                                                   *)
WakeUnlink ==
  /\ InTask("unlink")
  /\ queue' = [queue EXCEPT ![op[current].q] = NoTask]
  /\ Done
  /\ UNCHANGED <<list, state, priority, current, timer, halted>>

(* new_task(t), as sched_init calls it on task0: fill in t, which nothing  *)
(* else can reach yet, and link it STOPPED after current ...               *)
LinkedReady == "RUNABLE"
LinkState == "STOPPED"

NewTask(t) ==
  /\ InTask("idle")
  /\ current = Task0
  /\ t \notin Linked
  /\ priority' = [priority EXCEPT ![t] = InitialPrio]
  /\ state' = [state EXCEPT ![t] = LinkState]
  /\ list' = <<Task0, t>> \o Tail(list)
  /\ op' = [op EXCEPT ![Task0] = [pc |-> "start", q |-> NoTask, task |-> t]]
  /\ UNCHANGED <<current, queue, timer, halted>>

(* ... and make it RUNABLE.                                                *)
StartTask ==
  /\ InTask("start")
  /\ state' = [state EXCEPT ![op[current].task] = "RUNABLE"]
  /\ Done
  /\ UNCHANGED <<list, priority, current, queue, timer, halted>>

(* After halt() nothing happens any more: interrupts are off.              *)
Halted == halted /\ UNCHANGED vars
------------------------------------------------------------------------------
TimerStep ==
  TimerTest \/ TimerLoad \/ TimerStore \/ TimerClamp \/ TimerNext \/ TimerResched

CallStep ==
  \/ SleepEnqueue \/ SleepBlock \/ SleepDrop \/ SleepSchedule \/ SleepReturn
  \/ WakeMark \/ WakeUnlink \/ StartTask

Call ==
  \/ SleepInit
  \/ \E q \in Queues : SleepBegin(q) \/ WakeBegin(q)
  \/ \E t \in Tasks : NewTask(t)

Next == TimerInterrupt \/ TimerStep \/ CallStep \/ Call \/ Halted

Spec == Init /\ [][Next]_vars

(* The timer chip goes on ticking; a handler runs to its end, and task code *)
(* gets on between two ticks, 10 ms apart: a tick can keep it from its next *)
(* step again and again, but not for ever.                                  *)
Fairness == WF_vars(TimerInterrupt) /\ WF_vars(TimerStep) /\ SF_vars(CallStep)
LiveSpec == Spec /\ Fairness
------------------------------------------------------------------------------
(* Every variable has its type; the list starts with task0.                *)
TypeOK ==
  /\ list \in Seq(Tasks) /\ list # <<>> /\ list[1] = Task0
  /\ state \in [Tasks -> TaskState]
  /\ priority \in [Tasks -> Priority]
  /\ current \in Tasks
  /\ queue \in [Queues -> Tasks \cup {NoTask}]
  /\ op \in [Tasks -> Op]
  /\ timer \in [Tasks -> Seq(Frame)]
  /\ halted \in BOOLEAN

(* The init task never blocks, whatever the other tasks sleep on and wake: *)
(* it is the task that runs, or schedule() can pick it.  The guard of      *)
(* sleep_on (sched.c:165) exists for this.                                 *)
InitTaskReady ==
  state[Task0] = IF current = Task0 THEN "RUNNING" ELSE "RUNABLE"

(* A tick between the two halves of new_task (sched.c:66-69) finds the     *)
(* half-made task in the list; it must not be switched to.                 *)
NewbornNotDispatched ==
  op[Task0].pc = "start" =>
    /\ state[op[Task0].task] = "STOPPED"
    /\ current # op[Task0].task

(* A task that is switched out and not RUNABLE never gets the processor    *)
(* again: schedule() looks for TS_RUNABLE only, and wake_up and sleep_on   *)
(* (sched.c:180,188) mark the task they release TS_RUNNING.                *)
StrandedForever ==
  [][\A t \in Tasks :
       (t \in Linked /\ t # current /\ state[t] \notin {"RUNABLE", "STOPPED"})
         => (t # current' /\ state'[t] # "RUNABLE")]_vars

(* What a dispatch takes, Selected, is what the loop over the task list    *)
(* ends with (sched.c:130-137): the same task, or none in both.            *)
SelectionIsLoop == {t \in Tasks : Selected(t)} = {Scan[Len(list)].tmp} \ {NoTask}

(* The inductive invariant behind these: only tasks that new_task has      *)
(* finished run or wait, and task0 never waits.                            *)
Started == Linked \ (IF op[Task0].pc = "start" THEN {op[Task0].task} ELSE {})

Sleeping == {"enqueue", "block", "drop", "resched", "return"}

CallsWellFormed ==
  /\ op[Task0].pc \notin Sleeping
  /\ op[Task0].pc = "start" => op[Task0].task \in Tasks
  /\ \A t \in Tasks :
       /\ t # Task0 => op[t].pc # "start"
       /\ op[t].pc \in {"enqueue", "mark", "unlink"} => op[t].q \in Queues

WalksLinked == timer \in [Tasks -> Seq({f \in Frame : f.at \in Linked})]

LinkedOnce == \A i, j \in 1 .. Len(list) : list[i] = list[j] => i = j

WaitersStarted ==
  /\ current \in Started
  /\ \A q \in Queues : queue[q] \in (Started \ {Task0}) \cup {NoTask}
  /\ \A t \in Tasks : op[t].pc # "start" => op[t].task \in (Started \ {Task0}) \cup {NoTask}

SchedInv ==
  /\ TypeOK
  /\ CallsWellFormed
  /\ LinkedOnce
  /\ WalksLinked
  /\ WaitersStarted
  /\ NewbornNotDispatched
  /\ InitTaskReady

(* No CPU-bound task starves: a task in the list gets the processor, again  *)
(* and again.  Nothing in the code says so; it hangs on the way 30, 10 and  *)
(* the eight bits of priority play together, and on how many tasks there    *)
(* are (sched.h:12 allows for 64).                                          *)
EveryTaskRuns == \A t \in Tasks : t \in Linked ~> current = t
==============================================================================
