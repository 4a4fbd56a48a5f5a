----------------------------- MODULE SchedProofs -----------------------------
(***************************************************************************)
(* Proofs about Sched, for any number of tasks, queues and nested ticks    *)
(* and any priority constants.                                             *)
(***************************************************************************)
EXTENDS Sched, SequenceTheorems, WellFoundedInduction, TLAPS

USE TasksAssumption, PriorityAssumption, NestAssumption

(* Eight-bit arithmetic stays within eight bits.                           *)
LEMMA WrapType == ASSUME NEW x \in Int PROVE Wrap(x) \in Priority
BY DEF Wrap, Priority

LEMMA ChargeType == ASSUME NEW v PROVE Charge(v) \in Int
BY DEF Charge, Priority

LinkedFrame == {f \in Frame : f.at \in Linked}

(* Pushing, replacing and popping the innermost activation keep a stack a  *)
(* stack.                                                                  *)
LEMMA StackOps ==
  ASSUME NEW S, NEW s \in Seq(S), NEW f \in S
  PROVE  /\ <<f>> \o s \in Seq(S)
         /\ s # <<>> => Head(s) \in S /\ Tail(s) \in Seq(S)
BY ConcatProperties, HeadTailProperties

LEMMA SetFrameType ==
  ASSUME WalksLinked, current \in Tasks, timer[current] # <<>>,
         NEW f \in LinkedFrame, SetFrame(f)
  PROVE  timer' \in [Tasks -> Seq(LinkedFrame)]
<1>1. timer[current] \in Seq(LinkedFrame) BY DEF WalksLinked, LinkedFrame
<1>2. Tail(timer[current]) \in Seq(LinkedFrame) BY <1>1, StackOps
<1>3. <<f>> \o Tail(timer[current]) \in Seq(LinkedFrame) BY <1>2, StackOps
<1> QED BY <1>3 DEF WalksLinked, LinkedFrame, SetFrame

LEMMA InnerFrameType ==
  ASSUME WalksLinked, current \in Tasks, timer[current] # <<>>
  PROVE  /\ InnerFrame \in LinkedFrame /\ Tail(timer[current]) \in Seq(LinkedFrame)
         /\ InnerFrame.at \in Linked /\ InnerFrame.at \in Tasks /\ InnerFrame.acc \in Priority
<1>1. timer[current] \in Seq(LinkedFrame) BY DEF WalksLinked, LinkedFrame
<1>2. InnerFrame \in LinkedFrame /\ Tail(timer[current]) \in Seq(LinkedFrame)
  BY <1>1, StackOps DEF InnerFrame
<1> QED BY <1>2 DEF LinkedFrame, Frame

LEMMA PositionInList ==
  ASSUME TypeOK, NEW t \in Linked
  PROVE  Position(t) \in 1 .. Len(list) /\ list[Position(t)] = t
<1>1. \E i \in 1 .. Len(list) : list[i] = t BY DEF Linked
<1> QED BY <1>1 DEF Position

(* schedule() switches to a RUNABLE task of the list or changes nothing,   *)
(* and gives no task a state but the one switched to and the one left.     *)
LEMMA ScheduleEffect ==
  ASSUME TypeOK, Schedule
  PROVE  /\ state' \in [Tasks -> TaskState]
         /\ current' \in Tasks
         /\ current' = current => state' = state
         /\ current' # current =>
              /\ Selected(current')
              /\ state'[current'] = "RUNNING"
              /\ \A t \in Tasks \ {current, current'} : state'[t] = state[t]
              /\ state'[current] = IF state[current] = "RUNNING" THEN "RUNABLE" ELSE state[current]
<1>1. CASE Candidates = {} /\ UNCHANGED <<state, current>>
  BY <1>1 DEF TypeOK
<1>2. ASSUME NEW t \in Tasks, Selected(t), SwitchTo(t)
      PROVE  /\ t # current
             /\ current' = t
             /\ state' \in [Tasks -> TaskState]
             /\ state'[t] = "RUNNING"
             /\ \A u \in Tasks \ {current, t} : state'[u] = state[u]
             /\ state'[current] = IF state[current] = "RUNNING" THEN "RUNABLE" ELSE state[current]
  <2>1. t # current BY <1>2 DEF Selected, Candidates, TypeOK, Priority
  <2> QED BY <1>2, <2>1 DEF SwitchTo, TypeOK, TaskState
<1> QED BY <1>1, <1>2 DEF Schedule

(* Prepending to the tail of the list keeps task0 in front and adds t,     *)
(* once when it was not there.                                             *)
LEMMA LinkEffect ==
  ASSUME TypeOK, NEW t \in Tasks, list' = <<Task0, t>> \o Tail(list)
  PROVE  /\ list' \in Seq(Tasks) /\ list' # <<>> /\ list'[1] = Task0
         /\ Linked' = Linked \cup {t}
         /\ LinkedOnce /\ t \notin Linked => LinkedOnce'
<1>1. /\ Tail(list) \in Seq(Tasks) /\ Len(Tail(list)) = Len(list) - 1 /\ Len(list) \in Nat \ {0}
      /\ \A i \in 1 .. Len(Tail(list)) : Tail(list)[i] = list[i + 1]
  BY HeadTailProperties, EmptySeq, LenProperties DEF TypeOK
<1>2. <<Task0, t>> \in Seq(Tasks) /\ Len(<<Task0, t>>) = 2
  OBVIOUS
<1>3. /\ list' \in Seq(Tasks) /\ Len(list') = Len(list) + 1
      /\ \A i \in 1 .. Len(list') :
           list'[i] = IF i <= 2 THEN <<Task0, t>>[i] ELSE Tail(list)[i - 2]
  <2> DEFINE s1 == <<Task0, t>>
             s2 == Tail(list)
  <2>1. s1 \in Seq(Tasks) /\ s2 \in Seq(Tasks) /\ Len(s1) = 2 /\ Len(s2) = Len(list) - 1
    BY <1>1, <1>2
  <2>2. list' = s1 \o s2 OBVIOUS
  <2> HIDE DEF s1, s2
  <2>3. /\ s1 \o s2 \in Seq(Tasks) /\ Len(s1 \o s2) = Len(s1) + Len(s2)
        /\ \A i \in 1 .. Len(s1) + Len(s2) :
             (s1 \o s2)[i] = IF i <= Len(s1) THEN s1[i] ELSE s2[i - Len(s1)]
    BY ONLY <2>1, ConcatProperties
  <2>4. Len(list') = Len(list) + 1 BY <1>1, <2>1, <2>2, <2>3
  <2>5. \A i \in 1 .. Len(list') : list'[i] = IF i <= 2 THEN s1[i] ELSE s2[i - 2]
    BY <2>1, <2>2, <2>3, <2>4, <1>1
  <2> QED BY <2>2, <2>3, <2>4, <2>5 DEF s1, s2
<1>4. list'[1] = Task0 /\ list'[2] = t BY <1>1, <1>3
<1>5. \A i \in 3 .. Len(list') : list'[i] = list[i - 1]
  <2> TAKE i \in 3 .. Len(list')
  <2>1. list'[i] = Tail(list)[i - 2] /\ i - 2 \in 1 .. Len(Tail(list)) BY <1>1, <1>3
  <2> QED BY <1>1, <2>1
<1>6. Linked' \subseteq Linked \cup {t}
  <2> SUFFICES ASSUME NEW i \in 1 .. Len(list') PROVE list'[i] \in Linked \cup {t}
    BY DEF Linked
  <2>1. CASE i = 1 BY <2>1, <1>1, <1>4 DEF TypeOK, Linked
  <2>2. CASE i = 2 BY <2>2, <1>4
  <2>3. CASE i > 2
    <3>1. i - 1 \in 1 .. Len(list) /\ list'[i] = list[i - 1] BY <2>3, <1>1, <1>3, <1>5
    <3> QED BY <3>1 DEF Linked
  <2> QED BY <2>1, <2>2, <2>3
<1>7. Linked \cup {t} \subseteq Linked'
  <2>1. t \in Linked' BY <1>1, <1>3, <1>4 DEF Linked
  <2>2. ASSUME NEW i \in 1 .. Len(list) PROVE list[i] \in Linked'
    <3>1. CASE i = 1 BY <3>1, <1>1, <1>3, <1>4 DEF TypeOK, Linked
    <3>2. CASE i > 1
      <4>1. i + 1 \in 3 .. Len(list') /\ list'[i + 1] = list[i] BY <3>2, <1>1, <1>3, <1>5
      <4> QED BY <4>1 DEF Linked
    <3> QED BY <3>1, <3>2
  <2> QED BY <2>1, <2>2 DEF Linked
<1>8. ASSUME LinkedOnce, t \notin Linked PROVE LinkedOnce'
  <2> SUFFICES ASSUME NEW i \in 1 .. Len(list'), NEW j \in 1 .. Len(list'), i < j
               PROVE  list'[i] # list'[j]
    BY <1>1, <1>3 DEF LinkedOnce
  <2>1. ASSUME NEW k \in 1 .. Len(list') PROVE list'[k] = t <=> k = 2
    <3>1. CASE k = 1 BY <3>1, <1>1, <1>4, <1>8 DEF TypeOK, Linked
    <3>2. CASE k > 2
      <4>1. k - 1 \in 1 .. Len(list) /\ list'[k] = list[k - 1] BY <3>2, <1>1, <1>3, <1>5
      <4> QED BY <3>2, <4>1, <1>8 DEF Linked
    <3> QED BY <3>1, <3>2, <1>4, <1>1, <1>3
  <2>2. CASE i = 2 \/ j = 2 BY <2>1, <2>2
  <2>3. CASE i # 2 /\ j # 2
    <3> DEFINE From(k) == IF k = 1 THEN 1 ELSE k - 1
    <3>1. ASSUME NEW k \in 1 .. Len(list'), k # 2
          PROVE  From(k) \in 1 .. Len(list) /\ list'[k] = list[From(k)]
      <4>1. CASE k = 1
        <5>1. From(k) = 1 BY <4>1
        <5>2. list'[k] = Task0 /\ list[1] = Task0 BY <4>1, <1>4 DEF TypeOK
        <5> QED BY <5>1, <5>2, <1>1
      <4>2. CASE k > 2
        <5>1. From(k) = k - 1 BY <4>2
        <5>2. k - 1 \in 1 .. Len(list) /\ list'[k] = list[k - 1] BY <4>2, <1>1, <1>3, <1>5
        <5> QED BY <5>1, <5>2
      <4> QED BY <3>1, <4>1, <4>2, <1>1
    <3>2. /\ From(i) \in 1 .. Len(list) /\ list'[i] = list[From(i)]
          /\ From(j) \in 1 .. Len(list) /\ list'[j] = list[From(j)]
      BY <2>3, <3>1
    <3>3. From(i) # From(j) BY <2>3, <1>1, <1>3
    <3> QED BY <3>2, <3>3, <1>8 DEF LinkedOnce
  <2> QED BY <2>2, <2>3
<1> QED BY <1>1, <1>3, <1>4, <1>6, <1>7, <1>8

LEMMA LinkedType == ASSUME TypeOK PROVE Linked \subseteq Tasks /\ Task0 \in Linked
<1>1. Len(list) \in Nat \ {0} /\ \A i \in 1 .. Len(list) : list[i] \in Tasks
  BY EmptySeq, LenProperties, ElementOfSeq DEF TypeOK
<1> QED BY <1>1 DEF Linked, TypeOK

------------------------------------------------------------------------------
LEMMA InitInv == Init => SchedInv
<1> SUFFICES ASSUME Init PROVE SchedInv OBVIOUS
<1>1. list \in Seq(Tasks) /\ list # <<>> /\ list[1] = Task0 /\ Len(list) = 1 BY DEF Init
<1>2. Linked = {Task0} BY <1>1 DEF Linked
<1>3. <<>> \in Seq(Frame) /\ <<>> \in Seq(LinkedFrame) BY EmptySeq
<1>4. TypeOK
  <2>1. priority \in [Tasks -> Priority] BY DEF Init, Priority
  <2>2. op \in [Tasks -> Op] BY DEF Init, Idle, Op
  <2>3. timer \in [Tasks -> Seq(Frame)] BY <1>3 DEF Init
  <2>4. state \in [Tasks -> TaskState] /\ current \in Tasks /\ halted \in BOOLEAN
        /\ queue \in [Queues -> Tasks \cup {NoTask}]
    BY DEF Init, TaskState
  <2> QED BY <1>1, <2>1, <2>2, <2>3, <2>4 DEF TypeOK
<1>5. CallsWellFormed BY DEF Init, CallsWellFormed, Idle, Sleeping
<1>6. WalksLinked BY <1>3 DEF Init, WalksLinked, LinkedFrame
<1>7. WaitersStarted BY <1>2 DEF Init, WaitersStarted, Started, Idle
<1>8. NewbornNotDispatched /\ InitTaskReady
  BY DEF Init, NewbornNotDispatched, InitTaskReady, Idle
<1>9. LinkedOnce BY <1>1 DEF LinkedOnce
<1> QED BY <1>4, <1>5, <1>6, <1>7, <1>8, <1>9 DEF SchedInv

(* The walk steps of do_timer touch priorities and the stack only.         *)
LEMMA WalkInv ==
  ASSUME SchedInv, UNCHANGED <<list, state, current, queue, op, halted>>,
         priority' \in [Tasks -> Priority], timer' \in [Tasks -> Seq(LinkedFrame)]
  PROVE  SchedInv'
<1> USE DEF SchedInv
<1>1. UNCHANGED <<Linked, LinkedFrame, Started>> BY DEF Linked, LinkedFrame, Started
<1>2. LinkedFrame \subseteq Frame BY DEF LinkedFrame
<1>3. timer' \in [Tasks -> Seq(Frame)]
  <2>1. \A t \in Tasks : timer'[t] \in Seq(Frame) BY <1>2, SeqMonotonic
  <2> QED BY <2>1
<1>4. TypeOK' BY <1>3 DEF TypeOK
<1>5. CallsWellFormed' BY DEF CallsWellFormed
<1>6. WalksLinked' BY <1>1 DEF WalksLinked, LinkedFrame
<1>7. WaitersStarted' BY <1>1 DEF WaitersStarted
<1>8. NewbornNotDispatched' /\ InitTaskReady' BY DEF NewbornNotDispatched, InitTaskReady
<1>9. LinkedOnce' BY DEF LinkedOnce
<1> QED BY <1>4, <1>5, <1>6, <1>7, <1>8, <1>9

LEMMA TimerInterruptInv == SchedInv /\ TimerInterrupt => SchedInv'
<1> SUFFICES ASSUME SchedInv, TimerInterrupt PROVE SchedInv' OBVIOUS
<1> DEFINE f == At("test", Task0)
<1>1. f \in LinkedFrame BY LinkedType DEF LinkedFrame, Frame, Priority, SchedInv, At
<1>2. timer[current] \in Seq(LinkedFrame) BY DEF SchedInv, WalksLinked, LinkedFrame, TypeOK
<1> HIDE DEF f
<1>3. <<f>> \o timer[current] \in Seq(LinkedFrame) BY <1>1, <1>2, StackOps
<1>4. timer' \in [Tasks -> Seq(LinkedFrame)]
  BY <1>3 DEF SchedInv, WalksLinked, LinkedFrame, TimerInterrupt, f
<1> QED BY <1>4, WalkInv DEF TimerInterrupt, SchedInv, TypeOK

TimerWalk == TimerTest \/ TimerLoad \/ TimerStore \/ TimerClamp \/ TimerNext

LEMMA TimerWalkInv == SchedInv /\ TimerWalk => SchedInv'
<1> SUFFICES ASSUME SchedInv, TimerWalk PROVE SchedInv' OBVIOUS
<1> USE DEF SchedInv
<1>1. current \in Tasks /\ timer[current] # <<>>
  BY DEF TypeOK, TimerWalk, TimerTest, TimerLoad, TimerStore, TimerClamp, TimerNext, InTimer
<1>2. /\ InnerFrame \in LinkedFrame /\ InnerFrame.at \in Linked
      /\ InnerFrame.at \in Tasks /\ InnerFrame.acc \in Priority
  BY <1>1, InnerFrameType
<1>3. CASE TimerTest
  <2>1. Wrap(Charge(InnerFrame.at)) \in Priority BY ChargeType, WrapType
  <2>2. [InnerFrame EXCEPT !.pc = "load", !.acc = Wrap(Charge(InnerFrame.at)),
           !.charged = (state[InnerFrame.at] = "RUNNING")] \in LinkedFrame
    BY <1>2, <2>1 DEF LinkedFrame, Frame
  <2>3. timer' \in [Tasks -> Seq(LinkedFrame)] BY <1>1, <1>3, <2>2, SetFrameType DEF TimerTest
  <2> QED BY <1>3, <2>3, WalkInv DEF TimerTest, TypeOK
<1>4. CASE TimerLoad
  <2>1. Wrap(priority[InnerFrame.at] + InnerFrame.acc) \in Priority
    <3>1. priority[InnerFrame.at] \in Priority BY <1>2 DEF TypeOK
    <3>2. priority[InnerFrame.at] + InnerFrame.acc \in Int BY <1>2, <3>1 DEF Priority
    <3> QED BY <3>2, WrapType
  <2>2. [InnerFrame EXCEPT !.pc = "store",
           !.acc = Wrap(priority[InnerFrame.at] + InnerFrame.acc)] \in LinkedFrame
    BY <1>2, <2>1 DEF LinkedFrame, Frame
  <2>3. timer' \in [Tasks -> Seq(LinkedFrame)] BY <1>1, <1>4, <2>2, SetFrameType DEF TimerLoad
  <2> QED BY <1>4, <2>3, WalkInv DEF TimerLoad, TypeOK
<1>5. CASE TimerStore
  <2> DEFINE f == At(IF InnerFrame.charged /\ InnerFrame.acc = 0 THEN "clamp" ELSE "next",
                     InnerFrame.at)
  <2>1. f \in LinkedFrame BY <1>2 DEF LinkedFrame, Frame, Priority, At
  <2>2. SetFrame(f) BY <1>5 DEF TimerStore
  <2>3. timer' \in [Tasks -> Seq(LinkedFrame)] BY <1>1, <2>1, <2>2, SetFrameType
  <2>4. priority' \in [Tasks -> Priority] BY <1>2, <1>5 DEF TimerStore, TypeOK
  <2> QED BY <1>5, <2>3, <2>4, WalkInv DEF TimerStore
<1>6. CASE TimerClamp
  <2> DEFINE f == At("next", InnerFrame.at)
  <2>1. f \in LinkedFrame BY <1>2 DEF LinkedFrame, Frame, Priority, At
  <2>2. SetFrame(f) BY <1>6 DEF TimerClamp
  <2>3. timer' \in [Tasks -> Seq(LinkedFrame)] BY <1>1, <2>1, <2>2, SetFrameType
  <2>4. priority' \in [Tasks -> Priority] BY <1>2, <1>6 DEF TimerClamp, TypeOK, Priority
  <2> QED BY <1>6, <2>3, <2>4, WalkInv DEF TimerClamp
<1>7. CASE TimerNext
  <2> DEFINE i == Position(InnerFrame.at)
             f == IF i < Len(list) THEN At("test", list[i + 1]) ELSE At("resched", Task0)
  <2>1. i \in 1 .. Len(list) BY <1>2, PositionInList
  <2>2. Len(list) \in Nat BY LenProperties DEF TypeOK
  <2>3. i < Len(list) => list[i + 1] \in Linked BY <2>1, <2>2 DEF Linked
  <2>4. f \in LinkedFrame BY <2>3, LinkedType DEF LinkedFrame, Frame, Priority, At
  <2>5. SetFrame(f) BY <1>7 DEF TimerNext
  <2>6. timer' \in [Tasks -> Seq(LinkedFrame)] BY <1>1, <2>4, <2>5, SetFrameType
  <2> QED BY <1>7, <2>6, WalkInv DEF TimerNext, TypeOK
<1> QED BY <1>3, <1>4, <1>5, <1>6, <1>7 DEF TimerWalk

(* A task switch, whoever calls schedule().                                *)
LEMMA ScheduleInv ==
  ASSUME SchedInv, Schedule, list' = list, priority' = priority, queue' = queue, halted' = halted,
         CallsWellFormed', op' \in [Tasks -> Op],
         \A t \in Tasks : op'[t].task = op[t].task /\ (op'[t].pc = "start" <=> op[t].pc = "start"),
         timer' \in [Tasks -> Seq(LinkedFrame)]
  PROVE  SchedInv'
<1> USE DEF SchedInv
<1>1. Linked' = Linked /\ LinkedFrame' = LinkedFrame BY DEF Linked, LinkedFrame
<1>2. Started' = Started BY <1>1, TasksAssumption DEF Started
<1>3. WalksLinked' BY <1>1 DEF WalksLinked, LinkedFrame
<1>4. timer' \in [Tasks -> Seq(Frame)]
  <2>1. LinkedFrame \subseteq Frame BY DEF LinkedFrame
  <2>2. \A t \in Tasks : timer'[t] \in Seq(Frame) BY <2>1, SeqMonotonic
  <2> QED BY <2>2
<1>5. TypeOK' BY <1>4, ScheduleEffect DEF TypeOK
<1>6. op[Task0].pc = "start" => current' # op[Task0].task
  BY ScheduleEffect DEF NewbornNotDispatched, Selected, Candidates, Ready
<1>7. current' \in Started
  <2>1. CASE current' = current BY <2>1 DEF WaitersStarted
  <2>2. CASE current' # current
    BY <2>2, <1>6, ScheduleEffect DEF Selected, Candidates, Started
  <2> QED BY <2>1, <2>2
<1>8. WaitersStarted' BY <1>2, <1>7 DEF WaitersStarted
<1>9. NewbornNotDispatched'
  <2> SUFFICES ASSUME op'[Task0].pc = "start"
               PROVE  state'[op[Task0].task] = "STOPPED" /\ current' # op[Task0].task
    BY DEF NewbornNotDispatched
  <2>1. op[Task0].pc = "start" /\ op[Task0].task \in Tasks BY DEF CallsWellFormed
  <2> QED BY <2>1, <1>6, ScheduleEffect DEF NewbornNotDispatched
<1>10. InitTaskReady' BY ScheduleEffect DEF InitTaskReady, TypeOK
<1>11. LinkedOnce' BY DEF LinkedOnce
<1> QED BY <1>3, <1>5, <1>8, <1>9, <1>10, <1>11

LEMMA TimerReschedInv == SchedInv /\ TimerResched => SchedInv'
<1> SUFFICES ASSUME SchedInv, TimerResched PROVE SchedInv' OBVIOUS
<1>1. current \in Tasks /\ timer[current] # <<>>
  BY DEF SchedInv, TypeOK, TimerResched, InTimer
<1>2. timer' \in [Tasks -> Seq(LinkedFrame)]
  BY <1>1, InnerFrameType DEF SchedInv, WalksLinked, LinkedFrame, TimerResched
<1>3. CallsWellFormed' /\ op' = op /\ op \in [Tasks -> Op]
  BY DEF SchedInv, CallsWellFormed, TimerResched, TypeOK
<1> QED BY <1>2, <1>3, ScheduleInv DEF TimerResched

LEMMA SleepScheduleInv == SchedInv /\ SleepSchedule => SchedInv'
<1> SUFFICES ASSUME SchedInv, SleepSchedule PROVE SchedInv' OBVIOUS
<1>1. current \in Tasks /\ current # Task0 /\ op[current].pc = "resched"
  BY DEF SchedInv, TypeOK, CallsWellFormed, SleepSchedule, InTask, Sleeping
<1>2. op' \in [Tasks -> Op] /\ op'[Task0] = op[Task0]
  BY <1>1 DEF SchedInv, TypeOK, SleepSchedule, Goto, Op
<1>3. \A t \in Tasks : op'[t].task = op[t].task /\ (op'[t].pc = "start" <=> op[t].pc = "start")
  BY <1>1 DEF SchedInv, TypeOK, SleepSchedule, Goto, Op
<1>4. CallsWellFormed'
  BY <1>1, <1>2 DEF SchedInv, CallsWellFormed, SleepSchedule, Goto, TypeOK, Op
<1>5. timer' \in [Tasks -> Seq(LinkedFrame)]
  BY DEF SchedInv, WalksLinked, LinkedFrame, SleepSchedule
<1> QED BY <1>2, <1>3, <1>4, <1>5, ScheduleInv DEF SleepSchedule

(* The steps of calls: list, current and the stacks stay.                  *)
LEMMA CallInv ==
  ASSUME SchedInv, UNCHANGED <<list, current, timer>>,
         state' \in [Tasks -> TaskState], priority' \in [Tasks -> Priority],
         queue' \in [Queues -> Tasks \cup {NoTask}], op' \in [Tasks -> Op], halted' \in BOOLEAN,
         op'[Task0].pc = "start" <=> op[Task0].pc = "start",
         op'[Task0].pc = "start" =>
           op'[Task0] = op[Task0] /\ state'[op[Task0].task] = state[op[Task0].task],
         state'[Task0] = state[Task0],
         \A q \in Queues : queue'[q] \in (Started \ {Task0}) \cup {NoTask},
         \A t \in Tasks : op'[t].pc # "start" => op'[t].task \in (Started \ {Task0}) \cup {NoTask},
         CallsWellFormed'
  PROVE  SchedInv'
<1> USE DEF SchedInv
<1>1. Linked' = Linked BY DEF Linked
<1>2. Started' = Started BY <1>1 DEF Started
<1>3. TypeOK' BY DEF TypeOK
<1>4. WalksLinked' BY <1>1 DEF WalksLinked
<1>5. WaitersStarted' BY <1>2 DEF WaitersStarted
<1>6. NewbornNotDispatched' BY DEF NewbornNotDispatched
<1>7. InitTaskReady' BY DEF InitTaskReady
<1>8. LinkedOnce' BY DEF LinkedOnce
<1> QED BY <1>3, <1>4, <1>5, <1>6, <1>7, <1>8

(* A call that only the current task, not task0, can be in.                *)
LEMMA SleeperInv ==
  SchedInv /\ (SleepEnqueue \/ SleepBlock \/ SleepDrop \/ SleepReturn) => SchedInv'
<1> SUFFICES ASSUME SchedInv, SleepEnqueue \/ SleepBlock \/ SleepDrop \/ SleepReturn
             PROVE  SchedInv'
  OBVIOUS
<1> USE DEF SchedInv
<1>1. /\ current \in Tasks /\ current # Task0 /\ current \in Started
      /\ op[current] \in Op /\ op[current].pc \in Sleeping
  BY DEF TypeOK, CallsWellFormed, WaitersStarted, Sleeping, InTask,
         SleepEnqueue, SleepBlock, SleepDrop, SleepReturn
<1>2. op[current].task \in (Started \ {Task0}) \cup {NoTask}
  BY <1>1 DEF WaitersStarted, Sleeping
<1>3. op[Task0].pc = "start" =>
        op[Task0].task \in Tasks /\ op[Task0].task \notin Started /\ op[Task0].task # current
  BY <1>1 DEF CallsWellFormed, Started
<1>4. CASE SleepEnqueue
  <2>1. op[current].q \in Queues BY <1>1, <1>4 DEF CallsWellFormed, SleepEnqueue, InTask
  <2>2. op' \in [Tasks -> Op] /\ CallsWellFormed'
    BY <1>1, <1>4 DEF TypeOK, CallsWellFormed, SleepEnqueue, Goto, Op
  <2>3. queue' \in [Queues -> Tasks \cup {NoTask}]
    BY <1>1, <1>4, <2>1 DEF TypeOK, SleepEnqueue
  <2>4. \A q \in Queues : queue'[q] \in (Started \ {Task0}) \cup {NoTask}
    BY <1>1, <1>4, <2>1 DEF TypeOK, SleepEnqueue, WaitersStarted
  <2>5. \A t \in Tasks : op'[t].pc # "start" => op'[t].task \in (Started \ {Task0}) \cup {NoTask}
    BY <1>1, <1>2, <1>4 DEF TypeOK, SleepEnqueue, WaitersStarted, Goto, Op
  <2>6. op'[Task0] = op[Task0] BY <1>1, <1>4 DEF TypeOK, SleepEnqueue, Goto
  <2> QED BY <1>4, <2>2, <2>3, <2>4, <2>5, <2>6, CallInv DEF SleepEnqueue, TypeOK
<1>5. CASE SleepBlock
  <2>1. state' \in [Tasks -> TaskState] /\ state'[Task0] = state[Task0]
    BY <1>1, <1>5 DEF TypeOK, SleepBlock, TaskState
  <2>2. op' \in [Tasks -> Op] /\ CallsWellFormed'
    BY <1>1, <1>5 DEF TypeOK, CallsWellFormed, SleepBlock, Goto, Op
  <2>3. \A t \in Tasks : op'[t].pc # "start" => op'[t].task \in (Started \ {Task0}) \cup {NoTask}
    BY <1>1, <1>2, <1>5 DEF TypeOK, SleepBlock, WaitersStarted, Goto, Op
  <2>4. op'[Task0] = op[Task0] BY <1>1, <1>5 DEF TypeOK, SleepBlock, Goto
  <2>5. op[Task0].pc = "start" => state'[op[Task0].task] = state[op[Task0].task]
    BY <1>3, <1>5 DEF TypeOK, SleepBlock
  <2> QED BY <1>5, <2>1, <2>2, <2>3, <2>4, <2>5, CallInv DEF SleepBlock, TypeOK, WaitersStarted
<1>6. CASE SleepDrop
  <2>1. priority' \in [Tasks -> Priority] BY <1>6 DEF TypeOK, SleepDrop, Priority
  <2>2. op' \in [Tasks -> Op] /\ CallsWellFormed'
    BY <1>1, <1>6 DEF TypeOK, CallsWellFormed, SleepDrop, Goto, Op
  <2>3. \A t \in Tasks : op'[t].pc # "start" => op'[t].task \in (Started \ {Task0}) \cup {NoTask}
    BY <1>1, <1>2, <1>6 DEF TypeOK, SleepDrop, WaitersStarted, Goto, Op
  <2>4. op'[Task0] = op[Task0] BY <1>1, <1>6 DEF TypeOK, SleepDrop, Goto
  <2> QED BY <1>6, <2>1, <2>2, <2>3, <2>4, CallInv DEF SleepDrop, TypeOK, WaitersStarted
<1>7. CASE SleepReturn
  <2>1. state' \in [Tasks -> TaskState] /\ state'[Task0] = state[Task0]
    BY <1>2, <1>7 DEF TypeOK, SleepReturn, TaskState
  <2>2. op' \in [Tasks -> Op] /\ CallsWellFormed'
    BY <1>1, <1>7 DEF TypeOK, CallsWellFormed, SleepReturn, Done, Idle, Op
  <2>3. \A t \in Tasks : op'[t].pc # "start" => op'[t].task \in (Started \ {Task0}) \cup {NoTask}
    BY <1>1, <1>7 DEF TypeOK, SleepReturn, WaitersStarted, Done, Idle
  <2>4. op'[Task0] = op[Task0] BY <1>1, <1>7 DEF TypeOK, SleepReturn, Done
  <2>5. op[Task0].pc = "start" => state'[op[Task0].task] = state[op[Task0].task]
    BY <1>2, <1>3, <1>7 DEF TypeOK, SleepReturn
  <2> QED BY <1>7, <2>1, <2>2, <2>3, <2>4, <2>5, CallInv DEF SleepReturn, TypeOK, WaitersStarted
<1> QED BY <1>4, <1>5, <1>6, <1>7

LEMMA BeginInv ==
  ASSUME SchedInv, NEW q \in Queues, SleepBegin(q) \/ WakeBegin(q)
  PROVE  SchedInv'
<1> USE DEF SchedInv
<1>1. current \in Tasks /\ op[current].pc = "idle" /\ queue[q] \in (Started \ {Task0}) \cup {NoTask}
  BY DEF TypeOK, WaitersStarted, SleepBegin, WakeBegin, InTask
<1>2. \E r \in Op :
        /\ op' = [op EXCEPT ![current] = r]
        /\ r.pc \in {"enqueue", "mark"} /\ (r.pc = "enqueue" => current # Task0)
        /\ r.q = q /\ r.task \in (Started \ {Task0}) \cup {NoTask}
  <2>1. CASE SleepBegin(q)
    <3> DEFINE r == [pc |-> "enqueue", q |-> q, task |-> queue[q]]
    <3>1. r \in Op BY DEF TypeOK, Op
    <3> QED BY <1>1, <2>1, <3>1 DEF SleepBegin, MaySleep
  <2>2. CASE WakeBegin(q)
    <3> DEFINE r == [pc |-> "mark", q |-> q, task |-> NoTask]
    <3>1. r \in Op BY DEF Op
    <3> QED BY <2>2, <3>1 DEF WakeBegin
  <2> QED BY <2>1, <2>2
<1>3. PICK r \in Op :
        /\ op' = [op EXCEPT ![current] = r]
        /\ r.pc \in {"enqueue", "mark"} /\ (r.pc = "enqueue" => current # Task0)
        /\ r.q = q /\ r.task \in (Started \ {Task0}) \cup {NoTask}
  BY <1>2
<1>4. op' \in [Tasks -> Op] /\ CallsWellFormed'
  BY <1>1, <1>3 DEF TypeOK, CallsWellFormed, Sleeping
<1>5. \A t \in Tasks : op'[t].pc # "start" => op'[t].task \in (Started \ {Task0}) \cup {NoTask}
  BY <1>1, <1>3 DEF TypeOK, WaitersStarted
<1>6. /\ op'[Task0].pc = "start" <=> op[Task0].pc = "start"
      /\ op'[Task0].pc = "start" => op'[Task0] = op[Task0]
  BY <1>1, <1>3 DEF TypeOK
<1> QED BY <1>4, <1>5, <1>6, CallInv DEF SleepBegin, WakeBegin, TypeOK, WaitersStarted

LEMMA SleepInitInv == SchedInv /\ SleepInit => SchedInv'
BY CallInv DEF SchedInv, SleepInit, TypeOK, WaitersStarted, CallsWellFormed

LEMMA WakerInv == SchedInv /\ (WakeMark \/ WakeUnlink) => SchedInv'
<1> SUFFICES ASSUME SchedInv, WakeMark \/ WakeUnlink PROVE SchedInv' OBVIOUS
<1> USE DEF SchedInv
<1>1. /\ current \in Tasks /\ op[current] \in Op /\ op[current].pc \in {"mark", "unlink"}
      /\ op[current].q \in Queues /\ op[current].task \in (Started \ {Task0}) \cup {NoTask}
  BY DEF TypeOK, CallsWellFormed, WaitersStarted, InTask, WakeMark, WakeUnlink
<1>2. op[Task0].pc = "start" =>
        op[Task0].task \in Tasks /\ op[Task0].task \notin Started /\ current # Task0
  BY <1>1 DEF CallsWellFormed, Started
<1>3. CASE WakeMark
  <2>1. queue[op[current].q] \in (Started \ {Task0}) \cup {NoTask}
    BY <1>1 DEF WaitersStarted
  <2>2. /\ state' \in [Tasks -> TaskState] /\ state'[Task0] = state[Task0]
        /\ op[Task0].pc = "start" => state'[op[Task0].task] = state[op[Task0].task]
    BY <1>2, <1>3, <2>1 DEF TypeOK, WakeMark, TaskState
  <2>3. op' \in [Tasks -> Op] /\ CallsWellFormed'
    BY <1>1, <1>3 DEF TypeOK, CallsWellFormed, WakeMark, Goto, Op, Sleeping
  <2>4. \A t \in Tasks : op'[t].pc # "start" => op'[t].task \in (Started \ {Task0}) \cup {NoTask}
    BY <1>1, <1>3 DEF TypeOK, WakeMark, WaitersStarted, Goto, Op
  <2>5. /\ op'[Task0].pc = "start" <=> op[Task0].pc = "start"
        /\ op'[Task0].pc = "start" => op'[Task0] = op[Task0]
    BY <1>1, <1>3 DEF TypeOK, WakeMark, Goto, Op
  <2> QED BY <1>3, <2>2, <2>3, <2>4, <2>5, CallInv DEF WakeMark, TypeOK, WaitersStarted
<1>4. CASE WakeUnlink
  <2>1. /\ queue' \in [Queues -> Tasks \cup {NoTask}]
        /\ \A q \in Queues : queue'[q] \in (Started \ {Task0}) \cup {NoTask}
    BY <1>1, <1>4 DEF TypeOK, WakeUnlink, WaitersStarted
  <2>2. op' \in [Tasks -> Op] /\ CallsWellFormed'
    BY <1>1, <1>4 DEF TypeOK, CallsWellFormed, WakeUnlink, Done, Idle, Op, Sleeping
  <2>3. \A t \in Tasks : op'[t].pc # "start" => op'[t].task \in (Started \ {Task0}) \cup {NoTask}
    BY <1>1, <1>4 DEF TypeOK, WakeUnlink, WaitersStarted, Done, Idle
  <2>4. /\ op'[Task0].pc = "start" <=> op[Task0].pc = "start"
        /\ op'[Task0].pc = "start" => op'[Task0] = op[Task0]
    BY <1>1, <1>4 DEF TypeOK, WakeUnlink, Done, Idle
  <2> QED BY <1>4, <2>1, <2>2, <2>3, <2>4, CallInv DEF WakeUnlink, TypeOK, WaitersStarted
<1> QED BY <1>3, <1>4

(* new_task links a task nothing else points to, and only then frees it.   *)
LEMMA NewTaskInv == ASSUME SchedInv, NEW t \in Tasks, NewTask(t) PROVE SchedInv'
<1> USE DEF SchedInv
<1> DEFINE r == [pc |-> "start", q |-> NoTask, task |-> t]
<1>1. /\ current = Task0 /\ t \notin Linked /\ op[Task0].pc = "idle" /\ t # Task0
      /\ op' = [op EXCEPT ![Task0] = r] /\ r \in Op /\ t # NoTask
  BY LinkedType DEF NewTask, InTask, Op
<1>2. /\ list' \in Seq(Tasks) /\ list' # <<>> /\ list'[1] = Task0
      /\ Linked' = Linked \cup {t}
  BY LinkEffect DEF NewTask
<1>3. Started = Linked /\ Started' = Linked
  BY <1>1, <1>2 DEF Started, TypeOK
<1>4. priority' \in [Tasks -> Priority] /\ state' \in [Tasks -> TaskState]
  BY DEF NewTask, TypeOK, Priority, TaskState, LinkState
<1>5. TypeOK' BY <1>1, <1>2, <1>4 DEF TypeOK, NewTask
<1>6. CallsWellFormed' BY <1>1 DEF CallsWellFormed, TypeOK, Sleeping
<1>7. WalksLinked'
  <2>1. LinkedFrame \subseteq LinkedFrame' BY <1>2 DEF LinkedFrame
  <2>2. timer \in [Tasks -> Seq(LinkedFrame)] BY DEF WalksLinked, LinkedFrame
  <2>3. \A u \in Tasks : timer[u] \in Seq(LinkedFrame') BY <2>1, <2>2, SeqMonotonic
  <2>4. timer \in [Tasks -> Seq(LinkedFrame')] BY <2>2, <2>3
  <2> QED BY <2>4 DEF WalksLinked, LinkedFrame, NewTask
<1>8. WaitersStarted'
  <2>1. \A q \in Queues : queue'[q] \in (Linked \ {Task0}) \cup {NoTask}
    BY <1>3 DEF WaitersStarted, NewTask
  <2>2. \A u \in Tasks : op'[u].pc # "start" => op'[u].task \in (Linked \ {Task0}) \cup {NoTask}
    BY <1>1, <1>3 DEF WaitersStarted, TypeOK
  <2> QED BY <1>1, <1>3, <2>1, <2>2, LinkedType DEF WaitersStarted, NewTask
<1>9. NewbornNotDispatched' /\ InitTaskReady'
  BY <1>1 DEF NewbornNotDispatched, InitTaskReady, NewTask, TypeOK, LinkState
<1>10. LinkedOnce' BY <1>1, LinkEffect DEF NewTask
<1> QED BY <1>5, <1>6, <1>7, <1>8, <1>9, <1>10

LEMMA StartTaskInv == SchedInv /\ StartTask => SchedInv'
<1> SUFFICES ASSUME SchedInv, StartTask PROVE SchedInv' OBVIOUS
<1> USE DEF SchedInv
<1>1. /\ current = Task0 /\ op[Task0].pc = "start" /\ op[Task0].task \in Tasks \ {Task0}
      /\ op' = [op EXCEPT ![Task0] = Idle] /\ Idle \in Op
  BY DEF TypeOK, CallsWellFormed, NewbornNotDispatched, StartTask, InTask, Done, Idle, Op
<1>2. Linked' = Linked BY DEF Linked, StartTask
<1>3. Started' = Linked /\ Started \subseteq Linked BY <1>1, <1>2 DEF Started, TypeOK, Idle
<1>4. TypeOK' BY <1>1 DEF TypeOK, StartTask, TaskState
<1>5. CallsWellFormed' BY <1>1 DEF TypeOK, CallsWellFormed, Idle, Sleeping
<1>6. WalksLinked' BY <1>2 DEF WalksLinked, StartTask
<1>7. WaitersStarted' BY <1>1, <1>3 DEF WaitersStarted, StartTask, TypeOK, Idle
<1>8. NewbornNotDispatched' /\ InitTaskReady'
  BY <1>1 DEF NewbornNotDispatched, InitTaskReady, StartTask, TypeOK, Idle
<1>9. LinkedOnce' BY DEF LinkedOnce, StartTask
<1> QED BY <1>4, <1>5, <1>6, <1>7, <1>8, <1>9

LEMMA StutterInv == SchedInv /\ UNCHANGED vars => SchedInv'
<1> SUFFICES ASSUME SchedInv, UNCHANGED vars PROVE SchedInv' OBVIOUS
<1>1. timer' \in [Tasks -> Seq(LinkedFrame)]
  BY DEF vars, SchedInv, WalksLinked, LinkedFrame
<1> QED BY <1>1, WalkInv DEF vars, SchedInv, TypeOK

LEMMA StepInv == SchedInv /\ [Next]_vars => SchedInv'
BY TimerInterruptInv, TimerWalkInv, TimerReschedInv, SleepScheduleInv, SleeperInv, BeginInv,
   SleepInitInv, WakerInv, NewTaskInv, StartTaskInv, StutterInv
   DEF Next, TimerWalk, TimerStep, CallStep, Call, Halted
------------------------------------------------------------------------------
(* The invariant of the scheduler holds in every reachable state.          *)
THEOREM Invariant == Spec => []SchedInv
BY InitInv, StepInv, PTL DEF Spec

(* Every variable has its type.                                            *)
THEOREM TypeCorrect == Spec => []TypeOK
<1>1. SchedInv => TypeOK BY DEF SchedInv
<1> QED BY <1>1, Invariant, PTL

(* sleep_on's guard keeps the init task RUNNING or RUNABLE for ever, so    *)
(* there is always a task to fall back to (sched.c:165).                   *)
THEOREM InitTaskAlwaysReady == Spec => []InitTaskReady
<1>1. SchedInv => InitTaskReady BY DEF SchedInv
<1> QED BY <1>1, Invariant, PTL

(* No tick finds a half-made task it could switch to (sched.c:66-69).      *)
THEOREM NewbornSafe == Spec => []NewbornNotDispatched
<1>1. SchedInv => NewbornNotDispatched BY DEF SchedInv
<1> QED BY <1>1, Invariant, PTL

(* Every non-empty set of natural numbers has a least element.             *)
LEMMA LeastNat ==
  ASSUME NEW T, T \subseteq Nat, T # {}
  PROVE  \E n \in T : \A m \in T : n <= m
<1> DEFINE R == {ss \in Nat \X Nat : ss[1] < ss[2]}
<1>1. IsWellFoundedOn(R, Nat) BY NatLessThanWellFounded, Zenon DEF OpToRel
<1>2. \E x \in T : \A y \in T : ~ (<<y, x>> \in R)
  <2> HIDE DEF R
  <2> QED BY <1>1, WFMin
<1>3. PICK x \in T : \A y \in T : ~ (<<y, x>> \in R) BY <1>2
<1>4. \A y \in T : ~(y < x) BY <1>3
<1> QED BY <1>4

(* The loop of schedule().  Turn(f, i) is its i-th turn after those in f;  *)
(* Best(i, r) says that r.tmp is the first of the highest candidates among *)
(* the first i tasks of the list, and r.cp its priority.                   *)
Turn(f, i) ==
  IF i = 0 THEN [tmp |-> NoTask, cp |-> priority[current]]
  ELSE IF Ready(list[i]) /\ f[i - 1].cp < priority[list[i]]
       THEN [tmp |-> list[i], cp |-> priority[list[i]]]
       ELSE f[i - 1]

Best(i, r) ==
  \/ /\ r = [tmp |-> NoTask, cp |-> priority[current]]
     /\ \A j \in 1 .. i : list[j] \notin Candidates
  \/ \E k \in 1 .. i :
       /\ r = [tmp |-> list[k], cp |-> priority[list[k]]]
       /\ list[k] \in Candidates
       /\ \A j \in 1 .. i : list[j] \in Candidates =>
            \/ priority[list[j]] < priority[list[k]]
            \/ priority[list[j]] = priority[list[k]] /\ k <= j

(* One more turn keeps the best so far the best.                           *)
LEMMA TurnBest ==
  ASSUME TypeOK, NEW f, NEW i \in 1 .. Len(list), Best(i - 1, f[i - 1])
  PROVE  Best(i, Turn(f, i))
<1> DEFINE c == priority[current]
           p(j) == priority[list[j]]
           v == list[i]
<1>1. Len(list) \in Nat /\ i \in Nat \ {0} /\ i - 1 \in Nat BY LenProperties DEF TypeOK
<1>2. \A j \in 1 .. i : list[j] \in Linked /\ list[j] \in Tasks
  BY <1>1, LinkedType DEF Linked
<1>3. c \in Int /\ \A j \in 1 .. i : p(j) \in Int
  <2>1. Priority \subseteq Int BY DEF Priority
  <2>2. \A t \in Tasks : priority[t] \in Priority BY DEF TypeOK
  <2>3. current \in Tasks BY DEF TypeOK
  <2> QED BY <1>2, <2>1, <2>2, <2>3
<1>4. \A j \in 1 .. i : list[j] \in Candidates <=> Ready(list[j]) /\ p(j) > c
  BY <1>2 DEF Candidates
<1>5. Turn(f, i) = IF Ready(v) /\ f[i - 1].cp < p(i) THEN [tmp |-> v, cp |-> p(i)] ELSE f[i - 1]
  BY <1>1 DEF Turn
<1>6. 1 .. i = (1 .. i - 1) \cup {i} BY <1>1
<1>7. CASE /\ f[i - 1] = [tmp |-> NoTask, cp |-> c]
           /\ \A j \in 1 .. i - 1 : list[j] \notin Candidates
  <2>1. f[i - 1].cp = c BY <1>7
  <2>2. CASE v \in Candidates
    <3>1. Turn(f, i) = [tmp |-> v, cp |-> p(i)] BY <1>1, <1>3, <1>4, <1>5, <2>1, <2>2
    <3>2. \A j \in 1 .. i : list[j] \in Candidates => p(j) = p(i) /\ i <= j BY <1>1, <1>6, <1>7
    <3> QED BY <1>1, <2>2, <3>1, <3>2 DEF Best
  <2>3. CASE v \notin Candidates
    <3>1. Turn(f, i) = f[i - 1] BY <1>1, <1>3, <1>4, <1>5, <2>1, <2>3
    <3> QED BY <1>6, <1>7, <2>3, <3>1 DEF Best
  <2> QED BY <2>2, <2>3
<1>8. ASSUME NEW k \in 1 .. i - 1,
             f[i - 1] = [tmp |-> list[k], cp |-> p(k)],
             list[k] \in Candidates,
             \A j \in 1 .. i - 1 : list[j] \in Candidates =>
               p(j) < p(k) \/ (p(j) = p(k) /\ k <= j)
      PROVE  Best(i, Turn(f, i))
  <2>1. f[i - 1].cp = p(k) /\ k \in 1 .. i /\ k < i /\ p(k) > c /\ p(k) \in Int /\ p(i) \in Int
    BY <1>1, <1>3, <1>4, <1>8
  <2>2. CASE Ready(v) /\ p(k) < p(i)
    <3>1. Turn(f, i) = [tmp |-> v, cp |-> p(i)] BY <1>5, <2>1, <2>2
    <3>2. v \in Candidates BY <1>1, <1>3, <1>4, <2>1, <2>2
    <3>3. ASSUME NEW j \in 1 .. i, list[j] \in Candidates
          PROVE  p(j) < p(i) \/ (p(j) = p(i) /\ i <= j)
      <4>1. CASE j = i BY <4>1, <1>1
      <4>2. CASE j \in 1 .. i - 1
        <5>1. p(j) < p(k) \/ p(j) = p(k) BY <4>2, <3>3, <1>8
        <5>2. p(j) \in Int BY <1>3
        <5> HIDE DEF p
        <5> QED BY <2>1, <2>2, <5>1, <5>2
      <4> QED BY <4>1, <4>2, <1>6
    <3>4. i \in 1 .. i BY <1>1
    <3> QED BY <3>1, <3>2, <3>3, <3>4, Zenon DEF Best
  <2>3. CASE ~(Ready(v) /\ p(k) < p(i))
    <3>1. Turn(f, i) = f[i - 1] BY <1>5, <2>1, <2>3
    <3>2. v \in Candidates => p(i) < p(k) \/ (p(i) = p(k) /\ k <= i)
      BY <1>1, <1>4, <2>1, <2>3
    <3>3. \A j \in 1 .. i : list[j] \in Candidates => p(j) < p(k) \/ (p(j) = p(k) /\ k <= j)
      BY <1>6, <1>8, <3>2
    <3>4. Turn(f, i) = [tmp |-> list[k], cp |-> p(k)] BY <1>8, <3>1
    <3> QED BY <1>8, <2>1, <3>3, <3>4, Zenon DEF Best
  <2> QED BY <2>2, <2>3
<1> QED BY <1>7, <1>8 DEF Best

(* There is one best, and every number of turns has it.                    *)
LEMMA BestUnique ==
  ASSUME TypeOK, NEW i \in 0 .. Len(list), NEW r, NEW s, Best(i, r), Best(i, s)
  PROVE  r = s
<1> DEFINE p(j) == priority[list[j]]
<1>1. Len(list) \in Nat BY LenProperties DEF TypeOK
<1>2. ASSUME NEW k \in 1 .. i PROVE p(k) \in Int
  <2>1. list[k] \in Tasks BY <1>1, LinkedType DEF Linked
  <2> QED BY <2>1 DEF TypeOK, Priority
<1>3. ASSUME NEW k \in 1 .. i, NEW l \in 1 .. i,
             list[k] \in Candidates, list[l] \in Candidates,
             \A j \in 1 .. i : list[j] \in Candidates =>
               p(j) < p(k) \/ (p(j) = p(k) /\ k <= j),
             \A j \in 1 .. i : list[j] \in Candidates =>
               p(j) < p(l) \/ (p(j) = p(l) /\ l <= j)
      PROVE  k = l
  <2>1. p(l) < p(k) \/ (p(l) = p(k) /\ k <= l) BY <1>3
  <2>2. p(k) < p(l) \/ (p(k) = p(l) /\ l <= k) BY <1>3
  <2>3. p(k) \in Int /\ p(l) \in Int /\ k \in Int /\ l \in Int BY <1>1, <1>2
  <2> HIDE DEF p
  <2> QED BY ONLY <2>1, <2>2, <2>3
<1> QED BY <1>3, Zenon DEF Best

LEMMA BestExists == ASSUME TypeOK, NEW i \in 0 .. Len(list) PROVE \E r : Best(i, r)
<1> DEFINE T == {j \in 0 .. Len(list) : ~\E r : Best(j, r)}
<1>1. Len(list) \in Nat BY LenProperties DEF TypeOK
<1>2. ASSUME T # {} PROVE FALSE
  <2>1. T \subseteq Nat BY <1>1
  <2>2. PICK j \in T : \A k \in T : j <= k
    <3> HIDE DEF T
    <3> QED BY <1>2, <2>1, LeastNat
  <2>3. Best(0, [tmp |-> NoTask, cp |-> priority[current]]) BY DEF Best
  <2>4. j \in 1 .. Len(list) BY <1>1, <2>3
  <2>5. j - 1 \in 0 .. Len(list) /\ j - 1 \notin T BY <1>1, <2>2, <2>4
  <2>6. PICK r : Best(j - 1, r) BY <2>5
  <2> DEFINE f == [k \in 0 .. Len(list) |-> r]
  <2>7. f[j - 1] = r BY <2>5
  <2>8. Best(j, Turn(f, j))
    <3> HIDE DEF f
    <3> QED BY <2>4, <2>6, <2>7, TurnBest
  <2> QED BY <2>8
<1> QED BY <1>2

(* So the recursion that defines Scan has a solution ...                   *)
LEMMA ScanTurns ==
  ASSUME TypeOK
  PROVE  \A i \in 0 .. Len(list) : Scan[i] = Turn(Scan, i)
<1> DEFINE D == 0 .. Len(list)
           Walk(f) == f = [i \in D |->
                             IF i = 0 THEN [tmp |-> NoTask, cp |-> priority[current]]
                             ELSE IF Ready(list[i]) /\ f[i - 1].cp < priority[list[i]]
                                  THEN [tmp |-> list[i], cp |-> priority[list[i]]]
                                  ELSE f[i - 1]]
           w == [i \in D |-> CHOOSE r : Best(i, r)]
<1>1. Len(list) \in Nat BY LenProperties DEF TypeOK
<1>2. \A i \in D : Best(i, w[i]) BY BestExists
<1>3. ASSUME NEW i \in D PROVE w[i] = Turn(w, i)
  <2>1. CASE i = 0
    <3>1. Best(0, Turn(w, 0)) BY DEF Best, Turn
    <3> QED BY <1>2, <2>1, <3>1, BestUnique
  <2>2. CASE i # 0
    <3>1. i \in 1 .. Len(list) /\ i - 1 \in D BY <1>1, <2>2
    <3>2. Best(i - 1, w[i - 1]) BY <1>2, <3>1
    <3> HIDE DEF w
    <3>3. Best(i, Turn(w, i)) BY <3>1, <3>2, TurnBest
    <3> QED BY <1>2, <3>3, BestUnique
  <2> QED BY <2>1, <2>2
<1>4. Walk(w)
  <2>1. w = [i \in D |-> w[i]] OBVIOUS
  <2>2. \A i \in D : w[i] = Turn(w, i) BY <1>3
  <2> HIDE DEF w, D
  <2> QED BY <2>1, <2>2 DEF Turn
<1>5. Scan = CHOOSE f : Walk(f) BY DEF Scan
<1> HIDE DEF w, D
<1>6. Walk(Scan)
  <2> HIDE DEF Walk
  <2> QED BY <1>4, <1>5
<1> QED BY <1>6 DEF Turn, D

(* ... and after i turns the loop has the best of the first i tasks.       *)
LEMMA ScanBest == ASSUME TypeOK, NEW i \in 0 .. Len(list) PROVE Best(i, Scan[i])
<1> DEFINE T == {j \in 0 .. Len(list) : ~Best(j, Scan[j])}
<1>1. Len(list) \in Nat BY LenProperties DEF TypeOK
<1>2. ASSUME T # {} PROVE FALSE
  <2>1. T \subseteq Nat BY <1>1
  <2>2. PICK j \in T : \A k \in T : j <= k
    <3> HIDE DEF T
    <3> QED BY <1>2, <2>1, LeastNat
  <2>3. Scan[j] = Turn(Scan, j) BY ScanTurns
  <2>4. Best(0, Turn(Scan, 0)) BY DEF Best, Turn
  <2>5. j \in 1 .. Len(list) BY <1>1, <2>3, <2>4
  <2>6. j - 1 \in 0 .. Len(list) /\ j - 1 \notin T BY <1>1, <2>2, <2>5
  <2>7. Best(j - 1, Scan[j - 1]) BY <2>6
  <2> QED BY <2>2, <2>3, <2>5, <2>7, TurnBest
<1> QED BY <1>2

(* With each task in the list once, the best of all is the task Selected.  *)
LEMMA BestSelected ==
  ASSUME TypeOK, LinkedOnce, NEW r, Best(Len(list), r)
  PROVE  {t \in Tasks : Selected(t)} = {r.tmp} \ {NoTask}
<1> DEFINE n == Len(list)
           p(j) == priority[list[j]]
<1>1. n \in Nat /\ \A j \in 1 .. n : list[j] \in Linked /\ list[j] \in Tasks
  BY LenProperties, LinkedType DEF TypeOK, Linked
<1>2. \A j \in 1 .. n : Position(list[j]) = j BY <1>1, PositionInList DEF LinkedOnce
<1>3. \A j \in 1 .. n : p(j) \in Int
  <2>1. \A t \in Tasks : priority[t] \in Priority BY DEF TypeOK
  <2>2. Priority \subseteq Int BY DEF Priority
  <2> QED BY <1>1, <2>1, <2>2
<1>4. \A t \in Candidates : \E j \in 1 .. n : t = list[j] BY DEF Candidates, Linked
<1>5. CASE /\ r = [tmp |-> NoTask, cp |-> priority[current]]
           /\ \A j \in 1 .. n : list[j] \notin Candidates
  <2>1. Candidates = {} BY <1>4, <1>5
  <2>2. r.tmp = NoTask BY <1>5
  <2> QED BY <2>1, <2>2 DEF Selected
<1>6. ASSUME NEW k \in 1 .. n,
             r = [tmp |-> list[k], cp |-> p(k)],
             list[k] \in Candidates,
             \A j \in 1 .. n : list[j] \in Candidates =>
               p(j) < p(k) \/ (p(j) = p(k) /\ k <= j)
      PROVE  {t \in Tasks : Selected(t)} = {r.tmp} \ {NoTask}
  <2>1. r.tmp = list[k] /\ list[k] \in Tasks /\ list[k] # NoTask BY <1>1, <1>6
  <2>2. Selected(list[k])
    <3> SUFFICES ASSUME NEW u \in Candidates PROVE Outranks(list[k], u)
      BY <1>6 DEF Selected
    <3>1. PICK j \in 1 .. n : u = list[j] BY <1>4
    <3>2. p(j) < p(k) \/ (p(j) = p(k) /\ k <= j) BY <1>6, <3>1
    <3>3. Position(u) = j /\ Position(list[k]) = k BY <1>2, <3>1
    <3>4. p(j) \in Int /\ p(k) \in Int BY <1>3
    <3> QED BY <3>1, <3>2, <3>3, <3>4 DEF Outranks
  <2>3. ASSUME NEW t, Selected(t) PROVE t = list[k]
    <3>1. PICK j \in 1 .. n : t = list[j] BY <1>4, <2>3 DEF Selected
    <3>2. list[j] \in Candidates /\ Outranks(list[j], list[k])
      BY <1>6, <2>3, <3>1 DEF Selected
    <3>3. p(j) < p(k) \/ (p(j) = p(k) /\ k <= j) BY <1>6, <3>2
    <3>4. p(j) > p(k) \/ (p(j) = p(k) /\ j <= k) BY <3>2, <1>2 DEF Outranks
    <3>5. p(j) \in Int /\ p(k) \in Int /\ j \in Int /\ k \in Int BY <1>1, <1>3
    <3>6. j = k
      <4> HIDE DEF p, n
      <4> QED BY ONLY <3>3, <3>4, <3>5
    <3> QED BY <3>1, <3>6
  <2> QED BY <2>1, <2>2, <2>3
<1>7. Best(n, r) OBVIOUS
<1> HIDE DEF n
<1> QED BY <1>5, <1>6, <1>7, Zenon DEF Best

(* schedule() dispatches the task its loop over the list ends with, or     *)
(* none with it, however the list has grown and the ticks have moved the   *)
(* priorities (sched.c:130-137).                                           *)
THEOREM LoopSelects == Spec => []SelectionIsLoop
<1>1. SchedInv => SelectionIsLoop
  <2> SUFFICES ASSUME SchedInv PROVE SelectionIsLoop OBVIOUS
  <2>1. Len(list) \in 0 .. Len(list) BY LenProperties DEF SchedInv, TypeOK
  <2>2. Best(Len(list), Scan[Len(list)]) BY <2>1, ScanBest DEF SchedInv
  <2> QED BY <2>2, BestSelected DEF SchedInv, SelectionIsLoop
<1> QED BY <1>1, Invariant, PTL

(* The processor changes hands in schedule() only.                         *)
LEMMA SwitchBySchedule ==
  ASSUME SchedInv, [Next]_vars, current' # current
  PROVE  Selected(current') /\ list' = list
<1>1. Schedule /\ list' = list
  BY DEF Next, vars, TimerInterrupt, TimerStep, TimerTest, TimerLoad, TimerStore, TimerClamp,
         TimerNext, TimerResched, CallStep, SleepEnqueue, SleepBlock, SleepDrop, SleepSchedule,
         SleepReturn, WakeMark, WakeUnlink, StartTask, Call, SleepInit, SleepBegin, WakeBegin,
         NewTask, Halted
<1> QED BY <1>1, ScheduleEffect DEF SchedInv

(* A task woken or blocked while another one runs is out for good: nothing *)
(* makes it RUNABLE, and schedule() takes RUNABLE tasks only.              *)
THEOREM Stranded == Spec => StrandedForever
<1> DEFINE Stays ==
      \A t \in Tasks :
        (t \in Linked /\ t # current /\ state[t] \notin {"RUNABLE", "STOPPED"})
          => (t # current' /\ state'[t] # "RUNABLE")
<1>1. ASSUME SchedInv, [Next]_vars PROVE [Stays]_vars
  <2> SUFFICES ASSUME NEW t \in Linked, t # current, t \in Tasks,
                      state[t] \notin {"RUNABLE", "STOPPED"}
               PROVE  t # current' /\ state'[t] # "RUNABLE"
    OBVIOUS
  <2>1. t # current'
    BY SwitchBySchedule, <1>1 DEF Selected, Candidates, Ready
  <2>2. state'[t] # "RUNABLE"
    <3>1. CASE Schedule
      BY <2>1, <3>1, ScheduleEffect, <1>1 DEF SchedInv
    <3>2. CASE state' = state BY <3>2
    <3>3. CASE SleepBlock BY <3>3, <1>1 DEF SleepBlock, SchedInv, TypeOK
    <3>4. CASE SleepReturn BY <3>4, <1>1 DEF SleepReturn
    <3>5. CASE WakeMark BY <3>5, <1>1 DEF WakeMark
    <3>6. CASE StartTask
      <4>1. op[current].pc = "start" /\ current = Task0
        BY <3>6, <1>1 DEF StartTask, InTask, SchedInv, CallsWellFormed, TypeOK
      <4>2. op[current].task # t BY <4>1, <1>1 DEF SchedInv, NewbornNotDispatched
      <4> QED BY <3>6, <4>2, <1>1 DEF StartTask, SchedInv, TypeOK
    <3>7. CASE \E u \in Tasks : NewTask(u) BY <3>7, <1>1 DEF NewTask, SchedInv, TypeOK
    <3> QED
      BY <3>1, <3>2, <3>3, <3>4, <3>5, <3>6, <3>7, <1>1
         DEF Next, vars, TimerInterrupt, TimerStep, TimerTest, TimerLoad, TimerStore,
             TimerClamp, TimerNext, TimerResched, CallStep, SleepEnqueue, SleepDrop,
             SleepSchedule, WakeUnlink,
             Call, SleepInit, SleepBegin, WakeBegin, Halted
  <2> QED BY <2>1, <2>2
<1>2. SchedInv /\ [Next]_vars => [Stays]_vars BY <1>1
<1> QED BY <1>2, Invariant, PTL DEF Spec, StrandedForever
==============================================================================
