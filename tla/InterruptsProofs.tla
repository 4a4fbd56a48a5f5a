-------------------------- MODULE InterruptsProofs ---------------------------
(***************************************************************************)
(* Proofs about Interrupts, for every set of tasks and every depth.        *)
(***************************************************************************)
EXTENDS Interrupts, SequenceTheorems, TLAPS

USE DEF Timer, Keyboard, Cascade, Line, Lines

LEMMA Pushed ==
  ASSUME NEW S, NEW s \in Seq(S), NEW a \in S
  PROVE  /\ <<a>> \o s \in Seq(S) /\ <<a>> \o s # <<>>
         /\ Head(<<a>> \o s) = a /\ Tail(<<a>> \o s) = s
<1>1. <<a>> \in Seq(S) /\ Len(<<a>>) = 1 /\ <<a>>[1] = a OBVIOUS
<1>2. <<a>> \o s \in Seq(S) /\ Len(<<a>> \o s) = 1 + Len(s) BY <1>1, ConcatProperties
<1>3. \A n \in 1 .. Len(s) : (<<a>> \o s)[n + 1] = s[n]
  BY <1>1, ConcatProperties
<1>4. Head(<<a>> \o s) = a BY <1>1, <1>2, ConcatProperties
<1>5. Tail(<<a>> \o s) = s
  <2>1. Tail(<<a>> \o s) \in Seq(S) /\ Len(Tail(<<a>> \o s)) = Len(s)
    BY <1>2, HeadTailProperties, EmptySeq
  <2>2. \A n \in 1 .. Len(s) : Tail(<<a>> \o s)[n] = s[n]
    BY <1>2, <1>3
  <2> QED BY <2>1, <2>2, SeqEqual
<1> QED BY <1>2, <1>4, <1>5

LEMMA Popped ==
  ASSUME NEW S, NEW s \in Seq(S), s # <<>>
  PROVE  Head(s) \in S /\ Tail(s) \in Seq(S) /\ s = <<Head(s)>> \o Tail(s)
BY HeadTailProperties

(* A handler that goes on, and one that begins.                            *)
LEMMA Gone ==
  ASSUME TypeOK, NEW l \in Line, NEW from, NEW to \in Stage,
         At(l, from), Goto(l, to)
  PROVE  /\ frames' \in [Task -> Seq(Frame)] /\ frames'[current] # <<>>
         /\ Head(frames'[current]) = [line |-> l, at |-> to]
         /\ Tail(frames'[current]) = Tail(frames[current])
         /\ \A t \in Task \ {current} : frames'[t] = frames[t]
<1>1. frames[current] \in Seq(Frame) /\ frames[current] # <<>>
  BY DEF TypeOK, At
<1>2. Tail(frames[current]) \in Seq(Frame) BY <1>1, Popped
<1>3. [line |-> l, at |-> to] \in Frame BY DEF Frame
<1>4. frames'[current] = <<[line |-> l, at |-> to]>> \o Tail(frames[current])
  BY DEF Goto, TypeOK
<1>5. /\ frames'[current] \in Seq(Frame) /\ frames'[current] # <<>>
      /\ Head(frames'[current]) = [line |-> l, at |-> to]
      /\ Tail(frames'[current]) = Tail(frames[current])
  BY <1>2, <1>3, <1>4, Pushed
<1> QED BY <1>4, <1>5 DEF Goto, TypeOK

LEMMA Entered ==
  ASSUME TypeOK, NEW l \in Line, Deliver(l)
  PROVE  /\ frames' \in [Task -> Seq(Frame)] /\ frames'[current] # <<>>
         /\ Head(frames'[current]) = [line |-> l, at |-> "entry"]
         /\ Tail(frames'[current]) = frames[current]
         /\ \A t \in Task \ {current} : frames'[t] = frames[t]
<1>1. frames[current] \in Seq(Frame) BY DEF TypeOK
<1>2. [line |-> l, at |-> "entry"] \in Frame BY DEF Frame, Stage
<1>3. frames'[current] = <<[line |-> l, at |-> "entry"]>> \o frames[current]
  BY DEF Deliver, TypeOK
<1>4. /\ frames'[current] \in Seq(Frame) /\ frames'[current] # <<>>
      /\ Head(frames'[current]) = [line |-> l, at |-> "entry"]
      /\ Tail(frames'[current]) = frames[current]
  BY <1>1, <1>2, <1>3, Pushed
<1> QED BY <1>3, <1>4 DEF Deliver, TypeOK

LEMMA Left ==
  ASSUME TypeOK, Return
  PROVE  /\ frames' \in [Task -> Seq(Frame)]
         /\ frames'[current] = Tail(frames[current])
         /\ \A t \in Task \ {current} : frames'[t] = frames[t]
<1>1. frames[current] \in Seq(Frame) /\ frames[current] # <<>>
  BY DEF TypeOK, At, Return
<1>2. Tail(frames[current]) \in Seq(Frame) BY <1>1, Popped
<1> QED BY <1>2 DEF Return, TypeOK
-----------------------------------------------------------------------------
LEMMA TypeInvariant == TypeOK /\ [Next]_vars => TypeOK'
<1> SUFFICES ASSUME TypeOK, [Next]_vars PROVE TypeOK'
  OBVIOUS
<1> USE DEF slave, Stage
<1>1. CASE Tick \/ Key \/ DiskRequest \/ TaskResched
  BY <1>1 DEF Tick, Key, DiskRequest, TaskResched, TypeOK
<1>2. CASE TimerSti
  <2>1. frames' \in [Task -> Seq(Frame)] BY <1>2, Gone DEF TimerSti
  <2> QED BY <1>2, <2>1 DEF TimerSti, TypeOK
<1>3. CASE TimerEnds
  <2>1. frames' \in [Task -> Seq(Frame)] BY <1>3, Gone DEF TimerEnds
  <2> QED BY <1>3, <2>1 DEF TimerEnds, TimerEnd, EndOfInterrupt, TypeOK
<1>4. CASE TimerResched
  <2>1. frames' \in [Task -> Seq(Frame)] BY <1>4, Gone DEF TimerResched
  <2> QED BY <1>4, <2>1 DEF TimerResched, TypeOK
<1>5. CASE KeyRead
  <2>1. frames' \in [Task -> Seq(Frame)] BY <1>5, Gone DEF KeyRead
  <2> QED BY <1>5, <2>1 DEF KeyRead, TypeOK
<1>6. CASE KeyRotates
  <2>1. frames' \in [Task -> Seq(Frame)] BY <1>6, Gone DEF KeyRotates
  <2>2. lowest' \in {lowest} \cup isr BY <1>6 DEF KeyRotates, RotateOnEnd
  <2>3. lowest' \in 0 .. Lines - 1 BY <2>2 DEF TypeOK
  <2> QED BY <1>6, <2>1, <2>3 DEF KeyRotates, RotateOnEnd, TypeOK
<1>7. CASE KeyEnds
  <2>1. frames' \in [Task -> Seq(Frame)] BY <1>7, Gone DEF KeyEnds
  <2> QED BY <1>7, <2>1 DEF KeyEnds, EndOfInterrupt, TypeOK
<1>8. CASE DiskReport
  <2>1. frames' \in [Task -> Seq(Frame)] BY <1>8, Gone DEF DiskReport
  <2> QED BY <1>8, <2>1 DEF DiskReport, DiskEnd, TypeOK
<1>9. CASE Return
  <2>1. frames' \in [Task -> Seq(Frame)] BY <1>9, Left
  <2> QED BY <1>9, <2>1 DEF Return, TypeOK
<1>10. ASSUME NEW l \in Line, Deliver(l) PROVE TypeOK'
  <2>1. frames' \in [Task -> Seq(Frame)] BY <1>10, Entered
  <2> QED BY <1>10, <2>1 DEF Deliver, TypeOK
<1>11. ASSUME NEW l \in Line, Unmask(l) PROVE TypeOK'
  BY <1>11 DEF Unmask, TypeOK
<1>12. CASE UNCHANGED vars BY <1>12 DEF vars, TypeOK
<1> QED
  BY <1>1, <1>2, <1>3, <1>4, <1>5, <1>6, <1>7, <1>8, <1>9, <1>10, <1>11, <1>12
  DEF Next, Handler

LEMMA InitType == Init => TypeOK
<1> SUFFICES ASSUME Init PROVE TypeOK
  OBVIOUS
<1>1. <<>> \in Seq(Frame) BY EmptySeq
<1>2. frames \in [Task -> Seq(Frame)] BY <1>1 DEF Init
<1>3. slaveIrr \in BOOLEAN /\ slaveIsr \in BOOLEAN /\ ie \in BOOLEAN
      /\ keyWaits \in BOOLEAN
  BY Zenon DEF Init
<1>4. /\ unmasked = {} /\ irr \subseteq Line /\ isr \subseteq Line
      /\ lowest \in 0 .. Lines - 1 /\ current \in Task
  BY SMT DEF Init
<1> QED BY <1>2, <1>3, <1>4, Zenon DEF TypeOK

(* The controllers, the flag and the handlers of every task have their     *)
(* values, with or without the disk.                                       *)
THEOREM TypeCorrect == Spec => []TypeOK
BY InitType, TypeInvariant, PTL DEF Spec
-----------------------------------------------------------------------------
(* Handlers that wait for another task or under another handler are timer  *)
(* handlers past their command.  The line of lowest priority is the last   *)
(* or, after a key, the keyboard's: never the timer's.                     *)
Past == {[line |-> Timer, at |-> a] : a \in {"schedule", "exit"}}
Open ==
  {[line |-> Timer, at |-> "end"]} \cup Past
Legal ==
  [line : {Timer}, at : {"entry", "end", "schedule", "exit"}]
  \cup [line : {Keyboard}, at : {"entry", "rotate", "end", "exit"}]

Inv ==
  /\ TypeOK
  /\ lowest \in {Keyboard, Lines - 1}
  /\ \A t \in Task \ {current} : frames[t] \in Seq(Past)
  /\ frames[current] # <<>> =>
       /\ Head(frames[current]) \in Legal
       /\ Tail(frames[current]) \in Seq(Past)
  /\ ie <=> frames[current] = <<>> \/ Head(frames[current]) \in Open
  /\ OwnInService

LEMMA PastIsLegal == Past \subseteq Legal /\ Past \subseteq Open
BY DEF Past, Legal, Open

(* What is true of a task that waits is true of it when it goes on.        *)
LEMMA Resumed ==
  ASSUME NEW s \in Seq(Past)
  PROVE  s # <<>> => Head(s) \in Past /\ Tail(s) \in Seq(Past)
BY Popped

LEMMA Quiet ==
  ASSUME NEW s \in Seq(Frame), s # <<>>, Head(s) \in Past, Tail(s) \in Seq(Past)
  PROVE  s \in Seq(Past)
<1>1. s = <<Head(s)>> \o Tail(s) BY Popped
<1> QED BY <1>1, Pushed

LEMMA InvInit == Init => Inv
<1> SUFFICES ASSUME Init PROVE Inv
  OBVIOUS
<1>1. TypeOK BY InitType
<1>2. \A t \in Task : frames[t] = <<>> BY DEF Init
<1>3. <<>> \in Seq(Past) BY EmptySeq
<1>4. OwnInService BY <1>2 DEF Init, OwnInService, Unended, At
<1>5. ie BY Zenon DEF Init
<1>6. current \in Task /\ lowest = Lines - 1 BY DEF Init
<1> QED BY <1>1, <1>2, <1>3, <1>4, <1>5, <1>6 DEF Inv

(* The innermost handler goes on without leaving its task.                 *)
LEMMA InvGone ==
  ASSUME Inv, TypeOK', NEW l \in Line, NEW from, NEW to \in Stage,
         At(l, from), Goto(l, to), current' = current,
         [line |-> l, at |-> to] \in Legal,
         ie' <=> [line |-> l, at |-> to] \in Open,
         lowest' \in {Keyboard, Lines - 1},
         isr' = IF to \in {"entry", "rotate"} \/ (l = Timer /\ to = "end")
                THEN {l} ELSE {}
  PROVE  Inv'
<1>1. /\ frames'[current] # <<>>
      /\ Head(frames'[current]) = [line |-> l, at |-> to]
      /\ Tail(frames'[current]) = Tail(frames[current])
      /\ \A t \in Task \ {current} : frames'[t] = frames[t]
  BY Gone DEF Inv
<1>2. Tail(frames[current]) \in Seq(Past) BY DEF Inv, At
<1>3. OwnInService'
  <2>1. \A k, a : At(k, a)' <=> k = l /\ a = to BY <1>1 DEF At
  <2>2. Unended' = IF to \in {"entry", "rotate"} \/ (l = Timer /\ to = "end")
                   THEN {l} ELSE {}
    BY <2>1 DEF Unended
  <2> QED BY <2>2 DEF OwnInService
<1> QED BY <1>1, <1>2, <1>3 DEF Inv

(* What the innermost handler has in service.                              *)
LEMMA InService ==
  ASSUME Inv, NEW l \in Line, NEW a, At(l, a)
  PROVE  /\ [line |-> l, at |-> a] \in Legal
         /\ isr = IF a \in {"entry", "rotate"} \/ (l = Timer /\ a = "end")
                  THEN {l} ELSE {}
<1>1. \A k, b : At(k, b) <=> k = l /\ b = a BY DEF At
<1>2. Unended = IF a \in {"entry", "rotate"} \/ (l = Timer /\ a = "end")
                THEN {l} ELSE {}
  BY <1>1 DEF Unended
<1> QED BY <1>2 DEF Inv, OwnInService, At

(* No task is in the middle of a handler.                                  *)
LEMMA InvQuiet ==
  ASSUME TypeOK', \A t \in Task : frames'[t] \in Seq(Past),
         ie', lowest' \in {Keyboard, Lines - 1}, isr' = {}
  PROVE  Inv'
<1> DEFINE s == frames'[current']
<1>1. current' \in Task BY DEF TypeOK
<1>2. s \in Seq(Past) BY <1>1
<1>3. s # <<>> => Head(s) \in Past /\ Tail(s) \in Seq(Past)
  BY <1>2, Resumed
<1>4. OwnInService'
  <2>1. \A l \in Line : \A a \in {"entry", "rotate", "end"} : ~At(l, a)'
    BY <1>3 DEF At, Past
  <2> QED BY <2>1 DEF Unended, OwnInService
<1> QED BY <1>3, <1>4, PastIsLegal DEF Inv

(* The processor takes an interrupt between handlers, or in do_timer past  *)
(* its command: before, the timer is in service and above the keyboard.    *)
LEMMA Interrupted ==
  ASSUME Inv, NEW l \in Line, Deliver(l), ~slaveIsr'
  PROVE  l # Cascade /\ isr = {} /\ frames[current] \in Seq(Past)
<1>1. l # Cascade BY DEF Deliver
<1>2. ~At(Timer, "end")
  <2>1. SUFFICES ASSUME At(Timer, "end") PROVE FALSE
    OBVIOUS
  <2>2. isr = {Timer} BY <2>1, InService DEF Stage
  <2>3. Rank(l) < Rank(Timer) BY <2>2 DEF Deliver, Above
  <2>4. lowest = 1 \/ lowest = 7 BY DEF Inv
  <2>5. l = 0 \/ l = 1 BY <1>1
  <2> QED BY <2>3, <2>4, <2>5 DEF Rank
<1>3. frames[current] = <<>> \/ Head(frames[current]) \in Past
  BY <1>2 DEF Inv, Deliver, Open, At
<1>4. frames[current] \in Seq(Frame) BY DEF Inv, TypeOK
<1>5. frames[current] \in Seq(Past)
  <2>1. CASE frames[current] = <<>> BY <2>1, EmptySeq
  <2>2. CASE frames[current] # <<>> BY <2>2, <1>3, <1>4, Quiet DEF Inv
  <2> QED BY <2>1, <2>2
<1>6. isr = {}
  BY <1>3 DEF Inv, OwnInService, Unended, At, Past
<1> QED BY <1>1, <1>5, <1>6

LEMMA InvNext == TypeOK /\ (~slaveIsr => Inv) /\ [Next]_vars => (~slaveIsr' => Inv')
<1> SUFFICES ASSUME TypeOK, ~slaveIsr => Inv, [Next]_vars, ~slaveIsr' PROVE Inv'
  OBVIOUS
<1>00. ~slaveIsr
  BY DEF Next, Handler, vars, slave, Tick, Key, DiskRequest, TaskResched, TimerSti,
         TimerEnds, TimerResched, KeyRead, KeyRotates, KeyEnds, DiskReport, DiskEnd,
         Return, Deliver, Unmask
<1> Inv BY <1>00
<1>0. TypeOK /\ TypeOK' BY TypeInvariant DEF Inv
<1>1. CASE UNCHANGED <<isr, lowest, ie, current, frames>>
  BY <1>0, <1>1 DEF Inv, OwnInService, Unended, At
<1>2. CASE TimerSti
  <2>1. isr = {Timer} BY <1>2, InService DEF TimerSti
  <2> QED BY <1>0, <1>2, <2>1, InvGone DEF TimerSti, Inv, Stage, Legal, Open
<1>3. CASE TimerEnds
  <2>1. isr = {Timer} BY <1>3, InService DEF TimerEnds
  <2>2. isr' = {} /\ lowest' = lowest
    BY <1>3, <2>1 DEF TimerEnds, TimerEnd, EndOfInterrupt, Highest, Above
  <2>3. [line |-> Timer, at |-> "schedule"] \in Open BY DEF Open, Past
  <2>4. ie /\ ie' = ie
    <3>1. Head(frames[current]) \in Open BY <1>3 DEF TimerEnds, At, Open
    <3> QED BY <1>3, <3>1 DEF TimerEnds, Inv
  <2> QED
    BY <1>0, <1>3, <2>2, <2>3, <2>4, InvGone
    DEF TimerEnds, Inv, Stage, Legal
<1>4. CASE TimerResched
  <2>1. isr = {}
    <3>1. At(Timer, "schedule") BY <1>4 DEF TimerResched
    <3>2. isr = IF "schedule" \in {"entry", "rotate"} \/ "schedule" = "end"
                THEN {Timer} ELSE {}
      BY <3>1, InService
    <3> QED BY <3>2
  <2>2. /\ frames'[current] # <<>>
        /\ Head(frames'[current]) = [line |-> Timer, at |-> "exit"]
        /\ Tail(frames'[current]) = Tail(frames[current])
        /\ \A t \in Task \ {current} : frames'[t] = frames[t]
    BY <1>0, <1>4, Gone DEF TimerResched, Stage
  <2>3. frames'[current] \in Seq(Past)
    <3>1. frames'[current] \in Seq(Frame) BY <1>0 DEF TypeOK
    <3>2. Tail(frames[current]) \in Seq(Past)
      BY <1>4 DEF TimerResched, At, Inv
    <3> QED BY <2>2, <3>1, <3>2, Quiet DEF Past
  <2>4. ie /\ ie' = ie
    <3>1. Head(frames[current]) \in Open
      BY <1>4 DEF TimerResched, At, Open, Past
    <3> QED BY <1>4, <3>1 DEF TimerResched, Inv
  <2>5. \A t \in Task : frames'[t] \in Seq(Past) BY <2>2, <2>3 DEF Inv
  <2> QED BY <1>0, <1>4, <2>1, <2>4, <2>5, InvQuiet DEF TimerResched, Inv
<1>5. CASE TaskResched
  <2>1. isr = {}
    BY <1>5 DEF TaskResched, Inv, OwnInService, Unended, At
  <2>2. \A t \in Task : frames'[t] \in Seq(Past)
    BY <1>5, EmptySeq DEF TaskResched, Inv
  <2>3. ie' BY <1>5 DEF TaskResched, Inv
  <2> QED BY <1>0, <1>5, <2>1, <2>2, <2>3, InvQuiet DEF TaskResched, Inv
<1>6. CASE KeyRead
  <2>1. isr = {Keyboard} BY <1>6, InService DEF KeyRead
  <2>2. ~ie
    <3>1. Head(frames[current]) \notin Open /\ frames[current] # <<>>
      BY <1>6 DEF KeyRead, At, Open, Past
    <3> QED BY <3>1 DEF Inv
  <2> QED
    BY <1>0, <1>6, <2>1, <2>2, InvGone DEF KeyRead, Inv, Stage, Legal, Open, Past
<1>7. CASE KeyRotates
  <2>1. isr = {Keyboard} BY <1>7, InService DEF KeyRotates
  <2>2. isr' = {} /\ lowest' = Keyboard
    BY <1>7, <2>1 DEF KeyRotates, RotateOnEnd, Highest, Above
  <2> QED
    BY <1>0, <1>7, <2>2, InvGone DEF KeyRotates, Inv, Stage, Legal, Open, Past, At
<1>8. CASE KeyEnds
  <2>1. isr = {}
    <3>1. At(Keyboard, "end") BY <1>8 DEF KeyEnds
    <3>2. isr = IF "end" \in {"entry", "rotate"} \/ Keyboard = Timer
                THEN {Keyboard} ELSE {}
      BY <3>1, InService
    <3> QED BY <3>2
  <2>2. isr' = {} /\ lowest' = lowest
    BY <1>8, <2>1 DEF KeyEnds, EndOfInterrupt
  <2> QED
    BY <1>0, <1>8, <2>2, InvGone DEF KeyEnds, Inv, Stage, Legal, Open, Past, At
<1>9. CASE DiskReport
  BY <1>9, InService DEF DiskReport, Legal
<1>10. CASE Return
  <2>1. PICK l \in Line : At(l, "exit") BY <1>10 DEF Return
  <2>2. isr = {}
    <3>1. isr = IF "exit" \in {"entry", "rotate"} \/ "exit" = "end"
                THEN {l} ELSE {}
      BY <2>1, InService
    <3> QED BY <3>1
  <2>3. \A t \in Task : frames'[t] \in Seq(Past)
    BY <1>0, <1>10, <2>1, Left DEF Inv, At
  <2> QED BY <1>0, <1>10, <2>2, <2>3, InvQuiet DEF Return, Inv
<1>11. ASSUME NEW l \in Line, Deliver(l) PROVE Inv'
  <2>1. l # Cascade /\ isr = {} /\ frames[current] \in Seq(Past)
    BY <1>11, Interrupted
  <2>2. /\ frames'[current] # <<>>
        /\ Head(frames'[current]) = [line |-> l, at |-> "entry"]
        /\ Tail(frames'[current]) = frames[current]
        /\ \A t \in Task \ {current} : frames'[t] = frames[t]
    BY <1>0, <1>11, Entered
  <2>3. OwnInService'
    <3>1. current' = current /\ isr' = {l} BY <1>11, <2>1 DEF Deliver
    <3>2. \A k, a : At(k, a)' <=> k = l /\ a = "entry" BY <2>2, <3>1 DEF At
    <3>3. Unended' = {l} BY <3>2 DEF Unended
    <3> QED BY <3>1, <3>3 DEF OwnInService
  <2>4. ~ie' /\ current' = current /\ lowest' = lowest BY <1>11 DEF Deliver
  <2>5. Head(frames'[current]) \in Legal /\ Head(frames'[current]) \notin Open
    BY <2>1, <2>2 DEF Legal, Open, Past
  <2> QED BY <1>0, <2>1, <2>2, <2>3, <2>4, <2>5 DEF Inv
<1> QED
  BY <1>1, <1>2, <1>3, <1>4, <1>5, <1>6, <1>7, <1>8, <1>9, <1>10, <1>11
  DEF Next, Handler, vars, Tick, Key, DiskRequest, Unmask

(* Until a disk interrupt comes, a handler's commands end its own          *)
(* interrupt and no other: do_timer's come after it let others in, do_kb's *)
(* go to the wrong controller.                                             *)
THEOREM OnlyOwnEnded == Spec => []OnlyOwnInService
<1> DEFINE IInv == TypeOK /\ (~slaveIsr => Inv)
<1>1. Init => IInv BY InitType, InvInit
<1>2. IInv /\ [Next]_vars => IInv' BY TypeInvariant, InvNext
<1>3. IInv => OnlyOwnInService BY DEF Inv, OnlyOwnInService
<1> HIDE DEF IInv
<1> QED BY <1>1, <1>2, <1>3, PTL DEF Spec
-----------------------------------------------------------------------------
(* The disk.  Until its first interrupt no handler is hd_interrupt; from   *)
(* then on the slave passes no request on, and only the innermost handler  *)
(* can be hd_interrupt, with the flag off.                                 *)
Elsewhere == {f \in Frame : f.line # Cascade}
Entry == [line |-> Cascade, at |-> "entry"]
PastEntry == Frame \ {Entry}

DiskInv ==
  /\ ~slaveIsr => \A t \in Task : frames[t] \in Seq(Elsewhere)
  /\ slaveIsr => Cascade \notin irr
  /\ \A t \in Task \ {current} : frames[t] \in Seq(Elsewhere)
  /\ frames[current] # <<>> => Tail(frames[current]) \in Seq(Elsewhere)
  /\ frames[current] # <<>> /\ Head(frames[current]).line = Cascade => ~ie

(* hd_interrupt has run past its entry: it is never entered again.         *)
Served ==
  /\ slaveIsr /\ Cascade \notin irr
  /\ \A t \in Task : frames[t] \in Seq(PastEntry)

LEMMA Built ==
  ASSUME NEW S, NEW T, NEW s \in Seq(T), s # <<>>, Head(s) \in S, Tail(s) \in Seq(S)
  PROVE  s \in Seq(S)
<1>1. s = <<Head(s)>> \o Tail(s) BY Popped
<1> QED BY <1>1, Pushed

LEMMA ElsewhereIsPast == ASSUME NEW s \in Seq(Elsewhere) PROVE s \in Seq(PastEntry)
<1>1. Elsewhere \subseteq PastEntry BY DEF Elsewhere, PastEntry, Entry
<1>2. Len(s) \in Nat /\ s \in [1 .. Len(s) -> Elsewhere] BY SMT
<1>3. s \in [1 .. Len(s) -> PastEntry] BY <1>1, <1>2
<1> QED BY <1>2, <1>3, SeqDef

LEMMA DiskInit == Init => DiskInv
<1> SUFFICES ASSUME Init PROVE DiskInv
  OBVIOUS
<1>1. \A t \in Task : frames[t] = <<>> BY DEF Init
<1>2. <<>> \in Seq(Elsewhere) /\ <<>> \in Seq(PastEntry) BY EmptySeq
<1>3. ~slaveIsr BY Zenon DEF Init
<1>4. current \in Task BY DEF Init
<1> QED BY <1>1, <1>2, <1>3, <1>4 DEF DiskInv, At

(* A handler at a step of its own goes on to another: neither is the entry *)
(* of hd_interrupt, or the step is hd_interrupt's.                         *)
LEMMA DiskGone ==
  ASSUME TypeOK, DiskInv, NEW l \in Line, NEW from, NEW to \in Stage \ {"entry"},
         At(l, from), Goto(l, to), slaveIsr' = slaveIsr, irr' = irr,
         current' \in Task, l = Cascade => ie' = ie /\ current' = current
  PROVE  DiskInv' /\ \A t \in Task : frames'[t] \in Seq(PastEntry)
<1>1. /\ frames' \in [Task -> Seq(Frame)] /\ frames'[current] # <<>>
      /\ Head(frames'[current]) = [line |-> l, at |-> to]
      /\ Tail(frames'[current]) = Tail(frames[current])
      /\ \A t \in Task \ {current} : frames'[t] = frames[t]
  BY Gone
<1>2. current \in Task /\ frames'[current] \in Seq(Frame) BY <1>1 DEF TypeOK
<1>3. [line |-> l, at |-> to] \in PastEntry BY DEF PastEntry, Entry, Frame
<1>4. Tail(frames'[current]) \in Seq(Elsewhere) BY <1>1 DEF DiskInv, At
<1>5. frames'[current] \in Seq(PastEntry) BY <1>1, <1>2, <1>3, <1>4, ElsewhereIsPast, Built
<1>6. ASSUME l # Cascade PROVE frames'[current] \in Seq(Elsewhere)
  <2>1. [line |-> l, at |-> to] \in Elsewhere BY <1>6 DEF Elsewhere, Frame
  <2> QED BY <1>1, <1>2, <1>4, <2>1, Built
<1>7. \A t \in Task \ {current} : frames'[t] \in Seq(Elsewhere) BY <1>1 DEF DiskInv
<1>8. ~slaveIsr => l # Cascade
  <2> SUFFICES ASSUME ~slaveIsr PROVE l # Cascade OBVIOUS
  <2>1. frames[current] \in Seq(Elsewhere) BY <1>2 DEF DiskInv
  <2>2. Head(frames[current]) \in Elsewhere BY <2>1, Popped DEF At
  <2> QED BY <2>2 DEF At, Elsewhere
<1>9. DiskInv'
  <2>1. CASE l = Cascade
    <3>1. current' = current /\ ie' = ie BY <2>1
    <3>2. ~ie BY <2>1 DEF DiskInv, At
    <3> QED BY <1>4, <1>7, <1>8, <2>1, <3>1, <3>2 DEF DiskInv
  <2>2. CASE l # Cascade
    <3>1. \A t \in Task : frames'[t] \in Seq(Elsewhere) BY <1>6, <1>7, <2>2
    <3>2. frames'[current'] # <<>> =>
            /\ Head(frames'[current']) \in Elsewhere
            /\ Tail(frames'[current']) \in Seq(Elsewhere)
      BY <3>1, Popped
    <3> QED BY <3>1, <3>2 DEF DiskInv, Elsewhere
  <2> QED BY <2>1, <2>2
<1>10. \A t \in Task : frames'[t] \in Seq(PastEntry) BY <1>5, <1>7, ElsewhereIsPast
<1> QED BY <1>9, <1>10

LEMMA DiskNext == TypeOK /\ DiskInv /\ [Next]_vars => DiskInv'
<1> SUFFICES ASSUME TypeOK, DiskInv, [Next]_vars PROVE DiskInv'
  OBVIOUS
<1>0. TypeOK' /\ current' \in Task /\ current \in Task BY TypeInvariant DEF TypeOK
<1>1. CASE Tick \/ Key \/ DiskRequest \/ UNCHANGED vars
  BY <1>1 DEF Tick, Key, DiskRequest, vars, slave, DiskInv, At
<1>2. CASE TimerSti
  BY <1>0, <1>2, DiskGone DEF TimerSti, slave, Stage
<1>3. CASE TimerEnds
  BY <1>0, <1>3, DiskGone DEF TimerEnds, slave, Stage
<1>4. CASE TimerResched
  BY <1>0, <1>4, DiskGone DEF TimerResched, slave, Stage
<1>5. CASE KeyRead
  BY <1>0, <1>5, DiskGone DEF KeyRead, slave, Stage
<1>6. CASE KeyRotates
  BY <1>0, <1>6, DiskGone DEF KeyRotates, slave, Stage
<1>7. CASE KeyEnds
  BY <1>0, <1>7, DiskGone DEF KeyEnds, slave, Stage
<1>8. CASE DiskReport
  BY <1>0, <1>8, DiskGone DEF DiskReport, DiskEnd, slave, Stage
<1>9. CASE TaskResched
  <2>1. \A t \in Task : frames'[t] \in Seq(Elsewhere)
    BY <1>9, EmptySeq DEF TaskResched, DiskInv
  <2>2. frames'[current'] # <<>> =>
          /\ Head(frames'[current']) \in Elsewhere
          /\ Tail(frames'[current']) \in Seq(Elsewhere)
    BY <1>0, <2>1, Popped
  <2> QED BY <1>9, <2>1, <2>2 DEF TaskResched, slave, DiskInv, Elsewhere
<1>10. CASE Return
  <2>1. /\ frames'[current] = Tail(frames[current])
        /\ \A t \in Task \ {current} : frames'[t] = frames[t]
    BY <1>10, Left
  <2>2. \A t \in Task : frames'[t] \in Seq(Elsewhere)
    BY <1>10, <2>1 DEF Return, DiskInv, At
  <2>3. frames'[current] # <<>> =>
          /\ Head(frames'[current]) \in Elsewhere
          /\ Tail(frames'[current]) \in Seq(Elsewhere)
    BY <1>0, <2>2, Popped
  <2> QED BY <1>10, <2>2, <2>3 DEF Return, slave, DiskInv, Elsewhere
<1>11. ASSUME NEW l \in Line, Deliver(l) PROVE DiskInv'
  <2>1. /\ frames'[current] # <<>>
        /\ Head(frames'[current]) = [line |-> l, at |-> "entry"]
        /\ Tail(frames'[current]) = frames[current]
        /\ \A t \in Task \ {current} : frames'[t] = frames[t]
    BY <1>11, Entered
  <2>2. frames[current] \in Seq(Elsewhere)
    <3>1. CASE frames[current] = <<>> BY <3>1, EmptySeq
    <3>2. CASE frames[current] # <<>>
      <4>1. frames[current] \in Seq(Frame) BY <1>0 DEF TypeOK
      <4>2. Head(frames[current]) \in Elsewhere
        BY <1>11, <3>2, <4>1, Popped DEF Deliver, DiskInv, Elsewhere
      <4> QED BY <3>2, <4>1, <4>2, Built DEF DiskInv
    <3> QED BY <3>1, <3>2
  <2>3. ASSUME ~slaveIsr' PROVE \A t \in Task : frames'[t] \in Seq(Elsewhere)
    <3>1. ~slaveIsr /\ l # Cascade BY <1>11, <2>3 DEF Deliver
    <3>3. [line |-> l, at |-> "entry"] \in Elsewhere
      BY <3>1 DEF Elsewhere, Frame, Stage
    <3>4. frames'[current] \in Seq(Frame) BY <1>0 DEF TypeOK
    <3>5. frames'[current] \in Seq(Elsewhere) BY <2>1, <2>2, <3>3, <3>4, Built
    <3> QED BY <2>1, <3>1, <3>5 DEF DiskInv
  <2>4. slaveIsr' => Cascade \notin irr' BY <1>11 DEF Deliver, DiskInv
  <2>5. ~ie' /\ current' = current BY <1>11 DEF Deliver
  <2> QED BY <2>1, <2>2, <2>3, <2>4, <2>5 DEF DiskInv
<1>12. ASSUME NEW l \in Line, Unmask(l) PROVE DiskInv'
  BY <1>12 DEF Unmask, slave, DiskInv, At
<1> QED
  BY <1>1, <1>2, <1>3, <1>4, <1>5, <1>6, <1>7, <1>8, <1>9, <1>10, <1>11, <1>12
  DEF Next, Handler

LEMMA ServedEnters == TypeOK /\ DiskInv /\ At(Cascade, "exit") => Served
<1> SUFFICES ASSUME TypeOK, DiskInv, At(Cascade, "exit") PROVE Served
  OBVIOUS
<1>1. current \in Task /\ frames[current] \in Seq(Frame) /\ frames[current] # <<>>
  BY DEF TypeOK, At
<1>2. slaveIsr
  <2>1. SUFFICES ASSUME ~slaveIsr PROVE FALSE
    OBVIOUS
  <2>2. frames[current] \in Seq(Elsewhere) BY <1>1, <2>1 DEF DiskInv
  <2>3. Head(frames[current]) \in Elsewhere BY <1>1, <2>2, Popped
  <2> QED BY <2>3 DEF At, Elsewhere
<1>3. Head(frames[current]) \in PastEntry
  BY <1>1, Popped DEF At, PastEntry, Entry
<1>4. Tail(frames[current]) \in Seq(PastEntry) BY <1>1, ElsewhereIsPast DEF DiskInv
<1>5. frames[current] \in Seq(PastEntry) BY <1>1, <1>3, <1>4, Built
<1>6. \A t \in Task \ {current} : frames[t] \in Seq(PastEntry) BY ElsewhereIsPast DEF DiskInv
<1> QED BY <1>2, <1>5, <1>6 DEF DiskInv, Served

LEMMA ServedExcludes == TypeOK /\ Served => ~At(Cascade, "entry")
<1> SUFFICES ASSUME TypeOK, Served, At(Cascade, "entry") PROVE FALSE
  OBVIOUS
<1>1. frames[current] \in Seq(PastEntry) /\ frames[current] # <<>>
  BY DEF TypeOK, Served, At
<1>2. Head(frames[current]) \in PastEntry BY <1>1, Popped
<1> QED BY <1>2 DEF At, PastEntry, Entry

LEMMA ServedStays == TypeOK /\ DiskInv /\ Served /\ [Next]_vars => Served'
<1> SUFFICES ASSUME TypeOK, DiskInv, Served, [Next]_vars PROVE Served'
  OBVIOUS
<1>0. TypeOK' /\ DiskInv' BY TypeInvariant, DiskNext
<1>1. slaveIsr'
  BY DEF Served, Next, Handler, vars, slave, Tick, Key, DiskRequest, TaskResched,
         TimerSti, TimerEnds, TimerResched, KeyRead, KeyRotates, KeyEnds, DiskReport,
         DiskEnd, Return, Deliver, Unmask
<1>2. Cascade \notin irr' BY <1>0, <1>1 DEF DiskInv
<1>3. ~At(Cascade, "entry")'
  <2>1. CASE \E l \in Line : Deliver(l)
    <3>1. PICK l \in Line : Deliver(l) BY <2>1
    <3>2. l # Cascade BY <3>1 DEF Deliver, Highest, Served
    <3>3. Head(frames'[current]) = [line |-> l, at |-> "entry"] /\ current' = current
      BY <3>1, Entered DEF Deliver
    <3> QED BY <3>2, <3>3 DEF At
  <2>2. CASE ~\E l \in Line : Deliver(l)
    <3>1. SUFFICES \A t \in Task : frames'[t] \in Seq(PastEntry)
      <4>1. ASSUME \A t \in Task : frames'[t] \in Seq(PastEntry)
            PROVE  ~At(Cascade, "entry")'
        <5>1. frames'[current'] \in Seq(PastEntry) BY <1>0, <4>1 DEF TypeOK
        <5> QED BY <5>1, Popped DEF At, PastEntry, Entry
      <4> QED BY <4>1
    <3> USE DEF slave, Stage
    <3>0. current \in Task /\ current' \in Task BY <1>0 DEF TypeOK
    <3>2. CASE Tick \/ Key \/ DiskRequest \/ TaskResched \/ (\E l \in Line : Unmask(l))
               \/ UNCHANGED vars
      BY <3>2 DEF Tick, Key, DiskRequest, TaskResched, Unmask, vars, Served
    <3>3. CASE TimerSti BY <3>0, <3>3, DiskGone DEF TimerSti
    <3>4. CASE TimerEnds BY <3>0, <3>4, DiskGone DEF TimerEnds
    <3>5. CASE TimerResched BY <3>0, <3>5, DiskGone DEF TimerResched
    <3>6. CASE KeyRead BY <3>0, <3>6, DiskGone DEF KeyRead
    <3>7. CASE KeyRotates BY <3>0, <3>7, DiskGone DEF KeyRotates
    <3>8. CASE KeyEnds BY <3>0, <3>8, DiskGone DEF KeyEnds
    <3>9. CASE DiskReport BY <3>0, <3>9, DiskGone DEF DiskReport, DiskEnd
    <3>10. CASE Return
      BY <3>10, Left DEF Return, Served, DiskInv, At
    <3> QED
      BY <2>2, <3>2, <3>3, <3>4, <3>5, <3>6, <3>7, <3>8, <3>9, <3>10 DEF Next, Handler
  <2> QED BY <2>1, <2>2
<1>4. frames'[current'] \in Seq(PastEntry) /\ current' \in Task
  <2>1. current' \in Task /\ frames'[current'] \in Seq(Frame) BY <1>0 DEF TypeOK
  <2>2. CASE frames'[current'] = <<>> BY <2>1, <2>2, EmptySeq
  <2>3. CASE frames'[current'] # <<>>
    <3>1. Tail(frames'[current']) \in Seq(PastEntry)
      <4>1. Tail(frames'[current']) \in Seq(Elsewhere) BY <1>0, <2>3 DEF DiskInv
      <4> QED BY <4>1, ElsewhereIsPast
    <3>2. Head(frames'[current']) \in PastEntry
      BY <1>3, <2>1, <2>3, Popped DEF At, PastEntry, Entry
    <3> QED BY <2>1, <2>3, <3>1, <3>2, Built
  <2> QED BY <2>1, <2>2, <2>3
<1>5. \A t \in Task \ {current'} : frames'[t] \in Seq(PastEntry)
  BY <1>0, ElsewhereIsPast DEF DiskInv
<1> QED BY <1>1, <1>2, <1>4, <1>5 DEF Served

(* hd_interrupt leaves its interrupt in service in the slave: once it has  *)
(* run, it is never entered again, whatever else comes.                    *)
THEOREM DiskInterruptsOnce == Spec => OneDiskInterrupt
<1> DEFINE I == TypeOK /\ DiskInv
           After == At(Cascade, "exit")
           Begun == At(Cascade, "entry")
<1>1. Init => I BY InitType, DiskInit
<1>2. I /\ [Next]_vars => I' BY TypeInvariant, DiskNext
<1>3. I /\ After => Served BY ServedEnters
<1>4. I /\ Served /\ [Next]_vars => Served' BY ServedStays
<1>5. I /\ Served => ~Begun BY ServedExcludes
<1>6. Spec => [](After => []~Begun)
  <2> HIDE DEF I, After, Begun
  <2> QED BY <1>1, <1>2, <1>3, <1>4, <1>5, PTL DEF Spec
<1> QED BY <1>6 DEF OneDiskInterrupt
-----------------------------------------------------------------------------
(* With the keyboard's line lowest, the cascade's is the highest: its      *)
(* interrupt may come under do_timer before the command, and that command  *)
(* then ends the cascade in the timer's place.  Either way a line stays in *)
(* service that no handler ends any more, and that all others are below.   *)
Unserved(s, S) ==
  \/ s \in Seq(Past) /\ S \in {{Cascade}, {Timer}}
  \/ /\ s # <<>> /\ Head(s) = [line |-> Timer, at |-> "end"] /\ Tail(s) \in Seq(Past)
     /\ S = {Cascade, Timer}
InDisk(s) == s # <<>> /\ Head(s) \in [line : {Cascade}, at : {"entry", "exit"}]

Stopping ==
  /\ slaveIsr /\ lowest = Keyboard /\ Cascade \notin irr
  /\ \A t \in Task \ {current} : frames[t] \in Seq(Past)
  /\ \/ Unserved(frames[current], isr)
     \/ InDisk(frames[current]) /\ ~ie /\ Unserved(Tail(frames[current]), isr)

(* Nothing is delivered to a processor in this state.                      *)
LEMMA StoppingBlocks == ASSUME TypeOK, Stopping, NEW l \in Line PROVE ~Deliver(l)
<1> SUFFICES ASSUME Deliver(l) PROVE FALSE OBVIOUS
<1>1. ie /\ Highest(l, irr \cap unmasked) /\ Above(l, isr) BY DEF Deliver
<1>2. Cascade \in isr \/ Timer \in isr BY <1>1 DEF Stopping, Unserved
<1>3. l # Cascade BY <1>1 DEF Highest, Stopping
<1>4. lowest = 1 BY DEF Stopping
<1>5. Cascade \in isr => Rank(l) < Rank(Cascade) BY <1>1 DEF Above
<1>6. Timer \in isr => Rank(l) < Rank(Timer) BY <1>1 DEF Above
<1>7. l = 0 \/ l = 1 BY <1>3
<1> QED BY <1>2, <1>4, <1>5, <1>6, <1>7 DEF Rank

LEMMA StoppingRanks ==
  ASSUME lowest = Keyboard PROVE Rank(Cascade) < Rank(Timer) /\ ~(Rank(Timer) < Rank(Cascade))
<1>1. lowest = 1 OBVIOUS
<1>2. Cascade - lowest - 1 = 0 /\ Timer - lowest - 1 = 0 - 2 BY <1>1
<1>3. 0 % 8 = 0 OBVIOUS
<1>4. \A x \in Int : x = 0 - 2 => x % 8 = 6
  <2> TAKE x \in Int
  <2>1. x % 8 \in 0 .. 7 /\ x = 8 * (x \div 8) + (x % 8) /\ x \div 8 \in Int OBVIOUS
  <2> QED BY <2>1
<1>5. Rank(Timer) = 6
  <2>1. Timer - lowest - 1 \in Int BY <1>1
  <2>2. (Timer - lowest - 1) % 8 = 6 BY <1>2, <1>4, <2>1
  <2> QED BY <2>2 DEF Rank
<1>6. Rank(Cascade) = 0 BY <1>1, <1>3 DEF Rank
<1> QED BY <1>5, <1>6

(* Of the handlers only these can be at a step.                            *)
LEMMA StoppingAt ==
  ASSUME TypeOK, Stopping, NEW l \in Line, NEW a, At(l, a)
  PROVE  \/ l = Timer /\ a \in {"end", "schedule", "exit"} /\ Unserved(frames[current], isr)
         \/ l = Cascade /\ a \in {"entry", "exit"} /\ InDisk(frames[current])
            /\ Unserved(Tail(frames[current]), isr)
<1>1. frames[current] # <<>> /\ Head(frames[current]) = [line |-> l, at |-> a] BY DEF At
<1>2. CASE frames[current] \in Seq(Past)
  <2>1. Head(frames[current]) \in Past BY <1>1, <1>2, Popped
  <2>2. l = Timer /\ a \in {"schedule", "exit"} BY <1>1, <2>1 DEF Past
  <2>3. ~InDisk(frames[current]) BY <2>1 DEF InDisk, Past
  <2> QED BY <2>2, <2>3 DEF Stopping
<1>3. CASE Head(frames[current]) = [line |-> Timer, at |-> "end"]
  BY <1>1, <1>3 DEF Stopping, InDisk
<1>4. CASE InDisk(frames[current]) /\ Unserved(Tail(frames[current]), isr)
  BY <1>1, <1>4 DEF InDisk
<1> QED BY <1>2, <1>3, <1>4 DEF Stopping, Unserved

LEMMA StoppingStays == TypeOK /\ Stopping /\ [Next]_vars => Stopping'
<1> SUFFICES ASSUME TypeOK, Stopping, [Next]_vars PROVE Stopping'
  OBVIOUS
<1>0. TypeOK' /\ current' \in Task /\ current \in Task BY TypeInvariant DEF TypeOK
<1> USE DEF slave, Stage
<1>1. CASE Tick \/ Key \/ DiskRequest \/ UNCHANGED vars \/ \E l \in Line : Unmask(l)
  <2>1. /\ UNCHANGED <<isr, lowest, slaveIsr, ie, current, frames>>
        /\ Cascade \notin irr'
    <3>1. CASE Tick \/ Key
      <4>1. irr' \in {irr \cup {Timer}, irr \cup {Keyboard}} BY <3>1 DEF Tick, Key
      <4>2. Cascade \notin irr' BY <4>1 DEF Stopping
      <4>3. UNCHANGED <<isr, lowest, slaveIsr, ie, current, frames>> BY <3>1 DEF Tick, Key
      <4> QED BY <4>2, <4>3
    <3>4. CASE DiskRequest BY <3>4 DEF DiskRequest, Stopping
    <3>2. CASE UNCHANGED vars BY <3>2 DEF vars, Stopping
    <3>3. ASSUME NEW l \in Line, Unmask(l)
          PROVE  /\ UNCHANGED <<isr, lowest, slaveIsr, ie, current, frames>>
                 /\ Cascade \notin irr'
      BY <3>3 DEF Unmask, Stopping
    <3> QED BY <1>1, <3>1, <3>2, <3>3, <3>4
  <2> QED BY <2>1 DEF Stopping
<1>2. ~TimerSti /\ ~KeyRead /\ ~KeyRotates /\ ~KeyEnds
  BY StoppingAt DEF TimerSti, KeyRead, KeyRotates, KeyEnds
<1>3. CASE TimerEnds
  <2>1. At(Timer, "end") BY <1>3 DEF TimerEnds
  <2>2. Unserved(frames[current], isr) BY <2>1, StoppingAt
  <2>3. Tail(frames[current]) \in Seq(Past) /\ isr = {Cascade, Timer}
    <3>1. CASE frames[current] \in Seq(Past)
      <4>1. Head(frames[current]) \in Past BY <2>1, <3>1, Popped DEF At
      <4> QED BY <2>1, <4>1 DEF At, Past
    <3> QED BY <2>2, <3>1 DEF Unserved
  <2>4. isr' = {Timer}
    <3>1. Rank(Cascade) < Rank(Timer) /\ ~(Rank(Timer) < Rank(Cascade))
      BY StoppingRanks DEF Stopping
    <3>2. Highest(Cascade, isr) /\ ~Highest(Timer, isr)
      BY <2>3, <3>1 DEF Highest, Above
    <3> QED BY <1>3, <2>3, <3>2 DEF TimerEnds, TimerEnd, EndOfInterrupt
  <2>5. /\ frames'[current] \in Seq(Frame) /\ frames'[current] # <<>>
        /\ Head(frames'[current]) = [line |-> Timer, at |-> "schedule"]
        /\ Tail(frames'[current]) = Tail(frames[current])
        /\ \A t \in Task \ {current} : frames'[t] = frames[t]
    BY <1>0, <1>3, Gone DEF TimerEnds
  <2>6. [line |-> Timer, at |-> "schedule"] \in Past BY DEF Past
  <2>7. frames'[current] \in Seq(Past) BY <2>3, <2>5, <2>6, Built
  <2> QED BY <1>3, <2>4, <2>5, <2>7
          DEF TimerEnds, TimerEnd, EndOfInterrupt, Stopping, Unserved
<1>4. CASE TimerResched
  <2>1. At(Timer, "schedule") BY <1>4 DEF TimerResched
  <2>2. Unserved(frames[current], isr) BY <2>1, StoppingAt
  <2>3. frames[current] \in Seq(Past) /\ isr \in {{Cascade}, {Timer}}
    BY <2>1, <2>2 DEF Unserved, At
  <2>4. /\ frames'[current] \in Seq(Frame) /\ frames'[current] # <<>>
        /\ Head(frames'[current]) = [line |-> Timer, at |-> "exit"]
        /\ Tail(frames'[current]) = Tail(frames[current])
        /\ \A t \in Task \ {current} : frames'[t] = frames[t]
    BY <1>0, <1>4, Gone DEF TimerResched
  <2>5. [line |-> Timer, at |-> "exit"] \in Past BY DEF Past
  <2>6. Tail(frames[current]) \in Seq(Past) BY <2>1, <2>3, Popped DEF At
  <2>7. frames'[current] \in Seq(Past) BY <2>4, <2>5, <2>6, Built
  <2>8. \A t \in Task : frames'[t] \in Seq(Past) BY <2>4, <2>7 DEF Stopping
  <2> QED BY <1>0, <1>4, <2>3, <2>8 DEF TimerResched, Stopping, Unserved
<1>5. CASE TaskResched
  <2>1. ~InDisk(frames[current]) BY <1>5 DEF TaskResched, InDisk
  <2>2. frames[current] \in Seq(Past) BY <1>5, EmptySeq DEF TaskResched
  <2>3. isr \in {{Cascade}, {Timer}} BY <1>5, <2>1 DEF TaskResched, Stopping, Unserved
  <2>4. \A t \in Task : frames[t] \in Seq(Past) BY <2>2 DEF Stopping
  <2> QED BY <1>0, <1>5, <2>3, <2>4 DEF TaskResched, Stopping, Unserved
<1>6. CASE DiskReport
  <2>1. At(Cascade, "entry") BY <1>6 DEF DiskReport
  <2>2. InDisk(frames[current]) /\ Unserved(Tail(frames[current]), isr)
    BY <2>1, StoppingAt
  <2>3. /\ frames'[current] \in Seq(Frame) /\ frames'[current] # <<>>
        /\ Head(frames'[current]) = [line |-> Cascade, at |-> "exit"]
        /\ Tail(frames'[current]) = Tail(frames[current])
        /\ \A t \in Task \ {current} : frames'[t] = frames[t]
    BY <1>0, <1>6, Gone DEF DiskReport
  <2>4. ~ie
    <3>1. ~Unserved(frames[current], isr)
      <4>1. Head(frames[current]) \notin Past BY <2>2 DEF InDisk, Past
      <4>2. frames[current] \notin Seq(Past) BY <2>1, <4>1, Popped DEF At
      <4> QED BY <2>1, <4>2 DEF Unserved, At
    <3> QED BY <3>1 DEF Stopping
  <2>5. InDisk(frames'[current]) BY <2>3 DEF InDisk
  <2> QED BY <1>6, <2>2, <2>3, <2>4, <2>5 DEF DiskReport, DiskEnd, Stopping
<1>7. CASE Return
  <2>1. PICK l \in Line : At(l, "exit") BY <1>7 DEF Return
  <2>2. /\ frames'[current] = Tail(frames[current])
        /\ \A t \in Task \ {current} : frames'[t] = frames[t]
    BY <1>7, Left
  <2>3. Unserved(Tail(frames[current]), isr)
    <3>1. CASE l = Timer
      <4>1. Unserved(frames[current], isr) BY <2>1, <3>1, StoppingAt
      <4>2. frames[current] \in Seq(Past) /\ isr \in {{Cascade}, {Timer}}
        BY <2>1, <3>1, <4>1 DEF Unserved, At
      <4>3. Tail(frames[current]) \in Seq(Past) BY <2>1, <4>2, Popped DEF At
      <4> QED BY <4>2, <4>3 DEF Unserved
    <3> QED BY <2>1, <3>1, StoppingAt
  <2> QED BY <1>7, <2>2, <2>3 DEF Return, Stopping, Unserved
<1> QED
  BY <1>1, <1>2, <1>3, <1>4, <1>5, <1>6, <1>7, StoppingBlocks DEF Next, Handler

(* When hd_interrupt is entered with the keyboard's line lowest, what it   *)
(* interrupts is a task, do_timer past its command, or do_timer before it. *)
LEMMA StoppingEnters ==
  ASSUME TypeOK, ~slaveIsr => Inv, DiskInv, Deliver(Cascade), lowest = Keyboard
  PROVE  Stopping'
<1>0. TypeOK' /\ current \in Task BY TypeInvariant DEF Next, TypeOK
<1>1. ~slaveIsr /\ Inv BY DEF Deliver, Highest, DiskInv
<1>2. /\ frames'[current] # <<>>
      /\ Head(frames'[current]) = [line |-> Cascade, at |-> "entry"]
      /\ Tail(frames'[current]) = frames[current]
      /\ \A t \in Task \ {current} : frames'[t] = frames[t]
  BY Entered
<1>3. slaveIsr' /\ lowest' = Keyboard /\ Cascade \notin irr' /\ ~ie' /\ current' = current
      /\ isr' = isr \cup {Cascade} /\ ie
  BY DEF Deliver
<1>4. Unserved(frames[current], isr')
  <2>1. frames[current] = <<>> \/ Head(frames[current]) \in Open BY <1>1, <1>3 DEF Inv
  <2>2. CASE At(Timer, "end")
    <3>1. isr = {Timer} BY <1>1, <2>2, InService DEF Stage
    <3>2. isr' = {Cascade, Timer} BY <1>3, <3>1
    <3> QED BY <1>1, <2>2, <3>2 DEF At, Inv, Unserved
  <2>3. CASE ~At(Timer, "end")
    <3>1. frames[current] = <<>> \/ Head(frames[current]) \in Past
      BY <2>1, <2>3 DEF Open, At
    <3>2. frames[current] \in Seq(Frame) BY <1>0 DEF TypeOK
    <3>3. frames[current] \in Seq(Past)
      <4>1. CASE frames[current] = <<>> BY <4>1, EmptySeq
      <4>2. CASE frames[current] # <<>> BY <1>1, <3>1, <3>2, <4>2, Quiet DEF Inv
      <4> QED BY <4>1, <4>2
    <3>4. isr = {} BY <1>1, <3>1 DEF Inv, OwnInService, Unended, At, Past
    <3> QED BY <1>3, <3>3, <3>4 DEF Unserved
  <2> QED BY <2>2, <2>3
<1>5. Unserved(Tail(frames'[current']), isr') /\ InDisk(frames'[current'])
  BY <1>2, <1>3, <1>4 DEF InDisk
<1> QED BY <1>1, <1>2, <1>3, <1>5 DEF Stopping, Inv

(* hd_interrupt runs on to its return as it was entered.                   *)
StopInv ==
  /\ TypeOK /\ DiskInv /\ (~slaveIsr => Inv)
  /\ (At(Cascade, "entry") \/ At(Cascade, "exit")) /\ lowest = Keyboard => Stopping

LEMMA StopNext == StopInv /\ [Next]_vars => StopInv'
<1> SUFFICES ASSUME StopInv, [Next]_vars PROVE StopInv'
  OBVIOUS
<1> DEFINE Running == (At(Cascade, "entry") \/ At(Cascade, "exit")) /\ lowest = Keyboard
<1>1. TypeOK' /\ DiskInv' /\ (~slaveIsr' => Inv')
  BY TypeInvariant, DiskNext, InvNext DEF StopInv
<1>2. ASSUME Running' PROVE Stopping'
  <2>1. CASE Running BY <2>1, StoppingStays DEF StopInv
  <2>2. CASE Deliver(Cascade) /\ lowest = Keyboard BY <2>2, StoppingEnters DEF StopInv
  <2>3. ASSUME ~Running, ~(Deliver(Cascade) /\ lowest = Keyboard) PROVE FALSE
    <3> USE DEF StopInv, slave, Stage
    <3>0. /\ current \in Task /\ current' \in Task /\ lowest' = Keyboard
          /\ frames'[current'] # <<>> /\ Head(frames'[current']).line = Cascade
      BY <1>1, <1>2 DEF At, TypeOK
    <3>1. frames'[current'] \notin Seq(Elsewhere) BY <3>0, Popped DEF Elsewhere
    <3>2. CASE Tick \/ Key \/ DiskRequest \/ UNCHANGED vars
      BY <1>2, <2>3, <3>2 DEF Tick, Key, DiskRequest, vars, At
    <3>3. CASE \E l \in Line : Unmask(l) BY <1>2, <2>3, <3>3 DEF Unmask, At
    <3>4. CASE TimerSti \/ TimerEnds \/ KeyRead \/ KeyRotates \/ KeyEnds
      <4>1. ASSUME NEW l \in {Timer, Keyboard}, NEW from, NEW to \in Stage, At(l, from),
                   Goto(l, to), current' = current
            PROVE  FALSE
        BY <3>0, <4>1, Gone
      <4> QED BY <3>4, <4>1 DEF TimerSti, TimerEnds, KeyRead, KeyRotates, KeyEnds
    <3>5. CASE TimerResched
      <4>1. /\ Head(frames'[current]) = [line |-> Timer, at |-> "exit"]
            /\ \A t \in Task \ {current} : frames'[t] = frames[t]
        BY <3>5, Gone DEF TimerResched
      <4>2. current' # current BY <3>0, <4>1
      <4> QED BY <3>0, <3>1, <4>1, <4>2 DEF DiskInv
    <3>6. CASE TaskResched
      <4>1. current' # current BY <3>0, <3>6 DEF TaskResched
      <4> QED BY <3>0, <3>1, <3>6, <4>1 DEF TaskResched, DiskInv
    <3>7. CASE DiskReport BY <2>3, <3>0, <3>7 DEF DiskReport, DiskEnd
    <3>8. CASE Return
      <4>1. frames'[current] = Tail(frames[current]) /\ current' = current
        BY <3>8, Left DEF Return
      <4> QED BY <3>1, <3>8, <4>1 DEF Return, DiskInv, At
    <3>9. ASSUME NEW l \in Line, Deliver(l) PROVE FALSE
      <4>1. Head(frames'[current]) = [line |-> l, at |-> "entry"] /\ current' = current
            /\ lowest' = lowest
        BY <3>9, Entered DEF Deliver
      <4> QED BY <2>3, <3>0, <3>9, <4>1
    <3> QED BY <3>2, <3>3, <3>4, <3>5, <3>6, <3>7, <3>8, <3>9 DEF Next, Handler
  <2> QED BY <2>1, <2>2, <2>3
<1> QED BY <1>1, <1>2 DEF StopInv

(* hd_interrupt ends its interrupt in neither controller: once it has run  *)
(* with the keyboard's line lowest, as a key leaves it, no handler of any  *)
(* line is ever entered again (pata.c, keyboard.c's command to 0xA0).      *)
THEOREM DiskStops == Spec => DiskStopsAll
<1> DEFINE After == At(Cascade, "exit") /\ lowest = Keyboard
           Begun == \E l \in Line : At(l, "entry")
           Silent == Stopping /\ Served
<1>1. Init => StopInv
  <2> SUFFICES ASSUME Init PROVE StopInv OBVIOUS
  <2>1. lowest # Keyboard BY DEF Init
  <2> QED BY <2>1, InitType, InvInit, DiskInit DEF StopInv
<1>2. StopInv /\ [Next]_vars => StopInv' BY StopNext
<1>3. StopInv /\ After => Silent BY ServedEnters DEF StopInv
<1>4. StopInv /\ Silent /\ [Next]_vars => Silent' BY StoppingStays, ServedStays DEF StopInv
<1>5. StopInv /\ Silent => ~Begun BY StoppingAt, ServedExcludes DEF StopInv
<1>6. Spec => [](After => []~Begun)
  <2> HIDE DEF StopInv, After, Begun, Silent
  <2> QED BY <1>1, <1>2, <1>3, <1>4, <1>5, PTL DEF Spec
<1>7. (After => []~Begun) <=>
        (At(Cascade, "exit") /\ lowest = Keyboard => [](\A l \in Line : ~At(l, "entry")))
  <2>1. ~Begun <=> \A l \in Line : ~At(l, "entry") OBVIOUS
  <2> QED BY <2>1, PTL
<1> QED BY <1>6, <1>7, PTL DEF DiskStopsAll
=============================================================================
