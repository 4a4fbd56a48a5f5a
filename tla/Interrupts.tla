----------------------------- MODULE Interrupts ------------------------------
(***************************************************************************)
(* Which interrupt may come when: the two 8259 interrupt controllers, the  *)
(* processor's interrupt flag, and what the handlers do to both (do_timer, *)
(* do_kb, hd_interrupt), from main's first unmasking on.                   *)
(*                                                                         *)
(* All gates are interrupt gates: a handler starts with the flag off and   *)
(* iret turns it on again.  do_timer turns it on itself, before its end of *)
(* interrupt.  do_kb sends two commands to the master, the first of which, *)
(* 0xA0, is no port: it ends the interrupt in service and gives its line   *)
(* the lowest priority.  hd_interrupt sends none, to neither controller.   *)
(* do_timer ends in schedule, which may go on in another task: of every    *)
(* task that waits, the innermost handler is do_timer past its command.    *)
(***************************************************************************)
EXTENDS Integers, Sequences

CONSTANTS
  Task,
  MaxNested   \* bound: timer handlers active in a task

Timer == 0
Keyboard == 1
Cascade == 2     \* of the slave, for the disk
Line == {Timer, Keyboard, Cascade}
Lines == 8

ASSUME InterruptsAssumption == MaxNested \in Nat \ {0}

VARIABLES
  unmasked,           \* in the master
  irr, isr,           \* the master's requests, lines in service
  lowest,             \* the line of lowest priority
  slaveIrr, slaveIsr, \* the slave's line of the disk
  ie,                 \* the processor's interrupt flag
  current,            \* the running task
  frames,             \* its active handlers: line, next step; innermost first
  keyWaits            \* the keyboard's output buffer is full

slave == <<slaveIrr, slaveIsr>>
vars == <<unmasked, irr, isr, lowest, slave, ie, current, frames, keyWaits>>

(* After pic_install, on the way to timer_install; setup.s has done sti.   *)
Init ==
  /\ unmasked = {} /\ irr = {} /\ isr = {} /\ lowest = Lines - 1
  /\ slaveIrr = FALSE /\ slaveIsr = FALSE
  /\ ie = TRUE /\ current \in Task /\ frames = [t \in Task |-> <<>>]
  /\ keyWaits = FALSE
-----------------------------------------------------------------------------
(* The controllers.  Rank 0 is the highest priority.                       *)
Rank(l) == (l - lowest - 1) % Lines
Above(l, S) == \A k \in S : Rank(l) < Rank(k)
Highest(l, S) == l \in S /\ Above(l, S \ {l})

(* A tick comes 10 ms after the last: do_timer has long ended that one, or *)
(* it never will be.                                                       *)
Tick ==
  /\ Timer \notin isr
  /\ irr' = irr \cup {Timer}
  /\ UNCHANGED <<unmasked, isr, lowest, slave, ie, current, frames, keyWaits>>

Key ==
  /\ ~keyWaits
  /\ keyWaits' = TRUE /\ irr' = irr \cup {Keyboard}
  /\ UNCHANGED <<unmasked, isr, lowest, slave, ie, current, frames>>

(* The slave passes a request on unless its line is in service.            *)
DiskRequest ==
  /\ ~slaveIrr
  /\ slaveIrr' = TRUE
  /\ irr' = IF slaveIsr THEN irr ELSE irr \cup {Cascade}
  /\ UNCHANGED <<unmasked, isr, lowest, slaveIsr, ie, current, frames, keyWaits>>

Deliver(l) ==
  /\ ie /\ (l = Timer => Len(frames[current]) < MaxNested)
  /\ Highest(l, irr \cap unmasked) /\ Above(l, isr)
  /\ irr' = irr \ {l} /\ isr' = isr \cup {l}
  /\ slaveIrr' = (slaveIrr /\ l # Cascade)
  /\ slaveIsr' = (slaveIsr \/ l = Cascade)
  /\ ie' = FALSE
  /\ frames' = [frames EXCEPT ![current] = <<[line |-> l, at |-> "entry"]>> \o @]
  /\ UNCHANGED <<unmasked, lowest, current, keyWaits>>

(* outb(0x20, 0x20), and outb(0xA0, 0x20).                                 *)
NoCommand == UNCHANGED <<isr, lowest>>
EndOfInterrupt ==
  /\ isr' = {l \in isr : ~Highest(l, isr)}
  /\ UNCHANGED lowest
RotateOnEnd ==
  /\ isr' = {l \in isr : ~Highest(l, isr)}
  /\ lowest' \in IF isr = {} THEN {lowest} ELSE {l \in isr : Highest(l, isr)}
-----------------------------------------------------------------------------
(* main: timer_install, kb_install, and initialize_pata, which is a        *)
(* comment in main so far: it may come or not.                             *)
UnmaskOnly(l) ==
  /\ l \in Line \ unmasked /\ \A k \in Line : k < l => k \in unmasked
  /\ unmasked' = {l}
  /\ UNCHANGED <<irr, isr, lowest, slave, ie, current, frames, keyWaits>>
Unmask(l) ==
  /\ l \in Line \ unmasked /\ \A k \in Line : k < l => k \in unmasked
  /\ unmasked' = unmasked \cup {l}
  /\ UNCHANGED <<irr, isr, lowest, slave, ie, current, frames, keyWaits>>

(* The innermost handler goes from one of its steps to the next.           *)
At(l, from) ==
  /\ frames[current] # <<>>
  /\ Head(frames[current]) = [line |-> l, at |-> from]
Goto(l, to) ==
  frames' = [frames EXCEPT ![current] = <<[line |-> l, at |-> to]>> \o Tail(@)]

TimerSti ==
  /\ At(Timer, "entry") /\ Goto(Timer, "end")
  /\ ie' = TRUE
  /\ UNCHANGED <<unmasked, irr, isr, lowest, slave, current, keyWaits>>

TimerEnd == EndOfInterrupt
TimerEnds ==
  /\ At(Timer, "end") /\ Goto(Timer, "schedule")
  /\ TimerEnd
  /\ UNCHANGED <<unmasked, irr, slave, ie, current, keyWaits>>

(* schedule leaves the flag on, in whichever task it returns.              *)
TimerResched ==
  /\ At(Timer, "schedule") /\ Goto(Timer, "exit")
  /\ current' \in Task
  /\ UNCHANGED <<unmasked, irr, isr, lowest, slave, ie, keyWaits>>

(* A task that sleeps.                                                     *)
TaskResched ==
  /\ frames[current] = <<>>
  /\ current' \in Task
  /\ UNCHANGED <<unmasked, irr, isr, lowest, slave, ie, frames, keyWaits>>

KeyRead ==
  /\ At(Keyboard, "entry") /\ Goto(Keyboard, "rotate")
  /\ keyWaits' = FALSE
  /\ UNCHANGED <<unmasked, irr, isr, lowest, slave, ie, current>>

KeyRotates ==
  /\ At(Keyboard, "rotate") /\ Goto(Keyboard, "end")
  /\ RotateOnEnd
  /\ UNCHANGED <<unmasked, irr, slave, ie, current, keyWaits>>

KeyEnds ==
  /\ At(Keyboard, "end") /\ Goto(Keyboard, "exit")
  /\ EndOfInterrupt
  /\ UNCHANGED <<unmasked, irr, slave, ie, current, keyWaits>>

DiskEndsMaster == EndOfInterrupt /\ UNCHANGED slave
DiskEndsBoth == EndOfInterrupt /\ slaveIsr' = FALSE /\ UNCHANGED slaveIrr
DiskEnd == UNCHANGED <<isr, lowest, slave>>
DiskReport ==
  /\ At(Cascade, "entry") /\ Goto(Cascade, "exit")
  /\ DiskEnd
  /\ UNCHANGED <<unmasked, irr, ie, current, keyWaits>>

Return ==
  /\ \E l \in Line : At(l, "exit")
  /\ frames' = [frames EXCEPT ![current] = Tail(@)]
  /\ ie' = TRUE
  /\ UNCHANGED <<unmasked, irr, isr, lowest, slave, current, keyWaits>>

Handler ==
  \/ TimerSti \/ TimerEnds \/ TimerResched
  \/ KeyRead \/ KeyRotates \/ KeyEnds
  \/ DiskReport \/ Return

Next ==
  \/ Tick \/ Key \/ DiskRequest
  \/ Handler \/ TaskResched
  \/ \E l \in Line : Deliver(l) \/ Unmask(l)

Spec == Init /\ [][Next]_vars

(* Handlers run on and the processor takes interrupts that it may take;    *)
(* the keyboard's get in between ticks, which are far apart.  The timer    *)
(* chip goes on and main comes to unmasking these two.                     *)
Fairness ==
  /\ WF_vars(Handler) /\ WF_vars(Tick)
  /\ \A l \in Line : SF_vars(Deliver(l))
  /\ \A l \in {Timer, Keyboard} : SF_vars(Unmask(l))
FairSpec == Spec /\ Fairness
-----------------------------------------------------------------------------
Stage == {"entry", "rotate", "end", "schedule", "exit"}
Frame == [line : Line, at : Stage]

TypeOK ==
  /\ unmasked \subseteq Line /\ irr \subseteq Line /\ isr \subseteq Line
  /\ lowest \in 0 .. Lines - 1
  /\ slaveIrr \in BOOLEAN /\ slaveIsr \in BOOLEAN
  /\ ie \in BOOLEAN /\ keyWaits \in BOOLEAN
  /\ current \in Task /\ frames \in [Task -> Seq(Frame)]
  /\ \A l \in unmasked, k \in Line : k < l => k \in unmasked

(* Until the disk interrupts, what is in service is what the innermost     *)
(* handler has not ended yet.  Its commands therefore end its own          *)
(* interrupt and no other, and do_kb's second one ends none.               *)
Unended == {l \in Line : \E a \in {"entry", "rotate"} : At(l, a)}
           \cup {l \in {Timer} : At(l, "end")}
OwnInService == isr = Unended
OnlyOwnInService == ~slaveIsr => OwnInService

(* Until then, and for ever if the disk stays masked as it is now, ticks   *)
(* and keys go on being served.                                            *)
TimerServed == <>slaveIsr \/ []<>At(Timer, "entry")
KeyServed == keyWaits ~> (~keyWaits \/ slaveIsr)

(* The disk's interrupt stays in service in the slave, so that a second    *)
(* one is never delivered.                                                 *)
OneDiskInterrupt == [](At(Cascade, "exit") => [](~At(Cascade, "entry")))

(* ... and in the master, where it is above the timer and the keyboard if  *)
(* a key has been hit before: once hd_interrupt has run, no interrupt is   *)
(* ever delivered again.                                                   *)
DiskStopsAll ==
  [](At(Cascade, "exit") /\ lowest = Keyboard => [](\A l \in Line : ~At(l, "entry")))
=============================================================================
