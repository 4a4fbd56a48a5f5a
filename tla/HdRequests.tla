----------------------------- MODULE HdRequests -----------------------------
(***************************************************************************)
(* The disk driver: its request queues and submission (drivers/hd.c), the  *)
(* command path (hd_rw of drivers/pata.c), the disk interrupt.             *)
(*                                                                         *)
(* One task calls the driver, the way init/print.c does: create a request, *)
(* add it to the pending queue, submit; and, as hd.h asks, submit again    *)
(* when a request completes.  The disk and its interrupt go on meanwhile.  *)
(* The handler only reads executing.head, so each queue function, which    *)
(* writes it once, is one step.  kmalloc never returns NULL.               *)
(***************************************************************************)
EXTENDS Integers, Sequences, FiniteSets

CONSTANTS
  Requests,   \* the requests that create_request may allocate
  Null,       \* the NULL pointer
  Sectors,    \* nsector
  Retries     \* polls of is_hd_ready: 10000

ASSUME RequestsAssumption ==
  IsFiniteSet(Requests) /\ Null \notin Requests \cup {"READ", "WRITE"}
ASSUME BoundsAssumption == {Sectors, Retries} \subseteq Nat \ {0}

VARIABLES
  type,       \* type of the requests created: READ or WRITE, else Null
  next,       \* hd_request.next
  pending,    \* pending_requests
  executing,  \* executing_requests
  pc,         \* where the caller is in the driver
  req,        \* its local request
  retries,    \* the local of is_hd_ready
  due,        \* calls of submit_request that hd.h asks for
  disk,       \* the disk: phase, the request of its command, sectors left
  irq,        \* the disk's interrupt is pending
  inService,  \* ... is in service in the slave PIC, which gets no EOI
  reported,   \* the request hd_interrupt has printed
  halted

vars == <<type, next, pending, executing, pc, req, retries, due, disk, irq,
          inService, reported, halted>>
caller == <<pc, req, retries>>
hardware == <<disk, irq, inService, reported>>

Created == {r \in Requests : type[r] # Null}
EmptyQueue == [size |-> 0, head |-> Null, tail |-> Null]

Init ==
  /\ type = [r \in Requests |-> Null] /\ next = [r \in Requests |-> Null]
  /\ pending = EmptyQueue /\ executing = EmptyQueue
  /\ pc = "idle" /\ req = Null /\ retries = 0 /\ due = 0
  /\ disk = [phase |-> "idle", cmd |-> Null, left |-> 0]
  /\ irq = FALSE /\ inService = FALSE /\ reported = Null
  /\ halted = FALSE
-----------------------------------------------------------------------------
IsEmpty(q) == q.head = Null /\ q.tail = Null

(* add_request_to_queue: what it makes of the queue and of the next fields. *)
Added(q, r) ==
  [size |-> q.size + 1, head |-> IF IsEmpty(q) THEN r ELSE q.head, tail |-> r]
KeptNext(q, r) ==
  [x \in Requests |-> IF x = q.tail /\ ~IsEmpty(q) THEN r ELSE next[x]]
LinkedNext(q, r) ==
  [x \in Requests |-> IF x = q.tail /\ ~IsEmpty(q) THEN r
                      ELSE IF x = r THEN Null ELSE next[x]]

(* remove_request_from_queue takes the head; size stays.                    *)
RemovedOldTail(q) == [q EXCEPT !.head = next[q.head]]
Removed(q) ==
  [q EXCEPT !.head = next[q.head],
            !.tail = IF next[q.head] = Null THEN Null ELSE @]

At(label) == ~halted /\ pc = label

CreateRequest(r, t) ==
  /\ At("idle")
  /\ r \notin Created
  /\ type' = [type EXCEPT ![r] = t]
  /\ next' = [next EXCEPT ![r] = Null]
  /\ req' = r /\ pc' = "created"
  /\ UNCHANGED <<pending, executing, retries, due, hardware, halted>>

AddPending ==
  /\ At("created")
  /\ next' = LinkedNext(pending, req)
  /\ pending' = Added(pending, req)
  /\ due' = due + 1 /\ pc' = "idle"
  /\ UNCHANGED <<type, executing, req, retries, hardware, halted>>

(* submit_request up to the removal in switch_queues; an empty pending      *)
(* queue halts the machine.                                                 *)
SubmitRequest ==
  /\ At("idle") /\ due > 0
  /\ due' = due - 1
  /\ \/ IsEmpty(pending) /\ halted' = TRUE /\ UNCHANGED <<pending, pc, req>>
     \/ /\ ~IsEmpty(pending)
        /\ req' = pending.head
        /\ pending' = Removed(pending)
        /\ pc' = "switch"
        /\ UNCHANGED halted
  /\ UNCHANGED <<type, next, executing, retries, hardware>>

(* The end of switch_queues, and req = executing_requests.head: not always  *)
(* the request just moved.                                                  *)
SwitchQueues ==
  /\ At("switch")
  /\ next' = LinkedNext(executing, req)
  /\ executing' = Added(executing, req)
  /\ req' = executing'.head
  /\ retries' = Retries /\ pc' = "poll"
  /\ UNCHANGED <<type, pending, due, hardware, halted>>
-----------------------------------------------------------------------------
(* The status register: ready is RDY set and BSY clear.                     *)
DiskReady == disk.phase # "busy"
DrqAssumed == TRUE
DiskDrq == disk.phase = "drq"

(* A command for req; a disk that is busy does not take it.                 *)
SendCommand ==
  disk' = IF DiskReady THEN [phase |-> "busy", cmd |-> req, left |-> Sectors]
          ELSE disk

(* is_hd_ready polls while (retries--) ...                                  *)
PollAgain ==
  /\ At("poll") /\ retries > 0 /\ ~DiskReady
  /\ retries' = retries - 1
  /\ UNCHANGED <<type, next, pending, executing, pc, req, due, hardware, halted>>

(* ... breaks out on a ready disk and returns retries: 0, "no response",    *)
(* when it was the last poll ...                                            *)
PollReady ==
  /\ At("poll") /\ retries > 0 /\ DiskReady
  /\ retries' = retries - 1
  /\ IF retries' = 0 THEN UNCHANGED disk ELSE SendCommand
  /\ pc' = "data"
  /\ UNCHANGED <<type, next, pending, executing, req, due, irq, inService, reported, halted>>

(* ... and -1, which is not 0, when no poll found it ready.                 *)
PollTimeout ==
  /\ At("poll") /\ retries = 0
  /\ SendCommand
  /\ pc' = "data"
  /\ UNCHANGED <<type, next, pending, executing, req, retries, due, irq, inService,
                 reported, halted>>

(* A WRITE whose DRQ is up already gets one sector; nobody looks again.     *)
SendData ==
  /\ At("data")
  /\ disk' = IF type[req] = "WRITE" /\ DiskDrq
             THEN [disk EXCEPT !.phase = "busy", !.left = @ - 1]
             ELSE disk
  /\ pc' = "idle"
  /\ UNCHANGED <<type, next, pending, executing, req, retries, due, irq, inService,
                 reported, halted>>
-----------------------------------------------------------------------------
(* The disk, busy, comes to the next sector's data, or to the end of a      *)
(* WRITE; only the first sector of a WRITE is awaited without an interrupt. *)
DiskStep ==
  /\ ~DiskReady
  /\ disk' = [disk EXCEPT !.phase = IF disk.left = 0 THEN "idle" ELSE "drq"]
  /\ irq' = (irq \/ type[disk.cmd] = "READ" \/ disk.left < Sectors)
  /\ UNCHANGED <<type, next, pending, executing, caller, due, inService, reported, halted>>

(* hd_interrupt: prints executing.head as the completed request, changes    *)
(* nothing, and sends no EOI.                                               *)
ReportNewest == executing.tail
Completed == executing.head

HdInterrupt ==
  /\ ~halted /\ irq /\ ~inService
  /\ irq' = FALSE /\ inService' = TRUE
  /\ reported' = Completed
  /\ due' = due + 1
  /\ UNCHANGED <<type, next, pending, executing, caller, disk, halted>>

Halted == halted /\ UNCHANGED vars

(* All requests are used up and the disk waits for what nobody will do.     *)
Finished ==
  /\ At("idle") /\ due = 0 /\ Created = Requests /\ DiskReady /\ ~(irq /\ ~inService)
  /\ UNCHANGED vars

Next ==
  \/ \E r \in Requests, t \in {"READ", "WRITE"} : CreateRequest(r, t)
  \/ AddPending \/ SubmitRequest \/ SwitchQueues
  \/ PollAgain \/ PollReady \/ PollTimeout \/ SendData
  \/ DiskStep \/ HdInterrupt
  \/ Halted \/ Finished

Spec == Init /\ [][Next]_vars
-----------------------------------------------------------------------------
Queue == [size : 0 .. Cardinality(Requests),
          head : Requests \cup {Null}, tail : Requests \cup {Null}]

(* The sizes, which no removal decreases, count arrivals: at most one for   *)
(* each request.  The disk never has sectors left over.                     *)
TypeOK ==
  /\ type \in [Requests -> {"READ", "WRITE", Null}]
  /\ next \in [Requests -> Requests \cup {Null}]
  /\ pending \in Queue /\ executing \in Queue
  /\ pc \in {"idle", "created", "switch", "poll", "data"}
  /\ req \in Requests \cup {Null}
  /\ retries \in 0 .. Retries
  /\ due \in 0 .. Cardinality(Requests) + 1
  /\ disk \in [phase : {"idle", "busy", "drq"}, cmd : Requests \cup {Null},
               left : 0 .. Sectors]
  /\ reported \in Requests \cup {Null}
  /\ {irq, inService, halted} \subseteq BOOLEAN

(* The requests of a queue, along the next fields from its head.            *)
Reached(link, first) ==
  LET walk[n \in 0 .. Cardinality(Requests)] ==
        IF n = 0 THEN first
        ELSE IF walk[n - 1] = Null THEN Null ELSE link[walk[n - 1]]
  IN  walk
Along(link, first) ==
  LET reached == Reached(link, first)
  IN  [i \in 1 .. Cardinality({n \in DOMAIN reached : reached[n] # Null}) |->
         reached[i - 1]]
Chain(q) == Along(next, q.head)

(* The tail pointer of a queue is the end of its chain, also when requests  *)
(* of the other queue were its neighbours a moment ago: is_queue_empty and  *)
(* the next addition depend on it (hd.c:51-59,106-117,139-144).             *)
TailsMatchChains ==
  \A q \in {pending, executing} :
    LET c == Chain(q)
    IN  q.tail = IF c = <<>> THEN Null ELSE c[Len(c)]

(* The request that hd_interrupt takes for the completed one is the one     *)
(* whose command the disk works on (hd.c:21): moving further requests to    *)
(* the executing queue while the disk is busy does not confuse it.          *)
InterruptFindsCommand ==
  [][inService' # inService => reported' = disk.cmd /\ reported' # Null]_vars

(* The linked lists are two FIFO queues; a request switch_queues has taken  *)
(* off one and not put on the other yet counts as waiting.                  *)
Queues == INSTANCE RequestQueues
            WITH waiting <- (IF pc = "switch" THEN <<req>> ELSE <<>>) \o Chain(pending),
                 dispatched <- Chain(executing)

ImplementsQueues == Queues!Spec
=============================================================================
