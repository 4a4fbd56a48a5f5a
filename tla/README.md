# TLA+ models of blessOS

blessOS is a small 32-bit x86 kernel: boot loader, protected-mode entry, one
address space, a priority scheduler driven by the timer interrupt, a page
allocator and kernel heap, a text console with keyboard and tty, and the start
of a disk driver. It has one processor; concurrency comes from interrupts and
from tasks preempted by the timer. Nothing survives a restart, and there are no
messages: the hard parts are interrupts between any two accesses to shared
fields, eight-bit and 32-bit arithmetic that wraps, resources that run out, and
long sequences of calls.

Line references are to the files under `src/src/`.

## 1. Inventory

| Component | State | Operations | Shared with | What makes it correct |
|---|---|---|---|---|
| task scheduler (`kernel/sched.c`) | task list from `task0`, per task `state` and `priority`, `current`, wait queues | `schedule`, `sleep_on`, `wake_up`, `new_task` | timer interrupt, every task | the init task never blocks; a half-made task is never run; the best RUNABLE task is dispatched; no task starves |
| timer (`kernel/timer.c`) | `timer_ticks` | `do_timer` at 100 Hz | walks the task list, calls `schedule` on the stack of the interrupted task | charging and aging keep priorities in range and tasks taking turns |
| page allocator, page tables (`mm/memory.c`) | `mem_map`, page directory and tables | `get_free_page`, `put_page`, `remove_page`, `get_page_addr`, `free_page`, `no_page` | heap, `main`, page fault | a page has one user; no page is lost; the heap is mapped from start to end |
| kernel heap (`kernel/kheap.c`, `kernel/ordered_array.c`) | header and footer of each block and hole, index of holes by size, bounds | `alloc`, `free`, `expand`, `contract`, `create_heap` | page allocator | blocks are disjoint, headers and footers agree, the index holds exactly the holes |
| cyclic buffer (`kernel/cyclic_buffer.c`) | array, head, tail | `cb_init`, `cb_push`, `cb_pop`, `cb_is_full`, `cb_is_empty`, `cb_get_count` | keyboard handler and tty | a FIFO that refuses when full |
| tty (`kernel/tty.c`) | read and write queue, flags | `parse_key`, `tty_write` | keyboard interrupt, console | characters are echoed in order, none twice |
| keyboard (`kernel/keyboard.c`) | `key_mode` | `do_kb` | tty, interrupt controller | shift state follows the keys; a handler ends its own interrupt and no other |
| console (`kernel/console.c`) | cursor, video memory, the CRT controller's copy of the cursor | `print_c`, `set_cursor`, `scroll_down` | every printing task and handler | the screen is a window on a text; the cursor that is shown is the cursor |
| printk (`kernel/printk.c`) | static buffer and index | `printk` | every task and handler | the text ends within the buffer |
| disk requests (`drivers/hd.c`) | pending and executing queue | `create_request`, queue functions, `submit_request`, `hd_interrupt` | disk, interrupt controller | requests are neither lost nor repeated, and the interrupt is about the right one |
| ATA access (`drivers/pata.c`) | the disk's registers | `is_hd_ready`, `hd_rw`, `is_hd_drq` | disk requests | commands go to a disk that is ready |
| buffer cache (`drivers/buffer.c`) | hash table, free list, locks | `getblk` | scheduler | never called, lists never filled |
| interrupt entry, traps (`kernel/isr.s`, `kernel/exceptions.c`) | dispatch table, the 8259s' requests and lines in service | entry code, `do_page_fault`, traps that print and halt | all handlers | no line is left in service, ticks and keys go on being served |
| boot loader (`boot/boot.s`) | track, head, sectors, segment | `load_kernel`, `read_sectors` | BIOS | every sector is loaded once, to its place, across 64 KiB and track boundaries |
| kernel entry (`boot/setup.s`) | page directory, `pg0`, `pg1` | `setup_paging` | page allocator | 8 MiB are mapped one to one |
| kernel main (`init/print.c`) | - | calls everything above in turn | - | order of initialisation |

`init/main.c` and `kernel/paging.c` are not in the Makefile's objects and are
left aside. The code has no tests; the statements about it are its comments.

## 2. Modules

| Module | Models | Kind |
|---|---|---|
| `Sched` | `sched.c`, `timer.c` | state machine, fairness, properties |
| `SchedProofs` | - | theorems about `Sched` |
| `MCSched` | - | constants, initial states for CPU-bound tasks |
| `CyclicBuffer` | `cyclic_buffer.c` | state machine |
| `BoundedFifo` | - | abstract specification that `CyclicBuffer` implements |
| `MCCyclicBuffer` | - | model checking |
| `PageAlloc` | `memory.c`, `expand` and `contract` of `kheap.c`, `setup_paging`, `main`'s mappings, the page fault | state machine |
| `PageAllocProofs` | - | theorems about `PageAlloc` |
| `MCPageAlloc` | - | model checking |
| `KHeap` | `alloc` and `free` of `kheap.c`, `ordered_array.c` | state machine |
| `Allocator` | - | abstract specification that `KHeap` implements |
| `KHeapProofs` | - | theorems about `KHeap`, the refinement among them |
| `MCKHeap` | - | model checking |
| `HdRequests` | `hd.c`, the command path of `pata.c`, the disk (external) | state machine |
| `RequestQueues` | - | abstract specification that `HdRequests` implements |
| `HdRequestsProofs` | - | theorems about `HdRequests`, the refinement among them |
| `MCHdRequests` | - | model checking, symmetry |
| `Terminal` | `keyboard.c`, `tty.c`, `console.c` between interrupts | state machine |
| `Screen` | - | abstract specification that `Terminal` implements |
| `TerminalProofs` | - | theorems about `Terminal` and the tty's cyclic buffers, with both refinements |
| `MCTerminal` | - | the keyboard of the run |
| `Console` | the cursor in `console.c`, `printk.c`, and the handlers that print | state machine, access by access |
| `ConsoleProofs` | - | theorems about `Console` |
| `MCConsole` | - | texts and messages of the run |
| `Interrupts` | the 8259s (external), the interrupt flag, what the handlers do to both | state machine, fairness, properties |
| `InterruptsProofs` | - | theorems about `Interrupts` |
| `BootLoad` | `load_kernel`, `read_sectors` and `move_kernel` of `boot.s` | state machine, fairness |
| `BootLoadProofs` | - | theorems about `BootLoad` |

One component is often in two modules, each with the detail that its properties
need: the timer's effect on the scheduler is in `Sched`, on the interrupt
controllers in `Interrupts`, on the cursor in `Console`; the keyboard's on the
text in `Terminal`, on the controllers in `Interrupts`. `Terminal` takes the
tty's two cyclic buffers for sequences, which `TerminalProofs` justifies.

### Sched

`list`, `state`, `priority`, `current` and `queue` are the fields of the code.
`op[t]` is the kernel call task `t` is in: which access comes next and the
locals. `timer[t]` is the stack of `do_timer` activations on the kernel stack of
`t`, innermost first.

`schedule()` disables interrupts and the task it switches to enables them only
after the switch, so `Schedule` is part of one step of its caller.
Everything else runs with interrupts on, and is split at each access to a field
others use: `SleepBegin`, `SleepEnqueue`, `SleepBlock`, `SleepDrop`,
`SleepSchedule`, `SleepReturn` for lines 171, 174, 175, 176, 177 and 178-181;
`WakeBegin`, `WakeMark`, `WakeUnlink` for 186, 188, 189; `NewTask` and
`StartTask` for lines up to 68 and 69. The kernel is compiled without
optimisation, so that `v->priority -= 30` is a load and a store (`TimerLoad`,
`TimerStore`); the test of the state (`TimerTest`) comes before them, the clamp of
line 42 with its own store (`TimerClamp`) and the step to the next task (`TimerNext`) after.
`do_timer` sends its end of interrupt and enables interrupts before the walk, so
a second `TimerInterrupt` can come during it.

The tasks' own code is not fixed by the repository (the calls of `new_task` are
commented out, `wake_up` has no caller), so which tasks sleep and which wake are
the constants `Sleepers` and `Wakers`; new tasks are created by `task0`, as
`sched_init` would. Left out: TSS and LDT descriptors, which follow `current`;
`timer_ticks`; the cursor.

### CyclicBuffer

All users run with interrupts off, in `do_kb` and what it calls, so an
operation is a step. Indices are taken modulo `WordMod` (2^32) before the mask
is applied. `ret` is what the last push or pop returned: `Failed` (255) from an
empty buffer is also a character, and `BoundedFifo` has the same ambiguity.
The names that `Terminal` has too begin with `CB`, so that `TerminalProofs` can extend both.

### PageAlloc

Units are pages. `pte` joins the entries of all page tables, indexed by linear
page; `table` is the page directory. `MapNew` is `put_page(get_free_page(), v)`,
`Keep` is what `expand` does with a page that has an address, `RemovePage` is
`remove_page`. Loops take one step a page (`BootPage`, `ExpandPage`, `ContractPage`), which
lets the invariants be seen inside them. History: `installed`, the pages whose entry `put_page`
wrote last; `kept`, the pages the heap took as it found them mapped; `peak`, the most
pages the heap was asked to have; `stray`.

`mem_map` does not know of the pages `setup.s` maps one to one. The heap grows
from linear page 0x400000 on over such pages and keeps them, because
`get_page_addr` is not 0 (`kheap.c:121`), while `get_free_page` hands the same
physical pages out to others, the highest first. The heap's index and first pages have
the highest frames from boot on, so a heap that grows meets its own memory: with the
code's numbers, its page 0x6FF is on the frame of its page 0x3FF. What is removed and installed
again in between moves that point. `OwnPages` is the size up to which no page of
the heap can be on the memory of another, whatever was grown and shrunk before: 511 pages (2 MiB)
with the code's numbers, of which the heap has 128 at boot. `OwnedExclusively` and
`NoLostPages` are about a heap that never had more.

The kernel reads and writes page tables through the linear page of their physical address
(`memory.c:60`, `77`, `95`). `Reachable` is the condition for that to be the table;
every access checks it. `Trampling` says that a page in use lies over the kernel or over a page
table, where the heap's next store may change the entries; `CreateHeap` and `Resized`
check it. After either, or after a page was handed out twice or one behind memory was freed,
`stray` is set: from there the contents of memory decide what happens, and the model stops.
A new page table is not cleared, so that its other entries may be anything (`Stale`): zero, not
present, in memory, or behind all memory (`Beyond`). With a layout like the code's, the heap's own
first page table lies under one of its pages or is out of reach as soon as it is there:
stale entries matter in the loop of that `expand`, and `stray` ends it.

### KHeap

`PageAlloc` looks at the heap's pages, `KHeap` at what lies in them. `mem` is
memory as it is read back: a unit holds a header, a footer or something else, and
goes on holding it until it is written again, so that old headers remain inside
holes, blocks and behind the end of the heap. Header and footer, 12 and 8 bytes
in the code, are one unit each: two of them coincide or are disjoint. `index` is
the ordered array. `Alloc` and `AllocGrow` are `alloc` with and without
its recursion, `Free` is `free` with `contract`, `Use` is a caller that fills
its block with anything but a magic number. `live` is history: what the callers have been given.
A page that `contract` gives back may come back on the frame that it or another of them had,
or on a frame that others have written to (`was` of `ShrunkTo`).

A cell of memory is one of its own only while no two pages of the heap are on one frame.
`OwnPages` is the constant for that, and stands for `OwnPages` of `PageAlloc`, where
`OwnedExclusively` justifies it. `free` reads the header behind the end of the heap,
so the page there has to be private too: the heap of this model has one page less, 510 with the
code's numbers.

`Allocator` is what the callers rely on (`kheap.h`): a block is a set of cells that no other block
has, as many as asked for or one more, and what a cell holds changes only when the holder writes.
`Content` maps the heap to it: the blocks in `live`, and of each the cells between header
and footer, as memory has them. A step that gets the heap out of order breaks the promise
(`broken`), and from there on nothing is promised.

Six steps get the heap out of order, and `flaw` names the first: `aliased`
(`kheap.c:121`, `alloc` takes in pages that may be on the memory of other blocks, see
`PageAlloc`), `overgrown`
(`kheap.c:264`, new pages go to a hole that does not end the heap), `mislaid` (363, the
footer of a hole united with its right neighbour names the wrong header),
`unlisted` (357, an old header behind the end of the heap is taken for a hole),
`cramped` (383, a last hole smaller than header and footer) and `fault` (356, the
page behind the end is not mapped). What comes next hangs on leftovers in memory; the
model stops there, and the properties are about the heap up to that point.
`unlisted` fails an assertion of the code and has a run of its own.

### HdRequests

`pending` and `executing` are the two `request_queue_t`, `next` the link field
of the requests; `size` only ever grows (`hd.c:122-147` does not decrease it).
The caller goes through `CreateRequest`, `AddPending`, `SubmitRequest`
(`switch_queues` up to the removal), `SwitchQueues` (the addition, and the choice
of `executing.head`), `PollAgain`/`PollReady`/`PollTimeout` (`is_hd_ready` with
its counter, then the command) and `SendData`. `DiskStep` is the disk, modelled
from the way the driver uses it. `HdInterrupt` is the handler, which only reads;
it sends no end of interrupt, so `inService` stays set. `due` counts the calls of
`submit_request` that `hd.h:52-53` asks for. Which request a command is for
follows `executing.head`, and nothing ever removes that: the second submission
repeats the first command.

### Terminal

A key goes through `do_kb` (`KeyUp`, `ModifierDown`, `KeyDown`), `parse_key`
(`ParseKey`) and `tty_write` (`WriteChar` for one turn of its loop, `WriteDone`),
all inside the keyboard's handler, with interrupts off. `PrintC` is `print_c` with
the video memory it writes; a cell is its character. The constants
`keytable`, `kbdus` and `shift_kbdus` are the code's tables. `KernelPrints` is
`printk` between two keys. History: `held`, the keys that are down; `right`, a
right shift was pressed since a left one was last released (`keyboard.c:113-125`
has no case for its release); `last` and `shown`, the key being handled and what it
has printed.

`Screen` knows no rows and no columns, only a window of cells and the next one to
be written; `dest`, the expression of `print_c`, is the mapping.

### Console

`csr_x`, `csr_y`, `ptr` and `buffer` are the statics of `console.c` and
`printk.c`, `index`, `low` and `high` the registers of the CRT controller. The task
makes one access in a step, in the order of unoptimised code: `++csr_x` is
`ColumnLoad` and `ColumnStore`, `set_cursor` takes eight steps. Handlers have
interrupts off, so that what one prints is printed, character by character, before the
task goes on (`echo`). `TimerInterrupt` is `do_timer`'s `set_cursor` to the corner and
back. What the task writes to video memory in between is left out.

### Interrupts

`irr`, `isr`, `unmasked` and `lowest` are the master 8259, `slaveIrr` and
`slaveIsr` the disk's line of the slave, `frames[t]` the active handlers
of a task, innermost first. `do_timer` turns interrupts on before its end of interrupt
and calls `schedule` after it, so that handlers nest and wait in several tasks.
`do_kb` sends the value 0xA0 to the master, which ends the interrupt in service
*and* gives its line the lowest priority, then 0x20 (`KeyRotates`,
`KeyEnds`). `hd_interrupt` sends nothing. Whether the disk is ever unmasked is left
open: `initialize_pata` is a comment in `main`.

### BootLoad

The registers are those of the loop in `load_kernel`; memory is an array of
sector-sized cells that hold the number of the disk sector they are a copy of. A
failed read (`ReadFails`) may have read any part of what was asked for.
`calc_sectors`' carry and zero flags are `SectorsToRead`.

## 3. Runs

| Run | Bounds | Shows |
|---|---|---|
| `sched_tasks` | 3 tasks, 1 queue, priorities 0..2, one `do_timer` at a time, all tasks may sleep, `task0` wakes | `TypeOK`, `InitTaskReady`, `NewbornNotDispatched`, `SelectionIsLoop` (the declarative choice is what the loop computes), `StrandedForever` |
| `sched_ticks` | 4 CPU-bound tasks, the code's numbers | `EveryTaskRuns` |
| `pages` | 15 frames behind one low page, tables of 2 entries, heap of 2 pages at boot, then of the `Sizes` 1, 2, 4, 8, 11, 12, 13 | `TypeOK`, `HeapBacked` (up to 11 pages, the end of memory), `OwnedExclusively` and `NoLostPages` (up to `OwnPages` = 4) |
| `pages_exhausted` | 8 frames, tables of 3 entries | page 0 is handed out twice (`FoundPageWasFree` fails) |
| `kheap` | pages of 4 units, 2 pages at first, 1 to 4 later, `OwnPages` 5; blocks of 4, 7 and 11 units with header and footer | `TypeOK`, `TilesTheHeap`, `FootersLeadBack`, `HolesUnited`, `ImplementsAllocator` |
| `kheap_assert` | the same | an assertion of `free` fails (`RightHoleIsIndexed` fails) |
| `cyclic_buffer` | 4 slots, words modulo 16, 3 characters | `CBTypeOK`, `ImplementsFifo` |
| `hd` | 4 requests, 2 sectors, 3 polls | `TypeOK`, `TailsMatchChains`, `InterruptFindsCommand`, `ImplementsQueues` |
| `console` | 3 columns, 2 lines, bytes modulo 4, a buffer of 6, a text of a plain character and a newline, two messages | `TypeOK` (with the bound on the cursor), `TextFits`, `CursorShown` |
| `terminal` | 3 columns, 2 lines, tab stops every 2, a key of each kind | `TypeOK`, `EchoOfKey`, `ModifiersHeld`, `ImplementsScreen` |
| `irq` | 2 tasks, 2 nested ticks, all three lines | `TypeOK`, `OnlyOwnInService`, `TimerServed`, `KeyServed`, `OneDiskInterrupt`, `DiskStopsAll` |
| `boot` | 18 sectors a track, `SYSSIZE` 0x7000: the values of `boot.s` | `TypeOK`, `ReadFits`, `LoadedInOrder`, `KernelInPlace`, `Boots` |

Deadlock is checked in every run. Where the code stops for good (a halt, a heap out
of order, the end of the boot loader) the models have an action that stutters there,
such as `Halted`.

Why the bounds are enough. Three tasks give a current task, a better one and a
third that is passed over, sleeps or is half-made; three priorities give less,
equal and greater, and wrap after three ticks. Two ticks nested on one stack were
checked in a variant of `sched_tasks` with one sleeper (1.4 million states, the
same result); the proof covers any depth. Four slots let the buffer be empty,
full and wrapped at every offset. The heap of `pages` starts at two pages, so that it
can shrink below its first size, grow within `OwnPages` and past them, over all
identity-mapped pages, and take a page table of its own with page frames left; a table entry
left uncleared may be zero, absent, a page in low memory, one behind it, or one behind all
memory. The bounds in the two properties are needed: without them TLC finds both violated in the
same instance, `OwnedExclusively` by a heap grown from 2 pages to 8 (or, with that size
added, one resized to 6), `HeapBacked` by one of 13, whose last page has an entry that is not
present. Blocks of 4, 7 and 11 units are a page, less than two and less than three; they leave holes
that fit exactly, by one unit too many, and not at all, and each of the six flaws is
reached. Four requests let both queues be longer
than two, so that head, middle and tail differ. Three polls give "first", "last" and
"none".

A screen of three columns has a first, a middle and a last one, two lines scroll with
every second newline; six positions take two bytes of the controller when a byte has four
values. The text and the longer message fill the buffer of `printk` to its last
character. A tab width of two puts a stop within the line and one behind its end. Two tasks
and two nested ticks let a handler wait in one task while a tick or a key comes
in the other. `boot` has no bound: the sizes are the code's, and the only freedom is where
reads fail.

With five CPU-bound tasks in place of four, `EveryTaskRuns` fails: the fifth task
is never chosen. The result of `sched_ticks` is therefore about at most four
tasks.

### Fairness

- `EveryTaskRuns`. `LinkedSpec` assumes weak fairness of `TimerInterrupt` (the timer
  chip keeps ticking and nothing masks it) and of `TimerStep` (a handler runs on), and
  strong fairness of `CallStep`: a tick may come between any two instructions of a
  task, but 10 ms lie between ticks, so the task gets a step in again and again.
  Nothing is assumed of the order in which tasks are chosen.
- `TimerServed`, `KeyServed`. A handler runs on and the
  chip ticks (weak fairness of `Handler` and `Tick`). `Deliver(l)` is strongly fair for each
  line: interrupts are off in handlers again and again, and a tick may always come
  first, but each line that may be delivered again and again once is. `main` comes to unmask the
  timer and the keyboard, ticks or not: strong fairness of `Unmask` for these two, none
  for the disk. No task is assumed to be scheduled, no key to be pressed.
  `OneDiskInterrupt` and `DiskStopsAll`, of the same run, are safety and use no fairness.
- `Boots`. The processor goes on (weak fairness of `Progress`), and a read that is tried
  again and again succeeds (strong fairness of `ReadTrack`). The loader has no
  bound on its retries: with a sector that is never readable it does not end.

## 4. Proofs

`SchedProofs` proves for every set of tasks and queues, every choice of
sleepers and wakers, every priority range and cost, and any depth of nested
ticks (assumptions `TasksAssumption`, `PriorityAssumption`, `NestAssumption`):

- `Invariant`: `Spec => []SchedInv`. `SchedInv` is inductive. `TypeOK` and
  the two safety invariants are not by themselves: that the init task is never
  made UNINTERRUPTIBLE needs that it is never inside `sleep_on`
  (`CallsWellFormed`); that it is not marked RUNNING by a waker or sleeper needs that no queue
  and no sleeper's `tmp` holds it or a half-made task (`WaitersStarted`); and that
  a tick's walk stays in the list needs `WalksLinked`. TLC checks `SchedInv` on
  the small instance as well.
- `TypeCorrect`, `InitTaskAlwaysReady`, `NewbornSafe`: its consequences.
- `LoopSelects`: `Spec => []SelectionIsLoop`. What `schedule`'s loop has after `i` turns is the
  first of the best of the first `i` tasks (`Best`); there is exactly one such for each `i`, which
  is why the recursion `Scan` has a value (`BestExists`, `BestUnique`, `ScanTurns`: the
  least number of turns for which it failed would fail after one turn less). That the last of them is the
  task `Selected` takes needs each task to be in the list once (`LinkedOnce`).
- `Stranded`: `Spec => StrandedForever`, once a task is out in a state
  `schedule` does not look for, it stays out.

`ConsoleProofs` proves `TypeCorrect`, `TextAlwaysFits` and `CursorAlwaysShown` for
every size of the screen, of the buffer and of a byte, all texts and all messages
that fit the buffer together (`ScreenAssumption`, `TextAssumption`). `Inv` is
`TypeOK` with `Ranges` and `Fits`. `Ranges`: the column is `Columns` only before
the end-of-line test, and a column that is about to be stored is on the screen.
`Fits`: `ptr` is at most what the task has formatted plus what one message adds, which a
message in the middle cannot exceed because it starts from 0. `CursorAlwaysShown` adds that the
parts of the position not yet written are in the task's register, as long as no handler
has printed (`torn`).

`TerminalProofs` proves `TypeCorrect`, `KeyEchoed`, `ModifiersAlwaysHeld` and
`Refinement` (`Spec => ImplementsScreen`) for every screen, tab width, keyboard and key table
with one left shift (`SizeAssumption`, `CharAssumption`, `KeyAssumption`). `Inv` adds to
`TypeOK` how much is in which queue at which stage (`Phases`), that what has been
printed and what is still queued are together the echo of the key (`EchoInHand`), and that the
shift `do_kb` believes in is the left shift that is held (`ShiftKnown`).
The refinement goes by the kind of character: each call of `print_c` is one step of `Screen`,
which needs the arithmetic of rows and columns (`dest` from its row and column and back).
Its last part is about `CyclicBuffer`: `RingTypeCorrect` and `RingImplementsFifo`
(`CBSpec => ImplementsFifo`) for every size greater than one and every word width that is a
multiple of it (`CBSizeAssumption`, `CBBytesAssumption`). The lemmas are facts about
remainders: the masked difference of two indices is the number of characters between them.

`InterruptsProofs` proves `TypeCorrect` and `OnlyOwnEnded` for every set of
tasks and every depth of nesting: whatever is in service is what the innermost handler of the
running task has still to end, as long as the disk has not interrupted. The invariant says
in addition that every handler below the innermost, and every handler of a task that waits, is
a `do_timer` past its command, and that the interrupt flag is off exactly in the steps that expect
it. `DiskInterruptsOnce` proves `OneDiskInterrupt` without any fairness: by `DiskInv`, only the
innermost handler can be at the entry of `hd_interrupt`, with the flag off, and once the slave
has its line in service the master has no request from it; after `hd_interrupt`'s first step no
handler at all is at that entry (`Served`), and no step brings one there. `DiskStops` proves
`DiskStopsAll`, without fairness too. With the keyboard's line lowest, the disk's interrupt may
come under a `do_timer` that has not sent its command. `Stopping` says what is in service then: the
cascade, and the timer's as long as that `do_timer` is under it. Its command ends the cascade, which is
above it, and leaves the timer's own line in service, which no handler is left to end
(`StoppingStays`); either line keeps the others out (`StoppingBlocks`).

`BootLoadProofs` proves `TypeCorrect`, `EveryReadFits`, `AlwaysInOrder`,
`StartsInPlace` and `NothingElseRepeats` for 2 to 127 sectors a track and every size of the system that
is a multiple of 64 KiB and ends below the boot sector (`BootAssumption`), wherever reads
fail. `Inv(n)`, for a system of `n` segments, says while loading that `es:bx` is the start
of sector `b` of segment `k`, that what lies below is loaded, and that the place on the disk belongs
to the place in memory; while moving, which segments are in place and which still where they were
read. `NothingElseRepeats` is the part of `Boots` that needs no fairness: every step but
a failed read raises the measure `Reached`, which has a greatest value, so that the loader ends unless
one read fails for ever.

`HdRequestsProofs` proves `TypeCorrect`, `TailsCorrect`, `InterruptCorrect` and `Refinement`
(`Spec => ImplementsQueues`) for every finite set of requests and every number of sectors and
polls (`RequestsAssumption`, `BoundsAssumption`). The heart is what a queue is in memory:
`IsList` says that the `next` fields lead from head to tail along a sequence without
repetition, and the lemmas `ListAdded`, `ListRemoved` and `ListUntouched` say what the code's
assignments do to that sequence. `Chain`, the sequence the model reads off the fields, walks a
recursive function; that it finds exactly the list (`ReachedList`) is an induction on the
distance from the head, done with the least counterexample (`LeastNat`, from the library's
well-founded minimum). The invariant says besides that the two lists are disjoint and hold created
requests only (a request in both would join their tails), that the caller's request is in neither,
what the three counters count (`CountsInv`), and that a disk with a command has the
executing queue's head (`DiskInv`). `Room` bounds the counters by the number of requests.

`PageAllocProofs` proves `TypeCorrect`, `HeapIsBacked`, `PagesOwned` and `PagesCounted` for
every layout of memory and heap, every size of the page tables and whatever words are in pages
never cleared (`LayoutAssumption`, `HeapAssumption`; `StaleAssumption` only says that an entry
is one of the kinds there are). `Inv` adds three things to `TypeOK`. `LoopsInv`: up to the
position of each loop, the pages of the heap are installed or kept. `EntriesInv`: a page in a
boot table is as `setup.s` mapped it, as `put_page` mapped it, or removed. `HeapIsBacked`
needs these two only: a heap below the end of memory is in boot tables. `OwnInv` is about a heap
of at most `OwnPages` pages, and is a counting argument: the pages in use have at most `Room` places
(`Reach`), each used frame is that of one installed page, so that `get_free_page` always
finds a free frame among the `Room` highest (`SomeFree`); used frames thus lie from `Top` on, kept
pages lie below it (`KeptAreLow`), and the two never meet. `MapNewMaps` and `MapNewOwns` say what
`put_page` does to the entries and to this state, `RemovePageOwns` what `remove_page` does.

`KHeapProofs` proves `TypeCorrect`, `TilesCorrect`, `FootersCorrect`, `HolesStayUnited`
and `Refinement` (`Spec => ImplementsAllocator`) for every size of a page, of the heap and of the blocks asked for,
and every number of pages with memory to themselves
(`HeapAssumption`). All of it is about a heap within these pages: growing past them is the flaw `aliased`. `Inv` says of a heap without a flaw
what the properties say of it, and two things more. `Tiling` has the headers of
blocks and holes lead from one to the next, from the start to the end, which is inductive where
"each unit is in one of them" is not. `Sane`: a header left over from an earlier block, in a hole
or behind the end, still has a size that holds a header and a footer, so that one `free` takes for
a hole cannot have length 0. TLC checked `Inv` on the small instance first. The proof is in three
layers: what the calls of `ordered_array.c` do to the index (`InsertedHole`, `RemovedHole`);
what splitting, joining, extending and shortening do to a tiling, for any memory (`TilingSplit`,
`TilingJoin`, `TilingLast`, `TilingAppend`), and from these what each branch of `alloc` and
`free` does to a heap in order (`TakeWhole`, `TakePart`, `HoleAppended`, `LastResized`,
`FreedAlone`, `FreedLeft`, `FreedRight`); last, that each action writes what these lemmas assume.
That footers hold only while there is a block is not caution: `create_heap` writes none.
The refinement takes from it that what `alloc` takes out of a hole becomes a block that was
none, of the size asked for or one unit more (`TakeGrants`), that the cells of
two blocks are disjoint in every tiling (`PayloadsApart`), before and after the step, and that no
action writes to the cells of another's block (`Kept`).

Only model-checked: `EveryTaskRuns`, `TimerServed`, `KeyServed` and
`Boots` (liveness under fairness, which the prover does not do), and the two properties that
fail, `FoundPageWasFree` and `RightHoleIsIndexed`. What an
uncleared page table holds comes from a set of kinds, and a heap past `OwnPages` is not
followed beyond the step that gets it there (`KHeap`) or the one that goes astray (`PageAlloc`).

## 5. Disagreements found

With a run of their own:

1. `memory.c:9-22`: "address of found free page", yet page 0 is returned when
   none is free (`pages_exhausted`).
2. `kheap.c:371`: `ASSERT(iterator < heap->index.size)` fails in `free` after
   allocating, freeing, allocating and freeing a block
   as long as the smallest heap (`kheap_assert`).

Behaviours of the models that a reader of the code may not expect; the properties are
stated so that they leave room for them:

3. `kheap.h:19`: "Allocate new memory", yet `expand` takes pages that `setup.s` mapped
   (`kheap.c:121`), whose memory the heap's first pages may have already. `OwnedExclusively` and
   `flaw = "aliased"` say how far the heap is safe from that.
4. `memory.c:84`: "Returns a physical address of the page requested", yet an entry that is
   not present passes for an address, in a page table that was not cleared: `expand` maps
   nothing, and the heap's page is not mapped. `HeapBacked` ends where such tables begin.
5. `timer.c:41`: the clamp of the running task's priority compares an unsigned
   eight-bit value with `<= 0`; the priority wraps and the task that used up its
   time becomes the best. `TimerStore` subtracts modulo the range. A tick nested in the walk
   can lose such a charge; nothing promises a task its share, and no property is about it.
6. `kheap.h:19`: "Allocate new memory", yet `alloc` may extend a hole over the
   blocks behind it and hand their memory out again (`flaw = "overgrown"`).
7. `hd.h:52-53`: calling `submit_request` on completion halts when nothing is
   pending (`Halted` of `HdRequests`).
8. `pata.c:88-108`: "HD controller doesn't respond" is said of a disk that
   answered the last poll, and a disk that never answered is sent the command
   (`PollReady`, `PollTimeout`).
9. `hd.c:21-35` ends no interrupt: `OneDiskInterrupt` and `DiskStopsAll` say what
   that comes to once the disk is unmasked.
10. `keyboard.c:163` sends to the master what was meant for the slave. It does no harm without
   the disk, because nothing but the keyboard is in service then (`OnlyOwnInService`).
11. `keyboard.c:113-125`: the release of the right shift has no case
   (`right` of `Terminal`).
12. `console.c:196`: an Enter echoed between the test of `csr_y` and its increment puts
    the cursor on row `LINES`, below the screen. `TypeOK` of `Console` allows this row
    and no further one; with `Lines - 1` in its place TLC shows the interleaving.
13. `boot.s:42`, "store it in 0x90510": `[510]` is decimal and lands at 0x901fe. `boot.s:28`,
    "stack is 512KB away": it is 1 KiB.

## 6. Not modelled

The buffer cache (its only entry point has no caller and its lists are never
filled), the traps that print and halt, the descriptor tables, `memcpy` and
`memset`, number formatting, `calc_mem`, sources that are not compiled, aligned
allocation from the heap (no caller), `scroll_up` and `set_origin` (no caller),
colours. Several tasks inside `printk` at once: `new_task` has no caller, so that only one
task prints. What a task writes to video memory while a handler prints is left out of
`Console`: `dest` is then stale, and a character goes wherever it pointed.
