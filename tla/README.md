# A verification project for AutismOS

TLA+ modules that model parts of the AutismOS kernel, TLC configurations that
check them on small instances, and TLAPS proofs of the properties that matter
most. Paths are relative to the repository; `ipc.c:33` is line 33 of the file of
that name.

Contents: [the system](#the-system), [the modules](#the-modules),
[what the runs check](#what-the-runs-check), [bounds](#bounds),
[fairness](#fairness), [what is proved](#what-is-proved),
[disagreements found](#disagreements-between-the-code-and-its-words),
[what is not modelled](#what-is-not-modelled), [the plan](#the-plan).

## The system

AutismOS is a 32-bit x86 kernel in C with a graphical desktop. `kmain`
(`kernel/core/kernel.c`) initialises the CPU tables, paging, keyboard, system
calls, shared memory, both input layers, the mouse, the network, tasks, processes
and the desktop; it opens a notepad, executes `sti` and then loops over
`desktop_draw(); hlt`. From then on everything happens in interrupt handlers and
in that loop.

Two facts shape every model here:

* **Handlers are atomic.** The IDT is filled with interrupt gates, so the timer
  tick, `int 0x80` and the device handlers run with interrupts off. One handler
  is one action.
* **Everything else can be interrupted.** `kmain`'s loop and code that runs in a
  task (the graphics client and server) can be stopped between any two
  instructions. Where such code shares state, its accesses are separate actions
  (`SharedQueue`, `DesktopDraw`).

The build compiles without optimisation, so `count++` on shared memory is a load,
an add and a store. Several components are complete in the source but not started
by `kmain`: nothing calls `kheap_init`, `pmm_init`, `vmm_init`, `scheduler_init`,
`gfx_server_init` or `process_create`. They are modelled as the libraries they are,
driven by every sequence of calls their interface allows. Paging (`memory.c`), user
space, shared memory and the network are started.

The network knows no interrupts: frames wait in the card's ring until the one
program that uses it, `ping_ip`, polls. Its handlers are therefore calls inside that
program, and can be nested when a handler itself has to wait for ARP.

### Inventory

| Component | State | Operations | Interacts with | What is hard, what must hold |
|---|---|---|---|---|
| Message queue, `kernel/ipc/ipc.c` | ring of messages, two indices, a count | init, enqueue, dequeue, is_full, is_empty | mailboxes of processes, system calls, graphics client and server | wrap-around; races of preemptible callers. FIFO, nothing lost or invented |
| Tasks, processes, tick: `task.c`, `process.c`, `asm/irq.asm` | two circular lists, task states, saved stack pointers, `current_*` | create, tick, lookup | timer interrupt, system calls | first switch away from `kmain`; states overwritten by the tick; rings stay whole, stacks are not mixed up, ready tasks run |
| System calls, `kernel/syscall/syscall.c` | none of its own | send, receive, poll, print, time, graphics | mailboxes, task states | check, block and wake; no lost wake-up, right sender |
| Input events to processes, `drivers/input/input.c` | none of its own | key event, mouse event | mailbox of pid 1 | full mailbox; the receiver is woken |
| Physical frames, `kernel/core/pmm.c` | bitmap, counters | init, mark, allocate one or a run, free | virtual memory | overlapping ranges; the search; counters equal the bitmap, no frame lent twice |
| Kernel heap, `kernel/core/kheap.c` | headers in memory, free and used list | init, malloc, calloc, realloc, free, integrity check | tasks, shared memory, page directories | splitting and coalescing over list links, sizes and lengths that wrap; grants never overlap |
| Virtual memory, `kernel/core/vmm.c` | page directories, page tables, areas | init, map, unmap, create, switch, destroy, allocate and free pages, search | frames, heap | failure half way, tables shared between directories; a frame has one use, address spaces stay apart |
| Page directories, `kernel/core/memory.c`, `kernel/syscall/usermode.c` | page bitmap, directories with two views of their tables, a bump pointer | create, switch, map, allocate and free a page, allocate user memory | heap, boot, shared memory | directories copied before user pages are granted; user pages are user memory everywhere |
| Priority scheduler, `kernel/core/scheduler.c` | pool of entries, a linked ready queue per priority, counters | add, remove, yield, block, wake, sleep, exit, tick, set priority | timer | one pair of links for every queue; the queues are FIFO and hold the ready tasks |
| Desktop, `kernel/ux/desktop.c` | windows in z-order, focus, drag, menu, redraw request | create, close, focus, cycle, keys, mouse events, draw | input manager, keyboard, applications | handlers reorder windows while they are drawn; three records of the focus |
| Input manager, `kernel/input/input_manager.c` | event queue, pointer, buttons, listeners | post, poll, listen | mouse driver, desktop | a queue nobody empties; dropped events |
| Drivers, `drivers/input/mouse.c`, `keyboard.c` | packet bytes, previous buttons, modifiers | interrupt handlers | input manager, desktop | lost bytes; buttons recorded though the event was dropped |
| Applications, `apps/*.c` | pools of per-window state | create, draw, key, mouse | desktop | states drawn from a pool and never given back |
| Graphics server and library, `gfx_server.c`, `lib/libgfx.c` | windows with buffers, identifiers on both sides | create, draw, show, hide, destroy, redraw | message queue, heap, processes | identifiers guessed on one side and chosen on the other; an identifier names a window |
| Shared memory, `kernel/ipc/shm.c` | region slots, reference counts | create, find, map, unmap | heap, system calls | a free slot looks like identifier 0; an identifier keeps its memory |
| TCP, `drivers/network/tcp.c` | one active connection | connect, send, receive, close | IP, `ping_ip` | late segments of earlier connections, an object that is gone; both ends agree |
| ARP, IP, ICMP, Ethernet | ARP cache, echo state | resolve, answer, ping | network card, `ping_ip` | waiting inside a handler, late answers; a success needs an answer |
| Network card, `rtl8139.c` | receive ring | poll | Ethernet | a callback that polls again |
| Disk, `disk.c` | table of files | create, read, list | | overlapping sectors |
| Drawing, HTML, boot, library | pixels, one page, CPU tables | | | no protocol between actors |

## The modules

The dependencies, `A <- B` for "B extends or instantiates A":

    BoundedFifo <- MessageQueue <- MCLibraries
    MessageRing <- MessageQueue, SharedQueue, Tasking
    MessageQueue <- MessageQueueProofs
    SharedQueue <- MCSharedQueue      Tasking <- MCTasking, TaskingProofs
    FrameMap <- Pmm <- MCLibraries
    Allocator <- Heap <- MCHeap <- MCLibraries
    Pmm, Heap <- MemoryProofs
    WindowList <- Desktop <- DesktopDraw <- MCDesktopDraw, DesktopProofs
    Desktop <- MCDesktop
    FrameMap <- Vmm <- MCVmm, VmmProofs
    ReadyQueues <- Scheduler <- MCScheduler, SchedulerProofs
    SharedMemory <- UserMemory <- MCUserMemory, UserMemoryProofs
    MessageRing <- Gfx <- MCGfx       Network <- MCNetwork, NetworkProofs

**BoundedFifo** is the abstract specification of a mailbox: a sequence of at most
`Capacity` messages, with put and take that may fail.

**MessageRing** has the data structure of `ipc.c` as operators on a record with the
fields of `message_queue_t`. `message_queue_enqueue(q, m)` yields what the call
returns and the queue it leaves. `Contents(q)` is the sequence a ring stands for.
A message is opaque, because the code copies it as a whole.

**MessageQueue** is one ring under atomic callers. `call` holds what the last call
returned and delivered, so that the refinement of BoundedFifo (`ImplementsFifo`,
with `fifo <- Contents(queue)`) speaks about results as well as state.

**SharedQueue** is the same ring under preemptible callers: the check, the slot, the
load and store of an index, and the load and store of `count` are separate actions,
`pc` and `register` belong to each task. It is what `libgfx.c` and `gfx_server.c`
do when the timer switches tasks in mid-call.

**Tasking** composes `task.c`, `process.c`, the IPC part of `syscall.c` and
`input.c`, with a MessageRing as the inbox of each process. Its variables are the
file-level variables and fields of the source under their names; `running` is the
context that executes, `task_esp[t]` the context whose frame the saved stack pointer
refers to. `ProcessCreate` includes `task_create`; `ProcessCreateFails` stands for
every early return after the pid was drawn. `TickStarts` is the branch of
`task_scheduler_tick` taken when the interrupted code is not yet a task,
`TickSwitches` the other. `SysSend`, `SysRecv`, `SysPoll` are enabled when a task
runs; `InputEvent` whenever interrupts are on. The round-robin walk is the relation
`FirstRunnable`: a path along `next` to the first task that can run.

**FrameMap** and **Pmm** are `pmm.c`: `pm.used` is the set of set bits, the counters are
kept as the code keeps them. `reserved` and `owned` record what the callers were
promised. `AllocFrames` is specified by the lowest free run. `Scan` is the loop of
`pmm_alloc_frames`: `Visit` is one turn of it, on its two variables; what it returns is
compared with that specification.

**WindowList** has the operations of `desktop.c` on a record with the fields of
`desktop_t`. Windows are a sequence from bottom to top, as in the array. Place, size
and content are one value, a window's *look*; which window and which region a press
hits is an argument that ranges over all of them, so every geometry is covered.
`Create` is an application's create function: the window, its focus, and a state
from the application's pool.

**Desktop** adds the actors. A step is one complete mouse packet (`mouse_handler`: a
change of the left button, of the right, of the middle one, then the movement, each
posted through `input_post_event` with its full-queue drop), or one key
(`desktop_handle_key`, which the keyboard handler calls directly), or one of the two
writes of `desktop_draw`. Ctrl+Q stops the machine and is therefore no step.

**DesktopDraw** is `kmain`'s loop: `DrawBegin` takes up the request,
`DrawBackground` draws the wallpaper and the start button, then come the buttons of the
taskbar one by one, the menu, and each window by index in two steps:
`desktop_draw_window` paints its frame and loads its drawing function, `draw_content`
calls that function on whichever window is in the slot by then. `Present` shows the
picture. Every handler of Desktop may run between any two of them, and so may Alt+Q,
which paints a pause screen. `frame` is the back buffer as the sequence of its layers
of paint, each with what the code read for it; `Picture` is the desktop as it should
look.

**Allocator** is what callers may expect of a heap: grants are disjoint ranges of the
arena and stay where they are. **Heap** is `kheap.c` word by word: block headers are
five words in `mem`, the lists are links through them, `size_t` arithmetic wraps at
`Modulus`: the length of a rest (`kheap.c:79`), the product of `kcalloc` and, for sizes
near the largest, the rounding of a request (`kheap.c:14`), which then is 0. `Split`, `CoalesceNext`, `CoalescePrev`, `find_best_fit` are the helpers of
the source; `BlocksOf` follows a list from its head. Each call is one action, and
`UserWrites` lets callers fill what they hold, so that a grant that covers a header
destroys it. `live` is what callers hold, each with the size it asked for; the abstract
allocator knows those whose size did not wrap (`Served`). Its names begin with `Heap`, and
those of MessageQueue with `Queue`, where Pmm has the same, because MemoryProofs and
MCLibraries speak of several of them.

**Vmm** is `vmm.c` over FrameMap. A page table is a frame, and `memory` is what each
frame holds when it is read as one; a directory has the frames of its tables. The
operators take a state `k` and return the next one, with the result of the call in
`k.ok`, so the failure of a frame allocation half way through a call leaves exactly
what the code leaves. `FindFreeRegion` tries the hint and then scans; the ends of
regions and of the scan are sums modulo the address space, as in the code.

**ReadyQueues** is the promise of `scheduler.h`: queues that are joined at the end and
left anywhere. **Scheduler** is `scheduler.c`: a pool of entries with `next` and `prev`
as slot numbers. `Members(g, q)` follows the links from the head of a queue, as far as
the pool is long; the refinement maps each queue to it. An entry joins a queue at the end
and leaves it anywhere, so ReadyQueues has one action for each.

**SharedMemory** has `shm.c` as operators on the region table. **UserMemory** composes
it with the page directories of `memory.c`, the bump allocator of `usermode.c` and the
system calls on shared memory; they meet in the heap, from which regions, directories
and page tables all come. A directory has the two views of the source, `tables` (what
the kernel writes through) and `entries` (what the processor walks). The bump pointer wraps
(`BumpedBy`); when it does, the code maps nothing, clears memory until it meets a page
that is not mapped, and panics in the page-fault handler. `kmalloc` is taken
as able to return several blocks, though Heap shows that today's serves one: the
properties must not rest on that defect.

**Gfx** joins `libgfx.c` and `gfx_server.c` by the inbox of the server's process. What
a message loses on its way through `message_t` is `GfxMessage`. `current` is the process
that was created first: nothing calls `process_switch`.

**Network** is the whole stack under `ping_ip`, with the hosts it talks to. `waits` is
the stack of calls of `ip_send` that wait for ARP; `rtl8139_poll_receive` hands the
frame at the head of the ring to a handler; `AfterHandler` is what a handler that
waited does to the ring when it returns into the outer poll. Hosts ask, answer, ping,
and serve TCP, and every frame may be lost.

The `MC` modules give the constants small values. Definitions whose comments say
nothing of the source and that stand just before the definition they resemble
(`InsertAfterHead`, `TickStaysOnHead`, `RangeOneTooLong`, `SwapWithTop` and so on) are
deliberate mistakes: substituted for the right definition, each makes a property of
its run fail, which shows that the property can fail.

## What the runs check

| Run | Module and configuration | Result | States |
|---|---|---|---|
| `libraries` | MCLibraries | of the queue `QueueTypeOK`, `RingAgrees`, `ImplementsFifo`, of the frames `TypeOK`, `CountersAgree`, `BitmapIsOwnership`, `NoFalseExhaustion`, `ScanIsFirstFit`, `GrantsAreFresh`, of the heap `HeapTypeOK`, `ImplementsAllocator`, `OnlyShrinkingBreaksIntegrity` hold | about 30 000: a three-slot ring, six frames, heaps of 15 to 44 words |
| `shared_queue` | MCSharedQueue | `CountIsNumberOfMessages` is violated | a lost update of `count` |
| `tasking` | MCTasking | `TypeOK`, `TaskRing`, `ProcessRing`, `OwnStack`, `NoLostWakeup`, `ReadyTaskRuns` hold | three tasks, four pids |
| `desktop` | MCDesktop | `TypeOK`, `FocusOnTop`, `InteractionIsReal`, `OwnState`, `ListenersSeeButtons`, `ZOrderStable` hold | about 20 000 |
| `desktop_draw` | MCDesktopDraw | `QuietScreenIsCurrent`, `ScreenCatchesUp` hold | about 280 000 |
| `heap_rest` | MCHeap, MCHeapRest | `RestsAreFree` is violated | the first split |
| `vmm` | MCVmm | `FramesHaveOneUse`, `NoCrossTalk`, `RegionIsFirstFree` hold | two directories, five frames |
| `scheduler` | MCScheduler | `TypeOK`, `QueuesAreExact`, `ImplementsReadyQueues` hold | every order of four entries |
| `scheduler_dispatch` | MCScheduler, MCSchedulerDispatch | `TicksDispatch` is violated | one task and one tick |
| `network` | MCNetwork | `HandlerWaitsOnlyAfterLoss`, `SuccessNeedsAnswer`, `ConnectionAgrees`, `DanglingNeedsFin` hold | two pings, four frames |
| `user_memory` | MCUserMemory | `UserPagesEverywhere`, `IdentifiersKeepTheirMemory` hold | five pages, three blocks |
| `gfx` | MCGfx | `ReturnedIdIsAWindow` is violated | the first request |

`libraries` is one run for three components that neither call nor share anything with
one another: TLC explores the calls of each while the other two are as they began, which
is all there is to see, and each property is about one of them.

What they say about the code:

* A queue of `ipc.c` is a bounded FIFO as long as its calls do not overlap. When
  they do, its counter goes wrong.
* The task and process lists stay single rings through all their elements, also
  across failed creations. No task ever resumes on another stack, although the
  first tick interrupts `kmain` and not a task. A task that waits has an empty
  mailbox: the window between the test and the block in `SYS_RECV` is closed because
  a system call is atomic. Every ready task gets the CPU or starts to wait.
* In `pmm.c` the counters equal the bitmap, bits equal ownership, allocations are of
  fresh frames, and the search finds the lowest run whenever there is one.
* In the desktop the focus, the z-order and the windows' own flags agree after any
  sequence of keys and packets; a drag never outlives its window or the button; two
  windows never write one application state; no operation disturbs the order of
  windows it does not raise.
* The loop that draws clears its request before it reads the windows. Whatever
  handlers do in between, the screen is up to date when the loop comes to rest, and
  it does come to rest.

* The desktop and the driver agree about the left button while the input queue has
  room (`ListenersSeeButtons`), and for no longer.
* No sequence of `kmalloc`, `kcalloc`, `krealloc` and `kfree` hands out memory twice,
  although lengths wrap and blocks are merged by list links. It is a close thing: the
  rest of a split is in no list (`RestsAreFree` fails), so only the first block is ever
  given, and the lists that coalescing could get wrong never hold two free blocks.
* A size whose rounding wraps is granted as a block of no words: `kcalloc`'s overflow
  test does not see it. Such grants take no memory from others; what their holders write is another matter, and a `krealloc` to such a size
  splits a block in place though more was asked for.
* In `vmm.c` a frame is never table and page at once, nor a page of two spaces,
  whichever step of an allocation fails. The frames that a rollback unmaps leak. The
  region search finds the hint or the lowest free region (`RegionIsFirstFree`) for sizes
  of user space and hints whose region does not wrap; beyond those its sums wrap and
  it returns regions in use.
* The ready queues are exact FIFO queues. A tick does not dispatch from them
  (`TicksDispatch` fails).
* What a page directory shows of user space does not depend on when it was made: all
  directories share one table for the first 4 MB. Regions keep their memory for ever, and
  share it with no other region and no directory.
* A handler of the network waits in the middle of a poll, and a ping believes another
  host's answer, only after an ARP frame was lost, the ARP cache is full, or a late
  answer arrives, as each property spells out. A connection that is up is up at both
  ends for the same port; its object outlives the call only if the peer closed first.

`CHECK_DEADLOCK FALSE` is set where the system may really stop: when no task exists and
no more may be created, when no bounded identifier is left, or when a user has nothing
more to do; in `libraries` and `heap_rest` with a heap too small to initialise; in Network after the last ping
and the last frame; in UserMemory because `kernel_panic` stops the machine. Alt+Q is set
apart in `QuietScreenIsCurrent` by `paused`: its screen is meant to stay until the next
redraw.

## Bounds

| Bound | Value | Why it is enough |
|---|---|---|
| `MESSAGE_QUEUE_SIZE` (16 in the source) | 3; 2 and 1 with tasks | both indices wrap, separately and together; full and empty are reached |
| `Message` | 2 values | order and duplication are visible |
| `MaxCalls` in SharedQueue | 2 | one enqueue beside one dequeue suffices for the lost update |
| `MaxTasks`, `MaxPids` | 3, 4 | insertion at the end of a list of two; a failed creation before, between and after those that succeed; a walk that skips |
| `MaxFrames` | 6 | two separate runs of two frames; a run that ends with memory; frame 0 |
| `MAX_WINDOWS` (8 in the source) | 3; 2 while drawing | a window in the middle can be closed, raised or reached by cycling; the array and the pools are full |
| `MaxIds` | 4; 2 while drawing | one more window than there is room for, so identifiers and states outlive windows |
| `INPUT_QUEUE_SIZE` (64 in the source) | 3; 2 while drawing | a press, a movement and a release; full after them |
| Applications | one value for all three; two while drawing | the pool is shared by every window, the hard case; while drawing a slot changes from one application to another |
| `Look`, `Position` | 1 or 2 values; 1 while drawing | a change is visible; while drawing it is that of windows, states, focus and menu |
| `TaskbarSlots` (3 in the source) | 1 | a window with a button and one without |
| Heap: `Sizes`, `Requests`, `Arrays`, `MaxWords`, `Modulus` | up to 44 words, headers and minimal block as in the source, words below 1024 | perfect fits, remainders just below and above the minimum, requests too large, a request that rounds to 0, products that wrap or just do not |
| Vmm: `MaxFrames`, tables | 5 frames, 2 user tables and 1 kernel table of 2 pages; every size and every hint for the search | an allocation of two pages fails at its first page, its second, and between a page and its table; ends of regions on both sides of user space and of the address space |
| `SCHED_MAX_TASKS`, levels, `MaxTicks` | 4 entries of 3 tasks, 2 levels, one priority out of range, 1 tick | removal at the head, in the middle and at the end; a task added twice; a full pool |
| `ARP_CACHE_SIZE`, `Tries`, `RxSize`, `MaxPings`, `MaxFrames` | 1, 1, 2, 2, 4 | a full cache, an exhausted wait, a late answer to the first ping during the second, a nested poll with a frame behind it |
| `TOTAL_PAGES`, `Block`, regions | 5, 3, 2 | user space of three pages with the refused last one, requests up to the whole address space; directories, tables and regions compete for the heap |
| Gfx: queue, windows, identifiers | 2, 2, 2 | a request in flight behind another |

Symmetry is declared where elements are interchangeable and nothing is ordered by
them: tasks of the scheduler, directories of Vmm, heap blocks of UserMemory. None of
those runs checks liveness. The theorems below hold for every value of these constants.

## Fairness

* `WF_vars(EnableInterrupts)`: `kmain` runs to its `sti`.
* `WF_vars(Tick)`: the programmable interval timer fires again and again, and while
  interrupts are on a tick cannot be put off for ever.
* `WF_vars(Draw)` in DesktopDraw: `kmain`'s loop goes on after every interrupt. With
  fewer than two tasks, which is how the kernel ships, the tick always returns to it.

Nothing obliges a task to make a system call, a process to be created, or a user to
press a key. `ReadyTaskRuns` needs the first two; `ScreenCatchesUp` the third, and it
asks nothing while the user is active. The libraries (Heap, Vmm, Scheduler, UserMemory,
Gfx) promise nothing about when they are called, and `ping_ip` waits with timeouts, so
no fairness is stated for them.

## What is proved

All proofs are checked by TLAPS with Z3, Zenon and LS4. The assumptions are those named
in the modules: `RingAssumption` (a queue has a slot; a zeroed slot is no message),
`TaskingAssumption` (at least one task and pid; `NULL` and `kmain` are no identifiers;
messages are what senders and input build), `PmmAssumption` (there is a frame),
`HeapAssumption` (a header is five words; a rest that is worth a split, and the smallest
heap, have room for one, as `KHEAP_MIN_BLOCK` sees to; the mark is no flag and no block;
addresses are below `Modulus`, requests may be anything below it), `DesktopAssumption` and `TaskbarAssumption` (room
for a window and an event; the look of a new window is a look; the taskbar has some
number of buttons), `VmmAssumption` (memory is as long as a table; user space has a
table and holds the page where the search starts; devices lie beyond memory),
`UserMemoryAssumption` and `RegionsAssumption` (the static table is no heap block; there
is a slot and a page), `SchedulerAssumption` (there is a slot; normal priority is a
level; `NULL` is no task), `NetworkAssumption` (the gateway is on the local network and
no remote host is; `ip_send` tries at least once). The sizes are not fixed.

Loops and walks over links are recursive functions in the models. What such a function
holds at each argument, and that it exists, is proved by induction on a set of numbers:
the set of those for which the claim fails would have a least member (`Induction`, from
the well-foundedness of `<`). The library's induction theorems take an operator as a
parameter, which the provers cannot instantiate; with a set it is first-order.

* **MessageQueueProofs**: `RingAlwaysAgrees`, `TypeCorrect`, and `RefinesFifo`, that a
  queue implements BoundedFifo for every capacity. The inductive invariant is
  `WellFormed(queue)`: the type alone does not say that `write_index` is `count` slots
  after `read_index`. `EnqueueAppends`: an enqueue of a well-formed ring that is not
  full appends to its contents. `DequeueTakesHead`: a dequeue returns the head and leaves
  the tail. Both go through `SlotOf`, which replaces the modulus by a case on
  wrap-around, and `NextSlotWraps`, which connects the two.
* **TaskingProofs**: `TaskingTypeCorrect`, `TaskListIsARing`, `ProcessListIsARing`,
  `TasksKeepTheirStacks`, `NoWakeupIsLost`. None of these is inductive alone.
  Creation preserves the rings only if `current_task` is in the list and elements that
  do not exist have no links (`Cursors`); a switch preserves the stacks only if the
  running task is the current one; the wake-up argument needs whole inboxes
  (`WholeInboxes`); the place where a process is inserted needs a youngest process
  (`LastProcess`). `IInv` is the conjunction. There is one lemma for each action.
* **MemoryProofs**, frames: `PmmTypeCorrect`, `CountersAlwaysAgree`,
  `BitmapAlwaysOwnership`, `GrantsAlwaysFresh`, `NeverFalselyExhausted`,
  `ScanAlwaysFirstFit`. Two lemmas on cardinality, `MarkUsedCounts` and `MarkFreeCounts`,
  say that marking a set changes the counters by the bits that really change. `IInv` adds
  that before initialisation nothing is reserved or owned (`Untouched`). The search is
  proved by the invariant of its loop, `LoopInv`: the run found so far is free, and every
  run that starts below it meets a set bit. `VisitKeeps` is one turn of the loop,
  `LoopKeepsInv` the induction over the frames.
* **MemoryProofs**, heap: `HeapTypeCorrect`, `HeapRefinesAllocator`,
  `OnlyShrinkingEverBreaks`. `HeapInv` says what the lists can be at all: only the first
  block of the heap is ever given out. It is `Spare` (free, alone in the free list) or
  `Lent` (alone in the used list but for a rest r behind it), and what its grant asked
  for fits into it as rounded (`Covers`): it fits as it is, or its rounding wrapped and it
  is larger than memory (`Aligned`, `GrantCovers`). The rest r is what a shrinking `krealloc` left in the used list. The
  consistency check fails exactly when there is one (`IntegrityIs`), which is why
  `Holds` carries r along: every step leaves it as it is or gives a grant a size that
  rounds to less (`Continues`). A holder whose request wrapped may write over everything
  behind its header; that leaves r no mark, so it is still no used block (`FilledKeeps`). The hard lemma is `SplitKeeps`: a block barely larger than a request is
  split with a length that wraps, and the new header runs past the block into that of r;
  wherever the two overlap, r is still no used block. `WrapIsSeen` is the argument for
  the overflow test of `kcalloc`: a product that wraps, divided by a factor, never yields
  the other.
* **DesktopProofs**: `DesktopTypeCorrect`, `FocusAlwaysOnTop`, `InteractionAlwaysReal`,
  `StatesAlwaysOwn`. The lists come first: `RemoveAtShifts` and `FrontMoves` say what
  closing and raising do to the array, `SelectionGood` that any selection of a good list
  is good. `FocusGood` restores the focus from any state whose list is good, so
  creating and closing are proved as "change the list, then focus". The invariant
  has to add that identifiers and states in use are below their counters
  (`GoodList`): without it a new window could repeat one. `PairGood` carries it
  through the up to three events of a packet.

  `ButtonsSeenUntilFull` follows a packet through its up to three events
  (`ButtonArrives`, `MovementArrives`): each is delivered as long as room is left.

  `ZOrderAlwaysStable` compares the list before a step with the one after: an operation
  keeps the order of the windows (`Steady`) or of all but the one it raises (`Raises`),
  and a packet is such an operation between steps that leave the list alone (`Alike`).

  `QuietScreenAlwaysCurrent` is about DesktopDraw. An unfinished frame is a prefix of a
  picture, but of which? `FrameInv` says: as long as no request is pending and the pause
  screen was not painted over it, what has been painted (`Painted`) is the beginning of
  `Picture` of the desktop as it is now, up to the place where the loop stands
  (`OnCourse`). It is inductive because every handler that changes anything a picture
  shows asks for a redraw (`Asks`), which makes the claim void until the loop starts
  again.
* **VmmProofs**: `FramesAlwaysHaveOneUse`, `NeverCrossTalk`, `RegionIsAlwaysFirstFree`.
  `Sound(k)` holds of the state in the middle of a call as well as between calls: page
  tables and the pages of user space are marked frames, no frame is both, and no frame is
  in two tables or two slots. `IInv` adds that the kernel's and the current directory
  exist. A call is a composition of operators on states, so each has a lemma of its own
  (`PageMapped`, `TableMade`, and those on unmapping and on creating and destroying
  directories), and the loops over pages are inductions that carry the whole
  specification of a call through the step that fails (`IsAlloc`). `OnlyIn(k, r, e)`
  says that a call changed what directory e shows and nothing else; with `Steady` it
  yields the absence of cross-talk. The search for a region is proved by what the rest of
  the search returns from each page on: the smallest free start, or 0 (`Turn`,
  `Smallest`). That is about sums that do not wrap; `Unwrapped`, `SameMapped` and
  `SameTurn` say that the code's, which may, are the same for sizes of user space.
* **UserMemoryProofs**: `GrantedIsUserEverywhere` and `IdentifiersAlwaysKeep`. The first
  needs that every directory's slot 0, in both views, is the static table and no other
  slot is (`Rooted`), so that mapping elsewhere cannot touch it; the table then says
  "user" of exactly the granted pages (`FirstTableIs`). The second needs identifiers
  below the next one and distinct (`RegionsGood`), and that every region and directory
  has a heap block of its own (`OwnBlocks`).
* **SchedulerProofs**: `TypeAlwaysOK`, `QueuesAlwaysExact`, `RefinesReadyQueues`. They
  rest on the defect that `scheduler_dispatch` shows: `QuietInv` says that no task is
  current, of every entry that it is ready or free, and of the slots that they are empty until
  `scheduler_init`, without which the initialisation could turn tasks into free slots.
  It does not mention the links, so enqueueing and dequeueing preserve it whatever
  the queues look like (`EnqueueKeeps`, `DequeueKeeps`). The queues themselves are
  witnesses: `QueuesOf(g, M, H)` says that the links of g lead through the sequence
  `M[q]` in each level q, backwards as well as forwards, that no slot is in two of them
  and that together they hold the slots H. `MembersAre` (an induction) shows that a walk
  finds `M[q]`; `EnqueueJoins` and `DequeueLeaves` show that the two operators append to
  it and remove from it wherever the entry stands. `IInv` is `QuietInv` with some such M,
  counters that count H, and H the entries with a task; the refinement follows from how
  each call changes M.
* **NetworkProofs**: `HandlersWaitOnlyAfterLoss`, `SuccessAlwaysNeedsAnswer`,
  `ConnectionsAlwaysAgree`, `DanglingAlwaysNeedsFin`. The properties speak of the
  program, but what makes them true is in the ring. `IInv` says of the frames there that
  a FIN was sent by the server of its port (`FinsAreSent`), that an echo reply is the
  answer of a host that was pinged (`RepliesAreAnswers`), and, unless an ARP frame was
  lost, the cache is full or a host knew this one early, that whoever knows this host is
  in the cache or has an ARP frame in the ring (`Announced`), and that each packet
  comes after the ARP frame of the host that delivers it (`Ordered`). So the handler of
  the packet at the head finds its address and does not wait. `NumbersAgree` and
  `ClosedByPeer` carry the facts of the ring to the connection. One lemma says what a
  call of `ip_send` does (`Sending`), one what a handler that answers does (`Answering`),
  one what a frame added or lost does (`HostSending`); the steps use these.

Every safety property and every refinement that a passing run checks is proved.
Only model-checked are the liveness properties `ReadyTaskRuns` and `ScreenCatchesUp`
(liveness under fairness is beyond the prover) and the runs that find violations.

## Disagreements between the code and its words

1. `ipc.c:34`: `count++` and `count--` are not atomic and their callers in `libgfx.c`
   and `gfx_server.c` can be preempted; `include/ipc.h:23` says "Number of messages in
   queue" (`shared_queue`).
2. `task.c:52`: a tick makes the interrupted task ready, also one that `SYS_RECV` just
   made wait; `include/task.h:11` says "Waiting for IPC message (Step 5)". The task
   polls, in effect: `NoLostWakeup` and `ReadyTaskRuns` are true, but the wait is not one.
3. `syscall.c:88`: the sender's pid is that of `current_process`, which no switch of
   tasks changes, since the call of `process_switch` is commented out (`task.c:70`);
   `include/ipc.h:9` says "PID of sending process".
4. `desktop.c:119`: the window before the focused one is focused and moves to the end;
   the next key focuses the one that was left there. `README.md:358` says "cycle focus
   across open windows".
5. `input_manager.c:64`: events are also put into a queue that nothing polls. After 64
   events it is full and every event is dropped before the listeners are called;
   `kernel.c:114` says "Input is handled via input_manager listeners, just need to
   draw". For this reason the properties of `desktop` speak of what was delivered, and
   `ListenersSeeButtons` of the time before.
6. `gfx_server.c:98`: a create request arrives without its sizes, no window is made, and
   the client returns an identifier; `include/gfx_protocol.h:213` says "Window ID, or 0 on
   failure" (`gfx`).
7. `scheduler.c:188`: `scheduler_yield` returns while nothing is current, and nothing else
   makes a task current; `include/scheduler.h:15` lists "Preemptive multitasking" and
   `include/scheduler.h:184` says that a tick "triggers context switch if needed"
   (`scheduler_dispatch`).
8. `kheap.c:193`: the remainder of a split is in no list, so the rest of the heap is lost
   with it; `kheap.c:88` says "Insert new block after the current one in free list"
   (`heap_rest`).
9. `kheap.c:283`: a `krealloc` that splits in place puts a free block into the used list;
   the same comment (`OnlyShrinkingBreaksIntegrity` says that nothing else breaks the
   lists).
10. `kheap.c:14`: a product that wraps only when it is rounded passes `kcalloc`'s test, and
    a block of no bytes is returned, and cleared as if it had all; `kheap.c:306` says
    "Check for overflow".
11. `vmm.c:347`: the end of the region at a hint wraps, as do the sums of the scan
    (`vmm.c:359`, `vmm.c:361`) for sizes above user space, and a region with mapped pages
    is returned; `include/vmm.h:205` says "Find a free region of the given size".

Met while modelling, and in the models as the code has it, without a text that says
otherwise: `kheap.c:14` and `kheap.c:79` compute lengths that wrap. `vmm.c:271` unmaps
without freeing frames, and destroying a directory frees its tables but not its pages;
kernel tables made after a directory are not shared with it; the search for a region never
finds the one that ends at kernel space. `icmp.c:66` and `tcp.c:222` compare neither
identifiers nor sequence numbers; `tcp.c:186` leaves `active_conn` at a stack object when the peer closed first; ARP
entries are never replaced. `memory.c:224` takes the page a table starts in for the table,
and tables from `kmalloc` are never page aligned; the page that ends at `USER_SPACE_END` is
refused. `shm_map(0)` succeeds with a free slot.

Met while reading, and in no model: `tcp.c:251` acknowledges a FIN that carries data as if
it did not; `disk.c:70` gives files consecutive start sectors whatever their length.

## What is not modelled

* Of the modelled parts: `process_switch` (no caller); the system calls that print,
  read the time or draw; queries and dumps; the shared-memory side of input;
  confinement, the wheel and polling in the input manager (no caller); scan codes and
  modifiers (any key may come); the bytes of mouse packets (any packet may come);
  geometry of windows, and Ctrl+Q.
* `desktop_draw_window` reads the place, the title, the focus and the drawing function
  of a slot one after the other; the model reads them in one step and the window that is
  drawn into the frame in another. A drawing function that meets the window of another
  application, one without a state, would give it a state of its own; in DesktopDraw
  drawing changes no window.
* In the heap, the statistics; writes beyond the memory of the model are cut off. In
  Vmm, flags, statistics and what areas cover; sizes and hints are whole pages, so a size
  whose rounding wraps to 0 is not there; `vmm_map_page` maps frames of devices only. The
  code takes any frame; in the source nobody calls it beyond `vmm.c` itself. In Scheduler,
  statistics.
* In UserMemory, the E820 map, the jump to ring 3 and the first 4 MB page by page;
  `map_page_in_directory` is called for the other slots only, because mapping into the
  first with arbitrary flags would say nothing about `allocate_user_memory`; a directory
  that was copied writes to the page a table starts in, and what else lies in that page is
  not modelled. Neither function has a caller in the source beyond the initialisation, and
  where a bump pointer that wraps meets its page fault depends on nobody having mapped the
  whole address space.
* In Gfx, pixels, titles and responses. In Network, checksums, lengths, payloads, sequence
  numbers beyond whose they are, a segment that carries data and a FIN together, resets
  (which the code ignores), and what becomes of a segment for a connection object that is
  gone. Local ports grow and never wrap to one that was used before, which takes 65 536
  connections. The receive ring does not wrap, and when `rx_offset` is out of step
  nothing more is read: the code would read stale frames or reset the offset
  (`rtl8139.c:133-139`). `HandlerWaitsOnlyAfterLoss` is about when it comes to that.
* Drawing, widgets, themes, HTML, layout, HTTP, strings and sound are functions of
  their arguments with no protocol between actors. The boot loader and the CPU tables
  do not change after boot. `apps/browser.c` is not in the build. The disk has one
  caller at a time, appends only, and is started by no one.

## The plan

1. *Done*: message queue, tasks and mailboxes, frames, desktop and its input, heap,
   virtual memory, scheduler, user and shared memory, graphics protocol, network.
2. *Done*: the proofs of all safety properties of these models.
3. **Window geometry** with wrapping integers, and **mouse packets** byte by byte.

PROJECT.json lists the hazards of the code, line by line, with the properties that
cover each or a note on why none does.
