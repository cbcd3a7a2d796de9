# Verification of the course projects

The repository holds three programs that share nothing: two copies of the Xinu
kernel for the x86 (`src/OS_Projects/Locks`, which adds readers/writer locks, and
`src/OS_Projects/Scheduling`, which adds two scheduling classes), a packet tagger
(`src/Internet_Protocols_Project`) and a Rails application (`src/StoryBoards`).
This directory holds TLA+ modules translated from their source, the TLC
configurations that check them, and machine-checked proofs about the kernels, the boot
monitor and the web application.  The packet tagger is not modelled.

Paths below are relative to `src/OS_Projects/Locks` unless they say otherwise.

## 1. The system and its parts

| part | state | operations | what must hold |
|---|---|---|---|
| queues (`h/q.h`, `sys/newqueue.c insert.c insertd.c queue.c getitem.c`) | one table `q[]` of links and keys for every list of the kernel | insert, insertd, enqueue, dequeue, getfirst, getlast | sorted lists, nobody on two lists, differences add up |
| scheduler (`sys/ready.c resched.c`) | `proctab[].pstate`, ready list, `currpid`, `preempt` | ready, resched | exactly one process runs; the list holds the ready ones |
| processes (`sys/create.c kill.c resume.c suspend.c chprio.c xdone.c`) | process table, `numproc`, `nextproc`, stacks | create, kill, resume, suspend, chprio | counts and stacks agree with the table |
| semaphores (`sys/screate.c wait.c signal.c signaln.c sreset.c sdelete.c`) | `semaph[]`, `nextsem`, `psem`, `pwaitret` | the calls of those names | a count says how many wait, and where |
| clock (`sys/clkint.S wakeup.c unsleep.c sleep*.c ssclock.c`) | delta list `clockq`, `slnempty`, `sltop`, `defclk` | the interrupt, sleep, stopclk, strtclk | everybody wakes, and at the right tick |
| messages (`sys/send.c receive.c recvclr.c recvtim.c setnok.c`) | `pmsg`, `phasmsg`, `pnxtkin` | the calls of those names | no message lost, none taken twice |
| memory (`sys/getmem.c freemem.c getstk.c`) | free list | getmem, freemem, getstk | blocks disjoint, free list sorted, nothing lost |
| buffer pools, marks, generic queues (`sys/mkpool.c getbuf.c freebuf.c mark.c gpq.c`) | pool lists, mutexes | mkpool, getbuf, freebuf, mark, genq, enq, deq | the semaphore counts the free buffers |
| locks (`sys/lock.c lcreate.c ldelete.c releaseall.c`), not modelled | `locks[]`, `plock` | lock, releaseall, lcreate, ldelete | one writer or some readers |
| scheduling classes (`../Scheduling/sys`) | `scheduling`, the counter of each process, the ready list, `preempt` | setschedclass, resched, ready, the clock | the list is exact, an epoch ends when everybody has used it, no starvation |
| terminal and serial line (`tty`, `com`) | circular buffers and their semaphores | read, write, the interrupt handlers | characters in order, none lost or duplicated |
| network boot (`mon/monboot.c montftp.c monbootp.c monudp.c montimer.c`) | the boot state, timers and counters, the memory it loads into | boot_xinu, mon_timer, the packets that come in | blocks in order, nothing acknowledged that is not there, retries end |
| network layer under it (`mon/monnet.c monarp.c mongpq.c ethwrite.c ethwstrt.c ethintr.c ethdemux.c`) | pool of buffers, ARP table, output queue, memory of the card | requests, acknowledgements, ARP packets, the transmit interrupt | a buffer is in one place, and a queued packet is sent |
| web application (`src/StoryBoards/app`) | rows of projects, stories and developers, sessions | the requests | signing up keeps a story to two developers; a chart's axes agree |
| packet tags (`src/Internet_Protocols_Project`), not modelled | a tag in the packet | hooks | see section 5 |

The parts of a kernel interact by calls with interrupts disabled.  There is one processor: a
process runs until it blocks, until a call it makes readies a process of no
lower priority (`resched`), or until the clock interrupts it.  The behaviours that
are hard here are therefore the points inside a call where control leaves it
(`receive`, `recvtim`, `kill`'s death notice, the end of `signaln`, `sreset` and
`sdelete`), what the others do in the meantime, and the state that is read again
afterwards.  The boot monitor runs instead of the kernel: a loop, with interrupts enabled, over a
state that the handlers of the clock and of the Ethernet change.  The web application is served by
several processes; a request makes its reads and then its writes, each a statement of its own, in no
transaction that spans them.  `PROJECT.json` lists these points under "hazards" with the property
that covers each, or why none does yet.

## 2. The modules

    XinuQueue  <-  XinuSched  <-  XinuProc  <-  XinuSem
                                            <-  XinuClock  <-  XinuMsg
    XinuSem, XinuMsg  <-  XinuKernel  <-  MCKernel  - - INSTANCE - ->  XinuTimers
    XinuQueue  <-  XinuPools  <-  MCPools
    XinuMemory  <-  MCMemory
    XinuCom  <-  XinuTty  <-  MCTty      XinuTty  - - INSTANCE - ->  XinuLine
    XinuBoot  <-  MCBoot                 XinuBoot  - - INSTANCE - ->  BootLoad
    XinuMonNet  <-  MCMonNet
    XinuQueue  <-  XinuClasses  <-  MCClasses
    StoryBoard  <-  StoryHistory  <-  MCStories

| module | models | how |
|---|---|---|
| `XinuQueue` | the queue calls | a list is a sequence of entries `[pid, key]` from head to tail; the links are abstracted, the positions that `insert` and `insertd` find are not |
| `XinuSched` | `ready`, `resched` | operators on a record `sched` (ready list, states, priorities, current process, quantum), so that a handler that readies one process and then another composes them |
| `XinuProc` | `create`, `resume`, `suspend`, `chprio`, `sleep(0)` | one action for each call |
| `XinuSem` | semaphores | one action for each call; a loop is one step for each turn |
| `XinuClock` | clock interrupt, delta list | `Tick` up to the call of `wakeup`, `wakeup` turn by turn, the rest of the handler |
| `XinuMsg` | messages | a receive that blocks is two actions |
| `XinuKernel` | `create` and `kill` across the parts, `Next`, fairness | `kill` is two actions: up to its death notice, and after it |
| `XinuTimers` | what the clock promises | one countdown for each process |
| `XinuMemory` | `getmem`, `getstk`, `freemem`, `freestk` | the free list is a function from the address of a block to its length, in words; one action for each call, as each runs with interrupts disabled |
| `XinuPools` | buffer pools | one action for each stretch of a call between two points where interrupts are enabled; the local variables of a call are in `pc[p]` |
| `XinuCom` | the serial line as values | the ring with the transmitter of the UART, and a semaphore as its count and its queue |
| `XinuTty` | terminal and serial line | one action for each stretch of `computc`, `ttyiin`, `ttyread`, `ttycntl` or `comintr` between two points where the processor may change hands |
| `XinuLine` | what a terminal promises of its input | the sequence of the characters typed, neither erased nor read |
| `XinuBoot` | the network boot | one action for each assignment of `boot_xinu` that a handler can come before; one for each branch of `mon_timer` and of `mon_tftp_in` |
| `BootLoad` | what a boot promises | the blocks loaded so far; start, next block, restart, give up, run |
| `XinuMonNet` | the network layer of the monitor | operators on a record `net` (pool, queue, card, ARP table) for what runs with interrupts disabled; one action for each stretch of a request between two such points |
| `XinuClasses` | `resched` with its classes | operators on the record `s` that `resched` works on; one action for each call that ends in it |
| `StoryBoard` | the web application | a request reads, decides and leaves its writes in `todo[worker]`; `DoWrite` makes them one by one |
| `StoryHistory` | what requests have done to each other | two history variables beside `StoryBoard`, on which none of its steps depends |
| `MCKernel` | properties for TLC | refinement mapping, liveness |

**Continuations.** `cont[p]` says what is left of the kernel call that process
`p` is in: `user` when it is in its own code, else the call with its arguments.  A
step of a call is enabled only for the current process, and while the current
process is inside a call nothing but the rest of that call can happen, since
interrupts are disabled.  When a call reaches `resched` and another process is
chosen, `cont` of the first stays as it is until it runs again, as its stack does
in `ctxsw`.  The clock can interrupt any process that is in its own code, the
null process included.

**Abstractions.** A stack is a member of `1 .. STACKS` and `getstk` takes the highest free one, as
it does in memory when all have one size.  A message is a number.  The quantum
`QUANTUM` and sleeping times are a few ticks (the unit of `recvtim` is 1000 ticks: its
`RecvTicks` is what it passes to `insertd`).  `STACKS` can be less than the number of
processes: then `create` fails for want of memory, and the stack it loses when it
fails for another reason is lost for good, as in the code.
At startup `main` is process `NPROC - 1` and the null process is 0.

**Memory.** `XinuMemory` gives up the equal stacks of the kernel module: blocks
of any size on a heap of any shape, with the rounding of `roundmb` and of
`freestk`, which do not agree.  A caller gives back a block with the size it asked
for, and `ReleaseAgain` gives the stack of a dead process back a second time, as
a second `kill` of a process does while its death notice runs.  `RoomForHeader`
leaves out requests after which one word of a free block would remain, as the
header of a block has two.

**Pools.** In `XinuPools` the scheduler is any process at any point where interrupts are
enabled; a process that `signal` readies goes on whenever it likes.  The semaphore
of a pool is its count and its queue, changed as `wait.c`, `signal.c` and `kill.c`
change them; a pool may have none, since `mkpool` does not look at what `screate`
returns.  Buffers are numbers, and the first word of one (`hdr`) is a link while it
is free and the number of its pool while it is held.  Buffers are passed from one
process to another (`Freebuf` is of any held buffer); nobody frees one twice.

**Terminal.** The handler of the serial line runs in whatever process it has interrupted, and
what it echoes goes through `computc`, which may wait: the handler then stands still in the
middle, with what it found in local variables, while other processes and other keys change
the buffer.  `call[p]` is that handler, or the `ttyputc`, that runs in `p`: the characters it still
has to put, where it is with the first one, and what it does after the last.  `user[p]` is where `p`
is in `ttyread` or `ttycntl`.  `running` is the process inside the driver with interrupts disabled.

| code | state or action |
|---|---|
| `com_obuf`, `com_ostart`, `com_ocount`, the interrupt enable register | `com` |
| `com_osema`, `tty_isema` | `osema`, `isema` |
| `tty_in`, `tty_istart`, `tty_icount`, `TIF_EOF`, `lastc` | `tty` |
| `comoutput.c`: the first wait, the second wait, storing | `GoesOn`, `PutNewline`, `PutChar` and `PutPair` |
| `comintr.c`, `comoutput.c` (`comwstrt`) | `TxInterrupt`, `RxInterrupt`, `Wstrt` |
| `ttyiin.c` up to the first character of the echo | `RxInterrupt`; after it `LineEnd`, `WordNext`, `ReprintNext` |
| `ttyread.c` | `Ttyread`, `ReadEof`, `ReadWait`, `ReadTake` |
| `ttycntl.c`, `TTC_NEXTC` | `Peek`, `PeekSignal` |

Left out: priorities (at a point where the processor may change hands any ready process may go on,
the null process only when there is no other); what a character is, beyond what the driver
tells apart (`Chars`); what an output slot holds, beyond whether it holds something; the modes
RAW, SYNC and NOBLOCK, the interrupt key, breaks, `comflush`, and killing a process inside
the driver.  An interrupt of the UART is a level: it can be served as long as its cause stands.

**Boot.** The server and the network are not in the repository.  Each request opens a session; a session
has sent block `b` when it has the acknowledgements of all blocks before it, and whatever was sent
may come at any later time, again, out of order or never.  A request may not arrive either: then
nothing of its session is delivered.  `timer` is what `mon_timeout - mon_clktime` is, or `OFF` for a
`mon_timeout` of 0; once due it stays due until somebody sets it.  `bytes` and `memloc` count in
blocks.  `Deaf` is the state in which `boot_xinu` waits with its timer off.

| code | state or action |
|---|---|
| `mon_boot_state`, `mon_boot_try`, `mon_timeout` | `state`, `try`, `timer` |
| `mon_tftp_block`, `mon_tftp_bytes`, `mon_tftp_retx`, `mon_tftp_memloc` | `block`, `bytes`, `retx`, `memloc` |
| `monboot.c:72` to `:81` | `TftpRequest`, `TftpState`, `TftpTimer`, `TftpBlock`, `TftpBytes`, `TftpRetx` |
| `montimer.c` | `TickQuiet`, `TickRequest`, `TickAck`, `TickGiveUp` |
| `montftp.c:40-83` | `TftpErrorIn`, `DataIn`, `StrayIn` |

Left out: the counter of the block in 16 bits, which a file of 32 MB would wrap; the compiler moving
one assignment before another (the variables are plain globals).  `XinuBoot` and `XinuMonNet` meet in
the request and the acknowledgement: the first takes them as sent or lost, the second as a packet.

**Network layer.** The handlers are one step each, since they run with interrupts disabled, except where
`getbuf` makes one wait; it stands then in the middle of `boot_xinu`, which it has interrupted, and
`late` says where.  The memory of the card has room for `RING` frames; that it is counted in bytes, and that
`ethwstrt.c:72` adds a header at the wrap that the test at line 59 has not counted, is left out, as
are reception (a frame is there or not) and the 3Com driver.  While one handler waits for a
buffer, no second one that would wait is followed.

**Classes.** `ctxsw` is the change of `curr`.  The second ready list, `rdy2head`, is only inserted into by
`round_robin_sched`, and only when it is not empty; so there is one list.  `class` is set once, as `main` of a
test does, at any time.  Below zero `preempt` is -1, as only its sign is looked at.

**Web application.** A request is served by one of the processes in `Workers`, of any user, at the same
time as others.  Its action has the filters as guard (`LoggedIn`, `SetUp`), reads everything in one step, and
leaves in `todo` the writes the handler goes on to make, with the values it has read; between any two of
them other processes read and write.  A write is one row of one table; an UPDATE of a row that is gone
changes nothing.  A request ends early when `save` finds that the project of a story is gone (`SaveFails`), and
may end after any write, when the process is stopped or the database refuses one (`Cut`).  A server that takes one
request at a time, as that of the development environment does, has those of these behaviours in which no two overlap.

| code | state or action |
|---|---|
| rows of `projects`, `stories`, `developers` (`db/schema.rb`) | `projects`, `stories`, `devs`; of `burndown` the number of points, and `btime`, which is one less when they are in step |
| `session[:email]` | `session`, the users logged in |
| `stories_controller.rb` | `CreateStory`, `UpdateStory`, `DestroyStory`, `SignUp` |
| `developers_controller.rb` | `CreateDeveloper`, `UpdateDeveloper`, `DestroyDeveloper` |
| `projects_controller.rb`, `sessions_controller.rb` | `CreateProject`, `DestroyProject`; `Login`, `Logout` |

`developer_params` permits `project_id` and `story_id` (`developers_controller.rb:107`), and `create` and
`update` write them as they come: the two actions take any project and any story, of a row or not, or none.
As ActiveRecord does, an update writes only the columns that have changed since the row was read.

`StoryHistory` adds `crowded`, the stories for which two different developers had a sign-up under way at the
same time or on which the form of a developer put somebody, and `torn`, the projects whose chart two requests were
about to update at the same time or one left between its two updates.  Both only grow.

Abstractions: the reads of one request are one step; there is one admin; an address belongs to one user
for good, so that changing it shows as logging out; no id is ever given to a second row; titles, stages and
hours are left out, of a chart all but the number of its points.

## 3. What is checked

`TypeOK`, `MemoryTypeOK`, `PoolTypeOK`, `TtyTypeOK`, `BootTypeOK`, `MonTypeOK` and `ClassTypeOK` are the
type invariants, one for each system of the kernels.  Two of them say more than types: `MonTypeOK` that the
output queue stays within its array, `ClassTypeOK` that an allowance stays below twice the priority.  The others:

| property | says | about |
|---|---|---|
| `ReadyListConsistent` | ready list = PRREADY processes, once each, sorted; one PRCURR; null process there | `resched.c:39` takes the tail of a list it assumes non-empty |
| `SemCountIsQueue` | a used semaphore's negative count is the length of its queue, turn by turn in the loops too | `kill.c:48`, `signaln.c`, `sreset.c`, `sdelete.c` |
| `WaitersQueued` | PRWAIT exactly when on the queue of `psem`, and on no other | `kill.c:49`, `signal.c:25` |
| `SleepersQueued`, `ClockCacheCoherent` | PRSLEEP or PRTRECV exactly when on the delta list; `slnempty` and `sltop` describe it | `unsleep.c`, `wakeup.c`, `clkint.S:19-22` |
| `TimersExact` | the kernel implements `XinuTimers` | `insertd.c`, `unsleep.c`, `clkint.S`, slot reuse in `create.c:64` |
| `NoLostMessage` | nobody waits for a message it has; a blocked receive comes back with one | `send.c:23-30`, `receive.c:24` |
| `NumprocExact`, `LastDeathReported` | `numproc` and the table | `kill.c:27`, `create.c:47` |
| `StacksOwned` | live processes own distinct stacks, none of them free | `create.c:61` |
| `FreeListApart` | free blocks are in order, and no two touch | `freemem.c:32-43`, every way to join |
| `HeapPartition` | every word is in one free or one used block, or is rounding | `getmem.c:31`, `freemem.c:27`, `kill.c:42` |
| `RefusedOnlyWhenFull` | SYSERR only when no run of free words is long enough | `getmem.c:23`, `getstk.c:26` |
| `BuffersCounted` | the list of a pool is as long as its semaphore and those on their way to and from the list say | `getbuf.c:28`, `freebuf.c:30` |
| `BufferInOnePlace` | a buffer is in one list once, or with one process, or held, and then says which pool it is of | `getbuf.c:32`, `freebuf.c:27` |
| `PoolsSurvive` | no initialisation loses a pool | `poolinit.c:26`, `mkpool.c:21` |
| `SpaceCounted` | the semaphore of the ring, what is in it and what has been asked for make up its size | `comoutput.c` stores without a look at `com_count` |
| `LineKept` | the input buffer implements `XinuLine` | `ttyiin.c` (`delword` and `reprint` wait between two characters) |
| `WritersGoOn` | whoever waits for room in the ring goes on | `comoutput.c`, `comintr.c` |
| `AckedIsStored` | a block that was acknowledged is in memory at its place | `montftp.c:47-83` and `montimer.c:26`, four places that acknowledge |
| `LoadsTheFile` | the boot implements `BootLoad` | `monboot.c:75-81` against `montftp.c:60-83` |
| `BootEnds` | a boot jumps, gives up or is deaf | `montimer.c`, `monboot.c:37`, `:66` |
| `InOnePlace` | no buffer is freed while held or queued, freed twice or sent twice | `monnet.c:126`, `monarp.c:69-79`, `mongpq.c:36` |
| `OnlyTheTableLoses` | a buffer is lost only by a full table, a new boot or a multicast destination | `monarp.c:119`, `:26`, `monnet.c:134` |
| `QueueDrains` | a queued packet leaves the queue while the boot lasts | `ethwstrt.c`, `ethintr.c:76-126` |
| `ListIsReady` | the ready list holds the ready processes, each once; one runs | `resched.c:33-40`, which forgets the list |
| `EpochWhenSpent` | nobody gets ticks while a ready process has some left | `resched.c:68-79` |
| `NoStarvation` | a ready process runs, unless others go on blocking | `resched.c:48-59`, `Lab1Answers.txt:18` |
| `ThirdOnlyIfCrowded` | only two sign-ups for a story that overlap, or the form of a developer, bring it a third developer | `stories_controller.rb:126-149`, which counts before it writes |
| `ChartInStepUnlessTorn` | the time axis of a chart ends at its last point, unless somebody is about to update it, two requests had it open at once, or one was stopped between its updates | `stories_controller.rb:98-100` |
| `SleepersWake`, `EqualsTakeTurns` | a sleeper wakes; a ready process runs among equals | `wakeup.c`, `insert.c:17`, `resched.c` |

Runs (those named `kernel_` are of module `MCKernel`):

| run | instance | shows |
|---|---|---|
| `kernel_sem` | three user processes, one semaphore slot, counts 0, signaln of 2, priorities 1 (main) and 2 | three waiters meet every loop, with kill, suspend and reuse of slots in between; 831,448 states |
| `kernel_msg` | two user processes of three priorities, timed receives of 2 ticks, stopclk | a death notice that preempts the killer, which is killed or whose victim is reused meanwhile; 1.4 million states |
| `kernel_clock` | three user processes of one priority, sleeps of 1 and 2 ticks | all orders on the delta list (three entries: first, middle, last) and liveness; 135,000 states |
| `memory` (`MCMemory`) | a heap of 6 and 7 words with a hole between, blocks of 1, 2 and 3 words and stacks of 2 and 4 | every shape of the list: the heap holds up to four free blocks, so that a freed one joins below, above, both or neither |
| `pools` (`MCPools`) | three processes, two pools of one or two buffers out of three, each with or without semaphore, one kill | two processes initialise at once, two wait while one frees, a kill at each point; 1.5 million states |
| `tty` (`MCTty`) | two processes and the null process, a ring of three, an input buffer of two; three keys typed of six kinds, one character written | the echo of a key waits in the middle of a handler while another key is echoed, and a word is erased meanwhile; 230,866 states |
| `tty_live` (`MCTty`) | the same sizes, one key of three kinds, three characters written, no symmetry | liveness with the ring full and both processes waiting; 66,897 states |
| `tty_newline` (`MCTty`) | expects a violation of `OutputKept` | see below |
| `boot` (`MCBoot`) | a file of three blocks, two boots, one repeated request, one resent acknowledgement, one stray block | blocks and acknowledgements of an earlier request or boot, late and doubled, and interrupts between any two assignments; 290,887 states |
| `monnet` (`MCMonNet`) | four buffers, an ARP table of two, three hosts of which one is a multicast address, a card for one frame, two boots | the table fills and gives an entry away, the pool runs empty in the middle of a handler, the queue fills; 193,131 states |
| `classes` (`MCClasses`) | main of priority 1, a process of 2 that blocks, a real-time one of 1; quantum 2 | every order of the three in the list, with epochs that end while a process is suspended, and leftovers that are halved; 1,181 states |
| `stories` (`MCStories`) | two processes; three developers and an admin, a story, two projects, charts of two points; in one behaviour either one developer or one project | every order of the reads and writes of two requests on one team, with rows that go and appear in between; a story that is created, updated and moved while its project goes, and requests that are cut short; 331,518 states up to symmetry |

Three user processes are enough for the lists: an insertion or a removal can be
at the head, in the middle and at the tail, and a loop has a first, a middle and
a last turn.  One semaphore slot is enough for reuse, as a deleted semaphore
and its successor are then the same slot.  The bounds in the guards are `MaxSemCnt`
(a semaphore is not signalled above it), `MaxDefer` (depth of stopclk) and
`MaxUndercount` (`numproc` goes no further below zero); they only make the state
space finite, as do `MaxKills` (kills of processes inside a pool call), `MaxBoots` (commands `b`), `MaxStray`
(blocks that are not due) and `MaxPoints` (points of a chart).
Processes of the kernel always have a null process to run, so that those runs check
deadlock; in `pools` all processes may wait for buffers that have been lost with a
killed process, so that it does not.  In `boot` and `monnet` the bounds make the last state.
`classes` never stops, nor does the web application, where somebody can always log in or out.

In `tty` and `tty_live` the ring has to have more slots than processes that may want two at
once: with no more than that, each can hold one slot and wait for the other.  The code has 32
slots and as many processes, of which it would take all.  A ring of three and three actors (with the
null process) is the smallest that wraps, fills up and lets one process store between the two
waits of another.  Two keys fill the input buffer, and the third finds it full.

**Fairness** (`LiveSpec`). What is left of a call runs to its end, since it is
straight-line code with interrupts disabled: weak fairness of `Masked`.  A clock
request stays pending while interrupts are disabled and is served when they are
enabled, which is again and again: strong fairness of `Interrupt`.  Processes
themselves are not assumed to do anything.  `TtyFair`: the UART sends what it was
given (weak); it goes on asking for an interrupt until it is served, and interrupts are enabled
again and again (strong); a process in the middle of the driver is ready or waits, and a
ready one is not passed over for ever (strong fairness of its `Step`, as `ready.c` puts a
process behind its equals; this holds of processes of one priority).  `BootFairSpec`: `boot_xinu` never stops
looping and the clock never stops ticking (weak); the network owes nothing.  `MonFairSpec`: a frame
in the memory of the card is sent, and `boot_xinu` goes on (weak).  `ClassFairSpec`: the clock goes on ticking
(weak), and processes do as they like.

Three buffers would not let the pool run empty with a packet in the table, one in the queue and one in a
caller's hands at once; an ARP table of two has a first entry that is given away and a second that is
not.  Three processes are one that runs, one that has ticks left and one that has none, and the null
process is below them.  Three developers are one more than fit; two
processes are enough for two requests to overlap, and a third request comes before or after each of their
writes. `stories` has a state constraint, `OneOfAKind`.
Its behaviours are of two kinds: those with one row of a developer, who is on no story, any projects and charts of two
points, for the charts (`ForCharts`); and those with one project, a chart of one point, any developers and two users
logged in at a time, for the teams (`ForTeams`).  How many are on a story and how many points a chart has never enter
the same decision.  A behaviour of the first kind is not followed beyond a state in which all charts are torn, one of the
second beyond one in which the story is crowded or a chart torn: of what is crowded or torn the properties say nothing,
and it stays so.  The theorems of section 4 have no such bounds.

### What the code does otherwise than its comments

* Output is lost or sent twice around a newline.  `computc` finds the place of "\r\n" and then
  waits for the second slot; another process stores its character at that place meanwhile.
  This is the run `tty_newline`.

Other disagreements were met on the way; no run is kept for them.

Kernel: `xdone` prints "All user processes have completed." while one is alive: `kill` takes
`numproc` down first, and its death notice can start a process of higher priority that kills the same
process again, so that one death is counted twice.  What does hold is `LastDeathReported`.  `recvtim(0)`
enters an entry of key 0; the next tick takes it to -1 and is not taken from anybody behind it
(`TimersExact` holds for waits of at least one tick).  `freestk` rounds the size of a stack up to 8
bytes, `getstk` to 4, so that a stack of an odd number of words comes back as a block that begins one word
too low.  `chprio` leaves the key of a ready process alone, so that the dispatcher goes by the priority the
process had.  `bpmaxused`, "max ever in use", is `bptotal - scount(bpsem)`, and the count is negative
while others wait.

Terminal: the null process waits, which `initialize.c:59` says it must never do, when a key
is pressed while it runs and the ring is full; in `XinuTty` nothing more happens then (`Down`).  The "1/0"
semaphore of the terminal reaches 2 when a `TTC_NEXTC` gives back what it took after another line has
come.  A reader that takes two lines at once leaves the count of the second, and the next reader finds
nothing and returns no characters; a reader that takes less than a line wakes nobody for the rest
of it.  `reprint` begins one slot past the last character.

Boot monitor: a block that is neither the next nor a neighbour of it stops the timer (`montftp.c:38`) and
is not answered, after which only a packet helps; that is the state `Deaf` of `BootEnds`.  A
message that is no BOOTP reply takes the boot on to TFTP.  The timer stays due while a request is
repeated, so that a tick between two assignments takes a try away.  `mon_tftp_bytes = 0` at
`monboot.c:79` may come after the first block has been counted.  `arpinit` and a full table lose the
packets they held, so that repeated failed boots empty the pool of 16; `getbuf` then waits, where its
callers test for an error.

Scheduling classes: `Lab1Answers.txt:18` and `:29` say "No risk of starvation".  A process that blocks
before its ticks are used up is not charged for them (`resched.c:50` writes them back only for a process
that is still current), comes back with what it had, and can so keep an epoch from ending while a third
process, with or without ticks, waits for ever; `NoStarvation` therefore excepts it.  The key of a process
that gives way is made with the counter it had before (`resched.c:56`), not with what it has left.  The
comment of `resched.c:104` speaks of a separate queue for real-time processes; nothing is ever put into it.

Web application: a story has three developers when two sign-ups overlap, in which both find room or
replace the same developer, or when the form of a developer says so, from one request; sign-up then
replaces one of the first two and the story keeps three.  Two requests that write the same point,
or one that is stopped in between, leave a chart whose axes differ.  Other than that, `update` raises on an
empty chart, and adds the point to the project the story was in; `destroy` compares a number with a
string, so that developers keep the story that is gone and their page raises; who is replaced in a team
may have moved to another story meanwhile, and loses that one; who signs up again for a story with two
developers may be the one replaced, in which case the second update finds the story of `@user` unchanged and writes
nothing, so that he is off the story and told "You signed up for this story." (`stories_controller.rb:141`); a
developer whose project was deleted gets an error on every page, logging out included.

## 4. What is proved

Eight modules hold the proofs, for every value of the constants that satisfies the assumptions of the
modules (and the hypothesis, where one is named): `XinuQueue_proof` (what insertion, removal and the delta list do to
members, order, distinctness and the times that differences add up to), which `XinuKernel_proof`,
`XinuStorage_proof` (memory and pools) and `XinuClasses_proof` extend; `XinuTty_proof`, `XinuBoot_proof`,
`XinuMonNet_proof` and `StoryBoard_proof`.

| theorem | states |
|---|---|
| `Inductive` | `Spec => []IInv` |
| `KernelTypes` | `Spec => []TypeOK` |
| `ReadyListSafe` | `Spec => []ReadyListConsistent` |
| `SemaphoreQueues` | `Spec => []WaitersQueued` |
| `SemaphoreCounts` | `Spec => []SemCountIsQueue` |
| `SleepQueue` | `Spec => []SleepersQueued` |
| `ClockCache` | `Spec => []ClockCacheCoherent` |
| `MessagesKept` | `Spec => []NoLostMessage` |
| `LastDeath` | `Spec => []LastDeathReported` |
| `TimersRefined` | `Spec => TimersExact`: the kernel implements `XinuTimers`, if no `recvtim` is of 0 ticks (`RecvTicks \subseteq Nat \ {0}`) |
| `CountExact` | `Spec => []NumprocExact`, if no user process is named next of kin (`Noks \cap UserPids = {}`) |
| `StacksApart` | `Spec => []StacksOwned`, under the same hypothesis |
| `MemoryInductive` | `MemorySpec => []MemInv` |
| `MemoryTypes` | `MemorySpec => []MemoryTypeOK` |
| `FreeListSound` | `MemorySpec => []FreeListApart` |
| `NeverRefusedInVain` | `MemorySpec => []RefusedOnlyWhenFull` |
| `HeapConserved` | `MemorySpec => []HeapPartition`, if every size asked of `getstk` is even (`EvenStacks`) |
| `PoolInductive` | `PoolSpec => []PInv` |
| `PoolTypes` | `PoolSpec => []PoolTypeOK` |
| `BuffersAreCounted` | `PoolSpec => []BuffersCounted` |
| `PoolsNeverLost` | `PoolSpec => PoolsSurvive` |
| `BuffersApart` | `PoolSpec => []BufferInOnePlace` |
| `NeverNull` | `PoolSpec => []BufferThere`: who is past the wait of `getbuf` finds a buffer in the list |
| `TtyInductive` | `TtySpec => []TtyInv` |
| `TtyTypes` | `TtySpec => []TtyTypeOK` |
| `RoomIsCounted` | `TtySpec => []SpaceCounted` |
| `LineIsKept` | `TtySpec => LineKept`: the terminal implements `XinuLine` |
| `BootInductive` | `BootSpec => []BootInv` |
| `BootTypes` | `BootSpec => []BootTypeOK` |
| `AcksAreStored` | `BootSpec => []AckedIsStored` |
| `BootImplementsLoad` | `BootSpec => LoadsTheFile`: the boot implements `BootLoad` |
| `MonInductive` | `MonSpec => []MonInv` |
| `MonTypes` | `MonSpec => []MonTypeOK` |
| `OnePlace` | `MonSpec => []InOnePlace` |
| `TableLoses` | `MonSpec => OnlyTheTableLoses` |
| `ClassInductive` | `ClassSpec => []ClassInv` |
| `ClassTypes` | `ClassSpec => []ClassTypeOK` |
| `ListExact` | `ClassSpec => []ListIsReady` |
| `NoEarlyEpoch` | `ClassSpec => EpochWhenSpent` |
| `StoryInductive` | `HistorySpec => []StoryInv` |
| `ThirdOnlyByOverlap` | `HistorySpec => []ThirdOnlyIfCrowded` |
| `ChartsInStep` | `HistorySpec => []ChartInStepUnlessTorn` |

**Kernel.** None of the invariants is inductive alone: `signal` takes the head of a semaphore
queue and hands it to `ready`, so that the ready list stays free of duplicates only
because a waiter is on no other list; `wakeup` relies on the same of sleepers; a
receive that resumes has a message only because nobody but `send` readies a PRRECV
process.  `IInv` is therefore the conjunction of all of them with what they need
of each other: who may be inside which call, that the current process of a loop is
the only one in that call, and that what `sltop` points at is an entry.  The proof
has one lemma for each action (`WaitStep`, `KillEndStep`, ...), and under it one step for each
conjunct that the action can disturb; facts on lists come from `XinuQueue_proof`
and facts on sequences from the library.

**Death.** `LastDeathReported` needs `DeathInv`: `numproc` and the number of processes that are in the
middle of `kill` are together at most the number of live processes, so that each call under way owes at
most one death, also when two of them kill the same process or its slot has been used again.  A step of
any other call kills nobody and starts no kill (`Ordinary`); `create` adds one to both sides, `Kill`
moves one from `numproc` to the killers, and `KillEnd` takes away a killer and at most one process.

**Exact count and stacks.** Where nobody is told of a death, `xdone`'s count is exact.  `ExactInv` says
that no next of kin is a user process (`Quiet`), that only the current process may be inside `kill` and its victim
is still alive (`OneKill`), that stacks of live processes are their own (`OwnStacks`), and that `numproc`
and the killers together are exactly the live processes (`Counted`).  The hypothesis cannot go: with a
notice to a process of higher priority `kill` stops in the middle, the same victim is killed again, and
both count it.  That its stack would then be given back twice is why `StacksOwned` needs it too; the model
gives a stack back by adding it to a set, where the code frees the words a second time
(`HeapPartition` follows that with `ReleaseAgain`).

**Timers.** The abstract clock has one countdown for each process, the kernel one list of differences.
The countdown of a process is the sum of the differences up to its entry (`TimeLeft`).  The proof needs of
the list only `DeltaInv`: no difference is negative, and outside of `wakeup` the first one is positive.  `XinuQueue_proof` says what `insertd`, the removal of
`unsleep` and the decrement of the head do to the sums; each action of the kernel then is one of the
timers' actions or a stutter.  `recvtim(0)` is left out by the hypothesis since its entry of key 0 goes to -1 with
the next tick, as section 3 says.

**Memory.** First fit, last fit and the neighbours of a freed block are least and
greatest elements of sets of addresses; that they exist follows from the strict inclusion of
finite sets being well-founded (`FS_StrictSubsetOrderingWellFounded`).  `FreedList` then says what freeing does
to the list and to the set of free words, in the four ways of joining, and each action
cites it.  Without `EvenStacks` the heap is not conserved, as section 3
says of `freestk`.

**Pools.** `BuffersCounted` is not inductive alone: it needs to know that the queue of a
semaphore holds exactly the processes that wait for it (`Queued`), so that the one
`signal` takes off the queue moves from waiting to taking, and that nobody is in a pool
that has not been made (`Placed`), so that a new one starts with its list and its count
equal.  The numbers of takers and signallers are cardinalities; `CountMove` says how one of
them changes when one process moves, and a step is then a sum (`Balanced`).  A `signal`
that wakes somebody is two moves.  `BufferInOnePlace` is about identities, not numbers: `PlaceInv` adds that
lists share nothing and have nothing twice (`ListsApart`), that what is listed is in nobody's hands
(`ListedAlone`), that two processes never have the same buffer (`HandsApart`), that a held buffer names a pool
that exists (`HeldLabelled`), and that pools not yet made have nothing (`EmptyAbove`).  With `PInv`, by which the list is as
long as those on the way to it, it also follows that `getbuf` never follows a null link (`NeverNull`).

**Terminal.** `TtyInv` adds to the types that a call that is about to put a character has one, and
`SlotInv`: the queue of the semaphore holds calls that have asked for a slot, each once, and
characters, count and promises add up.  That the ring never overflows follows from it: the queue
is an injection into the calls that have asked (`RingBound`).  Three lemmas say what a wait, a
signal and a store do to the sum (`WaitKeeps`, `SignalKeeps`, `FillKeeps`), and the actions
cite them.  For `LineIsKept` every change of the buffer is one of `LineMove`, the steps of `XinuLine`
as a relation of two sequences (`KeptLine`, `ErasedLine`, `TakenLine`).

**Boot.** `AckedIsStored` is not inductive alone: that the block taken next goes to the place after
all that were acknowledged needs `InOrder`, which says what the block count, the load address and the
memory have to do with each other in the states in which a block may be taken, and that neither counts
while the assignments after a request are being made.  An acknowledged block may be stored again, by a
repeated request, only at its own place.  The refinement follows from the same invariant: a stored block
is `Receive`, a repeated request is `Restart`, and a handler that comes between two assignments is a
stutter.

**Network layer.** An operation that runs with interrupts disabled is a `Move(s, X, t, Y)`: from a sound state s with
the buffers X in the hands of callers to a sound state t with Y, and no buffer appears or goes.  `FreebufMove`,
`PoppedMove`, `EnqMove`, `WstrtMove`, `EthwriteMove`, `ArpsendMove` and `AnsweredMove` say so of each; an operation
that calls others composes their moves.  Putting a packet in the table takes two: the old packet comes
out of its entry (`EntryDrop`), the new one goes in (`EntryPut`).  Where the entry was not found but allocated, nobody
takes the old packet: then the step is no move, but the table was full and its first entry has changed its
address (`Evicted`), which is what `OnlyTheTableLoses` allows (`HoldStep`, `LearnedStep`).  `MonInv` adds who may
have a buffer in hand: `boot_xinu` between `getbuf` and `enq`, or a handler that waits, which has interrupted it where
it has none.  That the queue, whose check is made with interrupts enabled, does not overflow follows from counting:
a list without repetition is no longer than there are buffers (`CountElements`), and the array has as many places.

**Classes.** `ClassInv` says that the list has the ready processes, each once; that every key but the null
process's is positive; that no allowance is more than twice the priority and one quantum; and that under the
linux-like class the null process runs with nothing left.  The last keeps an epoch from beginning with ticks
unused when the null process gives way.  Each half of `resched` (`PutBackProps`, `DispatchProps`) has its lemma.
`newlinuxepoch` forgets the list and walks through the process table; the walk is a recursive function over an
interval, of which the proof first shows that it exists (`WalkExists`, by the least place at which it would not),
and then, from the last process down to the first, that a list comes back with the ready ones added (`RelistedExact`).

**Web application.** What a request is about to write was decided from what it read, and others have written
since.  `StoryInv` says what is still true of it then.  For a story that is not crowded (`TeamInv`): the team has at
most two; no two developers have a sign-up for it under way; and for the one who has, there is `Room`, that is
at most one other in the team, not counting the one still to be replaced, who may have moved on, gone, or be
the user himself.  For a chart that is not torn (`ChartInv`): no two requests have it open; one that has is
`Before` the point or `Between` the point and the time, and what it will write are the next values of what the
chart holds now; and if nobody has, the chart is in step.  A story that becomes crowded, or a chart that becomes
torn, drops out of the invariant for good.  The proof has one lemma for what each kind of list of writes means
for a story and a chart that other processes' lists do not touch, and one for each action.  There is no
hypothesis on how requests are served.

Only model-checked: the liveness properties (`SleepersWake`, `EqualsTakeTurns`, `WritersGoOn`, `BootEnds`,
`QueueDrains`, `NoStarvation`), as fairness is out of the prover's reach; every other property of a passing run
is a theorem.

## 5. What is not modelled, and the plan

* **Readers/writer locks.** Every call that waits inserts the process with the tail of the queue as its
  head (`lock.c:53` and `:69`), so that the walk and the links go through `q[-1]`, memory before the table
  whose layout the source does not fix; any outcome could follow.  `releaseall` leaves `nargs` at 0
  (`releaseall.c:110`) and releases nothing.  What remains is a lock that is taken and never waited for
  nor released.
* **Packet tags.** Lines of a patch to the network stack of another system, and two programs that
  send and print; no state is kept from one packet to the next.
* **Devices, console and hardware setup, finding and setting up the network cards.** Dispatch through a
  table and writes to registers.
* **Library and configuration tool.** String routines; a parser and a lexer made by generators, which are also the longest
  files of both trees.
* **The Scheduling tree's copy of the kernel**, where it does not differ from the one modelled.
* Parts of what is modelled: `gpq.c` (nothing calls it), the time of day, the open devices of a
  process, the modes of the terminal, reception in the card and the 3Com driver, creating and killing
  processes under the scheduling classes, the pages of the web application that only show.

The plan: the network boot and the network layer composed, so that a request of the one is a packet of the
other; `HeapPartition` with stacks of an odd number of words, where what is lost is known; and what a kernel
promises of semaphores as an abstract specification of its own.
