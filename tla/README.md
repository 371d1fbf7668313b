# A verification project for the STM32F407 uC/OS-III + lwIP firmware

The firmware runs on one Cortex-M4 core. uC/OS-III 3.08 schedules a handful of
tasks, lwIP 2.1.2 speaks TCP/IP over the on-chip Ethernet controller, and an LCD
shows what happens. This directory holds TLA+ models of the parts whose
correctness depends on the order of events, the TLC runs that check them on
small instances, and the TLAPS proofs of what holds on every instance.

Paths below are relative to the repository (`src/` here).

## The system

Tasks, by priority (0 is the most urgent):

| prio | task | code | waits for |
|---|---|---|---|
| ISR | `ETH_IRQHandler` | `Core/Src/stm32f4xx_it.c`, `stm32f4xx_hal_eth.c` | the DMA controller |
| 0 | `ethrx_thread` (`ethernetif_input`) | `Lwip-2.1.2/arch/ethernetif.c` | semaphore `ETH_SemRx` |
| 1 | `tcpip_thread` | `Lwip-2.1.2/api/tcpip.c` | its mailbox, with the time to the next lwIP timer as timeout |
| 2 | `App_EthTask` | `User/Src/app.c` | `netconn_connect`, `netconn_recv`, delays |
| 28 | `App_StartTask` | `User/Src/app.c` | delays |
| 29..31 | timer, statistics and idle task of the kernel | `uCOS-III/Source` | kernel objects |

Components, their state, operations and neighbours:

* **Kernel objects of uC/OS-III** (`uCOS-III/uCOS-III/Source`): ready lists and
  bitmap (`os_core.c`, `os_prio.c`), the delta list of delays and timeouts
  (`os_tick.c`), tasks (`os_task.c`), semaphores, queues and the pool of
  `OS_MSG`s, mutexes with priority inheritance, event flags, software timers,
  memory partitions. What a service does to the kernel's data it does in one
  critical section, which is one atomic step; but it tests the object's `Type`
  *before* that section and calls the scheduler after it, and a tick or a more
  urgent task may come in both gaps. What is hard is what a call means to the
  *other* tasks: whose priority changes, who is made ready, which list an OS_TCB is in.
* **lwIP operating system port** (`Lwip-2.1.2/arch/sys_arch.c`): mailboxes (a
  queue and a counting semaphore), semaphores, mutexes, threads, on top of the
  kernel objects. The two halves of a mailbox operation are two kernel calls.
* **Ethernet driver** (`Lwip-2.1.2/arch/ethernetif.c` over
  `Drivers/STM32F4xx_HAL_Driver/Src/stm32f4xx_hal_eth.c`): receive and transmit
  rings of 4 DMA descriptors shared with the DMA controller, the interrupt
  handler, the lock of the HAL handle, the receive task.
* **TCP/IP thread** (`Lwip-2.1.2/api/tcpip.c`): the mailbox, the core lock, the
  messages taken from `memp` pools, callbacks, the timer list
  (`Lwip-2.1.2/core/timeouts.c`).
* **Sequential API** (`Lwip-2.1.2/api/api_lib.c`, `api_msg.c`, `netbuf.c`): the
  netconns and netbufs the application uses.
* **Protocol core of lwIP** (`Lwip-2.1.2/core`): memory pools, pbufs, ARP, IP, TCP.
* **Application** (`User/Src/app.c`, `lwip.c`): creates the objects and tasks,
  runs a TCP client that reconnects, echoes what it receives.
* **LCD, debug page and number formatting** (`User/Src/app_lcd.c`,
  `app_dbg.c`, `system.c`, `User/Bsp`): a mutex around the display, a page that
  lists the tasks, `_itoa` and its relatives.
* **Board support and start-up** (`Core`, `User/Bsp`, `Drivers`, CMSIS): clocks,
  GPIO, FSMC, vectors.

## What is hard here

* **Preemption between two kernel calls.** The port builds a mailbox from a queue
  and a semaphore without a lock around the pair. `ethrx_thread` is more urgent
  than `tcpip_thread`, so it can run between the two halves of every fetch.
* **Priority inheritance.** `OSMutexPend`, `OSMutexPost`, timeouts, aborts,
  deletions and priority changes all move priorities along chains of owners, and
  the ready list and the pend lists must follow.
* **An interrupt handler and a DMA controller** that share rings with two tasks,
  under a HAL "lock" that is a flag the handler clears.
* **Preemption between test and use.** `OSMutexPend`, `OSSemPend` and `OSFlagPend`
  test `Type` before `CPU_CRITICAL_ENTER`; the object may be deleted in between.
* **Start-up order.** The timer task first runs at its own low priority, after timers
  may have been started.
* **Exhausted pools**: `OS_MSG`s, pbufs, `MEMP_TCPIP_MSG_INPKT`, netbufs. Each
  failure leaves an operation half done.
* **Timeouts that race with the event waited for**, on the delta list of ticks.
* **Life cycle of the connection** in `App_EthTask`: whatever the peer does, the
  task must free what it received and connect again.

## Modules

### SysArchMbox, Mailbox: the mailboxes of `sys_arch.c`

`SysArchMbox` models every operation on a `sys_mbox_t`: `sys_mbox_new` (Init),
`sys_mbox_post`, `sys_mbox_trypost` and its `fromisr` form, `sys_arch_mbox_fetch`,
`sys_arch_mbox_tryfetch` (a fetch that does not wait), `sys_mbox_free`. One step is
one kernel call; between the two calls of an operation a thread is at the
program counter `put` (owns a place, has not posted), `try_sem` (has posted, owns
no place), `give` (has a message, still owes the place), `free_q` (semaphore
deleted, queue not). `Runs(t)` is the scheduler: a thread takes a step only while
every more urgent one is blocked or busy outside the mailbox. Waiting threads are
the sets `At("sem_wait")` and `At("q_wait")`; since priorities are distinct, the head
of the kernel's ordered pend list is `First` of the set. `others` stands for the
`OS_MSG`s that the other queues of the system hold, as all take them from one pool.

`Mailbox` is what lwIP expects of a mailbox: a FIFO channel with `Size` places, in
which a message keeps its place until the fetch that took it returns.

| run | instance | question |
|---|---|---|
| `mbox_all` | 2 places, 3 messages, 4 threads of the application's priorities, pool of 4 with up to 2 taken elsewhere, deletion | are places conserved, can a thread sleep on a mailbox that could serve it, does an accepted message stay |
| `mbox_post` | as above, without trypost and deletion, with fairness | is the pair of kernel objects the bounded FIFO of `Mailbox`; does a blocked poster get on; is everything fetched |

Bounds: with 2 places and 3 messages a mailbox is empty, partly full and full
with a sender left over; 4 threads are the priority levels at hand. `SkewBound`
stops the exploration after two failed calls in the same direction: each adds 1 to
the same counter, and every guard compares it in one place only.

Fairness in `mbox_post`: a thread that is in the middle of an operation and may run
goes on, and the fetcher comes back for the next message, because `tcpip_thread` is
`while (1)` around the fetch. Nothing is assumed of the posters' willingness to
post. `PosterProgress` is stated for the most urgent poster only: the pend list of
the semaphore is ordered by priority and a less urgent poster may starve.

**What does not hold.** If the fetcher is preempted between its `OSQPend` and its
`OSSemPost` while the mailbox is full, a trypost says ERR_MEM for a message that is
queued nevertheless, and the count of the semaphore is one too high from then on:
`SlotsConserved` counts these half-done tryposts (`skew`). After one, a post may find
the queue full although it was given a place, and loses its message silently, since
asserts are compiled out; so `PostNeverDrops` is checked, and proved, without
tryposts. What the first effect does to `tcpip_inpkt` is the run `tcpip_freed` below.

**Proved** (the first part of `TcpipInputProof`, any number of threads, messages and places, from the
named assumptions on the constants): `TypeCorrect`, `NoSleepInVain` and
`PlacesConserved`, and, under the two hypotheses that nobody uses trypost and that
the `OS_MSG` pool serves every queue at once, `PostKeepsMessages`. The inductive
invariant behind `PlacesConserved` adds `FreeOrder` (the semaphore is deleted before
the queue): the equation is about a living semaphore only. The counting is
done once, on the function `pc`: `Held(w)` is the number of places in the hands of
threads less those threads owe, `HeldMoves` says what one thread's move does to
it and `HeldPut` what OSQPost does, whether or not a fetcher waits; each action is
then a line of arithmetic. `PostKeepsMessages` needs all of it: a poster that owns a
place finds `Len(entries) < Size` because the equation holds with no skew.
`AcceptedOnce` is `AcceptedIsKept`, from `Whereabouts`: a message is in one place only
(`Alone`), and what a thread was told agrees with where the message is (`Told`).
`RefinesMailbox` says that every step of the two kernel objects is a step of `Mailbox`
or leaves it alone, when nobody uses trypost and the mailbox is not deleted
(`TryPoster = {}`, `Freer = {}`): the two operations that a bounded FIFO channel does not
have. Its fairness half stays with the run `mbox_post`.

### EthTx, TxQueue, EthTxProof: sending a frame

`EthTx` is `low_level_output` and `HAL_ETH_TransmitFrame` as tasks run them: take the
core lock, copy pbuf by pbuf into the buffer of `heth.TxDesc` (`copy`), test and
set the HAL lock (`hal`, `lock`: `__HAL_LOCK` is a test and a store, with room for an
interrupt between them), look at the OWN bit again (`check`), set it (`own`), advance
`TxDesc` (`advance`), poll the controller (`resume`), release (`unlock`, `return`). Beside
them the DMA controller transmits and suspends, and the receive interrupt may come
between any two steps: it posts `ETH_SemRx`, which wakes the receive task, and it
*unlocks the HAL handle*, as `HAL_ETH_IRQHandler` does, whoever locked it. The receive
task takes the core lock too, so priority inheritance of that lock (`EffPrio`) decides
who runs.

`TxQueue` is what lwIP expects of `netif->linkoutput`: a bounded queue to the wire that
takes a frame or refuses it, and tells which. `tx_locked` checks that the ring
implements it under `queue <- ` the descriptors owned by the controller from `dma` on.

| run | instance | question |
|---|---|---|
| `tx_locked` | 2 descriptors, 3 frames of 2 pbufs, 2 senders and the reader, every call under the core lock, 2 receive interrupts | does each frame go out once and whole, are refused frames kept off the wire, does every call return, does the ring implement `TxQueue` |

Three frames wrap a ring of two; two pbufs are enough to mix two frames in one
buffer; two interrupts (`MaxIrq`) put one before and one after the HAL lock. Fairness: the
controller transmits what it owns, and the most urgent ready task runs (`Go(t)` is one
step of a task that may run). Deadlock is not an error here: the run ends when all frames
are sent. `CHECK_DEADLOCK` is off for that reason. `LWIP_NETIFInit` does send without the lock:
see `Unlocked` under the observations below.

**Proved** (`EthTxProof`, any tasks, frames, descriptors and pbufs, under the one hypothesis
`Unlocked = {}`: every call of `low_level_output` has the core lock): `SentOnce` (`OkIsSent`), `WireStaysClean`
(`WireIsClean`), and `RefinesTxQueue`, that every step is a step of `TxQueue` or leaves it alone. The inductive invariant
starts from `Locked`: the owner of the core lock is the only task inside the driver, and `halLock` is
set only while that one is behind the test of it, so that the interrupt that clears it harms nobody. `Fill`
says that what a sender has written into the buffer of `TxDesc` is still there when the descriptor is
handed over; `Single` and `Verdict`, that a frame is with the controller or on the wire once, and that
what a sender is told, or will be told by the line it is at, agrees with that. The refinement adds
the shape of the ring: the descriptors owned by the controller follow each other from `dma` to `TxDesc`.

### EthRx, EthRxProof: receiving a frame

The controller moves frames from its FIFO into descriptors it owns (`DmaReceive`) or
suspends (`DmaSuspend`); `Enter`, `ClearR`, `ClearNis` are the three moments of the interrupt
handler (post of `ETH_SemRx`, clearing of R, clearing of NIS), between which frames keep
arriving; `ethernetif_input` pends, takes the next frame of the ring, allocates a chain
of pbufs, copies, gives the descriptor back, resumes the controller and hands the
chain to the stack, which frees it some time later.

| run | instance | question |
|---|---|---|
| `rx_ring` | 2 descriptors, FIFO of 1, 5 frames of 1 or 2 pbufs, pool of 3 | order, no descriptor read and written at once, no pbuf lost, no frame stranded by a merged interrupt, ring and FIFO drain |

`starved` is an auxiliary variable: the last turn of the loop ended at a failed
`pbuf_alloc`. `OnlyStarvedStrands` says that this is the *only* way in which the task sleeps
on a frame; the liveness property `RingDrains` is conditional on it, because
a failed `pbuf_alloc` does strand frames (see the observations below). Five frames go twice round a ring of
2; a pool of 3 runs empty and recovers. `MaxFrame` ends the arrivals, so the system may
stop. Fairness: hardware, interrupt and the most urgent task of the system run.

**Proved** (`EthRxProof`, any number of frames, descriptors and pbufs, and of pbufs to a frame):
`RingNeverSlips`, `ArrivalOrder`, `PoolKept`, `MergedInterruptsSuffice`, that is all four invariants of the run.
`Ring` says the descriptors that the task has not given back are the `K` ones before `dma`; it is what makes
`Nxt` on either side safe. `Ordered` is the order of arrival through ring, task and stack in one line of comparisons: `InOrder`
alone is not inductive, as it does not see the frames still in the ring. `Told` is the argument for merged
interrupts: whoever sleeps on a frame with no failed allocation behind it has a post to get or an
interrupt request that stands (`nis`), because the handler posts *before* it clears the flags. `Pooled` needs the sum
of `Need` over the chains the stack holds, which is a fold: it is proved to be the size of a set of
(frame, pbuf) pairs, by the least counterexample along the fold.

### TcpipInput, TcpipInputProof: from the receive task to tcpip_thread

Extends `SysArchMbox`: the steps of the mailbox are taken as they are, and the two tasks
around it add what travels: elements of `MEMP_TCPIP_MSG_INPKT`, pbufs with their 8-bit
reference count, the core lock, the callback `pbuf_free_ooseq` and its flag. Each error
path of `tcpip_inpkt` and `ethernetif_input` is an action (`Refused`, `Failed`). `Others` takes
`OS_MSG`s from the common pool, so a post may fail in a mailbox that has room.

| run | instance | question |
|---|---|---|
| `tcpip_input` | 2 packet elements, 1 callback element, 3 places, pool of 3 `OS_MSG`s with up to 2 taken elsewhere | is what travels alive and in one place, does every error path give everything back, does the flag always have its callback, is every accepted message handled |
| `tcpip_freed` | more elements than places (1), as in the build (8 + 8 against 6) | violation of `FreedPbufHasRef`: a message that stays queued after ERR_MEM is freed twice |

The first run has as many places as messages, so the mailbox refuses only for want of
`OS_MSG`s: this is what holds. With fewer places than elements, which is how the build is
configured, the ERR_MEM of `sys_mbox_trypost` is wrong and the second run shows the
consequence. Fairness: `ethrx_thread` runs; `tcpip_thread`, less urgent, runs again and again
(strong fairness: a network that keeps the processor for ever is excluded).

**Proved** (the second part of `TcpipInputProof`, any messages, pbufs and `OS_MSG`s, any sizes of the mailbox and of the pools):
`TravelsAlive` and `NothingIsLost`, that is `FlightIsAlive` and `NothingLeaks` in every state with `NoneHalfDone`, which
says that no `sys_mbox_trypost` has failed after its `OSQPost` so far (`skew = 0`). The build has 16 elements and 6 places, so that this
does happen there, and `tcpip_freed` shows what follows; the two theorems say that nothing else
goes wrong with those sizes or any others: a full mailbox that refuses at the first step, an empty pool of elements, pbufs or `OS_MSG`s lose nothing. The inductive
invariant `IInv` puts every message in one place (`Places`), ties elements and references to those places (`Elements`, `Pbufs`),
and knows what the two tasks have in hand at each line (`Where`); `Intact` claims it until `skew` leaves 0, to which it
never comes back, since `skew` only grows here (`SkewIs`).

`EnoughPlacesSuffice` is a sufficiency result: when the mailbox has a place for every message (`Roomy`, the hypothesis: finitely
many messages, no more than `Size`) no trypost fails half way (`RoomyPlaces`: a message that the receive task has to itself leaves a
place over) and the assertion `FreedPbufHasRef` holds. So the double free of `tcpip_freed` comes from the sizes
alone, whatever the interleaving. `Roomy` is not what the build has, but what it would need.

### OsMutex, OsMutexProof: mutexes, priorities, scheduler

One record `k` is the kernel: priorities and base priorities, `TaskState`, `PendStatus`, what
each task waits for, the mutexes in its group, the pend list, owner and nesting counter
of each mutex, the ready lists by priority, the current task and `OSPrioCur`. A critical section
is a function from `k` to `k` built of the same helpers as the code
(`RdyInsert`, `PendInsert`, `Wake`, `ChangePrio` for `OS_TaskChangePrio` with its loop along
the owners). `mode` says what comes next: `"sched"` after the critical section of a service,
when the call of `OSSched` is still to come, `"isr"` when an interrupt has ended waits and
`OSIntExit` is still to come. Between them ticks may come, which is where a task that waits is
still `OSTCBCurPtr`.

`OSMutexPend`, `OSMutexPendAbort` and `OSMutexDel` test `Type` before their critical section: `Ask` is the test, and for a
mutex that some task deletes (`Loose`) it is a step of its own, which `asked` remembers until the section is entered
(`Inside`). In between a tick may make a more urgent task ready which deletes the mutex, and the
preempted call takes the deleted mutex or waits for it. Of the mutexes outside `Loose` the test never
becomes stale and is part of the section. `OSMutexPost` changes nothing unless its caller owns the mutex, and the
owner stays owner through a deletion only when it took the mutex after it, so its test is merged with its
section as well. A later `OSMutexCreate` of a mutex taken in this way (`MutexCreateTaken`) clears its owner and its list of waiters and
`MutexGrpNextPtr`, which cuts off the group of the task that has it; from then on the kernel's data are not lists any more, what the code does with
them is not modelled (`mode = "damaged"`), and `ListsExact`, `ExactInheritance` and `NoInversion` claim nothing.

| run | instance | question |
|---|---|---|
| `os_mutex` | 3 tasks, 2 mutexes taken in order, nesting 2, timeouts, delays, aborts and deletion of one mutex at any moment, also between the test and the use of it, a priority change, deletion of a task (386,854 states, 2 minutes) | lists, owners and inheritance exact in every reachable state; no unbounded inversion; who stops waiting owns the mutex or has an error; the most urgent is served |

With three tasks there is a chain of two owners, two waiters of one mutex, and a task
between two priorities; two mutexes give a task that inherits from one and waits for the
other. The instance of `os_mutex` leaves out two situations in which the code is wrong, so that
everything else about it can be checked: no call lowers a task while it waits for a
more urgent owner (see `InheritsUpwards` below), and a task that is deleted does not own a
mutex somebody waits for (`OS_MutexGrpPostAll` sets `OwnerTCBPtr` to the deleted task; listed as
hazard). Fairness: the scheduler and the return from interrupts run, a call that has tested its mutex enters its critical section, timeouts expire, and a
task that gets to run again and again posts what it owns: `SF`, since preemption
disables the post in between. Not modelled: suspend and resume, the scheduler lock and
the `NO_SCHED` options, round robin, OSTaskCreate's options, lock-order deadlocks (the tasks
take mutexes by `Rank`).

**Proved** (`OsMutexProof`, any finite set of tasks, any mutexes, priorities, ranks and calls that `MutexAssumption`
allows): `SpecListsExact` and `SpecGranted`, that is `ListsExact` and `Granted`, without a further hypothesis, also when mutexes are
deleted between the test and the use of them;
`SpecExactInheritance` and `SpecNoInversion`, that is `ExactInheritance` and `NoInversion`, under `ChainsRiseOnly`.
That is every property of the run but `UrgentServed`, which is liveness.

* *Lists.* `Inserted`, `Removed` and `ListIs` turn each list into the set of its elements and the order of their
  priorities; `RdyInIs`, `PendInsertIs`, `PendRemoveIs`, `ChangeOneIs` and `WakeIs` say what the helpers of `os_core.c`
  do to them. `Tcbs(s, X)` and `Groups(s, X)` are exact but for the tasks or mutexes of `X`, those that a service has taken out and
  not put back yet.
* *The loops.* `OS_TaskChangePrio` along the owners, `OSMutexPendAbort`, `OSMutexDel` and `OS_MutexGrpPostAll` are folds.
  `FoldExists` and `RunOf` give the sequence of the states in between, and a lemma per loop (`RoundKeeps`, `AbortsStep`, `DelsStep`,
  `PostsStep`) keeps the invariant from one to the next.
* *The first inductive invariant*, `Sound`, is `Inv` as long as the data are lists (`mode # "damaged"`). `Inv`: the kernel's data is legal (`Legal`: types, lists, groups, who holds, who may
  call) and, when no call of the scheduler is outstanding, the current task is the one that `OS_PrioGetHighest` finds.
  `ListsExact` alone is not inductive: a wait is for a mutex that another task owns (`Held`), and only tasks of
  `Nester` wait while they own (`Callers`), without which an abort could reach a task that has no wait.
  There is one lemma per action, `PendWaitInv` to `ExpireInv`, each with `Grant`, which `Granted` follows from.
* *The second*, `SoundX` with `InvX`: in addition every living task's priority is `Fit` for its `Claims`, the tasks that wait for what it
  owns. Giving back is one argument for all the ways a wait ends (`RestoredFits`, `StoppedExact`, `DisinheritExact`): what
  `OS_MutexGrpPrioFindHighest` returns is what is left owing. Raising along a chain (`RaiseExact`) needs one that
  the loop of `OS_TaskChangePrio` ends: the owners on the way, each less urgent than the new priority, are one fewer
  after every round (`AboveLess`), so the bound of the fold, the number of tasks, is enough for a chain of any length.

`ChainsRiseOnly` is needed because the code is wrong without it: lowering a waiter may give its owner the waiter's new
priority, however urgent the owner has to be (`os_task.c:2816`, see `InheritsUpwards` below). It says that a task
whose priority a call changes does not wait for mutexes, and that a wait which can end before a post is for a mutex whose
owner does not wait itself. The pends of this application (`sys_mutex_lock`, `LCD`'s mutex) have neither timeouts nor
aborts. `MCOsMutex` assumes `ChainsRiseOnly`, so TLC confirms that the instance of `os_mutex` meets it, with
timeouts, aborts, a deletion and a change of priority in it.

### EthClient, EthClientProof: the TCP client

Two actors work on one netconn. `App_EthTask` is a program counter (`pc`) through its loop
and the API calls in it, a step being a section under the core lock or the code between
two; `tcpip_thread` is the callbacks `do_connected`, `recv_tcp`, `sent_tcp`, `poll_tcp`, `err_tcp`, in
whatever order the peer and the timers cause them. The signal of `op_completed`, the flags
`NETCONN_FLAG_MBOXCLOSED` and `pending_err`, the content of `recvmbox`, the netbufs and pbufs, the send
buffer and the receive window are state; the bytes and retransmissions are not.

| run | instance | question |
|---|---|---|
| `eth_client` | a recvmbox of 3 places, a window of 5 segments, 7 segments, send buffer 2, 2 netbufs (155,157 states) | one signal for each wait, stream in order, no pbuf or netbuf lost, no sleep on a dead connection, an ended connection is replaced |

The window of the build is counted in bytes and `recvmbox` in entries (6), so a peer that sends small segments fills
`recvmbox` while the window is open. The instance has the same shape: more window (5) than places (3), and one more segment than
window and one refused together. What happens then is in the model:

* `recv_tcp` returns ERR_MEM, TCP keeps the pbuf as `refused_data` (`refused`, with the FIN behind it, `late`) and takes
  no other segment until `tcp_process_refused_data` has delivered it (`Redeliver`).
* A fetch is two kernel calls (`Fetch`, `GivePlace`). A trypost between them queues its message and finds no place
  for it: `recv_tcp` says ERR_MEM for a segment that stays in `recvmbox`, which is then delivered again. `doubled` records it. From then on a pbuf may be
  freed twice and its memory may hold anything, so the number of segments reported by `Recved` is any, and `PbufsConserved` and
  `StreamIntact` claim nothing any more; the others still do.
* A FIN that finds `recvmbox` full is lost, because `tcp_in.c:541` ignores the result (`lost`). `App_EthTask` then sleeps
  in the fetch on a connection in CLOSE_WAIT until an error of that connection wakes it: `FetchWakes` and `Recovers` say that this is the only way.
* `err_tcp` posts the error with a trypost, whose failure is ignored too. It does no harm, since it is needed only by
  a task that sleeps on an empty `recvmbox`: `FetchWakes` holds without an exception there.

The `OS_MSG`s do not run out: the pool has 32, and `tcpip_mbox` and the one `recvmbox` hold no more than 6 each. Read from the code, and therefore not in the model as choices:
`tcp_close` and `tcp_shutdown` do not fail in this version of lwIP, so state NETCONN_CLOSE is never
visible to `app.c:219`. The store through a NULL pcb goes to address 9, flash that is not
unlocked, and has no effect. Fairness: `App_EthTask` runs when `tcpip_thread` does not, TCP
gives up a SYN and unacknowledged data after a number of retransmissions (`Decided`), and `tcp_fasttmr` offers refused data again every 250 ms (`Redeliver`);
nothing is assumed of the peer.

**Proved** (`EthClientProof`, any window, any size of `recvmbox`, any send buffer, number of netbufs and segments):
`SignalsOnce`, `PbufsKept`, `FetchEnds`, `FreedClean`, that is `OneSignal`, `PbufsConserved`, `FetchWakes` and
`NothingLeft`, from one inductive invariant (`Inductive`), and `StreamKept`, that is `StreamIntact`, from the same one and two parts more:
`Bounded` (the counters of segments and of unacknowledged ones stay within their bounds) and `Stream` (what is in hand, in
`recvmbox` and refused is one run of consecutive segments, with the FIN and the error behind the last of them). No relation of
window and `recvmbox` is assumed. None of the
five is inductive alone. `CallHasPcb` ties the state of the call to
the state of the pcb: without it a second `do_connected` could signal twice. `Phase` says where the task can be
without a netconn, which is why `New` finds an empty mailbox. `NetbufsCounted` counts the netbuf
in the task's hands by its program counter. `Fresh` says no segment is in `recvmbox` twice, before one is `doubled`, or
has yet to come, without which `Head` could also be in `Tail`, and that whatever was not freed is somewhere, doubled or not, so that nothing is
left when the netconn is freed. `EndKnown` is the argument of `FetchWakes`:
between the unlocked look at the flags and the wait, a connection that ends leaves its
message in `recvmbox` or behind what was refused, unless it was the lost FIN, because `recvmbox` exists for as long as the task can be on its way to a fetch.

### OsTmr, OsTmrProof: software timers of the kernel

`m` holds what `os_tmr.c` keeps: the delta list, `OSTmrTaskTickBase`, and each timer's `Remain`, `State`,
`Dly` and `Period`. Everything happens under `OSTmrMutex`, so the body of a call is one step; the steps
around it are those between which ticks are counted or the mutex changes hands: the tests before
`OS_TmrLock` (`Call`), the lock and the reading of `OSTickCtr` (`Lock`), the body (`Do`). The timer task waits
on `OSTmrCond` (`CondWait`), takes the time off the list when it is back (`Wake`), calls back each
timer that has ended, which may itself start, stop or delete timers (`Fire`), and starts over (`FireEnd`).
`left` (what the caller was promised), `lag` (the work time of the timer task) and `begun` are
history variables.

The timer task takes `OSTmrMutex` when it first runs (`Begin`), with its own priority and, where the statistics task is
started, not before `OSStatTaskCPUUsageInit` has resumed it; `task = "start"` until then. Timers may be
started, stopped and set meanwhile. The code then waits for the whole `Remain` of the head (`os_tmr.c:1378`) without a look at how old
`OSTmrTaskTickBase` is, so the first sleep is too long by the time since the first timer was started; and when `OS_TmrUnlink` has left the head with 0 ticks, `OS_TmrCondWait(0)`
waits for ever, until a call signals. `NoOversleep` states both for the first sleep only (`~begun`). In this build the timers are compiled out
(`APP_CFG_DBG_TMR` is 0); the module is about the service of the kernel.

| run | instance | question |
|---|---|---|
| `os_tmr` | 3 timers (one-shot of 2 and of 1 ticks, periodic of 3), a counter of 8, everything up to 1 tick late, the first run of the timer task included (3,842,864 states) | does the list hold the end of every timer, does the task ever sleep past one |
| `os_tmr_early` | the same | violation of `NotEarly`: a callback before its time |

Three timers put one before, between and behind others; a counter of 8 wraps within two periods, and no
timer is linked for half of it. `ListExact` is about the times only while `drift` is FALSE: `OS_TmrUnlink`
compares the remaining ticks of the new head with those of the old one, and when they
are equal by chance it does not move the time base, which `os_tmr_early` shows in a callback. Left out are
two calls that fail *after* they have set `State` to stopped (`OSTmrStop` with an invalid option,
`OSTmrCreate` of a running timer): the timer stays in the list and is linked a second time later.

**Proved** (`OsTmrProof`, any number of timers, any delays, periods and calls, any width of the counter): `DeltaListExact`
(`ListExact`, types included) and `TaskNoOversleep` (`NoOversleep`), under two hypotheses about the constants. `WithinHalfTurn`: no delay or
period is half a turn of `OSTickCtr`, and `LateMax`, the bound on how late things get, is no more than that; beyond it the
unsigned differences of the code no longer tell late from early. `CreatedAtRest`: no callback creates a timer, and none
starts a timer that the application creates, so `OSTmrCreate` never meets a timer in the list, which is the fault at `os_tmr.c:167`
named above. `MCHypotheses` has TLC confirm that the instance of the runs meets both.

The list is seen through `Ends(s)`, the set of its timers with the ticks from the time base to the end of each:
one lemma for each operation says what it does to that set (`AgeIs`, `WithoutIs`, `LinkAtIs`, `FirstIs`), and everything above
them is about sets, never about positions. `ListExact` alone is not inductive: it says nothing of the times once
`drift` is TRUE, and yet the timer task must not oversleep then. `Sound` is what does not break: *no timer ends, by the list,
later than it was started for*, and exactly then as long as there was no drift. The fault at `os_tmr.c:1311` can only make
timers early, which is why `NoOversleep` needs no exception for it. `Unbegun` bounds how old the time base is before the first run. `Timely` says that a call which waited for `OSTmrMutex` has read
a time no older than the time base, without which linking would go wrong around the wrap. `Quiet` is the argument for the
condition variable: a body that does not signal leaves the time base where it is and no end before the first one there was, so the
alarm that the task has set (`Sleeps`) still comes in time; while the task works, the base is what it read last (`Works`).

### SysTimeouts, SysTimeoutsProof: the timers of lwIP

`list` is `next_timeout` in order of time, `Less` is `TIME_LESS_THAN` on a counter of `Wrap` values. `tcpip_thread` looks
at the head (`Overdue`, `Sleeptime`), gives the core lock up and sleeps (`Fetch`), handles a message or a
timeout, and takes expired timers off the list one by one (`Expire`), where a handler is
`CyclicTimer` or `TcpTimer`. The application registers and removes pcbs under the core lock (`AppLock`, `AppDo`), also while
the thread sleeps.

| run | instance | question |
|---|---|---|
| `sys_timeouts` | the timers of this build (TCP, reassembly, ARP) with intervals 1, 3, 3; a counter of 22, a pool of 5, up to 4 ticks late | is a timer lost, doubled, slept over, out of phase, starved |

The intervals of the build are 250, 1000 and 1000 ms. 4 ticks are more than a whole interval, so beats are missed
and `lwip_cyclic_timer` has to catch up. 22 is not a multiple of 3, so the beat is not the tick modulo the interval once the
counter has wrapped; the history variable `phase` counts the ticks since a timer was last queued anew, modulo
its interval. A TCP timer that the application starts while the thread
sleeps does not shorten the sleep: `NoOversleep` states this exception and its
bound. Fairness: the tick interrupt comes, `tcpip_thread` runs when it can (only `ethrx_thread` and interrupts
are more urgent, and they wait for frames), and a call of the API that has the core lock ends.
`Tick` bounds how late the thread may get, for the same reason.

**Proved** (`SysTimeoutsProof`, any timers, intervals, width of the counter, pool and delay that `TimeoutsAssumption`
allows: two intervals and the delay are less than half a turn of the counter, and the pool has an element for every
timer): `NoTimerIsLost`, `NoTimerOverslept`, `BeatIsKept`, that is all three invariants of the run. `Diff` is the
signed distance of two times; `DiffAdds` says when distances add up across the wrap, and from then on the proof is
about integers. The inductive invariant has the list in order of distance from the tick, with every timer in it that
should be (`Ordered`), every timeout within an interval ahead and what `Timely` allows behind (`Bounded`), and
what is expired at `now` expired still (`Serving`, `Handling`): only then is the order by `Less` a
total one and the place that `sys_timeout_abs` finds the right one. The pool never runs out because the list has
different timers (`Room`). The fold of `sys_timeouts_init` is followed timer by timer, again by the least
counterexample. For the beat, a tick moves `phase` and the distance together, and queueing adds a whole turn (`Turn`).

### OsWait: ticks, delays, semaphores, event flags, suspension

The kernel's data `k` has, for every task, the bits of `TaskState`, `SuspendCtr`, `PendOn`, `PendStatus`, `FlagsRdy`
and `TickCtrPrev`; the delta list `OSTickList`; and a semaphore and an event flag group. A wait begins in `SemPend`,
`FlagPend` or `TimeDly`, and is ended by a post, a tick, an abort, a deletion or `OSTimeDlyResume`, whichever
comes first, while `OSTaskSuspend` and `OSTaskResume` nest around it. `Return` is the rest of the
call when the task runs again: `OSFlagPend` consumes the flags only then. Posts and the other calls may come
from interrupts and from a task that is more urgent, so between any two steps.

`OSSemPend` and `OSFlagPend` test `Type` before their critical section: `Ask` is the test, `asked` the calls that have
passed it and have not entered the section (`Enter`). The object may be deleted in between, and the call waits for it all the same. `stale` is
the history of that: the tasks that began to wait for a deleted object. Its next creation initialises the pend list, so that such a task is in
no list (`on` is `"lost"`) and neither a post nor an abort finds it; only a timeout, a deletion of the task or nothing ends its wait. `WaitsExact` allows
this way to wait for an object that is not there and no other. Who is `"lost"` may wait in vain for a count or flags that are there: `NoVainWait` is about the
tasks in a pend list, and says that nobody is out of it for another reason. When the timeout of such a task ends, `OS_PendListRemove` (`os_core.c:1412`) unlinks
a TCB that is in no list with the `HeadPtr` of the new one; what that does to the list is not modelled, and `Tick` has no such step.

| run | instance | question |
|---|---|---|
| `os_wait` | 3 tasks (two wait with and without timeouts, for all and for any flags, set and cleared, consuming; one of them also delays itself, relative and absolute; one delays itself periodically), 3 flags, semaphore up to 1, suspension of one, a counter of 4 (1,668,374 states) | is each task in exactly the lists its state says, does each wait end at its tick, does anyone wait for what is there, is a post lost or given twice |

Three waits at once are enough for a head, a middle and a tail of the delta list, two of them at the same
tick; a counter of 4 wraps within each delay. `Posted` is the sets of flags that `OSFlagPost` is called with, chosen so that every kind of
wait is met and missed. Two behaviours of `os_flag.c` are outside the instance (see the
observations): a suspended task that waits for flags with a timeout (`SuspendAssumption`), with which `WaitsExact`
fails, and a wait for flags that another task consumes in the opposite state, which `NoVainWait` exempts (`Alone`).
`OnTime` speaks of the phase of a periodic delay when the counter wraps after whole periods and the task has no other
period (`Phased`): all of them count from the same `TickCtrPrev`. Other periods end at their tick all the same.

**Proved** (`OsWaitProof`, any number of tasks, any priorities, calls, flags, width of the counter and limits that the
two assumptions of the module allow): `BitsAgree`, `WaitsEndOnTime`, `NobodyWaitsInVain`, `CountKept`, that is all four
invariants of the run. The proof goes in three layers.

1. *The delta list.* `Left(s)` is the set of the pairs of a task in the list and the ticks until its wait is over, the
   sum of `TickRemain` up to it. `InsertIs`, `RemoveIs` and `AgeIs` say what the three operations do to that set: one
   pair more, one pair less, one tick less for everybody. They follow the sums position by position (`RunOf`,
   `UntilAre`), since a fold is no induction the provers can do; where one is needed, the least
   counterexample stands in for it. From here on nothing depends on the order of the list.
2. *The end of waits.* `Woken(r, s, W, why, p)` says that `r` is `s` without the waits of the tasks `W`. `WakeIs`,
   `FlagTaskRdyIs` and `TimeOutIs` give it for one task, `WakeAllIs`, `FlagAllIs` and `TickIs` for the loops of
   `OS_Post`, `OSFlagPost`, the deletions and `OS_TickListUpdate`, for a pend list of any length. `PendListIs` shows
   that the list by priority exists.
3. *The inductive invariant* `Inv`. `WaitsExact` alone is not inductive: what a wait's end does to the
   count depends on who holds a post (`Holders`), and `OnTime` needs that every pair of `Left` ends at
   `due` and is less than a turn of the counter away (`Listed`, `Ending`). `Bits` adds that only tasks in `Suspend`
   are suspended, that a wait with the bit for timeouts had one (with `SuspendAssumption` it keeps `OS_FlagTaskRdy`
   from leaving a task in the tick list), and that `FlagsRdy` is within the flags of the call, so that what
   `Return` consumes can only be missed by a task that waits for the opposite state (`ConsumeIs`, `ConsumeFits`). Every way a
   wait begins is one lemma (`BeginStep`), every way it ends another (`WakingKeeps`). The phase of a periodic
   delay is arithmetic of multiples under `% Wrap` (`TickBaseIs`, `MultiplesWrap`). `Fresh` is what `WaitsExact` and `NoVainWait` say of the
   tasks that are not `stale`: their object exists.

## Findings

Two runs end in a violation; each refutes what a comment or an assertion of the code says.

| run | what the code does |
|---|---|
| `tcpip_freed` | trypost's ERR_MEM for a queued message: element and pbuf are freed twice (`tcpip.c:263`, `ethernetif.c:460`) |
| `os_tmr_early` | after the first timer was stopped the next one may end too early, by the time the first one had run (`os_tmr.c:1311`) |

Observations of the same kind. Some are in the runs, where the properties state them as their exceptions, and some the models
reproduce when they are given the inputs that the runs leave out:

* `os_mutex.c:423`, `os_sem.c:409`, `os_flag.c:434`: `Type` is tested before the critical section, so `OSMutexPend` returns `OS_ERR_NONE` for a mutex that
  was deleted, and `OSSemPend` and `OSFlagPend` wait for an object that was. The next `OSMutexCreate` damages the group of the owner
  (`mode = "damaged"`), the next `OSSemCreate` or `OSFlagCreate` drops the waiter from the pend list (`"lost"`). In this firmware only `sys_arch.c` deletes
  such objects (`sys_mutex_free`, `sys_sem_free`, `sys_mbox_free`); in `os_mutex` and `os_wait` any task may.
* `api_msg.c:331`: a trypost between the two halves of a fetch refuses a pbuf and queues it, so that TCP delivers it a second time, and
  it is freed twice (`doubled`). `tcp_in.c:541`: a FIN that finds `recvmbox` full is lost (`lost`), and `App_EthTask` waits
  for data on a connection that the peer has closed. Both need a peer that sends small segments faster than they are
  read. In `eth_client` they occur.
* `os_tmr.c:1378`: the first sleep of the timer task is too long by the age of the first timer, or for ever (`begun`, `NoOversleep`). In `os_tmr` it occurs.

* `lwip.c:81`: start-up sends a gratuitous ARP without the core lock, and `low_level_output` says ERR_OK although
  the HAL refused. `tx_locked` with `Unlocked = {eth}` violates `OkIsSent`.
* `ethernetif.c:467`: a failed `pbuf_alloc` looks like an empty ring, and the task sleeps although a frame is in it
  until another one comes. `rx_ring` violates `NoFrameStranded`; `OnlyStarvedStrands` says that nothing else does it.
* `os_task.c:2816`: when a waiting task is lowered (its own waiter timed out) and the owner it waits for is more
  urgent, `OS_TaskChangePrio` gives that owner the waiter's priority, below its base priority. `os_mutex` with
  `Waiter = {b, c}`, `Timed = {c}` and no `Loose`, `Moves`, `Deletable` violates `InheritsUpwards` (and the
  assumption of `MCOsMutex`, which excludes just this).
* `app.c:208`: a reset right behind the SYN-ACK clears `conn->pcb.tcp` before the task writes through it.
  `eth_client` violates `KeepaliveHasPcb`.
* `os_mutex.c:1113`: `OS_MutexGrpPostAll` sets `OwnerTCBPtr` to the deleted task.
* `os_flag.c:1283`: `OS_FlagTaskRdy` leaves a suspended waiter with a timeout in the tick list. Without
  `SuspendAssumption`, `OsWait` violates `WaitsExact`.
* `os_flag.c:686`: flags are consumed when the woken task runs, without a look at the pend list: a task that waits for
  the opposite state of a consumed flag is not woken. `NoVainWait` without `Alone` fails with such a pair in
  `MCPends`.

## Summary of checks and proofs

A type invariant that has no line of its own in a cfg is a conjunct of the first structural invariant
(`WireIsClean`, `RingConsistent`, `FlightIsAlive`, `ListsExact`, `StreamIntact`, `ListExact`, `TimersKept`, `WaitsExact`).

| module | checked by TLC | proved for all constants |
|---|---|---|
| `SysArchMbox` | TypeOK, SlotsConserved, NoLostWakeup, AcceptedIsKept, PostNeverDrops, MboxMoves (PosterProgress, QueueDrains), ImplementsMailbox | TypeOK, SlotsConserved, NoLostWakeup, AcceptedIsKept; PostNeverDrops without tryposts; the steps of ImplementsMailbox without tryposts and deletion |
| `EthTx` | OkIsSent, WireIsClean (with FillsOwnBuffer), CallsReturn, ImplementsTxQueue | OkIsSent, WireIsClean and the steps of ImplementsTxQueue, under the core lock |
| `EthRx` | RingConsistent, InOrder, PbufsConserved, OnlyStarvedStrands, RingDrains | RingConsistent, InOrder, PbufsConserved, OnlyStarvedStrands |
| `TcpipInput` | FlightIsAlive, NothingLeaks (with PendingIsQueued), MessageHandled | FlightIsAlive and NothingLeaks until a trypost fails half way; FreedPbufHasRef with a place for every message |
| `OsMutex` | ListsExact (TcbsExact, OwnersExact), ExactInheritance, NoInversion, Granted, UrgentServed | ListsExact, Granted; ExactInheritance and NoInversion where no priority goes down along a chain of owners |
| `EthClient` | OneSignal, PbufsConserved, StreamIntact, FetchWakes, NothingLeft, Recovers | OneSignal, PbufsConserved, StreamIntact, FetchWakes, NothingLeft |
| `OsTmr` | ListExact, NoOversleep | ListExact and NoOversleep, with delays below half a turn of the counter and no timer created while it may run |
| `SysTimeouts` | TimersKept, NoOversleep, InPhase, TimersRun | TimersKept, NoOversleep, InPhase |
| `OsWait` | WaitsExact, OnTime, NoVainWait, PostsConserved | WaitsExact, OnTime, NoVainWait, PostsConserved |

Every theorem rests on the named assumptions on the constants of its module and on the hypotheses its statement
lists, and on nothing else. Liveness under fairness (MboxMoves, CallsReturn, RingDrains, MessageHandled, Recovers, TimersRun,
UrgentServed, and the fairness halves of the two refinements) and anything that mentions ENABLED are checked and
not proved: the prover has no rules for them. Induction over data needs an operator as parameter, which the available
provers cannot instantiate; where a proof needs it (the folds of `EthRx`, `SysTimeouts`, `OsWait`, `OsMutex` and `OsTmr`), the least
counterexample in the naturals stands in for it.

## Plan

Next:

1. **Digits**: `_itoa`, `_uitoa`, `_ftoa` as functions against a reference; the bitmap and
   count-leading-zeros search of `os_prio.c`.

## Not modelled

Vendored protocol code (ARP, IP, UDP, DNS, TCP's own arithmetic, IPv6, PPP, the applications of
lwIP) is the environment: it decides which frames and callbacks come, in any order the
interfaces allow. Start-up and board support run before the kernel and touch registers only. The
display and the statistics are read-only users of kernel data. Memory partitions
are compiled in and unused. `PROJECT.json` lists each of these with its reason.
