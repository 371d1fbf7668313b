------------------------------- MODULE EthRx -------------------------------
(***************************************************************************)
(* The receive side of the Ethernet driver: the DMA controller and its     *)
(* ring, the interrupt handler (HAL_ETH_IRQHandler and the callback that   *)
(* posts ETH_SemRx), the receive task ethernetif_input with                *)
(* low_level_input and HAL_ETH_GetReceivedFrame_IT, and the pool of pbufs. *)
(*                                                                         *)
(* Frames are numbered in the order in which they arrive.  A frame of the  *)
(* network fits in one descriptor (ETH_RX_BUF_SIZE is the longest packet), *)
(* and in the chain of Need[f] pbufs that pbuf_alloc makes for it.         *)
(* The core lock only delays the task between two frames, which            *)
(* interleaving covers; the lock of the HAL handle is in EthTx.            *)
(***************************************************************************)
EXTENDS Integers, Sequences, FiniteSets, FiniteSetsExt

CONSTANTS
  MaxFrame,   \* bound: frames that arrive
  N,          \* ETH_RXBUFNB, descriptors of the ring
  FifoSize,   \* frames the FIFO of the controller holds
  Pool,       \* PBUF_POOL_SIZE
  Need        \* [1 .. MaxFrame -> pbufs the frame takes]

Frame == 1 .. MaxFrame
NoFrame == 0

ASSUME RxAssumption ==
  /\ MaxFrame \in Nat /\ N \in Nat \ {0} /\ FifoSize \in Nat \ {0}
  /\ Pool \in Nat /\ Need \in [Frame -> Nat \ {0}]

VARIABLES
  arrived,    \* frames that arrived so far
  fifo,       \* frames in the controller, oldest first
  own,        \* [Desc -> BOOLEAN], the descriptor is the controller's
  buf,        \* [Desc -> frame in its buffer]
  dma,        \* descriptor the controller fills next
  rbus,       \* the controller found no descriptor and is suspended
  r,          \* DMASR.R, frame received
  nis,        \* DMASR.NIS, the interrupt request
  irq,        \* where the interrupt handler is
  semRx,      \* ETH_SemRx.Ctr
  rxDesc,     \* heth.RxDesc
  pc,         \* where ethernetif_input is
  fsDesc,     \* RxFrameInfos.FSRxDesc
  p,          \* the frame the task has a pbuf chain for
  data,       \* the bytes in that chain
  starved,    \* auxiliary: the loop last ended at a pbuf_alloc that failed
  free,       \* free pbufs of the pool
  held,       \* frames the stack has, with their pbufs
  input       \* the frames given to netif->input, in order

ctrl == <<arrived, fifo, dma, rbus>>
status == <<r, nis>>
ring == <<own, buf>>
task == <<rxDesc, pc, fsDesc, p, data, starved>>
pool == <<free, held>>
vars == <<ctrl, status, irq, ring, semRx, task, pool, input>>

Desc == 0 .. N - 1
Nxt(d) == (d + 1) % N

Init ==
  /\ arrived = 0 /\ fifo = << >>
  /\ own = [d \in Desc |-> TRUE] /\ buf = [d \in Desc |-> NoFrame]
  /\ dma = 0 /\ rbus = FALSE /\ r = FALSE /\ nis = FALSE
  /\ irq = "out" /\ semRx = 0
  /\ rxDesc = 0 /\ pc = "pend" /\ fsDesc = 0
  /\ p = NoFrame /\ data = NoFrame /\ starved = FALSE
  /\ free = Pool /\ held = {} /\ input = << >>

-----------------------------------------------------------------------------
(* The controller. *)

(* A frame that finds the FIFO full is missed; any other wakes up a suspended *)
(* receive process, which looks at its descriptor again.                      *)
Arrive ==
  /\ arrived < MaxFrame /\ arrived' = arrived + 1
  /\ IF Len(fifo) < FifoSize
       THEN fifo' = Append(fifo, arrived') /\ rbus' = FALSE
       ELSE UNCHANGED <<fifo, rbus>>
  /\ UNCHANGED <<dma, status, irq, ring, semRx, task, pool, input>>

DmaReceive ==
  /\ fifo # << >> /\ ~rbus /\ own[dma]
  /\ buf' = [buf EXCEPT ![dma] = Head(fifo)] /\ fifo' = Tail(fifo)
  /\ own' = [own EXCEPT ![dma] = FALSE] /\ dma' = Nxt(dma)
  /\ r' = TRUE /\ nis' = TRUE
  /\ UNCHANGED <<arrived, rbus, irq, semRx, task, pool, input>>

DmaSuspend ==
  /\ fifo # << >> /\ ~rbus /\ ~own[dma] /\ rbus' = TRUE
  /\ UNCHANGED <<arrived, fifo, dma, status, irq, ring, semRx, task, pool, input>>

-----------------------------------------------------------------------------
(* HAL_ETH_IRQHandler.  It posts, then clears R, then clears NIS; a frame     *)
(* received in between asks for no interrupt of its own.                      *)

(* Mutant: the flag is cleared by a handler that does not post.               *)
EnterNoPost ==
  /\ nis /\ irq = "out" /\ irq' = IF r THEN "clear_r" ELSE "clear_nis"
  /\ UNCHANGED <<ctrl, status, ring, semRx, task, pool, input>>

Enter ==
  /\ nis /\ irq = "out"
  /\ IF r THEN semRx' = semRx + 1 /\ irq' = "clear_r"
          ELSE irq' = "clear_nis" /\ UNCHANGED semRx
  /\ UNCHANGED <<ctrl, status, ring, task, pool, input>>

ClearR ==
  /\ irq = "clear_r" /\ r' = FALSE /\ irq' = "clear_nis"
  /\ UNCHANGED <<ctrl, nis, ring, semRx, task, pool, input>>

ClearNis ==
  /\ irq = "clear_nis" /\ nis' = FALSE /\ irq' = "out"
  /\ UNCHANGED <<ctrl, r, ring, semRx, task, pool, input>>

-----------------------------------------------------------------------------
(* ethernetif_input; no task runs inside the interrupt handler. *)

Step(l) == pc = l /\ irq = "out"

Pend ==
  /\ Step("pend") /\ semRx > 0 /\ semRx' = semRx - 1 /\ pc' = "get"
  /\ starved' = FALSE
  /\ UNCHANGED <<ctrl, status, irq, ring, rxDesc, fsDesc, p, data, pool, input>>

(* Mutant: a scan that starts at the first descriptor again. *)
GetFrameFirst ==
  /\ Step("get")
  /\ IF \E d \in Desc : ~own[d]
       THEN /\ pc' = "alloc"
            /\ fsDesc' = CHOOSE d \in Desc : ~own[d] /\ \A e \in 0 .. d - 1 : own[e]
            /\ rxDesc' = Nxt(fsDesc')
       ELSE pc' = "pend" /\ UNCHANGED <<rxDesc, fsDesc>>
  /\ UNCHANGED <<starved, ctrl, status, irq, ring, semRx, p, data, pool, input>>

(* HAL_ETH_GetReceivedFrame_IT; no frame ends the loop.                       *)
GetFrame ==
  /\ Step("get")
  /\ IF own[rxDesc]
       THEN pc' = "pend" /\ UNCHANGED <<rxDesc, fsDesc>>
       ELSE pc' = "alloc" /\ fsDesc' = rxDesc /\ rxDesc' = Nxt(rxDesc)
  /\ UNCHANGED <<starved, ctrl, status, irq, ring, semRx, p, data, pool, input>>

(* Mutant: the descriptor is back with the controller before it is read. *)
AllocRelease ==
  /\ Step("alloc")
  /\ IF Need[buf[fsDesc]] <= free
       THEN /\ free' = free - Need[buf[fsDesc]] /\ p' = buf[fsDesc] /\ pc' = "copy"
            /\ UNCHANGED starved
            /\ own' = [own EXCEPT ![fsDesc] = TRUE]
       ELSE /\ pc' = "release" /\ starved' = TRUE /\ UNCHANGED <<free, p, own>>
  /\ UNCHANGED <<ctrl, status, irq, buf, semRx, rxDesc, fsDesc, data, held, input>>

(* pbuf_alloc gives the whole chain or nothing.  The frame is buf[fsDesc].    *)
Alloc ==
  /\ Step("alloc")
  /\ IF Need[buf[fsDesc]] <= free
       THEN /\ free' = free - Need[buf[fsDesc]] /\ p' = buf[fsDesc] /\ pc' = "copy"
            /\ UNCHANGED starved
       ELSE /\ pc' = "release" /\ starved' = TRUE /\ UNCHANGED <<free, p>>
  /\ UNCHANGED <<ctrl, status, irq, ring, semRx, rxDesc, fsDesc, data, held, input>>

Copy ==
  /\ Step("copy") /\ data' = buf[fsDesc] /\ pc' = "release"
  /\ UNCHANGED <<starved, ctrl, status, irq, ring, semRx, rxDesc, fsDesc, p, pool, input>>

Release ==
  /\ Step("release") /\ own' = [own EXCEPT ![fsDesc] = TRUE] /\ pc' = "resume"
  /\ UNCHANGED <<starved, ctrl, status, irq, buf, semRx, rxDesc, fsDesc, p, data, pool, input>>

(* Mutant: the loop goes on to another frame only after the next interrupt.   *)
InputOnce ==
  /\ Step("input") /\ pc' = "pend"
  /\ held' = held \cup {p} /\ input' = Append(input, data)
  /\ p' = NoFrame /\ data' = NoFrame
  /\ UNCHANGED <<starved, ctrl, status, irq, ring, semRx, rxDesc, fsDesc, free>>

(* A suspended receive process is told to poll again.  Without a pbuf         *)
(* low_level_input returns NULL, as without a frame, and the loop ends.       *)
Resume ==
  /\ Step("resume") /\ rbus' = FALSE
  /\ pc' = IF p = NoFrame THEN "pend" ELSE "input"
  /\ UNCHANGED <<starved, arrived, fifo, dma, status, irq, ring, semRx,
                 rxDesc, fsDesc, p, data, pool, input>>

(* netif->input takes the chain.                                              *)
Input ==
  /\ Step("input") /\ pc' = "get"
  /\ held' = held \cup {p} /\ input' = Append(input, data)
  /\ p' = NoFrame /\ data' = NoFrame
  /\ UNCHANGED <<starved, ctrl, status, irq, ring, semRx, rxDesc, fsDesc, free>>

(* Mutant: the stack goes on using the chain of a frame it refused.           *)
InputRefusedHeld ==
  /\ Step("input") /\ pc' = "get"
  /\ free' = free + Need[p] /\ held' = held \cup {p}
  /\ p' = NoFrame /\ data' = NoFrame
  /\ UNCHANGED <<starved, ctrl, status, irq, ring, semRx, rxDesc, fsDesc, input>>

(* netif->input refuses (tcpip_input: ERR_MEM) and the chain is freed.        *)
InputRefused ==
  /\ Step("input") /\ pc' = "get"
  /\ free' = free + Need[p]
  /\ p' = NoFrame /\ data' = NoFrame
  /\ UNCHANGED <<starved, ctrl, status, irq, ring, semRx, rxDesc, fsDesc, held, input>>

(* The stack or the application is done with a frame: pbuf_free.              *)
StackFree ==
  /\ irq = "out"
  /\ \E f \in held : held' = held \ {f} /\ free' = free + Need[f]
  /\ UNCHANGED <<ctrl, status, irq, ring, semRx, task, input>>

Irq == Enter \/ ClearR \/ ClearNis
Task ==
  \/ Pend \/ GetFrame \/ Alloc \/ Copy \/ Release \/ Resume
  \/ Input \/ InputRefused
Next == Arrive \/ DmaReceive \/ DmaSuspend \/ Irq \/ Task \/ StackFree

Spec == Init /\ [][Next]_vars

(* The controller, the interrupt and the most urgent task of the system run.  *)
Fairness == WF_vars(DmaReceive \/ DmaSuspend) /\ WF_vars(Irq) /\ WF_vars(Task)
FairSpec == Spec /\ Fairness

-----------------------------------------------------------------------------
(* Correctness. *)

TypeOK ==
  /\ arrived \in 0 .. MaxFrame /\ fifo \in Seq(Frame)
  /\ own \in [Desc -> BOOLEAN] /\ buf \in [Desc -> Frame \cup {NoFrame}]
  /\ dma \in Desc /\ rxDesc \in Desc /\ fsDesc \in Desc
  /\ rbus \in BOOLEAN /\ r \in BOOLEAN /\ nis \in BOOLEAN
  /\ irq \in {"out", "clear_r", "clear_nis"} /\ semRx \in Nat
  /\ pc \in {"pend", "get", "alloc", "copy", "release", "resume", "input"}
  /\ starved \in BOOLEAN /\ p \in Frame \cup {NoFrame} /\ data \in Frame \cup {NoFrame}
  /\ free \in 0 .. Pool /\ held \subseteq Frame /\ input \in Seq(Frame)

(* The descriptors the task has not given back are the ones from the oldest   *)
(* unread frame to the controller's position, in the order of arrival: the    *)
(* two sides of the ring never get out of step.                               *)
InRing == {d \in Desc : ~own[d]}
Oldest == IF pc \in {"alloc", "copy", "release"} THEN fsDesc ELSE rxDesc
RingConsistent ==
  LET k == Cardinality(InRing) IN
  /\ TypeOK
  /\ \A i \in 0 .. N - 1 : (Oldest + i) % N \in InRing <=> i < k
  /\ (Oldest + k) % N = dma
  /\ \A i \in 1 .. k - 1 : buf[(Oldest + i - 1) % N] < buf[(Oldest + i) % N]

(* Frames reach the stack in the order of arrival, none twice, each with its  *)
(* own bytes, although the controller fills the ring behind the task.         *)
InOrder ==
  /\ \A i \in 1 .. Len(input) - 1 : input[i] < input[i + 1]
  /\ pc = "input" => data = p

(* No pbuf is lost or freed twice: the free ones, those of the frame in hand  *)
(* and those of the stack are the pool.                                       *)
PbufsConserved ==
  free + (IF p = NoFrame THEN 0 ELSE Need[p])
    + MapThenSumSet(LAMBDA f : Need[f], held) = Pool

(* ethernetif.c:104 on ETH_SemRx, "notifies the stack that a new frame was    *)
(* received": the task does not sleep on frames.  Whatever interrupts were    *)
(* merged, when nothing is under way the ring is the controller's.            *)
AtRest == pc = "pend" /\ semRx = 0 /\ irq = "out" /\ ~nis
NoFrameStranded == AtRest => InRing = {}

(* Merged interrupts never strand a frame: the task sleeps on one only if the *)
(* loop it left last was cut short by a pbuf_alloc that failed.               *)
OnlyStarvedStrands == AtRest /\ ~starved => InRing = {}

(* Unless the pool runs out, a frame in the ring is taken out of it, and one  *)
(* in the FIFO gets there.                                                    *)
RingDrains ==
  /\ \A d \in Desc : ~own[d] ~> own[d] \/ starved
  /\ fifo # << >> ~> fifo = << >> \/ starved
=============================================================================
