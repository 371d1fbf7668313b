------------------------------- MODULE EthTx -------------------------------
(***************************************************************************)
(* The transmit side of the Ethernet driver: low_level_output of           *)
(* Lwip-2.1.2/arch/ethernetif.c, HAL_ETH_TransmitFrame of the HAL and the  *)
(* ring of DMA descriptors they share with the controller.                 *)
(*                                                                         *)
(* A frame is a chain of Parts pbufs, copied one by one into the buffer of *)
(* the descriptor heth.TxDesc; a buffer (ETH_TX_BUF_SIZE) holds the        *)
(* longest frame the stack builds, so a frame takes one descriptor.        *)
(* The stack calls low_level_output with the core lock held, all but       *)
(* LWIP_NETIFInit of User/Src/lwip.c: netif_set_up, called in App_EthTask  *)
(* without the lock, sends a gratuitous ARP.  Unlocked is the set of the   *)
(* tasks that do so.  The receive task shares the core lock and the lock   *)
(* of the HAL handle with the senders.                                     *)
(*                                                                         *)
(* The controller works in store-and-forward mode, so that transmit        *)
(* underflows (and the lines that recover from them) do not occur.         *)
(***************************************************************************)
EXTENDS Integers, Sequences, FiniteSets

CONSTANTS
  Task,        \* tasks that use the driver
  Reader,      \* those that receive (ethernetif_input); the others send
  Prio,        \* [Task -> Nat], the smaller the more urgent
  Unlocked,    \* those that do not take the core lock
  Frame,
  NoFrame,
  NoTask,
  Parts,       \* pbufs of a frame
  N,           \* ETH_TXBUFNB, descriptors of the ring
  MaxIrq       \* bound: receive interrupts of a run

ASSUME TxTaskAssumption ==
  /\ IsFiniteSet(Task) /\ NoTask \notin Task /\ Unlocked \subseteq Task
  /\ Reader \subseteq Task \ Unlocked
  /\ Prio \in [Task -> Nat]
  /\ \A t, u \in Task : Prio[t] = Prio[u] => t = u
ASSUME TxSizeAssumption == N \in Nat \ {0} /\ Parts \in Nat \ {0} /\ MaxIrq \in Nat
ASSUME TxFrameAssumption == NoFrame \notin Frame

VARIABLES
  own,      \* [Desc -> BOOLEAN], the OWN bit: the descriptor is the DMA's
  buf,      \* [Desc -> [1 .. Parts -> frame whose bytes are there]]
  txDesc,   \* heth.TxDesc
  dma,      \* descriptor the controller looks at next
  tbus,     \* the controller found no frame and waits for a poll demand
  halLock,  \* heth.Lock is HAL_LOCKED
  core,     \* owner of the core lock
  semRx,    \* ETH_SemRx.Ctr
  irqs,     \* receive interrupts so far
  pc, frame, part,
  buffer,   \* the descriptor whose buffer low_level_output fills
  desc,     \* the descriptor HAL_ETH_TransmitFrame works on
  told,     \* what low_level_output returned
  wire      \* the frames transmitted, oldest first

ring == <<own, buf, txDesc>>
hw == <<dma, tbus, wire>>
locals == <<pc, frame, part, buffer, desc>>
rxq == <<semRx, irqs>>
vars == <<ring, hw, halLock, core, rxq, locals, told>>

Desc == 0 .. N - 1
Nxt(d) == (d + 1) % N

PC == {"idle", "core_wait", "copy", "hal", "lock", "check", "own", "advance",
       "resume", "unlock", "return"}
Running == PC \ {"idle", "core_wait"}

Init ==
  /\ own = [d \in Desc |-> FALSE]
  /\ buf = [d \in Desc |-> [k \in 1 .. Parts |-> NoFrame]]
  /\ txDesc = 0 /\ dma = 0 /\ tbus = FALSE /\ halLock = FALSE /\ core = NoTask
  /\ semRx = 0 /\ irqs = 0
  /\ pc = [t \in Task |-> "idle"] /\ frame = [t \in Task |-> NoFrame]
  /\ part = [t \in Task |-> 1]
  /\ buffer = [t \in Task |-> 0] /\ desc = [t \in Task |-> 0]
  /\ told = [f \in Frame |-> "none"] /\ wire = << >>

-----------------------------------------------------------------------------
(* Scheduling: a task runs while no more urgent task is inside a call; the    *)
(* owner of the core lock, a kernel mutex, inherits the priority of those     *)
(* that wait for it.                                                          *)
Waiting == {t \in Task : pc[t] = "core_wait"}
First(S) == CHOOSE t \in S : \A u \in S : Prio[t] <= Prio[u]
EffPrio(t) ==
  IF core = t /\ Waiting # {} /\ Prio[First(Waiting)] < Prio[t]
    THEN Prio[First(Waiting)] ELSE Prio[t]
Runs(t) == \A u \in Task \ {t} : pc[u] \in Running => EffPrio(t) < EffPrio(u)

Goto(t, l) == pc' = [pc EXCEPT ![t] = l]
Step(t, l) == pc[t] = l /\ Runs(t)

-----------------------------------------------------------------------------
(* low_level_output, and the core lock of its callers. *)

(* Mutant: the core lock is not asked for. *)
CallNoLock(t, f) ==
  /\ Step(t, "idle")
  /\ told[f] = "none" /\ \A u \in Task : frame[u] # f
  /\ frame' = [frame EXCEPT ![t] = f]
  /\ part' = [part EXCEPT ![t] = 1]
  /\ Goto(t, "copy") /\ buffer' = [buffer EXCEPT ![t] = txDesc]
  /\ UNCHANGED <<ring, hw, halLock, core, rxq, desc, told>>

(* The stack has a frame to send; LOCK_TCPIP_CORE if the caller does so.      *)
Call(t, f) ==
  /\ Step(t, "idle")
  /\ told[f] = "none" /\ \A u \in Task : frame[u] # f
  /\ frame' = [frame EXCEPT ![t] = f]
  /\ part' = [part EXCEPT ![t] = 1]
  /\ IF t \in Unlocked \/ core = NoTask
       THEN /\ Goto(t, "copy")
            /\ buffer' = [buffer EXCEPT ![t] = txDesc]
            /\ core' = IF t \in Unlocked THEN core ELSE t
       ELSE Goto(t, "core_wait") /\ UNCHANGED <<buffer, core>>
  /\ UNCHANGED <<ring, hw, halLock, rxq, desc, told>>

CopyThenTest(t) ==
  /\ Step(t, "copy")
  /\ buf' = [buf EXCEPT ![buffer[t]][part[t]] = frame[t]]
  /\ IF own[buffer[t]]
       THEN /\ Goto(t, "return") /\ told' = [told EXCEPT ![frame[t]] = "use"]
            /\ UNCHANGED part
       ELSE /\ part' = [part EXCEPT ![t] = @ + 1]
            /\ Goto(t, IF part[t] = Parts THEN "hal" ELSE "copy")
            /\ UNCHANGED told
  /\ UNCHANGED <<own, txDesc, hw, halLock, core, frame, buffer, desc, rxq>>

(* The next pbuf of the chain is copied.  A descriptor that is the DMA's ends *)
(* the call with ERR_USE.                                                     *)
Copy(t) ==
  /\ Step(t, "copy")
  /\ IF own[buffer[t]]
       THEN /\ Goto(t, "return") /\ told' = [told EXCEPT ![frame[t]] = "use"]
            /\ UNCHANGED <<buf, part>>
       ELSE /\ buf' = [buf EXCEPT ![buffer[t]][part[t]] = frame[t]]
            /\ part' = [part EXCEPT ![t] = @ + 1]
            /\ Goto(t, IF part[t] = Parts THEN "hal" ELSE "copy")
            /\ UNCHANGED told
  /\ UNCHANGED <<own, txDesc, hw, halLock, core, frame, buffer, desc, rxq>>

(* The verdict is ERR_OK whatever HAL_ETH_TransmitFrame returned.             *)
Ok(t) == told' = IF t \in Reader THEN told ELSE [told EXCEPT ![frame[t]] = "ok"]

(* ethernetif_input wakes up and reads with the core lock held.               *)
Read(t) ==
  /\ Step(t, "idle") /\ semRx > 0
  /\ semRx' = semRx - 1
  /\ IF core = NoTask THEN Goto(t, "hal") /\ core' = t
                      ELSE Goto(t, "core_wait") /\ UNCHANGED core
  /\ UNCHANGED <<ring, hw, halLock, irqs, frame, part, buffer, desc, told>>

(* Where a task goes on when it is given the core lock.                       *)
Entry(t) == IF t \in Reader THEN "hal" ELSE "copy"

(* Mutant: the core lock is left to nobody, although a task waits. *)
ReturnNoHandOver(t) ==
  /\ Step(t, "return")
  /\ frame' = [frame EXCEPT ![t] = NoFrame]
  /\ core' = IF core = t THEN NoTask ELSE core
  /\ Goto(t, "idle")
  /\ UNCHANGED <<ring, hw, halLock, part, buffer, desc, told, rxq>>

(* UNLOCK_TCPIP_CORE hands the lock to the most urgent waiter, which enters   *)
(* low_level_output.                                                          *)
Return(t) ==
  /\ Step(t, "return")
  /\ frame' = [frame EXCEPT ![t] = NoFrame]
  /\ IF core = t /\ Waiting # {}
       THEN LET w == First(Waiting) IN
            /\ core' = w
            /\ pc' = [pc EXCEPT ![t] = "idle", ![w] = Entry(w)]
            /\ buffer' = [buffer EXCEPT ![w] = txDesc]
       ELSE /\ core' = IF core = t THEN NoTask ELSE core
            /\ Goto(t, "idle") /\ UNCHANGED buffer
  /\ UNCHANGED <<ring, hw, halLock, part, desc, told, rxq>>

-----------------------------------------------------------------------------
(* HAL_ETH_TransmitFrame, HAL_ETH_GetReceivedFrame_IT. __HAL_LOCK tests the flag and then sets it.        *)

HalTest(t) ==
  /\ Step(t, "hal")
  /\ IF halLock THEN Goto(t, "return") /\ Ok(t)          \* HAL_BUSY
                ELSE Goto(t, "lock") /\ UNCHANGED told
  /\ UNCHANGED <<ring, hw, halLock, core, frame, part, buffer, desc, rxq>>

HalTake(t) ==
  /\ Step(t, "lock") /\ halLock' = TRUE
  /\ Goto(t, IF t \in Reader THEN "unlock" ELSE "check")
  /\ UNCHANGED <<ring, hw, core, frame, part, buffer, desc, told, rxq>>

Check(t) ==
  /\ Step(t, "check")
  /\ desc' = [desc EXCEPT ![t] = txDesc]
  /\ IF own[txDesc]
       THEN Goto(t, "return") /\ halLock' = FALSE /\ Ok(t)   \* HAL_ERROR
       ELSE Goto(t, "own") /\ UNCHANGED <<halLock, told>>
  /\ UNCHANGED <<ring, hw, core, frame, part, buffer, rxq>>

(* heth->TxDesc is an ordinary field: the compiler may read it again or use   *)
(* the value it has.                                                          *)
SetOwn(t) ==
  /\ Step(t, "own") /\ Goto(t, "advance")
  /\ \E d \in {desc[t], txDesc} :
       own' = [own EXCEPT ![d] = TRUE] /\ desc' = [desc EXCEPT ![t] = d]
  /\ UNCHANGED <<buf, txDesc, hw, halLock, core, frame, part, buffer, told, rxq>>

Advance(t) ==
  /\ Step(t, "advance") /\ Goto(t, "resume")
  /\ \E d \in {desc[t], txDesc} : txDesc' = Nxt(d)
  /\ UNCHANGED <<own, buf, hw, halLock, core, frame, part, buffer, desc, told, rxq>>

(* Mutant: the controller is not told to go on. *)
ResumeNot(t) ==
  /\ Step(t, "resume") /\ Goto(t, "unlock")
  /\ UNCHANGED <<ring, hw, halLock, core, frame, part, buffer, desc, told, rxq>>

(* A controller that ran out of frames (TBUS) is told to poll again.          *)
Resume(t) ==
  /\ Step(t, "resume") /\ Goto(t, "unlock")
  /\ tbus' = FALSE
  /\ UNCHANGED <<ring, dma, wire, halLock, core, frame, part, buffer, desc, told, rxq>>

HalRelease(t) ==
  /\ Step(t, "unlock") /\ Goto(t, "return") /\ halLock' = FALSE /\ Ok(t)
  /\ UNCHANGED <<ring, hw, core, frame, part, buffer, desc, rxq>>

-----------------------------------------------------------------------------
(* The controller and its interrupt. *)

DmaTransmit ==
  /\ ~tbus /\ own[dma]
  /\ wire' = Append(wire, buf[dma])
  /\ own' = [own EXCEPT ![dma] = FALSE] /\ dma' = Nxt(dma)
  /\ UNCHANGED <<buf, txDesc, tbus, halLock, core, locals, told, rxq>>

DmaSuspend ==
  /\ ~tbus /\ ~own[dma] /\ tbus' = TRUE
  /\ UNCHANGED <<ring, dma, wire, halLock, core, locals, told, rxq>>

(* HAL_ETH_IRQHandler at a received frame: it posts ETH_SemRx and unlocks the *)
(* handle, whoever locked it.                                                 *)
Irq ==
  /\ irqs < MaxIrq /\ irqs' = irqs + 1
  /\ semRx' = semRx + 1 /\ halLock' = FALSE
  /\ UNCHANGED <<ring, hw, core, locals, told>>

Go(t) ==
  \/ Copy(t) \/ HalTest(t) \/ HalTake(t) \/ Check(t) \/ SetOwn(t)
  \/ Advance(t) \/ Resume(t) \/ HalRelease(t) \/ Return(t)

Next ==
  \/ \E t \in Task \ Reader, f \in Frame : Call(t, f)
  \/ \E t \in Reader : Read(t)
  \/ \E t \in Task : Go(t)
  \/ DmaTransmit \/ DmaSuspend \/ Irq

Spec == Init /\ [][Next]_vars

(* The processor runs the most urgent task and the controller its ring.       *)
Fairness == WF_vars(DmaTransmit) /\ \A t \in Task : WF_vars(Go(t))
FairSpec == Spec /\ Fairness

-----------------------------------------------------------------------------
(* Correctness. *)

TypeOK ==
  /\ own \in [Desc -> BOOLEAN]
  /\ buf \in [Desc -> [1 .. Parts -> Frame \cup {NoFrame}]]
  /\ txDesc \in Desc /\ dma \in Desc
  /\ tbus \in BOOLEAN /\ halLock \in BOOLEAN
  /\ core \in Task \cup {NoTask} /\ semRx \in Nat /\ irqs \in 0 .. MaxIrq
  /\ pc \in [Task -> PC] /\ frame \in [Task -> Frame \cup {NoFrame}]
  /\ part \in [Task -> 1 .. Parts + 1]
  /\ buffer \in [Task -> Desc] /\ desc \in [Task -> Desc]
  /\ told \in [Frame -> {"none", "ok", "use"}]
  /\ wire \in Seq([1 .. Parts -> Frame \cup {NoFrame}])

Whole(f) == [k \in 1 .. Parts |-> f]

(* low_level_output, "@return ERR_OK if the packet could be sent": a frame    *)
(* reported as sent is on the wire or in a descriptor of the controller, all  *)
(* of it, exactly once.                                                       *)
OkIsSent ==
  \A f \in Frame : told[f] = "ok" =>
    Cardinality({i \in 1 .. Len(wire) : wire[i] = Whole(f)})
      + Cardinality({d \in Desc : own[d] /\ buf[d] = Whole(f)}) = 1

(* Whatever goes out is one frame: no buffer mixes two, or is sent again.     *)
(* ERR_USE means that no byte of the frame goes out, so that the caller may   *)
(* send it again.                                                             *)
Clean ==
  /\ \A i \in 1 .. Len(wire) : \E f \in Frame : wire[i] = Whole(f) /\ told[f] # "use"
  /\ \A i, j \in 1 .. Len(wire) : wire[i] = wire[j] => i = j

(* The buffer that a sender fills is not the controller's, up to the moment   *)
(* it is handed over.                                                         *)
FillsOwnBuffer ==
  \A t \in Task :
    t \notin Reader /\ pc[t] \in {"hal", "lock", "check", "own"} => ~own[buffer[t]]

WireIsClean == TypeOK /\ Clean /\ FillsOwnBuffer

(* Every call of low_level_output returns, whoever interrupts it.             *)
CallsReturn == \A t \in Task : pc[t] # "idle" ~> pc[t] = "idle"

(* With the core lock around every call the ring is a bounded queue to the    *)
(* wire.                                                                      *)
Handed == Cardinality({d \in Desc : own[d]})
queue == [i \in 1 .. Handed |-> buf[(dma + i - 1) % N][1]]
sent == [i \in 1 .. Len(wire) |-> wire[i][1]]

Abs == INSTANCE TxQueue WITH queue <- queue, wire <- sent, Capacity <- N
ImplementsTxQueue == Abs!AbsSpec
=============================================================================
