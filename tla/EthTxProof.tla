----------------------------- MODULE EthTxProof -----------------------------
(***************************************************************************)
(* Proofs about the transmit side of the driver: with the core lock around *)
(* every call (Unlocked = {}), any number of tasks, frames, descriptors    *)
(* and pbufs.                                                              *)
(***************************************************************************)
EXTENDS EthTx, FiniteSetTheorems, SequenceTheorems, WellFoundedInduction, TLAPS

(* A nonempty set of naturals has a least element. *)
LEMMA NatMin ==
  ASSUME NEW S, S \subseteq Nat, S # {}
  PROVE  \E m \in S : \A n \in S : m <= n
<1> DEFINE R == {ss \in Nat \X Nat : ss[1] < ss[2]}
<1>1. IsWellFoundedOn(R, Nat)
  BY NatLessThanWellFounded DEF OpToRel
<1>2. PICK m \in S : \A n \in S : ~(<<n, m>> \in R)
  BY <1>1, WFMin
<1>3. ASSUME NEW n \in S PROVE m <= n
  <2>1. m \in Nat /\ n \in Nat
    OBVIOUS
  <2>2. ~(n < m)
    BY <1>2, <2>1
  <2> QED BY <2>1, <2>2
<1> QED BY <1>3

(* The core lock is handed to one of the tasks that wait for it. *)
LEMMA FirstWaits == Waiting # {} => First(Waiting) \in Task /\ pc[First(Waiting)] = "core_wait"
<1> SUFFICES ASSUME Waiting # {} PROVE First(Waiting) \in Waiting
  BY DEF Waiting
<1> DEFINE P == {Prio[t] : t \in Waiting}
<1>1. P \subseteq Nat /\ P # {}
  BY TxTaskAssumption DEF Waiting
<1>2. PICK m \in P : \A n \in P : m <= n
  BY <1>1, NatMin
<1>3. PICK t \in Waiting : Prio[t] = m
  BY <1>2
<1>4. \A u \in Waiting : Prio[t] <= Prio[u]
  BY <1>2, <1>3
<1> QED BY <1>3, <1>4 DEF First

(* The ring wraps once at most in what the code adds to an index. *)
Wrap(b, i) == (b + i) % N

LEMMA WrapIs ==
  \A b \in Desc, i \in 0 .. N : /\ Wrap(b, i) = IF b + i < N THEN b + i ELSE b + i - N
                                /\ Wrap(b, i) \in Desc
<1> SUFFICES ASSUME NEW b \in Desc, NEW i \in 0 .. N
             PROVE  /\ Wrap(b, i) = IF b + i < N THEN b + i ELSE b + i - N
                    /\ Wrap(b, i) \in Desc
  OBVIOUS
<1>1. PICK a : a = b + i
  OBVIOUS
<1>2. N \in Nat \ {0} /\ a \in Int /\ 0 <= a /\ a < N + N
  BY <1>1, TxSizeAssumption DEF Desc
<1>3. CASE a < N
  BY <1>1, <1>2, <1>3 DEF Wrap, Desc
<1>4. CASE ~(a < N)
  <2>1. a % N = a - N
    BY <1>2, <1>4
  <2> QED BY <1>1, <1>2, <1>4, <2>1 DEF Wrap, Desc
<1> QED BY <1>3, <1>4

LEMMA NxtIs == \A d \in Desc : /\ Nxt(d) = IF d + 1 < N THEN d + 1 ELSE 0
                               /\ Nxt(d) \in Desc
<1> SUFFICES ASSUME NEW d \in Desc PROVE Nxt(d) \in Desc /\ Nxt(d) = IF d + 1 < N THEN d + 1 ELSE 0
  OBVIOUS
<1>1. N \in Nat \ {0} /\ d \in 0 .. N - 1 /\ 1 \in 0 .. N
  BY TxSizeAssumption DEF Desc
<1>2. Nxt(d) = Wrap(d, 1)
  BY DEF Nxt, Wrap
<1> QED BY <1>1, <1>2, WrapIs

-----------------------------------------------------------------------------
(* Types, and how far a task has got. *)

Sender == Task \ Reader

Local ==
  /\ \A t \in Reader : pc[t] \in {"idle", "core_wait", "hal", "lock", "unlock", "return"}
  /\ \A t \in Sender : /\ pc[t] = "core_wait" => part[t] = 1
                       /\ pc[t] = "copy" => part[t] \in 1 .. Parts
  /\ \A t \in Task : frame[t] = NoFrame <=> t \in Reader \/ pc[t] = "idle"

LEMMA Labels ==
  {"idle", "core_wait", "copy", "hal", "lock", "check", "own", "advance",
   "resume", "unlock", "return"} \subseteq PC
BY DEF PC

LEMMA InitLocal == Init => TypeOK /\ Local
<1> SUFFICES ASSUME Init PROVE TypeOK /\ Local
  OBVIOUS
<1>1. 0 \in Desc /\ N \in Nat \ {0} /\ Parts \in Nat \ {0} /\ 1 \in 1 .. Parts + 1 /\ 0 \in 0 .. MaxIrq
  BY TxSizeAssumption DEF Desc
<1>2. Reader \subseteq Task
  BY TxTaskAssumption
<1>3. TypeOK
  <2>1. wire \in Seq([1 .. Parts -> Frame \cup {NoFrame}])
    BY DEF Init
  <2>2. /\ own \in [Desc -> BOOLEAN] /\ told \in [Frame -> {"none", "ok", "use"}]
        /\ buf \in [Desc -> [1 .. Parts -> Frame \cup {NoFrame}]]
    BY DEF Init
  <2>3. part \in [Task -> 1 .. Parts + 1] /\ pc \in [Task -> PC]
    BY <1>1, Labels DEF Init
  <2> QED BY <1>1, <2>1, <2>2, <2>3 DEF Init, TypeOK
<1> QED BY <1>2, <1>3 DEF Init, Local, Sender

LEMMA StepTypeOK == TypeOK /\ Local /\ [Next]_vars => TypeOK'
<1> SUFFICES ASSUME TypeOK, Local, [Next]_vars PROVE TypeOK'
  OBVIOUS
<1> USE Labels DEF TypeOK, Step, Goto
<1>0. /\ Reader \subseteq Task /\ 1 \in 1 .. Parts + 1 /\ \A d \in Desc : Nxt(d) \in Desc
      /\ \A k \in 1 .. Parts : k \in 1 .. Parts + 1 /\ k + 1 \in 1 .. Parts + 1
  BY TxTaskAssumption, TxSizeAssumption, NxtIs
<1>1. ASSUME NEW t \in Task \ Reader, NEW f \in Frame, Call(t, f) PROVE TypeOK'
  <2>1. CASE t \in Unlocked \/ core = NoTask
    BY <1>0, <1>1, <2>1 DEF Call, ring, hw, rxq
  <2>2. CASE ~(t \in Unlocked \/ core = NoTask)
    BY <1>0, <1>1, <2>2 DEF Call, ring, hw, rxq
  <2> QED BY <2>1, <2>2
<1>2. ASSUME NEW t \in Reader, Read(t) PROVE TypeOK'
  <2>1. t \in Task /\ semRx' \in Nat
    BY <1>0, <1>2 DEF Read
  <2>2. pc' \in [Task -> PC] /\ core' \in Task \cup {NoTask}
    BY <1>2, <2>1 DEF Read
  <2> QED BY <1>2, <2>1, <2>2 DEF Read, ring, hw
<1>3. ASSUME NEW t \in Task, Copy(t) PROVE TypeOK'
  <2>0. frame[t] \in Frame \cup {NoFrame} /\ part[t] \in 1 .. Parts /\ buffer[t] \in Desc
    BY <1>0, <1>3 DEF Copy, Local, Sender
  <2>1. CASE own[buffer[t]]
    <3>1. told' \in [Frame -> {"none", "ok", "use"}]
      BY <1>3, <2>1 DEF Copy
    <3> QED BY <1>3, <2>1, <3>1 DEF Copy, hw, rxq
  <2>2. CASE ~own[buffer[t]]
    <3>1. buf' \in [Desc -> [1 .. Parts -> Frame \cup {NoFrame}]]
      <4> DEFINE bytes == [buf[buffer[t]] EXCEPT ![part[t]] = frame[t]]
      <4>1. bytes \in [1 .. Parts -> Frame \cup {NoFrame}]
        BY <2>0
      <4>2. buf' = [buf EXCEPT ![buffer[t]] = bytes]
        BY <1>3, <2>2 DEF Copy
      <4> QED BY <2>0, <4>1, <4>2
    <3>2. part' \in [Task -> 1 .. Parts + 1]
      BY <1>0, <1>3, <2>0, <2>2 DEF Copy
    <3>3. pc' \in [Task -> PC]
      BY <1>3, <2>2 DEF Copy
    <3> QED BY <1>3, <2>2, <3>1, <3>2, <3>3 DEF Copy, hw, rxq
  <2> QED BY <2>1, <2>2
<1>4. ASSUME NEW t \in Task, HalTest(t) PROVE TypeOK'
  BY <1>4 DEF HalTest, Ok, ring, hw, rxq
<1>5. ASSUME NEW t \in Task, HalTake(t) PROVE TypeOK'
  BY <1>5 DEF HalTake, ring, hw, rxq
<1>6. ASSUME NEW t \in Task, Check(t) PROVE TypeOK'
  BY <1>6 DEF Check, Ok, ring, hw, rxq
<1>7. ASSUME NEW t \in Task, SetOwn(t) PROVE TypeOK'
  BY <1>7 DEF SetOwn, hw, rxq
<1>8. ASSUME NEW t \in Task, Advance(t) PROVE TypeOK'
  BY <1>0, <1>8 DEF Advance, hw, rxq
<1>9. ASSUME NEW t \in Task, Resume(t) PROVE TypeOK'
  BY <1>9 DEF Resume, ring, rxq
<1>10. ASSUME NEW t \in Task, HalRelease(t) PROVE TypeOK'
  BY <1>10 DEF HalRelease, Ok, ring, hw, rxq
<1>11. ASSUME NEW t \in Task, Return(t) PROVE TypeOK'
  <2>1. CASE core = t /\ Waiting # {}
    <3>1. PICK w \in Task : /\ core' = w
                            /\ pc' = [pc EXCEPT ![t] = "idle", ![w] = Entry(w)]
                            /\ buffer' = [buffer EXCEPT ![w] = txDesc]
      BY <1>11, <2>1, FirstWaits DEF Return
    <3>2. pc' \in [Task -> PC]
      BY <3>1 DEF Entry
    <3> QED BY <1>11, <3>1, <3>2 DEF Return, ring, hw, rxq
  <2>2. CASE ~(core = t /\ Waiting # {})
    BY <1>11, <2>2 DEF Return, ring, hw, rxq
  <2> QED BY <2>1, <2>2
<1>12. CASE DmaTransmit
  <2>1. buf[dma] \in [1 .. Parts -> Frame \cup {NoFrame}]
    OBVIOUS
  <2>2. wire' \in Seq([1 .. Parts -> Frame \cup {NoFrame}])
    BY <1>12, <2>1 DEF DmaTransmit
  <2> QED BY <1>0, <1>12, <2>2 DEF DmaTransmit, locals, rxq
<1>13. CASE DmaSuspend
  BY <1>13 DEF DmaSuspend, ring, locals, rxq
<1>14. CASE Irq
  <2>1. irqs' \in 0 .. MaxIrq /\ semRx' \in Nat
    BY <1>14, TxSizeAssumption DEF Irq
  <2> QED BY <1>14, <2>1 DEF Irq, ring, hw, locals
<1>15. CASE UNCHANGED vars
  BY <1>15 DEF vars, ring, hw, locals, rxq
<1> QED
  BY <1>1, <1>2, <1>3, <1>4, <1>5, <1>6, <1>7, <1>8, <1>9, <1>10, <1>11, <1>12, <1>13,
     <1>14, <1>15 DEF Next, Go

LEMMA StepLocal == TypeOK /\ Local /\ [Next]_vars => Local'
<1> SUFFICES ASSUME TypeOK, Local, [Next]_vars PROVE Local'
  OBVIOUS
<1> USE DEF Local, Step, Goto, Sender
<1>0. /\ pc \in [Task -> PC] /\ frame \in [Task -> Frame \cup {NoFrame}]
      /\ part \in [Task -> 1 .. Parts + 1]
      /\ Reader \subseteq Task /\ Parts \in Nat \ {0} /\ NoFrame \notin Frame
  BY TxTaskAssumption, TxSizeAssumption, TxFrameAssumption DEF TypeOK
<1>1. ASSUME NEW t \in Task \ Reader, NEW f \in Frame, Call(t, f) PROVE Local'
  BY <1>0, <1>1 DEF Call
<1>2. ASSUME NEW t \in Reader, Read(t) PROVE Local'
  BY <1>0, <1>2 DEF Read
<1>3. ASSUME NEW t \in Task, Copy(t) PROVE Local'
  BY <1>0, <1>3 DEF Copy
<1>4. ASSUME NEW t \in Task, HalTest(t) \/ HalTake(t) \/ Check(t) \/ SetOwn(t)
                             \/ Advance(t) \/ Resume(t) \/ HalRelease(t)
      PROVE Local'
  BY <1>0, <1>4 DEF HalTest, HalTake, Check, SetOwn, Advance, Resume, HalRelease
<1>5. ASSUME NEW t \in Task, Return(t) PROVE Local'
  <2>1. CASE core = t /\ Waiting # {}
    <3>1. PICK w \in Task : /\ pc[w] = "core_wait"
                            /\ pc' = [pc EXCEPT ![t] = "idle", ![w] = Entry(w)]
      BY <1>5, <2>1, FirstWaits DEF Return
    <3> QED BY <1>0, <1>5, <3>1 DEF Return, Entry
  <2>2. CASE ~(core = t /\ Waiting # {})
    BY <1>0, <1>5, <2>2 DEF Return
  <2> QED BY <2>1, <2>2
<1>6. CASE DmaTransmit \/ DmaSuspend \/ Irq \/ UNCHANGED vars
  BY <1>6 DEF DmaTransmit, DmaSuspend, Irq, vars, locals
<1> QED BY <1>1, <1>2, <1>3, <1>4, <1>5, <1>6 DEF Next, Go

-----------------------------------------------------------------------------
(* The core lock: its owner is the one task inside the driver, so that the    *)
(* lock of the HAL handle, which the interrupt undoes, is never contended.    *)
Locked ==
  /\ \A t \in Task : pc[t] \in Running <=> core = t
  /\ halLock => /\ core \in Task
                /\ pc[core] \in {"check", "own", "advance", "resume", "unlock"}

LEMMA StepLocked ==
  ASSUME Unlocked = {}, TypeOK, Local, Locked, [Next]_vars
  PROVE  Locked'
<1> USE DEF Locked, Step, Goto
<1>0. /\ pc \in [Task -> PC] /\ Reader \subseteq Task /\ NoTask \notin Task
      /\ core \in Task \cup {NoTask}
      /\ Running = {"copy", "hal", "lock", "check", "own", "advance", "resume", "unlock", "return"}
  BY TxTaskAssumption DEF TypeOK, Running, PC
<1>a. \A t \in Reader : pc[t] \in {"idle", "core_wait", "hal", "lock", "unlock", "return"}
  BY DEF Local
<1>1. ASSUME NEW t \in Task \ Reader, NEW f \in Frame, Call(t, f) PROVE Locked'
  BY <1>0, <1>1 DEF Call
<1>2. ASSUME NEW t \in Reader, Read(t) PROVE Locked'
  BY <1>0, <1>2 DEF Read
<1>3. ASSUME NEW t \in Task, Copy(t) \/ HalTest(t) PROVE Locked'
  BY <1>0, <1>3 DEF Copy, HalTest
<1>4. ASSUME NEW t \in Task, HalTake(t) \/ SetOwn(t) \/ Advance(t) \/ Resume(t)
      PROVE Locked'
  BY <1>0, <1>4 DEF HalTake, SetOwn, Advance, Resume
<1>5. ASSUME NEW t \in Task, Check(t) \/ HalRelease(t) PROVE Locked'
  BY <1>0, <1>5 DEF Check, HalRelease
<1>6. ASSUME NEW t \in Task, Return(t) PROVE Locked'
  <2>1. CASE Waiting # {}
    <3>1. PICK w \in Task : /\ pc[w] = "core_wait" /\ core' = w
                            /\ pc' = [pc EXCEPT ![t] = "idle", ![w] = Entry(w)]
      BY <1>0, <1>6, <2>1, FirstWaits DEF Return
    <3>2. Entry(w) \in {"hal", "copy"}
      BY DEF Entry
    <3> QED BY <1>0, <1>6, <3>1, <3>2 DEF Return
  <2>2. CASE Waiting = {}
    BY <1>0, <1>6, <2>2 DEF Return
  <2> QED BY <2>1, <2>2
<1>7. CASE DmaTransmit \/ DmaSuspend \/ Irq \/ UNCHANGED vars
  BY <1>7 DEF DmaTransmit, DmaSuspend, Irq, vars, locals
<1> QED BY <1>1, <1>2, <1>3, <1>4, <1>5, <1>6, <1>7 DEF Next, Go

LEMMA OneInside ==
  ASSUME TypeOK, Locked, NEW t \in Task, pc[t] \in Running, NEW u \in Task, u # t
  PROVE  pc[u] \in {"idle", "core_wait"}
BY TxTaskAssumption DEF Locked, TypeOK, Running

-----------------------------------------------------------------------------
(* What the senders carry. *)

Carry ==
  /\ \A t, u \in Task : frame[t] = frame[u] /\ frame[t] # NoFrame => t = u
  /\ \A t \in Sender : pc[t] \notin {"idle", "return"} => told[frame[t]] = "none"

LEMMA StepCarry == TypeOK /\ Local /\ Carry /\ [Next]_vars => Carry'
<1> SUFFICES ASSUME TypeOK, Local, Carry, [Next]_vars PROVE Carry'
  OBVIOUS
<1> USE DEF Carry, Step, Goto, Sender
<1>0. /\ pc \in [Task -> PC] /\ frame \in [Task -> Frame \cup {NoFrame}]
      /\ told \in [Frame -> {"none", "ok", "use"}]
      /\ Reader \subseteq Task /\ NoFrame \notin Frame
      /\ \A t \in Task : frame[t] = NoFrame <=> t \in Reader \/ pc[t] = "idle"
  BY TxTaskAssumption, TxFrameAssumption DEF TypeOK, Local
<1>1. ASSUME NEW t \in Task \ Reader, NEW f \in Frame, Call(t, f) PROVE Carry'
  BY <1>0, <1>1 DEF Call
<1>2. ASSUME NEW t \in Reader, Read(t) PROVE Carry'
  BY <1>0, <1>2 DEF Read
<1>a. ASSUME NEW t \in Task, UNCHANGED frame, pc[t] \notin {"idle", "return"},
             NEW l \in PC, pc' = [pc EXCEPT ![t] = l],
             \/ UNCHANGED told
             \/ l = "return" /\ \E v \in {"ok", "use"} : told' = [told EXCEPT ![frame[t]] = v]
      PROVE  Carry'
  BY <1>0, <1>a
<1>3. ASSUME NEW t \in Task, Copy(t) PROVE Carry'
  BY <1>3, <1>a, Labels DEF Copy
<1>4. ASSUME NEW t \in Task, HalTest(t) \/ Check(t) \/ HalRelease(t) PROVE Carry'
  <2>1. told' # told => told' = [told EXCEPT ![frame[t]] = "ok"] /\ pc' = [pc EXCEPT ![t] = "return"]
    BY <1>4 DEF HalTest, Check, HalRelease, Ok
  <2>2. /\ frame' = frame /\ pc[t] \notin {"idle", "return"}
        /\ \E l \in {"return", "lock", "own"} : pc' = [pc EXCEPT ![t] = l]
    BY <1>4 DEF HalTest, Check, HalRelease
  <2> QED BY <1>a, <2>1, <2>2, Labels
<1>5. ASSUME NEW t \in Task, HalTake(t) \/ SetOwn(t) \/ Advance(t) \/ Resume(t)
      PROVE  Carry'
  BY <1>5, <1>a, Labels DEF HalTake, SetOwn, Advance, Resume
<1>6. ASSUME NEW t \in Task, Return(t) PROVE Carry'
  <2>1. CASE core = t /\ Waiting # {}
    <3>1. PICK w \in Task : /\ pc[w] = "core_wait"
                            /\ pc' = [pc EXCEPT ![t] = "idle", ![w] = Entry(w)]
      BY <1>6, <2>1, FirstWaits DEF Return
    <3> QED BY <1>0, <1>6, <3>1 DEF Return, Entry
  <2>2. CASE ~(core = t /\ Waiting # {})
    BY <1>0, <1>6, <2>2 DEF Return
  <2> QED BY <2>1, <2>2
<1>7. CASE DmaTransmit \/ DmaSuspend \/ Irq \/ UNCHANGED vars
  BY <1>7 DEF DmaTransmit, DmaSuspend, Irq, vars, locals
<1> QED BY <1>1, <1>2, <1>3, <1>4, <1>5, <1>6, <1>7 DEF Next, Go

-----------------------------------------------------------------------------
(* What a sender has written into the buffer of heth.TxDesc stays there until *)
(* the descriptor is handed over: nobody else writes there or advances.       *)
Fill ==
  \A t \in Sender :
    /\ pc[t] = "copy" => /\ buffer[t] = txDesc
                         /\ \A k \in 1 .. part[t] - 1 : buf[txDesc][k] = frame[t]
                         /\ part[t] > 1 => ~own[txDesc]
    /\ pc[t] \in {"hal", "lock", "check", "own"} =>
         buffer[t] = txDesc /\ ~own[txDesc] /\ buf[txDesc] = Whole(frame[t])
    /\ pc[t] \in {"own", "advance"} => desc[t] = txDesc

LEMMA StepFill ==
  ASSUME Unlocked = {}, TypeOK, Local, Locked, Fill, [Next]_vars
  PROVE  Fill'
<1> USE DEF Fill, Step, Goto, Sender
<1>0. /\ pc \in [Task -> PC] /\ frame \in [Task -> Frame \cup {NoFrame}]
      /\ buffer \in [Task -> Desc] /\ desc \in [Task -> Desc]
      /\ own \in [Desc -> BOOLEAN] /\ txDesc \in Desc
      /\ part \in [Task -> 1 .. Parts + 1] /\ Parts \in Nat \ {0} /\ Reader \subseteq Task
      /\ \A t \in Task \ Reader : /\ pc[t] = "core_wait" => part[t] = 1
                                  /\ pc[t] = "copy" => part[t] \in 1 .. Parts
  BY TxTaskAssumption, TxSizeAssumption DEF TypeOK, Local
<1>a. \A t, u \in Task : pc[t] \notin {"idle", "core_wait"} /\ t # u =>
                           pc[u] \in {"idle", "core_wait"}
  BY <1>0, OneInside DEF Running
<1>b. ASSUME NEW t \in Task, NEW l \in PC, pc' = [pc EXCEPT ![t] = l],
             UNCHANGED <<buf, txDesc, own, frame, buffer, part>>,
             \A u \in Task : u # t => desc'[u] = desc[u],
             t \in Reader \/ l = "return"
      PROVE  Fill'
  BY <1>0, <1>b
<1>1. ASSUME NEW t \in Task \ Reader, NEW f \in Frame, Call(t, f) PROVE Fill'
  BY <1>0, <1>1 DEF Call, ring
<1>2. ASSUME NEW t \in Reader, Read(t) PROVE Fill'
  BY <1>0, <1>2 DEF Read, ring
<1>3. ASSUME NEW t \in Task, Copy(t) PROVE Fill'
  <2>1. CASE own[buffer[t]]
    BY <1>b, <1>3, <2>1, Labels DEF Copy
  <2>2. CASE ~own[buffer[t]]
    <3>1. t \notin Reader /\ part[t] \in 1 .. Parts /\ buffer[t] = txDesc
      BY <1>0, <1>3 DEF Copy, Local
    <3>2. /\ buf' = [buf EXCEPT ![txDesc] = [buf[txDesc] EXCEPT ![part[t]] = frame[t]]]
          /\ part' = [part EXCEPT ![t] = part[t] + 1]
          /\ UNCHANGED <<own, txDesc, frame, buffer, desc>>
          /\ pc' = [pc EXCEPT ![t] = IF part[t] = Parts THEN "hal" ELSE "copy"]
      BY <1>3, <2>2, <3>1 DEF Copy
    <3>3. /\ buf'[txDesc] \in [1 .. Parts -> Frame \cup {NoFrame}]
          /\ buf'[txDesc] = [buf[txDesc] EXCEPT ![part[t]] = frame[t]]
      BY <1>0, <3>1, <3>2 DEF TypeOK
    <3>4. \A k \in 1 .. part[t] : buf'[txDesc][k] = frame[t]
      BY <1>0, <1>3, <3>1, <3>3 DEF Copy, TypeOK
    <3>5. part[t] = Parts => buf'[txDesc] = Whole(frame[t])
      BY <3>3, <3>4 DEF Whole
    <3>6. \A u \in Task : u # t => pc'[u] \in {"idle", "core_wait"}
      BY <1>0, <1>3, <1>a, <3>2 DEF Copy
    <3> QED BY <1>0, <2>2, <3>1, <3>2, <3>4, <3>5, <3>6
  <2> QED BY <2>1, <2>2
<1>4. ASSUME NEW t \in Task, HalTest(t) PROVE Fill'
  BY <1>0, <1>4 DEF HalTest, ring
<1>5. ASSUME NEW t \in Task, HalTake(t) PROVE Fill'
  BY <1>0, <1>5 DEF HalTake, ring
<1>6. ASSUME NEW t \in Task, Check(t) PROVE Fill'
  BY <1>0, <1>6 DEF Check, ring
<1>7. ASSUME NEW t \in Task, SetOwn(t) \/ Advance(t) PROVE Fill'
  <2>1. \A u \in Task : u # t => pc'[u] \in {"idle", "core_wait"}
    BY <1>0, <1>7, <1>a DEF SetOwn, Advance
  <2>2. t \notin Reader /\ UNCHANGED frame
    BY <1>7 DEF SetOwn, Advance, Local
  <2>3. CASE SetOwn(t)
    BY <1>0, <2>1, <2>2, <2>3 DEF SetOwn
  <2>4. CASE Advance(t)
    BY <1>0, <2>1, <2>2, <2>4 DEF Advance
  <2> QED BY <1>7, <2>3, <2>4
<1>8. ASSUME NEW t \in Task, Resume(t) \/ HalRelease(t) PROVE Fill'
  BY <1>0, <1>8 DEF Resume, HalRelease, ring
<1>9. ASSUME NEW t \in Task, Return(t) PROVE Fill'
  <2>1. CASE core = t /\ Waiting # {}
    <3>1. PICK w \in Task : /\ pc[w] = "core_wait"
                            /\ pc' = [pc EXCEPT ![t] = "idle", ![w] = Entry(w)]
                            /\ buffer' = [buffer EXCEPT ![w] = txDesc]
      BY <1>9, <2>1, FirstWaits DEF Return
    <3>2. \A u \in Task : u # w => pc'[u] \in {"idle", "core_wait"}
      BY <1>0, <1>9, <1>a, <3>1 DEF Return
    <3> QED BY <1>0, <1>9, <3>1, <3>2 DEF Return, Entry, ring
  <2>2. CASE ~(core = t /\ Waiting # {})
    BY <1>0, <1>9, <2>2 DEF Return, ring
  <2> QED BY <2>1, <2>2
<1>10. CASE DmaTransmit
  BY <1>0, <1>10 DEF DmaTransmit, locals, TypeOK
<1>11. CASE DmaSuspend \/ Irq \/ UNCHANGED vars
  BY <1>11 DEF DmaSuspend, Irq, vars, locals, ring
<1> QED BY <1>1, <1>2, <1>3, <1>4, <1>5, <1>6, <1>7, <1>8, <1>9, <1>10, <1>11 DEF Next, Go

-----------------------------------------------------------------------------
(* Frames that the controller has, or has sent. *)

OnWire(f) == \E i \in 1 .. Len(wire) : wire[i] = Whole(f)
InRing(f) == \E d \in Desc : own[d] /\ buf[d] = Whole(f)
Sent(f) == OnWire(f) \/ InRing(f)

LEMMA WholeInjective == \A f, g : Whole(f) = Whole(g) => f = g
<1> SUFFICES ASSUME NEW f, NEW g, Whole(f) = Whole(g) PROVE f = g
  OBVIOUS
<1>1. Whole(f)[1] = f /\ Whole(g)[1] = g
  BY TxSizeAssumption DEF Whole
<1> QED BY <1>1

(* A frame is there once, and nothing else is there. *)
Single ==
  /\ \A i \in 1 .. Len(wire) : \E f \in Frame : wire[i] = Whole(f)
  /\ \A d \in Desc : own[d] => \E f \in Frame : buf[d] = Whole(f)
  /\ \A i, j \in 1 .. Len(wire) : wire[i] = wire[j] => i = j
  /\ \A d, e \in Desc : own[d] /\ own[e] /\ buf[d] = buf[e] => d = e
  /\ \A d \in Desc, i \in 1 .. Len(wire) : own[d] => buf[d] # wire[i]

Late == {"advance", "resume", "unlock"}

(* What senders are told agrees with what is there: the verdict of a frame    *)
(* that has just been handed over is still to come.                           *)
Verdict ==
  /\ \A f \in Frame : told[f] = "ok" => Sent(f)
  /\ \A t \in Sender : pc[t] \in Late => Sent(frame[t])
  /\ \A f \in Frame : Sent(f) =>
       \/ told[f] = "ok"
       \/ told[f] = "none" /\ \E t \in Sender : frame[t] = f /\ pc[t] \in Late

(* A frame whose verdict is open, and whose sender has not handed it over, is *)
(* nowhere.                                                                   *)
LEMMA NotSentYet ==
  ASSUME TypeOK, Local, Carry, Verdict, NEW t \in Sender, pc[t] \notin Late \cup {"idle", "return"}
  PROVE  frame[t] \in Frame /\ told[frame[t]] = "none" /\ ~Sent(frame[t])
<1>1. frame[t] \in Frame /\ told[frame[t]] = "none"
  BY DEF TypeOK, Local, Carry, Sender
<1>2. \A u \in Sender : frame[u] = frame[t] => u = t
  BY <1>1, TxFrameAssumption DEF Carry, Sender
<1> QED BY <1>1, <1>2 DEF Verdict

(* A step that touches neither the wire nor what the controller owns.         *)
Elsewhere == wire' = wire /\ own' = own /\ \A d \in Desc : own[d] => buf'[d] = buf[d]

LEMMA ElsewhereKeeps ==
  ASSUME Elsewhere, Single
  PROVE  Single' /\ \A f : Sent(f) <=> Sent(f)'
<1>1. Single'
  BY DEF Elsewhere, Single
<1>2. \A f : Sent(f) <=> Sent(f)'
  BY DEF Elsewhere, Sent, OnWire, InRing
<1> QED BY <1>1, <1>2

LEMMA SetOwnSends ==
  ASSUME TypeOK, Local, Locked, Carry, Fill, Single, Verdict, NEW t \in Task, SetOwn(t)
  PROVE  /\ t \in Sender /\ frame[t] \in Frame
         /\ Single' /\ \A f : Sent(f)' <=> Sent(f) \/ f = frame[t]
<1>1. t \in Sender /\ pc[t] = "own" /\ desc[t] = txDesc /\ ~own[txDesc]
      /\ buf[txDesc] = Whole(frame[t])
  BY DEF SetOwn, Step, Local, Fill, Sender
<1>2. frame[t] \in Frame /\ ~Sent(frame[t])
  BY <1>1, NotSentYet DEF Late
<1>3. /\ own' = [own EXCEPT ![txDesc] = TRUE] /\ UNCHANGED <<buf, wire, txDesc>>
      /\ own \in [Desc -> BOOLEAN] /\ txDesc \in Desc
  BY <1>1 DEF SetOwn, hw, TypeOK
<1>4. Single'
  BY <1>1, <1>2, <1>3 DEF Single, Sent, OnWire, InRing
<1>5. \A f : Sent(f)' <=> Sent(f) \/ f = frame[t]
  BY <1>1, <1>3, WholeInjective DEF Sent, OnWire, InRing
<1> QED BY <1>1, <1>2, <1>4, <1>5

LEMMA DmaKeeps ==
  ASSUME TypeOK, Single, DmaTransmit
  PROVE  Single' /\ \A f : Sent(f) <=> Sent(f)'
<1>1. /\ own[dma] /\ dma \in Desc /\ own \in [Desc -> BOOLEAN]
      /\ wire' = Append(wire, buf[dma]) /\ own' = [own EXCEPT ![dma] = FALSE] /\ buf' = buf
  BY DEF DmaTransmit, TypeOK
<1>2. /\ Len(wire') = Len(wire) + 1 /\ Len(wire) \in Nat
      /\ \A i \in 1 .. Len(wire) : wire'[i] = wire[i]
      /\ wire'[Len(wire) + 1] = buf[dma]
  BY <1>1 DEF TypeOK
<1>3. \A i : i \in 1 .. Len(wire') <=> i \in 1 .. Len(wire) \/ i = Len(wire) + 1
  BY <1>2
<1>4. Single'
  <2>1. \A i \in 1 .. Len(wire') : \E f \in Frame : wire'[i] = Whole(f)
    BY <1>1, <1>2, <1>3 DEF Single
  <2>2. \A i, j \in 1 .. Len(wire') : wire'[i] = wire'[j] => i = j
    BY <1>1, <1>2, <1>3 DEF Single
  <2>3. \A d \in Desc, i \in 1 .. Len(wire') : own'[d] => buf'[d] # wire'[i]
    BY <1>1, <1>2, <1>3 DEF Single
  <2> QED BY <1>1, <2>1, <2>2, <2>3 DEF Single
<1>5. \A f : OnWire(f)' <=> OnWire(f) \/ buf[dma] = Whole(f)
  BY <1>2, <1>3 DEF OnWire
<1>6. \A f : InRing(f) => InRing(f)' \/ buf[dma] = Whole(f)
  BY <1>1 DEF InRing
<1>7. \A f : InRing(f)' => InRing(f)
  BY <1>1 DEF InRing
<1>8. \A f : buf[dma] = Whole(f) => InRing(f)
  BY <1>1 DEF InRing
<1> QED BY <1>4, <1>5, <1>6, <1>7, <1>8 DEF Sent

IInv == TypeOK /\ Local /\ Locked /\ Carry /\ Fill /\ Single /\ Verdict

LEMMA StepOut ==
  ASSUME IInv, [Next]_vars
  PROVE  Single' /\ Verdict'
<1> USE DEF IInv, Sender, Step, Goto, Late
<1>0. /\ pc \in [Task -> PC] /\ frame \in [Task -> Frame \cup {NoFrame}]
      /\ told \in [Frame -> {"none", "ok", "use"}]
      /\ Reader \subseteq Task /\ NoFrame \notin Frame
      /\ \A t \in Reader : pc[t] \in {"idle", "core_wait", "hal", "lock", "unlock", "return"}
      /\ \A t \in Task : frame[t] = NoFrame <=> t \in Reader \/ pc[t] = "idle"
      /\ \A t, u \in Task : frame[t] = frame[u] /\ frame[t] # NoFrame => t = u
  BY TxTaskAssumption, TxFrameAssumption DEF TypeOK, Local, Carry
<1>a. ASSUME Elsewhere PROVE Single' /\ \A f : Sent(f) <=> Sent(f)'
  BY <1>a, ElsewhereKeeps
<1>b. ASSUME \A f : Sent(f) <=> Sent(f)', UNCHANGED told,
             \A t \in Sender : /\ pc'[t] \in Late <=> pc[t] \in Late
                               /\ pc[t] \in Late => frame'[t] = frame[t]
      PROVE  Verdict'
  BY <1>b DEF Verdict
<1>c. ASSUME UNCHANGED <<own, buf, wire>> PROVE Elsewhere
  BY <1>c DEF Elsewhere
<1>1. ASSUME NEW t \in Task \ Reader, NEW f \in Frame, Call(t, f) PROVE Single' /\ Verdict'
  <2>1. Elsewhere /\ UNCHANGED told
    BY <1>1, <1>c DEF Call, ring, hw
  <2>2. \A u \in Sender : /\ pc'[u] \in Late <=> pc[u] \in Late
                          /\ pc[u] \in Late => frame'[u] = frame[u]
    BY <1>0, <1>1 DEF Call
  <2> QED BY <1>a, <1>b, <2>1, <2>2
<1>2. ASSUME NEW t \in Reader, Read(t) PROVE Single' /\ Verdict'
  <2>1. Elsewhere /\ UNCHANGED told
    BY <1>2, <1>c DEF Read, ring, hw
  <2>2. \A u \in Sender : pc'[u] = pc[u] /\ frame'[u] = frame[u]
    BY <1>0, <1>2 DEF Read
  <2> QED BY <1>a, <1>b, <2>1, <2>2
<1>3. ASSUME NEW t \in Task, Copy(t) PROVE Single' /\ Verdict'
  <2>1. t \in Sender /\ frame' = frame /\ pc[t] = "copy"
    BY <1>0, <1>3 DEF Copy
  <2>2. frame[t] \in Frame /\ told[frame[t]] = "none" /\ ~Sent(frame[t])
    BY <2>1, NotSentYet
  <2>3. CASE own[buffer[t]]
    <3>1. /\ Elsewhere /\ pc' = [pc EXCEPT ![t] = "return"]
          /\ told' = [told EXCEPT ![frame[t]] = "use"]
      BY <1>3, <1>c, <2>3 DEF Copy, hw
    <3>2. Verdict'
      BY <1>0, <1>a, <2>1, <2>2, <3>1 DEF Verdict
    <3> QED BY <1>a, <3>1, <3>2
  <2>4. CASE ~own[buffer[t]]
    <3>1. Elsewhere /\ UNCHANGED told
      BY <1>3, <2>4 DEF Copy, hw, Elsewhere, TypeOK
    <3>2. \A u \in Sender : pc'[u] \in Late <=> pc[u] \in Late
      BY <1>0, <1>3, <2>4 DEF Copy
    <3> QED BY <1>a, <1>b, <2>1, <3>1, <3>2
  <2> QED BY <2>3, <2>4
<1>4. ASSUME NEW t \in Task, HalTest(t) PROVE Single' /\ Verdict'
  <2>1. ~halLock
    BY <1>0, <1>4 DEF HalTest, Locked, Running, PC
  <2>2. Elsewhere /\ UNCHANGED <<told, frame>>
    BY <1>4, <1>c, <2>1 DEF HalTest, ring, hw
  <2>3. \A u \in Sender : pc'[u] \in Late <=> pc[u] \in Late
    BY <1>0, <1>4, <2>1 DEF HalTest
  <2> QED BY <1>a, <1>b, <2>2, <2>3
<1>5. ASSUME NEW t \in Task, HalTake(t) PROVE Single' /\ Verdict'
  <2>1. Elsewhere /\ UNCHANGED <<told, frame>>
    BY <1>5, <1>c DEF HalTake, ring, hw
  <2>2. \A u \in Sender : pc'[u] \in Late <=> pc[u] \in Late
    BY <1>0, <1>5 DEF HalTake
  <2> QED BY <1>a, <1>b, <2>1, <2>2
<1>6. ASSUME NEW t \in Task, Check(t) PROVE Single' /\ Verdict'
  <2>1. ~own[txDesc]
    BY <1>0, <1>6 DEF Check, Fill
  <2>2. Elsewhere /\ UNCHANGED <<told, frame>>
    BY <1>6, <1>c, <2>1 DEF Check, ring, hw
  <2>3. \A u \in Sender : pc'[u] \in Late <=> pc[u] \in Late
    BY <1>0, <1>6, <2>1 DEF Check
  <2> QED BY <1>a, <1>b, <2>2, <2>3
<1>7. ASSUME NEW t \in Task, SetOwn(t) PROVE Single' /\ Verdict'
  <2>1. /\ t \in Sender /\ frame[t] \in Frame
        /\ Single' /\ \A f : Sent(f)' <=> Sent(f) \/ f = frame[t]
    BY <1>7, SetOwnSends
  <2>2. /\ UNCHANGED <<told, frame>> /\ pc' = [pc EXCEPT ![t] = "advance"] /\ pc[t] = "own"
        /\ told[frame[t]] = "none"
    BY <1>7, <2>1 DEF SetOwn, Carry
  <2>3. Verdict'
    BY <1>0, <2>1, <2>2 DEF Verdict
  <2> QED BY <2>1, <2>3
<1>8. ASSUME NEW t \in Task, Advance(t) \/ Resume(t) PROVE Single' /\ Verdict'
  <2>1. Elsewhere /\ UNCHANGED <<told, frame>>
    BY <1>8, <1>c DEF Advance, Resume, ring, hw
  <2>2. \A u \in Sender : pc'[u] \in Late <=> pc[u] \in Late
    BY <1>0, <1>8 DEF Advance, Resume
  <2> QED BY <1>a, <1>b, <2>1, <2>2
<1>9. ASSUME NEW t \in Task, HalRelease(t) PROVE Single' /\ Verdict'
  <2>1. Elsewhere /\ frame' = frame /\ pc[t] = "unlock" /\ pc' = [pc EXCEPT ![t] = "return"]
    BY <1>9, <1>c DEF HalRelease, ring, hw
  <2>2. CASE t \in Reader
    <3>1. told' = told
      BY <1>9, <2>2 DEF HalRelease, Ok
    <3> QED BY <1>0, <1>a, <1>b, <2>1, <2>2, <3>1
  <2>3. CASE t \in Sender
    <3>1. told' = [told EXCEPT ![frame[t]] = "ok"] /\ frame[t] \in Frame /\ Sent(frame[t])
      BY <1>0, <1>9, <2>1, <2>3 DEF HalRelease, Ok, Verdict
    <3>2. Verdict'
      BY <1>0, <1>a, <2>1, <2>3, <3>1 DEF Verdict
    <3> QED BY <1>a, <2>1, <3>2
  <2> QED BY <2>2, <2>3
<1>10. ASSUME NEW t \in Task, Return(t) PROVE Single' /\ Verdict'
  <2>1. Elsewhere /\ UNCHANGED told /\ frame' = [frame EXCEPT ![t] = NoFrame] /\ pc[t] = "return"
    BY <1>10, <1>c DEF Return, ring, hw
  <2>2. \A u \in Task : pc'[u] \in Late <=> pc[u] \in Late
    <3>1. CASE core = t /\ Waiting # {}
      <4>1. PICK w \in Task : /\ pc[w] = "core_wait"
                              /\ pc' = [pc EXCEPT ![t] = "idle", ![w] = Entry(w)]
        BY <1>10, <3>1, FirstWaits DEF Return
      <4> QED BY <1>0, <2>1, <4>1 DEF Entry
    <3>2. CASE ~(core = t /\ Waiting # {})
      BY <1>0, <1>10, <3>2 DEF Return
    <3> QED BY <3>1, <3>2
  <2>3. \A u \in Sender : pc[u] \in Late => frame'[u] = frame[u]
    BY <1>0, <2>1
  <2> QED BY <1>a, <1>b, <2>1, <2>2, <2>3
<1>11. CASE DmaTransmit
  <2>1. Single' /\ \A f : Sent(f) <=> Sent(f)'
    BY <1>11, DmaKeeps
  <2> QED BY <1>11, <1>b, <2>1 DEF DmaTransmit, locals
<1>12. CASE DmaSuspend \/ Irq \/ UNCHANGED vars
  <2>1. Elsewhere /\ UNCHANGED <<pc, frame, told>>
    BY <1>12, <1>c DEF DmaSuspend, Irq, vars, locals, ring, hw
  <2> QED BY <1>a, <1>b, <2>1
<1> QED
  BY <1>1, <1>2, <1>3, <1>4, <1>5, <1>6, <1>7, <1>8, <1>9, <1>10, <1>11, <1>12 DEF Next, Go

LEMMA Inductive ==
  ASSUME Unlocked = {}
  PROVE  (Init => IInv) /\ (IInv /\ [Next]_vars => IInv')
<1>1. Init => IInv
  <2> SUFFICES ASSUME Init PROVE IInv
    OBVIOUS
  <2>1. TypeOK /\ Local
    BY InitLocal
  <2>2. Locked /\ Carry /\ Fill
    BY TxTaskAssumption DEF Init, Locked, Carry, Fill, Sender, Running
  <2>3. Single /\ Verdict
    BY DEF Init, Single, Verdict, Sent, OnWire, InRing, Late, Sender
  <2> QED BY <2>1, <2>2, <2>3 DEF IInv
<1>2. IInv /\ [Next]_vars => IInv'
  BY StepTypeOK, StepLocal, StepLocked, StepCarry, StepFill, StepOut DEF IInv
<1> QED BY <1>1, <1>2

(* With the core lock around every call of low_level_output, whatever it      *)
(* reported as sent is on the wire or with the controller, whole and once.    *)
THEOREM SentOnce ==
  ASSUME Unlocked = {}
  PROVE  Spec => []OkIsSent
<1>1. IInv => OkIsSent
  <2> SUFFICES ASSUME Single, Verdict, NEW f \in Frame, told[f] = "ok"
               PROVE Cardinality({i \in 1 .. Len(wire) : wire[i] = Whole(f)})
                       + Cardinality({d \in Desc : own[d] /\ buf[d] = Whole(f)}) = 1
    BY DEF IInv, OkIsSent
  <2> DEFINE W == {i \in 1 .. Len(wire) : wire[i] = Whole(f)}
             D == {d \in Desc : own[d] /\ buf[d] = Whole(f)}
  <2>1. CASE OnWire(f)
    <3>1. PICK i \in 1 .. Len(wire) : wire[i] = Whole(f)
      BY <2>1 DEF OnWire
    <3>2. W = {i}
      BY <3>1 DEF Single
    <3>3. D = {}
      BY <3>1 DEF Single
    <3>4. Cardinality(W) = 1 /\ Cardinality(D) = 0
      BY <3>2, <3>3, FS_Singleton, FS_EmptySet
    <3> QED BY <3>4
  <2>2. CASE ~OnWire(f)
    <3>1. PICK d \in Desc : own[d] /\ buf[d] = Whole(f)
      BY <2>2 DEF Verdict, Sent, InRing
    <3>2. D = {d}
      BY <3>1 DEF Single
    <3>3. W = {}
      BY <2>2 DEF OnWire
    <3>4. Cardinality(W) = 0 /\ Cardinality(D) = 1
      BY <3>2, <3>3, FS_Singleton, FS_EmptySet
    <3> QED BY <3>4
  <2> QED BY <2>1, <2>2
<1> QED BY <1>1, Inductive, PTL DEF Spec

(* Nor does a buffer ever mix two frames, go out twice, go out although the   *)
(* caller was told ERR_USE, or get filled while it is the controller's.       *)
THEOREM WireStaysClean ==
  ASSUME Unlocked = {}
  PROVE  Spec => []WireIsClean
<1>1. IInv => WireIsClean
  <2> SUFFICES ASSUME IInv PROVE WireIsClean
    OBVIOUS
  <2>1. FillsOwnBuffer
    BY DEF IInv, Fill, FillsOwnBuffer, Sender
  <2>2. ASSUME NEW i \in 1 .. Len(wire) PROVE \E f \in Frame : wire[i] = Whole(f) /\ told[f] # "use"
    BY DEF IInv, Single, Verdict, Sent, OnWire
  <2> QED BY <2>1, <2>2 DEF IInv, Single, WireIsClean, Clean
<1> QED BY <1>1, Inductive, PTL DEF Spec

(* Going round the ring. *)
LEMMA WrapFacts ==
  ASSUME NEW b \in Desc
  PROVE  /\ Wrap(b, 0) = b /\ Wrap(b, N) = b
         /\ \A i, j \in 0 .. N - 1 : Wrap(b, i) = Wrap(b, j) => i = j
         /\ \A d \in Desc : \E i \in 0 .. N - 1 : d = Wrap(b, i)
         /\ \A i, j \in 0 .. N : j = i + 1 =>
              Nxt(Wrap(b, i)) = Wrap(b, j) /\ Wrap(Nxt(b), i) = Wrap(b, j)
<1>1. N \in Nat \ {0} /\ b \in 0 .. N - 1 /\ Desc = 0 .. N - 1
  BY TxSizeAssumption DEF Desc
<1>2. ASSUME NEW i \in 0 .. N
      PROVE  /\ Wrap(b, i) = IF b + i < N THEN b + i ELSE b + i - N
             /\ Wrap(b, i) \in 0 .. N - 1
  BY <1>1, WrapIs
<1>3. Wrap(b, 0) = b /\ Wrap(b, N) = b
  <2>1. 0 \in 0 .. N /\ N \in 0 .. N
    BY <1>1
  <2>2. Wrap(b, 0) = IF b + 0 < N THEN b + 0 ELSE b + 0 - N
    BY <1>2, <2>1
  <2>3. Wrap(b, N) = IF b + N < N THEN b + N ELSE b + N - N
    BY <1>2, <2>1
  <2> QED BY <1>1, <2>2, <2>3
<1>4. ASSUME NEW i \in 0 .. N - 1, NEW j \in 0 .. N - 1, Wrap(b, i) = Wrap(b, j)
      PROVE  i = j
  <2>1. i \in 0 .. N /\ j \in 0 .. N
    BY <1>1
  <2>2. /\ Wrap(b, i) = IF b + i < N THEN b + i ELSE b + i - N
        /\ Wrap(b, j) = IF b + j < N THEN b + j ELSE b + j - N
    BY <1>2, <2>1
  <2>3. (IF b + i < N THEN b + i ELSE b + i - N) = (IF b + j < N THEN b + j ELSE b + j - N)
    BY <1>4, <2>2
  <2> QED BY <1>1, <2>3
<1>5. ASSUME NEW d \in Desc PROVE \E i \in 0 .. N - 1 : d = Wrap(b, i)
  <2>1. PICK i : i = IF d >= b THEN d - b ELSE d + N - b
    OBVIOUS
  <2>2. i \in 0 .. N - 1 /\ i \in 0 .. N
    BY <1>1, <2>1
  <2>3. Wrap(b, i) = IF b + i < N THEN b + i ELSE b + i - N
    BY <1>2, <2>2
  <2>4. d = Wrap(b, i)
    BY <1>1, <2>1, <2>2, <2>3
  <2> QED BY <2>2, <2>4
<1>6. ASSUME NEW i \in 0 .. N, NEW j \in 0 .. N, j = i + 1
      PROVE  Nxt(Wrap(b, i)) = Wrap(b, j) /\ Wrap(Nxt(b), i) = Wrap(b, j)
  <2>1. PICK x : x = Wrap(b, i)
    OBVIOUS
  <2>2. /\ x = IF b + i < N THEN b + i ELSE b + i - N
        /\ x \in Desc
        /\ Wrap(b, j) = IF b + j < N THEN b + j ELSE b + j - N
    BY <1>1, <1>2, <2>1
  <2>3. Nxt(x) = IF x + 1 < N THEN x + 1 ELSE 0
    BY <2>2, NxtIs
  <2>4. Nxt(x) = Wrap(b, j)
    BY <1>1, <1>6, <2>2, <2>3
  <2>5. PICK c \in Desc : c = Nxt(b) /\ c = IF b + 1 < N THEN b + 1 ELSE 0
    BY NxtIs
  <2>6. Wrap(c, i) = IF c + i < N THEN c + i ELSE c + i - N
    BY WrapIs
  <2>7. Wrap(c, i) = Wrap(b, j)
    BY <1>1, <1>6, <2>2, <2>5, <2>6
  <2> QED BY <2>1, <2>4, <2>5, <2>7
<1> QED BY <1>3, <1>4, <1>5, <1>6

-----------------------------------------------------------------------------
(* The descriptors of the controller follow each other in the ring.           *)

At(i) == Wrap(dma, i)

LEMMA HandedIs ==
  ASSUME TypeOK
  PROVE  IsFiniteSet({d \in Desc : own[d]}) /\ Handed \in 0 .. N
<1>1. IsFiniteSet(Desc) /\ Cardinality(Desc) = N
  BY TxSizeAssumption, FS_Interval DEF Desc
<1>2. IsFiniteSet({d \in Desc : own[d]}) /\ Cardinality({d \in Desc : own[d]}) <= N
  BY <1>1, FS_Subset
<1> QED BY <1>2, FS_CardinalityType, TxSizeAssumption DEF Handed

Ring ==
  /\ \A i \in 0 .. N - 1 : own[At(i)] <=> i < Handed
  /\ \A t \in Task : pc[t] = "advance" => Nxt(txDesc) = At(Handed)
  /\ (\A t \in Task : pc[t] # "advance") => txDesc = At(Handed)

LEMMA RingTakes ==
  ASSUME IInv, Ring, NEW t \in Task, SetOwn(t)
  PROVE  /\ pc[t] = "own" /\ pc' = [pc EXCEPT ![t] = "advance"] /\ UNCHANGED <<txDesc, dma>>
         /\ own' = [own EXCEPT ![txDesc] = TRUE] /\ ~own[txDesc] /\ txDesc = At(Handed)
         /\ Handed < N /\ Handed' = Handed + 1
<1> USE DEF Ring, Goto, Step
<1>a. /\ TypeOK /\ N \in Nat \ {0} /\ dma \in 0 .. N - 1 /\ txDesc \in 0 .. N - 1
      /\ Handed \in 0 .. N /\ pc \in [Task -> PC] /\ Desc = 0 .. N - 1
      /\ own \in [Desc -> BOOLEAN] /\ Local
  BY TxSizeAssumption, HandedIs DEF IInv, TypeOK, Desc
<1>b. \A u, v \in Task : pc[u] \notin {"idle", "core_wait"} /\ u # v => pc[v] # "advance"
  BY <1>a, OneInside DEF IInv, Running
<1>c. /\ At(0) = dma /\ At(N) = dma /\ \A i \in 0 .. N : At(i) \in Desc
      /\ \A i, j \in 0 .. N - 1 : At(i) = At(j) => i = j
      /\ \A i, j \in 0 .. N : j = i + 1 => Nxt(At(i)) = At(j) /\ Wrap(Nxt(dma), i) = At(j)
  BY <1>a, WrapIs, WrapFacts DEF At
<1>1. /\ pc[t] = "own" /\ pc' = [pc EXCEPT ![t] = "advance"] /\ UNCHANGED <<txDesc, dma>>
      /\ own' = [own EXCEPT ![txDesc] = TRUE] /\ ~own[txDesc] /\ txDesc = At(Handed)
  <2>1. t \notin Reader /\ desc[t] = txDesc /\ ~own[txDesc]
    BY <1>a DEF SetOwn, IInv, Local, Fill, Sender
  <2>2. \A u \in Task : pc[u] # "advance"
    BY <1>b DEF SetOwn
  <2> QED BY <2>1, <2>2 DEF SetOwn, hw
<1>2. Handed < N
  <2>1. 0 \in 0 .. N - 1 /\ (own[At(0)] <=> 0 < Handed)
    BY <1>a
  <2> QED BY <1>a, <1>c, <1>1, <2>1
<1>3. Handed' = Handed + 1
  <2> DEFINE S == {d \in Desc : own[d]}
  <2>1. {d \in Desc : own'[d]} = S \cup {txDesc} /\ txDesc \notin S /\ IsFiniteSet(S)
    BY <1>a, <1>1, HandedIs
  <2>2. Handed = Cardinality(S) /\ Handed' = Cardinality(S \cup {txDesc})
    BY <2>1 DEF Handed
  <2> HIDE DEF S
  <2> QED BY <2>1, <2>2, FS_AddElement
<1> QED BY <1>1, <1>2, <1>3

LEMMA RingGives ==
  ASSUME IInv, Ring, DmaTransmit
  PROVE  /\ own[dma] /\ own' = [own EXCEPT ![dma] = FALSE] /\ dma' = Nxt(dma)
         /\ UNCHANGED <<txDesc, pc>> /\ 0 < Handed /\ Handed' = Handed - 1
<1> USE DEF Ring
<1>a. /\ TypeOK /\ N \in Nat \ {0} /\ dma \in 0 .. N - 1 /\ txDesc \in 0 .. N - 1
      /\ Handed \in 0 .. N /\ pc \in [Task -> PC] /\ Desc = 0 .. N - 1
      /\ own \in [Desc -> BOOLEAN] /\ Local
  BY TxSizeAssumption, HandedIs DEF IInv, TypeOK, Desc
<1>b. \A t, u \in Task : pc[t] \notin {"idle", "core_wait"} /\ t # u => pc[u] # "advance"
  BY <1>a, OneInside DEF IInv, Running
<1>c. /\ At(0) = dma /\ At(N) = dma /\ \A i \in 0 .. N : At(i) \in Desc
      /\ \A i, j \in 0 .. N - 1 : At(i) = At(j) => i = j
      /\ \A i, j \in 0 .. N : j = i + 1 => Nxt(At(i)) = At(j) /\ Wrap(Nxt(dma), i) = At(j)
  BY <1>a, WrapIs, WrapFacts DEF At
<1>1. /\ own[dma] /\ own' = [own EXCEPT ![dma] = FALSE] /\ dma' = Nxt(dma)
      /\ UNCHANGED <<txDesc, pc>>
  BY DEF DmaTransmit, locals
<1>2. 0 < Handed
  <2>1. 0 \in 0 .. N - 1 /\ (own[At(0)] <=> 0 < Handed)
    BY <1>a
  <2> QED BY <1>c, <1>1, <2>1
<1>3. Handed' = Handed - 1
  <2> DEFINE S == {d \in Desc : own[d]}
  <2>1. {d \in Desc : own'[d]} = S \ {dma} /\ dma \in S /\ IsFiniteSet(S)
    BY <1>a, <1>1, HandedIs
  <2>2. Handed = Cardinality(S) /\ Handed' = Cardinality(S \ {dma})
    BY <2>1 DEF Handed
  <2> HIDE DEF S
  <2> QED BY <2>1, <2>2, FS_RemoveElement
<1> QED BY <1>1, <1>2, <1>3

LEMMA StepRing ==
  ASSUME IInv, Ring, [Next]_vars
  PROVE  Ring'
<1> USE DEF Ring, Goto, Step
<1>0. /\ TypeOK /\ N \in Nat \ {0} /\ dma \in 0 .. N - 1 /\ txDesc \in 0 .. N - 1
      /\ Handed \in 0 .. N /\ pc \in [Task -> PC] /\ Desc = 0 .. N - 1
      /\ own \in [Desc -> BOOLEAN] /\ Local
  BY TxSizeAssumption, HandedIs DEF IInv, TypeOK, Desc
<1>1. \A t, u \in Task : pc[t] \notin {"idle", "core_wait"} /\ t # u => pc[u] # "advance"
  BY <1>0, OneInside DEF IInv, Running
<1>2. /\ At(0) = dma /\ At(N) = dma /\ \A i \in 0 .. N : At(i) \in Desc
      /\ \A i, j \in 0 .. N - 1 : At(i) = At(j) => i = j
      /\ \A i, j \in 0 .. N : j = i + 1 => Nxt(At(i)) = At(j) /\ Wrap(Nxt(dma), i) = At(j)
  BY <1>0, WrapIs, WrapFacts DEF At
<1>a. ASSUME UNCHANGED <<own, txDesc, dma>>,
             \A t \in Task : pc'[t] = "advance" <=> pc[t] = "advance"
      PROVE  Ring'
  <2>1. Handed' = Handed /\ (\A i : At(i)' = At(i)) /\ \A d : Nxt(d)' = Nxt(d)
    BY <1>a DEF Handed, At, Nxt
  <2>2. \A i \in 0 .. N - 1 : own'[At(i)'] <=> i < Handed'
    BY <1>a, <2>1
  <2>3. Nxt(txDesc)' = Nxt(txDesc) /\ At(Handed)' = At(Handed)
    BY <1>a, <2>1 DEF At, Nxt
  <2> QED BY <1>a, <2>2, <2>3
<1>3. ASSUME NEW t \in Task, SetOwn(t) PROVE Ring'
  <2>1. /\ pc[t] = "own" /\ pc' = [pc EXCEPT ![t] = "advance"] /\ UNCHANGED <<txDesc, dma>>
        /\ own' = [own EXCEPT ![txDesc] = TRUE] /\ ~own[txDesc] /\ txDesc = At(Handed)
        /\ Handed < N /\ Handed' = Handed + 1
    BY <1>3, RingTakes
  <2>4. \A i : At(i)' = At(i)
    BY <2>1 DEF At
  <2>5. ASSUME NEW i \in 0 .. N - 1 PROVE own'[At(i)'] <=> i < Handed'
    <3>0. i \in 0 .. N /\ Handed \in 0 .. N - 1
      BY <1>0, <2>1
    <3>1. At(i) \in Desc /\ (At(i) = txDesc <=> i = Handed)
      BY <1>2, <2>1, <3>0
    <3> QED BY <1>0, <2>1, <2>4, <3>1
  <2>6. Nxt(txDesc)' = At(Handed)'
    <3>1. PICK j \in 0 .. N : j = Handed + 1
      BY <1>0, <2>1
    <3>2. At(j) = Nxt(txDesc)
      BY <1>0, <1>2, <2>1, <3>1
    <3> QED BY <2>1, <3>1, <3>2 DEF At, Nxt
  <2>7. \E u \in Task : pc'[u] = "advance"
    BY <1>0, <2>1
  <2> QED BY <2>5, <2>6, <2>7 DEF At
<1>4. ASSUME NEW t \in Task, Advance(t) PROVE Ring'
  <2>1. /\ pc[t] = "advance" /\ pc' = [pc EXCEPT ![t] = "resume"] /\ UNCHANGED <<own, dma>>
        /\ txDesc' = Nxt(txDesc) /\ Nxt(txDesc) = At(Handed)
    BY <1>0, <1>4 DEF Advance, hw, IInv, Fill, Local, Sender
  <2>2. Handed' = Handed /\ \A i : At(i)' = At(i)
    BY <2>1 DEF Handed, At
  <2>3. txDesc' = At(Handed)'
    BY <2>1, <2>2 DEF At
  <2>4. \A u \in Task : pc'[u] # "advance"
    BY <1>0, <1>1, <2>1
  <2> QED BY <2>1, <2>2, <2>3, <2>4
<1>5. CASE DmaTransmit
  <2>1. /\ own[dma] /\ own' = [own EXCEPT ![dma] = FALSE] /\ dma' = Nxt(dma)
        /\ UNCHANGED <<txDesc, pc>> /\ 0 < Handed /\ Handed' = Handed - 1
    BY <1>5, RingGives
  <2>5. \A i, j \in 0 .. N : j = i + 1 => Wrap(dma', i) = At(j)
    BY <1>2, <2>1
  <2>6. ASSUME NEW i \in 0 .. N - 1 PROVE own'[At(i)'] <=> i < Handed'
    <3>0. PICK j \in 0 .. N : j = i + 1
      BY <1>0
    <3>1. At(i)' = At(j)
      BY <1>0, <2>5, <3>0 DEF At
    <3>2. CASE i = N - 1
      <4>1. At(j) = dma
        BY <1>0, <1>2, <3>0, <3>2
      <4> QED BY <1>0, <2>1, <3>1, <3>2, <4>1
    <3>3. CASE i # N - 1
      <4>1. j \in 0 .. N - 1 /\ i = j - 1 /\ j # 0 /\ 0 \in 0 .. N - 1
        BY <1>0, <3>0, <3>3
      <4>2. At(j) # dma /\ At(j) \in Desc
        BY <1>2, <4>1
      <4> QED BY <1>0, <2>1, <3>1, <4>1, <4>2
    <3> QED BY <3>2, <3>3
  <2>7. At(Handed)' = At(Handed)
    <3>1. PICK i \in 0 .. N : Handed = i + 1
      BY <1>0, <2>1
    <3>2. Handed' = i /\ Wrap(dma', i) = At(Handed)
      BY <1>0, <2>1, <2>5, <3>1
    <3> QED BY <3>2 DEF At
  <2>8. Nxt(txDesc)' = Nxt(txDesc)
    BY <2>1 DEF Nxt
  <2> QED BY <2>1, <2>6, <2>7, <2>8
<1>6. ASSUME NEW t \in Task \ Reader, NEW f \in Frame, Call(t, f) PROVE Ring'
  BY <1>0, <1>6, <1>a DEF Call, ring, hw
<1>7. ASSUME NEW t \in Reader, Read(t) PROVE Ring'
  BY <1>0, <1>7, <1>a, TxTaskAssumption DEF Read, ring, hw
<1>8. ASSUME NEW t \in Task, Copy(t) PROVE Ring'
  BY <1>0, <1>8, <1>a DEF Copy, hw
<1>9. ASSUME NEW t \in Task, HalTest(t) \/ HalTake(t) \/ Resume(t) \/ HalRelease(t) PROVE Ring'
  BY <1>0, <1>9, <1>a DEF HalTest, HalTake, Resume, HalRelease, ring, hw
<1>10. ASSUME NEW t \in Task, Check(t) PROVE Ring'
  BY <1>0, <1>10, <1>a DEF Check, ring, hw
<1>11. ASSUME NEW t \in Task, Return(t) PROVE Ring'
  <2>1. UNCHANGED <<own, txDesc, dma>>
    BY <1>11 DEF Return, ring, hw
  <2>2. \A u \in Task : pc'[u] = "advance" <=> pc[u] = "advance"
    <3>1. CASE core = t /\ Waiting # {}
      <4>1. PICK w \in Task : /\ pc[w] = "core_wait"
                              /\ pc' = [pc EXCEPT ![t] = "idle", ![w] = Entry(w)]
        BY <1>11, <3>1, FirstWaits DEF Return
      <4> QED BY <1>0, <1>11, <4>1 DEF Entry, Return
    <3>2. CASE ~(core = t /\ Waiting # {})
      BY <1>0, <1>11, <3>2 DEF Return
    <3> QED BY <3>1, <3>2
  <2> QED BY <1>a, <2>1, <2>2
<1>12. CASE DmaSuspend \/ Irq \/ UNCHANGED vars
  BY <1>12, <1>a DEF DmaSuspend, Irq, vars, locals, ring, hw
<1> QED
  BY <1>3, <1>4, <1>5, <1>6, <1>7, <1>8, <1>9, <1>10, <1>11, <1>12 DEF Next, Go

-----------------------------------------------------------------------------
(* The ring implements the bounded queue lwIP expects.                        *)

LEMMA FcnSeq ==
  ASSUME NEW S, NEW n \in Nat, NEW q \in [1 .. n -> S]
  PROVE  q \in Seq(S) /\ Len(q) = n
<1>1. q \in Seq(S)
  BY SeqDef
<1>2. DOMAIN q = 1 .. Len(q) /\ DOMAIN q = 1 .. n /\ Len(q) \in Nat
  BY <1>1, LenProperties
<1> QED BY <1>1, <1>2

(* The i-th frame of the queue is in the i-th descriptor of the controller.   *)
LEMMA QueueIs ==
  ASSUME IInv, Ring
  PROVE  /\ queue \in Seq(Frame) /\ Len(queue) = Handed /\ Handed \in 0 .. N
         /\ \A i \in 0 .. N - 1, k \in 1 .. Handed : k = i + 1 =>
              own[At(i)] /\ queue[k] \in Frame /\ buf[At(i)] = Whole(queue[k])
         /\ \A f \in Frame : Abs!Holds(queue, f) <=> InRing(f)
<1>0. /\ TypeOK /\ Single /\ N \in Nat \ {0} /\ Handed \in 0 .. N /\ Desc = 0 .. N - 1
      /\ dma \in Desc /\ Parts \in Nat \ {0}
  BY HandedIs, TxSizeAssumption DEF IInv, TypeOK, Desc
<1>a. \A i \in 0 .. N - 1 : At(i) \in Desc
  <2>1. \A i \in 0 .. N - 1 : i \in 0 .. N
    BY <1>0
  <2> QED BY <1>0, <2>1, WrapIs DEF At
<1>1. ASSUME NEW i \in 0 .. N - 1, NEW k \in 1 .. Handed, k = i + 1
      PROVE  own[At(i)] /\ queue[k] \in Frame /\ buf[At(i)] = Whole(queue[k])
  <2>1. At(i) = (dma + k - 1) % N
    <3>1. dma + i = dma + k - 1
      BY <1>0, <1>1
    <3> QED BY <3>1 DEF At, Wrap
  <2>2. queue[k] = buf[At(i)][1]
    BY <2>1 DEF queue
  <2>3. At(i) \in Desc /\ own[At(i)]
    <3>1. i < Handed
      BY <1>0, <1>1
    <3> QED BY <1>a, <3>1 DEF Ring
  <2>4. PICK f \in Frame : buf[At(i)] = Whole(f)
    BY <1>0, <2>3 DEF Single
  <2>5. queue[k] = f
    BY <1>0, <2>2, <2>4 DEF Whole
  <2> QED BY <2>3, <2>4, <2>5
<1>2. \A k \in 1 .. Handed : \E i \in 0 .. N - 1 : k = i + 1
  <2> SUFFICES ASSUME NEW k \in 1 .. Handed PROVE \E i \in 0 .. N - 1 : k = i + 1
    OBVIOUS
  <2>1. k - 1 \in 0 .. N - 1 /\ k = (k - 1) + 1
    BY <1>0
  <2> QED BY <2>1
<1>3. queue \in [1 .. Handed -> Frame]
  <2>1. \A k \in 1 .. Handed : queue[k] \in Frame
    BY <1>1, <1>2
  <2>2. queue = [k \in 1 .. Handed |-> queue[k]]
    BY DEF queue
  <2> QED BY <2>1, <2>2
<1>4. queue \in Seq(Frame) /\ Len(queue) = Handed
  BY <1>0, <1>3, FcnSeq
<1>5. ASSUME NEW f \in Frame PROVE Abs!Holds(queue, f) <=> InRing(f)
  <2>1. ASSUME NEW k \in 1 .. Handed, queue[k] = f PROVE InRing(f)
    <3>1. PICK i \in 0 .. N - 1 : k = i + 1
      BY <1>2
    <3>2. own[At(i)] /\ buf[At(i)] = Whole(f) /\ At(i) \in Desc
      BY <1>1, <1>a, <2>1, <3>1
    <3> QED BY <3>2 DEF InRing
  <2>2. ASSUME NEW d \in Desc, own[d], buf[d] = Whole(f)
        PROVE  \E k \in 1 .. Handed : queue[k] = f
    <3>1. PICK i \in 0 .. N - 1 : d = At(i)
      BY <1>0, WrapFacts DEF At
    <3>2. i < Handed
      BY <2>2, <3>1 DEF Ring
    <3>3. PICK k \in 1 .. Handed : k = i + 1
      BY <1>0, <3>2
    <3>4. queue[k] = f
      BY <1>1, <2>2, <3>1, <3>3, WholeInjective
    <3> QED BY <3>4
  <2> QED BY <1>4, <2>1, <2>2 DEF InRing, Abs!Holds
<1> QED BY <1>0, <1>1, <1>4, <1>5

LEMMA SentIs ==
  ASSUME IInv
  PROVE  /\ sent \in Seq(Frame) /\ Len(sent) = Len(wire)
         /\ \A i \in 1 .. Len(wire) : sent[i] \in Frame /\ wire[i] = Whole(sent[i])
         /\ \A f \in Frame : Abs!Holds(sent, f) <=> OnWire(f)
<1>0. Single /\ Len(wire) \in Nat /\ Parts \in Nat \ {0}
  BY TxSizeAssumption DEF IInv, TypeOK
<1>1. ASSUME NEW i \in 1 .. Len(wire) PROVE sent[i] \in Frame /\ wire[i] = Whole(sent[i])
  <2>1. PICK f \in Frame : wire[i] = Whole(f)
    BY <1>0 DEF Single
  <2>2. sent[i] = f
    BY <1>0, <2>1 DEF Whole, sent
  <2> QED BY <2>1, <2>2
<1>2. sent \in [1 .. Len(wire) -> Frame]
  <2>1. sent = [i \in 1 .. Len(wire) |-> sent[i]]
    BY DEF sent
  <2> QED BY <1>1, <2>1
<1>3. sent \in Seq(Frame) /\ Len(sent) = Len(wire)
  BY <1>0, <1>2, FcnSeq
<1>4. \A f \in Frame : Abs!Holds(sent, f) <=> OnWire(f)
  BY <1>1, <1>3, WholeInjective DEF Abs!Holds, OnWire
<1> QED BY <1>1, <1>3, <1>4

LEMMA TakenIs ==
  ASSUME IInv, Ring
  PROVE  \A f \in Frame : Abs!Taken(f) <=> Sent(f)
BY QueueIs, SentIs DEF Abs!Taken, Sent

(* Steps elsewhere leave the queue and the wire as they are.                  *)
LEMMA QueueStill ==
  ASSUME IInv, Ring, Elsewhere, UNCHANGED dma
  PROVE  queue' = queue /\ sent' = sent
<1>1. Handed' = Handed /\ Handed \in 0 .. N /\ N \in Nat \ {0}
  BY HandedIs, TxSizeAssumption DEF Elsewhere, Handed, IInv
<1>2. ASSUME NEW k \in 1 .. Handed
      PROVE  buf'[(dma + k - 1) % N] = buf[(dma + k - 1) % N]
  <2>1. PICK i \in 0 .. N - 1 : i = k - 1
    BY <1>1
  <2>2. dma + i = dma + k - 1 /\ i < Handed /\ i \in 0 .. N /\ dma \in Desc
    BY <1>1, <2>1 DEF IInv, TypeOK, Desc
  <2>3. At(i) = (dma + k - 1) % N
    BY <2>2 DEF At, Wrap
  <2>4. own[At(i)] /\ At(i) \in Desc
    BY <2>2, WrapIs DEF Ring, At
  <2> QED BY <2>3, <2>4 DEF Elsewhere
<1>3. queue' = queue
  BY <1>1, <1>2 DEF queue
<1> QED BY <1>3 DEF Elsewhere, sent

(* Handing a descriptor over appends its frame to the queue.                  *)
LEMMA QueueTakes ==
  ASSUME IInv, Ring, NEW t \in Task, SetOwn(t)
  PROVE  queue' = Append(queue, frame[t]) /\ sent' = sent
<1>1. /\ txDesc = At(Handed) /\ UNCHANGED dma /\ Handed' = Handed + 1 /\ Handed < N
      /\ pc[t] = "own"
  BY RingTakes
<1>2. /\ UNCHANGED <<buf, wire>> /\ t \in Sender /\ frame[t] \in Frame
      /\ buf[txDesc] = Whole(frame[t])
  BY <1>1, SetOwnSends DEF SetOwn, hw, IInv, Fill
<1>3. /\ queue \in Seq(Frame) /\ Len(queue) = Handed /\ Handed \in 0 .. N - 1
      /\ N \in Nat \ {0} /\ 1 \in 1 .. Parts /\ dma \in 0 .. N - 1
  BY <1>1, QueueIs, TxSizeAssumption DEF IInv, TypeOK, Desc
<1>4. PICK n \in Nat : n = Handed + 1
  BY <1>3
<1>5. ASSUME NEW k \in 1 .. n
      PROVE  buf[(dma + k - 1) % N][1] = IF k = n THEN frame[t] ELSE queue[k]
  <2>1. CASE k = n
    <3>1. dma + k - 1 = dma + Handed
      BY <1>3, <1>4, <2>1
    <3>2. (dma + k - 1) % N = txDesc
      BY <1>1, <3>1 DEF At, Wrap
    <3> QED BY <1>2, <1>3, <2>1, <3>2 DEF Whole
  <2>2. CASE k # n
    <3>1. k \in 1 .. Handed
      BY <1>3, <1>4, <2>2
    <3> QED BY <2>2, <3>1 DEF queue
  <2> QED BY <2>1, <2>2
<1>6. queue' = [k \in 1 .. n |-> IF k = n THEN frame[t] ELSE queue[k]]
  <2>1. queue' = [k \in 1 .. n |-> buf[(dma + k - 1) % N][1]]
    BY <1>1, <1>2, <1>4 DEF queue
  <2> QED BY <1>5, <2>1
<1>7. queue' \in [1 .. n -> Frame]
  <2>1. \A k \in 1 .. n : k # n => queue[k] \in Frame
    <3>1. \A k \in 1 .. Len(queue) : queue[k] \in Frame
      BY <1>3
    <3>2. \A k \in 1 .. n : k # n => k \in 1 .. Len(queue)
      BY <1>3, <1>4
    <3> QED BY <3>1, <3>2
  <2> QED BY <1>2, <1>6, <2>1
<1>8. queue' \in Seq(Frame) /\ Len(queue') = n
  BY <1>7, FcnSeq
<1>9. /\ Append(queue, frame[t]) \in Seq(Frame) /\ Len(Append(queue, frame[t])) = n
      /\ \A k \in 1 .. n : Append(queue, frame[t])[k] = IF k = n THEN frame[t] ELSE queue[k]
  BY <1>2, <1>3, <1>4, AppendProperties
<1>10. queue' = Append(queue, frame[t])
  BY <1>6, <1>8, <1>9, SeqEqual
<1> QED BY <1>2, <1>10 DEF sent

(* What the controller transmits is the head of the queue.                    *)
LEMMA QueueGives ==
  ASSUME IInv, Ring, DmaTransmit
  PROVE  /\ queue # << >> /\ queue' = Tail(queue) /\ sent' = Append(sent, Head(queue))
<1>1. /\ dma' = Nxt(dma) /\ 0 < Handed /\ Handed' = Handed - 1 /\ UNCHANGED buf
      /\ wire' = Append(wire, buf[dma])
  BY RingGives DEF DmaTransmit
<1>2. /\ queue \in Seq(Frame) /\ Len(queue) = Handed /\ Handed \in 1 .. N
      /\ N \in Nat \ {0} /\ dma \in Desc /\ Desc = 0 .. N - 1
      /\ sent \in Seq(Frame) /\ Len(sent) = Len(wire) /\ Len(wire) \in Nat
  <2>1. queue \in Seq(Frame) /\ Len(queue) = Handed /\ Handed \in 0 .. N
    BY QueueIs
  <2>2. sent \in Seq(Frame) /\ Len(sent) = Len(wire)
    BY SentIs
  <2>3. N \in Nat \ {0} /\ dma \in Desc /\ Desc = 0 .. N - 1 /\ Len(wire) \in Nat
    BY TxSizeAssumption DEF IInv, TypeOK, Desc
  <2> QED BY <1>1, <2>1, <2>2, <2>3
<1>3. queue # << >> /\ Head(queue) = queue[1] /\ Head(queue) \in Frame
  <2>1. PICK q \in Seq(Frame) : q = queue /\ Len(q) # 0
    BY <1>2
  <2>2. q # << >> /\ Head(q) = q[1] /\ q[1] \in Frame
    BY <2>1
  <2> QED BY <2>1, <2>2
<1>4. PICK n \in 0 .. N - 1 : n = Handed - 1 /\ n \in Nat
  BY <1>2
<1>5. ASSUME NEW k \in 1 .. n, NEW j \in 1 .. Handed, j = k + 1
      PROVE  buf[(Nxt(dma) + k - 1) % N][1] = queue[j]
  <2>1. PICK i \in 0 .. N : k = i + 1
    <3>1. k - 1 \in 0 .. N /\ k = (k - 1) + 1
      BY <1>2, <1>4
    <3> QED BY <3>1
  <2>2. k \in 0 .. N /\ Nxt(dma) \in 0 .. N - 1
    BY <1>2, <1>4, NxtIs
  <2>3. Nxt(dma) + k - 1 = Nxt(dma) + i /\ dma + j - 1 = dma + k
    BY <1>2, <1>5, <2>1, <2>2
  <2>4. Wrap(Nxt(dma), i) = Wrap(dma, k)
    BY <1>2, <2>1, <2>2, WrapFacts
  <2>5. (Nxt(dma) + k - 1) % N = (dma + j - 1) % N
    BY <2>3, <2>4 DEF Wrap
  <2> QED BY <2>5 DEF queue
<1>6. queue' = [k \in 1 .. n |-> buf[(Nxt(dma) + k - 1) % N][1]]
  BY <1>1, <1>4 DEF queue
<1>7. Tail(queue) \in Seq(Frame) /\ Len(Tail(queue)) = n
      /\ \A k \in 1 .. n : Tail(queue)[k] = queue[k + 1]
  BY <1>2, <1>3, <1>4, HeadTailProperties
<1>8. \A k \in 1 .. n : queue'[k] = Tail(queue)[k] /\ queue'[k] \in Frame
  <2> SUFFICES ASSUME NEW k \in 1 .. n
               PROVE  queue'[k] = Tail(queue)[k] /\ queue'[k] \in Frame
    OBVIOUS
  <2>1. PICK j \in 1 .. Handed : j = k + 1
    BY <1>2, <1>4
  <2>2. queue'[k] = queue[j]
    BY <1>5, <1>6, <2>1
  <2> QED BY <1>2, <1>7, <2>1, <2>2
<1>9. queue' = Tail(queue)
  <2>1. queue' \in [1 .. n -> Frame]
    <3>1. queue' = [k \in 1 .. n |-> queue'[k]]
      BY <1>6
    <3> QED BY <1>8, <3>1
  <2>2. queue' \in Seq(Frame) /\ Len(queue') = n
    BY <1>4, <2>1, FcnSeq
  <2> QED BY <1>7, <1>8, <2>2, SeqEqual
<1>10. buf[dma][1] = Head(queue)
  <2>1. (dma + 1 - 1) % N = dma
    <3>1. dma + 1 - 1 = dma + 0
      BY <1>2
    <3> QED BY <1>2, <3>1, WrapFacts DEF Wrap
  <2>2. 1 \in 1 .. Handed
    BY <1>2
  <2> QED BY <1>3, <2>1, <2>2 DEF queue
<1>11. sent' = Append(sent, Head(queue))
  <2>1. PICK l \in Nat : l = Len(wire) + 1
    BY <1>2
  <2>2. /\ Len(wire') = l
        /\ \A i \in 1 .. l : wire'[i] = IF i = l THEN buf[dma] ELSE wire[i]
    BY <1>1, <2>1 DEF IInv, TypeOK
  <2>3. sent' = [i \in 1 .. l |-> IF i = l THEN Head(queue) ELSE sent[i]]
    <3>1. \A i \in 1 .. l : wire'[i][1] = IF i = l THEN Head(queue) ELSE sent[i]
      <4>1. \A i \in 1 .. l : i # l => i \in 1 .. Len(wire)
        BY <1>2, <2>1
      <4> QED BY <1>10, <2>2, <4>1 DEF sent
    <3> QED BY <2>2, <3>1 DEF sent
  <2>4. sent' \in [1 .. l -> Frame]
    <3>1. \A i \in 1 .. l : i # l => i \in 1 .. Len(sent)
      BY <1>2, <2>1
    <3> QED BY <1>2, <1>3, <2>3, <3>1
  <2>5. sent' \in Seq(Frame) /\ Len(sent') = l
    BY <2>4, FcnSeq
  <2>6. /\ Append(sent, Head(queue)) \in Seq(Frame) /\ Len(Append(sent, Head(queue))) = l
        /\ \A i \in 1 .. l : Append(sent, Head(queue))[i]
                               = IF i = l THEN Head(queue) ELSE sent[i]
    BY <1>2, <1>3, <2>1, AppendProperties
  <2> QED BY <2>3, <2>5, <2>6, SeqEqual
<1> QED BY <1>3, <1>9, <1>11

LEMMA StepImplements ==
  ASSUME IInv, Ring, [Next]_vars
  PROVE  [Abs!AbsNext]_(Abs!absVars)
<1> USE DEF IInv, Sender, Step, Goto, Late
<1>0. /\ told \in [Frame -> {"none", "ok", "use"}] /\ Reader \subseteq Task
      /\ \A t \in Reader : pc[t] \in {"idle", "core_wait", "hal", "lock", "unlock", "return"}
  BY TxTaskAssumption DEF TypeOK, Local
<1>a. ASSUME UNCHANGED <<own, buf, wire, dma, told>> PROVE [Abs!AbsNext]_(Abs!absVars)
  <2>1. Elsewhere
    BY <1>a DEF Elsewhere
  <2> QED BY <1>a, <2>1, QueueStill DEF Abs!absVars
<1>1. ASSUME NEW t \in Task \ Reader, NEW f \in Frame, Call(t, f)
      PROVE  [Abs!AbsNext]_(Abs!absVars)
  BY <1>1, <1>a DEF Call, ring, hw
<1>2. ASSUME NEW t \in Reader, Read(t) PROVE [Abs!AbsNext]_(Abs!absVars)
  BY <1>2, <1>a DEF Read, ring, hw
<1>3. ASSUME NEW t \in Task, Copy(t) PROVE [Abs!AbsNext]_(Abs!absVars)
  <2>1. /\ Elsewhere /\ UNCHANGED dma /\ t \in Sender /\ pc[t] = "copy"
        /\ \/ told' = told
           \/ told' = [told EXCEPT ![frame[t]] = "use"]
    BY <1>0, <1>3 DEF Copy, hw, Elsewhere, TypeOK
  <2>2. queue' = queue /\ sent' = sent
    BY <2>1, QueueStill
  <2>3. CASE told' = told
    BY <2>2, <2>3 DEF Abs!absVars
  <2>4. CASE told' = [told EXCEPT ![frame[t]] = "use"]
    <3>1. frame[t] \in Frame /\ told[frame[t]] = "none" /\ ~Abs!Taken(frame[t])
      BY <2>1, NotSentYet, TakenIs
    <3>2. Abs!Answer(frame[t])
      BY <2>2, <2>4, <3>1 DEF Abs!Answer
    <3> QED BY <3>1, <3>2 DEF Abs!AbsNext
  <2> QED BY <2>1, <2>3, <2>4
<1>4. ASSUME NEW t \in Task, HalTest(t) PROVE [Abs!AbsNext]_(Abs!absVars)
  <2>1. ~halLock
    BY <1>0, <1>4 DEF HalTest, Locked, Running, PC
  <2> QED BY <1>4, <1>a, <2>1 DEF HalTest, ring, hw
<1>5. ASSUME NEW t \in Task, HalTake(t) PROVE [Abs!AbsNext]_(Abs!absVars)
  BY <1>5, <1>a DEF HalTake, ring, hw
<1>6. ASSUME NEW t \in Task, Check(t) PROVE [Abs!AbsNext]_(Abs!absVars)
  <2>1. ~own[txDesc]
    BY <1>0, <1>6 DEF Check, Fill
  <2> QED BY <1>6, <1>a, <2>1 DEF Check, ring, hw
<1>7. ASSUME NEW t \in Task, SetOwn(t) PROVE [Abs!AbsNext]_(Abs!absVars)
  <2>1. t \in Sender /\ frame[t] \in Frame /\ pc[t] = "own" /\ told' = told
    BY <1>7, SetOwnSends DEF SetOwn
  <2>2. told[frame[t]] = "none" /\ ~Abs!Taken(frame[t])
    BY <2>1, NotSentYet, TakenIs
  <2>3. Len(queue) < N
    BY <1>7, RingTakes, QueueIs
  <2>4. queue' = Append(queue, frame[t]) /\ sent' = sent
    BY <1>7, QueueTakes
  <2>5. Abs!Take(frame[t])
    BY <2>1, <2>2, <2>3, <2>4 DEF Abs!Take
  <2> QED BY <2>1, <2>5 DEF Abs!AbsNext
<1>8. ASSUME NEW t \in Task, Advance(t) \/ Resume(t) PROVE [Abs!AbsNext]_(Abs!absVars)
  BY <1>8, <1>a DEF Advance, Resume, ring, hw
<1>9. ASSUME NEW t \in Task, HalRelease(t) PROVE [Abs!AbsNext]_(Abs!absVars)
  <2>1. pc[t] = "unlock" /\ UNCHANGED <<own, buf, wire, dma>>
    BY <1>9 DEF HalRelease, ring, hw
  <2>2. CASE t \in Reader
    BY <1>9, <1>a, <2>1, <2>2 DEF HalRelease, Ok
  <2>3. CASE t \in Sender
    <3>1. /\ told' = [told EXCEPT ![frame[t]] = "ok"] /\ frame[t] \in Frame
          /\ told[frame[t]] = "none" /\ Sent(frame[t])
      BY <1>9, <2>1, <2>3 DEF HalRelease, Ok, Carry, Local, Verdict, TypeOK
    <3>2. queue' = queue /\ sent' = sent /\ Abs!Taken(frame[t])
      BY <2>1, <3>1, QueueStill, TakenIs DEF Elsewhere
    <3>3. Abs!Answer(frame[t])
      BY <3>1, <3>2 DEF Abs!Answer
    <3> QED BY <3>1, <3>3 DEF Abs!AbsNext
  <2> QED BY <2>2, <2>3
<1>10. ASSUME NEW t \in Task, Return(t) PROVE [Abs!AbsNext]_(Abs!absVars)
  BY <1>10, <1>a DEF Return, ring, hw
<1>11. CASE DmaTransmit
  <2>1. Abs!Transmit
    BY <1>11, QueueGives DEF DmaTransmit, Abs!Transmit
  <2> QED BY <2>1 DEF Abs!AbsNext
<1>12. CASE DmaSuspend \/ Irq \/ UNCHANGED vars
  BY <1>12, <1>a DEF DmaSuspend, Irq, vars, locals, ring, hw
<1> QED
  BY <1>1, <1>2, <1>3, <1>4, <1>5, <1>6, <1>7, <1>8, <1>9, <1>10, <1>11, <1>12 DEF Next, Go

(* With the core lock around every call, descriptors, buffers and the two     *)
(* locks make a bounded first-in first-out channel to the wire, which answers *)
(* for each frame whether it took it.                                         *)
THEOREM RefinesTxQueue ==
  ASSUME Unlocked = {}
  PROVE  Spec => Abs!AbsSafety
<1>1. Init => Ring /\ Abs!AbsInit
  <2> SUFFICES ASSUME Init PROVE Ring /\ Abs!AbsInit
    OBVIOUS
  <2>1. IInv
    BY Inductive
  <2>2. Handed = 0
    <3>1. {d \in Desc : own[d]} = {}
      BY DEF Init
    <3> QED BY <3>1, FS_EmptySet DEF Handed
  <2>3. At(0) = 0 /\ \A i \in 0 .. N - 1 : At(i) \in Desc
    <3>1. dma = 0 /\ 0 \in Desc
      BY TxSizeAssumption DEF Init, Desc
    <3>2. \A i \in 0 .. N - 1 : i \in 0 .. N
      BY TxSizeAssumption
    <3> QED BY <3>1, <3>2, TxSizeAssumption, WrapFacts, WrapIs DEF At, Desc
  <2>4. Ring
    BY <2>2, <2>3, TxSizeAssumption DEF Init, Ring
  <2>5. queue = << >> /\ sent = << >>
    BY <2>1, <2>2, <2>4, QueueIs, SentIs DEF Init
  <2> QED BY <2>4, <2>5 DEF Init, Abs!AbsInit
<1>2. IInv /\ Ring /\ [Next]_vars => IInv' /\ Ring' /\ [Abs!AbsNext]_(Abs!absVars)
  BY Inductive, StepRing, StepImplements
<1> QED BY <1>1, <1>2, Inductive, PTL DEF Spec, Abs!AbsSafety
=============================================================================
