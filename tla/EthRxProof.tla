----------------------------- MODULE EthRxProof -----------------------------
(***************************************************************************)
(* Proofs about the receive side of the driver, for any number of frames,  *)
(* descriptors and pbufs, and any number of pbufs a frame takes.           *)
(***************************************************************************)
EXTENDS EthRx, FiniteSetTheorems, WellFoundedInduction, TLAPS

(* The ring wraps once at most in what the code adds to an index. *)
Wrap(b, i) == (b + i) % N

LEMMA WrapIs ==
  \A b \in Desc, i \in 0 .. N : /\ Wrap(b, i) = IF b + i < N THEN b + i ELSE b + i - N
                                /\ Wrap(b, i) \in Desc
<1> SUFFICES ASSUME NEW b \in Desc, NEW i \in 0 .. N
             PROVE  /\ Wrap(b, i) = IF b + i < N THEN b + i ELSE b + i - N
                    /\ Wrap(b, i) \in Desc
  OBVIOUS
<1>1. PICK a : a = b + i
  OBVIOUS
<1>2. N \in Nat \ {0} /\ a \in Int /\ 0 <= a /\ a < N + N
  BY <1>1, RxAssumption DEF Desc
<1>3. CASE a < N
  BY <1>1, <1>2, <1>3 DEF Wrap, Desc
<1>4. CASE ~(a < N)
  <2>1. a % N = a - N
    BY <1>2, <1>4
  <2> QED BY <1>1, <1>2, <1>4, <2>1 DEF Wrap, Desc
<1> QED BY <1>3, <1>4

LEMMA NxtIs == \A d \in Desc : /\ Nxt(d) = IF d + 1 < N THEN d + 1 ELSE 0
                               /\ Nxt(d) \in Desc
<1> SUFFICES ASSUME NEW d \in Desc PROVE Nxt(d) \in Desc /\ Nxt(d) = IF d + 1 < N THEN d + 1 ELSE 0
  OBVIOUS
<1>1. N \in Nat \ {0} /\ d \in 0 .. N - 1 /\ 1 \in 0 .. N
  BY RxAssumption DEF Desc
<1>2. Nxt(d) = Wrap(d, 1)
  BY DEF Nxt, Wrap
<1> QED BY <1>1, <1>2, WrapIs

(* Going round the ring. *)
LEMMA WrapFacts ==
  ASSUME NEW b \in Desc
  PROVE  /\ Wrap(b, 0) = b /\ Wrap(b, N) = b
         /\ \A i, j \in 0 .. N - 1 : Wrap(b, i) = Wrap(b, j) => i = j
         /\ \A d \in Desc : \E i \in 0 .. N - 1 : d = Wrap(b, i)
         /\ \A i, j \in 0 .. N : j = i + 1 =>
              Nxt(Wrap(b, i)) = Wrap(b, j) /\ Wrap(Nxt(b), i) = Wrap(b, j)
<1>1. N \in Nat \ {0} /\ b \in 0 .. N - 1 /\ Desc = 0 .. N - 1
  BY RxAssumption DEF Desc
<1>2. ASSUME NEW i \in 0 .. N
      PROVE  /\ Wrap(b, i) = IF b + i < N THEN b + i ELSE b + i - N
             /\ Wrap(b, i) \in 0 .. N - 1
  BY <1>1, WrapIs
<1>3. Wrap(b, 0) = b /\ Wrap(b, N) = b
  <2>1. 0 \in 0 .. N /\ N \in 0 .. N
    BY <1>1
  <2>2. Wrap(b, 0) = IF b + 0 < N THEN b + 0 ELSE b + 0 - N
    BY <1>2, <2>1
  <2>3. Wrap(b, N) = IF b + N < N THEN b + N ELSE b + N - N
    BY <1>2, <2>1
  <2> QED BY <1>1, <2>2, <2>3
<1>4. ASSUME NEW i \in 0 .. N - 1, NEW j \in 0 .. N - 1, Wrap(b, i) = Wrap(b, j)
      PROVE  i = j
  <2>1. i \in 0 .. N /\ j \in 0 .. N
    BY <1>1
  <2>2. /\ Wrap(b, i) = IF b + i < N THEN b + i ELSE b + i - N
        /\ Wrap(b, j) = IF b + j < N THEN b + j ELSE b + j - N
    BY <1>2, <2>1
  <2>3. (IF b + i < N THEN b + i ELSE b + i - N) = (IF b + j < N THEN b + j ELSE b + j - N)
    BY <1>4, <2>2
  <2> QED BY <1>1, <2>3
<1>5. ASSUME NEW d \in Desc PROVE \E i \in 0 .. N - 1 : d = Wrap(b, i)
  <2>1. PICK i : i = IF d >= b THEN d - b ELSE d + N - b
    OBVIOUS
  <2>2. i \in 0 .. N - 1 /\ i \in 0 .. N
    BY <1>1, <2>1
  <2>3. Wrap(b, i) = IF b + i < N THEN b + i ELSE b + i - N
    BY <1>2, <2>2
  <2>4. d = Wrap(b, i)
    BY <1>1, <2>1, <2>2, <2>3
  <2> QED BY <2>2, <2>4
<1>6. ASSUME NEW i \in 0 .. N, NEW j \in 0 .. N, j = i + 1
      PROVE  Nxt(Wrap(b, i)) = Wrap(b, j) /\ Wrap(Nxt(b), i) = Wrap(b, j)
  <2>1. PICK x : x = Wrap(b, i)
    OBVIOUS
  <2>2. /\ x = IF b + i < N THEN b + i ELSE b + i - N
        /\ x \in Desc
        /\ Wrap(b, j) = IF b + j < N THEN b + j ELSE b + j - N
    BY <1>1, <1>2, <2>1
  <2>3. Nxt(x) = IF x + 1 < N THEN x + 1 ELSE 0
    BY <2>2, NxtIs
  <2>4. Nxt(x) = Wrap(b, j)
    BY <1>1, <1>6, <2>2, <2>3
  <2>5. PICK c \in Desc : c = Nxt(b) /\ c = IF b + 1 < N THEN b + 1 ELSE 0
    BY NxtIs
  <2>6. Wrap(c, i) = IF c + i < N THEN c + i ELSE c + i - N
    BY WrapIs
  <2>7. Wrap(c, i) = Wrap(b, j)
    BY <1>1, <1>6, <2>2, <2>5, <2>6
  <2> QED BY <2>1, <2>4, <2>5, <2>7
<1> QED BY <1>3, <1>4, <1>5, <1>6

-----------------------------------------------------------------------------
(* The inductive invariant. *)

(* TypeOK, without the bound of the pool. *)
Typed ==
  /\ arrived \in 0 .. MaxFrame /\ fifo \in Seq(Frame)
  /\ own \in [Desc -> BOOLEAN] /\ buf \in [Desc -> Frame \cup {NoFrame}]
  /\ dma \in Desc /\ rxDesc \in Desc /\ fsDesc \in Desc
  /\ rbus \in BOOLEAN /\ r \in BOOLEAN /\ nis \in BOOLEAN
  /\ irq \in {"out", "clear_r", "clear_nis"} /\ semRx \in Nat
  /\ pc \in {"pend", "get", "alloc", "copy", "release", "resume", "input"}
  /\ starved \in BOOLEAN /\ p \in Frame \cup {NoFrame} /\ data \in Frame \cup {NoFrame}
  /\ free \in Nat /\ held \subseteq Frame /\ input \in Seq(Frame)

(* What the task has in hand, from the step that takes a descriptor to the    *)
(* one that gives it back.                                                    *)
Holds == pc \in {"alloc", "copy", "release"}
InHand ==
  /\ Holds => ~own[fsDesc] /\ rxDesc = Nxt(fsDesc)
  /\ pc \in {"pend", "get", "alloc"} => p = NoFrame
  /\ pc \in {"copy", "input"} => p # NoFrame
  /\ pc \in {"copy", "release"} /\ p # NoFrame => p = buf[fsDesc]
  /\ pc \in {"release", "resume", "input"} =>
       IF p = NoFrame THEN starved ELSE data = p

(* The interrupt handler posts before the task runs again, and for every      *)
(* frame that the task does not know of there is a post or a request.         *)
Told ==
  /\ irq = "out" /\ nis => r
  /\ irq # "out" => semRx > 0
  /\ pc = "pend" /\ ~starved /\ InRing # {} => semRx > 0 \/ nis

(* The descriptors the task has not given back follow each other. *)
K == Cardinality(InRing)
Pos(i) == Wrap(Oldest, i)
Ring ==
  /\ \A i \in 0 .. N - 1 : (~own[Pos(i)]) <=> i < K
  /\ Pos(K) = dma

(* A frame that arrived later is behind in the ring, in the FIFO, in what was *)
(* given to the stack, and from one to the other.                             *)
Given == {input[i] : i \in 1 .. Len(input)}
Waits == {fifo[i] : i \in 1 .. Len(fifo)}
Ascends(s) == \A i, j \in 1 .. Len(s) : i < j => s[i] < s[j]
Ordered ==
  /\ Ascends(input) /\ Ascends(fifo)
  /\ \A i, j \in 0 .. N - 1 : i < j /\ j < K => buf[Pos(i)] < buf[Pos(j)]
  /\ \A d \in InRing : buf[d] \in 1 .. arrived
  /\ \A x \in Waits : x \in 1 .. arrived /\ \A d \in InRing : buf[d] < x
  /\ \A x \in Given : x \in 1 .. arrived /\ \A d \in InRing : x < buf[d]
  /\ \A x \in Given, y \in Waits : x < y
  /\ p # NoFrame =>
       /\ p <= arrived /\ (\A x \in Given : x < p) /\ (\A y \in Waits : p < y)
       /\ ~Holds => \A d \in InRing : p < buf[d]

-----------------------------------------------------------------------------
(* Types, and what each step leaves alone. *)

LEMMA Sizes ==
  /\ 0 \in Desc /\ Desc = 0 .. N - 1 /\ N \in Nat \ {0} /\ MaxFrame \in Nat
  /\ 0 \in 0 .. MaxFrame /\ Frame = 1 .. MaxFrame /\ NoFrame \notin Frame
  /\ (\A d \in Desc : Nxt(d) \in Desc) /\ \A f \in Frame : Need[f] \in Nat \ {0}
BY RxAssumption, NxtIs DEF Desc, Frame, NoFrame

LEMMA Needed == \A f \in Frame : Need[f] \in Nat /\ Need[f] # 0
BY RxAssumption

LEMMA InitTyped == Init => Typed
<1> SUFFICES ASSUME Init PROVE Typed
  OBVIOUS
<1>1. /\ own \in [Desc -> BOOLEAN] /\ buf \in [Desc -> Frame \cup {NoFrame}]
      /\ dma \in Desc /\ rxDesc \in Desc /\ fsDesc \in Desc
  BY Sizes DEF Init
<1>2. arrived \in 0 .. MaxFrame /\ fifo \in Seq(Frame) /\ input \in Seq(Frame)
  BY Sizes DEF Init
<1>3. free \in Nat /\ held \subseteq Frame
  BY RxAssumption DEF Init
<1> QED BY <1>1, <1>2, <1>3 DEF Init, Typed

(* The descriptor in hand has a frame. *)
LEMMA FrameInHand ==
  ASSUME Typed, InHand, Ordered, Holds
  PROVE  fsDesc \in InRing /\ buf[fsDesc] \in Frame
<1>1. fsDesc \in InRing
  BY DEF Typed, InHand, InRing
<1>2. buf[fsDesc] \in 1 .. arrived
  BY <1>1 DEF Ordered
<1> QED BY <1>1, <1>2, Sizes DEF Typed

LEMMA StepTyped == Typed /\ InHand /\ Ordered /\ [Next]_vars => Typed'
<1> SUFFICES ASSUME Typed, InHand, Ordered, [Next]_vars PROVE Typed'
  OBVIOUS
<1> USE DEF Typed
<1>0. \A d \in Desc : Nxt(d) \in Desc
  BY NxtIs
<1>1. CASE Arrive
  <2>1. arrived' \in Frame /\ arrived' \in 0 .. MaxFrame
    <3>1. arrived \in 0 .. MaxFrame /\ arrived < MaxFrame /\ arrived' = arrived + 1
      BY <1>1 DEF Arrive
    <3> QED BY <3>1, RxAssumption DEF Frame
  <2>2. fifo' \in Seq(Frame) /\ rbus' \in BOOLEAN
    <3>1. Append(fifo, arrived') \in Seq(Frame)
      BY <2>1
    <3>2. fifo' \in {fifo, Append(fifo, arrived')} /\ rbus' \in {rbus, FALSE}
      BY <1>1 DEF Arrive
    <3> QED BY <3>1, <3>2
  <2> QED BY <1>1, <2>1, <2>2 DEF Arrive, status, ring, task, pool
<1>2. CASE DmaReceive
  <2>1. fifo' \in Seq(Frame) /\ Head(fifo) \in Frame
    BY <1>2 DEF DmaReceive
  <2>2. /\ own' \in [Desc -> BOOLEAN] /\ buf' \in [Desc -> Frame \cup {NoFrame}]
        /\ dma' \in Desc
    BY <1>0, <1>2, <2>1 DEF DmaReceive
  <2> QED BY <1>2, <2>1, <2>2 DEF DmaReceive, task, pool
<1>3. CASE DmaSuspend
  BY <1>3 DEF DmaSuspend, status, ring, task, pool
<1>4. CASE Irq
  <2>1. semRx' \in Nat
    BY <1>4 DEF Irq, Enter, ClearR, ClearNis
  <2> QED BY <1>4, <2>1 DEF Irq, Enter, ClearR, ClearNis, ctrl, status, ring, task, pool
<1>5. CASE Pend \/ GetFrame
  <2>1. semRx' \in Nat /\ rxDesc' \in Desc /\ fsDesc' \in Desc
    BY <1>0, <1>5 DEF Pend, GetFrame
  <2> QED BY <1>5, <2>1 DEF Pend, GetFrame, Step, ctrl, status, ring, pool
<1>6. CASE Alloc
  <2>1. buf[fsDesc] \in Frame
    BY <1>6, FrameInHand DEF Alloc, Step, Holds
  <2>2. free' \in Nat /\ p' \in Frame \cup {NoFrame}
    <3>1. Need[buf[fsDesc]] \in Nat
      BY <2>1, Needed
    <3> QED BY <1>6, <2>1, <3>1 DEF Alloc
  <2> QED BY <1>6, <2>2 DEF Alloc, ctrl, status, ring
<1>7. CASE Copy \/ Release \/ Resume
  BY <1>7 DEF Copy, Release, Resume, Step, ctrl, status, ring, pool
<1>8. CASE Input \/ InputRefused
  <2>1. p \in Frame /\ data \in Frame
    BY <1>8 DEF Input, InputRefused, Step, InHand
  <2>2. free' \in Nat /\ held' \subseteq Frame /\ input' \in Seq(Frame)
    <3>1. Need[p] \in Nat
      BY <2>1, Needed
    <3>2. Append(input, data) \in Seq(Frame) /\ free + Need[p] \in Nat
      BY <2>1, <3>1
    <3>3. /\ free' \in {free, free + Need[p]} /\ held' \in {held, held \cup {p}}
          /\ input' \in {input, Append(input, data)}
      BY <1>8 DEF Input, InputRefused
    <3> QED BY <2>1, <3>2, <3>3
  <2> QED BY <1>8, <2>2 DEF Input, InputRefused, ctrl, status, ring
<1>9. CASE StackFree
  <2>1. free' \in Nat /\ held' \subseteq Frame
    <3>1. PICK f \in held : held' = held \ {f} /\ free' = free + Need[f]
      BY <1>9 DEF StackFree
    <3>2. Need[f] \in Nat
      BY Needed
    <3> QED BY <3>1, <3>2
  <2> QED BY <1>9, <2>1 DEF StackFree, ctrl, status, ring, task
<1>10. CASE UNCHANGED vars
  BY <1>10 DEF vars, ctrl, status, ring, task, pool
<1> QED BY <1>1, <1>2, <1>3, <1>4, <1>5, <1>6, <1>7, <1>8, <1>9, <1>10 DEF Next, Task

-----------------------------------------------------------------------------
(* What is in hand. *)

LEMMA InitInHand == Init => InHand
BY DEF Init, InHand, Holds

LEMMA StepInHand == Typed /\ InHand /\ Ordered /\ [Next]_vars => InHand'
<1> SUFFICES ASSUME Typed, InHand, Ordered, [Next]_vars PROVE InHand'
  OBVIOUS
<1> USE DEF InHand, Holds
<1>0. /\ own \in [Desc -> BOOLEAN] /\ buf \in [Desc -> Frame \cup {NoFrame}]
      /\ dma \in Desc /\ rxDesc \in Desc /\ fsDesc \in Desc
      /\ \A d : Nxt(d)' = Nxt(d)
  BY DEF Typed, Nxt
<1>1. CASE Arrive \/ DmaSuspend \/ StackFree \/ Irq \/ UNCHANGED vars
  BY <1>1 DEF Arrive, DmaSuspend, StackFree, Irq, Enter, ClearR, ClearNis, vars,
              ring, task, pool, Nxt
<1>2. CASE DmaReceive
  <2>1. /\ own[dma] /\ own' = [own EXCEPT ![dma] = FALSE]
        /\ buf' = [buf EXCEPT ![dma] = Head(fifo)]
        /\ UNCHANGED <<pc, rxDesc, fsDesc, p, data, starved>>
    BY <1>2 DEF DmaReceive, task
  <2>2. Holds => own'[fsDesc] = own[fsDesc] /\ buf'[fsDesc] = buf[fsDesc]
    BY <1>0, <2>1
  <2> QED BY <1>0, <2>1, <2>2
<1>3. CASE Pend
  BY <1>0, <1>3 DEF Pend, Step
<1>4. CASE GetFrame
  BY <1>0, <1>4 DEF GetFrame, Step, ring
<1>5. CASE Alloc
  <2>1. buf[fsDesc] \in Frame
    BY <1>5, FrameInHand DEF Alloc, Step
  <2> QED BY <1>0, <1>5, <2>1, Sizes DEF Alloc, Step, ring
<1>6. CASE Copy
  BY <1>0, <1>6 DEF Copy, Step, ring
<1>7. CASE Release
  BY <1>0, <1>7 DEF Release, Step
<1>8. CASE Resume
  BY <1>0, <1>8 DEF Resume, Step
<1>9. CASE Input \/ InputRefused
  BY <1>0, <1>9 DEF Input, InputRefused, Step
<1> QED BY <1>1, <1>2, <1>3, <1>4, <1>5, <1>6, <1>7, <1>8, <1>9 DEF Next, Task

-----------------------------------------------------------------------------
(* The interrupt and the task. *)

LEMMA InitTold == Init => Told
BY DEF Init, Told, InRing

LEMMA RingSize == Typed => IsFiniteSet(InRing) /\ K \in 0 .. N /\ (K = 0 <=> InRing = {})
<1> SUFFICES ASSUME Typed PROVE IsFiniteSet(InRing) /\ K \in 0 .. N /\ (K = 0 <=> InRing = {})
  OBVIOUS
<1>1. IsFiniteSet(Desc) /\ Cardinality(Desc) = N
  <2>1. 0 \in Int /\ N - 1 \in Int /\ N \in Nat \ {0}
    BY RxAssumption
  <2>2. /\ IsFiniteSet(0 .. N - 1)
        /\ Cardinality(0 .. N - 1) = IF 0 > N - 1 THEN 0 ELSE (N - 1) - 0 + 1
    BY <2>1, FS_Interval
  <2> QED BY <2>1, <2>2 DEF Desc
<1>2. InRing \in SUBSET Desc
  BY DEF InRing
<1>3. IsFiniteSet(InRing) /\ Cardinality(InRing) <= N
  <2> HIDE DEF InRing
  <2> QED BY <1>1, <1>2, FS_Subset
<1>4. K \in Nat /\ (K = 0 <=> InRing = {})
  BY <1>3, FS_CardinalityType, FS_EmptySet DEF K
<1>5. K <= N /\ N \in Nat
  BY <1>3, RxAssumption DEF K
<1> QED BY <1>3, <1>4, <1>5

(* The descriptor the task looks at is the oldest of the ones with a frame.   *)
LEMMA NothingThere ==
  ASSUME Typed, Ring, pc \in {"pend", "get"}, own[rxDesc] PROVE InRing = {}
<1>1. 0 \in 0 .. N - 1 /\ Pos(0) = rxDesc
  <2>1. 0 \in 0 .. N - 1
    BY RxAssumption
  <2>2. rxDesc \in Desc
    BY DEF Typed
  <2>3. Wrap(rxDesc, 0) = rxDesc
    BY <2>2, WrapFacts
  <2>4. Oldest = rxDesc
    BY DEF Oldest
  <2> QED BY <2>1, <2>3, <2>4 DEF Pos
<1>2. ~(0 < K)
  BY <1>1 DEF Ring
<1>3. K \in 0 .. N
  BY RingSize
<1>4. K = 0
  BY <1>2, <1>3
<1> QED BY <1>4, RingSize

LEMMA StepTold == Typed /\ InHand /\ Told /\ Ring /\ [Next]_vars => Told'
<1> SUFFICES ASSUME Typed, InHand, Told, Ring, [Next]_vars PROVE Told'
  OBVIOUS
<1> USE DEF Told
<1>0. semRx \in Nat /\ own \in [Desc -> BOOLEAN] /\ irq \in {"out", "clear_r", "clear_nis"}
  BY DEF Typed
<1>1. CASE Arrive \/ DmaSuspend \/ StackFree \/ UNCHANGED vars
  BY <1>1 DEF Arrive, DmaSuspend, StackFree, vars, status, ring, task, pool, InRing
<1>2. CASE DmaReceive
  BY <1>2 DEF DmaReceive, task
<1>3. CASE Irq
  <2>1. UNCHANGED <<pc, starved, InRing>>
    BY <1>3 DEF Irq, Enter, ClearR, ClearNis, task, ring, InRing
  <2> QED BY <1>0, <1>3, <2>1 DEF Irq, Enter, ClearR, ClearNis, status
<1>4. CASE Pend
  BY <1>0, <1>4 DEF Pend, Step, status
<1>5. CASE GetFrame
  <2>1. own[rxDesc] => InRing' = {}
    BY <1>5, NothingThere DEF GetFrame, Step, ring, InRing
  <2>2. ~own[rxDesc] => pc' = "alloc"
    BY <1>5 DEF GetFrame
  <2> QED BY <1>5, <2>1, <2>2 DEF GetFrame, Step, status
<1>6. CASE Alloc \/ Copy \/ Release
  BY <1>6 DEF Alloc, Copy, Release, Step, status
<1>7. CASE Resume
  BY <1>7 DEF Resume, Step, status, InHand
<1>8. CASE Input \/ InputRefused
  BY <1>8 DEF Input, InputRefused, Step, status
<1> QED BY <1>1, <1>2, <1>3, <1>4, <1>5, <1>6, <1>7, <1>8 DEF Next, Task

-----------------------------------------------------------------------------
(* The ring. *)

LEMMA RingFacts ==
  ASSUME Typed
  PROVE  /\ Oldest \in Desc /\ Pos(0) = Oldest /\ Pos(N) = Oldest
         /\ \A i \in 0 .. N : Pos(i) \in Desc
         /\ \A i, j \in 0 .. N - 1 : Pos(i) = Pos(j) => i = j
         /\ \A d \in Desc : \E i \in 0 .. N - 1 : d = Pos(i)
         /\ \A i, j \in 0 .. N : j = i + 1 => Wrap(Nxt(Oldest), i) = Pos(j) /\ Nxt(Pos(i)) = Pos(j)
<1>1. Oldest \in Desc
  BY DEF Typed, Oldest
<1> QED BY <1>1, WrapFacts, WrapIs DEF Pos

(* A step that does not touch the ring: the task may take the oldest          *)
(* descriptor, or look at it.                                                 *)
RingStays == UNCHANGED <<own, dma, Oldest>>

LEMMA StaysRing ==
  ASSUME RingStays
  PROVE  InRing' = InRing /\ K' = K /\ \A i : Pos(i)' = Pos(i)
BY DEF RingStays, InRing, K, Pos, Wrap

LEMMA RingGrows ==
  ASSUME Typed, InHand, Ring, DmaReceive
  PROVE  /\ own[dma] /\ dma = Pos(K) /\ K \in 0 .. N - 1 /\ fifo # << >>
         /\ own' = [own EXCEPT ![dma] = FALSE] /\ buf' = [buf EXCEPT ![dma] = Head(fifo)]
         /\ dma' = Nxt(dma) /\ fifo' = Tail(fifo)
         /\ UNCHANGED <<Oldest, pc, fsDesc, rxDesc, p, data, input, arrived>>
         /\ InRing' = InRing \cup {dma} /\ K' = K + 1 /\ \A i : Pos(i)' = Pos(i)
<1>1. /\ own[dma] /\ fifo # << >>
      /\ own' = [own EXCEPT ![dma] = FALSE] /\ buf' = [buf EXCEPT ![dma] = Head(fifo)]
      /\ dma' = Nxt(dma) /\ fifo' = Tail(fifo)
      /\ UNCHANGED <<pc, fsDesc, rxDesc, p, data, input, arrived>>
  BY DEF DmaReceive, task
<1>2. Oldest' = Oldest /\ \A i : Pos(i)' = Pos(i)
  BY <1>1 DEF Oldest, Pos, Wrap
<1>3. own \in [Desc -> BOOLEAN] /\ dma \in Desc /\ N \in Nat \ {0}
  BY RxAssumption DEF Typed
<1>4. dma = Pos(K) /\ K \in 0 .. N - 1
  <2>1. K \in 0 .. N /\ Pos(K) = dma /\ 0 \in 0 .. N - 1
    BY <1>3, RingSize DEF Ring
  <2>2. Pos(0) = Pos(N)
    BY RingFacts
  <2>3. K # N
    BY <1>1, <1>3, <2>1, <2>2 DEF Ring
  <2> QED BY <1>3, <2>1, <2>3
<1>5. InRing' = InRing \cup {dma} /\ dma \notin InRing
  BY <1>1, <1>3 DEF InRing
<1>6. K' = K + 1
  BY <1>5, RingSize, FS_AddElement DEF K
<1> QED BY <1>1, <1>2, <1>4, <1>5, <1>6

LEMMA RingShrinks ==
  ASSUME Typed, InHand, Ring, Release
  PROVE  /\ fsDesc = Oldest /\ ~own[fsDesc] /\ K \in 1 .. N
         /\ own' = [own EXCEPT ![fsDesc] = TRUE] /\ Oldest' = Nxt(Oldest)
         /\ pc = "release" /\ pc' = "resume"
         /\ UNCHANGED <<dma, buf, fifo, p, data, input, arrived>>
         /\ InRing' = InRing \ {fsDesc} /\ K' = K - 1
         /\ \A i, j \in 0 .. N : j = i + 1 => Pos(i)' = Pos(j)
<1>1. /\ fsDesc = Oldest /\ ~own[fsDesc] /\ pc = "release" /\ pc' = "resume"
      /\ own' = [own EXCEPT ![fsDesc] = TRUE] /\ rxDesc' = Nxt(fsDesc)
      /\ UNCHANGED <<dma, buf, fifo, p, data, input, arrived>>
  BY DEF Release, Step, Oldest, InHand, Holds, ctrl, status
<1>2. Oldest' = Nxt(Oldest)
  BY <1>1 DEF Oldest
<1>3. own \in [Desc -> BOOLEAN] /\ fsDesc \in Desc /\ N \in Nat \ {0}
  BY RxAssumption DEF Typed
<1>4. InRing' = InRing \ {fsDesc} /\ fsDesc \in InRing
  BY <1>1, <1>3 DEF InRing
<1>5. K' = K - 1
  BY <1>4, RingSize, FS_RemoveElement DEF K
<1>6. K \in 1 .. N
  BY <1>3, <1>4, RingSize
<1>7. \A i : Pos(i)' = Wrap(Nxt(Oldest), i)
  BY <1>2 DEF Pos, Wrap
<1>8. \A i, j \in 0 .. N : j = i + 1 => Pos(i)' = Pos(j)
  BY <1>7, RingFacts
<1> QED BY <1>1, <1>2, <1>4, <1>5, <1>6, <1>8

(* The other steps leave it alone. *)
LEMMA OthersStay ==
  ASSUME Typed, InHand, [Next]_vars, ~DmaReceive, ~Release
  PROVE  RingStays
<1> USE DEF RingStays, Oldest
<1>1. CASE Arrive \/ DmaSuspend \/ StackFree \/ Irq \/ UNCHANGED vars
  BY <1>1 DEF Arrive, DmaSuspend, StackFree, Irq, Enter, ClearR, ClearNis, vars, ctrl,
              ring, task
<1>2. CASE Pend \/ GetFrame
  BY <1>2 DEF Pend, GetFrame, Step, ring, ctrl
<1>3. CASE Alloc \/ Copy
  BY <1>3 DEF Alloc, Copy, Step, ring, ctrl
<1>4. CASE Resume
  BY <1>4 DEF Resume, Step, ring, ctrl
<1>5. CASE Input \/ InputRefused
  BY <1>5 DEF Input, InputRefused, Step, ring, ctrl
<1> QED BY <1>1, <1>2, <1>3, <1>4, <1>5 DEF Next, Task

LEMMA InitRing == Init => Ring
<1> SUFFICES ASSUME Init PROVE Ring
  OBVIOUS
<1>1. Typed /\ InRing = {} /\ dma = Oldest
  BY InitTyped DEF Init, InRing, Oldest
<1>2. K = 0 /\ N \in Nat \ {0}
  BY <1>1, FS_EmptySet, RxAssumption DEF K
<1>3. Pos(0) = dma /\ \A i \in 0 .. N - 1 : own[Pos(i)]
  BY <1>1, <1>2, RingFacts DEF Init
<1> QED BY <1>2, <1>3 DEF Ring

LEMMA StepRing == Typed /\ InHand /\ Ring /\ [Next]_vars => Ring'
<1> SUFFICES ASSUME Typed, InHand, Ring, [Next]_vars PROVE Ring'
  OBVIOUS
<1>0. own \in [Desc -> BOOLEAN] /\ N \in Nat \ {0} /\ K \in 0 .. N
  BY RxAssumption, RingSize DEF Typed
<1>1. CASE DmaReceive
  <2>1. /\ dma = Pos(K) /\ K \in 0 .. N - 1 /\ own' = [own EXCEPT ![dma] = FALSE]
        /\ dma' = Nxt(dma) /\ K' = K + 1 /\ \A i : Pos(i)' = Pos(i)
    BY <1>1, RingGrows
  <2>2. ASSUME NEW i \in 0 .. N - 1 PROVE (~own'[Pos(i)']) <=> i < K'
    <3>1. Pos(i) \in Desc /\ (Pos(i) = dma <=> i = K)
      BY <1>0, <2>1, RingFacts
    <3> QED BY <1>0, <2>1, <3>1 DEF Ring
  <2>3. Pos(K)' = dma'
    <3>1. PICK j \in 0 .. N : j = K + 1
      BY <1>0, <2>1
    <3>2. Nxt(Pos(K)) = Pos(j)
      BY <1>0, <3>1, RingFacts
    <3>3. Pos(K)' = Pos(j)
      BY <2>1, <3>1 DEF Pos
    <3> QED BY <2>1, <3>2, <3>3
  <2> QED BY <2>2, <2>3 DEF Ring
<1>2. CASE Release
  <2>1. /\ fsDesc = Oldest /\ K \in 1 .. N /\ own' = [own EXCEPT ![fsDesc] = TRUE]
        /\ dma' = dma /\ K' = K - 1
        /\ \A i, j \in 0 .. N : j = i + 1 => Pos(i)' = Pos(j)
    BY <1>2, RingShrinks
  <2>2. ASSUME NEW i \in 0 .. N - 1 PROVE (~own'[Pos(i)']) <=> i < K'
    <3>1. PICK j \in 0 .. N : j = i + 1
      BY <1>0
    <3>2. Pos(i)' = Pos(j) /\ Pos(j) \in Desc
      BY <1>0, <2>1, <3>1, RingFacts
    <3>3. CASE j = N
      <4>1. own'[Pos(j)]
        BY <1>0, <2>1, <3>2, <3>3, RingFacts
      <4> QED BY <1>0, <2>1, <3>1, <3>2, <3>3, <4>1
    <3>4. CASE j # N
      <4>1. j \in 0 .. N - 1 /\ 0 \in 0 .. N - 1 /\ j # 0
        BY <1>0, <3>1, <3>4
      <4>2. Pos(j) # fsDesc
        BY <2>1, <4>1, RingFacts
      <4>3. own'[Pos(j)] = own[Pos(j)]
        BY <1>0, <2>1, <3>2, <4>2
      <4>4. (~own[Pos(j)]) <=> j < K
        BY <4>1 DEF Ring
      <4>5. j < K <=> i < K'
        BY <1>0, <2>1, <3>1
      <4> QED BY <3>2, <4>3, <4>4, <4>5
    <3> QED BY <3>3, <3>4
  <2>3. Pos(K)' = dma'
    <3>1. PICK k \in 0 .. N : k = K - 1
      BY <1>0, <2>1
    <3>2. Pos(k)' = Pos(K) /\ K' = k
      BY <1>0, <2>1, <3>1
    <3>3. Pos(K)' = Pos(k)'
      BY <3>2 DEF Pos
    <3> QED BY <2>1, <3>2, <3>3 DEF Ring
  <2> QED BY <2>2, <2>3 DEF Ring
<1>3. CASE ~DmaReceive /\ ~Release
  <2>1. UNCHANGED <<own, dma>> /\ K' = K /\ \A i : Pos(i)' = Pos(i)
    BY <1>3, OthersStay, StaysRing DEF RingStays
  <2>2. Pos(K)' = Pos(K)
    BY <2>1 DEF Pos
  <2> QED BY <2>1, <2>2 DEF Ring
<1> QED BY <1>1, <1>2, <1>3

-----------------------------------------------------------------------------
(* The order of the frames. *)

Elems(s) == {s[i] : i \in 1 .. Len(s)}

LEMMA AppendAscends ==
  ASSUME NEW s \in Seq(Frame), NEW x \in Frame, Ascends(s), \A y \in Elems(s) : y < x
  PROVE  Ascends(Append(s, x)) /\ Elems(Append(s, x)) = Elems(s) \cup {x}
<1> DEFINE t == Append(s, x)
<1>1. /\ Len(s) \in Nat /\ Len(t) = Len(s) + 1 /\ t[Len(s) + 1] = x
      /\ \A i \in 1 .. Len(s) : t[i] = s[i]
  OBVIOUS
<1> HIDE DEF t
<1>2. \A i : i \in 1 .. Len(t) <=> i \in 1 .. Len(s) \/ i = Len(s) + 1
  BY <1>1
<1>3. Elems(t) = Elems(s) \cup {x}
  BY <1>1, <1>2 DEF Elems
<1>4. ASSUME NEW i \in 1 .. Len(t), NEW j \in 1 .. Len(t), i < j PROVE t[i] < t[j]
  <2>1. i \in 1 .. Len(s)
    BY <1>1, <1>2, <1>4
  <2>2. CASE j \in 1 .. Len(s)
    BY <1>1, <1>4, <2>1, <2>2 DEF Ascends
  <2>3. CASE j = Len(s) + 1
    BY <1>1, <2>1, <2>3 DEF Elems
  <2> QED BY <1>2, <2>2, <2>3
<1> QED BY <1>3, <1>4 DEF Ascends, t

LEMMA TailAscends ==
  ASSUME NEW s \in Seq(Frame), s # << >>, Ascends(s)
  PROVE  /\ Ascends(Tail(s)) /\ Elems(s) = Elems(Tail(s)) \cup {Head(s)}
         /\ \A y \in Elems(Tail(s)) : Head(s) < y
<1> DEFINE t == Tail(s)
<1>1. /\ Len(s) \in Nat \ {0} /\ Len(t) = Len(s) - 1 /\ Head(s) = s[1]
      /\ \A i \in 1 .. Len(s) - 1 : t[i] = s[i + 1]
  OBVIOUS
<1> HIDE DEF t
<1>2. ASSUME NEW i \in 1 .. Len(t)
      PROVE  \E k \in 2 .. Len(s) : k = i + 1 /\ t[i] = s[k] /\ k \in 1 .. Len(s)
  BY <1>1
<1>3. ASSUME NEW k \in 2 .. Len(s) PROVE \E i \in 1 .. Len(t) : k = i + 1 /\ t[i] = s[k]
  <2>1. k - 1 \in 1 .. Len(t) /\ k = (k - 1) + 1
    BY <1>1
  <2> QED BY <1>1, <2>1
<1>4. ASSUME NEW i \in 1 .. Len(t), NEW j \in 1 .. Len(t), i < j PROVE t[i] < t[j]
  <2>1. PICK k \in 1 .. Len(s) : k = i + 1 /\ t[i] = s[k]
    BY <1>2
  <2>2. PICK l \in 1 .. Len(s) : l = j + 1 /\ t[j] = s[l]
    BY <1>2
  <2> QED BY <1>4, <2>1, <2>2 DEF Ascends
<1>5. 1 \in 1 .. Len(s) /\ \A k \in 1 .. Len(s) : k = 1 \/ k \in 2 .. Len(s)
  BY <1>1
<1>6. Elems(s) = Elems(t) \cup {s[1]}
  BY <1>2, <1>3, <1>5 DEF Elems
<1>7. \A k \in 2 .. Len(s) : s[1] < s[k]
  BY <1>1, <1>5 DEF Ascends
<1>8. \A y \in Elems(t) : s[1] < y
  BY <1>2, <1>7 DEF Elems
<1> QED BY <1>1, <1>4, <1>6, <1>8 DEF Ascends, t

(* Parts of Ordered. *)
RingAscends == \A i, j \in 0 .. N - 1 : i < j /\ j < K => buf[Pos(i)] < buf[Pos(j)]

LEMMA InitOrdered == Init => Ordered
<1> SUFFICES ASSUME Init PROVE Ordered
  OBVIOUS
<1>1. Typed /\ InRing = {} /\ Given = {} /\ Waits = {} /\ p = NoFrame
  BY InitTyped DEF Init, InRing, Given, Waits
<1>2. Ascends(input) /\ Ascends(fifo)
  BY DEF Init, Ascends
<1>3. K = 0
  BY <1>1, RingSize
<1>4. \A i, j \in 0 .. N - 1 : i < j /\ j < K => buf[Pos(i)] < buf[Pos(j)]
  BY <1>3
<1> QED BY <1>1, <1>2, <1>4 DEF Ordered

LEMMA ArriveOrdered == Typed /\ InHand /\ Ordered /\ Arrive => Ordered'
<1> SUFFICES ASSUME Typed, InHand, Ordered, Arrive PROVE Ordered'
  OBVIOUS
<1>1. /\ UNCHANGED <<own, buf, dma, pc, fsDesc, rxDesc, p, input>>
      /\ arrived \in Nat /\ arrived < MaxFrame /\ arrived' = arrived + 1
  BY DEF Arrive, ring, task, Typed
<1>2. RingStays
  BY <1>1 DEF RingStays, Oldest
<1>3. InRing' = InRing /\ K' = K /\ (\A i : Pos(i)' = Pos(i)) /\ Holds' = Holds /\ Given' = Given
  BY <1>1, <1>2, StaysRing DEF Holds, Given
<1>4. RingAscends' /\ Ascends(input')
  BY <1>1, <1>3 DEF Ordered, RingAscends
<1>5. Ascends(fifo') /\ Waits' \subseteq Waits \cup {arrived'}
  <2>1. CASE UNCHANGED fifo
    BY <2>1 DEF Ordered, Waits
  <2>2. CASE fifo' = Append(fifo, arrived')
    <3>1. arrived' \in Frame /\ fifo \in Seq(Frame) /\ Waits = Elems(fifo)
      BY <1>1, RxAssumption DEF Typed, Frame, Waits, Elems
    <3>2. \A y \in Elems(fifo) : y < arrived'
      BY <1>1, <3>1 DEF Ordered
    <3>3. Ascends(fifo') /\ Elems(fifo') = Elems(fifo) \cup {arrived'}
      BY <2>2, <3>1, <3>2, AppendAscends DEF Ordered
    <3>4. Waits' = Elems(fifo')
      BY DEF Waits, Elems
    <3> QED BY <3>1, <3>3, <3>4
  <2> QED BY <2>1, <2>2 DEF Arrive
<1>6. \A x : x \in 1 .. arrived => x \in 1 .. arrived' /\ x < arrived'
  BY <1>1
<1>7. p # NoFrame => p \in Nat
  BY DEF Typed, Frame
<1>8. /\ \A d \in InRing' : buf'[d] \in 1 .. arrived'
      /\ \A x \in Given' : x \in 1 .. arrived' /\ \A d \in InRing' : x < buf'[d]
  BY <1>1, <1>3, <1>6 DEF Ordered
<1>9. \A x \in Waits' : x \in 1 .. arrived' /\ \A d \in InRing' : buf'[d] < x
  BY <1>1, <1>3, <1>5, <1>6 DEF Ordered
<1>10. \A x \in Given', y \in Waits' : x < y
  BY <1>3, <1>5, <1>6 DEF Ordered
<1>11. p' # NoFrame =>
       /\ p' <= arrived' /\ (\A x \in Given' : x < p') /\ (\A y \in Waits' : p' < y)
       /\ ~Holds' => \A d \in InRing' : p' < buf'[d]
  BY <1>1, <1>3, <1>5, <1>7 DEF Ordered
<1> QED BY <1>4, <1>5, <1>8, <1>9, <1>10, <1>11 DEF Ordered, RingAscends

LEMMA ReceiveOrdered == Typed /\ InHand /\ Ring /\ Ordered /\ DmaReceive => Ordered'
<1> SUFFICES ASSUME Typed, InHand, Ring, Ordered, DmaReceive PROVE Ordered'
  OBVIOUS
<1> DEFINE x == Head(fifo)
<1>1. /\ own[dma] /\ dma = Pos(K) /\ K \in 0 .. N - 1 /\ fifo # << >>
      /\ buf' = [buf EXCEPT ![dma] = x] /\ fifo' = Tail(fifo)
      /\ UNCHANGED <<pc, fsDesc, p, input, arrived>>
      /\ InRing' = InRing \cup {dma} /\ K' = K + 1 /\ \A i : Pos(i)' = Pos(i)
  BY RingGrows
<1>2. /\ Ascends(Tail(fifo)) /\ Elems(fifo) = Elems(Tail(fifo)) \cup {x}
      /\ \A y \in Elems(Tail(fifo)) : x < y
  BY <1>1, TailAscends DEF Typed, Ordered
<1>3. Waits = Elems(fifo) /\ Waits' = Elems(Tail(fifo)) /\ Given' = Given /\ Holds' = Holds
  BY <1>1 DEF Waits, Elems, Given, Holds
<1>4. x \in Waits /\ Waits' \subseteq Waits /\ \A y \in Waits' : x < y
  BY <1>2, <1>3
<1>5. buf'[dma] = x /\ dma \notin InRing /\ \A d \in InRing : buf'[d] = buf[d]
  BY <1>1 DEF Typed, InRing
<1>6. RingAscends'
  <2>1. ASSUME NEW i \in 0 .. N - 1, NEW j \in 0 .. N - 1, i < j, j < K'
        PROVE  buf'[Pos(i)'] < buf'[Pos(j)']
    <3>1. i < K /\ (j < K \/ j = K)
      BY <1>1, <2>1
    <3>2. Pos(i) \in InRing /\ buf'[Pos(i)] = buf[Pos(i)]
      <4>1. Pos(i) \in Desc /\ ~own[Pos(i)]
        BY <3>1, RingFacts, RxAssumption DEF Ring
      <4> QED BY <1>5, <4>1 DEF InRing
    <3>3. CASE j < K
      <4>1. Pos(j) \in Desc /\ ~own[Pos(j)]
        BY <3>3, RingFacts, RxAssumption DEF Ring
      <4>2. buf'[Pos(j)] = buf[Pos(j)]
        BY <1>5, <4>1 DEF InRing
      <4> QED BY <1>1, <2>1, <3>2, <3>3, <4>2 DEF Ordered
    <3>4. CASE j = K
      BY <1>1, <1>4, <1>5, <3>2, <3>4 DEF Ordered
    <3> QED BY <3>1, <3>3, <3>4
  <2> QED BY <2>1 DEF RingAscends
<1>7. /\ \A d \in InRing' : buf'[d] \in 1 .. arrived'
      /\ \A y \in Waits' : y \in 1 .. arrived' /\ \A d \in InRing' : buf'[d] < y
      /\ \A y \in Given' : y \in 1 .. arrived' /\ \A d \in InRing' : y < buf'[d]
  BY <1>1, <1>3, <1>4, <1>5 DEF Ordered
<1>8. \A y \in Given', z \in Waits' : y < z
  BY <1>3, <1>4 DEF Ordered
<1>9. p' # NoFrame =>
       /\ p' <= arrived' /\ (\A y \in Given' : y < p') /\ (\A y \in Waits' : p' < y)
       /\ ~Holds' => \A d \in InRing' : p' < buf'[d]
  BY <1>1, <1>3, <1>4, <1>5 DEF Ordered
<1> QED BY <1>1, <1>2, <1>6, <1>7, <1>8, <1>9 DEF Ordered, RingAscends

LEMMA ReleaseOrdered == Typed /\ InHand /\ Ring /\ Ordered /\ Release => Ordered'
<1> SUFFICES ASSUME Typed, InHand, Ring, Ordered, Release PROVE Ordered'
  OBVIOUS
<1>1. /\ fsDesc = Oldest /\ ~own[fsDesc] /\ K \in 1 .. N /\ pc = "release" /\ pc' = "resume"
      /\ UNCHANGED <<dma, buf, fifo, p, data, input, arrived>>
      /\ InRing' = InRing \ {fsDesc} /\ K' = K - 1
      /\ \A i, j \in 0 .. N : j = i + 1 => Pos(i)' = Pos(j)
  BY RingShrinks
<1>2. Given' = Given /\ Waits' = Waits /\ N \in Nat \ {0} /\ Holds /\ ~Holds'
  BY <1>1, RxAssumption DEF Given, Waits, Holds
<1>3. RingAscends'
  <2>1. ASSUME NEW i \in 0 .. N - 1, NEW j \in 0 .. N - 1, i < j, j < K'
        PROVE  buf'[Pos(i)'] < buf'[Pos(j)']
    <3>1. PICK k \in 0 .. N - 1 : k = i + 1 /\ Pos(i)' = Pos(k)
      <4>1. PICK k \in 0 .. N : k = i + 1
        BY <1>2
      <4> QED BY <1>1, <1>2, <2>1, <4>1
    <3>2. PICK l \in 0 .. N - 1 : l = j + 1 /\ Pos(j)' = Pos(l)
      <4>1. PICK l \in 0 .. N : l = j + 1
        BY <1>2
      <4> QED BY <1>1, <1>2, <2>1, <4>1
    <3>3. k < l /\ l < K
      BY <1>1, <2>1, <3>1, <3>2
    <3> QED BY <1>1, <3>1, <3>2, <3>3 DEF Ordered
  <2> QED BY <2>1 DEF RingAscends
<1>4. p # NoFrame => \A d \in InRing' : p < buf[d]
  <2> SUFFICES ASSUME p # NoFrame, NEW d \in InRing \ {fsDesc} PROVE p < buf[d]
    BY <1>1
  <2>1. p = buf[fsDesc] /\ fsDesc = Pos(0) /\ d \in Desc /\ ~own[d]
    BY <1>1, RingFacts DEF InHand, InRing
  <2>2. PICK i \in 0 .. N - 1 : d = Pos(i)
    BY <2>1, RingFacts
  <2>3. i # 0 /\ i < K /\ 0 \in 0 .. N - 1
    BY <1>2, <2>1, <2>2 DEF Ring
  <2>4. 0 < i
    BY <2>3
  <2> QED BY <2>1, <2>2, <2>3, <2>4 DEF Ordered
<1>5. /\ \A d \in InRing' : buf'[d] \in 1 .. arrived'
      /\ \A y \in Waits' : y \in 1 .. arrived' /\ \A d \in InRing' : buf'[d] < y
      /\ \A y \in Given' : y \in 1 .. arrived' /\ \A d \in InRing' : y < buf'[d]
      /\ \A y \in Given', z \in Waits' : y < z
  BY <1>1, <1>2 DEF Ordered
<1>6. p' # NoFrame =>
       /\ p' <= arrived' /\ (\A y \in Given' : y < p') /\ (\A y \in Waits' : p' < y)
       /\ ~Holds' => \A d \in InRing' : p' < buf'[d]
  BY <1>1, <1>2, <1>4 DEF Ordered
<1> QED BY <1>1, <1>3, <1>5, <1>6 DEF Ordered, RingAscends

(* A step that leaves the frames where they are.                              *)
LEMMA SameOrdered ==
  ASSUME Ordered, RingStays, UNCHANGED <<arrived, buf, fifo, input>>,
         p' # NoFrame => p' = p /\ Holds' = Holds
  PROVE  Ordered'
<1>1. InRing' = InRing /\ K' = K /\ (\A i : Pos(i)' = Pos(i)) /\ Given' = Given /\ Waits' = Waits
  BY StaysRing DEF Given, Waits
<1>2. RingAscends'
  BY <1>1 DEF Ordered, RingAscends
<1>3. p' # NoFrame =>
       /\ p' <= arrived' /\ (\A y \in Given' : y < p') /\ (\A y \in Waits' : p' < y)
       /\ ~Holds' => \A d \in InRing' : p' < buf'[d]
  BY <1>1 DEF Ordered
<1> QED BY <1>1, <1>2, <1>3 DEF Ordered, RingAscends

LEMMA AllocOrdered == Typed /\ InHand /\ Ordered /\ Alloc => Ordered'
<1> SUFFICES ASSUME Typed, InHand, Ordered, Alloc PROVE Ordered'
  OBVIOUS
<1>1. /\ UNCHANGED <<arrived, buf, fifo, input, own, dma, fsDesc, rxDesc>> /\ Holds /\ Holds'
      /\ RingStays /\ p = NoFrame /\ p' \in {NoFrame, buf[fsDesc]}
  BY DEF Alloc, Step, Holds, ctrl, ring, RingStays, Oldest, InHand
<1>2. CASE p' = NoFrame
  BY <1>1, <1>2, SameOrdered
<1>3. CASE p' = buf[fsDesc]
  <2>1. InRing' = InRing /\ K' = K /\ (\A i : Pos(i)' = Pos(i)) /\ Given' = Given /\ Waits' = Waits
    BY <1>1, StaysRing DEF Given, Waits
  <2>2. RingAscends'
    BY <1>1, <2>1 DEF Ordered, RingAscends
  <2>3. fsDesc \in InRing
    BY <1>1, FrameInHand
  <2>4. /\ p' <= arrived' /\ (\A y \in Given' : y < p') /\ (\A y \in Waits' : p' < y)
    BY <1>1, <1>3, <2>1, <2>3 DEF Ordered
  <2> QED BY <1>1, <2>1, <2>2, <2>4 DEF Ordered, RingAscends
<1> QED BY <1>1, <1>2, <1>3

LEMMA InputOrdered == Typed /\ InHand /\ Ordered /\ Input => Ordered'
<1> SUFFICES ASSUME Typed, InHand, Ordered, Input PROVE Ordered'
  OBVIOUS
<1>1. /\ UNCHANGED <<arrived, buf, fifo, own, dma, fsDesc, rxDesc>> /\ RingStays
      /\ p' = NoFrame /\ p # NoFrame /\ data = p /\ input' = Append(input, p) /\ ~Holds
  BY DEF Input, Step, Holds, ctrl, ring, RingStays, Oldest, InHand
<1>2. InRing' = InRing /\ K' = K /\ (\A i : Pos(i)' = Pos(i)) /\ Waits' = Waits
  BY <1>1, StaysRing DEF Waits
<1>3. RingAscends'
  BY <1>1, <1>2 DEF Ordered, RingAscends
<1>4. p \in Frame /\ input \in Seq(Frame) /\ p \in 1 .. arrived
  BY <1>1 DEF Typed, Ordered, Frame
<1>5. Given = Elems(input) /\ Given' = Elems(input')
  BY DEF Given, Elems
<1>6. Ascends(input') /\ Given' = Given \cup {p}
  BY <1>1, <1>4, <1>5, AppendAscends DEF Ordered
<1>7. /\ \A d \in InRing' : buf'[d] \in 1 .. arrived'
      /\ \A y \in Waits' : y \in 1 .. arrived' /\ \A d \in InRing' : buf'[d] < y
      /\ \A y \in Given' : y \in 1 .. arrived' /\ \A d \in InRing' : y < buf'[d]
      /\ \A y \in Given', z \in Waits' : y < z
  BY <1>1, <1>2, <1>4, <1>6 DEF Ordered
<1> QED BY <1>1, <1>3, <1>6, <1>7 DEF Ordered, RingAscends

LEMMA StepOrdered == Typed /\ InHand /\ Ring /\ Ordered /\ [Next]_vars => Ordered'
<1> SUFFICES ASSUME Typed, InHand, Ring, Ordered, [Next]_vars PROVE Ordered'
  OBVIOUS
<1>1. CASE ~DmaReceive /\ ~Release /\ ~Arrive /\ ~Alloc /\ ~Input
  <2>1. RingStays
    BY <1>1, OthersStay
  <2>2. UNCHANGED <<arrived, buf, fifo, input>>
    BY <1>1 DEF Next, Task, DmaSuspend, StackFree, Irq, Enter, ClearR, ClearNis, vars, Pend,
                GetFrame, Copy, Resume, InputRefused, ctrl, ring
  <2>3. p' # NoFrame => p' = p /\ Holds' = Holds
    <3>1. CASE DmaSuspend \/ StackFree \/ Irq \/ UNCHANGED vars
      BY <3>1 DEF DmaSuspend, StackFree, Irq, Enter, ClearR, ClearNis, vars, task, Holds
    <3>2. CASE Pend \/ GetFrame
      BY <3>2 DEF Pend, GetFrame, Step, InHand
    <3>3. CASE Copy \/ Resume \/ InputRefused
      BY <3>3 DEF Copy, Resume, InputRefused, Step, Holds
    <3> QED BY <1>1, <3>1, <3>2, <3>3 DEF Next, Task
  <2> QED BY <2>1, <2>2, <2>3, SameOrdered
<1> QED BY <1>1, ArriveOrdered, ReceiveOrdered, ReleaseOrdered, AllocOrdered, InputOrdered

-----------------------------------------------------------------------------
(* The pbufs of a set of frames, counted as elements of a set. *)

Units(s) == {u \in Frame \X Nat : u[1] \in s /\ u[2] \in 1 .. Need[u[1]]}

(* Among some sets of frames one is least: no element of it can be left out.  *)
LEMMA LeastSet ==
  ASSUME NEW B \in SUBSET (SUBSET Frame), B # {}
  PROVE  \E s \in B : \A x \in s : s \ {x} \notin B
<1> DEFINE R == {ss \in Nat \X Nat : ss[1] < ss[2]}
           C == {n \in Nat : \E s \in B : n = Cardinality(s)}
<1>1. IsWellFoundedOn(R, Nat)
  BY NatLessThanWellFounded DEF OpToRel
<1>2. \A x, y \in C : y < x => <<y, x>> \in R
  OBVIOUS
<1>3. ASSUME NEW s \in B PROVE IsFiniteSet(s) /\ Cardinality(s) \in Nat
  <2>1. IsFiniteSet(Frame)
    BY Sizes, FS_Interval
  <2>2. s \in SUBSET Frame
    OBVIOUS
  <2> QED BY <2>1, <2>2, FS_Subset, FS_CardinalityType
<1>4. C \in SUBSET Nat /\ C # {}
  BY <1>3
<1>5. PICK n \in C : \A m \in C : ~(<<m, n>> \in R)
  <2> HIDE DEF R, C
  <2>1. \E n \in C : \A m \in C : ~(<<m, n>> \in R)
    BY <1>1, <1>4, WFMin
  <2> QED BY <2>1
<1> HIDE DEF R
<1>6. PICK s \in B : n = Cardinality(s)
  BY <1>5
<1>7. ASSUME NEW x \in s, s \ {x} \in B PROVE FALSE
  <2>1. Cardinality(s \ {x}) = Cardinality(s) - 1
    BY <1>3, FS_RemoveElement
  <2>2. Cardinality(s) \in Nat /\ Cardinality(s \ {x}) \in C
    BY <1>3, <1>7
  <2>3. Cardinality(s \ {x}) < n
    BY <1>6, <2>1, <2>2
  <2> QED BY <1>2, <1>5, <2>2, <2>3
<1> QED BY <1>7

LEMMA UnitsOfOne ==
  ASSUME NEW s \in SUBSET Frame, NEW x \in s, IsFiniteSet(Units(s \ {x}))
  PROVE  IsFiniteSet(Units(s)) /\ Cardinality(Units(s)) = Need[x] + Cardinality(Units(s \ {x}))
<1> DEFINE T == {x} \X (1 .. Need[x])
           U == Units(s \ {x})
<1>1. x \in Frame /\ Need[x] \in Nat
  BY Needed
<1>2. Units(s) = T \cup U /\ T \cap U = {}
  BY <1>1 DEF Units
<1>3. IsFiniteSet(1 .. Need[x]) /\ Cardinality(1 .. Need[x]) = Need[x]
  BY <1>1, FS_Interval
<1>4. IsFiniteSet({x}) /\ Cardinality({x}) = 1
  BY FS_Singleton
<1>5. IsFiniteSet(T) /\ Cardinality(T) = 1 * Need[x]
  BY <1>3, <1>4, FS_Product
<1> HIDE DEF T, U
<1>6. IsFiniteSet(T \cup U) /\ Cardinality(T \cup U) = Cardinality(T) + Cardinality(U) - Cardinality(T \cap U)
  BY <1>5, FS_Union DEF U
<1>7. Cardinality(T \cap U) = 0
  BY <1>2, FS_EmptySet
<1>8. Cardinality(U) \in Nat
  BY FS_CardinalityType DEF U
<1> QED BY <1>1, <1>2, <1>5, <1>6, <1>7, <1>8 DEF U

LEMMA UnitsFinite ==
  \A s \in SUBSET Frame : IsFiniteSet(Units(s)) /\ Cardinality(Units(s)) \in Nat
<1> DEFINE B == {s \in SUBSET Frame : ~IsFiniteSet(Units(s))}
<1>1. ASSUME B # {} PROVE FALSE
  <2>1. PICK s \in B : \A x \in s : s \ {x} \notin B
    BY <1>1, LeastSet
  <2>2. CASE s = {}
    BY <2>1, <2>2, FS_EmptySet DEF Units
  <2>3. ASSUME NEW x \in s PROVE FALSE
    <3>1. s \ {x} \in SUBSET Frame /\ s \in SUBSET Frame
      OBVIOUS
    <3>2. IsFiniteSet(Units(s \ {x}))
      BY <2>1, <3>1
    <3> QED BY <2>1, <3>1, <3>2, UnitsOfOne
  <2> QED BY <2>2, <2>3
<1> QED BY <1>1, FS_CardinalityType

LEMMA UnitsOf ==
  ASSUME NEW s \in SUBSET Frame, NEW x \in Frame
  PROVE  /\ Units({}) = {}
         /\ x \in s => Cardinality(Units(s)) = Need[x] + Cardinality(Units(s \ {x}))
         /\ x \notin s => Cardinality(Units(s \cup {x})) = Need[x] + Cardinality(Units(s))
<1>1. Units({}) = {}
  BY DEF Units
<1>2. ASSUME x \in s
      PROVE  Cardinality(Units(s)) = Need[x] + Cardinality(Units(s \ {x}))
  <2>1. IsFiniteSet(Units(s \ {x}))
    BY UnitsFinite
  <2> QED BY <1>2, <2>1, UnitsOfOne
<1>3. ASSUME x \notin s
      PROVE  Cardinality(Units(s \cup {x})) = Need[x] + Cardinality(Units(s))
  <2> DEFINE t == s \cup {x}
  <2>1. t \in SUBSET Frame /\ x \in t /\ t \ {x} = s
    BY <1>3
  <2>2. IsFiniteSet(Units(s))
    BY UnitsFinite
  <2> HIDE DEF t
  <2>3. Cardinality(Units(t)) = Need[x] + Cardinality(Units(t \ {x}))
    BY <2>1, <2>2, UnitsOfOne
  <2> QED BY <2>1, <2>3 DEF t
<1> QED BY <1>1, <1>2, <1>3

(* The sum over a set of frames is the number of their pbufs. *)
LEMMA SumIs ==
  ASSUME NEW S \in SUBSET Frame
  PROVE  MapThenSumSet(LAMBDA f : Need[f], S) = Cardinality(Units(S))
<1> DEFINE G == [s \in SUBSET S |-> Cardinality(Units(s))]
<1>1. G = [s \in SUBSET S |-> IF s = {} THEN 0
             ELSE LET x == CHOOSE x \in s : TRUE IN Need[x] + G[s \ {x}]]
  <2>1. ASSUME NEW s \in SUBSET S
        PROVE  Cardinality(Units(s)) = IF s = {} THEN 0
             ELSE LET x == CHOOSE x \in s : TRUE IN Need[x] + G[s \ {x}]
    <3>1. CASE s = {}
      BY <3>1, UnitsOf, FS_EmptySet DEF Units
    <3>2. CASE s # {}
      <4> DEFINE x == CHOOSE x \in s : TRUE
      <4>1. x \in s
        BY <3>2
      <4>2. s \in SUBSET Frame /\ s \ {x} \in SUBSET S
        OBVIOUS
      <4> HIDE DEF x
      <4>3. Cardinality(Units(s)) = Need[x] + Cardinality(Units(s \ {x}))
        BY <4>1, <4>2, UnitsOf
      <4>4. Cardinality(Units(s)) = Need[x] + G[s \ {x}]
        BY <4>2, <4>3
      <4> HIDE DEF G
      <4> QED BY <3>2, <4>4 DEF x
    <3> QED BY <3>1, <3>2
  <2> QED BY <2>1
<1> HIDE DEF G
<1>2. PICK h : /\ h = [s \in SUBSET S |-> IF s = {} THEN 0
                         ELSE LET x == CHOOSE x \in s : TRUE IN Need[x] + h[s \ {x}]]
               /\ MapThenSumSet(LAMBDA f : Need[f], S) = h[S]
  BY <1>1 DEF MapThenSumSet, MapThenFoldSet
<1> DEFINE B == {s \in SUBSET S : h[s] # Cardinality(Units(s))}
<1>3. ASSUME B # {} PROVE FALSE
  <2>1. PICK s \in B : \A x \in s : s \ {x} \notin B
    <3>1. B \in SUBSET (SUBSET Frame)
      OBVIOUS
    <3> HIDE DEF B
    <3> QED BY <1>3, <3>1, LeastSet
  <2>2. s \in SUBSET S /\ s \in SUBSET Frame
    OBVIOUS
  <2>3. CASE s = {}
    <3>1. h[s] = 0
      BY <1>2, <2>2, <2>3
    <3> QED BY <2>1, <2>3, <3>1, FS_EmptySet DEF Units
  <2>4. CASE s # {}
    <3> DEFINE x == CHOOSE x \in s : TRUE
    <3>1. x \in s
      BY <2>4
    <3>2. h[s] = Need[x] + h[s \ {x}]
      BY <1>2, <2>2, <2>4
    <3> HIDE DEF x
    <3>3. h[s \ {x}] = Cardinality(Units(s \ {x}))
      BY <2>1, <2>2, <3>1
    <3>4. Cardinality(Units(s)) = Need[x] + Cardinality(Units(s \ {x}))
      BY <2>2, <3>1, UnitsOf
    <3> QED BY <2>1, <3>2, <3>3, <3>4
  <2> QED BY <2>3, <2>4
<1>4. h[S] = Cardinality(Units(S))
  BY <1>3
<1> QED BY <1>2, <1>4

-----------------------------------------------------------------------------
(* The pool. *)

(* What the stack holds was given to it; the rest as in PbufsConserved. *)
HandNeed == IF p = NoFrame THEN 0 ELSE Need[p]
Pooled ==
  /\ held \subseteq Given
  /\ free + HandNeed + Cardinality(Units(held)) = Pool

LEMMA PoolFacts ==
  ASSUME Typed
  PROVE  /\ HandNeed \in Nat /\ Cardinality(Units(held)) \in Nat /\ free \in Nat /\ Pool \in Nat
         /\ \A f \in held : f \in Frame /\ Need[f] \in Nat
         /\ \A f \in held : Cardinality(Units(held)) = Need[f] + Cardinality(Units(held \ {f}))
         /\ p # NoFrame => p \in Frame /\ Need[p] \in Nat
<1>1. held \in SUBSET Frame /\ p \in Frame \cup {NoFrame} /\ free \in Nat
  BY DEF Typed
<1> QED BY <1>1, UnitsFinite, UnitsOf, Needed, RxAssumption DEF HandNeed

LEMMA InitPooled == Init => Pooled
<1> SUFFICES ASSUME Init PROVE Pooled
  OBVIOUS
<1>1. free = Pool /\ held = {} /\ p = NoFrame /\ Pool \in Nat
  BY RxAssumption DEF Init
<1>2. Cardinality(Units(held)) = 0
  BY <1>1, FS_EmptySet DEF Units
<1>3. HandNeed = 0
  BY <1>1 DEF HandNeed
<1> QED BY <1>1, <1>2, <1>3 DEF Pooled

LEMMA StepPooled == Typed /\ InHand /\ Ordered /\ Pooled /\ [Next]_vars => Pooled'
<1> SUFFICES ASSUME Typed, InHand, Ordered, Pooled, [Next]_vars PROVE Pooled'
  OBVIOUS
<1>1. /\ HandNeed \in Nat /\ Cardinality(Units(held)) \in Nat /\ free \in Nat /\ Pool \in Nat
      /\ free + HandNeed + Cardinality(Units(held)) = Pool
  BY PoolFacts DEF Pooled
<1>2. CASE Alloc
  <2>1. /\ UNCHANGED <<held, input>> /\ p = NoFrame /\ Holds
        /\ \/ p' = p /\ free' = free
           \/ free' = free - Need[buf[fsDesc]] /\ p' = buf[fsDesc]
    BY <1>2 DEF Alloc, Step, InHand, Holds
  <2>2. buf[fsDesc] \in Frame /\ buf[fsDesc] # NoFrame
    BY <2>1, FrameInHand, Sizes
  <2>3. Need[buf[fsDesc]] \in Nat
    BY <2>2, Needed
  <2>4. Units(held)' = Units(held) /\ Given' = Given
    BY <2>1 DEF Units, Given
  <2>5. free' + HandNeed' = free + HandNeed
    BY <1>1, <2>1, <2>2, <2>3 DEF HandNeed
  <2> QED BY <1>1, <2>1, <2>4, <2>5 DEF Pooled
<1>3. CASE Input
  <2>1. /\ p # NoFrame /\ held' = held \cup {p} /\ p' = NoFrame /\ UNCHANGED free
        /\ data = p /\ input' = Append(input, data)
    BY <1>3 DEF Input, Step, InHand
  <2>2. p \in Frame /\ Need[p] \in Nat /\ input \in Seq(Frame) /\ held \in SUBSET Frame
    BY <2>1, PoolFacts DEF Typed
  <2>3. p \notin held
    <3>1. \A x \in Given : x < p
      BY <2>1 DEF Ordered
    <3>2. ~(p < p)
      BY <2>2, Sizes
    <3> QED BY <3>1, <3>2 DEF Pooled
  <2>4. Given \subseteq Given' /\ p \in Given'
    <3>1. \A i \in 1 .. Len(input) : input'[i] = input[i] /\ i \in 1 .. Len(input')
      BY <2>1, <2>2
    <3>2. Len(input') \in 1 .. Len(input') /\ input'[Len(input')] = p
      BY <2>1, <2>2
    <3> QED BY <3>1, <3>2 DEF Given
  <2>5. Cardinality(Units(held)') = Need[p] + Cardinality(Units(held))
    <3>1. Units(held)' = Units(held \cup {p})
      BY <2>1 DEF Units
    <3> QED BY <2>2, <2>3, <3>1, UnitsOf
  <2>6. HandNeed = Need[p] /\ HandNeed' = 0
    BY <2>1 DEF HandNeed
  <2> QED BY <1>1, <2>1, <2>2, <2>4, <2>5, <2>6 DEF Pooled
<1>4. CASE InputRefused
  <2>1. p # NoFrame /\ p' = NoFrame /\ free' = free + Need[p] /\ UNCHANGED <<held, input>>
    BY <1>4 DEF InputRefused, Step, InHand
  <2>2. Units(held)' = Units(held) /\ Given' = Given
    BY <2>1 DEF Units, Given
  <2>3. HandNeed = Need[p] /\ HandNeed' = 0
    BY <2>1 DEF HandNeed
  <2> QED BY <1>1, <2>1, <2>2, <2>3 DEF Pooled
<1>5. CASE StackFree
  <2>1. PICK f \in held : held' = held \ {f} /\ free' = free + Need[f] /\ UNCHANGED <<p, input>>
    BY <1>5 DEF StackFree, task
  <2>2. Need[f] \in Nat /\ Cardinality(Units(held)) = Need[f] + Cardinality(Units(held \ {f}))
    BY PoolFacts
  <2>3. Units(held)' = Units(held \ {f}) /\ Given' = Given /\ HandNeed' = HandNeed
    BY <2>1 DEF Units, Given, HandNeed
  <2>4. Cardinality(Units(held \ {f})) \in Nat
    BY UnitsFinite DEF Typed
  <2> QED BY <1>1, <2>1, <2>2, <2>3, <2>4 DEF Pooled
<1>6. CASE ~Alloc /\ ~Input /\ ~InputRefused /\ ~StackFree
  <2>1. UNCHANGED <<held, free, p, input>>
    BY <1>6 DEF Next, Task, Arrive, DmaReceive, DmaSuspend, Irq, Enter, ClearR, ClearNis, vars,
                Pend, GetFrame, Copy, Release, Resume, pool, task
  <2> QED BY <2>1 DEF Pooled, Units, Given, HandNeed
<1> QED BY <1>2, <1>3, <1>4, <1>5, <1>6

-----------------------------------------------------------------------------
(* The theorems. *)

RInv == Typed /\ InHand /\ Told /\ Ring /\ Ordered /\ Pooled

LEMMA RInvHolds == Spec => []RInv
<1>1. Init => RInv
  BY InitTyped, InitInHand, InitTold, InitRing, InitOrdered, InitPooled DEF RInv
<1>2. RInv /\ [Next]_vars => RInv'
  BY StepTyped, StepInHand, StepTold, StepRing, StepOrdered, StepPooled DEF RInv
<1> QED BY <1>1, <1>2, PTL DEF Spec

LEMMA TypesFollow == RInv => TypeOK
<1> SUFFICES ASSUME RInv PROVE TypeOK
  OBVIOUS
<1>1. free \in 0 .. Pool
  BY PoolFacts DEF RInv, Pooled
<1> QED BY <1>1 DEF RInv, Typed, TypeOK

(* HAL_ETH_GetReceivedFrame_IT and the controller go round the ring at their *)
(* own pace: what the task has not given back is one run of descriptors that *)
(* ends where the controller is, with the frames in order of arrival.        *)
THEOREM RingNeverSlips == Spec => []RingConsistent
<1>1. RInv => RingConsistent
  <2> SUFFICES ASSUME RInv PROVE RingConsistent
    OBVIOUS
  <2>1. Typed /\ InHand /\ Ring /\ Ordered /\ K \in 0 .. N /\ N \in Nat \ {0}
    BY RingSize, Sizes DEF RInv
  <2>2. ASSUME NEW i \in 0 .. N - 1
        PROVE  (Oldest + i) % N \in InRing <=> i < K
    <3>1. Pos(i) \in Desc
      BY <2>1, RingFacts
    <3> QED BY <2>1, <3>1 DEF Ring, InRing, Pos, Wrap
  <2>3. (Oldest + K) % N = dma
    BY <2>1 DEF Ring, Pos, Wrap
  <2>4. ASSUME NEW i \in 1 .. K - 1
        PROVE  buf[(Oldest + i - 1) % N] < buf[(Oldest + i) % N]
    <3>1. PICK j \in 0 .. N - 1 : j = i - 1
      BY <2>1
    <3>2. i \in 0 .. N - 1 /\ j < i /\ i < K
      BY <2>1, <3>1
    <3>3. buf[Pos(j)] < buf[Pos(i)]
      BY <2>1, <3>2 DEF Ordered
    <3>4. Oldest + j = Oldest + i - 1
      BY <2>1, <3>1 DEF Typed, Oldest, Desc
    <3> QED BY <3>3, <3>4 DEF Pos, Wrap
  <2> QED BY <2>2, <2>3, <2>4, TypesFollow DEF RingConsistent, K
<1> QED BY <1>1, RInvHolds, PTL

(* netif->input is called with the frames in the order of arrival, each once *)
(* and with its own bytes, although the controller refills the ring behind   *)
(* low_level_input.                                                          *)
THEOREM ArrivalOrder == Spec => []InOrder
<1>1. RInv => InOrder
  <2> SUFFICES ASSUME RInv PROVE InOrder
    OBVIOUS
  <2>1. ASSUME NEW i \in 1 .. Len(input) - 1 PROVE input[i] < input[i + 1]
    <3>1. input \in Seq(Frame) /\ Ascends(input)
      BY DEF RInv, Typed, Ordered
    <3>2. PICK j \in 1 .. Len(input) : j = i + 1
      BY <3>1
    <3>3. i \in 1 .. Len(input) /\ i < j
      BY <3>1, <3>2
    <3> QED BY <3>1, <3>2, <3>3 DEF Ascends
  <2>2. pc = "input" => data = p
    BY DEF RInv, InHand
  <2> QED BY <2>1, <2>2 DEF InOrder
<1> QED BY <1>1, RInvHolds, PTL

(* pbuf_alloc, netif->input, the pbuf_free of a refused frame and those of   *)
(* the stack: each pbuf of the pool is in one of three places.               *)
THEOREM PoolKept == Spec => []PbufsConserved
<1>1. RInv => PbufsConserved
  <2> SUFFICES ASSUME RInv PROVE PbufsConserved
    OBVIOUS
  <2>1. held \in SUBSET Frame
    BY DEF RInv, Typed
  <2>2. MapThenSumSet(LAMBDA f : Need[f], held) = Cardinality(Units(held))
    BY <2>1, SumIs
  <2>3. free + HandNeed + Cardinality(Units(held)) = Pool
    BY DEF RInv, Pooled
  <2> QED BY <2>2, <2>3 DEF PbufsConserved, HandNeed
<1> QED BY <1>1, RInvHolds, PTL

(* HAL_ETH_IRQHandler posts before it clears the flags and OSSemPend counts  *)
(* the posts: at rest a frame is in the ring only if pbuf_alloc failed.      *)
THEOREM MergedInterruptsSuffice == Spec => []OnlyStarvedStrands
<1>1. RInv => OnlyStarvedStrands
  <2> SUFFICES ASSUME RInv, AtRest, ~starved PROVE InRing = {}
    BY DEF OnlyStarvedStrands
  <2>1. pc = "pend" /\ semRx = 0 /\ ~nis /\ Told
    BY DEF RInv, AtRest
  <2> QED BY <2>1 DEF Told
<1> QED BY <1>1, RInvHolds, PTL
=============================================================================
