-------------------------- MODULE TcpipInputProof --------------------------
(***************************************************************************)
(* Proofs about the mailboxes of sys_arch.c, for any number of threads,    *)
(* messages and places, and about the way of a packet from the receive     *)
(* task to tcpip_thread, for any number of messages, pbufs and OS_MSGs, as *)
(* long as the mailbox has a place for every message.                      *)
(***************************************************************************)
EXTENDS TcpipInput, FiniteSetTheorems, WellFoundedInduction, TLAPS

(* SysArchMbox. *)
(* A nonempty set of naturals has a least element. *)
LEMMA NatMin ==
  ASSUME NEW S, S \subseteq Nat, S # {}
  PROVE  \E m \in S : \A n \in S : m <= n
<1> DEFINE R == {ss \in Nat \X Nat : ss[1] < ss[2]}
<1>1. IsWellFoundedOn(R, Nat)
  BY NatLessThanWellFounded DEF OpToRel
<1>2. PICK m \in S : \A n \in S : ~(<<n, m>> \in R)
  BY <1>1, WFMin
<1>3. ASSUME NEW n \in S PROVE m <= n
  <2>1. m \in Nat /\ n \in Nat
    OBVIOUS
  <2>2. ~(n < m)
    BY <1>2, <2>1
  <2> QED BY <2>1, <2>2
<1> QED BY <1>3

(* The head of a nonempty pend list is one of the threads that wait. *)
LEMMA FirstIn ==
  ASSUME NEW S \in SUBSET Thread, S # {}
  PROVE  First(S) \in S
<1> DEFINE P == {Prio[t] : t \in S}
<1>1. P \subseteq Nat /\ P # {}
  BY ThreadAssumption
<1>2. PICK m \in P : \A n \in P : m <= n
  BY <1>1, NatMin
<1>3. PICK t \in S : Prio[t] = m
  BY <1>2
<1>4. \A u \in S : Prio[t] <= Prio[u]
  BY <1>2, <1>3
<1> QED BY <1>3, <1>4 DEF First

-----------------------------------------------------------------------------
(* Type correctness. *)

LEMMA InitTypeOK == Init => TypeOK
BY SizeAssumption DEF Init, TypeOK, PC, Idle, Ret, Holding

(* What OSQPost does to the state, without the choice of the thread it wakes. *)
Queued(t, m, next, k) ==
  /\ At("q_wait") = {} /\ Len(entries) < Size
  /\ entries' = Append(entries, m)
  /\ pc' = [pc EXCEPT ![t] = next] /\ msg' = [msg EXCEPT ![t] = k]

HandedTo(f, t, m, next, k) ==
  /\ entries' = entries
  /\ pc' = [pc EXCEPT ![t] = next, ![f] = "give"]
  /\ msg' = [msg EXCEPT ![t] = k, ![f] = m]

LEMMA QPostEffect ==
  ASSUME NEW t \in Thread, NEW m \in Msg, NEW next \in PC, QPost(t, m, next)
  PROVE  \E k \in {NoMsg, m} :
           /\ IF next = Idle THEN k = NoMsg ELSE k = m
           /\ Queued(t, m, next, k) \/ \E f \in At("q_wait") : HandedTo(f, t, m, next, k)
<1> DEFINE k == IF next = Idle THEN NoMsg ELSE m
<1>1. CASE At("q_wait") # {}
  <2>1. First(At("q_wait")) \in At("q_wait")
    BY <1>1, FirstIn DEF At
  <2>2. HandedTo(First(At("q_wait")), t, m, next, k)
    BY <1>1 DEF QPost, HandedTo
  <2> HIDE DEF k
  <2>3. k \in {NoMsg, m} /\ IF next = Idle THEN k = NoMsg ELSE k = m
    BY DEF k
  <2> QED BY <2>1, <2>2, <2>3
<1>2. CASE At("q_wait") = {}
  <2>1. Queued(t, m, next, k)
    BY <1>2 DEF QPost, MsgQPut, CanPut, Queued
  <2> HIDE DEF k
  <2>2. k \in {NoMsg, m} /\ IF next = Idle THEN k = NoMsg ELSE k = m
    BY DEF k
  <2> QED BY <2>1, <2>2
<1> QED BY <1>1, <1>2

LEMMA QPostType ==
  ASSUME TypeOK, NEW t \in Thread, NEW m \in Msg, NEW next \in PC, QPost(t, m, next)
  PROVE  /\ entries' \in Seq(Msg)
         /\ pc' \in [Thread -> PC]
         /\ msg' \in [Thread -> Msg \cup {NoMsg}]
         /\ \A u \in Thread : pc'[u] \in Holding => msg'[u] \in Msg
<1>1. PICK k \in {NoMsg, m} :
           /\ IF next = Idle THEN k = NoMsg ELSE k = m
           /\ Queued(t, m, next, k) \/ \E f \in At("q_wait") : HandedTo(f, t, m, next, k)
  BY QPostEffect
<1>2. CASE Queued(t, m, next, k)
  <2>1. entries' \in Seq(Msg)
    BY <1>2 DEF TypeOK, Queued
  <2>2. \A u \in Thread : pc'[u] \in Holding => msg'[u] \in Msg
    BY <1>1, <1>2 DEF TypeOK, Queued, Holding, Idle
  <2> QED BY <1>2, <2>1, <2>2 DEF TypeOK, Queued
<1>3. ASSUME NEW f \in At("q_wait"), HandedTo(f, t, m, next, k)
      PROVE  /\ entries' \in Seq(Msg)
             /\ pc' \in [Thread -> PC]
             /\ msg' \in [Thread -> Msg \cup {NoMsg}]
             /\ \A u \in Thread : pc'[u] \in Holding => msg'[u] \in Msg
  <2>1. "give" \in PC
    BY DEF PC
  <2>2. pc' \in [Thread -> PC]
    BY <1>3, <2>1 DEF TypeOK, HandedTo
  <2>3. msg' \in [Thread -> Msg \cup {NoMsg}]
    BY <1>3 DEF TypeOK, HandedTo
  <2>4. \A u \in Thread : pc'[u] \in Holding => msg'[u] \in Msg
    BY <1>1, <1>3 DEF TypeOK, HandedTo, Holding, Idle
  <2> QED BY <1>3, <2>2, <2>3, <2>4 DEF TypeOK, HandedTo
<1> QED BY <1>1, <1>2, <1>3

LEMMA StepTypeOK == TypeOK /\ [Next]_vars => TypeOK'
<1> SUFFICES ASSUME TypeOK, [Next]_vars PROVE TypeOK'
  OBVIOUS
<1> USE DEF TypeOK
<1>0. PC = {"idle", "put", "try_sem", "give", "free_q", "sem_wait", "q_wait"}
  BY DEF PC, Idle, Blocked
<1>1. ASSUME NEW t \in Poster, NEW m \in Msg, PostTakePlace(t, m) PROVE TypeOK'
  <2>1. /\ t \in Thread /\ msg' = [msg EXCEPT ![t] = m] /\ ret' = [ret EXCEPT ![m] = "pending"]
        /\ UNCHANGED <<semValid, qValid, entries, others, skew>>
        /\ \/ semCtr > 0 /\ semCtr' = semCtr - 1 /\ pc' = [pc EXCEPT ![t] = "put"]
           \/ semCtr' = semCtr /\ pc' = [pc EXCEPT ![t] = "sem_wait"]
    BY <1>1, ThreadAssumption DEF PostTakePlace
  <2>2. semCtr' \in Nat /\ pc' \in [Thread -> PC]
    BY <1>0, <2>1
  <2>3. msg' \in [Thread -> Msg \cup {NoMsg}] /\ ret' \in [Msg -> Ret]
    BY <2>1 DEF Ret
  <2>4. \A u \in Thread : pc'[u] \in Holding => msg'[u] \in Msg
    BY <2>1 DEF Holding
  <2> QED BY <2>1, <2>2, <2>3, <2>4
<1>2. ASSUME NEW t \in Poster, NEW m \in Msg, PostNoPlace(t, m) PROVE TypeOK'
  BY <1>2 DEF PostNoPlace, mbox, Ret
<1>3. ASSUME NEW t \in Poster, PostPut(t) PROVE TypeOK'
  <2>1. t \in Thread /\ msg[t] \in Msg /\ Idle \in PC /\ QPost(t, msg[t], Idle)
    BY <1>0, <1>3, ThreadAssumption DEF PostPut, Holding, Idle
  <2>2. /\ entries' \in Seq(Msg)
        /\ pc' \in [Thread -> PC]
        /\ msg' \in [Thread -> Msg \cup {NoMsg}]
        /\ \A u \in Thread : pc'[u] \in Holding => msg'[u] \in Msg
    BY <2>1, QPostType
  <2> QED BY <1>3, <2>2 DEF PostPut, Ret
<1>4. ASSUME NEW t \in Poster, PostPutFails(t) PROVE TypeOK'
  BY <1>0, <1>4, ThreadAssumption DEF PostPutFails, mbox, Holding, Idle, Ret
<1>5. ASSUME NEW t \in TryPoster, NEW m \in Msg, TryPut(t, m) PROVE TypeOK'
  <2>1. t \in Thread /\ "try_sem" \in PC /\ QPost(t, m, "try_sem")
    BY <1>0, <1>5, ThreadAssumption DEF TryPut
  <2>2. /\ entries' \in Seq(Msg)
        /\ pc' \in [Thread -> PC]
        /\ msg' \in [Thread -> Msg \cup {NoMsg}]
        /\ \A u \in Thread : pc'[u] \in Holding => msg'[u] \in Msg
    BY <2>1, QPostType
  <2> QED BY <1>5, <2>2 DEF TryPut, Ret
<1>6. ASSUME NEW t \in TryPoster, NEW m \in Msg, TryPutFails(t, m) PROVE TypeOK'
  BY <1>6 DEF TryPutFails, mbox, Ret
<1>7. ASSUME NEW t \in TryPoster, TryTakePlace(t) PROVE TypeOK'
  <2>1. ret' \in [Msg -> Ret] /\ semCtr' \in Nat /\ skew' \in Int
    BY <1>7 DEF TryTakePlace, Ret
  <2> QED BY <1>0, <1>7, <2>1, ThreadAssumption DEF TryTakePlace, Holding, Idle
<1>8. ASSUME NEW t \in Fetcher, FetchTake(t) PROVE TypeOK'
  <2>1. Head(entries) \in Msg /\ Tail(entries) \in Seq(Msg)
    BY <1>8 DEF FetchTake
  <2> QED BY <1>0, <1>8, <2>1, ThreadAssumption DEF FetchTake, Holding
<1>9. ASSUME NEW t \in Fetcher, FetchWait(t) PROVE TypeOK'
  BY <1>0, <1>9, ThreadAssumption DEF FetchWait, mbox, Holding
<1>10. ASSUME NEW t \in Fetcher, FetchTimeout(t) PROVE TypeOK'
  BY <1>0, <1>10, ThreadAssumption DEF FetchTimeout, mbox, Holding, Idle
<1>11. ASSUME NEW t \in Fetcher, FetchGive(t) PROVE TypeOK'
  <2>1. /\ msg' = [msg EXCEPT ![t] = NoMsg] /\ ret' \in [Msg -> Ret]
        /\ UNCHANGED <<semValid, qValid, entries, others, skew>>
    BY <1>11 DEF FetchGive, FetchReturn, Ret
  <2>2. CASE semValid /\ At("sem_wait") # {}
    <3>1. PICK w \in At("sem_wait") : pc' = [pc EXCEPT ![t] = Idle, ![w] = "put"]
      BY <1>11, <2>2, FirstIn DEF FetchGive, At
    <3>2. w # t /\ w \in Thread /\ pc[w] = "sem_wait" /\ semCtr' = semCtr
      BY <1>11, <2>2 DEF FetchGive, At
    <3> QED BY <1>0, <2>1, <3>1, <3>2, ThreadAssumption DEF Holding, Idle
  <2>3. CASE ~(semValid /\ At("sem_wait") # {})
    <3>1. pc' = [pc EXCEPT ![t] = Idle] /\ semCtr' \in Nat
      BY <1>11, <2>3 DEF FetchGive
    <3> QED BY <1>0, <2>1, <3>1, ThreadAssumption DEF Holding, Idle
  <2> QED BY <2>2, <2>3
<1>12. ASSUME NEW t \in Freer, FreeSem(t) PROVE TypeOK'
  <2>1. pc' \in [Thread -> PC]
    BY <1>0, <1>12 DEF FreeSem, Idle
  <2>2. msg' \in [Thread -> Msg \cup {NoMsg}]
    BY <1>12 DEF FreeSem
  <2>3. ret' \in [Msg -> Ret]
    BY <1>12 DEF FreeSem, Ret
  <2>4. \A u \in Thread : pc'[u] \in Holding => msg'[u] \in Msg
    BY <1>12 DEF FreeSem, Holding, Idle
  <2> QED BY <1>12, <2>1, <2>2, <2>3, <2>4 DEF FreeSem
<1>13. ASSUME NEW t \in Freer, FreeQ(t) PROVE TypeOK'
  <2>1. pc' \in [Thread -> PC]
    BY <1>0, <1>13 DEF FreeQ, Idle
  <2>2. ret' \in [Msg -> Ret]
    BY <1>13 DEF FreeQ, Ret
  <2>3. \A u \in Thread : pc'[u] \in Holding => msg'[u] \in Msg
    BY <1>13 DEF FreeQ, Holding, Idle
  <2>4. entries' \in Seq(Msg)
    BY <1>13 DEF FreeQ
  <2> QED BY <1>13, <2>1, <2>2, <2>3, <2>4 DEF FreeQ
<1>14. CASE OthersTake
  BY <1>14 DEF OthersTake, mbox
<1>15. CASE OthersReturn
  BY <1>15 DEF OthersReturn, mbox
<1>16. CASE UNCHANGED vars
  BY <1>16 DEF vars, mbox
<1> QED
  BY <1>1, <1>2, <1>3, <1>4, <1>5, <1>6, <1>7, <1>8, <1>9, <1>10, <1>11, <1>12, <1>13,
     <1>14, <1>15, <1>16 DEF Next, Post, TryPost

(* The state keeps its types: in particular the count of the semaphore never  *)
(* falls below zero, and whoever is about to post holds a message.            *)
THEOREM TypeCorrect == Spec => []TypeOK
BY InitTypeOK, StepTypeOK, PTL DEF Spec

-----------------------------------------------------------------------------
(* Nobody sleeps in vain. *)

LEMMA StepNoLostWakeup == TypeOK /\ NoLostWakeup /\ [Next]_vars => NoLostWakeup'
<1> SUFFICES ASSUME TypeOK, NoLostWakeup, [Next]_vars PROVE NoLostWakeup'
  OBVIOUS
<1> DEFINE Awake == \A u \in Thread :
      /\ pc[u] = "q_wait" => qValid /\ entries = << >>
      /\ pc[u] = "sem_wait" => semValid /\ semCtr = 0
<1>0. Awake /\ pc \in [Thread -> PC] /\ semCtr \in Nat
  BY DEF NoLostWakeup, At, TypeOK
<1>a. SUFFICES Awake'
  BY DEF NoLostWakeup, At
<1>b. ASSUME NEW t \in Thread, NEW m \in Msg, NEW next \in {Idle, "try_sem"},
             QPost(t, m, next), UNCHANGED <<semValid, semCtr, qValid>>
      PROVE Awake'
  <2>1. next \in PC
    BY DEF PC
  <2>2. PICK k \in {NoMsg, m} :
          Queued(t, m, next, k) \/ \E f \in At("q_wait") : HandedTo(f, t, m, next, k)
    BY <1>b, <2>1, QPostEffect
  <2>3. CASE Queued(t, m, next, k)
    BY <1>0, <1>b, <2>3 DEF Queued, At, Idle
  <2>4. ASSUME NEW f \in At("q_wait"), HandedTo(f, t, m, next, k) PROVE Awake'
    BY <1>0, <1>b, <2>4 DEF HandedTo, At, Idle
  <2> QED BY <2>2, <2>3, <2>4
<1>1. ASSUME NEW t \in Poster, NEW m \in Msg, PostTakePlace(t, m) PROVE Awake'
  <2>1. CASE semCtr > 0
    BY <1>0, <1>1, <2>1, ThreadAssumption DEF PostTakePlace
  <2>2. CASE ~(semCtr > 0)
    BY <1>0, <1>1, <2>2, ThreadAssumption DEF PostTakePlace
  <2> QED BY <2>1, <2>2
<1>2. ASSUME NEW t \in Poster, NEW m \in Msg, PostNoPlace(t, m) PROVE Awake'
  BY <1>0, <1>2 DEF PostNoPlace, mbox
<1>3. ASSUME NEW t \in Poster, PostPut(t) PROVE Awake'
  <2>1. t \in Thread /\ msg[t] \in Msg
    BY <1>3, ThreadAssumption DEF PostPut, TypeOK, Holding
  <2> QED BY <1>3, <1>b, <2>1 DEF PostPut
<1>4. ASSUME NEW t \in Poster, PostPutFails(t) PROVE Awake'
  BY <1>0, <1>4, ThreadAssumption DEF PostPutFails, mbox, Idle
<1>5. ASSUME NEW t \in TryPoster, NEW m \in Msg, TryPut(t, m) PROVE Awake'
  BY <1>5, <1>b, ThreadAssumption DEF TryPut
<1>6. ASSUME NEW t \in TryPoster, NEW m \in Msg, TryPutFails(t, m) PROVE Awake'
  BY <1>0, <1>6 DEF TryPutFails, mbox
<1>7. ASSUME NEW t \in TryPoster, TryTakePlace(t) PROVE Awake'
  BY <1>0, <1>7, ThreadAssumption DEF TryTakePlace, Idle
<1>8. ASSUME NEW t \in Fetcher, FetchTake(t) PROVE Awake'
  BY <1>0, <1>8, ThreadAssumption DEF FetchTake
<1>9. ASSUME NEW t \in Fetcher, FetchWait(t) PROVE Awake'
  BY <1>0, <1>9, ThreadAssumption DEF FetchWait, mbox
<1>10. ASSUME NEW t \in Fetcher, FetchTimeout(t) PROVE Awake'
  BY <1>0, <1>10, ThreadAssumption DEF FetchTimeout, mbox, Idle
<1>11. ASSUME NEW t \in Fetcher, FetchGive(t) PROVE Awake'
  <2>1. UNCHANGED <<semValid, qValid, entries>>
    BY <1>11 DEF FetchGive, FetchReturn
  <2>2. CASE semValid /\ At("sem_wait") # {}
    <3>1. PICK w \in Thread : pc' = [pc EXCEPT ![t] = Idle, ![w] = "put"]
      BY <1>11, <2>2, FirstIn DEF FetchGive, At
    <3>2. semCtr' = semCtr
      BY <1>11, <2>2 DEF FetchGive
    <3> QED BY <1>0, <2>1, <3>1, <3>2, ThreadAssumption DEF Idle
  <2>3. CASE ~(semValid /\ At("sem_wait") # {})
    <3>1. pc' = [pc EXCEPT ![t] = Idle] /\ \A u \in Thread : pc[u] # "sem_wait"
      BY <1>0, <1>11, <2>3 DEF FetchGive, At
    <3> QED BY <1>0, <2>1, <3>1, ThreadAssumption DEF Idle
  <2> QED BY <2>2, <2>3
<1>12. ASSUME NEW t \in Freer, FreeSem(t) PROVE Awake'
  BY <1>0, <1>12 DEF FreeSem, Idle
<1>13. ASSUME NEW t \in Freer, FreeQ(t) PROVE Awake'
  BY <1>0, <1>13 DEF FreeQ, Idle
<1>14. CASE OthersTake
  BY <1>0, <1>14 DEF OthersTake, mbox
<1>15. CASE OthersReturn
  BY <1>0, <1>15 DEF OthersReturn, mbox
<1>16. CASE UNCHANGED vars
  BY <1>0, <1>16 DEF vars, mbox
<1> QED
  BY <1>1, <1>2, <1>3, <1>4, <1>5, <1>6, <1>7, <1>8, <1>9, <1>10, <1>11, <1>12, <1>13,
     <1>14, <1>15, <1>16 DEF Next, Post, TryPost

(* OSSemPost and OSQPost hand a place or a message to a waiting thread before *)
(* they count it, so no thread sleeps while the mailbox could serve it.       *)
THEOREM NoSleepInVain == Spec => []NoLostWakeup
<1>1. Init => NoLostWakeup
  BY DEF Init, NoLostWakeup, At, Idle
<1> QED BY <1>1, TypeCorrect, StepNoLostWakeup, PTL DEF Spec

-----------------------------------------------------------------------------
(* Places are conserved.  At("free_q") is not empty only once the semaphore   *)
(* is deleted, which is when the equation stops to matter.                    *)


(* How many threads w puts at l. *)
Count(w, l) == Cardinality({u \in Thread : w[u] = l})

LEMMA CountNat == \A w, l : Count(w, l) \in Nat
<1> SUFFICES ASSUME NEW w, NEW l PROVE Count(w, l) \in Nat
  OBVIOUS
<1>1. IsFiniteSet({u \in Thread : w[u] = l})
  BY ThreadAssumption, FS_Subset
<1> QED BY <1>1, FS_CardinalityType DEF Count

(* q is w after thread t has gone to b. *)
Goes(w, q, t, b) == q = [w EXCEPT ![t] = b]

One(x, l) == IF x = l THEN 1 ELSE 0

(* A thread that goes to b is counted out of the place it leaves and into b.  *)
LEMMA CountMoves ==
  ASSUME NEW w \in [Thread -> PC], NEW q, NEW t \in Thread, NEW b, NEW l, Goes(w, q, t, b)
  PROVE  Count(q, l) = Count(w, l) + One(b, l) - One(w[t], l)
<1> USE DEF Goes, One
<1> DEFINE S == {u \in Thread : w[u] = l}
           R == {u \in Thread : q[u] = l}
<1>0. IsFiniteSet(S) /\ Cardinality(S) \in Nat
  <2>1. IsFiniteSet(S)
    BY ThreadAssumption, FS_Subset
  <2> QED BY <2>1, FS_CardinalityType
<1>a. Count(w, l) = Cardinality(S) /\ Count(q, l) = Cardinality(R)
  BY DEF Count
<1>1. CASE b = l /\ w[t] # l
  <2>1. R = S \cup {t} /\ t \notin S
    BY <1>1
  <2>2. Cardinality(R) = Cardinality(S) + 1
    BY <1>0, <2>1, FS_AddElement
  <2> HIDE DEF S, R
  <2> QED BY <1>0, <1>a, <1>1, <2>2
<1>2. CASE b # l /\ w[t] = l
  <2>1. R = S \ {t} /\ t \in S
    BY <1>2
  <2>2. Cardinality(R) = Cardinality(S) - 1
    BY <1>0, <2>1, FS_RemoveElement
  <2> HIDE DEF S, R
  <2> QED BY <1>0, <1>a, <1>2, <2>2
<1>3. CASE b = l <=> w[t] = l
  <2>1. R = S
    BY <1>3
  <2> HIDE DEF S, R
  <2> QED BY <1>0, <1>a, <1>3, <2>1
<1> QED BY <1>1, <1>2, <1>3

(* The places in the hands of threads, less those that threads owe. *)
Held(w) == Count(w, "put") + Count(w, "give") - Count(w, "try_sem")

Weight(l) == One(l, "put") + One(l, "give") - One(l, "try_sem")

LEMMA HeldInt == \A w, l : Held(w) \in Int /\ Weight(l) \in Int
BY CountNat DEF Held, Weight, One

LEMMA HeldMoves ==
  ASSUME NEW w \in [Thread -> PC], NEW q, NEW t \in Thread, NEW b, Goes(w, q, t, b)
  PROVE  Held(q) = Held(w) + Weight(b) - Weight(w[t])
<1>1. \A l : Count(q, l) = Count(w, l) + One(b, l) - One(w[t], l)
  BY CountMoves
<1>2. \A l : Count(w, l) \in Nat /\ Count(q, l) \in Nat
  BY CountNat
<1>3. \A x, l : One(x, l) \in Int
  BY DEF One
<1> QED BY <1>1, <1>2, <1>3 DEF Held, Weight

(* ... and has sent f to d. *)
Wakes(w, q, t, b, f, d) == q = [w EXCEPT ![t] = b, ![f] = d]

LEMMA HeldMovesTwo ==
  ASSUME NEW w \in [Thread -> PC], NEW q, NEW t \in Thread, NEW f \in Thread, t # f,
         NEW b \in PC, NEW d \in PC, Wakes(w, q, t, b, f, d)
  PROVE  Held(q) = Held(w) + Weight(b) + Weight(d) - Weight(w[t]) - Weight(w[f])
<1> DEFINE r == [w EXCEPT ![t] = b]
<1>1. /\ r \in [Thread -> PC] /\ r[f] = w[f]
      /\ Goes(w, r, t, b) /\ Goes(r, q, f, d)
  BY DEF Goes, Wakes
<1> HIDE DEF r
<1>2. Held(r) = Held(w) + Weight(b) - Weight(w[t])
  BY <1>1, HeldMoves
<1>3. Held(q) = Held(r) + Weight(d) - Weight(r[f])
  BY <1>1, HeldMoves
<1> QED BY <1>1, <1>2, <1>3, HeldInt

(* OSQPost adds one message to those in the queue and in the hands of         *)
(* fetchers, whether a fetcher waits or not.                                  *)
LEMMA HeldPut ==
  ASSUME TypeOK, NEW t \in Thread, NEW m \in Msg, NEW b \in {"idle", "try_sem"},
         pc[t] # "q_wait", QPost(t, m, b)
  PROVE  Len(entries') + Held(pc') = Len(entries) + 1 + Held(pc) + Weight(b) - Weight(pc[t])
<1>0. /\ b \in PC /\ "give" \in PC /\ pc \in [Thread -> PC] /\ entries \in Seq(Msg)
      /\ Len(entries) \in Nat /\ pc[t] \in PC
  BY DEF PC, Idle, TypeOK
<1>1. PICK k \in {NoMsg, m} :
        Queued(t, m, b, k) \/ \E f \in At("q_wait") : HandedTo(f, t, m, b, k)
  BY <1>0, QPostEffect
<1>2. CASE Queued(t, m, b, k)
  <2>1. Goes(pc, pc', t, b) /\ Len(entries') = Len(entries) + 1
    BY <1>0, <1>2 DEF Queued, Goes
  <2>2. Held(pc') = Held(pc) + Weight(b) - Weight(pc[t])
    BY <1>0, <2>1, HeldMoves
  <2> QED BY <1>0, <2>1, <2>2, HeldInt
<1>3. ASSUME NEW f \in At("q_wait"), HandedTo(f, t, m, b, k)
      PROVE  Len(entries') + Held(pc') = Len(entries) + 1 + Held(pc) + Weight(b) - Weight(pc[t])
  <2>1. /\ entries' = entries /\ f \in Thread /\ f # t /\ pc[f] = "q_wait"
        /\ Wakes(pc, pc', t, b, f, "give")
    BY <1>3 DEF HandedTo, At, Wakes
  <2>2. Held(pc') = Held(pc) + Weight(b) + Weight("give") - Weight(pc[t]) - Weight(pc[f])
    BY <1>0, <2>1, HeldMovesTwo
  <2>3. Weight("give") = 1 /\ Weight(pc[f]) = 0
    BY <2>1 DEF Weight, One
  <2> QED BY <1>0, <2>1, <2>2, <2>3, HeldInt
<1> QED BY <1>1, <1>2, <1>3

(* The deletion of the queue follows that of the semaphore. *)
FreeOrder == \A t \in Thread : pc[t] = "free_q" => ~semValid

LEMMA StepFreeOrder == TypeOK /\ FreeOrder /\ [Next]_vars => FreeOrder'
<1> SUFFICES ASSUME TypeOK, FreeOrder, [Next]_vars, NEW u \in Thread, pc'[u] = "free_q"
             PROVE ~semValid'
  BY DEF FreeOrder
<1> USE DEF FreeOrder, TypeOK
<1>a. ASSUME NEW t \in Thread, NEW m \in Msg, NEW next \in {Idle, "try_sem"},
             QPost(t, m, next), UNCHANGED semValid
      PROVE ~semValid'
  <2>1. PICK k \in {NoMsg, m} :
          Queued(t, m, next, k) \/ \E f \in At("q_wait") : HandedTo(f, t, m, next, k)
    BY <1>a, QPostEffect DEF PC
  <2> QED BY <1>a, <2>1 DEF Queued, HandedTo, Idle
<1>1. ASSUME NEW t \in Poster, NEW m \in Msg, PostTakePlace(t, m) \/ PostNoPlace(t, m)
      PROVE ~semValid'
  BY <1>1, ThreadAssumption DEF PostTakePlace, PostNoPlace, mbox
<1>2. ASSUME NEW t \in Poster, PostPut(t) PROVE ~semValid'
  <2>1. t \in Thread /\ msg[t] \in Msg
    BY <1>2, ThreadAssumption DEF PostPut, Holding
  <2> QED BY <1>2, <1>a, <2>1 DEF PostPut
<1>3. ASSUME NEW t \in Poster, PostPutFails(t) PROVE ~semValid'
  BY <1>3, ThreadAssumption DEF PostPutFails, mbox, Idle
<1>4. ASSUME NEW t \in TryPoster, NEW m \in Msg, TryPut(t, m) PROVE ~semValid'
  BY <1>4, <1>a, ThreadAssumption DEF TryPut
<1>5. ASSUME NEW t \in TryPoster, NEW m \in Msg, TryPutFails(t, m) PROVE ~semValid'
  BY <1>5 DEF TryPutFails, mbox
<1>6. ASSUME NEW t \in TryPoster, TryTakePlace(t) PROVE ~semValid'
  BY <1>6, ThreadAssumption DEF TryTakePlace, Idle
<1>7. ASSUME NEW t \in Fetcher, FetchTake(t) \/ FetchWait(t) \/ FetchTimeout(t)
      PROVE ~semValid'
  BY <1>7, ThreadAssumption DEF FetchTake, FetchWait, FetchTimeout, mbox, Idle
<1>8. ASSUME NEW t \in Fetcher, FetchGive(t) PROVE ~semValid'
  <2>1. semValid' = semValid
    BY <1>8 DEF FetchGive, FetchReturn
  <2>2. CASE semValid /\ At("sem_wait") # {}
    <3>1. pc' = [pc EXCEPT ![t] = Idle, ![First(At("sem_wait"))] = "put"]
      BY <1>8, <2>2 DEF FetchGive
    <3>2. pc[u] = "free_q"
      BY <3>1 DEF Idle
    <3> QED BY <2>1, <3>2
  <2>3. CASE ~(semValid /\ At("sem_wait") # {})
    BY <1>8, <2>1, <2>3, ThreadAssumption DEF FetchGive, Idle
  <2> QED BY <2>2, <2>3
<1>9. ASSUME NEW t \in Freer, FreeSem(t) \/ FreeQ(t) PROVE ~semValid'
  BY <1>9 DEF FreeSem, FreeQ, Idle
<1>10. CASE OthersTake \/ OthersReturn \/ UNCHANGED vars
  BY <1>10 DEF OthersTake, OthersReturn, vars, mbox
<1> QED
  BY <1>1, <1>2, <1>3, <1>4, <1>5, <1>6, <1>7, <1>8, <1>9, <1>10 DEF Next, Post, TryPost

(* SlotsConserved in terms of Held. *)
Balance == semCtr + Len(entries) + Held(pc) = Size + skew

LEMMA BalanceIsConservation == TypeOK => (SlotsConserved <=> (semValid => Balance))
<1> SUFFICES ASSUME TypeOK PROVE SlotsConserved <=> (semValid => Balance)
  OBVIOUS
<1>1. \A l : Cardinality(At(l)) = Count(pc, l)
  BY DEF At, Count
<1>2. SlotsConserved <=>
        (semValid => semCtr + Len(entries) + Count(pc, "put") + Count(pc, "give")
                       = Size + Count(pc, "try_sem") + skew)
  BY <1>1 DEF SlotsConserved
<1>3. /\ Count(pc, "put") \in Nat /\ Count(pc, "give") \in Nat
      /\ Count(pc, "try_sem") \in Nat
  BY CountNat
<1>4. semCtr \in Nat /\ skew \in Int /\ Size \in Nat /\ Len(entries) \in Nat
  BY SizeAssumption DEF TypeOK
<1>5. Balance <=> (semCtr + Len(entries) + Count(pc, "put") + Count(pc, "give")
                     = Size + Count(pc, "try_sem") + skew)
  <2>1. PICK a \in Nat, b \in Nat, c \in Nat :
          a = Count(pc, "put") /\ b = Count(pc, "give") /\ c = Count(pc, "try_sem")
    BY <1>3
  <2>2. Balance <=> semCtr + Len(entries) + (a + b - c) = Size + skew
    BY <2>1 DEF Balance, Held
  <2>3. PICK x \in Nat, y \in Nat, z \in Int, n \in Nat :
          x = semCtr /\ y = Len(entries) /\ z = skew /\ n = Size
    BY <1>4
  <2>4. x + y + (a + b - c) = n + z <=> x + y + a + b = n + c + z
    OBVIOUS
  <2> QED BY <2>1, <2>2, <2>3, <2>4
<1> QED BY Zenon, <1>2, <1>5

LEMMA StepBalance ==
  ASSUME TypeOK, FreeOrder, semValid => Balance, [Next]_vars, semValid'
  PROVE  Balance'
<1>0. /\ semCtr \in Nat /\ skew \in Int /\ Size \in Nat /\ Len(entries) \in Nat
      /\ pc \in [Thread -> PC] /\ entries \in Seq(Msg) /\ Held(pc) \in Int
  BY SizeAssumption, HeldInt DEF TypeOK
<1>a. /\ Weight("idle") = 0 /\ Weight("sem_wait") = 0 /\ Weight("q_wait") = 0
      /\ Weight("put") = 1 /\ Weight("give") = 1 /\ Weight("try_sem") = -1
  BY DEF Weight, One
<1>b. ASSUME NEW t \in Thread, NEW b, Goes(pc, pc', t, b)
      PROVE  Held(pc') = Held(pc) + Weight(b) - Weight(pc[t])
  BY <1>0, <1>b, HeldMoves
<1>1. ASSUME NEW t \in Poster, NEW m \in Msg, PostTakePlace(t, m) PROVE Balance'
  <2>1. t \in Thread /\ pc[t] = "idle" /\ entries' = entries /\ skew' = skew /\ Balance
    BY <1>1, ThreadAssumption DEF PostTakePlace, Idle
  <2>2. CASE semCtr > 0
    <3>1. semCtr' = semCtr - 1 /\ Goes(pc, pc', t, "put")
      BY <1>1, <2>2 DEF PostTakePlace, Goes
    <3>2. Held(pc') = Held(pc) + 1
      BY <1>0, <1>a, <1>b, <2>1, <3>1
    <3> QED BY <1>0, <2>1, <3>1, <3>2 DEF Balance
  <2>3. CASE ~(semCtr > 0)
    <3>1. semCtr' = semCtr /\ Goes(pc, pc', t, "sem_wait")
      BY <1>1, <2>3 DEF PostTakePlace, Goes
    <3>2. Held(pc') = Held(pc)
      BY <1>0, <1>a, <1>b, <2>1, <3>1
    <3> QED BY <1>0, <2>1, <3>1, <3>2 DEF Balance
  <2> QED BY <2>2, <2>3
<1>2. ASSUME NEW t \in Poster, NEW m \in Msg, PostNoPlace(t, m) PROVE Balance'
  BY <1>2 DEF PostNoPlace, mbox
<1>3. ASSUME NEW t \in Poster, PostPut(t) PROVE Balance'
  <2>1. /\ t \in Thread /\ pc[t] = "put" /\ msg[t] \in Msg /\ QPost(t, msg[t], "idle")
        /\ semCtr' = semCtr /\ skew' = skew /\ Balance
    BY <1>3, ThreadAssumption DEF PostPut, Holding, TypeOK, Idle
  <2>2. Len(entries') + Held(pc') = Len(entries) + 1 + Held(pc) + Weight("idle") - Weight(pc[t])
    BY <2>1, HeldPut
  <2>3. Len(entries') + Held(pc') = Len(entries) + Held(pc)
    BY <1>0, <1>a, <2>1, <2>2
  <2>4. Len(entries') \in Nat /\ Held(pc') \in Int
    BY StepTypeOK, HeldInt DEF TypeOK
  <2> QED BY <1>0, <2>1, <2>3, <2>4 DEF Balance
<1>4. ASSUME NEW t \in Poster, PostPutFails(t) PROVE Balance'
  <2>1. /\ t \in Thread /\ pc[t] = "put" /\ Goes(pc, pc', t, "idle")
        /\ semCtr' = semCtr /\ entries' = entries /\ skew' = skew - 1 /\ Balance
    BY <1>4, ThreadAssumption DEF PostPutFails, mbox, Idle, Goes
  <2>2. Held(pc') = Held(pc) - 1
    BY <1>0, <1>a, <1>b, <2>1
  <2> QED BY <1>0, <2>1, <2>2 DEF Balance
<1>5. ASSUME NEW t \in TryPoster, NEW m \in Msg, TryPut(t, m) PROVE Balance'
  <2>1. /\ t \in Thread /\ pc[t] = "idle" /\ QPost(t, m, "try_sem")
        /\ semCtr' = semCtr /\ skew' = skew /\ Balance
    BY <1>5, ThreadAssumption DEF TryPut, Idle
  <2>2. Len(entries') + Held(pc')
          = Len(entries) + 1 + Held(pc) + Weight("try_sem") - Weight(pc[t])
    BY <2>1, HeldPut
  <2>3. Len(entries') + Held(pc') = Len(entries) + Held(pc)
    BY <1>0, <1>a, <2>1, <2>2
  <2>4. Len(entries') \in Nat /\ Held(pc') \in Int
    BY StepTypeOK, HeldInt DEF TypeOK
  <2> QED BY <1>0, <2>1, <2>3, <2>4 DEF Balance
<1>6. ASSUME NEW t \in TryPoster, NEW m \in Msg, TryPutFails(t, m) PROVE Balance'
  BY <1>6 DEF TryPutFails, mbox, Balance
<1>7. ASSUME NEW t \in TryPoster, TryTakePlace(t) PROVE Balance'
  <2>1. /\ t \in Thread /\ pc[t] = "try_sem" /\ Goes(pc, pc', t, "idle")
        /\ entries' = entries /\ Balance
        /\ (semCtr' = semCtr - 1 /\ skew' = skew) \/ (semCtr' = semCtr /\ skew' = skew + 1)
    BY <1>7, ThreadAssumption DEF TryTakePlace, Idle, Goes
  <2>2. Held(pc') = Held(pc) + 1
    BY <1>0, <1>a, <1>b, <2>1
  <2> QED BY <1>0, <2>1, <2>2 DEF Balance
<1>8. ASSUME NEW t \in Fetcher, FetchTake(t) PROVE Balance'
  <2>1. /\ t \in Thread /\ pc[t] = "idle" /\ Goes(pc, pc', t, "give")
        /\ Len(entries') = Len(entries) - 1
        /\ semCtr' = semCtr /\ skew' = skew /\ Balance
    BY <1>0, <1>8, ThreadAssumption DEF FetchTake, Idle, Goes
  <2>2. Held(pc') = Held(pc) + 1
    BY <1>0, <1>a, <1>b, <2>1
  <2> QED BY <1>0, <2>1, <2>2 DEF Balance
<1>9. ASSUME NEW t \in Fetcher, FetchWait(t) \/ FetchTimeout(t) PROVE Balance'
  <2>1. /\ t \in Thread /\ entries' = entries /\ semCtr' = semCtr /\ skew' = skew /\ Balance
        /\ \/ pc[t] = "idle" /\ Goes(pc, pc', t, "q_wait")
           \/ pc[t] = "q_wait" /\ Goes(pc, pc', t, "idle")
    BY <1>9, ThreadAssumption DEF FetchWait, FetchTimeout, mbox, Idle, Goes
  <2>2. Held(pc') = Held(pc)
    BY <1>0, <1>a, <1>b, <2>1
  <2> QED BY <1>0, <2>1, <2>2 DEF Balance
<1>10. ASSUME NEW t \in Fetcher, FetchGive(t) PROVE Balance'
  <2>1. /\ t \in Thread /\ pc[t] = "give" /\ entries' = entries /\ skew' = skew
        /\ semValid /\ Balance
    BY <1>10, ThreadAssumption DEF FetchGive, FetchReturn
  <2>2. CASE At("sem_wait") # {}
    <3>1. PICK w \in At("sem_wait") : Wakes(pc, pc', t, "idle", w, "put")
      BY <1>10, <2>1, <2>2, FirstIn DEF FetchGive, At, Idle, Wakes
    <3>2. w \in Thread /\ w # t /\ pc[w] = "sem_wait" /\ semCtr' = semCtr
      BY <1>10, <2>1, <2>2 DEF FetchGive, At
    <3>3. "idle" \in PC /\ "put" \in PC
      BY DEF PC, Idle
    <3>4. Held(pc') = Held(pc) + Weight("idle") + Weight("put") - Weight(pc[t]) - Weight(pc[w])
      BY <1>0, <2>1, <3>1, <3>2, <3>3, HeldMovesTwo
    <3>5. Held(pc') = Held(pc)
      BY <1>0, <1>a, <2>1, <3>2, <3>4
    <3> QED BY <2>1, <3>2, <3>5 DEF Balance
  <2>3. CASE At("sem_wait") = {}
    <3>1. semCtr' = semCtr + 1 /\ Goes(pc, pc', t, "idle")
      BY <1>10, <2>1, <2>3 DEF FetchGive, Idle, Goes
    <3>2. Held(pc') = Held(pc) - 1
      BY <1>0, <1>a, <1>b, <2>1, <3>1
    <3> QED BY <1>0, <2>1, <3>1, <3>2 DEF Balance
  <2> QED BY <2>2, <2>3
<1>11. ASSUME NEW t \in Freer, FreeSem(t) \/ FreeQ(t) PROVE Balance'
  BY <1>11, ThreadAssumption DEF FreeSem, FreeQ, FreeOrder
<1>12. CASE OthersTake \/ OthersReturn \/ UNCHANGED vars
  BY <1>12 DEF OthersTake, OthersReturn, vars, mbox, Balance
<1> QED
  BY <1>1, <1>2, <1>3, <1>4, <1>5, <1>6, <1>7, <1>8, <1>9, <1>10, <1>11, <1>12
     DEF Next, Post, TryPost

LEMMA InitBalance == Init => FreeOrder /\ Balance
<1> SUFFICES ASSUME Init PROVE FreeOrder /\ Balance
  OBVIOUS
<1>1. ASSUME NEW l, l # "idle" PROVE Count(pc, l) = 0
  <2>1. {u \in Thread : pc[u] = l} = {}
    BY <1>1 DEF Init, Idle
  <2> QED BY <2>1, FS_EmptySet DEF Count
<1>2. Held(pc) = 0
  BY <1>1 DEF Held
<1>3. Len(<< >>) = 0
  OBVIOUS
<1> QED BY <1>2, <1>3, SizeAssumption DEF Init, FreeOrder, Balance, Idle

(* The two-call protocols of sys_arch.c neither lose nor make up places,      *)
(* however the threads preempt each other.                                    *)
THEOREM PlacesConserved == Spec => []SlotsConserved
<1>1. Init => FreeOrder /\ Balance
  BY InitBalance
<1>2. TypeOK /\ FreeOrder /\ (semValid => Balance) /\ [Next]_vars
        => TypeOK' /\ FreeOrder' /\ (semValid => Balance)'
  BY StepTypeOK, StepFreeOrder, StepBalance
<1> QED BY <1>1, <1>2, InitTypeOK, BalanceIsConservation, PTL DEF Spec

-----------------------------------------------------------------------------
(* Without tryposts nothing upsets the count, so a poster that owns a place   *)
(* finds room in the queue; the pool of OS_MSGs is large enough by assumption. *)

Sound ==
  /\ others <= OthersMax
  /\ semValid => /\ qValid /\ skew = 0
                 /\ \A t \in Thread : pc[t] # "try_sem"
                 /\ \A m \in Msg : ret[m] # "dropped"

LEMMA StepSound ==
  ASSUME TryPoster = {}, OthersMax + Size <= PoolSize,
         TypeOK, FreeOrder, semValid => Balance, Sound, [Next]_vars
  PROVE  Sound'
<1> USE DEF Sound
<1>0. /\ semCtr \in Nat /\ skew \in Int /\ Size \in Nat /\ Len(entries) \in Nat
      /\ pc \in [Thread -> PC] /\ others \in Nat /\ ret \in [Msg -> Ret]
      /\ OthersMax \in Nat /\ PoolSize \in Nat
  BY SizeAssumption DEF TypeOK
<1>1. ASSUME NEW t \in Poster, NEW m \in Msg, PostTakePlace(t, m) PROVE Sound'
  BY <1>0, <1>1, ThreadAssumption DEF PostTakePlace
<1>2. ASSUME NEW t \in Poster, NEW m \in Msg, PostNoPlace(t, m) PROVE Sound'
  BY <1>2 DEF PostNoPlace, mbox
<1>3. ASSUME NEW t \in Poster, PostPut(t) PROVE Sound'
  <2>1. t \in Thread /\ msg[t] \in Msg /\ Idle \in PC /\ QPost(t, msg[t], Idle)
    BY <1>3, ThreadAssumption DEF PostPut, Holding, TypeOK, PC
  <2>2. PICK k \in {NoMsg, msg[t]} :
          \/ Queued(t, msg[t], Idle, k)
          \/ \E f \in At("q_wait") : HandedTo(f, t, msg[t], Idle, k)
    BY <2>1, QPostEffect
  <2>3. semValid => \A u \in Thread : pc'[u] # "try_sem"
    BY <1>0, <2>1, <2>2 DEF Queued, HandedTo, Idle
  <2> QED BY <1>0, <1>3, <2>3 DEF PostPut
<1>4. ASSUME NEW t \in Poster, PostPutFails(t) PROVE Sound'
  <2>1. CASE semValid
    <3>1. Held(pc) >= 1
      <4>1. Count(pc, "try_sem") = 0
        <5>1. {u \in Thread : pc[u] = "try_sem"} = {}
          BY <2>1
        <5> QED BY <5>1, FS_EmptySet DEF Count
      <4>2. Count(pc, "put") # 0
        <5>1. t \in {u \in Thread : pc[u] = "put"}
          BY <1>4, ThreadAssumption DEF PostPutFails
        <5>2. IsFiniteSet({u \in Thread : pc[u] = "put"})
          BY ThreadAssumption, FS_Subset
        <5> QED BY <5>1, <5>2, FS_EmptySet DEF Count
      <4> QED BY <4>1, <4>2, CountNat DEF Held
    <3>2. Len(entries) < Size
      BY <1>0, <2>1, <3>1, HeldInt DEF Balance
    <3>3. PoolFree > 0
      BY <1>0, <3>2 DEF PoolFree
    <3> QED BY <1>4, <2>1, <3>2, <3>3 DEF PostPutFails, QPostFails, CanPut
  <2>2. CASE ~semValid
    BY <1>4, <2>2 DEF PostPutFails, mbox
  <2> QED BY <2>1, <2>2
<1>5. ASSUME NEW t \in Fetcher, FetchTake(t) \/ FetchWait(t) \/ FetchTimeout(t) PROVE Sound'
  BY <1>0, <1>5, ThreadAssumption DEF FetchTake, FetchWait, FetchTimeout, mbox, Idle
<1>6. ASSUME NEW t \in Fetcher, FetchGive(t) PROVE Sound'
  <2>1. /\ UNCHANGED <<semValid, qValid, others, skew>>
        /\ ret' = [ret EXCEPT ![msg[t]] = IF semValid THEN "none" ELSE "dropped"]
    BY <1>6 DEF FetchGive, FetchReturn
  <2>2. semValid => \A u \in Thread : pc'[u] # "try_sem"
    <3>1. CASE semValid /\ At("sem_wait") # {}
      BY <1>0, <1>6, <3>1 DEF FetchGive, Idle
    <3>2. CASE ~(semValid /\ At("sem_wait") # {})
      BY <1>0, <1>6, <3>2 DEF FetchGive, Idle
    <3> QED BY <3>1, <3>2
  <2> QED BY <1>0, <2>1, <2>2
<1>7. ASSUME NEW t \in Freer, FreeSem(t) \/ FreeQ(t) PROVE Sound'
  BY <1>7, ThreadAssumption DEF FreeSem, FreeQ, FreeOrder
<1>8. CASE OthersTake \/ OthersReturn \/ UNCHANGED vars
  BY <1>0, <1>8 DEF OthersTake, OthersReturn, vars, mbox
<1> QED
  BY <1>1, <1>2, <1>3, <1>4, <1>5, <1>6, <1>7, <1>8 DEF Next, Post, TryPost

(* Used with sys_mbox_post and fetches only, and with a pool of OS_MSGs that  *)
(* serves every queue at once, a living mailbox never loses a message.        *)
THEOREM PostKeepsMessages ==
  ASSUME TryPoster = {}, OthersMax + Size <= PoolSize
  PROVE  Spec => []PostNeverDrops
<1>1. Init => FreeOrder /\ (semValid => Balance) /\ Sound
  <2> SUFFICES ASSUME Init PROVE FreeOrder /\ Balance /\ Sound
    OBVIOUS
  <2>1. FreeOrder /\ Balance
    BY InitBalance
  <2> QED BY <2>1, SizeAssumption DEF Init, Sound, Idle
<1>2. TypeOK /\ FreeOrder /\ (semValid => Balance) /\ Sound /\ [Next]_vars
        => TypeOK' /\ FreeOrder' /\ (semValid => Balance)' /\ Sound'
  BY StepTypeOK, StepFreeOrder, StepBalance, StepSound
<1>3. Sound => PostNeverDrops
  BY DEF Sound, PostNeverDrops
<1> QED BY <1>1, <1>2, <1>3, InitTypeOK, PTL DEF Spec

-----------------------------------------------------------------------------
(* A message that was accepted is in one place.                               *)

In(m, s) == \E i \in 1 .. Len(s) : s[i] = m

Once(s) == \A i, j \in 1 .. Len(s) : s[i] = s[j] => i = j

LEMMA AppendIn ==
  ASSUME NEW s \in Seq(Msg), NEW m \in Msg
  PROVE  /\ \A x : In(x, Append(s, m)) <=> In(x, s) \/ x = m
         /\ Once(s) /\ ~In(m, s) => Once(Append(s, m))
<1>1. /\ Len(Append(s, m)) = Len(s) + 1 /\ Len(s) \in Nat
      /\ \A i \in 1 .. Len(s) : Append(s, m)[i] = s[i]
      /\ Append(s, m)[Len(s) + 1] = m
  OBVIOUS
<1> DEFINE a == Append(s, m)
<1> HIDE DEF a
<1>2. \A i : i \in 1 .. Len(a) <=> i \in 1 .. Len(s) \/ i = Len(s) + 1
  BY <1>1 DEF a
<1>3. \A x : In(x, a) <=> In(x, s) \/ x = m
  BY <1>1, <1>2 DEF In, a
<1>4. ASSUME Once(s), ~In(m, s) PROVE Once(a)
  BY <1>1, <1>2, <1>4 DEF In, Once, a
<1> QED BY <1>3, <1>4 DEF a

LEMMA TailIn ==
  ASSUME NEW s \in Seq(Msg), s # << >>
  PROVE  /\ Head(s) \in Msg /\ Tail(s) \in Seq(Msg)
         /\ \A x : In(x, s) <=> In(x, Tail(s)) \/ x = Head(s)
         /\ Once(s) => Once(Tail(s)) /\ ~In(Head(s), Tail(s))
<1>1. /\ Len(Tail(s)) = Len(s) - 1 /\ Len(s) \in Nat \ {0} /\ Head(s) = s[1]
      /\ \A i \in 1 .. Len(s) - 1 : Tail(s)[i] = s[i + 1]
  OBVIOUS
<1>2. \A x : In(x, s) <=> In(x, Tail(s)) \/ x = Head(s)
  <2>1. ASSUME NEW i \in 1 .. Len(s), i # 1 PROVE In(s[i], Tail(s))
    <3>1. i - 1 \in 1 .. Len(Tail(s)) /\ Tail(s)[i - 1] = s[i]
      BY <1>1, <2>1
    <3> QED BY <3>1 DEF In
  <2>2. ASSUME NEW i \in 1 .. Len(Tail(s)) PROVE In(Tail(s)[i], s)
    <3>1. i + 1 \in 1 .. Len(s) /\ Tail(s)[i] = s[i + 1]
      BY <1>1
    <3> QED BY <3>1 DEF In
  <2>3. In(Head(s), s)
    BY <1>1 DEF In
  <2> QED BY <1>1, <2>1, <2>2, <2>3 DEF In
<1>3. ASSUME Once(s) PROVE Once(Tail(s)) /\ ~In(Head(s), Tail(s))
  BY <1>1, <1>3 DEF Once, In
<1>4. Head(s) \in Msg /\ Tail(s) \in Seq(Msg)
  OBVIOUS
<1> QED BY <1>2, <1>3, <1>4

InHand(m) == \E t \in Thread : pc[t] = "give" /\ msg[t] = m

(* Outside a call a thread holds nothing. *)
Rest == \A t \in Thread : pc[t] \notin Holding => msg[t] = NoMsg

(* No message is in two places, but for one that a trypost has queued and     *)
(* that a fetcher has taken before the trypost came back for its place.       *)
Alone ==
  /\ Once(entries)
  /\ \A t \in Thread : pc[t] \in {"sem_wait", "put", "give"} => ~In(msg[t], entries)
  /\ \A t, u \in Thread : t # u /\ msg[t] = msg[u] /\ msg[t] # NoMsg =>
       \/ pc[t] = "give" /\ pc[u] = "try_sem"
       \/ pc[t] = "try_sem" /\ pc[u] = "give"

(* What the senders were told agrees with where the messages are.             *)
Told ==
  /\ \A t \in Thread : pc[t] \in {"sem_wait", "put"} => ret[msg[t]] = "pending"
  /\ \A t \in Thread : pc[t] = "try_sem" /\ ret[msg[t]] = "pending" =>
       In(msg[t], entries) \/ InHand(msg[t])
  /\ \A m \in Msg : ret[m] = "ok" => In(m, entries) \/ InHand(m)

Whereabouts == Rest /\ (qValid => Alone /\ Told)

LEMMA UnusedIs == \A m : Unused(m) <=> ~In(m, entries) /\ \A t \in Thread : msg[t] # m
BY DEF Unused, In

(* OSQPost of a message that is nowhere else: by a poster that owns a place,  *)
(* or by a trypost that has just got the message from its caller.             *)
LEMMA QPostWhereabouts ==
  ASSUME TypeOK, Whereabouts, NEW t \in Thread, NEW m \in Msg, NEW next \in {Idle, "try_sem"},
         QPost(t, m, next), qValid' = qValid,
         \/ pc[t] = "put" /\ msg[t] = m /\ next = Idle
         \/ pc[t] = Idle /\ Unused(m) /\ next = "try_sem",
         ret' = [ret EXCEPT ![m] = IF next = Idle THEN "ok" ELSE "pending"]
  PROVE  Whereabouts'
<1> USE DEF Rest
<1>0. /\ qValid /\ Rest /\ Alone /\ Told
      /\ pc \in [Thread -> PC] /\ msg \in [Thread -> Msg \cup {NoMsg}] /\ entries \in Seq(Msg)
      /\ ret \in [Msg -> Ret] /\ m # NoMsg /\ next \in PC
      /\ \A u \in Thread : pc[u] \in Holding => msg[u] \in Msg
  BY MsgAssumption DEF TypeOK, QPost, PC, Whereabouts
<1>1. /\ ~In(m, entries)
      /\ \A u \in Thread : u # t => msg[u] # m
  BY <1>0, UnusedIs DEF Alone, Idle
<1>2. PICK k \in {NoMsg, m} :
        /\ IF next = Idle THEN k = NoMsg ELSE k = m
        /\ Queued(t, m, next, k) \/ \E f \in At("q_wait") : HandedTo(f, t, m, next, k)
  BY <1>0, QPostEffect
<1>3. /\ pc[t] # "give" /\ pc[t] # "q_wait"
      /\ next # "give" /\ next # "sem_wait" /\ next # "put" /\ (next = "try_sem" <=> next # Idle)
      /\ \A u \in Thread : ret[msg[u]] = "pending" /\ msg[u] # m => ret'[msg[u]] = "pending"
  BY <1>0 DEF Idle
<1>4. CASE Queued(t, m, next, k)
  <2>1. /\ \A x : In(x, entries') <=> In(x, entries) \/ x = m
        /\ Once(entries')
    BY <1>0, <1>1, <1>4, AppendIn DEF Queued, Alone
  <2>2. /\ pc' = [pc EXCEPT ![t] = next] /\ msg' = [msg EXCEPT ![t] = k]
    BY <1>4 DEF Queued
  <2>3. Rest'
    BY <1>0, <1>2, <1>3, <2>2 DEF Holding, Idle
  <2>4. Alone'
    BY <1>0, <1>1, <1>2, <1>3, <2>1, <2>2 DEF Alone, Idle
  <2>5. \A x : InHand(x) => InHand(x)'
    BY <1>0, <1>3, <2>2 DEF InHand
  <2>6. Told'
    BY <1>0, <1>1, <1>2, <1>3, <2>1, <2>2, <2>5 DEF Told, Idle
  <2> QED BY <2>3, <2>4, <2>6 DEF Whereabouts
<1>5. ASSUME NEW f \in At("q_wait"), HandedTo(f, t, m, next, k) PROVE Whereabouts'
  <2>1. /\ f \in Thread /\ f # t /\ pc[f] = "q_wait" /\ msg[f] = NoMsg
        /\ entries' = entries
        /\ pc' = [pc EXCEPT ![t] = next, ![f] = "give"]
        /\ msg' = [msg EXCEPT ![t] = k, ![f] = m]
    BY <1>0, <1>3, <1>5 DEF HandedTo, At, Holding
  <2>3. Rest'
    BY <1>0, <1>2, <1>3, <2>1 DEF Holding, Idle
  <2>4. Alone'
    BY <1>0, <1>1, <1>2, <1>3, <2>1 DEF Alone, Idle
  <2>5. InHand(m)' /\ \A x : InHand(x) => InHand(x)'
    BY <1>0, <1>3, <2>1 DEF InHand
  <2>6. Told'
    BY <1>0, <1>1, <1>2, <1>3, <2>1, <2>5 DEF Told, Idle
  <2> QED BY <2>3, <2>4, <2>6 DEF Whereabouts
<1> QED BY <1>2, <1>4, <1>5

LEMMA StepWhereabouts == TypeOK /\ Whereabouts /\ [Next]_vars => Whereabouts'
<1> SUFFICES ASSUME TypeOK, Whereabouts, [Next]_vars PROVE Whereabouts'
  OBVIOUS
<1> USE DEF Rest
<1>0. /\ pc \in [Thread -> PC] /\ msg \in [Thread -> Msg \cup {NoMsg}] /\ entries \in Seq(Msg)
      /\ ret \in [Msg -> Ret] /\ NoMsg \notin Msg
      /\ \A u \in Thread : pc[u] \in Holding => msg[u] \in Msg
      /\ \A u \in Thread : pc[u] \notin Holding => msg[u] = NoMsg
  BY MsgAssumption DEF TypeOK, Whereabouts
<1>a. ASSUME ~qValid', Rest' PROVE Whereabouts'
  BY <1>a DEF Whereabouts
<1>b. ASSUME qValid => Alone' /\ Told', qValid' = qValid, Rest' PROVE Whereabouts'
  BY <1>b DEF Whereabouts
<1>c. qValid => Alone /\ Told
  BY DEF Whereabouts
<1>1. ASSUME NEW t \in Poster, NEW m \in Msg, PostTakePlace(t, m) PROVE Whereabouts'
  <2>1. PICK l \in {"put", "sem_wait"} : pc' = [pc EXCEPT ![t] = l]
    BY <1>1 DEF PostTakePlace
  <2>2. /\ t \in Thread /\ pc[t] = "idle" /\ msg' = [msg EXCEPT ![t] = m]
        /\ ret' = [ret EXCEPT ![m] = "pending"] /\ qValid' = qValid /\ entries' = entries
        /\ ~In(m, entries) /\ \A u \in Thread : msg[u] # m
    BY <1>1, UnusedIs, ThreadAssumption DEF PostTakePlace, Idle
  <2>3. Rest'
    BY <1>0, <2>1, <2>2 DEF Holding
  <2>4. Alone => Alone'
    BY <1>0, <2>1, <2>2 DEF Alone, Holding
  <2>5. \A x : InHand(x) => InHand(x)'
    BY <1>0, <2>1, <2>2 DEF InHand
  <2>6. Told => Told'
    BY <1>0, <2>1, <2>2, <2>5 DEF Told
  <2> QED BY <1>b, <1>c, <2>2, <2>3, <2>4, <2>6
<1>2. ASSUME NEW t \in Poster, NEW m \in Msg, PostNoPlace(t, m) PROVE Whereabouts'
  <2>1. /\ ret' = [ret EXCEPT ![m] = "dropped"] /\ UNCHANGED <<qValid, entries, pc, msg>>
        /\ ~In(m, entries) /\ \A u \in Thread : msg[u] # m
    BY <1>2, UnusedIs DEF PostNoPlace, mbox
  <2> QED BY <1>0, <1>b, <1>c, <2>1 DEF Alone, Told, InHand, Holding
<1>3. ASSUME NEW t \in Poster, PostPut(t) PROVE Whereabouts'
  <2>1. /\ t \in Thread /\ pc[t] = "put" /\ msg[t] \in Msg /\ Idle \in {Idle, "try_sem"}
        /\ QPost(t, msg[t], Idle) /\ qValid' = qValid /\ ret' = [ret EXCEPT ![msg[t]] = "ok"]
    BY <1>0, <1>3, ThreadAssumption DEF PostPut, Holding
  <2> QED BY <2>1, QPostWhereabouts
<1>4. ASSUME NEW t \in Poster, PostPutFails(t) PROVE Whereabouts'
  <2>1. /\ t \in Thread /\ pc[t] = "put" /\ msg[t] \in Msg
        /\ pc' = [pc EXCEPT ![t] = "idle"] /\ msg' = [msg EXCEPT ![t] = NoMsg]
        /\ ret' = [ret EXCEPT ![msg[t]] = "dropped"] /\ UNCHANGED <<qValid, entries>>
    BY <1>0, <1>4, ThreadAssumption DEF PostPutFails, Holding, Idle, mbox
  <2>2. Rest'
    BY <1>0, <2>1 DEF Holding
  <2>3. Alone => Alone'
    BY <1>0, <2>1 DEF Alone
  <2>4. \A x : InHand(x) => InHand(x)'
    BY <1>0, <2>1 DEF InHand
  <2>5. Alone /\ Told => Told'
    BY <1>0, <2>1, <2>4 DEF Alone, Told
  <2> QED BY <1>b, <1>c, <2>1, <2>2, <2>3, <2>5
<1>5. ASSUME NEW t \in TryPoster, NEW m \in Msg, TryPut(t, m) PROVE Whereabouts'
  <2>1. /\ t \in Thread /\ pc[t] = Idle /\ Unused(m) /\ "try_sem" \in {Idle, "try_sem"}
        /\ QPost(t, m, "try_sem") /\ qValid' = qValid /\ ret' = [ret EXCEPT ![m] = "pending"]
    BY <1>0, <1>5, ThreadAssumption DEF TryPut
  <2>2. "try_sem" # Idle
    BY DEF Idle
  <2> QED BY <2>1, <2>2, QPostWhereabouts
<1>6. ASSUME NEW t \in TryPoster, NEW m \in Msg, TryPutFails(t, m) PROVE Whereabouts'
  <2>1. /\ ret' = [ret EXCEPT ![m] = "mem"] /\ UNCHANGED <<qValid, entries, pc, msg>>
        /\ ~In(m, entries) /\ \A u \in Thread : msg[u] # m
    BY <1>6, UnusedIs DEF TryPutFails, mbox
  <2> QED BY <1>0, <1>b, <1>c, <2>1 DEF Alone, Told, InHand, Holding
<1>7. ASSUME NEW t \in TryPoster, TryTakePlace(t) PROVE Whereabouts'
  <2>1. /\ t \in Thread /\ pc[t] = "try_sem" /\ msg[t] \in Msg
        /\ pc' = [pc EXCEPT ![t] = "idle"] /\ msg' = [msg EXCEPT ![t] = NoMsg]
        /\ UNCHANGED <<qValid, entries>>
    BY <1>0, <1>7, ThreadAssumption DEF TryTakePlace, Holding, Idle
  <2>2. PICK v \in {"ok", "mem"} :
          ret' = [ret EXCEPT ![msg[t]] = IF @ = "pending" THEN v ELSE @]
    BY <1>7 DEF TryTakePlace
  <2>3. Rest'
    BY <1>0, <2>1 DEF Holding
  <2>4. Alone => Alone'
    BY <1>0, <2>1 DEF Alone
  <2>5. \A x : InHand(x) => InHand(x)'
    BY <1>0, <2>1 DEF InHand
  <2>6. Alone /\ Told => Told'
    BY <1>0, <2>1, <2>2, <2>5 DEF Alone, Told
  <2> QED BY <1>b, <1>c, <2>1, <2>3, <2>4, <2>6
<1>8. ASSUME NEW t \in Fetcher, FetchTake(t) PROVE Whereabouts'
  <2>0. PICK m : m = Head(entries)
    OBVIOUS
  <2>1. /\ t \in Thread /\ pc[t] = "idle" /\ entries # << >> /\ qValid' = qValid
        /\ pc' = [pc EXCEPT ![t] = "give"] /\ msg' = [msg EXCEPT ![t] = m]
        /\ entries' = Tail(entries) /\ ret' = ret
    BY <1>8, <2>0, ThreadAssumption DEF FetchTake, Idle
  <2>2. /\ m \in Msg
        /\ \A x : In(x, entries) <=> In(x, entries') \/ x = m
        /\ Once(entries) => Once(entries') /\ ~In(m, entries')
    BY <1>0, <2>0, <2>1, TailIn
  <2>3. Rest'
    BY <1>0, <2>1 DEF Holding
  <2>4. Alone => Alone'
    BY <1>0, <2>1, <2>2 DEF Alone, Holding, PC, Blocked, Idle
  <2>5. InHand(m)' /\ \A x : InHand(x) => InHand(x)'
    BY <1>0, <2>1 DEF InHand
  <2>6. Told => Told'
    BY <1>0, <2>1, <2>2, <2>5 DEF Told
  <2> QED BY <1>b, <1>c, <2>1, <2>3, <2>4, <2>6
<1>9. ASSUME NEW t \in Fetcher, FetchWait(t) \/ FetchTimeout(t) PROVE Whereabouts'
  <2>1. /\ t \in Thread /\ pc[t] \in {"idle", "q_wait"} /\ UNCHANGED <<qValid, entries, msg, ret>>
        /\ \E l \in {"idle", "q_wait"} : pc' = [pc EXCEPT ![t] = l]
    BY <1>9, ThreadAssumption DEF FetchWait, FetchTimeout, Idle, mbox
  <2>2. \A u \in Thread : pc[u] # pc'[u] => {pc[u], pc'[u]} \subseteq {"idle", "q_wait"}
    BY <1>0, <2>1
  <2>3. Rest'
    BY <1>0, <2>1 DEF Holding
  <2>4. Alone => Alone'
    BY <1>0, <2>1 DEF Alone, Holding
  <2>5. \A x : InHand(x) => InHand(x)'
    BY <1>0, <2>1 DEF InHand
  <2>6. Told => Told'
    BY <1>0, <2>1, <2>5 DEF Told
  <2> QED BY <1>b, <1>c, <2>1, <2>3, <2>4, <2>6
<1>10. ASSUME NEW t \in Fetcher, FetchGive(t) PROVE Whereabouts'
  <2>1. /\ t \in Thread /\ pc[t] = "give" /\ msg[t] \in Msg /\ UNCHANGED <<qValid, entries>>
        /\ msg' = [msg EXCEPT ![t] = NoMsg]
        /\ ret' = [ret EXCEPT ![msg[t]] = IF semValid THEN "none" ELSE "dropped"]
    BY <1>0, <1>10, ThreadAssumption DEF FetchGive, FetchReturn, Holding
  <2>2. \/ pc' = [pc EXCEPT ![t] = "idle"]
        \/ \E w \in At("sem_wait") : pc' = [pc EXCEPT ![t] = "idle", ![w] = "put"]
    BY <1>10, FirstIn DEF FetchGive, At, Idle
  <2>3. /\ pc'[t] = "idle"
        /\ \A u \in Thread : u # t => pc'[u] = pc[u] \/ (pc[u] = "sem_wait" /\ pc'[u] = "put")
    BY <1>0, <2>1, <2>2 DEF At
  <2>4. Rest'
    BY <1>0, <2>1, <2>3 DEF Holding
  <2>5. Alone => Alone'
    BY <1>0, <2>1, <2>3 DEF Alone
  <2>6. \A x : InHand(x) /\ x # msg[t] => InHand(x)'
    BY <1>0, <2>1, <2>3 DEF InHand
  <2>7. Alone /\ Told => Told'
    BY <1>0, <2>1, <2>3, <2>6 DEF Alone, Told, Holding
  <2> QED BY <1>b, <1>c, <2>1, <2>4, <2>5, <2>7
<1>11. ASSUME NEW t \in Freer, FreeSem(t) PROVE Whereabouts'
  <2>1. /\ t \in Thread /\ pc[t] = "idle" /\ UNCHANGED <<qValid, entries>>
        /\ pc' = [u \in Thread |-> IF u = t THEN "free_q"
                                   ELSE IF pc[u] = "sem_wait" THEN "idle" ELSE pc[u]]
        /\ msg' = [u \in Thread |-> IF pc[u] = "sem_wait" THEN NoMsg ELSE msg[u]]
        /\ ret' = [m \in Msg |-> IF \E u \in Thread : pc[u] = "sem_wait" /\ msg[u] = m
                                 THEN "dropped" ELSE ret[m]]
    BY <1>11, ThreadAssumption DEF FreeSem, Idle, At
  <2>2. Rest'
    BY <1>0, <2>1 DEF Holding
  <2>3. Alone => Alone'
    BY <1>0, <2>1 DEF Alone, Holding
  <2>4. \A x : InHand(x) => InHand(x)'
    BY <1>0, <2>1 DEF InHand
  <2>5. Alone /\ Told => Told'
    BY <1>0, <2>1, <2>4 DEF Alone, Told, Holding
  <2> QED BY <1>b, <1>c, <2>1, <2>2, <2>3, <2>5
<1>12. ASSUME NEW t \in Freer, FreeQ(t) PROVE Whereabouts'
  <2>1. Rest'
    BY <1>0, <1>12 DEF FreeQ, Holding, Idle
  <2> QED BY <1>12, <1>a, <2>1 DEF FreeQ
<1>13. CASE OthersTake \/ OthersReturn \/ UNCHANGED vars
  <2>1. UNCHANGED <<qValid, entries, pc, msg, ret>>
    BY <1>13 DEF OthersTake, OthersReturn, vars, mbox
  <2> QED BY <2>1, <1>b, <1>c, <1>0 DEF Alone, Told, InHand
<1> QED
  BY <1>1, <1>2, <1>3, <1>4, <1>5, <1>6, <1>7, <1>8, <1>9, <1>10, <1>11, <1>12, <1>13
     DEF Next, Post, TryPost

(* A message that sys_mbox_post or sys_mbox_trypost has reported as posted is *)
(* queued, or in the hands of one fetcher, exactly once until it is returned. *)
THEOREM AcceptedOnce == Spec => []AcceptedIsKept
<1>1. Init => Whereabouts
  BY DEF Init, Whereabouts, Rest, Alone, Told, Once, In, Idle
<1>2. TypeOK /\ Whereabouts => AcceptedIsKept
  <2> SUFFICES ASSUME TypeOK, Alone, Told, NEW m \in Msg, ret[m] = "ok"
               PROVE Cardinality({i \in 1 .. Len(entries) : entries[i] = m})
                       + Cardinality({t \in At("give") : msg[t] = m}) = 1
    BY DEF Whereabouts, AcceptedIsKept
  <2> DEFINE Q == {i \in 1 .. Len(entries) : entries[i] = m}
             H == {t \in At("give") : msg[t] = m}
  <2>1. CASE In(m, entries)
    <3>1. PICK i \in 1 .. Len(entries) : entries[i] = m
      BY <2>1 DEF In
    <3>2. Q = {i}
      BY <3>1 DEF Alone, Once
    <3>3. H = {}
      BY <2>1 DEF Alone, At
    <3>4. Cardinality(Q) = 1 /\ Cardinality(H) = 0
      BY <3>2, <3>3, FS_Singleton, FS_EmptySet
    <3> QED BY <3>4
  <2>2. CASE ~In(m, entries)
    <3>1. PICK t \in Thread : pc[t] = "give" /\ msg[t] = m
      BY <2>2 DEF Told, InHand
    <3>2. H = {t}
      BY <3>1, MsgAssumption DEF Alone, At
    <3>3. Q = {}
      BY <2>2 DEF In
    <3>4. Cardinality(Q) = 0 /\ Cardinality(H) = 1
      BY <3>2, <3>3, FS_Singleton, FS_EmptySet
    <3> QED BY <3>4
  <2> QED BY <2>1, <2>2
<1> QED BY <1>1, <1>2, InitTypeOK, StepTypeOK, StepWhereabouts, PTL DEF Spec

-----------------------------------------------------------------------------
(* The pair of kernel objects implements the mailbox lwIP expects.            *)

(* Nobody uses sys_mbox_trypost or sys_mbox_free. *)
Closed ==
  /\ semValid /\ qValid /\ skew <= 0
  /\ \A t \in Thread : /\ pc[t] \notin {"try_sem", "free_q"}
                       /\ pc[t] \in {"give", "q_wait"} => t \in Fetcher

LEMMA StepClosed ==
  ASSUME TryPoster = {}, Freer = {}, TypeOK, Closed, [Next]_vars
  PROVE  Closed'
<1> USE DEF Closed
<1>0. pc \in [Thread -> PC] /\ skew \in Int /\ \A u \in Thread : pc[u] \in Holding => msg[u] \in Msg
  BY DEF TypeOK
<1>1. ASSUME NEW t \in Poster, NEW m \in Msg, PostTakePlace(t, m) PROVE Closed'
  BY <1>0, <1>1, ThreadAssumption DEF PostTakePlace
<1>2. ASSUME NEW t \in Poster, NEW m \in Msg, PostNoPlace(t, m) PROVE Closed'
  BY <1>2 DEF PostNoPlace
<1>3. ASSUME NEW t \in Poster, PostPut(t) PROVE Closed'
  <2>1. t \in Thread /\ msg[t] \in Msg /\ Idle \in PC /\ QPost(t, msg[t], Idle)
    BY <1>0, <1>3, ThreadAssumption DEF PostPut, Holding, PC
  <2>2. PICK k \in {NoMsg, msg[t]} :
          \/ Queued(t, msg[t], Idle, k)
          \/ \E f \in At("q_wait") : HandedTo(f, t, msg[t], Idle, k)
    BY <2>1, QPostEffect
  <2>3. UNCHANGED <<semValid, qValid, skew>>
    BY <1>3 DEF PostPut
  <2> QED BY <1>0, <2>1, <2>2, <2>3 DEF Queued, HandedTo, At, Idle
<1>4. ASSUME NEW t \in Poster, PostPutFails(t) PROVE Closed'
  BY <1>0, <1>4, ThreadAssumption DEF PostPutFails, mbox, Idle
<1>5. ASSUME NEW t \in Fetcher, FetchTake(t) \/ FetchWait(t) \/ FetchTimeout(t) PROVE Closed'
  BY <1>0, <1>5, ThreadAssumption DEF FetchTake, FetchWait, FetchTimeout, mbox, Idle
<1>6. ASSUME NEW t \in Fetcher, FetchGive(t) PROVE Closed'
  <2>1. UNCHANGED <<semValid, qValid, skew>>
    BY <1>6 DEF FetchGive, FetchReturn
  <2>2. \/ pc' = [pc EXCEPT ![t] = "idle"]
        \/ \E w \in At("sem_wait") : pc' = [pc EXCEPT ![t] = "idle", ![w] = "put"]
    BY <1>6, FirstIn DEF FetchGive, At, Idle
  <2> QED BY <1>0, <2>1, <2>2, ThreadAssumption DEF At
<1>7. CASE OthersTake \/ OthersReturn \/ UNCHANGED vars
  BY <1>7 DEF OthersTake, OthersReturn, vars, mbox
<1> QED BY <1>1, <1>2, <1>3, <1>4, <1>5, <1>6, <1>7 DEF Next, Post

(* What a thread holds between its two calls of a fetch is in its hand.       *)
LEMMA HandIs ==
  ASSUME TypeOK, Closed
  PROVE  /\ \A r \in Fetcher : hand[r] = IF pc[r] = "give" THEN msg[r] ELSE NoMsg
         /\ Abs!Busy = At("give")
         /\ \A r \in Fetcher : r \in Abs!Busy <=> pc[r] = "give"
<1>1. \A r \in Fetcher : hand[r] = IF pc[r] = "give" THEN msg[r] ELSE NoMsg
  BY DEF hand
<1>2. \A r \in Fetcher : pc[r] = "give" => msg[r] \in Msg
  BY ThreadAssumption DEF TypeOK, Holding
<1>3. \A r \in Thread : pc[r] = "give" => r \in Fetcher
  BY DEF Closed
<1>4. Abs!Busy = At("give")
  BY <1>1, <1>2, <1>3, ThreadAssumption, MsgAssumption DEF Abs!Busy, At
<1> QED BY <1>1, <1>4, ThreadAssumption DEF At

LEMMA SameCardinality == \A S : Abs!Cardinality(S) = Cardinality(S)
BY Zenon DEF Abs!Cardinality, Cardinality

(* A poster that owns a place finds the mailbox ready to take its message.    *)
LEMMA PosterMaySend ==
  ASSUME TypeOK, Closed, Balance, Whereabouts, NEW t \in Thread, pc[t] = "put"
  PROVE  Abs!MaySend(msg[t])
<1>0. /\ semCtr \in Nat /\ skew \in Int /\ skew <= 0 /\ Size \in Nat /\ Len(entries) \in Nat
      /\ msg[t] \in Msg /\ Alone
  BY SizeAssumption DEF TypeOK, Closed, Whereabouts, Holding
<1>1. Cardinality(Abs!Busy) = Count(pc, "give")
  BY HandIs DEF At, Count
<1>2. Count(pc, "put") # 0
  <2>1. t \in {u \in Thread : pc[u] = "put"}
    OBVIOUS
  <2>2. IsFiniteSet({u \in Thread : pc[u] = "put"})
    BY ThreadAssumption, FS_Subset
  <2> QED BY <2>1, <2>2, FS_EmptySet DEF Count
<1>3. Count(pc, "try_sem") = 0
  <2>1. {u \in Thread : pc[u] = "try_sem"} = {}
    BY DEF Closed
  <2> QED BY <2>1, FS_EmptySet DEF Count
<1>4. Len(entries) + Cardinality(Abs!Busy) < Size
  BY <1>0, <1>1, <1>2, <1>3, CountNat DEF Balance, Held
<1>5. \A i \in 1 .. Len(entries) : entries[i] # msg[t]
  BY <1>0 DEF Alone, In
<1>6. \A r \in Fetcher : hand[r] # msg[t]
  BY <1>0, HandIs, ThreadAssumption, MsgAssumption DEF Alone
<1> QED BY <1>4, <1>5, <1>6, SameCardinality DEF Abs!MaySend

(* Every step is a step of the mailbox or none: a post puts its message into  *)
(* the mailbox in its second kernel call, a fetch takes it out in its first   *)
(* and frees the place in its second.                                         *)
LEMMA StepImplements ==
  ASSUME TryPoster = {}, Freer = {},
         TypeOK, Closed, Balance, NoLostWakeup, Whereabouts, Closed', [Next]_vars
  PROVE  [Abs!AbsNext]_(Abs!absVars)
<1> USE DEF Abs!absVars
<1>0. /\ pc \in [Thread -> PC] /\ msg \in [Thread -> Msg \cup {NoMsg}] /\ NoMsg \notin Msg
      /\ \A u \in Thread : pc[u] \in Holding => msg[u] \in Msg
      /\ Fetcher \subseteq Thread /\ Poster \subseteq Thread
  BY ThreadAssumption, MsgAssumption DEF TypeOK
<1>a. ASSUME entries' = entries,
             \A r \in Fetcher : \/ pc'[r] = pc[r] /\ msg'[r] = msg[r]
                                \/ pc[r] # "give" /\ pc'[r] # "give"
      PROVE  UNCHANGED Abs!absVars
  <2>1. hand' = hand
    BY <1>a DEF hand
  <2> QED BY <1>a, <2>1
<1>1. ASSUME NEW t \in Poster, NEW m \in Msg, PostTakePlace(t, m) PROVE UNCHANGED Abs!absVars
  <2>1. PICK l \in {"put", "sem_wait"} : pc' = [pc EXCEPT ![t] = l]
    BY <1>1 DEF PostTakePlace
  <2> QED BY <1>0, <1>1, <1>a, <2>1 DEF PostTakePlace, Idle
<1>2. ASSUME NEW t \in Poster, NEW m \in Msg, PostNoPlace(t, m) PROVE UNCHANGED Abs!absVars
  BY <1>2, <1>a DEF PostNoPlace, mbox
<1>3. ASSUME NEW t \in Poster, PostPut(t) PROVE Abs!AbsNext
  <2>1. /\ t \in Thread /\ pc[t] = "put" /\ msg[t] \in Msg /\ Idle \in PC
        /\ QPost(t, msg[t], Idle)
    BY <1>0, <1>3 DEF PostPut, Holding, PC
  <2>2. PICK m : m = msg[t]
    OBVIOUS
  <2>3. Abs!MaySend(m) /\ m \in Msg
    BY <2>1, <2>2, PosterMaySend
  <2>4. PICK k \in {NoMsg, m} :
          Queued(t, m, Idle, k) \/ \E f \in At("q_wait") : HandedTo(f, t, m, Idle, k)
    BY <2>1, <2>2, QPostEffect
  <2>5. CASE Queued(t, m, Idle, k)
    <3>1. hand' = hand
      BY <1>0, <2>1, <2>5 DEF Queued, hand, Idle
    <3>2. Abs!Send(m)
      BY <2>3, <2>5, <3>1 DEF Queued, Abs!Send
    <3> QED BY <2>3, <3>2 DEF Abs!AbsNext
  <2>6. ASSUME NEW f \in At("q_wait"), HandedTo(f, t, m, Idle, k) PROVE Abs!AbsNext
    <3>1. f \in Fetcher /\ pc[f] = "q_wait" /\ entries = << >> /\ entries' = entries
      BY <2>6 DEF At, Closed, NoLostWakeup, HandedTo
    <3>2. hand' = [hand EXCEPT ![f] = m]
      BY <1>0, <2>1, <2>6, <3>1 DEF HandedTo, hand, Idle
    <3>3. f \notin Abs!Busy
      BY <3>1, HandIs
    <3>4. Abs!SendTo(f, m)
      BY <2>3, <3>1, <3>2, <3>3 DEF Abs!SendTo
    <3> QED BY <2>3, <3>1, <3>4 DEF Abs!AbsNext
  <2> QED BY <2>4, <2>5, <2>6
<1>4. ASSUME NEW t \in Poster, PostPutFails(t) PROVE UNCHANGED Abs!absVars
  BY <1>0, <1>4, <1>a DEF PostPutFails, mbox, Idle
<1>5. ASSUME NEW t \in Fetcher, FetchTake(t) PROVE Abs!AbsNext
  <2>1. PICK m : m = Head(entries)
    OBVIOUS
  <2>2. /\ pc[t] = "idle" /\ entries # << >> /\ entries' = Tail(entries)
        /\ pc' = [pc EXCEPT ![t] = "give"] /\ msg' = [msg EXCEPT ![t] = m]
    BY <1>5, <2>1 DEF FetchTake, Idle
  <2>3. hand' = [hand EXCEPT ![t] = Head(entries)]
    BY <1>0, <2>1, <2>2 DEF hand
  <2>4. t \notin Abs!Busy
    BY <2>2, HandIs
  <2>5. Abs!Receive(t)
    BY <2>2, <2>3, <2>4 DEF Abs!Receive
  <2> QED BY <2>5 DEF Abs!AbsNext
<1>6. ASSUME NEW t \in Fetcher, FetchWait(t) \/ FetchTimeout(t) PROVE UNCHANGED Abs!absVars
  BY <1>0, <1>6, <1>a DEF FetchWait, FetchTimeout, mbox, Idle
<1>7. ASSUME NEW t \in Fetcher, FetchGive(t) PROVE Abs!AbsNext
  <2>1. pc[t] = "give" /\ entries' = entries /\ msg' = [msg EXCEPT ![t] = NoMsg]
    BY <1>7 DEF FetchGive, FetchReturn
  <2>2. \/ pc' = [pc EXCEPT ![t] = "idle"]
        \/ \E w \in At("sem_wait") : pc' = [pc EXCEPT ![t] = "idle", ![w] = "put"]
    BY <1>7, FirstIn DEF FetchGive, At, Idle
  <2>3. /\ pc'[t] = "idle"
        /\ \A u \in Thread : u # t => pc'[u] = pc[u] \/ (pc[u] = "sem_wait" /\ pc'[u] = "put")
    BY <1>0, <2>1, <2>2 DEF At
  <2>4. hand' = [hand EXCEPT ![t] = NoMsg]
    BY <1>0, <2>1, <2>3 DEF hand
  <2>5. t \in Abs!Busy
    BY <2>1, HandIs
  <2>6. Abs!Return(t)
    BY <2>1, <2>4, <2>5 DEF Abs!Return
  <2> QED BY <2>6 DEF Abs!AbsNext
<1>8. CASE OthersTake \/ OthersReturn \/ UNCHANGED vars
  BY <1>8, <1>a DEF OthersTake, OthersReturn, vars, mbox
<1> QED BY <1>1, <1>2, <1>3, <1>4, <1>5, <1>6, <1>7, <1>8 DEF Next, Post

(* Used with sys_mbox_post and fetches only, the OS_Q and the OS_SEM are a    *)
(* first-in first-out channel of Size places, whatever preempts the threads   *)
(* between their two kernel calls and whatever the pool of OS_MSGs holds.     *)
THEOREM RefinesMailbox ==
  ASSUME TryPoster = {}, Freer = {}
  PROVE  Spec => Abs!AbsSafety
<1> DEFINE IInv == TypeOK /\ FreeOrder /\ Balance /\ NoLostWakeup /\ Whereabouts /\ Closed
<1>1. Init => IInv
  <2> SUFFICES ASSUME Init PROVE IInv
    OBVIOUS
  <2>1. FreeOrder /\ Balance /\ TypeOK
    BY InitBalance, InitTypeOK
  <2>2. NoLostWakeup
    BY DEF Init, NoLostWakeup, At, Idle
  <2>3. Whereabouts
    BY DEF Init, Whereabouts, Rest, Alone, Told, Once, In, Idle
  <2>4. Closed
    BY DEF Init, Closed, Idle
  <2> QED BY <2>1, <2>2, <2>3, <2>4
<1>2. IInv /\ [Next]_vars => IInv'
  <2> SUFFICES ASSUME IInv, [Next]_vars PROVE IInv'
    OBVIOUS
  <2>1. TypeOK' /\ FreeOrder' /\ NoLostWakeup' /\ Whereabouts'
    BY StepTypeOK, StepFreeOrder, StepNoLostWakeup, StepWhereabouts
  <2>2. Closed'
    BY StepClosed
  <2>3. Balance'
    BY <2>2, StepBalance DEF Closed
  <2> QED BY <2>1, <2>2, <2>3
<1>3. Init => Abs!AbsInit
  BY ThreadAssumption DEF Init, Abs!AbsInit, hand, Idle
<1>4. IInv /\ IInv' /\ [Next]_vars => [Abs!AbsNext]_(Abs!absVars)
  BY StepImplements
<1> HIDE DEF IInv
<1> QED BY <1>1, <1>2, <1>3, <1>4, PTL DEF Spec, Abs!AbsSafety

-----------------------------------------------------------------------------
(* TcpipInput. *)

LEMMA Tasks ==
  /\ Rx \in Thread /\ Tcpip \in Thread /\ Rx # Tcpip
  /\ Rx \in TryPoster /\ Tcpip \in Fetcher /\ Rx # NoTask /\ Tcpip # NoTask
<1>1. Rx \in Thread /\ Tcpip \in Thread /\ Rx \in TryPoster /\ Tcpip \in Fetcher
  BY TcpipAssumption, ThreadAssumption
<1>2. Prio[Rx] \in Nat /\ Prio[Rx] < Prio[Tcpip]
  BY <1>1, TcpipAssumption, ThreadAssumption
<1> QED BY <1>1, <1>2, TcpipAssumption

-----------------------------------------------------------------------------
(* Where the two tasks are, and what they have in their hands there.          *)
Where ==
  /\ semValid = TRUE /\ qValid = TRUE
  /\ \A t \in Thread \ {Rx, Tcpip} : pc[t] = Idle
  /\ at[Rx] \in {"out", "lock", "alloc", "memp", "post", "place", "refused",
                 "failed", "unlock"}
  /\ pc[Rx] = IF at[Rx] = "place" THEN "try_sem" ELSE Idle
  /\ at[Tcpip] \in {"fetch", "lock", "handle", "free"}
  /\ pc[Tcpip] \in {Idle, "q_wait", "give"}
  /\ pc[Tcpip] # Idle => at[Tcpip] = "fetch"
  /\ msg[Tcpip] # NoMsg <=> pc[Tcpip] = "give"
  /\ at[Tcpip] = "fetch" => work = NoMsg
  /\ at[Tcpip] = "free" => work # NoMsg
  /\ core = Rx <=> at[Rx] \notin {"out", "lock"}
  /\ core = Tcpip <=> at[Tcpip] \in {"handle", "free"}
  /\ at[Rx] \in {"out", "lock", "alloc"} => p = NoPbuf
  /\ at[Rx] \in {"post", "place", "refused"} =>
       elem # NoMsg /\ (elem \in Inpkt <=> p # NoPbuf) /\ pkt[elem] = p

(* The messages that have left the receive task are in one place, and the     *)
(* places of the mailbox are accounted for.                                   *)
Places ==
  /\ semCtr + Len(entries) + (IF pc[Tcpip] = "give" THEN 1 ELSE 0)
       = Size + (IF at[Rx] = "place" THEN 1 ELSE 0)
  /\ \A i, j \in 1 .. Len(entries) : entries[i] = entries[j] => i = j
  /\ \A i \in 1 .. Len(entries) : entries[i] # msg[Tcpip] /\ entries[i] # work

(* An element is in use exactly while it is with one of the two tasks or on   *)
(* its way.                                                                   *)
Elements ==
  /\ Flight \subseteq alive
  /\ alive \subseteq Flight \cup (IF at[Rx] \in {"post", "refused"} THEN {elem} ELSE {})
  /\ at[Rx] \in {"post", "refused"} => elem \in alive \ Flight
  /\ at[Rx] = "place" => elem \in Flight

(* The packets on their way, and the one the receive task has to itself.      *)
Carried == {m \in Flight \cap Inpkt : at[Tcpip] = "free" => m # work}
Owning == p # NoPbuf /\ at[Rx] \in {"memp", "post", "refused", "failed"}

(* A pbuf in use belongs to one packet, to the receive task or to the stack.  *)
Pbufs ==
  /\ \A b \in Pbuf : refs[b] \in {0, 1}
  /\ \A b \in kept : refs[b] = 1
  /\ \A m \in Carried : pkt[m] \in Pbuf \ kept /\ refs[pkt[m]] = 1
  /\ \A m, n \in Carried : pkt[m] = pkt[n] => m = n
  /\ Owning => p \notin kept /\ refs[p] = 1 /\ \A m \in Carried : pkt[m] # p
  /\ \A b \in Pbuf : refs[b] # 0 =>
       (Owning /\ b = p) \/ b \in kept \/ \E m \in Carried : pkt[m] = b

(* pbuf_free_ooseq resets the flag before its own element is freed.           *)
Wanted ==
  /\ PendingIsQueued
  /\ at[Tcpip] = "free" /\ work \in Api => ~pending

IInv == TTypeOK /\ Where /\ Places /\ Elements /\ Pbufs /\ Wanted

(* The receive task is the more urgent one: tcpip_thread goes on only while   *)
(* that task is out of ethernetif_input or waits for the core lock.           *)
LEMMA RxFirst ==
  ASSUME Where, NEW l, Step(Tcpip, l)
  PROVE  at[Tcpip] = l /\ pc[Tcpip] \notin Blocked /\ at[Rx] \in {"out", "lock"}
BY Tasks DEF Where, Step, Ready, Blocked, Idle

(* sys_mbox_trypost hands the element to tcpip_thread, queues it, or fails.   *)
LEMMA PutEffect ==
  ASSUME TTypeOK, Where, TryPostPut
  PROVE  /\ at[Rx] = "post" /\ elem \in Msg
         /\ UNCHANGED <<semValid, semCtr, qValid, core, mem, p, elem, work>>
         /\ \/ /\ at' = [at EXCEPT ![Rx] = "place"] /\ entries' = Append(entries, elem)
               /\ pc' = [pc EXCEPT ![Rx] = "try_sem"] /\ msg' = [msg EXCEPT ![Rx] = elem]
            \/ /\ at' = [at EXCEPT ![Rx] = "place"] /\ entries' = entries
               /\ pc[Tcpip] = "q_wait"
               /\ pc' = [pc EXCEPT ![Rx] = "try_sem", ![Tcpip] = "give"]
               /\ msg' = [msg EXCEPT ![Rx] = elem, ![Tcpip] = elem]
            \/ /\ at' = [at EXCEPT ![Rx] = "refused"] /\ UNCHANGED <<entries, pc, msg>>
<1>1. /\ at[Rx] = "post" /\ elem \in Msg
      /\ UNCHANGED <<semValid, semCtr, qValid, core, mem, p, elem, work>>
  BY DEF TryPostPut, Step, TTypeOK, Where
<1>2. CASE QPostFails /\ Goto(Rx, "refused") /\ UNCHANGED <<entries, pc, msg>>
  BY <1>1, <1>2 DEF Goto
<1>3. CASE QPost(Rx, elem, "try_sem") /\ Goto(Rx, "place")
  <2>1. "try_sem" \in PC /\ "try_sem" # Idle
    BY DEF PC, Idle
  <2>2. PICK k \in {NoMsg, elem} :
           /\ k = elem
           /\ Queued(Rx, elem, "try_sem", k)
              \/ \E f \in At("q_wait") : HandedTo(f, Rx, elem, "try_sem", k)
    BY <1>1, <1>3, <2>1, Tasks, QPostEffect
  <2>3. \A f \in At("q_wait") : f = Tcpip /\ pc[Tcpip] = "q_wait"
    BY <1>1 DEF At, Where, Idle
  <2> QED BY <1>1, <1>3, <2>2, <2>3 DEF Queued, HandedTo, Goto
<1> QED BY <1>2, <1>3 DEF TryPostPut

-----------------------------------------------------------------------------
(* Types. *)

LEMMA StepMboxTypeOK == TTypeOK /\ Where /\ [TNext]_tvars => TypeOK'
<1> SUFFICES ASSUME TTypeOK, Where, [TNext]_tvars PROVE TypeOK'
  OBVIOUS
<1>0. TypeOK
  BY DEF TTypeOK
<1>1. ASSUME [Next]_vars PROVE TypeOK'
  BY <1>0, <1>1, StepTypeOK
<1>2. CASE TryPostPut
  <2>1. elem \in Msg /\ UNCHANGED <<semValid, semCtr, qValid, others, skew>>
    BY <1>2, PutEffect DEF TryPostPut
  <2>2. ret' \in [Msg -> Ret]
    BY <1>0, <1>2 DEF TryPostPut, TypeOK, Ret
  <2>3. CASE QPost(Rx, elem, "try_sem")
    <3>1. /\ entries' \in Seq(Msg) /\ pc' \in [Thread -> PC]
          /\ msg' \in [Thread -> Msg \cup {NoMsg}]
          /\ \A u \in Thread : pc'[u] \in Holding => msg'[u] \in Msg
      <4>1. "try_sem" \in PC
        BY DEF PC
      <4> QED BY <1>0, <2>1, <2>3, <4>1, Tasks, QPostType
    <3> QED BY <1>0, <2>1, <2>2, <3>1 DEF TypeOK
  <2>4. CASE UNCHANGED <<entries, pc, msg>>
    BY <1>0, <2>1, <2>2, <2>4 DEF TypeOK
  <2> QED BY <1>2, <2>3, <2>4 DEF TryPostPut
<1>3. CASE TryPostPlace
  BY <1>1, <1>3, Tasks DEF TryPostPlace, Next
<1>4. CASE Fetch \/ FetchEnds \/ Timeout
  BY <1>1, <1>4, Tasks DEF Fetch, FetchEnds, Timeout, Next
<1>5. CASE Others
  BY <1>1, <1>5 DEF Others, Next
<1>6. CASE UNCHANGED vars
  BY <1>1, <1>6
<1> QED
  BY <1>2, <1>3, <1>4, <1>5, <1>6 DEF TNext, RxStep, TcpipStep, Frame, Lock, Alloc, Memp,
     Refused, Failed, Unlock, HandlePacket, HandleCallback, FreeElement, CheckTimeouts,
     AppFree, tvars

(* A reference count goes down by one.                                        *)
LEMMA DecIs ==
  ASSUME NEW b, refs \in [Pbuf -> 0 .. 255], Dec(b)
  PROVE  /\ refs' \in [Pbuf -> 0 .. 255]
         /\ \A c \in Pbuf : c # b => refs'[c] = refs[c]
         /\ b \in Pbuf /\ refs[b] = 1 => refs'[b] = 0
<1>1. ASSUME NEW x \in 0 .. 255 PROVE (x + 255) % 256 \in 0 .. 255
  <2>1. PICK y \in Nat : y = x + 255
    OBVIOUS
  <2> QED BY <2>1
<1>2. (1 + 255) % 256 = 0
  OBVIOUS
<1>3. PICK r : r = (refs[b] + 255) % 256
  OBVIOUS
<1>4. refs' = [refs EXCEPT ![b] = r] /\ (b \in Pbuf => r \in 0 .. 255 /\ (refs[b] = 1 => r = 0))
  BY <1>1, <1>2, <1>3 DEF Dec
<1> QED BY <1>4

LEMMA StepTTypeOK == TTypeOK /\ Where /\ Pbufs /\ [TNext]_tvars => TTypeOK'
<1> SUFFICES ASSUME TTypeOK, Where, Pbufs, [TNext]_tvars PROVE TTypeOK'
  OBVIOUS
<1>0. TypeOK' /\ msg[Tcpip] \in Msg \cup {NoMsg} /\ Rx # Tcpip
  BY StepMboxTypeOK, Tasks DEF TTypeOK, TypeOK
<1> DEFINE AtType == at' \in [{Rx, Tcpip} -> {"out", "lock", "alloc", "memp", "post", "place",
             "refused", "failed", "unlock", "fetch", "handle", "free"}]
           CoreType == core' \in {Rx, Tcpip, NoTask}
           MemType == /\ alive' \subseteq Msg /\ pkt' \in [Msg -> Pbuf \cup {NoPbuf}]
                      /\ refs' \in [Pbuf -> 0 .. 255] /\ kept' \subseteq Pbuf
                      /\ pending' \in BOOLEAN
           HandType == /\ p' \in Pbuf \cup {NoPbuf} /\ elem' \in Msg \cup {NoMsg}
                       /\ work' \in Msg \cup {NoMsg}
<1>a. SUFFICES AtType /\ CoreType /\ MemType /\ HandType
  BY <1>0 DEF TTypeOK
<1> USE DEF TTypeOK, Step, Goto
<1>1. CASE Frame
  BY <1>1 DEF Frame, mem
<1>2. CASE Lock(Rx, "alloc") \/ Lock(Tcpip, "handle")
  BY <1>2 DEF Lock, mem
<1>3. CASE Alloc
  <2>1. MemType
    <3>1. CASE UNCHANGED refs
      BY <1>3, <3>1 DEF Alloc
    <3>2. ASSUME NEW b \in Pbuf, refs' = [refs EXCEPT ![b] = 1] PROVE MemType
      <4>1. 1 \in 0 .. 255
        OBVIOUS
      <4> QED BY <1>3, <3>2, <4>1 DEF Alloc
    <3> QED BY <1>3, <3>1, <3>2 DEF Alloc
  <2>2. AtType /\ CoreType /\ HandType
    BY <1>3 DEF Alloc
  <2> QED BY <2>1, <2>2
<1>4. CASE Memp
  <2>1. Api \subseteq Msg /\ Inpkt \subseteq Msg
    BY TcpipAssumption
  <2>2. MemType
    BY <1>4, <2>1 DEF Memp
  <2>3. AtType /\ CoreType /\ HandType
    BY <1>4, <2>1 DEF Memp
  <2> QED BY <2>2, <2>3
<1>5. CASE TryPostPut
  <2>1. UNCHANGED <<core, mem, p, elem, work>> /\ AtType
    BY <1>5, PutEffect
  <2> QED BY <2>1 DEF mem
<1>6. CASE TryPostPlace
  BY <1>6 DEF TryPostPlace, mem
<1>7. CASE Refused
  BY <1>7 DEF Refused
<1>8. CASE Failed
  <2>1. MemType
    <3>1. CASE p = NoPbuf
      BY <1>8, <3>1 DEF Failed
    <3>2. CASE p # NoPbuf
      BY <1>8, <3>2, DecIs DEF Failed
    <3> QED BY <3>1, <3>2
  <2>2. AtType /\ CoreType /\ HandType
    BY <1>8 DEF Failed
  <2> QED BY <2>1, <2>2
<1>9. CASE Unlock
  BY <1>9 DEF Unlock, mem
<1>10. CASE Fetch
  BY <1>10 DEF Fetch, mem
<1>11. CASE FetchEnds
  BY <1>0, <1>11 DEF FetchEnds, mem
<1>12. CASE Timeout
  BY <1>12 DEF Timeout, mem
<1>13. CASE HandlePacket
  <2>1. MemType
    <3>1. CASE Dec(pkt[work]) /\ UNCHANGED kept
      BY <1>13, <3>1, DecIs DEF HandlePacket
    <3>2. CASE kept' = kept \cup {pkt[work]} /\ UNCHANGED refs
      <4>1. pkt[work] \in Pbuf
        <5>1. work \in Carried
          BY <1>13, MsgAssumption, TcpipAssumption DEF HandlePacket, Flight, Carried
        <5> QED BY <5>1 DEF Pbufs
      <4> QED BY <1>13, <3>2, <4>1 DEF HandlePacket
    <3> QED BY <1>13, <3>1, <3>2 DEF HandlePacket
  <2>2. AtType /\ CoreType /\ HandType
    BY <1>13 DEF HandlePacket
  <2> QED BY <2>1, <2>2
<1>14. CASE HandleCallback
  <2>1. CASE UNCHANGED <<kept, refs>>
    BY <1>14, <2>1 DEF HandleCallback
  <2>2. ASSUME NEW b \in kept, Dec(b), kept' = kept \ {b} PROVE MemType
    <3>1. refs' \in [Pbuf -> 0 .. 255]
      BY <2>2, DecIs
    <3> QED BY <1>14, <2>2, <3>1 DEF HandleCallback
  <2>3. AtType /\ CoreType /\ HandType
    BY <1>14 DEF HandleCallback
  <2> QED BY <1>14, <2>1, <2>2, <2>3 DEF HandleCallback
<1>15. CASE FreeElement
  BY <1>15 DEF FreeElement
<1>16. CASE CheckTimeouts
  BY <1>16 DEF CheckTimeouts, mem
<1>17. CASE AppFree
  <2>1. PICK b \in kept : Dec(b) /\ kept' = kept \ {b}
    BY <1>17 DEF AppFree
  <2>2. MemType
    <3>1. refs' \in [Pbuf -> 0 .. 255]
      BY <2>1, DecIs
    <3> QED BY <1>17, <2>1, <3>1 DEF AppFree
  <2>3. AtType /\ CoreType /\ HandType
    BY <1>17 DEF AppFree
  <2> QED BY <2>2, <2>3
<1>18. CASE Others \/ UNCHANGED tvars
  BY <1>18 DEF Others, tvars, mem
<1> QED
  BY <1>1, <1>2, <1>3, <1>4, <1>5, <1>6, <1>7, <1>8, <1>9, <1>10, <1>11, <1>12, <1>13,
     <1>14, <1>15, <1>16, <1>17, <1>18 DEF TNext, RxStep, TcpipStep

LEMMA InitWhere == TInit => TTypeOK /\ Where
<1> SUFFICES ASSUME TInit PROVE TTypeOK /\ Where
  OBVIOUS
<1>1. TypeOK
  BY InitTypeOK DEF TInit
<1>2. TTypeOK
  <2>1. 0 \in 0 .. 255
    OBVIOUS
  <2>2. at \in [{Rx, Tcpip} -> {"out", "fetch"}]
    BY DEF TInit
  <2> QED BY <1>1, <2>1, <2>2 DEF TInit, TTypeOK
<1>3. Where
  BY Tasks DEF TInit, Init, Where, Idle
<1> QED BY <1>2, <1>3

LEMMA StepWhere == TTypeOK /\ Where /\ [TNext]_tvars => Where'
<1> SUFFICES ASSUME TTypeOK, Where, [TNext]_tvars PROVE Where'
  OBVIOUS
<1>0. /\ Rx \in Thread /\ Tcpip \in Thread /\ Rx # Tcpip /\ Rx # NoTask /\ Tcpip # NoTask
      /\ pc \in [Thread -> PC] /\ msg \in [Thread -> Msg \cup {NoMsg}] /\ NoMsg \notin Msg
      /\ at = [t \in {Rx, Tcpip} |-> at[t]] /\ pkt \in [Msg -> Pbuf \cup {NoPbuf}]
      /\ p \in Pbuf \cup {NoPbuf} /\ NoPbuf \notin Pbuf
      /\ Inpkt \subseteq Msg /\ Api \subseteq Msg /\ Inpkt \cap Api = {}
      /\ (pc[Tcpip] = "give" => msg[Tcpip] \in Msg)
  BY Tasks, MsgAssumption, TcpipAssumption DEF TTypeOK, TypeOK, Holding
<1> USE DEF Where, Goto, Idle
<1>1. CASE Frame
  BY <1>0, <1>1 DEF Frame, mem, vars, mbox
<1>2. CASE Lock(Rx, "alloc")
  BY <1>0, <1>2 DEF Lock, Step, mem, vars, mbox
<1>3. CASE Lock(Tcpip, "handle")
  BY <1>0, <1>3 DEF Lock, Step, mem, vars, mbox
<1>4. CASE Alloc
  BY <1>0, <1>4 DEF Alloc, Step, vars, mbox
<1>5. CASE Memp
  BY <1>0, <1>5 DEF Memp, Step, vars, mbox
<1>6. CASE TryPostPut
  <2>1. /\ at[Rx] = "post" /\ elem \in Msg
        /\ UNCHANGED <<semValid, qValid, core, pkt, p, elem, work>>
    BY <1>6, PutEffect DEF mem
  <2>2. \/ /\ at' = [at EXCEPT ![Rx] = "place"]
           /\ pc' = [pc EXCEPT ![Rx] = "try_sem"] /\ msg' = [msg EXCEPT ![Rx] = elem]
        \/ /\ at' = [at EXCEPT ![Rx] = "place"] /\ pc[Tcpip] = "q_wait"
           /\ pc' = [pc EXCEPT ![Rx] = "try_sem", ![Tcpip] = "give"]
           /\ msg' = [msg EXCEPT ![Rx] = elem, ![Tcpip] = elem]
        \/ /\ at' = [at EXCEPT ![Rx] = "refused"] /\ UNCHANGED <<pc, msg>>
    BY <1>6, PutEffect
  <2> QED BY <1>0, <2>1, <2>2
<1>7. CASE TryPostPlace
  BY <1>0, <1>7 DEF TryPostPlace, TryTakePlace, Step, mem
<1>8. CASE Refused
  BY <1>0, <1>8 DEF Refused, Step, vars, mbox
<1>9. CASE Failed
  BY <1>0, <1>9 DEF Failed, Step, vars, mbox
<1>10. CASE Unlock
  BY <1>0, <1>10 DEF Unlock, Step, mem, vars, mbox
<1>11. CASE Fetch
  <2>1. at[Tcpip] = "fetch" /\ UNCHANGED <<at, core, pkt, p, elem, work, semValid, qValid>>
    BY <1>11 DEF Fetch, Step, mem, FetchTake, FetchWait, mbox
  <2>2. \/ /\ pc[Tcpip] = Idle /\ pc' = [pc EXCEPT ![Tcpip] = "give"]
           /\ \E m \in Msg : msg' = [msg EXCEPT ![Tcpip] = m]
        \/ /\ pc[Tcpip] = Idle /\ pc' = [pc EXCEPT ![Tcpip] = "q_wait"] /\ msg' = msg
    <3>1. entries # << >> => Head(entries) \in Msg
      BY DEF TTypeOK, TypeOK
    <3> QED BY <1>11, <3>1 DEF Fetch, FetchTake, FetchWait
  <2> QED BY <1>0, <2>1, <2>2
<1>12. CASE FetchEnds
  <2>1. /\ at[Tcpip] = "fetch" /\ pc[Tcpip] = "give" /\ at' = [at EXCEPT ![Tcpip] = "lock"]
        /\ work' = msg[Tcpip] /\ msg' = [msg EXCEPT ![Tcpip] = NoMsg]
        /\ UNCHANGED <<core, pkt, p, elem, semValid, qValid>>
    BY <1>12 DEF FetchEnds, Step, FetchGive, FetchReturn, mem
  <2>2. pc' = [pc EXCEPT ![Tcpip] = Idle]
    <3>1. At("sem_wait") = {}
      BY DEF At
    <3> QED BY <1>12, <3>1 DEF FetchEnds, FetchGive
  <2> QED BY <1>0, <2>1, <2>2
<1>13. CASE Timeout
  BY <1>0, <1>13 DEF Timeout, FetchTimeout, mem, mbox
<1>14. CASE HandlePacket
  BY <1>0, <1>14 DEF HandlePacket, Step, vars, mbox
<1>15. CASE HandleCallback
  BY <1>0, <1>15 DEF HandleCallback, Step, vars, mbox
<1>16. CASE FreeElement
  BY <1>0, <1>16 DEF FreeElement, Step, vars, mbox
<1>17. CASE CheckTimeouts
  BY <1>0, <1>17 DEF CheckTimeouts, Step, mem, vars, mbox
<1>18. CASE AppFree
  BY <1>18 DEF AppFree, vars, mbox
<1>19. CASE Others \/ UNCHANGED tvars
  BY <1>19 DEF Others, OthersTake, OthersReturn, tvars, vars, mbox, mem
<1> QED
  BY <1>1, <1>2, <1>3, <1>4, <1>5, <1>6, <1>7, <1>8, <1>9, <1>10, <1>11, <1>12, <1>13,
     <1>14, <1>15, <1>16, <1>17, <1>18, <1>19 DEF TNext, RxStep, TcpipStep

-----------------------------------------------------------------------------
(* The message is queued and the place is missing: the only step that         *)
(* changes skew.                                                              *)
LEMMA SkewIs ==
  ASSUME [TNext]_tvars
  PROVE  skew' = skew \/ skew' = skew + 1
<1>1. CASE TryPostPlace
  BY <1>1 DEF TryPostPlace, TryTakePlace
<1>2. CASE TryPostPut \/ Fetch \/ FetchEnds \/ Timeout
  BY <1>2 DEF TryPostPut, Fetch, FetchEnds, Timeout, FetchTake, FetchWait, FetchGive,
     FetchReturn, FetchTimeout
<1>3. CASE Others
  BY <1>3 DEF Others, OthersTake, OthersReturn
<1>4. CASE UNCHANGED vars
  BY <1>4 DEF vars
<1> QED
  BY <1>1, <1>2, <1>3, <1>4 DEF TNext, RxStep, TcpipStep, Frame, Lock, Alloc, Memp,
     Refused, Failed, Unlock, HandlePacket, HandleCallback, FreeElement, CheckTimeouts,
     AppFree, tvars

(* The other way sys_mbox_trypost takes the place of what it has queued.      *)
LEMMA PlaceEffect ==
  ASSUME TTypeOK, Where, TryPostPlace, skew' = skew
  PROVE  /\ at[Rx] = "place" /\ semCtr' = semCtr - 1 /\ at' = [at EXCEPT ![Rx] = "unlock"]
         /\ pc' = [pc EXCEPT ![Rx] = Idle] /\ msg' = [msg EXCEPT ![Rx] = NoMsg]
         /\ UNCHANGED <<entries, core, mem, p, elem, work>>
<1>1. at[Rx] = "place" /\ skew \in Int
  BY DEF TryPostPlace, Step, TTypeOK, TypeOK
<1>2. skew' # skew + 1
  BY <1>1
<1> QED BY <1>1, <1>2 DEF TryPostPlace, TryTakePlace, Goto, Where

-----------------------------------------------------------------------------
(* How messages travel. *)

LEMMA FlightIs ==
  ASSUME NEW m
  PROVE  m \in Flight <=> In(m, entries) \/ (m # NoMsg /\ m \in {msg[Tcpip], work})
BY DEF Flight, In

LEMMA PutFlight ==
  ASSUME TTypeOK, Where, TryPostPut
  PROVE  \/ at' = [at EXCEPT ![Rx] = "place"] /\ Flight' = Flight \cup {elem}
         \/ at' = [at EXCEPT ![Rx] = "refused"] /\ Flight' = Flight
<1>0. /\ elem \in Msg /\ work' = work /\ entries \in Seq(Msg) /\ elem # NoMsg
      /\ Rx # Tcpip /\ Rx \in Thread /\ Tcpip \in Thread /\ msg \in [Thread -> Msg \cup {NoMsg}]
  BY PutEffect, Tasks, MsgAssumption DEF TTypeOK, TypeOK
<1>1. CASE /\ at' = [at EXCEPT ![Rx] = "place"] /\ entries' = Append(entries, elem)
           /\ msg' = [msg EXCEPT ![Rx] = elem]
  <2>1. \A m : In(m, entries') <=> In(m, entries) \/ m = elem
    BY <1>0, <1>1, AppendIn
  <2>2. msg'[Tcpip] = msg[Tcpip]
    BY <1>0, <1>1
  <2>3. ASSUME NEW m PROVE m \in Flight' <=> m \in Flight \cup {elem}
    <3>1. m \in Flight' <=> In(m, entries') \/ m \in {msg'[Tcpip], work'} \ {NoMsg}
      BY DEF Flight, In
    <3>2. m \in Flight <=> In(m, entries) \/ m \in {msg[Tcpip], work} \ {NoMsg}
      BY DEF Flight, In
    <3> QED BY <1>0, <2>1, <2>2, <3>1, <3>2
  <2>4. Flight' = Flight \cup {elem}
    BY <2>3
  <2> QED BY <1>1, <2>4
<1>2. CASE /\ at' = [at EXCEPT ![Rx] = "place"] /\ entries' = entries /\ pc[Tcpip] = "q_wait"
           /\ msg' = [msg EXCEPT ![Rx] = elem, ![Tcpip] = elem]
  <2>1. msg'[Tcpip] = elem /\ msg[Tcpip] = NoMsg
    BY <1>0, <1>2 DEF Where
  <2>2. Flight' = Flight \cup {elem}
    BY <1>0, <1>2, <2>1 DEF Flight
  <2> QED BY <1>2, <2>2
<1>3. CASE at' = [at EXCEPT ![Rx] = "refused"] /\ UNCHANGED <<entries, msg>>
  BY <1>0, <1>3 DEF Flight
<1> QED BY <1>1, <1>2, <1>3, PutEffect

(* Fetching takes a message from the queue into the hands of tcpip_thread.    *)
FetchEffect(m) ==
  /\ at[Tcpip] = "fetch" /\ pc[Tcpip] = Idle /\ pc' = [pc EXCEPT ![Tcpip] = "give"]
  /\ entries # << >> /\ m = Head(entries) /\ entries' = Tail(entries)
  /\ msg' = [msg EXCEPT ![Tcpip] = m]
  /\ UNCHANGED <<semCtr, at, core, mem, p, elem, work>>

GiveEffect ==
  /\ at[Tcpip] = "fetch" /\ pc[Tcpip] = "give" /\ pc' = [pc EXCEPT ![Tcpip] = Idle]
  /\ at' = [at EXCEPT ![Tcpip] = "lock"] /\ semCtr' = semCtr + 1
  /\ work' = msg[Tcpip] /\ msg' = [msg EXCEPT ![Tcpip] = NoMsg]
  /\ UNCHANGED <<entries, core, mem, p, elem>>

(* Waiting and giving up move nothing.                                        *)
WaitEffect ==
  /\ at[Tcpip] = "fetch" /\ pc[Tcpip] # "give"
  /\ \E l \in {Idle, "q_wait"} : pc' = [pc EXCEPT ![Tcpip] = l]
  /\ \E l \in {"fetch", "lock"} : at' = [at EXCEPT ![Tcpip] = l]
  /\ UNCHANGED <<semCtr, entries, msg, core, mem, p, elem, work>>

LEMMA FetchIs ==
  ASSUME TTypeOK, Where, Fetch \/ FetchEnds \/ Timeout
  PROVE  (\E m \in Msg : FetchEffect(m)) \/ GiveEffect \/ WaitEffect
<1>0. Tcpip \in Thread /\ at = [t \in {Rx, Tcpip} |-> at[t]]
  BY Tasks DEF TTypeOK
<1>1. CASE Fetch /\ FetchTake(Tcpip)
  <2>1. Head(entries) \in Msg
    BY <1>1 DEF FetchTake, TTypeOK, TypeOK
  <2> QED BY <1>1, <2>1 DEF Fetch, Step, FetchTake, FetchEffect
<1>2. CASE Fetch /\ FetchWait(Tcpip)
  <2>1. at' = [at EXCEPT ![Tcpip] = "fetch"] /\ at[Tcpip] = "fetch"
    BY <1>0, <1>2 DEF Fetch, Step
  <2> QED BY <1>2, <2>1 DEF Fetch, FetchWait, WaitEffect, mbox, Idle
<1>3. CASE FetchEnds
  <2>1. At("sem_wait") = {}
    BY DEF At, Where, Idle
  <2> QED BY <1>3, <2>1 DEF FetchEnds, FetchGive, FetchReturn, Step, Goto, GiveEffect, Where
<1>4. CASE Timeout
  BY <1>4 DEF Timeout, FetchTimeout, Goto, WaitEffect, mbox, Idle
<1> QED BY <1>1, <1>2, <1>3, <1>4 DEF Fetch

LEMMA FetchFlight ==
  ASSUME TTypeOK, Where, Fetch \/ FetchEnds \/ Timeout
  PROVE  Flight' = Flight
<1>0. /\ Tcpip \in Thread /\ msg \in [Thread -> Msg \cup {NoMsg}] /\ entries \in Seq(Msg)
      /\ NoMsg \notin Msg
  BY Tasks, MsgAssumption DEF TTypeOK, TypeOK
<1>1. ASSUME NEW m \in Msg, FetchEffect(m) PROVE Flight' = Flight
  <2>1. \A x : In(x, entries) <=> In(x, entries') \/ x = m
    BY <1>0, <1>1, TailIn DEF FetchEffect
  <2>2. msg[Tcpip] = NoMsg /\ msg'[Tcpip] = m /\ work' = work
    BY <1>0, <1>1 DEF FetchEffect, Where, Idle
  <2>3. \A x : x \in Flight <=> In(x, entries) \/ (x # NoMsg /\ x \in {msg[Tcpip], work})
    BY DEF Flight, In
  <2>4. \A x : x \in Flight' <=> In(x, entries') \/ (x # NoMsg /\ x \in {msg'[Tcpip], work'})
    BY DEF Flight, In
  <2>5. \A x : x \in Flight' <=> x \in Flight
    BY <1>0, <2>1, <2>2, <2>3, <2>4
  <2> QED BY <2>5
<1>2. CASE GiveEffect
  <2>1. work = NoMsg /\ work' = msg[Tcpip] /\ msg'[Tcpip] = NoMsg /\ entries' = entries
    BY <1>0, <1>2 DEF GiveEffect, Where
  <2> DEFINE E == {entries[i] : i \in 1 .. Len(entries)}
  <2>2. Flight = E \cup ({msg[Tcpip], NoMsg} \ {NoMsg})
    BY <2>1 DEF Flight
  <2>3. Flight' = E \cup ({NoMsg, msg[Tcpip]} \ {NoMsg})
    BY <2>1 DEF Flight
  <2> QED BY <2>2, <2>3
<1>3. CASE WaitEffect
  BY <1>3 DEF WaitEffect, Flight
<1> QED BY <1>1, <1>2, <1>3, FetchIs

(* Freeing the element that was handled ends its way, whatever tcpip_thread   *)
(* has fetched it from.                                                       *)
LEMMA FreeFlight ==
  ASSUME TTypeOK, Where, Places, FreeElement
  PROVE  at[Tcpip] = "free" /\ Flight' = Flight \ {work}
<1>1. at[Tcpip] = "free" /\ UNCHANGED <<entries, msg>> /\ work' = NoMsg
  BY DEF FreeElement, Step, vars, mbox
<1>2. msg[Tcpip] = NoMsg /\ work # NoMsg /\ NoMsg \notin Msg /\ entries \in Seq(Msg)
  BY <1>1, MsgAssumption DEF Where, TTypeOK, TypeOK, Idle
<1> DEFINE E == {entries[i] : i \in 1 .. Len(entries)}
<1>3. work \notin E
  BY DEF Places
<1>4. Flight = E \cup ({NoMsg, work} \ {NoMsg})
  BY <1>2 DEF Flight
<1>5. Flight' = E \cup ({NoMsg, NoMsg} \ {NoMsg})
  BY <1>1, <1>2 DEF Flight
<1> HIDE DEF E
<1>6. Flight = E \cup {work} /\ Flight' = E
  BY <1>2, <1>4, <1>5
<1> QED BY <1>1, <1>3, <1>6

(* Every other step leaves the messages where they are.                       *)
Resting ==
  \/ Frame \/ Lock(Rx, "alloc") \/ Lock(Tcpip, "handle") \/ Alloc \/ Memp \/ Refused
  \/ Failed \/ Unlock \/ HandlePacket \/ HandleCallback \/ CheckTimeouts \/ AppFree
  \/ Others \/ UNCHANGED tvars

LEMMA RestingKeeps ==
  ASSUME Resting
  PROVE  UNCHANGED <<semCtr, entries, pc, msg, work>> /\ Flight' = Flight
<1>1. UNCHANGED <<semCtr, entries, pc, msg, work>>
  BY DEF Resting, Frame, Lock, Alloc, Memp, Refused, Failed, Unlock, HandlePacket,
     HandleCallback, CheckTimeouts, AppFree, Others, OthersTake, OthersReturn, tvars, vars, mbox
<1> QED BY <1>1 DEF Flight

LEMMA TNextIs ==
  [TNext]_tvars <=>
    Resting \/ TryPostPut \/ TryPostPlace \/ Fetch \/ FetchEnds \/ Timeout \/ FreeElement
BY DEF TNext, RxStep, TcpipStep, Resting

(* Places, in terms of In and Once. *)
LEMMA PlacesIs ==
  Places <=>
    /\ semCtr + Len(entries) + (IF pc[Tcpip] = "give" THEN 1 ELSE 0)
         = Size + (IF at[Rx] = "place" THEN 1 ELSE 0)
    /\ Once(entries) /\ ~In(msg[Tcpip], entries) /\ ~In(work, entries)
BY DEF Places, Once, In

LEMMA StepPlaces == IInv /\ [TNext]_tvars /\ skew' = skew => Places'
<1> SUFFICES ASSUME IInv, [TNext]_tvars, skew' = skew PROVE Places'
  OBVIOUS
<1> DEFINE give == IF pc[Tcpip] = "give" THEN 1 ELSE 0
           place == IF at[Rx] = "place" THEN 1 ELSE 0
           Sum == semCtr + Len(entries) + give = Size + place
           Apart == Once(entries) /\ ~In(msg[Tcpip], entries) /\ ~In(work, entries)
<1>0. /\ TTypeOK /\ Where /\ Elements /\ Places /\ Sum /\ Apart
      /\ semCtr \in Nat /\ entries \in Seq(Msg) /\ Size \in Nat /\ Len(entries) \in Nat
      /\ NoMsg \notin Msg /\ Rx # Tcpip /\ Rx \in Thread /\ Tcpip \in Thread
      /\ pc \in [Thread -> PC] /\ msg \in [Thread -> Msg \cup {NoMsg}]
      /\ at = [t \in {Rx, Tcpip} |-> at[t]]
  <2>1. TTypeOK /\ Where /\ Elements /\ Places /\ Sum /\ Apart
    BY PlacesIs DEF IInv
  <2>2. TypeOK /\ at = [t \in {Rx, Tcpip} |-> at[t]]
    BY <2>1 DEF TTypeOK
  <2>3. /\ semCtr \in Nat /\ entries \in Seq(Msg) /\ Len(entries) \in Nat
        /\ pc \in [Thread -> PC] /\ msg \in [Thread -> Msg \cup {NoMsg}]
    BY <2>2 DEF TypeOK
  <2> QED BY <2>1, <2>2, <2>3, Tasks, MsgAssumption, SizeAssumption
<1>a. SUFFICES Sum' /\ Apart'
  BY DEF Places, Once, In
<1>b. ~In(NoMsg, entries)
  BY <1>0 DEF In
<1>1. CASE Resting
  <2>1. at'[Rx] = "place" <=> at[Rx] = "place"
    BY <1>0, <1>1 DEF Resting, Frame, Lock, Alloc, Memp, Refused, Failed, Unlock,
       HandlePacket, HandleCallback, CheckTimeouts, AppFree, Others, tvars, Step, Goto
  <2>2. UNCHANGED <<semCtr, entries, pc, msg, work>>
    BY <1>1, RestingKeeps
  <2> QED BY <1>0, <2>1, <2>2
<1>2. CASE TryPostPut
  <2>1. at[Rx] = "post" /\ elem \in Msg /\ semCtr' = semCtr /\ work' = work
    BY <1>0, <1>2, PutEffect
  <2>2. ~In(elem, entries) /\ elem # msg[Tcpip] /\ elem # work
    BY <1>0, <2>1, FlightIs DEF Elements
  <2>3. CASE /\ at' = [at EXCEPT ![Rx] = "place"] /\ entries' = Append(entries, elem)
             /\ pc' = [pc EXCEPT ![Rx] = "try_sem"] /\ msg' = [msg EXCEPT ![Rx] = elem]
    <3>1. /\ \A x : In(x, entries') <=> In(x, entries) \/ x = elem
          /\ Once(entries') /\ Len(entries') = Len(entries) + 1
      BY <1>0, <2>1, <2>2, <2>3, AppendIn
    <3>2. pc'[Tcpip] = pc[Tcpip] /\ msg'[Tcpip] = msg[Tcpip] /\ at'[Rx] = "place"
      BY <1>0, <2>3
    <3>3. Sum'
      BY <1>0, <2>1, <3>1, <3>2
    <3> QED BY <1>0, <2>1, <2>2, <3>1, <3>2, <3>3
  <2>4. CASE /\ at' = [at EXCEPT ![Rx] = "place"] /\ entries' = entries
             /\ pc[Tcpip] = "q_wait"
             /\ pc' = [pc EXCEPT ![Rx] = "try_sem", ![Tcpip] = "give"]
             /\ msg' = [msg EXCEPT ![Rx] = elem, ![Tcpip] = elem]
    <3>1. pc'[Tcpip] = "give" /\ msg'[Tcpip] = elem /\ at'[Rx] = "place"
      BY <1>0, <2>4
    <3>2. Sum'
      BY <1>0, <2>1, <2>4, <3>1
    <3> QED BY <1>0, <2>1, <2>2, <2>4, <3>1, <3>2
  <2>5. CASE at' = [at EXCEPT ![Rx] = "refused"] /\ UNCHANGED <<entries, pc, msg>>
    <3>1. at'[Rx] = "refused"
      BY <1>0, <2>5
    <3> QED BY <1>0, <2>1, <2>5, <3>1
  <2> QED BY <1>0, <1>2, <2>3, <2>4, <2>5, PutEffect
<1>3. CASE TryPostPlace
  <2>1. /\ at[Rx] = "place" /\ semCtr' = semCtr - 1 /\ at' = [at EXCEPT ![Rx] = "unlock"]
        /\ pc' = [pc EXCEPT ![Rx] = Idle] /\ msg' = [msg EXCEPT ![Rx] = NoMsg]
        /\ UNCHANGED <<entries, work>>
    BY <1>0, <1>3, PlaceEffect
  <2>2. pc'[Tcpip] = pc[Tcpip] /\ msg'[Tcpip] = msg[Tcpip] /\ at'[Rx] = "unlock"
    BY <1>0, <2>1
  <2>3. Sum'
    <3>1. semCtr + Len(entries) + give = Size + 1 /\ give \in Nat /\ Len(entries') = Len(entries)
      BY <1>0, <2>1
    <3>2. (semCtr - 1) + Len(entries) + give = Size + 0
      BY <1>0, <3>1
    <3> QED BY <2>1, <2>2, <3>1, <3>2
  <2> QED BY <1>0, <2>1, <2>2, <2>3
<1>4. ASSUME NEW m \in Msg, FetchEffect(m) PROVE Sum' /\ Apart'
  <2>1. /\ entries # << >> /\ m = Head(entries) /\ entries' = Tail(entries)
        /\ UNCHANGED <<semCtr, at, work>>
        /\ pc'[Tcpip] = "give" /\ pc[Tcpip] # "give" /\ msg'[Tcpip] = m
    BY <1>0, <1>4 DEF FetchEffect, Idle
  <2>2. /\ \A x : In(x, entries) <=> In(x, entries') \/ x = m
        /\ Once(entries') /\ ~In(m, entries') /\ Len(entries') = Len(entries) - 1
    BY <1>0, <2>1, TailIn
  <2>3. Sum'
    BY <1>0, <2>1, <2>2
  <2> QED BY <1>0, <2>1, <2>2, <2>3
<1>5. CASE GiveEffect
  <2>1. /\ pc[Tcpip] = "give" /\ pc'[Tcpip] # "give" /\ at'[Rx] = at[Rx] /\ semCtr' = semCtr + 1
        /\ work' = msg[Tcpip] /\ msg'[Tcpip] = NoMsg /\ entries' = entries
    BY <1>0, <1>5 DEF GiveEffect, Idle
  <2>2. Sum'
    BY <1>0, <2>1
  <2> QED BY <1>0, <1>b, <2>1, <2>2
<1>6. CASE WaitEffect
  <2>1. /\ pc[Tcpip] # "give" /\ pc'[Tcpip] # "give" /\ at'[Rx] = at[Rx]
        /\ UNCHANGED <<semCtr, entries, msg, work>>
    BY <1>0, <1>6 DEF WaitEffect, Idle
  <2> QED BY <1>0, <2>1
<1>7. CASE FreeElement
  <2>1. UNCHANGED <<semCtr, entries, pc, msg>> /\ work' = NoMsg /\ at'[Rx] = at[Rx]
    BY <1>0, <1>7 DEF FreeElement, Goto, vars, mbox
  <2> QED BY <1>0, <1>b, <2>1
<1> QED
  BY <1>0, <1>1, <1>2, <1>3, <1>4, <1>5, <1>6, <1>7, FetchIs, TNextIs

-----------------------------------------------------------------------------
(* Elements, pbufs and the flag.  What every step does to the messages under  *)
(* way, to the elements in use and to the position of the receive task:       *)

LEMMA PlaceFlight ==
  ASSUME TTypeOK, Where, TryPostPlace, skew' = skew
  PROVE  Flight' = Flight
<1>1. /\ msg' = [msg EXCEPT ![Rx] = NoMsg] /\ UNCHANGED <<entries, work>>
      /\ msg \in [Thread -> Msg \cup {NoMsg}] /\ Rx # Tcpip /\ Tcpip \in Thread
  BY PlaceEffect, Tasks DEF TTypeOK, TypeOK
<1>2. msg'[Tcpip] = msg[Tcpip]
  BY <1>1
<1> QED BY <1>1, <1>2 DEF Flight

LEMMA FetchRest ==
  ASSUME TTypeOK, Where, Fetch \/ FetchEnds \/ Timeout
  PROVE  /\ UNCHANGED <<alive, pkt, refs, kept, pending, p, elem>> /\ at'[Rx] = at[Rx]
         /\ at[Tcpip] # "free" /\ at'[Tcpip] # "free"
<1>1. Rx # Tcpip /\ at = [t \in {Rx, Tcpip} |-> at[t]]
  BY Tasks DEF TTypeOK
<1>2. UNCHANGED <<mem, p, elem>> /\ at[Tcpip] = "fetch"
  BY FetchIs DEF FetchEffect, GiveEffect, WaitEffect
<1>3. at' = at \/ \E l \in {"fetch", "lock"} : at' = [at EXCEPT ![Tcpip] = l]
  BY FetchIs DEF FetchEffect, GiveEffect, WaitEffect
<1> QED BY <1>1, <1>2, <1>3 DEF mem

LEMMA StepElements == IInv /\ [TNext]_tvars /\ skew' = skew => Elements'
<1> SUFFICES ASSUME IInv, [TNext]_tvars, skew' = skew PROVE Elements'
  OBVIOUS
<1>0. /\ TTypeOK /\ Where /\ Elements /\ Places /\ Rx # Tcpip
      /\ at = [t \in {Rx, Tcpip} |-> at[t]]
  BY Tasks DEF IInv, TTypeOK
<1>a. ASSUME UNCHANGED alive, Flight' = Flight,
             \/ at'[Rx] = at[Rx] /\ elem' = elem
             \/ at'[Rx] \notin {"post", "place", "refused"} /\ at[Rx] \notin {"post", "refused"}
      PROVE  Elements'
  BY <1>0, <1>a DEF Elements
<1>1. CASE /\ Resting /\ ~Memp /\ ~Refused
  <2>1. Flight' = Flight
    BY <1>1, RestingKeeps
  <2>2. alive' = alive
    BY <1>1 DEF Resting, Frame, Lock, Alloc, Failed, Unlock, HandlePacket, HandleCallback,
       CheckTimeouts, AppFree, Others, tvars, mem
  <2>3. \/ at'[Rx] = at[Rx] /\ elem' = elem
        \/ at'[Rx] \notin {"post", "place", "refused"} /\ at[Rx] \notin {"post", "refused"}
    BY <1>0, <1>1 DEF Resting, Frame, Lock, Alloc, Failed, Unlock, HandlePacket,
       HandleCallback, CheckTimeouts, AppFree, Others, tvars, Step, Goto
  <2> QED BY <1>a, <2>1, <2>2, <2>3
<1>2. CASE Memp
  <2>1. at[Rx] = "memp" /\ Flight' = Flight /\ alive \subseteq Flight /\ Flight \subseteq alive
    BY <1>0, <1>2, RestingKeeps DEF Memp, Step, Resting, Elements
  <2>2. \/ at'[Rx] = "failed" /\ alive' = alive
        \/ /\ at'[Rx] = "post" /\ elem' \notin alive /\ alive' = alive \cup {elem'}
    BY <1>0, <1>2 DEF Memp, Goto
  <2> QED BY <2>1, <2>2 DEF Elements
<1>3. CASE Refused
  <2>1. /\ at[Rx] = "refused" /\ at'[Rx] = "failed" /\ alive' = alive \ {elem}
        /\ Flight' = Flight
    BY <1>0, <1>3, RestingKeeps DEF Refused, Step, Resting, Goto
  <2> QED BY <1>0, <2>1 DEF Elements
<1>4. CASE TryPostPut
  <2>1. at[Rx] = "post" /\ UNCHANGED <<alive, elem>>
    BY <1>0, <1>4, PutEffect DEF mem
  <2>2. \/ at'[Rx] = "place" /\ Flight' = Flight \cup {elem}
        \/ at'[Rx] = "refused" /\ Flight' = Flight
    BY <1>0, <1>4, PutFlight
  <2> QED BY <1>0, <2>1, <2>2 DEF Elements
<1>5. CASE TryPostPlace
  <2>1. at[Rx] = "place" /\ at'[Rx] = "unlock" /\ UNCHANGED alive
    BY <1>0, <1>5, PlaceEffect DEF mem
  <2> QED BY <1>0, <1>5, <1>a, <2>1, PlaceFlight
<1>6. CASE Fetch \/ FetchEnds \/ Timeout
  BY <1>0, <1>6, <1>a, FetchRest, FetchFlight
<1>7. CASE FreeElement
  <2>1. /\ at[Rx] \in {"out", "lock"} /\ at'[Rx] = at[Rx] /\ alive' = alive \ {work}
        /\ elem' = elem
    BY <1>0, <1>7, RxFirst DEF FreeElement, Goto
  <2>2. Flight' = Flight \ {work}
    BY <1>0, <1>7, FreeFlight
  <2> QED BY <1>0, <2>1, <2>2 DEF Elements
<1> QED
  BY <1>1, <1>2, <1>3, <1>4, <1>5, <1>6, <1>7, TNextIs

LEMMA StepWanted == IInv /\ [TNext]_tvars /\ skew' = skew => Wanted'
<1> SUFFICES ASSUME IInv, [TNext]_tvars, skew' = skew PROVE Wanted'
  OBVIOUS
<1> DEFINE L == {"memp", "post", "place", "refused", "failed"}
           Due == pending => Flight \cap Api # {} \/ (p = NoPbuf /\ at[Rx] \in L)
           Reset == at[Tcpip] = "free" /\ work \in Api => ~pending
<1>0. /\ TTypeOK /\ Where /\ Elements /\ Places /\ Due /\ Reset /\ Rx # Tcpip
      /\ at = [t \in {Rx, Tcpip} |-> at[t]]
      /\ Msg = Inpkt \cup Api /\ Inpkt \cap Api = {}
  BY Tasks, TcpipAssumption DEF IInv, TTypeOK, Wanted, PendingIsQueued
<1>a. SUFFICES Due' /\ Reset'
  BY DEF Wanted, PendingIsQueued
<1>b. ASSUME pending' => pending, Flight' = Flight,
             at[Rx] \in L => p' = p /\ at'[Rx] \in L
      PROVE  Due'
  BY <1>0, <1>b
<1>c. ASSUME pending' => pending,
             at'[Tcpip] = "free" => at[Tcpip] = "free" /\ work' = work
      PROVE  Reset'
  BY <1>0, <1>c
<1>1. CASE /\ Resting /\ ~Alloc /\ ~Failed /\ ~HandlePacket /\ ~HandleCallback
  <2>1. Flight' = Flight /\ work' = work
    BY <1>1, RestingKeeps
  <2>2. pending' = pending
    BY <1>1 DEF Resting, Frame, Lock, Memp, Refused, Unlock, CheckTimeouts, AppFree, Others,
       tvars, mem
  <2>3. at[Rx] \in L => p' = p /\ at'[Rx] \in L
    BY <1>0, <1>1 DEF Resting, Frame, Lock, Memp, Refused, Unlock, CheckTimeouts, AppFree,
       Others, tvars, Step, Goto
  <2>4. at'[Tcpip] = "free" => at[Tcpip] = "free"
    BY <1>0, <1>1 DEF Resting, Frame, Lock, Memp, Refused, Unlock, CheckTimeouts, AppFree,
       Others, tvars, Step, Goto
  <2> QED BY <1>b, <1>c, <2>1, <2>2, <2>3, <2>4
<1>2. CASE Alloc
  <2>1. /\ at[Rx] = "alloc" /\ p = NoPbuf /\ Flight' = Flight /\ at'[Tcpip] = at[Tcpip]
        /\ at[Tcpip] # "free"
    BY <1>0, <1>2, RestingKeeps DEF Alloc, Step, Resting, Goto, Where
  <2>2. \/ pending' = pending
        \/ p' = p /\ at'[Rx] = IF pending THEN "unlock" ELSE "memp"
    BY <1>0, <1>2 DEF Alloc, Goto
  <2> QED BY <1>0, <2>1, <2>2
<1>3. CASE Failed
  <2>1. /\ at[Rx] = "failed" /\ Flight' = Flight /\ at'[Tcpip] = at[Tcpip] /\ work' = work
        /\ p' = p
    BY <1>0, <1>3, RestingKeeps DEF Failed, Step, Resting, Goto
  <2>2. IF p = NoPbuf THEN pending' = FALSE ELSE pending' = pending
    BY <1>3 DEF Failed
  <2> QED BY <1>0, <2>1, <2>2
<1>4. CASE HandlePacket
  <2>1. /\ Flight' = Flight /\ work \in Inpkt /\ UNCHANGED <<work, pending, p>>
        /\ at'[Rx] = at[Rx]
    BY <1>0, <1>4, RestingKeeps DEF HandlePacket, Resting, Goto
  <2> QED BY <1>0, <1>b, <2>1
<1>5. CASE HandleCallback
  BY <1>5 DEF HandleCallback
<1>6. CASE TryPostPut
  <2>1. at[Rx] = "post" /\ UNCHANGED <<p, pending, work>>
    BY <1>0, <1>6, PutEffect DEF mem
  <2>2. /\ at'[Rx] \in L /\ at'[Tcpip] = at[Tcpip]
        /\ Flight' = Flight \/ Flight' = Flight \cup {elem}
    BY <1>0, <1>6, PutFlight
  <2> QED BY <1>0, <2>1, <2>2
<1>7. CASE TryPostPlace
  <2>1. /\ at[Rx] = "place" /\ at'[Rx] = "unlock" /\ UNCHANGED <<p, pending, work>>
        /\ at'[Tcpip] = at[Tcpip] /\ Flight' = Flight
    BY <1>0, <1>7, PlaceEffect, PlaceFlight DEF mem
  <2>2. elem \in Flight /\ (p = NoPbuf => elem \in Api)
    BY <1>0, <2>1 DEF Elements, Where, TTypeOK
  <2> QED BY <1>0, <2>1, <2>2
<1>8. CASE Fetch \/ FetchEnds \/ Timeout
  BY <1>0, <1>8, <1>b, <1>c, FetchRest, FetchFlight
<1>9. CASE FreeElement
  <2>1. /\ at[Tcpip] = "free" /\ at'[Tcpip] = "fetch" /\ UNCHANGED <<pending, p>>
        /\ at'[Rx] = at[Rx] /\ work \in Msg /\ Flight' = Flight \ {work}
    BY <1>0, <1>9, FreeFlight DEF FreeElement, Goto, Where, TTypeOK
  <2> QED BY <1>0, <2>1
<1> QED
  BY <1>1, <1>2, <1>3, <1>4, <1>5, <1>6, <1>7, <1>8, <1>9, TNextIs

LEMMA StepPbufs == IInv /\ [TNext]_tvars /\ skew' = skew => Pbufs'
<1> SUFFICES ASSUME IInv, [TNext]_tvars, skew' = skew PROVE Pbufs'
  OBVIOUS
<1>0. /\ TTypeOK /\ Where /\ Elements /\ Places /\ Pbufs /\ Rx # Tcpip
      /\ at = [t \in {Rx, Tcpip} |-> at[t]] /\ refs \in [Pbuf -> 0 .. 255] /\ kept \subseteq Pbuf
      /\ p \in Pbuf \cup {NoPbuf} /\ NoPbuf \notin Pbuf
      /\ Msg = Inpkt \cup Api /\ Inpkt \cap Api = {} /\ pkt \in [Msg -> Pbuf \cup {NoPbuf}]
  BY Tasks, TcpipAssumption DEF IInv, TTypeOK
<1>a. ASSUME UNCHANGED <<pkt, refs, kept>>, Carried' = Carried,
             Owning' <=> Owning, Owning => p' = p
      PROVE  Pbufs'
  BY <1>0, <1>a DEF Pbufs
<1>b. ASSUME NEW b \in kept, Dec(b), kept' = kept \ {b}, Carried' = Carried, pkt' = pkt,
             Owning' <=> Owning, p' = p
      PROVE  Pbufs'
  <2>1. b \in Pbuf /\ refs[b] = 1
    BY <1>0, <1>b DEF Pbufs
  <2>2. refs'[b] = 0 /\ \A c \in Pbuf : c # b => refs'[c] = refs[c]
    BY <1>0, <1>b, <2>1, DecIs
  <2>3. /\ \A c \in Pbuf : refs'[c] \in {0, 1}
        /\ \A c \in kept' : refs'[c] = 1
    BY <1>0, <1>b, <2>2 DEF Pbufs
  <2>4. \A m \in Carried' : pkt'[m] \in Pbuf \ kept' /\ refs'[pkt'[m]] = 1
    BY <1>0, <1>b, <2>2 DEF Pbufs
  <2>5. Owning => p' \notin kept' /\ refs'[p'] = 1
    BY <1>0, <1>b, <2>2 DEF Pbufs, Owning
  <2>6. \A c \in Pbuf : refs'[c] # 0 =>
          (Owning' /\ c = p') \/ c \in kept' \/ \E m \in Carried' : pkt'[m] = c
    BY <1>0, <1>b, <2>2 DEF Pbufs
  <2> QED BY <1>0, <1>b, <2>3, <2>4, <2>5, <2>6 DEF Pbufs
<1>c. ASSUME Flight' = Flight, at'[Tcpip] = "free" <=> at[Tcpip] = "free", work' = work
      PROVE  Carried' = Carried
  BY <1>c DEF Carried
<1>1. CASE Frame \/ Lock(Rx, "alloc") \/ Lock(Tcpip, "handle") \/ Refused \/ Unlock
           \/ CheckTimeouts \/ Others \/ UNCHANGED tvars
  <2>1. Flight' = Flight /\ work' = work
    BY <1>1, RestingKeeps DEF Resting
  <2>2. UNCHANGED <<pkt, refs, kept>>
    BY <1>1 DEF Frame, Lock, Refused, Unlock, CheckTimeouts, Others, tvars, mem
  <2>3. /\ at'[Tcpip] = "free" <=> at[Tcpip] = "free"
        /\ (Owning' <=> Owning) /\ (Owning => p' = p)
    BY <1>0, <1>1 DEF Owning, Frame, Lock, Refused, Unlock, CheckTimeouts, Others, tvars, Step,
       Goto
  <2>4. Carried' = Carried
    BY <1>c, <2>1, <2>3
  <2> QED BY <1>a, <2>2, <2>3, <2>4
<1>2. CASE Alloc
  <2>1. /\ at[Rx] = "alloc" /\ ~Owning /\ Carried' = Carried /\ UNCHANGED <<pkt, kept>>
    BY <1>0, <1>2, <1>c, RestingKeeps DEF Alloc, Step, Resting, Goto, Owning
  <2>2. CASE UNCHANGED <<refs, p>>
    BY <1>0, <1>a, <2>1, <2>2 DEF Where, Owning
  <2>3. ASSUME NEW b \in Pbuf, refs[b] = 0, refs' = [refs EXCEPT ![b] = 1], p' = b,
               at' = [at EXCEPT ![Rx] = "memp"]
        PROVE  Pbufs'
    <3>1. Owning' /\ b \notin kept /\ \A m \in Carried : pkt[m] # b
      BY <1>0, <2>3 DEF Owning, Pbufs
    <3> QED BY <1>0, <2>1, <2>3, <3>1 DEF Pbufs
  <2> QED BY <1>2, <2>2, <2>3 DEF Alloc, Goto
<1>3. CASE Memp
  <2>1. /\ at[Rx] = "memp" /\ Carried' = Carried /\ UNCHANGED <<refs, kept, p>>
        /\ Owning' <=> Owning
    BY <1>0, <1>3, <1>c, RestingKeeps DEF Memp, Step, Resting, Goto, Owning
  <2>2. \A m \in Carried : pkt'[m] = pkt[m]
    BY <1>0, <1>3 DEF Memp, Elements, Carried
  <2> QED BY <1>0, <2>1, <2>2 DEF Pbufs
<1>4. CASE Failed
  <2>1. /\ at[Rx] = "failed" /\ Carried' = Carried /\ UNCHANGED <<pkt, kept, p>> /\ ~Owning'
    BY <1>0, <1>4, <1>c, RestingKeeps DEF Failed, Step, Resting, Goto, Owning
  <2>2. CASE p = NoPbuf
    <3>1. UNCHANGED refs /\ ~Owning
      BY <1>4, <2>2 DEF Failed, Owning
    <3> QED BY <1>a, <2>1, <3>1
  <2>3. CASE p # NoPbuf
    <3>1. Dec(p) /\ Owning /\ p \in Pbuf
      BY <1>0, <1>4, <2>1, <2>3 DEF Failed, Owning
    <3>2. refs[p] = 1 /\ p \notin kept /\ \A m \in Carried : pkt[m] # p
      BY <1>0, <3>1 DEF Pbufs
    <3>3. refs'[p] = 0 /\ \A c \in Pbuf : c # p => refs'[c] = refs[c]
      BY <1>0, <3>1, <3>2, DecIs
    <3> QED BY <1>0, <2>1, <3>1, <3>2, <3>3 DEF Pbufs
  <2> QED BY <2>2, <2>3
<1>5. CASE TryPostPut
  <2>1. at[Rx] = "post" /\ UNCHANGED <<pkt, refs, kept, p, work>>
    BY <1>0, <1>5, PutEffect DEF mem
  <2>2. CASE at' = [at EXCEPT ![Rx] = "refused"] /\ Flight' = Flight
    BY <1>0, <1>a, <1>c, <2>1, <2>2 DEF Owning
  <2>3. CASE at' = [at EXCEPT ![Rx] = "place"] /\ Flight' = Flight \cup {elem}
    <3>1. /\ at'[Tcpip] = at[Tcpip] /\ ~Owning' /\ elem \notin Flight /\ pkt[elem] = p
          /\ elem \in Inpkt <=> p # NoPbuf
      BY <1>0, <2>1, <2>3 DEF Owning, Where, Elements
    <3>2. CASE p = NoPbuf
      <4>1. Carried' = Carried /\ ~Owning
        BY <2>1, <2>3, <3>1, <3>2 DEF Carried, Owning
      <4> QED BY <1>a, <2>1, <3>1, <4>1
    <3>3. CASE p # NoPbuf
      <4>1. Carried' = Carried \cup {elem} /\ Owning /\ p \in Pbuf /\ elem \notin Carried
        <5>1. at[Tcpip] = "free" => work \in Flight
          BY FlightIs DEF Where, IInv
        <5>2. at[Tcpip] = "free" => elem # work
          BY <3>1, <5>1
        <5> QED BY <1>0, <2>1, <2>3, <3>1, <3>3, <5>2 DEF Carried, Owning
      <4>2. refs[p] = 1 /\ p \notin kept /\ \A m \in Carried : pkt[m] # p
        BY <1>0, <4>1 DEF Pbufs
      <4> QED BY <1>0, <2>1, <3>1, <4>1, <4>2 DEF Pbufs
    <3> QED BY <3>2, <3>3
  <2> QED BY <1>0, <1>5, <2>2, <2>3, PutFlight
<1>6. CASE TryPostPlace
  <2>1. /\ at[Rx] = "place" /\ at' = [at EXCEPT ![Rx] = "unlock"]
        /\ UNCHANGED <<pkt, refs, kept, p, work>> /\ Flight' = Flight
    BY <1>0, <1>6, PlaceEffect, PlaceFlight DEF mem
  <2> QED BY <1>0, <1>a, <1>c, <2>1 DEF Owning
<1>7. CASE Fetch \/ FetchEnds \/ Timeout
  <2>1. UNCHANGED <<pkt, refs, kept, p>> /\ (Owning' <=> Owning)
    BY <1>0, <1>7, FetchRest DEF Owning
  <2>2. Carried' = Carried
    BY <1>0, <1>7, FetchRest, FetchFlight DEF Carried
  <2> QED BY <1>a, <2>1, <2>2
<1>8. CASE HandlePacket
  <2>1. /\ at[Tcpip] = "handle" /\ at' = [at EXCEPT ![Tcpip] = "free"] /\ work \in Inpkt
        /\ Flight' = Flight /\ UNCHANGED <<pkt, p, work>> /\ ~Owning /\ work \in Msg
    BY <1>0, <1>8, RestingKeeps, RxFirst DEF HandlePacket, Step, Resting, Goto, Owning
  <2>2. work \in Flight
    BY <2>1, FlightIs, MsgAssumption
  <2>3. work \in Carried /\ Carried' = Carried \ {work} /\ ~Owning'
    BY <1>0, <2>1, <2>2 DEF Carried, Owning
  <2>4. /\ pkt[work] \in Pbuf \ kept /\ refs[pkt[work]] = 1
        /\ \A m \in Carried \ {work} : pkt[m] # pkt[work]
    BY <1>0, <2>3 DEF Pbufs
  <2>5. CASE Dec(pkt[work]) /\ UNCHANGED kept
    <3>1. refs'[pkt[work]] = 0 /\ \A c \in Pbuf : c # pkt[work] => refs'[c] = refs[c]
      BY <1>0, <2>4, <2>5, DecIs
    <3> QED BY <1>0, <2>1, <2>3, <2>4, <2>5, <3>1 DEF Pbufs
  <2>6. CASE kept' = kept \cup {pkt[work]} /\ UNCHANGED refs
    BY <1>0, <2>1, <2>3, <2>4, <2>6 DEF Pbufs
  <2> QED BY <1>8, <2>5, <2>6 DEF HandlePacket
<1>9. CASE HandleCallback
  <2>1. /\ at[Tcpip] = "handle" /\ at' = [at EXCEPT ![Tcpip] = "free"] /\ work \in Api
        /\ Flight' = Flight /\ UNCHANGED <<pkt, p, work>>
    BY <1>0, <1>9, RestingKeeps DEF HandleCallback, Step, Resting, Goto
  <2>2. Carried' = Carried /\ (Owning' <=> Owning)
    BY <1>0, <2>1 DEF Carried, Owning
  <2> QED BY <1>9, <1>a, <1>b, <2>1, <2>2 DEF HandleCallback
<1>10. CASE AppFree
  <2>1. Flight' = Flight /\ UNCHANGED <<at, work, pkt, p>>
    BY <1>10, RestingKeeps DEF AppFree, Resting
  <2>2. Carried' = Carried /\ (Owning' <=> Owning)
    BY <2>1 DEF Carried, Owning
  <2> QED BY <1>10, <1>b, <2>1, <2>2 DEF AppFree
<1>11. CASE FreeElement
  <2>1. /\ at[Tcpip] = "free" /\ at' = [at EXCEPT ![Tcpip] = "fetch"]
        /\ UNCHANGED <<pkt, refs, kept, p>> /\ Flight' = Flight \ {work}
    BY <1>0, <1>11, FreeFlight DEF FreeElement, Goto
  <2>2. Carried' = Carried /\ (Owning' <=> Owning)
    BY <1>0, <2>1 DEF Carried, Owning
  <2> QED BY <1>a, <2>1, <2>2
<1> QED
  BY <1>1, <1>2, <1>3, <1>4, <1>5, <1>6, <1>7, <1>8, <1>9, <1>10, <1>11, TNextIs DEF Resting

-----------------------------------------------------------------------------
(* No sys_mbox_trypost has queued its message and then found no place for it  *)
(* (sys_arch.c:346): the fault that tcpip_freed shows has not happened yet.   *)
NoneHalfDone == skew = 0

(* Whatever the sizes, everything holds up to the first half-done trypost.    *)
Intact == skew \in Nat /\ (NoneHalfDone => IInv)

LEMMA Inductive == (TInit => Intact /\ IInv) /\ (Intact /\ [TNext]_tvars => Intact')
<1>1. TInit => IInv
  <2> SUFFICES ASSUME TInit PROVE IInv
    OBVIOUS
  <2>1. TTypeOK /\ Where
    BY InitWhere
  <2>2. /\ entries = << >> /\ msg[Tcpip] = NoMsg /\ work = NoMsg /\ semCtr = Size
        /\ pc[Tcpip] = Idle /\ at[Rx] = "out" /\ alive = {} /\ kept = {} /\ p = NoPbuf
        /\ pending = FALSE /\ at[Tcpip] = "fetch" /\ \A b \in Pbuf : refs[b] = 0
    BY Tasks DEF TInit, Init
  <2>3. Flight = {}
    BY <2>2 DEF Flight
  <2>4. Places /\ Elements
    BY <2>2, <2>3, SizeAssumption DEF Places, Elements, Idle
  <2>5. Pbufs /\ Wanted
    BY <2>2, <2>3 DEF Pbufs, Wanted, PendingIsQueued, Carried, Owning
  <2> QED BY <2>1, <2>4, <2>5 DEF IInv
<1>2. TInit => skew = 0
  BY DEF TInit, Init
<1>3. Intact /\ [TNext]_tvars => Intact'
  <2> SUFFICES ASSUME Intact, [TNext]_tvars PROVE Intact'
    OBVIOUS
  <2>1. skew \in Nat /\ (skew' = skew \/ skew' = skew + 1)
    BY SkewIs DEF Intact
  <2>2. skew' \in Nat /\ (skew' = 0 => skew = 0 /\ skew' = skew)
    BY <2>1
  <2>3. ASSUME skew' = 0 PROVE IInv'
    <3>1. IInv /\ skew' = skew
      BY <2>2, <2>3 DEF Intact, NoneHalfDone
    <3> QED
      BY <3>1, StepTTypeOK, StepWhere, StepPlaces, StepElements, StepPbufs, StepWanted DEF IInv
  <2> QED BY <2>2, <2>3 DEF Intact, NoneHalfDone
<1> QED BY <1>1, <1>2, <1>3 DEF Intact

(* Whatever the sizes of the mailbox and of the pools: as long as no trypost   *)
(* has failed after its OSQPost, tcpip_inpkt never frees an element that       *)
(* tcpip_thread will still fetch, and the packet of a message that travels     *)
(* has its one reference.                                                      *)
THEOREM TravelsAlive == TSpec => [](NoneHalfDone => FlightIsAlive)
<1>1. IInv => FlightIsAlive
  <2> SUFFICES ASSUME IInv PROVE FlightIsAlive
    OBVIOUS
  <2>1. TTypeOK /\ Flight \subseteq alive
    BY DEF IInv, Elements
  <2>2. \A i, j \in 1 .. Len(entries) : entries[i] = entries[j] => i = j
    BY DEF IInv, Places
  <2>3. at[Tcpip] # "free" => \A m \in Flight \cap Inpkt : refs[pkt[m]] = 1
    BY DEF IInv, Pbufs, Carried
  <2> QED BY <2>1, <2>2, <2>3 DEF FlightIsAlive
<1>2. Intact => (NoneHalfDone => FlightIsAlive)
  BY <1>1 DEF Intact
<1> QED BY <1>2, Inductive, PTL DEF TSpec

(* Whatever the sizes: as long as no trypost has failed after its OSQPost,     *)
(* every error path (no pbuf, no element, OSQPost refused) gives back the      *)
(* element and the pbuf it had taken, and pbuf_free_ooseq_pending stays set    *)
(* only while its callback is under way.                                       *)
THEOREM NothingIsLost == TSpec => [](NoneHalfDone => NothingLeaks)
<1>1. IInv => NothingLeaks
  <2> SUFFICES ASSUME IInv PROVE NothingLeaks
    OBVIOUS
  <2>1. alive \subseteq Flight \cup {elem}
    BY DEF IInv, Elements
  <2>2. \A b \in Pbuf : refs[b] # 0 =>
          b = p \/ b \in kept \/ \E m \in Flight \cap Inpkt : pkt[m] = b
    BY DEF IInv, Pbufs, Carried
  <2> QED BY <2>1, <2>2 DEF NothingLeaks, IInv, Wanted
<1>2. Intact => (NoneHalfDone => NothingLeaks)
  BY <1>1 DEF Intact
<1> QED BY <1>2, Inductive, PTL DEF TSpec

-----------------------------------------------------------------------------
(* Room for every message. *)

Roomy == IsFiniteSet(Msg) /\ Cardinality(Msg) <= Size

(* The messages of the queue and the one that tcpip_thread has just fetched   *)
(* are different ones, so there are no more of them than messages.            *)
LEMMA FitsIn ==
  ASSUME Roomy, TypeOK, Places, NEW h \in SUBSET Msg,
         h = {} \/ (pc[Tcpip] = "give" /\ h = {msg[Tcpip]})
  PROVE  Len(entries) + Cardinality(h) <= Size
<1> DEFINE T == Msg \ h
           n == Len(entries)
<1>1. IsFiniteSet(T) /\ Cardinality(T) = Cardinality(Msg) - Cardinality(h)
  <2>1. Msg \cap h = h
    OBVIOUS
  <2> QED BY <2>1, FS_Difference DEF Roomy
<1>2. n \in Nat /\ entries \in [1 .. n -> T]
  <2>1. n \in Nat /\ entries \in [1 .. n -> Msg]
    BY DEF TypeOK
  <2>2. \A i \in 1 .. n : entries[i] \in T
    BY <2>1 DEF Places
  <2> QED BY <2>1, <2>2
<1>3. entries \in Injection(1 .. n, T)
  BY <1>2 DEF Places, Injection, IsInjective
<1>4. Cardinality(1 .. n) = n
  <2>1. 1 \in Int /\ n \in Int
    BY <1>2
  <2>2. Cardinality(1 .. n) = IF 1 > n THEN 0 ELSE n - 1 + 1
    BY <2>1, FS_Interval
  <2> QED BY <1>2, <2>2
<1>5. n <= Cardinality(T)
  <2> HIDE DEF T
  <2> QED BY <1>1, <1>3, <1>4, FS_Injection
<1>6. Cardinality(Msg) \in Nat /\ Cardinality(h) \in Nat /\ Cardinality(T) \in Nat
  BY <1>1, FS_CardinalityType, FS_Subset DEF Roomy
<1> HIDE DEF T, n
<1>7. n + Cardinality(h) <= Size
  BY <1>1, <1>2, <1>5, <1>6, SizeAssumption DEF Roomy
<1> QED BY <1>7 DEF n

(* With a place for every message no trypost fails half way.                  *)
LEMMA RoomyPlaces == Roomy /\ IInv /\ [TNext]_tvars => skew' = skew
<1> SUFFICES ASSUME Roomy, IInv, [TNext]_tvars PROVE skew' = skew
  OBVIOUS
<1>0. TTypeOK /\ TypeOK /\ Where /\ Places
  BY DEF IInv, TTypeOK
<1>1. CASE TryPostPlace
  <2>1. at[Rx] = "place" /\ semValid /\ Tcpip \in Thread
    BY <1>0, <1>1, Tasks DEF TryPostPlace, Step, Where
  <2>2. CASE pc[Tcpip] = "give"
    <3>1. {msg[Tcpip]} \in SUBSET Msg /\ Cardinality({msg[Tcpip]}) = 1
      BY <1>0, <2>1, <2>2, FS_Singleton DEF TypeOK, Holding
    <3>2. Len(entries) + 1 <= Size
      BY <1>0, <2>2, <3>1, FitsIn
    <3>3. semCtr > 0
      BY <1>0, <2>1, <2>2, <3>2, SizeAssumption DEF Places, TypeOK
    <3> QED BY <1>1, <2>1, <3>3 DEF TryPostPlace, TryTakePlace
  <2>3. CASE pc[Tcpip] # "give"
    <3>1. Len(entries) + 0 <= Size
      BY <1>0, FitsIn, FS_EmptySet
    <3>2. semCtr > 0
      BY <1>0, <2>1, <2>3, <3>1, SizeAssumption DEF Places, TypeOK
    <3> QED BY <1>1, <2>1, <3>2 DEF TryPostPlace, TryTakePlace
  <2> QED BY <2>2, <2>3
<1>2. CASE TryPostPut \/ Fetch \/ FetchEnds \/ Timeout
  BY <1>2 DEF TryPostPut, Fetch, FetchEnds, Timeout, FetchTake, FetchWait, FetchGive,
     FetchReturn, FetchTimeout
<1>3. CASE Resting \/ FreeElement
  BY <1>3 DEF Resting, Frame, Lock, Alloc, Memp, Refused, Failed, Unlock, HandlePacket,
     HandleCallback, FreeElement, CheckTimeouts, AppFree, Others, OthersTake, OthersReturn,
     tvars, vars
<1> QED BY <1>1, <1>2, <1>3, TNextIs

(* pbuf.c, "pbuf_free: p->ref > 0": the assertion that fails with the sizes   *)
(* of this project holds as soon as the mailbox has a place for every         *)
(* message.                                                                   *)
THEOREM EnoughPlacesSuffice ==
  ASSUME Roomy
  PROVE  TSpec => []FreedPbufHasRef
<1>1. IInv => FreedPbufHasRef
  <2> SUFFICES ASSUME IInv PROVE FreedPbufHasRef
    OBVIOUS
  <2>1. at[Rx] = "failed" /\ p # NoPbuf => refs[p] > 0
    BY DEF IInv, Pbufs, Owning
  <2>2. ASSUME at[Tcpip] = "handle", work \in Inpkt PROVE refs[pkt[work]] > 0
    <3>1. work \in Carried
      BY <2>2, MsgAssumption, TcpipAssumption DEF Flight, Carried
    <3> QED BY <3>1 DEF IInv, Pbufs
  <2>3. \A b \in kept : refs[b] > 0
    BY DEF IInv, Pbufs
  <2> QED BY <2>1, <2>2, <2>3 DEF FreedPbufHasRef
<1>2. IInv /\ [TNext]_tvars => IInv'
  <2> SUFFICES ASSUME IInv, [TNext]_tvars PROVE IInv'
    OBVIOUS
  <2>1. skew' = skew
    BY RoomyPlaces
  <2> QED
    BY <2>1, StepTTypeOK, StepWhere, StepPlaces, StepElements, StepPbufs, StepWanted DEF IInv
<1>3. TInit => IInv
  BY Inductive
<1> QED BY <1>1, <1>2, <1>3, PTL DEF TSpec
=============================================================================
