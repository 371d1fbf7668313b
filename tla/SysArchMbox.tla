---------------------------- MODULE SysArchMbox ----------------------------
(***************************************************************************)
(* The mailboxes of the operating system port of lwIP                      *)
(* (Lwip-2.1.2/arch/sys_arch.c).  A mailbox is a pair of uC/OS-III         *)
(* objects: an OS_Q that holds the messages and an OS_SEM that counts the  *)
(* free places.  sys_mbox_post takes a place first and posts second;       *)
(* sys_mbox_trypost posts first and takes the place second; a fetch takes  *)
(* the message first and gives the place back second.  No lock spans the   *)
(* two kernel calls, so a thread may be preempted between them.            *)
(*                                                                         *)
(* One step is one kernel call: each call works inside a critical section. *)
(* Priorities are distinct, as those of this application are, so the pend  *)
(* lists of the kernel, ordered by priority, are determined by the set of  *)
(* the threads that wait.                                                  *)
(***************************************************************************)
EXTENDS Integers, Sequences, FiniteSets

CONSTANTS
  Thread,       \* the tasks and interrupt handlers that use the mailbox
  Prio,         \* [Thread -> Nat], the smaller the more urgent
  Poster,       \* threads that call sys_mbox_post
  TryPoster,    \* threads that call sys_mbox_trypost or ..._fromisr
  Fetcher,      \* threads that call sys_arch_mbox_fetch or ..._tryfetch
  Freer,        \* threads that call sys_mbox_free
  Msg,          \* the messages
  NoMsg,
  Size,         \* the size given to sys_mbox_new
  PoolSize,     \* OS_CFG_MSG_POOL_SIZE, shared by every queue of the system
  OthersMax     \* most OS_MSGs that the other queues hold at a time

ASSUME ThreadAssumption ==
  /\ IsFiniteSet(Thread)
  /\ Poster \subseteq Thread /\ TryPoster \subseteq Thread
  /\ Fetcher \subseteq Thread /\ Freer \subseteq Thread
  /\ Prio \in [Thread -> Nat]
  /\ \A t, u \in Thread : Prio[t] = Prio[u] => t = u

ASSUME MsgAssumption == NoMsg \notin Msg

ASSUME SizeAssumption ==
  Size \in Nat \ {0} /\ PoolSize \in Nat /\ OthersMax \in Nat

VARIABLES
  semValid,     \* msg_sem.Type is OS_OBJ_TYPE_SEM
  semCtr,       \* msg_sem.Ctr
  qValid,       \* msg_queen.Type is OS_OBJ_TYPE_Q
  entries,      \* msg_queen.MsgQ, oldest first
  others,       \* OS_MSGs of the pool in use by the other queues
  pc,           \* where each thread is
  msg,          \* the message each thread posts, or has received
  ret,          \* what the sender of a message was last told about it
  skew          \* history: places counted twice minus places lost

mbox == <<semValid, semCtr, qValid, entries>>
vars == <<mbox, others, pc, msg, ret, skew>>

Idle == "idle"
Blocked == {"sem_wait", "q_wait"}
PC == {Idle, "put", "try_sem", "give", "free_q"} \cup Blocked

(* At pc "put" a poster owns a place and has not posted yet; at "try_sem" a  *)
(* tryposter has posted and owns no place yet; at "give" a fetcher has a     *)
(* message and has not given its place back; at "free_q" the semaphore of    *)
(* the mailbox is deleted and the queue not yet.                             *)
At(l) == {t \in Thread : pc[t] = l}

Ret == {"none", "pending", "ok", "mem", "dropped"}

Init ==
  /\ semValid = TRUE /\ semCtr = Size
  /\ qValid = TRUE /\ entries = << >>
  /\ others = 0
  /\ pc = [t \in Thread |-> Idle]
  /\ msg = [t \in Thread |-> NoMsg]
  /\ ret = [m \in Msg |-> "none"]
  /\ skew = 0

-----------------------------------------------------------------------------
(* The kernel under the port. *)

(* A thread runs only while every more urgent thread is blocked or is busy   *)
(* outside the mailbox (which it may be at any time).                        *)
Runs(t) == \A u \in Thread : Prio[u] < Prio[t] => pc[u] \in Blocked \cup {Idle}

(* The head of a pend list. *)
First(S) == CHOOSE t \in S : \A u \in S : Prio[t] <= Prio[u]

PoolFree == PoolSize - others - Len(entries)

(* OS_MsgQPut: the size of the queue is tested before the pool. *)
CanPut == Len(entries) < Size /\ PoolFree > 0

(* Mutant: LIFO where the port asks for FIFO. *)
MsgQPutLifo(m) == CanPut /\ entries' = <<m>> \o entries

MsgQPut(m) == CanPut /\ entries' = Append(entries, m)

(* Mutant: a post that overlooks the waiting fetchers. *)
QPostNoWake(t, m, next) ==
  /\ qValid /\ MsgQPut(m)
  /\ pc' = [pc EXCEPT ![t] = next]
  /\ msg' = [msg EXCEPT ![t] = IF next = Idle THEN NoMsg ELSE m]

(* OSQPost by t of m: the message goes to the first waiting fetcher, if any, *)
(* else into the queue; "next" is where the caller goes on.                  *)
QPost(t, m, next) ==
  LET keep == IF next = Idle THEN NoMsg ELSE m
      f == First(At("q_wait")) IN
  /\ qValid
  /\ \/ /\ At("q_wait") # {}
        /\ pc' = [pc EXCEPT ![t] = next, ![f] = "give"]
        /\ msg' = [msg EXCEPT ![t] = keep, ![f] = m]
        /\ UNCHANGED entries
     \/ /\ At("q_wait") = {}
        /\ MsgQPut(m)
        /\ pc' = [pc EXCEPT ![t] = next]
        /\ msg' = [msg EXCEPT ![t] = keep]

(* OSQPost fails with OS_ERR_OBJ_TYPE, OS_ERR_Q_MAX or OS_ERR_MSG_POOL_EMPTY. *)
QPostFails == ~qValid \/ (At("q_wait") = {} /\ ~CanPut)

(* A message a sender may use: its memory is not in use anywhere else. *)
Unused(m) ==
  /\ \A i \in 1 .. Len(entries) : entries[i] # m
  /\ \A t \in Thread : msg[t] # m

-----------------------------------------------------------------------------
(* sys_mbox_post: OSSemPend(BLOCKING), then OSQPost. *)

(* Mutant: the semaphore is decremented whatever its count. *)
PostTakePlaceUnchecked(t, m) ==
  /\ Runs(t) /\ pc[t] = Idle /\ Unused(m) /\ semValid
  /\ semCtr' = semCtr - 1
  /\ pc' = [pc EXCEPT ![t] = "put"]
  /\ msg' = [msg EXCEPT ![t] = m]
  /\ ret' = [ret EXCEPT ![m] = "pending"]
  /\ UNCHANGED <<semValid, qValid, entries, others, skew>>

PostTakePlace(t, m) ==
  /\ Runs(t) /\ pc[t] = Idle /\ Unused(m)
  /\ semValid
  /\ IF semCtr > 0
       THEN semCtr' = semCtr - 1 /\ pc' = [pc EXCEPT ![t] = "put"]
       ELSE pc' = [pc EXCEPT ![t] = "sem_wait"] /\ UNCHANGED semCtr
  /\ msg' = [msg EXCEPT ![t] = m]
  /\ ret' = [ret EXCEPT ![m] = "pending"]
  /\ UNCHANGED <<semValid, qValid, entries, others, skew>>

(* The semaphore is gone: the function returns and the message with it. *)
PostNoPlace(t, m) ==
  /\ Runs(t) /\ pc[t] = Idle /\ Unused(m)
  /\ ~semValid
  /\ ret' = [ret EXCEPT ![m] = "dropped"]
  /\ UNCHANGED <<mbox, others, pc, msg, skew>>

PostPut(t) ==
  /\ Runs(t) /\ pc[t] = "put"
  /\ QPost(t, msg[t], Idle)
  /\ ret' = [ret EXCEPT ![msg[t]] = "ok"]
  /\ UNCHANGED <<semValid, semCtr, qValid, others, skew>>

(* The error of OSQPost is only asserted on, and asserts are compiled out:   *)
(* the place stays taken and the message is not in the queue.                *)
PostPutFails(t) ==
  /\ Runs(t) /\ pc[t] = "put"
  /\ QPostFails
  /\ ret' = [ret EXCEPT ![msg[t]] = "dropped"]
  /\ pc' = [pc EXCEPT ![t] = Idle] /\ msg' = [msg EXCEPT ![t] = NoMsg]
  /\ skew' = skew - 1
  /\ UNCHANGED <<mbox, others>>

-----------------------------------------------------------------------------
(* sys_mbox_trypost, sys_mbox_trypost_fromisr: OSQPost, then                 *)
(* OSSemPend(NON_BLOCKING).                                                  *)

TryPut(t, m) ==
  /\ Runs(t) /\ pc[t] = Idle /\ Unused(m)
  /\ QPost(t, m, "try_sem")
  /\ ret' = [ret EXCEPT ![m] = "pending"]
  /\ UNCHANGED <<semValid, semCtr, qValid, others, skew>>

TryPutFails(t, m) ==
  /\ Runs(t) /\ pc[t] = Idle /\ Unused(m)
  /\ QPostFails
  /\ ret' = [ret EXCEPT ![m] = "mem"]
  /\ UNCHANGED <<mbox, others, pc, msg, skew>>

(* A fetcher may have finished with the message in between; the verdict is   *)
(* recorded only for a message that is still in the mailbox.                 *)
TryTakePlace(t) ==
  /\ Runs(t) /\ pc[t] = "try_sem"
  /\ IF semValid /\ semCtr > 0
       THEN /\ semCtr' = semCtr - 1
            /\ ret' = [ret EXCEPT ![msg[t]] = IF @ = "pending" THEN "ok" ELSE @]
            /\ UNCHANGED skew
       ELSE /\ ret' = [ret EXCEPT ![msg[t]] = IF @ = "pending" THEN "mem" ELSE @]
            /\ skew' = skew + 1
            /\ UNCHANGED semCtr
  /\ pc' = [pc EXCEPT ![t] = Idle] /\ msg' = [msg EXCEPT ![t] = NoMsg]
  /\ UNCHANGED <<semValid, qValid, entries, others>>

-----------------------------------------------------------------------------
(* sys_arch_mbox_fetch and sys_arch_mbox_tryfetch: OSQPend, then OSSemPost.  *)

(* Mutant: the message is read and left in the queue. *)
FetchTakePeek(t) ==
  /\ Runs(t) /\ pc[t] = Idle
  /\ qValid /\ entries # << >>
  /\ msg' = [msg EXCEPT ![t] = Head(entries)]
  /\ pc' = [pc EXCEPT ![t] = "give"]
  /\ UNCHANGED <<mbox, others, ret, skew>>

FetchTake(t) ==
  /\ Runs(t) /\ pc[t] = Idle
  /\ qValid /\ entries # << >>
  /\ msg' = [msg EXCEPT ![t] = Head(entries)]
  /\ entries' = Tail(entries)
  /\ pc' = [pc EXCEPT ![t] = "give"]
  /\ UNCHANGED <<semValid, semCtr, qValid, others, ret, skew>>

FetchWait(t) ==
  /\ Runs(t) /\ pc[t] = Idle
  /\ qValid /\ entries = << >>
  /\ pc' = [pc EXCEPT ![t] = "q_wait"]
  /\ UNCHANGED <<mbox, others, msg, ret, skew>>

(* The tick task ends the wait: OS_ERR_TIMEOUT. *)
FetchTimeout(t) ==
  /\ pc[t] = "q_wait"
  /\ pc' = [pc EXCEPT ![t] = Idle]
  /\ UNCHANGED <<mbox, others, msg, ret, skew>>

(* OSSemPost: the place goes to the first waiting poster, else to the count. *)
(* A deleted semaphore makes the fetch return SYS_ARCH_TIMEOUT and its       *)
(* caller drop the message it was handed.                                    *)
FetchReturn(t) ==
  /\ msg' = [msg EXCEPT ![t] = NoMsg]
  /\ ret' = [ret EXCEPT ![msg[t]] = IF semValid THEN "none" ELSE "dropped"]
  /\ UNCHANGED <<semValid, qValid, entries, others, skew>>

(* Mutants: the place is not given back; waiting posters are overlooked. *)
FetchGiveNothing(t) ==
  /\ Runs(t) /\ pc[t] = "give"
  /\ pc' = [pc EXCEPT ![t] = Idle] /\ UNCHANGED semCtr
  /\ FetchReturn(t)
FetchGiveNoWake(t) ==
  /\ Runs(t) /\ pc[t] = "give"
  /\ pc' = [pc EXCEPT ![t] = Idle] /\ semCtr' = IF semValid THEN semCtr + 1 ELSE semCtr
  /\ FetchReturn(t)

FetchGive(t) ==
  /\ Runs(t) /\ pc[t] = "give"
  /\ IF semValid /\ At("sem_wait") # {}
       THEN LET p == First(At("sem_wait")) IN
            /\ pc' = [pc EXCEPT ![t] = Idle, ![p] = "put"]
            /\ UNCHANGED semCtr
       ELSE /\ pc' = [pc EXCEPT ![t] = Idle]
            /\ semCtr' = IF semValid THEN semCtr + 1 ELSE semCtr
  /\ FetchReturn(t)

-----------------------------------------------------------------------------
(* sys_mbox_free: OSSemDel(ALWAYS), then OSQDel(ALWAYS).                     *)

FreeSem(t) ==
  /\ Runs(t) /\ pc[t] = Idle /\ semValid
  /\ semValid' = FALSE /\ semCtr' = 0
  /\ pc' = [u \in Thread |-> IF u = t THEN "free_q"
                             ELSE IF pc[u] = "sem_wait" THEN Idle ELSE pc[u]]
  /\ msg' = [u \in Thread |-> IF pc[u] = "sem_wait" THEN NoMsg ELSE msg[u]]
  /\ ret' = [m \in Msg |-> IF \E u \in At("sem_wait") : msg[u] = m
                           THEN "dropped" ELSE ret[m]]
  /\ UNCHANGED <<qValid, entries, others, skew>>

FreeQ(t) ==
  /\ Runs(t) /\ pc[t] = "free_q"
  /\ qValid' = FALSE /\ entries' = << >>
  /\ pc' = [u \in Thread |-> IF u = t \/ pc[u] = "q_wait" THEN Idle ELSE pc[u]]
  /\ ret' = [m \in Msg |-> IF \E i \in 1 .. Len(entries) : entries[i] = m
                           THEN "dropped" ELSE ret[m]]
  /\ UNCHANGED <<semValid, semCtr, others, msg, skew>>

-----------------------------------------------------------------------------
(* The other queues of the system take and return OS_MSGs of the pool. *)
OthersTake ==
  /\ others < OthersMax /\ PoolFree > 0
  /\ others' = others + 1
  /\ UNCHANGED <<mbox, pc, msg, ret, skew>>

OthersReturn ==
  /\ others > 0
  /\ others' = others - 1
  /\ UNCHANGED <<mbox, pc, msg, ret, skew>>

Post(t) == \E m \in Msg : PostTakePlace(t, m) \/ PostNoPlace(t, m)
TryPost(t) == \E m \in Msg : TryPut(t, m) \/ TryPutFails(t, m)

Next ==
  \/ \E t \in Poster : Post(t) \/ PostPut(t) \/ PostPutFails(t)
  \/ \E t \in TryPoster : TryPost(t) \/ TryTakePlace(t)
  \/ \E t \in Fetcher : FetchTake(t) \/ FetchWait(t) \/ FetchTimeout(t) \/ FetchGive(t)
  \/ \E t \in Freer : FreeSem(t) \/ FreeQ(t)
  \/ OthersTake \/ OthersReturn

Spec == Init /\ [][Next]_vars

(* The tasks run their code: a thread that may run and is inside a call goes  *)
(* on, and a fetcher comes back for more (tcpip_thread loops forever).        *)
Fairness ==
  /\ \A t \in Poster : WF_vars(PostPut(t) \/ PostPutFails(t))
  /\ \A t \in TryPoster : WF_vars(TryTakePlace(t))
  /\ \A t \in Fetcher : WF_vars(FetchTake(t)) /\ WF_vars(FetchGive(t))

FairSpec == Spec /\ Fairness

-----------------------------------------------------------------------------
(* Correctness. *)

(* Inside a call a thread holds the message it posts or has received.         *)
Holding == {"sem_wait", "put", "try_sem", "give"}

TypeOK ==
  /\ semValid \in BOOLEAN /\ semCtr \in Nat
  /\ qValid \in BOOLEAN /\ entries \in Seq(Msg)
  /\ others \in Nat
  /\ pc \in [Thread -> PC]
  /\ msg \in [Thread -> Msg \cup {NoMsg}]
  /\ ret \in [Msg -> Ret]
  /\ skew \in Int
  /\ \A t \in Thread : pc[t] \in Holding => msg[t] \in Msg

(* No place is lost or made up by the two-call protocols, whatever preempts   *)
(* whom: the free places, the messages in the queue and the places in the     *)
(* hands of threads always add up to the size, up to the tryposts that have   *)
(* not taken their place yet and to the calls that failed half way (skew).    *)
SlotsConserved ==
  semValid =>
    semCtr + Len(entries) + Cardinality(At("put")) + Cardinality(At("give"))
      = Size + Cardinality(At("try_sem")) + skew

(* A thread never sleeps on a mailbox that could serve it: a fetcher waits    *)
(* only on an empty queue and a poster only when no place is free.            *)
NoLostWakeup ==
  /\ At("q_wait") # {} => qValid /\ entries = << >>
  /\ At("sem_wait") # {} => semValid /\ semCtr = 0

(* sys.h on sys_mbox_post, "may not fail -> blocks if full": a message given  *)
(* to sys_mbox_post of a living mailbox is never thrown away.                 *)
PostNeverDrops == semValid /\ qValid => \A m \in Msg : ret[m] # "dropped"

(* A message reported as posted stays in the mailbox or in the hands of the   *)
(* thread that fetches it, in one place only, until the fetch returns it.     *)
AcceptedIsKept ==
  qValid => \A m \in Msg : ret[m] = "ok" =>
    Cardinality({i \in 1 .. Len(entries) : entries[i] = m})
      + Cardinality({t \in At("give") : msg[t] = m}) = 1

InQueue(m) == \E i \in 1 .. Len(entries) : entries[i] = m

(* The most urgent thread blocked in sys_mbox_post gets a place as long as    *)
(* the fetchers come back (less urgent ones may starve: the pend list of the  *)
(* semaphore is ordered by priority).                                         *)
PosterProgress ==
  \A t \in Poster : (\A u \in Poster : Prio[t] <= Prio[u]) =>
    (pc[t] = "sem_wait" ~> pc[t] = "put")

(* A message that is queued is fetched, and that makes the places.            *)
QueueDrains == \A m \in Msg : InQueue(m) ~> ~InQueue(m)

MboxMoves == PosterProgress /\ QueueDrains

(* Used with sys_mbox_post and fetches only, the pair of kernel objects is    *)
(* the mailbox lwIP expects.                                                  *)
hand == [t \in Fetcher |-> IF pc[t] = "give" THEN msg[t] ELSE NoMsg]

Abs == INSTANCE Mailbox WITH box <- entries, hand <- hand, Receiver <- Fetcher

ImplementsMailbox == Abs!AbsSpec
=============================================================================
