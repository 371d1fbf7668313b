------------------------------- MODULE OsMutex -------------------------------
(***************************************************************************)
(* The mutexes of uC/OS-III with priority inheritance (os_mutex.c), and    *)
(* what of the kernel takes part in it: ready lists and scheduler          *)
(* (os_core.c), changes of priority and deletion of tasks (os_task.c),     *)
(* delays and timeouts (os_tick.c).  LwIP's core lock, SYS_ARCH_PROTECT    *)
(* and the mutex of the display are such mutexes.                          *)
(*                                                                         *)
(* A kernel call tests the type of the mutex, works in one critical section *)
(* and then calls OSSched; the tick interrupt, and with it other tasks, may *)
(* come between any two of these.  The kernel's data is one record, so that *)
(* the functions of the code that change it in a row are operators from    *)
(* kernel to kernel.                                                       *)
(***************************************************************************)
EXTENDS Integers, SequencesExt

CONSTANTS
  Task, Mutex, NoTask, NoMutex,
  BasePrio,    \* priority each task is created with
  IdlePrio,    \* OS_CFG_PRIO_MAX - 1, the idle task's
  NestMax,     \* the largest OS_NESTING_CTR
  Rank,        \* order in which a task that has several mutexes takes them
  Waiter,      \* tasks that call OSMutexPend with OS_OPT_PEND_BLOCKING
  Nester,      \* those that do so while they own another mutex
  Timed,       \* those that give a timeout
  Loose,       \* mutexes whose waits are aborted and that are deleted
  Moves,       \* <<t, p>>: some task gives t the priority p
  Deletable    \* tasks that are deleted, when nobody waits for what they own

Prio == 0 .. IdlePrio

ASSUME MutexAssumption ==
  /\ IsFiniteSet(Task) /\ NoTask \notin Task /\ NoMutex \notin Mutex
  /\ IdlePrio \in Nat /\ BasePrio \in [Task -> 0 .. IdlePrio - 1]
  /\ NestMax \in Nat \ {0} /\ Rank \in [Mutex -> Nat]
  /\ Nester \subseteq Waiter /\ Timed \subseteq Waiter /\ Waiter \subseteq Task
  /\ Loose \subseteq Mutex /\ Deletable \subseteq Task
  /\ Moves \subseteq Task \X (0 .. IdlePrio - 1)

VARIABLES
  k,     \* the kernel's data
  mode,  \* "task", "sched": OSSched is about to be called, "isr": the tick,
         \* "damaged": the kernel's data are no longer lists
  asked  \* per task, the mutex whose Type it has tested and found right and
         \* whose critical section it has not entered (NoMutex: none)

vars == <<k, mode, asked>>

(* prio, base, state, status and obj: Prio, BasePrio, TaskState, PendStatus   *)
(* and PendObjPtr of the TCBs; grp: MutexGrpHeadPtr; wait, owner and nest:    *)
(* PendList, OwnerTCBPtr and OwnerNestingCtr of the mutexes, made: those that *)
(* exist; rdy: OSRdyList; cur, prioCur: OSTCBCurPtr (NoTask: idle), OSPrioCur.*)
Kernel == [
  prio : [Task -> 0 .. IdlePrio + 1], base : [Task -> 0 .. IdlePrio + 1],
  state : [Task -> {"rdy", "dly", "pend", "pendTimeout", "del"}],
  status : [Task -> {"ok", "abort", "timeout", "del"}],
  obj : [Task -> Mutex \cup {NoMutex}], grp : [Task -> Seq(Mutex)],
  wait : [Mutex -> Seq(Task)], owner : [Mutex -> Task \cup {NoTask}],
  nest : [Mutex -> 0 .. NestMax], made : SUBSET Mutex,
  rdy : [Prio -> Seq(Task)], cur : Task \cup {NoTask}, prioCur : Prio]

-----------------------------------------------------------------------------
(* Ready lists and scheduler. *)

Highest(s) ==
  LET used == {p \in Prio : s.rdy[p] # <<>>}
  IN  IF used = {} THEN NoTask ELSE Head(s.rdy[Min(used)])

Sched(s) ==
  LET t == Highest(s)
  IN  IF t = s.cur THEN s
      ELSE [s EXCEPT !.cur = t,
                     !.prioCur = IF t = NoTask THEN IdlePrio ELSE s.prio[t]]

RdyRemove(s, t) == [s EXCEPT !.rdy[s.prio[t]] = RemoveFirst(@, t)]
RdyTail(s, t) == [s EXCEPT !.rdy[s.prio[t]] = Append(@, t)]
RdyHead(s, t) == [s EXCEPT !.rdy[s.prio[t]] = <<t>> \o @]
RdyInsert(s, t) ==
  IF s.prio[t] = s.prioCur THEN RdyTail(s, t) ELSE RdyHead(s, t)

(* Mutant: in the order of arrival. *)
PendInsertFifo(s, t, m) == [s EXCEPT !.wait[m] = Append(@, t)]

(* Before the first waiter that is less urgent. *)
PendInsert(s, t, m) ==
  LET i == SelectInSeq(s.wait[m], LAMBDA u : s.prio[t] < s.prio[u])
  IN  [s EXCEPT !.wait[m] = IF i = 0 THEN Append(@, t) ELSE InsertAt(@, i, t)]

PendRemove(s, t) == [s EXCEPT !.wait[s.obj[t]] = RemoveFirst(@, t)]

(* The end of a wait: OS_Post, OS_PendAbort, OS_TickListUpdate.               *)
Wake(s, t, status) ==
  RdyInsert([PendRemove(s, t) EXCEPT !.state[t] = "rdy", !.status[t] = status,
                                     !.obj[t] = NoMutex], t)

Waits(s, t) == s.state[t] \in {"pend", "pendTimeout"}

-----------------------------------------------------------------------------
(* Priority inheritance. *)

FindHighest(s, t) ==
  Min({IdlePrio} \cup
      {s.prio[Head(s.wait[m])] : m \in {n \in ToSet(s.grp[t]) : s.wait[n] # <<>>}})

Restored(s, t) == Min({FindHighest(s, t), s.base[t]})

(* One round of OS_TaskChangePrio: t gets the priority p; the result says     *)
(* which task gets which priority in the next round.                          *)
ChangeOne(c) ==
  LET s == c.s  t == c.t  p == c.p
      End(r) == [s |-> r, t |-> NoTask, p |-> p]
      set == [s EXCEPT !.prio[t] = p]
      r == [RdyRemove(s, t) EXCEPT !.prio[t] = p]
      m == s.obj[t]
      o == s.owner[m]
      moved == PendInsert(PendRemove(set, t), t, m)
      low == Restored(moved, o)
  IN  CASE s.state[t] = "rdy" -> End(IF t = s.cur THEN RdyHead(r, t) ELSE RdyTail(r, t))
        [] s.state[t] = "dly" -> End(set)
        [] s.state[t] = "del" -> End(s)
        [] Waits(s, t) /\ p < s.prio[t] ->
             IF s.prio[o] <= p THEN End(moved) ELSE [s |-> moved, t |-> o, p |-> p]
        [] Waits(s, t) /\ p >= s.prio[t] ->
             IF moved.prio[o] # s.prio[t] THEN [s |-> moved, t |-> o, p |-> p]
             ELSE IF low = moved.prio[o] THEN End(moved)
             ELSE [s |-> moved, t |-> o, p |-> low]

(* OS_TaskChangePrio: from owner to owner; no chain is longer than Task.      *)
ChangePrio(s, t, p) ==
  FoldLeft(LAMBDA c, n : IF c.t = NoTask THEN c ELSE ChangeOne(c),
           [s |-> s, t |-> t, p |-> p], [n \in 1 .. Cardinality(Task) |-> n]).s

(* Mutant: the owner keeps what it inherited. *)
DisinheritNot(s, o, p) == s

(* A task of priority p no longer waits for what o owns: PendAbort, the tick  *)
(* and OSTaskDel take from o a priority that it had from that task.           *)
Disinherit(s, o, p) ==
  IF s.prio[o] # s.base[o] /\ s.prio[o] = p /\ Restored(s, o) # s.prio[o]
  THEN ChangePrio(s, o, Restored(s, o)) ELSE s

-----------------------------------------------------------------------------
(* Kernel calls of the running task. *)

Running == mode = "task" /\ k.cur # NoTask /\ asked[k.cur] = NoMutex
Call(s) == k' = s /\ mode' = "sched"    \* and then OSSched

(* Pend, PendAbort and Del test Type before CPU_CRITICAL_ENTER.  Ask is that  *)
(* test; the actions that are Inside are the critical section, which the task *)
(* may enter long after, when the mutex has been deleted.  Which of the calls *)
(* it is shows there.  A mutex that nobody deletes passes the test at any     *)
(* time: then the two are one step.                                           *)
Ask(m) ==
  /\ Running /\ m \in k.made \cap Loose
  /\ asked' = [asked EXCEPT ![k.cur] = m] /\ UNCHANGED <<k, mode>>

Inside(m) ==
  \/ /\ mode = "task" /\ k.cur # NoTask /\ m \in Loose /\ asked[k.cur] = m
     /\ asked' = [asked EXCEPT ![k.cur] = NoMutex]
  \/ Running /\ m \in k.made \ Loose /\ UNCHANGED asked

Own(s, t, m) == [s EXCEPT !.owner[m] = t, !.nest[m] = 1, !.grp[t] = <<m>> \o @]
Disown(s, m) == [s EXCEPT !.owner[m] = NoTask, !.nest[m] = 0]

PendTake(m) ==
  /\ Inside(m) /\ k.nest[m] = 0
  /\ k' = Own(k, k.cur, m) /\ UNCHANGED mode

PendNest(m) ==
  /\ Inside(m) /\ k.owner[m] = k.cur /\ k.nest[m] < NestMax
  /\ k' = [k EXCEPT !.nest[m] = @ + 1] /\ UNCHANGED mode

(* Mutant: the owner inherits nothing. *)
PendWaitPlain(m) ==
  LET t == k.cur IN
  /\ Inside(m) /\ k.owner[m] \notin {NoTask, t}
  /\ t \in Waiter
  /\ k.grp[t] # <<>> => t \in Nester /\ \A n \in ToSet(k.grp[t]) : Rank[n] < Rank[m]
  /\ Call(PendInsert([RdyRemove(k, t) EXCEPT
            !.state[t] = IF t \in Timed THEN "pendTimeout" ELSE "pend",
            !.status[t] = "ok", !.obj[t] = m], t, m))

(* The mutex has another owner, which inherits the caller's priority.  Tasks  *)
(* that take several mutexes do so in the order of Rank.                      *)
PendWait(m) ==
  LET t == k.cur
      o == k.owner[m]
      s == IF k.prio[o] > k.prio[t] THEN ChangePrio(k, o, k.prio[t]) ELSE k
  IN
  /\ Inside(m) /\ o \notin {NoTask, t}
  /\ t \in Waiter
  /\ k.grp[t] # <<>> => t \in Nester /\ \A n \in ToSet(k.grp[t]) : Rank[n] < Rank[m]
  /\ Call(PendInsert([RdyRemove(s, t) EXCEPT
            !.state[t] = IF t \in Timed THEN "pendTimeout" ELSE "pend",
            !.status[t] = "ok", !.obj[t] = m], t, m))

(* The critical section finds nothing to do: nobody waits and the call is     *)
(* OSMutexPendAbort, or somebody does and it is OSMutexDel without            *)
(* OS_OPT_DEL_ALWAYS.                                                         *)
Refused(m) == Inside(m) /\ m \in Loose /\ UNCHANGED <<k, mode>>

(* The test of OSMutexPost is taken together with its critical section: that  *)
(* finds the caller to be the owner only if nobody deleted the mutex since    *)
(* the test, and changes nothing otherwise.                                   *)
PostNested(m) ==
  /\ Running /\ m \in k.made /\ k.owner[m] = k.cur /\ k.nest[m] > 1
  /\ k' = [k EXCEPT !.nest[m] = @ - 1] /\ UNCHANGED <<mode, asked>>

PostLast(m) == Running /\ m \in k.made /\ k.owner[m] = k.cur /\ k.nest[m] = 1
Ungroup(s, m) == [s EXCEPT !.grp[s.owner[m]] = RemoveFirst(@, m)]

PostFree(m) ==
  /\ PostLast(m) /\ k.wait[m] = <<>>
  /\ k' = Disown(Ungroup(k, m), m) /\ UNCHANGED <<mode, asked>>

(* The owner's priority goes down to what its other mutexes make it inherit.  *)
PostLower(s, t) ==
  IF s.prio[t] # s.base[t] /\ Restored(s, t) > s.prio[t]
  THEN [RdyTail([RdyRemove(s, t) EXCEPT !.prio[t] = Restored(s, t)], t)
          EXCEPT !.prioCur = Restored(s, t)]
  ELSE s

(* Mutant: the last waiter in the list gets the mutex. *)
PostHandLast(m) ==
  /\ PostLast(m) /\ k.wait[m] # <<>>
  /\ LET s == PostLower(Ungroup(k, m), k.cur)
         t == Last(k.wait[m])
     IN  Call(Wake(Own(s, t, m), t, "ok"))
  /\ UNCHANGED asked

PostHand(m) ==
  /\ PostLast(m) /\ k.wait[m] # <<>>
  /\ LET s == PostLower(Ungroup(k, m), k.cur)
         t == Head(k.wait[m])
     IN  Call(Wake(Own(s, t, m), t, "ok"))
  /\ UNCHANGED asked

(* OSMutexPendAbort, for the first waiter or, n times, for all.               *)
AbortOne(s, m) ==
  LET t == Head(s.wait[m])
  IN  Disinherit(Wake(s, t, "abort"), s.owner[m], s.prio[t])

PendAbort(m) ==
  /\ Inside(m) /\ m \in Loose /\ k.wait[m] # <<>>
  /\ \E n \in {1, Len(k.wait[m])} :
       Call(FoldLeft(AbortOne, k, [i \in 1 .. n |-> m]))

(* OSMutexDel.  Without OS_OPT_DEL_ALWAYS only when nobody waits; then the    *)
(* priority of the owner is not looked at.                                    *)
DelOne(s, t) == Wake(s, t, "del")

MutexDel(m) ==
  LET o == k.owner[m]
      woken == FoldLeft(DelOne, k, k.wait[m])
      apart == IF o = NoTask THEN woken ELSE Ungroup(woken, m)
      lower == IF o = NoTask \/ k.prio[o] = k.base[o] THEN apart
               ELSE ChangePrio(apart, o, Restored(apart, o))
  IN
  /\ Inside(m) /\ m \in Loose
  /\ \/ Call([Disown(lower, m) EXCEPT !.made = @ \ {m}])
     \/ /\ k.wait[m] = <<>> /\ UNCHANGED mode
        /\ k' = [Disown(apart, m) EXCEPT !.made = @ \ {m}]

(* Of a free mutex OSMutexCreate sets nothing else that is not so already.    *)
MutexCreate(m) ==
  /\ Running /\ m \notin k.made /\ k.owner[m] = NoTask
  /\ k' = [k EXCEPT !.made = @ \cup {m}] /\ UNCHANGED <<mode, asked>>

(* A task that took the mutex after its deletion still has it.  The group of  *)
(* that task is cut off after m, which will be in the next owner's too, and   *)
(* those who wait for m are in no list.                                       *)
MutexCreateTaken(m) ==
  LET upto(g) ==
        IF m \in ToSet(g) THEN SubSeq(g, 1, CHOOSE i \in DOMAIN g : g[i] = m) ELSE g
  IN
  /\ Running /\ m \notin k.made /\ k.owner[m] # NoTask
  /\ k' = [Disown(k, m) EXCEPT !.made = @ \cup {m}, !.wait[m] = <<>>,
                                !.grp = [t \in Task |-> upto(@[t])]]
  /\ mode' = "damaged" /\ UNCHANGED asked

(* OSTaskChangePrio.                                                          *)
TaskChangePrio(t, p) ==
  LET s == [k EXCEPT !.base[t] = p]
      q == IF s.grp[t] # <<>> /\ p > s.prio[t] THEN Min({p, FindHighest(s, t)}) ELSE p
  IN
  /\ Running /\ <<t, p>> \in Moves /\ k.state[t] # "del"
  /\ Call(ChangePrio(s, t, q)) /\ UNCHANGED asked

(* OS_MutexGrpPostAll: each mutex of the deleted task u goes to its first     *)
(* waiter, whose group it joins, but OwnerTCBPtr is u.                        *)
PostOne(s, m, u) ==
  LET t == Head(s.wait[m])
  IN  IF s.wait[m] = <<>> THEN Disown(Ungroup(s, m), m)
      ELSE Wake([Own(Ungroup(s, m), t, m) EXCEPT !.owner[m] = u], t, "ok")

GrpPostAll(s, u) == FoldLeft(LAMBDA r, m : PostOne(r, m, u), s, s.grp[u])

TaskDel(u) ==
  LET apart ==
        CASE k.state[u] = "rdy" -> RdyRemove(k, u)
          [] k.state[u] = "dly" -> k
          [] Waits(k, u) ->
               Disinherit(PendRemove(k, u), k.owner[k.obj[u]], k.prio[u])
  IN
  /\ Running /\ u \in Deletable /\ k.state[u] # "del"
  /\ \A m \in ToSet(k.grp[u]) : k.wait[m] = <<>>
  /\ Call([GrpPostAll(apart, u) EXCEPT
        !.state[u] = "del", !.prio[u] = IdlePrio + 1, !.base[u] = IdlePrio + 1,
        !.obj[u] = NoMutex, !.grp[u] = <<>>])
  /\ asked' = [asked EXCEPT ![u] = NoMutex]

(* OSTimeDly.                                                                 *)
Delay ==
  /\ Running
  /\ Call([RdyRemove(k, k.cur) EXCEPT !.state[k.cur] = "dly"]) /\ UNCHANGED asked

OSSched == mode = "sched" /\ k' = Sched(k) /\ mode' = "task" /\ UNCHANGED asked

-----------------------------------------------------------------------------
(* The tick interrupt: one or more delays and timeouts end; OSIntExit.        *)
Expire(t) ==
  LET o == k.owner[k.obj[t]]
  IN
  /\ mode # "damaged" /\ mode' = "isr" /\ UNCHANGED asked
  /\ \/ /\ k.state[t] = "dly"
        /\ k' = RdyInsert([k EXCEPT !.state[t] = "rdy"], t)
     \/ /\ k.state[t] = "pendTimeout"
        /\ k' = Disinherit(Wake(k, t, "timeout"), o, k.prio[t])

OSIntExit == mode = "isr" /\ k' = Sched(k) /\ mode' = "task" /\ UNCHANGED asked

(* What code does with such data is not modelled.                             *)
Damaged == mode = "damaged" /\ UNCHANGED vars

-----------------------------------------------------------------------------
Fresh ==
  [prio |-> BasePrio, base |-> BasePrio, state |-> [t \in Task |-> "rdy"],
   status |-> [t \in Task |-> "ok"], obj |-> [t \in Task |-> NoMutex],
   grp |-> [t \in Task |-> <<>>], wait |-> [m \in Mutex |-> <<>>],
   owner |-> [m \in Mutex |-> NoTask], nest |-> [m \in Mutex |-> 0],
   made |-> Mutex,
   rdy |-> [p \in Prio |-> SetToSeq({t \in Task : BasePrio[t] = p})],
   cur |-> NoTask, prioCur |-> IdlePrio]

Init == k = Sched(Fresh) /\ mode = "task" /\ asked = [t \in Task |-> NoMutex]

Critical(m) ==
  \/ Refused(m) \/ PendTake(m) \/ PendNest(m) \/ PendWait(m)
  \/ PendAbort(m) \/ MutexDel(m)

Next ==
  \/ \E m \in Mutex :
       \/ Ask(m) \/ Critical(m)
       \/ PostNested(m) \/ PostFree(m) \/ PostHand(m)
       \/ MutexCreate(m) \/ MutexCreateTaken(m)
  \/ \E t \in Task : TaskDel(t) \/ Expire(t) \/ \E p \in Prio : TaskChangePrio(t, p)
  \/ Delay \/ OSSched \/ OSIntExit \/ Damaged

Spec == Init /\ [][Next]_vars

(* Code runs and time passes; a task that gets to run often enough posts the  *)
(* mutex it owns.                                                             *)
FairSpec ==
  /\ Spec /\ WF_vars(OSSched \/ OSIntExit) /\ WF_vars(\E m \in Loose : Critical(m))
  /\ \A t \in Task : WF_vars(Expire(t))
  /\ \A m \in Mutex : SF_vars(PostNested(m)) /\ SF_vars(PostFree(m) \/ PostHand(m))

-----------------------------------------------------------------------------
(* Correctness. *)

TypeOK ==
  /\ k \in Kernel /\ mode \in {"task", "sched", "isr", "damaged"}
  /\ asked \in [Task -> Mutex \cup {NoMutex}]

(* A TCB is in the list that its TaskState and its priority say, once, and in *)
(* no other one; waiters are in the order of their priorities (os_core.c, "in *)
(* priority order").  A priority may change in the middle of all that.        *)
TcbsExact ==
  /\ \A p \in Prio :
       /\ IsInjective(k.rdy[p])
       /\ ToSet(k.rdy[p]) = {t \in Task : k.state[t] = "rdy" /\ k.prio[t] = p}
  /\ \A m \in Mutex :
       /\ IsInjective(k.wait[m])
       /\ ToSet(k.wait[m]) = {t \in Task : Waits(k, t) /\ k.obj[t] = m}
       /\ \A i, j \in DOMAIN k.wait[m] :
            i < j => k.prio[k.wait[m][i]] <= k.prio[k.wait[m][j]]

(* A mutex is owned by the task in whose group it is and by no other one, and *)
(* nobody waits for a mutex that is free: else nobody would ever post it.     *)
OwnersExact ==
  \A m \in Mutex :
    /\ \A t \in Task : m \in ToSet(k.grp[t]) <=> k.owner[m] = t
    /\ k.nest[m] = 0 <=> k.owner[m] = NoTask
    /\ k.wait[m] # <<>> => k.owner[m] # NoTask
    /\ k.owner[m] # NoTask => k.state[k.owner[m]] # "del"

(* Both, whatever is deleted between the test of a mutex and its use, until a *)
(* mutex is created anew that a task took after its deletion.                 *)
ListsExact == TypeOK /\ (mode # "damaged" => TcbsExact /\ OwnersExact)

(* No priority goes down along a chain of owners: a task whose priority is    *)
(* changed by OSTaskChangePrio does not wait for mutexes, and a wait that can *)
(* end before its mutex is posted is for one of an owner that does not wait.  *)
(* Else OS_TaskChangePrio, lowering a waiter, may give the owner the waiter's *)
(* new priority, however urgent the owner has to be (os_task.c:2816).         *)
ChainsRiseOnly ==
  /\ \A move \in Moves : move[1] \notin Waiter
  /\ \A t \in Timed \cup (Deletable \cap Waiter) : Nester \subseteq {t}
  /\ Nester = {} \/ \A m \in Loose, n \in Mutex : Rank[n] <= Rank[m]

(* A task has its base priority or the one of the most urgent task that waits *)
(* for a mutex of its own, whichever is more urgent: what it inherited ends   *)
(* with the wait it came from, be it by post, timeout, abort or deletion.     *)
ExactInheritance ==
  \A t \in Task : mode # "damaged" /\ k.state[t] # "del" =>
    k.prio[t] = Min({k.base[t]} \cup
      {k.prio[u] : u \in {v \in Task : Waits(k, v) /\ k.owner[k.obj[v]] = t}})

(* No unbounded priority inversion: while t waits for a task that could run,  *)
(* no task runs that is less urgent than t.                                   *)
NoInversion ==
  mode = "task" =>
    \A t \in Task :
      Waits(k, t) /\ k.state[k.owner[k.obj[t]]] = "rdy" =>
        k.prio[k.cur] <= k.prio[t]

(* Who stops waiting owns the mutex if and only if OSMutexPend returns        *)
(* OS_ERR_NONE, and nobody more urgent, or as urgent and earlier, waited.     *)
Granted ==
  [][\A t \in Task :
       Waits(k, t) /\ ~Waits(k, t)' /\ k'.state[t] # "del" =>
         LET m == k.obj[t] IN
         /\ k'.status[t] = "ok" <=> k'.owner[m] = t
         /\ k'.owner[m] = t =>
              \A u \in ToSet(k.wait[m]) : k.prio[t] <= k.prio[u]]_vars

(* os.h, "BasePrio: Base priority (Not inherited)": inheritance never makes a *)
(* task less urgent than it was created.                                      *)
InheritsUpwards == \A t \in Task : k.prio[t] <= k.base[t]

(* The most urgent task gets what it waits for, or its wait ends, unless its  *)
(* owner took that mutex after the deletion of it, when no post is accepted.  *)
UrgentServed ==
  \A t \in {v \in Waiter : \A u \in Task \ {v} : BasePrio[v] < BasePrio[u]} :
    Waits(k, t) ~>
      (~Waits(k, t) \/ k.obj[t] \notin k.made \/ mode = "damaged")
=============================================================================
