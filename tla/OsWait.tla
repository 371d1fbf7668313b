------------------------------- MODULE OsWait -------------------------------
(***************************************************************************)
(* Waiting in uC/OS-III: a task waits for a time (OSTimeDly), for a        *)
(* semaphore or for event flags, the last two with a timeout or without,   *)
(* and may be suspended at any moment of it (os_tick.c, os_time.c,         *)
(* os_sem.c, os_flag.c, OSTaskSuspend and OSTaskResume, OS_Pend and        *)
(* OS_Post).  A wait is ended by whatever comes first, a post, a tick, an  *)
(* abort, a deletion; the task finds out why when it runs again.           *)
(*                                                                         *)
(* One step is one critical section, or the test of an object's type       *)
(* before it.  The tasks run by priority.  The other calls are made by     *)
(* interrupts and by a manager, a task that is more urgent than all of     *)
(* them, between any two steps; the manager is the one that creates and    *)
(* deletes, so that in its own calls test and critical section are one     *)
(* step.                                                                   *)
(***************************************************************************)
EXTENDS Integers, SequencesExt

CONSTANTS
  Task,
  Prio,         \* [Task -> Nat], the smaller the more urgent
  Wrap,         \* OSTickCtr is counted modulo Wrap
  Delays,       \* [t, opt, time]: the calls of OSTimeDly
  Pends,        \* [t, obj, timeout, flags, set, all, consume]: of OS...Pend
  Flag,
  Posted,       \* sets of flags that OSFlagPost is called with
  SemMax,       \* the largest OS_SEM_CTR
  Suspend,      \* tasks that are suspended
  SuspendMax    \* the largest OS_NESTING_CTR

Time == 0 .. Wrap - 1

ASSUME WaitAssumption ==
  /\ IsFiniteSet(Task) /\ Suspend \subseteq Task /\ Posted \subseteq SUBSET Flag
  /\ Prio \in [Task -> Nat] /\ \A t, u \in Task : Prio[t] = Prio[u] => t = u
  /\ Wrap \in Nat \ {0} /\ SemMax \in Nat \ {0} /\ SuspendMax \in Nat \ {0}
  /\ \A d \in Delays : /\ d.t \in Task /\ d.time \in Time
                       /\ d.opt \in {"dly", "match", "periodic"}
                       /\ d.opt = "periodic" => d.time > 0
  /\ \A w \in Pends : /\ w.t \in Task /\ w.obj \in {"sem", "flag"}
                      /\ w.timeout \in Time /\ w.flags \subseteq Flag
                      /\ w.obj = "flag" => w.flags # {}

(* OS_FlagTaskRdy leaves a suspended waiter with a timeout in the tick list,  *)
(* where its next delay would enter it a second time; no such calls here.     *)
ASSUME SuspendAssumption ==
  \A w \in Pends : w.obj = "flag" /\ w.timeout > 0 => w.t \notin Suspend

VARIABLES
  k,       \* the kernel's data
  tick,    \* OSTickCtr
  asked,   \* calls of OS...Pend that found the right Type and have not yet
           \* entered their critical section
  call,    \* the call of OS...Pend or OSTimeDly that each task is in
  due,     \* history: the tick at which the wait is to end
  credit,  \* history: posts of the semaphore that no OSSemPend returned yet
  stale    \* history: tasks that began to wait for a deleted object

vars == <<k, tick, asked, call, due, credit, stale>>

(* state: the bits of TaskState; nested: SuspendCtr; on: PendOn, or "lost" if *)
(* the pend list was made anew while the task was in it; status: PendStatus;  *)
(* rdy: FlagsRdy; prev: TickCtrPrev; list: OSTickList, with remain:           *)
(* TickRemain; valid: the objects that have their Types.                      *)
Kernel == [
  state : [Task -> SUBSET {"dly", "pend", "suspended"}],
  nested : [Task -> 0 .. SuspendMax],
  on : [Task -> {"nothing", "sem", "flag", "lost"}],
  status : [Task -> {"ok", "timeout", "abort", "del"}],
  rdy : [Task -> SUBSET Flag], prev : [Task -> Time],
  list : Seq(Task), remain : [Task -> Time],
  valid : SUBSET {"sem", "flag"}, ctr : 0 .. SemMax, flags : SUBSET Flag]

NoCall == [obj |-> "none"]
Dly == [obj |-> "dly"]

-----------------------------------------------------------------------------
(* The tick list. *)

(* Ticks until the wait of the i-th task of the list is over. *)
Until(s, i) == FoldLeft(LAMBDA n, t : n + s.remain[t], 0, SubSeq(s.list, 1, i))

(* Mutant: the task behind the new one keeps its ticks. *)
TickListInsertKeep(s, t, delta) ==
  LET i == Min({j \in DOMAIN s.list : delta < Until(s, j)} \cup {Len(s.list) + 1})
  IN  [s EXCEPT !.list = InsertAt(@, i, t),
                !.remain[t] = delta - Until(s, i - 1),
                !.state[t] = @ \cup {"dly"}]

(* OS_TickListInsert: behind those that end at the same tick. *)
TickListInsert(s, t, delta) ==
  LET i == Min({j \in DOMAIN s.list : delta < Until(s, j)} \cup {Len(s.list) + 1})
      own == delta - Until(s, i - 1)
      r == [s.remain EXCEPT ![t] = own]
  IN  [s EXCEPT !.list = InsertAt(@, i, t),
                !.remain = IF i > Len(s.list) THEN r
                           ELSE [r EXCEPT ![s.list[i]] = @ - own],
                !.state[t] = @ \cup {"dly"}]

TickListRemove(s, t) ==
  LET i == CHOOSE j \in DOMAIN s.list : s.list[j] = t
      r == [s.remain EXCEPT ![t] = 0]
  IN  [s EXCEPT !.list = RemoveAt(@, i),
                !.remain = IF i = Len(s.list) THEN r
                           ELSE [r EXCEPT ![s.list[i + 1]] = @ + s.remain[t]],
                !.state[t] = @ \ {"dly"}]

-----------------------------------------------------------------------------
(* Waiting for an object. *)

Timed(s, t) == "dly" \in s.state[t]
Waiters(s, obj) == {t \in Task : s.on[t] = obj}

(* The pend list, the most urgent task first. *)
PendList(s, obj) ==
  LET w == Waiters(s, obj) IN
  CHOOSE l \in [1 .. Cardinality(w) -> w] :
    \A i, j \in DOMAIN l : i < j => Prio[l[i]] < Prio[l[j]]

(* OS_Pend, OS_TaskBlock *)
Pend(s, w) ==
  LET b == [s EXCEPT !.state[w.t] = {"pend"}, !.on[w.t] = w.obj,
                     !.status[w.t] = "ok", !.rdy[w.t] = {}]
  IN  IF w.timeout > 0 THEN TickListInsert(b, w.t, w.timeout) ELSE b

(* OS_PendListRemove and the new state of the task. *)
Ended(s, t, why) ==
  [s EXCEPT !.state[t] = @ \ {"pend"}, !.on[t] = "nothing", !.status[t] = why]

(* OS_Post, OS_PendAbort *)
Wake(s, t, why) ==
  Ended(IF Timed(s, t) THEN TickListRemove(s, t) ELSE s, t, why)

WakeAll(s, obj, why) ==
  FoldLeft(LAMBDA r, t : Wake(r, t, why), s, PendList(s, obj))

(* Mutant: a wait that timed out stays in the pend list. *)
TimeOutPends(s, t) ==
  [s EXCEPT !.state[t] = @ \ {"dly", "pend"},
            !.status[t] = IF s.on[t] = "nothing" THEN @ ELSE "timeout"]

(* Mutant: a timeout leaves PendStatus as it was. *)
TimeOutSilent(s, t) ==
  LET e == [s EXCEPT !.state[t] = @ \ {"dly"}]
  IN  IF "pend" \in s.state[t] THEN Ended(e, t, "ok") ELSE e

(* OS_TickListUpdate, for one task whose time is over. *)
TimeOut(s, t) ==
  LET e == [s EXCEPT !.state[t] = @ \ {"dly"}]
  IN  IF "pend" \in s.state[t] THEN Ended(e, t, "timeout") ELSE e

(* OS_TickListUpdate: a tick. *)
TickListUpdate(s) ==
  LET n == Cardinality({i \in DOMAIN s.list : Until(s, i) <= 1})
      left == [s EXCEPT !.list = SubSeq(@, n + 1, Len(@)),
                        !.remain = [t \in Task |->
                          IF s.list # <<>> /\ t = s.list[1] THEN @[t] - 1 ELSE @[t]]]
  IN  FoldLeft(TimeOut, left, SubSeq(s.list, 1, n))

-----------------------------------------------------------------------------
(* Event flags. *)

(* Those of the flags waited for that are as they are waited for. *)
Present(w, flags) == IF w.set THEN w.flags \cap flags ELSE w.flags \ flags
Met(w, flags) ==
  IF w.all THEN Present(w, flags) = w.flags ELSE Present(w, flags) # {}

Consume(w, rdy, flags) ==
  IF ~w.consume THEN flags
  ELSE IF w.set THEN flags \ rdy ELSE flags \cup rdy

(* OS_FlagTaskRdy: only a task that is not suspended leaves the tick list. *)
FlagTaskRdy(s, t) ==
  LET r == [s EXCEPT !.rdy[t] = Present(call[t], s.flags)]
  IN  IF "suspended" \in s.state[t] THEN Ended(r, t, "ok") ELSE Wake(r, t, "ok")

-----------------------------------------------------------------------------
(* The tasks. *)

Idle(t) == call[t] = NoCall /\ \A w \in asked : w.t # t

(* t is the most urgent ready task. *)
Runs(t) ==
  /\ k.state[t] = {}
  /\ \A u \in Task : Prio[u] < Prio[t] => k.state[u] # {} \/ Idle(u)

Ends(t, time) == [due EXCEPT ![t] = time % Wrap]

(* OSSemPend and OSFlagPend test Type before CPU_CRITICAL_ENTER. *)
Ask(w) ==
  /\ Runs(w.t) /\ Idle(w.t) /\ w.obj \in k.valid
  /\ asked' = asked \cup {w}
  /\ UNCHANGED <<k, tick, call, due, credit, stale>>

(* CPU_CRITICAL_ENTER: the object may have been deleted since the test. *)
Enter(w) == w \in asked /\ Runs(w.t) /\ asked' = asked \ {w}

Begin(w) ==
  /\ k' = Pend(k, w)
  /\ call' = [call EXCEPT ![w.t] = w]
  /\ due' = Ends(w.t, IF w.timeout = 0 THEN 0 ELSE tick + w.timeout)
  /\ stale' = IF w.obj \in k.valid THEN stale ELSE stale \cup {w.t}

(* OSSemPend *)
SemPend(w) ==
  /\ w.obj = "sem" /\ Enter(w)
  /\ IF k.ctr > 0
       THEN /\ k' = [k EXCEPT !.ctr = @ - 1]
            /\ credit' = credit - 1
            /\ UNCHANGED <<call, due, stale>>
       ELSE Begin(w) /\ UNCHANGED credit
  /\ UNCHANGED tick

(* OSFlagPend *)
FlagPend(w) ==
  /\ w.obj = "flag" /\ Enter(w)
  /\ IF Met(w, k.flags)
       THEN /\ k' = [k EXCEPT !.flags = Consume(w, Present(w, @), @)]
            /\ UNCHANGED <<call, due, stale>>
       ELSE Begin(w)
  /\ UNCHANGED <<tick, credit>>

(* A call goes on after OSSched and looks at PendStatus, which nobody does    *)
(* later.  OSFlagPend consumes its flags only now.                            *)
Return(t) ==
  LET ok == k.status[t] = "ok"
      s == [k EXCEPT !.status[t] = "ok", !.rdy[t] = {}] IN
  /\ call[t] # NoCall /\ Runs(t) /\ call' = [call EXCEPT ![t] = NoCall]
  /\ k' = IF call[t].obj = "flag" /\ ok
          THEN [s EXCEPT !.flags = Consume(call[t], k.rdy[t], @)] ELSE s
  /\ credit' = IF call[t].obj = "sem" /\ ok THEN credit - 1 ELSE credit
  /\ due' = Ends(t, 0) /\ stale' = stale \ {t}
  /\ UNCHANGED <<tick, asked>>

(* OS_TickListInsertDly in the mode OS_OPT_TIME_PERIODIC: the tick that the   *)
(* next period is counted from; periods that are over are left out.           *)
TickBase(t, time) ==
  LET offset == (tick - k.prev[t]) % Wrap
      missed == offset \div time + (IF offset % time = 0 THEN 0 ELSE 1)
  IN  IF offset < time THEN k.prev[t] ELSE (k.prev[t] + time * missed) % Wrap

(* OSTimeDly; a delay of no ticks is an error, which keeps the new TickCtrPrev. *)
TimeDly(d) ==
  LET base == CASE d.opt = "dly" -> tick
                [] d.opt = "match" -> 0
                [] d.opt = "periodic" -> TickBase(d.t, d.time)
      delta == (d.time + base - tick) % Wrap
      s == IF d.opt = "periodic" THEN [k EXCEPT !.prev[d.t] = (base + d.time) % Wrap]
           ELSE k
  IN
  /\ Runs(d.t) /\ Idle(d.t)
  /\ IF delta = 0
       THEN k' = s /\ UNCHANGED <<call, due>>
       ELSE /\ k' = TickListInsert(s, d.t, delta)
            /\ call' = [call EXCEPT ![d.t] = Dly]
            /\ due' = Ends(d.t, CASE d.opt = "dly" -> tick + d.time
                                   [] d.opt = "match" -> d.time
                                   [] d.opt = "periodic" -> s.prev[d.t])
  /\ UNCHANGED <<tick, asked, credit, stale>>

-----------------------------------------------------------------------------
(* Interrupts and the manager. *)

Env == UNCHANGED <<tick, asked, call, due, stale>>

(* OSSemPost: to the first waiter, to all of them, or to nobody yet. *)
SemPost ==
  /\ "sem" \in k.valid
  /\ LET l == PendList(k, "sem") IN
     \/ /\ l = <<>> /\ k.ctr < SemMax
        /\ k' = [k EXCEPT !.ctr = @ + 1] /\ credit' = credit + 1
     \/ /\ l # <<>>
        /\ k' = Wake(k, Head(l), "ok") /\ credit' = credit + 1
     \/ /\ l # <<>>
        /\ k' = WakeAll(k, "sem", "ok") /\ credit' = credit + Len(l)
  /\ Env

(* OSSemSet, which changes nothing while a task waits. *)
SemSet ==
  /\ "sem" \in k.valid /\ (k.ctr > 0 \/ Waiters(k, "sem") = {})
  /\ \E n \in 0 .. SemMax :
       /\ k' = [k EXCEPT !.ctr = n]
       /\ credit' = credit + n - k.ctr
  /\ Env

(* Mutant: a post looks at the first waiter only. *)
FlagPostFirst ==
  /\ "flag" \in k.valid
  /\ \E f \in Posted, set \in BOOLEAN :
       LET s == [k EXCEPT !.flags = IF set THEN @ \cup f ELSE @ \ f]
           l == PendList(k, "flag") IN
       k' = IF l # <<>> /\ Met(call[Head(l)], s.flags) THEN FlagTaskRdy(s, Head(l)) ELSE s
  /\ UNCHANGED credit /\ Env

(* OSFlagPost: every waiter that the flags suit becomes ready. *)
FlagPost ==
  /\ "flag" \in k.valid
  /\ \E f \in Posted, set \in BOOLEAN :
       LET s == [k EXCEPT !.flags = IF set THEN @ \cup f ELSE @ \ f] IN
       k' = FoldLeft(LAMBDA r, t : IF Met(call[t], s.flags) THEN FlagTaskRdy(r, t) ELSE r,
                     s, PendList(k, "flag"))
  /\ UNCHANGED credit /\ Env

(* OSSemPendAbort, OSFlagPendAbort: one waiter or all of them. *)
PendAbort(obj) ==
  /\ obj \in k.valid /\ Waiters(k, obj) # {}
  /\ k' \in {Wake(k, Head(PendList(k, obj)), "abort"), WakeAll(k, obj, "abort")}
  /\ UNCHANGED credit /\ Env

(* OSSemDel, OSFlagDel with OS_OPT_DEL_ALWAYS. *)
Del(obj) ==
  /\ obj \in k.valid
  /\ LET s == [WakeAll(k, obj, "del") EXCEPT !.valid = @ \ {obj}]
     IN  IF obj = "sem" THEN k' = [s EXCEPT !.ctr = 0] /\ credit' = credit - k.ctr
                        ELSE k' = [s EXCEPT !.flags = {}] /\ UNCHANGED credit
  /\ Env

(* OSSemCreate, OSFlagCreate, with any initial value.  Who waits for the      *)
(* deleted object is in no pend list any more.                                *)
Create(obj) ==
  /\ obj \notin k.valid
  /\ LET s == [k EXCEPT !.valid = @ \cup {obj},
                         !.on = [t \in Task |-> IF @[t] = obj THEN "lost" ELSE @[t]]] IN
     \/ /\ obj = "sem"
        /\ \E n \in 0 .. SemMax : k' = [s EXCEPT !.ctr = n] /\ credit' = credit + n
     \/ /\ obj = "flag"
        /\ \E f \in SUBSET Flag : k' = [s EXCEPT !.flags = f]
        /\ UNCHANGED credit
  /\ Env

(* OSTimeDlyResume *)
TimeDlyResume(t) ==
  /\ Timed(k, t) /\ "pend" \notin k.state[t]
  /\ k' = TickListRemove(k, t)
  /\ UNCHANGED credit /\ Env

(* OSTaskSuspend *)
TaskSuspend(t) ==
  /\ k.nested[t] < SuspendMax
  /\ k' = [k EXCEPT !.state[t] = @ \cup {"suspended"}, !.nested[t] = @ + 1]
  /\ UNCHANGED credit /\ Env

(* OSTaskResume *)
TaskResume(t) ==
  /\ "suspended" \in k.state[t]
  /\ k' = [k EXCEPT !.nested[t] = @ - 1,
                    !.state[t] = IF k.nested[t] = 1 THEN @ \ {"suspended"} ELSE @]
  /\ UNCHANGED credit /\ Env

(* OS_TickUpdate.  What OS_PendListRemove does when a task times out that is  *)
(* in no pend list, with the head of one it is not in, is not modelled: there *)
(* is no such tick.                                                           *)
Tick ==
  /\ \A i \in DOMAIN k.list : Until(k, i) <= 1 => k.on[k.list[i]] # "lost"
  /\ tick' = (tick + 1) % Wrap
  /\ k' = TickListUpdate(k)
  /\ UNCHANGED <<asked, call, due, credit, stale>>

Init ==
  /\ k = [state |-> [t \in Task |-> {}], nested |-> [t \in Task |-> 0],
          on |-> [t \in Task |-> "nothing"], status |-> [t \in Task |-> "ok"],
          rdy |-> [t \in Task |-> {}], prev |-> [t \in Task |-> 0],
          list |-> <<>>, remain |-> [t \in Task |-> 0],
          valid |-> {"sem", "flag"}, ctr |-> 0, flags |-> {}]
  /\ tick = 0 /\ asked = {} /\ call = [t \in Task |-> NoCall]
  /\ due = [t \in Task |-> 0] /\ credit = 0 /\ stale = {}

Next ==
  \/ \E w \in Pends : Ask(w) \/ SemPend(w) \/ FlagPend(w)
  \/ \E d \in Delays : TimeDly(d)
  \/ \E t \in Task : Return(t) \/ TimeDlyResume(t)
  \/ \E t \in Suspend : TaskSuspend(t) \/ TaskResume(t)
  \/ SemPost \/ SemSet \/ FlagPost \/ Tick
  \/ \E obj \in {"sem", "flag"} : PendAbort(obj) \/ Del(obj) \/ Create(obj)

Spec == Init /\ [][Next]_vars

-----------------------------------------------------------------------------
(* Properties. *)

TypeOK ==
  /\ k \in Kernel /\ tick \in Time /\ due \in [Task -> Time] /\ credit \in Int
  /\ \A t \in Task : call[t] \in {NoCall, Dly} \/ call[t] \in Pends
  /\ asked \subseteq Pends /\ stale \subseteq Task

(* The bits of TaskState say what lists the task is in: the tick list with    *)
(* the bit for delays and timeouts, a pend list with the bit for waits, and   *)
(* it is ready or suspended alone once its wait is over.  However posts,      *)
(* ticks, aborts, deletions and suspensions follow each other.  Nobody waits  *)
(* for a deleted object, or in no pend list, but a task whose object was      *)
(* deleted between its test and its critical section.                         *)
WaitsExact ==
  /\ TypeOK
  /\ IsInjective(k.list)
  /\ \A t \in Task :
       /\ Timed(k, t) <=> t \in ToSet(k.list)
       /\ "pend" \in k.state[t] <=> k.on[t] # "nothing"
       /\ "suspended" \in k.state[t] <=> k.nested[t] > 0
       /\ k.on[t] # "nothing" => k.on[t] = call[t].obj \/ k.on[t] = "lost"
       /\ k.on[t] # "nothing" /\ t \notin stale => k.on[t] \in k.valid
       /\ Timed(k, t) /\ "pend" \notin k.state[t] => call[t] = Dly

(* Every wait for a time ends with the tick that was asked for, whatever is   *)
(* put into the list and taken out of it, and when OSTickCtr wraps; a         *)
(* periodic delay keeps its phase if OSTickCtr wraps after whole periods and  *)
(* the task has no other period, counted from the same TickCtrPrev.           *)
Phased(d) ==
  /\ d.opt = "periodic" /\ Wrap % d.time = 0
  /\ \A e \in Delays : e.opt = "periodic" /\ e.t = d.t => e.time = d.time

OnTime ==
  /\ \A i \in DOMAIN k.list : (tick + Until(k, i)) % Wrap = due[k.list[i]]
  /\ k.list # <<>> => k.remain[Head(k.list)] > 0
  /\ \A d \in Delays : Phased(d) => k.prev[d.t] % d.time = 0

(* Nobody in a pend list waits for a semaphore that has a count, or for flags *)
(* that are there, whether or not the object was deleted under it, and        *)
(* although OSFlagPend consumes flags after the post and without a look at    *)
(* the pend list: at most the flags that another task consumes in the         *)
(* opposite state could be missed.  And a creation drops nobody from its pend *)
(* list but those whose object was deleted between the test of its Type and   *)
(* the critical section (os_sem.c:409, os_flag.c:434).                        *)
Alone(w) ==
  \A v \in Pends : v.obj = "flag" /\ v.consume /\ v.t # w.t /\ v.set # w.set
                   => v.flags \cap w.flags = {}

NoVainWait ==
  \A t \in Task :
    /\ k.on[t] = "sem" => k.ctr = 0
    /\ k.on[t] = "flag" /\ Alone(call[t]) => ~Met(call[t], k.flags)
    /\ k.on[t] = "lost" => t \in stale

(* A post is not lost and not given twice: it is in the count or with the one *)
(* task that it woke and that has not yet returned; one that has timed out or *)
(* was aborted has none.                                                      *)
PostsConserved ==
  credit = k.ctr + Cardinality({t \in Task : /\ call[t] # NoCall /\ call[t].obj = "sem"
                                             /\ "pend" \notin k.state[t]
                                             /\ k.status[t] = "ok"})

=============================================================================
