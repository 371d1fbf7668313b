----------------------------- MODULE SysTimeouts -----------------------------
(***************************************************************************)
(* The timers of lwIP (Lwip-2.1.2/core/timeouts.c), run by tcpip_thread    *)
(* while it waits for messages (tcpip_timeouts_mbox_fetch in api/tcpip.c). *)
(* The timeouts are in a list in the order of their times, which are       *)
(* compared modulo the width of OSTickCtr; the cyclic timers queue         *)
(* themselves again, the TCP timer only while there are TCP connections.   *)
(*                                                                         *)
(* The list belongs to the owner of the core lock.  tcpip_thread gives the *)
(* lock up while it sleeps in sys_arch_mbox_fetch, and the application may *)
(* then queue the TCP timer: nothing shortens the sleep.                   *)
(***************************************************************************)
EXTENDS Integers, SequencesExt

CONSTANTS
  Cyclic,       \* lwip_cyclic_timers without the first one, the TCP timer
  Tcp,          \* tcpip_tcp_timer
  NoTimer,
  Interval,     \* [Cyclic \cup {Tcp} -> Nat]
  Wrap,         \* OSTickCtr is counted modulo Wrap
  Pool,         \* MEMP_NUM_SYS_TIMEOUT
  LateMax       \* bound: how late tcpip_thread may be while it is awake

Timer == Cyclic \cup {Tcp}
MaxTimeout == Wrap \div 2 - 1

ASSUME TimeoutsAssumption ==
  /\ Tcp \notin Cyclic /\ NoTimer \notin Timer /\ IsFiniteSet(Cyclic)
  /\ Wrap \in Nat /\ Wrap % 2 = 0 /\ LateMax \in Nat
  /\ Interval \in [Timer -> Nat \ {0}]
  /\ \A h, k \in Timer : Interval[h] + Interval[k] + LateMax <= MaxTimeout
  /\ Pool \in Nat /\ Cardinality(Timer) <= Pool

VARIABLES
  list,    \* next_timeout: the sys_timeos <<h, time>>, the first one first
  due,     \* current_timeout_due_time
  active,  \* tcpip_tcp_timer_active
  pcbs,    \* tcp_active_pcbs || tcp_tw_pcbs
  tick,    \* OSTickCtr
  pc,      \* where tcpip_thread is
  now,     \* "now" of sys_check_timeouts
  run,     \* the timer whose handler runs
  sleep,   \* the timeout of sys_arch_mbox_fetch, then what is left of it
  app,     \* whether the application has the core lock
  fresh,   \* history: the TCP timer was queued during the sleep
  phase    \* history: ticks since the last beat of the cyclic timers

timers == <<list, due, active, pcbs>>
vars == <<timers, tick, pc, now, run, sleep, app, fresh, phase>>

Time == 0 .. Wrap - 1

TypeOK ==
  /\ list \in Seq(Timer \X Time) /\ due \in Time /\ active \in BOOLEAN
  /\ pcbs \in BOOLEAN /\ tick \in Time /\ now \in Time
  /\ pc \in {"again", "fetch", "asleep", "timeout", "message", "check", "handler"}
  /\ run \in Timer \cup {NoTimer} /\ sleep \in Time
  /\ app \in BOOLEAN /\ fresh \in BOOLEAN /\ phase \in [Cyclic -> Time]

-----------------------------------------------------------------------------
(* Times. *)

(* Mutant: the times are compared as numbers. *)
LessPlain(t, u) == t < u

(* TIME_LESS_THAN *)
Less(t, u) == (t - u) % Wrap > MaxTimeout

(* sys_timeout_abs: before the first one that ends later.  When the pool is  *)
(* empty the timeout is lost.                                                *)
Queued(q, h, time) ==
  LET later == {i \in DOMAIN q : Less(time, q[i][2])}
  IN  IF Len(q) = Pool THEN q
      ELSE InsertAt(q, Min(later \cup {Len(q) + 1}), <<h, time>>)

(* sys_timeout *)
Later(q, h) == Queued(q, h, (tick + Interval[h]) % Wrap)

Init ==
  /\ tick \in Time
  /\ \E order \in SetToSeqs(Cyclic) :
       list = FoldLeft(LAMBDA q, h : Later(q, h), << >>, order)
  /\ due = 0 /\ active = FALSE /\ pcbs = FALSE
  /\ pc = "again" /\ now = 0 /\ run = NoTimer /\ sleep = 0
  /\ app = FALSE /\ fresh = FALSE
  /\ phase = [h \in Cyclic |-> 0]

(* Mutant: the timer is queued although it is active. *)
TcpTimerNeededTwice(pcb) ==
  /\ pcbs' = pcb
  /\ active' = (active \/ pcb)
  /\ list' = IF pcb THEN Later(list, Tcp) ELSE list

(* TCP_REG, which calls tcp_timer_needed, or TCP_RMV, which does not.        *)
TcpTimerNeeded(pcb) ==
  /\ pcbs' = pcb
  /\ active' = (active \/ pcb)
  /\ list' = IF pcb /\ ~active THEN Later(list, Tcp) ELSE list

-----------------------------------------------------------------------------
(* tcpip_thread.  It has the core lock except at "fetch", "asleep",          *)
(* "timeout" and "message".                                                  *)

(* sys_timeouts_sleeptime is 0: sys_check_timeouts. *)
Overdue ==
  /\ pc = "again" /\ list # << >>
  /\ Less(list[1][2], tick) \/ list[1][2] = tick
  /\ pc' = "check" /\ now' = tick
  /\ UNCHANGED <<timers, tick, run, sleep, app, fresh, phase>>

Sleeptime ==
  /\ pc = "again" /\ list # << >>
  /\ Less(tick, list[1][2])
  /\ sleep' = (list[1][2] - tick) % Wrap
  /\ pc' = "fetch" /\ fresh' = FALSE
  /\ UNCHANGED <<timers, tick, now, run, app, phase>>

(* sys_arch_mbox_fetch: OSQPend finds a message or blocks. *)
Fetch ==
  /\ pc = "fetch" /\ pc' \in {"message", "asleep"}
  /\ UNCHANGED <<timers, tick, now, run, sleep, app, fresh, phase>>

Arrives ==
  /\ pc = "asleep" /\ pc' = "message"
  /\ UNCHANGED <<timers, tick, now, run, sleep, app, fresh, phase>>

(* LOCK_TCPIP_CORE; tcpip_thread_handle_msg may register or remove pcbs. *)
Handle ==
  /\ pc = "message" /\ ~app
  /\ pc' = "again" /\ \E pcb \in BOOLEAN : TcpTimerNeeded(pcb)
  /\ sleep' = 0
  /\ UNCHANGED <<due, tick, now, run, app, fresh, phase>>

(* SYS_ARCH_TIMEOUT; LOCK_TCPIP_CORE; sys_check_timeouts reads the time once. *)
Timeout ==
  /\ pc = "timeout" /\ ~app
  /\ pc' = "check" /\ now' = tick
  /\ UNCHANGED <<timers, tick, run, sleep, app, fresh, phase>>

Expired == list # << >> /\ ~Less(now, list[1][2])

Expire ==
  /\ pc = "check" /\ Expired
  /\ list' = Tail(list) /\ run' = list[1][1] /\ due' = list[1][2]
  /\ pc' = "handler"
  /\ UNCHANGED <<active, pcbs, tick, now, sleep, app, fresh, phase>>

CheckDone ==
  /\ pc = "check" /\ ~Expired
  /\ pc' = "again" /\ now' = 0
  /\ UNCHANGED <<timers, tick, run, sleep, app, fresh, phase>>

(* Mutant: a timer that missed its beat is not queued again. *)
CyclicTimerLost ==
  LET next == (due + Interval[run]) % Wrap IN
  /\ pc = "handler" /\ run # Tcp
  /\ list' = IF Less(next, tick) THEN list ELSE Queued(list, run, next)
  /\ pc' = "check" /\ run' = NoTimer
  /\ UNCHANGED <<due, active, pcbs, tick, now, sleep, app, fresh, phase>>

(* Mutant: the next time is counted from now. *)
CyclicTimerDrifts ==
  /\ pc = "handler" /\ run # Tcp
  /\ list' = Later(list, run)
  /\ pc' = "check" /\ run' = NoTimer
  /\ UNCHANGED <<due, active, pcbs, tick, now, sleep, app, fresh, phase>>

(* lwip_cyclic_timer after its handler: the next time is counted from the    *)
(* last one, unless that would be over already.                              *)
CyclicTimer ==
  LET next == (due + Interval[run]) % Wrap IN
  /\ pc = "handler" /\ run # Tcp
  /\ IF Less(next, tick)
       THEN /\ list' = Later(list, run)
            /\ phase' = [phase EXCEPT ![run] = 0]
       ELSE /\ list' = Queued(list, run, next)
            /\ UNCHANGED phase
  /\ pc' = "check" /\ run' = NoTimer
  /\ UNCHANGED <<due, active, pcbs, tick, now, sleep, app, fresh>>

(* tcpip_tcp_timer; tcp_tmr may have removed the last pcb. *)
TcpTimer ==
  /\ pc = "handler" /\ run = Tcp
  /\ pcbs' \in {FALSE, pcbs}
  /\ active' = pcbs'
  /\ list' = IF pcbs' THEN Later(list, Tcp) ELSE list
  /\ pc' = "check" /\ run' = NoTimer
  /\ UNCHANGED <<due, tick, now, sleep, app, fresh, phase>>

Thread ==
  \/ Overdue \/ Sleeptime \/ Fetch \/ Handle \/ Timeout
  \/ Expire \/ CheckDone \/ CyclicTimer \/ TcpTimer

-----------------------------------------------------------------------------
(* The application calls the API under the core lock; ticks. *)

(* It is less urgent than tcpip_thread: it gets to LOCK_TCPIP_CORE only while *)
(* that one sleeps, but keeps the lock when it wakes up.                      *)
AppLock ==
  /\ pc = "asleep" /\ ~app /\ app' = TRUE
  /\ UNCHANGED <<timers, tick, pc, now, run, sleep, fresh, phase>>

(* lwip_netconn_do_connect, ...close; UNLOCK_TCPIP_CORE. *)
AppDo ==
  /\ app /\ app' = FALSE
  /\ \E pcb \in BOOLEAN : TcpTimerNeeded(pcb)
  /\ fresh' = (fresh \/ (active' /\ ~active))
  /\ UNCHANGED <<due, tick, pc, now, run, sleep, phase>>

(* When tcpip_thread goes on: the tick at which it serves the list.          *)
Serves == IF pc \in {"fetch", "asleep"} THEN tick + sleep ELSE tick

(* a - b for times less than half a turn apart. *)
Diff(a, b) == LET d == (a - b) % Wrap IN IF d > MaxTimeout THEN d - Wrap ELSE d

(* How late the timeout e is served, below 0 when it is not due by then.     *)
Late(e) == Diff(Serves, e[2])

(* A sleep ends with the tick that uses it up.  Awake, tcpip_thread is       *)
(* slowed down by more urgent tasks, the application and its handlers.       *)
Tick ==
  /\ pc # "asleep" =>
       /\ \A i \in DOMAIN list : Late(list[i]) < LateMax
       /\ pc = "handler" => Diff(tick, due) < LateMax
  /\ tick' = (tick + 1) % Wrap
  /\ IF pc = "asleep"
       THEN sleep' = sleep - 1 /\ pc' = IF sleep = 1 THEN "timeout" ELSE pc
       ELSE UNCHANGED <<sleep, pc>>
  /\ phase' = [h \in Cyclic |-> (phase[h] + 1) % Interval[h]]
  /\ UNCHANGED <<timers, now, run, app, fresh>>

Next == Thread \/ Arrives \/ AppLock \/ AppDo \/ Tick

(* The tick interrupt comes, tcpip_thread runs, calls of the API end.        *)
Spec == Init /\ [][Next]_vars /\ WF_vars(Thread) /\ WF_vars(AppDo) /\ WF_vars(Tick)

-----------------------------------------------------------------------------
(* Properties. *)

Here(h) == {i \in DOMAIN list : list[i][1] = h}

(* No timer is lost and none is queued twice: a cyclic timer is in the list  *)
(* once, or its handler runs; so is the TCP timer as long as                 *)
(* tcpip_tcp_timer_active says so, which it does while there are pcbs.  The  *)
(* list is in the order of time, also across the wrap of OSTickCtr, and the  *)
(* pool has never been empty.  (sys_timeout_abs, tcpip_tcp_timer,            *)
(* tcp_timer_needed, lwip_cyclic_timer)                                      *)
TimersKept ==
  /\ TypeOK
  /\ \A h \in Cyclic : Cardinality(Here(h)) = IF run = h THEN 0 ELSE 1
  /\ Cardinality(Here(Tcp)) = IF active /\ run # Tcp THEN 1 ELSE 0
  /\ run = Tcp => active
  /\ pcbs => active
  /\ \A i, j \in DOMAIN list : i < j => ~Less(list[j][2], list[i][2])

(* tcpip_thread never sleeps past a timer: what it is late by it lost while  *)
(* it was awake.  The one exception is the TCP timer that the application    *)
(* started during the sleep, which waits for the end of it: at most the      *)
(* longest interval.  (tcpip_timeouts_mbox_fetch, sys_timeouts_sleeptime)    *)
NoOversleep ==
  \A i \in DOMAIN list :
    LET excess == Late(list[i]) - LateMax IN
    \/ excess <= 0
    \/ fresh /\ list[i][1] = Tcp /\ \E h \in Cyclic : excess <= Interval[h]

(* A cyclic timer keeps its beat however late its handler was called and     *)
(* however long that took, unless it missed a beat: it is due a whole number *)
(* of intervals from when it was last queued anew.  (lwip_cyclic_timer)      *)
OnBeat(h, time) == (phase[h] - Diff(tick, time)) % Interval[h] = 0
InPhase ==
  /\ \A i \in DOMAIN list : list[i][1] \in Cyclic => OnBeat(list[i][1], list[i][2])
  /\ run \in Cyclic => OnBeat(run, due)

(* Every cyclic timer runs again and again, whatever messages arrive and     *)
(* whatever the application does.                                            *)
TimersRun == \A h \in Cyclic : []<>(run = h)

=============================================================================
