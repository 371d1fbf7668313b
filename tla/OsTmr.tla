-------------------------------- MODULE OsTmr --------------------------------
(***************************************************************************)
(* The software timers of uC/OS-III (os_tmr.c).  Running timers are in a   *)
(* delta list, each with the ticks between its end and that of the timer   *)
(* before it, the first one's counted from OSTmrTaskTickBase.  Everything  *)
(* is done under OSTmrMutex; the timer task gives it up and sleeps on the  *)
(* condition OSTmrCond until the first timer is due, or until somebody     *)
(* changes the head of the list and signals it.                            *)
(*                                                                         *)
(* OSTmrMutex makes the bodies of the calls atomic, so a call is taken in  *)
(* the steps between which ticks are counted or the mutex changes hands:   *)
(* the tests before OS_TmrLock, the reading of OSTickCtr, the body.  Here  *)
(* OSTmrToTicksMult is 1 (os_cfg_app.h) and there are no dynamic ticks.    *)
(***************************************************************************)
EXTENDS Integers, SequencesExt

CONSTANTS
  Timer, NoTimer,
  Wrap,       \* OSTickCtr is counted modulo Wrap
  Periodic,   \* timers created with OS_OPT_TMR_PERIODIC
  Dly,        \* the delay each timer is created with
  Period,     \* and its period
  SetTo,      \* <<t, d, p>>: OSTmrSet gives t the delay d and the period p
  Calls,      \* <<op, t>>: calls of the application
  Callback,   \* those calls that callbacks make as well
  LateMax     \* bound: how late a timer may become

Op == {"create", "start", "stop", "stopCallback", "del", "set"}

ASSUME TmrAssumption ==
  /\ NoTimer \notin Timer
  /\ Wrap \in Nat \ {0} /\ LateMax \in Nat
  /\ Periodic \subseteq Timer
  /\ Dly \in [Timer -> 0 .. Wrap - 1] /\ Period \in [Timer -> 0 .. Wrap - 1]
  /\ SetTo \subseteq Timer \X (0 .. Wrap - 1) \X (0 .. Wrap - 1)
  /\ \A t \in Timer : IF t \in Periodic THEN Period[t] > 0 ELSE Dly[t] > 0
  /\ \A x \in SetTo : IF x[1] \in Periodic THEN x[3] > 0 ELSE x[2] > 0
  /\ Calls \subseteq Op \X Timer /\ Callback \subseteq Calls
  /\ \A c \in Calls : c[1] = "set" => \E x \in SetTo : x[1] = c[2]

VARIABLES
  m,      \* the timers' data
  task,   \* OS_TmrTask: "start": it has not run yet; "loop", "fire": it has the
          \* mutex; "wait", "ready"
  alarm,  \* ticks until OSTmrCond times out, 0: it does not
  call,   \* what the calling task is about
  tick,   \* OSTickCtr
  left,   \* history: ticks until the time that each timer was started for
  lag,    \* history: ticks since the timer task last read OSTickCtr; before it
          \* ran, since somebody was about to start the first timer
  begun   \* history: the timer task has woken once

vars == <<m, task, alarm, call, tick, left, lag, begun>>

(* list: OSTmrListPtr and NextPtr; base: OSTmrTaskTickBase; remain, state,    *)
(* dly and period: the members of the OS_TMRs; signal: OS_TmrCondSignal was   *)
(* called; drift: OS_TmrUnlink went back in time, while such timers run.      *)
Timers == [
  list : Seq(Timer), base : 0 .. Wrap - 1, remain : [Timer -> 0 .. Wrap - 1],
  state : [Timer -> {"unused", "stopped", "running", "timeout", "completed"}],
  dly : [Timer -> 0 .. Wrap - 1], period : [Timer -> 0 .. Wrap - 1],
  signal : BOOLEAN, drift : BOOLEAN]

NoCall == [pc |-> "idle", op |-> "start", t |-> NoTimer, time |-> 0]

Since(time, base) == (time - base) % Wrap

-----------------------------------------------------------------------------
(* The delta list. *)

(* Ticks from the time base to the end of the i-th timer.                     *)
Until(s, i) == FoldLeft(LAMBDA n, t : n + s.remain[t], 0, SubSeq(s.list, 1, i))

(* Takes elapsed ticks from the head on; timers that are overdue get 0.       *)
Age(s, elapsed) ==
  LET Then(i) == Max({0, Until(s, i) - elapsed})
      Aged(t) == LET i == CHOOSE j \in DOMAIN s.list : s.list[j] = t
                 IN  Then(i) - Then(i - 1)
  IN  [s EXCEPT !.remain = [t \in Timer |->
         IF t \in ToSet(s.list) THEN Aged(t) ELSE s.remain[t]]]

(* Mutant: the next timer keeps its ticks. *)
LinkAtKeep(s, t, i, delta) ==
  [s EXCEPT !.list = InsertAt(@, i, t), !.remain[t] = delta - Until(s, i - 1)]

LinkAt(s, t, i, delta) ==
  LET d == delta - Until(s, i - 1)
      r == [s.remain EXCEPT ![t] = d]
  IN  [s EXCEPT !.list = InsertAt(@, i, t),
                !.remain = IF i > Len(s.list) THEN r
                           ELSE [r EXCEPT ![s.list[i]] = @ - d]]

(* Mutant: a new head does not wake the timer task. *)
LinkQuiet(s, t, time) ==
  LET delta == (time + s.remain[t] - s.base) % Wrap
      i == Min({j \in 1 .. Len(s.list) + 1 :
                  j > Len(s.list) \/ delta < Until(s, j)})
      first == [s EXCEPT !.base = time, !.list = <<t>> \o @]
  IN  CASE s.list = <<>> -> [first EXCEPT !.signal = TRUE]
        [] s.list # <<>> /\ i = 1 -> [first EXCEPT !.remain[s.list[1]] = @ - delta]
        [] OTHER -> LinkAt(s, t, i, delta)

(* OS_TmrLink: before the first timer that ends later.                        *)
Link(s, t, time) ==
  LET delta == (time + s.remain[t] - s.base) % Wrap
      i == Min({j \in 1 .. Len(s.list) + 1 :
                  j > Len(s.list) \/ delta < Until(s, j)})
      first == [s EXCEPT !.base = time, !.list = <<t>> \o @, !.signal = TRUE]
  IN  CASE s.list = <<>> -> first
        [] s.list # <<>> /\ i = 1 -> [first EXCEPT !.remain[s.list[1]] = @ - delta]
        [] OTHER -> LinkAt(s, t, i, delta)

Without(s, t) ==
  LET i == CHOOSE j \in DOMAIN s.list : s.list[j] = t
  IN  [s EXCEPT !.list = RemoveAt(@, i),
                !.remain = IF i = Len(s.list) THEN s.remain
                           ELSE [s.remain EXCEPT ![s.list[i + 1]] = @ + s.remain[t]]]

(* OS_TmrUnlink.  When the head leaves, the time since base is taken off the  *)
(* list.  But when the new head then has as many ticks as the old one had,    *)
(* base stays where it was.                                                   *)
Unlink(s, t, time) ==
  LET head == s.list[1] = t
      elapsed == Since(time, s.base)
      w == IF head THEN Age(Without(s, t), elapsed) ELSE Without(s, t)
      reload == \/ w.list = <<>>
                \/ w.remain[w.list[1]] # s.remain[t]
                \/ w.remain[w.list[1]] = 0
      moved == IF head /\ reload THEN [w EXCEPT !.base = time, !.signal = TRUE]
               ELSE [w EXCEPT !.drift = @ \/ (head /\ elapsed > 0)]
  IN  [moved EXCEPT !.remain[t] = 0, !.drift = @ /\ w.list # <<>>]

Linked(s, t) == s.state[t] \in {"running", "timeout"}

-----------------------------------------------------------------------------
(* The bodies of the calls, at the time they have read. *)

First(s, t) == IF s.dly[t] = 0 THEN s.period[t] ELSE s.dly[t]

Start(s, t, time) ==
  LET u == IF Linked(s, t) THEN Unlink(s, t, time) ELSE s
  IN  IF s.state[t] = "unused" THEN s
      ELSE Link([u EXCEPT !.state[t] = "running", !.remain[t] = First(s, t)], t, time)

Stop(s, t, time) ==
  LET u == IF Linked(s, t) THEN Unlink(s, t, time) ELSE s
  IN  IF s.state[t] = "unused" THEN s ELSE [u EXCEPT !.state[t] = "stopped"]

Del(s, t, time) ==
  LET u == IF Linked(s, t) THEN Unlink(s, t, time) ELSE s
  IN  [u EXCEPT !.state[t] = "unused", !.dly[t] = 0, !.period[t] = 0]

(* A timer that exists is only said to be stopped; the application creates it *)
(* again when it does not run.                                                *)
Create(s, t) ==
  IF s.state[t] # "unused" THEN [s EXCEPT !.state[t] = "stopped"]
  ELSE [s EXCEPT !.state[t] = "stopped", !.remain[t] = 0,
                 !.dly[t] = Dly[t], !.period[t] = Period[t]]

SetTmr(s, t) ==
  LET x == CHOOSE y \in SetTo : y[1] = t
  IN  [s EXCEPT !.dly[t] = x[2], !.period[t] = x[3]]

Body(s, op, t, time) ==
  CASE op = "create" -> Create(s, t)
    [] op = "start" -> Start(s, t, time)
    [] op \in {"stop", "stopCallback"} -> Stop(s, t, time)
    [] op = "del" -> Del(s, t, time)
    [] op = "set" -> SetTmr(s, t)

(* What the call promises: the timer ends so many ticks after it.             *)
LeftAfter(s, op, t, time) ==
  CASE op = "start" /\ s.state[t] # "unused" ->
         [left EXCEPT ![t] = First(s, t) - Since(tick, time)]
    [] op \in {"stop", "stopCallback", "del"} -> [left EXCEPT ![t] = 0]
    [] OTHER -> left
-----------------------------------------------------------------------------
(* Calls of the application. *)

Free == call.pc # "locked" /\ task \in {"start", "wait", "ready"}

(* A body has been done: its signal wakes the timer task.                     *)
Done(r) ==
  /\ m' = [r EXCEPT !.signal = FALSE]
  /\ IF r.signal /\ task = "wait" THEN task' = "ready" /\ alarm' = 0
     ELSE UNCHANGED <<task, alarm>>

(* The tests before OS_TmrLock, Type above all.                               *)
Call(op, t) ==
  /\ call.pc = "idle"
  /\ op # "create" => m.state[t] # "unused"
  /\ op = "create" => ~Linked(m, t)
  /\ call' = [pc |-> "want", op |-> op, t |-> t, time |-> 0]
  /\ UNCHANGED <<m, task, alarm, tick, left, lag, begun>>

Lock ==
  /\ call.pc = "want" /\ Free
  /\ call' = [call EXCEPT !.pc = "locked", !.time = tick]
  /\ UNCHANGED <<m, task, alarm, tick, left, lag, begun>>

(* The body and OS_TmrUnlock; OSTmrStop may call the callback before, which   *)
(* makes calls of its own.                                                    *)
Do ==
  LET op == call.op  t == call.t IN
  /\ call.pc = "locked"
  /\ Done(Body(m, op, t, call.time))
  /\ left' = LeftAfter(m, op, t, call.time)
  /\ \/ call' = NoCall
     \/ /\ op = "stopCallback" /\ Linked(m, t)
        /\ \E c \in Callback :
             /\ m'.state[c[2]] # "unused"
             /\ call' = [pc |-> "locked", op |-> c[1], t |-> c[2], time |-> tick]
  /\ UNCHANGED <<tick, lag, begun>>

-----------------------------------------------------------------------------
(* The timer task. *)

(* It runs for the first time and takes the mutex.  OSTickCtr is not read.    *)
Begin ==
  /\ task = "start" /\ Free /\ task' = "loop"
  /\ UNCHANGED <<m, alarm, call, tick, left, lag, begun>>

(* OS_TmrCondWait, up to OSSched.                                             *)
CondWait ==
  /\ task = "loop" /\ task' = "wait"
  /\ alarm' = IF m.list = <<>> THEN 0 ELSE m.remain[Head(m.list)]
  /\ UNCHANGED <<m, call, tick, left, lag, begun>>

(* It gets the mutex back, reads OSTickCtr and takes the time off the list.   *)
Wake ==
  /\ task = "ready" /\ Free
  /\ lag' = 0 /\ begun' = TRUE
  /\ IF m.list = <<>> THEN task' = "loop" /\ UNCHANGED m
     ELSE /\ task' = "fire"
          /\ m' = [Age(m, Since(tick, m.base)) EXCEPT !.base = tick]
  /\ UNCHANGED <<alarm, call, tick, left>>

Due(t) == m.list # <<>> /\ Head(m.list) = t /\ m.remain[t] = 0

Reload(s, t) ==
  LET u == Unlink(s, t, s.base)
  IN  IF t \in Periodic
      THEN Link([u EXCEPT !.state[t] = "running", !.remain[t] = s.period[t]],
                t, s.base)
      ELSE [u EXCEPT !.state[t] = "completed"]

(* The first timer has ended: its callback, which may make one call, and what *)
(* becomes of it if it was left alone.                                        *)
Fire(t) ==
  LET s == [m EXCEPT !.state[t] = "timeout"]
      After(r, lf) ==
        IF r.state[t] # "timeout" THEN Done(r) /\ left' = lf
        ELSE /\ Done(Reload(r, t))
             /\ left' = [lf EXCEPT ![t] = IF t \in Periodic
                            THEN r.period[t] - Since(tick, r.base) ELSE 0]
  IN
  /\ task = "fire" /\ Due(t)
  /\ \/ After(s, left)
     \/ \E c \in Callback :
          /\ s.state[c[2]] # "unused"
          /\ After(Body(s, c[1], c[2], s.base), LeftAfter(s, c[1], c[2], s.base))
  /\ UNCHANGED <<call, tick, lag, begun>>

FireEnd ==
  /\ task = "fire" /\ \A t \in Timer : ~Due(t)
  /\ task' = "loop"
  /\ UNCHANGED <<m, alarm, call, tick, left, lag, begun>>

-----------------------------------------------------------------------------
(* The time since it read OSTickCtr counts for a task that has something to   *)
(* wait for, and before it has run, for one that is about to have it.         *)
Counts ==
  /\ task \in {"start", "fire", "loop"}
  /\ m.list # <<>> \/ (task = "start" /\ call.pc = "locked")

(* The tick interrupt, within the bounds on how late things are; Wrap is 2^32 *)
(* in the code, and no timer is linked for half of that.                      *)
Tick ==
  /\ \A t \in Timer : Linked(m, t) => left[t] > -LateMax
  /\ call.pc = "locked" => Since(tick, call.time) < LateMax
  /\ task \in {"fire", "loop"} \/ Counts => lag < LateMax
  /\ m.list # <<>> => Since(tick, m.base) < Wrap \div 2
  /\ tick' = (tick + 1) % Wrap
  /\ left' = [t \in Timer |-> IF Linked(m, t) THEN left[t] - 1 ELSE left[t]]
  /\ lag' = IF Counts THEN lag + 1 ELSE lag
  /\ IF task = "wait" /\ alarm > 0
     THEN alarm' = alarm - 1 /\ task' = IF alarm = 1 THEN "ready" ELSE "wait"
     ELSE UNCHANGED <<alarm, task>>
  /\ UNCHANGED <<m, call, begun>>

Init ==
  /\ m = [list |-> <<>>, base |-> 0, remain |-> [t \in Timer |-> 0],
          state |-> [t \in Timer |-> "stopped"], dly |-> Dly, period |-> Period,
          signal |-> FALSE, drift |-> FALSE]
  /\ task = "start" /\ alarm = 0 /\ call = NoCall /\ lag = 0 /\ begun = FALSE
  /\ tick \in 0 .. Wrap - 1 /\ left = [t \in Timer |-> 0]

Next ==
  \/ \E c \in Calls : Call(c[1], c[2])
  \/ Lock \/ Do
  \/ Begin \/ CondWait \/ Wake \/ FireEnd \/ \E t \in Timer : Fire(t)
  \/ Tick

Spec == Init /\ [][Next]_vars

-----------------------------------------------------------------------------
(* Correctness. *)

TypeOK ==
  /\ m \in Timers /\ task \in {"start", "loop", "fire", "wait", "ready"}
  /\ alarm \in 0 .. Wrap - 1 /\ tick \in 0 .. Wrap - 1
  /\ call \in [pc : {"idle", "want", "locked"}, op : Op,
                t : Timer \cup {NoTimer}, time : 0 .. Wrap - 1]
  /\ left \in [Timer -> -2 * LateMax .. Wrap - 1] /\ lag \in Nat
  /\ begun \in BOOLEAN

(* No delay is half a turn of OSTickCtr, and nothing is as late as that.      *)
WithinHalfTurn ==
  /\ \A t \in Timer : 2 * Dly[t] < Wrap /\ 2 * Period[t] < Wrap
  /\ \A x \in SetTo : 2 * x[2] < Wrap /\ 2 * x[3] < Wrap
  /\ 2 * LateMax <= Wrap

(* Nobody creates a timer that runs: OSTmrCreate would set the state of a     *)
(* timer that stays in the list (os_tmr.c:167).                               *)
CreatedAtRest ==
  \A c \in Callback :
    c[1] # "create" /\ (c[1] = "start" => <<"create", c[2]>> \notin Calls)

(* The list has the running timers, each once, and the end of every one of    *)
(* them, counted from OSTmrTaskTickBase, is the one it was started for,       *)
(* whatever was linked and unlinked before it, and whether or not OSTickCtr   *)
(* has wrapped; but not after OS_TmrUnlink has left base behind.              *)
ListExact ==
  /\ TypeOK
  /\ ToSet(m.list) = {t \in Timer : Linked(m, t)}
  /\ Len(m.list) = Cardinality(ToSet(m.list))
  /\ ~m.drift => \A i \in DOMAIN m.list :
       Until(m, i) = Max({0, left[m.list[i]] + Since(tick, m.base)})

(* The timer task does not sleep past the end of a timer, except for the time *)
(* it worked since it last read OSTickCtr (OS_TmrCondWait is given the ticks  *)
(* from then; before it runs for the first time it has never read it), and it *)
(* sleeps for ever only while no timer runs.  Its first sleep may be for ever *)
(* all the same: when timers were stopped before it ran, OS_TmrUnlink may     *)
(* have left the first timer with 0 ticks, and 0 is to OS_TmrCondWait no      *)
(* timeout (os_tmr.c:1378).                                                   *)
NoOversleep ==
  task = "wait" =>
    IF m.list = <<>> THEN alarm = 0
    ELSE \/ alarm > 0 /\ alarm <= left[Head(m.list)] + lag
         \/ ~begun /\ alarm = 0 /\ m.remain[Head(m.list)] = 0

(* os_tmr.c:61, "this is the timeout used": no callback before its time.      *)
NotEarly == \A t \in Timer : task = "fire" /\ Due(t) => left[t] <= 0
=============================================================================
