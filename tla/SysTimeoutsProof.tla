-------------------------- MODULE SysTimeoutsProof --------------------------
(***************************************************************************)
(* Proofs about the timers of lwIP, for any cyclic timers, intervals,      *)
(* width of OSTickCtr and delay of tcpip_thread that TimeoutsAssumption    *)
(* allows.                                                                 *)
(***************************************************************************)
EXTENDS SysTimeouts, FiniteSetTheorems, WellFoundedInduction, TLAPS

-----------------------------------------------------------------------------
(* Times less than half a turn apart. *)

LEMMA Widths ==
  /\ Wrap \in Nat /\ MaxTimeout \in Nat /\ Wrap = MaxTimeout + MaxTimeout + 2 /\ LateMax \in Nat
  /\ Time = 0 .. Wrap - 1 /\ Tcp \in Timer /\ Tcp \notin Cyclic /\ Cyclic \subseteq Timer
  /\ \A h \in Timer : Interval[h] \in Nat /\ Interval[h] > 0
  /\ \A h, k \in Timer : Interval[h] + Interval[k] + LateMax <= MaxTimeout
<1>1. Tcp \in Timer /\ Interval[Tcp] \in Nat \ {0}
  BY TimeoutsAssumption DEF Timer
<1>2. Interval[Tcp] + Interval[Tcp] + LateMax <= MaxTimeout /\ LateMax \in Nat
  BY <1>1, TimeoutsAssumption
<1>3. Wrap \in Nat /\ Wrap % 2 = 0 /\ MaxTimeout = Wrap \div 2 - 1
  BY TimeoutsAssumption DEF MaxTimeout
<1>4. MaxTimeout \in Int /\ Wrap = MaxTimeout + MaxTimeout + 2
  BY <1>3
<1>5. MaxTimeout \in Nat
  BY <1>1, <1>2, <1>4
<1> QED BY <1>1, <1>3, <1>4, <1>5, TimeoutsAssumption DEF Timer, Time

LEMMA ModIs ==
  ASSUME NEW x \in Int, 0 <= x + Wrap, x < Wrap + Wrap
  PROVE  x % Wrap = IF x < 0 THEN x + Wrap ELSE IF x < Wrap THEN x ELSE x - Wrap
<1>1. Wrap \in Nat /\ Wrap > 0
  BY Widths
<1>2. CASE x < 0
  <2>1. x % Wrap = x + Wrap
    BY <1>1, <1>2
  <2> QED BY <1>2, <2>1
<1>3. CASE 0 <= x /\ x < Wrap
  BY <1>1, <1>3
<1>4. CASE Wrap <= x
  <2>1. x % Wrap = x - Wrap
    BY <1>1, <1>4
  <2> QED BY <1>1, <1>4, <2>1
<1> QED BY <1>1, <1>2, <1>3, <1>4

LEMMA DiffIs ==
  ASSUME NEW a \in Int, NEW b \in Time, 0 <= a, a < Wrap + Wrap
  PROVE  LET x == a - b
         IN  Diff(a, b) = IF x < -(MaxTimeout + 1) THEN x + Wrap
                          ELSE IF x <= MaxTimeout THEN x
                          ELSE IF x <= Wrap + MaxTimeout THEN x - Wrap ELSE x - Wrap - Wrap
<1> DEFINE x == a - b
<1>1. x \in Int /\ 0 <= x + Wrap /\ x < Wrap + Wrap /\ Wrap \in Nat /\ MaxTimeout \in Nat
      /\ Wrap = MaxTimeout + MaxTimeout + 2
  BY Widths
<1> HIDE DEF x
<1>2. x % Wrap = IF x < 0 THEN x + Wrap ELSE IF x < Wrap THEN x ELSE x - Wrap
  BY <1>1, ModIs
<1>3. Diff(a, b) = IF x % Wrap > MaxTimeout THEN (x % Wrap) - Wrap ELSE x % Wrap
  BY DEF Diff, x
<1>4. Diff(a, b) = IF x < -(MaxTimeout + 1) THEN x + Wrap
                   ELSE IF x <= MaxTimeout THEN x
                   ELSE IF x <= Wrap + MaxTimeout THEN x - Wrap ELSE x - Wrap - Wrap
  BY <1>1, <1>2, <1>3
<1> QED BY <1>4 DEF x

(* Differences add up as long as they stay below half a turn. *)
LEMMA DiffFacts ==
  ASSUME NEW a \in Time, NEW b \in Time
  PROVE  /\ Diff(a, b) \in -(MaxTimeout + 1) .. MaxTimeout
         /\ Diff(a, a) = 0
         /\ Diff(a, b) # -(MaxTimeout + 1) => Diff(b, a) = -Diff(a, b)
         /\ Less(a, b) <=> Diff(a, b) < 0
         /\ Diff(a, b) = 0 => a = b
<1>1. /\ Wrap \in Nat /\ MaxTimeout \in Nat /\ Wrap = MaxTimeout + MaxTimeout + 2
      /\ a \in 0 .. Wrap - 1 /\ b \in 0 .. Wrap - 1
  BY Widths
<1>2. Diff(a, b) = LET x == a - b IN IF x < -(MaxTimeout + 1) THEN x + Wrap
                   ELSE IF x <= MaxTimeout THEN x
                   ELSE IF x <= Wrap + MaxTimeout THEN x - Wrap ELSE x - Wrap - Wrap
  BY <1>1, DiffIs
<1>3. Diff(b, a) = LET x == b - a IN IF x < -(MaxTimeout + 1) THEN x + Wrap
                   ELSE IF x <= MaxTimeout THEN x
                   ELSE IF x <= Wrap + MaxTimeout THEN x - Wrap ELSE x - Wrap - Wrap
  BY <1>1, DiffIs
<1>4. Diff(a, a) = LET x == a - a IN IF x < -(MaxTimeout + 1) THEN x + Wrap
                   ELSE IF x <= MaxTimeout THEN x
                   ELSE IF x <= Wrap + MaxTimeout THEN x - Wrap ELSE x - Wrap - Wrap
  BY <1>1, DiffIs
<1>5. Less(a, b) <=> Diff(a, b) < 0
  <2>1. PICK x \in Int : x = a - b /\ 0 <= x + Wrap /\ x < Wrap + Wrap
    BY <1>1
  <2>2. x % Wrap = IF x < 0 THEN x + Wrap ELSE IF x < Wrap THEN x ELSE x - Wrap
    BY <2>1, ModIs
  <2>3. Less(a, b) <=> x % Wrap > MaxTimeout
    BY <2>1 DEF Less
  <2> QED BY <1>1, <1>2, <2>1, <2>2, <2>3
<1> QED BY <1>1, <1>2, <1>3, <1>4, <1>5

LEMMA DiffAdds ==
  ASSUME NEW a \in Time, NEW b \in Time, NEW c \in Time,
         Diff(a, b) + Diff(b, c) \in -(MaxTimeout + 1) .. MaxTimeout
  PROVE  Diff(a, c) = Diff(a, b) + Diff(b, c)
<1>1. /\ Wrap \in Nat /\ MaxTimeout \in Nat /\ Wrap = MaxTimeout + MaxTimeout + 2
      /\ a \in 0 .. Wrap - 1 /\ b \in 0 .. Wrap - 1 /\ c \in 0 .. Wrap - 1
  BY Widths
<1>2. Diff(a, b) = LET x == a - b IN IF x < -(MaxTimeout + 1) THEN x + Wrap
                   ELSE IF x <= MaxTimeout THEN x
                   ELSE IF x <= Wrap + MaxTimeout THEN x - Wrap ELSE x - Wrap - Wrap
  BY <1>1, DiffIs
<1>3. Diff(b, c) = LET x == b - c IN IF x < -(MaxTimeout + 1) THEN x + Wrap
                   ELSE IF x <= MaxTimeout THEN x
                   ELSE IF x <= Wrap + MaxTimeout THEN x - Wrap ELSE x - Wrap - Wrap
  BY <1>1, DiffIs
<1>4. Diff(a, c) = LET x == a - c IN IF x < -(MaxTimeout + 1) THEN x + Wrap
                   ELSE IF x <= MaxTimeout THEN x
                   ELSE IF x <= Wrap + MaxTimeout THEN x - Wrap ELSE x - Wrap - Wrap
  BY <1>1, DiffIs
<1> QED BY <1>1, <1>2, <1>3, <1>4

(* A time some ticks ahead. *)
LEMMA Ahead ==
  ASSUME NEW t \in Time, NEW n \in 0 .. MaxTimeout
  PROVE  /\ (t + n) % Wrap \in Time
         /\ Diff((t + n) % Wrap, t) = n /\ Diff(t, (t + n) % Wrap) = -n
         /\ \A u \in Time : Diff(t + n, u) = Diff((t + n) % Wrap, u)
<1>1. /\ Wrap \in Nat /\ MaxTimeout \in Nat /\ Wrap = MaxTimeout + MaxTimeout + 2
      /\ t \in 0 .. Wrap - 1
  BY Widths
<1>2. PICK s \in Int : s = t + n /\ 0 <= s /\ 0 <= s + Wrap /\ s < Wrap + Wrap
  BY <1>1
<1>3. s % Wrap = IF s < 0 THEN s + Wrap ELSE IF s < Wrap THEN s ELSE s - Wrap
  BY <1>2, ModIs
<1>4. PICK a \in Time : a = s % Wrap
  BY <1>1, <1>2, <1>3, Widths
<1>5. a = IF s < Wrap THEN s ELSE s - Wrap
  BY <1>1, <1>2, <1>3, <1>4
<1>6. Diff(a, t) = LET x == a - t IN IF x < -(MaxTimeout + 1) THEN x + Wrap
                   ELSE IF x <= MaxTimeout THEN x
                   ELSE IF x <= Wrap + MaxTimeout THEN x - Wrap ELSE x - Wrap - Wrap
  BY <1>1, <1>4, <1>5, <1>2, DiffIs
<1>7. Diff(a, t) = n /\ Diff(t, a) = -n
  <2>1. Diff(a, t) = n
    BY <1>1, <1>2, <1>5, <1>6
  <2> QED BY <1>1, <2>1, DiffFacts
<1>8. ASSUME NEW u \in Time PROVE Diff(s, u) = Diff(a, u)
  <2>1. u \in 0 .. Wrap - 1
    BY <1>8, Widths
  <2>2. Diff(a, u) = LET x == a - u IN IF x < -(MaxTimeout + 1) THEN x + Wrap
                   ELSE IF x <= MaxTimeout THEN x
                   ELSE IF x <= Wrap + MaxTimeout THEN x - Wrap ELSE x - Wrap - Wrap
    <3>1. a \in Int /\ 0 <= a /\ a < Wrap + Wrap
      BY <1>1, <1>4, Widths
    <3> QED BY <3>1, DiffIs
  <2>3. Diff(s, u) = LET x == s - u IN IF x < -(MaxTimeout + 1) THEN x + Wrap
                   ELSE IF x <= MaxTimeout THEN x
                   ELSE IF x <= Wrap + MaxTimeout THEN x - Wrap ELSE x - Wrap - Wrap
    BY <1>1, <1>2, DiffIs
  <2> QED BY <1>1, <1>2, <1>5, <2>1, <2>2, <2>3
<1> QED BY <1>2, <1>4, <1>7, <1>8

-----------------------------------------------------------------------------
(* The list. *)

LEMMA NatMin ==
  ASSUME NEW S, S \subseteq Nat, S # {}
  PROVE  \E m \in S : \A n \in S : m <= n
<1> DEFINE R == {ss \in Nat \X Nat : ss[1] < ss[2]}
<1>1. IsWellFoundedOn(R, Nat)
  BY NatLessThanWellFounded DEF OpToRel
<1>2. PICK m \in S : \A n \in S : ~(<<n, m>> \in R)
  BY <1>1, WFMin
<1>3. ASSUME NEW n \in S PROVE m <= n
  <2>1. m \in Nat /\ n \in Nat
    OBVIOUS
  <2>2. ~(n < m)
    BY <1>2, <2>1
  <2> QED BY <2>1, <2>2
<1> QED BY <1>3

Timeouts == Seq(Timer \X Time)

(* What InsertAt gives. *)
IsInserted(r, q, k, e) ==
  /\ r \in Timeouts /\ Len(r) = Len(q) + 1
  /\ r[k] = e
  /\ \A i \in 1 .. Len(q) : IF i < k THEN r[i] = q[i] ELSE r[i + 1] = q[i]

LEMMA Inserted ==
  ASSUME NEW q \in Timeouts, NEW e \in Timer \X Time, NEW k \in 1 .. Len(q) + 1
  PROVE  IsInserted(InsertAt(q, k, e), q, k, e)
<1> DEFINE a == SubSeq(q, 1, k - 1)
           b == SubSeq(q, k, Len(q))
           r == (a \o <<e>>) \o b
<1>1. q \in Seq(Timer \X Time) /\ Len(q) \in Nat /\ k \in Int /\ 1 <= k /\ k <= Len(q) + 1
  BY DEF Timeouts
<1>2. a \in Timeouts /\ Len(a) = k - 1 /\ \A i \in 1 .. k - 1 : a[i] = q[i]
  BY <1>1 DEF Timeouts
<1>3. b \in Timeouts /\ Len(b) = Len(q) - k + 1 /\ \A i \in 1 .. Len(q) - k + 1 : b[i] = q[k + i - 1]
  BY <1>1 DEF Timeouts
<1>4. InsertAt(q, k, e) = r
  BY DEF InsertAt
<1> HIDE DEF a, b
<1>5. r \in Timeouts /\ Len(r) = Len(q) + 1
  BY <1>1, <1>2, <1>3 DEF Timeouts
<1>6. r[k] = e
  BY <1>1, <1>2, <1>3 DEF Timeouts
<1>7. ASSUME NEW i \in 1 .. Len(q), i < k PROVE r[i] = q[i]
  <2>1. i \in 1 .. k - 1
    BY <1>1, <1>7
  <2>2. r[i] = a[i]
    BY <1>1, <1>2, <1>3, <2>1 DEF Timeouts
  <2> QED BY <1>2, <2>1, <2>2
<1>8. ASSUME NEW i \in 1 .. Len(q), ~(i < k) PROVE r[i + 1] = q[i]
  <2>1. PICK j \in 1 .. Len(q) - k + 1 : j = i - k + 1
    BY <1>1, <1>8
  <2>2. r[i + 1] = b[j]
    BY <1>1, <1>2, <1>3, <1>8, <2>1 DEF Timeouts
  <2>3. b[j] = q[k + j - 1] /\ k + j - 1 = i
    BY <1>1, <1>3, <2>1
  <2> QED BY <2>2, <2>3
<1> HIDE DEF r
<1> QED BY <1>4, <1>5, <1>6, <1>7, <1>8 DEF IsInserted

(* sys_timeout_abs, as long as the pool lasts: behind all that end no later   *)
(* and before the first one that does.                                        *)
LEMMA QueuedIs ==
  ASSUME NEW q \in Timeouts, Len(q) # Pool, NEW h \in Timer, NEW time \in Time
  PROVE  \E k \in 1 .. Len(q) + 1 :
           /\ IsInserted(Queued(q, h, time), q, k, <<h, time>>)
           /\ \A i \in 1 .. Len(q) : i < k => ~Less(time, q[i][2])
           /\ k # Len(q) + 1 => Less(time, q[k][2])
<1> DEFINE later == {i \in DOMAIN q : Less(time, q[i][2])}
           S == later \cup {Len(q) + 1}
<1>1. q \in Seq(Timer \X Time) /\ Len(q) \in Nat /\ DOMAIN q = 1 .. Len(q)
  BY DEF Timeouts
<1>2. S \subseteq Nat /\ S # {} /\ \A i \in S : i \in 1 .. Len(q) + 1
  BY <1>1
<1>3. Min(S) \in S /\ \A i \in S : Min(S) <= i
  <2> HIDE DEF S
  <2>1. \E m \in S : \A n \in S : m <= n
    BY <1>2, NatMin
  <2> QED BY <2>1 DEF Min
<1>4. PICK k \in 1 .. Len(q) + 1 : k = Min(S)
  BY <1>2, <1>3
<1>5. Queued(q, h, time) = InsertAt(q, k, <<h, time>>)
  BY <1>4 DEF Queued
<1>6. <<h, time>> \in Timer \X Time
  OBVIOUS
<1>7. IsInserted(Queued(q, h, time), q, k, <<h, time>>)
  BY <1>5, <1>6, Inserted
<1>8. ASSUME NEW i \in 1 .. Len(q), i < k PROVE ~Less(time, q[i][2])
  <2>1. ~(k <= i)
    BY <1>8
  <2>2. i \notin S
    <3> HIDE DEF S
    <3> QED BY <1>3, <1>4, <2>1
  <2> QED BY <1>1, <2>2
<1>9. k # Len(q) + 1 => Less(time, q[k][2])
  BY <1>3, <1>4
<1> QED BY <1>7, <1>8, <1>9

In(q) == {q[i] : i \in 1 .. Len(q)}
Timers(q) == {e[1] : e \in In(q)}
Distinct(q) == \A i, j \in 1 .. Len(q) : q[i][1] = q[j][1] => i = j
Sorted(q, t) == \A i, j \in 1 .. Len(q) : i < j => Diff(t, q[j][2]) <= Diff(t, q[i][2])

(* Not late by more than an interval or LateMax, nor further away than an     *)
(* interval.                                                                  *)
Near(e, t) ==
  LET d == Diff(t, e[2])
  IN  -Interval[e[1]] <= d /\ (d <= LateMax \/ \E h \in Timer : d <= Interval[h])

LEMMA NearFacts ==
  ASSUME NEW t \in Time, NEW e \in Timer \X Time, NEW f \in Timer \X Time,
         Near(e, t), Near(f, t)
  PROVE  Diff(e[2], f[2]) = Diff(t, f[2]) - Diff(t, e[2])
<1>1. /\ e[2] \in Time /\ f[2] \in Time /\ e[1] \in Timer /\ f[1] \in Timer
      /\ Interval[e[1]] \in Nat /\ Interval[f[1]] \in Nat /\ LateMax \in Nat /\ MaxTimeout \in Nat
  BY Widths
<1>2. PICK d : d = Diff(t, e[2])
  OBVIOUS
<1>3. PICK g : g = Diff(t, f[2])
  OBVIOUS
<1>4. d \in Int /\ g \in Int /\ -Interval[e[1]] <= d /\ -Interval[f[1]] <= g
  BY <1>1, <1>2, <1>3, DiffFacts DEF Near
<1>5. ASSUME NEW x \in Timer, NEW n \in Int, n <= LateMax \/ \E h \in Timer : n <= Interval[h]
      PROVE  n + Interval[x] <= MaxTimeout
  <2>1. Interval[x] \in Nat /\ LateMax \in Nat /\ MaxTimeout \in Nat /\ Interval[x] + Interval[x] + LateMax <= MaxTimeout
    BY Widths
  <2>2. ASSUME NEW h \in Timer, n <= Interval[h] PROVE n + Interval[x] <= MaxTimeout
    <3>1. Interval[h] \in Nat /\ Interval[h] + Interval[x] + LateMax <= MaxTimeout
      BY Widths
    <3> QED BY <2>1, <2>2, <3>1
  <2> QED BY <1>5, <2>1, <2>2
<1>6. d + Interval[f[1]] <= MaxTimeout /\ g + Interval[e[1]] <= MaxTimeout /\ d + Interval[e[1]] <= MaxTimeout
  BY <1>1, <1>2, <1>3, <1>4, <1>5 DEF Near
<1>7. Diff(e[2], t) = -d
  <2>1. d # -(MaxTimeout + 1)
    <3>1. Interval[e[1]] + Interval[e[1]] + LateMax <= MaxTimeout
      BY <1>1, Widths
    <3> QED BY <1>1, <1>4, <3>1
  <2> QED BY <1>1, <1>2, <2>1, DiffFacts
<1>8. -d + g \in -(MaxTimeout + 1) .. MaxTimeout
  BY <1>1, <1>4, <1>6
<1> QED BY <1>1, <1>2, <1>3, <1>4, <1>7, <1>8, DiffAdds

(* A list of different timers is not longer than there are timers. *)
LEMMA Room ==
  ASSUME NEW q \in Timeouts, Distinct(q), NEW h \in Timer, h \notin Timers(q)
  PROVE  Len(q) # Pool
<1> DEFINE S == 1 .. Len(q)
           T == Timer \ {h}
           f == [i \in S |-> q[i][1]]
<1>1. IsFiniteSet(Timer) /\ Cardinality(Timer) <= Pool /\ Pool \in Nat
  BY TimeoutsAssumption, FS_AddElement DEF Timer
<1>2. IsFiniteSet(T) /\ Cardinality(T) = Cardinality(Timer) - 1 /\ Cardinality(Timer) \in Nat
  BY <1>1, FS_RemoveElement, FS_CardinalityType
<1>3. Len(q) \in Nat /\ \A i \in S : q[i] \in Timer \X Time /\ q[i][1] \in T
  BY DEF Timeouts, Timers, In
<1>4. Cardinality(S) = Len(q)
  <2>1. 1 \in Int /\ Len(q) \in Int
    BY <1>3
  <2>2. Cardinality(1 .. Len(q)) = IF 1 > Len(q) THEN 0 ELSE Len(q) - 1 + 1
    BY <2>1, FS_Interval
  <2> QED BY <1>3, <2>2
<1>5. f \in Injection(S, T)
  BY <1>3 DEF Injection, IsInjective, Distinct
<1> HIDE DEF S, T, f
<1>6. Cardinality(S) <= Cardinality(T)
  BY <1>2, <1>5, FS_Injection DEF ExistsInjection
<1> QED BY <1>1, <1>2, <1>3, <1>4, <1>6

(* sys_timeout_abs keeps the list in order and adds the one timeout. *)
LEMMA QueuedKeeps ==
  ASSUME NEW q \in Timeouts, NEW t \in Time, Distinct(q), Sorted(q, t),
         \A e \in In(q) : Near(e, t),
         NEW h \in Timer, h \notin Timers(q), NEW time \in Time, Near(<<h, time>>, t)
  PROVE  LET r == Queued(q, h, time)
         IN  /\ r \in Timeouts /\ Distinct(r) /\ Sorted(r, t) /\ Len(r) = Len(q) + 1
             /\ In(r) = In(q) \cup {<<h, time>>}
             /\ Timers(r) = Timers(q) \cup {h}
<1> DEFINE n == <<h, time>>
           r == Queued(q, h, time)
<1>1. PICK k \in 1 .. Len(q) + 1 :
        /\ IsInserted(r, q, k, n)
        /\ \A i \in 1 .. Len(q) : i < k => ~Less(time, q[i][2])
        /\ k # Len(q) + 1 => Less(time, q[k][2])
  BY Room, QueuedIs
<1>2. /\ Len(q) \in Nat /\ Len(r) = Len(q) + 1 /\ r \in Timeouts /\ r[k] = n /\ n \in Timer \X Time
      /\ \A i \in 1 .. Len(q) : q[i] \in Timer \X Time /\ q[i] \in In(q) /\ q[i][1] \in Timers(q)
  BY <1>1 DEF IsInserted, Timeouts, In, Timers
<1> HIDE DEF r
<1>3. ASSUME NEW j \in 1 .. Len(r), j # k
      PROVE  \E i \in 1 .. Len(q) : /\ r[j] = q[i]
                                    /\ j < k => i = j /\ i < k
                                    /\ k < j => j = i + 1 /\ k <= i
  <2>1. CASE j < k
    <3>1. j \in 1 .. Len(q)
      BY <1>2, <2>1
    <3> QED BY <1>1, <2>1, <3>1 DEF IsInserted
  <2>2. CASE ~(j < k)
    <3>1. PICK i \in 1 .. Len(q) : j = i + 1 /\ k <= i
      <4>1. j - 1 \in 1 .. Len(q) /\ j = (j - 1) + 1 /\ k <= j - 1
        BY <1>2, <1>3, <2>2
      <4> QED BY <4>1
    <3>2. ~(i < k)
      BY <3>1
    <3>3. r[i + 1] = q[i]
      BY <1>1, <3>2 DEF IsInserted
    <3> QED BY <1>2, <2>2, <3>1, <3>3
  <2> QED BY <2>1, <2>2
<1>4. ASSUME NEW i \in 1 .. Len(q) PROVE \E j \in 1 .. Len(r) : r[j] = q[i]
  <2>1. i \in 1 .. Len(r) /\ i + 1 \in 1 .. Len(r)
    BY <1>2
  <2> QED BY <1>1, <2>1 DEF IsInserted
<1>5. In(r) = In(q) \cup {n} /\ Timers(r) = Timers(q) \cup {h}
  <2>1. k \in 1 .. Len(r)
    BY <1>2
  <2>2. ASSUME NEW j \in 1 .. Len(r) PROVE r[j] \in In(q) \cup {n}
    BY <1>2, <1>3
  <2>3. ASSUME NEW e \in In(q) \cup {n} PROVE \E j \in 1 .. Len(r) : r[j] = e
    <3>1. CASE e = n
      BY <1>2, <2>1, <3>1
    <3>2. CASE e \in In(q)
      BY <1>4, <3>2 DEF In
    <3> QED BY <3>1, <3>2
  <2>4. In(r) = In(q) \cup {n}
    <3> HIDE DEF n
    <3>1. In(r) = {r[j] : j \in 1 .. Len(r)}
      BY DEF In
    <3> QED BY <2>2, <2>3, <3>1
  <2> QED BY <2>4 DEF Timers
<1>6. Distinct(r)
  <2> SUFFICES ASSUME NEW i \in 1 .. Len(r), NEW j \in 1 .. Len(r), r[i][1] = r[j][1] PROVE i = j
    BY DEF Distinct
  <2>1. CASE i = k /\ j = k
    BY <2>1
  <2>2. CASE i = k /\ j # k
    BY <1>2, <1>3, <2>2
  <2>3. CASE i # k /\ j = k
    BY <1>2, <1>3, <2>3
  <2>4. CASE i # k /\ j # k
    <3>1. PICK a \in 1 .. Len(q) : r[i] = q[a] /\ (i < k => a = i /\ a < k) /\ (k < i => i = a + 1 /\ k <= a)
      BY <1>3, <2>4
    <3>2. PICK b \in 1 .. Len(q) : r[j] = q[b] /\ (j < k => b = j /\ b < k) /\ (k < j => j = b + 1 /\ k <= b)
      BY <1>3, <2>4
    <3>3. a = b
      BY <3>1, <3>2 DEF Distinct
    <3> QED BY <1>2, <2>4, <3>1, <3>2, <3>3
  <2> QED BY <2>1, <2>2, <2>3, <2>4
<1>7. \A i \in 1 .. Len(q) : /\ Diff(t, q[i][2]) \in Int /\ Diff(t, time) \in Int
                             /\ Less(time, q[i][2]) <=> Diff(t, q[i][2]) < Diff(t, time)
  <2> SUFFICES ASSUME NEW i \in 1 .. Len(q)
               PROVE  /\ Diff(t, q[i][2]) \in Int /\ Diff(t, time) \in Int
                      /\ Less(time, q[i][2]) <=> Diff(t, q[i][2]) < Diff(t, time)
    OBVIOUS
  <2>1. q[i] \in Timer \X Time /\ Near(q[i], t) /\ n \in Timer \X Time /\ Near(n, t) /\ q[i][2] \in Time
    BY <1>2
  <2>2. Diff(n[2], q[i][2]) = Diff(t, q[i][2]) - Diff(t, n[2])
    <3> HIDE DEF n
    <3> QED BY <2>1, NearFacts
  <2>3. Diff(t, q[i][2]) \in Int /\ Diff(t, time) \in Int
    <3>1. ASSUME NEW u \in Time PROVE Diff(t, u) \in Int
      BY Widths, DiffFacts
    <3> QED BY <2>1, <3>1
  <2>4. Less(time, q[i][2]) <=> Diff(time, q[i][2]) < 0
    BY <2>1, DiffFacts
  <2> QED BY <2>2, <2>3, <2>4
<1>8. Sorted(r, t)
  <2> SUFFICES ASSUME NEW i \in 1 .. Len(r), NEW j \in 1 .. Len(r), i < j
               PROVE  Diff(t, r[j][2]) <= Diff(t, r[i][2])
    BY DEF Sorted
  <2>1. CASE i = k
    <3>1. PICK b \in 1 .. Len(q) : r[j] = q[b] /\ k <= b
      BY <1>2, <1>3, <2>1
    <3>2. k \in 1 .. Len(q) /\ k # Len(q) + 1
      BY <1>2, <3>1
    <3>3. Diff(t, q[k][2]) < Diff(t, time)
      BY <1>1, <1>7, <3>2
    <3>4. Diff(t, q[b][2]) <= Diff(t, q[k][2])
      <4>1. CASE k = b
        BY <1>7, <4>1
      <4>2. CASE k < b
        BY <3>2, <4>2 DEF Sorted
      <4> QED BY <3>1, <4>1, <4>2
    <3> QED BY <1>2, <1>7, <2>1, <3>1, <3>2, <3>3, <3>4
  <2>2. CASE j = k
    <3>1. PICK a \in 1 .. Len(q) : r[i] = q[a] /\ a < k
      BY <1>2, <1>3, <2>2
    <3>2. ~(Diff(t, q[a][2]) < Diff(t, time))
      BY <1>1, <1>7, <3>1
    <3> QED BY <1>2, <1>7, <2>2, <3>1, <3>2
  <2>3. CASE i # k /\ j # k
    <3>1. PICK a \in 1 .. Len(q) : r[i] = q[a] /\ (i < k => a = i /\ a < k) /\ (k < i => i = a + 1 /\ k <= a)
      BY <1>3, <2>3
    <3>2. PICK b \in 1 .. Len(q) : r[j] = q[b] /\ (j < k => b = j /\ b < k) /\ (k < j => j = b + 1 /\ k <= b)
      BY <1>3, <2>3
    <3>3. a < b
      BY <1>2, <2>3, <3>1, <3>2
    <3> QED BY <3>1, <3>2, <3>3 DEF Sorted
  <2> QED BY <2>1, <2>2, <2>3
<1> QED BY <1>2, <1>5, <1>6, <1>8 DEF r

-----------------------------------------------------------------------------
(* sys_timeouts_init: the fold over the timers, one after the other. *)

LEMMA Largest == \A m \in Nat \ {0} : Max(1 .. m) = m
<1> SUFFICES ASSUME NEW m \in Nat \ {0} PROVE Max(1 .. m) = m
  OBVIOUS
<1>1. m \in 1 .. m /\ \A y \in 1 .. m : m >= y
  OBVIOUS
<1>2. \A x \in 1 .. m : (\A y \in 1 .. m : x >= y) => x = m
  BY <1>1
<1> QED BY <1>1, <1>2 DEF Max

(* A set of positions has a last one. *)
LEMMA LastOne ==
  ASSUME NEW n \in Nat, NEW s \in SUBSET (1 .. n), s # {}
  PROVE  Max(s) \in s /\ \A i \in s : i <= Max(s)
<1> DEFINE B == {b \in Nat : \A i \in s : i <= b}
<1>1. n \in B /\ B \subseteq Nat
  OBVIOUS
<1>2. PICK b \in B : \A c \in B : b <= c
  <2> HIDE DEF B
  <2> QED BY <1>1, NatMin
<1>3. b \in s
  <2> SUFFICES ASSUME b \notin s PROVE FALSE
    OBVIOUS
  <2>1. \A i \in s : i \in Nat \ {0} /\ i < b
    <3>1. \A i \in s : i \in Nat \ {0} /\ i <= b /\ i # b
      OBVIOUS
    <3> QED BY <3>1
  <2>2. b - 1 \in Nat /\ b \in Nat
    <3>1. PICK i \in s : i \in Nat \ {0} /\ i < b
      BY <2>1
    <3> QED BY <3>1
  <2>3. b - 1 \in B
    BY <2>1, <2>2
  <2> QED BY <1>2, <2>2, <2>3
<1>4. \A i \in s : b >= i
  OBVIOUS
<1>5. \E x \in s : \A y \in s : x >= y
  BY <1>3, <1>4
<1>6. Max(s) \in s /\ \A y \in s : Max(s) >= y
  BY <1>5 DEF Max
<1> QED BY <1>6

(* The fold of Init has the recursive function that its definition asks for. *)
IsFold(g, s, n) ==
  g = [t \in SUBSET (1 .. n) |->
         IF t = {} THEN << >> ELSE LET x == Max(t) IN Later(g[t \ {x}], s[x])]

LEMMA FoldExists == ASSUME NEW s, NEW n \in Nat PROVE \E g : IsFold(g, s, n)
<1> DEFINE B == {m \in Nat : ~\E g : IsFold(g, s, m)}
<1>1. ASSUME B # {} PROVE FALSE
  <2>1. PICK m \in B : \A k \in B : m <= k
    <3>1. B \subseteq Nat
      OBVIOUS
    <3> HIDE DEF B
    <3> QED BY <1>1, <3>1, NatMin
  <2>2. CASE m = 0
    <3> DEFINE g == [t \in {{}} |-> << >>]
    <3>1. SUBSET (1 .. 0) = {{}}
      OBVIOUS
    <3>2. IsFold(g, s, 0)
      BY <3>1 DEF IsFold
    <3> QED BY <2>1, <2>2, <3>2
  <2>3. CASE m # 0
    <3>1. PICK k \in Nat : m = k + 1
      <4>1. m \in Nat
        OBVIOUS
      <4>2. m - 1 \in Nat /\ m = (m - 1) + 1
        BY <2>3, <4>1
      <4> QED BY <4>2
    <3>2. PICK f : IsFold(f, s, k)
      BY <2>1, <3>1
    <3> DEFINE g == [t \in SUBSET (1 .. m) |->
                 IF t = {} THEN << >> ELSE Later(f[t \ {Max(t)}], s[Max(t)])]
    <3>3. ASSUME NEW t \in SUBSET (1 .. k) PROVE t \in SUBSET (1 .. m) /\ g[t] = f[t]
      <4>1. t \in SUBSET (1 .. m)
        BY <3>1
      <4> QED BY <3>2, <4>1 DEF IsFold
    <3>4. ASSUME NEW t \in SUBSET (1 .. m), t # {} PROVE t \ {Max(t)} \in SUBSET (1 .. k)
      <4>1. PICK x : x = Max(t) /\ x \in t /\ \A i \in t : i <= x
        BY <3>1, <3>4, LastOne
      <4>2. ASSUME NEW i \in t, i # x PROVE i \in 1 .. k
        <5>1. i \in 1 .. k + 1 /\ x \in 1 .. k + 1 /\ i <= x
          BY <3>1, <4>1
        <5> QED BY <4>2, <5>1
      <4> QED BY <4>1, <4>2
    <3>5. g = [t \in SUBSET (1 .. m) |->
                 IF t = {} THEN << >> ELSE Later(g[t \ {Max(t)}], s[Max(t)])]
      <4>1. ASSUME NEW t \in SUBSET (1 .. m), t # {} PROVE f[t \ {Max(t)}] = g[t \ {Max(t)}]
        BY <3>3, <3>4, <4>1
      <4> HIDE DEF B
      <4> QED BY <4>1
    <3>6. IsFold(g, s, m)
      <4> HIDE DEF g
      <4> QED BY <3>5 DEF IsFold
    <3> QED BY <2>1, <3>6
  <2> QED BY <2>2, <2>3
<1> QED BY <1>1

LEMMA FoldIs ==
  ASSUME NEW n \in Nat, NEW s, DOMAIN s = 1 .. n
  PROVE  \E g : /\ g[0] = << >> /\ \A i \in 1 .. n : g[i] = Later(g[i - 1], s[i])
                /\ FoldLeft(LAMBDA q, h : Later(q, h), << >>, s) = g[n]
<1> DEFINE F == FoldLeft(LAMBDA q, h : Later(q, h), << >>, s)
<1>1. PICK e : IsFold(e, s, n)
  BY FoldExists
<1>2. PICK f : /\ f = [t \in SUBSET (1 .. n) |->
                    IF t = {} THEN << >> ELSE LET x == Max(t) IN Later(f[t \ {x}], s[x])]
               /\ F = f[1 .. n]
  BY <1>1 DEF IsFold, FoldLeft, MapThenFoldSet
<1> HIDE DEF F
<1> DEFINE g == [i \in 0 .. n |-> f[1 .. i]]
<1>3. g[0] = << >>
  <2>1. 1 .. 0 = {} /\ 1 .. 0 \in SUBSET (1 .. n) /\ 0 \in 0 .. n
    OBVIOUS
  <2> QED BY <1>2, <2>1
<1>4. ASSUME NEW i \in 1 .. n PROVE g[i] = Later(g[i - 1], s[i])
  <2>1. /\ 1 .. i \in SUBSET (1 .. n) /\ 1 .. i # {} /\ i - 1 \in 0 .. n /\ i \in 0 .. n
        /\ (1 .. i) \ {i} = 1 .. (i - 1)
    <3>1. \A j \in 1 .. i : j \in 1 .. n
      OBVIOUS
    <3>2. i \in 1 .. i /\ i - 1 \in 0 .. n /\ i \in 0 .. n
      OBVIOUS
    <3>3. \A j \in (1 .. i) \ {i} : j \in 1 .. (i - 1)
      OBVIOUS
    <3>4. \A j \in 1 .. (i - 1) : j \in (1 .. i) \ {i}
      OBVIOUS
    <3> QED BY <3>1, <3>2, <3>3, <3>4
  <2>2. Max(1 .. i) = i
    BY Largest
  <2>3. f[1 .. i] = Later(f[(1 .. i) \ {i}], s[i])
    BY <1>2, <2>1, <2>2
  <2> QED BY <2>1, <2>3
<1>5. F = g[n]
  <2>1. n \in 0 .. n
    OBVIOUS
  <2>2. g[n] = f[1 .. n]
    BY <2>1
  <2> QED BY <1>2, <2>2
<1> HIDE DEF g
<1>6. \E i : /\ i[0] = << >> /\ \A j \in 1 .. n : i[j] = Later(i[j - 1], s[j])
            /\ F = i[n]
  BY <1>3, <1>4, <1>5
<1> QED BY <1>6 DEF F

-----------------------------------------------------------------------------
(* The inductive invariant. *)

D(e) == Diff(tick, e[2])

(* What is left of the sleep. *)
Slept == IF pc \in {"fetch", "asleep"} THEN sleep ELSE 0

Timely(e, n) ==
  \/ n <= LateMax
  \/ fresh /\ e[1] = Tcp /\ \E h \in Cyclic : n <= Interval[h]
Bounded ==
  \A e \in In(list) : -Interval[e[1]] <= D(e) /\ Timely(e, D(e) + Slept)

Queues(h) == IF h = Tcp THEN active /\ run # Tcp ELSE run # h
Present == \A h \in Timer : h \in Timers(list) <=> Queues(h)

Where ==
  /\ (pc = "handler") <=> (run # NoTimer)
  /\ run = Tcp => active
  /\ pcbs => active
  /\ app => pc \in {"asleep", "timeout", "message"}

(* The sleep ends with an interval at the latest. *)
Sleeping ==
  pc \in {"fetch", "asleep"} =>
    sleep # 0 /\ \E h \in Timer : sleep <= Interval[h] /\ (~active => h \in Cyclic)

(* What sys_check_timeouts finds expired at "now" is so at the tick, too. *)
Serving ==
  pc \in {"check", "handler"} =>
    \A e \in In(list) : Diff(now, e[2]) >= 0 => 0 <= Diff(tick, now) /\ Diff(tick, now) <= D(e)
Handling ==
  pc = "handler" =>
    /\ 0 <= Diff(tick, now) /\ Diff(tick, now) <= Diff(tick, due)
    /\ Diff(tick, due) <= LateMax \/ \E h \in Cyclic : Diff(tick, due) <= Interval[h]

Ordered == list \in Timeouts /\ Distinct(list) /\ Sorted(list, tick) /\ Present
TInv == TypeOK /\ Ordered /\ Bounded /\ Where /\ Sleeping /\ Serving /\ Handling

(* Whatever is no more than an interval or LateMax leaves room for another.   *)
LEMMA Below ==
  ASSUME NEW n \in Int, n <= LateMax \/ \E h \in Timer : n <= Interval[h]
  PROVE  n < MaxTimeout /\ \A x \in Timer : n + Interval[x] <= MaxTimeout
<1>1. ASSUME NEW x \in Timer PROVE n + Interval[x] <= MaxTimeout /\ n < MaxTimeout
  <2>1. /\ Interval[x] \in Nat /\ Interval[x] > 0 /\ LateMax \in Nat /\ MaxTimeout \in Nat
        /\ Interval[x] + Interval[x] + LateMax <= MaxTimeout
    BY Widths
  <2>2. ASSUME NEW h \in Timer, n <= Interval[h] PROVE n + Interval[x] <= MaxTimeout /\ n < MaxTimeout
    <3>1. Interval[h] \in Nat /\ Interval[h] + Interval[x] + LateMax <= MaxTimeout
      BY Widths
    <3> QED BY <2>1, <2>2, <3>1
  <2> QED BY <2>1, <2>2
<1> QED BY <1>1, Widths

LEMMA InList ==
  ASSUME TypeOK, Ordered, Bounded, Sleeping, NEW e \in In(list)
  PROVE  /\ e \in Timer \X Time /\ e[1] \in Timer /\ e[2] \in Time /\ e[1] \in Timers(list)
         /\ D(e) \in Int /\ Slept \in Nat /\ -Interval[e[1]] <= D(e) /\ Near(e, tick)
         /\ Timely(e, D(e) + Slept) /\ D(e) + Slept < MaxTimeout
         /\ D(e) + Slept <= LateMax \/ \E h \in Timer : D(e) + Slept <= Interval[h]
<1>1. e \in Timer \X Time /\ e[1] \in Timer /\ e[2] \in Time /\ e[1] \in Timers(list)
  BY DEF Ordered, Timeouts, In, Timers
<1>2. tick \in Time /\ Slept \in Nat
  BY Widths DEF TypeOK, Slept
<1>3. D(e) \in Int
  BY <1>1, <1>2, DiffFacts, Widths DEF D
<1>4. -Interval[e[1]] <= D(e) /\ Timely(e, D(e) + Slept)
  BY DEF Bounded
<1>5. D(e) + Slept <= LateMax \/ \E h \in Timer : D(e) + Slept <= Interval[h]
  BY <1>4, Widths DEF Timely
<1>6. D(e) + Slept < MaxTimeout
  <2>1. D(e) + Slept \in Int
    BY <1>2, <1>3
  <2>2. PICK n \in Int : n = D(e) + Slept
    BY <2>1
  <2> QED BY <1>5, <2>2, Below
<1>7. Near(e, tick)
  <2>1. CASE D(e) + Slept <= LateMax
    <3>1. D(e) <= LateMax
      BY <1>2, <1>3, <2>1, Widths
    <3> QED BY <1>4, <3>1 DEF Near, D
  <2>2. CASE \E h \in Timer : D(e) + Slept <= Interval[h]
    <3>1. PICK h \in Timer : D(e) + Slept <= Interval[h]
      BY <2>2
    <3>2. D(e) <= Interval[h]
      BY <1>2, <1>3, <3>1, Widths
    <3> QED BY <1>4, <3>2 DEF Near, D
  <2> QED BY <1>5, <2>1, <2>2
<1> QED BY <1>1, <1>2, <1>3, <1>4, <1>5, <1>6, <1>7

(* sys_timeout_abs in a state: the list gets one timeout more. *)
LEMMA Adds ==
  ASSUME TypeOK, Ordered, Bounded, Sleeping, NEW h \in Timer, h \notin Timers(list), NEW time \in Time,
         -Interval[h] <= Diff(tick, time), Diff(tick, time) <= 0, tick' = tick,
         list' = Queued(list, h, time)
  PROVE  /\ list' \in Timeouts /\ Distinct(list') /\ Sorted(list', tick')
         /\ In(list') = In(list) \cup {<<h, time>>} /\ Timers(list') = Timers(list) \cup {h}
<1>1. Near(<<h, time>>, tick)
  <2>1. Diff(tick, time) <= LateMax
    <3>1. tick \in Time
      BY DEF TypeOK
    <3>2. Diff(tick, time) \in Int /\ LateMax \in Nat
      BY <3>1, DiffFacts, Widths
    <3> QED BY <3>2
  <2> QED BY <2>1 DEF Near
<1>2. tick \in Time /\ \A e \in In(list) : Near(e, tick)
  BY InList DEF TypeOK
<1> QED BY <1>1, <1>2, QueuedKeeps DEF Ordered

LEMMA LaterIs ==
  ASSUME tick \in Time, NEW h \in Timer, NEW q
  PROVE  \E time \in Time : /\ Later(q, h) = Queued(q, h, time)
                            /\ Diff(tick, time) = -Interval[h]
<1>1. Interval[h] \in 0 .. MaxTimeout
  <2>1. Interval[h] \in Nat /\ LateMax \in Nat /\ MaxTimeout \in Nat /\ Interval[h] + Interval[h] + LateMax <= MaxTimeout
    BY Widths
  <2> QED BY <2>1
<1>2. PICK n \in 0 .. MaxTimeout : n = Interval[h]
  BY <1>1
<1>3. (tick + n) % Wrap \in Time /\ Diff(tick, (tick + n) % Wrap) = -n
  BY Ahead
<1> QED BY <1>2, <1>3 DEF Later

LEMMA ListTypes == list \in Timeouts <=> list \in Seq(Timer \X Time)
BY DEF Timeouts

(* Remainders are times. *)
LEMMA Remainders == \A t \in Nat, h \in Timer : t % Interval[h] \in Time
<1> SUFFICES ASSUME NEW t \in Nat, NEW h \in Timer PROVE t % Interval[h] \in Time
  OBVIOUS
<1>1. PICK n \in Nat : n = Interval[h] /\ n > 0 /\ n <= MaxTimeout
  <2>1. Interval[h] \in Nat /\ Interval[h] > 0 /\ LateMax \in Nat /\ MaxTimeout \in Nat /\ Interval[h] + Interval[h] + LateMax <= MaxTimeout
    BY Widths
  <2> QED BY <2>1
<1>2. t \in Int /\ Wrap = MaxTimeout + MaxTimeout + 2 /\ MaxTimeout \in Nat /\ Time = 0 .. Wrap - 1
  BY Widths
<1>3. t % n \in 0 .. n - 1
  BY <1>1, <1>2
<1> QED BY <1>1, <1>2, <1>3

-----------------------------------------------------------------------------
(* The initial states. *)

(* The first timers are queued, each an interval from now. *)
Started(q, order, i) ==
  /\ q \in Timeouts /\ Distinct(q) /\ Sorted(q, tick)
  /\ \A e \in In(q) : Diff(tick, e[2]) = -Interval[e[1]]
  /\ Timers(q) = {order[j] : j \in 1 .. i}

LEMMA Starts ==
  ASSUME tick \in Time, NEW n \in Nat, NEW order \in [1 .. n -> Cyclic],
         \A i, j \in 1 .. n : i # j => order[i] # order[j]
  PROVE  Started(FoldLeft(LAMBDA q, h : Later(q, h), << >>, order), order, n)
<1> DEFINE F == FoldLeft(LAMBDA q, h : Later(q, h), << >>, order)
<1>1. PICK g : /\ g[0] = << >> /\ \A i \in 1 .. n : g[i] = Later(g[i - 1], order[i])
               /\ F = g[n]
  BY FoldIs
<1> HIDE DEF F
<1> DEFINE B == {i \in 0 .. n : ~Started(g[i], order, i)}
<1>2. ASSUME B # {} PROVE FALSE
  <2>1. PICK m \in B : \A k \in B : m <= k
    <3>1. B \subseteq Nat
      OBVIOUS
    <3> HIDE DEF B
    <3> QED BY <1>2, <3>1, NatMin
  <2>2. CASE m = 0
    <3>1. g[0] \in Timeouts /\ Len(g[0]) = 0
      BY <1>1 DEF Timeouts
    <3>2. In(g[0]) = {} /\ Timers(g[0]) = {}
      BY <3>1 DEF In, Timers
    <3>3. Distinct(g[0]) /\ Sorted(g[0], tick)
      BY <3>1 DEF Distinct, Sorted
    <3>4. {order[j] : j \in 1 .. 0} = {}
      OBVIOUS
    <3>5. Started(g[0], order, 0)
      BY <3>1, <3>2, <3>3, <3>4 DEF Started
    <3> QED BY <2>1, <2>2, <3>5
  <2>3. CASE m # 0
    <3>1. PICK k \in 0 .. n : m = k + 1 /\ m \in 1 .. n
      <4>1. m \in 0 .. n
        OBVIOUS
      <4>2. m - 1 \in 0 .. n /\ m = (m - 1) + 1 /\ m \in 1 .. n
        BY <2>3, <4>1
      <4> QED BY <4>2
    <3>2. Started(g[k], order, k)
      BY <2>1, <3>1
    <3>3. g[m] = Later(g[k], order[m])
      <4>1. m - 1 = k
        BY <3>1
      <4> QED BY <1>1, <3>1, <4>1
    <3>4. order[m] \in Timer /\ order[m] \in Cyclic
      BY <3>1, Widths
    <3>5. PICK time \in Time : g[m] = Queued(g[k], order[m], time) /\ Diff(tick, time) = -Interval[order[m]]
      BY <3>3, <3>4, LaterIs
    <3>6. order[m] \notin Timers(g[k])
      <4>1. \A j \in 1 .. k : j \in 1 .. n /\ j # m
        BY <3>1
      <4> QED BY <3>1, <3>2, <4>1 DEF Started
    <3>7. ASSUME NEW h \in Timer, NEW x \in Time, Diff(tick, x) = -Interval[h] PROVE Near(<<h, x>>, tick)
      <4>1. Interval[h] \in Nat /\ Interval[h] > 0 /\ LateMax \in Nat
        BY Widths
      <4>2. -Interval[h] <= -Interval[h] /\ -Interval[h] <= LateMax
        BY <4>1
      <4> QED BY <3>7, <4>2 DEF Near
    <3>8. \A e \in In(g[k]) : Near(e, tick)
      <4> SUFFICES ASSUME NEW e \in In(g[k]) PROVE Near(e, tick)
        OBVIOUS
      <4>1. PICK h \in Timer, x \in Time : e = <<h, x>>
        BY <3>2 DEF Started, Timeouts, In
      <4>2. Diff(tick, x) = -Interval[h]
        BY <3>2, <4>1 DEF Started
      <4> QED BY <3>7, <4>1, <4>2
    <3>9. /\ g[m] \in Timeouts /\ Distinct(g[m]) /\ Sorted(g[m], tick)
          /\ In(g[m]) = In(g[k]) \cup {<<order[m], time>>}
          /\ Timers(g[m]) = Timers(g[k]) \cup {order[m]}
      <4>1. Near(<<order[m], time>>, tick)
        BY <3>4, <3>5, <3>7
      <4> QED BY <3>2, <3>4, <3>5, <3>6, <3>8, <4>1, QueuedKeeps DEF Started
    <3>10. {order[j] : j \in 1 .. m} = {order[j] : j \in 1 .. k} \cup {order[m]}
      <4>1. 1 .. m = (1 .. k) \cup {m}
        BY <3>1
      <4> HIDE DEF B
      <4> QED BY <4>1
    <3>11. \A e \in In(g[m]) : Diff(tick, e[2]) = -Interval[e[1]]
      BY <3>2, <3>5, <3>9 DEF Started
    <3>12. Started(g[m], order, m)
      BY <3>2, <3>9, <3>10, <3>11 DEF Started
    <3> QED BY <2>1, <3>12
  <2> QED BY <2>2, <2>3
<1>3. Started(g[n], order, n)
  <2>1. n \in 0 .. n
    OBVIOUS
  <2> QED BY <1>2, <2>1
<1>4. Started(F, order, n)
  BY <1>1, <1>3
<1> QED BY <1>4 DEF F

(* A permutation has all of them. *)
LEMMA AllOfThem ==
  ASSUME NEW order \in SetToSeqs(Cyclic)
  PROVE  \E n \in Nat : /\ order \in [1 .. n -> Cyclic]
                        /\ \A i, j \in 1 .. n : i # j => order[i] # order[j]
                        /\ {order[j] : j \in 1 .. n} = Cyclic
<1>1. PICK n \in Nat : n = Cardinality(Cyclic)
  BY TimeoutsAssumption, FS_CardinalityType
<1>2. order \in [1 .. n -> Cyclic] /\ \A i, j \in 1 .. n : i # j => order[i] # order[j]
  BY <1>1 DEF SetToSeqs
<1> DEFINE S == 1 .. n
<1>3. order \in Injection(S, Cyclic)
  BY <1>2 DEF Injection, IsInjective
<1>4. Cardinality(S) = n
  <2>1. 1 \in Int /\ n \in Int
    OBVIOUS
  <2>2. Cardinality(1 .. n) = IF 1 > n THEN 0 ELSE n - 1 + 1
    BY <2>1, FS_Interval
  <2> QED BY <2>2
<1> HIDE DEF S
<1>5. order \in Surjection(S, Cyclic)
  BY <1>1, <1>3, <1>4, FS_Injection, TimeoutsAssumption
<1>6. {order[j] : j \in 1 .. n} = Cyclic
  BY <1>2, <1>5 DEF Surjection, S
<1> QED BY <1>2, <1>6

LEMMA InitTInv == Init => TInv
<1> SUFFICES ASSUME Init PROVE TInv
  OBVIOUS
<1>1. PICK order \in SetToSeqs(Cyclic) :
        list = FoldLeft(LAMBDA q, h : Later(q, h), << >>, order)
  BY DEF Init
<1>2. PICK n \in Nat : /\ order \in [1 .. n -> Cyclic]
                       /\ \A i, j \in 1 .. n : i # j => order[i] # order[j]
                       /\ {order[j] : j \in 1 .. n} = Cyclic
  BY AllOfThem
<1>3. /\ tick \in Time /\ due = 0 /\ active = FALSE /\ pcbs = FALSE /\ pc = "again" /\ now = 0
      /\ run = NoTimer /\ sleep = 0 /\ app = FALSE /\ fresh = FALSE
      /\ phase = [h \in Cyclic |-> 0]
  BY DEF Init
<1>4. Started(list, order, n)
  BY <1>1, <1>2, <1>3, Starts
<1>5. 0 \in Time
  BY Widths
<1>6. TypeOK
  <2>1. list \in Seq(Timer \X Time)
    BY <1>4 DEF Started, Timeouts
  <2>2. phase \in [Cyclic -> Time]
    BY <1>3, <1>5
  <2> QED BY <1>3, <1>5, <2>1, <2>2 DEF TypeOK
<1>7. Ordered
  <2>1. Timers(list) = Cyclic
    BY <1>2, <1>4 DEF Started
  <2>2. Present
    BY <1>3, <2>1, TimeoutsAssumption, Widths DEF Present, Queues, Timer
  <2> QED BY <1>4, <2>2 DEF Started, Ordered
<1>8. Bounded
  <2> SUFFICES ASSUME NEW e \in In(list) PROVE -Interval[e[1]] <= D(e) /\ D(e) + Slept <= LateMax
    BY DEF Bounded, Timely
  <2>1. e[1] \in Timer /\ D(e) = -Interval[e[1]] /\ Slept = 0
    BY <1>3, <1>4 DEF Started, D, Slept, Timeouts, In
  <2>2. Interval[e[1]] \in Nat /\ LateMax \in Nat
    BY <2>1, Widths
  <2> QED BY <2>1, <2>2
<1>9. Where /\ Sleeping /\ Serving /\ Handling
  BY <1>3, TimeoutsAssumption DEF Where, Sleeping, Serving, Handling, Timer
<1> QED BY <1>6, <1>7, <1>8, <1>9 DEF TInv

-----------------------------------------------------------------------------
(* Steps that leave the list and the tick alone. *)

LEMMA StaysOrdered ==
  ASSUME Ordered, UNCHANGED <<list, tick, active, run>>
  PROVE  Ordered'
BY DEF Ordered, Present, Queues

LEMMA StaysBounded ==
  ASSUME TypeOK, Ordered, Bounded, Sleeping, tick' = tick, fresh => fresh',
         Slept' \in Nat, Slept' <= Slept,
         \A e \in In(list') :
           \/ e \in In(list)
           \/ /\ -Interval[e[1]] <= D(e)
              /\ \/ D(e) + Slept' <= LateMax
                 \/ fresh' /\ e[1] = Tcp /\ \E h \in Cyclic : D(e) + Slept' <= Interval[h]
  PROVE  Bounded'
<1> SUFFICES ASSUME NEW e \in In(list) PROVE -Interval[e[1]] <= D(e) /\ Timely(e, D(e) + Slept')
  BY DEF Bounded, D, Timely
<1>1. /\ D(e) \in Int /\ Slept \in Nat /\ e[1] \in Timer
      /\ -Interval[e[1]] <= D(e) /\ Timely(e, D(e) + Slept)
  BY InList
<1>2. CASE D(e) + Slept <= LateMax
  <2>1. D(e) + Slept' <= LateMax
    BY <1>1, <1>2, Widths
  <2> QED BY <1>1, <2>1 DEF Timely
<1>3. CASE ~(D(e) + Slept <= LateMax)
  <2>1. fresh /\ e[1] = Tcp /\ \E h \in Cyclic : D(e) + Slept <= Interval[h]
    BY <1>1, <1>3 DEF Timely
  <2>2. \A h \in Cyclic : Interval[h] \in Nat /\ (D(e) + Slept <= Interval[h] => D(e) + Slept' <= Interval[h])
    BY <1>1, Widths
  <2> QED BY <1>1, <2>1, <2>2 DEF Timely
<1> QED BY <1>2, <1>3

(* The first timeout of the list. *)
LEMMA FirstIs ==
  ASSUME TypeOK, Ordered, list # << >>
  PROVE  /\ Len(list) \in Nat /\ 1 \in 1 .. Len(list)
         /\ list[1] \in In(list) /\ list[1] \in Timer \X Time
         /\ \A e \in In(list) : D(e) \in Int /\ D(list[1]) \in Int /\ D(e) <= D(list[1])
<1>1. Len(list) \in Nat /\ 1 \in 1 .. Len(list) /\ list[1] \in Timer \X Time
  BY DEF Ordered, Timeouts
<1>2. list[1] \in In(list)
  BY <1>1 DEF In
<1>3. ASSUME NEW e \in In(list) PROVE D(e) \in Int
  <2>1. PICK u \in Time : u = e[2] /\ tick \in Time
    BY DEF Ordered, Timeouts, In, TypeOK
  <2>2. Diff(tick, u) \in -(MaxTimeout + 1) .. MaxTimeout /\ MaxTimeout \in Nat
    BY <2>1, DiffFacts, Widths
  <2> QED BY <2>1, <2>2 DEF D
<1>4. ASSUME NEW e \in In(list) PROVE D(e) <= D(list[1])
  <2>1. PICK i \in 1 .. Len(list) : e = list[i]
    BY DEF In
  <2>2. CASE i = 1
    BY <1>3, <2>1, <2>2
  <2>3. CASE 1 < i
    BY <1>1, <2>1, <2>3 DEF Ordered, Sorted, D
  <2> QED BY <2>1, <2>2, <2>3
<1> QED BY <1>1, <1>2, <1>3, <1>4

LEMMA OverdueKeeps == TInv /\ Overdue => TInv'
<1> SUFFICES ASSUME TInv, Overdue PROVE TInv'
  OBVIOUS
<1> USE DEF TInv
<1>1. /\ UNCHANGED <<list, due, active, pcbs, tick, run, sleep, app, fresh, phase>>
      /\ pc = "again" /\ pc' = "check" /\ now' = tick
  BY DEF Overdue, timers
<1>2. TypeOK'
  BY <1>1 DEF TypeOK
<1>3. Ordered'
  BY <1>1, StaysOrdered
<1>4. Bounded'
  BY <1>1, StaysBounded DEF Slept
<1>5. Where' /\ Sleeping' /\ Handling'
  BY <1>1 DEF Where, Sleeping, Handling
<1>6. Serving'
  <2> SUFFICES ASSUME NEW e \in In(list), Diff(tick, e[2]) >= 0
               PROVE  0 <= Diff(tick, tick) /\ Diff(tick, tick) <= D(e)
    BY <1>1 DEF Serving, D
  <2>1. tick \in Time
    BY DEF TypeOK
  <2>2. Diff(tick, tick) = 0
    BY <2>1, DiffFacts
  <2> QED BY <2>2 DEF D
<1> QED BY <1>2, <1>3, <1>4, <1>5, <1>6

LEMMA SleeptimeKeeps == TInv /\ Sleeptime => TInv'
<1> SUFFICES ASSUME TInv, Sleeptime PROVE TInv'
  OBVIOUS
<1> USE DEF TInv
<1>1. /\ UNCHANGED <<list, due, active, pcbs, tick, now, run, app, phase>>
      /\ pc = "again" /\ pc' = "fetch" /\ list # << >> /\ Less(tick, list[1][2]) /\ fresh' = FALSE
      /\ sleep' = (list[1][2] - tick) % Wrap
  BY DEF Sleeptime, timers
<1>2. PICK h \in Timer, u \in Time : list[1] = <<h, u>> /\ h \in Timers(list)
  BY <1>1, FirstIs DEF Timers
<1>3. tick \in Time /\ D(list[1]) = Diff(tick, u) /\ D(list[1]) \in Int
  BY <1>1, <1>2, FirstIs DEF D, TypeOK
<1>4. /\ Diff(tick, u) < 0 /\ -Interval[h] <= Diff(tick, u) /\ Interval[h] \in Nat /\ Diff(tick, u) \in Int
      /\ Interval[h] <= MaxTimeout
  <2>1. list[1] \in In(list)
    BY <1>1, FirstIs
  <2>2. -Interval[h] <= Diff(tick, u)
    BY <1>2, <1>3, <2>1 DEF Bounded
  <2>3. Interval[h] \in Nat /\ LateMax \in Nat /\ MaxTimeout \in Nat /\ Interval[h] + Interval[h] + LateMax <= MaxTimeout
    BY Widths
  <2> QED BY <1>1, <1>2, <1>3, <2>2, <2>3, DiffFacts
<1>5. sleep' = -Diff(tick, u)
  <2>1. MaxTimeout \in Nat /\ Wrap = MaxTimeout + MaxTimeout + 2 /\ Wrap \in Nat /\ u \in 0 .. Wrap - 1 /\ tick \in 0 .. Wrap - 1
    BY <1>3, Widths
  <2>2. Diff(u, tick) = -Diff(tick, u)
    <3>1. Diff(tick, u) # -(MaxTimeout + 1)
      BY <1>4, <2>1
    <3> QED BY <1>3, <3>1, DiffFacts
  <2>3. sleep' = (u - tick) % Wrap
    BY <1>1, <1>2
  <2>4. sleep' \in 0 .. Wrap - 1
    <3>1. PICK x \in Int : x = u - tick /\ 0 <= x + Wrap /\ x < Wrap + Wrap /\ x < Wrap /\ 0 < x + Wrap
      BY <2>1
    <3>2. x % Wrap = IF x < 0 THEN x + Wrap ELSE IF x < Wrap THEN x ELSE x - Wrap
      BY <3>1, ModIs
    <3> QED BY <2>1, <2>3, <3>1, <3>2
  <2>5. Diff(u, tick) = IF sleep' > MaxTimeout THEN sleep' - Wrap ELSE sleep'
    BY <2>3 DEF Diff
  <2> QED BY <1>4, <2>1, <2>2, <2>4, <2>5
<1>6. sleep' \in Time /\ sleep' # 0 /\ sleep' <= Interval[h]
  BY <1>4, <1>5, Widths
<1>7. TypeOK'
  BY <1>1, <1>6 DEF TypeOK
<1>8. Ordered'
  BY <1>1, StaysOrdered
<1>9. Bounded'
  <2> SUFFICES ASSUME NEW e \in In(list) PROVE -Interval[e[1]] <= D(e) /\ D(e) + sleep' <= LateMax
    BY <1>1 DEF Bounded, D, Timely, Slept
  <2>1. D(e) \in Int /\ D(e) <= Diff(tick, u) /\ LateMax \in Nat
    BY <1>1, <1>3, FirstIs, Widths
  <2> QED BY <1>4, <1>5, <2>1 DEF Bounded
<1>10. Sleeping'
  <2>1. ~active => h \in Cyclic
    <3>1. ~active => h # Tcp
      BY <1>2 DEF Ordered, Present, Queues
    <3> QED BY <3>1 DEF Timer
  <2> QED BY <1>1, <1>6, <2>1 DEF Sleeping
<1>11. Where' /\ Serving' /\ Handling'
  BY <1>1 DEF Where, Serving, Handling
<1> QED BY <1>7, <1>8, <1>9, <1>10, <1>11

LEMMA QuietKeeps ==
  TInv /\ (Fetch \/ Arrives \/ Timeout \/ CheckDone \/ AppLock \/ UNCHANGED vars) => TInv'
<1> SUFFICES ASSUME TInv, Fetch \/ Arrives \/ Timeout \/ CheckDone \/ AppLock \/ UNCHANGED vars PROVE TInv'
  OBVIOUS
<1> USE DEF TInv
<1>1. UNCHANGED <<list, due, active, pcbs, tick, run, sleep, fresh, phase>>
  BY DEF Fetch, Arrives, Timeout, CheckDone, AppLock, vars, timers
<1>2. /\ \/ pc' = pc
         \/ pc = "fetch" /\ pc' \in {"message", "asleep"}
         \/ pc = "asleep" /\ pc' = "message"
         \/ pc = "timeout" /\ pc' = "check" /\ now' = tick /\ ~app
         \/ pc = "check" /\ pc' = "again" /\ now' = 0
      /\ \/ app' = app
         \/ pc = "asleep" /\ pc' = "asleep"
      /\ \/ now' = now
         \/ pc = "timeout" /\ pc' = "check" /\ now' = tick
         \/ pc = "check" /\ pc' = "again" /\ now' = 0
  BY DEF Fetch, Arrives, Timeout, CheckDone, AppLock, vars, timers, Where
<1>3. TypeOK'
  <2>1. app' \in BOOLEAN
    BY DEF TypeOK, Fetch, Arrives, Timeout, CheckDone, AppLock, vars
  <2>2. now' \in Time
    BY <1>2, Widths DEF TypeOK
  <2>3. pc' \in {"again", "fetch", "asleep", "timeout", "message", "check", "handler"}
    BY <1>2 DEF TypeOK
  <2> QED BY <1>1, <2>1, <2>2, <2>3 DEF TypeOK
<1>4. Ordered'
  BY <1>1, StaysOrdered
<1>5. Bounded'
  <2>1. sleep \in Nat
    BY Widths DEF TypeOK
  <2>2. Slept' \in Nat /\ Slept' <= Slept
    BY <1>1, <1>2, <2>1 DEF Slept
  <2> QED BY <1>1, <2>2, StaysBounded
<1>6. Where'
  <2>1. app' => pc' \in {"asleep", "timeout", "message"}
    BY <1>2 DEF Where
  <2>2. (pc' = "handler") <=> (pc = "handler")
    BY <1>2
  <2> QED BY <1>1, <2>1, <2>2 DEF Where
<1>7. Sleeping'
  BY <1>1, <1>2 DEF Sleeping
<1>8. Handling'
  <2>1. pc' = "handler" => pc = "handler" /\ now' = now
    BY <1>2
  <2> QED BY <1>1, <2>1 DEF Handling
<1>9. Serving'
  <2>1. CASE pc = "timeout" /\ pc' = "check"
    <3> SUFFICES ASSUME NEW e \in In(list), Diff(tick, e[2]) >= 0
                 PROVE  0 <= Diff(tick, tick) /\ Diff(tick, tick) <= D(e)
      BY <1>1, <1>2, <2>1 DEF Serving, D
    <3>1. tick \in Time
      BY DEF TypeOK
    <3>2. Diff(tick, tick) = 0
      BY <3>1, DiffFacts
    <3> QED BY <3>2 DEF D
  <2>2. CASE ~(pc = "timeout" /\ pc' = "check")
    <3>1. pc' \in {"check", "handler"} => pc = pc' /\ now' = now
      BY <1>2, <2>2
    <3> QED BY <1>1, <3>1 DEF Serving, D
  <2> QED BY <2>1, <2>2
<1> QED BY <1>3, <1>4, <1>5, <1>6, <1>7, <1>8, <1>9

-----------------------------------------------------------------------------
(* Steps that add to the list. *)

(* TCP_REG and TCP_RMV. *)
LEMMA TcpNeeds ==
  ASSUME TInv, NEW pcb \in BOOLEAN, TcpTimerNeeded(pcb), tick' = tick, run = NoTimer, run' = run
  PROVE  /\ Ordered' /\ active' \in BOOLEAN /\ pcbs' \in BOOLEAN /\ (pcbs' => active')
         /\ active => active'
         /\ \A e \in In(list') :
              \/ e \in In(list)
              \/ ~active /\ active' /\ e[1] = Tcp /\ D(e) = -Interval[Tcp]
<1> USE DEF TInv
<1>1. active \in BOOLEAN /\ Tcp # NoTimer /\ Tcp \in Timer /\ tick \in Time
  BY TimeoutsAssumption DEF TypeOK, Timer
<1>2. CASE pcb /\ ~active
  <2>1. active' /\ pcbs' /\ list' = Later(list, Tcp) /\ active' \in BOOLEAN /\ pcbs' \in BOOLEAN
    BY <1>2 DEF TcpTimerNeeded
  <2>2. PICK time \in Time : Later(list, Tcp) = Queued(list, Tcp, time) /\ Diff(tick, time) = -Interval[Tcp]
    BY <1>1, LaterIs
  <2>3. Tcp \notin Timers(list)
    BY <1>1, <1>2 DEF Ordered, Present, Queues
  <2>4. -Interval[Tcp] <= Diff(tick, time) /\ Diff(tick, time) <= 0
    BY <1>1, <2>2, Widths
  <2>5. /\ list' \in Timeouts /\ Distinct(list') /\ Sorted(list', tick')
        /\ In(list') = In(list) \cup {<<Tcp, time>>} /\ Timers(list') = Timers(list) \cup {Tcp}
    BY <1>1, <2>1, <2>2, <2>3, <2>4, Adds
  <2>6. Present'
    BY <1>1, <2>1, <2>5 DEF Ordered, Present, Queues
  <2> QED BY <1>2, <2>1, <2>2, <2>5, <2>6 DEF Ordered, D
<1>3. CASE ~(pcb /\ ~active)
  <2>1. list' = list /\ active' = active /\ pcbs' = pcb /\ (pcb => active)
    BY <1>1, <1>3 DEF TcpTimerNeeded
  <2> QED BY <1>1, <2>1, StaysOrdered
<1> QED BY <1>2, <1>3

LEMMA HandleKeeps == TInv /\ Handle => TInv'
<1> SUFFICES ASSUME TInv, Handle PROVE TInv'
  OBVIOUS
<1> USE DEF TInv
<1>1. /\ UNCHANGED <<due, tick, now, run, app, fresh, phase>> /\ sleep' = 0
      /\ pc = "message" /\ pc' = "again" /\ ~app /\ run = NoTimer
  BY DEF Handle, Where
<1>2. PICK pcb \in BOOLEAN : TcpTimerNeeded(pcb)
  BY DEF Handle
<1>3. /\ Ordered' /\ active' \in BOOLEAN /\ pcbs' \in BOOLEAN /\ (pcbs' => active')
      /\ \A e \in In(list') :
           \/ e \in In(list)
           \/ e[1] = Tcp /\ D(e) = -Interval[Tcp]
  BY <1>1, <1>2, TcpNeeds
<1>4. TypeOK'
  BY <1>1, <1>3, Widths DEF TypeOK, Ordered, Timeouts
<1>5. Bounded'
  <2>1. Interval[Tcp] \in Nat /\ LateMax \in Nat
    BY Widths
  <2>2. Slept = 0 /\ Slept' = 0
    BY <1>1 DEF Slept
  <2>3. -Interval[Tcp] <= -Interval[Tcp] /\ -Interval[Tcp] + Slept' <= LateMax
    BY <2>1, <2>2
  <2> QED BY <1>1, <1>3, <2>2, <2>3, StaysBounded
<1>6. Where' /\ Sleeping' /\ Serving' /\ Handling'
  BY <1>1, <1>3, TimeoutsAssumption DEF Where, Sleeping, Serving, Handling, Timer
<1> QED BY <1>3, <1>4, <1>5, <1>6

LEMMA AppDoKeeps == TInv /\ AppDo => TInv'
<1> SUFFICES ASSUME TInv, AppDo PROVE TInv'
  OBVIOUS
<1> USE DEF TInv
<1>1. /\ UNCHANGED <<due, tick, pc, now, run, sleep, phase>>
      /\ app /\ app' = FALSE /\ pc \in {"asleep", "timeout", "message"} /\ run = NoTimer
      /\ fresh' = (fresh \/ (active' /\ ~active))
  BY DEF AppDo, Where
<1>2. PICK pcb \in BOOLEAN : TcpTimerNeeded(pcb)
  BY DEF AppDo
<1>3. /\ Ordered' /\ active' \in BOOLEAN /\ pcbs' \in BOOLEAN /\ (pcbs' => active') /\ (active => active')
      /\ \A e \in In(list') :
           \/ e \in In(list)
           \/ ~active /\ active' /\ e[1] = Tcp /\ D(e) = -Interval[Tcp]
  BY <1>1, <1>2, TcpNeeds
<1>4. TypeOK'
  <2>1. fresh' \in BOOLEAN /\ app' \in BOOLEAN
    BY <1>1
  <2> QED BY <1>1, <1>3, <2>1 DEF TypeOK, Ordered, Timeouts
<1>5. Bounded'
  <2>1. Slept' = Slept /\ Slept \in Nat
    BY <1>1, Widths DEF Slept, TypeOK
  <2>2. ASSUME NEW e \in In(list'), e \notin In(list)
        PROVE  /\ -Interval[e[1]] <= D(e)
               /\ \/ D(e) + Slept' <= LateMax
                  \/ fresh' /\ e[1] = Tcp /\ \E h \in Cyclic : D(e) + Slept' <= Interval[h]
    <3>1. ~active /\ active' /\ e[1] = Tcp /\ D(e) = -Interval[Tcp] /\ Interval[Tcp] \in Nat
      BY <1>3, <2>2, Widths
    <3>2. CASE pc = "asleep"
      <4>1. PICK h \in Cyclic : sleep <= Interval[h]
        BY <3>1, <3>2 DEF Sleeping
      <4>2. Interval[h] \in Nat /\ Slept = sleep
        BY <3>2, Widths DEF Slept
      <4>3. D(e) + Slept' <= Interval[h]
        BY <2>1, <3>1, <4>1, <4>2
      <4>4. fresh'
        BY <1>1, <3>1
      <4>5. -Interval[e[1]] <= D(e)
        BY <3>1
      <4> QED BY <3>1, <4>3, <4>4, <4>5
    <3>3. CASE pc # "asleep"
      <4>1. Slept' = 0 /\ LateMax \in Nat
        BY <1>1, <2>1, <3>3, Widths DEF Slept
      <4> QED BY <3>1, <4>1
    <3> QED BY <3>2, <3>3
  <2>3. fresh => fresh'
    BY <1>1
  <2>4. Slept' \in Nat /\ Slept' <= Slept
    BY <2>1
  <2> QED BY <1>1, <2>2, <2>3, <2>4, StaysBounded
<1>6. Where' /\ Sleeping' /\ Serving' /\ Handling'
  BY <1>1, <1>3, TimeoutsAssumption DEF Where, Sleeping, Serving, Handling, Timer
<1> QED BY <1>3, <1>4, <1>5, <1>6

(* A timeout that a handler queues: no sooner than the tick, and so not yet   *)
(* expired at "now" unless both are this tick.                                *)
LEMMA ServesNew ==
  ASSUME TInv, pc = "handler", NEW time \in Time, NEW h \in Timer,
         -Interval[h] <= Diff(tick, time), Diff(tick, time) <= 0, Diff(now, time) >= 0
  PROVE  0 <= Diff(tick, now) /\ Diff(tick, now) <= Diff(tick, time)
<1> USE DEF TInv
<1>1. tick \in Time /\ now \in Time /\ due \in Time /\ MaxTimeout \in Nat /\ Interval[h] \in Nat
  BY Widths DEF TypeOK
<1>2. /\ Diff(tick, now) \in -(MaxTimeout + 1) .. MaxTimeout /\ Diff(tick, due) \in -(MaxTimeout + 1) .. MaxTimeout
      /\ Diff(tick, time) \in -(MaxTimeout + 1) .. MaxTimeout
  BY <1>1, DiffFacts
<1>3. /\ 0 <= Diff(tick, now) /\ Diff(tick, now) <= Diff(tick, due)
      /\ Diff(tick, due) <= LateMax \/ \E k \in Timer : Diff(tick, due) <= Interval[k]
  BY Widths DEF Handling
<1>4. PICK n \in Int : n = Diff(tick, due)
  BY <1>1, <1>2
<1>5. n + Interval[h] <= MaxTimeout
  BY <1>3, <1>4, Below
<1>6. Diff(now, tick) = -Diff(tick, now)
  <2>1. Diff(tick, now) # -(MaxTimeout + 1)
    BY <1>1, <1>2, <1>3
  <2> QED BY <1>1, <2>1, DiffFacts
<1>7. Diff(now, time) = Diff(now, tick) + Diff(tick, time)
  <2>1. Diff(now, tick) + Diff(tick, time) \in -(MaxTimeout + 1) .. MaxTimeout
    BY <1>1, <1>2, <1>3, <1>4, <1>5, <1>6
  <2> QED BY <1>1, <2>1, DiffAdds
<1> QED BY <1>1, <1>2, <1>3, <1>6, <1>7

(* A handler that queues its timer again. *)
LEMMA HandlerAdds ==
  ASSUME TInv, pc = "handler", run \notin Timers(list), NEW time \in Time,
         -Interval[run] <= Diff(tick, time), Diff(tick, time) <= 0,
         list' = Queued(list, run, time), UNCHANGED <<tick, now, active, fresh>>,
         pc' = "check", run' = NoTimer
  PROVE  Ordered' /\ Bounded' /\ Serving' /\ Sleeping' /\ Handling'
<1> USE DEF TInv
<1>1. run \in Timer /\ run # NoTimer /\ NoTimer \notin Timer /\ tick \in Time /\ (run = Tcp => active)
  BY TimeoutsAssumption DEF Where, TypeOK
<1>2. /\ list' \in Timeouts /\ Distinct(list') /\ Sorted(list', tick')
      /\ In(list') = In(list) \cup {<<run, time>>} /\ Timers(list') = Timers(list) \cup {run}
  BY <1>1, Adds
<1>3. Present'
  BY <1>1, <1>2 DEF Ordered, Present, Queues
<1>4. Bounded'
  <2>1. Slept = 0 /\ Slept' = 0
    BY DEF Slept
  <2>2. Diff(tick, time) + Slept' <= LateMax
    <3>1. Diff(tick, time) \in -(MaxTimeout + 1) .. MaxTimeout /\ LateMax \in Nat /\ MaxTimeout \in Nat
      BY <1>1, DiffFacts, Widths
    <3> QED BY <2>1, <3>1
  <2>3. \A e \in In(list') : e \in In(list) \/ (-Interval[e[1]] <= D(e) /\ D(e) + Slept' <= LateMax)
    BY <1>2, <2>2 DEF D
  <2> QED BY <2>1, <2>3, StaysBounded
<1>5. Serving'
  <2> SUFFICES ASSUME NEW e \in In(list'), Diff(now, e[2]) >= 0
               PROVE  0 <= Diff(tick, now) /\ Diff(tick, now) <= D(e)
    BY DEF Serving, D
  <2>1. CASE e \in In(list)
    BY <2>1 DEF Serving
  <2>2. CASE e = <<run, time>>
    BY <1>1, <2>2, ServesNew DEF D
  <2> QED BY <1>2, <2>1, <2>2
<1> QED BY <1>2, <1>3, <1>4, <1>5 DEF Ordered, Sleeping, Handling

(* lwip_cyclic_timer queues its timer again: an interval from its last time   *)
(* or, anew, from the tick.                                                   *)
LEMMA CyclicTimerQueues ==
  ASSUME TInv, CyclicTimer
  PROVE  /\ run \in Cyclic /\ run \notin Timers(list)
         /\ \E time \in Time :
              /\ list' = Queued(list, run, time)
              /\ -Interval[run] <= Diff(tick, time) /\ Diff(tick, time) <= 0
              /\ \/ phase' = [phase EXCEPT ![run] = 0] /\ Diff(tick, time) = -Interval[run]
                 \/ phase' = phase /\ Diff(tick, time) = Diff(tick, due) - Interval[run]
<1> USE DEF TInv
<1>1. /\ pc = "handler" /\ run # Tcp /\ pc' = "check" /\ run' = NoTimer
      /\ UNCHANGED <<due, active, pcbs, tick, now, sleep, app, fresh>>
  BY DEF CyclicTimer
<1>2. /\ run \in Timer /\ run \in Cyclic /\ run \notin Timers(list) /\ tick \in Time /\ due \in Time /\ now \in Time
      /\ MaxTimeout \in Nat /\ Interval[run] \in Nat /\ NoTimer # Tcp
  BY <1>1, TimeoutsAssumption, Widths DEF Where, TypeOK, Timer, Ordered, Present, Queues
<1>3. \E time \in Time :
        /\ list' = Queued(list, run, time)
        /\ -Interval[run] <= Diff(tick, time) /\ Diff(tick, time) <= 0
        /\ \/ phase' = [phase EXCEPT ![run] = 0] /\ Diff(tick, time) = -Interval[run]
           \/ phase' = phase /\ Diff(tick, time) = Diff(tick, due) - Interval[run]
  <2>1. PICK n \in Nat : n = Interval[run] /\ n <= MaxTimeout
    <3>1. Interval[run] + Interval[run] + LateMax <= MaxTimeout /\ LateMax \in Nat
      BY <1>2, Widths
    <3> QED BY <1>2, <3>1
  <2>2. PICK next \in Time : next = (due + n) % Wrap /\ Diff(due, next) = -n
    <3>1. n \in 0 .. MaxTimeout
      BY <1>2, <2>1
    <3> QED BY <1>2, <3>1, Ahead
  <2>3. CASE Less(next, tick)
    <3>1. list' = Later(list, run) /\ phase' = [phase EXCEPT ![run] = 0]
      BY <2>1, <2>2, <2>3 DEF CyclicTimer
    <3>2. PICK time \in Time : Later(list, run) = Queued(list, run, time) /\ Diff(tick, time) = -Interval[run]
      BY <1>2, LaterIs
    <3>3. -Interval[run] <= Diff(tick, time) /\ Diff(tick, time) <= 0
      BY <1>2, <3>2
    <3> QED BY <3>1, <3>2, <3>3
  <2>4. CASE ~Less(next, tick)
    <3>1. list' = Queued(list, run, next) /\ phase' = phase
      BY <2>1, <2>2, <2>4 DEF CyclicTimer
    <3>2. Diff(tick, due) \in -(MaxTimeout + 1) .. MaxTimeout /\ Diff(tick, due) >= 0
      <4>1. Diff(tick, due) \in -(MaxTimeout + 1) .. MaxTimeout /\ Diff(tick, now) \in -(MaxTimeout + 1) .. MaxTimeout
        BY <1>2, DiffFacts
      <4> QED BY <1>1, <1>2, <4>1 DEF Handling
    <3>3. Diff(tick, next) = Diff(tick, due) + Diff(due, next)
      <4>1. Diff(tick, due) + Diff(due, next) \in -(MaxTimeout + 1) .. MaxTimeout
        BY <1>2, <2>1, <2>2, <3>2
      <4> QED BY <1>2, <4>1, DiffAdds
    <3>4. Diff(tick, next) \in Int /\ -n <= Diff(tick, next)
      BY <1>2, <2>1, <2>2, <3>2, <3>3
    <3>5. Diff(tick, next) <= 0
      <4>1. Diff(next, tick) \in -(MaxTimeout + 1) .. MaxTimeout /\ ~(Diff(next, tick) < 0)
        BY <1>2, <2>4, DiffFacts
      <4>2. Diff(next, tick) # -(MaxTimeout + 1)
        BY <1>2, <4>1
      <4>3. Diff(tick, next) = -Diff(next, tick)
        BY <1>2, <4>2, DiffFacts
      <4> QED BY <1>2, <4>1, <4>3
    <3>6. Diff(tick, next) = Diff(tick, due) - n
      BY <2>1, <2>2, <3>2, <3>3
    <3> QED BY <2>1, <3>1, <3>4, <3>5, <3>6
  <2> QED BY <2>3, <2>4
<1> QED BY <1>2, <1>3

LEMMA CyclicTimerKeeps == TInv /\ CyclicTimer => TInv'
<1> SUFFICES ASSUME TInv, CyclicTimer PROVE TInv'
  OBVIOUS
<1> USE DEF TInv
<1>1. /\ pc = "handler" /\ run # Tcp /\ pc' = "check" /\ run' = NoTimer
      /\ UNCHANGED <<due, active, pcbs, tick, now, sleep, app, fresh>>
  BY DEF CyclicTimer
<1>2. /\ run \in Timer /\ run \in Cyclic /\ run \notin Timers(list) /\ tick \in Time /\ due \in Time /\ now \in Time
      /\ MaxTimeout \in Nat /\ Interval[run] \in Nat /\ NoTimer # Tcp
  BY <1>1, TimeoutsAssumption, Widths DEF Where, TypeOK, Timer, Ordered, Present, Queues
<1>3. \E time \in Time :
        list' = Queued(list, run, time) /\ -Interval[run] <= Diff(tick, time) /\ Diff(tick, time) <= 0
  BY CyclicTimerQueues
<1>4. Ordered' /\ Bounded' /\ Serving' /\ Sleeping' /\ Handling'
  BY <1>1, <1>2, <1>3, HandlerAdds
<1>5. TypeOK'
  <2>1. phase' = phase \/ phase' = [phase EXCEPT ![run] = 0]
    BY DEF CyclicTimer
  <2>2. 0 \in Time /\ phase \in [Cyclic -> Time]
    BY Widths DEF TypeOK
  <2>3. phase' \in [Cyclic -> Time]
    BY <1>2, <2>1, <2>2
  <2> QED BY <1>1, <1>4, <2>3 DEF TypeOK, Ordered, Timeouts
<1>6. Where'
  BY <1>1, <1>2 DEF Where
<1> QED BY <1>4, <1>5, <1>6

LEMMA TcpTimerKeeps == TInv /\ TcpTimer => TInv'
<1> SUFFICES ASSUME TInv, TcpTimer PROVE TInv'
  OBVIOUS
<1> USE DEF TInv
<1>1. /\ pc = "handler" /\ run = Tcp /\ pc' = "check" /\ run' = NoTimer
      /\ pcbs' \in {FALSE, pcbs} /\ active' = pcbs'
      /\ UNCHANGED <<due, tick, now, sleep, app, fresh, phase>>
  BY DEF TcpTimer
<1>2. /\ Tcp \in Timer /\ Tcp \notin Timers(list) /\ tick \in Time /\ active /\ pcbs' \in BOOLEAN
      /\ MaxTimeout \in Nat /\ Interval[Tcp] \in Nat /\ NoTimer # Tcp /\ active \in BOOLEAN
      /\ NoTimer \notin Timer
  BY <1>1, TimeoutsAssumption, Widths DEF Where, TypeOK, Timer, Ordered, Present, Queues
<1>3. Ordered' /\ Bounded' /\ Serving' /\ Sleeping' /\ Handling'
  <2>1. CASE pcbs'
    <3>1. list' = Later(list, Tcp) /\ active' = active
      BY <1>1, <1>2, <2>1 DEF TcpTimer
    <3>2. PICK time \in Time : Later(list, Tcp) = Queued(list, Tcp, time) /\ Diff(tick, time) = -Interval[Tcp]
      BY <1>2, LaterIs
    <3>3. -Interval[Tcp] <= Diff(tick, time) /\ Diff(tick, time) <= 0
      BY <1>2, <3>2
    <3> QED BY <1>1, <1>2, <3>1, <3>2, <3>3, HandlerAdds
  <2>2. CASE ~pcbs'
    <3>1. list' = list /\ active' = FALSE
      BY <1>1, <1>2, <2>2 DEF TcpTimer
    <3>2. Present'
      BY <1>1, <1>2, <3>1 DEF Ordered, Present, Queues
    <3>3. Slept = 0 /\ Slept' = 0
      BY <1>1 DEF Slept
    <3>4. Bounded'
      BY <1>1, <3>1, <3>3, StaysBounded
    <3>5. Serving'
      BY <1>1, <3>1 DEF Serving, D
    <3> QED BY <1>1, <3>1, <3>2, <3>4, <3>5 DEF Ordered, Sleeping, Handling
  <2> QED BY <2>1, <2>2
<1>4. TypeOK'
  BY <1>1, <1>2, <1>3 DEF TypeOK, Ordered, Timeouts
<1>5. Where'
  BY <1>1, <1>2 DEF Where
<1> QED BY <1>3, <1>4, <1>5

-----------------------------------------------------------------------------
(* The first timeout leaves the list. *)

LEMMA TailIs ==
  ASSUME NEW q \in Timeouts, q # << >>, Distinct(q), NEW t, Sorted(q, t)
  PROVE  /\ Tail(q) \in Timeouts /\ Distinct(Tail(q)) /\ Sorted(Tail(q), t)
         /\ In(Tail(q)) \subseteq In(q)
         /\ Timers(Tail(q)) = Timers(q) \ {q[1][1]}
<1>1. /\ Tail(q) \in Timeouts /\ Len(q) \in Nat /\ Len(q) # 0 /\ Len(Tail(q)) = Len(q) - 1
      /\ \A i \in 1 .. Len(Tail(q)) : Tail(q)[i] = q[i + 1]
  BY DEF Timeouts
<1>2. PICK r : r = Tail(q)
  OBVIOUS
<1>3. \A i \in 1 .. Len(r) : \E a \in 1 .. Len(q) : r[i] = q[a] /\ a = i + 1
  <2> SUFFICES ASSUME NEW i \in 1 .. Len(r) PROVE \E a \in 1 .. Len(q) : r[i] = q[a] /\ a = i + 1
    OBVIOUS
  <2>1. i + 1 \in 1 .. Len(q) /\ r[i] = q[i + 1]
    BY <1>1, <1>2
  <2> QED BY <2>1
<1>4. \A a \in 1 .. Len(q) : a # 1 => \E i \in 1 .. Len(r) : r[i] = q[a]
  <2> SUFFICES ASSUME NEW a \in 1 .. Len(q), a # 1 PROVE \E i \in 1 .. Len(r) : r[i] = q[a]
    OBVIOUS
  <2>1. a - 1 \in 1 .. Len(r) /\ (a - 1) + 1 = a
    BY <1>1, <1>2
  <2>2. r[a - 1] = q[(a - 1) + 1]
    BY <1>1, <1>2, <2>1
  <2> QED BY <2>1, <2>2
<1>5. Distinct(r)
  <2> SUFFICES ASSUME NEW i \in 1 .. Len(r), NEW j \in 1 .. Len(r), r[i][1] = r[j][1] PROVE i = j
    BY DEF Distinct
  <2>1. PICK a \in 1 .. Len(q) : r[i] = q[a] /\ a = i + 1
    BY <1>3
  <2>2. PICK b \in 1 .. Len(q) : r[j] = q[b] /\ b = j + 1
    BY <1>3
  <2>3. a = b
    BY <2>1, <2>2 DEF Distinct
  <2> QED BY <1>1, <1>2, <2>1, <2>2, <2>3
<1>6. Sorted(r, t)
  <2> SUFFICES ASSUME NEW i \in 1 .. Len(r), NEW j \in 1 .. Len(r), i < j
               PROVE  Diff(t, r[j][2]) <= Diff(t, r[i][2])
    BY DEF Sorted
  <2>1. PICK a \in 1 .. Len(q) : r[i] = q[a] /\ a = i + 1
    BY <1>3
  <2>2. PICK b \in 1 .. Len(q) : r[j] = q[b] /\ b = j + 1
    BY <1>3
  <2>3. a < b
    BY <1>1, <1>2, <2>1, <2>2
  <2> QED BY <2>1, <2>2, <2>3 DEF Sorted
<1>7. In(r) \subseteq In(q)
  BY <1>3 DEF In
<1>8. Timers(r) = Timers(q) \ {q[1][1]}
  <2>1. ASSUME NEW e \in In(r) PROVE e[1] \in Timers(q) /\ e[1] # q[1][1]
    <3>1. PICK i \in 1 .. Len(r) : e = r[i]
      BY DEF In
    <3>2. PICK a \in 1 .. Len(q) : r[i] = q[a] /\ a = i + 1
      BY <1>3
    <3>3. a # 1 /\ 1 \in 1 .. Len(q)
      BY <1>1, <1>2, <3>2
    <3> QED BY <3>1, <3>2, <3>3 DEF In, Timers, Distinct
  <2>2. ASSUME NEW e \in In(q), e[1] # q[1][1] PROVE e \in In(r)
    <3>1. PICK a \in 1 .. Len(q) : e = q[a]
      BY DEF In
    <3> QED BY <1>4, <2>2, <3>1 DEF In
  <2> QED BY <2>1, <2>2 DEF Timers
<1> QED BY <1>1, <1>2, <1>5, <1>6, <1>7, <1>8

LEMMA ExpireKeeps == TInv /\ Expire => TInv'
<1> SUFFICES ASSUME TInv, Expire PROVE TInv'
  OBVIOUS
<1> USE DEF TInv
<1>1. /\ pc = "check" /\ pc' = "handler" /\ list # << >> /\ ~Less(now, list[1][2]) /\ list' = Tail(list)
      /\ run' = list[1][1] /\ due' = list[1][2] /\ run = NoTimer /\ ~app
      /\ UNCHANGED <<active, pcbs, tick, now, sleep, app, fresh, phase>>
  BY DEF Expire, Expired, Where
<1>2. PICK h \in Timer, u \in Time : list[1] = <<h, u>> /\ h \in Timers(list) /\ list[1] \in In(list)
  BY <1>1, FirstIs DEF Timers
<1>3. run' = h /\ due' = u /\ NoTimer \notin Timer /\ tick \in Time /\ now \in Time /\ MaxTimeout \in Nat
  BY <1>1, <1>2, TimeoutsAssumption, Widths DEF TypeOK
<1>4. /\ list' \in Timeouts /\ Distinct(list') /\ Sorted(list', tick')
      /\ In(list') \subseteq In(list) /\ Timers(list') = Timers(list) \ {h}
  BY <1>1, <1>2, TailIs DEF Ordered
<1>5. Present'
  <2>1. h = Tcp => active
    BY <1>2 DEF Ordered, Present, Queues
  <2> QED BY <1>1, <1>3, <1>4, <2>1 DEF Ordered, Present, Queues
<1>6. TypeOK'
  BY <1>1, <1>3, <1>4 DEF TypeOK, Timeouts
<1>7. Bounded'
  <2>1. Slept = 0 /\ Slept' = 0
    BY <1>1 DEF Slept
  <2> QED BY <1>1, <1>4, <2>1, StaysBounded
<1>8. Where' /\ Sleeping'
  <2>1. h = Tcp => active
    BY <1>2 DEF Ordered, Present, Queues
  <2> QED BY <1>1, <1>3, <2>1 DEF Where, Sleeping
<1>9. Serving'
  BY <1>1, <1>4 DEF Serving, D
<1>10. Handling'
  <2>1. Diff(now, u) >= 0
    <3>1. Diff(now, u) \in -(MaxTimeout + 1) .. MaxTimeout /\ ~(Diff(now, u) < 0)
      BY <1>1, <1>2, <1>3, DiffFacts
    <3> QED BY <1>3, <3>1
  <2>2. 0 <= Diff(tick, now) /\ Diff(tick, now) <= Diff(tick, u)
    BY <1>1, <1>2, <2>1 DEF Serving, D
  <2>3. Diff(tick, u) <= LateMax \/ \E k \in Cyclic : Diff(tick, u) <= Interval[k]
    <3>1. Timely(list[1], D(list[1]) + Slept) /\ Slept = 0 /\ D(list[1]) \in Int /\ D(list[1]) = Diff(tick, u)
      BY <1>1, <1>2, InList DEF Slept, D
    <3> QED BY <3>1 DEF Timely
  <2> QED BY <1>1, <1>3, <2>2, <2>3 DEF Handling
<1> QED BY <1>4, <1>5, <1>6, <1>7, <1>8, <1>9, <1>10 DEF Ordered

-----------------------------------------------------------------------------
(* A tick. *)

LEMMA TickDiff ==
  ASSUME NEW t \in Time, NEW x \in Time, Diff(t, x) < MaxTimeout
  PROVE  (t + 1) % Wrap \in Time /\ Diff((t + 1) % Wrap, x) = Diff(t, x) + 1
<1>1. 1 \in 0 .. MaxTimeout /\ MaxTimeout \in Nat
  <2>1. Interval[Tcp] \in Nat /\ Interval[Tcp] > 0 /\ LateMax \in Nat /\ MaxTimeout \in Nat
        /\ Interval[Tcp] + Interval[Tcp] + LateMax <= MaxTimeout
    BY Widths
  <2> QED BY <2>1
<1>2. PICK u \in Time : u = (t + 1) % Wrap /\ Diff(u, t) = 1
  BY <1>1, Ahead
<1>3. Diff(t, x) \in -(MaxTimeout + 1) .. MaxTimeout
  BY DiffFacts
<1>4. Diff(u, t) + Diff(t, x) \in -(MaxTimeout + 1) .. MaxTimeout
  BY <1>1, <1>2, <1>3
<1>5. Diff(u, x) = Diff(u, t) + Diff(t, x)
  BY <1>2, <1>4, DiffAdds
<1> QED BY <1>1, <1>2, <1>3, <1>5

LEMMA LateIs ==
  ASSUME TInv, NEW e \in In(list)
  PROVE  Late(e) = D(e) + Slept
<1> USE DEF TInv
<1>1. /\ e[2] \in Time /\ e[1] \in Timer /\ D(e) \in Int /\ Slept \in Nat /\ -Interval[e[1]] <= D(e)
      /\ D(e) + Slept < MaxTimeout /\ tick \in Time
  BY InList DEF TypeOK
<1>2. CASE pc \in {"fetch", "asleep"}
  <2>1. PICK h \in Timer : sleep <= Interval[h]
    BY <1>2 DEF Sleeping
  <2>2. PICK n \in 0 .. MaxTimeout : n = sleep
    <3>1. Interval[h] \in Nat /\ LateMax \in Nat /\ MaxTimeout \in Nat
          /\ Interval[h] + Interval[h] + LateMax <= MaxTimeout
      BY Widths
    <3>2. sleep \in Nat
      BY <1>1, <1>2 DEF Slept
    <3> QED BY <2>1, <3>1, <3>2
  <2>3. PICK a \in Time : /\ Diff(tick + n, e[2]) = Diff(a, e[2])
                          /\ Diff(a, tick) = n
    BY <1>1, Ahead
  <2>4. Diff(a, tick) + D(e) \in -(MaxTimeout + 1) .. MaxTimeout
    <3>1. Interval[e[1]] \in Nat /\ LateMax \in Nat /\ MaxTimeout \in Nat
          /\ Interval[e[1]] + Interval[e[1]] + LateMax <= MaxTimeout
      BY <1>1, Widths
    <3> QED BY <1>1, <1>2, <2>2, <2>3, <3>1 DEF Slept
  <2>5. Diff(a, e[2]) = Diff(a, tick) + Diff(tick, e[2])
    BY <1>1, <2>4, DiffAdds DEF D
  <2>6. Late(e) = Diff(tick + n, e[2]) /\ Slept = n
    BY <1>2, <2>2 DEF Late, Serves, Slept
  <2> QED BY <1>1, <2>2, <2>3, <2>5, <2>6 DEF D
<1>3. CASE pc \notin {"fetch", "asleep"}
  <2>1. Late(e) = D(e) /\ Slept = 0
    BY <1>3 DEF Late, Serves, Slept, D
  <2> QED BY <1>1, <2>1
<1> QED BY <1>2, <1>3

LEMMA TickKeeps == TInv /\ Tick => TInv'
<1> SUFFICES ASSUME TInv, Tick PROVE TInv'
  OBVIOUS
<1> USE DEF TInv
<1>1. /\ tick' = (tick + 1) % Wrap
      /\ UNCHANGED <<list, due, active, pcbs, now, run, app, fresh>>
      /\ phase' = [h \in Cyclic |-> (phase[h] + 1) % Interval[h]]
      /\ \/ pc # "asleep" /\ pc' = pc /\ sleep' = sleep
         \/ pc = "asleep" /\ sleep' = sleep - 1 /\ pc' = (IF sleep = 1 THEN "timeout" ELSE pc)
  BY DEF Tick, timers
<1>2. tick \in Time /\ now \in Time /\ due \in Time /\ sleep \in Nat /\ sleep \in Time /\ MaxTimeout \in Nat
      /\ LateMax \in Nat /\ LateMax < MaxTimeout
  <2>1. Interval[Tcp] \in Nat /\ Interval[Tcp] > 0 /\ LateMax \in Nat /\ MaxTimeout \in Nat
        /\ Interval[Tcp] + Interval[Tcp] + LateMax <= MaxTimeout
    BY Widths
  <2> QED BY <2>1, Widths DEF TypeOK
<1>3. ASSUME NEW x \in Time, Diff(tick, x) < MaxTimeout
      PROVE  tick' \in Time /\ Diff(tick', x) = Diff(tick, x) + 1
  BY <1>1, <1>2, <1>3, TickDiff
<1>4. tick' \in Time
  <2>1. Diff(tick, tick) = 0 /\ 0 < MaxTimeout
    BY <1>2, DiffFacts
  <2> QED BY <1>2, <1>3, <2>1
<1>5. ASSUME NEW e \in In(list)
      PROVE  /\ D(e) \in Int /\ Slept \in Nat /\ e[1] \in Timer /\ Interval[e[1]] \in Nat
             /\ -Interval[e[1]] <= D(e) /\ Timely(e, D(e) + Slept)
             /\ Diff(tick', e[2]) = D(e) + 1
             /\ pc # "asleep" => D(e) + Slept < LateMax
  <2>1. /\ D(e) \in Int /\ Slept \in Nat /\ e[1] \in Timer /\ e[2] \in Time
        /\ -Interval[e[1]] <= D(e) /\ Timely(e, D(e) + Slept) /\ D(e) + Slept < MaxTimeout
    BY InList
  <2>2. Interval[e[1]] \in Nat
    BY <2>1, Widths
  <2>3. Diff(tick', e[2]) = D(e) + 1
    <3>1. D(e) < MaxTimeout
      BY <1>2, <2>1
    <3> QED BY <1>3, <2>1, <3>1 DEF D
  <2>4. ASSUME pc # "asleep" PROVE D(e) + Slept < LateMax
    <3>1. PICK i \in 1 .. Len(list) : e = list[i]
      BY DEF In
    <3>2. i \in DOMAIN list
      BY <3>1 DEF Ordered, Timeouts
    <3>3. Late(e) < LateMax
      BY <2>4, <3>1, <3>2 DEF Tick
    <3> QED BY <3>3, LateIs
  <2> QED BY <2>1, <2>2, <2>3, <2>4
<1>6. TypeOK'
  <2>1. pc = "asleep" => sleep - 1 \in Time
    <3>1. pc = "asleep" => sleep # 0
      BY DEF Sleeping
    <3> QED BY <1>2, <3>1, Widths
  <2>2. sleep' \in Time /\ pc' \in {"again", "fetch", "asleep", "timeout", "message", "check", "handler"}
    BY <1>1, <1>2, <2>1 DEF TypeOK
  <2>3. phase' \in [Cyclic -> Time]
    <3> SUFFICES ASSUME NEW h \in Cyclic PROVE (phase[h] + 1) % Interval[h] \in Time
      BY <1>1
    <3>1. PICK t \in Nat : t = phase[h] + 1 /\ h \in Timer
      BY Widths DEF TypeOK
    <3> QED BY <3>1, Remainders
  <2> QED BY <1>1, <1>4, <2>2, <2>3 DEF TypeOK
<1>7. Ordered'
  <2>1. Sorted(list, tick')
    <3> SUFFICES ASSUME NEW i \in 1 .. Len(list), NEW j \in 1 .. Len(list), i < j
                 PROVE  Diff(tick', list[j][2]) <= Diff(tick', list[i][2])
      BY DEF Sorted
    <3>1. list[i] \in In(list) /\ list[j] \in In(list)
      BY DEF In
    <3>2. D(list[j]) <= D(list[i])
      BY DEF Ordered, Sorted, D
    <3> QED BY <1>5, <3>1, <3>2
  <2> QED BY <1>1, <2>1 DEF Ordered, Present, Queues
<1>8. Bounded'
  <2> SUFFICES ASSUME NEW e \in In(list)
               PROVE  /\ -Interval[e[1]] <= Diff(tick', e[2])
                      /\ Timely(e, Diff(tick', e[2]) + Slept')
    BY <1>1 DEF Bounded, Timely, D
  <2>1. -Interval[e[1]] <= Diff(tick', e[2])
    BY <1>5
  <2>2. CASE pc # "asleep"
    <3>1. Slept' = Slept
      BY <1>1, <2>2 DEF Slept
    <3>2. Diff(tick', e[2]) + Slept' <= LateMax
      BY <1>2, <1>5, <2>2, <3>1
    <3> QED BY <2>1, <3>2 DEF Timely
  <2>3. CASE pc = "asleep"
    <3>1. Slept = sleep /\ Slept' = sleep - 1
      BY <1>1, <1>2, <2>3 DEF Slept
    <3>2. Diff(tick', e[2]) + Slept' = D(e) + Slept
      BY <1>2, <1>5, <3>1
    <3> QED BY <1>5, <2>1, <3>2
  <2> QED BY <2>2, <2>3
<1>9. Where'
  BY <1>1 DEF Where
<1>10. Sleeping'
  <2>1. CASE pc # "asleep"
    BY <1>1, <2>1 DEF Sleeping
  <2>2. CASE pc = "asleep" /\ sleep # 1
    <3>1. PICK h \in Timer : sleep <= Interval[h] /\ (~active => h \in Cyclic)
      BY <2>2 DEF Sleeping
    <3>2. Interval[h] \in Nat
      BY Widths
    <3>3. sleep' # 0 /\ sleep' <= Interval[h]
      BY <1>1, <1>2, <2>2, <3>1, <3>2
    <3> QED BY <1>1, <2>2, <3>1, <3>3 DEF Sleeping
  <2>3. CASE pc = "asleep" /\ sleep = 1
    BY <1>1, <2>3 DEF Sleeping
  <2> QED BY <2>1, <2>2, <2>3
<1>11. Serving'
  <2> SUFFICES ASSUME pc' \in {"check", "handler"}, NEW e \in In(list), Diff(now, e[2]) >= 0
               PROVE  0 <= Diff(tick', now) /\ Diff(tick', now) <= Diff(tick', e[2])
    BY <1>1 DEF Serving, D
  <2>1. pc = pc' /\ pc # "asleep" /\ Slept = 0
    BY <1>1 DEF Slept
  <2>2. 0 <= Diff(tick, now) /\ Diff(tick, now) <= D(e) /\ D(e) < LateMax /\ D(e) \in Int
    BY <1>5, <2>1 DEF Serving
  <2>3. Diff(tick, now) \in -(MaxTimeout + 1) .. MaxTimeout
    BY <1>2, DiffFacts
  <2>4. Diff(tick', now) = Diff(tick, now) + 1
    <3>1. Diff(tick, now) < MaxTimeout
      BY <1>2, <2>2, <2>3
    <3> QED BY <1>2, <1>3, <3>1
  <2> QED BY <1>2, <1>5, <2>2, <2>3, <2>4
<1>12. Handling'
  <2> SUFFICES ASSUME pc' = "handler"
               PROVE  /\ 0 <= Diff(tick', now) /\ Diff(tick', now) <= Diff(tick', due)
                      /\ Diff(tick', due) <= LateMax
    BY <1>1 DEF Handling
  <2>1. pc = "handler"
    BY <1>1
  <2>2. /\ Diff(tick, due) < LateMax /\ 0 <= Diff(tick, now) /\ Diff(tick, now) <= Diff(tick, due)
    BY <2>1 DEF Tick, Handling
  <2>3. /\ Diff(tick, now) \in -(MaxTimeout + 1) .. MaxTimeout
        /\ Diff(tick, due) \in -(MaxTimeout + 1) .. MaxTimeout
    BY <1>2, DiffFacts
  <2>4. Diff(tick', now) = Diff(tick, now) + 1 /\ Diff(tick', due) = Diff(tick, due) + 1
    <3>1. Diff(tick, now) < MaxTimeout /\ Diff(tick, due) < MaxTimeout
      BY <1>2, <2>2, <2>3
    <3> QED BY <1>2, <1>3, <3>1
  <2> QED BY <1>2, <2>2, <2>3, <2>4
<1> QED BY <1>6, <1>7, <1>8, <1>9, <1>10, <1>11, <1>12

-----------------------------------------------------------------------------
(* The beat of the cyclic timers. *)

LEMMA Rest ==
  ASSUME NEW n \in Nat, n # 0, NEW q \in Int, NEW r \in 0 .. n - 1
  PROVE  (n * q + r) % n = r
OBVIOUS

(* A remainder does not change with a whole turn. *)
LEMMA Turn ==
  ASSUME NEW a \in Int, NEW n \in Nat, n # 0
  PROVE  (a + n) % n = a % n /\ (a - n) % n = a % n
<1>1. PICK q \in Int : q = a \div n
  OBVIOUS
<1>2. PICK r \in 0 .. n - 1 : r = a % n
  OBVIOUS
<1>3. a = n * q + r
  BY <1>1, <1>2
<1>4. a + n = n * (q + 1) + r /\ a - n = n * (q - 1) + r
  BY <1>3
<1>5. PICK u \in Int : u = q + 1
  OBVIOUS
<1>6. PICK v \in Int : v = q - 1
  OBVIOUS
<1>7. (n * u + r) % n = r /\ (n * v + r) % n = r
  BY Rest
<1> QED BY <1>2, <1>4, <1>5, <1>6, <1>7

(* A tick moves the phase and the difference together. *)
LEMMA BeatMoves ==
  ASSUME NEW n \in Nat, n # 0, NEW p \in 0 .. n - 1, NEW d \in Int, (p - d) % n = 0
  PROVE  /\ (p + 1) % n \in 0 .. n - 1
         /\ (((p + 1) % n) - (d + 1)) % n = 0
<1>1. CASE p + 1 = n
  <2>1. (p + 1) % n = 0
    BY <1>1
  <2>2. PICK a \in Int : a = p - d
    OBVIOUS
  <2>3. (a - n) % n = a % n
    BY Turn
  <2>4. 0 - (d + 1) = a - n
    BY <1>1, <2>2
  <2> QED BY <2>1, <2>2, <2>3, <2>4
<1>2. CASE p + 1 # n
  <2>1. (p + 1) % n = p + 1 /\ (p + 1) - (d + 1) = p - d /\ p + 1 \in 0 .. n - 1
    BY <1>2
  <2> QED BY <2>1
<1> QED BY <1>1, <1>2

Beats ==
  /\ \A h \in Cyclic : phase[h] \in 0 .. Interval[h] - 1
  /\ \A e \in In(list) : e[1] \in Cyclic => OnBeat(e[1], e[2])
  /\ run \in Cyclic => OnBeat(run, due)

LEMMA InitBeats == Init => Beats
<1> SUFFICES ASSUME Init PROVE Beats
  OBVIOUS
<1>1. PICK order \in SetToSeqs(Cyclic) :
        list = FoldLeft(LAMBDA q, h : Later(q, h), << >>, order)
  BY DEF Init
<1>2. PICK n \in Nat : /\ order \in [1 .. n -> Cyclic]
                       /\ \A i, j \in 1 .. n : i # j => order[i] # order[j]
  BY AllOfThem
<1>3. tick \in Time /\ run = NoTimer /\ phase = [h \in Cyclic |-> 0]
  BY DEF Init
<1>4. Started(list, order, n)
  BY <1>1, <1>2, <1>3, Starts
<1>5. ASSUME NEW h \in Cyclic
      PROVE  phase[h] = 0 /\ phase[h] \in 0 .. Interval[h] - 1 /\ (0 - (-Interval[h])) % Interval[h] = 0
  <2>1. PICK m \in Nat : m = Interval[h] /\ m # 0
    BY Widths
  <2>2. (0 - (-m)) % m = 0 /\ 0 \in 0 .. m - 1
    BY <2>1
  <2> QED BY <1>3, <2>1, <2>2
<1>6. \A e \in In(list) : e[1] \in Cyclic => OnBeat(e[1], e[2])
  BY <1>4, <1>5 DEF Started, OnBeat
<1>7. run \notin Cyclic
  BY <1>3, TimeoutsAssumption DEF Timer
<1> QED BY <1>5, <1>6, <1>7 DEF Beats

(* Steps that leave the tick and the phase alone. *)
LEMMA BeatsStay ==
  ASSUME Beats, tick' = tick, phase' = phase,
         \A e \in In(list') : e[1] \in Cyclic => e \in In(list) \/ OnBeat(e[1], e[2]),
         run' \in Cyclic => OnBeat(run', due')
  PROVE  Beats'
BY DEF Beats, OnBeat, Diff

LEMMA BeatsAgain == TInv /\ Beats /\ CyclicTimer => Beats'
<1> SUFFICES ASSUME TInv, Beats, CyclicTimer PROVE Beats'
  OBVIOUS
<1> USE DEF TInv
<1>1. /\ run \in Cyclic /\ run \in Timer /\ run \notin Timers(list) /\ run' \notin Cyclic
      /\ tick' = tick /\ tick \in Time /\ due \in Time /\ phase \in [Cyclic -> Time]
  BY CyclicTimerQueues, TimeoutsAssumption, Widths DEF CyclicTimer, TypeOK, Timer
<1>2. PICK time \in Time :
        /\ list' = Queued(list, run, time)
        /\ -Interval[run] <= Diff(tick, time) /\ Diff(tick, time) <= 0
        /\ \/ phase' = [phase EXCEPT ![run] = 0] /\ Diff(tick, time) = -Interval[run]
           \/ phase' = phase /\ Diff(tick, time) = Diff(tick, due) - Interval[run]
  BY CyclicTimerQueues
<1>3. In(list') = In(list) \cup {<<run, time>>}
  BY <1>1, <1>2, Adds
<1>4. PICK n \in Nat : n = Interval[run] /\ n # 0
  BY <1>1, Widths
<1>5. \A e \in In(list) : e[1] # run
  BY <1>1 DEF Timers
<1>6. CASE phase' = [phase EXCEPT ![run] = 0] /\ Diff(tick, time) = -Interval[run]
  <2>1. phase'[run] = 0 /\ \A h \in Cyclic : h # run => phase'[h] = phase[h]
    BY <1>1, <1>6
  <2>2. (0 - (-n)) % n = 0 /\ 0 \in 0 .. n - 1
    BY <1>4
  <2>3. \A h \in Cyclic : phase'[h] \in 0 .. Interval[h] - 1
    BY <1>4, <2>1, <2>2 DEF Beats
  <2>4. (phase'[run] - Diff(tick, time)) % Interval[run] = 0
    BY <1>4, <1>6, <2>1, <2>2
  <2>5. ASSUME NEW e \in In(list'), e[1] \in Cyclic
        PROVE  (phase'[e[1]] - Diff(tick, e[2])) % Interval[e[1]] = 0
    <3>1. CASE e \in In(list)
      BY <1>5, <2>1, <2>5, <3>1 DEF Beats, OnBeat
    <3>2. CASE e = <<run, time>>
      BY <2>4, <3>2
    <3> QED BY <1>3, <3>1, <3>2
  <2> QED BY <1>1, <2>3, <2>5 DEF Beats, OnBeat, Diff
<1>7. CASE phase' = phase /\ Diff(tick, time) = Diff(tick, due) - Interval[run]
  <2>1. PICK p \in Int : p = phase[run]
    BY <1>1, Widths
  <2>2. PICK d \in Int : d = Diff(tick, due)
    BY <1>1, DiffFacts, Widths
  <2>3. PICK a \in Int : a = p - d
    OBVIOUS
  <2>4. a % n = 0
    BY <1>1, <1>4, <2>1, <2>2, <2>3 DEF Beats, OnBeat
  <2>5. (a + n) % n = a % n
    BY <1>4, Turn
  <2>6. p - (d - n) = a + n
    BY <2>3
  <2>7. OnBeat(run, time)
    BY <1>4, <1>7, <2>1, <2>2, <2>4, <2>5, <2>6 DEF OnBeat
  <2> QED BY <1>1, <1>3, <1>7, <2>7, BeatsStay
<1> QED BY <1>2, <1>6, <1>7

LEMMA BeatsTick == TInv /\ Beats /\ Tick => Beats'
<1> SUFFICES ASSUME TInv, Beats, Tick PROVE Beats'
  OBVIOUS
<1> USE DEF TInv
<1>1. /\ tick' = (tick + 1) % Wrap /\ UNCHANGED <<list, run, due>> /\ tick \in Time /\ due \in Time
      /\ phase' = [h \in Cyclic |-> (phase[h] + 1) % Interval[h]]
      /\ MaxTimeout \in Nat /\ LateMax \in Nat /\ LateMax < MaxTimeout
  <2>1. Interval[Tcp] \in Nat /\ Interval[Tcp] > 0 /\ LateMax \in Nat /\ MaxTimeout \in Nat
        /\ Interval[Tcp] + Interval[Tcp] + LateMax <= MaxTimeout
    BY Widths
  <2> QED BY <2>1 DEF Tick, timers, TypeOK
<1>2. ASSUME NEW h \in Cyclic, NEW x \in Time, OnBeat(h, x), Diff(tick, x) < MaxTimeout
      PROVE  (phase'[h] - Diff(tick', x)) % Interval[h] = 0
  <2>1. PICK n \in Nat : n = Interval[h] /\ n # 0
    BY Widths
  <2>2. PICK p \in 0 .. n - 1 : p = phase[h]
    BY <2>1 DEF Beats
  <2>3. PICK d \in Int : d = Diff(tick, x)
    BY <1>1, DiffFacts, Widths
  <2>4. Diff(tick', x) = d + 1
    BY <1>1, <1>2, <2>3, TickDiff
  <2>5. (p - d) % n = 0
    BY <1>2, <2>1, <2>2, <2>3 DEF OnBeat
  <2>6. (((p + 1) % n) - (d + 1)) % n = 0
    BY <2>1, <2>5, BeatMoves
  <2> QED BY <1>1, <2>1, <2>2, <2>4, <2>6
<1>3. ASSUME NEW h \in Cyclic PROVE phase'[h] \in 0 .. Interval[h] - 1
  <2>1. PICK n \in Nat : n = Interval[h] /\ n # 0
    BY Widths
  <2>2. PICK p \in 0 .. n - 1 : p = phase[h]
    BY <2>1 DEF Beats
  <2>3. (p + 1) % n \in 0 .. n - 1
    BY <2>1
  <2> QED BY <1>1, <2>1, <2>2, <2>3
<1>4. ASSUME NEW e \in In(list), e[1] \in Cyclic
      PROVE  (phase'[e[1]] - Diff(tick', e[2])) % Interval[e[1]] = 0
  <2>1. e[2] \in Time /\ D(e) \in Int /\ Slept \in Nat /\ D(e) + Slept < MaxTimeout
    BY InList
  <2>2. Diff(tick, e[2]) < MaxTimeout
    BY <1>1, <2>1 DEF D
  <2>3. OnBeat(e[1], e[2])
    BY <1>4 DEF Beats
  <2> QED BY <1>2, <1>4, <2>1, <2>2, <2>3
<1>5. ASSUME run \in Cyclic PROVE (phase'[run] - Diff(tick', due)) % Interval[run] = 0
  <2>1. pc = "handler" /\ pc # "asleep"
    BY <1>5, TimeoutsAssumption DEF Where, Timer
  <2>2. Diff(tick, due) < LateMax
    BY <2>1 DEF Tick
  <2>3. Diff(tick, due) < MaxTimeout
    BY <1>1, <2>2, DiffFacts
  <2> QED BY <1>1, <1>2, <1>5, <2>3 DEF Beats
<1> QED BY <1>1, <1>3, <1>4, <1>5 DEF Beats, OnBeat

LEMMA BeatsKept == TInv /\ Beats /\ [Next]_vars => Beats'
<1> SUFFICES ASSUME TInv, Beats, [Next]_vars PROVE Beats'
  OBVIOUS
<1> USE DEF TInv
<1>1. ASSUME UNCHANGED <<list, tick, phase, run, due>> PROVE Beats'
  BY <1>1 DEF Beats, OnBeat, Diff
<1>2. CASE Overdue \/ Sleeptime \/ Fetch \/ Timeout \/ CheckDone \/ Arrives \/ AppLock \/ UNCHANGED vars
  BY <1>1, <1>2 DEF Overdue, Sleeptime, Fetch, Timeout, CheckDone, Arrives, AppLock, vars, timers
<1>3. ASSUME UNCHANGED <<tick, phase, run, due>>, run = NoTimer, NEW pcb \in BOOLEAN, TcpTimerNeeded(pcb)
      PROVE  Beats'
  <2>1. \A e \in In(list') : e \in In(list) \/ e[1] \notin Cyclic
    BY <1>3, TcpNeeds, Widths
  <2> QED BY <1>3, <2>1, TimeoutsAssumption, BeatsStay DEF Timer
<1>4. CASE Handle
  BY <1>3, <1>4 DEF Handle, Where
<1>5. CASE AppDo
  BY <1>3, <1>5 DEF AppDo, Where
<1>6. CASE Expire
  <2>1. /\ list # << >> /\ list' = Tail(list) /\ run' = list[1][1] /\ due' = list[1][2]
        /\ tick' = tick /\ phase' = phase
    BY <1>6 DEF Expire, Expired
  <2>2. In(list') \subseteq In(list) /\ list[1] \in In(list)
    BY <2>1, TailIs, FirstIs DEF Ordered
  <2> QED BY <2>1, <2>2, BeatsStay DEF Beats
<1>7. CASE TcpTimer
  <2>1. /\ run = Tcp /\ Tcp \notin Timers(list) /\ run' \notin Cyclic /\ tick' = tick /\ phase' = phase
        /\ list' = Later(list, Tcp) \/ list' = list
    BY <1>7, TimeoutsAssumption, Widths DEF TcpTimer, Timer, Ordered, Present, Queues
  <2>2. CASE list' = list
    BY <2>1, <2>2, BeatsStay
  <2>3. CASE list' = Later(list, Tcp)
    <3>1. tick \in Time /\ Tcp \in Timer /\ Tcp \notin Cyclic /\ Interval[Tcp] \in Nat
      BY Widths DEF TypeOK
    <3>2. PICK time \in Time : Later(list, Tcp) = Queued(list, Tcp, time) /\ Diff(tick, time) = -Interval[Tcp]
      BY <3>1, LaterIs
    <3>3. -Interval[Tcp] <= Diff(tick, time) /\ Diff(tick, time) <= 0
      BY <3>1, <3>2
    <3>4. In(list') = In(list) \cup {<<Tcp, time>>}
      BY <2>1, <2>3, <3>1, <3>2, <3>3, Adds
    <3> QED BY <2>1, <3>1, <3>4, BeatsStay
  <2> QED BY <2>1, <2>2, <2>3
<1>8. CASE CyclicTimer
  BY <1>8, BeatsAgain
<1>9. CASE Tick
  BY <1>9, BeatsTick
<1> QED BY <1>2, <1>4, <1>5, <1>6, <1>7, <1>8, <1>9 DEF Next, Thread

-----------------------------------------------------------------------------
(* The theorems. *)

LEMMA TInvHolds == Spec => []TInv
<1>1. TInv /\ [Next]_vars => TInv'
  BY OverdueKeeps, SleeptimeKeeps, QuietKeeps, HandleKeeps, AppDoKeeps, CyclicTimerKeeps,
     TcpTimerKeeps, ExpireKeeps, TickKeeps DEF Next, Thread
<1> QED BY <1>1, InitTInv, PTL DEF Spec

(* sys_timeout_abs, lwip_cyclic_timer, tcp_timer_needed and tcpip_tcp_timer  *)
(* keep every timer in the list once, in the order of time across the wrap   *)
(* of OSTickCtr, and never find MEMP_SYS_TIMEOUT empty.                      *)
THEOREM NoTimerIsLost == Spec => []TimersKept
<1>1. TInv => TimersKept
  <2> SUFFICES ASSUME TInv PROVE TimersKept
    OBVIOUS
  <2> USE DEF TInv
  <2>1. /\ list \in Timeouts /\ Distinct(list) /\ Sorted(list, tick) /\ Present /\ tick \in Time
        /\ DOMAIN list = 1 .. Len(list) /\ Tcp \in Timer /\ Cyclic \subseteq Timer /\ Tcp \notin Cyclic
    BY Widths DEF Ordered, Timeouts, TypeOK
  <2>2. ASSUME NEW h \in Timer PROVE Cardinality(Here(h)) = IF Queues(h) THEN 1 ELSE 0
    <3>1. CASE h \in Timers(list)
      <4>1. PICK i \in 1 .. Len(list) : list[i][1] = h
        BY <3>1 DEF Timers, In
      <4>2. Here(h) = {i}
        BY <2>1, <4>1 DEF Here, Distinct
      <4>3. Cardinality(Here(h)) = 1
        BY <4>2, FS_Singleton
      <4> QED BY <2>1, <3>1, <4>3 DEF Present
    <3>2. CASE h \notin Timers(list)
      <4>1. Here(h) = {}
        BY <2>1, <3>2 DEF Here, Timers, In
      <4> QED BY <2>1, <3>2, <4>1, FS_EmptySet DEF Present
    <3> QED BY <3>1, <3>2
  <2>3. ASSUME NEW i \in 1 .. Len(list), NEW j \in 1 .. Len(list), i < j
        PROVE  ~Less(list[j][2], list[i][2])
    <3>1. list[i] \in In(list) /\ list[j] \in In(list)
      BY DEF In
    <3>2. PICK e \in In(list), f \in In(list) : e = list[i] /\ f = list[j]
      BY <3>1
    <3>3. /\ e \in Timer \X Time /\ Near(e, tick) /\ D(e) \in Int /\ e[2] \in Time
          /\ f \in Timer \X Time /\ Near(f, tick) /\ D(f) \in Int /\ f[2] \in Time
      BY InList
    <3>4. Diff(f[2], e[2]) = D(e) - D(f)
      BY <2>1, <3>3, NearFacts DEF D
    <3>5. D(f) <= D(e)
      BY <2>1, <2>3, <3>2 DEF Sorted, D
    <3>6. ~(Diff(f[2], e[2]) < 0)
      BY <3>3, <3>4, <3>5
    <3> QED BY <3>2, <3>3, <3>6, DiffFacts
  <2> QED BY <2>1, <2>2, <2>3 DEF TimersKept, Queues, Where
<1> QED BY <1>1, TInvHolds, PTL

(* tcpip_timeouts_mbox_fetch: the sleep that sys_timeouts_sleeptime gives    *)
(* makes no timer late, but for the TCP timer that the application starts    *)
(* meanwhile, which is late by an interval at most.                          *)
THEOREM NoTimerOverslept == Spec => []NoOversleep
<1>1. TInv => NoOversleep
  <2> SUFFICES ASSUME TInv, NEW i \in DOMAIN list
               PROVE  \/ Late(list[i]) - LateMax <= 0
                      \/ /\ fresh /\ list[i][1] = Tcp
                         /\ \E h \in Cyclic : Late(list[i]) - LateMax <= Interval[h]
    BY DEF NoOversleep
  <2> USE DEF TInv
  <2>1. PICK e \in In(list) : e = list[i]
    BY DEF Ordered, Timeouts, In
  <2>2. D(e) \in Int /\ Slept \in Nat /\ Timely(e, D(e) + Slept) /\ Late(e) = D(e) + Slept /\ LateMax \in Nat
    BY InList, LateIs, Widths
  <2>3. CASE D(e) + Slept <= LateMax
    BY <2>1, <2>2, <2>3
  <2>4. CASE ~(D(e) + Slept <= LateMax)
    <3>1. PICK h \in Cyclic : fresh /\ e[1] = Tcp /\ D(e) + Slept <= Interval[h]
      BY <2>2, <2>4 DEF Timely
    <3>2. Interval[h] \in Nat
      BY Widths
    <3>3. Late(e) - LateMax <= Interval[h]
      BY <2>2, <3>1, <3>2
    <3> QED BY <2>1, <3>1, <3>3
  <2> QED BY <2>3, <2>4
<1> QED BY <1>1, TInvHolds, PTL

(* lwip_cyclic_timer keeps the beat of every cyclic timer from where it was   *)
(* last queued anew, across the wrap of OSTickCtr.                            *)
THEOREM BeatIsKept == Spec => []InPhase
<1>1. Init => TInv /\ Beats
  BY InitTInv, InitBeats
<1>2. TInv /\ Beats /\ [Next]_vars => Beats'
  BY BeatsKept
<1>3. TInv /\ Beats => InPhase
  <2> SUFFICES ASSUME TInv, Beats, NEW i \in DOMAIN list, list[i][1] \in Cyclic
               PROVE  OnBeat(list[i][1], list[i][2])
    BY DEF InPhase, Beats
  <2>1. list[i] \in In(list)
    BY DEF TInv, Ordered, Timeouts, In
  <2> QED BY <2>1 DEF Beats
<1> QED BY <1>1, <1>2, <1>3, TInvHolds, PTL DEF Spec
=============================================================================
