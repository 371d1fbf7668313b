----------------------------- MODULE OsWaitProof -----------------------------
(***************************************************************************)
(* Proofs about the waits of uC/OS-III, for any tasks, priorities, calls   *)
(* and width of OSTickCtr that WaitAssumption and SuspendAssumption allow. *)
(***************************************************************************)
EXTENDS OsWait, FiniteSetTheorems, WellFoundedInduction, TLAPS

-----------------------------------------------------------------------------
(* Numbers and sequences. *)

LEMMA NatMin ==
  ASSUME NEW S, S \subseteq Nat, S # {}
  PROVE  \E m \in S : \A n \in S : m <= n
<1> DEFINE R == {ss \in Nat \X Nat : ss[1] < ss[2]}
<1>1. IsWellFoundedOn(R, Nat)
  BY NatLessThanWellFounded DEF OpToRel
<1>2. PICK m \in S : \A n \in S : ~(<<n, m>> \in R)
  BY <1>1, WFMin
<1>3. ASSUME NEW n \in S PROVE m <= n
  <2>1. m \in Nat /\ n \in Nat
    OBVIOUS
  <2>2. ~(n < m)
    BY <1>2, <2>1
  <2> QED BY <2>1, <2>2
<1> QED BY <1>3

LEMMA MinIs ==
  ASSUME NEW S, S \subseteq Nat, S # {}
  PROVE  Min(S) \in S /\ \A n \in S : Min(S) <= n
<1>1. \E m \in S : \A n \in S : m <= n
  BY NatMin
<1> QED BY <1>1 DEF Min

LEMMA Largest == \A m \in Nat \ {0} : Max(1 .. m) = m
<1> SUFFICES ASSUME NEW m \in Nat \ {0} PROVE Max(1 .. m) = m
  OBVIOUS
<1>1. m \in 1 .. m /\ \A y \in 1 .. m : m >= y
  OBVIOUS
<1>2. \A x \in 1 .. m : (\A y \in 1 .. m : x >= y) => x = m
  BY <1>1
<1> QED BY <1>1, <1>2 DEF Max

(* A set of positions has a last one. *)
LEMMA LastOne ==
  ASSUME NEW n \in Nat, NEW s \in SUBSET (1 .. n), s # {}
  PROVE  Max(s) \in s /\ \A i \in s : i <= Max(s)
<1> DEFINE B == {b \in Nat : \A i \in s : i <= b}
<1>1. n \in B /\ B \subseteq Nat
  OBVIOUS
<1>2. PICK b \in B : \A c \in B : b <= c
  <2> HIDE DEF B
  <2> QED BY <1>1, NatMin
<1>3. b \in s
  <2> SUFFICES ASSUME b \notin s PROVE FALSE
    OBVIOUS
  <2>1. \A i \in s : i \in Nat \ {0} /\ i < b
    <3>1. \A i \in s : i \in Nat \ {0} /\ i <= b /\ i # b
      OBVIOUS
    <3> QED BY <3>1
  <2>2. b - 1 \in Nat /\ b \in Nat
    <3>1. PICK i \in s : i \in Nat \ {0} /\ i < b
      BY <2>1
    <3> QED BY <3>1
  <2>3. b - 1 \in B
    BY <2>1, <2>2
  <2> QED BY <1>2, <2>2, <2>3
<1>4. \A i \in s : b >= i
  OBVIOUS
<1>5. \E x \in s : \A y \in s : x >= y
  BY <1>3, <1>4
<1>6. Max(s) \in s /\ \A y \in s : Max(s) >= y
  BY <1>5 DEF Max
<1> QED BY <1>6

LEMMA Counted == ASSUME NEW n \in Nat PROVE IsFiniteSet(1 .. n) /\ Cardinality(1 .. n) = n
<1>1. 1 \in Int /\ n \in Int
  OBVIOUS
<1>2. IsFiniteSet(1 .. n) /\ Cardinality(1 .. n) = IF 1 > n THEN 0 ELSE n - 1 + 1
  BY <1>1, FS_Interval
<1> QED BY <1>2

LEMMA ModIs ==
  ASSUME NEW x \in Int, 0 <= x + Wrap, x < Wrap + Wrap
  PROVE  x % Wrap = IF x < 0 THEN x + Wrap ELSE IF x < Wrap THEN x ELSE x - Wrap
<1>1. Wrap \in Nat /\ Wrap > 0
  BY WaitAssumption
<1>2. CASE x < 0
  <2>1. x % Wrap = x + Wrap
    BY <1>1, <1>2
  <2> QED BY <1>2, <2>1
<1>3. CASE 0 <= x /\ x < Wrap
  BY <1>1, <1>3
<1>4. CASE Wrap <= x
  <2>1. x % Wrap = x - Wrap
    BY <1>1, <1>4
  <2> QED BY <1>1, <1>4, <2>1
<1> QED BY <1>1, <1>2, <1>3, <1>4

(* What InsertAt and RemoveAt give. *)
LEMMA Inserted ==
  ASSUME NEW S, NEW q \in Seq(S), NEW e \in S, NEW p \in 1 .. Len(q) + 1
  PROVE  /\ InsertAt(q, p, e) \in Seq(S) /\ Len(InsertAt(q, p, e)) = Len(q) + 1
         /\ \A i \in 1 .. Len(q) + 1, j \in 1 .. Len(q) :
              /\ i < p /\ j = i => InsertAt(q, p, e)[i] = q[j]
              /\ i = p => InsertAt(q, p, e)[i] = e
              /\ i > p /\ i = j + 1 => InsertAt(q, p, e)[i] = q[j]
         /\ InsertAt(q, p, e)[p] = e
<1> DEFINE a == SubSeq(q, 1, p - 1)
           b == SubSeq(q, p, Len(q))
           r == (a \o <<e>>) \o b
<1>1. q \in Seq(S) /\ Len(q) \in Nat /\ p \in Int /\ 1 <= p /\ p <= Len(q) + 1
  OBVIOUS
<1>2. a \in Seq(S) /\ Len(a) = p - 1 /\ \A i \in 1 .. p - 1 : a[i] = q[i]
  BY <1>1
<1>3. b \in Seq(S) /\ Len(b) = Len(q) - p + 1 /\ \A i \in 1 .. Len(q) - p + 1 : b[i] = q[p + i - 1]
  BY <1>1
<1>4. InsertAt(q, p, e) = r
  BY DEF InsertAt
<1> HIDE DEF a, b
<1>5. r \in Seq(S) /\ Len(r) = Len(q) + 1
  <2>1. <<e>> \in Seq(S) /\ Len(<<e>>) = 1 /\ a \in Seq(S) /\ b \in Seq(S)
    BY <1>2, <1>3
  <2>2. PICK c : c = a \o <<e>>
    OBVIOUS
  <2>3. c \in Seq(S) /\ Len(c) = p
    BY <1>1, <1>2, <2>1, <2>2
  <2>4. c \o b \in Seq(S) /\ Len(c \o b) = Len(c) + Len(b)
    BY <2>1, <2>3, SMTT(20)
  <2>5. r = c \o b
    BY <2>2
  <2> HIDE DEF r
  <2> QED BY <1>1, <1>3, <2>3, <2>4, <2>5
<1>6. r[p] = e
  BY <1>1, <1>2, <1>3
<1>7. ASSUME NEW i \in 1 .. Len(q), i < p PROVE r[i] = q[i]
  <2>1. i \in 1 .. p - 1
    BY <1>1, <1>7
  <2>2. r[i] = a[i]
    BY <1>1, <1>2, <1>3, <2>1
  <2> QED BY <1>2, <2>1, <2>2
<1>8. ASSUME NEW i \in 1 .. Len(q) + 1, NEW j \in 1 .. Len(q), i > p, i = j + 1 PROVE r[i] = q[j]
  <2>1. PICK h \in 1 .. Len(q) - p + 1 : h = j - p + 1
    BY <1>1, <1>8
  <2>2. r[i] = b[h]
    BY <1>1, <1>2, <1>3, <1>8, <2>1
  <2>3. b[h] = q[p + h - 1] /\ p + h - 1 = j
    BY <1>1, <1>3, <2>1
  <2> QED BY <2>2, <2>3
<1> HIDE DEF r
<1> QED BY <1>4, <1>5, <1>6, <1>7, <1>8

LEMMA Removed ==
  ASSUME NEW S, NEW q \in Seq(S), NEW p \in 1 .. Len(q)
  PROVE  /\ RemoveAt(q, p) \in Seq(S) /\ Len(RemoveAt(q, p)) = Len(q) - 1
         /\ \A i \in 1 .. Len(q) - 1, j \in 1 .. Len(q) :
              /\ i < p /\ j = i => RemoveAt(q, p)[i] = q[j]
              /\ i >= p /\ j = i + 1 => RemoveAt(q, p)[i] = q[j]
<1> DEFINE a == SubSeq(q, 1, p - 1)
           b == SubSeq(q, p + 1, Len(q))
           r == a \o b
<1>1. q \in Seq(S) /\ Len(q) \in Nat /\ p \in Int /\ 1 <= p /\ p <= Len(q)
  OBVIOUS
<1>2. a \in Seq(S) /\ Len(a) = p - 1 /\ \A i \in 1 .. p - 1 : a[i] = q[i]
  BY <1>1
<1>3. b \in Seq(S) /\ Len(b) = Len(q) - p /\ \A i \in 1 .. Len(q) - p : b[i] = q[p + i]
  BY <1>1
<1>4. RemoveAt(q, p) = r
  BY DEF RemoveAt
<1> HIDE DEF a, b
<1>5. r \in Seq(S) /\ Len(r) = Len(q) - 1
  <2>1. a \in Seq(S) /\ b \in Seq(S)
    BY <1>2, <1>3
  <2>2. a \o b \in Seq(S) /\ Len(a \o b) = Len(a) + Len(b)
    BY <2>1
  <2> QED BY <1>1, <1>2, <1>3, <2>2
<1>6. ASSUME NEW i \in 1 .. Len(q) - 1, i < p PROVE r[i] = q[i]
  <2>1. i \in 1 .. p - 1
    BY <1>1, <1>6
  <2>2. r[i] = a[i]
    BY <1>1, <1>2, <1>3, <2>1
  <2> QED BY <1>2, <2>1, <2>2
<1>7. ASSUME NEW i \in 1 .. Len(q) - 1, NEW j \in 1 .. Len(q), i >= p, j = i + 1 PROVE r[i] = q[j]
  <2>1. PICK h \in 1 .. Len(q) - p : h = i - p + 1
    BY <1>1, <1>7
  <2>2. r[i] = b[h]
    BY <1>1, <1>2, <1>3, <1>7, <2>1
  <2>3. b[h] = q[p + h] /\ p + h = j
    BY <1>1, <1>3, <1>7, <2>1
  <2> QED BY <2>2, <2>3
<1> HIDE DEF r
<1> QED BY <1>4, <1>5, <1>6, <1>7

-----------------------------------------------------------------------------
(* The folds of the model, over a list from its first element on. *)

Combine(op, a, r, x) ==
  CASE op = "sum" -> r + a[x]
    [] op = "wake" -> Wake(r, x, a)
    [] op = "out" -> TimeOut(r, x)
    [] op = "flag" -> IF Met(call[x], a) THEN FlagTaskRdy(r, x) ELSE r

IsFold(g, op, a, b, s, n) ==
  g = [t \in SUBSET (1 .. n) |->
         IF t = {} THEN b ELSE LET x == Max(t) IN Combine(op, a, g[t \ {x}], s[x])]

LEMMA FoldExists ==
  ASSUME NEW op, NEW a, NEW b, NEW s, NEW n \in Nat PROVE \E g : IsFold(g, op, a, b, s, n)
<1> DEFINE B == {m \in Nat : ~\E g : IsFold(g, op, a, b, s, m)}
<1>1. ASSUME B # {} PROVE FALSE
  <2>1. PICK m \in B : \A h \in B : m <= h
    <3>1. B \subseteq Nat
      OBVIOUS
    <3> HIDE DEF B
    <3> QED BY <1>1, <3>1, NatMin
  <2>2. CASE m = 0
    <3> DEFINE g == [t \in {{}} |-> b]
    <3>1. SUBSET (1 .. 0) = {{}}
      OBVIOUS
    <3>2. IsFold(g, op, a, b, s, 0)
      BY <3>1 DEF IsFold
    <3> QED BY <2>1, <2>2, <3>2
  <2>3. CASE m # 0
    <3>1. PICK h \in Nat : m = h + 1
      <4>1. m \in Nat
        OBVIOUS
      <4>2. m - 1 \in Nat /\ m = (m - 1) + 1
        BY <2>3, <4>1
      <4> QED BY <4>2
    <3>2. PICK f : IsFold(f, op, a, b, s, h)
      BY <2>1, <3>1
    <3> DEFINE g == [t \in SUBSET (1 .. m) |->
                 IF t = {} THEN b ELSE Combine(op, a, f[t \ {Max(t)}], s[Max(t)])]
    <3>3. ASSUME NEW t \in SUBSET (1 .. h) PROVE t \in SUBSET (1 .. m) /\ g[t] = f[t]
      <4>1. t \in SUBSET (1 .. m)
        BY <3>1
      <4> QED BY <3>2, <4>1 DEF IsFold
    <3>4. ASSUME NEW t \in SUBSET (1 .. m), t # {} PROVE t \ {Max(t)} \in SUBSET (1 .. h)
      <4>1. PICK x : x = Max(t) /\ x \in t /\ \A i \in t : i <= x
        BY <3>1, <3>4, LastOne
      <4>2. ASSUME NEW i \in t, i # x PROVE i \in 1 .. h
        <5>1. i \in 1 .. h + 1 /\ x \in 1 .. h + 1 /\ i <= x
          BY <3>1, <4>1
        <5> QED BY <4>2, <5>1
      <4> QED BY <4>1, <4>2
    <3>5. g = [t \in SUBSET (1 .. m) |->
                 IF t = {} THEN b ELSE Combine(op, a, g[t \ {Max(t)}], s[Max(t)])]
      <4>1. ASSUME NEW t \in SUBSET (1 .. m), t # {} PROVE f[t \ {Max(t)}] = g[t \ {Max(t)}]
        BY <3>3, <3>4, <4>1
      <4> HIDE DEF B
      <4> QED BY <4>1
    <3>6. IsFold(g, op, a, b, s, m)
      <4> HIDE DEF g
      <4> QED BY <3>5 DEF IsFold
    <3> QED BY <2>1, <3>6
  <2> QED BY <2>2, <2>3
<1> QED BY <1>1

(* The results of a fold, one after the other. *)
IsRun(g, op, a, b, s, n) ==
  g[0] = b /\ \A i \in 1 .. n : g[i] = Combine(op, a, g[i - 1], s[i])

LEMMA RunOf ==
  ASSUME NEW op, NEW a, NEW b, NEW s, NEW n \in Nat, NEW f, IsFold(f, op, a, b, s, n)
  PROVE  \E g : IsRun(g, op, a, b, s, n) /\ g[n] = f[1 .. n]
<1> DEFINE g == [i \in 0 .. n |-> f[1 .. i]]
<1>1. f = [t \in SUBSET (1 .. n) |->
             IF t = {} THEN b ELSE LET x == Max(t) IN Combine(op, a, f[t \ {x}], s[x])]
  BY DEF IsFold
<1>2. g[0] = b
  <2>1. 1 .. 0 = {} /\ 1 .. 0 \in SUBSET (1 .. n) /\ 0 \in 0 .. n
    OBVIOUS
  <2> QED BY <1>1, <2>1
<1>3. ASSUME NEW i \in 1 .. n PROVE g[i] = Combine(op, a, g[i - 1], s[i])
  <2>1. /\ 1 .. i \in SUBSET (1 .. n) /\ 1 .. i # {} /\ i - 1 \in 0 .. n /\ i \in 0 .. n
        /\ (1 .. i) \ {i} = 1 .. (i - 1)
    <3>1. \A j \in 1 .. i : j \in 1 .. n
      OBVIOUS
    <3>2. i \in 1 .. i /\ i - 1 \in 0 .. n /\ i \in 0 .. n
      OBVIOUS
    <3>3. \A j \in (1 .. i) \ {i} : j \in 1 .. (i - 1)
      OBVIOUS
    <3>4. \A j \in 1 .. (i - 1) : j \in (1 .. i) \ {i}
      OBVIOUS
    <3> QED BY <3>1, <3>2, <3>3, <3>4
  <2>2. Max(1 .. i) = i
    BY Largest
  <2>3. f[1 .. i] = Combine(op, a, f[(1 .. i) \ {i}], s[i])
    BY <1>1, <2>1, <2>2
  <2> QED BY <2>1, <2>3
<1>4. g[n] = f[1 .. n]
  <2>1. n \in 0 .. n
    OBVIOUS
  <2> QED BY <2>1
<1> HIDE DEF g
<1> QED BY <1>2, <1>3, <1>4 DEF IsRun

Total(a, s) == FoldLeft(LAMBDA m, t : m + a[t], 0, s)

LEMMA SumRun ==
  ASSUME NEW n \in Nat, NEW s, DOMAIN s = 1 .. n, NEW a
  PROVE  \E g : IsRun(g, "sum", a, 0, s, n) /\ Total(a, s) = g[n]
<1> DEFINE F == Total(a, s)
<1>1. PICK e : IsFold(e, "sum", a, 0, s, n)
  BY FoldExists
<1>2. e = [t \in SUBSET (1 .. n) |->
             IF t = {} THEN 0 ELSE LET x == Max(t) IN e[t \ {x}] + a[s[x]]]
  BY <1>1 DEF IsFold, Combine
<1>3. PICK f : /\ f = [t \in SUBSET (1 .. n) |->
                    IF t = {} THEN 0 ELSE LET x == Max(t) IN f[t \ {x}] + a[s[x]]]
               /\ F = f[1 .. n]
  BY <1>2 DEF Total, FoldLeft, MapThenFoldSet
<1> HIDE DEF F
<1>4. IsFold(f, "sum", a, 0, s, n)
  BY <1>3 DEF IsFold, Combine
<1>5. \E g : IsRun(g, "sum", a, 0, s, n) /\ g[n] = f[1 .. n]
  BY <1>4, RunOf
<1>6. \E g : IsRun(g, "sum", a, 0, s, n) /\ g[n] = F
  BY <1>3, <1>5
<1> QED BY <1>6 DEF F

-----------------------------------------------------------------------------
(* The tick list: the sums of the ticks of its tasks. *)

LEMMA UntilIs ==
  ASSUME NEW s, s.list \in Seq(Task), s.remain \in [Task -> Int]
  PROVE  /\ Until(s, 0) = 0 /\ \A i \in 0 .. Len(s.list) : Until(s, i) \in Int
         /\ \A i, j \in 0 .. Len(s.list) :
              j = i + 1 => Until(s, j) = Until(s, i) + s.remain[s.list[j]]
<1> DEFINE l == s.list  a == s.remain  n == Len(l)
<1>1. n \in Nat /\ DOMAIN l = 1 .. n /\ l \in Seq(Task) /\ \A i \in 1 .. n : l[i] \in Task
  OBVIOUS
<1>2. PICK g : IsRun(g, "sum", a, 0, l, n)
  BY <1>1, SumRun
<1>3. g[0] = 0 /\ \A i \in 1 .. n : g[i] = g[i - 1] + a[l[i]]
  BY <1>2 DEF IsRun, Combine
<1>4. ASSUME NEW i \in 0 .. n PROVE Until(s, i) = g[i]
  <2> DEFINE sub == SubSeq(l, 1, i)
  <2>1. sub \in Seq(Task) /\ Len(sub) = i /\ DOMAIN sub = 1 .. i /\ \A j \in 1 .. i : sub[j] = l[j]
    BY <1>1
  <2>2. Until(s, i) = Total(a, sub)
    BY DEF Until, Total
  <2> HIDE DEF sub
  <2>3. PICK h : IsRun(h, "sum", a, 0, sub, i) /\ Total(a, sub) = h[i]
    BY <2>1, SumRun
  <2>4. h[0] = 0 /\ \A j \in 1 .. i : h[j] = h[j - 1] + a[sub[j]]
    BY <2>3 DEF IsRun, Combine
  <2> DEFINE B == {j \in 0 .. i : h[j] # g[j]}
  <2>5. ASSUME B # {} PROVE FALSE
    <3>1. PICK m \in B : \A j \in B : m <= j
      <4>1. B \subseteq Nat
        OBVIOUS
      <4> HIDE DEF B
      <4> QED BY <2>5, <4>1, NatMin
    <3>2. m # 0
      BY <1>3, <2>4, <3>1
    <3>3. PICK j \in 0 .. i : j = m - 1 /\ m \in 1 .. i /\ m \in 1 .. n
      BY <3>1, <3>2
    <3>4. h[j] = g[j]
      BY <3>1, <3>3
    <3> QED BY <1>3, <2>1, <2>4, <3>1, <3>3, <3>4
  <2>6. h[i] = g[i]
    BY <2>5
  <2> QED BY <2>2, <2>3, <2>6
<1>5. \A i \in 0 .. n : g[i] \in Int
  <2> DEFINE B == {j \in 0 .. n : g[j] \notin Int}
  <2>1. ASSUME B # {} PROVE FALSE
    <3>1. PICK m \in B : \A j \in B : m <= j
      <4>1. B \subseteq Nat
        OBVIOUS
      <4> HIDE DEF B
      <4> QED BY <2>1, <4>1, NatMin
    <3>2. m # 0
      BY <1>3, <3>1
    <3>3. PICK j \in 0 .. n : j = m - 1 /\ m \in 1 .. n
      BY <3>1, <3>2
    <3>4. g[j] \in Int /\ a[l[m]] \in Int
      BY <1>1, <3>1, <3>3
    <3> QED BY <1>3, <3>1, <3>3, <3>4
  <2> QED BY <2>1
<1>6. Until(s, 0) = 0
  BY <1>1, <1>3, <1>4
<1>7. ASSUME NEW i \in 0 .. n, NEW j \in 0 .. n, j = i + 1
      PROVE  Until(s, j) = Until(s, i) + a[l[j]]
  <2>1. j \in 1 .. n /\ i = j - 1
    BY <1>1, <1>7
  <2> QED BY <1>3, <1>4, <2>1
<1> QED BY <1>4, <1>5, <1>6, <1>7

AreSums(u, s) ==
  /\ u[0] = 0
  /\ \A i, j \in 0 .. Len(s.list) : j = i + 1 => u[j] = u[i] + s.remain[s.list[j]]

(* There are no other sums. *)
LEMMA UntilAre ==
  ASSUME NEW s, s.list \in Seq(Task), s.remain \in [Task -> Int], NEW u, AreSums(u, s)
  PROVE  \A i \in 0 .. Len(s.list) : Until(s, i) = u[i]
<1> USE DEF AreSums
<1> DEFINE n == Len(s.list)
           B == {j \in 0 .. n : Until(s, j) # u[j]}
<1>1. n \in Nat
  OBVIOUS
<1>2. ASSUME B # {} PROVE FALSE
  <2>1. PICK m \in B : \A j \in B : m <= j
    <3>1. B \subseteq Nat
      OBVIOUS
    <3> HIDE DEF B
    <3> QED BY <1>2, <3>1, NatMin
  <2>2. m # 0
    BY <2>1, UntilIs
  <2>3. PICK j \in 0 .. n : j = m - 1 /\ m \in 0 .. n /\ m = j + 1
    BY <1>1, <2>1, <2>2
  <2>4. Until(s, j) = u[j]
    BY <2>1, <2>3
  <2>5. Until(s, m) = Until(s, j) + s.remain[s.list[m]]
    BY <2>3, UntilIs
  <2> QED BY <2>1, <2>3, <2>4, <2>5
<1> QED BY <1>2

(* They grow. *)
LEMMA UntilGrows ==
  ASSUME NEW s, s.list \in Seq(Task), s.remain \in [Task -> Nat],
         NEW i \in 0 .. Len(s.list), NEW j \in i .. Len(s.list)
  PROVE  Until(s, i) <= Until(s, j)
<1> DEFINE n == Len(s.list)
           B == {m \in i .. n : ~(Until(s, i) <= Until(s, m))}
<1>1. n \in Nat /\ s.remain \in [Task -> Int]
  OBVIOUS
<1>2. ASSUME B # {} PROVE FALSE
  <2>1. PICK m \in B : \A h \in B : m <= h
    <3>1. B \subseteq Nat
      OBVIOUS
    <3> HIDE DEF B
    <3> QED BY <1>2, <3>1, NatMin
  <2>2. m # i
    <3>1. Until(s, i) \in Int
      BY <1>1, UntilIs
    <3> QED BY <2>1, <3>1
  <2>3. PICK h \in 0 .. n : h = m - 1 /\ m \in 1 .. n /\ m \in 0 .. n /\ m = h + 1 /\ h \in i .. n
    BY <1>1, <2>1, <2>2
  <2>4. Until(s, i) <= Until(s, h)
    BY <2>1, <2>3
  <2>5. Until(s, m) = Until(s, h) + s.remain[s.list[m]]
    BY <1>1, <2>3, UntilIs
  <2>6. s.remain[s.list[m]] \in Nat
    BY <2>3
  <2>7. Until(s, i) \in Int /\ Until(s, h) \in Int
    BY <1>1, <2>3, UntilIs
  <2> QED BY <2>1, <2>4, <2>5, <2>6, <2>7
<1> QED BY <1>2

(* The tasks in the tick list with the ticks until their waits are over. *)
Left(s) == {<<s.list[i], Until(s, i)>> : i \in 1 .. Len(s.list)}

Listed(s) ==
  /\ s.list \in Seq(Task) /\ IsInjective(s.list)
  /\ s.remain \in [Task -> Time]
  /\ s.list # <<>> => s.remain[Head(s.list)] > 0
  /\ \A e \in Left(s) : e[2] < Wrap

LEMMA ListedFacts ==
  ASSUME NEW s, Listed(s)
  PROVE  /\ Len(s.list) \in Nat /\ DOMAIN s.list = 1 .. Len(s.list)
         /\ \A i \in 1 .. Len(s.list) : s.list[i] \in Task
         /\ \A i, j \in 1 .. Len(s.list) : s.list[i] = s.list[j] => i = j
         /\ s.remain \in [Task -> Nat] /\ s.remain \in [Task -> Int]
         /\ Until(s, 0) = 0
         /\ \A i \in 0 .. Len(s.list) : Until(s, i) \in 0 .. Wrap - 1
         /\ \A i, j \in 0 .. Len(s.list) :
              /\ j = i + 1 => Until(s, j) = Until(s, i) + s.remain[s.list[j]]
              /\ i <= j => Until(s, i) <= Until(s, j)
         /\ \A i \in 1 .. Len(s.list) : Until(s, i) > 0
<1> DEFINE n == Len(s.list)
<1>1. n \in Nat /\ DOMAIN s.list = 1 .. n /\ s.list \in Seq(Task) /\ \A i \in 1 .. n : s.list[i] \in Task
  BY DEF Listed
<1>2. \A i, j \in 1 .. n : s.list[i] = s.list[j] => i = j
  BY <1>1 DEF Listed, IsInjective
<1>3. s.remain \in [Task -> Nat] /\ s.remain \in [Task -> Int] /\ Wrap \in Nat /\ Wrap > 0
  BY WaitAssumption DEF Listed, Time
<1>4. Until(s, 0) = 0 /\ \A i \in 0 .. n : Until(s, i) \in Int
  BY <1>1, <1>3, UntilIs
<1>5. \A i, j \in 0 .. n : j = i + 1 => Until(s, j) = Until(s, i) + s.remain[s.list[j]]
  BY <1>1, <1>3, UntilIs
<1>6. ASSUME NEW i \in 0 .. n, NEW j \in 0 .. n, i <= j PROVE Until(s, i) <= Until(s, j)
  <2>1. j \in i .. n
    BY <1>1, <1>6
  <2> QED BY <1>1, <1>3, <2>1, UntilGrows
<1>7. ASSUME NEW i \in 0 .. n PROVE Until(s, i) \in 0 .. Wrap - 1
  <2>1. 0 \in 0 .. n /\ 0 <= i
    BY <1>1
  <2>2. 0 <= Until(s, i)
    BY <1>4, <1>6, <2>1
  <2>3. CASE i = 0
    BY <1>3, <1>4, <2>3
  <2>4. CASE i # 0
    <3>1. i \in 1 .. n
      BY <1>1, <2>4
    <3>2. <<s.list[i], Until(s, i)>> \in Left(s)
      BY <3>1 DEF Left
    <3>3. <<s.list[i], Until(s, i)>>[2] < Wrap
      BY <3>2 DEF Listed
    <3> QED BY <1>3, <1>4, <2>2, <3>3
  <2> QED BY <2>3, <2>4
<1>8. ASSUME NEW i \in 1 .. n PROVE Until(s, i) > 0
  <2>1. 0 \in 0 .. n /\ 1 \in 0 .. n /\ i \in 0 .. n /\ 1 \in 1 .. n /\ 1 <= i
    BY <1>1
  <2>2. s.list # <<>> /\ Head(s.list) = s.list[1]
    BY <1>1, <2>1
  <2>3. Until(s, 1) = Until(s, 0) + s.remain[s.list[1]]
    BY <1>5, <2>1
  <2>4. Until(s, 1) > 0
    <3>1. s.remain[s.list[1]] > 0
      BY <2>2 DEF Listed
    <3>2. s.remain[s.list[1]] \in Nat
      BY <1>1, <1>3, <2>1
    <3> QED BY <1>4, <2>3, <3>1, <3>2
  <2>5. Until(s, 1) <= Until(s, i)
    BY <1>6, <2>1
  <2> QED BY <1>4, <2>1, <2>4, <2>5
<1> QED BY <1>1, <1>2, <1>3, <1>4, <1>5, <1>6, <1>7, <1>8

LEMMA ToSetLeft ==
  ASSUME NEW s, s.list \in Seq(Task) PROVE ToSet(s.list) = {e[1] : e \in Left(s)}
<1>1. DOMAIN s.list = 1 .. Len(s.list)
  OBVIOUS
<1>2. ASSUME NEW t \in ToSet(s.list) PROVE t \in {e[1] : e \in Left(s)}
  <2>1. PICK i \in 1 .. Len(s.list) : t = s.list[i]
    BY <1>1, <1>2 DEF ToSet
  <2>2. <<s.list[i], Until(s, i)>> \in Left(s) /\ <<s.list[i], Until(s, i)>>[1] = t
    BY <2>1 DEF Left
  <2> QED BY <2>2
<1>3. ASSUME NEW t \in {e[1] : e \in Left(s)} PROVE t \in ToSet(s.list)
  BY <1>1 DEF ToSet, Left
<1> QED BY <1>2, <1>3

(* The members of the kernel's data that the tick list has nothing to do with.*)
Rest(r, s) ==
  /\ r.nested = s.nested /\ r.on = s.on /\ r.status = s.status /\ r.rdy = s.rdy
  /\ r.prev = s.prev /\ r.valid = s.valid /\ r.ctr = s.ctr /\ r.flags = s.flags

(* OS_TickListInsert: the new task waits for its ticks and no other one for   *)
(* more or fewer than before.                                                 *)
LEMMA InsertIs ==
  ASSUME NEW s \in Kernel, Listed(s), NEW t \in Task, t \notin ToSet(s.list),
         NEW delta \in 1 .. Wrap - 1, NEW r, r = TickListInsert(s, t, delta)
  PROVE  /\ r \in Kernel /\ Rest(r, s) /\ Listed(r)
         /\ r.state = [s.state EXCEPT ![t] = @ \cup {"dly"}]
         /\ Left(r) = Left(s) \cup {<<t, delta>>}
<1> DEFINE l == s.list  n == Len(s.list)
           later == {j \in DOMAIN l : delta < Until(s, j)}
<1>0. n \in Nat /\ DOMAIN l = 1 .. n /\ Wrap \in Nat /\ l \in Seq(Task)
  BY ListedFacts, WaitAssumption DEF Listed
<1>1. PICK i \in 1 .. n + 1 : /\ i = Min(later \cup {n + 1})
                              /\ \A j \in 1 .. n : j < i => Until(s, j) <= delta
                              /\ i <= n => delta < Until(s, i)
  <2> DEFINE S == later \cup {n + 1}
  <2>1. S \subseteq Nat /\ S # {} /\ \A j \in S : j \in 1 .. n + 1
    BY <1>0
  <2>2. Min(S) \in S /\ \A j \in S : Min(S) <= j
    <3> HIDE DEF S
    <3> QED BY <2>1, MinIs
  <2>3. PICK m \in 1 .. n + 1 : m = Min(S)
    BY <2>1, <2>2
  <2>4. ASSUME NEW j \in 1 .. n, j < m PROVE Until(s, j) <= delta
    <3>1. j \notin S
      <4>1. ~(m <= j)
        BY <2>4
      <4> HIDE DEF S
      <4> QED BY <2>2, <2>3, <4>1
    <3>2. ~(delta < Until(s, j))
      BY <1>0, <3>1
    <3>3. j \in 0 .. n
      BY <1>0
    <3>4. Until(s, j) \in 0 .. Wrap - 1
      BY <3>3, ListedFacts
    <3> QED BY <1>0, <3>2, <3>4
  <2>5. m <= n => delta < Until(s, m)
    BY <1>0, <2>2, <2>3
  <2> QED BY <2>3, <2>4, <2>5
<1>2. PICK h \in 0 .. n : h = i - 1
  BY <1>0
<1>3. PICK own \in Int : own = delta - Until(s, h) /\ own >= 0 /\ own <= Wrap - 1 /\ (h = 0 => own > 0)
  <2>1. Until(s, h) \in 0 .. Wrap - 1 /\ Until(s, 0) = 0
    BY ListedFacts
  <2>2. h # 0 => h \in 1 .. n /\ h < i
    BY <1>0, <1>2
  <2>3. Until(s, h) <= delta
    BY <1>0, <1>1, <2>1, <2>2
  <2> QED BY <1>0, <2>1, <2>3
<1>4. PICK q : q = InsertAt(l, i, t)
  OBVIOUS
<1>5. /\ q \in Seq(Task) /\ Len(q) = n + 1 /\ q[i] = t
      /\ \A a \in 1 .. n + 1, b \in 1 .. n :
           (a < i /\ b = a => q[a] = l[b]) /\ (a > i /\ a = b + 1 => q[a] = l[b])
  <2>1. i \in 1 .. Len(l) + 1
    OBVIOUS
  <2>2. /\ q \in Seq(Task) /\ Len(q) = Len(l) + 1 /\ q[i] = t
        /\ \A a \in 1 .. Len(l) + 1, b \in 1 .. Len(l) :
             (a < i /\ b = a => q[a] = l[b]) /\ (a > i /\ a = b + 1 => q[a] = l[b])
    <3>1. l \in Seq(Task) /\ t \in Task
      BY <1>0
    <3> HIDE DEF l
    <3>2. /\ InsertAt(l, i, t) \in Seq(Task) /\ Len(InsertAt(l, i, t)) = Len(l) + 1
          /\ \A a \in 1 .. Len(l) + 1, b \in 1 .. Len(l) :
               /\ a < i /\ b = a => InsertAt(l, i, t)[a] = l[b]
               /\ a = i => InsertAt(l, i, t)[a] = t
               /\ a > i /\ a = b + 1 => InsertAt(l, i, t)[a] = l[b]
          /\ InsertAt(l, i, t)[i] = t
      BY ONLY <2>1, <3>1, Inserted, SMTT(60)
    <3> QED BY <1>4, <3>2
  <2> QED BY <2>2
<1>6. PICK f : f = [s.remain EXCEPT ![t] = own]
  OBVIOUS
<1>7. PICK g : g = IF i > n THEN f ELSE [f EXCEPT ![l[i]] = @ - own]
  OBVIOUS
<1>8. r = [s EXCEPT !.list = q, !.remain = g, !.state[t] = @ \cup {"dly"}]
  <2>1. i - 1 = h /\ own = delta - Until(s, i - 1)
    BY <1>2, <1>3
  <2>2. TickListInsert(s, t, delta) =
          LET y == Min(later \cup {n + 1})
              o == delta - Until(s, y - 1)
              e == [s.remain EXCEPT ![t] = o]
          IN  [s EXCEPT !.list = InsertAt(@, y, t),
                        !.remain = IF y > n THEN e ELSE [e EXCEPT ![l[y]] = @ - o],
                        !.state[t] = @ \cup {"dly"}]
    BY DEF TickListInsert
  <2> HIDE DEF later
  <2>3. TickListInsert(s, t, delta) =
          [s EXCEPT !.list = InsertAt(@, i, t),
                    !.remain = IF i > n THEN f ELSE [f EXCEPT ![l[i]] = @ - own],
                    !.state[t] = @ \cup {"dly"}]
    BY <1>1, <1>6, <2>1, <2>2
  <2> QED BY <1>4, <1>7, <2>3
<1>9. /\ r.list = q /\ r.remain = g /\ r.state = [s.state EXCEPT ![t] = @ \cup {"dly"}] /\ Rest(r, s)
      /\ r \in [state : {r.state}, nested : {r.nested}, on : {r.on}, status : {r.status},
                rdy : {r.rdy}, prev : {r.prev}, list : {r.list}, remain : {r.remain},
                valid : {r.valid}, ctr : {r.ctr}, flags : {r.flags}]
  BY <1>8 DEF Kernel, Rest
<1>10. \A a \in 1 .. n : l[a] \in Task /\ l[a] # t
  BY <1>0 DEF ToSet
<1>11. g \in [Task -> Time] /\ g[t] = own
       /\ \A a \in 1 .. n : g[l[a]] = IF a = i THEN Until(s, i) - delta ELSE s.remain[l[a]]
  <2>1. s.remain \in [Task -> Time] /\ own \in Time
    BY <1>3 DEF Listed, Time
  <2>2. f \in [Task -> Time] /\ f[t] = own /\ \A a \in 1 .. n : f[l[a]] = s.remain[l[a]]
    BY <1>6, <1>10, <2>1
  <2>3. CASE i > n
    BY <1>7, <2>2, <2>3
  <2>4. CASE i <= n
    <3>1. i \in 1 .. n /\ i \in 0 .. n /\ i = h + 1 /\ g = [f EXCEPT ![l[i]] = @ - own]
      BY <1>0, <1>2, <1>7, <2>4
    <3>2. Until(s, i) = Until(s, h) + s.remain[l[i]]
      BY <3>1, ListedFacts
    <3>3. Until(s, i) \in 0 .. Wrap - 1 /\ Until(s, h) \in 0 .. Wrap - 1 /\ delta < Until(s, i)
      BY <1>1, <3>1, ListedFacts
    <3>4. s.remain[l[i]] \in Time
      BY <1>10, <2>1, <3>1
    <3>5. s.remain[l[i]] - own = Until(s, i) - delta /\ Until(s, i) - delta \in Time
      <4>1. PICK x \in Int : x = s.remain[l[i]]
        BY <3>4 DEF Time
      <4>2. PICK y \in Int : y = Until(s, i) /\ y <= Wrap - 1 /\ delta < y
        BY <1>0, <3>3
      <4>3. PICK z \in Int : z = Until(s, h)
        BY <3>3
      <4>4. y = z + x /\ own = delta - z /\ delta \in Int
        BY <1>0, <1>3, <3>2, <4>1, <4>2, <4>3
      <4>5. x - own = y - delta /\ y - delta \in 0 .. Wrap - 1
        BY <1>0, <4>2, <4>4
      <4> QED BY <4>1, <4>2, <4>5 DEF Time
    <3>6. l[i] \in Task /\ l[i] # t
      BY <1>10, <3>1
    <3>7. g \in [Task -> Time] /\ g[t] = own /\ g[l[i]] = Until(s, i) - delta
      BY <2>2, <3>1, <3>5, <3>6
    <3>8. ASSUME NEW a \in 1 .. n, a # i PROVE g[l[a]] = s.remain[l[a]]
      <4>1. l[a] # l[i]
        BY <3>1, <3>8, ListedFacts
      <4> QED BY <1>10, <2>2, <3>1, <4>1
    <3> QED BY <3>7, <3>8
  <2> QED BY <1>0, <2>3, <2>4
<1>12. PICK u : \A j \in 0 .. n + 1 : /\ j < i => u[j] = Until(s, j)
                                      /\ j = i => u[j] = delta
                                      /\ \A b \in 0 .. n : j > i /\ j = b + 1 => u[j] = Until(s, b)
  <2> DEFINE u == [j \in 0 .. n + 1 |-> IF j < i THEN Until(s, j) ELSE IF j = i THEN delta
                                        ELSE Until(s, j - 1)]
  <2>1. ASSUME NEW j \in 0 .. n + 1
        PROVE  /\ j < i => u[j] = Until(s, j)
               /\ j = i => u[j] = delta
    OBVIOUS
  <2>2. ASSUME NEW j \in 0 .. n + 1, NEW b \in 0 .. n, j > i, j = b + 1 PROVE u[j] = Until(s, b)
    <3>1. j - 1 = b /\ ~(j < i) /\ j # i
      BY <1>0, <2>2
    <3> QED BY <3>1
  <2> HIDE DEF u
  <2> QED BY <2>1, <2>2
<1>13. ASSUME NEW a \in 0 .. n + 1, NEW b \in 0 .. n + 1, b = a + 1
       PROVE  u[b] = u[a] + g[q[b]]
  <2>1. CASE b < i
    <3>1. b \in 1 .. n /\ b \in 1 .. n + 1 /\ a \in 0 .. n /\ b \in 0 .. n /\ b # i
      BY <1>0, <1>13, <2>1
    <3>2. q[b] = l[b] /\ g[l[b]] = s.remain[l[b]]
      BY <1>5, <1>11, <2>1, <3>1
    <3>3. Until(s, b) = Until(s, a) + s.remain[l[b]]
      BY <1>13, <3>1, ListedFacts
    <3>4. u[b] = Until(s, b) /\ u[a] = Until(s, a)
      BY <1>12, <1>13, <2>1
    <3> QED BY <3>2, <3>3, <3>4
  <2>2. CASE b = i
    <3>1. a = h /\ u[a] = Until(s, a) /\ u[b] = delta
      BY <1>2, <1>12, <1>13, <2>2
    <3>2. g[q[b]] = own
      BY <1>5, <1>11, <2>2
    <3>3. Until(s, h) \in 0 .. Wrap - 1
      BY ListedFacts
    <3> QED BY <1>3, <3>1, <3>2, <3>3
  <2>3. CASE b = i + 1
    <3>1. a = i /\ i \in 1 .. n /\ i \in 0 .. n /\ b \in 1 .. n + 1 /\ b > i /\ b - 1 = i
      BY <1>0, <1>13, <2>3
    <3>2. q[b] = l[i] /\ g[l[i]] = Until(s, i) - delta
      BY <1>5, <1>11, <1>13, <3>1
    <3>3. u[a] = delta /\ u[b] = Until(s, i)
      BY <1>12, <1>13, <3>1
    <3>4. Until(s, i) \in 0 .. Wrap - 1
      BY <3>1, ListedFacts
    <3> QED BY <3>2, <3>3, <3>4
  <2>4. CASE b > i + 1
    <3>1. PICK c \in 0 .. n : c = a - 1 /\ a > i
      BY <1>0, <1>13, <2>4
    <3>2. a \in 1 .. n /\ a \in 0 .. n /\ a = c + 1 /\ b \in 1 .. n + 1 /\ b > i /\ a # i /\ b - 1 = a
      BY <1>0, <1>13, <3>1
    <3>3. q[b] = l[a] /\ g[l[a]] = s.remain[l[a]]
      BY <1>5, <1>11, <1>13, <3>2
    <3>4. Until(s, a) = Until(s, c) + s.remain[l[a]]
      BY <3>2, ListedFacts
    <3>5. u[b] = Until(s, a) /\ u[a] = Until(s, c)
      BY <1>12, <1>13, <3>1, <3>2
    <3> QED BY <3>3, <3>4, <3>5
  <2> QED BY <1>0, <2>1, <2>2, <2>3, <2>4
<1>14. \A j \in 0 .. n + 1 : Until(r, j) = u[j]
  <2>1. u[0] = 0
    <3>1. 0 \in 0 .. n + 1 /\ 0 < i
      BY <1>0
    <3> QED BY <1>12, <3>1, ListedFacts
  <2>2. r.list \in Seq(Task) /\ r.remain \in [Task -> Int] /\ Len(r.list) = n + 1
    BY <1>0, <1>5, <1>9, <1>11 DEF Time
  <2>3. \A a, b \in 0 .. Len(r.list) : b = a + 1 => u[b] = u[a] + r.remain[r.list[b]]
    BY <1>9, <1>13, <2>2
  <2>4. \A j \in 0 .. Len(r.list) : Until(r, j) = u[j]
    <3>1. AreSums(u, r)
      BY <2>1, <2>3 DEF AreSums
    <3> QED BY <2>2, <3>1, UntilAre
  <2> QED BY <2>2, <2>4
<1>15. Left(r) = Left(s) \cup {<<t, delta>>}
  <2>1. Len(r.list) = n + 1 /\ r.list = q
    BY <1>5, <1>9
  <2>2. ASSUME NEW e \in Left(r) PROVE e \in Left(s) \cup {<<t, delta>>}
    <3>1. PICK j \in 1 .. n + 1 : e = <<q[j], Until(r, j)>>
      BY <2>1, <2>2 DEF Left
    <3>2. j \in 0 .. n + 1
      BY <1>0
    <3>3. CASE j < i
      <4>1. j \in 1 .. n /\ q[j] = l[j] /\ Until(r, j) = Until(s, j)
        BY <1>0, <1>5, <1>12, <1>14, <3>2, <3>3, SMTT(20)
      <4> QED BY <3>1, <4>1 DEF Left
    <3>4. CASE j = i
      BY <1>5, <1>12, <1>14, <3>1, <3>2, <3>4
    <3>5. CASE j > i
      <4>1. PICK b \in 1 .. n : j = b + 1 /\ b = j - 1
        BY <1>0, <3>5
      <4>2. q[j] = l[b] /\ Until(r, j) = Until(s, b)
        BY <1>5, <1>12, <1>14, <3>2, <3>5, <4>1
      <4> QED BY <3>1, <4>2 DEF Left
    <3> QED BY <1>0, <3>3, <3>4, <3>5
  <2>3. ASSUME NEW e \in Left(s) PROVE e \in Left(r)
    <3>1. PICK b \in 1 .. n : e = <<l[b], Until(s, b)>>
      BY <2>3 DEF Left
    <3>2. PICK j \in 1 .. n + 1 : j \in 0 .. n + 1 /\ IF b < i THEN j = b ELSE j = b + 1 /\ j > i /\ j - 1 = b
      <4>1. CASE b < i
        <5>1. b \in 1 .. n + 1 /\ b \in 0 .. n + 1
          BY <1>0
        <5> QED BY <4>1, <5>1
      <4>2. CASE ~(b < i)
        <5>1. b + 1 \in 1 .. n + 1 /\ b + 1 \in 0 .. n + 1 /\ b + 1 > i /\ (b + 1) - 1 = b
          BY <1>0, <4>2
        <5> QED BY <4>2, <5>1
      <4> QED BY <4>1, <4>2
    <3>3. q[j] = l[b]
      BY <1>5, <3>2
    <3>4. Until(r, j) = Until(s, b)
      BY <1>12, <1>14, <3>2
    <3> QED BY <2>1, <3>1, <3>3, <3>4 DEF Left
  <2>4. <<t, delta>> \in Left(r)
    <3>1. i \in 0 .. n + 1
      BY <1>0
    <3>2. Until(r, i) = delta /\ q[i] = t
      BY <1>5, <1>12, <1>14, <3>1
    <3> QED BY <2>1, <3>2 DEF Left
  <2> QED BY <2>2, <2>3, <2>4
<1>16. Listed(r)
  <2>1. r.list \in Seq(Task) /\ r.remain \in [Task -> Time] /\ Len(r.list) = n + 1
    BY <1>5, <1>9, <1>11
  <2>2. \A e \in Left(r) : e[2] < Wrap
    BY <1>0, <1>15 DEF Listed
  <2>3. ASSUME NEW a \in 1 .. n + 1, NEW b \in 1 .. n + 1, q[a] = q[b] PROVE a = b
    <3>1. ASSUME NEW c \in 1 .. n + 1, c # i
          PROVE  \E d \in 1 .. n : q[c] = l[d] /\ IF c < i THEN c = d ELSE c = d + 1
      <4>1. CASE c < i
        <5>1. c \in 1 .. n
          BY <1>0, <4>1
        <5> QED BY <1>5, <4>1, <5>1
      <4>2. CASE c > i
        <5>1. PICK d \in 1 .. n : c = d + 1
          <6>1. c - 1 \in 1 .. n /\ c = (c - 1) + 1
            BY <1>0, <4>2
          <6> QED BY <6>1
        <5> QED BY <1>5, <4>2, <5>1
      <4> QED BY <1>0, <3>1, <4>1, <4>2
    <3>2. CASE a = i
      <4>1. b # i => FALSE
        BY <1>5, <1>10, <2>3, <3>1, <3>2
      <4> QED BY <3>2, <4>1
    <3>3. CASE b = i
      <4>1. a # i => FALSE
        BY <1>5, <1>10, <2>3, <3>1, <3>3
      <4> QED BY <3>3, <4>1
    <3>4. CASE a # i /\ b # i
      <4>1. PICK c \in 1 .. n : q[a] = l[c] /\ IF a < i THEN a = c ELSE a = c + 1
        BY <3>1, <3>4
      <4>2. PICK d \in 1 .. n : q[b] = l[d] /\ IF b < i THEN b = d ELSE b = d + 1
        BY <3>1, <3>4
      <4>3. c = d
        BY <2>3, <4>1, <4>2, ListedFacts
      <4> QED BY <1>0, <3>4, <4>1, <4>2, <4>3
    <3> QED BY <3>2, <3>3, <3>4
  <2>4. IsInjective(r.list)
    <3>1. DOMAIN q = 1 .. n + 1
      BY <1>0, <1>5
    <3> QED BY <1>9, <2>3, <3>1 DEF IsInjective
  <2>5. r.remain[Head(r.list)] > 0
    <3>1. r.list # <<>> /\ Head(r.list) = q[1]
      BY <1>0, <1>5, <1>9, <2>1
    <3>2. CASE i = 1
      BY <1>2, <1>3, <1>5, <1>9, <1>11, <3>1, <3>2
    <3>3. CASE i # 1
      <4>1. 1 \in 1 .. n /\ 1 \in 1 .. n + 1 /\ 1 < i
        BY <1>0, <3>3
      <4>2. q[1] = l[1] /\ g[l[1]] = s.remain[l[1]]
        BY <1>5, <1>11, <3>3, <4>1
      <4>3. s.remain[l[1]] > 0
        <5>1. l # <<>> /\ Head(l) = l[1]
          BY <1>0, <4>1
        <5> QED BY <5>1 DEF Listed
      <4> QED BY <1>9, <3>1, <4>2, <4>3
    <3> QED BY <3>2, <3>3
  <2> QED BY <2>1, <2>2, <2>4, <2>5 DEF Listed
<1>17. r \in Kernel
  <2>1. s.state[t] \cup {"dly"} \in SUBSET {"dly", "pend", "suspended"}
    BY DEF Kernel
  <2>2. r.state \in [Task -> SUBSET {"dly", "pend", "suspended"}]
    <3>1. s.state \in [Task -> SUBSET {"dly", "pend", "suspended"}]
      BY DEF Kernel
    <3> QED BY <1>9, <2>1, <3>1
  <2>3. r.list \in Seq(Task) /\ r.remain \in [Task -> Time]
    BY <1>5, <1>9, <1>11
  <2> QED BY <1>9, <2>2, <2>3 DEF Kernel, Rest
<1> QED BY <1>9, <1>15, <1>16, <1>17

(* OS_TickListRemove: no other task waits for more or fewer ticks than before.*)
LEMMA RemoveIs ==
  ASSUME NEW s \in Kernel, Listed(s), NEW t \in ToSet(s.list),
         NEW r, r = TickListRemove(s, t)
  PROVE  /\ r \in Kernel /\ Rest(r, s) /\ Listed(r)
         /\ r.state = [s.state EXCEPT ![t] = @ \ {"dly"}]
         /\ Left(r) = {e \in Left(s) : e[1] # t}
<1> DEFINE l == s.list  n == Len(s.list)
<1>0. n \in Nat /\ DOMAIN l = 1 .. n /\ Wrap \in Nat /\ Wrap > 0 /\ l \in Seq(Task) /\ t \in Task
  BY ListedFacts, WaitAssumption DEF Listed, ToSet
<1>1. PICK i \in 1 .. n : i = CHOOSE j \in DOMAIN l : l[j] = t
  BY <1>0 DEF ToSet
<1>2. l[i] = t /\ \A a \in 1 .. n : l[a] \in Task /\ (a # i => l[a] # t)
  <2>1. \E j \in DOMAIN l : l[j] = t
    BY <1>0 DEF ToSet
  <2>2. l[i] = t
    BY <1>1, <2>1
  <2> QED BY <1>0, <2>2, ListedFacts
<1>3. PICK h \in 0 .. n : h = i - 1 /\ i = h + 1 /\ i \in 0 .. n
  BY <1>0
<1>4. PICK q : q = RemoveAt(l, i)
  OBVIOUS
<1>5. /\ q \in Seq(Task) /\ Len(q) = n - 1
      /\ \A a \in 1 .. n - 1, b \in 1 .. n :
           (a < i /\ b = a => q[a] = l[b]) /\ (a >= i /\ b = a + 1 => q[a] = l[b])
  <2>1. l \in Seq(Task) /\ i \in 1 .. Len(l)
    BY <1>0
  <2>2. /\ RemoveAt(l, i) \in Seq(Task) /\ Len(RemoveAt(l, i)) = Len(l) - 1
        /\ \A a \in 1 .. Len(l) - 1, b \in 1 .. Len(l) :
             /\ a < i /\ b = a => RemoveAt(l, i)[a] = l[b]
             /\ a >= i /\ b = a + 1 => RemoveAt(l, i)[a] = l[b]
    <3> HIDE DEF l
    <3> QED BY <2>1, Removed
  <2> QED BY <1>4, <2>2
<1>6. PICK f : f = [s.remain EXCEPT ![t] = 0]
  OBVIOUS
<1>7. PICK g : g = IF i = n THEN f ELSE [f EXCEPT ![l[i + 1]] = @ + s.remain[t]]
  OBVIOUS
<1>8. r = [s EXCEPT !.list = q, !.remain = g, !.state[t] = @ \ {"dly"}]
  <2>1. TickListRemove(s, t) =
          LET y == CHOOSE j \in DOMAIN l : l[j] = t
              e == [s.remain EXCEPT ![t] = 0]
          IN  [s EXCEPT !.list = RemoveAt(@, y),
                        !.remain = IF y = n THEN e ELSE [e EXCEPT ![l[y + 1]] = @ + s.remain[t]],
                        !.state[t] = @ \ {"dly"}]
    BY DEF TickListRemove
  <2>2. TickListRemove(s, t) =
          [s EXCEPT !.list = RemoveAt(@, i),
                    !.remain = IF i = n THEN f ELSE [f EXCEPT ![l[i + 1]] = @ + s.remain[t]],
                    !.state[t] = @ \ {"dly"}]
    BY <1>1, <1>6, <2>1
  <2> QED BY <1>4, <1>7, <2>2
<1>9. /\ r.list = q /\ r.remain = g /\ r.state = [s.state EXCEPT ![t] = @ \ {"dly"}] /\ Rest(r, s)
      /\ r \in [state : {r.state}, nested : {r.nested}, on : {r.on}, status : {r.status},
                rdy : {r.rdy}, prev : {r.prev}, list : {r.list}, remain : {r.remain},
                valid : {r.valid}, ctr : {r.ctr}, flags : {r.flags}]
  BY <1>8 DEF Kernel, Rest
<1>10. /\ g \in [Task -> Time]
       /\ \A a \in 1 .. n : a # i =>
            IF a = i + 1 THEN g[l[a]] = Until(s, a) - Until(s, h) ELSE g[l[a]] = s.remain[l[a]]
  <2>1. s.remain \in [Task -> Time] /\ 0 \in Time
    BY <1>0 DEF Listed, Time
  <2>2. f \in [Task -> Time] /\ \A a \in 1 .. n : a # i => f[l[a]] = s.remain[l[a]]
    BY <1>2, <1>6, <2>1
  <2>3. CASE i = n
    BY <1>0, <1>7, <2>2, <2>3
  <2>4. CASE i < n
    <3>1. PICK p \in 1 .. n : p = i + 1 /\ p \in 0 .. n /\ p # i
      BY <1>0, <2>4
    <3>2. g = [f EXCEPT ![l[p]] = @ + s.remain[t]]
      BY <1>7, <2>4, <3>1
    <3>3. Until(s, i) = Until(s, h) + s.remain[t] /\ Until(s, p) = Until(s, i) + s.remain[l[p]]
      BY <1>2, <1>3, <3>1, ListedFacts
    <3>4. Until(s, i) \in 0 .. Wrap - 1 /\ Until(s, h) \in 0 .. Wrap - 1 /\ Until(s, p) \in 0 .. Wrap - 1
      BY <1>3, <3>1, ListedFacts
    <3>5. s.remain[l[p]] \in Time /\ s.remain[t] \in Time /\ l[p] \in Task
      BY <1>0, <1>2, <2>1, <3>1
    <3>6. s.remain[l[p]] + s.remain[t] = Until(s, p) - Until(s, h)
          /\ s.remain[l[p]] + s.remain[t] \in Time
      <4>1. PICK x \in Nat : x = s.remain[l[p]]
        BY <3>5 DEF Time
      <4>2. PICK y \in Nat : y = s.remain[t]
        BY <3>5 DEF Time
      <4>3. PICK z \in Nat : z = Until(s, h)
        BY <3>4
      <4>4. PICK v \in Nat : v = Until(s, p) /\ v <= Wrap - 1
        BY <1>0, <3>4
      <4>5. PICK w \in Nat : w = Until(s, i)
        BY <3>4
      <4>6. w = z + y /\ v = w + x
        BY <3>3, <4>1, <4>2, <4>3, <4>4, <4>5
      <4>7. x + y = v - z /\ x + y \in 0 .. Wrap - 1
        BY <1>0, <4>4, <4>6
      <4> QED BY <4>1, <4>2, <4>3, <4>4, <4>7 DEF Time
    <3>7. f[l[p]] = s.remain[l[p]]
      BY <2>2, <3>1
    <3>8. g \in [Task -> Time] /\ g[l[p]] = Until(s, p) - Until(s, h)
      BY <2>2, <3>2, <3>5, <3>6, <3>7
    <3>9. ASSUME NEW a \in 1 .. n, a # i, a # p PROVE g[l[a]] = s.remain[l[a]]
      <4>1. l[a] # l[p] /\ l[a] \in Task
        BY <1>2, <3>1, <3>9, ListedFacts
      <4> QED BY <2>2, <3>2, <3>9, <4>1
    <3> QED BY <3>1, <3>8, <3>9
  <2> QED BY <1>0, <2>3, <2>4
<1>11. PICK u : \A j \in 0 .. n - 1 : /\ j < i => u[j] = Until(s, j)
                                      /\ \A b \in 0 .. n : j >= i /\ b = j + 1 => u[j] = Until(s, b)
  <2> DEFINE u == [j \in 0 .. n - 1 |-> IF j < i THEN Until(s, j) ELSE Until(s, j + 1)]
  <2>1. ASSUME NEW j \in 0 .. n - 1, j < i PROVE u[j] = Until(s, j)
    BY <2>1
  <2>2. ASSUME NEW j \in 0 .. n - 1, NEW b \in 0 .. n, j >= i, b = j + 1 PROVE u[j] = Until(s, b)
    <3>1. ~(j < i)
      BY <1>0, <2>2
    <3> QED BY <2>2, <3>1
  <2> HIDE DEF u
  <2> QED BY <2>1, <2>2
<1>12. ASSUME NEW a \in 0 .. n - 1, NEW b \in 0 .. n - 1, b = a + 1
       PROVE  u[b] = u[a] + g[q[b]]
  <2>1. CASE b < i
    <3>1. b \in 1 .. n /\ b \in 1 .. n - 1 /\ a \in 0 .. n /\ b \in 0 .. n /\ b # i /\ b # i + 1 /\ a < i
      BY <1>0, <1>12, <2>1
    <3>2. q[b] = l[b] /\ g[l[b]] = s.remain[l[b]]
      BY <1>5, <1>10, <2>1, <3>1
    <3>3. Until(s, b) = Until(s, a) + s.remain[l[b]]
      BY <1>12, <3>1, ListedFacts
    <3>4. u[b] = Until(s, b) /\ u[a] = Until(s, a)
      BY <1>11, <1>12, <2>1, <3>1
    <3> QED BY <3>2, <3>3, <3>4
  <2>2. CASE b = i
    <3>1. PICK p \in 1 .. n : p = b + 1 /\ p \in 0 .. n /\ p # i /\ p = i + 1 /\ b \in 1 .. n - 1
      BY <1>0, <1>12, <2>2
    <3>2. q[b] = l[p] /\ g[l[p]] = Until(s, p) - Until(s, h)
      BY <1>5, <1>10, <2>2, <3>1
    <3>3. u[b] = Until(s, p)
      BY <1>11, <2>2, <3>1
    <3>4. a = h /\ a < i /\ u[a] = Until(s, h)
      <4>1. a = h /\ a < i
        BY <1>3, <1>12, <2>2
      <4> QED BY <1>11, <4>1
    <3>5. Until(s, h) \in 0 .. Wrap - 1 /\ Until(s, p) \in 0 .. Wrap - 1
      BY <3>1, ListedFacts
    <3> QED BY <3>2, <3>3, <3>4, <3>5
  <2>3. CASE b > i
    <3>1. PICK p \in 1 .. n : p = b + 1 /\ p \in 0 .. n /\ p # i /\ p # i + 1 /\ b \in 1 .. n - 1
      BY <1>0, <1>12, <2>3
    <3>2. b \in 0 .. n /\ b >= i /\ a >= i
      BY <1>0, <1>12, <2>3, <3>1
    <3>3. q[b] = l[p] /\ g[l[p]] = s.remain[l[p]]
      BY <1>5, <1>10, <3>1, <3>2
    <3>4. u[b] = Until(s, p) /\ u[a] = Until(s, b)
      BY <1>11, <1>12, <3>1, <3>2
    <3>5. Until(s, p) = Until(s, b) + s.remain[l[p]]
      BY <3>1, <3>2, ListedFacts
    <3> QED BY <3>3, <3>4, <3>5
  <2> QED BY <1>0, <2>1, <2>2, <2>3
<1>13. \A j \in 0 .. n - 1 : Until(r, j) = u[j]
  <2>1. u[0] = 0
    <3>1. 0 \in 0 .. n - 1 /\ 0 < i
      BY <1>0
    <3> QED BY <1>11, <3>1, ListedFacts
  <2>2. r.list \in Seq(Task) /\ r.remain \in [Task -> Int] /\ Len(r.list) = n - 1
    BY <1>0, <1>5, <1>9, <1>10 DEF Time
  <2>3. \A a, b \in 0 .. Len(r.list) : b = a + 1 => u[b] = u[a] + r.remain[r.list[b]]
    BY <1>9, <1>12, <2>2
  <2>4. \A j \in 0 .. Len(r.list) : Until(r, j) = u[j]
    <3>1. AreSums(u, r)
      BY <2>1, <2>3 DEF AreSums
    <3> QED BY <2>2, <3>1, UntilAre
  <2> QED BY <2>2, <2>4
<1>14. ASSUME NEW j \in 1 .. n - 1
       PROVE  \E b \in 1 .. n : /\ IF j < i THEN b = j ELSE b = j + 1
                                /\ b # i /\ q[j] = l[b] /\ Until(r, j) = Until(s, b)
  <2>0. j \in 0 .. n - 1
    BY <1>0
  <2>1. CASE j < i
    <3>1. j \in 1 .. n /\ j # i
      BY <1>0, <2>1
    <3>2. q[j] = l[j] /\ Until(r, j) = Until(s, j)
      BY <1>5, <1>11, <1>13, <2>0, <2>1, <3>1
    <3> QED BY <2>1, <3>1, <3>2
  <2>2. CASE ~(j < i)
    <3>1. PICK b \in 1 .. n : b = j + 1 /\ b # i /\ j >= i /\ b \in 0 .. n
      BY <1>0, <2>2
    <3>2. q[j] = l[b] /\ Until(r, j) = Until(s, b)
      BY <1>5, <1>11, <1>13, <2>0, <3>1
    <3> QED BY <2>2, <3>1, <3>2
  <2> QED BY <2>1, <2>2
<1>15. Left(r) = {e \in Left(s) : e[1] # t}
  <2>1. Len(r.list) = n - 1 /\ r.list = q
    BY <1>5, <1>9
  <2>2. ASSUME NEW e \in Left(r) PROVE e \in {x \in Left(s) : x[1] # t}
    <3>1. PICK j \in 1 .. n - 1 : e = <<q[j], Until(r, j)>>
      BY <2>1, <2>2 DEF Left
    <3>2. PICK b \in 1 .. n : b # i /\ q[j] = l[b] /\ Until(r, j) = Until(s, b)
      BY <1>14
    <3>3. e = <<l[b], Until(s, b)>> /\ e[1] # t
      BY <1>2, <3>1, <3>2
    <3> QED BY <3>3 DEF Left
  <2>3. ASSUME NEW e \in Left(s), e[1] # t PROVE e \in Left(r)
    <3>1. PICK b \in 1 .. n : e = <<l[b], Until(s, b)>>
      BY <2>3 DEF Left
    <3>2. b # i
      BY <1>2, <2>3, <3>1
    <3>3. PICK j \in 1 .. n - 1 : IF j < i THEN b = j ELSE b = j + 1
      <4>1. CASE b < i
        <5>1. b \in 1 .. n - 1
          BY <1>0, <4>1
        <5> QED BY <4>1, <5>1
      <4>2. CASE b > i
        <5>1. b - 1 \in 1 .. n - 1 /\ ~(b - 1 < i) /\ b = (b - 1) + 1
          BY <1>0, <4>2
        <5> QED BY <5>1
      <4> QED BY <1>0, <3>2, <4>1, <4>2
    <3>4. q[j] = l[b] /\ Until(r, j) = Until(s, b)
      BY <1>14, <3>3
    <3> QED BY <2>1, <3>1, <3>4 DEF Left
  <2> QED BY <2>2, <2>3
<1>16. Listed(r)
  <2>1. r.list \in Seq(Task) /\ r.remain \in [Task -> Time] /\ Len(r.list) = n - 1
    BY <1>5, <1>9, <1>10
  <2>2. \A e \in Left(r) : e[2] < Wrap
    BY <1>15 DEF Listed
  <2>3. ASSUME NEW a \in 1 .. n - 1, NEW b \in 1 .. n - 1, q[a] = q[b] PROVE a = b
    <3>1. PICK c \in 1 .. n : q[a] = l[c] /\ IF a < i THEN c = a ELSE c = a + 1
      BY <1>14
    <3>2. PICK d \in 1 .. n : q[b] = l[d] /\ IF b < i THEN d = b ELSE d = b + 1
      BY <1>14
    <3>3. c = d
      BY <2>3, <3>1, <3>2, ListedFacts
    <3> QED BY <1>0, <3>1, <3>2, <3>3
  <2>4. IsInjective(r.list)
    <3>1. DOMAIN q = 1 .. n - 1
      BY <1>0, <1>5
    <3> QED BY <1>9, <2>3, <3>1 DEF IsInjective
  <2>5. ASSUME r.list # <<>> PROVE r.remain[Head(r.list)] > 0
    <3>1. 1 \in 1 .. n - 1 /\ Head(r.list) = q[1]
      BY <1>0, <1>5, <1>9, <2>1, <2>5
    <3>2. CASE i = 1
      <4>1. PICK p \in 1 .. n : p = 2 /\ p = i + 1 /\ p # i /\ p \in 0 .. n
        BY <1>0, <3>1, <3>2
      <4>2. q[1] = l[p] /\ g[l[p]] = Until(s, p) - Until(s, h)
        BY <1>5, <1>10, <3>1, <3>2, <4>1
      <4>3. h = 0 /\ Until(s, h) = 0 /\ Until(s, p) > 0 /\ Until(s, p) \in 0 .. Wrap - 1
        BY <1>3, <3>2, <4>1, ListedFacts
      <4> QED BY <1>9, <3>1, <4>2, <4>3
    <3>3. CASE i # 1
      <4>1. 1 \in 1 .. n /\ 1 < i /\ 1 # i + 1
        BY <1>0, <3>1, <3>3
      <4>2. q[1] = l[1] /\ g[l[1]] = s.remain[l[1]]
        BY <1>5, <1>10, <3>1, <4>1
      <4>3. l # <<>> /\ Head(l) = l[1]
        BY <1>0, <4>1
      <4> QED BY <1>9, <3>1, <4>2, <4>3 DEF Listed
    <3> QED BY <3>2, <3>3
  <2> QED BY <2>1, <2>2, <2>4, <2>5 DEF Listed
<1>17. r \in Kernel
  <2>1. s.state[t] \ {"dly"} \in SUBSET {"dly", "pend", "suspended"}
    BY <1>0 DEF Kernel
  <2>2. r.state \in [Task -> SUBSET {"dly", "pend", "suspended"}]
    <3>1. s.state \in [Task -> SUBSET {"dly", "pend", "suspended"}]
      BY DEF Kernel
    <3> QED BY <1>9, <2>1, <3>1
  <2>3. r.list \in Seq(Task) /\ r.remain \in [Task -> Time]
    BY <1>5, <1>9, <1>10
  <2> QED BY <1>9, <2>2, <2>3 DEF Kernel, Rest
<1> QED BY <1>9, <1>15, <1>16, <1>17

(* OS_TickListUpdate, before it wakes the tasks whose time is over: all the   *)
(* others wait for a tick less.                                               *)
Over(s) == Cardinality({i \in DOMAIN s.list : Until(s, i) <= 1})
Aged(s, c) ==
  [s EXCEPT !.list = SubSeq(@, c + 1, Len(@)),
            !.remain = [t \in Task |->
              IF s.list # <<>> /\ t = s.list[1] THEN @[t] - 1 ELSE @[t]]]

LEMMA AgeIs ==
  ASSUME NEW s \in Kernel, Listed(s), NEW c, c = Over(s), NEW r, r = Aged(s, c)
  PROVE  /\ c \in 0 .. Len(s.list) /\ \A i \in 1 .. Len(s.list) : i <= c <=> Until(s, i) <= 1
         /\ r \in Kernel /\ Rest(r, s) /\ Listed(r) /\ r.state = s.state
         /\ Left(r) = {<<e[1], e[2] - 1>> : e \in {x \in Left(s) : x[2] > 1}}
<1> DEFINE l == s.list  n == Len(s.list)
           over == {i \in DOMAIN l : Until(s, i) <= 1}
<1>0. n \in Nat /\ DOMAIN l = 1 .. n /\ Wrap \in Nat /\ Wrap > 0 /\ l \in Seq(Task)
      /\ \A a \in 1 .. n : l[a] \in Task
  BY ListedFacts, WaitAssumption DEF Listed
<1>1. PICK m \in 0 .. n : m = c /\ \A i \in 1 .. n : i <= m <=> Until(s, i) <= 1
  <2> DEFINE S == {i \in 1 .. n + 1 : i = n + 1 \/ Until(s, i) > 1}
  <2>1. n + 1 \in S /\ S \subseteq Nat
    BY <1>0
  <2>2. PICK w \in S : \A i \in S : w <= i
    <3> HIDE DEF S
    <3> QED BY <2>1, NatMin
  <2>3. PICK d \in 0 .. n : w = d + 1
    <3>1. w \in 1 .. n + 1
      OBVIOUS
    <3>2. w - 1 \in 0 .. n /\ w = (w - 1) + 1
      BY <1>0, <3>1
    <3> QED BY <3>2
  <2>4. ASSUME NEW i \in 1 .. n PROVE i <= d <=> Until(s, i) <= 1
    <3>0. i \in 0 .. n /\ Until(s, i) \in 0 .. Wrap - 1 /\ Until(s, i) \in Int /\ i # n + 1 /\ i \in 1 .. n + 1
      BY <1>0, ListedFacts
    <3>1. ASSUME i <= d PROVE Until(s, i) <= 1
      <4>1. ~(w <= i)
        BY <2>3, <3>1
      <4>2. i \notin S
        BY <2>2, <4>1
      <4> QED BY <3>0, <4>2
    <3>2. ASSUME ~(i <= d) PROVE ~(Until(s, i) <= 1)
      <4>1. w <= i /\ w # n + 1 /\ w \in 0 .. n
        BY <1>0, <2>3, <3>2
      <4>2. Until(s, w) > 1 /\ Until(s, w) \in 0 .. Wrap - 1
        BY <4>1, ListedFacts
      <4>3. Until(s, w) <= Until(s, i)
        BY <3>0, <4>1, ListedFacts
      <4> QED BY <1>0, <3>0, <4>2, <4>3
    <3> QED BY <3>1, <3>2
  <2>5. over = 1 .. d
    <3>1. ASSUME NEW i \in over PROVE i \in 1 .. d
      <4>1. i \in 1 .. n /\ i <= d
        BY <1>0, <2>4, <3>1
      <4> QED BY <1>0, <4>1
    <3>2. ASSUME NEW i \in 1 .. d PROVE i \in over
      <4>1. i \in 1 .. n /\ i <= d
        BY <1>0
      <4> QED BY <1>0, <2>4, <4>1
    <3> QED BY <3>1, <3>2
  <2>6. c = Cardinality(over)
    BY DEF Over
  <2>7. c = d
    <3> HIDE DEF over
    <3> QED BY <2>5, <2>6, Counted
  <2> QED BY <2>4, <2>7
<1>2. PICK q : q = SubSeq(l, m + 1, n)
  OBVIOUS
<1>3. /\ q \in Seq(Task) /\ Len(q) = n - m
      /\ \A a \in 1 .. n - m, b \in 1 .. n : b = a + m => q[a] = l[b]
  <2>1. m + 1 \in Int /\ n \in Int /\ m \in Int /\ 1 <= m + 1 /\ m + 1 <= n + 1
    BY <1>0, <1>1
  <2>2. q \in Seq(Task) /\ Len(q) = n - m
    BY <1>0, <1>2, <2>1
  <2>3. ASSUME NEW a \in 1 .. n - m, NEW b \in 1 .. n, b = a + m PROVE q[a] = l[b]
    <3>1. a \in 1 .. Len(q) /\ m + 1 + a - 1 = b
      BY <2>1, <2>2, <2>3
    <3>2. q[a] = l[m + 1 + a - 1]
      BY <1>0, <1>2, <2>1, <2>2, <3>1
    <3> QED BY <3>1, <3>2
  <2> QED BY <2>2, <2>3
<1>4. PICK g : g = [t \in Task |-> IF l # <<>> /\ t = l[1] THEN s.remain[t] - 1 ELSE s.remain[t]]
  OBVIOUS
<1>5. r = [s EXCEPT !.list = q, !.remain = g]
  <2>1. r = [s EXCEPT !.list = SubSeq(@, m + 1, n), !.remain = g]
    BY <1>1, <1>4 DEF Aged
  <2> QED BY <1>2, <2>1
<1>6. /\ r.list = q /\ r.remain = g /\ r.state = s.state /\ Rest(r, s)
      /\ r \in [state : {r.state}, nested : {r.nested}, on : {r.on}, status : {r.status},
                rdy : {r.rdy}, prev : {r.prev}, list : {r.list}, remain : {r.remain},
                valid : {r.valid}, ctr : {r.ctr}, flags : {r.flags}]
  BY <1>5 DEF Kernel, Rest
<1>7. g \in [Task -> Time]
  <2>1. s.remain \in [Task -> Time]
    BY DEF Listed
  <2>2. ASSUME NEW t \in Task PROVE g[t] \in Time
    <3>1. s.remain[t] \in 0 .. Wrap - 1
      BY <2>1 DEF Time
    <3>2. CASE l # <<>> /\ t = l[1]
      <4>1. s.remain[t] > 0
        BY <3>2 DEF Listed
      <4> QED BY <1>0, <1>4, <3>1, <3>2, <4>1 DEF Time
    <3>3. CASE ~(l # <<>> /\ t = l[1])
      BY <1>4, <2>1, <3>3
    <3> QED BY <3>2, <3>3
  <2> QED BY <1>4, <2>2
<1>8. \A a \in 1 .. n : g[l[a]] = IF a = 1 THEN s.remain[l[a]] - 1 ELSE s.remain[l[a]]
  <2> SUFFICES ASSUME NEW a \in 1 .. n
               PROVE  g[l[a]] = IF a = 1 THEN s.remain[l[a]] - 1 ELSE s.remain[l[a]]
    OBVIOUS
  <2>1. 1 \in 1 .. n /\ l # <<>> /\ l[a] \in Task
    BY <1>0
  <2>2. l[a] = l[1] <=> a = 1
    BY <2>1, ListedFacts
  <2> QED BY <1>4, <2>1, <2>2
<1>9. m # 0 => Until(s, m) = 1
  <2> SUFFICES ASSUME m # 0 PROVE Until(s, m) = 1
    OBVIOUS
  <2>1. m \in 1 .. n /\ m \in 0 .. n
    BY <1>0, <1>1
  <2>2. Until(s, m) <= 1 /\ Until(s, m) > 0 /\ Until(s, m) \in 0 .. Wrap - 1
    BY <1>1, <2>1, ListedFacts
  <2> QED BY <1>0, <2>2
<1>10. PICK u : u[0] = 0 /\ \A j \in 0 .. n - m, b \in 0 .. n : j # 0 /\ b = j + m => u[j] = Until(s, b) - 1
  <2> DEFINE u == [j \in 0 .. n - m |-> IF j = 0 THEN 0 ELSE Until(s, j + m) - 1]
  <2>1. u[0] = 0
    BY <1>0, <1>1
  <2>2. ASSUME NEW j \in 0 .. n - m, NEW b \in 0 .. n, j # 0, b = j + m PROVE u[j] = Until(s, b) - 1
    BY <2>2
  <2> HIDE DEF u
  <2> QED BY <2>1, <2>2
<1>11. ASSUME NEW a \in 0 .. n - m, NEW b \in 0 .. n - m, b = a + 1 PROVE u[b] = u[a] + g[q[b]]
  <2>1. PICK p \in 1 .. n : p = b + m /\ p \in 0 .. n /\ b \in 1 .. n - m /\ b # 0
    <3>1. b + m \in 1 .. n /\ b + m \in 0 .. n /\ b \in 1 .. n - m
      BY <1>0, <1>1, <1>11
    <3> QED BY <3>1
  <2>2. PICK h \in 0 .. n : h = a + m /\ p = h + 1
    <3>1. a + m \in 0 .. n /\ p = a + m + 1
      BY <1>0, <1>1, <1>11, <2>1
    <3> QED BY <3>1
  <2>3. q[b] = l[p] /\ u[b] = Until(s, p) - 1
    BY <1>3, <1>10, <2>1
  <2>4. Until(s, p) = Until(s, h) + s.remain[l[p]]
    BY <2>1, <2>2, ListedFacts
  <2>5. Until(s, p) \in Int /\ Until(s, h) \in Int /\ s.remain[l[p]] \in Int
    <3>1. Until(s, p) \in 0 .. Wrap - 1 /\ Until(s, h) \in 0 .. Wrap - 1 /\ s.remain[l[p]] \in Nat
      BY <2>1, <2>2, ListedFacts
    <3> QED BY <3>1
  <2>6. CASE a # 0
    <3>1. u[a] = Until(s, h) - 1
      BY <1>10, <2>2, <2>6
    <3>2. p # 1
      BY <1>1, <1>11, <2>1, <2>6
    <3>3. g[l[p]] = s.remain[l[p]]
      BY <1>8, <2>1, <3>2
    <3>4. g[q[b]] = s.remain[l[p]]
      BY <2>3, <3>3
    <3>5. PICK x \in Int, y \in Int, z \in Int :
            x = Until(s, h) /\ y = s.remain[l[p]] /\ z = Until(s, p)
      BY <2>5
    <3>6. z = x + y /\ u[b] = z - 1 /\ u[a] = x - 1 /\ g[q[b]] = y
      BY <2>3, <2>4, <3>1, <3>4, <3>5
    <3> QED BY <3>6
  <2>7. CASE a = 0 /\ m = 0
    <3>1. p = 1 /\ h = 0 /\ Until(s, h) = 0 /\ u[a] = 0
      BY <1>10, <1>11, <2>1, <2>2, <2>7, ListedFacts
    <3>2. g[l[p]] = s.remain[l[p]] - 1
      BY <1>8, <2>1, <3>1
    <3> QED BY <2>3, <2>4, <2>5, <3>1, <3>2
  <2>8. CASE a = 0 /\ m # 0
    <3>1. p # 1 /\ h = m /\ Until(s, h) = 1 /\ u[a] = 0
      BY <1>1, <1>9, <1>10, <1>11, <2>1, <2>2, <2>8
    <3>2. g[l[p]] = s.remain[l[p]]
      BY <1>8, <2>1, <3>1
    <3> QED BY <2>3, <2>4, <2>5, <3>1, <3>2
  <2> QED BY <2>6, <2>7, <2>8
<1>12. \A j \in 0 .. n - m : Until(r, j) = u[j]
  <2>1. r.list \in Seq(Task) /\ r.remain \in [Task -> Int] /\ Len(r.list) = n - m
    BY <1>0, <1>3, <1>6, <1>7 DEF Time
  <2>2. \A a, b \in 0 .. Len(r.list) : b = a + 1 => u[b] = u[a] + r.remain[r.list[b]]
    BY <1>6, <1>11, <2>1
  <2>3. AreSums(u, r)
    BY <1>10, <2>2 DEF AreSums
  <2>4. \A j \in 0 .. Len(r.list) : Until(r, j) = u[j]
    BY <2>1, <2>3, UntilAre
  <2> QED BY <2>1, <2>4
<1>13. ASSUME NEW j \in 1 .. n - m
       PROVE  \E b \in 1 .. n : /\ b = j + m /\ ~(b <= m) /\ q[j] = l[b]
                                /\ Until(r, j) = Until(s, b) - 1 /\ Until(s, b) > 1
  <2>1. PICK b \in 1 .. n : b = j + m /\ b \in 0 .. n /\ ~(b <= m) /\ j # 0 /\ j \in 0 .. n - m
    <3>1. j + m \in 1 .. n /\ j + m \in 0 .. n /\ ~(j + m <= m) /\ j \in 0 .. n - m
      BY <1>0, <1>1
    <3> QED BY <3>1
  <2>2. q[j] = l[b] /\ Until(r, j) = Until(s, b) - 1
    BY <1>3, <1>10, <1>12, <2>1
  <2>3. Until(s, b) \in 0 .. Wrap - 1 /\ ~(Until(s, b) <= 1)
    BY <1>1, <2>1, ListedFacts
  <2> QED BY <1>0, <2>1, <2>2, <2>3
<1>14. Left(r) = {<<e[1], e[2] - 1>> : e \in {x \in Left(s) : x[2] > 1}}
  <2>1. Len(r.list) = n - m /\ r.list = q
    BY <1>3, <1>6
  <2>2. ASSUME NEW e \in Left(r) PROVE e \in {<<x[1], x[2] - 1>> : x \in {y \in Left(s) : y[2] > 1}}
    <3>1. PICK j \in 1 .. n - m : e = <<q[j], Until(r, j)>>
      BY <2>1, <2>2 DEF Left
    <3>2. PICK b \in 1 .. n : q[j] = l[b] /\ Until(r, j) = Until(s, b) - 1 /\ Until(s, b) > 1
      BY <1>13
    <3>3. PICK x : x = <<l[b], Until(s, b)>>
      OBVIOUS
    <3>4. x \in Left(s) /\ x[2] > 1 /\ e = <<x[1], x[2] - 1>>
      BY <3>1, <3>2, <3>3 DEF Left
    <3> QED BY <3>4
  <2>3. ASSUME NEW x \in Left(s), x[2] > 1 PROVE <<x[1], x[2] - 1>> \in Left(r)
    <3>1. PICK b \in 1 .. n : x = <<l[b], Until(s, b)>>
      BY <2>3 DEF Left
    <3>2. ~(b <= m)
      <4>1. b \in 0 .. n /\ Until(s, b) > 1
        BY <1>0, <2>3, <3>1
      <4>2. Until(s, b) \in 0 .. Wrap - 1
        BY <4>1, ListedFacts
      <4> QED BY <1>0, <1>1, <4>1, <4>2
    <3>3. PICK j \in 1 .. n - m : b = j + m
      <4>1. b - m \in 1 .. n - m /\ b = (b - m) + m
        BY <1>0, <1>1, <3>2
      <4> QED BY <4>1
    <3>4. q[j] = l[b] /\ Until(r, j) = Until(s, b) - 1
      BY <1>13, <3>3
    <3> QED BY <2>1, <3>1, <3>4 DEF Left
  <2> QED BY <2>2, <2>3
<1>15. Listed(r)
  <2>1. r.list \in Seq(Task) /\ r.remain \in [Task -> Time] /\ Len(r.list) = n - m
    BY <1>3, <1>6, <1>7
  <2>2. ASSUME NEW e \in Left(r) PROVE e[2] < Wrap
    <3>1. PICK x \in Left(s) : e = <<x[1], x[2] - 1>>
      BY <1>14
    <3>2. PICK b \in 1 .. n : x = <<l[b], Until(s, b)>>
      BY DEF Left
    <3>3. b \in 0 .. n
      BY <1>0
    <3>4. Until(s, b) \in 0 .. Wrap - 1
      BY <3>3, ListedFacts
    <3> QED BY <1>0, <3>1, <3>2, <3>4
  <2>3. ASSUME NEW a \in 1 .. n - m, NEW b \in 1 .. n - m, q[a] = q[b] PROVE a = b
    <3>1. PICK x \in 1 .. n : q[a] = l[x] /\ x = a + m
      BY <1>13
    <3>2. PICK y \in 1 .. n : q[b] = l[y] /\ y = b + m
      BY <1>13
    <3>3. x = y
      BY <2>3, <3>1, <3>2, ListedFacts
    <3> QED BY <1>0, <1>1, <3>1, <3>2, <3>3
  <2>4. IsInjective(r.list)
    <3>1. DOMAIN q = 1 .. n - m
      BY <1>0, <1>3
    <3> QED BY <1>6, <2>3, <3>1 DEF IsInjective
  <2>5. ASSUME r.list # <<>> PROVE r.remain[Head(r.list)] > 0
    <3>1. 1 \in 1 .. n - m /\ 1 \in 0 .. n - m /\ 0 \in 0 .. n - m /\ Head(r.list) = q[1]
      BY <1>0, <1>3, <1>6, <2>1, <2>5
    <3>2. u[1] = u[0] + g[q[1]]
      BY <1>11, <3>1
    <3>3. PICK b \in 1 .. n : Until(r, 1) = Until(s, b) - 1 /\ Until(s, b) > 1 /\ q[1] = l[b]
      BY <1>13, <3>1
    <3>4. Until(r, 1) = u[1] /\ u[0] = 0
      BY <1>10, <1>12, <3>1
    <3>5. g[q[1]] \in Time /\ Until(s, b) \in 0 .. Wrap - 1
      <4>1. b \in 0 .. n /\ q[1] \in Task
        BY <1>0, <3>3
      <4> QED BY <1>7, <4>1, ListedFacts
    <3>6. g[q[1]] > 0
      BY <1>0, <3>2, <3>3, <3>4, <3>5 DEF Time
    <3> QED BY <1>6, <3>1, <3>6
  <2> QED BY <2>1, <2>2, <2>4, <2>5 DEF Listed
<1>16. r \in Kernel
  <2>1. r.list \in Seq(Task) /\ r.remain \in [Task -> Time]
    BY <1>3, <1>6, <1>7
  <2> QED BY <1>6, <2>1 DEF Kernel, Rest
<1> QED BY <1>1, <1>6, <1>14, <1>15, <1>16

-----------------------------------------------------------------------------
(* The pend lists. *)

InOrder(l) == \A i, j \in DOMAIN l : i < j => Prio[l[i]] < Prio[l[j]]

LEMMA Prios ==
  /\ IsFiniteSet(Task) /\ \A t \in Task : Prio[t] \in Nat
  /\ \A t, u \in Task : Prio[t] = Prio[u] => t = u
BY WaitAssumption

(* The list is that of the waiters, each once. *)
LEMMA PendListIs ==
  ASSUME NEW s, NEW obj, NEW l, l = PendList(s, obj)
  PROVE  /\ IsFiniteSet(Waiters(s, obj)) /\ Cardinality(Waiters(s, obj)) \in Nat
         /\ l \in Seq(Task) /\ Len(l) = Cardinality(Waiters(s, obj))
         /\ DOMAIN l = 1 .. Len(l)
         /\ \A i, j \in 1 .. Len(l) : l[i] = l[j] => i = j
         /\ {l[i] : i \in 1 .. Len(l)} = Waiters(s, obj)
<1>1. PICK W : W = Waiters(s, obj) /\ W \subseteq Task
  BY DEF Waiters
<1>2. IsFiniteSet(W) /\ Cardinality(W) \in Nat
  BY <1>1, Prios, FS_Subset, FS_CardinalityType
<1>3. PICK n \in Nat : n = Cardinality(W)
  BY <1>2
<1>4. IsFiniteSet(1 .. n) /\ Cardinality(1 .. n) = n
  BY Counted
<1> DEFINE Upto(t) == {u \in W : Prio[u] <= Prio[t]}
           rank == [t \in W |-> Cardinality(Upto(t))]
<1>5. \A t \in W : Prio[t] \in Nat /\ t \in Task
  BY <1>1, Prios
<1>6. ASSUME NEW t \in W PROVE IsFiniteSet(Upto(t)) /\ Cardinality(Upto(t)) \in 1 .. n
  <2>1. Upto(t) \in SUBSET W /\ t \in Upto(t)
    BY <1>5
  <2> HIDE DEF Upto
  <2>2. IsFiniteSet(Upto(t)) /\ Cardinality(Upto(t)) <= n
    BY <1>2, <1>3, <2>1, FS_Subset
  <2>3. Cardinality(Upto(t)) \in Nat /\ Cardinality(Upto(t)) # 0
    BY <2>1, <2>2, FS_CardinalityType, FS_EmptySet
  <2> QED BY <2>2, <2>3
<1>7. ASSUME NEW t \in W, NEW u \in W, Prio[t] < Prio[u]
      PROVE  Cardinality(Upto(t)) < Cardinality(Upto(u))
  <2>1. Upto(t) \in SUBSET Upto(u) /\ u \in Upto(u) /\ u \notin Upto(t)
    BY <1>5, <1>7
  <2> HIDE DEF Upto
  <2>2. Cardinality(Upto(t)) <= Cardinality(Upto(u)) /\ Cardinality(Upto(t)) # Cardinality(Upto(u))
    BY <1>6, <2>1, FS_Subset
  <2> QED BY <1>6, <2>2
<1>8. ASSUME NEW t \in W, NEW u \in W, rank[t] = rank[u] PROVE t = u
  <2> HIDE DEF Upto
  <2>1. Cardinality(Upto(t)) \in 1 .. n /\ Cardinality(Upto(u)) \in 1 .. n
        /\ Cardinality(Upto(t)) = Cardinality(Upto(u))
    BY <1>6, <1>8
  <2>2. ~(Prio[t] < Prio[u]) /\ ~(Prio[u] < Prio[t])
    BY <1>7, <2>1
  <2>3. Prio[t] = Prio[u]
    BY <1>5, <2>2
  <2> QED BY <1>5, <2>3, Prios
<1>9. rank \in Injection(W, 1 .. n)
  <2> HIDE DEF Upto
  <2>1. rank \in [W -> 1 .. n]
    BY <1>6
  <2> HIDE DEF rank
  <2> QED BY <1>8, <2>1 DEF Injection, IsInjective
<1>10. \A i \in 1 .. n : \E t \in W : rank[t] = i
  <2> HIDE DEF rank
  <2>1. rank \in Surjection(W, 1 .. n)
    BY <1>2, <1>3, <1>4, <1>9, FS_Injection
  <2> QED BY <2>1 DEF Surjection
<1> DEFINE f == [i \in 1 .. n |-> CHOOSE t \in W : rank[t] = i]
<1>11. \A i \in 1 .. n : f[i] \in W /\ rank[f[i]] = i
  <2> HIDE DEF rank
  <2> QED BY <1>10
<1>12. f \in [1 .. n -> W] /\ InOrder(f)
  <2>1. f \in [1 .. n -> W]
    BY <1>11
  <2>2. ASSUME NEW i \in 1 .. n, NEW j \in 1 .. n, i < j PROVE Prio[f[i]] < Prio[f[j]]
    <3>1. PICK t \in W : t = f[i] /\ rank[t] = i
      BY <1>11
    <3>2. PICK u \in W : u = f[j] /\ rank[u] = j
      BY <1>11
    <3> HIDE DEF f, Upto
    <3>3. Cardinality(Upto(t)) = i /\ Cardinality(Upto(u)) = j
      BY <3>1, <3>2
    <3>4. ~(Prio[u] < Prio[t])
      BY <1>7, <2>2, <3>3
    <3>5. Prio[u] # Prio[t]
      BY <1>5, <2>2, <3>1, <3>2, Prios
    <3>6. Prio[t] \in Nat /\ Prio[u] \in Nat
      BY <1>5
    <3> QED BY <3>1, <3>2, <3>4, <3>5, <3>6
  <2> HIDE DEF f
  <2>3. DOMAIN f = 1 .. n
    BY <2>1
  <2> QED BY <2>1, <2>2, <2>3 DEF InOrder
<1>13. l \in [1 .. n -> W] /\ InOrder(l)
  <2>1. l = CHOOSE g \in [1 .. n -> W] : InOrder(g)
    BY <1>1, <1>3 DEF PendList, InOrder
  <2>2. \E g \in [1 .. n -> W] : InOrder(g)
    <3> HIDE DEF f
    <3> QED BY <1>12
  <2> QED BY <2>1, <2>2
<1>14. DOMAIN l = 1 .. n
  BY <1>13
<1>15. \A i \in 1 .. n : l[i] \in W /\ Prio[l[i]] \in Nat
  BY <1>5, <1>13
<1>16. ASSUME NEW i \in 1 .. n, NEW j \in 1 .. n, l[i] = l[j] PROVE i = j
  <2>1. i < j => Prio[l[i]] < Prio[l[j]]
    BY <1>13, <1>14 DEF InOrder
  <2>2. j < i => Prio[l[j]] < Prio[l[i]]
    BY <1>13, <1>14 DEF InOrder
  <2>3. ~(i < j) /\ ~(j < i)
    BY <1>15, <1>16, <2>1, <2>2
  <2> QED BY <2>3
<1>17. l \in Injection(1 .. n, W)
  BY <1>13, <1>14, <1>16 DEF Injection, IsInjective
<1>18. l \in Surjection(1 .. n, W)
  <2> DEFINE S == 1 .. n
  <2>1. IsFiniteSet(W) /\ Cardinality(S) = Cardinality(W) /\ l \in Injection(S, W)
    BY <1>2, <1>3, <1>4, <1>17
  <2> HIDE DEF S
  <2>2. l \in Surjection(S, W)
    BY <2>1, FS_Injection
  <2> QED BY <2>2 DEF S
<1>19. {l[i] : i \in 1 .. n} = W
  BY <1>15, <1>18 DEF Surjection
<1>20. l \in Seq(Task) /\ Len(l) = n
  <2>1. l \in [1 .. n -> Task]
    BY <1>1, <1>13
  <2>2. l \in Seq(Task)
    BY <2>1
  <2> QED BY <1>14, <2>2
<1> QED BY <1>1, <1>2, <1>3, <1>14, <1>16, <1>19, <1>20

-----------------------------------------------------------------------------
(* The end of waits. *)

(* Only the two members count. *)
LEMMA SameList ==
  ASSUME NEW s, NEW r, r.list = s.list, r.remain = s.remain
  PROVE  Left(r) = Left(s) /\ (Listed(s) => Listed(r))
<1>1. \A i : Until(r, i) = Total(r.remain, SubSeq(r.list, 1, i))
  BY DEF Until, Total
<1>2. \A i : Until(s, i) = Total(s.remain, SubSeq(s.list, 1, i))
  BY DEF Until, Total
<1>3. \A i : Until(r, i) = Until(s, i)
  BY <1>1, <1>2
<1>4. Left(r) = Left(s)
  BY <1>3 DEF Left
<1> QED BY <1>4 DEF Listed

TickBits(s) == \A t \in Task : Timed(s, t) <=> t \in ToSet(s.list)

Why == {"ok", "timeout", "abort", "del"}

(* r is s without the waits of W, which ended for the reason why; p are the   *)
(* flags that the tasks in W got.                                             *)
Woken(r, s, W, why, p) ==
  /\ r.state = [t \in Task |-> IF t \in W THEN s.state[t] \ {"dly", "pend"} ELSE s.state[t]]
  /\ r.on = [t \in Task |-> IF t \in W /\ "pend" \in s.state[t] THEN "nothing" ELSE s.on[t]]
  /\ r.status = [t \in Task |-> IF t \in W /\ "pend" \in s.state[t] THEN why ELSE s.status[t]]
  /\ r.rdy = [t \in Task |-> IF t \in W THEN p[t] ELSE s.rdy[t]]
  /\ r.nested = s.nested /\ r.prev = s.prev /\ r.valid = s.valid
  /\ r.ctr = s.ctr /\ r.flags = s.flags
  /\ Left(r) = {e \in Left(s) : e[1] \notin W}

Sound(s) == s \in Kernel /\ Listed(s) /\ TickBits(s)

(* The tick list has no longer the tasks that were woken. *)
LEMMA WokenBits ==
  ASSUME NEW s, NEW r, NEW W, NEW why, NEW p, TickBits(s), Listed(s), Listed(r), Woken(r, s, W, why, p)
  PROVE  TickBits(r)
<1> SUFFICES ASSUME NEW t \in Task PROVE Timed(r, t) <=> t \in ToSet(r.list)
  BY DEF TickBits
<1>1. s.list \in Seq(Task) /\ r.list \in Seq(Task)
  BY DEF Listed
<1>2. t \in ToSet(r.list) <=> \E e \in Left(r) : e[1] = t
  <2>1. ToSet(r.list) = {e[1] : e \in Left(r)}
    BY <1>1, ToSetLeft
  <2> QED BY <2>1
<1>3. t \in ToSet(s.list) <=> \E e \in Left(s) : e[1] = t
  <2>1. ToSet(s.list) = {e[1] : e \in Left(s)}
    BY <1>1, ToSetLeft
  <2> QED BY <2>1
<1>4. Timed(s, t) <=> t \in ToSet(s.list)
  BY DEF TickBits
<1>5. Timed(r, t) <=> Timed(s, t) /\ t \notin W
  BY DEF Timed, Woken
<1>6. Left(r) = {e \in Left(s) : e[1] \notin W}
  BY DEF Woken
<1> QED BY <1>2, <1>3, <1>4, <1>5, <1>6

LEMMA WokenAdds ==
  ASSUME NEW b, NEW q, NEW r, NEW W, NEW t \in Task, t \notin W, NEW why, NEW p, NEW o, o[t] = p[t],
         Woken(q, b, W, why, p), Woken(r, q, {t}, why, o)
  PROVE  Woken(r, b, W \cup {t}, why, p)
<1>1. q.state[t] = b.state[t]
  BY DEF Woken
<1>2. r.state = [u \in Task |-> IF u \in W \cup {t} THEN b.state[u] \ {"dly", "pend"} ELSE b.state[u]]
  <2>1. r.state = [u \in Task |-> IF u \in {t} THEN q.state[u] \ {"dly", "pend"} ELSE q.state[u]]
    BY DEF Woken
  <2>2. \A u \in Task : q.state[u] = IF u \in W THEN b.state[u] \ {"dly", "pend"} ELSE b.state[u]
    BY DEF Woken
  <2>3. ASSUME NEW u \in Task
        PROVE  (IF u \in {t} THEN q.state[u] \ {"dly", "pend"} ELSE q.state[u])
               = (IF u \in W \cup {t} THEN b.state[u] \ {"dly", "pend"} ELSE b.state[u])
    BY <2>2
  <2> QED BY <2>1, <2>3
<1>3. r.on = [u \in Task |-> IF u \in W \cup {t} /\ "pend" \in b.state[u] THEN "nothing" ELSE b.on[u]]
  BY <1>1 DEF Woken
<1>4. r.status = [u \in Task |-> IF u \in W \cup {t} /\ "pend" \in b.state[u] THEN why ELSE b.status[u]]
  BY <1>1 DEF Woken
<1>5. r.rdy = [u \in Task |-> IF u \in W \cup {t} THEN p[u] ELSE b.rdy[u]]
  BY DEF Woken
<1>6. Left(r) = {e \in Left(b) : e[1] \notin W \cup {t}}
  BY DEF Woken
<1>7. /\ r.nested = b.nested /\ r.prev = b.prev /\ r.valid = b.valid
      /\ r.ctr = b.ctr /\ r.flags = b.flags
  BY DEF Woken
<1> QED BY <1>2, <1>3, <1>4, <1>5, <1>6, <1>7 DEF Woken

(* OS_TickListRemove, OS_PendListRemove. *)
LEMMA EndedIs ==
  ASSUME NEW s, Sound(s), NEW t \in Task, "pend" \in s.state[t], NEW why \in Why,
         NEW q, IF Timed(s, t) THEN q = TickListRemove(s, t) ELSE q = s,
         NEW r, r = Ended(q, t, why)
  PROVE  Sound(r) /\ Woken(r, s, {t}, why, s.rdy)
<1>0. s \in Kernel /\ Listed(s)
  BY DEF Sound
<1>1. /\ q \in Kernel /\ Rest(q, s) /\ Listed(q)
      /\ q.state = [s.state EXCEPT ![t] = @ \ {"dly"}]
      /\ Left(q) = {e \in Left(s) : e[1] # t}
  <2>1. CASE Timed(s, t)
    <3>1. t \in ToSet(s.list)
      BY <2>1 DEF Sound, TickBits
    <3> QED BY <1>0, <2>1, <3>1, RemoveIs
  <2>2. CASE ~Timed(s, t)
    <3>1. t \notin ToSet(s.list) /\ s.list \in Seq(Task)
      BY <2>2 DEF Sound, TickBits, Listed
    <3>2. \A e \in Left(s) : e[1] # t
      BY <3>1, ToSetLeft
    <3>3. s.state \in [Task -> SUBSET {"dly", "pend", "suspended"}] /\ "dly" \notin s.state[t]
      BY <1>0, <2>2 DEF Kernel, Timed
    <3>4. s.state = [s.state EXCEPT ![t] = @ \ {"dly"}]
      BY <3>3
    <3>5. Left(s) = {e \in Left(s) : e[1] # t}
      BY <3>2
    <3>6. q = s
      BY <2>2
    <3> QED BY <1>0, <3>4, <3>5, <3>6 DEF Rest
  <2> QED BY <2>1, <2>2
<1>2. r = [q EXCEPT !.state[t] = @ \ {"pend"}, !.on[t] = "nothing", !.status[t] = why]
  BY DEF Ended
<1>3. /\ r.list = q.list /\ r.remain = q.remain /\ r.nested = q.nested /\ r.rdy = q.rdy
      /\ r.prev = q.prev /\ r.valid = q.valid /\ r.ctr = q.ctr /\ r.flags = q.flags
      /\ r.state = [q.state EXCEPT ![t] = @ \ {"pend"}]
      /\ r.on = [q.on EXCEPT ![t] = "nothing"] /\ r.status = [q.status EXCEPT ![t] = why]
      /\ r \in [state : {r.state}, nested : {r.nested}, on : {r.on}, status : {r.status},
                rdy : {r.rdy}, prev : {r.prev}, list : {r.list}, remain : {r.remain},
                valid : {r.valid}, ctr : {r.ctr}, flags : {r.flags}]
  BY <1>1, <1>2 DEF Kernel
<1>4. Left(r) = Left(q) /\ Listed(r)
  BY <1>1, <1>3, SameList
<1>5. /\ q.on \in [Task -> {"nothing", "sem", "flag", "lost"}] /\ q.status \in [Task -> Why]
      /\ q.state \in [Task -> SUBSET {"dly", "pend", "suspended"}]
      /\ s.state \in [Task -> SUBSET {"dly", "pend", "suspended"}]
      /\ s.rdy \in [Task -> SUBSET Flag]
  BY <1>0, <1>1 DEF Kernel, Why
<1>6. /\ r.on \in [Task -> {"nothing", "sem", "flag", "lost"}] /\ r.status \in [Task -> Why]
  BY <1>3, <1>5
<1>7. r.state \in [Task -> SUBSET {"dly", "pend", "suspended"}]
  <2>1. q.state[t] \ {"pend"} \in SUBSET {"dly", "pend", "suspended"}
    BY <1>5
  <2> QED BY <1>3, <1>5, <2>1
<1>8. r \in Kernel
  BY <1>1, <1>3, <1>6, <1>7 DEF Kernel, Why
<1>9. Woken(r, s, {t}, why, s.rdy)
  <2>1. r.state = [u \in Task |-> IF u \in {t} THEN s.state[u] \ {"dly", "pend"} ELSE s.state[u]]
    <3>1. \A u \in Task : r.state[u] = IF u = t THEN (s.state[u] \ {"dly"}) \ {"pend"} ELSE s.state[u]
      BY <1>1, <1>3, <1>5
    <3>2. \A u \in Task : (s.state[u] \ {"dly"}) \ {"pend"} = s.state[u] \ {"dly", "pend"}
      OBVIOUS
    <3> QED BY <1>7, <3>1, <3>2
  <2>2. r.on = [u \in Task |-> IF u \in {t} /\ "pend" \in s.state[u] THEN "nothing" ELSE s.on[u]]
    BY <1>1, <1>3, <1>5, <1>6 DEF Rest
  <2>3. r.status = [u \in Task |-> IF u \in {t} /\ "pend" \in s.state[u] THEN why ELSE s.status[u]]
    BY <1>1, <1>3, <1>5, <1>6 DEF Rest
  <2>4. r.rdy = [u \in Task |-> IF u \in {t} THEN s.rdy[u] ELSE s.rdy[u]]
    BY <1>1, <1>3, <1>5 DEF Rest
  <2>5. Left(r) = {e \in Left(s) : e[1] \notin {t}}
    BY <1>1, <1>4
  <2> QED BY <1>1, <1>3, <2>1, <2>2, <2>3, <2>4, <2>5 DEF Woken, Rest
<1>10. TickBits(r)
  <2>1. TickBits(s)
    BY DEF Sound
  <2> QED BY <1>0, <1>4, <1>9, <2>1, WokenBits
<1> QED BY <1>4, <1>8, <1>9, <1>10 DEF Sound

(* OS_Post, OS_PendAbort *)
LEMMA WakeIs ==
  ASSUME NEW s, Sound(s), NEW t \in Task, "pend" \in s.state[t], NEW why \in Why
  PROVE  Sound(Wake(s, t, why)) /\ Woken(Wake(s, t, why), s, {t}, why, s.rdy)
<1>1. PICK q : q = IF Timed(s, t) THEN TickListRemove(s, t) ELSE s
  OBVIOUS
<1>2. Wake(s, t, why) = Ended(q, t, why)
  BY <1>1 DEF Wake
<1> QED BY <1>1, <1>2, EndedIs

(* OS_FlagTaskRdy: a suspended task is not in the tick list. *)
LEMMA FlagTaskRdyIs ==
  ASSUME NEW s, Sound(s), NEW t \in Task, "pend" \in s.state[t],
         "suspended" \in s.state[t] => ~Timed(s, t), Present(call[t], s.flags) \subseteq Flag,
         NEW p, p[t] = Present(call[t], s.flags)
  PROVE  Sound(FlagTaskRdy(s, t)) /\ Woken(FlagTaskRdy(s, t), s, {t}, "ok", p)
<1>0. s \in Kernel /\ Listed(s) /\ TickBits(s)
  BY DEF Sound
<1>1. PICK b : b = [s EXCEPT !.rdy[t] = Present(call[t], s.flags)]
  OBVIOUS
<1>2. /\ b.list = s.list /\ b.remain = s.remain /\ b.nested = s.nested /\ b.state = s.state
      /\ b.prev = s.prev /\ b.valid = s.valid /\ b.ctr = s.ctr /\ b.flags = s.flags
      /\ b.on = s.on /\ b.status = s.status /\ b.rdy = [s.rdy EXCEPT ![t] = p[t]]
      /\ b \in [state : {b.state}, nested : {b.nested}, on : {b.on}, status : {b.status},
                rdy : {b.rdy}, prev : {b.prev}, list : {b.list}, remain : {b.remain},
                valid : {b.valid}, ctr : {b.ctr}, flags : {b.flags}]
  BY <1>0, <1>1 DEF Kernel
<1>3. s.rdy \in [Task -> SUBSET Flag] /\ b.rdy \in [Task -> SUBSET Flag]
  <2>1. s.rdy \in [Task -> SUBSET Flag]
    BY <1>0 DEF Kernel
  <2> QED BY <1>2, <2>1
<1>4. b \in Kernel
  BY <1>0, <1>2, <1>3 DEF Kernel
<1>5. Left(b) = Left(s) /\ Listed(b)
  BY <1>0, <1>2, SameList
<1>6. Sound(b)
  BY <1>0, <1>2, <1>4, <1>5 DEF Sound, TickBits, Timed
<1>7. PICK r : r = FlagTaskRdy(s, t)
  OBVIOUS
<1>8. Sound(r) /\ Woken(r, b, {t}, "ok", b.rdy)
  <2>1. "ok" \in Why /\ "pend" \in b.state[t]
    BY <1>2 DEF Why
  <2>2. CASE "suspended" \in s.state[t]
    <3>1. ~Timed(b, t)
      BY <1>2, <2>2 DEF Timed
    <3>2. r = Ended(b, t, "ok")
      BY <1>1, <1>7, <2>2 DEF FlagTaskRdy
    <3> QED BY <1>6, <2>1, <3>1, <3>2, EndedIs
  <2>3. CASE "suspended" \notin s.state[t]
    <3>1. r = Wake(b, t, "ok")
      BY <1>1, <1>7, <2>3 DEF FlagTaskRdy
    <3> QED BY <1>6, <2>1, <3>1, WakeIs
  <2> QED BY <2>2, <2>3
<1>9. r.rdy = [u \in Task |-> IF u \in {t} THEN p[u] ELSE s.rdy[u]]
  <2>1. r.rdy = [u \in Task |-> IF u \in {t} THEN b.rdy[u] ELSE b.rdy[u]]
    BY <1>8 DEF Woken
  <2>2. \A u \in Task : b.rdy[u] = IF u = t THEN p[u] ELSE s.rdy[u]
    BY <1>2, <1>3
  <2> QED BY <2>1, <2>2
<1>10. Woken(r, s, {t}, "ok", p)
  BY <1>2, <1>5, <1>8, <1>9 DEF Woken
<1> QED BY <1>7, <1>8, <1>10

(* One step of a fold that wakes the tasks of a list, all of them or those    *)
(* that the flags suit.                                                       *)
IsWaking(op, a, b, M, why, p) ==
  \/ op = "wake" /\ a \in Why /\ why = a /\ M = Task /\ p = b.rdy
  \/ /\ op = "flag" /\ a = b.flags /\ why = "ok" /\ M = {t \in Task : Met(call[t], a)}
     /\ p = [t \in Task |-> Present(call[t], a)]
     /\ \A t \in Task : b.on[t] = "flag" =>
          /\ Present(call[t], a) \subseteq Flag
          /\ "suspended" \in b.state[t] => ~Timed(b, t)

LEMMA WakingStep ==
  ASSUME NEW op, NEW a, NEW b, NEW M, NEW why, NEW p, IsWaking(op, a, b, M, why, p),
         NEW t \in Task, "pend" \in b.state[t], op = "flag" => b.on[t] = "flag",
         NEW W, t \notin W, NEW q, Sound(q), Woken(q, b, W, why, p)
  PROVE  LET r == Combine(op, a, q, t) IN
         IF t \in M THEN Sound(r) /\ Woken(r, b, W \cup {t}, why, p) ELSE r = q
<1>1. /\ q.state[t] = b.state[t] /\ q.flags = b.flags /\ q.rdy[t] = b.rdy[t]
  BY DEF Woken
<1>2. CASE op = "wake" /\ a \in Why /\ why = a /\ M = Task /\ p = b.rdy
  <2>1. Combine(op, a, q, t) = Wake(q, t, why)
    BY <1>2 DEF Combine
  <2>2. Sound(Wake(q, t, why)) /\ Woken(Wake(q, t, why), q, {t}, why, q.rdy)
    BY <1>1, <1>2, WakeIs
  <2>3. Woken(Wake(q, t, why), b, W \cup {t}, why, p)
    <3>1. q.rdy[t] = p[t]
      BY <1>1, <1>2
    <3> QED BY <2>2, <3>1, WokenAdds
  <2> QED BY <1>2, <2>1, <2>2, <2>3
<1>3. CASE /\ op = "flag" /\ a = b.flags /\ why = "ok" /\ M = {u \in Task : Met(call[u], a)}
           /\ p = [u \in Task |-> Present(call[u], a)]
           /\ \A u \in Task : b.on[u] = "flag" =>
                /\ Present(call[u], a) \subseteq Flag
                /\ "suspended" \in b.state[u] => ~Timed(b, u)
  <2>1. Combine(op, a, q, t) = IF Met(call[t], a) THEN FlagTaskRdy(q, t) ELSE q
    BY <1>3 DEF Combine
  <2>2. CASE t \in M
    <3>1. /\ Present(call[t], q.flags) \subseteq Flag /\ p[t] = Present(call[t], q.flags)
          /\ "suspended" \in q.state[t] => ~Timed(q, t)
      BY <1>1, <1>3 DEF Timed
    <3>2. Sound(FlagTaskRdy(q, t)) /\ Woken(FlagTaskRdy(q, t), q, {t}, "ok", p)
      BY <1>1, <3>1, FlagTaskRdyIs
    <3>3. Woken(FlagTaskRdy(q, t), b, W \cup {t}, why, p)
      BY <1>3, <3>2, WokenAdds
    <3>4. Combine(op, a, q, t) = FlagTaskRdy(q, t)
      BY <1>3, <2>1, <2>2
    <3> QED BY <2>2, <3>2, <3>3, <3>4
  <2>3. CASE t \notin M
    BY <1>3, <2>1, <2>3
  <2> QED BY <2>2, <2>3
<1> QED BY <1>2, <1>3 DEF IsWaking

LEMMA WokenNone ==
  ASSUME NEW s \in Kernel, NEW why, NEW p PROVE Woken(s, s, {}, why, p)
<1>1. /\ s.state = [t \in Task |-> s.state[t]] /\ s.on = [t \in Task |-> s.on[t]]
      /\ s.status = [t \in Task |-> s.status[t]] /\ s.rdy = [t \in Task |-> s.rdy[t]]
  BY DEF Kernel
<1> QED BY <1>1 DEF Woken

Firsts(l, i) == {l[j] : j \in 1 .. i}

LEMMA WakingRun ==
  ASSUME NEW op, NEW a, NEW b, NEW M, NEW why, NEW p, IsWaking(op, a, b, M, why, p),
         Sound(b), NEW n \in Nat, NEW l,
         \A i \in 1 .. n : /\ l[i] \in Task /\ "pend" \in b.state[l[i]]
                           /\ op = "flag" => b.on[l[i]] = "flag",
         \A i, j \in 1 .. n : l[i] = l[j] => i = j,
         NEW g, IsRun(g, op, a, b, l, n)
  PROVE  Sound(g[n]) /\ Woken(g[n], b, Firsts(l, n) \cap M, why, p)
<1> DEFINE Ok(i) == Sound(g[i]) /\ Woken(g[i], b, Firsts(l, i) \cap M, why, p)
           B == {i \in 0 .. n : ~Ok(i)}
<1>1. ASSUME B # {} PROVE FALSE
  <2>1. PICK m \in B : \A h \in B : m <= h
    <3>1. B \subseteq Nat
      OBVIOUS
    <3> HIDE DEF B
    <3> QED BY <1>1, <3>1, NatMin
  <2>2. m # 0
    <3>1. g[0] = b
      BY DEF IsRun
    <3>2. Firsts(l, 0) = {}
      BY DEF Firsts
    <3>3. Woken(b, b, {}, why, p)
      BY WokenNone DEF Sound
    <3>4. Ok(0)
      BY <3>1, <3>2, <3>3
    <3> QED BY <2>1, <3>4
  <2>3. PICK h \in 0 .. n : h = m - 1 /\ m \in 1 .. n
    BY <2>1, <2>2
  <2>4. Ok(h)
    BY <2>1, <2>3
  <2>5. PICK t \in Task : t = l[m] /\ "pend" \in b.state[t] /\ (op = "flag" => b.on[t] = "flag")
    BY <2>3
  <2>6. PICK W : W = Firsts(l, h) \cap M
    OBVIOUS
  <2>7. t \notin W
    <3>1. ASSUME NEW j \in 1 .. h, l[j] = l[m] PROVE FALSE
      <4>1. j \in 1 .. n /\ j # m
        BY <2>3
      <4> QED BY <2>3, <3>1, <4>1
    <3> QED BY <2>5, <2>6, <3>1 DEF Firsts
  <2>8. Firsts(l, m) = Firsts(l, h) \cup {t}
    <3>1. \A j \in 1 .. h : j \in 1 .. m
      BY <2>3
    <3>2. m \in 1 .. m
      BY <2>3
    <3>3. \A j \in 1 .. m : j \in 1 .. h \/ j = m
      BY <2>3
    <3> QED BY <2>5, <3>1, <3>2, <3>3 DEF Firsts
  <2>9. PICK q : q = g[h]
    OBVIOUS
  <2>10. g[m] = Combine(op, a, q, t)
    BY <2>3, <2>5, <2>9 DEF IsRun
  <2>11. IF t \in M THEN Sound(g[m]) /\ Woken(g[m], b, W \cup {t}, why, p) ELSE g[m] = q
    <3>1. Sound(q) /\ Woken(q, b, W, why, p)
      BY <2>4, <2>6, <2>9
    <3> QED BY <2>5, <2>7, <2>10, <3>1, WakingStep
  <2>12. Firsts(l, m) \cap M = IF t \in M THEN W \cup {t} ELSE W
    BY <2>6, <2>8
  <2>13. Ok(m)
    <3>1. CASE t \in M
      BY <2>11, <2>12, <3>1
    <3>2. CASE t \notin M
      BY <2>4, <2>6, <2>9, <2>11, <2>12, <3>2
    <3> QED BY <3>1, <3>2
  <2> QED BY <2>1, <2>13
<1>2. Ok(n)
  <2>1. n \in 0 .. n
    OBVIOUS
  <2> QED BY <1>1, <2>1
<1> QED BY <1>2

(* The folds of WakeAll and FlagPost. *)
WakeList(why, b, l) == FoldLeft(LAMBDA r, t : Wake(r, t, why), b, l)
FlagList(f, b, l) ==
  FoldLeft(LAMBDA r, t : IF Met(call[t], f) THEN FlagTaskRdy(r, t) ELSE r, b, l)

LEMMA WakeRun ==
  ASSUME NEW n \in Nat, NEW l, DOMAIN l = 1 .. n, NEW why, NEW b
  PROVE  \E g : IsRun(g, "wake", why, b, l, n) /\ WakeList(why, b, l) = g[n]
<1> DEFINE F == WakeList(why, b, l)
<1>1. PICK e : IsFold(e, "wake", why, b, l, n)
  BY FoldExists
<1>2. e = [t \in SUBSET (1 .. n) |->
             IF t = {} THEN b ELSE LET x == Max(t) IN Wake(e[t \ {x}], l[x], why)]
  BY <1>1 DEF IsFold, Combine
<1>3. PICK f : /\ f = [t \in SUBSET (1 .. n) |->
                    IF t = {} THEN b ELSE LET x == Max(t) IN Wake(f[t \ {x}], l[x], why)]
               /\ F = f[1 .. n]
  BY <1>2 DEF WakeList, FoldLeft, MapThenFoldSet
<1> HIDE DEF F
<1>4. IsFold(f, "wake", why, b, l, n)
  BY <1>3 DEF IsFold, Combine
<1>5. \E g : IsRun(g, "wake", why, b, l, n) /\ g[n] = f[1 .. n]
  BY <1>4, RunOf
<1>6. \E g : IsRun(g, "wake", why, b, l, n) /\ g[n] = F
  BY <1>3, <1>5
<1> QED BY <1>6 DEF F

LEMMA FlagRun ==
  ASSUME NEW n \in Nat, NEW l, DOMAIN l = 1 .. n, NEW a, NEW b
  PROVE  \E g : IsRun(g, "flag", a, b, l, n) /\ FlagList(a, b, l) = g[n]
<1> DEFINE F == FlagList(a, b, l)
<1>1. PICK e : IsFold(e, "flag", a, b, l, n)
  BY FoldExists
<1>2. e = [t \in SUBSET (1 .. n) |->
             IF t = {} THEN b
             ELSE LET x == Max(t)
                  IN  IF Met(call[l[x]], a) THEN FlagTaskRdy(e[t \ {x}], l[x]) ELSE e[t \ {x}]]
  BY <1>1 DEF IsFold, Combine
<1>3. PICK f : /\ f = [t \in SUBSET (1 .. n) |->
                    IF t = {} THEN b
                    ELSE LET x == Max(t)
                         IN  IF Met(call[l[x]], a) THEN FlagTaskRdy(f[t \ {x}], l[x])
                             ELSE f[t \ {x}]]
               /\ F = f[1 .. n]
  BY <1>2 DEF FlagList, FoldLeft, MapThenFoldSet
<1> HIDE DEF F
<1>4. IsFold(f, "flag", a, b, l, n)
  BY <1>3 DEF IsFold, Combine
<1>5. \E g : IsRun(g, "flag", a, b, l, n) /\ g[n] = f[1 .. n]
  BY <1>4, RunOf
<1>6. \E g : IsRun(g, "flag", a, b, l, n) /\ g[n] = F
  BY <1>3, <1>5
<1> QED BY <1>6 DEF F

OutList(b, l) == FoldLeft(TimeOut, b, l)

LEMMA OutRun ==
  ASSUME NEW n \in Nat, NEW l, DOMAIN l = 1 .. n, NEW b
  PROVE  \E g : IsRun(g, "out", 0, b, l, n) /\ OutList(b, l) = g[n]
<1> DEFINE F == OutList(b, l)
<1>1. PICK e : IsFold(e, "out", 0, b, l, n)
  BY FoldExists
<1>2. e = [t \in SUBSET (1 .. n) |->
             IF t = {} THEN b ELSE LET x == Max(t) IN TimeOut(e[t \ {x}], l[x])]
  BY <1>1 DEF IsFold, Combine
<1>3. PICK f : /\ f = [t \in SUBSET (1 .. n) |->
                    IF t = {} THEN b ELSE LET x == Max(t) IN TimeOut(f[t \ {x}], l[x])]
               /\ F = f[1 .. n]
  BY <1>2 DEF OutList, FoldLeft, MapThenFoldSet
<1> HIDE DEF F
<1>4. IsFold(f, "out", 0, b, l, n)
  BY <1>3 DEF IsFold, Combine
<1>5. \E g : IsRun(g, "out", 0, b, l, n) /\ g[n] = f[1 .. n]
  BY <1>4, RunOf
<1>6. \E g : IsRun(g, "out", 0, b, l, n) /\ g[n] = F
  BY <1>3, <1>5
<1> QED BY <1>6 DEF F

(* WakeAll: the waits of all the waiters of the object are over.              *)
LEMMA WakeAllIs ==
  ASSUME NEW s, Sound(s), NEW obj \in {"sem", "flag"}, NEW why \in Why,
         \A t \in Waiters(s, obj) : "pend" \in s.state[t]
  PROVE  /\ Sound(WakeAll(s, obj, why))
         /\ Woken(WakeAll(s, obj, why), s, Waiters(s, obj), why, s.rdy)
<1>1. PICK l : l = PendList(s, obj)
  OBVIOUS
<1>2. PICK n \in Nat : n = Len(l)
  BY <1>1, PendListIs
<1>3. /\ DOMAIN l = 1 .. n /\ \A i, j \in 1 .. n : l[i] = l[j] => i = j
      /\ {l[i] : i \in 1 .. n} = Waiters(s, obj)
  BY <1>1, <1>2, PendListIs
<1>4. PICK g : IsRun(g, "wake", why, s, l, n) /\ WakeList(why, s, l) = g[n]
  BY <1>3, WakeRun
<1>5. WakeAll(s, obj, why) = g[n]
  BY <1>1, <1>4 DEF WakeAll, WakeList
<1>6. IsWaking("wake", why, s, Task, why, s.rdy)
  BY DEF IsWaking
<1>7. \A i \in 1 .. n : l[i] \in Task /\ "pend" \in s.state[l[i]]
  BY <1>3 DEF Waiters
<1>8. Sound(g[n]) /\ Woken(g[n], s, Firsts(l, n) \cap Task, why, s.rdy)
  BY <1>3, <1>4, <1>6, <1>7, WakingRun
<1>9. Firsts(l, n) \cap Task = Waiters(s, obj)
  BY <1>3 DEF Firsts, Waiters
<1> QED BY <1>5, <1>8, <1>9

(* OSFlagPost: b has the new flags; the waiters that they suit are woken.     *)
LEMMA FlagAllIs ==
  ASSUME NEW s, NEW b, Sound(b), b.on = s.on, NEW f, f = b.flags,
         \A t \in Waiters(s, "flag") :
           /\ "pend" \in b.state[t] /\ Present(call[t], f) \subseteq Flag
           /\ "suspended" \in b.state[t] => ~Timed(b, t),
         NEW r, r = FlagList(f, b, PendList(s, "flag"))
  PROVE  /\ Sound(r)
         /\ Woken(r, b, {t \in Waiters(s, "flag") : Met(call[t], f)}, "ok",
                  [t \in Task |-> Present(call[t], f)])
<1> DEFINE M == {t \in Task : Met(call[t], f)}
           p == [t \in Task |-> Present(call[t], f)]
<1>1. PICK l : l = PendList(s, "flag")
  OBVIOUS
<1>2. PICK n \in Nat : n = Len(l)
  BY <1>1, PendListIs
<1>3. /\ DOMAIN l = 1 .. n /\ \A i, j \in 1 .. n : l[i] = l[j] => i = j
      /\ {l[i] : i \in 1 .. n} = Waiters(s, "flag")
  BY <1>1, <1>2, PendListIs
<1>4. PICK g : IsRun(g, "flag", f, b, l, n) /\ FlagList(f, b, l) = g[n]
  BY <1>3, FlagRun
<1>5. r = g[n]
  BY <1>1, <1>4
<1>6. IsWaking("flag", f, b, M, "ok", p)
  <2>1. \A t \in Task : b.on[t] = "flag" => t \in Waiters(s, "flag")
    BY DEF Waiters
  <2> QED BY <2>1 DEF IsWaking
<1>7. \A i \in 1 .. n : l[i] \in Task /\ "pend" \in b.state[l[i]] /\ b.on[l[i]] = "flag"
  BY <1>3 DEF Waiters
<1> HIDE DEF M, p
<1>8. Sound(g[n]) /\ Woken(g[n], b, Firsts(l, n) \cap M, "ok", p)
  BY <1>3, <1>4, <1>6, <1>7, WakingRun
<1>9. Firsts(l, n) \cap M = {t \in Waiters(s, "flag") : Met(call[t], f)}
  BY <1>3 DEF Firsts, Waiters, M
<1> QED BY <1>5, <1>8, <1>9 DEF p

(* OS_TickListUpdate, for one task whose time is over.                        *)
LEMMA TimeOutIs ==
  ASSUME NEW q \in Kernel, NEW t \in Task, \A e \in Left(q) : e[1] # t,
         NEW r, r = TimeOut(q, t)
  PROVE  /\ r \in Kernel /\ r.list = q.list /\ r.remain = q.remain
         /\ Woken(r, q, {t}, "timeout", q.rdy)
<1>1. PICK e : e = [q EXCEPT !.state[t] = @ \ {"dly"}]
  OBVIOUS
<1>2. /\ q.on \in [Task -> {"nothing", "sem", "flag", "lost"}] /\ q.status \in [Task -> Why]
      /\ q.state \in [Task -> SUBSET {"dly", "pend", "suspended"}]
      /\ q.rdy \in [Task -> SUBSET Flag]
  BY DEF Kernel, Why
<1>3. /\ e.list = q.list /\ e.remain = q.remain /\ e.nested = q.nested /\ e.rdy = q.rdy
      /\ e.prev = q.prev /\ e.valid = q.valid /\ e.ctr = q.ctr /\ e.flags = q.flags
      /\ e.on = q.on /\ e.status = q.status /\ e.state = [q.state EXCEPT ![t] = @ \ {"dly"}]
      /\ e \in [state : {e.state}, nested : {e.nested}, on : {e.on}, status : {e.status},
                rdy : {e.rdy}, prev : {e.prev}, list : {e.list}, remain : {e.remain},
                valid : {e.valid}, ctr : {e.ctr}, flags : {e.flags}]
  BY <1>1 DEF Kernel
<1>4. e.state \in [Task -> SUBSET {"dly", "pend", "suspended"}]
  <2>1. q.state[t] \ {"dly"} \in SUBSET {"dly", "pend", "suspended"}
    BY <1>2
  <2> QED BY <1>2, <1>3, <2>1
<1>5. r = IF "pend" \in q.state[t] THEN Ended(e, t, "timeout") ELSE e
  BY <1>1 DEF TimeOut
<1>6. /\ r.list = q.list /\ r.remain = q.remain /\ r.nested = q.nested /\ r.rdy = q.rdy
      /\ r.prev = q.prev /\ r.valid = q.valid /\ r.ctr = q.ctr /\ r.flags = q.flags
      /\ r.state = [u \in Task |-> IF u \in {t} THEN q.state[u] \ {"dly", "pend"} ELSE q.state[u]]
      /\ r.on = [u \in Task |-> IF u \in {t} /\ "pend" \in q.state[u] THEN "nothing" ELSE q.on[u]]
      /\ r.status = [u \in Task |-> IF u \in {t} /\ "pend" \in q.state[u] THEN "timeout" ELSE q.status[u]]
      /\ r \in [state : {r.state}, nested : {r.nested}, on : {r.on}, status : {r.status},
                rdy : {r.rdy}, prev : {r.prev}, list : {r.list}, remain : {r.remain},
                valid : {r.valid}, ctr : {r.ctr}, flags : {r.flags}]
  <2>1. CASE "pend" \in q.state[t]
    <3>1. r = [e EXCEPT !.state[t] = @ \ {"pend"}, !.on[t] = "nothing", !.status[t] = "timeout"]
      BY <1>5, <2>1 DEF Ended
    <3>2. /\ r.list = e.list /\ r.remain = e.remain /\ r.nested = e.nested /\ r.rdy = e.rdy
          /\ r.prev = e.prev /\ r.valid = e.valid /\ r.ctr = e.ctr /\ r.flags = e.flags
          /\ r.on = [e.on EXCEPT ![t] = "nothing"] /\ r.status = [e.status EXCEPT ![t] = "timeout"]
          /\ r.state = [e.state EXCEPT ![t] = @ \ {"pend"}]
          /\ r \in [state : {r.state}, nested : {r.nested}, on : {r.on}, status : {r.status},
                    rdy : {r.rdy}, prev : {r.prev}, list : {r.list}, remain : {r.remain},
                    valid : {r.valid}, ctr : {r.ctr}, flags : {r.flags}]
      BY <1>3, <3>1
    <3>3. r.state = [u \in Task |-> IF u \in {t} THEN q.state[u] \ {"dly", "pend"} ELSE q.state[u]]
      <4>1. e.state[t] = q.state[t] \ {"dly"} /\ \A u \in Task \ {t} : e.state[u] = q.state[u]
        BY <1>2, <1>3
      <4>2. (q.state[t] \ {"dly"}) \ {"pend"} = q.state[t] \ {"dly", "pend"}
        OBVIOUS
      <4>3. DOMAIN e.state = Task
        BY <1>4
      <4>4. r.state = [u \in Task |-> IF u = t THEN e.state[u] \ {"pend"} ELSE e.state[u]]
        BY <3>2, <4>3
      <4> QED BY <4>1, <4>2, <4>4
    <3>4. r.on = [u \in Task |-> IF u \in {t} /\ "pend" \in q.state[u] THEN "nothing" ELSE q.on[u]]
      BY <1>2, <1>3, <2>1, <3>2
    <3>5. r.status = [u \in Task |-> IF u \in {t} /\ "pend" \in q.state[u] THEN "timeout" ELSE q.status[u]]
      BY <1>2, <1>3, <2>1, <3>2
    <3> QED BY <1>3, <3>2, <3>3, <3>4, <3>5
  <2>2. CASE "pend" \notin q.state[t]
    <3>1. r = e
      BY <1>5, <2>2
    <3>2. q.state[t] \ {"dly"} = q.state[t] \ {"dly", "pend"}
      BY <2>2
    <3>3. r.state = [u \in Task |-> IF u \in {t} THEN q.state[u] \ {"dly", "pend"} ELSE q.state[u]]
      BY <1>2, <1>3, <3>1, <3>2
    <3>4. r.on = [u \in Task |-> IF u \in {t} /\ "pend" \in q.state[u] THEN "nothing" ELSE q.on[u]]
      BY <1>2, <1>3, <2>2, <3>1
    <3>5. r.status = [u \in Task |-> IF u \in {t} /\ "pend" \in q.state[u] THEN "timeout" ELSE q.status[u]]
      BY <1>2, <1>3, <2>2, <3>1
    <3> QED BY <1>3, <3>1, <3>3, <3>4, <3>5
  <2> QED BY <2>1, <2>2
<1>7. /\ r.on \in [Task -> {"nothing", "sem", "flag", "lost"}] /\ r.status \in [Task -> Why]
      /\ r.state \in [Task -> SUBSET {"dly", "pend", "suspended"}]
  <2>1. \A u \in Task : q.state[u] \ {"dly", "pend"} \in SUBSET {"dly", "pend", "suspended"}
    BY <1>2
  <2>2. r.state \in [Task -> SUBSET {"dly", "pend", "suspended"}]
    BY <1>2, <1>6, <2>1
  <2>3. r.on \in [Task -> {"nothing", "sem", "flag", "lost"}] /\ r.status \in [Task -> Why]
    BY <1>2, <1>6 DEF Why
  <2> QED BY <2>2, <2>3
<1>8. r \in Kernel
  BY <1>6, <1>7 DEF Kernel, Why
<1>9. Left(r) = {x \in Left(q) : x[1] \notin {t}}
  <2>1. Left(r) = Left(q)
    BY <1>6, SameList
  <2> QED BY <2>1
<1>10. r.rdy = [u \in Task |-> IF u \in {t} THEN q.rdy[u] ELSE q.rdy[u]]
  BY <1>2, <1>6
<1> QED BY <1>6, <1>8, <1>9, <1>10 DEF Woken

(* The tasks whose time is over, one after the other.                         *)
LEMMA OutsRun ==
  ASSUME NEW b \in Kernel, NEW n \in Nat, NEW l,
         \A i \in 1 .. n : l[i] \in Task /\ \A e \in Left(b) : e[1] # l[i],
         \A i, j \in 1 .. n : l[i] = l[j] => i = j,
         NEW g, IsRun(g, "out", 0, b, l, n)
  PROVE  /\ g[n] \in Kernel /\ g[n].list = b.list /\ g[n].remain = b.remain
         /\ Woken(g[n], b, Firsts(l, n), "timeout", b.rdy)
<1> DEFINE Ok(i) == /\ g[i] \in Kernel /\ g[i].list = b.list /\ g[i].remain = b.remain
                    /\ Woken(g[i], b, Firsts(l, i), "timeout", b.rdy)
           B == {i \in 0 .. n : ~Ok(i)}
<1>1. ASSUME B # {} PROVE FALSE
  <2>1. PICK m \in B : \A h \in B : m <= h
    <3>1. B \subseteq Nat
      OBVIOUS
    <3> HIDE DEF B
    <3> QED BY <1>1, <3>1, NatMin
  <2>2. m # 0
    <3>1. g[0] = b
      BY DEF IsRun
    <3>2. Firsts(l, 0) = {}
      BY DEF Firsts
    <3>3. Woken(b, b, {}, "timeout", b.rdy)
      BY WokenNone
    <3>4. Ok(0)
      BY <3>1, <3>2, <3>3
    <3> QED BY <2>1, <3>4
  <2>3. PICK h \in 0 .. n : h = m - 1 /\ m \in 1 .. n
    BY <2>1, <2>2
  <2>4. Ok(h)
    BY <2>1, <2>3
  <2>5. PICK t \in Task : t = l[m] /\ \A e \in Left(b) : e[1] # t
    BY <2>3
  <2>6. t \notin Firsts(l, h)
    <3>1. ASSUME NEW j \in 1 .. h, l[j] = l[m] PROVE FALSE
      <4>1. j \in 1 .. n /\ j # m
        BY <2>3
      <4> QED BY <2>3, <3>1, <4>1
    <3> QED BY <2>5, <3>1 DEF Firsts
  <2>7. Firsts(l, m) = Firsts(l, h) \cup {t}
    <3>1. \A j \in 1 .. h : j \in 1 .. m
      BY <2>3
    <3>2. m \in 1 .. m
      BY <2>3
    <3>3. \A j \in 1 .. m : j \in 1 .. h \/ j = m
      BY <2>3
    <3> QED BY <2>5, <3>1, <3>2, <3>3 DEF Firsts
  <2>8. PICK q : q = g[h]
    OBVIOUS
  <2>9. PICK r : r = g[m] /\ r = TimeOut(q, t)
    BY <2>3, <2>5, <2>8 DEF IsRun, Combine
  <2>10. Left(q) = Left(b)
    BY <2>4, <2>8, SameList
  <2>11. /\ r \in Kernel /\ r.list = q.list /\ r.remain = q.remain
         /\ Woken(r, q, {t}, "timeout", q.rdy)
    <3>1. q \in Kernel /\ \A e \in Left(q) : e[1] # t
      BY <2>4, <2>5, <2>8, <2>10
    <3>2. r = TimeOut(q, t)
      BY <2>9
    <3> QED BY <3>1, <3>2, TimeOutIs
  <2>12. Woken(q, b, Firsts(l, h), "timeout", b.rdy)
    BY <2>4, <2>8
  <2>13. q.rdy[t] = b.rdy[t]
    BY <2>12 DEF Woken
  <2>14. Woken(r, b, Firsts(l, h) \cup {t}, "timeout", b.rdy)
    BY <2>6, <2>11, <2>12, <2>13, WokenAdds
  <2>15. Ok(m)
    BY <2>4, <2>7, <2>8, <2>9, <2>11, <2>14
  <2> QED BY <2>1, <2>15
<1>2. Ok(n)
  <2>1. n \in 0 .. n
    OBVIOUS
  <2> QED BY <1>1, <2>1
<1> QED BY <1>2

(* OS_TickListUpdate: it wakes the tasks whose time is over, and all others   *)
(* wait for a tick less.                                                      *)
Outs(s) == {e[1] : e \in {x \in Left(s) : x[2] <= 1}}

LEMMA TickIs ==
  ASSUME NEW s, Sound(s), NEW r, r = TickListUpdate(s)
  PROVE  \E b : /\ b \in Kernel /\ Rest(b, s) /\ b.state = s.state
                /\ Left(b) = {<<e[1], e[2] - 1>> : e \in {x \in Left(s) : x[2] > 1}}
                /\ Sound(r) /\ Woken(r, b, Outs(s), "timeout", s.rdy)
<1>0. s \in Kernel /\ Listed(s) /\ TickBits(s)
  BY DEF Sound
<1>1. PICK m : m = Over(s)
  OBVIOUS
<1>2. PICK b : b = Aged(s, m)
  OBVIOUS
<1>3. m \in 0 .. Len(s.list) /\ \A i \in 1 .. Len(s.list) : i <= m <=> Until(s, i) <= 1
  BY <1>0, <1>1, <1>2, AgeIs
<1>4. /\ b \in Kernel /\ Rest(b, s) /\ Listed(b) /\ b.state = s.state
      /\ Left(b) = {<<e[1], e[2] - 1>> : e \in {x \in Left(s) : x[2] > 1}}
  BY <1>0, <1>1, <1>2, AgeIs
<1>5. PICK n \in Nat : /\ n = Len(s.list) /\ \A i \in 1 .. n : s.list[i] \in Task
                       /\ \A i, j \in 1 .. n : s.list[i] = s.list[j] => i = j
                       /\ \A i \in 1 .. n : Until(s, i) \in 0 .. Wrap - 1
                       /\ s.list \in Seq(Task)
  <2>1. s.list \in Seq(Task)
    BY <1>0 DEF Listed
  <2>2. Len(s.list) \in Nat /\ \A i \in 1 .. Len(s.list) : i \in 0 .. Len(s.list)
    BY <2>1
  <2>3. /\ \A i \in 1 .. Len(s.list) : s.list[i] \in Task
        /\ \A i, j \in 1 .. Len(s.list) : s.list[i] = s.list[j] => i = j
        /\ \A i \in 0 .. Len(s.list) : Until(s, i) \in 0 .. Wrap - 1
    BY <1>0, ListedFacts
  <2> QED BY <2>1, <2>2, <2>3
<1>6. PICK l : l = SubSeq(s.list, 1, m)
  OBVIOUS
<1>7. /\ m \in Nat /\ m <= n /\ DOMAIN l = 1 .. m
      /\ \A i \in 1 .. m : l[i] = s.list[i] /\ i \in 1 .. n
  BY <1>3, <1>5, <1>6
<1>8. PICK g : IsRun(g, "out", 0, b, l, m) /\ OutList(b, l) = g[m]
  BY <1>7, OutRun
<1>9. r = g[m]
  BY <1>1, <1>2, <1>6, <1>8 DEF TickListUpdate, OutList, Over, Aged
<1>10. Firsts(l, m) = Outs(s)
  <2>1. ASSUME NEW i \in 1 .. m PROVE l[i] \in Outs(s)
    <3>1. <<s.list[i], Until(s, i)>> \in Left(s) /\ Until(s, i) <= 1
      BY <1>3, <1>5, <1>7 DEF Left
    <3> QED BY <1>7, <3>1 DEF Outs
  <2>2. ASSUME NEW e \in Left(s), e[2] <= 1 PROVE \E i \in 1 .. m : l[i] = e[1]
    <3>1. PICK i \in 1 .. n : e = <<s.list[i], Until(s, i)>>
      BY <1>5 DEF Left
    <3>2. i <= m
      BY <1>3, <1>5, <2>2, <3>1
    <3>3. i \in 1 .. m
      BY <1>7, <3>2
    <3> QED BY <1>7, <3>1, <3>3
  <2> QED BY <2>1, <2>2 DEF Firsts, Outs
<1>11. \A t \in Outs(s) : \A e \in Left(b) : e[1] # t
  <2>1. ASSUME NEW i \in 1 .. n, NEW j \in 1 .. n, s.list[i] = s.list[j]
        PROVE  Until(s, i) = Until(s, j)
    BY <1>5, <2>1
  <2>2. ASSUME NEW x \in Left(s), NEW y \in Left(s), x[1] = y[1] PROVE x[2] = y[2]
    <3>1. PICK i \in 1 .. n : x = <<s.list[i], Until(s, i)>>
      BY <1>5 DEF Left
    <3>2. PICK j \in 1 .. n : y = <<s.list[j], Until(s, j)>>
      BY <1>5 DEF Left
    <3> QED BY <2>1, <2>2, <3>1, <3>2
  <2>3. \A x \in Left(s) : x[2] \in Int
    BY <1>5 DEF Left
  <2>4. ASSUME NEW x \in Left(s), x[2] <= 1, NEW y \in Left(s), y[2] > 1, x[1] = y[1] PROVE FALSE
    BY <2>2, <2>3, <2>4
  <2> QED BY <1>4, <2>4 DEF Outs
<1>12. \A i \in 1 .. m : l[i] \in Task /\ \A e \in Left(b) : e[1] # l[i]
  BY <1>5, <1>7, <1>10, <1>11, SMTT(20) DEF Firsts
<1>13. \A i, j \in 1 .. m : l[i] = l[j] => i = j
  BY <1>5, <1>7
<1>14. /\ r \in Kernel /\ r.list = b.list /\ r.remain = b.remain
       /\ Woken(r, b, Outs(s), "timeout", b.rdy)
  BY <1>4, <1>7, <1>8, <1>9, <1>10, <1>12, <1>13, OutsRun
<1>15. b.rdy = s.rdy
  BY <1>4 DEF Rest
<1>16. Left(r) = Left(b) /\ Listed(r)
  BY <1>4, <1>14, SameList
<1>17. TickBits(r)
  <2>1. ASSUME NEW t \in Task PROVE Timed(r, t) <=> t \in ToSet(r.list)
    <3>1. Timed(r, t) <=> Timed(s, t) /\ t \notin Outs(s)
      BY <1>4, <1>14 DEF Woken, Timed
    <3>2. Timed(s, t) <=> t \in ToSet(s.list)
      BY <1>0 DEF TickBits
    <3>3. ToSet(s.list) = {e[1] : e \in Left(s)} /\ ToSet(r.list) = {e[1] : e \in Left(r)}
      <4>1. r.list \in Seq(Task)
        BY <1>16 DEF Listed
      <4> QED BY <1>5, <4>1, ToSetLeft
    <3>4. \A e \in Left(s) : e[2] \in Int /\ (e[2] <= 1 \/ e[2] > 1)
      BY <1>5 DEF Left
    <3>5. (\E e \in Left(r) : e[1] = t) <=> (\E e \in Left(s) : e[1] = t /\ e[2] > 1)
      <4>1. Left(r) = {<<e[1], e[2] - 1>> : e \in {x \in Left(s) : x[2] > 1}}
        BY <1>4, <1>16
      <4>2. ASSUME NEW e \in Left(s), e[2] > 1 PROVE \E x \in Left(r) : x[1] = e[1]
        <5>1. <<e[1], e[2] - 1>> \in Left(r) /\ <<e[1], e[2] - 1>>[1] = e[1]
          BY <4>1, <4>2
        <5> QED BY <5>1
      <4>3. ASSUME NEW x \in Left(r) PROVE \E e \in Left(s) : e[2] > 1 /\ x[1] = e[1]
        <5>1. PICK e \in Left(s) : e[2] > 1 /\ x = <<e[1], e[2] - 1>>
          BY <4>1
        <5> QED BY <5>1
      <4> QED BY <4>2, <4>3
    <3>6. ASSUME NEW e \in Left(s), e[1] = t, e[2] > 1, t \in Outs(s) PROVE FALSE
      <4>1. <<e[1], e[2] - 1>> \in Left(b)
        BY <1>4, <3>6
      <4>2. <<e[1], e[2] - 1>>[1] = t
        BY <3>6
      <4> QED BY <1>11, <3>6, <4>1, <4>2
    <3>7. ASSUME NEW e \in Left(s), e[1] = t, t \notin Outs(s) PROVE e[2] > 1
      BY <3>4, <3>7 DEF Outs
    <3> QED BY <3>1, <3>2, <3>3, <3>5, <3>6, <3>7
  <2> QED BY <2>1 DEF TickBits
<1>18. Sound(r) /\ Woken(r, b, Outs(s), "timeout", s.rdy)
  BY <1>14, <1>15, <1>16, <1>17 DEF Sound
<1> QED BY <1>4, <1>18

-----------------------------------------------------------------------------
(* The inductive invariant. *)

Calls(c) ==
  /\ c \in [Task -> {NoCall, Dly} \cup Pends]
  /\ \A t \in Task : c[t] \in Pends => c[t].t = t

(* The bits of TaskState, PendOn and the call that the task is in.            *)
Bits(s, c) ==
  \A t \in Task :
    /\ "pend" \in s.state[t] <=> s.on[t] # "nothing"
    /\ "suspended" \in s.state[t] <=> s.nested[t] > 0
    /\ "suspended" \in s.state[t] => t \in Suspend
    /\ s.on[t] # "nothing" => s.on[t] \in {c[t].obj, "lost"}
    /\ Timed(s, t) /\ "pend" \notin s.state[t] => c[t] = Dly
    /\ Timed(s, t) /\ "pend" \in s.state[t] => c[t].timeout > 0
    /\ c[t].obj = "flag" => s.rdy[t] \subseteq c[t].flags

(* Nobody waits for a deleted object but these tasks.                         *)
Fresh(s, st) == \A t \in Task : s.on[t] # "nothing" /\ t \notin st => s.on[t] \in s.valid

(* Calls that are about to enter their critical section, one of a task at     *)
(* most, and none of a task that is in a call already.                        *)
Asks(a, c) ==
  /\ a \subseteq Pends
  /\ \A w \in a : c[w.t] = NoCall /\ \A v \in a : v.t = w.t => v = w

Ending(s, tk, d) == \A e \in Left(s) : (tk + e[2]) % Wrap = d[e[1]]

InPhase(s) == \A d \in Delays : Phased(d) => s.prev[d.t] % d.time = 0

NoneInVain(s, c) ==
  /\ "sem" \notin s.valid => s.ctr = 0
  /\ \A t \in Task :
       /\ s.on[t] = "sem" => s.ctr = 0
       /\ s.on[t] = "flag" /\ Alone(c[t]) => ~Met(c[t], s.flags)

(* The tasks that have got the semaphore and have not returned yet.           *)
Holders(s, c) ==
  {t \in Task : /\ c[t] # NoCall /\ c[t].obj = "sem"
                /\ "pend" \notin s.state[t] /\ s.status[t] = "ok"}

Inv ==
  /\ Sound(k) /\ Calls(call) /\ Bits(k, call)
  /\ Asks(asked, call) /\ stale \subseteq Task /\ Fresh(k, stale)
  /\ tick \in Time /\ due \in [Task -> Time] /\ Ending(k, tick, due)
  /\ InPhase(k) /\ NoneInVain(k, call)
  /\ credit \in Int /\ credit = k.ctr + Cardinality(Holders(k, call))

LEMMA CallFacts ==
  ASSUME NEW c, Calls(c), NEW t \in Task
  PROVE  \/ c[t] = NoCall /\ c[t].obj = "none"
         \/ c[t] = Dly /\ c[t].obj = "dly" /\ c[t] # NoCall
         \/ /\ c[t] \in Pends /\ c[t].obj \in {"sem", "flag"} /\ c[t].t = t
            /\ c[t] # NoCall /\ c[t] # Dly
<1>1. c[t] \in {NoCall, Dly} \cup Pends /\ (c[t] \in Pends => c[t].t = t)
  BY DEF Calls
<1>2. NoCall.obj = "none" /\ Dly.obj = "dly"
  BY DEF NoCall, Dly
<1>3. \A w \in Pends : w.obj \in {"sem", "flag"}
  BY WaitAssumption
<1> QED BY <1>1, <1>2, <1>3

(* These tasks wait or sleep, and get no flag that they do not wait for.      *)
MayEnd(s, c, W, p) ==
  \A t \in W : /\ "pend" \in s.state[t] \/ c[t] = Dly
               /\ s.on[t] # "lost"
               /\ c[t].obj = "flag" => p[t] \subseteq c[t].flags

(* What the end of waits leaves as it was: all the tasks that got the         *)
(* semaphore by it hold it until they return.                                 *)
LEMMA WokenKeeps ==
  ASSUME NEW s \in Kernel, NEW c, Calls(c), Bits(s, c), NEW W \in SUBSET Task, NEW why \in Why,
         NEW p, NEW r, Woken(r, s, W, why, p), MayEnd(s, c, W, p)
  PROVE  /\ Bits(r, c)
         /\ Holders(r, c) = IF why = "ok" THEN Holders(s, c) \cup (W \cap Waiters(s, "sem"))
                            ELSE Holders(s, c)
         /\ NoneInVain(s, c) => NoneInVain(r, c)
         /\ InPhase(s) => InPhase(r)
         /\ \A st : Fresh(s, st) => Fresh(r, st)
<1>0. \A t \in W : /\ "pend" \in s.state[t] \/ c[t] = Dly
                   /\ s.on[t] # "lost"
                   /\ c[t].obj = "flag" => p[t] \subseteq c[t].flags
  BY DEF MayEnd
<1>1. ASSUME NEW t \in Task
      PROVE  /\ r.state[t] = IF t \in W THEN s.state[t] \ {"dly", "pend"} ELSE s.state[t]
             /\ r.on[t] = IF t \in W /\ "pend" \in s.state[t] THEN "nothing" ELSE s.on[t]
             /\ r.status[t] = IF t \in W /\ "pend" \in s.state[t] THEN why ELSE s.status[t]
             /\ r.rdy[t] = IF t \in W THEN p[t] ELSE s.rdy[t]
             /\ r.nested[t] = s.nested[t] /\ r.valid = s.valid
             /\ r.ctr = s.ctr /\ r.flags = s.flags
  BY DEF Woken
<1>2. ASSUME NEW t \in Task
      PROVE  /\ "pend" \in s.state[t] <=> s.on[t] # "nothing"
             /\ "suspended" \in s.state[t] <=> s.nested[t] > 0
             /\ "suspended" \in s.state[t] => t \in Suspend
             /\ s.on[t] # "nothing" => s.on[t] \in {c[t].obj, "lost"}
             /\ Timed(s, t) /\ "pend" \notin s.state[t] => c[t] = Dly
             /\ Timed(s, t) /\ "pend" \in s.state[t] => c[t].timeout > 0
             /\ c[t].obj = "flag" => s.rdy[t] \subseteq c[t].flags
  BY DEF Bits
<1>3. Bits(r, c)
  <2>1. ASSUME NEW t \in Task
        PROVE  /\ "pend" \in r.state[t] <=> r.on[t] # "nothing"
               /\ "suspended" \in r.state[t] <=> r.nested[t] > 0
               /\ "suspended" \in r.state[t] => t \in Suspend
               /\ r.on[t] # "nothing" => r.on[t] \in {c[t].obj, "lost"}
               /\ Timed(r, t) /\ "pend" \notin r.state[t] => c[t] = Dly
               /\ Timed(r, t) /\ "pend" \in r.state[t] => c[t].timeout > 0
               /\ c[t].obj = "flag" => r.rdy[t] \subseteq c[t].flags
    <3>1. CASE t \in W
      BY <1>0, <1>1, <1>2, <3>1 DEF Timed
    <3>2. CASE t \notin W
      BY <1>1, <1>2, <3>2 DEF Timed
    <3> QED BY <3>1, <3>2
  <2> QED BY <2>1 DEF Bits
<1>4. Holders(r, c) = IF why = "ok" THEN Holders(s, c) \cup (W \cap Waiters(s, "sem"))
                      ELSE Holders(s, c)
  <2>1. ASSUME NEW t \in Task
        PROVE  t \in Holders(r, c) <=>
                 t \in Holders(s, c) \/ (why = "ok" /\ t \in W /\ s.on[t] = "sem")
    <3>1. CASE t \in W /\ "pend" \in s.state[t]
      <4>1. r.status[t] = why /\ "pend" \notin r.state[t] /\ t \notin Holders(s, c)
        BY <1>1, <3>1 DEF Holders
      <4>2. s.on[t] = c[t].obj
        BY <1>0, <1>2, <3>1
      <4>3. c[t].obj = "sem" => c[t] # NoCall
        BY CallFacts
      <4> QED BY <3>1, <4>1, <4>2, <4>3 DEF Holders
    <3>2. CASE t \in W /\ "pend" \notin s.state[t]
      <4>1. c[t] = Dly /\ s.on[t] = "nothing"
        BY <1>0, <1>2, <3>2
      <4>2. c[t].obj # "sem"
        BY <4>1 DEF Dly
      <4> QED BY <4>1, <4>2 DEF Holders
    <3>3. CASE t \notin W
      <4>1. r.state[t] = s.state[t] /\ r.status[t] = s.status[t]
        BY <1>1, <3>3
      <4>2. t \in Holders(r, c) <=> t \in Holders(s, c)
        BY <4>1 DEF Holders
      <4> QED BY <3>3, <4>2
    <3> QED BY <3>1, <3>2, <3>3
  <2>2. Holders(r, c) \subseteq Task /\ Holders(s, c) \subseteq Task
    BY DEF Holders
  <2>3. CASE why = "ok"
    BY <2>1, <2>2, <2>3 DEF Waiters
  <2>4. CASE why # "ok"
    BY <2>1, <2>2, <2>4
  <2> QED BY <2>3, <2>4
<1>5. NoneInVain(s, c) => NoneInVain(r, c)
  <2>1. r.valid = s.valid /\ r.ctr = s.ctr /\ r.flags = s.flags
    BY DEF Woken
  <2>2. ASSUME NEW t \in Task PROVE r.on[t] \in {s.on[t], "nothing"}
    BY <1>1
  <2> QED BY <2>1, <2>2 DEF NoneInVain
<1>6. InPhase(s) => InPhase(r)
  <2>1. r.prev = s.prev
    BY DEF Woken
  <2> QED BY <2>1 DEF InPhase
<1>7. ASSUME NEW st, Fresh(s, st) PROVE Fresh(r, st)
  <2>1. ASSUME NEW t \in Task PROVE r.on[t] \in {s.on[t], "nothing"} /\ r.valid = s.valid
    BY <1>1
  <2> QED BY <1>7, <2>1 DEF Fresh
<1> QED BY <1>3, <1>4, <1>5, <1>6, <1>7

LEMMA WokenGets ==
  ASSUME NEW s \in Kernel, NEW c, Calls(c), Bits(s, c), NEW W \in SUBSET Task,
         NEW p, NEW r, Woken(r, s, W, "ok", p), MayEnd(s, c, W, p), NEW st
  PROVE  /\ Bits(r, c) /\ Holders(r, c) = Holders(s, c) \cup (W \cap Waiters(s, "sem"))
         /\ NoneInVain(s, c) => NoneInVain(r, c)
         /\ InPhase(s) => InPhase(r)
         /\ Fresh(s, st) => Fresh(r, st)
<1>1. PICK why \in Why : why = "ok"
  BY DEF Why
<1>2. Woken(r, s, W, why, p)
  BY <1>1
<1>3. /\ Bits(r, c)
      /\ Holders(r, c) = IF why = "ok" THEN Holders(s, c) \cup (W \cap Waiters(s, "sem"))
                         ELSE Holders(s, c)
      /\ NoneInVain(s, c) => NoneInVain(r, c)
      /\ InPhase(s) => InPhase(r)
      /\ \A q : Fresh(s, q) => Fresh(r, q)
  BY <1>2, WokenKeeps
<1> QED BY <1>1, <1>3

LEMMA WokenEnding ==
  ASSUME NEW s, NEW W, NEW why, NEW p, NEW r, Woken(r, s, W, why, p), NEW tk, NEW d, Ending(s, tk, d)
  PROVE  Ending(r, tk, d)
<1>1. Left(r) \subseteq Left(s)
  BY DEF Woken
<1> QED BY <1>1 DEF Ending

LEMMA HoldersFinite ==
  ASSUME NEW s, NEW c
  PROVE  IsFiniteSet(Holders(s, c)) /\ Cardinality(Holders(s, c)) \in Nat
<1>1. Holders(s, c) \subseteq Task
  BY DEF Holders
<1>2. IsFiniteSet(Holders(s, c))
  BY <1>1, WaitAssumption, FS_Subset
<1> QED BY <1>2, FS_CardinalityType

(* A step of an interrupt or of the manager that ends the waits of W, of all  *)
(* or the first waiter of an object.                                          *)
LEMMA WakingKeeps ==
  ASSUME Inv, NEW W \in SUBSET Task, NEW obj \in {"sem", "flag"}, W \subseteq Waiters(k, obj),
         NEW why \in Why, NEW r, Sound(r), Woken(r, k, W, why, k.rdy)
  PROVE  /\ Bits(r, call) /\ Ending(r, tick, due) /\ InPhase(r) /\ NoneInVain(r, call)
         /\ Fresh(r, stale) /\ r.ctr = k.ctr
         /\ Cardinality(Holders(r, call))
            = Cardinality(Holders(k, call)) + IF why = "ok" /\ obj = "sem" THEN Cardinality(W) ELSE 0
<1>1. /\ k \in Kernel /\ Calls(call) /\ Bits(k, call) /\ Ending(k, tick, due) /\ InPhase(k)
      /\ NoneInVain(k, call) /\ Fresh(k, stale)
  BY DEF Inv, Sound
<1>2. ASSUME NEW t \in W
      PROVE  /\ "pend" \in k.state[t] /\ k.on[t] = obj
             /\ call[t].obj = "flag" => k.rdy[t] \subseteq call[t].flags
  BY <1>1 DEF Bits, Waiters
<1>3. /\ Bits(r, call) /\ Ending(r, tick, due) /\ InPhase(r) /\ NoneInVain(r, call)
      /\ Fresh(r, stale)
      /\ Holders(r, call) = IF why = "ok" THEN Holders(k, call) \cup (W \cap Waiters(k, "sem"))
                            ELSE Holders(k, call)
  <2>1. MayEnd(k, call, W, k.rdy)
    BY <1>2 DEF MayEnd
  <2>2. /\ Bits(r, call)
        /\ Holders(r, call) = IF why = "ok" THEN Holders(k, call) \cup (W \cap Waiters(k, "sem"))
                              ELSE Holders(k, call)
        /\ NoneInVain(k, call) => NoneInVain(r, call)
        /\ InPhase(k) => InPhase(r)
        /\ \A st : Fresh(k, st) => Fresh(r, st)
    BY ONLY <1>1, <2>1, WokenKeeps, W \in SUBSET Task, why \in Why, Woken(r, k, W, why, k.rdy)
  <2>3. Ending(r, tick, due)
    BY <1>1, WokenEnding
  <2> QED BY <1>1, <2>2, <2>3
<1>4. Cardinality(Holders(r, call))
      = Cardinality(Holders(k, call)) + IF why = "ok" /\ obj = "sem" THEN Cardinality(W) ELSE 0
  <2>1. Cardinality(Holders(k, call)) \in Nat /\ IsFiniteSet(Holders(k, call))
    BY HoldersFinite
  <2>2. CASE why = "ok" /\ obj = "sem"
    <3>1. W \cap Waiters(k, "sem") = W
      BY <1>2, <2>2 DEF Waiters
    <3>2. Holders(k, call) \cap W = {}
      BY <1>2 DEF Holders
    <3>3. IsFiniteSet(W)
      BY WaitAssumption, FS_Subset
    <3>4. Cardinality(Holders(k, call) \cup W)
          = Cardinality(Holders(k, call)) + Cardinality(W) - Cardinality(Holders(k, call) \cap W)
      BY <2>1, <3>3, FS_Union
    <3>5. Cardinality(Holders(k, call) \cap W) = 0
      BY <3>2, FS_EmptySet
    <3>6. Cardinality(W) \in Nat
      BY <3>3, FS_CardinalityType
    <3>7. PICK x \in Int, y \in Int : x = Cardinality(Holders(k, call)) /\ y = Cardinality(W)
      BY <2>1, <3>6
    <3>8. Cardinality(Holders(k, call) \cup W) = x + y
      BY <3>4, <3>5, <3>7
    <3> QED BY <1>3, <2>2, <3>1, <3>7, <3>8
  <2>3. CASE ~(why = "ok" /\ obj = "sem")
    <3>1. Holders(r, call) = Holders(k, call)
      <4>1. CASE obj # "sem"
        <5>1. W \cap Waiters(k, "sem") = {}
          BY <1>2, <4>1 DEF Waiters
        <5> QED BY <1>3, <5>1
      <4>2. CASE why # "ok"
        BY <1>3, <4>2
      <4> QED BY <2>3, <4>1, <4>2
    <3> QED BY <2>1, <2>3, <3>1
  <2> QED BY <2>2, <2>3
<1>5. r.ctr = k.ctr
  BY DEF Woken
<1> QED BY <1>3, <1>4, <1>5

(* What an interrupt or the manager keeps, whatever happens to the posts.     *)
Keeps(r) ==
  /\ Sound(r) /\ Bits(r, call) /\ Ending(r, tick, due)
  /\ InPhase(r) /\ NoneInVain(r, call) /\ Fresh(r, stale)

(* A step that begins and ends no wait of a task in a call.                   *)
Quiet == UNCHANGED <<tick, call, due, stale>> /\ asked' \subseteq asked

LEMMA AsksLess ==
  ASSUME NEW a, NEW c, Asks(a, c), NEW b, b \subseteq a PROVE Asks(b, c)
BY DEF Asks

LEMMA EnvQuiet == Env => Quiet
BY DEF Env, Quiet

LEMMA QuietKeeps ==
  ASSUME Inv, Quiet, NEW r, r = k', Keeps(r),
         credit' \in Int, credit' = r.ctr + Cardinality(Holders(r, call))
  PROVE  Inv'
<1>1. Asks(asked', call)
  BY AsksLess DEF Inv, Quiet
<1> QED BY <1>1 DEF Inv, Quiet, Keeps

LEMMA EnvKeeps ==
  ASSUME Inv, Env, NEW r, r = k', Keeps(r),
         credit' \in Int, credit' = r.ctr + Cardinality(Holders(r, call))
  PROVE  Inv'
BY EnvQuiet, QuietKeeps

(* The first waiter, if there is one, and all of them.                        *)
LEMMA Firstly ==
  ASSUME NEW s, NEW obj
  PROVE  /\ PendList(s, obj) = <<>> <=> Waiters(s, obj) = {}
         /\ PendList(s, obj) # <<>> => Head(PendList(s, obj)) \in Waiters(s, obj)
         /\ Len(PendList(s, obj)) = Cardinality(Waiters(s, obj))
         /\ Cardinality(Waiters(s, obj)) \in Nat
<1>1. PICK l : l = PendList(s, obj)
  OBVIOUS
<1>2. /\ l \in Seq(Task) /\ Len(l) = Cardinality(Waiters(s, obj))
      /\ {l[i] : i \in 1 .. Len(l)} = Waiters(s, obj)
      /\ Cardinality(Waiters(s, obj)) \in Nat
  BY <1>1, PendListIs
<1>3. ASSUME l # <<>> PROVE Head(l) \in Waiters(s, obj) /\ Waiters(s, obj) # {}
  <2>1. Head(l) = l[1] /\ 1 \in 1 .. Len(l)
    BY <1>2, <1>3
  <2>2. l[1] \in Waiters(s, obj)
    BY <1>2, <2>1
  <2> QED BY <2>1, <2>2
<1>4. ASSUME l = <<>> PROVE Waiters(s, obj) = {}
  <2>1. \A i \in 1 .. Len(l) : FALSE
    BY <1>4
  <2> QED BY <1>2, <2>1
<1> QED BY <1>1, <1>2, <1>3, <1>4

Wakes(r, obj, why, W) ==
  \/ /\ PendList(k, obj) # <<>> /\ r = Wake(k, Head(PendList(k, obj)), why)
     /\ W = {Head(PendList(k, obj))}
  \/ r = WakeAll(k, obj, why) /\ W = Waiters(k, obj)

LEMMA WakesKeep ==
  ASSUME Inv, NEW obj \in {"sem", "flag"}, NEW why \in Why, NEW r, NEW W, Wakes(r, obj, why, W)
  PROVE  /\ Keeps(r) /\ Woken(r, k, W, why, k.rdy) /\ W \subseteq Waiters(k, obj)
         /\ r.ctr = k.ctr
         /\ Cardinality(Holders(r, call))
            = Cardinality(Holders(k, call)) + IF why = "ok" /\ obj = "sem" THEN Cardinality(W) ELSE 0
<1>1. Sound(k) /\ Bits(k, call)
  BY DEF Inv
<1>2. \A t \in Waiters(k, obj) : "pend" \in k.state[t] /\ t \in Task
  BY <1>1 DEF Bits, Waiters
<1>3. Sound(r) /\ Woken(r, k, W, why, k.rdy) /\ W \subseteq Waiters(k, obj) /\ W \in SUBSET Task
  <2>1. CASE /\ PendList(k, obj) # <<>> /\ r = Wake(k, Head(PendList(k, obj)), why)
             /\ W = {Head(PendList(k, obj))}
    <3>1. PICK t \in Waiters(k, obj) : t = Head(PendList(k, obj))
      BY <2>1, Firstly
    <3>2. t \in Task /\ "pend" \in k.state[t]
      BY <1>2
    <3> QED BY <1>1, <2>1, <3>1, <3>2, WakeIs
  <2>2. CASE r = WakeAll(k, obj, why) /\ W = Waiters(k, obj)
    <3>1. Sound(r) /\ Woken(r, k, W, why, k.rdy)
      BY <1>1, <1>2, <2>2, WakeAllIs
    <3> QED BY <1>2, <2>2, <3>1
  <2> QED BY <2>1, <2>2 DEF Wakes
<1>4. /\ Bits(r, call) /\ Ending(r, tick, due) /\ InPhase(r) /\ NoneInVain(r, call)
      /\ Fresh(r, stale) /\ r.ctr = k.ctr
      /\ Cardinality(Holders(r, call))
         = Cardinality(Holders(k, call)) + IF why = "ok" /\ obj = "sem" THEN Cardinality(W) ELSE 0
  BY <1>3, WakingKeeps
<1> QED BY <1>3, <1>4 DEF Keeps

(* Only the objects change: which of them there are, the count, the flags.    *)
Objects(s, v, n, f) == [s EXCEPT !.valid = v, !.ctr = n, !.flags = f]

(* r is s with these objects.                                                 *)
Alike(r, s, v, n, f) ==
  /\ Left(r) = Left(s)
  /\ r.state = s.state /\ r.nested = s.nested /\ r.on = s.on /\ r.status = s.status
  /\ r.rdy = s.rdy /\ r.prev = s.prev /\ r.valid = v /\ r.ctr = n /\ r.flags = f

LEMMA ObjectsKeep ==
  ASSUME NEW s, Sound(s), NEW v \in SUBSET {"sem", "flag"}, NEW n \in 0 .. SemMax,
         NEW f \in SUBSET Flag, NEW r, r = Objects(s, v, n, f)
  PROVE  Sound(r) /\ Alike(r, s, v, n, f)
<1>1. s \in Kernel /\ Listed(s) /\ TickBits(s)
  BY DEF Sound
<1>2. /\ r.state = s.state /\ r.nested = s.nested /\ r.on = s.on /\ r.status = s.status
      /\ r.rdy = s.rdy /\ r.prev = s.prev /\ r.list = s.list /\ r.remain = s.remain
      /\ r.valid = v /\ r.ctr = n /\ r.flags = f /\ r \in Kernel
  BY <1>1 DEF Objects, Kernel
<1>3. Left(r) = Left(s) /\ Listed(r)
  BY <1>1, <1>2, SameList
<1>4. TickBits(r)
  BY <1>1, <1>2 DEF TickBits, Timed
<1> QED BY <1>2, <1>3, <1>4 DEF Sound, Alike

(* No task waits for an object that goes, unless it began to when the object  *)
(* was gone, and none waits in vain for one that changes.                     *)
Fits(s, v, n, f) ==
  /\ "sem" \notin v => n = 0
  /\ \A t \in Task :
       /\ s.on[t] # "nothing" /\ t \notin stale => s.on[t] \in v
       /\ s.on[t] = "sem" => n = 0
       /\ s.on[t] = "flag" /\ Alone(call[t]) => ~Met(call[t], f)

LEMMA ObjectsInv ==
  ASSUME Calls(call), NEW s, Keeps(s), NEW v \in SUBSET {"sem", "flag"}, NEW n \in 0 .. SemMax,
         NEW f \in SUBSET Flag, NEW r, r = Objects(s, v, n, f), Fits(s, v, n, f)
  PROVE  Keeps(r) /\ r.ctr = n /\ Holders(r, call) = Holders(s, call)
<1>1. Sound(s) /\ Bits(s, call) /\ Ending(s, tick, due) /\ InPhase(s)
  BY DEF Keeps
<1>2. /\ Sound(r) /\ Left(r) = Left(s)
      /\ r.state = s.state /\ r.nested = s.nested /\ r.on = s.on /\ r.status = s.status
      /\ r.rdy = s.rdy /\ r.prev = s.prev /\ r.valid = v /\ r.ctr = n /\ r.flags = f
      /\ Holders(r, call) = Holders(s, call) /\ InPhase(r) /\ Ending(r, tick, due)
  <2>1. Sound(r) /\ Alike(r, s, v, n, f)
    BY <1>1, ObjectsKeep
  <2>2. Holders(r, call) = Holders(s, call)
    BY <2>1 DEF Alike, Holders
  <2>3. InPhase(r)
    BY <1>1, <2>1 DEF Alike, InPhase
  <2>4. Ending(r, tick, due)
    BY <1>1, <2>1 DEF Alike, Ending
  <2> QED BY <2>1, <2>2, <2>3, <2>4 DEF Alike
<1>3. Bits(r, call)
  BY <1>1, <1>2 DEF Bits, Timed, Fits
<1>4. NoneInVain(r, call)
  BY <1>2 DEF NoneInVain, Fits
<1>5. Fresh(r, stale)
  BY <1>2 DEF Fresh, Fits
<1> QED BY <1>2, <1>3, <1>4, <1>5 DEF Keeps

(* The kernel's data as the invariant has them.                               *)
LEMMA InvFacts ==
  ASSUME Inv
  PROVE  /\ Keeps(k) /\ Calls(call) /\ k \in Kernel /\ credit \in Int
         /\ k.valid \in SUBSET {"sem", "flag"} /\ k.ctr \in 0 .. SemMax /\ k.ctr \in Nat
         /\ k.flags \in SUBSET Flag
         /\ credit = k.ctr + Cardinality(Holders(k, call))
         /\ Cardinality(Holders(k, call)) \in Nat
         /\ SemMax \in Nat /\ SemMax > 0
<1>1. Keeps(k) /\ Calls(call) /\ credit \in Int /\ credit = k.ctr + Cardinality(Holders(k, call))
  BY DEF Inv, Keeps
<1>2. k \in Kernel /\ SemMax \in Nat /\ SemMax > 0
  BY WaitAssumption DEF Inv, Sound
<1>3. /\ k.valid \in SUBSET {"sem", "flag"} /\ k.ctr \in 0 .. SemMax /\ k.ctr \in Nat
      /\ k.flags \in SUBSET Flag
  BY <1>2 DEF Kernel
<1> QED BY <1>1, <1>2, <1>3, HoldersFinite

(* OSSemSet and the post that nobody waits for: the count changes when no     *)
(* task waits for the semaphore.                                              *)
LEMMA CountStep ==
  ASSUME Inv, Quiet, k.ctr > 0 \/ Waiters(k, "sem") = {}, "sem" \in k.valid, NEW n \in 0 .. SemMax,
         k' = [k EXCEPT !.ctr = n], credit' = credit + n - k.ctr
  PROVE  Inv'
<1>1. PICK r : r = k'
  OBVIOUS
<1>2. r = Objects(k, k.valid, n, k.flags)
  BY <1>1, InvFacts DEF Kernel, Objects
<1>3. ASSUME NEW t \in Task
      PROVE  /\ k.on[t] # "nothing" /\ t \notin stale => k.on[t] \in k.valid
             /\ k.on[t] # "sem"
             /\ k.on[t] = "flag" /\ Alone(call[t]) => ~Met(call[t], k.flags)
  <2>1. Fresh(k, stale) /\ NoneInVain(k, call) /\ k.ctr \in Nat
    BY InvFacts DEF Keeps
  <2>2. k.on[t] # "sem"
    BY <2>1 DEF NoneInVain, Waiters
  <2> QED BY <2>1, <2>2 DEF Fresh, NoneInVain
<1>4. Keeps(r) /\ r.ctr = n /\ Holders(r, call) = Holders(k, call)
  <2>1. Fits(k, k.valid, n, k.flags)
    BY <1>3 DEF Fits
  <2> QED BY <1>2, <2>1, InvFacts, ObjectsInv
<1>5. credit' \in Int /\ credit' = r.ctr + Cardinality(Holders(r, call))
  <2>1. PICK h \in Int, m \in Int, x \in Int :
          h = Cardinality(Holders(k, call)) /\ m = k.ctr /\ x = credit /\ x = m + h
    BY InvFacts
  <2> QED BY <1>4, <2>1
<1> QED BY <1>1, <1>4, <1>5, QuietKeeps

LEMMA SemPostStep == ASSUME Inv, SemPost PROVE Inv'
<1>1. Env /\ k.ctr \in Nat /\ SemMax \in Nat
  BY InvFacts DEF SemPost
<1>2. CASE /\ PendList(k, "sem") = <<>> /\ k.ctr < SemMax
           /\ k' = [k EXCEPT !.ctr = @ + 1] /\ credit' = credit + 1
  <2>1. PICK n \in 0 .. SemMax : n = k.ctr + 1
    BY <1>1, <1>2
  <2>2. k' = [k EXCEPT !.ctr = n]
    BY <1>2, <2>1
  <2>3. credit' = credit + n - k.ctr
    <3>1. PICK x \in Int, y \in Int : x = credit /\ y = k.ctr
      BY <1>1, InvFacts
    <3> QED BY <1>2, <2>1, <3>1
  <2>4. Waiters(k, "sem") = {}
    BY <1>2, Firstly
  <2> QED BY <1>1, <2>2, <2>3, <2>4, EnvQuiet, CountStep DEF SemPost
<1>3. ASSUME NEW W, Wakes(k', "sem", "ok", W), credit' = credit + Cardinality(W) PROVE Inv'
  <2>1. PICK r : r = k'
    OBVIOUS
  <2>2. Wakes(r, "sem", "ok", W)
    BY <1>3, <2>1
  <2>3. /\ Keeps(r) /\ W \subseteq Waiters(k, "sem") /\ r.ctr = k.ctr
        /\ Cardinality(Holders(r, call)) = Cardinality(Holders(k, call)) + Cardinality(W)
    <3>1. "ok" \in Why
      BY DEF Why
    <3> QED BY <2>2, <3>1, WakesKeep
  <2>4. Cardinality(W) \in Nat
    <3>1. W \subseteq Task
      BY <2>3 DEF Waiters
    <3>2. IsFiniteSet(W)
      BY <3>1, WaitAssumption, FS_Subset
    <3> QED BY <3>2, FS_CardinalityType
  <2>5. credit' \in Int /\ credit' = r.ctr + Cardinality(Holders(r, call))
    <3>1. PICK h \in Int, m \in Int, x \in Int, w \in Int :
            /\ h = Cardinality(Holders(k, call)) /\ m = k.ctr /\ x = credit /\ x = m + h
            /\ w = Cardinality(W)
      BY <2>4, InvFacts
    <3> QED BY <1>3, <2>3, <3>1
  <2> QED BY <1>1, <2>1, <2>3, <2>5, EnvKeeps
<1>4. CASE /\ PendList(k, "sem") # <<>> /\ k' = Wake(k, Head(PendList(k, "sem")), "ok")
           /\ credit' = credit + 1
  <2>1. PICK W : W = {Head(PendList(k, "sem"))}
    OBVIOUS
  <2>2. Cardinality(W) = 1
    BY <2>1, FS_Singleton
  <2>3. Wakes(k', "sem", "ok", W)
    BY <1>4, <2>1 DEF Wakes
  <2> QED BY <1>3, <1>4, <2>2, <2>3
<1>5. CASE /\ PendList(k, "sem") # <<>> /\ k' = WakeAll(k, "sem", "ok")
           /\ credit' = credit + Len(PendList(k, "sem"))
  <2>1. PICK W : W = Waiters(k, "sem")
    OBVIOUS
  <2>2. Cardinality(W) = Len(PendList(k, "sem"))
    BY <2>1, Firstly
  <2>3. Wakes(k', "sem", "ok", W)
    BY <1>5, <2>1 DEF Wakes
  <2> QED BY <1>3, <1>5, <2>2, <2>3
<1> QED BY <1>2, <1>4, <1>5 DEF SemPost

LEMMA SemSetStep == ASSUME Inv, SemSet PROVE Inv'
BY EnvQuiet, CountStep DEF SemSet

LEMMA PendAbortStep ==
  ASSUME Inv, NEW obj \in {"sem", "flag"}, PendAbort(obj) PROVE Inv'
<1>1. Env /\ credit' = credit /\ Waiters(k, obj) # {}
  BY DEF PendAbort
<1>2. PICK r : r = k' /\ r \in {Wake(k, Head(PendList(k, obj)), "abort"), WakeAll(k, obj, "abort")}
  BY DEF PendAbort
<1>3. \E W : Wakes(r, obj, "abort", W)
  <2>1. PendList(k, obj) # <<>>
    BY <1>1, Firstly
  <2> QED BY <1>2, <2>1 DEF Wakes
<1>4. PICK W : Wakes(r, obj, "abort", W)
  BY <1>3
<1>5. Keeps(r) /\ r.ctr = k.ctr /\ Cardinality(Holders(r, call)) = Cardinality(Holders(k, call))
  <2>1. "abort" \in Why /\ "abort" # "ok"
    BY DEF Why
  <2>2. Cardinality(Holders(k, call)) + 0 = Cardinality(Holders(k, call))
    BY InvFacts
  <2> QED BY <1>4, <2>1, <2>2, WakesKeep
<1>6. credit' \in Int /\ credit' = r.ctr + Cardinality(Holders(r, call))
  BY <1>1, <1>5, InvFacts
<1> QED BY <1>1, <1>2, <1>5, <1>6, EnvKeeps

LEMMA DelStep ==
  ASSUME Inv, NEW obj \in {"sem", "flag"}, Del(obj) PROVE Inv'
<1>1. Env
  BY DEF Del
<1>2. PICK s : s = WakeAll(k, obj, "del")
  OBVIOUS
<1>3. /\ Keeps(s) /\ s.ctr = k.ctr /\ Woken(s, k, Waiters(k, obj), "del", k.rdy)
      /\ Cardinality(Holders(s, call)) = Cardinality(Holders(k, call))
  <2>1. "del" \in Why /\ "del" # "ok"
    BY DEF Why
  <2>2. Cardinality(Holders(k, call)) + 0 = Cardinality(Holders(k, call))
    BY InvFacts
  <2>3. Wakes(s, obj, "del", Waiters(k, obj))
    BY <1>2 DEF Wakes
  <2> QED BY <2>1, <2>2, <2>3, WakesKeep
<1>4. ASSUME NEW t \in Task
      PROVE  /\ s.on[t] # obj
             /\ s.on[t] # "nothing" /\ t \notin stale => s.on[t] \in s.valid
             /\ s.on[t] = "sem" => s.ctr = 0
             /\ s.on[t] = "flag" /\ Alone(call[t]) => ~Met(call[t], s.flags)
  <2>1. Bits(k, call) /\ Fresh(s, stale) /\ NoneInVain(s, call)
    BY <1>3, InvFacts DEF Keeps
  <2>2. s.on[t] = IF t \in Waiters(k, obj) /\ "pend" \in k.state[t] THEN "nothing" ELSE k.on[t]
    BY <1>3 DEF Woken
  <2>3. s.on[t] # obj
    BY <2>1, <2>2 DEF Waiters, Bits
  <2> QED BY <2>1, <2>3 DEF Fresh, NoneInVain
<1>5. /\ s \in Kernel /\ s.valid \in SUBSET {"sem", "flag"} /\ s.ctr \in 0 .. SemMax
      /\ s.flags \in SUBSET Flag /\ s.valid \ {obj} \in SUBSET {"sem", "flag"}
      /\ 0 \in 0 .. SemMax /\ {} \in SUBSET Flag
  <2>1. s \in Kernel
    BY <1>3 DEF Keeps, Sound
  <2>2. s.valid \in SUBSET {"sem", "flag"} /\ s.ctr \in 0 .. SemMax /\ s.flags \in SUBSET Flag
    BY <2>1 DEF Kernel
  <2> QED BY <2>1, <2>2, InvFacts
<1>6. PICK r : r = k'
  OBVIOUS
<1>7. PICK v : v = s.valid \ {obj}
  OBVIOUS
<1>8. PICK h \in Int, m \in Int, x \in Int :
        /\ h = Cardinality(Holders(k, call)) /\ h = Cardinality(Holders(s, call))
        /\ m = k.ctr /\ x = credit /\ x = m + h
  BY <1>3, InvFacts
<1>9. ASSUME obj = "sem", NEW n \in 0 .. SemMax, n = 0, r = Objects(s, v, n, s.flags),
             credit' = credit - k.ctr
      PROVE  Inv'
  <2>1. Keeps(r) /\ r.ctr = n /\ Holders(r, call) = Holders(s, call)
    <3>1. Fits(s, v, n, s.flags)
      BY <1>4, <1>7, <1>9 DEF Fits
    <3>2. v \in SUBSET {"sem", "flag"}
      BY <1>5, <1>7
    <3> QED BY <1>3, <1>5, <1>9, <3>1, <3>2, InvFacts, ObjectsInv
  <2>2. credit' \in Int /\ credit' = r.ctr + Cardinality(Holders(r, call))
    <3>1. credit' = x - m /\ r.ctr = 0 /\ Cardinality(Holders(r, call)) = h
      BY <1>8, <1>9, <2>1
    <3> QED BY <1>8, <3>1
  <2> QED BY <1>1, <1>6, <2>1, <2>2, EnvKeeps
<1>10. ASSUME obj = "flag", NEW f \in SUBSET Flag, r = Objects(s, v, s.ctr, f), credit' = credit
       PROVE  Inv'
  <2>1. Keeps(r) /\ r.ctr = s.ctr /\ Holders(r, call) = Holders(s, call)
    <3>1. "sem" \notin v => s.ctr = 0
      BY <1>3, <1>7, <1>10 DEF Keeps, NoneInVain
    <3>2. Fits(s, v, s.ctr, f)
      BY <1>4, <1>7, <1>10, <3>1 DEF Fits
    <3>3. v \in SUBSET {"sem", "flag"}
      BY <1>5, <1>7
    <3> QED BY <1>3, <1>5, <1>10, <3>2, <3>3, InvFacts, ObjectsInv
  <2>2. credit' \in Int /\ credit' = r.ctr + Cardinality(Holders(r, call))
    <3>1. credit' = x /\ r.ctr = m /\ Cardinality(Holders(r, call)) = h
      BY <1>3, <1>8, <1>10, <2>1
    <3> QED BY <1>8, <3>1
  <2> QED BY <1>1, <1>6, <2>1, <2>2, EnvKeeps
<1>11. CASE /\ obj = "sem" /\ credit' = credit - k.ctr
            /\ k' = [[s EXCEPT !.valid = @ \ {obj}] EXCEPT !.ctr = 0]
  <2>1. PICK n \in 0 .. SemMax : n = 0
    BY <1>5
  <2>2. k' = [[s EXCEPT !.valid = v] EXCEPT !.ctr = n]
    BY <1>7, <1>11, <2>1
  <2>3. r = Objects(s, v, n, s.flags)
    BY <1>5, <1>6, <2>2 DEF Kernel, Objects
  <2> QED BY <1>9, <1>11, <2>1, <2>3
<1>12. CASE /\ obj = "flag" /\ credit' = credit
            /\ k' = [[s EXCEPT !.valid = @ \ {obj}] EXCEPT !.flags = {}]
  <2>1. PICK f \in SUBSET Flag : f = {}
    OBVIOUS
  <2>2. k' = [[s EXCEPT !.valid = v] EXCEPT !.flags = f]
    BY <1>7, <1>12, <2>1
  <2>3. r = Objects(s, v, s.ctr, f)
    BY <1>5, <1>6, <2>2 DEF Kernel, Objects
  <2> QED BY <1>10, <1>12, <2>3
<1>13. \/ /\ obj = "sem" /\ credit' = credit - k.ctr
          /\ k' = [[s EXCEPT !.valid = @ \ {obj}] EXCEPT !.ctr = 0]
       \/ /\ obj = "flag" /\ credit' = credit
          /\ k' = [[s EXCEPT !.valid = @ \ {obj}] EXCEPT !.flags = {}]
  BY <1>2 DEF Del
<1> QED BY <1>11, <1>12, <1>13

(* OS_PendListInit: who waits for the deleted object is in no list any more.  *)
Lost(s, obj) == [s EXCEPT !.on = [t \in Task |-> IF @[t] = obj THEN "lost" ELSE @[t]]]

LEMMA LostKeeps ==
  ASSUME Inv, NEW obj \in {"sem", "flag"}, obj \notin k.valid, NEW s, s = Lost(k, obj)
  PROVE  /\ Keeps(s) /\ Holders(s, call) = Holders(k, call)
         /\ s.valid = k.valid /\ s.ctr = k.ctr /\ s.flags = k.flags
         /\ \A t \in Task : s.on[t] # obj
<1>1. /\ Sound(k) /\ k \in Kernel /\ Listed(k) /\ TickBits(k) /\ Bits(k, call)
      /\ Fresh(k, stale) /\ Ending(k, tick, due) /\ InPhase(k) /\ NoneInVain(k, call)
  BY DEF Inv, Sound
<1>2. k.on \in [Task -> {"nothing", "sem", "flag", "lost"}]
  BY <1>1 DEF Kernel
<1>3. /\ s.state = k.state /\ s.nested = k.nested /\ s.status = k.status /\ s.rdy = k.rdy
      /\ s.prev = k.prev /\ s.list = k.list /\ s.remain = k.remain /\ s.valid = k.valid
      /\ s.ctr = k.ctr /\ s.flags = k.flags
      /\ s.on = [t \in Task |-> IF k.on[t] = obj THEN "lost" ELSE k.on[t]]
      /\ s \in [state : {s.state}, nested : {s.nested}, on : {s.on}, status : {s.status},
                rdy : {s.rdy}, prev : {s.prev}, list : {s.list}, remain : {s.remain},
                valid : {s.valid}, ctr : {s.ctr}, flags : {s.flags}]
  BY <1>1 DEF Lost, Kernel
<1>4. s.on \in [Task -> {"nothing", "sem", "flag", "lost"}]
  BY <1>2, <1>3
<1>5. ASSUME NEW t \in Task PROVE s.on[t] = IF k.on[t] = obj THEN "lost" ELSE k.on[t]
  BY <1>3
<1>6. Sound(s) /\ Left(s) = Left(k)
  <2>1. s \in Kernel
    BY <1>1, <1>3, <1>4 DEF Kernel
  <2>2. Listed(s) /\ Left(s) = Left(k)
    BY <1>1, <1>3, SameList
  <2>3. TickBits(s)
    BY <1>1, <1>3 DEF TickBits, Timed
  <2> QED BY <2>1, <2>2, <2>3 DEF Sound
<1>7. Bits(s, call)
  <2>1. ASSUME NEW t \in Task
        PROVE  s.on[t] \in {k.on[t], "lost"} /\ (s.on[t] = "nothing" <=> k.on[t] = "nothing")
    BY <1>5
  <2> QED BY <1>1, <1>3, <2>1 DEF Bits, Timed
<1>8. Fresh(s, stale)
  BY <1>1, <1>3, <1>5 DEF Fresh
<1>9. NoneInVain(s, call)
  BY <1>1, <1>3, <1>5 DEF NoneInVain
<1>10. InPhase(s) /\ Ending(s, tick, due)
  BY <1>1, <1>3, <1>6 DEF InPhase, Ending
<1>11. Holders(s, call) = Holders(k, call)
  BY <1>3 DEF Holders
<1> QED BY <1>3, <1>5, <1>6, <1>7, <1>8, <1>9, <1>10, <1>11 DEF Keeps

LEMMA CreateStep ==
  ASSUME Inv, NEW obj \in {"sem", "flag"}, Create(obj) PROVE Inv'
<1>1. Env /\ obj \notin k.valid
  BY DEF Create
<1>2. PICK s : s = Lost(k, obj)
  OBVIOUS
<1>3. /\ Keeps(s) /\ Holders(s, call) = Holders(k, call) /\ s \in Kernel
      /\ s.valid = k.valid /\ s.ctr = k.ctr /\ s.flags = k.flags
  BY <1>1, <1>2, LostKeeps DEF Keeps, Sound
<1>4. ASSUME NEW t \in Task
      PROVE  /\ s.on[t] # obj
             /\ s.on[t] # "nothing" /\ t \notin stale => s.on[t] \in s.valid
             /\ s.on[t] = "sem" => s.ctr = 0
             /\ s.on[t] = "flag" /\ Alone(call[t]) => ~Met(call[t], s.flags)
  BY <1>1, <1>2, <1>3, LostKeeps DEF Keeps, Fresh, NoneInVain
<1>5. PICK r : r = k'
  OBVIOUS
<1>6. PICK v \in SUBSET {"sem", "flag"} : v = k.valid \cup {obj}
  BY InvFacts
<1>7. PICK h \in Int, m \in Int, x \in Int :
        h = Cardinality(Holders(k, call)) /\ m = k.ctr /\ x = credit /\ x = m + h
  BY InvFacts
<1>8. PICK u : u = [s EXCEPT !.valid = v]
  OBVIOUS
<1>9. u = [k EXCEPT !.valid = @ \cup {obj},
                    !.on = [t \in Task |-> IF @[t] = obj THEN "lost" ELSE @[t]]]
  BY <1>2, <1>6, <1>8, InvFacts DEF Lost, Kernel
<1>10. \/ obj = "sem" /\ \E n \in 0 .. SemMax : k' = [u EXCEPT !.ctr = n] /\ credit' = credit + n
       \/ /\ obj = "flag" /\ credit' = credit
          /\ \E f \in SUBSET Flag : k' = [u EXCEPT !.flags = f]
  BY <1>9 DEF Create
<1>11. ASSUME obj = "sem", NEW n \in 0 .. SemMax, k' = [u EXCEPT !.ctr = n], credit' = credit + n
       PROVE  Inv'
  <2>1. r = Objects(s, v, n, s.flags)
    BY <1>3, <1>5, <1>8, <1>11 DEF Kernel, Objects
  <2>2. Keeps(r) /\ r.ctr = n /\ Holders(r, call) = Holders(k, call)
    <3>1. Fits(s, v, n, s.flags)
      BY <1>3, <1>4, <1>6, <1>11 DEF Fits
    <3>2. s.flags \in SUBSET Flag /\ Calls(call)
      BY <1>3, InvFacts
    <3> QED BY <1>3, <2>1, <3>1, <3>2, ObjectsInv
  <2>3. k.ctr = 0
    BY <1>1, <1>11, InvFacts DEF Keeps, NoneInVain
  <2>4. credit' \in Int /\ credit' = r.ctr + Cardinality(Holders(r, call))
    <3>1. credit' = x + n /\ m = 0 /\ r.ctr = n /\ Cardinality(Holders(r, call)) = h
      BY <1>7, <1>11, <2>2, <2>3
    <3> QED BY <1>7, <3>1
  <2> QED BY <1>1, <1>5, <2>2, <2>4, EnvKeeps
<1>12. ASSUME obj = "flag", credit' = credit, NEW f \in SUBSET Flag, k' = [u EXCEPT !.flags = f]
       PROVE  Inv'
  <2>1. r = Objects(s, v, s.ctr, f)
    BY <1>3, <1>5, <1>8, <1>12 DEF Kernel, Objects
  <2>2. Keeps(r) /\ r.ctr = s.ctr /\ Holders(r, call) = Holders(k, call)
    <3>1. "sem" \notin v => s.ctr = 0
      BY <1>3, <1>6, InvFacts DEF Keeps, NoneInVain
    <3>2. Fits(s, v, s.ctr, f)
      BY <1>3, <1>4, <1>6, <1>12, <3>1 DEF Fits
    <3>3. s.ctr \in 0 .. SemMax /\ Calls(call)
      BY <1>3, InvFacts
    <3> QED BY <1>3, <2>1, <3>2, <3>3, ObjectsInv
  <2>3. credit' \in Int /\ credit' = r.ctr + Cardinality(Holders(r, call))
    BY <1>3, <1>7, <1>12, <2>2
  <2> QED BY <1>1, <1>5, <2>2, <2>3, EnvKeeps
<1> QED BY <1>10, <1>11, <1>12

(* A task that waits for flags asks for flags that there are, and not both    *)
(* with a timeout and suspended.                                              *)
LEMMA FlagWaiter ==
  ASSUME Inv, NEW t \in Waiters(k, "flag"), NEW f
  PROVE  /\ t \in Task /\ "pend" \in k.state[t] /\ k.on[t] = "flag"
         /\ Present(call[t], f) \subseteq Flag /\ Present(call[t], f) \subseteq call[t].flags
         /\ "suspended" \in k.state[t] => ~Timed(k, t)
<1>1. Bits(k, call) /\ Calls(call)
  BY DEF Inv
<1>2. t \in Task /\ k.on[t] = "flag" /\ "pend" \in k.state[t] /\ call[t].obj = "flag"
  BY <1>1 DEF Bits, Waiters
<1>3. call[t] \in Pends /\ call[t].t = t
  BY <1>1, <1>2, CallFacts
<1>4. call[t].flags \subseteq Flag
  BY <1>3, WaitAssumption
<1>5. Present(call[t], f) \subseteq call[t].flags
  BY DEF Present
<1>6. ASSUME "suspended" \in k.state[t], Timed(k, t) PROVE FALSE
  <2>1. t \in Suspend /\ call[t].timeout > 0
    BY <1>1, <1>2, <1>6 DEF Bits
  <2> QED BY <1>2, <1>3, <2>1, SuspendAssumption
<1> QED BY <1>2, <1>4, <1>5, <1>6

LEMMA FlagPostStep == ASSUME Inv, FlagPost PROVE Inv'
<1>1. Env /\ credit' = credit
  BY DEF FlagPost
<1>2. PICK f \in Posted, set \in BOOLEAN :
        k' = FlagList([k EXCEPT !.flags = IF set THEN @ \cup f ELSE @ \ f].flags,
                      [k EXCEPT !.flags = IF set THEN @ \cup f ELSE @ \ f],
                      PendList(k, "flag"))
  BY DEF FlagPost, FlagList
<1>3. PICK g \in SUBSET Flag : g = IF set THEN k.flags \cup f ELSE k.flags \ f
  <2>1. f \subseteq Flag
    BY WaitAssumption
  <2> QED BY <2>1, InvFacts
<1>4. PICK b : b = Objects(k, k.valid, k.ctr, g)
  OBVIOUS
<1>5. b = [k EXCEPT !.flags = IF set THEN @ \cup f ELSE @ \ f]
  BY <1>3, <1>4, InvFacts DEF Kernel, Objects
<1>6. PICK r : r = k'
  OBVIOUS
<1>7. r = FlagList(b.flags, b, PendList(k, "flag"))
  BY <1>2, <1>5, <1>6
<1>8. Sound(b) /\ Alike(b, k, k.valid, k.ctr, g)
  BY <1>4, InvFacts, ObjectsKeep DEF Keeps
<1>9. b.on = k.on /\ b.state = k.state /\ b.flags = g /\ b.rdy = k.rdy
  BY <1>8 DEF Alike
<1>10. PICK W \in SUBSET Task : W = {t \in Waiters(k, "flag") : Met(call[t], b.flags)}
  BY DEF Waiters
<1>11. PICK p : p = [t \in Task |-> Present(call[t], b.flags)]
  OBVIOUS
<1>12. Sound(r) /\ Woken(r, b, W, "ok", p)
  <2>1. \A t \in Waiters(k, "flag") :
           /\ "pend" \in b.state[t] /\ Present(call[t], b.flags) \subseteq Flag
           /\ "suspended" \in b.state[t] => ~Timed(b, t)
    BY <1>9, FlagWaiter DEF Timed
  <2> QED BY <1>7, <1>8, <1>9, <1>10, <1>11, <2>1, FlagAllIs
<1>13. b \in Kernel /\ Calls(call) /\ Bits(b, call)
  <2>1. Bits(k, call)
    BY InvFacts DEF Keeps
  <2> QED BY <1>8, <2>1, InvFacts DEF Bits, Alike, Timed, Sound
<1>14. MayEnd(b, call, W, p)
  <2>1. ASSUME NEW t \in W
        PROVE  /\ "pend" \in b.state[t] /\ b.on[t] # "lost"
               /\ p[t] \subseteq call[t].flags
    <3>1. t \in Waiters(k, "flag") /\ t \in Task
      BY <1>10
    <3>2. /\ "pend" \in k.state[t] /\ k.on[t] = "flag"
          /\ Present(call[t], b.flags) \subseteq call[t].flags
      BY <3>1, FlagWaiter
    <3> QED BY <1>9, <1>11, <3>1, <3>2
  <2> QED BY <2>1 DEF MayEnd
<1>15. /\ Bits(r, call)
       /\ Holders(r, call) = Holders(b, call) \cup (W \cap Waiters(b, "sem"))
       /\ (InPhase(b) => InPhase(r)) /\ (Fresh(b, stale) => Fresh(r, stale))
  BY <1>12, <1>13, <1>14, WokenGets
<1>16. Ending(b, tick, due) /\ InPhase(b) /\ Fresh(b, stale)
  BY <1>8, InvFacts DEF Keeps, Alike, Ending, InPhase, Fresh
<1>17. Ending(r, tick, due)
  BY <1>12, <1>16, WokenEnding
<1>18. Holders(r, call) = Holders(k, call)
  <2>1. W \cap Waiters(b, "sem") = {}
    BY <1>9, <1>10 DEF Waiters
  <2>2. Holders(b, call) = Holders(k, call)
    BY <1>8 DEF Alike, Holders
  <2> QED BY <1>15, <2>1, <2>2
<1>19. r.ctr = k.ctr /\ r.valid = k.valid /\ r.flags = b.flags
  BY <1>8, <1>12 DEF Alike, Woken
<1>20. NoneInVain(r, call)
  <2>1. NoneInVain(k, call)
    BY InvFacts DEF Keeps
  <2>2. ASSUME NEW t \in Task PROVE r.on[t] = IF t \in W /\ "pend" \in k.state[t] THEN "nothing" ELSE k.on[t]
    BY <1>9, <1>12 DEF Woken
  <2>3. ASSUME NEW t \in Task, r.on[t] = "flag" PROVE ~Met(call[t], r.flags)
    <3>1. k.on[t] = "flag" /\ t \in Waiters(k, "flag")
      BY <2>2, <2>3 DEF Waiters
    <3>2. "pend" \in k.state[t]
      BY <3>1, FlagWaiter
    <3>3. t \notin W
      BY <2>2, <2>3, <3>2
    <3> QED BY <1>10, <1>19, <3>1, <3>3
  <2>4. ASSUME NEW t \in Task, r.on[t] = "sem" PROVE r.ctr = 0
    <3>1. k.on[t] = "sem"
      BY <2>2, <2>4
    <3> QED BY <1>19, <2>1, <3>1 DEF NoneInVain
  <2> QED BY <1>19, <2>1, <2>3, <2>4 DEF NoneInVain
<1>21. Keeps(r)
  BY <1>12, <1>15, <1>16, <1>17, <1>20 DEF Keeps
<1>22. credit' \in Int /\ credit' = r.ctr + Cardinality(Holders(r, call))
  BY <1>1, <1>18, <1>19, InvFacts
<1> QED BY <1>1, <1>6, <1>21, <1>22, EnvKeeps

(* The state and the nesting counter of one task change.                      *)
LEMMA TaskSteps ==
  ASSUME Inv, Env, credit' = credit, NEW t \in Task, NEW x \in SUBSET {"dly", "pend", "suspended"},
         NEW m \in 0 .. SuspendMax, "pend" \in x <=> "pend" \in k.state[t],
         "dly" \in x <=> "dly" \in k.state[t], "suspended" \in x <=> m > 0,
         "suspended" \in x => t \in Suspend,
         k' = [k EXCEPT !.state[t] = x, !.nested[t] = m]
  PROVE  Inv'
<1>1. PICK r : r = k'
  OBVIOUS
<1>2. Sound(k) /\ k \in Kernel /\ Listed(k) /\ TickBits(k)
  BY DEF Inv, Sound
<1>3. /\ r.state = [k.state EXCEPT ![t] = x] /\ r.nested = [k.nested EXCEPT ![t] = m]
      /\ r.on = k.on /\ r.status = k.status /\ r.rdy = k.rdy /\ r.prev = k.prev
      /\ r.list = k.list /\ r.remain = k.remain
      /\ r.valid = k.valid /\ r.ctr = k.ctr /\ r.flags = k.flags
      /\ r \in [state : {r.state}, nested : {r.nested}, on : {r.on}, status : {r.status},
                rdy : {r.rdy}, prev : {r.prev}, list : {r.list}, remain : {r.remain},
                valid : {r.valid}, ctr : {r.ctr}, flags : {r.flags}]
  BY <1>1, <1>2 DEF Kernel
<1>4. /\ k.state \in [Task -> SUBSET {"dly", "pend", "suspended"}]
      /\ k.nested \in [Task -> 0 .. SuspendMax]
  BY <1>2 DEF Kernel
<1>5. r \in Kernel
  <2>1. /\ r.state \in [Task -> SUBSET {"dly", "pend", "suspended"}]
        /\ r.nested \in [Task -> 0 .. SuspendMax]
    BY <1>3, <1>4
  <2> QED BY <1>2, <1>3, <2>1 DEF Kernel
<1>6. ASSUME NEW u \in Task
      PROVE  /\ "pend" \in r.state[u] <=> "pend" \in k.state[u]
             /\ "dly" \in r.state[u] <=> "dly" \in k.state[u]
             /\ u # t => r.state[u] = k.state[u] /\ r.nested[u] = k.nested[u]
             /\ u = t => r.state[u] = x /\ r.nested[u] = m
  BY <1>3, <1>4
<1>7. Left(r) = Left(k) /\ Listed(r)
  BY <1>2, <1>3, SameList
<1>8. Sound(r)
  BY <1>2, <1>3, <1>5, <1>6, <1>7 DEF Sound, TickBits, Timed
<1>9. Bits(r, call)
  <2>1. Bits(k, call)
    BY DEF Inv
  <2> QED BY <1>3, <1>6, <2>1 DEF Bits, Timed
<1>10. InPhase(r) /\ NoneInVain(r, call) /\ Ending(r, tick, due) /\ Fresh(r, stale)
  BY <1>3, <1>7 DEF Inv, InPhase, NoneInVain, Ending, Fresh
<1>11. Holders(r, call) = Holders(k, call)
  BY <1>3, <1>6 DEF Holders
<1>12. credit' \in Int /\ credit' = r.ctr + Cardinality(Holders(r, call))
  BY <1>3, <1>11, InvFacts
<1> QED BY <1>1, <1>8, <1>9, <1>10, <1>12, EnvKeeps DEF Keeps

LEMMA TaskSuspendStep == ASSUME Inv, NEW t \in Suspend, TaskSuspend(t) PROVE Inv'
<1>1. /\ Env /\ credit' = credit /\ k.nested[t] < SuspendMax
      /\ k' = [k EXCEPT !.state[t] = @ \cup {"suspended"}, !.nested[t] = @ + 1]
  BY DEF TaskSuspend
<1>2. t \in Task /\ SuspendMax \in Nat
  BY WaitAssumption
<1>3. /\ k.state \in [Task -> SUBSET {"dly", "pend", "suspended"}]
      /\ k.nested \in [Task -> 0 .. SuspendMax]
  BY InvFacts DEF Kernel
<1>4. PICK x \in SUBSET {"dly", "pend", "suspended"} : x = k.state[t] \cup {"suspended"}
  <2>1. k.state[t] \cup {"suspended"} \in SUBSET {"dly", "pend", "suspended"}
    BY <1>2, <1>3
  <2> QED BY <2>1
<1>5. PICK m \in 0 .. SuspendMax : m = k.nested[t] + 1 /\ m > 0
  BY <1>1, <1>2, <1>3
<1>6. k' = [k EXCEPT !.state[t] = x, !.nested[t] = m]
  BY <1>1, <1>4, <1>5
<1> QED BY <1>1, <1>2, <1>4, <1>5, <1>6, TaskSteps, ZenonT(40)

LEMMA TaskResumeStep == ASSUME Inv, NEW t \in Suspend, TaskResume(t) PROVE Inv'
<1>1. /\ Env /\ credit' = credit /\ "suspended" \in k.state[t]
      /\ k' = [k EXCEPT !.nested[t] = @ - 1,
                        !.state[t] = IF k.nested[t] = 1 THEN @ \ {"suspended"} ELSE @]
  BY DEF TaskResume
<1>2. t \in Task /\ SuspendMax \in Nat
  BY WaitAssumption
<1>3. /\ k.state \in [Task -> SUBSET {"dly", "pend", "suspended"}]
      /\ k.nested \in [Task -> 0 .. SuspendMax]
  BY InvFacts DEF Kernel
<1>4. k.nested[t] \in 0 .. SuspendMax /\ k.nested[t] > 0
  BY <1>1, <1>2, <1>3, InvFacts DEF Keeps, Bits
<1>5. PICK x \in SUBSET {"dly", "pend", "suspended"} :
        x = IF k.nested[t] = 1 THEN k.state[t] \ {"suspended"} ELSE k.state[t]
  <2>1. k.state[t] \ {"suspended"} \in SUBSET {"dly", "pend", "suspended"}
    BY <1>2, <1>3
  <2> QED BY <1>2, <1>3, <2>1
<1>6. PICK m \in 0 .. SuspendMax : m = k.nested[t] - 1 /\ (m > 0 <=> k.nested[t] # 1)
  BY <1>2, <1>4
<1>7. k' = [k EXCEPT !.state[t] = x, !.nested[t] = m]
  BY <1>1, <1>5, <1>6, InvFacts DEF Kernel
<1>8. /\ "pend" \in x <=> "pend" \in k.state[t]
      /\ "dly" \in x <=> "dly" \in k.state[t]
      /\ "suspended" \in x <=> m > 0
  BY <1>1, <1>5, <1>6
<1> QED BY <1>1, <1>2, <1>7, <1>8, TaskSteps

(* OSTimeDlyResume ends a delay and no wait for an object.                    *)
LEMMA TimeDlyResumeStep == ASSUME Inv, NEW t \in Task, TimeDlyResume(t) PROVE Inv'
<1>1. PICK r : r = k' /\ r = TickListRemove(k, t)
  BY DEF TimeDlyResume
<1>2. Env /\ credit' = credit /\ Timed(k, t) /\ "pend" \notin k.state[t]
  BY DEF TimeDlyResume
<1>3. Sound(k) /\ k \in Kernel /\ Listed(k) /\ TickBits(k) /\ Bits(k, call)
  BY DEF Inv, Sound
<1>4. t \in ToSet(k.list)
  BY <1>2, <1>3 DEF TickBits
<1>5. /\ r \in Kernel /\ Rest(r, k) /\ Listed(r)
      /\ r.state = [k.state EXCEPT ![t] = @ \ {"dly"}]
      /\ Left(r) = {e \in Left(k) : e[1] # t}
  BY <1>1, <1>3, <1>4, RemoveIs
<1>6. /\ k.state \in [Task -> SUBSET {"dly", "pend", "suspended"}] /\ k.on \in [Task -> {"nothing", "sem", "flag", "lost"}]
      /\ k.status \in [Task -> {"ok", "timeout", "abort", "del"}] /\ k.rdy \in [Task -> SUBSET Flag]
  BY <1>3 DEF Kernel
<1>7. Woken(r, k, {t}, "ok", k.rdy)
  <2>1. r.state = [u \in Task |-> IF u \in {t} THEN k.state[u] \ {"dly", "pend"} ELSE k.state[u]]
    <3>1. k.state[t] \ {"dly"} = k.state[t] \ {"dly", "pend"}
      BY <1>2
    <3> QED BY <1>5, <1>6, <3>1
  <2>2. r.on = [u \in Task |-> IF u \in {t} /\ "pend" \in k.state[u] THEN "nothing" ELSE k.on[u]]
    BY <1>2, <1>5, <1>6 DEF Rest
  <2>3. r.status = [u \in Task |-> IF u \in {t} /\ "pend" \in k.state[u] THEN "ok" ELSE k.status[u]]
    BY <1>2, <1>5, <1>6 DEF Rest
  <2>4. r.rdy = [u \in Task |-> IF u \in {t} THEN k.rdy[u] ELSE k.rdy[u]]
    BY <1>5, <1>6 DEF Rest
  <2> QED BY <1>5, <2>1, <2>2, <2>3, <2>4 DEF Woken, Rest
<1>8. Sound(r)
  BY <1>3, <1>5, <1>7, WokenBits DEF Sound
<1>9. /\ Bits(r, call) /\ Holders(r, call) = Holders(k, call) \cup ({t} \cap Waiters(k, "sem"))
      /\ NoneInVain(r, call) /\ InPhase(r) /\ Fresh(r, stale)
  <2>1. PICK W \in SUBSET Task : W = {t}
    OBVIOUS
  <2>2. MayEnd(k, call, W, k.rdy)
    BY <1>2, <1>3, <2>1 DEF MayEnd, Bits, Timed
  <2>4. Woken(r, k, W, "ok", k.rdy)
    BY <1>7, <2>1
  <2>5. /\ Bits(r, call) /\ Holders(r, call) = Holders(k, call) \cup (W \cap Waiters(k, "sem"))
        /\ NoneInVain(k, call) => NoneInVain(r, call)
        /\ InPhase(k) => InPhase(r)
        /\ Fresh(k, stale) => Fresh(r, stale)
    <3>1. k \in Kernel /\ Calls(call) /\ Bits(k, call)
      BY <1>3, InvFacts
    <3> QED BY <2>2, <2>4, <3>1, WokenGets
  <2> QED BY <2>1, <2>5, InvFacts DEF Keeps
<1>10. Ending(r, tick, due)
  BY <1>7, InvFacts, WokenEnding DEF Keeps
<1>11. Holders(r, call) = Holders(k, call)
  <2>1. {t} \cap Waiters(k, "sem") = {}
    BY <1>2, <1>3 DEF Waiters, Bits
  <2> QED BY <1>9, <2>1
<1>12. credit' \in Int /\ credit' = r.ctr + Cardinality(Holders(r, call))
  BY <1>2, <1>5, <1>11, InvFacts DEF Rest
<1> QED BY <1>1, <1>2, <1>8, <1>9, <1>10, <1>12, EnvKeeps DEF Keeps

(* A tick later the rest of a wait is a tick less.                            *)
LEMMA Later ==
  ASSUME NEW tk \in Time, NEW n \in 2 .. Wrap - 1
  PROVE  (((tk + 1) % Wrap) + (n - 1)) % Wrap = (tk + n) % Wrap /\ (tk + 1) % Wrap \in Time
<1>0. Wrap \in Nat /\ Wrap > 0 /\ tk \in Nat /\ tk < Wrap /\ n \in Nat /\ n >= 2 /\ n < Wrap
  BY WaitAssumption DEF Time
<1>1. PICK x \in Int : x = tk + 1
  BY <1>0
<1>2. x % Wrap = IF x < Wrap THEN x ELSE x - Wrap
  BY <1>0, <1>1, ModIs
<1>3. PICK y \in Int : y = (x % Wrap) + (n - 1)
  BY <1>0, <1>1, <1>2
<1>4. y % Wrap = IF y < Wrap THEN y ELSE y - Wrap
  BY <1>0, <1>1, <1>2, <1>3, ModIs
<1>5. PICK z \in Int : z = tk + n
  BY <1>0
<1>6. z % Wrap = IF z < Wrap THEN z ELSE z - Wrap
  BY <1>0, <1>5, ModIs
<1> QED BY <1>0, <1>1, <1>2, <1>3, <1>4, <1>5, <1>6 DEF Time

LEMMA NextTick == ASSUME NEW tk \in Time PROVE (tk + 1) % Wrap \in Time
<1>1. Wrap \in Nat /\ Wrap > 0 /\ tk \in Nat /\ tk < Wrap
  BY WaitAssumption DEF Time
<1>2. PICK x \in Int : x = tk + 1
  BY <1>1
<1>3. x % Wrap = IF x < Wrap THEN x ELSE x - Wrap
  BY <1>1, <1>2, ModIs
<1> QED BY <1>1, <1>2, <1>3 DEF Time

(* The task that sleeps until a tick is at it after its rest.                 *)
LEMMA DelayIs ==
  ASSUME NEW tk \in Time, NEW base \in Time, NEW time \in Time, NEW n, n = (time + base - tk) % Wrap
  PROVE  /\ n \in Time /\ (base + time) % Wrap \in Time
         /\ (tk + n) % Wrap = (base + time) % Wrap
         /\ ((base + time) % Wrap) % Wrap = (base + time) % Wrap
<1>0. /\ Wrap \in Nat /\ Wrap > 0 /\ tk \in Nat /\ tk < Wrap /\ base \in Nat /\ base < Wrap
      /\ time \in Nat /\ time < Wrap
  BY WaitAssumption DEF Time
<1>1. PICK x \in Int : x = time + base - tk /\ x + Wrap >= 0 /\ x < Wrap + Wrap
  BY <1>0
<1>2. n = IF x < 0 THEN x + Wrap ELSE IF x < Wrap THEN x ELSE x - Wrap
  BY <1>1, ModIs
<1>3. PICK y \in Int : y = base + time /\ y >= 0 /\ y < Wrap + Wrap
  BY <1>0
<1>4. y % Wrap = IF y < Wrap THEN y ELSE y - Wrap
  BY <1>0, <1>3, ModIs
<1>5. PICK z \in Int : z = tk + n /\ z >= 0 /\ z < Wrap + Wrap
  BY <1>0, <1>1, <1>2
<1>6. z % Wrap = IF z < Wrap THEN z ELSE z - Wrap
  BY <1>0, <1>5, ModIs
<1>7. PICK v \in Int : v = y % Wrap /\ v >= 0 /\ v < Wrap
  BY <1>0, <1>3, <1>4
<1>8. v % Wrap = v
  BY <1>0, <1>7, ModIs
<1>9. z % Wrap = y % Wrap
  BY <1>0, <1>1, <1>2, <1>3, <1>4, <1>5, <1>6
<1>10. n \in Time
  BY <1>0, <1>1, <1>2 DEF Time
<1> QED BY <1>0, <1>3, <1>5, <1>7, <1>8, <1>9, <1>10 DEF Time

LEMMA TickStep == ASSUME Inv, Tick PROVE Inv'
<1>1. PICK r : r = k'
  OBVIOUS
<1>2. /\ r = TickListUpdate(k) /\ tick' = (tick + 1) % Wrap
      /\ call' = call /\ due' = due /\ credit' = credit /\ asked' = asked /\ stale' = stale
  BY <1>1 DEF Tick
<1>3. /\ Sound(k) /\ k \in Kernel /\ Listed(k) /\ TickBits(k) /\ Bits(k, call) /\ Calls(call)
      /\ tick \in Time /\ due \in [Task -> Time] /\ Ending(k, tick, due)
      /\ InPhase(k) /\ NoneInVain(k, call)
      /\ Fresh(k, stale) /\ Asks(asked, call) /\ stale \subseteq Task
  BY DEF Inv, Sound
<1>4. PICK b : /\ b \in Kernel /\ Rest(b, k) /\ b.state = k.state
               /\ Left(b) = {<<e[1], e[2] - 1>> : e \in {x \in Left(k) : x[2] > 1}}
               /\ Sound(r) /\ Woken(r, b, Outs(k), "timeout", k.rdy)
  BY <1>2, <1>3, TickIs
<1>5. \A e \in Left(k) : e[1] \in Task /\ e[2] \in Int /\ e[2] < Wrap /\ Timed(k, e[1])
  <2>1. k.list \in Seq(Task)
    BY <1>3 DEF Listed
  <2>2. ASSUME NEW e \in Left(k) PROVE e[1] \in Task /\ e[2] \in Int /\ e[2] < Wrap
    <3>1. PICK i \in 1 .. Len(k.list) : e = <<k.list[i], Until(k, i)>>
      BY DEF Left
    <3>2. i \in 0 .. Len(k.list) /\ k.list[i] \in Task
      BY <2>1, <3>1
    <3>3. Until(k, i) \in 0 .. Wrap - 1
      BY <1>3, <3>2, ListedFacts
    <3> QED BY <1>3, <3>1, <3>2, <3>3 DEF Listed
  <2>3. \A e \in Left(k) : e[1] \in ToSet(k.list)
    BY <2>1, ToSetLeft
  <2> QED BY <1>3, <2>2, <2>3 DEF TickBits
<1>6. PICK W \in SUBSET Task : W = Outs(k)
  BY <1>5 DEF Outs
<1>7. /\ Bits(b, call) /\ InPhase(b) /\ NoneInVain(b, call) /\ Fresh(b, stale)
      /\ Holders(b, call) = Holders(k, call) /\ b.on = k.on
  <2>1. /\ b.on = k.on /\ b.status = k.status /\ b.rdy = k.rdy /\ b.nested = k.nested
        /\ b.prev = k.prev /\ b.valid = k.valid /\ b.ctr = k.ctr /\ b.flags = k.flags
    BY <1>4 DEF Rest
  <2>2. Bits(b, call)
    BY <1>3, <1>4, <2>1 DEF Bits, Timed
  <2>3. InPhase(b)
    BY <1>3, <2>1 DEF InPhase
  <2>4. NoneInVain(b, call)
    BY <1>3, <2>1 DEF NoneInVain
  <2>5. Fresh(b, stale)
    BY <1>3, <2>1 DEF Fresh
  <2> QED BY <1>4, <2>1, <2>2, <2>3, <2>4, <2>5 DEF Holders
<1>8. MayEnd(b, call, W, k.rdy)
  <2>1. ASSUME NEW t \in W
        PROVE  /\ "pend" \in k.state[t] \/ call[t] = Dly
               /\ k.on[t] # "lost"
               /\ call[t].obj = "flag" => k.rdy[t] \subseteq call[t].flags
    <3>1. PICK e \in Left(k) : e[1] = t /\ e[2] <= 1
      BY <1>6 DEF Outs
    <3>2. t \in Task /\ Timed(k, t)
      BY <1>5, <3>1
    <3>3. PICK i \in 1 .. Len(k.list) : e = <<k.list[i], Until(k, i)>>
      BY <3>1 DEF Left
    <3>4. i \in DOMAIN k.list /\ k.list[i] = t /\ Until(k, i) <= 1
      BY <1>3, <3>1, <3>3 DEF Listed
    <3>5. k.on[t] # "lost"
      BY <3>4 DEF Tick
    <3> QED BY <1>3, <3>2, <3>5 DEF Bits
  <2> QED BY <1>4, <1>7, <2>1 DEF MayEnd
<1>9. /\ Bits(r, call) /\ Holders(r, call) = Holders(b, call) /\ NoneInVain(r, call)
      /\ InPhase(r) /\ Fresh(r, stale)
  <2>1. "timeout" \in Why /\ "timeout" # "ok"
    BY DEF Why
  <2>2. Woken(r, b, W, "timeout", k.rdy)
    BY <1>4, <1>6
  <2>3. /\ Bits(r, call) /\ Holders(r, call) = Holders(b, call)
        /\ NoneInVain(b, call) => NoneInVain(r, call)
        /\ InPhase(b) => InPhase(r)
        /\ Fresh(b, stale) => Fresh(r, stale)
    BY <1>3, <1>4, <1>7, <1>8, <2>1, <2>2, WokenKeeps
  <2> QED BY <1>7, <2>3
<1>10. tick' \in Time
  BY <1>2, <1>3, NextTick
<1>11. Ending(r, tick', due)
  <2>1. ASSUME NEW e \in Left(b) PROVE (tick' + e[2]) % Wrap = due[e[1]]
    <3>1. PICK x \in Left(k) : x[2] > 1 /\ e = <<x[1], x[2] - 1>>
      BY <1>4
    <3>2. PICK n \in 2 .. Wrap - 1 : n = x[2]
      BY <1>5, <3>1, WaitAssumption
    <3>3. (tick + n) % Wrap = due[x[1]]
      BY <1>3, <3>2 DEF Ending
    <3>4. (tick' + (n - 1)) % Wrap = (tick + n) % Wrap
      BY <1>2, <1>3, Later
    <3> QED BY <3>1, <3>2, <3>3, <3>4
  <2>2. Ending(b, tick', due)
    BY <2>1 DEF Ending
  <2>3. PICK tk : tk = tick'
    OBVIOUS
  <2> QED BY <1>4, <2>2, <2>3, WokenEnding
<1>12. credit \in Int /\ credit = r.ctr + Cardinality(Holders(r, call))
  BY <1>4, <1>7, <1>9, InvFacts DEF Woken, Rest
<1> QED BY <1>1, <1>2, <1>3, <1>4, <1>9, <1>10, <1>11, <1>12 DEF Inv

(* OS_TickListInsert of a task that is not in the list.                       *)
LEMMA InsertSound ==
  ASSUME NEW s, Sound(s), NEW t \in Task, ~Timed(s, t), NEW n \in 1 .. Wrap - 1,
         NEW r, r = TickListInsert(s, t, n)
  PROVE  /\ Sound(r) /\ Rest(r, s) /\ r.state = [s.state EXCEPT ![t] = @ \cup {"dly"}]
         /\ Left(r) = Left(s) \cup {<<t, n>>}
<1>0. s \in Kernel /\ Listed(s) /\ TickBits(s)
  BY DEF Sound
<1>1. t \notin ToSet(s.list)
  BY <1>0 DEF TickBits
<1>2. /\ r \in Kernel /\ Rest(r, s) /\ Listed(r)
      /\ r.state = [s.state EXCEPT ![t] = @ \cup {"dly"}]
      /\ Left(r) = Left(s) \cup {<<t, n>>}
  BY <1>0, <1>1, InsertIs
<1>3. ToSet(s.list) = {e[1] : e \in Left(s)} /\ ToSet(r.list) = {e[1] : e \in Left(r)}
  <2>1. s.list \in Seq(Task) /\ r.list \in Seq(Task)
    BY <1>0, <1>2 DEF Listed
  <2> QED BY <2>1, ToSetLeft
<1>4. ASSUME NEW u \in Task PROVE u \in ToSet(r.list) <=> u \in ToSet(s.list) \/ u = t
  <2>1. u \in ToSet(r.list) <=> \E e \in Left(s) \cup {<<t, n>>} : e[1] = u
    BY <1>2, <1>3
  <2>2. u \in ToSet(s.list) <=> \E e \in Left(s) : e[1] = u
    BY <1>3
  <2>3. <<t, n>>[1] = t
    OBVIOUS
  <2> QED BY <2>1, <2>2, <2>3
<1>5. ASSUME NEW u \in Task PROVE Timed(r, u) <=> Timed(s, u) \/ u = t
  <2>1. s.state \in [Task -> SUBSET {"dly", "pend", "suspended"}]
    BY <1>0 DEF Kernel
  <2>2. r.state[u] = IF u = t THEN s.state[u] \cup {"dly"} ELSE s.state[u]
    BY <1>2, <2>1
  <2> QED BY <2>2 DEF Timed
<1>6. TickBits(r)
  BY <1>0, <1>4, <1>5 DEF TickBits
<1> QED BY <1>2, <1>6 DEF Sound

(* r is k after the task t began to wait in the call c, for n ticks or, when  *)
(* n is 0, without a timeout.                                                 *)
Began(r, t, c, n) ==
  /\ r.nested = k.nested /\ r.valid = k.valid /\ r.ctr = k.ctr /\ r.flags = k.flags
  /\ \A u \in Task : u # t => /\ r.state[u] = k.state[u] /\ r.on[u] = k.on[u]
                              /\ r.status[u] = k.status[u] /\ r.rdy[u] = k.rdy[u]
  /\ r.state[t] = (IF c = Dly THEN {} ELSE {"pend"}) \cup (IF n > 0 THEN {"dly"} ELSE {})
  /\ r.on[t] = IF c = Dly THEN "nothing" ELSE c.obj
  /\ c # Dly => r.rdy[t] = {}
  /\ Left(r) = IF n > 0 THEN Left(k) \cup {<<t, n>>} ELSE Left(k)

(* The wait is not in vain.                                                   *)
MayPend(c, n) ==
  c # Dly => /\ c \in Pends /\ (n > 0 => c.timeout > 0)
             /\ c.obj = "sem" => k.ctr = 0
             /\ c.obj = "flag" => ~Met(c, k.flags)

(* Who begins to wait for an object that is gone is remembered.               *)
Marked(st, t, c) ==
  st = IF c = Dly \/ c.obj \in k.valid THEN stale ELSE stale \cup {t}

LEMMA BeginStep ==
  ASSUME Inv, NEW t \in Task, k.state[t] = {}, call[t] = NoCall, NEW c \in {Dly} \cup Pends,
         c \in Pends => c.t = t, NEW n \in Time, MayPend(c, n),
         NEW r, r = k', Sound(r), InPhase(r), Began(r, t, c, n),
         call' = [call EXCEPT ![t] = c], NEW x \in Time, due' = [due EXCEPT ![t] = x],
         n > 0 => (tick + n) % Wrap = x, tick' = tick, credit' = credit,
         NEW st, st = stale', Marked(st, t, c), Asks(asked', call')
  PROVE  Inv'
<1>1. /\ Sound(k) /\ Bits(k, call) /\ Calls(call)
      /\ tick \in Time /\ due \in [Task -> Time] /\ Ending(k, tick, due) /\ NoneInVain(k, call)
      /\ call \in [Task -> {NoCall, Dly} \cup Pends] /\ stale \subseteq Task /\ Fresh(k, stale)
  BY DEF Inv, Calls
<1>2. PICK cs : cs = call'
  OBVIOUS
<1>3. PICK ds : ds = due'
  OBVIOUS
<1>4. cs[t] = c /\ \A u \in Task : u # t => cs[u] = call[u]
  BY <1>1, <1>2
<1>5. Calls(cs)
  <2>1. cs \in [Task -> {NoCall, Dly} \cup Pends]
    BY <1>1, <1>2
  <2> QED BY <1>1, <1>4, <2>1 DEF Calls
<1>6. ds \in [Task -> Time] /\ ds[t] = x /\ \A u \in Task : u # t => ds[u] = due[u]
  BY <1>1, <1>3
<1>7. ~Timed(k, t) /\ k.on[t] = "nothing" /\ "suspended" \notin k.state[t]
  BY <1>1 DEF Timed, Bits
<1>8. Ending(r, tick, ds)
  <2>1. ASSUME NEW e \in Left(k) PROVE (tick + e[2]) % Wrap = ds[e[1]]
    <3>1. k.list \in Seq(Task) /\ TickBits(k)
      BY <1>1 DEF Sound, Listed
    <3>2. e[1] \in ToSet(k.list)
      BY <3>1, ToSetLeft
    <3>3. e[1] \in Task /\ Timed(k, e[1])
      BY <3>1, <3>2 DEF TickBits, ToSet
    <3> QED BY <1>1, <1>6, <1>7, <3>3 DEF Ending
  <2>2. n > 0 => (tick + <<t, n>>[2]) % Wrap = ds[<<t, n>>[1]]
    BY <1>6
  <2> QED BY <2>1, <2>2 DEF Ending, Began
<1>9. c # Dly => c \in Pends /\ c.obj \in {"sem", "flag"} /\ c.obj # "nothing"
  BY WaitAssumption DEF Dly
<1>10. Bits(r, cs)
  <2>1. ASSUME NEW u \in Task, u # t
        PROVE  /\ "pend" \in r.state[u] <=> r.on[u] # "nothing"
               /\ "suspended" \in r.state[u] <=> r.nested[u] > 0
               /\ "suspended" \in r.state[u] => u \in Suspend
               /\ r.on[u] # "nothing" => r.on[u] \in {cs[u].obj, "lost"}
               /\ Timed(r, u) /\ "pend" \notin r.state[u] => cs[u] = Dly
               /\ Timed(r, u) /\ "pend" \in r.state[u] => cs[u].timeout > 0
               /\ cs[u].obj = "flag" => r.rdy[u] \subseteq cs[u].flags
    BY <1>1, <1>4, <2>1 DEF Bits, Began, Timed
  <2>2. ~(k.nested[t] > 0)
    BY <1>1, <1>7 DEF Bits
  <2>3. /\ "pend" \in r.state[t] <=> r.on[t] # "nothing"
        /\ "suspended" \in r.state[t] <=> r.nested[t] > 0
        /\ "suspended" \in r.state[t] => t \in Suspend
        /\ r.on[t] # "nothing" => r.on[t] \in {cs[t].obj, "lost"}
        /\ Timed(r, t) /\ "pend" \notin r.state[t] => cs[t] = Dly
        /\ Timed(r, t) /\ "pend" \in r.state[t] => cs[t].timeout > 0
        /\ cs[t].obj = "flag" => r.rdy[t] \subseteq cs[t].flags
    <3>1. CASE c = Dly
      <4>1. c.obj # "flag"
        BY <3>1 DEF Dly
      <4> QED BY <1>4, <2>2, <3>1, <4>1 DEF Began, Timed
    <3>2. CASE c # Dly
      BY <1>4, <1>9, <2>2, <3>2 DEF Began, Timed, MayPend
    <3> QED BY <3>1, <3>2
  <2> QED BY <2>1, <2>3 DEF Bits
<1>11. NoneInVain(r, cs)
  <2>1. ASSUME NEW u \in Task, u # t
        PROVE  /\ r.on[u] = "sem" => r.ctr = 0
               /\ r.on[u] = "flag" /\ Alone(cs[u]) => ~Met(cs[u], r.flags)
    BY <1>1, <1>4, <2>1 DEF NoneInVain, Began
  <2>2. /\ r.on[t] = "sem" => r.ctr = 0
        /\ r.on[t] = "flag" /\ Alone(cs[t]) => ~Met(cs[t], r.flags)
    BY <1>4, <1>9 DEF Began, MayPend
  <2>3. "sem" \notin r.valid => r.ctr = 0
    BY <1>1 DEF NoneInVain, Began
  <2> QED BY <2>1, <2>2, <2>3 DEF NoneInVain
<1>12. Holders(r, cs) = Holders(k, call)
  <2>1. ASSUME NEW u \in Task PROVE u \in Holders(r, cs) <=> u \in Holders(k, call)
    <3>1. CASE u # t
      <4>1. cs[u] = call[u] /\ r.state[u] = k.state[u] /\ r.status[u] = k.status[u]
        BY <1>4, <3>1 DEF Began
      <4> QED BY <4>1 DEF Holders
    <3>2. CASE u = t
      <4>1. t \notin Holders(k, call)
        BY DEF Holders
      <4>2. c = Dly => c.obj # "sem"
        BY DEF Dly
      <4>3. c # Dly => "pend" \in r.state[t]
        BY DEF Began
      <4>4. t \notin Holders(r, cs)
        BY <1>4, <4>2, <4>3 DEF Holders
      <4> QED BY <3>2, <4>1, <4>4
    <3> QED BY <3>1, <3>2
  <2>2. Holders(r, cs) \subseteq Task /\ Holders(k, call) \subseteq Task
    BY DEF Holders
  <2> QED BY <2>1, <2>2
<1>13. credit \in Int /\ credit = r.ctr + Cardinality(Holders(r, cs))
  BY <1>12, InvFacts DEF Began
<1>14. st \subseteq Task /\ Fresh(r, st)
  <2>1. st \subseteq Task /\ stale \subseteq st
    BY <1>1 DEF Marked
  <2>2. ASSUME NEW u \in Task, r.on[u] # "nothing", u \notin st PROVE r.on[u] \in r.valid
    <3>1. CASE u # t
      BY <1>1, <2>1, <2>2, <3>1 DEF Fresh, Began
    <3>2. CASE u = t
      <4>1. c # Dly /\ r.on[t] = c.obj /\ r.valid = k.valid
        BY <2>2, <3>2 DEF Began
      <4> QED BY <2>2, <3>2, <4>1 DEF Marked
    <3> QED BY <3>1, <3>2
  <2> QED BY <2>1, <2>2 DEF Fresh
<1> QED BY <1>1, <1>2, <1>3, <1>5, <1>6, <1>8, <1>10, <1>11, <1>13, <1>14 DEF Inv

(* OS_Pend, from OSSemPend and from OSFlagPend.                               *)
LEMMA PendStep ==
  ASSUME Inv, NEW w \in Pends, Enter(w), Begin(w),
         w.obj = "sem" => k.ctr = 0, w.obj = "flag" => ~Met(w, k.flags),
         tick' = tick, credit' = credit
  PROVE  Inv'
<1>0. /\ k.state[w.t] = {} /\ call[w.t] = NoCall /\ asked' = asked \ {w} /\ w \in asked
      /\ k' = Pend(k, w) /\ call' = [call EXCEPT ![w.t] = w]
      /\ due' = Ends(w.t, IF w.timeout = 0 THEN 0 ELSE tick + w.timeout)
      /\ stale' = IF w.obj \in k.valid THEN stale ELSE stale \cup {w.t}
  BY DEF Enter, Begin, Runs, Inv, Asks
<1>1. PICK t \in Task : t = w.t
  BY WaitAssumption
<1>2. PICK n \in Time : n = w.timeout
  BY WaitAssumption
<1>3. w.obj \in {"sem", "flag"} /\ w # Dly
  BY WaitAssumption DEF Dly
<1>4. Sound(k) /\ k \in Kernel /\ Listed(k) /\ TickBits(k) /\ InPhase(k) /\ tick \in Time
  BY DEF Inv, Sound
<1>5. PICK r : r = k'
  OBVIOUS
<1>6. PICK b : b = [k EXCEPT !.state[t] = {"pend"}, !.on[t] = w.obj, !.status[t] = "ok", !.rdy[t] = {}]
  OBVIOUS
<1>7. r = IF n > 0 THEN TickListInsert(b, t, n) ELSE b
  BY <1>0, <1>1, <1>2, <1>5, <1>6 DEF Pend
<1>8. /\ k.state \in [Task -> SUBSET {"dly", "pend", "suspended"}]
      /\ k.on \in [Task -> {"nothing", "sem", "flag", "lost"}]
      /\ k.status \in [Task -> {"ok", "timeout", "abort", "del"}]
      /\ k.rdy \in [Task -> SUBSET Flag]
  BY <1>4 DEF Kernel
<1>9. /\ b.list = k.list /\ b.remain = k.remain /\ b.nested = k.nested
      /\ b.prev = k.prev /\ b.valid = k.valid /\ b.ctr = k.ctr /\ b.flags = k.flags
      /\ b.state = [k.state EXCEPT ![t] = {"pend"}] /\ b.on = [k.on EXCEPT ![t] = w.obj]
      /\ b.status = [k.status EXCEPT ![t] = "ok"] /\ b.rdy = [k.rdy EXCEPT ![t] = {}]
      /\ b \in [state : {b.state}, nested : {b.nested}, on : {b.on}, status : {b.status},
                rdy : {b.rdy}, prev : {b.prev}, list : {b.list}, remain : {b.remain},
                valid : {b.valid}, ctr : {b.ctr}, flags : {b.flags}]
  BY <1>4, <1>6 DEF Kernel
<1>10. b \in Kernel
  <2>1. b.state \in [Task -> SUBSET {"dly", "pend", "suspended"}]
    BY <1>8, <1>9
  <2>2. b.on \in [Task -> {"nothing", "sem", "flag", "lost"}]
    BY <1>3, <1>8, <1>9
  <2>3. b.status \in [Task -> {"ok", "timeout", "abort", "del"}] /\ b.rdy \in [Task -> SUBSET Flag]
    BY <1>8, <1>9
  <2> QED BY <1>4, <1>9, <2>1, <2>2, <2>3 DEF Kernel
<1>11. Left(b) = Left(k) /\ Listed(b)
  BY <1>4, <1>9, SameList
<1>12. ASSUME NEW u \in Task
       PROVE  /\ u # t => /\ b.state[u] = k.state[u] /\ b.on[u] = k.on[u]
                          /\ b.status[u] = k.status[u] /\ b.rdy[u] = k.rdy[u]
              /\ u = t => b.state[u] = {"pend"} /\ b.on[u] = w.obj /\ b.rdy[u] = {}
  BY <1>8, <1>9
<1>13. Sound(b) /\ ~Timed(b, t)
  <2>1. ASSUME NEW u \in Task PROVE Timed(b, u) <=> Timed(k, u)
    BY <1>0, <1>1, <1>12 DEF Timed
  <2>2. TickBits(b)
    BY <1>4, <1>9, <2>1 DEF TickBits
  <2>3. ~Timed(k, t)
    BY <1>0, <1>1 DEF Timed
  <2> QED BY <1>10, <1>11, <2>1, <2>2, <2>3 DEF Sound
<1>14. /\ Sound(r) /\ Rest(r, b) /\ Left(r) = IF n > 0 THEN Left(k) \cup {<<t, n>>} ELSE Left(k)
       /\ r.state = IF n > 0 THEN [b.state EXCEPT ![t] = @ \cup {"dly"}] ELSE b.state
  <2>1. CASE n > 0
    <3>1. n \in 1 .. Wrap - 1
      BY <2>1, WaitAssumption DEF Time
    <3>2. r = TickListInsert(b, t, n)
      BY <1>7, <2>1
    <3>3. /\ Sound(r) /\ Rest(r, b) /\ r.state = [b.state EXCEPT ![t] = @ \cup {"dly"}]
          /\ Left(r) = Left(b) \cup {<<t, n>>}
      BY <1>13, <3>1, <3>2, InsertSound
    <3> QED BY <1>11, <2>1, <3>3
  <2>2. CASE ~(n > 0)
    BY <1>7, <1>11, <1>13, <2>2 DEF Rest
  <2> QED BY <2>1, <2>2
<1>15. Began(r, t, w, n)
  <2>1. b.state \in [Task -> SUBSET {"dly", "pend", "suspended"}]
    BY <1>10 DEF Kernel
  <2>2. ASSUME NEW u \in Task
        PROVE  r.state[u] = IF u = t /\ n > 0 THEN b.state[u] \cup {"dly"} ELSE b.state[u]
    BY <1>14, <2>1
  <2>3. r.state[t] = {"pend"} \cup (IF n > 0 THEN {"dly"} ELSE {})
    BY <1>12, <2>2
  <2>4. /\ r.nested = k.nested /\ r.valid = k.valid /\ r.ctr = k.ctr /\ r.flags = k.flags
        /\ r.on = b.on /\ r.rdy = b.rdy /\ r.status = b.status
    BY <1>9, <1>14 DEF Rest
  <2>5. ASSUME NEW u \in Task, u # t
        PROVE  /\ r.state[u] = k.state[u] /\ r.on[u] = k.on[u]
               /\ r.status[u] = k.status[u] /\ r.rdy[u] = k.rdy[u]
    BY <1>12, <2>2, <2>4, <2>5, ZenonT(40)
  <2> QED BY <1>3, <1>12, <1>14, <2>3, <2>4, <2>5 DEF Began
<1>16. InPhase(r)
  BY <1>4, <1>9, <1>14 DEF Rest, InPhase
<1>17. PICK x \in Time : due' = [due EXCEPT ![t] = x] /\ (n > 0 => (tick + n) % Wrap = x)
  <2>1. PICK y : y = (IF n = 0 THEN 0 ELSE tick + n) % Wrap
    OBVIOUS
  <2>2. due' = [due EXCEPT ![t] = y]
    BY <1>0, <1>1, <1>2, <2>1 DEF Ends
  <2>3. PICK z \in Int : z = IF n = 0 THEN 0 ELSE tick + n
    BY <1>4 DEF Time
  <2>4. z % Wrap \in Time
    <3>1. Wrap \in Nat /\ Wrap > 0 /\ z >= 0 /\ z < Wrap + Wrap
      BY <1>4, <2>3, WaitAssumption DEF Time
    <3>2. z % Wrap = IF z < Wrap THEN z ELSE z - Wrap
      BY <3>1, ModIs
    <3> QED BY <3>1, <3>2 DEF Time
  <2>5. n > 0 => (tick + n) % Wrap = y
    BY <2>1 DEF Time
  <2>6. y \in Time
    BY <2>1, <2>3, <2>4
  <2> QED BY <2>2, <2>5, <2>6
<1>18. MayPend(w, n)
  BY <1>2 DEF MayPend
<1>19. PICK st : st = stale' /\ Marked(st, t, w)
  BY <1>0, <1>1, <1>3 DEF Marked
<1>20. Asks(asked', call')
  <2>1. Asks(asked, call) /\ call \in [Task -> {NoCall, Dly} \cup Pends]
    BY DEF Inv, Calls
  <2>2. PICK a, c : a = asked' /\ c = call' /\ a = asked \ {w} /\ c = [call EXCEPT ![t] = w]
    BY <1>0, <1>1
  <2>3. ASSUME NEW v \in a PROVE c[v.t] = NoCall
    <3>1. v \in asked /\ v # w /\ v.t # t /\ v.t \in Task
      BY <1>0, <1>1, <2>1, <2>2, WaitAssumption DEF Asks
    <3> QED BY <2>1, <2>2, <3>1 DEF Asks
  <2>4. Asks(a, c)
    BY <2>1, <2>2, <2>3 DEF Asks
  <2> QED BY <2>2, <2>4
<1> QED BY <1>0, <1>1, <1>5, <1>14, <1>15, <1>16, <1>17, <1>18, <1>19, <1>20, BeginStep

(* Consuming flags does not give a task those that it waits for, unless it is *)
(* for the opposite state of the same flags.                                  *)
LEMMA ConsumeIs ==
  ASSUME NEW v \in Pends, NEW w \in Pends, v.obj = "flag", w.obj = "flag", v.t # w.t, Alone(v),
         NEW y, y \subseteq w.flags, NEW f, ~Met(v, f)
  PROVE  ~Met(v, Consume(w, y, f))
<1>1. PICK g : g = Consume(w, y, f)
  OBVIOUS
<1>2. CASE ~w.consume
  BY <1>1, <1>2 DEF Consume
<1>3. CASE w.consume
  <2>1. g = IF w.set THEN f \ y ELSE f \cup y
    BY <1>1, <1>3 DEF Consume
  <2>2. CASE v.set # w.set
    <3>1. w.flags \cap v.flags = {}
      BY <1>3, <2>2 DEF Alone
    <3>2. v.flags \cap g = v.flags \cap f /\ v.flags \ g = v.flags \ f
      BY <2>1, <3>1
    <3>3. Present(v, g) = Present(v, f)
      BY <3>2 DEF Present
    <3> QED BY <1>1, <3>3 DEF Met
  <2>3. CASE v.set = w.set
    <3>1. Present(v, g) \subseteq Present(v, f)
      BY <2>1, <2>3 DEF Present
    <3>2. Present(v, f) \subseteq v.flags
      BY DEF Present
    <3>3. Present(v, g) = v.flags => Present(v, f) = v.flags
      BY <3>1, <3>2
    <3>4. Present(v, g) # {} => Present(v, f) # {}
      BY <3>1
    <3> QED BY <1>1, <3>3, <3>4 DEF Met
  <2> QED BY <2>2, <2>3
<1> QED BY <1>2, <1>3

(* The flags after the call of a task that does not wait consumed some.       *)
LEMMA ConsumeFits ==
  ASSUME Inv, NEW w \in Pends, w.obj = "flag", NEW t \in Task, w.t = t, k.state[t] = {},
         NEW y, y \subseteq w.flags, NEW g, g = Consume(w, y, k.flags)
  PROVE  g \in SUBSET Flag /\ Fits(k, k.valid, k.ctr, g)
<1>1. /\ Bits(k, call) /\ Calls(call) /\ NoneInVain(k, call) /\ k.flags \in SUBSET Flag
      /\ Fresh(k, stale)
  BY InvFacts DEF Keeps
<1>2. g \in SUBSET Flag
  <2>1. w.flags \subseteq Flag
    BY WaitAssumption
  <2> QED BY <1>1, <2>1 DEF Consume
<1>3. ASSUME NEW u \in Task, k.on[u] = "flag", Alone(call[u]) PROVE ~Met(call[u], g)
  <2>1. u # t /\ call[u].obj = "flag"
    BY <1>1, <1>3 DEF Bits
  <2>2. call[u] \in Pends /\ call[u].t = u
    BY <1>1, <2>1, CallFacts
  <2>3. ~Met(call[u], k.flags)
    BY <1>1, <1>3 DEF NoneInVain
  <2> QED BY <1>3, <2>1, <2>2, <2>3, ConsumeIs
<1> QED BY <1>1, <1>2, <1>3 DEF Fits, Fresh, NoneInVain

(* OSSemPend and OSFlagPend after their test of Type.                         *)
LEMMA AskStep == ASSUME Inv, NEW w \in Pends, Ask(w) PROVE Inv'
<1>1. /\ asked' = asked \cup {w} /\ k' = k /\ tick' = tick /\ call' = call /\ due' = due
      /\ credit' = credit /\ stale' = stale /\ Idle(w.t)
  BY DEF Ask
<1>2. Asks(asked \cup {w}, call)
  BY <1>1 DEF Inv, Asks, Idle
<1> QED BY <1>1, <1>2 DEF Inv

LEMMA SemPendStep == ASSUME Inv, NEW w \in Pends, SemPend(w) PROVE Inv'
<1>1. w.obj = "sem" /\ Enter(w) /\ tick' = tick /\ asked' \subseteq asked
  BY DEF SemPend, Enter
<1>2. CASE k.ctr > 0
  <2>1. /\ k' = [k EXCEPT !.ctr = @ - 1] /\ credit' = credit - 1
        /\ call' = call /\ due' = due /\ stale' = stale
    BY <1>2 DEF SemPend
  <2>2. PICK n \in 0 .. SemMax : n = k.ctr - 1
    BY <1>2, InvFacts
  <2>3. k' = [k EXCEPT !.ctr = n]
    BY <2>1, <2>2
  <2>4. credit' = credit + n - k.ctr
    <3>1. PICK x \in Int, m \in Int : x = credit /\ m = k.ctr
      BY InvFacts
    <3> QED BY <2>1, <2>2, <3>1
  <2>5. "sem" \in k.valid
    BY <1>2, InvFacts DEF Keeps, NoneInVain
  <2>6. Quiet
    BY <1>1, <2>1 DEF Quiet
  <2> QED BY <1>2, <2>3, <2>4, <2>5, <2>6, CountStep
<1>3. CASE ~(k.ctr > 0)
  <2>1. Begin(w) /\ credit' = credit
    BY <1>3 DEF SemPend
  <2>2. k.ctr = 0
    BY <1>3, InvFacts
  <2> QED BY <1>1, <2>1, <2>2, PendStep
<1> QED BY <1>2, <1>3

LEMMA FlagPendStep == ASSUME Inv, NEW w \in Pends, FlagPend(w) PROVE Inv'
<1>1. /\ w.obj = "flag" /\ Enter(w) /\ k.state[w.t] = {} /\ tick' = tick /\ credit' = credit
      /\ asked' \subseteq asked
  BY DEF FlagPend, Enter, Runs
<1>2. CASE Met(w, k.flags)
  <2>1. /\ k' = [k EXCEPT !.flags = Consume(w, Present(w, @), @)]
        /\ call' = call /\ due' = due /\ stale' = stale
    BY <1>2 DEF FlagPend
  <2>2. PICK y : y = Present(w, k.flags) /\ y \subseteq w.flags
    BY DEF Present
  <2>3. PICK g : g = Consume(w, y, k.flags)
    OBVIOUS
  <2>4. PICK t \in Task : t = w.t
    BY WaitAssumption
  <2>5. g \in SUBSET Flag /\ Fits(k, k.valid, k.ctr, g)
    BY <1>1, <2>2, <2>3, <2>4, ConsumeFits
  <2>6. PICK r : r = k'
    OBVIOUS
  <2>7. r = [k EXCEPT !.flags = g]
    BY <2>1, <2>2, <2>3, <2>6
  <2>8. r = Objects(k, k.valid, k.ctr, g)
    BY <2>7, InvFacts DEF Kernel, Objects
  <2>9. Keeps(r) /\ r.ctr = k.ctr /\ Holders(r, call) = Holders(k, call)
    BY <2>5, <2>8, InvFacts, ObjectsInv
  <2>10. credit' \in Int /\ credit' = r.ctr + Cardinality(Holders(r, call))
    BY <1>1, <2>9, InvFacts
  <2>11. Quiet
    BY <1>1, <2>1 DEF Quiet
  <2> QED BY <2>6, <2>9, <2>10, <2>11, QuietKeeps
<1>3. CASE ~Met(w, k.flags)
  <2>1. Begin(w)
    BY <1>3 DEF FlagPend
  <2> QED BY <1>1, <1>3, <2>1, PendStep
<1> QED BY <1>2, <1>3

(* A call returns: its task waits for nothing, and it holds no post any more. *)
LEMMA ReturnStep == ASSUME Inv, NEW t \in Task, Return(t) PROVE Inv'
<1>1. /\ call[t] # NoCall /\ k.state[t] = {} /\ call' = [call EXCEPT ![t] = NoCall]
      /\ tick' = tick /\ asked' = asked /\ stale' = stale \ {t}
  BY DEF Return, Runs
<1>2. /\ Sound(k) /\ Bits(k, call) /\ Calls(call) /\ InPhase(k) /\ NoneInVain(k, call)
      /\ tick \in Time /\ due \in [Task -> Time] /\ Ending(k, tick, due)
      /\ call \in [Task -> {NoCall, Dly} \cup Pends] /\ k \in Kernel /\ Listed(k) /\ TickBits(k)
      /\ Fresh(k, stale) /\ Asks(asked, call) /\ stale \subseteq Task
  BY DEF Inv, Calls, Sound
<1>3. ~Timed(k, t) /\ k.on[t] = "nothing" /\ "suspended" \notin k.state[t]
  BY <1>1, <1>2 DEF Timed, Bits
<1>4. PICK r : r = k'
  OBVIOUS
<1>5. PICK g \in SUBSET Flag :
        /\ g = IF call[t].obj = "flag" /\ k.status[t] = "ok"
               THEN Consume(call[t], k.rdy[t], k.flags) ELSE k.flags
        /\ Fits(k, k.valid, k.ctr, g)
  <2>1. CASE call[t].obj = "flag" /\ k.status[t] = "ok"
    <3>1. call[t] \in Pends /\ call[t].t = t
      BY <1>2, <2>1, CallFacts
    <3>2. k.rdy[t] \subseteq call[t].flags
      BY <1>2, <2>1 DEF Bits
    <3>3. PICK g : g = Consume(call[t], k.rdy[t], k.flags)
      OBVIOUS
    <3>4. g \in SUBSET Flag /\ Fits(k, k.valid, k.ctr, g)
      BY <1>1, <2>1, <3>1, <3>2, <3>3, ConsumeFits
    <3> QED BY <2>1, <3>3, <3>4
  <2>2. CASE ~(call[t].obj = "flag" /\ k.status[t] = "ok")
    <3>1. Fits(k, k.valid, k.ctr, k.flags)
      BY <1>2 DEF Fits, Fresh, NoneInVain
    <3> QED BY <2>2, <3>1, InvFacts
  <2> QED BY <2>1, <2>2
<1>6. PICK s : s = [k EXCEPT !.status[t] = "ok", !.rdy[t] = {}]
  OBVIOUS
<1>7. /\ k.status \in [Task -> {"ok", "timeout", "abort", "del"}] /\ k.rdy \in [Task -> SUBSET Flag]
  BY <1>2 DEF Kernel
<1>8. /\ s.state = k.state /\ s.nested = k.nested /\ s.on = k.on /\ s.prev = k.prev
      /\ s.list = k.list /\ s.remain = k.remain /\ s.valid = k.valid /\ s.ctr = k.ctr
      /\ s.flags = k.flags
      /\ s.status = [k.status EXCEPT ![t] = "ok"] /\ s.rdy = [k.rdy EXCEPT ![t] = {}]
      /\ s \in [state : {s.state}, nested : {s.nested}, on : {s.on}, status : {s.status},
                rdy : {s.rdy}, prev : {s.prev}, list : {s.list}, remain : {s.remain},
                valid : {s.valid}, ctr : {s.ctr}, flags : {s.flags}]
  BY <1>2, <1>6 DEF Kernel
<1>9. s \in Kernel
  <2>1. s.status \in [Task -> {"ok", "timeout", "abort", "del"}] /\ s.rdy \in [Task -> SUBSET Flag]
    BY <1>7, <1>8
  <2> QED BY <1>2, <1>8, <2>1 DEF Kernel
<1>10. Sound(s) /\ Left(s) = Left(k)
  <2>1. Left(s) = Left(k) /\ Listed(s)
    BY <1>2, <1>8, SameList
  <2> QED BY <1>2, <1>8, <1>9, <2>1 DEF Sound, TickBits, Timed
<1>11. r = Objects(s, k.valid, k.ctr, g)
  <2>1. k' = IF call[t].obj = "flag" /\ k.status[t] = "ok"
             THEN [s EXCEPT !.flags = Consume(call[t], k.rdy[t], @)] ELSE s
    BY <1>6 DEF Return
  <2>2. k' = [s EXCEPT !.flags = g]
    BY <1>5, <1>8, <1>9, <2>1 DEF Kernel
  <2> QED BY <1>4, <1>8, <1>9, <2>2 DEF Objects, Kernel
<1>12. Sound(r) /\ Alike(r, s, k.valid, k.ctr, g)
  BY <1>5, <1>10, <1>11, InvFacts, ObjectsKeep
<1>13. /\ Left(r) = Left(k) /\ r.state = k.state /\ r.nested = k.nested /\ r.on = k.on
       /\ r.prev = k.prev /\ r.valid = k.valid /\ r.ctr = k.ctr /\ r.flags = g
       /\ \A u \in Task : u # t => r.status[u] = k.status[u] /\ r.rdy[u] = k.rdy[u]
  BY <1>7, <1>8, <1>10, <1>12 DEF Alike
<1>14. PICK cs : cs = call'
  OBVIOUS
<1>15. PICK ds : ds = due'
  OBVIOUS
<1>16. cs[t] = NoCall /\ \A u \in Task : u # t => cs[u] = call[u]
  BY <1>1, <1>2, <1>14
<1>17. Calls(cs)
  <2>1. cs \in [Task -> {NoCall, Dly} \cup Pends]
    BY <1>1, <1>2, <1>14
  <2>2. NoCall \notin Pends
    BY WaitAssumption DEF NoCall
  <2> QED BY <1>2, <1>16, <2>1, <2>2 DEF Calls
<1>18. ds \in [Task -> Time] /\ \A u \in Task : u # t => ds[u] = due[u]
  <2>1. PICK z \in Int : z = 0
    OBVIOUS
  <2>2. z % Wrap = z /\ z \in Time
    <3>1. Wrap \in Nat /\ Wrap > 0
      BY WaitAssumption
    <3>2. z % Wrap = IF z < Wrap THEN z ELSE z - Wrap
      BY <2>1, <3>1, ModIs
    <3> QED BY <2>1, <3>1, <3>2 DEF Time
  <2>3. ds = [due EXCEPT ![t] = z]
    BY <1>15, <2>1, <2>2 DEF Return, Ends
  <2> QED BY <1>2, <2>2, <2>3
<1>19. Ending(r, tick, ds)
  <2>1. ASSUME NEW e \in Left(k) PROVE (tick + e[2]) % Wrap = ds[e[1]]
    <3>1. k.list \in Seq(Task)
      BY <1>2 DEF Listed
    <3>2. e[1] \in ToSet(k.list)
      BY <3>1, ToSetLeft
    <3>3. e[1] \in Task /\ Timed(k, e[1])
      BY <1>2, <3>1, <3>2 DEF TickBits, ToSet
    <3> QED BY <1>2, <1>3, <1>18, <3>3 DEF Ending
  <2> QED BY <1>13, <2>1 DEF Ending
<1>20. Bits(r, cs)
  <2>1. NoCall.obj # "flag"
    BY DEF NoCall
  <2>2. ASSUME NEW u \in Task
        PROVE  /\ "pend" \in r.state[u] <=> r.on[u] # "nothing"
               /\ "suspended" \in r.state[u] <=> r.nested[u] > 0
               /\ "suspended" \in r.state[u] => u \in Suspend
               /\ r.on[u] # "nothing" => r.on[u] \in {cs[u].obj, "lost"}
               /\ Timed(r, u) /\ "pend" \notin r.state[u] => cs[u] = Dly
               /\ Timed(r, u) /\ "pend" \in r.state[u] => cs[u].timeout > 0
               /\ cs[u].obj = "flag" => r.rdy[u] \subseteq cs[u].flags
    <3>1. CASE u # t
      BY <1>2, <1>13, <1>16, <3>1 DEF Bits, Timed
    <3>2. CASE u = t
      BY <1>2, <1>3, <1>13, <1>16, <2>1, <3>2 DEF Bits, Timed
    <3> QED BY <3>1, <3>2
  <2> QED BY <2>2 DEF Bits
<1>21. InPhase(r)
  BY <1>2, <1>13 DEF InPhase
<1>22. NoneInVain(r, cs)
  <2>1. ASSUME NEW u \in Task
        PROVE  /\ r.on[u] = "sem" => r.ctr = 0
               /\ r.on[u] = "flag" /\ Alone(cs[u]) => ~Met(cs[u], r.flags)
    <3>1. CASE u # t
      BY <1>5, <1>13, <1>16, <3>1 DEF Fits
    <3>2. CASE u = t
      BY <1>3, <1>13, <3>2
    <3> QED BY <3>1, <3>2
  <2> QED BY <1>5, <1>13, <2>1 DEF NoneInVain, Fits
<1>23. Holders(r, cs) = Holders(k, call) \ {t}
  <2>1. ASSUME NEW u \in Task PROVE u \in Holders(r, cs) <=> u \in Holders(k, call) /\ u # t
    <3>1. CASE u # t
      <4>1. cs[u] = call[u] /\ r.state[u] = k.state[u] /\ r.status[u] = k.status[u]
        BY <1>13, <1>16, <3>1
      <4> QED BY <3>1, <4>1 DEF Holders
    <3>2. CASE u = t
      BY <1>16, <3>2 DEF Holders
    <3> QED BY <3>1, <3>2
  <2>2. Holders(r, cs) \subseteq Task /\ Holders(k, call) \subseteq Task
    BY DEF Holders
  <2> QED BY <2>1, <2>2
<1>24. credit' \in Int /\ credit' = r.ctr + Cardinality(Holders(r, cs))
  <2>1. PICK h \in Int, m \in Int, x \in Int :
          h = Cardinality(Holders(k, call)) /\ m = k.ctr /\ x = credit /\ x = m + h
    BY InvFacts
  <2>2. CASE call[t].obj = "sem" /\ k.status[t] = "ok"
    <3>1. t \in Holders(k, call)
      BY <1>1, <2>2 DEF Holders
    <3>2. Cardinality(Holders(r, cs)) = h - 1
      <4>1. PICK H : H = Holders(k, call) /\ IsFiniteSet(H)
        BY HoldersFinite
      <4>2. Cardinality(H \ {t}) = Cardinality(H) - 1
        BY <3>1, <4>1, FS_RemoveElement
      <4> QED BY <1>23, <2>1, <4>1, <4>2
    <3>3. credit' = x - 1
      BY <2>1, <2>2 DEF Return
    <3> QED BY <1>13, <2>1, <3>2, <3>3
  <2>3. CASE ~(call[t].obj = "sem" /\ k.status[t] = "ok")
    <3>1. t \notin Holders(k, call)
      BY <2>3 DEF Holders
    <3>2. Holders(r, cs) = Holders(k, call)
      BY <1>23, <3>1
    <3>3. credit' = x
      BY <2>1, <2>3 DEF Return
    <3> QED BY <1>13, <2>1, <3>2, <3>3
  <2> QED BY <2>2, <2>3
<1>25. PICK st : st = stale' /\ st \subseteq Task /\ Fresh(r, st)
  <2>1. ASSUME NEW u \in Task, k.on[u] # "nothing", u \notin stale \ {t} PROVE k.on[u] \in k.valid
    BY <1>2, <1>3, <2>1 DEF Fresh
  <2>2. Fresh(r, stale \ {t})
    BY <1>13, <2>1 DEF Fresh
  <2> QED BY <1>1, <1>2, <2>2
<1>26. Asks(asked, cs)
  <2>1. ASSUME NEW w \in asked PROVE cs[w.t] = NoCall
    <3>1. w.t \in Task /\ call[w.t] = NoCall
      BY <1>2, WaitAssumption DEF Asks
    <3> QED BY <1>16, <3>1
  <2> QED BY <1>2, <2>1 DEF Asks
<1> QED BY <1>1, <1>2, <1>4, <1>12, <1>14, <1>15, <1>17, <1>18, <1>19, <1>20, <1>21, <1>22, <1>24,
           <1>25, <1>26 DEF Inv

(* Multiples of a period.                                                     *)
LEMMA MultipleIs ==
  ASSUME NEW p \in Nat \ {0}, NEW q \in Int PROVE (p * q) % p = 0
<1>1. PICK x \in Int : x = p * q
  OBVIOUS
<1>2. PICK d \in Int, m \in Int : x = p * d + m /\ 0 <= m /\ m < p /\ m = x % p
  <2>1. x \div p \in Int /\ x % p \in Int /\ x = p * (x \div p) + (x % p) /\ 0 <= x % p /\ x % p < p
    OBVIOUS
  <2> QED BY <2>1
<1>3. PICK z \in Int : z = q - d
  OBVIOUS
<1>4. p * z = m
  BY <1>1, <1>2, <1>3
<1>5. z >= 1 => p * z >= p
  OBVIOUS
<1>6. z <= -1 => p * z <= -p
  OBVIOUS
<1>7. z = 0
  BY <1>2, <1>4, <1>5, <1>6
<1>8. m = 0
  BY <1>4, <1>7
<1> QED BY <1>1, <1>2, <1>8

LEMMA DividedIs ==
  ASSUME NEW p \in Nat \ {0}, NEW x \in Int, x % p = 0 PROVE \E q \in Int : x = p * q
<1>1. x \div p \in Int /\ x = p * (x \div p) + (x % p)
  OBVIOUS
<1>2. PICK q \in Int : q = x \div p
  BY <1>1
<1>3. x = p * q
  BY <1>1, <1>2
<1> QED BY <1>3

LEMMA MultiplesAdd ==
  ASSUME NEW p \in Nat \ {0}, NEW x \in Int, x % p = 0, NEW y \in Int, y % p = 0,
         NEW z \in Int, z = x + y
  PROVE  z % p = 0
<1>1. PICK q \in Int : x = p * q
  BY DividedIs
<1>2. PICK m \in Int : y = p * m
  BY DividedIs
<1>3. PICK n \in Int : n = q + m
  OBVIOUS
<1>4. z = p * n
  BY <1>1, <1>2, <1>3
<1> QED BY <1>4, MultipleIs

LEMMA MultiplesWrap ==
  ASSUME NEW p \in Nat \ {0}, Wrap % p = 0, NEW x \in Nat, x % p = 0
  PROVE  (x % Wrap) % p = 0 /\ x % Wrap \in Time
<1>1. Wrap \in Nat \ {0}
  BY WaitAssumption
<1>2. PICK d \in Int, m \in Int : x = Wrap * d + m /\ 0 <= m /\ m < Wrap /\ m = x % Wrap
  <2>1. /\ x \div Wrap \in Int /\ x % Wrap \in Int /\ x = Wrap * (x \div Wrap) + (x % Wrap)
        /\ 0 <= x % Wrap /\ x % Wrap < Wrap
    BY <1>1
  <2> QED BY <2>1
<1>3. PICK r \in Int : Wrap = p * r
  BY <1>1, DividedIs
<1>4. PICK a \in Int, z \in Int : a = r * d /\ z = -a
  BY <1>3
<1>5. PICK y \in Int : y = p * z /\ y % p = 0
  BY MultipleIs
<1>6. m % p = 0
  <2>1. PICK c \in Int : c = Wrap * d
    BY <1>1
  <2>2. c = p * a
    BY <1>3, <1>4, <2>1
  <2>3. y = -c
    BY <1>4, <1>5, <2>2
  <2>4. m = x + y
    BY <1>2, <2>1, <2>3
  <2>5. x \in Int /\ y % p = 0
    BY <1>5
  <2> QED BY <2>4, <2>5, MultiplesAdd
<1>7. m \in Time
  BY <1>1, <1>2 DEF Time
<1> QED BY <1>2, <1>6, <1>7

(* The next period begins a multiple of the period after the last one.        *)
LEMMA TickBaseIs ==
  ASSUME Inv, NEW d \in Delays, d.opt = "periodic", NEW b, b = TickBase(d.t, d.time)
  PROVE  b \in Time /\ (Wrap % d.time = 0 /\ k.prev[d.t] % d.time = 0 => b % d.time = 0)
<1>1. PICK p \in Nat \ {0} : p = d.time /\ d.t \in Task
  BY WaitAssumption DEF Time
<1>2. PICK v \in Time : v = k.prev[d.t] /\ v \in Nat
  BY <1>1, InvFacts DEF Kernel, Time
<1>3. Wrap \in Nat \ {0} /\ tick \in Time
  BY WaitAssumption DEF Inv
<1>4. PICK o \in Nat : o = (tick - v) % Wrap
  <2>1. PICK x \in Int : x = tick - v
    BY <1>2, <1>3 DEF Time
  <2>2. x % Wrap \in Nat
    BY <1>3
  <2> QED BY <2>1, <2>2
<1>5. PICK m \in Nat : m = o \div p + (IF o % p = 0 THEN 0 ELSE 1)
  <2>1. o \div p \in Nat
    OBVIOUS
  <2> QED BY <2>1
<1>6. PICK x \in Nat, y \in Int : x = v + y /\ y = p * m /\ y % p = 0
  <2>1. PICK y \in Nat : y = p * m
    OBVIOUS
  <2>2. y % p = 0
    BY <2>1, MultipleIs
  <2> QED BY <1>2, <2>1, <2>2
<1>7. b = IF o < p THEN v ELSE x % Wrap
  BY <1>1, <1>2, <1>4, <1>5, <1>6 DEF TickBase
<1>8. x % Wrap \in Time
  <2>1. x % Wrap \in Int /\ 0 <= x % Wrap /\ x % Wrap < Wrap
    BY <1>3
  <2> QED BY <1>3, <2>1 DEF Time
<1>9. Wrap % p = 0 /\ v % p = 0 => (x % Wrap) % p = 0
  <2>1. ASSUME v % p = 0 PROVE x % p = 0
    BY <1>2, <1>6, <2>1, MultiplesAdd DEF Time
  <2> QED BY <1>1, <2>1, MultiplesWrap
<1> QED BY <1>1, <1>2, <1>7, <1>8, <1>9

(* OSTimeDly enters the task at the tick its wait is to end with; the next    *)
(* period keeps the phase.                                                    *)
LEMMA TimeDlyStep == ASSUME Inv, NEW d \in Delays, TimeDly(d) PROVE Inv'
<1>1. PICK t \in Task : t = d.t
  BY WaitAssumption
<1>2. PICK time \in Time : time = d.time
  BY WaitAssumption
<1>3. PICK base : base = CASE d.opt = "dly" -> tick [] d.opt = "match" -> 0
                           [] d.opt = "periodic" -> TickBase(d.t, d.time)
  OBVIOUS
<1>4. PICK n : n = (time + base - tick) % Wrap
  OBVIOUS
<1>5. PICK s : s = IF d.opt = "periodic" THEN [k EXCEPT !.prev[t] = (base + time) % Wrap] ELSE k
  OBVIOUS
<1>6. PICK r : r = k'
  OBVIOUS
<1>7. /\ Runs(t) /\ Idle(t) /\ call[t] = NoCall /\ tick' = tick /\ credit' = credit
      /\ asked' = asked /\ stale' = stale
      /\ n = 0 => r = s /\ call' = call /\ due' = due
      /\ n # 0 => /\ r = TickListInsert(s, t, n) /\ call' = [call EXCEPT ![t] = Dly]
                  /\ due' = Ends(t, CASE d.opt = "dly" -> tick + time
                                      [] d.opt = "match" -> time
                                      [] d.opt = "periodic" -> s.prev[t])
  BY <1>1, <1>2, <1>3, <1>4, <1>5, <1>6 DEF TimeDly, Idle
<1>8. Sound(k) /\ k \in Kernel /\ InPhase(k) /\ tick \in Time /\ Wrap \in Nat \ {0}
  BY WaitAssumption DEF Inv, Sound
<1>9. d.opt \in {"dly", "match", "periodic"}
  BY WaitAssumption
<1>10. d.opt = "periodic" => base \in Time /\ (Wrap % time = 0 /\ k.prev[t] % time = 0 => base % time = 0)
  BY <1>1, <1>2, <1>3, TickBaseIs
<1>11. base \in Time
  <2>1. CASE d.opt = "dly"
    BY <1>3, <1>8, <2>1
  <2>2. CASE d.opt = "match"
    BY <1>3, <1>8, <2>2 DEF Time
  <2> QED BY <1>9, <1>10, <2>1, <2>2
<1>12. PICK x \in Time : x = (base + time) % Wrap /\ x % Wrap = x /\ (tick + n) % Wrap = x
  BY <1>4, <1>8, <1>11, DelayIs
<1>13. n \in Time
  BY <1>4, <1>8, <1>11, DelayIs
<1>14. /\ s.list = k.list /\ s.remain = k.remain /\ s.nested = k.nested /\ s.state = k.state
       /\ s.on = k.on /\ s.status = k.status /\ s.rdy = k.rdy
       /\ s.valid = k.valid /\ s.ctr = k.ctr /\ s.flags = k.flags
       /\ s.prev = (IF d.opt = "periodic" THEN [k.prev EXCEPT ![t] = x] ELSE k.prev)
       /\ s \in [state : {s.state}, nested : {s.nested}, on : {s.on}, status : {s.status},
                 rdy : {s.rdy}, prev : {s.prev}, list : {s.list}, remain : {s.remain},
                 valid : {s.valid}, ctr : {s.ctr}, flags : {s.flags}]
  BY <1>5, <1>8, <1>12 DEF Kernel
<1>15. k.prev \in [Task -> Time] /\ s.prev \in [Task -> Time]
  <2>1. k.prev \in [Task -> Time]
    BY <1>8 DEF Kernel
  <2> QED BY <1>14, <2>1
<1>16. Sound(s) /\ Left(s) = Left(k) /\ ~Timed(s, t)
  <2>1. s \in Kernel
    BY <1>8, <1>14, <1>15 DEF Kernel
  <2>2. Listed(s) /\ Left(s) = Left(k)
    BY <1>8, <1>14, SameList DEF Sound
  <2>3. TickBits(s)
    BY <1>8, <1>14 DEF Sound, TickBits, Timed
  <2>4. ~Timed(s, t)
    BY <1>7, <1>14 DEF Runs, Timed
  <2> QED BY <2>1, <2>2, <2>3, <2>4 DEF Sound
<1>17. InPhase(s)
  <2> SUFFICES ASSUME NEW e \in Delays, Phased(e) PROVE s.prev[e.t] % e.time = 0
    BY DEF InPhase
  <2>1. PICK p \in Nat \ {0} : p = e.time /\ e.opt = "periodic" /\ e.t \in Task /\ Wrap % p = 0
    BY WaitAssumption DEF Phased, Time
  <2>2. k.prev[e.t] % p = 0
    BY <1>8, <2>1 DEF InPhase
  <2>3. CASE d.opt = "periodic" /\ e.t = t
    <3>1. p = time
      BY <1>1, <1>2, <2>1, <2>3 DEF Phased
    <3>2. base % p = 0
      BY <1>10, <2>1, <2>2, <2>3, <3>1
    <3>3. PICK z \in Nat : z = base + time
      BY <1>11 DEF Time
    <3>4. p % p = 0
      BY ModIs
    <3>5. z % p = 0
      BY <1>11, <3>1, <3>2, <3>3, <3>4, MultiplesAdd DEF Time
    <3>6. (z % Wrap) % p = 0
      BY <2>1, <3>5, MultiplesWrap
    <3>7. s.prev[t] = z % Wrap
      BY <1>12, <1>14, <1>15, <2>3, <3>3
    <3> QED BY <2>1, <2>3, <3>6, <3>7
  <2>4. CASE ~(d.opt = "periodic" /\ e.t = t)
    <3>1. s.prev[e.t] = k.prev[e.t]
      BY <1>14, <1>15, <2>1, <2>4
    <3> QED BY <2>1, <2>2, <3>1
  <2> QED BY <2>3, <2>4
<1>18. CASE n = 0
  <2>1. r = s /\ Env /\ credit' = credit
    BY <1>7, <1>18 DEF Env
  <2>2. Bits(k, call) /\ Ending(k, tick, due) /\ NoneInVain(k, call) /\ Fresh(k, stale)
    BY DEF Inv
  <2>3. Bits(s, call) /\ Ending(s, tick, due) /\ NoneInVain(s, call) /\ Fresh(s, stale)
    BY <1>14, <1>16, <2>2 DEF Bits, Timed, Ending, NoneInVain, Fresh
  <2>4. Holders(s, call) = Holders(k, call)
    BY <1>14 DEF Holders
  <2>5. Keeps(r) /\ credit' \in Int /\ credit' = r.ctr + Cardinality(Holders(r, call))
    BY <1>14, <1>16, <1>17, <2>1, <2>3, <2>4 DEF Inv, Keeps
  <2> QED BY <1>6, <2>1, <2>5, EnvKeeps
<1>19. CASE n # 0
  <2>0. n \in 1 .. Wrap - 1
    BY <1>8, <1>13, <1>19 DEF Time
  <2>1. /\ Sound(r) /\ Rest(r, s) /\ r.state = [k.state EXCEPT ![t] = @ \cup {"dly"}]
        /\ Left(r) = Left(k) \cup {<<t, n>>}
    BY <1>7, <1>14, <1>16, <1>19, <2>0, InsertSound
  <2>2. InPhase(r)
    BY <1>17, <2>1 DEF InPhase, Rest
  <2>3. Began(r, t, Dly, n)
    <3>1. k.state \in [Task -> SUBSET {"dly", "pend", "suspended"}]
      BY <1>8 DEF Kernel
    <3>2. r.state[t] = {"dly"} /\ \A u \in Task : u # t => r.state[u] = k.state[u]
      BY <1>7, <2>1, <3>1 DEF Runs
    <3>3. k.on[t] = "nothing"
      BY <1>7 DEF Inv, Bits, Runs
    <3>4. /\ r.nested = k.nested /\ r.valid = k.valid /\ r.ctr = k.ctr /\ r.flags = k.flags
          /\ r.on = k.on /\ r.status = k.status /\ r.rdy = k.rdy
      BY <1>14, <2>1 DEF Rest
    <3>5. n > 0
      BY <2>0
    <3> QED BY <2>1, <3>2, <3>3, <3>4, <3>5 DEF Began
  <2>4. due' = [due EXCEPT ![t] = x]
    <3>1. CASE d.opt = "dly"
      <4>1. due' = Ends(t, tick + time) /\ base = tick
        BY <1>3, <1>7, <1>19, <3>1
      <4> QED BY <1>12, <4>1 DEF Ends
    <3>2. CASE d.opt = "match"
      <4>1. due' = Ends(t, time) /\ base = 0
        BY <1>3, <1>7, <1>19, <3>2
      <4>2. base + time = time
        BY <4>1 DEF Time
      <4> QED BY <1>12, <4>1, <4>2 DEF Ends
    <3>3. CASE d.opt = "periodic"
      <4>1. due' = Ends(t, s.prev[t]) /\ s.prev[t] = x
        BY <1>7, <1>14, <1>15, <1>19, <3>3
      <4> QED BY <1>12, <4>1 DEF Ends
    <3> QED BY <1>9, <3>1, <3>2, <3>3
  <2>5. PICK c \in {Dly} \cup Pends : c = Dly
    OBVIOUS
  <2>6. (c \in Pends => c.t = t) /\ MayPend(c, n)
    <3>1. c \notin Pends
      BY <2>5, WaitAssumption DEF Dly
    <3> QED BY <2>5, <3>1 DEF MayPend
  <2>7. /\ k.state[t] = {} /\ call[t] = NoCall /\ tick' = tick /\ credit' = credit
        /\ call' = [call EXCEPT ![t] = c] /\ Began(r, t, c, n)
        /\ n > 0 => (tick + n) % Wrap = x
    BY <1>7, <1>12, <1>19, <2>3, <2>5 DEF Runs
  <2>8. r = k' /\ Sound(r)
    BY <1>6, <2>1
  <2>9. PICK st : st = stale' /\ Marked(st, t, c)
    BY <1>7, <2>5 DEF Marked
  <2>10. Asks(asked', call')
    <3>1. Asks(asked, call) /\ call \in [Task -> {NoCall, Dly} \cup Pends]
      BY DEF Inv, Calls
    <3>2. PICK cs : cs = call' /\ cs = [call EXCEPT ![t] = c]
      BY <2>7
    <3>3. ASSUME NEW w \in asked PROVE cs[w.t] = NoCall
      <4>1. w.t \in Task /\ w.t # t /\ call[w.t] = NoCall
        BY <1>7, <3>1, WaitAssumption DEF Asks, Idle
      <4> QED BY <3>1, <3>2, <4>1
    <3>4. Asks(asked, cs)
      BY <3>1, <3>3 DEF Asks
    <3> QED BY <1>7, <3>2, <3>4
  <2> QED BY <1>13, <2>2, <2>4, <2>6, <2>7, <2>8, <2>9, <2>10, BeginStep
<1> QED BY <1>18, <1>19

(* Nobody waits at the start. *)
LEMMA InitInv == Init => Inv
<1> SUFFICES ASSUME Init PROVE Inv
  OBVIOUS
<1>1. /\ \A t \in Task : /\ k.state[t] = {} /\ k.on[t] = "nothing" /\ k.nested[t] = 0
                         /\ k.rdy[t] = {} /\ k.prev[t] = 0 /\ k.remain[t] = 0 /\ call[t] = NoCall
      /\ k.list = <<>> /\ k.valid = {"sem", "flag"} /\ k.ctr = 0 /\ k.flags = {}
      /\ tick = 0 /\ call = [t \in Task |-> NoCall] /\ due = [t \in Task |-> 0] /\ credit = 0
      /\ asked = {} /\ stale = {}
  BY DEF Init
<1>2. 0 \in Time /\ Wrap \in Nat \ {0} /\ SemMax \in Nat /\ SuspendMax \in Nat
  BY WaitAssumption DEF Time
<1>3. k \in Kernel
  <2>1. <<>> \in Seq(Task) /\ 0 \in 0 .. SemMax /\ 0 \in 0 .. SuspendMax
    BY <1>2
  <2> QED BY <1>2, <2>1 DEF Init, Kernel
<1>4. Left(k) = {} /\ Listed(k) /\ ToSet(k.list) = {}
  <2>1. Len(k.list) = 0 /\ DOMAIN k.list = {} /\ k.list \in Seq(Task)
    BY <1>1
  <2>2. 1 .. Len(k.list) = {}
    BY <2>1
  <2>3. Left(k) = {}
    BY <2>2 DEF Left
  <2>4. k.remain \in [Task -> Time] /\ IsInjective(k.list)
    BY <1>3, <2>1 DEF Kernel, IsInjective
  <2>5. ToSet(k.list) = {}
    BY <2>1 DEF ToSet
  <2> QED BY <1>1, <2>1, <2>3, <2>4, <2>5 DEF Listed
<1>5. Sound(k)
  <2>1. TickBits(k)
    BY <1>1, <1>4 DEF TickBits, Timed
  <2> QED BY <1>3, <1>4, <2>1 DEF Sound
<1>6. NoCall \notin Pends /\ NoCall.obj = "none"
  BY WaitAssumption DEF NoCall
<1>7. Calls(call)
  BY <1>1, <1>6 DEF Calls
<1>8. Bits(k, call)
  BY <1>1, <1>6 DEF Bits, Timed
<1>9. InPhase(k)
  <2> SUFFICES ASSUME NEW d \in Delays, Phased(d) PROVE k.prev[d.t] % d.time = 0
    BY DEF InPhase
  <2>1. PICK p \in Nat \ {0} : p = d.time /\ d.t \in Task
    BY WaitAssumption DEF Phased, Time
  <2>2. PICK z \in Int : z = 0
    OBVIOUS
  <2>3. p * z = 0 /\ (p * z) % p = 0
    BY <2>2, MultipleIs
  <2> QED BY <1>1, <2>1, <2>3
<1>10. NoneInVain(k, call)
  BY <1>1 DEF NoneInVain
<1>11. credit \in Int /\ credit = k.ctr + Cardinality(Holders(k, call))
  <2>1. Holders(k, call) = {}
    BY <1>1 DEF Holders
  <2>2. Cardinality(Holders(k, call)) = 0
    BY <2>1, FS_EmptySet
  <2> QED BY <1>1, <2>2
<1>12. Ending(k, tick, due)
  BY <1>4 DEF Ending
<1>13. tick \in Time /\ due \in [Task -> Time]
  BY <1>1, <1>2
<1>14. Asks(asked, call) /\ stale \subseteq Task /\ Fresh(k, stale)
  BY <1>1 DEF Asks, Fresh
<1> QED BY <1>5, <1>7, <1>8, <1>9, <1>10, <1>11, <1>12, <1>13, <1>14 DEF Inv

LEMMA InvKept == Inv /\ [Next]_vars => Inv'
<1> SUFFICES ASSUME Inv, [Next]_vars PROVE Inv'
  OBVIOUS
<1>1. ASSUME NEW w \in Pends, SemPend(w) PROVE Inv'
  BY <1>1, SemPendStep
<1>2. ASSUME NEW w \in Pends, FlagPend(w) PROVE Inv'
  BY <1>2, FlagPendStep
<1>3. ASSUME NEW d \in Delays, TimeDly(d) PROVE Inv'
  BY <1>3, TimeDlyStep
<1>4. ASSUME NEW t \in Task, Return(t) PROVE Inv'
  BY <1>4, ReturnStep
<1>5. ASSUME NEW t \in Task, TimeDlyResume(t) PROVE Inv'
  BY <1>5, TimeDlyResumeStep
<1>6. ASSUME NEW t \in Suspend, TaskSuspend(t) PROVE Inv'
  BY <1>6, TaskSuspendStep
<1>7. ASSUME NEW t \in Suspend, TaskResume(t) PROVE Inv'
  BY <1>7, TaskResumeStep
<1>8. ASSUME SemPost PROVE Inv'
  BY <1>8, SemPostStep
<1>9. ASSUME SemSet PROVE Inv'
  BY <1>9, SemSetStep
<1>10. ASSUME FlagPost PROVE Inv'
  BY <1>10, FlagPostStep
<1>11. ASSUME Tick PROVE Inv'
  BY <1>11, TickStep
<1>12. ASSUME NEW obj \in {"sem", "flag"}, PendAbort(obj) PROVE Inv'
  BY <1>12, PendAbortStep
<1>13. ASSUME NEW obj \in {"sem", "flag"}, Del(obj) PROVE Inv'
  BY <1>13, DelStep
<1>14. ASSUME NEW obj \in {"sem", "flag"}, Create(obj) PROVE Inv'
  BY <1>14, CreateStep
<1>15. ASSUME NEW w \in Pends, Ask(w) PROVE Inv'
  BY <1>15, AskStep
<1>16. CASE UNCHANGED vars
  <2>1. PICK r : r = k'
    OBVIOUS
  <2>2. r = k /\ Env /\ credit' = credit
    BY <1>16, <2>1 DEF vars, Env
  <2>3. Keeps(r) /\ credit' \in Int /\ credit' = r.ctr + Cardinality(Holders(r, call))
    BY <2>2, InvFacts
  <2> QED BY <2>1, <2>2, <2>3, EnvKeeps
<1> QED BY <1>1, <1>2, <1>3, <1>4, <1>5, <1>6, <1>7, <1>8, <1>9, <1>10, <1>11, <1>12, <1>13,
           <1>14, <1>15, <1>16 DEF Next

LEMMA Invariant == Spec => []Inv
BY InitInv, InvKept, PTL DEF Spec

-----------------------------------------------------------------------------
(* What the waits promise. *)

(* The bits of TaskState, PendOn, SuspendCtr and OSTickList agree whatever    *)
(* order OS_Post, OS_TickListUpdate, OS_PendAbort, deletions, OSTaskSuspend   *)
(* and OSTaskResume come in.                                                  *)
THEOREM BitsAgree == Spec => []WaitsExact
<1>1. Inv => WaitsExact
  <2> SUFFICES ASSUME Inv PROVE WaitsExact
    OBVIOUS
  <2>1. TypeOK
    <3>1. /\ Calls(call) /\ k \in Kernel /\ tick \in Time /\ due \in [Task -> Time] /\ credit \in Int
          /\ asked \subseteq Pends /\ stale \subseteq Task
      BY DEF Inv, Sound, Asks
    <3>2. \A t \in Task : call[t] \in {NoCall, Dly} \/ call[t] \in Pends
      BY <3>1 DEF Calls
    <3> QED BY <3>1, <3>2 DEF TypeOK
  <2>2. Listed(k) /\ TickBits(k) /\ Bits(k, call) /\ Fresh(k, stale)
    BY DEF Inv, Sound
  <2>3. IsInjective(k.list)
    BY <2>2 DEF Listed
  <2>4. ASSUME NEW t \in Task PROVE Timed(k, t) <=> t \in ToSet(k.list)
    BY <2>2 DEF TickBits
  <2> QED BY <2>1, <2>2, <2>3, <2>4 DEF WaitsExact, Bits, Fresh
<1> QED BY <1>1, Invariant, PTL

(* OS_TickListInsert and OS_TickListUpdate end every delay and timeout at the *)
(* tick that was asked for, and a period keeps its phase.                     *)
THEOREM WaitsEndOnTime == Spec => []OnTime
<1>1. Inv => OnTime
  <2> SUFFICES ASSUME Inv PROVE OnTime
    OBVIOUS
  <2>1. Listed(k) /\ Ending(k, tick, due) /\ InPhase(k)
    BY DEF Inv, Sound
  <2>2. ASSUME NEW i \in DOMAIN k.list PROVE (tick + Until(k, i)) % Wrap = due[k.list[i]]
    <3>1. i \in 1 .. Len(k.list)
      BY <2>1, ListedFacts
    <3>2. PICK e \in Left(k) : e = <<k.list[i], Until(k, i)>>
      BY <3>1 DEF Left
    <3>3. e[1] = k.list[i] /\ e[2] = Until(k, i)
      BY <3>2
    <3> QED BY <2>1, <3>3 DEF Ending
  <2> QED BY <2>1, <2>2 DEF OnTime, Listed, InPhase
<1> QED BY <1>1, Invariant, PTL

(* OSFlagPend consumes flags when it returns, without a look at the pend      *)
(* list: still nobody is left in it to wait for what is there.  Out of it are *)
(* only those whose object was deleted before their critical section.         *)
THEOREM NobodyWaitsInVain == Spec => []NoVainWait
<1>1. Inv => NoVainWait
  <2> SUFFICES ASSUME Inv, NEW t \in Task
      PROVE  /\ k.on[t] = "sem" => k.ctr = 0
             /\ k.on[t] = "flag" /\ Alone(call[t]) => ~Met(call[t], k.flags)
             /\ k.on[t] = "lost" => t \in stale
    BY DEF NoVainWait
  <2>1. /\ k.on[t] = "sem" => k.ctr = 0
        /\ k.on[t] = "flag" /\ Alone(call[t]) => ~Met(call[t], k.flags)
    BY DEF Inv, NoneInVain
  <2>2. ASSUME k.on[t] = "lost", t \notin stale PROVE FALSE
    <3>1. "lost" \in k.valid /\ k \in Kernel
      BY <2>2 DEF Inv, Fresh, Sound
    <3> QED BY <3>1 DEF Kernel
  <2> QED BY <2>1, <2>2
<1> QED BY <1>1, Invariant, PTL

(* OSSemPost, OSSemPend and what ends a wait between them keep the count.     *)
THEOREM CountKept == Spec => []PostsConserved
<1>1. Inv => PostsConserved
  BY DEF Inv, Holders, PostsConserved
<1> QED BY <1>1, Invariant, PTL

=============================================================================
