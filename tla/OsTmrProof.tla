----------------------------- MODULE OsTmrProof -----------------------------
(***************************************************************************)
(* Proofs about the software timers of uC/OS-III, for any timers, delays,  *)
(* calls and width of OSTickCtr that TmrAssumption allows.                 *)
(***************************************************************************)
EXTENDS OsTmr, FiniteSetTheorems, WellFoundedInduction, TLAPS

-----------------------------------------------------------------------------
(* Numbers and sequences. *)

LEMMA NatMin ==
  ASSUME NEW S, S \subseteq Nat, S # {}
  PROVE  \E v \in S : \A n \in S : v <= n
<1> DEFINE R == {ss \in Nat \X Nat : ss[1] < ss[2]}
<1>1. IsWellFoundedOn(R, Nat)
  BY NatLessThanWellFounded DEF OpToRel
<1>2. PICK v \in S : \A n \in S : ~(<<n, v>> \in R)
  BY <1>1, WFMin
<1>3. ASSUME NEW n \in S PROVE v <= n
  <2>1. v \in Nat /\ n \in Nat
    OBVIOUS
  <2>2. ~(n < v)
    BY <1>2, <2>1
  <2> QED BY <2>1, <2>2
<1> QED BY <1>3

LEMMA MinIs ==
  ASSUME NEW S, S \subseteq Nat, S # {}
  PROVE  Min(S) \in S /\ \A n \in S : Min(S) <= n
<1>1. \E v \in S : \A n \in S : v <= n
  BY NatMin
<1> QED BY <1>1 DEF Min

LEMMA Largest == \A v \in Nat \ {0} : Max(1 .. v) = v
<1> SUFFICES ASSUME NEW v \in Nat \ {0} PROVE Max(1 .. v) = v
  OBVIOUS
<1>1. v \in 1 .. v /\ \A y \in 1 .. v : v >= y
  OBVIOUS
<1>2. \A x \in 1 .. v : (\A y \in 1 .. v : x >= y) => x = v
  BY <1>1
<1> QED BY <1>1, <1>2 DEF Max

(* A set of positions has a last one. *)
LEMMA LastOne ==
  ASSUME NEW n \in Nat, NEW s \in SUBSET (1 .. n), s # {}
  PROVE  Max(s) \in s /\ \A i \in s : i <= Max(s)
<1> DEFINE B == {b \in Nat : \A i \in s : i <= b}
<1>1. n \in B /\ B \subseteq Nat
  OBVIOUS
<1>2. PICK b \in B : \A c \in B : b <= c
  <2> HIDE DEF B
  <2> QED BY <1>1, NatMin
<1>3. b \in s
  <2> SUFFICES ASSUME b \notin s PROVE FALSE
    OBVIOUS
  <2>1. \A i \in s : i \in Nat \ {0} /\ i < b
    <3>1. \A i \in s : i \in Nat \ {0} /\ i <= b /\ i # b
      OBVIOUS
    <3> QED BY <3>1
  <2>2. b - 1 \in Nat /\ b \in Nat
    <3>1. PICK i \in s : i \in Nat \ {0} /\ i < b
      BY <2>1
    <3> QED BY <3>1
  <2>3. b - 1 \in B
    BY <2>1, <2>2
  <2> QED BY <1>2, <2>2, <2>3
<1>4. \A i \in s : b >= i
  OBVIOUS
<1>5. \E x \in s : \A y \in s : x >= y
  BY <1>3, <1>4
<1>6. Max(s) \in s /\ \A y \in s : Max(s) >= y
  BY <1>5 DEF Max
<1> QED BY <1>6

LEMMA Second ==
  ASSUME NEW S, NEW c \in Seq(S), NEW b \in Seq(S), NEW h \in 1 .. Len(b)
  PROVE  (c \o b)[Len(c) + h] = b[h]
<1>1. PICK n \in Nat : n = Len(c)
  OBVIOUS
<1>2. PICK k \in Nat : k = Len(b)
  OBVIOUS
<1>3. PICK i \in 1 .. n + k : i = n + h /\ i > n /\ i - n = h
  BY <1>2
<1>4. (c \o b)[i] = b[i - n]
  BY <1>1, <1>2, <1>3
<1> QED BY <1>1, <1>3, <1>4

(* What InsertAt and RemoveAt give. *)
LEMMA Inserted ==
  ASSUME NEW S, NEW q \in Seq(S), NEW e \in S, NEW p \in 1 .. Len(q) + 1
  PROVE  /\ InsertAt(q, p, e) \in Seq(S) /\ Len(InsertAt(q, p, e)) = Len(q) + 1
         /\ \A i \in 1 .. Len(q) + 1, j \in 1 .. Len(q) :
              /\ i < p /\ j = i => InsertAt(q, p, e)[i] = q[j]
              /\ i = p => InsertAt(q, p, e)[i] = e
              /\ i > p /\ i = j + 1 => InsertAt(q, p, e)[i] = q[j]
         /\ InsertAt(q, p, e)[p] = e
<1> DEFINE a == SubSeq(q, 1, p - 1)
           b == SubSeq(q, p, Len(q))
           r == (a \o <<e>>) \o b
<1>1. q \in Seq(S) /\ Len(q) \in Nat /\ p \in Int /\ 1 <= p /\ p <= Len(q) + 1
  OBVIOUS
<1>2. a \in Seq(S) /\ Len(a) = p - 1 /\ \A i \in 1 .. p - 1 : a[i] = q[i]
  BY <1>1
<1>3. b \in Seq(S) /\ Len(b) = Len(q) - p + 1 /\ \A i \in 1 .. Len(q) - p + 1 : b[i] = q[p + i - 1]
  BY <1>1
<1>4. InsertAt(q, p, e) = r
  BY DEF InsertAt
<1> HIDE DEF a, b
<1>5. r \in Seq(S) /\ Len(r) = Len(q) + 1
  <2>1. <<e>> \in Seq(S) /\ Len(<<e>>) = 1 /\ a \in Seq(S) /\ b \in Seq(S)
    BY <1>2, <1>3
  <2>2. PICK c : c = a \o <<e>>
    OBVIOUS
  <2>3. c \in Seq(S) /\ Len(c) = p
    BY <1>1, <1>2, <2>1, <2>2
  <2>4. c \o b \in Seq(S) /\ Len(c \o b) = Len(c) + Len(b)
    BY <2>1, <2>3, SMTT(20)
  <2>5. r = c \o b
    BY <2>2
  <2> HIDE DEF r
  <2> QED BY <1>1, <1>3, <2>3, <2>4, <2>5
<1>6. r[p] = e
  BY <1>1, <1>2, <1>3
<1>7. ASSUME NEW i \in 1 .. Len(q), i < p PROVE r[i] = q[i]
  <2>1. i \in 1 .. p - 1
    BY <1>1, <1>7
  <2>2. r[i] = a[i]
    BY <1>1, <1>2, <1>3, <2>1
  <2> QED BY <1>2, <2>1, <2>2
<1>8. ASSUME NEW i \in 1 .. Len(q) + 1, NEW j \in 1 .. Len(q), i > p, i = j + 1 PROVE r[i] = q[j]
  <2>1. PICK h \in 1 .. Len(q) - p + 1 : h = j - p + 1 /\ i = p + h
    BY <1>1, <1>8
  <2>2. r[i] = b[h]
    <3>0. <<e>> \in Seq(S) /\ Len(<<e>>) = 1
      OBVIOUS
    <3>1. PICK c : c = a \o <<e>>
      OBVIOUS
    <3>2. c \in Seq(S) /\ Len(c) = p
      BY <1>1, <1>2, <3>0, <3>1
    <3>3. h \in 1 .. Len(b) /\ b \in Seq(S)
      BY <1>3
    <3>4. (c \o b)[Len(c) + h] = b[h]
      BY ONLY <3>2, <3>3, Second
    <3> QED BY <2>1, <3>1, <3>2, <3>4
  <2>3. b[h] = q[p + h - 1] /\ p + h - 1 = j
    BY <1>1, <1>3, <2>1
  <2> QED BY <2>2, <2>3
<1> HIDE DEF r
<1> QED BY <1>4, <1>5, <1>6, <1>7, <1>8

LEMMA Removed ==
  ASSUME NEW S, NEW q \in Seq(S), NEW p \in 1 .. Len(q)
  PROVE  /\ RemoveAt(q, p) \in Seq(S) /\ Len(RemoveAt(q, p)) = Len(q) - 1
         /\ \A i \in 1 .. Len(q) - 1, j \in 1 .. Len(q) :
              /\ i < p /\ j = i => RemoveAt(q, p)[i] = q[j]
              /\ i >= p /\ j = i + 1 => RemoveAt(q, p)[i] = q[j]
<1> DEFINE a == SubSeq(q, 1, p - 1)
           b == SubSeq(q, p + 1, Len(q))
           r == a \o b
<1>1. q \in Seq(S) /\ Len(q) \in Nat /\ p \in Int /\ 1 <= p /\ p <= Len(q)
  OBVIOUS
<1>2. a \in Seq(S) /\ Len(a) = p - 1 /\ \A i \in 1 .. p - 1 : a[i] = q[i]
  BY <1>1
<1>3. b \in Seq(S) /\ Len(b) = Len(q) - p /\ \A i \in 1 .. Len(q) - p : b[i] = q[p + i]
  BY <1>1
<1>4. RemoveAt(q, p) = r
  BY DEF RemoveAt
<1> HIDE DEF a, b
<1>5. r \in Seq(S) /\ Len(r) = Len(q) - 1
  <2>1. a \in Seq(S) /\ b \in Seq(S)
    BY <1>2, <1>3
  <2>2. a \o b \in Seq(S) /\ Len(a \o b) = Len(a) + Len(b)
    BY <2>1
  <2> QED BY <1>1, <1>2, <1>3, <2>2
<1>6. ASSUME NEW i \in 1 .. Len(q) - 1, i < p PROVE r[i] = q[i]
  <2>1. i \in 1 .. p - 1
    BY <1>1, <1>6
  <2>2. r[i] = a[i]
    BY <1>1, <1>2, <1>3, <2>1
  <2> QED BY <1>2, <2>1, <2>2
<1>7. ASSUME NEW i \in 1 .. Len(q) - 1, NEW j \in 1 .. Len(q), i >= p, j = i + 1 PROVE r[i] = q[j]
  <2>1. PICK h \in 1 .. Len(q) - p : h = i - p + 1
    BY <1>1, <1>7
  <2>2. r[i] = b[h]
    BY <1>1, <1>2, <1>3, <1>7, <2>1
  <2>3. b[h] = q[p + h] /\ p + h = j
    BY <1>1, <1>3, <1>7, <2>1
  <2> QED BY <2>2, <2>3
<1> HIDE DEF r
<1> QED BY <1>4, <1>5, <1>6, <1>7


-----------------------------------------------------------------------------
(* A sum over a list, from its first element on. *)

IsFold(g, a, b, s, n) ==
  g = [t \in SUBSET (1 .. n) |->
         IF t = {} THEN b ELSE LET x == Max(t) IN g[t \ {x}] + a[s[x]]]

LEMMA FoldExists ==
  ASSUME NEW a, NEW b, NEW s, NEW n \in Nat PROVE \E g : IsFold(g, a, b, s, n)
<1> DEFINE B == {v \in Nat : ~\E g : IsFold(g, a, b, s, v)}
<1>1. ASSUME B # {} PROVE FALSE
  <2>1. PICK v \in B : \A h \in B : v <= h
    <3>1. B \subseteq Nat
      OBVIOUS
    <3> HIDE DEF B
    <3> QED BY <1>1, <3>1, NatMin
  <2>2. CASE v = 0
    <3> DEFINE g == [t \in {{}} |-> b]
    <3>1. SUBSET (1 .. 0) = {{}}
      OBVIOUS
    <3>2. IsFold(g, a, b, s, 0)
      BY <3>1 DEF IsFold
    <3> QED BY <2>1, <2>2, <3>2
  <2>3. CASE v # 0
    <3>1. PICK h \in Nat : v = h + 1
      <4>1. v \in Nat
        OBVIOUS
      <4>2. v - 1 \in Nat /\ v = (v - 1) + 1
        BY <2>3, <4>1
      <4> QED BY <4>2
    <3>2. PICK f : IsFold(f, a, b, s, h)
      BY <2>1, <3>1
    <3> DEFINE g == [t \in SUBSET (1 .. v) |->
                 IF t = {} THEN b ELSE f[t \ {Max(t)}] + a[s[Max(t)]]]
    <3>3. ASSUME NEW t \in SUBSET (1 .. h) PROVE t \in SUBSET (1 .. v) /\ g[t] = f[t]
      <4>1. t \in SUBSET (1 .. v)
        BY <3>1
      <4> QED BY <3>2, <4>1 DEF IsFold
    <3>4. ASSUME NEW t \in SUBSET (1 .. v), t # {} PROVE t \ {Max(t)} \in SUBSET (1 .. h)
      <4>1. PICK x : x = Max(t) /\ x \in t /\ \A i \in t : i <= x
        BY <3>1, <3>4, LastOne
      <4>2. ASSUME NEW i \in t, i # x PROVE i \in 1 .. h
        <5>1. i \in 1 .. h + 1 /\ x \in 1 .. h + 1 /\ i <= x
          BY <3>1, <4>1
        <5> QED BY <4>2, <5>1
      <4> QED BY <4>1, <4>2
    <3>5. g = [t \in SUBSET (1 .. v) |->
                 IF t = {} THEN b ELSE g[t \ {Max(t)}] + a[s[Max(t)]]]
      <4>1. ASSUME NEW t \in SUBSET (1 .. v), t # {} PROVE f[t \ {Max(t)}] = g[t \ {Max(t)}]
        BY <3>3, <3>4, <4>1
      <4> HIDE DEF B
      <4> QED BY <4>1
    <3>6. IsFold(g, a, b, s, v)
      <4> HIDE DEF g
      <4> QED BY <3>5 DEF IsFold
    <3> QED BY <2>1, <3>6
  <2> QED BY <2>2, <2>3
<1> QED BY <1>1

(* The results of a fold, one after the other. *)
IsRun(g, a, b, s, n) ==
  g[0] = b /\ \A i \in 1 .. n : g[i] = g[i - 1] + a[s[i]]

LEMMA RunOf ==
  ASSUME NEW a, NEW b, NEW s, NEW n \in Nat, NEW f, IsFold(f, a, b, s, n)
  PROVE  \E g : IsRun(g, a, b, s, n) /\ g[n] = f[1 .. n]
<1> DEFINE g == [i \in 0 .. n |-> f[1 .. i]]
<1>1. f = [t \in SUBSET (1 .. n) |->
             IF t = {} THEN b ELSE LET x == Max(t) IN f[t \ {x}] + a[s[x]]]
  BY DEF IsFold
<1>2. g[0] = b
  <2>1. 1 .. 0 = {} /\ 1 .. 0 \in SUBSET (1 .. n) /\ 0 \in 0 .. n
    OBVIOUS
  <2> QED BY <1>1, <2>1
<1>3. ASSUME NEW i \in 1 .. n PROVE g[i] = g[i - 1] + a[s[i]]
  <2>1. /\ 1 .. i \in SUBSET (1 .. n) /\ 1 .. i # {} /\ i - 1 \in 0 .. n /\ i \in 0 .. n
        /\ (1 .. i) \ {i} = 1 .. (i - 1)
    <3>1. \A j \in 1 .. i : j \in 1 .. n
      OBVIOUS
    <3>2. i \in 1 .. i /\ i - 1 \in 0 .. n /\ i \in 0 .. n
      OBVIOUS
    <3>3. \A j \in (1 .. i) \ {i} : j \in 1 .. (i - 1)
      OBVIOUS
    <3>4. \A j \in 1 .. (i - 1) : j \in (1 .. i) \ {i}
      OBVIOUS
    <3> QED BY <3>1, <3>2, <3>3, <3>4
  <2>2. Max(1 .. i) = i
    BY Largest
  <2>3. f[1 .. i] = f[(1 .. i) \ {i}] + a[s[i]]
    BY <1>1, <2>1, <2>2
  <2> QED BY <2>1, <2>3
<1>4. g[n] = f[1 .. n]
  <2>1. n \in 0 .. n
    OBVIOUS
  <2> QED BY <2>1
<1> HIDE DEF g
<1> QED BY <1>2, <1>3, <1>4 DEF IsRun

Total(a, s) == FoldLeft(LAMBDA v, t : v + a[t], 0, s)

LEMMA SumRun ==
  ASSUME NEW n \in Nat, NEW s, DOMAIN s = 1 .. n, NEW a
  PROVE  \E g : IsRun(g, a, 0, s, n) /\ Total(a, s) = g[n]
<1> DEFINE F == Total(a, s)
<1>1. PICK e : IsFold(e, a, 0, s, n)
  BY FoldExists
<1>2. e = [t \in SUBSET (1 .. n) |->
             IF t = {} THEN 0 ELSE LET x == Max(t) IN e[t \ {x}] + a[s[x]]]
  BY <1>1 DEF IsFold
<1>3. PICK f : /\ f = [t \in SUBSET (1 .. n) |->
                    IF t = {} THEN 0 ELSE LET x == Max(t) IN f[t \ {x}] + a[s[x]]]
               /\ F = f[1 .. n]
  BY <1>2 DEF Total, FoldLeft, MapThenFoldSet
<1> HIDE DEF F
<1>4. IsFold(f, a, 0, s, n)
  BY <1>3 DEF IsFold
<1>5. \E g : IsRun(g, a, 0, s, n) /\ g[n] = f[1 .. n]
  BY <1>4, RunOf
<1>6. \E g : IsRun(g, a, 0, s, n) /\ g[n] = F
  BY <1>3, <1>5
<1> QED BY <1>6 DEF F

-----------------------------------------------------------------------------
(* The delta list: the sums of the ticks of its timers. *)

LEMMA UntilIs ==
  ASSUME NEW s, s.list \in Seq(Timer), s.remain \in [Timer -> Int]
  PROVE  /\ Until(s, 0) = 0 /\ \A i \in 0 .. Len(s.list) : Until(s, i) \in Int
         /\ \A i, j \in 0 .. Len(s.list) :
              j = i + 1 => Until(s, j) = Until(s, i) + s.remain[s.list[j]]
<1> DEFINE l == s.list  a == s.remain  n == Len(l)
<1>1. n \in Nat /\ DOMAIN l = 1 .. n /\ l \in Seq(Timer) /\ \A i \in 1 .. n : l[i] \in Timer
  OBVIOUS
<1>2. PICK g : IsRun(g, a, 0, l, n)
  BY <1>1, SumRun
<1>3. g[0] = 0 /\ \A i \in 1 .. n : g[i] = g[i - 1] + a[l[i]]
  BY <1>2 DEF IsRun
<1>4. ASSUME NEW i \in 0 .. n PROVE Until(s, i) = g[i]
  <2> DEFINE sub == SubSeq(l, 1, i)
  <2>1. sub \in Seq(Timer) /\ Len(sub) = i /\ DOMAIN sub = 1 .. i /\ \A j \in 1 .. i : sub[j] = l[j]
    BY <1>1
  <2>2. Until(s, i) = Total(a, sub)
    BY DEF Until, Total
  <2> HIDE DEF sub
  <2>3. PICK h : IsRun(h, a, 0, sub, i) /\ Total(a, sub) = h[i]
    BY <2>1, SumRun
  <2>4. h[0] = 0 /\ \A j \in 1 .. i : h[j] = h[j - 1] + a[sub[j]]
    BY <2>3 DEF IsRun
  <2> DEFINE B == {j \in 0 .. i : h[j] # g[j]}
  <2>5. ASSUME B # {} PROVE FALSE
    <3>1. PICK v \in B : \A j \in B : v <= j
      <4>1. B \subseteq Nat
        OBVIOUS
      <4> HIDE DEF B
      <4> QED BY <2>5, <4>1, NatMin
    <3>2. v # 0
      BY <1>3, <2>4, <3>1
    <3>3. PICK j \in 0 .. i : j = v - 1 /\ v \in 1 .. i /\ v \in 1 .. n
      BY <3>1, <3>2
    <3>4. h[j] = g[j]
      BY <3>1, <3>3
    <3> QED BY <1>3, <2>1, <2>4, <3>1, <3>3, <3>4
  <2>6. h[i] = g[i]
    BY <2>5
  <2> QED BY <2>2, <2>3, <2>6
<1>5. \A i \in 0 .. n : g[i] \in Int
  <2> DEFINE B == {j \in 0 .. n : g[j] \notin Int}
  <2>1. ASSUME B # {} PROVE FALSE
    <3>1. PICK v \in B : \A j \in B : v <= j
      <4>1. B \subseteq Nat
        OBVIOUS
      <4> HIDE DEF B
      <4> QED BY <2>1, <4>1, NatMin
    <3>2. v # 0
      BY <1>3, <3>1
    <3>3. PICK j \in 0 .. n : j = v - 1 /\ v \in 1 .. n
      BY <3>1, <3>2
    <3>4. g[j] \in Int /\ a[l[v]] \in Int
      BY <1>1, <3>1, <3>3
    <3> QED BY <1>3, <3>1, <3>3, <3>4
  <2> QED BY <2>1
<1>6. Until(s, 0) = 0
  BY <1>1, <1>3, <1>4
<1>7. ASSUME NEW i \in 0 .. n, NEW j \in 0 .. n, j = i + 1
      PROVE  Until(s, j) = Until(s, i) + a[l[j]]
  <2>1. j \in 1 .. n /\ i = j - 1
    BY <1>1, <1>7
  <2> QED BY <1>3, <1>4, <2>1
<1> QED BY <1>4, <1>5, <1>6, <1>7

AreSums(u, s) ==
  /\ u[0] = 0
  /\ \A i, j \in 0 .. Len(s.list) : j = i + 1 => u[j] = u[i] + s.remain[s.list[j]]

(* There are no other sums. *)
LEMMA UntilAre ==
  ASSUME NEW s, s.list \in Seq(Timer), s.remain \in [Timer -> Int], NEW u, AreSums(u, s)
  PROVE  \A i \in 0 .. Len(s.list) : Until(s, i) = u[i]
<1> USE DEF AreSums
<1> DEFINE n == Len(s.list)
           B == {j \in 0 .. n : Until(s, j) # u[j]}
<1>1. n \in Nat
  OBVIOUS
<1>2. ASSUME B # {} PROVE FALSE
  <2>1. PICK v \in B : \A j \in B : v <= j
    <3>1. B \subseteq Nat
      OBVIOUS
    <3> HIDE DEF B
    <3> QED BY <1>2, <3>1, NatMin
  <2>2. v # 0
    BY <2>1, UntilIs
  <2>3. PICK j \in 0 .. n : j = v - 1 /\ v \in 0 .. n /\ v = j + 1
    BY <1>1, <2>1, <2>2
  <2>4. Until(s, j) = u[j]
    BY <2>1, <2>3
  <2>5. Until(s, v) = Until(s, j) + s.remain[s.list[v]]
    BY <2>3, UntilIs
  <2> QED BY <2>1, <2>3, <2>4, <2>5
<1> QED BY <1>2

(* They grow. *)
LEMMA UntilGrows ==
  ASSUME NEW s, s.list \in Seq(Timer), s.remain \in [Timer -> Nat],
         NEW i \in 0 .. Len(s.list), NEW j \in i .. Len(s.list)
  PROVE  Until(s, i) <= Until(s, j)
<1> DEFINE n == Len(s.list)
           B == {v \in i .. n : ~(Until(s, i) <= Until(s, v))}
<1>1. n \in Nat /\ s.remain \in [Timer -> Int]
  OBVIOUS
<1>2. ASSUME B # {} PROVE FALSE
  <2>1. PICK v \in B : \A h \in B : v <= h
    <3>1. B \subseteq Nat
      OBVIOUS
    <3> HIDE DEF B
    <3> QED BY <1>2, <3>1, NatMin
  <2>2. v # i
    <3>1. Until(s, i) \in Int
      BY <1>1, UntilIs
    <3> QED BY <2>1, <3>1
  <2>3. PICK h \in 0 .. n : h = v - 1 /\ v \in 1 .. n /\ v \in 0 .. n /\ v = h + 1 /\ h \in i .. n
    BY <1>1, <2>1, <2>2
  <2>4. Until(s, i) <= Until(s, h)
    BY <2>1, <2>3
  <2>5. Until(s, v) = Until(s, h) + s.remain[s.list[v]]
    BY <1>1, <2>3, UntilIs
  <2>6. s.remain[s.list[v]] \in Nat
    BY <2>3
  <2>7. Until(s, i) \in Int /\ Until(s, h) \in Int
    BY <1>1, <2>3, UntilIs
  <2> QED BY <2>1, <2>4, <2>5, <2>6, <2>7
<1> QED BY <1>2

LEMMA MaxZero == ASSUME NEW x \in Int PROVE Max({0, x}) = IF x > 0 THEN x ELSE 0
<1>1. PICK y \in Int : y = IF x > 0 THEN x ELSE 0
  OBVIOUS
<1>2. y \in {0, x} /\ \A z \in {0, x} : y >= z
  BY <1>1
<1>3. \A w \in {0, x} : (\A z \in {0, x} : w >= z) => w = y
  BY <1>1
<1>4. Max({0, x}) = y
  BY <1>2, <1>3 DEF Max
<1> QED BY <1>1, <1>4

-----------------------------------------------------------------------------
(* The timers of the list with the ticks from the time base to their ends. *)

Ends(s) == {<<s.list[i], Until(s, i)>> : i \in 1 .. Len(s.list)}
Later(E, d) == {<<e[1], IF e[2] > d THEN e[2] - d ELSE 0>> : e \in E}

States == {"unused", "stopped", "running", "timeout", "completed"}
Data(s) ==
  s \in [list : Seq(Timer), base : 0 .. Wrap - 1, remain : [Timer -> Nat],
         state : [Timer -> States], dly : [Timer -> 0 .. Wrap - 1],
         period : [Timer -> 0 .. Wrap - 1], signal : BOOLEAN, drift : BOOLEAN]
Listed(s) == Data(s) /\ IsInjective(s.list)

Same(r, s) == r.state = s.state /\ r.dly = s.dly /\ r.period = s.period

LEMMA DataIs ==
  ASSUME NEW s, Data(s)
  PROVE  /\ s.list \in Seq(Timer) /\ s.base \in 0 .. Wrap - 1 /\ s.remain \in [Timer -> Nat]
         /\ s.remain \in [Timer -> Int] /\ s.state \in [Timer -> States]
         /\ s.dly \in [Timer -> 0 .. Wrap - 1] /\ s.period \in [Timer -> 0 .. Wrap - 1]
         /\ s.signal \in BOOLEAN /\ s.drift \in BOOLEAN
<1>1. /\ s.list \in Seq(Timer) /\ s.base \in 0 .. Wrap - 1 /\ s.remain \in [Timer -> Nat]
      /\ s.state \in [Timer -> States]
      /\ s.dly \in [Timer -> 0 .. Wrap - 1] /\ s.period \in [Timer -> 0 .. Wrap - 1]
      /\ s.signal \in BOOLEAN /\ s.drift \in BOOLEAN
  BY DEF Data
<1>2. s.remain \in [Timer -> Int]
  BY <1>1
<1> QED BY <1>1, <1>2

LEMMA ListedFacts ==
  ASSUME NEW s, Listed(s)
  PROVE  /\ Len(s.list) \in Nat /\ DOMAIN s.list = 1 .. Len(s.list)
         /\ s.list \in Seq(Timer)
         /\ \A i \in 1 .. Len(s.list) : s.list[i] \in Timer
         /\ \A i, j \in 1 .. Len(s.list) : s.list[i] = s.list[j] => i = j
         /\ s.remain \in [Timer -> Nat] /\ s.remain \in [Timer -> Int]
         /\ Until(s, 0) = 0
         /\ \A i \in 0 .. Len(s.list) : Until(s, i) \in Nat
         /\ \A i, j \in 0 .. Len(s.list) :
              /\ j = i + 1 => Until(s, j) = Until(s, i) + s.remain[s.list[j]]
              /\ i <= j => Until(s, i) <= Until(s, j)
<1> DEFINE n == Len(s.list)
<1>1. s.list \in Seq(Timer) /\ s.remain \in [Timer -> Nat] /\ s.remain \in [Timer -> Int]
  BY DataIs DEF Listed
<1>2. n \in Nat /\ DOMAIN s.list = 1 .. n /\ \A i \in 1 .. n : s.list[i] \in Timer
  BY <1>1
<1>3. \A i, j \in 1 .. n : s.list[i] = s.list[j] => i = j
  BY <1>2 DEF Listed, IsInjective
<1>4. Until(s, 0) = 0 /\ \A i \in 0 .. n : Until(s, i) \in Int
  BY <1>1, UntilIs
<1>5. \A i, j \in 0 .. n : j = i + 1 => Until(s, j) = Until(s, i) + s.remain[s.list[j]]
  BY <1>1, UntilIs
<1>6. ASSUME NEW i \in 0 .. n, NEW j \in 0 .. n, i <= j PROVE Until(s, i) <= Until(s, j)
  <2>1. j \in i .. n
    BY <1>2, <1>6
  <2> QED BY <1>1, <2>1, UntilGrows
<1>7. ASSUME NEW i \in 0 .. n PROVE Until(s, i) \in Nat
  <2>1. 0 \in 0 .. n /\ 0 <= i
    BY <1>2
  <2>2. 0 <= Until(s, i)
    BY <1>4, <1>6, <2>1
  <2> QED BY <1>4, <2>2
<1> QED BY <1>1, <1>2, <1>3, <1>4, <1>5, <1>6, <1>7

LEMMA EndsNat == ASSUME NEW s, Listed(s), NEW e \in Ends(s) PROVE e[1] \in ToSet(s.list) /\ e[2] \in Nat
<1>1. PICK i \in 1 .. Len(s.list) : e = <<s.list[i], Until(s, i)>>
  BY DEF Ends
<1>2. i \in 0 .. Len(s.list)
  BY ListedFacts
<1> QED BY <1>1, <1>2, ListedFacts DEF ToSet

LEMMA EndOf == ASSUME NEW s, Listed(s), NEW t \in ToSet(s.list) PROVE \E e \in Ends(s) : e[1] = t
<1>1. PICK i \in 1 .. Len(s.list) : s.list[i] = t
  BY ListedFacts DEF ToSet
<1>2. <<s.list[i], Until(s, i)>> \in Ends(s) /\ <<s.list[i], Until(s, i)>>[1] = t
  BY <1>1 DEF Ends
<1> QED BY <1>2

(* The first timer of the list is the first to end. *)
LEMMA HeadEnds ==
  ASSUME NEW s, Listed(s), s.list # <<>>
  PROVE  /\ <<Head(s.list), s.remain[Head(s.list)]>> \in Ends(s)
         /\ Head(s.list) = s.list[1] /\ s.list[1] \in Timer
         /\ \A e \in Ends(s) : s.remain[Head(s.list)] <= e[2]
<1> DEFINE n == Len(s.list)
<1>1. n \in Nat /\ n # 0 /\ Head(s.list) = s.list[1]
  BY ListedFacts
<1>2. 1 \in 1 .. n /\ 1 \in 0 .. n /\ 0 \in 0 .. n
  BY <1>1
<1>3. Until(s, 1) = Until(s, 0) + s.remain[s.list[1]] /\ Until(s, 0) = 0
  BY <1>2, ListedFacts
<1>4. s.list[1] \in Timer /\ s.remain[s.list[1]] \in Nat
  BY <1>2, ListedFacts
<1>5. Until(s, 1) = s.remain[s.list[1]]
  BY <1>3, <1>4
<1>6. ASSUME NEW e \in Ends(s) PROVE Until(s, 1) <= e[2]
  <2>1. PICK i \in 1 .. n : e = <<s.list[i], Until(s, i)>>
    BY DEF Ends
  <2>2. i \in 0 .. n /\ 1 <= i
    BY <1>1
  <2>3. Until(s, 1) <= Until(s, i)
    BY <1>2, <2>2, ListedFacts
  <2> QED BY <2>1, <2>3
<1>7. <<s.list[1], Until(s, 1)>> \in Ends(s)
  BY <1>2 DEF Ends
<1> QED BY <1>1, <1>4, <1>5, <1>6, <1>7

LEMMA EndsNone == ASSUME NEW s, Listed(s) PROVE s.list = <<>> <=> Ends(s) = {}
<1>1. ASSUME s.list = <<>> PROVE Ends(s) = {}
  <2>1. 1 .. Len(s.list) = {}
    BY <1>1
  <2> QED BY <2>1 DEF Ends
<1> QED BY <1>1, HeadEnds

-----------------------------------------------------------------------------
(* What the operations on the list do to the ends. *)

(* The elapsed ticks are taken off every end. *)
LEMMA AgeIs ==
  ASSUME NEW s, Listed(s), NEW d \in Nat, NEW r, r = Age(s, d)
  PROVE  /\ Listed(r) /\ Same(r, s) /\ r.list = s.list /\ r.base = s.base
         /\ r.signal = s.signal /\ r.drift = s.drift
         /\ Ends(r) = Later(Ends(s), d)
         /\ \A x \in Timer \ ToSet(s.list) : r.remain[x] = s.remain[x]
<1> DEFINE l == s.list  n == Len(s.list)
           Then(i) == Max({0, Until(s, i) - d})
<1>0. n \in Nat /\ DOMAIN l = 1 .. n /\ l \in Seq(Timer) /\ \A a \in 1 .. n : l[a] \in Timer
  BY ListedFacts
<1>1. PICK g : g = [t \in Timer |->
         IF t \in ToSet(l)
         THEN LET i == CHOOSE j \in DOMAIN l : l[j] = t IN Then(i) - Then(i - 1)
         ELSE s.remain[t]]
  OBVIOUS
<1>2. r = [s EXCEPT !.remain = g]
  BY <1>1 DEF Age
<1>3. ASSUME NEW i \in 0 .. n
      PROVE  Then(i) = (IF Until(s, i) > d THEN Until(s, i) - d ELSE 0) /\ Then(i) \in Nat
  <2>1. Until(s, i) \in Nat
    BY <1>3, ListedFacts
  <2>2. PICK x \in Int : x = Until(s, i) - d
    BY <2>1
  <2>3. Max({0, x}) = IF x > 0 THEN x ELSE 0
    BY MaxZero
  <2> QED BY <2>1, <2>2, <2>3
<1> HIDE DEF Then
<1>4. ASSUME NEW i \in 1 .. n PROVE g[l[i]] = Then(i) - Then(i - 1)
  <2>1. l[i] \in ToSet(l) /\ l[i] \in Timer
    BY <1>0 DEF ToSet
  <2>2. PICK j : j = CHOOSE h \in DOMAIN l : l[h] = l[i]
    OBVIOUS
  <2>3. j \in 1 .. n /\ l[j] = l[i]
    BY <1>0, <2>2
  <2>4. j = i
    BY <2>3, ListedFacts
  <2> QED BY <1>1, <2>1, <2>2, <2>4
<1>5. ASSUME NEW i \in 1 .. n PROVE g[l[i]] \in Nat
  <2>1. PICK h \in 0 .. n : h = i - 1 /\ i \in 0 .. n /\ h <= i
    BY <1>0
  <2>2. Until(s, h) <= Until(s, i) /\ Until(s, h) \in Nat /\ Until(s, i) \in Nat
    BY <2>1, ListedFacts
  <2>3. Then(h) <= Then(i) /\ Then(h) \in Nat /\ Then(i) \in Nat
    BY <1>3, <2>1, <2>2
  <2>4. g[l[i]] = Then(i) - Then(h)
    BY <1>4, <2>1
  <2> QED BY <2>3, <2>4
<1>6. g \in [Timer -> Nat]
  <2>1. ASSUME NEW t \in Timer PROVE g[t] \in Nat
    <3>1. CASE t \in ToSet(l)
      <4>1. PICK i \in 1 .. n : l[i] = t
        BY <1>0, <3>1 DEF ToSet
      <4> QED BY <1>5, <4>1
    <3>2. CASE t \notin ToSet(l)
      BY <1>1, <3>2, ListedFacts
    <3> QED BY <3>1, <3>2
  <2> QED BY <1>1, <2>1
<1>7. /\ r.list = l /\ r.remain = g /\ r.base = s.base /\ Same(r, s)
      /\ r.signal = s.signal /\ r.drift = s.drift /\ Data(r)
  BY <1>2, <1>6 DEF Listed, Data, Same
<1>8. Listed(r)
  BY <1>7 DEF Listed
<1>9. PICK u : u = [i \in 0 .. n |-> Then(i)]
  OBVIOUS
<1>10. \A i \in 0 .. n : Until(r, i) = u[i]
  <2>1. u[0] = 0
    <3>1. 0 \in 0 .. n /\ Until(s, 0) = 0
      BY <1>0, ListedFacts
    <3> QED BY <1>3, <1>9, <3>1
  <2>2. ASSUME NEW i \in 0 .. n, NEW j \in 0 .. n, j = i + 1 PROVE u[j] = u[i] + g[l[j]]
    <3>1. j \in 1 .. n /\ j - 1 = i
      BY <1>0, <2>2
    <3>2. g[l[j]] = Then(j) - Then(i)
      BY <1>4, <3>1
    <3>3. Then(j) \in Nat /\ Then(i) \in Nat
      BY <1>3
    <3> QED BY <1>9, <3>2, <3>3
  <2>3. AreSums(u, r)
    BY <1>7, <2>1, <2>2 DEF AreSums
  <2>4. r.list \in Seq(Timer) /\ r.remain \in [Timer -> Int]
    BY <1>8, ListedFacts
  <2>5. \A i \in 0 .. Len(r.list) : Until(r, i) = u[i]
    BY <2>3, <2>4, UntilAre
  <2> QED BY <1>7, <2>5
<1>11. ASSUME NEW i \in 1 .. n
       PROVE  <<l[i], Until(r, i)>> = <<l[i], IF Until(s, i) > d THEN Until(s, i) - d ELSE 0>>
  <2>1. i \in 0 .. n
    OBVIOUS
  <2> QED BY <1>3, <1>9, <1>10, <2>1
<1>12. Ends(r) = Later(Ends(s), d)
  <2>1. ASSUME NEW e \in Ends(r) PROVE e \in Later(Ends(s), d)
    <3>1. PICK i \in 1 .. n : e = <<l[i], Until(r, i)>>
      BY <1>7 DEF Ends
    <3>2. PICK f : f = <<l[i], Until(s, i)>>
      OBVIOUS
    <3>3. f \in Ends(s) /\ f[1] = l[i] /\ f[2] = Until(s, i)
      BY <3>2 DEF Ends
    <3>4. e = <<f[1], IF f[2] > d THEN f[2] - d ELSE 0>>
      BY <1>11, <3>1, <3>3
    <3> QED BY <3>3, <3>4 DEF Later
  <2>2. ASSUME NEW e \in Later(Ends(s), d) PROVE e \in Ends(r)
    <3>1. PICK f \in Ends(s) : e = <<f[1], IF f[2] > d THEN f[2] - d ELSE 0>>
      BY DEF Later
    <3>2. PICK i \in 1 .. n : f = <<l[i], Until(s, i)>>
      BY DEF Ends
    <3>3. e = <<l[i], Until(r, i)>>
      BY <1>11, <3>1, <3>2
    <3> QED BY <1>7, <3>3 DEF Ends
  <2> QED BY <2>1, <2>2
<1>13. \A x \in Timer \ ToSet(s.list) : r.remain[x] = s.remain[x]
  BY <1>1, <1>7
<1> QED BY <1>7, <1>8, <1>12, <1>13

(* Ends only depend on the list and the ticks of the timers in it. *)
LEMMA SameEnds ==
  ASSUME NEW s, Listed(s), NEW r, Listed(r), r.list = s.list,
         \A x \in ToSet(s.list) : r.remain[x] = s.remain[x]
  PROVE  Ends(r) = Ends(s)
<1> DEFINE n == Len(s.list)
<1>0. n \in Nat /\ r.list \in Seq(Timer) /\ r.remain \in [Timer -> Int] /\ DOMAIN s.list = 1 .. n
  BY ListedFacts
<1>1. PICK u : u = [i \in 0 .. n |-> Until(s, i)]
  OBVIOUS
<1>2. ASSUME NEW i \in 0 .. n, NEW j \in 0 .. n, j = i + 1 PROVE u[j] = u[i] + r.remain[r.list[j]]
  <2>1. j \in 1 .. n
    BY <1>0, <1>2
  <2>2. s.list[j] \in ToSet(s.list)
    BY <1>0, <2>1 DEF ToSet
  <2>3. Until(s, j) = Until(s, i) + s.remain[s.list[j]]
    BY <1>2, ListedFacts
  <2> QED BY <1>1, <2>2, <2>3
<1>3. u[0] = 0
  BY <1>0, <1>1, ListedFacts
<1>4. AreSums(u, r)
  BY <1>2, <1>3 DEF AreSums
<1>5. \A i \in 0 .. n : Until(r, i) = Until(s, i)
  BY <1>0, <1>1, <1>4, UntilAre
<1>6. \A i \in 1 .. n : <<r.list[i], Until(r, i)>> = <<s.list[i], Until(s, i)>>
  BY <1>0, <1>5
<1> QED BY <1>6 DEF Ends

(* No other timer ends sooner or later because one leaves the list. *)
LEMMA WithoutIs ==
  ASSUME NEW s, Listed(s), NEW t \in ToSet(s.list), NEW r, r = Without(s, t)
  PROVE  /\ Listed(r) /\ Same(r, s) /\ r.base = s.base
         /\ r.signal = s.signal /\ r.drift = s.drift
         /\ Ends(r) = {e \in Ends(s) : e[1] # t}
         /\ ToSet(r.list) = ToSet(s.list) \ {t}
         /\ \A x \in Timer \ ToSet(s.list) : r.remain[x] = s.remain[x]
<1> DEFINE l == s.list  n == Len(s.list)
<1>0. n \in Nat /\ DOMAIN l = 1 .. n /\ l \in Seq(Timer) /\ t \in Timer
  BY ListedFacts DEF ToSet
<1>1. PICK i \in 1 .. n : i = CHOOSE j \in DOMAIN l : l[j] = t
  BY <1>0 DEF ToSet
<1>2. l[i] = t /\ \A a \in 1 .. n : l[a] \in Timer /\ (a # i => l[a] # t)
  <2>1. \E j \in DOMAIN l : l[j] = t
    BY <1>0 DEF ToSet
  <2>2. l[i] = t
    BY <1>1, <2>1
  <2> QED BY <1>0, <2>2, ListedFacts
<1>3. PICK h \in 0 .. n : h = i - 1 /\ i = h + 1 /\ i \in 0 .. n
  BY <1>0
<1>4. PICK q : q = RemoveAt(l, i)
  OBVIOUS
<1>5. /\ q \in Seq(Timer) /\ Len(q) = n - 1
      /\ \A a \in 1 .. n - 1, b \in 1 .. n :
           (a < i /\ b = a => q[a] = l[b]) /\ (a >= i /\ b = a + 1 => q[a] = l[b])
  <2>1. l \in Seq(Timer) /\ i \in 1 .. Len(l)
    BY <1>0
  <2>2. /\ RemoveAt(l, i) \in Seq(Timer) /\ Len(RemoveAt(l, i)) = Len(l) - 1
        /\ \A a \in 1 .. Len(l) - 1, b \in 1 .. Len(l) :
             /\ a < i /\ b = a => RemoveAt(l, i)[a] = l[b]
             /\ a >= i /\ b = a + 1 => RemoveAt(l, i)[a] = l[b]
    <3> HIDE DEF l
    <3> QED BY <2>1, Removed
  <2> QED BY <1>4, <2>2
<1>6. PICK g : g = IF i = n THEN s.remain ELSE [s.remain EXCEPT ![l[i + 1]] = @ + s.remain[t]]
  OBVIOUS
<1>7. r = [s EXCEPT !.list = q, !.remain = g]
  <2>1. Without(s, t) =
          LET y == CHOOSE j \in DOMAIN l : l[j] = t
          IN  [s EXCEPT !.list = RemoveAt(@, y),
                        !.remain = IF y = n THEN s.remain
                                   ELSE [s.remain EXCEPT ![l[y + 1]] = @ + s.remain[t]]]
    BY DEF Without
  <2>2. Without(s, t) =
          [s EXCEPT !.list = RemoveAt(@, i),
                    !.remain = IF i = n THEN s.remain
                               ELSE [s.remain EXCEPT ![l[i + 1]] = @ + s.remain[t]]]
    BY <1>1, <2>1
  <2> QED BY <1>4, <1>6, <2>2
<1>8. s.remain \in [Timer -> Nat] /\ s.remain[t] \in Nat
  BY <1>0, ListedFacts
<1>9. /\ g \in [Timer -> Nat] /\ \A x \in Timer \ ToSet(l) : g[x] = s.remain[x]
      /\ \A a \in 1 .. n : a # i =>
           IF a = i + 1 THEN g[l[a]] = Until(s, a) - Until(s, h) ELSE g[l[a]] = s.remain[l[a]]
  <2>1. CASE i = n
    BY <1>0, <1>6, <1>8, <2>1
  <2>2. CASE i < n
    <3>1. PICK p \in 1 .. n : p = i + 1 /\ p \in 0 .. n /\ p # i
      BY <1>0, <2>2
    <3>2. g = [s.remain EXCEPT ![l[p]] = @ + s.remain[t]]
      BY <1>6, <2>2, <3>1
    <3>3. Until(s, i) = Until(s, h) + s.remain[t] /\ Until(s, p) = Until(s, i) + s.remain[l[p]]
      BY <1>2, <1>3, <3>1, ListedFacts
    <3>4. Until(s, i) \in Nat /\ Until(s, h) \in Nat /\ Until(s, p) \in Nat
      BY <1>3, <3>1, ListedFacts
    <3>5. l[p] \in Timer /\ s.remain[l[p]] \in Nat /\ l[p] \in ToSet(l)
      BY <1>0, <1>2, <1>8, <3>1 DEF ToSet
    <3>6. g \in [Timer -> Nat] /\ g[l[p]] = s.remain[l[p]] + s.remain[t]
      BY <1>8, <3>2, <3>5
    <3>7. g[l[p]] = Until(s, p) - Until(s, h)
      <4>1. PICK x \in Nat, y \in Nat, z \in Nat, v \in Nat, w \in Nat :
              /\ x = s.remain[l[p]] /\ y = s.remain[t] /\ z = Until(s, h)
              /\ v = Until(s, p) /\ w = Until(s, i)
        BY <1>8, <3>4, <3>5
      <4>2. w = z + y
        BY <3>3, <4>1
      <4>3. v = w + x
        BY <3>3, <4>1
      <4>4. g[l[p]] = x + y
        BY <3>6, <4>1
      <4>5. x + y = v - z
        <5>1. \A c, d, e, f \in Nat : c = d + e + f => f + e = c - d
          OBVIOUS
        <5>2. v = z + y + x
          BY <4>2, <4>3
        <5> QED BY <5>1, <5>2
      <4> QED BY <4>1, <4>4, <4>5
    <3>8. ASSUME NEW a \in 1 .. n, a # i, a # p PROVE g[l[a]] = s.remain[l[a]]
      <4>1. l[a] # l[p] /\ l[a] \in Timer
        BY <1>2, <3>1, <3>8, ListedFacts
      <4> QED BY <1>8, <3>2, <4>1
    <3>9. \A x \in Timer \ ToSet(l) : g[x] = s.remain[x]
      BY <1>8, <3>2, <3>5
    <3> QED BY <3>1, <3>6, <3>7, <3>8, <3>9
  <2> QED BY <1>0, <2>1, <2>2
<1>10. /\ r.list = q /\ r.remain = g /\ r.base = s.base /\ Same(r, s)
       /\ r.signal = s.signal /\ r.drift = s.drift /\ Data(r)
  BY <1>5, <1>7, <1>9 DEF Listed, Data, Same
<1>11. PICK u : \A j \in 0 .. n - 1 : /\ j < i => u[j] = Until(s, j)
                                      /\ \A b \in 0 .. n : j >= i /\ b = j + 1 => u[j] = Until(s, b)
  <2> DEFINE u == [j \in 0 .. n - 1 |-> IF j < i THEN Until(s, j) ELSE Until(s, j + 1)]
  <2>1. ASSUME NEW j \in 0 .. n - 1, j < i PROVE u[j] = Until(s, j)
    BY <2>1
  <2>2. ASSUME NEW j \in 0 .. n - 1, NEW b \in 0 .. n, j >= i, b = j + 1 PROVE u[j] = Until(s, b)
    <3>1. ~(j < i)
      BY <1>0, <2>2
    <3> QED BY <2>2, <3>1
  <2> HIDE DEF u
  <2> QED BY <2>1, <2>2
<1>12. ASSUME NEW a \in 0 .. n - 1, NEW b \in 0 .. n - 1, b = a + 1
       PROVE  u[b] = u[a] + g[q[b]]
  <2>1. CASE b < i
    <3>1. b \in 1 .. n /\ b \in 1 .. n - 1 /\ a \in 0 .. n /\ b \in 0 .. n /\ b # i /\ b # i + 1 /\ a < i
      BY <1>0, <1>12, <2>1
    <3>2. q[b] = l[b] /\ g[l[b]] = s.remain[l[b]]
      BY <1>5, <1>9, <2>1, <3>1
    <3>3. Until(s, b) = Until(s, a) + s.remain[l[b]]
      BY <1>12, <3>1, ListedFacts
    <3>4. u[b] = Until(s, b) /\ u[a] = Until(s, a)
      BY <1>11, <1>12, <2>1, <3>1
    <3> QED BY <3>2, <3>3, <3>4
  <2>2. CASE b = i
    <3>1. PICK p \in 1 .. n : p = b + 1 /\ p \in 0 .. n /\ p # i /\ p = i + 1 /\ b \in 1 .. n - 1
      BY <1>0, <1>12, <2>2
    <3>2. q[b] = l[p] /\ g[l[p]] = Until(s, p) - Until(s, h)
      BY <1>5, <1>9, <2>2, <3>1
    <3>3. u[b] = Until(s, p)
      BY <1>11, <2>2, <3>1
    <3>4. a = h /\ a < i /\ u[a] = Until(s, h)
      <4>1. a = h /\ a < i
        BY <1>3, <1>12, <2>2
      <4> QED BY <1>11, <4>1
    <3>5. Until(s, h) \in Nat /\ Until(s, p) \in Nat
      BY <3>1, ListedFacts
    <3> QED BY <3>2, <3>3, <3>4, <3>5
  <2>3. CASE b > i
    <3>1. PICK p \in 1 .. n : p = b + 1 /\ p \in 0 .. n /\ p # i /\ p # i + 1 /\ b \in 1 .. n - 1
      BY <1>0, <1>12, <2>3
    <3>2. b \in 0 .. n /\ b >= i /\ a >= i
      BY <1>0, <1>12, <2>3, <3>1
    <3>3. q[b] = l[p] /\ g[l[p]] = s.remain[l[p]]
      BY <1>5, <1>9, <3>1, <3>2
    <3>4. u[b] = Until(s, p) /\ u[a] = Until(s, b)
      BY <1>11, <1>12, <3>1, <3>2
    <3>5. Until(s, p) = Until(s, b) + s.remain[l[p]]
      BY <3>1, <3>2, ListedFacts
    <3> QED BY <3>3, <3>4, <3>5
  <2> QED BY <1>0, <2>1, <2>2, <2>3
<1>13. \A j \in 0 .. n - 1 : Until(r, j) = u[j]
  <2>1. u[0] = 0
    <3>1. 0 \in 0 .. n - 1 /\ 0 < i
      BY <1>0
    <3> QED BY <1>11, <3>1, ListedFacts
  <2>2. r.list \in Seq(Timer) /\ r.remain \in [Timer -> Int] /\ Len(r.list) = n - 1
    BY <1>5, <1>10, DataIs
  <2>3. \A a, b \in 0 .. Len(r.list) : b = a + 1 => u[b] = u[a] + r.remain[r.list[b]]
    BY <1>10, <1>12, <2>2
  <2>4. \A j \in 0 .. Len(r.list) : Until(r, j) = u[j]
    <3>1. AreSums(u, r)
      BY <2>1, <2>3 DEF AreSums
    <3> QED BY <2>2, <3>1, UntilAre
  <2> QED BY <2>2, <2>4
<1>14. ASSUME NEW j \in 1 .. n - 1
       PROVE  \E b \in 1 .. n : /\ IF j < i THEN b = j ELSE b = j + 1
                                /\ b # i /\ q[j] = l[b] /\ Until(r, j) = Until(s, b)
  <2>0. j \in 0 .. n - 1
    BY <1>0
  <2>1. CASE j < i
    <3>1. j \in 1 .. n /\ j # i
      BY <1>0, <2>1
    <3>2. q[j] = l[j] /\ Until(r, j) = Until(s, j)
      BY <1>5, <1>11, <1>13, <2>0, <2>1, <3>1
    <3> QED BY <2>1, <3>1, <3>2
  <2>2. CASE ~(j < i)
    <3>1. PICK b \in 1 .. n : b = j + 1 /\ b # i /\ j >= i /\ b \in 0 .. n
      BY <1>0, <2>2
    <3>2. q[j] = l[b] /\ Until(r, j) = Until(s, b)
      BY <1>5, <1>11, <1>13, <2>0, <3>1
    <3> QED BY <2>2, <3>1, <3>2
  <2> QED BY <2>1, <2>2
<1>15. ASSUME NEW b \in 1 .. n, b # i
       PROVE  \E j \in 1 .. n - 1 : q[j] = l[b] /\ Until(r, j) = Until(s, b)
  <2>1. PICK j \in 1 .. n - 1 : IF j < i THEN b = j ELSE b = j + 1
    <3>1. CASE b < i
      <4>1. b \in 1 .. n - 1
        BY <1>0, <3>1
      <4> QED BY <3>1, <4>1
    <3>2. CASE b > i
      <4>1. b - 1 \in 1 .. n - 1 /\ ~(b - 1 < i) /\ b = (b - 1) + 1
        BY <1>0, <3>2
      <4> QED BY <4>1
    <3> QED BY <1>0, <1>15, <3>1, <3>2
  <2> QED BY <1>14, <2>1
<1>16. Ends(r) = {e \in Ends(s) : e[1] # t}
  <2>1. Len(r.list) = n - 1 /\ r.list = q
    BY <1>5, <1>10
  <2>2. ASSUME NEW e \in Ends(r) PROVE e \in {x \in Ends(s) : x[1] # t}
    <3>1. PICK j \in 1 .. n - 1 : e = <<q[j], Until(r, j)>>
      BY <2>1, <2>2 DEF Ends
    <3>2. PICK b \in 1 .. n : b # i /\ q[j] = l[b] /\ Until(r, j) = Until(s, b)
      BY <1>14
    <3>3. e = <<l[b], Until(s, b)>> /\ e[1] # t
      BY <1>2, <3>1, <3>2
    <3> QED BY <3>3 DEF Ends
  <2>3. ASSUME NEW e \in Ends(s), e[1] # t PROVE e \in Ends(r)
    <3>1. PICK b \in 1 .. n : e = <<l[b], Until(s, b)>>
      BY <2>3 DEF Ends
    <3>2. b # i
      BY <1>2, <2>3, <3>1
    <3>3. PICK j \in 1 .. n - 1 : q[j] = l[b] /\ Until(r, j) = Until(s, b)
      BY <1>15, <3>2
    <3> QED BY <2>1, <3>1, <3>3 DEF Ends
  <2> QED BY <2>2, <2>3
<1>17. DOMAIN q = 1 .. n - 1
  BY <1>0, <1>5
<1>18. ToSet(r.list) = ToSet(s.list) \ {t}
  <2>1. ASSUME NEW x \in ToSet(q) PROVE x \in ToSet(l) \ {t}
    <3>1. PICK j \in 1 .. n - 1 : q[j] = x
      BY <1>17, <2>1 DEF ToSet
    <3> QED BY <1>0, <1>2, <1>14, <3>1 DEF ToSet
  <2>2. ASSUME NEW x \in ToSet(l), x # t PROVE x \in ToSet(q)
    <3>1. PICK b \in 1 .. n : l[b] = x
      BY <1>0, <2>2 DEF ToSet
    <3> QED BY <1>2, <1>15, <1>17, <2>2, <3>1 DEF ToSet
  <2> QED BY <1>10, <2>1, <2>2
<1>19. IsInjective(q)
  <2>1. ASSUME NEW a \in 1 .. n - 1, NEW b \in 1 .. n - 1, q[a] = q[b] PROVE a = b
    <3>1. PICK c \in 1 .. n : q[a] = l[c] /\ IF a < i THEN c = a ELSE c = a + 1
      BY <1>14
    <3>2. PICK d \in 1 .. n : q[b] = l[d] /\ IF b < i THEN d = b ELSE d = b + 1
      BY <1>14
    <3>3. c = d
      BY <2>1, <3>1, <3>2, ListedFacts
    <3> QED BY <1>0, <3>1, <3>2, <3>3
  <2> QED BY <1>17, <2>1 DEF IsInjective
<1> QED BY <1>9, <1>10, <1>16, <1>18, <1>19 DEF Listed

(* Nor does one that is linked make another end sooner or later. *)
Joined(r, s, t, E) ==
  /\ Listed(r) /\ Same(r, s) /\ r.drift = s.drift
  /\ Ends(r) = E /\ ToSet(r.list) = ToSet(s.list) \cup {t}
  /\ \A x \in Timer \ ToSet(r.list) : r.remain[x] = s.remain[x]

Fits(s, t, i, delta) ==
  /\ Listed(s) /\ t \in Timer \ ToSet(s.list) /\ delta \in Nat /\ i \in 1 .. Len(s.list) + 1
  /\ \A j \in 1 .. Len(s.list) : j < i => Until(s, j) <= delta
  /\ i <= Len(s.list) => delta < Until(s, i)

LEMMA LinkAtIs ==
  ASSUME NEW s, NEW t, NEW delta, NEW i, Fits(s, t, i, delta), NEW r, r = LinkAt(s, t, i, delta)
  PROVE  /\ Joined(r, s, t, Ends(s) \cup {<<t, delta>>})
         /\ r.base = s.base /\ r.signal = s.signal
<1> DEFINE l == s.list  n == Len(s.list)
<1>fits. /\ Listed(s) /\ t \in Timer \ ToSet(s.list) /\ delta \in Nat /\ i \in 1 .. Len(s.list) + 1
         /\ \A j \in 1 .. Len(s.list) : j < i => Until(s, j) <= delta
         /\ i <= Len(s.list) => delta < Until(s, i)
  BY DEF Fits
<1> USE <1>fits
<1>0. n \in Nat /\ DOMAIN l = 1 .. n /\ l \in Seq(Timer)
  BY ListedFacts
<1>2. PICK h \in 0 .. n : h = i - 1
  BY <1>0
<1>3. PICK own \in Nat : own = delta - Until(s, h)
  <2>1. Until(s, h) \in Nat /\ Until(s, 0) = 0
    BY ListedFacts
  <2>2. h # 0 => h \in 1 .. n /\ h < i
    BY <1>0, <1>2
  <2>3. Until(s, h) <= delta
    BY <1>0, <2>1, <2>2
  <2> QED BY <1>0, <2>1, <2>3
<1>4. PICK q : q = InsertAt(l, i, t)
  OBVIOUS
<1>5. /\ q \in Seq(Timer) /\ Len(q) = n + 1 /\ q[i] = t
      /\ \A a \in 1 .. n + 1, b \in 1 .. n :
           (a < i /\ b = a => q[a] = l[b]) /\ (a > i /\ a = b + 1 => q[a] = l[b])
  <2>1. l \in Seq(Timer) /\ t \in Timer /\ i \in 1 .. Len(l) + 1
    BY <1>0
  <2> HIDE DEF l
  <2>2. /\ InsertAt(l, i, t) \in Seq(Timer) /\ Len(InsertAt(l, i, t)) = Len(l) + 1
        /\ \A a \in 1 .. Len(l) + 1, b \in 1 .. Len(l) :
             /\ a < i /\ b = a => InsertAt(l, i, t)[a] = l[b]
             /\ a = i => InsertAt(l, i, t)[a] = t
             /\ a > i /\ a = b + 1 => InsertAt(l, i, t)[a] = l[b]
        /\ InsertAt(l, i, t)[i] = t
    BY ONLY <2>1, Inserted
  <2>3. n = Len(l)
    BY DEF l
  <2> QED BY <1>4, <2>2, <2>3
<1>6. PICK f : f = [s.remain EXCEPT ![t] = own]
  OBVIOUS
<1>7. PICK g : g = IF i > n THEN f ELSE [f EXCEPT ![l[i]] = @ - own]
  OBVIOUS
<1>8. r = [s EXCEPT !.list = q, !.remain = g]
  <2>1. own = delta - Until(s, i - 1)
    BY <1>2, <1>3
  <2> QED BY <1>4, <1>6, <1>7, <2>1 DEF LinkAt
<1>9. \A a \in 1 .. n : l[a] \in Timer /\ l[a] # t /\ l[a] \in ToSet(l)
  BY <1>0 DEF ToSet
<1>10. s.remain \in [Timer -> Nat]
  BY ListedFacts
<1>11. /\ g \in [Timer -> Nat] /\ g[t] = own
       /\ \A a \in 1 .. n : g[l[a]] = IF a = i THEN Until(s, i) - delta ELSE s.remain[l[a]]
       /\ \A x \in Timer \ ToSet(l) : x # t => g[x] = s.remain[x]
  <2>2. /\ f \in [Timer -> Nat] /\ f[t] = own /\ \A a \in 1 .. n : f[l[a]] = s.remain[l[a]]
        /\ \A x \in Timer : x # t => f[x] = s.remain[x]
    BY <1>6, <1>9, <1>10
  <2>3. CASE i > n
    BY <1>7, <2>2, <2>3
  <2>4. CASE i <= n
    <3>1. i \in 1 .. n /\ i \in 0 .. n /\ i = h + 1 /\ g = [f EXCEPT ![l[i]] = @ - own]
      BY <1>0, <1>2, <1>7, <2>4
    <3>2. Until(s, i) = Until(s, h) + s.remain[l[i]]
      BY <3>1, ListedFacts
    <3>3. Until(s, i) \in Nat /\ Until(s, h) \in Nat /\ delta < Until(s, i)
      BY <3>1, ListedFacts
    <3>4. s.remain[l[i]] \in Nat /\ l[i] \in Timer /\ l[i] # t
      BY <1>9, <1>10, <3>1
    <3>5. s.remain[l[i]] - own = Until(s, i) - delta /\ Until(s, i) - delta \in Nat
      <4>1. \A c, d, e \in Nat : c = d + e => e - (delta - d) = c - delta
        OBVIOUS
      <4>2. s.remain[l[i]] - (delta - Until(s, h)) = Until(s, i) - delta
        BY <3>2, <3>3, <3>4, <4>1
      <4> QED BY <1>3, <3>3, <4>2
    <3>6. g \in [Timer -> Nat] /\ g[t] = own /\ g[l[i]] = Until(s, i) - delta
      <4>1. f[l[i]] = s.remain[l[i]]
        BY <2>2, <3>1
      <4>2. g = [f EXCEPT ![l[i]] = Until(s, i) - delta]
        BY <2>2, <3>1, <3>4, <3>5, <4>1
      <4> QED BY <2>2, <3>4, <3>5, <4>2
    <3>7. ASSUME NEW a \in 1 .. n, a # i PROVE g[l[a]] = s.remain[l[a]]
      <4>1. l[a] # l[i]
        BY <3>1, <3>7, ListedFacts
      <4> QED BY <1>9, <2>2, <3>1, <4>1
    <3>8. \A x \in Timer \ ToSet(l) : x # t => g[x] = s.remain[x]
      BY <1>9, <2>2, <3>1
    <3> QED BY <3>6, <3>7, <3>8
  <2> QED BY <1>0, <2>3, <2>4
<1>12. /\ r.list = q /\ r.remain = g /\ r.base = s.base /\ Same(r, s)
       /\ r.signal = s.signal /\ r.drift = s.drift /\ Data(r)
  BY <1>5, <1>8, <1>11 DEF Listed, Data, Same
<1>13. PICK u : \A j \in 0 .. n + 1 : /\ j < i => u[j] = Until(s, j)
                                      /\ j = i => u[j] = delta
                                      /\ \A b \in 0 .. n : j > i /\ j = b + 1 => u[j] = Until(s, b)
  <2> DEFINE u == [j \in 0 .. n + 1 |-> IF j < i THEN Until(s, j) ELSE IF j = i THEN delta
                                        ELSE Until(s, j - 1)]
  <2>1. ASSUME NEW j \in 0 .. n + 1
        PROVE  /\ j < i => u[j] = Until(s, j)
               /\ j = i => u[j] = delta
    OBVIOUS
  <2>2. ASSUME NEW j \in 0 .. n + 1, NEW b \in 0 .. n, j > i, j = b + 1 PROVE u[j] = Until(s, b)
    <3>1. j - 1 = b /\ ~(j < i) /\ j # i
      BY <1>0, <2>2
    <3> QED BY <3>1
  <2> HIDE DEF u
  <2> QED BY <2>1, <2>2
<1>14. ASSUME NEW a \in 0 .. n + 1, NEW b \in 0 .. n + 1, b = a + 1
       PROVE  u[b] = u[a] + g[q[b]]
  <2>1. CASE b < i
    <3>1. b \in 1 .. n /\ b \in 1 .. n + 1 /\ a \in 0 .. n /\ b \in 0 .. n /\ b # i
      BY <1>0, <1>14, <2>1
    <3>2. q[b] = l[b] /\ g[l[b]] = s.remain[l[b]]
      BY <1>5, <1>11, <2>1, <3>1
    <3>3. Until(s, b) = Until(s, a) + s.remain[l[b]]
      BY <1>14, <3>1, ListedFacts
    <3>4. u[b] = Until(s, b) /\ u[a] = Until(s, a)
      BY <1>13, <1>14, <2>1
    <3> QED BY <3>2, <3>3, <3>4
  <2>2. CASE b = i
    <3>1. a = h /\ u[a] = Until(s, h) /\ u[b] = delta
      <4>1. a = h /\ a < i
        BY <1>2, <1>14, <2>2
      <4> QED BY <1>13, <2>2, <4>1
    <3>2. g[q[b]] = own
      BY <1>5, <1>11, <2>2
    <3>3. Until(s, h) \in Nat
      BY ListedFacts
    <3> QED BY <1>3, <3>1, <3>2, <3>3
  <2>3. CASE b = i + 1
    <3>1. a = i /\ i \in 1 .. n /\ i \in 0 .. n /\ b \in 1 .. n + 1 /\ b > i /\ b - 1 = i
      BY <1>0, <1>14, <2>3
    <3>2. q[b] = l[i] /\ g[l[i]] = Until(s, i) - delta
      BY <1>5, <1>11, <1>14, <3>1
    <3>3. u[a] = delta /\ u[b] = Until(s, i)
      BY <1>13, <1>14, <3>1
    <3>4. Until(s, i) \in Nat
      BY <3>1, ListedFacts
    <3> QED BY <3>2, <3>3, <3>4
  <2>4. CASE b > i + 1
    <3>1. PICK c \in 0 .. n : c = a - 1 /\ a > i
      BY <1>0, <1>14, <2>4
    <3>2. a \in 1 .. n /\ a \in 0 .. n /\ a = c + 1 /\ b \in 1 .. n + 1 /\ b > i /\ a # i /\ b - 1 = a
      BY <1>0, <1>14, <3>1
    <3>3. q[b] = l[a] /\ g[l[a]] = s.remain[l[a]]
      BY <1>5, <1>11, <1>14, <3>2
    <3>4. Until(s, a) = Until(s, c) + s.remain[l[a]]
      BY <3>2, ListedFacts
    <3>5. u[b] = Until(s, a) /\ u[a] = Until(s, c)
      BY <1>13, <1>14, <3>1, <3>2
    <3> QED BY <3>3, <3>4, <3>5
  <2> QED BY <1>0, <2>1, <2>2, <2>3, <2>4
<1>15. \A j \in 0 .. n + 1 : Until(r, j) = u[j]
  <2>1. u[0] = 0
    <3>1. 0 \in 0 .. n + 1 /\ 0 < i
      BY <1>0
    <3> QED BY <1>13, <3>1, ListedFacts
  <2>2. r.list \in Seq(Timer) /\ r.remain \in [Timer -> Int] /\ Len(r.list) = n + 1
    BY <1>5, <1>12, DataIs
  <2>3. \A a, b \in 0 .. Len(r.list) : b = a + 1 => u[b] = u[a] + r.remain[r.list[b]]
    BY <1>12, <1>14, <2>2
  <2>4. \A j \in 0 .. Len(r.list) : Until(r, j) = u[j]
    <3>1. AreSums(u, r)
      BY <2>1, <2>3 DEF AreSums
    <3> QED BY <2>2, <3>1, UntilAre
  <2> QED BY <2>2, <2>4
<1>16. ASSUME NEW j \in 1 .. n + 1, j # i
       PROVE  \E b \in 1 .. n : /\ IF j < i THEN j = b ELSE j = b + 1
                                /\ q[j] = l[b] /\ Until(r, j) = Until(s, b)
  <2>0. j \in 0 .. n + 1
    BY <1>0
  <2>1. CASE j < i
    <3>1. j \in 1 .. n /\ q[j] = l[j] /\ Until(r, j) = Until(s, j)
      BY <1>0, <1>5, <1>13, <1>15, <2>0, <2>1, SMTT(20)
    <3> QED BY <2>1, <3>1
  <2>2. CASE j > i
    <3>1. PICK b \in 1 .. n : j = b + 1 /\ b = j - 1 /\ b \in 0 .. n
      BY <1>0, <2>2
    <3>2. q[j] = l[b] /\ Until(r, j) = Until(s, b)
      BY <1>5, <1>13, <1>15, <2>0, <2>2, <3>1
    <3> QED BY <1>0, <2>2, <3>1, <3>2
  <2> QED BY <1>0, <1>16, <2>1, <2>2
<1>17. ASSUME NEW b \in 1 .. n
       PROVE  \E j \in 1 .. n + 1 : q[j] = l[b] /\ Until(r, j) = Until(s, b)
  <2>1. PICK j \in 1 .. n + 1 : j # i /\ IF b < i THEN j = b ELSE j = b + 1 /\ j > i
    <3>1. CASE b < i
      <4>1. b \in 1 .. n + 1
        BY <1>0
      <4> QED BY <3>1, <4>1
    <3>2. CASE ~(b < i)
      <4>1. b + 1 \in 1 .. n + 1 /\ b + 1 > i
        BY <1>0, <3>2
      <4> QED BY <3>2, <4>1
    <3> QED BY <3>1, <3>2
  <2>2. PICK c \in 1 .. n : /\ IF j < i THEN j = c ELSE j = c + 1
                            /\ q[j] = l[c] /\ Until(r, j) = Until(s, c)
    BY <1>16, <2>1
  <2>3. c = b
    BY <1>0, <2>1, <2>2
  <2> QED BY <2>2, <2>3
<1>18. Until(r, i) = delta
  BY <1>0, <1>13, <1>15
<1>19. Ends(r) = Ends(s) \cup {<<t, delta>>}
  <2>1. Len(r.list) = n + 1 /\ r.list = q
    BY <1>5, <1>12
  <2>2. ASSUME NEW e \in Ends(r) PROVE e \in Ends(s) \cup {<<t, delta>>}
    <3>1. PICK j \in 1 .. n + 1 : e = <<q[j], Until(r, j)>>
      BY <2>1, <2>2 DEF Ends
    <3>2. CASE j = i
      BY <1>5, <1>18, <3>1, <3>2
    <3>3. CASE j # i
      <4>1. PICK b \in 1 .. n : q[j] = l[b] /\ Until(r, j) = Until(s, b)
        BY <1>16, <3>3
      <4> QED BY <3>1, <4>1 DEF Ends
    <3> QED BY <3>2, <3>3
  <2>3. ASSUME NEW e \in Ends(s) PROVE e \in Ends(r)
    <3>1. PICK b \in 1 .. n : e = <<l[b], Until(s, b)>>
      BY <2>3 DEF Ends
    <3>2. PICK j \in 1 .. n + 1 : q[j] = l[b] /\ Until(r, j) = Until(s, b)
      BY <1>17
    <3> QED BY <2>1, <3>1, <3>2 DEF Ends
  <2>4. <<t, delta>> \in Ends(r)
    <3>1. <<t, delta>> = <<q[i], Until(r, i)>>
      BY <1>5, <1>18
    <3> QED BY <2>1, <3>1 DEF Ends
  <2> QED BY <2>2, <2>3, <2>4
<1>20. DOMAIN q = 1 .. n + 1
  BY <1>0, <1>5
<1>21. ToSet(r.list) = ToSet(s.list) \cup {t}
  <2>1. ASSUME NEW x \in ToSet(q) PROVE x \in ToSet(l) \cup {t}
    <3>1. PICK j \in 1 .. n + 1 : q[j] = x
      BY <1>20, <2>1 DEF ToSet
    <3> QED BY <1>5, <1>9, <1>16, <3>1
  <2>2. ASSUME NEW x \in ToSet(l) PROVE x \in ToSet(q)
    <3>1. PICK b \in 1 .. n : l[b] = x
      BY <1>0, <2>2 DEF ToSet
    <3> QED BY <1>17, <1>20, <3>1 DEF ToSet
  <2>3. t \in ToSet(q)
    BY <1>0, <1>5, <1>20 DEF ToSet
  <2> QED BY <1>12, <2>1, <2>2, <2>3
<1>22. IsInjective(q)
  <2>1. ASSUME NEW a \in 1 .. n + 1, NEW b \in 1 .. n + 1, q[a] = q[b] PROVE a = b
    <3>1. CASE a = i
      <4>1. b # i => FALSE
        BY <1>5, <1>9, <1>16, <2>1, <3>1
      <4> QED BY <3>1, <4>1
    <3>2. CASE b = i
      <4>1. a # i => FALSE
        BY <1>5, <1>9, <1>16, <2>1, <3>2
      <4> QED BY <3>2, <4>1
    <3>3. CASE a # i /\ b # i
      <4>1. PICK c \in 1 .. n : q[a] = l[c] /\ IF a < i THEN a = c ELSE a = c + 1
        BY <1>16, <3>3
      <4>2. PICK d \in 1 .. n : q[b] = l[d] /\ IF b < i THEN b = d ELSE b = d + 1
        BY <1>16, <3>3
      <4>3. c = d
        BY <2>1, <4>1, <4>2, ListedFacts
      <4> QED BY <1>0, <3>3, <4>1, <4>2, <4>3
    <3> QED BY <3>1, <3>2, <3>3
  <2> QED BY <1>20, <2>1 DEF IsInjective
<1> QED BY <1>11, <1>12, <1>19, <1>21, <1>22 DEF Listed, Joined

LEMMA Fronted ==
  ASSUME NEW S, NEW q \in Seq(S), NEW e \in S
  PROVE  /\ <<e>> \o q \in Seq(S) /\ Len(<<e>> \o q) = Len(q) + 1 /\ (<<e>> \o q)[1] = e
         /\ \A a \in 1 .. Len(q) + 1, b \in 1 .. Len(q) : a = b + 1 => (<<e>> \o q)[a] = q[b]
<1>0. <<e>> \in Seq(S) /\ Len(<<e>>) = 1 /\ <<e>>[1] = e
  OBVIOUS
<1>1. PICK c \in Seq(S) : c = <<e>> /\ Len(c) = 1 /\ c[1] = e
  BY <1>0
<1>2. c \o q \in Seq(S) /\ Len(c \o q) = 1 + Len(q) /\ Len(q) \in Nat
  BY <1>1
<1>3. (c \o q)[1] = e
  BY <1>1
<1>4. ASSUME NEW a \in 1 .. Len(q) + 1, NEW b \in 1 .. Len(q), a = b + 1 PROVE (c \o q)[a] = q[b]
  BY <1>1, <1>4
<1> QED BY <1>1, <1>2, <1>3, <1>4

(* A timer that ends before all others becomes the head, and the time base    *)
(* moves by d ticks. *)
Precedes(s, t, time, d, delta) ==
  /\ Listed(s) /\ time \in 0 .. Wrap - 1 /\ t \in Timer \ ToSet(s.list) /\ s.list # <<>> /\ d \in Nat
  /\ delta \in Nat /\ delta = s.remain[t] + d /\ delta < Until(s, 1)

Ahead(s, t, time) == [s EXCEPT !.base = time, !.list = <<t>> \o @, !.signal = TRUE]
AheadOf(s, t, time, delta) == [Ahead(s, t, time) EXCEPT !.remain[s.list[1]] = @ - delta]

LEMMA FirstIs ==
  ASSUME NEW s, NEW t, NEW time, NEW d, NEW delta, Precedes(s, t, time, d, delta),
         NEW r, r = AheadOf(s, t, time, delta)
  PROVE  /\ Joined(r, s, t, Later(Ends(s), d) \cup {<<t, s.remain[t]>>})
         /\ r.base = time /\ r.signal
<1> DEFINE l == s.list  n == Len(s.list)
<1>first. /\ Listed(s) /\ time \in 0 .. Wrap - 1 /\ t \in Timer \ ToSet(s.list) /\ s.list # <<>> /\ d \in Nat
          /\ delta \in Nat /\ delta = s.remain[t] + d /\ delta < Until(s, 1)
  BY DEF Precedes
<1> USE <1>first
<1>0. n \in Nat /\ n # 0 /\ DOMAIN l = 1 .. n /\ l \in Seq(Timer)
  BY ListedFacts
<1>1. 1 \in 1 .. n /\ 1 \in 0 .. n /\ 0 \in 0 .. n
  BY <1>0
<1>2. \A a \in 1 .. n : l[a] \in Timer /\ l[a] # t /\ l[a] \in ToSet(l)
  BY <1>0 DEF ToSet
<1>3. PICK q : q = <<t>> \o l
  OBVIOUS
<1>4. /\ q \in Seq(Timer) /\ Len(q) = n + 1 /\ q[1] = t
      /\ \A a \in 1 .. n + 1, b \in 1 .. n : a = b + 1 => q[a] = l[b]
  BY <1>0, <1>3, Fronted
<1>5. s.remain \in [Timer -> Nat]
  BY ListedFacts
<1>6. PICK g : g = [s.remain EXCEPT ![l[1]] = @ - delta]
  OBVIOUS
<1>7. r = [s EXCEPT !.base = time, !.list = q, !.signal = TRUE, !.remain = g]
  <2>1. PICK v : v = [s EXCEPT !.base = time, !.list = q, !.signal = TRUE]
    OBVIOUS
  <2>2. v = Ahead(s, t, time)
    BY <1>3, <2>1 DEF Ahead
  <2>3. v.remain = s.remain
    BY <2>1 DEF Listed, Data
  <2>4. [v.remain EXCEPT ![l[1]] = @ - delta] = g
    BY <1>6, <2>3
  <2>5. r = [v EXCEPT !.remain = [v.remain EXCEPT ![l[1]] = @ - delta]]
    BY <2>2 DEF AheadOf
  <2>6. r = [v EXCEPT !.remain = g]
    BY <2>4, <2>5
  <2> QED BY <2>1, <2>6
<1>8. Until(s, 1) = s.remain[l[1]]
  <2>1. Until(s, 1) = Until(s, 0) + s.remain[l[1]] /\ Until(s, 0) = 0
    BY <1>1, ListedFacts
  <2> QED BY <1>1, <1>2, <1>5, <2>1
<1>9. /\ g \in [Timer -> Nat] /\ g[t] = s.remain[t]
      /\ \A a \in 1 .. n : g[l[a]] = IF a = 1 THEN Until(s, 1) - delta ELSE s.remain[l[a]]
      /\ \A x \in Timer \ ToSet(l) : g[x] = s.remain[x]
  <2>1. Until(s, 1) - delta \in Nat
    <3>1. Until(s, 1) \in Nat
      BY <1>1, ListedFacts
    <3> QED BY <3>1
  <2>2. g = [s.remain EXCEPT ![l[1]] = Until(s, 1) - delta]
    BY <1>1, <1>2, <1>5, <1>6, <1>8
  <2>3. ASSUME NEW a \in 1 .. n, a # 1 PROVE l[a] # l[1]
    BY <1>1, <2>3, ListedFacts
  <2> QED BY <1>1, <1>2, <1>5, <2>1, <2>2, <2>3
<1>10. /\ r.list = q /\ r.remain = g /\ r.base = time /\ r.signal /\ Same(r, s)
       /\ r.drift = s.drift /\ Data(r)
  BY <1>4, <1>7, <1>9 DEF Listed, Data, Same
<1>11. PICK u : u[0] = 0 /\ \A j \in 1 .. n + 1 :
                  /\ j = 1 => u[j] = s.remain[t]
                  /\ \A b \in 1 .. n : j = b + 1 => u[j] = Until(s, b) - d
  <2> DEFINE u == [j \in 0 .. n + 1 |-> IF j = 0 THEN 0 ELSE IF j = 1 THEN s.remain[t]
                                        ELSE Until(s, j - 1) - d]
  <2>1. u[0] = 0
    BY <1>0
  <2>2. ASSUME NEW j \in 1 .. n + 1, j = 1 PROVE u[j] = s.remain[t]
    BY <1>0, <2>2
  <2>3. ASSUME NEW j \in 1 .. n + 1, NEW b \in 1 .. n, j = b + 1 PROVE u[j] = Until(s, b) - d
    <3>1. j - 1 = b /\ j # 0 /\ j # 1 /\ j \in 0 .. n + 1
      BY <1>0, <2>3
    <3> QED BY <3>1
  <2> HIDE DEF u
  <2> QED BY <2>1, <2>2, <2>3
<1>12. ASSUME NEW a \in 0 .. n + 1, NEW b \in 0 .. n + 1, b = a + 1
       PROVE  u[b] = u[a] + g[q[b]]
  <2>1. CASE b = 1
    <3>1. a = 0 /\ u[a] = 0 /\ b \in 1 .. n + 1
      BY <1>0, <1>11, <1>12, <2>1
    <3>2. u[b] = s.remain[t] /\ g[q[b]] = s.remain[t]
      BY <1>4, <1>9, <1>11, <2>1, <3>1
    <3>3. s.remain[t] \in Nat
      BY <1>5
    <3> QED BY <3>1, <3>2, <3>3
  <2>2. CASE b = 2
    <3>1. a = 1 /\ a \in 1 .. n + 1 /\ b \in 1 .. n + 1 /\ b = 1 + 1
      BY <1>0, <1>12, <2>2
    <3>2. u[a] = s.remain[t] /\ u[b] = Until(s, 1) - d
      BY <1>1, <1>11, <3>1
    <3>3. g[q[b]] = Until(s, 1) - delta
      BY <1>1, <1>4, <1>9, <3>1
    <3>4. Until(s, 1) \in Nat /\ s.remain[t] \in Nat
      BY <1>1, <1>5, ListedFacts
    <3>5. \A c, e \in Nat : c - d = e + (c - (e + d))
      OBVIOUS
    <3> QED BY <3>2, <3>3, <3>4, <3>5
  <2>3. CASE b > 2
    <3>1. PICK c \in 1 .. n : c = a - 1 /\ a = c + 1 /\ c \in 0 .. n
      BY <1>0, <1>12, <2>3
    <3>2. a \in 1 .. n /\ a \in 0 .. n /\ a # 1 /\ a \in 1 .. n + 1 /\ b \in 1 .. n + 1
      BY <1>0, <1>12, <2>3
    <3>3. u[a] = Until(s, c) - d /\ u[b] = Until(s, a) - d
      BY <1>11, <1>12, <3>1, <3>2
    <3>4. g[q[b]] = s.remain[l[a]]
      BY <1>4, <1>9, <1>12, <3>2
    <3>5. Until(s, a) = Until(s, c) + s.remain[l[a]]
      BY <3>1, <3>2, ListedFacts
    <3>6. Until(s, c) \in Nat /\ s.remain[l[a]] \in Nat
      BY <1>2, <1>5, <3>1, <3>2, ListedFacts
    <3>7. \A e, f \in Nat : e + f - d = (e - d) + f
      OBVIOUS
    <3>8. Until(s, a) - d = (Until(s, c) - d) + s.remain[l[a]]
      <4>1. PICK v \in Nat, w \in Nat : v = Until(s, c) /\ w = s.remain[l[a]]
        BY <3>6
      <4>2. v + w - d = (v - d) + w
        BY <3>7
      <4>3. Until(s, a) = v + w
        BY <3>5, <4>1
      <4> QED BY <4>1, <4>2, <4>3
    <3> QED BY <3>3, <3>4, <3>8
  <2>4. b # 0
    BY <1>0, <1>12
  <2> QED BY <1>0, <2>1, <2>2, <2>3, <2>4
<1>13. \A j \in 0 .. n + 1 : Until(r, j) = u[j]
  <2>1. r.list \in Seq(Timer) /\ r.remain \in [Timer -> Int] /\ Len(r.list) = n + 1
    BY <1>4, <1>10, DataIs
  <2>2. \A a, b \in 0 .. Len(r.list) : b = a + 1 => u[b] = u[a] + r.remain[r.list[b]]
    <3>1. r.list = q /\ r.remain = g
      BY <1>10
    <3> QED BY <1>12, <2>1, <3>1
  <2>3. \A j \in 0 .. Len(r.list) : Until(r, j) = u[j]
    <3>1. AreSums(u, r)
      BY <1>11, <2>2 DEF AreSums
    <3> QED BY <2>1, <3>1, UntilAre
  <2> QED BY <2>1, <2>3
<1>14. ASSUME NEW b \in 1 .. n
       PROVE  \E j \in 1 .. n + 1 :
                /\ j = b + 1 /\ q[j] = l[b]
                /\ Until(r, j) = IF Until(s, b) > d THEN Until(s, b) - d ELSE 0
  <2>1. PICK j \in 1 .. n + 1 : j = b + 1 /\ j \in 0 .. n + 1 /\ b \in 0 .. n /\ 1 <= b
    BY <1>0
  <2>2. Until(r, j) = Until(s, b) - d
    BY <1>11, <1>13, <2>1
  <2>3. Until(s, 1) <= Until(s, b) /\ Until(s, 1) \in Nat /\ Until(s, b) \in Nat
    BY <1>1, <2>1, ListedFacts
  <2>4. Until(s, b) > d
    <3>1. s.remain[t] \in Nat
      BY <1>5
    <3> QED BY <2>3, <3>1
  <2> QED BY <1>4, <2>1, <2>2, <2>4
<1>15. ASSUME NEW j \in 1 .. n + 1, j # 1 PROVE \E b \in 1 .. n : j = b + 1
  <2>1. j - 1 \in 1 .. n /\ j = (j - 1) + 1
    BY <1>0, <1>15
  <2> QED BY <2>1
<1>16. Until(r, 1) = s.remain[t] /\ 1 \in 1 .. n + 1
  <2>1. 1 \in 1 .. n + 1 /\ 1 \in 0 .. n + 1
    BY <1>0
  <2> QED BY <1>11, <1>13, <2>1
<1>17. Ends(r) = Later(Ends(s), d) \cup {<<t, s.remain[t]>>}
  <2>1. Len(r.list) = n + 1 /\ r.list = q
    BY <1>4, <1>10
  <2>2. ASSUME NEW e \in Ends(r), e # <<t, s.remain[t]>> PROVE e \in Later(Ends(s), d)
    <3>1. PICK j \in 1 .. n + 1 : e = <<q[j], Until(r, j)>>
      BY <2>1, <2>2 DEF Ends
    <3>2. j # 1
      BY <1>4, <1>16, <2>2, <3>1
    <3>3. PICK b \in 1 .. n : j = b + 1
      BY <1>15, <3>2
    <3>4. PICK f : f = <<l[b], Until(s, b)>>
      OBVIOUS
    <3>5. f \in Ends(s) /\ f[1] = l[b] /\ f[2] = Until(s, b)
      BY <3>4 DEF Ends
    <3>6. q[j] = l[b] /\ Until(r, j) = IF Until(s, b) > d THEN Until(s, b) - d ELSE 0
      BY <1>14, <3>3
    <3>7. e = <<f[1], IF f[2] > d THEN f[2] - d ELSE 0>>
      BY <3>1, <3>5, <3>6
    <3> QED BY <3>5, <3>7 DEF Later
  <2>3. ASSUME NEW e \in Later(Ends(s), d) PROVE e \in Ends(r)
    <3>1. PICK f \in Ends(s) : e = <<f[1], IF f[2] > d THEN f[2] - d ELSE 0>>
      BY DEF Later
    <3>2. PICK b \in 1 .. n : f = <<l[b], Until(s, b)>>
      BY DEF Ends
    <3>3. PICK j \in 1 .. n + 1 :
            q[j] = l[b] /\ Until(r, j) = IF Until(s, b) > d THEN Until(s, b) - d ELSE 0
      BY <1>14
    <3>4. e = <<q[j], Until(r, j)>>
      BY <3>1, <3>2, <3>3
    <3> QED BY <2>1, <3>4 DEF Ends
  <2>4. <<t, s.remain[t]>> \in Ends(r)
    <3>1. <<t, s.remain[t]>> = <<q[1], Until(r, 1)>>
      BY <1>4, <1>16
    <3> QED BY <1>16, <2>1, <3>1 DEF Ends
  <2> QED BY <2>2, <2>3, <2>4
<1>18. DOMAIN q = 1 .. n + 1
  BY <1>0, <1>4
<1>19. ToSet(r.list) = ToSet(s.list) \cup {t}
  <2>1. ASSUME NEW x \in ToSet(q) PROVE x \in ToSet(l) \cup {t}
    <3>1. PICK j \in 1 .. n + 1 : q[j] = x
      BY <1>18, <2>1 DEF ToSet
    <3> QED BY <1>2, <1>4, <1>15, <3>1
  <2>2. ASSUME NEW x \in ToSet(l) PROVE x \in ToSet(q)
    <3>1. PICK b \in 1 .. n : l[b] = x
      BY <1>0, <2>2 DEF ToSet
    <3> QED BY <1>14, <1>18, <3>1 DEF ToSet
  <2>3. t \in ToSet(q)
    BY <1>4, <1>16, <1>18 DEF ToSet
  <2> QED BY <1>10, <2>1, <2>2, <2>3
<1>20. IsInjective(q)
  <2>1. ASSUME NEW a \in 1 .. n + 1, NEW b \in 1 .. n + 1, q[a] = q[b] PROVE a = b
    <3>1. ASSUME NEW c \in 1 .. n + 1, c # 1 PROVE \E j \in 1 .. n : c = j + 1 /\ q[c] = l[j]
      BY <1>4, <1>15, <3>1
    <3>2. CASE a = 1 \/ b = 1
      BY <1>2, <1>4, <2>1, <3>1, <3>2
    <3>3. CASE a # 1 /\ b # 1
      <4>1. PICK c \in 1 .. n : a = c + 1 /\ q[a] = l[c]
        BY <3>1, <3>3
      <4>2. PICK e \in 1 .. n : b = e + 1 /\ q[b] = l[e]
        BY <3>1, <3>3
      <4>3. c = e
        BY <2>1, <4>1, <4>2, ListedFacts
      <4> QED BY <4>1, <4>2, <4>3
    <3> QED BY <3>2, <3>3
  <2> QED BY <1>18, <2>1 DEF IsInjective
<1> QED BY <1>9, <1>10, <1>17, <1>19, <1>20 DEF Listed, Joined

-----------------------------------------------------------------------------
(* Distances on the counter. *)

LEMMA ModIs ==
  ASSUME NEW x \in Int, 0 <= x + Wrap, x < Wrap + Wrap
  PROVE  x % Wrap = IF x < 0 THEN x + Wrap ELSE IF x < Wrap THEN x ELSE x - Wrap
<1>1. Wrap \in Nat /\ Wrap > 0
  BY TmrAssumption
<1>2. CASE x < 0
  <2>1. x % Wrap = x + Wrap
    BY <1>1, <1>2
  <2> QED BY <1>2, <2>1
<1>3. CASE 0 <= x /\ x < Wrap
  BY <1>1, <1>3
<1>4. CASE Wrap <= x
  <2>1. x % Wrap = x - Wrap
    BY <1>1, <1>4
  <2> QED BY <1>1, <1>4, <2>1
<1> QED BY <1>1, <1>2, <1>3, <1>4

LEMMA SinceIs ==
  ASSUME NEW x \in 0 .. Wrap - 1, NEW y \in 0 .. Wrap - 1
  PROVE  /\ Since(x, y) = IF x >= y THEN x - y ELSE x - y + Wrap
         /\ Since(x, y) \in 0 .. Wrap - 1 /\ Since(x, y) \in Nat
         /\ x = y => Since(x, y) = 0
<1>1. Wrap \in Nat /\ Wrap > 0
  BY TmrAssumption
<1>2. x - y \in Int /\ 0 <= (x - y) + Wrap /\ x - y < Wrap + Wrap /\ x - y < Wrap
  BY <1>1
<1>3. PICK d \in Int : d = x - y /\ (d < 0 <=> ~(x >= y))
  BY <1>1
<1>4. d % Wrap = IF d < 0 THEN d + Wrap ELSE IF d < Wrap THEN d ELSE d - Wrap
  BY <1>2, <1>3, ModIs
<1>5. Since(x, y) = d % Wrap
  BY <1>3 DEF Since
<1> QED BY <1>1, <1>2, <1>3, <1>4, <1>5

(* A time between another one and the tick is on the way from it. *)
LEMMA SinceAdds ==
  ASSUME NEW a \in 0 .. Wrap - 1, NEW b \in 0 .. Wrap - 1, NEW c \in 0 .. Wrap - 1,
         Since(a, b) <= Since(a, c)
  PROVE  Since(a, c) = Since(a, b) + Since(b, c)
<1>1. Wrap \in Nat /\ Wrap > 0
  BY TmrAssumption
<1>2. PICK x \in Nat : x = Since(a, b) /\ x = IF a >= b THEN a - b ELSE a - b + Wrap
  BY SinceIs
<1>3. PICK y \in Nat : y = Since(a, c) /\ y = IF a >= c THEN a - c ELSE a - c + Wrap
  BY SinceIs
<1>4. PICK z \in Nat : z = Since(b, c) /\ z = IF b >= c THEN b - c ELSE b - c + Wrap
  BY SinceIs
<1>5. x <= y
  BY <1>2, <1>3
<1>6. y = x + z
  BY <1>1, <1>2, <1>3, <1>4, <1>5
<1> QED BY <1>2, <1>3, <1>4, <1>6

LEMMA SinceTick ==
  ASSUME NEW a \in 0 .. Wrap - 1, NEW b \in 0 .. Wrap - 1, NEW c, c = (a + 1) % Wrap
  PROVE  /\ c \in 0 .. Wrap - 1 /\ Since(c, b) <= Since(a, b) + 1
         /\ Since(a, b) + 1 < Wrap => Since(c, b) = Since(a, b) + 1
<1>1. Wrap \in Nat /\ Wrap > 0
  BY TmrAssumption
<1>2. c = IF a + 1 < Wrap THEN a + 1 ELSE a + 1 - Wrap
  BY <1>1, ModIs
<1>3. c \in 0 .. Wrap - 1
  BY <1>1, <1>2
<1>4. PICK x \in Nat : x = Since(a, b) /\ x = IF a >= b THEN a - b ELSE a - b + Wrap
  BY SinceIs
<1>5. PICK y \in Nat : y = Since(c, b) /\ y = IF c >= b THEN c - b ELSE c - b + Wrap
  BY <1>3, SinceIs
<1>6. y <= x + 1 /\ (x + 1 < Wrap => y = x + 1)
  BY <1>1, <1>2, <1>3, <1>4, <1>5
<1> QED BY <1>3, <1>4, <1>5, <1>6

-----------------------------------------------------------------------------
(* The list is sound when no timer ends, by the list, later than it should,   *)
(* and none sooner unless OS_TmrUnlink left the time base behind.             *)

Up(x) == IF x > 0 THEN x ELSE 0
Sound(s, lf) ==
  /\ Listed(s) /\ lf \in [Timer -> Int] /\ tick \in 0 .. Wrap - 1
  /\ s.list # <<>> => 2 * Since(tick, s.base) <= Wrap
  /\ \A e \in Ends(s) :
       /\ e[2] <= Up(lf[e[1]] + Since(tick, s.base))
       /\ ~s.drift => e[2] = Up(lf[e[1]] + Since(tick, s.base))

(* The time that a call has read. *)
Timely(s, time) ==
  /\ time \in 0 .. Wrap - 1 /\ 2 * Since(tick, time) <= Wrap
  /\ s.list # <<>> => Since(tick, time) <= Since(tick, s.base)

Overdue(s) == \E e \in Ends(s) : e[2] = 0

(* Without a signal the timer task sleeps on, and no later than it should; a  *)
(* first timer that has no ticks left stays such a timer.                     *)
Quiet(r, s) ==
  /\ s.signal => r.signal
  /\ \/ r.signal
     \/ /\ r.base = s.base /\ (Ends(r) = {} <=> Ends(s) = {})
        /\ \A e \in Ends(r) : \E f \in Ends(s) : f[2] <= e[2]
        /\ Overdue(s) => Overdue(r)

LEMMA QuietTwice ==
  ASSUME NEW s, Listed(s), NEW u, Listed(u), NEW r, Listed(r), Quiet(u, s), Quiet(r, u)
  PROVE  Quiet(r, s)
<1>1. s.signal => r.signal
  BY DEF Quiet
<1>2. ASSUME ~r.signal
      PROVE  /\ r.base = s.base /\ (Ends(r) = {} <=> Ends(s) = {})
             /\ \A e \in Ends(r) : \E f \in Ends(s) : f[2] <= e[2]
             /\ Overdue(s) => Overdue(r)
  <2>1. /\ r.base = u.base /\ (Ends(r) = {} <=> Ends(u) = {})
        /\ \A e \in Ends(r) : \E f \in Ends(u) : f[2] <= e[2]
        /\ Overdue(u) => Overdue(r)
    BY <1>2 DEF Quiet
  <2>2. /\ u.base = s.base /\ (Ends(u) = {} <=> Ends(s) = {})
        /\ \A e \in Ends(u) : \E f \in Ends(s) : f[2] <= e[2]
        /\ Overdue(s) => Overdue(u)
    BY <1>2 DEF Quiet
  <2>3. ASSUME NEW e \in Ends(r) PROVE \E f \in Ends(s) : f[2] <= e[2]
    <3>1. PICK g \in Ends(u) : g[2] <= e[2]
      BY <2>1
    <3>2. PICK f \in Ends(s) : f[2] <= g[2]
      BY <2>2
    <3>3. e[2] \in Nat /\ f[2] \in Nat /\ g[2] \in Nat
      BY EndsNat
    <3> QED BY <3>1, <3>2, <3>3
  <2> QED BY <2>1, <2>2, <2>3
<1> QED BY <1>1, <1>2 DEF Quiet

LEMMA UpLess ==
  \A x \in Int, z, d, a \in Nat : LET b == IF a > d THEN a - d ELSE 0 IN
    a <= Up(x + (z + d)) =>
      /\ b <= Up(x + (z + d)) /\ b <= Up(x + z) /\ (a = Up(x + (z + d)) => b = Up(x + z))
<1> QED BY DEF Up

(* Moving the time base, and taking off what has gone by. *)
LEMMA LaterSound ==
  ASSUME NEW s, NEW lf, Sound(s, lf), NEW time, Timely(s, time), s.list # <<>>,
         NEW d, d = Since(time, s.base), NEW e \in Ends(s), NEW f,
         f = <<e[1], IF e[2] > d THEN e[2] - d ELSE 0>>
  PROVE  /\ f[1] = e[1] /\ f[2] \in Nat /\ d \in Nat
         /\ f[2] <= Up(lf[f[1]] + Since(tick, s.base))
         /\ f[2] <= Up(lf[f[1]] + Since(tick, time))
         /\ ~s.drift => f[2] = Up(lf[f[1]] + Since(tick, time))
<1>1. /\ Listed(s) /\ lf \in [Timer -> Int] /\ tick \in 0 .. Wrap - 1 /\ time \in 0 .. Wrap - 1
      /\ s.base \in 0 .. Wrap - 1
  BY DataIs DEF Sound, Timely, Listed
<1>2. e[1] \in Timer /\ e[2] \in Nat
  <2>1. e[1] \in ToSet(s.list) /\ e[2] \in Nat
    BY <1>1, EndsNat
  <2> QED BY <1>1, <2>1, ListedFacts DEF ToSet
<1>3. d \in Nat /\ Since(tick, s.base) \in Nat /\ Since(tick, time) \in Nat
  BY <1>1, SinceIs
<1>4. Since(tick, s.base) = Since(tick, time) + d
  BY <1>1, SinceAdds DEF Timely
<1>5. PICK x \in Int, y \in Nat, z \in Nat :
        x = lf[e[1]] /\ y = Since(tick, s.base) /\ z = Since(tick, time) /\ y = z + d
  BY <1>1, <1>2, <1>3, <1>4
<1>6. e[2] <= Up(x + y) /\ (~s.drift => e[2] = Up(x + y))
  BY <1>5 DEF Sound
<1>7. PICK a \in Nat, b \in Nat :
        /\ a = e[2] /\ b = f[2] /\ b = IF a > d THEN a - d ELSE 0
        /\ a <= Up(x + y) /\ (~s.drift => a = Up(x + y))
  BY <1>2, <1>3, <1>6
<1>8. b <= Up(x + y) /\ b <= Up(x + z) /\ (a = Up(x + y) => b = Up(x + z))
  <2>1. /\ x \in Int /\ z \in Nat /\ d \in Nat /\ a \in Nat /\ a <= Up(x + (z + d))
        /\ b = IF a > d THEN a - d ELSE 0
    BY <1>3, <1>5, <1>7
  <2>2. b <= Up(x + (z + d)) /\ b <= Up(x + z) /\ (a = Up(x + (z + d)) => b = Up(x + z))
    BY ONLY <2>1, UpLess
  <2> QED BY <1>5, <2>2
<1>9. f[1] = e[1] /\ x = lf[f[1]] /\ f[2] = b
  BY <1>5, <1>7
<1>10. b <= Up(lf[f[1]] + Since(tick, s.base)) /\ b <= Up(lf[f[1]] + Since(tick, time))
  BY <1>5, <1>8, <1>9
<1>11. ~s.drift => b = Up(lf[f[1]] + Since(tick, time))
  BY <1>5, <1>7, <1>8, <1>9
<1> QED BY <1>3, <1>9, <1>10, <1>11

LEMMA ListedTimers == ASSUME NEW s, Listed(s) PROVE ToSet(s.list) \subseteq Timer
<1> QED BY ListedFacts DEF ToSet

(* What does not matter for the ends. *)
LEMMA Cleared ==
  ASSUME NEW s, Listed(s), NEW t \in Timer \ ToSet(s.list), NEW r, Data(r), r.list = s.list,
         r.remain = [s.remain EXCEPT ![t] = 0]
  PROVE  Listed(r) /\ Ends(r) = Ends(s)
<1>1. Listed(r)
  BY DEF Listed
<1>2. ToSet(s.list) \subseteq Timer /\ s.remain \in [Timer -> Nat]
  BY ListedTimers, ListedFacts
<1>3. \A x \in ToSet(s.list) : r.remain[x] = s.remain[x]
  BY <1>2
<1> QED BY <1>1, <1>3, SameEnds

(* OS_TmrUnlink: w is the list without the timer, and aged if that led it. *)
Unlinked(r, s, t, time, d) ==
  \E w, reload :
       /\ Listed(w) /\ Listed(r) /\ Same(r, s) /\ d \in Nat
       /\ ToSet(w.list) = ToSet(s.list) \ {t}
       /\ Ends(w) = IF s.list[1] = t THEN Later({e \in Ends(s) : e[1] # t}, d)
                    ELSE {e \in Ends(s) : e[1] # t}
       /\ reload <=> \/ w.list = <<>>
                     \/ w.remain[w.list[1]] # s.remain[t]
                     \/ w.remain[w.list[1]] = 0
       /\ r.list = w.list /\ Ends(r) = Ends(w) /\ r.remain[t] = 0
       /\ \A x \in Timer \ ToSet(s.list) : r.remain[x] = s.remain[x]
       /\ s.list[1] = t /\ reload => r.base = time /\ r.signal /\ (~r.drift => ~s.drift \/ r.list = <<>>)
       /\ ~(s.list[1] = t /\ reload) =>
            /\ r.base = s.base /\ r.signal = s.signal
            /\ ~r.drift => r.list = <<>> \/ (~s.drift /\ ~(s.list[1] = t /\ d > 0))

LEMMA UnlinkFields ==
  ASSUME NEW s, Listed(s), NEW t \in ToSet(s.list), NEW time \in 0 .. Wrap - 1,
         NEW r, r = Unlink(s, t, time), NEW d, d = Since(time, s.base)
  PROVE  Unlinked(r, s, t, time, d)
<1>1. t \in Timer /\ s.base \in 0 .. Wrap - 1
  BY ListedTimers, DataIs DEF Listed
<1>2. d \in Nat
  BY <1>1, SinceIs
<1>3. PICK v : v = Without(s, t)
  OBVIOUS
<1>4. /\ Listed(v) /\ Same(v, s) /\ v.base = s.base /\ v.signal = s.signal /\ v.drift = s.drift
      /\ Ends(v) = {e \in Ends(s) : e[1] # t} /\ ToSet(v.list) = ToSet(s.list) \ {t}
      /\ \A x \in Timer \ ToSet(s.list) : v.remain[x] = s.remain[x]
  BY <1>3, WithoutIs
<1>5. PICK w : w = IF s.list[1] = t THEN Age(v, d) ELSE v
  OBVIOUS
<1>6. /\ Listed(w) /\ Same(w, s) /\ w.base = s.base /\ w.signal = s.signal /\ w.drift = s.drift
      /\ ToSet(w.list) = ToSet(s.list) \ {t}
      /\ Ends(w) = IF s.list[1] = t THEN Later({e \in Ends(s) : e[1] # t}, d)
                   ELSE {e \in Ends(s) : e[1] # t}
      /\ \A x \in Timer \ ToSet(s.list) : w.remain[x] = s.remain[x]
  <2>1. CASE s.list[1] = t
    <3>1. w = Age(v, d)
      BY <1>5, <2>1
    <3>2. /\ Listed(w) /\ Same(w, v) /\ w.list = v.list /\ w.base = v.base
          /\ w.signal = v.signal /\ w.drift = v.drift
          /\ Ends(w) = Later(Ends(v), d)
          /\ \A x \in Timer \ ToSet(v.list) : w.remain[x] = v.remain[x]
      <4>1. Listed(v)
        BY <1>4
      <4> QED BY ONLY <1>2, <3>1, <4>1, AgeIs
    <3>3. Same(w, s)
      BY <1>4, <3>2 DEF Same
    <3> QED BY <1>4, <2>1, <3>2, <3>3
  <2>2. CASE s.list[1] # t
    BY <1>4, <1>5, <2>2
  <2> QED BY <2>1, <2>2
<1>7. PICK reload \in BOOLEAN : reload <=> \/ w.list = <<>>
                                           \/ w.remain[w.list[1]] # s.remain[t]
                                           \/ w.remain[w.list[1]] = 0
  OBVIOUS
<1>8. PICK v2 : v2 = IF s.list[1] = t /\ reload THEN [w EXCEPT !.base = time, !.signal = TRUE]
                     ELSE [w EXCEPT !.drift = @ \/ (s.list[1] = t /\ d > 0)]
  OBVIOUS
<1>9. r = [v2 EXCEPT !.remain[t] = 0, !.drift = @ /\ w.list # <<>>]
  <2>1. (s.list[1] = t /\ reload) <=>
          s.list[1] = t /\ \/ w.list = <<>>
                           \/ w.remain[w.list[1]] # s.remain[t]
                           \/ w.remain[w.list[1]] = 0
    BY <1>7
  <2>2. r = [(IF s.list[1] = t /\ (\/ w.list = <<>>
                                   \/ w.remain[w.list[1]] # s.remain[t]
                                   \/ w.remain[w.list[1]] = 0)
              THEN [w EXCEPT !.base = time, !.signal = TRUE]
              ELSE [w EXCEPT !.drift = @ \/ (s.list[1] = t /\ d > 0)])
             EXCEPT !.remain[t] = 0, !.drift = @ /\ w.list # <<>>]
    BY <1>3, <1>5 DEF Unlink
  <2> QED BY <1>8, <2>1, <2>2
<1>10. Data(w)
  BY <1>6 DEF Listed
<1>11. /\ Data(v2) /\ v2.list = w.list /\ v2.remain = w.remain /\ Same(v2, w)
       /\ s.list[1] = t /\ reload => v2.base = time /\ v2.signal /\ v2.drift = w.drift
       /\ ~(s.list[1] = t /\ reload) => /\ v2.base = w.base /\ v2.signal = w.signal
                                        /\ v2.drift <=> w.drift \/ (s.list[1] = t /\ d > 0)
  <2>1. CASE s.list[1] = t /\ reload
    BY <1>8, <1>10, <2>1 DEF Data, Same
  <2>2. CASE ~(s.list[1] = t /\ reload)
    BY <1>8, <1>10, <2>2 DEF Data, Same
  <2> QED BY <2>1, <2>2
<1>12. /\ Data(r) /\ r.list = w.list /\ r.remain = [w.remain EXCEPT ![t] = 0] /\ Same(r, v2)
       /\ r.base = v2.base /\ r.signal = v2.signal /\ (r.drift <=> v2.drift /\ w.list # <<>>)
  <2>1. PICK b \in BOOLEAN : b <=> v2.drift /\ w.list # <<>>
    OBVIOUS
  <2>2. PICK g : g = [w.remain EXCEPT ![t] = 0]
    OBVIOUS
  <2>3. w.remain \in [Timer -> Nat] /\ v2.drift \in BOOLEAN
    BY <1>10, <1>11, DataIs
  <2>4. g \in [Timer -> Nat]
    BY <1>1, <2>2, <2>3
  <2>5. r = [v2 EXCEPT !.remain = g, !.drift = b]
    <3>1. (v2.drift /\ w.list # <<>>) = b
      BY <2>1, <2>3
    <3>2. [v2.remain EXCEPT ![t] = 0] = g
      BY <1>11, <2>2
    <3>3. r = [v2 EXCEPT !.remain = [@ EXCEPT ![t] = 0], !.drift = @ /\ w.list # <<>>]
      BY <1>9
    <3> QED BY <3>1, <3>2, <3>3
  <2>6. /\ Data(r) /\ r.list = v2.list /\ r.remain = g /\ r.drift = b
        /\ r.base = v2.base /\ r.signal = v2.signal /\ Same(r, v2)
    <3>1. Data(v2)
      BY <1>11
    <3> QED BY <2>1, <2>4, <2>5, <3>1 DEF Data, Same
  <2> QED BY <1>11, <2>1, <2>2, <2>6
<1>13. t \in Timer \ ToSet(w.list)
  BY <1>1, <1>6
<1>14. Listed(r) /\ Ends(r) = Ends(w)
  BY ONLY <1>6, <1>12, <1>13, Cleared
<1>15. Same(r, s)
  BY <1>6, <1>11, <1>12 DEF Same
<1>16. r.remain[t] = 0 /\ \A x \in Timer \ ToSet(s.list) : r.remain[x] = s.remain[x]
  <2>1. w.remain \in [Timer -> Nat]
    BY <1>10, DataIs
  <2> QED BY <1>1, <1>6, <1>12, <2>1
<1> QED BY <1>2, <1>6, <1>7, <1>11, <1>12, <1>14, <1>15, <1>16 DEF Unlinked

(* The times left only matter for the timers of the list. *)
LEMMA SoundElse ==
  ASSUME NEW s, NEW lf, Sound(s, lf), NEW lg \in [Timer -> Int],
         \A x \in ToSet(s.list) : lg[x] = lf[x]
  PROVE  Sound(s, lg)
<1>1. \A e \in Ends(s) : lg[e[1]] = lf[e[1]]
  BY EndsNat DEF Sound
<1> QED BY <1>1 DEF Sound

(* OS_TmrUnlink leaves the list sound without the timer. *)
LEMMA UnlinkIs ==
  ASSUME NEW s, NEW lf, Sound(s, lf), NEW t \in ToSet(s.list), NEW time, Timely(s, time),
         NEW r, r = Unlink(s, t, time)
  PROVE  /\ Sound(r, lf) /\ Same(r, s) /\ Timely(r, time) /\ Quiet(r, s)
         /\ (r.base = s.base \/ r.base = time)
         /\ ToSet(r.list) = ToSet(s.list) \ {t} /\ r.remain[t] = 0
         /\ \A x \in Timer \ ToSet(s.list) : r.remain[x] = s.remain[x]
<1> DEFINE d == Since(time, s.base)
<1>1. /\ Listed(s) /\ lf \in [Timer -> Int] /\ tick \in 0 .. Wrap - 1 /\ time \in 0 .. Wrap - 1
      /\ s.base \in 0 .. Wrap - 1
  BY DataIs DEF Sound, Timely, Listed
<1>2. s.list # <<>>
  BY DEF ToSet
<1>3. PICK w, reload :
        /\ Listed(w) /\ Listed(r) /\ Same(r, s) /\ d \in Nat
        /\ ToSet(w.list) = ToSet(s.list) \ {t}
        /\ Ends(w) = IF s.list[1] = t THEN Later({e \in Ends(s) : e[1] # t}, d)
                     ELSE {e \in Ends(s) : e[1] # t}
        /\ reload <=> \/ w.list = <<>>
                      \/ w.remain[w.list[1]] # s.remain[t]
                      \/ w.remain[w.list[1]] = 0
        /\ r.list = w.list /\ Ends(r) = Ends(w) /\ r.remain[t] = 0
        /\ \A x \in Timer \ ToSet(s.list) : r.remain[x] = s.remain[x]
        /\ s.list[1] = t /\ reload => r.base = time /\ r.signal /\ (~r.drift => ~s.drift \/ r.list = <<>>)
        /\ ~(s.list[1] = t /\ reload) =>
             /\ r.base = s.base /\ r.signal = s.signal
             /\ ~r.drift => r.list = <<>> \/ (~s.drift /\ ~(s.list[1] = t /\ d > 0))
  <2> HIDE DEF d
  <2>1. d = Since(time, s.base)
    BY DEF d
  <2>2. t \in ToSet(s.list) /\ r = Unlink(s, t, time)
    OBVIOUS
  <2>3. Unlinked(r, s, t, time, d)
    BY ONLY <1>1, <2>1, <2>2, UnlinkFields
  <2> QED BY <2>3 DEF Unlinked
<1>4. r.list = <<>> <=> Ends(r) = {}
  BY <1>3, EndsNone
<1>5. Ends(s) # {}
  BY <1>1, <1>2, EndsNone
<1>6. 2 * Since(tick, s.base) <= Wrap /\ 2 * Since(tick, time) <= Wrap
  BY <1>2 DEF Sound, Timely
<1>7. CASE s.list[1] # t
  <2>1. Ends(r) = {e \in Ends(s) : e[1] # t} /\ r.base = s.base /\ r.signal = s.signal
    BY <1>3, <1>7
  <2>2. ~r.drift => r.list = <<>> \/ ~s.drift
    BY <1>3, <1>7
  <2>3. Sound(r, lf)
    <3>1. ASSUME NEW e \in Ends(r)
          PROVE  /\ e[2] <= Up(lf[e[1]] + Since(tick, r.base))
                 /\ ~r.drift => e[2] = Up(lf[e[1]] + Since(tick, r.base))
      BY <1>4, <2>1, <2>2 DEF Sound
    <3> QED BY <1>1, <1>3, <1>6, <2>1, <3>1 DEF Sound
  <2>4. Ends(r) # {}
    <3>1. <<Head(s.list), s.remain[Head(s.list)]>> \in Ends(s) /\ Head(s.list) = s.list[1]
      BY <1>1, <1>2, HeadEnds
    <3> QED BY <1>7, <2>1, <3>1
  <2>5. Quiet(r, s)
    <3>1. ASSUME NEW e \in Ends(r) PROVE \E f \in Ends(s) : f[2] <= e[2]
      <4>1. e \in Ends(s) /\ e[2] \in Nat
        BY <1>1, <2>1, EndsNat
      <4> QED BY <4>1
    <3>2. ASSUME Overdue(s) PROVE Overdue(r)
      <4>1. PICK e \in Ends(s) : e[2] = 0
        BY <3>2 DEF Overdue
      <4>2. CASE e[1] # t
        BY <2>1, <4>1, <4>2 DEF Overdue
      <4>3. CASE e[1] = t
        <5>1. /\ <<Head(s.list), s.remain[Head(s.list)]>> \in Ends(s) /\ Head(s.list) = s.list[1]
              /\ s.remain[Head(s.list)] <= e[2]
          BY <1>1, <1>2, <4>1, HeadEnds
        <5>2. PICK f : f = <<Head(s.list), s.remain[Head(s.list)]>>
          OBVIOUS
        <5>3. f \in Ends(s) /\ f[1] # t /\ f[2] <= 0
          BY <1>7, <4>1, <5>1, <5>2
        <5>4. f[2] = 0
          BY <1>1, <5>3, EndsNat
        <5> QED BY <2>1, <5>3, <5>4 DEF Overdue
      <4> QED BY <4>2, <4>3
    <3> QED BY <1>5, <2>1, <2>4, <3>1, <3>2 DEF Quiet
  <2>6. Timely(r, time)
    BY <1>2, <2>1 DEF Timely
  <2> QED BY <1>3, <2>1, <2>3, <2>5, <2>6
<1>8. CASE s.list[1] = t
  <2>1. ASSUME NEW e \in Ends(r)
        PROVE  /\ e[2] \in Nat /\ e[2] <= Up(lf[e[1]] + Since(tick, s.base))
               /\ e[2] <= Up(lf[e[1]] + Since(tick, time))
               /\ ~s.drift => e[2] = Up(lf[e[1]] + Since(tick, time))
    <3>1. PICK f \in Ends(s) : e = <<f[1], IF f[2] > d THEN f[2] - d ELSE 0>>
      BY <1>3, <1>8, <2>1 DEF Later
    <3>2. /\ e[1] = f[1] /\ e[2] \in Nat
          /\ e[2] <= Up(lf[e[1]] + Since(tick, s.base))
          /\ e[2] <= Up(lf[e[1]] + Since(tick, time))
          /\ ~s.drift => e[2] = Up(lf[e[1]] + Since(tick, time))
      <4> HIDE DEF d
      <4>1. d = Since(time, s.base)
        BY DEF d
      <4> QED BY ONLY <1>2, <3>1, <4>1, LaterSound, Sound(s, lf), Timely(s, time)
    <3> QED BY <3>2
  <2>2. CASE reload
    <3>1. r.base = time /\ r.signal /\ (~r.drift => ~s.drift \/ r.list = <<>>)
      BY <1>3, <1>8, <2>2
    <3>2. ASSUME NEW e \in Ends(r)
          PROVE  /\ e[2] <= Up(lf[e[1]] + Since(tick, r.base))
                 /\ ~r.drift => e[2] = Up(lf[e[1]] + Since(tick, r.base))
      BY <1>4, <2>1, <3>1
    <3>3. Sound(r, lf)
      BY <1>1, <1>3, <1>6, <3>1, <3>2 DEF Sound
    <3>4. Quiet(r, s)
      BY <3>1 DEF Quiet
    <3>5. Timely(r, time)
      <4>1. Since(tick, time) \in Nat
        BY <1>1, SinceIs
      <4> QED BY <3>1, <4>1 DEF Timely
    <3> QED BY <1>3, <3>1, <3>3, <3>4, <3>5
  <2>3. CASE ~reload
    <3>1. /\ r.base = s.base /\ r.signal = s.signal
          /\ ~r.drift => r.list = <<>> \/ (~s.drift /\ ~(d > 0))
      BY <1>3, <1>8, <2>3
    <3>2. w.list # <<>> /\ w.remain[w.list[1]] = s.remain[t]
      BY <1>3, <2>3
    <3>3. ASSUME NEW e \in Ends(r)
          PROVE  /\ e[2] <= Up(lf[e[1]] + Since(tick, r.base))
                 /\ ~r.drift => e[2] = Up(lf[e[1]] + Since(tick, r.base))
      <4>1. ASSUME ~(d > 0) PROVE Since(tick, time) = Since(tick, s.base)
        <5>1. Since(tick, s.base) = Since(tick, time) + d
          <6>1. Since(tick, time) <= Since(tick, s.base)
            BY <1>2 DEF Timely
          <6> QED BY <1>1, <6>1, SinceAdds
        <5>2. Since(tick, time) \in Nat
          BY <1>1, SinceIs
        <5>3. d = 0
          BY <1>3, <4>1
        <5> QED BY <5>1, <5>2, <5>3
      <4> QED BY <1>4, <2>1, <3>1, <4>1
    <3>4. Sound(r, lf)
      BY <1>1, <1>3, <1>6, <3>1, <3>3 DEF Sound
    <3>5. Quiet(r, s)
      <4>1. Head(s.list) = t /\ <<t, s.remain[t]>> \in Ends(s)
        BY <1>1, <1>2, <1>8, HeadEnds
      <4>2. \A e \in Ends(w) : w.remain[w.list[1]] <= e[2]
        BY <1>3, <3>2, HeadEnds
      <4>3. ASSUME NEW e \in Ends(r) PROVE \E f \in Ends(s) : f[2] <= e[2]
        <5>1. s.remain[t] <= e[2]
          BY <1>3, <3>2, <4>2
        <5>2. <<t, s.remain[t]>>[2] = s.remain[t]
          OBVIOUS
        <5> QED BY <4>1, <5>1, <5>2
      <4>4. ~Overdue(s)
        <5>1. s.remain[t] # 0 /\ s.remain[t] \in Nat
          <6>1. w.remain[w.list[1]] # 0
            BY <1>3, <2>3
          <6>2. <<t, s.remain[t]>>[2] \in Nat /\ <<t, s.remain[t]>>[2] = s.remain[t]
            BY <1>1, <4>1, EndsNat
          <6> QED BY <3>2, <6>1, <6>2
        <5>2. \A f \in Ends(s) : s.remain[t] <= f[2] /\ f[2] \in Nat
          BY <1>1, <1>2, <4>1, HeadEnds, EndsNat
        <5> QED BY <5>1, <5>2 DEF Overdue
      <4> QED BY <1>3, <1>4, <1>5, <3>1, <3>2, <4>3, <4>4 DEF Quiet
    <3>6. Timely(r, time)
      BY <1>2, <3>1 DEF Timely
    <3> QED BY <1>3, <3>1, <3>4, <3>5, <3>6
  <2> QED BY <2>2, <2>3
<1> QED BY <1>7, <1>8

(* The only timer of the list. *)
Alone(s, t, time) == Listed(s) /\ t \in Timer /\ s.list = <<>> /\ time \in 0 .. Wrap - 1

LEMMA AloneIs ==
  ASSUME NEW s, NEW t, NEW time, Alone(s, t, time), NEW r, r = Ahead(s, t, time)
  PROVE  Joined(r, s, t, {<<t, s.remain[t]>>}) /\ r.base = time /\ r.signal
<1>alone. Listed(s) /\ t \in Timer /\ s.list = <<>> /\ time \in 0 .. Wrap - 1
  BY DEF Alone
<1> USE <1>alone
<1>1. PICK q : q = <<t>> \o s.list
  OBVIOUS
<1>2. q \in Seq(Timer) /\ Len(q) = 1 /\ q[1] = t /\ DOMAIN q = 1 .. 1
  <2>1. q = <<t>>
    BY <1>1
  <2> QED BY <2>1
<1>3. /\ Data(r) /\ r.list = q /\ r.remain = s.remain /\ Same(r, s) /\ r.base = time
      /\ r.signal /\ r.drift = s.drift
  <2>1. r = [s EXCEPT !.base = time, !.list = q, !.signal = TRUE]
    BY <1>1 DEF Ahead
  <2>2. Data(s)
    BY DEF Listed
  <2> QED BY <1>2, <2>1, <2>2 DEF Data, Same
<1>4. Listed(r)
  BY <1>2, <1>3 DEF Listed, IsInjective
<1>5. Until(r, 1) = s.remain[t]
  <2>1. 0 \in 0 .. Len(r.list) /\ 1 \in 0 .. Len(r.list) /\ r.list[1] = t
    <3>1. Len(r.list) = 1 /\ r.list[1] = t
      BY ONLY <1>2, <1>3
    <3> QED BY ONLY <3>1
  <2>4. /\ Until(r, 0) = 0
        /\ \A i, j \in 0 .. Len(r.list) :
             j = i + 1 => Until(r, j) = Until(r, i) + r.remain[r.list[j]]
    BY ONLY <1>4, ListedFacts
  <2>2. Until(r, 1) = Until(r, 0) + r.remain[t] /\ Until(r, 0) = 0
    BY ONLY <2>1, <2>4
  <2>3. r.remain[t] \in Nat
    BY <1>4, ListedFacts
  <2> QED BY <1>3, <2>2, <2>3
<1>6. 1 .. Len(r.list) = {1}
  <2>1. Len(r.list) = 1
    BY ONLY <1>2, <1>3
  <2> QED BY ONLY <2>1
<1>7. Ends(r) = {<<t, s.remain[t]>>}
  BY <1>2, <1>3, <1>5, <1>6 DEF Ends
<1>8. ToSet(r.list) = {t} /\ ToSet(s.list) = {}
  BY <1>2, <1>3 DEF ToSet
<1> QED BY <1>3, <1>4, <1>7, <1>8 DEF Joined

(* The end of a timer that is linked, counted from the time base, fits the    *)
(* counter. *)
LEMMA DeltaIs ==
  ASSUME NEW b \in 0 .. Wrap - 1, NEW time \in 0 .. Wrap - 1, NEW n \in Nat,
         2 * n < Wrap, 2 * Since(time, b) <= Wrap
  PROVE  (time + n - b) % Wrap = n + Since(time, b)
<1>1. Wrap \in Nat /\ Wrap > 0
  BY TmrAssumption
<1>2. PICK d \in Nat : d = Since(time, b) /\ d = IF time >= b THEN time - b ELSE time - b + Wrap
  BY SinceIs
<1>3. n + d < Wrap
  BY <1>1, <1>2
<1>4. PICK x \in Int : x = time + n - b
  OBVIOUS
<1>5. x = n + d \/ x = n + d - Wrap
  BY <1>1, <1>2, <1>4
<1>6. x % Wrap = IF x < 0 THEN x + Wrap ELSE IF x < Wrap THEN x ELSE x - Wrap
  <2>1. 0 <= x + Wrap /\ x < Wrap + Wrap
    BY <1>1, <1>3, <1>5
  <2> QED BY <2>1, ModIs
<1>7. x % Wrap = n + d
  BY <1>1, <1>2, <1>3, <1>5, <1>6
<1> QED BY <1>2, <1>4, <1>7

(* OS_TmrLink: what is there ends when it did, and the timer when it should.  *)
LinkedIn(r, s, t, time, d) ==
  \/ /\ r.signal /\ r.base = time
     /\ IF s.list = <<>> THEN Joined(r, s, t, {<<t, s.remain[t]>>})
        ELSE Joined(r, s, t, Later(Ends(s), d) \cup {<<t, s.remain[t]>>})
  \/ /\ s.list # <<>> /\ r.signal = s.signal /\ r.base = s.base
     /\ Joined(r, s, t, Ends(s) \cup {<<t, s.remain[t] + d>>})
     /\ \E f \in Ends(s) : f[2] <= s.remain[t] + d

LEMMA LinkFields ==
  ASSUME NEW s, Listed(s), NEW t \in Timer \ ToSet(s.list), NEW time \in 0 .. Wrap - 1,
         NEW d, d = Since(time, s.base), 2 * s.remain[t] < Wrap,
         s.list # <<>> => 2 * d <= Wrap, NEW r, r = Link(s, t, time)
  PROVE  LinkedIn(r, s, t, time, d)
<1> DEFINE n == Len(s.list)
<1>0. /\ n \in Nat /\ s.base \in 0 .. Wrap - 1 /\ s.remain[t] \in Nat
      /\ s.list \in Seq(Timer) /\ \A j \in 1 .. n : Until(s, j) \in Nat
  <2>1. \A j \in 1 .. n : j \in 0 .. n
    BY ListedFacts
  <2> QED BY <2>1, ListedFacts, DataIs DEF Listed
<1>1. d \in Nat
  BY <1>0, SinceIs
<1>2. PICK delta : delta = (time + s.remain[t] - s.base) % Wrap
  OBVIOUS
<1>3. PICK S : S = {j \in 1 .. n + 1 : j > n \/ delta < Until(s, j)}
  OBVIOUS
<1>4. PICK i : i = Min(S)
  OBVIOUS
<1>5. PICK first : first = Ahead(s, t, time)
  OBVIOUS
<1>6. r = CASE s.list = <<>> -> first
            [] s.list # <<>> /\ i = 1 -> [first EXCEPT !.remain[s.list[1]] = @ - delta]
            [] OTHER -> LinkAt(s, t, i, delta)
  BY <1>2, <1>3, <1>4, <1>5 DEF Link, Ahead
<1>7. CASE s.list = <<>>
  <2>1. r = first
    BY <1>6, <1>7
  <2>2. r = Ahead(s, t, time)
    BY <1>5, <2>1
  <2>3. Alone(s, t, time)
    BY <1>7 DEF Alone
  <2>4. Joined(r, s, t, {<<t, s.remain[t]>>}) /\ r.base = time /\ r.signal
    BY ONLY <2>2, <2>3, AloneIs
  <2> QED BY <1>7, <2>4 DEF LinkedIn
<1>8. CASE s.list # <<>>
  <2>1. 1 \in 1 .. n
    BY <1>0, <1>8
  <2>2. delta = s.remain[t] + d /\ delta \in Nat
    <3>1. 2 * Since(time, s.base) <= Wrap
      BY <1>8
    <3>2. (time + s.remain[t] - s.base) % Wrap = s.remain[t] + Since(time, s.base)
      BY <1>0, <3>1, DeltaIs
    <3> QED BY <1>0, <1>1, <1>2, <3>2
  <2>3. i \in S /\ \A j \in S : i <= j
    <3>1. n + 1 \in S /\ S \subseteq Nat
      BY <1>0, <1>3
    <3> QED BY <1>4, <3>1, MinIs
  <2>4. i \in 1 .. n + 1 /\ (i <= n => delta < Until(s, i))
    BY <1>0, <1>3, <2>3
  <2>5. ASSUME NEW j \in 1 .. n, j < i PROVE Until(s, j) <= delta
    <3>1. j \notin S /\ j \in 1 .. n + 1
      BY <1>0, <2>3, <2>4, <2>5
    <3>2. ~(delta < Until(s, j))
      BY <1>3, <3>1
    <3> QED BY <1>0, <2>2, <3>2
  <2>6. CASE i = 1
    <3>1. r = [first EXCEPT !.remain[s.list[1]] = @ - delta]
      BY <1>6, <1>8, <2>6
    <3>2. r = AheadOf(s, t, time, delta)
      BY <1>5, <3>1 DEF AheadOf
    <3>3. delta < Until(s, 1)
      BY <1>0, <2>1, <2>4, <2>6
    <3>4. /\ Joined(r, s, t, Later(Ends(s), d) \cup {<<t, s.remain[t]>>})
          /\ r.base = time /\ r.signal
      <4>1. Precedes(s, t, time, d, delta)
        BY <1>1, <1>8, <2>2, <3>3 DEF Precedes
      <4> QED BY ONLY <3>2, <4>1, FirstIs
    <3> QED BY <1>8, <3>4 DEF LinkedIn
  <2>7. CASE i # 1
    <3>1. r = LinkAt(s, t, i, delta)
      BY <1>6, <1>8, <2>7
    <3>2. /\ Joined(r, s, t, Ends(s) \cup {<<t, delta>>})
          /\ r.base = s.base /\ r.signal = s.signal
      <4>1. Fits(s, t, i, delta)
        BY <2>2, <2>4, <2>5 DEF Fits
      <4> QED BY ONLY <3>1, <4>1, LinkAtIs
    <3>3. \E f \in Ends(s) : f[2] <= s.remain[t] + d
      <4>1. 1 < i
        BY <1>0, <2>4, <2>7
      <4>2. Until(s, 1) <= delta
        BY <2>1, <2>5, <4>1
      <4>3. <<s.list[1], Until(s, 1)>> \in Ends(s)
        BY <2>1 DEF Ends
      <4> QED BY <2>2, <4>2, <4>3
    <3> QED BY <1>8, <2>2, <3>2, <3>3 DEF LinkedIn
  <2> QED BY <2>6, <2>7
<1> QED BY <1>7, <1>8

LEMMA UpIs == \A x \in Nat, y \in Nat : Up((x - y) + y) = x
<1> QED BY DEF Up

(* OS_TmrLink leaves the list sound, with the timer. *)
StartedAt(lf, t, n, time) == [lf EXCEPT ![t] = n - Since(tick, time)]

LEMMA LinkIs ==
  ASSUME NEW s, NEW lf, Sound(s, lf), NEW t \in Timer \ ToSet(s.list), NEW time, Timely(s, time),
         2 * s.remain[t] < Wrap, NEW r, r = Link(s, t, time),
         NEW lg, lg = StartedAt(lf, t, s.remain[t], time)
  PROVE  /\ Sound(r, lg) /\ Same(r, s) /\ Timely(r, time) /\ Quiet(r, s)
         /\ (r.base = s.base \/ r.base = time)
         /\ ToSet(r.list) = ToSet(s.list) \cup {t}
         /\ \A x \in Timer \ ToSet(r.list) : r.remain[x] = s.remain[x]
<1>1. /\ Listed(s) /\ lf \in [Timer -> Int] /\ tick \in 0 .. Wrap - 1 /\ time \in 0 .. Wrap - 1
      /\ s.base \in 0 .. Wrap - 1 /\ s.remain[t] \in Nat /\ Wrap \in Nat
  BY DataIs, TmrAssumption DEF Sound, Timely, Listed
<1>2. PICK d \in Nat : d = Since(time, s.base)
  BY <1>1, SinceIs
<1>3. PICK c \in Nat : c = Since(tick, time)
  BY <1>1, SinceIs
<1>4. s.list # <<>> => Since(tick, s.base) = c + d /\ 2 * (c + d) <= Wrap /\ 2 * d <= Wrap
  <2>1. ASSUME s.list # <<>> PROVE Since(tick, s.base) = c + d /\ 2 * (c + d) <= Wrap
    BY <1>1, <1>2, <1>3, <2>1, SinceAdds DEF Sound, Timely
  <2> QED BY <1>1, <2>1
<1>5. LinkedIn(r, s, t, time, d)
  <2>1. s.list # <<>> => 2 * d <= Wrap
    BY <1>4
  <2> QED BY <1>1, <1>2, <2>1, LinkFields
<1>6. lg \in [Timer -> Int] /\ lg[t] = s.remain[t] - c /\ \A x \in Timer : x # t => lg[x] = lf[x]
  BY <1>1, <1>3 DEF StartedAt
<1>7. \A e \in Ends(s) : e[1] # t /\ lg[e[1]] = lf[e[1]] /\ e[2] \in Nat
  <2>1. ToSet(s.list) \subseteq Timer
    BY <1>1, ListedTimers
  <2> QED BY <1>1, <1>6, <2>1, EndsNat
<1>8. ASSUME NEW E, Joined(r, s, t, E)
      PROVE  /\ Listed(r) /\ Same(r, s) /\ r.drift = s.drift
             /\ Ends(r) = E /\ ToSet(r.list) = ToSet(s.list) \cup {t} /\ r.list # <<>>
             /\ \A x \in Timer \ ToSet(r.list) : r.remain[x] = s.remain[x]
  <2>1. ToSet(r.list) # {}
    BY <1>8 DEF Joined
  <2>2. r.list # <<>>
    BY <2>1 DEF ToSet
  <2> QED BY <1>8, <2>2 DEF Joined
<1>9. <<t, s.remain[t]>>[1] = t /\ <<t, s.remain[t]>>[2] = s.remain[t]
  OBVIOUS
<1>10. s.remain[t] = Up(lg[t] + c) /\ s.remain[t] <= Up(lg[t] + c)
  <2>1. PICK v \in Nat : v = s.remain[t]
    BY <1>1
  <2>2. lg[t] + c = (v - c) + c /\ v <= v
    BY <1>6, <2>1
  <2>3. Up((v - c) + c) = v
    BY ONLY UpIs
  <2> QED BY ONLY <2>1, <2>2, <2>3
<1>11. CASE r.signal /\ r.base = time /\ s.list = <<>> /\ Joined(r, s, t, {<<t, s.remain[t]>>})
  <2>1. Ends(r) = {<<t, s.remain[t]>>}
    BY <1>8, <1>11
  <2>2. Sound(r, lg)
    <3>1. ASSUME NEW e \in Ends(r)
          PROVE  /\ e[2] <= Up(lg[e[1]] + Since(tick, r.base))
                 /\ ~r.drift => e[2] = Up(lg[e[1]] + Since(tick, r.base))
      <4>1. e[1] = t /\ e[2] = s.remain[t]
        BY <1>9, <2>1
      <4> QED BY <1>3, <1>10, <1>11, <4>1
    <3>2. 2 * Since(tick, time) <= Wrap
      BY DEF Timely
    <3> QED BY <1>1, <1>6, <1>8, <1>11, <3>1, <3>2 DEF Sound
  <2>3. Quiet(r, s)
    BY <1>11 DEF Quiet
  <2>4. Timely(r, time)
    BY <1>3, <1>11 DEF Timely
  <2> QED BY <1>8, <1>11, <2>2, <2>3, <2>4
<1>12. CASE /\ r.signal /\ r.base = time /\ s.list # <<>>
            /\ Joined(r, s, t, Later(Ends(s), d) \cup {<<t, s.remain[t]>>})
  <2>1. Ends(r) = Later(Ends(s), d) \cup {<<t, s.remain[t]>>} /\ r.drift = s.drift
    BY <1>8, <1>12
  <2>2. Sound(r, lg)
    <3>1. ASSUME NEW e \in Ends(r)
          PROVE  /\ e[2] <= Up(lg[e[1]] + Since(tick, r.base))
                 /\ ~r.drift => e[2] = Up(lg[e[1]] + Since(tick, r.base))
      <4>1. CASE e = <<t, s.remain[t]>>
        <5>1. e[1] = t /\ e[2] = s.remain[t]
          BY <1>9, <4>1
        <5> QED BY <1>3, <1>10, <1>12, <5>1
      <4>2. CASE e \in Later(Ends(s), d)
        <5>1. PICK f \in Ends(s) : e = <<f[1], IF f[2] > d THEN f[2] - d ELSE 0>>
          BY <4>2 DEF Later
        <5>2. /\ e[1] = f[1] /\ e[2] <= Up(lf[e[1]] + Since(tick, time))
              /\ ~s.drift => e[2] = Up(lf[e[1]] + Since(tick, time))
          <6>1. s.list # <<>>
            BY <1>12
          <6> QED BY ONLY <1>2, <5>1, <6>1, LaterSound, Sound(s, lf), Timely(s, time)
        <5>3. lg[e[1]] = lf[e[1]]
          BY <1>7, <5>2
        <5> QED BY <1>12, <2>1, <5>2, <5>3
      <4> QED BY <2>1, <4>1, <4>2
    <3>2. 2 * Since(tick, time) <= Wrap
      BY DEF Timely
    <3> QED BY <1>1, <1>6, <1>8, <1>12, <3>1, <3>2 DEF Sound
  <2>3. Quiet(r, s)
    BY <1>12 DEF Quiet
  <2>4. Timely(r, time)
    BY <1>3, <1>12 DEF Timely
  <2> QED BY <1>8, <1>12, <2>2, <2>3, <2>4
<1>13. CASE /\ s.list # <<>> /\ r.signal = s.signal /\ r.base = s.base
            /\ Joined(r, s, t, Ends(s) \cup {<<t, s.remain[t] + d>>})
            /\ \E f \in Ends(s) : f[2] <= s.remain[t] + d
  <2>1. Ends(r) = Ends(s) \cup {<<t, s.remain[t] + d>>} /\ r.drift = s.drift
    BY <1>8, <1>13
  <2>2. Sound(r, lg)
    <3>1. ASSUME NEW e \in Ends(r)
          PROVE  /\ e[2] <= Up(lg[e[1]] + Since(tick, r.base))
                 /\ ~r.drift => e[2] = Up(lg[e[1]] + Since(tick, r.base))
      <4>1. CASE e = <<t, s.remain[t] + d>>
        <5>1. e[1] = t /\ e[2] = s.remain[t] + d
          BY <4>1
        <5>2. s.remain[t] + d = Up(lg[t] + (c + d)) /\ s.remain[t] + d <= Up(lg[t] + (c + d))
          <6>1. \A v, x, y \in Nat : (v - x) + (x + y) = v + y
            OBVIOUS
          <6>2. lg[t] + (c + d) = s.remain[t] + d /\ s.remain[t] + d \in Nat
            BY <1>1, <1>6, <6>1
          <6> QED BY <6>2 DEF Up
        <5> QED BY <1>4, <1>13, <5>1, <5>2
      <4>2. CASE e \in Ends(s)
        BY <1>7, <1>13, <2>1, <4>2 DEF Sound
      <4> QED BY <2>1, <4>1, <4>2
    <3> QED BY <1>1, <1>6, <1>8, <1>13, <3>1 DEF Sound
  <2>3. Quiet(r, s)
    <3>1. ASSUME NEW e \in Ends(r) PROVE \E f \in Ends(s) : f[2] <= e[2]
      <4>1. CASE e = <<t, s.remain[t] + d>>
        BY <1>13, <4>1
      <4>2. CASE e \in Ends(s)
        <5>1. e[2] <= e[2]
          BY <1>7, <4>2
        <5> QED BY <4>2, <5>1
      <4> QED BY <2>1, <4>1, <4>2
    <3>2. Ends(s) # {} /\ Ends(r) # {}
      BY <1>13, <2>1
    <3>3. Overdue(s) => Overdue(r)
      BY <2>1 DEF Overdue
    <3> QED BY <1>13, <3>1, <3>2, <3>3 DEF Quiet
  <2>4. Timely(r, time)
    BY <1>13 DEF Timely
  <2> QED BY <1>8, <1>13, <2>2, <2>3, <2>4
<1> QED BY <1>5, <1>11, <1>12, <1>13 DEF LinkedIn

-----------------------------------------------------------------------------
(* The bodies of the calls. *)

LEMMA QuietSelf == ASSUME NEW s, Listed(s) PROVE Quiet(s, s)
<1>1. \A e \in Ends(s) : e[2] <= e[2]
  BY EndsNat
<1> QED BY <1>1 DEF Quiet

(* What is not about the list leaves it as it is. *)
Beside(r, s) ==
  /\ Data(r) /\ r.list = s.list /\ r.base = s.base /\ r.drift = s.drift /\ r.signal = s.signal
  /\ \A x \in ToSet(s.list) : r.remain[x] = s.remain[x]

LEMMA BesideIs ==
  ASSUME NEW s, NEW lf, Sound(s, lf), NEW r, Beside(r, s)
  PROVE  /\ Sound(r, lf) /\ Quiet(r, s) /\ Ends(r) = Ends(s)
         /\ \A time : Timely(s, time) => Timely(r, time)
<1>1. Listed(s) /\ Listed(r)
  BY DEF Sound, Beside, Listed
<1>2. Ends(r) = Ends(s)
  BY <1>1, SameEnds DEF Beside
<1>3. Sound(r, lf)
  BY <1>1, <1>2 DEF Sound, Beside
<1>4. \A e \in Ends(s) : e[2] <= e[2]
  BY <1>1, EndsNat
<1>5. Quiet(r, s)
  BY <1>2, <1>4 DEF Quiet, Beside, Overdue
<1>6. \A time : Timely(s, time) => Timely(r, time)
  BY DEF Timely, Beside
<1> QED BY <1>2, <1>3, <1>5, <1>6

Running(s) == {t \in Timer : Linked(s, t)}
Halves(s) == \A t \in Timer : 2 * s.dly[t] < Wrap /\ 2 * s.period[t] < Wrap
Rest(s) == \A x \in Timer \ ToSet(s.list) : s.remain[x] < Wrap
Bounds(lf) == \A t \in Timer : -LateMax <= lf[t] /\ 2 * lf[t] < Wrap
Good(s, lf) ==
  Sound(s, lf) /\ ToSet(s.list) = Running(s) /\ Halves(s) /\ Rest(s) /\ Bounds(lf)

(* The result of a body about the timer t, at the time it has read. *)
Fine(r, s, t, lg, time) ==
  /\ Good(r, lg) /\ Timely(r, time) /\ Quiet(r, s) /\ (r.base = s.base \/ r.base = time)
  /\ \A x \in Timer : x # t => r.state[x] = s.state[x]

(* The timer is taken from the list, if it is there. *)
Dropped(u, s, lf, t, time) ==
  /\ Sound(u, lf) /\ Same(u, s) /\ Timely(u, time) /\ Quiet(u, s)
  /\ (u.base = s.base \/ u.base = time)
  /\ ToSet(u.list) = ToSet(s.list) \ {t} /\ Rest(u)

LEMMA DropIs ==
  ASSUME NEW s, NEW lf, Good(s, lf), NEW t \in Timer, NEW time, Timely(s, time),
         NEW u, u = IF Linked(s, t) THEN Unlink(s, t, time) ELSE s
  PROVE  Dropped(u, s, lf, t, time)
<1>1. Sound(s, lf) /\ Listed(s) /\ Rest(s) /\ (t \in ToSet(s.list) <=> Linked(s, t))
  BY DEF Good, Sound, Running
<1>2. CASE ~Linked(s, t)
  <2>1. Quiet(s, s)
    BY <1>1, QuietSelf
  <2>2. u = s /\ ToSet(s.list) = ToSet(s.list) \ {t}
    BY <1>1, <1>2
  <2> QED BY <1>1, <2>1, <2>2 DEF Dropped, Same
<1>3. CASE Linked(s, t)
  <2>1. u = Unlink(s, t, time) /\ t \in ToSet(s.list)
    BY <1>1, <1>3
  <2>2. /\ Sound(u, lf) /\ Same(u, s) /\ Timely(u, time) /\ Quiet(u, s)
        /\ (u.base = s.base \/ u.base = time)
        /\ ToSet(u.list) = ToSet(s.list) \ {t} /\ u.remain[t] = 0
        /\ \A x \in Timer \ ToSet(s.list) : u.remain[x] = s.remain[x]
    BY <1>1, <2>1, UnlinkIs
  <2>3. Rest(u)
    <3>1. 0 < Wrap
      BY TmrAssumption
    <3> QED BY <1>1, <2>2, <3>1 DEF Rest
  <2> QED BY <2>2, <2>3 DEF Dropped
<1> QED BY <1>2, <1>3

(* Then it stays out of the list. *)
LEMMA LayIs ==
  ASSUME NEW s, NEW lf, Good(s, lf), NEW t \in Timer, NEW time, NEW u,
         Dropped(u, s, lf, t, time), NEW r, Beside(r, u), Rest(r), Halves(r),
         r.state = [u.state EXCEPT ![t] = r.state[t]], ~Linked(r, t),
         NEW lg, lg = [lf EXCEPT ![t] = 0]
  PROVE  Fine(r, s, t, lg, time)
<1>1. /\ Sound(u, lf) /\ Same(u, s) /\ Timely(u, time) /\ Quiet(u, s) /\ Listed(u) /\ Listed(s)
      /\ (u.base = s.base \/ u.base = time) /\ ToSet(u.list) = ToSet(s.list) \ {t}
      /\ lf \in [Timer -> Int] /\ r.list = u.list /\ r.base = u.base
  BY DEF Dropped, Sound, Good, Beside
<1>2. Sound(r, lf) /\ Quiet(r, u) /\ Timely(r, time) /\ Listed(r)
  <2>1. Sound(r, lf) /\ Quiet(r, u) /\ Timely(r, time)
    BY <1>1, BesideIs
  <2> QED BY <2>1 DEF Sound
<1>3. Quiet(r, s)
  BY <1>1, <1>2, QuietTwice
<1>4. lg \in [Timer -> Int] /\ lg[t] = 0 /\ \A x \in Timer : x # t => lg[x] = lf[x]
  BY <1>1
<1>5. \A x \in ToSet(r.list) : lg[x] = lf[x]
  <2>1. ToSet(r.list) \subseteq Timer
    BY <1>2, ListedTimers
  <2> QED BY <1>1, <1>4, <2>1
<1>6. Sound(r, lg)
  BY <1>2, <1>4, <1>5, SoundElse
<1>7. \A x \in Timer : x # t => r.state[x] = s.state[x]
  <2>1. u.state \in [Timer -> States] /\ u.state = s.state
    BY <1>1, DataIs DEF Listed, Same
  <2> QED BY <2>1
<1>8. ToSet(r.list) = Running(r)
  <2>1. ToSet(s.list) = Running(s)
    BY DEF Good
  <2>2. Running(r) = Running(s) \ {t}
    BY <1>7 DEF Running, Linked
  <2> QED BY <1>1, <2>1, <2>2
<1>9. Bounds(lg)
  <2>1. -LateMax <= 0 /\ 2 * 0 < Wrap
    BY TmrAssumption
  <2> QED BY <1>4, <2>1 DEF Bounds, Good
<1> QED BY <1>1, <1>2, <1>3, <1>6, <1>7, <1>8, <1>9 DEF Fine, Good

(* Or it is linked again. *)
Armed(u, t, n) == [u EXCEPT !.state[t] = "running", !.remain[t] = n]

LEMMA RelinkIs ==
  ASSUME NEW s, NEW lf, Good(s, lf), NEW t \in Timer, NEW time, NEW u,
         Dropped(u, s, lf, t, time), NEW n \in Nat, 2 * n < Wrap, Since(tick, time) <= LateMax,
         NEW w, w = Armed(u, t, n), NEW r, r = Link(w, t, time),
         NEW lg, lg = StartedAt(lf, t, n, time)
  PROVE  Fine(r, s, t, lg, time)
<1>1. /\ Sound(u, lf) /\ Same(u, s) /\ Timely(u, time) /\ Quiet(u, s) /\ Listed(u) /\ Listed(s)
      /\ (u.base = s.base \/ u.base = time) /\ ToSet(u.list) = ToSet(s.list) \ {t} /\ Rest(u)
      /\ lf \in [Timer -> Int]
  BY DEF Dropped, Sound, Good
<1>2. PICK g : g = [u.remain EXCEPT ![t] = n]
  OBVIOUS
<1>3. PICK h : h = [u.state EXCEPT ![t] = "running"]
  OBVIOUS
<1>4. w = [u EXCEPT !.state = h, !.remain = g]
  BY <1>2, <1>3 DEF Armed
<1>5. Data(u) /\ u.remain \in [Timer -> Nat] /\ u.state \in [Timer -> States]
  BY <1>1, DataIs DEF Listed
<1>6. h \in [Timer -> States] /\ g \in [Timer -> Nat] /\ h[t] = "running" /\ g[t] = n
  BY <1>2, <1>3, <1>5 DEF States
<1>7. /\ Data(w) /\ w.list = u.list /\ w.base = u.base /\ w.drift = u.drift /\ w.signal = u.signal
      /\ w.state = h /\ w.remain = g /\ w.dly = u.dly /\ w.period = u.period
  BY <1>4, <1>5, <1>6 DEF Data
<1>8. ToSet(u.list) \subseteq Timer
  BY <1>1, ListedTimers
<1>9. Beside(w, u)
  <2>1. \A x \in ToSet(u.list) : g[x] = u.remain[x]
    BY <1>1, <1>2, <1>5, <1>8
  <2> QED BY <1>7, <2>1 DEF Beside
<1>10. Sound(w, lf) /\ Quiet(w, u) /\ Timely(w, time) /\ Listed(w)
  <2>1. Sound(w, lf) /\ Quiet(w, u) /\ Timely(w, time)
    BY <1>1, <1>9, BesideIs
  <2> QED BY <2>1 DEF Sound
<1>11. t \in Timer \ ToSet(w.list) /\ w.remain[t] = n
  BY <1>1, <1>6, <1>7
<1>12. lg = StartedAt(lf, t, w.remain[t], time) /\ 2 * w.remain[t] < Wrap /\ r = Link(w, t, time)
  BY <1>11 DEF StartedAt
<1>13. /\ Sound(r, lg) /\ Same(r, w) /\ Timely(r, time) /\ Quiet(r, w)
       /\ (r.base = w.base \/ r.base = time)
       /\ ToSet(r.list) = ToSet(w.list) \cup {t}
       /\ \A x \in Timer \ ToSet(r.list) : r.remain[x] = w.remain[x]
  BY ONLY <1>10, <1>11, <1>12, LinkIs
<1>14. Listed(r)
  BY <1>13 DEF Sound
<1>15. Quiet(r, s)
  <2>1. Quiet(w, s)
    BY <1>1, <1>10, QuietTwice
  <2> QED BY <1>1, <1>10, <1>13, <1>14, <2>1, QuietTwice
<1>16. r.state = h /\ r.dly = s.dly /\ r.period = s.period
  BY <1>1, <1>7, <1>13 DEF Same
<1>17. \A x \in Timer : x # t => r.state[x] = s.state[x]
  <2>1. u.state = s.state
    BY <1>1 DEF Same
  <2> QED BY <1>3, <1>5, <1>16, <2>1
<1>18. ToSet(r.list) = Running(r)
  <2>1. ToSet(s.list) = Running(s)
    BY DEF Good
  <2>2. Running(r) = Running(s) \cup {t}
    BY <1>6, <1>16, <1>17 DEF Running, Linked
  <2> QED BY <1>1, <1>7, <1>13, <2>1, <2>2
<1>19. Halves(r)
  BY <1>16 DEF Halves, Good
<1>20. Rest(r)
  <2>1. ASSUME NEW x \in Timer \ ToSet(r.list) PROVE r.remain[x] < Wrap
    <3>1. x # t /\ x \in Timer \ ToSet(u.list) /\ r.remain[x] = w.remain[x]
      BY <1>7, <1>13, <2>1
    <3>2. w.remain[x] = u.remain[x]
      BY <1>2, <1>5, <1>7, <3>1
    <3> QED BY <1>1, <3>1, <3>2 DEF Rest
  <2> QED BY <2>1 DEF Rest
<1>21. Bounds(lg)
  <2>1. PICK c \in Nat : c = Since(tick, time) /\ c <= LateMax
    BY <1>1, SinceIs DEF Sound, Timely
  <2>2. lg[t] = n - c /\ \A x \in Timer : x # t => lg[x] = lf[x]
    BY <1>1, <2>1 DEF StartedAt
  <2>3. -LateMax <= n - c /\ 2 * (n - c) < Wrap
    BY <2>1, TmrAssumption
  <2> QED BY <2>2, <2>3 DEF Bounds, Good
<1>22. r.base = s.base \/ r.base = time
  BY <1>1, <1>7, <1>13
<1> QED BY <1>13, <1>15, <1>17, <1>18, <1>19, <1>20, <1>21, <1>22 DEF Fine, Good

LEMMA StopIs ==
  ASSUME NEW s, NEW lf, Good(s, lf), NEW t \in Timer, NEW time, Timely(s, time),
         NEW r, r = Stop(s, t, time), NEW lg, lg = [lf EXCEPT ![t] = 0]
  PROVE  Fine(r, s, t, lg, time) /\ ~Linked(r, t)
<1>1. PICK u : u = IF Linked(s, t) THEN Unlink(s, t, time) ELSE s
  OBVIOUS
<1>2. Dropped(u, s, lf, t, time)
  BY <1>1, DropIs
<1>3. Data(s) /\ Data(u) /\ Rest(u) /\ Halves(s) /\ Same(u, s)
  BY <1>2 DEF Dropped, Good, Sound, Listed
<1>4. u.state \in [Timer -> States] /\ s.state \in [Timer -> States] /\ u.state = s.state
  BY <1>3, DataIs DEF Same
<1>5. CASE s.state[t] = "unused"
  <2>1. r = s /\ u = s /\ ~Linked(r, t)
    BY <1>1, <1>5 DEF Stop, Linked
  <2>2. Beside(r, u) /\ r.state = [u.state EXCEPT ![t] = r.state[t]]
    BY <1>3, <1>4, <2>1 DEF Beside
  <2> QED BY <1>2, <1>3, <2>1, <2>2, LayIs
<1>6. CASE s.state[t] # "unused"
  <2>1. PICK h : h = [u.state EXCEPT ![t] = "stopped"]
    OBVIOUS
  <2>2. r = [u EXCEPT !.state = h]
    BY <1>1, <1>6, <2>1 DEF Stop
  <2>3. h \in [Timer -> States] /\ h[t] = "stopped"
    BY <1>4, <2>1 DEF States
  <2>4. /\ Data(r) /\ r.list = u.list /\ r.base = u.base /\ r.drift = u.drift /\ r.signal = u.signal
        /\ r.remain = u.remain /\ r.state = h /\ r.dly = u.dly /\ r.period = u.period
    BY <1>3, <2>2, <2>3 DEF Data
  <2>5. Beside(r, u) /\ Rest(r) /\ Halves(r)
    BY <1>3, <2>4 DEF Beside, Rest, Halves, Same
  <2>6. ~Linked(r, t) /\ r.state = [u.state EXCEPT ![t] = r.state[t]]
    BY <2>1, <2>3, <2>4 DEF Linked
  <2> QED BY <1>2, <2>5, <2>6, LayIs
<1> QED BY <1>5, <1>6

LEMMA DelIs ==
  ASSUME NEW s, NEW lf, Good(s, lf), NEW t \in Timer, NEW time, Timely(s, time),
         NEW r, r = Del(s, t, time), NEW lg, lg = [lf EXCEPT ![t] = 0]
  PROVE  Fine(r, s, t, lg, time) /\ ~Linked(r, t)
<1>1. PICK u : u = IF Linked(s, t) THEN Unlink(s, t, time) ELSE s
  OBVIOUS
<1>2. Dropped(u, s, lf, t, time)
  BY <1>1, DropIs
<1>3. Data(s) /\ Data(u) /\ Rest(u) /\ Halves(s) /\ Same(u, s)
  BY <1>2 DEF Dropped, Good, Sound, Listed
<1>4. /\ u.state \in [Timer -> States] /\ u.state = s.state
      /\ u.dly \in [Timer -> 0 .. Wrap - 1] /\ u.period \in [Timer -> 0 .. Wrap - 1]
      /\ u.dly = s.dly /\ u.period = s.period /\ 0 \in 0 .. Wrap - 1 /\ 2 * 0 < Wrap
  BY <1>3, DataIs, TmrAssumption DEF Same
<1>5. PICK h : h = [u.state EXCEPT ![t] = "unused"]
  OBVIOUS
<1>6. PICK f : f = [u.dly EXCEPT ![t] = 0]
  OBVIOUS
<1>7. PICK g : g = [u.period EXCEPT ![t] = 0]
  OBVIOUS
<1>8. r = [u EXCEPT !.state = h, !.dly = f, !.period = g]
  <2>1. r = [u EXCEPT !.state[t] = "unused", !.dly[t] = 0, !.period[t] = 0]
    BY <1>1 DEF Del
  <2> QED BY <1>3, <1>5, <1>6, <1>7, <2>1 DEF Data
<1>9. /\ h \in [Timer -> States] /\ f \in [Timer -> 0 .. Wrap - 1] /\ g \in [Timer -> 0 .. Wrap - 1]
      /\ h[t] = "unused"
  BY <1>4, <1>5, <1>6, <1>7 DEF States
<1>10. \A x \in Timer : 2 * f[x] < Wrap /\ 2 * g[x] < Wrap
  BY <1>3, <1>4, <1>6, <1>7 DEF Halves
<1>11. /\ Data(r) /\ r.list = u.list /\ r.base = u.base /\ r.drift = u.drift /\ r.signal = u.signal
       /\ r.remain = u.remain /\ r.state = h /\ r.dly = f /\ r.period = g
  BY <1>3, <1>8, <1>9 DEF Data
<1>12. Beside(r, u) /\ Rest(r) /\ Halves(r)
  BY <1>3, <1>10, <1>11 DEF Beside, Rest, Halves
<1>13. ~Linked(r, t) /\ r.state = [u.state EXCEPT ![t] = r.state[t]]
  BY <1>5, <1>9, <1>11 DEF Linked
<1> QED BY <1>2, <1>12, <1>13, LayIs

LEMMA StartIs ==
  ASSUME NEW s, NEW lf, Good(s, lf), NEW t \in Timer, NEW time, Timely(s, time),
         Since(tick, time) <= LateMax, NEW r, r = Start(s, t, time),
         NEW lg, lg = IF s.state[t] = "unused" THEN lf
                      ELSE [lf EXCEPT ![t] = First(s, t) - Since(tick, time)]
  PROVE  Fine(r, s, t, lg, time)
<1>1. PICK u : u = IF Linked(s, t) THEN Unlink(s, t, time) ELSE s
  OBVIOUS
<1>2. Dropped(u, s, lf, t, time)
  BY <1>1, DropIs
<1>3. CASE s.state[t] = "unused"
  <2>1. r = s /\ lg = lf
    BY <1>3 DEF Start
  <2>2. Quiet(s, s)
    BY QuietSelf DEF Good, Sound
  <2> QED BY <2>1, <2>2 DEF Fine
<1>4. CASE s.state[t] # "unused"
  <2>1. PICK w : w = [u EXCEPT !.state[t] = "running", !.remain[t] = First(s, t)]
    OBVIOUS
  <2>2. r = Link(w, t, time) /\ lg = [lf EXCEPT ![t] = First(s, t) - Since(tick, time)]
    BY <1>1, <1>4, <2>1 DEF Start
  <2>3. PICK n \in Nat : n = First(s, t) /\ 2 * n < Wrap
    <3>1. Data(s) /\ Halves(s)
      BY DEF Good, Sound, Listed
    <3>2. s.dly \in [Timer -> 0 .. Wrap - 1] /\ s.period \in [Timer -> 0 .. Wrap - 1]
      BY <3>1, DataIs
    <3> QED BY <3>1, <3>2 DEF Halves, First
  <2>4. w = Armed(u, t, n) /\ lg = StartedAt(lf, t, n, time)
    BY <2>1, <2>2, <2>3 DEF Armed, StartedAt
  <2> QED BY <1>2, <2>2, <2>3, <2>4, RelinkIs
<1> QED BY <1>3, <1>4

LEMMA CreateIs ==
  ASSUME NEW s, NEW lf, Good(s, lf), NEW t \in Timer, NEW time, Timely(s, time), ~Linked(s, t),
         WithinHalfTurn, NEW r, r = Create(s, t)
  PROVE  Fine(r, s, t, lf, time) /\ ~Linked(r, t)
<1>1. /\ Data(s) /\ Rest(s) /\ Halves(s) /\ Sound(s, lf) /\ Listed(s) /\ Bounds(lf)
      /\ ToSet(s.list) = Running(s)
  BY DEF Good, Sound, Listed
<1>2. /\ s.state \in [Timer -> States] /\ s.remain \in [Timer -> Nat]
      /\ s.dly \in [Timer -> 0 .. Wrap - 1] /\ s.period \in [Timer -> 0 .. Wrap - 1]
      /\ Dly[t] \in 0 .. Wrap - 1 /\ Period[t] \in 0 .. Wrap - 1 /\ 0 < Wrap
  BY <1>1, DataIs, TmrAssumption
<1>3. t \notin ToSet(s.list) /\ ToSet(s.list) \subseteq Timer
  BY <1>1, ListedTimers DEF Running
<1>4. PICK h : h = [s.state EXCEPT ![t] = "stopped"]
  OBVIOUS
<1>5. h \in [Timer -> States] /\ h[t] = "stopped" /\ \A x \in Timer : x # t => h[x] = s.state[x]
  BY <1>2, <1>4 DEF States
<1>6. Beside(r, s) /\ r.state = h /\ Rest(r) /\ Halves(r)
  <2>1. CASE s.state[t] # "unused"
    <3>1. r = [s EXCEPT !.state = h]
      BY <1>4, <2>1 DEF Create
    <3>2. /\ Data(r) /\ r.list = s.list /\ r.base = s.base /\ r.drift = s.drift /\ r.signal = s.signal
          /\ r.remain = s.remain /\ r.state = h /\ r.dly = s.dly /\ r.period = s.period
      BY <1>1, <1>5, <3>1 DEF Data
    <3> QED BY <1>1, <3>2 DEF Beside, Rest, Halves
  <2>2. CASE s.state[t] = "unused"
    <3>1. PICK a : a = [s.remain EXCEPT ![t] = 0]
      OBVIOUS
    <3>2. PICK f : f = [s.dly EXCEPT ![t] = Dly[t]]
      OBVIOUS
    <3>3. PICK g : g = [s.period EXCEPT ![t] = Period[t]]
      OBVIOUS
    <3>4. r = [s EXCEPT !.state = h, !.remain = a, !.dly = f, !.period = g]
      <4>1. r = [s EXCEPT !.state[t] = "stopped", !.remain[t] = 0,
                          !.dly[t] = Dly[t], !.period[t] = Period[t]]
        BY <2>2 DEF Create
      <4> QED BY <1>1, <1>4, <3>1, <3>2, <3>3, <4>1 DEF Data
    <3>5. /\ a \in [Timer -> Nat] /\ f \in [Timer -> 0 .. Wrap - 1] /\ g \in [Timer -> 0 .. Wrap - 1]
          /\ a[t] = 0 /\ \A x \in Timer : x # t => a[x] = s.remain[x]
      BY <1>2, <3>1, <3>2, <3>3
    <3>6. \A x \in Timer : 2 * f[x] < Wrap /\ 2 * g[x] < Wrap
      BY <1>1, <1>2, <3>2, <3>3 DEF Halves, WithinHalfTurn
    <3>7. /\ Data(r) /\ r.list = s.list /\ r.base = s.base /\ r.drift = s.drift /\ r.signal = s.signal
          /\ r.remain = a /\ r.state = h /\ r.dly = f /\ r.period = g
      BY <1>1, <1>5, <3>4, <3>5 DEF Data
    <3>8. Beside(r, s)
      BY <1>3, <3>5, <3>7 DEF Beside
    <3>9. Rest(r)
      BY <1>1, <1>2, <3>5, <3>7 DEF Rest
    <3> QED BY <3>6, <3>7, <3>8, <3>9 DEF Halves
  <2> QED BY <2>1, <2>2
<1>7. Sound(r, lf) /\ Quiet(r, s) /\ Timely(r, time)
  BY <1>1, <1>6, BesideIs
<1>8. ToSet(r.list) = Running(r) /\ ~Linked(r, t)
  <2>1. Running(r) = Running(s) /\ ~Linked(r, t)
    BY <1>5, <1>6 DEF Running, Linked
  <2> QED BY <1>1, <1>6, <2>1 DEF Beside
<1> QED BY <1>1, <1>5, <1>6, <1>7, <1>8 DEF Fine, Good, Beside

LEMMA SetIs ==
  ASSUME NEW s, NEW lf, Good(s, lf), NEW t \in Timer, NEW time, Timely(s, time),
         \E x \in SetTo : x[1] = t, WithinHalfTurn, NEW r, r = SetTmr(s, t)
  PROVE  Fine(r, s, t, lf, time) /\ (Linked(r, t) => Linked(s, t))
<1>1. /\ Data(s) /\ Rest(s) /\ Halves(s) /\ Sound(s, lf) /\ Listed(s) /\ Bounds(lf)
      /\ ToSet(s.list) = Running(s)
  BY DEF Good, Sound, Listed
<1>2. PICK x \in SetTo : r = [s EXCEPT !.dly[t] = x[2], !.period[t] = x[3]]
  <2>1. PICK x : x = CHOOSE y \in SetTo : y[1] = t
    OBVIOUS
  <2>2. x \in SetTo
    BY <2>1
  <2> QED BY <2>1, <2>2 DEF SetTmr
<1>3. x[2] \in 0 .. Wrap - 1 /\ x[3] \in 0 .. Wrap - 1 /\ 2 * x[2] < Wrap /\ 2 * x[3] < Wrap
  BY TmrAssumption DEF WithinHalfTurn
<1>4. s.dly \in [Timer -> 0 .. Wrap - 1] /\ s.period \in [Timer -> 0 .. Wrap - 1]
  BY <1>1, DataIs
<1>5. PICK f : f = [s.dly EXCEPT ![t] = x[2]]
  OBVIOUS
<1>6. PICK g : g = [s.period EXCEPT ![t] = x[3]]
  OBVIOUS
<1>7. r = [s EXCEPT !.dly = f, !.period = g]
  BY <1>1, <1>2, <1>5, <1>6 DEF Data
<1>8. f \in [Timer -> 0 .. Wrap - 1] /\ g \in [Timer -> 0 .. Wrap - 1]
  BY <1>3, <1>4, <1>5, <1>6
<1>9. \A y \in Timer : 2 * f[y] < Wrap /\ 2 * g[y] < Wrap
  BY <1>1, <1>3, <1>4, <1>5, <1>6 DEF Halves
<1>10. /\ Data(r) /\ r.list = s.list /\ r.base = s.base /\ r.drift = s.drift /\ r.signal = s.signal
       /\ r.remain = s.remain /\ r.state = s.state /\ r.dly = f /\ r.period = g
  BY <1>1, <1>7, <1>8 DEF Data
<1>11. Beside(r, s) /\ Rest(r) /\ Halves(r) /\ ToSet(r.list) = Running(r)
  BY <1>1, <1>9, <1>10 DEF Beside, Rest, Halves, Running, Linked
<1>12. Sound(r, lf) /\ Quiet(r, s) /\ Timely(r, time)
  BY <1>1, <1>11, BesideIs
<1> QED BY <1>1, <1>10, <1>11, <1>12 DEF Fine, Good, Linked

(* A call that may be made. *)
Legal(s, op, t) ==
  /\ op \in Op /\ t \in Timer
  /\ op = "create" => ~Linked(s, t)
  /\ op = "set" => \E x \in SetTo : x[1] = t

LEMMA BodyIs ==
  ASSUME WithinHalfTurn, NEW s, Good(s, left), NEW op, NEW t, Legal(s, op, t),
         NEW time, Timely(s, time), Since(tick, time) <= LateMax,
         NEW r, r = Body(s, op, t, time), NEW lg, lg = LeftAfter(s, op, t, time)
  PROVE  Fine(r, s, t, lg, time) /\ (op # "start" => (Linked(r, t) => Linked(s, t)))
<1>0. t \in Timer /\ op \in Op
  BY DEF Legal
<1>1. CASE op = "create"
  <2>1. r = Create(s, t) /\ lg = left /\ ~Linked(s, t)
    BY <1>1 DEF Body, LeftAfter, Legal
  <2> QED BY <1>0, <2>1, CreateIs
<1>2. CASE op = "start"
  <2>1. r = Start(s, t, time)
    BY <1>2 DEF Body
  <2>2. lg = IF s.state[t] = "unused" THEN left
             ELSE [left EXCEPT ![t] = First(s, t) - Since(tick, time)]
    BY <1>2 DEF LeftAfter
  <2> QED BY <1>0, <1>2, <2>1, <2>2, StartIs
<1>3. CASE op \in {"stop", "stopCallback"}
  <2>1. r = Stop(s, t, time) /\ lg = [left EXCEPT ![t] = 0]
    BY <1>3 DEF Body, LeftAfter
  <2> QED BY <1>0, <2>1, StopIs
<1>4. CASE op = "del"
  <2>1. r = Del(s, t, time) /\ lg = [left EXCEPT ![t] = 0]
    BY <1>4 DEF Body, LeftAfter
  <2> QED BY <1>0, <2>1, DelIs
<1>5. CASE op = "set"
  <2>1. r = SetTmr(s, t) /\ lg = left /\ \E x \in SetTo : x[1] = t
    BY <1>5 DEF Body, LeftAfter, Legal
  <2> QED BY <1>0, <2>1, SetIs
<1> QED BY <1>0, <1>1, <1>2, <1>3, <1>4, <1>5 DEF Op

LEMMA ReloadIs ==
  ASSUME NEW s, NEW lf, Good(s, lf), NEW t \in ToSet(s.list), Since(tick, s.base) <= LateMax,
         NEW r, r = Reload(s, t),
         NEW lg, lg = [lf EXCEPT ![t] = IF t \in Periodic THEN s.period[t] - Since(tick, s.base) ELSE 0]
  PROVE  Fine(r, s, t, lg, s.base)
<1>1. /\ Data(s) /\ Listed(s) /\ Sound(s, lf) /\ Halves(s) /\ ToSet(s.list) = Running(s)
      /\ s.list # <<>>
  BY DEF Good, Sound, Listed, ToSet
<1>2. t \in Timer /\ Linked(s, t) /\ s.base \in 0 .. Wrap - 1 /\ Since(tick, s.base) \in Nat
  <2>1. t \in Timer /\ Linked(s, t) /\ s.base \in 0 .. Wrap - 1
    BY <1>1, DataIs DEF Running
  <2> QED BY <1>1, <2>1, SinceIs DEF Sound
<1>3. Timely(s, s.base)
  BY <1>1, <1>2 DEF Timely, Sound
<1>4. PICK u : u = Unlink(s, t, s.base)
  OBVIOUS
<1>5. Dropped(u, s, lf, t, s.base)
  <2>1. u = IF Linked(s, t) THEN Unlink(s, t, s.base) ELSE s
    BY <1>2, <1>4
  <2> QED BY <1>2, <1>3, <2>1, DropIs
<1>6. Data(u) /\ Rest(u) /\ Same(u, s)
  BY <1>5 DEF Dropped, Sound, Listed
<1>7. u.state \in [Timer -> States] /\ s.period \in [Timer -> 0 .. Wrap - 1]
  BY <1>1, <1>6, DataIs
<1>8. CASE t \in Periodic
  <2>1. PICK n \in Nat : n = s.period[t] /\ 2 * n < Wrap
    BY <1>1, <1>2, <1>7 DEF Halves
  <2>2. PICK w : w = Armed(u, t, n)
    OBVIOUS
  <2>3. r = Link(w, t, s.base)
    BY <1>4, <1>8, <2>1, <2>2 DEF Reload, Armed
  <2>4. lg = StartedAt(lf, t, n, s.base)
    BY <1>8, <2>1 DEF StartedAt
  <2> QED BY <1>2, <1>5, <2>1, <2>2, <2>3, <2>4, RelinkIs
<1>9. CASE t \notin Periodic
  <2>1. PICK h : h = [u.state EXCEPT ![t] = "completed"]
    OBVIOUS
  <2>2. r = [u EXCEPT !.state = h]
    BY <1>4, <1>9, <2>1 DEF Reload
  <2>3. h \in [Timer -> States] /\ h[t] = "completed"
    BY <1>2, <1>7, <2>1 DEF States
  <2>4. /\ Data(r) /\ r.list = u.list /\ r.base = u.base /\ r.drift = u.drift /\ r.signal = u.signal
        /\ r.remain = u.remain /\ r.state = h /\ r.dly = u.dly /\ r.period = u.period
    BY <1>6, <2>2, <2>3 DEF Data
  <2>5. Beside(r, u) /\ Rest(r) /\ Halves(r)
    BY <1>1, <1>6, <2>4 DEF Beside, Rest, Halves, Same
  <2>6. ~Linked(r, t) /\ r.state = [u.state EXCEPT ![t] = r.state[t]]
    BY <2>1, <2>3, <2>4 DEF Linked
  <2>7. lg = [lf EXCEPT ![t] = 0]
    BY <1>9
  <2> QED BY <1>2, <1>5, <2>5, <2>6, <2>7, LayIs
<1> QED BY <1>8, <1>9

-----------------------------------------------------------------------------
(* The inductive invariant. *)

Places == {"start", "loop", "fire", "wait", "ready"}

Kinds ==
  /\ task \in Places /\ begun \in BOOLEAN /\ alarm \in 0 .. Wrap - 1 /\ lag \in Nat
  /\ call \in [pc : {"idle", "want", "locked"}, op : Op,
               t : Timer \cup {NoTimer}, time : 0 .. Wrap - 1]

(* While it sleeps it wakes before any timer ends, but for the time it worked; *)
(* its first sleep may be one without end.                                    *)
Timed(s, a, l) ==
  a > 0 /\ \A e \in Ends(s) : e[2] > 0 /\ a + Since(tick, s.base) <= e[2] + l
Sleeps ==
  task = "wait" =>
    IF m.list = <<>> THEN alarm = 0
    ELSE Timed(m, alarm, lag) \/ (~begun /\ alarm = 0 /\ Overdue(m))

(* While it works it has the mutex, and the time base is what it last read.   *)
Works ==
  task \in {"fire", "loop"} =>
    /\ call.pc # "locked" /\ lag <= LateMax
    /\ m.list # <<>> => Since(tick, m.base) <= lag
    /\ task = "loop" /\ begun => \A e \in Ends(m) : e[2] > 0

(* Before it runs, the time base is not older than what lag counts.           *)
Unbegun ==
  task = "start" =>
    /\ ~begun /\ lag <= LateMax
    /\ m.list # <<>> => Since(tick, m.base) <= lag
    /\ call.pc = "locked" => Since(tick, call.time) <= lag

(* A call that has the mutex has read the time after the time base was set.   *)
Held == call.pc = "locked" => Timely(m, call.time) /\ Since(tick, call.time) <= LateMax

Asked ==
  call.pc # "idle" =>
    <<call.op, call.t>> \in Calls /\ (call.op = "create" => ~Linked(m, call.t))

Base == Good(m, left) /\ ~m.signal
IInv == Kinds /\ Base /\ Sleeps /\ Works /\ Unbegun /\ Held /\ Asked

(* The invariants only depend on the time through the distances from it.      *)
LEMMA BasePrimed ==
  ASSUME tick' = tick, Good(m', left'), ~m'.signal PROVE Base'
<1> QED BY DEF Base, Good, Sound, Since

LEMMA HeldPrimed ==
  ASSUME tick' = tick, call'.pc = "locked" => Timely(m', call'.time) /\ Since(tick, call'.time) <= LateMax
  PROVE  Held'
<1> QED BY DEF Held, Timely, Since

(* The signal has been given. *)
Silenced(r) == [r EXCEPT !.signal = FALSE]

LEMMA SilencedIs ==
  ASSUME NEW r, NEW lf, Good(r, lf), NEW q, q = Silenced(r)
  PROVE  /\ Good(q, lf) /\ ~q.signal /\ Ends(q) = Ends(r) /\ q.list = r.list /\ q.base = r.base
         /\ q.state = r.state /\ Listed(q) /\ Listed(r)
         /\ \A time : Timely(r, time) => Timely(q, time)
<1>1. /\ Data(r) /\ Listed(r) /\ Sound(r, lf) /\ Halves(r) /\ Rest(r) /\ Bounds(lf)
      /\ ToSet(r.list) = Running(r)
  BY DEF Good, Sound, Listed
<1>2. /\ Data(q) /\ q.list = r.list /\ q.base = r.base /\ q.drift = r.drift /\ q.signal = FALSE
      /\ q.remain = r.remain /\ q.state = r.state /\ q.dly = r.dly /\ q.period = r.period
  BY <1>1 DEF Data, Silenced
<1>3. Listed(q)
  BY <1>1, <1>2 DEF Listed
<1>4. Ends(q) = Ends(r)
  BY <1>1, <1>2, <1>3, SameEnds
<1>5. Sound(q, lf)
  BY <1>1, <1>2, <1>3, <1>4 DEF Sound
<1>6. Halves(q) /\ Rest(q) /\ ToSet(q.list) = Running(q)
  BY <1>1, <1>2 DEF Halves, Rest, Running, Linked
<1>7. \A time : Timely(r, time) => Timely(q, time)
  BY <1>2 DEF Timely
<1> QED BY <1>1, <1>2, <1>3, <1>4, <1>5, <1>6, <1>7 DEF Good

(* A body has been done, while the timer task sleeps or not. *)
LEMMA DoneIs ==
  ASSUME Kinds, Base, Sleeps, NEW r, Good(r, left'), task = "wait" => Quiet(r, m), Done(r),
         tick' = tick, lag' = lag, begun' = begun
  PROVE  /\ Base' /\ Sleeps' /\ alarm' \in 0 .. Wrap - 1
         /\ task' \in Places
         /\ task' = task \/ task' = "ready"
         /\ m' = Silenced(r)
<1>1. m' = Silenced(r)
  BY DEF Done, Silenced
<1>2. /\ Good(m', left') /\ ~m'.signal /\ Ends(m') = Ends(r) /\ m'.list = r.list /\ m'.base = r.base
      /\ Listed(m') /\ Listed(r)
  BY ONLY <1>1, Good(r, left'), SilencedIs
<1>3. Base'
  BY <1>2, BasePrimed
<1>4. IF r.signal /\ task = "wait" THEN task' = "ready" /\ alarm' = 0
      ELSE task' = task /\ alarm' = alarm
  BY DEF Done
<1>5. /\ alarm' \in 0 .. Wrap - 1 /\ task' \in Places
      /\ task' = task \/ task' = "ready"
  BY <1>4, TmrAssumption DEF Kinds, Places
<1>6. ASSUME task' = "wait"
      PROVE  IF m'.list = <<>> THEN alarm' = 0
             ELSE Timed(m', alarm', lag) \/ (~begun /\ alarm' = 0 /\ Overdue(m'))
  <2>1. ~r.signal /\ task = "wait" /\ alarm' = alarm
    BY <1>4, <1>6
  <2>2. /\ r.base = m.base /\ (Ends(r) = {} <=> Ends(m) = {})
        /\ \A e \in Ends(r) : \E f \in Ends(m) : f[2] <= e[2]
        /\ Overdue(m) => Overdue(r)
    BY <2>1 DEF Quiet
  <2>3. Listed(m) /\ tick \in 0 .. Wrap - 1 /\ m.base \in 0 .. Wrap - 1
    BY DataIs DEF Base, Good, Sound, Listed
  <2>4. m'.list = <<>> <=> m.list = <<>>
    BY <1>2, <2>2, <2>3, EndsNone
  <2>5. CASE m.list = <<>>
    BY <2>1, <2>4, <2>5 DEF Sleeps
  <2>6. CASE m.list # <<>> /\ Timed(m, alarm, lag)
    <3>1. alarm > 0 /\ \A f \in Ends(m) : f[2] > 0 /\ alarm + Since(tick, m.base) <= f[2] + lag
      BY <2>6 DEF Timed
    <3>2. ASSUME NEW e \in Ends(m') PROVE e[2] > 0 /\ alarm + Since(tick, m.base) <= e[2] + lag
      <4>1. PICK f \in Ends(m) : f[2] <= e[2]
        BY <1>2, <2>2
      <4>2. e[2] \in Nat /\ f[2] \in Nat
        BY <1>2, <2>3, EndsNat
      <4>3. alarm \in Nat /\ lag \in Nat /\ Since(tick, m.base) \in Nat
        <5>1. Since(tick, m.base) \in Nat
          BY <2>3, SinceIs
        <5>2. Wrap \in Nat /\ alarm \in 0 .. Wrap - 1 /\ lag \in Nat
          BY TmrAssumption DEF Kinds
        <5> QED BY <5>1, <5>2
      <4> QED BY <3>1, <4>1, <4>2, <4>3
    <3>3. m'.base = m.base
      BY <1>2, <2>2
    <3> QED BY <2>1, <2>4, <2>6, <3>1, <3>2, <3>3 DEF Timed
  <2>7. CASE m.list # <<>> /\ ~begun /\ alarm = 0 /\ Overdue(m)
    <3>1. Overdue(m')
      BY <1>2, <2>2, <2>7 DEF Overdue
    <3> QED BY <2>1, <2>4, <2>7, <3>1
  <2> QED BY <2>1, <2>5, <2>6, <2>7 DEF Sleeps
<1>7. Sleeps'
  <2>1. Overdue(m)' <=> Overdue(m')
    BY DEF Overdue
  <2>2. Timed(m, alarm, lag)' <=> Timed(m', alarm', lag)
    BY DEF Timed, Since
  <2> QED BY <1>6, <2>1, <2>2 DEF Sleeps
<1> QED BY <1>1, <1>3, <1>5, <1>7

(* The first timer of the list sets the time base. *)
LEMMA BodyFirst ==
  ASSUME NEW s, NEW lf, Good(s, lf), s.list = <<>>, NEW op, NEW t \in Timer, NEW time,
         time \in 0 .. Wrap - 1, Legal(s, op, t),
         NEW r, r = Body(s, op, t, time), r.list # <<>>
  PROVE  r.base = time
<1>1. ~Linked(s, t) /\ Data(s)
  BY DEF Good, Running, Sound, Listed, ToSet
<1>2. CASE op = "start" /\ s.state[t] # "unused"
  <2>1. PICK w : w = [s EXCEPT !.state[t] = "running", !.remain[t] = First(s, t)]
    OBVIOUS
  <2>2. w.list = <<>> /\ r = Link(w, t, time)
    BY <1>1, <1>2, <2>1 DEF Body, Start, Data
  <2>3. r = [w EXCEPT !.base = time, !.list = <<t>> \o @, !.signal = TRUE]
    BY <2>2 DEF Link
  <2> QED BY <1>1, <2>1, <2>3 DEF Data
<1>3. CASE op = "start" /\ s.state[t] = "unused"
  BY <1>3 DEF Body, Start
<1>4. CASE op # "start"
  BY <1>1, <1>4 DEF Body, Stop, Del, Create, SetTmr, Data, Legal, Op
<1> QED BY <1>2, <1>3, <1>4

LEMMA CallsAre == ASSUME NEW c \in Calls
                  PROVE  /\ c[1] \in Op /\ c[2] \in Timer /\ c = <<c[1], c[2]>>
                         /\ c[1] = "set" => \E x \in SetTo : x[1] = c[2]
<1>1. c \in Op \X Timer
  BY TmrAssumption
<1> QED BY <1>1, TmrAssumption

LEMMA CallbacksAre == ASSUME CreatedAtRest, NEW c \in Callback
                      PROVE  /\ c \in Calls /\ c[1] # "create"
                             /\ c[1] = "start" => <<"create", c[2]>> \notin Calls
<1> QED BY TmrAssumption DEF CreatedAtRest

(* The body of a call of the application. *)
LEMMA DoIs ==
  ASSUME WithinHalfTurn, CreatedAtRest, IInv, Do PROVE IInv'
<1> DEFINE op == call.op  t == call.t  r == Body(m, op, t, call.time)
<1>1. /\ call.pc = "locked" /\ Done(r) /\ left' = LeftAfter(m, op, t, call.time)
      /\ tick' = tick /\ lag' = lag /\ begun' = begun
      /\ \/ call' = NoCall
         \/ \E c \in Callback : call' = [pc |-> "locked", op |-> c[1], t |-> c[2], time |-> tick]
  BY DEF Do
<1>2. /\ Kinds /\ Base /\ Sleeps /\ Good(m, left) /\ tick \in 0 .. Wrap - 1
      /\ Timely(m, call.time) /\ Since(tick, call.time) <= LateMax
      /\ <<op, t>> \in Calls /\ (op = "create" => ~Linked(m, t))
  BY <1>1 DEF IInv, Base, Held, Asked, Good, Sound
<1>3. Legal(m, op, t)
  <2>1. PICK c \in Calls : c = <<op, t>>
    BY <1>2
  <2>2. c[1] = op /\ c[2] = t
    BY <2>1
  <2> HIDE DEF op, t
  <2> QED BY <1>2, <2>2, CallsAre DEF Legal
<1>4. Fine(r, m, t, left', call.time)
  <2> HIDE DEF op, t
  <2> QED BY <1>1, <1>2, <1>3, BodyIs
<1>5. Good(r, left') /\ Quiet(r, m)
  BY <1>4 DEF Fine
<1>6. /\ Base' /\ Sleeps' /\ alarm' \in 0 .. Wrap - 1
      /\ task' \in Places
      /\ task' = task \/ task' = "ready"
      /\ m' = Silenced(r)
  <2> HIDE DEF r
  <2> QED BY <1>1, <1>2, <1>5, DoneIs
<1>7. Works'
  BY <1>1, <1>6 DEF Works, IInv
<1>10. ASSUME task' = "start", call'.pc = "locked" => call'.time = tick PROVE Unbegun'
  <2>1. task = "start" /\ Unbegun
    BY <1>6, <1>10 DEF IInv
  <2>2. m'.list = r.list /\ m'.base = r.base
    <3>1. Good(r, left') /\ m' = Silenced(r)
      BY <1>5, <1>6
    <3> QED BY ONLY <3>1, SilencedIs
  <2>3. r.list # <<>> => Since(tick, r.base) <= lag
    <3>1. Since(tick, call.time) <= lag /\ (m.list # <<>> => Since(tick, m.base) <= lag)
      BY <1>1, <2>1 DEF Unbegun
    <3>2. r.list # <<>> => r.base = call.time \/ (m.list # <<>> /\ r.base = m.base)
      <4>1. t \in Timer /\ call.time \in 0 .. Wrap - 1
        BY <1>2, <1>3 DEF Legal, Timely
      <4>2. r.base = m.base \/ r.base = call.time
        BY <1>4 DEF Fine
      <4>3. ASSUME m.list = <<>>, r.list # <<>> PROVE r.base = call.time
        <5>1. PICK n, x, time, q : n = op /\ x = t /\ time = call.time /\ q = r
          OBVIOUS
        <5>2. q = Body(m, n, x, time)
          BY <5>1
        <5> HIDE DEF op, t, r
        <5>3. q.base = time
          BY <1>2, <1>3, <4>1, <4>3, <5>1, <5>2, BodyFirst
        <5> QED BY <5>1, <5>3
      <4> QED BY <4>2, <4>3
    <3> QED BY <3>1, <3>2
  <2>4. call'.pc = "locked" => Since(tick, call'.time) <= lag
    <3>1. Since(tick, tick) = 0 /\ lag \in Nat
      BY <1>2, SinceIs DEF Kinds
    <3> QED BY <1>10, <3>1
  <2> QED BY <1>1, <2>1, <2>2, <2>3, <2>4 DEF Unbegun, Since
<1>8. CASE call' = NoCall
  <2>1. call' \in [pc : {"idle", "want", "locked"}, op : Op,
                   t : Timer \cup {NoTimer}, time : 0 .. Wrap - 1]
    BY <1>8, TmrAssumption DEF NoCall, Op
  <2>2. call'.pc = "idle"
    BY <1>8 DEF NoCall
  <2>3. Held' /\ Asked'
    BY <2>2 DEF Held, Asked
  <2>4. Kinds'
    BY <1>1, <1>2, <1>6, <2>1 DEF Kinds
  <2>5. Unbegun'
    BY <1>10, <2>2 DEF Unbegun
  <2> QED BY <1>6, <1>7, <2>3, <2>4, <2>5 DEF IInv
<1>9. CASE \E c \in Callback : call' = [pc |-> "locked", op |-> c[1], t |-> c[2], time |-> tick]
  <2>1. PICK c \in Callback : call' = [pc |-> "locked", op |-> c[1], t |-> c[2], time |-> tick]
    BY <1>9
  <2>2. c \in Calls /\ c[1] # "create"
    BY CallbacksAre
  <2>3. c[1] \in Op /\ c[2] \in Timer /\ c = <<c[1], c[2]>>
    BY <2>2, CallsAre
  <2>4. call' \in [pc : {"idle", "want", "locked"}, op : Op,
                   t : Timer \cup {NoTimer}, time : 0 .. Wrap - 1]
    BY <1>2, <2>1, <2>3
  <2>5. Asked'
    BY <2>1, <2>2, <2>3 DEF Asked
  <2>6. Timely(m', tick) /\ Since(tick, tick) <= LateMax
    <3>1. Since(tick, tick) = 0 /\ LateMax \in Nat /\ Wrap \in Nat
      BY <1>2, SinceIs, TmrAssumption
    <3>2. Listed(m')
      <4>1. Good(r, left') /\ m' = Silenced(r)
        BY <1>5, <1>6
      <4> QED BY ONLY <4>1, SilencedIs
    <3>3. Since(tick, m'.base) \in Nat
      <4>1. m'.base \in 0 .. Wrap - 1
        BY <3>2, DataIs DEF Listed
      <4> QED BY <1>2, <4>1, SinceIs
    <3> QED BY <1>2, <3>1, <3>3 DEF Timely
  <2>7. Held'
    <3>1. call'.time = tick
      BY <2>1
    <3> QED BY <1>1, <2>6, <3>1, HeldPrimed
  <2>8. Kinds'
    BY <1>1, <1>2, <1>6, <2>4 DEF Kinds
  <2>9. Unbegun'
    <3>1. call'.time = tick
      BY <2>1
    <3> QED BY <1>10, <3>1 DEF Unbegun
  <2> QED BY <1>6, <1>7, <2>5, <2>7, <2>8, <2>9 DEF IInv
<1> QED BY <1>1, <1>8, <1>9

-----------------------------------------------------------------------------
(* The other steps. *)

(* What all steps use. *)
LEMMA Known ==
  ASSUME IInv
  PROVE  /\ Kinds /\ Base /\ Sleeps /\ Works /\ Unbegun /\ Held /\ Asked
         /\ Good(m, left) /\ Sound(m, left) /\ Listed(m) /\ Data(m) /\ ~m.signal
         /\ tick \in 0 .. Wrap - 1 /\ m.base \in 0 .. Wrap - 1 /\ m.list \in Seq(Timer)
         /\ left \in [Timer -> Int] /\ Since(tick, m.base) \in Nat
         /\ Wrap \in Nat /\ Wrap > 0 /\ alarm \in Nat /\ lag \in Nat /\ LateMax \in Nat
         /\ ToSet(m.list) = Running(m) /\ Halves(m) /\ Rest(m) /\ Bounds(left)
<1>1. /\ Kinds /\ Base /\ Sleeps /\ Works /\ Unbegun /\ Held /\ Asked
      /\ Good(m, left) /\ Sound(m, left) /\ Listed(m) /\ Data(m) /\ ~m.signal
      /\ tick \in 0 .. Wrap - 1 /\ left \in [Timer -> Int]
      /\ ToSet(m.list) = Running(m) /\ Halves(m) /\ Rest(m) /\ Bounds(left)
  BY DEF IInv, Base, Good, Sound, Listed
<1>2. m.base \in 0 .. Wrap - 1 /\ m.list \in Seq(Timer)
  BY <1>1, DataIs
<1>3. Since(tick, m.base) \in Nat
  BY <1>1, <1>2, SinceIs
<1>4. Wrap \in Nat /\ Wrap > 0 /\ LateMax \in Nat
  BY TmrAssumption
<1>5. alarm \in Nat /\ lag \in Nat
  BY <1>1, <1>4 DEF Kinds
<1> QED BY <1>1, <1>2, <1>3, <1>4, <1>5

(* The current time is timely. *)
LEMMA NowIs == ASSUME IInv PROVE Timely(m, tick) /\ Since(tick, tick) = 0
<1>1. Since(tick, tick) = 0
  BY Known, SinceIs
<1>2. tick \in 0 .. Wrap - 1 /\ Wrap \in Nat /\ Since(tick, m.base) \in Nat
  BY Known
<1> QED BY <1>1, <1>2 DEF Timely

(* Init has an empty list. *)
LEMMA InitIs == ASSUME WithinHalfTurn, Init PROVE IInv
<1>1. /\ m = [list |-> <<>>, base |-> 0, remain |-> [t \in Timer |-> 0],
              state |-> [t \in Timer |-> "stopped"], dly |-> Dly, period |-> Period,
              signal |-> FALSE, drift |-> FALSE]
      /\ task = "start" /\ alarm = 0 /\ call = NoCall /\ lag = 0 /\ begun = FALSE
      /\ tick \in 0 .. Wrap - 1 /\ left = [t \in Timer |-> 0]
  BY DEF Init
<1>2. /\ m.list = <<>> /\ m.base = 0 /\ m.remain = [t \in Timer |-> 0]
      /\ m.state = [t \in Timer |-> "stopped"] /\ m.dly = Dly /\ m.period = Period
      /\ m.signal = FALSE /\ m.drift = FALSE
  BY <1>1
<1>3. /\ Wrap \in Nat /\ Wrap > 0 /\ LateMax \in Nat /\ 0 \in 0 .. Wrap - 1
      /\ Dly \in [Timer -> 0 .. Wrap - 1] /\ Period \in [Timer -> 0 .. Wrap - 1]
  BY TmrAssumption
<1>4. <<>> \in Seq(Timer) /\ IsInjective(<<>>) /\ ToSet(<<>>) = {}
  BY DEF IsInjective, ToSet
<1>5. Data(m)
  <2>1. [t \in Timer |-> "stopped"] \in [Timer -> States] /\ [t \in Timer |-> 0] \in [Timer -> Nat]
    BY DEF States
  <2> QED BY <1>1, <1>3, <1>4, <2>1 DEF Data
<1>6. Listed(m)
  BY <1>2, <1>4, <1>5 DEF Listed
<1>7. Ends(m) = {}
  BY <1>2, <1>6, EndsNone
<1>8. left \in [Timer -> Int] /\ \A t \in Timer : left[t] = 0
  BY <1>1
<1>9. Sound(m, left)
  BY <1>1, <1>2, <1>6, <1>7, <1>8 DEF Sound
<1>10. ToSet(m.list) = Running(m)
  BY <1>2, <1>4 DEF Running, Linked
<1>11. Halves(m)
  BY <1>2 DEF Halves, WithinHalfTurn
<1>12. Rest(m)
  BY <1>2, <1>3 DEF Rest
<1>13. Bounds(left)
  BY <1>3, <1>8 DEF Bounds
<1>14. Base
  BY <1>2, <1>9, <1>10, <1>11, <1>12, <1>13 DEF Base, Good
<1>15. Kinds
  BY <1>1, <1>3 DEF Kinds, NoCall, Op, Places
<1>16. Sleeps /\ Works /\ Unbegun /\ Held /\ Asked
  <2>1. task = "start" /\ ~begun /\ lag = 0 /\ call.pc = "idle" /\ m.list = <<>> /\ \A e \in Ends(m) : FALSE
    BY <1>1, <1>2, <1>7 DEF NoCall
  <2>2. Sleeps
    BY <2>1 DEF Sleeps
  <2>3. Works
    BY <1>3, <2>1 DEF Works
  <2>4. Held /\ Asked
    BY <2>1 DEF Held, Asked
  <2>5. Unbegun
    BY <1>3, <2>1 DEF Unbegun
  <2> QED BY <2>2, <2>3, <2>4, <2>5
<1> QED BY <1>14, <1>15, <1>16 DEF IInv

(* Nothing changes for the timer task. *)
LEMMA SleepsOn ==
  ASSUME Sleeps, m' = m, task' = task, alarm' = alarm, tick' = tick, lag' = lag, begun' = begun
  PROVE  Sleeps'
<1>1. (Overdue(m))' <=> Overdue(m)
  BY DEF Overdue
<1>2. (Timed(m, alarm, lag))' <=> Timed(m, alarm, lag)
  BY DEF Timed, Since
<1> QED BY <1>1, <1>2 DEF Sleeps

(* A call begins. *)
LEMMA CallIs == ASSUME IInv, NEW c \in Calls, Call(c[1], c[2]) PROVE IInv'
<1>1. /\ c[1] = "create" => ~Linked(m, c[2])
      /\ call' = [pc |-> "want", op |-> c[1], t |-> c[2], time |-> 0]
      /\ m' = m /\ task' = task /\ alarm' = alarm /\ tick' = tick /\ left' = left /\ lag' = lag
      /\ begun' = begun
  BY DEF Call
<1>2. c[1] \in Op /\ c[2] \in Timer /\ c = <<c[1], c[2]>> /\ Wrap \in Nat /\ Wrap > 0
  BY CallsAre, Known
<1>3. Kinds'
  <2>1. call' \in [pc : {"idle", "want", "locked"}, op : Op,
                   t : Timer \cup {NoTimer}, time : 0 .. Wrap - 1]
    BY <1>1, <1>2
  <2> QED BY <1>1, <2>1, Known DEF Kinds
<1>4. Base'
  BY <1>1, Known, BasePrimed
<1>5. Sleeps' /\ Works' /\ Unbegun'
  <2>1. Sleeps'
    BY <1>1, Known, SleepsOn
  <2> QED BY <1>1, <2>1, Known DEF Works, Unbegun, Since
<1>6. Held' /\ Asked'
  BY <1>1, <1>2 DEF Held, Asked
<1> QED BY <1>3, <1>4, <1>5, <1>6 DEF IInv

LEMMA LockIs == ASSUME IInv, Lock PROVE IInv'
<1>1. /\ call.pc = "want" /\ task \in {"start", "wait", "ready"}
      /\ call' = [call EXCEPT !.pc = "locked", !.time = tick]
      /\ m' = m /\ task' = task /\ alarm' = alarm /\ tick' = tick /\ left' = left /\ lag' = lag
      /\ begun' = begun
  BY DEF Lock, Free
<1>2. /\ call'.pc = "locked" /\ call'.op = call.op /\ call'.t = call.t /\ call'.time = tick
      /\ call' \in [pc : {"idle", "want", "locked"}, op : Op,
                    t : Timer \cup {NoTimer}, time : 0 .. Wrap - 1]
  BY <1>1, Known DEF Kinds
<1>3. Kinds'
  BY <1>1, <1>2, Known DEF Kinds
<1>4. Base'
  BY <1>1, Known, BasePrimed
<1>5. Sleeps' /\ Works' /\ Unbegun'
  <2>1. Sleeps'
    BY <1>1, Known, SleepsOn
  <2>2. Works'
    BY <1>1, Known DEF Works
  <2>3. Unbegun'
    <3>1. Since(tick, tick) <= lag
      BY NowIs, Known
    <3> QED BY <1>1, <1>2, <3>1, Known DEF Unbegun, Since
  <2> QED BY <2>1, <2>2, <2>3
<1>6. Asked'
  BY <1>1, <1>2, Known DEF Asked
<1>7. Held'
  <2>1. Timely(m', tick) /\ Since(tick, tick) <= LateMax
    BY <1>1, NowIs, Known
  <2> QED BY <1>1, <1>2, <2>1, HeldPrimed
<1> QED BY <1>3, <1>4, <1>5, <1>6, <1>7 DEF IInv

(* The timer task runs for the first time. *)
LEMMA BeginIs == ASSUME IInv, Begin PROVE IInv'
<1>1. /\ task = "start" /\ task' = "loop" /\ call.pc # "locked"
      /\ m' = m /\ call' = call /\ alarm' = alarm /\ tick' = tick /\ left' = left /\ lag' = lag
      /\ begun' = begun
  BY DEF Begin, Free
<1>2. Base' /\ Kinds'
  BY <1>1, Known, BasePrimed DEF Kinds, Places
<1>3. Held' /\ Asked' /\ Sleeps' /\ Unbegun'
  BY <1>1, Known DEF Held, Asked, Sleeps, Unbegun
<1>4. Works'
  BY <1>1, Known DEF Works, Unbegun, Since
<1> QED BY <1>2, <1>3, <1>4 DEF IInv

(* OS_TmrCondWait takes the ticks of the head, which ends first.              *)
LEMMA CondWaitIs == ASSUME IInv, CondWait PROVE IInv'
<1>1. /\ task = "loop" /\ task' = "wait"
      /\ alarm' = IF m.list = <<>> THEN 0 ELSE m.remain[Head(m.list)]
      /\ m' = m /\ call' = call /\ tick' = tick /\ left' = left /\ lag' = lag /\ begun' = begun
  BY DEF CondWait
<1>2. Base'
  BY <1>1, Known, BasePrimed
<1>3. Held' /\ Works' /\ Unbegun'
  BY <1>1, Known DEF Held, Timely, Works, Unbegun, Since
<1>4. Asked'
  BY <1>1, Known DEF Asked
<1>5. CASE m.list = <<>>
  <2>1. Sleeps'
    BY <1>1, <1>5 DEF Sleeps
  <2>2. Kinds'
    BY <1>1, <1>5, Known DEF Kinds, Places
  <2> QED BY <1>2, <1>3, <1>4, <2>1, <2>2 DEF IInv
<1>6. CASE m.list # <<>>
  <2>1. PICK n \in Nat : /\ n = m.remain[Head(m.list)] /\ (begun => n > 0)
                         /\ <<Head(m.list), n>> \in Ends(m) /\ \A e \in Ends(m) : n <= e[2]
    <3>1. /\ <<Head(m.list), m.remain[Head(m.list)]>> \in Ends(m)
          /\ \A e \in Ends(m) : m.remain[Head(m.list)] <= e[2]
      BY <1>6, Known, HeadEnds
    <3>2. \A e \in Ends(m) : (begun => e[2] > 0) /\ e[2] \in Nat
      BY <1>1, Known, EndsNat DEF Works
    <3>3. m.remain[Head(m.list)] = <<Head(m.list), m.remain[Head(m.list)]>>[2]
      OBVIOUS
    <3> QED BY <3>1, <3>2, <3>3
  <2>2. alarm' = n
    BY <1>1, <1>6, <2>1
  <2>3. Since(tick, m.base) <= lag /\ lag <= LateMax /\ Since(tick, m.base) \in Nat /\ lag \in Nat
    BY <1>1, <1>6, Known DEF Works
  <2>4. Sleeps'
    <3>1. ASSUME n > 0, NEW e \in Ends(m) PROVE e[2] > 0 /\ n + Since(tick, m.base) <= e[2] + lag
      <4>1. e[2] \in Nat /\ n <= e[2]
        BY <2>1, Known, EndsNat
      <4> QED BY <2>1, <2>3, <3>1, <4>1
    <3>2. n > 0 => (Timed(m, alarm, lag))'
      BY <1>1, <2>2, <3>1 DEF Timed, Since
    <3>3. ASSUME ~(n > 0) PROVE ~begun' /\ alarm' = 0 /\ (Overdue(m))'
      <4>1. n = 0 /\ ~begun
        BY <2>1, <3>3
      <4>2. <<Head(m.list), n>>[2] = 0
        BY <4>1
      <4>3. Overdue(m)
        BY <2>1, <4>2 DEF Overdue
      <4>4. (Overdue(m))' <=> Overdue(m)
        BY <1>1 DEF Overdue
      <4> QED BY <1>1, <2>2, <4>1, <4>3, <4>4
    <3> QED BY <1>1, <1>6, <3>2, <3>3 DEF Sleeps
  <2>5. n \in 0 .. Wrap - 1
    <3>1. n < Wrap
      <4>1. PICK x \in Int : x = left[Head(m.list)] /\ 2 * x < Wrap
        <5>1. Head(m.list) \in Timer
          BY <1>6, Known, HeadEnds
        <5> QED BY <5>1, Known DEF Bounds
      <4>2. n <= Up(x + Since(tick, m.base))
        <5>1. <<Head(m.list), n>>[1] = Head(m.list) /\ <<Head(m.list), n>>[2] = n
          OBVIOUS
        <5> QED BY <2>1, <4>1, <5>1, Known DEF Sound
      <4>3. PICK y \in Nat : y = Since(tick, m.base) /\ 2 * y <= Wrap
        BY <1>6, Known DEF Sound
      <4>4. n = 0 \/ n <= x + y
        BY <2>1, <4>2, <4>3 DEF Up
      <4>5. Wrap \in Nat /\ Wrap > 0
        BY Known
      <4> QED BY ONLY <4>1, <4>3, <4>4, <4>5, n \in Nat, x \in Int, y \in Nat
    <3> QED BY <3>1, Known
  <2>6. Kinds'
    BY <1>1, <2>2, <2>5, Known DEF Kinds, Places
  <2> QED BY <1>2, <1>3, <1>4, <2>4, <2>6 DEF IInv
<1> QED BY <1>5, <1>6

(* The timer task takes the time that has gone by off the list. *)
LEMMA WakeIs == ASSUME IInv, Wake PROVE IInv'
<1>1. /\ task = "ready" /\ call.pc # "locked" /\ lag' = 0 /\ begun' = TRUE
      /\ IF m.list = <<>> THEN task' = "loop" /\ m' = m
         ELSE /\ task' = "fire"
              /\ m' = [Age(m, Since(tick, m.base)) EXCEPT !.base = tick]
      /\ alarm' = alarm /\ call' = call /\ tick' = tick /\ left' = left
  BY DEF Wake, Free
<1>2. Kinds'
  BY <1>1, Known DEF Kinds, Places
<1>3. Held' /\ Sleeps' /\ Unbegun'
  BY <1>1 DEF Held, Sleeps, Unbegun
<1>4. CASE m.list = <<>>
  <2>1. Base'
    BY <1>1, <1>4, Known, BasePrimed
  <2>2. Ends(m) = {}
    BY <1>4, Known, EndsNone
  <2>3. Works'
    BY <1>1, <1>4, <2>2, Known DEF Works
  <2>4. Asked'
    BY <1>1, <1>4, Known DEF Asked
  <2> QED BY <1>2, <1>3, <2>1, <2>3, <2>4 DEF IInv
<1>5. CASE m.list # <<>>
  <2>1. PICK d \in Nat : d = Since(tick, m.base)
    BY Known
  <2>2. PICK a : a = Age(m, d)
    OBVIOUS
  <2>3. /\ Listed(a) /\ Same(a, m) /\ a.list = m.list /\ a.base = m.base
        /\ a.signal = m.signal /\ a.drift = m.drift
        /\ Ends(a) = Later(Ends(m), d)
        /\ \A x \in Timer \ ToSet(m.list) : a.remain[x] = m.remain[x]
    <3>1. Listed(m)
      BY Known
    <3> QED BY ONLY <2>1, <2>2, <3>1, AgeIs
  <2>4. m' = [a EXCEPT !.base = tick]
    BY <1>1, <1>5, <2>1, <2>2
  <2>5. /\ Data(m') /\ m'.list = m.list /\ m'.base = tick /\ m'.signal = m.signal /\ m'.drift = m.drift
        /\ m'.remain = a.remain /\ m'.state = m.state /\ m'.dly = m.dly /\ m'.period = m.period
    <3>1. Data(a) /\ tick \in 0 .. Wrap - 1
      BY <2>3, Known DEF Listed
    <3> QED BY <2>3, <2>4, <3>1 DEF Data, Same
  <2>6. Listed(m')
    BY <2>3, <2>5 DEF Listed
  <2>7. Ends(m') = Later(Ends(m), d)
    <3>1. Ends(m') = Ends(a)
      BY <2>3, <2>5, <2>6, SameEnds
    <3> QED BY <2>3, <3>1
  <2>8. Sound(m', left)
    <3>1. ASSUME NEW e \in Ends(m')
          PROVE  /\ e[2] <= Up(left[e[1]] + Since(tick, tick))
                 /\ ~m.drift => e[2] = Up(left[e[1]] + Since(tick, tick))
      <4>1. PICK f \in Ends(m) : e = <<f[1], IF f[2] > d THEN f[2] - d ELSE 0>>
        BY <2>7 DEF Later
      <4>2. Sound(m, left) /\ Timely(m, tick)
        BY Known, NowIs
      <4>3. /\ e[1] = f[1] /\ e[2] <= Up(left[e[1]] + Since(tick, tick))
            /\ ~m.drift => e[2] = Up(left[e[1]] + Since(tick, tick))
        BY ONLY <1>5, <2>1, <4>1, <4>2, LaterSound
      <4> QED BY <4>3
    <3>2. 2 * Since(tick, tick) <= Wrap
      BY Known, NowIs
    <3> QED BY <2>5, <2>6, <3>1, <3>2, Known DEF Sound
  <2>9. Base'
    <3>1. Halves(m') /\ ToSet(m'.list) = Running(m')
      BY <2>5, Known DEF Halves, Running, Linked
    <3>2. Rest(m')
      BY <2>3, <2>5, Known DEF Rest
    <3>3. Good(m', left') /\ ~m'.signal
      BY <1>1, <2>5, <2>8, <3>1, <3>2, Known DEF Good
    <3> QED BY <1>1, <3>3, BasePrimed
  <2>10. Works'
    <3>1. Since(tick', m'.base) = 0
      BY <1>1, <2>5, NowIs
    <3> QED BY <1>1, <1>5, <3>1, Known DEF Works
  <2>11. Asked'
    BY <1>1, <2>5, Known DEF Asked, Linked
  <2> QED BY <1>2, <1>3, <2>9, <2>10, <2>11 DEF IInv
<1> QED BY <1>4, <1>5

(* No timer is due any more. *)
LEMMA FireEndIs == ASSUME IInv, FireEnd PROVE IInv'
<1>1. /\ task = "fire" /\ task' = "loop" /\ \A t \in Timer : ~Due(t)
      /\ m' = m /\ alarm' = alarm /\ call' = call /\ tick' = tick /\ left' = left /\ lag' = lag
      /\ begun' = begun
  BY DEF FireEnd
<1>2. Base' /\ Kinds'
  BY <1>1, Known, BasePrimed DEF Kinds, Places
<1>3. Held' /\ Sleeps' /\ Unbegun' /\ Asked'
  BY <1>1, Known DEF Held, Timely, Since, Sleeps, Unbegun, Asked
<1>4. \A e \in Ends(m) : e[2] > 0
  <2>1. CASE m.list = <<>>
    BY <2>1, Known, EndsNone
  <2>2. CASE m.list # <<>>
    <3>1. /\ Head(m.list) \in Timer /\ <<Head(m.list), m.remain[Head(m.list)]>> \in Ends(m)
          /\ \A e \in Ends(m) : m.remain[Head(m.list)] <= e[2]
      BY <2>2, Known, HeadEnds
    <3>2. m.remain[Head(m.list)] \in Nat /\ m.remain[Head(m.list)] # 0
      <4>1. m.remain \in [Timer -> Nat]
        BY Known, DataIs
      <4> QED BY <1>1, <2>2, <3>1, <4>1 DEF Due
    <3>3. \A e \in Ends(m) : e[2] \in Nat
      BY Known, EndsNat
    <3> QED BY <3>1, <3>2, <3>3
  <2> QED BY <2>1, <2>2
<1>5. Works'
  BY <1>1, <1>4, Known DEF Works, Since
<1> QED BY <1>2, <1>3, <1>5 DEF IInv

(* The state that OS_TmrTask sets before the callback. *)
TimedOut(s, t) == [s EXCEPT !.state[t] = "timeout"]

LEMMA TimedOutIs ==
  ASSUME NEW s, NEW lf, Good(s, lf), NEW t \in Timer, Linked(s, t), NEW q, q = TimedOut(s, t)
  PROVE  /\ Good(q, lf) /\ q.list = s.list /\ q.base = s.base /\ q.state[t] = "timeout"
         /\ \A x \in Timer : Linked(q, x) <=> Linked(s, x)
<1>1. Data(s) /\ Sound(s, lf) /\ Halves(s) /\ Rest(s) /\ Bounds(lf) /\ ToSet(s.list) = Running(s)
  BY DEF Good, Sound, Listed
<1>2. PICK h : h = [s.state EXCEPT ![t] = "timeout"]
  OBVIOUS
<1>3. s.state \in [Timer -> States]
  BY <1>1, DataIs
<1>4. h \in [Timer -> States] /\ h[t] = "timeout" /\ \A x \in Timer : x # t => h[x] = s.state[x]
  BY <1>2, <1>3 DEF States
<1>5. q = [s EXCEPT !.state = h]
  BY <1>2 DEF TimedOut
<1>6. /\ Data(q) /\ q.list = s.list /\ q.base = s.base /\ q.drift = s.drift /\ q.signal = s.signal
      /\ q.remain = s.remain /\ q.state = h /\ q.dly = s.dly /\ q.period = s.period
  BY <1>1, <1>4, <1>5 DEF Data
<1>7. \A x \in Timer : Linked(q, x) <=> Linked(s, x)
  BY <1>4, <1>6 DEF Linked
<1>8. Beside(q, s)
  BY <1>6 DEF Beside
<1>9. Sound(q, lf)
  BY <1>1, <1>8, BesideIs
<1>10. Halves(q) /\ Rest(q) /\ ToSet(q.list) = Running(q)
  BY <1>1, <1>6, <1>7 DEF Halves, Rest, Running
<1> QED BY <1>1, <1>4, <1>6, <1>7, <1>9, <1>10 DEF Good

(* What becomes of the timer after its callback. *)
AfterFire(t, r, lf) ==
  IF r.state[t] # "timeout" THEN Done(r) /\ left' = lf
  ELSE /\ Done(Reload(r, t))
       /\ left' = [lf EXCEPT ![t] = IF t \in Periodic THEN r.period[t] - Since(tick, r.base) ELSE 0]

Fired(r, lf) ==
  /\ Good(r, lf) /\ r.base = m.base
  /\ \A x \in Timer : Linked(r, x) => Linked(m, x) \/ <<"create", x>> \notin Calls

LEMMA FiredIs ==
  ASSUME IInv, task = "fire", m.list # <<>>, NEW r, Fired(r, left'), Done(r),
         call' = call, tick' = tick, lag' = lag, begun' = begun
  PROVE  IInv'
<1>1. Kinds /\ Base /\ Sleeps /\ Good(r, left') /\ (task = "wait" => Quiet(r, m))
  BY Known DEF Fired
<1>2. /\ Base' /\ Sleeps' /\ alarm' \in 0 .. Wrap - 1
      /\ m' = Silenced(r)
  BY <1>1, DoneIs
<1>3. task' = task
  BY DEF Done
<1>4. m'.list = r.list /\ m'.base = m.base /\ m'.state = r.state
  <2>1. m'.list = r.list /\ m'.base = r.base /\ m'.state = r.state
    <3>1. Good(r, left') /\ m' = Silenced(r)
      BY <1>1, <1>2
    <3> QED BY ONLY <3>1, SilencedIs
  <2> QED BY <2>1 DEF Fired
<1>5. call.pc # "locked" /\ lag <= LateMax /\ Since(tick, m.base) <= lag
  BY Known DEF Works
<1>6. Works' /\ Unbegun' /\ Held'
  BY <1>3, <1>4, <1>5 DEF Works, Unbegun, Held, Since
<1>7. Kinds'
  BY <1>2, <1>3, Known DEF Kinds
<1>8. Asked'
  <2>1. ASSUME call.pc # "idle", call.op = "create" PROVE ~Linked(m', call.t)
    <3>1. <<"create", call.t>> \in Calls /\ ~Linked(m, call.t)
      BY <2>1, Known DEF Asked
    <3>2. call.t \in Timer
      <4>1. PICK c \in Calls : c = <<"create", call.t>>
        BY <3>1
      <4>2. c[2] = call.t
        BY <4>1
      <4> QED BY <4>2, CallsAre
    <3>3. ~Linked(r, call.t)
      BY <3>1, <3>2 DEF Fired
    <3> QED BY <1>4, <3>3 DEF Linked
  <2> QED BY <2>1, Known DEF Asked
<1> QED BY <1>2, <1>6, <1>7, <1>8 DEF IInv

LEMMA AfterFireIs ==
  ASSUME IInv, task = "fire", m.list # <<>>, NEW r, NEW lf, Fired(r, lf),
         NEW t \in Timer, Linked(m, t), AfterFire(t, r, lf),
         call' = call, tick' = tick, lag' = lag, begun' = begun
  PROVE  IInv'
<1>1. CASE r.state[t] # "timeout"
  <2>1. Done(r) /\ Fired(r, left')
    BY <1>1 DEF AfterFire
  <2> QED BY <2>1, FiredIs
<1>2. CASE r.state[t] = "timeout"
  <2>1. PICK q : q = Reload(r, t)
    OBVIOUS
  <2>2. Done(q) /\ left' = [lf EXCEPT ![t] = IF t \in Periodic THEN r.period[t] - Since(tick, r.base) ELSE 0]
    BY <1>2, <2>1 DEF AfterFire
  <2>3. Good(r, lf) /\ r.base = m.base
    BY DEF Fired
  <2>4. t \in ToSet(r.list)
    BY <1>2, <2>3 DEF Good, Running, Linked
  <2>5. Since(tick, r.base) <= LateMax
    <3>1. Since(tick, m.base) <= lag /\ lag <= LateMax
      BY Known DEF Works
    <3>2. Since(tick, m.base) \in Nat /\ lag \in Nat /\ LateMax \in Nat
      BY Known
    <3> QED BY <2>3, <3>1, <3>2
  <2>6. Fine(q, r, t, left', r.base)
    BY ONLY <2>1, <2>2, <2>3, <2>4, <2>5, ReloadIs
  <2>7. Fired(q, left')
    <3>1. Good(q, left') /\ q.base = m.base /\ \A x \in Timer : x # t => q.state[x] = r.state[x]
      BY <2>3, <2>6 DEF Fine
    <3>2. \A x \in Timer : Linked(q, x) => Linked(m, x) \/ <<"create", x>> \notin Calls
      BY <3>1 DEF Fired, Linked
    <3> QED BY <3>1, <3>2 DEF Fired
  <2> QED BY <2>2, <2>7, FiredIs
<1> QED BY <1>1, <1>2

(* A timer ends, and its callback may make a call. *)
LEMMA FireIs ==
  ASSUME WithinHalfTurn, CreatedAtRest, IInv, NEW t \in Timer, Fire(t) PROVE IInv'
<1> DEFINE s == TimedOut(m, t)
<1>1. /\ task = "fire" /\ Due(t) /\ call' = call /\ tick' = tick /\ lag' = lag /\ begun' = begun
      /\ \/ AfterFire(t, s, left)
         \/ \E c \in Callback : AfterFire(t, Body(s, c[1], c[2], s.base),
                                          LeftAfter(s, c[1], c[2], s.base))
  BY DEF Fire, AfterFire, TimedOut
<1>2. m.list # <<>> /\ Linked(m, t)
  <2>1. m.list # <<>> /\ Head(m.list) = t
    BY <1>1 DEF Due
  <2>2. <<t, m.remain[t]>> \in Ends(m)
    BY <2>1, Known, HeadEnds
  <2>3. <<t, m.remain[t]>>[1] \in ToSet(m.list)
    BY <2>2, Known, EndsNat
  <2>4. t \in Running(m)
    BY <2>3, Known
  <2> QED BY <2>1, <2>4 DEF Running
<1>3. /\ Good(s, left) /\ s.list = m.list /\ s.base = m.base
      /\ \A x \in Timer : Linked(s, x) <=> Linked(m, x)
  <2>1. Good(m, left)
    BY Known
  <2> QED BY <1>2, <2>1, TimedOutIs
<1> HIDE DEF s
<1>4. CASE AfterFire(t, s, left)
  <2>1. Fired(s, left)
    BY <1>3 DEF Fired
  <2> QED BY <1>1, <1>2, <1>4, <2>1, AfterFireIs
<1>5. CASE \E c \in Callback : AfterFire(t, Body(s, c[1], c[2], s.base),
                                         LeftAfter(s, c[1], c[2], s.base))
  <2>1. PICK c \in Callback : AfterFire(t, Body(s, c[1], c[2], s.base),
                                        LeftAfter(s, c[1], c[2], s.base))
    BY <1>5
  <2>2. PICK op : op = c[1]
    OBVIOUS
  <2>3. PICK x : x = c[2]
    OBVIOUS
  <2>4. c \in Calls /\ op # "create" /\ (op = "start" => <<"create", x>> \notin Calls)
    BY <2>2, <2>3, CallbacksAre
  <2>5. Legal(s, op, x)
    BY <2>2, <2>3, <2>4, CallsAre DEF Legal
  <2>6. PICK r : r = Body(s, op, x, s.base)
    OBVIOUS
  <2>7. PICK lf : lf = LeftAfter(s, op, x, s.base)
    OBVIOUS
  <2>8. AfterFire(t, r, lf)
    BY <2>1, <2>2, <2>3, <2>6, <2>7
  <2>9. Timely(s, s.base) /\ Since(tick, s.base) <= LateMax
    <3>1. Since(tick, m.base) <= lag /\ lag <= LateMax
      BY <1>1, <1>2, Known DEF Works
    <3>2. Since(tick, m.base) \in Nat /\ lag \in Nat /\ LateMax \in Nat /\ m.base \in 0 .. Wrap - 1
      BY Known
    <3>3. 2 * Since(tick, m.base) <= Wrap
      BY <1>2, Known DEF Sound
    <3>4. Since(tick, s.base) <= LateMax
      BY <1>3, <3>1, <3>2
    <3>5. Timely(s, s.base)
      BY <1>3, <3>2, <3>3 DEF Timely
    <3> QED BY <3>4, <3>5
  <2>10. Fine(r, s, x, lf, s.base) /\ (op # "start" => (Linked(r, x) => Linked(s, x)))
    BY <1>3, <2>5, <2>6, <2>7, <2>9, BodyIs
  <2>11. Fired(r, lf)
    <3>1. Good(r, lf) /\ r.base = m.base /\ \A y \in Timer : y # x => r.state[y] = s.state[y]
      BY <1>3, <2>10 DEF Fine
    <3>2. ASSUME NEW y \in Timer, Linked(r, y) PROVE Linked(m, y) \/ <<"create", y>> \notin Calls
      <4>1. CASE y # x
        BY <1>3, <3>1, <3>2, <4>1 DEF Linked
      <4>2. CASE y = x
        BY <1>3, <2>4, <2>10, <3>2, <4>2
      <4> QED BY <4>1, <4>2
    <3> QED BY <3>1, <3>2 DEF Fired
  <2> QED BY <1>1, <1>2, <2>8, <2>11, AfterFireIs
<1> QED BY <1>1, <1>4, <1>5

(* The tick interrupt: everything is a tick nearer. *)
LEMMA TickIs == ASSUME WithinHalfTurn, IInv, Tick PROVE IInv'
<1>1. /\ \A t \in Timer : Linked(m, t) => left[t] > -LateMax
      /\ call.pc = "locked" => Since(tick, call.time) < LateMax
      /\ task \in {"fire", "loop"} \/ Counts => lag < LateMax
      /\ m.list # <<>> => Since(tick, m.base) < Wrap \div 2
      /\ tick' = (tick + 1) % Wrap
      /\ left' = [t \in Timer |-> IF Linked(m, t) THEN left[t] - 1 ELSE left[t]]
      /\ lag' = (IF Counts THEN lag + 1 ELSE lag) /\ begun' = begun
      /\ IF task = "wait" /\ alarm > 0
         THEN alarm' = alarm - 1 /\ task' = IF alarm = 1 THEN "ready" ELSE "wait"
         ELSE alarm' = alarm /\ task' = task
      /\ m' = m /\ call' = call
  BY DEF Tick
<1>2. /\ tick' \in 0 .. Wrap - 1
      /\ \A b \in 0 .. Wrap - 1 : /\ Since(tick', b) <= Since(tick, b) + 1
                                  /\ Since(tick, b) + 1 < Wrap => Since(tick', b) = Since(tick, b) + 1
  BY <1>1, Known, SinceTick
<1>3. m.list # <<>> => /\ Since(tick', m.base) = Since(tick, m.base) + 1
                       /\ 2 * Since(tick', m.base) <= Wrap
  <2> SUFFICES ASSUME m.list # <<>>
               PROVE  /\ Since(tick', m.base) = Since(tick, m.base) + 1
                      /\ 2 * Since(tick', m.base) <= Wrap
    OBVIOUS
  <2>1. PICK d \in Nat : d = Since(tick, m.base) /\ d < Wrap \div 2
    BY <1>1, Known
  <2>2. 2 * (d + 1) <= Wrap /\ d + 1 < Wrap
    <3>1. Wrap \in Nat /\ Wrap > 0
      BY Known
    <3> QED BY ONLY <2>1, <3>1
  <2>3. Since(tick', m.base) = d + 1
    BY <1>2, <2>1, <2>2, Known
  <2> QED BY <2>1, <2>2, <2>3
<1>4. left' \in [Timer -> Int] /\ Bounds(left')
  <2>1. ASSUME NEW t \in Timer
        PROVE  left'[t] \in Int /\ -LateMax <= left'[t] /\ 2 * left'[t] < Wrap
    <3>1. PICK x \in Int : x = left[t] /\ -LateMax <= x /\ 2 * x < Wrap
      BY Known DEF Bounds
    <3>2. left'[t] = IF Linked(m, t) THEN x - 1 ELSE x
      BY <1>1, <3>1
    <3>3. Linked(m, t) => x > -LateMax
      BY <1>1, <3>1
    <3>4. LateMax \in Nat /\ Wrap \in Nat
      BY Known
    <3> QED BY <3>1, <3>2, <3>3, <3>4
  <2> QED BY <1>1, <2>1 DEF Bounds
<1>5. \A e \in Ends(m) : /\ left'[e[1]] + Since(tick', m.base) = left[e[1]] + Since(tick, m.base)
                         /\ e[2] \in Nat
  <2> SUFFICES ASSUME NEW e \in Ends(m)
               PROVE  /\ left'[e[1]] + Since(tick', m.base) = left[e[1]] + Since(tick, m.base)
                      /\ e[2] \in Nat
    OBVIOUS
  <2>1. e[1] \in ToSet(m.list) /\ e[2] \in Nat
    BY Known, EndsNat
  <2>2. e[1] \in Timer /\ Linked(m, e[1])
    BY <2>1, Known DEF Running
  <2>3. m.list # <<>>
    BY Known, EndsNone
  <2>4. PICK x \in Int : x = left[e[1]]
    BY <2>2, Known
  <2>5. PICK d \in Nat : d = Since(tick, m.base)
    BY Known
  <2>6. left'[e[1]] = x - 1 /\ Since(tick', m.base) = d + 1
    BY <1>1, <1>3, <2>2, <2>3, <2>4, <2>5
  <2> QED BY <2>1, <2>4, <2>5, <2>6
<1>6. Base'
  <2>1. m' = m
    BY <1>1
  <2>2. Sound(m, left)'
    <3>1. Sound(m, left) /\ Listed(m)
      BY Known
    <3> QED BY <1>2, <1>3, <1>4, <1>5, <2>1, <3>1 DEF Sound, Since
  <2>3. (ToSet(m.list) = Running(m))' /\ Halves(m)' /\ Rest(m)' /\ ~m'.signal
    BY <2>1, Known DEF Running, Linked, Halves, Rest
  <2>4. Bounds(left)'
    BY <1>4 DEF Bounds
  <2> QED BY <2>2, <2>3, <2>4 DEF Base, Good
<1>7. Held'
  <2>1. ASSUME call.pc = "locked"
        PROVE  /\ call.time \in 0 .. Wrap - 1 /\ 2 * Since(tick', call.time) <= Wrap
               /\ Since(tick', call.time) <= LateMax
               /\ m.list # <<>> => Since(tick', call.time) <= Since(tick', m.base)
    <3>1. Timely(m, call.time) /\ Since(tick, call.time) < LateMax
      BY <1>1, <2>1, Known DEF Held
    <3>2. call.time \in 0 .. Wrap - 1
      BY <3>1 DEF Timely
    <3>3. PICK c \in Nat : c = Since(tick, call.time) /\ c < LateMax
      BY <3>1, <3>2, Known, SinceIs
    <3>4. PICK k \in Nat : k = Since(tick', call.time) /\ k <= c + 1
      BY <1>2, <3>2, <3>3, SinceIs
    <3>5. LateMax \in Nat /\ Wrap \in Nat /\ 2 * LateMax <= Wrap
      BY Known DEF WithinHalfTurn
    <3>6. k <= LateMax /\ 2 * k <= Wrap
      BY ONLY <3>3, <3>4, <3>5
    <3>7. ASSUME m.list # <<>> PROVE k <= Since(tick', m.base)
      <4>1. PICK d \in Nat : d = Since(tick, m.base) /\ c <= d
        BY <3>1, <3>3, <3>7, Known DEF Timely
      <4>2. Since(tick', m.base) = d + 1
        BY <1>3, <3>7, <4>1
      <4> QED BY <3>3, <3>4, <4>1, <4>2
    <3> QED BY <3>2, <3>4, <3>6, <3>7
  <2> QED BY <1>1, <2>1 DEF Held, Timely, Since
<1>8. Works'
  <2>1. ASSUME task' \in {"fire", "loop"} PROVE task \in {"fire", "loop"} /\ task' = task
    BY <1>1, <2>1
  <2>2. ASSUME task \in {"fire", "loop"}
        PROVE  /\ lag' <= LateMax /\ (m.list # <<>> => Since(tick', m.base) <= lag')
               /\ call.pc # "locked" /\ (task = "loop" /\ begun => \A e \in Ends(m) : e[2] > 0)
    <3>1. PICK n \in Nat : n = lag /\ n < LateMax /\ LateMax \in Nat
      BY <1>1, <2>2, Known
    <3>2. m.list # <<>> => lag' = n + 1
      BY <1>1, <2>2, <3>1 DEF Counts
    <3>3. m.list = <<>> => lag' = n
      BY <1>1, <2>2, <3>1 DEF Counts
    <3>4. lag' <= LateMax
      BY <3>1, <3>2, <3>3
    <3>5. ASSUME m.list # <<>> PROVE Since(tick', m.base) <= lag'
      <4>1. PICK d \in Nat : d = Since(tick, m.base) /\ d <= n
        BY <2>2, <3>1, <3>5, Known DEF Works
      <4>2. Since(tick', m.base) = d + 1
        BY <1>3, <3>5, <4>1
      <4> QED BY <3>2, <3>5, <4>1, <4>2
    <3> QED BY <2>2, <3>4, <3>5, Known DEF Works
  <2> QED BY <1>1, <2>1, <2>2 DEF Works, Since
<1>9. Sleeps'
  <2> SUFFICES ASSUME task' = "wait"
               PROVE  IF m.list = <<>> THEN alarm' = 0
                      ELSE \/ /\ alarm' > 0
                              /\ \A e \in Ends(m) : e[2] > 0 /\ alarm' + Since(tick', m.base) <= e[2] + lag'
                           \/ ~begun /\ alarm' = 0 /\ Overdue(m)
    <3>1. (Overdue(m))' <=> Overdue(m)
      BY <1>1 DEF Overdue
    <3>2. (Timed(m, alarm, lag))' <=> /\ alarm' > 0
                                      /\ \A e \in Ends(m) :
                                           e[2] > 0 /\ alarm' + Since(tick', m.base) <= e[2] + lag'
      BY <1>1 DEF Timed, Since
    <3> QED BY <1>1, <3>1, <3>2 DEF Sleeps
  <2>1. task = "wait" /\ lag' = lag
    BY <1>1 DEF Counts
  <2>2. CASE m.list = <<>>
    BY <1>1, <2>1, <2>2, Known DEF Sleeps
  <2>3. CASE m.list # <<>> /\ Timed(m, alarm, lag)
    <3>1. alarm > 0 /\ \A e \in Ends(m) : e[2] > 0 /\ alarm + Since(tick, m.base) <= e[2] + lag
      BY <2>3 DEF Timed
    <3>2. alarm' = alarm - 1 /\ alarm # 1
      BY <1>1, <2>1, <3>1
    <3>3. alarm \in Nat /\ alarm' > 0
      <4>1. alarm \in Nat
        BY Known
      <4> QED BY <3>1, <3>2, <4>1
    <3>4. ASSUME NEW e \in Ends(m) PROVE e[2] > 0 /\ alarm' + Since(tick', m.base) <= e[2] + lag'
      <4>1. PICK d \in Nat : d = Since(tick, m.base) /\ Since(tick', m.base) = d + 1
        BY <1>3, <2>3, Known
      <4>2. e[2] > 0 /\ alarm + d <= e[2] + lag
        BY <3>1, <4>1
      <4>3. (alarm - 1) + (d + 1) = alarm + d
        BY <3>3
      <4> QED BY <2>1, <3>2, <4>1, <4>2, <4>3
    <3> QED BY <2>3, <3>3, <3>4
  <2>4. CASE ~begun /\ alarm = 0 /\ Overdue(m)
    BY <1>1, <2>4
  <2> QED BY <2>1, <2>2, <2>3, <2>4, Known DEF Sleeps
<1>12. Unbegun'
  <2>1. ASSUME task' = "start" PROVE task = "start"
    BY <1>1, <2>1
  <2>2. ASSUME task = "start"
        PROVE  /\ ~begun /\ lag' <= LateMax /\ (m.list # <<>> => Since(tick', m.base) <= lag')
               /\ call.pc = "locked" => Since(tick', call.time) <= lag'
    <3>1. PICK n \in Nat : n = lag /\ n <= LateMax /\ LateMax \in Nat
      BY <2>2, Known DEF Unbegun
    <3>2. IF m.list # <<>> \/ call.pc = "locked" THEN n < LateMax /\ lag' = n + 1 ELSE lag' = n
      BY <1>1, <2>2, <3>1 DEF Counts
    <3>3. lag' <= LateMax
      BY <3>1, <3>2
    <3>4. ASSUME m.list # <<>> PROVE Since(tick', m.base) <= lag'
      <4>1. PICK d \in Nat : d = Since(tick, m.base) /\ d <= n
        BY <2>2, <3>1, <3>4, Known DEF Unbegun
      <4>2. Since(tick', m.base) = d + 1
        BY <1>3, <3>4, <4>1
      <4> QED BY <3>2, <3>4, <4>1, <4>2
    <3>5. ASSUME call.pc = "locked" PROVE Since(tick', call.time) <= lag'
      <4>1. call.time \in 0 .. Wrap - 1
        BY <3>5, Known DEF Held, Timely
      <4>2. PICK c \in Nat : c = Since(tick, call.time) /\ c <= n
        BY <2>2, <3>1, <3>5, <4>1, Known, SinceIs DEF Unbegun
      <4>3. PICK k \in Nat : k = Since(tick', call.time) /\ k <= c + 1
        BY <1>2, <4>1, <4>2, SinceIs
      <4> QED BY <3>2, <3>5, <4>2, <4>3
    <3> QED BY <2>2, <3>3, <3>4, <3>5, Known DEF Unbegun
  <2> QED BY <1>1, <2>1, <2>2 DEF Unbegun, Since
<1>10. Kinds'
  <2>1. alarm' \in 0 .. Wrap - 1
    <3>1. alarm \in 0 .. Wrap - 1 /\ alarm \in Nat /\ Wrap \in Nat
      BY Known DEF Kinds
    <3>2. alarm' = alarm \/ (alarm > 0 /\ alarm' = alarm - 1)
      BY <1>1
    <3> QED BY <3>1, <3>2
  <2>2. lag' \in Nat
    <3>1. lag \in Nat
      BY Known
    <3> QED BY <1>1, <3>1
  <2>3. task' \in Places
    BY <1>1, Known DEF Kinds, Places
  <2> QED BY <1>1, <2>1, <2>2, <2>3, Known DEF Kinds
<1>11. Asked'
  BY <1>1, Known DEF Asked
<1> QED BY <1>6, <1>7, <1>8, <1>9, <1>10, <1>11, <1>12 DEF IInv

LEMMA StutterIs == ASSUME IInv, UNCHANGED vars PROVE IInv'
<1>1. /\ m' = m /\ task' = task /\ alarm' = alarm /\ call' = call
      /\ tick' = tick /\ left' = left /\ lag' = lag /\ begun' = begun
  BY DEF vars
<1>2. Base'
  BY <1>1, Known, BasePrimed
<1>3. Held'
  BY <1>1, Known DEF Held, Timely, Since
<1>4. Sleeps' /\ Works' /\ Unbegun'
  <2>1. Sleeps'
    BY <1>1, Known, SleepsOn
  <2> QED BY <1>1, <2>1, Known DEF Works, Unbegun, Since
<1>5. Kinds' /\ Asked'
  BY <1>1, Known DEF Kinds, Asked
<1> QED BY <1>2, <1>3, <1>4, <1>5 DEF IInv

LEMMA NextIs == ASSUME WithinHalfTurn, CreatedAtRest, IInv, [Next]_vars PROVE IInv'
<1>1. CASE \E c \in Calls : Call(c[1], c[2])
  BY <1>1, CallIs
<1>2. CASE Lock
  BY <1>2, LockIs
<1>3. CASE Do
  BY <1>3, DoIs
<1>4. CASE CondWait
  BY <1>4, CondWaitIs
<1>5. CASE Wake
  BY <1>5, WakeIs
<1>6. CASE FireEnd
  BY <1>6, FireEndIs
<1>7. CASE \E t \in Timer : Fire(t)
  BY <1>7, FireIs
<1>8. CASE Tick
  BY <1>8, TickIs
<1>9. CASE UNCHANGED vars
  BY <1>9, StutterIs
<1>10. CASE Begin
  BY <1>10, BeginIs
<1> QED BY <1>10, <1>1, <1>2, <1>3, <1>4, <1>5, <1>6, <1>7, <1>8, <1>9 DEF Next

-----------------------------------------------------------------------------
(* What the invariant says. *)

(* A timer of the list has less than a turn of OSTickCtr to its end, so its   *)
(* ticks fit the member that holds them.                                      *)
LEMMA EndsWithin == ASSUME IInv, NEW e \in Ends(m) PROVE e[2] < Wrap
<1>1. e[1] \in Timer /\ e[2] \in Nat
  BY Known, EndsNat, ListedTimers
<1>2. m.list # <<>>
  BY Known, EndsNone
<1>3. PICK x \in Int : x = left[e[1]] /\ 2 * x < Wrap
  BY <1>1, Known DEF Bounds
<1>4. PICK y \in Nat : y = Since(tick, m.base) /\ 2 * y <= Wrap
  BY <1>2, Known DEF Sound
<1>5. e[2] <= Up(x + y)
  BY <1>3, <1>4, Known DEF Sound
<1>6. PICK n \in Nat : n = e[2] /\ n <= Up(x + y)
  BY <1>1, <1>5
<1>7. Wrap \in Nat /\ Wrap > 0
  BY Known
<1>8. n < Wrap
  BY ONLY <1>3, <1>4, <1>6, <1>7, n \in Nat, x \in Int, y \in Nat DEF Up
<1> QED BY <1>6, <1>8

LEMMA RemainWithin == ASSUME IInv, NEW t \in Timer PROVE m.remain[t] \in 0 .. Wrap - 1
<1>1. m.remain[t] \in Nat /\ Wrap \in Nat
  BY Known, DataIs
<1>2. CASE t \in ToSet(m.list)
  <2>1. PICK i \in 1 .. Len(m.list) : m.list[i] = t
    BY <1>2, Known, ListedFacts DEF ToSet
  <2>2. PICK n \in Nat : n = Len(m.list)
    BY Known, ListedFacts
  <2>3. i \in 0 .. n /\ i - 1 \in 0 .. n /\ i = (i - 1) + 1
    BY <2>1, <2>2
  <2>4. Until(m, i) = Until(m, i - 1) + m.remain[t]
    BY <2>1, <2>2, <2>3, Known, ListedFacts
  <2>5. Until(m, i) \in Nat /\ Until(m, i - 1) \in Nat
    BY <2>2, <2>3, Known, ListedFacts
  <2>6. <<m.list[i], Until(m, i)>> \in Ends(m)
    BY <2>1 DEF Ends
  <2>7. Until(m, i) < Wrap
    BY <2>6, EndsWithin
  <2> QED BY <1>1, <2>4, <2>5, <2>7
<1>3. CASE t \notin ToSet(m.list)
  BY <1>1, <1>3, Known DEF Rest
<1> QED BY <1>2, <1>3

LEMMA IInvTypeOK == IInv => TypeOK
<1> SUFFICES ASSUME IInv PROVE TypeOK
  OBVIOUS
<1>1. m \in Timers
  <2>1. m.remain \in [Timer -> 0 .. Wrap - 1]
    <3>1. m.remain \in [Timer -> Nat]
      BY Known, DataIs
    <3> QED BY <3>1, RemainWithin
  <2>2. m \in [list : Seq(Timer), base : 0 .. Wrap - 1, remain : [Timer -> Nat],
               state : [Timer -> States], dly : [Timer -> 0 .. Wrap - 1],
               period : [Timer -> 0 .. Wrap - 1], signal : BOOLEAN, drift : BOOLEAN]
    BY Known DEF Data
  <2> QED BY <2>1, <2>2 DEF Timers, States
<1>2. left \in [Timer -> -2 * LateMax .. Wrap - 1]
  <2>1. ASSUME NEW t \in Timer PROVE left[t] \in -2 * LateMax .. Wrap - 1
    <3>1. PICK x \in Int : x = left[t] /\ -LateMax <= x /\ 2 * x < Wrap
      BY Known DEF Bounds
    <3>2. Wrap \in Nat /\ Wrap > 0 /\ LateMax \in Nat
      BY Known
    <3>3. -2 * LateMax <= x /\ x <= Wrap - 1
      BY ONLY <3>1, <3>2, x \in Int
    <3> QED BY ONLY <3>1, <3>2, <3>3, x \in Int
  <2>2. left \in [Timer -> Int]
    BY Known
  <2> QED BY <2>1, <2>2
<1> QED BY <1>1, <1>2, Known DEF TypeOK, Kinds, Places

(* A list without repetition has as many places as members. *)
LEMMA ListLength == ASSUME NEW s, Listed(s) PROVE Len(s.list) = Cardinality(ToSet(s.list))
<1> DEFINE q == s.list
           S == ToSet(s.list)
<1>1. /\ q \in Seq(Timer) /\ Len(q) \in Nat /\ DOMAIN q = 1 .. Len(q)
      /\ \A i, j \in 1 .. Len(q) : q[i] = q[j] => i = j
      /\ \A i \in 1 .. Len(q) : q[i] \in S
      /\ \A x \in S : \E i \in 1 .. Len(q) : q[i] = x
  BY ListedFacts DEF ToSet
<1>2. PICK n \in Nat : n = Len(q)
  BY <1>1
<1>3. q \in Bijection(1 .. n, S)
  <2>1. q \in [1 .. n -> S]
    BY <1>1, <1>2
  <2>2. q \in Injection(1 .. n, S)
    BY <1>1, <1>2, <2>1 DEF Injection, IsInjective
  <2>3. q \in Surjection(1 .. n, S)
    BY <1>1, <1>2, <2>1 DEF Surjection
  <2> QED BY <2>2, <2>3 DEF Bijection
<1>4. ExistsBijection(1 .. n, S)
  BY <1>3 DEF ExistsBijection
<1> QED BY <1>2, <1>4, FS_CountingElements, FS_NatBijection

LEMMA IInvListExact == IInv => ListExact
<1> SUFFICES ASSUME IInv PROVE ListExact
  OBVIOUS
<1>1. TypeOK
  BY IInvTypeOK
<1>2. ToSet(m.list) = {t \in Timer : Linked(m, t)}
  BY Known DEF Running
<1>3. Len(m.list) = Cardinality(ToSet(m.list))
  BY Known, ListLength
<1>4. ASSUME ~m.drift, NEW i \in DOMAIN m.list
      PROVE  Until(m, i) = Max({0, left[m.list[i]] + Since(tick, m.base)})
  <2>1. i \in 1 .. Len(m.list)
    BY Known, ListedFacts
  <2>2. m.list[i] \in Timer
    BY <2>1, Known, ListedFacts
  <2>3. PICK e : e = <<m.list[i], Until(m, i)>>
    OBVIOUS
  <2>4. e \in Ends(m) /\ e[1] = m.list[i] /\ e[2] = Until(m, i)
    BY <2>1, <2>3 DEF Ends
  <2>5. e[2] = Up(left[e[1]] + Since(tick, m.base))
    BY <1>4, <2>4, Known DEF Sound
  <2>6. PICK x \in Int : x = left[m.list[i]] + Since(tick, m.base)
    BY <2>2, Known
  <2> QED BY <2>4, <2>5, <2>6, MaxZero DEF Up
<1> QED BY <1>1, <1>2, <1>3, <1>4 DEF ListExact

LEMMA IInvNoOversleep == IInv => NoOversleep
<1> DEFINE h == Head(m.list)
<1> SUFFICES ASSUME IInv, task = "wait", m.list # <<>>
             PROVE  \/ alarm > 0 /\ alarm <= left[h] + lag
                    \/ ~begun /\ alarm = 0 /\ m.remain[h] = 0
  BY Known DEF NoOversleep, Sleeps
<1>1. PICK e : e = <<h, m.remain[h]>>
  OBVIOUS
<1>2. e \in Ends(m) /\ e[1] = h /\ h \in Timer /\ \A f \in Ends(m) : e[2] <= f[2]
  BY <1>1, Known, HeadEnds
<1>3. CASE Timed(m, alarm, lag)
  <2>1. alarm > 0 /\ e[2] > 0 /\ alarm + Since(tick, m.base) <= e[2] + lag
    BY <1>2, <1>3 DEF Timed
  <2>2. PICK x \in Int : x = left[h]
    BY <1>2, Known
  <2>3. PICK y \in Nat : y = Since(tick, m.base)
    BY Known
  <2>4. PICK n \in Nat : n = e[2] /\ n <= Up(x + y)
    BY <1>2, <2>2, <2>3, Known, EndsNat DEF Sound
  <2>5. n > 0 /\ alarm + y <= n + lag
    BY <2>1, <2>3, <2>4
  <2>6. alarm \in Nat /\ lag \in Nat
    BY Known
  <2>7. alarm <= x + lag
    BY ONLY <2>4, <2>5, <2>6, x \in Int, y \in Nat, n \in Nat DEF Up
  <2> QED BY <2>1, <2>2, <2>7
<1>4. CASE ~begun /\ alarm = 0 /\ Overdue(m)
  <2>1. PICK f \in Ends(m) : f[2] = 0
    BY <1>4 DEF Overdue
  <2>2. e[2] \in Nat /\ e[2] <= 0
    BY <1>2, <2>1, Known, EndsNat
  <2>3. m.remain[h] = 0
    BY <1>1, <2>2
  <2> QED BY <1>4, <2>3
<1> QED BY <1>3, <1>4, Known DEF Sleeps

LEMMA Invariant == ASSUME WithinHalfTurn, CreatedAtRest PROVE Spec => []IInv
<1>1. Init => IInv
  BY InitIs
<1>2. IInv /\ [Next]_vars => IInv'
  BY NextIs
<1> QED BY <1>1, <1>2, PTL DEF Spec

(* OS_TmrLink and OS_TmrUnlink (os_tmr.c:1172, 1266) keep the delta list: it  *)
(* has exactly the running timers, each once, and the ticks up to each of     *)
(* them are those to the end it was started for, whatever was linked before   *)
(* and between and wherever OSTickCtr has wrapped, until OS_TmrUnlink leaves  *)
(* OSTmrTaskTickBase behind.                                                  *)
THEOREM DeltaListExact == ASSUME WithinHalfTurn, CreatedAtRest PROVE Spec => []ListExact
<1> QED BY Invariant, IInvListExact, PTL

(* OS_TmrCondWait sleeps no longer than to the first end of a timer, counted  *)
(* from the last reading of OSTickCtr, or in its first sleep from the start   *)
(* of the first timer, and for ever only with an empty list or, in its first  *)
(* sleep, with a head of 0 ticks (os_tmr.c:1378): every call that changes the *)
(* head has signalled the task.                                               *)
THEOREM TaskNoOversleep == ASSUME WithinHalfTurn, CreatedAtRest PROVE Spec => []NoOversleep
<1> QED BY Invariant, IInvNoOversleep, PTL

=============================================================================
