---------------------------- MODULE OsMutexProof ----------------------------
(***************************************************************************)
(* Proofs about the mutexes of uC/OS-III, for any tasks, mutexes,          *)
(* priorities and calls that MutexAssumption allows.                       *)
(***************************************************************************)
EXTENDS OsMutex, FiniteSetTheorems, WellFoundedInduction, TLAPS

-----------------------------------------------------------------------------
(* Numbers and sequences. *)

LEMMA NatMin ==
  ASSUME NEW S, S \subseteq Nat, S # {}
  PROVE  \E m \in S : \A n \in S : m <= n
<1> DEFINE R == {ss \in Nat \X Nat : ss[1] < ss[2]}
<1>1. IsWellFoundedOn(R, Nat)
  BY NatLessThanWellFounded DEF OpToRel
<1>2. PICK m \in S : \A n \in S : ~(<<n, m>> \in R)
  BY <1>1, WFMin
<1>3. ASSUME NEW n \in S PROVE m <= n
  <2>1. m \in Nat /\ n \in Nat
    OBVIOUS
  <2>2. ~(n < m)
    BY <1>2, <2>1
  <2> QED BY <2>1, <2>2
<1> QED BY <1>3

LEMMA MinIs ==
  ASSUME NEW S, S \subseteq Nat, S # {}
  PROVE  Min(S) \in S /\ \A n \in S : Min(S) <= n
<1>1. \E m \in S : \A n \in S : m <= n
  BY NatMin
<1> QED BY <1>1 DEF Min

LEMMA Largest == \A m \in Nat \ {0} : Max(1 .. m) = m
<1> SUFFICES ASSUME NEW m \in Nat \ {0} PROVE Max(1 .. m) = m
  OBVIOUS
<1>1. m \in 1 .. m /\ \A y \in 1 .. m : m >= y
  OBVIOUS
<1>2. \A x \in 1 .. m : (\A y \in 1 .. m : x >= y) => x = m
  BY <1>1
<1> QED BY <1>1, <1>2 DEF Max

(* A set of positions has a last one. *)
LEMMA LastOne ==
  ASSUME NEW n \in Nat, NEW s \in SUBSET (1 .. n), s # {}
  PROVE  Max(s) \in s /\ \A i \in s : i <= Max(s)
<1> DEFINE B == {b \in Nat : \A i \in s : i <= b}
<1>1. n \in B /\ B \subseteq Nat
  OBVIOUS
<1>2. PICK b \in B : \A c \in B : b <= c
  <2> HIDE DEF B
  <2> QED BY <1>1, NatMin
<1>3. b \in s
  <2> SUFFICES ASSUME b \notin s PROVE FALSE
    OBVIOUS
  <2>1. \A i \in s : i \in Nat \ {0} /\ i < b
    <3>1. \A i \in s : i \in Nat \ {0} /\ i <= b /\ i # b
      OBVIOUS
    <3> QED BY <3>1
  <2>2. b - 1 \in Nat /\ b \in Nat
    <3>1. PICK i \in s : i \in Nat \ {0} /\ i < b
      BY <2>1
    <3> QED BY <3>1
  <2>3. b - 1 \in B
    BY <2>1, <2>2
  <2> QED BY <1>2, <2>2, <2>3
<1>4. \A i \in s : b >= i
  OBVIOUS
<1>5. \E x \in s : \A y \in s : x >= y
  BY <1>3, <1>4
<1>6. Max(s) \in s /\ \A y \in s : Max(s) >= y
  BY <1>5 DEF Max
<1> QED BY <1>6

(* What InsertAt and RemoveAt give. *)
(* r is q with e at the place p. *)
HasAt(r, q, p, e, S) ==
  /\ r \in Seq(S) /\ Len(r) = Len(q) + 1 /\ r[p] = e
  /\ \A i \in 1 .. Len(q) + 1, j \in 1 .. Len(q) :
       /\ i < p /\ j = i => r[i] = q[j]
       /\ i = p => r[i] = e
       /\ i > p /\ i = j + 1 => r[i] = q[j]

LEMMA Inserted ==
  ASSUME NEW S, NEW q \in Seq(S), NEW e \in S, NEW p \in 1 .. Len(q) + 1
  PROVE  HasAt(InsertAt(q, p, e), q, p, e, S)
<1> DEFINE a == SubSeq(q, 1, p - 1)
           b == SubSeq(q, p, Len(q))
           r == (a \o <<e>>) \o b
<1>1. q \in Seq(S) /\ Len(q) \in Nat /\ p \in Int /\ 1 <= p /\ p <= Len(q) + 1
  OBVIOUS
<1>2. a \in Seq(S) /\ Len(a) = p - 1 /\ \A i \in 1 .. p - 1 : a[i] = q[i]
  BY <1>1
<1>3. b \in Seq(S) /\ Len(b) = Len(q) - p + 1 /\ \A i \in 1 .. Len(q) - p + 1 : b[i] = q[p + i - 1]
  BY <1>1
<1>4. InsertAt(q, p, e) = r
  BY DEF InsertAt
<1> HIDE DEF a, b
<1>5. r \in Seq(S) /\ Len(r) = Len(q) + 1
  <2>1. <<e>> \in Seq(S) /\ Len(<<e>>) = 1 /\ a \in Seq(S) /\ b \in Seq(S)
    BY <1>2, <1>3
  <2>2. PICK c : c = a \o <<e>>
    OBVIOUS
  <2>3. c \in Seq(S) /\ Len(c) = p
    BY <1>1, <1>2, <2>1, <2>2
  <2>4. c \o b \in Seq(S) /\ Len(c \o b) = Len(c) + Len(b)
    BY <2>1, <2>3, SMTT(20)
  <2>5. r = c \o b
    BY <2>2
  <2> HIDE DEF r
  <2> QED BY <1>1, <1>3, <2>3, <2>4, <2>5
<1>6. r[p] = e
  BY <1>1, <1>2, <1>3
<1>7. ASSUME NEW i \in 1 .. Len(q), i < p PROVE r[i] = q[i]
  <2>1. i \in 1 .. p - 1
    BY <1>1, <1>7
  <2>2. r[i] = a[i]
    BY <1>1, <1>2, <1>3, <2>1
  <2> QED BY <1>2, <2>1, <2>2
<1>8. ASSUME NEW i \in 1 .. Len(q) + 1, NEW j \in 1 .. Len(q), i > p, i = j + 1 PROVE r[i] = q[j]
  <2>1. PICK h \in 1 .. Len(q) - p + 1 : h = j - p + 1
    BY <1>1, <1>8
  <2>2. r[i] = b[h]
    BY <1>1, <1>2, <1>3, <1>8, <2>1, SMTT(30)
  <2>3. b[h] = q[p + h - 1] /\ p + h - 1 = j
    BY <1>1, <1>3, <2>1
  <2> QED BY <2>2, <2>3
<1> HIDE DEF r
<1>9. HasAt(r, q, p, e, S)
  BY <1>5, <1>6, <1>7, <1>8 DEF HasAt
<1> QED BY <1>4, <1>9

LEMMA Removed ==
  ASSUME NEW S, NEW q \in Seq(S), NEW p \in 1 .. Len(q)
  PROVE  /\ RemoveAt(q, p) \in Seq(S) /\ Len(RemoveAt(q, p)) = Len(q) - 1
         /\ \A i \in 1 .. Len(q) - 1, j \in 1 .. Len(q) :
              /\ i < p /\ j = i => RemoveAt(q, p)[i] = q[j]
              /\ i >= p /\ j = i + 1 => RemoveAt(q, p)[i] = q[j]
<1> DEFINE a == SubSeq(q, 1, p - 1)
           b == SubSeq(q, p + 1, Len(q))
           r == a \o b
<1>1. q \in Seq(S) /\ Len(q) \in Nat /\ p \in Int /\ 1 <= p /\ p <= Len(q)
  OBVIOUS
<1>2. a \in Seq(S) /\ Len(a) = p - 1 /\ \A i \in 1 .. p - 1 : a[i] = q[i]
  BY <1>1
<1>3. b \in Seq(S) /\ Len(b) = Len(q) - p /\ \A i \in 1 .. Len(q) - p : b[i] = q[p + i]
  BY <1>1
<1>4. RemoveAt(q, p) = r
  BY DEF RemoveAt
<1> HIDE DEF a, b
<1>5. r \in Seq(S) /\ Len(r) = Len(q) - 1
  <2>1. a \in Seq(S) /\ b \in Seq(S)
    BY <1>2, <1>3
  <2>2. a \o b \in Seq(S) /\ Len(a \o b) = Len(a) + Len(b)
    BY <2>1
  <2> QED BY <1>1, <1>2, <1>3, <2>2
<1>6. ASSUME NEW i \in 1 .. Len(q) - 1, i < p PROVE r[i] = q[i]
  <2>1. i \in 1 .. p - 1
    BY <1>1, <1>6
  <2>2. r[i] = a[i]
    BY <1>1, <1>2, <1>3, <2>1
  <2> QED BY <1>2, <2>1, <2>2
<1>7. ASSUME NEW i \in 1 .. Len(q) - 1, NEW j \in 1 .. Len(q), i >= p, j = i + 1 PROVE r[i] = q[j]
  <2>1. PICK h \in 1 .. Len(q) - p : h = i - p + 1
    BY <1>1, <1>7
  <2>2. r[i] = b[h]
    BY <1>1, <1>2, <1>3, <1>7, <2>1
  <2>3. b[h] = q[p + h] /\ p + h = j
    BY <1>1, <1>3, <1>7, <2>1
  <2> QED BY <2>2, <2>3
<1> HIDE DEF r
<1> QED BY <1>4, <1>5, <1>6, <1>7

-----------------------------------------------------------------------------
(* Lists without repetitions. *)

Lists(q, E, S) == q \in Seq(E) /\ IsInjective(q) /\ ToSet(q) = S
Sorted(q, pr) == \A i, j \in 1 .. Len(q) : i < j => pr[q[i]] <= pr[q[j]]

LEMMA ListIs ==
  ASSUME NEW q, NEW E, NEW S, Lists(q, E, S)
  PROVE  /\ q \in Seq(E) /\ Len(q) \in Nat /\ DOMAIN q = 1 .. Len(q)
         /\ \A i, j \in 1 .. Len(q) : q[i] = q[j] => i = j
         /\ \A i \in 1 .. Len(q) : q[i] \in S /\ q[i] \in E
         /\ \A x \in S : x \in E /\ \E i \in 1 .. Len(q) : q[i] = x
BY DEF Lists, IsInjective, ToSet

LEMMA ListMade ==
  ASSUME NEW E, NEW q \in Seq(E), NEW S,
         \A i, j \in 1 .. Len(q) : q[i] = q[j] => i = j,
         \A i \in 1 .. Len(q) : q[i] \in S,
         \A x \in S : \E i \in 1 .. Len(q) : q[i] = x
  PROVE  Lists(q, E, S)
<1>1. DOMAIN q = 1 .. Len(q)
  OBVIOUS
<1>2. ToSet(q) = S
  BY <1>1 DEF ToSet
<1> QED BY <1>1, <1>2 DEF Lists, IsInjective

LEMMA ListEmpty ==
  ASSUME NEW q, NEW E, NEW S, Lists(q, E, S)
  PROVE  q = <<>> <=> S = {}
<1>1. q \in Seq(E) /\ Len(q) \in Nat
  BY ListIs
<1>2. q = <<>> <=> Len(q) = 0
  BY <1>1
<1>3. ASSUME Len(q) = 0 PROVE S = {}
  <2>1. 1 .. Len(q) = {}
    BY <1>3
  <2> QED BY <2>1, ListIs
<1>4. ASSUME Len(q) # 0 PROVE S # {}
  <2>1. 1 \in 1 .. Len(q)
    BY <1>1, <1>4
  <2> QED BY <2>1, ListIs
<1> QED BY <1>2, <1>3, <1>4

LEMMA ListHead ==
  ASSUME NEW q, NEW E, NEW S, Lists(q, E, S), q # <<>>
  PROVE  /\ Head(q) \in S /\ Head(q) \in E /\ Head(q) = q[1] /\ 1 \in 1 .. Len(q)
         /\ \A pr \in [E -> Nat] : Sorted(q, pr) => \A x \in S : pr[Head(q)] <= pr[x]
<1>1. q \in Seq(E) /\ Len(q) \in Nat
  BY ListIs
<1>2. 1 \in 1 .. Len(q) /\ Head(q) = q[1]
  BY <1>1
<1>3. Head(q) \in S /\ Head(q) \in E
  BY <1>2, ListIs
<1>4. ASSUME NEW pr \in [E -> Nat], Sorted(q, pr), NEW x \in S PROVE pr[Head(q)] <= pr[x]
  <2>1. PICK i \in 1 .. Len(q) : q[i] = x
    BY ListIs
  <2>2. CASE i = 1
    <3>1. pr[x] \in Nat
      BY <1>3, <1>2, <2>1, <2>2
    <3> QED BY <1>2, <2>1, <2>2, <3>1
  <2>3. CASE i # 1
    <3>1. 1 < i
      BY <2>3
    <3> QED BY <1>2, <1>4, <2>1, <3>1 DEF Sorted
  <2> QED BY <2>2, <2>3
<1> QED BY <1>2, <1>3, <1>4

LEMMA ListLength ==
  ASSUME NEW q, NEW E, NEW S, Lists(q, E, S)
  PROVE  IsFiniteSet(S) /\ Cardinality(S) = Len(q)
<1>1. /\ q \in Seq(E) /\ Len(q) \in Nat /\ DOMAIN q = 1 .. Len(q)
      /\ \A i, j \in 1 .. Len(q) : q[i] = q[j] => i = j
      /\ \A i \in 1 .. Len(q) : q[i] \in S
      /\ \A x \in S : \E i \in 1 .. Len(q) : q[i] = x
  BY ListIs
<1>2. PICK n \in Nat : n = Len(q)
  BY <1>1
<1>3. q \in Bijection(1 .. n, S)
  <2>1. q \in [1 .. n -> S]
    BY <1>1, <1>2
  <2>2. q \in Injection(1 .. n, S)
    BY <1>1, <1>2, <2>1 DEF Injection, IsInjective
  <2>3. q \in Surjection(1 .. n, S)
    BY <1>1, <1>2, <2>1 DEF Surjection
  <2> QED BY <2>2, <2>3 DEF Bijection
<1>4. ExistsBijection(1 .. n, S)
  BY <1>3 DEF ExistsBijection
<1> QED BY <1>2, <1>4, FS_CountingElements, FS_NatBijection

LEMMA ListOut ==
  ASSUME NEW q, NEW E, NEW S, Lists(q, E, S), NEW e \in S
  PROVE  /\ Lists(RemoveFirst(q, e), E, S \ {e})
         /\ \A pr : Sorted(q, pr) => Sorted(RemoveFirst(q, e), pr)
<1> DEFINE I == {i \in 1 .. Len(q) : q[i] = e}
           p == Min(I)
           r == RemoveAt(q, p)
           n == Len(q)
<1>1. /\ q \in Seq(E) /\ n \in Nat /\ DOMAIN q = 1 .. n
      /\ \A i, j \in 1 .. n : q[i] = q[j] => i = j
      /\ \A i \in 1 .. n : q[i] \in S
      /\ \A x \in S : \E i \in 1 .. n : q[i] = x
  BY ListIs
<1>2. I # {} /\ I \subseteq Nat
  BY <1>1
<1>3. p \in 1 .. n /\ q[p] = e
  <2>1. p \in I
    <3> HIDE DEF I
    <3> QED BY <1>2, MinIs
  <2> QED BY <2>1
<1>4. RemoveFirst(q, e) = r
  <2>1. \E i \in 1 .. n : q[i] = e
    BY <1>3
  <2>2. SelectInSeq(q, LAMBDA v : v = e) = p
    BY <1>2 DEF SelectInSeq
  <2> QED BY <2>1, <2>2 DEF RemoveFirst
<1> HIDE DEF I, p
<1>50. q \in Seq(E) /\ p \in 1 .. Len(q)
  BY <1>1, <1>3
<1>51. /\ RemoveAt(q, p) \in Seq(E) /\ Len(RemoveAt(q, p)) = Len(q) - 1
       /\ \A i \in 1 .. Len(q) - 1, j \in 1 .. Len(q) :
            /\ i < p /\ j = i => RemoveAt(q, p)[i] = q[j]
            /\ i >= p /\ j = i + 1 => RemoveAt(q, p)[i] = q[j]
  BY <1>50, Removed, SMTT(30)
<1>5. /\ r \in Seq(E) /\ Len(r) = n - 1
      /\ \A i \in 1 .. n - 1, j \in 1 .. n :
           /\ i < p /\ j = i => r[i] = q[j]
           /\ i >= p /\ j = i + 1 => r[i] = q[j]
  BY <1>51
<1> HIDE DEF r
<1> DEFINE f == [i \in 1 .. n - 1 |-> IF i < p THEN i ELSE i + 1]
<1>6. ASSUME NEW i \in 1 .. n - 1 PROVE f[i] \in 1 .. n /\ f[i] # p /\ r[i] = q[f[i]]
  <2>1. f[i] \in 1 .. n /\ f[i] # p
    BY <1>1, <1>3
  <2>2. CASE i < p
    BY <1>5, <2>1, <2>2
  <2>3. CASE ~(i < p)
    <3>1. i >= p /\ f[i] = i + 1
      BY <1>3, <2>3
    <3> QED BY <1>5, <2>1, <3>1
  <2> QED BY <2>1, <2>2, <2>3
<1>7. \A i, j \in 1 .. n - 1 : i < j => f[i] < f[j]
  BY <1>1, <1>3
<1>8. ASSUME NEW h \in 1 .. n, h # p PROVE \E i \in 1 .. n - 1 : f[i] = h
  <2>1. CASE h < p
    <3>1. h \in 1 .. n - 1 /\ f[h] = h
      BY <1>1, <1>3, <2>1
    <3> QED BY <3>1
  <2>2. CASE ~(h < p)
    <3>1. h - 1 \in 1 .. n - 1 /\ f[h - 1] = h
      BY <1>1, <1>3, <1>8, <2>2
    <3> QED BY <3>1
  <2> QED BY <2>1, <2>2
<1> HIDE DEF f
<1>9. \A i, j \in 1 .. Len(r) : r[i] = r[j] => i = j
  <2> SUFFICES ASSUME NEW i \in 1 .. n - 1, NEW j \in 1 .. n - 1, r[i] = r[j], i # j PROVE FALSE
    BY <1>5
  <2>1. f[i] = f[j] /\ f[i] \in Int /\ f[j] \in Int
    BY <1>1, <1>6
  <2>2. i < j \/ j < i
    OBVIOUS
  <2> QED BY <1>7, <2>1, <2>2
<1>10. \A i \in 1 .. Len(r) : r[i] \in S \ {e}
  <2> SUFFICES ASSUME NEW i \in 1 .. n - 1 PROVE r[i] \in S /\ r[i] # e
    BY <1>5
  <2> QED BY <1>1, <1>3, <1>6
<1>11. \A x \in S \ {e} : \E i \in 1 .. Len(r) : r[i] = x
  <2> SUFFICES ASSUME NEW x \in S, x # e PROVE \E i \in 1 .. n - 1 : r[i] = x
    BY <1>5
  <2>1. PICK h \in 1 .. n : q[h] = x
    BY <1>1
  <2>2. h # p
    BY <1>3, <2>1
  <2> QED BY <1>6, <1>8, <2>1, <2>2
<1>12. Lists(r, E, S \ {e})
  BY <1>5, <1>9, <1>10, <1>11, ListMade
<1>13. \A pr : Sorted(q, pr) => Sorted(r, pr)
  <2> SUFFICES ASSUME NEW pr, Sorted(q, pr), NEW i \in 1 .. n - 1, NEW j \in 1 .. n - 1, i < j
               PROVE  pr[r[i]] <= pr[r[j]]
    BY <1>5 DEF Sorted
  <2>1. f[i] < f[j] /\ f[i] \in 1 .. n /\ f[j] \in 1 .. n /\ r[i] = q[f[i]] /\ r[j] = q[f[j]]
    BY <1>6, <1>7
  <2> QED BY <2>1 DEF Sorted
<1> QED BY <1>4, <1>12, <1>13

(* An element that goes in at any place. *)
Between(q, p, e, pr) ==
  \A i \in 1 .. Len(q) :
    (i < p => pr[q[i]] <= pr[e]) /\ (i >= p => pr[e] <= pr[q[i]])

LEMMA ListIn ==
  ASSUME NEW q, NEW E, NEW S, Lists(q, E, S), NEW e \in E, e \notin S, NEW p \in 1 .. Len(q) + 1
  PROVE  /\ Lists(InsertAt(q, p, e), E, S \cup {e})
         /\ \A pr : Sorted(q, pr) /\ Between(q, p, e, pr) => Sorted(InsertAt(q, p, e), pr)
<1> DEFINE r == InsertAt(q, p, e)
           n == Len(q)
<1>1. /\ q \in Seq(E) /\ n \in Nat /\ DOMAIN q = 1 .. n
      /\ \A i, j \in 1 .. n : q[i] = q[j] => i = j
      /\ \A i \in 1 .. n : q[i] \in S
      /\ \A x \in S : \E i \in 1 .. n : q[i] = x
  BY ListIs
<1>20. q \in Seq(E)
  BY <1>1
<1>21. HasAt(InsertAt(q, p, e), q, p, e, E)
  BY <1>20, Inserted
<1>22. r = InsertAt(q, p, e)
  OBVIOUS
<1> HIDE DEF r
<1>2. /\ r \in Seq(E) /\ Len(r) = n + 1
      /\ \A i \in 1 .. n + 1, j \in 1 .. n :
           /\ i < p /\ j = i => r[i] = q[j]
           /\ i = p => r[i] = e
           /\ i > p /\ i = j + 1 => r[i] = q[j]
      /\ r[p] = e
  BY <1>21, <1>22 DEF HasAt
<1> DEFINE f == [i \in 1 .. n + 1 |-> IF i < p THEN i ELSE i - 1]
<1>3. ASSUME NEW i \in 1 .. n + 1, i # p PROVE f[i] \in 1 .. n /\ r[i] = q[f[i]]
  <2>1. f[i] \in 1 .. n
    BY <1>1, <1>3
  <2>2. CASE i < p
    <3>1. f[i] = i
      BY <2>2
    <3> QED BY <1>2, <2>1, <2>2, <3>1
  <2>3. CASE ~(i < p)
    <3>1. i > p /\ i = f[i] + 1
      BY <1>3, <2>3
    <3> QED BY <1>2, <2>1, <3>1
  <2> QED BY <2>1, <2>2, <2>3
<1>4. \A i, j \in 1 .. n + 1 : i < j /\ i # p /\ j # p => f[i] < f[j]
  BY <1>1
<1>5. ASSUME NEW h \in 1 .. n PROVE \E i \in 1 .. n + 1 : i # p /\ f[i] = h
  <2>1. CASE h < p
    <3>1. h \in 1 .. n + 1 /\ h # p /\ f[h] = h
      BY <1>1, <2>1
    <3> QED BY <3>1
  <2>2. CASE ~(h < p)
    <3>1. h + 1 \in 1 .. n + 1 /\ h + 1 # p /\ f[h + 1] = h
      BY <1>1, <2>2
    <3> QED BY <3>1
  <2> QED BY <2>1, <2>2
<1>6. \A i \in 1 .. n + 1 : (i < p => f[i] < p) /\ (i > p => f[i] >= p)
  BY <1>1
<1> HIDE DEF f
<1>7. \A i, j \in 1 .. Len(r) : r[i] = r[j] => i = j
  <2> SUFFICES ASSUME NEW i \in 1 .. n + 1, NEW j \in 1 .. n + 1, r[i] = r[j], i # j PROVE FALSE
    BY <1>2
  <2>1. CASE i # p /\ j # p
    <3>1. f[i] = f[j] /\ f[i] \in Int /\ f[j] \in Int
      BY <1>1, <1>3, <2>1
    <3>2. i < j \/ j < i
      OBVIOUS
    <3> QED BY <1>4, <2>1, <3>1, <3>2
  <2>2. CASE i = p
    <3>1. r[i] = e /\ r[j] \in S
      BY <1>1, <1>2, <1>3, <2>2
    <3> QED BY <3>1
  <2>3. CASE j = p
    <3>1. r[j] = e /\ r[i] \in S
      BY <1>1, <1>2, <1>3, <2>3
    <3> QED BY <3>1
  <2> QED BY <2>1, <2>2, <2>3
<1>8. \A i \in 1 .. Len(r) : r[i] \in S \cup {e}
  BY <1>1, <1>2, <1>3
<1>9. \A x \in S \cup {e} : \E i \in 1 .. Len(r) : r[i] = x
  <2> SUFFICES ASSUME NEW x \in S \cup {e} PROVE \E i \in 1 .. n + 1 : r[i] = x
    BY <1>2
  <2>1. CASE x = e
    BY <1>2, <2>1
  <2>2. CASE x # e
    BY <1>1, <1>3, <1>5, <2>2
  <2> QED BY <2>1, <2>2
<1>10. Lists(r, E, S \cup {e})
  BY <1>2, <1>7, <1>8, <1>9, ListMade
<1>11. ASSUME NEW pr, Sorted(q, pr), Between(q, p, e, pr) PROVE Sorted(r, pr)
  <2> SUFFICES ASSUME NEW i \in 1 .. n + 1, NEW j \in 1 .. n + 1, i < j PROVE pr[r[i]] <= pr[r[j]]
    BY <1>2 DEF Sorted
  <2>1. CASE i = p
    <3>1. j > p /\ j # p
      BY <2>1
    <3> QED BY <1>2, <1>3, <1>6, <1>11, <2>1, <3>1 DEF Between
  <2>2. CASE j = p
    <3>1. i < p /\ i # p
      BY <2>2
    <3> QED BY <1>2, <1>3, <1>6, <1>11, <2>2, <3>1 DEF Between
  <2>3. CASE i # p /\ j # p
    <3>1. f[i] < f[j] /\ f[i] \in 1 .. n /\ f[j] \in 1 .. n /\ r[i] = q[f[i]] /\ r[j] = q[f[j]]
      BY <1>3, <1>4, <2>3
    <3> QED BY <1>11, <3>1 DEF Sorted
  <2> QED BY <2>1, <2>2, <2>3
<1> QED BY <1>10, <1>11 DEF r

LEMMA AtEnds ==
  ASSUME NEW E, NEW q \in Seq(E), NEW e \in E
  PROVE  /\ Append(q, e) = InsertAt(q, Len(q) + 1, e) /\ Len(q) + 1 \in 1 .. Len(q) + 1
         /\ <<e>> \o q = InsertAt(q, 1, e) /\ 1 \in 1 .. Len(q) + 1
<1>1. Len(q) \in Nat
  OBVIOUS
<1>2. SubSeq(q, 1, 0) = <<>> /\ SubSeq(q, 1, Len(q)) = q /\ SubSeq(q, Len(q) + 1, Len(q)) = <<>>
  BY <1>1
<1>3. Append(q, e) = (q \o <<e>>) \o <<>> /\ <<e>> \o q = (<<>> \o <<e>>) \o q
  OBVIOUS
<1>4. (Len(q) + 1) - 1 = Len(q) /\ 1 - 1 = 0
  BY <1>1
<1>5. InsertAt(q, Len(q) + 1, e) = (SubSeq(q, 1, Len(q)) \o <<e>>) \o SubSeq(q, Len(q) + 1, Len(q))
  BY <1>4 DEF InsertAt
<1>6. InsertAt(q, 1, e) = (SubSeq(q, 1, 0) \o <<e>>) \o SubSeq(q, 1, Len(q))
  BY <1>4 DEF InsertAt
<1>7. InsertAt(q, Len(q) + 1, e) = Append(q, e)
  BY <1>2, <1>3, <1>5
<1>8. InsertAt(q, 1, e) = <<e>> \o q
  BY <1>2, <1>3, <1>6
<1>9. Len(q) + 1 \in 1 .. Len(q) + 1 /\ 1 \in 1 .. Len(q) + 1
  BY <1>1
<1> QED BY <1>7, <1>8, <1>9

-----------------------------------------------------------------------------
(* The lists of the kernel.  The tasks of X are in none of them: one that     *)
(* is being moved from list to list, or deleted.                              *)

RdySet(s, X, p) == {x \in Task \ X : s.state[x] = "rdy" /\ s.prio[x] = p}
WaitSet(s, X, m) == {x \in Task \ X : Waits(s, x) /\ s.obj[x] = m}
RdyList(s, X, p) == Lists(s.rdy[p], Task, RdySet(s, X, p))
WaitList(s, X, m) == Lists(s.wait[m], Task, WaitSet(s, X, m)) /\ Sorted(s.wait[m], s.prio)

Tcbs(s, X) == (\A p \in Prio : RdyList(s, X, p)) /\ (\A m \in Mutex : WaitList(s, X, m))

(* What no change of a priority touches. *)
Same(s, r) ==
  /\ r.state = s.state /\ r.status = s.status /\ r.obj = s.obj /\ r.base = s.base
  /\ r.grp = s.grp /\ r.owner = s.owner /\ r.nest = s.nest /\ r.made = s.made
  /\ r.cur = s.cur /\ r.prioCur = s.prioCur

LEMMA PrioIs == Prio \subseteq Nat /\ \A p \in Prio : p \in 0 .. IdlePrio + 1
BY MutexAssumption DEF Prio

(* Tasks that are in no list change at will. *)
Unchanged(s, X, r) ==
  \A x \in Task : x \notin X =>
    r.state[x] = s.state[x] /\ r.prio[x] = s.prio[x] /\ r.obj[x] = s.obj[x]

LEMMA OutChange ==
  ASSUME NEW s, NEW X, Tcbs(s, X), NEW r, r.rdy = s.rdy, r.wait = s.wait,
         s.wait \in [Mutex -> Seq(Task)], Unchanged(s, X, r)
  PROVE  Tcbs(r, X)
<1>1. ASSUME NEW p \in Prio PROVE RdyList(r, X, p)
  <2>1. RdySet(r, X, p) = RdySet(s, X, p)
    BY DEF RdySet, Unchanged
  <2>2. RdyList(s, X, p)
    BY DEF Tcbs
  <2> QED BY <2>1, <2>2 DEF RdyList
<1>2. ASSUME NEW m \in Mutex PROVE WaitList(r, X, m)
  <2>1. WaitSet(r, X, m) = WaitSet(s, X, m)
    BY DEF WaitSet, Waits, Unchanged
  <2>2. Lists(s.wait[m], Task, WaitSet(s, X, m)) /\ Sorted(s.wait[m], s.prio)
    BY DEF Tcbs, WaitList
  <2>3. \A i \in 1 .. Len(s.wait[m]) : s.wait[m][i] \in WaitSet(s, X, m)
    BY <2>2, ListIs
  <2>4. \A i \in 1 .. Len(s.wait[m]) : r.prio[s.wait[m][i]] = s.prio[s.wait[m][i]]
    BY <2>3 DEF WaitSet, Unchanged
  <2>5. Sorted(s.wait[m], r.prio)
    BY <2>2, <2>4 DEF Sorted
  <2> QED BY <2>1, <2>2, <2>5 DEF WaitList
<1> QED BY <1>1, <1>2 DEF Tcbs

(* Tasks that neither are ready nor wait are in no list. *)
LEMMA OutLeave ==
  ASSUME NEW s, NEW X, NEW t, t \notin X, s.state[t] \in {"dly", "del"}
  PROVE  Tcbs(s, X) <=> Tcbs(s, X \cup {t})
<1>1. ASSUME NEW p PROVE RdySet(s, X, p) = RdySet(s, X \cup {t}, p)
  BY DEF RdySet
<1>2. ASSUME NEW m PROVE WaitSet(s, X, m) = WaitSet(s, X \cup {t}, m)
  BY DEF WaitSet, Waits
<1> QED BY <1>1, <1>2 DEF Tcbs, RdyList, WaitList

LEMMA RdyRemoveIs ==
  ASSUME NEW s \in Kernel, NEW X, Tcbs(s, X), NEW t \in Task, t \notin X,
         s.state[t] = "rdy", s.prio[t] \in Prio
  PROVE  /\ RdyRemove(s, t) \in Kernel /\ Same(s, RdyRemove(s, t))
         /\ RdyRemove(s, t).prio = s.prio /\ RdyRemove(s, t).wait = s.wait
         /\ Tcbs(RdyRemove(s, t), X \cup {t})
<1> DEFINE r == RdyRemove(s, t)
           q == s.prio[t]
           Y == X \cup {t}
<1>1. /\ r.rdy = [s.rdy EXCEPT ![q] = RemoveFirst(s.rdy[q], t)]
      /\ r.prio = s.prio /\ r.wait = s.wait /\ Same(s, r)
  BY DEF RdyRemove, Kernel, Same
<1>2. s.rdy \in [Prio -> Seq(Task)] /\ s.wait \in [Mutex -> Seq(Task)]
  BY DEF Kernel
<1>3. RdyList(s, X, q) /\ t \in RdySet(s, X, q)
  BY DEF Tcbs, RdySet
<1>4. Lists(RemoveFirst(s.rdy[q], t), Task, RdySet(s, X, q) \ {t})
  BY <1>3, ListOut DEF RdyList
<1>5. RemoveFirst(s.rdy[q], t) \in Seq(Task)
  BY <1>4 DEF Lists
<1>6. r.rdy \in [Prio -> Seq(Task)]
  BY <1>1, <1>2, <1>5
<1>7. r \in Kernel
  BY <1>6 DEF Kernel, RdyRemove
<1>8. ASSUME NEW p \in Prio PROVE RdyList(r, Y, p)
  <2>1. CASE p = q
    <3>1. RdySet(r, Y, p) = RdySet(s, X, q) \ {t}
      BY <1>1, <2>1 DEF RdySet, Same
    <3>2. r.rdy[p] = RemoveFirst(s.rdy[q], t)
      BY <1>1, <1>2, <2>1
    <3> QED BY <1>4, <3>1, <3>2 DEF RdyList
  <2>2. CASE p # q
    <3>1. RdySet(r, Y, p) = RdySet(s, X, p)
      BY <1>1, <2>2 DEF RdySet, Same
    <3>2. r.rdy[p] = s.rdy[p]
      BY <1>1, <1>2, <2>2
    <3>3. RdyList(s, X, p)
      BY DEF Tcbs
    <3> QED BY <3>1, <3>2, <3>3 DEF RdyList
  <2> QED BY <2>1, <2>2
<1>9. ASSUME NEW m \in Mutex PROVE WaitList(r, Y, m)
  <2>1. WaitSet(r, Y, m) = WaitSet(s, X, m)
    BY <1>1 DEF WaitSet, Same, Waits
  <2>2. WaitList(s, X, m)
    BY DEF Tcbs
  <2> QED BY <1>1, <2>1, <2>2 DEF WaitList
<1> QED BY <1>1, <1>7, <1>8, <1>9 DEF Tcbs

LEMMA PendRemoveIs ==
  ASSUME NEW s \in Kernel, NEW X, Tcbs(s, X), NEW t \in Task, t \notin X,
         Waits(s, t), s.obj[t] \in Mutex
  PROVE  /\ PendRemove(s, t) \in Kernel /\ Same(s, PendRemove(s, t))
         /\ PendRemove(s, t).prio = s.prio /\ PendRemove(s, t).rdy = s.rdy
         /\ Tcbs(PendRemove(s, t), X \cup {t})
<1> DEFINE r == PendRemove(s, t)
           q == s.obj[t]
           Y == X \cup {t}
<1>1. /\ r.wait = [s.wait EXCEPT ![q] = RemoveFirst(s.wait[q], t)]
      /\ r.prio = s.prio /\ r.rdy = s.rdy /\ Same(s, r)
  BY DEF PendRemove, Kernel, Same
<1>2. s.rdy \in [Prio -> Seq(Task)] /\ s.wait \in [Mutex -> Seq(Task)]
  BY DEF Kernel
<1>3. WaitList(s, X, q) /\ t \in WaitSet(s, X, q)
  BY DEF Tcbs, WaitSet
<1>4. /\ Lists(RemoveFirst(s.wait[q], t), Task, WaitSet(s, X, q) \ {t})
      /\ Sorted(RemoveFirst(s.wait[q], t), s.prio)
  BY <1>3, ListOut DEF WaitList
<1>5. RemoveFirst(s.wait[q], t) \in Seq(Task)
  BY <1>4 DEF Lists
<1>6. r.wait \in [Mutex -> Seq(Task)]
  BY <1>1, <1>2, <1>5
<1>7. r \in Kernel
  BY <1>6 DEF Kernel, PendRemove
<1>8. ASSUME NEW p \in Mutex PROVE WaitList(r, Y, p)
  <2>1. CASE p = q
    <3>1. WaitSet(r, Y, p) = WaitSet(s, X, q) \ {t}
      BY <1>1, <2>1 DEF WaitSet, Same, Waits
    <3>2. r.wait[p] = RemoveFirst(s.wait[q], t)
      BY <1>1, <1>2, <2>1
    <3> QED BY <1>1, <1>4, <3>1, <3>2 DEF WaitList
  <2>2. CASE p # q
    <3>1. WaitSet(r, Y, p) = WaitSet(s, X, p)
      BY <1>1, <2>2 DEF WaitSet, Same, Waits
    <3>2. r.wait[p] = s.wait[p]
      BY <1>1, <1>2, <2>2
    <3>3. WaitList(s, X, p)
      BY DEF Tcbs
    <3> QED BY <1>1, <3>1, <3>2, <3>3 DEF WaitList
  <2> QED BY <2>1, <2>2
<1>9. ASSUME NEW p \in Prio PROVE RdyList(r, Y, p)
  <2>1. RdySet(r, Y, p) = RdySet(s, X, p)
    BY <1>1 DEF RdySet, Same, Waits
  <2>2. RdyList(s, X, p)
    BY DEF Tcbs
  <2> QED BY <1>1, <2>1, <2>2 DEF RdyList
<1> QED BY <1>1, <1>7, <1>8, <1>9 DEF Tcbs

(* RdyTail and RdyHead. *)
RdyPlaced(s, t, r) == r \in {RdyTail(s, t), RdyHead(s, t)}

LEMMA RdyInIs ==
  ASSUME NEW s \in Kernel, NEW X, NEW t \in Task, t \notin X, Tcbs(s, X \cup {t}),
         s.state[t] = "rdy", s.prio[t] \in Prio, NEW r, RdyPlaced(s, t, r)
  PROVE  /\ r \in Kernel /\ Same(s, r) /\ r.prio = s.prio /\ r.wait = s.wait
         /\ Tcbs(r, X)
<1> DEFINE q == s.prio[t]
           Y == X \cup {t}
           S == RdySet(s, Y, q)
           l == s.rdy[q]
<1>1. PICK n : /\ n \in {Append(l, t), <<t>> \o l}
               /\ r = [s EXCEPT !.rdy[q] = n]
  BY DEF RdyPlaced, RdyTail, RdyHead
<1>2. r.rdy = [s.rdy EXCEPT ![q] = n] /\ r.prio = s.prio /\ r.wait = s.wait /\ Same(s, r)
  BY <1>1 DEF Kernel, Same
<1>3. s.rdy \in [Prio -> Seq(Task)] /\ l \in Seq(Task)
  BY DEF Kernel
<1>4. Lists(l, Task, S) /\ t \notin S
  BY DEF Tcbs, RdySet, RdyList
<1>5. PICK i \in 1 .. Len(l) + 1 : n = InsertAt(l, i, t)
  <2> HIDE DEF l
  <2>1. /\ Append(l, t) = InsertAt(l, Len(l) + 1, t) /\ Len(l) + 1 \in 1 .. Len(l) + 1
        /\ <<t>> \o l = InsertAt(l, 1, t) /\ 1 \in 1 .. Len(l) + 1
    BY <1>3, AtEnds
  <2> QED BY <1>1, <2>1
<1>6. Lists(n, Task, S \cup {t})
  <2> HIDE DEF l, S
  <2> QED BY <1>4, <1>5, ListIn
<1>7. n \in Seq(Task)
  BY <1>6 DEF Lists
<1>8. r.rdy \in [Prio -> Seq(Task)]
  BY <1>2, <1>3, <1>7
<1>9. r \in Kernel
  BY <1>1, <1>8 DEF Kernel
<1>10. ASSUME NEW p \in Prio PROVE RdyList(r, X, p)
  <2>1. CASE p = q
    <3>1. RdySet(r, X, p) = S \cup {t}
      BY <1>2, <2>1 DEF RdySet, Same
    <3>2. r.rdy[p] = n
      BY <1>2, <1>3, <2>1
    <3> QED BY <1>6, <3>1, <3>2 DEF RdyList
  <2>2. CASE p # q
    <3>1. RdySet(r, X, p) = RdySet(s, Y, p)
      BY <1>2, <2>2 DEF RdySet, Same
    <3>2. r.rdy[p] = s.rdy[p]
      BY <1>2, <1>3, <2>2
    <3>3. RdyList(s, Y, p)
      BY DEF Tcbs
    <3> QED BY <3>1, <3>2, <3>3 DEF RdyList
  <2> QED BY <2>1, <2>2
<1>11. ASSUME NEW m \in Mutex PROVE WaitList(r, X, m)
  <2>1. WaitSet(r, X, m) = WaitSet(s, Y, m)
    BY <1>2 DEF WaitSet, Same, Waits
  <2>2. WaitList(s, Y, m)
    BY DEF Tcbs
  <2> QED BY <1>2, <2>1, <2>2 DEF WaitList
<1> QED BY <1>2, <1>9, <1>10, <1>11 DEF Tcbs

LEMMA RdyInsertPlaces ==
  ASSUME NEW s, NEW t PROVE RdyPlaced(s, t, RdyInsert(s, t))
BY DEF RdyPlaced, RdyInsert

LEMMA PendInsertIs ==
  ASSUME NEW s \in Kernel, NEW X, NEW t \in Task, t \notin X, Tcbs(s, X \cup {t}),
         Waits(s, t), NEW m \in Mutex, s.obj[t] = m
  PROVE  /\ PendInsert(s, t, m) \in Kernel /\ Same(s, PendInsert(s, t, m))
         /\ PendInsert(s, t, m).prio = s.prio /\ PendInsert(s, t, m).rdy = s.rdy
         /\ Tcbs(PendInsert(s, t, m), X)
<1> DEFINE r == PendInsert(s, t, m)
           Y == X \cup {t}
           S == WaitSet(s, Y, m)
           l == s.wait[m]
           I == {i \in 1 .. Len(l) : s.prio[t] < s.prio[l[i]]}
           n == IF I = {} THEN Append(l, t) ELSE InsertAt(l, Min(I), t)
<1>1. r = [s EXCEPT !.wait[m] = n]
  <2>1. I \subseteq Nat \ {0}
    OBVIOUS
  <2>2. I # {} => Min(I) # 0
    <3> HIDE DEF I
    <3> QED BY <2>1, MinIs
  <2> QED BY <2>2 DEF PendInsert, SelectInSeq
<1> HIDE DEF n
<1>2. r.wait = [s.wait EXCEPT ![m] = n] /\ r.prio = s.prio /\ r.rdy = s.rdy /\ Same(s, r)
  BY <1>1 DEF Kernel, Same
<1>3. /\ s.rdy \in [Prio -> Seq(Task)] /\ s.wait \in [Mutex -> Seq(Task)] /\ l \in Seq(Task)
      /\ s.prio \in [Task -> Nat] /\ Len(l) \in Nat
  BY MutexAssumption DEF Kernel
<1>4. Lists(l, Task, S) /\ Sorted(l, s.prio) /\ t \notin S
  BY DEF Tcbs, WaitSet, WaitList
<1>5. PICK i \in 1 .. Len(l) + 1 :
        /\ n = InsertAt(l, i, t)
        /\ \A j \in 1 .. Len(l) : j < i => s.prio[l[j]] <= s.prio[t]
        /\ \A j \in 1 .. Len(l) : j >= i => s.prio[t] <= s.prio[l[j]]
  <2>1. \A j \in 1 .. Len(l) : s.prio[l[j]] \in Nat /\ s.prio[t] \in Nat
    BY <1>3
  <2>2. CASE I = {}
    <3>1. \A j \in 1 .. Len(l) : s.prio[l[j]] <= s.prio[t]
      BY <2>1, <2>2
    <3>2. n = InsertAt(l, Len(l) + 1, t) /\ Len(l) + 1 \in 1 .. Len(l) + 1
      <4>1. n = Append(l, t)
        BY <2>2 DEF n
      <4> HIDE DEF l
      <4> QED BY <1>3, <4>1, AtEnds
    <3>3. \A j \in 1 .. Len(l) : ~(j >= Len(l) + 1)
      BY <1>3
    <3> QED BY <3>1, <3>2, <3>3
  <2>3. CASE I # {}
    <3>1. PICK i : i = Min(I) /\ i \in I /\ \A j \in I : i <= j
      <4>1. I \subseteq Nat
        OBVIOUS
      <4> HIDE DEF I
      <4> QED BY <2>3, <4>1, MinIs
    <3>2. n = InsertAt(l, i, t) /\ i \in 1 .. Len(l) /\ i \in 1 .. Len(l) + 1
      <4>1. i \in 1 .. Len(l)
        BY <3>1
      <4>2. n = InsertAt(l, i, t)
        <5> HIDE DEF I
        <5> QED BY <2>3, <3>1 DEF n
      <4> HIDE DEF I, l
      <4> QED BY <1>3, <4>1, <4>2
    <3>3. ASSUME NEW j \in 1 .. Len(l), j < i PROVE s.prio[l[j]] <= s.prio[t]
      <4>1. j \notin I
        <5> HIDE DEF I, l
        <5> QED BY <3>1, <3>2, <3>3
      <4> QED BY <2>1, <4>1
    <3>4. ASSUME NEW j \in 1 .. Len(l), j >= i PROVE s.prio[t] <= s.prio[l[j]]
      <4>1. i = j \/ i < j
        <5> HIDE DEF I, l
        <5> QED BY <3>2, <3>4
      <4>2. s.prio[t] < s.prio[l[i]] /\ (i < j => s.prio[l[i]] <= s.prio[l[j]])
        BY <1>4, <3>1 DEF Sorted
      <4>3. PICK a, b, c \in Nat : a = s.prio[t] /\ b = s.prio[l[i]] /\ c = s.prio[l[j]]
        BY <2>1, <3>1
      <4> QED BY <4>1, <4>2, <4>3
    <3> QED BY <3>2, <3>3, <3>4
  <2> QED BY <2>2, <2>3
<1>6. Lists(n, Task, S \cup {t}) /\ Sorted(n, s.prio)
  <2> HIDE DEF l, S
  <2>1. Lists(InsertAt(l, i, t), Task, S \cup {t})
    BY <1>4, ListIn
  <2>2. Between(l, i, t, s.prio)
    BY <1>5 DEF Between
  <2>3. Sorted(InsertAt(l, i, t), s.prio)
    BY <1>4, <2>2, ListIn
  <2> QED BY <1>5, <2>1, <2>3
<1>7. n \in Seq(Task)
  BY <1>6 DEF Lists
<1>8. r.wait \in [Mutex -> Seq(Task)]
  BY <1>2, <1>3, <1>7
<1>9. r \in Kernel
  BY <1>1, <1>8 DEF Kernel
<1>10. ASSUME NEW p \in Mutex PROVE WaitList(r, X, p)
  <2>1. CASE p = m
    <3>1. WaitSet(r, X, p) = S \cup {t}
      BY <1>2, <2>1 DEF WaitSet, Same, Waits
    <3>2. r.wait[p] = n
      BY <1>2, <1>3, <2>1
    <3> QED BY <1>2, <1>6, <3>1, <3>2 DEF WaitList
  <2>2. CASE p # m
    <3>1. WaitSet(r, X, p) = WaitSet(s, Y, p)
      BY <1>2, <2>2 DEF WaitSet, Same, Waits
    <3>2. r.wait[p] = s.wait[p]
      BY <1>2, <1>3, <2>2
    <3>3. WaitList(s, Y, p)
      BY DEF Tcbs
    <3> QED BY <1>2, <3>1, <3>2, <3>3 DEF WaitList
  <2> QED BY <2>1, <2>2
<1>11. ASSUME NEW p \in Prio PROVE RdyList(r, X, p)
  <2>1. RdySet(r, X, p) = RdySet(s, Y, p)
    BY <1>2 DEF RdySet, Same, Waits
  <2>2. RdyList(s, Y, p)
    BY DEF Tcbs
  <2> QED BY <1>2, <2>1, <2>2 DEF RdyList
<1> QED BY <1>2, <1>9, <1>10, <1>11 DEF Tcbs

-----------------------------------------------------------------------------
(* One round of a change of priority. *)

Prios(s) ==
  \A x \in Task : s.state[x] # "del" => s.prio[x] \in Prio /\ s.base[x] \in Prio

LEMMA FindHighestIs ==
  ASSUME NEW s \in Kernel, NEW t \in Task
  PROVE  /\ FindHighest(s, t) \in Prio
         /\ \A m \in ToSet(s.grp[t]) : s.wait[m] # <<>> =>
              s.prio[Head(s.wait[m])] \in Nat /\ FindHighest(s, t) <= s.prio[Head(s.wait[m])]
         /\ \/ FindHighest(s, t) = IdlePrio
            \/ \E m \in ToSet(s.grp[t]) :
                 s.wait[m] # <<>> /\ FindHighest(s, t) = s.prio[Head(s.wait[m])]
<1> DEFINE H == {s.prio[Head(s.wait[m])] : m \in {n \in ToSet(s.grp[t]) : s.wait[n] # <<>>}}
           S == {IdlePrio} \cup H
<1>1. ASSUME NEW m \in ToSet(s.grp[t]), s.wait[m] # <<>>
      PROVE  s.prio[Head(s.wait[m])] \in Nat
  <2>1. s.grp[t] \in Seq(Mutex) /\ s.prio \in [Task -> 0 .. IdlePrio + 1]
    BY DEF Kernel
  <2>2. m \in Mutex
    BY <1>1, <2>1 DEF ToSet
  <2>3. s.wait[m] \in Seq(Task)
    BY <2>2 DEF Kernel
  <2>4. Head(s.wait[m]) \in Task
    BY <1>1, <2>3
  <2> QED BY <2>1, <2>4, MutexAssumption
<1>2. S \subseteq Nat /\ S # {} /\ IdlePrio \in S /\ IdlePrio \in Nat
  BY <1>1, MutexAssumption
<1>3. PICK f : f = FindHighest(s, t) /\ f = Min(S)
  BY DEF FindHighest
<1>4. f \in S /\ \A n \in S : f <= n
  <2> HIDE DEF S
  <2> QED BY <1>2, <1>3, MinIs
<1>5. f \in Prio
  <2>1. f \in Nat /\ f <= IdlePrio
    BY <1>2, <1>4
  <2> QED BY <1>2, <2>1 DEF Prio
<1>6. \A m \in ToSet(s.grp[t]) : s.wait[m] # <<>> =>
        s.prio[Head(s.wait[m])] \in Nat /\ f <= s.prio[Head(s.wait[m])]
  BY <1>1, <1>4
<1>7. f = IdlePrio \/ \E m \in ToSet(s.grp[t]) : s.wait[m] # <<>> /\ f = s.prio[Head(s.wait[m])]
  BY <1>4
<1> HIDE DEF S
<1> QED BY <1>3, <1>5, <1>6, <1>7

LEMMA LowerOf ==
  ASSUME NEW a \in Nat, NEW b \in Nat
  PROVE  Min({a, b}) \in {a, b} /\ Min({a, b}) <= a /\ Min({a, b}) <= b
<1>1. {a, b} \subseteq Nat /\ {a, b} # {}
  OBVIOUS
<1>2. PICK S : S = {a, b}
  OBVIOUS
<1>3. Min(S) \in S /\ \A n \in S : Min(S) <= n
  BY <1>1, <1>2, MinIs
<1> QED BY <1>2, <1>3

LEMMA RestoredIn ==
  ASSUME NEW s \in Kernel, NEW t \in Task PROVE Restored(s, t) \in Prio
<1>1. PICK f \in Nat : f = FindHighest(s, t) /\ f \in Prio
  BY FindHighestIs, PrioIs
<1>2. s.base[t] \in 0 .. IdlePrio + 1 /\ IdlePrio \in Nat
  BY MutexAssumption DEF Kernel
<1>3. PICK b \in Nat : b = s.base[t]
  BY <1>2
<1>4. PICK r : r = Min({f, b}) /\ r \in {f, b} /\ r <= f
  BY LowerOf
<1>5. r \in Prio
  BY <1>1, <1>2, <1>4 DEF Prio
<1> QED BY <1>1, <1>3, <1>4, <1>5 DEF Restored

(* t has got the priority p, whatever list it is in. *)
Placed(s, X, t, p, r) ==
  r \in Kernel /\ Same(s, r) /\ Tcbs(r, X) /\ r.prio = [s.prio EXCEPT ![t] = p]

LEMMA SetPrio ==
  ASSUME NEW s \in Kernel, NEW t \in Task, NEW p \in Prio
  PROVE  LET r == [s EXCEPT !.prio[t] = p]
         IN  /\ r \in Kernel /\ Same(s, r) /\ r.prio = [s.prio EXCEPT ![t] = p]
             /\ r.rdy = s.rdy /\ r.wait = s.wait /\ r.prio[t] = p
             /\ \A x \in Task : x # t => r.prio[x] = s.prio[x]
<1> DEFINE r == [s EXCEPT !.prio[t] = p]
<1>1. /\ Same(s, r) /\ r.rdy = s.rdy /\ r.wait = s.wait
      /\ r.prio = [s.prio EXCEPT ![t] = p]
  BY DEF Kernel, Same
<1>2. s.prio \in [Task -> 0 .. IdlePrio + 1]
  BY DEF Kernel
<1>3. r.prio \in [Task -> 0 .. IdlePrio + 1]
  BY <1>1, <1>2, PrioIs
<1>4. r \in Kernel
  BY <1>3 DEF Kernel
<1> QED BY <1>1, <1>2, <1>4

LEMMA ChangeRdy ==
  ASSUME NEW s \in Kernel, NEW X, Tcbs(s, X), NEW t \in Task, t \notin X,
         s.state[t] = "rdy", s.prio[t] \in Prio, NEW p \in Prio,
         NEW r, RdyPlaced([RdyRemove(s, t) EXCEPT !.prio[t] = p], t, r)
  PROVE  Placed(s, X, t, p, r)
<1>1. PICK a : a = RdyRemove(s, t)
  OBVIOUS
<1>2. a \in Kernel /\ Same(s, a) /\ a.prio = s.prio /\ a.wait = s.wait /\ Tcbs(a, X \cup {t})
  BY <1>1, RdyRemoveIs
<1>3. PICK b : b = [a EXCEPT !.prio[t] = p]
  OBVIOUS
<1>4. /\ b \in Kernel /\ Same(a, b) /\ b.prio = [a.prio EXCEPT ![t] = p]
      /\ b.rdy = a.rdy /\ b.wait = a.wait /\ b.prio[t] = p
      /\ \A x \in Task : x # t => b.prio[x] = a.prio[x]
  BY <1>2, <1>3, SetPrio
<1>5. a.wait \in [Mutex -> Seq(Task)]
  BY <1>2 DEF Kernel
<1>6. Tcbs(b, X \cup {t})
  <2>1. Unchanged(a, X \cup {t}, b)
    BY <1>4 DEF Same, Unchanged
  <2> QED BY <1>2, <1>4, <1>5, <2>1, OutChange
<1>7. b \in Kernel /\ b.state[t] = "rdy" /\ RdyPlaced(b, t, r) /\ b.prio[t] \in Prio
  BY <1>1, <1>2, <1>3, <1>4 DEF Same
<1>8. r \in Kernel /\ Same(b, r) /\ r.prio = b.prio /\ Tcbs(r, X)
  BY <1>6, <1>7, RdyInIs
<1>9. Same(s, r)
  BY <1>2, <1>4, <1>8 DEF Same
<1> QED BY <1>2, <1>4, <1>8, <1>9 DEF Placed

LEMMA ChangeDly ==
  ASSUME NEW s \in Kernel, NEW X, Tcbs(s, X), NEW t \in Task, t \notin X,
         s.state[t] = "dly", NEW p \in Prio
  PROVE  Placed(s, X, t, p, [s EXCEPT !.prio[t] = p])
<1>1. PICK b : b = [s EXCEPT !.prio[t] = p]
  OBVIOUS
<1>2. /\ b \in Kernel /\ Same(s, b) /\ b.prio = [s.prio EXCEPT ![t] = p]
      /\ b.rdy = s.rdy /\ b.wait = s.wait /\ b.prio[t] = p
      /\ \A x \in Task : x # t => b.prio[x] = s.prio[x]
  BY <1>1, SetPrio
<1>3. s.wait \in [Mutex -> Seq(Task)]
  BY DEF Kernel
<1>4. Tcbs(s, X \cup {t})
  BY OutLeave
<1>5. Tcbs(b, X \cup {t})
  <2>1. Unchanged(s, X \cup {t}, b)
    BY <1>2 DEF Same, Unchanged
  <2> QED BY <1>2, <1>3, <1>4, <2>1, OutChange
<1>6. b.state[t] = "dly"
  BY <1>2 DEF Same
<1>7. Tcbs(b, X)
  BY <1>5, <1>6, OutLeave
<1> QED BY <1>1, <1>2, <1>7 DEF Placed

Moved(s, t, p) == PendInsert(PendRemove([s EXCEPT !.prio[t] = p], t), t, s.obj[t])

LEMMA ChangePend ==
  ASSUME NEW s \in Kernel, NEW X, Tcbs(s, X), NEW t \in Task, t \notin X,
         Waits(s, t), s.obj[t] \in Mutex, NEW p \in Prio
  PROVE  Placed(s, X, t, p, Moved(s, t, p))
<1>1. PICK a : a = PendRemove(s, t)
  OBVIOUS
<1>2. a \in Kernel /\ Same(s, a) /\ a.prio = s.prio /\ a.rdy = s.rdy /\ Tcbs(a, X \cup {t})
  BY <1>1, PendRemoveIs
<1>3. PICK b : b = [a EXCEPT !.prio[t] = p]
  OBVIOUS
<1>4. /\ b \in Kernel /\ Same(a, b) /\ b.prio = [a.prio EXCEPT ![t] = p]
      /\ b.rdy = a.rdy /\ b.wait = a.wait /\ b.prio[t] = p
      /\ \A x \in Task : x # t => b.prio[x] = a.prio[x]
  BY <1>2, <1>3, SetPrio
<1>5. a.wait \in [Mutex -> Seq(Task)]
  BY <1>2 DEF Kernel
<1>6. Tcbs(b, X \cup {t})
  <2>1. Unchanged(a, X \cup {t}, b)
    BY <1>4 DEF Same, Unchanged
  <2> QED BY <1>2, <1>4, <1>5, <2>1, OutChange
<1>7. b = PendRemove([s EXCEPT !.prio[t] = p], t)
  BY <1>1, <1>3 DEF PendRemove, Kernel
<1>8. Waits(b, t) /\ b.obj[t] = s.obj[t]
  BY <1>2, <1>4 DEF Same, Waits
<1>9. PICK r : r = PendInsert(b, t, s.obj[t])
  OBVIOUS
<1>10. r \in Kernel /\ Same(b, r) /\ r.prio = b.prio /\ Tcbs(r, X)
  BY <1>4, <1>6, <1>8, <1>9, PendInsertIs
<1>11. Same(s, r)
  BY <1>2, <1>4, <1>10 DEF Same
<1> QED BY <1>2, <1>4, <1>7, <1>9, <1>10, <1>11 DEF Placed, Moved

(* Where a change of priority leads: who waits does so for a mutex of a task  *)
(* that is in its list.                                                       *)
Chain(s, X) ==
  \A x \in Task \ X : Waits(s, x) => s.obj[x] \in Mutex /\ s.owner[s.obj[x]] \in Task \ X

LEMMA ChangeOneDef ==
  ASSUME NEW c
  PROVE  LET s == c.s  t == c.t  p == c.p
             End(v) == [s |-> v, t |-> NoTask, p |-> p]
             r == [RdyRemove(s, t) EXCEPT !.prio[t] = p]
             o == s.owner[s.obj[t]]
             v == Moved(s, t, p)
             low == Restored(v, o)
         IN  /\ s.state[t] = "rdy" =>
                  ChangeOne(c) = End(IF t = s.cur THEN RdyHead(r, t) ELSE RdyTail(r, t))
             /\ s.state[t] = "dly" => ChangeOne(c) = End([s EXCEPT !.prio[t] = p])
             /\ s.state[t] = "del" => ChangeOne(c) = End(s)
             /\ Waits(s, t) /\ p < s.prio[t] /\ ~(p >= s.prio[t]) =>
                  ChangeOne(c) = IF s.prio[o] <= p THEN End(v) ELSE [s |-> v, t |-> o, p |-> p]
             /\ Waits(s, t) /\ p >= s.prio[t] /\ ~(p < s.prio[t]) =>
                  ChangeOne(c) = IF v.prio[o] # s.prio[t] THEN [s |-> v, t |-> o, p |-> p]
                                 ELSE IF low = v.prio[o] THEN End(v)
                                 ELSE [s |-> v, t |-> o, p |-> low]
<1>1. Waits(c.s, c.t) => c.s.state[c.t] \notin {"rdy", "dly", "del"}
  BY DEF Waits
<1>2. c.s.state[c.t] \in {"rdy", "dly", "del"} => ~Waits(c.s, c.t)
  BY <1>1
<1>3. CASE c.s.state[c.t] = "rdy"
  BY <1>2, <1>3 DEF ChangeOne
<1>4. CASE c.s.state[c.t] = "dly"
  BY <1>2, <1>4 DEF ChangeOne
<1>5. CASE c.s.state[c.t] = "del"
  BY <1>2, <1>5 DEF ChangeOne
<1>6. CASE Waits(c.s, c.t) /\ c.p < c.s.prio[c.t] /\ ~(c.p >= c.s.prio[c.t])
  BY <1>1, <1>6 DEF ChangeOne, Moved
<1>7. CASE Waits(c.s, c.t) /\ c.p >= c.s.prio[c.t] /\ ~(c.p < c.s.prio[c.t])
  BY <1>1, <1>7 DEF ChangeOne, Moved
<1> QED BY <1>1, <1>3, <1>4, <1>5, <1>6, <1>7

LEMMA ChangeOneIs ==
  ASSUME NEW s \in Kernel, NEW X, Tcbs(s, X), Chain(s, X), Prios(s),
         NEW t \in Task, t \notin X, NEW p \in Prio, NEW c, c.s = s, c.t = t, c.p = p
  PROVE  /\ s.state[t] # "del" => Placed(s, X, t, p, ChangeOne(c).s)
         /\ s.state[t] = "del" => ChangeOne(c).s = s
         /\ ChangeOne(c).p \in Prio
         /\ ~Waits(s, t) => ChangeOne(c).t = NoTask
         /\ Waits(s, t) =>
              /\ ChangeOne(c).t \in {NoTask, s.owner[s.obj[t]]}
              /\ p < s.prio[t] =>
                   /\ ChangeOne(c).p = p
                   /\ ChangeOne(c).t = NoTask <=> s.prio[s.owner[s.obj[t]]] <= p
         /\ ChangeOne(c) = [s |-> ChangeOne(c).s, t |-> ChangeOne(c).t, p |-> ChangeOne(c).p]
<1> DEFINE d == ChangeOne(c)
           o == s.owner[s.obj[t]]
           r == [RdyRemove(s, t) EXCEPT !.prio[t] = p]
           End(v) == [s |-> v, t |-> NoTask, p |-> p]
           low == Restored(Moved(s, t, p), o)
<1>1. s.state[t] \in {"rdy", "dly", "pend", "pendTimeout", "del"}
  BY DEF Kernel
<1>2. CASE s.state[t] = "rdy"
  <2>1. s.prio[t] \in Prio
    BY <1>2 DEF Prios
  <2>2. d = End(IF t = s.cur THEN RdyHead(r, t) ELSE RdyTail(r, t))
    BY <1>2, ChangeOneDef
  <2>3. RdyPlaced(r, t, d.s) /\ d.t = NoTask /\ d.p = p /\ d = End(d.s)
    <3> HIDE DEF r
    <3> QED BY <2>2 DEF RdyPlaced
  <2>4. Placed(s, X, t, p, d.s)
    BY <1>2, <2>1, <2>3, ChangeRdy
  <2>5. ~Waits(s, t)
    BY <1>2 DEF Waits
  <2> QED BY <1>2, <2>3, <2>4, <2>5
<1>3. CASE s.state[t] = "dly"
  <2>1. d = End([s EXCEPT !.prio[t] = p])
    BY <1>3, ChangeOneDef
  <2>2. Placed(s, X, t, p, d.s)
    BY <1>3, <2>1, ChangeDly
  <2>3. ~Waits(s, t)
    BY <1>3 DEF Waits
  <2> QED BY <1>3, <2>1, <2>2, <2>3
<1>4. CASE s.state[t] = "del"
  <2>1. d = End(s)
    BY <1>4, ChangeOneDef
  <2>2. ~Waits(s, t)
    BY <1>4 DEF Waits
  <2> QED BY <1>4, <2>1, <2>2
<1>5. CASE Waits(s, t)
  <2>1. PICK v : v = Moved(s, t, p)
    OBVIOUS
  <2>2. s.state[t] \notin {"rdy", "dly", "del"}
    BY <1>5 DEF Waits
  <2>3. s.obj[t] \in Mutex /\ o \in Task
    BY <1>5 DEF Chain
  <2>4. Placed(s, X, t, p, v)
    BY <1>5, <2>1, <2>3, ChangePend
  <2>5. s.prio[t] \in Nat
    BY <2>2, PrioIs DEF Prios
  <2>6. PICK l : l = Restored(v, o) /\ l \in Prio
    BY <2>3, <2>4, RestoredIn DEF Placed
  <2>7. CASE p < s.prio[t]
    <3>1. d = IF s.prio[o] <= p THEN End(v) ELSE [s |-> v, t |-> o, p |-> p]
      <4>1. ~(p >= s.prio[t])
        BY <2>5, <2>7, PrioIs
      <4> QED BY <1>5, <2>1, <2>7, <4>1, ChangeOneDef
    <3>2. NoTask # o
      BY <2>3, MutexAssumption
    <3> HIDE DEF d, o
    <3>3. d.s = v /\ d.p = p /\ d.t \in {NoTask, o} /\ (d.t = NoTask <=> s.prio[o] <= p)
      BY <3>1, <3>2
    <3>4. d = [s |-> d.s, t |-> d.t, p |-> d.p]
      BY <3>1
    <3> QED BY <1>5, <2>2, <2>4, <2>7, <3>3, <3>4 DEF d, o
  <2>8. CASE ~(p < s.prio[t])
    <3>1. p >= s.prio[t]
      BY <2>5, <2>8, PrioIs
    <3>2. d = IF v.prio[o] # s.prio[t] THEN [s |-> v, t |-> o, p |-> p]
              ELSE IF l = v.prio[o] THEN End(v) ELSE [s |-> v, t |-> o, p |-> l]
      BY <1>5, <2>1, <2>6, <2>8, <3>1, ChangeOneDef
    <3> HIDE DEF d, o
    <3>3. d.s = v /\ d.p \in Prio /\ d.t \in {NoTask, o}
      BY <2>6, <3>2
    <3>4. d = [s |-> d.s, t |-> d.t, p |-> d.p]
      BY <3>2
    <3> QED BY <1>5, <2>2, <2>4, <2>8, <3>3, <3>4 DEF d, o
  <2> QED BY <2>7, <2>8
<1> QED BY <1>1, <1>2, <1>3, <1>4, <1>5 DEF Waits

-----------------------------------------------------------------------------
(* The folds of the model, over a list from its first element on. *)

Combine(op, a, r, x) ==
  CASE op = "change" -> IF r.t = NoTask THEN r ELSE ChangeOne(r)
    [] op = "abort" -> AbortOne(r, x)
    [] op = "del" -> DelOne(r, x)
    [] op = "post" -> PostOne(r, x, a)

IsFold(g, op, a, b, s, n) ==
  g = [t \in SUBSET (1 .. n) |->
         IF t = {} THEN b ELSE LET x == Max(t) IN Combine(op, a, g[t \ {x}], s[x])]

LEMMA FoldExists ==
  ASSUME NEW op, NEW a, NEW b, NEW s, NEW n \in Nat PROVE \E g : IsFold(g, op, a, b, s, n)
<1> DEFINE B == {m \in Nat : ~\E g : IsFold(g, op, a, b, s, m)}
<1>1. ASSUME B # {} PROVE FALSE
  <2>1. PICK m \in B : \A h \in B : m <= h
    <3>1. B \subseteq Nat
      OBVIOUS
    <3> HIDE DEF B
    <3> QED BY <1>1, <3>1, NatMin
  <2>2. CASE m = 0
    <3> DEFINE g == [t \in {{}} |-> b]
    <3>1. SUBSET (1 .. 0) = {{}}
      OBVIOUS
    <3>2. IsFold(g, op, a, b, s, 0)
      BY <3>1 DEF IsFold
    <3> QED BY <2>1, <2>2, <3>2
  <2>3. CASE m # 0
    <3>1. PICK h \in Nat : m = h + 1
      <4>1. m \in Nat
        OBVIOUS
      <4>2. m - 1 \in Nat /\ m = (m - 1) + 1
        BY <2>3, <4>1
      <4> QED BY <4>2
    <3>2. PICK f : IsFold(f, op, a, b, s, h)
      BY <2>1, <3>1
    <3> DEFINE g == [t \in SUBSET (1 .. m) |->
                 IF t = {} THEN b ELSE Combine(op, a, f[t \ {Max(t)}], s[Max(t)])]
    <3>3. ASSUME NEW t \in SUBSET (1 .. h) PROVE t \in SUBSET (1 .. m) /\ g[t] = f[t]
      <4>1. t \in SUBSET (1 .. m)
        BY <3>1
      <4> QED BY <3>2, <4>1 DEF IsFold
    <3>4. ASSUME NEW t \in SUBSET (1 .. m), t # {} PROVE t \ {Max(t)} \in SUBSET (1 .. h)
      <4>1. PICK x : x = Max(t) /\ x \in t /\ \A i \in t : i <= x
        BY <3>1, <3>4, LastOne
      <4>2. ASSUME NEW i \in t, i # x PROVE i \in 1 .. h
        <5>1. i \in 1 .. h + 1 /\ x \in 1 .. h + 1 /\ i <= x
          BY <3>1, <4>1
        <5> QED BY <4>2, <5>1
      <4> QED BY <4>1, <4>2
    <3>5. g = [t \in SUBSET (1 .. m) |->
                 IF t = {} THEN b ELSE Combine(op, a, g[t \ {Max(t)}], s[Max(t)])]
      <4>1. ASSUME NEW t \in SUBSET (1 .. m), t # {} PROVE f[t \ {Max(t)}] = g[t \ {Max(t)}]
        BY <3>3, <3>4, <4>1
      <4> HIDE DEF B
      <4> QED BY <4>1
    <3>6. IsFold(g, op, a, b, s, m)
      <4> HIDE DEF g
      <4> QED BY <3>5 DEF IsFold
    <3> QED BY <2>1, <3>6
  <2> QED BY <2>2, <2>3
<1> QED BY <1>1

(* The results of a fold, one after the other. *)
IsRun(g, op, a, b, s, n) ==
  g[0] = b /\ \A i \in 1 .. n : g[i] = Combine(op, a, g[i - 1], s[i])

LEMMA RunOf ==
  ASSUME NEW op, NEW a, NEW b, NEW s, NEW n \in Nat, NEW f, IsFold(f, op, a, b, s, n)
  PROVE  \E g : IsRun(g, op, a, b, s, n) /\ g[n] = f[1 .. n]
<1> DEFINE g == [i \in 0 .. n |-> f[1 .. i]]
<1>1. f = [t \in SUBSET (1 .. n) |->
             IF t = {} THEN b ELSE LET x == Max(t) IN Combine(op, a, f[t \ {x}], s[x])]
  BY DEF IsFold
<1>2. g[0] = b
  <2>1. 1 .. 0 = {} /\ 1 .. 0 \in SUBSET (1 .. n) /\ 0 \in 0 .. n
    OBVIOUS
  <2> QED BY <1>1, <2>1
<1>3. ASSUME NEW i \in 1 .. n PROVE g[i] = Combine(op, a, g[i - 1], s[i])
  <2>1. /\ 1 .. i \in SUBSET (1 .. n) /\ 1 .. i # {} /\ i - 1 \in 0 .. n /\ i \in 0 .. n
        /\ (1 .. i) \ {i} = 1 .. (i - 1)
    <3>1. \A j \in 1 .. i : j \in 1 .. n
      OBVIOUS
    <3>2. i \in 1 .. i /\ i - 1 \in 0 .. n /\ i \in 0 .. n
      OBVIOUS
    <3>3. \A j \in (1 .. i) \ {i} : j \in 1 .. (i - 1)
      OBVIOUS
    <3>4. \A j \in 1 .. (i - 1) : j \in (1 .. i) \ {i}
      OBVIOUS
    <3> QED BY <3>1, <3>2, <3>3, <3>4
  <2>2. Max(1 .. i) = i
    BY Largest
  <2>3. f[1 .. i] = Combine(op, a, f[(1 .. i) \ {i}], s[i])
    BY <1>1, <2>1, <2>2
  <2> QED BY <2>1, <2>3
<1>4. g[n] = f[1 .. n]
  <2>1. n \in 0 .. n
    OBVIOUS
  <2> QED BY <2>1
<1> HIDE DEF g
<1> QED BY <1>2, <1>3, <1>4 DEF IsRun

(* An invariant of a fold: G[i] is where the results of i steps are. *)
LEMMA RunIn ==
  ASSUME NEW op, NEW a, NEW b, NEW s, NEW n \in Nat, NEW g, IsRun(g, op, a, b, s, n),
         NEW G, b \in G[0],
         \A i \in 1 .. n : \A r \in G[i - 1] : Combine(op, a, r, s[i]) \in G[i]
  PROVE  g[n] \in G[n]
<1> DEFINE B == {i \in 0 .. n : g[i] \notin G[i]}
<1>1. ASSUME B # {} PROVE FALSE
  <2>1. PICK m \in B : \A i \in B : m <= i
    <3>1. B \subseteq Nat
      OBVIOUS
    <3> HIDE DEF B
    <3> QED BY <1>1, <3>1, NatMin
  <2>2. m # 0
    BY <2>1 DEF IsRun
  <2>3. m \in 1 .. n /\ m - 1 \in 0 .. n /\ ~(m <= m - 1)
    BY <2>1, <2>2
  <2>4. g[m - 1] \in G[m - 1]
    BY <2>1, <2>3
  <2>5. g[m] = Combine(op, a, g[m - 1], s[m])
    BY <2>3 DEF IsRun
  <2> QED BY <2>1, <2>3, <2>4, <2>5
<1>2. n \in 0 .. n
  OBVIOUS
<1> QED BY <1>1, <1>2

LEMMA FoldIn ==
  ASSUME NEW op, NEW a, NEW b, NEW s, NEW n \in Nat, NEW f, IsFold(f, op, a, b, s, n),
         NEW G, b \in G[0],
         \A i \in 1 .. n : \A r \in G[i - 1] : Combine(op, a, r, s[i]) \in G[i]
  PROVE  f[1 .. n] \in G[n]
<1>1. PICK g : IsRun(g, op, a, b, s, n) /\ g[n] = f[1 .. n]
  BY RunOf
<1> QED BY <1>1, RunIn

Start(s, t, p) == [s |-> s, t |-> t, p |-> p]
Steps(n) == [i \in 1 .. n |-> i]

LEMMA ChangeFold ==
  ASSUME NEW s, NEW t, NEW p, NEW n \in Nat, n = Cardinality(Task)
  PROVE  \E f : /\ IsFold(f, "change", 0, Start(s, t, p), Steps(n), n)
               /\ ChangePrio(s, t, p) = f[1 .. n].s
<1> DEFINE b == [s |-> s, t |-> t, p |-> p]
           l == [i \in 1 .. n |-> i]
           F == FoldLeft(LAMBDA c, i : IF c.t = NoTask THEN c ELSE ChangeOne(c), b, l)
<1>1. PICK e : IsFold(e, "change", 0, b, l, n)
  BY FoldExists
<1>2. e = [u \in SUBSET (1 .. n) |->
             IF u = {} THEN b
             ELSE LET x == Max(u)
                  IN  IF e[u \ {x}].t = NoTask THEN e[u \ {x}] ELSE ChangeOne(e[u \ {x}])]
  BY <1>1 DEF IsFold, Combine
<1>3. DOMAIN l = 1 .. n
  OBVIOUS
<1> HIDE DEF l, b
<1>4. PICK f : /\ f = [u \in SUBSET (1 .. n) |->
                    IF u = {} THEN b
                    ELSE LET x == Max(u)
                         IN  IF f[u \ {x}].t = NoTask THEN f[u \ {x}] ELSE ChangeOne(f[u \ {x}])]
               /\ F = f[1 .. n]
  BY <1>2, <1>3 DEF FoldLeft, MapThenFoldSet
<1>5. IsFold(f, "change", 0, b, l, n)
  BY <1>4 DEF IsFold, Combine
<1>6. ChangePrio(s, t, p) = F.s
  BY DEF ChangePrio, b, l
<1> QED BY <1>4, <1>5, <1>6 DEF b, l, Start, Steps

Times(m, n) == [i \in 1 .. n |-> m]

LEMMA AbortFold ==
  ASSUME NEW s, NEW m, NEW n \in Nat
  PROVE  \E f : /\ IsFold(f, "abort", 0, s, Times(m, n), n)
               /\ FoldLeft(AbortOne, s, Times(m, n)) = f[1 .. n]
<1> DEFINE l == Times(m, n)
           F == FoldLeft(AbortOne, s, l)
<1>1. PICK e : IsFold(e, "abort", 0, s, l, n)
  BY FoldExists
<1>2. e = [h \in SUBSET (1 .. n) |->
             IF h = {} THEN s ELSE LET x == Max(h) IN AbortOne(e[h \ {x}], l[x])]
  BY <1>1 DEF IsFold, Combine
<1>3. DOMAIN l = 1 .. n
  BY DEF Times
<1> HIDE DEF l
<1>4. PICK f : /\ f = [h \in SUBSET (1 .. n) |->
                    IF h = {} THEN s ELSE LET x == Max(h) IN AbortOne(f[h \ {x}], l[x])]
               /\ F = f[1 .. n]
  BY <1>2, <1>3 DEF FoldLeft, MapThenFoldSet
<1>5. IsFold(f, "abort", 0, s, l, n)
  BY <1>4 DEF IsFold, Combine
<1>6. FoldLeft(AbortOne, s, Times(m, n)) = F
  BY DEF l
<1> QED BY <1>4, <1>5, <1>6 DEF l

LEMMA DelFold ==
  ASSUME NEW s, NEW q, NEW n \in Nat, DOMAIN q = 1 .. n
  PROVE  \E f : /\ IsFold(f, "del", 0, s, q, n)
               /\ FoldLeft(DelOne, s, q) = f[1 .. n]
<1> DEFINE l == q
           F == FoldLeft(DelOne, s, l)
<1>1. PICK e : IsFold(e, "del", 0, s, l, n)
  BY FoldExists
<1>2. e = [h \in SUBSET (1 .. n) |->
             IF h = {} THEN s ELSE LET x == Max(h) IN DelOne(e[h \ {x}], l[x])]
  BY <1>1 DEF IsFold, Combine
<1>3. DOMAIN l = 1 .. n
  OBVIOUS
<1> HIDE DEF l
<1>4. PICK f : /\ f = [h \in SUBSET (1 .. n) |->
                    IF h = {} THEN s ELSE LET x == Max(h) IN DelOne(f[h \ {x}], l[x])]
               /\ F = f[1 .. n]
  BY <1>2, <1>3 DEF FoldLeft, MapThenFoldSet
<1>5. IsFold(f, "del", 0, s, l, n)
  BY <1>4 DEF IsFold, Combine
<1>6. FoldLeft(DelOne, s, q) = F
  BY DEF l
<1> QED BY <1>4, <1>5, <1>6 DEF l

LEMMA PostFold ==
  ASSUME NEW s, NEW u, NEW n \in Nat, DOMAIN s.grp[u] = 1 .. n
  PROVE  \E f : /\ IsFold(f, "post", u, s, s.grp[u], n)
               /\ GrpPostAll(s, u) = f[1 .. n]
<1> DEFINE l == s.grp[u]
           F == FoldLeft(LAMBDA r, m : PostOne(r, m, u), s, l)
<1>1. PICK e : IsFold(e, "post", u, s, l, n)
  BY FoldExists
<1>2. e = [h \in SUBSET (1 .. n) |->
             IF h = {} THEN s ELSE LET x == Max(h) IN PostOne(e[h \ {x}], l[x], u)]
  BY <1>1 DEF IsFold, Combine
<1>3. DOMAIN l = 1 .. n
  OBVIOUS
<1> HIDE DEF l
<1>4. PICK f : /\ f = [h \in SUBSET (1 .. n) |->
                    IF h = {} THEN s ELSE LET x == Max(h) IN PostOne(f[h \ {x}], l[x], u)]
               /\ F = f[1 .. n]
  BY <1>2, <1>3 DEF FoldLeft, MapThenFoldSet
<1>5. IsFold(f, "post", u, s, l, n)
  BY <1>4 DEF IsFold, Combine
<1>6. GrpPostAll(s, u) = F
  BY DEF l, GrpPostAll
<1> QED BY <1>4, <1>5, <1>6 DEF l

-----------------------------------------------------------------------------
(* A change of priority as a whole: it moves tasks to other places of the     *)
(* lists, and changes nothing but their priorities.                           *)

Rounds(s, X) ==
  {c \in [s : Kernel, t : Task \cup {NoTask}, p : Prio] :
     /\ Same(s, c.s) /\ Tcbs(c.s, X) /\ Prios(c.s) /\ c.t \notin X
     /\ \A x \in Task : x \in X => c.s.prio[x] = s.prio[x]}

LEMMA SameChain ==
  ASSUME NEW s, NEW r, NEW X, Same(s, r), Chain(s, X) PROVE Chain(r, X)
BY DEF Same, Chain, Waits

LEMMA RoundKeeps ==
  ASSUME NEW s, NEW X, NoTask \notin X, Chain(s, X), NEW c \in Rounds(s, X), c.t # NoTask
  PROVE  ChangeOne(c) \in Rounds(s, X)
<1>1. /\ c.s \in Kernel /\ c.t \in Task /\ c.p \in Prio /\ Same(s, c.s) /\ Tcbs(c.s, X)
      /\ Prios(c.s) /\ c.t \notin X
      /\ \A x \in Task : x \in X => c.s.prio[x] = s.prio[x]
  BY DEF Rounds
<1>2. Chain(c.s, X)
  BY <1>1, SameChain
<1>3. PICK d : d = ChangeOne(c)
  OBVIOUS
<1>4. /\ c.s.state[c.t] # "del" => Placed(c.s, X, c.t, c.p, d.s)
      /\ c.s.state[c.t] = "del" => d.s = c.s
      /\ d.p \in Prio
      /\ ~Waits(c.s, c.t) => d.t = NoTask
      /\ Waits(c.s, c.t) => d.t \in {NoTask, c.s.owner[c.s.obj[c.t]]}
      /\ d = [s |-> d.s, t |-> d.t, p |-> d.p]
  BY <1>1, <1>2, <1>3, ChangeOneIs
<1>5. d.t \in Task \cup {NoTask} /\ d.t \notin X
  BY <1>1, <1>2, <1>4 DEF Chain
<1>6. d.s \in Kernel /\ Same(c.s, d.s) /\ Tcbs(d.s, X)
  <2>1. CASE c.s.state[c.t] = "del"
    BY <1>1, <1>4, <2>1 DEF Same
  <2>2. CASE c.s.state[c.t] # "del"
    BY <1>4, <2>2 DEF Placed
  <2> QED BY <2>1, <2>2
<1>7. ASSUME NEW x \in Task
      PROVE  /\ d.s.prio[x] = c.s.prio[x] \/ (d.s.prio[x] \in Prio /\ x \notin X)
  <2>1. CASE c.s.state[c.t] = "del"
    BY <1>4, <2>1
  <2>2. CASE c.s.state[c.t] # "del"
    <3>1. d.s.prio = [c.s.prio EXCEPT ![c.t] = c.p]
      BY <1>4, <2>2 DEF Placed
    <3>2. c.s.prio \in [Task -> 0 .. IdlePrio + 1]
      BY <1>1 DEF Kernel
    <3> QED BY <1>1, <3>1, <3>2
  <2> QED BY <2>1, <2>2
<1>8. Prios(d.s)
  BY <1>1, <1>6, <1>7 DEF Prios, Same
<1>9. Same(s, d.s)
  BY <1>1, <1>6 DEF Same
<1>10. \A x \in Task : x \in X => d.s.prio[x] = s.prio[x]
  BY <1>1, <1>7
<1>11. d \in [s : Kernel, t : Task \cup {NoTask}, p : Prio]
  BY <1>4, <1>5, <1>6
<1> QED BY <1>3, <1>5, <1>6, <1>8, <1>9, <1>10, <1>11 DEF Rounds

LEMMA ChangePrioIs ==
  ASSUME NEW s \in Kernel, NEW X, Tcbs(s, X), Chain(s, X), Prios(s),
         NEW t \in Task, t \notin X, NEW p \in Prio, NoTask \notin X
  PROVE  /\ ChangePrio(s, t, p) \in Kernel /\ Same(s, ChangePrio(s, t, p))
         /\ Tcbs(ChangePrio(s, t, p), X) /\ Prios(ChangePrio(s, t, p))
         /\ \A x \in Task : x \in X => ChangePrio(s, t, p).prio[x] = s.prio[x]
<1> DEFINE b == [s |-> s, t |-> t, p |-> p]
<1>1. PICK n \in Nat : n = Cardinality(Task)
  BY MutexAssumption, FS_CardinalityType
<1> DEFINE l == [i \in 1 .. n |-> i]
           G == [i \in 0 .. n |-> Rounds(s, X)]
<1>20. PICK f : /\ IsFold(f, "change", 0, Start(s, t, p), Steps(n), n)
                /\ ChangePrio(s, t, p) = f[1 .. n].s
  BY <1>1, ChangeFold
<1>2. IsFold(f, "change", 0, b, l, n) /\ ChangePrio(s, t, p) = f[1 .. n].s
  BY <1>20 DEF Start, Steps
<1>3. b \in G[0]
  <2>1. b \in Rounds(s, X)
    BY DEF Rounds, Same
  <2> QED BY <2>1
<1>4. ASSUME NEW i \in 1 .. n, NEW c \in G[i - 1] PROVE Combine("change", 0, c, l[i]) \in G[i]
  <2>1. c \in Rounds(s, X)
    OBVIOUS
  <2>2. Combine("change", 0, c, l[i]) = IF c.t = NoTask THEN c ELSE ChangeOne(c)
    BY DEF Combine
  <2>3. Combine("change", 0, c, l[i]) \in Rounds(s, X)
    BY <2>1, <2>2, RoundKeeps
  <2> HIDE DEF l
  <2> QED BY <2>3
<1>5. f[1 .. n] \in G[n]
  <2> HIDE DEF G, l, b
  <2> QED BY <1>2, <1>3, <1>4, FoldIn
<1>6. f[1 .. n] \in Rounds(s, X)
  BY <1>5
<1> QED BY <1>2, <1>6 DEF Rounds

LEMMA SomeTasks == ASSUME NEW t \in Task PROVE Cardinality(Task) \in Nat \ {0}
<1>1. PICK S : S = Task
  OBVIOUS
<1>2. IsFiniteSet(S) /\ S # {}
  BY <1>1, MutexAssumption
<1>3. Cardinality(S) \in Nat /\ (Cardinality(S) = 0 <=> S = {})
  BY <1>2, FS_CardinalityType, FS_EmptySet
<1> QED BY <1>1, <1>2, <1>3

(* A task that does not wait gets its priority, and that is all. *)
LEMMA ChangeFlat ==
  ASSUME NEW s \in Kernel, NEW X, Tcbs(s, X), Chain(s, X), Prios(s),
         NEW t \in Task, t \notin X, NEW p \in Prio, ~Waits(s, t), s.state[t] # "del"
  PROVE  Placed(s, X, t, p, ChangePrio(s, t, p))
<1> DEFINE b == [s |-> s, t |-> t, p |-> p]
           d == ChangeOne(b)
<1>1. PICK n \in Nat : n = Cardinality(Task) /\ n # 0
  BY SomeTasks
<1> DEFINE l == [i \in 1 .. n |-> i]
           G == [i \in 0 .. n |-> IF i = 0 THEN {b} ELSE {d}]
<1>20. PICK f : /\ IsFold(f, "change", 0, Start(s, t, p), Steps(n), n)
                /\ ChangePrio(s, t, p) = f[1 .. n].s
  BY <1>1, ChangeFold
<1>2. IsFold(f, "change", 0, b, l, n) /\ ChangePrio(s, t, p) = f[1 .. n].s
  BY <1>20 DEF Start, Steps
<1>3. b.s = s /\ b.t = t /\ b.p = p
  OBVIOUS
<1>4. Placed(s, X, t, p, d.s) /\ d.t = NoTask
  <2> HIDE DEF b
  <2> QED BY <1>3, ChangeOneIs
<1>5. b \in G[0]
  OBVIOUS
<1>6. ASSUME NEW i \in 1 .. n, NEW c \in G[i - 1] PROVE Combine("change", 0, c, l[i]) \in G[i]
  <2>1. Combine("change", 0, c, l[i]) = IF c.t = NoTask THEN c ELSE ChangeOne(c)
    BY DEF Combine
  <2>2. G[i] = {d}
    OBVIOUS
  <2>3. CASE i = 1
    <3>1. c = b /\ b.t # NoTask
      BY <1>3, <2>3, MutexAssumption
    <3> HIDE DEF l, G, b
    <3> QED BY <2>1, <2>2, <3>1
  <2>4. CASE i # 1
    <3>1. c = d
      BY <2>4
    <3> HIDE DEF l, G, d
    <3> QED BY <1>4, <2>1, <2>2, <3>1
  <2> QED BY <2>3, <2>4
<1>7. f[1 .. n] \in G[n]
  <2> HIDE DEF G, l, b, d
  <2> QED BY <1>2, <1>5, <1>6, FoldIn
<1>8. f[1 .. n] = d
  BY <1>1, <1>7
<1> HIDE DEF d
<1> QED BY <1>2, <1>4, <1>8

-----------------------------------------------------------------------------
(* The invariant.  X: tasks in no list, M: mutexes in no group.               *)

Owned(s, M, t) == {m \in Mutex : m \notin M /\ s.owner[m] = t}
Groups(s, M) == \A t \in Task : Lists(s.grp[t], Mutex, Owned(s, M, t))

Held(s) ==
  /\ \A m \in Mutex : s.nest[m] = 0 <=> s.owner[m] = NoTask
  /\ \A m \in Mutex : s.owner[m] # NoTask => s.state[s.owner[m]] # "del"
  /\ \A t \in Task : Waits(s, t) =>
       s.obj[t] \in Mutex /\ s.owner[s.obj[t]] \in Task /\ s.owner[s.obj[t]] # t

(* Who waits does as the caller of OSMutexPend may. *)
Callers(s) ==
  \A t \in Task : Waits(s, t) =>
    /\ t \in Waiter /\ (s.state[t] = "pendTimeout" => t \in Timed)
    /\ s.grp[t] # <<>> => t \in Nester
    /\ \A m \in ToSet(s.grp[t]) : Rank[m] < Rank[s.obj[t]]

Legal(s, X, M) ==
  s \in Kernel /\ Tcbs(s, X) /\ Prios(s) /\ Groups(s, M) /\ Held(s) /\ Callers(s)

Inv ==
  /\ Legal(k, {}, {}) /\ mode \in {"task", "sched", "isr"}
  /\ mode = "task" => k.cur = Highest(k)

LEMMA SameGroups ==
  ASSUME NEW s, NEW r, NEW M, Same(s, r), Groups(s, M), Held(s), Callers(s)
  PROVE  Groups(r, M) /\ Held(r) /\ Callers(r)
<1>1. Groups(r, M)
  BY DEF Groups, Same, Owned
<1>2. Held(r)
  BY DEF Held, Same, Waits
<1>3. Callers(r)
  BY DEF Callers, Same, Waits
<1> QED BY <1>1, <1>2, <1>3

LEMMA LegalChange ==
  ASSUME NEW s, NEW X, NEW M, Legal(s, X, M), Chain(s, X), NEW t \in Task, t \notin X,
         NEW p \in Prio, NoTask \notin X
  PROVE  /\ Legal(ChangePrio(s, t, p), X, M) /\ Same(s, ChangePrio(s, t, p))
         /\ \A x \in Task : x \in X => ChangePrio(s, t, p).prio[x] = s.prio[x]
<1>1. s \in Kernel /\ Tcbs(s, X) /\ Prios(s) /\ Groups(s, M) /\ Held(s) /\ Callers(s)
  BY DEF Legal
<1>2. PICK r : r = ChangePrio(s, t, p)
  OBVIOUS
<1>3. r \in Kernel /\ Same(s, r) /\ Tcbs(r, X) /\ Prios(r)
  BY <1>1, <1>2, ChangePrioIs
<1>4. \A x \in Task : x \in X => r.prio[x] = s.prio[x]
  BY <1>1, <1>2, ChangePrioIs
<1>5. Groups(r, M) /\ Held(r) /\ Callers(r)
  BY <1>1, <1>3, SameGroups
<1> QED BY <1>2, <1>3, <1>4, <1>5 DEF Legal

LEMMA HeldChain ==
  ASSUME NEW s, NEW X, Held(s),
         \A x \in Task : Waits(s, x) /\ x \notin X => s.owner[s.obj[x]] \notin X
  PROVE  Chain(s, X)
BY DEF Held, Chain

LEMMA LegalDisinherit ==
  ASSUME NEW s, NEW X, NEW M, Legal(s, X, M), Chain(s, X), NEW o \in Task, o \notin X,
         NEW p, NoTask \notin X
  PROVE  /\ Legal(Disinherit(s, o, p), X, M) /\ Same(s, Disinherit(s, o, p))
         /\ \A x \in Task : x \in X => Disinherit(s, o, p).prio[x] = s.prio[x]
<1>1. CASE s.prio[o] # s.base[o] /\ s.prio[o] = p /\ Restored(s, o) # s.prio[o]
  <2>1. Disinherit(s, o, p) = ChangePrio(s, o, Restored(s, o))
    BY <1>1 DEF Disinherit
  <2>2. PICK q \in Prio : q = Restored(s, o)
    BY RestoredIn DEF Legal
  <2> QED BY <2>1, <2>2, LegalChange
<1>2. CASE ~(s.prio[o] # s.base[o] /\ s.prio[o] = p /\ Restored(s, o) # s.prio[o])
  <2>1. Disinherit(s, o, p) = s
    BY <1>2 DEF Disinherit
  <2> QED BY <2>1 DEF Same
<1> QED BY <1>1, <1>2

(* The end of a wait. *)
Ended(s, t, st, r) ==
  /\ r.state = [s.state EXCEPT ![t] = "rdy"] /\ r.status = [s.status EXCEPT ![t] = st]
  /\ r.obj = [s.obj EXCEPT ![t] = NoMutex] /\ r.prio = s.prio /\ r.base = s.base
  /\ r.grp = s.grp /\ r.owner = s.owner /\ r.nest = s.nest /\ r.made = s.made
  /\ r.cur = s.cur /\ r.prioCur = s.prioCur

LEMMA WakeIs ==
  ASSUME NEW s \in Kernel, NEW X, Tcbs(s, X), NEW t \in Task, t \notin X, Waits(s, t),
         s.obj[t] \in Mutex, s.prio[t] \in Prio, NEW st \in {"ok", "abort", "timeout", "del"}
  PROVE  /\ Wake(s, t, st) \in Kernel /\ Tcbs(Wake(s, t, st), X)
         /\ Ended(s, t, st, Wake(s, t, st))
<1>1. PICK a : a = PendRemove(s, t)
  OBVIOUS
<1>2. a \in Kernel /\ Same(s, a) /\ a.prio = s.prio /\ a.rdy = s.rdy /\ Tcbs(a, X \cup {t})
  BY <1>1, PendRemoveIs
<1>3. PICK b : b = [a EXCEPT !.state[t] = "rdy", !.status[t] = st, !.obj[t] = NoMutex]
  OBVIOUS
<1>4. /\ b.state = [a.state EXCEPT ![t] = "rdy"] /\ b.status = [a.status EXCEPT ![t] = st]
      /\ b.obj = [a.obj EXCEPT ![t] = NoMutex] /\ b.prio = a.prio /\ b.base = a.base
      /\ b.grp = a.grp /\ b.owner = a.owner /\ b.nest = a.nest /\ b.made = a.made
      /\ b.cur = a.cur /\ b.prioCur = a.prioCur /\ b.rdy = a.rdy /\ b.wait = a.wait
  BY <1>2, <1>3 DEF Kernel
<1>5. /\ a.state \in [Task -> {"rdy", "dly", "pend", "pendTimeout", "del"}]
      /\ a.status \in [Task -> {"ok", "abort", "timeout", "del"}]
      /\ a.obj \in [Task -> Mutex \cup {NoMutex}] /\ a.wait \in [Mutex -> Seq(Task)]
  BY <1>2 DEF Kernel
<1>6. /\ b.state \in [Task -> {"rdy", "dly", "pend", "pendTimeout", "del"}]
      /\ b.status \in [Task -> {"ok", "abort", "timeout", "del"}]
      /\ b.obj \in [Task -> Mutex \cup {NoMutex}]
  BY <1>4, <1>5
<1>7. b \in Kernel
  BY <1>2, <1>3, <1>6 DEF Kernel
<1>8. Tcbs(b, X \cup {t})
  <2>1. Unchanged(a, X \cup {t}, b)
    BY <1>4, <1>5 DEF Unchanged
  <2> QED BY <1>2, <1>4, <1>5, <2>1, OutChange
<1>9. PICK r : r = RdyInsert(b, t)
  OBVIOUS
<1>10. b.state[t] = "rdy" /\ b.prio[t] \in Prio
  BY <1>2, <1>4, <1>5
<1>11. RdyPlaced(b, t, r)
  BY <1>9, RdyInsertPlaces
<1>12. r \in Kernel /\ Same(b, r) /\ r.prio = b.prio /\ Tcbs(r, X)
  BY <1>7, <1>8, <1>10, <1>11, RdyInIs
<1>13. r = Wake(s, t, st)
  BY <1>1, <1>3, <1>9 DEF Wake
<1>14. Ended(s, t, st, r)
  BY <1>2, <1>4, <1>12 DEF Ended, Same
<1> QED BY <1>12, <1>13, <1>14

(* Nothing but t's wait and, at the end of it, what it was granted changes.   *)
LEMMA EndedWaits ==
  ASSUME NEW s \in Kernel, NEW t \in Task, NEW st, NEW r, Ended(s, t, st, r)
  PROVE  /\ ~Waits(r, t) /\ r.state[t] = "rdy" /\ r.status[t] = st
         /\ \A x \in Task : x # t => /\ r.state[x] = s.state[x] /\ r.obj[x] = s.obj[x]
                                     /\ r.status[x] = s.status[x]
                                     /\ (Waits(r, x) <=> Waits(s, x))
<1>1. /\ s.state \in [Task -> {"rdy", "dly", "pend", "pendTimeout", "del"}]
      /\ s.status \in [Task -> {"ok", "abort", "timeout", "del"}]
      /\ s.obj \in [Task -> Mutex \cup {NoMutex}]
  BY DEF Kernel
<1> QED BY <1>1 DEF Ended, Waits

LEMMA LegalWake ==
  ASSUME NEW s, NEW X, NEW M, Legal(s, X, M), NEW t \in Task, t \notin X, Waits(s, t),
         NEW st \in {"ok", "abort", "timeout", "del"}
  PROVE  Legal(Wake(s, t, st), X, M) /\ Ended(s, t, st, Wake(s, t, st))
<1>1. s \in Kernel /\ Tcbs(s, X) /\ Prios(s) /\ Groups(s, M) /\ Held(s) /\ Callers(s)
  BY DEF Legal
<1>2. s.obj[t] \in Mutex /\ s.prio[t] \in Prio
  BY <1>1 DEF Held, Prios, Waits
<1>3. PICK r : r = Wake(s, t, st)
  OBVIOUS
<1>4. r \in Kernel /\ Tcbs(r, X) /\ Ended(s, t, st, r)
  BY <1>1, <1>2, <1>3, WakeIs
<1>5. /\ ~Waits(r, t) /\ r.state[t] = "rdy"
      /\ \A x \in Task : x # t => /\ r.state[x] = s.state[x] /\ r.obj[x] = s.obj[x]
                                  /\ (Waits(r, x) <=> Waits(s, x))
  BY <1>1, <1>4, EndedWaits
<1>6. r.prio = s.prio /\ r.base = s.base /\ r.grp = s.grp /\ r.owner = s.owner /\ r.nest = s.nest
  BY <1>4 DEF Ended
<1>7. Prios(r)
  <2>1. s.state[t] # "del"
    BY DEF Waits
  <2> QED BY <1>1, <1>5, <1>6, <2>1 DEF Prios
<1>8. Groups(r, M)
  BY <1>1, <1>6 DEF Groups, Owned
<1>9. Held(r)
  <2>1. ASSUME NEW m \in Mutex, s.owner[m] # NoTask PROVE r.state[s.owner[m]] # "del"
    <3>1. s.owner[m] \in Task
      BY <1>1, <2>1 DEF Kernel
    <3> QED BY <1>1, <1>5, <2>1, <3>1 DEF Held
  <2>2. ASSUME NEW x \in Task, Waits(r, x)
        PROVE  r.obj[x] \in Mutex /\ r.owner[r.obj[x]] \in Task /\ r.owner[r.obj[x]] # x
    <3>1. x # t /\ Waits(s, x) /\ r.obj[x] = s.obj[x]
      BY <1>5, <2>2
    <3> QED BY <1>1, <1>6, <3>1 DEF Held
  <2> QED BY <1>1, <1>6, <2>1, <2>2 DEF Held
<1>10. Callers(r)
  <2>1. ASSUME NEW x \in Task, Waits(r, x)
        PROVE  x # t /\ Waits(s, x) /\ r.obj[x] = s.obj[x] /\ r.state[x] = s.state[x]
    BY <1>5, <2>1
  <2> QED BY <1>1, <1>6, <2>1 DEF Callers
<1> QED BY <1>3, <1>4, <1>7, <1>8, <1>9, <1>10 DEF Legal

-----------------------------------------------------------------------------
(* The scheduler. *)

LEMMA HighestIs ==
  ASSUME NEW s \in Kernel, Tcbs(s, {}), Prios(s)
  PROVE  \/ /\ Highest(s) = NoTask
            /\ \A x \in Task : s.state[x] # "rdy"
         \/ /\ Highest(s) \in Task /\ s.state[Highest(s)] = "rdy" /\ s.prio[Highest(s)] \in Prio
            /\ \A x \in Task : s.state[x] = "rdy" => s.prio[Highest(s)] <= s.prio[x]
<1> DEFINE used == {p \in Prio : s.rdy[p] # <<>>}
<1>1. PICK X : X = {}
  OBVIOUS
<1>2. \A p \in Prio : Lists(s.rdy[p], Task, RdySet(s, X, p))
  BY <1>1 DEF Tcbs, RdyList
<1>3. ASSUME NEW x \in Task, s.state[x] = "rdy" PROVE s.prio[x] \in used
  <2>1. s.prio[x] \in Prio
    BY <1>3 DEF Prios
  <2>2. x \in RdySet(s, X, s.prio[x])
    BY <1>1, <1>3 DEF RdySet
  <2>3. s.rdy[s.prio[x]] # <<>>
    BY <1>2, <2>1, <2>2, ListEmpty
  <2> QED BY <2>1, <2>3
<1>4. CASE used = {}
  <2>1. Highest(s) = NoTask
    BY <1>4 DEF Highest
  <2> QED BY <1>3, <1>4, <2>1
<1>5. CASE used # {}
  <2>1. used \subseteq Nat
    BY PrioIs
  <2>2. PICK p : p = Min(used) /\ p \in used /\ \A q \in used : p <= q
    <3> HIDE DEF used
    <3> QED BY <1>5, <2>1, MinIs
  <2>3. PICK h : h = Head(s.rdy[p])
    OBVIOUS
  <2>4. Highest(s) = h
    BY <1>5, <2>2, <2>3 DEF Highest
  <2>5. h \in RdySet(s, X, p)
    <3>1. p \in Prio /\ s.rdy[p] # <<>>
      BY <2>2
    <3> QED BY <1>2, <2>3, <3>1, ListHead
  <2>6. h \in Task /\ s.state[h] = "rdy" /\ s.prio[h] = p
    BY <2>5 DEF RdySet
  <2> HIDE DEF used
  <2>7. \A x \in Task : s.state[x] = "rdy" => p <= s.prio[x]
    BY <1>3, <2>2
  <2>8. p \in Prio
    BY <2>2 DEF used
  <2> QED BY <2>4, <2>6, <2>7, <2>8
<1> QED BY <1>4, <1>5

LEMMA LegalSched ==
  ASSUME NEW s, Legal(s, {}, {})
  PROVE  Legal(Sched(s), {}, {}) /\ Sched(s).cur = Highest(Sched(s)) /\ Sched(s).state = s.state
         /\ Sched(s).prio = s.prio /\ Sched(s).base = s.base /\ Sched(s).obj = s.obj
         /\ Sched(s).owner = s.owner
<1> DEFINE h == Highest(s)
<1>1. s \in Kernel /\ Tcbs(s, {}) /\ Prios(s) /\ Groups(s, {}) /\ Held(s) /\ Callers(s)
  BY DEF Legal
<1>2. h \in Task \cup {NoTask} /\ (h # NoTask => s.prio[h] \in Prio)
  <2> HIDE DEF h
  <2> QED BY <1>1, HighestIs DEF h
<1>3. PICK r : r = Sched(s)
  OBVIOUS
<1>4. IdlePrio \in Prio
  BY MutexAssumption DEF Prio
<1>5. \/ r = s /\ h = s.cur
      \/ r = [s EXCEPT !.cur = h, !.prioCur = IF h = NoTask THEN IdlePrio ELSE s.prio[h]]
  BY <1>3 DEF Sched
<1>6. /\ r.prio = s.prio /\ r.base = s.base /\ r.state = s.state /\ r.status = s.status
      /\ r.obj = s.obj /\ r.grp = s.grp /\ r.wait = s.wait /\ r.owner = s.owner
      /\ r.nest = s.nest /\ r.made = s.made /\ r.rdy = s.rdy /\ r.cur = h
  <2> HIDE DEF h
  <2> QED BY <1>1, <1>5 DEF Kernel
<1>7. r \in Kernel
  <2> HIDE DEF h
  <2>1. PICK p \in Prio : p = IF h = NoTask THEN IdlePrio ELSE s.prio[h]
    BY <1>2, <1>4
  <2>2. r = s \/ r = [s EXCEPT !.cur = h, !.prioCur = p]
    BY <1>5, <2>1
  <2>3. h \in Task \cup {NoTask}
    BY <1>2
  <2>4. CASE r = [s EXCEPT !.cur = h, !.prioCur = p]
    <3>1. s \in Kernel
      BY <1>1
    <3> QED BY <2>3, <2>4, <3>1 DEF Kernel
  <2> QED BY <1>1, <2>2, <2>4
<1>8. Highest(r) = h
  BY <1>6 DEF Highest
<1>9. Tcbs(r, {})
  <2>1. PICK X : X = {}
    OBVIOUS
  <2>2. Tcbs(r, X)
    <3>1. Unchanged(s, X, r) /\ s.wait \in [Mutex -> Seq(Task)]
      BY <1>1, <1>6 DEF Unchanged, Kernel
    <3> QED BY <1>1, <1>6, <2>1, <3>1, OutChange
  <2> QED BY <2>1, <2>2
<1>10. Prios(r) /\ Groups(r, {}) /\ Held(r) /\ Callers(r)
  <2>1. Prios(r) /\ Held(r)
    BY <1>1, <1>6 DEF Prios, Held, Waits
  <2>2. Groups(r, {})
    BY <1>1, <1>6 DEF Groups, Owned
  <2>3. Callers(r)
    BY <1>1, <1>6 DEF Callers, Waits
  <2> QED BY <2>1, <2>2, <2>3
<1> QED BY <1>3, <1>6, <1>7, <1>8, <1>9, <1>10 DEF Legal

(* The list that SetToSeq makes of the tasks that are ready at first. *)
LEMMA SeqOfSet ==
  ASSUME NEW S, S \subseteq Task PROVE Lists(SetToSeq(S), Task, S)
<1>1. IsFiniteSet(S)
  BY MutexAssumption, FS_Subset
<1>2. PICK n \in Nat : n = Cardinality(S)
  BY <1>1, FS_CardinalityType
<1>3. ExistsBijection(1 .. n, S)
  BY <1>1, <1>2, FS_NatBijection, FS_CountingElements
<1>4. PICK f : f \in Bijection(1 .. n, S)
  BY <1>3 DEF ExistsBijection
<1>5. f \in [1 .. n -> S] /\ IsInjective(f)
  BY <1>4 DEF Bijection, Injection, IsInjective
<1>6. PICK q : q = SetToSeq(S)
  OBVIOUS
<1>7. q \in [1 .. n -> S] /\ IsInjective(q)
  BY <1>2, <1>5, <1>6 DEF SetToSeq
<1>8. q \in Seq(S) /\ q \in Seq(Task) /\ Len(q) = n
  BY <1>7
<1>9. ToSet(q) = S
  <2>1. q \in Injection(1 .. n, S)
    BY <1>7 DEF Injection, IsInjective
  <2>2. PICK T : T = {q[i] : i \in 1 .. n}
    OBVIOUS
  <2>3. T \subseteq S
    BY <1>7, <2>2
  <2>4. q \in Bijection(1 .. n, T)
    <3>1. q \in [1 .. n -> T] /\ \A y \in T : \E i \in 1 .. n : q[i] = y
      BY <1>7, <2>2
    <3>2. q \in Injection(1 .. n, T)
      BY <1>7, <3>1 DEF Injection, IsInjective
    <3>3. q \in Surjection(1 .. n, T)
      BY <3>1 DEF Surjection
    <3> QED BY <3>2, <3>3 DEF Bijection
  <2>5. IsFiniteSet(T) /\ Cardinality(T) = n
    <3>1. ExistsBijection(1 .. n, T)
      BY <2>4 DEF ExistsBijection
    <3> QED BY <3>1, FS_CountingElements, FS_NatBijection
  <2>6. T = S
    BY <1>1, <1>2, <2>3, <2>5, FS_Subset
  <2>7. DOMAIN q = 1 .. n
    BY <1>7
  <2> QED BY <2>2, <2>6, <2>7 DEF ToSet
<1> QED BY <1>6, <1>7, <1>8, <1>9 DEF Lists

LEMMA ListNone ==
  ASSUME NEW E PROVE Lists(<<>>, E, {}) /\ \A pr : Sorted(<<>>, pr)
<1>1. <<>> \in Seq(E) /\ Len(<<>>) = 0 /\ 1 .. 0 = {}
  OBVIOUS
<1>2. PICK S : S = {}
  OBVIOUS
<1>3. Lists(<<>>, E, S)
  BY <1>1, <1>2, ListMade
<1> QED BY <1>1, <1>2, <1>3 DEF Sorted

LEMMA LegalFresh == Legal(Fresh, {}, {})
<1>1. PICK s : s = Fresh
  OBVIOUS
<1>2. /\ s.prio = BasePrio /\ s.base = BasePrio /\ s.state = [t \in Task |-> "rdy"]
      /\ s.obj = [t \in Task |-> NoMutex] /\ s.grp = [t \in Task |-> <<>>]
      /\ s.wait = [m \in Mutex |-> <<>>] /\ s.owner = [m \in Mutex |-> NoTask]
      /\ s.nest = [m \in Mutex |-> 0] /\ s.cur = NoTask
      /\ s.rdy = [p \in Prio |-> SetToSeq({t \in Task : BasePrio[t] = p})]
  BY <1>1 DEF Fresh
<1>3. \A p \in Prio : Lists(SetToSeq({t \in Task : BasePrio[t] = p}), Task, {t \in Task : BasePrio[t] = p})
  BY SeqOfSet
<1>4. s \in Kernel
  <2>1. s.rdy \in [Prio -> Seq(Task)]
    BY <1>2, <1>3 DEF Lists
  <2>2. \A t \in Task : BasePrio[t] \in 0 .. IdlePrio + 1
    BY MutexAssumption
  <2>3. BasePrio \in [Task -> 0 .. IdlePrio + 1]
    BY <2>2, MutexAssumption
  <2>4. IdlePrio \in Prio /\ 0 \in 0 .. NestMax
    BY MutexAssumption DEF Prio
  <2>5. /\ s.grp \in [Task -> Seq(Mutex)] /\ s.wait \in [Mutex -> Seq(Task)]
        /\ s.nest \in [Mutex -> 0 .. NestMax]
    BY <1>2, <2>4
  <2> QED BY <1>1, <1>2, <2>1, <2>3, <2>4, <2>5 DEF Kernel, Fresh
<1>5. PICK X : X = {}
  OBVIOUS
<1>6. Tcbs(s, X)
  <2>1. ASSUME NEW p \in Prio PROVE RdyList(s, X, p)
    <3>1. RdySet(s, X, p) = {t \in Task : BasePrio[t] = p}
      BY <1>2, <1>5 DEF RdySet
    <3>2. s.rdy[p] = SetToSeq({t \in Task : BasePrio[t] = p})
      BY <1>2
    <3> QED BY <1>3, <3>1, <3>2 DEF RdyList
  <2>2. ASSUME NEW m \in Mutex PROVE WaitList(s, X, m)
    <3>1. WaitSet(s, X, m) = {}
      BY <1>2 DEF WaitSet, Waits
    <3>2. s.wait[m] = <<>>
      BY <1>2
    <3> QED BY <3>1, <3>2, ListNone DEF WaitList
  <2> QED BY <2>1, <2>2 DEF Tcbs
<1>7. Prios(s)
  <2>1. \A t \in Task : BasePrio[t] \in Prio
    BY MutexAssumption DEF Prio
  <2> QED BY <1>2, <2>1 DEF Prios
<1>8. Groups(s, {})
  <2> SUFFICES ASSUME NEW t \in Task PROVE Lists(s.grp[t], Mutex, Owned(s, {}, t))
    BY DEF Groups
  <2>1. Owned(s, {}, t) = {}
    BY <1>2, MutexAssumption DEF Owned
  <2>2. s.grp[t] = <<>>
    BY <1>2
  <2> QED BY <2>1, <2>2, ListNone
<1>9. Held(s) /\ Callers(s)
  BY <1>2 DEF Held, Callers, Waits
<1> QED BY <1>1, <1>4, <1>5, <1>6, <1>7, <1>8, <1>9 DEF Legal

-----------------------------------------------------------------------------
(* Mutexes change hands. *)

SameTcbs(s, r) ==
  /\ r.prio = s.prio /\ r.base = s.base /\ r.state = s.state /\ r.status = s.status
  /\ r.obj = s.obj /\ r.wait = s.wait /\ r.rdy = s.rdy /\ r.cur = s.cur
  /\ r.prioCur = s.prioCur

LEMMA SameTcbsLegal ==
  ASSUME NEW s, NEW X, NEW r, SameTcbs(s, r), s \in Kernel, Tcbs(s, X), Prios(s)
  PROVE  Tcbs(r, X) /\ Prios(r)
<1>1. Unchanged(s, X, r) /\ s.wait \in [Mutex -> Seq(Task)]
  BY DEF Unchanged, SameTcbs, Kernel
<1>2. Tcbs(r, X)
  BY <1>1, OutChange DEF SameTcbs
<1> QED BY <1>2 DEF Prios, SameTcbs

LEMMA UngroupIs ==
  ASSUME NEW s \in Kernel, NEW m \in Mutex, Groups(s, {}), s.owner[m] \in Task
  PROVE  /\ Ungroup(s, m) \in Kernel /\ SameTcbs(s, Ungroup(s, m)) /\ Groups(Ungroup(s, m), {m})
         /\ Ungroup(s, m).owner = s.owner /\ Ungroup(s, m).nest = s.nest
         /\ Ungroup(s, m).made = s.made
         /\ \A t \in Task : ToSet(Ungroup(s, m).grp[t]) \subseteq ToSet(s.grp[t])
         /\ \A t \in Task : t # s.owner[m] => Ungroup(s, m).grp[t] = s.grp[t]
<1> DEFINE o == s.owner[m]
           q == RemoveFirst(s.grp[o], m)
<1>1. PICK r : r = Ungroup(s, m)
  OBVIOUS
<1>2. /\ r.grp = [s.grp EXCEPT ![o] = q] /\ SameTcbs(s, r)
      /\ r.owner = s.owner /\ r.nest = s.nest /\ r.made = s.made
  BY <1>1 DEF Ungroup, Kernel, SameTcbs
<1>3. s.grp \in [Task -> Seq(Mutex)]
  BY DEF Kernel
<1>4. Lists(s.grp[o], Mutex, Owned(s, {}, o)) /\ m \in Owned(s, {}, o)
  BY DEF Groups, Owned
<1>5. Lists(q, Mutex, Owned(s, {}, o) \ {m})
  BY <1>4, ListOut
<1>6. Owned(s, {}, o) \ {m} = Owned(r, {m}, o)
  BY <1>2 DEF Owned
<1>7. q \in Seq(Mutex)
  BY <1>5 DEF Lists
<1> HIDE DEF q
<1>8. r.grp \in [Task -> Seq(Mutex)]
  BY <1>2, <1>3, <1>7
<1>9. r \in Kernel
  BY <1>1, <1>8 DEF Kernel, Ungroup
<1>10. ASSUME NEW t \in Task, t # o PROVE Lists(r.grp[t], Mutex, Owned(r, {m}, t))
  <2>1. Owned(r, {m}, t) = Owned(s, {}, t)
    BY <1>2, <1>10 DEF Owned
  <2>2. r.grp[t] = s.grp[t]
    BY <1>2, <1>3, <1>10
  <2> QED BY <2>1, <2>2 DEF Groups
<1>11. r.grp[o] = q
  BY <1>2, <1>3
<1>12. Groups(r, {m})
  BY <1>5, <1>6, <1>10, <1>11 DEF Groups
<1>13. ToSet(q) \subseteq ToSet(s.grp[o])
  BY <1>4, <1>5 DEF Lists
<1>14. \A t \in Task : t # o => r.grp[t] = s.grp[t]
  BY <1>2, <1>3
<1>15. \A t \in Task : ToSet(r.grp[t]) \subseteq ToSet(s.grp[t])
  BY <1>11, <1>13, <1>14
<1> QED BY <1>1, <1>2, <1>9, <1>12, <1>14, <1>15

LEMMA DisownIs ==
  ASSUME NEW s \in Kernel, NEW m \in Mutex, Groups(s, {m})
  PROVE  /\ Disown(s, m) \in Kernel /\ SameTcbs(s, Disown(s, m)) /\ Groups(Disown(s, m), {})
         /\ Disown(s, m).owner = [s.owner EXCEPT ![m] = NoTask]
         /\ Disown(s, m).nest = [s.nest EXCEPT ![m] = 0]
         /\ Disown(s, m).made = s.made /\ Disown(s, m).grp = s.grp
<1>1. PICK r : r = Disown(s, m)
  OBVIOUS
<1>2. /\ r.owner = [s.owner EXCEPT ![m] = NoTask] /\ r.nest = [s.nest EXCEPT ![m] = 0]
      /\ SameTcbs(s, r) /\ r.grp = s.grp /\ r.made = s.made
  BY <1>1 DEF Disown, Kernel, SameTcbs
<1>3. s.owner \in [Mutex -> Task \cup {NoTask}] /\ s.nest \in [Mutex -> 0 .. NestMax]
  BY DEF Kernel
<1>4. 0 \in 0 .. NestMax
  BY MutexAssumption
<1>5. r.owner \in [Mutex -> Task \cup {NoTask}] /\ r.nest \in [Mutex -> 0 .. NestMax]
  BY <1>2, <1>3, <1>4
<1>6. r \in Kernel
  BY <1>1, <1>5 DEF Kernel, Disown
<1>7. ASSUME NEW t \in Task PROVE Owned(r, {}, t) = Owned(s, {m}, t)
  BY <1>2, <1>3, MutexAssumption DEF Owned
<1>8. Groups(r, {})
  BY <1>2, <1>7 DEF Groups
<1> QED BY <1>1, <1>2, <1>6, <1>8

LEMMA OwnIs ==
  ASSUME NEW s \in Kernel, NEW m \in Mutex, Groups(s, {m}), NEW t \in Task
  PROVE  /\ Own(s, t, m) \in Kernel /\ SameTcbs(s, Own(s, t, m)) /\ Groups(Own(s, t, m), {})
         /\ Own(s, t, m).owner = [s.owner EXCEPT ![m] = t]
         /\ Own(s, t, m).nest = [s.nest EXCEPT ![m] = 1]
         /\ Own(s, t, m).made = s.made
         /\ \A x \in Task : x # t => Own(s, t, m).grp[x] = s.grp[x]
<1> DEFINE q == <<m>> \o s.grp[t]
           S == Owned(s, {m}, t)
<1>1. PICK r : r = Own(s, t, m)
  OBVIOUS
<1>2. /\ r.owner = [s.owner EXCEPT ![m] = t] /\ r.nest = [s.nest EXCEPT ![m] = 1]
      /\ r.grp = [s.grp EXCEPT ![t] = q] /\ SameTcbs(s, r) /\ r.made = s.made
  BY <1>1 DEF Own, Kernel, SameTcbs
<1>3. /\ s.owner \in [Mutex -> Task \cup {NoTask}] /\ s.nest \in [Mutex -> 0 .. NestMax]
      /\ s.grp \in [Task -> Seq(Mutex)]
  BY DEF Kernel
<1>4. 1 \in 0 .. NestMax
  BY MutexAssumption
<1>5. Lists(s.grp[t], Mutex, S) /\ m \notin S
  BY DEF Groups, Owned
<1>6. Lists(q, Mutex, S \cup {m})
  <2>1. PICK g : g = s.grp[t] /\ g \in Seq(Mutex)
    BY <1>3
  <2>2. PICK i : <<m>> \o g = InsertAt(g, i, m) /\ i \in 1 .. Len(g) + 1
    BY <2>1, AtEnds
  <2>3. Lists(g, Mutex, S)
    BY <1>5, <2>1
  <2> HIDE DEF S
  <2>4. Lists(InsertAt(g, i, m), Mutex, S \cup {m})
    BY <1>5, <2>2, <2>3, ListIn
  <2> QED BY <2>1, <2>2, <2>4
<1>7. q \in Seq(Mutex)
  BY <1>6 DEF Lists
<1> HIDE DEF q
<1>8. /\ r.owner \in [Mutex -> Task \cup {NoTask}] /\ r.nest \in [Mutex -> 0 .. NestMax]
      /\ r.grp \in [Task -> Seq(Mutex)]
  BY <1>2, <1>3, <1>4, <1>7
<1>9. r \in Kernel
  BY <1>1, <1>8 DEF Kernel, Own
<1>10. S \cup {m} = Owned(r, {}, t)
  BY <1>2, <1>3 DEF Owned
<1>11. ASSUME NEW x \in Task, x # t PROVE Owned(r, {}, x) = Owned(s, {m}, x) /\ r.grp[x] = s.grp[x]
  BY <1>2, <1>3, <1>11 DEF Owned
<1>12. r.grp[t] = q
  BY <1>2, <1>3
<1>13. Groups(r, {})
  <2> SUFFICES ASSUME NEW x \in Task PROVE Lists(r.grp[x], Mutex, Owned(r, {}, x))
    BY DEF Groups
  <2>1. CASE x = t
    BY <1>6, <1>10, <1>12, <2>1
  <2>2. CASE x # t
    BY <1>11, <2>2 DEF Groups
  <2> QED BY <2>1, <2>2
<1> QED BY <1>1, <1>2, <1>9, <1>11, <1>13

LEMMA LegalUngroup ==
  ASSUME NEW s, NEW X, Legal(s, X, {}), NEW m \in Mutex, s.owner[m] \in Task
  PROVE  Legal(Ungroup(s, m), X, {m})
<1>1. s \in Kernel /\ Tcbs(s, X) /\ Prios(s) /\ Groups(s, {}) /\ Held(s) /\ Callers(s)
  BY DEF Legal
<1>2. PICK r : r = Ungroup(s, m)
  OBVIOUS
<1>3. /\ r \in Kernel /\ SameTcbs(s, r) /\ Groups(r, {m}) /\ r.owner = s.owner /\ r.nest = s.nest
      /\ \A t \in Task : ToSet(r.grp[t]) \subseteq ToSet(s.grp[t])
  BY <1>1, <1>2, UngroupIs
<1>4. Tcbs(r, X) /\ Prios(r)
  BY <1>1, <1>3, SameTcbsLegal
<1>5. Held(r)
  BY <1>1, <1>3 DEF Held, SameTcbs, Waits
<1>6. Callers(r)
  <2> SUFFICES ASSUME NEW t \in Task, Waits(r, t)
               PROVE  /\ t \in Waiter /\ (r.state[t] = "pendTimeout" => t \in Timed)
                      /\ r.grp[t] # <<>> => t \in Nester
                      /\ \A n \in ToSet(r.grp[t]) : Rank[n] < Rank[r.obj[t]]
    BY DEF Callers
  <2>1. Waits(s, t) /\ r.obj[t] = s.obj[t] /\ r.state[t] = s.state[t]
    BY <1>3 DEF SameTcbs, Waits
  <2>2. /\ t \in Waiter /\ (s.state[t] = "pendTimeout" => t \in Timed)
        /\ s.grp[t] # <<>> => t \in Nester
        /\ \A n \in ToSet(s.grp[t]) : Rank[n] < Rank[s.obj[t]]
    BY <1>1, <2>1 DEF Callers
  <2>3. ToSet(r.grp[t]) \subseteq ToSet(s.grp[t])
    BY <1>3
  <2>4. r.grp[t] # <<>> => s.grp[t] # <<>>
    <3>1. Lists(r.grp[t], Mutex, ToSet(r.grp[t])) /\ Lists(s.grp[t], Mutex, ToSet(s.grp[t]))
      BY <1>1, <1>3 DEF Groups, Lists
    <3> QED BY <2>3, <3>1, ListEmpty
  <2> QED BY <2>1, <2>2, <2>3, <2>4
<1> QED BY <1>2, <1>3, <1>4, <1>5, <1>6 DEF Legal

LEMMA LegalDisown ==
  ASSUME NEW s, NEW X, NEW m \in Mutex, Legal(s, X, {m}),
         \A t \in Task : Waits(s, t) => s.obj[t] # m
  PROVE  Legal(Disown(s, m), X, {})
<1>1. s \in Kernel /\ Tcbs(s, X) /\ Prios(s) /\ Groups(s, {m}) /\ Held(s) /\ Callers(s)
  BY DEF Legal
<1>2. PICK r : r = Disown(s, m)
  OBVIOUS
<1>3. /\ r \in Kernel /\ SameTcbs(s, r) /\ Groups(r, {}) /\ r.grp = s.grp
      /\ r.owner = [s.owner EXCEPT ![m] = NoTask] /\ r.nest = [s.nest EXCEPT ![m] = 0]
  BY <1>1, <1>2, DisownIs
<1>4. Tcbs(r, X) /\ Prios(r)
  BY <1>1, <1>3, SameTcbsLegal
<1>5. s.owner \in [Mutex -> Task \cup {NoTask}] /\ s.nest \in [Mutex -> 0 .. NestMax]
  BY <1>1 DEF Kernel
<1>6. Held(r)
  <2>1. \A n \in Mutex : n # m => r.owner[n] = s.owner[n] /\ r.nest[n] = s.nest[n]
    BY <1>3, <1>5
  <2>2. r.owner[m] = NoTask /\ r.nest[m] = 0
    BY <1>3, <1>5
  <2>3. ASSUME NEW t \in Task, Waits(r, t)
        PROVE  r.obj[t] \in Mutex /\ r.owner[r.obj[t]] \in Task /\ r.owner[r.obj[t]] # t
    <3>1. Waits(s, t) /\ r.obj[t] = s.obj[t] /\ s.obj[t] # m
      BY <1>3, <2>3 DEF SameTcbs, Waits
    <3> QED BY <1>1, <2>1, <3>1 DEF Held
  <2>4. r.state = s.state
    BY <1>3 DEF SameTcbs
  <2> QED BY <1>1, <2>1, <2>2, <2>3, <2>4 DEF Held
<1>7. Callers(r)
  BY <1>1, <1>3 DEF Callers, SameTcbs, Waits
<1> QED BY <1>2, <1>3, <1>4, <1>6, <1>7 DEF Legal

(* A waiter gets the mutex and ends its wait. *)
Hand(s, t, m) == Wake(Own(s, t, m), t, "ok")

Handed(s, t, m, r) ==
  /\ r.owner = [s.owner EXCEPT ![m] = t] /\ r.state = [s.state EXCEPT ![t] = "rdy"]
  /\ r.status = [s.status EXCEPT ![t] = "ok"] /\ r.obj = [s.obj EXCEPT ![t] = NoMutex]
  /\ r.prio = s.prio /\ r.base = s.base

LEMMA LegalHand ==
  ASSUME NEW s, NEW m \in Mutex, Legal(s, {}, {m}), NEW t \in Task, Waits(s, t), s.obj[t] = m
  PROVE  Legal(Hand(s, t, m), {}, {}) /\ Handed(s, t, m, Hand(s, t, m))
<1>1. s \in Kernel /\ Tcbs(s, {}) /\ Prios(s) /\ Groups(s, {m}) /\ Held(s) /\ Callers(s)
  BY DEF Legal
<1>2. PICK a : a = Own(s, t, m)
  OBVIOUS
<1>3. /\ a \in Kernel /\ SameTcbs(s, a) /\ Groups(a, {})
      /\ a.owner = [s.owner EXCEPT ![m] = t] /\ a.nest = [s.nest EXCEPT ![m] = 1]
      /\ \A x \in Task : x # t => a.grp[x] = s.grp[x]
  BY <1>1, <1>2, OwnIs
<1>4. Tcbs(a, {}) /\ Prios(a)
  BY <1>1, <1>3, SameTcbsLegal
<1>5. Waits(a, t) /\ a.obj[t] = m /\ a.prio[t] \in Prio
  BY <1>3, <1>4 DEF SameTcbs, Waits, Prios
<1>6. PICK r : r = Wake(a, t, "ok")
  OBVIOUS
<1>7. PICK X : X = {}
  OBVIOUS
<1>8. r \in Kernel /\ Tcbs(r, X) /\ Ended(a, t, "ok", r)
  <2>1. Tcbs(a, X) /\ t \notin X
    BY <1>4, <1>7
  <2> QED BY <1>3, <1>5, <1>6, <2>1, WakeIs
<1>9. /\ ~Waits(r, t) /\ r.state[t] = "rdy"
      /\ \A x \in Task : x # t => /\ r.state[x] = a.state[x] /\ r.obj[x] = a.obj[x]
                                  /\ (Waits(r, x) <=> Waits(a, x))
  BY <1>3, <1>8, EndedWaits
<1>10. r.prio = a.prio /\ r.base = a.base /\ r.grp = a.grp /\ r.owner = a.owner /\ r.nest = a.nest
  BY <1>8 DEF Ended
<1>11. Prios(r)
  <2>1. a.state[t] # "del"
    BY <1>5 DEF Waits
  <2> QED BY <1>4, <1>9, <1>10, <2>1 DEF Prios
<1>12. Groups(r, {})
  BY <1>3, <1>10 DEF Groups, Owned
<1>13. s.owner \in [Mutex -> Task \cup {NoTask}] /\ s.nest \in [Mutex -> 0 .. NestMax]
  BY <1>1 DEF Kernel
<1>14. /\ r.owner[m] = t /\ r.nest[m] = 1
       /\ \A n \in Mutex : n # m => r.owner[n] = s.owner[n] /\ r.nest[n] = s.nest[n]
  BY <1>3, <1>10, <1>13
<1>15. Held(r)
  <2>1. ASSUME NEW n \in Mutex, r.owner[n] # NoTask PROVE r.state[r.owner[n]] # "del"
    <3>1. CASE r.owner[n] = t
      BY <1>9, <3>1
    <3>2. CASE r.owner[n] # t
      <4>1. n # m /\ r.owner[n] = s.owner[n] /\ s.owner[n] \in Task
        BY <1>13, <1>14, <2>1, <3>2
      <4>2. r.state[s.owner[n]] = s.state[s.owner[n]]
        BY <1>3, <1>9, <3>2, <4>1 DEF SameTcbs
      <4> QED BY <1>1, <2>1, <4>1, <4>2 DEF Held
    <3> QED BY <3>1, <3>2
  <2>2. ASSUME NEW x \in Task, Waits(r, x)
        PROVE  r.obj[x] \in Mutex /\ r.owner[r.obj[x]] \in Task /\ r.owner[r.obj[x]] # x
    <3>1. x # t /\ Waits(s, x) /\ r.obj[x] = s.obj[x]
      BY <1>3, <1>9, <2>2 DEF SameTcbs, Waits
    <3> QED BY <1>1, <1>14, <3>1 DEF Held
  <2>3. \A n \in Mutex : r.nest[n] = 0 <=> r.owner[n] = NoTask
    BY <1>1, <1>14, MutexAssumption DEF Held
  <2> QED BY <2>1, <2>2, <2>3 DEF Held
<1>16. Callers(r)
  <2>1. ASSUME NEW x \in Task, Waits(r, x)
        PROVE  /\ x # t /\ Waits(s, x) /\ r.obj[x] = s.obj[x] /\ r.state[x] = s.state[x]
               /\ r.grp[x] = s.grp[x]
    BY <1>3, <1>9, <1>10, <2>1 DEF SameTcbs, Waits
  <2> QED BY <1>1, <2>1 DEF Callers
<1>17. r = Hand(s, t, m)
  BY <1>2, <1>6 DEF Hand
<1>18. Legal(r, {}, {})
  BY <1>7, <1>8, <1>11, <1>12, <1>15, <1>16 DEF Legal
<1>19. Handed(s, t, m, r)
  BY <1>3, <1>8, <1>10 DEF Ended, SameTcbs, Handed
<1> QED BY <1>17, <1>18, <1>19

(* A mutex that nobody waits for, and the first one of those who wait. *)
LEMMA NobodyWaits ==
  ASSUME NEW s, NEW X, Tcbs(s, X), NEW m \in Mutex
  PROVE  s.wait[m] = <<>> <=> \A t \in Task : t \notin X => ~(Waits(s, t) /\ s.obj[t] = m)
<1>1. Lists(s.wait[m], Task, WaitSet(s, X, m))
  BY DEF Tcbs, WaitList
<1>2. s.wait[m] = <<>> <=> WaitSet(s, X, m) = {}
  BY <1>1, ListEmpty
<1> QED BY <1>2 DEF WaitSet

LEMMA HeadWaits ==
  ASSUME NEW s \in Kernel, NEW X, Tcbs(s, X), NEW m \in Mutex, s.wait[m] # <<>>
  PROVE  LET t == Head(s.wait[m])
         IN  /\ t \in Task /\ t \notin X /\ Waits(s, t) /\ s.obj[t] = m
             /\ \A x \in Task : x \notin X /\ Waits(s, x) /\ s.obj[x] = m => s.prio[t] <= s.prio[x]
             /\ \A x \in ToSet(s.wait[m]) : s.prio[t] <= s.prio[x]
<1>1. Lists(s.wait[m], Task, WaitSet(s, X, m)) /\ Sorted(s.wait[m], s.prio)
  BY DEF Tcbs, WaitList
<1>2. PICK t : t = Head(s.wait[m])
  OBVIOUS
<1>3. s.prio \in [Task -> Nat]
  <2>1. s.prio \in [Task -> 0 .. IdlePrio + 1]
    BY DEF Kernel
  <2> QED BY <2>1, MutexAssumption
<1>4. t \in WaitSet(s, X, m) /\ \A x \in WaitSet(s, X, m) : s.prio[t] <= s.prio[x]
  BY <1>1, <1>2, <1>3, ListHead
<1>5. ToSet(s.wait[m]) = WaitSet(s, X, m)
  BY <1>1 DEF Lists
<1> QED BY <1>2, <1>4, <1>5 DEF WaitSet

-----------------------------------------------------------------------------
(* The steps. *)

(* What Granted says of a step. *)
Grant(s, r) ==
  \A t \in Task :
    Waits(s, t) /\ ~Waits(r, t) /\ r.state[t] # "del" =>
      /\ r.status[t] = "ok" <=> r.owner[s.obj[t]] = t
      /\ r.owner[s.obj[t]] = t => \A u \in ToSet(s.wait[s.obj[t]]) : s.prio[t] <= s.prio[u]

LEMMA GrantNone ==
  ASSUME NEW s, NEW r,
         \A t \in Task : Waits(s, t) =>
           \/ Waits(r, t) \/ r.state[t] = "del"
           \/ r.status[t] # "ok" /\ r.owner[s.obj[t]] # t
  PROVE  Grant(s, r)
BY DEF Grant

LEMMA CallInv ==
  ASSUME NEW r, k' = r, Legal(r, {}, {}), mode' \in {"sched", "isr"}
  PROVE  Inv'
BY DEF Inv

LEMMA StayInv ==
  ASSUME Inv, NEW r, k' = r, Legal(r, {}, {}), UNCHANGED mode, r.cur = k.cur, r.rdy = k.rdy
  PROVE  Inv'
<1>1. Highest(r) = Highest(k)
  BY DEF Highest
<1> QED BY <1>1 DEF Inv

LEMMA RunningIs ==
  ASSUME Inv, mode = "task", k.cur # NoTask
  PROVE  k.cur \in Task /\ k.state[k.cur] = "rdy" /\ k.prio[k.cur] \in Prio /\ ~Waits(k, k.cur)
<1>1. k \in Kernel /\ Tcbs(k, {}) /\ Prios(k) /\ k.cur = Highest(k) /\ k.cur # NoTask
  BY DEF Inv, Legal
<1> QED BY <1>1, HighestIs DEF Waits

LEMMA PendTakeInv ==
  ASSUME Inv, NEW m \in Mutex, PendTake(m) PROVE Inv' /\ Grant(k, k')
<1> DEFINE t == k.cur
<1>1. k \in Kernel /\ Tcbs(k, {}) /\ Prios(k) /\ Groups(k, {}) /\ Held(k) /\ Callers(k)
  BY DEF Inv, Legal
<1>2. t \in Task /\ k.state[t] = "rdy" /\ ~Waits(k, t)
  BY RunningIs DEF PendTake, Inside, Running
<1>3. PICK r : r = Own(k, t, m)
  OBVIOUS
<1>4. k' = r /\ UNCHANGED mode /\ k.nest[m] = 0
  BY <1>3 DEF PendTake
<1>5. k.owner[m] = NoTask
  BY <1>1, <1>4 DEF Held
<1>6. Groups(k, {m})
  <2>1. \A x \in Task : Owned(k, {m}, x) = Owned(k, {}, x)
    BY <1>5, MutexAssumption DEF Owned
  <2> QED BY <1>1, <2>1 DEF Groups
<1>7. /\ r \in Kernel /\ SameTcbs(k, r) /\ Groups(r, {})
      /\ r.owner = [k.owner EXCEPT ![m] = t] /\ r.nest = [k.nest EXCEPT ![m] = 1]
      /\ \A x \in Task : x # t => r.grp[x] = k.grp[x]
  BY <1>1, <1>2, <1>3, <1>6, OwnIs
<1>8. Tcbs(r, {}) /\ Prios(r)
  BY <1>1, <1>7, SameTcbsLegal
<1>9. k.owner \in [Mutex -> Task \cup {NoTask}] /\ k.nest \in [Mutex -> 0 .. NestMax]
  BY <1>1 DEF Kernel
<1>10. /\ r.owner[m] = t /\ r.nest[m] = 1
       /\ \A n \in Mutex : n # m => r.owner[n] = k.owner[n] /\ r.nest[n] = k.nest[n]
  BY <1>7, <1>9
<1>11. Held(r)
  <2>1. ASSUME NEW x \in Task, Waits(r, x)
        PROVE  r.obj[x] \in Mutex /\ r.owner[r.obj[x]] \in Task /\ r.owner[r.obj[x]] # x
    <3>1. Waits(k, x) /\ r.obj[x] = k.obj[x]
      BY <1>7, <2>1 DEF SameTcbs, Waits
    <3>2. k.obj[x] \in Mutex /\ k.owner[k.obj[x]] \in Task /\ k.owner[k.obj[x]] # x
      BY <1>1, <3>1 DEF Held
    <3>3. k.obj[x] # m
      BY <1>5, <3>2, MutexAssumption
    <3> QED BY <1>10, <3>1, <3>2, <3>3
  <2>2. r.state = k.state
    BY <1>7 DEF SameTcbs
  <2>3. t # NoTask
    BY <1>2, MutexAssumption
  <2> HIDE DEF t
  <2>4. \A n \in Mutex : r.nest[n] = 0 <=> r.owner[n] = NoTask
    BY <1>1, <1>10, <2>3 DEF Held
  <2>5. \A n \in Mutex : r.owner[n] # NoTask => r.state[r.owner[n]] # "del"
    BY <1>1, <1>2, <1>10, <2>2 DEF Held
  <2> QED BY <2>1, <2>4, <2>5 DEF Held
<1>12. Callers(r)
  <2>1. ASSUME NEW x \in Task, Waits(r, x)
        PROVE  /\ x # t /\ Waits(k, x) /\ r.obj[x] = k.obj[x] /\ r.state[x] = k.state[x]
               /\ r.grp[x] = k.grp[x]
    BY <1>2, <1>7, <2>1 DEF SameTcbs, Waits
  <2> QED BY <1>1, <2>1 DEF Callers
<1>13. Legal(r, {}, {})
  BY <1>7, <1>8, <1>11, <1>12 DEF Legal
<1>14. Inv'
  BY <1>4, <1>7, <1>13, StayInv DEF SameTcbs
<1>15. Grant(k, r)
  BY <1>7, GrantNone DEF SameTcbs, Waits
<1> QED BY <1>4, <1>14, <1>15

(* PendNest and PostNested. *)
LEMMA NestInv ==
  ASSUME Inv, NEW m \in Mutex, NEW n \in 1 .. NestMax, k.nest[m] # 0, UNCHANGED mode,
         k' = [k EXCEPT !.nest[m] = n]
  PROVE  Inv' /\ Grant(k, k')
<1>1. k \in Kernel /\ Tcbs(k, {}) /\ Prios(k) /\ Groups(k, {}) /\ Held(k) /\ Callers(k)
  BY DEF Inv, Legal
<1>2. PICK r : r = [k EXCEPT !.nest[m] = n]
  OBVIOUS
<1>3. /\ SameTcbs(k, r) /\ r.grp = k.grp /\ r.owner = k.owner
      /\ r.nest = [k.nest EXCEPT ![m] = n]
  BY <1>1, <1>2 DEF Kernel, SameTcbs
<1>4. k.nest \in [Mutex -> 0 .. NestMax] /\ n \in 0 .. NestMax /\ n # 0
  BY <1>1, MutexAssumption DEF Kernel
<1>5. r.nest \in [Mutex -> 0 .. NestMax]
  BY <1>3, <1>4
<1>6. r \in Kernel
  BY <1>1, <1>2, <1>5 DEF Kernel
<1>7. Tcbs(r, {}) /\ Prios(r)
  BY <1>1, <1>3, SameTcbsLegal
<1>8. Groups(r, {}) /\ Callers(r)
  BY <1>1, <1>3 DEF Groups, Owned, Callers, SameTcbs, Waits
<1>9. Held(r)
  <2>1. \A h \in Mutex : r.nest[h] = 0 <=> k.nest[h] = 0
    BY <1>3, <1>4
  <2> QED BY <1>1, <1>3, <2>1 DEF Held, SameTcbs, Waits
<1>10. Legal(r, {}, {})
  BY <1>6, <1>7, <1>8, <1>9 DEF Legal
<1>11. k' = r
  BY <1>2
<1>12. Inv'
  BY <1>3, <1>10, <1>11, StayInv DEF SameTcbs
<1>13. Grant(k, r)
  BY <1>3, GrantNone DEF SameTcbs, Waits
<1> QED BY <1>11, <1>12, <1>13

LEMMA PendNestInv ==
  ASSUME Inv, NEW m \in Mutex, PendNest(m) PROVE Inv' /\ Grant(k, k')
<1>1. k \in Kernel /\ Held(k)
  BY DEF Inv, Legal
<1>2. k.nest[m] \in 0 .. NestMax /\ k.nest[m] < NestMax /\ NestMax \in Nat
  BY <1>1, MutexAssumption DEF Kernel, PendNest
<1>3. k.owner[m] # NoTask
  BY RunningIs, MutexAssumption DEF PendNest, Inside, Running
<1>4. k.nest[m] # 0
  BY <1>1, <1>3 DEF Held
<1>5. PICK n : n = k.nest[m] + 1
  OBVIOUS
<1>6. n \in 1 .. NestMax
  BY <1>2, <1>5
<1>7. k' = [k EXCEPT !.nest[m] = n] /\ UNCHANGED mode
  BY <1>5 DEF PendNest
<1> QED BY <1>4, <1>6, <1>7, NestInv

LEMMA PostNestedInv ==
  ASSUME Inv, NEW m \in Mutex, PostNested(m) PROVE Inv' /\ Grant(k, k')
<1>1. k \in Kernel
  BY DEF Inv, Legal
<1>2. k.nest[m] \in 0 .. NestMax /\ k.nest[m] > 1 /\ NestMax \in Nat
  BY <1>1, MutexAssumption DEF Kernel, PostNested
<1>3. PICK n : n = k.nest[m] - 1
  OBVIOUS
<1>4. n \in 1 .. NestMax /\ k.nest[m] # 0
  BY <1>2, <1>3
<1>5. k' = [k EXCEPT !.nest[m] = n] /\ UNCHANGED mode
  BY <1>3 DEF PostNested
<1> QED BY <1>4, <1>5, NestInv

(* A task leaves its ready list and begins to wait. *)
Waiting(s, t, m) ==
  PendInsert([RdyRemove(s, t) EXCEPT
    !.state[t] = IF t \in Timed THEN "pendTimeout" ELSE "pend",
    !.status[t] = "ok", !.obj[t] = m], t, m)

MayWait(s, t, m) ==
  /\ s.state[t] = "rdy" /\ t \in Waiter /\ s.owner[m] \in Task /\ s.owner[m] # t
  /\ s.grp[t] # <<>> => t \in Nester
  /\ \A n \in ToSet(s.grp[t]) : Rank[n] < Rank[m]

Began(s, t, m, r) ==
  /\ Waits(r, t) /\ r.obj = [s.obj EXCEPT ![t] = m]
  /\ r.prio = s.prio /\ r.base = s.base /\ r.owner = s.owner
  /\ \A x \in Task : x # t => r.state[x] = s.state[x]

LEMMA LegalWaiting ==
  ASSUME NEW s, Legal(s, {}, {}), NEW t \in Task, NEW m \in Mutex, MayWait(s, t, m)
  PROVE  Legal(Waiting(s, t, m), {}, {}) /\ Began(s, t, m, Waiting(s, t, m))
<1> USE DEF MayWait
<1>1. s \in Kernel /\ Tcbs(s, {}) /\ Prios(s) /\ Groups(s, {}) /\ Held(s) /\ Callers(s)
  BY DEF Legal
<1>2. PICK X : X = {}
  OBVIOUS
<1>3. PICK a : a = RdyRemove(s, t)
  OBVIOUS
<1>4. s.prio[t] \in Prio /\ t \notin X /\ Tcbs(s, X)
  BY <1>1, <1>2 DEF Prios
<1>5. a \in Kernel /\ Same(s, a) /\ a.prio = s.prio /\ a.wait = s.wait /\ Tcbs(a, X \cup {t})
  BY <1>1, <1>3, <1>4, RdyRemoveIs
<1>6. PICK v \in {"pend", "pendTimeout"} :
        v = (IF t \in Timed THEN "pendTimeout" ELSE "pend")
  OBVIOUS
<1>7. PICK b : b = [a EXCEPT !.state[t] = v, !.status[t] = "ok", !.obj[t] = m]
  OBVIOUS
<1>8. /\ b.state = [a.state EXCEPT ![t] = v] /\ b.obj = [a.obj EXCEPT ![t] = m]
      /\ b.status = [a.status EXCEPT ![t] = "ok"]
      /\ b.prio = a.prio /\ b.base = a.base /\ b.grp = a.grp /\ b.owner = a.owner
      /\ b.nest = a.nest /\ b.rdy = a.rdy /\ b.wait = a.wait
  BY <1>5, <1>7 DEF Kernel
<1>9. /\ a.state \in [Task -> {"rdy", "dly", "pend", "pendTimeout", "del"}]
      /\ a.status \in [Task -> {"ok", "abort", "timeout", "del"}]
      /\ a.obj \in [Task -> Mutex \cup {NoMutex}] /\ a.wait \in [Mutex -> Seq(Task)]
  BY <1>5 DEF Kernel
<1>10. /\ b.state \in [Task -> {"rdy", "dly", "pend", "pendTimeout", "del"}]
       /\ b.status \in [Task -> {"ok", "abort", "timeout", "del"}]
       /\ b.obj \in [Task -> Mutex \cup {NoMutex}]
  BY <1>8, <1>9
<1>11. b \in Kernel
  BY <1>5, <1>7, <1>10 DEF Kernel
<1>12. Tcbs(b, X \cup {t})
  <2>1. Unchanged(a, X \cup {t}, b)
    BY <1>8, <1>9 DEF Unchanged
  <2> QED BY <1>5, <1>8, <1>9, <2>1, OutChange
<1>13. b.state[t] = v /\ Waits(b, t) /\ b.obj[t] = m
  BY <1>8, <1>9 DEF Waits
<1>14. PICK r : r = PendInsert(b, t, m)
  OBVIOUS
<1>15. r \in Kernel /\ Same(b, r) /\ r.prio = b.prio /\ Tcbs(r, X)
  BY <1>4, <1>11, <1>12, <1>13, <1>14, PendInsertIs
<1>16. /\ r.state[t] = v /\ Waits(r, t) /\ r.obj[t] = m
       /\ r.prio = s.prio /\ r.base = s.base /\ r.grp = s.grp /\ r.owner = s.owner
       /\ r.nest = s.nest /\ r.obj = [s.obj EXCEPT ![t] = m]
  BY <1>5, <1>8, <1>13, <1>15 DEF Same, Waits
<1>17. ASSUME NEW x \in Task, x # t
       PROVE  /\ r.state[x] = s.state[x] /\ r.obj[x] = s.obj[x]
              /\ Waits(r, x) <=> Waits(s, x)
  BY <1>5, <1>8, <1>9, <1>15, <1>17 DEF Same, Waits
<1>18. Prios(r)
  <2>1. s.prio[t] \in Prio /\ s.base[t] \in Prio
    BY <1>1 DEF Prios
  <2>2. ASSUME NEW x \in Task, x # t, r.state[x] # "del"
        PROVE  s.prio[x] \in Prio /\ s.base[x] \in Prio
    BY <1>1, <1>17, <2>2 DEF Prios
  <2>3. r.prio = s.prio /\ r.base = s.base
    BY <1>16
  <2> QED BY <2>1, <2>2, <2>3 DEF Prios
<1>19. Groups(r, {})
  <2>1. r.grp = s.grp /\ r.owner = s.owner /\ Groups(s, {})
    BY <1>1, <1>16
  <2> QED BY <2>1 DEF Groups, Owned
<1>20. Held(r)
  <2>1. ASSUME NEW x \in Task, Waits(r, x)
        PROVE  r.obj[x] \in Mutex /\ r.owner[r.obj[x]] \in Task /\ r.owner[r.obj[x]] # x
    <3>1. CASE x = t
      BY <1>16, <3>1
    <3>2. CASE x # t
      BY <1>1, <1>16, <1>17, <2>1, <3>2 DEF Held
    <3> QED BY <3>1, <3>2
  <2>2. ASSUME NEW n \in Mutex, r.owner[n] # NoTask PROVE r.state[r.owner[n]] # "del"
    <3>1. s.owner[n] = r.owner[n] /\ s.owner[n] \in Task /\ s.state[s.owner[n]] # "del"
      BY <1>1, <1>16, <2>2 DEF Held, Kernel
    <3> QED BY <1>6, <1>16, <1>17, <3>1
  <2> QED BY <1>1, <1>16, <2>1, <2>2 DEF Held
<1>21. Callers(r)
  <2> SUFFICES ASSUME NEW x \in Task, Waits(r, x)
               PROVE  /\ x \in Waiter /\ (r.state[x] = "pendTimeout" => x \in Timed)
                      /\ r.grp[x] # <<>> => x \in Nester
                      /\ \A n \in ToSet(r.grp[x]) : Rank[n] < Rank[r.obj[x]]
    BY DEF Callers
  <2>1. CASE x = t
    BY <1>6, <1>16, <2>1
  <2>2. CASE x # t
    <3>1. Waits(s, x) /\ r.state[x] = s.state[x] /\ r.obj[x] = s.obj[x] /\ r.grp[x] = s.grp[x]
      BY <1>16, <1>17, <2>2
    <3> QED BY <1>1, <3>1 DEF Callers
  <2> QED BY <2>1, <2>2
<1>22. r = Waiting(s, t, m)
  BY <1>3, <1>6, <1>7, <1>14 DEF Waiting
<1>23. Legal(r, {}, {})
  BY <1>2, <1>15, <1>18, <1>19, <1>20, <1>21 DEF Legal
<1>24. Began(s, t, m, r)
  BY <1>16, <1>17 DEF Began
<1> QED BY <1>22, <1>23, <1>24

LEMMA PendWaitInv ==
  ASSUME Inv, NEW m \in Mutex, PendWait(m) PROVE Inv' /\ Grant(k, k')
<1> DEFINE t == k.cur
           o == k.owner[m]
<1>1. Legal(k, {}, {}) /\ k \in Kernel /\ Held(k)
  BY DEF Inv, Legal
<1>2. t \in Task /\ k.state[t] = "rdy" /\ k.prio[t] \in Prio /\ ~Waits(k, t)
  BY RunningIs DEF PendWait, Inside, Running
<1>3. /\ o # NoTask /\ o # t /\ t \in Waiter /\ (k.grp[t] # <<>> => t \in Nester)
      /\ k.grp[t] # <<>> => \A n \in ToSet(k.grp[t]) : Rank[n] < Rank[m]
  BY DEF PendWait
<1>4. o \in Task
  BY <1>1, <1>3 DEF Kernel
<1>5. PICK s : s = IF k.prio[o] > k.prio[t] THEN ChangePrio(k, o, k.prio[t]) ELSE k
  OBVIOUS
<1>6. k' = Waiting(s, t, m) /\ mode' = "sched"
  BY <1>5 DEF PendWait, Call, Waiting
<1>7. Legal(s, {}, {}) /\ Same(k, s)
  <2>1. CASE k.prio[o] > k.prio[t]
    <3>1. PICK X : X = {}
      OBVIOUS
    <3>2. Chain(k, X)
      BY <1>1, <3>1, HeldChain
    <3>3. Legal(k, X, {})
      BY <1>1, <3>1
    <3>4. s = ChangePrio(k, o, k.prio[t]) /\ o \notin X /\ NoTask \notin X
      BY <1>5, <2>1, <3>1
    <3>5. Legal(s, X, {}) /\ Same(k, s)
      BY <1>2, <1>4, <3>2, <3>3, <3>4, LegalChange
    <3> QED BY <3>1, <3>5
  <2>2. CASE ~(k.prio[o] > k.prio[t])
    BY <1>1, <1>5, <2>2 DEF Same
  <2> QED BY <2>1, <2>2
<1>8. \A n \in ToSet(k.grp[t]) : Rank[n] < Rank[m]
  <2>1. ToSet(<<>>) = {}
    BY DEF ToSet
  <2> QED BY <1>3, <2>1
<1>9. MayWait(s, t, m)
  BY <1>2, <1>3, <1>4, <1>7, <1>8 DEF Same, MayWait
<1>10. PICK r : r = Waiting(s, t, m)
  OBVIOUS
<1> HIDE DEF t, o
<1>11. Legal(r, {}, {}) /\ Began(s, t, m, r)
  BY <1>2, <1>7, <1>9, <1>10, LegalWaiting
<1>12. Inv'
  BY <1>6, <1>10, <1>11, CallInv
<1>13. Grant(k, r)
  <2>1. \A x \in Task : Waits(k, x) => Waits(r, x)
    BY <1>2, <1>7, <1>11 DEF Same, Began, Waits
  <2> QED BY <2>1, GrantNone
<1> QED BY <1>6, <1>10, <1>12, <1>13

LEMMA PostFreeInv ==
  ASSUME Inv, NEW m \in Mutex, PostFree(m) PROVE Inv' /\ Grant(k, k')
<1>1. Legal(k, {}, {}) /\ k \in Kernel /\ Tcbs(k, {}) /\ Prios(k) /\ Groups(k, {}) /\ Held(k)
  BY DEF Inv, Legal
<1>2. k.owner[m] \in Task /\ k.wait[m] = <<>> /\ UNCHANGED mode
  BY RunningIs DEF PostFree, PostLast, Running
<1>3. PICK X : X = {}
  OBVIOUS
<1>4. PICK a : a = Ungroup(k, m)
  OBVIOUS
<1>5. Legal(a, X, {m}) /\ SameTcbs(k, a) /\ a.owner = k.owner
  BY <1>1, <1>2, <1>3, <1>4, LegalUngroup, UngroupIs
<1>6. \A t \in Task : Waits(k, t) => k.obj[t] # m
  BY <1>1, <1>2, <1>3, NobodyWaits
<1>7. \A t \in Task : Waits(a, t) => a.obj[t] # m
  BY <1>5, <1>6 DEF SameTcbs, Waits
<1>8. PICK r : r = Disown(a, m)
  OBVIOUS
<1>9. Legal(r, X, {}) /\ SameTcbs(a, r)
  <2>1. a \in Kernel /\ Groups(a, {m})
    BY <1>5 DEF Legal
  <2> QED BY <1>5, <1>7, <1>8, <2>1, LegalDisown, DisownIs
<1>10. k' = r
  BY <1>4, <1>8 DEF PostFree
<1>11. SameTcbs(k, r)
  BY <1>5, <1>9 DEF SameTcbs
<1>12. Inv'
  BY <1>2, <1>3, <1>9, <1>10, <1>11, StayInv DEF SameTcbs
<1>13. Grant(k, r)
  BY <1>11, GrantNone DEF SameTcbs, Waits
<1> QED BY <1>10, <1>12, <1>13

(* What OSMutexPost does to the priority of its caller. *)
Lowered(s, t, r) ==
  /\ r.state = s.state /\ r.status = s.status /\ r.obj = s.obj /\ r.base = s.base
  /\ r.grp = s.grp /\ r.owner = s.owner /\ r.nest = s.nest /\ r.made = s.made
  /\ r.wait = s.wait /\ r.cur = s.cur
  /\ r.prio = IF s.prio[t] # s.base[t] /\ Restored(s, t) > s.prio[t]
              THEN [s.prio EXCEPT ![t] = Restored(s, t)] ELSE s.prio

LEMMA LegalPostLower ==
  ASSUME NEW s, NEW M, Legal(s, {}, M), NEW t \in Task, s.state[t] = "rdy"
  PROVE  Legal(PostLower(s, t), {}, M) /\ Lowered(s, t, PostLower(s, t))
<1>1. s \in Kernel /\ Tcbs(s, {}) /\ Prios(s) /\ Groups(s, M) /\ Held(s) /\ Callers(s)
  BY DEF Legal
<1>2. PICK r : r = PostLower(s, t)
  OBVIOUS
<1>3. CASE s.prio[t] # s.base[t] /\ Restored(s, t) > s.prio[t]
  <2>1. PICK p \in Prio : p = Restored(s, t)
    BY <1>1, RestoredIn
  <2>2. PICK X : X = {}
    OBVIOUS
  <2>3. PICK a : a = [RdyRemove(s, t) EXCEPT !.prio[t] = p]
    OBVIOUS
  <2>4. PICK b : b = RdyTail(a, t)
    OBVIOUS
  <2>5. s.prio[t] \in Prio /\ t \notin X
    BY <1>1, <2>2 DEF Prios
  <2>6. Placed(s, X, t, p, b)
    <3>1. RdyPlaced(a, t, b)
      BY <2>4 DEF RdyPlaced
    <3> QED BY <1>1, <2>2, <2>3, <2>5, <3>1, ChangeRdy
  <2>7. b.wait = s.wait
    <3>1. PICK a0 : a0 = RdyRemove(s, t)
      OBVIOUS
    <3>2. a0 \in Kernel /\ a0.wait = s.wait
      BY <1>1, <2>2, <2>5, <3>1, RdyRemoveIs
    <3>3. a.wait = a0.wait
      BY <2>3, <3>1, <3>2 DEF Kernel
    <3>4. b.wait = a.wait
      BY <2>3, <2>4, <3>1, <3>2 DEF RdyTail, Kernel
    <3> QED BY <3>2, <3>3, <3>4
  <2>8. r = [b EXCEPT !.prioCur = p]
    BY <1>2, <1>3, <2>1, <2>3, <2>4 DEF PostLower
  <2>9. b \in Kernel /\ Same(s, b) /\ Tcbs(b, X) /\ b.prio = [s.prio EXCEPT ![t] = p]
    BY <2>6 DEF Placed
  <2>10. /\ r.prio = b.prio /\ r.base = b.base /\ r.state = b.state /\ r.status = b.status
         /\ r.obj = b.obj /\ r.grp = b.grp /\ r.wait = b.wait /\ r.owner = b.owner
         /\ r.nest = b.nest /\ r.made = b.made /\ r.rdy = b.rdy /\ r.cur = b.cur
    BY <2>8, <2>9 DEF Kernel
  <2>11. r \in Kernel
    BY <2>8, <2>9 DEF Kernel
  <2>12. Tcbs(r, X)
    <3>1. Unchanged(b, X, r) /\ b.wait \in [Mutex -> Seq(Task)]
      BY <2>9, <2>10 DEF Unchanged, Kernel
    <3> QED BY <2>9, <2>10, <3>1, OutChange
  <2>13. Prios(r)
    <3>1. \A x \in Task : r.prio[x] = s.prio[x] \/ r.prio[x] \in Prio
      <4>1. s.prio \in [Task -> 0 .. IdlePrio + 1]
        BY <1>1 DEF Kernel
      <4> QED BY <2>9, <2>10, <4>1
    <3> QED BY <1>1, <2>9, <2>10, <3>1 DEF Prios, Same
  <2>14. Groups(r, M) /\ Held(r) /\ Callers(r)
    <3>1. Groups(b, M) /\ Held(b) /\ Callers(b)
      BY <1>1, <2>9, SameGroups
    <3>2. Groups(r, M)
      BY <2>10, <3>1 DEF Groups, Owned
    <3>3. Held(r)
      BY <2>10, <3>1 DEF Held, Waits
    <3>4. Callers(r)
      BY <2>10, <3>1 DEF Callers, Waits
    <3> QED BY <3>2, <3>3, <3>4
  <2>15. Legal(r, {}, M)
    BY <2>2, <2>11, <2>12, <2>13, <2>14 DEF Legal
  <2>16. Lowered(s, t, r)
    BY <1>3, <2>1, <2>7, <2>9, <2>10 DEF Lowered, Same
  <2> QED BY <1>2, <2>15, <2>16
<1>4. CASE ~(s.prio[t] # s.base[t] /\ Restored(s, t) > s.prio[t])
  <2>1. r = s
    BY <1>2, <1>4 DEF PostLower
  <2>2. Lowered(s, t, r)
    BY <1>4, <2>1 DEF Lowered
  <2> QED BY <1>2, <2>1, <2>2
<1> QED BY <1>3, <1>4

LEMMA PostHandInv ==
  ASSUME Inv, NEW m \in Mutex, PostHand(m) PROVE Inv' /\ Grant(k, k')
<1>1. Legal(k, {}, {}) /\ k \in Kernel /\ Tcbs(k, {}) /\ Prios(k) /\ Groups(k, {}) /\ Held(k)
  BY DEF Inv, Legal
<1>2. PICK t : t = k.cur
  OBVIOUS
<1>3. /\ k.owner[m] = t /\ t \in Task /\ k.state[t] = "rdy" /\ k.wait[m] # <<>>
      /\ ~Waits(k, t)
  BY <1>2, RunningIs DEF PostHand, PostLast, Running
<1>4. PICK h : h = Head(k.wait[m])
  OBVIOUS
<1>5. /\ h \in Task /\ Waits(k, h) /\ k.obj[h] = m
      /\ \A x \in ToSet(k.wait[m]) : k.prio[h] <= k.prio[x]
  BY <1>1, <1>3, <1>4, HeadWaits
<1>6. PICK a : a = Ungroup(k, m)
  OBVIOUS
<1>7. Legal(a, {}, {m}) /\ SameTcbs(k, a) /\ a.owner = k.owner
  BY <1>1, <1>3, <1>6, LegalUngroup, UngroupIs
<1>8. PICK s : s = PostLower(a, t)
  OBVIOUS
<1>9. Legal(s, {}, {m}) /\ Lowered(a, t, s)
  <2>1. a.state[t] = "rdy"
    BY <1>3, <1>7 DEF SameTcbs
  <2> QED BY <1>3, <1>7, <1>8, <2>1, LegalPostLower
<1>10. s.state = k.state /\ s.obj = k.obj /\ s.owner = k.owner
  BY <1>7, <1>9 DEF SameTcbs, Lowered
<1>11. PICK r : r = Hand(s, h, m)
  OBVIOUS
<1>12. Waits(s, h) /\ s.obj[h] = m
  BY <1>5, <1>10 DEF Waits
<1>13. Legal(r, {}, {}) /\ Handed(s, h, m, r)
  BY <1>5, <1>9, <1>11, <1>12, LegalHand
<1>14. k' = r /\ mode' = "sched"
  BY <1>2, <1>4, <1>6, <1>8, <1>11 DEF PostHand, Call, Hand
<1>15. Inv'
  BY <1>13, <1>14, CallInv
<1>16. Grant(k, r)
  <2>1. /\ k.state \in [Task -> {"rdy", "dly", "pend", "pendTimeout", "del"}]
        /\ s.status \in [Task -> {"ok", "abort", "timeout", "del"}]
        /\ k.owner \in [Mutex -> Task \cup {NoTask}]
    BY <1>1, <1>9 DEF Kernel, Legal
  <2>2. \A x \in Task : x # h /\ Waits(k, x) => Waits(r, x)
    BY <1>10, <1>13, <2>1 DEF Waits, Handed
  <2>3. r.owner[m] = h /\ r.status[h] = "ok"
    BY <1>5, <1>10, <1>13, <2>1 DEF Handed
  <2> QED BY <1>5, <2>2, <2>3 DEF Grant
<1> QED BY <1>14, <1>15, <1>16

(* One waiter less. *)
LEMMA WaitLess ==
  ASSUME NEW s, NEW r, NEW X, Tcbs(s, X), Tcbs(r, X), NEW m \in Mutex, NEW t,
         t \in WaitSet(s, X, m), WaitSet(r, X, m) = WaitSet(s, X, m) \ {t}
  PROVE  Len(s.wait[m]) \in Nat /\ Len(r.wait[m]) = Len(s.wait[m]) - 1
<1>1. Lists(s.wait[m], Task, WaitSet(s, X, m)) /\ Lists(r.wait[m], Task, WaitSet(r, X, m))
  BY DEF Tcbs, WaitList
<1>2. PICK S : S = WaitSet(s, X, m)
  OBVIOUS
<1>3. IsFiniteSet(S) /\ Cardinality(S) = Len(s.wait[m]) /\ Cardinality(S \ {t}) = Len(r.wait[m])
  BY <1>1, <1>2, ListLength
<1>4. Cardinality(S \ {t}) = Cardinality(S) - 1 /\ Cardinality(S) \in Nat
  BY <1>2, <1>3, FS_RemoveElement, FS_CardinalityType
<1> QED BY <1>3, <1>4

(* The wait of t ends, and nothing else but some priorities changes. *)
Stopped(s, t, st, r) ==
  /\ r.state = [s.state EXCEPT ![t] = "rdy"] /\ r.status = [s.status EXCEPT ![t] = st]
  /\ r.obj = [s.obj EXCEPT ![t] = NoMutex] /\ r.base = s.base
  /\ r.grp = s.grp /\ r.owner = s.owner

LEMMA LegalStopped ==
  ASSUME NEW s, NEW M, Legal(s, {}, M), NEW t \in Task, Waits(s, t),
         NEW st \in {"ok", "abort", "timeout", "del"}, NEW p
  PROVE  LET o == s.owner[s.obj[t]]
             r == Disinherit(Wake(s, t, st), o, p)
         IN  Legal(r, {}, M) /\ Stopped(s, t, st, r)
<1>1. s \in Kernel /\ Held(s)
  BY DEF Legal
<1>2. PICK o : o = s.owner[s.obj[t]]
  OBVIOUS
<1>3. o \in Task
  BY <1>1, <1>2 DEF Held
<1>4. PICK a : a = Wake(s, t, st)
  OBVIOUS
<1>5. PICK X : X = {}
  OBVIOUS
<1>6. Legal(a, X, M) /\ Ended(s, t, st, a)
  BY <1>4, <1>5, LegalWake
<1>7. Chain(a, X)
  BY <1>5, <1>6, HeldChain DEF Legal
<1>8. PICK r : r = Disinherit(a, o, p)
  OBVIOUS
<1>9. Legal(r, X, M) /\ Same(a, r)
  BY <1>3, <1>5, <1>6, <1>7, <1>8, LegalDisinherit
<1>10. Stopped(s, t, st, r)
  BY <1>6, <1>9 DEF Ended, Same, Stopped
<1> QED BY <1>2, <1>4, <1>5, <1>8, <1>9, <1>10

(* Who waits where after that. *)
LEMMA StoppedWaits ==
  ASSUME NEW s \in Kernel, NEW t \in Task, NEW st, NEW r, Stopped(s, t, st, r)
  PROVE  /\ ~Waits(r, t) /\ r.state[t] = "rdy" /\ r.status[t] = st
         /\ \A x \in Task : x # t => /\ r.state[x] = s.state[x] /\ r.obj[x] = s.obj[x]
                                     /\ r.status[x] = s.status[x]
                                     /\ (Waits(r, x) <=> Waits(s, x))
<1>1. /\ s.state \in [Task -> {"rdy", "dly", "pend", "pendTimeout", "del"}]
      /\ s.status \in [Task -> {"ok", "abort", "timeout", "del"}]
      /\ s.obj \in [Task -> Mutex \cup {NoMutex}]
  BY DEF Kernel
<1> QED BY <1>1 DEF Stopped, Waits

LEMMA AbortOneIs ==
  ASSUME NEW s, Legal(s, {}, {}), NEW m \in Mutex, s.wait[m] # <<>>
  PROVE  LET t == Head(s.wait[m])
             r == AbortOne(s, m)
         IN  /\ t \in Task /\ Waits(s, t) /\ s.obj[t] = m
             /\ Legal(r, {}, {}) /\ Stopped(s, t, "abort", r)
             /\ Len(s.wait[m]) \in Nat /\ Len(r.wait[m]) = Len(s.wait[m]) - 1
<1>1. s \in Kernel /\ Tcbs(s, {})
  BY DEF Legal
<1>2. PICK t : t = Head(s.wait[m])
  OBVIOUS
<1>3. t \in Task /\ Waits(s, t) /\ s.obj[t] = m
  BY <1>1, <1>2, HeadWaits
<1>4. PICK r : r = AbortOne(s, m)
  OBVIOUS
<1>5. r = Disinherit(Wake(s, t, "abort"), s.owner[s.obj[t]], s.prio[t])
  BY <1>2, <1>3, <1>4 DEF AbortOne
<1>6. Legal(r, {}, {}) /\ Stopped(s, t, "abort", r)
  BY <1>3, <1>5, LegalStopped
<1>7. PICK X : X = {}
  OBVIOUS
<1>8. t \in WaitSet(s, X, m) /\ WaitSet(r, X, m) = WaitSet(s, X, m) \ {t}
  <2>1. \A x \in Task : (Waits(r, x) /\ r.obj[x] = m) <=> (Waits(s, x) /\ s.obj[x] = m /\ x # t)
    BY <1>1, <1>3, <1>6, StoppedWaits
  <2> QED BY <1>3, <1>7, <2>1 DEF WaitSet
<1>9. Tcbs(s, X) /\ Tcbs(r, X)
  BY <1>1, <1>6, <1>7 DEF Legal
<1>10. Len(s.wait[m]) \in Nat /\ Len(r.wait[m]) = Len(s.wait[m]) - 1
  BY <1>8, <1>9, WaitLess
<1> QED BY <1>2, <1>3, <1>4, <1>6, <1>10

(* What n aborts make of s. *)
Aborts(s, m, n) ==
  {r \in Kernel :
     /\ Legal(r, {}, {}) /\ r.owner = s.owner /\ Len(r.wait[m]) = Len(s.wait[m]) - n
     /\ \A x \in Task : Waits(s, x) =>
          \/ Waits(r, x)
          \/ s.obj[x] = m /\ r.state[x] = "rdy" /\ r.status[x] = "abort"
     /\ \A x \in Task : Waits(r, x) => Waits(s, x) /\ r.obj[x] = s.obj[x]}

LEMMA AbortsStep ==
  ASSUME NEW s, Legal(s, {}, {}), NEW m \in Mutex, NEW n \in 1 .. Len(s.wait[m]),
         NEW r \in Aborts(s, m, n - 1)
  PROVE  AbortOne(r, m) \in Aborts(s, m, n) /\ r.wait[m] # <<>> /\ Legal(r, {}, {})
<1>1. s \in Kernel
  BY DEF Legal
<1>2. /\ r \in Kernel /\ Legal(r, {}, {}) /\ r.owner = s.owner
      /\ Len(r.wait[m]) = Len(s.wait[m]) - (n - 1)
      /\ \A x \in Task : Waits(s, x) =>
           \/ Waits(r, x)
           \/ s.obj[x] = m /\ r.state[x] = "rdy" /\ r.status[x] = "abort"
      /\ \A x \in Task : Waits(r, x) => Waits(s, x) /\ r.obj[x] = s.obj[x]
  BY DEF Aborts
<1>3. Len(s.wait[m]) \in Nat /\ r.wait[m] \in Seq(Task)
  BY <1>1, <1>2 DEF Kernel
<1>4. r.wait[m] # <<>>
  <2>1. Len(r.wait[m]) # 0
    BY <1>2, <1>3
  <2> QED BY <2>1
<1>5. PICK t : t = Head(r.wait[m])
  OBVIOUS
<1>6. PICK v : v = AbortOne(r, m)
  OBVIOUS
<1>7. /\ t \in Task /\ Waits(r, t) /\ r.obj[t] = m
      /\ Legal(v, {}, {}) /\ Stopped(r, t, "abort", v)
      /\ Len(r.wait[m]) \in Nat /\ Len(v.wait[m]) = Len(r.wait[m]) - 1
  BY <1>2, <1>4, <1>5, <1>6, AbortOneIs
<1>8. /\ ~Waits(v, t) /\ v.state[t] = "rdy" /\ v.status[t] = "abort"
      /\ \A x \in Task : x # t => /\ v.state[x] = r.state[x] /\ v.obj[x] = r.obj[x]
                                  /\ v.status[x] = r.status[x]
                                  /\ (Waits(v, x) <=> Waits(r, x))
  BY <1>2, <1>7, StoppedWaits
<1>9. v \in Kernel /\ v.owner = s.owner
  BY <1>2, <1>7 DEF Legal, Stopped
<1>10. Len(v.wait[m]) = Len(s.wait[m]) - n
  BY <1>2, <1>3, <1>7
<1>11. \A x \in Task : Waits(s, x) =>
         \/ Waits(v, x)
         \/ s.obj[x] = m /\ v.state[x] = "rdy" /\ v.status[x] = "abort"
  BY <1>2, <1>7, <1>8
<1>12. \A x \in Task : Waits(v, x) => Waits(s, x) /\ v.obj[x] = s.obj[x]
  BY <1>2, <1>8
<1>13. v \in Aborts(s, m, n)
  BY <1>7, <1>9, <1>10, <1>11, <1>12 DEF Aborts
<1> QED BY <1>2, <1>4, <1>6, <1>13

LEMMA PendAbortInv ==
  ASSUME Inv, NEW m \in Mutex, PendAbort(m) PROVE Inv' /\ Grant(k, k')
<1>1. Legal(k, {}, {}) /\ k \in Kernel /\ Held(k)
  BY DEF Inv, Legal
<1>2. PICK n \in {1, Len(k.wait[m])} : Call(FoldLeft(AbortOne, k, [i \in 1 .. n |-> m]))
  BY DEF PendAbort
<1>3. n \in 1 .. Len(k.wait[m]) /\ Len(k.wait[m]) \in Nat
  <2>1. k.wait[m] \in Seq(Task) /\ k.wait[m] # <<>>
    BY <1>1 DEF Kernel, PendAbort
  <2>2. Len(k.wait[m]) \in Nat \ {0}
    BY <2>1
  <2> QED BY <2>2
<1>4. PICK f : /\ IsFold(f, "abort", 0, k, Times(m, n), n)
               /\ FoldLeft(AbortOne, k, Times(m, n)) = f[1 .. n]
  <2>1. n \in Nat
    BY <1>3
  <2> QED BY <2>1, AbortFold
<1> DEFINE G == [i \in 0 .. n |-> Aborts(k, m, i)]
           l == Times(m, n)
<1>5. k \in G[0]
  <2>1. k \in Aborts(k, m, 0)
    BY <1>1, <1>3 DEF Aborts
  <2> QED BY <1>3, <2>1
<1>6. ASSUME NEW i \in 1 .. n, NEW r \in G[i - 1] PROVE Combine("abort", 0, r, l[i]) \in G[i]
  <2>1. r \in Aborts(k, m, i - 1) /\ i \in 1 .. Len(k.wait[m])
    BY <1>3
  <2>2. Combine("abort", 0, r, l[i]) = AbortOne(r, m)
    BY DEF Combine, Times
  <2>3. AbortOne(r, m) \in Aborts(k, m, i)
    BY <1>1, <2>1, AbortsStep
  <2> HIDE DEF l
  <2> QED BY <2>2, <2>3
<1>7. f[1 .. n] \in G[n]
  <2>1. n \in Nat
    BY <1>3
  <2>2. IsFold(f, "abort", 0, k, l, n)
    BY <1>4
  <2> HIDE DEF G, l
  <2> QED BY <1>5, <1>6, <2>1, <2>2, FoldIn
<1>8. PICK r : r = f[1 .. n]
  OBVIOUS
<1>9. r \in Aborts(k, m, n)
  BY <1>3, <1>7, <1>8
<1>10. k' = r /\ mode' = "sched"
  BY <1>2, <1>4, <1>8 DEF Call, Times
<1>11. Inv'
  BY <1>9, <1>10, CallInv DEF Aborts
<1>12. Grant(k, r)
  <2>1. ASSUME NEW x \in Task, Waits(k, x), ~Waits(r, x)
        PROVE  r.status[x] # "ok" /\ r.owner[k.obj[x]] # x
    BY <1>1, <1>9, <2>1 DEF Aborts, Held
  <2> QED BY <2>1, GrantNone
<1> QED BY <1>10, <1>11, <1>12

(* Mutexes that exist. *)
LEMMA LegalMade ==
  ASSUME NEW s, NEW X, NEW M, Legal(s, X, M), NEW S, S \subseteq Mutex
  PROVE  LET r == [s EXCEPT !.made = S]
         IN  Legal(r, X, M) /\ SameTcbs(s, r) /\ r.owner = s.owner /\ r.grp = s.grp
<1>1. s \in Kernel /\ Tcbs(s, X) /\ Prios(s) /\ Groups(s, M) /\ Held(s) /\ Callers(s)
  BY DEF Legal
<1>2. PICK r : r = [s EXCEPT !.made = S]
  OBVIOUS
<1>3. r \in Kernel /\ SameTcbs(s, r) /\ r.owner = s.owner /\ r.grp = s.grp /\ r.nest = s.nest
  BY <1>1, <1>2 DEF Kernel, SameTcbs
<1>4. Tcbs(r, X) /\ Prios(r)
  BY <1>1, <1>3, SameTcbsLegal
<1>5. Groups(r, M)
  BY <1>1, <1>3 DEF Groups, Owned
<1>6. Held(r)
  BY <1>1, <1>3 DEF Held, SameTcbs, Waits
<1>7. Callers(r)
  BY <1>1, <1>3 DEF Callers, SameTcbs, Waits
<1>8. Legal(r, X, M)
  BY <1>3, <1>4, <1>5, <1>6, <1>7 DEF Legal
<1> QED BY <1>2, <1>3, <1>8

LEMMA MutexCreateInv ==
  ASSUME Inv, NEW m \in Mutex, MutexCreate(m) PROVE Inv' /\ Grant(k, k')
<1>1. Legal(k, {}, {}) /\ k \in Kernel
  BY DEF Inv, Legal
<1>2. PICK S : S = k.made \cup {m}
  OBVIOUS
<1>3. S \subseteq Mutex
  BY <1>1, <1>2 DEF Kernel
<1>4. PICK r : r = [k EXCEPT !.made = S]
  OBVIOUS
<1>5. Legal(r, {}, {}) /\ SameTcbs(k, r)
  BY <1>1, <1>3, <1>4, LegalMade
<1>6. k' = r /\ UNCHANGED mode
  BY <1>2, <1>4 DEF MutexCreate
<1>7. Inv'
  BY <1>5, <1>6, StayInv DEF SameTcbs
<1>8. Grant(k, r)
  BY <1>5, GrantNone DEF SameTcbs, Waits
<1> QED BY <1>6, <1>7, <1>8

(* What the end of the waits of the first n tasks of q, for m, makes of s.    *)
Dels(s, m, q, n) ==
  {r \in Kernel :
     /\ Legal(r, {}, {}) /\ r.owner = s.owner /\ r.grp = s.grp /\ r.prio = s.prio
     /\ r.base = s.base /\ (n = 0 => r = s)
     /\ \A x \in Task :
          Waits(r, x) <=> Waits(s, x) /\ \A j \in 1 .. Len(q) : j <= n => q[j] # x
     /\ \A x \in Task : Waits(r, x) => r.obj[x] = s.obj[x]
     /\ \A x \in Task : Waits(s, x) /\ ~Waits(r, x) =>
          s.obj[x] = m /\ r.state[x] = "rdy" /\ r.status[x] = "del"
     /\ \A x \in Task : r.state[x] # "del" => s.state[x] # "del"}

LEMMA DelsStep ==
  ASSUME NEW s, Legal(s, {}, {}), NEW m \in Mutex, NEW q, q = s.wait[m],
         NEW n \in 1 .. Len(q), NEW r \in Dels(s, m, q, n - 1)
  PROVE  DelOne(r, q[n]) \in Dels(s, m, q, n)
<1>1. s \in Kernel /\ Tcbs(s, {})
  BY DEF Legal
<1>2. /\ r \in Kernel /\ Legal(r, {}, {}) /\ r.owner = s.owner /\ r.grp = s.grp
      /\ r.prio = s.prio /\ r.base = s.base
      /\ \A x \in Task :
           Waits(r, x) <=> Waits(s, x) /\ \A j \in 1 .. Len(q) : j <= n - 1 => q[j] # x
      /\ \A x \in Task : Waits(r, x) => r.obj[x] = s.obj[x]
      /\ \A x \in Task : Waits(s, x) /\ ~Waits(r, x) =>
           s.obj[x] = m /\ r.state[x] = "rdy" /\ r.status[x] = "del"
      /\ \A x \in Task : r.state[x] # "del" => s.state[x] # "del"
  BY DEF Dels
<1>3. PICK X : X = {}
  OBVIOUS
<1>4. Lists(q, Task, WaitSet(s, X, m))
  BY <1>1, <1>3 DEF Tcbs, WaitList
<1>40. PICK S : S = WaitSet(s, X, m)
  OBVIOUS
<1>41. Lists(q, Task, S)
  BY <1>4, <1>40
<1>42. /\ Len(q) \in Nat
       /\ \A i, j \in 1 .. Len(q) : q[i] = q[j] => i = j
       /\ \A i \in 1 .. Len(q) : q[i] \in S
  BY <1>41, ListIs
<1>5. /\ Len(q) \in Nat
      /\ \A i, j \in 1 .. Len(q) : q[i] = q[j] => i = j
      /\ \A i \in 1 .. Len(q) : q[i] \in WaitSet(s, X, m)
  BY <1>40, <1>42
<1>6. PICK t : t = q[n]
  OBVIOUS
<1>7. t \in Task /\ Waits(s, t) /\ s.obj[t] = m
  BY <1>5, <1>6 DEF WaitSet
<1>8. Waits(r, t)
  BY <1>2, <1>5, <1>6, <1>7
<1>9. PICK v : v = DelOne(r, t)
  OBVIOUS
<1>10. Legal(v, X, {}) /\ Ended(r, t, "del", v)
  BY <1>2, <1>3, <1>7, <1>8, <1>9, LegalWake DEF DelOne
<1>11. /\ ~Waits(v, t) /\ v.state[t] = "rdy" /\ v.status[t] = "del"
       /\ \A x \in Task : x # t => /\ v.state[x] = r.state[x] /\ v.obj[x] = r.obj[x]
                                   /\ v.status[x] = r.status[x]
                                   /\ (Waits(v, x) <=> Waits(r, x))
  BY <1>2, <1>7, <1>10, EndedWaits
<1>12. /\ v \in Kernel /\ v.owner = s.owner /\ v.grp = s.grp /\ v.prio = s.prio
       /\ v.base = s.base /\ n # 0
  BY <1>2, <1>10 DEF Ended, Legal
<1>13. ASSUME NEW x \in Task
       PROVE  Waits(v, x) <=> Waits(s, x) /\ \A j \in 1 .. Len(q) : j <= n => q[j] # x
  <2>1. CASE x = t
    <3>1. n \in 1 .. Len(q) /\ n <= n
      BY <1>5
    <3> QED BY <1>6, <1>11, <2>1, <3>1
  <2>2. CASE x # t
    <3>1. \A j \in 1 .. Len(q) : j <= n => j <= n - 1 \/ q[j] = t
      BY <1>5, <1>6
    <3>2. \A j \in 1 .. Len(q) : j <= n - 1 => j <= n
      BY <1>5
    <3> QED BY <1>2, <1>11, <2>2, <3>1, <3>2
  <2> QED BY <2>1, <2>2
<1>14. \A x \in Task : Waits(v, x) => v.obj[x] = s.obj[x]
  BY <1>2, <1>11
<1>15. \A x \in Task : Waits(s, x) /\ ~Waits(v, x) =>
         s.obj[x] = m /\ v.state[x] = "rdy" /\ v.status[x] = "del"
  BY <1>2, <1>7, <1>11
<1>16. \A x \in Task : v.state[x] # "del" => s.state[x] # "del"
  BY <1>2, <1>7, <1>11 DEF Waits
<1>17. v \in Dels(s, m, q, n)
  BY <1>3, <1>10, <1>12, <1>13, <1>14, <1>15, <1>16 DEF Dels
<1> QED BY <1>6, <1>9, <1>17

LEMMA DelsAll ==
  ASSUME NEW s, Legal(s, {}, {}), NEW m \in Mutex
  PROVE  LET q == s.wait[m]
             r == FoldLeft(DelOne, s, q)
         IN  /\ r \in Dels(s, m, q, Len(q)) /\ (q = <<>> => r = s)
             /\ \A x \in Task : Waits(r, x) <=> Waits(s, x) /\ s.obj[x] # m
<1>1. s \in Kernel /\ Tcbs(s, {})
  BY DEF Legal
<1>2. PICK q : q = s.wait[m]
  OBVIOUS
<1>3. PICK X : X = {}
  OBVIOUS
<1>4. Lists(q, Task, WaitSet(s, X, m))
  BY <1>1, <1>2, <1>3 DEF Tcbs, WaitList
<1>5. /\ Len(q) \in Nat /\ DOMAIN q = 1 .. Len(q) /\ q \in Seq(Task)
      /\ \A x \in WaitSet(s, X, m) : \E i \in 1 .. Len(q) : q[i] = x
      /\ \A i \in 1 .. Len(q) : q[i] \in WaitSet(s, X, m)
  BY <1>4, ListIs
<1>6. PICK n \in Nat : n = Len(q)
  BY <1>5
<1> DEFINE G == [i \in 0 .. n |-> Dels(s, m, q, i)]
<1>7. PICK f : IsFold(f, "del", 0, s, q, n) /\ FoldLeft(DelOne, s, q) = f[1 .. n]
  BY <1>5, <1>6, DelFold
<1>8. s \in G[0]
  <2>1. \A j \in 1 .. Len(q) : ~(j <= 0)
    BY <1>5
  <2>2. s \in Dels(s, m, q, 0)
    BY <1>1, <2>1 DEF Dels
  <2> QED BY <2>2
<1>9. ASSUME NEW i \in 1 .. n, NEW r \in G[i - 1] PROVE Combine("del", 0, r, q[i]) \in G[i]
  <2>1. r \in Dels(s, m, q, i - 1) /\ i \in 1 .. Len(q)
    BY <1>6
  <2>2. Combine("del", 0, r, q[i]) = DelOne(r, q[i])
    BY DEF Combine
  <2>3. DelOne(r, q[i]) \in Dels(s, m, q, i)
    BY <1>2, <2>1, DelsStep
  <2> QED BY <2>2, <2>3
<1>10. f[1 .. n] \in G[n]
  <2> HIDE DEF G
  <2> QED BY <1>7, <1>8, <1>9, FoldIn
<1>11. PICK r : r = FoldLeft(DelOne, s, q)
  OBVIOUS
<1>12. r \in Dels(s, m, q, n)
  BY <1>7, <1>10, <1>11
<1>13. q = <<>> => r = s
  <2>1. q = <<>> => n = 0
    BY <1>6
  <2> QED BY <1>12, <2>1 DEF Dels
<1>14. ASSUME NEW x \in Task PROVE Waits(r, x) <=> Waits(s, x) /\ s.obj[x] # m
  <2>1. Waits(r, x) <=> Waits(s, x) /\ \A j \in 1 .. Len(q) : j <= n => q[j] # x
    BY <1>12 DEF Dels
  <2>2. x \in WaitSet(s, X, m) <=> Waits(s, x) /\ s.obj[x] = m
    BY <1>3 DEF WaitSet
  <2>3. \A j \in 1 .. Len(q) : j <= n
    BY <1>6
  <2> QED BY <1>5, <2>1, <2>2, <2>3
<1> QED BY <1>2, <1>6, <1>11, <1>12, <1>13, <1>14

(* The mutex leaves its owner's group, if it has one. *)
Apart(s, m) == IF s.owner[m] = NoTask THEN s ELSE Ungroup(s, m)

LEMMA LegalApart ==
  ASSUME NEW s, Legal(s, {}, {}), NEW m \in Mutex
  PROVE  Legal(Apart(s, m), {}, {m}) /\ SameTcbs(s, Apart(s, m)) /\ Apart(s, m).owner = s.owner
<1>1. s \in Kernel /\ Tcbs(s, {}) /\ Prios(s) /\ Groups(s, {}) /\ Held(s) /\ Callers(s)
  BY DEF Legal
<1>2. CASE s.owner[m] = NoTask
  <2>1. \A x \in Task : Owned(s, {m}, x) = Owned(s, {}, x)
    BY <1>2, MutexAssumption DEF Owned
  <2>2. Groups(s, {m})
    BY <1>1, <2>1 DEF Groups
  <2>3. Legal(s, {}, {m})
    BY <1>1, <2>2 DEF Legal
  <2> QED BY <1>2, <2>3 DEF Apart, SameTcbs
<1>3. CASE s.owner[m] # NoTask
  <2>1. s.owner[m] \in Task
    BY <1>1, <1>3 DEF Kernel
  <2>2. PICK X : X = {}
    OBVIOUS
  <2>3. Legal(Ungroup(s, m), X, {m})
    BY <2>1, <2>2, LegalUngroup
  <2>4. SameTcbs(s, Ungroup(s, m)) /\ Ungroup(s, m).owner = s.owner
    BY <1>1, <2>1, UngroupIs
  <2> QED BY <1>3, <2>2, <2>3, <2>4 DEF Apart
<1> QED BY <1>2, <1>3

LEMMA LegalGone ==
  ASSUME NEW s, NEW m \in Mutex, Legal(s, {}, {m}),
         \A t \in Task : Waits(s, t) => s.obj[t] # m
  PROVE  LET r == [Disown(s, m) EXCEPT !.made = @ \ {m}]
         IN  Legal(r, {}, {}) /\ SameTcbs(s, r) /\ r.owner = [s.owner EXCEPT ![m] = NoTask]
<1>1. s \in Kernel /\ Groups(s, {m})
  BY DEF Legal
<1>2. PICK X : X = {}
  OBVIOUS
<1>3. PICK a : a = Disown(s, m)
  OBVIOUS
<1>4. Legal(a, X, {}) /\ SameTcbs(s, a) /\ a.owner = [s.owner EXCEPT ![m] = NoTask]
  BY <1>1, <1>2, <1>3, LegalDisown, DisownIs
<1>5. PICK S : S = a.made \ {m}
  OBVIOUS
<1>6. S \subseteq Mutex
  BY <1>4, <1>5 DEF Legal, Kernel
<1>7. PICK r : r = [a EXCEPT !.made = S]
  OBVIOUS
<1>8. Legal(r, X, {}) /\ SameTcbs(a, r) /\ r.owner = a.owner
  BY <1>4, <1>6, <1>7, LegalMade
<1>9. SameTcbs(s, r)
  BY <1>4, <1>8 DEF SameTcbs
<1>10. r = [Disown(s, m) EXCEPT !.made = @ \ {m}]
  BY <1>3, <1>5, <1>7
<1> QED BY <1>2, <1>4, <1>8, <1>9, <1>10

(* The priority of the owner of a deleted mutex. *)
Relieved(s, m, a) ==
  IF s.owner[m] = NoTask \/ s.prio[s.owner[m]] = s.base[s.owner[m]] THEN a
  ELSE ChangePrio(a, s.owner[m], Restored(a, s.owner[m]))

LEMMA MutexDelIs ==
  ASSUME NEW m, MutexDel(m)
  PROVE  LET w == FoldLeft(DelOne, k, k.wait[m])
             a == IF k.owner[m] = NoTask THEN w ELSE Ungroup(w, m)
             Gone(r) == [Disown(r, m) EXCEPT !.made = @ \ {m}]
         IN  \/ k' = Gone(Relieved(k, m, a)) /\ mode' = "sched"
             \/ k.wait[m] = <<>> /\ UNCHANGED mode /\ k' = Gone(a)
BY DEF MutexDel, Call, Relieved

LEMMA MutexDelInv ==
  ASSUME Inv, NEW m \in Mutex, MutexDel(m) PROVE Inv' /\ Grant(k, k')
<1>1. Legal(k, {}, {}) /\ k \in Kernel /\ Held(k)
  BY DEF Inv, Legal
<1>2. PICK o : o = k.owner[m]
  OBVIOUS
<1>3. o \in Task \cup {NoTask}
  BY <1>1, <1>2 DEF Kernel
<1>4. PICK w : w = FoldLeft(DelOne, k, k.wait[m])
  OBVIOUS
<1>5. PICK q : q = k.wait[m]
  OBVIOUS
<1>6. /\ w \in Dels(k, m, q, Len(q)) /\ (q = <<>> => w = k)
      /\ \A x \in Task : Waits(w, x) <=> Waits(k, x) /\ k.obj[x] # m
  BY <1>1, <1>4, <1>5, DelsAll
<1>7. /\ Legal(w, {}, {}) /\ w.owner = k.owner
      /\ \A x \in Task : Waits(w, x) => w.obj[x] = k.obj[x]
      /\ \A x \in Task : Waits(k, x) /\ ~Waits(w, x) =>
           k.obj[x] = m /\ w.state[x] = "rdy" /\ w.status[x] = "del"
  BY <1>6 DEF Dels
<1>8. PICK a : a = Apart(w, m)
  OBVIOUS
<1>9. Legal(a, {}, {m}) /\ SameTcbs(w, a) /\ a.owner = k.owner
  BY <1>7, <1>8, LegalApart
<1>10. PICK v : v = Relieved(k, m, a)
  OBVIOUS
<1>11. Legal(v, {}, {m}) /\ Same(a, v)
  <2>1. CASE o = NoTask \/ k.prio[o] = k.base[o]
    <3>1. v = a
      BY <1>2, <1>10, <2>1 DEF Relieved
    <3> QED BY <1>9, <3>1 DEF Same
  <2>2. CASE ~(o = NoTask \/ k.prio[o] = k.base[o])
    <3>1. PICK p \in Prio : p = Restored(a, o)
      BY <1>3, <1>9, <2>2, RestoredIn DEF Legal
    <3>2. v = ChangePrio(a, o, p)
      BY <1>2, <1>10, <2>2, <3>1 DEF Relieved
    <3>3. PICK X : X = {}
      OBVIOUS
    <3>4. Legal(a, X, {m}) /\ Chain(a, X) /\ o \in Task /\ o \notin X /\ NoTask \notin X
      BY <1>3, <1>9, <2>2, <3>3, HeldChain DEF Legal
    <3>5. Legal(v, X, {m}) /\ Same(a, v)
      BY <3>1, <3>2, <3>4, LegalChange
    <3> QED BY <3>3, <3>5
  <2> QED BY <2>1, <2>2
<1>12. PICK r : k' = r /\ r \in {[Disown(v, m) EXCEPT !.made = @ \ {m}],
                                 [Disown(a, m) EXCEPT !.made = @ \ {m}]}
  BY <1>2, <1>4, <1>7, <1>8, <1>10, MutexDelIs DEF Apart
<1>13. PICK b \in {v, a} : r = [Disown(b, m) EXCEPT !.made = @ \ {m}]
  BY <1>12
<1>14. Legal(b, {}, {m}) /\ Same(a, b)
  BY <1>9, <1>11 DEF Same
<1>15. \A t \in Task : Waits(b, t) => b.obj[t] # m
  BY <1>6, <1>7, <1>9, <1>14 DEF Same, SameTcbs, Waits
<1>16. Legal(r, {}, {}) /\ SameTcbs(b, r) /\ r.owner = [b.owner EXCEPT ![m] = NoTask]
  BY <1>13, <1>14, <1>15, LegalGone
<1>17. Grant(k, r)
  <2>1. r.state = w.state /\ r.status = w.status
    BY <1>9, <1>14, <1>16 DEF Same, SameTcbs
  <2>2. r.owner[m] = NoTask
    <3>1. b.owner \in [Mutex -> Task \cup {NoTask}]
      BY <1>14 DEF Legal, Kernel
    <3> QED BY <1>16, <3>1
  <2>3. ASSUME NEW x \in Task, Waits(k, x), ~Waits(r, x)
        PROVE  r.status[x] # "ok" /\ r.owner[k.obj[x]] # x
    BY <1>7, <2>1, <2>2, <2>3, MutexAssumption DEF Waits
  <2> QED BY <2>3, GrantNone
<1>18. Inv'
  <2>1. CASE mode' = "sched"
    BY <1>12, <1>16, <2>1, CallInv
  <2>2. CASE k.wait[m] = <<>> /\ UNCHANGED mode /\ k' = [Disown(a, m) EXCEPT !.made = @ \ {m}]
    <3>1. r = [Disown(a, m) EXCEPT !.made = @ \ {m}] /\ w = k
      BY <1>5, <1>6, <1>12, <2>2
    <3>2. \A t \in Task : Waits(a, t) => a.obj[t] # m
      BY <1>6, <1>7, <1>9 DEF SameTcbs, Waits
    <3>3. SameTcbs(a, r)
      BY <1>9, <3>1, <3>2, LegalGone
    <3>4. r.cur = k.cur /\ r.rdy = k.rdy
      BY <1>9, <3>1, <3>3 DEF SameTcbs
    <3> QED BY <1>12, <1>16, <2>2, <3>4, StayInv
  <2> QED BY <1>2, <1>4, <1>7, <1>8, <2>1, <2>2, MutexDelIs DEF Apart
<1> QED BY <1>12, <1>17, <1>18

(* Nobody waits for what u owns. *)
Unwanted(s, u) == \A x \in Task : Waits(s, x) => s.owner[s.obj[x]] # u

(* A task that is deleted leaves its list. *)
TakenOut(s, u) ==
  CASE s.state[u] = "rdy" -> RdyRemove(s, u)
    [] s.state[u] = "dly" -> s
    [] Waits(s, u) -> Disinherit(PendRemove(s, u), s.owner[s.obj[u]], s.prio[u])

LEMMA LegalTakenOut ==
  ASSUME NEW s, Legal(s, {}, {}), NEW u \in Task, s.state[u] # "del", Unwanted(s, u)
  PROVE  Legal(TakenOut(s, u), {u}, {}) /\ Same(s, TakenOut(s, u))
<1>1. s \in Kernel /\ Tcbs(s, {}) /\ Prios(s) /\ Groups(s, {}) /\ Held(s) /\ Callers(s)
  BY DEF Legal
<1>2. PICK X : X = {}
  OBVIOUS
<1>3. PICK Y : Y = {u}
  OBVIOUS
<1>4. u \notin X /\ Tcbs(s, X) /\ X \cup {u} = Y /\ s.prio[u] \in Prio
  BY <1>1, <1>2, <1>3 DEF Prios
<1>5. s.state[u] \in {"rdy", "dly", "pend", "pendTimeout", "del"}
  BY <1>1 DEF Kernel
<1>6. PICK r : r = TakenOut(s, u)
  OBVIOUS
<1>7. CASE s.state[u] = "rdy"
  <2>1. r = RdyRemove(s, u)
    BY <1>6, <1>7 DEF TakenOut, Waits
  <2>2. r \in Kernel /\ Same(s, r) /\ r.prio = s.prio /\ Tcbs(r, Y)
    BY <1>1, <1>4, <1>7, <2>1, RdyRemoveIs
  <2>3. Groups(r, {}) /\ Held(r) /\ Callers(r)
    BY <1>1, <2>2, SameGroups
  <2>4. Prios(r)
    BY <1>1, <2>2 DEF Prios, Same
  <2> QED BY <1>3, <1>6, <2>2, <2>3, <2>4 DEF Legal
<1>8. CASE s.state[u] = "dly"
  <2>1. r = s
    BY <1>6, <1>8 DEF TakenOut, Waits
  <2>2. Tcbs(s, X \cup {u})
    BY <1>4, <1>8, OutLeave
  <2>3. Legal(s, Y, {})
    BY <1>1, <1>4, <2>2 DEF Legal
  <2> QED BY <1>3, <1>6, <2>1, <2>3 DEF Same
<1>9. CASE Waits(s, u)
  <2>1. PICK o : o = s.owner[s.obj[u]]
    OBVIOUS
  <2>2. s.obj[u] \in Mutex /\ o \in Task /\ o # u
    BY <1>1, <1>9, <2>1 DEF Held
  <2>3. PICK a : a = PendRemove(s, u)
    OBVIOUS
  <2>4. a \in Kernel /\ Same(s, a) /\ a.prio = s.prio /\ Tcbs(a, Y)
    BY <1>1, <1>4, <1>9, <2>2, <2>3, PendRemoveIs
  <2>5. Groups(a, {}) /\ Held(a) /\ Callers(a)
    BY <1>1, <2>4, SameGroups
  <2>6. Prios(a)
    BY <1>1, <2>4 DEF Prios, Same
  <2>7. Legal(a, Y, {})
    BY <2>4, <2>5, <2>6 DEF Legal
  <2>8. Chain(a, Y)
    <3>1. \A x \in Task : Waits(a, x) /\ x \notin Y => a.owner[a.obj[x]] \notin Y
      BY <1>3, <2>4 DEF Unwanted, Same, Waits
    <3> QED BY <2>5, <3>1, HeldChain
  <2>9. r = Disinherit(a, o, s.prio[u])
    BY <1>6, <1>9, <2>1, <2>3 DEF TakenOut, Waits
  <2>10. o \notin Y /\ NoTask \notin Y
    BY <1>3, <2>2, MutexAssumption
  <2>11. Legal(r, Y, {}) /\ Same(a, r)
    BY <2>2, <2>7, <2>8, <2>9, <2>10, LegalDisinherit
  <2>12. Same(s, r)
    BY <2>4, <2>11 DEF Same
  <2> QED BY <1>3, <1>6, <2>11, <2>12
<1> QED BY <1>5, <1>7, <1>8, <1>9 DEF Waits

(* The first n mutexes of q, the group of u, are free. *)
Posts(s, u, q, n) ==
  {r \in Kernel :
     /\ Legal(r, {u}, {}) /\ SameTcbs(s, r)
     /\ \A m \in Mutex : r.owner[m] = IF \E j \in 1 .. Len(q) : j <= n /\ q[j] = m
                                      THEN NoTask ELSE s.owner[m]}

LEMMA PostsStep ==
  ASSUME NEW s, NEW u \in Task, Legal(s, {u}, {}), Unwanted(s, u), NEW q, q = s.grp[u],
         NEW n \in 1 .. Len(q), NEW r \in Posts(s, u, q, n - 1)
  PROVE  PostOne(r, q[n], u) \in Posts(s, u, q, n)
<1>1. s \in Kernel /\ Groups(s, {}) /\ Held(s)
  BY DEF Legal
<1>2. /\ r \in Kernel /\ Legal(r, {u}, {}) /\ SameTcbs(s, r)
      /\ \A m \in Mutex : r.owner[m] = IF \E j \in 1 .. Len(q) : j <= n - 1 /\ q[j] = m
                                       THEN NoTask ELSE s.owner[m]
  BY DEF Posts
<1>3. PICK Y : Y = {u}
  OBVIOUS
<1>4. PICK M : M = {}
  OBVIOUS
<1>5. Lists(q, Mutex, Owned(s, M, u))
  BY <1>1, <1>4 DEF Groups
<1>6. /\ Len(q) \in Nat
      /\ \A i, j \in 1 .. Len(q) : q[i] = q[j] => i = j
      /\ \A i \in 1 .. Len(q) : q[i] \in Owned(s, M, u)
  BY <1>5, ListIs
<1>7. PICK m : m = q[n]
  OBVIOUS
<1>8. m \in Mutex /\ s.owner[m] = u
  BY <1>6, <1>7 DEF Owned
<1>9. r.owner[m] = u
  <2>1. ~ \E j \in 1 .. Len(q) : j <= n - 1 /\ q[j] = m
    BY <1>6, <1>7
  <2> QED BY <1>2, <1>8, <2>1
<1>10. \A x \in Task : ~(Waits(r, x) /\ r.obj[x] = m)
  BY <1>2, <1>8 DEF Unwanted, SameTcbs, Waits
<1>11. r.wait[m] = <<>>
  <2>1. Tcbs(r, Y)
    BY <1>2, <1>3 DEF Legal
  <2> QED BY <1>8, <1>10, <2>1, NobodyWaits
<1>12. PICK a : a = Ungroup(r, m)
  OBVIOUS
<1>13. Legal(a, Y, {m}) /\ SameTcbs(r, a) /\ a.owner = r.owner
  <2>1. Legal(r, Y, {}) /\ r.owner[m] \in Task
    BY <1>2, <1>3, <1>9
  <2>2. Groups(r, {})
    BY <1>2 DEF Legal
  <2> QED BY <1>2, <1>8, <1>12, <2>1, <2>2, LegalUngroup, UngroupIs
<1>14. PICK v : v = Disown(a, m)
  OBVIOUS
<1>15. Legal(v, Y, {}) /\ SameTcbs(a, v) /\ v.owner = [a.owner EXCEPT ![m] = NoTask]
  <2>1. \A t \in Task : Waits(a, t) => a.obj[t] # m
    BY <1>10, <1>13 DEF SameTcbs, Waits
  <2>2. a \in Kernel /\ Groups(a, {m})
    BY <1>13 DEF Legal
  <2> QED BY <1>8, <1>13, <1>14, <2>1, <2>2, LegalDisown, DisownIs
<1>16. v = PostOne(r, m, u)
  BY <1>11, <1>12, <1>14 DEF PostOne
<1>17. SameTcbs(s, v)
  BY <1>2, <1>13, <1>15 DEF SameTcbs
<1>18. ASSUME NEW h \in Mutex
       PROVE  v.owner[h] = IF \E j \in 1 .. Len(q) : j <= n /\ q[j] = h
                           THEN NoTask ELSE s.owner[h]
  <2>1. a.owner \in [Mutex -> Task \cup {NoTask}]
    BY <1>13 DEF Legal, Kernel
  <2>2. CASE h = m
    <3>1. \E j \in 1 .. Len(q) : j <= n /\ q[j] = h
      BY <1>6, <1>7, <2>2
    <3>2. v.owner[h] = NoTask
      BY <1>15, <2>1, <2>2
    <3> QED BY <3>1, <3>2
  <2>3. CASE h # m
    <3>1. v.owner[h] = r.owner[h]
      BY <1>13, <1>15, <2>1, <2>3
    <3>2. (\E j \in 1 .. Len(q) : j <= n /\ q[j] = h) <=> \E j \in 1 .. Len(q) : j <= n - 1 /\ q[j] = h
      BY <1>6, <1>7, <2>3
    <3> QED BY <1>2, <3>1, <3>2
  <2> QED BY <2>2, <2>3
<1>19. v \in Posts(s, u, q, n)
  BY <1>3, <1>15, <1>17, <1>18 DEF Posts, Legal
<1> QED BY <1>7, <1>16, <1>19

LEMMA PostsAll ==
  ASSUME NEW s, NEW u \in Task, Legal(s, {u}, {}), Unwanted(s, u)
  PROVE  LET r == GrpPostAll(s, u)
         IN  /\ Legal(r, {u}, {}) /\ SameTcbs(s, r)
             /\ \A m \in Mutex : r.owner[m] = IF s.owner[m] = u THEN NoTask ELSE s.owner[m]
<1>1. s \in Kernel /\ Groups(s, {})
  BY DEF Legal
<1>2. PICK q : q = s.grp[u]
  OBVIOUS
<1>3. PICK M : M = {}
  OBVIOUS
<1>4. Lists(q, Mutex, Owned(s, M, u))
  BY <1>1, <1>2, <1>3 DEF Groups
<1>5. /\ Len(q) \in Nat /\ DOMAIN q = 1 .. Len(q)
      /\ \A x \in Owned(s, M, u) : \E i \in 1 .. Len(q) : q[i] = x
      /\ \A i \in 1 .. Len(q) : q[i] \in Owned(s, M, u)
  BY <1>4, ListIs
<1>6. PICK n \in Nat : n = Len(q)
  BY <1>5
<1> DEFINE G == [i \in 0 .. n |-> Posts(s, u, q, i)]
<1>7. PICK f : IsFold(f, "post", u, s, q, n) /\ GrpPostAll(s, u) = f[1 .. n]
  BY <1>2, <1>5, <1>6, PostFold
<1>8. s \in G[0]
  <2>1. \A j \in 1 .. Len(q) : ~(j <= 0)
    BY <1>5
  <2>2. s \in Posts(s, u, q, 0)
    BY <1>1, <2>1 DEF Posts, SameTcbs
  <2> QED BY <2>2
<1>9. ASSUME NEW i \in 1 .. n, NEW r \in G[i - 1] PROVE Combine("post", u, r, q[i]) \in G[i]
  <2>1. r \in Posts(s, u, q, i - 1) /\ i \in 1 .. Len(q)
    BY <1>6
  <2>2. Combine("post", u, r, q[i]) = PostOne(r, q[i], u)
    BY DEF Combine
  <2>3. PostOne(r, q[i], u) \in Posts(s, u, q, i)
    BY <1>2, <2>1, PostsStep
  <2> QED BY <2>2, <2>3
<1>10. f[1 .. n] \in G[n]
  <2> HIDE DEF G
  <2> QED BY <1>7, <1>8, <1>9, FoldIn
<1>11. PICK r : r = GrpPostAll(s, u)
  OBVIOUS
<1>12. r \in Posts(s, u, q, n)
  BY <1>7, <1>10, <1>11
<1>13. ASSUME NEW m \in Mutex
       PROVE  r.owner[m] = IF s.owner[m] = u THEN NoTask ELSE s.owner[m]
  <2>1. (\E j \in 1 .. Len(q) : j <= n /\ q[j] = m) <=> s.owner[m] = u
    <3>1. m \in Owned(s, M, u) <=> s.owner[m] = u
      BY <1>3 DEF Owned
    <3>2. \A j \in 1 .. Len(q) : j <= n
      BY <1>6
    <3> QED BY <1>5, <3>1, <3>2
  <2> QED BY <1>12, <2>1 DEF Posts
<1> QED BY <1>11, <1>12, <1>13 DEF Posts

(* What is left of a deleted task. *)
Deleted(s, u) ==
  [s EXCEPT !.state[u] = "del", !.prio[u] = IdlePrio + 1, !.base[u] = IdlePrio + 1,
            !.obj[u] = NoMutex, !.grp[u] = <<>>]

LEMMA LegalDeleted ==
  ASSUME NEW s, NEW u \in Task, Legal(s, {u}, {}), \A m \in Mutex : s.owner[m] # u
  PROVE  /\ Legal(Deleted(s, u), {}, {}) /\ Deleted(s, u).state[u] = "del"
         /\ Deleted(s, u).owner = s.owner
         /\ \A x \in Task : x # u =>
              /\ Deleted(s, u).state[x] = s.state[x] /\ Deleted(s, u).obj[x] = s.obj[x]
              /\ Deleted(s, u).prio[x] = s.prio[x] /\ Deleted(s, u).base[x] = s.base[x]
<1>1. s \in Kernel /\ Tcbs(s, {u}) /\ Prios(s) /\ Groups(s, {}) /\ Held(s) /\ Callers(s)
  BY DEF Legal
<1>2. PICK r : r = Deleted(s, u)
  OBVIOUS
<1>3. /\ r.state = [s.state EXCEPT ![u] = "del"] /\ r.prio = [s.prio EXCEPT ![u] = IdlePrio + 1]
      /\ r.base = [s.base EXCEPT ![u] = IdlePrio + 1] /\ r.obj = [s.obj EXCEPT ![u] = NoMutex]
      /\ r.grp = [s.grp EXCEPT ![u] = <<>>]
      /\ r.owner = s.owner /\ r.nest = s.nest /\ r.rdy = s.rdy /\ r.wait = s.wait
  BY <1>1, <1>2 DEF Deleted, Kernel
<1>4. /\ s.state \in [Task -> {"rdy", "dly", "pend", "pendTimeout", "del"}]
      /\ s.prio \in [Task -> 0 .. IdlePrio + 1] /\ s.base \in [Task -> 0 .. IdlePrio + 1]
      /\ s.obj \in [Task -> Mutex \cup {NoMutex}] /\ s.grp \in [Task -> Seq(Mutex)]
      /\ IdlePrio + 1 \in 0 .. IdlePrio + 1 /\ s.wait \in [Mutex -> Seq(Task)]
  BY <1>1, MutexAssumption DEF Kernel
<1>5. /\ r.state \in [Task -> {"rdy", "dly", "pend", "pendTimeout", "del"}]
      /\ r.prio \in [Task -> 0 .. IdlePrio + 1] /\ r.base \in [Task -> 0 .. IdlePrio + 1]
      /\ r.obj \in [Task -> Mutex \cup {NoMutex}] /\ r.grp \in [Task -> Seq(Mutex)]
  BY <1>3, <1>4
<1>6. r \in Kernel
  BY <1>1, <1>2, <1>5 DEF Kernel, Deleted
<1>7. /\ r.state[u] = "del" /\ r.grp[u] = <<>>
      /\ \A x \in Task : x # u =>
           /\ r.state[x] = s.state[x] /\ r.obj[x] = s.obj[x] /\ r.grp[x] = s.grp[x]
           /\ r.prio[x] = s.prio[x] /\ r.base[x] = s.base[x]
  BY <1>3, <1>4
<1>8. Tcbs(r, {})
  <2>1. PICK X : X = {}
    OBVIOUS
  <2>2. PICK Y : Y = X \cup {u}
    OBVIOUS
  <2>3. Unchanged(s, Y, r) /\ Tcbs(s, Y)
    BY <1>1, <1>7, <2>1, <2>2 DEF Unchanged
  <2>4. Tcbs(r, Y)
    BY <1>3, <1>4, <2>3, OutChange
  <2>5. u \notin X /\ r.state[u] \in {"dly", "del"}
    BY <1>7, <2>1
  <2>6. Tcbs(r, X)
    BY <2>2, <2>4, <2>5, OutLeave
  <2> QED BY <2>1, <2>6
<1>9. Prios(r)
  BY <1>1, <1>7 DEF Prios
<1>10. Groups(r, {})
  <2>1. PICK M : M = {}
    OBVIOUS
  <2>2. ASSUME NEW x \in Task PROVE Lists(r.grp[x], Mutex, Owned(r, M, x))
    <3>1. CASE x = u
      <4>1. Owned(r, M, u) = {}
        BY <1>3 DEF Owned
      <4> QED BY <1>7, <3>1, <4>1, ListNone
    <3>2. CASE x # u
      <4>1. Owned(r, M, x) = Owned(s, M, x) /\ r.grp[x] = s.grp[x]
        BY <1>3, <1>7, <3>2 DEF Owned
      <4> QED BY <1>1, <2>1, <4>1 DEF Groups
    <3> QED BY <3>1, <3>2
  <2> QED BY <2>1, <2>2 DEF Groups
<1>11. ASSUME NEW x \in Task, Waits(r, x)
       PROVE  /\ x # u /\ Waits(s, x) /\ r.obj[x] = s.obj[x] /\ r.state[x] = s.state[x]
              /\ r.grp[x] = s.grp[x]
  BY <1>7, <1>11 DEF Waits
<1>12. Held(r)
  <2>1. ASSUME NEW m \in Mutex, r.owner[m] # NoTask PROVE r.state[r.owner[m]] # "del"
    <3>1. s.owner[m] \in Task /\ s.owner[m] # u
      BY <1>1, <1>3, <2>1 DEF Kernel
    <3> QED BY <1>1, <1>3, <1>7, <2>1, <3>1 DEF Held
  <2> QED BY <1>1, <1>3, <1>11, <2>1 DEF Held
<1>13. Callers(r)
  BY <1>1, <1>11 DEF Callers
<1>14. Legal(r, {}, {})
  BY <1>6, <1>8, <1>9, <1>10, <1>12, <1>13 DEF Legal
<1> QED BY <1>2, <1>3, <1>7, <1>14

LEMMA GrpUnwanted ==
  ASSUME NEW s, Legal(s, {}, {}), NEW u \in Task, \A m \in ToSet(s.grp[u]) : s.wait[m] = <<>>
  PROVE  Unwanted(s, u)
<1> SUFFICES ASSUME NEW x \in Task, Waits(s, x), s.owner[s.obj[x]] = u PROVE FALSE
  BY DEF Unwanted
<1>1. Held(s) /\ Groups(s, {}) /\ Tcbs(s, {})
  BY DEF Legal
<1>2. s.obj[x] \in Mutex
  BY <1>1 DEF Held
<1>3. PICK M : M = {}
  OBVIOUS
<1>4. ToSet(s.grp[u]) = Owned(s, M, u)
  BY <1>1, <1>3 DEF Groups, Lists
<1>5. s.obj[x] \in ToSet(s.grp[u])
  BY <1>2, <1>3, <1>4 DEF Owned
<1>6. s.wait[s.obj[x]] = <<>>
  BY <1>5
<1> QED BY <1>1, <1>2, <1>3, <1>6, NobodyWaits

LEMMA TaskDelInv ==
  ASSUME Inv, NEW u \in Task, TaskDel(u) PROVE Inv' /\ Grant(k, k')
<1>1. Legal(k, {}, {}) /\ k \in Kernel /\ Tcbs(k, {}) /\ Groups(k, {}) /\ Held(k)
  BY DEF Inv, Legal
<1>2. k.state[u] # "del" /\ \A m \in ToSet(k.grp[u]) : k.wait[m] = <<>>
  BY DEF TaskDel
<1>3. Unwanted(k, u)
  BY <1>1, <1>2, GrpUnwanted
<1>4. PICK a : a = TakenOut(k, u)
  OBVIOUS
<1>5. Legal(a, {u}, {}) /\ Same(k, a)
  BY <1>1, <1>2, <1>3, <1>4, LegalTakenOut
<1>6. PICK b : b = GrpPostAll(a, u)
  OBVIOUS
<1>7. /\ Legal(b, {u}, {}) /\ SameTcbs(a, b)
      /\ \A m \in Mutex : b.owner[m] = IF a.owner[m] = u THEN NoTask ELSE a.owner[m]
  <2>1. Unwanted(a, u)
    BY <1>3, <1>5 DEF Unwanted, Same, Waits
  <2> QED BY <1>5, <1>6, <2>1, PostsAll
<1>8. PICK r : r = Deleted(b, u)
  OBVIOUS
<1>9. /\ Legal(r, {}, {}) /\ r.state[u] = "del"
      /\ \A x \in Task : x # u => r.state[x] = b.state[x]
  <2>1. \A m \in Mutex : b.owner[m] # u
    BY <1>7, MutexAssumption
  <2> QED BY <1>7, <1>8, <2>1, LegalDeleted
<1>10. k' = r /\ mode' = "sched"
  BY <1>4, <1>6, <1>8 DEF TaskDel, Call, TakenOut, Deleted
<1>11. Inv'
  BY <1>9, <1>10, CallInv
<1>12. Grant(k, r)
  <2>1. \A x \in Task : x # u => r.state[x] = k.state[x]
    BY <1>5, <1>7, <1>9 DEF Same, SameTcbs
  <2> QED BY <1>9, <2>1, GrantNone DEF Waits
<1> QED BY <1>10, <1>11, <1>12

(* A task that has been taken out of its list gets another state, and goes    *)
(* to a ready list or to none: the begin and the end of a delay.              *)
NewState(s, t, v, r) ==
  /\ r.state[t] = v /\ r.prio = s.prio /\ r.base = s.base /\ r.obj = s.obj /\ r.owner = s.owner
  /\ \A x \in Task : x # t => r.state[x] = s.state[x]

LEMMA LegalState ==
  ASSUME NEW s, NEW t \in Task, Legal(s, {t}, {}), ~Waits(s, t), s.state[t] # "del",
         NEW v \in {"rdy", "dly"}, NEW r, r = [s EXCEPT !.state[t] = v]
  PROVE  Legal(r, {t}, {}) /\ NewState(s, t, v, r)
<1>1. s \in Kernel /\ Tcbs(s, {t}) /\ Prios(s) /\ Groups(s, {}) /\ Held(s) /\ Callers(s)
  BY DEF Legal
<1>3. /\ r.state = [s.state EXCEPT ![t] = v] /\ r.prio = s.prio /\ r.base = s.base
      /\ r.obj = s.obj /\ r.grp = s.grp /\ r.owner = s.owner /\ r.nest = s.nest
      /\ r.rdy = s.rdy /\ r.wait = s.wait
  BY <1>1 DEF Kernel
<1>4. s.state \in [Task -> {"rdy", "dly", "pend", "pendTimeout", "del"}]
  BY <1>1 DEF Kernel
<1>5. r.state \in [Task -> {"rdy", "dly", "pend", "pendTimeout", "del"}]
  BY <1>3, <1>4
<1>6. r \in Kernel
  BY <1>1, <1>5 DEF Kernel
<1>7. r.state[t] = v /\ \A x \in Task : x # t => r.state[x] = s.state[x]
  BY <1>3, <1>4
<1>8. Tcbs(r, {t})
  <2>1. PICK Y : Y = {t}
    OBVIOUS
  <2>2. Unchanged(s, Y, r) /\ s.wait \in [Mutex -> Seq(Task)]
    BY <1>1, <1>3, <1>7, <2>1 DEF Unchanged, Kernel
  <2>3. Tcbs(r, Y)
    BY <1>1, <1>3, <2>1, <2>2, OutChange
  <2> QED BY <2>1, <2>3
<1>9. Prios(r)
  BY <1>1, <1>3, <1>7 DEF Prios
<1>10. Groups(r, {})
  BY <1>1, <1>3 DEF Groups, Owned
<1>11. \A x \in Task : /\ Waits(r, x) => Waits(s, x) /\ r.state[x] = s.state[x]
                       /\ (s.state[x] # "del" => r.state[x] # "del")
  BY <1>7 DEF Waits
<1>12. Held(r)
  <2>1. ASSUME NEW m \in Mutex, r.owner[m] # NoTask PROVE r.state[r.owner[m]] # "del"
    <3>1. s.owner[m] \in Task
      BY <1>1, <1>3, <2>1 DEF Kernel
    <3> QED BY <1>1, <1>3, <1>11, <2>1, <3>1 DEF Held
  <2> QED BY <1>1, <1>3, <1>11, <2>1 DEF Held
<1>13. Callers(r)
  BY <1>1, <1>3, <1>11 DEF Callers
<1>14. Legal(r, {t}, {})
  BY <1>6, <1>8, <1>9, <1>10, <1>12, <1>13 DEF Legal
<1> QED BY <1>3, <1>7, <1>14 DEF NewState

LEMMA DelayInv ==
  ASSUME Inv, Delay PROVE Inv' /\ Grant(k, k')
<1>1. Legal(k, {}, {}) /\ k \in Kernel /\ Tcbs(k, {}) /\ Prios(k) /\ Groups(k, {}) /\ Held(k)
      /\ Callers(k)
  BY DEF Inv, Legal
<1>2. PICK t : t = k.cur
  OBVIOUS
<1>3. t \in Task /\ k.state[t] = "rdy" /\ k.prio[t] \in Prio /\ ~Waits(k, t)
  BY <1>2, RunningIs DEF Delay, Running
<1>4. PICK X : X = {}
  OBVIOUS
<1>5. PICK a : a = RdyRemove(k, t)
  OBVIOUS
<1>6. a \in Kernel /\ Same(k, a) /\ a.prio = k.prio /\ Tcbs(a, X \cup {t})
  <2>1. t \notin X /\ Tcbs(k, X)
    BY <1>1, <1>4
  <2> QED BY <1>1, <1>3, <1>5, <2>1, RdyRemoveIs
<1>7. Legal(a, {t}, {})
  <2>1. X \cup {t} = {t}
    BY <1>4
  <2>2. Groups(a, {}) /\ Held(a) /\ Callers(a)
    BY <1>1, <1>6, SameGroups
  <2>3. Prios(a)
    BY <1>1, <1>6 DEF Prios, Same
  <2> QED BY <1>6, <2>1, <2>2, <2>3 DEF Legal
<1>8. PICK r : r = [a EXCEPT !.state[t] = "dly"]
  OBVIOUS
<1>9. /\ Legal(r, {t}, {}) /\ r.state[t] = "dly"
      /\ \A x \in Task : x # t => r.state[x] = a.state[x]
  <2>1. a.state[t] # "del" /\ ~Waits(a, t)
    BY <1>3, <1>6 DEF Same, Waits
  <2>2. PICK v \in {"rdy", "dly"} : v = "dly"
    OBVIOUS
  <2>3. r = [a EXCEPT !.state[t] = v]
    BY <1>8, <2>2
  <2>4. Legal(r, {t}, {}) /\ NewState(a, t, v, r)
    BY <1>3, <1>7, <2>1, <2>3, LegalState
  <2> QED BY <2>2, <2>4 DEF NewState
<1>10. Legal(r, {}, {})
  <2>1. t \notin X /\ r.state[t] \in {"dly", "del"} /\ X \cup {t} = {t}
    BY <1>4, <1>9
  <2>2. Tcbs(r, X)
    BY <1>9, <2>1, OutLeave DEF Legal
  <2> QED BY <1>4, <1>9, <2>2 DEF Legal
<1>11. k' = r /\ mode' = "sched"
  BY <1>2, <1>5, <1>8 DEF Delay, Call
<1>12. Inv'
  BY <1>10, <1>11, CallInv
<1>13. Grant(k, r)
  BY <1>3, <1>6, <1>9, GrantNone DEF Same, Waits
<1> QED BY <1>11, <1>12, <1>13

LEMMA ExpireInv ==
  ASSUME Inv, NEW t \in Task, Expire(t) PROVE Inv' /\ Grant(k, k')
<1>1. Legal(k, {}, {}) /\ k \in Kernel /\ Tcbs(k, {}) /\ Prios(k) /\ Held(k)
  BY DEF Inv, Legal
<1>2. CASE k.state[t] = "dly" /\ k' = RdyInsert([k EXCEPT !.state[t] = "rdy"], t)
  <2>1. PICK X : X = {}
    OBVIOUS
  <2>2. t \notin X /\ X \cup {t} = {t}
    BY <2>1
  <2>3. Legal(k, {t}, {})
    <3>1. Tcbs(k, X \cup {t})
      BY <1>1, <1>2, <2>1, <2>2, OutLeave
    <3> QED BY <1>1, <2>2, <3>1 DEF Legal
  <2>4. PICK a : a = [k EXCEPT !.state[t] = "rdy"]
    OBVIOUS
  <2>5. /\ Legal(a, {t}, {}) /\ a.state[t] = "rdy" /\ a.prio = k.prio
        /\ \A x \in Task : x # t => a.state[x] = k.state[x]
    <3>1. k.state[t] # "del" /\ ~Waits(k, t)
      BY <1>2 DEF Waits
    <3>2. PICK v \in {"rdy", "dly"} : v = "rdy"
      OBVIOUS
    <3>3. a = [k EXCEPT !.state[t] = v]
      BY <2>4, <3>2
    <3>4. Legal(a, {t}, {}) /\ NewState(k, t, v, a)
      BY <2>3, <3>1, <3>3, LegalState
    <3> QED BY <3>2, <3>4 DEF NewState
  <2>6. PICK r : r = RdyInsert(a, t)
    OBVIOUS
  <2>7. r \in Kernel /\ Same(a, r) /\ r.prio = a.prio /\ Tcbs(r, X)
    <3>1. RdyPlaced(a, t, r)
      BY <2>6, RdyInsertPlaces
    <3>2. a \in Kernel /\ Tcbs(a, X \cup {t}) /\ a.prio[t] \in Prio
      BY <2>2, <2>5 DEF Legal, Prios
    <3> QED BY <2>2, <2>5, <3>1, <3>2, RdyInIs
  <2>8. Legal(r, {}, {})
    <3>1. Groups(r, {}) /\ Held(r) /\ Callers(r)
      BY <2>5, <2>7, SameGroups DEF Legal
    <3>2. Prios(r)
      BY <2>5, <2>7 DEF Legal, Prios, Same
    <3> QED BY <2>1, <2>7, <3>1, <3>2 DEF Legal
  <2>9. k' = r /\ mode' = "isr"
    BY <1>2, <2>4, <2>6 DEF Expire
  <2>10. Grant(k, r)
    BY <1>2, <2>5, <2>7, GrantNone DEF Same, Waits
  <2> QED BY <2>8, <2>9, <2>10, CallInv
<1>3. CASE /\ k.state[t] = "pendTimeout"
           /\ k' = Disinherit(Wake(k, t, "timeout"), k.owner[k.obj[t]], k.prio[t])
  <2>1. Waits(k, t)
    BY <1>3 DEF Waits
  <2>2. PICK r : r = Disinherit(Wake(k, t, "timeout"), k.owner[k.obj[t]], k.prio[t])
    OBVIOUS
  <2>3. Legal(r, {}, {}) /\ Stopped(k, t, "timeout", r)
    BY <1>1, <2>1, <2>2, LegalStopped
  <2>4. k' = r /\ mode' = "isr"
    BY <1>3, <2>2 DEF Expire
  <2>5. Grant(k, r)
    <3>1. \A x \in Task : x # t => (Waits(r, x) <=> Waits(k, x))
      BY <1>1, <2>3, StoppedWaits
    <3>2. r.status[t] = "timeout"
      BY <1>1, <2>3, StoppedWaits
    <3>3. r.owner[k.obj[t]] # t
      BY <1>1, <2>1, <2>3 DEF Held, Stopped
    <3> QED BY <3>1, <3>2, <3>3, GrantNone
  <2> QED BY <2>3, <2>4, <2>5, CallInv
<1> QED BY <1>2, <1>3 DEF Expire

LEMMA LegalBase ==
  ASSUME NEW s, Legal(s, {}, {}), NEW t \in Task, NEW p \in Prio
  PROVE  LET r == [s EXCEPT !.base[t] = p]
         IN  /\ Legal(r, {}, {}) /\ r.base = [s.base EXCEPT ![t] = p] /\ r.prio = s.prio
             /\ r.state = s.state /\ r.obj = s.obj /\ r.owner = s.owner /\ r.grp = s.grp
             /\ r.wait = s.wait
<1>1. s \in Kernel /\ Tcbs(s, {}) /\ Prios(s) /\ Groups(s, {}) /\ Held(s) /\ Callers(s)
  BY DEF Legal
<1>2. PICK r : r = [s EXCEPT !.base[t] = p]
  OBVIOUS
<1>3. /\ r.base = [s.base EXCEPT ![t] = p] /\ r.prio = s.prio /\ r.state = s.state
      /\ r.obj = s.obj /\ r.grp = s.grp /\ r.owner = s.owner /\ r.nest = s.nest
      /\ r.rdy = s.rdy /\ r.wait = s.wait
  BY <1>1, <1>2 DEF Kernel
<1>4. s.base \in [Task -> 0 .. IdlePrio + 1] /\ p \in 0 .. IdlePrio + 1
  BY <1>1, PrioIs DEF Kernel
<1>5. r.base \in [Task -> 0 .. IdlePrio + 1]
  BY <1>3, <1>4
<1>6. r \in Kernel
  BY <1>1, <1>2, <1>5 DEF Kernel
<1>7. Tcbs(r, {})
  <2>1. PICK X : X = {}
    OBVIOUS
  <2>2. Unchanged(s, X, r) /\ s.wait \in [Mutex -> Seq(Task)]
    BY <1>1, <1>3 DEF Unchanged, Kernel
  <2>3. Tcbs(r, X)
    BY <1>1, <1>3, <2>1, <2>2, OutChange
  <2> QED BY <2>1, <2>3
<1>8. Prios(r)
  <2>1. \A x \in Task : r.base[x] = s.base[x] \/ r.base[x] \in Prio
    BY <1>3, <1>4
  <2> QED BY <1>1, <1>3, <2>1 DEF Prios
<1>9. Groups(r, {})
  BY <1>1, <1>3 DEF Groups, Owned
<1>10. Held(r)
  BY <1>1, <1>3 DEF Held, Waits
<1>11. Callers(r)
  BY <1>1, <1>3 DEF Callers, Waits
<1>12. Legal(r, {}, {})
  BY <1>6, <1>7, <1>8, <1>9, <1>10, <1>11 DEF Legal
<1> QED BY <1>2, <1>3, <1>12

LEMMA TaskChangePrioInv ==
  ASSUME Inv, NEW t \in Task, NEW p \in Prio, TaskChangePrio(t, p) PROVE Inv' /\ Grant(k, k')
<1>1. Legal(k, {}, {}) /\ k \in Kernel
  BY DEF Inv, Legal
<1>2. PICK s : s = [k EXCEPT !.base[t] = p]
  OBVIOUS
<1>3. Legal(s, {}, {}) /\ s.state = k.state /\ s \in Kernel
  BY <1>1, <1>2, LegalBase DEF Legal
<1>4. PICK q : q = IF s.grp[t] # <<>> /\ p > s.prio[t] THEN Min({p, FindHighest(s, t)}) ELSE p
  OBVIOUS
<1>5. q \in Prio
  <2>1. PICK f \in Prio : f = FindHighest(s, t)
    BY <1>3, FindHighestIs
  <2>2. Min({p, f}) \in {p, f}
    BY LowerOf, PrioIs
  <2> QED BY <1>4, <2>1, <2>2
<1>6. PICK r : r = ChangePrio(s, t, q)
  OBVIOUS
<1>7. Legal(r, {}, {}) /\ Same(s, r)
  <2>1. PICK X : X = {}
    OBVIOUS
  <2>2. Legal(s, X, {}) /\ Chain(s, X) /\ t \notin X /\ NoTask \notin X
    BY <1>3, <2>1, HeldChain DEF Legal
  <2>3. Legal(r, X, {}) /\ Same(s, r)
    BY <1>5, <1>6, <2>2, LegalChange
  <2> QED BY <2>1, <2>3
<1>8. k' = r /\ mode' = "sched"
  BY <1>2, <1>4, <1>6 DEF TaskChangePrio, Call
<1>9. Inv'
  BY <1>7, <1>8, CallInv
<1>10. Grant(k, r)
  BY <1>3, <1>7, GrantNone DEF Same, Waits
<1> QED BY <1>8, <1>9, <1>10

(* OSSched and OSIntExit. *)
LEMMA SchedInv ==
  ASSUME Inv, k' = Sched(k), mode' = "task" PROVE Inv' /\ Grant(k, k')
<1>1. PICK r : r = Sched(k)
  OBVIOUS
<1>2. Legal(r, {}, {}) /\ r.cur = Highest(r) /\ r.state = k.state
  BY <1>1, LegalSched DEF Inv
<1>3. k' = r
  BY <1>1
<1>4. Inv'
  BY <1>2, <1>3 DEF Inv
<1>5. Grant(k, r)
  BY <1>2, GrantNone DEF Waits
<1> QED BY <1>3, <1>4, <1>5

-----------------------------------------------------------------------------
(* The lists and the owners. *)

LEMMA InitInv == ASSUME Init PROVE Inv
<1>1. PICK r : r = Sched(Fresh)
  OBVIOUS
<1>2. Legal(r, {}, {}) /\ r.cur = Highest(r)
  BY <1>1, LegalFresh, LegalSched
<1> QED BY <1>1, <1>2 DEF Init, Inv

(* The test alone, and a critical section that finds nothing to do. *)
LEMMA IdleInv ==
  ASSUME Inv, UNCHANGED <<k, mode>> PROVE Inv' /\ Grant(k, k')
<1>1. PICK r : r = k /\ k' = r
  OBVIOUS
<1>2. r.cur = k.cur /\ r.rdy = k.rdy /\ Legal(r, {}, {}) /\ UNCHANGED mode
  BY <1>1 DEF Inv
<1>3. Inv'
  BY <1>1, <1>2, StayInv
<1>4. Grant(k, r)
  BY <1>1, GrantNone
<1> QED BY <1>1, <1>3, <1>4

LEMMA StepInv ==
  ASSUME Inv, [Next]_vars, mode' # "damaged" PROVE Inv' /\ Grant(k, k')
<1>1. CASE UNCHANGED <<k, mode>>
  BY <1>1, IdleInv
<1>2. ASSUME NEW m \in Mutex, PendTake(m) PROVE Inv' /\ Grant(k, k')
  BY <1>2, PendTakeInv
<1>3. ASSUME NEW m \in Mutex, PendNest(m) PROVE Inv' /\ Grant(k, k')
  BY <1>3, PendNestInv
<1>4. ASSUME NEW m \in Mutex, PendWait(m) PROVE Inv' /\ Grant(k, k')
  BY <1>4, PendWaitInv
<1>5. ASSUME NEW m \in Mutex, PostNested(m) PROVE Inv' /\ Grant(k, k')
  BY <1>5, PostNestedInv
<1>6. ASSUME NEW m \in Mutex, PostFree(m) PROVE Inv' /\ Grant(k, k')
  BY <1>6, PostFreeInv
<1>7. ASSUME NEW m \in Mutex, PostHand(m) PROVE Inv' /\ Grant(k, k')
  BY <1>7, PostHandInv
<1>8. ASSUME NEW m \in Mutex, PendAbort(m) PROVE Inv' /\ Grant(k, k')
  BY <1>8, PendAbortInv
<1>9. ASSUME NEW m \in Mutex, MutexDel(m) PROVE Inv' /\ Grant(k, k')
  BY <1>9, MutexDelInv
<1>10. ASSUME NEW m \in Mutex, MutexCreate(m) PROVE Inv' /\ Grant(k, k')
  BY <1>10, MutexCreateInv
<1>11. ASSUME NEW t \in Task, TaskDel(t) PROVE Inv' /\ Grant(k, k')
  BY <1>11, TaskDelInv
<1>12. ASSUME NEW t \in Task, Expire(t) PROVE Inv' /\ Grant(k, k')
  BY <1>12, ExpireInv
<1>13. ASSUME NEW t \in Task, NEW p \in Prio, TaskChangePrio(t, p) PROVE Inv' /\ Grant(k, k')
  BY <1>13, TaskChangePrioInv
<1>14. CASE Delay
  BY <1>14, DelayInv
<1>15. CASE OSSched \/ OSIntExit
  BY <1>15, SchedInv DEF OSSched, OSIntExit
<1>16. ASSUME NEW m \in Mutex, Ask(m) \/ Refused(m) PROVE UNCHANGED <<k, mode>>
  BY <1>16 DEF Ask, Refused
<1>17. ASSUME NEW m \in Mutex, MutexCreateTaken(m) PROVE FALSE
  BY <1>17 DEF MutexCreateTaken
<1>18. Damaged \/ UNCHANGED vars => UNCHANGED <<k, mode>>
  BY DEF Damaged, vars
<1> QED BY <1>1, <1>2, <1>3, <1>4, <1>5, <1>6, <1>7, <1>8, <1>9, <1>10, <1>11, <1>12, <1>13,
           <1>14, <1>15, <1>16, <1>17, <1>18 DEF Next, Critical

(* A mutex is created anew that a task took after its deletion: from then on  *)
(* the kernel's data have the types they should have, and nothing more.       *)
Sound == TypeOK /\ (mode = "damaged" \/ Inv)

LEMMA TakenIs ==
  ASSUME Inv, NEW m \in Mutex, MutexCreateTaken(m)
  PROVE  k' \in Kernel /\ mode' = "damaged" /\ Grant(k, k')
<1> DEFINE upto(g) ==
      IF m \in ToSet(g) THEN SubSeq(g, 1, CHOOSE i \in DOMAIN g : g[i] = m) ELSE g
<1>1. k \in Kernel
  BY DEF Inv, Legal
<1>2. PICK G : G = [t \in Task |-> upto(k.grp[t])]
  OBVIOUS
<1>3. G \in [Task -> Seq(Mutex)]
  <2> SUFFICES ASSUME NEW t \in Task PROVE upto(k.grp[t]) \in Seq(Mutex)
    BY <1>2
  <2>1. PICK g \in Seq(Mutex) : g = k.grp[t]
    BY <1>1 DEF Kernel
  <2>2. CASE m \in ToSet(g)
    <3>1. PICK i : i = CHOOSE j \in DOMAIN g : g[j] = m
      OBVIOUS
    <3>2. i \in DOMAIN g
      BY <2>2, <3>1 DEF ToSet
    <3>3. i \in 1 .. Len(g)
      BY <3>2
    <3>4. SubSeq(g, 1, i) \in Seq(Mutex)
      BY <3>3
    <3> QED BY <2>1, <2>2, <3>1, <3>4
  <2> QED BY <2>1, <2>2
<1> HIDE DEF upto
<1>4. PICK r : r = [Disown(k, m) EXCEPT !.made = k.made \cup {m}, !.wait[m] = <<>>, !.grp = G]
  OBVIOUS
<1>5. k' = r /\ mode' = "damaged"
  <2>1. Disown(k, m).made = k.made /\ Disown(k, m).grp = k.grp
    BY <1>1 DEF Disown, Kernel
  <2> QED BY <1>2, <1>4, <2>1 DEF MutexCreateTaken, upto
<1>6. /\ r \in Kernel /\ r.state = k.state
  <2>1. PICK d : d = Disown(k, m)
    OBVIOUS
  <2>2. d \in Kernel /\ d.state = k.state /\ d.wait = k.wait
    <3>1. [k.owner EXCEPT ![m] = NoTask] \in [Mutex -> Task \cup {NoTask}]
      BY <1>1 DEF Kernel
    <3>2. 0 \in 0 .. NestMax
      BY MutexAssumption
    <3>3. [k.nest EXCEPT ![m] = 0] \in [Mutex -> 0 .. NestMax]
      BY <1>1, <3>2 DEF Kernel
    <3>4. d = [k EXCEPT !.owner = [k.owner EXCEPT ![m] = NoTask],
                        !.nest = [k.nest EXCEPT ![m] = 0]]
      BY <1>1, <2>1 DEF Disown, Kernel
    <3> QED BY <1>1, <3>1, <3>3, <3>4 DEF Kernel
  <2>3. [d.wait EXCEPT ![m] = <<>>] \in [Mutex -> Seq(Task)]
    BY <2>2 DEF Kernel
  <2>4. k.made \cup {m} \subseteq Mutex
    BY <1>1 DEF Kernel
  <2>5. r = [d EXCEPT !.made = k.made \cup {m}, !.wait = [d.wait EXCEPT ![m] = <<>>], !.grp = G]
    BY <1>4, <2>1, <2>2 DEF Kernel
  <2> QED BY <1>3, <2>2, <2>3, <2>4, <2>5 DEF Kernel
<1>7. Grant(k, r)
  BY <1>6, GrantNone DEF Waits
<1> QED BY <1>5, <1>6, <1>7

LEMMA DamagedStops ==
  ASSUME mode = "damaged", [Next]_vars PROVE UNCHANGED vars
<1>1. ~Running
  BY DEF Running
<1>2. ASSUME NEW m \in Mutex PROVE ~Inside(m)
  BY <1>1 DEF Inside
<1>3. ASSUME NEW m \in Mutex PROVE ~Critical(m)
  BY <1>2 DEF Critical, Refused, PendTake, PendNest, PendWait, PendAbort, MutexDel
<1>4. ASSUME NEW m \in Mutex
      PROVE  ~(\/ Ask(m) \/ PostNested(m) \/ PostFree(m) \/ PostHand(m)
               \/ MutexCreate(m) \/ MutexCreateTaken(m))
  BY <1>1 DEF Ask, PostNested, PostFree, PostHand, PostLast, MutexCreate, MutexCreateTaken
<1>5. ASSUME NEW t \in Task PROVE ~TaskDel(t) /\ ~Expire(t)
  BY <1>1 DEF TaskDel, Expire
<1>6. ASSUME NEW t \in Task, NEW p \in Prio PROVE ~TaskChangePrio(t, p)
  BY <1>1 DEF TaskChangePrio
<1>7. ~Delay /\ ~OSSched /\ ~OSIntExit
  BY <1>1 DEF Delay, OSSched, OSIntExit
<1> QED BY <1>3, <1>4, <1>5, <1>6, <1>7 DEF Next, Damaged

(* asked *)
LEMMA AskedIs ==
  ASSUME asked \in [Task -> Mutex \cup {NoMutex}], [Next]_vars
  PROVE  asked' \in [Task -> Mutex \cup {NoMutex}]
<1>1. ASSUME NEW t, NEW m \in Mutex \cup {NoMutex}, asked' = [asked EXCEPT ![t] = m]
      PROVE  asked' \in [Task -> Mutex \cup {NoMutex}]
  BY <1>1
<1>2. ASSUME NEW m \in Mutex, Ask(m) PROVE asked' \in [Task -> Mutex \cup {NoMutex}]
  BY <1>1, <1>2 DEF Ask
<1>3. ASSUME NEW m \in Mutex, Inside(m) PROVE asked' \in [Task -> Mutex \cup {NoMutex}]
  BY <1>1, <1>3 DEF Inside
<1>4. ASSUME NEW m \in Mutex, Critical(m) PROVE Inside(m)
  BY <1>4 DEF Critical, Refused, PendTake, PendNest, PendWait, PendAbort, MutexDel
<1>5. ASSUME NEW m \in Mutex,
             \/ PostNested(m) \/ PostFree(m) \/ PostHand(m)
             \/ MutexCreate(m) \/ MutexCreateTaken(m)
      PROVE  UNCHANGED asked
  BY <1>5 DEF PostNested, PostFree, PostHand, MutexCreate, MutexCreateTaken
<1>6. ASSUME NEW t \in Task, TaskDel(t) PROVE asked' \in [Task -> Mutex \cup {NoMutex}]
  BY <1>1, <1>6 DEF TaskDel
<1>7. ASSUME NEW t \in Task, NEW p \in Prio, Expire(t) \/ TaskChangePrio(t, p)
      PROVE  UNCHANGED asked
  BY <1>7 DEF Expire, TaskChangePrio
<1>8. Delay \/ OSSched \/ OSIntExit \/ Damaged \/ UNCHANGED vars => UNCHANGED asked
  BY DEF Delay, OSSched, OSIntExit, Damaged, vars
<1>9. ASSUME NEW t \in Task, Expire(t) PROVE UNCHANGED asked
  BY <1>9 DEF Expire
<1> QED BY <1>2, <1>3, <1>4, <1>5, <1>6, <1>7, <1>8, <1>9 DEF Next

LEMMA InitSound == ASSUME Init PROVE Sound
<1>1. Inv
  BY InitInv
<1> QED BY <1>1 DEF Init, Inv, Legal, Sound, TypeOK

LEMMA StepSound == ASSUME Sound, [Next]_vars PROVE Sound' /\ (Grant(k, k') \/ UNCHANGED vars)
<1>1. asked' \in [Task -> Mutex \cup {NoMutex}]
  BY AskedIs DEF Sound, TypeOK
<1>2. CASE mode = "damaged"
  BY <1>2, DamagedStops DEF Sound, TypeOK, vars
<1>3. CASE Inv /\ mode' # "damaged"
  <2>1. Inv' /\ Grant(k, k')
    BY <1>3, StepInv
  <2>2. k' \in Kernel /\ mode' \in {"task", "sched", "isr"}
    BY <2>1 DEF Inv, Legal
  <2> QED BY <1>1, <2>1, <2>2 DEF Sound, TypeOK
<1>4. CASE Inv /\ mode' = "damaged"
  <2>1. mode # "damaged"
    BY <1>4 DEF Inv
  <2>2. PICK m \in Mutex : MutexCreateTaken(m)
    <3>1. mode' # mode
      BY <1>4, <2>1
    <3>2. ASSUME NEW m \in Mutex PROVE ~Ask(m) /\ ~Refused(m)
      BY <3>1 DEF Ask, Refused
    <3>3. ASSUME NEW m \in Mutex PROVE ~PendTake(m) /\ ~PendNest(m) /\ ~PendWait(m)
      BY <1>4, <3>1 DEF PendTake, PendNest, PendWait, Call
    <3>4. ASSUME NEW m \in Mutex PROVE ~PendAbort(m) /\ ~MutexDel(m)
      BY <1>4, <3>1 DEF PendAbort, MutexDel, Call
    <3>5. ASSUME NEW m \in Mutex
          PROVE  ~PostNested(m) /\ ~PostFree(m) /\ ~PostHand(m) /\ ~MutexCreate(m)
      BY <1>4, <3>1 DEF PostNested, PostFree, PostHand, MutexCreate, Call
    <3>6. ASSUME NEW t \in Task PROVE ~TaskDel(t) /\ ~Expire(t)
      BY <1>4 DEF TaskDel, Expire, Call
    <3>7. ASSUME NEW t \in Task, NEW p \in Prio PROVE ~TaskChangePrio(t, p)
      BY <1>4 DEF TaskChangePrio, Call
    <3>8. ~Delay /\ ~OSSched /\ ~OSIntExit /\ ~Damaged /\ ~UNCHANGED vars
      BY <1>4, <3>1 DEF Delay, OSSched, OSIntExit, Damaged, vars, Call
    <3> QED BY <3>2, <3>3, <3>4, <3>5, <3>6, <3>7, <3>8 DEF Next, Critical
  <2>3. k' \in Kernel /\ Grant(k, k')
    BY <1>4, <2>2, TakenIs
  <2> QED BY <1>1, <1>4, <2>3 DEF Sound, TypeOK
<1> QED BY <1>2, <1>3, <1>4 DEF Sound

LEMMA InvListsExact == ASSUME Sound, Inv PROVE ListsExact
<1>1. k \in Kernel /\ Tcbs(k, {}) /\ Groups(k, {}) /\ Held(k)
  BY DEF Inv, Legal
<1>2. PICK X : X = {}
  OBVIOUS
<1>3. TypeOK
  BY DEF Sound
<1>4. ASSUME NEW p \in Prio
      PROVE  /\ IsInjective(k.rdy[p])
             /\ ToSet(k.rdy[p]) = {t \in Task : k.state[t] = "rdy" /\ k.prio[t] = p}
  <2>1. RdySet(k, X, p) = {t \in Task : k.state[t] = "rdy" /\ k.prio[t] = p}
    BY <1>2 DEF RdySet
  <2> QED BY <1>1, <1>2, <2>1 DEF Tcbs, RdyList, Lists
<1>5. ASSUME NEW m \in Mutex
      PROVE  /\ IsInjective(k.wait[m])
             /\ ToSet(k.wait[m]) = {t \in Task : Waits(k, t) /\ k.obj[t] = m}
             /\ \A i, j \in DOMAIN k.wait[m] :
                  i < j => k.prio[k.wait[m][i]] <= k.prio[k.wait[m][j]]
  <2>1. WaitSet(k, X, m) = {t \in Task : Waits(k, t) /\ k.obj[t] = m}
    BY <1>2 DEF WaitSet
  <2>2. Lists(k.wait[m], Task, WaitSet(k, X, m)) /\ Sorted(k.wait[m], k.prio)
    BY <1>1, <1>2 DEF Tcbs, WaitList
  <2>3. DOMAIN k.wait[m] = 1 .. Len(k.wait[m])
    BY <2>2, ListIs
  <2> QED BY <2>1, <2>2, <2>3 DEF Lists, Sorted
<1>6. TcbsExact
  BY <1>4, <1>5 DEF TcbsExact
<1>7. ASSUME NEW m \in Mutex
      PROVE  /\ \A t \in Task : m \in ToSet(k.grp[t]) <=> k.owner[m] = t
             /\ k.nest[m] = 0 <=> k.owner[m] = NoTask
             /\ k.wait[m] # <<>> => k.owner[m] # NoTask
             /\ k.owner[m] # NoTask => k.state[k.owner[m]] # "del"
  <2>1. \A t \in Task : m \in ToSet(k.grp[t]) <=> k.owner[m] = t
    BY <1>1, <1>2 DEF Groups, Lists, Owned
  <2>2. k.wait[m] # <<>> => k.owner[m] # NoTask
    <3> SUFFICES ASSUME k.wait[m] # <<>> PROVE k.owner[m] # NoTask
      OBVIOUS
    <3>1. PICK t \in Task : Waits(k, t) /\ k.obj[t] = m
      BY <1>1, <1>2, NobodyWaits
    <3> QED BY <1>1, <3>1, MutexAssumption DEF Held
  <2> QED BY <1>1, <2>1, <2>2 DEF Held
<1>8. OwnersExact
  BY <1>7 DEF OwnersExact
<1> QED BY <1>3, <1>6, <1>8 DEF ListsExact

(* Every TCB is, once, in the list of its state and its priority, the lists   *)
(* of waiters are in the order of their priorities, and a mutex is in the     *)
(* group of its owner and in no other one: whatever task calls OSMutexPend,   *)
(* OSMutexPost, OSMutexPendAbort, OSMutexDel, OSTaskChangePrio and OSTaskDel, *)
(* and whatever waits the tick ends in between.                               *)
(* Neither preemption between the test of a mutex and its use nor the taking  *)
(* of a mutex after its deletion changes that; only OSMutexCreate does, for a *)
(* mutex that was taken so.                                                   *)
THEOREM SpecListsExact == Spec => []ListsExact
<1>1. Init => Sound
  BY InitSound
<1>2. Sound /\ [Next]_vars => Sound'
  BY StepSound
<1>3. Sound => ListsExact
  BY InvListsExact DEF Sound, ListsExact
<1> QED BY <1>1, <1>2, <1>3, PTL DEF Spec

(* OSMutexPend returns OS_ERR_NONE to the caller that owns the mutex from     *)
(* then on, who was the most urgent of those who waited, and to nobody else:  *)
(* of OSMutexPost, abort, deletion and timeout, just one ended its wait.      *)
THEOREM SpecGranted == Spec => Granted
<1>1. Init => Sound
  BY InitSound
<1>2. Sound /\ [Next]_vars => Sound'
  BY StepSound
<1>3. Sound /\ [Next]_vars =>
        [\A t \in Task :
           Waits(k, t) /\ ~Waits(k, t)' /\ k'.state[t] # "del" =>
             LET m == k.obj[t] IN
             /\ k'.status[t] = "ok" <=> k'.owner[m] = t
             /\ k'.owner[m] = t =>
                  \A u \in ToSet(k.wait[m]) : k.prio[t] <= k.prio[u]]_vars
  BY StepSound DEF Grant, Waits
<1> QED BY <1>1, <1>2, <1>3, PTL DEF Spec, Granted

-----------------------------------------------------------------------------
(* Priority inheritance.  n is the priority that a task of base priority b    *)
(* has to have while the tasks of C wait for what it owns.                    *)

Fit(pr, b, C, n) ==
  /\ n <= b /\ \A u \in C : n <= pr[u]
  /\ n = b \/ \E u \in C : n = pr[u]

Claims(s, X, x) == {u \in Task \ X : Waits(s, u) /\ s.owner[s.obj[u]] = x}
FitAt(s, X, x) == Fit(s.prio, s.base[x], Claims(s, X, x), s.prio[x])
Exact(s, X) == \A x \in Task : x \notin X /\ s.state[x] # "del" => FitAt(s, X, x)
ExactBut(s, X, o) ==
  \A x \in Task : x \notin X /\ x # o /\ s.state[x] # "del" => FitAt(s, X, x)

LEMMA PrioNat ==
  ASSUME NEW s \in Kernel PROVE s.prio \in [Task -> Nat] /\ s.base \in [Task -> Nat]
<1>1. /\ s.prio \in [Task -> 0 .. IdlePrio + 1] /\ s.base \in [Task -> 0 .. IdlePrio + 1]
  BY DEF Kernel
<1>2. 0 .. IdlePrio + 1 \subseteq Nat
  BY MutexAssumption
<1> QED BY <1>1, <1>2

(* When those who waited and do not any longer had another priority.          *)
LEMMA FitFewer ==
  ASSUME NEW pr, NEW b, NEW C, NEW D, D \subseteq C, NEW n, Fit(pr, b, C, n),
         n = b \/ \A u \in C : u \notin D => pr[u] # n
  PROVE  Fit(pr, b, D, n)
BY DEF Fit

LEMMA FitGrows ==
  ASSUME NEW pr \in [Task -> Nat], NEW b \in Nat, NEW C, NEW D, C \subseteq Task, D \subseteq C,
         NEW n \in Nat, NEW l \in Nat, Fit(pr, b, C, n), Fit(pr, b, D, l)
  PROVE  n <= l
BY DEF Fit

LEMMA FitSame ==
  ASSUME NEW pr, NEW qr, NEW b, NEW C, NEW n, Fit(pr, b, C, n), \A u \in C : qr[u] = pr[u]
  PROVE  Fit(qr, b, C, n)
BY DEF Fit

(* Steps that leave priorities and waits as they are, but for tasks that are  *)
(* deleted.                                                                   *)
Alike(s, X, r, Y) ==
  \A x \in Task :
    /\ (Waits(r, x) /\ x \notin Y) <=> (Waits(s, x) /\ x \notin X)
    /\ Waits(r, x) /\ x \notin Y => r.owner[r.obj[x]] = s.owner[s.obj[x]]
    /\ x \notin Y /\ r.state[x] # "del" =>
         /\ x \notin X /\ s.state[x] # "del"
         /\ r.prio[x] = s.prio[x] /\ r.base[x] = s.base[x]

LEMMA AlikeExact ==
  ASSUME NEW s, NEW X, NEW r, NEW Y, Alike(s, X, r, Y), Exact(s, X)
  PROVE  Exact(r, Y)
<1> SUFFICES ASSUME NEW x \in Task, x \notin Y, r.state[x] # "del" PROVE FitAt(r, Y, x)
  BY DEF Exact
<1>1. x \notin X /\ s.state[x] # "del" /\ r.prio[x] = s.prio[x] /\ r.base[x] = s.base[x]
  BY DEF Alike
<1>2. FitAt(s, X, x)
  BY <1>1 DEF Exact
<1>3. Claims(r, Y, x) = Claims(s, X, x)
  BY DEF Claims, Alike
<1>4. \A u \in Claims(r, Y, x) : r.prio[u] = s.prio[u]
  BY DEF Claims, Alike, Waits
<1>5. Fit(s.prio, s.base[x], Claims(r, Y, x), s.prio[x])
  BY <1>2, <1>3 DEF FitAt
<1>6. Fit(r.prio, s.base[x], Claims(r, Y, x), s.prio[x])
  BY <1>4, <1>5, FitSame
<1> QED BY <1>1, <1>6 DEF FitAt

(* A task that does not wait gets the priority it has to have.                *)
LEMMA FlatExact ==
  ASSUME NEW s \in Kernel, NEW X, NEW o \in Task, ~Waits(s, o), ExactBut(s, X, o), NEW p,
         Fit(s.prio, s.base[o], Claims(s, X, o), p),
         NEW r, Same(s, r), r.prio = [s.prio EXCEPT ![o] = p]
  PROVE  Exact(r, X)
<1> SUFFICES ASSUME NEW x \in Task, x \notin X, r.state[x] # "del" PROVE FitAt(r, X, x)
  BY DEF Exact
<1>1. \A u \in Task : r.prio[u] = IF u = o THEN p ELSE s.prio[u]
  <2>1. s.prio \in [Task -> 0 .. IdlePrio + 1]
    BY DEF Kernel
  <2> QED BY <2>1
<1>2. Claims(r, X, x) = Claims(s, X, x) /\ r.base = s.base /\ s.state[x] # "del"
  BY DEF Claims, Same, Waits
<1>3. \A u \in Claims(r, X, x) : r.prio[u] = s.prio[u]
  BY <1>1, <1>2 DEF Claims
<1>4. Fit(s.prio, r.base[x], Claims(r, X, x), r.prio[x])
  <2>1. CASE x = o
    BY <1>1, <1>2, <2>1
  <2>2. CASE x # o
    BY <1>1, <1>2, <2>2 DEF ExactBut, FitAt
  <2> QED BY <2>1, <2>2
<1> QED BY <1>3, <1>4, FitSame DEF FitAt

(* What FindHighest finds in the groups, the mutexes of M left out. *)
LEMMA RestoredFits ==
  ASSUME NEW s \in Kernel, NEW X, NEW M, Tcbs(s, X), Groups(s, M), Prios(s), NEW o \in Task,
         s.state[o] # "del", NEW C,
         C = {u \in Claims(s, X, o) : s.obj[u] \in Mutex /\ s.obj[u] \notin M}
  PROVE  Fit(s.prio, s.base[o], C, Restored(s, o))
<1>1. s.prio \in [Task -> Nat] /\ s.base[o] \in Prio
  BY PrioNat DEF Prios
<1>2. PICK f : f = FindHighest(s, o)
  OBVIOUS
<1>3. /\ f \in Prio
      /\ \A m \in ToSet(s.grp[o]) : s.wait[m] # <<>> =>
           s.prio[Head(s.wait[m])] \in Nat /\ f <= s.prio[Head(s.wait[m])]
      /\ \/ f = IdlePrio
         \/ \E m \in ToSet(s.grp[o]) : s.wait[m] # <<>> /\ f = s.prio[Head(s.wait[m])]
  BY <1>2, FindHighestIs
<1>4. ToSet(s.grp[o]) = Owned(s, M, o)
  BY DEF Groups, Lists
<1>5. ASSUME NEW m \in Mutex, s.wait[m] # <<>>
      PROVE  /\ Head(s.wait[m]) \in Task /\ Head(s.wait[m]) \notin X
             /\ Waits(s, Head(s.wait[m])) /\ s.obj[Head(s.wait[m])] = m
             /\ \A x \in Task : x \notin X /\ Waits(s, x) /\ s.obj[x] = m =>
                  s.prio[Head(s.wait[m])] <= s.prio[x]
  BY <1>5, HeadWaits
<1>6. ASSUME NEW u \in C PROVE f <= s.prio[u] /\ u \in Task
  <2>1. PICK m \in Mutex : m = s.obj[u]
    OBVIOUS
  <2>2. u \in Task /\ u \notin X /\ Waits(s, u) /\ s.owner[m] = o /\ m \notin M
    BY <2>1 DEF Claims
  <2>3. m \in ToSet(s.grp[o])
    BY <1>4, <2>2 DEF Owned
  <2>4. s.wait[m] # <<>>
    BY <2>1, <2>2, NobodyWaits
  <2>5. PICK h : h = Head(s.wait[m])
    OBVIOUS
  <2>6. h \in Task /\ s.prio[h] <= s.prio[u]
    BY <1>5, <2>1, <2>2, <2>4, <2>5
  <2>7. f <= s.prio[h]
    BY <1>3, <2>3, <2>4, <2>5
  <2>8. s.prio[h] \in Nat /\ s.prio[u] \in Nat /\ f \in Nat
    BY <1>1, <1>3, <2>2, <2>6, PrioIs
  <2> QED BY <2>2, <2>6, <2>7, <2>8
<1>7. f = IdlePrio \/ \E u \in C : f = s.prio[u]
  <2> SUFFICES ASSUME NEW m \in ToSet(s.grp[o]), s.wait[m] # <<>>, f = s.prio[Head(s.wait[m])]
               PROVE  \E u \in C : f = s.prio[u]
    BY <1>3
  <2>1. m \in Mutex /\ m \notin M /\ s.owner[m] = o
    BY <1>4 DEF Owned
  <2>2. Head(s.wait[m]) \in C
    BY <1>5, <2>1 DEF Claims
  <2> QED BY <2>2
<1>8. PICK b \in Prio : b = s.base[o]
  BY <1>1
<1>9. PICK n : n = Restored(s, o)
  OBVIOUS
<1>10. f \in Nat /\ b \in Nat /\ b <= IdlePrio /\ IdlePrio \in Nat
  BY <1>3, MutexAssumption DEF Prio
<1>11. n \in {f, b} /\ n <= f /\ n <= b
  BY <1>2, <1>8, <1>9, <1>10, LowerOf DEF Restored
<1>12. \A u \in C : n <= s.prio[u]
  <2> SUFFICES ASSUME NEW u \in C PROVE n <= s.prio[u]
    OBVIOUS
  <2>1. f <= s.prio[u] /\ s.prio[u] \in Nat
    BY <1>1, <1>6
  <2> QED BY <1>10, <1>11, <2>1
<1>13. n = b \/ \E u \in C : n = s.prio[u]
  BY <1>7, <1>10, <1>11
<1> QED BY <1>8, <1>9, <1>11, <1>12, <1>13 DEF Fit

LEMMA DisinheritExact ==
  ASSUME NEW s, NEW X, Legal(s, X, {}), Chain(s, X), NEW o \in Task, o \notin X,
         s.state[o] # "del", ~Waits(s, o), ExactBut(s, X, o), NEW C, NEW p,
         Claims(s, X, o) \subseteq C, Fit(s.prio, s.base[o], C, s.prio[o]),
         \A u \in C : u \notin Claims(s, X, o) => s.prio[u] = p,
         \A u \in Claims(s, X, o) : s.obj[u] \in Mutex
  PROVE  Exact(Disinherit(s, o, p), X)
<1>1. s \in Kernel /\ Tcbs(s, X) /\ Prios(s) /\ Groups(s, {})
  BY DEF Legal
<1>2. PICK D : D = Claims(s, X, o)
  OBVIOUS
<1>3. Fit(s.prio, s.base[o], D, Restored(s, o))
  <2>1. PICK M : M = {}
    OBVIOUS
  <2>2. D = {u \in Claims(s, X, o) : s.obj[u] \in Mutex /\ s.obj[u] \notin M}
    BY <1>2, <2>1
  <2> QED BY <1>1, <2>1, <2>2, RestoredFits
<1>4. PICK r : r = Disinherit(s, o, p)
  OBVIOUS
<1>5. CASE s.prio[o] # s.base[o] /\ s.prio[o] = p /\ Restored(s, o) # s.prio[o]
  <2>1. PICK q \in Prio : q = Restored(s, o)
    BY <1>1, RestoredIn
  <2>2. r = ChangePrio(s, o, q)
    BY <1>4, <1>5, <2>1 DEF Disinherit
  <2>3. Placed(s, X, o, q, r)
    BY <1>1, <2>2, ChangeFlat
  <2>4. Same(s, r) /\ r.prio = [s.prio EXCEPT ![o] = q]
    BY <2>3 DEF Placed
  <2>5. Exact(r, X)
    BY <1>1, <1>2, <1>3, <2>1, <2>4, FlatExact
  <2> QED BY <1>4, <2>5
<1>6. CASE ~(s.prio[o] # s.base[o] /\ s.prio[o] = p /\ Restored(s, o) # s.prio[o])
  <2>1. r = s
    BY <1>4, <1>6 DEF Disinherit
  <2>2. Fit(s.prio, s.base[o], D, s.prio[o])
    <3>1. CASE s.prio[o] = s.base[o] \/ s.prio[o] # p
      BY <1>2, <3>1, FitFewer
    <3>2. CASE Restored(s, o) = s.prio[o]
      BY <1>3, <3>2
    <3> QED BY <1>6, <3>1, <3>2
  <2>3. FitAt(s, X, o)
    BY <1>2, <2>2 DEF FitAt
  <2>4. Exact(s, X)
    BY <2>3 DEF Exact, ExactBut
  <2> QED BY <1>4, <2>1, <2>4
<1> QED BY <1>5, <1>6

(* Where ChainsRiseOnly holds, owners of Loose mutexes do not wait.           *)

LEMMA WaitingOwner ==
  ASSUME NEW s, NEW M, Legal(s, {}, M), NEW m \in Mutex, m \notin M, NEW o \in Task,
         s.owner[m] = o, Waits(s, o)
  PROVE  o \in Nester /\ s.obj[o] \in Mutex /\ Rank[m] < Rank[s.obj[o]]
<1>1. Groups(s, M) /\ Held(s) /\ Callers(s)
  BY DEF Legal
<1>2. m \in ToSet(s.grp[o])
  <2>1. ToSet(s.grp[o]) = Owned(s, M, o)
    BY <1>1 DEF Groups, Lists
  <2> QED BY <2>1 DEF Owned
<1>3. s.grp[o] # <<>>
  BY <1>2 DEF ToSet
<1> QED BY <1>1, <1>2, <1>3 DEF Callers, Held

LEMMA OwnerFree ==
  ASSUME ChainsRiseOnly, NEW s, Legal(s, {}, {}), NEW m \in Mutex, NEW o \in Task, s.owner[m] = o,
         m \in Loose \/ \E t \in Timed \cup (Deletable \cap Waiter) : t # o
  PROVE  ~Waits(s, o)
<1> SUFFICES ASSUME Waits(s, o) PROVE FALSE
  OBVIOUS
<1>1. PICK M : M = {}
  OBVIOUS
<1>2. o \in Nester /\ s.obj[o] \in Mutex /\ Rank[m] < Rank[s.obj[o]]
  BY <1>1, WaitingOwner
<1>3. Rank[m] \in Nat /\ Rank[s.obj[o]] \in Nat
  BY <1>2, MutexAssumption
<1> QED BY <1>2, <1>3 DEF ChainsRiseOnly

(* The end of a wait for an owner that does not wait: abort and timeout.      *)
LEMMA StoppedExact ==
  ASSUME NEW s, Legal(s, {}, {}), Exact(s, {}), NEW t \in Task, Waits(s, t),
         NEW st \in {"ok", "abort", "timeout", "del"}, ~Waits(s, s.owner[s.obj[t]])
  PROVE  Exact(Disinherit(Wake(s, t, st), s.owner[s.obj[t]], s.prio[t]), {})
<1>1. s \in Kernel /\ Held(s)
  BY DEF Legal
<1>2. PICK o : o = s.owner[s.obj[t]]
  OBVIOUS
<1>3. o \in Task /\ o # t /\ s.state[o] # "del"
  <2>1. PICK m \in Mutex : m = s.obj[t]
    BY <1>1 DEF Held
  <2>2. s.owner[m] = o /\ o \in Task /\ o # t
    BY <1>1, <1>2, <2>1 DEF Held
  <2>3. s.owner[m] # NoTask
    BY <2>2, MutexAssumption
  <2>4. s.state[s.owner[m]] # "del"
    BY <1>1, <2>3 DEF Held
  <2> QED BY <2>2, <2>4
<1>4. PICK a : a = Wake(s, t, st)
  OBVIOUS
<1>5. PICK X : X = {}
  OBVIOUS
<1>6. Legal(a, X, {}) /\ Ended(s, t, st, a)
  BY <1>4, <1>5, LegalWake
<1>7. a.prio = s.prio /\ a.base = s.base /\ a.owner = s.owner
  BY <1>6 DEF Ended
<1>8. /\ ~Waits(a, t)
      /\ \A x \in Task : x # t => /\ a.state[x] = s.state[x] /\ a.obj[x] = s.obj[x]
                                  /\ (Waits(a, x) <=> Waits(s, x))
  BY <1>1, <1>6, EndedWaits
<1>9. PICK C : C = Claims(s, X, o)
  OBVIOUS
<1>10. Claims(a, X, o) = C \ {t}
  BY <1>5, <1>7, <1>8, <1>9 DEF Claims
<1>11. ExactBut(a, X, o)
  <2> SUFFICES ASSUME NEW x \in Task, x # o, a.state[x] # "del" PROVE FitAt(a, X, x)
    BY DEF ExactBut
  <2>1. Claims(a, X, x) = Claims(s, X, x)
    BY <1>2, <1>5, <1>7, <1>8 DEF Claims
  <2>2. FitAt(s, X, x)
    BY <1>5, <1>8 DEF Exact, Waits
  <2> QED BY <1>7, <2>1, <2>2 DEF FitAt
<1>12. Fit(a.prio, a.base[o], C, a.prio[o])
  BY <1>3, <1>5, <1>7, <1>9 DEF Exact, FitAt
<1>13. \A u \in C : u \notin Claims(a, X, o) => a.prio[u] = s.prio[t]
  BY <1>7, <1>10
<1>14. Chain(a, X) /\ \A u \in Claims(a, X, o) : a.obj[u] \in Mutex
  <2>1. Held(a)
    BY <1>6 DEF Legal
  <2> QED BY <1>5, <2>1, HeldChain DEF Held, Claims
<1>15. a.state[o] # "del" /\ ~Waits(a, o) /\ o \notin X /\ Claims(a, X, o) \subseteq C
  BY <1>2, <1>3, <1>5, <1>8, <1>10
<1>16. Exact(Disinherit(a, o, s.prio[t]), X)
  BY <1>3, <1>6, <1>11, <1>12, <1>13, <1>14, <1>15, DisinheritExact
<1> QED BY <1>2, <1>4, <1>5, <1>16

-----------------------------------------------------------------------------
(* OSMutexPend: t waits for a mutex of o, and its priority p goes from owner  *)
(* to owner.                                                                  *)

(* Everyone of S but y has the priority that it has to have. *)
AllFit(S, pr, base, C, y) == \A x \in S : x # y => Fit(pr, base[x], C[x], pr[x])

(* y waits for z alone, or for nobody. *)
Only(C, y, z) == (\A x \in Task : x # z => y \notin C[x]) /\ (z \in Task => y \in C[z])

(* y gets the priority p, which stops at z or goes on from z. *)
Raised(S, pr, qr, base, C, y, z, p) ==
  /\ qr \in [Task -> Nat] /\ AllFit(S, qr, base, C, z)
  /\ z \in S /\ pr[z] <= p => AllFit(S, qr, base, C, y) /\ Fit(qr, base[y], C[y], qr[y])
  /\ z \in S /\ p < pr[z] => p < qr[z] /\ Fit(qr, base[z], C[z], p)

LEMMA RaiseOne ==
  ASSUME NEW S, S \subseteq Task, NEW pr \in [Task -> Nat], NEW base \in [Task -> Nat],
         NEW C \in [Task -> SUBSET Task], NEW y \in Task, NEW p \in Nat, p < pr[y],
         AllFit(S, pr, base, C, y), Fit(pr, base[y], C[y], p), y \notin C[y],
         NEW z, z # y, Only(C, y, z), NEW qr, qr = [pr EXCEPT ![y] = p]
  PROVE  Raised(S, pr, qr, base, C, y, z, p)
<1> USE DEF Only
<1>1. qr \in [Task -> Nat] /\ qr[y] = p /\ \A x \in Task : x # y => qr[x] = pr[x]
  OBVIOUS
<1>2. Fit(qr, base[y], C[y], p)
  <2>1. \A u \in C[y] : qr[u] = pr[u]
    BY <1>1
  <2> QED BY <2>1, FitSame
<1>3. ASSUME NEW x \in S, x # z PROVE Fit(qr, base[x], C[x], qr[x])
  <2>1. CASE x = y
    BY <1>1, <1>2, <2>1
  <2>2. CASE x # y
    <3>1. Fit(pr, base[x], C[x], pr[x])
      BY <2>2 DEF AllFit
    <3>2. \A u \in C[x] : qr[u] = pr[u]
      BY <1>1, <1>3
    <3>3. qr[x] = pr[x]
      BY <1>1, <2>2
    <3> QED BY <3>1, <3>2, <3>3, FitSame
  <2> QED BY <2>1, <2>2
<1>4. AllFit(S, qr, base, C, z)
  BY <1>3 DEF AllFit
<1>5. ASSUME z \in S PROVE /\ Fit(pr, base[z], C[z], pr[z]) /\ z \in Task /\ y \in C[z]
                           /\ qr[z] = pr[z] /\ base[z] \in Nat /\ pr[z] \in Nat
                           /\ \A u \in C[z] : pr[u] \in Nat /\ (u # y => qr[u] = pr[u])
  BY <1>1, <1>5 DEF AllFit
<1>6. ASSUME z \in S, pr[z] <= p PROVE Fit(qr, base[z], C[z], qr[z])
  <2>1. pr[z] # pr[y]
    BY <1>5, <1>6
  <2>2. \A u \in C[z] : qr[z] <= qr[u]
    BY <1>1, <1>5, <1>6 DEF Fit
  <2>3. qr[z] = base[z] \/ \E u \in C[z] : qr[z] = qr[u]
    BY <1>1, <1>5, <1>6, <2>1 DEF Fit
  <2> QED BY <1>5, <1>6, <2>2, <2>3 DEF Fit
<1>7. ASSUME z \in S, p < pr[z] PROVE Fit(qr, base[z], C[z], p)
  <2>1. pr[z] <= base[z] /\ \A u \in C[z] : pr[z] <= pr[u]
    BY <1>5, <1>7 DEF Fit
  <2>2. p <= base[z]
    BY <1>5, <1>7, <2>1
  <2>3. \A u \in C[z] : p <= qr[u]
    BY <1>1, <1>5, <1>7, <2>1
  <2>4. y \in C[z] /\ p = qr[y]
    BY <1>1, <1>5, <1>7
  <2> QED BY <2>2, <2>3, <2>4 DEF Fit
<1>8. z \in S /\ pr[z] <= p => AllFit(S, qr, base, C, y)
  BY <1>3, <1>6 DEF AllFit
<1> QED BY <1>1, <1>2, <1>4, <1>5, <1>7, <1>8 DEF Raised

Alive(s) == {x \in Task : s.state[x] # "del"}
Above(pr, p) == {x \in Task : pr[x] > p}

(* The tasks that have claims on x when t waits for a mutex of o, too. *)
Asked(s, t, o) ==
  [x \in Task |-> {u \in Task : Waits(s, u) /\ s.owner[s.obj[u]] = x} \cup
                  (IF x = o THEN {t} ELSE {})]

(* The rounds of this change of priority: each takes a task out of Above.     *)
Raises(s, t, o, p, n) ==
  {c \in Rounds(s, {}) :
     /\ c.s.prio[t] = p
     /\ AllFit(Alive(s), c.s.prio, s.base, Asked(s, t, o), c.t)
     /\ c.t # NoTask =>
          /\ c.t \in Alive(s) /\ p < c.s.prio[c.t] /\ c.p = p
          /\ Fit(c.s.prio, s.base[c.t], Asked(s, t, o)[c.t], p)
          /\ Cardinality(Above(c.s.prio, p)) <= n}

LEMMA AboveLess ==
  ASSUME NEW pr \in [Task -> Nat], NEW p \in Nat, NEW y \in Task, p < pr[y],
         NEW qr, qr = [pr EXCEPT ![y] = p], NEW n \in Nat, Cardinality(Above(pr, p)) <= n
  PROVE  Cardinality(Above(qr, p)) <= n - 1 /\ n # 0
<1>1. PICK S : S = Above(pr, p)
  OBVIOUS
<1>2. PICK T : T = Above(qr, p)
  OBVIOUS
<1>3. T = S \ {y} /\ y \in S /\ S \subseteq Task
  BY <1>1, <1>2 DEF Above
<1>4. IsFiniteSet(S)
  BY <1>3, MutexAssumption, FS_Subset
<1>5. Cardinality(S \ {y}) = Cardinality(S) - 1
  BY <1>3, <1>4, FS_RemoveElement
<1>6. Cardinality(S) \in Nat /\ Cardinality(S \ {y}) \in Nat
  <2>1. IsFiniteSet(S \ {y})
    BY <1>4, FS_RemoveElement
  <2> QED BY <1>4, <2>1, FS_CardinalityType
<1>7. PICK a \in Nat : a = Cardinality(S)
  BY <1>6
<1>8. PICK b \in Nat : b = Cardinality(S \ {y})
  BY <1>6
<1>9. a <= n /\ b = a - 1
  BY <1>1, <1>5, <1>7, <1>8
<1>10. b <= n - 1 /\ n # 0
  BY <1>9
<1> QED BY <1>2, <1>3, <1>8, <1>10

LEMMA RaisesStep ==
  ASSUME NEW s, Legal(s, {}, {}), NEW t \in Task, ~Waits(s, t), NEW o \in Task, o # t,
         NEW p \in Prio, NEW n \in Nat, NEW c \in Raises(s, t, o, p, n), c.t # NoTask
  PROVE  ChangeOne(c) \in Raises(s, t, o, p, n - 1) /\ n # 0
<1>1. s \in Kernel /\ Held(s)
  BY DEF Legal
<1>2. PICK X : X = {}
  OBVIOUS
<1>3. PICK y : y = c.t
  OBVIOUS
<1>4. PICK C : C = Asked(s, t, o)
  OBVIOUS
<1>5. PICK S : S = Alive(s)
  OBVIOUS
<1>6. PICK base : base = s.base
  OBVIOUS
<1>7. PICK pr : pr = c.s.prio
  OBVIOUS
<1>8. /\ c \in Rounds(s, X) /\ pr[t] = p /\ c.p = p /\ AllFit(S, pr, base, C, y)
      /\ y \in S /\ p < pr[y] /\ Fit(pr, base[y], C[y], p) /\ Cardinality(Above(pr, p)) <= n
  BY <1>2, <1>3, <1>4, <1>5, <1>6, <1>7 DEF Raises
<1>9. c.s \in Kernel /\ Same(s, c.s) /\ Tcbs(c.s, X) /\ Prios(c.s)
  BY <1>8 DEF Rounds
<1>10. /\ S \subseteq Task /\ pr \in [Task -> Nat] /\ base \in [Task -> Nat] /\ p \in Nat
       /\ C \in [Task -> SUBSET Task] /\ y \in Task /\ y # t
  <2>1. pr \in [Task -> Nat] /\ base \in [Task -> Nat]
    BY <1>1, <1>6, <1>7, <1>9, PrioNat
  <2>2. S \subseteq Task /\ C \in [Task -> SUBSET Task] /\ y \in Task
    BY <1>4, <1>5, <1>8 DEF Alive, Asked
  <2>3. p \in Nat
    BY PrioIs
  <2> QED BY <1>8, <2>1, <2>2, <2>3
<1>11. \A x \in Task : y \in C[x] <=> Waits(s, y) /\ s.owner[s.obj[y]] = x
  BY <1>4, <1>10 DEF Asked
<1>12. y \notin C[y]
  BY <1>1, <1>10, <1>11 DEF Held
<1>13. PICK z : z = IF Waits(s, y) THEN s.owner[s.obj[y]] ELSE NoTask
  OBVIOUS
<1>14. Waits(s, y) => z \in Task /\ z # y /\ z \in S
  <2> SUFFICES ASSUME Waits(s, y) PROVE z \in Task /\ z # y /\ z \in S
    OBVIOUS
  <2>1. PICK m \in Mutex : m = s.obj[y]
    BY <1>1, <1>10 DEF Held
  <2>2. s.owner[m] = z /\ z \in Task /\ z # y
    BY <1>1, <1>10, <1>13, <2>1 DEF Held
  <2>3. s.owner[m] # NoTask
    BY <2>2, MutexAssumption
  <2>4. s.state[s.owner[m]] # "del"
    BY <1>1, <2>3 DEF Held
  <2> QED BY <1>5, <2>2, <2>4 DEF Alive
<1>15. z # y /\ Only(C, y, z)
  BY <1>10, <1>11, <1>13, <1>14, MutexAssumption DEF Only
<1>16. PICK qr : qr = [pr EXCEPT ![y] = p]
  OBVIOUS
<1>170. Raised(S, pr, qr, base, C, y, z, p)
  BY <1>8, <1>10, <1>12, <1>15, <1>16, RaiseOne
<1>17. /\ qr \in [Task -> Nat] /\ AllFit(S, qr, base, C, z)
       /\ z \in S /\ pr[z] <= p => AllFit(S, qr, base, C, y) /\ Fit(qr, base[y], C[y], qr[y])
       /\ z \in S /\ p < pr[z] => p < qr[z] /\ Fit(qr, base[z], C[z], p)
  BY <1>170 DEF Raised
<1>18. PICK d : d = ChangeOne(c)
  OBVIOUS
<1>19. Chain(c.s, X)
  BY <1>1, <1>2, <1>9, HeldChain, SameChain
<1>20. /\ c.s.state[y] # "del" => Placed(c.s, X, y, p, d.s)
       /\ ~Waits(c.s, y) => d.t = NoTask
       /\ Waits(c.s, y) =>
            /\ d.t \in {NoTask, c.s.owner[c.s.obj[y]]}
            /\ p < c.s.prio[y] =>
                 /\ d.p = p
                 /\ d.t = NoTask <=> c.s.prio[c.s.owner[c.s.obj[y]]] <= p
  <2>1. y \notin X /\ c.s = c.s /\ c.t = y /\ c.p = p
    BY <1>2, <1>3, <1>8
  <2> QED BY <1>9, <1>10, <1>18, <1>19, <2>1, ChangeOneIs
<1>21. Placed(c.s, X, y, p, d.s)
  BY <1>5, <1>8, <1>9, <1>20 DEF Alive, Same
<1>22. d.s.prio = qr
  BY <1>7, <1>16, <1>21 DEF Placed
<1>23. /\ ~Waits(s, y) => d.t = NoTask
       /\ Waits(s, y) => d.t \in {NoTask, z} /\ d.p = p /\ (d.t = NoTask <=> pr[z] <= p)
  <2>1. (Waits(c.s, y) <=> Waits(s, y)) /\ c.s.owner = s.owner /\ c.s.obj = s.obj
    BY <1>9 DEF Same, Waits
  <2> QED BY <1>7, <1>8, <1>13, <1>20, <2>1
<1>24. d \in Rounds(s, X)
  <2>1. Chain(s, X) /\ NoTask \notin X
    BY <1>1, <1>2, HeldChain
  <2> QED BY <1>8, <1>18, <2>1, RoundKeeps
<1>25. qr[t] = p
  BY <1>8, <1>10, <1>16
<1>26. Cardinality(Above(qr, p)) <= n - 1 /\ n # 0
  BY <1>8, <1>10, <1>16, AboveLess
<1>27. AllFit(S, qr, base, C, d.t)
  <2>1. CASE ~Waits(s, y)
    BY <1>13, <1>17, <1>23, <2>1
  <2>2. CASE Waits(s, y) /\ pr[z] <= p
    <3>1. AllFit(S, qr, base, C, y) /\ Fit(qr, base[y], C[y], qr[y])
      BY <1>14, <1>17, <2>2
    <3> QED BY <3>1 DEF AllFit
  <2>3. CASE Waits(s, y) /\ ~(pr[z] <= p)
    BY <1>17, <1>23, <2>3
  <2> QED BY <2>1, <2>2, <2>3
<1>28. ASSUME d.t # NoTask
       PROVE  d.t \in S /\ p < qr[d.t] /\ d.p = p /\ Fit(qr, base[d.t], C[d.t], p)
  <2>1. Waits(s, y) /\ d.t = z /\ d.p = p /\ ~(pr[z] <= p)
    BY <1>23, <1>28
  <2>2. z \in Task /\ z \in S
    BY <1>14, <2>1
  <2>3. p < pr[z]
    BY <1>10, <2>1, <2>2
  <2> QED BY <1>17, <2>1, <2>2, <2>3
<1>29. d \in Raises(s, t, o, p, n - 1)
  BY <1>2, <1>4, <1>5, <1>6, <1>22, <1>24, <1>25, <1>26, <1>27, <1>28 DEF Raises
<1> QED BY <1>18, <1>26, <1>29

LEMMA RaiseExact ==
  ASSUME NEW s, Legal(s, {}, {}), Exact(s, {}), NEW t \in Task, ~Waits(s, t), NEW o \in Task,
         o # t, s.state[o] # "del", NEW p \in Prio, p = s.prio[t], s.prio[o] > p
  PROVE  LET r == ChangePrio(s, o, p)
         IN  r.prio[t] = p /\ AllFit(Alive(s), r.prio, s.base, Asked(s, t, o), NoTask)
<1>1. s \in Kernel /\ Tcbs(s, {}) /\ Prios(s)
  BY DEF Legal
<1>2. PICK X : X = {}
  OBVIOUS
<1>3. PICK n \in Nat : n = Cardinality(Task)
  BY SomeTasks
<1>4. PICK b : b = Start(s, o, p)
  OBVIOUS
<1>5. b.s = s /\ b.t = o /\ b.p = p
  BY <1>4 DEF Start
<1> DEFINE l == Steps(n)
           R == [i \in 0 .. n |-> Raises(s, t, o, p, n - i)]
<1>6. PICK f : IsFold(f, "change", 0, b, l, n) /\ ChangePrio(s, o, p) = f[1 .. n].s
  BY <1>3, <1>4, ChangeFold
<1>7. /\ s.prio \in [Task -> Nat] /\ s.base \in [Task -> Nat] /\ p \in Nat
  BY <1>1, PrioNat, PrioIs
<1>8. b \in Raises(s, t, o, p, n)
  <2>1. b \in Rounds(s, X)
    <3>1. b \in [s : Kernel, t : Task \cup {NoTask}, p : Prio]
      BY <1>1, <1>4 DEF Start
    <3>2. Same(s, s)
      BY DEF Same
    <3> QED BY <1>1, <1>2, <1>5, <3>1, <3>2 DEF Rounds
  <2>2. \A x \in Task : x # o => Asked(s, t, o)[x] = Claims(s, X, x)
    BY <1>2 DEF Asked, Claims
  <2>3. Asked(s, t, o)[o] = Claims(s, X, o) \cup {t}
    BY <1>2 DEF Asked, Claims
  <2>4. AllFit(Alive(s), s.prio, s.base, Asked(s, t, o), o)
    BY <1>2, <2>2 DEF AllFit, Alive, Exact, FitAt
  <2>5. Fit(s.prio, s.base[o], Claims(s, X, o), s.prio[o])
    BY <1>2 DEF Exact, FitAt
  <2>6. Fit(s.prio, s.base[o], Asked(s, t, o)[o], p)
    <3>1. p <= s.base[o]
      BY <1>7, <2>5 DEF Fit
    <3>2. \A u \in Claims(s, X, o) : p <= s.prio[u]
      BY <1>7, <2>5 DEF Fit, Claims
    <3> QED BY <1>7, <2>3, <3>1, <3>2 DEF Fit
  <2>7. Cardinality(Above(s.prio, p)) <= n
    <3>1. PICK A : A = Above(s.prio, p)
      OBVIOUS
    <3>2. A \subseteq Task
      BY <3>1 DEF Above
    <3> QED BY <1>3, <3>1, <3>2, MutexAssumption, FS_Subset
  <2> QED BY <1>2, <1>5, <1>7, <2>1, <2>4, <2>6, <2>7 DEF Raises, Alive
<1>9. b \in R[0]
  BY <1>8
<1>10. ASSUME NEW i \in 1 .. n, NEW c \in R[i - 1] PROVE Combine("change", 0, c, l[i]) \in R[i]
  <2>1. c \in Raises(s, t, o, p, n - (i - 1))
    OBVIOUS
  <2>2. PICK h \in Nat : h = n - (i - 1)
    OBVIOUS
  <2>3. h - 1 = n - i
    BY <2>2
  <2>4. Combine("change", 0, c, l[i]) = IF c.t = NoTask THEN c ELSE ChangeOne(c)
    BY DEF Combine
  <2>5. Combine("change", 0, c, l[i]) \in Raises(s, t, o, p, h - 1)
    <3>1. CASE c.t = NoTask
      <4>1. c \in Raises(s, t, o, p, h - 1)
        BY <2>1, <3>1 DEF Raises
      <4> QED BY <2>4, <3>1, <4>1
    <3>2. CASE c.t # NoTask
      <4>1. c \in Raises(s, t, o, p, h)
        BY <2>1, <2>2
      <4>2. ChangeOne(c) \in Raises(s, t, o, p, h - 1)
        BY <3>2, <4>1, RaisesStep
      <4> QED BY <2>4, <3>2, <4>2
    <3> QED BY <3>1, <3>2
  <2> HIDE DEF l
  <2> QED BY <2>3, <2>5
<1>11. f[1 .. n] \in R[n]
  <2> HIDE DEF R, l
  <2> QED BY <1>6, <1>9, <1>10, FoldIn
<1>12. PICK c : c = f[1 .. n]
  OBVIOUS
<1>13. PICK h \in Nat : h = 0 /\ c \in Raises(s, t, o, p, h)
  BY <1>11, <1>12
<1>14. c.t = NoTask
  BY <1>13, RaisesStep
<1> QED BY <1>6, <1>12, <1>13, <1>14 DEF Raises

-----------------------------------------------------------------------------
(* The steps: everyone has the priority it has to have.  InvX is what they    *)
(* keep.                                                                      *)

InvX == Inv /\ Exact(k, {})

LEMMA AlikeNow ==
  ASSUME Exact(k, {}), NEW r, k' = r, r.prio = k.prio, r.base = k.base,
         \A x \in Task : /\ Waits(r, x) <=> Waits(k, x)
                         /\ r.state[x] # "del" => k.state[x] # "del",
         \A x \in Task : Waits(r, x) => r.owner[r.obj[x]] = k.owner[k.obj[x]]
  PROVE  Exact(k', {})
<1>1. PICK X : X = {}
  OBVIOUS
<1>2. Alike(k, X, r, X)
  BY DEF Alike
<1>3. Exact(r, X)
  BY <1>1, <1>2, AlikeExact
<1> QED BY <1>1, <1>3

LEMMA PendTakeExact ==
  ASSUME InvX, NEW m \in Mutex, PendTake(m) PROVE Exact(k', {})
<1>1. k \in Kernel /\ Held(k) /\ Exact(k, {})
  BY DEF InvX, Inv, Legal
<1>2. PICK t : t = k.cur
  OBVIOUS
<1>3. PICK r : r = Own(k, t, m)
  OBVIOUS
<1>4. k' = r /\ k.nest[m] = 0
  BY <1>2, <1>3 DEF PendTake
<1>5. /\ r.prio = k.prio /\ r.base = k.base /\ r.state = k.state /\ r.obj = k.obj
      /\ r.owner = [k.owner EXCEPT ![m] = t]
  BY <1>1, <1>3 DEF Own, Kernel
<1>6. ASSUME NEW x \in Task, Waits(r, x) PROVE r.owner[r.obj[x]] = k.owner[k.obj[x]]
  <2>1. k.owner[m] = NoTask
    BY <1>1, <1>4 DEF Held
  <2>2. k.obj[x] \in Mutex /\ k.owner[k.obj[x]] \in Task
    BY <1>1, <1>5, <1>6 DEF Held, Waits
  <2>3. k.owner \in [Mutex -> Task \cup {NoTask}]
    BY <1>1 DEF Kernel
  <2> QED BY <1>5, <2>1, <2>2, <2>3, MutexAssumption
<1> QED BY <1>1, <1>4, <1>5, <1>6, AlikeNow DEF Waits

LEMMA PostFreeExact ==
  ASSUME InvX, NEW m \in Mutex, PostFree(m) PROVE Exact(k', {})
<1>1. k \in Kernel /\ Tcbs(k, {}) /\ Groups(k, {}) /\ Exact(k, {}) /\ Held(k)
  BY DEF InvX, Inv, Legal
<1>2. k.wait[m] = <<>>
  BY DEF PostFree
<1>3. PICK r : r = Disown(Ungroup(k, m), m)
  OBVIOUS
<1>4. k' = r
  BY <1>3 DEF PostFree
<1>5. /\ r.prio = k.prio /\ r.base = k.base /\ r.state = k.state /\ r.obj = k.obj
      /\ r.owner = [k.owner EXCEPT ![m] = NoTask]
  BY <1>1, <1>3 DEF Disown, Ungroup, Kernel
<1>6. ASSUME NEW x \in Task, Waits(r, x) PROVE r.owner[r.obj[x]] = k.owner[k.obj[x]]
  <2>1. PICK X : X = {}
    OBVIOUS
  <2>2. k.obj[x] \in Mutex /\ Waits(k, x)
    BY <1>1, <1>5, <1>6 DEF Held, Waits
  <2>3. k.obj[x] # m
    BY <1>1, <1>2, <2>1, <2>2, NobodyWaits
  <2>4. k.owner \in [Mutex -> Task \cup {NoTask}]
    BY <1>1 DEF Kernel
  <2> QED BY <1>5, <2>2, <2>3, <2>4
<1> QED BY <1>1, <1>4, <1>5, <1>6, AlikeNow DEF Waits

(* PendNest, PostNested, MutexCreate, OSSched and OSIntExit. *)
LEMMA OtherExact ==
  ASSUME InvX,
         \/ \E m \in Mutex : PendNest(m) \/ PostNested(m) \/ MutexCreate(m)
         \/ OSSched \/ OSIntExit \/ UNCHANGED k
  PROVE  Exact(k', {})
<1>1. k \in Kernel /\ Exact(k, {})
  BY DEF InvX, Inv, Legal
<1>2. PICK r : r = k'
  OBVIOUS
<1>3. /\ r.prio = k.prio /\ r.base = k.base /\ r.state = k.state /\ r.obj = k.obj
      /\ r.owner = k.owner
  <2>1. CASE \E m \in Mutex : PendNest(m) \/ PostNested(m) \/ MutexCreate(m)
    BY <1>1, <1>2, <2>1 DEF PendNest, PostNested, MutexCreate, Kernel
  <2>2. CASE OSSched \/ OSIntExit
    <3>1. r = Sched(k)
      BY <1>2, <2>2 DEF OSSched, OSIntExit
    <3> QED BY <3>1, LegalSched DEF InvX, Inv
  <2>3. CASE UNCHANGED k
    BY <1>2, <2>3
  <2> QED BY <2>1, <2>2, <2>3
<1> QED BY <1>1, <1>2, <1>3, AlikeNow DEF Waits

LEMMA DelayExact == ASSUME InvX, Delay PROVE Exact(k', {})
<1>1. k \in Kernel /\ Exact(k, {}) /\ Inv
  BY DEF InvX, Inv, Legal
<1>2. PICK t : t = k.cur
  OBVIOUS
<1>3. t \in Task /\ k.state[t] = "rdy"
  BY <1>1, <1>2, RunningIs DEF Delay, Running
<1>4. PICK r : r = [RdyRemove(k, t) EXCEPT !.state[t] = "dly"]
  OBVIOUS
<1>5. k' = r
  BY <1>2, <1>4 DEF Delay, Call
<1>6. /\ r.prio = k.prio /\ r.base = k.base /\ r.obj = k.obj /\ r.owner = k.owner
      /\ r.state = [k.state EXCEPT ![t] = "dly"]
  BY <1>1, <1>4 DEF RdyRemove, Kernel
<1>7. \A x \in Task : /\ Waits(r, x) <=> Waits(k, x)
                      /\ r.state[x] # "del" => k.state[x] # "del"
  <2>1. k.state \in [Task -> {"rdy", "dly", "pend", "pendTimeout", "del"}]
    BY <1>1 DEF Kernel
  <2> QED BY <1>3, <1>6, <2>1 DEF Waits
<1> QED BY <1>1, <1>5, <1>6, <1>7, AlikeNow

LEMMA ExpireExact ==
  ASSUME ChainsRiseOnly, InvX, NEW t \in Task, Expire(t) PROVE Exact(k', {})
<1>1. k \in Kernel /\ Exact(k, {}) /\ Legal(k, {}, {}) /\ Held(k) /\ Callers(k)
  BY DEF InvX, Inv, Legal
<1>2. CASE k.state[t] = "dly" /\ k' = RdyInsert([k EXCEPT !.state[t] = "rdy"], t)
  <2>1. PICK a : a = [k EXCEPT !.state[t] = "rdy"]
    OBVIOUS
  <2>2. PICK r : r = RdyInsert(a, t)
    OBVIOUS
  <2>3. /\ a.prio = k.prio /\ a.base = k.base /\ a.obj = k.obj /\ a.owner = k.owner
        /\ a.state = [k.state EXCEPT ![t] = "rdy"]
    BY <1>1, <2>1 DEF Kernel
  <2>4. a \in Kernel
    <3>1. [k.state EXCEPT ![t] = "rdy"] \in [Task -> {"rdy", "dly", "pend", "pendTimeout", "del"}]
      BY <1>1 DEF Kernel
    <3> QED BY <1>1, <2>1, <2>3, <3>1 DEF Kernel
  <2>5. /\ r.prio = a.prio /\ r.base = a.base /\ r.obj = a.obj /\ r.owner = a.owner
        /\ r.state = a.state
    BY <2>2, <2>4 DEF RdyInsert, RdyTail, RdyHead, Kernel
  <2>6. \A x \in Task : /\ Waits(r, x) <=> Waits(k, x)
                        /\ r.state[x] # "del" => k.state[x] # "del"
    <3>1. k.state \in [Task -> {"rdy", "dly", "pend", "pendTimeout", "del"}]
      BY <1>1 DEF Kernel
    <3> QED BY <1>2, <2>3, <2>5, <3>1 DEF Waits
  <2>7. k' = r
    BY <1>2, <2>1, <2>2
  <2> QED BY <1>1, <2>3, <2>5, <2>6, <2>7, AlikeNow
<1>3. CASE /\ k.state[t] = "pendTimeout"
           /\ k' = Disinherit(Wake(k, t, "timeout"), k.owner[k.obj[t]], k.prio[t])
  <2>1. Waits(k, t)
    BY <1>3 DEF Waits
  <2>2. PICK m \in Mutex : m = k.obj[t]
    BY <1>1, <2>1 DEF Held
  <2>3. PICK o \in Task : o = k.owner[m] /\ o # t
    BY <1>1, <2>1, <2>2 DEF Held
  <2>4. t \in Timed \cup (Deletable \cap Waiter)
    BY <1>1, <1>3, <2>1 DEF Callers
  <2>5. ~Waits(k, o)
    BY <1>1, <2>3, <2>4, OwnerFree
  <2>6. ~Waits(k, k.owner[k.obj[t]])
    BY <2>2, <2>3, <2>5
  <2>7. PICK st \in {"ok", "abort", "timeout", "del"} : st = "timeout"
    OBVIOUS
  <2>8. Exact(Disinherit(Wake(k, t, st), k.owner[k.obj[t]], k.prio[t]), {})
    BY <1>1, <2>1, <2>6, StoppedExact
  <2> QED BY <1>3, <2>7, <2>8
<1> QED BY <1>2, <1>3 DEF Expire

LEMMA TaskChangePrioExact ==
  ASSUME ChainsRiseOnly, InvX, NEW t \in Task, NEW p \in Prio, TaskChangePrio(t, p)
  PROVE  Exact(k', {})
<1>1. k \in Kernel /\ Exact(k, {}) /\ Legal(k, {}, {}) /\ Callers(k)
  BY DEF InvX, Inv, Legal
<1>2. k.state[t] # "del" /\ ~Waits(k, t)
  <2>1. <<t, p>> \in Moves
    BY DEF TaskChangePrio
  <2>2. t \notin Waiter
    <3>1. PICK v : v = <<t, p>>
      OBVIOUS
    <3>2. v[1] = t /\ v \in Moves
      BY <2>1, <3>1
    <3> QED BY <3>2 DEF ChainsRiseOnly
  <2> QED BY <1>1, <2>2 DEF Callers, TaskChangePrio
<1>3. PICK s : s = [k EXCEPT !.base[t] = p]
  OBVIOUS
<1>4. /\ Legal(s, {}, {}) /\ s.base = [k.base EXCEPT ![t] = p] /\ s.prio = k.prio
      /\ s.state = k.state /\ s.obj = k.obj /\ s.owner = k.owner
  BY <1>1, <1>3, LegalBase
<1>5. s \in Kernel /\ Tcbs(s, {}) /\ Prios(s) /\ Groups(s, {}) /\ Held(s)
  BY <1>4 DEF Legal
<1>6. PICK X : X = {}
  OBVIOUS
<1>7. PICK q : q = IF s.grp[t] # <<>> /\ p > s.prio[t] THEN Min({p, FindHighest(s, t)}) ELSE p
  OBVIOUS
<1>8. /\ s.base[t] = p /\ \A x \in Task : x # t => s.base[x] = k.base[x]
      /\ s.prio \in [Task -> Nat] /\ p \in Nat
  BY <1>1, <1>4, <1>5, PrioNat, PrioIs
<1>9. PICK C : C = Claims(s, X, t)
  OBVIOUS
<1>10. C = {u \in Claims(s, X, t) : s.obj[u] \in Mutex /\ s.obj[u] \notin X}
  BY <1>5, <1>6, <1>9 DEF Claims, Held
<1>11. Fit(s.prio, s.base[t], C, Restored(s, t))
  <2>1. Tcbs(s, X) /\ Groups(s, X) /\ s.state[t] # "del"
    BY <1>2, <1>4, <1>5, <1>6
  <2> QED BY <1>5, <1>10, <2>1, RestoredFits
<1>12. PICK f \in Prio : f = FindHighest(s, t)
  BY <1>5, FindHighestIs
<1>13. Fit(s.prio, p, C, q)
  <2>1. CASE s.grp[t] # <<>> /\ p > s.prio[t]
    <3>1. {p, f} = {f, p}
      OBVIOUS
    <3>2. q = Restored(s, t)
      BY <1>7, <1>8, <1>12, <2>1, <3>1 DEF Restored
    <3> QED BY <1>8, <1>11, <3>2
  <2>2. CASE ~(p > s.prio[t])
    <3>1. \A u \in C : s.prio[t] <= s.prio[u]
      <4>1. Claims(k, X, t) = C
        BY <1>4, <1>9 DEF Claims, Waits
      <4> QED BY <1>1, <1>2, <1>4, <1>6, <4>1 DEF Exact, FitAt, Fit
    <3>2. q = p
      BY <1>7, <2>2
    <3>3. \A u \in C : p <= s.prio[u]
      BY <1>8, <1>9, <2>2, <3>1 DEF Claims
    <3> QED BY <1>8, <3>2, <3>3 DEF Fit
  <2>3. CASE s.grp[t] = <<>>
    <3>1. q = p
      BY <1>7, <2>3
    <3>2. C = {}
      <4>1. ToSet(<<>>) = {}
        BY DEF ToSet
      <4>2. Owned(s, X, t) = {}
        BY <1>5, <1>6, <2>3, <4>1 DEF Groups, Lists
      <4>3. ASSUME NEW u \in C PROVE FALSE
        <5>1. s.obj[u] \in Mutex /\ s.owner[s.obj[u]] = t
          BY <1>5, <1>9 DEF Claims, Held
        <5> QED BY <1>6, <4>2, <5>1 DEF Owned
      <4> QED BY <4>3
    <3> QED BY <1>8, <3>1, <3>2 DEF Fit
  <2> QED BY <2>1, <2>2, <2>3
<1>14. q \in Prio
  <2>1. Min({p, f}) \in {p, f}
    BY LowerOf, PrioIs
  <2> QED BY <1>7, <1>12, <2>1
<1>15. PICK r : r = ChangePrio(s, t, q)
  OBVIOUS
<1>16. Same(s, r) /\ r.prio = [s.prio EXCEPT ![t] = q]
  <2>1. Tcbs(s, X) /\ Chain(s, X) /\ t \notin X
    BY <1>5, <1>6, HeldChain
  <2>2. ~Waits(s, t) /\ s.state[t] # "del"
    BY <1>2, <1>4 DEF Waits
  <2>3. Placed(s, X, t, q, r)
    BY <1>5, <1>14, <1>15, <2>1, <2>2, ChangeFlat
  <2> QED BY <2>3 DEF Placed
<1>17. ExactBut(s, X, t)
  <2> SUFFICES ASSUME NEW x \in Task, x # t, s.state[x] # "del" PROVE FitAt(s, X, x)
    BY DEF ExactBut
  <2>1. Claims(s, X, x) = Claims(k, X, x)
    BY <1>4 DEF Claims, Waits
  <2> QED BY <1>1, <1>4, <1>6, <1>8, <2>1 DEF Exact, FitAt
<1>18. Exact(r, X)
  <2>1. ~Waits(s, t) /\ Fit(s.prio, s.base[t], Claims(s, X, t), q)
    BY <1>2, <1>4, <1>8, <1>9, <1>13 DEF Waits
  <2> QED BY <1>5, <1>16, <1>17, <2>1, FlatExact
<1>19. k' = r
  BY <1>3, <1>7, <1>15 DEF TaskChangePrio, Call
<1> QED BY <1>6, <1>18, <1>19

LEMMA PendAbortExact ==
  ASSUME ChainsRiseOnly, InvX, NEW m \in Mutex, PendAbort(m) PROVE Exact(k', {})
<1>1. k \in Kernel /\ Exact(k, {}) /\ Legal(k, {}, {})
  BY DEF InvX, Inv, Legal
<1>2. PICK n \in {1, Len(k.wait[m])} : Call(FoldLeft(AbortOne, k, [i \in 1 .. n |-> m]))
  BY DEF PendAbort
<1>3. n \in 1 .. Len(k.wait[m]) /\ Len(k.wait[m]) \in Nat
  <2>1. k.wait[m] \in Seq(Task) /\ k.wait[m] # <<>>
    BY <1>1 DEF Kernel, PendAbort
  <2>2. Len(k.wait[m]) \in Nat \ {0}
    BY <2>1
  <2> QED BY <2>2
<1>4. PICK f : /\ IsFold(f, "abort", 0, k, Times(m, n), n)
               /\ FoldLeft(AbortOne, k, Times(m, n)) = f[1 .. n]
  <2>1. n \in Nat
    BY <1>3
  <2> QED BY <2>1, AbortFold
<1> DEFINE G == [i \in 0 .. n |-> {r \in Aborts(k, m, i) : Exact(r, {})}]
           l == Times(m, n)
<1>5. k \in G[0]
  <2>1. k \in Aborts(k, m, 0)
    BY <1>1, <1>3 DEF Aborts
  <2> QED BY <1>1, <1>3, <2>1
<1>6. ASSUME NEW i \in 1 .. n, NEW r \in G[i - 1] PROVE Combine("abort", 0, r, l[i]) \in G[i]
  <2>1. r \in Aborts(k, m, i - 1) /\ Exact(r, {}) /\ i \in 1 .. Len(k.wait[m])
    BY <1>3
  <2>2. Combine("abort", 0, r, l[i]) = AbortOne(r, m)
    BY DEF Combine, Times
  <2>3. AbortOne(r, m) \in Aborts(k, m, i) /\ r.wait[m] # <<>> /\ Legal(r, {}, {})
    BY <1>1, <2>1, AbortsStep
  <2>4. PICK t : t = Head(r.wait[m])
    OBVIOUS
  <2>5. t \in Task /\ Waits(r, t) /\ r.obj[t] = m
    BY <2>3, <2>4, AbortOneIs
  <2>6. PICK o \in Task : o = r.owner[m]
    BY <2>3, <2>5 DEF Legal, Held
  <2>7. ~Waits(r, r.owner[r.obj[t]])
    <3>1. m \in Loose
      BY DEF PendAbort
    <3>2. ~Waits(r, o)
      BY <2>3, <2>6, <3>1, OwnerFree
    <3> QED BY <2>5, <2>6, <3>2
  <2>8. PICK st \in {"ok", "abort", "timeout", "del"} : st = "abort"
    OBVIOUS
  <2>9. Exact(Disinherit(Wake(r, t, st), r.owner[r.obj[t]], r.prio[t]), {})
    BY <2>1, <2>3, <2>5, <2>7, StoppedExact
  <2>10. AbortOne(r, m) = Disinherit(Wake(r, t, st), r.owner[r.obj[t]], r.prio[t])
    BY <2>4, <2>5, <2>8 DEF AbortOne
  <2> HIDE DEF l
  <2> QED BY <2>2, <2>3, <2>9, <2>10
<1>7. f[1 .. n] \in G[n]
  <2>1. n \in Nat
    BY <1>3
  <2>2. IsFold(f, "abort", 0, k, l, n)
    BY <1>4
  <2> HIDE DEF G, l
  <2> QED BY <1>5, <1>6, <2>1, <2>2, FoldIn
<1>8. PICK r : r = f[1 .. n]
  OBVIOUS
<1>9. Exact(r, {})
  BY <1>3, <1>7, <1>8
<1>10. k' = r
  BY <1>2, <1>4, <1>8 DEF Call, Times
<1> QED BY <1>9, <1>10

LEMMA MutexDelExact ==
  ASSUME ChainsRiseOnly, InvX, NEW m \in Mutex, MutexDel(m) PROVE Exact(k', {})
<1>1. k \in Kernel /\ Exact(k, {}) /\ Legal(k, {}, {}) /\ Held(k) /\ Tcbs(k, {})
  BY DEF InvX, Inv, Legal
<1>2. PICK X : X = {}
  OBVIOUS
<1>3. PICK o : o = k.owner[m]
  OBVIOUS
<1>4. o \in Task \cup {NoTask}
  BY <1>1, <1>3 DEF Kernel
<1>5. PICK w : w = FoldLeft(DelOne, k, k.wait[m])
  OBVIOUS
<1>6. PICK q : q = k.wait[m]
  OBVIOUS
<1>7. /\ w \in Dels(k, m, q, Len(q))
      /\ \A x \in Task : Waits(w, x) <=> Waits(k, x) /\ k.obj[x] # m
  BY <1>1, <1>5, <1>6, DelsAll
<1>8. /\ Legal(w, {}, {}) /\ w.owner = k.owner /\ w.prio = k.prio /\ w.base = k.base
      /\ \A x \in Task : Waits(w, x) => w.obj[x] = k.obj[x]
      /\ \A x \in Task : w.state[x] # "del" => k.state[x] # "del"
  BY <1>7 DEF Dels
<1>9. PICK a : a = Apart(w, m)
  OBVIOUS
<1>10. Legal(a, {}, {m}) /\ SameTcbs(w, a) /\ a.owner = k.owner
  BY <1>8, <1>9, LegalApart
<1>11. /\ a.prio = k.prio /\ a.base = k.base
       /\ \A x \in Task : /\ Waits(a, x) <=> Waits(k, x) /\ k.obj[x] # m
                          /\ Waits(a, x) => a.obj[x] = k.obj[x]
                          /\ a.state[x] # "del" => k.state[x] # "del"
  BY <1>7, <1>8, <1>10 DEF SameTcbs, Waits
<1>12. a \in Kernel /\ Tcbs(a, X) /\ Groups(a, {m}) /\ Prios(a) /\ Held(a)
  BY <1>2, <1>10 DEF Legal
<1>13. ExactBut(a, X, o)
  <2> SUFFICES ASSUME NEW x \in Task, x # o, a.state[x] # "del" PROVE FitAt(a, X, x)
    BY DEF ExactBut
  <2>1. Claims(a, X, x) = Claims(k, X, x)
    BY <1>2, <1>3, <1>10, <1>11 DEF Claims
  <2> QED BY <1>1, <1>2, <1>11, <2>1 DEF Exact, FitAt
<1>14. ASSUME o \in Task => FitAt(a, X, o) PROVE Exact(a, X)
  BY <1>13, <1>14 DEF Exact, ExactBut
<1>15. ASSUME o \in Task
       PROVE  /\ k.state[o] # "del" /\ a.state[o] # "del" /\ Claims(a, X, o) \subseteq Claims(k, X, o)
              /\ Fit(a.prio, a.base[o], Claims(k, X, o), a.prio[o])
  <2>1. k.state[o] # "del" /\ a.state[o] # "del"
    BY <1>1, <1>3, <1>10, <1>12, <1>15, MutexAssumption DEF Held
  <2>2. FitAt(k, X, o)
    BY <1>1, <1>2, <1>15, <2>1 DEF Exact
  <2>3. Claims(a, X, o) \subseteq Claims(k, X, o)
    BY <1>10, <1>11 DEF Claims
  <2> QED BY <1>11, <2>1, <2>2, <2>3 DEF FitAt
<1>16. PICK v : v = Relieved(k, m, a)
  OBVIOUS
<1>17. Same(a, v) /\ Exact(v, X)
  <2>1. CASE o = NoTask \/ k.prio[o] = k.base[o]
    <3>1. v = a
      BY <1>3, <1>16, <2>1 DEF Relieved
    <3>2. o \in Task => FitAt(a, X, o)
      <4> SUFFICES ASSUME o \in Task PROVE FitAt(a, X, o)
        OBVIOUS
      <4>1. a.prio[o] = a.base[o]
        BY <1>11, <2>1, MutexAssumption
      <4> QED BY <1>15, <4>1, FitFewer DEF FitAt
    <3> QED BY <1>14, <3>1, <3>2 DEF Same
  <2>2. CASE ~(o = NoTask \/ k.prio[o] = k.base[o])
    <3>1. o \in Task /\ a.state[o] # "del"
      BY <1>4, <1>15, <2>2
    <3>2. PICK p \in Prio : p = Restored(a, o)
      BY <1>12, <3>1, RestoredIn
    <3>3. v = ChangePrio(a, o, p)
      BY <1>3, <1>16, <2>2, <3>2 DEF Relieved
    <3>4. ~Waits(a, o)
      <4>1. m \in Loose
        BY DEF MutexDel
      <4>2. ~Waits(k, o)
        BY <1>1, <1>3, <3>1, <4>1, OwnerFree
      <4> QED BY <1>11, <3>1, <4>2
    <3>5. Chain(a, X) /\ o \notin X
      BY <1>2, <1>12, HeldChain
    <3>6. Placed(a, X, o, p, v)
      BY <1>12, <3>1, <3>2, <3>3, <3>4, <3>5, ChangeFlat
    <3>7. Fit(a.prio, a.base[o], Claims(a, X, o), p)
      <4>1. PICK M : M = {m}
        OBVIOUS
      <4>2. PICK D : D = Claims(a, X, o)
        OBVIOUS
      <4>3. D = {u \in Claims(a, X, o) : a.obj[u] \in Mutex /\ a.obj[u] \notin M}
        BY <1>11, <1>12, <4>1, <4>2 DEF Claims, Held
      <4> QED BY <1>12, <3>1, <3>2, <4>1, <4>2, <4>3, RestoredFits
    <3>8. Same(a, v) /\ v.prio = [a.prio EXCEPT ![o] = p]
      BY <3>6 DEF Placed
    <3> QED BY <1>12, <1>13, <3>1, <3>4, <3>7, <3>8, FlatExact
  <2> QED BY <2>1, <2>2
<1>18. ASSUME k.wait[m] = <<>> PROVE Exact(a, X)
  <2>1. \A x \in Task : ~(Waits(k, x) /\ k.obj[x] = m)
    BY <1>1, <1>2, <1>18, NobodyWaits
  <2>2. Claims(a, X, o) = Claims(k, X, o)
    BY <1>10, <1>11, <2>1 DEF Claims
  <2>3. o \in Task => FitAt(a, X, o)
    BY <1>15, <2>2 DEF FitAt
  <2> QED BY <1>14, <2>3
<1>19. PICK r : k' = r /\ \/ r = [Disown(v, m) EXCEPT !.made = @ \ {m}]
                          \/ k.wait[m] = <<>> /\ r = [Disown(a, m) EXCEPT !.made = @ \ {m}]
  BY <1>3, <1>5, <1>8, <1>9, <1>16, MutexDelIs DEF Apart
<1>20. PICK b : Same(a, b) /\ Exact(b, X) /\ b \in {a, v}
                /\ r = [Disown(b, m) EXCEPT !.made = @ \ {m}]
  BY <1>17, <1>18, <1>19 DEF Same
<1>21. \A t \in Task : Waits(b, t) => b.obj[t] # m
  BY <1>11, <1>20 DEF Same, Waits
<1>22. Legal(b, {}, {m})
  <2>1. CASE b = a
    BY <1>10, <2>1
  <2>2. CASE b = v /\ v # a
    <3>1. o \in Task /\ v = ChangePrio(a, o, Restored(a, o))
      BY <1>3, <1>4, <1>16, <2>2 DEF Relieved
    <3>2. PICK p \in Prio : p = Restored(a, o)
      BY <1>12, <3>1, RestoredIn
    <3>3. Legal(a, X, {m}) /\ Chain(a, X) /\ o \notin X /\ NoTask \notin X
      BY <1>2, <1>10, <1>12, HeldChain
    <3>4. Legal(v, X, {m})
      BY <3>1, <3>2, <3>3, LegalChange
    <3> QED BY <1>2, <2>2, <3>4
  <2> QED BY <1>20, <2>1, <2>2
<1>23. SameTcbs(b, r) /\ r.owner = [b.owner EXCEPT ![m] = NoTask]
  BY <1>20, <1>21, <1>22, LegalGone
<1>24. Alike(b, X, r, X)
  <2>1. \A x \in Task : Waits(r, x) => r.owner[r.obj[x]] = b.owner[b.obj[x]]
    <3>1. b.owner \in [Mutex -> Task \cup {NoTask}] /\ Held(b)
      BY <1>22 DEF Legal, Kernel
    <3> QED BY <1>21, <1>23, <3>1 DEF SameTcbs, Waits, Held
  <2> QED BY <1>23, <2>1 DEF Alike, SameTcbs, Waits
<1>25. Exact(r, X)
  BY <1>20, <1>24, AlikeExact
<1> QED BY <1>2, <1>19, <1>25

LEMMA TakenOutExact ==
  ASSUME NEW s, Legal(s, {}, {}), Exact(s, {}), NEW u \in Task, s.state[u] # "del", Unwanted(s, u),
         Waits(s, u) => ~Waits(s, s.owner[s.obj[u]])
  PROVE  Exact(TakenOut(s, u), {u})
<1>1. s \in Kernel /\ Tcbs(s, {}) /\ Prios(s) /\ Groups(s, {}) /\ Held(s) /\ Callers(s)
  BY DEF Legal
<1>2. PICK X : X = {}
  OBVIOUS
<1>3. PICK Y : Y = {u}
  OBVIOUS
<1>4. u \notin X /\ Tcbs(s, X) /\ X \cup {u} = Y /\ s.prio[u] \in Prio
  BY <1>1, <1>2, <1>3 DEF Prios
<1>5. s.state[u] \in {"rdy", "dly", "pend", "pendTimeout", "del"}
  BY <1>1 DEF Kernel
<1>6. PICK r : r = TakenOut(s, u)
  OBVIOUS
<1>7. CASE s.state[u] \in {"rdy", "dly"}
  <2>1. Same(s, r) /\ r.prio = s.prio
    <3>1. CASE s.state[u] = "rdy"
      <4>1. r = RdyRemove(s, u)
        BY <1>6, <3>1 DEF TakenOut, Waits
      <4> QED BY <1>1, <1>4, <3>1, <4>1, RdyRemoveIs
    <3>2. CASE s.state[u] = "dly"
      <4>1. r = s
        BY <1>6, <3>2 DEF TakenOut, Waits
      <4> QED BY <4>1 DEF Same
    <3> QED BY <1>7, <3>1, <3>2
  <2>2. Alike(s, X, r, Y)
    BY <1>2, <1>3, <1>7, <2>1 DEF Alike, Same, Waits
  <2>3. Exact(r, Y)
    BY <1>2, <2>2, AlikeExact
  <2> QED BY <1>3, <1>6, <2>3
<1>8. CASE Waits(s, u)
  <2>1. PICK o : o = s.owner[s.obj[u]]
    OBVIOUS
  <2>2. s.obj[u] \in Mutex /\ o \in Task /\ o # u /\ s.state[o] # "del" /\ ~Waits(s, o)
    <3>1. PICK m \in Mutex : m = s.obj[u]
      BY <1>1, <1>8 DEF Held
    <3>2. s.owner[m] = o /\ o \in Task /\ o # u
      BY <1>1, <1>8, <2>1, <3>1 DEF Held
    <3>3. s.owner[m] # NoTask
      BY <3>2, MutexAssumption
    <3>4. s.state[s.owner[m]] # "del"
      BY <1>1, <3>3 DEF Held
    <3> QED BY <1>8, <2>1, <3>1, <3>2, <3>4
  <2>3. PICK a : a = PendRemove(s, u)
    OBVIOUS
  <2>4. a \in Kernel /\ Same(s, a) /\ a.prio = s.prio /\ Tcbs(a, Y)
    BY <1>1, <1>4, <1>8, <2>2, <2>3, PendRemoveIs
  <2>5. Groups(a, {}) /\ Held(a) /\ Callers(a)
    BY <1>1, <2>4, SameGroups
  <2>6. Prios(a)
    BY <1>1, <2>4 DEF Prios, Same
  <2>7. Legal(a, Y, {})
    BY <2>4, <2>5, <2>6 DEF Legal
  <2>8. Chain(a, Y)
    <3>1. \A x \in Task : Waits(a, x) /\ x \notin Y => a.owner[a.obj[x]] \notin Y
      BY <1>3, <2>4 DEF Unwanted, Same, Waits
    <3> QED BY <2>5, <3>1, HeldChain
  <2>9. r = Disinherit(a, o, s.prio[u])
    BY <1>6, <1>8, <2>1, <2>3 DEF TakenOut, Waits
  <2>10. o \notin Y /\ a.state[o] # "del" /\ ~Waits(a, o)
    BY <1>3, <2>2, <2>4 DEF Same, Waits
  <2>11. PICK C : C = Claims(s, X, o)
    OBVIOUS
  <2>12. Claims(a, Y, o) = C \ {u}
    BY <1>2, <1>3, <2>4, <2>11 DEF Claims, Same, Waits
  <2>13. ExactBut(a, Y, o)
    <3> SUFFICES ASSUME NEW x \in Task, x # o, x \notin Y, a.state[x] # "del" PROVE FitAt(a, Y, x)
      BY DEF ExactBut
    <3>1. Claims(a, Y, x) = Claims(s, X, x)
      BY <1>2, <1>3, <2>1, <2>4 DEF Claims, Same, Waits
    <3>2. FitAt(s, X, x)
      BY <1>2, <2>4 DEF Exact, Same
    <3> QED BY <2>4, <3>1, <3>2 DEF FitAt, Same
  <2>14. Fit(a.prio, a.base[o], C, a.prio[o])
    <3>1. FitAt(s, X, o)
      BY <1>2, <2>2 DEF Exact
    <3> QED BY <2>4, <2>11, <3>1 DEF FitAt, Same
  <2>15. \A x \in C : x \notin Claims(a, Y, o) => a.prio[x] = s.prio[u]
    BY <2>4, <2>12
  <2>16. Claims(a, Y, o) \subseteq C /\ \A x \in Claims(a, Y, o) : a.obj[x] \in Mutex
    BY <2>5, <2>12 DEF Held, Claims
  <2>17. Exact(r, Y)
    BY <2>2, <2>7, <2>8, <2>9, <2>10, <2>13, <2>14, <2>15, <2>16, DisinheritExact
  <2> QED BY <1>3, <1>6, <2>17
<1> QED BY <1>5, <1>7, <1>8 DEF Waits

LEMMA TaskDelExact ==
  ASSUME ChainsRiseOnly, InvX, NEW u \in Task, TaskDel(u) PROVE Exact(k', {})
<1>1. k \in Kernel /\ Exact(k, {}) /\ Legal(k, {}, {}) /\ Held(k) /\ Tcbs(k, {}) /\ Groups(k, {})
      /\ Callers(k)
  BY DEF InvX, Inv, Legal
<1>2. k.state[u] # "del" /\ u \in Deletable /\ \A m \in ToSet(k.grp[u]) : k.wait[m] = <<>>
  BY DEF TaskDel
<1>3. Unwanted(k, u)
  BY <1>1, <1>2, GrpUnwanted
<1>4. PICK X : X = {}
  OBVIOUS
<1>5. PICK Y : Y = {u}
  OBVIOUS
<1>6. PICK a : a = TakenOut(k, u)
  OBVIOUS
<1>7. Legal(a, {u}, {}) /\ Same(k, a)
  BY <1>1, <1>2, <1>3, <1>6, LegalTakenOut
<1>8. Exact(a, Y)
  <2>1. ASSUME Waits(k, u) PROVE ~Waits(k, k.owner[k.obj[u]])
    <3>1. PICK m \in Mutex : m = k.obj[u]
      BY <1>1, <2>1 DEF Held
    <3>2. PICK o \in Task : o = k.owner[m] /\ o # u
      BY <1>1, <2>1, <3>1 DEF Held
    <3>3. u \in Timed \cup (Deletable \cap Waiter)
      BY <1>1, <1>2, <2>1 DEF Callers
    <3>4. ~Waits(k, o)
      BY <1>1, <3>2, <3>3, OwnerFree
    <3> QED BY <3>1, <3>2, <3>4
  <2> QED BY <1>1, <1>2, <1>3, <1>5, <1>6, <2>1, TakenOutExact
<1>9. PICK b : b = GrpPostAll(a, u)
  OBVIOUS
<1>10. Unwanted(a, u)
  BY <1>3, <1>7 DEF Unwanted, Same, Waits
<1>11. /\ Legal(b, {u}, {}) /\ SameTcbs(a, b)
       /\ \A m \in Mutex : b.owner[m] = IF a.owner[m] = u THEN NoTask ELSE a.owner[m]
  BY <1>7, <1>9, <1>10, PostsAll
<1>12. Held(b)
  BY <1>11 DEF Legal
<1>13. Exact(b, Y)
  <2>1. \A x \in Task : Waits(b, x) => b.owner[b.obj[x]] = a.owner[a.obj[x]]
    BY <1>10, <1>11, <1>12 DEF Unwanted, SameTcbs, Waits, Held
  <2>2. Alike(a, Y, b, Y)
    BY <1>11, <2>1 DEF Alike, SameTcbs, Waits
  <2> QED BY <1>8, <2>2, AlikeExact
<1>14. PICK r : r = Deleted(b, u)
  OBVIOUS
<1>15. /\ r.state[u] = "del" /\ r.owner = b.owner
       /\ \A x \in Task : x # u => /\ r.state[x] = b.state[x] /\ r.obj[x] = b.obj[x]
                                   /\ r.prio[x] = b.prio[x] /\ r.base[x] = b.base[x]
  <2>1. \A m \in Mutex : b.owner[m] # u
    BY <1>11, MutexAssumption
  <2> QED BY <1>11, <1>14, <2>1, LegalDeleted
<1>16. Alike(b, Y, r, X)
  BY <1>4, <1>5, <1>15 DEF Alike, Waits
<1>17. Exact(r, X)
  BY <1>13, <1>16, AlikeExact
<1>18. k' = r
  BY <1>6, <1>9, <1>14 DEF TaskDel, Call, TakenOut, Deleted
<1> QED BY <1>4, <1>17, <1>18

LEMMA PostHandExact ==
  ASSUME InvX, NEW m \in Mutex, PostHand(m) PROVE Exact(k', {})
<1>1. /\ Legal(k, {}, {}) /\ k \in Kernel /\ Tcbs(k, {}) /\ Prios(k) /\ Groups(k, {}) /\ Held(k)
      /\ Exact(k, {}) /\ Inv
  BY DEF InvX, Inv, Legal
<1>2. PICK t : t = k.cur
  OBVIOUS
<1>3. /\ k.owner[m] = t /\ t \in Task /\ k.state[t] = "rdy" /\ k.wait[m] # <<>>
      /\ ~Waits(k, t)
  BY <1>1, <1>2, RunningIs DEF PostHand, PostLast, Running
<1>4. PICK h : h = Head(k.wait[m])
  OBVIOUS
<1>5. PICK X : X = {}
  OBVIOUS
<1>6. /\ h \in Task /\ Waits(k, h) /\ k.obj[h] = m /\ h # t
      /\ \A x \in Task : Waits(k, x) /\ k.obj[x] = m => k.prio[h] <= k.prio[x]
  BY <1>1, <1>3, <1>4, <1>5, HeadWaits
<1>7. PICK a : a = Ungroup(k, m)
  OBVIOUS
<1>8. Legal(a, {}, {m}) /\ SameTcbs(k, a) /\ a.owner = k.owner
  BY <1>1, <1>3, <1>7, LegalUngroup, UngroupIs
<1>9. a \in Kernel /\ Tcbs(a, X) /\ Groups(a, {m}) /\ Prios(a) /\ Held(a)
  BY <1>5, <1>8 DEF Legal
<1>10. /\ a.prio = k.prio /\ a.base = k.base /\ a.state = k.state /\ a.obj = k.obj
       /\ \A x \in Task : Waits(a, x) <=> Waits(k, x)
  BY <1>8 DEF SameTcbs, Waits
<1>11. PICK s : s = PostLower(a, t)
  OBVIOUS
<1>12. Legal(s, {}, {m}) /\ Lowered(a, t, s)
  BY <1>3, <1>8, <1>10, <1>11, LegalPostLower
<1>13. s.state = k.state /\ s.obj = k.obj /\ s.owner = k.owner /\ s.base = k.base
  BY <1>8, <1>10, <1>12 DEF Lowered
<1>14. PICK r : r = Hand(s, h, m)
  OBVIOUS
<1>15. Waits(s, h) /\ s.obj[h] = m
  BY <1>6, <1>13 DEF Waits
<1>16. Handed(s, h, m, r)
  BY <1>6, <1>12, <1>14, <1>15, LegalHand
<1>17. k' = r
  BY <1>2, <1>4, <1>7, <1>11, <1>14 DEF PostHand, Call, Hand
<1>18. /\ k.state \in [Task -> {"rdy", "dly", "pend", "pendTimeout", "del"}]
       /\ k.obj \in [Task -> Mutex \cup {NoMutex}] /\ k.owner \in [Mutex -> Task \cup {NoTask}]
       /\ k.prio \in [Task -> Nat] /\ k.base \in [Task -> Nat]
  <2>1. k.prio \in [Task -> Nat] /\ k.base \in [Task -> Nat]
    BY <1>1, PrioNat
  <2> QED BY <1>1, <2>1 DEF Kernel
<1>19. /\ r.prio = s.prio /\ r.base = k.base
       /\ \A x \in Task : /\ Waits(r, x) <=> Waits(k, x) /\ x # h
                          /\ x # h => r.obj[x] = k.obj[x]
                          /\ r.state[x] # "del" => k.state[x] # "del"
       /\ \A n \in Mutex : r.owner[n] = IF n = m THEN h ELSE k.owner[n]
  BY <1>6, <1>13, <1>16, <1>18 DEF Handed, Waits
<1>20. /\ r.prio \in [Task -> Nat] /\ \A x \in Task : x # t => r.prio[x] = k.prio[x]
       /\ r.prio[t] = IF k.prio[t] # k.base[t] /\ Restored(a, t) > k.prio[t]
                      THEN Restored(a, t) ELSE k.prio[t]
  <2>1. PICK p \in Nat : p = Restored(a, t)
    BY <1>3, <1>9, RestoredIn, PrioIs
  <2>2. r.prio = IF k.prio[t] # k.base[t] /\ p > k.prio[t] THEN [k.prio EXCEPT ![t] = p] ELSE k.prio
    BY <1>10, <1>12, <1>19, <2>1 DEF Lowered
  <2> QED BY <1>3, <1>18, <2>1, <2>2
<1>21. ASSUME NEW x \in Task, NEW u \in Claims(k, X, x)
       PROVE  u \in Task /\ u # t /\ k.obj[u] \in Mutex /\ k.prio[u] \in Nat /\ r.prio[u] = k.prio[u]
  BY <1>1, <1>3, <1>18, <1>20 DEF Claims, Held
<1>22. ASSUME NEW x \in Task, x # t, x # h, r.state[x] # "del" PROVE FitAt(r, X, x)
  <2>1. Claims(r, X, x) = Claims(k, X, x)
    BY <1>1, <1>3, <1>5, <1>6, <1>19, <1>22 DEF Claims, Held
  <2>2. Fit(k.prio, k.base[x], Claims(k, X, x), k.prio[x])
    BY <1>1, <1>5, <1>19, <1>22 DEF Exact, FitAt
  <2>3. Fit(r.prio, k.base[x], Claims(k, X, x), k.prio[x])
    BY <1>21, <2>2, FitSame
  <2> QED BY <1>19, <1>20, <1>22, <2>1, <2>3 DEF FitAt
<1>23. FitAt(r, X, h)
  <2>1. PICK C : C = Claims(k, X, h)
    OBVIOUS
  <2>2. k.state[h] # "del"
    BY <1>6 DEF Waits
  <2>3. Fit(k.prio, k.base[h], C, k.prio[h])
    BY <1>1, <1>5, <1>6, <2>1, <2>2 DEF Exact, FitAt
  <2>4. \A u \in Claims(r, X, h) : u \in Task /\ u # t /\ (u \in C \/ (k.obj[u] = m /\ Waits(k, u)))
    BY <1>1, <1>3, <1>5, <1>19, <2>1 DEF Claims, Held
  <2>5. C \subseteq Claims(r, X, h)
    BY <1>1, <1>3, <1>5, <1>6, <1>19, <2>1 DEF Claims, Held
  <2>6. \A u \in Claims(r, X, h) : k.prio[h] <= r.prio[u]
    BY <1>6, <1>20, <2>3, <2>4 DEF Fit
  <2>7. k.prio[h] = k.base[h] \/ \E u \in Claims(r, X, h) : k.prio[h] = r.prio[u]
    BY <1>20, <2>3, <2>4, <2>5 DEF Fit
  <2>8. Fit(r.prio, k.base[h], Claims(r, X, h), k.prio[h])
    BY <2>3, <2>6, <2>7 DEF Fit
  <2> QED BY <1>6, <1>19, <1>20, <2>8 DEF FitAt
<1>24. FitAt(r, X, t)
  <2>1. PICK C : C = Claims(k, X, t)
    OBVIOUS
  <2>2. PICK D : D = {u \in C : k.obj[u] # m}
    OBVIOUS
  <2>3. Claims(r, X, t) = D
    BY <1>1, <1>3, <1>5, <1>6, <1>19, <2>1, <2>2 DEF Claims, Held
  <2>4. Fit(k.prio, k.base[t], C, k.prio[t])
    BY <1>1, <1>3, <1>5, <2>1 DEF Exact, FitAt
  <2>5. PICK p \in Nat : p = Restored(a, t)
    BY <1>3, <1>9, RestoredIn, PrioIs
  <2>6. Fit(k.prio, k.base[t], D, p)
    <3>1. PICK M : M = {m}
      OBVIOUS
    <3>2. Claims(a, X, t) = C
      BY <1>8, <1>10, <2>1 DEF Claims
    <3>3. D = {u \in Claims(a, X, t) : a.obj[u] \in Mutex /\ a.obj[u] \notin M}
      BY <1>3, <1>10, <1>21, <2>1, <2>2, <3>1, <3>2
    <3>4. /\ a \in Kernel /\ Tcbs(a, X) /\ Groups(a, M) /\ Prios(a) /\ t \in Task
          /\ a.state[t] # "del"
      BY <1>3, <1>9, <1>10, <3>1
    <3>5. Fit(a.prio, a.base[t], D, Restored(a, t))
      BY <3>3, <3>4, RestoredFits
    <3> QED BY <1>10, <2>5, <3>5
  <2>7. PICK b \in Nat : b = k.base[t]
    BY <1>3, <1>18
  <2>8. PICK n \in Nat : n = k.prio[t]
    BY <1>3, <1>18
  <2>9. n <= p
    <3>1. C \subseteq Task /\ D \subseteq C
      BY <2>1, <2>2 DEF Claims
    <3> QED BY <1>18, <2>4, <2>6, <2>7, <2>8, <3>1, FitGrows
  <2>10. Fit(k.prio, b, D, r.prio[t])
    <3>1. CASE n = b
      <4>1. r.prio[t] = n
        BY <1>20, <2>7, <2>8, <3>1
      <4>2. D \subseteq C
        BY <2>2
      <4> QED BY <2>4, <2>7, <2>8, <3>1, <4>1, <4>2, FitFewer
    <3>2. CASE n # b
      <4>1. r.prio[t] = p
        BY <1>20, <2>5, <2>7, <2>8, <2>9, <3>2
      <4> QED BY <2>6, <2>7, <4>1
    <3> QED BY <3>1, <3>2
  <2>11. \A u \in D : r.prio[u] = k.prio[u]
    BY <1>3, <1>21, <2>1, <2>2
  <2>12. Fit(r.prio, b, D, r.prio[t])
    BY <2>10, <2>11, FitSame
  <2> QED BY <1>19, <2>3, <2>7, <2>12 DEF FitAt
<1>25. Exact(r, X)
  BY <1>22, <1>23, <1>24 DEF Exact
<1> QED BY <1>5, <1>17, <1>25

LEMMA PendWaitExact ==
  ASSUME InvX, NEW m \in Mutex, PendWait(m) PROVE Exact(k', {})
<1>1. Legal(k, {}, {}) /\ k \in Kernel /\ Held(k) /\ Exact(k, {}) /\ Inv
  BY DEF InvX, Inv, Legal
<1>2. PICK t : t = k.cur
  OBVIOUS
<1>3. t \in Task /\ k.state[t] = "rdy" /\ k.prio[t] \in Prio /\ ~Waits(k, t)
  BY <1>1, <1>2, RunningIs DEF PendWait, Inside, Running
<1>4. PICK o : o = k.owner[m]
  OBVIOUS
<1>5. o \in Task /\ o # t /\ k.state[o] # "del"
  <2>1. o # NoTask /\ o # t
    BY <1>2, <1>4 DEF PendWait
  <2> QED BY <1>1, <1>4, <2>1 DEF Kernel, Held
<1>6. /\ t \in Waiter /\ (k.grp[t] # <<>> => t \in Nester)
      /\ k.grp[t] # <<>> => \A n \in ToSet(k.grp[t]) : Rank[n] < Rank[m]
  BY <1>2 DEF PendWait
<1>7. PICK s : s = IF k.prio[o] > k.prio[t] THEN ChangePrio(k, o, k.prio[t]) ELSE k
  OBVIOUS
<1>8. k' = Waiting(s, t, m)
  BY <1>2, <1>4, <1>7 DEF PendWait, Call, Waiting
<1>9. PICK X : X = {}
  OBVIOUS
<1>10. PICK p \in Prio : p = k.prio[t]
  BY <1>3
<1>11. k.prio \in [Task -> Nat] /\ k.base \in [Task -> Nat] /\ p \in Nat
  BY <1>1, PrioNat, PrioIs
<1>12. /\ Legal(s, {}, {}) /\ Same(k, s)
       /\ AllFit(Alive(k), s.prio, k.base, Asked(k, t, o), NoTask)
  <2>1. CASE k.prio[o] > p
    <3>1. Chain(k, X) /\ Legal(k, X, {})
      BY <1>1, <1>9, HeldChain
    <3>2. s = ChangePrio(k, o, p) /\ o \notin X /\ NoTask \notin X
      BY <1>7, <1>9, <1>10, <2>1
    <3>3. Legal(s, X, {}) /\ Same(k, s)
      BY <1>5, <3>1, <3>2, LegalChange
    <3>4. AllFit(Alive(k), s.prio, k.base, Asked(k, t, o), NoTask)
      BY <1>1, <1>3, <1>5, <1>10, <2>1, <3>2, RaiseExact
    <3> QED BY <1>9, <3>3, <3>4
  <2>2. CASE ~(k.prio[o] > p)
    <3>1. s = k
      BY <1>7, <1>10, <2>2
    <3>2. ASSUME NEW x \in Alive(k) PROVE Fit(k.prio, k.base[x], Asked(k, t, o)[x], k.prio[x])
      <4>1. x \in Task /\ k.state[x] # "del"
        BY DEF Alive
      <4>2. Fit(k.prio, k.base[x], Claims(k, X, x), k.prio[x])
        BY <1>1, <1>9, <4>1 DEF Exact, FitAt
      <4>3. CASE x = o
        <5>1. Asked(k, t, o)[x] = Claims(k, X, x) \cup {t}
          BY <1>9, <4>1, <4>3 DEF Asked, Claims
        <5>2. k.prio[x] <= k.prio[t]
          BY <1>3, <1>10, <1>11, <2>2, <4>1, <4>3
        <5> QED BY <4>2, <5>1, <5>2 DEF Fit
      <4>4. CASE x # o
        <5>1. Asked(k, t, o)[x] = Claims(k, X, x)
          BY <1>9, <4>1, <4>4 DEF Asked, Claims
        <5> QED BY <4>2, <5>1
      <4> QED BY <4>3, <4>4
    <3> QED BY <1>1, <3>1, <3>2 DEF AllFit, Same
  <2> QED BY <2>1, <2>2
<1>13. \A n \in ToSet(k.grp[t]) : Rank[n] < Rank[m]
  <2>1. ToSet(<<>>) = {}
    BY DEF ToSet
  <2> QED BY <1>6, <2>1
<1>14. MayWait(s, t, m)
  BY <1>3, <1>4, <1>5, <1>6, <1>12, <1>13 DEF Same, MayWait
<1>15. PICK r : r = Waiting(s, t, m)
  OBVIOUS
<1>16. Began(s, t, m, r)
  BY <1>3, <1>12, <1>14, <1>15, LegalWaiting
<1>17. /\ r.prio = s.prio /\ r.base = k.base /\ r.owner = k.owner
       /\ Waits(r, t) /\ r.obj[t] = m
       /\ \A x \in Task : x # t => r.state[x] = k.state[x] /\ r.obj[x] = k.obj[x]
  <2>1. k.obj \in [Task -> Mutex \cup {NoMutex}]
    BY <1>1 DEF Kernel
  <2> QED BY <1>3, <1>12, <1>16, <2>1 DEF Began, Same
<1>18. ASSUME NEW x \in Task PROVE Claims(r, X, x) = Asked(k, t, o)[x]
  <2>1. \A u \in Task : u # t => (Waits(r, u) <=> Waits(k, u))
    BY <1>17 DEF Waits
  <2> QED BY <1>3, <1>4, <1>9, <1>17, <2>1 DEF Claims, Asked
<1>19. Exact(r, X)
  <2> SUFFICES ASSUME NEW x \in Task, r.state[x] # "del" PROVE FitAt(r, X, x)
    BY DEF Exact
  <2>1. x \in Alive(k) /\ x # NoTask
    BY <1>3, <1>17, MutexAssumption DEF Alive
  <2>2. Fit(s.prio, k.base[x], Asked(k, t, o)[x], s.prio[x])
    BY <1>12, <2>1 DEF AllFit
  <2> QED BY <1>17, <1>18, <2>2 DEF FitAt
<1> QED BY <1>8, <1>9, <1>15, <1>19

LEMMA InitX == ASSUME Init PROVE InvX
<1>1. PICK r : r = Sched(Fresh)
  OBVIOUS
<1>2. /\ r.state = Fresh.state /\ r.prio = Fresh.prio /\ r.base = Fresh.base
  BY <1>1, LegalFresh, LegalSched
<1>3. /\ \A x \in Task : ~Waits(r, x) /\ r.prio[x] = r.base[x]
      /\ r.prio \in [Task -> Nat]
  <2>1. r.prio = BasePrio /\ r.base = BasePrio /\ r.state = [t \in Task |-> "rdy"]
    BY <1>2 DEF Fresh
  <2>2. BasePrio \in [Task -> Nat]
    BY MutexAssumption
  <2> QED BY <2>1, <2>2 DEF Waits
<1>4. PICK X : X = {}
  OBVIOUS
<1>5. \A x \in Task : FitAt(r, X, x)
  <2> SUFFICES ASSUME NEW x \in Task PROVE FitAt(r, X, x)
    OBVIOUS
  <2>1. Claims(r, X, x) = {}
    BY <1>3 DEF Claims
  <2>2. PICK n \in Nat : n = r.prio[x] /\ n = r.base[x]
    BY <1>3
  <2>3. n <= n
    BY <2>2
  <2> QED BY <2>1, <2>2, <2>3 DEF FitAt, Fit
<1>6. Exact(r, X)
  BY <1>5 DEF Exact
<1> QED BY <1>1, <1>4, <1>6, InitInv DEF Init, InvX

LEMMA StepX ==
  ASSUME ChainsRiseOnly, InvX, [Next]_vars, mode' # "damaged" PROVE InvX'
<1>1. ASSUME NEW m \in Mutex, PendTake(m) PROVE Exact(k', {})
  BY <1>1, PendTakeExact
<1>2. ASSUME NEW m \in Mutex, PendWait(m) PROVE Exact(k', {})
  BY <1>2, PendWaitExact
<1>3. ASSUME NEW m \in Mutex, PostFree(m) PROVE Exact(k', {})
  BY <1>3, PostFreeExact
<1>4. ASSUME NEW m \in Mutex, PostHand(m) PROVE Exact(k', {})
  BY <1>4, PostHandExact
<1>5. ASSUME NEW m \in Mutex, PendAbort(m) PROVE Exact(k', {})
  BY <1>5, PendAbortExact
<1>6. ASSUME NEW m \in Mutex, MutexDel(m) PROVE Exact(k', {})
  BY <1>6, MutexDelExact
<1>7. ASSUME NEW m \in Mutex, PendNest(m) \/ PostNested(m) \/ MutexCreate(m) PROVE Exact(k', {})
  BY <1>7, OtherExact
<1>8. ASSUME NEW t \in Task, TaskDel(t) PROVE Exact(k', {})
  BY <1>8, TaskDelExact
<1>9. ASSUME NEW t \in Task, Expire(t) PROVE Exact(k', {})
  BY <1>9, ExpireExact
<1>10. ASSUME NEW t \in Task, NEW p \in Prio, TaskChangePrio(t, p) PROVE Exact(k', {})
  BY <1>10, TaskChangePrioExact
<1>11. ASSUME Delay PROVE Exact(k', {})
  BY <1>11, DelayExact
<1>12. ASSUME OSSched \/ OSIntExit PROVE Exact(k', {})
  BY <1>12, OtherExact
<1>13. ASSUME Damaged \/ UNCHANGED vars PROVE Exact(k', {})
  BY <1>13, OtherExact DEF Damaged, vars
<1>14. ASSUME NEW m \in Mutex, Ask(m) \/ Refused(m) PROVE Exact(k', {})
  BY <1>14, OtherExact DEF Ask, Refused
<1>15. ASSUME NEW m \in Mutex, MutexCreateTaken(m) PROVE FALSE
  BY <1>15 DEF MutexCreateTaken
<1>16. Exact(k', {})
  BY <1>1, <1>2, <1>3, <1>4, <1>5, <1>6, <1>7, <1>8, <1>9, <1>10, <1>11, <1>12, <1>13,
     <1>14, <1>15 DEF Next, Critical
<1>17. Inv'
  BY StepInv DEF InvX
<1> QED BY <1>16, <1>17 DEF InvX

SoundX == Sound /\ (mode = "damaged" \/ InvX)

LEMMA InitSoundX == ASSUME Init PROVE SoundX
BY InitX, InitSound DEF SoundX

LEMMA StepSoundX == ASSUME ChainsRiseOnly, SoundX, [Next]_vars PROVE SoundX'
<1>1. Sound'
  BY StepSound DEF SoundX
<1>2. CASE mode = "damaged"
  BY <1>1, <1>2, DamagedStops DEF SoundX, vars
<1>3. CASE InvX
  <2>1. mode' # "damaged" => InvX'
    BY <1>3, StepX
  <2> QED BY <1>1, <2>1 DEF SoundX
<1> QED BY <1>2, <1>3 DEF SoundX

LEMMA InvExactInheritance == ASSUME InvX PROVE ExactInheritance
<1>1. k \in Kernel /\ Exact(k, {})
  BY DEF InvX, Inv, Legal
<1>2. PICK X : X = {}
  OBVIOUS
<1> SUFFICES ASSUME NEW t \in Task, k.state[t] # "del"
             PROVE  k.prio[t] = Min({k.base[t]} \cup
                      {k.prio[u] : u \in {v \in Task : Waits(k, v) /\ k.owner[k.obj[v]] = t}})
  BY DEF ExactInheritance
<1>3. PICK C : C = {v \in Task : Waits(k, v) /\ k.owner[k.obj[v]] = t}
  OBVIOUS
<1>4. C = Claims(k, X, t)
  BY <1>2, <1>3 DEF Claims
<1>5. Fit(k.prio, k.base[t], C, k.prio[t])
  BY <1>1, <1>2, <1>4 DEF Exact, FitAt
<1>6. PICK S : S = {k.base[t]} \cup {k.prio[u] : u \in C}
  OBVIOUS
<1>7. S \subseteq Nat /\ S # {} /\ k.prio[t] \in Nat
  BY <1>1, <1>3, <1>6, PrioNat
<1>8. k.prio[t] \in S /\ \A n \in S : k.prio[t] <= n
  BY <1>5, <1>6 DEF Fit
<1>9. PICK l : l = Min(S)
  OBVIOUS
<1>10. l \in S /\ \A n \in S : l <= n
  BY <1>7, <1>9, MinIs
<1>11. l = k.prio[t]
  <2>1. l \in Nat /\ l <= k.prio[t] /\ k.prio[t] <= l
    BY <1>7, <1>8, <1>10
  <2> QED BY <1>7, <2>1
<1> QED BY <1>3, <1>6, <1>9, <1>11

LEMMA InvNoInversion == ASSUME InvX PROVE NoInversion
<1>1. k \in Kernel /\ Tcbs(k, {}) /\ Prios(k) /\ Held(k) /\ Exact(k, {})
  BY DEF InvX, Inv, Legal
<1>2. PICK X : X = {}
  OBVIOUS
<1> SUFFICES ASSUME mode = "task", NEW t \in Task, Waits(k, t), k.state[k.owner[k.obj[t]]] = "rdy"
             PROVE  k.prio[k.cur] <= k.prio[t]
  BY DEF NoInversion
<1>3. PICK o \in Task : o = k.owner[k.obj[t]]
  BY <1>1 DEF Held
<1>4. k.cur = Highest(k)
  BY DEF InvX, Inv
<1>5. k.cur \in Task /\ k.prio[k.cur] <= k.prio[o]
  BY <1>1, <1>3, <1>4, HighestIs
<1>6. FitAt(k, X, o)
  BY <1>1, <1>2, <1>3 DEF Exact
<1>7. t \in Claims(k, X, o)
  BY <1>2, <1>3 DEF Claims
<1>8. k.prio[o] <= k.prio[t]
  BY <1>6, <1>7 DEF FitAt, Fit
<1>9. k.prio \in [Task -> Nat]
  BY <1>1, PrioNat
<1> QED BY <1>3, <1>5, <1>8, <1>9

(* Where no priority goes down along a chain of owners, what a task inherits  *)
(* is the priority of the most urgent task that waits for one of its mutexes, *)
(* and it ends with that wait, however it ends: OSMutexPost, OSMutexPendAbort,*)
(* OSMutexDel, OSTaskDel and the timeout all give back exactly what is owed.  *)
THEOREM SpecExactInheritance ==
  ASSUME ChainsRiseOnly PROVE Spec => []ExactInheritance
<1>1. Init => SoundX
  BY InitSoundX
<1>2. SoundX /\ [Next]_vars => SoundX'
  BY StepSoundX
<1>3. SoundX => ExactInheritance
  BY InvExactInheritance DEF SoundX, ExactInheritance
<1> QED BY <1>1, <1>2, <1>3, PTL DEF Spec

(* Nor is there unbounded priority inversion: OSSched and OSIntExit never     *)
(* leave a task running that is less urgent than one that waits for a mutex   *)
(* whose owner could run instead.                                             *)
THEOREM SpecNoInversion ==
  ASSUME ChainsRiseOnly PROVE Spec => []NoInversion
<1>1. Init => SoundX
  BY InitSoundX
<1>2. SoundX /\ [Next]_vars => SoundX'
  BY StepSoundX
<1>3. SoundX => NoInversion
  BY InvNoInversion DEF SoundX, NoInversion
<1> QED BY <1>1, <1>2, <1>3, PTL DEF Spec

=============================================================================
