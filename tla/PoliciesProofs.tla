--------------------------- MODULE PoliciesProofs ---------------------------
(***************************************************************************)
(* Proofs about Policies.tla: what the policies answer for every node,     *)
(* topology, configuration, request and changes of the worker, and what    *)
(* iterateGPUPartitions calls back with.  The recursive functions of the   *)
(* model are shown to exist and to do their work by induction, from the    *)
(* well-foundedness of the natural numbers (the first section); the        *)
(* inductive invariant is TypeOK /\ ScanInv.                               *)
(***************************************************************************)
EXTENDS Policies, FiniteSetTheorems, SequenceTheorems, TLAPS

-----------------------------------------------------------------------------
(* Recursive functions: they exist, and induction over their arguments.     *)

LEMMA Smallest ==
  ASSUME NEW S \in SUBSET Nat, S # {}
  PROVE  Min(S) \in S /\ \A y \in S : Min(S) <= y
  <1>1. PICK x \in S : \A y \in S : <<y, x>> \notin OpToRel(<, Nat)
    BY NatLessThanWellFounded, WFMin
  <1>2. ASSUME NEW y \in S
        PROVE  x <= y
    <2>1. <<y, x>> \in Nat \X Nat /\ <<y, x>>[1] = y /\ <<y, x>>[2] = x
      OBVIOUS
    <2>2. y < x => <<y, x>> \in OpToRel(<, Nat)
      BY <2>1, Zenon DEF OpToRel
    <2>3. ~(y < x)
      BY <1>1, <2>2, Zenon
    <2> QED
      BY <2>3
  <1> QED
    BY <1>2 DEF Min


\* what holds of n when it holds of all smaller numbers holds of all
LEMMA Induction ==
  ASSUME NEW S \in SUBSET Nat,
         \A n \in Nat : (\A k \in Nat : k < n => k \in S) => n \in S
  PROVE  S = Nat
  <1> SUFFICES ASSUME Nat \ S # {}
               PROVE  FALSE
    OBVIOUS
  <1> DEFINE T == Nat \ S
             n == Min(T)
  <1>1. n \in T /\ \A k \in T : n <= k
    <2> HIDE DEF T
    <2>1. T \in SUBSET Nat /\ T # {}
      BY DEF T
    <2> QED
      BY <2>1, Smallest
  <1> HIDE DEF n
  <1>2. n \in Nat /\ n \notin S
    BY <1>1
  <1>3. \A k \in Nat : k < n => k \in S
    BY <1>1, <1>2
  <1> QED
    BY <1>2, <1>3

(***************************************************************************)
(* A function on X with values in Y is given by B: f[x] may depend on      *)
(* f[y] for the y of smaller measure m.                                    *)
(***************************************************************************)
Recursive(X, Y, m, B) ==
  /\ Y # {} /\ m \in [X -> Nat] /\ B \in [X \X [X -> Y] -> Y]
  /\ \A x \in X : \A g, h \in [X -> Y] :
       (\A y \in X : m[y] < m[x] => g[y] = h[y]) => B[<<x, g>>] = B[<<x, h>>]

\* the functions that are right for measures below n
Solutions(X, Y, m, B, n) ==
  {g \in [X -> Y] : \A x \in X : m[x] < n => g[x] = B[<<x, g>>]}

LEMMA SolutionsAgree ==
  ASSUME NEW X, NEW Y, NEW m, NEW B, Recursive(X, Y, m, B),
         NEW j \in Nat, NEW g \in Solutions(X, Y, m, B, j),
         NEW k \in Nat, NEW h \in Solutions(X, Y, m, B, k)
  PROVE  \A x \in X : m[x] < j /\ m[x] < k => g[x] = h[x]
  <1> DEFINE Bad == {m[x] : x \in {y \in X : m[y] < j /\ m[y] < k /\ g[y] # h[y]}}
  <1>1. Bad = {}
    <2> SUFFICES ASSUME Bad # {}
                 PROVE  FALSE
      OBVIOUS
    <2>1. Bad \in SUBSET Nat
      BY DEF Recursive
    <2>2. Min(Bad) \in Bad /\ \A n \in Bad : Min(Bad) <= n
      <3> HIDE DEF Bad
      <3> QED
        BY <2>1, Smallest
    <2>3. PICK x \in X : /\ m[x] = Min(Bad) /\ m[x] < j /\ m[x] < k
                         /\ g[x] # h[x]
      BY <2>2
    <2>4. ASSUME NEW y \in X, m[y] < m[x]
          PROVE  g[y] = h[y]
      <3>1. m[y] \in Nat /\ m[x] \in Nat
        BY DEF Recursive
      <3>2. m[y] < j /\ m[y] < k
        BY <2>3, <2>4, <3>1
      <3>3. m[y] \notin Bad
        <4> HIDE DEF Bad
        <4> QED
          BY <2>1, <2>2, <2>3, <2>4, <3>1
      <3> QED
        BY <3>2, <3>3
    <2>5. g \in [X -> Y] /\ h \in [X -> Y]
      BY DEF Solutions
    <2>6. B[<<x, g>>] = B[<<x, h>>]
      BY <2>4, <2>5 DEF Recursive
    <2>7. g[x] = B[<<x, g>>] /\ h[x] = B[<<x, h>>]
      BY <2>3 DEF Solutions
    <2> QED
      BY <2>3, <2>6, <2>7
  <1> QED
    BY <1>1

LEMMA SolutionsExist ==
  ASSUME NEW X, NEW Y, NEW m, NEW B, Recursive(X, Y, m, B)
  PROVE  \A n \in Nat : Solutions(X, Y, m, B, n) # {}
  <1> DEFINE Bad == {n \in Nat : Solutions(X, Y, m, B, n) = {}}
  <1>1. Bad = {}
    <2> SUFFICES ASSUME Bad # {}
                 PROVE  FALSE
      OBVIOUS
    <2>1. Bad \in SUBSET Nat
      OBVIOUS
    <2> DEFINE n == Min(Bad)
    <2>2. n \in Bad /\ \A k \in Bad : n <= k
      <3> HIDE DEF Bad
      <3> QED
        BY <2>1, Smallest
    <2> HIDE DEF n
    <2>3. n \in Nat /\ Solutions(X, Y, m, B, n) = {}
      BY <2>2
    <2>4. n # 0
      <3>1. PICK y \in Y : TRUE
        BY DEF Recursive
      <3>2. [x \in X |-> y] \in Solutions(X, Y, m, B, 0)
        BY DEF Solutions, Recursive
      <3> QED
        BY <2>3, <3>2
    <2>5. n - 1 \in Nat /\ n - 1 \notin Bad
      <3> HIDE DEF Bad
      <3> QED
        BY <2>2, <2>3, <2>4
    <2>6. PICK g : g \in Solutions(X, Y, m, B, n - 1)
      BY <2>5
    <2> DEFINE h == [x \in X |-> IF m[x] < n THEN B[<<x, g>>] ELSE g[x]]
    <2>7. g \in [X -> Y] /\ h \in [X -> Y]
      BY <2>6 DEF Solutions, Recursive
    <2>8. ASSUME NEW x \in X, m[x] < n
          PROVE  h[x] = B[<<x, h>>]
      <3>1. \A y \in X : m[y] < m[x] => g[y] = h[y]
        <4> SUFFICES ASSUME NEW y \in X, m[y] < m[x]
                     PROVE  g[y] = h[y]
          OBVIOUS
        <4>1. m[y] \in Nat /\ m[x] \in Nat
          BY DEF Recursive
        <4>2. m[y] < n - 1 /\ m[y] < n
          BY <2>3, <2>8, <4>1
        <4> QED
          BY <2>6, <4>2 DEF Solutions
      <3>2. B[<<x, g>>] = B[<<x, h>>]
        <4> HIDE DEF h
        <4> QED
          BY <2>7, <3>1 DEF Recursive
      <3> QED
        BY <2>8, <3>2
    <2>9. h \in Solutions(X, Y, m, B, n)
      <3> HIDE DEF h
      <3> QED
        BY <2>7, <2>8 DEF Solutions
    <2> QED
      BY <2>3, <2>9
  <1> QED
    BY <1>1

LEMMA Recursion ==
  ASSUME NEW X, NEW Y, NEW m, NEW B, Recursive(X, Y, m, B)
  PROVE  \E f \in [X -> Y] : \A x \in X : f[x] = B[<<x, f>>]
  <1> DEFINE sol(n) == CHOOSE g : g \in Solutions(X, Y, m, B, n)
             f      == [x \in X |-> sol(m[x] + 1)[x]]
  <1>1. \A n \in Nat : sol(n) \in Solutions(X, Y, m, B, n)
    BY SolutionsExist
  <1>2. \A x \in X : m[x] \in Nat
    BY DEF Recursive
  <1> HIDE DEF sol
  <1>3. \A n \in Nat : sol(n) \in [X -> Y]
    BY <1>1 DEF Solutions
  <1>4. f \in [X -> Y]
    BY <1>2, <1>3
  <1>5. ASSUME NEW x \in X
        PROVE  f[x] = B[<<x, f>>]
    <2> DEFINE g == sol(m[x] + 1)
    <2>1. g \in Solutions(X, Y, m, B, m[x] + 1)
      BY <1>1, <1>2
    <2> HIDE DEF g
    <2>2. g \in [X -> Y] /\ g[x] = B[<<x, g>>]
      BY <1>2, <2>1 DEF Solutions
    <2>3. ASSUME NEW y \in X, m[y] < m[x]
          PROVE  f[y] = g[y]
      <3>1. m[y] \in Nat /\ m[x] \in Nat /\ m[y] + 1 \in Nat /\ m[x] + 1 \in Nat
        BY <1>2
      <3>2. m[y] < m[y] + 1 /\ m[y] < m[x] + 1
        BY <2>3, <3>1
      <3>3. sol(m[y] + 1) \in Solutions(X, Y, m, B, m[y] + 1)
        BY <1>1, <3>1
      <3>4. sol(m[y] + 1)[y] = g[y]
        BY <2>1, <3>1, <3>2, <3>3, SolutionsAgree
      <3> QED
        BY <3>4
    <2>4. B[<<x, f>>] = B[<<x, g>>]
      <3> HIDE DEF f
      <3> QED
        BY <1>4, <2>2, <2>3 DEF Recursive
    <2>5. f[x] = g[x]
      BY DEF g
    <2> QED
      BY <2>2, <2>4, <2>5
  <1> QED
    BY <1>4, <1>5
-----------------------------------------------------------------------------
(* Sequences.                                                               *)

LEMMA InSeq ==
  ASSUME NEW S, NEW s \in Seq(S)
  PROVE  /\ Len(s) \in Nat /\ DOMAIN s = 1 .. Len(s) /\ s \in [1 .. Len(s) -> S]
         /\ \A i \in DOMAIN s : s[i] \in S
         /\ ToSet(s) \subseteq S
  BY LenProperties DEF ToSet

LEMMA Joined ==
  ASSUME NEW S, NEW s \in Seq(S), NEW t \in Seq(S)
  PROVE  /\ s \o t \in Seq(S) /\ Len(s \o t) = Len(s) + Len(t)
         /\ ToSet(s \o t) = ToSet(s) \union ToSet(t)
  <1>1. /\ s \o t \in Seq(S) /\ Len(s \o t) = Len(s) + Len(t)
        /\ \A i \in 1 .. Len(s) + Len(t) :
             (s \o t)[i] = IF i <= Len(s) THEN s[i] ELSE t[i - Len(s)]
    BY ConcatProperties
  <1>2. /\ Len(s) \in Nat /\ DOMAIN s = 1 .. Len(s)
        /\ Len(t) \in Nat /\ DOMAIN t = 1 .. Len(t)
        /\ DOMAIN (s \o t) = 1 .. Len(s) + Len(t)
    BY <1>1, LenProperties
  <1>3. \A i \in DOMAIN s : i \in DOMAIN (s \o t) /\ (s \o t)[i] = s[i]
    BY <1>1, <1>2
  <1>4. \A i \in DOMAIN t :
          i + Len(s) \in DOMAIN (s \o t) /\ (s \o t)[i + Len(s)] = t[i]
    BY <1>1, <1>2
  <1>5. \A i \in DOMAIN (s \o t) :
          \/ i \in DOMAIN s /\ (s \o t)[i] = s[i]
          \/ i - Len(s) \in DOMAIN t /\ (s \o t)[i] = t[i - Len(s)]
    BY <1>1, <1>2
  <1>6. ToSet(s \o t) \subseteq ToSet(s) \union ToSet(t)
    BY <1>5 DEF ToSet
  <1>7. ToSet(s) \subseteq ToSet(s \o t) /\ ToSet(t) \subseteq ToSet(s \o t)
    <2> DEFINE st == s \o t
    <2> HIDE DEF st
    <2>1. \A i \in DOMAIN s : s[i] \in ToSet(st)
      BY <1>3, Zenon DEF ToSet, st
    <2>2. \A i \in DOMAIN t : t[i] \in ToSet(st)
      BY <1>4, Zenon DEF ToSet, st
    <2> QED
      BY <2>1, <2>2 DEF ToSet, st
  <1> QED
    BY <1>1, <1>6, <1>7

LEMMA Consed ==
  ASSUME NEW S, NEW t \in S, NEW p \in Seq(S)
  PROVE  /\ <<t>> \o p \in Seq(S) /\ DOMAIN (<<t>> \o p) = 1 .. Len(p) + 1
         /\ (<<t>> \o p)[1] = t
         /\ \A j \in 1 .. Len(p) : (<<t>> \o p)[j + 1] = p[j]
  <1> DEFINE c == <<t>>
             q == c \o p
  <1>1. c \in Seq(S) /\ Len(c) = 1 /\ c[1] = t
    OBVIOUS
  <1> HIDE DEF c
  <1>2. Len(p) \in Nat
    BY LenProperties
  <1>3. /\ q \in Seq(S) /\ Len(q) = 1 + Len(p)
        /\ \A i \in 1 .. 1 + Len(p) : q[i] = IF i <= 1 THEN c[i] ELSE p[i - 1]
    <2>1. /\ c \o p \in Seq(S) /\ Len(c \o p) = Len(c) + Len(p)
          /\ \A i \in 1 .. Len(c) + Len(p) :
               (c \o p)[i] = IF i <= Len(c) THEN c[i] ELSE p[i - Len(c)]
      BY <1>1, ConcatProperties, Zenon
    <2> QED
      BY <1>1, <2>1
  <1> HIDE DEF q
  <1>4. DOMAIN q = 1 .. Len(p) + 1
    BY <1>2, <1>3, LenProperties
  <1>5. q[1] = t
    BY <1>1, <1>2, <1>3
  <1>6. \A j \in 1 .. Len(p) : j + 1 \in 1 .. 1 + Len(p) /\ ~(j + 1 <= 1) /\ j + 1 - 1 = j
    BY <1>2
  <1> QED
    BY <1>3, <1>4, <1>5, <1>6 DEF q, c

\* FlattenSeq, unfolded
LEMMA FlattenIs ==
  ASSUME NEW S, NEW s \in Seq(Seq(S)), Len(s) # 0
  PROVE  \E f : /\ \A i \in 1 .. Len(s) : f[i] = IF i = 1 THEN s[i] ELSE f[i - 1] \o s[i]
               /\ FlattenSeq(s) = f[Len(s)]
  <1> DEFINE X       == 1 .. Len(s)
             Y       == Seq(S)
             m       == [i \in X |-> i]
             B       == [q \in X \X [X -> Y] |->
                           IF q[1] = 1 THEN s[q[1]] ELSE q[2][q[1] - 1] \o s[q[1]]]
             IsIt(F) == F = [i \in X |-> IF i = 1 THEN s[i] ELSE F[i - 1] \o s[i]]
             flatten == CHOOSE F : IsIt(F)
  <1>0. Len(s) \in Nat /\ DOMAIN s = 1 .. Len(s) /\ \A i \in DOMAIN s : s[i] \in Seq(S)
    BY InSeq
  <1>1. Y # {} /\ m \in [X -> Nat]
    <2>1. << >> \in Y
      OBVIOUS
    <2> QED
      BY <2>1
  <1>2. B \in [X \X [X -> Y] -> Y]
    <2> SUFFICES ASSUME NEW i \in X, NEW g \in [X -> Y]
                 PROVE  (IF i = 1 THEN s[i] ELSE g[i - 1] \o s[i]) \in Y
      OBVIOUS
    <2>1. s[i] \in Y
      BY <1>0
    <2>2. i # 1 => i - 1 \in X
      BY <1>0
    <2>3. i # 1 => g[i - 1] \in Y
      BY <2>2
    <2> QED
      BY <2>1, <2>3, Joined
  <1>3. ASSUME NEW i \in X, NEW g \in [X -> Y], NEW h \in [X -> Y],
               \A k \in X : m[k] < m[i] => g[k] = h[k]
        PROVE  B[<<i, g>>] = B[<<i, h>>]
    <2>1. i # 1 => g[i - 1] = h[i - 1]
      BY <1>0, <1>3
    <2> QED
      BY <2>1
  <1>4. Recursive(X, Y, m, B)
    <2> HIDE DEF X, Y, m, B
    <2> QED
      BY <1>1, <1>2, <1>3 DEF Recursive
  <1>5. PICK f \in [X -> Y] : \A i \in X : f[i] = B[<<i, f>>]
    <2> HIDE DEF X, Y, m, B
    <2> QED
      BY <1>4, Recursion
  <1>6. IsIt(f)
    BY <1>5
  <1>7. IsIt(flatten)
    <2> HIDE DEF IsIt
    <2> QED
      BY <1>6
  <1> HIDE DEF flatten
  <1>8. \A i \in X : flatten[i] = IF i = 1 THEN s[i] ELSE flatten[i - 1] \o s[i]
    BY <1>7
  <1>9. FlattenSeq(s) = flatten[Len(s)]
    BY DEF FlattenSeq, flatten
  <1> QED
    BY <1>8, <1>9

LEMMA Flattened ==
  ASSUME NEW S, NEW s \in Seq(Seq(S))
  PROVE  /\ FlattenSeq(s) \in Seq(S)
         /\ ToSet(FlattenSeq(s)) = UNION {ToSet(s[i]) : i \in DOMAIN s}
  <1>1. Len(s) \in Nat /\ DOMAIN s = 1 .. Len(s) /\ \A i \in DOMAIN s : s[i] \in Seq(S)
    BY InSeq
  <1>2. CASE Len(s) = 0
    <2>1. s = << >> /\ FlattenSeq(s) = << >>
      BY <1>2, EmptySeq DEF FlattenSeq
    <2>2. << >> \in Seq(S) /\ DOMAIN << >> = {}
      OBVIOUS
    <2> QED
      BY <2>1, <2>2 DEF ToSet
  <1>3. CASE Len(s) # 0
    <2> DEFINE X == 1 .. Len(s)
               Y == Seq(S)
    <2>1. PICK flatten : /\ \A i \in X : flatten[i] = IF i = 1 THEN s[i]
                                                     ELSE flatten[i - 1] \o s[i]
                         /\ FlattenSeq(s) = flatten[Len(s)]
      BY <1>3, FlattenIs
    <2> DEFINE Sofar(i)   == UNION {ToSet(s[k]) : k \in 1 .. i}
               Good       == {n \in Nat : n \in X => /\ flatten[n] \in Y
                                                     /\ ToSet(flatten[n]) = Sofar(n)}
    <2>2. ASSUME NEW n \in Nat, \A k \in Nat : k < n => k \in Good
          PROVE  n \in Good
      <3> SUFFICES ASSUME n \in X
                   PROVE  flatten[n] \in Y /\ ToSet(flatten[n]) = Sofar(n)
        OBVIOUS
      <3>1. CASE n = 1
        <4>1. 1 .. n = {1} /\ 1 \in X
          BY <3>1
        <4>2. flatten[1] = s[1] /\ s[1] \in Y
          BY <1>1, <2>1, <4>1
        <4> QED
          BY <3>1, <4>1, <4>2
      <3>2. CASE n # 1
        <4>1. n - 1 \in Nat /\ n - 1 \in X /\ n - 1 < n
          BY <1>1, <3>2
        <4>2. flatten[n - 1] \in Y /\ ToSet(flatten[n - 1]) = Sofar(n - 1)
          BY <2>2, <4>1
        <4>3. flatten[n] = flatten[n - 1] \o s[n]
          BY <2>1, <3>2
        <4>4. s[n] \in Y
          BY <1>1
        <4>5. flatten[n] \in Y /\ ToSet(flatten[n]) = Sofar(n - 1) \union ToSet(s[n])
          BY <4>2, <4>3, <4>4, Joined
        <4>6. 1 .. n = (1 .. n - 1) \union {n}
          BY <4>1
        <4> QED
          BY <4>5, <4>6
      <3> QED
        BY <3>1, <3>2
    <2>3. Good = Nat
      <3> HIDE DEF Good
      <3>1. Good \in SUBSET Nat
        BY DEF Good
      <3> QED
        BY <2>2, <3>1, Induction
    <2>4. Len(s) \in X
      BY <1>1, <1>3
    <2> QED
      BY <1>1, <2>1, <2>3, <2>4
  <1> QED
    BY <1>2, <1>3

\* F tells the elements of s apart
Tells(F, s) == \A a, b \in DOMAIN s : F[s[a]] = F[s[b]] => a = b

LEMMA JoinedTells ==
  ASSUME NEW S, NEW s \in Seq(S), NEW t \in Seq(S), NEW F, Tells(F, s), Tells(F, t),
         \A x \in ToSet(s) : \A y \in ToSet(t) : F[x] # F[y]
  PROVE  Tells(F, s \o t)
  <1> DEFINE u == s \o t
             m == Len(s)
             n == Len(t)
  <1>1. m \in Nat /\ n \in Nat /\ DOMAIN s = 1 .. m /\ DOMAIN t = 1 .. n
    BY InSeq
  <1>2. u \in Seq(S) /\ Len(u) = m + n
    BY Joined
  <1>3. DOMAIN u = 1 .. m + n
    BY <1>2, InSeq
  <1>4. \A a \in 1 .. m + n : u[a] = IF a <= m THEN s[a] ELSE t[a - m]
    BY ConcatProperties, Zenon
  <1> HIDE DEF u, m, n
  <1>5. ASSUME NEW a \in 1 .. m + n
        PROVE  \/ a \in 1 .. m /\ u[a] = s[a] /\ u[a] \in ToSet(s)
               \/ a > m /\ a - m \in 1 .. n /\ u[a] = t[a - m] /\ u[a] \in ToSet(t)
    <2>1. CASE a <= m
      BY <1>1, <1>4, <2>1 DEF ToSet
    <2>2. CASE a > m
      <3>1. a - m \in 1 .. n /\ ~(a <= m)
        BY <1>1, <2>2
      <3>2. u[a] = t[a - m]
        BY <1>4, <3>1
      <3>3. t[a - m] \in ToSet(t)
        BY <1>1, <3>1 DEF ToSet
      <3> QED
        BY <2>2, <3>1, <3>2, <3>3
    <2> QED
      BY <1>1, <2>1, <2>2
  <1>6. ASSUME NEW a \in 1 .. m + n, NEW b \in 1 .. m + n, F[u[a]] = F[u[b]]
        PROVE  a = b
    <2>1. CASE a \in 1 .. m /\ b \in 1 .. m
      BY <1>1, <1>5, <1>6, <2>1 DEF Tells
    <2>2. CASE a > m /\ b > m
      <3>1. a - m \in 1 .. n /\ b - m \in 1 .. n /\ u[a] = t[a - m] /\ u[b] = t[b - m]
        BY <1>1, <1>5, <2>2
      <3>2. a - m = b - m
        BY <1>1, <1>6, <3>1 DEF Tells
      <3> QED
        BY <1>1, <3>2
    <2>3. ~(a \in 1 .. m /\ b > m) /\ ~(b \in 1 .. m /\ a > m)
      BY <1>1, <1>5, <1>6
    <2> QED
      BY <1>1, <1>5, <2>1, <2>2, <2>3
  <1> QED
    BY <1>3, <1>6 DEF Tells, u

LEMMA FlattenedTells ==
  ASSUME NEW S, NEW s \in Seq(Seq(S)), NEW F,
         \A i \in DOMAIN s : Tells(F, s[i]),
         \A i, j \in DOMAIN s : \A x \in ToSet(s[i]) : \A y \in ToSet(s[j]) : F[x] = F[y] => i = j
  PROVE  Tells(F, FlattenSeq(s))
  <1>1. Len(s) \in Nat /\ DOMAIN s = 1 .. Len(s) /\ \A i \in DOMAIN s : s[i] \in Seq(S)
    BY InSeq
  <1>2. CASE Len(s) = 0
    <2>1. s = << >> /\ FlattenSeq(s) = << >>
      BY <1>2, EmptySeq DEF FlattenSeq
    <2> QED
      BY <2>1 DEF Tells
  <1>3. CASE Len(s) # 0
    <2> DEFINE X == 1 .. Len(s)
    <2>1. PICK flatten : /\ \A i \in X : flatten[i] = IF i = 1 THEN s[i]
                                                     ELSE flatten[i - 1] \o s[i]
                         /\ FlattenSeq(s) = flatten[Len(s)]
      BY <1>3, FlattenIs
    <2> DEFINE Sofar(i)   == UNION {ToSet(s[k]) : k \in 1 .. i}
               Good       == {n \in Nat : n \in X => /\ flatten[n] \in Seq(S)
                                                     /\ ToSet(flatten[n]) = Sofar(n)
                                                     /\ Tells(F, flatten[n])}
    <2>2. ASSUME NEW n \in Nat, \A k \in Nat : k < n => k \in Good
          PROVE  n \in Good
      <3> SUFFICES ASSUME n \in X
                   PROVE  /\ flatten[n] \in Seq(S) /\ ToSet(flatten[n]) = Sofar(n)
                          /\ Tells(F, flatten[n])
        OBVIOUS
      <3>1. CASE n = 1
        <4>1. 1 .. n = {1} /\ 1 \in X
          BY <3>1
        <4>2. flatten[1] = s[1] /\ s[1] \in Seq(S) /\ Tells(F, s[1])
          BY <1>1, <2>1, <4>1
        <4> QED
          BY <3>1, <4>1, <4>2
      <3>2. CASE n # 1
        <4>1. n - 1 \in Nat /\ n - 1 \in X /\ n - 1 < n
          BY <1>1, <3>2
        <4>2. /\ flatten[n - 1] \in Seq(S) /\ ToSet(flatten[n - 1]) = Sofar(n - 1)
              /\ Tells(F, flatten[n - 1])
          BY <2>2, <4>1
        <4>3. flatten[n] = flatten[n - 1] \o s[n]
          BY <2>1, <3>2
        <4>4. s[n] \in Seq(S) /\ Tells(F, s[n])
          BY <1>1
        <4>5. flatten[n] \in Seq(S) /\ ToSet(flatten[n]) = Sofar(n - 1) \union ToSet(s[n])
          BY <4>2, <4>3, <4>4, Joined
        <4>6. 1 .. n = (1 .. n - 1) \union {n}
          BY <4>1
        <4>7. \A x \in ToSet(flatten[n - 1]) : \A y \in ToSet(s[n]) : F[x] # F[y]
          <5> SUFFICES ASSUME NEW k \in 1 .. n - 1, NEW x \in ToSet(s[k]), NEW y \in ToSet(s[n])
                       PROVE  F[x] # F[y]
            BY <4>2
          <5>1. k \in DOMAIN s /\ n \in DOMAIN s /\ k # n
            BY <1>1, <4>1
          <5> QED
            BY <5>1
        <4>8. Tells(F, flatten[n])
          BY <4>2, <4>3, <4>4, <4>7, JoinedTells
        <4> QED
          BY <4>5, <4>6, <4>8
      <3> QED
        BY <3>1, <3>2
    <2>3. Good = Nat
      <3> HIDE DEF Good
      <3>1. Good \in SUBSET Nat
        BY DEF Good
      <3> QED
        BY <2>2, <3>1, Induction
    <2>4. Len(s) \in X
      BY <1>1, <1>3
    <2> QED
      BY <1>1, <2>1, <2>3, <2>4
  <1> QED
    BY <1>2, <1>3
-----------------------------------------------------------------------------
(* Parts of a sequence.                                                     *)

\* r is made of the elements of s at the places P
Picks(r, s, P) ==
  /\ P \subseteq DOMAIN s
  /\ \E e \in Bijection(DOMAIN r, P) : \A j \in DOMAIN r : r[j] = s[e[j]]

\* no device is twice in s
Distinct(s) == \A i, j \in DOMAIN s : s[i] = s[j] /\ s[i] # NoGPU => i = j

\* the places of P where s has padding
PaddingAt(s, P) == {k \in P : s[k] = NoGPU}

LEMMA BijectionIs ==
  ASSUME NEW S, NEW T, NEW e
  PROVE  e \in Bijection(S, T) <=> /\ e \in [S -> T]
                                   /\ \A a, b \in S : e[a] = e[b] => a = b
                                   /\ \A t \in T : \E a \in S : e[a] = t
  BY DEF Bijection, Injection, Surjection, IsInjective

LEMMA Picked ==
  ASSUME NEW s \in Seq(Int), NEW r \in Seq(Int), NEW P, Picks(r, s, P)
  PROVE  /\ IsFiniteSet(P) /\ Cardinality(P) = Len(r)
         /\ ToSet(r) = {s[k] : k \in P}
         /\ Distinct(s) => Distinct(r)
         /\ IsFiniteSet(PaddingAt(s, P))
         /\ CountPadding(r) = Cardinality(PaddingAt(s, P))
  <1>1. /\ Len(r) \in Nat /\ DOMAIN r = 1 .. Len(r) /\ IsFiniteSet(1 .. Len(r))
        /\ Cardinality(1 .. Len(r)) = Len(r)
    <2>1. 1 \in Int /\ Len(r) \in Nat /\ Len(r) \in Int /\ DOMAIN r = 1 .. Len(r)
      BY InSeq
    <2>2. IsFiniteSet(1 .. Len(r))
            /\ Cardinality(1 .. Len(r)) = IF 1 > Len(r) THEN 0 ELSE Len(r) - 1 + 1
      BY <2>1, FS_Interval
    <2> QED
      BY <2>1, <2>2
  <1>2. PICK e : /\ e \in Bijection(DOMAIN r, P) /\ \A j \in DOMAIN r : r[j] = s[e[j]]
    BY DEF Picks
  <1>3. /\ e \in [DOMAIN r -> P]
        /\ \A a, b \in DOMAIN r : e[a] = e[b] => a = b
        /\ \A k \in P : \E a \in DOMAIN r : e[a] = k
    BY <1>2, BijectionIs
  <1>4. IsFiniteSet(P) /\ Cardinality(P) = Len(r)
    BY <1>1, <1>2, FS_Bijection DEF ExistsBijection
  <1>5. ToSet(r) = {s[k] : k \in P}
    <2>1. ToSet(r) \subseteq {s[k] : k \in P}
      BY <1>2, <1>3 DEF ToSet
    <2>2. {s[k] : k \in P} \subseteq ToSet(r)
      BY <1>2, <1>3 DEF ToSet
    <2> QED
      BY <2>1, <2>2
  <1>6. ASSUME Distinct(s)
        PROVE  Distinct(r)
    <2> SUFFICES ASSUME NEW i \in DOMAIN r, NEW j \in DOMAIN r, r[i] = r[j], r[i] # NoGPU
                 PROVE  i = j
      BY DEF Distinct
    <2>1. e[i] \in DOMAIN s /\ e[j] \in DOMAIN s
      BY <1>3 DEF Picks
    <2>2. s[e[i]] = s[e[j]] /\ s[e[i]] # NoGPU
      BY <1>2
    <2>3. e[i] = e[j]
      BY <1>6, <2>1, <2>2 DEF Distinct
    <2> QED
      BY <1>3, <2>3
  <1>7. IsFiniteSet(PaddingAt(r, DOMAIN r))
    BY <1>1, FS_Subset DEF PaddingAt
  <1>8. /\ IsFiniteSet(PaddingAt(s, P))
        /\ Cardinality(PaddingAt(r, DOMAIN r)) = Cardinality(PaddingAt(s, P))
    <2> DEFINE Q == PaddingAt(s, P)
               f == [j \in PaddingAt(r, DOMAIN r) |-> e[j]]
    <2>1. f \in [PaddingAt(r, DOMAIN r) -> Q]
      BY <1>2, <1>3 DEF PaddingAt
    <2>2. \A a, b \in PaddingAt(r, DOMAIN r) : f[a] = f[b] => a = b
      BY <1>3 DEF PaddingAt
    <2>3. \A k \in Q : \E a \in PaddingAt(r, DOMAIN r) : f[a] = k
      BY <1>2, <1>3 DEF PaddingAt
    <2> HIDE DEF f, Q
    <2>4. f \in Bijection(PaddingAt(r, DOMAIN r), Q)
      BY <2>1, <2>2, <2>3, BijectionIs
    <2>5. IsFiniteSet(Q) /\ Cardinality(Q) = Cardinality(PaddingAt(r, DOMAIN r))
      BY <1>7, <2>4, FS_Bijection DEF ExistsBijection
    <2> QED
      BY <2>5 DEF Q, PaddingAt
  <1> QED
    BY <1>4, <1>5, <1>6, <1>8 DEF CountPadding, PaddingAt

LEMMA AppendPicks ==
  ASSUME NEW S, NEW s \in Seq(S), NEW r \in Seq(S), NEW P, Picks(r, s, P),
         NEW k \in DOMAIN s \ P
  PROVE  Append(r, s[k]) \in Seq(S) /\ Picks(Append(r, s[k]), s, P \union {k})
  <1> DEFINE n == Len(r)
             t == Append(r, s[k])
  <1>1. /\ n \in Nat /\ DOMAIN r = 1 .. n /\ s[k] \in S
        /\ t \in Seq(S) /\ DOMAIN t = 1 .. n + 1
        /\ \A i \in 1 .. n : t[i] = r[i]
        /\ t[n + 1] = s[k]
    <2>1. n \in Nat /\ DOMAIN r = 1 .. n /\ s[k] \in S
      BY InSeq
    <2>2. /\ t \in Seq(S) /\ Len(t) = n + 1
          /\ \A i \in 1 .. n : t[i] = r[i]
          /\ t[n + 1] = s[k]
      BY <2>1, AppendProperties
    <2> HIDE DEF t
    <2>3. DOMAIN t = 1 .. Len(t)
      BY <2>2, LenProperties
    <2> QED
      BY <2>1, <2>2, <2>3
  <1>2. PICK e : /\ e \in Bijection(DOMAIN r, P) /\ \A j \in DOMAIN r : r[j] = s[e[j]]
    BY DEF Picks
  <1>3. /\ e \in [1 .. n -> P]
        /\ \A a, b \in 1 .. n : e[a] = e[b] => a = b
        /\ \A p \in P : \E a \in 1 .. n : e[a] = p
    BY <1>1, <1>2, BijectionIs
  <1> DEFINE f == [j \in 1 .. n + 1 |-> IF j = n + 1 THEN k ELSE e[j]]
             Q == P \union {k}
  <1>4. \A j \in 1 .. n + 1 : j = n + 1 \/ j \in 1 .. n
    BY <1>1
  <1>5. \A j \in 1 .. n : j \in 1 .. n + 1 /\ j # n + 1
    BY <1>1
  <1>6. n + 1 \in 1 .. n + 1
    BY <1>1
  <1> HIDE DEF n, t
  <1>7. f \in [1 .. n + 1 -> Q]
    BY <1>3, <1>4
  <1>8. \A a, b \in 1 .. n + 1 : f[a] = f[b] => a = b
    BY <1>3, <1>4, <1>5, <1>6
  <1>9. \A p \in Q : \E a \in 1 .. n + 1 : f[a] = p
    <2> SUFFICES ASSUME NEW p \in Q
                 PROVE  \E a \in 1 .. n + 1 : f[a] = p
      OBVIOUS
    <2>1. CASE p = k
      BY <1>6, <2>1
    <2>2. CASE p \in P
      <3>1. PICK a \in 1 .. n : e[a] = p
        BY <1>3, <2>2
      <3>2. f[a] = p
        BY <1>5, <3>1
      <3> QED
        BY <1>5, <3>2
    <2> QED
      BY <2>1, <2>2
  <1>10. \A j \in 1 .. n + 1 : t[j] = s[f[j]]
    BY <1>1, <1>2, <1>4, <1>5
  <1>11. f \in Bijection(1 .. n + 1, Q)
    <2> HIDE DEF f, Q
    <2> QED
      BY <1>7, <1>8, <1>9, BijectionIs
  <1>12. Q \subseteq DOMAIN s
    BY DEF Picks
  <1> QED
    BY <1>1, <1>10, <1>11, <1>12 DEF Picks, t, n

LEMMA NothingPicked ==
  ASSUME NEW s
  PROVE  Picks(<< >>, s, {})
  <1> DEFINE e == [j \in {} |-> j]
  <1>1. DOMAIN << >> = {}
    OBVIOUS
  <1>2. e \in Bijection({}, {})
    <2>1. e \in [{} -> {}]
      OBVIOUS
    <2> QED
      BY <2>1, BijectionIs
  <1> QED
    BY <1>1, <1>2 DEF Picks

\* no device after padding
Trailing(s) == \A i, j \in DOMAIN s : i < j /\ s[i] = NoGPU => s[j] = NoGPU

LEMMA AppendTrails ==
  ASSUME NEW s \in Seq(Int), Trailing(s), NEW r \in Seq(Int), Trailing(r),
         NEW P, Picks(r, s, P), NEW k \in DOMAIN s, \A p \in P : p < k
  PROVE  Trailing(Append(r, s[k]))
  <1> DEFINE n == Len(r)
             t == Append(r, s[k])
  <1>1. /\ n \in Nat /\ DOMAIN r = 1 .. n /\ DOMAIN t = 1 .. n + 1
        /\ \A i \in 1 .. n : t[i] = r[i]
        /\ t[n + 1] = s[k]
    <2>1. n \in Nat /\ DOMAIN r = 1 .. n /\ s[k] \in Int
      BY InSeq
    <2>2. /\ t \in Seq(Int) /\ Len(t) = n + 1
          /\ \A i \in 1 .. n : t[i] = r[i]
          /\ t[n + 1] = s[k]
      BY <2>1, AppendProperties
    <2> HIDE DEF t
    <2>3. DOMAIN t = 1 .. Len(t)
      BY <2>2, LenProperties
    <2> QED
      BY <2>1, <2>2, <2>3
  <1> HIDE DEF t, n
  <1>2. ASSUME NEW i \in DOMAIN t, NEW j \in DOMAIN t, i < j, t[i] = NoGPU
        PROVE  t[j] = NoGPU
    <2>1. i \in 1 .. n /\ t[i] = r[i]
      BY <1>1, <1>2
    <2>2. CASE j \in 1 .. n
      BY <1>1, <1>2, <2>1, <2>2 DEF Trailing
    <2>3. CASE j = n + 1
      <3>1. PICK p \in P : r[i] = s[p]
        <4>1. ToSet(r) = {s[p] : p \in P}
          BY Picked
        <4>2. r[i] \in ToSet(r)
          BY <1>1, <2>1 DEF ToSet
        <4> QED
          BY <4>1, <4>2
      <3>2. p \in DOMAIN s /\ p < k
        BY DEF Picks
      <3>3. s[k] = NoGPU
        BY <1>2, <2>1, <3>1, <3>2 DEF Trailing
      <3> QED
        BY <1>1, <2>3, <3>3
    <2> QED
      BY <1>1, <2>2, <2>3
  <1> QED
    BY <1>2 DEF Trailing, t

\* what remains of s are the places where it has no element of t
LEMMA RemainingPicks ==
  ASSUME NEW s \in Seq(Int), NEW t
  PROVE  /\ Remaining(s, t) \in Seq(Int)
         /\ Picks(Remaining(s, t), s, {k \in DOMAIN s : s[k] \notin ToSet(t)})
         /\ Trailing(s) => Trailing(Remaining(s, t))
  <1>1. Len(s) \in Nat /\ DOMAIN s = 1 .. Len(s) /\ \A i \in DOMAIN s : s[i] \in Int
    BY InSeq
  <1> DEFINE X         == 0 .. Len(s)
             Y         == Seq(Int)
             m         == [i \in X |-> i]
             B         == [q \in X \X [X -> Y] |->
                             IF q[1] = 0 THEN << >>
                             ELSE IF s[q[1]] \in ToSet(t) THEN q[2][q[1] - 1]
                             ELSE Append(q[2][q[1] - 1], s[q[1]])]
             IsIt(F)   == F = [i \in X |->
                                 IF i = 0 THEN << >>
                                 ELSE IF s[i] \in ToSet(t) THEN F[i - 1]
                                 ELSE Append(F[i - 1], s[i])]
             remaining == CHOOSE F : IsIt(F)
             Places(i) == {k \in 1 .. i : s[k] \notin ToSet(t)}
             Good      == {n \in Nat : n \in X => /\ remaining[n] \in Y
                                                  /\ Picks(remaining[n], s, Places(n))
                                                  /\ Trailing(s) => Trailing(remaining[n])}
  <1>2. /\ 0 \in X
        /\ \A i \in X : i # 0 => /\ i - 1 \in X /\ i - 1 \in Nat /\ i - 1 < i
                                 /\ i \in DOMAIN s /\ s[i] \in Int
                                 /\ 1 .. i = (1 .. i - 1) \union {i} /\ i \notin 1 .. i - 1
    BY <1>1
  <1>3. << >> \in Y
    OBVIOUS
  <1>4. Recursive(X, Y, m, B)
    <2>1. Y # {} /\ m \in [X -> Nat]
      BY <1>1, <1>3
    <2>2. B \in [X \X [X -> Y] -> Y]
      <3> SUFFICES ASSUME NEW i \in X, NEW g \in [X -> Y]
                   PROVE  (IF i = 0 THEN << >>
                           ELSE IF s[i] \in ToSet(t) THEN g[i - 1]
                           ELSE Append(g[i - 1], s[i])) \in Y
        BY Zenon
      <3>1. CASE i = 0
        BY <1>3, <3>1
      <3>2. CASE i # 0
        <4>1. g[i - 1] \in Seq(Int) /\ s[i] \in Int
          BY <1>2, <3>2
        <4>2. Append(g[i - 1], s[i]) \in Seq(Int)
          BY <4>1, AppendProperties
        <4> QED
          BY <3>2, <4>1, <4>2
      <3> QED
        BY <3>1, <3>2
    <2>3. ASSUME NEW i \in X, NEW g \in [X -> Y], NEW h \in [X -> Y],
                 \A k \in X : m[k] < m[i] => g[k] = h[k]
          PROVE  B[<<i, g>>] = B[<<i, h>>]
      <3>1. i # 0 => g[i - 1] = h[i - 1]
        BY <1>2, <2>3
      <3> QED
        BY <3>1
    <2> HIDE DEF X, Y, m, B
    <2> QED
      BY <2>1, <2>2, <2>3 DEF Recursive
  <1>5. PICK f \in [X -> Y] : \A i \in X : f[i] = B[<<i, f>>]
    <2> HIDE DEF X, Y, m, B
    <2> QED
      BY <1>4, Recursion
  <1>6. IsIt(f)
    BY <1>5
  <1>7. IsIt(remaining)
    <2> HIDE DEF IsIt
    <2> QED
      BY <1>6
  <1> HIDE DEF remaining
  <1>8. \A i \in X : remaining[i] = IF i = 0 THEN << >>
                                    ELSE IF s[i] \in ToSet(t) THEN remaining[i - 1]
                                    ELSE Append(remaining[i - 1], s[i])
    BY <1>7
  <1>9. ASSUME NEW n \in Nat, \A k \in Nat : k < n => k \in Good
        PROVE  n \in Good
    <2> SUFFICES ASSUME n \in X
                 PROVE  /\ remaining[n] \in Y /\ Picks(remaining[n], s, Places(n))
                        /\ Trailing(s) => Trailing(remaining[n])
      OBVIOUS
    <2>1. CASE n = 0
      <3>1. Places(n) = {} /\ remaining[n] = << >>
        BY <1>2, <1>8, <2>1
      <3>2. Trailing(<< >>)
        BY DEF Trailing
      <3> QED
        BY <1>3, <3>1, <3>2, NothingPicked
    <2>2. CASE n # 0
      <3>1. /\ remaining[n - 1] \in Seq(Int) /\ Picks(remaining[n - 1], s, Places(n - 1))
            /\ Trailing(s) => Trailing(remaining[n - 1])
        BY <1>2, <1>9, <2>2
      <3>2. CASE s[n] \in ToSet(t)
        <4>1. remaining[n] = remaining[n - 1] /\ Places(n) = Places(n - 1)
          BY <1>2, <1>8, <2>2, <3>2
        <4> QED
          BY <3>1, <4>1
      <3>3. CASE s[n] \notin ToSet(t)
        <4>1. /\ remaining[n] = Append(remaining[n - 1], s[n])
              /\ Places(n) = Places(n - 1) \union {n}
          BY <1>2, <1>8, <2>2, <3>3
        <4>2. n \in DOMAIN s \ Places(n - 1)
          BY <1>2, <2>2
        <4> DEFINE r == remaining[n - 1]
                   P == Places(n - 1)
        <4>3. r \in Seq(Int) /\ Picks(r, s, P) /\ n \in DOMAIN s \ P
          BY <3>1, <4>2
        <4>4. Append(r, s[n]) \in Seq(Int) /\ Picks(Append(r, s[n]), s, P \union {n})
          <5> HIDE DEF r, P
          <5> QED
            BY <4>3, AppendPicks
        <4>5. \A p \in P : p < n
          BY <1>1, <1>2, <2>2
        <4>6. Trailing(s) => Trailing(Append(r, s[n]))
          <5>1. Trailing(s) => Trailing(r)
            BY <3>1
          <5>2. n \in DOMAIN s
            BY <4>3
          <5> HIDE DEF r, P
          <5> QED
            BY <4>3, <4>5, <5>1, <5>2, AppendTrails
        <4> QED
          BY <4>1, <4>4, <4>6
      <3> QED
        BY <3>2, <3>3
    <2> QED
      BY <2>1, <2>2
  <1>10. Good = Nat
    <2> HIDE DEF Good
    <2>1. Good \in SUBSET Nat
      BY DEF Good
    <2> QED
      BY <1>9, <2>1, Induction
  <1>11. Len(s) \in X /\ Len(s) \in Nat /\ 1 .. Len(s) = DOMAIN s
    BY <1>1
  <1>12. Remaining(s, t) = remaining[Len(s)]
    BY DEF Remaining, remaining
  <1> QED
    BY <1>10, <1>11, <1>12

LEMMA FunctionIsSeq ==
  ASSUME NEW S, NEW n \in Int, NEW f \in [1 .. n -> S]
  PROVE  f \in Seq(S)
  <1>1. CASE n \in Nat
    BY <1>1, IsASeq
  <1>2. CASE n \notin Nat
    <2>1. 1 .. n = 1 .. 0 /\ 0 \in Nat
      BY <1>2
    <2>2. f \in [1 .. 0 -> S]
      BY <2>1
    <2> QED
      BY <2>1, <2>2, IsASeq
  <1> QED
    BY <1>1, <1>2

\* n places of a sequence of length l, from left to right
Places(l, n) ==
  {t \in Seq(Nat) : /\ Len(t) = n
                    /\ \A a \in 1 .. n : t[a] \in 1 .. l
                    /\ \A a, b \in 1 .. n : a < b => t[a] < t[b]}

LastOf(t) == IF t = << >> THEN 0 ELSE Last(t)

\* the places t, and one more
Extensions(l, t) == [j \in 1 .. l - LastOf(t) |-> Append(t, LastOf(t) + j)]

LEMMA NextPlace ==
  ASSUME NEW l \in Nat, NEW t \in Seq(Nat)
  PROVE  /\ LastOf(t) \in Nat
         /\ Extensions(l, t) \in Seq(Seq(Nat))
         /\ \A n \in Nat : t \in Places(l, n) =>
              Extensions(l, t) \in Seq(Places(l, n + 1))
  <1> DEFINE last == LastOf(t)
  <1>1. Len(t) \in Nat /\ DOMAIN t = 1 .. Len(t) /\ \A i \in DOMAIN t : t[i] \in Nat
    BY InSeq
  <1>2. last \in Nat /\ (Len(t) # 0 => last = t[Len(t)])
    <2>1. CASE Len(t) = 0
      BY <2>1, EmptySeq DEF LastOf
    <2>2. CASE Len(t) # 0
      <3>1. t # << >> /\ t[Len(t)] \in Nat
        BY <1>1, <2>2
      <3> QED
        BY <3>1 DEF LastOf, Last
    <2> QED
      BY <2>1, <2>2
  <1> HIDE DEF last
  <1>3. \A j \in 1 .. l - last : last + j \in Nat /\ last + j \in 1 .. l /\ last < last + j
    BY <1>2
  <1>4. ASSUME NEW j \in 1 .. l - last
        PROVE  /\ Append(t, last + j) \in Seq(Nat)
               /\ Len(Append(t, last + j)) = Len(t) + 1
               /\ \A i \in 1 .. Len(t) : Append(t, last + j)[i] = t[i]
               /\ Append(t, last + j)[Len(t) + 1] = last + j
    <2>1. last + j \in Nat
      BY <1>3
    <2> QED
      BY <2>1, AppendProperties
  <1>5. l - last \in Int
    BY <1>2
  <1>6. [j \in 1 .. l - last |-> Append(t, last + j)] \in Seq(Seq(Nat))
    BY <1>4, <1>5, FunctionIsSeq
  <1>7. ASSUME NEW n \in Nat, t \in Places(l, n)
        PROVE  [j \in 1 .. l - last |-> Append(t, last + j)] \in Seq(Places(l, n + 1))
    <2>1. /\ Len(t) = n
          /\ \A a \in 1 .. n : t[a] \in 1 .. l
          /\ \A a, b \in 1 .. n : a < b => t[a] < t[b]
      BY <1>7 DEF Places
    <2>2. \A a \in 1 .. n : t[a] \in Nat /\ t[a] <= last
      BY <1>1, <1>2, <2>1
    <2>3. ASSUME NEW j \in 1 .. l - last
          PROVE  Append(t, last + j) \in Places(l, n + 1)
      <3> DEFINE u == Append(t, last + j)
      <3>1. /\ u \in Seq(Nat) /\ Len(u) = n + 1
            /\ \A i \in 1 .. n : u[i] = t[i]
            /\ u[n + 1] = last + j
        BY <1>4, <2>1
      <3> HIDE DEF u
      <3>2. \A a \in 1 .. n + 1 : a = n + 1 \/ a \in 1 .. n
        OBVIOUS
      <3>3. \A a \in 1 .. n + 1 : u[a] \in 1 .. l
        BY <1>3, <2>1, <3>1, <3>2
      <3>4. \A a, b \in 1 .. n + 1 : a < b => u[a] < u[b]
        <4> SUFFICES ASSUME NEW a \in 1 .. n + 1, NEW b \in 1 .. n + 1, a < b
                     PROVE  u[a] < u[b]
          OBVIOUS
        <4>1. a \in 1 .. n /\ u[a] = t[a] /\ t[a] \in Nat /\ t[a] <= last
          BY <2>2, <3>1
        <4>2. CASE b = n + 1
          BY <1>2, <1>3, <3>1, <4>1, <4>2
        <4>3. CASE b \in 1 .. n
          BY <2>1, <3>1, <4>1, <4>3
        <4> QED
          BY <3>2, <4>2, <4>3
      <3> QED
        BY <3>1, <3>3, <3>4 DEF Places, u
    <2> QED
      BY <1>5, <2>3, FunctionIsSeq
  <1> QED
    BY <1>2, <1>6, <1>7 DEF last, Extensions

\* each of them once
LEMMA NextPlaces ==
  ASSUME NEW l \in Nat, NEW t \in Seq(Nat)
  PROVE  /\ IsInjective(Extensions(l, t))
         /\ \A u \in ToSet(Extensions(l, t)) :
              Len(u) = Len(t) + 1 /\ \A i \in 1 .. Len(t) : u[i] = t[i]
         /\ \A u \in Places(l, Len(t) + 1) :
              (\A i \in 1 .. Len(t) : u[i] = t[i]) => u \in ToSet(Extensions(l, t))
  <1> DEFINE last == LastOf(t)
             n    == Len(t)
             e    == Extensions(l, t)
  <1>1. n \in Nat /\ DOMAIN t = 1 .. n /\ \A i \in DOMAIN t : t[i] \in Nat
    BY InSeq
  <1>2. last \in Nat /\ (n # 0 => last = t[n]) /\ (n = 0 => last = 0)
    <2>1. CASE n = 0
      BY <2>1, EmptySeq DEF LastOf
    <2>2. CASE n # 0
      <3>1. t # << >> /\ t[n] \in Nat
        BY <1>1, <2>2
      <3> QED
        BY <2>2, <3>1 DEF LastOf, Last
    <2> QED
      BY <2>1, <2>2
  <1>3. e = [j \in 1 .. l - last |-> Append(t, last + j)]
    BY DEF Extensions
  <1> HIDE DEF last, e
  <1>4. ASSUME NEW j \in 1 .. l - last
        PROVE  /\ j \in Int /\ e[j] \in Seq(Nat) /\ Len(e[j]) = n + 1
               /\ \A i \in 1 .. n : e[j][i] = t[i]
               /\ e[j][n + 1] = last + j
    <2>1. last + j \in Nat
      BY <1>2
    <2> QED
      BY <1>3, <2>1, AppendProperties
  <1>5. IsInjective(e)
    <2> SUFFICES ASSUME NEW a \in 1 .. l - last, NEW b \in 1 .. l - last, e[a] = e[b]
                 PROVE  a = b
      BY <1>3 DEF IsInjective
    <2>1. last + a = last + b
      BY <1>4
    <2> QED
      BY <1>2, <2>1
  <1>6. ASSUME NEW u \in ToSet(e)
        PROVE  Len(u) = n + 1 /\ \A i \in 1 .. n : u[i] = t[i]
    <2>1. PICK j \in 1 .. l - last : u = e[j]
      BY <1>3 DEF ToSet
    <2> QED
      BY <1>4, <2>1
  <1>7. ASSUME NEW u \in Places(l, n + 1), \A i \in 1 .. n : u[i] = t[i]
        PROVE  u \in ToSet(e)
    <2>1. /\ u \in Seq(Nat) /\ Len(u) = n + 1
          /\ \A a \in 1 .. n + 1 : u[a] \in 1 .. l
          /\ \A a, b \in 1 .. n + 1 : a < b => u[a] < u[b]
      BY DEF Places
    <2> DEFINE j == u[n + 1] - last
    <2>2. n + 1 \in 1 .. n + 1 /\ n \in 0 .. n + 1
      BY <1>1
    <2>3. u[n + 1] \in 1 .. l
      BY <2>1, <2>2
    <2>4. n # 0 => u[n] < u[n + 1] /\ u[n] = last
      <3>1. n # 0 => n \in 1 .. n + 1 /\ n \in 1 .. n /\ n < n + 1
        BY <1>1
      <3> QED
        BY <1>2, <1>7, <2>1, <2>2, <3>1
    <2>5. j \in 1 .. l - last
      BY <1>2, <2>3, <2>4
    <2>6. last + j = u[n + 1]
      BY <1>2, <2>3
    <2>7. e[j] = u
      <3>1. /\ e[j] \in Seq(Nat) /\ Len(e[j]) = n + 1
            /\ \A i \in 1 .. n : e[j][i] = u[i]
            /\ e[j][n + 1] = u[n + 1]
        BY <1>4, <1>7, <2>5, <2>6
      <3> HIDE DEF j
      <3>2. \A i \in 1 .. n + 1 : e[j][i] = u[i]
        <4>1. \A i \in 1 .. n + 1 : i = n + 1 \/ i \in 1 .. n
          BY <1>1
        <4> QED
          BY <3>1, <4>1
      <3>3. Len(e[j]) = Len(u) /\ \A i \in 1 .. Len(u) : e[j][i] = u[i]
        BY <2>1, <3>1, <3>2
      <3> QED
        BY <2>1, <3>1, <3>3, SeqEqual
    <2> QED
      BY <1>3, <2>5, <2>7 DEF ToSet
  <1> QED
    BY <1>5, <1>6, <1>7 DEF e, n

\* the sets of n elements of s
SetsOf(s, n) ==
  {u \in Seq(Int) : Len(u) = n /\ \E P \in SUBSET DOMAIN s : Picks(u, s, P)}

LEMMA PlacesPick ==
  ASSUME NEW s \in Seq(Int), NEW n \in Nat, NEW t \in Places(Len(s), n)
  PROVE  [j \in 1 .. n |-> s[t[j]]] \in SetsOf(s, n)
  <1>1. Len(s) \in Nat /\ DOMAIN s = 1 .. Len(s) /\ \A i \in DOMAIN s : s[i] \in Int
    BY InSeq
  <1>2. /\ t \in Seq(Nat) /\ Len(t) = n
        /\ \A a \in 1 .. n : t[a] \in DOMAIN s
        /\ \A a, b \in 1 .. n : a < b => t[a] < t[b]
    BY <1>1 DEF Places
  <1> DEFINE u == [j \in 1 .. n |-> s[t[j]]]
             P == {t[j] : j \in 1 .. n}
             e == [j \in 1 .. n |-> t[j]]
  <1>3. u \in [1 .. n -> Int]
    BY <1>1, <1>2
  <1>4. u \in Seq(Int) /\ DOMAIN u = 1 .. n /\ Len(u) = n
    <2>1. DOMAIN u = 1 .. n
      OBVIOUS
    <2>2. u \in Seq(Int)
      BY <1>3, IsASeq
    <2> HIDE DEF u
    <2> QED
      BY <2>1, <2>2, LenProperties
  <1>5. \A a, b \in 1 .. n : e[a] = e[b] => a = b
    <2> SUFFICES ASSUME NEW a \in 1 .. n, NEW b \in 1 .. n, t[a] = t[b]
                 PROVE  a = b
      OBVIOUS
    <2>1. t[a] \in Nat /\ t[b] \in Nat
      BY <1>1, <1>2
    <2>2. (a < b => t[a] < t[b]) /\ (b < a => t[b] < t[a])
      BY <1>2
    <2> QED
      BY <2>1, <2>2
  <1>6. e \in Bijection(1 .. n, P)
    <2>1. e \in [1 .. n -> P]
      OBVIOUS
    <2>2. \A p \in P : \E a \in 1 .. n : e[a] = p
      OBVIOUS
    <2> HIDE DEF e, P
    <2> QED
      BY <1>5, <2>1, <2>2, BijectionIs
  <1>7. \A j \in 1 .. n : u[j] = s[e[j]]
    OBVIOUS
  <1>8. P \subseteq DOMAIN s
    BY <1>2
  <1> HIDE DEF u, P, e
  <1>9. Picks(u, s, P)
    BY <1>4, <1>6, <1>7, <1>8 DEF Picks
  <1> QED
    BY <1>4, <1>8, <1>9 DEF SetsOf, u

\* iterateGPUSets goes through the places of n elements, each once
AllPlaces(l, n) == {p \in Seq(Places(l, n)) : IsInjective(p) /\ ToSet(p) = Places(l, n)}

Following(l, p) == FlattenSeq([i \in DOMAIN p |-> Extensions(l, p[i])])

LEMMA FollowingIs ==
  ASSUME NEW l \in Nat, NEW p \in Seq(Seq(Nat))
  PROVE  /\ Following(l, p) \in Seq(Seq(Nat))
         /\ \A k \in Nat : p \in AllPlaces(l, k) => Following(l, p) \in AllPlaces(l, k + 1)
  <1> DEFINE e == [i \in DOMAIN p |-> Extensions(l, p[i])]
  <1>1. Len(p) \in Nat /\ Len(p) \in Int /\ DOMAIN p = 1 .. Len(p) /\ \A i \in DOMAIN p : p[i] \in Seq(Nat)
    BY InSeq
  <1>2. \A i \in DOMAIN p : Extensions(l, p[i]) \in Seq(Seq(Nat))
    BY <1>1, NextPlace
  <1>3. /\ e \in [1 .. Len(p) -> Seq(Seq(Nat))] /\ DOMAIN e = 1 .. Len(p)
        /\ \A i \in DOMAIN p : e[i] = Extensions(l, p[i])
    BY <1>1, <1>2
  <1>4. Following(l, p) = FlattenSeq(e)
    BY DEF Following
  <1> HIDE DEF e
  <1>5. e \in Seq(Seq(Seq(Nat)))
    BY <1>1, <1>3, FunctionIsSeq
  <1>6. FlattenSeq(e) \in Seq(Seq(Nat))
    BY <1>5, Flattened
  <1>7. ASSUME NEW k \in Nat, p \in AllPlaces(l, k)
        PROVE  FlattenSeq(e) \in AllPlaces(l, k + 1)
    <2>1. /\ \A i \in DOMAIN p : p[i] \in Places(l, k)
          /\ \A i, j \in DOMAIN p : p[i] = p[j] => i = j
          /\ \A t \in Places(l, k) : \E i \in DOMAIN p : p[i] = t
      BY <1>7, InSeq DEF AllPlaces, ToSet, IsInjective
    <2>2. \A i \in DOMAIN p : e[i] \in Seq(Places(l, k + 1))
      BY <1>1, <1>3, <2>1, NextPlace
    <2>3. e \in Seq(Seq(Places(l, k + 1)))
      <3>1. e \in [1 .. Len(p) -> Seq(Places(l, k + 1))]
        BY <1>1, <1>3, <2>2
      <3> QED
        BY <1>1, <3>1, FunctionIsSeq
    <2>4. /\ FlattenSeq(e) \in Seq(Places(l, k + 1))
          /\ ToSet(FlattenSeq(e)) = UNION {ToSet(e[i]) : i \in DOMAIN e}
      BY <2>3, Flattened
    <2>5. \A i \in DOMAIN p : Len(p[i]) = k
      BY <2>1 DEF Places
    <2>6. ASSUME NEW u \in Places(l, k + 1)
          PROVE  u \in ToSet(FlattenSeq(e))
      <3> DEFINE t == [a \in 1 .. k |-> u[a]]
      <3>1. /\ Len(u) = k + 1 /\ \A a \in 1 .. k + 1 : u[a] \in 1 .. l /\ u[a] \in Nat
            /\ \A a, b \in 1 .. k + 1 : a < b => u[a] < u[b]
        BY DEF Places
      <3>2. \A a \in 1 .. k : a \in 1 .. k + 1
        OBVIOUS
      <3>3. t \in [1 .. k -> Nat] /\ \A a \in 1 .. k : t[a] = u[a]
        BY <3>1, <3>2
      <3>4. t \in Seq(Nat) /\ Len(t) = k
        <4>1. t \in Seq(Nat) /\ DOMAIN t = 1 .. k
          BY <3>3, IsASeq
        <4> HIDE DEF t
        <4> QED
          BY <4>1, LenProperties
      <3> HIDE DEF t
      <3>5. t \in Places(l, k)
        BY <3>1, <3>2, <3>3, <3>4 DEF Places
      <3>6. PICK i \in DOMAIN p : p[i] = t
        BY <2>1, <3>5
      <3>7. u \in ToSet(Extensions(l, t))
        BY <3>3, <3>4, NextPlaces
      <3> QED
        BY <1>1, <1>3, <2>4, <3>6, <3>7
    <2> DEFINE F == [u \in Seq(Nat) |-> u]
    <2>7. \A x \in Seq(Nat) : F[x] = x
      OBVIOUS
    <2> HIDE DEF F
    <2>8. \A q \in Seq(Seq(Nat)) : Tells(F, q) <=> IsInjective(q)
      <3> SUFFICES ASSUME NEW q \in Seq(Seq(Nat))
                   PROVE  Tells(F, q) <=> IsInjective(q)
        OBVIOUS
      <3>1. \A a \in DOMAIN q : F[q[a]] = q[a]
        BY <2>7, InSeq
      <3> QED
        BY <3>1 DEF Tells, IsInjective
    <2>9. \A i \in DOMAIN e : Tells(F, e[i])
      BY <1>1, <1>2, <1>3, <2>8, NextPlaces
    <2>10. ASSUME NEW i \in DOMAIN e, NEW j \in DOMAIN e,
                  NEW x \in ToSet(e[i]), NEW y \in ToSet(e[j]), F[x] = F[y]
           PROVE  i = j
      <3>1. x = y
        <4>1. x \in Seq(Nat) /\ y \in Seq(Nat)
          BY <1>3, InSeq
        <4> QED
          BY <2>7, <2>10, <4>1
      <3>2. /\ p[i] \in Seq(Nat) /\ p[j] \in Seq(Nat) /\ Len(p[i]) = k /\ Len(p[j]) = k
            /\ i \in DOMAIN p /\ j \in DOMAIN p
        BY <1>1, <1>3, <2>5
      <3>3. \A a \in 1 .. k : x[a] = p[i][a] /\ x[a] = p[j][a]
        <4>1. x \in ToSet(Extensions(l, p[i])) /\ x \in ToSet(Extensions(l, p[j]))
          BY <1>3, <3>1, <3>2
        <4>2. \A a \in 1 .. Len(p[i]) : x[a] = p[i][a]
          BY <3>2, <4>1, NextPlaces, Zenon
        <4>3. \A a \in 1 .. Len(p[j]) : x[a] = p[j][a]
          BY <3>2, <4>1, NextPlaces, Zenon
        <4> QED
          BY <3>2, <4>2, <4>3
      <3>4. p[i] = p[j]
        BY <3>2, <3>3, SeqEqual
      <3> QED
        BY <2>1, <3>2, <3>4
    <2>11. Tells(F, FlattenSeq(e))
      BY <1>5, <2>9, <2>10, FlattenedTells
    <2>12. IsInjective(FlattenSeq(e))
      BY <1>6, <2>8, <2>11
    <2>13. ToSet(FlattenSeq(e)) \subseteq Places(l, k + 1)
      BY <2>4, InSeq
    <2> QED
      BY <2>4, <2>6, <2>12, <2>13 DEF AllPlaces
  <1> QED
    BY <1>4, <1>6, <1>7

LEMMA NoPlaces ==
  ASSUME NEW l \in Nat
  PROVE  << << >> >> \in AllPlaces(l, 0)
  <1>1. << >> \in Seq(Nat) /\ Len(<< >>) = 0
    OBVIOUS
  <1>2. << >> \in Places(l, 0)
    BY <1>1 DEF Places
  <1>3. \A t \in Places(l, 0) : t = << >>
    BY EmptySeq DEF Places
  <1>4. Places(l, 0) = {<< >>}
    BY <1>2, <1>3
  <1> DEFINE p == << << >> >>
  <1>5. p \in Seq({<< >>}) /\ DOMAIN p = {1} /\ p[1] = << >>
    OBVIOUS
  <1> HIDE DEF p
  <1>6. IsInjective(p) /\ ToSet(p) = {<< >>}
    BY <1>5 DEF IsInjective, ToSet
  <1> QED
    BY <1>4, <1>5, <1>6 DEF AllPlaces, p

LEMMA GPUSetsPlaces ==
  ASSUME NEW s \in Seq(Int), NEW n \in Nat
  PROVE  \E places \in AllPlaces(Len(s), n) :
           GPUSets(s, n) = [i \in DOMAIN places |-> [j \in 1 .. n |-> s[places[i][j]]]]
  <1>1. Len(s) \in Nat
    BY InSeq
  <1> DEFINE X         == 0 .. n
             Y         == Seq(Seq(Nat))
             m         == [i \in X |-> i]
             l         == Len(s)
             B         == [q \in X \X [X -> Y] |->
                             IF q[1] = 0 THEN << << >> >> ELSE Following(l, q[2][q[1] - 1])]
             IsIt(F)   == F = [level \in X |->
                                 IF level = 0 THEN << << >> >> ELSE Following(l, F[level - 1])]
             indices   == CHOOSE F : IsIt(F)
             Good      == {k \in Nat : k \in X => indices[k] \in AllPlaces(l, k)}
  <1>2. \A i \in X : i # 0 => i - 1 \in X /\ i - 1 \in Nat /\ i - 1 < i /\ i - 1 + 1 = i
    OBVIOUS
  <1>3. << << >> >> \in Y
    OBVIOUS
  <1>5. Recursive(X, Y, m, B)
    <2>1. Y # {} /\ m \in [X -> Nat]
      <3>1. Y # {}
        BY <1>3, Zenon
      <3>2. m \in [X -> Nat]
        OBVIOUS
      <3> QED
        BY <3>1, <3>2
    <2>2. B \in [X \X [X -> Y] -> Y]
      <3> SUFFICES ASSUME NEW i \in X, NEW g \in [X -> Y]
                   PROVE  (IF i = 0 THEN << << >> >> ELSE Following(l, g[i - 1])) \in Y
        BY Zenon
      <3>1. CASE i = 0
        BY <1>3, <3>1
      <3>2. CASE i # 0
        <4>1. g[i - 1] \in Seq(Seq(Nat))
          BY <1>2, <3>2
        <4> QED
          BY <1>1, <3>2, <4>1, FollowingIs
      <3> QED
        BY <3>1, <3>2
    <2>3. ASSUME NEW i \in X, NEW g \in [X -> Y], NEW h \in [X -> Y],
                 \A k \in X : m[k] < m[i] => g[k] = h[k]
          PROVE  B[<<i, g>>] = B[<<i, h>>]
      <3>1. i # 0 => g[i - 1] = h[i - 1]
        BY <1>2, <2>3
      <3> QED
        BY <3>1
    <2> HIDE DEF X, Y, m, B
    <2> QED
      BY <2>1, <2>2, <2>3 DEF Recursive
  <1>6. PICK f \in [X -> Y] : \A i \in X : f[i] = B[<<i, f>>]
    <2> HIDE DEF X, Y, m, B
    <2> QED
      BY <1>5, Recursion
  <1>7. IsIt(f)
    BY <1>6
  <1>8. IsIt(indices)
    <2> HIDE DEF IsIt
    <2> QED
      BY <1>7
  <1> HIDE DEF indices
  <1>9. \A i \in X : indices[i] = IF i = 0 THEN << << >> >> ELSE Following(l, indices[i - 1])
    BY <1>8
  <1>10. ASSUME NEW k \in Nat, \A j \in Nat : j < k => j \in Good
         PROVE  k \in Good
    <2> SUFFICES ASSUME k \in X
                 PROVE  indices[k] \in AllPlaces(l, k)
      OBVIOUS
    <2>1. CASE k = 0
      <3>1. indices[k] = << << >> >>
        BY <1>9, <2>1
      <3> QED
        BY <1>1, <2>1, <3>1, NoPlaces
    <2>2. CASE k # 0
      <3>1. indices[k - 1] \in AllPlaces(l, k - 1)
        BY <1>2, <1>10, <2>2
      <3>2. AllPlaces(l, k - 1) \subseteq Seq(Seq(Nat))
        <4>1. Places(l, k - 1) \subseteq Seq(Nat)
          BY DEF Places
        <4> QED
          BY <4>1 DEF AllPlaces
      <3>3. indices[k] = Following(l, indices[k - 1]) /\ k - 1 \in Nat /\ k - 1 + 1 = k
        BY <1>2, <1>9, <2>2
      <3> QED
        BY <1>1, <3>1, <3>2, <3>3, FollowingIs
    <2> QED
      BY <2>1, <2>2
  <1>11. Good = Nat
    <2> HIDE DEF Good
    <2>1. Good \in SUBSET Nat
      BY DEF Good
    <2> QED
      BY <1>10, <2>1, Induction
  <1>12. indices[n] \in AllPlaces(l, n)
    <2>1. n \in X
      OBVIOUS
    <2>2. n \in Good
      BY <1>11, Zenon
    <2> QED
      BY <2>1, <2>2
  <1>13. GPUSets(s, n) = [i \in DOMAIN indices[n] |-> [j \in 1 .. n |-> s[indices[n][i][j]]]]
    BY DEF GPUSets, indices, Following, Extensions, LastOf
  <1> QED
    BY <1>12, <1>13

LEMMA GPUSetsPick ==
  ASSUME NEW s \in Seq(Int), NEW n \in Nat
  PROVE  GPUSets(s, n) \in Seq(SetsOf(s, n))
  <1>1. PICK places \in AllPlaces(Len(s), n) :
          GPUSets(s, n) = [i \in DOMAIN places |-> [j \in 1 .. n |-> s[places[i][j]]]]
    BY GPUSetsPlaces
  <1>2. /\ Len(places) \in Nat /\ DOMAIN places = 1 .. Len(places)
        /\ \A i \in DOMAIN places : places[i] \in Places(Len(s), n)
    BY InSeq DEF AllPlaces
  <1>3. \A i \in DOMAIN places : [j \in 1 .. n |-> s[places[i][j]]] \in SetsOf(s, n)
    BY <1>2, PlacesPick
  <1> QED
    BY <1>1, <1>2, <1>3, IsASeq

\* the first element and n others are n + 1 elements
LEMMA ConsPicks ==
  ASSUME NEW s \in Seq(Int), s # << >>, NEW n \in Nat, NEW r \in SetsOf(Tail(s), n)
  PROVE  /\ <<Head(s)>> \o r \in SetsOf(s, n + 1)
         /\ Head(s) \in ToSet(<<Head(s)>> \o r)
         /\ 1 \in DOMAIN s /\ s[1] = Head(s)
  <1> DEFINE u == <<Head(s)>> \o r
  <1>1. /\ Len(s) \in Nat /\ DOMAIN s = 1 .. Len(s) /\ Len(s) # 0
        /\ Head(s) \in Int /\ Head(s) = s[1]
        /\ DOMAIN Tail(s) = 1 .. Len(s) - 1
        /\ \A i \in 1 .. Len(s) - 1 : Tail(s)[i] = s[i + 1]
    <2>1. Len(s) \in Nat /\ DOMAIN s = 1 .. Len(s) /\ Len(s) # 0
      BY InSeq, EmptySeq
    <2>2. /\ Head(s) \in Int /\ Tail(s) \in Seq(Int) /\ Len(Tail(s)) = Len(s) - 1
          /\ \A i \in 1 .. Len(Tail(s)) : Tail(s)[i] = s[i + 1]
      BY HeadTailProperties
    <2>3. DOMAIN Tail(s) = 1 .. Len(Tail(s))
      BY <2>2, LenProperties
    <2>4. Head(s) = s[1]
      BY <2>1
    <2> QED
      BY <2>1, <2>2, <2>3, <2>4
  <1>2. r \in Seq(Int) /\ Len(r) = n /\ DOMAIN r = 1 .. n
    BY InSeq DEF SetsOf
  <1>3. PICK P \in SUBSET (1 .. Len(s) - 1) : Picks(r, Tail(s), P)
    BY <1>1 DEF SetsOf
  <1>4. PICK e \in Bijection(1 .. n, P) : \A j \in 1 .. n : r[j] = Tail(s)[e[j]]
    BY <1>2, <1>3 DEF Picks
  <1>5. /\ e \in [1 .. n -> P]
        /\ \A a, b \in 1 .. n : e[a] = e[b] => a = b
        /\ \A p \in P : \E a \in 1 .. n : e[a] = p
    BY <1>4, BijectionIs
  <1>6. /\ u \in Seq(Int) /\ Len(u) = n + 1 /\ DOMAIN u = 1 .. n + 1
        /\ u[1] = Head(s) /\ \A j \in 2 .. n + 1 : u[j] = r[j - 1]
    <2>1. /\ <<Head(s)>> \in Seq(Int) /\ Len(<<Head(s)>>) = 1 /\ <<Head(s)>>[1] = Head(s)
      BY <1>1
    <2>2. /\ u \in Seq(Int) /\ Len(u) = 1 + n
          /\ \A i \in 1 .. 1 + n : u[i] = IF i <= 1 THEN <<Head(s)>>[i] ELSE r[i - 1]
      BY <1>2, <2>1, ConcatProperties
    <2> HIDE DEF u
    <2>3. DOMAIN u = 1 .. n + 1
      BY <2>2, LenProperties
    <2>4. 1 \in 1 .. 1 + n /\ \A j \in 2 .. n + 1 : j \in 1 .. 1 + n /\ ~(j <= 1)
      OBVIOUS
    <2> QED
      BY <2>1, <2>2, <2>3, <2>4
  <1> HIDE DEF u
  <1> DEFINE Q == {1} \union {p + 1 : p \in P}
             f == [j \in 1 .. n + 1 |-> IF j = 1 THEN 1 ELSE e[j - 1] + 1]
  <1>7. /\ 1 \in 1 .. n + 1
        /\ \A j \in 1 .. n + 1 : j # 1 => j \in 2 .. n + 1 /\ j - 1 \in 1 .. n
        /\ \A j \in 1 .. n : j + 1 \in 1 .. n + 1 /\ j + 1 # 1 /\ j + 1 - 1 = j
        /\ \A p \in P : p \in Nat /\ p # 0 /\ p + 1 \in DOMAIN s
    BY <1>1
  <1>8. f \in [1 .. n + 1 -> Q]
    BY <1>5, <1>7
  <1>9. \A a, b \in 1 .. n + 1 : f[a] = f[b] => a = b
    <2> SUFFICES ASSUME NEW a \in 1 .. n + 1, NEW b \in 1 .. n + 1, f[a] = f[b]
                 PROVE  a = b
      OBVIOUS
    <2>1. a # 1 => f[a] = e[a - 1] + 1 /\ e[a - 1] \in Nat /\ e[a - 1] # 0
      BY <1>5, <1>7
    <2>2. b # 1 => f[b] = e[b - 1] + 1 /\ e[b - 1] \in Nat /\ e[b - 1] # 0
      BY <1>5, <1>7
    <2>3. (a = 1 => f[a] = 1) /\ (b = 1 => f[b] = 1)
      OBVIOUS
    <2> HIDE DEF f
    <2>4. a = 1 <=> b = 1
      BY <2>1, <2>2, <2>3
    <2>5. a # 1 => e[a - 1] = e[b - 1] /\ a - 1 \in 1 .. n /\ b - 1 \in 1 .. n
      BY <1>7, <2>1, <2>2, <2>4
    <2>6. a # 1 => a - 1 = b - 1
      BY <1>5, <2>5
    <2> QED
      BY <2>4, <2>6
  <1>10. \A q \in Q : \E a \in 1 .. n + 1 : f[a] = q
    <2>1. 1 \in 1 .. n + 1 /\ f[1] = 1
      BY <1>7
    <2>2. ASSUME NEW p \in P
          PROVE  \E a \in 1 .. n + 1 : f[a] = p + 1
      <3>1. PICK a \in 1 .. n : e[a] = p
        BY <1>5
      <3>2. a + 1 \in 1 .. n + 1 /\ f[a + 1] = p + 1
        BY <1>7, <3>1
      <3> QED
        BY <3>2
    <2> HIDE DEF f
    <2> QED
      BY <2>1, <2>2
  <1>11. f \in Bijection(1 .. n + 1, Q)
    <2> HIDE DEF f, Q
    <2> QED
      BY <1>8, <1>9, <1>10, BijectionIs
  <1>12. \A j \in 1 .. n + 1 : u[j] = s[f[j]]
    <2> SUFFICES ASSUME NEW j \in 1 .. n + 1
                 PROVE  u[j] = s[f[j]]
      OBVIOUS
    <2>1. CASE j = 1
      BY <1>1, <1>6, <2>1
    <2>2. CASE j # 1
      <3>1. u[j] = r[j - 1] /\ j - 1 \in 1 .. n
        BY <1>6, <1>7, <2>2
      <3>2. r[j - 1] = Tail(s)[e[j - 1]] /\ e[j - 1] \in P
        BY <1>4, <1>5, <3>1
      <3>3. Tail(s)[e[j - 1]] = s[e[j - 1] + 1]
        BY <1>1, <3>2
      <3>4. f[j] = e[j - 1] + 1
        BY <2>2
      <3> QED
        BY <3>1, <3>2, <3>3, <3>4
    <2> QED
      BY <2>1, <2>2
  <1>13. Q \in SUBSET DOMAIN s
    <2>1. 1 \in DOMAIN s
      BY <1>1
    <2> QED
      BY <1>7, <2>1
  <1>14. Picks(u, s, Q)
    <2> HIDE DEF f, Q
    <2> QED
      BY <1>6, <1>11, <1>12, <1>13 DEF Picks
  <1>15. u \in SetsOf(s, n + 1)
    <2> HIDE DEF Q
    <2> QED
      BY <1>6, <1>13, <1>14 DEF SetsOf
  <1>16. Head(s) \in ToSet(u)
    BY <1>6, <1>7 DEF ToSet
  <1> QED
    BY <1>1, <1>15, <1>16 DEF u

\* a sequence of devices and padding that can be cut into sets of size elements
Divisible(size, padding) ==
  {s \in Seq(Int) : /\ Distinct(s) /\ Whole(s, padding)
                    /\ \E k \in Nat : Len(s) = (k + 1) * size}

LEMMA SeqPlaces ==
  ASSUME NEW S, NEW s \in Seq(S)
  PROVE  IsFiniteSet(DOMAIN s) /\ Cardinality(DOMAIN s) = Len(s)
  <1>1. 1 \in Int /\ Len(s) \in Nat /\ Len(s) \in Int /\ DOMAIN s = 1 .. Len(s)
    BY InSeq
  <1>2. IsFiniteSet(1 .. Len(s))
          /\ Cardinality(1 .. Len(s)) = IF 1 > Len(s) THEN 0 ELSE Len(s) - 1 + 1
    BY <1>1, FS_Interval
  <1> QED
    BY <1>1, <1>2

\* a set with an element of s leaves less of s
LEMMA RemainingIsShorter ==
  ASSUME NEW s \in Seq(Int), NEW t, NEW k \in DOMAIN s, s[k] \in ToSet(t)
  PROVE  Len(Remaining(s, t)) < Len(s)
  <1> DEFINE R == {i \in DOMAIN s : s[i] \notin ToSet(t)}
  <1>1. Remaining(s, t) \in Seq(Int) /\ Picks(Remaining(s, t), s, R)
    BY RemainingPicks
  <1>2. IsFiniteSet(DOMAIN s) /\ Cardinality(DOMAIN s) = Len(s)
    BY SeqPlaces
  <1>3. R \in SUBSET DOMAIN s /\ R # DOMAIN s
    OBVIOUS
  <1> HIDE DEF R
  <1>4. Cardinality(R) = Len(Remaining(s, t))
    BY <1>1, Picked
  <1>5. Cardinality(R) <= Len(s) /\ Cardinality(R) # Len(s)
    BY <1>2, <1>3, FS_Subset
  <1>6. Cardinality(R) \in Nat /\ Len(s) \in Nat
    BY <1>2, <1>3, FS_Subset, FS_CardinalityType
  <1> QED
    BY <1>4, <1>5, <1>6

\* "Padding should ensure that his never happens": what a set of size elements
\* with all of the padding or none of it leaves can be cut into such sets again
LEMMA SetsLeaveSets ==
  ASSUME NEW size \in Nat, size # 0, NEW padding \in Nat,
         NEW s \in Divisible(size, padding), Len(s) > size,
         NEW t \in SetsOf(s, size), Whole(t, padding)
  PROVE  /\ Distinct(t) /\ ToSet(t) \subseteq ToSet(s)
         /\ Remaining(s, t) \in Divisible(size, padding)
         /\ ToSet(Remaining(s, t)) = ToSet(s) \ ToSet(t)
  <1> DEFINE r == Remaining(s, t)
             R == {k \in DOMAIN s : s[k] \notin ToSet(t)}
             D == DOMAIN s
             Pad(A) == PaddingAt(s, A)
  <1>1. /\ s \in Seq(Int) /\ Distinct(s) /\ Whole(s, padding)
        /\ \E k \in Nat : Len(s) = (k + 1) * size
    BY DEF Divisible
  <1>2. PICK P \in SUBSET D : t \in Seq(Int) /\ Len(t) = size /\ Picks(t, s, P)
    BY DEF SetsOf
  <1>3. /\ IsFiniteSet(P) /\ Cardinality(P) = size
        /\ ToSet(t) = {s[k] : k \in P} /\ Distinct(t)
        /\ IsFiniteSet(Pad(P)) /\ CountPadding(t) = Cardinality(Pad(P))
    BY <1>1, <1>2, Picked
  <1>4. r \in Seq(Int) /\ Picks(r, s, R)
    BY <1>1, RemainingPicks
  <1>5. /\ IsFiniteSet(R) /\ Cardinality(R) = Len(r)
        /\ ToSet(r) = {s[k] : k \in R} /\ Distinct(r)
        /\ IsFiniteSet(Pad(R)) /\ CountPadding(r) = Cardinality(Pad(R))
    <2> HIDE DEF r, R
    <2> QED
      BY <1>1, <1>4, Picked
  <1>6. IsFiniteSet(D) /\ Cardinality(D) = Len(s) /\ Len(s) \in Nat
    BY <1>1, SeqPlaces, InSeq
  <1>7. Pad(P) \in SUBSET Pad(D) /\ Pad(R) \in SUBSET Pad(D) /\ IsFiniteSet(Pad(D))
    BY <1>2, <1>6, FS_Subset DEF PaddingAt
  <1>8. Cardinality(Pad(P)) \in {0, padding} /\ Cardinality(Pad(D)) \in {0, padding}
    BY <1>1, <1>3 DEF Whole, CountPadding, PaddingAt
  \* the padding is in t as a whole or not at all
  <1>9. Pad(P) = {} \/ Pad(P) = Pad(D)
    <2> SUFFICES ASSUME Pad(P) # {}
                 PROVE  Pad(P) = Pad(D)
      OBVIOUS
    <2> HIDE DEF Pad
    <2>1. Cardinality(Pad(P)) # 0 /\ Cardinality(Pad(D)) # 0
      BY <1>3, <1>7, FS_EmptySet
    <2>2. Cardinality(Pad(D)) = Cardinality(Pad(P))
      BY <1>8, <2>1
    <2> QED
      BY <1>7, <2>2, FS_Subset
  <1>10. R = D \ P
    <2>1. ASSUME NEW k \in D
          PROVE  k \in R <=> k \notin P
      <3>1. k \in P => s[k] \in ToSet(t)
        BY <1>3
      <3>2. ASSUME k \notin P, s[k] \in ToSet(t)
            PROVE  FALSE
        <4>1. PICK p \in P : s[p] = s[k]
          BY <1>3, <3>2
        <4>2. s[k] = NoGPU
          BY <1>1, <1>2, <3>2, <4>1 DEF Distinct
        <4>3. p \in Pad(P) /\ k \in Pad(D)
          BY <4>1, <4>2 DEF PaddingAt
        <4>4. k \in Pad(P)
          BY <1>9, <4>3
        <4> QED
          BY <3>2, <4>4 DEF PaddingAt
      <3> QED
        BY <3>1, <3>2
    <2> QED
      BY <1>2, <2>1
  <1>11. ToSet(s) = {s[k] : k \in D}
    BY DEF ToSet
  <1>12. ToSet(t) \subseteq ToSet(s)
    BY <1>2, <1>3, <1>11
  <1>13. ToSet(r) = ToSet(s) \ ToSet(t)
    <2> HIDE DEF r
    <2> QED
      BY <1>5, <1>11
  <1>14. Whole(r, padding)
    <2>1. CASE Pad(P) = {}
      <3>1. Pad(R) = Pad(D)
        BY <1>10, <2>1 DEF PaddingAt
      <3> QED
        BY <1>5, <1>8, <3>1 DEF Whole
    <2>2. CASE Pad(P) = Pad(D)
      <3>1. Pad(R) = {}
        BY <1>2, <1>10, <2>2 DEF PaddingAt
      <3>2. Cardinality(Pad(R)) = 0
        BY <3>1, FS_EmptySet
      <3> QED
        BY <1>5, <3>2 DEF Whole
    <2> QED
      BY <1>9, <2>1, <2>2
  <1>15. Len(r) = Len(s) - size
    <2>1. Cardinality(D \ P) = Cardinality(D) - Cardinality(D \intersect P)
      BY <1>6, FS_Difference
    <2>2. D \intersect P = P
      BY <1>2
    <2> HIDE DEF r, R, D
    <2> QED
      BY <1>3, <1>5, <1>6, <1>10, <2>1, <2>2
  <1>16. \E k \in Nat : Len(r) = (k + 1) * size
    <2>1. PICK k \in Nat : Len(s) = (k + 1) * size
      BY <1>1
    <2>2. k # 0
      <3>1. k = 0 => Len(s) = size
        BY <2>1
      <3> QED
        BY <3>1
    <2>3. k - 1 \in Nat /\ (k + 1) * size - size = (k - 1 + 1) * size
      BY <2>2
    <2> QED
      BY <1>15, <2>1, <2>3
  <1> HIDE DEF r
  <1>17. r \in Divisible(size, padding)
    BY <1>4, <1>5, <1>14, <1>16 DEF Divisible
  <1> QED
    BY <1>3, <1>12, <1>13, <1>17 DEF r

\* the partitions of s into sets of size elements, each with all of the padding
\* or none of it
PartitionsOf(s, size, padding) ==
  {p \in Seq(Seq(Int)) :
     /\ p # << >>
     /\ \A i \in DOMAIN p : Len(p[i]) = size /\ Distinct(p[i]) /\ Whole(p[i], padding)
     /\ \A i, j \in DOMAIN p : i # j => ToSet(p[i]) \intersect ToSet(p[j]) = {}
     /\ UNION {ToSet(p[i]) : i \in DOMAIN p} = ToSet(s)}

\* a set and a partition of what it leaves are a partition
LEMMA ConsPartition ==
  ASSUME NEW size, NEW padding, NEW s, NEW r,
         NEW p \in PartitionsOf(r, size, padding),
         NEW t \in Seq(Int), Len(t) = size, Distinct(t), Whole(t, padding),
         ToSet(t) \subseteq ToSet(s), ToSet(r) = ToSet(s) \ ToSet(t)
  PROVE  <<t>> \o p \in PartitionsOf(s, size, padding)
  <1> DEFINE q == <<t>> \o p
             n == Len(p)
  <1>1. /\ p \in Seq(Seq(Int)) /\ n \in Nat /\ DOMAIN p = 1 .. n
        /\ \A i \in DOMAIN p : Len(p[i]) = size /\ Distinct(p[i]) /\ Whole(p[i], padding)
        /\ \A i, j \in DOMAIN p : i # j => ToSet(p[i]) \intersect ToSet(p[j]) = {}
        /\ UNION {ToSet(p[i]) : i \in DOMAIN p} = ToSet(r)
    BY InSeq DEF PartitionsOf
  <1>2. /\ q \in Seq(Seq(Int)) /\ DOMAIN q = 1 .. n + 1
        /\ q[1] = t /\ \A j \in 1 .. n : q[j + 1] = p[j]
        /\ \A j \in DOMAIN q : j = 1 \/ \E i \in DOMAIN p : j = i + 1
        /\ 1 \in DOMAIN q
    <2>1. /\ q \in Seq(Seq(Int)) /\ DOMAIN q = 1 .. n + 1
          /\ q[1] = t /\ \A j \in 1 .. n : q[j + 1] = p[j]
      BY <1>1, Consed
    <2>2. 1 \in 1 .. n + 1
      BY <1>1
    <2> HIDE DEF q
    <2>3. \A j \in 1 .. n + 1 : j = 1 \/ (j - 1 \in 1 .. n /\ j = j - 1 + 1)
      BY <1>1
    <2> QED
      BY <1>1, <2>1, <2>2, <2>3
  <1> HIDE DEF q, n
  <1>3. q # << >>
    <2>1. DOMAIN << >> = {}
      OBVIOUS
    <2> QED
      BY <1>2, <2>1
  <1>4. \A j \in DOMAIN q : Len(q[j]) = size /\ Distinct(q[j]) /\ Whole(q[j], padding)
    <2> SUFFICES ASSUME NEW j \in DOMAIN q
                 PROVE  Len(q[j]) = size /\ Distinct(q[j]) /\ Whole(q[j], padding)
      OBVIOUS
    <2>1. CASE j = 1
      BY <1>2, <2>1
    <2>2. CASE j # 1
      <3>1. PICK i \in DOMAIN p : j = i + 1
        BY <1>2, <2>2
      <3>2. q[j] = p[i]
        BY <1>1, <1>2, <3>1
      <3> QED
        BY <1>1, <3>2
    <2> QED
      BY <2>1, <2>2
  <1>5. \A i \in DOMAIN p : ToSet(p[i]) \subseteq ToSet(r)
    BY <1>1
  <1>6. \A i \in DOMAIN p : ToSet(t) \intersect ToSet(p[i]) = {}
    BY <1>5
  <1>7. ASSUME NEW i \in DOMAIN q, NEW j \in DOMAIN q, i # j
        PROVE  ToSet(q[i]) \intersect ToSet(q[j]) = {}
    <2>1. CASE i = 1
      <3>1. PICK b \in DOMAIN p : j = b + 1
        BY <1>2, <1>7, <2>1
      <3> QED
        BY <1>1, <1>2, <1>6, <2>1, <3>1
    <2>2. CASE j = 1
      <3>1. PICK b \in DOMAIN p : i = b + 1
        BY <1>2, <1>7, <2>2
      <3> QED
        BY <1>1, <1>2, <1>6, <2>2, <3>1
    <2>3. CASE i # 1 /\ j # 1
      <3>1. PICK a \in DOMAIN p, b \in DOMAIN p : i = a + 1 /\ j = b + 1
        BY <1>2, <2>3
      <3>2. a # b
        BY <1>7, <3>1
      <3> QED
        BY <1>1, <1>2, <3>1, <3>2
    <2> QED
      BY <2>1, <2>2, <2>3
  <1>8. UNION {ToSet(q[i]) : i \in DOMAIN q} = ToSet(s)
    <2>1. ASSUME NEW d \in ToSet(s)
          PROVE  \E j \in DOMAIN q : d \in ToSet(q[j])
      <3>1. CASE d \in ToSet(t)
        BY <1>2, <3>1
      <3>2. CASE d \notin ToSet(t)
        <4>1. PICK i \in DOMAIN p : d \in ToSet(p[i])
          BY <1>1, <3>2
        <4>2. i + 1 \in DOMAIN q /\ q[i + 1] = p[i]
          BY <1>1, <1>2, <4>1
        <4> QED
          BY <4>1, <4>2
      <3> QED
        BY <3>1, <3>2
    <2>2. ASSUME NEW j \in DOMAIN q
          PROVE  ToSet(q[j]) \subseteq ToSet(s)
      <3>1. CASE j = 1
        BY <1>2, <3>1
      <3>2. CASE j # 1
        <4>1. PICK i \in DOMAIN p : j = i + 1
          BY <1>2, <3>2
        <4> QED
          BY <1>1, <1>2, <1>5, <4>1
      <3> QED
        BY <3>1, <3>2
    <2> QED
      BY <2>1, <2>2
  <1>9. q \in PartitionsOf(s, size, padding)
    BY <1>2, <1>3, <1>4, <1>7, <1>8 DEF PartitionsOf
  <1> QED
    BY <1>9 DEF q

LEMMA OneSet ==
  ASSUME NEW size, NEW padding,
         NEW s \in Seq(Int), Len(s) = size, Distinct(s), Whole(s, padding)
  PROVE  <<s>> \in PartitionsOf(s, size, padding)
  <1>1. <<s>> \in Seq(Seq(Int)) /\ <<s>> # << >> /\ DOMAIN <<s>> = {1} /\ <<s>>[1] = s
    OBVIOUS
  <1> DEFINE p == <<s>>
  <1> HIDE DEF p
  <1>2. p \in Seq(Seq(Int)) /\ p # << >> /\ DOMAIN p = {1} /\ p[1] = s
    BY <1>1 DEF p
  <1>3. p \in PartitionsOf(s, size, padding)
    BY <1>2 DEF PartitionsOf
  <1> QED
    BY <1>3 DEF p

\* the body of iterate in Iterations, with g for iterate
SetAt(s, size, i) == <<Head(s)>> \o GPUSets(Tail(s), size - 1)[i]

Withs(g, s, t) == LET ps == g[Remaining(s, t)] IN [i \in DOMAIN ps |-> <<t>> \o ps[i]]

Branch(g, s, size, padding, i) ==
  IF Whole(SetAt(s, size, i), padding) THEN Withs(g, s, SetAt(s, size, i)) ELSE << >>

Branches(g, s, size, padding) ==
  [i \in DOMAIN GPUSets(Tail(s), size - 1) |-> Branch(g, s, size, padding, i)]

Iterate(g, s, size, padding) ==
  IF Len(s) <= size THEN << <<s>> >> ELSE FlattenSeq(Branches(g, s, size, padding))

LEMMA LongEnough ==
  ASSUME NEW size \in Nat, size # 0, NEW s \in Seq(Int), Len(s) > size
  PROVE  /\ GPUSets(Tail(s), size - 1) \in Seq(SetsOf(Tail(s), size - 1))
         /\ \A i \in DOMAIN GPUSets(Tail(s), size - 1) :
              /\ SetAt(s, size, i) \in SetsOf(s, size)
              /\ Remaining(s, SetAt(s, size, i)) \in Seq(Int)
              /\ Len(Remaining(s, SetAt(s, size, i))) < Len(s)
  <1>1. s # << >> /\ size - 1 \in Nat /\ size - 1 + 1 = size
    BY EmptySeq
  <1>2. Tail(s) \in Seq(Int)
    BY <1>1, HeadTailProperties
  <1>3. GPUSets(Tail(s), size - 1) \in Seq(SetsOf(Tail(s), size - 1))
    BY <1>1, <1>2, GPUSetsPick
  <1>4. ASSUME NEW i \in DOMAIN GPUSets(Tail(s), size - 1)
        PROVE  /\ SetAt(s, size, i) \in SetsOf(s, size)
               /\ Remaining(s, SetAt(s, size, i)) \in Seq(Int)
               /\ Len(Remaining(s, SetAt(s, size, i))) < Len(s)
    <2> DEFINE r == GPUSets(Tail(s), size - 1)[i]
               t == SetAt(s, size, i)
    <2>1. r \in SetsOf(Tail(s), size - 1)
      BY <1>3, InSeq
    <2>2. t = <<Head(s)>> \o r
      BY DEF SetAt
    <2> HIDE DEF r, t
    <2>3. /\ t \in SetsOf(s, size)
          /\ Head(s) \in ToSet(t) /\ 1 \in DOMAIN s /\ s[1] = Head(s)
      BY <1>1, <2>1, <2>2, ConsPicks
    <2>4. Remaining(s, t) \in Seq(Int) /\ Len(Remaining(s, t)) < Len(s)
      BY <2>3, RemainingPicks, RemainingIsShorter
    <2> QED
      BY <2>3, <2>4 DEF t
  <1> QED
    BY <1>3, <1>4

\* a call calls back with partitions when the calls for what remains do
LEMMA IterateOnce ==
  ASSUME NEW size \in Nat, size # 0, NEW padding \in Nat, NEW s \in Seq(Int),
         NEW g \in [Seq(Int) -> Seq(Seq(Seq(Int)))]
  PROVE  /\ Iterate(g, s, size, padding) \in Seq(Seq(Seq(Int)))
         /\ s \in Divisible(size, padding)
            /\ (\A r \in Divisible(size, padding) :
                  Len(r) < Len(s) => g[r] \in Seq(PartitionsOf(r, size, padding)))
            => Iterate(g, s, size, padding) \in Seq(PartitionsOf(s, size, padding))
  <1> DEFINE Good == /\ s \in Divisible(size, padding)
                     /\ \A r \in Divisible(size, padding) :
                          Len(r) < Len(s) => g[r] \in Seq(PartitionsOf(r, size, padding))
  <1>1. CASE Len(s) <= size
    <2>1. Iterate(g, s, size, padding) = << <<s>> >>
      BY <1>1 DEF Iterate
    <2>2. <<s>> \in Seq(Seq(Int)) /\ << <<s>> >> \in Seq(Seq(Seq(Int)))
      OBVIOUS
    <2>3. ASSUME Good
          PROVE  <<s>> \in PartitionsOf(s, size, padding)
      <3>1. /\ Distinct(s) /\ Whole(s, padding)
            /\ \E k \in Nat : Len(s) = (k + 1) * size
        BY <2>3 DEF Divisible
      <3>2. PICK k \in Nat : Len(s) = (k + 1) * size
        BY <3>1
      <3>3. (k + 1) * size >= size
        OBVIOUS
      <3>4. Len(s) = size
        BY <1>1, <3>2, <3>3
      <3> QED
        BY <3>1, <3>4, OneSet
    <2>4. Good => << <<s>> >> \in Seq(PartitionsOf(s, size, padding))
      <3> DEFINE p == <<s>>
      <3> HIDE DEF p, Good
      <3> QED
        BY <2>3 DEF p
    <2> QED
      BY <2>1, <2>2, <2>4
  <1>2. CASE Len(s) > size
    <2> DEFINE sets == GPUSets(Tail(s), size - 1)
               D    == DOMAIN sets
               br   == Branches(g, s, size, padding)
    <2>1. /\ Len(sets) \in Nat /\ D = 1 .. Len(sets)
      BY <1>2, LongEnough, InSeq
    <2>2. br = [i \in D |-> Branch(g, s, size, padding, i)]
      BY DEF Branches
    <2>3. Iterate(g, s, size, padding) = FlattenSeq(br)
      <3>1. ~(Len(s) <= size)
        BY <1>2, InSeq
      <3> QED
        BY <3>1 DEF Iterate
    <2>4. ASSUME NEW i \in D
          PROVE  /\ Branch(g, s, size, padding, i) \in Seq(Seq(Seq(Int)))
                 /\ Good => Branch(g, s, size, padding, i) \in Seq(PartitionsOf(s, size, padding))
      <3> DEFINE t  == SetAt(s, size, i)
                 r  == Remaining(s, t)
                 ps == g[r]
                 w  == [j \in DOMAIN ps |-> <<t>> \o ps[j]]
      <3>1. /\ t \in SetsOf(s, size) /\ t \in Seq(Int) /\ Len(t) = size
            /\ r \in Seq(Int) /\ Len(r) < Len(s)
        BY <1>2, LongEnough DEF SetsOf
      <3>2. Branch(g, s, size, padding, i) = IF Whole(t, padding) THEN w ELSE << >>
        BY DEF Branch, Withs
      <3>3. << >> \in Seq(Seq(Seq(Int))) /\ << >> \in Seq(PartitionsOf(s, size, padding))
        OBVIOUS
      <3> HIDE DEF t, r
      <3>4. ps \in Seq(Seq(Seq(Int))) /\ Len(ps) \in Nat /\ DOMAIN ps = 1 .. Len(ps)
        BY <3>1, LenProperties
      <3>5. w \in Seq(Seq(Seq(Int)))
        <4>1. ASSUME NEW j \in DOMAIN ps
              PROVE  <<t>> \o ps[j] \in Seq(Seq(Int))
          <5>1. ps[j] \in Seq(Seq(Int))
            BY <3>4, InSeq
          <5> QED
            BY <3>1, <5>1, Consed
        <4> HIDE DEF ps
        <4> QED
          BY <3>4, <4>1, IsASeq
      <3>6. ASSUME Good, Whole(t, padding)
            PROVE  w \in Seq(PartitionsOf(s, size, padding))
        <4>1. /\ Distinct(t) /\ ToSet(t) \subseteq ToSet(s)
              /\ r \in Divisible(size, padding) /\ ToSet(r) = ToSet(s) \ ToSet(t)
          BY <1>2, <3>1, <3>6, SetsLeaveSets DEF r
        <4>2. ps \in Seq(PartitionsOf(r, size, padding))
          BY <3>1, <3>6, <4>1
        <4> HIDE DEF ps
        <4>3. ASSUME NEW j \in DOMAIN ps
              PROVE  <<t>> \o ps[j] \in PartitionsOf(s, size, padding)
          <5>1. ps[j] \in PartitionsOf(r, size, padding)
            BY <4>2, InSeq
          <5> QED
            BY <3>1, <3>6, <4>1, <5>1, ConsPartition
        <4>4. w \in [1 .. Len(ps) -> PartitionsOf(s, size, padding)]
          BY <3>4, <4>3, Zenon
        <4>5. Len(ps) \in Int
          BY <3>4
        <4> HIDE DEF w
        <4> QED
          BY <4>4, <4>5, FunctionIsSeq
      <3> HIDE DEF w, ps, Good
      <3> QED
        BY <3>2, <3>3, <3>5, <3>6
    <2> HIDE DEF Good, sets
    <2>5. br \in Seq(Seq(Seq(Seq(Int)))) /\ (Good => br \in Seq(Seq(PartitionsOf(s, size, padding))))
      BY <2>1, <2>2, <2>4, IsASeq
    <2> HIDE DEF br
    <2>6. FlattenSeq(br) \in Seq(Seq(Seq(Int)))
      BY <2>5, Flattened
    <2>7. Good => FlattenSeq(br) \in Seq(PartitionsOf(s, size, padding))
      BY <2>5, Flattened
    <2> QED
      BY <2>3, <2>6, <2>7 DEF Good
  <1>3. Len(s) <= size \/ Len(s) > size
    BY InSeq
  <1> QED
    BY <1>1, <1>2, <1>3

Agree(g, h, s) == \A r \in Seq(Int) : Len(r) < Len(s) => g[r] = h[r]

LEMMA IterateAgrees ==
  ASSUME NEW size \in Nat, size # 0, NEW padding \in Nat, NEW s \in Seq(Int), NEW g, NEW h,
         Agree(g, h, s)
  PROVE  Iterate(g, s, size, padding) = Iterate(h, s, size, padding)
  <1>1. CASE Len(s) <= size
    BY <1>1 DEF Iterate
  <1>2. CASE Len(s) > size
    <2>1. \A i \in DOMAIN GPUSets(Tail(s), size - 1) :
            /\ Remaining(s, SetAt(s, size, i)) \in Seq(Int)
            /\ Len(Remaining(s, SetAt(s, size, i))) < Len(s)
      BY <1>2, LongEnough
    <2>2. \A i \in DOMAIN GPUSets(Tail(s), size - 1) :
            Withs(g, s, SetAt(s, size, i)) = Withs(h, s, SetAt(s, size, i))
      BY <2>1 DEF Withs, Agree
    <2>3. Branches(g, s, size, padding) = Branches(h, s, size, padding)
      BY <2>2 DEF Branches, Branch
    <2> QED
      BY <2>3 DEF Iterate
  <1>3. Len(s) <= size \/ Len(s) > size
    BY InSeq
  <1> QED
    BY <1>1, <1>2, <1>3

\* iterate, unfolded
LEMMA IterationsIs ==
  ASSUME NEW size \in Nat, size # 0, NEW padding \in Nat
  PROVE  /\ Iterations(size, padding) \in [Seq(Int) -> Seq(Seq(Seq(Int)))]
         /\ \A s \in Seq(Int) :
              Iterations(size, padding)[s] = Iterate(Iterations(size, padding), s, size, padding)
  <1> DEFINE X       == Seq(Int)
             Y       == Seq(Seq(Seq(Int)))
             m       == [r \in X |-> Len(r)]
             B       == [q \in X \X [X -> Y] |-> Iterate(q[2], q[1], size, padding)]
             IsIt(F) == F = [r \in X |-> Iterate(F, r, size, padding)]
             iterate == CHOOSE F : IsIt(F)
  <1>1. Recursive(X, Y, m, B)
    <2>1. Y # {}
      <3>1. << >> \in Y
        OBVIOUS
      <3> QED
        BY <3>1, Zenon
    <2>2. m \in [X -> Nat]
      BY LenProperties
    <2>3. B \in [X \X [X -> Y] -> Y]
      <3> SUFFICES ASSUME NEW r \in X, NEW g \in [X -> Y]
                   PROVE  Iterate(g, r, size, padding) \in Y
        BY Zenon
      <3> QED
        BY IterateOnce
    <2>4. ASSUME NEW r \in X, NEW g \in [X -> Y], NEW h \in [X -> Y],
                 \A k \in X : m[k] < m[r] => g[k] = h[k]
          PROVE  B[<<r, g>>] = B[<<r, h>>]
      <3>1. Agree(g, h, r)
        BY <2>4 DEF Agree
      <3>2. Iterate(g, r, size, padding) = Iterate(h, r, size, padding)
        BY <3>1, IterateAgrees
      <3> QED
        BY <3>2
    <2> HIDE DEF X, Y, m, B
    <2> QED
      BY <2>1, <2>2, <2>3, <2>4 DEF Recursive
  <1>2. PICK f \in [X -> Y] : \A r \in X : f[r] = B[<<r, f>>]
    <2> HIDE DEF X, Y, m, B
    <2> QED
      BY <1>1, Recursion
  <1>3. \A r \in X : f[r] = Iterate(f, r, size, padding)
    BY <1>2
  <1>4. IsIt(f)
    BY <1>3
  <1>5. IsIt(iterate)
    <2> HIDE DEF IsIt
    <2> QED
      BY <1>4
  <1> HIDE DEF iterate
  <1>6. \A r \in X : iterate[r] = Iterate(iterate, r, size, padding)
    BY <1>5
  <1>7. iterate \in [X -> Y]
    <2>1. iterate = [r \in X |-> iterate[r]]
      BY <1>5
    <2> DEFINE Same == {n \in Nat : \A r \in X : Len(r) = n => iterate[r] = f[r]}
    <2>2. ASSUME NEW n \in Nat, \A k \in Nat : k < n => k \in Same
          PROVE  n \in Same
      <3> SUFFICES ASSUME NEW r \in X, Len(r) = n
                   PROVE  iterate[r] = f[r]
        OBVIOUS
      <3>1. ASSUME NEW k \in X, Len(k) < Len(r)
            PROVE  iterate[k] = f[k]
        <4>1. Len(k) \in Nat /\ Len(k) < n
          BY <3>1, LenProperties
        <4> QED
          BY <2>2, <4>1
      <3>2. Agree(iterate, f, r)
        BY <3>1 DEF Agree
      <3>3. Iterate(iterate, r, size, padding) = Iterate(f, r, size, padding)
        BY <3>2, IterateAgrees
      <3> QED
        BY <1>3, <1>6, <3>3
    <2>3. Same = Nat
      <3> HIDE DEF Same
      <3>1. Same \in SUBSET Nat
        BY DEF Same
      <3> QED
        BY <2>2, <3>1, Induction
    <2>4. \A r \in X : iterate[r] = f[r]
      <3>1. \A r \in X : Len(r) \in Nat
        BY LenProperties
      <3> QED
        BY <2>3, <3>1
    <2> QED
      BY <2>1, <2>4
  <1>8. Iterations(size, padding) = iterate
    BY DEF Iterations, iterate, Iterate, Branches, Branch, Withs, SetAt
  <1> QED
    BY <1>6, <1>7, <1>8

\* iterateGPUPartitions calls back with partitions of the devices
LEMMA IterationsPartition ==
  ASSUME NEW size \in Nat, size # 0, NEW padding \in Nat,
         NEW s \in Divisible(size, padding)
  PROVE  Iterations(size, padding)[s] \in Seq(PartitionsOf(s, size, padding))
  <1> DEFINE iterate == Iterations(size, padding)
             Good    == {n \in Nat : \A r \in Divisible(size, padding) :
                           Len(r) = n => iterate[r] \in Seq(PartitionsOf(r, size, padding))}
  <1>1. /\ iterate \in [Seq(Int) -> Seq(Seq(Seq(Int)))]
        /\ \A r \in Seq(Int) : iterate[r] = Iterate(iterate, r, size, padding)
    BY IterationsIs
  <1> HIDE DEF iterate
  <1>2. ASSUME NEW n \in Nat, \A k \in Nat : k < n => k \in Good
        PROVE  n \in Good
    <2> SUFFICES ASSUME NEW r \in Divisible(size, padding), Len(r) = n
                 PROVE  iterate[r] \in Seq(PartitionsOf(r, size, padding))
      OBVIOUS
    <2>1. r \in Seq(Int)
      BY DEF Divisible
    <2>2. \A k \in Divisible(size, padding) :
            Len(k) < Len(r) => iterate[k] \in Seq(PartitionsOf(k, size, padding))
      <3> SUFFICES ASSUME NEW k \in Divisible(size, padding), Len(k) < Len(r)
                   PROVE  iterate[k] \in Seq(PartitionsOf(k, size, padding))
        OBVIOUS
      <3>1. Len(k) \in Nat /\ Len(k) < n
        BY LenProperties DEF Divisible
      <3>2. Len(k) \in Good
        BY <1>2, <3>1
      <3> QED
        BY <3>2
    <2>3. Iterate(iterate, r, size, padding) \in Seq(PartitionsOf(r, size, padding))
      BY <1>1, <2>1, <2>2, IterateOnce
    <2> QED
      BY <1>1, <2>1, <2>3
  <1>3. Good = Nat
    <2> HIDE DEF Good
    <2>1. Good \in SUBSET Nat
      BY DEF Good
    <2> QED
      BY <1>2, <2>1, Induction
  <1>4. iterate[s] \in Seq(PartitionsOf(s, size, padding))
    <2>1. Len(s) \in Nat
      BY LenProperties DEF Divisible
    <2>2. Len(s) \in Good
      BY <1>3, <2>1, Zenon
    <2> QED
      BY <2>2
  <1> QED
    BY <1>4 DEF iterate
-----------------------------------------------------------------------------
(* Counting.                                                                *)

LEMMA DevFinite == IsFiniteSet(Dev) /\ Cardinality(Dev) = N /\ Dev \subseteq Int
  BY NAssumption, FS_Interval DEF Dev

LEMMA DevIs == \A d \in Dev : d \in Int /\ d # NoGPU /\ d # None
  BY NAssumption DEF Dev, NoGPU

LEMMA PartsFinite ==
  ASSUME NEW S \in SUBSET Dev
  PROVE  IsFiniteSet(S) /\ Cardinality(S) \in Nat /\ Cardinality(S) <= N
  BY DevFinite, FS_Subset, FS_CardinalityType

LEMMA FreeParts == Free \subseteq Dev
  BY DEF Free

LEMMA Interval ==
  ASSUME NEW n \in Nat
  PROVE  IsFiniteSet(0 .. n - 1) /\ Cardinality(0 .. n - 1) = n
  <1>1. 0 \in Int /\ n - 1 \in Int
    OBVIOUS
  <1>2. IsFiniteSet(0 .. n - 1)
          /\ Cardinality(0 .. n - 1) = IF 0 > n - 1 THEN 0 ELSE n - 1 - 0 + 1
    BY <1>1, FS_Interval
  <1> QED
    BY <1>2

\* Lowest takes as many elements as it is asked for
LEMMA LowestCount ==
  ASSUME NEW S \in SUBSET Int, IsFiniteSet(S), NEW n \in 0 .. Cardinality(S)
  PROVE  Lowest(S, n) \subseteq S /\ Cardinality(Lowest(S, n)) = n
  <1> DEFINE c        == Cardinality(S)
             Below(d) == {e \in S : e < d}
             rank     == [d \in S |-> Cardinality(Below(d))]
             T        == Lowest(S, n)
             part     == [d \in T |-> rank[d]]
  <1>1. c \in Nat /\ n \in Nat /\ n <= c
    BY FS_CardinalityType
  <1>2. ASSUME NEW d \in S
        PROVE  /\ IsFiniteSet(Below(d)) /\ rank[d] \in Nat /\ rank[d] \in 0 .. c - 1
               /\ \A e \in S : e < d => rank[e] < rank[d]
    <2>1. /\ IsFiniteSet(Below(d)) /\ Cardinality(Below(d)) \in Nat
          /\ Cardinality(Below(d)) <= c
          /\ Cardinality(Below(d)) = c => Below(d) = S
      <3>1. Below(d) \in SUBSET S
        OBVIOUS
      <3> QED
        BY <3>1, FS_Subset, FS_CardinalityType
    <2>2. d \notin Below(d)
      OBVIOUS
    <2>3. ASSUME NEW e \in S, e < d
          PROVE  rank[e] < rank[d]
      <3> d \in Int /\ e \in Int /\ \A x \in S : x \in Int
        OBVIOUS
      <3>1. Below(e) \in SUBSET Below(d) /\ e \in Below(d) /\ e \notin Below(e)
        <4>1. \A x \in S : x < e => x < d
          BY <2>3
        <4>2. ~(e < e)
          OBVIOUS
        <4> QED
          BY <2>3, <4>1, <4>2
      <3>2. /\ Cardinality(Below(e)) \in Nat /\ Cardinality(Below(e)) <= Cardinality(Below(d))
            /\ Cardinality(Below(e)) = Cardinality(Below(d)) => Below(e) = Below(d)
        BY <2>1, <3>1, FS_Subset, FS_CardinalityType
      <3> QED
        BY <2>1, <3>1, <3>2
    <2> QED
      BY <1>1, <2>1, <2>2, <2>3
  <1> HIDE DEF Below
  <1>3. \A d \in S : rank[d] \in Nat
    <2> HIDE DEF rank
    <2> QED
      BY <1>2
  <1>4. rank \in Injection(S, 0 .. c - 1)
    <2>1. rank \in [S -> 0 .. c - 1]
      BY <1>2
    <2>2. ASSUME NEW d \in S, NEW e \in S, rank[d] = rank[e]
          PROVE  d = e
      <3> HIDE DEF rank
      <3>1. rank[d] \in Int /\ rank[e] \in Int
        BY <1>3
      <3>2. (d < e => rank[d] < rank[e]) /\ (e < d => rank[e] < rank[d])
        BY <1>2
      <3>3. d \in Int /\ e \in Int
        OBVIOUS
      <3> QED
        BY <2>2, <3>1, <3>2, <3>3
    <2> QED
      BY <2>1, <2>2 DEF Injection, IsInjective
  <1>5. rank \in Surjection(S, 0 .. c - 1)
    <2>1. IsFiniteSet(0 .. c - 1) /\ Cardinality(0 .. c - 1) = c
      BY <1>1, Interval
    <2> QED
      BY <1>4, <2>1, FS_Injection
  <1>6. T = {d \in S : rank[d] < n}
    BY DEF Lowest, Below
  <1>7. part \in Injection(T, 0 .. n - 1) /\ part \in Surjection(T, 0 .. n - 1)
    <2> HIDE DEF rank, T
    <2>1. part \in [T -> 0 .. n - 1]
      <3>1. \A d \in T : d \in S /\ rank[d] \in Int /\ 0 <= rank[d] /\ rank[d] < n
        BY <1>1, <1>3, <1>6
      <3>2. \A d \in T : rank[d] \in 0 .. n - 1
        BY <1>1, <3>1
      <3> QED
        BY <3>2
    <2>2. \A d, e \in T : part[d] = part[e] => d = e
      BY <1>4, <1>6 DEF Injection, IsInjective
    <2>3. ASSUME NEW i \in 0 .. n - 1
          PROVE  \E d \in T : part[d] = i
      <3>1. PICK d \in S : rank[d] = i
        BY <1>1, <1>5 DEF Surjection
      <3> QED
        BY <1>1, <1>6, <3>1
    <2> QED
      BY <2>1, <2>2, <2>3 DEF Injection, IsInjective, Surjection
  <1>8. IsFiniteSet(0 .. n - 1) /\ Cardinality(0 .. n - 1) = n
    BY <1>1, Interval
  <1> QED
    BY <1>6, <1>7, <1>8, FS_Injection

\* a sequence has at most as many elements as places
LEMMA ToSetBound ==
  ASSUME NEW s \in Seq(Dev)
  PROVE  /\ ToSet(s) \subseteq Dev
         /\ IsFiniteSet(ToSet(s)) /\ Cardinality(ToSet(s)) \in Nat
         /\ Cardinality(ToSet(s)) <= Len(s)
  <1>1. Len(s) \in Nat /\ DOMAIN s = 1 .. Len(s) /\ s \in [1 .. Len(s) -> Dev]
    BY LenProperties
  <1>2. ToSet(s) \subseteq Dev
    BY <1>1 DEF ToSet
  <1>3. s \in Surjection(1 .. Len(s), ToSet(s))
    BY <1>1 DEF ToSet, Surjection
  <1> QED
    BY <1>1, <1>2, <1>3, PartsFinite, FS_SurjCardinalityBound DEF ExistsSurjection
-----------------------------------------------------------------------------
(* The partitions of the best-effort policy.                               *)

\* the padding makes the number of devices a multiple of the size
LEMMA PaddingFills ==
  ASSUME NEW size \in Nat, size # 0, NEW n \in Nat, n >= size
  PROVE  /\ Padding(n, size) \in 0 .. size - 1
         /\ Padding(n, size) # 0 => Padding(n, size) = size - (n % size)
         /\ \E k \in Nat : n + Padding(n, size) = (k + 1) * size
  <1> DEFINE q == n \div size
             r == n % size
  <1>1. n = size * q + r
    OBVIOUS
  <1>2. r \in 0 .. size - 1
    OBVIOUS
  <1>3. q \in Nat
    OBVIOUS
  <1>4. size % size = 0
    OBVIOUS
  <1>5. r # 0 => (size - r) % size = size - r
    <2> HIDE DEF r
    <2>1. r # 0 => size - r \in Nat /\ size - r < size
      BY <1>2
    <2> DEFINE d == size - r
    <2>2. r # 0 => d % size = d
      <3> HIDE DEF d
      <3> QED
        BY <2>1 DEF d
    <2> QED
      BY <2>2
  <1> HIDE DEF q, r
  <1>6. Padding(n, size) = (size - r) % size
    BY DEF Padding, r
  <1>7. CASE r = 0
    <2>1. Padding(n, size) = 0
      BY <1>4, <1>6, <1>7
    <2>2. n = size * q
      BY <1>1, <1>3, <1>7
    <2>3. q # 0
      <3>1. q = 0 => size * q = 0
        OBVIOUS
      <3> QED
        BY <2>2, <3>1
    <2>4. q - 1 \in Nat /\ (q - 1 + 1) * size = size * q
      BY <1>3, <2>3
    <2> QED
      BY <2>1, <2>2, <2>4
  <1>8. CASE r # 0
    <2>1. Padding(n, size) = size - r
      BY <1>5, <1>6, <1>8
    <2>2. n + (size - r) = (q + 1) * size
      BY <1>1, <1>2, <1>3
    <2>3. size - r \in 0 .. size - 1
      BY <1>2, <1>8
    <2> QED
      BY <1>3, <2>1, <2>2, <2>3 DEF r
  <1> QED
    BY <1>7, <1>8

\* the devices, filled up
Padded(devices, size) ==
  devices \o [i \in 1 .. Padding(Len(devices), size) |-> NoGPU]

LEMMA PaddedDivisible ==
  ASSUME NEW devices \in Seq(Dev), IsInjective(devices),
         NEW size \in Nat, size # 0, Len(devices) >= size
  PROVE  /\ Padded(devices, size) \in Divisible(size, Padding(Len(devices), size))
         /\ ToSet(Padded(devices, size)) \subseteq ToSet(devices) \union {NoGPU}
         /\ ToSet(devices) \subseteq ToSet(Padded(devices, size))
         /\ Trailing(Padded(devices, size))
         /\ NoGPU \in ToSet(Padded(devices, size)) <=> Padding(Len(devices), size) # 0
  <1> DEFINE n   == Len(devices)
             pad == Padding(n, size)
             f   == [i \in 1 .. pad |-> NoGPU]
             s   == devices \o f
  <1>1. n \in Nat /\ DOMAIN devices = 1 .. n /\ \A i \in 1 .. n : devices[i] \in Int /\ devices[i] # NoGPU
    BY InSeq, DevIs
  <1>2. pad \in Nat /\ \E k \in Nat : n + pad = (k + 1) * size
    <2>1. n \in Nat /\ n >= size
      BY <1>1
    <2> HIDE DEF n
    <2>2. pad \in 0 .. size - 1 /\ \E k \in Nat : n + pad = (k + 1) * size
      BY <2>1, PaddingFills, Zenon
    <2>3. pad \in 0 .. size - 1 => pad \in Nat
      <3> HIDE DEF pad
      <3> QED
        OBVIOUS
    <2> QED
      BY <2>2, <2>3
  <1>3. devices \in Seq(Int)
    BY <1>1, IsASeq, InSeq
  <1> HIDE DEF pad
  <1>4. f \in Seq(Int) /\ Len(f) = pad /\ DOMAIN f = 1 .. pad /\ \A i \in 1 .. pad : f[i] = NoGPU
    <2>1. f \in [1 .. pad -> Int]
      BY DEF NoGPU
    <2>2. f \in Seq(Int)
      BY <1>2, <2>1, IsASeq
    <2>3. DOMAIN f = 1 .. pad /\ \A i \in 1 .. pad : f[i] = NoGPU
      OBVIOUS
    <2> HIDE DEF f
    <2> QED
      BY <1>2, <2>2, <2>3, LenProperties
  <1> HIDE DEF f
  <1>5. /\ s \in Seq(Int) /\ Len(s) = n + pad /\ ToSet(s) = ToSet(devices) \union ToSet(f)
        /\ \A i \in 1 .. n + pad : s[i] = IF i <= n THEN devices[i] ELSE f[i - n]
    <2>1. s \in Seq(Int) /\ Len(s) = n + Len(f) /\ ToSet(s) = ToSet(devices) \union ToSet(f)
      <3>1. devices \in Seq(Int) /\ f \in Seq(Int)
        BY <1>3, <1>4
      <3>2. PICK g : g = f
        OBVIOUS
      <3>3. /\ devices \o g \in Seq(Int) /\ Len(devices \o g) = Len(devices) + Len(g)
            /\ ToSet(devices \o g) = ToSet(devices) \union ToSet(g)
        BY <3>1, <3>2, Joined
      <3> QED
        BY <3>2, <3>3
    <2>2. \A i \in 1 .. n + Len(f) : s[i] = IF i <= n THEN devices[i] ELSE f[i - n]
      BY <1>3, <1>4, ConcatProperties, Zenon
    <2> QED
      BY <1>4, <2>1, <2>2
  <1> HIDE DEF s
  <1>6. DOMAIN s = 1 .. n + pad
    BY <1>5, LenProperties
  <1>7. \A i \in 1 .. n : i \in DOMAIN s /\ s[i] = devices[i]
    BY <1>1, <1>2, <1>5, <1>6
  <1>8. \A i \in DOMAIN s : s[i] = NoGPU <=> i \notin 1 .. n
    <2> SUFFICES ASSUME NEW i \in DOMAIN s
                 PROVE  s[i] = NoGPU <=> i \notin 1 .. n
      OBVIOUS
    <2>1. CASE i \in 1 .. n
      BY <1>1, <1>7, <2>1
    <2>2. CASE i \notin 1 .. n
      <3>1. i - n \in 1 .. pad /\ ~(i <= n)
        BY <1>1, <1>2, <1>6, <2>2
      <3>2. s[i] = f[i - n]
        BY <1>5, <1>6, <3>1
      <3> QED
        BY <1>4, <2>2, <3>1, <3>2
    <2> QED
      BY <2>1, <2>2
  <1>9. Distinct(s)
    <2> SUFFICES ASSUME NEW i \in DOMAIN s, NEW j \in DOMAIN s, s[i] = s[j], s[i] # NoGPU
                 PROVE  i = j
      BY DEF Distinct
    <2>1. i \in 1 .. n /\ j \in 1 .. n
      BY <1>8
    <2>2. devices[i] = devices[j]
      BY <1>7, <2>1
    <2> QED
      BY <1>1, <2>1, <2>2 DEF IsInjective
  <1>10. CountPadding(s) = pad
    <2>1. {i \in DOMAIN s : s[i] = NoGPU} = DOMAIN s \ (1 .. n)
      BY <1>8
    <2>2. IsFiniteSet(DOMAIN s) /\ Cardinality(DOMAIN s) = n + pad
      BY <1>5, SeqPlaces
    <2>3. Cardinality(1 .. n) = n
      BY <1>1, SeqPlaces
    <2>4. DOMAIN s \intersect (1 .. n) = 1 .. n
      BY <1>7
    <2>5. Cardinality(DOMAIN s \ (1 .. n))
            = Cardinality(DOMAIN s) - Cardinality(DOMAIN s \intersect (1 .. n))
      BY <2>2, FS_Difference
    <2>6. Cardinality(DOMAIN s \intersect (1 .. n)) = n
      BY <2>3, <2>4, Zenon
    <2> DEFINE c == Cardinality(DOMAIN s)
               d == Cardinality(DOMAIN s \intersect (1 .. n))
    <2>7. c = n + pad /\ d = n
      BY <2>2, <2>6, Zenon
    <2> HIDE DEF c, d
    <2>8. c - d = pad
      BY <1>1, <1>2, <2>7
    <2>9. CountPadding(s) = c - d
      BY <2>1, <2>5, Zenon DEF CountPadding, c, d
    <2> QED
      BY <2>8, <2>9
  <1>11. s \in Divisible(size, pad)
    BY <1>2, <1>5, <1>9, <1>10 DEF Divisible, Whole
  <1>12. ToSet(f) \subseteq {NoGPU}
    BY <1>4 DEF ToSet
  <1>13. Trailing(s)
    <2>1. ASSUME NEW i \in DOMAIN s, NEW j \in DOMAIN s, i < j, i \notin 1 .. n
          PROVE  j \notin 1 .. n
      BY <1>1, <1>2, <1>6, <2>1
    <2> QED
      BY <1>8, <2>1 DEF Trailing
  <1>14. NoGPU \in ToSet(s) <=> pad # 0
    <2>1. pad # 0 => n + pad \in DOMAIN s /\ n + pad \notin 1 .. n
      BY <1>1, <1>2, <1>6
    <2>2. pad = 0 => \A i \in DOMAIN s : i \in 1 .. n
      BY <1>1, <1>6
    <2> QED
      BY <1>8, <2>1, <2>2 DEF ToSet
  <1>15. Padded(devices, size) = s
    BY DEF Padded, s, f, pad
  <1> QED
    BY <1>5, <1>11, <1>12, <1>13, <1>14, <1>15 DEF pad

\* the sets that can be answered
SetsFrom(devices, size) ==
  {q \in Seq(Int) : /\ Len(q) = size /\ Distinct(q)
                    /\ Whole(q, Padding(Len(devices), size))
                    /\ ToSet(q) \subseteq ToSet(devices) \union {NoGPU}}

LEMMA GPUPartitionsAre ==
  ASSUME NEW devices \in Seq(Dev), IsInjective(devices), NEW size \in Nat, size # 0
  PROVE  /\ GPUPartitions(devices, size) \in Seq(Seq(SetsFrom(devices, size)) \ {<< >>})
         /\ size > 1 => \A i \in DOMAIN GPUPartitions(devices, size) :
              GPUPartitions(devices, size)[i] \in
                PartitionsOf(Padded(devices, size), size, Padding(Len(devices), size))
  <1> DEFINE n   == Len(devices)
             pad == Padding(n, size)
             all == GPUPartitions(devices, size)
             Ps  == PartitionsOf(Padded(devices, size), size, pad)
             Ans == Seq(SetsFrom(devices, size)) \ {<< >>}
  <1>1. n \in Nat /\ DOMAIN devices = 1 .. n
        /\ \A i \in 1 .. n : devices[i] \in Dev /\ devices[i] \in Int /\ devices[i] # NoGPU
    BY InSeq, DevIs
  <1>2. CASE size > n
    <2>1. all = << >>
      BY <1>2 DEF GPUPartitions
    <2>2. << >> \in Seq(Ans) /\ DOMAIN << >> = {}
      OBVIOUS
    <2> QED
      BY <2>1, <2>2
  <1>3. CASE size <= n /\ size = 1
    <2>1. ~(size > n)
      BY <1>1, <1>3
    <2>2. all = [i \in DOMAIN devices |-> << <<devices[i]>> >>]
      BY <1>3, <2>1 DEF GPUPartitions
    <2>3. n >= size
      BY <1>3
    <2>4. pad \in 0 .. 1 - 1
      BY <1>1, <1>3, <2>3, PaddingFills
    <2>5. ASSUME NEW i \in 1 .. n
          PROVE  << <<devices[i]>> >> \in Ans
      <3> DEFINE q == <<devices[i]>>
                 p == <<q>>
      <3>1. q \in Seq(Int) /\ Len(q) = 1 /\ DOMAIN q = {1} /\ q[1] = devices[i]
        BY <1>1
      <3>2. ToSet(q) = {devices[i]}
        <4> HIDE DEF q
        <4> QED
          BY <3>1 DEF ToSet
      <3>3. devices[i] \in ToSet(devices)
        BY <1>1 DEF ToSet
      <3> HIDE DEF q
      <3>4. Distinct(q)
        BY <3>1 DEF Distinct
      <3>5. Whole(q, pad)
        <4>1. {k \in DOMAIN q : q[k] = NoGPU} = {}
          BY <1>1, <3>1
        <4> HIDE DEF pad
        <4> QED
          BY <4>1, FS_EmptySet DEF Whole, CountPadding
      <3>6. q \in SetsFrom(devices, size)
        BY <1>3, <3>1, <3>2, <3>3, <3>4, <3>5 DEF SetsFrom
      <3>7. p \in Ans
        BY <3>6
      <3> QED
        BY <3>7 DEF q
    <2>6. all \in [1 .. n -> Ans]
      <3> HIDE DEF all, n
      <3> QED
        BY <1>1, <2>2, <2>5, Zenon
    <2> QED
      BY <1>1, <1>3, <2>6, IsASeq
  <1>4. CASE size <= n /\ size > 1
    <2>1. ~(size > n) /\ size # 1 /\ n >= size
      BY <1>1, <1>4
    <2>2. all = Iterations(size, pad)[Padded(devices, size)]
      BY <2>1 DEF GPUPartitions, Padded
    <2>3. /\ Padded(devices, size) \in Divisible(size, pad)
          /\ ToSet(Padded(devices, size)) \subseteq ToSet(devices) \union {NoGPU}
      BY <2>1, PaddedDivisible
    <2>4. pad \in Nat
      BY <1>1, <2>1, PaddingFills
    <2> HIDE DEF pad, all
    <2>5. all \in Seq(Ps)
      BY <2>2, <2>3, <2>4, IterationsPartition
    <2>6. Ps \subseteq Ans
      <3> SUFFICES ASSUME NEW p \in Ps
                   PROVE  p \in Ans
        OBVIOUS
      <3>1. /\ p \in Seq(Seq(Int)) /\ p # << >>
            /\ \A i \in DOMAIN p : Len(p[i]) = size /\ Distinct(p[i]) /\ Whole(p[i], pad)
            /\ UNION {ToSet(p[i]) : i \in DOMAIN p} = ToSet(Padded(devices, size))
        BY DEF PartitionsOf
      <3>2. Len(p) \in Nat /\ DOMAIN p = 1 .. Len(p) /\ \A i \in DOMAIN p : p[i] \in Seq(Int)
        BY <3>1, InSeq
      <3>3. \A i \in DOMAIN p : ToSet(p[i]) \subseteq ToSet(devices) \union {NoGPU}
        BY <2>3, <3>1
      <3>4. \A i \in DOMAIN p : p[i] \in SetsFrom(devices, size)
        BY <3>1, <3>2, <3>3 DEF SetsFrom, pad
      <3>5. p \in [1 .. Len(p) -> SetsFrom(devices, size)]
        BY <3>1, <3>2, <3>4
      <3>6. p \in Seq(SetsFrom(devices, size))
        BY <3>2, <3>5, IsASeq
      <3> QED
        BY <3>1, <3>6
    <2>7. Len(all) \in Nat /\ DOMAIN all = 1 .. Len(all) /\ \A i \in DOMAIN all : all[i] \in Ps
      BY <2>5, InSeq
    <2>8. all \in Seq(Ans)
      <3> HIDE DEF Ps, Ans
      <3>1. all \in [1 .. Len(all) -> Ans]
        BY <2>5, <2>6, <2>7
      <3> QED
        BY <2>7, <3>1, IsASeq
    <2> QED
      BY <2>7, <2>8 DEF all, pad
  <1>5. size > n \/ (size <= n /\ size = 1) \/ (size <= n /\ size > 1)
    BY <1>1
  <1> QED
    BY <1>2, <1>3, <1>4, <1>5
-----------------------------------------------------------------------------
(* Scores.                                                                  *)

\* induction over the subsets of a finite set
LEMMA SubsetInduction ==
  ASSUME NEW S, IsFiniteSet(S), NEW Good \in SUBSET SUBSET S,
         \A T \in SUBSET S : (\A U \in SUBSET T : U # T => U \in Good) => T \in Good
  PROVE  \A T \in SUBSET S : T \in Good
  <1> DEFINE G == {n \in Nat : \A T \in SUBSET S : Cardinality(T) = n => T \in Good}
  <1>1. \A T \in SUBSET S : IsFiniteSet(T) /\ Cardinality(T) \in Nat
    BY FS_Subset, FS_CardinalityType
  <1>2. ASSUME NEW n \in Nat, \A k \in Nat : k < n => k \in G
        PROVE  n \in G
    <2> SUFFICES ASSUME NEW T \in SUBSET S, Cardinality(T) = n
                 PROVE  T \in Good
      OBVIOUS
    <2>1. ASSUME NEW U \in SUBSET T, U # T
          PROVE  U \in Good
      <3>1. Cardinality(U) <= n /\ Cardinality(U) # n
        BY <1>1, <2>1, FS_Subset
      <3>2. Cardinality(U) \in Nat /\ Cardinality(U) < n /\ U \in SUBSET S
        BY <1>1, <3>1
      <3> QED
        BY <1>2, <3>2
    <2> QED
      BY <2>1
  <1>3. G = Nat
    <2> HIDE DEF G
    <2>1. G \in SUBSET Nat
      BY DEF G
    <2> QED
      BY <1>2, <2>1, Induction
  <1> QED
    BY <1>1, <1>3

OneOf(T) == CHOOSE x \in T : TRUE

\* F adds up f over each subset of S
Folds(F, f, S) ==
  F = [T \in SUBSET S |-> IF T = {} THEN 0 ELSE f[OneOf(T)] + F[T \ {OneOf(T)}]]

LEMMA OneOfIs ==
  ASSUME NEW T, T # {}
  PROVE  OneOf(T) \in T
  BY DEF OneOf

\* the recursive function of a fold exists, and each sum is a natural number
LEMMA FoldExists ==
  ASSUME NEW S, IsFiniteSet(S), NEW f \in [S -> Nat]
  PROVE  /\ \E F : Folds(F, f, S)
         /\ \A F : Folds(F, f, S) => F \in [SUBSET S -> Nat]
  <1> DEFINE X == SUBSET S
             Y == Nat
             m == [T \in X |-> Cardinality(T)]
             B == [q \in X \X [X -> Y] |->
                     IF q[1] = {} THEN 0 ELSE f[OneOf(q[1])] + q[2][q[1] \ {OneOf(q[1])}]]
  <1>1. ASSUME NEW T \in X
        PROVE  /\ IsFiniteSet(T) /\ Cardinality(T) \in Nat
               /\ T # {} => /\ OneOf(T) \in T /\ T \ {OneOf(T)} \in X /\ f[OneOf(T)] \in Nat
                            /\ Cardinality(T \ {OneOf(T)}) \in Nat
                            /\ Cardinality(T \ {OneOf(T)}) < Cardinality(T)
    <2>1. IsFiniteSet(T) /\ Cardinality(T) \in Nat
      BY FS_Subset, FS_CardinalityType
    <2>2. ASSUME T # {}
          PROVE  OneOf(T) \in T /\ T \ {OneOf(T)} \in X /\ f[OneOf(T)] \in Nat
      BY <2>2, OneOfIs
    <2>3. ASSUME T # {}
          PROVE  /\ Cardinality(T \ {OneOf(T)}) \in Nat
                 /\ Cardinality(T \ {OneOf(T)}) < Cardinality(T)
      <3>1. Cardinality(T \ {OneOf(T)}) = Cardinality(T) - 1
              /\ IsFiniteSet(T \ {OneOf(T)})
        BY <2>1, <2>2, <2>3, FS_RemoveElement
      <3>2. Cardinality(T \ {OneOf(T)}) \in Nat
        BY <3>1, FS_CardinalityType
      <3> QED
        BY <2>1, <3>1, <3>2
    <2> QED
      BY <2>1, <2>2, <2>3
  <1>2. Recursive(X, Y, m, B)
    <2>1. Y # {} /\ m \in [X -> Nat]
      BY <1>1
    <2>2. B \in [X \X [X -> Y] -> Y]
      <3> SUFFICES ASSUME NEW T \in X, NEW g \in [X -> Y]
                   PROVE  (IF T = {} THEN 0 ELSE f[OneOf(T)] + g[T \ {OneOf(T)}]) \in Y
        BY Zenon
      <3>1. T # {} => f[OneOf(T)] \in Nat /\ g[T \ {OneOf(T)}] \in Nat
        BY <1>1
      <3> QED
        BY <3>1
    <2>3. ASSUME NEW T \in X, NEW g \in [X -> Y], NEW h \in [X -> Y],
                 \A k \in X : m[k] < m[T] => g[k] = h[k]
          PROVE  B[<<T, g>>] = B[<<T, h>>]
      <3>1. T # {} => g[T \ {OneOf(T)}] = h[T \ {OneOf(T)}]
        BY <1>1, <2>3
      <3> QED
        BY <3>1
    <2> HIDE DEF X, Y, m, B
    <2> QED
      BY <2>1, <2>2, <2>3 DEF Recursive
  <1>3. PICK F \in [X -> Y] : \A T \in X : F[T] = B[<<T, F>>]
    <2> HIDE DEF X, Y, m, B
    <2> QED
      BY <1>2, Recursion
  <1>4. Folds(F, f, S)
    BY <1>3 DEF Folds
  <1>5. ASSUME NEW H, Folds(H, f, S)
        PROVE  H \in [SUBSET S -> Nat]
    <2> DEFINE Good == {T \in SUBSET S : H[T] \in Nat}
    <2>1. H = [T \in SUBSET S |-> H[T]]
      BY <1>5 DEF Folds
    <2>2. ASSUME NEW T \in SUBSET S, \A U \in SUBSET T : U # T => U \in Good
          PROVE  T \in Good
      <3>1. H[T] = IF T = {} THEN 0 ELSE f[OneOf(T)] + H[T \ {OneOf(T)}]
        BY <1>5, Zenon DEF Folds
      <3>2. T # {} => f[OneOf(T)] \in Nat /\ H[T \ {OneOf(T)}] \in Nat
        BY <1>1, <2>2
      <3>3. CASE T = {}
        BY <3>1, <3>3
      <3>4. CASE T # {}
        BY <3>1, <3>2, <3>4
      <3> QED
        BY <3>3, <3>4
    <2>3. \A T \in SUBSET S : T \in Good
      <3>1. Good \in SUBSET SUBSET S
        OBVIOUS
      <3> HIDE DEF Good
      <3> QED
        BY <2>2, <3>1, SubsetInduction
    <2> QED
      BY <2>1, <2>3
  <1> QED
    BY <1>4, <1>5

\* a sum of natural numbers is one
LEMMA SumIs ==
  ASSUME NEW S, IsFiniteSet(S), NEW f \in [S -> Nat]
  PROVE  /\ SumFunction(f) \in Nat
         /\ \E F : Folds(F, f, S) /\ SumFunction(f) = F[S]
  <1> DEFINE iter == CHOOSE F : Folds(F, f, S)
  <1>1. Folds(iter, f, S)
    BY FoldExists
  <1>2. SumFunction(f) = iter[S]
    <2>1. DOMAIN f = S
      OBVIOUS
    <2> QED
      BY <2>1 DEF SumFunction, SumFunctionOnSet, FoldFunctionOnSet, MapThenFoldSet, Folds, OneOf
  <1> HIDE DEF iter
  <1>3. iter \in [SUBSET S -> Nat]
    BY <1>1, FoldExists
  <1> QED
    BY <1>1, <1>2, <1>3

LEMMA PairScoreIs ==
  ASSUME NEW a, NEW b
  PROVE  PairScore(a, b) \in Nat
  <1>1. \A abbr : LinkOf(abbr) \in 0 .. 12
    BY DEF LinkOf, LinkType
  <1>2. Origin(a, b) \in 0 .. 12
    BY <1>1 DEF Origin
  <1>3. Topology(a, b) \in 0 .. 12
    BY <1>2 DEF Topology
  <1>4. \A l \in 0 .. 12 : LinkScore(l) \in Nat
    BY DEF LinkScore
  <1> QED
    BY <1>3, <1>4 DEF PairScore

LEMMA SetScoreIs ==
  ASSUME NEW s \in Seq(Int)
  PROVE  SetScore(s) \in Nat
  <1> DEFINE Pairs == {ij \in (DOMAIN s) \X (DOMAIN s) : ij[1] < ij[2]}
             f     == [ij \in Pairs |-> PairScore(s[ij[1]], s[ij[2]])]
  <1>1. IsFiniteSet(DOMAIN s)
    BY SeqPlaces
  <1>2. IsFiniteSet((DOMAIN s) \X (DOMAIN s))
    BY <1>1, FS_Product
  <1>3. IsFiniteSet(Pairs)
    BY <1>2, FS_Subset
  <1>4. f \in [Pairs -> Nat]
    BY PairScoreIs
  <1>5. SetScore(s) = SumFunction(f)
    BY DEF SetScore
  <1> HIDE DEF f, Pairs
  <1> QED
    BY <1>3, <1>4, <1>5, SumIs

LEMMA PartitionScoreIs ==
  ASSUME NEW p \in Seq(Seq(Int))
  PROVE  PartitionScore(p) \in Nat
  <1> DEFINE f == [i \in DOMAIN p |-> SetScore(p[i])]
  <1>1. IsFiniteSet(DOMAIN p) /\ \A i \in DOMAIN p : p[i] \in Seq(Int)
    BY SeqPlaces, InSeq
  <1>2. f \in [DOMAIN p -> Nat]
    BY <1>1, SetScoreIs
  <1>3. PartitionScore(p) = SumFunction(f)
    BY DEF PartitionScore
  <1> HIDE DEF f
  <1> QED
    BY <1>1, <1>2, <1>3, SumIs

\* FirstBest returns a place of best score
LEMMA FirstBestIs ==
  ASSUME NEW S, NEW s \in Seq(S), s # << >>, NEW score \in [DOMAIN s -> Nat]
  PROVE  /\ FirstBest(score) \in DOMAIN s
         /\ \A j \in DOMAIN s : score[j] <= score[FirstBest(score)]
  <1> DEFINE n    == Len(s)
             Good == {k \in Nat : k \in 1 .. n =>
                        \E i \in 1 .. k : \A j \in 1 .. k : score[j] <= score[i]}
             V    == {score[i] : i \in DOMAIN s}
             top  == Max(V)
             T    == {i \in DOMAIN s : score[i] = top}
  <1>1. n \in Nat /\ n # 0 /\ DOMAIN s = 1 .. n /\ \A i \in 1 .. n : score[i] \in Nat
    BY InSeq, EmptySeq
  <1>2. ASSUME NEW k \in Nat, \A j \in Nat : j < k => j \in Good
        PROVE  k \in Good
    <2> SUFFICES ASSUME k \in 1 .. n
                 PROVE  \E i \in 1 .. k : \A j \in 1 .. k : score[j] <= score[i]
      OBVIOUS
    <2>1. CASE k = 1
      <3>1. 1 \in 1 .. k /\ 1 \in 1 .. n /\ \A j \in 1 .. k : j = 1
        BY <1>1, <2>1
      <3>2. score[1] \in Nat
        BY <1>1, <3>1
      <3>3. \A j \in 1 .. k : score[j] <= score[1]
        <4> SUFFICES ASSUME NEW j \in 1 .. k
                     PROVE  score[j] <= score[1]
          OBVIOUS
        <4>1. j = 1
          BY <3>1
        <4> QED
          BY <3>2, <4>1
      <3> QED
        BY <3>1, <3>3
    <2>2. CASE k # 1
      <3>1. k - 1 \in Nat /\ k - 1 < k /\ k - 1 \in 1 .. n
        BY <1>1, <2>2
      <3>2. PICK i \in 1 .. k - 1 : \A j \in 1 .. k - 1 : score[j] <= score[i]
        BY <1>2, <3>1
      <3>3. \A j \in 1 .. k : j = k \/ j \in 1 .. k - 1
        BY <3>1
      <3>4. i \in 1 .. k /\ k \in 1 .. k /\ score[i] \in Nat /\ score[k] \in Nat
        BY <1>1, <3>1
      <3>5. \A j \in 1 .. k - 1 : score[j] \in Nat
        BY <1>1, <3>1
      <3>6. CASE score[k] <= score[i]
        BY <3>2, <3>3, <3>4, <3>6
      <3>7. CASE ~(score[k] <= score[i])
        <4>1. \A j \in 1 .. k : score[j] <= score[k]
          BY <3>2, <3>3, <3>4, <3>5, <3>7
        <4> QED
          BY <3>4, <4>1
      <3> QED
        BY <3>6, <3>7
    <2> QED
      BY <2>1, <2>2
  <1>3. Good = Nat
    <2> HIDE DEF Good
    <2>1. Good \in SUBSET Nat
      BY DEF Good
    <2> QED
      BY <1>2, <2>1, Induction
  <1>4. PICK i \in 1 .. n : \A j \in 1 .. n : score[j] <= score[i]
    <2>1. n \in Good
      BY <1>1, <1>3, Zenon
    <2>2. n \in 1 .. n
      BY <1>1
    <2> QED
      BY <2>1, <2>2
  <1>5. top \in V /\ \A v \in V : top >= v
    <2>1. \E x \in V : \A y \in V : x >= y
      BY <1>1, <1>4
    <2> HIDE DEF V
    <2> QED
      BY <2>1 DEF Max
  <1> HIDE DEF top
  <1>6. T \in SUBSET Nat /\ T # {}
    BY <1>1, <1>5
  <1>7. Min(T) \in T
    <2> HIDE DEF T
    <2> QED
      BY <1>6, Smallest
  <1>8. \A j \in DOMAIN s : score[j] <= score[Min(T)]
    <2> DEFINE x == Min(T)
    <2>1. score[x] = top
      BY <1>7
    <2> HIDE DEF x
    <2>2. \A j \in DOMAIN s : score[j] \in V /\ score[j] \in Nat
      BY <1>1
    <2>3. top \in Nat
      BY <1>1, <1>5
    <2>4. \A j \in DOMAIN s : score[j] <= score[x]
      BY <1>5, <2>1, <2>2, <2>3
    <2> QED
      BY <2>4 DEF x
  <1>9. FirstBest(score) = Min(T)
    <2>1. DOMAIN score = DOMAIN s
      OBVIOUS
    <2> QED
      BY <2>1 DEF FirstBest, top
  <1> QED
    BY <1>7, <1>8, <1>9

\* Best returns an element of the sequence, of best score
LEMMA BestIs ==
  ASSUME NEW S, NEW s \in Seq(S), s # << >>, NEW score \in [DOMAIN s -> Nat]
  PROVE  \E i \in DOMAIN s : /\ Best(s, score) = s[i]
                             /\ \A j \in DOMAIN s : score[j] <= score[i]
  BY FirstBestIs, Zenon DEF Best

\* a saved partition ends as one that begins with the sets that are kept
LEMMA OverwrittenIs ==
  ASSUME NEW S, NEW ps \in Seq(S), NEW i \in DOMAIN ps
  PROVE  \E j \in DOMAIN ps :
           /\ Overwritten(ps, i) = ps[j]
           /\ SubSeq(ps[j], 1, Kept(Len(ps[i]))) = SubSeq(ps[i], 1, Kept(Len(ps[i])))
  <1>1. PICK n : n = Kept(Len(ps[i]))
    OBVIOUS
  <1> DEFINE Alike == {j \in DOMAIN ps : SubSeq(ps[j], 1, n) = SubSeq(ps[i], 1, n)}
             place == [j \in DOMAIN ps |-> IF j \in Alike THEN j ELSE 0]
  <1>2. DOMAIN ps \in SUBSET Nat /\ 0 \notin DOMAIN ps /\ ps # << >> /\ i \in Alike
    <2>1. Len(ps) \in Nat /\ DOMAIN ps = 1 .. Len(ps)
      BY InSeq
    <2>2. DOMAIN ps \in SUBSET Nat /\ 0 \notin DOMAIN ps
      BY <2>1
    <2>3. ps # << >>
      BY EmptySeq
    <2>4. i \in Alike
      OBVIOUS
    <2> QED
      BY <2>2, <2>3, <2>4
  <1>3. place \in [DOMAIN ps -> Nat] /\ \A j \in Alike : place[j] = j
    BY <1>2
  <1>4. \A j \in DOMAIN ps : j \notin Alike => place[j] = 0
    OBVIOUS
  <1> HIDE DEF place
  <1>5. PICK m \in DOMAIN ps : \A j \in DOMAIN ps : place[j] <= place[m]
    BY <1>2, <1>3, FirstBestIs
  <1>6. m \in Alike
    <2>1. place[i] = i /\ i \in Nat /\ i # 0 /\ place[i] <= place[m]
      BY <1>2, <1>3, <1>5
    <2>2. place[m] # 0
      BY <2>1
    <2> QED
      BY <1>4, <2>2
  <1>7. \A j \in Alike : m >= j
    BY <1>2, <1>3, <1>5, <1>6
  <1>8. Max(Alike) \in Alike
    <2> HIDE DEF Alike
    <2> QED
      BY <1>6, <1>7, Zenon DEF Max
  <1>9. Overwritten(ps, i) = ps[Max(Alike)]
    BY <1>1, Zenon DEF Overwritten
  <1> QED
    BY <1>1, <1>8, <1>9, Zenon
-----------------------------------------------------------------------------
(* What the best-effort policy answers.                                     *)

\* it meets no "Internal error", and answers one of the sets of a partition
LEMMA BestAnswerIs ==
  ASSUME seen \in Seq(Dev), IsInjective(seen), req \in Nat, req # 0
  PROVE  /\ ~InternalError(GPUPartitions(seen, req))
         /\ \/ BestAnswer = Panic
            \/ /\ Len(seen) >= req
               /\ \E s \in SetsFrom(seen, req) :
                    BestAnswer = Answer("ids", ToSet(s), SetScore(s))
  <1> DEFINE ps    == GPUPartitions(seen, req)
             score == [i \in DOMAIN ps |-> PartitionScore(ps[i])]
             Sets  == SetsFrom(seen, req)
  <1>1. ps \in Seq(Seq(Sets) \ {<< >>})
    BY GPUPartitionsAre
  <1>2. \A q \in Sets : q \in Seq(Int) /\ Len(q) = req
    BY DEF SetsFrom
  <1> HIDE DEF ps, Sets
  <1>3. ASSUME NEW p \in Seq(Sets) \ {<< >>}
        PROVE  /\ p \in Seq(Seq(Int)) /\ PartitionScore(p) \in Nat
               /\ Last(p) \in Sets /\ BestSet(p) \in Sets
    <2>1. Len(p) \in Nat /\ DOMAIN p = 1 .. Len(p) /\ \A i \in DOMAIN p : p[i] \in Sets
      BY InSeq
    <2>2. Len(p) # 0
      BY EmptySeq
    <2>3. p \in [1 .. Len(p) -> Seq(Int)]
      BY <1>2, <2>1
    <2>4. p \in Seq(Seq(Int))
      BY <2>1, <2>3, IsASeq
    <2>5. Last(p) \in Sets
      BY <2>1, <2>2 DEF Last
    <2> DEFINE f == [i \in DOMAIN p |-> SetScore(p[i])]
    <2>6. f \in [DOMAIN p -> Nat]
      BY <1>2, <2>1, SetScoreIs
    <2>7. BestSet(p) = Best(p, f)
      BY DEF BestSet
    <2> HIDE DEF f
    <2>8. \E i \in DOMAIN p : Best(p, f) = p[i]
      BY <2>6, BestIs
    <2> QED
      BY <2>1, <2>4, <2>5, <2>7, <2>8, PartitionScoreIs
  <1>4. Len(ps) \in Nat /\ DOMAIN ps = 1 .. Len(ps)
        /\ \A i \in DOMAIN ps : ps[i] \in Seq(Sets) \ {<< >>}
    BY <1>1, InSeq
  <1>5. ~InternalError(ps)
    <2> SUFFICES ASSUME NEW i \in DOMAIN ps
                 PROVE  ~(Len(Last(ps[i])) < req)
      BY DEF InternalError
    <2>1. Last(ps[i]) \in Sets
      BY <1>3, <1>4
    <2>2. Len(Last(ps[i])) = req
      BY <1>2, <2>1
    <2> QED
      BY <2>2
  <1>6. ASSUME ~(\A i \in DOMAIN ps : score[i] = 0)
        PROVE  BestSet(Overwritten(ps, FirstBest(score))) \in Sets /\ Len(seen) >= req
    <2>1. ps # << >>
      <3>1. ps = << >> => DOMAIN ps = {}
        OBVIOUS
      <3> QED
        BY <1>6, <3>1
    <2>4. Len(seen) >= req
      <3>1. req > Len(seen) => ps = << >>
        BY DEF ps, GPUPartitions
      <3>2. Len(seen) \in Nat
        BY InSeq
      <3> QED
        BY <2>1, <3>1, <3>2
    <2>2. score \in [DOMAIN ps -> Nat]
      BY <1>3, <1>4
    <2> HIDE DEF score
    <2>5. FirstBest(score) \in DOMAIN ps
      BY <1>1, <2>1, <2>2, FirstBestIs
    <2>3. \E i \in DOMAIN ps : Overwritten(ps, FirstBest(score)) = ps[i]
      BY <1>1, <2>5, OverwrittenIs
    <2> QED
      BY <1>3, <1>4, <2>3, <2>4
  <1>7. \/ BestAnswer = Panic
        \/ /\ ~(\A i \in DOMAIN ps : score[i] = 0)
           /\ BestAnswer = Answer("ids", ToSet(BestSet(Overwritten(ps, FirstBest(score)))),
                                  SetScore(BestSet(Overwritten(ps, FirstBest(score)))))
    BY Zenon DEF BestAnswer, ps
  <1> HIDE DEF score
  <1>8. \/ BestAnswer = Panic
        \/ /\ Len(seen) >= req
           /\ \E s \in Sets : BestAnswer = Answer("ids", ToSet(s), SetScore(s))
    BY <1>6, <1>7 DEF score
  <1> QED
    BY <1>5, <1>8 DEF ps, Sets

\* devices and padding: a short set is the padded one
LEMMA SetsFromCount ==
  ASSUME NEW devices \in Seq(Dev), IsInjective(devices),
         NEW size \in Nat, size # 0, NEW s \in SetsFrom(devices, size)
  PROVE  /\ ToSet(s) \ {NoGPU} \subseteq ToSet(devices)
         /\ Cardinality(ToSet(s) \ {NoGPU}) <= size
         /\ Len(devices) >= size /\ Cardinality(ToSet(s) \ {NoGPU}) < size =>
              /\ NoGPU \in ToSet(s)
              /\ Len(devices) % size = Cardinality(ToSet(s) \ {NoGPU})
  <1> DEFINE D   == DOMAIN s
             P   == PaddingAt(s, D)
             R   == ToSet(s) \ {NoGPU}
             f   == [i \in D \ P |-> s[i]]
             n   == Len(devices)
             pad == Padding(n, size)
  <1>1. /\ s \in Seq(Int) /\ Len(s) = size /\ Distinct(s) /\ Whole(s, pad)
        /\ ToSet(s) \subseteq ToSet(devices) \union {NoGPU}
    BY DEF SetsFrom
  <1>2. IsFiniteSet(D) /\ Cardinality(D) = size
    BY <1>1, SeqPlaces
  <1>3. P \in SUBSET D
    BY DEF PaddingAt
  <1>4. IsFiniteSet(P) /\ Cardinality(P) \in Nat
    BY <1>2, <1>3, FS_Subset, FS_CardinalityType
  <1>5. IsFiniteSet(D \ P) /\ Cardinality(D \ P) = size - Cardinality(P)
    <2>1. D \intersect P = P
      BY <1>3
    <2> HIDE DEF D, P
    <2>2. /\ IsFiniteSet(D \ P)
          /\ Cardinality(D \ P) = Cardinality(D) - Cardinality(D \intersect P)
      BY <1>2, FS_Difference
    <2> QED
      BY <1>2, <2>1, <2>2
  <1>6. f \in Bijection(D \ P, R)
    <2>1. f \in [D \ P -> R]
      BY DEF ToSet, PaddingAt
    <2>2. \A a, b \in D \ P : f[a] = f[b] => a = b
      BY <1>1 DEF Distinct, PaddingAt
    <2>3. \A d \in R : \E a \in D \ P : f[a] = d
      BY DEF ToSet, PaddingAt
    <2> HIDE DEF f, R, P, D
    <2> QED
      BY <2>1, <2>2, <2>3, BijectionIs
  <1>7. Cardinality(R) = size - Cardinality(P)
    <2> HIDE DEF f, R, P, D
    <2>1. Cardinality(R) = Cardinality(D \ P)
      BY <1>5, <1>6, FS_Bijection DEF ExistsBijection
    <2> QED
      BY <1>5, <2>1
  <1>8. Cardinality(P) \in {0, pad}
    BY <1>1 DEF Whole, CountPadding, PaddingAt
  <1>9. ASSUME n >= size, Cardinality(R) < size
        PROVE  NoGPU \in ToSet(s) /\ n % size = Cardinality(R)
    <2>1. Cardinality(P) # 0 /\ Cardinality(P) = pad
      <3> HIDE DEF R, P, pad
      <3> QED
        BY <1>4, <1>7, <1>8, <1>9
    <2>2. P # {}
      <3> HIDE DEF P
      <3> QED
        BY <2>1, FS_EmptySet
    <2>3. NoGPU \in ToSet(s)
      BY <2>2 DEF PaddingAt, ToSet
    <2>4. n \in Nat
      BY InSeq
    <2> HIDE DEF R, P, n
    <2>5. pad # 0 => pad = size - (n % size)
      BY <1>9, <2>4, PaddingFills
    <2>6. n % size \in Int
      BY <2>4
    <2> HIDE DEF pad
    <2> QED
      BY <1>7, <2>1, <2>3, <2>5, <2>6
  <1>10. Cardinality(R) <= size
    <2> HIDE DEF R, P
    <2> QED
      BY <1>4, <1>7
  <1> QED
    BY <1>1, <1>9, <1>10
-----------------------------------------------------------------------------
(* The scan.                                                                *)

LEMMA TailIs ==
  ASSUME NEW S, NEW s \in Seq(S), s # << >>
  PROVE  /\ Head(s) \in S /\ Tail(s) \in Seq(S) /\ Len(Tail(s)) = Len(s) - 1
         /\ ToSet(s) = {Head(s)} \union ToSet(Tail(s))
         /\ IsInjective(s) => IsInjective(Tail(s)) /\ Head(s) \notin ToSet(Tail(s))
  <1> DEFINE t == Tail(s)
             n == Len(s)
  <1>1. /\ n \in Nat /\ n # 0 /\ DOMAIN s = 1 .. n /\ Head(s) = s[1]
        /\ Head(s) \in S /\ t \in Seq(S) /\ Len(t) = n - 1
        /\ \A i \in 1 .. Len(t) : t[i] = s[i + 1]
    <2>1. n \in Nat /\ n # 0 /\ DOMAIN s = 1 .. n
      BY InSeq, EmptySeq
    <2>2. Head(s) = s[1]
      BY <2>1
    <2> QED
      BY <2>1, <2>2, HeadTailProperties
  <1>2. DOMAIN t = 1 .. n - 1
    BY <1>1, LenProperties
  <1> HIDE DEF t, n
  <1>3. \A i \in 1 .. n : i = 1 \/ (i - 1 \in 1 .. n - 1 /\ s[i] = t[i - 1])
    BY <1>1
  <1>4. 1 \in 1 .. n /\ \A i \in 1 .. n - 1 : i + 1 \in 1 .. n /\ i + 1 # 1 /\ t[i] = s[i + 1]
    BY <1>1
  <1>5. ToSet(s) \subseteq {Head(s)} \union ToSet(t)
    <2>1. \A j \in 1 .. n - 1 : t[j] \in ToSet(t)
      BY <1>2 DEF ToSet
    <2>2. \A i \in DOMAIN s : s[i] = Head(s) \/ s[i] \in ToSet(t)
      BY <1>1, <1>3, <2>1
    <2> QED
      BY <2>2 DEF ToSet
  <1>6. {Head(s)} \union ToSet(t) \subseteq ToSet(s)
    BY <1>1, <1>2, <1>4 DEF ToSet
  <1>7. ASSUME IsInjective(s)
        PROVE  IsInjective(t) /\ Head(s) \notin ToSet(t)
    <2>1. \A i, j \in 1 .. n : s[i] = s[j] => i = j
      BY <1>1, <1>7 DEF IsInjective
    <2>2. ASSUME NEW i \in 1 .. n - 1, NEW j \in 1 .. n - 1, t[i] = t[j]
          PROVE  i = j
      <3>1. i + 1 = j + 1
        BY <1>4, <2>1, <2>2
      <3> QED
        BY <3>1
    <2>3. \A i \in 1 .. n - 1 : t[i] # s[1]
      BY <1>4, <2>1
    <2> QED
      BY <1>1, <1>2, <2>2, <2>3 DEF IsInjective, ToSet
  <1> QED
    BY <1>1, <1>5, <1>6, <1>7 DEF t, n

LEMMA AppendIs ==
  ASSUME NEW S, NEW s \in Seq(S), NEW e \in S
  PROVE  /\ Append(s, e) \in Seq(S) /\ Len(Append(s, e)) = Len(s) + 1
         /\ ToSet(Append(s, e)) = ToSet(s) \union {e}
         /\ IsInjective(s) /\ e \notin ToSet(s) => IsInjective(Append(s, e))
  <1> DEFINE t == Append(s, e)
             n == Len(s)
  <1>1. /\ n \in Nat /\ DOMAIN s = 1 .. n
        /\ t \in Seq(S) /\ Len(t) = n + 1
        /\ \A i \in 1 .. n : t[i] = s[i]
        /\ t[n + 1] = e
    BY InSeq, AppendProperties
  <1> HIDE DEF t, n
  <1>2. DOMAIN t = 1 .. n + 1
    BY <1>1, LenProperties
  <1>3. \A i \in 1 .. n + 1 : i = n + 1 \/ i \in 1 .. n
    BY <1>1
  <1>4. n + 1 \in 1 .. n + 1 /\ \A i \in 1 .. n : i \in 1 .. n + 1
    BY <1>1
  <1>5. ToSet(t) = ToSet(s) \union {e}
    <2>1. ToSet(t) \subseteq ToSet(s) \union {e}
      BY <1>1, <1>2, <1>3 DEF ToSet
    <2>2. ToSet(s) \union {e} \subseteq ToSet(t)
      BY <1>1, <1>2, <1>4 DEF ToSet
    <2> QED
      BY <2>1, <2>2
  <1>6. ASSUME IsInjective(s), e \notin ToSet(s)
        PROVE  IsInjective(t)
    <2>1. \A i, j \in 1 .. n : s[i] = s[j] => i = j
      BY <1>1, <1>6 DEF IsInjective
    <2>2. \A i \in 1 .. n : s[i] # e
      BY <1>1, <1>6 DEF ToSet
    <2> QED
      BY <1>1, <1>2, <1>3, <2>1, <2>2 DEF IsInjective
  <1> QED
    BY <1>1, <1>5, <1>6 DEF t, n

\* what is to be found is found
LEMMA DistinctDevices ==
  ASSUME NEW s \in Seq(Dev), IsInjective(s)
  PROVE  Cardinality(ToSet(s)) = Len(s) /\ IsFiniteSet(ToSet(s))
  <1>1. DOMAIN s = 1 .. Len(s) /\ s \in [DOMAIN s -> ToSet(s)]
    BY InSeq DEF ToSet
  <1>2. s \in Bijection(DOMAIN s, ToSet(s))
    <2>1. \A a, b \in DOMAIN s : s[a] = s[b] => a = b
      BY DEF IsInjective
    <2>2. \A d \in ToSet(s) : \E a \in DOMAIN s : s[a] = d
      BY DEF ToSet
    <2> QED
      BY <1>1, <2>1, <2>2, BijectionIs
  <1>3. IsFiniteSet(DOMAIN s) /\ Cardinality(DOMAIN s) = Len(s)
    BY SeqPlaces
  <1> QED
    BY <1>2, <1>3, FS_Bijection DEF ExistsBijection

LEMMA InitHolds ==
  Init => TypeOK /\ ScanInv
  <1> SUFFICES ASSUME Init
               PROVE  TypeOK /\ ScanInv
    OBVIOUS
  <1>1. changes \in 0 .. MaxChanges
    BY BoundAssumption DEF Init
  <1>2. order \in Seq(Dev) /\ seen \in Seq(Dev)
    BY DEF Init
  <1>3. answer \in [kind : {"none", "ids", "error", "panic"},
                    ids : SUBSET (Dev \union {NoGPU}), score : Nat]
    BY DEF Init, NoAnswer, Answer
  <1> QED
    BY <1>1, <1>2, <1>3 DEF Init, TypeOK, ScanInv

LEMMA ErrorTypeOK ==
  /\ Error \in [kind : {"none", "ids", "error", "panic"},
                ids : SUBSET (Dev \union {NoGPU}), score : Nat]
  /\ Panic \in [kind : {"none", "ids", "error", "panic"},
                ids : SUBSET (Dev \union {NoGPU}), score : Nat]
  /\ Error.kind = "error" /\ Panic.kind = "panic"
  BY DEF Error, Panic, Answer

LEMMA CountKeeps ==
  ASSUME TypeOK, ScanInv, Count
  PROVE  TypeOK' /\ ScanInv'
  <1>1. CASE req <= 0 \/ req > Cardinality(Free)
    <2>1. Finish(Error) /\ pc = "count"
      BY <1>1 DEF Count
    <2> QED
      BY <2>1, ErrorTypeOK DEF TypeOK, ScanInv, Finish, Call, Free
  <1>2. CASE ~(req <= 0 \/ req > Cardinality(Free))
    <2>1. /\ pc = "count" /\ pc' = "look"
          /\ order' \in IF setup.policy = "simple" THEN {First} ELSE Orders
          /\ UNCHANGED <<seen, answer>> /\ Call
      BY <1>2 DEF Count
    <2>2. req \in 1 .. N
      <3>1. Cardinality(Free) \in Nat /\ Cardinality(Free) <= N
        BY FreeParts, PartsFinite
      <3>2. req \in Int
        BY BoundAssumption DEF TypeOK
      <3> QED
        BY <1>2, <3>1, <3>2, NAssumption
    <2>3. /\ First \in Seq(Dev) /\ Len(First) = req
          /\ IsInjective(First) /\ ToSet(First) = 0 .. req - 1
      <3>1. req \in Nat
        BY <2>2
      <3>2. DOMAIN First = 1 .. req /\ \A i \in 1 .. req : First[i] = i - 1
        BY DEF First
      <3>3. First \in [1 .. req -> Dev]
        BY <2>2, NAssumption DEF First, Dev
      <3>4. First \in Seq(Dev)
        BY <3>1, <3>3, IsASeq
      <3>5. Len(First) = req
        BY <3>1, <3>2, <3>4, LenProperties
      <3>6. IsInjective(First)
        BY <3>1, <3>2 DEF IsInjective
      <3>7. ToSet(First) = 0 .. req - 1
        <4>1. \A i \in 1 .. req : First[i] \in 0 .. req - 1
          BY <3>1, <3>2
        <4>2. \A d \in 0 .. req - 1 : d + 1 \in 1 .. req /\ First[d + 1] = d
          BY <3>1, <3>2
        <4> QED
          BY <3>2, <4>1, <4>2 DEF ToSet
      <3> QED
        BY <3>4, <3>5, <3>6, <3>7
    <2>4. /\ order' \in Seq(Dev) /\ IsInjective(order')
          /\ setup.policy = "simple" => Len(order') = req
          /\ ToSet(order') = Looked
      BY <2>1, <2>3, OrderAssumption DEF Looked
    <2>5. seen = << >> /\ ToSet(seen) = {} /\ IsInjective(seen) /\ Len(seen) = 0
      BY <2>1 DEF ScanInv, ToSet, IsInjective
    <2>6. TypeOK'
      BY <2>1, <2>4 DEF TypeOK, Call, Free
    <2>7. /\ req' = req /\ setup' = setup /\ seen' = seen /\ isUsed' = isUsed
          /\ changes' = changes /\ pc' = "look" /\ changes \in Nat
      BY <2>1, BoundAssumption DEF Call, TypeOK
    <2>8. Free' = Free /\ Looked' = Looked
      BY <2>7 DEF Free, Looked
    <2>9. Cardinality(ToSet(seen') \ Free') <= changes'
      <3>1. ToSet(seen') \ Free' = {}
        BY <2>5, <2>7
      <3>2. Cardinality(ToSet(seen') \ Free') = 0
        BY <3>1, FS_EmptySet
      <3> QED
        BY <2>7, <3>2
    <2>10. setup'.policy = "simple" => Len(seen') + Len(order') <= req'
      BY <2>2, <2>4, <2>5, <2>7
    <2>11. ScanInv'
      BY <2>2, <2>4, <2>5, <2>7, <2>8, <2>9, <2>10 DEF ScanInv
    <2> QED
      BY <2>6, <2>11
  <1> QED
    BY <1>1, <1>2

LEMMA LookKeeps ==
  ASSUME TypeOK, ScanInv, Look
  PROVE  TypeOK' /\ ScanInv'
  <1> DEFINE h == Head(order)
  <1>1. /\ pc = "look" /\ order # << >> /\ order' = Tail(order)
        /\ seen' = IF isUsed[h] THEN seen ELSE Append(seen, h)
        /\ pc' = pc /\ answer' = answer /\ Call
    BY DEF Look
  <1>2. order \in Seq(Dev) /\ seen \in Seq(Dev) /\ changes \in Nat
    BY BoundAssumption DEF TypeOK
  <1>3. /\ req \in 1 .. N
        /\ setup.policy = "simple" => Len(seen) + Len(order) <= req
        /\ IsInjective(seen) /\ IsInjective(order) /\ ToSet(seen) \intersect ToSet(order) = {}
        /\ Cardinality(ToSet(seen) \ Free) <= changes
        /\ changes = 0 =>
             ToSet(seen) \union (ToSet(order) \intersect Free) = Looked \intersect Free
    BY <1>1 DEF ScanInv
  <1>4. /\ h \in Dev /\ order' \in Seq(Dev) /\ Len(order') = Len(order) - 1
        /\ ToSet(order) = {h} \union ToSet(order')
        /\ IsInjective(order') /\ h \notin ToSet(order')
    BY <1>1, <1>2, <1>3, TailIs
  <1> HIDE DEF h
  <1>5. Len(seen) \in Nat /\ Len(order) \in Nat
    BY <1>2, InSeq
  <1>6. /\ seen' \in Seq(Dev) /\ Len(seen') <= Len(seen) + 1 /\ Len(seen') \in Nat
        /\ IsInjective(seen') /\ ToSet(seen') \intersect ToSet(order') = {}
        /\ ToSet(seen') \ Free = ToSet(seen) \ Free
        /\ ToSet(seen') \union (ToSet(order') \intersect Free)
             = ToSet(seen) \union (ToSet(order) \intersect Free)
    <2>1. CASE isUsed[h]
      <3>1. seen' = seen /\ h \notin Free
        BY <1>1, <2>1 DEF Free
      <3> QED
        BY <1>2, <1>3, <1>4, <1>5, <3>1
    <2>2. CASE ~isUsed[h]
      <3>1. seen' = Append(seen, h) /\ h \in Free /\ h \notin ToSet(seen)
        BY <1>1, <1>3, <1>4, <2>2 DEF Free
      <3>2. /\ seen' \in Seq(Dev) /\ Len(seen') = Len(seen) + 1
            /\ ToSet(seen') = ToSet(seen) \union {h} /\ IsInjective(seen')
        BY <1>2, <1>3, <1>4, <3>1, AppendIs
      <3> QED
        BY <1>3, <1>4, <1>5, <3>1, <3>2
    <2> QED
      BY <2>1, <2>2
  <1>7. /\ req' = req /\ setup' = setup /\ isUsed' = isUsed
        /\ changes' = changes /\ recovering' = recovering /\ Free' = Free /\ Looked' = Looked
    BY <1>1 DEF Call, Free, Looked
  <1>8. TypeOK'
    BY <1>1, <1>4, <1>6, <1>7 DEF TypeOK
  <1>9. setup'.policy = "simple" => Len(seen') + Len(order') <= req'
    BY <1>3, <1>4, <1>5, <1>6, <1>7
  <1>10. ScanInv'
    BY <1>1, <1>3, <1>4, <1>6, <1>7, <1>9 DEF ScanInv
  <1> QED
    BY <1>8, <1>10

\* a change of the worker takes at most one found device away
LEMMA ChangeKeeps ==
  ASSUME TypeOK, ScanInv, NEW d \in Dev,
         WorkerMarks(d) \/ WorkerFrees(d) \/ WorkerRecovers
  PROVE  TypeOK' /\ ScanInv'
  <1>1. /\ pc # "answered" /\ changes < MaxChanges /\ changes' = changes + 1
        /\ setup' = setup /\ pc' = pc /\ req' = req /\ order' = order /\ seen' = seen
        /\ answer' = answer
    BY DEF WorkerMarks, WorkerFrees, WorkerRecovers, Change
  <1>2. changes \in Nat /\ changes' \in 0 .. MaxChanges /\ changes' # 0
    BY <1>1, BoundAssumption DEF TypeOK
  <1>3. /\ isUsed' \in [Dev -> BOOLEAN]
        /\ recovering' \in Free' \union {None}
        /\ Free \ {d} \subseteq Free'
    <2>1. CASE WorkerMarks(d)
      BY <2>1 DEF TypeOK, WorkerMarks, Free
    <2>2. CASE WorkerFrees(d)
      BY <2>2 DEF TypeOK, WorkerFrees, Free
    <2>3. CASE WorkerRecovers
      BY <2>3 DEF TypeOK, WorkerRecovers, Free
    <2> QED
      BY <2>1, <2>2, <2>3
  <1>4. TypeOK'
    BY <1>1, <1>2, <1>3 DEF TypeOK
  <1>5. ASSUME Cardinality(ToSet(seen) \ Free) <= changes
        PROVE  Cardinality(ToSet(seen') \ Free') <= changes'
    <2> DEFINE A == ToSet(seen) \ Free
               B == ToSet(seen') \ Free'
    <2>1. B \in SUBSET (A \union {d})
      BY <1>1, <1>3
    <2>2. IsFiniteSet(A) /\ Cardinality(A) \in Nat
      <3>1. A \in SUBSET Dev
        BY ToSetBound DEF TypeOK
      <3> QED
        BY <3>1, PartsFinite
    <2>3. IsFiniteSet(A \union {d}) /\ Cardinality(A \union {d}) <= Cardinality(A) + 1
      <3> HIDE DEF A
      <3>1. /\ IsFiniteSet(A \union {d})
            /\ \/ Cardinality(A \union {d}) = Cardinality(A)
               \/ Cardinality(A \union {d}) = Cardinality(A) + 1
        <4>1. /\ IsFiniteSet(A \union {d})
              /\ Cardinality(A \union {d}) = IF d \in A THEN Cardinality(A) ELSE Cardinality(A) + 1
          BY <2>2, FS_AddElement, Zenon
        <4> QED
          BY <4>1, Zenon
      <3> QED
        BY <2>2, <3>1
    <2>4. IsFiniteSet(B) /\ Cardinality(B) \in Nat /\ Cardinality(B) <= Cardinality(A \union {d})
      <3> HIDE DEF A, B
      <3> QED
        BY <2>1, <2>3, FS_Subset, FS_CardinalityType
    <2>5. Cardinality(A \union {d}) \in Nat
      <3> HIDE DEF A
      <3> QED
        BY <2>3, FS_CardinalityType
    <2>6. Cardinality(A) <= changes
      BY <1>5
    <2> HIDE DEF A, B
    <2>7. Cardinality(B) <= changes'
      BY <1>1, <1>2, <2>2, <2>3, <2>4, <2>5, <2>6
    <2> QED
      BY <2>7 DEF B
  <1>6. ScanInv'
    BY <1>1, <1>2, <1>5 DEF ScanInv
  <1> QED
    BY <1>4, <1>6
-----------------------------------------------------------------------------
(* The answers.                                                             *)

Answers == [kind : {"none", "ids", "error", "panic"},
            ids : SUBSET (Dev \union {NoGPU}), score : Nat]

\* what is true of every answer
Sound(a) ==
  /\ a \in Answers
  /\ a.kind = "ids" => /\ Devices(a) \subseteq ToSet(seen)
                       /\ Cardinality(Devices(a)) <= req

\* what the runners have in common when they have looked at everything
LEMMA Found ==
  ASSUME TypeOK, ScanInv, pc = "look", order = << >>
  PROVE  /\ seen \in Seq(Dev) /\ IsInjective(seen) /\ req \in 1 .. N /\ req \in Nat /\ req # 0
         /\ ToSet(seen) \subseteq Dev /\ IsFiniteSet(ToSet(seen))
         /\ Cardinality(ToSet(seen)) = Len(seen) /\ Len(seen) \in Nat
         /\ setup.policy = "simple" => Len(seen) <= req
         /\ Cardinality(ToSet(seen) \ Free) <= changes
         /\ changes = 0 => ToSet(seen) = Looked \intersect Free
  <1>1. ToSet(order) = {} /\ Len(order) = 0
    BY DEF ToSet
  <1>2. /\ req \in 1 .. N /\ IsInjective(seen)
        /\ setup.policy = "simple" => Len(seen) + Len(order) <= req
        /\ Cardinality(ToSet(seen) \ Free) <= changes
        /\ changes = 0 =>
             ToSet(seen) \union (ToSet(order) \intersect Free) = Looked \intersect Free
    BY DEF ScanInv
  <1>3. seen \in Seq(Dev) /\ Len(seen) \in Nat
    BY InSeq DEF TypeOK
  <1>4. /\ ToSet(seen) \subseteq Dev /\ IsFiniteSet(ToSet(seen))
        /\ Cardinality(ToSet(seen)) = Len(seen)
    BY <1>2, <1>3, ToSetBound, DistinctDevices
  <1>5. req \in Nat /\ req # 0
    BY <1>2
  <1>6. changes = 0 => ToSet(seen) = Looked \intersect Free
    BY <1>1, <1>2
  <1>7. setup.policy = "simple" => Len(seen) <= req
    BY <1>1, <1>2, <1>3, <1>5
  <1> QED
    BY <1>2, <1>3, <1>4, <1>5, <1>6, <1>7

LEMMA SimpleSound ==
  ASSUME TypeOK, ScanInv, pc = "look", order = << >>, setup.policy = "simple"
  PROVE  /\ Sound(SimpleAnswer)
         /\ Undisturbed /\ Cardinality(Devices(SimpleAnswer)) < req =>
              \E d \in 0 .. req - 1 : isUsed[d]
  <1>1. /\ ToSet(seen) \subseteq Dev /\ IsFiniteSet(ToSet(seen))
        /\ Cardinality(ToSet(seen)) = Len(seen) /\ Len(seen) <= req
        /\ changes = 0 => ToSet(seen) = Looked \intersect Free
        /\ req \in 1 .. N
    BY Found
  <1>2. SimpleAnswer.ids = ToSet(seen) /\ SimpleAnswer \in Answers /\ SimpleAnswer.kind = "ids"
    BY <1>1 DEF SimpleAnswer, Answer, Answers
  <1>3. Devices(SimpleAnswer) = ToSet(seen)
    BY <1>1, <1>2, DevIs DEF Devices
  <1>4. Sound(SimpleAnswer)
    BY <1>1, <1>2, <1>3 DEF Sound
  <1>5. ASSUME Undisturbed, \A d \in 0 .. req - 1 : ~isUsed[d]
        PROVE  Cardinality(ToSet(seen)) = req
    <2>1. ToSet(seen) = 0 .. req - 1
      <3>1. 0 .. req - 1 \subseteq Dev
        BY <1>1, NAssumption DEF Dev
      <3>2. 0 .. req - 1 \subseteq Free
        BY <1>5, <3>1 DEF Free
      <3> QED
        BY <1>1, <1>5, <3>2 DEF Undisturbed, Looked
    <2>2. req \in Nat
      BY <1>1
    <2> QED
      BY <2>1, <2>2, Interval
  <1>6. req \in Int
    BY <1>1
  <1> QED
    BY <1>3, <1>4, <1>5, <1>6

LEMMA BestSound ==
  ASSUME TypeOK, ScanInv, pc = "look", order = << >>, setup.policy = "best_effort"
  PROVE  /\ Sound(BestAnswer)
         /\ Undisturbed /\ BestAnswer.kind = "ids" /\ Cardinality(Devices(BestAnswer)) < req =>
              /\ NoGPU \in BestAnswer.ids
              /\ Cardinality(Free) % req = Cardinality(Devices(BestAnswer))
  <1>1. /\ seen \in Seq(Dev) /\ IsInjective(seen) /\ req \in Nat /\ req # 0
        /\ ToSet(seen) \subseteq Dev /\ Cardinality(ToSet(seen)) = Len(seen)
        /\ changes = 0 => ToSet(seen) = Looked \intersect Free
    BY Found
  <1>2. CASE BestAnswer = Panic
    BY <1>2, ErrorTypeOK DEF Sound, Answers
  <1>3. CASE BestAnswer # Panic
    <2>1. Len(seen) >= req
      BY <1>1, <1>3, BestAnswerIs
    <2>2. PICK s \in SetsFrom(seen, req) : BestAnswer = Answer("ids", ToSet(s), SetScore(s))
      BY <1>1, <1>3, BestAnswerIs
    <2>3. /\ ToSet(s) \ {NoGPU} \subseteq ToSet(seen)
          /\ Cardinality(ToSet(s) \ {NoGPU}) <= req
          /\ Cardinality(ToSet(s) \ {NoGPU}) < req =>
               /\ NoGPU \in ToSet(s)
               /\ Len(seen) % req = Cardinality(ToSet(s) \ {NoGPU})
      BY <1>1, <2>1, SetsFromCount
    <2>4. SetScore(s) \in Nat
      BY SetScoreIs DEF SetsFrom
    <2>5. /\ BestAnswer.kind = "ids" /\ BestAnswer.ids = ToSet(s)
          /\ Devices(BestAnswer) = ToSet(s) \ {NoGPU}
      BY <2>2 DEF Answer, Devices
    <2>6. BestAnswer \in Answers
      <3>1. ToSet(s) \subseteq Dev \union {NoGPU}
        BY <1>1, <2>3
      <3> QED
        BY <2>2, <2>4, <3>1 DEF Answer, Answers
    <2>7. Undisturbed => Len(seen) = Cardinality(Free)
      <3>1. Undisturbed => ToSet(seen) = Free
        BY <1>1, FreeParts DEF Undisturbed, Looked
      <3> QED
        BY <1>1, <3>1
    <2> QED
      BY <2>3, <2>5, <2>6, <2>7 DEF Sound
  <1> QED
    BY <1>2, <1>3

\* the groups of a size have that size
LEMMA FittingIs ==
  ASSUME TypeOK, NEW n, NEW i \in Fitting(n)
  PROVE  /\ n \in DOMAIN setup.groups /\ n \in Nat /\ i \in DOMAIN setup.groups[n] /\ i \in Nat
         /\ setup.groups[n][i] \in SUBSET Int
         /\ setup.groups[n][i] \subseteq ToSet(seen)
         /\ Cardinality(setup.groups[n][i]) = n
  <1>1. n \in DOMAIN setup.groups /\ i \in DOMAIN setup.groups[n]
        /\ setup.groups[n][i] \subseteq ToSet(seen)
    BY DEF Fitting
  <1>2. /\ n \in Nat /\ setup.groups[n] \in Seq(SUBSET Int)
        /\ Cardinality(setup.groups[n][i]) = n
    BY <1>1, SetupAssumption DEF TypeOK
  <1>3. i \in Nat /\ setup.groups[n][i] \in SUBSET Int
    BY <1>1, <1>2, InSeq
  <1> QED
    BY <1>1, <1>2, <1>3

Sizes == {n \in Tried : Fitting(n) # {}}

LEMMA StaticAnswerIs ==
  ASSUME TypeOK, ScanInv, pc = "look", order = << >>
  PROVE  \/ Sizes = {} /\ StaticAnswer = Error
         \/ \E g \in SUBSET ToSet(seen) :
              /\ Cardinality(g) \in Sizes /\ \A n \in Sizes : Cardinality(g) <= n
              /\ g \in ToSet(setup.groups[Cardinality(g)])
              /\ StaticAnswer.kind = "ids" /\ StaticAnswer.score \in Nat
              /\ StaticAnswer = Answer("ids", StaticAnswer.ids, StaticAnswer.score)
              /\ StaticAnswer.ids \subseteq g /\ Cardinality(StaticAnswer.ids) = req
  <1>1. /\ req \in Nat /\ req # 0 /\ ToSet(seen) \subseteq Dev /\ IsFiniteSet(ToSet(seen))
        /\ Len(seen) \in Nat
    BY Found
  <1>2. CASE Sizes = {}
    BY <1>2 DEF StaticAnswer, Sizes
  <1>3. CASE Sizes # {}
    <2> DEFINE size == Min(Sizes)
               i    == Min(Fitting(size))
               g    == setup.groups[size][i]
               sc   == IF req \in Sizes THEN 20 ELSE 15
    <2>1. Sizes \in SUBSET Nat /\ \A n \in Sizes : n >= req
      BY <1>1 DEF Sizes, Tried
    <2>2. size \in Sizes /\ \A n \in Sizes : size <= n
      BY <1>3, <2>1, Smallest
    <2>3. Fitting(size) # {} /\ size \in Nat /\ size >= req
      BY <2>1, <2>2 DEF Sizes
    <2> HIDE DEF size
    <2>4. Fitting(size) \in SUBSET Nat
      BY FittingIs
    <2>5. i \in Fitting(size)
      BY <2>3, <2>4, Smallest
    <2> HIDE DEF i
    <2>6. /\ i \in DOMAIN setup.groups[size] /\ g \in SUBSET Int /\ g \subseteq ToSet(seen)
          /\ Cardinality(g) = size
      BY <2>5, FittingIs
    <2>7. StaticAnswer = Answer("ids", Lowest(g, req), sc)
      BY <1>3 DEF StaticAnswer, Sizes, size, i
    <2>8. IsFiniteSet(g)
      BY <1>1, <2>6, FS_Subset
    <2>9. g \in ToSet(setup.groups[size])
      BY <2>6 DEF ToSet
    <2> HIDE DEF g
    <2>10. req \in 0 .. Cardinality(g)
      BY <1>1, <2>3, <2>6
    <2>11. Lowest(g, req) \subseteq g /\ Cardinality(Lowest(g, req)) = req
      BY <2>6, <2>8, <2>10, LowestCount
    <2>12. /\ StaticAnswer.kind = "ids" /\ StaticAnswer.score = sc /\ sc \in Nat
           /\ StaticAnswer.ids = Lowest(g, req)
      BY <2>7 DEF Answer
    <2> QED
      BY <2>2, <2>6, <2>7, <2>9, <2>11, <2>12
  <1> QED
    BY <1>2, <1>3

LEMMA StaticSound ==
  ASSUME TypeOK, ScanInv, pc = "look", order = << >>, setup.policy = "static"
  PROVE  /\ Sound(StaticAnswer)
         /\ StaticAnswer.kind = "ids" => Cardinality(Devices(StaticAnswer)) = req
  <1>1. ToSet(seen) \subseteq Dev /\ req \in Nat
    BY Found
  <1>2. CASE StaticAnswer = Error
    BY <1>2, ErrorTypeOK DEF Sound, Answers
  <1>3. CASE StaticAnswer # Error
    <2>1. PICK g \in SUBSET ToSet(seen) :
                 /\ StaticAnswer.kind = "ids" /\ StaticAnswer.score \in Nat
                 /\ StaticAnswer = Answer("ids", StaticAnswer.ids, StaticAnswer.score)
                 /\ StaticAnswer.ids \subseteq g /\ Cardinality(StaticAnswer.ids) = req
      BY <1>3, StaticAnswerIs
    <2>2. StaticAnswer.ids \subseteq Dev /\ StaticAnswer.ids \subseteq ToSet(seen)
      BY <1>1, <2>1
    <2>3. Devices(StaticAnswer) = StaticAnswer.ids
      BY <2>2, DevIs DEF Devices
    <2>4. Answer("ids", StaticAnswer.ids, StaticAnswer.score) \in Answers
      BY <2>1, <2>2 DEF Answer, Answers
    <2> QED
      BY <1>1, <2>1, <2>2, <2>3, <2>4 DEF Sound
  <1> QED
    BY <1>2, <1>3

\* the groups that could be given
Groups == {g \in UNION {ToSet(setup.groups[n]) : n \in DOMAIN setup.groups} :
             g \subseteq Free /\ Cardinality(g) >= req}

\* the static runner, when nothing has changed
LEMMA StaticSmallest ==
  ASSUME TypeOK, ScanInv, pc = "look", order = << >>, setup.policy = "static", changes = 0
  PROVE  IF Groups = {} THEN StaticAnswer.kind = "error"
         ELSE /\ Cardinality(StaticAnswer.ids) = req
              /\ \E g \in Groups : /\ StaticAnswer.ids \subseteq g
                                   /\ \A h \in Groups : Cardinality(g) <= Cardinality(h)
  <1>1. /\ req \in Nat /\ req # 0 /\ ToSet(seen) \subseteq Dev /\ IsFiniteSet(ToSet(seen))
        /\ Len(seen) \in Nat /\ Cardinality(ToSet(seen)) = Len(seen)
        /\ changes = 0 => ToSet(seen) = Looked \intersect Free
    BY Found
  <1>2. ToSet(seen) = Free
    BY <1>1, FreeParts DEF Looked
  \* the sizes the runner tries are those of the Groups it could give
  <1>3. ASSUME NEW g \in Groups
        PROVE  Cardinality(g) \in Sizes
    <2>1. PICK n \in DOMAIN setup.groups : g \in ToSet(setup.groups[n])
      BY DEF Groups
    <2>2. PICK i \in DOMAIN setup.groups[n] : g = setup.groups[n][i]
      BY <2>1 DEF ToSet
    <2>3. Cardinality(g) = n /\ n \in Nat
      BY <2>2, SetupAssumption DEF TypeOK
    <2>4. i \in Fitting(n)
      BY <1>2, <2>2 DEF Fitting, Groups
    <2>5. n <= Len(seen)
      <3>1. g \in SUBSET ToSet(seen)
        BY <1>2 DEF Groups
      <3> QED
        BY <1>1, <2>3, <3>1, FS_Subset
    <2>6. n \in Tried
      BY <1>1, <2>3, <2>5 DEF Tried, Groups
    <2> QED
      BY <2>3, <2>4, <2>6 DEF Sizes
  <1>4. ASSUME NEW n \in Sizes
        PROVE  Groups # {}
    <2>1. PICK i \in Fitting(n) : TRUE
      BY DEF Sizes
    <2>2. /\ n \in DOMAIN setup.groups /\ n \in Nat /\ i \in DOMAIN setup.groups[n]
          /\ setup.groups[n][i] \subseteq ToSet(seen) /\ Cardinality(setup.groups[n][i]) = n
      BY FittingIs
    <2>3. n >= req
      BY <1>1, <2>2 DEF Sizes, Tried
    <2>4. setup.groups[n][i] \in ToSet(setup.groups[n])
      BY <2>2 DEF ToSet
    <2>5. setup.groups[n][i] \in Groups
      BY <1>2, <2>2, <2>3, <2>4 DEF Groups
    <2> QED
      BY <2>5
  <1>5. CASE Sizes = {}
    <2>1. Groups = {}
      <3> HIDE DEF Sizes
      <3> QED
        BY <1>3, <1>5
    <2>2. StaticAnswer.kind = "error"
      BY <1>5, StaticAnswerIs, ErrorTypeOK
    <2> QED
      BY <2>1, <2>2
  <1>6. CASE Sizes # {}
    <2>1. Groups # {}
      BY <1>4, <1>6
    <2>2. PICK g \in SUBSET ToSet(seen) :
                 /\ Cardinality(g) \in Sizes /\ \A n \in Sizes : Cardinality(g) <= n
                 /\ g \in ToSet(setup.groups[Cardinality(g)])
                 /\ StaticAnswer.ids \subseteq g /\ Cardinality(StaticAnswer.ids) = req
      BY <1>6, StaticAnswerIs
    <2>3. g \in Groups
      <3>1. Cardinality(g) \in Nat /\ Cardinality(g) >= req
        BY <1>1, <2>2 DEF Sizes, Tried
      <3>2. Cardinality(g) \in DOMAIN setup.groups
        BY <2>2 DEF Sizes, Fitting
      <3> QED
        BY <1>2, <2>2, <3>1, <3>2 DEF Groups
    <2>4. \A h \in Groups : Cardinality(g) <= Cardinality(h)
      BY <1>3, <2>2
    <2> QED
      BY <2>1, <2>2, <2>3, <2>4
  <1> QED
    BY <1>5, <1>6
-----------------------------------------------------------------------------
(* The theorems.                                                            *)

\* the answer of the policy in use
Chosen == CASE setup.policy = "simple"      -> SimpleAnswer
            [] setup.policy = "best_effort" -> BestAnswer
            [] setup.policy = "static"      -> StaticAnswer

\* where a call is answered
LEMMA AnsweredBy ==
  ASSUME TypeOK, [Next]_vars, pc' = "answered"
  PROVE  \/ UNCHANGED vars
         \/ pc = "count" /\ Finish(Error) /\ (req <= 0 \/ req > Cardinality(Free))
         \/ pc = "look" /\ order = << >> /\ Finish(Chosen)
  <1>1. CASE UNCHANGED vars
    BY <1>1
  <1>2. CASE Count
    BY <1>2 DEF Count
  <1>3. CASE Look
    BY <1>3 DEF Look
  <1>4. CASE Choose
    <2>1. pc = "look" /\ order = << >>
      BY <1>4 DEF Choose
    <2>2. Finish(Chosen)
      <3>1. CASE setup.policy = "simple" /\ Finish(SimpleAnswer)
        BY <3>1 DEF Chosen
      <3>2. CASE setup.policy = "best_effort" /\ Finish(BestAnswer)
        BY <3>2 DEF Chosen
      <3>3. CASE setup.policy = "static" /\ Finish(StaticAnswer)
        BY <3>3 DEF Chosen
      <3> QED
        BY <1>4, <3>1, <3>2, <3>3 DEF Choose
    <2> QED
      BY <2>1, <2>2
  <1>5. CASE WorkerRecovers \/ \E d \in Dev : WorkerMarks(d) \/ WorkerFrees(d)
    BY <1>5 DEF WorkerRecovers, WorkerMarks, WorkerFrees, Change
  <1> QED
    BY <1>1, <1>2, <1>3, <1>4, <1>5 DEF Next

LEMMA ChosenSound ==
  ASSUME TypeOK, ScanInv, pc = "look", order = << >>
  PROVE  Sound(Chosen)
  <1>1. setup.policy \in Names
    BY SetupAssumption DEF TypeOK
  <1>2. CASE setup.policy = "simple"
    BY <1>2, SimpleSound DEF Chosen
  <1>3. CASE setup.policy = "best_effort"
    BY <1>3, BestSound DEF Chosen
  <1>4. CASE setup.policy = "static"
    BY <1>4, StaticSound DEF Chosen
  <1> QED
    BY <1>1, <1>2, <1>3, <1>4 DEF Names

LEMMA StepKeeps ==
  ASSUME TypeOK, ScanInv, [Next]_vars
  PROVE  TypeOK' /\ ScanInv'
  <1>1. CASE UNCHANGED vars
    BY <1>1 DEF vars, TypeOK, ScanInv, Free, Looked
  <1>2. CASE Count
    BY <1>2, CountKeeps
  <1>3. CASE Look
    BY <1>3, LookKeeps
  <1>4. CASE Choose
    <2>1. pc' = "answered" /\ pc = "look" /\ order = << >>
      BY <1>4 DEF Choose, Finish
    <2>2. Finish(Chosen) /\ Sound(Chosen)
      <3>1. Finish(Chosen)
        <4>1. \/ UNCHANGED vars \/ pc = "count"
              \/ pc = "look" /\ order = << >> /\ Finish(Chosen)
          BY <2>1, AnsweredBy
        <4>2. ~UNCHANGED vars /\ pc # "count"
          BY <2>1 DEF vars
        <4> QED
          BY <4>1, <4>2
      <3> QED
        BY <2>1, <3>1, ChosenSound
    <2>3. TypeOK'
      BY <2>2 DEF TypeOK, Finish, Call, Sound, Answers, Free
    <2>4. ScanInv'
      BY <2>1 DEF ScanInv
    <2> QED
      BY <2>3, <2>4
  <1>5. CASE WorkerRecovers
    <2>1. 0 \in Dev
      BY NAssumption DEF Dev
    <2> QED
      BY <1>5, <2>1, ChangeKeeps
  <1>6. CASE \E d \in Dev : WorkerMarks(d) \/ WorkerFrees(d)
    BY <1>6, ChangeKeeps
  <1> QED
    BY <1>1, <1>2, <1>3, <1>4, <1>5, <1>6 DEF Next

(***************************************************************************)
(* Type correctness of an allocation, and with it that what the            *)
(* best-effort policy answers is always a set of devices and padding with  *)
(* a score (besteffort_policy.go:34-66).                                   *)
(***************************************************************************)
THEOREM TypeCorrect == Spec => []TypeOK
  <1>1. Init => TypeOK /\ ScanInv
    BY InitHolds
  <1>2. TypeOK /\ ScanInv /\ [Next]_vars => TypeOK' /\ ScanInv'
    BY StepKeeps
  <1> QED
    BY <1>1, <1>2, PTL DEF Spec

(***************************************************************************)
(* The scan of the devices, whatever the worker changes during it: the     *)
(* inductive invariant of an allocation (simple_policy.go:32,              *)
(* besteffort_policy.go:34-39, staticdgx_policy.go:52-58).                 *)
(***************************************************************************)
THEOREM ScanHolds == Spec => []ScanInv
  <1>1. Init => TypeOK /\ ScanInv
    BY InitHolds
  <1>2. TypeOK /\ ScanInv /\ [Next]_vars => TypeOK' /\ ScanInv'
    BY StepKeeps
  <1> QED
    BY <1>1, <1>2, PTL DEF Spec

LEMMA FreeAnswer ==
  ASSUME TypeOK, ScanInv, AnswersWhatWasFree, [Next]_vars
  PROVE  AnswersWhatWasFree'
  <1> SUFFICES ASSUME pc' = "answered", answer'.kind = "ids"
               PROVE  /\ Cardinality(Devices(answer')) <= req'
                      /\ Cardinality(Devices(answer') \ Free') <= changes'
    BY DEF AnswersWhatWasFree, Allocated, Devices
  <1>1. CASE UNCHANGED vars
    BY <1>1 DEF vars, AnswersWhatWasFree, Allocated, Devices, Free
  <1>2. CASE pc = "count" /\ Finish(Error)
    BY <1>2, ErrorTypeOK DEF Finish
  <1>3. CASE pc = "look" /\ order = << >> /\ Finish(Chosen)
    <2>1. /\ answer' = Chosen /\ isUsed' = isUsed /\ req' = req /\ changes' = changes
      BY <1>3 DEF Finish, Call
    <2>2. Free' = Free
      BY <2>1 DEF Free
    <2>3. Devices(Chosen) \subseteq ToSet(seen) /\ Cardinality(Devices(Chosen)) <= req
      BY <1>3, <2>1, ChosenSound DEF Sound
    <2>4. ToSet(seen) \subseteq Dev /\ Cardinality(ToSet(seen) \ Free) <= changes
      BY <1>3, Found
    <2> DEFINE A == ToSet(seen) \ Free
               B == Devices(Chosen) \ Free
    <2>5. A \in SUBSET Dev /\ B \in SUBSET A
      BY <2>3, <2>4
    <2>6. Cardinality(B) <= Cardinality(A) /\ Cardinality(A) \in Nat /\ Cardinality(B) \in Nat
      <3> HIDE DEF A, B
      <3> QED
        BY <2>5, PartsFinite, FS_Subset
    <2>7. changes \in Nat
      BY BoundAssumption DEF TypeOK
    <2>8. Cardinality(B) <= changes
      <3>1. Cardinality(A) <= changes
        BY <2>4
      <3> HIDE DEF A, B
      <3> QED
        BY <2>6, <2>7, <3>1
    <2>9. Devices(answer') = Devices(Chosen) /\ Devices(answer') \ Free' = B
      BY <2>1, <2>2
    <2> QED
      BY <2>1, <2>3, <2>8, <2>9
  <1> QED
    BY <1>1, <1>2, <1>3, AnsweredBy

(***************************************************************************)
(* What the bind call and the proofs about it take for granted of a        *)
(* policy (allocate.go:98): it answers no more devices than asked for, and *)
(* all but as many as the worker has changed were free, for every policy,  *)
(* node, topology and request.                                             *)
(***************************************************************************)
THEOREM AnswersFree == Spec => []AnswersWhatWasFree
  <1>1. Init => AnswersWhatWasFree
    BY DEF Init, AnswersWhatWasFree, Allocated
  <1>2. TypeOK /\ ScanInv /\ AnswersWhatWasFree /\ [Next]_vars => AnswersWhatWasFree'
    BY FreeAnswer
  <1> QED
    BY <1>1, <1>2, TypeCorrect, ScanHolds, PTL DEF Spec

LEMMA ShortAnswer ==
  ASSUME TypeOK, ScanInv, ShortOnlyWhen, [Next]_vars
  PROVE  ShortOnlyWhen'
  <1> SUFFICES ASSUME Allocated', Undisturbed', Cardinality(Devices(answer')) < req'
               PROVE  \/ setup'.policy = "simple" /\ \E d \in 0 .. req' - 1 : isUsed'[d]
                      \/ /\ setup'.policy = "best_effort" /\ NoGPU \in answer'.ids
                         /\ Cardinality(Free') % req' = Cardinality(Devices(answer'))
    BY DEF ShortOnlyWhen, Devices
  <1>1. CASE UNCHANGED vars
    BY <1>1 DEF vars, ShortOnlyWhen, Allocated, Undisturbed, Devices, Free
  <1>2. CASE pc = "count" /\ Finish(Error)
    BY <1>2, ErrorTypeOK DEF Finish, Allocated
  <1>3. CASE pc = "look" /\ order = << >> /\ Finish(Chosen)
    <2>1. /\ answer' = Chosen /\ isUsed' = isUsed /\ req' = req /\ changes' = changes
          /\ setup' = setup /\ recovering' = recovering
      BY <1>3 DEF Finish, Call
    <2>2. Free' = Free /\ Undisturbed
      BY <2>1 DEF Free, Undisturbed
    <2>3. Chosen.kind = "ids" /\ Cardinality(Devices(Chosen)) < req
          /\ Devices(answer') = Devices(Chosen)
      BY <2>1 DEF Allocated
    <2>4. setup.policy \in Names /\ req \in Nat
      BY <1>3, SetupAssumption, Found DEF TypeOK
    <2>5. CASE setup.policy = "simple"
      <3>1. Chosen = SimpleAnswer
        BY <2>5 DEF Chosen
      <3>2. \E d \in 0 .. req - 1 : isUsed[d]
        BY <1>3, <2>2, <2>3, <2>5, <3>1, SimpleSound
      <3> QED
        BY <2>1, <2>5, <3>2
    <2>6. CASE setup.policy = "best_effort"
      <3>1. Chosen = BestAnswer
        BY <2>6 DEF Chosen
      <3>2. /\ NoGPU \in Chosen.ids
            /\ Cardinality(Free) % req = Cardinality(Devices(Chosen))
        BY <1>3, <2>2, <2>3, <2>6, <3>1, BestSound
      <3> QED
        BY <2>1, <2>2, <2>3, <2>6, <3>2
    <2>7. CASE setup.policy = "static"
      <3>1. Chosen = StaticAnswer
        BY <2>7 DEF Chosen
      <3>2. Cardinality(Devices(Chosen)) = req
        BY <1>3, <2>3, <2>7, <3>1, StaticSound
      <3> QED
        BY <2>3, <2>4, <3>2
    <2> QED
      BY <2>4, <2>5, <2>6, <2>7 DEF Names
  <1> QED
    BY <1>1, <1>2, <1>3, AnsweredBy DEF Allocated

(***************************************************************************)
(* The two ways to an answer of fewer devices than asked for, for every    *)
(* node and request: a used device among the first ones (simple), and the  *)
(* padded set of the devices that are left over (best-effort).             *)
(***************************************************************************)
THEOREM ShortAnswers == Spec => []ShortOnlyWhen
  <1>1. Init => ShortOnlyWhen
    BY DEF Init, ShortOnlyWhen, Allocated
  <1>2. TypeOK /\ ScanInv /\ ShortOnlyWhen /\ [Next]_vars => ShortOnlyWhen'
    BY ShortAnswer
  <1> QED
    BY <1>1, <1>2, TypeCorrect, ScanHolds, PTL DEF Spec

\* the free devices can be counted
LEMMA FreeCount ==
  ASSUME TypeOK
  PROVE  IsFiniteSet(Free) /\ Cardinality(Free) \in Nat
  BY FreeParts, PartsFinite, FS_CardinalityType

LEMMA StaticAnswered ==
  ASSUME TypeOK, ScanInv, StaticTakesSmallestGroup, [Next]_vars
  PROVE  StaticTakesSmallestGroup'
  <1> SUFFICES ASSUME setup'.policy = "static", pc' = "answered", Undisturbed',
                      req' \in 1 .. Cardinality(Free')
               PROVE  IF Groups' = {} THEN answer'.kind = "error"
                      ELSE /\ Cardinality(answer'.ids) = req'
                           /\ \E g \in Groups' :
                                /\ answer'.ids \subseteq g
                                /\ \A h \in Groups' : Cardinality(g) <= Cardinality(h)
    BY DEF StaticTakesSmallestGroup, Groups
  <1>1. CASE UNCHANGED vars
    <2>1. /\ Free' = Free /\ setup' = setup /\ req' = req /\ answer' = answer
          /\ Undisturbed /\ pc = "answered"
      BY <1>1 DEF vars, Free, Undisturbed
    <2>2. Groups' = Groups
      BY <2>1 DEF Groups
    <2>3. IF Groups = {} THEN answer.kind = "error"
          ELSE /\ Cardinality(answer.ids) = req
               /\ \E g \in Groups : /\ answer.ids \subseteq g
                                    /\ \A h \in Groups : Cardinality(g) <= Cardinality(h)
      BY <2>1 DEF StaticTakesSmallestGroup, Groups
    <2> QED
      BY <2>1, <2>2, <2>3
  <1>2. CASE pc = "count" /\ Finish(Error) /\ (req <= 0 \/ req > Cardinality(Free))
    <2>1. Free' = Free /\ req' = req
      BY <1>2 DEF Finish, Call, Free
    <2>2. Cardinality(Free) \in Nat
      BY FreeCount
    <2> QED
      BY <1>2, <2>1, <2>2
  <1>3. CASE pc = "look" /\ order = << >> /\ Finish(Chosen)
    <2>1. /\ answer' = Chosen /\ isUsed' = isUsed /\ req' = req /\ changes' = changes
          /\ setup' = setup /\ recovering' = recovering
      BY <1>3 DEF Finish, Call
    <2>2. Free' = Free /\ changes = 0 /\ setup.policy = "static"
      BY <2>1 DEF Free, Undisturbed
    <2>3. Groups' = Groups /\ answer' = StaticAnswer
      BY <2>1, <2>2 DEF Chosen, Groups
    <2>4. IF Groups = {} THEN StaticAnswer.kind = "error"
          ELSE /\ Cardinality(StaticAnswer.ids) = req
               /\ \E g \in Groups : /\ StaticAnswer.ids \subseteq g
                                    /\ \A h \in Groups : Cardinality(g) <= Cardinality(h)
      BY <1>3, <2>2, StaticSmallest
    <2> QED
      BY <2>1, <2>3, <2>4
  <1> QED
    BY <1>1, <1>2, <1>3, AnsweredBy

(***************************************************************************)
(* The static policy breaks no larger group than it must, and refuses only *)
(* when there is no group to give, for every static-node.json in which the *)
(* groups of a size have that size (staticdgx_policy.go:57-98).            *)
(***************************************************************************)
THEOREM StaticTakesSmallest == Spec => []StaticTakesSmallestGroup
  <1>1. Init => StaticTakesSmallestGroup
    BY DEF Init, StaticTakesSmallestGroup
  <1>2. TypeOK /\ ScanInv /\ StaticTakesSmallestGroup /\ [Next]_vars
          => StaticTakesSmallestGroup'
    BY StaticAnswered
  <1> QED
    BY <1>1, <1>2, TypeCorrect, ScanHolds, PTL DEF Spec

\* what the best-effort runner shares out
LEMMA SharedOut ==
  ASSUME TypeOK, ScanInv
  PROVE  SharesOutDevices
  <1> SUFFICES ASSUME pc = "look", order = << >>, req \in 2 .. Len(seen),
                      NEW p \in ToSet(GPUPartitions(seen, req))
               PROVE  /\ \A i \in DOMAIN p :
                           Len(p[i]) = req /\ Whole(p[i], Padding(Len(seen), req))
                      /\ \A i, j \in DOMAIN p :
                           i # j => ToSet(p[i]) \intersect ToSet(p[j]) = {}
                      /\ (UNION {ToSet(p[i]) : i \in DOMAIN p}) \ {NoGPU} = ToSet(seen)
    BY DEF SharesOutDevices
  <1>1. /\ seen \in Seq(Dev) /\ IsInjective(seen) /\ req \in Nat /\ req # 0
        /\ ToSet(seen) \subseteq Dev /\ Len(seen) \in Nat
    BY Found
  <1>2. req > 1 /\ Len(seen) >= req
    BY <1>1
  <1>3. PICK k \in DOMAIN GPUPartitions(seen, req) : p = GPUPartitions(seen, req)[k]
    BY DEF ToSet
  <1>4. p \in PartitionsOf(Padded(seen, req), req, Padding(Len(seen), req))
    BY <1>1, <1>2, <1>3, GPUPartitionsAre
  <1>5. /\ \A i \in DOMAIN p : Len(p[i]) = req /\ Whole(p[i], Padding(Len(seen), req))
        /\ \A i, j \in DOMAIN p : i # j => ToSet(p[i]) \intersect ToSet(p[j]) = {}
        /\ UNION {ToSet(p[i]) : i \in DOMAIN p} = ToSet(Padded(seen, req))
    BY <1>4 DEF PartitionsOf
  <1>6. /\ ToSet(Padded(seen, req)) \subseteq ToSet(seen) \union {NoGPU}
        /\ ToSet(seen) \subseteq ToSet(Padded(seen, req))
    BY <1>1, <1>2, PaddedDivisible
  <1>7. NoGPU \notin ToSet(seen)
    BY <1>1, DevIs
  <1>8. ToSet(Padded(seen, req)) \ {NoGPU} = ToSet(seen)
    BY <1>6, <1>7
  <1> QED
    BY <1>5, <1>8

(***************************************************************************)
(* The padding does what besteffort_policy.go:90 says of it: for every     *)
(* number of devices and every size, each partition that                   *)
(* iterateGPUPartitions calls back with shares all the devices out in full *)
(* sets, and the rest never becomes too short.                             *)
(***************************************************************************)
THEOREM PartitionsShareOut == Spec => []SharesOutDevices
  <1>1. TypeOK /\ ScanInv => SharesOutDevices
    BY SharedOut
  <1> QED
    BY <1>1, TypeCorrect, ScanHolds, PTL
=============================================================================
