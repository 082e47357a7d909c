-------------------------- MODULE PartitionsProofs --------------------------
(***************************************************************************)
(* Proofs about the best-effort runner of Policies.tla:                    *)
(* iterateGPUPartitions calls back with every partition of the free        *)
(* devices, and with each of them once; what the runner answers is a best  *)
(* set of a best one, up to six sets; and it fails only where nothing is   *)
(* linked.                                                                 *)
(* PoliciesProofs shows what each of these partitions is.                  *)
(***************************************************************************)
EXTENDS PoliciesProofs

-----------------------------------------------------------------------------
(* Places and the sets of them.                                             *)

LEMMA PlacesIs ==
  ASSUME NEW l \in Nat, NEW n \in Nat, NEW t \in Places(l, n)
  PROVE  /\ t \in Seq(Nat) /\ Len(t) = n /\ DOMAIN t = 1 .. n
         /\ \A a \in 1 .. n : t[a] \in 1 .. l /\ t[a] \in Nat
         /\ \A a, b \in 1 .. n : a < b => t[a] < t[b]
         /\ \A a, b \in 1 .. n : t[a] = t[b] => a = b
         /\ ToSet(t) = {t[a] : a \in 1 .. n}
         /\ ToSet(t) \subseteq 1 .. l
         /\ IsFiniteSet(ToSet(t)) /\ Cardinality(ToSet(t)) = n
  <1>1. /\ t \in Seq(Nat) /\ Len(t) = n /\ DOMAIN t = 1 .. n
        /\ \A a \in 1 .. n : t[a] \in 1 .. l
        /\ \A a, b \in 1 .. n : a < b => t[a] < t[b]
    BY InSeq DEF Places
  <1>2. \A a \in 1 .. n : t[a] \in Nat
    BY <1>1
  <1>3. ASSUME NEW a \in 1 .. n, NEW b \in 1 .. n, t[a] = t[b]
        PROVE  a = b
    <2>1. (a < b => t[a] < t[b]) /\ (b < a => t[b] < t[a]) /\ t[a] \in Nat /\ t[b] \in Nat
      BY <1>1, <1>2
    <2> QED
      BY <1>3, <2>1
  <1>4. ToSet(t) = {t[a] : a \in 1 .. n} /\ ToSet(t) \subseteq 1 .. l
    BY <1>1 DEF ToSet
  <1>5. t \in Bijection(1 .. n, ToSet(t))
    <2>1. t \in [1 .. n -> ToSet(t)]
      <3>1. t \in [1 .. n -> Nat]
        BY <1>1
      <3> QED
        BY <1>4, <3>1
    <2>2. \A k \in ToSet(t) : \E a \in 1 .. n : t[a] = k
      BY <1>4
    <2> QED
      BY <1>3, <2>1, <2>2, BijectionIs
  <1>6. IsFiniteSet(1 .. n) /\ Cardinality(1 .. n) = n
    BY <1>1, SeqPlaces
  <1>7. IsFiniteSet(ToSet(t)) /\ Cardinality(ToSet(t)) = n
    BY <1>5, <1>6, FS_Bijection DEF ExistsBijection
  <1> QED
    BY <1>1, <1>2, <1>3, <1>4, <1>7

\* two lists of the same places are the same
LEMMA SamePlaces ==
  ASSUME NEW l \in Nat, NEW n \in Nat, NEW t \in Places(l, n), NEW u \in Places(l, n),
         ToSet(t) = ToSet(u)
  PROVE  t = u
  <1> DEFINE Good == {k \in Nat : k \in 1 .. n => t[k] = u[k]}
  <1>1. ASSUME NEW v \in Places(l, n), NEW w \in Places(l, n), ToSet(v) = ToSet(w),
               NEW k \in 1 .. n, \A j \in 1 .. n : j < k => v[j] = w[j]
        PROVE  w[k] <= v[k]
    <2>1. PICK b \in 1 .. n : v[k] = w[b]
      <3>1. v[k] \in ToSet(v)
        <4>1. ToSet(v) = {v[a] : a \in 1 .. n}
          BY PlacesIs
        <4> QED
          BY <4>1
      <3>2. ToSet(w) = {w[a] : a \in 1 .. n}
        BY PlacesIs
      <3> QED
        BY <1>1, <3>1, <3>2
    <2>2. ~(b < k)
      <3> SUFFICES ASSUME b < k
                   PROVE  FALSE
        OBVIOUS
      <3>1. v[b] = w[b]
        BY <1>1
      <3>2. b = k
        BY <2>1, <3>1, PlacesIs
      <3> QED
        BY <3>2
    <2>3. b = k \/ k < b
      BY <2>2
    <2>4. k < b => w[k] < w[b]
      BY PlacesIs
    <2>5. w[k] \in Nat /\ w[b] \in Nat
      BY PlacesIs
    <2> QED
      BY <2>1, <2>3, <2>4, <2>5
  <1>2. ASSUME NEW k \in Nat, \A j \in Nat : j < k => j \in Good
        PROVE  k \in Good
    <2> SUFFICES ASSUME k \in 1 .. n
                 PROVE  t[k] = u[k]
      OBVIOUS
    <2>1. \A j \in 1 .. n : j < k => t[j] = u[j] /\ u[j] = t[j]
      BY <1>2
    <2>2. u[k] <= t[k] /\ t[k] <= u[k]
      BY <1>1, <2>1
    <2>3. t[k] \in Nat /\ u[k] \in Nat
      BY PlacesIs
    <2> QED
      BY <2>2, <2>3
  <1>3. Good = Nat
    <2> HIDE DEF Good
    <2>1. Good \in SUBSET Nat
      BY DEF Good
    <2> QED
      BY <1>2, <2>1, Induction
  <1>4. \A k \in 1 .. n : t[k] = u[k]
    BY <1>3
  <1>5. t \in Seq(Nat) /\ u \in Seq(Nat) /\ Len(t) = n /\ Len(u) = n
    BY PlacesIs
  <1> QED
    BY <1>4, <1>5, SeqEqual

\* the last place can be left out or taken
LEMMA LastPlace ==
  ASSUME NEW k \in Nat, k # 0, NEW m \in Nat, NEW t \in Places(k - 1, m)
  PROVE  /\ t \in Places(k, m)
         /\ Append(t, k) \in Places(k, m + 1)
         /\ ToSet(Append(t, k)) = ToSet(t) \union {k}
  <1>1. k - 1 \in Nat
    OBVIOUS
  <1>2. /\ t \in Seq(Nat) /\ Len(t) = m /\ DOMAIN t = 1 .. m
        /\ \A a \in 1 .. m : t[a] \in 1 .. k - 1 /\ t[a] \in Nat
        /\ \A a, b \in 1 .. m : a < b => t[a] < t[b]
        /\ ToSet(t) = {t[a] : a \in 1 .. m}
    BY <1>1, PlacesIs
  <1>3. \A a \in 1 .. m : t[a] \in 1 .. k /\ t[a] < k
    BY <1>1, <1>2
  <1>4. t \in Places(k, m)
    BY <1>2, <1>3 DEF Places
  <1> DEFINE u == Append(t, k)
  <1>5. /\ u \in Seq(Nat) /\ Len(u) = m + 1
        /\ \A a \in 1 .. m : u[a] = t[a]
        /\ u[m + 1] = k
    BY <1>2, AppendProperties
  <1> HIDE DEF u
  <1>6. \A a \in 1 .. m + 1 : a = m + 1 \/ a \in 1 .. m
    OBVIOUS
  <1>7. m + 1 \in 1 .. m + 1 /\ k \in 1 .. k /\ \A a \in 1 .. m : a \in 1 .. m + 1
    OBVIOUS
  <1>8. \A a \in 1 .. m + 1 : u[a] \in 1 .. k
    BY <1>3, <1>5, <1>6, <1>7
  <1>9. ASSUME NEW a \in 1 .. m + 1, NEW b \in 1 .. m + 1, a < b
        PROVE  u[a] < u[b]
    <2>1. a \in 1 .. m
      BY <1>9
    <2>2. CASE b \in 1 .. m
      BY <1>2, <1>5, <1>9, <2>1, <2>2
    <2>3. CASE b = m + 1
      BY <1>3, <1>5, <2>1, <2>3
    <2> QED
      BY <1>6, <2>2, <2>3
  <1>10. u \in Places(k, m + 1)
    BY <1>5, <1>8, <1>9 DEF Places
  <1>11. ToSet(u) = ToSet(t) \union {k}
    <2>1. DOMAIN u = 1 .. m + 1
      BY <1>5, InSeq
    <2>2. ToSet(u) = {u[a] : a \in 1 .. m + 1}
      BY <2>1 DEF ToSet
    <2>3. \A a \in 1 .. m : u[a] \in ToSet(u) /\ u[a] = t[a]
      BY <1>5, <1>7, <2>2
    <2>4. k \in ToSet(u)
      BY <1>5, <1>7, <2>2
    <2>5. \A a \in 1 .. m + 1 : u[a] \in ToSet(t) \union {k}
      <3>1. \A a \in 1 .. m : u[a] \in ToSet(t)
        BY <1>2, <1>5
      <3> QED
        BY <1>5, <1>6, <3>1
    <2>6. ToSet(u) \subseteq ToSet(t) \union {k}
      BY <2>2, <2>5
    <2>7. ToSet(t) \subseteq ToSet(u)
      BY <1>2, <2>3
    <2> QED
      BY <2>4, <2>6, <2>7
  <1> QED
    BY <1>4, <1>10, <1>11 DEF u

\* every set of places has a list
LEMMA SetPlaces ==
  ASSUME NEW l \in Nat, NEW Q \in SUBSET (1 .. l)
  PROVE  /\ IsFiniteSet(Q) /\ Cardinality(Q) \in Nat
         /\ \E t \in Places(l, Cardinality(Q)) : ToSet(t) = Q
  <1> DEFINE Listed(k, P) == /\ IsFiniteSet(P) /\ Cardinality(P) \in Nat
                             /\ \E t \in Places(k, Cardinality(P)) : ToSet(t) = P
             Good == {k \in Nat : \A P \in SUBSET (1 .. k) : Listed(k, P)}
  <1>1. ASSUME NEW k \in Nat, \A j \in Nat : j < k => j \in Good
        PROVE  k \in Good
    <2> SUFFICES ASSUME NEW P \in SUBSET (1 .. k)
                 PROVE  Listed(k, P)
      OBVIOUS
    <2>1. CASE k = 0
      <3>1. P = {}
        BY <2>1
      <3>2. IsFiniteSet(P) /\ Cardinality(P) = 0
        BY <3>1, FS_EmptySet
      <3>3. << >> \in Seq(Nat) /\ Len(<< >>) = 0 /\ ToSet(<< >>) = {}
        BY DEF ToSet
      <3>4. << >> \in Places(k, 0)
        BY <2>1, <3>3 DEF Places
      <3> QED
        BY <3>1, <3>2, <3>3, <3>4
    <2>2. CASE k # 0
      <3>1. k - 1 \in Nat /\ k - 1 < k
        BY <2>2
      <3>2. PICK R : R = P \ {k}
        OBVIOUS
      <3>3. R \in SUBSET (1 .. k - 1)
        BY <3>1, <3>2
      <3>4. Listed(k - 1, R)
        BY <1>1, <3>1, <3>3
      <3>5. PICK m \in Nat : m = Cardinality(R)
        BY <3>4
      <3>6. PICK t \in Places(k - 1, m) : ToSet(t) = R
        BY <3>4, <3>5
      <3>7. /\ t \in Places(k, m)
            /\ Append(t, k) \in Places(k, m + 1)
            /\ ToSet(Append(t, k)) = R \union {k}
        BY <2>2, <3>6, LastPlace
      <3>8. CASE k \notin P
        <4>1. P = R
          BY <3>2, <3>8
        <4> QED
          BY <3>4, <3>5, <3>6, <3>7, <4>1
      <3>9. CASE k \in P
        <4>1. P = R \union {k} /\ k \notin R
          BY <3>2, <3>9
        <4>2. IsFiniteSet(P) /\ Cardinality(P) = m + 1
          BY <3>4, <3>5, <4>1, FS_AddElement
        <4> QED
          BY <3>7, <4>1, <4>2
      <3> QED
        BY <3>8, <3>9
    <2> QED
      BY <2>1, <2>2
  <1>2. Good = Nat
    <2> HIDE DEF Good
    <2>1. Good \in SUBSET Nat
      BY DEF Good
    <2> QED
      BY <1>1, <2>1, Induction
  <1> QED
    BY <1>2

-----------------------------------------------------------------------------
(* The sets with the first element, by their places.                        *)

\* the first place, and the places P of what follows it
WithFirst(P) == {1} \union {k + 1 : k \in P}

LEMMA WithFirstTells ==
  ASSUME NEW l \in Nat, NEW P \in SUBSET (1 .. l), NEW R \in SUBSET (1 .. l),
         WithFirst(P) = WithFirst(R)
  PROVE  P = R
  <1>1. ASSUME NEW D \in SUBSET (1 .. l), NEW k \in Nat
        PROVE  k \in D <=> k # 0 /\ k + 1 \in WithFirst(D)
    <2>1. \A j \in D : j \in Nat /\ j # 0
      OBVIOUS
    <2>2. k # 0 /\ k + 1 \in WithFirst(D) => \E j \in D : k + 1 = j + 1
      BY DEF WithFirst
    <2>3. k \in D => k + 1 \in WithFirst(D)
      BY DEF WithFirst
    <2> QED
      BY <2>1, <2>2, <2>3
  <1>2. \A k \in Nat : k \in P <=> k \in R
    BY <1>1
  <1>3. P \subseteq Nat /\ R \subseteq Nat
    OBVIOUS
  <1> QED
    BY <1>2, <1>3

\* the sets of n + 1 places that have the first place
HasFirst(l, n) == {Q \in SUBSET (1 .. l + 1) : 1 \in Q /\ Cardinality(Q) = n + 1}

LEMMA WithFirstAll ==
  ASSUME NEW l \in Nat, NEW n \in Nat, NEW Q \in HasFirst(l, n)
  PROVE  \E P \in SUBSET (1 .. l) : Cardinality(P) = n /\ WithFirst(P) = Q
  <1> DEFINE A == Q \ {1}
             P == {k - 1 : k \in A}
             f == [k \in A |-> k - 1]
  <1>1. Q \in SUBSET (1 .. l + 1) /\ 1 \in Q /\ Cardinality(Q) = n + 1
    BY DEF HasFirst
  <1>2. \A k \in A : k \in Nat /\ k - 1 \in 1 .. l /\ (k - 1) + 1 = k
    BY <1>1
  <1>3. P \in SUBSET (1 .. l)
    BY <1>2
  <1>4. IsFiniteSet(Q)
    <2>1. l + 1 \in Nat /\ Q \in SUBSET (1 .. l + 1)
      BY <1>1
    <2> QED
      BY <2>1, SetPlaces
  <1>5. IsFiniteSet(A) /\ Cardinality(A) = n
    <2>1. IsFiniteSet(Q \ {1}) /\ Cardinality(Q \ {1}) = Cardinality(Q) - 1
      BY <1>1, <1>4, FS_RemoveElement
    <2> QED
      BY <1>1, <2>1
  <1>6. f \in Bijection(A, P)
    <2>1. f \in [A -> P]
      OBVIOUS
    <2>2. \A a, b \in A : f[a] = f[b] => a = b
      BY <1>2
    <2>3. \A t \in P : \E a \in A : f[a] = t
      OBVIOUS
    <2> HIDE DEF f, P, A
    <2> QED
      BY <2>1, <2>2, <2>3, BijectionIs
  <1>7. Cardinality(P) = n
    <2> HIDE DEF f, P, A
    <2> QED
      BY <1>5, <1>6, FS_Bijection DEF ExistsBijection
  <1>8. WithFirst(P) = Q
    <2>1. {k + 1 : k \in P} = A
      BY <1>2
    <2> QED
      BY <1>1, <2>1 DEF WithFirst
  <1> QED
    BY <1>3, <1>7, <1>8

\* the first element of s and what follows it at the places t
LEMMA FirstPicks ==
  ASSUME NEW s \in Seq(Int), s # << >>, NEW n \in Nat, NEW t \in Places(Len(s) - 1, n)
  PROVE  Picks(<<Head(s)>> \o [j \in 1 .. n |-> Tail(s)[t[j]]], s, WithFirst(ToSet(t)))
  <1>1. /\ Len(s) \in Nat /\ Len(s) # 0 /\ Len(s) - 1 \in Nat /\ DOMAIN s = 1 .. Len(s)
        /\ Head(s) = s[1] /\ s[1] \in Int
        /\ Tail(s) \in Seq(Int) /\ Len(Tail(s)) = Len(s) - 1
        /\ \A k \in 1 .. Len(s) - 1 : Tail(s)[k] = s[k + 1]
    <2>1. Len(s) \in Nat /\ Len(s) # 0 /\ DOMAIN s = 1 .. Len(s)
      BY InSeq, EmptySeq
    <2>2. Tail(s) \in Seq(Int) /\ Len(Tail(s)) = Len(s) - 1
          /\ \A k \in 1 .. Len(s) - 1 : Tail(s)[k] = s[k + 1]
      BY <2>1, HeadTailProperties
    <2>3. Head(s) = s[1] /\ s[1] \in Int
      BY <2>1
    <2> QED
      BY <2>1, <2>2, <2>3
  <1>2. /\ DOMAIN t = 1 .. n
        /\ \A a \in 1 .. n : t[a] \in 1 .. Len(s) - 1 /\ t[a] \in Nat
        /\ \A a, b \in 1 .. n : t[a] = t[b] => a = b
        /\ ToSet(t) = {t[a] : a \in 1 .. n}
    BY <1>1, PlacesIs
  <1> DEFINE r == [j \in 1 .. n |-> Tail(s)[t[j]]]
             u == <<Head(s)>> \o r
             e == [j \in 1 .. n + 1 |-> IF j = 1 THEN 1 ELSE t[j - 1] + 1]
             Q == WithFirst(ToSet(t))
  <1>3. r \in Seq(Int) /\ Len(r) = n
    <2>1. \A j \in 1 .. n : Tail(s)[t[j]] \in Int
      BY <1>1, <1>2, InSeq
    <2>2. r \in [1 .. n -> Int]
      BY <2>1
    <2>3. r \in Seq(Int)
      <3> HIDE DEF r
      <3> QED
        BY <2>2, FunctionIsSeq
    <2>4. DOMAIN r = 1 .. n
      OBVIOUS
    <2> HIDE DEF r
    <2> QED
      BY <2>3, <2>4, InSeq
  <1>4. /\ DOMAIN u = 1 .. n + 1 /\ u[1] = Head(s)
        /\ \A j \in 1 .. n : u[j + 1] = r[j]
    <2> HIDE DEF r
    <2> QED
      BY <1>1, <1>3, Consed
  <1>5. \A j \in 1 .. n + 1 : j # 1 => j - 1 \in 1 .. n /\ (j - 1) + 1 = j
    OBVIOUS
  <1>6. Q = {1} \union {t[a] + 1 : a \in 1 .. n}
    BY <1>2 DEF WithFirst
  <1>7. e \in [1 .. n + 1 -> Q]
    BY <1>5, <1>6
  <1>8. ASSUME NEW a \in 1 .. n + 1, NEW b \in 1 .. n + 1, e[a] = e[b]
        PROVE  a = b
    <2>1. \A j \in 1 .. n : t[j] + 1 # 1
      BY <1>2
    <2>2. a # 1 => e[a] = t[a - 1] + 1 /\ e[a] # 1 /\ a - 1 \in 1 .. n /\ t[a - 1] \in Nat
      BY <1>2, <1>5, <2>1
    <2>3. b # 1 => e[b] = t[b - 1] + 1 /\ e[b] # 1 /\ b - 1 \in 1 .. n /\ t[b - 1] \in Nat
      BY <1>2, <1>5, <2>1
    <2>4. (a = 1 => e[a] = 1) /\ (b = 1 => e[b] = 1)
      OBVIOUS
    <2>5. CASE a # 1 /\ b # 1
      <3>1. t[a - 1] = t[b - 1]
        <4>1. t[a - 1] + 1 = t[b - 1] + 1
          BY <1>8, <2>2, <2>3, <2>5, Zenon
        <4>2. t[a - 1] \in Nat /\ t[b - 1] \in Nat
          BY <2>2, <2>3, <2>5, Zenon
        <4> QED
          BY <4>1, <4>2
      <3>2. a - 1 = b - 1
        BY <1>2, <2>2, <2>3, <2>5, <3>1
      <3> QED
        BY <3>2
    <2> QED
      BY <1>8, <2>2, <2>3, <2>4, <2>5
  <1>9. \A k \in Q : \E a \in 1 .. n + 1 : e[a] = k
    <2>1. 1 \in 1 .. n + 1 /\ e[1] = 1
      OBVIOUS
    <2>2. \A a \in 1 .. n : a + 1 \in 1 .. n + 1 /\ e[a + 1] = t[a] + 1
      OBVIOUS
    <2> HIDE DEF e
    <2> QED
      BY <1>6, <2>1, <2>2
  <1>10. Q \subseteq DOMAIN s
    <2>1. 1 \in DOMAIN s
      BY <1>1
    <2>2. ASSUME NEW a \in 1 .. n
          PROVE  t[a] + 1 \in DOMAIN s
      <3>1. t[a] \in 1 .. Len(s) - 1
        BY <1>2
      <3> QED
        BY <1>1, <3>1
    <2> HIDE DEF Q
    <2> QED
      BY <1>6, <2>1, <2>2
  <1>11. \A j \in 1 .. n + 1 : u[j] = s[e[j]]
    <2> SUFFICES ASSUME NEW j \in 1 .. n + 1
                 PROVE  u[j] = s[e[j]]
      OBVIOUS
    <2>1. CASE j = 1
      BY <1>1, <1>4, <2>1
    <2>2. CASE j # 1
      <3>1. j - 1 \in 1 .. n /\ (j - 1) + 1 = j
        BY <1>5, <2>2
      <3>2. u[j] = r[j - 1]
        <4> HIDE DEF u, r
        <4> QED
          BY <1>4, <3>1
      <3>3. r[j - 1] = Tail(s)[t[j - 1]]
        BY <3>1
      <3>4. Tail(s)[t[j - 1]] = s[t[j - 1] + 1]
        BY <1>1, <1>2, <3>1
      <3>5. e[j] = t[j - 1] + 1
        BY <2>2
      <3> QED
        BY <3>2, <3>3, <3>4, <3>5
    <2> QED
      BY <2>1, <2>2
  <1>12. e \in Bijection(1 .. n + 1, Q)
    <2> HIDE DEF e, Q
    <2> QED
      BY <1>7, <1>8, <1>9, BijectionIs
  <1> HIDE DEF e, u, r, Q
  <1>13. Picks(u, s, Q)
    BY <1>4, <1>10, <1>11, <1>12 DEF Picks
  <1> QED
    BY <1>13 DEF u, r, Q

\* q numbers the sets of size elements with the first one as iterateGPUSets does
SetNumbers(q, s, size) ==
  LET sets == GPUSets(Tail(s), size - 1)
  IN  /\ \A i \in DOMAIN sets : 1 \in q[i] /\ Picks(SetAt(s, size, i), s, q[i])
      /\ \A i, j \in DOMAIN sets : q[i] = q[j] => i = j
      /\ \A Q \in SUBSET DOMAIN s :
           1 \in Q /\ Cardinality(Q) = size => \E i \in DOMAIN sets : q[i] = Q

LEMMA SetsAt ==
  ASSUME NEW size \in Nat, size # 0, NEW s \in Seq(Int), Len(s) > size
  PROVE  \E q : SetNumbers(q, s, size)
  <1>1. /\ Len(s) \in Nat /\ DOMAIN s = 1 .. Len(s) /\ s # << >>
        /\ Tail(s) \in Seq(Int) /\ Len(Tail(s)) = Len(s) - 1 /\ Len(s) - 1 \in Nat
        /\ size - 1 \in Nat
    <2>1. Len(s) \in Nat /\ DOMAIN s = 1 .. Len(s)
      BY InSeq
    <2>2. s # << >>
      BY <2>1, EmptySeq
    <2>3. Tail(s) \in Seq(Int) /\ Len(Tail(s)) = Len(s) - 1
      BY <2>1, <2>2, HeadTailProperties
    <2> QED
      BY <2>1, <2>2, <2>3
  <1>2. PICK n \in Nat : n = size - 1
    BY <1>1
  <1>3. PICK l \in Nat : l = Len(s) - 1
    BY <1>1
  <1>4. PICK T \in Seq(Int) : T = Tail(s)
    BY <1>1
  <1>5. PICK places \in AllPlaces(l, n) :
          GPUSets(T, n) = [i \in DOMAIN places |-> [j \in 1 .. n |-> T[places[i][j]]]]
    <2>1. Len(T) = l
      BY <1>1, <1>3, <1>4
    <2> QED
      BY <2>1, GPUSetsPlaces
  <1>6. /\ places \in Seq(Places(l, n)) /\ ToSet(places) = Places(l, n)
        /\ \A i, j \in DOMAIN places : places[i] = places[j] => i = j
        /\ \A i \in DOMAIN places : places[i] \in Places(l, n)
    <2>1. places \in Seq(Places(l, n)) /\ ToSet(places) = Places(l, n) /\ IsInjective(places)
      BY DEF AllPlaces
    <2>2. \A i \in DOMAIN places : places[i] \in Places(l, n)
      BY <2>1, InSeq
    <2> QED
      BY <2>1, <2>2 DEF IsInjective
  <1> DEFINE q == [i \in DOMAIN places |-> WithFirst(ToSet(places[i]))]
  <1>7. ASSUME NEW i \in DOMAIN places
        PROVE  1 \in q[i] /\ Picks(SetAt(s, size, i), s, q[i])
    <2>1. PICK t \in Places(Len(s) - 1, n) : t = places[i]
      BY <1>3, <1>6
    <2>2. GPUSets(Tail(s), size - 1)[i] = [j \in 1 .. n |-> Tail(s)[t[j]]]
      <3>1. GPUSets(Tail(s), size - 1) = GPUSets(T, n)
        BY <1>2, <1>4, Zenon
      <3>2. GPUSets(T, n)[i] = [j \in 1 .. n |-> T[places[i][j]]]
        BY <1>5, Zenon
      <3> QED
        BY <1>4, <2>1, <3>1, <3>2, Zenon
    <2>3. SetAt(s, size, i) = <<Head(s)>> \o [j \in 1 .. n |-> Tail(s)[t[j]]]
      BY <2>2 DEF SetAt
    <2>4. Picks(SetAt(s, size, i), s, WithFirst(ToSet(t)))
      BY <1>1, <2>3, FirstPicks
    <2>5. q[i] = WithFirst(ToSet(t))
      BY <2>1
    <2> QED
      BY <2>4, <2>5 DEF WithFirst
  <1>8. ASSUME NEW i \in DOMAIN places, NEW j \in DOMAIN places, q[i] = q[j]
        PROVE  i = j
    <2>1. PICK t \in Places(l, n) : t = places[i]
      BY <1>6
    <2>2. PICK u \in Places(l, n) : u = places[j]
      BY <1>6
    <2>3. WithFirst(ToSet(t)) = WithFirst(ToSet(u))
      BY <1>8, <2>1, <2>2
    <2>4. ToSet(t) \in SUBSET (1 .. l) /\ ToSet(u) \in SUBSET (1 .. l)
      BY PlacesIs
    <2>5. ToSet(t) = ToSet(u)
      BY <2>3, <2>4, WithFirstTells
    <2>6. t = u
      BY <2>5, SamePlaces
    <2> QED
      BY <1>6, <2>1, <2>2, <2>6
  <1>9. ASSUME NEW Q \in SUBSET DOMAIN s, 1 \in Q, Cardinality(Q) = size
        PROVE  \E i \in DOMAIN places : q[i] = Q
    <2>1. Q \in SUBSET (1 .. l + 1) /\ Cardinality(Q) = n + 1
      BY <1>1, <1>2, <1>3, <1>9
    <2>2. PICK P \in SUBSET (1 .. l) : Cardinality(P) = n /\ WithFirst(P) = Q
      <3>1. Q \in HasFirst(l, n)
        BY <1>9, <2>1 DEF HasFirst
      <3> QED
        BY <3>1, WithFirstAll
    <2>3. PICK t \in Places(l, n) : ToSet(t) = P
      BY <2>2, SetPlaces
    <2>4. PICK i \in DOMAIN places : places[i] = t
      BY <1>6 DEF ToSet
    <2>5. q[i] = Q
      BY <2>2, <2>3, <2>4
    <2> QED
      BY <2>5
  <1>10. DOMAIN GPUSets(Tail(s), size - 1) = DOMAIN places
    BY <1>2, <1>4, <1>5
  <1> HIDE DEF q
  <1>11. SetNumbers(q, s, size)
    BY <1>7, <1>8, <1>9, <1>10 DEF SetNumbers
  <1> QED
    BY <1>11

-----------------------------------------------------------------------------
(* The devices of a set.                                                    *)

Real(s) == ToSet(s) \ {NoGPU}

LEMMA RealCount ==
  ASSUME NEW s \in Seq(Int), Distinct(s), NEW P \in SUBSET DOMAIN s
  PROVE  LET R == {s[k] : k \in P} \ {NoGPU}
         IN  /\ IsFiniteSet(P) /\ IsFiniteSet(PaddingAt(s, P)) /\ IsFiniteSet(R)
             /\ Cardinality(R) = Cardinality(P) - Cardinality(PaddingAt(s, P))
             /\ Cardinality(P) \in Nat /\ Cardinality(PaddingAt(s, P)) \in Nat
             /\ Cardinality(R) \in Nat
  <1> DEFINE R == {s[k] : k \in P} \ {NoGPU}
             Z == PaddingAt(s, P)
             D == P \ Z
             f == [k \in D |-> s[k]]
  <1>1. IsFiniteSet(P)
    BY SeqPlaces, FS_Subset
  <1>2. Z \subseteq P
    BY DEF PaddingAt
  <1>3. IsFiniteSet(Z)
    BY <1>1, <1>2, FS_Subset
  <1>4. IsFiniteSet(D) /\ Cardinality(D) = Cardinality(P) - Cardinality(Z)
    <2>1. P \intersect Z = Z
      BY <1>2
    <2> HIDE DEF Z
    <2>2. IsFiniteSet(P \ Z) /\ Cardinality(P \ Z) = Cardinality(P) - Cardinality(P \intersect Z)
      BY <1>1, FS_Difference
    <2> QED
      BY <2>1, <2>2
  <1>5. \A k \in D : s[k] # NoGPU /\ k \in DOMAIN s
    BY DEF PaddingAt
  <1>6. f \in Bijection(D, R)
    <2>1. f \in [D -> R]
      BY <1>5
    <2>2. \A a, b \in D : f[a] = f[b] => a = b
      BY <1>5 DEF Distinct
    <2>3. \A t \in R : \E a \in D : f[a] = t
      BY DEF PaddingAt
    <2> HIDE DEF f, D, R
    <2> QED
      BY <2>1, <2>2, <2>3, BijectionIs
  <1> HIDE DEF f, D, R, Z
  <1>7. IsFiniteSet(R) /\ Cardinality(R) = Cardinality(D)
    BY <1>4, <1>6, FS_Bijection DEF ExistsBijection
  <1>8. Cardinality(P) \in Nat /\ Cardinality(Z) \in Nat /\ Cardinality(R) \in Nat
    BY <1>1, <1>3, <1>7, FS_CardinalityType
  <1> QED
    BY <1>1, <1>3, <1>4, <1>7, <1>8 DEF R, Z

\* a set of size elements, with all of the padding or none of it
LEMMA BlockIs ==
  ASSUME NEW size \in Nat, NEW padding \in Nat, padding < size,
         NEW t \in Seq(Int), Len(t) = size, Distinct(t), Whole(t, padding)
  PROVE  /\ IsFiniteSet(Real(t)) /\ Real(t) # {}
         /\ NoGPU \notin ToSet(t) => Cardinality(Real(t)) = size
         /\ NoGPU \in ToSet(t) => Cardinality(Real(t)) = size - padding /\ padding # 0
  <1> DEFINE Z == PaddingAt(t, DOMAIN t)
  <1>1. /\ IsFiniteSet(Real(t)) /\ IsFiniteSet(Z) /\ Cardinality(Z) \in Nat
        /\ Cardinality(Real(t)) = size - Cardinality(Z) /\ Cardinality(Real(t)) \in Nat
    <2>1. ToSet(t) = {t[k] : k \in DOMAIN t}
      BY DEF ToSet
    <2>2. Cardinality(DOMAIN t) = size
      BY SeqPlaces
    <2>3. DOMAIN t \in SUBSET DOMAIN t
      OBVIOUS
    <2>4. LET R == {t[k] : k \in DOMAIN t} \ {NoGPU}
          IN  /\ IsFiniteSet(Z) /\ IsFiniteSet(R)
              /\ Cardinality(R) = Cardinality(DOMAIN t) - Cardinality(Z)
              /\ Cardinality(Z) \in Nat /\ Cardinality(R) \in Nat
      BY <2>3, RealCount
    <2> QED
      BY <2>1, <2>2, <2>4 DEF Real
  <1>2. Cardinality(Z) \in {0, padding}
    BY DEF Whole, CountPadding, PaddingAt
  <1>3. NoGPU \in ToSet(t) <=> Z # {}
    BY DEF ToSet, PaddingAt
  <1>4. Z = {} <=> Cardinality(Z) = 0
    BY <1>1, FS_EmptySet
  <1>5. Real(t) # {}
    <2>1. Cardinality(Real(t)) # 0
      BY <1>1, <1>2
    <2> QED
      BY <2>1, FS_EmptySet
  <1> HIDE DEF Z
  <1> QED
    BY <1>1, <1>2, <1>3, <1>4, <1>5
-----------------------------------------------------------------------------
(* What iterateGPUPartitions shares out, as sets of devices.                *)

BlocksOf(p) == {Real(p[i]) : i \in DOMAIN p}

\* the partitions of the devices of s into sets of size elements, one of them
\* smaller if s has padding
Sharing(s, size, padding) ==
  {P \in SUBSET SUBSET Real(s) :
     /\ UNION P = Real(s)
     /\ \A B, C \in P : B # C => B \intersect C = {}
     /\ \A B \in P : /\ IsFiniteSet(B) /\ B # {}
                     /\ Cardinality(B) \in {size, size - padding}
     /\ \A B, C \in P : Cardinality(B) # size /\ Cardinality(C) # size => B = C
     /\ NoGPU \in ToSet(s) <=> \E B \in P : Cardinality(B) # size}

LEMMA Shared ==
  ASSUME NEW size \in Nat, NEW padding \in Nat, padding < size, NEW s \in Seq(Int),
         NEW p \in PartitionsOf(s, size, padding)
  PROVE  BlocksOf(p) \in Sharing(s, size, padding)
  <1>1. /\ p \in Seq(Seq(Int))
        /\ \A i \in DOMAIN p : /\ p[i] \in Seq(Int) /\ Len(p[i]) = size
                               /\ Distinct(p[i]) /\ Whole(p[i], padding)
        /\ \A i, j \in DOMAIN p : i # j => ToSet(p[i]) \intersect ToSet(p[j]) = {}
        /\ UNION {ToSet(p[i]) : i \in DOMAIN p} = ToSet(s)
    <2>1. p \in Seq(Seq(Int))
      BY DEF PartitionsOf
    <2>2. \A i \in DOMAIN p : p[i] \in Seq(Int)
      BY <2>1, InSeq
    <2> QED
      BY <2>1, <2>2 DEF PartitionsOf
  <1>2. ASSUME NEW i \in DOMAIN p
        PROVE  /\ IsFiniteSet(Real(p[i])) /\ Real(p[i]) # {} /\ Real(p[i]) \subseteq ToSet(p[i])
               /\ Cardinality(Real(p[i])) \in {size, size - padding}
               /\ NoGPU \in ToSet(p[i]) <=> Cardinality(Real(p[i])) # size
    <2> DEFINE t == p[i]
    <2>1. t \in Seq(Int) /\ Len(t) = size /\ Distinct(t) /\ Whole(t, padding)
      BY <1>1
    <2> HIDE DEF t
    <2>2. /\ IsFiniteSet(Real(t)) /\ Real(t) # {}
          /\ NoGPU \notin ToSet(t) => Cardinality(Real(t)) = size
          /\ NoGPU \in ToSet(t) => Cardinality(Real(t)) = size - padding /\ padding # 0
      BY <2>1, BlockIs
    <2>3. Real(t) \subseteq ToSet(t)
      BY DEF Real
    <2>4. padding # 0 => size - padding # size
      OBVIOUS
    <2> QED
      BY <2>2, <2>3, <2>4 DEF t
  <1> DEFINE P == BlocksOf(p)
  <1>3. P \in SUBSET SUBSET Real(s) /\ UNION P = Real(s)
    <2>1. \A i \in DOMAIN p : Real(p[i]) \subseteq Real(s)
      BY <1>1 DEF Real
    <2>2. \A d \in Real(s) : \E i \in DOMAIN p : d \in Real(p[i])
      BY <1>1 DEF Real
    <2> QED
      BY <2>1, <2>2 DEF BlocksOf
  <1>4. ASSUME NEW B \in P, NEW C \in P, B # C
        PROVE  B \intersect C = {}
    <2>1. PICK i \in DOMAIN p : B = Real(p[i])
      BY DEF BlocksOf
    <2>2. PICK j \in DOMAIN p : C = Real(p[j])
      BY DEF BlocksOf
    <2>3. ToSet(p[i]) \intersect ToSet(p[j]) = {}
      BY <1>1, <1>4, <2>1, <2>2
    <2> QED
      BY <1>2, <2>1, <2>2, <2>3
  <1>5. \A B \in P : /\ IsFiniteSet(B) /\ B # {}
                     /\ Cardinality(B) \in {size, size - padding}
    BY <1>2 DEF BlocksOf
  <1>6. ASSUME NEW B \in P, NEW C \in P, Cardinality(B) # size, Cardinality(C) # size
        PROVE  B = C
    <2>1. PICK i \in DOMAIN p : B = Real(p[i])
      BY DEF BlocksOf
    <2>2. PICK j \in DOMAIN p : C = Real(p[j])
      BY DEF BlocksOf
    <2>3. NoGPU \in ToSet(p[i]) /\ NoGPU \in ToSet(p[j])
      BY <1>2, <1>6, <2>1, <2>2
    <2>4. i = j
      BY <1>1, <2>3
    <2> QED
      BY <2>1, <2>2, <2>4
  <1>7. NoGPU \in ToSet(s) <=> \E B \in P : Cardinality(B) # size
    <2>1. NoGPU \in ToSet(s) <=> \E i \in DOMAIN p : NoGPU \in ToSet(p[i])
      BY <1>1
    <2>2. (\E B \in P : Cardinality(B) # size)
            <=> \E i \in DOMAIN p : Cardinality(Real(p[i])) # size
      BY DEF BlocksOf
    <2> QED
      BY <1>2, <2>1, <2>2
  <1> HIDE DEF P
  <1>8. P \in Sharing(s, size, padding)
    BY <1>3, <1>4, <1>5, <1>6, <1>7 DEF Sharing
  <1> QED
    BY <1>8 DEF P

-----------------------------------------------------------------------------
(* One call of iterate.                                                     *)

\* what iterateGPUPartitions is called with: the padding comes last
Ready(size, padding) == {s \in Divisible(size, padding) : Trailing(s)}

LEMMA ReadyIs ==
  ASSUME NEW size \in Nat, NEW padding \in Nat, padding < size, NEW s \in Ready(size, padding)
  PROVE  /\ s \in Seq(Int) /\ s \in Divisible(size, padding)
         /\ Distinct(s) /\ Whole(s, padding) /\ Trailing(s)
         /\ Len(s) \in Nat /\ DOMAIN s = 1 .. Len(s) /\ Len(s) >= size
         /\ Len(s) > size => /\ 1 \in DOMAIN s /\ s[1] # NoGPU /\ Head(s) = s[1]
                             /\ s[1] \in Real(s)
  <1>1. /\ s \in Seq(Int) /\ s \in Divisible(size, padding)
        /\ Distinct(s) /\ Whole(s, padding) /\ Trailing(s)
    BY DEF Ready, Divisible
  <1>2. Len(s) \in Nat /\ DOMAIN s = 1 .. Len(s)
    BY <1>1, InSeq
  <1>3. Len(s) >= size
    <2>1. PICK k \in Nat : Len(s) = (k + 1) * size
      BY DEF Ready, Divisible
    <2>2. (k + 1) * size = k * size + size /\ k * size >= 0
      OBVIOUS
    <2> QED
      BY <2>1, <2>2
  <1>4. ASSUME Len(s) > size
        PROVE  1 \in DOMAIN s /\ s[1] # NoGPU /\ Head(s) = s[1] /\ s[1] \in Real(s)
    <2>1. 1 \in DOMAIN s /\ Head(s) = s[1]
      BY <1>1, <1>2, <1>4
    <2>2. ASSUME s[1] = NoGPU
          PROVE  FALSE
      <3>1. \A k \in DOMAIN s : s[k] = NoGPU
        <4>1. \A k \in DOMAIN s : k = 1 \/ 1 < k
          BY <1>2
        <4> QED
          BY <1>1, <2>1, <2>2, <4>1 DEF Trailing
      <3>2. {i \in DOMAIN s : s[i] = NoGPU} = DOMAIN s
        BY <3>1
      <3>3. CountPadding(s) = Len(s)
        BY <1>1, <3>2, SeqPlaces DEF CountPadding
      <3>4. Len(s) = 0 \/ Len(s) = padding
        <4>1. CountPadding(s) = 0 \/ CountPadding(s) = padding
          BY <1>1 DEF Whole
        <4> QED
          BY <3>3, <4>1, Zenon
      <3>5. Len(s) \in Nat
        BY <1>2
      <3>6. Len(s) # 0 /\ Len(s) # padding
        BY <1>4, <3>5
      <3> QED
        BY <3>4, <3>6
    <2> QED
      BY <2>1, <2>2 DEF Real, ToSet
  <1> QED
    BY <1>1, <1>2, <1>3, <1>4

\* the places of a set with its devices
LEMMA PlacesOfBlock ==
  ASSUME NEW size \in Nat, NEW padding \in Nat, padding < size, NEW s \in Ready(size, padding),
         NEW B \in SUBSET Real(s), Cardinality(B) \in {size, size - padding},
         Cardinality(B) # size => NoGPU \in ToSet(s)
  PROVE  \E Q \in SUBSET DOMAIN s :
           /\ Cardinality(Q) = size /\ {s[k] : k \in Q} \ {NoGPU} = B
           /\ Cardinality(PaddingAt(s, Q)) \in {0, padding}
           /\ \A k \in DOMAIN s : s[k] \in B => k \in Q
  <1>1. /\ s \in Seq(Int) /\ Distinct(s)
        /\ Cardinality(PaddingAt(s, DOMAIN s)) \in {0, padding}
    <2>1. s \in Seq(Int) /\ Distinct(s) /\ Whole(s, padding)
      BY ReadyIs, Zenon
    <2> QED
      BY <2>1 DEF Whole, CountPadding, PaddingAt
  <1>2. B \subseteq {s[k] : k \in DOMAIN s} /\ NoGPU \notin B
    BY DEF Real, ToSet
  <1>3. CASE Cardinality(B) = size
    <2> DEFINE Q == {k \in DOMAIN s : s[k] \in B}
    <2>1. {s[k] : k \in Q} = B /\ PaddingAt(s, Q) = {}
      BY <1>2 DEF PaddingAt
    <2>2. B \ {NoGPU} = B /\ Q \in SUBSET DOMAIN s
      BY <1>2
    <2>3. \A k \in DOMAIN s : s[k] \in B => k \in Q
      OBVIOUS
    <2> HIDE DEF Q
    <2>4. Cardinality(B) = Cardinality(Q) - Cardinality(PaddingAt(s, Q)) /\ Cardinality(Q) \in Nat
      BY <1>1, <2>1, <2>2, RealCount
    <2>5. Cardinality(PaddingAt(s, Q)) = 0
      BY <2>1, FS_EmptySet
    <2>6. Cardinality(Q) = size
      BY <1>3, <2>4, <2>5
    <2> QED
      BY <2>1, <2>2, <2>3, <2>5, <2>6
  <1>4. CASE Cardinality(B) # size
    <2> DEFINE Q == {k \in DOMAIN s : s[k] \in B \/ s[k] = NoGPU}
    <2>1. {s[k] : k \in Q} = B \union {NoGPU}
      BY <1>2, <1>4 DEF ToSet
    <2>2. PaddingAt(s, Q) = PaddingAt(s, DOMAIN s) /\ Q \in SUBSET DOMAIN s
      BY DEF PaddingAt
    <2>3. (B \union {NoGPU}) \ {NoGPU} = B
      BY <1>2
    <2>4. \A k \in DOMAIN s : s[k] \in B => k \in Q
      OBVIOUS
    <2> HIDE DEF Q
    <2>5. /\ Cardinality(B) = Cardinality(Q) - Cardinality(PaddingAt(s, Q))
          /\ Cardinality(Q) \in Nat /\ IsFiniteSet(PaddingAt(s, Q))
      BY <1>1, <2>1, <2>2, <2>3, RealCount
    <2>6. Cardinality(PaddingAt(s, Q)) = padding
      <3>1. PaddingAt(s, Q) # {}
        BY <1>4, <2>2 DEF PaddingAt, ToSet
      <3>2. Cardinality(PaddingAt(s, Q)) # 0
        BY <2>5, <3>1, FS_EmptySet
      <3> QED
        BY <1>1, <2>2, <3>2
    <2>7. Cardinality(Q) = size
      BY <1>4, <2>5, <2>6
    <2> QED
      BY <2>1, <2>2, <2>3, <2>4, <2>6, <2>7
  <1> QED
    BY <1>3, <1>4

\* the devices of a set determine its places
WholePlaces(s, size, padding) ==
  {P \in SUBSET DOMAIN s : /\ Cardinality(P) = size
                           /\ Cardinality(PaddingAt(s, P)) \in {0, padding}}

\* the devices at the places P
DevicesAt(s, P) == {s[k] : k \in P} \ {NoGPU}

LEMMA PlacesOfSet ==
  ASSUME NEW size \in Nat, NEW padding \in Nat, padding < size, NEW s \in Ready(size, padding),
         NEW P \in WholePlaces(s, size, padding), NEW Q \in WholePlaces(s, size, padding),
         DevicesAt(s, P) = DevicesAt(s, Q)
  PROVE  P = Q
  <1> USE DEF WholePlaces, DevicesAt
  <1>1. /\ s \in Seq(Int) /\ Distinct(s)
        /\ Cardinality(PaddingAt(s, DOMAIN s)) \in {0, padding}
    <2>1. s \in Seq(Int) /\ Distinct(s) /\ Whole(s, padding)
      BY ReadyIs, Zenon
    <2> QED
      BY <2>1 DEF Whole, CountPadding, PaddingAt
  <1>2. /\ IsFiniteSet(PaddingAt(s, P)) /\ Cardinality(PaddingAt(s, P)) \in Nat
        /\ IsFiniteSet(PaddingAt(s, Q)) /\ Cardinality(PaddingAt(s, Q)) \in Nat
        /\ IsFiniteSet(PaddingAt(s, DOMAIN s))
        /\ Cardinality(PaddingAt(s, P)) = Cardinality(PaddingAt(s, Q))
    <2>1. DOMAIN s \in SUBSET DOMAIN s
      OBVIOUS
    <2>2. IsFiniteSet(PaddingAt(s, DOMAIN s))
      BY <1>1, <2>1, RealCount
    <2>3. /\ IsFiniteSet(PaddingAt(s, P)) /\ Cardinality(PaddingAt(s, P)) \in Nat
          /\ Cardinality({s[k] : k \in P} \ {NoGPU}) = size - Cardinality(PaddingAt(s, P))
      BY <1>1, RealCount
    <2>4. /\ IsFiniteSet(PaddingAt(s, Q)) /\ Cardinality(PaddingAt(s, Q)) \in Nat
          /\ Cardinality({s[k] : k \in Q} \ {NoGPU}) = size - Cardinality(PaddingAt(s, Q))
      BY <1>1, RealCount
    <2>5. size - Cardinality(PaddingAt(s, P)) = size - Cardinality(PaddingAt(s, Q))
      BY <2>3, <2>4
    <2>6. Cardinality(PaddingAt(s, P)) = Cardinality(PaddingAt(s, Q))
      BY <2>3, <2>4, <2>5
    <2> QED
      BY <2>2, <2>3, <2>4, <2>6
  <1>3. ASSUME NEW A \in SUBSET DOMAIN s, NEW C \in SUBSET DOMAIN s,
               {s[k] : k \in A} \ {NoGPU} = {s[k] : k \in C} \ {NoGPU},
               NEW k \in A, s[k] # NoGPU
        PROVE  k \in C
    <2>1. s[k] \in {s[j] : j \in C}
      BY <1>3
    <2>2. PICK j \in C : s[k] = s[j]
      BY <2>1
    <2> QED
      BY <1>1, <1>3, <2>2 DEF Distinct
  <1>4. PaddingAt(s, P) = PaddingAt(s, Q)
    <2>1. PaddingAt(s, P) \subseteq PaddingAt(s, DOMAIN s)
          /\ PaddingAt(s, Q) \subseteq PaddingAt(s, DOMAIN s)
      BY DEF PaddingAt
    <2>2. CASE Cardinality(PaddingAt(s, P)) = 0
      <3>1. PaddingAt(s, P) = {} /\ PaddingAt(s, Q) = {}
        BY <1>2, <2>2, FS_EmptySet
      <3> QED
        BY <3>1
    <2>3. CASE Cardinality(PaddingAt(s, P)) # 0
      <3>1. PaddingAt(s, P) # {}
        BY <2>3, FS_EmptySet
      <3>2. Cardinality(PaddingAt(s, DOMAIN s)) # 0
        BY <1>2, <2>1, <3>1, FS_EmptySet
      <3>3. /\ Cardinality(PaddingAt(s, DOMAIN s)) = Cardinality(PaddingAt(s, P))
            /\ Cardinality(PaddingAt(s, DOMAIN s)) = Cardinality(PaddingAt(s, Q))
        BY <1>1, <1>2, <2>3, <3>2
      <3>4. PaddingAt(s, P) = PaddingAt(s, DOMAIN s)
        BY <1>2, <2>1, <3>3, FS_Subset
      <3>5. PaddingAt(s, Q) = PaddingAt(s, DOMAIN s)
        BY <1>2, <2>1, <3>3, FS_Subset
      <3> QED
        BY <3>4, <3>5
    <2> QED
      BY <2>2, <2>3
  <1>5. P \subseteq Q
    <2>1. \A k \in P : s[k] # NoGPU => k \in Q
      BY <1>3
    <2> QED
      BY <1>4, <2>1 DEF PaddingAt
  <1>6. Q \subseteq P
    <2>1. \A k \in Q : s[k] # NoGPU => k \in P
      BY <1>3
    <2> QED
      BY <1>4, <2>1 DEF PaddingAt
  <1> QED
    BY <1>5, <1>6

\* a set that is called on with: it leaves what iterateGPUPartitions can be called with
Takes(s, size, padding, q, i, t, r) ==
  /\ Len(s) > size /\ SetNumbers(q, s, size) /\ i \in DOMAIN GPUSets(Tail(s), size - 1)
  /\ t = SetAt(s, size, i) /\ Whole(t, padding) /\ r = Remaining(s, t)

LEMMA SetTaken ==
  ASSUME NEW size \in Nat, NEW padding \in Nat, padding < size, NEW s \in Ready(size, padding),
         NEW q, NEW i, NEW t, NEW r, Takes(s, size, padding, q, i, t, r)
  PROVE  /\ t \in Seq(Int) /\ Len(t) = size /\ Distinct(t)
         /\ r \in Ready(size, padding) /\ Len(r) < Len(s)
         /\ ToSet(t) \subseteq ToSet(s) /\ ToSet(r) = ToSet(s) \ ToSet(t)
         /\ s[1] \in Real(t)
         /\ q[i] \in SUBSET DOMAIN s /\ Cardinality(q[i]) = size
         /\ {s[k] : k \in q[i]} \ {NoGPU} = Real(t)
         /\ Cardinality(PaddingAt(s, q[i])) \in {0, padding}
  <1>1. size # 0 /\ s \in Seq(Int) /\ s \in Divisible(size, padding) /\ Trailing(s)
    BY ReadyIs
  <1>2. t \in SetsOf(s, size) /\ r \in Seq(Int) /\ Len(r) < Len(s)
    BY <1>1, LongEnough DEF Takes
  <1>3. t \in Seq(Int) /\ Len(t) = size
    BY <1>2 DEF SetsOf
  <1>4. /\ Distinct(t) /\ ToSet(t) \subseteq ToSet(s)
        /\ r \in Divisible(size, padding) /\ ToSet(r) = ToSet(s) \ ToSet(t)
    BY <1>1, <1>2, SetsLeaveSets DEF Takes
  <1>5. Trailing(r)
    BY <1>1, RemainingPicks DEF Takes
  <1>6. r \in Ready(size, padding)
    BY <1>4, <1>5 DEF Ready
  <1>7. PICK Q : Q = q[i]
    OBVIOUS
  <1>8. 1 \in Q /\ Picks(t, s, Q)
    BY <1>7 DEF SetNumbers, Takes
  <1>9. /\ Cardinality(Q) = size /\ ToSet(t) = {s[k] : k \in Q} /\ Q \in SUBSET DOMAIN s
        /\ CountPadding(t) = Cardinality(PaddingAt(s, Q))
    <2>1. Q \subseteq DOMAIN s
      BY <1>8 DEF Picks
    <2> QED
      BY <1>1, <1>3, <1>8, <2>1, Picked
  <1>10. s[1] \in Real(t)
    <2>1. s[1] \in ToSet(t)
      BY <1>8, <1>9
    <2>2. s[1] # NoGPU
      BY ReadyIs DEF Takes
    <2> QED
      BY <2>1, <2>2 DEF Real
  <1>11. Cardinality(PaddingAt(s, Q)) \in {0, padding}
    BY <1>9 DEF Whole, Takes
  <1> QED
    BY <1>2, <1>3, <1>4, <1>6, <1>7, <1>9, <1>10, <1>11 DEF Real

LEMMA ConsBlocks ==
  ASSUME NEW t \in Seq(Int), NEW p \in Seq(Seq(Int))
  PROVE  /\ <<t>> \o p \in Seq(Seq(Int))
         /\ BlocksOf(<<t>> \o p) = {Real(t)} \union BlocksOf(p)
  <1> DEFINE u == <<t>> \o p
  <1>1. /\ u \in Seq(Seq(Int)) /\ DOMAIN u = 1 .. Len(p) + 1 /\ u[1] = t
        /\ \A j \in 1 .. Len(p) : u[j + 1] = p[j]
    BY Consed
  <1>2. Len(p) \in Nat /\ DOMAIN p = 1 .. Len(p)
    BY InSeq
  <1> HIDE DEF u
  <1>3. \A j \in DOMAIN u : j = 1 \/ (j - 1 \in DOMAIN p /\ u[j] = p[j - 1])
    <2> SUFFICES ASSUME NEW j \in DOMAIN u, j # 1
                 PROVE  j - 1 \in DOMAIN p /\ u[j] = p[j - 1]
      OBVIOUS
    <2>1. j - 1 \in 1 .. Len(p) /\ (j - 1) + 1 = j
      BY <1>1, <1>2
    <2> QED
      BY <1>1, <1>2, <2>1
  <1>4. 1 \in DOMAIN u /\ \A j \in DOMAIN p : j + 1 \in DOMAIN u /\ u[j + 1] = p[j]
    BY <1>1, <1>2
  <1>5. BlocksOf(u) \subseteq {Real(t)} \union BlocksOf(p)
    <2> SUFFICES ASSUME NEW j \in DOMAIN u
                 PROVE  Real(u[j]) \in {Real(t)} \union BlocksOf(p)
      BY DEF BlocksOf
    <2>1. j = 1 => Real(u[j]) = Real(t)
      BY <1>1
    <2>2. j - 1 \in DOMAIN p /\ u[j] = p[j - 1] => Real(u[j]) \in BlocksOf(p)
      BY DEF BlocksOf
    <2> QED
      BY <1>3, <2>1, <2>2
  <1>6. {Real(t)} \union BlocksOf(p) \subseteq BlocksOf(u)
    <2>1. Real(t) \in BlocksOf(u)
      BY <1>1, <1>4 DEF BlocksOf
    <2>2. \A j \in DOMAIN p : Real(p[j]) \in BlocksOf(u)
      BY <1>4 DEF BlocksOf
    <2> QED
      BY <2>1, <2>2 DEF BlocksOf
  <1> QED
    BY <1>1, <1>5, <1>6 DEF u

\* the blocks of what a set leaves are without its devices
LEMMA BlocksApart ==
  ASSUME NEW size, NEW padding, NEW s, NEW r, NEW t, ToSet(r) = ToSet(s) \ ToSet(t),
         NEW p \in PartitionsOf(r, size, padding), NEW d \in Real(t)
  PROVE  \A B \in BlocksOf(p) : d \notin B
  BY DEF PartitionsOf, BlocksOf, Real

\* one block and a sharing of the rest
LEMMA SharingRest ==
  ASSUME NEW size \in Nat, NEW padding \in Nat, padding < size, NEW s, NEW r,
         NEW P \in Sharing(s, size, padding), NEW t \in Seq(Int), Real(t) \in P,
         Len(t) = size, Distinct(t), Whole(t, padding),
         ToSet(t) \subseteq ToSet(s), ToSet(r) = ToSet(s) \ ToSet(t)
  PROVE  P \ {Real(t)} \in Sharing(r, size, padding)
  <1> DEFINE B == Real(t)
             R == P \ {B}
  <1>1. NoGPU \in ToSet(t) <=> Cardinality(B) # size
    <2>1. /\ NoGPU \notin ToSet(t) => Cardinality(Real(t)) = size
          /\ NoGPU \in ToSet(t) => Cardinality(Real(t)) = size - padding /\ padding # 0
      BY BlockIs
    <2>2. padding # 0 => size - padding # size
      OBVIOUS
    <2> QED
      BY <2>1, <2>2
  <1>2. /\ UNION P = Real(s)
        /\ \A C, D \in P : C # D => C \intersect D = {}
        /\ \A C \in P : /\ IsFiniteSet(C) /\ C # {}
                        /\ Cardinality(C) \in {size, size - padding}
        /\ \A C, D \in P : Cardinality(C) # size /\ Cardinality(D) # size => C = D
        /\ NoGPU \in ToSet(s) <=> \E C \in P : Cardinality(C) # size
    BY DEF Sharing
  <1>3. Real(r) = Real(s) \ B
    BY DEF Real
  <1>4. NoGPU \in ToSet(r) <=> NoGPU \in ToSet(s) /\ NoGPU \notin ToSet(t)
    OBVIOUS
  <1> HIDE DEF B
  <1>5. B \in P
    BY DEF B
  <1>6. UNION R = Real(r)
    <2>1. \A C \in R : C \subseteq Real(s) /\ C \intersect B = {}
      BY <1>2, <1>5
    <2>2. \A d \in Real(r) : \E C \in R : d \in C
      BY <1>2, <1>3
    <2> QED
      BY <1>3, <2>1, <2>2
  <1>7. R \in SUBSET SUBSET Real(r)
    BY <1>6
  <1>8. NoGPU \in ToSet(r) <=> \E C \in R : Cardinality(C) # size
    BY <1>1, <1>2, <1>4, <1>5
  <1>9. R \in Sharing(r, size, padding)
    BY <1>2, <1>6, <1>7, <1>8 DEF Sharing
  <1> QED
    BY <1>9 DEF B

-----------------------------------------------------------------------------
(* What iterate calls back with.                                            *)

LEMMA BranchesAre ==
  ASSUME NEW size \in Nat, size # 0, NEW padding, NEW s \in Seq(Int), Len(s) > size,
         NEW g \in [Seq(Int) -> Seq(Seq(Seq(Int)))]
  PROVE  /\ Iterate(g, s, size, padding) = FlattenSeq(Branches(g, s, size, padding))
         /\ Branches(g, s, size, padding) \in Seq(Seq(Seq(Seq(Int))))
         /\ DOMAIN Branches(g, s, size, padding) = DOMAIN GPUSets(Tail(s), size - 1)
         /\ \A i \in DOMAIN GPUSets(Tail(s), size - 1) :
              Branches(g, s, size, padding)[i] = Branch(g, s, size, padding, i)
  <1> DEFINE sets == GPUSets(Tail(s), size - 1)
             br   == Branches(g, s, size, padding)
  <1>1. Len(sets) \in Nat /\ DOMAIN sets = 1 .. Len(sets)
    BY LongEnough, InSeq
  <1>2. br = [i \in DOMAIN sets |-> Branch(g, s, size, padding, i)]
    BY DEF Branches
  <1>3. ASSUME NEW i \in DOMAIN sets
        PROVE  Branch(g, s, size, padding, i) \in Seq(Seq(Seq(Int)))
    <2>1. PICK t : t = SetAt(s, size, i)
      OBVIOUS
    <2>2. PICK r : r = Remaining(s, t)
      OBVIOUS
    <2>3. t \in Seq(Int) /\ r \in Seq(Int)
      BY <2>1, <2>2, LongEnough DEF SetsOf
    <2>4. PICK ps \in Seq(Seq(Seq(Int))) : ps = g[r]
      BY <2>3
    <2> DEFINE w == [j \in DOMAIN ps |-> <<t>> \o ps[j]]
    <2>5. Branch(g, s, size, padding, i) = IF Whole(t, padding) THEN w ELSE << >>
      BY <2>1, <2>2, <2>4 DEF Branch, Withs
    <2>6. Len(ps) \in Int /\ DOMAIN ps = 1 .. Len(ps)
      BY InSeq
    <2>7. \A j \in DOMAIN ps : <<t>> \o ps[j] \in Seq(Seq(Int))
      <3>1. \A j \in DOMAIN ps : ps[j] \in Seq(Seq(Int))
        BY InSeq
      <3> QED
        BY <2>3, <3>1, Consed
    <2>8. w \in [1 .. Len(ps) -> Seq(Seq(Int))]
      BY <2>6, <2>7, Zenon
    <2>9. << >> \in Seq(Seq(Seq(Int)))
      OBVIOUS
    <2> HIDE DEF w
    <2>10. w \in Seq(Seq(Seq(Int)))
      BY <2>6, <2>8, FunctionIsSeq
    <2> QED
      BY <2>5, <2>9, <2>10
  <1>4. Iterate(g, s, size, padding) = FlattenSeq(br)
    <2>1. ~(Len(s) <= size)
      BY InSeq
    <2> QED
      BY <2>1 DEF Iterate
  <1> HIDE DEF sets
  <1>5. br \in [1 .. Len(sets) -> Seq(Seq(Seq(Int)))] /\ Len(sets) \in Int
    <2>1. Len(sets) \in Int
      BY <1>1
    <2>2. br \in [1 .. Len(sets) -> Seq(Seq(Seq(Int)))]
      BY <1>1, <1>2, <1>3, Zenon
    <2> QED
      BY <2>1, <2>2
  <1>6. br \in Seq(Seq(Seq(Seq(Int))))
    <2> HIDE DEF br
    <2> QED
      BY <1>5, FunctionIsSeq
  <1>7. DOMAIN br = DOMAIN sets
    BY <1>2
  <1> QED
    BY <1>2, <1>4, <1>6, <1>7 DEF sets

\* every sharing is called back with
Completes(ps, s, size, padding) ==
  \A P \in Sharing(s, size, padding) : \E p \in ToSet(ps) : BlocksOf(p) = P

\* BlocksOf as a function
BlocksFn == [p \in Seq(Seq(Int)) |-> BlocksOf(p)]

LEMMA CallCompletes ==
  ASSUME NEW size \in Nat, NEW padding \in Nat, padding < size, NEW s \in Ready(size, padding),
         Len(s) > size, NEW g \in [Seq(Int) -> Seq(Seq(Seq(Int)))],
         \A r \in Ready(size, padding) : Len(r) < Len(s) => Completes(g[r], r, size, padding)
  PROVE  Completes(Iterate(g, s, size, padding), s, size, padding)
  <1>1. size # 0 /\ s \in Seq(Int)
    BY ReadyIs
  <1>2. PICK q : SetNumbers(q, s, size)
    BY <1>1, SetsAt
  <1> SUFFICES ASSUME NEW P \in Sharing(s, size, padding)
               PROVE  \E p \in ToSet(Iterate(g, s, size, padding)) : BlocksOf(p) = P
    BY DEF Completes
  <1>3. PICK B \in P : s[1] \in B
    <2>1. s[1] \in Real(s)
      BY ReadyIs
    <2> QED
      BY <2>1 DEF Sharing
  <1>4. /\ B \in SUBSET Real(s) /\ Cardinality(B) \in {size, size - padding}
        /\ Cardinality(B) # size => NoGPU \in ToSet(s)
    BY DEF Sharing
  <1>5. PICK Q \in SUBSET DOMAIN s :
          /\ Cardinality(Q) = size /\ {s[k] : k \in Q} \ {NoGPU} = B
          /\ Cardinality(PaddingAt(s, Q)) \in {0, padding}
          /\ \A k \in DOMAIN s : s[k] \in B => k \in Q
    BY <1>4, PlacesOfBlock
  <1>6. 1 \in Q
    <2>1. 1 \in DOMAIN s
      BY ReadyIs
    <2> QED
      BY <1>3, <1>5, <2>1
  <1>7. PICK i \in DOMAIN GPUSets(Tail(s), size - 1) : q[i] = Q
    BY <1>2, <1>5, <1>6 DEF SetNumbers
  <1>8. PICK t : t = SetAt(s, size, i)
    OBVIOUS
  <1>9. PICK r : r = Remaining(s, t)
    OBVIOUS
  <1>10. Whole(t, padding)
    <2>1. t \in Seq(Int)
      BY <1>1, <1>8, LongEnough DEF SetsOf
    <2>2. Picks(t, s, Q)
      BY <1>2, <1>7, <1>8 DEF SetNumbers
    <2>3. CountPadding(t) = Cardinality(PaddingAt(s, Q))
      BY <1>1, <2>1, <2>2, Picked
    <2> QED
      BY <1>5, <2>3 DEF Whole
  <1>11. /\ t \in Seq(Int) /\ Len(t) = size /\ Distinct(t)
         /\ r \in Ready(size, padding) /\ Len(r) < Len(s)
         /\ ToSet(t) \subseteq ToSet(s) /\ ToSet(r) = ToSet(s) \ ToSet(t)
         /\ {s[k] : k \in q[i]} \ {NoGPU} = Real(t)
    <2>1. Takes(s, size, padding, q, i, t, r)
      BY <1>2, <1>8, <1>9, <1>10 DEF Takes
    <2> QED
      BY <2>1, SetTaken
  <1>12. Real(t) = B
    BY <1>5, <1>7, <1>11
  <1>13. P \ {B} \in Sharing(r, size, padding)
    BY <1>10, <1>11, <1>12, SharingRest
  <1>14. PICK p \in ToSet(g[r]) : BlocksOf(p) = P \ {B}
    BY <1>11, <1>13 DEF Completes
  <1>15. r \in Seq(Int)
    BY <1>11, ReadyIs
  <1>16. PICK ps \in Seq(Seq(Seq(Int))) : ps = g[r]
    BY <1>15
  <1>17. PICK j \in DOMAIN ps : p = ps[j] /\ p \in Seq(Seq(Int))
    <2>1. \A k \in DOMAIN ps : ps[k] \in Seq(Seq(Int))
      BY InSeq
    <2> QED
      BY <1>14, <1>16, <2>1 DEF ToSet
  <1>18. BlocksOf(<<t>> \o p) = P
    <2>1. BlocksOf(<<t>> \o p) = {B} \union (P \ {B})
      BY <1>11, <1>12, <1>14, <1>17, ConsBlocks
    <2> QED
      BY <2>1
  <1>19. <<t>> \o p \in ToSet(Branch(g, s, size, padding, i))
    <2>1. Branch(g, s, size, padding, i) = [k \in DOMAIN ps |-> <<t>> \o ps[k]]
      BY <1>8, <1>9, <1>10, <1>16 DEF Branch, Withs
    <2> QED
      BY <1>17, <2>1 DEF ToSet
  <1>20. PICK br \in Seq(Seq(Seq(Seq(Int)))) :
           /\ Iterate(g, s, size, padding) = FlattenSeq(br)
           /\ i \in DOMAIN br /\ br[i] = Branch(g, s, size, padding, i)
    BY <1>1, BranchesAre
  <1>21. <<t>> \o p \in ToSet(FlattenSeq(br))
    <2>1. ToSet(FlattenSeq(br)) = UNION {ToSet(br[k]) : k \in DOMAIN br}
      BY Flattened
    <2> QED
      BY <1>19, <1>20, <2>1
  <1> QED
    BY <1>18, <1>20, <1>21

LEMMA SameRest ==
  ASSUME NEW x, NEW A, NEW B, x \notin A, x \notin B, {x} \union A = {x} \union B
  PROVE  A = B
  <1>1. \A y : y \in A <=> y # x /\ y \in {x} \union A
    OBVIOUS
  <1>2. \A y : y \in B <=> y # x /\ y \in {x} \union B
    OBVIOUS
  <1> QED
    BY <1>1, <1>2

\* and none of them twice
LEMMA CallTells ==
  ASSUME NEW size \in Nat, NEW padding \in Nat, padding < size, NEW s \in Ready(size, padding),
         Len(s) > size, NEW g \in [Seq(Int) -> Seq(Seq(Seq(Int)))],
         \A r \in Ready(size, padding) :
           Len(r) < Len(s) => /\ g[r] \in Seq(PartitionsOf(r, size, padding))
                              /\ Tells(BlocksFn, g[r])
  PROVE  Tells(BlocksFn, Iterate(g, s, size, padding))
  <1>1. size # 0 /\ s \in Seq(Int)
    BY ReadyIs
  <1>2. PICK q : SetNumbers(q, s, size)
    BY <1>1, SetsAt
  <1>3. PICK sets : sets = GPUSets(Tail(s), size - 1)
    OBVIOUS
  <1>4. PICK br \in Seq(Seq(Seq(Seq(Int)))) :
          /\ Iterate(g, s, size, padding) = FlattenSeq(br)
          /\ DOMAIN br = DOMAIN sets
          /\ \A i \in DOMAIN sets : br[i] = Branch(g, s, size, padding, i)
    <2>1. PICK br : br = Branches(g, s, size, padding)
      OBVIOUS
    <2>2. /\ br \in Seq(Seq(Seq(Seq(Int))))
          /\ Iterate(g, s, size, padding) = FlattenSeq(br)
          /\ DOMAIN br = DOMAIN sets
          /\ \A i \in DOMAIN sets : br[i] = Branch(g, s, size, padding, i)
      BY <1>1, <1>3, <2>1, BranchesAre, Zenon
    <2> QED
      BY <2>2, Zenon
  <1> DEFINE Of(t, ps, i) == /\ t = SetAt(s, size, i) /\ Whole(t, padding) /\ t \in Seq(Int)
                             /\ s[1] \in Real(t)
                             /\ {s[k] : k \in q[i]} \ {NoGPU} = Real(t)
                             /\ q[i] \in SUBSET DOMAIN s /\ Cardinality(q[i]) = size
                             /\ Cardinality(PaddingAt(s, q[i])) \in {0, padding}
                             /\ br[i] = [k \in DOMAIN ps |-> <<t>> \o ps[k]]
                             /\ Tells(BlocksFn, ps)
                             /\ \A k \in DOMAIN ps :
                                  /\ ps[k] \in Seq(Seq(Int))
                                  /\ <<t>> \o ps[k] \in Seq(Seq(Int))
                                  /\ BlocksOf(<<t>> \o ps[k]) = {Real(t)} \union BlocksOf(ps[k])
                                  /\ \A B \in BlocksOf(ps[k]) : s[1] \notin B
  <1>5. ASSUME NEW i \in DOMAIN br
        PROVE  br[i] = << >> \/ \E t, ps : Of(t, ps, i)
    <2>1. PICK t : t = SetAt(s, size, i)
      OBVIOUS
    <2>2. PICK r : r = Remaining(s, t)
      OBVIOUS
    <2>3. CASE ~Whole(t, padding)
      BY <1>4, <2>1, <2>3 DEF Branch
    <2>4. CASE Whole(t, padding)
      <3>1. /\ t \in Seq(Int) /\ r \in Ready(size, padding) /\ Len(r) < Len(s)
            /\ ToSet(r) = ToSet(s) \ ToSet(t) /\ s[1] \in Real(t)
            /\ q[i] \in SUBSET DOMAIN s /\ Cardinality(q[i]) = size
            /\ {s[k] : k \in q[i]} \ {NoGPU} = Real(t)
            /\ Cardinality(PaddingAt(s, q[i])) \in {0, padding}
        <4>1. i \in DOMAIN GPUSets(Tail(s), size - 1)
          BY <1>3, <1>4
        <4> QED
          <5>1. Takes(s, size, padding, q, i, t, r)
            BY <1>2, <2>1, <2>2, <2>4, <4>1 DEF Takes
          <5> QED
            BY <5>1, SetTaken
      <3>2. PICK ps \in Seq(PartitionsOf(r, size, padding)) : ps = g[r] /\ Tells(BlocksFn, ps)
        BY <3>1
      <3>3. br[i] = [k \in DOMAIN ps |-> <<t>> \o ps[k]]
        BY <1>4, <2>1, <2>2, <2>4, <3>2 DEF Branch, Withs
      <3>4. ASSUME NEW k \in DOMAIN ps
            PROVE  /\ ps[k] \in Seq(Seq(Int))
                   /\ <<t>> \o ps[k] \in Seq(Seq(Int))
                   /\ BlocksOf(<<t>> \o ps[k]) = {Real(t)} \union BlocksOf(ps[k])
                   /\ \A B \in BlocksOf(ps[k]) : s[1] \notin B
        <4>1. PICK p \in PartitionsOf(r, size, padding) : p = ps[k]
          BY InSeq
        <4>2. p \in Seq(Seq(Int))
          BY DEF PartitionsOf
        <4>3. <<t>> \o p \in Seq(Seq(Int)) /\ BlocksOf(<<t>> \o p) = {Real(t)} \union BlocksOf(p)
          BY <3>1, <4>2, ConsBlocks
        <4>4. \A B \in BlocksOf(p) : s[1] \notin B
          <5>1. PICK d \in Real(t) : d = s[1]
            BY <3>1
          <5>2. ToSet(r) = ToSet(s) \ ToSet(t)
            BY <3>1
          <5>3. \A B \in BlocksOf(p) : d \notin B
            BY <5>2, BlocksApart
          <5> QED
            BY <5>1, <5>3
        <4> QED
          BY <4>1, <4>2, <4>3, <4>4
      <3>5. Of(t, ps, i)
        BY <2>1, <2>4, <3>1, <3>2, <3>3, <3>4
      <3> HIDE DEF Of
      <3> QED
        BY <3>5
    <2> HIDE DEF Of
    <2> QED
      BY <2>3, <2>4
  <1>6. ASSUME NEW i \in DOMAIN br
        PROVE  Tells(BlocksFn, br[i])
    <2>1. CASE br[i] = << >>
      BY <2>1 DEF Tells
    <2>2. CASE \E t, ps : Of(t, ps, i)
      <3>1. PICK t, ps : Of(t, ps, i)
        <4> HIDE DEF Of
        <4> QED
          BY <2>2
      <3>2. /\ br[i] = [k \in DOMAIN ps |-> <<t>> \o ps[k]] /\ Tells(BlocksFn, ps)
            /\ s[1] \in Real(t)
            /\ \A k \in DOMAIN ps :
                 /\ ps[k] \in Seq(Seq(Int))
                 /\ <<t>> \o ps[k] \in Seq(Seq(Int))
                 /\ BlocksOf(<<t>> \o ps[k]) = {Real(t)} \union BlocksOf(ps[k])
                 /\ \A B \in BlocksOf(ps[k]) : s[1] \notin B
        BY <3>1
      <3>3. ASSUME NEW a \in DOMAIN ps, NEW b \in DOMAIN ps,
                   BlocksFn[<<t>> \o ps[a]] = BlocksFn[<<t>> \o ps[b]]
            PROVE  a = b
        <4>1. {Real(t)} \union BlocksOf(ps[a]) = {Real(t)} \union BlocksOf(ps[b])
          BY <3>2, <3>3 DEF BlocksFn
        <4>2. Real(t) \notin BlocksOf(ps[a]) /\ Real(t) \notin BlocksOf(ps[b])
          BY <3>2
        <4>3. BlocksOf(ps[a]) = BlocksOf(ps[b])
          BY <4>1, <4>2, SameRest
        <4>4. BlocksFn[ps[a]] = BlocksFn[ps[b]]
          BY <3>2, <4>3 DEF BlocksFn
        <4> QED
          BY <3>2, <4>4 DEF Tells
      <3>4. DOMAIN br[i] = DOMAIN ps /\ \A k \in DOMAIN ps : br[i][k] = <<t>> \o ps[k]
        BY <3>2
      <3> QED
        BY <3>3, <3>4 DEF Tells
    <2> HIDE DEF Of
    <2> QED
      BY <1>5, <2>1, <2>2
  <1>7. ASSUME NEW i \in DOMAIN br, NEW j \in DOMAIN br,
               NEW x \in ToSet(br[i]), NEW y \in ToSet(br[j]), BlocksFn[x] = BlocksFn[y]
        PROVE  i = j
    <2>1. br[i] # << >> /\ br[j] # << >>
      BY DEF ToSet
    <2>2. PICK t, ps : Of(t, ps, i)
      <3> HIDE DEF Of
      <3> QED
        BY <1>5, <2>1
    <2>3. PICK u, qs : Of(u, qs, j)
      <3> HIDE DEF Of
      <3> QED
        BY <1>5, <2>1
    <2>4. PICK a \in DOMAIN ps : x = <<t>> \o ps[a]
      <3>1. DOMAIN br[i] = DOMAIN ps /\ \A k \in DOMAIN ps : br[i][k] = <<t>> \o ps[k]
        BY <2>2
      <3> QED
        BY <3>1 DEF ToSet
    <2>5. PICK b \in DOMAIN qs : y = <<u>> \o qs[b]
      <3>1. DOMAIN br[j] = DOMAIN qs /\ \A k \in DOMAIN qs : br[j][k] = <<u>> \o qs[k]
        BY <2>3
      <3> QED
        BY <3>1 DEF ToSet
    <2>6. {Real(t)} \union BlocksOf(ps[a]) = {Real(u)} \union BlocksOf(qs[b])
      <3>1. x \in Seq(Seq(Int)) /\ BlocksOf(x) = {Real(t)} \union BlocksOf(ps[a])
        BY <2>2, <2>4, Zenon
      <3>2. y \in Seq(Seq(Int)) /\ BlocksOf(y) = {Real(u)} \union BlocksOf(qs[b])
        BY <2>3, <2>5, Zenon
      <3>3. BlocksFn[x] = BlocksOf(x) /\ BlocksFn[y] = BlocksOf(y)
        BY <3>1, <3>2 DEF BlocksFn
      <3> QED
        BY <1>7, <3>1, <3>2, <3>3, Zenon
    <2>7. s[1] \in Real(t) /\ \A B \in BlocksOf(qs[b]) : s[1] \notin B
      BY <2>2, <2>3
    <2>8. Real(t) = Real(u)
      BY <2>6, <2>7
    <2>9. /\ {s[k] : k \in q[i]} \ {NoGPU} = {s[k] : k \in q[j]} \ {NoGPU}
          /\ q[i] \in SUBSET DOMAIN s /\ Cardinality(q[i]) = size
          /\ Cardinality(PaddingAt(s, q[i])) \in {0, padding}
          /\ q[j] \in SUBSET DOMAIN s /\ Cardinality(q[j]) = size
          /\ Cardinality(PaddingAt(s, q[j])) \in {0, padding}
      BY <2>2, <2>3, <2>8
    <2>10. q[i] = q[j]
      <3>1. PICK C \in SUBSET DOMAIN s : C = q[i]
        BY <2>9
      <3>2. PICK D \in SUBSET DOMAIN s : D = q[j]
        BY <2>9
      <3>3. /\ {s[k] : k \in C} \ {NoGPU} = {s[k] : k \in D} \ {NoGPU}
            /\ Cardinality(C) = size /\ Cardinality(D) = size
            /\ Cardinality(PaddingAt(s, C)) \in {0, padding}
            /\ Cardinality(PaddingAt(s, D)) \in {0, padding}
        BY <2>9, <3>1, <3>2
      <3>4. C = D
        <4>1. /\ C \in WholePlaces(s, size, padding) /\ D \in WholePlaces(s, size, padding)
              /\ DevicesAt(s, C) = DevicesAt(s, D)
          BY <3>3 DEF WholePlaces, DevicesAt
        <4> QED
          BY <4>1, PlacesOfSet
      <3> QED
        BY <3>1, <3>2, <3>4
    <2> QED
      BY <1>2, <1>3, <1>4, <2>10 DEF SetNumbers
  <1>8. Tells(BlocksFn, FlattenSeq(br))
    <2> HIDE DEF Of
    <2> QED
      BY <1>6, <1>7, FlattenedTells
  <1> QED
    BY <1>4, <1>8

\* of one set there is one sharing
LEMMA OneBlock ==
  ASSUME NEW size \in Nat, NEW padding \in Nat, padding < size,
         NEW s \in Seq(Int), Len(s) = size, Distinct(s), Whole(s, padding),
         NEW P \in Sharing(s, size, padding)
  PROVE  P = {Real(s)}
  <1>1. /\ IsFiniteSet(Real(s)) /\ Real(s) # {}
        /\ NoGPU \notin ToSet(s) => Cardinality(Real(s)) = size
        /\ NoGPU \in ToSet(s) => Cardinality(Real(s)) = size - padding /\ padding # 0
    BY BlockIs
  <1>2. ASSUME NEW B \in P
        PROVE  B = Real(s)
    <2>1. /\ B \in SUBSET Real(s) /\ Cardinality(B) \in {size, size - padding}
          /\ Cardinality(B) # size => NoGPU \in ToSet(s)
      BY DEF Sharing
    <2>2. Cardinality(B) <= Cardinality(Real(s)) /\ (Cardinality(Real(s)) = Cardinality(B) => Real(s) = B)
      BY <1>1, <2>1, FS_Subset
    <2>3. Cardinality(Real(s)) <= Cardinality(B) /\ Cardinality(B) \in Int /\ Cardinality(Real(s)) \in Int
      BY <1>1, <2>1
    <2>4. Cardinality(Real(s)) = Cardinality(B)
      BY <2>2, <2>3
    <2> QED
      BY <2>2, <2>4
  <1>3. P # {}
    <2>1. UNION P = Real(s)
      BY DEF Sharing
    <2> QED
      BY <1>1, <2>1
  <1> QED
    BY <1>2, <1>3

\* what iterateGPUPartitions calls back with
LEMMA IterationsAre ==
  ASSUME NEW size \in Nat, NEW padding \in Nat, padding < size, NEW s \in Ready(size, padding)
  PROVE  /\ Iterations(size, padding)[s] \in Seq(PartitionsOf(s, size, padding))
         /\ Completes(Iterations(size, padding)[s], s, size, padding)
         /\ Tells(BlocksFn, Iterations(size, padding)[s])
  <1>1. size # 0
    OBVIOUS
  <1>2. PICK g \in [Seq(Int) -> Seq(Seq(Seq(Int)))] :
          /\ g = Iterations(size, padding)
          /\ \A r \in Seq(Int) : g[r] = Iterate(g, r, size, padding)
    BY <1>1, IterationsIs
  <1>3. ASSUME NEW r \in Ready(size, padding)
        PROVE  r \in Seq(Int) /\ g[r] \in Seq(PartitionsOf(r, size, padding))
    <2>1. r \in Divisible(size, padding) /\ r \in Seq(Int)
      BY ReadyIs
    <2> QED
      BY <1>1, <1>2, <2>1, IterationsPartition
  <1> DEFINE Right(r) == Completes(g[r], r, size, padding) /\ Tells(BlocksFn, g[r])
             Good     == {n \in Nat : \A r \in Ready(size, padding) : Len(r) = n => Right(r)}
  <1>4. ASSUME NEW n \in Nat, \A k \in Nat : k < n => k \in Good,
               NEW r \in Ready(size, padding), Len(r) = n
        PROVE  Right(r)
    <2>1. \A w \in Ready(size, padding) : Len(w) < Len(r) => Right(w)
      <3>1. \A w \in Ready(size, padding) : Len(w) \in Nat
        BY ReadyIs
      <3> HIDE DEF Right
      <3> QED
        BY <1>4, <3>1
    <2>2. g[r] = Iterate(g, r, size, padding)
      BY <1>2, <1>3
    <2>3. CASE Len(r) > size
      <3>1. Completes(Iterate(g, r, size, padding), r, size, padding)
        BY <2>1, <2>3, CallCompletes
      <3>2. Tells(BlocksFn, Iterate(g, r, size, padding))
        BY <1>3, <2>1, <2>3, CallTells
      <3> QED
        BY <2>2, <3>1, <3>2
    <2>4. CASE Len(r) <= size
      <3>1. g[r] = << <<r>> >>
        BY <2>2, <2>4 DEF Iterate
      <3>2. Tells(BlocksFn, g[r])
        BY <3>1 DEF Tells
      <3>3. ASSUME NEW P \in Sharing(r, size, padding)
            PROVE  \E p \in ToSet(g[r]) : BlocksOf(p) = P
        <4>1. r \in Seq(Int) /\ Len(r) = size /\ Distinct(r) /\ Whole(r, padding)
          <5>1. Len(r) \in Nat /\ Len(r) >= size
            BY ReadyIs
          <5>2. Len(r) = size
            BY <2>4, <5>1
          <5> QED
            BY <5>2, ReadyIs
        <4>2. P = {Real(r)}
          BY <4>1, OneBlock
        <4>3. BlocksOf(<<r>>) = {Real(r)}
          BY DEF BlocksOf
        <4>4. <<r>> \in ToSet(g[r])
          BY <3>1 DEF ToSet
        <4> QED
          BY <4>2, <4>3, <4>4
      <3> QED
        BY <3>2, <3>3 DEF Completes
    <2>5. Len(r) > size \/ Len(r) <= size
      BY ReadyIs
    <2> QED
      BY <2>3, <2>4, <2>5
  <1>5. Good = Nat
    <2>1. \A n \in Nat : (\A k \in Nat : k < n => k \in Good) => n \in Good
      <3> HIDE DEF Right
      <3> QED
        BY <1>4
    <2> HIDE DEF Good
    <2>2. Good \in SUBSET Nat
      BY DEF Good
    <2> QED
      BY <2>1, <2>2, Induction
  <1>6. Right(s)
    <2>1. Len(s) \in Good
      BY <1>5, ReadyIs
    <2> QED
      BY <2>1
  <1> QED
    BY <1>2, <1>3, <1>6

-----------------------------------------------------------------------------
(* Counting partitions.                                                     *)

\* as many elements as n times the sets, if each set has n
LEMMA UnionCount ==
  ASSUME NEW P, IsFiniteSet(P), NEW n \in Nat,
         \A B \in P : IsFiniteSet(B) /\ Cardinality(B) <= n
  PROVE  /\ IsFiniteSet(UNION P) /\ Cardinality(P) \in Nat /\ Cardinality(UNION P) \in Nat
         /\ Cardinality(UNION P) <= Cardinality(P) * n
         /\ (\A B \in P : Cardinality(B) = n) /\ (\A B, C \in P : B # C => B \intersect C = {})
              => Cardinality(UNION P) = Cardinality(P) * n
  <1> DEFINE Equal   == /\ \A B \in P : Cardinality(B) = n
                        /\ \A B, C \in P : B # C => B \intersect C = {}
             Right(Q, k) == /\ IsFiniteSet(UNION Q) /\ Cardinality(UNION Q) \in Nat
                            /\ Cardinality(UNION Q) <= k * n
                            /\ Equal => Cardinality(UNION Q) = k * n
             Good    == {k \in Nat : \A Q \in SUBSET P : Cardinality(Q) = k => Right(Q, k)}
  <1>1. ASSUME NEW k \in Nat, \A j \in Nat : j < k => j \in Good,
               NEW Q \in SUBSET P, Cardinality(Q) = k
        PROVE  Right(Q, k)
    <2>1. IsFiniteSet(Q)
      BY FS_Subset
    <2>2. CASE k = 0
      <3>1. Q = {}
        BY <1>1, <2>1, <2>2, FS_EmptySet
      <3>2. UNION Q = {}
        BY <3>1
      <3>3. 0 * n = 0
        OBVIOUS
      <3>4. IsFiniteSet({}) /\ Cardinality({}) = 0
        BY FS_EmptySet
      <3>5. IsFiniteSet(UNION Q) /\ Cardinality(UNION Q) = 0
        BY <3>2, <3>4, Zenon
      <3>6. k * n = 0
        BY <2>2, <3>3
      <3> HIDE DEF Equal
      <3> QED
        BY <3>5, <3>6
    <2>3. CASE k # 0
      <3>1. PICK B \in Q : TRUE
        BY <1>1, <2>3, FS_EmptySet
      <3>2. PICK R : R = Q \ {B}
        OBVIOUS
      <3>3. IsFiniteSet(R) /\ Cardinality(R) = k - 1 /\ R \in SUBSET P
        BY <1>1, <2>1, <3>1, <3>2, FS_RemoveElement
      <3>4. k - 1 \in Nat /\ k - 1 < k
        BY <2>3
      <3>5. k - 1 \in Good
        BY <1>1, <3>4
      <3>6. Right(R, k - 1)
        BY <3>3, <3>5
      <3>7. PICK U : U = UNION R
        OBVIOUS
      <3>8. UNION Q = U \union B
        BY <3>1, <3>2, <3>7
      <3>9. /\ IsFiniteSet(U) /\ Cardinality(U) \in Nat
            /\ Cardinality(U) <= (k - 1) * n
            /\ Equal => Cardinality(U) = (k - 1) * n
        BY <3>6, <3>7
      <3> HIDE DEF Equal
      <3>10. IsFiniteSet(B) /\ Cardinality(B) <= n /\ Cardinality(B) \in Nat
        BY <3>1, FS_CardinalityType
      <3>11. /\ IsFiniteSet(U \union B)
             /\ Cardinality(U \union B) = Cardinality(U) + Cardinality(B) - Cardinality(U \intersect B)
        BY <3>9, <3>10, FS_Union
      <3>12. IsFiniteSet(U \intersect B) /\ Cardinality(U \intersect B) \in Nat
        BY <3>10, FS_Subset, FS_CardinalityType
      <3>13. Equal => Cardinality(B) = n /\ Cardinality(U \intersect B) = 0
        <4>1. Equal => U \intersect B = {}
          BY <3>1, <3>2, <3>7 DEF Equal
        <4> QED
          BY <3>1, <4>1, FS_EmptySet DEF Equal
      <3>14. (k - 1) * n + n = k * n
        OBVIOUS
      <3>15. PICK z \in Nat : z = (k - 1) * n
        BY <3>4
      <3>16. Cardinality(U \union B) <= z + n /\ (Equal => Cardinality(U \union B) = z + n)
        BY <3>9, <3>10, <3>11, <3>12, <3>13, <3>15
      <3>17. Cardinality(U \union B) \in Nat
        BY <3>11, FS_CardinalityType
      <3> QED
        BY <3>8, <3>11, <3>14, <3>15, <3>16, <3>17
    <2> QED
      BY <2>2, <2>3
  <1>2. Good = Nat
    <2>1. \A k \in Nat : (\A j \in Nat : j < k => j \in Good) => k \in Good
      <3> HIDE DEF Right
      <3> QED
        BY <1>1
    <2> HIDE DEF Good
    <2>2. Good \in SUBSET Nat
      BY DEF Good
    <2> QED
      BY <2>1, <2>2, Induction
  <1>3. Cardinality(P) \in Nat
    BY FS_CardinalityType
  <1>4. Right(P, Cardinality(P))
    <2> HIDE DEF Right
    <2> QED
      BY <1>2, <1>3
  <1> QED
    BY <1>3, <1>4

\* the padding, and the number of sets
LEMMA PaddingIs ==
  ASSUME NEW n \in Nat, n # 0, NEW l \in Nat, l >= n
  PROVE  \E k \in Nat : /\ k # 0 /\ k = (l + n - 1) \div n /\ l + Padding(l, n) = k * n
                        /\ Padding(l, n) \in Nat /\ Padding(l, n) < n
                        /\ {n, l % n} \ {0} = IF Padding(l, n) = 0 THEN {n}
                                              ELSE {n, n - Padding(l, n)}
  <1>1. PICK m \in Nat : l + Padding(l, n) = (m + 1) * n
    BY PaddingFills
  <1>2. PICK p \in Nat : p = Padding(l, n) /\ p < n
    BY PaddingFills
  <1>3. PICK k \in Nat : k = m + 1
    OBVIOUS
  <1>4. l + p = k * n
    BY <1>1, <1>2, <1>3
  <1>5. k = (l + n - 1) \div n
    <2>1. PICK a \in Nat : a = n - 1 - p
      BY <1>2
    <2>2. a < n
      BY <1>2, <2>1
    <2>3. l + n - 1 = k * n + a
      BY <1>4, <2>1
    <2>4. (k * n + a) \div n = k
      BY <2>2
    <2> QED
      BY <2>3, <2>4
  <1>6. p = 0 => l % n = 0
    <2>1. (k * n) % n = 0
      OBVIOUS
    <2> QED
      BY <1>4, <2>1
  <1>7. p # 0 => l % n = n - p
    <2>1. p # 0 => p = n - (l % n)
      BY <1>2, PaddingFills
    <2>2. l % n \in Int
      OBVIOUS
    <2> QED
      BY <2>1, <2>2
  <1>8. {n, l % n} \ {0} = IF p = 0 THEN {n} ELSE {n, n - p}
    BY <1>2, <1>6, <1>7
  <1>9. k # 0 /\ p \in Nat
    BY <1>3
  <1> QED
    BY <1>2, <1>4, <1>5, <1>8, <1>9, Zenon

\* sets of n elements and smaller ones: one smaller one, if there is padding
LEMMA SmallSets ==
  ASSUME NEW S, IsFiniteSet(S), NEW n \in Nat, n # 0, NEW k \in Nat, NEW padding \in Nat,
         padding < n, Cardinality(S) + padding = k * n,
         NEW P, IsFiniteSet(P), UNION P = S, Cardinality(P) <= k,
         \A B, C \in P : B # C => B \intersect C = {},
         \A B \in P : Cardinality(B) \in {n, n - padding}
  PROVE  /\ \A B, C \in P : Cardinality(B) # n /\ Cardinality(C) # n => B = C
         /\ padding # 0 <=> \E B \in P : Cardinality(B) # n
  <1>1. \A B \in P : IsFiniteSet(B) /\ Cardinality(B) <= n
    <2>1. \A B \in P : B \in SUBSET S
      OBVIOUS
    <2>2. \A B \in P : IsFiniteSet(B)
      BY <2>1, FS_Subset
    <2>3. n <= n /\ n - padding <= n
      OBVIOUS
    <2> QED
      BY <2>2, <2>3
  <1>2. PICK z \in Nat : z = k * n
    OBVIOUS
  <1>3. Cardinality(S) \in Nat /\ Cardinality(S) = z - padding /\ Cardinality(P) \in Nat
    BY <1>2, FS_CardinalityType
  <1>4. ASSUME \A B \in P : Cardinality(B) = n
        PROVE  padding = 0
    <2>1. PICK c \in Nat : c = Cardinality(P) /\ c <= k
      BY <1>3
    <2>2. Cardinality(S) = c * n
      BY <1>1, <1>4, <2>1, UnionCount
    <2>3. c * n = z - padding
      BY <1>3, <2>2
    <2>4. CASE c = k
      BY <1>2, <2>3, <2>4
    <2>5. CASE c # k
      <3>1. PICK e \in Nat : k = c + 1 + e
        <4>1. k - c - 1 \in Nat /\ k = c + 1 + (k - c - 1)
          BY <2>1, <2>5
        <4> QED
          BY <4>1
      <3>2. z = c * n + n + e * n /\ e * n \in Nat /\ c * n \in Nat
        BY <1>2, <3>1
      <3> QED
        BY <2>3, <3>2
    <2> QED
      BY <2>4, <2>5
  <1>5. ASSUME NEW B \in P, NEW C \in P, Cardinality(B) # n, Cardinality(C) # n, B # C
        PROVE  FALSE
    <2>1. PICK R : R = (P \ {B}) \ {C}
      OBVIOUS
    <2>2. IsFiniteSet(R) /\ Cardinality(R) = Cardinality(P) - 2 /\ R \subseteq P
      <3>1. IsFiniteSet(P \ {B}) /\ Cardinality(P \ {B}) = Cardinality(P) - 1
        BY FS_RemoveElement
      <3>2. C \in P \ {B}
        BY <1>5
      <3>3. IsFiniteSet(R) /\ Cardinality(R) = Cardinality(P \ {B}) - 1
        BY <2>1, <3>1, <3>2, FS_RemoveElement
      <3> QED
        BY <1>3, <2>1, <3>1, <3>3
    <2>3. PICK c \in Nat : c = Cardinality(R) /\ c + 2 <= k
      <3>1. Cardinality(R) \in Nat
        BY <2>2, FS_CardinalityType
      <3> QED
        BY <1>3, <2>2, <3>1
    <2>4. PICK U : U = UNION R
      OBVIOUS
    <2>5. IsFiniteSet(U) /\ Cardinality(U) \in Nat /\ Cardinality(U) <= c * n
      BY <1>1, <2>2, <2>3, <2>4, UnionCount
    <2>6. S = (U \union B) \union C
      BY <2>1, <2>4
    <2>7. /\ IsFiniteSet(B) /\ Cardinality(B) = n - padding
          /\ IsFiniteSet(C) /\ Cardinality(C) = n - padding
      BY <1>1, <1>5
    <2>8. /\ IsFiniteSet(U \union B) /\ Cardinality(U \union B) \in Nat
          /\ Cardinality(U \union B) <= Cardinality(U) + (n - padding)
      <3>1. IsFiniteSet(U \union B)
              /\ Cardinality(U \union B)
                   = Cardinality(U) + Cardinality(B) - Cardinality(U \intersect B)
        BY <2>5, <2>7, FS_Union
      <3>2. Cardinality(U \intersect B) \in Nat /\ Cardinality(U \union B) \in Nat
        BY <2>7, <3>1, FS_Subset, FS_CardinalityType
      <3> QED
        BY <2>5, <2>7, <3>1, <3>2
    <2>9. Cardinality(S) <= Cardinality(U) + (n - padding) + (n - padding)
      <3>1. Cardinality((U \union B) \union C)
              = Cardinality(U \union B) + Cardinality(C) - Cardinality((U \union B) \intersect C)
        BY <2>7, <2>8, FS_Union
      <3>2. Cardinality((U \union B) \intersect C) \in Nat
        BY <2>7, FS_Subset, FS_CardinalityType
      <3> QED
        BY <1>3, <2>5, <2>6, <2>7, <2>8, <3>1, <3>2
    <2>10. PICK e \in Nat : k = c + 2 + e
      <3>1. k - c - 2 \in Nat /\ k = c + 2 + (k - c - 2)
        BY <2>3
      <3> QED
        BY <3>1
    <2>11. z = c * n + n + n + e * n /\ e * n \in Nat /\ c * n \in Nat
      BY <1>2, <2>10
    <2>12. padding # 0
      BY <1>5
    <2>13. PICK x \in Nat : x = c * n
      OBVIOUS
    <2>14. PICK y \in Nat : y = e * n
      OBVIOUS
    <2>15. z = x + n + n + y /\ Cardinality(U) <= x
      BY <2>5, <2>11, <2>13, <2>14
    <2>16. PICK u \in Nat : u = Cardinality(U)
      BY <2>5
    <2>17. z - padding <= u + (n - padding) + (n - padding) /\ u <= x
      BY <1>3, <2>9, <2>15, <2>16
    <2> QED
      BY <2>12, <2>15, <2>17
  <1>6. \A B \in P : padding = 0 => Cardinality(B) = n
    OBVIOUS
  <1> QED
    BY <1>4, <1>5, <1>6

LEMMA Cancel ==
  ASSUME NEW n \in Nat, n # 0, NEW a \in Nat, NEW b \in Nat, a * n = b * n
  PROVE  a = b
  <1>1. ASSUME NEW x \in Nat, NEW y \in Nat, x < y, x * n = y * n
        PROVE  FALSE
    <2>1. PICK e \in Nat : y = x + 1 + e
      <3>1. y - x - 1 \in Nat /\ y = x + 1 + (y - x - 1)
        BY <1>1
      <3> QED
        BY <3>1
    <2>2. y * n = x * n + n + e * n /\ e * n \in Nat /\ x * n \in Nat
      BY <2>1
    <2> QED
      BY <1>1, <2>2
  <1>2. a < b \/ b < a \/ a = b
    OBVIOUS
  <1> QED
    BY <1>1, <1>2

\* so many sets there are
LEMMA SetsCount ==
  ASSUME NEW S, IsFiniteSet(S), NEW n \in Nat, n # 0, NEW k \in Nat, NEW padding \in Nat,
         padding < n, Cardinality(S) + padding = k * n,
         NEW P, IsFiniteSet(P), UNION P = S,
         \A B, C \in P : B # C => B \intersect C = {},
         \A B \in P : Cardinality(B) \in {n, n - padding},
         \A B, C \in P : Cardinality(B) # n /\ Cardinality(C) # n => B = C,
         padding # 0 <=> \E B \in P : Cardinality(B) # n
  PROVE  Cardinality(P) = k
  <1>1. \A B \in P : IsFiniteSet(B)
    <2>1. \A B \in P : B \in SUBSET S
      OBVIOUS
    <2> QED
      BY <2>1, FS_Subset
  <1>2. Cardinality(P) \in Nat /\ Cardinality(S) \in Nat
    BY FS_CardinalityType
  <1>3. CASE padding = 0
    <2>1. \A B \in P : Cardinality(B) = n /\ Cardinality(B) <= n
      BY <1>3
    <2>2. Cardinality(S) = Cardinality(P) * n
      BY <1>1, <2>1, UnionCount
    <2>3. Cardinality(P) * n = k * n
      BY <1>2, <1>3, <2>2
    <2> QED
      BY <1>2, <2>3, Cancel
  <1>4. CASE padding # 0
    <2>1. PICK B \in P : Cardinality(B) # n
      BY <1>4
    <2>2. Cardinality(B) = n - padding /\ IsFiniteSet(B)
      BY <1>1, <2>1
    <2>3. PICK R : R = P \ {B}
      OBVIOUS
    <2>4. IsFiniteSet(R) /\ Cardinality(R) = Cardinality(P) - 1 /\ Cardinality(R) \in Nat
      BY <2>3, FS_RemoveElement, FS_CardinalityType
    <2>5. \A C \in R : IsFiniteSet(C) /\ Cardinality(C) = n /\ Cardinality(C) <= n
      BY <1>1, <2>1, <2>3
    <2>6. \A C, D \in R : C # D => C \intersect D = {}
      BY <2>3
    <2>7. PICK U : U = UNION R
      OBVIOUS
    <2>8. IsFiniteSet(U) /\ Cardinality(U) \in Nat /\ Cardinality(U) = Cardinality(R) * n
      BY <2>4, <2>5, <2>6, <2>7, UnionCount
    <2>9. S = U \union B /\ U \intersect B = {}
      BY <2>3, <2>7
    <2>10. Cardinality(S) = Cardinality(U) + Cardinality(B) - Cardinality(U \intersect B)
      BY <2>2, <2>8, <2>9, FS_Union
    <2>11. Cardinality(U \intersect B) = 0
      BY <2>9, FS_EmptySet
    <2>12. PICK c \in Nat : c = Cardinality(R)
      BY <2>4
    <2>13. Cardinality(S) = c * n + (n - padding)
      BY <2>2, <2>8, <2>10, <2>11, <2>12
    <2>14. (c + 1) * n = c * n + n /\ c * n \in Nat
      OBVIOUS
    <2>15. (c + 1) * n = k * n
      BY <2>13, <2>14
    <2>16. c + 1 = k
      BY <2>15, Cancel
    <2> QED
      BY <1>2, <2>4, <2>12, <2>16
  <1> QED
    BY <1>3, <1>4

\* Partitions, unfolded
LEMMA PartitionsUnfold ==
  ASSUME NEW S, NEW n, NEW k, k = (Cardinality(S) + n - 1) \div n, NEW P
  PROVE  P \in Partitions(S, n) <=>
           /\ \E f \in [S -> 1 .. k] : P = {{d \in S : f[d] = c} : c \in 1 .. k}
           /\ \A B \in P : Cardinality(B) \in {n, Cardinality(S) % n} \ {0}
  BY DEF Partitions

LEMMA PartitionsAre ==
  ASSUME NEW S, IsFiniteSet(S), NEW n \in Nat, n # 0, Cardinality(S) >= n,
         NEW s, Real(s) = S, NoGPU \in ToSet(s) <=> Padding(Cardinality(S), n) # 0
  PROVE  Partitions(S, n) = Sharing(s, n, Padding(Cardinality(S), n))
  <1>1. Cardinality(S) \in Nat
    BY FS_CardinalityType
  <1>2. PICK padding : padding = Padding(Cardinality(S), n)
    OBVIOUS
  <1>3. PICK k \in Nat : /\ k # 0 /\ k = (Cardinality(S) + n - 1) \div n
                         /\ Cardinality(S) + padding = k * n
                         /\ padding \in Nat /\ padding < n
                         /\ {n, Cardinality(S) % n} \ {0} = IF padding = 0 THEN {n}
                                                            ELSE {n, n - padding}
    BY <1>1, <1>2, PaddingIs
  <1>4. ASSUME NEW P \in Partitions(S, n)
        PROVE  P \in Sharing(s, n, padding)
    <2>1. PICK f \in [S -> 1 .. k] : P = {{d \in S : f[d] = c} : c \in 1 .. k}
      BY <1>3, <1>4, PartitionsUnfold
    <2>2. \A B \in P : Cardinality(B) \in {n, n - padding} /\ Cardinality(B) # 0
      <3>1. \A B \in P : Cardinality(B) \in {n, Cardinality(S) % n} \ {0}
        BY <1>3, <1>4, PartitionsUnfold
      <3>2. \A x : x \in {n, Cardinality(S) % n} \ {0} => x \in {n, n - padding} /\ x # 0
        BY <1>3
      <3> QED
        BY <3>1, <3>2
    <2>3. P \in SUBSET SUBSET S /\ UNION P = S
      <3>1. \A d \in S : f[d] \in 1 .. k
        BY <2>1
      <3> QED
        BY <2>1, <3>1
    <2>4. ASSUME NEW B \in P, NEW C \in P, B # C
          PROVE  B \intersect C = {}
      <3>1. PICK b \in 1 .. k : B = {d \in S : f[d] = b}
        BY <2>1
      <3>2. PICK c \in 1 .. k : C = {d \in S : f[d] = c}
        BY <2>1
      <3>3. b # c
        BY <2>4, <3>1, <3>2
      <3> QED
        BY <3>1, <3>2, <3>3
    <2>5. IsFiniteSet(P) /\ Cardinality(P) <= k
      <3> DEFINE g == [c \in 1 .. k |-> {d \in S : f[d] = c}]
      <3>1. g \in Surjection(1 .. k, P)
        BY <2>1 DEF Surjection
      <3>2. IsFiniteSet(1 .. k) /\ Cardinality(1 .. k) = k
        <4>1. 1 \in Int /\ k \in Int /\ (IF 1 > k THEN 0 ELSE k - 1 + 1) = k
          OBVIOUS
        <4> QED
          BY <4>1, FS_Interval
      <3> HIDE DEF g
      <3>3. IsFiniteSet(P) /\ Cardinality(P) <= Cardinality(1 .. k)
        BY <3>1, <3>2, FS_Surjection
      <3> QED
        BY <3>2, <3>3
    <2>6. \A B \in P : IsFiniteSet(B) /\ B # {}
      <3>1. \A B \in P : IsFiniteSet(B)
        BY <2>3, FS_Subset
      <3> QED
        BY <2>2, <3>1, FS_EmptySet
    <2>7. /\ \A B, C \in P : Cardinality(B) # n /\ Cardinality(C) # n => B = C
          /\ padding # 0 <=> \E B \in P : Cardinality(B) # n
      BY <1>3, <2>2, <2>3, <2>4, <2>5, SmallSets
    <2> QED
      BY <1>2, <2>2, <2>3, <2>4, <2>6, <2>7 DEF Sharing
  <1>5. ASSUME NEW P \in Sharing(s, n, padding)
        PROVE  P \in Partitions(S, n)
    <2>1. /\ P \in SUBSET SUBSET S /\ UNION P = S
          /\ \A B, C \in P : B # C => B \intersect C = {}
          /\ \A B \in P : IsFiniteSet(B) /\ B # {} /\ Cardinality(B) \in {n, n - padding}
          /\ \A B, C \in P : Cardinality(B) # n /\ Cardinality(C) # n => B = C
          /\ padding # 0 <=> \E B \in P : Cardinality(B) # n
      BY <1>2 DEF Sharing
    <2>2. IsFiniteSet(P)
      <3>1. IsFiniteSet(SUBSET S)
        BY FS_SUBSET
      <3> QED
        BY <2>1, <3>1, FS_Subset
    <2>3. Cardinality(P) = k
      BY <1>3, <2>1, <2>2, SetsCount
    <2>4. PICK e : e \in Bijection(1 .. k, P)
      BY <2>2, <2>3, FS_CardinalityType DEF ExistsBijection
    <2>5. /\ e \in [1 .. k -> P]
          /\ \A a, b \in 1 .. k : e[a] = e[b] => a = b
          /\ \A B \in P : \E a \in 1 .. k : e[a] = B
      BY <2>4, BijectionIs
    <2> DEFINE f == [d \in S |-> CHOOSE c \in 1 .. k : d \in e[c]]
    <2>6. \A d \in S : f[d] \in 1 .. k /\ d \in e[f[d]]
      <3> SUFFICES ASSUME NEW d \in S
                   PROVE  f[d] \in 1 .. k /\ d \in e[f[d]]
        OBVIOUS
      <3>1. \E c \in 1 .. k : d \in e[c]
        BY <2>1, <2>5
      <3>2. (CHOOSE c \in 1 .. k : d \in e[c]) \in 1 .. k
              /\ d \in e[CHOOSE c \in 1 .. k : d \in e[c]]
        BY <3>1, Zenon
      <3>3. f[d] = CHOOSE c \in 1 .. k : d \in e[c]
        BY Zenon
      <3> QED
        BY <3>2, <3>3
    <2>7. f \in [S -> 1 .. k]
      BY <2>6
    <2> HIDE DEF f
    <2>8. ASSUME NEW c \in 1 .. k
          PROVE  {d \in S : f[d] = c} = e[c]
      <3>1. e[c] \in P /\ e[c] \subseteq S
        BY <2>1, <2>5
      <3>2. \A d \in e[c] : f[d] = c
        <4> SUFFICES ASSUME NEW d \in e[c]
                     PROVE  f[d] = c
          OBVIOUS
        <4>1. d \in S /\ f[d] \in 1 .. k /\ d \in e[f[d]] /\ e[f[d]] \in P
          BY <2>5, <2>6, <3>1
        <4>2. e[f[d]] = e[c]
          BY <2>1, <3>1, <4>1
        <4> QED
          BY <2>5, <4>1, <4>2
      <3> QED
        BY <2>6, <3>1, <3>2
    <2>9. P = {{d \in S : f[d] = c} : c \in 1 .. k}
      <3>1. {{d \in S : f[d] = c} : c \in 1 .. k} = {e[c] : c \in 1 .. k}
        BY <2>8
      <3>2. P = {e[c] : c \in 1 .. k}
        BY <2>5
      <3> QED
        BY <3>1, <3>2
    <2>10. \A B \in P : Cardinality(B) \in {n, Cardinality(S) % n} \ {0}
      <3>1. \A B \in P : padding = 0 => Cardinality(B) = n
        BY <2>1
      <3> QED
        BY <1>3, <2>1, <3>1
    <2>11. k = (Cardinality(S) + n - 1) \div n
      BY <1>3
    <2>12. \E h \in [S -> 1 .. k] : P = {{d \in S : h[d] = c} : c \in 1 .. k}
      BY <2>7, <2>9, Zenon
    <2> QED
      BY <2>10, <2>11, <2>12, PartitionsUnfold
  <1> QED
    BY <1>2, <1>4, <1>5

-----------------------------------------------------------------------------
(* The enumeration is complete, and repeats nothing.                        *)

LEMMA PaddedReady ==
  ASSUME NEW devices \in Seq(Dev), IsInjective(devices),
         NEW size \in Nat, size # 0, Len(devices) >= size
  PROVE  /\ Padding(Len(devices), size) \in Nat /\ Padding(Len(devices), size) < size
         /\ Padded(devices, size) \in Ready(size, Padding(Len(devices), size))
         /\ Real(Padded(devices, size)) = ToSet(devices)
         /\ NoGPU \in ToSet(Padded(devices, size)) <=> Padding(Len(devices), size) # 0
  <1>1. Len(devices) \in Nat
    BY InSeq
  <1>2. Padding(Len(devices), size) \in Nat /\ Padding(Len(devices), size) < size
    BY <1>1, PaddingFills
  <1>3. /\ Padded(devices, size) \in Divisible(size, Padding(Len(devices), size))
        /\ ToSet(Padded(devices, size)) \subseteq ToSet(devices) \union {NoGPU}
        /\ ToSet(devices) \subseteq ToSet(Padded(devices, size))
        /\ Trailing(Padded(devices, size))
        /\ NoGPU \in ToSet(Padded(devices, size)) <=> Padding(Len(devices), size) # 0
    BY PaddedDivisible
  <1>4. NoGPU \notin ToSet(devices)
    BY ToSetBound, DevIs
  <1>5. Real(Padded(devices, size)) = ToSet(devices)
    BY <1>3, <1>4 DEF Real
  <1> QED
    BY <1>2, <1>3, <1>5 DEF Ready

LEMMA Enumerated ==
  ASSUME NEW devices \in Seq(Dev), IsInjective(devices),
         NEW size \in Nat, size > 1, Len(devices) >= size
  PROVE  /\ GPUPartitions(devices, size) \in Seq(Seq(Seq(Int)))
         /\ {BlocksOf(GPUPartitions(devices, size)[i]) : i \in DOMAIN GPUPartitions(devices, size)}
              = Partitions(ToSet(devices), size)
         /\ Len(GPUPartitions(devices, size)) = Cardinality(Partitions(ToSet(devices), size))
  <1>1. size # 0 /\ Len(devices) \in Nat
    BY InSeq
  <1>2. PICK padding : padding = Padding(Len(devices), size)
    OBVIOUS
  <1>3. PICK s : s = Padded(devices, size)
    OBVIOUS
  <1>4. /\ padding \in Nat /\ padding < size /\ s \in Ready(size, padding)
        /\ Real(s) = ToSet(devices)
        /\ NoGPU \in ToSet(s) <=> padding # 0
    BY <1>1, <1>2, <1>3, PaddedReady
  <1>5. PICK ps : ps = GPUPartitions(devices, size)
    OBVIOUS
  <1>6. ps = Iterations(size, padding)[s]
    <2>1. ~(size > Len(devices)) /\ size # 1
      BY <1>1
    <2> QED
      BY <1>2, <1>3, <1>5, <2>1 DEF GPUPartitions, Padded
  <1>7. /\ ps \in Seq(PartitionsOf(s, size, padding))
        /\ Completes(ps, s, size, padding) /\ Tells(BlocksFn, ps)
    BY <1>4, <1>6, IterationsAre
  <1>8. Partitions(ToSet(devices), size) = Sharing(s, size, padding)
    <2>1. IsFiniteSet(ToSet(devices)) /\ Cardinality(ToSet(devices)) = Len(devices)
      BY DistinctDevices
    <2> QED
      BY <1>1, <1>2, <1>4, <2>1, PartitionsAre
  <1>9. PICK A : A = Sharing(s, size, padding)
    OBVIOUS
  <1>10. /\ Len(ps) \in Nat /\ DOMAIN ps = 1 .. Len(ps)
         /\ \A i \in DOMAIN ps : ps[i] \in Seq(Seq(Int)) /\ BlocksOf(ps[i]) \in A
    <2>1. Len(ps) \in Nat /\ DOMAIN ps = 1 .. Len(ps)
      BY <1>7, InSeq
    <2>2. ASSUME NEW i \in DOMAIN ps
          PROVE  ps[i] \in Seq(Seq(Int)) /\ BlocksOf(ps[i]) \in A
      <3>1. ps[i] \in PartitionsOf(s, size, padding)
        BY <1>7, InSeq
      <3>2. s \in Seq(Int)
        BY <1>4, ReadyIs
      <3>3. BlocksOf(ps[i]) \in Sharing(s, size, padding)
        BY <1>4, <3>1, <3>2, Shared
      <3> QED
        BY <1>9, <3>1, <3>3 DEF PartitionsOf
    <2> QED
      BY <2>1, <2>2
  <1>11. \A P \in A : \E i \in DOMAIN ps : BlocksOf(ps[i]) = P
    BY <1>7, <1>9 DEF Completes, ToSet
  <1>12. {BlocksOf(ps[i]) : i \in DOMAIN ps} = A
    BY <1>10, <1>11
  <1>13. Cardinality(A) = Len(ps)
    <2> DEFINE b == [i \in 1 .. Len(ps) |-> BlocksOf(ps[i])]
    <2>1. b \in [1 .. Len(ps) -> A]
      BY <1>10
    <2>2. \A i, j \in 1 .. Len(ps) : b[i] = b[j] => i = j
      <3>1. \A i \in DOMAIN ps : BlocksFn[ps[i]] = BlocksOf(ps[i])
        BY <1>10 DEF BlocksFn
      <3> QED
        BY <1>7, <1>10, <3>1 DEF Tells
    <2>3. \A P \in A : \E i \in 1 .. Len(ps) : b[i] = P
      BY <1>10, <1>11
    <2> HIDE DEF b
    <2>4. b \in Bijection(1 .. Len(ps), A)
      BY <2>1, <2>2, <2>3, BijectionIs
    <2>5. IsFiniteSet(1 .. Len(ps)) /\ Cardinality(1 .. Len(ps)) = Len(ps)
      BY <1>7, <1>10, SeqPlaces
    <2> QED
      BY <2>4, <2>5, FS_Bijection DEF ExistsBijection
  <1>14. ps \in Seq(Seq(Seq(Int)))
    <2>1. ps \in [1 .. Len(ps) -> Seq(Seq(Int))] /\ Len(ps) \in Int
      BY <1>7, <1>10, InSeq
    <2> QED
      BY <2>1, FunctionIsSeq
  <1> QED
    BY <1>5, <1>8, <1>9, <1>12, <1>13, <1>14

LEMMA AllEnumerated ==
  ASSUME TypeOK, ScanInv
  PROVE  EnumeratesPartitions
  <1> SUFFICES ASSUME pc = "look", order = << >>, req \in 2 .. Len(seen)
               PROVE  LET ps        == GPUPartitions(seen, req)
                          Blocks(p) == {ToSet(p[i]) \ {NoGPU} : i \in DOMAIN p}
                      IN  /\ {Blocks(ps[i]) : i \in DOMAIN ps} = Partitions(ToSet(seen), req)
                          /\ Len(ps) = Cardinality(Partitions(ToSet(seen), req))
    BY DEF EnumeratesPartitions
  <1>1. seen \in Seq(Dev) /\ IsInjective(seen) /\ Len(seen) \in Nat
    BY Found
  <1>2. req \in Nat /\ req > 1 /\ Len(seen) >= req
    BY <1>1
  <1> QED
    BY <1>1, <1>2, Enumerated DEF BlocksOf, Real

(***************************************************************************)
(* The best-effort runner compares what there is to compare: for every     *)
(* number of devices and every size, iterateGPUPartitions                  *)
(* (besteffort_policy.go:84-126) calls back with every partition of the    *)
(* free devices into sets of the requested size and one smaller rest, and  *)
(* with each of them once.                                                 *)
(***************************************************************************)
THEOREM EnumerationComplete == Spec => []EnumeratesPartitions
  <1>1. TypeOK /\ ScanInv => EnumeratesPartitions
    BY AllEnumerated
  <1> QED
    BY <1>1, TypeCorrect, ScanHolds, PTL

-----------------------------------------------------------------------------
(* Sums.                                                                    *)

\* F has the sum of f over each subset of S, in whatever order it is added up
Adds(F, f, S) ==
  /\ F \in [SUBSET S -> Nat] /\ F[{}] = 0
  /\ \A T \in SUBSET S : \A x \in T : F[T] = f[x] + F[T \ {x}]

\* a fold over a finite set is its sum, whichever element it takes first
LEMMA FoldAdds ==
  ASSUME NEW S, IsFiniteSet(S), NEW f \in [S -> Nat], NEW F, Folds(F, f, S)
  PROVE  Adds(F, f, S)
  <1>1. F \in [SUBSET S -> Nat]
    BY FoldExists
  <1>2. F[{}] = 0
    BY DEF Folds
  <1> DEFINE Good == {T \in SUBSET S : \A x \in T : F[T] = f[x] + F[T \ {x}]}
  <1>3. ASSUME NEW T \in SUBSET S, \A U \in SUBSET T : U # T => U \in Good
        PROVE  T \in Good
    <2> SUFFICES ASSUME NEW x \in T
                 PROVE  F[T] = f[x] + F[T \ {x}]
      OBVIOUS
    <2>1. PICK y : y = OneOf(T)
      OBVIOUS
    <2>2. y \in T
      BY <2>1, OneOfIs
    <2>3. F[T] = f[y] + F[T \ {y}]
      BY <2>1 DEF Folds
    <2>4. CASE x = y
      BY <2>3, <2>4
    <2>5. CASE x # y
      <3>1. F[T \ {y}] = f[x] + F[(T \ {y}) \ {x}]
        BY <1>3, <2>2, <2>5
      <3>2. F[T \ {x}] = f[y] + F[(T \ {x}) \ {y}]
        BY <1>3, <2>2, <2>5
      <3>3. (T \ {y}) \ {x} = (T \ {x}) \ {y}
        OBVIOUS
      <3>4. f[x] \in Nat /\ f[y] \in Nat /\ F[(T \ {y}) \ {x}] \in Nat
        BY <1>1, <2>2
      <3> QED
        <4>1. PICK r : r = F[(T \ {y}) \ {x}]
          OBVIOUS
        <4>2. F[T] = f[y] + (f[x] + r) /\ F[T \ {x}] = f[y] + r
          BY <2>3, <3>1, <3>2, <3>3, <4>1, Zenon
        <4>3. r \in Nat /\ f[x] \in Nat /\ f[y] \in Nat
          BY <3>4, <4>1, Zenon
        <4>4. f[y] + (f[x] + r) = f[x] + (f[y] + r)
          BY <4>3
        <4> QED
          BY <4>2, <4>4, Zenon
    <2> QED
      BY <2>4, <2>5
  <1>4. \A T \in SUBSET S : T \in Good
    <2>1. Good \in SUBSET SUBSET S
      OBVIOUS
    <2> HIDE DEF Good
    <2> QED
      BY <1>3, <2>1, SubsetInduction
  <1> QED
    BY <1>1, <1>2, <1>4 DEF Adds

LEMMA SumAdds ==
  ASSUME NEW S, IsFiniteSet(S), NEW f \in [S -> Nat]
  PROVE  \E F : Adds(F, f, S) /\ SumFunction(f) = F[S]
  <1>1. PICK F : Folds(F, f, S) /\ SumFunction(f) = F[S]
    BY SumIs
  <1>2. Adds(F, f, S)
    BY <1>1, FoldAdds
  <1> QED
    BY <1>1, <1>2

\* two sums of the same numbers, but for zeros
LEMMA AddsMatch ==
  ASSUME NEW S, IsFiniteSet(S), NEW f \in [S -> Nat], NEW F, Adds(F, f, S),
         NEW T, IsFiniteSet(T), NEW g \in [T -> Nat], NEW G, Adds(G, g, T),
         NEW A \in SUBSET S, NEW b \in Bijection(A, T),
         \A x \in A : f[x] = g[b[x]], \A x \in S \ A : f[x] = 0
  PROVE  F[S] = G[T]
  <1>3. /\ F \in [SUBSET S -> Nat] /\ F[{}] = 0
        /\ \A U \in SUBSET S : \A x \in U : F[U] = f[x] + F[U \ {x}]
    BY DEF Adds
  <1>4. /\ G \in [SUBSET T -> Nat] /\ G[{}] = 0
        /\ \A U \in SUBSET T : \A x \in U : G[U] = g[x] + G[U \ {x}]
    BY DEF Adds
  <1>5. /\ b \in [A -> T] /\ \A x, y \in A : b[x] = b[y] => x = y
        /\ \A t \in T : \E x \in A : b[x] = t
    BY DEF Bijection, Injection, Surjection, IsInjective
  <1> DEFINE img(U) == {b[x] : x \in U \intersect A}
             Good   == {U \in SUBSET S : F[U] = G[img(U)]}
  <1>6. ASSUME NEW U \in SUBSET S, \A V \in SUBSET U : V # U => V \in Good
        PROVE  U \in Good
    <2>1. CASE U = {}
      <3>1. img(U) = {}
        BY <2>1
      <3> QED
        BY <1>3, <1>4, <2>1, <3>1
    <2>2. CASE U # {}
      <3>1. PICK x : x \in U
        BY <2>2
      <3>2. F[U] = f[x] + F[U \ {x}]
        BY <1>3, <3>1
      <3>3. F[U \ {x}] = G[img(U \ {x})]
        BY <1>6, <3>1
      <3>4. CASE x \in A
        <4>1. img(U) \in SUBSET T /\ b[x] \in img(U)
          BY <1>5, <3>1, <3>4
        <4>2. img(U) \ {b[x]} = img(U \ {x})
          BY <1>5, <3>1, <3>4
        <4>3. G[img(U)] = g[b[x]] + G[img(U) \ {b[x]}]
          <5> HIDE DEF img
          <5> QED
            BY <1>4, <4>1
        <4>4. f[x] = g[b[x]]
          BY <3>4
        <4> HIDE DEF img
        <4> QED
          BY <3>2, <3>3, <4>2, <4>3, <4>4
      <3>5. CASE x \notin A
        <4>1. img(U \ {x}) = img(U)
          BY <3>5
        <4>2. f[x] = 0 /\ F[U \ {x}] \in Nat
          BY <1>3, <3>1, <3>5
        <4> HIDE DEF img
        <4> QED
          BY <3>2, <3>3, <4>1, <4>2
      <3> QED
        BY <3>4, <3>5
    <2> QED
      BY <2>1, <2>2
  <1>7. \A U \in SUBSET S : U \in Good
    <2>1. Good \in SUBSET SUBSET S
      OBVIOUS
    <2> HIDE DEF Good
    <2> QED
      BY <1>6, <2>1, SubsetInduction
  <1>8. img(S) = T
    BY <1>5
  <1>9. F[S] = G[img(S)]
    BY <1>7
  <1> QED
    BY <1>8, <1>9

LEMMA AddsSame ==
  ASSUME NEW S, IsFiniteSet(S), NEW f \in [S -> Nat],
         NEW F, Adds(F, f, S), NEW G, Adds(G, f, S)
  PROVE  F[S] = G[S]
  <1>1. PICK b : b = [x \in S |-> x]
    OBVIOUS
  <1>2. b \in Bijection(S, S)
    BY <1>1, BijectionIs
  <1>3. S \in SUBSET S /\ (\A x \in S : f[x] = f[b[x]]) /\ \A x \in S \ S : f[x] = 0
    BY <1>1
  <1> QED
    BY <1>2, <1>3, AddsMatch

\* a bijection that keeps the values keeps the sum, though it leave out what adds 0
LEMMA SumMatch ==
  ASSUME NEW S, IsFiniteSet(S), NEW f \in [S -> Nat],
         NEW T, IsFiniteSet(T), NEW g \in [T -> Nat],
         NEW A \in SUBSET S, NEW b \in Bijection(A, T),
         \A x \in A : f[x] = g[b[x]], \A x \in S \ A : f[x] = 0
  PROVE  SumFunction(f) = SumFunction(g)
  <1>1. PICK F : Adds(F, f, S) /\ SumFunction(f) = F[S]
    BY SumAdds
  <1>2. PICK G : Adds(G, g, T) /\ SumFunction(g) = G[T]
    BY SumAdds
  <1> QED
    BY <1>1, <1>2, AddsMatch

\* a bijection that keeps the values keeps the sum
LEMMA SumMoved ==
  ASSUME NEW S, IsFiniteSet(S), NEW f \in [S -> Nat],
         NEW T, IsFiniteSet(T), NEW g \in [T -> Nat],
         NEW b \in Bijection(S, T), \A x \in S : f[x] = g[b[x]]
  PROVE  SumFunction(f) = SumFunction(g)
  <1>1. PICK A : A = S
    OBVIOUS
  <1>2. /\ A \in SUBSET S /\ b \in Bijection(A, T)
        /\ \A x \in A : f[x] = g[b[x]]
        /\ \A x \in S \ A : f[x] = 0
    BY <1>1
  <1> QED
    BY <1>2, SumMatch

\* a sum of naturals is 0 only if all of them are
LEMMA SumZero ==
  ASSUME NEW S, IsFiniteSet(S), NEW f \in [S -> Nat]
  PROVE  SumFunction(f) = 0 <=> \A x \in S : f[x] = 0
  <1>1. PICK F : Adds(F, f, S) /\ SumFunction(f) = F[S]
    BY SumAdds
  <1>2. /\ F \in [SUBSET S -> Nat] /\ F[{}] = 0
        /\ \A U \in SUBSET S : \A x \in U : F[U] = f[x] + F[U \ {x}]
    BY <1>1 DEF Adds
  <1>3. ASSUME NEW x \in S
        PROVE  F[S] = 0 => f[x] = 0
    <2>1. F[S] = f[x] + F[S \ {x}] /\ F[S \ {x}] \in Nat /\ f[x] \in Nat
      BY <1>2
    <2> QED
      BY <2>1
  <1>4. ASSUME \A x \in S : f[x] = 0
        PROVE  F[S] = 0
    <2> DEFINE Good == {U \in SUBSET S : F[U] = 0}
    <2>1. ASSUME NEW U \in SUBSET S, \A V \in SUBSET U : V # U => V \in Good
          PROVE  U \in Good
      <3>1. CASE U = {}
        BY <1>2, <3>1
      <3>2. CASE U # {}
        <4>1. PICK x : x \in U
          BY <3>2
        <4>2. F[U] = f[x] + F[U \ {x}] /\ f[x] = 0 /\ F[U \ {x}] = 0
          BY <1>2, <1>4, <2>1, <4>1
        <4> QED
          BY <4>2
      <3> QED
        BY <3>1, <3>2
    <2>2. \A U \in SUBSET S : U \in Good
      <3>1. Good \in SUBSET SUBSET S
        OBVIOUS
      <3> HIDE DEF Good
      <3> QED
        BY <2>1, <3>1, SubsetInduction
    <2> QED
      BY <2>2
  <1> QED
    BY <1>1, <1>3, <1>4

\* the unordered pairs of a set
PairsOf(S) == {e \in SUBSET S : Cardinality(e) = 2}

\* the scores of the links within S
LinkScores(S) == [e \in PairsOf(S) |-> PairScore(Min(e), Max(e))]

LEMMA LinksAre ==
  ASSUME NEW S, IsFiniteSet(S)
  PROVE  /\ IsFiniteSet(PairsOf(S)) /\ LinkScores(S) \in [PairsOf(S) -> Nat]
         /\ Links(S) = SumFunction(LinkScores(S)) /\ Links(S) \in Nat
  <1> DEFINE E       == PairsOf(S)
             f       == LinkScores(S)
             IsIt(F) == F = [T \in SUBSET E |->
                               IF T = {} THEN 0
                               ELSE PairScore(Min(OneOf(T)), Max(OneOf(T)))
                                      + F[T \ {OneOf(T)}]]
             iter    == CHOOSE F : IsIt(F)
  <1>1. IsFiniteSet(E)
    BY FS_SUBSET, FS_Subset DEF PairsOf
  <1>2. f \in [E -> Nat]
    BY PairScoreIs DEF LinkScores
  <1>3. \A T \in SUBSET E : T # {} => f[OneOf(T)] = PairScore(Min(OneOf(T)), Max(OneOf(T)))
    BY OneOfIs DEF LinkScores
  <1>4. ASSUME NEW F
        PROVE  IsIt(F) <=> Folds(F, f, E)
    <2> DEFINE h == [T \in SUBSET E |-> IF T = {} THEN 0
                                        ELSE PairScore(Min(OneOf(T)), Max(OneOf(T)))
                                               + F[T \ {OneOf(T)}]]
               k == [T \in SUBSET E |-> IF T = {} THEN 0
                                        ELSE f[OneOf(T)] + F[T \ {OneOf(T)}]]
    <2>1. h = k
      BY <1>3
    <2>2. IsIt(F) <=> F = h
      OBVIOUS
    <2>3. Folds(F, f, E) <=> F = k
      BY DEF Folds
    <2> QED
      BY <2>1, <2>2, <2>3
  <1>5. Links(S) = iter[E]
    BY DEF Links, MapThenSumSet, MapThenFoldSet, OneOf, PairsOf
  <1> HIDE DEF IsIt, E, f
  <1>6. \E F : IsIt(F)
    BY <1>1, <1>2, <1>4, FoldExists
  <1>7. IsIt(iter)
    BY <1>6
  <1> HIDE DEF iter
  <1>8. Folds(iter, f, E)
    BY <1>4, <1>7
  <1>9. Adds(iter, f, E)
    BY <1>1, <1>2, <1>8, FoldAdds
  <1>10. PICK G : Adds(G, f, E) /\ SumFunction(f) = G[E]
    BY <1>1, <1>2, SumAdds
  <1>11. G[E] = iter[E]
    BY <1>1, <1>2, <1>9, <1>10, AddsSame
  <1>12. SumFunction(f) \in Nat
    BY <1>1, <1>2, SumIs
  <1> QED
    BY <1>1, <1>2, <1>5, <1>10, <1>11, <1>12 DEF E, f

\* what a partition scores, as a set of sets
Value(P) == MapThenSumSet(Links, P)

LEMMA ValueIs ==
  ASSUME NEW P, IsFiniteSet(P), \A B \in P : IsFiniteSet(B)
  PROVE  /\ [B \in P |-> Links(B)] \in [P -> Nat]
         /\ Value(P) = SumFunction([B \in P |-> Links(B)])
  <1> DEFINE f       == [B \in P |-> Links(B)]
             IsIt(F) == F = [T \in SUBSET P |->
                               IF T = {} THEN 0
                               ELSE Links(OneOf(T)) + F[T \ {OneOf(T)}]]
             iter    == CHOOSE F : IsIt(F)
  <1>1. f \in [P -> Nat]
    BY LinksAre
  <1>2. \A T \in SUBSET P : T # {} => f[OneOf(T)] = Links(OneOf(T))
    BY OneOfIs
  <1>3. ASSUME NEW F
        PROVE  IsIt(F) <=> Folds(F, f, P)
    <2> DEFINE h == [T \in SUBSET P |-> IF T = {} THEN 0
                                        ELSE Links(OneOf(T)) + F[T \ {OneOf(T)}]]
               k == [T \in SUBSET P |-> IF T = {} THEN 0
                                        ELSE f[OneOf(T)] + F[T \ {OneOf(T)}]]
    <2>1. h = k
      BY <1>2
    <2>2. IsIt(F) <=> F = h
      OBVIOUS
    <2>3. Folds(F, f, P) <=> F = k
      BY DEF Folds
    <2> QED
      BY <2>1, <2>2, <2>3
  <1>4. Value(P) = iter[P]
    BY DEF Value, MapThenSumSet, MapThenFoldSet, OneOf
  <1> HIDE DEF IsIt, f
  <1>5. \E F : IsIt(F)
    BY <1>1, <1>3, FoldExists
  <1>6. IsIt(iter)
    BY <1>5
  <1> HIDE DEF iter
  <1>7. Folds(iter, f, P)
    BY <1>3, <1>6
  <1>8. Adds(iter, f, P)
    BY <1>1, <1>7, FoldAdds
  <1>9. PICK G : Adds(G, f, P) /\ SumFunction(f) = G[P]
    BY <1>1, SumAdds
  <1>10. G[P] = iter[P]
    BY <1>1, <1>8, <1>9, AddsSame
  <1> QED
    BY <1>1, <1>4, <1>9, <1>10 DEF f

-----------------------------------------------------------------------------
(* Scores, as sums over sets.                                               *)

\* two elements
LEMMA PairIs ==
  /\ \A x, y : x # y => IsFiniteSet({x, y}) /\ Cardinality({x, y}) = 2
  /\ \A e : IsFiniteSet(e) /\ Cardinality(e) = 2 => \E x, y : x # y /\ e = {x, y}
  <1>1. ASSUME NEW x, NEW y, x # y
        PROVE  IsFiniteSet({x, y}) /\ Cardinality({x, y}) = 2
    <2>1. IsFiniteSet({x}) /\ Cardinality({x}) = 1
      BY FS_Singleton
    <2>2. /\ IsFiniteSet({x} \union {y})
          /\ Cardinality({x} \union {y}) = IF y \in {x} THEN Cardinality({x})
                                           ELSE Cardinality({x}) + 1
      BY <2>1, FS_AddElement
    <2>3. {x} \union {y} = {x, y} /\ y \notin {x}
      BY <1>1
    <2> QED
      BY <2>1, <2>2, <2>3
  <1>2. ASSUME NEW e, IsFiniteSet(e), Cardinality(e) = 2
        PROVE  \E x, y : x # y /\ e = {x, y}
    <2>1. e # {}
      BY <1>2, FS_EmptySet
    <2>2. PICK x : x \in e
      BY <2>1
    <2>3. IsFiniteSet(e \ {x}) /\ Cardinality(e \ {x}) = 1
      <3>1. IsFiniteSet(e \ {x}) /\ Cardinality(e \ {x}) = Cardinality(e) - 1
        BY <1>2, <2>2, FS_RemoveElement
      <3> QED
        BY <1>2, <3>1
    <2>4. PICK y : e \ {x} = {y}
      BY <2>3, FS_Singleton
    <2>5. x # y /\ e = {x, y}
      BY <2>2, <2>4
    <2> QED
      BY <2>5
  <1> QED
    BY <1>1, <1>2

\* the score of a pair does not depend on its order
LEMMA PairScored ==
  ASSUME NEW x \in Int, NEW y \in Int, x # y
  PROVE  PairScore(Min({x, y}), Max({x, y})) = PairScore(x, y)
  <1>1. PairScore(x, y) = PairScore(y, x)
    <2>1. {x, y} = {y, x}
      OBVIOUS
    <2>2. Origin(x, y) = Origin(y, x)
      BY <2>1, Zenon DEF Origin
    <2>3. Topology(x, y) = Topology(y, x)
      BY <2>1, <2>2, Zenon DEF Topology
    <2> QED
      BY <2>1, <2>3 DEF PairScore
  <1>2. ASSUME NEW a \in Int, NEW b \in Int, a < b
        PROVE  Min({a, b}) = a /\ Max({a, b}) = b
    <2>1. Min({a, b}) \in {a, b} /\ \A k \in {a, b} : Min({a, b}) <= k
      <3>1. \E k \in {a, b} : \A j \in {a, b} : k <= j
        BY <1>2
      <3> QED
        BY <3>1, Zenon DEF Min
    <2>2. Max({a, b}) \in {a, b} /\ \A k \in {a, b} : Max({a, b}) >= k
      <3>1. \E k \in {a, b} : \A j \in {a, b} : k >= j
        BY <1>2
      <3> QED
        BY <3>1, Zenon DEF Max
    <2> QED
      BY <1>2, <2>1, <2>2
  <1>3. CASE x < y
    BY <1>2, <1>3
  <1>4. CASE y < x
    <2>1. Min({y, x}) = y /\ Max({y, x}) = x
      BY <1>2, <1>4
    <2>2. {x, y} = {y, x}
      OBVIOUS
    <2> QED
      BY <1>1, <2>1, <2>2, Zenon
  <1> QED
    BY <1>3, <1>4

\* nothing is scored for the padding
LEMMA SetScored ==
  ASSUME NEW s \in Seq(Int), Distinct(s)
  PROVE  SetScore(s) = Links(Real(s)) /\ IsFiniteSet(Real(s))
  <1> DEFINE S == {ij \in (DOMAIN s) \X (DOMAIN s) : ij[1] < ij[2]}
             f == [ij \in S |-> PairScore(s[ij[1]], s[ij[2]])]
             A == {ij \in S : s[ij[1]] # NoGPU /\ s[ij[2]] # NoGPU}
             b == [ij \in A |-> {s[ij[1]], s[ij[2]]}]
             T == PairsOf(Real(s))
             g == LinkScores(Real(s))
  <1>1. IsFiniteSet(Real(s))
    <2>1. DOMAIN s \in SUBSET DOMAIN s
      OBVIOUS
    <2>2. IsFiniteSet({s[k] : k \in DOMAIN s} \ {NoGPU})
      BY <2>1, RealCount
    <2> QED
      BY <2>2 DEF Real, ToSet
  <1>2. /\ DOMAIN s \subseteq Int
        /\ \A i \in DOMAIN s : s[i] \in Int /\ s[i] \in ToSet(s)
        /\ \A i, j \in DOMAIN s : s[i] = s[j] /\ s[i] # NoGPU => i = j
    BY InSeq DEF Distinct, ToSet
  <1>3. IsFiniteSet(S)
    <2>1. IsFiniteSet((DOMAIN s) \X (DOMAIN s))
      BY SeqPlaces, FS_Product
    <2> QED
      BY <2>1, FS_Subset
  <1>4. f \in [S -> Nat]
    BY PairScoreIs
  <1>5. \A i, j \in DOMAIN s : i < j /\ s[i] # NoGPU /\ s[j] # NoGPU =>
          s[i] # s[j] /\ s[i] \in Real(s) /\ s[j] \in Real(s)
    BY <1>2 DEF Real
  <1>6. b \in [A -> T]
    <2> SUFFICES ASSUME NEW ij \in A
                 PROVE  {s[ij[1]], s[ij[2]]} \in T
      OBVIOUS
    <2>1. s[ij[1]] # s[ij[2]] /\ s[ij[1]] \in Real(s) /\ s[ij[2]] \in Real(s)
      BY <1>5
    <2>2. Cardinality({s[ij[1]], s[ij[2]]}) = 2
      BY <2>1, PairIs
    <2> QED
      BY <2>1, <2>2 DEF PairsOf
  <1>7. ASSUME NEW x \in A, NEW y \in A, b[x] = b[y]
        PROVE  x = y
    <2>1. PICK i \in DOMAIN s, j \in DOMAIN s : x = <<i, j>>
      OBVIOUS
    <2>2. PICK k \in DOMAIN s, l \in DOMAIN s : y = <<k, l>>
      OBVIOUS
    <2>3. i < j /\ k < l /\ s[i] # NoGPU /\ s[j] # NoGPU /\ s[k] # NoGPU /\ s[l] # NoGPU
      BY <2>1, <2>2
    <2>4. {s[i], s[j]} = {s[k], s[l]}
      BY <1>7, <2>1, <2>2
    <2>5. \/ s[i] = s[k] /\ s[j] = s[l]
          \/ s[i] = s[l] /\ s[j] = s[k]
      BY <2>4
    <2>6. \/ i = k /\ j = l
          \/ i = l /\ j = k
      BY <1>2, <2>3, <2>5
    <2>7. i \in Int /\ j \in Int /\ k \in Int /\ l \in Int
      BY <1>2
    <2>8. i = k /\ j = l
      BY <2>3, <2>6, <2>7
    <2> QED
      BY <2>1, <2>2, <2>8
  <1>8. ASSUME NEW e \in T
        PROVE  \E x \in A : b[x] = e
    <2>1. e \in SUBSET Real(s) /\ Cardinality(e) = 2 /\ IsFiniteSet(e)
      BY <1>1, FS_Subset DEF PairsOf
    <2>2. PICK c, d : c # d /\ e = {c, d}
      BY <2>1, PairIs
    <2>3. PICK i \in DOMAIN s : s[i] = c /\ c # NoGPU
      BY <2>1, <2>2 DEF Real, ToSet
    <2>4. PICK j \in DOMAIN s : s[j] = d /\ d # NoGPU
      BY <2>1, <2>2 DEF Real, ToSet
    <2>5. i < j \/ j < i
      BY <1>2, <2>2, <2>3, <2>4
    <2>6. CASE i < j
      <3>1. <<i, j>> \in A
        BY <2>3, <2>4, <2>6
      <3>2. b[<<i, j>>] = e
        BY <2>2, <2>3, <2>4, <3>1
      <3> QED
        BY <3>1, <3>2
    <2>7. CASE j < i
      <3>1. <<j, i>> \in A
        BY <2>3, <2>4, <2>7
      <3>2. b[<<j, i>>] = e
        BY <2>2, <2>3, <2>4, <3>1
      <3> QED
        BY <3>1, <3>2
    <2> QED
      BY <2>5, <2>6, <2>7
  <1>9. ASSUME NEW x \in A
        PROVE  f[x] = g[b[x]]
    <2>1. PICK i \in DOMAIN s, j \in DOMAIN s : x = <<i, j>>
      OBVIOUS
    <2>2. f[x] = PairScore(s[i], s[j]) /\ b[x] = {s[i], s[j]} /\ s[i] # s[j]
      BY <1>5, <2>1
    <2>3. b[x] \in T
      BY <1>6
    <2>4. g[b[x]] = PairScore(Min({s[i], s[j]}), Max({s[i], s[j]}))
      BY <2>2, <2>3 DEF LinkScores
    <2>5. s[i] \in Int /\ s[j] \in Int
      BY <1>2
    <2> QED
      BY <2>2, <2>4, <2>5, PairScored
  <1>10. ASSUME NEW x \in S \ A
         PROVE  f[x] = 0
    <2>1. NoGPU \in {s[x[1]], s[x[2]]}
      OBVIOUS
    <2>2. NoGPU \notin Free
      BY DevIs DEF Free
    <2>3. PairScore(s[x[1]], s[x[2]]) = 0
      BY <2>1, <2>2, Zenon DEF PairScore
    <2> QED
      BY <2>3
  <1>11. b \in Bijection(A, T)
    <2> HIDE DEF b, A, T
    <2> QED
      BY <1>6, <1>7, <1>8, BijectionIs
  <1>12. SetScore(s) = SumFunction(f)
    BY DEF SetScore
  <1>13. /\ IsFiniteSet(T) /\ g \in [T -> Nat]
         /\ Links(Real(s)) = SumFunction(g)
    BY <1>1, LinksAre
  <1>14. A \in SUBSET S
    OBVIOUS
  <1> HIDE DEF S, f, A, b, T, g
  <1>15. SumFunction(f) = SumFunction(g)
    BY <1>3, <1>4, <1>9, <1>10, <1>11, <1>13, <1>14, SumMatch
  <1> QED
    BY <1>1, <1>12, <1>13, <1>15

\* the score of a partition is that of its sets of devices
LEMMA PartitionScored ==
  ASSUME NEW size \in Nat, NEW padding \in Nat, padding < size, NEW s \in Seq(Int),
         NEW p \in PartitionsOf(s, size, padding)
  PROVE  /\ PartitionScore(p) = Value(BlocksOf(p))
         /\ \A i \in DOMAIN p : SetScore(p[i]) = Links(Real(p[i]))
  <1> DEFINE f == [i \in DOMAIN p |-> SetScore(p[i])]
             P == BlocksOf(p)
             g == [B \in P |-> Links(B)]
             b == [i \in DOMAIN p |-> Real(p[i])]
  <1>1. /\ p \in Seq(Seq(Int)) /\ IsFiniteSet(DOMAIN p)
        /\ \A i, j \in DOMAIN p : i # j => ToSet(p[i]) \intersect ToSet(p[j]) = {}
    BY SeqPlaces DEF PartitionsOf
  <1>2. ASSUME NEW i \in DOMAIN p
        PROVE  /\ SetScore(p[i]) = Links(Real(p[i])) /\ SetScore(p[i]) \in Nat
               /\ IsFiniteSet(Real(p[i])) /\ Real(p[i]) # {}
    <2>1. /\ p[i] \in Seq(Int) /\ Len(p[i]) = size
          /\ Distinct(p[i]) /\ Whole(p[i], padding)
      BY <1>1, InSeq DEF PartitionsOf
    <2>2. SetScore(p[i]) = Links(Real(p[i]))
      BY <2>1, SetScored
    <2>3. SetScore(p[i]) \in Nat
      BY <2>1, SetScoreIs
    <2>4. IsFiniteSet(Real(p[i])) /\ Real(p[i]) # {}
      BY <2>1, BlockIs
    <2> QED
      BY <2>2, <2>3, <2>4
  <1>3. f \in [DOMAIN p -> Nat]
    BY <1>2
  <1>4. \A B \in P : IsFiniteSet(B)
    BY <1>2 DEF BlocksOf
  <1>5. b \in Bijection(DOMAIN p, P)
    <2>1. b \in [DOMAIN p -> P]
      BY DEF BlocksOf
    <2>2. \A i, j \in DOMAIN p : b[i] = b[j] => i = j
      <3>1. \A i \in DOMAIN p : Real(p[i]) \subseteq ToSet(p[i])
        BY DEF Real
      <3> QED
        BY <1>1, <1>2, <3>1
    <2>3. \A B \in P : \E i \in DOMAIN p : b[i] = B
      BY DEF BlocksOf
    <2> HIDE DEF b, P
    <2> QED
      BY <2>1, <2>2, <2>3, BijectionIs
  <1>6. IsFiniteSet(P)
    <2> HIDE DEF b, P
    <2> QED
      BY <1>1, <1>5, FS_Bijection DEF ExistsBijection
  <1>7. g \in [P -> Nat] /\ Value(P) = SumFunction(g)
    BY <1>4, <1>6, ValueIs
  <1>8. \A i \in DOMAIN p : f[i] = g[b[i]]
    BY <1>2 DEF BlocksOf
  <1>9. PartitionScore(p) = SumFunction(f)
    BY DEF PartitionScore
  <1>10. PICK D : D = DOMAIN p
    OBVIOUS
  <1> HIDE DEF f, b, g, P
  <1>11. SumFunction(f) = SumFunction(g)
    <2>1. IsFiniteSet(D) /\ f \in [D -> Nat]
      BY <1>1, <1>3, <1>10
    <2>2. b \in Bijection(D, P)
      BY <1>5, <1>10
    <2>3. \A i \in D : f[i] = g[b[i]]
      BY <1>8, <1>10
    <2>4. g \in [P -> Nat]
      BY <1>7
    <2> QED
      BY <1>6, <2>1, <2>2, <2>3, <2>4, SumMoved
  <1> QED
    BY <1>2, <1>7, <1>9, <1>11 DEF P

\* when nothing is scored
LEMMA NothingScored ==
  ASSUME NEW s \in Seq(Int)
  PROVE  SetScore(s) = 0 <=> \A i, j \in DOMAIN s : i < j => PairScore(s[i], s[j]) = 0
  <1> DEFINE S == {ij \in (DOMAIN s) \X (DOMAIN s) : ij[1] < ij[2]}
             f == [ij \in S |-> PairScore(s[ij[1]], s[ij[2]])]
  <1>1. IsFiniteSet(S)
    <2>1. IsFiniteSet((DOMAIN s) \X (DOMAIN s))
      BY SeqPlaces, FS_Product
    <2> QED
      BY <2>1, FS_Subset
  <1>2. f \in [S -> Nat]
    BY PairScoreIs
  <1>3. SetScore(s) = SumFunction(f)
    BY DEF SetScore
  <1>4. SumFunction(f) = 0 <=> \A ij \in S : f[ij] = 0
    <2> HIDE DEF S, f
    <2> QED
      BY <1>1, <1>2, SumZero
  <1>5. (\A ij \in S : f[ij] = 0)
          <=> \A i, j \in DOMAIN s : i < j => PairScore(s[i], s[j]) = 0
    <2>1. ASSUME \A ij \in S : f[ij] = 0, NEW i \in DOMAIN s, NEW j \in DOMAIN s, i < j
          PROVE  PairScore(s[i], s[j]) = 0
      <3>1. <<i, j>> \in S /\ f[<<i, j>>] = PairScore(s[i], s[j])
        BY <2>1
      <3> QED
        BY <2>1, <3>1
    <2>2. ASSUME \A i, j \in DOMAIN s : i < j => PairScore(s[i], s[j]) = 0, NEW ij \in S
          PROVE  f[ij] = 0
      BY <2>2
    <2> QED
      BY <2>1, <2>2
  <1> QED
    BY <1>3, <1>4, <1>5

LEMMA NothingInPartition ==
  ASSUME NEW p \in Seq(Seq(Int))
  PROVE  PartitionScore(p) = 0 <=> \A i \in DOMAIN p : SetScore(p[i]) = 0
  <1> DEFINE f == [i \in DOMAIN p |-> SetScore(p[i])]
  <1>1. IsFiniteSet(DOMAIN p) /\ \A i \in DOMAIN p : p[i] \in Seq(Int)
    BY SeqPlaces, InSeq
  <1>2. f \in [DOMAIN p -> Nat]
    BY <1>1, SetScoreIs
  <1>3. PartitionScore(p) = SumFunction(f)
    BY DEF PartitionScore
  <1>4. SumFunction(f) = 0 <=> \A i \in DOMAIN p : f[i] = 0
    <2> HIDE DEF f
    <2> QED
      BY <1>1, <1>2, SumZero
  <1> QED
    BY <1>3, <1>4

-----------------------------------------------------------------------------
(* Two devices are in some partition together.                              *)

\* a finite set has subsets of every size up to its own
LEMMA SubsetOf ==
  ASSUME NEW S, IsFiniteSet(S), NEW n \in Nat, n <= Cardinality(S)
  PROVE  \E B \in SUBSET S : IsFiniteSet(B) /\ Cardinality(B) = n
  <1>1. PICK m \in Nat : m = Cardinality(S) /\ n <= m
    BY FS_CardinalityType
  <1>2. PICK h \in Bijection(1 .. m, S) : TRUE
    BY <1>1, FS_CardinalityType DEF ExistsBijection
  <1>3. h \in [1 .. m -> S] /\ \A i, j \in 1 .. m : h[i] = h[j] => i = j
    BY <1>2, BijectionIs
  <1> DEFINE B == {h[i] : i \in 1 .. n}
             e == [i \in 1 .. n |-> h[i]]
  <1>4. \A i \in 1 .. n : i \in 1 .. m
    BY <1>1
  <1>5. B \in SUBSET S
    BY <1>3, <1>4
  <1>6. e \in Bijection(1 .. n, B)
    <2>1. e \in [1 .. n -> B]
      OBVIOUS
    <2>2. \A i, j \in 1 .. n : e[i] = e[j] => i = j
      BY <1>3, <1>4
    <2>3. \A x \in B : \E i \in 1 .. n : e[i] = x
      OBVIOUS
    <2> HIDE DEF e, B
    <2> QED
      BY <2>1, <2>2, <2>3, BijectionIs
  <1>7. IsFiniteSet(1 .. n) /\ Cardinality(1 .. n) = n
    <2>1. 1 \in Int /\ n \in Int /\ (1 > n <=> n = 0)
      OBVIOUS
    <2> QED
      BY <2>1, FS_Interval
  <1> HIDE DEF e, B
  <1>8. IsFiniteSet(B) /\ Cardinality(B) = n
    BY <1>6, <1>7, FS_Bijection DEF ExistsBijection
  <1> QED
    BY <1>5, <1>8

\* the sets of P share out S: they have size elements, but one may have r
Shares(P, S, size, r) ==
  /\ UNION P = S
  /\ \A B, C \in P : B # C => B \intersect C = {}
  /\ \A B \in P : IsFiniteSet(B) /\ B # {} /\ Cardinality(B) \in {size, r}
  /\ \A B, C \in P : Cardinality(B) # size /\ Cardinality(C) # size => B = C
  /\ r # size <=> \E B \in P : Cardinality(B) # size

LEMMA OneMore ==
  ASSUME NEW size \in Nat, size # 0, NEW r, NEW S, NEW B \in SUBSET S,
         IsFiniteSet(B), Cardinality(B) = size, NEW P, Shares(P, S \ B, size, r)
  PROVE  Shares({B} \union P, S, size, r)
  <1>1. B # {}
    BY FS_EmptySet
  <1>2. \A C \in P : C \subseteq S \ B
    BY DEF Shares
  <1>3. UNION ({B} \union P) = S
    BY DEF Shares
  <1>4. \A C, D \in {B} \union P : C # D => C \intersect D = {}
    <2>1. \A C \in P : B \intersect C = {} /\ C \intersect B = {}
      BY <1>2
    <2> QED
      BY <2>1 DEF Shares
  <1>5. \A C \in {B} \union P : IsFiniteSet(C) /\ C # {} /\ Cardinality(C) \in {size, r}
    BY <1>1 DEF Shares
  <1>6. \A C, D \in {B} \union P : Cardinality(C) # size /\ Cardinality(D) # size => C = D
    BY DEF Shares
  <1>7. r # size <=> \E C \in {B} \union P : Cardinality(C) # size
    BY DEF Shares
  <1> QED
    BY <1>3, <1>4, <1>5, <1>6, <1>7 DEF Shares

LEMMA OneLeft ==
  ASSUME NEW size \in Nat, NEW r \in 1 .. size, NEW S, IsFiniteSet(S), Cardinality(S) = r
  PROVE  Shares({S}, S, size, r)
  <1>1. S # {}
    <2>1. r # 0
      OBVIOUS
    <2> QED
      BY <2>1, FS_EmptySet
  <1> QED
    BY <1>1 DEF Shares

\* a product, kept folded
Times(k, n) == k * n

LEMMA TimesIs ==
  ASSUME NEW k \in Nat, NEW n \in Nat
  PROVE  /\ Times(k, n) \in Nat /\ Times(0, n) = 0
         /\ k # 0 => k - 1 \in Nat /\ Times(k, n) = Times(k - 1, n) + n
  <1>1. Times(k, n) \in Nat /\ Times(0, n) = 0
    BY DEF Times
  <1>2. ASSUME k # 0
        PROVE  k - 1 \in Nat /\ Times(k, n) = Times(k - 1, n) + n
    <2>1. PICK j \in Nat : j = k - 1 /\ k = j + 1
      BY <1>2
    <2>2. (j + 1) * n = j * n + n
      OBVIOUS
    <2> QED
      BY <2>1, <2>2 DEF Times
  <1> QED
    BY <1>1, <1>2

LEMMA CanShare ==
  ASSUME NEW size \in Nat, NEW r \in 1 .. size, NEW q \in Nat,
         NEW S, IsFiniteSet(S), Cardinality(S) = Times(q, size) + r
  PROVE  \E P : Shares(P, S, size, r)
  <1> DEFINE Good == {k \in Nat : \A T : IsFiniteSet(T) /\ Cardinality(T) = Times(k, size) + r =>
                                    \E P : Shares(P, T, size, r)}
  <1>1. ASSUME NEW k \in Nat, \A j \in Nat : j < k => j \in Good
        PROVE  k \in Good
    <2> SUFFICES ASSUME NEW T, IsFiniteSet(T), Cardinality(T) = Times(k, size) + r
                 PROVE  \E P : Shares(P, T, size, r)
      OBVIOUS
    <2>1. CASE k = 0
      <3>1. Cardinality(T) = r
        BY <2>1, TimesIs
      <3> QED
        BY <3>1, OneLeft
    <2>2. CASE k # 0
      <3>1. PICK j \in Nat : j = k - 1
        BY <2>2
      <3>2. PICK m \in Nat : m = Times(j, size)
        BY TimesIs
      <3>3. Times(k, size) = m + size
        BY <2>2, <3>1, <3>2, TimesIs
      <3>4. Cardinality(T) = m + size + r /\ size <= Cardinality(T) /\ size # 0
        BY <3>3
      <3>5. PICK B \in SUBSET T : IsFiniteSet(B) /\ Cardinality(B) = size
        BY <3>4, SubsetOf
      <3>6. IsFiniteSet(T \ B) /\ Cardinality(T \ B) = Times(j, size) + r
        <4>1. IsFiniteSet(T \ B) /\ Cardinality(T \ B) = Cardinality(T) - Cardinality(T \intersect B)
          BY FS_Difference
        <4>2. T \intersect B = B
          OBVIOUS
        <4> QED
          BY <3>2, <3>4, <3>5, <4>1, <4>2
      <3>7. j \in Good
        <4>1. j < k
          BY <3>1
        <4> HIDE DEF Good
        <4> QED
          BY <1>1, <4>1
      <3>8. PICK P : Shares(P, T \ B, size, r)
        BY <3>6, <3>7
      <3>9. Shares({B} \union P, T, size, r)
        BY <3>4, <3>5, <3>8, OneMore
      <3> QED
        BY <3>9
    <2> QED
      BY <2>1, <2>2
  <1>2. Good = Nat
    <2>1. Good \in SUBSET Nat
      OBVIOUS
    <2> HIDE DEF Good
    <2> QED
      BY <1>1, <2>1, Induction
  <1> QED
    BY <1>2

\* two devices can be shared out together
LEMMA ShareTogether ==
  ASSUME NEW size \in Nat, size > 1, NEW r \in 1 .. size, NEW q \in Nat,
         NEW S, IsFiniteSet(S), Cardinality(S) = Times(q, size) + r,
         NEW a \in S, NEW b \in S, a # b
  PROVE  \E P : Shares(P, S, size, r) /\ \E B \in P : a \in B /\ b \in B
  <1>1. CASE q = 0
    <2>1. Cardinality(S) = r
      BY <1>1, TimesIs
    <2>2. Shares({S}, S, size, r)
      BY <2>1, OneLeft
    <2> QED
      BY <2>2
  <1>2. CASE q # 0
    <2>1. PICK j \in Nat : j = q - 1
      BY <1>2
    <2>2. PICK m \in Nat : m = Times(j, size)
      BY TimesIs
    <2>3. Cardinality(S) = m + size + r
      <3>1. Times(q, size) = m + size
        BY <1>2, <2>1, <2>2, TimesIs
      <3> QED
        BY <3>1
    <2>4. IsFiniteSet({a, b}) /\ Cardinality({a, b}) = 2
      BY PairIs
    <2>5. IsFiniteSet(S \ {a, b}) /\ Cardinality(S \ {a, b}) = m + size + r - 2
      <3>1. S \intersect {a, b} = {a, b}
        OBVIOUS
      <3>2. IsFiniteSet(S \ {a, b})
            /\ Cardinality(S \ {a, b}) = Cardinality(S) - Cardinality(S \intersect {a, b})
        BY FS_Difference
      <3> QED
        BY <2>3, <2>4, <3>1, <3>2
    <2>6. PICK C \in SUBSET (S \ {a, b}) : IsFiniteSet(C) /\ Cardinality(C) = size - 2
      <3>1. PICK n \in Nat : n = size - 2
        OBVIOUS
      <3>2. n <= Cardinality(S \ {a, b}) /\ IsFiniteSet(S \ {a, b})
        BY <2>5, <3>1
      <3> QED
        BY <3>1, <3>2, SubsetOf
    <2>7. PICK B : B = C \union {a, b}
      OBVIOUS
    <2>8. B \in SUBSET S /\ a \in B /\ b \in B
      BY <2>6, <2>7
    <2>9. IsFiniteSet(B) /\ Cardinality(B) = size
      <3>1. C \intersect {a, b} = {}
        BY <2>6
      <3>2. IsFiniteSet(B) /\ Cardinality(B) = Cardinality(C) + Cardinality({a, b})
                                                 - Cardinality(C \intersect {a, b})
        BY <2>4, <2>6, <2>7, FS_Union
      <3> QED
        BY <2>4, <2>6, <3>1, <3>2, FS_EmptySet
    <2>10. IsFiniteSet(S \ B) /\ Cardinality(S \ B) = Times(j, size) + r
      <3>1. IsFiniteSet(S \ B) /\ Cardinality(S \ B) = Cardinality(S) - Cardinality(S \intersect B)
        BY FS_Difference
      <3>2. S \intersect B = B
        BY <2>8
      <3> QED
        BY <2>2, <2>3, <2>9, <3>1, <3>2
    <2>11. PICK P : Shares(P, S \ B, size, r)
      BY <2>10, CanShare
    <2>12. Shares({B} \union P, S, size, r)
      <3>1. size # 0
        OBVIOUS
      <3> QED
        BY <2>8, <2>9, <2>11, <3>1, OneMore
    <2> QED
      BY <2>8, <2>12
  <1> QED
    BY <1>1, <1>2

\* two of the devices are in a set of some partition that is called back with
LEMMA CalledTogether ==
  ASSUME NEW devices \in Seq(Dev), IsInjective(devices),
         NEW size \in Nat, size > 1, Len(devices) >= size,
         NEW a \in ToSet(devices), NEW b \in ToSet(devices), a # b
  PROVE  \E i \in DOMAIN GPUPartitions(devices, size) :
           \E j \in DOMAIN GPUPartitions(devices, size)[i] :
             /\ a \in Real(GPUPartitions(devices, size)[i][j])
             /\ b \in Real(GPUPartitions(devices, size)[i][j])
  <1>1. PICK n \in Nat : n = Len(devices)
    BY InSeq
  <1>2. size # 0 /\ n >= size
    BY <1>1
  <1>3. PICK padding : padding = Padding(n, size)
    OBVIOUS
  <1>4. PICK s : s = Padded(devices, size)
    OBVIOUS
  <1>5. /\ padding \in Nat /\ padding < size /\ s \in Ready(size, padding)
        /\ Real(s) = ToSet(devices)
        /\ NoGPU \in ToSet(s) <=> padding # 0
    BY <1>1, <1>2, <1>3, <1>4, PaddedReady
  <1>6. PICK ps : ps = GPUPartitions(devices, size)
    OBVIOUS
  <1>7. ps = Iterations(size, padding)[s]
    <2>1. ~(size > Len(devices)) /\ size # 1
      BY <1>1, <1>2
    <2> QED
      BY <1>1, <1>3, <1>4, <1>6, <2>1 DEF GPUPartitions, Padded
  <1>8. Completes(ps, s, size, padding)
    BY <1>5, <1>7, IterationsAre
  <1>9. PICK r \in 1 .. size : r = size - padding
    BY <1>5
  <1>10. PICK q \in Nat : n + padding = (q + 1) * size
    BY <1>2, <1>3, PaddingFills
  <1>11. n = Times(q, size) + r
    <2>1. PICK m \in Nat : m = q * size
      OBVIOUS
    <2>2. (q + 1) * size = m + size
      BY <2>1
    <2>3. Times(q, size) = m
      BY <2>1 DEF Times
    <2> QED
      BY <1>5, <1>9, <1>10, <2>2, <2>3
  <1>12. PICK P : Shares(P, ToSet(devices), size, r) /\ \E B \in P : a \in B /\ b \in B
    <2>1. IsFiniteSet(ToSet(devices)) /\ Cardinality(ToSet(devices)) = Times(q, size) + r
      BY <1>1, <1>11, DistinctDevices
    <2> QED
      BY <2>1, ShareTogether
  <1>13. P \in Sharing(s, size, padding)
    <2>1. /\ UNION P = Real(s)
          /\ \A B, C \in P : B # C => B \intersect C = {}
          /\ \A B \in P : /\ IsFiniteSet(B) /\ B # {}
                          /\ Cardinality(B) \in {size, size - padding}
          /\ \A B, C \in P : Cardinality(B) # size /\ Cardinality(C) # size => B = C
      BY <1>5, <1>9, <1>12 DEF Shares
    <2>2. r # size <=> padding # 0
      BY <1>5, <1>9
    <2>3. NoGPU \in ToSet(s) <=> \E B \in P : Cardinality(B) # size
      BY <1>5, <1>12, <2>2 DEF Shares
    <2>4. P \in SUBSET SUBSET Real(s)
      BY <2>1
    <2> QED
      BY <2>1, <2>3, <2>4 DEF Sharing
  <1>14. PICK i \in DOMAIN ps : BlocksOf(ps[i]) = P
    BY <1>8, <1>13 DEF Completes, ToSet
  <1>15. PICK B \in P : a \in B /\ b \in B
    BY <1>12
  <1>16. PICK j \in DOMAIN ps[i] : B = Real(ps[i][j])
    BY <1>14, <1>15 DEF BlocksOf
  <1> QED
    BY <1>6, <1>15, <1>16

-----------------------------------------------------------------------------
(* What the best-effort runner answers when the worker leaves it alone.     *)

\* it fails when the matrix is nil, or no partition scores anything
LEMMA BestFails ==
  ASSUME seen \in Seq(Dev), IsInjective(seen), req \in Nat, req # 0
  PROVE  BestAnswer = Panic
           <=> \/ NoTopology /\ req > 1 /\ Cardinality(ToSet(seen) \cap Free) > 1
               \/ \A i \in DOMAIN GPUPartitions(seen, req) :
                    PartitionScore(GPUPartitions(seen, req)[i]) = 0
  <1> DEFINE ps    == GPUPartitions(seen, req)
             score == [i \in DOMAIN ps |-> PartitionScore(ps[i])]
             s     == BestSet(Overwritten(ps, FirstBest(score)))
             nil   == NoTopology /\ req > 1 /\ Cardinality(ToSet(seen) \cap Free) > 1
             none  == \A i \in DOMAIN ps : score[i] = 0
  <1>1. ~InternalError(ps)
    BY BestAnswerIs
  <1>2. BestAnswer = IF nil \/ InternalError(ps) \/ none THEN Panic
                     ELSE Answer("ids", ToSet(s), SetScore(s))
    BY Zenon DEF BestAnswer
  <1>3. Answer("ids", ToSet(s), SetScore(s)) # Panic
    <2>1. Answer("ids", ToSet(s), SetScore(s)).kind = "ids" /\ Panic.kind = "panic"
      BY DEF Answer, Panic
    <2>2. "ids" # "panic"
      OBVIOUS
    <2> HIDE DEF s
    <2> QED
      BY <2>1, <2>2
  <1>4. none <=> \A i \in DOMAIN ps : PartitionScore(ps[i]) = 0
    OBVIOUS
  <1> HIDE DEF s, nil, none
  <1>5. BestAnswer = Panic <=> nil \/ none
    BY <1>1, <1>2, <1>3
  <1> QED
    BY <1>4, <1>5 DEF nil

\* otherwise it answers a set of best score in what a partition of best score has
\* become, which begins with the sets of that partition that are kept
LEMMA BestPicks ==
  ASSUME seen \in Seq(Dev), IsInjective(seen), req \in Nat, req > 1, BestAnswer # Panic
  PROVE  LET ps == GPUPartitions(seen, req)
         IN  \E i \in DOMAIN ps : \E l \in DOMAIN ps : \E j \in DOMAIN ps[l] :
               /\ BestAnswer = Answer("ids", ToSet(ps[l][j]), SetScore(ps[l][j]))
               /\ \A k \in DOMAIN ps : PartitionScore(ps[k]) <= PartitionScore(ps[i])
               /\ \A k \in DOMAIN ps[l] : SetScore(ps[l][k]) <= SetScore(ps[l][j])
               /\ SubSeq(ps[l], 1, Kept(Len(ps[i]))) = SubSeq(ps[i], 1, Kept(Len(ps[i])))
  <1> DEFINE ps    == GPUPartitions(seen, req)
             score == [i \in DOMAIN ps |-> PartitionScore(ps[i])]
             A     == Seq(SetsFrom(seen, req)) \ {<< >>}
  <1>1. ps \in Seq(A)
    BY GPUPartitionsAre
  <1>2. /\ ~(\A i \in DOMAIN ps : score[i] = 0)
        /\ BestAnswer = Answer("ids", ToSet(BestSet(Overwritten(ps, FirstBest(score)))),
                               SetScore(BestSet(Overwritten(ps, FirstBest(score)))))
    BY Zenon DEF BestAnswer
  <1>3. \A p \in A : p \in Seq(SetsFrom(seen, req)) /\ p # << >> /\ p \in Seq(Seq(Int))
    <2> SUFFICES ASSUME NEW p \in A
                 PROVE  p \in Seq(Seq(Int))
      OBVIOUS
    <2>1. Len(p) \in Nat /\ DOMAIN p = 1 .. Len(p)
          /\ \A i \in DOMAIN p : p[i] \in SetsFrom(seen, req)
      BY InSeq
    <2>2. p \in [1 .. Len(p) -> Seq(Int)]
      BY <2>1, InSeq DEF SetsFrom
    <2> QED
      BY <2>1, <2>2, IsASeq
  <1> HIDE DEF ps, A
  <1>4. ps # << >> /\ \A i \in DOMAIN ps : ps[i] \in A
    <2>1. \A i \in DOMAIN ps : ps[i] \in A
      BY <1>1, InSeq
    <2>2. ps = << >> => DOMAIN ps = {}
      OBVIOUS
    <2> QED
      BY <1>2, <2>1, <2>2
  <1>5. score \in [DOMAIN ps -> Nat]
    BY <1>3, <1>4, PartitionScoreIs
  <1>6. PICK i \in DOMAIN ps : i = FirstBest(score) /\ \A k \in DOMAIN ps : score[k] <= score[i]
    <2> HIDE DEF score
    <2> QED
      BY <1>1, <1>4, <1>5, FirstBestIs
  <1>7. PICK l \in DOMAIN ps :
          /\ Overwritten(ps, i) = ps[l]
          /\ SubSeq(ps[l], 1, Kept(Len(ps[i]))) = SubSeq(ps[i], 1, Kept(Len(ps[i])))
    BY <1>1, OverwrittenIs
  <1>8. PICK p \in A : p = ps[l]
    BY <1>4
  <1> DEFINE f == [k \in DOMAIN p |-> SetScore(p[k])]
  <1>9. BestSet(p) = Best(p, f)
    BY DEF BestSet
  <1>10. f \in [DOMAIN p -> Nat]
    <2>1. \A k \in DOMAIN p : p[k] \in Seq(Int)
      BY <1>3, InSeq
    <2> QED
      BY <2>1, SetScoreIs
  <1>11. PICK j \in DOMAIN p : /\ Best(p, f) = p[j]
                               /\ \A k \in DOMAIN p : f[k] <= f[j]
    <2> HIDE DEF f
    <2> QED
      BY <1>3, <1>10, BestIs
  <1>12. BestAnswer = Answer("ids", ToSet(p[j]), SetScore(p[j]))
    <2>1. BestSet(Overwritten(ps, FirstBest(score))) = p[j]
      BY <1>6, <1>7, <1>8, <1>9, <1>11, Zenon
    <2> QED
      BY <1>2, <2>1, Zenon
  <1>13. \A k \in DOMAIN ps : PartitionScore(ps[k]) <= PartitionScore(ps[i])
    BY <1>6
  <1>14. \A k \in DOMAIN p : SetScore(p[k]) <= SetScore(p[j])
    BY <1>11
  <1> QED
    BY <1>7, <1>8, <1>12, <1>13, <1>14 DEF ps

\* an unlinked pair scores nothing, a linked one something
LEMMA PairUnlinked ==
  ASSUME recovering = None, NEW a \in Free, NEW b \in Free, a # b
  PROVE  PairScore(a, b) = 0 <=> Origin(a, b) = 0
  <1>1. \A abbr : LinkOf(abbr) \in 0 .. 12
    BY DEF LinkOf, LinkType
  <1>2. Origin(a, b) \in 0 .. 12
    BY <1>1 DEF Origin
  <1>3. \A l \in 0 .. 12 : LinkScore(l) = 0 <=> l = 0
    BY DEF LinkScore
  <1>4. Topology(a, b) = Origin(a, b)
    BY FreeParts, DevIs DEF Topology
  <1>5. PairScore(a, b) = LinkScore(Origin(a, b))
    BY <1>4 DEF PairScore
  <1> QED
    BY <1>2, <1>3, <1>5

\* no partition scores anything exactly when no two devices are linked
LEMMA NothingLinked ==
  ASSUME recovering = None, seen \in Seq(Dev), IsInjective(seen), ToSet(seen) = Free,
         req \in Nat, req > 1, Len(seen) >= req
  PROVE  (\A i \in DOMAIN GPUPartitions(seen, req) :
            PartitionScore(GPUPartitions(seen, req)[i]) = 0)
           <=> \A a, b \in Free : a # b => Origin(a, b) = 0
  <1>1. PICK ps : ps = GPUPartitions(seen, req)
    OBVIOUS
  <1>2. \A i \in DOMAIN ps : ps[i] \in Seq(Seq(Int))
    BY <1>1, Enumerated, InSeq
  <1>3. ASSUME \A i \in DOMAIN ps : PartitionScore(ps[i]) = 0,
               NEW a \in Free, NEW b \in Free, a # b
        PROVE  Origin(a, b) = 0
    <2>1. PICK i \in DOMAIN ps : \E j \in DOMAIN ps[i] : a \in Real(ps[i][j]) /\ b \in Real(ps[i][j])
      BY <1>1, <1>3, CalledTogether
    <2>2. PICK j \in DOMAIN ps[i] : a \in Real(ps[i][j]) /\ b \in Real(ps[i][j])
      BY <2>1
    <2>3. PICK s \in Seq(Int) : s = ps[i][j]
      BY <1>2, InSeq
    <2>4. SetScore(s) = 0
      BY <1>2, <1>3, <2>3, NothingInPartition
    <2>5. PICK x \in DOMAIN s, y \in DOMAIN s : s[x] = a /\ s[y] = b
      BY <2>2, <2>3 DEF Real, ToSet
    <2>6. x \in Int /\ y \in Int /\ x # y
      BY <1>3, <2>5, InSeq
    <2>7. PairScore(a, b) = 0 \/ PairScore(b, a) = 0
      <3>1. x < y => PairScore(s[x], s[y]) = 0
        BY <2>4, NothingScored
      <3>2. y < x => PairScore(s[y], s[x]) = 0
        BY <2>4, NothingScored
      <3>3. x < y \/ y < x
        BY <2>6
      <3> QED
        BY <2>5, <3>1, <3>2, <3>3
    <2>8. Origin(a, b) = Origin(b, a)
      <3>1. {a, b} = {b, a}
        OBVIOUS
      <3> QED
        BY <3>1, Zenon DEF Origin
    <2> QED
      BY <1>3, <2>7, <2>8, PairUnlinked
  <1>4. ASSUME \A a, b \in Free : a # b => Origin(a, b) = 0, NEW i \in DOMAIN ps
        PROVE  PartitionScore(ps[i]) = 0
    <2>1. ASSUME NEW k \in DOMAIN ps[i]
          PROVE  SetScore(ps[i][k]) = 0
      <3>1. PICK s \in Seq(Int) : s = ps[i][k]
        BY <1>2, InSeq
      <3>2. ASSUME NEW x \in DOMAIN s, NEW y \in DOMAIN s, x < y
            PROVE  PairScore(s[x], s[y]) = 0
        <4>1. CASE s[x] # s[y] /\ s[x] \in Free /\ s[y] \in Free
          BY <1>4, <4>1, PairUnlinked
        <4>2. CASE ~(s[x] # s[y] /\ {s[x], s[y]} \subseteq Free)
          BY <4>2 DEF PairScore
        <4> QED
          BY <4>1, <4>2
      <3> QED
        BY <3>1, <3>2, NothingScored
    <2> QED
      BY <1>2, <2>1, NothingInPartition
  <1> QED
    BY <1>1, <1>3, <1>4

\* one device is linked to nothing
LEMMA OneUnlinked ==
  ASSUME seen \in Seq(Dev), IsInjective(seen), req = 1
  PROVE  \A i \in DOMAIN GPUPartitions(seen, req) : PartitionScore(GPUPartitions(seen, req)[i]) = 0
  <1> DEFINE ps == GPUPartitions(seen, req)
  <1> SUFFICES ASSUME NEW i \in DOMAIN ps
               PROVE  PartitionScore(ps[i]) = 0
    OBVIOUS
  <1>1. req \in Nat /\ req # 0
    OBVIOUS
  <1>2. ps \in Seq(Seq(SetsFrom(seen, req)) \ {<< >>})
    BY <1>1, GPUPartitionsAre
  <1> HIDE DEF ps
  <1>3. ps[i] \in Seq(SetsFrom(seen, req))
    BY <1>2, InSeq
  <1>4. PICK p \in Seq(SetsFrom(seen, req)) : p = ps[i]
    BY <1>3
  <1>5. Len(p) \in Nat /\ DOMAIN p = 1 .. Len(p) /\ \A k \in DOMAIN p : p[k] \in SetsFrom(seen, req)
    BY InSeq
  <1>6. ASSUME NEW k \in DOMAIN p
        PROVE  p[k] \in Seq(Int) /\ SetScore(p[k]) = 0
    <2>1. PICK s \in Seq(Int) : s = p[k] /\ Len(s) = 1
      BY <1>5 DEF SetsFrom
    <2>2. DOMAIN s = 1 .. 1
      BY <2>1, InSeq
    <2>3. \A x, y \in DOMAIN s : ~(x < y)
      BY <2>2
    <2> QED
      BY <2>1, <2>3, NothingScored
  <1>7. p \in Seq(Seq(Int))
    <2>1. p \in [1 .. Len(p) -> Seq(Int)]
      BY <1>5, <1>6
    <2> QED
      BY <1>5, <2>1, IsASeq
  <1> QED
    BY <1>4, <1>6, <1>7, NothingInPartition

\* when it fails
LEMMA BestFailsWhen ==
  ASSUME recovering = None, seen \in Seq(Dev), IsInjective(seen), ToSet(seen) = Free,
         req \in Nat, req # 0, Len(seen) >= req
  PROVE  BestAnswer = Panic <=> req = 1 \/ \A a, b \in Free : a # b => Origin(a, b) = 0
  <1>1. NoTopology => \A a, b \in Free : a # b => Origin(a, b) = 0
    BY DEF NoTopology, Origin
  <1>2. CASE req = 1
    BY <1>2, BestFails, OneUnlinked
  <1>3. CASE req # 1
    <2>1. req > 1
      BY <1>3
    <2> QED
      BY <1>1, <1>3, <2>1, BestFails, NothingLinked
  <1> QED
    BY <1>2, <1>3

-----------------------------------------------------------------------------
(* Up to six sets, what is kept of a saved partition tells the rest.        *)

\* of up to six sets, all but the last have been moved with the partition
LEMMA KeptIs ==
  ASSUME NEW k \in 1 .. 6
  PROVE  Kept(k) \in 1 .. k /\ Kept(k) >= k - 1
  <1> DEFINE C   == {0} \union {c \in {2^e : e \in 0 .. k} : c < k}
             top == IF k > 4 THEN 4 ELSE IF k > 2 THEN 2 ELSE IF k > 1 THEN 1 ELSE 0
  <1>1. 2^0 = 1 /\ 2^1 = 2 /\ 2^2 = 4 /\ 2^3 = 8 /\ 2^4 = 16 /\ 2^5 = 32 /\ 2^6 = 64
    OBVIOUS
  <1>2. \A e \in 0 .. k : 2^e \in {1, 2, 4, 8, 16, 32, 64}
    <2>1. \A e \in 0 .. k : e \in {0, 1, 2, 3, 4, 5, 6}
      OBVIOUS
    <2> QED
      BY <1>1, <2>1
  <1>3. \A c \in C : c \in Nat /\ c <= top
    BY <1>2
  <1>4. top \in C
    <2>1. \A e \in 0 .. k : 2^e < k => 2^e \in C
      OBVIOUS
    <2>2. k > 1 => 0 \in 0 .. k /\ 2^0 < k
      BY <1>1
    <2>3. k > 2 => 1 \in 0 .. k /\ 2^1 < k
      BY <1>1
    <2>4. k > 4 => 2 \in 0 .. k /\ 2^2 < k
      BY <1>1
    <2>5. 0 \in C
      OBVIOUS
    <2> HIDE DEF C
    <2> QED
      BY <1>1, <2>1, <2>2, <2>3, <2>4, <2>5
  <1>5. Max(C) = top
    <2>1. top \in Nat
      OBVIOUS
    <2> HIDE DEF C, top
    <2>2. \A c \in C : top >= c
      BY <1>3, <2>1
    <2>3. PICK m : m = Max(C)
      OBVIOUS
    <2>4. m \in C /\ \A c \in C : m >= c
      BY <1>4, <2>2, <2>3, Zenon DEF Max
    <2>5. m \in Nat /\ m <= top /\ m >= top
      BY <1>3, <1>4, <2>4
    <2> QED
      BY <2>1, <2>3, <2>5
  <1>6. Kept(k) = 1 + top
    BY <1>5 DEF Kept
  <1> QED
    BY <1>6

\* a partition has as many sets as the devices and the padding fill
LEMMA SetsFill ==
  ASSUME NEW size \in Nat, NEW padding \in Nat, padding < size, NEW s \in Seq(Int),
         IsFiniteSet(Real(s)), NoGPU \in ToSet(s) <=> padding # 0,
         NEW k \in Nat, Cardinality(Real(s)) + padding = k * size,
         NEW p \in PartitionsOf(s, size, padding)
  PROVE  Len(p) = k /\ DOMAIN p = 1 .. k
  <1>1. /\ p \in Seq(Seq(Int)) /\ Len(p) \in Nat /\ DOMAIN p = 1 .. Len(p)
        /\ \A i, j \in DOMAIN p : i # j => ToSet(p[i]) \intersect ToSet(p[j]) = {}
    BY InSeq DEF PartitionsOf
  <1>2. PICK P : P = BlocksOf(p)
    OBVIOUS
  <1>3. P \in Sharing(s, size, padding)
    BY <1>2, Shared
  <1>4. /\ P \in SUBSET SUBSET Real(s) /\ UNION P = Real(s)
        /\ \A B, C \in P : B # C => B \intersect C = {}
        /\ \A B \in P : IsFiniteSet(B) /\ B # {} /\ Cardinality(B) \in {size, size - padding}
        /\ \A B, C \in P : Cardinality(B) # size /\ Cardinality(C) # size => B = C
        /\ padding # 0 <=> \E B \in P : Cardinality(B) # size
    BY <1>3 DEF Sharing
  <1> DEFINE b == [i \in DOMAIN p |-> Real(p[i])]
  <1>5. b \in Bijection(DOMAIN p, P)
    <2>1. b \in [DOMAIN p -> P]
      BY <1>2 DEF BlocksOf
    <2>2. ASSUME NEW i \in DOMAIN p, NEW j \in DOMAIN p, b[i] = b[j]
          PROVE  i = j
      <3>1. Real(p[i]) # {} /\ Real(p[i]) = Real(p[j])
        <4>1. Real(p[i]) \in P
          BY <1>2 DEF BlocksOf
        <4>2. Real(p[i]) = Real(p[j])
          BY <2>2
        <4> QED
          BY <1>4, <4>1, <4>2
      <3>2. Real(p[i]) \subseteq ToSet(p[i]) /\ Real(p[j]) \subseteq ToSet(p[j])
        BY DEF Real
      <3> QED
        BY <1>1, <3>1, <3>2
    <2>3. \A B \in P : \E i \in DOMAIN p : b[i] = B
      BY <1>2 DEF BlocksOf
    <2> HIDE DEF b
    <2> QED
      BY <2>1, <2>2, <2>3, BijectionIs
  <1> HIDE DEF b
  <1>6. IsFiniteSet(P) /\ Cardinality(P) = Len(p)
    BY <1>1, <1>5, SeqPlaces, FS_Bijection DEF ExistsBijection
  <1>7. Cardinality(P) = k
    <2>1. size # 0
      OBVIOUS
    <2> QED
      BY <1>4, <1>6, <2>1, SetsCount
  <1> QED
    BY <1>1, <1>6, <1>7

\* partitions that differ at most in the order of their last set are the same
LEMMA LastSet ==
  ASSUME NEW size, NEW padding, NEW s,
         NEW p \in PartitionsOf(s, size, padding), NEW q \in PartitionsOf(s, size, padding),
         NEW k \in Nat, k # 0, DOMAIN p = 1 .. k, DOMAIN q = 1 .. k,
         \A i \in 1 .. k - 1 : p[i] = q[i]
  PROVE  BlocksOf(p) = BlocksOf(q)
  <1>1. k \in 1 .. k /\ \A i \in 1 .. k : i = k \/ i \in 1 .. k - 1
    OBVIOUS
  <1>2. ASSUME NEW u \in PartitionsOf(s, size, padding),
               NEW v \in PartitionsOf(s, size, padding),
               DOMAIN u = 1 .. k, DOMAIN v = 1 .. k, \A i \in 1 .. k - 1 : u[i] = v[i]
        PROVE  ToSet(u[k]) \subseteq ToSet(v[k])
    <2> SUFFICES ASSUME NEW d \in ToSet(u[k])
                 PROVE  d \in ToSet(v[k])
      OBVIOUS
    <2>1. d \in ToSet(s)
      BY <1>1, <1>2 DEF PartitionsOf
    <2>2. PICK i \in 1 .. k : d \in ToSet(v[i])
      BY <1>2, <2>1 DEF PartitionsOf
    <2>3. i = k
      <3> SUFFICES ASSUME i # k
                   PROVE  FALSE
        OBVIOUS
      <3>1. d \in ToSet(u[i])
        BY <1>1, <1>2, <2>2
      <3>2. ToSet(u[i]) \intersect ToSet(u[k]) = {}
        BY <1>1, <1>2 DEF PartitionsOf
      <3> QED
        BY <3>1, <3>2
    <2> QED
      BY <2>2, <2>3
  <1>3. ToSet(p[k]) = ToSet(q[k])
    <2>1. \A i \in 1 .. k - 1 : q[i] = p[i]
      OBVIOUS
    <2> QED
      BY <1>2, <2>1
  <1>4. \A i \in 1 .. k : Real(p[i]) = Real(q[i])
    BY <1>1, <1>3 DEF Real
  <1> QED
    BY <1>4 DEF BlocksOf

\* partitions that begin alike, as far as sets are kept, are the same
Saves(s, size, padding) ==
  \A p, q \in PartitionsOf(s, size, padding) :
    SubSeq(q, 1, Kept(Len(p))) = SubSeq(p, 1, Kept(Len(p))) => BlocksOf(q) = BlocksOf(p)

\* so a saved partition is overwritten by itself, up to the order of one set
LEMMA SavedIsKept ==
  ASSUME NEW devices \in Seq(Dev), IsInjective(devices), NEW size \in Nat, size # 0,
         Len(devices) >= size, Len(devices) <= 6 * size,
         NEW padding, padding = Padding(Len(devices), size),
         NEW s, s = Padded(devices, size)
  PROVE  Saves(s, size, padding)
  <1> SUFFICES ASSUME NEW p \in PartitionsOf(s, size, padding),
                      NEW q \in PartitionsOf(s, size, padding),
                      SubSeq(q, 1, Kept(Len(p))) = SubSeq(p, 1, Kept(Len(p)))
               PROVE  BlocksOf(q) = BlocksOf(p)
    BY DEF Saves
  <1>1. /\ padding \in Nat /\ padding < size /\ s \in Seq(Int)
        /\ Real(s) = ToSet(devices)
        /\ NoGPU \in ToSet(s) <=> padding # 0
    <2>1. /\ padding \in Nat /\ padding < size /\ s \in Ready(size, padding)
          /\ Real(s) = ToSet(devices)
          /\ NoGPU \in ToSet(s) <=> padding # 0
      BY PaddedReady
    <2> QED
      BY <2>1, ReadyIs
  <1>2. IsFiniteSet(Real(s)) /\ Cardinality(Real(s)) = Len(devices) /\ Len(devices) \in Nat
    BY <1>1, DistinctDevices, InSeq
  <1>3. PICK k \in Nat : k # 0 /\ Len(devices) + padding = k * size
    BY <1>2, PaddingIs
  <1>4. k \in 1 .. 6
    <2> SUFFICES ASSUME k > 6
                 PROVE  FALSE
      BY <1>3
    <2>1. PICK e \in Nat : k = 7 + e
      <3>1. k - 7 \in Nat /\ k = 7 + (k - 7)
        OBVIOUS
      <3> QED
        BY <3>1
    <2>2. PICK x \in Nat : x = e * size
      OBVIOUS
    <2>3. PICK y \in Nat : y = k * size
      OBVIOUS
    <2>4. y = 7 * size + x
      BY <2>1, <2>2, <2>3
    <2>5. Len(devices) + padding = y
      BY <1>3, <2>3
    <2> QED
      BY <1>1, <1>2, <2>4, <2>5
  <1>5. Len(p) = k /\ DOMAIN p = 1 .. k /\ Len(q) = k /\ DOMAIN q = 1 .. k
    <2>1. Cardinality(Real(s)) + padding = k * size
      BY <1>2, <1>3
    <2> QED
      BY <1>1, <1>2, <2>1, SetsFill
  <1>6. PICK n : n = Kept(k)
    OBVIOUS
  <1>7. n \in 1 .. k /\ n >= k - 1
    BY <1>4, <1>6, KeptIs
  <1>8. \A i \in 1 .. k - 1 : q[i] = p[i]
    <2>1. SubSeq(p, 1, n) = SubSeq(q, 1, n)
      BY <1>5, <1>6
    <2>2. p \in Seq(Seq(Int)) /\ q \in Seq(Seq(Int))
      BY DEF PartitionsOf
    <2>3. /\ \A i \in 1 .. n : SubSeq(p, 1, n)[i] = p[i]
          /\ \A i \in 1 .. n : SubSeq(q, 1, n)[i] = q[i]
      BY <1>5, <1>7, <2>2
    <2>4. \A i \in 1 .. k - 1 : i \in 1 .. n
      BY <1>7
    <2> QED
      BY <2>1, <2>3, <2>4
  <1> QED
    BY <1>4, <1>5, <1>8, LastSet
-----------------------------------------------------------------------------
(* What the best-effort policy answers is best.                             *)

\* what BestOfABestPartition says of an answer
IsBest(a) ==
  /\ a.score = Links(Devices(a))
  /\ \E P \in Partitions(Free, req) :
       /\ Devices(a) \in P
       /\ \A Q \in Partitions(Free, req) : Value(Q) <= Value(P)
       /\ \A S \in P : Links(S) <= a.score

LEMMA BestIsBest ==
  ASSUME seen \in Seq(Dev), IsInjective(seen), ToSet(seen) = Free,
         req \in Nat, req # 0, BestAnswer # Panic, Cardinality(Free) <= 6 * req
  PROVE  IsBest(BestAnswer)
  <1>1. Len(seen) >= req
    BY BestAnswerIs
  <1>2. req > 1
    BY <1>1, BestFails, OneUnlinked
  <1>3. PICK padding : padding = Padding(Len(seen), req)
    OBVIOUS
  <1>4. PICK d : d = Padded(seen, req)
    OBVIOUS
  <1>5. /\ padding \in Nat /\ padding < req /\ d \in Seq(Int)
        /\ Real(d) = Free
        /\ NoGPU \in ToSet(d) <=> padding # 0
    <2>1. /\ padding \in Nat /\ padding < req /\ d \in Ready(req, padding)
          /\ Real(d) = Free
          /\ NoGPU \in ToSet(d) <=> padding # 0
      BY <1>1, <1>3, <1>4, PaddedReady
    <2> QED
      BY <2>1, ReadyIs
  <1>6. PICK ps : ps = GPUPartitions(seen, req)
    OBVIOUS
  <1>7. /\ {BlocksOf(ps[i]) : i \in DOMAIN ps} = Partitions(Free, req)
        /\ \A i \in DOMAIN ps : ps[i] \in PartitionsOf(d, req, padding)
    BY <1>1, <1>2, <1>3, <1>4, <1>6, Enumerated, GPUPartitionsAre
  <1>8. \A i \in DOMAIN ps : /\ PartitionScore(ps[i]) = Value(BlocksOf(ps[i]))
                             /\ \A k \in DOMAIN ps[i] : SetScore(ps[i][k]) = Links(Real(ps[i][k]))
    BY <1>5, <1>7, PartitionScored
  <1>9. PICK i \in DOMAIN ps : \E l \in DOMAIN ps : \E j \in DOMAIN ps[l] :
          /\ BestAnswer = Answer("ids", ToSet(ps[l][j]), SetScore(ps[l][j]))
          /\ \A k \in DOMAIN ps : PartitionScore(ps[k]) <= PartitionScore(ps[i])
          /\ \A k \in DOMAIN ps[l] : SetScore(ps[l][k]) <= SetScore(ps[l][j])
          /\ SubSeq(ps[l], 1, Kept(Len(ps[i]))) = SubSeq(ps[i], 1, Kept(Len(ps[i])))
    BY <1>2, <1>6, BestPicks
  <1>10. PICK l \in DOMAIN ps : \E j \in DOMAIN ps[l] :
           /\ BestAnswer = Answer("ids", ToSet(ps[l][j]), SetScore(ps[l][j]))
           /\ \A k \in DOMAIN ps : PartitionScore(ps[k]) <= PartitionScore(ps[i])
           /\ \A k \in DOMAIN ps[l] : SetScore(ps[l][k]) <= SetScore(ps[l][j])
           /\ SubSeq(ps[l], 1, Kept(Len(ps[i]))) = SubSeq(ps[i], 1, Kept(Len(ps[i])))
    BY <1>9
  <1>11. PICK j \in DOMAIN ps[l] :
           /\ BestAnswer = Answer("ids", ToSet(ps[l][j]), SetScore(ps[l][j]))
           /\ \A k \in DOMAIN ps : PartitionScore(ps[k]) <= PartitionScore(ps[i])
           /\ \A k \in DOMAIN ps[l] : SetScore(ps[l][k]) <= SetScore(ps[l][j])
           /\ SubSeq(ps[l], 1, Kept(Len(ps[i]))) = SubSeq(ps[i], 1, Kept(Len(ps[i])))
    BY <1>10
  <1>12. BlocksOf(ps[l]) = BlocksOf(ps[i])
    <2>1. Len(seen) <= 6 * req
      BY DistinctDevices
    <2>2. Saves(d, req, padding)
      BY <1>1, <1>3, <1>4, <2>1, SavedIsKept
    <2> QED
      BY <1>7, <1>11, <2>2 DEF Saves
  <1>13. PartitionScore(ps[l]) = PartitionScore(ps[i])
    BY <1>8, <1>12
  <1>14. /\ Devices(BestAnswer) = Real(ps[l][j])
         /\ BestAnswer.score = SetScore(ps[l][j])
    BY <1>11 DEF Answer, Devices, Real
  <1>15. BestAnswer.score = Links(Devices(BestAnswer))
    BY <1>8, <1>14
  <1>16. PICK P \in Partitions(Free, req) : P = BlocksOf(ps[l])
    BY <1>7
  <1>17. Devices(BestAnswer) \in P
    BY <1>14, <1>16 DEF BlocksOf
  <1>18. ASSUME NEW Q \in Partitions(Free, req)
         PROVE  Value(Q) <= Value(P)
    <2>1. PICK k \in DOMAIN ps : Q = BlocksOf(ps[k])
      BY <1>7
    <2> QED
      BY <1>8, <1>11, <1>13, <1>16, <2>1
  <1>19. ASSUME NEW S \in P
         PROVE  Links(S) <= BestAnswer.score
    <2>1. PICK k \in DOMAIN ps[l] : S = Real(ps[l][k])
      BY <1>16 DEF BlocksOf
    <2> QED
      BY <1>8, <1>11, <1>14, <2>1
  <1> QED
    BY <1>15, <1>17, <1>18, <1>19 DEF IsBest

\* what Links and Value are after a step, too
LEMMA LinksNext ==
  (\A S : IsFiniteSet(S) => Links(S) = SumFunction(LinkScores(S)))'
  <1>1. \A S : IsFiniteSet(S) => Links(S) = SumFunction(LinkScores(S))
    BY LinksAre
  <1> QED
    BY <1>1, PTL

LEMMA ValueNext ==
  (\A P : IsFiniteSet(P) /\ (\A B \in P : IsFiniteSet(B))
            => Value(P) = SumFunction([B \in P |-> Links(B)]))'
  <1>1. \A P : IsFiniteSet(P) /\ (\A B \in P : IsFiniteSet(B))
                 => Value(P) = SumFunction([B \in P |-> Links(B)])
    BY ValueIs
  <1> QED
    BY <1>1, PTL

\* the scores depend on the node alone
LEMMA SameLinks ==
  ASSUME setup' = setup, isUsed' = isUsed, recovering' = recovering
  PROVE  /\ \A S : IsFiniteSet(S) => Links(S)' = Links(S)
         /\ \A P : IsFiniteSet(P) /\ (\A B \in P : IsFiniteSet(B)) => Value(P)' = Value(P)
  <1>1. \A a, b : Origin(a, b)' = Origin(a, b)
    BY Zenon DEF Origin
  <1>2. \A a, b : PairScore(a, b)' = PairScore(a, b)
    <2>1. \A a, b : Topology(a, b)' = Topology(a, b)
      BY <1>1, Zenon DEF Topology
    <2>2. Free' = Free
      BY DEF Free
    <2> QED
      BY <2>1, <2>2, Zenon DEF PairScore
  <1>3. ASSUME NEW S, IsFiniteSet(S)
        PROVE  Links(S)' = Links(S)
    <2>1. LinkScores(S)' = LinkScores(S)
      BY <1>2 DEF LinkScores
    <2>2. Links(S)' = SumFunction(LinkScores(S)')
      BY <1>3, LinksNext, Zenon
    <2>3. Links(S) = SumFunction(LinkScores(S))
      BY <1>3, LinksAre, Zenon
    <2> QED
      BY <2>1, <2>2, <2>3, Zenon
  <1>4. ASSUME NEW P, IsFiniteSet(P), \A B \in P : IsFiniteSet(B)
        PROVE  Value(P)' = Value(P)
    <2>1. [B \in P |-> Links(B)'] = [B \in P |-> Links(B)]
      BY <1>3, <1>4
    <2>2. Value(P)' = SumFunction([B \in P |-> Links(B)'])
      BY <1>4, ValueNext, Zenon
    <2>3. Value(P) = SumFunction([B \in P |-> Links(B)])
      BY <1>4, ValueIs, Zenon
    <2> QED
      BY <2>1, <2>2, <2>3, Zenon
  <1> QED
    BY <1>3, <1>4

\* the blocks of a partition are sets of devices
LEMMA BlocksFree ==
  ASSUME TypeOK, NEW P \in Partitions(Free, req)
  PROVE  IsFiniteSet(P) /\ \A B \in P : IsFiniteSet(B)
  <1>1. P \in SUBSET SUBSET Free
    BY PartitionsUnfold
  <1>2. IsFiniteSet(Free)
    BY FreeCount
  <1>3. IsFiniteSet(SUBSET Free)
    BY <1>2, FS_SUBSET
  <1> QED
    BY <1>1, <1>2, <1>3, FS_Subset

\* the two properties of the answer, where the runner gives it
LEMMA BestChosen ==
  ASSUME TypeOK, ScanInv, pc = "look", order = << >>, setup.policy = "best_effort", Undisturbed
  PROVE  /\ BestAnswer.kind = "ids" /\ Cardinality(Free) <= 6 * req => IsBest(BestAnswer)
         /\ req \in 1 .. Cardinality(Free) =>
              (BestAnswer.kind = "panic"
                 <=> req = 1 \/ \A a, b \in Free : a # b => Origin(a, b) = 0)
  <1>1. /\ seen \in Seq(Dev) /\ IsInjective(seen) /\ req \in Nat /\ req # 0
        /\ Cardinality(ToSet(seen)) = Len(seen) /\ Len(seen) \in Nat
        /\ changes = 0 => ToSet(seen) = Looked \intersect Free
    BY Found
  <1>2. ToSet(seen) = Free /\ recovering = None
    BY <1>1, FreeParts DEF Undisturbed, Looked
  <1>3. Panic.kind = "panic" /\ "panic" # "ids"
    BY DEF Panic, Answer
  <1>4. BestAnswer.kind = "ids" /\ Cardinality(Free) <= 6 * req => IsBest(BestAnswer)
    BY <1>1, <1>2, <1>3, BestIsBest
  <1>5. BestAnswer.kind = "panic" <=> BestAnswer = Panic
    <2>1. ASSUME BestAnswer # Panic
          PROVE  BestAnswer.kind = "ids"
      <3>1. PICK s \in SetsFrom(seen, req) : BestAnswer = Answer("ids", ToSet(s), SetScore(s))
        BY <1>1, <2>1, BestAnswerIs
      <3> QED
        BY <3>1 DEF Answer
    <2> QED
      BY <1>3, <2>1
  <1>6. req \in 1 .. Cardinality(Free) =>
          (BestAnswer = Panic <=> req = 1 \/ \A a, b \in Free : a # b => Origin(a, b) = 0)
    <2>1. req \in 1 .. Cardinality(Free) => Len(seen) >= req
      BY <1>1, <1>2
    <2> QED
      BY <1>1, <1>2, <2>1, BestFailsWhen
  <1> QED
    BY <1>4, <1>5, <1>6

\* a step that keeps the node and the request keeps what is best
LEMMA SameBest ==
  ASSUME TypeOK, setup' = setup, isUsed' = isUsed, recovering' = recovering, req' = req,
         NEW a, IsFiniteSet(Devices(a)), IsBest(a), answer' = a
  PROVE  IsBest(answer)'
  <1>1. /\ \A S : IsFiniteSet(S) => Links(S)' = Links(S)
        /\ \A P : IsFiniteSet(P) /\ (\A B \in P : IsFiniteSet(B)) => Value(P)' = Value(P)
    BY SameLinks
  <1>2. Free' = Free
    BY DEF Free
  <1>3. Partitions(Free, req)' = Partitions(Free, req)
    BY <1>2 DEF Partitions
  <1>4. PICK P \in Partitions(Free, req) :
          /\ Devices(a) \in P
          /\ \A Q \in Partitions(Free, req) : Value(Q) <= Value(P)
          /\ \A S \in P : Links(S) <= a.score
    BY DEF IsBest
  <1>5. \A Q \in Partitions(Free, req) : Value(Q)' = Value(Q)
    BY <1>1, BlocksFree
  <1>6. \A S \in P : Links(S)' = Links(S)
    BY <1>1, BlocksFree
  <1>7. a.score = Links(Devices(a))'
    BY <1>1 DEF IsBest
  <1>8. /\ \A Q \in Partitions(Free, req) : Value(Q)' <= Value(P)'
        /\ \A S \in P : Links(S)' <= a.score
    BY <1>4, <1>5, <1>6
  <1> QED
    BY <1>3, <1>4, <1>7, <1>8 DEF IsBest, Devices

LEMMA BestUnfold ==
  BestOfABestPartition
    <=> (setup.policy = "best_effort" /\ Allocated /\ Undisturbed
           /\ Cardinality(Free) <= 6 * req => IsBest(answer))
  BY DEF BestOfABestPartition, IsBest, Value

LEMMA BestUnfoldNext ==
  (BestOfABestPartition
    <=> (setup.policy = "best_effort" /\ Allocated /\ Undisturbed
           /\ Cardinality(Free) <= 6 * req => IsBest(answer)))'
  BY BestUnfold, PTL

LEMMA BestKept ==
  ASSUME TypeOK, ScanInv, BestOfABestPartition, [Next]_vars
  PROVE  BestOfABestPartition'
  <1> SUFFICES ASSUME (setup.policy = "best_effort" /\ Allocated /\ Undisturbed
                         /\ Cardinality(Free) <= 6 * req)'
               PROVE  IsBest(answer)'
    BY BestUnfoldNext, Zenon
  <1>1. setup'.policy = "best_effort" /\ pc' = "answered" /\ answer'.kind = "ids"
        /\ changes' = 0 /\ recovering' = None /\ Cardinality(Free') <= 6 * req'
    BY DEF Allocated, Undisturbed
  <1>2. CASE UNCHANGED vars
    <2>1. /\ setup' = setup /\ isUsed' = isUsed /\ recovering' = recovering /\ req' = req
          /\ answer' = answer /\ setup.policy = "best_effort" /\ Allocated /\ Undisturbed
          /\ Cardinality(Free) <= 6 * req
      BY <1>1, <1>2 DEF vars, Allocated, Undisturbed, Free
    <2>2. IsBest(answer)
      BY <2>1, BestUnfold, Zenon
    <2>3. IsFiniteSet(Devices(answer))
      <3>1. Devices(answer) \subseteq Dev
        BY DEF TypeOK, Devices
      <3> QED
        BY <3>1, PartsFinite
    <2> QED
      BY <2>1, <2>2, <2>3, SameBest
  <1>3. CASE pc = "count" /\ Finish(Error)
    BY <1>1, <1>3, ErrorTypeOK DEF Finish
  <1>4. CASE pc = "look" /\ order = << >> /\ Finish(Chosen)
    <2>1. /\ setup' = setup /\ isUsed' = isUsed /\ recovering' = recovering /\ req' = req
          /\ answer' = Chosen /\ changes' = changes
      BY <1>4 DEF Finish, Call
    <2>2. /\ setup.policy = "best_effort" /\ Undisturbed /\ Chosen = BestAnswer
          /\ Cardinality(Free) <= 6 * req
      BY <1>1, <2>1 DEF Undisturbed, Chosen, Free
    <2>3. IsBest(BestAnswer)
      BY <1>1, <1>4, <2>1, <2>2, BestChosen
    <2>4. IsFiniteSet(Devices(BestAnswer))
      <3>1. Devices(BestAnswer) \subseteq Dev
        BY <1>4, <2>2, BestSound DEF Sound, Answers, Devices
      <3> QED
        BY <3>1, PartsFinite
    <2> QED
      BY <2>1, <2>2, <2>3, <2>4, SameBest
  <1> QED
    BY <1>1, <1>2, <1>3, <1>4, AnsweredBy

LEMMA FailureKept ==
  ASSUME TypeOK, ScanInv, FailsExactlyUnlinked, [Next]_vars
  PROVE  FailsExactlyUnlinked'
  <1> SUFFICES ASSUME setup'.policy = "best_effort", pc' = "answered", Undisturbed',
                      req' \in 1 .. Cardinality(Free')
               PROVE  answer'.kind = "panic"
                        <=> req' = 1 \/ \A a, b \in Free' : a # b => Origin(a, b)' = 0
    BY DEF FailsExactlyUnlinked
  <1>1. CASE UNCHANGED vars
    <2>1. /\ Free' = Free /\ setup' = setup /\ req' = req /\ answer' = answer
          /\ Undisturbed /\ pc = "answered"
      BY <1>1 DEF vars, Free, Undisturbed
    <2>2. \A a, b : Origin(a, b)' = Origin(a, b)
      BY <2>1, Zenon DEF Origin
    <2>3. answer.kind = "panic" <=> req = 1 \/ \A a, b \in Free : a # b => Origin(a, b) = 0
      BY <2>1 DEF FailsExactlyUnlinked
    <2> QED
      BY <2>1, <2>2, <2>3
  <1>2. CASE pc = "count" /\ Finish(Error) /\ (req <= 0 \/ req > Cardinality(Free))
    <2>1. Free' = Free /\ req' = req
      BY <1>2 DEF Finish, Call, Free
    <2>2. Cardinality(Free) \in Nat
      BY FreeCount
    <2> QED
      BY <1>2, <2>1, <2>2
  <1>3. CASE pc = "look" /\ order = << >> /\ Finish(Chosen)
    <2>1. /\ setup' = setup /\ isUsed' = isUsed /\ recovering' = recovering /\ req' = req
          /\ answer' = Chosen /\ changes' = changes
      BY <1>3 DEF Finish, Call
    <2>2. /\ setup.policy = "best_effort" /\ Undisturbed /\ Chosen = BestAnswer
          /\ Free' = Free
      BY <2>1 DEF Undisturbed, Chosen, Free
    <2>3. \A a, b : Origin(a, b)' = Origin(a, b)
      BY <2>1, Zenon DEF Origin
    <2>4. BestAnswer.kind = "panic"
            <=> req = 1 \/ \A a, b \in Free : a # b => Origin(a, b) = 0
      BY <1>3, <2>1, <2>2, BestChosen
    <2> QED
      BY <2>1, <2>2, <2>3, <2>4
  <1> QED
    BY <1>1, <1>2, <1>3, AnsweredBy

(***************************************************************************)
(* besteffort_policy.go:51, "Find the highest scoring GPU set in the       *)
(* highest scoring GPU partition": for every topology, request and number  *)
(* of devices that makes at most six sets, the answer is a set of best     *)
(* score in a partition of best score, of all partitions there are, and    *)
(* carries its score.  With more sets append may overwrite the saved       *)
(* partition (besteffort_policy.go:97), and neither need hold.             *)
(***************************************************************************)
THEOREM BestAnswered == Spec => []BestOfABestPartition
  <1>1. Init => BestOfABestPartition
    BY DEF Init, BestOfABestPartition, Allocated
  <1>2. TypeOK /\ ScanInv /\ BestOfABestPartition /\ [Next]_vars => BestOfABestPartition'
    BY BestKept
  <1> QED
    BY <1>1, <1>2, TypeCorrect, ScanHolds, PTL DEF Spec

(***************************************************************************)
(* When the best-effort policy fails a request that the free devices would *)
(* satisfy: for a single device, and when no two free devices are linked,  *)
(* on every node; nothing else makes it fail (besteffort_policy.go:34-66). *)
(***************************************************************************)
THEOREM FailuresUnlinked == Spec => []FailsExactlyUnlinked
  <1>1. Init => FailsExactlyUnlinked
    BY DEF Init, FailsExactlyUnlinked
  <1>2. TypeOK /\ ScanInv /\ FailsExactlyUnlinked /\ [Next]_vars => FailsExactlyUnlinked'
    BY FailureKept
  <1> QED
    BY <1>1, <1>2, TypeCorrect, ScanHolds, PTL DEF Spec
=============================================================================
