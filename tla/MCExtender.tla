----------------------------- MODULE MCExtender -----------------------------
(* Instances of Extender.tla for TLC.                                       *)
EXTENDS ExtenderInvariants, TLC

CONSTANTS p1, p2, p3, k1, k2, b1, b2

\* every pod has a name of its own
OwnKey == [p \in Pod |-> p]

\* p1 and p2 have one name: p2 is created after p1 is deleted
SharedKey == [p \in Pod |-> IF p = p3 THEN k2 ELSE k1]

OneEach == [p \in Pod |-> 1]
TwoEach == [p \in Pod |-> 2]

\* p1 wants one device, the others want two
OneOrTwo == [p \in Pod |-> IF p = p1 THEN 1 ELSE 2]

\* a policy that answers any free devices, as many as asked; Policies.tla says when
\* the policies of the code do
AnyFree(free, n) == {s \in SUBSET free : Cardinality(s) = n}

\* the first of the free devices or, when n does not divide them, the padded set
FirstPadded(free, n) ==
  LET Lowest(k) == {g \in free : Cardinality({h \in free : h < g}) < k}
      rest      == Cardinality(free) % n
  IN  {Lowest(n)} \union (IF rest = 0 THEN {} ELSE {Lowest(rest) \union {NoGPU}})

Symmetry       == Permutations(Pod) \union Permutations(Binder)
BinderSymmetry == Permutations(Binder)
=============================================================================
