------------------------------ MODULE GpuLedger ------------------------------
(***************************************************************************)
(* What the extender promises, seen from the outside: a ledger of the GPUs *)
(* of one node.  A pod is granted, in one step and once in its life, as    *)
(* many devices as it asked for, none of which another pod holds; it keeps *)
(* exactly these until it ends.                                            *)
(***************************************************************************)
EXTENDS Naturals, FiniteSets

CONSTANTS Pod, GPU, Req

VARIABLES
  granted,   \* the devices each pod holds
  retired    \* pods that have ended, with or without a grant

ledger == <<granted, retired>>

LedgerTypeOK == /\ granted \in [Pod -> SUBSET GPU]
                /\ retired \subseteq Pod

Init == granted = [p \in Pod |-> {}] /\ retired = {}

Grant(p, S) ==
  /\ p \notin retired /\ granted[p] = {}
  /\ Cardinality(S) = Req[p]
  /\ \A q \in Pod : granted[q] \cap S = {}
  /\ granted' = [granted EXCEPT ![p] = S]
  /\ UNCHANGED retired

Retire(p) ==
  /\ p \notin retired
  /\ granted' = [granted EXCEPT ![p] = {}]
  /\ retired' = retired \union {p}

Next == \E p \in Pod : Retire(p) \/ \E S \in SUBSET GPU : Grant(p, S)

Spec == Init /\ [][Next]_ledger

\* no device is granted to two pods at once
GrantsDisjoint == \A p, q \in Pod : p # q => granted[p] \cap granted[q] = {}
=============================================================================
