------------------------ MODULE MCHandoffOrchestrator ------------------------
(* Small instances of HandoffOrchestrator for TLC. *)
EXTENDS HandoffOrchestrator, Naturals, FiniteSets, TLC

(* Requests and agents are interchangeable: only safety runs use this.      *)
Symmetry == Permutations(Req) \cup Permutations(Agents)

(* Bound: two accepts, one request of every other kind.                     *)
FewOfAKind ==
  \A k \in Kinds :
    Cardinality({r \in Req : kind[r] = k}) <= IF k = "accept" THEN 2 ELSE 1
=============================================================================
