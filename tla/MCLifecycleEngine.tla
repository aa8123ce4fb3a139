------------------------- MODULE MCLifecycleEngine -------------------------
(***************************************************************************)
(* Instances of LifecycleEngine for TLC.                                   *)
(***************************************************************************)
EXTENDS LifecycleEngine, TLC

MCAllKinds == EvidenceKinds
MCCapabilities == {"approve_recovery"}

MCSymmetry == Permutations(Evidence) \cup Permutations(Calls)
                \cup Permutations(Tokens) \cup Permutations(Versions)
============================================================================
