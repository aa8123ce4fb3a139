-------------------------- MODULE MCProviderStore --------------------------
(***************************************************************************)
(* Instances of ProviderStore for TLC.                                     *)
(***************************************************************************)
EXTENDS ProviderStore

CONSTANTS k1, k2, o1, o2, s1, s2

MCRecord(k, o, s, t) ==
    [key |-> k, operation |-> o, snapshot |-> s, acceptedAt |-> t]

(* An assignment, its retry later, one at odds with both in the key and    *)
(* one in the operation; these two may stand side by side.                 *)
MCCandidates == {MCRecord(k1, o1, s1, 0), MCRecord(k1, o1, s1, 1),
                 MCRecord(k1, o2, s2, 0), MCRecord(k2, o1, s2, 0)}

MCKeys == {k1, k2}
MCOperations == {o1, o2}
=============================================================================
