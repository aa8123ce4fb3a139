-------------------------- MODULE MCOperatorFacade --------------------------
(***************************************************************************)
(* Instances of OperatorFacade for TLC.                                    *)
(***************************************************************************)
EXTENDS OperatorFacade, TLC

MCCaseOf == [p \in Proposals |-> Greenleaf]

(* Sources count both revisions by the second. *)
MCRevisions == {[evidence |-> n, route |-> n] : n \in 0..MaxSecond}

MCNoKinds == {}

(* A case that is overtaken or has twins stays so, and then the property   *)
(* says nothing of it any more: the run looks no further.                  *)
MCInQuestion == \E c \in Cases : ~Overtaken(c) /\ ~Twins(c)

MCSymmetry == Permutations(Workers) \cup Permutations(Operations)
                \cup Permutations(Proposals)
=============================================================================
