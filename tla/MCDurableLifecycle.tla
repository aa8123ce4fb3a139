------------------------ MODULE MCDurableLifecycle ------------------------
(***************************************************************************)
(* Instances of DurableLifecycle for TLC.                                  *)
(***************************************************************************)
EXTENDS DurableLifecycle, TLC

(* Every proposal is about the same case. *)
MCCaseOf == [p \in Proposals |-> CHOOSE c \in Cases : TRUE]

(* Case truth may move forward in either revision; the last two of these   *)
(* are each newer than the first and neither is newer than the other.      *)
MCRevisions ==
    {[evidence |-> e, route |-> r] : e, r \in {0, 1}} \ {[evidence |-> 1, route |-> 1]}
MCOneRevision == {[evidence |-> 0, route |-> 0]}

MCNoKinds == {}

(* All proposals are about one case, so they are interchangeable too. *)
MCSymmetry == Permutations(Workers) \cup Permutations(Users)
                \cup Permutations(Operations) \cup Permutations(Proposals)
===========================================================================
