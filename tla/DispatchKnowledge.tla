-------------------------- MODULE DispatchKnowledge --------------------------
(***************************************************************************)
(* What the durable lifecycle promises about an external dispatch it       *)
(* cannot make atomic with its own database: at all times it either knows  *)
(* the truth about the provider's side or knows that it does not know it.  *)
(*                                                                         *)
(* assigned is the truth, kept by the provider; belief is what the         *)
(* database says of each operation.                                        *)
(***************************************************************************)
CONSTANT Operations

VARIABLES assigned, belief

vars == <<assigned, belief>>

Beliefs == {"none", "pending", "uncertain", "assigned", "not_assigned"}

TypeOK == /\ assigned \subseteq Operations
          /\ belief \in [Operations -> Beliefs]

Init == /\ assigned = {}
        /\ belief = [o \in Operations |-> "none"]

(* A changed belief about one operation; the truth stays.                  *)
Believe(o, from, to) ==
    /\ belief[o] = from
    /\ belief' = [belief EXCEPT ![o] = to]
    /\ UNCHANGED assigned

Reserve(o)  == Believe(o, "none", "pending")
Withdraw(o) == Believe(o, "pending", "not_assigned")
Dispatch(o) == Believe(o, "pending", "uncertain")

(* The provider only ever takes an operation the database is uncertain     *)
(* about: not before its dispatch, and not after the case was closed.      *)
Accept(o) ==
    /\ belief[o] = "uncertain"
    /\ assigned' = assigned \cup {o}
    /\ UNCHANGED belief

(* A conclusion is drawn only when it is true.                             *)
ConcludeAssigned(o)    == o \in assigned /\ Believe(o, "uncertain", "assigned")
ConcludeNotAssigned(o) == o \notin assigned /\ Believe(o, "uncertain", "not_assigned")

(* The database may fall back to not knowing, never to not having sent.    *)
Doubt(o) == Believe(o, "assigned", "uncertain")

Next == \E o \in Operations :
    \/ Reserve(o)
    \/ Withdraw(o)
    \/ Dispatch(o)
    \/ Accept(o)
    \/ ConcludeAssigned(o)
    \/ ConcludeNotAssigned(o)
    \/ Doubt(o)

Spec == Init /\ [][Next]_vars

(* A belief that is not an uncertainty is the truth.                       *)
Truthful == \A o \in Operations :
    /\ belief[o] = "assigned" => o \in assigned
    /\ belief[o] \in {"none", "pending", "not_assigned"} => o \notin assigned
==============================================================================
