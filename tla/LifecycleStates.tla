--------------------------- MODULE LifecycleStates ---------------------------
(***************************************************************************)
(* The state machine shared by every lifecycle implementation of TrashPal: *)
(* the in-memory engine and the Postgres repository consult the table of   *)
(* packages/lifecycle/src/state-machine.ts, and the trigger on the         *)
(* operations table holds a copy of it written in SQL.                     *)
(***************************************************************************)

(* The states a stored operation can have (the CHECK of its column).       *)
OperationStates ==
    {"reserved", "sending", "accepted", "unknown", "assignment_reconciled",
     "driver_reported", "supporting_evidence_received", "evidence_reconciled",
     "customer_confirmed", "disputed", "reopened", "cancelled", "failed"}

(* lifecycleTransitions of state-machine.ts.                               *)
lifecycleTransitions ==
    [uninitialized                |-> {"approved"},
     approved                     |-> {"reserved", "accepted", "unknown"},
     reserved                     |-> {"sending", "cancelled"},
     sending                      |-> {"accepted", "unknown", "failed"},
     accepted                     |-> {"driver_reported", "unknown"},
     unknown                      |-> {"assignment_reconciled", "failed"},
     assignment_reconciled        |-> {"driver_reported"},
     driver_reported              |-> {"supporting_evidence_received",
                                       "evidence_reconciled", "disputed"},
     supporting_evidence_received |-> {"evidence_reconciled", "disputed"},
     evidence_reconciled          |-> {"customer_confirmed", "disputed"},
     customer_confirmed           |-> {"disputed"},
     disputed                     |-> {"reopened"},
     reopened                     |-> {"reserved", "cancelled"},
     cancelled                    |-> {},
     failed                       |-> {}]

(* The table of the trigger lifecycle_validate_operation_transition.       *)
triggerTransitions ==
    [reserved                     |-> {"sending", "cancelled"},
     sending                      |-> {"accepted", "unknown", "failed"},
     accepted                     |-> {"driver_reported", "unknown"},
     unknown                      |-> {"assignment_reconciled", "failed"},
     assignment_reconciled        |-> {"driver_reported"},
     driver_reported              |-> {"supporting_evidence_received",
                                       "evidence_reconciled", "disputed"},
     supporting_evidence_received |-> {"evidence_reconciled", "disputed"},
     evidence_reconciled          |-> {"customer_confirmed", "disputed"},
     customer_confirmed           |-> {"disputed"},
     disputed                     |-> {"reopened"},
     reopened                     |-> {"reserved", "cancelled"},
     cancelled                    |-> {},
     failed                       |-> {}]

(* targetByKind of recordEvidence: the state each evidence kind leads to,  *)
(* and the kinds only a worker principal may record.                       *)
targetByKind ==
    [driver_report         |-> "driver_reported",
     supporting_attachment |-> "supporting_evidence_received",
     reconciliation        |-> "evidence_reconciled",
     customer_confirmation |-> "customer_confirmed",
     customer_dispute      |-> "disputed",
     reopen                |-> "reopened"]

EvidenceKinds == {"driver_report", "supporting_attachment", "reconciliation",
                  "customer_confirmation", "customer_dispute", "reopen"}

WorkerKinds == {"driver_report", "supporting_attachment", "reconciliation"}

(* The states whose operation holds a provider assignment on record.       *)
AssignedStates == {"accepted", "assignment_reconciled", "driver_reported",
                   "supporting_evidence_received", "evidence_reconciled",
                   "customer_confirmed", "disputed", "reopened"}

(* assertLifecycleTransition, and the trigger behind it.                   *)
MayMove(from, to) == /\ to \in lifecycleTransitions[from]
                     /\ to \in triggerTransitions[from]
==============================================================================
