--------------------------- MODULE LifecycleEngine ---------------------------
(***************************************************************************)
(* The in-memory lifecycle of packages/lifecycle: LifecycleEngine, whose   *)
(* records are Maps of one process, and the dispatch connector it is given.*)
(*                                                                         *)
(* JavaScript runs a call to its first await without interruption, so a    *)
(* synchronous method is one action. dispatch and reconcile await the      *)
(* connector once: they are one action up to the call of the connector and *)
(* another one after its promise settles, and calls of any kind, further   *)
(* dispatches and reconciliations of the same operation among them, run in *)
(* between. A call that throws before it changes anything is no step.      *)
(***************************************************************************)
EXTENDS SessionAuthority, LifecycleStates, Naturals, Sequences, FiniteSets

CONSTANTS
    Proposals,
    Operations,   \* identifiers that IdSource may produce
    Versions,     \* decision inputs a proposal may have: digests, revisions,
                  \* work order and validUntil
    Calls,        \* dispatch and reconcile calls under way at once
    Evidence,     \* identifiers of outcome evidence
    Kinds,        \* evidence kinds that are reported
    MaxReceipts   \* bound on the receipts kept for one operation

ASSUME KindsAssumption == Kinds \subseteq EvidenceKinds

VARIABLES
    inputs,       \* #decisionInputs: current version, and whether revoked
    expired,      \* versions whose validUntil has passed
    approvals,    \* #approvals and #approvalByProposal: one per proposal
    operations,   \* #operations: MutableOperation
    evidence,     \* #outcomeEvidence: identifiers in use
    receipts,     \* #receipts
    calls,        \* where each asynchronous call stands
    provider,     \* what became of the assignment on the provider's side
    sends         \* connector.send calls per operation

engineVars == <<inputs, expired, approvals, operations, evidence, receipts,
                calls, provider, sends>>
vars == <<sessions, engineVars>>

-----------------------------------------------------------------------------
Input == [version : Versions, revoked : BOOLEAN]
Approval == [version : Versions, approver : Users, revoked : BOOLEAN]
Reasons == {"none", "approval_stale_or_revoked", "connector_rejected",
            "acknowledgement_lost", "connector_result_unknown",
            "connector_binding_mismatch", "reconciled_binding_mismatch"}
Event == [state : OperationStates, reason : Reasons,
          evidence : Evidence \cup {None}]

(* The snapshot's proposal, version and approver never change.             *)
Operation == [proposal : Proposals, version : Versions, approver : Users,
              state : OperationStates, revision : Nat, events : Seq(Event),
              evidenceIds : SUBSET Evidence, assigned : BOOLEAN]
Receipt == [revision : Nat, state : OperationStates, reason : Reasons,
            evidence : SUBSET Evidence]

ASSUME NoneAssumption ==
    None \notin Operations \cup Evidence \cup Session \cup Input \cup Approval
                \cup Operation

(* A call waits for the connector or has what its promise settled to.      *)
SendAnswers == {"acknowledged", "mismatched", "rejected", "ack_lost", "error"}
LookupAnswers == {"found", "found_mismatch", "absent"}
PCs == {"idle", "sending", "looking_up"} \cup SendAnswers \cup LookupAnswers

TypeOK ==
    /\ SessionsTypeOK
    /\ inputs \in [Proposals -> Input \cup {None}]
    /\ expired \subseteq Versions
    /\ approvals \in [Proposals -> Approval \cup {None}]
    /\ operations \in [Operations -> Operation \cup {None}]
    /\ evidence \subseteq Evidence
    /\ receipts \in [Operations -> SUBSET Receipt]
    /\ calls \in [Calls -> [pc : PCs, operation : Operations \cup {None}]]
    /\ provider \in [Operations -> {"none", "in_flight", "held", "misbound"}]
    /\ sends \in [Operations -> Nat]

Idle == [pc |-> "idle", operation |-> None]

Init ==
    /\ SessionsInit
    /\ inputs = [p \in Proposals |-> None]
    /\ expired = {}
    /\ approvals = [p \in Proposals |-> None]
    /\ operations = [o \in Operations |-> None]
    /\ evidence = {}
    /\ receipts = [o \in Operations |-> {}]
    /\ calls = [k \in Calls |-> Idle]
    /\ provider = [o \in Operations |-> "none"]
    /\ sends = [o \in Operations |-> 0]

-----------------------------------------------------------------------------
(* Helpers of the engine.                                                  *)

(* Mutant: the withdrawn approval is not looked at.                        *)
ApprovalIsCurrent_IgnoresRevocation(p) ==
    /\ inputs[p] # None
    /\ ~inputs[p].revoked
    /\ approvals[p].version \notin expired
    /\ approvals[p].version = inputs[p].version
    /\ HasCapability(approvals[p].approver, "approve_recovery")

(* #assertApprovalIsCurrent: sameBinding compares the versions.            *)
ApprovalIsCurrent(p) ==
    /\ inputs[p] # None
    /\ ~inputs[p].revoked
    /\ ~approvals[p].revoked
    /\ approvals[p].version \notin expired
    /\ approvals[p].version = inputs[p].version
    /\ HasCapability(approvals[p].approver, "approve_recovery")

(* #assertSnapshotIsCurrent with sameExecutableBinding.                    *)
SnapshotIsCurrent(o) ==
    LET snapshot == operations[o]
    IN  /\ approvals[snapshot.proposal] # None
        /\ approvals[snapshot.proposal].approver = snapshot.approver
        /\ ApprovalIsCurrent(snapshot.proposal)
        /\ inputs[snapshot.proposal].version = snapshot.version

InState(o, states) == operations[o] # None /\ operations[o].state \in states

(* assertLifecycleTransition.                                              *)
Allowed(o, state) ==
    operations[o] # None /\ state \in lifecycleTransitions[operations[o].state]

(* #transition, where it is allowed.                                       *)
Advanced(operation, state, reason, id) ==
    [operation EXCEPT
        !.state = state,
        !.revision = @ + 1,
        !.events = Append(@, [state |-> state, reason |-> reason, evidence |-> id])]

(* #transition after an await: it throws where it is not allowed, and what *)
(* the call had already written before stays.                              *)
Transition(o, operation, state, reason) ==
    operations' = [operations EXCEPT ![o] =
        IF Allowed(o, state) THEN Advanced(operation, state, reason, None)
                             ELSE operation]

-----------------------------------------------------------------------------
(* Decisions: synchronous calls.                                           *)

registerDecisionInputs(p) ==
    /\ inputs[p] = None
    /\ \E i \in Input : inputs' = [inputs EXCEPT ![p] = i]
    /\ UNCHANGED <<sessions, expired, approvals, operations, evidence, receipts,
                   calls, provider, sends>>

replaceCurrentDecisionInputs(p) ==
    /\ inputs[p] # None
    /\ \E i \in Input : inputs' = [inputs EXCEPT ![p] = i]
    /\ UNCHANGED <<sessions, expired, approvals, operations, evidence, receipts,
                   calls, provider, sends>>

(* A proposal has one approval lineage: a repeated approve returns it or   *)
(* throws.                                                                 *)
approve(t, p) ==
    /\ Resolves(t, "approve_recovery")
    /\ inputs[p] # None
    /\ ~inputs[p].revoked
    /\ inputs[p].version \notin expired
    /\ approvals[p] = None
    /\ approvals' = [approvals EXCEPT ![p] =
           [version |-> inputs[p].version, approver |-> sessions[t].subject,
            revoked |-> FALSE]]
    /\ UNCHANGED <<sessions, inputs, expired, operations, evidence, receipts,
                   calls, provider, sends>>

revokeApproval(t, p) ==
    /\ Resolves(t, "approve_recovery")
    /\ approvals[p] # None
    /\ approvals' = [approvals EXCEPT ![p].revoked = TRUE]
    /\ UNCHANGED <<sessions, inputs, expired, operations, evidence, receipts,
                   calls, provider, sends>>

(* One operation per proposal: a second reserve returns the first one's.   *)
reserve(t, p, o) ==
    /\ Resolves(t, "approve_recovery")
    /\ approvals[p] # None
    /\ \A q \in Operations : operations[q] # None => operations[q].proposal # p
    /\ ApprovalIsCurrent(p)
    /\ operations[o] = None
    /\ operations' = [operations EXCEPT ![o] =
           [proposal |-> p, version |-> inputs[p].version,
            approver |-> approvals[p].approver, state |-> "reserved", revision |-> 0,
            events |-> <<[state |-> "reserved", reason |-> "none", evidence |-> None]>>,
            evidenceIds |-> {}, assigned |-> FALSE]]
    /\ UNCHANGED <<sessions, inputs, expired, approvals, evidence, receipts,
                   calls, provider, sends>>

-----------------------------------------------------------------------------
(* dispatch and reconcile.                                                 *)

(* Mutant: the operation is marked only when the connector has answered.   *)
dispatch_MarksLate(k, o) ==
    /\ calls[k] = Idle
    /\ InState(o, {"reserved"})
    /\ SnapshotIsCurrent(o)
    /\ calls' = [calls EXCEPT ![k] = [pc |-> "sending", operation |-> o]]
    /\ provider' = [provider EXCEPT ![o] = "in_flight"]
    /\ sends' = [sends EXCEPT ![o] = @ + 1]
    /\ UNCHANGED <<sessions, inputs, expired, approvals, operations, evidence, receipts>>

(* dispatch up to its await: the operation is marked and the request is on *)
(* its way in the same turn of the event loop.                             *)
dispatch(k, o) ==
    /\ calls[k] = Idle
    /\ InState(o, {"reserved"})
    /\ SnapshotIsCurrent(o)
    /\ operations' = [operations EXCEPT ![o] = Advanced(@, "sending", "none", None)]
    /\ calls' = [calls EXCEPT ![k] = [pc |-> "sending", operation |-> o]]
    /\ provider' = [provider EXCEPT ![o] = "in_flight"]
    /\ sends' = [sends EXCEPT ![o] = @ + 1]
    /\ UNCHANGED <<sessions, inputs, expired, approvals, evidence, receipts>>

(* dispatch finds the snapshot stale: it cancels and throws.               *)
dispatchCancels(o) ==
    /\ InState(o, {"reserved"})
    /\ ~SnapshotIsCurrent(o)
    /\ operations' = [operations EXCEPT ![o] =
           Advanced(@, "cancelled", "approval_stale_or_revoked", None)]
    /\ UNCHANGED <<sessions, inputs, expired, approvals, evidence, receipts,
                   calls, provider, sends>>

(* The call k goes on with the answer a to its question q.                 *)
Resumes(k, a) == /\ calls[k].pc = a
                 /\ calls' = [calls EXCEPT ![k] = Idle]

UnchangedByResuming ==
    UNCHANGED <<sessions, inputs, expired, approvals, evidence, receipts, provider, sends>>

(* An assignment that matches the snapshot is noted before the transition. *)
dispatchAccepts(k) ==
    LET o == calls[k].operation
    IN  /\ Resumes(k, "acknowledged")
        /\ Transition(o, [operations[o] EXCEPT !.assigned = TRUE], "accepted", "none")
        /\ UnchangedByResuming

(* Mutant: the assignment is noted before it is compared.                  *)
dispatchMismatches_NotesFirst(k) ==
    LET o == calls[k].operation
    IN  /\ Resumes(k, "mismatched")
        /\ Transition(o, [operations[o] EXCEPT !.assigned = TRUE],
                      "failed", "connector_binding_mismatch")
        /\ UnchangedByResuming

(* The provider's assignment is for something else.                        *)
dispatchMismatches(k) ==
    LET o == calls[k].operation
    IN  /\ Resumes(k, "mismatched")
        /\ Transition(o, operations[o], "failed", "connector_binding_mismatch")
        /\ UnchangedByResuming

(* ConnectorRejectedError.                                                 *)
dispatchRejected(k) ==
    LET o == calls[k].operation
    IN  /\ Resumes(k, "rejected")
        /\ Transition(o, operations[o], "failed", "connector_rejected")
        /\ UnchangedByResuming

(* Any other error: nobody knows what the provider did.                    *)
dispatchUnknown(k) ==
    LET o == calls[k].operation
    IN  /\ \/ /\ Resumes(k, "ack_lost")
              /\ Transition(o, operations[o], "unknown", "acknowledgement_lost")
           \/ /\ Resumes(k, "error")
              /\ Transition(o, operations[o], "unknown", "connector_result_unknown")
        /\ UnchangedByResuming

reconcile(k, o) ==
    /\ calls[k] = Idle
    /\ InState(o, {"unknown"})
    /\ calls' = [calls EXCEPT ![k] = [pc |-> "looking_up", operation |-> o]]
    /\ UNCHANGED <<sessions, inputs, expired, approvals, operations, evidence, receipts,
                   provider, sends>>

(* Mutant: a provider without the assignment is taken at its word.         *)
reconcileAbsent_Concludes(k) ==
    LET o == calls[k].operation
    IN  /\ Resumes(k, "absent")
        /\ Transition(o, operations[o], "failed", "none")
        /\ UnchangedByResuming

(* No assignment was found, or the lookup threw: nothing changes.          *)
reconcileAbsent(k) ==
    /\ Resumes(k, "absent")
    /\ UNCHANGED operations
    /\ UnchangedByResuming

reconcileMismatches(k) ==
    LET o == calls[k].operation
    IN  /\ Resumes(k, "found_mismatch")
        /\ Transition(o, operations[o], "failed", "reconciled_binding_mismatch")
        /\ UnchangedByResuming

(* Mutant: a late reconciliation moves the operation wherever it is.       *)
reconcileFound_Unchecked(k) ==
    LET o == calls[k].operation
    IN  /\ Resumes(k, "found")
        /\ operations' = [operations EXCEPT ![o] =
               Advanced([@ EXCEPT !.assigned = TRUE], "assignment_reconciled", "none", None)]
        /\ UnchangedByResuming

reconcileFound(k) ==
    LET o == calls[k].operation
    IN  /\ Resumes(k, "found")
        /\ Transition(o, [operations[o] EXCEPT !.assigned = TRUE],
                      "assignment_reconciled", "none")
        /\ UnchangedByResuming

-----------------------------------------------------------------------------
(* The connector and the provider behind it. InMemoryDispatchConnector     *)
(* takes an assignment at once and answers, or loses its answer; the       *)
(* engine, and the connectors of its tests, allow for any of these.        *)

UnchangedByProvider ==
    UNCHANGED <<sessions, inputs, expired, approvals, operations, evidence, receipts, sends>>

(* The request arrives, or is bound to something else, or gets lost; it    *)
(* may arrive after its sender has given up.                               *)
ProviderTakes(o) ==
    /\ provider[o] = "in_flight"
    /\ \E fate \in {"held", "misbound", "none"} :
           provider' = [provider EXCEPT ![o] = fate]
    /\ UNCHANGED calls
    /\ UnchangedByProvider

Settles(k, from, a) ==
    /\ calls[k].pc = from
    /\ calls' = [calls EXCEPT ![k].pc = a]

(* What send may settle to, given what the provider has done.              *)
SendSettles(k) ==
    LET o == calls[k].operation
    IN  /\ calls[k].pc = "sending"
        /\ \/ /\ provider[o] = "held"
              /\ Settles(k, "sending", "acknowledged") \/ Settles(k, "sending", "ack_lost")
           \/ /\ provider[o] = "misbound"
              /\ Settles(k, "sending", "mismatched")
           \/ Settles(k, "sending", "error")
        /\ UNCHANGED provider
        /\ UnchangedByProvider

(* A definitive rejection: the request is gone.                            *)
SendRejects(k) ==
    LET o == calls[k].operation
    IN  /\ Settles(k, "sending", "rejected")
        /\ provider[o] = "in_flight"
        /\ provider' = [provider EXCEPT ![o] = "none"]
        /\ UnchangedByProvider

LookupSettles(k) ==
    LET o == calls[k].operation
    IN  /\ calls[k].pc = "looking_up"
        /\ \/ provider[o] = "held" /\ Settles(k, "looking_up", "found")
           \/ provider[o] = "misbound" /\ Settles(k, "looking_up", "found_mismatch")
           \/ provider[o] \notin {"held", "misbound"} /\ Settles(k, "looking_up", "absent")
        /\ UNCHANGED provider
        /\ UnchangedByProvider

-----------------------------------------------------------------------------
(* Outcomes: synchronous calls.                                            *)

WithEvidence(operation, id) == [operation EXCEPT !.evidenceIds = @ \cup {id}]

(* #evidenceTransition for the six kinds.                                  *)
evidenceTransition(o, kind, id) ==
    /\ Allowed(o, targetByKind[kind])
    /\ id \notin evidence
    /\ operations' = [operations EXCEPT ![o] =
           Advanced(WithEvidence(@, id), targetByKind[kind], "none", id)]
    /\ evidence' = evidence \cup {id}
    /\ UNCHANGED <<sessions, inputs, expired, approvals, receipts, calls, provider, sends>>

LastEvent(o) == operations[o].events[Len(operations[o].events)]

ReceiptOf(o) == [revision |-> operations[o].revision,
                 state    |-> operations[o].state,
                 reason   |-> LastEvent(o).reason,
                 evidence |-> operations[o].evidenceIds]

(* One receipt per revision; asking again returns it.                      *)
receipt(o) ==
    /\ operations[o] # None
    /\ \A r \in receipts[o] : r.revision # operations[o].revision
    /\ Cardinality(receipts[o]) < MaxReceipts
    /\ receipts' = [receipts EXCEPT ![o] = @ \cup {ReceiptOf(o)}]
    /\ UNCHANGED <<sessions, inputs, expired, approvals, operations, evidence,
                   calls, provider, sends>>

(* Time passes a validUntil.                                               *)
Expire(v) ==
    /\ v \notin expired
    /\ expired' = expired \cup {v}
    /\ UNCHANGED <<sessions, inputs, approvals, operations, evidence, receipts,
                   calls, provider, sends>>

-----------------------------------------------------------------------------
Authority == SessionsNext /\ UNCHANGED engineVars

Decide ==
    \/ \E p \in Proposals : registerDecisionInputs(p) \/ replaceCurrentDecisionInputs(p)
    \/ \E t \in Tokens, p \in Proposals : approve(t, p) \/ revokeApproval(t, p)
    \/ \E t \in Tokens, p \in Proposals, o \in Operations : reserve(t, p, o)
    \/ \E v \in Versions : Expire(v)

(* A call that was answered goes on.                                       *)
Resume(k) ==
    \/ dispatchAccepts(k) \/ dispatchMismatches(k) \/ dispatchRejected(k)
    \/ dispatchUnknown(k)
    \/ reconcileAbsent(k) \/ reconcileMismatches(k) \/ reconcileFound(k)

Execute ==
    \/ \E k \in Calls, o \in Operations : dispatch(k, o) \/ reconcile(k, o)
    \/ \E o \in Operations : dispatchCancels(o) \/ ProviderTakes(o)
    \/ \E k \in Calls : SendSettles(k) \/ SendRejects(k) \/ LookupSettles(k) \/ Resume(k)

Outcome ==
    \/ \E o \in Operations, kind \in Kinds, id \in Evidence : evidenceTransition(o, kind, id)
    \/ \E o \in Operations : receipt(o)

Next == Authority \/ Decide \/ Execute \/ Outcome

Spec == Init /\ [][Next]_vars

-----------------------------------------------------------------------------
(* Properties.                                                             *)

Sends(k, o) == calls[k] \in [pc : {"sending"} \cup SendAnswers, operation : {o}]

(* An operation is in state sending exactly as long as one dispatch call   *)
(* has sent it and not gone on: no other call takes the state away under   *)
(* the one that awaits the connector, none sends a second time, and the    *)
(* call that was answered, or whose send threw, does not leave it behind.  *)
OneSender ==
    \A o \in Operations :
        /\ sends[o] <= 1
        /\ InState(o, {"sending"}) <=> \E k \in Calls : Sends(k, o)
        /\ \A j, k \in Calls : Sends(j, o) /\ Sends(k, o) => j = k

(* providerAssignmentId is on record in the states that need it and in no  *)
(* other, although dispatch and reconcile write it before the transition   *)
(* that may throw; and it names an assignment the provider holds.          *)
AssignmentRecorded ==
    \A o \in Operations :
        operations[o] # None =>
            /\ operations[o].assigned <=> operations[o].state \in AssignedStates
            /\ operations[o].assigned => provider[o] = "held"

Withdrawn(o) ==
    InState(o, {"reserved"})
        /\ LET approval == approvals[operations[o].proposal]
           IN  approval.revoked \/ approval.version \in expired

(* Once the approval of a reserved operation is revoked or has expired,    *)
(* nothing that is called in whatever order brings it back: no repeated    *)
(* approve, no replaced inputs, no new session. It is never sent.          *)
WithdrawnNeverSent ==
    [][\A o \in Operations : Withdrawn(o) =>
          /\ Withdrawn(o)' \/ operations'[o].state = "cancelled"
          /\ sends'[o] = sends[o]]_vars

(* The trail of an operation is complete: it starts with the reservation,  *)
(* every event is a legal move from the one before, the last one is the    *)
(* current state, its position is the revision, and an evidence identifier *)
(* moves one operation once.                                               *)
TrailComplete ==
    \A o \in Operations : operations[o] # None =>
        LET op == operations[o]
        IN  /\ Len(op.events) = op.revision + 1
            /\ op.events[1].state = "reserved"
            /\ LastEvent(o).state = op.state
            /\ \A i \in 1 .. op.revision :
                  op.events[i + 1].state \in lifecycleTransitions[op.events[i].state]
            /\ \A q \in Operations : operations[q] # None =>
                  \A i \in DOMAIN op.events, j \in DOMAIN operations[q].events :
                      /\ op.events[i].evidence # None
                      /\ op.events[i].evidence = operations[q].events[j].evidence
                      => o = q /\ i = j

(* What a receipt says of its revision stays what the trail says, after    *)
(* any later move of the operation.                                        *)
ReceiptsTrue ==
    \A o \in Operations : \A r \in receipts[o] :
        LET op == operations[o]
        IN  /\ r.revision <= op.revision
            /\ r.state = op.events[r.revision + 1].state
            /\ r.reason = op.events[r.revision + 1].reason
            /\ r.evidence = {op.events[i].evidence : i \in 1 .. r.revision + 1} \ {None}

(* What the engine hands out is a true record, however the dispatching     *)
(* call, reconciliations and evidence are interleaved.                     *)
RecordTrue == TrailComplete /\ ReceiptsTrue

(* The engine keeps the abstract promise of dispatch, as the durable       *)
(* lifecycle does: what it concludes about the provider is true.           *)
Assigned == {o \in Operations : provider[o] = "held"}

BeliefOf(o) ==
    IF operations[o] = None THEN "none"
    ELSE IF operations[o].state = "reserved" THEN "pending"
    ELSE IF operations[o].state \in {"sending", "unknown"} THEN "uncertain"
    ELSE IF operations[o].state \in {"cancelled", "failed"} THEN "not_assigned"
    ELSE "assigned"

Belief == [o \in Operations |-> BeliefOf(o)]

Knowledge == INSTANCE DispatchKnowledge WITH assigned <- Assigned, belief <- Belief
KnowledgeSpec == Knowledge!Spec
==============================================================================
