-------------------------- MODULE DurableLifecycle --------------------------
(***************************************************************************)
(* The durable recovery lifecycle of one tenant: PostgresLifecycleRepository*)
(* with the triggers of drizzle/0000_durable_lifecycle.sql,                *)
(* PostgresOutboxWorker, and the simulated provider they dispatch to.      *)
(*                                                                         *)
(* Every repository method runs one SERIALIZABLE transaction, so a method  *)
(* is one action. An outbox worker is a process: its claim, its send, and  *)
(* the recording of the result are separate steps, and any other process,  *)
(* the passage of time or a crash may come between them. A call that is    *)
(* refused (session, capability, a trigger's exception, a lost connection) *)
(* rolls back and changes nothing, so it is no step at all, except where a *)
(* worker's next move depends on it.                                       *)
(***************************************************************************)
EXTENDS LifecycleStates, Naturals, Sequences, FiniteSets

CONSTANTS
    Cases,          \* exception cases
    Proposals,      \* proposal identifiers (an identifier fixes its payload)
    Operations,     \* operation identifiers; each has its idempotency key
    Users,          \* principals that may hold approve_recovery
    Workers,        \* concurrent runs of the outbox worker
    CaseOf,         \* the case of each proposal
    Revisions,      \* [evidence, route] revisions the sources produce
    Kinds,          \* evidence kinds the world reports (a bound of the runs)
    MaxReceipts,    \* bound on the receipts kept for one operation
    None            \* SQL NULL: no such row, no such operation

ASSUME CaseOfAssumption   == CaseOf \in [Proposals -> Cases]
ASSUME RevisionAssumption == Revisions \subseteq [evidence : Nat, route : Nat]
ASSUME KindsAssumption    == Kinds \subseteq EvidenceKinds
VARIABLES
    cases,          \* lifecycle_cases: current evidence and route revision
    proposals,      \* lifecycle_proposals: the revisions a proposal binds
    approvals,      \* lifecycle_approvals: one lineage per proposal
    authority,      \* lifecycle_principals and lifecycle_capabilities
    expired,        \* proposals whose valid_until has passed
    snapshots,      \* lifecycle_execution_snapshots
    operations,     \* lifecycle_operations: state and revision
    events,         \* lifecycle_operation_events, in sequence order
    outbox,         \* lifecycle_dispatch_outbox: state
    lapsed,         \* leased outbox rows whose lease_expires_at has passed
    reservations,   \* lifecycle_reservations: state
    assignments,    \* operations with a row in lifecycle_assignments
    receipts,       \* lifecycle_outcome_receipts
    worker,         \* where each run of the outbox worker stands
    provider,       \* operations the provider holds an assignment for
    sends           \* connector.send calls per operation

decisionVars == <<cases, proposals, approvals, authority, expired>>
rowVars      == <<snapshots, operations, events, outbox, lapsed, reservations,
                  assignments>>
providerVars == <<provider, sends>>
vars == <<decisionVars, rowVars, receipts, worker, providerVars>>

-----------------------------------------------------------------------------
(* Rows.                                                                   *)

Proposal == [bound : Revisions, revoked : BOOLEAN]
Approval == [approver : Users, revoked : BOOLEAN]
Snapshot == [proposal : Proposals, approver : Users, bound : Revisions]
Standing == [principal  : {"absent", "active", "revoked"},
             capability : {"absent", "granted", "revoked"},
             lapsed     : BOOLEAN]
Reasons  == {"none", "final_revalidation_failed", "worker_lease_expired",
             "acknowledgement_lost", "connector_result_unknown",
             "connector_rejected"}
Event    == [state    : OperationStates,
             reason   : Reasons,
             evidence : EvidenceKinds \cup {"none"}]
Receipt  == [revision : Nat, state : OperationStates, reason : Reasons,
             evidence : SUBSET EvidenceKinds]

ASSUME NoneAssumption ==
    None \notin Operations \cup Revisions \cup Proposal \cup Approval
                \cup Snapshot \cup Event

OutboxStates ==
    {"absent", "pending", "leased", "sent", "unknown", "cancelled", "failed"}
ReservationStates == {"absent", "reserved", "consumed", "cancelled"}

(* Where a worker stands: between claims; holding a claim it has not sent; *)
(* holding the connector's answer; or inside a reconciliation.             *)
PCs == {"idle", "claimed", "accepted", "ack_lost", "failing", "rejected",
        "looking_up", "found"}

Idle == [pc |-> "idle", operation |-> None]
At(pc, o) == [pc |-> pc, operation |-> o]

TypeOK ==
    /\ cases \in [Cases -> Revisions \cup {None}]
    /\ proposals \in [Proposals -> Proposal \cup {None}]
    /\ approvals \in [Proposals -> Approval \cup {None}]
    /\ authority \in [Users -> Standing]
    /\ expired \subseteq Proposals
    /\ snapshots \in [Operations -> Snapshot \cup {None}]
    /\ operations \in [Operations -> [state : OperationStates \cup {"absent"},
                                      revision : Nat]]
    /\ events \in [Operations -> Seq(Event)]
    /\ outbox \in [Operations -> OutboxStates]
    /\ lapsed \subseteq Operations
    /\ reservations \in [Operations -> ReservationStates]
    /\ assignments \subseteq Operations
    /\ receipts \in [Operations -> SUBSET Receipt]
    /\ worker \in [Workers -> [pc : PCs, operation : Operations \cup {None}]]
    /\ provider \subseteq Operations
    /\ sends \in [Operations -> Nat]

Init ==
    /\ cases = [c \in Cases |-> None]
    /\ proposals = [p \in Proposals |-> None]
    /\ approvals = [p \in Proposals |-> None]
    /\ authority = [u \in Users |-> [principal  |-> "absent",
                                     capability |-> "absent",
                                     lapsed     |-> FALSE]]
    /\ expired = {}
    /\ snapshots = [o \in Operations |-> None]
    /\ operations = [o \in Operations |-> [state |-> "absent", revision |-> 0]]
    /\ events = [o \in Operations |-> <<>>]
    /\ outbox = [o \in Operations |-> "absent"]
    /\ lapsed = {}
    /\ reservations = [o \in Operations |-> "absent"]
    /\ assignments = {}
    /\ receipts = [o \in Operations |-> {}]
    /\ worker = [w \in Workers |-> Idle]
    /\ provider = {}
    /\ sends = [o \in Operations |-> 0]

-----------------------------------------------------------------------------
(* Helpers of the repository.                                              *)

(* #persistPrincipal: the first call of a principal inserts its row and    *)
(* its capabilities; a later one only extends expires_at. The trigger on   *)
(* principals refuses to touch a revoked row, which fails the call.        *)
MayCall(u) == authority[u].principal # "revoked"

Persisted(u) ==
    [authority EXCEPT ![u] =
        [principal  |-> "active",
         capability |-> IF @.capability = "absent" THEN "granted"
                                                   ELSE @.capability,
         lapsed     |-> FALSE]]

ApproverIsActive(u, standing) ==
    /\ standing[u].principal = "active"
    /\ ~standing[u].lapsed
    /\ standing[u].capability = "granted"

(* #assertCurrentBinding: the proposal is open, the case has not moved     *)
(* past the revisions it binds, and the approver still has authority.      *)
BindingIsCurrent(p, u, standing) ==
    /\ proposals[p] # None
    /\ ~proposals[p].revoked
    /\ p \notin expired
    /\ cases[CaseOf[p]] = proposals[p].bound
    /\ ApproverIsActive(u, standing)

(* Mutant: the final check forgets that an approval can be revoked.        *)
SnapshotIsCurrent_KeepsRevoked(o) ==
    LET p == snapshots[o].proposal
    IN  /\ ~proposals[p].revoked
        /\ p \notin expired
        /\ cases[CaseOf[p]] = snapshots[o].bound
        /\ ApproverIsActive(approvals[p].approver, authority)

(* is_current in the query of #claim, over the immutable snapshot.         *)
SnapshotIsCurrent(o) ==
    LET p == snapshots[o].proposal
    IN  /\ ~proposals[p].revoked
        /\ ~approvals[p].revoked
        /\ p \notin expired
        /\ cases[CaseOf[p]] = snapshots[o].bound
        /\ ApproverIsActive(approvals[p].approver, authority)

(* Mutant: an operation that came to nothing no longer counts.             *)
HasOperation_OpenOnly(p) ==
    \E o \in Operations : /\ snapshots[o] # None
                          /\ snapshots[o].proposal = p
                          /\ operations[o].state \notin {"cancelled", "failed"}

(* #operationByProposal.                                                   *)
HasOperation(p) ==
    \E o \in Operations : snapshots[o] # None /\ snapshots[o].proposal = p

NewEvent(state, reason, evidence) ==
    [state |-> state, reason |-> reason, evidence |-> evidence]

(* Mutant: the transition is not checked.                                  *)
Advance_Unchecked(next) ==
    /\ operations' = [o \in Operations |->
         IF next[o] = None THEN operations[o]
         ELSE [state    |-> next[o].state,
               revision |-> operations[o].revision + 1]]
    /\ events' = [o \in Operations |->
         IF next[o] = None THEN events[o] ELSE Append(events[o], next[o])]

(* #advanceOperation with #insertEvent, for every operation this           *)
(* transaction moves: next[o] is its new event, or None.                   *)
Advance(next) ==
    /\ \A o \in Operations :
         next[o] # None => MayMove(operations[o].state, next[o].state)
    /\ operations' = [o \in Operations |->
         IF next[o] = None THEN operations[o]
         ELSE [state    |-> next[o].state,
               revision |-> operations[o].revision + 1]]
    /\ events' = [o \in Operations |->
         IF next[o] = None THEN events[o] ELSE Append(events[o], next[o])]

AdvanceOne(o, event) ==
    Advance([x \in Operations |-> IF x = o THEN event ELSE None])

(* Mutant: the row is updated by a stale identifier, so nothing changes.   *)
TransitionReservation_Misses(o, target) == UNCHANGED reservations

(* #transitionReservation, idempotent, and its trigger.                    *)
TransitionReservation(o, target) ==
    /\ reservations[o] \in {"reserved", target}
    /\ reservations' = [reservations EXCEPT ![o] = target]

-----------------------------------------------------------------------------
(* Decision inputs, approvals and their revocation.                        *)

(* prepareDecisionInputs: moves the case forward, never back, and inserts  *)
(* the proposal; an identifier that exists must bind the same inputs.      *)
PrepareDecisionInputs(p, bound, revoked) ==
    LET c == CaseOf[p] IN
    /\ cases[c] # None => /\ cases[c].evidence <= bound.evidence
                         /\ cases[c].route <= bound.route
    /\ proposals[p] # None => proposals[p].bound = bound
    /\ cases' = [cases EXCEPT ![c] = bound]
    /\ proposals' = [proposals EXCEPT ![p] =
         IF @ = None THEN [bound |-> bound, revoked |-> revoked] ELSE @]
    /\ UNCHANGED <<approvals, authority, expired, rowVars, receipts, worker,
                   providerVars>>

(* approve: the caller is the approver. An existing lineage is returned to *)
(* its own approver while it is current, and refused otherwise.            *)
Approve(u, p) ==
    /\ MayCall(u)
    /\ \/ approvals[p] = None
       \/ approvals[p] = [approver |-> u, revoked |-> FALSE]
    /\ BindingIsCurrent(p, u, Persisted(u))
    /\ approvals' = [approvals EXCEPT ![p] = [approver |-> u, revoked |-> FALSE]]
    /\ authority' = Persisted(u)
    /\ UNCHANGED <<cases, proposals, expired, rowVars, receipts, worker,
                   providerVars>>

(* revokeApproval: only the recorded approver, whatever has become of the  *)
(* operation; a second call returns the row it finds.                      *)
RevokeApproval(u, p) ==
    /\ MayCall(u)
    /\ approvals[p] # None
    /\ approvals[p].approver = u
    /\ approvals' = [approvals EXCEPT ![p].revoked = TRUE]
    /\ authority' = Persisted(u)
    /\ UNCHANGED <<cases, proposals, expired, rowVars, receipts, worker,
                   providerVars>>

(* revokeCapability(u, approve_recovery), by an administrator.             *)
RevokeCapability(u) ==
    /\ authority[u].capability # "absent"
    /\ authority' = [authority EXCEPT ![u].capability = "revoked"]
    /\ UNCHANGED <<cases, proposals, approvals, expired, rowVars, receipts,
                   worker, providerVars>>

(* revokePrincipal(u), by an administrator.                                *)
RevokePrincipal(u) ==
    /\ authority[u].principal # "absent"
    /\ authority' = [authority EXCEPT ![u].principal = "revoked"]
    /\ UNCHANGED <<cases, proposals, approvals, expired, rowVars, receipts,
                   worker, providerVars>>

(* The database clock passes a proposal's valid_until, a principal's       *)
(* expires_at, or the lease_expires_at of an outbox row.                   *)
ProposalExpires(p) ==
    /\ proposals[p] # None
    /\ p \notin expired
    /\ expired' = expired \cup {p}
    /\ UNCHANGED <<cases, proposals, approvals, authority, rowVars, receipts,
                   worker, providerVars>>

PrincipalLapses(u) ==
    /\ authority[u].principal = "active"
    /\ ~authority[u].lapsed
    /\ authority' = [authority EXCEPT ![u].lapsed = TRUE]
    /\ UNCHANGED <<cases, proposals, approvals, expired, rowVars, receipts,
                   worker, providerVars>>

LeaseExpires(o) ==
    /\ outbox[o] = "leased"
    /\ o \notin lapsed
    /\ lapsed' = lapsed \cup {o}
    /\ UNCHANGED <<decisionVars, snapshots, operations, events, outbox,
                   reservations, assignments, receipts, worker, providerVars>>

-----------------------------------------------------------------------------
(* Reservation.                                                            *)

(* reserve, first call: the reservation, the snapshot, the operation with  *)
(* its event 0 and the pending outbox row, in one transaction.             *)
ReserveNew(u, p, o) ==
    /\ MayCall(u)
    /\ approvals[p] # None
    /\ ~HasOperation(p)
    /\ ~approvals[p].revoked
    /\ BindingIsCurrent(p, approvals[p].approver, Persisted(u))
    /\ snapshots[o] = None
    /\ authority' = Persisted(u)
    /\ snapshots' = [snapshots EXCEPT ![o] =
         [proposal |-> p, approver |-> approvals[p].approver,
          bound |-> proposals[p].bound]]
    /\ operations' = [operations EXCEPT ![o] =
         [state |-> "reserved", revision |-> 0]]
    /\ events' = [events EXCEPT ![o] = <<NewEvent("reserved", "none", "none")>>]
    /\ outbox' = [outbox EXCEPT ![o] = "pending"]
    /\ reservations' = [reservations EXCEPT ![o] = "reserved"]
    /\ UNCHANGED <<cases, proposals, approvals, expired, lapsed, assignments,
                   receipts, worker, providerVars>>

(* reserve, any later call: the operation of the proposal is returned,     *)
(* whatever has become of the approval since.                              *)
ReserveReplay(u, p) ==
    /\ MayCall(u)
    /\ approvals[p] # None
    /\ HasOperation(p)
    /\ authority' = Persisted(u)
    /\ UNCHANGED <<cases, proposals, approvals, expired, rowVars, receipts,
                   worker, providerVars>>

-----------------------------------------------------------------------------
(* The outbox worker.                                                      *)

(* Mutant: the recovery gives a blank reason.                              *)
LeaseExpired_Blank == NewEvent("unknown", "", "none")

LeaseExpired   == NewEvent("unknown", "worker_lease_expired", "none")
Sending        == NewEvent("sending", "none", "none")
Cancelled      == NewEvent("cancelled", "final_revalidation_failed", "none")

(* #recoverExpiredLease: at most one row, and one if there is any.         *)
Recoverable(recovered) ==
    \/ lapsed = {} /\ recovered = {}
    \/ \E o \in lapsed : recovered = {o}

(* #claim: after recovering a lapsed lease, one pending row is moved to    *)
(* event (sending or cancelled) and its outbox row to state. The pending   *)
(* row is the one the caller named or the oldest: any of them.             *)
ClaimRow(o, recovered, event, state) ==
    /\ Advance([x \in Operations |->
         CASE x \in recovered -> LeaseExpired
           [] x = o           -> event
           [] OTHER           -> None])
    /\ outbox' = [x \in Operations |->
         CASE x \in recovered -> "unknown"
           [] x = o           -> state
           [] OTHER           -> outbox[x]]
    /\ lapsed' = lapsed \ recovered

ClaimCurrent(w, o) ==
    /\ worker[w] = Idle
    /\ outbox[o] = "pending"
    /\ SnapshotIsCurrent(o)
    /\ \E recovered \in SUBSET lapsed :
         /\ Recoverable(recovered)
         /\ ClaimRow(o, recovered, Sending, "leased")
    /\ worker' = [worker EXCEPT ![w] = At("claimed", o)]
    /\ UNCHANGED <<decisionVars, snapshots, reservations, assignments, receipts,
                   providerVars>>

ClaimStale(w, o) ==
    /\ worker[w] = Idle
    /\ outbox[o] = "pending"
    /\ ~SnapshotIsCurrent(o)
    /\ \E recovered \in SUBSET lapsed :
         /\ Recoverable(recovered)
         /\ ClaimRow(o, recovered, Cancelled, "cancelled")
    /\ TransitionReservation(o, "cancelled")
    /\ UNCHANGED <<decisionVars, snapshots, assignments, receipts, worker,
                   providerVars>>

(* Mutants: the recovery gives up the reservation with the lease; a claim  *)
(* that finds nothing to send recovers nothing.                            *)
ClaimNothing_Releases(w) ==
    /\ worker[w] = Idle
    /\ \E o \in lapsed :
         /\ AdvanceOne(o, LeaseExpired)
         /\ outbox' = [outbox EXCEPT ![o] = "unknown"]
         /\ lapsed' = lapsed \ {o}
         /\ TransitionReservation(o, "cancelled")
    /\ UNCHANGED <<decisionVars, snapshots, assignments, receipts, worker,
                   providerVars>>

ClaimNothing_ReturnsEarly(w) ==
    /\ worker[w] = Idle
    /\ UNCHANGED vars

(* A claim of an operation that is not pending, or of an empty queue,      *)
(* still recovers a lapsed lease before it returns null.                   *)
ClaimNothing(w) ==
    /\ worker[w] = Idle
    /\ \E o \in lapsed :
         /\ AdvanceOne(o, LeaseExpired)
         /\ outbox' = [outbox EXCEPT ![o] = "unknown"]
         /\ lapsed' = lapsed \ {o}
    /\ UNCHANGED <<decisionVars, snapshots, reservations, assignments, receipts,
                   worker, providerVars>>

(* Mutant: a send that fails is tried again.                               *)
Send_Retries(w, answer, recorded) ==
    LET o == worker[w].operation IN
    /\ worker[w].pc = "claimed"
    /\ sends[o] < 3
    /\ sends' = [sends EXCEPT ![o] = @ + 1]
    /\ provider' = IF recorded THEN provider \cup {o} ELSE provider
    /\ worker' = [worker EXCEPT ![w] =
         At(IF answer = "failing" THEN "claimed" ELSE answer, o)]
    /\ UNCHANGED <<decisionVars, rowVars, receipts>>

(* connector.send, and what the worker hears of it. The provider records   *)
(* the assignment before the answer travels back, and only before the      *)
(* snapshot's approvalValidUntil.                                          *)
Send(w, answer, recorded) ==
    LET o == worker[w].operation IN
    /\ worker[w].pc = "claimed"
    /\ recorded => snapshots[o].proposal \notin expired
    /\ sends' = [sends EXCEPT ![o] = @ + 1]
    /\ provider' = IF recorded THEN provider \cup {o} ELSE provider
    /\ worker' = [worker EXCEPT ![w] = At(answer, o)]
    /\ UNCHANGED <<decisionVars, rowVars, receipts>>

SendAccepted(w)    == Send(w, "accepted", TRUE)

(* SimulatedAcknowledgementLostError: only for a new assignment.           *)
SendAckLost(w)     == /\ worker[w].operation \notin provider
                      /\ Send(w, "ack_lost", TRUE)

(* The provider is down, the approval is outside its window, the store's   *)
(* lock cannot be had; or the store fails to give its lock back after it   *)
(* has written the assignment.                                             *)
SendFails(w)       == \E recorded \in BOOLEAN : Send(w, "failing", recorded)

(* ConnectorRejectedError: the provider declines for good.                 *)
SendRejected(w)    == Send(w, "rejected", FALSE)

(* Mutant: the assignment row is not written.                              *)
RecordAssignment_NoRow(o, expected, target) ==
    /\ operations[o].state = expected
    /\ AdvanceOne(o, NewEvent(target, "none", "none"))
    /\ outbox' = [outbox EXCEPT ![o] = "sent"]
    /\ lapsed' = lapsed \ {o}
    /\ TransitionReservation(o, "consumed")
    /\ UNCHANGED <<decisionVars, snapshots, assignments, receipts, providerVars>>

(* completeAssignment, when its state check passes: the assignment row     *)
(* (kept if it is there), the operation, the outbox and the reservation.   *)
RecordAssignment(o, expected, target) ==
    /\ operations[o].state = expected
    /\ AdvanceOne(o, NewEvent(target, "none", "none"))
    /\ assignments' = assignments \cup {o}
    /\ outbox' = [outbox EXCEPT ![o] = "sent"]
    /\ lapsed' = lapsed \ {o}
    /\ TransitionReservation(o, "consumed")
    /\ UNCHANGED <<decisionVars, snapshots, receipts, providerVars>>

(* #dispatchClaim after an accepted send. The COMMIT may reach the server  *)
(* and its acknowledgement be lost; the worker then sees a failure.        *)
CompleteAssignment(w) ==
    LET o == worker[w].operation IN
    /\ worker[w].pc = "accepted"
    /\ RecordAssignment(o, "sending", "accepted")
    /\ \E next \in {Idle, At("failing", o)} : worker' = [worker EXCEPT ![w] = next]

(* completeAssignment throws inside the try: the operation is no longer    *)
(* sending, the worker's session is refused, or the database is away.      *)
CompleteFails(w) ==
    /\ worker[w].pc = "accepted"
    /\ worker' = [worker EXCEPT ![w].pc = "failing"]
    /\ UNCHANGED <<decisionVars, rowVars, receipts, providerVars>>

(* Mutant: an unknown operation gives up its assignment.                   *)
MarkUnknown_Clears(w) ==
    LET o == worker[w].operation IN
    /\ worker[w].pc \in {"ack_lost", "failing"}
    /\ AdvanceOne(o, NewEvent("unknown", "connector_result_unknown", "none"))
    /\ outbox' = [outbox EXCEPT ![o] = "unknown"]
    /\ assignments' = assignments \ {o}
    /\ lapsed' = lapsed \ {o}
    /\ worker' = [worker EXCEPT ![w] = Idle]
    /\ UNCHANGED <<decisionVars, snapshots, reservations, receipts, providerVars>>

(* markUnknown, from the catch of #dispatchClaim.                          *)
MarkUnknown(w) ==
    LET o      == worker[w].operation
        reason == IF worker[w].pc = "ack_lost" THEN "acknowledgement_lost"
                                               ELSE "connector_result_unknown"
    IN
    /\ worker[w].pc \in {"ack_lost", "failing"}
    /\ \/ /\ operations[o].state = "unknown"
          /\ UNCHANGED rowVars
       \/ /\ AdvanceOne(o, NewEvent("unknown", reason, "none"))
          /\ outbox' = [outbox EXCEPT ![o] = "unknown"]
          /\ lapsed' = lapsed \ {o}
          /\ UNCHANGED <<snapshots, reservations, assignments>>
    /\ worker' = [worker EXCEPT ![w] = Idle]
    /\ UNCHANGED <<decisionVars, receipts, providerVars>>

(* markFailed, from the catch of #dispatchClaim.                           *)
MarkFailed(w) ==
    LET o == worker[w].operation IN
    /\ worker[w].pc = "rejected"
    /\ \/ /\ operations[o].state = "failed"
          /\ UNCHANGED rowVars
       \/ /\ AdvanceOne(o, NewEvent("failed", "connector_rejected", "none"))
          /\ outbox' = [outbox EXCEPT ![o] = "failed"]
          /\ lapsed' = lapsed \ {o}
          /\ TransitionReservation(o, "cancelled")
          /\ UNCHANGED <<snapshots, assignments>>
    /\ worker' = [worker EXCEPT ![w] = Idle]
    /\ UNCHANGED <<decisionVars, receipts, providerVars>>

(* reconcile: the snapshot of an unknown operation is read outside any     *)
(* transaction, the provider is asked, and what it holds is recorded.      *)
ReadForReconciliation(w, o) ==
    /\ worker[w] = Idle
    /\ operations[o].state = "unknown"
    /\ worker' = [worker EXCEPT ![w] = At("looking_up", o)]
    /\ UNCHANGED <<decisionVars, rowVars, receipts, providerVars>>

(* Mutant: the answer of the lookup is not looked at.                      *)
Lookup_AssumesFound(w) ==
    /\ worker[w].pc = "looking_up"
    /\ worker' = [worker EXCEPT ![w].pc = "found"]
    /\ UNCHANGED <<decisionVars, rowVars, receipts, providerVars>>

Lookup(w) ==
    LET o == worker[w].operation IN
    /\ worker[w].pc = "looking_up"
    /\ worker' = [worker EXCEPT ![w] =
         IF o \in provider THEN At("found", o) ELSE Idle]
    /\ UNCHANGED <<decisionVars, rowVars, receipts, providerVars>>

CompleteReconciliation(w) ==
    /\ worker[w].pc = "found"
    /\ RecordAssignment(worker[w].operation, "unknown", "assignment_reconciled")
    /\ worker' = [worker EXCEPT ![w] = Idle]

(* The run ends with nothing more written: its process dies, or a call     *)
(* outside any catch throws (markUnknown, markFailed, a lookup, or a       *)
(* completeAssignment of a reconciliation that comes too late).            *)
Abandon(w) ==
    /\ worker[w] # Idle
    /\ worker' = [worker EXCEPT ![w] = Idle]
    /\ UNCHANGED <<decisionVars, rowVars, receipts, providerVars>>

-----------------------------------------------------------------------------
(* Outcome evidence and receipts.                                          *)

(* recordEvidence: provider kinds by a worker principal, the others by a   *)
(* user, whose row the call extends.                                       *)
RecordEvidence(o, kind) ==
    /\ operations[o].state # "absent"
    /\ AdvanceOne(o, NewEvent(targetByKind[kind], "none", kind))
    /\ IF kind \in WorkerKinds
         THEN UNCHANGED authority
         ELSE \E u \in Users : MayCall(u) /\ authority' = Persisted(u)
    /\ UNCHANGED <<cases, proposals, approvals, expired, snapshots, outbox,
                   lapsed, reservations, assignments, receipts, worker,
                   providerVars>>

EvidenceUpTo(o, revision) ==
    {events[o][i].evidence : i \in 1..(revision + 1)} \ {"none"}

(* The trigger on receipts: the operation exists, and the event of its     *)
(* revision bears its state. The rest of what a receipt binds is fixed by  *)
(* the snapshot and by the evidence of the events up to that one.          *)
ReceiptBinds(o) ==
    /\ operations[o].state # "absent"
    /\ operations[o].revision < Len(events[o])
    /\ events[o][operations[o].revision + 1].state = operations[o].state

(* receipt: a digest of the operation as it stands, one per revision; a    *)
(* second call returns the first receipt.                                  *)
IssueReceipt(o) ==
    LET op   == operations[o]
        last == events[o][op.revision + 1]
    IN
    /\ ReceiptBinds(o)
    /\ Cardinality(receipts[o]) < MaxReceipts
    /\ \A r \in receipts[o] : r.revision # op.revision
    /\ receipts' = [receipts EXCEPT ![o] = @ \cup
         {[revision |-> op.revision, state |-> op.state, reason |-> last.reason,
           evidence |-> EvidenceUpTo(o, op.revision)]}]
    /\ UNCHANGED <<decisionVars, rowVars, worker, providerVars>>

-----------------------------------------------------------------------------

Decide ==
    \/ \E p \in Proposals, bound \in Revisions, revoked \in BOOLEAN :
         PrepareDecisionInputs(p, bound, revoked)
    \/ \E u \in Users, p \in Proposals : Approve(u, p)
    \/ \E u \in Users, p \in Proposals : RevokeApproval(u, p)
    \/ \E u \in Users : RevokeCapability(u)
    \/ \E u \in Users : RevokePrincipal(u)
    \/ \E u \in Users, p \in Proposals, o \in Operations : ReserveNew(u, p, o)
    \/ \E u \in Users, p \in Proposals : ReserveReplay(u, p)

TimePasses ==
    \/ \E p \in Proposals : ProposalExpires(p)
    \/ \E u \in Users : PrincipalLapses(u)
    \/ \E o \in Operations : LeaseExpires(o)

Claim(w) ==
    \/ \E o \in Operations : ClaimCurrent(w, o)
    \/ \E o \in Operations : ClaimStale(w, o)
    \/ ClaimNothing(w)

SendStep(w) ==
    \/ SendAccepted(w)
    \/ SendAckLost(w)
    \/ SendFails(w)
    \/ SendRejected(w)

WorkerStep(w) ==
    \/ Claim(w)
    \/ SendStep(w)
    \/ CompleteAssignment(w)
    \/ CompleteFails(w)
    \/ MarkUnknown(w)
    \/ MarkFailed(w)
    \/ \E o \in Operations : ReadForReconciliation(w, o)
    \/ Lookup(w)
    \/ CompleteReconciliation(w)
    \/ Abandon(w)

Observe ==
    \/ \E o \in Operations, kind \in Kinds : RecordEvidence(o, kind)
    \/ \E o \in Operations : IssueReceipt(o)

Next ==
    \/ Decide
    \/ TimePasses
    \/ \E w \in Workers : WorkerStep(w)
    \/ Observe

Spec == Init /\ [][Next]_vars

(* No loop in the server drives dispatch or reconciliation: its API clients *)
(* and operators do. Fair is what is asked of them, and of time: leases    *)
(* run out, somebody keeps claiming, somebody keeps reconciling an unknown *)
(* operation, and neither the provider's lookups nor the recording of what *)
(* they find fail every time.                                              *)
Fair ==
    /\ \A o \in Operations : WF_vars(LeaseExpires(o))
    /\ SF_vars(\E w \in Workers : Claim(w))
    /\ \A o \in Operations :
         SF_vars(\E w \in Workers : ReadForReconciliation(w, o))
    /\ \A w \in Workers : SF_vars(Lookup(w)) /\ SF_vars(CompleteReconciliation(w))

FairSpec == Spec /\ Fair

-----------------------------------------------------------------------------
(* Safety.                                                                 *)

(* The rows one transaction after another leaves behind always tell one    *)
(* story: operation, outbox, lease, reservation and assignment agree with  *)
(* each other in every state, crashes and lost COMMITs included. A lost    *)
(* COMMIT is the one way an unknown operation can have its assignment on   *)
(* record already. (The triggers on reservations demand parts of this.)    *)
RowsAgree(o) ==
    LET state == operations[o].state IN
    /\ (state = "absent")    <=> (outbox[o] = "absent")
    /\ (state = "reserved")  <=> (outbox[o] = "pending")
    /\ (state = "sending")   <=> (outbox[o] = "leased")
    /\ (state = "unknown")   <=> (outbox[o] = "unknown")
    /\ (state = "cancelled") <=> (outbox[o] = "cancelled")
    /\ (state = "failed")    <=> (outbox[o] = "failed")
    /\ (state = "absent")    <=> (reservations[o] = "absent")
    /\ (state = "absent")    <=> (snapshots[o] = None)
    /\ (state \in {"cancelled", "failed"}) <=> (reservations[o] = "cancelled")
    /\ (o \in assignments) <=> (reservations[o] = "consumed")
    /\ o \in assignments => state \in AssignedStates \cup {"unknown"}
    /\ state \in AssignedStates => o \in assignments
    /\ o \in lapsed => outbox[o] = "leased"

RowsCoherent == \A o \in Operations : RowsAgree(o)

(* An operation is sent to the provider at most once, whatever leases      *)
(* expire, workers die or acknowledgements are lost: an unknown operation  *)
(* is looked up, never sent again.                                         *)
SentAtMostOnce == \A o \in Operations : sends[o] <= 1

(* What the database concludes about the provider is true: an assignment   *)
(* on record is one the provider holds, and an operation closed as         *)
(* cancelled or failed is one it does not hold, and never will.            *)
ConclusionsTrue ==
    /\ assignments \subseteq provider
    /\ \A o \in provider : operations[o].state \notin {"cancelled", "failed"}

(* A rejection is never too late to be recorded: whatever others have      *)
(* concluded while the worker held it, a recovered lease included, the     *)
(* operation may still be closed as failed and its reservation released.   *)
RejectionRecordable ==
    \A w \in Workers :
      worker[w].pc = "rejected" =>
        LET o == worker[w].operation IN
        /\ MayMove(operations[o].state, "failed")
        /\ reservations[o] = "reserved"

(* A proposal never gets two operations, so one approval is one dispatch.  *)
OneOperationPerProposal ==
    \A a, b \in Operations :
      /\ snapshots[a] # None
      /\ snapshots[b] # None
      /\ snapshots[a].proposal = snapshots[b].proposal
      => a = b

(* The trail of an operation has one event per revision, each a legal step *)
(* from the one before, ending in the operation's own state; and a receipt *)
(* once issued is never contradicted by the trail or by a second receipt.  *)
TrailComplete ==
    \A o \in Operations :
      operations[o].state # "absent" =>
        /\ Len(events[o]) = operations[o].revision + 1
        /\ events[o][Len(events[o])].state = operations[o].state
        /\ \A i \in 1..(Len(events[o]) - 1) :
             MayMove(events[o][i].state, events[o][i + 1].state)

ReceiptsTrue ==
    \A o \in Operations : \A r \in receipts[o] :
      /\ r.revision <= operations[o].revision
      /\ events[o][r.revision + 1].state = r.state
      /\ events[o][r.revision + 1].reason = r.reason
      /\ r.evidence = EvidenceUpTo(o, r.revision)

(* What the database hands out is a true record, whatever COMMITs were     *)
(* lost and however workers, reconciliations and evidence met.             *)
RecordTrue == TrailComplete /\ ReceiptsTrue

(* Nothing a customer or driver reports is on record before the provider's *)
(* assignment is, and each kind of evidence is used once.                  *)
EvidenceFollowsAssignment ==
    \A o \in Operations :
      EvidenceUpTo(o, Len(events[o]) - 1) # {} =>
        /\ o \in assignments
        /\ \A i, j \in 1..Len(events[o]) :
             events[o][i].evidence = events[o][j].evidence
               => i = j \/ events[o][i].evidence = "none"

(* The decision behind a reserved operation has been withdrawn for good:   *)
(* revoked, expired, or overtaken by newer case truth. (A lapsed session   *)
(* is not for good: its principal may come back.)                          *)
Withdrawn(o) ==
    LET p == snapshots[o].proposal
        u == snapshots[o].approver
    IN  \/ approvals[p].revoked
        \/ p \in expired
        \/ cases[CaseOf[p]] # snapshots[o].bound
        \/ authority[u].principal = "revoked"
        \/ authority[u].capability = "revoked"

Doomed(o) == \/ operations[o].state = "cancelled"
             \/ operations[o].state = "reserved" /\ Withdrawn(o)

(* Once an operation's decision is withdrawn before it is claimed, no      *)
(* later call, not a replayed prepare, approve or reserve and not the      *)
(* approver's return, revives it: it can only be cancelled.                *)
DoomedStaysDoomed ==
    [][\A o \in Operations : Doomed(o) => Doomed(o)']_vars

(* What is recorded is not unrecorded: an operation's events are only      *)
(* added to, its snapshot and its assignment stay, and a lost COMMIT may   *)
(* put it back to unknown but never to a state it could be sent from.      *)
NothingForgotten ==
    [][/\ assignments \subseteq assignments'
       /\ provider \subseteq provider'
       /\ \A o \in Operations :
            /\ operations[o].revision <= operations'[o].revision
            /\ SubSeq(events'[o], 1, Len(events[o])) = events[o]
            /\ snapshots[o] # None => snapshots'[o] = snapshots[o]
            /\ operations[o].state \notin {"reserved", "sending"}
                 => operations'[o].state # "sending"
      ]_vars

(* docs/architecture/CORE_BUILD_CONTRACT.md, scenario C08: if the decision *)
(* is withdrawn between the reservation and the connector's send, no       *)
(* assignment is created.                                                  *)
NoAssignmentAfterWithdrawal ==
    [][\A o \in Operations :
         o \notin provider /\ o \in provider' => ~Withdrawn(o)]_vars

-----------------------------------------------------------------------------
(* Liveness, under FairSpec.                                               *)

(* An assignment the provider holds is eventually on record, whatever      *)
(* became of the worker that sent it: its lease runs out, a claim finds    *)
(* it, and a reconciliation looks it up. And no operation stays in         *)
(* sending, whether or not the provider has it.                            *)
DispatchSettles ==
    \A o \in Operations :
      /\ (o \in provider) ~> (o \in assignments)
      /\ (operations[o].state = "sending") ~> (operations[o].state # "sending")

-----------------------------------------------------------------------------
(* The abstract specification: what an operation's row says of the         *)
(* provider.                                                               *)
Belief(o) ==
    LET state == operations[o].state IN
    CASE state = "absent"                 -> "none"
      [] state = "reserved"               -> "pending"
      [] state \in {"sending", "unknown"} -> "uncertain"
      [] state \in AssignedStates         -> "assigned"
      [] state \in {"cancelled", "failed"} -> "not_assigned"

Knowledge == INSTANCE DispatchKnowledge
    WITH assigned <- provider, belief <- [o \in Operations |-> Belief(o)]

(* Every step of the repository, the workers, the provider and their       *)
(* crashes is a step the abstract specification allows, or none.           *)
KnowledgeSpec == Knowledge!Spec
=============================================================================
