----------------------- MODULE DurableLifecycleProofs -----------------------
(***************************************************************************)
(* Theorems about DurableLifecycle, for every set of cases, proposals,     *)
(* operations, users and workers: its types; the safety invariants about   *)
(* outbox workers, the provider and what the database concludes; what is   *)
(* promised of the record, that it is true, grows, and takes evidence in   *)
(* order; that a withdrawn decision stays withdrawn; and that, with the    *)
(* state of its row as what the database believes of an operation, the     *)
(* durable lifecycle implements DispatchKnowledge.                         *)
(***************************************************************************)
EXTENDS DurableLifecycle, TLAPS

(* A worker that is inside a run names the operation of that run.          *)
WorkersNamed ==
    \A w \in Workers : worker[w].pc # "idle" => worker[w].operation \in Operations

-----------------------------------------------------------------------------
(* Helpers.                                                                *)

(* Every event the repository writes is well formed.                       *)
LEMMA NewEventType ==
    ASSUME NEW state \in OperationStates, NEW reason \in Reasons,
           NEW evidence \in EvidenceKinds \cup {"none"}
    PROVE  /\ NewEvent(state, reason, evidence) \in Event
           /\ NewEvent(state, reason, evidence) # None
<1>1. NewEvent(state, reason, evidence) \in Event
  BY DEF NewEvent, Event
<1> QED
  BY <1>1, NoneAssumption

(* Advance keeps the types of the rows it writes.                          *)
LEMMA AdvanceType ==
    ASSUME TypeOK, NEW next \in [Operations -> Event \cup {None}], Advance(next)
    PROVE  /\ operations' \in [Operations -> [state : OperationStates \cup {"absent"},
                                              revision : Nat]]
           /\ events' \in [Operations -> Seq(Event)]
<1>1. ASSUME NEW o \in Operations
      PROVE  (IF next[o] = None THEN operations[o]
              ELSE [state |-> next[o].state, revision |-> operations[o].revision + 1])
             \in [state : OperationStates \cup {"absent"}, revision : Nat]
  BY <1>1 DEF TypeOK, Event
<1>2. ASSUME NEW o \in Operations
      PROVE  (IF next[o] = None THEN events[o] ELSE Append(events[o], next[o]))
             \in Seq(Event)
  BY <1>2 DEF TypeOK
<1> QED
  BY <1>1, <1>2 DEF Advance

LEMMA AdvanceOneType ==
    ASSUME TypeOK, NEW o \in Operations, NEW event \in Event, AdvanceOne(o, event)
    PROVE  /\ operations' \in [Operations -> [state : OperationStates \cup {"absent"},
                                              revision : Nat]]
           /\ events' \in [Operations -> Seq(Event)]
  BY AdvanceType DEF AdvanceOne

(* #persistPrincipal keeps the type of the standings.                      *)
LEMMA PersistedType ==
    ASSUME TypeOK, NEW u \in Users
    PROVE  Persisted(u) \in [Users -> Standing]
  BY DEF TypeOK, Persisted, Standing

(* What the transition table lets out of, or into, the states the workers  *)
(* deal with.                                                              *)
LEMMA Moves ==
    ASSUME NEW from \in OperationStates
    PROVE  /\ MayMove(from, "unknown") <=> from \in {"sending", "accepted"}
           /\ MayMove(from, "failed") <=> from \in {"sending", "unknown"}
           /\ \A kind \in EvidenceKinds :
                MayMove(from, targetByKind[kind]) =>
                  from \in AssignedStates /\ targetByKind[kind] \in AssignedStates
  BY DEF MayMove, lifecycleTransitions, triggerTransitions, OperationStates,
         EvidenceKinds, targetByKind, AssignedStates
-----------------------------------------------------------------------------
(* Type correctness.                                                       *)

TypeInv == TypeOK /\ WorkersNamed

LEMMA TypeInit == Init => TypeInv
  BY NoneAssumption
     DEF Init, TypeInv, TypeOK, WorkersNamed, Standing, Idle, PCs, OutboxStates,
         ReservationStates

LEMMA TypeDecide == TypeInv /\ Decide => TypeInv'
<1> SUFFICES ASSUME TypeInv, Decide PROVE TypeInv'
  OBVIOUS
<1> USE DEF TypeInv, rowVars, providerVars
<1>1. ASSUME NEW p \in Proposals, NEW bound \in Revisions, NEW revoked \in BOOLEAN,
             PrepareDecisionInputs(p, bound, revoked)
      PROVE  TypeInv'
  BY <1>1, CaseOfAssumption DEF PrepareDecisionInputs, TypeOK, WorkersNamed, Proposal
<1>2. ASSUME NEW u \in Users, NEW p \in Proposals, Approve(u, p)
      PROVE  TypeInv'
  BY <1>2, PersistedType DEF Approve, TypeOK, WorkersNamed, Approval
<1>3. ASSUME NEW u \in Users, NEW p \in Proposals, RevokeApproval(u, p)
      PROVE  TypeInv'
  BY <1>3, PersistedType DEF RevokeApproval, TypeOK, WorkersNamed, Approval
<1>4. ASSUME NEW u \in Users, RevokeCapability(u)
      PROVE  TypeInv'
  BY <1>4 DEF RevokeCapability, TypeOK, WorkersNamed, Standing
<1>5. ASSUME NEW u \in Users, RevokePrincipal(u)
      PROVE  TypeInv'
  BY <1>5 DEF RevokePrincipal, TypeOK, WorkersNamed, Standing
<1>6. ASSUME NEW u \in Users, NEW p \in Proposals, NEW o \in Operations,
             ReserveNew(u, p, o)
      PROVE  TypeInv'
  <2>1. approvals[p] \in Approval /\ proposals[p] \in Proposal
    BY <1>6 DEF ReserveNew, BindingIsCurrent, TypeOK
  <2>2. snapshots' \in [Operations -> Snapshot \cup {None}]
    BY <1>6, <2>1 DEF ReserveNew, TypeOK, Approval, Proposal, Snapshot
  <2>3. events' \in [Operations -> Seq(Event)]
    <3>1. NewEvent("reserved", "none", "none") \in Event
      BY NewEventType DEF OperationStates, Reasons
    <3> QED
      BY <1>6, <3>1 DEF ReserveNew, TypeOK
  <2>4. authority' \in [Users -> Standing]
    BY <1>6, PersistedType DEF ReserveNew
  <2> QED
    BY <1>6, <2>2, <2>3, <2>4
       DEF ReserveNew, TypeOK, WorkersNamed, OperationStates, OutboxStates,
           ReservationStates
<1>7. ASSUME NEW u \in Users, NEW p \in Proposals, ReserveReplay(u, p)
      PROVE  TypeInv'
  BY <1>7, PersistedType DEF ReserveReplay, TypeOK, WorkersNamed
<1> QED
  BY <1>1, <1>2, <1>3, <1>4, <1>5, <1>6, <1>7 DEF Decide

LEMMA TypeTime == TypeInv /\ TimePasses => TypeInv'
<1> SUFFICES ASSUME TypeInv, TimePasses PROVE TypeInv'
  OBVIOUS
<1> USE DEF TypeInv, rowVars, providerVars, decisionVars
<1>1. ASSUME NEW p \in Proposals, ProposalExpires(p)
      PROVE  TypeInv'
  BY <1>1 DEF ProposalExpires, TypeOK, WorkersNamed
<1>2. ASSUME NEW u \in Users, PrincipalLapses(u)
      PROVE  TypeInv'
  BY <1>2 DEF PrincipalLapses, TypeOK, WorkersNamed, Standing
<1>3. ASSUME NEW o \in Operations, LeaseExpires(o)
      PROVE  TypeInv'
  BY <1>3 DEF LeaseExpires, TypeOK, WorkersNamed
<1> QED
  BY <1>1, <1>2, <1>3 DEF TimePasses

(* The events the workers write.                                           *)
LEMMA WorkerEventTypes ==
    /\ LeaseExpired \in Event
    /\ Sending \in Event
    /\ Cancelled \in Event
    /\ NewEvent("accepted", "none", "none") \in Event
    /\ NewEvent("assignment_reconciled", "none", "none") \in Event
    /\ NewEvent("unknown", "acknowledgement_lost", "none") \in Event
    /\ NewEvent("unknown", "connector_result_unknown", "none") \in Event
    /\ NewEvent("failed", "connector_rejected", "none") \in Event
  BY NewEventType DEF LeaseExpired, Sending, Cancelled, OperationStates, Reasons

LEMMA ClaimRowType ==
    ASSUME TypeOK, NEW o \in Operations, NEW recovered \in SUBSET lapsed,
           NEW event \in Event, NEW state \in OutboxStates,
           ClaimRow(o, recovered, event, state)
    PROVE  /\ operations' \in [Operations -> [state : OperationStates \cup {"absent"},
                                              revision : Nat]]
           /\ events' \in [Operations -> Seq(Event)]
           /\ outbox' \in [Operations -> OutboxStates]
           /\ lapsed' \subseteq Operations
<1> DEFINE next == [x \in Operations |->
              CASE x \in recovered -> LeaseExpired
                [] x = o           -> event
                [] OTHER           -> None]
<1>1. next \in [Operations -> Event \cup {None}]
  BY WorkerEventTypes
<1>2. Advance(next)
  BY DEF ClaimRow
<1>3. outbox' \in [Operations -> OutboxStates]
  BY DEF ClaimRow, TypeOK, OutboxStates
<1>4. lapsed' \subseteq Operations
  BY DEF ClaimRow, TypeOK
<1> HIDE DEF next
<1> QED
  BY <1>1, <1>2, <1>3, <1>4, AdvanceType

(* completeAssignment keeps the types of the rows it writes.               *)
LEMMA RecordAssignmentType ==
    ASSUME TypeOK, NEW o \in Operations, NEW expected \in OperationStates,
           NEW target \in {"accepted", "assignment_reconciled"},
           RecordAssignment(o, expected, target)
    PROVE  /\ operations' \in [Operations -> [state : OperationStates \cup {"absent"},
                                              revision : Nat]]
           /\ events' \in [Operations -> Seq(Event)]
           /\ outbox' \in [Operations -> OutboxStates]
           /\ lapsed' \subseteq Operations
           /\ reservations' \in [Operations -> ReservationStates]
           /\ assignments' \subseteq Operations
<1>1. NewEvent(target, "none", "none") \in Event
  BY WorkerEventTypes
<1>2. AdvanceOne(o, NewEvent(target, "none", "none"))
  BY DEF RecordAssignment
<1>3. /\ operations' \in [Operations -> [state : OperationStates \cup {"absent"},
                                         revision : Nat]]
      /\ events' \in [Operations -> Seq(Event)]
  BY <1>1, <1>2, AdvanceOneType
<1> QED
  BY <1>3 DEF RecordAssignment, TransitionReservation, TypeOK, OutboxStates,
              ReservationStates

LEMMA TypeClaim ==
    ASSUME TypeInv, NEW w \in Workers, Claim(w)
    PROVE  TypeInv'
<1> USE DEF TypeInv, decisionVars, rowVars, providerVars
<1>1. ASSUME NEW o \in Operations, ClaimCurrent(w, o)
      PROVE  TypeInv'
  <2>1. PICK recovered \in SUBSET lapsed : ClaimRow(o, recovered, Sending, "leased")
    BY <1>1 DEF ClaimCurrent
  <2>2. /\ operations' \in [Operations -> [state : OperationStates \cup {"absent"},
                                           revision : Nat]]
        /\ events' \in [Operations -> Seq(Event)]
        /\ outbox' \in [Operations -> OutboxStates]
        /\ lapsed' \subseteq Operations
    BY <2>1, ClaimRowType, WorkerEventTypes DEF OutboxStates
  <2> QED
    BY <1>1, <2>2 DEF ClaimCurrent, TypeOK, WorkersNamed, At, PCs
<1>2. ASSUME NEW o \in Operations, ClaimStale(w, o)
      PROVE  TypeInv'
  <2>1. PICK recovered \in SUBSET lapsed : ClaimRow(o, recovered, Cancelled, "cancelled")
    BY <1>2 DEF ClaimStale
  <2>2. /\ operations' \in [Operations -> [state : OperationStates \cup {"absent"},
                                           revision : Nat]]
        /\ events' \in [Operations -> Seq(Event)]
        /\ outbox' \in [Operations -> OutboxStates]
        /\ lapsed' \subseteq Operations
    BY <2>1, ClaimRowType, WorkerEventTypes DEF OutboxStates
  <2> QED
    BY <1>2, <2>2 DEF ClaimStale, TransitionReservation, TypeOK, WorkersNamed,
                      ReservationStates
<1>3. ASSUME ClaimNothing(w)
      PROVE  TypeInv'
  <2>1. PICK o \in lapsed : /\ AdvanceOne(o, LeaseExpired)
                            /\ outbox' = [outbox EXCEPT ![o] = "unknown"]
                            /\ lapsed' = lapsed \ {o}
    BY <1>3 DEF ClaimNothing
  <2>2. /\ operations' \in [Operations -> [state : OperationStates \cup {"absent"},
                                           revision : Nat]]
        /\ events' \in [Operations -> Seq(Event)]
    BY <2>1, AdvanceOneType, WorkerEventTypes DEF TypeOK
  <2> QED
    BY <1>3, <2>1, <2>2 DEF ClaimNothing, TypeOK, WorkersNamed, OutboxStates
<1> QED
  BY <1>1, <1>2, <1>3 DEF Claim

LEMMA TypeSend ==
    ASSUME TypeInv, NEW w \in Workers,
           NEW answer \in PCs, NEW recorded \in BOOLEAN, Send(w, answer, recorded)
    PROVE  TypeInv'
<1>1. worker[w].operation \in Operations
  BY DEF TypeInv, WorkersNamed, Send
<1>2. sends' \in [Operations -> Nat] /\ provider' \subseteq Operations
  BY <1>1 DEF TypeInv, TypeOK, Send
<1> QED
  BY <1>1, <1>2 DEF TypeInv, TypeOK, WorkersNamed, Send, At, decisionVars, rowVars

LEMMA TypeWorker ==
    ASSUME TypeInv, NEW w \in Workers, WorkerStep(w)
    PROVE  TypeInv'
<1> USE DEF TypeInv, decisionVars, rowVars, providerVars
<1> DEFINE o == worker[w].operation
<1>1. CASE Claim(w)
  BY <1>1, TypeClaim
<1>2. CASE SendStep(w)
  BY <1>2, TypeSend
     DEF SendStep, SendAccepted, SendAckLost, SendFails, SendRejected, PCs
<1>3. CASE CompleteAssignment(w)
  <2>1. o \in Operations /\ RecordAssignment(o, "sending", "accepted")
    BY <1>3 DEF CompleteAssignment, WorkersNamed
  <2>2. "sending" \in OperationStates /\ TypeOK
    BY DEF OperationStates
  <2>3. worker' \in [Workers -> [pc : PCs, operation : Operations \cup {None}]]
        /\ WorkersNamed'
    BY <1>3, <2>1 DEF CompleteAssignment, TypeOK, WorkersNamed, Idle, At, PCs
  <2> HIDE DEF o
  <2> QED
    BY <2>1, <2>2, <2>3, RecordAssignmentType DEF RecordAssignment, TypeOK
<1>4. CASE CompleteFails(w)
  BY <1>4 DEF CompleteFails, TypeOK, WorkersNamed, PCs
<1>5. CASE MarkUnknown(w)
  <2>1. o \in Operations
    BY <1>5 DEF MarkUnknown, WorkersNamed
  <2>2. worker' \in [Workers -> [pc : PCs, operation : Operations \cup {None}]]
        /\ WorkersNamed'
    <3>1. worker' = [worker EXCEPT ![w] = Idle]
      BY <1>5 DEF MarkUnknown
    <3> QED
      BY <3>1 DEF TypeOK, WorkersNamed, Idle, PCs
  <2>3. CASE UNCHANGED rowVars
    BY <1>5, <2>2, <2>3 DEF MarkUnknown, TypeOK
  <2>4. CASE ~UNCHANGED rowVars
    <3>1. PICK reason \in {"acknowledgement_lost", "connector_result_unknown"} :
             AdvanceOne(o, NewEvent("unknown", reason, "none"))
      BY <1>5, <2>4 DEF MarkUnknown
    <3>2. NewEvent("unknown", reason, "none") \in Event
      BY WorkerEventTypes
    <3>3. /\ operations' \in [Operations -> [state : OperationStates \cup {"absent"},
                                             revision : Nat]]
          /\ events' \in [Operations -> Seq(Event)]
      BY <2>1, <3>1, <3>2, AdvanceOneType
    <3> QED
      BY <1>5, <2>2, <2>4, <3>3 DEF MarkUnknown, TypeOK, OutboxStates
  <2> QED
    BY <2>3, <2>4
<1>6. CASE MarkFailed(w)
  <2>1. o \in Operations
    BY <1>6 DEF MarkFailed, WorkersNamed
  <2>2. worker' \in [Workers -> [pc : PCs, operation : Operations \cup {None}]]
        /\ WorkersNamed'
    <3>1. worker' = [worker EXCEPT ![w] = Idle]
      BY <1>6 DEF MarkFailed
    <3> QED
      BY <3>1 DEF TypeOK, WorkersNamed, Idle, PCs
  <2>3. CASE UNCHANGED rowVars
    BY <1>6, <2>2, <2>3 DEF MarkFailed, TypeOK
  <2>4. CASE ~UNCHANGED rowVars
    <3>1. AdvanceOne(o, NewEvent("failed", "connector_rejected", "none"))
      BY <1>6, <2>4 DEF MarkFailed
    <3>2. /\ operations' \in [Operations -> [state : OperationStates \cup {"absent"},
                                             revision : Nat]]
          /\ events' \in [Operations -> Seq(Event)]
      BY <2>1, <3>1, WorkerEventTypes, AdvanceOneType
    <3>3. /\ outbox' = [outbox EXCEPT ![o] = "failed"]
          /\ lapsed' = lapsed \ {o}
          /\ reservations' = [reservations EXCEPT ![o] = "cancelled"]
          /\ UNCHANGED <<decisionVars, snapshots, assignments, receipts, providerVars>>
      BY <1>6, <2>4 DEF MarkFailed, TransitionReservation
    <3> HIDE DEF o
    <3> QED
      BY <2>1, <2>2, <3>2, <3>3 DEF TypeOK, OutboxStates, ReservationStates
  <2> QED
    BY <2>3, <2>4
<1>7. ASSUME NEW x \in Operations, ReadForReconciliation(w, x)
      PROVE  TypeInv'
  BY <1>7 DEF ReadForReconciliation, TypeOK, WorkersNamed, At, PCs
<1>8. CASE Lookup(w)
  <2>1. o \in Operations
    BY <1>8 DEF Lookup, WorkersNamed
  <2>2. \/ worker' = [worker EXCEPT ![w] = At("found", o)]
        \/ worker' = [worker EXCEPT ![w] = Idle]
    BY <1>8 DEF Lookup
  <2> HIDE DEF o
  <2>3. CASE worker' = [worker EXCEPT ![w] = At("found", o)]
    BY <1>8, <2>1, <2>3 DEF Lookup, TypeOK, WorkersNamed, At, PCs
  <2>4. CASE worker' = [worker EXCEPT ![w] = Idle]
    BY <1>8, <2>4 DEF Lookup, TypeOK, WorkersNamed, Idle, PCs
  <2> QED
    BY <2>2, <2>3, <2>4
<1>9. CASE CompleteReconciliation(w)
  <2>1. o \in Operations /\ RecordAssignment(o, "unknown", "assignment_reconciled")
    BY <1>9 DEF CompleteReconciliation, WorkersNamed
  <2>2. "unknown" \in OperationStates /\ TypeOK
    BY DEF OperationStates
  <2>3. worker' \in [Workers -> [pc : PCs, operation : Operations \cup {None}]]
        /\ WorkersNamed'
    BY <1>9, <2>1 DEF CompleteReconciliation, TypeOK, WorkersNamed, Idle, PCs
  <2> HIDE DEF o
  <2> QED
    BY <2>1, <2>2, <2>3, RecordAssignmentType DEF RecordAssignment, TypeOK
<1>10. CASE Abandon(w)
  BY <1>10 DEF Abandon, TypeOK, WorkersNamed, Idle, PCs
<1> QED
  BY <1>1, <1>2, <1>3, <1>4, <1>5, <1>6, <1>7, <1>8, <1>9, <1>10 DEF WorkerStep

(* The evidence kinds of an operation's trail.                             *)
LEMMA EvidenceUpToType ==
    ASSUME TypeOK, NEW o \in Operations, NEW revision \in Nat,
           revision < Len(events[o])
    PROVE  EvidenceUpTo(o, revision) \subseteq EvidenceKinds
<1> SUFFICES ASSUME NEW i \in 1..(revision + 1)
             PROVE  events[o][i].evidence \in EvidenceKinds \cup {"none"}
  BY DEF EvidenceUpTo
<1>1. events[o] \in Seq(Event) /\ i \in 1..Len(events[o])
  BY DEF TypeOK
<1>2. events[o][i] \in Event
  BY <1>1
<1> QED
  BY <1>2 DEF Event

LEMMA TypeObserve == TypeInv /\ Observe => TypeInv'
<1> SUFFICES ASSUME TypeInv, Observe PROVE TypeInv'
  OBVIOUS
<1> USE DEF TypeInv, decisionVars, rowVars, providerVars
<1>1. ASSUME NEW o \in Operations, NEW kind \in Kinds, RecordEvidence(o, kind)
      PROVE  TypeInv'
  <2>1. kind \in EvidenceKinds /\ targetByKind[kind] \in OperationStates
    BY KindsAssumption DEF EvidenceKinds, targetByKind, OperationStates
  <2>2. NewEvent(targetByKind[kind], "none", kind) \in Event
    BY <2>1, NewEventType DEF Reasons
  <2>3. /\ operations' \in [Operations -> [state : OperationStates \cup {"absent"},
                                           revision : Nat]]
        /\ events' \in [Operations -> Seq(Event)]
    BY <1>1, <2>2, AdvanceOneType DEF RecordEvidence
  <2>4. authority' \in [Users -> Standing]
    BY <1>1, PersistedType DEF RecordEvidence, TypeOK
  <2> QED
    BY <1>1, <2>3, <2>4 DEF RecordEvidence, TypeOK, WorkersNamed
<1>2. ASSUME NEW o \in Operations, IssueReceipt(o)
      PROVE  TypeInv'
  <2> DEFINE op   == operations[o]
             last == events[o][op.revision + 1]
             new  == [revision |-> op.revision, state |-> op.state,
                      reason |-> last.reason,
                      evidence |-> EvidenceUpTo(o, op.revision)]
  <2>1. op.revision \in Nat /\ op.state \in OperationStates
        /\ op.revision < Len(events[o])
    BY <1>2 DEF IssueReceipt, ReceiptBinds, TypeOK
  <2>2. last \in Event
    BY <2>1 DEF TypeOK
  <2>3. new \in Receipt
    BY <2>1, <2>2, EvidenceUpToType DEF Receipt, Event
  <2>4. receipts' = [receipts EXCEPT ![o] = @ \cup {new}]
    BY <1>2 DEF IssueReceipt
  <2>5. receipts' \in [Operations -> SUBSET Receipt]
    BY <2>3, <2>4 DEF TypeOK
  <2> QED
    BY <1>2, <2>5 DEF IssueReceipt, TypeOK, WorkersNamed
<1> QED
  BY <1>1, <1>2 DEF Observe

LEMMA TypeStep == TypeInv /\ [Next]_vars => TypeInv'
<1> SUFFICES ASSUME TypeInv, [Next]_vars PROVE TypeInv'
  OBVIOUS
<1>1. CASE Decide
  BY <1>1, TypeDecide
<1>2. CASE TimePasses
  BY <1>2, TypeTime
<1>3. ASSUME NEW w \in Workers, WorkerStep(w) PROVE TypeInv'
  BY <1>3, TypeWorker
<1>4. CASE Observe
  BY <1>4, TypeObserve
<1>5. CASE UNCHANGED vars
  BY <1>5 DEF vars, decisionVars, rowVars, providerVars, TypeInv, TypeOK, WorkersNamed
<1> QED
  BY <1>1, <1>2, <1>3, <1>4, <1>5 DEF Next

(* Every variable keeps its type, whatever sets of proposals, operations,  *)
(* users and workers there are.                                            *)
THEOREM TypeCorrect == Spec => []TypeOK
<1>1. TypeInv => TypeOK
  BY DEF TypeInv
<1> QED
  BY TypeInit, TypeStep, <1>1, PTL DEF Spec

-----------------------------------------------------------------------------
(* The dispatch of an operation is safe.                                   *)


(* A worker in one of these is inside #dispatchClaim.                      *)
DispatchPCs == {"claimed", "accepted", "ack_lost", "failing", "rejected"}

IsDispatching(w, o) == worker[w].pc \in DispatchPCs /\ worker[w].operation = o

(* An operation is claimed once, so it has one dispatching worker at most. *)
OneDispatcher ==
    \A v, w \in Workers, o \in Operations :
      IsDispatching(v, o) /\ IsDispatching(w, o) => v = w

(* What a worker knows about its operation, at each point of its run.      *)
WorkerKnows ==
    \A w \in Workers, o \in Operations :
      worker[w].operation = o =>
        /\ worker[w].pc \in DispatchPCs =>
             operations[o].state \notin {"absent", "reserved", "cancelled"}
        /\ worker[w].pc = "claimed" =>
             /\ sends[o] = 0
             /\ operations[o].state \in {"sending", "unknown"}
        /\ worker[w].pc \in {"accepted", "ack_lost", "found"} => o \in provider
        /\ worker[w].pc = "rejected" =>
             /\ o \notin provider
             /\ sends[o] = 1
             /\ operations[o].state \in {"sending", "unknown"}

(* How the provider's side, the sends and the rows of an operation agree.  *)
ProviderAgrees(o) ==
    /\ sends[o] <= 1
    /\ o \in provider => sends[o] = 1
    /\ o \in assignments => o \in provider
    /\ o \in provider => operations[o].state \notin {"cancelled", "failed"}
    /\ operations[o].state \in {"absent", "reserved", "cancelled"} => sends[o] = 0

ProviderKnown == \A o \in Operations : ProviderAgrees(o)

IInv ==
    /\ TypeInv
    /\ RowsCoherent
    /\ OneDispatcher
    /\ WorkerKnows
    /\ ProviderKnown

-----------------------------------------------------------------------------
(* Helpers.                                                                *)

(* What Advance does to the state of each operation.                       *)
LEMMA AdvanceStates ==
    ASSUME TypeOK, NEW next \in [Operations -> Event \cup {None}], Advance(next)
    PROVE  \A o \in Operations :
             /\ next[o] = None => operations'[o].state = operations[o].state
             /\ next[o] # None =>
                  /\ operations'[o].state = next[o].state
                  /\ MayMove(operations[o].state, next[o].state)
  BY DEF Advance, TypeOK, Event

LEMMA AdvanceOneStates ==
    ASSUME TypeOK, NEW o \in Operations, NEW event \in Event, AdvanceOne(o, event)
    PROVE  /\ operations'[o].state = event.state
           /\ MayMove(operations[o].state, event.state)
           /\ \A x \in Operations :
                x # o => operations'[x].state = operations[x].state
<1> DEFINE next == [x \in Operations |-> IF x = o THEN event ELSE None]
<1>1. next \in [Operations -> Event \cup {None}] /\ Advance(next)
  BY DEF AdvanceOne
<1>2. next[o] = event /\ event # None
  BY NoneAssumption
<1>3. \A x \in Operations : x # o => next[x] = None
  OBVIOUS
<1> HIDE DEF next
<1> QED
  BY <1>1, <1>2, <1>3, AdvanceStates

(* What ClaimRow does: it settles the row o and lets go of the lapsed      *)
(* leases it recovers.                                                     *)
LEMMA ClaimRowStates ==
    ASSUME TypeOK, RowsCoherent, NEW o \in Operations,
           NEW recovered \in SUBSET lapsed,
           NEW event \in Event, NEW state, outbox[o] = "pending",
           ClaimRow(o, recovered, event, state)
    PROVE  /\ o \notin lapsed /\ operations[o].state = "reserved"
           /\ operations'[o].state = event.state /\ outbox'[o] = state
           /\ lapsed' = lapsed \ recovered
           /\ \A x \in recovered :
                /\ operations[x].state = "sending"
                /\ operations'[x].state = "unknown" /\ outbox'[x] = "unknown"
           /\ \A x \in Operations \ (recovered \cup {o}) :
                /\ operations'[x].state = operations[x].state
                /\ outbox'[x] = outbox[x]
<1> DEFINE next == [x \in Operations |->
              CASE x \in recovered -> LeaseExpired
                [] x = o           -> event
                [] OTHER           -> None]
<1>1. /\ o \notin lapsed /\ operations[o].state = "reserved"
      /\ \A x \in recovered : x \in Operations /\ operations[x].state = "sending"
  BY DEF RowsCoherent, RowsAgree, TypeOK
<1>2. next \in [Operations -> Event \cup {None}] /\ Advance(next)
  BY WorkerEventTypes DEF ClaimRow
<1>3. /\ next[o] = event /\ event # None
      /\ \A x \in recovered : next[x] = LeaseExpired /\ LeaseExpired # None
      /\ \A x \in Operations \ (recovered \cup {o}) : next[x] = None
  BY <1>1, NoneAssumption, WorkerEventTypes
<1>4. LeaseExpired.state = "unknown"
  BY DEF LeaseExpired, NewEvent
<1>5. /\ outbox'[o] = state /\ lapsed' = lapsed \ recovered
      /\ \A x \in recovered : outbox'[x] = "unknown"
      /\ \A x \in Operations \ (recovered \cup {o}) : outbox'[x] = outbox[x]
  BY <1>1 DEF ClaimRow
<1> HIDE DEF next
<1> QED
  BY <1>1, <1>2, <1>3, <1>4, <1>5, AdvanceStates

-----------------------------------------------------------------------------
(* The invariant holds initially, and across what touches no operation.    *)

LEMMA SafeInit == Init => IInv
<1> SUFFICES ASSUME Init PROVE IInv
  OBVIOUS
<1>1. RowsCoherent
  BY DEF Init, RowsCoherent, RowsAgree, AssignedStates
<1>2. OneDispatcher /\ WorkerKnows
  BY DEF Init, Idle, OneDispatcher, IsDispatching, DispatchPCs, WorkerKnows
<1>3. ProviderKnown
  BY DEF Init, ProviderKnown, ProviderAgrees
<1> QED
  BY TypeInit, <1>1, <1>2, <1>3 DEF IInv

LEMMA SafeFrame ==
    ASSUME IInv, TypeInv',
           UNCHANGED <<snapshots, operations, outbox, lapsed, reservations,
                       assignments, worker, provider, sends>>
    PROVE  IInv'
  BY DEF IInv, RowsCoherent, RowsAgree, OneDispatcher, IsDispatching, WorkerKnows,
         ProviderKnown, ProviderAgrees

LEMMA SafeDecide ==
    ASSUME IInv, TypeInv', Decide
    PROVE  IInv'
<1> USE DEF rowVars, providerVars
<1>1. ASSUME NEW u \in Users, NEW p \in Proposals, NEW o \in Operations,
             ReserveNew(u, p, o)
      PROVE  IInv'
  <2>1. operations[o].state = "absent"
    BY <1>1 DEF ReserveNew, IInv, RowsCoherent, RowsAgree
  <2>2. snapshots'[o] # None
    BY <1>1, NoneAssumption DEF ReserveNew, BindingIsCurrent, IInv, TypeInv, TypeOK,
          Proposal, Approval, Snapshot
  <2>3. /\ operations'[o].state = "reserved"
        /\ \A x \in Operations \ {o} : operations'[x] = operations[x]
    BY <1>1 DEF ReserveNew, IInv, TypeInv, TypeOK
  <2>4. RowsCoherent'
    <3> SUFFICES ASSUME NEW x \in Operations PROVE RowsAgree(x)'
      BY DEF RowsCoherent
    <3>1. RowsAgree(x) /\ RowsAgree(o)
      BY DEF IInv, RowsCoherent
    <3>2. CASE x = o
      BY <1>1, <2>1, <2>2, <2>3, <3>1, <3>2
         DEF ReserveNew, RowsAgree, IInv, TypeInv, TypeOK, AssignedStates
    <3>3. CASE x # o
      BY <1>1, <2>3, <3>1, <3>3 DEF ReserveNew, RowsAgree, IInv, TypeInv, TypeOK
    <3> QED
      BY <3>2, <3>3
  <2>5. OneDispatcher'
    BY <1>1 DEF ReserveNew, IInv, OneDispatcher, IsDispatching
  <2>6. WorkerKnows'
    BY <1>1, <2>1, <2>3 DEF ReserveNew, IInv, WorkerKnows, DispatchPCs
  <2>7. ProviderKnown'
    BY <1>1, <2>1, <2>3 DEF ReserveNew, IInv, ProviderKnown, ProviderAgrees
  <2> QED
    BY <2>4, <2>5, <2>6, <2>7 DEF IInv
<1>2. CASE ~\E u \in Users, p \in Proposals, o \in Operations : ReserveNew(u, p, o)
  BY <1>2, SafeFrame
     DEF Decide, PrepareDecisionInputs, Approve, RevokeApproval, RevokeCapability,
         RevokePrincipal, ReserveReplay
<1> QED
  BY <1>1, <1>2

LEMMA SafeTime ==
    ASSUME IInv, TypeInv', TimePasses
    PROVE  IInv'
<1> USE DEF rowVars, providerVars
<1>1. ASSUME NEW o \in Operations, LeaseExpires(o)
      PROVE  IInv'
  BY <1>1 DEF LeaseExpires, IInv, RowsCoherent, RowsAgree, OneDispatcher, IsDispatching,
              WorkerKnows, ProviderKnown, ProviderAgrees
<1>2. CASE ~\E o \in Operations : LeaseExpires(o)
  BY <1>2, SafeFrame DEF TimePasses, ProposalExpires, PrincipalLapses
<1> QED
  BY <1>1, <1>2

-----------------------------------------------------------------------------
(* Claims.                                                                 *)

(* A claim leaves coherent rows, whatever it decides about its own row.    *)
LEMMA ClaimCoherent ==
    ASSUME IInv, NEW o \in Operations, NEW recovered \in SUBSET lapsed,
           NEW event \in Event, NEW state, outbox[o] = "pending",
           ClaimRow(o, recovered, event, state),
           UNCHANGED <<snapshots, assignments>>,
           \/ /\ event.state = "sending" /\ state = "leased"
              /\ UNCHANGED reservations
           \/ /\ event.state = "cancelled" /\ state = "cancelled"
              /\ reservations' = [reservations EXCEPT ![o] = "cancelled"]
    PROVE  RowsCoherent'
<1> SUFFICES ASSUME NEW x \in Operations PROVE RowsAgree(x)'
  BY DEF RowsCoherent
<1>1. RowsAgree(x) /\ TypeOK /\ RowsCoherent
  BY DEF IInv, TypeInv, RowsCoherent
<1>2. CASE x \in recovered
  BY <1>1, <1>2, ClaimRowStates DEF RowsAgree, TypeOK, AssignedStates
<1>3. CASE x = o
  BY <1>1, <1>3, ClaimRowStates DEF RowsAgree, TypeOK, AssignedStates
<1>4. CASE x \notin recovered \cup {o}
  BY <1>1, <1>4, ClaimRowStates DEF RowsAgree, TypeOK
<1> QED
  BY <1>2, <1>3, <1>4

LEMMA SafeClaim ==
    ASSUME IInv, TypeInv', NEW w \in Workers, Claim(w)
    PROVE  IInv'
<1> USE DEF decisionVars, providerVars
<1>0. TypeOK /\ RowsCoherent
  BY DEF IInv, TypeInv
<1>1. ASSUME NEW o \in Operations, ClaimCurrent(w, o)
      PROVE  IInv'
  <2>1. PICK recovered \in SUBSET lapsed : ClaimRow(o, recovered, Sending, "leased")
    BY <1>1 DEF ClaimCurrent
  <2>2. Sending \in Event /\ Sending.state = "sending" /\ outbox[o] = "pending"
    BY <1>1, WorkerEventTypes DEF Sending, NewEvent, ClaimCurrent
  <2>3. RowsCoherent'
    BY <1>1, <2>1, <2>2, ClaimCoherent DEF ClaimCurrent
  <2>4. /\ operations[o].state = "reserved" /\ operations'[o].state = "sending"
        /\ \A x \in Operations \ {o} :
             \/ operations'[x].state = operations[x].state
             \/ operations[x].state = "sending" /\ operations'[x].state = "unknown"
    <3>1. /\ operations[o].state = "reserved"
          /\ operations'[o].state = Sending.state
          /\ \A x \in recovered : /\ operations[x].state = "sending"
                                  /\ operations'[x].state = "unknown"
          /\ \A x \in Operations \ (recovered \cup {o}) :
               operations'[x].state = operations[x].state
      BY <1>0, <2>1, <2>2, ClaimRowStates
    <3> QED
      BY <2>2, <3>1
  <2>5. worker' = [worker EXCEPT ![w] = At("claimed", o)]
    BY <1>1 DEF ClaimCurrent
  <2>6. OneDispatcher'
    <3>1. \A v \in Workers : ~IsDispatching(v, o)
      BY <2>4 DEF IInv, WorkerKnows, IsDispatching
    <3>2. \A v \in Workers, x \in Operations :
            IsDispatching(v, x)' => IsDispatching(v, x) \/ (v = w /\ x = o)
      BY <2>5 DEF IInv, TypeInv, TypeOK, IsDispatching, At
    <3> QED
      BY <2>5, <3>1, <3>2
         DEF IInv, TypeInv, TypeOK, OneDispatcher, IsDispatching, At
  <2>7. sends[o] = 0 /\ UNCHANGED <<sends, provider, assignments>>
    BY <1>1, <2>4 DEF ClaimCurrent, IInv, ProviderKnown, ProviderAgrees
  <2>8. WorkerKnows'
    BY <2>4, <2>5, <2>7 DEF IInv, TypeInv, TypeOK, WorkerKnows, DispatchPCs, At
  <2>9. ProviderKnown'
    BY <2>4, <2>7 DEF IInv, ProviderKnown, ProviderAgrees
  <2> QED
    BY <2>3, <2>6, <2>8, <2>9 DEF IInv
<1>2. ASSUME NEW o \in Operations, ClaimStale(w, o)
      PROVE  IInv'
  <2>1. PICK recovered \in SUBSET lapsed : ClaimRow(o, recovered, Cancelled, "cancelled")
    BY <1>2 DEF ClaimStale
  <2>2. Cancelled \in Event /\ Cancelled.state = "cancelled" /\ outbox[o] = "pending"
    BY <1>2, WorkerEventTypes DEF Cancelled, NewEvent, ClaimStale
  <2>3. RowsCoherent'
    BY <1>2, <2>1, <2>2, ClaimCoherent DEF ClaimStale, TransitionReservation
  <2>4. /\ operations[o].state = "reserved" /\ operations'[o].state = "cancelled"
        /\ \A x \in Operations \ {o} :
             \/ operations'[x].state = operations[x].state
             \/ operations[x].state = "sending" /\ operations'[x].state = "unknown"
    <3>1. /\ operations[o].state = "reserved"
          /\ operations'[o].state = Cancelled.state
          /\ \A x \in recovered : /\ operations[x].state = "sending"
                                  /\ operations'[x].state = "unknown"
          /\ \A x \in Operations \ (recovered \cup {o}) :
               operations'[x].state = operations[x].state
      BY <1>0, <2>1, <2>2, ClaimRowStates
    <3> QED
      BY <2>2, <3>1
  <2>5. UNCHANGED <<sends, provider, assignments, worker>>
    BY <1>2 DEF ClaimStale
  <2>6. OneDispatcher'
    BY <2>5 DEF IInv, OneDispatcher, IsDispatching
  <2>7. sends[o] = 0
    BY <2>4 DEF IInv, ProviderKnown, ProviderAgrees
  <2>8. WorkerKnows'
    BY <2>4, <2>5 DEF IInv, WorkerKnows, DispatchPCs
  <2>9. ProviderKnown'
    BY <2>4, <2>5, <2>7 DEF IInv, ProviderKnown, ProviderAgrees
  <2> QED
    BY <2>3, <2>6, <2>8, <2>9 DEF IInv
<1>3. ASSUME ClaimNothing(w)
      PROVE  IInv'
  <2>1. PICK o \in lapsed : /\ AdvanceOne(o, LeaseExpired)
                            /\ outbox' = [outbox EXCEPT ![o] = "unknown"]
                            /\ lapsed' = lapsed \ {o}
    BY <1>3 DEF ClaimNothing
  <2>2. o \in Operations /\ operations[o].state = "sending"
    BY <1>0 DEF RowsCoherent, RowsAgree, TypeOK
  <2>3. /\ operations'[o].state = "unknown"
        /\ \A x \in Operations \ {o} : operations'[x].state = operations[x].state
    BY <1>0, <2>1, <2>2, WorkerEventTypes, AdvanceOneStates DEF LeaseExpired, NewEvent
  <2>4. UNCHANGED <<sends, provider, assignments, worker, reservations, snapshots>>
    BY <1>3 DEF ClaimNothing
  <2>5. RowsCoherent'
    BY <1>0, <2>1, <2>2, <2>3, <2>4 DEF RowsCoherent, RowsAgree, TypeOK, AssignedStates
  <2>6. OneDispatcher'
    BY <2>4 DEF IInv, OneDispatcher, IsDispatching
  <2>7. WorkerKnows'
    BY <2>2, <2>3, <2>4 DEF IInv, WorkerKnows, DispatchPCs
  <2>8. ProviderKnown'
    BY <2>2, <2>3, <2>4 DEF IInv, ProviderKnown, ProviderAgrees
  <2> QED
    BY <2>5, <2>6, <2>7, <2>8 DEF IInv
<1> QED
  BY <1>1, <1>2, <1>3 DEF Claim

-----------------------------------------------------------------------------
(* The send, and the recording of what the worker heard of it.             *)

LEMMA SafeSend ==
    ASSUME IInv, TypeInv', NEW w \in Workers, NEW recorded \in BOOLEAN,
           NEW answer \in {"accepted", "ack_lost", "failing", "rejected"},
           answer \in {"accepted", "ack_lost"} => recorded,
           answer = "rejected" => ~recorded,
           Send(w, answer, recorded)
    PROVE  IInv'
<1> DEFINE o == worker[w].operation
<1>1. /\ o \in Operations /\ worker[w].pc = "claimed"
      /\ sends[o] = 0 /\ operations[o].state \in {"sending", "unknown"}
      /\ o \notin provider
  BY DEF Send, IInv, TypeInv, WorkersNamed, WorkerKnows, ProviderKnown, ProviderAgrees
<1>2. /\ sends' = [sends EXCEPT ![o] = 1]
      /\ provider' = IF recorded THEN provider \cup {o} ELSE provider
      /\ worker' = [worker EXCEPT ![w] = At(answer, o)]
      /\ UNCHANGED rowVars
  BY <1>1 DEF Send, IInv, TypeInv, TypeOK
<1>3. RowsCoherent'
  BY <1>2 DEF IInv, RowsCoherent, RowsAgree, rowVars
<1>4. OneDispatcher'
  BY <1>1, <1>2 DEF IInv, TypeInv, TypeOK, OneDispatcher, IsDispatching, DispatchPCs, At
<1>5. \A v \in Workers \ {w} : worker[v].operation = o => worker[v].pc \notin DispatchPCs
  BY <1>1 DEF IInv, OneDispatcher, IsDispatching, DispatchPCs
<1> HIDE DEF o
<1>6. WorkerKnows'
  <2> SUFFICES ASSUME NEW v \in Workers, NEW x \in Operations,
                      worker'[v].operation = x
               PROVE  /\ worker'[v].pc \in DispatchPCs =>
                           operations'[x].state \notin {"absent", "reserved", "cancelled"}
                      /\ worker'[v].pc = "claimed" =>
                           /\ sends'[x] = 0
                           /\ operations'[x].state \in {"sending", "unknown"}
                      /\ worker'[v].pc \in {"accepted", "ack_lost", "found"} =>
                           x \in provider'
                      /\ worker'[v].pc = "rejected" =>
                           /\ x \notin provider'
                           /\ sends'[x] = 1
                           /\ operations'[x].state \in {"sending", "unknown"}
    BY DEF WorkerKnows
  <2>1. CASE v = w
    BY <1>1, <1>2, <2>1 DEF IInv, TypeInv, TypeOK, At, rowVars
  <2>2. CASE v # w
    BY <1>1, <1>2, <1>5, <2>2
       DEF IInv, TypeInv, TypeOK, WorkerKnows, DispatchPCs, rowVars
  <2> QED
    BY <2>1, <2>2
<1>7. ProviderKnown'
  BY <1>1, <1>2 DEF IInv, TypeInv, TypeOK, ProviderKnown, ProviderAgrees, rowVars
<1> QED
  BY <1>3, <1>4, <1>6, <1>7 DEF IInv

(* completeAssignment, of an operation the provider holds.                 *)
LEMMA SafeRecord ==
    ASSUME IInv, NEW o \in provider, NEW expected \in {"sending", "unknown"},
           NEW target \in {"accepted", "assignment_reconciled"},
           RecordAssignment(o, expected, target)
    PROVE  /\ RowsCoherent'
           /\ ProviderKnown'
           /\ operations'[o].state = target
           /\ \A x \in Operations \ {o} : operations'[x].state = operations[x].state
           /\ UNCHANGED <<sends, provider>>
<1> USE DEF decisionVars, providerVars
<1>1. o \in Operations /\ TypeOK /\ RowsCoherent /\ ProviderKnown
  BY DEF IInv, TypeInv, TypeOK
<1>2. /\ NewEvent(target, "none", "none") \in Event
      /\ NewEvent(target, "none", "none").state = target
  BY WorkerEventTypes DEF NewEvent
<1>3. /\ operations'[o].state = target
      /\ \A x \in Operations \ {o} : operations'[x].state = operations[x].state
  BY <1>1, <1>2, AdvanceOneStates DEF RecordAssignment
<1>4. RowsCoherent'
  BY <1>1, <1>3 DEF RecordAssignment, TransitionReservation, RowsCoherent, RowsAgree,
                    TypeOK, AssignedStates
<1>5. ProviderKnown'
  BY <1>1, <1>3 DEF RecordAssignment, ProviderKnown, ProviderAgrees
<1> QED
  BY <1>3, <1>4, <1>5 DEF RecordAssignment

(* A worker that gives up, fails or reconciles takes no one else's place,  *)
(* and what the others know stays true, if it moves no operation another   *)
(* worker has yet to send or to see rejected.                              *)
LEMMA WorkerMoves ==
    ASSUME IInv, NEW w \in Workers,
           NEW new \in [pc : {"idle", "failing", "looking_up", "found"},
                        operation : Operations \cup {None}],
           worker' = [worker EXCEPT ![w] = new],
           UNCHANGED <<sends, provider>>,
           new.pc = "failing" => IsDispatching(w, new.operation),
           new.pc = "found" => new.operation \in provider,
           \A x \in Operations :
             \/ operations'[x].state = operations[x].state
             \/ /\ operations'[x].state \notin {"absent", "reserved", "cancelled"}
                /\ \/ operations'[x].state \in {"sending", "unknown"}
                   \/ \A v \in Workers \ {w} :
                        worker[v].operation = x => worker[v].pc \notin {"claimed", "rejected"}
    PROVE  OneDispatcher' /\ WorkerKnows'
<1>1. \A v \in Workers, x \in Operations : IsDispatching(v, x)' => IsDispatching(v, x)
  BY DEF IInv, TypeInv, TypeOK, IsDispatching, DispatchPCs
<1>2. OneDispatcher'
  BY <1>1 DEF IInv, OneDispatcher
<1>3. WorkerKnows'
  <2> SUFFICES ASSUME NEW v \in Workers, NEW x \in Operations,
                      worker'[v].operation = x
               PROVE  /\ worker'[v].pc \in DispatchPCs =>
                           operations'[x].state \notin {"absent", "reserved", "cancelled"}
                      /\ worker'[v].pc = "claimed" =>
                           /\ sends'[x] = 0
                           /\ operations'[x].state \in {"sending", "unknown"}
                      /\ worker'[v].pc \in {"accepted", "ack_lost", "found"} =>
                           x \in provider'
                      /\ worker'[v].pc = "rejected" =>
                           /\ x \notin provider'
                           /\ sends'[x] = 1
                           /\ operations'[x].state \in {"sending", "unknown"}
    BY DEF WorkerKnows
  <2>1. CASE v = w
    <3>1. worker'[v] = new
      BY <2>1 DEF IInv, TypeInv, TypeOK
    <3>2. new.pc = "failing" =>
            operations[x].state \notin {"absent", "reserved", "cancelled"}
      BY <3>1 DEF IInv, WorkerKnows, IsDispatching
    <3> QED
      BY <3>1, <3>2 DEF DispatchPCs
  <2>2. CASE v # w
    <3>1. worker'[v] = worker[v]
      BY <2>2 DEF IInv, TypeInv, TypeOK
    <3> QED
      BY <2>2, <3>1 DEF IInv, WorkerKnows, DispatchPCs
  <2> QED
    BY <2>1, <2>2
<1> QED
  BY <1>2, <1>3

(* A step that moves nothing but the worker itself.                        *)
LEMMA SafeWorkerOnly ==
    ASSUME IInv, TypeInv', NEW w \in Workers,
           NEW new \in [pc : {"idle", "failing", "looking_up", "found"},
                        operation : Operations \cup {None}],
           worker' = [worker EXCEPT ![w] = new],
           UNCHANGED <<rowVars, providerVars>>,
           new.pc = "failing" => IsDispatching(w, new.operation),
           new.pc = "found" => new.operation \in provider
    PROVE  IInv'
<1>1. OneDispatcher' /\ WorkerKnows'
  BY WorkerMoves DEF rowVars, providerVars
<1>2. RowsCoherent' /\ ProviderKnown'
  BY DEF IInv, RowsCoherent, RowsAgree, ProviderKnown, ProviderAgrees, rowVars,
         providerVars
<1> QED
  BY <1>1, <1>2 DEF IInv

LEMMA SafeWorker ==
    ASSUME IInv, TypeInv', NEW w \in Workers, WorkerStep(w)
    PROVE  IInv'
<1> DEFINE o == worker[w].operation
           Movable == [pc : {"idle", "failing", "looking_up", "found"},
                       operation : Operations \cup {None}]
<1>0. TypeOK /\ RowsCoherent /\ ProviderKnown /\ Idle \in Movable
  BY DEF IInv, TypeInv, Idle
<1>1. CASE Claim(w)
  BY <1>1, SafeClaim
<1>2. CASE SendStep(w)
  BY <1>2, SafeSend DEF SendStep, SendAccepted, SendAckLost, SendFails, SendRejected
<1>3. CASE CompleteAssignment(w)
  <2>1. /\ o \in Operations /\ o \in provider /\ IsDispatching(w, o)
        /\ RecordAssignment(o, "sending", "accepted")
    BY <1>3 DEF CompleteAssignment, IInv, TypeInv, WorkersNamed, WorkerKnows,
                IsDispatching, DispatchPCs
  <2>2. /\ RowsCoherent' /\ ProviderKnown'
        /\ operations'[o].state = "accepted"
        /\ \A x \in Operations \ {o} : operations'[x].state = operations[x].state
        /\ UNCHANGED <<sends, provider>>
    BY <2>1, SafeRecord
  <2>3. \A v \in Workers \ {w} :
          worker[v].operation = o => worker[v].pc \notin {"claimed", "rejected"}
    BY <2>1 DEF IInv, OneDispatcher, IsDispatching, DispatchPCs
  <2>4. PICK new \in {Idle, At("failing", o)} : worker' = [worker EXCEPT ![w] = new]
    BY <1>3 DEF CompleteAssignment
  <2>5. /\ new \in Movable /\ new.pc # "found"
        /\ new.pc = "failing" => IsDispatching(w, new.operation)
    BY <2>1 DEF Idle, At
  <2> HIDE DEF o
  <2>6. OneDispatcher' /\ WorkerKnows'
    BY <2>2, <2>3, <2>4, <2>5, WorkerMoves
  <2> QED
    BY <2>2, <2>6 DEF IInv
<1>4. CASE CompleteFails(w)
  <2>1. o \in Operations /\ IsDispatching(w, o)
    BY <1>4 DEF CompleteFails, IInv, TypeInv, WorkersNamed, IsDispatching, DispatchPCs
  <2>2. worker' = [worker EXCEPT ![w] = At("failing", o)]
    <3>1. worker[w] \in [pc : PCs, operation : Operations \cup {None}]
      BY <1>0 DEF TypeOK
    <3>2. [worker[w] EXCEPT !.pc = "failing"] = At("failing", o)
      BY <3>1 DEF At
    <3>3. worker' = [worker EXCEPT ![w] = [worker[w] EXCEPT !.pc = "failing"]]
      BY <1>4 DEF CompleteFails
    <3> QED
      BY <3>2, <3>3
  <2>3. /\ At("failing", o) \in Movable
        /\ At("failing", o).pc = "failing" /\ At("failing", o).operation = o
    BY <2>1 DEF At
  <2>4. UNCHANGED <<rowVars, providerVars>>
    BY <1>4 DEF CompleteFails
  <2> HIDE DEF o
  <2> QED
    BY <2>1, <2>2, <2>3, <2>4, SafeWorkerOnly
<1>5. CASE MarkUnknown(w)
  <2>1. o \in Operations /\ operations[o].state \in OperationStates
    BY <1>5 DEF MarkUnknown, IInv, TypeInv, TypeOK, WorkersNamed, WorkerKnows,
                DispatchPCs
  <2>2. worker' = [worker EXCEPT ![w] = Idle] /\ UNCHANGED providerVars
    BY <1>5 DEF MarkUnknown
  <2>3. CASE UNCHANGED rowVars
    BY <1>0, <2>2, <2>3, SafeWorkerOnly DEF Idle
  <2>4. CASE ~UNCHANGED rowVars
    <3>1. PICK reason \in {"acknowledgement_lost", "connector_result_unknown"} :
             AdvanceOne(o, NewEvent("unknown", reason, "none"))
      BY <1>5, <2>4 DEF MarkUnknown
    <3>2. /\ NewEvent("unknown", reason, "none") \in Event
          /\ NewEvent("unknown", reason, "none").state = "unknown"
      BY WorkerEventTypes DEF NewEvent
    <3>3. /\ operations'[o].state = "unknown"
          /\ MayMove(operations[o].state, "unknown")
          /\ \A x \in Operations \ {o} : operations'[x].state = operations[x].state
      BY <1>0, <2>1, <3>1, <3>2, AdvanceOneStates
    <3>4. operations[o].state \in {"sending", "accepted"}
      BY <2>1, <3>3, Moves
    <3>5. /\ outbox' = [outbox EXCEPT ![o] = "unknown"] /\ lapsed' = lapsed \ {o}
          /\ UNCHANGED <<snapshots, reservations, assignments>>
      BY <1>5, <2>4 DEF MarkUnknown
    <3> HIDE DEF o
    <3>6. RowsCoherent'
      BY <1>0, <2>1, <3>3, <3>4, <3>5
         DEF RowsCoherent, RowsAgree, TypeOK, AssignedStates
    <3>7. ProviderKnown'
      BY <1>0, <2>2, <3>3, <3>4, <3>5
         DEF ProviderKnown, ProviderAgrees, providerVars
    <3>8. OneDispatcher' /\ WorkerKnows'
      BY <1>0, <2>2, <3>3, WorkerMoves DEF Idle, providerVars
    <3> QED
      BY <3>6, <3>7, <3>8 DEF IInv
  <2> QED
    BY <2>3, <2>4
<1>6. CASE MarkFailed(w)
  <2>1. /\ o \in Operations /\ operations[o].state \in {"sending", "unknown"}
        /\ o \notin provider /\ IsDispatching(w, o)
    BY <1>6 DEF MarkFailed, IInv, TypeInv, TypeOK, WorkersNamed, WorkerKnows,
                IsDispatching, DispatchPCs
  <2>2. worker' = [worker EXCEPT ![w] = Idle] /\ UNCHANGED providerVars
    BY <1>6 DEF MarkFailed
  <2>3. /\ AdvanceOne(o, NewEvent("failed", "connector_rejected", "none"))
        /\ outbox' = [outbox EXCEPT ![o] = "failed"] /\ lapsed' = lapsed \ {o}
        /\ TransitionReservation(o, "cancelled")
        /\ UNCHANGED <<snapshots, assignments>>
    BY <1>6, <2>1 DEF MarkFailed
  <2>4. /\ NewEvent("failed", "connector_rejected", "none") \in Event
        /\ NewEvent("failed", "connector_rejected", "none").state = "failed"
    BY WorkerEventTypes DEF NewEvent
  <2>5. /\ operations'[o].state = "failed"
        /\ \A x \in Operations \ {o} : operations'[x].state = operations[x].state
    BY <1>0, <2>1, <2>3, <2>4, AdvanceOneStates
  <2>6. \A v \in Workers \ {w} :
          worker[v].operation = o => worker[v].pc \notin {"claimed", "rejected"}
    BY <2>1 DEF IInv, OneDispatcher, IsDispatching, DispatchPCs
  <2> HIDE DEF o
  <2>7. RowsCoherent'
    BY <1>0, <2>1, <2>3, <2>5
       DEF TransitionReservation, RowsCoherent, RowsAgree, TypeOK, AssignedStates
  <2>8. ProviderKnown'
    BY <1>0, <2>1, <2>2, <2>3, <2>5 DEF ProviderKnown, ProviderAgrees, providerVars
  <2>9. OneDispatcher' /\ WorkerKnows'
    BY <1>0, <2>2, <2>5, <2>6, WorkerMoves DEF Idle, providerVars
  <2> QED
    BY <2>7, <2>8, <2>9 DEF IInv
<1>7. ASSUME NEW x \in Operations, ReadForReconciliation(w, x)
      PROVE  IInv'
  <2>1. /\ At("looking_up", x) \in Movable /\ At("looking_up", x).pc = "looking_up"
        /\ worker' = [worker EXCEPT ![w] = At("looking_up", x)]
        /\ UNCHANGED <<rowVars, providerVars>>
    BY <1>7 DEF ReadForReconciliation, At
  <2> QED
    BY <2>1, SafeWorkerOnly
<1>8. CASE Lookup(w)
  <2>1. o \in Operations /\ UNCHANGED <<rowVars, providerVars>>
    BY <1>8 DEF Lookup, IInv, TypeInv, WorkersNamed
  <2>2. PICK new \in {At("found", o), Idle} :
           /\ worker' = [worker EXCEPT ![w] = new]
           /\ new.pc = "found" => o \in provider
    BY <1>8 DEF Lookup, Idle
  <2>3. /\ new \in Movable /\ new.pc # "failing"
        /\ new.pc = "found" => new.operation \in provider
    BY <2>1, <2>2 DEF At, Idle
  <2> HIDE DEF o
  <2> QED
    BY <2>1, <2>2, <2>3, SafeWorkerOnly
<1>9. CASE CompleteReconciliation(w)
  <2>1. /\ o \in Operations /\ o \in provider
        /\ RecordAssignment(o, "unknown", "assignment_reconciled")
        /\ worker' = [worker EXCEPT ![w] = Idle]
    BY <1>9 DEF CompleteReconciliation, IInv, TypeInv, WorkersNamed, WorkerKnows
  <2>2. /\ RowsCoherent' /\ ProviderKnown'
        /\ operations'[o].state = "assignment_reconciled"
        /\ \A x \in Operations \ {o} : operations'[x].state = operations[x].state
        /\ UNCHANGED <<sends, provider>>
    BY <2>1, SafeRecord
  <2>3. \A v \in Workers :
          worker[v].operation = o => worker[v].pc \notin {"claimed", "rejected"}
    BY <2>1 DEF IInv, WorkerKnows, ProviderKnown, ProviderAgrees
  <2> HIDE DEF o
  <2>4. OneDispatcher' /\ WorkerKnows'
    BY <1>0, <2>1, <2>2, <2>3, WorkerMoves DEF Idle
  <2> QED
    BY <2>2, <2>4 DEF IInv
<1>10. CASE Abandon(w)
  BY <1>0, <1>10, SafeWorkerOnly DEF Abandon, Idle
<1> QED
  BY <1>1, <1>2, <1>3, <1>4, <1>5, <1>6, <1>7, <1>8, <1>9, <1>10 DEF WorkerStep

-----------------------------------------------------------------------------
(* Evidence and receipts.                                                  *)

LEMMA SafeObserve ==
    ASSUME IInv, TypeInv', Observe
    PROVE  IInv'
<1> USE DEF rowVars, providerVars
<1>1. ASSUME NEW o \in Operations, NEW kind \in Kinds, RecordEvidence(o, kind)
      PROVE  IInv'
  <2>1. TypeOK /\ operations[o].state \in OperationStates
    BY <1>1 DEF RecordEvidence, IInv, TypeInv, TypeOK
  <2>2. kind \in EvidenceKinds /\ targetByKind[kind] \in OperationStates
    BY KindsAssumption DEF EvidenceKinds, targetByKind, OperationStates
  <2>3. /\ NewEvent(targetByKind[kind], "none", kind) \in Event
        /\ NewEvent(targetByKind[kind], "none", kind).state = targetByKind[kind]
    BY <2>2, NewEventType DEF Reasons, NewEvent
  <2>4. /\ operations'[o].state = targetByKind[kind]
        /\ MayMove(operations[o].state, targetByKind[kind])
        /\ \A x \in Operations \ {o} : operations'[x].state = operations[x].state
    BY <1>1, <2>1, <2>3, AdvanceOneStates DEF RecordEvidence
  <2>5. operations[o].state \in AssignedStates /\ operations'[o].state \in AssignedStates
    BY <2>1, <2>2, <2>4, Moves
  <2>6. UNCHANGED <<snapshots, outbox, lapsed, reservations, assignments, worker,
                    provider, sends>>
    BY <1>1 DEF RecordEvidence
  <2>7. RowsCoherent'
    BY <2>4, <2>5, <2>6 DEF IInv, RowsCoherent, RowsAgree, AssignedStates
  <2>8. OneDispatcher'
    BY <2>6 DEF IInv, OneDispatcher, IsDispatching
  <2>9. WorkerKnows'
    BY <2>4, <2>5, <2>6 DEF IInv, WorkerKnows, AssignedStates
  <2>10. ProviderKnown'
    BY <2>4, <2>5, <2>6 DEF IInv, ProviderKnown, ProviderAgrees, AssignedStates
  <2> QED
    BY <2>7, <2>8, <2>9, <2>10 DEF IInv
<1>2. ASSUME NEW o \in Operations, IssueReceipt(o)
      PROVE  IInv'
  BY <1>2, SafeFrame DEF IssueReceipt
<1> QED
  BY <1>1, <1>2 DEF Observe

-----------------------------------------------------------------------------
(* The theorems.                                                           *)

(* Every step of deciders, time, workers, provider and observers keeps the *)
(* inductive invariant.                                                    *)
LEMMA Inductive == IInv /\ [Next]_vars => IInv'
<1> SUFFICES ASSUME IInv, [Next]_vars PROVE IInv'
  OBVIOUS
<1>1. TypeInv'
  BY TypeStep DEF IInv
<1>2. CASE Decide
  BY <1>1, <1>2, SafeDecide
<1>3. CASE TimePasses
  BY <1>1, <1>3, SafeTime
<1>4. ASSUME NEW w \in Workers, WorkerStep(w) PROVE IInv'
  BY <1>1, <1>4, SafeWorker
<1>5. CASE Observe
  BY <1>1, <1>5, SafeObserve
<1>6. CASE UNCHANGED vars
  BY <1>1, <1>6, SafeFrame DEF vars, rowVars, providerVars
<1> QED
  BY <1>2, <1>3, <1>4, <1>5, <1>6 DEF Next

LEMMA Invariance == Spec => []IInv
  BY SafeInit, Inductive, PTL DEF Spec

(* The rows of operations, outbox, leases, reservations and assignments    *)
(* agree after every transaction, whatever workers die in between.         *)
THEOREM RowsStayCoherent == Spec => []RowsCoherent
<1>1. IInv => RowsCoherent
  BY DEF IInv
<1> QED
  BY <1>1, Invariance, PTL

(* No operation is ever sent to the provider twice, however many workers   *)
(* run, leases expire and acknowledgements are lost.                       *)
THEOREM NeverSentTwice == Spec => []SentAtMostOnce
<1>1. IInv => SentAtMostOnce
  BY DEF IInv, ProviderKnown, ProviderAgrees, SentAtMostOnce
<1> QED
  BY <1>1, Invariance, PTL

(* What the database records as assigned the provider holds, and what it   *)
(* closed as cancelled or failed the provider does not hold.               *)
THEOREM ConclusionsStayTrue == Spec => []ConclusionsTrue
<1>1. IInv => ConclusionsTrue
  BY DEF IInv, TypeInv, TypeOK, ProviderKnown, ProviderAgrees, ConclusionsTrue
<1> QED
  BY <1>1, Invariance, PTL

(* A provider's definitive rejection can always be recorded, even if the   *)
(* worker's lease was recovered before the rejection reached it.           *)
THEOREM RejectionStaysRecordable == Spec => []RejectionRecordable
<1>1. IInv => RejectionRecordable
  <2> SUFFICES ASSUME IInv, NEW w \in Workers, worker[w].pc = "rejected"
               PROVE  /\ MayMove(operations[worker[w].operation].state, "failed")
                      /\ reservations[worker[w].operation] = "reserved"
    BY DEF RejectionRecordable
  <2> DEFINE o == worker[w].operation
  <2>1. o \in Operations
    BY DEF IInv, TypeInv, WorkersNamed
  <2>2. operations[o].state \in {"sending", "unknown"} /\ o \notin provider
    BY <2>1 DEF IInv, WorkerKnows
  <2>3. reservations[o] = "reserved"
    BY <2>1, <2>2 DEF IInv, TypeInv, TypeOK, RowsCoherent, RowsAgree, ProviderKnown,
                      ProviderAgrees, ReservationStates
  <2>4. MayMove(operations[o].state, "failed")
    BY <2>2, Moves DEF OperationStates
  <2> QED
    BY <2>3, <2>4
<1> QED
  BY <1>1, Invariance, PTL

(* A proposal never gets a second operation: the snapshot of an operation  *)
(* is written once, by the reserve call that finds the proposal without    *)
(* one, and every later reserve returns the first.                         *)
THEOREM OneOperationEver == Spec => []OneOperationPerProposal
<1>1. Init => OneOperationPerProposal
  BY DEF Init, OneOperationPerProposal
<1>2. TypeInv /\ OneOperationPerProposal /\ [Next]_vars => OneOperationPerProposal'
  <2> SUFFICES ASSUME TypeInv, OneOperationPerProposal, [Next]_vars
               PROVE  OneOperationPerProposal'
    OBVIOUS
  <2> USE DEF rowVars, OneOperationPerProposal
  <2>1. CASE Decide
    <3>1. ASSUME NEW u \in Users, NEW p \in Proposals, NEW o \in Operations,
                 ReserveNew(u, p, o)
          PROVE  OneOperationPerProposal'
      <4>1. \A x \in Operations : snapshots[x] # None => snapshots[x].proposal # p
        BY <3>1 DEF ReserveNew, HasOperation
      <4>2. \A x \in Operations \ {o} : snapshots'[x] = snapshots[x]
        BY <3>1 DEF ReserveNew, TypeInv, TypeOK
      <4>3. snapshots'[o].proposal = p
        BY <3>1 DEF ReserveNew, TypeInv, TypeOK
      <4> QED
        BY <4>1, <4>2, <4>3
    <3>2. CASE UNCHANGED snapshots
      BY <3>2
    <3> QED
      BY <2>1, <3>1, <3>2
         DEF Decide, PrepareDecisionInputs, Approve, RevokeApproval, RevokeCapability,
             RevokePrincipal, ReserveReplay
  <2>2. CASE TimePasses
    BY <2>2 DEF TimePasses, ProposalExpires, PrincipalLapses, LeaseExpires
  <2>3. ASSUME NEW w \in Workers, WorkerStep(w) PROVE OneOperationPerProposal'
    <3>1. UNCHANGED snapshots
      BY <2>3
         DEF WorkerStep, Claim, ClaimCurrent, ClaimStale, ClaimNothing, SendStep,
             SendAccepted, SendAckLost, SendFails, SendRejected, Send,
             CompleteAssignment, RecordAssignment, CompleteFails, MarkUnknown,
             MarkFailed, ReadForReconciliation, Lookup, CompleteReconciliation, Abandon
    <3> QED
      BY <3>1
  <2>4. CASE Observe
    BY <2>4 DEF Observe, RecordEvidence, IssueReceipt
  <2>5. CASE UNCHANGED vars
    BY <2>5 DEF vars
  <2> QED
    BY <2>1, <2>2, <2>3, <2>4, <2>5 DEF Next
<1> QED
  BY <1>1, <1>2, TypeInit, TypeStep, PTL DEF Spec
-----------------------------------------------------------------------------
(* The trail. Whatever a step does to an operation, it leaves its row and  *)
(* its events alone, creates them, or advances both by one event.          *)

Keeps(o) == operations'[o] = operations[o] /\ events'[o] = events[o]

Creates(o) ==
    /\ snapshots[o] = None
    /\ operations'[o] = [state |-> "reserved", revision |-> 0]
    /\ events'[o] = <<NewEvent("reserved", "none", "none")>>

Advances(o, event) ==
    /\ operations[o].state \in OperationStates
    /\ event.state # "reserved"
    /\ MayMove(operations[o].state, event.state)
    /\ event.evidence # "none" => event.state = targetByKind[event.evidence]
    /\ operations'[o] = [state    |-> event.state,
                         revision |-> operations[o].revision + 1]
    /\ events'[o] = Append(events[o], event)

Trails(o) == Keeps(o) \/ Creates(o) \/ \E event \in Event : Advances(o, event)

LEMMA AdvanceOneTrails ==
    ASSUME TypeOK, NEW o \in Operations, NEW event \in Event, AdvanceOne(o, event),
           operations[o].state \in OperationStates, event.state # "reserved",
           event.evidence # "none" => event.state = targetByKind[event.evidence]
    PROVE  \A x \in Operations : Trails(x)
<1> DEFINE next == [x \in Operations |-> IF x = o THEN event ELSE None]
<1>1. next[o] = event /\ event # None /\ \A x \in Operations \ {o} : next[x] = None
  BY NoneAssumption
<1>2. Advance(next)
  BY DEF AdvanceOne
<1> HIDE DEF next
<1>3. Advances(o, event)
  BY <1>1, <1>2 DEF Advance, Advances
<1>4. \A x \in Operations \ {o} : Keeps(x)
  BY <1>1, <1>2 DEF Advance, Keeps
<1> QED
  BY <1>3, <1>4 DEF Trails

(* What the workers write carries no evidence.                             *)
LEMMA WorkerEventsBlank ==
    /\ LeaseExpired.evidence = "none" /\ LeaseExpired.state = "unknown"
    /\ Sending.evidence = "none" /\ Sending.state = "sending"
    /\ Cancelled.evidence = "none" /\ Cancelled.state = "cancelled"
  BY DEF LeaseExpired, Sending, Cancelled, NewEvent

(* A claim creates nothing and advances each operation it touches by one.  *)
LEMMA ClaimRowTrails ==
    ASSUME TypeOK, RowsCoherent, NEW o \in Operations,
           NEW recovered \in SUBSET lapsed,
           NEW event \in {Sending, Cancelled}, NEW state, outbox[o] = "pending",
           ClaimRow(o, recovered, event, state)
    PROVE  \A x \in Operations : Trails(x)
<1> DEFINE next == [x \in Operations |->
              CASE x \in recovered -> LeaseExpired
                [] x = o           -> event
                [] OTHER           -> None]
<1>1. /\ o \notin lapsed /\ operations[o].state = "reserved"
      /\ \A x \in recovered : x \in Operations /\ operations[x].state = "sending"
  BY DEF RowsCoherent, RowsAgree, TypeOK
<1>2. Advance(next)
  BY DEF ClaimRow
<1>3. /\ next[o] = event /\ event # None /\ event \in Event
      /\ \A x \in recovered : next[x] = LeaseExpired
      /\ LeaseExpired # None /\ LeaseExpired \in Event
      /\ \A x \in Operations \ (recovered \cup {o}) : next[x] = None
  BY <1>1, NoneAssumption, WorkerEventTypes
<1> HIDE DEF next
<1>4. event.evidence = "none" /\ event.state \in {"sending", "cancelled"}
  BY WorkerEventsBlank
<1>5. Advances(o, event)
  BY <1>1, <1>2, <1>3, <1>4 DEF Advance, Advances, OperationStates
<1>6. \A x \in recovered : Advances(x, LeaseExpired)
  BY <1>1, <1>2, <1>3, WorkerEventsBlank DEF Advance, Advances, OperationStates
<1>7. \A x \in Operations \ (recovered \cup {o}) : Keeps(x)
  BY <1>2, <1>3 DEF Advance, Keeps
<1> QED
  BY <1>3, <1>5, <1>6, <1>7 DEF Trails

(* No stretch of a worker adds more than one event to a trail.             *)
LEMMA WorkerTrails ==
    ASSUME IInv, NEW w \in Workers, WorkerStep(w)
    PROVE  \A x \in Operations : Trails(x)
<1> USE DEF rowVars
<1> DEFINE o == worker[w].operation
<1>0. TypeOK /\ RowsCoherent
  BY DEF IInv, TypeInv
<1>1. ASSUME UNCHANGED rowVars PROVE \A x \in Operations : Trails(x)
  BY <1>1 DEF Trails, Keeps
<1>2. ASSUME NEW x \in Operations, ClaimCurrent(w, x)
      PROVE  \A y \in Operations : Trails(y)
  BY <1>0, <1>2, ClaimRowTrails DEF ClaimCurrent
<1>3. ASSUME NEW x \in Operations, ClaimStale(w, x)
      PROVE  \A y \in Operations : Trails(y)
  BY <1>0, <1>3, ClaimRowTrails DEF ClaimStale
<1>4. CASE ClaimNothing(w)
  <2>1. PICK x \in lapsed : AdvanceOne(x, LeaseExpired)
    BY <1>4 DEF ClaimNothing
  <2>2. x \in Operations /\ operations[x].state = "sending"
    BY <1>0 DEF RowsCoherent, RowsAgree, TypeOK
  <2> QED
    BY <1>0, <2>1, <2>2, AdvanceOneTrails, WorkerEventTypes, WorkerEventsBlank
       DEF OperationStates
<1>5. ASSUME NEW target \in {"accepted", "assignment_reconciled"},
             NEW expected \in {"sending", "unknown"}, o \in Operations,
             RecordAssignment(o, expected, target)
      PROVE  \A x \in Operations : Trails(x)
  <2>1. /\ NewEvent(target, "none", "none") \in Event
        /\ NewEvent(target, "none", "none").evidence = "none"
        /\ NewEvent(target, "none", "none").state = target
    BY WorkerEventTypes DEF NewEvent
  <2>2. /\ operations[o].state \in OperationStates
        /\ AdvanceOne(o, NewEvent(target, "none", "none"))
    BY <1>5 DEF RecordAssignment, OperationStates
  <2> HIDE DEF o
  <2> QED
    BY <1>0, <1>5, <2>1, <2>2, AdvanceOneTrails
<1>6. CASE CompleteAssignment(w)
  BY <1>5, <1>6 DEF CompleteAssignment, IInv, TypeInv, WorkersNamed
<1>7. CASE CompleteReconciliation(w)
  BY <1>5, <1>7 DEF CompleteReconciliation, IInv, TypeInv, WorkersNamed
<1>8. CASE MarkUnknown(w) \/ MarkFailed(w)
  <2>1. o \in Operations /\ operations[o].state \in OperationStates
    BY <1>8 DEF MarkUnknown, MarkFailed, IInv, TypeInv, TypeOK, WorkersNamed,
                WorkerKnows, DispatchPCs
  <2>2. CASE ~UNCHANGED rowVars
    <3>1. PICK event \in {NewEvent("unknown", "acknowledgement_lost", "none"),
                          NewEvent("unknown", "connector_result_unknown", "none"),
                          NewEvent("failed", "connector_rejected", "none")} :
             AdvanceOne(o, event)
      BY <1>8, <2>2 DEF MarkUnknown, MarkFailed
    <3>2. event \in Event /\ event.evidence = "none" /\ event.state # "reserved"
      BY WorkerEventTypes DEF NewEvent
    <3> HIDE DEF o
    <3> QED
      BY <1>0, <2>1, <3>1, <3>2, AdvanceOneTrails
  <2> QED
    BY <1>1, <2>2
<1>9. CASE SendStep(w)
  BY <1>1, <1>9 DEF SendStep, SendAccepted, SendAckLost, SendFails, SendRejected, Send
<1>10. CASE CompleteFails(w) \/ Lookup(w) \/ Abandon(w)
  BY <1>1, <1>10 DEF CompleteFails, Lookup, Abandon
<1>11. ASSUME NEW x \in Operations, ReadForReconciliation(w, x)
      PROVE  \A y \in Operations : Trails(y)
  BY <1>1, <1>11 DEF ReadForReconciliation
<1> QED
  BY <1>2, <1>3, <1>4, <1>6, <1>7, <1>8, <1>9, <1>10, <1>11 DEF WorkerStep, Claim

(* Every step keeps, creates or advances the trail of each operation.      *)
LEMMA StepTrails ==
    ASSUME IInv, [Next]_vars
    PROVE  \A x \in Operations : Trails(x)
<1> USE DEF rowVars
<1>0. TypeOK
  BY DEF IInv, TypeInv
<1>1. ASSUME UNCHANGED <<operations, events>> PROVE \A x \in Operations : Trails(x)
  BY <1>1 DEF Trails, Keeps
<1>2. CASE Decide
  <2>1. ASSUME NEW u \in Users, NEW p \in Proposals, NEW o \in Operations,
               ReserveNew(u, p, o)
        PROVE  \A x \in Operations : Trails(x)
    <3>1. Creates(o)
      BY <1>0, <2>1 DEF ReserveNew, Creates, TypeOK
    <3>2. \A x \in Operations \ {o} : Keeps(x)
      BY <1>0, <2>1 DEF ReserveNew, Keeps, TypeOK
    <3> QED
      BY <3>1, <3>2 DEF Trails
  <2> QED
    BY <1>1, <1>2, <2>1
       DEF Decide, PrepareDecisionInputs, Approve, RevokeApproval, RevokeCapability,
           RevokePrincipal, ReserveReplay
<1>3. CASE TimePasses
  BY <1>1, <1>3 DEF TimePasses, ProposalExpires, PrincipalLapses, LeaseExpires
<1>4. ASSUME NEW w \in Workers, WorkerStep(w) PROVE \A x \in Operations : Trails(x)
  BY <1>4, WorkerTrails
<1>5. CASE Observe
  <2>1. ASSUME NEW o \in Operations, NEW kind \in Kinds, RecordEvidence(o, kind)
        PROVE  \A x \in Operations : Trails(x)
    <3>1. kind \in EvidenceKinds /\ targetByKind[kind] \in OperationStates \ {"reserved"}
      BY KindsAssumption DEF EvidenceKinds, targetByKind, OperationStates
    <3>2. /\ NewEvent(targetByKind[kind], "none", kind) \in Event
          /\ NewEvent(targetByKind[kind], "none", kind).state = targetByKind[kind]
          /\ NewEvent(targetByKind[kind], "none", kind).evidence = kind
      BY <3>1, NewEventType DEF Reasons, NewEvent
    <3>3. /\ operations[o].state \in OperationStates
          /\ AdvanceOne(o, NewEvent(targetByKind[kind], "none", kind))
      BY <1>0, <2>1 DEF RecordEvidence, TypeOK
    <3> QED
      BY <1>0, <3>1, <3>2, <3>3, AdvanceOneTrails
  <2>2. ASSUME NEW o \in Operations, IssueReceipt(o)
        PROVE  \A x \in Operations : Trails(x)
    BY <1>1, <2>2 DEF IssueReceipt
  <2> QED
    BY <1>5, <2>1, <2>2 DEF Observe
<1>6. CASE UNCHANGED vars
  BY <1>1, <1>6 DEF vars
<1> QED
  BY <1>2, <1>3, <1>4, <1>5, <1>6 DEF Next
-----------------------------------------------------------------------------
(* The record: one event per revision, and receipts that stay true.        *)

(* What does not exist has left no record.                                 *)
NoRecordOfAbsent ==
    \A o \in Operations :
      operations[o].state = "absent" =>
        operations[o].revision = 0 /\ events[o] = <<>> /\ receipts[o] = {}

RecordInv == TrailComplete /\ ReceiptsTrue /\ NoRecordOfAbsent

(* The receipts of an operation change only where one is issued for it.    *)
LEMMA ReceiptStep ==
    ASSUME IInv, [Next]_vars, NEW o \in Operations
    PROVE  \/ receipts'[o] = receipts[o]
           \/ IssueReceipt(o)
<1> USE DEF rowVars, IInv, TypeInv, TypeOK
<1>1. ASSUME NEW x \in Operations, IssueReceipt(x)
      PROVE  receipts'[o] = receipts[o] \/ IssueReceipt(o)
  BY <1>1 DEF IssueReceipt
<1>2. CASE UNCHANGED receipts
  BY <1>2
<1>3. CASE ~ \E x \in Operations : IssueReceipt(x)
  BY <1>2, <1>3
     DEF Next, vars, Decide, PrepareDecisionInputs, Approve, RevokeApproval,
         RevokeCapability, RevokePrincipal, ReserveNew, ReserveReplay, TimePasses,
         ProposalExpires, PrincipalLapses, LeaseExpires, WorkerStep, Claim,
         ClaimCurrent, ClaimStale, ClaimNothing, SendStep, SendAccepted, SendAckLost,
         SendFails, SendRejected, Send, CompleteAssignment, RecordAssignment,
         CompleteFails, MarkUnknown, MarkFailed, ReadForReconciliation, Lookup,
         CompleteReconciliation, Abandon, Observe, RecordEvidence
<1> QED
  BY <1>1, <1>3

(* A step adds at most one event to what is there.                         *)
LEMMA TrailGrows ==
    ASSUME TypeOK, RowsCoherent, NoRecordOfAbsent, NEW o \in Operations, Trails(o)
    PROVE  /\ Len(events[o]) <= Len(events'[o])
           /\ \A i \in 1..Len(events[o]) : events'[o][i] = events[o][i]
           /\ operations[o].revision <= operations'[o].revision
<1>0. events[o] \in Seq(Event) /\ operations[o].revision \in Nat
  BY DEF TypeOK
<1>1. CASE Keeps(o)
  BY <1>0, <1>1 DEF Keeps
<1>2. CASE Creates(o)
  <2>1. operations[o].revision = 0 /\ events[o] = <<>>
    BY <1>2 DEF Creates, RowsCoherent, RowsAgree, NoRecordOfAbsent
  <2>2. Len(events[o]) = 0 /\ Len(events'[o]) = 1 /\ operations'[o].revision = 0
    BY <1>2, <2>1 DEF Creates
  <2> QED
    BY <2>1, <2>2
<1>3. ASSUME NEW event \in Event, Advances(o, event)
      PROVE  /\ Len(events[o]) <= Len(events'[o])
             /\ \A i \in 1..Len(events[o]) : events'[o][i] = events[o][i]
             /\ operations[o].revision <= operations'[o].revision
  <2>1. events'[o] = Append(events[o], event)
    BY <1>3 DEF Advances
  <2>2. operations'[o].revision = operations[o].revision + 1
    BY <1>3 DEF Advances
  <2> QED
    BY <1>0, <2>1, <2>2
<1> QED
  BY <1>1, <1>2, <1>3 DEF Trails

(* At first there is nothing on record.                                    *)
LEMMA RecordInit == Init => RecordInv
  BY DEF Init, RecordInv, TrailComplete, ReceiptsTrue, NoRecordOfAbsent

(* Row and trail stay in step, transaction by transaction.                 *)
LEMMA TrailStep ==
    ASSUME IInv, RecordInv, NEW o \in Operations, Trails(o),
           operations'[o].state # "absent"
    PROVE  /\ Len(events'[o]) = operations'[o].revision + 1
           /\ events'[o][Len(events'[o])].state = operations'[o].state
           /\ \A i \in 1..(Len(events'[o]) - 1) :
                MayMove(events'[o][i].state, events'[o][i + 1].state)
<1>0. events[o] \in Seq(Event) /\ operations[o].revision \in Nat
  BY DEF IInv, TypeInv, TypeOK
<1>1. CASE Keeps(o)
  BY <1>1 DEF Keeps, RecordInv, TrailComplete
<1>2. CASE Creates(o)
  BY <1>2 DEF Creates, NewEvent
<1>3. ASSUME NEW event \in Event, Advances(o, event)
      PROVE  /\ Len(events'[o]) = operations'[o].revision + 1
             /\ events'[o][Len(events'[o])].state = operations'[o].state
             /\ \A i \in 1..(Len(events'[o]) - 1) :
                  MayMove(events'[o][i].state, events'[o][i + 1].state)
  <2>1. /\ events'[o] = Append(events[o], event)
        /\ operations'[o].revision = operations[o].revision + 1
        /\ operations'[o].state = event.state
        /\ MayMove(operations[o].state, event.state)
        /\ operations[o].state # "absent"
    BY <1>3 DEF Advances, OperationStates
  <2>2. /\ Len(events[o]) = operations[o].revision + 1
        /\ events[o][Len(events[o])].state = operations[o].state
        /\ \A i \in 1..(Len(events[o]) - 1) :
             MayMove(events[o][i].state, events[o][i + 1].state)
    BY <2>1 DEF RecordInv, TrailComplete
  <2>3. /\ Len(events'[o]) = Len(events[o]) + 1
        /\ events'[o][Len(events[o]) + 1] = event
        /\ \A i \in 1..Len(events[o]) : events'[o][i] = events[o][i]
    BY <1>0, <2>1
  <2>4. ASSUME NEW i \in 1..(Len(events'[o]) - 1)
        PROVE  MayMove(events'[o][i].state, events'[o][i + 1].state)
    <3>1. CASE i = Len(events[o])
      BY <1>0, <2>1, <2>2, <2>3, <3>1
    <3>2. CASE i # Len(events[o])
      <4>1. i \in 1..(Len(events[o]) - 1) /\ i + 1 \in 1..Len(events[o])
            /\ i \in 1..Len(events[o])
        BY <1>0, <2>3, <3>2
      <4> QED
        BY <2>2, <2>3, <4>1
    <3> QED
      BY <3>1, <3>2
  <2> QED
    BY <1>0, <2>1, <2>2, <2>3, <2>4
<1> QED
  BY <1>1, <1>2, <1>3 DEF Trails

(* A receipt that was true stays true: the events it speaks of stay.       *)
LEMMA ReceiptStays ==
    ASSUME IInv, TypeOK', RecordInv, NEW o \in Operations, Trails(o),
           NEW r \in receipts[o]
    PROVE  /\ r.revision <= operations'[o].revision
           /\ events'[o][r.revision + 1].state = r.state
           /\ events'[o][r.revision + 1].reason = r.reason
           /\ r.evidence = EvidenceUpTo(o, r.revision)'
<1>1. /\ TypeOK /\ RowsCoherent /\ NoRecordOfAbsent
      /\ events[o] \in Seq(Event) /\ operations[o].revision \in Nat
      /\ r.revision \in Nat
  BY DEF IInv, TypeInv, TypeOK, RecordInv, Receipt
<1>2. operations[o].state # "absent"
  BY DEF RecordInv, NoRecordOfAbsent
<1>3. /\ r.revision <= operations[o].revision
      /\ events[o][r.revision + 1].state = r.state
      /\ events[o][r.revision + 1].reason = r.reason
      /\ r.evidence = EvidenceUpTo(o, r.revision)
  BY DEF RecordInv, ReceiptsTrue
<1>4. Len(events[o]) = operations[o].revision + 1
  BY <1>2 DEF RecordInv, TrailComplete
<1>5. /\ operations[o].revision <= operations'[o].revision
      /\ operations'[o].revision \in Nat
      /\ \A i \in 1..(r.revision + 1) : events'[o][i] = events[o][i]
  <2>1. /\ \A i \in 1..Len(events[o]) : events'[o][i] = events[o][i]
        /\ operations[o].revision <= operations'[o].revision
    BY <1>1, <1>2, TrailGrows
  <2>2. \A i \in 1..(r.revision + 1) : i \in 1..Len(events[o])
    BY <1>1, <1>3, <1>4
  <2>3. operations'[o].revision \in Nat
    BY DEF TypeOK
  <2> QED
    BY <2>1, <2>2, <2>3
<1>6. r.revision <= operations'[o].revision
  BY <1>1, <1>3, <1>5
<1>7. events'[o][r.revision + 1] = events[o][r.revision + 1]
  BY <1>1, <1>5
<1>8. EvidenceUpTo(o, r.revision)' = EvidenceUpTo(o, r.revision)
  BY <1>5 DEF EvidenceUpTo
<1> QED
  BY <1>3, <1>6, <1>7, <1>8

(* The record is kept by every step.                                       *)
LEMMA RecordStep == IInv /\ RecordInv /\ [Next]_vars => RecordInv'
<1> SUFFICES ASSUME IInv, RecordInv, [Next]_vars PROVE RecordInv'
  OBVIOUS
<1>1. TypeOK' /\ \A o \in Operations : Trails(o)
  BY StepTrails, TypeStep DEF IInv, TypeInv
<1>2. TrailComplete'
  BY <1>1, TrailStep DEF TrailComplete
<1>3. ReceiptsTrue'
  <2> SUFFICES ASSUME NEW o \in Operations, NEW r \in receipts'[o]
               PROVE  /\ r.revision <= operations'[o].revision
                      /\ events'[o][r.revision + 1].state = r.state
                      /\ events'[o][r.revision + 1].reason = r.reason
                      /\ r.evidence = EvidenceUpTo(o, r.revision)'
    BY DEF ReceiptsTrue
  <2>1. CASE r \in receipts[o]
    BY <1>1, <2>1, ReceiptStays
  <2>2. CASE r \notin receipts[o]
    <3>1. IssueReceipt(o)
      BY <2>2, ReceiptStep
    <3>2. r = [revision |-> operations[o].revision, state |-> operations[o].state,
               reason |-> events[o][operations[o].revision + 1].reason,
               evidence |-> EvidenceUpTo(o, operations[o].revision)]
      BY <2>2, <3>1 DEF IssueReceipt, IInv, TypeInv, TypeOK
    <3>3. UNCHANGED <<operations, events>>
      BY <3>1 DEF IssueReceipt, rowVars
    <3>4. /\ events[o][operations[o].revision + 1].state = operations[o].state
          /\ operations[o].revision \in Nat
      BY <3>1 DEF IssueReceipt, ReceiptBinds, IInv, TypeInv, TypeOK
    <3> QED
      BY <3>2, <3>3, <3>4 DEF EvidenceUpTo
  <2> QED
    BY <2>1, <2>2
<1>4. NoRecordOfAbsent'
  <2> SUFFICES ASSUME NEW o \in Operations, operations'[o].state = "absent"
               PROVE  /\ operations'[o].revision = 0
                      /\ events'[o] = <<>> /\ receipts'[o] = {}
    BY DEF NoRecordOfAbsent
  <2>1. Keeps(o)
    <3>1. ~Creates(o)
      BY DEF Creates
    <3>2. ASSUME NEW event \in Event PROVE ~Advances(o, event)
      BY DEF Advances, Event, OperationStates
    <3> QED
      BY <1>1, <3>1, <3>2 DEF Trails
  <2>2. ~IssueReceipt(o)
    BY <2>1 DEF IssueReceipt, ReceiptBinds, Keeps
  <2> QED
    BY <2>1, <2>2, ReceiptStep DEF Keeps, RecordInv, NoRecordOfAbsent
<1> QED
  BY <1>2, <1>3, <1>4 DEF RecordInv

(* The trail of every operation is complete and every receipt stays true,  *)
(* whatever COMMITs are lost and whoever comes late.                       *)
THEOREM RecordsStayTrue == Spec => []RecordTrue
<1>1. RecordInv => RecordTrue
  BY DEF RecordInv, RecordTrue
<1> QED
  BY <1>1, RecordInit, RecordStep, Invariance, PTL DEF Spec
-----------------------------------------------------------------------------
(* What is recorded is not unrecorded.                                     *)

(* Assignments, snapshots and what the provider holds are never deleted.   *)
LEMMA RowsGrow ==
    ASSUME IInv, [Next]_vars
    PROVE  /\ assignments \subseteq assignments'
           /\ provider \subseteq provider'
           /\ \A o \in Operations :
                snapshots[o] # None => snapshots'[o] = snapshots[o]
<1> USE DEF rowVars, providerVars, decisionVars
<1>1. CASE UNCHANGED <<assignments, provider, snapshots>>
  BY <1>1
<1>2. CASE Decide
  <2>1. ASSUME NEW u \in Users, NEW p \in Proposals, NEW o \in Operations,
               ReserveNew(u, p, o)
        PROVE  /\ UNCHANGED <<assignments, provider>>
               /\ \A x \in Operations :
                    snapshots[x] # None => snapshots'[x] = snapshots[x]
    BY <2>1 DEF ReserveNew, IInv, TypeInv, TypeOK
  <2> QED
    BY <1>1, <1>2, <2>1
       DEF Decide, PrepareDecisionInputs, Approve, RevokeApproval, RevokeCapability,
           RevokePrincipal, ReserveReplay
<1>3. CASE TimePasses
  BY <1>1, <1>3 DEF TimePasses, ProposalExpires, PrincipalLapses, LeaseExpires
<1>4. ASSUME NEW w \in Workers, WorkerStep(w)
      PROVE  /\ assignments \subseteq assignments' /\ provider \subseteq provider'
             /\ UNCHANGED snapshots
  BY <1>4
     DEF WorkerStep, Claim, ClaimCurrent, ClaimStale, ClaimNothing, SendStep,
         SendAccepted, SendAckLost, SendFails, SendRejected, Send,
         CompleteAssignment, RecordAssignment, CompleteFails, MarkUnknown,
         MarkFailed, ReadForReconciliation, Lookup, CompleteReconciliation, Abandon
<1>5. CASE Observe
  BY <1>1, <1>5 DEF Observe, RecordEvidence, IssueReceipt
<1>6. CASE UNCHANGED vars
  BY <1>1, <1>6 DEF vars
<1> QED
  BY <1>2, <1>3, <1>4, <1>5, <1>6 DEF Next

(* Nothing but the claim of a reserved operation leads to sending.         *)
LEMMA MovesToSending ==
    ASSUME NEW from \in OperationStates, MayMove(from, "sending")
    PROVE  from = "reserved"
  BY DEF MayMove, lifecycleTransitions, triggerTransitions, OperationStates

(* A trail that grows by one event keeps what it had.                      *)
LEMMA PrefixStays ==
    ASSUME NEW s \in Seq(Event), NEW t \in Seq(Event), Len(s) <= Len(t),
           \A i \in 1..Len(s) : t[i] = s[i]
    PROVE  SubSeq(t, 1, Len(s)) = s
  OBVIOUS

(* No step takes back an event, a snapshot or an assignment, and none puts *)
(* an operation back to where it could be sent from.                       *)
THEOREM NothingIsForgotten == Spec => NothingForgotten
<1> DEFINE Grows == /\ assignments \subseteq assignments'
                    /\ provider \subseteq provider'
                    /\ \A o \in Operations :
                         /\ operations[o].revision <= operations'[o].revision
                         /\ SubSeq(events'[o], 1, Len(events[o])) = events[o]
                         /\ snapshots[o] # None => snapshots'[o] = snapshots[o]
                         /\ operations[o].state \notin {"reserved", "sending"}
                              => operations'[o].state # "sending"
           Known == IInv /\ RecordInv
<1>1. Known /\ [Next]_vars => Grows
  <2> SUFFICES ASSUME Known, [Next]_vars, NEW o \in Operations
               PROVE  /\ operations[o].revision <= operations'[o].revision
                      /\ SubSeq(events'[o], 1, Len(events[o])) = events[o]
                      /\ operations[o].state \notin {"reserved", "sending"}
                           => operations'[o].state # "sending"
    BY RowsGrow
  <2>1. /\ Trails(o) /\ TypeOK /\ TypeOK' /\ RowsCoherent /\ NoRecordOfAbsent
    BY StepTrails, TypeStep DEF IInv, TypeInv, RecordInv
  <2>2. /\ events[o] \in Seq(Event) /\ events'[o] \in Seq(Event)
        /\ operations[o].revision \in Nat /\ operations'[o].revision \in Nat
    BY <2>1 DEF TypeOK
  <2>3. /\ Len(events[o]) <= Len(events'[o])
        /\ \A i \in 1..Len(events[o]) : events'[o][i] = events[o][i]
        /\ operations[o].revision <= operations'[o].revision
    BY <2>1, TrailGrows
  <2>4. SubSeq(events'[o], 1, Len(events[o])) = events[o]
    BY <2>2, <2>3, PrefixStays
  <2>5. ASSUME operations[o].state \notin {"reserved", "sending"}
        PROVE  operations'[o].state # "sending"
    <3>1. CASE Keeps(o)
      BY <2>5, <3>1 DEF Keeps
    <3>2. CASE Creates(o)
      BY <3>2 DEF Creates
    <3>3. ASSUME NEW event \in Event, Advances(o, event)
          PROVE  operations'[o].state # "sending"
      BY <2>5, <3>3, MovesToSending DEF Advances
    <3> QED
      BY <2>1, <3>1, <3>2, <3>3 DEF Trails
  <2> QED
    BY <2>3, <2>4, <2>5
<1>2. Spec => []Known
  BY RecordInit, RecordStep, SafeInit, Inductive, PTL DEF Spec
<1>3. Known /\ [Next]_vars => [Grows]_vars
  BY <1>1
<1> QED
  BY <1>2, <1>3, PTL DEF Spec, NothingForgotten
-----------------------------------------------------------------------------
(* Evidence. The code's moves climb: an operation enters a state once.     *)

rank == [reserved |-> 1, sending |-> 2, accepted |-> 3, unknown |-> 4,
         assignment_reconciled |-> 5, driver_reported |-> 6,
         supporting_evidence_received |-> 7, evidence_reconciled |-> 8,
         customer_confirmed |-> 9, disputed |-> 10, reopened |-> 11,
         cancelled |-> 12, failed |-> 13]

(* Every move that code and trigger both allow goes up in rank.            *)
LEMMA MovesClimb ==
    ASSUME NEW from \in OperationStates, NEW to \in OperationStates \ {"reserved"},
           MayMove(from, to)
    PROVE  rank[from] < rank[to]
  BY DEF MayMove, lifecycleTransitions, triggerTransitions, OperationStates, rank

LEMMA RankType == \A state \in OperationStates : rank[state] \in Nat
  BY DEF OperationStates, rank

(* Every event leads higher than the ones before it; an event that bears   *)
(* evidence leads to that evidence's state, and its operation is assigned. *)
EvidenceInv ==
    \A o \in Operations : \A i \in 1..Len(events[o]) :
      /\ \A j \in 1..Len(events[o]) :
           i < j => rank[events[o][i].state] < rank[events[o][j].state]
      /\ events[o][i].evidence # "none" =>
           /\ events[o][i].state = targetByKind[events[o][i].evidence]
           /\ o \in assignments

(* States along a trail rise, so no kind of evidence occurs twice.         *)
LEMMA EvidenceStep == IInv /\ RecordInv /\ EvidenceInv /\ [Next]_vars => EvidenceInv'
<1> SUFFICES ASSUME IInv, RecordInv, EvidenceInv, [Next]_vars, NEW o \in Operations
             PROVE  \A i \in 1..Len(events'[o]) :
                      /\ \A j \in 1..Len(events'[o]) :
                           i < j => rank[events'[o][i].state] < rank[events'[o][j].state]
                      /\ events'[o][i].evidence # "none" =>
                           /\ events'[o][i].state = targetByKind[events'[o][i].evidence]
                           /\ o \in assignments'
  BY DEF EvidenceInv
<1>1. /\ Trails(o) /\ TypeOK /\ assignments \subseteq assignments'
      /\ events[o] \in Seq(Event)
  BY StepTrails, RowsGrow DEF IInv, TypeInv, TypeOK
<1>2. CASE Keeps(o)
  BY <1>1, <1>2 DEF Keeps, EvidenceInv
<1>3. CASE Creates(o)
  BY <1>3 DEF Creates, NewEvent
<1>4. ASSUME NEW event \in Event, Advances(o, event)
      PROVE  \A i \in 1..Len(events'[o]) :
               /\ \A j \in 1..Len(events'[o]) :
                    i < j => rank[events'[o][i].state] < rank[events'[o][j].state]
               /\ events'[o][i].evidence # "none" =>
                    /\ events'[o][i].state = targetByKind[events'[o][i].evidence]
                    /\ o \in assignments'
  <2> DEFINE n == Len(events[o])
  <2>1. /\ n \in Nat /\ Len(events'[o]) = n + 1 /\ events'[o][n + 1] = event
        /\ \A i \in 1..n : events'[o][i] = events[o][i] /\ events[o][i] \in Event
    BY <1>1, <1>4 DEF Advances
  <2>2. /\ operations[o].state \in OperationStates
        /\ event.state \in OperationStates \ {"reserved"}
        /\ MayMove(operations[o].state, event.state)
        /\ event.evidence # "none" => event.state = targetByKind[event.evidence]
        /\ event.evidence \in EvidenceKinds \cup {"none"}
    BY <1>4 DEF Advances, Event
  <2>3. n \in 1..n /\ events[o][n].state = operations[o].state
    BY <1>1, <2>1, <2>2 DEF RecordInv, TrailComplete, OperationStates, TypeOK
  <2>4. rank[operations[o].state] < rank[event.state]
    BY <2>2, MovesClimb
  <2>5. event.evidence # "none" => o \in assignments
    <3>1. event.evidence # "none" => operations[o].state \in AssignedStates
      BY <2>2, Moves
    <3> QED
      BY <3>1 DEF IInv, RowsCoherent, RowsAgree
  <2>6. ASSUME NEW i \in 1..n PROVE rank[events[o][i].state] < rank[event.state]
    <3>1. /\ rank[events[o][i].state] \in Nat /\ rank[event.state] \in Nat
          /\ rank[operations[o].state] \in Nat
      BY <2>1, <2>2, RankType DEF Event
    <3>2. i = n \/ i < n
      BY <2>1
    <3>3. CASE i < n
      BY <2>3, <2>4, <3>1, <3>3 DEF EvidenceInv
    <3> QED
      BY <2>3, <2>4, <3>2, <3>3
  <2>7. ASSUME NEW i \in 1..(n + 1), NEW j \in 1..(n + 1), i < j
        PROVE  rank[events'[o][i].state] < rank[events'[o][j].state]
    <3>1. i \in 1..n /\ (j = n + 1 \/ j \in 1..n)
      BY <2>1, <2>7
    <3>2. CASE j \in 1..n
      BY <2>1, <2>7, <3>1, <3>2 DEF EvidenceInv
    <3> QED
      BY <2>1, <2>6, <3>1, <3>2
  <2>8. ASSUME NEW i \in 1..(n + 1), events'[o][i].evidence # "none"
        PROVE  /\ events'[o][i].state = targetByKind[events'[o][i].evidence]
               /\ o \in assignments'
    <3>1. i = n + 1 \/ i \in 1..n
      BY <2>1
    <3>2. CASE i \in 1..n
      BY <1>1, <2>1, <2>8, <3>2 DEF EvidenceInv
    <3> QED
      BY <1>1, <2>1, <2>2, <2>5, <2>8, <3>1, <3>2
  <2> HIDE DEF n
  <2> QED
    BY <2>1, <2>7, <2>8
<1> QED
  BY <1>1, <1>2, <1>3, <1>4 DEF Trails

(* Nothing is reported of an operation before its assignment is on record, *)
(* and each kind of evidence is used once.                                 *)
THEOREM EvidenceComesAfter == Spec => []EvidenceFollowsAssignment
<1>1. Init => EvidenceInv
  BY DEF Init, EvidenceInv
<1>2. IInv /\ EvidenceInv => EvidenceFollowsAssignment
  <2> SUFFICES ASSUME IInv, EvidenceInv, NEW o \in Operations,
                      EvidenceUpTo(o, Len(events[o]) - 1) # {}
               PROVE  /\ o \in assignments
                      /\ \A i, j \in 1..Len(events[o]) :
                           events[o][i].evidence = events[o][j].evidence
                             => i = j \/ events[o][i].evidence = "none"
    BY DEF EvidenceFollowsAssignment
  <2>1. events[o] \in Seq(Event) /\ Len(events[o]) \in Nat
    BY DEF IInv, TypeInv, TypeOK
  <2>2. PICK i \in 1..((Len(events[o]) - 1) + 1) : events[o][i].evidence # "none"
    BY DEF EvidenceUpTo
  <2>3. o \in assignments
    BY <2>1, <2>2 DEF EvidenceInv
  <2>4. ASSUME NEW k \in 1..Len(events[o]), NEW j \in 1..Len(events[o]),
               events[o][k].evidence = events[o][j].evidence,
               events[o][k].evidence # "none", k < j
        PROVE  FALSE
    <3>1. events[o][k].state = events[o][j].state
      BY <2>4 DEF EvidenceInv
    <3>2. rank[events[o][k].state] < rank[events[o][j].state]
      BY <2>4 DEF EvidenceInv
    <3>3. rank[events[o][k].state] \in Nat
      <4>1. events[o][k] \in Event
        BY <2>1
      <4>2. events[o][k].state \in OperationStates
        BY <4>1 DEF Event
      <4> QED
        BY <4>2, RankType
    <3> QED
      BY <3>1, <3>2, <3>3
  <2> QED
    BY <2>1, <2>3, <2>4
<1> QED
  BY <1>1, <1>2, EvidenceStep, RecordInit, RecordStep, SafeInit, Inductive, PTL
     DEF Spec
-----------------------------------------------------------------------------
(* Decisions. A snapshot names the approver of its proposal's approval,    *)
(* and binds revisions its case has reached; the case only moves forward.  *)

Reached(bound, truth) == /\ truth # None
                         /\ bound.evidence <= truth.evidence
                         /\ bound.route <= truth.route

SnapshotsBind ==
    \A o \in Operations : snapshots[o] # None =>
      LET p == snapshots[o].proposal
      IN  /\ approvals[p] # None
          /\ approvals[p].approver = snapshots[o].approver
          /\ Reached(snapshots[o].bound, cases[CaseOf[p]])

(* A case that comes back to a version has never left it.                  *)
LEMMA ReachedType ==
    ASSUME NEW a \in Revisions, NEW b \in Revisions, NEW c \in Revisions,
           Reached(a, b), Reached(b, c)
    PROVE  Reached(a, c) /\ (a = c => a = b)
<1>1. /\ a \in [evidence : Nat, route : Nat] /\ b \in [evidence : Nat, route : Nat]
      /\ c \in [evidence : Nat, route : Nat]
  BY RevisionAssumption
<1> QED
  BY <1>1 DEF Reached

(* What a step does to a decision that has been made.                      *)
Holds(p) ==
    /\ cases'[CaseOf[p]] = cases[CaseOf[p]]
         \/ /\ cases'[CaseOf[p]] \in Revisions
            /\ cases[CaseOf[p]] # None =>
                 Reached(cases[CaseOf[p]], cases'[CaseOf[p]])
    /\ approvals[p] # None =>
         /\ approvals'[p] # None
         /\ approvals'[p].approver = approvals[p].approver
         /\ approvals[p].revoked => approvals'[p].revoked
    /\ p \in expired => p \in expired'

StandsRevoked(u) ==
    /\ authority[u].principal = "revoked" => authority'[u].principal = "revoked"
    /\ authority[u].capability = "revoked" => authority'[u].capability = "revoked"

(* Signing in restores nothing that was revoked.                           *)
LEMMA PersistedKeeps ==
    ASSUME TypeOK, NEW u \in Users, MayCall(u), authority' = Persisted(u)
    PROVE  \A v \in Users : StandsRevoked(v)
  BY DEF TypeOK, MayCall, Persisted, StandsRevoked, Standing

(* Whatever a step does, a withdrawal that is on record stays on record.   *)
LEMMA DecisionsHold ==
    ASSUME TypeOK, [Next]_vars
    PROVE  /\ \A p \in Proposals : Holds(p)
           /\ \A u \in Users : StandsRevoked(u)
<1> USE DEF rowVars, providerVars, decisionVars
<1>0. \A p \in Proposals : CaseOf[p] \in Cases
  BY CaseOfAssumption
<1>1. ASSUME UNCHANGED decisionVars
      PROVE  /\ \A p \in Proposals : Holds(p)
             /\ \A u \in Users : StandsRevoked(u)
  BY <1>1 DEF Holds, StandsRevoked
<1>2. CASE Decide
  <2>1. ASSUME NEW p \in Proposals, NEW bound \in Revisions, NEW revoked \in BOOLEAN,
               PrepareDecisionInputs(p, bound, revoked)
        PROVE  /\ \A q \in Proposals : Holds(q)
               /\ \A u \in Users : StandsRevoked(u)
    <3>1. \A q \in Proposals :
            \/ cases'[CaseOf[q]] = cases[CaseOf[q]]
            \/ /\ cases'[CaseOf[q]] = bound
               /\ cases[CaseOf[q]] # None => Reached(cases[CaseOf[q]], bound)
      <4>1. bound # None
        BY NoneAssumption
      <4> QED
        BY <1>0, <2>1, <4>1 DEF PrepareDecisionInputs, TypeOK, Reached
    <3>2. UNCHANGED <<approvals, authority, expired>>
      BY <2>1 DEF PrepareDecisionInputs
    <3> QED
      BY <3>1, <3>2 DEF Holds, StandsRevoked
  <2>2. ASSUME NEW u \in Users, NEW p \in Proposals, Approve(u, p)
        PROVE  /\ \A q \in Proposals : Holds(q)
               /\ \A v \in Users : StandsRevoked(v)
    <3>1. approvals' = [approvals EXCEPT ![p] = [approver |-> u, revoked |-> FALSE]]
      BY <2>2 DEF Approve
    <3>2. [approver |-> u, revoked |-> FALSE] # None
      <4>1. [approver |-> u, revoked |-> FALSE] \in Approval
        BY DEF Approval
      <4> QED
        BY <4>1, NoneAssumption
    <3>3. ASSUME NEW q \in Proposals PROVE Holds(q)
      <4>1. UNCHANGED <<cases, expired>>
        BY <2>2 DEF Approve
      <4>2. CASE q = p
        <5>1. approvals'[p] = [approver |-> u, revoked |-> FALSE]
          BY <3>1 DEF TypeOK
        <5>2. approvals[p] = None \/ approvals[p] = approvals'[p]
          BY <2>2, <5>1 DEF Approve
        <5> QED
          BY <3>2, <4>1, <4>2, <5>1, <5>2 DEF Holds
      <4>3. CASE q # p
        BY <3>1, <4>1, <4>3 DEF Holds, TypeOK
      <4> QED
        BY <4>2, <4>3
    <3> QED
      BY <2>2, <3>3, PersistedKeeps DEF Approve
  <2>3. ASSUME NEW u \in Users, NEW p \in Proposals, RevokeApproval(u, p)
        PROVE  /\ \A q \in Proposals : Holds(q)
               /\ \A v \in Users : StandsRevoked(v)
    <3>1. approvals[p] \in Approval
      BY <2>3 DEF RevokeApproval, TypeOK
    <3>2. /\ [approvals[p] EXCEPT !.revoked = TRUE] \in Approval
          /\ [approvals[p] EXCEPT !.revoked = TRUE].approver = approvals[p].approver
          /\ [approvals[p] EXCEPT !.revoked = TRUE].revoked = TRUE
      BY <3>1 DEF Approval
    <3>3. approvals' = [approvals EXCEPT ![p] = [approvals[p] EXCEPT !.revoked = TRUE]]
      BY <2>3 DEF RevokeApproval
    <3>4. \A q \in Proposals : Holds(q)
      BY <2>3, <3>2, <3>3, NoneAssumption DEF RevokeApproval, Holds, TypeOK
    <3> QED
      BY <2>3, <3>4, PersistedKeeps DEF RevokeApproval
  <2>4. ASSUME NEW u \in Users, RevokeCapability(u) \/ RevokePrincipal(u)
        PROVE  /\ \A q \in Proposals : Holds(q)
               /\ \A v \in Users : StandsRevoked(v)
    <3>1. UNCHANGED <<cases, approvals, expired>>
      BY <2>4 DEF RevokeCapability, RevokePrincipal
    <3>2. authority[u] \in Standing
      BY DEF TypeOK
    <3>3. \/ authority' = [authority EXCEPT ![u] =
                           [authority[u] EXCEPT !.capability = "revoked"]]
          \/ authority' = [authority EXCEPT ![u] =
                           [authority[u] EXCEPT !.principal = "revoked"]]
      BY <2>4 DEF RevokeCapability, RevokePrincipal
    <3>4. /\ \/ authority'[u].principal = "revoked"
             \/ authority'[u].principal = authority[u].principal
          /\ \/ authority'[u].capability = "revoked"
             \/ authority'[u].capability = authority[u].capability
          /\ \A v \in Users \ {u} : authority'[v] = authority[v]
      BY <3>2, <3>3 DEF TypeOK, Standing
    <3> QED
      BY <3>1, <3>4 DEF Holds, StandsRevoked
  <2>5. ASSUME NEW u \in Users, NEW p \in Proposals, NEW o \in Operations,
               ReserveNew(u, p, o)
        PROVE  /\ \A q \in Proposals : Holds(q)
               /\ \A v \in Users : StandsRevoked(v)
    BY <2>5, PersistedKeeps DEF ReserveNew, Holds
  <2>6. ASSUME NEW u \in Users, NEW p \in Proposals, ReserveReplay(u, p)
        PROVE  /\ \A q \in Proposals : Holds(q)
               /\ \A v \in Users : StandsRevoked(v)
    BY <2>6, PersistedKeeps DEF ReserveReplay, Holds
  <2> QED
    BY <1>2, <2>1, <2>2, <2>3, <2>4, <2>5, <2>6 DEF Decide
<1>3. CASE TimePasses
  <2>1. ASSUME NEW p \in Proposals, ProposalExpires(p)
        PROVE  /\ \A q \in Proposals : Holds(q)
               /\ \A v \in Users : StandsRevoked(v)
    BY <2>1 DEF ProposalExpires, Holds, StandsRevoked
  <2>2. ASSUME NEW u \in Users, PrincipalLapses(u)
        PROVE  /\ \A q \in Proposals : Holds(q)
               /\ \A v \in Users : StandsRevoked(v)
    BY <2>2 DEF PrincipalLapses, Holds, StandsRevoked, TypeOK, Standing
  <2>3. ASSUME NEW o \in Operations, LeaseExpires(o)
        PROVE  UNCHANGED decisionVars
    BY <2>3 DEF LeaseExpires
  <2> QED
    BY <1>1, <1>3, <2>1, <2>2, <2>3 DEF TimePasses
<1>4. ASSUME NEW w \in Workers, WorkerStep(w)
      PROVE  UNCHANGED decisionVars
  BY <1>4
     DEF WorkerStep, Claim, ClaimCurrent, ClaimStale, ClaimNothing, SendStep,
         SendAccepted, SendAckLost, SendFails, SendRejected, Send,
         CompleteAssignment, RecordAssignment, CompleteFails, MarkUnknown,
         MarkFailed, ReadForReconciliation, Lookup, CompleteReconciliation, Abandon
<1>5. CASE Observe
  <2>1. ASSUME NEW o \in Operations, NEW kind \in Kinds, RecordEvidence(o, kind)
        PROVE  /\ \A q \in Proposals : Holds(q)
               /\ \A v \in Users : StandsRevoked(v)
    BY <2>1, PersistedKeeps DEF RecordEvidence, Holds, StandsRevoked
  <2>2. ASSUME NEW o \in Operations, IssueReceipt(o)
        PROVE  UNCHANGED decisionVars
    BY <2>2 DEF IssueReceipt
  <2> QED
    BY <1>1, <1>5, <2>1, <2>2 DEF Observe
<1>6. CASE UNCHANGED vars
  BY <1>1, <1>6 DEF vars
<1> QED
  BY <1>1, <1>2, <1>3, <1>4, <1>5, <1>6 DEF Next

(* A reservation copies approval and versions; nothing rewrites the copy.  *)
LEMMA BindingStep == IInv /\ SnapshotsBind /\ [Next]_vars => SnapshotsBind'
<1> SUFFICES ASSUME IInv, SnapshotsBind, [Next]_vars,
                    NEW o \in Operations, snapshots'[o] # None
             PROVE  LET p == snapshots'[o].proposal
                    IN  /\ approvals'[p] # None
                        /\ approvals'[p].approver = snapshots'[o].approver
                        /\ Reached(snapshots'[o].bound, cases'[CaseOf[p]])
  BY DEF SnapshotsBind, Reached
<1>0. TypeOK /\ TypeOK'
  BY TypeStep DEF IInv, TypeInv
<1>1. CASE snapshots[o] # None
  <2> DEFINE p == snapshots[o].proposal
  <2>1. snapshots[o] \in Snapshot /\ snapshots'[o] = snapshots[o]
    BY <1>0, <1>1, RowsGrow DEF TypeOK
  <2>2. p \in Proposals /\ snapshots[o].bound \in Revisions /\ CaseOf[p] \in Cases
    BY <2>1, CaseOfAssumption DEF Snapshot
  <2>3. /\ approvals[p] # None
        /\ approvals[p].approver = snapshots[o].approver
        /\ Reached(snapshots[o].bound, cases[CaseOf[p]])
    BY <1>1 DEF SnapshotsBind
  <2>4. Holds(p)
    BY <1>0, <2>2, DecisionsHold
  <2>5. Reached(snapshots[o].bound, cases'[CaseOf[p]])
    <3>1. CASE cases'[CaseOf[p]] = cases[CaseOf[p]]
      BY <2>3, <3>1
    <3>2. CASE cases'[CaseOf[p]] # cases[CaseOf[p]]
      <4>1. cases[CaseOf[p]] # None /\ cases[CaseOf[p]] \in Revisions
        BY <1>0, <2>2, <2>3 DEF Reached, TypeOK
      <4>2. /\ cases'[CaseOf[p]] \in Revisions
            /\ Reached(cases[CaseOf[p]], cases'[CaseOf[p]])
        BY <2>4, <3>2, <4>1 DEF Holds
      <4> QED
        BY <2>2, <2>3, <4>1, <4>2, ReachedType
    <3> QED
      BY <3>1, <3>2
  <2> QED
    BY <2>1, <2>3, <2>4, <2>5 DEF Holds
<1>2. CASE snapshots[o] = None
  <2>1. PICK u \in Users, p \in Proposals : ReserveNew(u, p, o)
    <3>1. ASSUME NEW u \in Users, NEW p \in Proposals, NEW x \in Operations,
                 ReserveNew(u, p, x)
          PROVE  x = o
      BY <1>0, <1>2, <3>1 DEF ReserveNew, TypeOK
    <3>2. \E u \in Users, p \in Proposals, x \in Operations : ReserveNew(u, p, x)
      BY <1>2
         DEF rowVars, vars, Next, Decide, PrepareDecisionInputs, Approve,
             RevokeApproval, RevokeCapability, RevokePrincipal, ReserveReplay,
             TimePasses, ProposalExpires, PrincipalLapses, LeaseExpires, WorkerStep,
             Claim, ClaimCurrent, ClaimStale, ClaimNothing, SendStep, SendAccepted,
             SendAckLost, SendFails, SendRejected, Send, CompleteAssignment,
             RecordAssignment, CompleteFails, MarkUnknown, MarkFailed,
             ReadForReconciliation, Lookup, CompleteReconciliation, Abandon, Observe,
             RecordEvidence, IssueReceipt
    <3> QED
      BY <3>1, <3>2
  <2>2. /\ snapshots'[o] = [proposal |-> p, approver |-> approvals[p].approver,
                            bound |-> proposals[p].bound]
        /\ approvals[p] # None /\ proposals[p] # None
        /\ cases[CaseOf[p]] = proposals[p].bound
        /\ UNCHANGED <<cases, approvals>>
    BY <1>0, <2>1 DEF ReserveNew, BindingIsCurrent, TypeOK
  <2>3. proposals[p].bound \in Revisions
    BY <1>0, <2>2 DEF TypeOK, Proposal
  <2>4. Reached(proposals[p].bound, proposals[p].bound)
    <3>1. proposals[p].bound \in [evidence : Nat, route : Nat]
      BY <2>3, RevisionAssumption
    <3> QED
      BY <2>3, <3>1, NoneAssumption DEF Reached
  <2> QED
    BY <2>2, <2>4
<1> QED
  BY <1>1, <1>2

(* Only a claim that finds the snapshot current takes an operation from    *)
(* reserved to sending.                                                    *)
LEMMA ClaimedIsCurrent ==
    ASSUME IInv, [Next]_vars, NEW o \in Operations,
           operations[o].state = "reserved", operations'[o].state = "sending"
    PROVE  SnapshotIsCurrent(o)
<1> USE DEF rowVars
<1>0. TypeOK /\ RowsCoherent
  BY DEF IInv, TypeInv
<1>1. ASSUME UNCHANGED operations PROVE FALSE
  BY <1>1
<1>2. CASE Decide
  <2>1. ASSUME NEW u \in Users, NEW p \in Proposals, NEW x \in Operations,
               ReserveNew(u, p, x)
        PROVE  FALSE
    BY <1>0, <2>1 DEF ReserveNew, TypeOK
  <2> QED
    BY <1>1, <1>2, <2>1
       DEF Decide, PrepareDecisionInputs, Approve, RevokeApproval, RevokeCapability,
           RevokePrincipal, ReserveReplay
<1>3. CASE TimePasses
  BY <1>1, <1>3 DEF TimePasses, ProposalExpires, PrincipalLapses, LeaseExpires
<1>4. ASSUME NEW x \in Operations, NEW event \in Event, AdvanceOne(x, event),
             event.state # "sending"
      PROVE  FALSE
  BY <1>0, <1>4, AdvanceOneStates
<1>5. ASSUME NEW w \in Workers, WorkerStep(w)
      PROVE  SnapshotIsCurrent(o)
  <2> DEFINE named == worker[w].operation
  <2>1. ASSUME NEW x \in Operations, ClaimCurrent(w, x)
        PROVE  SnapshotIsCurrent(o)
    <3>1. PICK recovered \in SUBSET lapsed : ClaimRow(x, recovered, Sending, "leased")
      BY <2>1 DEF ClaimCurrent
    <3>2. /\ \A y \in recovered : operations'[y].state = "unknown"
          /\ \A y \in Operations \ (recovered \cup {x}) :
               operations'[y].state = operations[y].state
      BY <1>0, <2>1, <3>1, WorkerEventTypes, ClaimRowStates DEF ClaimCurrent
    <3>3. x = o
      BY <3>2
    <3> QED
      BY <2>1, <3>3 DEF ClaimCurrent
  <2>2. ASSUME NEW x \in Operations, ClaimStale(w, x)
        PROVE  FALSE
    <3>1. PICK recovered \in SUBSET lapsed :
             ClaimRow(x, recovered, Cancelled, "cancelled")
      BY <2>2 DEF ClaimStale
    <3>2. /\ \A y \in recovered : operations'[y].state = "unknown"
          /\ operations'[x].state = "cancelled"
          /\ \A y \in Operations \ (recovered \cup {x}) :
               operations'[y].state = operations[y].state
      BY <1>0, <2>2, <3>1, WorkerEventTypes, WorkerEventsBlank, ClaimRowStates
         DEF ClaimStale
    <3> QED
      BY <3>2
  <2>3. CASE ClaimNothing(w)
    <3>1. PICK x \in lapsed : AdvanceOne(x, LeaseExpired)
      BY <2>3 DEF ClaimNothing
    <3>2. x \in Operations
      BY <1>0 DEF TypeOK
    <3> QED
      BY <1>4, <3>1, <3>2, WorkerEventTypes, WorkerEventsBlank
  <2>4. CASE CompleteAssignment(w) \/ CompleteReconciliation(w)
    <3>1. named \in Operations
      BY <2>4 DEF CompleteAssignment, CompleteReconciliation, IInv, TypeInv,
                  WorkersNamed
    <3>2. PICK target \in {"accepted", "assignment_reconciled"} :
             AdvanceOne(named, NewEvent(target, "none", "none"))
      BY <2>4 DEF CompleteAssignment, CompleteReconciliation, RecordAssignment
    <3>3. /\ NewEvent(target, "none", "none") \in Event
          /\ NewEvent(target, "none", "none").state # "sending"
      BY WorkerEventTypes DEF NewEvent
    <3> HIDE DEF named
    <3> QED
      BY <1>4, <3>1, <3>2, <3>3
  <2>5. CASE MarkUnknown(w) \/ MarkFailed(w)
    <3>1. named \in Operations
      BY <2>5 DEF MarkUnknown, MarkFailed, IInv, TypeInv, WorkersNamed
    <3>2. CASE ~UNCHANGED rowVars
      <4>1. PICK event \in {NewEvent("unknown", "acknowledgement_lost", "none"),
                            NewEvent("unknown", "connector_result_unknown", "none"),
                            NewEvent("failed", "connector_rejected", "none")} :
               AdvanceOne(named, event)
        BY <2>5, <3>2 DEF MarkUnknown, MarkFailed
      <4>2. event \in Event /\ event.state # "sending"
        BY WorkerEventTypes DEF NewEvent
      <4> HIDE DEF named
      <4> QED
        BY <1>4, <3>1, <4>1, <4>2
    <3> QED
      BY <1>1, <3>2
  <2>6. CASE SendStep(w)
    BY <1>1, <2>6 DEF SendStep, SendAccepted, SendAckLost, SendFails, SendRejected, Send
  <2>7. CASE CompleteFails(w) \/ Lookup(w) \/ Abandon(w)
    BY <1>1, <2>7 DEF CompleteFails, Lookup, Abandon
  <2>8. ASSUME NEW x \in Operations, ReadForReconciliation(w, x)
        PROVE  FALSE
    BY <1>1, <2>8 DEF ReadForReconciliation
  <2> QED
    BY <1>5, <2>1, <2>2, <2>3, <2>4, <2>5, <2>6, <2>7, <2>8 DEF WorkerStep, Claim
<1>6. CASE Observe
  <2>1. ASSUME NEW x \in Operations, NEW kind \in Kinds, RecordEvidence(x, kind)
        PROVE  FALSE
    <3>1. kind \in EvidenceKinds
          /\ targetByKind[kind] \in OperationStates \ {"sending"}
      BY KindsAssumption DEF EvidenceKinds, targetByKind, OperationStates
    <3>2. /\ NewEvent(targetByKind[kind], "none", kind) \in Event
          /\ NewEvent(targetByKind[kind], "none", kind).state = targetByKind[kind]
      BY <3>1, NewEventType DEF Reasons, NewEvent
    <3> QED
      BY <1>4, <2>1, <3>1, <3>2 DEF RecordEvidence
  <2>2. ASSUME NEW x \in Operations, IssueReceipt(x)
        PROVE  FALSE
    BY <1>1, <2>2 DEF IssueReceipt
  <2> QED
    BY <1>6, <2>1, <2>2 DEF Observe
<1>7. CASE UNCHANGED vars
  BY <1>1, <1>7 DEF vars
<1> QED
  BY <1>2, <1>3, <1>5, <1>6, <1>7 DEF Next

(* A reserved operation goes to sending or is cancelled.                   *)
LEMMA ReservedMoves ==
    ASSUME NEW to
    PROVE  /\ MayMove("reserved", to) => to \in {"sending", "cancelled"}
           /\ ~MayMove("cancelled", to)
  BY DEF MayMove, lifecycleTransitions, triggerTransitions

(* A snapshot that is not current now is not current later.                *)
LEMMA WithdrawnForGood ==
    ASSUME IInv, SnapshotsBind, [Next]_vars, NEW o \in Operations,
           snapshots[o] # None, Withdrawn(o)
    PROVE  Withdrawn(o)'
<1> DEFINE p == snapshots[o].proposal
           u == snapshots[o].approver
<1>0. TypeOK /\ TypeOK'
  BY TypeStep DEF IInv, TypeInv
<1>1. /\ snapshots[o] \in Snapshot /\ snapshots'[o] = snapshots[o]
  BY <1>0, RowsGrow DEF TypeOK
<1>2. /\ p \in Proposals /\ u \in Users /\ CaseOf[p] \in Cases
      /\ snapshots[o].bound \in Revisions
  BY <1>1, CaseOfAssumption DEF Snapshot
<1>3. Holds(p) /\ StandsRevoked(u)
  BY <1>0, <1>2, DecisionsHold
<1>4. approvals[p] # None /\ Reached(snapshots[o].bound, cases[CaseOf[p]])
  BY DEF SnapshotsBind
<1>5. ASSUME cases[CaseOf[p]] # snapshots[o].bound
      PROVE  cases'[CaseOf[p]] # snapshots[o].bound
  <2>1. CASE cases'[CaseOf[p]] = cases[CaseOf[p]]
    BY <1>5, <2>1
  <2>2. CASE cases'[CaseOf[p]] # cases[CaseOf[p]]
    <3>1. cases[CaseOf[p]] \in Revisions /\ cases[CaseOf[p]] # None
      BY <1>0, <1>2, <1>4 DEF Reached, TypeOK
    <3>2. /\ cases'[CaseOf[p]] \in Revisions
          /\ Reached(cases[CaseOf[p]], cases'[CaseOf[p]])
      BY <1>3, <2>2, <3>1 DEF Holds
    <3> QED
      BY <1>2, <1>4, <1>5, <3>1, <3>2, ReachedType
  <2> QED
    BY <2>1, <2>2
<1>6. \/ approvals[p].revoked \/ p \in expired
      \/ cases[CaseOf[p]] # snapshots[o].bound
      \/ authority[u].principal = "revoked" \/ authority[u].capability = "revoked"
  BY DEF Withdrawn
<1>7. \/ approvals'[p].revoked \/ p \in expired'
      \/ cases'[CaseOf[p]] # snapshots[o].bound
      \/ authority'[u].principal = "revoked" \/ authority'[u].capability = "revoked"
  BY <1>3, <1>4, <1>5, <1>6 DEF Holds, StandsRevoked
<1> QED
  BY <1>1, <1>7 DEF Withdrawn

(* A decision that is withdrawn before the claim is never revived: its     *)
(* operation can only be cancelled.                                        *)
THEOREM DoomedForGood == Spec => DoomedStaysDoomed
<1> DEFINE Known == IInv /\ SnapshotsBind
           Stays == \A o \in Operations : Doomed(o) => Doomed(o)'
<1>1. Known /\ [Next]_vars => Stays
  <2> SUFFICES ASSUME Known, [Next]_vars, NEW o \in Operations, Doomed(o)
               PROVE  Doomed(o)'
    OBVIOUS
  <2>1. Trails(o) /\ snapshots[o] # None
    BY StepTrails DEF Doomed, IInv, RowsCoherent, RowsAgree
  <2>2. ~Creates(o)
    BY <2>1 DEF Creates
  <2>3. CASE operations[o].state = "cancelled"
    <3>1. ASSUME NEW event \in Event PROVE ~Advances(o, event)
      BY <2>3, ReservedMoves DEF Advances
    <3>2. Keeps(o)
      BY <2>1, <2>2, <3>1 DEF Trails
    <3> QED
      BY <2>3, <3>2 DEF Doomed, Keeps
  <2>4. CASE operations[o].state = "reserved" /\ Withdrawn(o)
    <3>1. Withdrawn(o)'
      BY <2>1, <2>4, WithdrawnForGood
    <3>2. CASE Keeps(o)
      BY <2>4, <3>1, <3>2 DEF Doomed, Keeps
    <3>3. ASSUME NEW event \in Event, Advances(o, event)
          PROVE  Doomed(o)'
      <4>1. operations'[o].state \in {"sending", "cancelled"}
        BY <2>4, <3>3, ReservedMoves DEF Advances
      <4>2. operations'[o].state # "sending"
        <5>1. ~SnapshotIsCurrent(o)
          BY <2>1, <2>4 DEF SnapshotIsCurrent, Withdrawn, SnapshotsBind,
                            ApproverIsActive
        <5> QED
          BY <2>4, <5>1, ClaimedIsCurrent
      <4> QED
        BY <4>1, <4>2 DEF Doomed
    <3> QED
      BY <2>1, <2>2, <3>2, <3>3 DEF Trails
  <2> QED
    BY <2>3, <2>4 DEF Doomed
<1>2. Init => SnapshotsBind
  BY DEF Init, SnapshotsBind
<1>3. Spec => []Known
  BY <1>2, BindingStep, SafeInit, Inductive, PTL DEF Spec
<1>4. Known /\ [Next]_vars => [Stays]_vars
  BY <1>1
<1> QED
  BY <1>3, <1>4, PTL DEF Spec, DoomedStaysDoomed


-----------------------------------------------------------------------------
(* Beliefs follow states.                                                  *)

LEMMA BeliefOf ==
    ASSUME NEW o \in Operations
    PROVE  /\ operations[o].state = "absent"   => Belief(o) = "none"
           /\ operations[o].state = "reserved" => Belief(o) = "pending"
           /\ operations[o].state \in {"sending", "unknown"} => Belief(o) = "uncertain"
           /\ operations[o].state \in AssignedStates => Belief(o) = "assigned"
           /\ operations[o].state \in {"cancelled", "failed"} =>
                Belief(o) = "not_assigned"
  BY DEF Belief, AssignedStates

LEMMA BeliefAfter ==
    ASSUME NEW o \in Operations
    PROVE  /\ operations'[o].state = "reserved" => Belief(o)' = "pending"
           /\ operations'[o].state \in {"sending", "unknown"} => Belief(o)' = "uncertain"
           /\ operations'[o].state \in AssignedStates => Belief(o)' = "assigned"
           /\ operations'[o].state \in {"cancelled", "failed"} =>
                Belief(o)' = "not_assigned"
  BY DEF Belief, AssignedStates

LEMMA BeliefsInit == Init => Knowledge!Init
<1> SUFFICES ASSUME Init PROVE Knowledge!Init
  OBVIOUS
<1>1. \A o \in Operations : Belief(o) = "none"
  BY BeliefOf DEF Init
<1> QED
  BY <1>1 DEF Init, Knowledge!Init

(* A step that leaves every belief and the provider as they are.           *)
LEMMA KeepsBeliefs ==
    ASSUME UNCHANGED provider,
           \A o \in Operations : Belief(o)' = Belief(o)
    PROVE  UNCHANGED Knowledge!vars
  BY DEF Knowledge!vars

LEMMA KeepsStates ==
    ASSUME UNCHANGED <<provider, operations>>
    PROVE  UNCHANGED Knowledge!vars
<1>1. \A o \in Operations : Belief(o)' = Belief(o)
  BY DEF Belief
<1> QED
  BY <1>1, KeepsBeliefs

(* A step that moves the state of one operation only.                      *)
LEMMA MovesOne ==
    ASSUME NEW o \in Operations, UNCHANGED provider,
           \A x \in Operations \ {o} : Belief(x)' = Belief(x),
           NEW from, NEW to, Belief(o) = from, Belief(o)' = to
    PROVE  Knowledge!Believe(o, from, to)
  BY DEF Knowledge!Believe

LEMMA SameStateSameBelief ==
    ASSUME NEW o \in Operations, operations'[o].state = operations[o].state
    PROVE  Belief(o)' = Belief(o)
  BY DEF Belief

-----------------------------------------------------------------------------
(* Every step implements a step of DispatchKnowledge, or none.             *)

LEMMA ReserveImplements ==
    ASSUME IInv, NEW u \in Users, NEW p \in Proposals, NEW o \in Operations,
           ReserveNew(u, p, o)
    PROVE  Knowledge!Next
<1>1. operations[o].state = "absent"
  BY DEF ReserveNew, IInv, RowsCoherent, RowsAgree
<1>2. /\ operations'[o].state = "reserved"
      /\ \A x \in Operations \ {o} : operations'[x].state = operations[x].state
      /\ UNCHANGED provider
  BY DEF ReserveNew, IInv, TypeInv, TypeOK, providerVars
<1>3. Belief(o) = "none" /\ Belief(o)' = "pending"
  BY <1>1, <1>2, BeliefOf, BeliefAfter
<1>4. \A x \in Operations \ {o} : Belief(x)' = Belief(x)
  BY <1>2, SameStateSameBelief
<1>5. Knowledge!Reserve(o)
  BY <1>2, <1>3, <1>4, MovesOne DEF Knowledge!Reserve
<1> QED
  BY <1>5 DEF Knowledge!Next

(* A claim changes one belief: the leases it recovers were uncertain and   *)
(* stay so.                                                                *)
LEMMA ClaimImplements ==
    ASSUME IInv, NEW w \in Workers, Claim(w)
    PROVE  Knowledge!Next \/ UNCHANGED Knowledge!vars
<1>0. TypeOK /\ RowsCoherent
  BY DEF IInv, TypeInv
<1>1. ASSUME NEW o \in Operations, ClaimCurrent(w, o)
      PROVE  Knowledge!Next
  <2>1. PICK recovered \in SUBSET lapsed : ClaimRow(o, recovered, Sending, "leased")
    BY <1>1 DEF ClaimCurrent
  <2>2. Sending \in Event /\ Sending.state = "sending" /\ outbox[o] = "pending"
    BY <1>1, WorkerEventTypes DEF Sending, NewEvent, ClaimCurrent
  <2>3. /\ operations[o].state = "reserved" /\ operations'[o].state = "sending"
        /\ \A x \in recovered : /\ operations[x].state = "sending"
                                /\ operations'[x].state = "unknown"
        /\ \A x \in Operations \ (recovered \cup {o}) :
             operations'[x].state = operations[x].state
    BY <1>0, <2>1, <2>2, ClaimRowStates
  <2>4. Belief(o) = "pending" /\ Belief(o)' = "uncertain"
    BY <2>3, BeliefOf, BeliefAfter
  <2>5. \A x \in Operations \ {o} : Belief(x)' = Belief(x)
    <3>1. \A x \in recovered : Belief(x)' = Belief(x)
      BY <1>0, <2>3, BeliefOf, BeliefAfter DEF TypeOK
    <3> QED
      BY <2>3, <3>1, SameStateSameBelief
  <2>6. UNCHANGED provider
    BY <1>1 DEF ClaimCurrent, providerVars
  <2>7. Knowledge!Dispatch(o)
    BY <2>4, <2>5, <2>6, MovesOne DEF Knowledge!Dispatch
  <2> QED
    BY <2>7 DEF Knowledge!Next
<1>2. ASSUME NEW o \in Operations, ClaimStale(w, o)
      PROVE  Knowledge!Next
  <2>1. PICK recovered \in SUBSET lapsed : ClaimRow(o, recovered, Cancelled, "cancelled")
    BY <1>2 DEF ClaimStale
  <2>2. Cancelled \in Event /\ Cancelled.state = "cancelled" /\ outbox[o] = "pending"
    BY <1>2, WorkerEventTypes DEF Cancelled, NewEvent, ClaimStale
  <2>3. /\ operations[o].state = "reserved" /\ operations'[o].state = "cancelled"
        /\ \A x \in recovered : /\ operations[x].state = "sending"
                                /\ operations'[x].state = "unknown"
        /\ \A x \in Operations \ (recovered \cup {o}) :
             operations'[x].state = operations[x].state
    BY <1>0, <2>1, <2>2, ClaimRowStates
  <2>4. Belief(o) = "pending" /\ Belief(o)' = "not_assigned"
    BY <2>3, BeliefOf, BeliefAfter
  <2>5. \A x \in Operations \ {o} : Belief(x)' = Belief(x)
    <3>1. \A x \in recovered : Belief(x)' = Belief(x)
      BY <1>0, <2>3, BeliefOf, BeliefAfter DEF TypeOK
    <3> QED
      BY <2>3, <3>1, SameStateSameBelief
  <2>6. UNCHANGED provider
    BY <1>2 DEF ClaimStale, providerVars
  <2>7. Knowledge!Withdraw(o)
    BY <2>4, <2>5, <2>6, MovesOne DEF Knowledge!Withdraw
  <2> QED
    BY <2>7 DEF Knowledge!Next
<1>3. ASSUME ClaimNothing(w)
      PROVE  UNCHANGED Knowledge!vars
  <2>1. PICK o \in lapsed : AdvanceOne(o, LeaseExpired)
    BY <1>3 DEF ClaimNothing
  <2>2. o \in Operations /\ operations[o].state = "sending"
    BY <1>0 DEF RowsCoherent, RowsAgree, TypeOK
  <2>3. /\ operations'[o].state = "unknown"
        /\ \A x \in Operations \ {o} : operations'[x].state = operations[x].state
    BY <1>0, <2>1, <2>2, WorkerEventTypes, AdvanceOneStates DEF LeaseExpired, NewEvent
  <2>4. \A x \in Operations : Belief(x)' = Belief(x)
    BY <2>2, <2>3, BeliefOf, BeliefAfter, SameStateSameBelief
  <2> QED
    BY <1>3, <2>4, KeepsBeliefs DEF ClaimNothing, providerVars
<1> QED
  BY <1>1, <1>2, <1>3 DEF Claim

(* The provider takes only operations the database is uncertain about.     *)
LEMMA SendImplements ==
    ASSUME IInv, NEW w \in Workers, NEW answer, NEW recorded \in BOOLEAN,
           Send(w, answer, recorded)
    PROVE  Knowledge!Next \/ UNCHANGED Knowledge!vars
<1> DEFINE o == worker[w].operation
<1>1. /\ o \in Operations /\ operations[o].state \in {"sending", "unknown"}
      /\ UNCHANGED operations
      /\ provider' = IF recorded THEN provider \cup {o} ELSE provider
  BY DEF Send, IInv, TypeInv, WorkersNamed, WorkerKnows, rowVars
<1> HIDE DEF o
<1>2. CASE recorded
  <2>1. Belief(o) = "uncertain"
    BY <1>1, BeliefOf
  <2>2. \A x \in Operations : Belief(x)' = Belief(x)
    BY <1>1 DEF Belief
  <2>3. Knowledge!Accept(o)
    BY <1>1, <1>2, <2>1, <2>2 DEF Knowledge!Accept
  <2> QED
    BY <1>1, <2>3 DEF Knowledge!Next
<1>3. CASE ~recorded
  BY <1>1, <1>3, KeepsStates
<1> QED
  BY <1>2, <1>3

(* completeAssignment draws a true conclusion.                             *)
LEMMA RecordImplements ==
    ASSUME IInv, NEW o \in provider, NEW expected \in {"sending", "unknown"},
           NEW target \in {"accepted", "assignment_reconciled"},
           RecordAssignment(o, expected, target)
    PROVE  Knowledge!Next
<1>1. /\ o \in Operations
      /\ operations'[o].state = target
      /\ \A x \in Operations \ {o} : operations'[x].state = operations[x].state
      /\ UNCHANGED provider
  BY SafeRecord DEF IInv, TypeInv, TypeOK
<1>2. operations[o].state = expected
  BY DEF RecordAssignment
<1>3. Belief(o) = "uncertain" /\ Belief(o)' = "assigned"
  BY <1>1, <1>2, BeliefOf, BeliefAfter DEF AssignedStates
<1>4. \A x \in Operations \ {o} : Belief(x)' = Belief(x)
  BY <1>1, SameStateSameBelief
<1>5. Knowledge!ConcludeAssigned(o)
  BY <1>1, <1>3, <1>4, MovesOne DEF Knowledge!ConcludeAssigned
<1> QED
  BY <1>1, <1>5 DEF Knowledge!Next

LEMMA WorkerImplements ==
    ASSUME IInv, NEW w \in Workers, WorkerStep(w)
    PROVE  Knowledge!Next \/ UNCHANGED Knowledge!vars
<1> USE DEF rowVars, providerVars
<1> DEFINE o == worker[w].operation
<1>0. TypeOK
  BY DEF IInv, TypeInv
<1>1. CASE Claim(w)
  BY <1>1, ClaimImplements
<1>2. CASE SendStep(w)
  BY <1>2, SendImplements
     DEF SendStep, SendAccepted, SendAckLost, SendFails, SendRejected
<1>3. CASE CompleteAssignment(w)
  <2>1. o \in provider /\ RecordAssignment(o, "sending", "accepted")
    BY <1>3 DEF CompleteAssignment, IInv, TypeInv, WorkersNamed, WorkerKnows
  <2> QED
    BY <2>1, RecordImplements
<1>4. CASE MarkUnknown(w)
  <2>1. PICK x \in Operations : x = o /\ operations[x].state \in OperationStates
    BY <1>4 DEF MarkUnknown, IInv, TypeInv, TypeOK, WorkersNamed, WorkerKnows,
                DispatchPCs
  <2>2. CASE UNCHANGED rowVars
    BY <1>4, <2>2, KeepsStates DEF MarkUnknown
  <2>3. CASE ~UNCHANGED rowVars
    <3>1. PICK reason \in {"acknowledgement_lost", "connector_result_unknown"} :
             AdvanceOne(x, NewEvent("unknown", reason, "none"))
      BY <1>4, <2>1, <2>3 DEF MarkUnknown
    <3>2. /\ NewEvent("unknown", reason, "none") \in Event
          /\ NewEvent("unknown", reason, "none").state = "unknown"
      BY WorkerEventTypes DEF NewEvent
    <3>3. /\ operations'[x].state = "unknown"
          /\ MayMove(operations[x].state, "unknown")
          /\ \A y \in Operations \ {x} : operations'[y].state = operations[y].state
      BY <1>0, <2>1, <3>1, <3>2, AdvanceOneStates
    <3>4. UNCHANGED provider
      BY <1>4 DEF MarkUnknown
    <3>5. \A y \in Operations \ {x} : Belief(y)' = Belief(y)
      BY <3>3, SameStateSameBelief
    <3>6. Belief(x)' = "uncertain"
      BY <2>1, <3>3, BeliefAfter
    <3>7. CASE operations[x].state = "sending"
      <4>1. Belief(x) = "uncertain"
        BY <2>1, <3>7, BeliefOf
      <4> QED
        BY <3>4, <3>5, <3>6, <4>1, KeepsBeliefs
    <3>8. CASE operations[x].state = "accepted"
      <4>1. Belief(x) = "assigned"
        BY <2>1, <3>8, BeliefOf DEF AssignedStates
      <4>2. Knowledge!Doubt(x)
        BY <2>1, <3>4, <3>5, <3>6, <4>1, MovesOne DEF Knowledge!Doubt
      <4> QED
        BY <2>1, <4>2 DEF Knowledge!Next
    <3> QED
      BY <2>1, <3>3, <3>7, <3>8, Moves
  <2> QED
    BY <2>2, <2>3
<1>5. CASE MarkFailed(w)
  <2>1. PICK x \in Operations :
          /\ x = o /\ operations[x].state \in {"sending", "unknown"}
          /\ x \notin provider /\ UNCHANGED provider
    BY <1>5 DEF MarkFailed, IInv, TypeInv, WorkersNamed, WorkerKnows
  <2>2. AdvanceOne(x, NewEvent("failed", "connector_rejected", "none"))
    BY <1>5, <2>1 DEF MarkFailed
  <2>3. /\ NewEvent("failed", "connector_rejected", "none") \in Event
        /\ NewEvent("failed", "connector_rejected", "none").state = "failed"
    BY WorkerEventTypes DEF NewEvent
  <2>4. /\ operations'[x].state = "failed"
        /\ \A y \in Operations \ {x} : operations'[y].state = operations[y].state
    BY <1>0, <2>1, <2>2, <2>3, AdvanceOneStates
  <2>5. Belief(x) = "uncertain" /\ Belief(x)' = "not_assigned"
    BY <2>1, <2>4, BeliefOf, BeliefAfter
  <2>6. \A y \in Operations \ {x} : Belief(y)' = Belief(y)
    BY <2>4, SameStateSameBelief
  <2>7. Knowledge!ConcludeNotAssigned(x)
    BY <2>1, <2>5, <2>6, MovesOne DEF Knowledge!ConcludeNotAssigned
  <2> QED
    BY <2>1, <2>7 DEF Knowledge!Next
<1>6. CASE CompleteReconciliation(w)
  <2>1. o \in provider /\ RecordAssignment(o, "unknown", "assignment_reconciled")
    BY <1>6 DEF CompleteReconciliation, IInv, TypeInv, WorkersNamed, WorkerKnows
  <2> QED
    BY <2>1, RecordImplements
<1>7. CASE \/ CompleteFails(w) \/ Lookup(w) \/ Abandon(w)
           \/ \E x \in Operations : ReadForReconciliation(w, x)
  BY <1>7, KeepsStates DEF CompleteFails, Lookup, Abandon, ReadForReconciliation
<1> QED
  BY <1>1, <1>2, <1>3, <1>4, <1>5, <1>6, <1>7 DEF WorkerStep

(* Evidence moves an operation from one assigned state to another.         *)
LEMMA ObserveImplements ==
    ASSUME IInv, Observe
    PROVE  UNCHANGED Knowledge!vars
<1> USE DEF rowVars, providerVars
<1>1. ASSUME NEW o \in Operations, NEW kind \in Kinds, RecordEvidence(o, kind)
      PROVE  UNCHANGED Knowledge!vars
  <2>1. TypeOK /\ operations[o].state \in OperationStates
    BY <1>1 DEF RecordEvidence, IInv, TypeInv, TypeOK
  <2>2. kind \in EvidenceKinds /\ targetByKind[kind] \in OperationStates
    BY KindsAssumption DEF EvidenceKinds, targetByKind, OperationStates
  <2>3. /\ NewEvent(targetByKind[kind], "none", kind) \in Event
        /\ NewEvent(targetByKind[kind], "none", kind).state = targetByKind[kind]
    BY <2>2, NewEventType DEF Reasons, NewEvent
  <2>4. /\ operations'[o].state = targetByKind[kind]
        /\ MayMove(operations[o].state, targetByKind[kind])
        /\ \A x \in Operations \ {o} : operations'[x].state = operations[x].state
    BY <1>1, <2>1, <2>3, AdvanceOneStates DEF RecordEvidence
  <2>5. operations[o].state \in AssignedStates /\ operations'[o].state \in AssignedStates
    BY <2>1, <2>2, <2>4, Moves
  <2>6. Belief(o)' = "assigned" /\ Belief(o) = "assigned"
    BY <2>5 DEF Belief, AssignedStates
  <2>7. \A x \in Operations : Belief(x)' = Belief(x)
    BY <2>4, <2>6, SameStateSameBelief
  <2> QED
    BY <1>1, <2>7, KeepsBeliefs DEF RecordEvidence
<1>2. ASSUME NEW o \in Operations, IssueReceipt(o)
      PROVE  UNCHANGED Knowledge!vars
  BY <1>2, KeepsStates DEF IssueReceipt
<1> QED
  BY <1>1, <1>2 DEF Observe

LEMMA StepImplements ==
    ASSUME IInv, [Next]_vars
    PROVE  [Knowledge!Next]_(Knowledge!vars)
<1> USE DEF rowVars, providerVars
<1>1. CASE Decide
  <2>1. CASE \E u \in Users, p \in Proposals, o \in Operations : ReserveNew(u, p, o)
    BY <2>1, ReserveImplements
  <2>2. CASE ~\E u \in Users, p \in Proposals, o \in Operations : ReserveNew(u, p, o)
    BY <1>1, <2>2, KeepsStates
       DEF Decide, PrepareDecisionInputs, Approve, RevokeApproval, RevokeCapability,
           RevokePrincipal, ReserveReplay
  <2> QED
    BY <2>1, <2>2
<1>2. CASE TimePasses
  BY <1>2, KeepsStates DEF TimePasses, ProposalExpires, PrincipalLapses, LeaseExpires
<1>3. ASSUME NEW w \in Workers, WorkerStep(w)
      PROVE  [Knowledge!Next]_(Knowledge!vars)
  BY <1>3, WorkerImplements
<1>4. CASE Observe
  BY <1>4, ObserveImplements
<1>5. CASE UNCHANGED vars
  BY <1>5, KeepsStates DEF vars
<1> QED
  BY <1>1, <1>2, <1>3, <1>4, <1>5 DEF Next

(* The repository, its workers, the provider and all their crashes behave  *)
(* as DispatchKnowledge allows: the database concludes about the provider  *)
(* only what is true, and the provider takes only what the database is     *)
(* uncertain about.                                                        *)
THEOREM ImplementsKnowledge == Spec => KnowledgeSpec
  BY BeliefsInit, StepImplements, Invariance, PTL DEF Spec, KnowledgeSpec, Knowledge!Spec
-----------------------------------------------------------------------------
(* What was concluded once.                                                *)

(* A belief that nothing was assigned is never given up, and the provider  *)
(* takes nothing while it is held.                                         *)
LEMMA NotAssignedStays ==
    ASSUME [Knowledge!Next]_(Knowledge!vars), NEW o \in Operations,
           Belief(o) = "not_assigned"
    PROVE  /\ Belief(o)' = "not_assigned"
           /\ o \in provider' => o \in provider
<1> DEFINE belief == [q \in Operations |-> Belief(q)]
<1>1. belief[o] = "not_assigned" /\ belief'[o] = Belief(o)'
  OBVIOUS
<1>2. CASE UNCHANGED <<provider, belief>>
  BY <1>1, <1>2
<1>3. ASSUME NEW q \in Operations, NEW from, NEW to, from # "not_assigned",
             Knowledge!Believe(q, from, to)
      PROVE  belief'[o] = "not_assigned" /\ provider' = provider
  <2>1. /\ belief[q] = from
        /\ belief' = [belief EXCEPT ![q] = to]
        /\ provider' = provider
    BY <1>3 DEF Knowledge!Believe
  <2>2. q # o
    BY <1>1, <1>3, <2>1
  <2> HIDE DEF belief
  <2>3. belief'[o] = belief[o]
    BY <2>1, <2>2
  <2> QED BY <1>1, <2>1, <2>3
<1>4. ASSUME NEW q \in Operations, Knowledge!Accept(q)
      PROVE  belief'[o] = "not_assigned" /\ provider' = provider \cup {q} /\ q # o
  BY <1>1, <1>4 DEF Knowledge!Accept
<1>5. CASE Knowledge!Next
  <2>1. PICK q \in Operations :
          \/ Knowledge!Reserve(q)
          \/ Knowledge!Withdraw(q)
          \/ Knowledge!Dispatch(q)
          \/ Knowledge!Accept(q)
          \/ Knowledge!ConcludeAssigned(q)
          \/ Knowledge!ConcludeNotAssigned(q)
          \/ Knowledge!Doubt(q)
    BY <1>5 DEF Knowledge!Next
  <2>2. CASE Knowledge!Accept(q)
    BY <1>1, <1>4, <2>2
  <2>3. CASE ~Knowledge!Accept(q)
    <3>1. \E from, to : from # "not_assigned" /\ Knowledge!Believe(q, from, to)
      BY <2>1, <2>3 DEF Knowledge!Reserve, Knowledge!Withdraw, Knowledge!Dispatch,
         Knowledge!ConcludeAssigned, Knowledge!ConcludeNotAssigned, Knowledge!Doubt
    <3> QED BY <1>1, <1>3, <3>1
  <2> QED BY <2>2, <2>3
<1> QED
  BY <1>2, <1>5 DEF Knowledge!vars

Closed(o) == operations[o].state \in {"cancelled", "failed"}

ClosedStay ==
    \A o \in Operations : Closed(o) => Closed(o)' /\ o \notin provider'

(* An operation that is cancelled or failed is so for good, and no         *)
(* assignment of it appears at the provider afterwards, whatever sends,    *)
(* retries and late commits are still under way when it is closed.         *)
THEOREM ClosedForGood == Spec => [][ClosedStay]_vars
<1>1. IInv /\ IInv' /\ [Next]_vars => ClosedStay
  <2> SUFFICES ASSUME IInv, IInv', [Next]_vars, NEW o \in Operations, Closed(o)
               PROVE  Closed(o)' /\ o \notin provider'
    BY DEF ClosedStay
  <2>1. Belief(o) = "not_assigned"
    BY DEF Closed, Belief, AssignedStates
  <2>2. [Knowledge!Next]_(Knowledge!vars)
    BY StepImplements
  <2>3. Belief(o)' = "not_assigned"
    BY <2>1, <2>2, NotAssignedStays
  <2>4. operations'[o].state \in OperationStates \cup {"absent"}
    BY DEF IInv, TypeInv, TypeOK
  <2>5. Closed(o)'
    BY <2>3, <2>4 DEF Closed, Belief, AssignedStates, OperationStates
  <2>6. ConclusionsTrue'
    BY DEF IInv, TypeInv, TypeOK, ProviderKnown, ProviderAgrees, ConclusionsTrue
  <2> QED BY <2>5, <2>6 DEF Closed, ConclusionsTrue
<1> QED
  BY <1>1, Invariance, PTL DEF Spec
=============================================================================
