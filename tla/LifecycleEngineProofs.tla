----------------------- MODULE LifecycleEngineProofs -----------------------
(***************************************************************************)
(* Theorems about LifecycleEngine, for any proposals, operations, tokens   *)
(* and users, and any number of calls under way: who may send, what is     *)
(* concluded, that withdrawals are for good and that the record is true.   *)
(***************************************************************************)
EXTENDS LifecycleEngine, TLAPS

(* What an operation's state says of the provider and of the sends.        *)
Unsent(o) == operations[o] = None \/ operations[o].state \in {"reserved", "cancelled"}

DispatchKnown ==
    \A o \in Operations :
        /\ Unsent(o) => provider[o] = "none" /\ sends[o] = 0
        /\ ~Unsent(o) => sends[o] = 1
        /\ operations[o] # None =>
             /\ operations[o].assigned <=> operations[o].state \in AssignedStates
             /\ operations[o].state \in AssignedStates => provider[o] = "held"
             /\ operations[o].state = "failed" => provider[o] \in {"none", "misbound"}

(* What a call knows of its operation and of the provider.                 *)
SendPCs == {"sending"} \cup SendAnswers
LookupPCs == {"looking_up"} \cup LookupAnswers

CallKnows(k) ==
    LET o == calls[k].operation
    IN  calls[k].pc # "idle" =>
          /\ o \in Operations
          /\ operations[o] # None
          /\ calls[k].pc \in SendPCs => operations[o].state = "sending"
          /\ calls[k].pc \in LookupPCs => ~Unsent(o) /\ operations[o].state # "sending"
          /\ calls[k].pc \in {"acknowledged", "ack_lost", "found"} => provider[o] = "held"
          /\ calls[k].pc \in {"mismatched", "found_mismatch"} => provider[o] = "misbound"
          /\ calls[k].pc = "rejected" => provider[o] = "none"

CallsKnow == \A k \in Calls : CallKnows(k)

(* OneSender, without what DispatchKnown says of the sends.                *)
SenderAlone ==
    \A o \in Operations :
        /\ InState(o, {"sending"}) => \E k \in Calls : Sends(k, o)
        /\ \A j, k \in Calls : Sends(j, o) /\ Sends(k, o) => j = k

(* The trail is as long as the revision says.                              *)
Trailed(op) == Len(op.events) = op.revision + 1
AllTrailed == \A o \in Operations : operations[o] # None => Trailed(operations[o])

(* TypeOK in two parts: what dispatching an operation changes, and what    *)
(* it reads or leaves alone.                                               *)
CoreTyped ==
    /\ operations \in [Operations -> Operation \cup {None}]
    /\ calls \in [Calls -> [pc : PCs, operation : Operations \cup {None}]]
    /\ provider \in [Operations -> {"none", "in_flight", "held", "misbound"}]
    /\ sends \in [Operations -> Nat]

RestTyped ==
    /\ SessionsTypeOK
    /\ inputs \in [Proposals -> Input \cup {None}]
    /\ expired \subseteq Versions
    /\ approvals \in [Proposals -> Approval \cup {None}]
    /\ evidence \subseteq Evidence
    /\ receipts \in [Operations -> SUBSET Receipt]

Core == CoreTyped /\ AllTrailed /\ DispatchKnown /\ CallsKnow /\ SenderAlone

Inv == RestTyped /\ Core

-----------------------------------------------------------------------------
(* Lemmas about the operators of the model.                                *)

(* What the transition table lets into the states the calls move to.       *)
LEMMA Moves ==
    ASSUME NEW from \in OperationStates
    PROVE  /\ "sending" \in lifecycleTransitions[from] <=> from = "reserved"
           /\ "accepted" \in lifecycleTransitions[from] <=> from = "sending"
           /\ "unknown" \in lifecycleTransitions[from] <=> from \in {"sending", "accepted"}
           /\ "failed" \in lifecycleTransitions[from] <=> from \in {"sending", "unknown"}
           /\ "assignment_reconciled" \in lifecycleTransitions[from] <=> from = "unknown"
           /\ \A kind \in EvidenceKinds :
                targetByKind[kind] \in lifecycleTransitions[from] =>
                  from \in AssignedStates /\ targetByKind[kind] \in AssignedStates
  BY DEF lifecycleTransitions, OperationStates, EvidenceKinds, targetByKind, AssignedStates

LEMMA Targets == \A kind \in EvidenceKinds : targetByKind[kind] \in OperationStates
  BY DEF EvidenceKinds, targetByKind, OperationStates

(* #transition sets the state and keeps what else an operation is.         *)
LEMMA AdvancedFields ==
    ASSUME NEW op \in Operation, NEW state \in OperationStates, NEW reason \in Reasons,
           NEW id \in Evidence \cup {None}
    PROVE  /\ Advanced(op, state, reason, id) \in Operation
           /\ Advanced(op, state, reason, id).state = state
           /\ Advanced(op, state, reason, id).assigned = op.assigned
           /\ Trailed(op) => Trailed(Advanced(op, state, reason, id))
<1> DEFINE event == [state |-> state, reason |-> reason, evidence |-> id]
           new == Advanced(op, state, reason, id)
<1>1. event \in Event
  BY DEF Event
<1>2. op.events \in Seq(Event) /\ op.revision \in Nat
  BY DEF Operation
<1>3. Append(op.events, event) \in Seq(Event)
  BY <1>1, <1>2
<1>4. op.revision + 1 \in Nat
  BY <1>2
<1>5. /\ new \in Operation
      /\ new.state = state
      /\ new.assigned = op.assigned
      /\ new.revision = op.revision + 1
      /\ new.events = Append(op.events, event)
  <2> DEFINE new2(r, e) == [op EXCEPT !.state = state, !.revision = r, !.events = e]
  <2>1. ASSUME NEW r \in Nat, NEW e \in Seq(Event)
        PROVE  /\ new2(r, e) \in Operation
               /\ new2(r, e).state = state
               /\ new2(r, e).assigned = op.assigned
               /\ new2(r, e).revision = r
               /\ new2(r, e).events = e
    BY DEF Operation
  <2>2. new = new2(op.revision + 1, Append(op.events, event))
    BY DEF Advanced
  <2> HIDE DEF new2, new
  <2> QED BY <1>3, <1>4, <2>1, <2>2
<1>6. Len(Append(op.events, event)) = Len(op.events) + 1
  BY <1>1, <1>2
<1> HIDE DEF new
<1>7. Trailed(op) => Trailed(new)
  BY <1>2, <1>5, <1>6 DEF Trailed
<1> QED BY <1>5, <1>7 DEF new

LEMMA OperationIsNotNone == None \notin Operation
  BY NoneAssumption

(* The transition of an operation op whose fields a call may have written. *)
LEMMA TransitionMoves ==
    ASSUME NEW o \in Operations, NEW op \in Operation, operations[o] # None,
           Trailed(op), op.state = operations[o].state,
           NEW state \in OperationStates, NEW reason \in Reasons,
           Transition(o, op, state, reason)
    PROVE  \E rec \in Operation :
             /\ operations' = [operations EXCEPT ![o] = rec]
             /\ Trailed(rec)
             /\ rec.assigned = op.assigned
             /\ rec.state = IF state \in lifecycleTransitions[operations[o].state]
                            THEN state ELSE operations[o].state
<1> DEFINE rec == IF Allowed(o, state) THEN Advanced(op, state, reason, None) ELSE op
<1>1. operations' = [operations EXCEPT ![o] = rec]
  BY DEF Transition
<1>2. rec \in Operation
  BY AdvancedFields
<1>3. rec.assigned = op.assigned /\ Trailed(rec)
  BY AdvancedFields
<1>4. rec.state = IF state \in lifecycleTransitions[operations[o].state]
                  THEN state ELSE operations[o].state
  BY AdvancedFields DEF Allowed
<1> HIDE DEF rec
<1> QED BY <1>1, <1>2, <1>3, <1>4

-----------------------------------------------------------------------------
(* The steps that change what Core speaks of.                              *)

(* A call goes on after its await: whatever it makes of the operation, it  *)
(* is not in state sending any more, and agrees with the provider.         *)
LEMMA ResumeKeeps ==
    ASSUME Core, NEW k \in Calls, calls[k].pc # "idle",
           NEW o \in Operations, o = calls[k].operation,
           NEW rec \in Operation, Trailed(rec),
           ~(rec.state \in {"reserved", "cancelled", "sending"}),
           rec.assigned <=> rec.state \in AssignedStates,
           rec.state \in AssignedStates => provider[o] = "held",
           rec.state = "failed" => provider[o] \in {"none", "misbound"},
           operations' = [operations EXCEPT ![o] = rec],
           calls' = [calls EXCEPT ![k] = Idle],
           UNCHANGED <<provider, sends>>
    PROVE  Core'
<1>1. operations[o] # None /\ ~Unsent(o)
  BY DEF Core, CallsKnow, CallKnows, Unsent, CoreTyped, PCs, SendPCs, LookupPCs,
         SendAnswers, LookupAnswers
<1>2. CoreTyped'
  BY DEF Core, CoreTyped, Idle, PCs
<1>3. AllTrailed'
  BY DEF Core, CoreTyped, AllTrailed
<1>4. rec # None
  BY OperationIsNotNone
<1>5. DispatchKnown'
  BY <1>1, <1>4 DEF Core, CoreTyped, DispatchKnown, Unsent
<1>6. ASSUME NEW j \in Calls, calls[j].pc \in SendPCs, calls[j].operation = o
      PROVE  j = k
  <2>1. operations[o].state = "sending"
    BY <1>6 DEF Core, CallsKnow, CallKnows, SendPCs, SendAnswers
  <2>2. calls[k].pc \in SendPCs
    BY <2>1 DEF Core, CallsKnow, CallKnows, CoreTyped, PCs, SendPCs, LookupPCs,
                SendAnswers, LookupAnswers
  <2>3. calls[j] \in [pc : PCs, operation : Operations \cup {None}]
        /\ calls[k] \in [pc : PCs, operation : Operations \cup {None}]
    BY DEF Core, CoreTyped
  <2>4. Sends(j, o) /\ Sends(k, o)
    BY <1>6, <2>2, <2>3 DEF Sends, SendPCs
  <2> QED BY <2>4 DEF Core, SenderAlone
<1>7. CallsKnow'
  <2> SUFFICES ASSUME NEW j \in Calls PROVE CallKnows(j)'
    BY DEF CallsKnow
  <2>1. CASE j = k
    BY <2>1 DEF CallKnows, Core, CoreTyped, Idle
  <2>2. CASE j # k /\ calls[j].operation # o
    BY <2>2 DEF Core, CoreTyped, CallsKnow, CallKnows, Unsent
  <2>3. CASE j # k /\ calls[j].operation = o
    <3>1. calls'[j] = calls[j] /\ calls[j].pc \notin SendPCs
      BY <1>6, <2>3 DEF Core, CoreTyped
    <3>2. operations'[o] = rec
      BY DEF Core, CoreTyped
    <3>3. ~Unsent(o)'
      BY <1>4, <3>2 DEF Unsent
    <3> QED BY <1>4, <2>3, <3>1, <3>2, <3>3 DEF Core, CoreTyped, CallsKnow, CallKnows
  <2> QED BY <2>1, <2>2, <2>3
<1>8. SenderAlone'
  <2> SUFFICES ASSUME NEW x \in Operations
               PROVE  /\ InState(x, {"sending"})' => \E j \in Calls : Sends(j, x)'
                      /\ \A i, j \in Calls : Sends(i, x)' /\ Sends(j, x)' => i = j
    BY DEF SenderAlone
  <2>1. \A j \in Calls : j # k => calls'[j] = calls[j]
    BY DEF Core, CoreTyped
  <2>2. calls'[k].pc = "idle"
    BY DEF Core, CoreTyped, Idle
  <2>3. ~Sends(k, x)'
    BY <2>2 DEF Sends, SendAnswers
  <2>4. \A j \in Calls : j # k => (Sends(j, x)' <=> Sends(j, x))
    BY <2>1 DEF Sends
  <2>5. ASSUME InState(x, {"sending"})' PROVE \E j \in Calls : Sends(j, x)'
    <3>1. x # o /\ operations'[x] = operations[x]
      BY <2>5 DEF InState, Core, CoreTyped
    <3>2. PICK j \in Calls : Sends(j, x)
      BY <2>5, <3>1 DEF Core, SenderAlone, InState
    <3>3. j # k
      BY <3>1, <3>2 DEF Sends
    <3> QED BY <2>4, <3>2, <3>3
  <2> QED BY <2>3, <2>4, <2>5 DEF Core, SenderAlone
<1> QED BY <1>2, <1>3, <1>5, <1>7, <1>8 DEF Core

(* The operation of a call that is under way, as the call knows it.        *)
LEMMA CallOperation ==
    ASSUME Core, NEW k \in Calls, calls[k].pc # "idle"
    PROVE  \E o \in Operations :
             /\ o = calls[k].operation
             /\ operations[o] \in Operation
             /\ operations[o] # None
             /\ Trailed(operations[o])
             /\ ~Unsent(o)
             /\ operations[o].state \in OperationStates
             /\ operations[o].assigned \in BOOLEAN
             /\ calls[k].pc \in SendPCs => operations[o].state = "sending"
             /\ calls[k].pc \in LookupPCs => operations[o].state # "sending"
<1>1. calls[k].operation \in Operations /\ operations[calls[k].operation] # None
  BY DEF Core, CallsKnow, CallKnows
<1>2. operations[calls[k].operation] \in Operation
  BY <1>1 DEF Core, CoreTyped
<1>3. operations[calls[k].operation].state \in OperationStates
      /\ operations[calls[k].operation].assigned \in BOOLEAN
  BY <1>2 DEF Operation
<1>4. calls[k].pc \in SendPCs => operations[calls[k].operation].state = "sending"
  BY DEF Core, CallsKnow, CallKnows
<1>5. calls[k].pc \in LookupPCs => /\ ~Unsent(calls[k].operation)
                                   /\ operations[calls[k].operation].state # "sending"
  BY DEF Core, CallsKnow, CallKnows
<1>6. calls[k].pc \in SendPCs \cup LookupPCs
  BY DEF Core, CoreTyped, PCs, SendPCs, LookupPCs, SendAnswers, LookupAnswers
<1>7. ~Unsent(calls[k].operation)
  BY <1>1, <1>4, <1>5, <1>6 DEF Unsent
<1> QED BY <1>1, <1>2, <1>3, <1>4, <1>5, <1>7 DEF Core, AllTrailed

(* Noting the assignment changes nothing else of an operation.             *)
LEMMA NotedFields ==
    ASSUME NEW op \in Operation
    PROVE  LET noted == [op EXCEPT !.assigned = TRUE]
           IN  /\ noted \in Operation
               /\ noted.state = op.state
               /\ noted.assigned = TRUE
               /\ Trailed(op) => Trailed(noted)
  BY DEF Operation, Trailed

(* The seven ways a call goes on.                                          *)
LEMMA ResumeMoves ==
    ASSUME Core, NEW k \in Calls, Resume(k)
    PROVE  \E o \in Operations, rec \in Operation :
             /\ o = calls[k].operation
             /\ operations[o] # None
             /\ ~Unsent(o)
             /\ Trailed(rec)
             /\ ~(rec.state \in {"reserved", "cancelled", "sending"})
             /\ rec.assigned <=> rec.state \in AssignedStates
             /\ rec.state \in AssignedStates => provider[o] = "held"
             /\ rec.state = "failed" => provider[o] \in {"none", "misbound"}
             /\ rec.state = "unknown" => operations[o].state \in {"sending", "unknown"}
             /\ operations' = [operations EXCEPT ![o] = rec]
<1>1. calls[k].pc # "idle"
  BY DEF Resume, dispatchAccepts, dispatchMismatches, dispatchRejected, dispatchUnknown,
         reconcileAbsent, reconcileMismatches, reconcileFound, Resumes
<1>2. PICK o \in Operations :
        /\ o = calls[k].operation
        /\ operations[o] \in Operation
        /\ operations[o] # None
        /\ Trailed(operations[o])
        /\ ~Unsent(o)
        /\ operations[o].state \in OperationStates
        /\ operations[o].assigned \in BOOLEAN
        /\ calls[k].pc \in SendPCs => operations[o].state = "sending"
        /\ calls[k].pc \in LookupPCs => operations[o].state # "sending"
  BY <1>1, CallOperation
<1> DEFINE Good(rec) ==
        /\ Trailed(rec)
        /\ ~(rec.state \in {"reserved", "cancelled", "sending"})
        /\ rec.assigned <=> rec.state \in AssignedStates
        /\ rec.state \in AssignedStates => provider[o] = "held"
        /\ rec.state = "failed" => provider[o] \in {"none", "misbound"}
        /\ rec.state = "unknown" => operations[o].state \in {"sending", "unknown"}
        /\ operations' = [operations EXCEPT ![o] = rec]
<1>3. SUFFICES \E rec \in Operation : Good(rec)
  BY <1>2
<1>4. PICK old : old = operations[o]
  OBVIOUS
<1>5. PICK noted : noted = [old EXCEPT !.assigned = TRUE]
  OBVIOUS
<1>6. /\ old \in Operation
      /\ Trailed(old)
      /\ noted \in Operation
      /\ Trailed(noted)
      /\ noted.state = old.state
      /\ noted.assigned = TRUE
  BY <1>2, <1>4, <1>5, NotedFields
<1>7. /\ old.assigned <=> old.state \in AssignedStates
      /\ old.state \in AssignedStates => provider[o] = "held"
      /\ old.state = "failed" => provider[o] \in {"none", "misbound"}
  BY <1>2, <1>4 DEF Core, DispatchKnown
<1>8. ~(old.state \in {"reserved", "cancelled"}) /\ old.state \in OperationStates
  BY <1>2, <1>4 DEF Unsent
<1>9. /\ calls[k].pc \in SendPCs => old.state = "sending"
      /\ calls[k].pc \in LookupPCs => old.state # "sending"
  BY <1>2, <1>4
<1>10. /\ calls[k].pc \in {"acknowledged", "ack_lost", "found"} => provider[o] = "held"
       /\ calls[k].pc \in {"mismatched", "found_mismatch"} => provider[o] = "misbound"
       /\ calls[k].pc = "rejected" => provider[o] = "none"
  BY <1>1, <1>2 DEF Core, CallsKnow, CallKnows
<1>11. CASE dispatchAccepts(k)
  <2>1. Transition(o, noted, "accepted", "none") /\ calls[k].pc = "acknowledged"
    BY <1>2, <1>4, <1>5, <1>11 DEF dispatchAccepts, Resumes
  <2>2. "accepted" \in OperationStates /\ "none" \in Reasons
    BY DEF OperationStates, Reasons
  <2>3. operations[o] # None /\ old = operations[o]
    BY <1>2, <1>4
  <2>4. PICK rec \in Operation :
          /\ operations' = [operations EXCEPT ![o] = rec]
          /\ Trailed(rec)
          /\ rec.assigned = noted.assigned
          /\ rec.state = IF "accepted" \in lifecycleTransitions[old.state]
                         THEN "accepted" ELSE old.state
    BY <1>6, <2>1, <2>2, <2>3, TransitionMoves
  <2>5. Good(rec)
    BY <1>4, <1>6, <1>7, <1>8, <1>9, <1>10, <2>1, <2>4, Moves DEF SendPCs, SendAnswers, AssignedStates
  <2> QED BY <2>5
<1>12. CASE dispatchMismatches(k)
  <2>1. Transition(o, old, "failed", "connector_binding_mismatch") /\ calls[k].pc = "mismatched"
    BY <1>2, <1>4, <1>5, <1>12 DEF dispatchMismatches, Resumes
  <2>2. "failed" \in OperationStates /\ "connector_binding_mismatch" \in Reasons
    BY DEF OperationStates, Reasons
  <2>3. operations[o] # None /\ old = operations[o]
    BY <1>2, <1>4
  <2>4. PICK rec \in Operation :
          /\ operations' = [operations EXCEPT ![o] = rec]
          /\ Trailed(rec)
          /\ rec.assigned = old.assigned
          /\ rec.state = IF "failed" \in lifecycleTransitions[old.state]
                         THEN "failed" ELSE old.state
    BY <1>6, <2>1, <2>2, <2>3, TransitionMoves
  <2>5. Good(rec)
    BY <1>4, <1>6, <1>7, <1>8, <1>9, <1>10, <2>1, <2>4, Moves DEF SendPCs, SendAnswers, AssignedStates
  <2> QED BY <2>5
<1>13. CASE dispatchRejected(k)
  <2>1. Transition(o, old, "failed", "connector_rejected") /\ calls[k].pc = "rejected"
    BY <1>2, <1>4, <1>5, <1>13 DEF dispatchRejected, Resumes
  <2>2. "failed" \in OperationStates /\ "connector_rejected" \in Reasons
    BY DEF OperationStates, Reasons
  <2>3. operations[o] # None /\ old = operations[o]
    BY <1>2, <1>4
  <2>4. PICK rec \in Operation :
          /\ operations' = [operations EXCEPT ![o] = rec]
          /\ Trailed(rec)
          /\ rec.assigned = old.assigned
          /\ rec.state = IF "failed" \in lifecycleTransitions[old.state]
                         THEN "failed" ELSE old.state
    BY <1>6, <2>1, <2>2, <2>3, TransitionMoves
  <2>5. Good(rec)
    BY <1>4, <1>6, <1>7, <1>8, <1>9, <1>10, <2>1, <2>4, Moves DEF SendPCs, SendAnswers, AssignedStates
  <2> QED BY <2>5
<1>14. CASE dispatchUnknown(k)
  <2>1. PICK reason \in {"acknowledgement_lost", "connector_result_unknown"} :
          Transition(o, old, "unknown", reason) /\ calls[k].pc \in {"ack_lost", "error"}
    BY <1>2, <1>4, <1>14 DEF dispatchUnknown, Resumes
  <2>2. "unknown" \in OperationStates /\ reason \in Reasons
    BY <2>1 DEF OperationStates, Reasons
  <2>3. operations[o] # None /\ old = operations[o]
    BY <1>2, <1>4
  <2>4. PICK rec \in Operation :
          /\ operations' = [operations EXCEPT ![o] = rec]
          /\ Trailed(rec)
          /\ rec.assigned = old.assigned
          /\ rec.state = IF "unknown" \in lifecycleTransitions[old.state]
                         THEN "unknown" ELSE old.state
    BY <1>6, <2>1, <2>2, <2>3, TransitionMoves
  <2>5. Good(rec)
    BY <1>4, <1>6, <1>7, <1>8, <1>9, <1>10, <2>1, <2>4, Moves DEF SendPCs, SendAnswers, AssignedStates
  <2> QED BY <2>5
<1>15. CASE reconcileAbsent(k)
  <2>1. operations' = [operations EXCEPT ![o] = old] /\ calls[k].pc = "absent"
    BY <1>4, <1>15 DEF reconcileAbsent, Resumes, Core, CoreTyped
  <2>2. Good(old)
    BY <1>4, <1>6, <1>7, <1>8, <1>9, <2>1 DEF LookupPCs, LookupAnswers
  <2> QED BY <1>6, <2>2
<1>16. CASE reconcileMismatches(k)
  <2>1. Transition(o, old, "failed", "reconciled_binding_mismatch") /\ calls[k].pc = "found_mismatch"
    BY <1>2, <1>4, <1>5, <1>16 DEF reconcileMismatches, Resumes
  <2>2. "failed" \in OperationStates /\ "reconciled_binding_mismatch" \in Reasons
    BY DEF OperationStates, Reasons
  <2>3. operations[o] # None /\ old = operations[o]
    BY <1>2, <1>4
  <2>4. PICK rec \in Operation :
          /\ operations' = [operations EXCEPT ![o] = rec]
          /\ Trailed(rec)
          /\ rec.assigned = old.assigned
          /\ rec.state = IF "failed" \in lifecycleTransitions[old.state]
                         THEN "failed" ELSE old.state
    BY <1>6, <2>1, <2>2, <2>3, TransitionMoves
  <2>5. Good(rec)
    BY <1>4, <1>6, <1>7, <1>8, <1>9, <1>10, <2>1, <2>4, Moves DEF LookupPCs, LookupAnswers, OperationStates, AssignedStates
  <2> QED BY <2>5
<1>17. CASE reconcileFound(k)
  <2>1. Transition(o, noted, "assignment_reconciled", "none") /\ calls[k].pc = "found"
    BY <1>2, <1>4, <1>5, <1>17 DEF reconcileFound, Resumes
  <2>2. "assignment_reconciled" \in OperationStates /\ "none" \in Reasons
    BY DEF OperationStates, Reasons
  <2>3. operations[o] # None /\ old = operations[o]
    BY <1>2, <1>4
  <2>4. PICK rec \in Operation :
          /\ operations' = [operations EXCEPT ![o] = rec]
          /\ Trailed(rec)
          /\ rec.assigned = noted.assigned
          /\ rec.state = IF "assignment_reconciled" \in lifecycleTransitions[old.state]
                         THEN "assignment_reconciled" ELSE old.state
    BY <1>6, <2>1, <2>2, <2>3, TransitionMoves
  <2>5. Good(rec)
    BY <1>4, <1>6, <1>7, <1>8, <1>9, <1>10, <2>1, <2>4, Moves DEF LookupPCs, LookupAnswers, OperationStates, AssignedStates
  <2> QED BY <2>5
<1> QED BY <1>11, <1>12, <1>13, <1>14, <1>15, <1>16, <1>17 DEF Resume

LEMMA ResumeStep ==
    ASSUME Core, NEW k \in Calls, Resume(k)
    PROVE  Core'
<1>1. calls[k].pc # "idle" /\ calls' = [calls EXCEPT ![k] = Idle]
      /\ UNCHANGED <<provider, sends>>
  BY DEF Resume, dispatchAccepts, dispatchMismatches, dispatchRejected, dispatchUnknown,
         reconcileAbsent, reconcileMismatches, reconcileFound, Resumes, UnchangedByResuming
<1> QED BY <1>1, ResumeMoves, ResumeKeeps

(* An operation moves that no dispatch call holds in state sending.        *)
LEMMA OperationMoves ==
    ASSUME Core, NEW o \in Operations, NEW rec \in Operation, Trailed(rec),
           \/ /\ Unsent(o)
              /\ rec.state \in {"reserved", "cancelled"}
              /\ rec.assigned = FALSE
           \/ /\ operations[o] # None
              /\ operations[o].state \in AssignedStates
              /\ rec.state \in AssignedStates
              /\ rec.assigned = TRUE,
           operations' = [operations EXCEPT ![o] = rec],
           UNCHANGED <<calls, provider, sends>>
    PROVE  Core'
<1>1. CoreTyped'
  BY DEF Core, CoreTyped
<1>2. AllTrailed'
  BY DEF Core, CoreTyped, AllTrailed
<1>3. rec # None
  BY OperationIsNotNone
<1>4. operations'[o] = rec /\ \A x \in Operations : x # o => operations'[x] = operations[x]
  BY DEF Core, CoreTyped
<1>5. DispatchKnown'
  BY <1>3, <1>4 DEF Core, DispatchKnown, Unsent, AssignedStates
<1>6. CallsKnow'
  <2> SUFFICES ASSUME NEW j \in Calls PROVE CallKnows(j)'
    BY DEF CallsKnow
  <2>1. CASE calls[j].operation # o
    BY <1>4, <2>1 DEF Core, CallsKnow, CallKnows, Unsent
  <2>2. CASE calls[j].operation = o
    BY <1>3, <1>4, <2>2 DEF Core, CallsKnow, CallKnows, Unsent, AssignedStates
  <2> QED BY <2>1, <2>2
<1>7. SenderAlone'
  <2>1. ~InState(o, {"sending"})'
    BY <1>4 DEF InState, AssignedStates
  <2>2. \A x \in Operations : InState(x, {"sending"})' => InState(x, {"sending"})
    BY <1>4, <2>1 DEF InState
  <2>3. \A x \in Operations, j \in Calls : Sends(j, x)' <=> Sends(j, x)
    BY DEF Sends
  <2> QED BY <2>2, <2>3 DEF Core, SenderAlone
<1> QED BY <1>1, <1>2, <1>5, <1>6, <1>7 DEF Core

(* dispatch up to its await.                                               *)
LEMMA DispatchStep ==
    ASSUME Core, NEW k \in Calls, NEW o \in Operations, dispatch(k, o)
    PROVE  Core'
<1>1. /\ operations[o] # None
      /\ operations[o].state = "reserved"
      /\ operations[o] \in Operation
      /\ Trailed(operations[o])
  BY DEF dispatch, InState, Core, CoreTyped, AllTrailed
<1>2. PICK rec : rec = Advanced(operations[o], "sending", "none", None)
  OBVIOUS
<1>3. rec \in Operation /\ rec.state = "sending" /\ Trailed(rec)
      /\ rec.assigned = operations[o].assigned
  <2>1. "sending" \in OperationStates /\ "none" \in Reasons
    BY DEF OperationStates, Reasons
  <2> QED BY <1>1, <1>2, <2>1, AdvancedFields
<1>4. /\ operations' = [operations EXCEPT ![o] = rec]
      /\ calls[k] = Idle
      /\ calls' = [calls EXCEPT ![k] = [pc |-> "sending", operation |-> o]]
      /\ provider' = [provider EXCEPT ![o] = "in_flight"]
      /\ sends' = [sends EXCEPT ![o] = @ + 1]
  BY <1>2 DEF dispatch
<1>5. sends[o] = 0 /\ operations[o].assigned = FALSE
  BY <1>1 DEF Core, DispatchKnown, Unsent, AssignedStates, Operation
<1>6. CoreTyped'
  BY <1>3, <1>4 DEF Core, CoreTyped, PCs
<1>7. AllTrailed'
  BY <1>3, <1>4 DEF Core, CoreTyped, AllTrailed
<1>8. rec # None
  BY <1>3, OperationIsNotNone
<1>9. DispatchKnown'
  BY <1>3, <1>4, <1>5, <1>8 DEF Core, CoreTyped, DispatchKnown, Unsent, AssignedStates
<1>10. \A j \in Calls : calls[j].pc # "idle" => calls[j].operation # o
  BY <1>1 DEF Core, CoreTyped, CallsKnow, CallKnows, Unsent, PCs, SendPCs, LookupPCs,
              SendAnswers, LookupAnswers
<1>11. CallsKnow'
  <2> SUFFICES ASSUME NEW j \in Calls PROVE CallKnows(j)'
    BY DEF CallsKnow
  <2>1. CASE j = k
    BY <1>3, <1>4, <1>8, <2>1 DEF Core, CoreTyped, CallKnows, Unsent, LookupPCs, LookupAnswers
  <2>2. CASE j # k
    BY <1>4, <1>10, <2>2 DEF Core, CoreTyped, CallsKnow, CallKnows, Unsent
  <2> QED BY <2>1, <2>2
<1>12. SenderAlone'
  <2>1. calls'[k] = [pc |-> "sending", operation |-> o]
        /\ \A j \in Calls : j # k => calls'[j] = calls[j]
    BY <1>4 DEF Core, CoreTyped
  <2>2. \A x \in Operations : Sends(k, x)' <=> x = o
    BY <2>1 DEF Sends
  <2>3. \A x \in Operations : ~Sends(k, x)
    BY <1>4 DEF Sends, Idle, SendAnswers
  <2>4. \A x \in Operations, j \in Calls : j # k => (Sends(j, x)' <=> Sends(j, x))
    BY <2>1 DEF Sends
  <2>5. \A j \in Calls : ~Sends(j, o)
    BY <1>10 DEF Sends, SendAnswers
  <2>6. \A x \in Operations : x # o => (InState(x, {"sending"})' <=> InState(x, {"sending"}))
    BY <1>4 DEF InState, Core, CoreTyped
  <2> QED BY <2>2, <2>3, <2>4, <2>5, <2>6 DEF Core, SenderAlone
<1> QED BY <1>6, <1>7, <1>9, <1>11, <1>12 DEF Core

(* reconcile up to its await.                                              *)
LEMMA ReconcileStep ==
    ASSUME Core, NEW k \in Calls, NEW o \in Operations, reconcile(k, o)
    PROVE  Core'
<1>1. /\ operations[o] # None
      /\ operations[o].state = "unknown"
      /\ calls[k] = Idle
      /\ calls' = [calls EXCEPT ![k] = [pc |-> "looking_up", operation |-> o]]
      /\ UNCHANGED <<operations, provider, sends>>
  BY DEF reconcile, InState
<1>2. CoreTyped' /\ AllTrailed' /\ DispatchKnown'
  BY <1>1 DEF Core, CoreTyped, PCs, AllTrailed, DispatchKnown, Unsent
<1>3. calls'[k] = [pc |-> "looking_up", operation |-> o]
      /\ \A j \in Calls : j # k => calls'[j] = calls[j]
  BY <1>1 DEF Core, CoreTyped
<1>4. CallsKnow'
  BY <1>1, <1>3 DEF Core, CallsKnow, CallKnows, Unsent, SendPCs, SendAnswers
<1>5. SenderAlone'
  <2>1. \A x \in Operations : ~Sends(k, x)' /\ ~Sends(k, x)
    BY <1>1, <1>3 DEF Sends, Idle, SendAnswers
  <2>2. \A x \in Operations, j \in Calls : Sends(j, x)' <=> Sends(j, x)
    BY <1>3, <2>1 DEF Sends
  <2> QED BY <1>1, <2>2 DEF Core, SenderAlone, InState
<1> QED BY <1>2, <1>4, <1>5 DEF Core

(* The provider disposes of a request that is under way.                   *)
LEMMA ProviderStep ==
    ASSUME Core, NEW o \in Operations, ProviderTakes(o)
    PROVE  Core'
<1>1. /\ provider[o] = "in_flight"
      /\ provider'[o] \in {"held", "misbound", "none"}
      /\ \A x \in Operations : x # o => provider'[x] = provider[x]
      /\ UNCHANGED <<operations, calls, sends>>
  BY DEF ProviderTakes, UnchangedByProvider, Core, CoreTyped
<1>2. CoreTyped'
  BY DEF ProviderTakes, UnchangedByProvider, Core, CoreTyped
<1>3. AllTrailed'
  BY <1>1 DEF Core, AllTrailed
<1>4. DispatchKnown'
  BY <1>1 DEF Core, DispatchKnown, Unsent
<1>5. CallsKnow'
  BY <1>1 DEF Core, CallsKnow, CallKnows, Unsent
<1>6. SenderAlone'
  BY <1>1 DEF Core, SenderAlone, Sends, InState
<1> QED BY <1>2, <1>3, <1>4, <1>5, <1>6 DEF Core

(* The promise that a call awaits settles.                                 *)
LEMMA SettleStep ==
    ASSUME Core, NEW k \in Calls, SendSettles(k) \/ SendRejects(k) \/ LookupSettles(k)
    PROVE  Core'
<1>1. calls[k].pc \in {"sending", "looking_up"}
  BY DEF SendSettles, SendRejects, LookupSettles, Settles
<1>2. PICK o \in Operations : o = calls[k].operation /\ operations[o] # None /\ ~Unsent(o)
  BY <1>1, CallOperation
<1>3. PICK a \in SendAnswers \cup LookupAnswers :
        /\ calls' = [calls EXCEPT ![k].pc = a]
        /\ calls[k].pc = IF a \in SendAnswers THEN "sending" ELSE "looking_up"
        /\ a \in {"acknowledged", "ack_lost", "found"} => provider'[o] = "held"
        /\ a \in {"mismatched", "found_mismatch"} => provider'[o] = "misbound"
        /\ a = "rejected" => provider'[o] = "none"
        /\ provider' # provider => provider[o] = "in_flight" /\ provider'[o] = "none"
        /\ \A x \in Operations : x # o => provider'[x] = provider[x]
  <2>1. CASE SendSettles(k)
    BY <1>2, <2>1 DEF SendSettles, Settles, SendAnswers, LookupAnswers, Core, CoreTyped
  <2>2. CASE SendRejects(k)
    BY <1>2, <2>2 DEF SendRejects, Settles, SendAnswers, LookupAnswers, Core, CoreTyped
  <2>3. CASE LookupSettles(k)
    BY <1>2, <2>3 DEF LookupSettles, Settles, SendAnswers, LookupAnswers, Core, CoreTyped
  <2> QED BY <2>1, <2>2, <2>3
<1>4. UNCHANGED <<operations, sends>>
  BY DEF SendSettles, SendRejects, LookupSettles, UnchangedByProvider
<1>5. CoreTyped'
  <2>1. calls' \in [Calls -> [pc : PCs, operation : Operations \cup {None}]]
    BY <1>3 DEF Core, CoreTyped, PCs
  <2>2. provider' \in [Operations -> {"none", "in_flight", "held", "misbound"}]
    BY DEF SendSettles, SendRejects, LookupSettles, Core, CoreTyped
  <2> QED BY <1>4, <2>1, <2>2 DEF Core, CoreTyped
<1>6. AllTrailed'
  BY <1>4 DEF Core, AllTrailed
<1>7. DispatchKnown'
  BY <1>2, <1>3, <1>4 DEF Core, DispatchKnown, Unsent
<1>8. /\ calls'[k].pc = a
      /\ calls'[k].operation = o
      /\ \A j \in Calls : j # k => calls'[j] = calls[j]
  BY <1>2, <1>3 DEF Core, CoreTyped
<1>9. /\ a \in SendPCs <=> calls[k].pc \in SendPCs
      /\ a \in LookupPCs <=> calls[k].pc \in LookupPCs
  BY <1>3 DEF SendPCs, LookupPCs, SendAnswers, LookupAnswers
<1>10. CallsKnow'
  <2> SUFFICES ASSUME NEW j \in Calls PROVE CallKnows(j)'
    BY DEF CallsKnow
  <2>1. CASE j = k
    BY <1>1, <1>2, <1>3, <1>4, <1>8, <1>9, <2>1 DEF Core, CallsKnow, CallKnows, Unsent
  <2>2. CASE j # k
    BY <1>3, <1>4, <1>8, <2>2 DEF Core, CallsKnow, CallKnows, Unsent
  <2> QED BY <2>1, <2>2
<1>11. SenderAlone'
  <2>1. \A x \in Operations : Sends(k, x)' <=> Sends(k, x)
    <3>1. calls'[k] \in [pc : PCs, operation : Operations \cup {None}]
          /\ calls[k] \in [pc : PCs, operation : Operations \cup {None}]
      BY <1>5 DEF Core, CoreTyped
    <3> QED BY <1>2, <1>8, <1>9, <3>1 DEF Sends, SendPCs
  <2>2. \A x \in Operations, j \in Calls : Sends(j, x)' <=> Sends(j, x)
    BY <1>8, <2>1 DEF Sends
  <2> QED BY <1>4, <2>2 DEF Core, SenderAlone, InState
<1> QED BY <1>5, <1>6, <1>7, <1>10, <1>11 DEF Core

(* reserve: a new operation.                                               *)
LEMMA ReserveMoves ==
    ASSUME RestTyped, Core, NEW t \in Tokens, NEW p \in Proposals, NEW o \in Operations,
           reserve(t, p, o)
    PROVE  /\ operations[o] = None
           /\ UNCHANGED <<calls, provider, sends>>
           /\ \E rec \in Operation :
                /\ Trailed(rec)
                /\ rec.state = "reserved"
                /\ rec.assigned = FALSE
                /\ operations' = [operations EXCEPT ![o] = rec]
<1>1. /\ approvals[p] # None /\ inputs[p] # None /\ operations[o] = None
      /\ UNCHANGED <<calls, provider, sends>>
  BY DEF reserve, ApprovalIsCurrent
<1>2. PICK rec : rec =
           [proposal |-> p, version |-> inputs[p].version,
            approver |-> approvals[p].approver, state |-> "reserved", revision |-> 0,
            events |-> <<[state |-> "reserved", reason |-> "none", evidence |-> None]>>,
            evidenceIds |-> {}, assigned |-> FALSE]
  OBVIOUS
<1>3. operations' = [operations EXCEPT ![o] = rec]
  BY <1>2 DEF reserve
<1>4. inputs[p].version \in Versions /\ approvals[p].approver \in Users
  BY <1>1 DEF RestTyped, Input, Approval
<1>5. <<[state |-> "reserved", reason |-> "none", evidence |-> None]>> \in Seq(Event)
  BY DEF Event, OperationStates, Reasons
<1>6. rec \in Operation
  BY <1>2, <1>4, <1>5 DEF Operation, OperationStates
<1>7. Trailed(rec) /\ rec.state = "reserved" /\ rec.assigned = FALSE
  BY <1>2 DEF Trailed
<1> QED BY <1>1, <1>3, <1>6, <1>7

LEMMA ReserveStep ==
    ASSUME RestTyped, Core, NEW t \in Tokens, NEW p \in Proposals, NEW o \in Operations,
           reserve(t, p, o)
    PROVE  Core'
  BY ReserveMoves, OperationMoves DEF Unsent

(* dispatch finds the snapshot stale.                                      *)
LEMMA CancelStep ==
    ASSUME Core, NEW o \in Operations, dispatchCancels(o)
    PROVE  Core'
<1>1. /\ operations[o] # None
      /\ operations[o].state = "reserved"
      /\ operations[o] \in Operation
      /\ operations[o].assigned = FALSE
      /\ Trailed(operations[o])
      /\ UNCHANGED <<calls, provider, sends>>
  BY DEF dispatchCancels, InState, Core, CoreTyped, AllTrailed, DispatchKnown, AssignedStates,
         Operation
<1>2. PICK rec : rec = Advanced(operations[o], "cancelled", "approval_stale_or_revoked", None)
  OBVIOUS
<1>3. operations' = [operations EXCEPT ![o] = rec]
  BY <1>2 DEF dispatchCancels
<1>4. rec \in Operation /\ rec.state = "cancelled" /\ rec.assigned = FALSE /\ Trailed(rec)
  <2>1. "cancelled" \in OperationStates /\ "approval_stale_or_revoked" \in Reasons
    BY DEF OperationStates, Reasons
  <2> QED BY <1>1, <1>2, <2>1, AdvancedFields
<1> QED BY <1>1, <1>3, <1>4, OperationMoves DEF Unsent

(* Evidence moves an operation among the states that have an assignment.   *)
LEMMA EvidenceMoves ==
    ASSUME Core, NEW o \in Operations, NEW kind \in Kinds, NEW id \in Evidence,
           evidenceTransition(o, kind, id)
    PROVE  \E rec \in Operation :
             /\ operations[o] # None
             /\ operations[o].state \in AssignedStates
             /\ rec.state \in AssignedStates
             /\ rec.assigned = TRUE
             /\ Trailed(rec)
             /\ operations' = [operations EXCEPT ![o] = rec]
<1>1. PICK old : old = operations[o]
  OBVIOUS
<1>2. PICK state : state = targetByKind[kind]
  OBVIOUS
<1>3. /\ old # None
      /\ old \in Operation
      /\ Trailed(old)
      /\ state \in lifecycleTransitions[old.state]
  BY <1>1, <1>2 DEF evidenceTransition, Allowed, Core, CoreTyped, AllTrailed
<1>4. kind \in EvidenceKinds /\ state \in OperationStates /\ old.state \in OperationStates
  BY <1>2, <1>3, KindsAssumption, Targets DEF Operation
<1>5. old.state \in AssignedStates /\ state \in AssignedStates
  BY <1>2, <1>3, <1>4, Moves
<1>6. old.assigned = TRUE
  BY <1>1, <1>3, <1>5 DEF Core, DispatchKnown, Operation
<1>7. PICK op : op = WithEvidence(old, id)
  OBVIOUS
<1>8. op \in Operation /\ op.assigned = TRUE /\ Trailed(op)
  BY <1>3, <1>6, <1>7 DEF WithEvidence, Operation, Trailed
<1>9. PICK rec : rec = Advanced(op, state, "none", id)
  OBVIOUS
<1>10. rec \in Operation /\ rec.state = state /\ rec.assigned = TRUE /\ Trailed(rec)
  <2>1. "none" \in Reasons /\ id \in Evidence \cup {None}
    BY DEF Reasons
  <2> QED BY <1>4, <1>8, <1>9, <2>1, AdvancedFields
<1>11. operations' = [operations EXCEPT ![o] = rec]
  BY <1>1, <1>2, <1>7, <1>9 DEF evidenceTransition
<1> QED BY <1>1, <1>3, <1>5, <1>10, <1>11

LEMMA EvidenceStep ==
    ASSUME Core, NEW o \in Operations, NEW kind \in Kinds, NEW id \in Evidence,
           evidenceTransition(o, kind, id)
    PROVE  Core'
<1>1. UNCHANGED <<calls, provider, sends>>
  BY DEF evidenceTransition
<1> QED BY <1>1, EvidenceMoves, OperationMoves

(* The steps that change nothing Core speaks of.                           *)
LEMMA QuietStep ==
    ASSUME Core, UNCHANGED <<operations, calls, provider, sends>>
    PROVE  Core'
  BY DEF Core, CoreTyped, AllTrailed, DispatchKnown, Unsent, CallsKnow, CallKnows,
         SenderAlone, InState, Sends

-----------------------------------------------------------------------------
(* The records of the decisions, the evidence and the receipts stay typed. *)

LEMMA SessionsStep ==
    ASSUME SessionsTypeOK, SessionsNext
    PROVE  SessionsTypeOK'
<1>1. ASSUME NEW t \in Tokens, Issue(t) PROVE SessionsTypeOK'
  BY <1>1 DEF Issue, SessionsTypeOK, Session
<1>2. ASSUME NEW t \in Tokens, SessionEnds(t) PROVE SessionsTypeOK'
  BY <1>2 DEF SessionEnds, SessionsTypeOK, Session
<1>3. ASSUME NEW u \in Users, RevokePrincipal(u) PROVE SessionsTypeOK'
  BY <1>3 DEF RevokePrincipal, SubjectTokens, SessionsTypeOK, Session
<1>4. ASSUME NEW u \in Users, NEW capability \in Capabilities, RevokeCapability(u, capability)
      PROVE  SessionsTypeOK'
  BY <1>4 DEF RevokeCapability, SubjectTokens, SessionsTypeOK, Session
<1> QED BY <1>1, <1>2, <1>3, <1>4 DEF SessionsNext

(* A receipt repeats what the trail has.                                   *)
LEMMA ReceiptTyped ==
    ASSUME Core, NEW o \in Operations, operations[o] # None
    PROVE  ReceiptOf(o) \in Receipt
<1>1. PICK op : op = operations[o]
  OBVIOUS
<1>2. op \in Operation /\ Trailed(op)
  BY <1>1 DEF Core, CoreTyped, AllTrailed
<1>3. op.events \in Seq(Event) /\ op.revision \in Nat
  BY <1>2 DEF Operation
<1>4. Len(op.events) \in 1 .. Len(op.events)
  BY <1>2, <1>3 DEF Trailed
<1>5. op.events[Len(op.events)] \in Event
  BY <1>3, <1>4
<1>6. op.events[Len(op.events)].reason \in Reasons
  BY <1>5 DEF Event
<1>7. op.state \in OperationStates /\ op.evidenceIds \in SUBSET Evidence
  BY <1>2 DEF Operation
<1> QED BY <1>1, <1>3, <1>6, <1>7 DEF ReceiptOf, LastEvent, Receipt

LEMMA DecideTyped ==
    ASSUME RestTyped, Core, Decide
    PROVE  RestTyped'
<1>1. ASSUME NEW p \in Proposals, registerDecisionInputs(p) \/ replaceCurrentDecisionInputs(p)
      PROVE  RestTyped'
  BY <1>1 DEF registerDecisionInputs, replaceCurrentDecisionInputs, RestTyped, SessionsTypeOK
<1>2. ASSUME NEW t \in Tokens, NEW p \in Proposals, approve(t, p)
      PROVE  RestTyped'
  <2>1. sessions[t] \in Session /\ inputs[p] \in Input
    BY <1>2 DEF approve, Resolves, RestTyped, SessionsTypeOK
  <2>2. [version |-> inputs[p].version, approver |-> sessions[t].subject, revoked |-> FALSE]
          \in Approval
    BY <2>1 DEF Session, Input, Approval
  <2> QED BY <1>2, <2>2 DEF approve, RestTyped, SessionsTypeOK
<1>3. ASSUME NEW t \in Tokens, NEW p \in Proposals, revokeApproval(t, p)
      PROVE  RestTyped'
  <2>1. approvals[p] \in Approval
    BY <1>3 DEF revokeApproval, RestTyped
  <2>2. [approvals[p] EXCEPT !.revoked = TRUE] \in Approval
    BY <2>1 DEF Approval
  <2> QED BY <1>3, <2>2 DEF revokeApproval, RestTyped, SessionsTypeOK
<1>4. ASSUME NEW t \in Tokens, NEW p \in Proposals, NEW o \in Operations, reserve(t, p, o)
      PROVE  RestTyped'
  BY <1>4 DEF reserve, RestTyped, SessionsTypeOK
<1>5. ASSUME NEW v \in Versions, Expire(v) PROVE RestTyped'
  BY <1>5 DEF Expire, RestTyped, SessionsTypeOK
<1> QED BY <1>1, <1>2, <1>3, <1>4, <1>5 DEF Decide

LEMMA OutcomeTyped ==
    ASSUME RestTyped, Core, Outcome
    PROVE  RestTyped'
<1>1. ASSUME NEW o \in Operations, NEW kind \in Kinds, NEW id \in Evidence,
             evidenceTransition(o, kind, id)
      PROVE  RestTyped'
  BY <1>1 DEF evidenceTransition, RestTyped, SessionsTypeOK
<1>2. ASSUME NEW o \in Operations, receipt(o) PROVE RestTyped'
  <2>1. ReceiptOf(o) \in Receipt
    BY <1>2, ReceiptTyped DEF receipt
  <2> QED BY <1>2, <2>1 DEF receipt, RestTyped, SessionsTypeOK
<1> QED BY <1>1, <1>2 DEF Outcome

LEMMA ExecuteTyped ==
    ASSUME RestTyped, Execute
    PROVE  RestTyped'
<1>1. UNCHANGED <<sessions, inputs, expired, approvals, evidence, receipts>>
  BY DEF Execute, dispatch, reconcile, dispatchCancels, ProviderTakes, SendSettles, SendRejects,
         LookupSettles, Resume, dispatchAccepts, dispatchMismatches, dispatchRejected,
         dispatchUnknown, reconcileAbsent, reconcileMismatches, reconcileFound,
         UnchangedByResuming, UnchangedByProvider
<1> QED BY <1>1 DEF RestTyped, SessionsTypeOK

-----------------------------------------------------------------------------
(* The invariant.                                                          *)

LEMMA InitInv == Init => Inv
<1> SUFFICES ASSUME Init PROVE Inv
  OBVIOUS
<1>1. RestTyped
  BY DEF Init, SessionsInit, RestTyped, SessionsTypeOK
<1>2. CoreTyped
  BY DEF Init, CoreTyped, Idle, PCs
<1>3. AllTrailed /\ DispatchKnown /\ CallsKnow /\ SenderAlone
  BY DEF Init, AllTrailed, DispatchKnown, Unsent, CallsKnow, CallKnows, SenderAlone, InState,
         Sends, Idle, SendAnswers
<1> QED BY <1>1, <1>2, <1>3 DEF Inv, Core

LEMMA StepInv == Inv /\ [Next]_vars => Inv'
<1> SUFFICES ASSUME Inv, [Next]_vars PROVE Inv'
  OBVIOUS
<1> USE DEF Inv
<1>1. CASE UNCHANGED vars
  <2>1. RestTyped'
    BY <1>1 DEF vars, engineVars, RestTyped, SessionsTypeOK
  <2>2. Core'
    BY <1>1, QuietStep DEF vars, engineVars
  <2> QED BY <2>1, <2>2
<1>2. CASE Authority
  <2>1. RestTyped'
    BY <1>2, SessionsStep DEF Authority, engineVars, RestTyped
  <2>2. Core'
    BY <1>2, QuietStep DEF Authority, engineVars
  <2> QED BY <2>1, <2>2
<1>3. CASE Decide
  <2>1. Core'
    <3>1. ASSUME NEW t \in Tokens, NEW p \in Proposals, NEW o \in Operations, reserve(t, p, o)
          PROVE  Core'
      BY <3>1, ReserveStep
    <3>2. CASE ~\E t \in Tokens, p \in Proposals, o \in Operations : reserve(t, p, o)
      <4>1. UNCHANGED <<operations, calls, provider, sends>>
        BY <1>3, <3>2 DEF Decide, registerDecisionInputs, replaceCurrentDecisionInputs, approve,
                          revokeApproval, Expire
      <4> QED BY <4>1, QuietStep
    <3> QED BY <3>1, <3>2
  <2> QED BY <1>3, <2>1, DecideTyped
<1>4. CASE Execute
  <2>1. Core'
    BY <1>4, DispatchStep, ReconcileStep, CancelStep, ProviderStep, SettleStep, ResumeStep
       DEF Execute
  <2> QED BY <1>4, <2>1, ExecuteTyped
<1>5. CASE Outcome
  <2>1. ASSUME NEW o \in Operations, receipt(o) PROVE Core'
    BY <2>1, QuietStep DEF receipt
  <2>2. Core'
    BY <1>5, <2>1, EvidenceStep DEF Outcome
  <2> QED BY <1>5, <2>2, OutcomeTyped
<1> QED BY <1>1, <1>2, <1>3, <1>4, <1>5 DEF Next

LEMMA Invariance == Spec => []Inv
  BY InitInv, StepInv, PTL DEF Spec

(* The engine's Maps hold what their types say, whatever calls are under   *)
(* way: in particular an approval names a user, never a session.           *)
THEOREM TypeCorrect == Spec => []TypeOK
<1>1. Inv => TypeOK
  BY DEF Inv, Core, CoreTyped, RestTyped, TypeOK
<1> QED BY <1>1, Invariance, PTL

(* Two dispatch calls never send the same operation, and the one that sent *)
(* it finds it in state sending when its connector answers.                *)
THEOREM SendsOnce == Spec => []OneSender
<1>1. Inv => OneSender
  <2> SUFFICES ASSUME Inv, NEW o \in Operations
               PROVE  /\ sends[o] <= 1
                      /\ InState(o, {"sending"}) <=> \E k \in Calls : Sends(k, o)
                      /\ \A j, k \in Calls : Sends(j, o) /\ Sends(k, o) => j = k
    BY DEF OneSender
  <2>1. sends[o] <= 1
    BY DEF Inv, Core, DispatchKnown
  <2>2. ASSUME NEW k \in Calls, Sends(k, o) PROVE InState(o, {"sending"})
    BY <2>2 DEF Inv, Core, CallsKnow, CallKnows, Sends, SendPCs, SendAnswers, InState
  <2> QED BY <2>1, <2>2 DEF Inv, Core, SenderAlone
<1> QED BY <1>1, Invariance, PTL

(* providerAssignmentId is on record exactly in the states that need it,   *)
(* although it is written before the transition that may throw.            *)
THEOREM AssignmentsOnRecord == Spec => []AssignmentRecorded
<1>1. Inv => AssignmentRecorded
  BY DEF Inv, Core, DispatchKnown, AssignmentRecorded
<1> QED BY <1>1, Invariance, PTL

-----------------------------------------------------------------------------
(* The engine keeps the abstract promise of dispatch.                      *)

(* An operation that moves, alone, and the provider that does not.         *)
LEMMA BelievesStep ==
    ASSUME Core, NEW o \in Operations, NEW rec \in Operation,
           operations' = [operations EXCEPT ![o] = rec],
           UNCHANGED Assigned,
           \/ operations[o] = None /\ rec.state = "reserved"
           \/ /\ operations[o] # None
              /\ \/ operations[o].state = "reserved" /\ rec.state \in {"cancelled", "sending"}
                 \/ operations[o].state \in {"sending", "unknown"} /\ rec.state = "unknown"
                 \/ operations[o].state \in AssignedStates /\ rec.state \in AssignedStates
                 \/ operations[o].state = "failed" /\ rec.state = "failed"
                 \/ /\ operations[o].state \in {"sending", "unknown"}
                    /\ rec.state \in AssignedStates /\ o \in Assigned
                 \/ /\ operations[o].state \in {"sending", "unknown"}
                    /\ rec.state = "failed" /\ o \notin Assigned
    PROVE  [Knowledge!Next]_(Knowledge!vars)
<1>1. rec # None
  BY OperationIsNotNone
<1>2. PICK b : b = BeliefOf(o)'
  OBVIOUS
<1>3. Belief' = [Belief EXCEPT ![o] = b]
  BY <1>2 DEF Belief, BeliefOf, Core, CoreTyped
<1>4. Belief[o] = BeliefOf(o)
  BY DEF Belief
<1>5. operations'[o] = rec
  BY DEF Core, CoreTyped
<1> DEFINE Moves2(from, to) == BeliefOf(o) = from /\ b = to
<1>6. \/ Moves2("none", "pending")
      \/ Moves2("pending", "not_assigned")
      \/ Moves2("pending", "uncertain")
      \/ Moves2("uncertain", "assigned") /\ o \in Assigned
      \/ Moves2("uncertain", "not_assigned") /\ o \notin Assigned
      \/ b = BeliefOf(o)
  BY <1>1, <1>2, <1>5 DEF BeliefOf, AssignedStates
<1>7. CASE b = BeliefOf(o)
  BY <1>3, <1>4, <1>7 DEF Knowledge!vars, Belief
<1>8. CASE Moves2("none", "pending")
  BY <1>3, <1>4, <1>8 DEF Knowledge!Next, Knowledge!Reserve, Knowledge!Believe
<1>9. CASE Moves2("pending", "not_assigned")
  BY <1>3, <1>4, <1>9 DEF Knowledge!Next, Knowledge!Withdraw, Knowledge!Believe
<1>10. CASE Moves2("pending", "uncertain")
  BY <1>3, <1>4, <1>10 DEF Knowledge!Next, Knowledge!Dispatch, Knowledge!Believe
<1>11. CASE Moves2("uncertain", "assigned") /\ o \in Assigned
  BY <1>3, <1>4, <1>11 DEF Knowledge!Next, Knowledge!ConcludeAssigned, Knowledge!Believe
<1>12. CASE Moves2("uncertain", "not_assigned") /\ o \notin Assigned
  BY <1>3, <1>4, <1>12 DEF Knowledge!Next, Knowledge!ConcludeNotAssigned, Knowledge!Believe
<1> QED BY <1>6, <1>7, <1>8, <1>9, <1>10, <1>11, <1>12

(* The steps that leave the operations and the provider alone stutter.     *)
LEMMA KnowledgeStutters ==
    ASSUME UNCHANGED <<operations, provider>>
    PROVE  [Knowledge!Next]_(Knowledge!vars)
  BY DEF Knowledge!vars, Belief, BeliefOf, Assigned

(* The provider takes only what the engine is uncertain about.             *)
LEMMA ProviderAccepts ==
    ASSUME Core, NEW o \in Operations, ProviderTakes(o)
    PROVE  [Knowledge!Next]_(Knowledge!vars)
<1>1. /\ provider[o] = "in_flight"
      /\ provider'[o] \in {"held", "misbound", "none"}
      /\ \A x \in Operations : x # o => provider'[x] = provider[x]
      /\ UNCHANGED operations
  BY DEF ProviderTakes, UnchangedByProvider, Core, CoreTyped
<1>2. BeliefOf(o) = "uncertain"
  <2>1. /\ ~Unsent(o)
        /\ operations[o].state \notin AssignedStates
        /\ operations[o].state # "failed"
    BY <1>1 DEF Core, DispatchKnown, Unsent
  <2>2. operations[o] \in Operation
    BY <2>1 DEF Core, CoreTyped, Unsent
  <2>3. operations[o].state \in OperationStates
    BY <2>2 DEF Operation
  <2> QED BY <2>1, <2>3 DEF BeliefOf, Unsent, OperationStates, AssignedStates
<1>3. UNCHANGED Belief
  BY <1>1 DEF Belief, BeliefOf
<1>4. CASE provider'[o] = "held"
  <2>1. Assigned' = Assigned \cup {o}
    BY <1>1, <1>4 DEF Assigned
  <2>2. Belief[o] = "uncertain"
    BY <1>2 DEF Belief
  <2>3. Knowledge!Accept(o)
    BY <1>3, <2>1, <2>2 DEF Knowledge!Accept
  <2> QED BY <2>3 DEF Knowledge!Next
<1>5. CASE provider'[o] # "held"
  <2>1. UNCHANGED Assigned
    BY <1>1, <1>5 DEF Assigned
  <2> QED BY <1>3, <2>1 DEF Knowledge!vars
<1> QED BY <1>4, <1>5

LEMMA ExecuteKnows ==
    ASSUME Core, Execute
    PROVE  [Knowledge!Next]_(Knowledge!vars)
<1>1. ASSUME NEW k \in Calls, NEW o \in Operations, dispatch(k, o)
      PROVE  [Knowledge!Next]_(Knowledge!vars)
  <2>1. /\ operations[o] # None
        /\ operations[o].state = "reserved"
        /\ operations[o] \in Operation
        /\ provider[o] = "none"
        /\ provider' = [provider EXCEPT ![o] = "in_flight"]
    BY <1>1 DEF dispatch, InState, Core, CoreTyped, DispatchKnown, Unsent
  <2>2. PICK rec : rec = Advanced(operations[o], "sending", "none", None)
    OBVIOUS
  <2>3. rec \in Operation /\ rec.state = "sending"
    BY <2>1, <2>2, AdvancedFields DEF OperationStates, Reasons
  <2>4. operations' = [operations EXCEPT ![o] = rec]
    BY <1>1, <2>2 DEF dispatch
  <2>5. UNCHANGED Assigned
    BY <2>1 DEF Assigned, Core, CoreTyped
  <2> QED BY <2>1, <2>3, <2>4, <2>5, BelievesStep
<1>2. ASSUME NEW o \in Operations, dispatchCancels(o)
      PROVE  [Knowledge!Next]_(Knowledge!vars)
  <2>1. /\ operations[o] # None
        /\ operations[o].state = "reserved"
        /\ operations[o] \in Operation
        /\ UNCHANGED provider
    BY <1>2 DEF dispatchCancels, InState, Core, CoreTyped
  <2>2. PICK rec : rec = Advanced(operations[o], "cancelled", "approval_stale_or_revoked", None)
    OBVIOUS
  <2>3. rec \in Operation /\ rec.state = "cancelled"
    BY <2>1, <2>2, AdvancedFields DEF OperationStates, Reasons
  <2>4. operations' = [operations EXCEPT ![o] = rec]
    BY <1>2, <2>2 DEF dispatchCancels
  <2>5. UNCHANGED Assigned
    BY <2>1 DEF Assigned
  <2> QED BY <2>1, <2>3, <2>4, <2>5, BelievesStep
<1>3. ASSUME NEW k \in Calls, Resume(k)
      PROVE  [Knowledge!Next]_(Knowledge!vars)
  <2>1. PICK o \in Operations, rec \in Operation :
             /\ o = calls[k].operation
             /\ operations[o] # None
             /\ ~Unsent(o)
             /\ Trailed(rec)
             /\ ~(rec.state \in {"reserved", "cancelled", "sending"})
             /\ rec.assigned <=> rec.state \in AssignedStates
             /\ rec.state \in AssignedStates => provider[o] = "held"
             /\ rec.state = "failed" => provider[o] \in {"none", "misbound"}
             /\ rec.state = "unknown" => operations[o].state \in {"sending", "unknown"}
             /\ operations' = [operations EXCEPT ![o] = rec]
    BY <1>3, ResumeMoves
  <2>2. UNCHANGED Assigned
    BY <1>3 DEF Resume, dispatchAccepts, dispatchMismatches, dispatchRejected, dispatchUnknown,
                reconcileAbsent, reconcileMismatches, reconcileFound, UnchangedByResuming, Assigned
  <2>3. operations[o] \in Operation
    BY <2>1 DEF Core, CoreTyped
  <2>4. operations[o].state \in OperationStates /\ rec.state \in OperationStates
    BY <2>1, <2>3 DEF Operation
  <2>5. o \in Assigned <=> provider[o] = "held"
    BY DEF Assigned
  <2>6. /\ operations[o].state \in AssignedStates => provider[o] = "held"
        /\ operations[o].state = "failed" => provider[o] \in {"none", "misbound"}
    BY <2>1 DEF Core, DispatchKnown
  <2>7. \/ operations[o].state \in {"sending", "unknown"} /\ rec.state = "unknown"
        \/ operations[o].state \in AssignedStates /\ rec.state \in AssignedStates
        \/ operations[o].state = "failed" /\ rec.state = "failed"
        \/ /\ operations[o].state \in {"sending", "unknown"}
           /\ rec.state \in AssignedStates /\ o \in Assigned
        \/ /\ operations[o].state \in {"sending", "unknown"}
           /\ rec.state = "failed" /\ o \notin Assigned
    BY <2>1, <2>4, <2>5, <2>6 DEF Unsent, OperationStates, AssignedStates
  <2> QED BY <2>1, <2>2, <2>7, BelievesStep
<1>4. ASSUME NEW k \in Calls, SendSettles(k) \/ SendRejects(k) \/ LookupSettles(k)
      PROVE  [Knowledge!Next]_(Knowledge!vars)
  <2>1. UNCHANGED operations
    BY <1>4 DEF SendSettles, SendRejects, LookupSettles, UnchangedByProvider
  <2>2. UNCHANGED Assigned
    <3>1. CASE SendRejects(k)
      BY <3>1 DEF SendRejects, Assigned, Core, CoreTyped
    <3>2. CASE SendSettles(k) \/ LookupSettles(k)
      BY <3>2 DEF SendSettles, LookupSettles, Assigned
    <3> QED BY <1>4, <3>1, <3>2
  <2> QED BY <2>1, <2>2 DEF Knowledge!vars, Belief, BeliefOf
<1>5. ASSUME NEW k \in Calls, NEW o \in Operations, reconcile(k, o)
      PROVE  [Knowledge!Next]_(Knowledge!vars)
  BY <1>5, KnowledgeStutters DEF reconcile
<1> QED BY <1>1, <1>2, <1>3, <1>4, <1>5, ProviderAccepts DEF Execute

LEMMA KnowledgeStep ==
    ASSUME Inv, [Next]_vars
    PROVE  [Knowledge!Next]_(Knowledge!vars)
<1> USE DEF Inv
<1>1. CASE UNCHANGED vars
  BY <1>1, KnowledgeStutters DEF vars, engineVars
<1>2. CASE Authority
  BY <1>2, KnowledgeStutters DEF Authority, engineVars
<1>3. CASE Decide
  <2>1. ASSUME NEW t \in Tokens, NEW p \in Proposals, NEW o \in Operations, reserve(t, p, o)
        PROVE  [Knowledge!Next]_(Knowledge!vars)
    <3>1. UNCHANGED Assigned
      BY <2>1, ReserveMoves DEF Assigned
    <3> QED BY <2>1, <3>1, ReserveMoves, BelievesStep
  <2>2. CASE ~\E t \in Tokens, p \in Proposals, o \in Operations : reserve(t, p, o)
    <3>1. UNCHANGED <<operations, provider>>
      BY <1>3, <2>2 DEF Decide, registerDecisionInputs, replaceCurrentDecisionInputs, approve,
                        revokeApproval, Expire
    <3> QED BY <3>1, KnowledgeStutters
  <2> QED BY <2>1, <2>2
<1>4. CASE Execute
  BY <1>4, ExecuteKnows
<1>5. CASE Outcome
  <2>1. ASSUME NEW o \in Operations, NEW kind \in Kinds, NEW id \in Evidence,
               evidenceTransition(o, kind, id)
        PROVE  [Knowledge!Next]_(Knowledge!vars)
    <3>1. UNCHANGED Assigned
      BY <2>1 DEF evidenceTransition, Assigned
    <3> QED BY <2>1, <3>1, EvidenceMoves, BelievesStep
  <2>2. ASSUME NEW o \in Operations, receipt(o)
        PROVE  [Knowledge!Next]_(Knowledge!vars)
    BY <2>2, KnowledgeStutters DEF receipt
  <2> QED BY <1>5, <2>1, <2>2 DEF Outcome
<1> QED BY <1>1, <1>2, <1>3, <1>4, <1>5 DEF Next

(* For any number of calls, operations and users, the engine refines       *)
(* DispatchKnowledge: what it believes of the provider is true or is       *)
(* marked as not known.                                                    *)
THEOREM KeepsKnowledge == Spec => KnowledgeSpec
<1>1. Init => Knowledge!Init
  BY DEF Init, Knowledge!Init, Assigned, Belief, BeliefOf
<1>2. Inv /\ [Next]_vars => [Knowledge!Next]_(Knowledge!vars)
  BY KnowledgeStep
<1> QED BY <1>1, <1>2, Invariance, PTL DEF Spec, KnowledgeSpec, Knowledge!Spec

-----------------------------------------------------------------------------
(* A withdrawal is for good.                                               *)

(* What was reserved has an approval on record.                            *)
ApprovalsOnRecord ==
    \A o \in Operations :
        operations[o] # None => approvals[operations[o].proposal] # None

(* No step takes an approval, its version or its withdrawal back.          *)
LEMMA ApprovalsStay ==
    ASSUME RestTyped, [Next]_vars
    PROVE  /\ expired \subseteq expired'
           /\ \A p \in Proposals : approvals[p] # None =>
                /\ approvals'[p] # None
                /\ approvals'[p].version = approvals[p].version
                /\ approvals[p].revoked => approvals'[p].revoked
<1> DEFINE Stay == /\ expired \subseteq expired'
                   /\ \A p \in Proposals : approvals[p] # None =>
                        /\ approvals'[p] # None
                        /\ approvals'[p].version = approvals[p].version
                        /\ approvals[p].revoked => approvals'[p].revoked
<1>1. CASE UNCHANGED <<expired, approvals>>
  BY <1>1
<1>2. ASSUME NEW t \in Tokens, NEW p \in Proposals, approve(t, p)
      PROVE  Stay
  BY <1>2 DEF approve, RestTyped
<1>3. ASSUME NEW t \in Tokens, NEW p \in Proposals, revokeApproval(t, p)
      PROVE  Stay
  <2>1. PICK new : new = [approvals[p] EXCEPT !.revoked = TRUE]
    OBVIOUS
  <2>2. approvals[p] # None /\ approvals[p] \in Approval
    BY <1>3 DEF revokeApproval, RestTyped
  <2>3. new \in Approval /\ new.version = approvals[p].version /\ new.revoked
    BY <2>1, <2>2 DEF Approval
  <2>4. new # None
    BY <2>3, NoneAssumption
  <2>5. approvals' = [approvals EXCEPT ![p] = new] /\ expired' = expired
    BY <1>3, <2>1 DEF revokeApproval
  <2> QED
    BY <2>3, <2>4, <2>5 DEF RestTyped
<1>4. ASSUME NEW v \in Versions, Expire(v)
      PROVE  Stay
  BY <1>4 DEF Expire
<1>5. CASE Decide
  <2>1. ASSUME NEW p \in Proposals, registerDecisionInputs(p) \/ replaceCurrentDecisionInputs(p)
        PROVE  Stay
    BY <2>1 DEF registerDecisionInputs, replaceCurrentDecisionInputs
  <2>2. ASSUME NEW t \in Tokens, NEW p \in Proposals, NEW o \in Operations, reserve(t, p, o)
        PROVE  Stay
    BY <2>2 DEF reserve
  <2> QED
    BY <1>2, <1>3, <1>4, <1>5, <2>1, <2>2 DEF Decide
<1>6. CASE Authority \/ Execute \/ Outcome \/ UNCHANGED vars
  BY <1>1, <1>6
     DEF Authority, engineVars, vars, Execute, dispatch, reconcile, dispatchCancels,
         ProviderTakes, SendSettles, SendRejects, LookupSettles, Resume, dispatchAccepts,
         dispatchMismatches, dispatchRejected, dispatchUnknown, reconcileAbsent,
         reconcileMismatches, reconcileFound, UnchangedByResuming, UnchangedByProvider,
         Outcome, evidenceTransition, receipt
<1> QED
  BY <1>5, <1>6 DEF Next

(* A reserved operation stays as it is, is cancelled, or is sent, and is   *)
(* sent only while its snapshot is current.                                *)
LEMMA ReservedMoves ==
    ASSUME Inv, [Next]_vars, NEW o \in Operations, InState(o, {"reserved"})
    PROVE  \/ operations'[o] = operations[o] /\ sends'[o] = sends[o]
           \/ operations'[o].state = "cancelled" /\ sends'[o] = sends[o]
           \/ SnapshotIsCurrent(o)
<1> USE DEF Inv
<1> DEFINE Moves3 == \/ operations'[o] = operations[o] /\ sends'[o] = sends[o]
                     \/ operations'[o].state = "cancelled" /\ sends'[o] = sends[o]
                     \/ SnapshotIsCurrent(o)
<1>0. /\ operations[o] # None /\ operations[o].state = "reserved"
      /\ operations[o] \in Operation /\ Trailed(operations[o])
      /\ operations \in [Operations -> Operation \cup {None}]
      /\ sends \in [Operations -> Nat]
  BY DEF InState, Core, CoreTyped, AllTrailed
<1>1. CASE UNCHANGED <<operations, sends>>
  BY <1>1
<1>2. ASSUME NEW t \in Tokens, NEW p \in Proposals, NEW x \in Operations, reserve(t, p, x)
      PROVE  Moves3
  BY <1>0, <1>2 DEF reserve
<1>3. ASSUME NEW k \in Calls, NEW x \in Operations, dispatch(k, x)
      PROVE  Moves3
  BY <1>0, <1>3 DEF dispatch
<1>4. ASSUME NEW x \in Operations, dispatchCancels(x)
      PROVE  Moves3
  <2>1. CASE x = o
    <3>1. operations'[o] = Advanced(operations[o], "cancelled", "approval_stale_or_revoked", None)
          /\ sends' = sends
      BY <1>0, <1>4, <2>1 DEF dispatchCancels
    <3>2. "cancelled" \in OperationStates /\ "approval_stale_or_revoked" \in Reasons
      BY DEF OperationStates, Reasons
    <3> QED
      BY <1>0, <3>1, <3>2, AdvancedFields
  <2>2. CASE x # o
    BY <1>0, <1>4, <2>2 DEF dispatchCancels
  <2> QED
    BY <2>1, <2>2
<1>5. ASSUME NEW k \in Calls, Resume(k)
      PROVE  Moves3
  <2>1. PICK x \in Operations, rec \in Operation :
          ~Unsent(x) /\ operations' = [operations EXCEPT ![x] = rec]
    BY <1>5, ResumeMoves
  <2>2. x # o /\ sends' = sends
    BY <1>0, <1>5, <2>1
       DEF Unsent, Resume, dispatchAccepts, dispatchMismatches, dispatchRejected,
           dispatchUnknown, reconcileAbsent, reconcileMismatches, reconcileFound,
           UnchangedByResuming
  <2> QED
    BY <1>0, <2>1, <2>2
<1>6. ASSUME NEW x \in Operations, NEW kind \in Kinds, NEW id \in Evidence,
             evidenceTransition(x, kind, id)
      PROVE  Moves3
  <2>1. PICK rec \in Operation :
          /\ operations[x].state \in AssignedStates
          /\ operations' = [operations EXCEPT ![x] = rec]
    BY <1>6, EvidenceMoves
  <2>2. x # o /\ sends' = sends
    BY <1>0, <1>6, <2>1 DEF AssignedStates, evidenceTransition
  <2> QED
    BY <1>0, <2>1, <2>2
<1>7. CASE Decide
  BY <1>1, <1>2, <1>7 DEF Decide, registerDecisionInputs, replaceCurrentDecisionInputs, approve,
                          revokeApproval, Expire
<1>8. CASE Execute
  <2>1. ASSUME NEW x \in Operations, ProviderTakes(x) PROVE Moves3
    BY <1>1, <2>1 DEF ProviderTakes, UnchangedByProvider
  <2>2. ASSUME NEW k \in Calls, SendSettles(k) \/ SendRejects(k) \/ LookupSettles(k)
        PROVE  Moves3
    BY <1>1, <2>2 DEF SendSettles, SendRejects, LookupSettles, UnchangedByProvider
  <2>3. ASSUME NEW k \in Calls, NEW x \in Operations, reconcile(k, x) PROVE Moves3
    BY <1>1, <2>3 DEF reconcile
  <2> QED
    BY <1>3, <1>4, <1>5, <1>8, <2>1, <2>2, <2>3 DEF Execute
<1>9. CASE Outcome
  <2>1. ASSUME NEW x \in Operations, receipt(x) PROVE Moves3
    BY <1>1, <2>1 DEF receipt
  <2> QED
    BY <1>6, <1>9, <2>1 DEF Outcome
<1>10. CASE Authority \/ UNCHANGED vars
  BY <1>1, <1>10 DEF Authority, engineVars, vars
<1> QED
  BY <1>7, <1>8, <1>9, <1>10 DEF Next
-----------------------------------------------------------------------------
(* The trail. A step leaves every operation but one alone; that one is     *)
(* created, or noted in other fields, or advanced by one event.            *)

SameTrail(a, b) ==
    /\ b.proposal = a.proposal
    /\ b.state = a.state
    /\ b.revision = a.revision
    /\ b.events = a.events
    /\ b.evidenceIds = a.evidenceIds

Grows(a, b, event) ==
    /\ event.state \in lifecycleTransitions[a.state]
    /\ b.proposal = a.proposal
    /\ b.state = event.state
    /\ b.revision = a.revision + 1
    /\ b.events = Append(a.events, event)
    /\ b.evidenceIds = a.evidenceIds \cup ({event.evidence} \ {None})

Fresh(b) ==
    /\ approvals[b.proposal] # None
    /\ b.state = "reserved"
    /\ b.revision = 0
    /\ b.events = <<[state |-> "reserved", reason |-> "none", evidence |-> None]>>
    /\ b.evidenceIds = {}

(* The event is new to the engine if it rests on evidence.                 *)
NewsTo(event) ==
    event.evidence # None => event.evidence \notin evidence
                             /\ evidence' = evidence \cup {event.evidence}

Alone(o) == /\ operations'[o] \in Operation
            /\ \A x \in Operations \ {o} : operations'[x] = operations[x]

Trails(o) ==
    /\ Alone(o)
    /\ \/ operations[o] = None /\ Fresh(operations'[o])
       \/ operations[o] # None /\ SameTrail(operations[o], operations'[o])
       \/ operations[o] # None /\ \E event \in Event :
             NewsTo(event) /\ Grows(operations[o], operations'[o], event)

(* #transition is one event more.                                          *)
LEMMA AdvancedGrows ==
    ASSUME NEW old \in Operation, NEW op \in Operation, SameTrail(old, op),
           NEW state \in lifecycleTransitions[old.state], NEW reason
    PROVE  Grows(old, Advanced(op, state, reason, None),
                 [state |-> state, reason |-> reason, evidence |-> None])
  BY DEF SameTrail, Grows, Advanced, Operation

(* #transition after an await, whether it is allowed or throws.            *)
LEMMA TransitionTrails ==
    ASSUME operations \in [Operations -> Operation \cup {None}],
           NEW o \in Operations, operations[o] # None, operations[o] \in Operation,
           NEW op \in Operation, SameTrail(operations[o], op),
           NEW state \in OperationStates, NEW reason \in Reasons,
           Transition(o, op, state, reason)
    PROVE  Trails(o)
<1> DEFINE event == [state |-> state, reason |-> reason, evidence |-> None]
           rec == IF Allowed(o, state) THEN Advanced(op, state, reason, None) ELSE op
<1>1. event \in Event /\ NewsTo(event)
  BY DEF Event, NewsTo
<1>2. operations' = [operations EXCEPT ![o] = rec] /\ rec \in Operation
  BY AdvancedFields DEF Transition
<1>3. operations'[o] = rec /\ Alone(o)
  BY <1>2 DEF Alone
<1>4. CASE Allowed(o, state)
  <2>1. Grows(operations[o], operations'[o], event)
    BY <1>3, <1>4, AdvancedGrows DEF Allowed
  <2> QED
    BY <1>1, <1>3, <2>1 DEF Trails
<1>5. CASE ~Allowed(o, state)
  BY <1>3, <1>5 DEF Trails
<1> QED
  BY <1>4, <1>5

(* dispatch up to its await: one event, to sending or to cancelled.        *)
LEMMA DispatchTrails ==
    ASSUME Inv, NEW o \in Operations,
           (\E k \in Calls : dispatch(k, o)) \/ dispatchCancels(o)
    PROVE  Trails(o)
<1>1. /\ operations \in [Operations -> Operation \cup {None}]
      /\ operations[o] \in Operation /\ operations[o] # None
      /\ operations[o].state = "reserved"
  BY DEF Inv, Core, CoreTyped, dispatch, dispatchCancels, InState
<1>2. SameTrail(operations[o], operations[o])
  BY DEF SameTrail
<1>3. PICK state \in {"sending", "cancelled"},
           reason \in {"none", "approval_stale_or_revoked"} :
        operations' = [operations EXCEPT
                         ![o] = Advanced(operations[o], state, reason, None)]
  BY DEF dispatch, dispatchCancels
<1>4. Allowed(o, state) /\ state \in OperationStates /\ reason \in Reasons
  BY <1>1 DEF Allowed, lifecycleTransitions, OperationStates, Reasons
<1>5. Transition(o, operations[o], state, reason)
  BY <1>3, <1>4 DEF Transition
<1> QED
  BY <1>1, <1>2, <1>4, <1>5, TransitionTrails

(* A call that goes on adds one event, or, where it throws, none.          *)
LEMMA ResumeTrails ==
    ASSUME Inv, NEW k \in Calls, Resume(k)
    PROVE  UNCHANGED operations \/ \E o \in Operations : Trails(o)
<1>1. calls[k].pc # "idle"
  BY DEF Resume, dispatchAccepts, dispatchMismatches, dispatchRejected,
         dispatchUnknown, reconcileAbsent, reconcileMismatches, reconcileFound, Resumes
<1>2. PICK o \in Operations : /\ o = calls[k].operation
                              /\ operations[o] \in Operation
                              /\ operations[o] # None
  BY <1>1, CallOperation DEF Inv
<1>3. PICK noted : noted = [operations[o] EXCEPT !.assigned = TRUE]
  OBVIOUS
<1>4. /\ noted \in Operation
      /\ SameTrail(operations[o], noted) /\ SameTrail(operations[o], operations[o])
  BY <1>2, <1>3 DEF Operation, SameTrail
<1>5. \/ operations' = operations
      \/ \E op \in {operations[o], noted}, state \in OperationStates, reason \in Reasons :
           Transition(o, op, state, reason)
  BY <1>2, <1>3
     DEF Resume, dispatchAccepts, dispatchMismatches, dispatchRejected,
         dispatchUnknown, reconcileAbsent, reconcileMismatches, reconcileFound,
         OperationStates, Reasons
<1> QED
  BY <1>2, <1>4, <1>5, TransitionTrails DEF Inv, Core, CoreTyped

(* Evidence is one event with an identifier that was not in use.           *)
LEMMA EvidenceTrails ==
    ASSUME Inv, NEW o \in Operations, NEW kind \in Kinds, NEW id \in Evidence,
           evidenceTransition(o, kind, id)
    PROVE  Trails(o)
<1> DEFINE event == [state |-> targetByKind[kind], reason |-> "none", evidence |-> id]
<1>1. /\ operations \in [Operations -> Operation \cup {None}]
      /\ operations[o] \in Operation /\ operations[o] # None
      /\ targetByKind[kind] \in lifecycleTransitions[operations[o].state]
  BY DEF Inv, Core, CoreTyped, evidenceTransition, Allowed
<1>2. targetByKind[kind] \in OperationStates /\ "none" \in Reasons /\ id # None
  BY KindsAssumption, Targets, NoneAssumption DEF Reasons
<1>3. event \in Event /\ NewsTo(event)
  BY <1>2 DEF Event, NewsTo, evidenceTransition
<1>4. PICK op : op = WithEvidence(operations[o], id)
  OBVIOUS
<1>5. /\ op \in Operation
      /\ op.proposal = operations[o].proposal
      /\ op.state = operations[o].state
      /\ op.revision = operations[o].revision
      /\ op.events = operations[o].events
      /\ op.evidenceIds = operations[o].evidenceIds \cup {id}
  BY <1>1, <1>4 DEF WithEvidence, Operation
<1>6. PICK rec : rec = Advanced(op, targetByKind[kind], "none", id)
  OBVIOUS
<1>7. rec \in Operation
  BY <1>2, <1>5, <1>6, AdvancedFields
<1>8. Grows(operations[o], rec, event)
  BY <1>1, <1>2, <1>5, <1>6 DEF Grows, Advanced, Operation
<1>9. operations' = [operations EXCEPT ![o] = rec]
  BY <1>4, <1>6 DEF evidenceTransition
<1> QED
  BY <1>1, <1>3, <1>7, <1>8, <1>9 DEF Trails, Alone

(* reserve creates the operation it returns.                               *)
LEMMA ReserveTrails ==
    ASSUME Inv, NEW t \in Tokens, NEW p \in Proposals, NEW o \in Operations,
           reserve(t, p, o)
    PROVE  Trails(o)
<1>1. operations \in [Operations -> Operation \cup {None}] /\ operations[o] = None
  BY DEF Inv, Core, CoreTyped, reserve
<1>2. PICK rec \in Operation : operations' = [operations EXCEPT ![o] = rec]
  BY ReserveMoves DEF Inv
<1>3. operations'[o] = rec
  BY <1>1, <1>2
<1>4. Fresh(operations'[o])
  BY <1>1 DEF reserve, Fresh
<1> QED
  BY <1>1, <1>2, <1>3, <1>4 DEF Trails, Alone

(* Every step moves at most one operation, and by one event.               *)
LEMMA StepTrails ==
    ASSUME Inv, [Next]_vars
    PROVE  UNCHANGED operations \/ \E o \in Operations : Trails(o)
<1>1. CASE Decide
  BY <1>1, ReserveTrails
     DEF Decide, registerDecisionInputs, replaceCurrentDecisionInputs, approve,
         revokeApproval, Expire
<1>2. CASE Execute
  BY <1>2, DispatchTrails, ResumeTrails
     DEF Execute, reconcile, ProviderTakes, SendSettles, SendRejects, LookupSettles,
         UnchangedByProvider
<1>3. CASE Outcome
  BY <1>3, EvidenceTrails DEF Outcome, receipt
<1>4. CASE Authority \/ UNCHANGED vars
  BY <1>4 DEF Authority, engineVars, vars
<1> QED
  BY <1>1, <1>2, <1>3, <1>4 DEF Next
-----------------------------------------------------------------------------
(* The record: trails without gaps, and receipts that stay true.           *)

(* The identifiers of an operation are those of its trail, and in use.     *)
IdsOf(op) == {op.events[i].evidence : i \in 1 .. op.revision + 1} \ {None}

EvidenceKnown ==
    \A o \in Operations :
        /\ operations[o] = None => receipts[o] = {}
        /\ operations[o] # None =>
             /\ operations[o].evidenceIds = IdsOf(operations[o])
             /\ operations[o].evidenceIds \subseteq evidence

RecordInv == TrailComplete /\ ReceiptsTrue /\ EvidenceKnown /\ ApprovalsOnRecord

(* Evidence identifiers are never freed.                                   *)
LEMMA EvidenceGrows ==
    ASSUME [Next]_vars
    PROVE  evidence \subseteq evidence'
  BY DEF Next, Authority, Decide, Execute, Outcome, vars, engineVars,
         registerDecisionInputs, replaceCurrentDecisionInputs, approve, revokeApproval,
         reserve, Expire, dispatch, reconcile, dispatchCancels, ProviderTakes, SendSettles,
         SendRejects, LookupSettles, Resume, dispatchAccepts, dispatchMismatches,
         dispatchRejected, dispatchUnknown, reconcileAbsent, reconcileMismatches,
         reconcileFound, UnchangedByResuming, UnchangedByProvider, evidenceTransition,
         receipt

(* Receipts change only where one is issued, which moves no operation.     *)
LEMMA ReceiptStep ==
    ASSUME [Next]_vars
    PROVE  UNCHANGED receipts \/ \E o \in Operations : receipt(o)
  BY DEF Next, Authority, Decide, Execute, Outcome, vars, engineVars,
         registerDecisionInputs, replaceCurrentDecisionInputs, approve, revokeApproval,
         reserve, Expire, dispatch, reconcile, dispatchCancels, ProviderTakes, SendSettles,
         SendRejects, LookupSettles, Resume, dispatchAccepts, dispatchMismatches,
         dispatchRejected, dispatchUnknown, reconcileAbsent, reconcileMismatches,
         reconcileFound, UnchangedByResuming, UnchangedByProvider, evidenceTransition

(* The trail of a typed operation.                                         *)
LEMMA TrailTyped ==
    ASSUME Inv, NEW o \in Operations, operations[o] # None
    PROVE  /\ operations[o] \in Operation
           /\ operations[o].events \in Seq(Event)
           /\ operations[o].revision \in Nat
           /\ Len(operations[o].events) = operations[o].revision + 1
           /\ operations[o].evidenceIds \subseteq Evidence
  BY DEF Inv, Core, CoreTyped, AllTrailed, Trailed, Operation

(* What a longer trail has in each place.                                  *)
LEMMA Longer ==
    ASSUME NEW a, NEW b, NEW event, Grows(a, b, event), event \in Event,
           a.events \in Seq(Event), a.revision \in Nat, Len(a.events) = a.revision + 1
    PROVE  /\ b.revision = a.revision + 1
           /\ Len(b.events) = b.revision + 1
           /\ \A i \in 1 .. a.revision + 1 : b.events[i] = a.events[i]
           /\ b.events[b.revision + 1] = event
           /\ DOMAIN a.events = 1 .. a.revision + 1
           /\ DOMAIN b.events = 1 .. b.revision + 1
  BY DEF Grows

LEMMA LongerHere ==
    ASSUME Inv, NEW o \in Operations, operations[o] # None,
           NEW event \in Event, Grows(operations[o], operations'[o], event)
    PROVE  /\ operations[o].revision \in Nat
           /\ operations'[o].revision = operations[o].revision + 1
           /\ \A i \in 1 .. operations[o].revision + 1 :
                 operations'[o].events[i] = operations[o].events[i]
           /\ operations'[o].events[operations'[o].revision + 1] = event
           /\ DOMAIN operations'[o].events = 1 .. operations'[o].revision + 1
<1> DEFINE a == operations[o]
           b == operations'[o]
<1>1. /\ a.events \in Seq(Event) /\ a.revision \in Nat
      /\ Len(a.events) = a.revision + 1
  BY TrailTyped
<1>2. Grows(a, b, event)
  OBVIOUS
<1> HIDE DEF a, b
<1>3. /\ b.revision = a.revision + 1
      /\ \A i \in 1 .. a.revision + 1 : b.events[i] = a.events[i]
      /\ b.events[b.revision + 1] = event
      /\ DOMAIN b.events = 1 .. b.revision + 1
  BY <1>1, <1>2, Longer
<1> QED
  BY <1>1, <1>3 DEF a, b

(* What the trail of an operation says of that operation alone.            *)
OwnTrail(op) ==
    /\ Len(op.events) = op.revision + 1
    /\ op.events[1].state = "reserved"
    /\ op.events[Len(op.events)].state = op.state
    /\ \A i \in 1 .. op.revision :
          op.events[i + 1].state \in lifecycleTransitions[op.events[i].state]

(* A legal event at its end keeps a trail complete.                        *)
LEMMA OwnTrailGrows ==
    ASSUME NEW a, NEW b, NEW event, Grows(a, b, event), event \in Event,
           a.events \in Seq(Event), a.revision \in Nat, OwnTrail(a)
    PROVE  OwnTrail(b)
<1>1. /\ b.revision = a.revision + 1
      /\ Len(b.events) = b.revision + 1
      /\ \A i \in 1 .. a.revision + 1 : b.events[i] = a.events[i]
      /\ b.events[b.revision + 1] = event
      /\ b.state = event.state
      /\ event.state \in lifecycleTransitions[a.state]
  BY Longer DEF OwnTrail, Grows
<1>2. a.events[a.revision + 1].state = a.state /\ a.events[1].state = "reserved"
  BY DEF OwnTrail
<1>3. ASSUME NEW i \in 1 .. b.revision
      PROVE  b.events[i + 1].state \in lifecycleTransitions[b.events[i].state]
  <2>1. CASE i = a.revision + 1
    BY <1>1, <1>2, <2>1
  <2>2. CASE i # a.revision + 1
    <3>1. i \in 1 .. a.revision /\ i + 1 \in 1 .. a.revision + 1 /\ i \in 1 .. a.revision + 1
      BY <1>1, <2>2
    <3> QED
      BY <1>1, <3>1 DEF OwnTrail
  <2> QED
    BY <2>1, <2>2
<1>4. 1 \in 1 .. a.revision + 1
  OBVIOUS
<1> QED
  BY <1>1, <1>2, <1>3, <1>4 DEF OwnTrail

(* The other half of TrailComplete: identifiers are used once.             *)
UsedOnce ==
    \A o, q \in Operations : operations[o] # None /\ operations[q] # None =>
        \A i \in DOMAIN operations[o].events, j \in DOMAIN operations[q].events :
            /\ operations[o].events[i].evidence # None
            /\ operations[o].events[i].evidence = operations[q].events[j].evidence
            => o = q /\ i = j

(* TrailComplete is about each trail by itself, and about all of them.     *)
LEMMA TrailParts ==
    TrailComplete <=> /\ \A o \in Operations :
                            operations[o] # None => OwnTrail(operations[o])
                      /\ UsedOnce
  BY DEF TrailComplete, OwnTrail, UsedOnce, LastEvent

(* At first there is nothing on record.                                    *)
LEMMA RecordInit == Init => RecordInv
  BY DEF Init, RecordInv, TrailComplete, ReceiptsTrue, EvidenceKnown, ApprovalsOnRecord

(* Where a step leads: every operation that was there still is, with the   *)
(* same trail or one event more.                                           *)
LEMMA TrailsOnward ==
    ASSUME Inv, NEW x \in Operations, Trails(x), NEW o \in Operations, operations[o] # None
    PROVE  /\ operations'[o] # None
           /\ \/ SameTrail(operations[o], operations'[o])
              \/ /\ o = x
                 /\ \E event \in Event :
                      NewsTo(event) /\ Grows(operations[o], operations'[o], event)
<1>1. CASE o = x
  BY <1>1, OperationIsNotNone DEF Trails, Alone
<1>2. CASE o # x
  BY <1>2 DEF Trails, Alone, SameTrail
<1> QED
  BY <1>1, <1>2

(* An operation that a step finds, or makes, and what it was.              *)
LEMMA TrailsFrom ==
    ASSUME Inv, NEW x \in Operations, Trails(x), NEW o \in Operations, operations'[o] # None
    PROVE  operations[o] # None \/ Fresh(operations'[o])
  BY DEF Trails, Alone

(* Each trail stays complete by itself.                                    *)
LEMMA OwnStep ==
    ASSUME Inv, \A o \in Operations : operations[o] # None => OwnTrail(operations[o]),
           NEW x \in Operations, Trails(x), NEW o \in Operations, operations'[o] # None
    PROVE  OwnTrail(operations'[o])
<1>1. CASE operations[o] = None
  <2>1. Fresh(operations'[o])
    BY <1>1, TrailsFrom
  <2> QED
    BY <2>1 DEF Fresh, OwnTrail
<1>2. CASE operations[o] # None /\ SameTrail(operations[o], operations'[o])
  BY <1>2 DEF SameTrail, OwnTrail
<1>3. CASE /\ operations[o] # None
           /\ \E event \in Event : Grows(operations[o], operations'[o], event)
  BY <1>3, TrailTyped, OwnTrailGrows
<1> QED
  BY <1>1, <1>2, <1>3, TrailsOnward

(* Where an identifier of a trail comes from: it was there before, or it   *)
(* is the one just taken.                                                  *)
LEMMA Origin ==
    ASSUME Inv, EvidenceKnown, NEW x \in Operations, Trails(x),
           NEW o \in Operations, operations'[o] # None,
           NEW i \in DOMAIN operations'[o].events, operations'[o].events[i].evidence # None
    PROVE  \/ /\ operations[o] # None
              /\ i \in DOMAIN operations[o].events
              /\ operations[o].events[i].evidence = operations'[o].events[i].evidence
              /\ operations[o].events[i].evidence \in evidence
           \/ /\ o = x
              /\ i = operations'[o].revision + 1
              /\ operations'[o].events[i].evidence \notin evidence
<1>1. operations[o] # None
  <2>1. CASE Fresh(operations'[o])
    BY <2>1 DEF Fresh
  <2> QED
    BY <2>1, TrailsFrom
<1>2. /\ operations[o].events \in Seq(Event)
      /\ operations[o].revision \in Nat
      /\ Len(operations[o].events) = operations[o].revision + 1
      /\ DOMAIN operations[o].events = 1 .. operations[o].revision + 1
  BY <1>1, TrailTyped
<1>3. ASSUME NEW j \in DOMAIN operations[o].events, operations[o].events[j].evidence # None
      PROVE  operations[o].events[j].evidence \in evidence
  BY <1>1, <1>2, <1>3 DEF EvidenceKnown, IdsOf
<1>4. CASE SameTrail(operations[o], operations'[o])
  BY <1>1, <1>3, <1>4 DEF SameTrail
<1>5. ASSUME o = x, NEW event \in Event, NewsTo(event),
             Grows(operations[o], operations'[o], event)
      PROVE  \/ /\ i \in DOMAIN operations[o].events
                /\ operations[o].events[i].evidence = operations'[o].events[i].evidence
                /\ operations[o].events[i].evidence \in evidence
             \/ /\ i = operations'[o].revision + 1
                /\ operations'[o].events[i].evidence \notin evidence
  <2>1. /\ operations'[o].revision = operations[o].revision + 1
        /\ \A j \in 1 .. operations[o].revision + 1 :
              operations'[o].events[j] = operations[o].events[j]
        /\ operations'[o].events[operations'[o].revision + 1] = event
        /\ DOMAIN operations'[o].events = 1 .. operations'[o].revision + 1
    BY <1>1, <1>5, LongerHere
  <2>2. CASE i = operations'[o].revision + 1
    BY <1>5, <2>1, <2>2 DEF NewsTo
  <2>3. CASE i # operations'[o].revision + 1
    <3>1. i \in 1 .. operations[o].revision + 1
      BY <1>2, <2>1, <2>3
    <3> QED
      BY <1>2, <1>3, <2>1, <3>1
  <2> QED
    BY <2>2, <2>3
<1> QED
  BY <1>1, <1>4, <1>5, TrailsOnward

(* No identifier comes to be in two places.                                *)
LEMMA UsedOnceStep ==
    ASSUME Inv, EvidenceKnown, UsedOnce, NEW x \in Operations, Trails(x)
    PROVE  UsedOnce'
<1> SUFFICES ASSUME NEW o \in Operations, NEW q \in Operations,
                    operations'[o] # None, operations'[q] # None,
                    NEW i \in DOMAIN operations'[o].events,
                    NEW j \in DOMAIN operations'[q].events,
                    operations'[o].events[i].evidence # None,
                    operations'[o].events[i].evidence = operations'[q].events[j].evidence
             PROVE  o = q /\ i = j
  BY DEF UsedOnce
<1> DEFINE Was(y, k) == /\ operations[y] # None
                        /\ k \in DOMAIN operations[y].events
                        /\ operations[y].events[k].evidence
                             = operations'[y].events[k].evidence
                        /\ operations[y].events[k].evidence \in evidence
           IsNew(y, k) == /\ y = x
                          /\ k = operations'[y].revision + 1
                          /\ operations'[y].events[k].evidence \notin evidence
<1>1. Was(o, i) \/ IsNew(o, i)
  BY Origin
<1>2. Was(q, j) \/ IsNew(q, j)
  BY Origin
<1>3. CASE Was(o, i) /\ Was(q, j)
  BY <1>3 DEF UsedOnce
<1>4. CASE IsNew(o, i) /\ IsNew(q, j)
  BY <1>4
<1> QED
  BY <1>1, <1>2, <1>3, <1>4

(* The identifiers of an operation stay those of its trail.                *)
LEMMA KnownStep ==
    ASSUME Inv, EvidenceKnown, NEW x \in Operations, Trails(x), evidence \subseteq evidence',
           UNCHANGED receipts
    PROVE  EvidenceKnown'
<1> SUFFICES ASSUME NEW o \in Operations
             PROVE  /\ operations'[o] = None => receipts'[o] = {}
                    /\ operations'[o] # None =>
                         /\ operations'[o].evidenceIds = IdsOf(operations'[o])
                         /\ operations'[o].evidenceIds \subseteq evidence'
  BY DEF EvidenceKnown
<1>1. CASE operations'[o] = None
  BY <1>1, TrailsOnward DEF EvidenceKnown
<1>2. CASE operations'[o] # None /\ operations[o] = None
  <2>1. Fresh(operations'[o])
    BY <1>2, TrailsFrom
  <2> QED
    BY <1>2, <2>1 DEF Fresh, IdsOf
<1>3. CASE operations[o] # None
  <2>1. /\ operations[o].evidenceIds = IdsOf(operations[o])
        /\ operations[o].evidenceIds \subseteq evidence
        /\ operations'[o] # None
    BY <1>3, TrailsOnward DEF EvidenceKnown
  <2>2. CASE SameTrail(operations[o], operations'[o])
    BY <2>1, <2>2 DEF SameTrail, IdsOf
  <2>3. ASSUME NEW event \in Event, NewsTo(event),
               Grows(operations[o], operations'[o], event)
        PROVE  /\ operations'[o].evidenceIds = IdsOf(operations'[o])
               /\ operations'[o].evidenceIds \subseteq evidence'
    <3>1. /\ operations'[o].revision = operations[o].revision + 1
          /\ \A j \in 1 .. operations[o].revision + 1 :
                operations'[o].events[j] = operations[o].events[j]
          /\ operations'[o].events[operations'[o].revision + 1] = event
          /\ operations[o].revision \in Nat
      BY <1>3, <2>3, LongerHere
    <3>2. 1 .. operations'[o].revision + 1
            = 1 .. operations[o].revision + 1 \cup {operations'[o].revision + 1}
      BY <3>1
    <3>3. {operations'[o].events[i].evidence : i \in 1 .. operations'[o].revision + 1}
            = {operations[o].events[i].evidence : i \in 1 .. operations[o].revision + 1}
                \cup {event.evidence}
      BY <3>1, <3>2
    <3>4. operations'[o].evidenceIds
            = operations[o].evidenceIds \cup ({event.evidence} \ {None})
      BY <2>3 DEF Grows
    <3> QED
      BY <2>1, <2>3, <3>3, <3>4 DEF IdsOf, NewsTo
  <2> QED
    BY <1>3, <2>1, <2>2, <2>3, TrailsOnward
<1> QED
  BY <1>1, <1>2, <1>3

(* What a receipt says of an operation, and what the operation keeps of it.*)
Tells(r, op) ==
    /\ r.revision <= op.revision
    /\ r.state = op.events[r.revision + 1].state
    /\ r.reason = op.events[r.revision + 1].reason
    /\ r.evidence = {op.events[i].evidence : i \in 1 .. r.revision + 1} \ {None}

(* What a receipt tells stays true when its operation moves on.            *)
LEMMA TellsStill ==
    ASSUME Inv, NEW x \in Operations, Trails(x), NEW o \in Operations, operations[o] # None,
           NEW r \in Receipt, Tells(r, operations[o])
    PROVE  Tells(r, operations'[o])
<1>1. CASE SameTrail(operations[o], operations'[o])
  BY <1>1 DEF SameTrail, Tells
<1>2. ASSUME NEW event \in Event, Grows(operations[o], operations'[o], event)
      PROVE  Tells(r, operations'[o])
  <2>1. /\ operations'[o].revision = operations[o].revision + 1
        /\ \A j \in 1 .. operations[o].revision + 1 :
              operations'[o].events[j] = operations[o].events[j]
        /\ operations[o].revision \in Nat
    BY <1>2, LongerHere
  <2>2. r.revision \in Nat /\ r.revision <= operations[o].revision
    BY DEF Receipt, Tells
  <2>3. \A i \in 1 .. r.revision + 1 : operations'[o].events[i] = operations[o].events[i]
    BY <2>1, <2>2
  <2>4. {operations'[o].events[i].evidence : i \in 1 .. r.revision + 1}
          = {operations[o].events[i].evidence : i \in 1 .. r.revision + 1}
    BY <2>3
  <2>5. r.revision + 1 \in 1 .. r.revision + 1 /\ r.revision <= operations'[o].revision
    BY <2>1, <2>2
  <2> QED
    BY <2>3, <2>4, <2>5 DEF Tells
<1> QED
  BY <1>1, <1>2, TrailsOnward

(* The receipt that is issued tells what the trail has.                    *)
LEMMA IssuedTells ==
    ASSUME Inv, EvidenceKnown, TrailComplete, NEW o \in Operations, operations[o] # None
    PROVE  Tells(ReceiptOf(o), operations[o])
<1>1. /\ Len(operations[o].events) = operations[o].revision + 1
      /\ operations[o].evidenceIds = IdsOf(operations[o])
      /\ LastEvent(o).state = operations[o].state
      /\ operations[o].revision \in Nat
  BY TrailTyped DEF EvidenceKnown, TrailComplete
<1> QED
  BY <1>1 DEF Tells, ReceiptOf, LastEvent, IdsOf

(* ReceiptsTrue, receipt by receipt.                                       *)
LEMMA ReceiptsTell ==
    ReceiptsTrue <=> \A o \in Operations : \A r \in receipts[o] : Tells(r, operations[o])
  BY DEF ReceiptsTrue, Tells

(* The record is kept by every step.                                       *)
LEMMA RecordStep ==
    ASSUME Inv, Inv', RecordInv, [Next]_vars
    PROVE  TrailComplete' /\ ReceiptsTrue' /\ EvidenceKnown'
<1>0. evidence \subseteq evidence'
  BY EvidenceGrows
<1>1. ASSUME NEW x \in Operations, receipt(x)
      PROVE  TrailComplete' /\ ReceiptsTrue' /\ EvidenceKnown'
  <2>1. /\ operations' = operations /\ evidence' = evidence
        /\ operations[x] # None
        /\ receipts' = [receipts EXCEPT ![x] = @ \cup {ReceiptOf(x)}]
        /\ receipts \in [Operations -> SUBSET Receipt]
    BY <1>1 DEF receipt, Inv, RestTyped
  <2>2. TrailComplete'
    BY <2>1 DEF RecordInv, TrailComplete, LastEvent
  <2>3. EvidenceKnown'
    BY <2>1 DEF RecordInv, EvidenceKnown, IdsOf
  <2>4. Tells(ReceiptOf(x), operations[x])
    BY <2>1, IssuedTells DEF RecordInv
  <2>5. \A o \in Operations : \A r \in receipts'[o] : Tells(r, operations'[o])
    BY <2>1, <2>4, ReceiptsTell DEF RecordInv
  <2>6. ReceiptsTrue'
    BY <2>5 DEF ReceiptsTrue, Tells
  <2> QED
    BY <2>2, <2>3, <2>6
<1>2. CASE UNCHANGED <<operations, receipts>>
  BY <1>0, <1>2 DEF RecordInv, TrailComplete, LastEvent, ReceiptsTrue, EvidenceKnown, IdsOf
<1>3. ASSUME NEW x \in Operations, Trails(x), UNCHANGED receipts
      PROVE  TrailComplete' /\ ReceiptsTrue' /\ EvidenceKnown'
  <2>1. UsedOnce'
    BY <1>3, TrailParts, UsedOnceStep DEF RecordInv
  <2>2. \A o \in Operations : operations'[o] # None => OwnTrail(operations'[o])
    BY <1>3, TrailParts, OwnStep DEF RecordInv
  <2>3. TrailComplete'
    BY <2>1, <2>2 DEF TrailComplete, OwnTrail, UsedOnce, LastEvent
  <2>4. EvidenceKnown'
    BY <1>0, <1>3, KnownStep DEF RecordInv
  <2>5. ASSUME NEW o \in Operations, NEW r \in receipts'[o]
        PROVE  Tells(r, operations'[o])
    <3>1. r \in receipts[o] /\ r \in Receipt
      BY <1>3, <2>5 DEF Inv, RestTyped
    <3>2. operations[o] # None
      BY <3>1 DEF RecordInv, EvidenceKnown
    <3>3. Tells(r, operations[o])
      BY <3>1, ReceiptsTell DEF RecordInv
    <3> QED
      BY <1>3, <3>1, <3>2, <3>3, TellsStill
  <2>6. ReceiptsTrue'
    BY <2>5 DEF ReceiptsTrue, Tells
  <2> QED
    BY <2>3, <2>4, <2>6
<1> QED
  BY <1>1, <1>2, <1>3, StepTrails, ReceiptStep

(* What was reserved keeps its approval on record.                         *)
LEMMA ApprovalsStep ==
    ASSUME Inv, Inv', ApprovalsOnRecord, [Next]_vars
    PROVE  ApprovalsOnRecord'
<1>0. \A p \in Proposals : approvals[p] # None => approvals'[p] # None
  BY ApprovalsStay DEF Inv
<1>1. CASE UNCHANGED operations
  <2>1. \A o \in Operations : operations[o] # None => operations[o].proposal \in Proposals
    BY DEF Inv, Core, CoreTyped, Operation
  <2> QED
    BY <1>0, <1>1, <2>1 DEF ApprovalsOnRecord
<1>2. ASSUME NEW x \in Operations, Trails(x)
      PROVE  ApprovalsOnRecord'
  <2> SUFFICES ASSUME NEW o \in Operations, operations'[o] # None
               PROVE  approvals'[operations'[o].proposal] # None
    BY DEF ApprovalsOnRecord
  <2>1. operations'[o] \in Operation /\ operations'[o].proposal \in Proposals
    BY DEF Inv, Core, CoreTyped, Operation
  <2>2. CASE Fresh(operations'[o])
    BY <1>0, <2>1, <2>2 DEF Fresh
  <2>3. CASE operations[o] # None
    <3>1. operations'[o].proposal = operations[o].proposal
      BY <1>2, <2>3, TrailsOnward DEF SameTrail, Grows
    <3> QED
      BY <1>0, <2>1, <2>3, <3>1 DEF ApprovalsOnRecord
  <2> QED
    BY <1>2, <2>2, <2>3, TrailsFrom
<1> QED
  BY <1>1, <1>2, StepTrails

LEMMA RecordInvariance == Spec => []RecordInv
<1>1. Inv /\ Inv' /\ RecordInv /\ [Next]_vars => RecordInv'
  <2> SUFFICES ASSUME Inv, Inv', RecordInv, [Next]_vars PROVE RecordInv'
    OBVIOUS
  <2>1. TrailComplete' /\ ReceiptsTrue' /\ EvidenceKnown'
    BY RecordStep
  <2>2. ApprovalsOnRecord'
    BY ApprovalsStep DEF RecordInv
  <2> QED
    BY <2>1, <2>2 DEF RecordInv
<1> QED
  BY <1>1, RecordInit, Invariance, PTL DEF Spec

(* However dispatches, reconciliations and evidence are interleaved, every *)
(* trail stays complete, every receipt stays true and no identifier of     *)
(* evidence moves two operations, or one twice.                            *)
THEOREM RecordsStayTrue == Spec => []RecordTrue
<1>1. RecordInv => RecordTrue
  BY DEF RecordInv, RecordTrue
<1> QED
  BY <1>1, RecordInvariance, PTL

(* Once the approval of a reserved operation is revoked or has expired it  *)
(* can only be cancelled, whoever calls what in whatever order.            *)
THEOREM WithdrawalsStand == Spec => WithdrawnNeverSent
<1> DEFINE Stands == \A o \in Operations : Withdrawn(o) =>
                        /\ Withdrawn(o)' \/ operations'[o].state = "cancelled"
                        /\ sends'[o] = sends[o]
<1>1. Inv /\ RecordInv /\ [Next]_vars => Stands
  <2> SUFFICES ASSUME Inv, RecordInv, [Next]_vars, NEW o \in Operations, Withdrawn(o)
               PROVE  /\ Withdrawn(o)' \/ operations'[o].state = "cancelled"
                      /\ sends'[o] = sends[o]
    OBVIOUS
  <2> DEFINE p == operations[o].proposal
  <2>1. /\ InState(o, {"reserved"}) /\ operations[o] # None
        /\ approvals[p].revoked \/ approvals[p].version \in expired
    BY DEF Withdrawn, InState
  <2>2. p \in Proposals /\ approvals[p] # None
    BY <2>1 DEF RecordInv, ApprovalsOnRecord, Inv, Core, CoreTyped, Operation
  <2>3. ~SnapshotIsCurrent(o)
    BY <2>1 DEF SnapshotIsCurrent, ApprovalIsCurrent
  <2>4. approvals'[p].revoked \/ approvals'[p].version \in expired'
    BY <2>1, <2>2, ApprovalsStay DEF Inv
  <2>5. CASE operations'[o] = operations[o] /\ sends'[o] = sends[o]
    BY <2>1, <2>4, <2>5 DEF Withdrawn, InState
  <2> QED
    BY <2>1, <2>3, <2>5, ReservedMoves
<1>2. Inv /\ RecordInv /\ [Next]_vars => [Stands]_vars
  BY <1>1
<1> QED
  BY <1>2, Invariance, RecordInvariance, PTL DEF Spec, WithdrawnNeverSent
-----------------------------------------------------------------------------
(* What was concluded once.                                                *)

(* A belief that nothing was assigned is never given up, and the provider  *)
(* takes nothing while it is held.                                         *)
LEMMA NotAssignedStays ==
    ASSUME [Knowledge!Next]_(Knowledge!vars), NEW o \in Operations,
           BeliefOf(o) = "not_assigned"
    PROVE  /\ BeliefOf(o)' = "not_assigned"
           /\ o \in Assigned' => o \in Assigned
<1>1. Belief[o] = "not_assigned" /\ Belief'[o] = BeliefOf(o)'
  BY DEF Belief
<1>2. CASE UNCHANGED <<Assigned, Belief>>
  BY <1>1, <1>2
<1>3. ASSUME NEW q \in Operations, NEW from, NEW to, from # "not_assigned",
             Knowledge!Believe(q, from, to)
      PROVE  Belief'[o] = "not_assigned" /\ Assigned' = Assigned
  <2>1. /\ Belief[q] = from
        /\ Belief' = [Belief EXCEPT ![q] = to]
        /\ Assigned' = Assigned
    BY <1>3 DEF Knowledge!Believe
  <2>2. q # o
    BY <1>1, <1>3, <2>1
  <2>3. Belief'[o] = Belief[o]
    BY <2>1, <2>2
  <2> QED BY <1>1, <2>1, <2>3
<1>4. ASSUME NEW q \in Operations, Knowledge!Accept(q)
      PROVE  Belief'[o] = "not_assigned" /\ Assigned' = Assigned \cup {q} /\ q # o
  BY <1>1, <1>4 DEF Knowledge!Accept
<1>5. CASE Knowledge!Next
  <2>1. PICK q \in Operations :
          \/ Knowledge!Reserve(q)
          \/ Knowledge!Withdraw(q)
          \/ Knowledge!Dispatch(q)
          \/ Knowledge!Accept(q)
          \/ Knowledge!ConcludeAssigned(q)
          \/ Knowledge!ConcludeNotAssigned(q)
          \/ Knowledge!Doubt(q)
    BY <1>5 DEF Knowledge!Next
  <2>2. CASE Knowledge!Accept(q)
    BY <1>1, <1>4, <2>2
  <2>3. CASE ~Knowledge!Accept(q)
    <3>1. \E from, to : from # "not_assigned" /\ Knowledge!Believe(q, from, to)
      BY <2>1, <2>3 DEF Knowledge!Reserve, Knowledge!Withdraw, Knowledge!Dispatch,
         Knowledge!ConcludeAssigned, Knowledge!ConcludeNotAssigned, Knowledge!Doubt
    <3> QED BY <1>1, <1>3, <3>1
  <2> QED BY <2>2, <2>3
<1> QED
  BY <1>2, <1>5 DEF Knowledge!vars

Closed(o) == operations[o] # None /\ operations[o].state \in {"cancelled", "failed"}

ClosedStay ==
    \A o \in Operations : Closed(o) => Closed(o)' /\ provider'[o] # "held"

LEMMA ClosedBelief ==
    ASSUME Inv, NEW o \in Operations
    PROVE  /\ Closed(o) <=> BeliefOf(o) = "not_assigned"
           /\ Closed(o) => provider[o] # "held"
<1>1. operations[o] = None \/ operations[o].state \in OperationStates
  BY DEF Inv, Core, CoreTyped, Operation
<1> QED BY <1>1 DEF Closed, BeliefOf, OperationStates, Inv, Core, DispatchKnown, Unsent

(* An operation that is cancelled or failed is so for good, and no         *)
(* assignment of it is at the provider then or later, whatever sends,      *)
(* lookups and answers are still under way when it is closed.              *)
THEOREM ClosedForGood == Spec => [][ClosedStay]_vars
<1>1. Inv /\ Inv' /\ [Next]_vars => ClosedStay
  <2> SUFFICES ASSUME Inv, Inv', [Next]_vars, NEW o \in Operations, Closed(o)
               PROVE  Closed(o)' /\ provider'[o] # "held"
    BY DEF ClosedStay
  <2>1. BeliefOf(o) = "not_assigned" /\ o \notin Assigned
    BY ClosedBelief DEF Assigned
  <2>2. [Knowledge!Next]_(Knowledge!vars)
    BY KnowledgeStep
  <2>3. BeliefOf(o)' = "not_assigned" /\ o \notin Assigned'
    BY <2>1, <2>2, NotAssignedStays
  <2>4. operations'[o] = None \/ operations'[o].state \in OperationStates
    BY DEF Inv, Core, CoreTyped, Operation
  <2> QED BY <2>3, <2>4 DEF Closed, BeliefOf, Assigned, OperationStates
<1> QED BY <1>1, Invariance, PTL DEF Spec
==============================================================================
