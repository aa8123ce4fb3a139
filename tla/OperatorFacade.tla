--------------------------- MODULE OperatorFacade ---------------------------
(***************************************************************************)
(* The browser's routes to the lifecycle: createTrashPalOperatorApi, with  *)
(* LocalDemoSessionStore, and the parts of ComposedRuntime and of          *)
(* LocalCompositionRuntime.prepare that its routes call, over the durable  *)
(* lifecycle.                                                              *)
(*                                                                         *)
(* A request is a process. Between two of its awaits it runs alone; at an  *)
(* await any other request, the clock or the provider may move. A request  *)
(* that dispatches or reconciles makes an outbox worker of its own, so     *)
(* requests are the Workers of the lifecycle. All sessions stand for the   *)
(* one dispatcher the store issues them for. The routes that only read     *)
(* change nothing and are left out, and so are the bearer routes.          *)
(***************************************************************************)
EXTENDS DurableLifecycle

CONSTANTS
    Sessions,       \* browsers, each with the session it was last issued
    Dispatcher,     \* the principal behind every session
    Greenleaf,      \* GreenleafOperatorCaseId, the one case reserve serves
    Reports,        \* what dispatchers report of a case's access
    MaxSecond       \* bound of the runs on the clock

ASSUME FacadeAssumption ==
    /\ Dispatcher \in Users
    /\ Greenleaf \in Cases
    /\ Reports \subseteq {"confirmed_clear", "blocked", "unknown"}
    /\ MaxSecond \in Nat
    /\ \A second \in 0..MaxSecond :
         [evidence |-> second, route |-> second] \in Revisions

VARIABLES
    second,         \* the clock, which source revisions are counted by
    observed,       \* #accessUpdates: what a session reported of a case
    request,        \* where each request stands
    captured,       \* operations in the order of their captured_at
    overtaken       \* history: proposals prepared behind their guard's back

facadeVars == <<second, observed, request, captured, overtaken>>
allVars    == <<vars, facadeVars>>

Access   == Reports \cup {"unrecorded"}
NotClear == {"blocked", "unknown"}

(* What a request remembers over its awaits: its session and case, the     *)
(* operation or proposal it read or was given, the access it goes by, and  *)
(* the second at which it took its source snapshot.                        *)
Waiting(pc, s, c, target, access) ==
    [pc |-> pc, session |-> s, case |-> c, target |-> target,
     access |-> access, second |-> 0]

NoRequest == Waiting("idle", None, None, None, "unrecorded")

FacadeInit ==
    /\ Init
    /\ second = 0
    /\ observed = [s \in Sessions |-> [c \in Cases |-> "unrecorded"]]
    /\ request = [w \in Workers |-> NoRequest]
    /\ captured = <<>>
    /\ overtaken = {}

-----------------------------------------------------------------------------
(* Sessions.                                                               *)

(* issueForServerSession: a browser whose session has expired, or whose    *)
(* server was started again, is issued another, of which nothing is known. *)
(* A request that has resolved its session goes on with it.                *)
Issue(s) ==
    /\ \A w \in Workers : request[w].session # s
    /\ observed' = [observed EXCEPT ![s] = [c \in Cases |-> "unrecorded"]]
    /\ UNCHANGED <<vars, second, request, captured, overtaken>>

(* resolveOperatorSession and assertOperatorScope, and the request is off. *)
Starts(w, s, next) ==
    /\ request[w] = NoRequest
    /\ request' = [request EXCEPT ![w] = next]

Continues(w, pc) == request' = [request EXCEPT ![w].pc = pc]
Finishes(w)      == request' = [request EXCEPT ![w] = NoRequest]

-----------------------------------------------------------------------------
(* What getCaseLifecycleState reads.                                       *)

(* ORDER BY snapshot.captured_at DESC LIMIT 1, in the case.                *)
LatestOperation(c) ==
    LET mine == {i \in DOMAIN captured :
                   CaseOf[snapshots[captured[i]].proposal] = c}
    IN  IF mine = {} THEN None
                     ELSE captured[CHOOSE i \in mine : \A j \in mine : j <= i]

(* The newest proposal that is neither revoked nor expired: a proposal is  *)
(* created at the revision its case has then, so the newest binds the      *)
(* greatest one.                                                           *)
Open(p) == proposals[p] # None /\ ~proposals[p].revoked /\ p \notin expired

ActiveProposals(c) ==
    {p \in Proposals :
       /\ CaseOf[p] = c
       /\ Open(p)
       /\ \A q \in Proposals :
            CaseOf[q] = c /\ Open(q)
              => proposals[q].bound.evidence <= proposals[p].bound.evidence}

UnresolvedStates ==
    {"reserved", "sending", "accepted", "unknown", "assignment_reconciled",
     "driver_reported", "supporting_evidence_received", "evidence_reconciled"}

(* Mutant: an unknown operation does not stand in the way.                 *)
operationNeedsResolution_ExceptUnknown(o) ==
    operations[o].state \in UnresolvedStates \ {"unknown"}

operationNeedsResolution(o) == operations[o].state \in UnresolvedStates

-----------------------------------------------------------------------------
(* POST prepare and POST evidence.                                         *)

(* The latest operation of the case is found by one query, and what has    *)
(* become of it is read by a later one.                                    *)
AsksPrepare(w, s, c) ==
    /\ Starts(w, s, Waiting("guarding", s, c, LatestOperation(c), "unrecorded"))
    /\ UNCHANGED <<vars, second, observed, captured, overtaken>>

ReportsAccess(w, s, c, access) ==
    /\ Starts(w, s, Waiting("guarding", s, c, LatestOperation(c), access))
    /\ UNCHANGED <<vars, second, observed, captured, overtaken>>

(* No operation needs resolution: the observation is recorded, if there is *)
(* one, and Pal takes its source snapshot in the same turn. A prepare goes *)
(* by what the session reported before.                                    *)
PassesGuard(w) ==
    LET r      == request[w]
        access == IF r.access = "unrecorded" THEN observed[r.session][r.case]
                                             ELSE r.access
    IN
    /\ r.pc = "guarding"
    /\ r.target # None => ~operationNeedsResolution(r.target)
    /\ observed' = [observed EXCEPT ![r.session][r.case] = access]
    /\ request' = [request EXCEPT ![w] =
         [r EXCEPT !.pc = "running", !.access = access, !.second = second]]
    /\ UNCHANGED <<vars, second, captured, overtaken>>

(* deriveDecisionInputs: whatever the run looked at later, its inputs bear *)
(* the revisions of the source snapshot that it started from.              *)
DecisionInputs(r) == [evidence |-> r.second, route |-> r.second]

(* Pal's run ends with an executable proposal, which it does not where the *)
(* reported access contradicts the record, and its decision inputs are     *)
(* committed. Nobody looks at the case's operations again.                 *)
PreparesRecovery(w, p) ==
    LET r == request[w] IN
    /\ r.pc = "running"
    /\ r.access \notin NotClear
    /\ CaseOf[p] = r.case
    /\ PrepareDecisionInputs(p, DecisionInputs(r), FALSE)
    /\ overtaken' = IF LatestOperation(r.case) = r.target
                      THEN overtaken ELSE overtaken \cup {p}
    /\ Finishes(w)
    /\ UNCHANGED <<second, observed, captured>>

-----------------------------------------------------------------------------
(* POST approve and POST reserve.                                          *)

(* approve and reserve are two transactions of one request.                *)
ApprovesProposal(w, s, p) ==
    /\ Starts(w, s, Waiting("approved", s, CaseOf[p], p, "unrecorded"))
    /\ Approve(Dispatcher, p)
    /\ UNCHANGED <<second, observed, captured, overtaken>>

(* The approval must be the one of Greenleaf's active proposal.            *)
AsksReserve(w, s, p) ==
    /\ p \in ActiveProposals(Greenleaf)
    /\ approvals[p] # None
    /\ ~approvals[p].revoked
    /\ Starts(w, s, Waiting("approved", s, Greenleaf, p, "unrecorded"))
    /\ UNCHANGED <<vars, second, observed, captured, overtaken>>

ReservesApproved(w) ==
    LET p == request[w].target IN
    /\ request[w].pc = "approved"
    /\ \/ \E o \in Operations : /\ ReserveNew(Dispatcher, p, o)
                                /\ captured' = Append(captured, o)
       \/ ReserveReplay(Dispatcher, p) /\ UNCHANGED captured
    /\ Finishes(w)
    /\ UNCHANGED <<second, observed, overtaken>>

-----------------------------------------------------------------------------
(* POST dispatch and POST reconcile.                                       *)

(* assertOperatorOperation: the operation exists.                          *)
AsksOperation(w, s, o, route) ==
    /\ snapshots[o] # None
    /\ Starts(w, s, Waiting(route, s, CaseOf[snapshots[o].proposal], o,
                            "unrecorded"))
    /\ UNCHANGED <<vars, second, observed, captured, overtaken>>

(* claimOperation of the operation that was named: it is claimed, or found *)
(* stale and cancelled, or not pending; each recovers a lapsed lease.      *)
ClaimsNamed(w) ==
    LET o == request[w].target IN
    /\ request[w].pc = "dispatching"
    /\ \/ ClaimCurrent(w, o) /\ Continues(w, "working")
       \/ ClaimStale(w, o) /\ Finishes(w)
       \/ outbox[o] # "pending" /\ ClaimNothing(w) /\ Finishes(w)
    /\ UNCHANGED <<second, observed, captured, overtaken>>

(* The rest of #dispatchClaim. The request has its answer, or its error,   *)
(* when the worker is done.                                                *)
Dispatches(w) ==
    /\ request[w].pc = "working"
    /\ \/ SendStep(w)
       \/ CompleteAssignment(w)
       \/ CompleteFails(w)
       \/ MarkUnknown(w)
       \/ MarkFailed(w)
    /\ IF worker'[w] = Idle THEN Finishes(w) ELSE UNCHANGED request
    /\ UNCHANGED <<second, observed, captured, overtaken>>

(* reconcile of an unknown operation; one that is reconciled already is    *)
(* answered as it is.                                                      *)
Reconciles(w) ==
    LET o == request[w].target IN
    /\ request[w].pc = "reconciling"
    /\ \/ ReadForReconciliation(w, o) /\ UNCHANGED request
       \/ /\ Lookup(w)
          /\ IF o \in provider THEN UNCHANGED request
                               ELSE Continues(w, "receipting")
       \/ CompleteReconciliation(w) /\ Continues(w, "receipting")
       \/ /\ worker[w] = Idle
          /\ operations[o].state = "assignment_reconciled"
          /\ Continues(w, "receipting")
          /\ UNCHANGED vars
    /\ UNCHANGED <<second, observed, captured, overtaken>>

IssuesReceipt(w) ==
    /\ request[w].pc = "receipting"
    /\ \/ IssueReceipt(request[w].target)
       \/ /\ \E r \in receipts[request[w].target] :
               r.revision = operations[request[w].target].revision
          /\ UNCHANGED vars
    /\ Finishes(w)
    /\ UNCHANGED <<second, observed, captured, overtaken>>

(* The request ends with nothing more done: its guard or the repository    *)
(* refuses, Pal holds or escalates, a call throws, or the server stops.    *)
RequestEnds(w) ==
    /\ request[w] # NoRequest
    /\ IF worker[w] = Idle THEN UNCHANGED vars ELSE Abandon(w)
    /\ Finishes(w)
    /\ UNCHANGED <<second, observed, captured, overtaken>>

-----------------------------------------------------------------------------

(* Time passes for the server and for the database; the clock of the       *)
(* server stops at MaxSecond.                                              *)
Tick ==
    /\ second < MaxSecond
    /\ second' = second + 1
    /\ UNCHANGED <<vars, observed, request, captured, overtaken>>

(* The row of the dispatcher outlives the sessions that rest on it.        *)
DatabaseClock ==
    /\ \/ \E p \in Proposals : ProposalExpires(p)
       \/ \E o \in Operations : LeaseExpires(o)
    /\ UNCHANGED facadeVars

Asks(w, s) ==
    \/ \E c \in Cases : AsksPrepare(w, s, c)
    \/ \E c \in Cases, access \in Reports : ReportsAccess(w, s, c, access)
    \/ \E p \in Proposals : ApprovesProposal(w, s, p)
    \/ \E p \in Proposals : AsksReserve(w, s, p)
    \/ \E o \in Operations, route \in {"dispatching", "reconciling"} :
         AsksOperation(w, s, o, route)

RequestStep(w) ==
    \/ \E s \in Sessions : Asks(w, s)
    \/ PassesGuard(w)
    \/ \E p \in Proposals : PreparesRecovery(w, p)
    \/ ReservesApproved(w)
    \/ ClaimsNamed(w)
    \/ Dispatches(w)
    \/ Reconciles(w)
    \/ IssuesReceipt(w)
    \/ RequestEnds(w)

FacadeNext ==
    \/ \E w \in Workers : RequestStep(w)
    \/ \E s \in Sessions : Issue(s)
    \/ Tick
    \/ DatabaseClock

FacadeSpec == FacadeInit /\ [][FacadeNext]_allVars

-----------------------------------------------------------------------------

Unresolved(c) ==
    {o \in Operations : /\ snapshots[o] # None
                        /\ CaseOf[snapshots[o].proposal] = c
                        /\ operationNeedsResolution(o)}

(* The two ways the case's one recovery at a time is lost: an operation    *)
(* was reserved while another request's Pal run was between its guard and  *)
(* its commit; or two runs took one and the same snapshot, and so neither  *)
(* proposal is older.                                                      *)
Overtaken(c) == \E p \in overtaken : CaseOf[p] = c

Twins(c) ==
    \E p, q \in Proposals : /\ p # q
                            /\ CaseOf[p] = c /\ CaseOf[q] = c
                            /\ proposals[p] # None /\ proposals[q] # None
                            /\ proposals[p].bound = proposals[q].bound

(* Two operations of one case are only ever unresolved at once where a Pal *)
(* run was overtaken or has a twin. The guard of prepare, the order of     *)
(* case truth and the checks of approve and reserve exclude every other    *)
(* way, whatever requests end half way, are repeated or come late.         *)
OneRecoveryUnlessOvertaken ==
    \A c \in Cases :
      Overtaken(c) \/ Twins(c) \/ Cardinality(Unresolved(c)) <= 1

(* docs/help/review-and-approve-a-recovery.md: TrashPal checks that the    *)
(* case is still current before it creates the operation; if the access    *)
(* has changed, the recovery needs a fresh review. So no operation is      *)
(* reserved by a session that has reported the case's access as not clear. *)
NoReservationOverReport ==
    [][\A w \in Workers :
         captured' # captured /\ request'[w] # request[w]
           => observed[request[w].session][request[w].case] \notin NotClear
      ]_allVars
=============================================================================
