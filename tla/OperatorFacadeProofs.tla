------------------------ MODULE OperatorFacadeProofs ------------------------
(***************************************************************************)
(* Theorems about the operator facade, for every set of sessions, requests *)
(* and cases: what its routes do to the lifecycle is what the lifecycle    *)
(* allows, so all that is proved of DurableLifecycle holds behind them;    *)
(* and a case has one recovery at a time, unless a Pal run was overtaken   *)
(* or has a twin.                                                          *)
(***************************************************************************)
EXTENDS OperatorFacade, DurableLifecycleProofs, FiniteSetTheorems,
        WellFoundedInduction

-----------------------------------------------------------------------------
(* What requests know.                                                     *)

WaitFields == {"pc", "session", "case", "target", "access", "second"}

IsCaptured(o, order) == \E i \in DOMAIN order : order[i] = o

(* What a request remembers is what its next step may rely on.             *)
Knows(t, order) ==
    /\ DOMAIN t = WaitFields
    /\ t.pc \in {"guarding", "running"} =>
         t.target = None \/ IsCaptured(t.target, order)
    /\ t.pc = "running" => t.second \in 0..MaxSecond
    /\ t.pc = "approved" => t.target \in Proposals
    /\ t.pc \in {"dispatching", "reconciling", "receipting"} =>
         t.target \in Operations

RequestsKnow ==
    /\ DOMAIN request = Workers
    /\ \A w \in Workers : Knows(request[w], captured)

(* The order of capture has every operation that was reserved, and nothing *)
(* else.                                                                   *)
Capturing ==
    /\ captured \in Seq(Operations)
    /\ \A i \in DOMAIN captured : snapshots[captured[i]] # None
    /\ \A o \in Operations : snapshots[o] # None => IsCaptured(o, captured)

(* No request starts a run, or changes what its run goes by.               *)
RunsAsBefore ==
    \A w \in Workers : request'[w].pc = "running" => request'[w] = request[w]

FacadeInv == second \in 0..MaxSecond /\ Capturing /\ RequestsKnow

(* A request that has just been taken.                                     *)
LEMMA WaitingKnows ==
    ASSUME NEW pc, NEW s, NEW c, NEW target, NEW access
    PROVE  /\ DOMAIN Waiting(pc, s, c, target, access) = WaitFields
           /\ Waiting(pc, s, c, target, access).pc = pc
           /\ Waiting(pc, s, c, target, access).target = target
BY DEF Waiting, WaitFields

LEMMA NoRequestKnows ==
    ASSUME NEW order
    PROVE  Knows(NoRequest, order) /\ NoRequest.pc = "idle"
BY WaitingKnows DEF NoRequest, Knows

(* A request moves, and the others stay where they are.                    *)
LEMMA RequestMoves ==
    ASSUME RequestsKnow, NEW w \in Workers, NEW t,
           request' = [request EXCEPT ![w] = t],
           Knows(t, captured), UNCHANGED captured
    PROVE  RequestsKnow' /\ (t.pc # "running" => RunsAsBefore)
<1>1. DOMAIN request' = Workers
  BY DEF RequestsKnow
<1>2. \A v \in Workers : request'[v] = IF v = w THEN t ELSE request[v]
  BY DEF RequestsKnow
<1> QED
  BY <1>1, <1>2 DEF RequestsKnow, RunsAsBefore

(* A request that goes on keeps what it remembers.                         *)
LEMMA ContinuesKnows ==
    ASSUME RequestsKnow, NEW w \in Workers, NEW pc \in {"working", "receipting"},
           pc = "receipting" => request[w].target \in Operations,
           Continues(w, pc), UNCHANGED captured
    PROVE  RequestsKnow' /\ RunsAsBefore
<1> DEFINE t == [request[w] EXCEPT !.pc = pc]
<1>1. request' = [request EXCEPT ![w] = t]
  BY DEF Continues, RequestsKnow
<1>2. DOMAIN request[w] = WaitFields
  BY DEF RequestsKnow, Knows
<1>3. t.pc = pc /\ t.target = request[w].target /\ DOMAIN t = WaitFields
  BY <1>2 DEF WaitFields
<1>4. Knows(t, captured)
  BY <1>3 DEF Knows
<1> QED
  BY <1>1, <1>3, <1>4, RequestMoves

LEMMA FinishesKnows ==
    ASSUME RequestsKnow, NEW w \in Workers, Finishes(w), UNCHANGED captured
    PROVE  RequestsKnow' /\ RunsAsBefore
BY NoRequestKnows, RequestMoves DEF Finishes

-----------------------------------------------------------------------------
(* The latest operation of a case.                                         *)

LEMMA Least ==
    ASSUME NEW T \in SUBSET Nat, T # {}
    PROVE  \E x \in T : \A y \in T : x <= y
<1>1. PICK x \in T : \A y \in T : ~ (<<y, x>> \in OpToRel(<, Nat))
  BY NatLessThanWellFounded, WFMin
<1>2. ASSUME NEW y \in T PROVE x <= y
  <2>1. ~ (<<y, x>> \in OpToRel(<, Nat))
    BY <1>1
  <2>2. y \in Nat /\ x \in Nat
    OBVIOUS
  <2>3. ~ (y < x)
    BY <2>1, <2>2 DEF OpToRel
  <2> QED
    BY <2>2, <2>3
<1> QED
  BY <1>2

LEMMA Greatest ==
    ASSUME NEW n \in Nat, NEW S \in SUBSET (1..n), S # {}
    PROVE  \E k \in S : \A m \in S : m <= k
<1> DEFINE T == {n - m : m \in S}
<1>1. T \in SUBSET Nat /\ T # {}
  <2>1. \A m \in S : n - m \in Nat
    <3> SUFFICES ASSUME NEW m \in S PROVE n - m \in Nat
      OBVIOUS
    <3>1. m \in Int /\ m <= n
      OBVIOUS
    <3> QED
      BY <3>1
  <2> QED
    BY <2>1
<1>2. PICK x \in T : \A y \in T : x <= y
  BY <1>1, Least
<1>3. PICK k \in S : x = n - k
  BY <1>2
<1>4. ASSUME NEW m \in S PROVE m <= k
  <2>1. n - m \in T
    OBVIOUS
  <2>2. n - k <= n - m
    BY <1>2, <1>3, <2>1
  <2>3. k \in Nat /\ m \in Nat
    OBVIOUS
  <2> QED
    BY <2>2, <2>3
<1> QED
  BY <1>4

(* The captured operation at i is of the case.                             *)
OfCase(i, c) == CaseOf[snapshots[captured[i]].proposal] = c

LEMMA LatestIs ==
    ASSUME captured \in Seq(Operations), NEW c
    PROVE  \/ /\ LatestOperation(c) = None
              /\ \A i \in DOMAIN captured : ~OfCase(i, c)
           \/ \E i \in DOMAIN captured :
                /\ LatestOperation(c) = captured[i]
                /\ OfCase(i, c)
                /\ \A j \in DOMAIN captured : OfCase(j, c) => j <= i
<1> DEFINE mine == {i \in DOMAIN captured : OfCase(i, c)}
           last == CHOOSE i \in mine : \A j \in mine : j <= i
<1>1. LatestOperation(c) = IF mine = {} THEN None ELSE captured[last]
  BY DEF LatestOperation, OfCase
<1>2. CASE mine = {}
  BY <1>1, <1>2
<1>3. CASE mine # {}
  <2>1. mine \in SUBSET (1..Len(captured)) /\ Len(captured) \in Nat
    OBVIOUS
  <2>2. \E k \in mine : \A m \in mine : m <= k
    BY <1>3, <2>1, Greatest
  <2>3. last \in mine /\ \A j \in mine : j <= last
    BY <2>2
  <2> QED
    BY <1>1, <1>3, <2>3
<1> QED
  BY <1>2, <1>3

LEMMA LatestKnown ==
    ASSUME captured \in Seq(Operations), NEW c
    PROVE  LatestOperation(c) = None \/ IsCaptured(LatestOperation(c), captured)
BY LatestIs DEF IsCaptured

(* While nothing is captured, and no snapshot changes, neither does it.    *)
LEMMA LatestStays ==
    ASSUME UNCHANGED <<captured, snapshots>>, NEW c
    PROVE  LatestOperation(c)' = LatestOperation(c)
BY DEF LatestOperation

-----------------------------------------------------------------------------
(* The steps of a request, but for those that make a proposal, an          *)
(* operation or a run.                                                     *)

(* Case truth, proposals, operations and their order are left alone.       *)
Aside == UNCHANGED <<cases, proposals, snapshots, captured, overtaken>>

(* The lifecycle allows the step, and no request starts a run.             *)
Allowed == /\ [Next]_vars
           /\ Aside
           /\ UNCHANGED second
           /\ RequestsKnow'
           /\ RunsAsBefore

LEMMA AsksAllowed ==
    ASSUME FacadeInv, NEW w \in Workers, NEW s \in Sessions, Asks(w, s)
    PROVE  Allowed
<1>1. ASSUME NEW pc \in {"guarding", "approved", "dispatching", "reconciling"},
             NEW c, NEW target, NEW access,
             Starts(w, s, Waiting(pc, s, c, target, access)),
             pc = "guarding" => target = None \/ IsCaptured(target, captured),
             pc = "approved" => target \in Proposals,
             pc \in {"dispatching", "reconciling"} => target \in Operations,
             UNCHANGED captured
      PROVE  RequestsKnow' /\ RunsAsBefore
  <2> DEFINE t == Waiting(pc, s, c, target, access)
  <2>1. DOMAIN t = WaitFields /\ t.pc = pc /\ t.target = target
    BY WaitingKnows
  <2> HIDE DEF t
  <2>2. Knows(t, captured)
    BY <1>1, <2>1 DEF Knows
  <2>3. request' = [request EXCEPT ![w] = t]
    BY <1>1 DEF Starts, t
  <2>4. t.pc # "running"
    BY <2>1
  <2> QED
    BY <1>1, <2>2, <2>3, <2>4, RequestMoves DEF FacadeInv
<1> USE DEF Allowed, Aside, vars, decisionVars, rowVars
<1>2. ASSUME NEW c \in Cases, AsksPrepare(w, s, c) PROVE Allowed
  BY <1>1, <1>2, LatestKnown DEF AsksPrepare, FacadeInv, Capturing
<1>3. ASSUME NEW c \in Cases, NEW access \in Reports, ReportsAccess(w, s, c, access)
      PROVE  Allowed
  BY <1>1, <1>3, LatestKnown DEF ReportsAccess, FacadeInv, Capturing
<1>4. ASSUME NEW p \in Proposals, ApprovesProposal(w, s, p) PROVE Allowed
  <2>1. Approve(Dispatcher, p) /\ Dispatcher \in Users
    BY <1>4, FacadeAssumption DEF ApprovesProposal
  <2>2. Next
    BY <2>1 DEF Next, Decide
  <2>3. UNCHANGED <<cases, proposals, snapshots>>
    BY <2>1 DEF Approve
  <2> QED
    BY <1>1, <1>4, <2>2, <2>3 DEF ApprovesProposal
<1>5. ASSUME NEW p \in Proposals, AsksReserve(w, s, p) PROVE Allowed
  BY <1>1, <1>5 DEF AsksReserve
<1>6. ASSUME NEW o \in Operations, NEW route \in {"dispatching", "reconciling"},
             AsksOperation(w, s, o, route)
      PROVE  Allowed
  BY <1>1, <1>6 DEF AsksOperation
<1> QED
  BY <1>2, <1>3, <1>4, <1>5, <1>6 DEF Asks

(* What a worker or a receipt does leaves the decisions alone.             *)
LEMMA WorkAside ==
    ASSUME NEW w, \/ \E o \in Operations : ClaimCurrent(w, o) \/ ClaimStale(w, o)
                  \/ ClaimNothing(w) \/ SendStep(w) \/ CompleteAssignment(w)
                  \/ CompleteFails(w) \/ MarkUnknown(w) \/ MarkFailed(w)
                  \/ \E o \in Operations : ReadForReconciliation(w, o)
                  \/ Lookup(w) \/ CompleteReconciliation(w) \/ Abandon(w)
                  \/ \E o \in Operations : IssueReceipt(o)
    PROVE  UNCHANGED <<cases, proposals, snapshots>>
BY DEF decisionVars, rowVars, ClaimCurrent, ClaimStale, ClaimNothing, SendStep,
       SendAccepted, SendAckLost, SendFails, SendRejected, Send,
       CompleteAssignment, RecordAssignment, CompleteFails, MarkUnknown,
       MarkFailed, ReadForReconciliation, Lookup, CompleteReconciliation,
       Abandon, IssueReceipt

LEMMA ClaimsAllowed ==
    ASSUME FacadeInv, NEW w \in Workers, ClaimsNamed(w)
    PROVE  Allowed
<1> DEFINE o == request[w].target
<1>1. o \in Operations
  BY DEF ClaimsNamed, FacadeInv, RequestsKnow, Knows
<1>2. UNCHANGED <<second, captured, overtaken>>
  BY DEF ClaimsNamed
<1>3. Claim(w) /\ (Continues(w, "working") \/ Finishes(w))
  BY <1>1 DEF ClaimsNamed, Claim
<1>4. Next
  BY <1>3 DEF Next, WorkerStep
<1>5. UNCHANGED <<cases, proposals, snapshots>>
  BY <1>3, WorkAside DEF Claim
<1>6. RequestsKnow' /\ RunsAsBefore
  BY <1>2, <1>3, ContinuesKnows, FinishesKnows DEF FacadeInv
<1> QED
  BY <1>2, <1>4, <1>5, <1>6 DEF Allowed, Aside

LEMMA DispatchesAllowed ==
    ASSUME FacadeInv, NEW w \in Workers, Dispatches(w)
    PROVE  Allowed
<1>1. UNCHANGED <<second, captured, overtaken>>
  BY DEF Dispatches
<1>2. Next
  BY DEF Dispatches, Next, WorkerStep
<1>3. UNCHANGED <<cases, proposals, snapshots>>
  BY WorkAside DEF Dispatches
<1>4. Finishes(w) \/ UNCHANGED request
  BY DEF Dispatches
<1>5. RequestsKnow' /\ RunsAsBefore
  BY <1>1, <1>4, FinishesKnows DEF FacadeInv, RequestsKnow, RunsAsBefore
<1> QED
  BY <1>1, <1>2, <1>3, <1>5 DEF Allowed, Aside

LEMMA ReconcilesAllowed ==
    ASSUME FacadeInv, NEW w \in Workers, Reconciles(w)
    PROVE  Allowed
<1> DEFINE o == request[w].target
<1>1. o \in Operations
  BY DEF Reconciles, FacadeInv, RequestsKnow, Knows
<1>2. UNCHANGED <<second, captured, overtaken>>
  BY DEF Reconciles
<1>3. \/ ReadForReconciliation(w, o) \/ Lookup(w) \/ CompleteReconciliation(w)
      \/ UNCHANGED vars
  BY DEF Reconciles
<1>4. Next \/ UNCHANGED vars
  BY <1>1, <1>3 DEF Next, WorkerStep
<1>5. UNCHANGED <<cases, proposals, snapshots>>
  BY <1>1, <1>3, WorkAside DEF vars, decisionVars, rowVars
<1>6. Continues(w, "receipting") \/ UNCHANGED request
  BY DEF Reconciles
<1>7. RequestsKnow' /\ RunsAsBefore
  BY <1>1, <1>2, <1>6, ContinuesKnows DEF FacadeInv, RequestsKnow, RunsAsBefore
<1> QED
  BY <1>2, <1>4, <1>5, <1>7 DEF Allowed, Aside

LEMMA ReceiptAllowed ==
    ASSUME FacadeInv, NEW w \in Workers, IssuesReceipt(w)
    PROVE  Allowed
<1> DEFINE o == request[w].target
<1>1. o \in Operations
  BY DEF IssuesReceipt, FacadeInv, RequestsKnow, Knows
<1>2. UNCHANGED <<second, captured, overtaken>> /\ Finishes(w)
  BY DEF IssuesReceipt
<1>3. IssueReceipt(o) \/ UNCHANGED vars
  BY DEF IssuesReceipt
<1>4. Next \/ UNCHANGED vars
  BY <1>1, <1>3 DEF Next, Observe
<1>5. UNCHANGED <<cases, proposals, snapshots>>
  BY <1>1, <1>3, WorkAside DEF vars, decisionVars, rowVars
<1>6. RequestsKnow' /\ RunsAsBefore
  BY <1>2, FinishesKnows DEF FacadeInv
<1> QED
  BY <1>2, <1>4, <1>5, <1>6 DEF Allowed, Aside

LEMMA EndAllowed ==
    ASSUME FacadeInv, NEW w \in Workers, RequestEnds(w)
    PROVE  Allowed
<1>1. UNCHANGED <<second, captured, overtaken>> /\ Finishes(w)
  BY DEF RequestEnds
<1>2. Abandon(w) \/ UNCHANGED vars
  BY DEF RequestEnds
<1>3. Next \/ UNCHANGED vars
  BY <1>2 DEF Next, WorkerStep
<1>4. UNCHANGED <<cases, proposals, snapshots>>
  BY <1>2, WorkAside DEF vars, decisionVars, rowVars
<1>5. RequestsKnow' /\ RunsAsBefore
  BY <1>1, FinishesKnows DEF FacadeInv
<1> QED
  BY <1>1, <1>3, <1>4, <1>5 DEF Allowed, Aside

-----------------------------------------------------------------------------
(* The other steps, and every step.                                        *)

LEMMA CapturingStays ==
    ASSUME Capturing, UNCHANGED <<captured, snapshots>>
    PROVE  Capturing'
BY DEF Capturing, IsCaptured

(* The guard starts a run with what it has read, at the second it has.     *)
LEMMA GuardPasses ==
    ASSUME FacadeInv, NEW w \in Workers, PassesGuard(w)
    PROVE  /\ UNCHANGED vars /\ Aside /\ UNCHANGED second
           /\ RequestsKnow'
           /\ \A v \in Workers \ {w} : request'[v] = request[v]
           /\ request'[w].target = request[w].target
           /\ request[w].target # None => ~operationNeedsResolution(request[w].target)
<1> DEFINE access == IF request[w].access = "unrecorded"
                       THEN observed[request[w].session][request[w].case]
                       ELSE request[w].access
           t == [request[w] EXCEPT !.pc = "running", !.access = access,
                                   !.second = second]
<1>1. /\ request[w].pc = "guarding" /\ request' = [request EXCEPT ![w] = t]
      /\ UNCHANGED <<vars, second, captured, overtaken>>
      /\ request[w].target # None => ~operationNeedsResolution(request[w].target)
  BY DEF PassesGuard
<1>2. Knows(request[w], captured) /\ DOMAIN request = Workers
  BY DEF FacadeInv, RequestsKnow
<1>3. /\ DOMAIN t = WaitFields /\ t.pc = "running" /\ t.second = second
      /\ t.target = request[w].target
  BY <1>2 DEF Knows, WaitFields
<1> HIDE DEF t
<1>4. Knows(t, captured)
  BY <1>1, <1>2, <1>3 DEF Knows, FacadeInv
<1>5. RequestsKnow'
  BY <1>1, <1>4, RequestMoves DEF FacadeInv
<1>6. request'[w] = t /\ \A v \in Workers \ {w} : request'[v] = request[v]
  BY <1>1, <1>2
<1> QED
  BY <1>1, <1>3, <1>5, <1>6 DEF Aside, vars, decisionVars, rowVars

(* A run's decision inputs are ones the sources produce.                   *)
LEMMA PrepareIsNext ==
    ASSUME FacadeInv, NEW w \in Workers, NEW p \in Proposals,
           PreparesRecovery(w, p)
    PROVE  /\ Next
           /\ PrepareDecisionInputs(p, DecisionInputs(request[w]), FALSE)
           /\ UNCHANGED <<second, captured, snapshots, operations>>
           /\ RequestsKnow' /\ RunsAsBefore
<1>1. request[w].second \in 0..MaxSecond
  BY DEF PreparesRecovery, FacadeInv, RequestsKnow, Knows
<1>2. DecisionInputs(request[w]) \in Revisions
  BY <1>1, FacadeAssumption DEF DecisionInputs
<1>3. /\ PrepareDecisionInputs(p, DecisionInputs(request[w]), FALSE)
      /\ UNCHANGED <<second, captured>> /\ Finishes(w)
  BY DEF PreparesRecovery
<1>4. Next
  BY <1>2, <1>3 DEF Next, Decide
<1>5. UNCHANGED <<snapshots, operations>>
  BY <1>3 DEF PrepareDecisionInputs, rowVars
<1>6. RequestsKnow' /\ RunsAsBefore
  BY <1>3, FinishesKnows DEF FacadeInv
<1> QED
  BY <1>3, <1>4, <1>5, <1>6

(* What is reserved is captured, after all that was captured before.       *)
LEMMA ReserveCaptures ==
    ASSUME FacadeInv, TypeOK, NEW w \in Workers, NEW p \in Proposals,
           NEW o \in Operations, ReserveNew(Dispatcher, p, o),
           captured' = Append(captured, o), Finishes(w)
    PROVE  /\ Capturing' /\ RequestsKnow' /\ RunsAsBefore
           /\ snapshots'[o].proposal = p
           /\ \A x \in Operations \ {o} : snapshots'[x] = snapshots[x]
           /\ ~IsCaptured(o, captured)
           /\ \A i \in DOMAIN captured : captured'[i] = captured[i]
           /\ DOMAIN captured' = 1..(Len(captured) + 1)
           /\ captured'[Len(captured) + 1] = o
<1>1. captured \in Seq(Operations)
  BY DEF FacadeInv, Capturing
<1>2. /\ captured' \in Seq(Operations)
      /\ \A i \in DOMAIN captured : captured'[i] = captured[i]
      /\ DOMAIN captured' = 1..(Len(captured) + 1)
      /\ DOMAIN captured = 1..Len(captured) /\ Len(captured) \in Nat
      /\ captured'[Len(captured) + 1] = o
  BY <1>1
<1> DEFINE row == [proposal |-> p, approver |-> approvals[p].approver,
                   bound |-> proposals[p].bound]
<1>3. /\ snapshots[o] = None
      /\ \A x \in Operations \ {o} : snapshots'[x] = snapshots[x]
      /\ snapshots'[o] = row
  BY DEF ReserveNew, TypeOK
<1>4. row \in Snapshot
  <2>1. /\ proposals[p] \in Proposal /\ approvals[p] \in Approval
    BY DEF ReserveNew, BindingIsCurrent, TypeOK
  <2> QED
    BY <2>1 DEF Proposal, Approval, Snapshot
<1>5. snapshots'[o] # None /\ snapshots'[o].proposal = p
  BY <1>3, <1>4, NoneAssumption
<1>6. ~IsCaptured(o, captured)
  BY <1>3 DEF IsCaptured, FacadeInv, Capturing
<1>7. Capturing'
  <2>1. ASSUME NEW i \in DOMAIN captured' PROVE snapshots'[captured'[i]] # None
    <3>1. CASE i = Len(captured) + 1
      BY <1>2, <1>5, <3>1
    <3>2. CASE i \in DOMAIN captured
      <4>1. captured[i] \in Operations /\ captured[i] # o
        BY <1>1, <1>6, <3>2 DEF IsCaptured
      <4> QED
        BY <1>2, <1>3, <3>2, <4>1 DEF FacadeInv, Capturing
    <3> QED
      BY <1>2, <2>1, <3>1, <3>2
  <2>2. ASSUME NEW x \in Operations, snapshots'[x] # None
        PROVE  IsCaptured(x, captured')
    <3>1. CASE x = o
      BY <1>2, <3>1 DEF IsCaptured
    <3>2. CASE x # o
      BY <1>2, <1>3, <2>2, <3>2 DEF IsCaptured, FacadeInv, Capturing
    <3> QED
      BY <3>1, <3>2
  <2> QED
    BY <1>2, <2>1, <2>2 DEF Capturing
<1>8. \A x : IsCaptured(x, captured) => IsCaptured(x, captured')
  BY <1>2 DEF IsCaptured
<1>9. RequestsKnow' /\ RunsAsBefore
  <2>1. DOMAIN request' = Workers /\ DOMAIN request = Workers
    BY DEF Finishes, FacadeInv, RequestsKnow
  <2>2. \A v \in Workers : request'[v] = IF v = w THEN NoRequest ELSE request[v]
    BY <2>1 DEF Finishes
  <2>3. \A v \in Workers : Knows(request[v], captured')
    BY <1>8 DEF FacadeInv, RequestsKnow, Knows
  <2> QED
    BY <2>1, <2>2, <2>3, NoRequestKnows DEF RequestsKnow, RunsAsBefore
<1> QED
  BY <1>2, <1>3, <1>5, <1>6, <1>7, <1>9

(* A request reserves, or it is answered with what was reserved before.    *)
LEMMA ReserveIsNext ==
    ASSUME FacadeInv, TypeOK, NEW w \in Workers, ReservesApproved(w)
    PROVE  \/ Allowed
           \/ /\ Next /\ Capturing' /\ RequestsKnow' /\ RunsAsBefore
              /\ UNCHANGED <<second, overtaken, cases, proposals>>
              /\ \E p \in Proposals, o \in Operations :
                   /\ ReserveNew(Dispatcher, p, o)
                   /\ captured' = Append(captured, o)
                   /\ Finishes(w)
<1> DEFINE p == request[w].target
<1>1. p \in Proposals /\ Dispatcher \in Users
  BY FacadeAssumption DEF ReservesApproved, FacadeInv, RequestsKnow, Knows
<1>2. Finishes(w) /\ UNCHANGED <<second, overtaken>>
  BY DEF ReservesApproved
<1> HIDE DEF p
<1>3. ASSUME NEW o \in Operations, ReserveNew(Dispatcher, p, o),
             captured' = Append(captured, o)
      PROVE  /\ Next /\ Capturing' /\ RequestsKnow' /\ RunsAsBefore
             /\ UNCHANGED <<second, overtaken, cases, proposals>>
  <2>1. Next
    BY <1>1, <1>3 DEF Next, Decide
  <2>2. Capturing' /\ RequestsKnow' /\ RunsAsBefore
    BY <1>1, <1>2, <1>3, ReserveCaptures
  <2>3. UNCHANGED <<cases, proposals>>
    BY <1>3 DEF ReserveNew
  <2> QED
    BY <1>2, <2>1, <2>2, <2>3
<1>4. CASE ReserveReplay(Dispatcher, p) /\ UNCHANGED captured
  <2>1. Next
    BY <1>1, <1>4 DEF Next, Decide
  <2>2. UNCHANGED <<cases, proposals, snapshots>>
    BY <1>4 DEF ReserveReplay, rowVars
  <2>3. RequestsKnow' /\ RunsAsBefore
    BY <1>2, <1>4, FinishesKnows DEF FacadeInv
  <2> QED
    BY <1>2, <1>4, <2>1, <2>2, <2>3 DEF Allowed, Aside
<1> QED
  BY <1>1, <1>2, <1>3, <1>4 DEF ReservesApproved, p

(* A step that the lifecycle allows, or that it does not see, and that     *)
(* starts no run, makes no proposal and reserves nothing.                  *)
Quiet == /\ [Next]_vars
         /\ Aside
         /\ second' \in 0..MaxSecond
         /\ RequestsKnow'
         /\ RunsAsBefore

(* Proposals and operations are made here, and nowhere else.               *)
Reserving(w, p, o) == /\ ReserveNew(Dispatcher, p, o)
                      /\ captured' = Append(captured, o)
                      /\ Finishes(w)
                      /\ UNCHANGED <<second, overtaken, cases, proposals>>

LEMMA StepKinds ==
    ASSUME FacadeInv, TypeOK, [FacadeNext]_allVars
    PROVE  \/ Quiet
           \/ \E w \in Workers : PassesGuard(w)
           \/ \E w \in Workers, p \in Proposals : PreparesRecovery(w, p)
           \/ \E w \in Workers, p \in Proposals, o \in Operations :
                Reserving(w, p, o)
<1>1. Allowed => Quiet
  BY DEF Allowed, Quiet, FacadeInv
<1>2. ASSUME UNCHANGED <<request, captured>> PROVE RequestsKnow' /\ RunsAsBefore
  BY <1>2 DEF FacadeInv, RequestsKnow, RunsAsBefore
<1>3. ASSUME NEW w \in Workers, RequestStep(w)
      PROVE  \/ Allowed
             \/ PassesGuard(w)
             \/ \E p \in Proposals : PreparesRecovery(w, p)
             \/ \E p \in Proposals, o \in Operations : Reserving(w, p, o)
  <2>1. CASE \E s \in Sessions : Asks(w, s)
    BY <2>1, AsksAllowed
  <2>2. CASE ReservesApproved(w)
    BY <2>2, ReserveIsNext DEF Reserving
  <2>3. CASE ClaimsNamed(w)
    BY <2>3, ClaimsAllowed
  <2>4. CASE Dispatches(w)
    BY <2>4, DispatchesAllowed
  <2>5. CASE Reconciles(w)
    BY <2>5, ReconcilesAllowed
  <2>6. CASE IssuesReceipt(w)
    BY <2>6, ReceiptAllowed
  <2>7. CASE RequestEnds(w)
    BY <2>7, EndAllowed
  <2> QED
    BY <1>3, <2>1, <2>2, <2>3, <2>4, <2>5, <2>6, <2>7 DEF RequestStep
<1>4. CASE \E s \in Sessions : Issue(s)
  BY <1>2, <1>4
     DEF Issue, Quiet, Aside, vars, decisionVars, rowVars, FacadeInv
<1>5. CASE Tick
  <2>1. second' \in 0..MaxSecond
    BY <1>5, FacadeAssumption DEF Tick, FacadeInv
  <2> QED
    BY <1>2, <1>5, <2>1 DEF Tick, Quiet, Aside, vars, decisionVars, rowVars
<1>6. CASE DatabaseClock
  <2>1. Next
    BY <1>6 DEF DatabaseClock, Next, TimePasses
  <2>2. UNCHANGED <<cases, proposals, snapshots>>
    BY <1>6 DEF DatabaseClock, ProposalExpires, LeaseExpires, decisionVars, rowVars
  <2> QED
    BY <1>2, <1>6, <2>1, <2>2
       DEF DatabaseClock, facadeVars, Quiet, Aside, FacadeInv
<1>7. CASE UNCHANGED allVars
  BY <1>2, <1>7
     DEF allVars, facadeVars, Quiet, Aside, vars, decisionVars, rowVars, FacadeInv
<1> QED
  BY <1>1, <1>3, <1>4, <1>5, <1>6, <1>7 DEF FacadeNext

LEMMA FacadeInitHolds == FacadeInit => Init /\ FacadeInv
<1> SUFFICES ASSUME FacadeInit PROVE Init /\ FacadeInv
  OBVIOUS
<1>1. Init /\ captured = <<>> /\ second = 0
  BY DEF FacadeInit
<1>2. Capturing
  BY <1>1 DEF Init, Capturing
<1>3. RequestsKnow
  BY NoRequestKnows DEF FacadeInit, RequestsKnow
<1> QED
  BY <1>1, <1>2, <1>3, FacadeAssumption DEF FacadeInv

LEMMA FacadeStep ==
    ASSUME FacadeInv, TypeOK, [FacadeNext]_allVars
    PROVE  [Next]_vars /\ FacadeInv'
<1>1. CASE Quiet
  BY <1>1, CapturingStays DEF Quiet, Aside, FacadeInv
<1>2. ASSUME NEW w \in Workers, PassesGuard(w)
      PROVE  [Next]_vars /\ FacadeInv'
  BY <1>2, GuardPasses, CapturingStays DEF Aside, FacadeInv
<1>3. ASSUME NEW w \in Workers, NEW p \in Proposals, PreparesRecovery(w, p)
      PROVE  [Next]_vars /\ FacadeInv'
  BY <1>3, PrepareIsNext, CapturingStays DEF FacadeInv
<1>4. ASSUME NEW w \in Workers, NEW p \in Proposals, NEW o \in Operations,
             Reserving(w, p, o)
      PROVE  [Next]_vars /\ FacadeInv'
  <2>1. Next
    BY <1>4, FacadeAssumption DEF Reserving, Next, Decide
  <2> QED
    BY <1>4, <2>1, ReserveCaptures DEF Reserving, FacadeInv
<1> QED
  BY <1>1, <1>2, <1>3, <1>4, StepKinds

(* Whatever browsers ask for, in whatever order requests go on, end half   *)
(* way or are repeated, what becomes of the database, the workers and the  *)
(* provider is a behaviour of the durable lifecycle: all that is proved of *)
(* Spec holds of FacadeSpec.                                               *)
THEOREM FacadeImplementsLifecycle == FacadeSpec => Spec /\ []FacadeInv
<1> DEFINE Both == TypeInv /\ FacadeInv
<1>1. FacadeInit => Init /\ Both
  BY FacadeInitHolds, TypeInit
<1>2. Both /\ [FacadeNext]_allVars => [Next]_vars /\ Both'
  <2> SUFFICES ASSUME Both, [FacadeNext]_allVars PROVE [Next]_vars /\ Both'
    OBVIOUS
  <2>1. [Next]_vars /\ FacadeInv'
    BY FacadeStep DEF TypeInv
  <2> QED
    BY <2>1, TypeStep
<1>3. Both => FacadeInv
  OBVIOUS
<1> HIDE DEF Both
<1> QED
  BY <1>1, <1>2, <1>3, PTL DEF FacadeSpec, Spec

(* So the lifecycle keeps its word behind the routes: what the database    *)
(* concludes about the provider is true, a dispatch is sent once, what is  *)
(* closed stays closed, a withdrawn decision is never sent, and nothing is *)
(* forgotten, whatever browsers ask for.                                   *)
THEOREM FacadeKeepsPromises ==
    FacadeSpec => /\ KnowledgeSpec
                  /\ [](RowsCoherent /\ SentAtMostOnce /\ ConclusionsTrue)
                  /\ [](RejectionRecordable /\ OneOperationPerProposal)
                  /\ [](RecordTrue /\ EvidenceFollowsAssignment)
                  /\ [][ClosedStay]_vars
                  /\ DoomedStaysDoomed
                  /\ NothingForgotten
<1>1. Spec => [](RowsCoherent /\ SentAtMostOnce /\ ConclusionsTrue)
  BY RowsStayCoherent, NeverSentTwice, ConclusionsStayTrue, PTL
<1>2. Spec => [](RejectionRecordable /\ OneOperationPerProposal)
  BY RejectionStaysRecordable, OneOperationEver, PTL
<1>3. Spec => [](RecordTrue /\ EvidenceFollowsAssignment)
  BY RecordsStayTrue, EvidenceComesAfter, PTL
<1> QED
  BY <1>1, <1>2, <1>3, FacadeImplementsLifecycle, ImplementsKnowledge, ClosedForGood,
     DoomedForGood, NothingIsForgotten, PTL

-----------------------------------------------------------------------------
(* One recovery at a time.                                                 *)

Unsettled(o, c) == /\ snapshots[o] # None
                   /\ CaseOf[snapshots[o].proposal] = c
                   /\ operationNeedsResolution(o)

(* Of a case's operations only the latest can be unresolved; and while a   *)
(* proposal of the case could still be reserved, none is.                  *)
OnlyLatest(c) ==
    /\ \A o \in Operations : Unsettled(o, c) => o = LatestOperation(c)
    /\ \A p \in Proposals :
         /\ CaseOf[p] = c /\ proposals[p] # None /\ ~HasOperation(p)
         /\ cases[c] = proposals[p].bound
         => \A o \in Operations : ~Unsettled(o, c)

(* The operation that a run's guard has read needs no resolution any more. *)
RunsGuarded ==
    \A w \in Workers :
      request[w].pc = "running" /\ request[w].target # None
        => /\ snapshots[request[w].target] # None
           /\ ~operationNeedsResolution(request[w].target)

RecoveryInv ==
    /\ RunsGuarded
    /\ \A c \in Cases : Overtaken(c) \/ Twins(c) \/ OnlyLatest(c)

LEMMA MovesSettled ==
    ASSUME NEW from \in OperationStates, NEW to \in OperationStates \ {"reserved"},
           MayMove(from, to), from \notin UnresolvedStates
    PROVE  to \notin UnresolvedStates
  BY DEF MayMove, lifecycleTransitions, triggerTransitions, OperationStates,
         UnresolvedStates

(* What needs no resolution will need none again.                          *)
LEMMA SettledStays ==
    ASSUME IInv, [Next]_vars, NEW o \in Operations, snapshots[o] # None,
           ~operationNeedsResolution(o)
    PROVE  ~operationNeedsResolution(o)'
<1>1. CASE Keeps(o)
  BY <1>1 DEF Keeps, operationNeedsResolution
<1>2. ASSUME NEW event \in Event, Advances(o, event)
      PROVE  ~operationNeedsResolution(o)'
  <2>1. /\ event.state \in OperationStates \ {"reserved"}
        /\ operations[o].state \in OperationStates
        /\ MayMove(operations[o].state, event.state)
        /\ operations'[o].state = event.state
    BY <1>2 DEF Advances, Event
  <2> QED
    BY <2>1, MovesSettled DEF operationNeedsResolution
<1> QED
  BY <1>1, <1>2, StepTrails DEF Trails, Creates

(* What is unsettled after a step, with a snapshot from before, was so     *)
(* before.                                                                 *)
LEMMA UnsettledBefore ==
    ASSUME IInv, [Next]_vars, NEW o \in Operations, NEW c, snapshots[o] # None,
           Unsettled(o, c)'
    PROVE  Unsettled(o, c)
BY SettledStays, RowsGrow DEF Unsettled

LEMMA GuardedTargets ==
    ASSUME FacadeInv, NEW w \in Workers, request[w].pc \in {"guarding", "running"},
           request[w].target # None
    PROVE  request[w].target \in Operations /\ snapshots[request[w].target] # None
BY DEF FacadeInv, RequestsKnow, Knows, Capturing, IsCaptured

LEMMA GuardedStays ==
    ASSUME IInv, FacadeInv, RunsGuarded, [Next]_vars, RunsAsBefore
    PROVE  RunsGuarded'
<1> SUFFICES ASSUME NEW w \in Workers, request'[w].pc = "running",
                    request'[w].target # None
             PROVE  /\ snapshots'[request'[w].target] # None
                    /\ operations'[request'[w].target].state \notin UnresolvedStates
  BY DEF RunsGuarded, operationNeedsResolution
<1>1. request'[w] = request[w]
  BY DEF RunsAsBefore
<1>2. request[w].target \in Operations /\ snapshots[request[w].target] # None
  BY <1>1, GuardedTargets
<1>3. ~operationNeedsResolution(request[w].target)
  BY <1>1 DEF RunsGuarded
<1> DEFINE o == request[w].target
<1>4. operations'[o].state \notin UnresolvedStates
  <2> SUFFICES ASSUME NEW x \in Operations, x = o
               PROVE  operations'[x].state \notin UnresolvedStates
    BY <1>2
  <2> QED
    BY <1>2, <1>3, SettledStays DEF operationNeedsResolution
<1> QED
  BY <1>1, <1>2, <1>4, RowsGrow

(* Steps aside from proposals and reservations only settle.                *)
LEMMA AsideKeepsLatest ==
    ASSUME IInv, [Next]_vars, Aside, NEW c \in Cases,
           Overtaken(c) \/ Twins(c) \/ OnlyLatest(c)
    PROVE  (Overtaken(c) \/ Twins(c) \/ OnlyLatest(c))'
<1>1. CASE Overtaken(c) \/ Twins(c)
  BY <1>1 DEF Aside, Overtaken, Twins
<1>2. CASE OnlyLatest(c)
  <2>1. LatestOperation(c)' = LatestOperation(c)
    BY LatestStays DEF Aside
  <2>2. \A o \in Operations : Unsettled(o, c)' => Unsettled(o, c)
    <3> SUFFICES ASSUME NEW o \in Operations, Unsettled(o, c)' PROVE Unsettled(o, c)
      OBVIOUS
    <3>1. snapshots[o] # None
      BY DEF Unsettled, Aside
    <3> QED
      BY <3>1, UnsettledBefore
  <2>3. \A p \in Proposals : HasOperation(p)' <=> HasOperation(p)
    BY DEF HasOperation, Aside
  <2> QED
    BY <1>2, <2>1, <2>2, <2>3 DEF OnlyLatest, Aside
<1> QED
  BY <1>1, <1>2

(* A proposal is made when the latest operation of its case was found      *)
(* settled, and so when all of them are, or its run was overtaken.         *)
LEMMA PrepareKeepsLatest ==
    ASSUME IInv, FacadeInv, RecoveryInv, NEW w \in Workers, NEW p \in Proposals,
           PreparesRecovery(w, p), NEW c \in Cases
    PROVE  (Overtaken(c) \/ Twins(c) \/ OnlyLatest(c))'
<1>0. TypeOK
  BY DEF IInv, TypeInv
<1>1. /\ UNCHANGED <<captured, snapshots, operations>>
      /\ PrepareDecisionInputs(p, DecisionInputs(request[w]), FALSE)
  BY PrepareIsNext
<1>2. /\ overtaken' = IF LatestOperation(request[w].case) = request[w].target
                        THEN overtaken ELSE overtaken \cup {p}
      /\ CaseOf[p] = request[w].case /\ request[w].pc = "running"
  BY DEF PreparesRecovery
<1>3. \A q \in Proposals : proposals[q] # None => proposals'[q] = proposals[q]
  BY <1>0, <1>1 DEF PrepareDecisionInputs, TypeOK
<1>4. \A q \in Proposals \ {p} : proposals'[q] = proposals[q]
  BY <1>0, <1>1 DEF PrepareDecisionInputs, TypeOK
<1>5. \A d \in Cases \ {CaseOf[p]} : cases'[d] = cases[d]
  BY <1>0, <1>1 DEF PrepareDecisionInputs, TypeOK
<1>6. /\ LatestOperation(c)' = LatestOperation(c)
      /\ \A o \in Operations : Unsettled(o, c)' <=> Unsettled(o, c)
      /\ \A q \in Proposals : HasOperation(q)' <=> HasOperation(q)
  BY <1>1, LatestStays DEF Unsettled, operationNeedsResolution, HasOperation
<1>7. CASE Overtaken(c)
  BY <1>2, <1>7 DEF Overtaken
<1>8. CASE Twins(c)
  <2>1. PICK q, r \in Proposals :
          /\ q # r /\ CaseOf[q] = c /\ CaseOf[r] = c
          /\ proposals[q] # None /\ proposals[r] # None
          /\ proposals[q].bound = proposals[r].bound
    BY <1>8 DEF Twins
  <2>2. proposals'[q] = proposals[q] /\ proposals'[r] = proposals[r]
    BY <1>3, <2>1
  <2> QED
    BY <2>1, <2>2 DEF Twins
<1>9. CASE OnlyLatest(c) /\ CaseOf[p] # c
  BY <1>4, <1>5, <1>6, <1>9 DEF OnlyLatest
<1>10. CASE OnlyLatest(c) /\ CaseOf[p] = c
  <2>1. CASE LatestOperation(c) # request[w].target
    BY <1>2, <1>10, <2>1 DEF Overtaken
  <2>2. CASE LatestOperation(c) = request[w].target
    <3>1. \A o \in Operations : ~Unsettled(o, c)
      <4> SUFFICES ASSUME NEW o \in Operations, Unsettled(o, c) PROVE FALSE
        OBVIOUS
      <4>1. o = LatestOperation(c)
        BY <1>10 DEF OnlyLatest
      <4>2. request[w].target # None
        BY <2>2, <4>1, NoneAssumption
      <4> QED
        BY <1>2, <2>2, <4>1, <4>2 DEF RecoveryInv, RunsGuarded, Unsettled
    <3> QED
      BY <1>6, <3>1 DEF OnlyLatest
  <2> QED
    BY <2>1, <2>2
<1> QED
  BY <1>7, <1>8, <1>9, <1>10 DEF RecoveryInv

(* A proposal is reserved where nothing of its case is unsettled; its      *)
(* operation is then the latest, and no other proposal of the case could   *)
(* still be reserved, but a twin.                                          *)
LEMMA ReserveKeepsLatest ==
    ASSUME IInv, FacadeInv, RecoveryInv, NEW w \in Workers, NEW p \in Proposals,
           NEW o \in Operations, Reserving(w, p, o), NEW c \in Cases
    PROVE  (Overtaken(c) \/ Twins(c) \/ OnlyLatest(c))'
<1>0. TypeOK
  BY DEF IInv, TypeInv
<1>1. /\ snapshots'[o].proposal = p /\ snapshots'[o] # None
      /\ \A x \in Operations \ {o} : snapshots'[x] = snapshots[x]
      /\ ~IsCaptured(o, captured)
      /\ \A i \in DOMAIN captured : captured'[i] = captured[i]
      /\ DOMAIN captured' = 1..(Len(captured) + 1)
      /\ captured'[Len(captured) + 1] = o
      /\ Capturing'
  <2>1. /\ Capturing' /\ snapshots'[o].proposal = p
        /\ \A x \in Operations \ {o} : snapshots'[x] = snapshots[x]
        /\ ~IsCaptured(o, captured)
        /\ \A i \in DOMAIN captured : captured'[i] = captured[i]
        /\ DOMAIN captured' = 1..(Len(captured) + 1)
        /\ captured'[Len(captured) + 1] = o
    BY <1>0, ReserveCaptures DEF Reserving
  <2>2. DOMAIN captured' # {} /\ Len(captured) + 1 \in DOMAIN captured'
    BY <2>1 DEF FacadeInv, Capturing
  <2> QED
    BY <2>1, <2>2 DEF Capturing
<1>2. /\ UNCHANGED <<cases, proposals, overtaken>>
      /\ ReserveNew(Dispatcher, p, o)
  BY DEF Reserving
<1>3. /\ ~HasOperation(p) /\ proposals[p] # None
      /\ cases[CaseOf[p]] = proposals[p].bound
      /\ snapshots[o] = None
      /\ \A x \in Operations \ {o} : operations'[x] = operations[x]
  BY <1>0, <1>2 DEF ReserveNew, BindingIsCurrent, TypeOK
<1>4. \A x \in Operations \ {o} : \A d : Unsettled(x, d)' <=> Unsettled(x, d)
  BY <1>1, <1>3 DEF Unsettled, operationNeedsResolution
<1>5. \A q \in Proposals \ {p} : HasOperation(q)' <=> HasOperation(q)
  BY <1>1, <1>3 DEF HasOperation
<1>6. HasOperation(p)'
  BY <1>1 DEF HasOperation
<1>7. CASE Overtaken(c) \/ Twins(c)
  BY <1>2, <1>7 DEF Overtaken, Twins
<1>8. /\ captured' \in Seq(Operations) /\ captured \in Seq(Operations)
      /\ Len(captured) \in Nat /\ DOMAIN captured = 1..Len(captured)
  BY <1>1 DEF FacadeInv, Capturing
<1>9. /\ \A i \in DOMAIN captured : \A d : OfCase(i, d)' <=> OfCase(i, d)
      /\ \A i, d : i = Len(captured) + 1 => (OfCase(i, d)' <=> CaseOf[p] = d)
  <2>1. ASSUME NEW i \in DOMAIN captured
        PROVE  captured'[i] = captured[i] /\ captured[i] \in Operations \ {o}
    BY <1>1, <1>8 DEF IsCaptured
  <2>2. ASSUME NEW i \in DOMAIN captured, NEW d PROVE OfCase(i, d)' <=> OfCase(i, d)
    <3>1. snapshots'[captured'[i]] = snapshots[captured[i]]
      BY <1>1, <2>1
    <3> QED
      BY <3>1 DEF OfCase
  <2>3. ASSUME NEW i, NEW d, i = Len(captured) + 1
        PROVE  OfCase(i, d)' <=> CaseOf[p] = d
    <3>1. captured'[i] = o
      BY <1>1, <2>3
    <3> QED
      BY <1>1, <3>1 DEF OfCase
  <2> QED
    BY <2>2, <2>3
<1>10. CASE OnlyLatest(c) /\ CaseOf[p] # c
  <2>1. LatestOperation(c)' = LatestOperation(c)
    <3> DEFINE mine == {i \in DOMAIN captured : OfCase(i, c)}
               mineThen == {i \in DOMAIN captured' : OfCase(i, c)'}
    <3>1. mineThen = mine
      BY <1>1, <1>8, <1>9, <1>10
    <3>2. \A i \in mine : captured'[i] = captured[i]
      BY <1>1
    <3>3. LatestOperation(c) =
            IF mine = {} THEN None
            ELSE captured[CHOOSE i \in mine : \A j \in mine : j <= i]
      BY DEF LatestOperation, OfCase
    <3>4. LatestOperation(c)' =
            IF mineThen = {} THEN None
            ELSE captured'[CHOOSE i \in mineThen : \A j \in mineThen : j <= i]
      BY DEF LatestOperation, OfCase
    <3>5. ASSUME mine # {}
          PROVE  (CHOOSE i \in mine : \A j \in mine : j <= i) \in mine
      <4>1. mine \in SUBSET (1..Len(captured))
        BY <1>8
      <4>2. \E k \in mine : \A m \in mine : m <= k
        BY <1>8, <3>5, <4>1, Greatest
      <4> QED
        BY <4>2
    <3> HIDE DEF mine, mineThen
    <3> QED
      BY <3>1, <3>2, <3>3, <3>4, <3>5
  <2>2. ~Unsettled(o, c)'
    BY <1>1, <1>10 DEF Unsettled
  <2> QED
    BY <1>2, <1>4, <1>5, <1>10, <2>1, <2>2 DEF OnlyLatest
<1>11. CASE OnlyLatest(c) /\ CaseOf[p] = c
  <2>1. \A x \in Operations : ~Unsettled(x, c)
    BY <1>3, <1>11 DEF OnlyLatest
  <2>2. LatestOperation(c)' = o
    <3> DEFINE mine == {i \in DOMAIN captured' : OfCase(i, c)'}
               last == Len(captured) + 1
    <3>1. last \in mine /\ \A j \in mine : j <= last /\ j \in Nat
      BY <1>1, <1>8, <1>9, <1>11
    <3>2. \A k \in mine : (\A j \in mine : j <= k) => k = last
      BY <1>8, <3>1
    <3>3. (CHOOSE i \in mine : \A j \in mine : j <= i) = last
      BY <3>1, <3>2
    <3>4. LatestOperation(c)' =
            IF mine = {} THEN None
            ELSE captured'[CHOOSE i \in mine : \A j \in mine : j <= i]
      BY DEF LatestOperation, OfCase
    <3> HIDE DEF mine
    <3> QED
      BY <1>1, <3>1, <3>3, <3>4
  <2>3. \A x \in Operations : Unsettled(x, c)' => x = LatestOperation(c)'
    BY <1>4, <2>1, <2>2
  <2>4. ASSUME NEW q \in Proposals, CaseOf[q] = c, proposals'[q] # None,
               ~HasOperation(q)', cases'[c] = proposals'[q].bound
        PROVE  Twins(c)'
    <3>1. q # p
      BY <1>6, <2>4
    <3>2. proposals'[p] # None /\ cases'[c] = proposals'[p].bound
      BY <1>2, <1>3, <1>11
    <3> QED
      BY <1>11, <2>4, <3>1, <3>2 DEF Twins
  <2> QED
    BY <2>3, <2>4 DEF OnlyLatest
<1> QED
  BY <1>7, <1>10, <1>11 DEF RecoveryInv

LEMMA RecoveryStep ==
    ASSUME IInv, FacadeInv, RecoveryInv, [FacadeNext]_allVars
    PROVE  RecoveryInv'
<1>0. TypeOK
  BY DEF IInv, TypeInv
<1>1. CASE Quiet
  BY <1>1, GuardedStays, AsideKeepsLatest DEF Quiet, RecoveryInv
<1>2. ASSUME NEW w \in Workers, PassesGuard(w) PROVE RecoveryInv'
  <2>1. /\ UNCHANGED vars /\ Aside
        /\ \A v \in Workers \ {w} : request'[v] = request[v]
        /\ request'[w].target = request[w].target
        /\ request[w].target # None => ~operationNeedsResolution(request[w].target)
    BY <1>2, GuardPasses
  <2>2. request[w].pc = "guarding"
    BY <1>2 DEF PassesGuard
  <2>3. request[w].target # None => snapshots[request[w].target] # None
    BY <2>2, GuardedTargets
  <2>4. UNCHANGED <<snapshots, operations>>
    BY <2>1 DEF vars, rowVars
  <2>5. RunsGuarded'
    BY <2>1, <2>3, <2>4 DEF RunsGuarded, RecoveryInv, operationNeedsResolution
  <2> QED
    BY <2>1, <2>5, AsideKeepsLatest DEF RecoveryInv
<1>3. ASSUME NEW w \in Workers, NEW p \in Proposals, PreparesRecovery(w, p)
      PROVE  RecoveryInv'
  BY <1>3, PrepareIsNext, GuardedStays, PrepareKeepsLatest DEF RecoveryInv
<1>4. ASSUME NEW w \in Workers, NEW p \in Proposals, NEW o \in Operations,
             Reserving(w, p, o)
      PROVE  RecoveryInv'
  <2>1. Next
    BY <1>4, FacadeAssumption DEF Reserving, Next, Decide
  <2>2. RunsAsBefore
    BY <1>0, <1>4, ReserveCaptures DEF Reserving
  <2> QED
    BY <1>4, <2>1, <2>2, GuardedStays, ReserveKeepsLatest DEF RecoveryInv
<1> QED
  BY <1>0, <1>1, <1>2, <1>3, <1>4, StepKinds

LEMMA RecoveryInit == FacadeInit => RecoveryInv
<1> SUFFICES ASSUME FacadeInit PROVE RecoveryInv
  OBVIOUS
<1>1. /\ \A w \in Workers : request[w].pc = "idle"
      /\ \A o \in Operations : snapshots[o] = None
  BY NoRequestKnows DEF FacadeInit, Init
<1> QED
  BY <1>1 DEF RecoveryInv, RunsGuarded, OnlyLatest, Unsettled

LEMMA OneUnresolved ==
    ASSUME NEW c \in Cases, OnlyLatest(c)
    PROVE  Cardinality(Unresolved(c)) <= 1
<1>1. \A o \in Unresolved(c) : o = LatestOperation(c)
  BY DEF OnlyLatest, Unsettled, Unresolved
<1>2. CASE Unresolved(c) = {}
  BY <1>2, FS_EmptySet
<1>3. CASE Unresolved(c) # {}
  <2>1. Unresolved(c) = {LatestOperation(c)}
    BY <1>1, <1>3
  <2>2. Cardinality(Unresolved(c)) = 1
    BY <2>1, FS_Singleton, Zenon
  <2> QED
    BY <2>2
<1> QED
  BY <1>2, <1>3

(* A case has one unresolved recovery at most, whatever requests end half  *)
(* way, are repeated or come late, but where a Pal run was overtaken or    *)
(* two of its runs took one snapshot.                                      *)
THEOREM OneRecoveryAtATime == FacadeSpec => []OneRecoveryUnlessOvertaken
<1>1. FacadeSpec => Spec /\ []FacadeInv
  BY FacadeImplementsLifecycle
<1>2. Spec => []IInv
  BY Invariance
<1>3. FacadeInit => RecoveryInv
  BY RecoveryInit
<1>4. IInv /\ FacadeInv /\ RecoveryInv /\ [FacadeNext]_allVars => RecoveryInv'
  BY RecoveryStep
<1>5. RecoveryInv => OneRecoveryUnlessOvertaken
  BY OneUnresolved DEF RecoveryInv, OneRecoveryUnlessOvertaken
<1> QED
  BY <1>1, <1>2, <1>3, <1>4, <1>5, PTL DEF FacadeSpec

=============================================================================
