------------------------ MODULE RecoveryRoutingProofs ------------------------
(***************************************************************************)
(* Whatever the requests are and whatever the solver answers, every quote  *)
(* is sound and no fault of the solver passes for an infeasible recovery.  *)
(***************************************************************************)
EXTENDS RecoveryRouting, TLAPS

(* What the checks leave standing.                                         *)

LEMMA WorkIsKept ==
    ASSUME NEW r, NEW a, NEW v, NEW w, workFailure(r, a, v, w) = "none"
    PROVE  /\ w \notin a.unassigned
           /\ Once(Places(a, w))
           /\ \A p \in Places(a, w) : /\ VehicleAt(a, p) = v
                                      /\ StepAt(a, p).service = r.workSeconds[w]
<1> DEFINE places == Places(a, w)
<1>1. w \notin a.unassigned
  BY DEF workFailure
<1>2. places # {} /\ Once(places)
  BY <1>1 DEF workFailure
<1>3. ~ \E p \in places : VehicleAt(a, p) # v
  BY <1>1, <1>2 DEF workFailure
<1>4. ~ \E p \in places : StepAt(a, p).service # r.workSeconds[w]
  BY <1>1, <1>2, <1>3 DEF workFailure
<1> QED
  BY <1>1, <1>2, <1>3, <1>4

LEMMA AnswerStands ==
    ASSUME NEW r, NEW a, NEW jobs, answerEnds(r, a, jobs) = {}
    PROVE  /\ Usable(a)
           /\ SpeaksOf(r, a, jobs)
           /\ \A v \in Eligible(r) : \A w \in r.committed[v] \cap Works :
                workFailure(r, a, v, w) = "none"
<1>1. Usable(a)
  BY DEF answerEnds
<1>2. proofFailures(r, a, jobs) = {}
  BY <1>1 DEF answerEnds
<1>3. SpeaksOf(r, a, jobs)
  BY <1>2 DEF proofFailures
<1>4. {workFailure(r, a, c[1], c[2]) : c \in Commitments(r)} \ {"none"} = {}
  BY <1>2, <1>3 DEF proofFailures
<1>5. ASSUME NEW v \in Eligible(r), NEW w \in r.committed[v] \cap Works
      PROVE  workFailure(r, a, v, w) = "none"
  <2>1. <<v, w>> \in Commitments(r)
    BY <1>5 DEF Commitments
  <2>2. workFailure(r, a, <<v, w>>[1], <<v, w>>[2]) = "none"
    BY <1>4, <2>1
  <2> QED
    BY <2>2
<1> QED
  BY <1>1, <1>3, <1>5

LEMMA FullStands ==
    ASSUME NEW r, NEW a, fullEnds(r, a) = {}
    PROVE  /\ answerEnds(r, a, CommittedJobs(r) \cup {Recovery}) = {}
           /\ Once(RecoveryPlaces(a))
           /\ ServesAndFits(r, a)
           /\ InsideAccess(r, a)
BY DEF fullEnds

LEMMA BaselineStands ==
    ASSUME NEW r, NEW a, NEW b, baselineEnds(r, a, b) = {}
    PROVE  /\ answerEnds(r, b, CommittedJobs(r)) = {}
           /\ ~(operationalSeconds(a, RecoveryVehicle(a))
                  < baselineSeconds(r, b, RecoveryVehicle(a)))
BY DEF baselineEnds

LEMMA CommittedWorkStands ==
    ASSUME request \in Requests, NEW a, NEW jobs,
           answerEnds(request, a, jobs) = {}
    PROVE  KeepsCommittedWork(a)
<1>1. \A v \in Eligible(request) : request.committed[v] \subseteq Works
  BY RoutingAssumption DEF RequestType, Eligible
<1>2. \A v \in Eligible(request) : \A w \in request.committed[v] :
        workFailure(request, a, v, w) = "none"
  BY <1>1, AnswerStands
<1> QED
  BY <1>2, WorkIsKept DEF KeepsCommittedWork

-----------------------------------------------------------------------------

(* The recovery has its step in the answer, with the types of one, on a    *)
(* route of an eligible vehicle.                                           *)
LEMMA RecoveryIsServed ==
    ASSUME NEW r \in Requests, NEW a \in Answers, fullEnds(r, a) = {}
    PROVE  /\ a \in AnswerType
           /\ RecoveryVehicle(a) \in Eligible(r)
           /\ RecoveryStep(a) \in StepType
<1>1. Usable(a) /\ SpeaksOf(r, a, CommittedJobs(r) \cup {Recovery})
  BY FullStands, AnswerStands
<1>2. a \in AnswerType
  BY <1>1, RoutingAssumption DEF Usable
<1>3. RecoveryPlace(a) \in Places(a, Recovery)
  BY FullStands DEF Once, RecoveryPlace, RecoveryPlaces
<1>4. \E i \in DOMAIN a.routes : \E k \in DOMAIN a.routes[i].steps :
        RecoveryPlace(a) = <<i, k>>
  BY <1>3 DEF Places
<1>5. PICK i \in DOMAIN a.routes : \E k \in DOMAIN a.routes[i].steps :
        RecoveryPlace(a) = <<i, k>>
  BY <1>4
<1>6. PICK k \in DOMAIN a.routes[i].steps : RecoveryPlace(a) = <<i, k>>
  BY <1>5
<1>7. RecoveryVehicle(a) = a.routes[i].vehicle /\ RecoveryStep(a) = a.routes[i].steps[k]
  BY <1>6 DEF RecoveryVehicle, RecoveryStep, VehicleAt, StepAt
<1>8. a.routes[i] \in RouteType
  BY <1>2 DEF AnswerType
<1>9. a.routes[i].steps[k] \in StepType
  BY <1>8 DEF RouteType
<1> QED
  BY <1>1, <1>2, <1>7, <1>9 DEF SpeaksOf

LEMMA SecondsAreWhole ==
    ASSUME NEW a \in AnswerType, NEW v
    PROVE  operationalSeconds(a, v) \in Int
<1>1. CASE RoutesOf(a, v) = {}
  BY <1>1 DEF operationalSeconds
<1>2. CASE RoutesOf(a, v) # {}
  <2>1. (CHOOSE i \in RoutesOf(a, v) : TRUE) \in DOMAIN a.routes
    BY <1>2 DEF RoutesOf
  <2>2. a.routes[CHOOSE i \in RoutesOf(a, v) : TRUE] \in RouteType
    BY <2>1 DEF AnswerType
  <2> QED
    BY <1>2, <2>2 DEF operationalSeconds, RouteType
<1> QED
  BY <1>1, <1>2

-----------------------------------------------------------------------------

(* A quote rests on two answers that passed every check.                   *)
Founded ==
    (result # None /\ result.status = "feasible") =>
      /\ full \in Answers /\ baseline \in Answers
      /\ fullEnds(request, full) = {}
      /\ baselineEnds(request, full, baseline) = {}
      /\ result = Feasible(quoteOf(request, full, baseline))

LEMMA FoundedIsSound ==
    ASSUME request \in Requests, Founded
    PROVE  QuoteSound
<1> SUFFICES ASSUME result # None, result.status = "feasible"
             PROVE  QuoteSound
  BY DEF QuoteSound
<1> DEFINE q == quoteOf(request, full, baseline)
           v == RecoveryVehicle(full)
           step == RecoveryStep(full)
<1>1. /\ full \in Answers /\ baseline \in Answers
      /\ fullEnds(request, full) = {}
      /\ baselineEnds(request, full, baseline) = {}
      /\ result.quote = q
  BY DEF Founded, Feasible
<1>2. full \in AnswerType /\ v \in Eligible(request) /\ step \in StepType
  BY <1>1, RecoveryIsServed
<1>3. KeepsCommittedWork(full) /\ KeepsCommittedWork(baseline)
  BY <1>1, FullStands, BaselineStands, CommittedWorkStands
<1>4. baseline \in AnswerType
  <2>1. Usable(baseline)
    BY <1>1, BaselineStands, AnswerStands
  <2> QED
    BY <1>1, <2>1, RoutingAssumption DEF Usable
<1>5. request \in RequestType
  BY RoutingAssumption
<1>6. request.fleet[v] \in VehicleInfo /\ v \in Vehicles
  BY <1>2, <1>5 DEF Eligible, RequestType
<1>7. /\ q.tenant = request.tenant /\ q.vehicle = v
      /\ q.serviceStart = serviceStart(full) /\ q.serviceEnd = serviceEnd(full)
      /\ q.remainingCapacityKg = request.fleet[v].capacityKg - step.load[1]
      /\ q.incrementalSeconds = operationalSeconds(full, v)
                                  - baselineSeconds(request, baseline, v)
  BY DEF quoteOf
<1>8. /\ request.fleet[v].tenant = request.tenant /\ request.fleet[v].available
      /\ request.streamCapability \in request.fleet[v].capabilities
      /\ request.requestedAt < request.fleet[v].shiftEnd
  BY <1>2 DEF Eligible
<1>9. /\ q.serviceStart >= request.accessStart
      /\ q.serviceEnd <= request.accessEnd
  BY <1>1, <1>7, FullStands DEF InsideAccess
<1>10. q.serviceEnd = q.serviceStart + request.serviceSeconds
  BY <1>1, <1>7, FullStands DEF ServesAndFits, serviceEnd
<1>11. q.validUntil <= request.quoteValidUntil /\ q.validUntil <= request.accessEnd
  BY <1>5 DEF quoteOf, RequestType
<1>12. q.remainingCapacityKg \in 0..request.fleet[v].capacityKg
  <2>1. Len(step.load) = 1 /\ step.load[1] <= request.fleet[v].capacityKg
    BY <1>1, FullStands DEF ServesAndFits
  <2>2. step.load \in Seq(Nat)
    BY <1>2 DEF StepType
  <2>3. step.load[1] \in Nat
    BY <2>1, <2>2
  <2>4. request.fleet[v].capacityKg \in Nat
    BY <1>6 DEF VehicleInfo
  <2> QED
    BY <1>7, <2>1, <2>3, <2>4
<1>13. q.incrementalSeconds >= 0
  <2>1. operationalSeconds(full, v) \in Int
    BY <1>2, SecondsAreWhole
  <2>2. baselineSeconds(request, baseline, v) \in Int
    BY <1>4, SecondsAreWhole DEF baselineSeconds
  <2>3. ~(operationalSeconds(full, v) < baselineSeconds(request, baseline, v))
    BY <1>1, BaselineStands
  <2> QED
    BY <1>7, <2>1, <2>2, <2>3
<1> HIDE DEF q, v, step
<1> QED
  BY <1>1, <1>3, <1>7, <1>8, <1>9, <1>10, <1>11, <1>12, <1>13 DEF QuoteSound

-----------------------------------------------------------------------------
(* What an answer that ends the quote may end it with.                     *)

EndsWell(outcome, grounds) ==
    /\ outcome.status # "feasible"
    /\ outcome.retryable = FALSE
    /\ outcome.status = "infeasible" => grounds

LEMMA AnswerEndsWell ==
    ASSUME NEW a, a # None, NEW jobs, NEW outcome \in answerEnds(request, a, jobs)
    PROVE  EndsWell(outcome, LeavesWorkOver(a, jobs))
<1>1. CASE ~Usable(a)
  <2>1. outcome = Malformed
    BY <1>1 DEF answerEnds
  <2> QED
    BY <2>1 DEF EndsWell, Malformed, Unavailable
<1>2. CASE Usable(a)
  <2>1. PICK code \in proofFailures(request, a, jobs) : outcome = Refused(code)
    BY <1>2 DEF answerEnds
  <2>2. CASE code # "committed_work_unassigned"
    BY <2>1, <2>2 DEF EndsWell, Refused, Unavailable
  <2>3. CASE code = "committed_work_unassigned"
    <3>1. /\ SpeaksOf(request, a, jobs)
          /\ code \in {workFailure(request, a, c[1], c[2]) : c \in Commitments(request)}
      BY <2>3 DEF proofFailures
    <3>2. PICK c \in Commitments(request) :
            workFailure(request, a, c[1], c[2]) = "committed_work_unassigned"
      BY <2>3, <3>1
    <3>3. c[2] \in a.unassigned
      BY <3>2 DEF workFailure
    <3>4. c[2] \in CommittedJobs(request)
      BY DEF CommittedJobs
    <3>5. LeavesWorkOver(a, jobs)
      BY <1>2, <3>1, <3>3, <3>4 DEF LeavesWorkOver
    <3> QED
      BY <2>1, <2>3, <3>5 DEF EndsWell, Refused, Infeasible
  <2> QED
    BY <2>2, <2>3
<1> QED
  BY <1>1, <1>2

LEMMA FullEndsWell ==
    ASSUME request \in Requests, NEW a, a # None, NEW outcome \in fullEnds(request, a)
    PROVE  EndsWell(outcome,
                    \/ LeavesWorkOver(a, CommittedJobs(request) \cup {Recovery})
                    \/ OnlyRecoveryFails(a))
<1> DEFINE jobs == CommittedJobs(request) \cup {Recovery}
<1>1. CASE answerEnds(request, a, jobs) # {}
  <2>1. EndsWell(outcome, LeavesWorkOver(a, jobs))
    BY <1>1, AnswerEndsWell DEF fullEnds
  <2> QED
    BY <2>1 DEF EndsWell
<1>2. CASE answerEnds(request, a, jobs) = {}
  <2>1. Usable(a) /\ SpeaksOf(request, a, jobs) /\ KeepsCommittedWork(a)
    BY <1>2, AnswerStands, CommittedWorkStands
  <2>2. CASE outcome = Malformed
    BY <2>2 DEF EndsWell, Malformed, Unavailable
  <2>3. CASE outcome = Infeasible("no_solver_assignment") /\ Recovery \in a.unassigned
    BY <2>1, <2>3 DEF EndsWell, OnlyRecoveryFails, Infeasible
  <2>4. CASE /\ outcome = Infeasible("service_outside_access_window")
             /\ Once(RecoveryPlaces(a)) /\ ServesAndFits(request, a)
             /\ ~InsideAccess(request, a)
    BY <2>1, <2>4 DEF EndsWell, OnlyRecoveryFails, Infeasible
  <2> QED
    BY <1>2, <2>2, <2>3, <2>4 DEF fullEnds
<1> QED
  BY <1>1, <1>2

LEMMA BaselineEndsWell ==
    ASSUME NEW b, b # None, NEW outcome \in baselineEnds(request, full, b)
    PROVE  EndsWell(outcome, LeavesWorkOver(b, CommittedJobs(request)))
<1>1. CASE answerEnds(request, b, CommittedJobs(request)) # {}
  BY <1>1, AnswerEndsWell DEF baselineEnds
<1>2. CASE answerEnds(request, b, CommittedJobs(request)) = {}
  <2>1. outcome = Malformed
    BY <1>2 DEF baselineEnds
  <2> QED
    BY <2>1 DEF EndsWell, Malformed, Unavailable
<1> QED
  BY <1>1, <1>2

-----------------------------------------------------------------------------

Asked == validateRouteRequest(request) /\ Eligible(request) # {}

(* How far the two solves have come, by pc.                                *)
Progress ==
    /\ request \in Requests
    /\ pc \in {"start", "full", "baseline", "done"}
    /\ pc # "done" => result = None /\ baseline = None
    /\ pc \in {"start", "full"} => full = None
    /\ pc \in {"full", "baseline"} => Asked
    /\ pc = "baseline" => full \in Answers /\ fullEnds(request, full) = {}

RoutingInv == Progress /\ Founded /\ FaultsAreNotInfeasible

LEMMA NoneIsNoAnswer == None \notin Answers
BY RoutingAssumption

LEMMA RoutingInit == Init => RoutingInv
BY DEF Init, RoutingInv, Progress, Founded, FaultsAreNotInfeasible

LEMMA StartKeeps == RoutingInv /\ Start => RoutingInv'
<1> SUFFICES ASSUME RoutingInv, Start PROVE RoutingInv'
  OBVIOUS
<1>1. /\ full = None /\ baseline = None /\ result = None
      /\ request' = request /\ full' = full /\ baseline' = baseline
      /\ request \in Requests
  BY DEF RoutingInv, Progress, Start
<1>2. CASE /\ ~Asked /\ pc' = "done"
           /\ \E code : result' = Infeasible(code)
  <2>1. result'.status = "infeasible" /\ result'.retryable = FALSE
    BY <1>2 DEF Infeasible
  <2> QED
    BY <1>1, <1>2, <2>1
       DEF RoutingInv, Progress, Founded, FaultsAreNotInfeasible, Asked
<1>3. CASE Asked /\ pc' = "full" /\ result' = result
  BY <1>1, <1>3 DEF RoutingInv, Progress, Founded, FaultsAreNotInfeasible, Asked
<1> QED
  BY <1>2, <1>3 DEF Start, Return, Asked

LEMMA FullSolvedKeeps == RoutingInv /\ FullSolved => RoutingInv'
<1> SUFFICES ASSUME RoutingInv, FullSolved PROVE RoutingInv'
  OBVIOUS
<1>1. /\ Asked /\ result = None /\ baseline = None
      /\ request' = request /\ baseline' = baseline
      /\ request \in Requests
      /\ full' \in Answers /\ full' # None
  BY NoneIsNoAnswer DEF RoutingInv, Progress, FullSolved
<1>2. Asked'
  BY <1>1 DEF Asked
<1>3. CASE /\ \E outcome \in fullEnds(request, full') : result' = outcome
           /\ pc' = "done"
  <2> DEFINE leftOver == LeavesWorkOver(full', CommittedJobs(request) \cup {Recovery})
             late     == OnlyRecoveryFails(full')
  <2>1. fullEnds(request, full') # {} /\ EndsWell(result', leftOver \/ late)
    BY <1>1, <1>3, FullEndsWell
  <2>2. Founded'
    BY <2>1 DEF Founded, EndsWell
  <2>3. leftOver => LeavesWorkOver(full, CommittedJobs(request) \cup {Recovery})'
    BY <1>1 DEF LeavesWorkOver
  <2>4. late => OnlyRecoveryFails(full)'
    BY <1>1 DEF OnlyRecoveryFails, KeepsCommittedWork
  <2> HIDE DEF leftOver, late
  <2>5. FaultsAreNotInfeasible'
    BY <1>1, <2>1, <2>3, <2>4 DEF FaultsAreNotInfeasible, EndsWell
  <2> QED
    BY <1>1, <1>2, <1>3, <2>2, <2>5 DEF RoutingInv, Progress
<1>4. CASE fullEnds(request, full') = {} /\ pc' = "baseline" /\ result' = result
  BY <1>1, <1>2, <1>4 DEF RoutingInv, Progress, Founded, FaultsAreNotInfeasible
<1> QED
  BY <1>3, <1>4 DEF FullSolved, Return

LEMMA BaselineSolvedKeeps == RoutingInv /\ BaselineSolved => RoutingInv'
<1> SUFFICES ASSUME RoutingInv, BaselineSolved PROVE RoutingInv'
  OBVIOUS
<1>1. /\ request' = request /\ full' = full /\ pc' = "done"
      /\ request \in Requests
      /\ full \in Answers /\ full # None /\ fullEnds(request, full) = {}
      /\ baseline' \in Answers /\ baseline' # None
  BY NoneIsNoAnswer DEF RoutingInv, Progress, BaselineSolved, Return
<1>2. Progress'
  BY <1>1 DEF Progress
<1>3. CASE \E outcome \in baselineEnds(request, full, baseline') : result' = outcome
  <2>1. EndsWell(result', LeavesWorkOver(baseline', CommittedJobs(request)))
    BY <1>1, <1>3, BaselineEndsWell
  <2>2. Founded'
    BY <2>1 DEF Founded, EndsWell
  <2>3. LeavesWorkOver(baseline', CommittedJobs(request))
          => LeavesWorkOver(baseline, CommittedJobs(request))'
    BY <1>1 DEF LeavesWorkOver
  <2>4. FaultsAreNotInfeasible'
    BY <1>1, <2>1, <2>3 DEF FaultsAreNotInfeasible, EndsWell
  <2> QED
    BY <1>2, <2>2, <2>4 DEF RoutingInv
<1>4. CASE /\ baselineEnds(request, full, baseline') = {}
           /\ result' = Feasible(quoteOf(request, full, baseline'))
  <2>1. Founded'
    BY <1>1, <1>4 DEF Founded
  <2>2. result'.status = "feasible" /\ result'.retryable = FALSE
    BY <1>4 DEF Feasible
  <2>3. FaultsAreNotInfeasible'
    BY <1>1, <2>2 DEF FaultsAreNotInfeasible
  <2> QED
    BY <1>2, <2>1, <2>3 DEF RoutingInv
<1> QED
  BY <1>3, <1>4 DEF BaselineSolved, Return

LEMMA TransportFailsKeeps == RoutingInv /\ TransportFails => RoutingInv'
<1> SUFFICES ASSUME RoutingInv, TransportFails PROVE RoutingInv'
  OBVIOUS
<1>1. /\ Asked /\ baseline = None
      /\ full = None \/ fullEnds(request, full) = {}
      /\ UNCHANGED <<request, full, baseline>> /\ pc' = "done"
      /\ request \in Requests
  BY DEF RoutingInv, Progress, TransportFails, Solving, Return
<1>2. result'.status = "unavailable" /\ result'.retryable = TRUE
  BY DEF TransportFails, Return, Unavailable
<1>3. Progress' /\ Founded'
  BY <1>1, <1>2 DEF Progress, Founded
<1>4. FaultsAreNotInfeasible'
  BY <1>1, <1>2 DEF FaultsAreNotInfeasible, Asked
<1> QED
  BY <1>3, <1>4 DEF RoutingInv

LEMMA RoutingStep == RoutingInv /\ [Next]_vars => RoutingInv'
<1> SUFFICES ASSUME RoutingInv, [Next]_vars PROVE RoutingInv'
  OBVIOUS
<1>1. CASE UNCHANGED <<request, pc, full, baseline, result>>
  <2>1. Progress' /\ Founded'
    BY <1>1 DEF RoutingInv, Progress, Founded, Asked
  <2>2. FaultsAreNotInfeasible'
    BY <1>1 DEF RoutingInv, FaultsAreNotInfeasible, LeavesWorkOver,
                OnlyRecoveryFails, KeepsCommittedWork
  <2> QED
    BY <2>1, <2>2 DEF RoutingInv
<1> QED
  BY <1>1, StartKeeps, FullSolvedKeeps, BaselineSolvedKeeps,
     TransportFailsKeeps DEF Next, TimerFires, vars

(* Whatever the solver answers, a feasible quote is one the host can stand *)
(* by.                                                                     *)
THEOREM QuotesAreSound == Spec => []QuoteSound
<1>1. RoutingInv => QuoteSound
  BY FoundedIsSound DEF RoutingInv, Progress
<1> QED
  BY RoutingInit, RoutingStep, <1>1, PTL DEF Spec

(* No fault of the solver or of the transport is returned as an infeasible *)
(* recovery, and what is retryable has had no answer.                      *)
THEOREM FaultsStayFaults == Spec => []FaultsAreNotInfeasible
<1>1. RoutingInv => FaultsAreNotInfeasible
  BY DEF RoutingInv
<1> QED
  BY RoutingInit, RoutingStep, <1>1, PTL DEF Spec
=============================================================================
