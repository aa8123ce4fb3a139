--------------------------- MODULE RecoveryRouting ---------------------------
(***************************************************************************)
(* One quote of VroomRecoveryRoutePlanner: a request of the host is        *)
(* checked, encoded for the local VROOM solver and solved twice, with the  *)
(* recovery and without it. The solver is not trusted: whatever it answers *)
(* is checked against the request before a quote rests on it.              *)
(*                                                                         *)
(* Times are seconds, loads kilograms. Of a route only its jobs are kept,  *)
(* in order; locations, breaks, the travel matrix and the numbering of     *)
(* vehicles and jobs for the solver are left out. Committed work carries a *)
(* skill only its own vehicle has; a solver that heeds skills cannot move  *)
(* it, and one that does not is caught by the check.                       *)
(***************************************************************************)
EXTENDS Integers, Sequences

CONSTANTS
    Vehicles, Works,    \* identifiers the host may use
    Recovery,           \* RECOVERY_JOB_ID
    Requests,           \* what the host may ask
    Answers,            \* what the solver may answer, Garbage included
    Garbage,            \* any answer that parseVroomResponse finds malformed
    None

VehicleInfo ==
    [tenant : STRING, available : BOOLEAN, shiftEnd : Nat, capacityKg : Nat,
     capabilities : SUBSET Nat]

RequestType ==
    [tenant : STRING, requestedAt : Nat, quoteValidUntil : Nat,
     accessStart : Nat, accessEnd : Nat, pickupKg : Nat, serviceSeconds : Nat,
     streamCapability : Nat, fleet : [Vehicles -> VehicleInfo],
     offered : SUBSET Vehicles, committed : [Vehicles -> SUBSET Works],
     workSeconds : [Works -> Nat]]

StepType  == [job : STRING, arrival : Nat, waiting : Nat, service : Nat,
              load : Seq(Nat)]
RouteType == [vehicle : STRING, seconds : Nat, steps : Seq(StepType)]

AnswerType ==
    [code : Nat, unassigned : SUBSET STRING, routes : Seq(RouteType)]

ASSUME RoutingAssumption ==
    /\ Recovery \in STRING \ Works
    /\ Requests \subseteq RequestType
    /\ Answers \subseteq AnswerType \cup {Garbage}
    /\ Garbage \notin AnswerType
    /\ None \notin AnswerType \cup {Garbage}

VARIABLES
    request,        \* the request
    pc,             \* "start", "full" or "baseline" while solving, "done"
    aborted,        \* the timer of the solve at hand has fired
    full, baseline, \* the answers of the solver, once there
    result          \* what quoteRecovery has returned

vars == <<request, pc, aborted, full, baseline, result>>

Init ==
    /\ request \in Requests
    /\ pc = "start"
    /\ aborted = FALSE
    /\ full = None /\ baseline = None
    /\ result = None

-----------------------------------------------------------------------------
(* Before the solver: eligibility.ts.                                      *)

validateRouteRequest(r) ==
    /\ r.requestedAt < r.quoteValidUntil
    /\ r.accessStart < r.accessEnd
    /\ r.pickupKg > 0 /\ r.serviceSeconds > 0
    /\ r.accessEnd - r.accessStart >= r.serviceSeconds
    /\ r.offered # {}
    /\ \A v \in r.offered :
         /\ r.fleet[v].capacityKg > 0 /\ r.fleet[v].capabilities # {}
         /\ \A w \in r.committed[v] :
              /\ r.workSeconds[w] > 0
              /\ \A u \in r.offered : w \in r.committed[u] => u = v

(* vehicleEligibility finds no failure.                                    *)
Eligible(r) ==
    {v \in r.offered :
       /\ r.fleet[v].tenant = r.tenant
       /\ r.fleet[v].available
       /\ r.requestedAt < r.fleet[v].shiftEnd
       /\ r.streamCapability \in r.fleet[v].capabilities}

(* committedJobs of encodeVroomProblem: the eligible vehicles are encoded  *)
(* with the work they are committed to, and no others.                     *)
Commitments(r) ==
    {c \in Eligible(r) \X Works : c[2] \in r.committed[c[1]]}

CommittedJobs(r) == {c[2] : c \in Commitments(r)}

-----------------------------------------------------------------------------
(* The check of an answer: validateSolverProof.                            *)

(* jobOccurrences: the places of a job, by route and step.                 *)
Places(a, job) ==
    UNION {{<<i, k>> : k \in {n \in DOMAIN a.routes[i].steps :
                                a.routes[i].steps[n].job = job}} :
           i \in DOMAIN a.routes}

StepAt(a, p)    == a.routes[p[1]].steps[p[2]]
VehicleAt(a, p) == a.routes[p[1]].vehicle

Once(S) == S # {} /\ \A x, y \in S : x = y

(* Vehicles and jobs are the ones that were asked about.                   *)
SpeaksOf(r, a, jobs) ==
    /\ \A i \in DOMAIN a.routes :
         /\ a.routes[i].vehicle \in Eligible(r)
         /\ \A j \in DOMAIN a.routes :
              a.routes[i].vehicle = a.routes[j].vehicle => i = j
         /\ \A k \in DOMAIN a.routes[i].steps : a.routes[i].steps[k].job \in jobs
    /\ a.unassigned \subseteq jobs

(* Mutant: nobody asks which vehicle does the committed work.              *)
workFailure_AnyVehicle(r, a, v, w) ==
    LET places == Places(a, w)
    IN  IF w \in a.unassigned THEN "committed_work_unassigned"
        ELSE IF places = {} THEN "committed_work_missing"
        ELSE IF ~Once(places) THEN "committed_work_duplicated"
        ELSE IF \E p \in places : StepAt(a, p).service # r.workSeconds[w]
          THEN "malformed_solver_response"
        ELSE "none"

(* What the check finds wrong with the work w of the vehicle v.            *)
workFailure(r, a, v, w) ==
    LET places == Places(a, w)
    IN  IF w \in a.unassigned THEN "committed_work_unassigned"
        ELSE IF places = {} THEN "committed_work_missing"
        ELSE IF ~Once(places) THEN "committed_work_duplicated"
        ELSE IF \E p \in places : VehicleAt(a, p) # v THEN "committed_work_moved"
        ELSE IF \E p \in places : StepAt(a, p).service # r.workSeconds[w]
          THEN "malformed_solver_response"
        ELSE "none"

(* The failures that the check may report: it stops at the first work it   *)
(* finds something wrong with, in whatever order the request has them.     *)
proofFailures(r, a, jobs) ==
    IF ~SpeaksOf(r, a, jobs) THEN {"malformed_solver_response"}
    ELSE {workFailure(r, a, c[1], c[2]) : c \in Commitments(r)} \ {"none"}

-----------------------------------------------------------------------------
(* What quoteRecovery returns.                                             *)

Feasible(quote) ==
    [status |-> "feasible", retryable |-> FALSE, code |-> "none", quote |-> quote]
Infeasible(code) ==
    [status |-> "infeasible", retryable |-> FALSE, code |-> code, quote |-> None]
Unavailable(code, retryable) ==
    [status |-> "unavailable", retryable |-> retryable, code |-> code,
     quote |-> None]

Malformed == Unavailable("malformed_solver_response", FALSE)

(* Mutant: an answer that omits committed work is taken for a plan that    *)
(* cannot keep it.                                                         *)
Refused_OmittedIsInfeasible(code) ==
    IF code \in {"committed_work_unassigned", "committed_work_missing"}
      THEN Infeasible(code) ELSE Unavailable(code, FALSE)

(* Only what the solver says itself makes a recovery infeasible; a fault   *)
(* of the answer makes the solver unavailable.                             *)
Refused(code) ==
    IF code = "committed_work_unassigned"
      THEN Infeasible(code) ELSE Unavailable(code, FALSE)

Usable(a) == a # Garbage /\ a.code = 0

(* What an answer ends the quote with, if it ends it.                      *)
answerEnds(r, a, jobs) ==
    IF ~Usable(a) THEN {Malformed}
    ELSE {Refused(code) : code \in proofFailures(r, a, jobs)}

RecoveryPlaces(a) == Places(a, Recovery)
RecoveryPlace(a)  == CHOOSE p \in RecoveryPlaces(a) : TRUE
RecoveryStep(a)   == StepAt(a, RecoveryPlace(a))
RecoveryVehicle(a) == VehicleAt(a, RecoveryPlace(a))

serviceStart(a) == RecoveryStep(a).arrival + RecoveryStep(a).waiting
serviceEnd(a)   == serviceStart(a) + RecoveryStep(a).service

(* The solver's recovery step is the service and within the capacity that  *)
(* were asked for.                                                         *)
ServesAndFits(r, a) ==
    LET step == RecoveryStep(a)
    IN  /\ step.service = r.serviceSeconds
        /\ Len(step.load) = 1
        /\ step.load[1] <= r.fleet[RecoveryVehicle(a)].capacityKg

InsideAccess(r, a) ==
    serviceStart(a) >= r.accessStart /\ serviceEnd(a) <= r.accessEnd

(* The checks on the answer to the whole problem, in their order.          *)
fullEnds(r, a) ==
    LET ends == answerEnds(r, a, CommittedJobs(r) \cup {Recovery})
    IN  IF ends # {} THEN ends
        ELSE IF Recovery \in a.unassigned THEN {Infeasible("no_solver_assignment")}
        ELSE IF ~Once(RecoveryPlaces(a)) THEN {Malformed}
        ELSE IF ~ServesAndFits(r, a) THEN {Malformed}
        ELSE IF ~InsideAccess(r, a) THEN {Infeasible("service_outside_access_window")}
        ELSE {}

(* operationalSeconds: none if the vehicle has no route.                   *)
RoutesOf(a, v) == {i \in DOMAIN a.routes : a.routes[i].vehicle = v}
operationalSeconds(a, v) ==
    IF RoutesOf(a, v) = {} THEN -1
    ELSE a.routes[CHOOSE i \in RoutesOf(a, v) : TRUE].seconds

baselineSeconds(r, b, v) ==
    IF r.committed[v] = {} THEN 0 ELSE operationalSeconds(b, v)

(* The checks on the answer to the problem without the recovery.           *)
baselineEnds(r, a, b) ==
    LET ends == answerEnds(r, b, CommittedJobs(r))
        v    == RecoveryVehicle(a)
    IN  IF ends # {} THEN ends
        ELSE IF \/ baselineSeconds(r, b, v) = -1
                \/ operationalSeconds(a, v) < baselineSeconds(r, b, v)
          THEN {Malformed}
        ELSE {}

quoteOf(r, a, b) ==
    LET v == RecoveryVehicle(a)
    IN  [tenant              |-> r.tenant,
         vehicle             |-> v,
         serviceStart        |-> serviceStart(a),
         serviceEnd          |-> serviceEnd(a),
         validUntil          |-> IF r.quoteValidUntil < r.accessEnd
                                   THEN r.quoteValidUntil ELSE r.accessEnd,
         remainingCapacityKg |-> r.fleet[v].capacityKg - RecoveryStep(a).load[1],
         incrementalSeconds  |-> operationalSeconds(a, v)
                                   - baselineSeconds(r, b, v)]

-----------------------------------------------------------------------------

Return(outcome) == result' = outcome /\ pc' = "done"

(* The request is refused, or no vehicle is eligible, or the whole problem *)
(* is sent and its timer started.                                          *)
Start ==
    /\ pc = "start"
    /\ \/ ~validateRouteRequest(request) /\ Return(Infeasible("invalid_request"))
       \/ /\ validateRouteRequest(request)
          /\ Eligible(request) = {}
          /\ Return(Infeasible("no_eligible_vehicle"))
       \/ /\ validateRouteRequest(request)
          /\ Eligible(request) # {}
          /\ pc' = "full"
          /\ UNCHANGED result
    /\ UNCHANGED <<request, aborted, full, baseline>>

(* The solver answers the whole problem. The timer is cleared, and the     *)
(* next problem gets one of its own.                                       *)
FullSolved ==
    /\ pc = "full" /\ ~aborted
    /\ full' \in Answers
    /\ \/ \E outcome \in fullEnds(request, full') : Return(outcome)
       \/ fullEnds(request, full') = {} /\ pc' = "baseline" /\ UNCHANGED result
    /\ UNCHANGED <<request, aborted, baseline>>

BaselineSolved ==
    /\ pc = "baseline" /\ ~aborted
    /\ baseline' \in Answers
    /\ \/ \E outcome \in baselineEnds(request, full, baseline') : Return(outcome)
       \/ /\ baselineEnds(request, full, baseline') = {}
          /\ Return(Feasible(quoteOf(request, full, baseline')))
    /\ UNCHANGED <<request, aborted, full>>

Solving == pc \in {"full", "baseline"}

(* Mutant: the second solve has no timer.                                  *)
TimerFires_OnFirst ==
    /\ pc = "full" /\ ~aborted
    /\ aborted' = TRUE
    /\ UNCHANGED <<request, pc, full, baseline, result>>

(* The timer of the solve aborts its fetch.                                *)
TimerFires ==
    /\ Solving /\ ~aborted
    /\ aborted' = TRUE
    /\ UNCHANGED <<request, pc, full, baseline, result>>

(* The fetch rejects, because it was aborted or by itself.                 *)
TransportFails ==
    /\ Solving
    /\ Return(Unavailable(IF aborted THEN "solver_timeout"
                                     ELSE "solver_unavailable", TRUE))
    /\ UNCHANGED <<request, aborted, full, baseline>>

Next ==
    \/ Start
    \/ FullSolved
    \/ BaselineSolved
    \/ TimerFires
    \/ TransportFails

Spec == Init /\ [][Next]_vars

(* Timers fire, and an aborted fetch rejects. Of the solver nothing is     *)
(* assumed.                                                                *)
FairSpec == /\ Spec
            /\ WF_vars(Start)
            /\ WF_vars(TimerFires)
            /\ WF_vars(aborted /\ TransportFails)

-----------------------------------------------------------------------------

(* A solution does the work the host is committed to: every job of every   *)
(* eligible vehicle in one place, by its own vehicle and in full.          *)
KeepsCommittedWork(a) ==
    \A v \in Eligible(request) : \A w \in request.committed[v] :
      /\ w \notin a.unassigned
      /\ Once(Places(a, w))
      /\ \A p \in Places(a, w) :
           /\ VehicleAt(a, p) = v
           /\ StepAt(a, p).service = request.workSeconds[w]

(* Whatever the solver answers, a quote is one the host can stand by. Its  *)
(* vehicle is the tenant's, available and able; the whole service lies     *)
(* within confirmed access and has the length that was asked for; the      *)
(* quote outlives neither access nor its own term; the load fits; and both *)
(* solutions the increment compares keep all committed work.               *)
QuoteSound ==
    (result # None /\ result.status = "feasible") =>
      LET q == result.quote
          v == request.fleet[q.vehicle]
      IN  /\ q.tenant = request.tenant /\ v.tenant = request.tenant
          /\ v.available /\ request.streamCapability \in v.capabilities
          /\ request.requestedAt < v.shiftEnd
          /\ q.serviceStart >= request.accessStart
          /\ q.serviceEnd <= request.accessEnd
          /\ q.serviceEnd = q.serviceStart + request.serviceSeconds
          /\ q.validUntil <= request.quoteValidUntil
          /\ q.validUntil <= request.accessEnd
          /\ q.remainingCapacityKg \in 0..v.capacityKg
          /\ q.incrementalSeconds >= 0
          /\ KeepsCommittedWork(full) /\ KeepsCommittedWork(baseline)

(* The solver says itself that committed work is left over, in an answer   *)
(* about the vehicles and jobs it was given.                               *)
LeavesWorkOver(a, jobs) ==
    /\ a # None /\ Usable(a) /\ SpeaksOf(request, a, jobs)
    /\ a.unassigned \cap CommittedJobs(request) # {}

(* All committed work is kept, and only the recovery is left over or comes *)
(* outside access.                                                         *)
OnlyRecoveryFails(a) ==
    /\ a # None /\ Usable(a)
    /\ SpeaksOf(request, a, CommittedJobs(request) \cup {Recovery})
    /\ KeepsCommittedWork(a)
    /\ \/ Recovery \in a.unassigned
       \/ /\ Once(RecoveryPlaces(a))
          /\ ServesAndFits(request, a)
          /\ ~InsideAccess(request, a)

(* Pal escalates an infeasible recovery and may try an unavailable one     *)
(* again (tests/adapters/routing.test.ts tells the two apart). A quote is  *)
(* infeasible only where the request is to blame, or where the solver has  *)
(* answered what it was asked and said itself that work is left over or    *)
(* comes too late: the recovery only by an answer right in all the rest.   *)
(* It is retryable where a solve has had no answer, and only there.        *)
FaultsAreNotInfeasible ==
    result # None =>
      /\ result.status = "infeasible" =>
           \/ ~validateRouteRequest(request) \/ Eligible(request) = {}
           \/ LeavesWorkOver(full, CommittedJobs(request) \cup {Recovery})
           \/ LeavesWorkOver(baseline, CommittedJobs(request))
           \/ OnlyRecoveryFails(full)
      /\ result.retryable <=>
           /\ validateRouteRequest(request) /\ Eligible(request) # {}
           /\ \/ full = None
              \/ fullEnds(request, full) = {} /\ baseline = None

(* However silent the solver, quoteRecovery returns: each of its two waits *)
(* is bounded by a timer.                                                  *)
QuoteEnds == <>(result # None)
=============================================================================
