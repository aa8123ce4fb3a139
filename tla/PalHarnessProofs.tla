-------------------------- MODULE PalHarnessProofs --------------------------
(***************************************************************************)
(* Theorems about a run of PalHarness with its skill host, for any budget, *)
(* any reasoner, and sources and a planner that give any items.            *)
(***************************************************************************)
EXTENDS PalContext, ContextAssemblyProofs

SourceSkills == Skills \ {"quote_recovery_options", "submit_typed_proposal"}
Prefix(n) == {Workflow[i] : i \in 1..n}

(* Who is where: no call is made outside the skill phase, and a result is  *)
(* there when the run is done.                                             *)
PhaseFits ==
    /\ result # None <=> phase = "done"
    /\ phase \in {"loop", "reasoner"} => call = Idle
    /\ phase = "skill" => call.pc # "idle"
    /\ call.pc # "idle" => call.skill \in Skills
    /\ call.outcome # "prepare_recovery"

(* A call was in turn when it was made, and stays so while it waits.       *)
CallFits ==
    /\ call.pc = "source" => call.skill \in SourceSkills
    /\ call.pc = "planner" => call.skill = "quote_recovery_options"
    /\ call.pc \in {"source", "planner"} =>
         call.skill \notin completed /\ Requires(call.skill) \subseteq completed
    /\ call.pc \in {"receipt", "returned"} => call.skill \in completed
    /\ \A s \in completed : Requires(s) \subseteq completed

(* What the quote looks for among the evidence.                            *)
Sighted(e) ==
    /\ e["agreement"] # None
    /\ \E p \in FieldReports : e[p] # None /\ e[p].status = "unable_to_complete"
    /\ \E p \in AccessReports : e[p] # None /\ e[p].status = "confirmed_clear"

(* What the completed skills tell of the evidence. Access items are loaded *)
(* by one answer or none, which is why they have all been compared.        *)
EvidenceFits ==
    /\ "inspect_service_exception" \in completed =>
         evidence["case"] # None /\ evidence["policy"] # None
    /\ /\ "get_access_evidence" \notin completed
       /\ phase \in {"loop", "reasoner"}
            \/ call.pc \in {"source", "planner", "receipt", "returned"}
       => evidence["customer_access"] = None /\ evidence["field_access"] = None
    /\ /\ "get_access_evidence" \in completed
       /\ {"customer_access", "field_access"} \subseteq Loaded(evidence)
       /\ Disagree(evidence["customer_access"], evidence["field_access"])
       => conflicts # {}
    /\ call.pc = "planner" \/ "quote_recovery_options" \in completed =>
         conflicts = {} /\ Sighted(evidence)
    /\ quoted => evidence["quote"] # None /\ "quote_recovery_options" \in completed

(* A proposal rests on all the evidence, in time.                          *)
Rests(p) ==
    /\ p.cites = Loaded(evidence)
    /\ {"case", "policy", "agreement", "quote"} \subseteq p.cites
    /\ \A q \in p.cites : evidence[q].fresh /\ p.until <= evidence[q].until

ProposalFits ==
    /\ proposal # None => "submit_typed_proposal" \in completed /\ Rests(proposal)
    /\ result # None /\ result.outcome = "prepare_recovery" =>
          /\ proposal # None
          /\ result.proposal = proposal
          /\ result.included = proposal.cites
          /\ Len(result.trace) = 6
          /\ \A i \in DOMAIN result.trace : result.trace[i].ok
    /\ handedOver # None =>
          /\ result # None
          /\ result.outcome = "prepare_recovery"
          /\ handedOver = result.proposal

(* While the run goes on, its trace is a beginning of the workflow and the *)
(* completed skills are those of the trace, with the call under way or not. *)
TraceFits ==
    phase # "done" =>
        /\ Len(invocations) \in 0..6
        /\ \A i \in DOMAIN invocations :
              invocations[i].ok /\ invocations[i].skill = Workflow[i]
        /\ phase \in {"loop", "reasoner"} \/ call.pc \in {"source", "planner"} =>
              completed = Prefix(Len(invocations))
        /\ call.pc \in {"receipt", "returned"} =>
              /\ Len(invocations) < 6
              /\ call.skill = Workflow[Len(invocations) + 1]
              /\ completed = Prefix(Len(invocations) + 1)
        /\ call.pc = "threw" => completed \subseteq Prefix(Len(invocations)) \cup {call.skill}

BudgetFits ==
    phase # "done" =>
        /\ exchanged <= cost /\ cost <= MaxCost
        /\ steps = Len(invocations) + (IF phase = "loop" THEN 0 ELSE 1)
        /\ Len(invocations) + (IF phase = "skill" THEN 1 ELSE 0) <= MaxSkillCalls

Fits == PhaseFits /\ CallFits /\ EvidenceFits /\ ProposalFits /\ TraceFits /\ BudgetFits

-----------------------------------------------------------------------------
(* Lemmas about the operators of the model.                                *)

LEMMA OneMoreIsFinite == \A S, x : IsFiniteSet(S) => IsFiniteSet(S \cup {x})
  BY FS_AddElement

LEMMA PartsAreFinite ==
    ASSUME NEW S \in SUBSET (Parts \cup {"history"})
    PROVE  IsFiniteSet(S) /\ Cardinality(S) \in Nat
<1>1. IsFiniteSet({"case", "policy", "agreement", "customer_access",
                    "field_access", "attempt", "quote", "history"})
  <2>1. IsFiniteSet({"case"})
    BY FS_Singleton
  <2>2. IsFiniteSet({"case"} \cup {"policy"} \cup {"agreement"} \cup {"customer_access"}
                     \cup {"field_access"} \cup {"attempt"} \cup {"quote"} \cup {"history"})
    BY <2>1, OneMoreIsFinite, Zenon
  <2>3. {"case", "policy", "agreement", "customer_access", "field_access", "attempt",
         "quote", "history"}
        = {"case"} \cup {"policy"} \cup {"agreement"} \cup {"customer_access"}
           \cup {"field_access"} \cup {"attempt"} \cup {"quote"} \cup {"history"}
    OBVIOUS
  <2> QED BY <2>2, <2>3
<1>2. S \subseteq {"case", "policy", "agreement", "customer_access",
                    "field_access", "attempt", "quote", "history"}
  BY DEF Parts
<1>3. IsFiniteSet(S)
  BY <1>1, <1>2, FS_Subset
<1> QED BY <1>3, FS_CardinalityType

LEMMA SkillsAreFinite ==
    ASSUME NEW S \in SUBSET Skills
    PROVE  Cardinality(S) \in Nat
<1>1. IsFiniteSet(Skills)
  <2>1. IsFiniteSet({"inspect_service_exception"})
    BY FS_Singleton
  <2>2. IsFiniteSet({"inspect_service_exception"} \cup {"get_customer_commitments"}
                     \cup {"get_access_evidence"} \cup {"get_field_attempt"}
                     \cup {"quote_recovery_options"} \cup {"submit_typed_proposal"})
    BY <2>1, OneMoreIsFinite, Zenon
  <2>3. Skills = {"inspect_service_exception"} \cup {"get_customer_commitments"}
                  \cup {"get_access_evidence"} \cup {"get_field_attempt"}
                  \cup {"quote_recovery_options"} \cup {"submit_typed_proposal"}
    BY DEF Skills
  <2> QED BY <2>2, <2>3
<1>2. IsFiniteSet(S)
  BY <1>1, FS_Subset
<1> QED BY <1>2, FS_CardinalityType

LEMMA TokensAreNat ==
    ASSUME TypeOK
    PROVE  ContextTokens \in Nat
<1>1. Cardinality(completed) \in Nat
  BY SkillsAreFinite DEF TypeOK, SkillsTypeOK
<1>2. Cardinality(Loaded(evidence)) \in Nat
  BY PartsAreFinite DEF Loaded
<1>3. Cardinality(known \ Loaded(evidence)) \in Nat
  BY PartsAreFinite DEF TypeOK, SkillsTypeOK
<1> QED BY <1>1, <1>2, <1>3 DEF ContextTokens

(* What is metered is at least what was exchanged.                         *)
LEMMA MeteredFloor ==
    ASSUME TypeOK, NEW a \in Answer
    PROVE  /\ Spent(a) \in Nat
           /\ cost + ContextTokens + 1 <= Spent(a)
<1>1. a.report.input \in Nat /\ a.report.output \in Nat
  BY BudgetAssumption DEF Answer
<1>2. /\ Larger(a.report.input, ContextTokens) \in Nat
      /\ Larger(a.report.output, 1) \in Nat
      /\ Larger(a.report.input, ContextTokens) >= ContextTokens
      /\ Larger(a.report.output, 1) >= 1
  BY <1>1, TokensAreNat DEF Larger
<1>3. cost \in Nat
  BY DEF TypeOK
<1> QED BY <1>2, <1>3, TokensAreNat DEF Spent, Metered

(* A result that is finished is a result of the run's own state.           *)
LEMMA FinishTyped ==
    ASSUME TypeOK, NEW outcome \in Outcomes, NEW reason \in Reasons,
           NEW trace \in Seq(Invocation), Finish(outcome, reason, trace)
    PROVE  /\ phase' \in {"loop", "reasoner", "skill", "done"}
           /\ invocations' \in Seq(Invocation)
           /\ result' \in Result
           /\ handedOver' \in Proposal \cup {None}
<1>1. proposal \in Proposal \cup {None} /\ Loaded(evidence) \in SUBSET Parts
  BY DEF TypeOK, SkillsTypeOK, Loaded
<1>2. [outcome |-> outcome, reason |-> reason, trace |-> trace,
       proposal |-> proposal, included |-> Loaded(evidence)] \in Result
  BY <1>1 DEF Result
<1> QED BY <1>2 DEF Finish, TypeOK

LEMMA RefusalsAreReasons ==
    /\ HeadRefusal \in Reasons \cup {"none"}
    /\ \A a : AnswerRefusal(a) \in Reasons \cup {"none"}
    /\ \A skill : CallRefusal(skill) \in Reasons \cup {"none"}
  BY DEF HeadRefusal, AnswerRefusal, CallRefusal, Reasons

(* A source's answer that is taken, with the items it holds.               *)
Answered(items) ==
    /\ \/ /\ call.skill = "inspect_service_exception"
          /\ DOMAIN items = {"case"}
          /\ evidence' = [WithItems(items) EXCEPT !["policy"] = PolicyItem]
          /\ \E listed \in Listings : known' = listed \ Loaded(evidence')
          /\ residual' \in BOOLEAN
          /\ conflicts' = conflicts
       \/ /\ call.skill # "inspect_service_exception"
          /\ evidence' = WithItems(items)
          /\ known' = known \ DOMAIN items
          /\ conflicts' = conflicts \cup ConflictsIn(items)
          /\ residual' = residual
    /\ completed' = completed \cup {call.skill}
    /\ Await(call.skill, "receipt")
    /\ UNCHANGED <<now, quoted, proposal>>

LEMMA SourceAnswersWith ==
    ASSUME SourceAnswers
    PROVE  \E parts \in SUBSET Loads(call.skill) : \E items \in Answers(parts) : Answered(items)
<1>1. \A parts : \A items \in Answers(parts) : DOMAIN items = parts
  BY DEF Answers
<1>2. Loads("inspect_service_exception") = {"case"}
  BY DEF Loads
<1> QED BY <1>1, <1>2 DEF SourceAnswers, Answered

LEMMA ItemsStayItems ==
    ASSUME SkillsTypeOK, NEW parts \in SUBSET Loads(call.skill), NEW items \in Answers(parts)
    PROVE  /\ parts \subseteq Parts \ {"policy"}
           /\ DOMAIN items = parts
           /\ \A p \in parts : items[p] \in Item
           /\ WithItems(items) \in [Parts -> Item \cup {None}]
<1>1. parts \subseteq Parts \ {"policy"}
  BY DEF Loads, Parts
<1>2. DOMAIN items = parts /\ \A p \in parts : items[p] \in SourceItems[p]
  BY DEF Answers
<1>3. \A p \in parts : SourceItems[p] \subseteq Item
  BY <1>1, SourceAssumption
<1>4. \A p \in parts : items[p] \in Item
  BY <1>2, <1>3
<1>5. WithItems(items) \in [Parts -> Item \cup {None}]
  BY <1>2, <1>4 DEF WithItems, SkillsTypeOK
<1> QED BY <1>1, <1>2, <1>4, <1>5

LEMMA PolicyIsItem == PolicyItem \in Item
  BY ClockAssumption DEF PolicyItem, Item, Statuses

LEMMA ExecuteTyped ==
    ASSUME SkillsTypeOK, NEW skill \in Skills, execute(skill)
    PROVE  SkillsTypeOK'
<1>1. CASE RefuseTurn(skill)
  BY <1>1 DEF RefuseTurn, Throw, execute, SkillsTypeOK, skillState, CallPCs, Outcomes
<1>2. CASE AskConfirmation(skill)
  BY <1>2 DEF AskConfirmation, Throw, execute, SkillsTypeOK, skillState, CallPCs, Outcomes
<1>3. CASE AskSource(skill)
  BY <1>3 DEF AskSource, Await, execute, SkillsTypeOK, skillState, CallPCs, Outcomes
<1>4. CASE AskPlanner(skill)
  BY <1>4 DEF AskPlanner, Await, execute, SkillsTypeOK, skillState, CallPCs, Outcomes
<1>5. CASE RefuseProposal(skill)
  BY <1>5 DEF RefuseProposal, Throw, execute, SkillsTypeOK, skillState, CallPCs, Outcomes
<1>6. CASE AcceptProposal(skill)
  <2>1. PICK payload \in Payloads :
          proposal' = [cites |-> payload.cites, until |-> payload.until]
    BY <1>6 DEF AcceptProposal
  <2>2. proposal' \in Proposal
    BY <2>1, SourceAssumption DEF Payload, Proposal
  <2> QED BY <1>6, <2>2 DEF AcceptProposal, Await, execute, SkillsTypeOK, CallPCs, Outcomes
<1> QED BY <1>1, <1>2, <1>3, <1>4, <1>5, <1>6 DEF execute

LEMMA SkillStepTyped ==
    ASSUME SkillsTypeOK, PhaseFits, SkillStep
    PROVE  SkillsTypeOK'
<1>1. CASE SourceAnswers
  <2> USE <1>1
  <2> PICK parts \in SUBSET Loads(call.skill) : \E items \in Answers(parts) : Answered(items)
    BY SourceAnswersWith
  <2>1. PICK items \in Answers(parts) : Answered(items)
    OBVIOUS
  <2>2. evidence' \in [Parts -> Item \cup {None}]
    BY <2>1, ItemsStayItems, PolicyIsItem DEF Answered
  <2>3. known' \subseteq Parts \cup {"history"}
    BY <2>1, SourceAssumption DEF Answered, SkillsTypeOK
  <2>4. conflicts' \subseteq {{"customer_access", "field_access"}} /\ residual' \in BOOLEAN
    BY <2>1 DEF Answered, SkillsTypeOK, ConflictsIn
  <2>5. call.skill \in Skills
    BY DEF PhaseFits, SourceAnswers
  <2> QED BY <2>1, <2>2, <2>3, <2>4, <2>5 DEF Answered, SkillsTypeOK, Await, CallPCs, Outcomes
<1>2. CASE SourceFails
  <2> PICK parts \in SUBSET Loads(call.skill) : \E items \in Answers(parts) :
          evidence' = WithItems(items) /\ known' = known \ parts
    BY <1>2 DEF SourceFails
  <2>1. PICK items \in Answers(parts) :
          evidence' = WithItems(items) /\ known' = known \ parts
    OBVIOUS
  <2>2. evidence' \in [Parts -> Item \cup {None}]
    BY <2>1, ItemsStayItems
  <2> QED BY <1>2, <2>1, <2>2 DEF SourceFails, SkillsTypeOK, CallPCs
<1>3. CASE PlannerQuotes
  <2>1. PICK item \in SourceItems["quote"] : evidence' = [evidence EXCEPT !["quote"] = item]
    BY <1>3 DEF PlannerQuotes
  <2>2. item \in Item
    BY SourceAssumption DEF Parts
  <2>3. evidence' \in [Parts -> Item \cup {None}]
    BY <2>1, <2>2 DEF SkillsTypeOK
  <2>4. call.skill \in Skills /\ "quote" \in Parts
    BY <1>3 DEF PhaseFits, PlannerQuotes, Parts
  <2> QED BY <1>3, <2>3, <2>4 DEF PlannerQuotes, SkillsTypeOK, Await, CallPCs, Outcomes
<1>4. CASE PlannerDeclines
  <2>1. call.skill \in Skills
    BY <1>4 DEF PhaseFits, PlannerDeclines
  <2> QED BY <1>4, <2>1 DEF PlannerDeclines, SkillsTypeOK, Await, CallPCs, Outcomes
<1>5. CASE PlannerFails
  BY <1>5 DEF PlannerFails, SkillsTypeOK, skillState, CallPCs
<1>6. CASE ReceiptAnswers
  BY <1>6 DEF ReceiptAnswers, SkillsTypeOK, skillState, CallPCs
<1>7. CASE ReceiptFails
  BY <1>7 DEF ReceiptFails, SkillsTypeOK, skillState, CallPCs
<1>8. CASE Tick
  BY <1>8, ClockAssumption DEF Tick, SkillsTypeOK, skillState
<1> QED BY <1>1, <1>2, <1>3, <1>4, <1>5, <1>6, <1>7, <1>8 DEF SkillStep

(* The harness's own steps: nothing but its own state changes in those     *)
(* that do not call or hear from the skill host.                           *)
Stops(a) == Meter(a) /\ (AnswerRefused(a) \/ ReasonerStops(a) \/ CallRefused(a))
Calls(a) == Meter(a) /\ CallSkill(a)

(* How a run ends without a word from the skill host.                      *)
Ends ==
    \E outcome \in {"escalate", "hold_for_confirmation"}, reason \in Reasons :
       /\ Finish(outcome, reason, invocations)
       /\ UNCHANGED skillVars

LEMMA EndingSteps ==
    /\ StopAtHead => phase = "loop" /\ Ends /\ UNCHANGED <<steps, cost, exchanged>>
    /\ ReasonerFails => phase = "reasoner" /\ Ends /\ UNCHANGED <<steps, cost, exchanged>>
    /\ ReasonerTimesOut => phase = "reasoner" /\ Ends /\ UNCHANGED <<steps, cost, exchanged>>
    /\ SkillTimesOut => phase = "skill" /\ Ends /\ UNCHANGED <<steps, cost, exchanged>>
    /\ \A a \in Answer : Stops(a) => Ends
<1>1. StopAtHead => phase = "loop" /\ Ends /\ UNCHANGED <<steps, cost, exchanged>>
  BY RefusalsAreReasons DEF StopAtHead, Ends
<1>2. ReasonerFails => phase = "reasoner" /\ Ends /\ UNCHANGED <<steps, cost, exchanged>>
  BY DEF ReasonerFails, Ends, Reasons
<1>3. ReasonerTimesOut => phase = "reasoner" /\ Ends /\ UNCHANGED <<steps, cost, exchanged>>
  BY DEF ReasonerTimesOut, Ends, Reasons
<1>4. SkillTimesOut => phase = "skill" /\ Ends /\ UNCHANGED <<steps, cost, exchanged>>
  BY DEF SkillTimesOut, Ends, Reasons
<1>5. ASSUME NEW a \in Answer, Stops(a)
      PROVE  Ends
  <2>1. CASE AnswerRefused(a)
    BY <2>1, RefusalsAreReasons DEF AnswerRefused, Ends
  <2>2. CASE ReasonerStops(a)
    BY <2>2 DEF ReasonerStops, Ends, Reasons
  <2>3. CASE CallRefused(a)
    BY <2>3, RefusalsAreReasons DEF CallRefused, Ends
  <2> QED BY <1>5, <2>1, <2>2, <2>3 DEF Stops
<1> QED BY <1>1, <1>2, <1>3, <1>4, <1>5

(* The steps of a run, for the proofs below: it ends, asks, calls, hears   *)
(* of the call, hands over, or only the skill host moves.                  *)
EndsHere ==
    /\ phase # "done"
    /\ Ends
    /\ \/ UNCHANGED <<steps, cost, exchanged>>
       \/ \E a \in Answer : Meter(a)

LEMMA StepKinds ==
    ASSUME [Next]_vars
    PROVE  \/ AskReasoner
           \/ EndsHere
           \/ phase = "reasoner" /\ \E a \in Answer : Calls(a)
           \/ SkillReturns
           \/ SkillThrows
           \/ PreparesDecisionInputs
           \/ SkillStep /\ UNCHANGED harnessVars
           \/ UNCHANGED vars
<1>1. CASE ReasonerAnswers
  <2>1. phase = "reasoner"
    BY <1>1 DEF ReasonerAnswers
  <2>2. PICK a \in Answer : Stops(a) \/ Calls(a)
    BY <1>1 DEF ReasonerAnswers, Stops, Calls
  <2>3. CASE Stops(a)
    BY <2>1, <2>3, EndingSteps DEF EndsHere, Stops
  <2> QED BY <2>1, <2>2, <2>3
<1>2. CASE StopAtHead \/ ReasonerFails \/ ReasonerTimesOut \/ SkillTimesOut
  BY <1>2, EndingSteps DEF EndsHere
<1> QED BY <1>1, <1>2 DEF Next

-----------------------------------------------------------------------------
(* Type correctness.                                                       *)

LEMMA TypeKept ==
    ASSUME TypeOK, PhaseFits, BudgetFits, [Next]_vars
    PROVE  TypeOK'
<1> USE DEF TypeOK
<1>1. CASE AskReasoner
  <2>1. steps + 1 \in 0..MaxReasoningSteps
    BY <1>1, BudgetAssumption DEF AskReasoner, HeadRefusal, MaxReasoningSteps
  <2> QED BY <1>1, <2>1 DEF AskReasoner, SkillsTypeOK, skillVars, skillState
<1>2. CASE EndsHere
  <2>1. PICK outcome \in {"escalate", "hold_for_confirmation"} : \E reason \in Reasons :
          Finish(outcome, reason, invocations) /\ UNCHANGED skillVars
    BY <1>2 DEF EndsHere, Ends
  <2>2. PICK reason \in Reasons : Finish(outcome, reason, invocations) /\ UNCHANGED skillVars
    BY <2>1
  <2>3. /\ phase' \in {"loop", "reasoner", "skill", "done"}
        /\ invocations' \in Seq(Invocation)
        /\ result' \in Result \cup {None}
        /\ handedOver' \in Proposal \cup {None}
    BY <2>2, FinishTyped DEF Outcomes
  <2>4. steps' = steps /\ cost' \in Nat /\ exchanged' \in Nat
    BY <1>2, MeteredFloor, TokensAreNat DEF EndsHere, Meter
  <2> QED BY <2>2, <2>3, <2>4 DEF SkillsTypeOK, skillVars, skillState
<1>3. CASE phase = "reasoner" /\ \E a \in Answer : Calls(a)
  <2>1. PICK a \in Answer : Calls(a)
    BY <1>3
  <2>2. steps' = steps /\ cost' \in Nat /\ exchanged' \in Nat
    BY <2>1, MeteredFloor, TokensAreNat DEF Calls, Meter
  <2>3. SkillsTypeOK'
    BY <2>1, ExecuteTyped DEF Calls, CallSkill
  <2> QED BY <2>1, <2>2, <2>3 DEF Calls, CallSkill
<1>4. CASE SkillReturns
  <2> DEFINE trace == Append(invocations, [skill |-> call.skill, ok |-> call.ok])
  <2>1. call.skill \in Skills /\ call.ok \in BOOLEAN
    BY <1>4 DEF PhaseFits, SkillReturns, SkillsTypeOK
  <2>2. [skill |-> call.skill, ok |-> call.ok] \in Invocation
    BY <2>1 DEF Invocation
  <2>3. trace \in Seq(Invocation)
    BY <2>2
  <2> HIDE DEF trace
  <2>4. \/ \E outcome \in Outcomes, reason \in Reasons : Finish(outcome, reason, trace)
        \/ phase' = "loop" /\ invocations' = trace /\ UNCHANGED <<result, handedOver>>
    BY <1>4 DEF SkillReturns, Outcomes, Reasons, trace
  <2>5. /\ phase' \in {"loop", "reasoner", "skill", "done"}
        /\ invocations' \in Seq(Invocation)
        /\ result' \in Result \cup {None}
        /\ handedOver' \in Proposal \cup {None}
    BY <2>3, <2>4, FinishTyped
  <2>6. Idle \in [pc : CallPCs, skill : Skills \cup {None}, ok : BOOLEAN, outcome : Outcomes]
    BY DEF Idle, CallPCs, Outcomes
  <2> QED BY <1>4, <2>5, <2>6 DEF SkillReturns, SkillsTypeOK, skillState
<1>5. CASE SkillThrows
  <2> DEFINE trace == Append(invocations, [skill |-> call.skill, ok |-> FALSE])
  <2>1. call.skill \in Skills /\ call.outcome \in Outcomes
    BY <1>5 DEF PhaseFits, SkillThrows, SkillsTypeOK
  <2>2. [skill |-> call.skill, ok |-> FALSE] \in Invocation
    BY <2>1 DEF Invocation
  <2>3. trace \in Seq(Invocation)
    BY <2>2
  <2>4. "SKILL_POLICY" \in Reasons
    BY DEF Reasons
  <2> HIDE DEF trace
  <2>5. Finish(call.outcome, "SKILL_POLICY", trace)
    BY <1>5 DEF SkillThrows, trace
  <2>6. /\ phase' \in {"loop", "reasoner", "skill", "done"}
        /\ invocations' \in Seq(Invocation)
        /\ result' \in Result \cup {None}
        /\ handedOver' \in Proposal \cup {None}
    BY <2>1, <2>3, <2>4, <2>5, FinishTyped
  <2>7. Idle \in [pc : CallPCs, skill : Skills \cup {None}, ok : BOOLEAN, outcome : Outcomes]
    BY DEF Idle, CallPCs, Outcomes
  <2> QED BY <1>5, <2>6, <2>7 DEF SkillThrows, SkillsTypeOK, skillState
<1>6. CASE PreparesDecisionInputs
  <2>1. result \in Result /\ result.proposal # None
    BY <1>6 DEF PreparesDecisionInputs
  <2>2. result.proposal \in Proposal
    BY <2>1 DEF Result
  <2> QED BY <1>6, <2>2 DEF PreparesDecisionInputs, SkillsTypeOK, skillVars, skillState
<1>7. CASE SkillStep /\ UNCHANGED harnessVars
  BY <1>7, SkillStepTyped DEF harnessVars
<1>8. CASE UNCHANGED vars
  BY <1>8 DEF vars, harnessVars, skillVars, skillState, SkillsTypeOK
<1> QED BY <1>1, <1>2, <1>3, <1>4, <1>5, <1>6, <1>7, <1>8, StepKinds

-----------------------------------------------------------------------------
(* What a step does to the state of the skill host.                        *)

(* execute up to its first await.                                          *)
LEMMA ExecuteShape ==
    ASSUME NEW skill \in Skills, execute(skill)
    PROVE  /\ UNCHANGED <<evidence, conflicts, quoted>>
           /\ call'.skill = skill
           /\ call'.pc \in {"threw", "source", "planner", "receipt"}
           /\ call'.outcome # "prepare_recovery"
           /\ call'.pc # "receipt" => UNCHANGED <<completed, proposal>>
           /\ call'.pc # "threw" => ~OutOfTurn(skill)
           /\ call'.pc = "source" => skill \in SourceSkills
           /\ call'.pc = "planner" =>
                skill = "quote_recovery_options" /\ conflicts = {} /\ Sighted(evidence)
           /\ call'.pc = "receipt" =>
                /\ skill = "submit_typed_proposal"
                /\ completed' = completed \cup {skill}
                /\ Current /\ quoted
                /\ proposal'.cites = Loaded(evidence)
                /\ IsEarliest(proposal'.until)
<1>1. CASE RefuseTurn(skill)
  BY <1>1 DEF RefuseTurn, Throw, skillState
<1>2. CASE AskConfirmation(skill)
  BY <1>2 DEF AskConfirmation, Throw, skillState
<1>3. CASE AskSource(skill)
  BY <1>3 DEF AskSource, Await, skillState, SourceSkills
<1>4. CASE AskPlanner(skill)
  <2>1. conflicts = {} /\ Sighted(evidence)
    BY <1>4 DEF AskPlanner, NeedsConfirmation, Sighted, Shows, Loaded
  <2> QED BY <1>4, <2>1 DEF AskPlanner, Await, skillState
<1>5. CASE RefuseProposal(skill)
  BY <1>5 DEF RefuseProposal, Throw, skillState
<1>6. CASE AcceptProposal(skill)
  <2>1. PICK payload \in Payloads :
          /\ Acceptable(payload)
          /\ proposal' = [cites |-> payload.cites, until |-> payload.until]
    BY <1>6 DEF AcceptProposal
  <2>2. proposal'.cites = Loaded(evidence) /\ IsEarliest(proposal'.until) /\ quoted
    BY <2>1 DEF Acceptable
  <2>3. Current
    BY <1>6 DEF AcceptProposal, NeedsConfirmation
  <2> QED BY <1>6, <2>2, <2>3 DEF AcceptProposal, Await
<1> QED BY <1>1, <1>2, <1>3, <1>4, <1>5, <1>6 DEF execute

(* A call that only ends, or waits on: the state of the run stays.         *)
Settles ==
    /\ UNCHANGED skillState
    /\ call.pc \in {"planner", "receipt"}
    /\ call' = [call EXCEPT !.pc = call'.pc, !.ok = call'.ok]
    /\ call'.pc \in {"returned", "threw"}
    /\ call'.pc = "returned" => call.pc = "receipt"

LEMMA SkillStepKinds ==
    ASSUME SkillsTypeOK, SkillStep
    PROVE  \/ SourceAnswers
           \/ SourceFails
           \/ PlannerQuotes
           \/ PlannerDeclines
           \/ Settles
           \/ UNCHANGED <<skillState, call>>
<1>1. CASE PlannerFails
  BY <1>1 DEF PlannerFails, Settles, SkillsTypeOK
<1>2. CASE ReceiptAnswers
  BY <1>2 DEF ReceiptAnswers, Settles, SkillsTypeOK
<1>3. CASE ReceiptFails
  BY <1>3 DEF ReceiptFails, Settles, SkillsTypeOK
<1> QED BY <1>1, <1>2, <1>3 DEF SkillStep, Tick

-----------------------------------------------------------------------------
(* Each part of the invariant is kept by every step.                       *)

LEMMA PhaseKept ==
    ASSUME TypeOK, PhaseFits, [Next]_vars
    PROVE  PhaseFits'
<1> USE DEF PhaseFits
<1>1. CASE AskReasoner
  BY <1>1 DEF AskReasoner, skillVars
<1>2. CASE EndsHere
  <2>1. PICK outcome \in {"escalate", "hold_for_confirmation"} : \E reason \in Reasons :
          Finish(outcome, reason, invocations) /\ UNCHANGED skillVars
    BY <1>2 DEF EndsHere, Ends
  <2>2. result' \in Result
    BY <2>1, FinishTyped DEF Outcomes, TypeOK
  <2> QED BY <2>1, <2>2, ResultAssumption DEF Finish, skillVars
<1>3. CASE phase = "reasoner" /\ \E a \in Answer : Calls(a)
  <2>1. PICK a \in Answer : Calls(a)
    BY <1>3
  <2> QED BY <1>3, <2>1, ExecuteShape DEF Calls, CallSkill
<1>4. CASE SkillReturns \/ SkillThrows
  <2>1. call' = Idle /\ \/ phase' = "loop" /\ result' = result
                        \/ phase' = "done" /\ result' # None
    <3>1. call.skill \in Skills /\ call.ok \in BOOLEAN /\ call.outcome \in Outcomes
      BY <1>4 DEF SkillReturns, SkillThrows, TypeOK, SkillsTypeOK
    <3>2. \A ok \in BOOLEAN : Append(invocations, [skill |-> call.skill, ok |-> ok]) \in Seq(Invocation)
      BY <3>1 DEF Invocation, TypeOK
    <3>3. \A outcome \in Outcomes, reason \in Reasons, ok \in BOOLEAN :
            Finish(outcome, reason, Append(invocations, [skill |-> call.skill, ok |-> ok]))
               => phase' = "done" /\ result' # None
      BY <3>2, FinishTyped, ResultAssumption DEF Finish
    <3>4. CASE SkillReturns
      BY <3>1, <3>3, <3>4 DEF SkillReturns, Outcomes, Reasons
    <3>5. CASE SkillThrows
      BY <3>1, <3>3, <3>5 DEF SkillThrows, Reasons
    <3> QED BY <1>4, <3>4, <3>5
  <2>2. phase = "skill" /\ Idle.pc = "idle" /\ Idle.outcome = "escalate"
    BY <1>4 DEF SkillReturns, SkillThrows, Idle
  <2> QED BY <2>1, <2>2
<1>5. CASE PreparesDecisionInputs
  BY <1>5 DEF PreparesDecisionInputs, skillVars
<1>6. CASE SkillStep /\ UNCHANGED harnessVars
  <2> USE <1>6 DEF harnessVars, Idle
  <2>1. CASE SourceAnswers \/ PlannerQuotes \/ PlannerDeclines
    BY <2>1 DEF SourceAnswers, PlannerQuotes, PlannerDeclines, Await
  <2>2. CASE SourceFails
    BY <2>2 DEF SourceFails, TypeOK, SkillsTypeOK
  <2>3. CASE Settles
    <3>1. call'.skill = call.skill /\ call'.outcome = call.outcome /\ call'.pc # "idle"
      BY <2>3 DEF Settles, TypeOK, SkillsTypeOK
    <3> QED BY <2>3, <3>1 DEF Settles
  <2>4. CASE UNCHANGED <<skillState, call>>
    BY <2>4
  <2> QED BY <2>1, <2>2, <2>3, <2>4, SkillStepKinds DEF TypeOK
<1>7. CASE UNCHANGED vars
  BY <1>7 DEF vars, harnessVars, skillVars
<1> QED BY <1>1, <1>2, <1>3, <1>4, <1>5, <1>6, <1>7, StepKinds

LEMMA CallKept ==
    ASSUME TypeOK, PhaseFits, CallFits, [Next]_vars
    PROVE  CallFits'
<1> USE DEF CallFits
<1>1. CASE UNCHANGED <<completed, call>>
  BY <1>1
<1>2. CASE phase = "reasoner" /\ \E a \in Answer : Calls(a)
  <2>1. PICK a \in Answer : Calls(a)
    BY <1>2
  <2>2. a.decision \in Skills /\ execute(a.decision)
    BY <2>1 DEF Calls, CallSkill
  <2>3. call'.pc # "threw" =>
          a.decision \notin completed /\ Requires(a.decision) \subseteq completed
    BY <2>2, ExecuteShape DEF OutOfTurn
  <2> QED BY <2>2, <2>3, ExecuteShape
<1>3. CASE call' = Idle /\ UNCHANGED completed
  BY <1>3 DEF Idle
<1>4. CASE SkillStep /\ UNCHANGED harnessVars
  <2>1. CASE SourceAnswers \/ PlannerQuotes \/ PlannerDeclines
    BY <2>1 DEF SourceAnswers, PlannerQuotes, PlannerDeclines, Await
  <2>2. CASE SourceFails
    BY <2>2 DEF SourceFails, TypeOK, SkillsTypeOK
  <2>3. CASE Settles
    BY <2>3 DEF Settles, TypeOK, SkillsTypeOK, skillState
  <2>4. CASE UNCHANGED <<skillState, call>>
    BY <1>1, <2>4 DEF skillState
  <2> QED BY <1>4, <2>1, <2>2, <2>3, <2>4, SkillStepKinds DEF TypeOK
<1>5. (AskReasoner \/ EndsHere \/ PreparesDecisionInputs) => UNCHANGED <<completed, call>>
  BY DEF AskReasoner, EndsHere, Ends, PreparesDecisionInputs, skillVars, skillState
<1>6. (SkillReturns \/ SkillThrows) => call' = Idle /\ UNCHANGED completed
  BY DEF SkillReturns, SkillThrows, skillState
<1>7. UNCHANGED vars => UNCHANGED <<completed, call>>
  BY DEF vars, skillVars, skillState
<1> QED BY <1>1, <1>2, <1>3, <1>4, <1>5, <1>6, <1>7, StepKinds

(* The skills before one that is completed, or asked for in its turn.      *)
LEMMA SourcesBeforeQuote ==
    ASSUME CallFits,
           \/ call.pc = "planner"
           \/ "quote_recovery_options" \in completed
           \/ "submit_typed_proposal" \in completed
           \/ Requires("submit_typed_proposal") \subseteq completed
    PROVE  SourceSkills \subseteq completed
<1>1. \A s \in completed : Requires(s) \subseteq completed
  BY DEF CallFits
<1>2. "get_field_attempt" \in completed
  BY <1>1 DEF CallFits, Requires
<1> QED BY <1>1, <1>2 DEF Requires, SourceSkills, Skills

(* What taking an answer, or part of one, does to the evidence.            *)
LEMMA LoadedOnly ==
    ASSUME SkillsTypeOK, NEW parts \in SUBSET Loads(call.skill), NEW items \in Answers(parts)
    PROVE  /\ \A p \in Parts : evidence[p] # None => WithItems(items)[p] # None
           /\ \A p \in Parts \ Loads(call.skill) : WithItems(items)[p] = evidence[p]
           /\ \A p \in parts : WithItems(items)[p] = items[p] /\ items[p] # None
           /\ \A p \in Parts \ parts : WithItems(items)[p] = evidence[p]
<1>1. DOMAIN items = parts /\ parts \subseteq Parts /\ \A p \in parts : items[p] # None
  BY ItemsStayItems, SourceAssumption
<1>2. \A p \in Parts : WithItems(items)[p] = IF p \in parts THEN items[p] ELSE evidence[p]
  BY <1>1 DEF WithItems
<1> QED BY <1>1, <1>2

LEMMA LoadsApart ==
    /\ \A s \in Skills \ {"get_access_evidence"} :
         "customer_access" \notin Loads(s) /\ "field_access" \notin Loads(s)
    /\ \A s : "policy" \notin Loads(s) /\ "quote" \notin Loads(s) /\ Loads(s) \subseteq Parts
    /\ Loads("inspect_service_exception") = {"case"}
    /\ {"case", "policy", "quote", "customer_access", "field_access"} \subseteq Parts
  BY DEF Loads, Parts, Skills

LEMMA EvidenceKept ==
    ASSUME TypeOK, PhaseFits, CallFits, EvidenceFits, [Next]_vars
    PROVE  EvidenceFits'
<1> DEFINE access == {"customer_access", "field_access"}
<1>0. SkillsTypeOK
  BY DEF TypeOK
<1>1. CASE /\ UNCHANGED <<evidence, completed, conflicts, quoted>>
           /\ phase' \in {"loop", "reasoner"} => phase \in {"loop", "reasoner"} \/ call.pc = "returned"
           /\ call'.pc = call.pc \/ call'.pc \in {"idle", "returned", "threw"}
           /\ call'.pc = "returned" => call.pc \in {"receipt", "returned"}
  BY <1>1 DEF EvidenceFits, Sighted, Loaded, Disagree
<1>2. CASE phase = "reasoner" /\ \E a \in Answer : Calls(a)
  <2>1. PICK a \in Answer : Calls(a)
    BY <1>2
  <2>2. a.decision \in Skills /\ execute(a.decision) /\ phase' = "skill"
    BY <2>1 DEF Calls, CallSkill
  <2>3. completed' = completed \/ completed' = completed \cup {"submit_typed_proposal"}
    BY <2>2, ExecuteShape
  <2>4. UNCHANGED <<evidence, conflicts, quoted>>
    BY <2>2, ExecuteShape
  <2>5. call'.pc = "planner" => conflicts = {} /\ Sighted(evidence)
    BY <2>2, ExecuteShape
  <2> QED BY <1>2, <2>3, <2>4, <2>5 DEF EvidenceFits, Sighted, Loaded, Disagree
<1>3. CASE SourceAnswers /\ UNCHANGED harnessVars
  <2> PICK parts \in SUBSET Loads(call.skill) : \E items \in Answers(parts) : Answered(items)
    BY <1>3, SourceAnswersWith
  <2>1. PICK items \in Answers(parts) : Answered(items)
    OBVIOUS
  <2>2. /\ call.pc = "source" /\ call.skill \in SourceSkills \ completed
        /\ call'.pc = "receipt" /\ completed' = completed \cup {call.skill}
        /\ quoted' = quoted /\ phase' = phase
    BY <1>3, <2>1 DEF SourceAnswers, CallFits, Answered, Await, harnessVars
  <2>3. DOMAIN items = parts /\ PolicyItem # None
    BY <1>0, ItemsStayItems, PolicyIsItem, SourceAssumption
  <2>4. /\ "quote_recovery_options" \notin completed'
        /\ "submit_typed_proposal" \notin completed'
    BY <2>2, SourcesBeforeQuote DEF SourceSkills
  <2>5. \A p \in Parts : evidence[p] # None => evidence'[p] # None
    <3>1. \A p \in Parts : evidence[p] # None => WithItems(items)[p] # None
      BY <1>0, LoadedOnly
    <3>2. CASE evidence' = [WithItems(items) EXCEPT !["policy"] = PolicyItem]
      <4>1. \A p \in Parts : evidence'[p] = PolicyItem \/ evidence'[p] = WithItems(items)[p]
        BY <3>2 DEF WithItems
      <4> QED BY <2>3, <3>1, <4>1
    <3>3. CASE evidence' = WithItems(items)
      BY <3>1, <3>3
    <3> QED BY <2>1, <3>2, <3>3 DEF Answered
  <2>6. \A p \in Parts \ {"policy"} : evidence'[p] = WithItems(items)[p]
    BY <2>1 DEF Answered, WithItems
  <2>7. "inspect_service_exception" \in completed' => evidence'["case"] # None /\ evidence'["policy"] # None
    <3>1. CASE call.skill = "inspect_service_exception"
      <4>1. parts = {"case"} /\ evidence' = [WithItems(items) EXCEPT !["policy"] = PolicyItem]
        BY <2>1, <2>3, <3>1 DEF Answered
      <4>2. evidence'["case"] # None
        BY <1>0, <2>6, <4>1, LoadedOnly, LoadsApart
      <4>3. evidence'["policy"] = PolicyItem
        BY <4>1, LoadsApart DEF WithItems
      <4> QED BY <2>3, <4>2, <4>3
    <3>2. CASE call.skill # "inspect_service_exception"
      BY <2>2, <2>5, <3>2, LoadsApart DEF EvidenceFits
    <3> QED BY <3>1, <3>2
  <2>8. CASE call.skill = "get_access_evidence"
    <3>1. evidence["customer_access"] = None /\ evidence["field_access"] = None
      BY <2>2, <2>8 DEF EvidenceFits
    <3>2. conflicts' = conflicts \cup ConflictsIn(items)
      BY <2>1, <2>8 DEF Answered
    <3>3. ASSUME access \subseteq Loaded(evidence'),
                 Disagree(evidence'["customer_access"], evidence'["field_access"])
          PROVE  conflicts' # {}
      <4>1. \A p \in access : evidence'[p] # None /\ p \in Parts /\ p # "policy"
        BY <3>3, LoadsApart DEF Loaded
      <4>2. \A p \in access : p \in parts /\ evidence'[p] = items[p]
        BY <1>0, <2>6, <3>1, <4>1, LoadedOnly
      <4>3. ConflictsIn(items) # {}
        BY <2>3, <3>3, <4>2 DEF ConflictsIn
      <4> QED BY <3>2, <4>3
    <3> QED BY <2>2, <2>4, <2>7, <2>8, <3>3 DEF EvidenceFits
  <2>9. CASE call.skill # "get_access_evidence"
    <3>1. \A p \in access : evidence'[p] = evidence[p]
      BY <1>0, <2>2, <2>6, <2>9, LoadedOnly, LoadsApart DEF SourceSkills
    <3>2. conflicts \subseteq conflicts'
      BY <2>1 DEF Answered
    <3>3. access \subseteq Loaded(evidence') => access \subseteq Loaded(evidence)
      BY <3>1 DEF Loaded
    <3> QED BY <2>2, <2>4, <2>7, <2>9, <3>1, <3>2, <3>3 DEF EvidenceFits
  <2> QED BY <2>8, <2>9
<1>4. CASE SourceFails /\ UNCHANGED harnessVars
  <2> PICK parts \in SUBSET Loads(call.skill) : \E items \in Answers(parts) :
          evidence' = WithItems(items)
    BY <1>4 DEF SourceFails
  <2>1. PICK items \in Answers(parts) : evidence' = WithItems(items)
    OBVIOUS
  <2>2. /\ call.pc = "source" /\ call.skill \in SourceSkills \ completed
        /\ call'.pc = "threw" /\ UNCHANGED <<completed, conflicts, quoted, phase>>
    BY <1>0, <1>4, <2>1 DEF SourceFails, CallFits, SkillsTypeOK, harnessVars
  <2>3. "quote_recovery_options" \notin completed
    BY <2>2, SourcesBeforeQuote DEF SourceSkills
  <2>4. \A p \in Parts : evidence[p] # None => evidence'[p] # None
    BY <1>0, <2>1, LoadedOnly
  <2>5. phase \notin {"loop", "reasoner"}
    BY <2>2 DEF PhaseFits, Idle
  <2>6. "get_access_evidence" \in completed => \A p \in access : evidence'[p] = evidence[p]
    BY <1>0, <2>1, <2>2, LoadedOnly, LoadsApart DEF SourceSkills
  <2>7. "get_access_evidence" \in completed /\ access \subseteq Loaded(evidence')
          => access \subseteq Loaded(evidence)
    BY <2>6 DEF Loaded
  <2> QED BY <2>2, <2>3, <2>4, <2>5, <2>6, <2>7, LoadsApart DEF EvidenceFits
<1>5. CASE PlannerQuotes /\ UNCHANGED harnessVars
  <2>1. PICK item \in SourceItems["quote"] : evidence' = [evidence EXCEPT !["quote"] = item]
    BY <1>5 DEF PlannerQuotes
  <2>2. item # None
    BY SourceAssumption DEF Parts
  <2>3. /\ \A p \in Parts \ {"quote"} : evidence'[p] = evidence[p]
        /\ evidence'["quote"] # None
    BY <1>0, <2>1, <2>2, LoadsApart DEF SkillsTypeOK
  <2>4. /\ call.pc = "planner" /\ call'.pc = "receipt" /\ conflicts' = conflicts
        /\ completed' = completed \cup {"quote_recovery_options"} /\ phase' = phase
    BY <1>5 DEF PlannerQuotes, Await, CallFits, harnessVars
  <2>5. Sighted(evidence) /\ conflicts = {}
    BY <2>4 DEF EvidenceFits
  <2>6. Sighted(evidence')
    BY <2>3, <2>5 DEF Sighted, FieldReports, AccessReports, Parts
  <2>7. access \subseteq Loaded(evidence') => access \subseteq Loaded(evidence)
    BY <2>3 DEF Loaded
  <2> QED BY <2>3, <2>4, <2>5, <2>6, <2>7, LoadsApart DEF EvidenceFits
<1>6. CASE PlannerDeclines /\ UNCHANGED harnessVars
  <2>1. /\ call.pc = "planner" /\ call'.pc = "receipt"
        /\ UNCHANGED <<evidence, conflicts, quoted, phase>>
        /\ completed' = completed \cup {"quote_recovery_options"}
    BY <1>6 DEF PlannerDeclines, Await, CallFits, harnessVars
  <2> QED BY <2>1 DEF EvidenceFits, Sighted, Loaded, Disagree
<1>7. CASE Settles /\ UNCHANGED harnessVars
  BY <1>1, <1>7 DEF Settles, skillState, harnessVars
<1>8. CASE UNCHANGED <<skillState, call>> /\ UNCHANGED harnessVars
  BY <1>1, <1>8 DEF skillState, harnessVars
<1>9. CASE AskReasoner \/ PreparesDecisionInputs \/ UNCHANGED vars
  BY <1>1, <1>9 DEF AskReasoner, PreparesDecisionInputs, vars, skillVars, skillState, harnessVars
<1>10. CASE EndsHere
  BY <1>1, <1>10 DEF EndsHere, Ends, Finish, skillVars, skillState
<1>11. CASE SkillReturns \/ SkillThrows
  BY <1>1, <1>11 DEF SkillReturns, SkillThrows, Finish, Idle, skillState
<1> QED BY <1>0, <1>2, <1>3, <1>4, <1>5, <1>6, <1>7, <1>8, <1>9, <1>10, <1>11,
           StepKinds, SkillStepKinds

(* The beginnings of the workflow, and the one skill each leaves in turn.  *)
LEMMA Prefixes ==
    /\ Prefix(0) = {}
    /\ Prefix(1) = {"inspect_service_exception"}
    /\ Prefix(2) = Prefix(1) \cup {"get_customer_commitments"}
    /\ Prefix(3) = Prefix(2) \cup {"get_access_evidence"}
    /\ Prefix(4) = Prefix(3) \cup {"get_field_attempt"}
    /\ Prefix(5) = Prefix(4) \cup {"quote_recovery_options"}
    /\ Prefix(6) = Prefix(5) \cup {"submit_typed_proposal"}
<1>1. Prefix(0) = {}
  BY DEF Prefix
<1>2. ASSUME NEW n \in 0..5
      PROVE  Prefix(n + 1) = Prefix(n) \cup {Workflow[n + 1]}
  <2>1. 1..(n + 1) = (1..n) \cup {n + 1}
    OBVIOUS
  <2> QED BY <2>1 DEF Prefix
<1>3. /\ Workflow[1] = "inspect_service_exception"
      /\ Workflow[2] = "get_customer_commitments"
      /\ Workflow[3] = "get_access_evidence"
      /\ Workflow[4] = "get_field_attempt"
      /\ Workflow[5] = "quote_recovery_options"
      /\ Workflow[6] = "submit_typed_proposal"
  BY DEF Workflow
<1>4. /\ Prefix(0 + 1) = Prefix(0) \cup {Workflow[0 + 1]}
      /\ Prefix(1 + 1) = Prefix(1) \cup {Workflow[1 + 1]}
      /\ Prefix(2 + 1) = Prefix(2) \cup {Workflow[2 + 1]}
      /\ Prefix(3 + 1) = Prefix(3) \cup {Workflow[3 + 1]}
      /\ Prefix(4 + 1) = Prefix(4) \cup {Workflow[4 + 1]}
      /\ Prefix(5 + 1) = Prefix(5) \cup {Workflow[5 + 1]}
  BY <1>2
<1> QED BY <1>1, <1>3, <1>4

LEMMA NextSkill ==
    ASSUME NEW n \in 0..6, completed = Prefix(n), NEW skill \in Skills,
           skill \notin completed, Requires(skill) \subseteq completed
    PROVE  /\ n < 6
           /\ skill = Workflow[n + 1]
           /\ completed \cup {skill} = Prefix(n + 1)
<1> USE Prefixes DEF Skills, Requires, Workflow
<1>1. CASE n = 0
  BY <1>1
<1>2. CASE n = 1
  BY <1>2
<1>3. CASE n = 2
  BY <1>3
<1>4. CASE n = 3
  BY <1>4
<1>5. CASE n = 4
  BY <1>5
<1>6. CASE n = 5
  BY <1>6
<1>7. CASE n = 6
  BY <1>7
<1> QED BY <1>1, <1>2, <1>3, <1>4, <1>5, <1>6, <1>7

LEMMA SubmitIsLast ==
    ASSUME NEW n \in 0..6, "submit_typed_proposal" \in Prefix(n)
    PROVE  n = 6
<1> QED BY Prefixes

(* A call that has been answered extends the trace by one skill.           *)
LEMMA TraceGrows ==
    ASSUME TypeOK, TraceFits, phase = "skill", call.pc = "returned", NEW ok \in BOOLEAN,
           NEW trace, trace = Append(invocations, [skill |-> call.skill, ok |-> ok])
    PROVE  /\ Len(trace) = Len(invocations) + 1
           /\ Len(trace) \in 1..6
           /\ \A i \in DOMAIN trace :
                /\ trace[i].skill = Workflow[i]
                /\ trace[i].ok \/ (~ok /\ i = Len(trace))
           /\ completed = Prefix(Len(trace))
<1>1. invocations \in Seq(Invocation)
  BY DEF TypeOK
<1>2. PICK n \in 0..5 : n = Len(invocations)
  BY <1>1 DEF TraceFits
<1>3. /\ call.skill = Workflow[n + 1]
      /\ completed = Prefix(n + 1)
      /\ \A i \in 1..n : invocations[i].ok /\ invocations[i].skill = Workflow[i]
  BY <1>1, <1>2 DEF TraceFits
<1>4. /\ Len(trace) = n + 1
      /\ DOMAIN trace = 1..(n + 1)
      /\ \A i \in 1..n : trace[i] = invocations[i]
  BY <1>1, <1>2
<1>5. trace[n + 1].skill = call.skill /\ trace[n + 1].ok = ok
  BY <1>1, <1>2
<1>6. n + 1 \in 1..6
  OBVIOUS
<1>7. ASSUME NEW i \in 1..(n + 1)
      PROVE  trace[i].skill = Workflow[i] /\ (trace[i].ok \/ (~ok /\ i = n + 1))
  <2>1. CASE i = n + 1
    BY <1>3, <1>5, <2>1
  <2>2. CASE i \in 1..n
    <3>1. trace[i] = invocations[i]
      BY <1>4, <2>2
    <3>2. invocations[i].ok /\ invocations[i].skill = Workflow[i]
      BY <1>3, <2>2
    <3> QED BY <3>1, <3>2
  <2>3. i = n + 1 \/ i \in 1..n
    OBVIOUS
  <2> QED BY <2>1, <2>2, <2>3
<1> QED BY <1>2, <1>3, <1>4, <1>6, <1>7

LEMMA TraceKept ==
    ASSUME TypeOK, PhaseFits, CallFits, TraceFits, [Next]_vars
    PROVE  TraceFits'
<1> DEFINE n == Len(invocations)
<1>1. CASE phase' = "done"
  BY <1>1 DEF TraceFits
<1>2. CASE AskReasoner
  BY <1>2 DEF AskReasoner, TraceFits, skillVars, skillState
<1>3. CASE phase = "reasoner" /\ \E a \in Answer : Calls(a)
  <2>1. PICK a \in Answer : Calls(a)
    BY <1>3
  <2>2. a.decision \in Skills /\ execute(a.decision) /\ phase' = "skill" /\ UNCHANGED invocations
    BY <2>1 DEF Calls, CallSkill
  <2>3. n \in 0..6 /\ completed = Prefix(n)
    BY <1>3 DEF TraceFits
  <2>4. CASE call'.pc = "receipt"
    <3>1. completed' = completed \cup {a.decision} /\ call'.skill = a.decision /\ ~OutOfTurn(a.decision)
      BY <2>2, <2>4, ExecuteShape
    <3>2. n < 6 /\ a.decision = Workflow[n + 1] /\ completed' = Prefix(n + 1)
      BY <2>2, <2>3, <3>1, NextSkill DEF OutOfTurn
    <3> QED BY <1>3, <2>2, <2>4, <3>1, <3>2 DEF TraceFits
  <2>5. CASE call'.pc \in {"threw", "source", "planner"}
    <3>1. completed' = completed
      BY <2>2, <2>5, ExecuteShape
    <3> QED BY <1>3, <2>2, <2>3, <2>5, <3>1 DEF TraceFits
  <2> QED BY <2>2, <2>4, <2>5, ExecuteShape
<1>4. CASE SkillReturns /\ phase' = "loop"
  <2> DEFINE trace == Append(invocations, [skill |-> call.skill, ok |-> call.ok])
  <2>1. /\ phase = "skill" /\ call.pc = "returned" /\ call.ok
        /\ invocations' = trace /\ call' = Idle /\ completed' = completed
    BY <1>4 DEF SkillReturns, Finish, skillState
  <2>2. call.ok \in BOOLEAN
    BY DEF TypeOK, SkillsTypeOK
  <2> HIDE DEF trace
  <2>3. /\ Len(trace) \in 1..6
        /\ \A i \in DOMAIN trace : trace[i].ok /\ trace[i].skill = Workflow[i]
        /\ completed = Prefix(Len(trace))
    BY <2>1, <2>2, TraceGrows DEF trace
  <2> QED BY <1>4, <2>1, <2>3 DEF TraceFits, Idle
<1>5. CASE SkillStep /\ UNCHANGED harnessVars /\ phase # "done"
  <2>1. /\ UNCHANGED <<phase, invocations>>
        /\ n \in 0..6
        /\ \A i \in DOMAIN invocations : invocations[i].ok /\ invocations[i].skill = Workflow[i]
    BY <1>5 DEF harnessVars, TraceFits
  <2>2. CASE SourceAnswers \/ PlannerQuotes \/ PlannerDeclines
    <3>1. /\ call.pc \in {"source", "planner"} /\ call.skill \in Skills
          /\ call'.pc = "receipt" /\ call'.skill = call.skill
          /\ completed' = completed \cup {call.skill}
      BY <2>2 DEF SourceAnswers, PlannerQuotes, PlannerDeclines, Await, PhaseFits
    <3>2. phase = "skill" /\ completed = Prefix(n)
      BY <1>5, <3>1 DEF TraceFits, PhaseFits, Idle, TypeOK
    <3>3. n < 6 /\ call.skill = Workflow[n + 1] /\ completed' = Prefix(n + 1)
      BY <2>1, <3>1, <3>2, NextSkill DEF CallFits
    <3> QED BY <2>1, <3>1, <3>2, <3>3 DEF TraceFits
  <2>3. CASE SourceFails
    <3>1. call.pc = "source" /\ call'.pc = "threw" /\ completed' = completed
      BY <2>3 DEF SourceFails, TypeOK, SkillsTypeOK
    <3>2. phase = "skill" /\ completed = Prefix(n)
      BY <1>5, <3>1 DEF TraceFits, PhaseFits, Idle, TypeOK
    <3> QED BY <2>1, <3>1, <3>2 DEF TraceFits
  <2>4. CASE Settles
    <3>1. /\ call.pc \in {"planner", "receipt"} /\ call'.pc \in {"returned", "threw"}
          /\ call'.pc = "returned" => call.pc = "receipt"
          /\ call'.skill = call.skill /\ completed' = completed
      BY <2>4 DEF Settles, skillState, TypeOK, SkillsTypeOK
    <3>2. phase = "skill"
      BY <1>5, <3>1 DEF PhaseFits, Idle, TypeOK
    <3>3. CASE call.pc = "planner"
      BY <2>1, <3>1, <3>2, <3>3 DEF TraceFits
    <3>4. CASE call.pc = "receipt"
      <4>1. n < 6 /\ call.skill = Workflow[n + 1] /\ completed = Prefix(n + 1)
        BY <1>5, <3>4 DEF TraceFits
      <4>2. n + 1 \in 1..6 /\ 1..(n + 1) = (1..n) \cup {n + 1}
        BY <2>1, <4>1
      <4>3. Prefix(n + 1) = Prefix(n) \cup {call.skill}
        BY <4>1, <4>2 DEF Prefix
      <4> QED BY <2>1, <3>1, <3>2, <4>1, <4>3 DEF TraceFits
    <3> QED BY <3>1, <3>3, <3>4
  <2>5. CASE UNCHANGED <<skillState, call>>
    BY <1>5, <2>1, <2>5 DEF TraceFits, skillState
  <2> QED BY <1>5, <2>2, <2>3, <2>4, <2>5, SkillStepKinds DEF TypeOK
<1>6. CASE UNCHANGED vars
  BY <1>6 DEF vars, harnessVars, skillVars, skillState, TraceFits
<1>7. EndsHere \/ SkillThrows \/ PreparesDecisionInputs => phase' = "done"
  BY DEF EndsHere, Ends, SkillThrows, PreparesDecisionInputs, Finish, PhaseFits
<1>8. SkillReturns => phase' \in {"done", "loop"}
  BY DEF SkillReturns, Finish
<1>9. UNCHANGED harnessVars => phase' = phase
  BY DEF harnessVars
<1> QED BY <1>1, <1>2, <1>3, <1>4, <1>5, <1>6, <1>7, <1>8, <1>9, StepKinds

(* Once the quote is done no source is asked any more.                     *)
LEMMA EvidenceSettled ==
    ASSUME TypeOK, CallFits, "submit_typed_proposal" \in completed, SkillStep
    PROVE  UNCHANGED <<evidence, proposal>>
<1>1. SourceSkills \subseteq completed /\ "quote_recovery_options" \in completed
  BY SourcesBeforeQuote DEF CallFits, Requires
<1>2. call.pc \notin {"source", "planner"}
  BY <1>1 DEF CallFits
<1>3. ~SourceAnswers /\ ~SourceFails /\ ~PlannerQuotes /\ ~PlannerDeclines
  BY <1>2 DEF SourceAnswers, SourceFails, PlannerQuotes, PlannerDeclines
<1> QED BY <1>3, SkillStepKinds DEF TypeOK, Settles, skillState

(* Only execute sets the proposal, and what it accepts rests on evidence.  *)
LEMMA RestsKept ==
    ASSUME TypeOK, PhaseFits, CallFits, EvidenceFits, ProposalFits, [Next]_vars
    PROVE  /\ proposal' # None => "submit_typed_proposal" \in completed' /\ Rests(proposal)'
           /\ phase = "done" => proposal' = proposal
<1>1. CASE UNCHANGED <<evidence, completed, proposal>>
  BY <1>1 DEF ProposalFits, Rests, Loaded
<1>2. CASE phase = "reasoner" /\ \E a \in Answer : Calls(a)
  <2>1. PICK a \in Answer : Calls(a)
    BY <1>2
  <2>2. a.decision \in Skills /\ execute(a.decision)
    BY <2>1 DEF Calls, CallSkill
  <2>3. CASE call'.pc = "receipt"
    <3>1. /\ "submit_typed_proposal" \notin completed
          /\ Requires("submit_typed_proposal") \subseteq completed
          /\ completed' = completed \cup {"submit_typed_proposal"}
          /\ evidence' = evidence /\ Current /\ quoted
          /\ proposal'.cites = Loaded(evidence)
          /\ IsEarliest(proposal'.until)
      BY <2>2, <2>3, ExecuteShape DEF OutOfTurn
    <3>2. SourceSkills \subseteq completed /\ "quote_recovery_options" \in completed
      BY <3>1, SourcesBeforeQuote DEF Requires
    <3>3. \A p \in {"case", "policy", "agreement", "quote"} : evidence[p] # None /\ p \in Parts
      BY <3>1, <3>2 DEF EvidenceFits, Sighted, SourceSkills, Skills, Parts
    <3>4. {"case", "policy", "agreement", "quote"} \subseteq Loaded(evidence)
      BY <3>3 DEF Loaded
    <3>5. \A q \in Loaded(evidence) : evidence[q].fresh /\ proposal'.until <= evidence[q].until
      BY <3>1 DEF Current, IsEarliest
    <3> QED BY <1>2, <3>1, <3>4, <3>5 DEF Rests
  <2>4. CASE call'.pc # "receipt"
    BY <1>1, <2>2, <2>4, ExecuteShape
  <2> QED BY <2>3, <2>4
<1>3. CASE SkillStep /\ UNCHANGED harnessVars
  <2>1. CASE "submit_typed_proposal" \in completed
    <3>1. UNCHANGED <<evidence, proposal>> /\ completed \subseteq completed'
      <4>1. completed \subseteq completed'
        BY <1>3, SkillStepKinds DEF TypeOK, SourceAnswers, SourceFails, PlannerQuotes,
           PlannerDeclines, Settles, skillState
      <4> QED BY <1>3, <2>1, <4>1, EvidenceSettled
    <3> QED BY <2>1, <3>1 DEF ProposalFits, Rests, Loaded
  <2>2. CASE "submit_typed_proposal" \notin completed
    <3>1. proposal = None /\ proposal' = proposal
      BY <1>3, <2>2, SkillStepKinds DEF ProposalFits, TypeOK, SourceAnswers, SourceFails,
         PlannerQuotes, PlannerDeclines, Settles, skillState
    <3> QED BY <3>1
  <2> QED BY <2>1, <2>2
<1>4. AskReasoner \/ EndsHere \/ SkillReturns \/ SkillThrows \/ PreparesDecisionInputs
        \/ UNCHANGED vars => UNCHANGED <<evidence, completed, proposal>>
  BY DEF AskReasoner, EndsHere, Ends, SkillReturns, SkillThrows, PreparesDecisionInputs,
     vars, skillVars, skillState
<1> QED BY <1>1, <1>2, <1>3, <1>4, StepKinds

(* The result of a run, once it is there, is never set again.              *)
LEMMA ResultKept ==
    ASSUME PhaseFits, phase = "done", [Next]_vars
    PROVE  result' = result /\ phase' = "done"
<1>1. \/ PreparesDecisionInputs \/ UNCHANGED harnessVars
  BY StepKinds DEF AskReasoner, EndsHere, SkillReturns, SkillThrows, vars
<1> QED BY <1>1 DEF PreparesDecisionInputs, harnessVars

(* What a run that ends with prepare_recovery returns.                     *)
Prepared(r) ==
    /\ proposal # None
    /\ r.proposal = proposal
    /\ r.included = proposal.cites
    /\ Len(r.trace) = 6
    /\ \A i \in DOMAIN r.trace : r.trace[i].ok

LEMMA FinishedAsPrepared ==
    ASSUME TypeOK, PhaseFits, ProposalFits, TraceFits, phase # "done", [Next]_vars,
           phase' = "done", result'.outcome = "prepare_recovery"
    PROVE  Prepared(result') /\ proposal' = proposal
<1>1. CASE SkillReturns
  <2> DEFINE trace == Append(invocations, [skill |-> call.skill, ok |-> call.ok])
  <2>1. /\ call.ok /\ proposal # None /\ phase = "skill" /\ call.pc = "returned"
        /\ Finish("prepare_recovery", "CITED_PROPOSAL_VALIDATED", trace)
        /\ proposal' = proposal
    BY <1>1 DEF SkillReturns, Finish, skillState
  <2>2. call.ok \in BOOLEAN
    BY DEF TypeOK, SkillsTypeOK
  <2> HIDE DEF trace
  <2>3. /\ Len(trace) \in 1..6
        /\ \A i \in DOMAIN trace : trace[i].ok
        /\ completed = Prefix(Len(trace))
    BY <2>1, <2>2, TraceGrows DEF trace
  <2>4. Len(trace) = 6
    <3>1. "submit_typed_proposal" \in Prefix(Len(trace)) /\ Len(trace) \in 0..6
      BY <2>1, <2>3 DEF ProposalFits
    <3> QED BY <3>1, SubmitIsLast
  <2>5. result'.trace = trace /\ result'.proposal = proposal /\ result'.included = Loaded(evidence)
    BY <2>1 DEF Finish
  <2> QED BY <2>1, <2>3, <2>4, <2>5 DEF Prepared, ProposalFits, Rests
<1>2. ~EndsHere
  BY DEF EndsHere, Ends, Finish
<1>3. ~SkillThrows
  BY DEF SkillThrows, Finish, PhaseFits
<1>4. ~AskReasoner /\ ~PreparesDecisionInputs /\ ~UNCHANGED harnessVars
  BY DEF AskReasoner, PreparesDecisionInputs, harnessVars, PhaseFits
<1>5. ~(phase = "reasoner" /\ \E a \in Answer : Calls(a))
  BY DEF Calls, CallSkill
<1> QED BY <1>1, <1>2, <1>3, <1>4, <1>5, StepKinds DEF vars

LEMMA ProposalKept ==
    ASSUME TypeOK, PhaseFits, CallFits, EvidenceFits, ProposalFits, TraceFits,
           PhaseFits', [Next]_vars
    PROVE  ProposalFits'
<1>1. proposal' # None => "submit_typed_proposal" \in completed' /\ Rests(proposal)'
  BY RestsKept
<1>2. result' # None /\ result'.outcome = "prepare_recovery" => Prepared(result)'
  <2>1. CASE phase = "done"
    BY <2>1, RestsKept, ResultKept DEF ProposalFits, Prepared, PhaseFits
  <2>2. CASE phase # "done" /\ phase' = "done"
    BY <2>2, FinishedAsPrepared DEF Prepared
  <2>3. CASE phase' # "done"
    BY <2>3 DEF PhaseFits
  <2> QED BY <2>1, <2>2, <2>3
<1>3. handedOver' # None => /\ result' # None
                            /\ result'.outcome = "prepare_recovery"
                            /\ handedOver' = result'.proposal
  <2>1. CASE PreparesDecisionInputs
    BY <2>1 DEF PreparesDecisionInputs
  <2>2. CASE ~PreparesDecisionInputs
    <3>1. handedOver' = handedOver
      BY <2>2, StepKinds DEF AskReasoner, EndsHere, Ends, Calls, CallSkill, SkillReturns,
         SkillThrows, Finish, harnessVars, vars
    <3> QED BY <3>1, ResultKept DEF ProposalFits, PhaseFits
  <2> QED BY <2>1, <2>2
<1> QED BY <1>1, <1>2, <1>3 DEF ProposalFits, Prepared

LEMMA BudgetKept ==
    ASSUME TypeOK, PhaseFits, TraceFits, BudgetFits, [Next]_vars
    PROVE  BudgetFits'
<1>0. steps \in Nat /\ Len(invocations) \in Nat /\ cost \in Nat /\ exchanged \in Nat
  BY DEF TypeOK, MaxReasoningSteps
<1>1. CASE phase' = "done"
  BY <1>1 DEF BudgetFits
<1>2. CASE AskReasoner
  BY <1>0, <1>2, BudgetAssumption DEF AskReasoner, BudgetFits
<1>3. CASE phase = "reasoner" /\ \E a \in Answer : Calls(a)
  <2>1. PICK a \in Answer : Calls(a)
    BY <1>3
  <2>2. /\ phase' = "skill" /\ UNCHANGED <<invocations, steps>>
        /\ AnswerRefusal(a) = "none" /\ CallRefusal(a.decision) = "none"
        /\ exchanged' = exchanged + ContextTokens + 1
    BY <2>1 DEF Calls, CallSkill, Meter
  <2>3. cost' = Spent(a)
    BY <2>1, <2>2 DEF Calls, Meter
  <2>4. ~(Spent(a) > MaxCost)
    BY <2>2 DEF AnswerRefusal
  <2>5. ~(Len(invocations) >= MaxSkillCalls)
    BY <2>2 DEF CallRefusal
  <2>6. Spent(a) \in Nat /\ cost + ContextTokens + 1 <= Spent(a) /\ ContextTokens \in Nat
    BY MeteredFloor, TokensAreNat
  <2>7. exchanged' <= cost' /\ cost' <= MaxCost
    BY <1>0, <1>3, <2>2, <2>3, <2>4, <2>6, BudgetAssumption DEF BudgetFits
  <2> QED BY <1>0, <1>3, <2>2, <2>5, <2>7, BudgetAssumption DEF BudgetFits
<1>4. CASE SkillReturns /\ phase' = "loop"
  <2>1. /\ phase = "skill" /\ UNCHANGED <<steps, cost, exchanged>>
        /\ invocations' = Append(invocations, [skill |-> call.skill, ok |-> call.ok])
    BY <1>4 DEF SkillReturns, Finish
  <2>2. Len(invocations') = Len(invocations) + 1
    BY <2>1 DEF TypeOK
  <2> QED BY <1>0, <1>4, <2>1, <2>2, BudgetAssumption DEF BudgetFits
<1>5. CASE UNCHANGED harnessVars
  BY <1>5 DEF harnessVars, BudgetFits
<1>6. EndsHere \/ SkillThrows \/ PreparesDecisionInputs => phase' = "done"
  BY DEF EndsHere, Ends, SkillThrows, PreparesDecisionInputs, Finish, PhaseFits
<1>7. SkillReturns => phase' \in {"done", "loop"}
  BY DEF SkillReturns, Finish
<1> QED BY <1>1, <1>2, <1>3, <1>4, <1>5, <1>6, <1>7, StepKinds DEF vars

-----------------------------------------------------------------------------
(* The theorems.                                                           *)

(* The trace stays true, of a run that is over as well.                    *)
LEMMA TraceTrueKept ==
    ASSUME TypeOK, Fits, TraceTrue, [Next]_vars
    PROVE  TraceTrue'
<1> USE DEF Fits
<1>1. CASE UNCHANGED <<invocations, completed, call>>
  BY <1>1 DEF TraceTrue
<1>2. CASE phase = "reasoner" /\ \E a \in Answer : Calls(a)
  <2>1. PICK a \in Answer : Calls(a)
    BY <1>2
  <2>2. a.decision \in Skills /\ execute(a.decision) /\ UNCHANGED invocations
    BY <2>1 DEF Calls, CallSkill
  <2>3. call.skill = None
    BY <1>2 DEF PhaseFits, Idle
  <2>4. \A s \in completed : s # None
    BY SourceAssumption DEF TypeOK, SkillsTypeOK
  <2>5. \A s \in completed' : s \in completed \/ s = call'.skill
    BY <2>2, ExecuteShape
  <2> QED BY <2>2, <2>3, <2>4, <2>5 DEF TraceTrue
<1>3. CASE SkillStep /\ UNCHANGED harnessVars
  <2>1. \/ call'.skill = call.skill /\ completed' \subseteq completed \cup {call.skill}
        \/ UNCHANGED <<completed, call>>
    <3>1. CASE SourceAnswers \/ PlannerQuotes \/ PlannerDeclines
      BY <3>1 DEF SourceAnswers, PlannerQuotes, PlannerDeclines, Await
    <3>2. CASE SourceFails
      BY <3>2 DEF SourceFails, TypeOK, SkillsTypeOK
    <3>3. CASE Settles
      BY <3>3 DEF Settles, skillState, TypeOK, SkillsTypeOK
    <3>4. CASE UNCHANGED <<skillState, call>>
      BY <3>4 DEF skillState
    <3> QED BY <1>3, <3>1, <3>2, <3>3, <3>4, SkillStepKinds DEF TypeOK
  <2> QED BY <1>3, <2>1 DEF TraceTrue, harnessVars
<1>4. CASE SkillReturns
  <2> DEFINE trace == Append(invocations, [skill |-> call.skill, ok |-> call.ok])
  <2>1. /\ phase = "skill" /\ call.pc = "returned"
        /\ invocations' = trace /\ completed' = completed
    BY <1>4 DEF SkillReturns, Finish, skillState
  <2>2. call.ok \in BOOLEAN /\ trace \in Seq(Invocation)
    BY <2>1 DEF TypeOK, SkillsTypeOK, PhaseFits, Invocation
  <2> HIDE DEF trace
  <2>3. /\ \A i \in DOMAIN trace :
              /\ trace[i].skill = Workflow[i]
              /\ trace[i].ok \/ (~call.ok /\ i = Len(trace))
        /\ completed = Prefix(Len(trace))
    BY <2>1, <2>2, TraceGrows DEF trace
  <2>4. ASSUME NEW s \in completed
        PROVE  \E i \in DOMAIN trace : trace[i].skill = s
    <3>1. PICK i \in 1..Len(trace) : s = Workflow[i]
      BY <2>3 DEF Prefix
    <3>2. i \in DOMAIN trace
      BY <2>2
    <3> QED BY <2>3, <3>1, <3>2
  <2>5. ASSUME NEW i \in DOMAIN trace
        PROVE  \/ trace[i].ok /\ trace[i].skill = Workflow[i]
               \/ ~trace[i].ok /\ i = Len(trace)
    <3>1. trace[i].ok \in BOOLEAN
      <4>1. trace[i] \in Invocation
        BY <2>2
      <4> QED BY <4>1 DEF Invocation
    <3>2. trace[i].skill = Workflow[i] /\ (trace[i].ok \/ (~call.ok /\ i = Len(trace)))
      BY <2>3
    <3> QED BY <3>1, <3>2
  <2> QED BY <2>1, <2>4, <2>5 DEF TraceTrue
<1>5. CASE SkillThrows
  <2> DEFINE trace == Append(invocations, [skill |-> call.skill, ok |-> FALSE])
             n == Len(invocations)
  <2>1. /\ phase = "skill" /\ invocations' = trace /\ completed' = completed
    BY <1>5 DEF SkillThrows, Finish, skillState
  <2>2. /\ n \in Nat
        /\ DOMAIN invocations = 1..n /\ DOMAIN trace = 1..(n + 1) /\ Len(trace) = n + 1
        /\ \A i \in 1..n : trace[i] = invocations[i]
        /\ trace[n + 1].skill = call.skill /\ trace[n + 1].ok = FALSE
    BY DEF TypeOK
  <2> HIDE DEF trace, n
  <2>3. ASSUME NEW i \in DOMAIN trace
        PROVE  \/ trace[i].ok /\ trace[i].skill = Workflow[i]
               \/ ~trace[i].ok /\ i = Len(trace)
    <3>1. i \in 1..n \/ i = n + 1
      BY <2>2
    <3>2. CASE i \in 1..n
      BY <2>1, <2>2, <3>2 DEF TraceFits
    <3>3. CASE i = n + 1
      BY <2>2, <3>3
    <3> QED BY <3>1, <3>2, <3>3
  <2>4. ASSUME NEW s \in completed
        PROVE  \E i \in DOMAIN trace : trace[i].skill = s
    <3>1. CASE s = call.skill
      <4>1. n + 1 \in DOMAIN trace
        BY <2>2
      <4> QED BY <2>2, <3>1, <4>1
    <3>2. CASE \E i \in 1..n : invocations[i].skill = s
      <4>1. 1..n \subseteq DOMAIN trace
        BY <2>2
      <4> QED BY <2>2, <3>2, <4>1
    <3> QED BY <2>2, <3>1, <3>2 DEF TraceTrue
  <2> QED BY <2>1, <2>3, <2>4 DEF TraceTrue
<1>6. AskReasoner \/ EndsHere \/ PreparesDecisionInputs \/ UNCHANGED vars
        => UNCHANGED <<invocations, completed, call>>
  BY DEF AskReasoner, EndsHere, Ends, Finish, PreparesDecisionInputs, vars, harnessVars,
     skillVars, skillState
<1> QED BY <1>1, <1>2, <1>3, <1>4, <1>5, <1>6, StepKinds

LEMMA InitFits == Init => TypeOK /\ Fits
<1> SUFFICES ASSUME Init
             PROVE  TypeOK /\ Fits
  OBVIOUS
<1> USE DEF Init, SkillsInit, Idle
<1>1. TypeOK
  <2>1. call \in [pc : CallPCs, skill : Skills \cup {None}, ok : BOOLEAN, outcome : Outcomes]
    BY DEF CallPCs, Outcomes
  <2>2. now \in 0..MaxTime /\ steps \in 0..MaxReasoningSteps
    BY BudgetAssumption, ClockAssumption DEF MaxReasoningSteps
  <2>3. SkillsTypeOK
    BY <2>1, <2>2 DEF SkillsTypeOK
  <2> QED BY <2>2, <2>3 DEF TypeOK
<1>2. PhaseFits /\ CallFits /\ EvidenceFits
  BY DEF PhaseFits, CallFits, EvidenceFits, Parts
<1>3. ProposalFits
  BY DEF ProposalFits
<1>4. TraceFits
  BY Prefixes DEF TraceFits
<1>5. BudgetFits
  BY BudgetAssumption DEF BudgetFits
<1> QED BY <1>1, <1>2, <1>3, <1>4, <1>5 DEF Fits

LEMMA StepFits == TypeOK /\ Fits /\ [Next]_vars => TypeOK' /\ Fits'
<1> SUFFICES ASSUME TypeOK, Fits, [Next]_vars
             PROVE  TypeOK' /\ Fits'
  OBVIOUS
<1> USE DEF Fits
<1>1. TypeOK'
  BY TypeKept
<1>2. PhaseFits'
  BY PhaseKept
<1>3. CallFits' /\ EvidenceFits'
  BY CallKept, EvidenceKept
<1>4. ProposalFits'
  BY <1>2, ProposalKept
<1>5. TraceFits' /\ BudgetFits'
  BY TraceKept, BudgetKept
<1> QED BY <1>1, <1>2, <1>3, <1>4, <1>5

LEMMA Invariance == Spec => [](TypeOK /\ Fits)
<1> QED BY InitFits, StepFits, PTL DEF Spec

(* The state of a run and of its skill host is what TypeOK says, whatever  *)
(* the reasoner, the sources and the planner answer.                       *)
THEOREM TypeCorrect == Spec => []TypeOK
<1> QED BY Invariance, PTL

(* A run that ends with prepare_recovery carries a sound proposal.         *)
THEOREM PreparesSoundly == Spec => []PreparedIsSound
<1>1. TypeOK /\ Fits => PreparedIsSound
  <2> SUFFICES ASSUME TypeOK, Fits, result # None, result.outcome = "prepare_recovery"
               PROVE  PreparedIsSound
    BY DEF PreparedIsSound
  <2>1. /\ proposal # None /\ result.proposal = proposal /\ result.included = proposal.cites
        /\ "submit_typed_proposal" \in completed /\ Rests(proposal)
    BY DEF Fits, ProposalFits
  <2>2. /\ SourceSkills \subseteq completed /\ "quote_recovery_options" \in completed
    BY <2>1, SourcesBeforeQuote DEF Fits, CallFits, Requires
  <2>3. conflicts = {} /\ Sighted(evidence)
    BY <2>2 DEF Fits, EvidenceFits
  <2>4. {"customer_access", "field_access"} \subseteq Loaded(evidence) =>
          ~Disagree(evidence["customer_access"], evidence["field_access"])
    BY <2>2, <2>3 DEF Fits, EvidenceFits, SourceSkills, Skills
  <2>5. /\ \E p \in Loaded(evidence) \cap FieldReports :
             evidence[p].status = "unable_to_complete"
        /\ \E p \in Loaded(evidence) \cap AccessReports :
             evidence[p].status = "confirmed_clear"
    BY <2>3 DEF Sighted, Loaded, FieldReports, AccessReports, Parts
  <2>6. \A p \in Loaded(evidence) : evidence[p] # None
    BY DEF Loaded
  <2> QED BY <2>1, <2>4, <2>5, <2>6 DEF PreparedIsSound, Rests
<1> QED BY <1>1, Invariance, PTL

(* The lifecycle is only given what a run prepared with all six skills.    *)
THEOREM HandsOverPrepared == Spec => []HandedOverIsPrepared
<1>1. TypeOK /\ Fits => HandedOverIsPrepared
  BY DEF Fits, ProposalFits, HandedOverIsPrepared
<1> QED BY <1>1, Invariance, PTL

(* The trace of a run is what happened in it.                              *)
THEOREM TracesStayTrue == Spec => []TraceTrue
<1>1. Init => TraceTrue
  BY DEF Init, SkillsInit, TraceTrue
<1>2. TypeOK /\ Fits /\ TraceTrue /\ [Next]_vars => TraceTrue'
  BY TraceTrueKept
<1> QED BY <1>1, <1>2, Invariance, PTL DEF Spec

(* What a run exchanges stays within its budgets while it goes on.         *)
THEOREM StaysWithinBudget == Spec => []WithinBudget
<1>1. TypeOK /\ Fits => WithinBudget
  <2> SUFFICES ASSUME TypeOK, Fits, phase # "done"
               PROVE  WithinBudget
    BY DEF WithinBudget
  <2>1. Len(invocations) \in Nat /\ cost \in Nat /\ exchanged \in Nat
    BY DEF TypeOK
  <2> QED BY <2>1, BudgetAssumption DEF Fits, BudgetFits, WithinBudget, MaxReasoningSteps
<1> QED BY <1>1, Invariance, PTL

(* A proposal is accepted only while what it cites is fresh and in time.   *)
THEOREM AcceptsWhileCurrent == Spec => AcceptedWhileCurrent
<1>1. TypeOK /\ Fits /\ [Next]_vars =>
        [proposal' # proposal =>
           \A p \in proposal'.cites : evidence[p].fresh /\ now < evidence[p].until]_vars
  <2> SUFFICES ASSUME TypeOK, [Next]_vars, proposal' # proposal
               PROVE  \A p \in proposal'.cites : evidence[p].fresh /\ now < evidence[p].until
    OBVIOUS
  <2>1. PICK a \in Answer : Calls(a)
    BY StepKinds, SkillStepKinds DEF AskReasoner, EndsHere, Ends, SkillReturns, SkillThrows,
       PreparesDecisionInputs, SourceAnswers, SourceFails, PlannerQuotes, PlannerDeclines,
       Settles, vars, skillVars, skillState, TypeOK
  <2>2. a.decision \in Skills /\ execute(a.decision)
    BY <2>1 DEF Calls, CallSkill
  <2>3. Current /\ proposal'.cites = Loaded(evidence)
    BY <2>2, ExecuteShape
  <2> QED BY <2>3 DEF Current
<1> QED BY <1>1, Invariance, PTL DEF Spec, AcceptedWhileCurrent

(* A skill abandoned at the deadline does not add to the run's result.     *)
THEOREM ResultsStand == Spec => ResultStands
<1>1. TypeOK /\ Fits /\ [Next]_vars => [result # None => result' = result]_vars
  BY ResultKept DEF Fits, PhaseFits
<1> QED BY <1>1, Invariance, PTL DEF Spec, ResultStands

-----------------------------------------------------------------------------
(* The context of a run against assembleModelContext.                      *)
Known == Parts \cup {"history"}

LEMMA OrdersAre ==
    /\ LoadOrder \in Seq(Known) /\ Distinct(LoadOrder) /\ Named(LoadOrder) = Parts
    /\ KnownOrder \in Seq(Known) /\ Distinct(KnownOrder) /\ Named(KnownOrder) = Known
    /\ Len(KnownOrder) = 8
<1>1. /\ Len(LoadOrder) = 7 /\ DOMAIN LoadOrder = 1..7
      /\ LoadOrder \in Seq(Known) /\ Named(LoadOrder) = Parts
      /\ Distinct(LoadOrder)
  BY DEF LoadOrder, Known, Parts, Named, Distinct
<1>2. "history" \in Known \ Parts /\ Known = Parts \cup {"history"}
  BY DEF Known, Parts
<1>3. /\ KnownOrder \in Seq(Known) /\ Len(KnownOrder) = 8
      /\ Named(KnownOrder) = Parts \cup {"history"}
      /\ Distinct(KnownOrder)
  <2>1. KnownOrder \in Seq(Known) /\ Len(KnownOrder) = 7 + 1
    <3>1. LoadOrder \in Seq(Known) /\ Len(LoadOrder) = 7 /\ "history" \in Known
      BY <1>1, <1>2
    <3>2. KnownOrder \in Seq(Known) /\ Len(KnownOrder) = Len(LoadOrder) + 1
      BY <3>1, AppendProperties, Zenon DEF KnownOrder
    <3> QED
      BY <3>1, <3>2
  <2> QED
    BY <1>1, <1>2, <2>1, NamedAppend DEF KnownOrder
<1> QED
  BY <1>1, <1>2, <1>3

LEMMA LoadedAre ==
    ASSUME TypeOK
    PROVE  LET loaded == Only(LoadOrder, Loaded(evidence))
           IN  /\ loaded \in Seq(Known) /\ Distinct(loaded)
               /\ Named(loaded) = Loaded(evidence)
               /\ Len(loaded) = Cardinality(Loaded(evidence))
<1>1. Loaded(evidence) \subseteq Parts
  BY DEF Loaded
<1>2. /\ Only(LoadOrder, Loaded(evidence)) \in Seq(Known)
      /\ Named(Only(LoadOrder, Loaded(evidence))) = Parts \cap Loaded(evidence)
      /\ Distinct(Only(LoadOrder, Loaded(evidence)))
  BY OrdersAre, OnlySet
<1>3. Named(Only(LoadOrder, Loaded(evidence))) = Loaded(evidence)
  BY <1>1, <1>2
<1> QED
  BY <1>2, <1>3, DistinctLength

LEMMA ListedAre ==
    ASSUME TypeOK
    PROVE  LET listed == Only(KnownOrder, known)
           IN  /\ listed \in Seq(Known) /\ Distinct(listed)
               /\ Named(listed) = known
               /\ Len(listed) <= 8
<1> DEFINE listed == Only(KnownOrder, known)
<1>1. known \subseteq Known
  BY DEF TypeOK, SkillsTypeOK, Known
<1>2. listed \in Seq(Known) /\ Named(listed) = Known \cap known /\ Distinct(listed)
  BY OrdersAre, OnlySet
<1> HIDE DEF listed
<1>3. Named(listed) = known
  BY <1>1, <1>2
<1>4. Cardinality(known) = Len(listed)
  BY <1>2, <1>3, DistinctLength
<1>5. IsFiniteSet(Known) /\ Cardinality(Known) = 8
  BY OrdersAre, DistinctLength
<1>6. Len(listed) <= 8
  BY <1>1, <1>4, <1>5, FS_Subset
<1> QED
  BY <1>2, <1>3, <1>6 DEF listed

(* The candidates that a run makes of what it has loaded.                  *)
LEMMA CandidateIs ==
    ASSUME NEW x \in Known, NEW b \in BOOLEAN, NEW t \in Nat
    PROVE  [id |-> x, required |-> b, tokens |-> t] \in Candidate(Known)
  BY DEF Candidate

LEMMA ContextAgrees == TypeOK => AssemblyAgrees
<1> SUFFICES ASSUME TypeOK PROVE AssemblyAgrees
  OBVIOUS
<1> DEFINE loaded == Only(LoadOrder, Loaded(evidence))
           listed == Only(KnownOrder, known)
           candidates == [i \in DOMAIN loaded |->
                             [id |-> loaded[i], required |-> TRUE, tokens |-> 1]]
           base == 1 + Cardinality(completed)
<1>1. /\ loaded \in Seq(Known) /\ Distinct(loaded) /\ Named(loaded) = Loaded(evidence)
      /\ Len(loaded) = Cardinality(Loaded(evidence))
  BY LoadedAre
<1>2. /\ listed \in Seq(Known) /\ Distinct(listed) /\ Named(listed) = known
      /\ Len(listed) <= 8
  BY ListedAre
<1>3. Assembly = Assemble(candidates, listed, base, MaxContextTokens)
  BY DEF Assembly
<1>4. base \in Nat
  BY SkillsAreFinite DEF TypeOK, SkillsTypeOK
<1> HIDE DEF loaded, listed, base
<1>5. /\ Len(loaded) \in Nat /\ DOMAIN loaded = 1..Len(loaded)
      /\ \A i \in DOMAIN loaded : loaded[i] \in Known
  BY <1>1
<1>6. /\ DOMAIN candidates = DOMAIN loaded
      /\ \A i \in DOMAIN loaded :
            /\ candidates[i].id = loaded[i]
            /\ candidates[i].required
            /\ candidates[i].tokens = 1
            /\ candidates[i] \in Candidate(Known)
  <2>1. \A i \in DOMAIN loaded :
           [id |-> loaded[i], required |-> TRUE, tokens |-> 1] \in Candidate(Known)
    BY <1>5, CandidateIs
  <2> QED
    BY <2>1
<1>7. candidates \in Seq(Candidate(Known)) /\ Len(candidates) = Len(loaded)
  <2>1. candidates \in [1..Len(loaded) -> Candidate(Known)]
    BY <1>5, <1>6
  <2> HIDE DEF candidates
  <2> QED
    BY <1>5, <2>1
<1> HIDE DEF candidates
<1>8. DistinctIds(candidates) /\ Ids(candidates) = Loaded(evidence)
  BY <1>1, <1>6 DEF DistinctIds, Distinct, Ids, Named
<1>9. DescriptorOverflow(listed) = 0
  <2>1. Len(listed) \in Nat
    BY <1>2
  <2>2. ~(Len(listed) > MaxDescriptors)
    BY <1>2, <2>1, ContextAssumption, AssemblyAssumption
  <2> QED
    BY <2>2 DEF DescriptorOverflow
<1>10. MaxContextTokens \in Nat /\ OmissionTokens = 1
  BY BudgetAssumption, ContextAssumption
<1> DEFINE total == base + Len(candidates)
                      + Cardinality(Named(listed) \ Ids(candidates))
<1>11. /\ total <= MaxContextTokens =>
             /\ Assembly.overflowed = {} /\ ~Assembly.truncated
             /\ Assembly.tokens = total
             /\ Assembly.included = Ids(candidates)
       /\ total > MaxContextTokens =>
             Assembly.truncated \/ Assembly.tokens > MaxContextTokens
  <2>1. \A i \in DOMAIN candidates : candidates[i].required /\ candidates[i].tokens = 1
    BY <1>6
  <2>2. MaxContextTokens \in Int
    BY <1>10
  <2>3. UsableIfItFits(candidates, listed, base, MaxContextTokens)
    BY <1>2, <1>4, <1>7, <1>8, <1>9, <1>10, <2>1, <2>2, CostOfRequired
  <2> QED
    BY <1>3, <2>3 DEF UsableIfItFits
<1>12. total = ContextTokens /\ ContextTokens \in Nat
  <2>1. total = base + Cardinality(Loaded(evidence)) + Cardinality(known \ Loaded(evidence))
    BY <1>1, <1>2, <1>7, <1>8
  <2>2. ContextTokens \in Nat
    BY TokensAreNat
  <2> QED
    BY <2>1, <2>2 DEF ContextTokens, base
<1> HIDE DEF total
<1>13. CASE total <= MaxContextTokens
  <2>1. ~(total > MaxContextTokens)
    BY <1>10, <1>12, <1>13
  <2> QED
    BY <1>8, <1>11, <1>12, <1>13, <2>1 DEF AssemblyAgrees, ContextUnusable
<1>14. CASE total > MaxContextTokens
  <2>1. ContextUnusable
    BY <1>12, <1>14 DEF ContextUnusable
  <2>2. Assembly.truncated \/ Assembly.tokens > MaxContextTokens
    BY <1>11, <1>14
  <2> QED
    BY <2>1, <2>2, Zenon DEF AssemblyAgrees
<1> QED
  BY <1>10, <1>12, <1>13, <1>14

(* The harness and assembleModelContext agree about every context of a run: *)
(* on whether it may be used, and on what it costs if it may.              *)
THEOREM ContextsAgree == Spec => []AssemblyAgrees
  BY TypeCorrect, ContextAgrees, PTL

-----------------------------------------------------------------------------
(* The promises of assembleModelContext, with the constants of Small.      *)
SmallProofs == INSTANCE ContextAssemblyProofs
    WITH MaxDescriptors <- 1, OmissionTokens <- 1, ResidualTokens <- 2

LEMMA SmallAssembles ==
    \A candidates, listed, base, budget :
        Small!Assemble(candidates, listed, base, budget)
          = SmallProofs!Assemble(candidates, listed, base, budget)
<1>1. \A s, S : Small!Only(s, S) = SmallProofs!Only(s, S)
  BY DEF Small!Only, SmallProofs!Only
<1>2. \A start, c, r, b : Small!Pass(start, c, r, b) = SmallProofs!Pass(start, c, r, b)
  BY DEF Small!Pass, SmallProofs!Pass, Small!Admit, SmallProofs!Admit
<1>3. \A c, base, b : Small!Choose(c, base, b) = SmallProofs!Choose(c, base, b)
  BY <1>2 DEF Small!Choose, SmallProofs!Choose, Small!Nothing, SmallProofs!Nothing
<1>4. \A l : Small!DescriptorOverflow(l) = SmallProofs!DescriptorOverflow(l)
  BY DEF Small!DescriptorOverflow, SmallProofs!DescriptorOverflow
<1>5. \A l, c : Small!Descriptors(l, c) = SmallProofs!Descriptors(l, c)
  BY <1>1 DEF Small!Descriptors, SmallProofs!Descriptors, Small!Named, SmallProofs!Named,
              Small!Ids, SmallProofs!Ids
<1>6. \A n, t, b : Small!LongestPrefix(n, t, b) = SmallProofs!LongestPrefix(n, t, b)
  BY DEF Small!LongestPrefix, SmallProofs!LongestPrefix
<1> SUFFICES ASSUME NEW candidates, NEW listed, NEW base, NEW budget
             PROVE  Small!Assemble(candidates, listed, base, budget)
                      = SmallProofs!Assemble(candidates, listed, base, budget)
  OBVIOUS
<1>7. Small!Choose(candidates, base, budget) = SmallProofs!Choose(candidates, base, budget)
  BY <1>3
<1>8. Small!DescriptorOverflow(listed) = SmallProofs!DescriptorOverflow(listed)
  BY <1>4
<1>9. Small!Descriptors(listed, candidates) = SmallProofs!Descriptors(listed, candidates)
  BY <1>5
<1> QED
  BY <1>6, <1>7, <1>8, <1>9 DEF Small!Assemble, SmallProofs!Assemble

LEMMA SmallPromises ==
    /\ \A candidates, listed, a :
          SmallProofs!NamesEverything(candidates, listed, a)
            = NamesEverything(candidates, listed, a)
    /\ \A candidates, base, budget, a :
          SmallProofs!RequiredStay(candidates, base, budget, a)
            = RequiredStay(candidates, base, budget, a)
    /\ \A a, budget : SmallProofs!Clean(a, budget) = Clean(a, budget)
    /\ \A I : SmallProofs!Candidate(I) = Candidate(I)
    /\ \A candidates : SmallProofs!DistinctIds(candidates) = DistinctIds(candidates)
  BY DEF SmallProofs!NamesEverything, NamesEverything, SmallProofs!RequiredStay,
         RequiredStay, SmallProofs!Clean, Clean, SmallProofs!Demand, Demand,
         SmallProofs!Candidate, Candidate, SmallProofs!DistinctIds, DistinctIds,
         SmallProofs!Ids, Ids, SmallProofs!Named, Named

LEMMA SmallKeepsItsPromises ==
    ASSUME NEW I, NEW candidates \in Seq(Candidate(I)), DistinctIds(candidates),
           NEW listed \in Seq(I), NEW base \in Nat, NEW budget \in Int
    PROVE  LET a == Small!Assemble(candidates, listed, base, budget)
           IN  /\ Clean(a, budget) => NamesEverything(candidates, listed, a)
               /\ RequiredStay(candidates, base, budget, a)
<1> DEFINE a == SmallProofs!Assemble(candidates, listed, base, budget)
<1>1. candidates \in Seq(SmallProofs!Candidate(I)) /\ SmallProofs!DistinctIds(candidates)
  BY SmallPromises
<1>2. SmallProofs!Clean(a, budget) => SmallProofs!NamesEverything(candidates, listed, a)
  BY <1>1, SmallProofs!NothingDisappears
<1>3. SmallProofs!RequiredStay(candidates, base, budget, a)
  BY <1>1, SmallProofs!RequiredAreKept, Zenon
<1>4. a = Small!Assemble(candidates, listed, base, budget)
  BY SmallAssembles
<1> HIDE DEF a
<1> QED
  BY <1>2, <1>3, <1>4, SmallPromises

LEMMA EnvelopeKeepsItsPromises == TypeOK => EnvelopeHonest
<1> SUFFICES ASSUME TypeOK,
                    NEW required \in SUBSET Loaded(evidence),
                    NEW budget \in {1, 3, 5, 7, 9}
             PROVE  LET a == Small!Assemble(Candidates(required), Only(KnownOrder, known),
                                            1, budget)
                    IN  /\ Clean(a, budget) =>
                             NamesEverything(Candidates(required), Only(KnownOrder, known), a)
                        /\ RequiredStay(Candidates(required), 1, budget, a)
  BY DEF EnvelopeHonest
<1> DEFINE loaded == Only(LoadOrder, Loaded(evidence))
           listed == Only(KnownOrder, known)
           tokensOf(x) == IF x = "policy" THEN 3 ELSE 1
           candidates == [i \in DOMAIN loaded |->
                             [id |-> loaded[i], required |-> loaded[i] \in required,
                              tokens |-> tokensOf(loaded[i])]]
<1>1. loaded \in Seq(Known) /\ Distinct(loaded)
  BY LoadedAre
<1>2. listed \in Seq(Known)
  BY ListedAre
<1>3. Candidates(required) = candidates
  BY DEF Candidates
<1> HIDE DEF loaded, listed
<1>4. /\ Len(loaded) \in Nat /\ DOMAIN loaded = 1..Len(loaded)
      /\ \A i \in DOMAIN loaded : loaded[i] \in Known
  BY <1>1
<1>5. \A i \in DOMAIN loaded : candidates[i] \in Candidate(Known)
  <2> SUFFICES ASSUME NEW i \in DOMAIN loaded PROVE candidates[i] \in Candidate(Known)
    OBVIOUS
  <2>1. (loaded[i] \in required) \in BOOLEAN /\ tokensOf(loaded[i]) \in Nat
    OBVIOUS
  <2>2. [id |-> loaded[i], required |-> loaded[i] \in required,
         tokens |-> tokensOf(loaded[i])] \in Candidate(Known)
    BY <1>4, <2>1, CandidateIs
  <2> QED
    BY <2>2
<1>6. candidates \in Seq(Candidate(Known))
  <2>1. candidates \in [1..Len(loaded) -> Candidate(Known)]
    BY <1>4, <1>5
  <2> HIDE DEF candidates
  <2> QED
    BY <1>4, <2>1
<1>7. DistinctIds(candidates)
  BY <1>1 DEF DistinctIds, Distinct
<1> HIDE DEF candidates
<1>8. 1 \in Nat /\ budget \in Int
  OBVIOUS
<1>9. LET a == Small!Assemble(candidates, listed, 1, budget)
      IN  /\ Clean(a, budget) => NamesEverything(candidates, listed, a)
          /\ RequiredStay(candidates, 1, budget, a)
  BY <1>2, <1>6, <1>7, <1>8, SmallKeepsItsPromises
<1> QED
  BY <1>3, <1>9 DEF listed

(* Nothing disappears from a context of a run that passes for usable, and  *)
(* nothing that is required is left out of one.                            *)
THEOREM ContextsAreHonest == Spec => []EnvelopeHonest
  BY TypeCorrect, EnvelopeKeepsItsPromises, PTL
=============================================================================
