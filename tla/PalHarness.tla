----------------------------- MODULE PalHarness -----------------------------
(***************************************************************************)
(* runBoundedPal of packages/agent/src/harness.ts with its skill host, and *)
(* what LocalCompositionRuntime.prepare makes of its result. One run: the  *)
(* reasoner decides, the harness meters and checks the decision, the skill *)
(* host executes it, until the run stops. Both awaits race a timer that    *)
(* abandons the work; the reasoner and the sources may answer anything.    *)
(***************************************************************************)
EXTENDS RecoverySkills

CONSTANTS
    MaxSkillCalls, MaxContextTokens, MaxLatency, MaxCost,   \* the RunBudget
    AllowedSkills,   \* program.allowedSkills, names the host may not know
    Reports          \* tokens a provider may report: [input, output]

ASSUME BudgetAssumption ==
    /\ MaxSkillCalls \in Nat \ {0}
    /\ MaxContextTokens \in Nat \ {0}
    /\ MaxLatency \in Nat \ {0} /\ MaxLatency <= MaxTime
    /\ MaxCost \in Nat
    /\ Reports \subseteq [input : Nat, output : Nat]

VARIABLES
    phase,        \* where the harness is: its loop, or one of its awaits
    steps,        \* reasoning steps begun
    invocations,  \* skillInvocations of the trace: skill and success
    cost,         \* estimatedCostUsd, a unit for each token
    exchanged,    \* history: tokens that really went to and fro
    result,       \* what runBoundedPal returned
    handedOver    \* the proposal whose decision inputs were prepared

harnessVars == <<phase, steps, invocations, cost, exchanged, result,
                 handedOver>>
vars == <<skillVars, harnessVars>>

Decisions == Skills \cup AllowedSkills
               \cup {"malformed", "hold_for_confirmation", "escalate", "other"}
Reasons == {"LATENCY_BUDGET_EXHAUSTED", "REASONER_DEADLINE_EXCEEDED",
            "INVALID_REASONER_RESPONSE", "USAGE_RECEIPT_REPLAYED",
            "TOKEN_BUDGET_EXHAUSTED", "COST_BUDGET_EXHAUSTED",
            "REASONER_STOPPED", "SKILL_CALL_BUDGET_EXHAUSTED",
            "SKILL_NOT_ALLOWED", "UNKNOWN_SKILL", "SKILL_EXECUTION_REJECTED",
            "SKILL_DEADLINE_EXCEEDED", "SKILL_POLICY",
            "CONTEXT_UNUSABLE", "CITED_PROPOSAL_VALIDATED",
            "REASONING_STEP_BUDGET_EXHAUSTED"}
Invocation == [skill : Skills, ok : BOOLEAN]
Result == [outcome : Outcomes, reason : Reasons, trace : Seq(Invocation),
           proposal : Proposal \cup {None}, included : SUBSET Parts]

ASSUME ResultAssumption == None \notin Result

MaxReasoningSteps == MaxSkillCalls + 2

TypeOK ==
    /\ SkillsTypeOK
    /\ phase \in {"loop", "reasoner", "skill", "done"}
    /\ steps \in 0..MaxReasoningSteps
    /\ invocations \in Seq(Invocation)
    /\ cost \in Nat
    /\ exchanged \in Nat
    /\ result \in Result \cup {None}
    /\ handedOver \in Proposal \cup {None}

Init ==
    /\ SkillsInit
    /\ phase = "loop"
    /\ steps = 0
    /\ invocations = <<>>
    /\ cost = 0
    /\ exchanged = 0
    /\ result = None
    /\ handedOver = None

-----------------------------------------------------------------------------
(* Mutant: what was left out of the context costs nothing.                 *)
ContextTokens_WithoutOmissions ==
    1 + Cardinality(completed) + Cardinality(Loaded(evidence))

(* assemble: the tokens of the model's context. All that is loaded is      *)
(* required, so all of it is included; what is known and not loaded is     *)
(* recorded as omitted; the static context names the completed skills. One *)
(* token for each stands for the length of its text.                       *)
ContextTokens ==
    1 + Cardinality(completed) + Cardinality(Loaded(evidence))
      + Cardinality(known \ Loaded(evidence))

(* contextPreflightFailure: required evidence overflows, omissions do not  *)
(* fit or were never listed, or the context is too long.                   *)
ContextUnusable == residual \/ ContextTokens > MaxContextTokens

Larger(a, b) == IF a > b THEN a ELSE b

(* finish: the state as it is now, copied into the result.                 *)
Finish(outcome, reason, trace) ==
    /\ phase' = "done"
    /\ result' = [outcome |-> outcome, reason |-> reason, trace |-> trace,
                  proposal |-> proposal, included |-> Loaded(evidence)]
    /\ invocations' = trace
    /\ UNCHANGED handedOver

-----------------------------------------------------------------------------
(* The checks at the head of the loop in their order.                      *)
HeadRefusal ==
    IF steps >= MaxReasoningSteps THEN "REASONING_STEP_BUDGET_EXHAUSTED"
    ELSE IF ContextUnusable THEN "CONTEXT_UNUSABLE"
    ELSE IF now >= MaxLatency THEN "LATENCY_BUDGET_EXHAUSTED"
    ELSE "none"

(* provider.invoke with what remains of the latency budget.                *)
AskReasoner ==
    /\ phase = "loop"
    /\ HeadRefusal = "none"
    /\ phase' = "reasoner"
    /\ steps' = steps + 1
    /\ UNCHANGED <<skillVars, invocations, cost, exchanged, result, handedOver>>

StopAtHead ==
    /\ phase = "loop"
    /\ HeadRefusal # "none"
    /\ Finish("escalate", HeadRefusal, invocations)
    /\ UNCHANGED <<skillVars, steps, cost, exchanged>>

(* The provider fails or answers with no decision and metering at all.     *)
ReasonerFails ==
    /\ phase = "reasoner"
    /\ Finish("escalate", "INVALID_REASONER_RESPONSE", invocations)
    /\ UNCHANGED <<skillVars, steps, cost, exchanged>>

ReasonerTimesOut ==
    /\ phase = "reasoner"
    /\ now >= MaxLatency
    /\ Finish("escalate", "REASONER_DEADLINE_EXCEEDED", invocations)
    /\ UNCHANGED <<skillVars, steps, cost, exchanged>>

(* Of a providerRequestId it only matters whether an earlier answer of the *)
(* run had it: usageReceiptIds.                                            *)
Answer == {a \in [decision : Decisions, replayed : BOOLEAN, report : Reports] :
              a.replayed => steps > 1}

(* Mutant: the provider's own figures are believed.                        *)
Metered_AsReported(report) == report

(* The host's floors: the estimate of the context, and a decision that is  *)
(* taken to be one token long.                                             *)
Metered(report) == [input |-> Larger(report.input, ContextTokens),
                    output |-> Larger(report.output, 1)]

Spent(a) == cost + Metered(a.report).input + Metered(a.report).output

(* The checks of an answer in their order.                                 *)
AnswerRefusal(a) ==
    IF a.replayed THEN "USAGE_RECEIPT_REPLAYED"
    ELSE IF \/ Metered(a.report).input > MaxContextTokens
            \/ Metered(a.report).output > MaxContextTokens
         THEN "TOKEN_BUDGET_EXHAUSTED"
    ELSE IF Spent(a) > MaxCost THEN "COST_BUDGET_EXHAUSTED"
    ELSE IF now >= MaxLatency THEN "LATENCY_BUDGET_EXHAUSTED"
    ELSE IF a.decision = "malformed" THEN "INVALID_REASONER_RESPONSE"
    ELSE "none"

(* What else is asked of a decision to call a skill. The clock is read     *)
(* once more, in the same stretch, to find the skill's deadline.           *)
CallRefusal(skill) ==
    IF Len(invocations) >= MaxSkillCalls THEN "SKILL_CALL_BUDGET_EXHAUSTED"
    ELSE IF skill \notin AllowedSkills THEN "SKILL_NOT_ALLOWED"
    ELSE IF skill \notin Skills THEN "UNKNOWN_SKILL"
    ELSE "none"

(* The sum after an answer: a replayed receipt and an excess of tokens end *)
(* the run before anything is added.                                       *)
Meter(a) ==
    /\ cost' = IF AnswerRefusal(a) \in {"USAGE_RECEIPT_REPLAYED",
                                        "TOKEN_BUDGET_EXHAUSTED"}
               THEN cost ELSE Spent(a)
    /\ exchanged' = exchanged + ContextTokens + 1
    /\ UNCHANGED steps

AnswerRefused(a) ==
    /\ AnswerRefusal(a) # "none"
    /\ Finish("escalate", AnswerRefusal(a), invocations)
    /\ UNCHANGED skillVars

ReasonerStops(a) ==
    /\ AnswerRefusal(a) = "none"
    /\ a.decision \in {"hold_for_confirmation", "escalate"}
    /\ Finish(a.decision, "REASONER_STOPPED", invocations)
    /\ UNCHANGED skillVars

CallRefused(a) ==
    /\ AnswerRefusal(a) = "none"
    /\ a.decision \notin {"hold_for_confirmation", "escalate"}
    /\ CallRefusal(a.decision) # "none"
    /\ Finish("escalate", CallRefusal(a.decision), invocations)
    /\ UNCHANGED skillVars

CallSkill(a) ==
    /\ AnswerRefusal(a) = "none"
    /\ a.decision \in Skills
    /\ CallRefusal(a.decision) = "none"
    /\ execute(a.decision)
    /\ phase' = "skill"
    /\ UNCHANGED <<invocations, result, handedOver>>

ReasonerAnswers ==
    /\ phase = "reasoner"
    /\ \E a \in Answer :
         /\ Meter(a)
         /\ AnswerRefused(a) \/ ReasonerStops(a) \/ CallRefused(a) \/ CallSkill(a)

-----------------------------------------------------------------------------
(* Mutant: an answer is taken although the run no longer waits for it.     *)
SkillReturns_EvenIfAbandoned ==
    /\ phase \in {"skill", "done"}
    /\ call.pc = "returned"
    /\ LET trace == Append(invocations, [skill |-> call.skill, ok |-> call.ok])
       IN  \/ ~call.ok /\ Finish("escalate", "SKILL_EXECUTION_REJECTED", trace)
           \/ /\ call.ok /\ ContextUnusable
              /\ Finish("escalate", "CONTEXT_UNUSABLE", trace)
           \/ /\ call.ok /\ ~ContextUnusable /\ proposal # None
              /\ Finish("prepare_recovery", "CITED_PROPOSAL_VALIDATED", trace)
           \/ /\ call.ok /\ ~ContextUnusable /\ proposal = None
              /\ phase' = "loop"
              /\ invocations' = trace
              /\ UNCHANGED <<result, handedOver>>
    /\ call' = Idle
    /\ UNCHANGED <<now, skillState, steps, cost, exchanged>>

(* The skill's promise settles first: into the trace, and on.              *)
SkillReturns ==
    /\ phase = "skill"
    /\ call.pc = "returned"
    /\ LET trace == Append(invocations, [skill |-> call.skill, ok |-> call.ok])
       IN  \/ ~call.ok /\ Finish("escalate", "SKILL_EXECUTION_REJECTED", trace)
           \/ /\ call.ok /\ ContextUnusable
              /\ Finish("escalate", "CONTEXT_UNUSABLE", trace)
           \/ /\ call.ok /\ ~ContextUnusable /\ proposal # None
              /\ Finish("prepare_recovery", "CITED_PROPOSAL_VALIDATED", trace)
           \/ /\ call.ok /\ ~ContextUnusable /\ proposal = None
              /\ phase' = "loop"
              /\ invocations' = trace
              /\ UNCHANGED <<result, handedOver>>
    /\ call' = Idle
    /\ UNCHANGED <<now, skillState, steps, cost, exchanged>>

SkillThrows ==
    /\ phase = "skill"
    /\ call.pc = "threw"
    /\ Finish(call.outcome, "SKILL_POLICY",
              Append(invocations, [skill |-> call.skill, ok |-> FALSE]))
    /\ call' = Idle
    /\ UNCHANGED <<now, skillState, steps, cost, exchanged>>

(* Mutant: no timer races the skill.                                       *)
SkillTimesOut_Never == FALSE /\ UNCHANGED vars

(* The timer settles first. The call is abandoned, not stopped, and is not *)
(* entered in the trace.                                                   *)
SkillTimesOut ==
    /\ phase = "skill"
    /\ call.pc \notin {"returned", "threw"}
    /\ now >= MaxLatency
    /\ Finish("escalate", "SKILL_DEADLINE_EXCEEDED", invocations)
    /\ UNCHANGED <<skillVars, steps, cost, exchanged>>

-----------------------------------------------------------------------------
(* deriveDecisionInputs: the proposal ends with the agreement, the access  *)
(* window, the policy or the quote.                                        *)
BindingHolds ==
    \E p \in {"agreement", "customer_access", "policy", "quote"} \cap Loaded(evidence) :
       evidence[p].until = result.proposal.until

(* Mutant: any run that leaves a proposal behind is taken for prepared.    *)
PreparesDecisionInputs_OfAnyOutcome ==
    /\ result # None
    /\ handedOver = None
    /\ result.proposal # None
    /\ BindingHolds
    /\ handedOver' = result.proposal
    /\ UNCHANGED <<skillVars, phase, steps, invocations, cost,
                   exchanged, result>>

(* LocalCompositionRuntime.prepare after the run: only a prepared proposal *)
(* becomes decision inputs of the lifecycle.                               *)
PreparesDecisionInputs ==
    /\ result # None
    /\ handedOver = None
    /\ result.proposal # None
    /\ result.outcome = "prepare_recovery"
    /\ BindingHolds
    /\ handedOver' = result.proposal
    /\ UNCHANGED <<skillVars, phase, steps, invocations, cost,
                   exchanged, result>>

-----------------------------------------------------------------------------
Next ==
    \/ AskReasoner \/ StopAtHead
    \/ ReasonerAnswers \/ ReasonerFails \/ ReasonerTimesOut
    \/ SkillReturns \/ SkillThrows \/ SkillTimesOut
    \/ PreparesDecisionInputs
    \/ SkillStep /\ UNCHANGED harnessVars

Spec == Init /\ [][Next]_vars

(* The event loop runs what is due, timers fire and time passes; no source *)
(* and no reasoner need ever answer.                                       *)
Fairness ==
    /\ WF_vars(AskReasoner)
    /\ WF_vars(StopAtHead)
    /\ WF_vars(ReasonerTimesOut)
    /\ WF_vars(SkillReturns)
    /\ WF_vars(SkillThrows)
    /\ WF_vars(SkillTimesOut)
    /\ WF_vars(Tick /\ UNCHANGED harnessVars)

FairSpec == Spec /\ Fairness

-----------------------------------------------------------------------------
(* A run that ends with prepare_recovery carries a proposal that rests on  *)
(* all the evidence loaded in it: the case, the policy, an agreement, the  *)
(* quote, a report of a failed attempt and one of clear access, every one  *)
(* fresh and none valid for a shorter time; and the customer's word on the *)
(* access is not at odds with the driver's.                                *)
PreparedIsSound ==
    result # None /\ result.outcome = "prepare_recovery" =>
        /\ result.proposal # None
        /\ LET cites == result.proposal.cites
           IN  /\ cites = result.included
               /\ {"case", "policy", "agreement", "quote"} \subseteq cites
               /\ \E p \in cites \cap FieldReports :
                     evidence[p].status = "unable_to_complete"
               /\ \E p \in cites \cap AccessReports :
                     evidence[p].status = "confirmed_clear"
               /\ {"customer_access", "field_access"} \subseteq cites =>
                     ~Disagree(evidence["customer_access"], evidence["field_access"])
               /\ \A p \in cites : /\ evidence[p] # None
                                   /\ evidence[p].fresh
                                   /\ result.proposal.until <= evidence[p].until

(* A proposal is accepted only while everything it cites is fresh and has  *)
(* not expired, however long the sources and the planner took.             *)
AcceptedWhileCurrent ==
    [][proposal' # proposal =>
         \A p \in proposal'.cites : evidence[p].fresh /\ now < evidence[p].until]_vars

(* The lifecycle is given the proposal of a run that was prepared, with all *)
(* six skills executed: never one that a rejected receipt, an unusable     *)
(* context or a deadline left behind in an escalated run.                  *)
HandedOverIsPrepared ==
    handedOver # None =>
        /\ result # None
        /\ result.outcome = "prepare_recovery"
        /\ handedOver = result.proposal
        /\ Len(result.trace) = 6
        /\ \A i \in DOMAIN result.trace : result.trace[i].ok

(* The result of a run stands: a skill that was abandoned at the deadline  *)
(* and answers later does not add to it.                                   *)
ResultStands == [][result # None => result' = result]_vars

Workflow == <<"inspect_service_exception", "get_customer_commitments",
              "get_access_evidence", "get_field_attempt",
              "quote_recovery_options", "submit_typed_proposal">>

(* The trace is what happened: the skills of the workflow in their order,  *)
(* each once, where only the last may have failed; and no skill completed  *)
(* outside it but one that is under way or was abandoned at the deadline.  *)
TraceTrue ==
    /\ \A i \in DOMAIN invocations :
          \/ invocations[i].ok /\ invocations[i].skill = Workflow[i]
          \/ ~invocations[i].ok /\ i = Len(invocations)
    /\ \A s \in completed :
          \/ \E i \in DOMAIN invocations : invocations[i].skill = s
          \/ call.skill = s

(* While a run goes on, what it really exchanged with the provider is      *)
(* within its cost budget, whatever the provider reported, and no more     *)
(* skills ran than it may call; so the limit on reasoning steps, one above *)
(* what that leaves room for, is never what stops a run.                   *)
WithinBudget ==
    phase # "done" =>
        /\ exchanged <= MaxCost
        /\ Len(invocations) + (IF phase = "skill" THEN 1 ELSE 0) <= MaxSkillCalls
        /\ steps < MaxReasoningSteps

(* Every run ends, though no reasoner and no source may ever answer.       *)
RunEnds == <>(result # None)
=============================================================================
