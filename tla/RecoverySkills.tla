--------------------------- MODULE RecoverySkills ---------------------------
(***************************************************************************)
(* The recovery skill host of packages/agent/src/skills.ts and the state   *)
(* of one run it works on. execute runs without interruption to its first  *)
(* await (a source, the route planner or the external receipt) and again   *)
(* after it: each stretch is an action. A call whose caller has given up   *)
(* goes on: nothing after an await looks at the abort signal.              *)
(*                                                                         *)
(* An item of evidence is known by the part it plays in the decision. What *)
(* validateEvidenceItem and the digests compare is abstracted to answers   *)
(* that pass or do not pass.                                               *)
(***************************************************************************)
EXTENDS Naturals, Sequences, FiniteSets

CONSTANTS
    None,
    SourceItems,   \* the items a source may give for each part
    PolicyUntil,   \* approvalPolicy.validUntil
    Listings,      \* sets of parts that the inspection may list as known
    Payloads,      \* what a reasoner may submit
    MaxTime        \* bound of the clock

ASSUME ClockAssumption == MaxTime \in Nat /\ PolicyUntil \in Nat

Skills == {"inspect_service_exception", "get_customer_commitments",
           "get_access_evidence", "get_field_attempt",
           "quote_recovery_options", "submit_typed_proposal"}

(* Parts in the order in which skills load them; history is never loaded.  *)
Parts == {"case", "policy", "agreement", "customer_access", "field_access",
          "attempt", "quote"}
Statuses == {"none", "confirmed_clear", "blocked", "unable_to_complete"}
Item == [fresh : BOOLEAN, status : Statuses, from : Nat, until : Nat]
Proposal == [cites : SUBSET Parts, until : Nat]

(* A payload is sound if it asks for no authority, parses, has the run's   *)
(* scope and its own digest, and names vehicle and times of the quote.     *)
Payload == [sound : BOOLEAN, cites : SUBSET Parts, until : Nat]

ASSUME SourceAssumption ==
    /\ SourceItems \in [Parts \ {"policy"} -> SUBSET Item]
    /\ Listings \subseteq SUBSET (Parts \cup {"history"})
    /\ Payloads \subseteq Payload
    /\ None \notin Item \cup Proposal \cup Skills

VARIABLES
    now,          \* the host's clock
    evidence,     \* SkillHostState.evidence; all of it is required
    known,        \* SkillHostState.candidateEvidence
    residual,     \* candidateInventoryResidual is above zero
    conflicts,    \* SkillHostState.conflicts: pairs of parts
    completed,    \* SkillHostState.completedSkills
    quoted,       \* SkillHostState.routeQuote is set
    proposal,     \* SkillHostState.proposal
    call          \* the latest call of execute

skillState == <<evidence, known, residual, conflicts, completed, quoted, proposal>>
skillVars == <<now, skillState, call>>

CallPCs == {"idle", "source", "planner", "receipt", "returned", "threw"}
Outcomes == {"prepare_recovery", "hold_for_confirmation", "escalate"}

SkillsTypeOK ==
    /\ now \in 0..MaxTime
    /\ evidence \in [Parts -> Item \cup {None}]
    /\ known \subseteq Parts \cup {"history"}
    /\ residual \in BOOLEAN
    /\ conflicts \subseteq {{"customer_access", "field_access"}}
    /\ completed \subseteq Skills
    /\ quoted \in BOOLEAN
    /\ proposal \in Proposal \cup {None}
    /\ call \in [pc : CallPCs, skill : Skills \cup {None}, ok : BOOLEAN,
                 outcome : Outcomes]

Idle == [pc |-> "idle", skill |-> None, ok |-> TRUE, outcome |-> "escalate"]

SkillsInit ==
    /\ now = 0
    /\ evidence = [p \in Parts |-> None]
    /\ known = {}
    /\ residual = FALSE
    /\ conflicts = {}
    /\ completed = {}
    /\ quoted = FALSE
    /\ proposal = None
    /\ call = Idle

-----------------------------------------------------------------------------
Loaded(e) == {p \in Parts : e[p] # None}

(* assertRequiredEvidenceCurrent.                                          *)
Current == \A p \in Loaded(evidence) : evidence[p].fresh /\ now < evidence[p].until

(* Mutant: the boundary is the quote's own, not the earliest of all.       *)
IsEarliest_OfQuoteOnly(t) ==
    evidence["quote"] # None /\ evidence["quote"].until = t

(* earliestValidityBoundary of the required evidence.                      *)
IsEarliest(t) ==
    /\ \E p \in Loaded(evidence) : evidence[p].until = t
    /\ \A p \in Loaded(evidence) : t <= evidence[p].until

(* findAccessConflicts over the access items that one answer holds.        *)
Disagree(a, b) ==
    /\ a.fresh /\ b.fresh
    /\ a.status # b.status
    /\ a.from < b.until /\ b.from < a.until

ConflictsIn(items) ==
    LET pair == {"customer_access", "field_access"}
    IN  IF pair \subseteq DOMAIN items
           /\ Disagree(items["customer_access"], items["field_access"])
        THEN {pair} ELSE {}

(* requireSkill.                                                           *)
Requires(skill) ==
    CASE skill = "get_customer_commitments" -> {"inspect_service_exception"}
      [] skill = "get_access_evidence" -> {"get_customer_commitments"}
      [] skill = "get_field_attempt" -> {"get_access_evidence"}
      [] skill = "quote_recovery_options" -> {"get_field_attempt"}
      [] skill = "submit_typed_proposal" -> {"quote_recovery_options"}
      [] OTHER -> {}

(* Mutant: a skill may be called again.                                    *)
OutOfTurn_AllowsRepeat(skill) ==
    \/ skill = "inspect_service_exception" /\ completed # {}
    \/ ~(Requires(skill) \subseteq completed)

OutOfTurn(skill) ==
    \/ skill \in completed
    \/ skill = "inspect_service_exception" /\ completed # {}
    \/ ~(Requires(skill) \subseteq completed)

(* Items of authority field_operation, and those that report on access: the *)
(* quote looks for them among all the evidence, whichever skill loaded it. *)
FieldReports == {"field_access", "attempt"}
AccessReports == {"customer_access"} \cup FieldReports

Shows(parts, status) ==
    \E p \in parts \cap Loaded(evidence) : evidence[p].status = status

(* Mutant: evidence is only checked before the quote is asked for.         *)
NeedsConfirmation_NotAtSubmit(skill) ==
    /\ skill = "quote_recovery_options"
    /\ \/ ~Current
       \/ conflicts # {}
       \/ evidence["agreement"] = None
       \/ ~Shows(FieldReports, "unable_to_complete")
       \/ ~Shows(AccessReports, "confirmed_clear")

(* What a person has to confirm before a quote or a proposal: outdated or  *)
(* conflicting evidence, no agreement, no failed attempt, no clear access. *)
NeedsConfirmation(skill) ==
    \/ skill \in {"quote_recovery_options", "submit_typed_proposal"} /\ ~Current
    \/ /\ skill = "quote_recovery_options"
       /\ \/ conflicts # {}
          \/ evidence["agreement"] = None
          \/ ~Shows(FieldReports, "unable_to_complete")
          \/ ~Shows(AccessReports, "confirmed_clear")

(* The checks of submit_typed_proposal.                                    *)
Acceptable(p) ==
    /\ p.sound
    /\ p.cites = Loaded(evidence)
    /\ quoted
    /\ IsEarliest(p.until)

-----------------------------------------------------------------------------
(* execute up to its first await.                                          *)
Throw(skill, outcome) ==
    /\ call' = [pc |-> "threw", skill |-> skill, ok |-> FALSE, outcome |-> outcome]
    /\ UNCHANGED skillState

Await(skill, pc) ==
    call' = [pc |-> pc, skill |-> skill, ok |-> TRUE, outcome |-> "escalate"]

RefuseTurn(skill) ==
    /\ OutOfTurn(skill)
    /\ Throw(skill, "escalate")

AskConfirmation(skill) ==
    /\ ~OutOfTurn(skill)
    /\ NeedsConfirmation(skill)
    /\ Throw(skill, "hold_for_confirmation")

AskSource(skill) ==
    /\ ~OutOfTurn(skill)
    /\ skill \notin {"quote_recovery_options", "submit_typed_proposal"}
    /\ Await(skill, "source")
    /\ UNCHANGED skillState

AskPlanner(skill) ==
    /\ skill = "quote_recovery_options"
    /\ ~OutOfTurn(skill) /\ ~NeedsConfirmation(skill)
    /\ Await(skill, "planner")
    /\ UNCHANGED skillState

RefuseProposal(skill) ==
    /\ skill = "submit_typed_proposal"
    /\ ~OutOfTurn(skill) /\ ~NeedsConfirmation(skill)
    /\ \E payload \in Payloads : ~Acceptable(payload)
    /\ Throw(skill, "escalate")

AcceptProposal(skill) ==
    /\ skill = "submit_typed_proposal"
    /\ ~OutOfTurn(skill) /\ ~NeedsConfirmation(skill)
    /\ \E payload \in Payloads :
         /\ Acceptable(payload)
         /\ proposal' = [cites |-> payload.cites, until |-> payload.until]
    /\ completed' = completed \cup {skill}
    /\ Await(skill, "receipt")
    /\ UNCHANGED <<evidence, known, residual, conflicts, quoted>>

execute(skill) ==
    /\ \/ RefuseTurn(skill)
       \/ AskConfirmation(skill)
       \/ AskSource(skill)
       \/ AskPlanner(skill)
       \/ RefuseProposal(skill)
       \/ AcceptProposal(skill)
    /\ UNCHANGED now

-----------------------------------------------------------------------------
(* execute after the await of a source or of the planner.                  *)
Loads(skill) ==
    CASE skill = "inspect_service_exception" -> {"case"}
      [] skill = "get_customer_commitments" -> {"agreement"}
      [] skill = "get_access_evidence" -> {"customer_access", "field_access"}
      [] skill = "get_field_attempt" -> {"attempt"}
      [] OTHER -> {}

Answers(parts) == {a \in [parts -> UNION {SourceItems[p] : p \in parts}] :
                      \A p \in parts : a[p] \in SourceItems[p]}

PolicyItem == [fresh |-> TRUE, status |-> "none", from |-> 0, until |-> PolicyUntil]

(* addEvidence of each item.                                               *)
WithItems(items) ==
    [p \in Parts |-> IF p \in DOMAIN items THEN items[p] ELSE evidence[p]]

SourceAnswers ==
    /\ call.pc = "source"
    /\ \E parts \in SUBSET Loads(call.skill) : \E items \in Answers(parts) :
         IF call.skill = "inspect_service_exception"
         THEN /\ parts = Loads(call.skill)
              /\ evidence' = [WithItems(items) EXCEPT !["policy"] = PolicyItem]
              /\ \E listed \in Listings : known' = listed \ Loaded(evidence')
              /\ residual' \in BOOLEAN
              /\ UNCHANGED conflicts
         ELSE /\ evidence' = WithItems(items)
              /\ known' = known \ parts
              /\ conflicts' = conflicts \cup ConflictsIn(items)
              /\ UNCHANGED residual
    /\ completed' = completed \cup {call.skill}
    /\ Await(call.skill, "receipt")
    /\ UNCHANGED <<now, quoted, proposal>>

(* The source fails, or an item is of another tenant or case or is not     *)
(* what its hash says: the items before it have been added.                *)
SourceFails ==
    /\ call.pc = "source"
    /\ \E parts \in SUBSET Loads(call.skill) \ {Loads(call.skill)} :
       \E items \in Answers(parts) :
         /\ evidence' = WithItems(items)
         /\ known' = known \ parts
    /\ call' = [call EXCEPT !.pc = "threw", !.ok = FALSE]
    /\ UNCHANGED <<now, residual, conflicts, completed, quoted, proposal>>

PlannerQuotes ==
    /\ call.pc = "planner"
    /\ \E item \in SourceItems["quote"] :
         evidence' = [evidence EXCEPT !["quote"] = item]
    /\ quoted' = TRUE
    /\ known' = known \cup {"quote"}
    /\ completed' = completed \cup {call.skill}
    /\ Await(call.skill, "receipt")
    /\ UNCHANGED <<now, residual, conflicts, proposal>>

(* Infeasible or unavailable: the skill is done, without a quote.          *)
PlannerDeclines ==
    /\ call.pc = "planner"
    /\ completed' = completed \cup {call.skill}
    /\ Await(call.skill, "receipt")
    /\ UNCHANGED <<now, evidence, known, residual, conflicts, quoted, proposal>>

PlannerFails ==
    /\ call.pc = "planner"
    /\ call' = [call EXCEPT !.pc = "threw", !.ok = FALSE]
    /\ UNCHANGED <<now, skillState>>

(* externalReceipts.resolve. A host without that port returns at once with *)
(* status 200, which is a receipt that takes no time.                      *)
ReceiptAnswers ==
    /\ call.pc = "receipt"
    /\ \E ok \in BOOLEAN : call' = [call EXCEPT !.pc = "returned", !.ok = ok]
    /\ UNCHANGED <<now, skillState>>

ReceiptFails ==
    /\ call.pc = "receipt"
    /\ call' = [call EXCEPT !.pc = "threw", !.ok = FALSE]
    /\ UNCHANGED <<now, skillState>>

Tick ==
    /\ now < MaxTime
    /\ now' = now + 1
    /\ UNCHANGED <<skillState, call>>

SkillStep ==
    \/ SourceAnswers \/ SourceFails
    \/ PlannerQuotes \/ PlannerDeclines \/ PlannerFails
    \/ ReceiptAnswers \/ ReceiptFails
    \/ Tick
=============================================================================
