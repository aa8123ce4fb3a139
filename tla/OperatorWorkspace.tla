-------------------------- MODULE OperatorWorkspace --------------------------
(***************************************************************************)
(* The dispatcher's browser: App.tsx and its API adapter, api.ts, with the *)
(* routes of operator.ts as they look from the browser. One dispatcher     *)
(* works; everyone else (another browser, an outbox worker, the clock) is  *)
(* Elsewhere. What requests of two browsers do to each other inside a      *)
(* route is OperatorFacade's subject: here a route writes in as many steps *)
(* as it has transactions, and reads the case that it answers with in a    *)
(* step of its own.                                                        *)
(*                                                                         *)
(* A fetch is answered or fails at any time, after what it did on the      *)
(* server or before: an answer may be lost. Proposals, operations and      *)
(* sessions are numbered as they are created, from 1; 0 is none.           *)
(***************************************************************************)
EXTENDS LifecycleStates, Naturals, Sequences

CONSTANTS
    Cases,          \* the cases of the queue
    Home,           \* GREENLEAF_CASE_ID: opened first, and by every retry
    Reports,        \* what the dispatcher may report of access
    MaxProposals, MaxSessions, MaxRevision,     \* bounds of the runs
    MaxMoves,       \* bound of the runs on what is done elsewhere
    None

ASSUME WorkspaceAssumption ==
    /\ Home \in Cases
    /\ None \notin Cases
    /\ None \notin [case : Cases, operation : Nat]      \* none of the receipts
    /\ Reports \subseteq {"confirmed_clear", "blocked", "unknown"}
    /\ MaxProposals \in Nat /\ MaxRevision \in Nat /\ MaxMoves \in Nat
    /\ MaxSessions \in Nat \ {0}

VARIABLES
    made,           \* made[p]: the case of proposal p
    expired,        \* proposals past their validUntil
    approved,       \* proposals with an approval
    operations,     \* operations[o]: proposal, state, revision, receipted
    reports,        \* reports[s]: what session s has reported of each case
    loadState, actionState, caseView, receipt,  \* the state of App
    load,           \* the run of loadWorkspace, with the fetch it is at
    action,         \* the run of runAction or updateAccess
    late,           \* reports still to be recorded that she waits for no more
    moves,          \* how often someone else has moved, or a report was late
    disturbed,      \* history: the server moved on, an answer was lost or
                    \*   a report late since a case was last read here
    overtaken       \* history: operations that others have made since a load
                    \*   last read its case

server  == <<made, expired, approved, operations>>
screen  == <<loadState, actionState, caseView, receipt>>
history == <<disturbed, overtaken>>
vars    == <<server, reports, screen, load, action, late, moves, history>>

Access   == Reports \cup {"unrecorded"}
NotClear == {"blocked", "unknown"}

NoTask == [pc |-> "idle", kind |-> "none", case |-> Home, target |-> 0,
           access |-> "unrecorded", answer |-> None,
           receipt |-> None]

Loading(c) == [NoTask EXCEPT !.pc = "session", !.kind = "load", !.case = c]

Init ==
    /\ made = <<>> /\ expired = {} /\ approved = {} /\ operations = <<>>
    /\ reports = <<>>
    /\ loadState = "loading" /\ actionState = "idle"
    /\ caseView = None /\ receipt = None
    /\ load = Loading(Home)
    /\ action = NoTask
    /\ late = {} /\ moves = 0
    /\ disturbed = TRUE /\ overtaken = {}

-----------------------------------------------------------------------------
(* The browser holds the cookie of the session it was last issued.         *)
session == Len(reports)

(* What a route reads: getCaseLifecycleState, and operatorCaseView of it.  *)

Newest(S) == IF S = {} THEN 0 ELSE CHOOSE n \in S : \A m \in S : m <= n

ActiveProposal(c) == Newest({p \in DOMAIN made : made[p] = c /\ p \notin expired})

CaseOfOperation(o) == made[operations[o].proposal]

(* Mutant: an operation goes with its proposal.                            *)
LatestOperation_OfActive(c) ==
    Newest({o \in DOMAIN operations :
              CaseOfOperation(o) = c /\ operations[o].proposal \notin expired})

LatestOperation(c) == Newest({o \in DOMAIN operations : CaseOfOperation(o) = c})

NeedsResolution(o) ==
    /\ o # 0
    /\ operations[o].state \in
         {"reserved", "sending", "accepted", "unknown", "assignment_reconciled",
          "driver_reported", "supporting_evidence_received",
          "evidence_reconciled"}

operatorCaseView(c) ==
    LET p == ActiveProposal(c)
        o == LatestOperation(c)
    IN  [case             |-> c,
         proposal         |-> p,
         approved         |-> p \in approved,
         operation        |-> o,
         state            |-> IF o = 0 THEN "none" ELSE operations[o].state,
         revision         |-> IF o = 0 THEN 0 ELSE operations[o].revision,
         receiptAvailable |-> o # 0 /\ operations[o].receipted,
         access           |-> reports[session][c]]

(* Mutant: nobody asks first whether there is a proposal.                  *)
nextAction_AssumesProposal(v) ==
    IF v.operation # 0 THEN
      CASE v.state = "reserved" -> "dispatch"
        [] v.state = "unknown"  -> "reconcile"
        [] OTHER -> IF v.receiptAvailable THEN "monitor" ELSE "view_receipt"
    ELSE IF v.access \in NotClear THEN "record_evidence"
    ELSE IF v.approved THEN "reserve" ELSE "approve"

(* nextAction of the server. The browser shows a button for all but        *)
(* monitor and record_evidence.                                            *)
nextAction(v) ==
    IF v.operation # 0 THEN
      CASE v.state = "reserved" -> "dispatch"
        [] v.state = "unknown"  -> "reconcile"
        [] OTHER -> IF v.receiptAvailable THEN "monitor" ELSE "view_receipt"
    ELSE IF v.proposal = 0 THEN
      IF v.access \in NotClear THEN "record_evidence" ELSE "prepare"
    ELSE IF v.approved THEN "reserve" ELSE "approve"

OperatorActions ==
    {"prepare", "approve", "reserve", "dispatch", "reconcile", "view_receipt"}

nextOperatorAction(v) ==
    IF nextAction(v) \in OperatorActions THEN nextAction(v) ELSE None

ReceiptOf(o) == [case |-> CaseOfOperation(o), operation |-> o]

-----------------------------------------------------------------------------
(* What is written on the server, by whatever route or worker.             *)

(* A binding is current while its proposal lives and no newer one has      *)
(* advanced the case's revisions.                                          *)
Current(p) == p = Newest({q \in DOMAIN made : made[q] = made[p]})
                /\ p \notin expired

PrepareDecisionInputs(c) ==
    /\ Len(made) < MaxProposals
    /\ made' = Append(made, c)
    /\ UNCHANGED <<expired, approved, operations>>

Approve(p) ==
    /\ Current(p)
    /\ approved' = approved \cup {p}
    /\ UNCHANGED <<made, expired, operations>>

(* The operation of the proposal is returned if there is one already.      *)
Reserve(p) ==
    /\ p \in approved
    /\ IF \E o \in DOMAIN operations : operations[o].proposal = p
         THEN UNCHANGED operations
         ELSE /\ Current(p)
              /\ operations' = Append(operations,
                   [proposal |-> p, state |-> "reserved", revision |-> 0,
                    receipted |-> FALSE])
    /\ UNCHANGED <<made, expired, approved>>

Advance(o, to) ==
    /\ MayMove(operations[o].state, to)
    /\ operations[o].revision < MaxRevision
    /\ operations' = [operations EXCEPT ![o].state = to, ![o].revision = @ + 1]
    /\ UNCHANGED <<made, expired, approved>>

IssueReceipt(o) ==
    /\ operations' = [operations EXCEPT ![o].receipted = TRUE]
    /\ UNCHANGED <<made, expired, approved>>

Expire(p) ==
    /\ expired' = expired \cup {p}
    /\ UNCHANGED <<made, approved, operations>>

-----------------------------------------------------------------------------
(* loadWorkspace.                                                          *)

loadWorkspace(c) ==
    /\ load = NoTask
    /\ Len(reports) < MaxSessions
    /\ load' = Loading(c)
    /\ loadState' = "loading"
    /\ UNCHANGED <<server, reports, actionState, caseView, receipt,
                   action, history>>

(* Mutant: the buttons of the queue stay enabled while an action works.    *)
ChooseCase_WhileWorking(c) ==
    /\ loadState = "ready"
    /\ loadWorkspace(c)

(* A button of the queue; disabled while an action works.                  *)
ChooseCase(c) ==
    /\ loadState = "ready"
    /\ actionState = "idle"
    /\ loadWorkspace(c)

(* The button of ErrorScreen.                                              *)
Retry == loadState = "error" /\ loadWorkspace(Home)

(* startLocalSession: every load is issued a session of its own, of which  *)
(* no report is known, and the browser goes by its cookie from then on.    *)
(* Then listCases, which only reads.                                       *)
SessionStarted ==
    /\ load.pc = "session"
    /\ Len(reports) < MaxSessions
    /\ reports' = Append(reports, [c \in Cases |-> "unrecorded"])
    /\ load' = [load EXCEPT !.pc = "case"]
    /\ UNCHANGED <<server, screen, action, history>>

CaseRead ==
    /\ load.pc = "case"
    /\ load' = [load EXCEPT !.pc = "read",
                              !.answer = operatorCaseView(load.case)]
    /\ disturbed' = FALSE /\ overtaken' = {}
    /\ UNCHANGED <<server, reports, screen, action>>

(* Mutant: a case without a receipt leaves the receipt that is shown.      *)
CaseShown_KeepsReceipt ==
    LET v == load.answer IN
    /\ load.pc = "read"
    /\ caseView' = v
    /\ IF v.operation # 0 /\ v.receiptAvailable
         THEN /\ load' = [load EXCEPT !.pc = "receipt", !.target = v.operation]
              /\ UNCHANGED <<loadState, receipt>>
         ELSE /\ load' = NoTask
              /\ loadState' = "ready"
              /\ UNCHANGED receipt
    /\ UNCHANGED <<server, reports, actionState, action, history>>

CaseShown ==
    LET v == load.answer IN
    /\ load.pc = "read"
    /\ caseView' = v
    /\ IF v.operation # 0 /\ v.receiptAvailable
         THEN /\ load' = [load EXCEPT !.pc = "receipt", !.target = v.operation]
              /\ UNCHANGED <<loadState, receipt>>
         ELSE /\ load' = NoTask
              /\ loadState' = "ready"
              /\ receipt' = None
    /\ UNCHANGED <<server, reports, actionState, action, history>>

(* GET receipt reads the case first and sees to the receipt afterwards.    *)
LoadReadsReceipt ==
    \/ /\ load.pc = "receipt"
       /\ load' = [load EXCEPT !.pc = "recording",
                                 !.answer = operatorCaseView(load.case)]
       /\ disturbed' = FALSE
       /\ UNCHANGED <<server, reports, screen, action, overtaken>>
    \/ /\ load.pc = "recording"
       /\ IssueReceipt(load.target)
       /\ load' = [load EXCEPT !.pc = "receipted",
                                 !.receipt = ReceiptOf(load.target)]
       /\ UNCHANGED <<reports, screen, action, history>>

ReceiptShown ==
    /\ load.pc = "receipted"
    /\ caseView' = load.answer
    /\ receipt' = load.receipt
    /\ loadState' = "ready"
    /\ load' = NoTask
    /\ UNCHANGED <<server, reports, actionState, action, history>>

(* A load that fails may still get its receipt on record, Elsewhere.       *)
LoadFails ==
    /\ load # NoTask
    /\ loadState' = "error"
    /\ load' = NoTask
    /\ disturbed' = TRUE
    /\ UNCHANGED <<server, reports, actionState, caseView, receipt,
                   action, overtaken>>

LoadStep ==
    \/ SessionStarted
    \/ CaseRead
    \/ CaseShown
    \/ LoadReadsReceipt
    \/ ReceiptShown
    \/ LoadFails

-----------------------------------------------------------------------------
(* runAction and updateAccess: what the dispatcher sets off.               *)

Begin(kind, target, access) ==
    /\ loadState = "ready"
    /\ actionState = "idle"
    /\ actionState' = "working"
    /\ action' = [NoTask EXCEPT !.pc = "sent", !.kind = kind,
         !.case = caseView.case, !.target = target, !.access = access]
    /\ UNCHANGED <<server, reports, loadState, caseView, receipt,
                   load, history>>

(* executeAction: the request names what the view shows.                   *)
RunAction ==
    /\ caseView # None
    /\ nextOperatorAction(caseView) # None
    /\ LET kind == nextOperatorAction(caseView) IN
       Begin(kind, CASE kind = "prepare"              -> 0
                     [] kind \in {"approve", "reserve"} -> caseView.proposal
                     [] OTHER                         -> caseView.operation,
             "unrecorded")

(* AccessEvidenceControls, which ActionPanel shows beside prepare and      *)
(* where evidence is what the case waits for.                              *)
UpdateAccess(access) ==
    /\ caseView # None
    /\ nextAction(caseView) \in {"prepare", "record_evidence"}
    /\ Begin("evidence", 0, access)

-----------------------------------------------------------------------------
(* What the routes do with the request.                                    *)

Asked(kind, pc) == action.kind = kind /\ action.pc = pc
Goes(pc)        == action' = [action EXCEPT !.pc = pc]

(* POST prepare and POST evidence: the guard, and what is reported.        *)
PassesGuard ==
    LET access == IF action.kind = "evidence" THEN action.access
                    ELSE reports[session][action.case]
    IN
    /\ Asked("prepare", "sent") \/ Asked("evidence", "sent")
    /\ ~NeedsResolution(LatestOperation(action.case))
    /\ reports' = [reports EXCEPT ![session][action.case] = access]
    /\ action' = [action EXCEPT !.pc = "running", !.access = access]
    /\ UNCHANGED <<server, screen, load, history>>

(* Pal prepares a recovery, or holds. A prepare that holds is an error.    *)
PalRuns ==
    /\ action.pc = "running"
    /\ \/ action.access \notin NotClear /\ PrepareDecisionInputs(action.case)
       \/ action.kind = "evidence" /\ UNCHANGED server
    /\ Goes("reading")
    /\ UNCHANGED <<reports, screen, load, history>>

(* POST approve, of any case; POST reserve, of Greenleaf's alone. Both end *)
(* with the same reservation.                                              *)
ApprovesProposal ==
    /\ Asked("approve", "sent")
    /\ Approve(action.target)
    /\ Goes("reserving")
    /\ UNCHANGED <<reports, screen, load, history>>

FindsApproval ==
    /\ Asked("reserve", "sent")
    /\ action.target = ActiveProposal(Home)
    /\ action.target \in approved
    /\ Goes("reserving")
    /\ UNCHANGED <<server, reports, screen, load, history>>

Reserves ==
    /\ action.pc = "reserving"
    /\ Reserve(action.target)
    /\ Goes("reading")
    /\ UNCHANGED <<reports, screen, load, history>>

(* POST dispatch: the claim, or a cancellation where the binding is not    *)
(* current any more, which is answered with an error.                      *)
Claims ==
    LET o == action.target IN
    /\ Asked("dispatch", "sent")
    /\ operations[o].state = "reserved"
    /\ IF Current(operations[o].proposal)
         THEN Advance(o, "sending") /\ Goes("sending")
         ELSE Advance(o, "cancelled") /\ Goes("refused")
    /\ UNCHANGED <<reports, screen, load, history>>

(* The provider assigns or rejects, or its acknowledgement is lost; any    *)
(* other failure of the connector is recorded as unknown and rethrown.     *)
Sends ==
    /\ action.pc = "sending"
    /\ \/ \E to \in {"accepted", "failed", "unknown"} :
            Advance(action.target, to) /\ Goes("reading")
       \/ Advance(action.target, "unknown") /\ Goes("refused")
    /\ UNCHANGED <<reports, screen, load, history>>

(* POST reconcile: the assignment is found, or not; what is reconciled     *)
(* already is answered as it is.                                           *)
Reconciles ==
    LET o == action.target IN
    /\ Asked("reconcile", "sent")
    /\ \/ operations[o].state = "unknown" /\ Advance(o, "assignment_reconciled")
       \/ /\ operations[o].state \in {"unknown", "assignment_reconciled"}
          /\ UNCHANGED server
    /\ Goes("recording")
    /\ UNCHANGED <<reports, screen, load, history>>

(* Reconcile records its receipt and then reads the case; GET receipt      *)
(* reads first.                                                            *)
RecordsReceipt ==
    /\ action.pc = "recording"
    /\ IssueReceipt(action.target)
    /\ action' = [action EXCEPT !.receipt = ReceiptOf(action.target),
         !.pc = IF action.kind = "reconcile" THEN "reading" ELSE "answered"]
    /\ UNCHANGED <<reports, screen, load, history>>

CaseAnswered ==
    /\ action.pc = "reading" \/ Asked("view_receipt", "sent")
    /\ action' = [action EXCEPT
         !.answer = operatorCaseView(action.case),
         !.pc = IF action.kind = "view_receipt" THEN "recording" ELSE "answered"]
    /\ disturbed' = FALSE
    /\ UNCHANGED <<server, reports, screen, load, overtaken>>

-----------------------------------------------------------------------------
(* What the browser does with the answer.                                  *)

(* Mutant: the case that was answered is not put on the screen.            *)
ActionShown_KeepsCase ==
    /\ action.pc = "answered"
    /\ Goes("listing")
    /\ UNCHANGED <<server, reports, screen, load, history>>

ActionShown ==
    /\ action.pc = "answered"
    /\ caseView' = action.answer
    /\ Goes("listing")
    /\ UNCHANGED <<server, reports, loadState, actionState, receipt,
                   load, history>>

(* The queue was listed; a receipt that came with the answer is shown.     *)
ActionEnds ==
    /\ action.pc = "listing"
    /\ receipt' = IF action.receipt # None THEN action.receipt ELSE receipt
    /\ actionState' = "idle"
    /\ action' = NoTask
    /\ UNCHANGED <<server, reports, loadState, caseView, load,
                   history>>

(* Mutant: the state is put back where the action succeeds, not finally.   *)
GivesUp_KeepsWorking ==
    /\ action # NoTask
    /\ action' = NoTask
    /\ disturbed' = TRUE
    /\ UNCHANGED <<server, reports, screen, load, overtaken>>

(* The fetch fails, and the buttons are put back all the same.             *)
GivesUp ==
    /\ action # NoTask
    /\ actionState' = "idle"
    /\ action' = NoTask
    /\ disturbed' = TRUE
    /\ UNCHANGED <<server, reports, loadState, caseView, receipt, load,
                   overtaken>>

(* A refusal, an error or a lost answer, of the action or of the queue     *)
(* that is listed after it. The route may be at work still: what it then   *)
(* writes of proposals and operations is written Elsewhere.                *)
ActionFails == GivesUp /\ UNCHANGED <<moves, late>>

(* A report that was under way to the session when its fetch failed. The   *)
(* route passes its guard all the same, at any later time.                 *)
GivesUpReport ==
    /\ Asked("evidence", "sent")
    /\ moves < MaxMoves
    /\ GivesUp
    /\ moves' = moves + 1
    /\ late' = late \cup {[session |-> session, case |-> action.case,
                           access |-> action.access]}

LateReport ==
    \E r \in late :
      /\ ~NeedsResolution(LatestOperation(r.case))
      /\ reports' = [reports EXCEPT ![r.session][r.case] = r.access]
      /\ late' = late \ {r}
      /\ disturbed' = (disturbed \/ r.session = session)
      /\ UNCHANGED <<server, screen, load, action, moves, overtaken>>

RouteStep ==
    \/ PassesGuard
    \/ PalRuns
    \/ ApprovesProposal
    \/ FindsApproval
    \/ Reserves
    \/ Claims
    \/ Sends
    \/ Reconciles
    \/ RecordsReceipt
    \/ CaseAnswered

ActionStep ==
    \/ (RouteStep \/ ActionShown \/ ActionEnds) /\ UNCHANGED <<moves, late>>
    \/ ActionFails

-----------------------------------------------------------------------------

(* Other browsers, the workers, the field and the clock, and what is left  *)
(* of a route whose fetch has failed. Nothing returns a reopened operation *)
(* to reserved.                                                            *)
Elsewhere ==
    /\ moves < MaxMoves
    /\ moves' = moves + 1
    /\ \/ \E c \in Cases : PrepareDecisionInputs(c)
       \/ \E p \in DOMAIN made : Approve(p)
       \/ \E p \in DOMAIN made : Reserve(p)
       \/ \E o \in DOMAIN operations, to \in OperationStates \ {"reserved"} :
            Advance(o, to)
       \/ \E o \in DOMAIN operations : IssueReceipt(o)
       \/ \E p \in DOMAIN made : Expire(p)
    /\ disturbed' = TRUE
    /\ overtaken' = overtaken \cup (DOMAIN operations' \ DOMAIN operations)
    /\ UNCHANGED <<reports, screen, load, action, late>>

Quiet == load = NoTask /\ action = NoTask

Dispatcher ==
    \/ RunAction
    \/ \E access \in Reports : UpdateAccess(access)
    \/ \E c \in Cases : ChooseCase(c)
    \/ Retry

Next ==
    \/ (Dispatcher \/ LoadStep) /\ UNCHANGED <<moves, late>>
    \/ ActionStep
    \/ GivesUpReport
    \/ LateReport
    \/ Elsewhere

Spec == Init /\ [][Next]_vars

(* A fetch is answered or fails. Nothing is assumed of the dispatcher, and *)
(* nothing of anyone else.                                                 *)
FetchesEnd == /\ WF_vars(LoadStep /\ UNCHANGED <<moves, late>>)
              /\ WF_vars(ActionStep)

FairSpec == Spec /\ FetchesEnd

-----------------------------------------------------------------------------

Views ==
    [case : Cases, proposal : 0..MaxProposals, approved : BOOLEAN,
     operation : 0..MaxProposals, state : OperationStates \cup {"none"},
     revision : 0..MaxRevision, receiptAvailable : BOOLEAN, access : Access]

Receipts == [case : Cases, operation : 1..MaxProposals]

Places == {"idle", "session", "case", "read", "receipt", "recording", "receipted",
           "sent", "running", "reading", "reserving", "sending", "refused",
           "answered", "listing"}
Kinds  == OperatorActions \cup {"none", "load", "evidence"}

Tasks ==
    [pc : Places, kind : Kinds, case : Cases, target : 0..MaxProposals,
     access : Access, answer : Views \cup {None}, receipt : Receipts \cup {None}]

(* Every part has its type, and what is named by number exists:            *)
(* executeAction never finds that the action on offer is missing its       *)
(* record binding.                                                         *)
TypeOK ==
    /\ made \in Seq(Cases) /\ Len(made) <= MaxProposals
    /\ expired \subseteq DOMAIN made /\ approved \subseteq DOMAIN made
    /\ Len(operations) <= Len(made)
    /\ \A o \in DOMAIN operations :
         operations[o] \in [proposal : DOMAIN made, state : OperationStates,
                            revision : 0..MaxRevision, receipted : BOOLEAN]
    /\ \A s \in DOMAIN reports : reports[s] \in [Cases -> Access]
    /\ loadState \in {"loading", "ready", "error"}
    /\ actionState \in {"idle", "working"}
    /\ caseView \in Views \cup {None}
    /\ caseView # None => /\ caseView.proposal <= Len(made)
                          /\ caseView.operation <= Len(operations)
    /\ receipt \in Receipts \cup {None}
    /\ load \in Tasks /\ action \in Tasks
    /\ action.kind \in {"approve", "reserve"} => action.target \in DOMAIN made
    /\ action.kind \in {"dispatch", "reconcile", "view_receipt"}
         => action.target \in DOMAIN operations
    /\ late \subseteq [session : DOMAIN reports, case : Cases, access : Access]
    /\ moves \in 0..MaxMoves /\ disturbed \in BOOLEAN
    /\ overtaken \subseteq DOMAIN operations

(* The browser waits for one thing at a time, and shows that it waits: the *)
(* loading screen and the disabled buttons are all that keeps a load and   *)
(* an action from writing the same view by turns.                          *)
OneTaskAtATime ==
    /\ loadState = "loading" <=> load # NoTask
    /\ actionState = "working" <=> action # NoTask
    /\ load = NoTask \/ action = NoTask

(* The screen is the truth whenever nothing else can be to blame: when the *)
(* browser waits for nothing, and no answer was lost, no report of hers    *)
(* was late and nobody else has moved since it last read a case, then what *)
(* it shows of the case, and so the action that it offers, is what the     *)
(* server would answer now. Only the receipt may have come after the view  *)
(* it came with.                                                           *)
ShownIsCurrent ==
    loadState = "ready" /\ Quiet /\ ~disturbed
      => LET now == operatorCaseView(caseView.case)
         IN  \/ caseView = now
             \/ /\ caseView.operation # 0
                /\ receipt = ReceiptOf(caseView.operation)
                /\ caseView = [now EXCEPT !.receiptAvailable = FALSE]

(* OperationRecord prints a receipt under whatever operation the view      *)
(* shows. The two come by different answers; yet a receipt is never shown  *)
(* beside another case, and beside another operation than its own only     *)
(* where that operation is a newer one, made elsewhere since the case was  *)
(* loaded: nothing the dispatcher did herself leads there, and to load the *)
(* case again ends it.                                                     *)
ReceiptBesideItsOperation ==
    loadState = "ready" /\ receipt # None
      => /\ receipt.case = caseView.case
         /\ \/ receipt.operation = caseView.operation
            \/ /\ receipt.operation < caseView.operation
               /\ caseView.operation \in overtaken

(* While a case stays on the screen, its operation is never replaced by an *)
(* earlier one nor by an earlier revision of itself: no slower answer to   *)
(* an earlier request overwrites a later one's.                            *)
OperationNeverGoesBack ==
    [][caseView # None /\ caseView'.case = caseView.case
         => \/ caseView.operation < caseView'.operation
            \/ /\ caseView.operation = caseView'.operation
               /\ caseView.revision <= caseView'.revision]_caseView

(* Whatever fails and wherever, the loading screen gives way and the       *)
(* buttons come back: the browser never waits for good.                    *)
WaitsEnd == []<>(loadState # "loading" /\ actionState = "idle")

-----------------------------------------------------------------------------

(* The last thing this dispatcher reported of a case's access, under       *)
(* whichever session of hers it was.                                       *)
LastReport(c) ==
    LET told == {s \in DOMAIN reports : reports[s][c] # "unrecorded"}
    IN  IF told = {} THEN "unrecorded" ELSE reports[Newest(told)][c]

(* docs/help/resolve-a-missed-collection.md: a report that access is clear *)
(* does not erase a more recent conflicting field report. So Pal prepares  *)
(* no recovery of a case for a dispatcher whose last word of it is that    *)
(* access is not clear. Where a report of the same session comes in while  *)
(* Pal is at work, nothing is asked.                                       *)
NoRecoveryOverReport ==
    [][/\ PalRuns /\ made' # made
       /\ reports[session][action.case] = action.access
         => LastReport(action.case) \notin NotClear]_vars
=============================================================================
