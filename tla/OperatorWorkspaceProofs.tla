----------------------- MODULE OperatorWorkspaceProofs -----------------------
(***************************************************************************)
(* The dispatcher's browser does one thing at a time, what it shows of a   *)
(* case never goes back and is the truth while nobody else moves, and a    *)
(* receipt stands beside its own operation or a newer one of somebody      *)
(* else's: for every set of cases, however many loads and actions there    *)
(* are, wherever they fail and whatever others do meanwhile. No action on  *)
(* offer misses what it names.                                             *)
(***************************************************************************)
EXTENDS OperatorWorkspace, TLAPS, FiniteSetTheorems, WellFoundedInduction

(* A task has a place where it stands, and an action is only ever under    *)
(* way where the workspace is ready: the button of ErrorScreen, which no   *)
(* action disables, is never there to press.                               *)
TasksStand == "pc" \in DOMAIN load /\ "pc" \in DOMAIN action

ActsWhenReady == actionState = "working" => loadState = "ready"

TasksInv == TasksStand /\ ActsWhenReady /\ OneTaskAtATime

(* What an action does, whether or not it leaves a report behind.          *)
Acts == RouteStep \/ ActionShown \/ ActionEnds \/ GivesUp

LEMMA NextIs == Next => Dispatcher \/ LoadStep \/ Acts \/ LateReport \/ Elsewhere
BY DEF Next, Acts, ActionStep, ActionFails, GivesUpReport

(* A task that stands anywhere but at idle is a task.                      *)
LEMMA AtWork ==
    ASSUME NEW t, t.pc # "idle"
    PROVE  t # NoTask
BY DEF NoTask

(* Whatever changes elsewhere in a task, it stands where it is put.        *)
LEMMA Moved ==
    ASSUME NEW t, "pc" \in DOMAIN t, NEW u, DOMAIN u = DOMAIN t,
           u.pc # "idle"
    PROVE  "pc" \in DOMAIN u /\ u # NoTask
BY AtWork

LEMMA LoadingStands ==
    ASSUME NEW c
    PROVE  "pc" \in DOMAIN Loading(c) /\ Loading(c) # NoTask
<1>1. Loading(c).pc = "session" /\ "pc" \in DOMAIN Loading(c)
  BY DEF Loading, NoTask
<1> QED
  BY <1>1, AtWork

LEMMA NoTaskStands == "pc" \in DOMAIN NoTask
BY DEF NoTask

LEMMA TasksInit == Init => TasksInv
<1> SUFFICES ASSUME Init PROVE TasksInv
  OBVIOUS
<1>1. load = Loading(Home) /\ action = NoTask
  BY DEF Init
<1>2. loadState = "loading" /\ actionState = "idle"
  BY DEF Init
<1> QED
  BY <1>1, <1>2, LoadingStands, NoTaskStands
     DEF TasksInv, TasksStand, ActsWhenReady, OneTaskAtATime

-----------------------------------------------------------------------------

(* A load begins only where the screen is ready or has failed, and so no   *)
(* action works.                                                           *)
LEMMA DispatcherKeepsTasks == TasksInv /\ Dispatcher => TasksInv'
<1> SUFFICES ASSUME TasksInv, Dispatcher
             PROVE  TasksInv'
  OBVIOUS
<1> USE DEF TasksInv, TasksStand, ActsWhenReady, OneTaskAtATime
<1>1. ASSUME NEW kind, NEW target, NEW access, Begin(kind, target, access)
      PROVE  TasksInv'
  <2>1. action'.pc = "sent" /\ "pc" \in DOMAIN action'
    BY <1>1 DEF history, Begin, NoTask
  <2>2. action' # NoTask
    BY <2>1, AtWork
  <2>3. /\ loadState = "ready" /\ loadState' = loadState
        /\ load' = load /\ actionState' = "working"
    BY <1>1 DEF history, Begin
  <2> QED
    BY <2>1, <2>2, <2>3
<1>2. ASSUME NEW c, loadWorkspace(c), actionState # "working"
      PROVE  TasksInv'
  <2>1. /\ load' = Loading(c) /\ loadState' = "loading"
        /\ action' = action /\ actionState' = actionState
    BY <1>2 DEF history, loadWorkspace
  <2> QED
    BY <1>2, <2>1, LoadingStands
<1>3. CASE RunAction
  BY <1>1, <1>3 DEF RunAction
<1>4. CASE \E access \in Reports : UpdateAccess(access)
  BY <1>1, <1>4 DEF UpdateAccess
<1>5. CASE \E c \in Cases : ChooseCase(c)
  BY <1>2, <1>5 DEF ChooseCase
<1>6. CASE Retry
  BY <1>2, <1>6 DEF Retry
<1> QED
  BY <1>3, <1>4, <1>5, <1>6 DEF Dispatcher

(* A load goes on, and there is no action; or it ends, and takes the       *)
(* loading screen with it.                                                 *)
LEMMA LoadKeepsTasks == TasksInv /\ LoadStep => TasksInv'
<1> SUFFICES ASSUME TasksInv, LoadStep
             PROVE  TasksInv'
  OBVIOUS
<1> USE DEF TasksInv, TasksStand, ActsWhenReady, OneTaskAtATime
<1>1. load # NoTask
  BY NoTaskStands
     DEF LoadStep, SessionStarted, CaseRead, CaseShown, LoadReadsReceipt,
         ReceiptShown, LoadFails, NoTask
<1>2. action' = action /\ actionState' = actionState
  BY DEF LoadStep, SessionStarted, CaseRead, CaseShown, LoadReadsReceipt,
         ReceiptShown, LoadFails, screen
<1>3. \/ load' = NoTask /\ loadState' # "loading"
      \/ /\ DOMAIN load' = DOMAIN load /\ load'.pc # "idle"
         /\ loadState' = loadState
  BY DEF LoadStep, SessionStarted, CaseRead, CaseShown, LoadReadsReceipt,
         ReceiptShown, LoadFails, screen
<1> QED
  BY <1>1, <1>2, <1>3, Moved, NoTaskStands

(* An action goes on, or it ends and gives the buttons back.               *)
LEMMA ActionKeepsTasks == TasksInv /\ Acts => TasksInv'
<1> SUFFICES ASSUME TasksInv, Acts
             PROVE  TasksInv'
  OBVIOUS
<1> USE DEF TasksInv, TasksStand, ActsWhenReady, OneTaskAtATime
<1>1. load' = load /\ loadState' = loadState
  BY DEF Acts, RouteStep, PassesGuard, PalRuns, ApprovesProposal,
         FindsApproval, Reserves, Claims, Sends, Reconciles, RecordsReceipt,
         CaseAnswered, ActionShown, ActionEnds, GivesUp, screen
<1>2. CASE RouteStep \/ ActionShown
  <2>1. action.pc # "idle"
    BY <1>2 DEF RouteStep, PassesGuard, PalRuns, ApprovesProposal,
         FindsApproval, Reserves, Claims, Sends, Reconciles, RecordsReceipt,
         CaseAnswered, ActionShown, Asked
  <2>2. actionState' = actionState
    BY <1>2 DEF RouteStep, PassesGuard, PalRuns, ApprovesProposal,
         FindsApproval, Reserves, Claims, Sends, Reconciles, RecordsReceipt,
         CaseAnswered, ActionShown, screen
  <2>3. DOMAIN action' = DOMAIN action /\ action'.pc # "idle"
    BY <1>2 DEF RouteStep, PassesGuard, PalRuns, ApprovesProposal,
         FindsApproval, Reserves, Claims, Sends, Reconciles, RecordsReceipt,
         CaseAnswered, ActionShown, Goes
  <2> QED
    BY <1>1, <2>1, <2>2, <2>3, Moved, AtWork
<1>3. CASE ActionEnds \/ GivesUp
  <2>1. action' = NoTask /\ actionState' = "idle"
    BY <1>3 DEF history, ActionEnds, GivesUp
  <2> QED
    BY <1>1, <2>1, NoTaskStands
<1> QED
  BY <1>2, <1>3 DEF Acts

LEMMA NextKeepsTasks == TasksInv /\ [Next]_vars => TasksInv'
<1> SUFFICES ASSUME TasksInv, [Next]_vars
             PROVE  TasksInv'
  OBVIOUS
<1>1. CASE Elsewhere \/ LateReport \/ UNCHANGED vars
  BY <1>1 DEF Elsewhere, LateReport, vars, screen, TasksInv, TasksStand,
              ActsWhenReady, OneTaskAtATime
<1> QED
  BY <1>1, NextIs, DispatcherKeepsTasks, LoadKeepsTasks, ActionKeepsTasks

(* The loading screen and the disabled buttons keep a load and an action   *)
(* apart in every state of the workspace.                                  *)
THEOREM TasksTakeTurns == Spec => []OneTaskAtATime
<1>1. TasksInv => OneTaskAtATime
  BY DEF TasksInv
<1> QED
  BY TasksInit, NextKeepsTasks, <1>1, PTL DEF Spec

-----------------------------------------------------------------------------
(* The newest of what is numbered.                                         *)

LEMMA Least ==
    ASSUME NEW T \in SUBSET Nat, T # {}
    PROVE  \E x \in T : \A y \in T : x <= y
<1>1. PICK x \in T : \A y \in T : ~ (<<y, x>> \in OpToRel(<, Nat))
  BY NatLessThanWellFounded, WFMin
<1>2. ASSUME NEW y \in T PROVE x <= y
  <2>1. ~ (<<y, x>> \in OpToRel(<, Nat))
    BY <1>1
  <2>2. y \in Nat /\ x \in Nat
    OBVIOUS
  <2>3. ~ (y < x)
    BY <2>1, <2>2 DEF OpToRel
  <2> QED
    BY <2>2, <2>3
<1> QED
  BY <1>2

LEMMA NewestIs ==
    ASSUME NEW n \in Nat, NEW S \in SUBSET (1..n)
    PROVE  /\ Newest(S) \in Nat
           /\ Newest(S) # 0 => Newest(S) \in S
           /\ \A m \in S : m <= Newest(S)
<1>1. CASE S = {}
  BY <1>1 DEF Newest
<1>2. CASE S # {}
  <2> DEFINE T == {n - m : m \in S}
  <2>1. T \in SUBSET Nat /\ T # {}
    <3>1. \A m \in S : n - m \in Nat
      <4> SUFFICES ASSUME NEW m \in S PROVE n - m \in Nat
        OBVIOUS
      <4>1. m \in Int /\ m <= n
        OBVIOUS
      <4> QED
        BY <4>1
    <3> QED
      BY <1>2, <3>1
  <2>2. PICK x \in T : \A y \in T : x <= y
    BY <2>1, Least
  <2>3. PICK k \in S : x = n - k
    BY <2>2
  <2>4. \A m \in S : m <= k
    <3> SUFFICES ASSUME NEW m \in S PROVE m <= k
      OBVIOUS
    <3>1. n - m \in T
      OBVIOUS
    <3>2. n - k <= n - m
      BY <2>2, <2>3, <3>1
    <3>3. k \in Nat /\ m \in Nat
      OBVIOUS
    <3> QED
      BY <3>2, <3>3
  <2>5. Newest(S) = CHOOSE m \in S : \A l \in S : l <= m
    BY <1>2 DEF Newest
  <2>6. Newest(S) \in S /\ \A l \in S : l <= Newest(S)
    BY <2>4, <2>5
  <2> HIDE DEF T
  <2>7. Newest(S) \in 1..n
    BY <2>6
  <2> QED
    BY <2>6, <2>7
<1> QED
  BY <1>1, <1>2

-----------------------------------------------------------------------------
(* The server only goes forward.                                           *)

(* An operation as the server holds it.                                    *)
OperationRecord ==
    [proposal : Nat, state : OperationStates, revision : Nat, receipted : BOOLEAN]

(* Proposals are of cases, and operations of proposals.                    *)
ServerTyped ==
    /\ made \in Seq(Cases)
    /\ approved \subseteq DOMAIN made
    /\ operations \in Seq(OperationRecord)
    /\ \A o \in DOMAIN operations : operations[o].proposal \in DOMAIN made

(* What the types say of one record.                                      *)
LEMMA RecordsTyped ==
    ASSUME ServerTyped
    PROVE  \A o \in DOMAIN operations :
             /\ o \in Nat \ {0}
             /\ operations[o] \in OperationRecord
             /\ operations[o].revision \in Nat
             /\ operations[o].proposal \in DOMAIN made
<1>1. \A o \in DOMAIN operations :
        o \in Nat \ {0} /\ operations[o] \in OperationRecord
  BY DEF ServerTyped
<1>2. \A rec \in OperationRecord : rec.revision \in Nat
  BY DEF OperationRecord
<1> QED
  BY <1>1, <1>2 DEF ServerTyped

(* What a case is read to have, from what the server has.                  *)
LEMMA LatestFacts ==
    ASSUME ServerTyped, NEW c
    PROVE  /\ LatestOperation(c) \in Nat
           /\ LatestOperation(c) # 0 => /\ LatestOperation(c) \in DOMAIN operations
                                        /\ CaseOfOperation(LatestOperation(c)) = c
           /\ \A o \in DOMAIN operations :
                CaseOfOperation(o) = c => o <= LatestOperation(c)
<1> DEFINE S == {o \in DOMAIN operations : CaseOfOperation(o) = c}
<1>1. Len(operations) \in Nat /\ S \in SUBSET (1..Len(operations))
  BY DEF ServerTyped
<1> QED
  BY <1>1, NewestIs DEF LatestOperation

LEMMA ActiveFacts ==
    ASSUME ServerTyped, NEW c
    PROVE  /\ ActiveProposal(c) \in Nat
           /\ ActiveProposal(c) # 0 => ActiveProposal(c) \in DOMAIN made
<1> DEFINE S == {p \in DOMAIN made : made[p] = c /\ p \notin expired}
<1>1. Len(made) \in Nat /\ S \in SUBSET (1..Len(made))
  BY DEF ServerTyped
<1> QED
  BY <1>1, NewestIs DEF ActiveProposal

(* Proposals and operations stay what they are of; revisions rise.         *)
ServerGrows ==
    /\ ServerTyped'
    /\ \A p \in DOMAIN made : p \in DOMAIN made' /\ made'[p] = made[p]
    /\ \A o \in DOMAIN operations :
         /\ o \in DOMAIN operations'
         /\ operations'[o].proposal = operations[o].proposal
         /\ operations[o].revision <= operations'[o].revision

LEMMA StandsStill ==
    ASSUME ServerTyped, UNCHANGED <<made, approved, operations>>
    PROVE  ServerGrows
  BY RecordsTyped DEF ServerTyped, ServerGrows

LEMMA PreparedGrows ==
    ASSUME ServerTyped, NEW c \in Cases, PrepareDecisionInputs(c)
    PROVE  ServerGrows
<1>1. made' = Append(made, c) /\ UNCHANGED <<approved, operations>>
  BY DEF PrepareDecisionInputs
<1>2. /\ made' \in Seq(Cases)
      /\ \A p \in DOMAIN made : p \in DOMAIN made' /\ made'[p] = made[p]
  BY <1>1 DEF ServerTyped
<1> QED
  BY <1>1, <1>2, RecordsTyped DEF ServerTyped, ServerGrows

LEMMA ApprovedGrows ==
    ASSUME ServerTyped, NEW p \in DOMAIN made, Approve(p)
    PROVE  ServerGrows
  BY RecordsTyped DEF Approve, ServerTyped, ServerGrows

LEMMA ReservedGrows ==
    ASSUME ServerTyped, NEW p, Reserve(p)
    PROVE  ServerGrows
<1> DEFINE new == [proposal |-> p, state |-> "reserved", revision |-> 0,
                   receipted |-> FALSE]
<1>1. p \in DOMAIN made /\ UNCHANGED <<made, approved>>
  BY DEF Reserve, ServerTyped
<1>2. new \in OperationRecord
  BY <1>1 DEF OperationRecord, OperationStates, ServerTyped
<1>3. CASE UNCHANGED operations
  BY <1>1, <1>3, StandsStill
<1>4. CASE operations' = Append(operations, new)
  <2>1. /\ operations' \in Seq(OperationRecord)
        /\ DOMAIN operations' = DOMAIN operations \cup {Len(operations) + 1}
        /\ operations'[Len(operations) + 1] = new
        /\ \A o \in DOMAIN operations : operations'[o] = operations[o]
    BY <1>2, <1>4 DEF ServerTyped
  <2>2. new.proposal = p
    OBVIOUS
  <2> HIDE DEF new
  <2> QED
    BY <1>1, <2>1, <2>2, RecordsTyped DEF ServerTyped, ServerGrows
<1> QED
  BY <1>3, <1>4 DEF Reserve

(* Another record in the place of an operation's.                          *)
LEMMA ReplacedGrows ==
    ASSUME ServerTyped, NEW o \in DOMAIN operations, NEW rec \in OperationRecord,
           operations' = [operations EXCEPT ![o] = rec],
           rec.proposal = operations[o].proposal,
           operations[o].revision <= rec.revision,
           UNCHANGED <<made, approved>>
    PROVE  ServerGrows
<1>1. operations' \in Seq(OperationRecord) /\ DOMAIN operations' = DOMAIN operations
  BY DEF ServerTyped
<1>2. /\ operations'[o] = rec
      /\ \A x \in DOMAIN operations \ {o} : operations'[x] = operations[x]
  BY DEF ServerTyped
<1>3. \A x \in DOMAIN operations : operations[x].revision \in Nat
  BY RecordsTyped
<1> QED
  BY <1>1, <1>2, <1>3 DEF ServerTyped, ServerGrows

(* The fields of a record that a transition, or a receipt, leaves alone.   *)
LEMMA RecordFields ==
    ASSUME NEW op \in OperationRecord, NEW to \in OperationStates
    PROVE  LET advanced  == [op EXCEPT !.state = to, !.revision = @ + 1]
               receipted == [op EXCEPT !.receipted = TRUE]
           IN  /\ advanced \in OperationRecord /\ receipted \in OperationRecord
               /\ advanced.proposal = op.proposal
               /\ receipted.proposal = op.proposal
               /\ op.revision <= advanced.revision
               /\ op.revision <= receipted.revision
<1> DEFINE at(r) == [op EXCEPT !.state = to, !.revision = r]
           receipted == [op EXCEPT !.receipted = TRUE]
<1>1. op.revision \in Nat /\ op.revision + 1 \in Nat
  BY DEF OperationRecord
<1>2. ASSUME NEW r \in Nat
      PROVE  /\ at(r) \in OperationRecord
             /\ at(r).proposal = op.proposal /\ at(r).revision = r
  BY DEF OperationRecord
<1>3. /\ receipted \in OperationRecord
      /\ receipted.proposal = op.proposal
      /\ receipted.revision = op.revision
  BY DEF OperationRecord
<1>4. at(op.revision + 1) = [op EXCEPT !.state = to, !.revision = @ + 1]
  OBVIOUS
<1> HIDE DEF at, receipted
<1>5. /\ at(op.revision + 1) \in OperationRecord
      /\ at(op.revision + 1).proposal = op.proposal
      /\ op.revision <= at(op.revision + 1).revision
      /\ op.revision <= receipted.revision
  BY <1>1, <1>2, <1>3
<1> QED
  BY <1>3, <1>4, <1>5 DEF receipted

LEMMA AdvancedGrows ==
    ASSUME ServerTyped, NEW o \in DOMAIN operations, NEW to \in OperationStates,
           Advance(o, to)
    PROVE  ServerGrows
<1>1. operations[o] \in OperationRecord
  BY DEF ServerTyped
<1>2. PICK rec : rec = [operations[o] EXCEPT !.state = to, !.revision = @ + 1]
  OBVIOUS
<1>3. /\ rec \in OperationRecord
      /\ rec.proposal = operations[o].proposal
      /\ operations[o].revision <= rec.revision
  BY <1>1, <1>2, RecordFields
<1>4. operations' = [operations EXCEPT ![o] = rec] /\ UNCHANGED <<made, approved>>
  BY <1>1, <1>2 DEF Advance
<1> QED
  BY <1>3, <1>4, ReplacedGrows

LEMMA ReceiptedGrows ==
    ASSUME ServerTyped, NEW o \in DOMAIN operations, IssueReceipt(o)
    PROVE  ServerGrows
<1>1. operations[o] \in OperationRecord
  BY DEF ServerTyped
<1>2. PICK rec : rec = [operations[o] EXCEPT !.receipted = TRUE]
  OBVIOUS
<1>3. /\ rec \in OperationRecord
      /\ rec.proposal = operations[o].proposal
      /\ operations[o].revision <= rec.revision
  <2>1. operations[o].state \in OperationStates
    BY <1>1 DEF OperationRecord
  <2> QED
    BY <1>1, <1>2, <2>1, RecordFields
<1>4. operations' = [operations EXCEPT ![o] = rec] /\ UNCHANGED <<made, approved>>
  BY <1>1, <1>2 DEF IssueReceipt
<1> QED
  BY <1>3, <1>4, ReplacedGrows

-----------------------------------------------------------------------------
(* What is read of a case never goes back.                                 *)

(* The view w of a case shows its operation as late as v does, or later.   *)
AtMost(v, w) ==
    \/ v.operation < w.operation
    \/ v.operation = w.operation /\ v.revision <= w.revision

(* An operation of the case c, among what the server has.                  *)
Names(o, c, ms, ops) == o \in DOMAIN ops /\ ms[ops[o].proposal] = c

(* A view that names what there is.                                        *)
Sound(v, ms, ops) ==
    /\ v.case \in Cases
    /\ v.operation \in Nat /\ v.revision \in Nat
    /\ v.proposal # 0 => v.proposal \in DOMAIN ms
    /\ v.operation # 0 => /\ Names(v.operation, v.case, ms, ops)
                          /\ v.revision <= ops[v.operation].revision
    /\ v.operation = 0 => v.revision = 0

(* What a route answers is as late as everything read of the case before.  *)
LEMMA ReadIsSound ==
    ASSUME ServerTyped, NEW c \in Cases
    PROVE  /\ operatorCaseView(c).case = c
           /\ Sound(operatorCaseView(c), made, operations)
           /\ \A v : Sound(v, made, operations) /\ v.case = c
                     => AtMost(v, operatorCaseView(c))
           /\ \A o : Names(o, c, made, operations)
                     => o <= operatorCaseView(c).operation
<1>1. /\ operatorCaseView(c).case = c
      /\ operatorCaseView(c).proposal = ActiveProposal(c)
      /\ operatorCaseView(c).operation = LatestOperation(c)
      /\ operatorCaseView(c).revision = IF LatestOperation(c) = 0 THEN 0
                                        ELSE operations[LatestOperation(c)].revision
  BY DEF operatorCaseView
<1>2. \A o \in DOMAIN operations :
        o \in Nat \ {0} /\ operations[o].revision \in Nat
  BY RecordsTyped
<1>3. Sound(operatorCaseView(c), made, operations)
  BY <1>1, <1>2, LatestFacts, ActiveFacts DEF Sound, Names, CaseOfOperation
<1>4. ASSUME NEW v, Sound(v, made, operations), v.case = c
      PROVE  AtMost(v, operatorCaseView(c))
  <2>1. v.operation <= LatestOperation(c)
    BY <1>4, LatestFacts DEF Sound, Names, CaseOfOperation
  <2>2. v.operation \in Nat /\ LatestOperation(c) \in Nat
    BY <1>4, LatestFacts DEF Sound
  <2>3. CASE v.operation = LatestOperation(c)
    BY <1>1, <1>4, <2>3 DEF Sound, AtMost
  <2>4. CASE v.operation < LatestOperation(c)
    BY <1>1, <2>4 DEF AtMost
  <2> QED
    BY <2>1, <2>2, <2>3, <2>4
<1> QED
  BY <1>1, <1>3, <1>4, LatestFacts DEF Names, CaseOfOperation

LEMMA NamesStay ==
    ASSUME ServerTyped, ServerGrows, NEW o, NEW c, Names(o, c, made, operations)
    PROVE  Names(o, c, made', operations')
  BY RecordsTyped DEF Names, ServerGrows

LEMMA SoundStays ==
    ASSUME ServerTyped, ServerGrows, NEW v, Sound(v, made, operations)
    PROVE  Sound(v, made', operations')
<1>1. v.operation # 0 =>
        /\ Names(v.operation, v.case, made', operations')
        /\ operations[v.operation].revision \in Nat
        /\ operations[v.operation].revision <= operations'[v.operation].revision
  BY NamesStay, RecordsTyped DEF Sound, Names, ServerGrows
<1>2. \A o \in DOMAIN operations' : operations'[o].revision \in Nat
  <2>1. \A o \in DOMAIN operations' : operations'[o] \in OperationRecord
    BY DEF ServerGrows, ServerTyped
  <2>2. \A rec \in OperationRecord : rec.revision \in Nat
    BY DEF OperationRecord
  <2> QED
    BY <2>1, <2>2
<1> QED
  BY <1>1, <1>2 DEF Sound, Names, ServerGrows

-----------------------------------------------------------------------------
(* What a task under way knows of the case it is about, v being the view   *)
(* on the screen.                                                          *)

(* A task has the fields of one.                                           *)
Shaped(t) ==
    DOMAIN t = {"pc", "kind", "case", "target", "access", "answer", "receipt"}

(* An answer to put on the screen: of the task's case, and not behind v.   *)
Answers(t, v, ms, ops) ==
    /\ Sound(t.answer, ms, ops)
    /\ t.answer.case = t.case
    /\ v # None /\ v.case = t.case => AtMost(v, t.answer)

(* A receipt to print beside the answer w.                                 *)
Beside(r, w) ==
    /\ r.case = w.case
    /\ r.operation \in Nat /\ r.operation <= w.operation

(* A load under way.                                                       *)
LoadKnows(t, v, ms, ops) ==
    /\ Shaped(t) /\ t.case \in Cases
    /\ t.pc \in {"read", "receipt", "recording", "receipted"}
         => Answers(t, v, ms, ops)
    /\ t.pc \in {"receipt", "recording"} => Names(t.target, t.case, ms, ops)
    /\ t.pc = "recording" => t.target <= t.answer.operation
    /\ t.pc = "receipted" => Beside(t.receipt, t.answer)

(* An action under way: what it names is there, and of its case, which is  *)
(* the case on the screen; its answer is not behind the screen.            *)
ActionKnows(t, v, ms, ops) ==
    /\ Shaped(t) /\ t.case \in Cases
    /\ t.kind \in {"approve", "reserve"} => t.target \in DOMAIN ms
    /\ t.kind \in {"dispatch", "reconcile", "view_receipt"}
         => Names(t.target, t.case, ms, ops)
    /\ t.pc = "reserving" => t.kind \in {"approve", "reserve"}
    /\ t.pc = "sending" => t.kind = "dispatch"
    /\ t.pc = "recording" => t.kind \in {"reconcile", "view_receipt"}
    /\ t # NoTask => /\ Sound(v, ms, ops) /\ v.case = t.case
                     /\ v # None \/ t.pc = "listing"
    /\ t.pc = "answered" => Answers(t, v, ms, ops)
    /\ t.pc = "recording" /\ t.kind = "view_receipt"
         => Answers(t, v, ms, ops) /\ t.target <= t.answer.operation
    /\ t.receipt # None => /\ t.receipt.case = t.case
                           /\ Names(t.receipt.operation, t.case, ms, ops)
    /\ t.pc = "answered" /\ t.receipt # None => Beside(t.receipt, t.answer)
    /\ t.pc = "listing" /\ t.receipt # None => Beside(t.receipt, v)

(* The receipt on the screen fits the case on the screen.                  *)
ReceiptFits == loadState = "ready" /\ receipt # None => Beside(receipt, caseView)

(* All of it: the inductive invariant.                                     *)
ViewInv ==
    /\ TasksInv /\ ServerTyped
    /\ caseView # None => Sound(caseView, made, operations)
    /\ ReceiptFits
    /\ LoadKnows(load, caseView, made, operations)
    /\ ActionKnows(action, caseView, made, operations)

-----------------------------------------------------------------------------
LEMMA NoTaskKnows ==
    ASSUME NEW v, NEW ms, NEW ops
    PROVE  LoadKnows(NoTask, v, ms, ops) /\ ActionKnows(NoTask, v, ms, ops)
<1>1. /\ Shaped(NoTask) /\ NoTask.case \in Cases /\ NoTask.pc = "idle"
      /\ NoTask.kind = "none" /\ NoTask.receipt = None
  BY WorkspaceAssumption DEF NoTask, Shaped
<1> QED
  BY <1>1 DEF LoadKnows, ActionKnows

LEMMA LoadingKnows ==
    ASSUME NEW c \in Cases, NEW v, NEW ms, NEW ops
    PROVE  LoadKnows(Loading(c), v, ms, ops)
<1>1. Shaped(Loading(c)) /\ Loading(c).case = c /\ Loading(c).pc = "session"
  BY DEF NoTask, Loading, Shaped
<1> QED
  BY <1>1 DEF LoadKnows

LEMMA ServerGrowsOn ==
    ASSUME ServerTyped, ServerGrows, NEW t, NEW v
    PROVE  /\ LoadKnows(t, v, made, operations)
                => LoadKnows(t, v, made', operations')
           /\ ActionKnows(t, v, made, operations)
                => ActionKnows(t, v, made', operations')
<1>1. \A w : Sound(w, made, operations) => Sound(w, made', operations')
  BY SoundStays
<1>2. \A o, c : Names(o, c, made, operations) => Names(o, c, made', operations')
  BY NamesStay
<1>3. \A p \in DOMAIN made : p \in DOMAIN made'
  BY DEF ServerGrows
<1>4. Answers(t, v, made, operations) => Answers(t, v, made', operations')
  BY <1>1 DEF Answers
<1>5. LoadKnows(t, v, made, operations)
        => LoadKnows(t, v, made', operations')
  BY <1>1, <1>2, <1>4 DEF LoadKnows
<1>6. ActionKnows(t, v, made, operations)
        => ActionKnows(t, v, made', operations')
  BY <1>1, <1>2, <1>3, <1>4 DEF ActionKnows
<1> QED
  BY <1>5, <1>6

(* The server may have grown while the browser got to know more.           *)
LEMMA GrownInv ==
    ASSUME ServerTyped, ServerGrows, TasksInv',
           caseView' # None => Sound(caseView', made, operations),
           ReceiptFits',
           LoadKnows(load', caseView', made, operations),
           ActionKnows(action', caseView', made, operations)
    PROVE  ViewInv'
<1>1. ServerTyped'
  BY DEF ServerGrows
<1>2. caseView' # None => Sound(caseView', made', operations')
  BY SoundStays
<1>3. LoadKnows(load', caseView', made', operations')
  BY ServerGrowsOn
<1>4. ActionKnows(action', caseView', made', operations')
  BY ServerGrowsOn
<1> QED
  BY <1>1, <1>2, <1>3, <1>4 DEF ViewInv

LEMMA InitKnows == Init => ViewInv
<1> SUFFICES ASSUME Init PROVE ViewInv
  OBVIOUS
<1>1. ServerTyped
  BY DEF Init, ServerTyped
<1>2. Home \in Cases
  BY WorkspaceAssumption
<1>3. /\ LoadKnows(load, caseView, made, operations)
      /\ ActionKnows(action, caseView, made, operations)
  BY <1>2, LoadingKnows, NoTaskKnows DEF Init
<1>4. caseView = None /\ receipt = None
  BY DEF Init
<1> QED
  BY <1>1, <1>3, <1>4, TasksInit DEF ViewInv, ReceiptFits

LEMMA ElsewhereKnows == ViewInv /\ Elsewhere => ViewInv'
<1> SUFFICES ASSUME ViewInv, Elsewhere PROVE ViewInv'
  OBVIOUS
<1>1. ServerTyped
  BY DEF ViewInv
<1>2. ServerGrows
  <2>1. ASSUME NEW p \in DOMAIN made, Reserve(p) PROVE ServerGrows
    BY <1>1, <2>1, ReservedGrows
  <2>2. ASSUME NEW p \in DOMAIN made, Expire(p) PROVE ServerGrows
    BY <1>1, <2>2, StandsStill DEF Expire
  <2> QED
    BY <1>1, <2>1, <2>2, PreparedGrows, ApprovedGrows, AdvancedGrows,
       ReceiptedGrows DEF Elsewhere
<1>3. UNCHANGED <<loadState, actionState, caseView, receipt, load, action>>
  BY DEF Elsewhere, screen
<1>4. TasksInv'
  BY NextKeepsTasks DEF Next, ViewInv
<1>5. ReceiptFits'
  BY <1>3 DEF ReceiptFits, ViewInv
<1> QED
  BY <1>1, <1>2, <1>3, <1>4, <1>5, GrownInv DEF ViewInv

-----------------------------------------------------------------------------
(* The action on offer names what the view shows.                          *)
LEMMA OfferedIsNamed ==
    ASSUME NEW v, NEW ms, NEW ops, Sound(v, ms, ops),
           nextOperatorAction(v) # None
    PROVE  /\ nextOperatorAction(v) \in {"approve", "reserve"}
                => v.proposal \in DOMAIN ms
           /\ nextOperatorAction(v) \in {"dispatch", "reconcile", "view_receipt"}
                => Names(v.operation, v.case, ms, ops)
<1>1. nextOperatorAction(v) = nextAction(v)
  BY DEF nextOperatorAction
<1>2. nextAction(v) \in {"approve", "reserve"} => v.proposal # 0
  BY DEF nextAction
<1>3. nextAction(v) \in {"dispatch", "reconcile", "view_receipt"}
        => v.operation # 0
  BY DEF nextAction
<1> QED
  BY <1>1, <1>2, <1>3 DEF Sound

LEMMA BeginKnows ==
    ASSUME ViewInv, TasksInv', caseView # None,
           NEW kind, NEW target, NEW access, Begin(kind, target, access),
           UNCHANGED <<made, approved, operations>>,
           kind \in {"approve", "reserve"} => target \in DOMAIN made,
           kind \in {"dispatch", "reconcile", "view_receipt"}
             => Names(target, caseView.case, made, operations)
    PROVE  ViewInv'
<1>1. ServerTyped /\ Sound(caseView, made, operations)
  BY DEF ViewInv
<1>2. ServerGrows
  BY <1>1, StandsStill
<1>3. UNCHANGED <<loadState, caseView, receipt, load>>
  BY DEF history, Begin
<1>4. /\ Shaped(action') /\ action'.pc = "sent" /\ action'.kind = kind
      /\ action'.case = caseView.case /\ action'.target = target
      /\ action'.receipt = None
  BY DEF history, Begin, NoTask, Shaped
<1>5. ActionKnows(action', caseView', made, operations)
  BY <1>1, <1>3, <1>4 DEF ActionKnows, Sound
<1>6. ReceiptFits'
  BY <1>3 DEF ViewInv, ReceiptFits
<1> QED
  BY <1>1, <1>2, <1>3, <1>5, <1>6, GrownInv DEF ViewInv

LEMMA DispatcherKnows == ViewInv /\ Dispatcher => ViewInv'
<1> SUFFICES ASSUME ViewInv, Dispatcher PROVE ViewInv'
  OBVIOUS
<1>1. ServerTyped /\ TasksInv'
  BY DispatcherKeepsTasks DEF ViewInv
<1>2. CASE RunAction
  <2> DEFINE kind == nextOperatorAction(caseView)
             target == CASE kind = "prepare"              -> 0
                         [] kind \in {"approve", "reserve"} -> caseView.proposal
                         [] OTHER                         -> caseView.operation
  <2>1. /\ caseView # None /\ kind # None
        /\ Begin(kind, target, "unrecorded")
    BY <1>2 DEF RunAction
  <2>2. UNCHANGED <<made, approved, operations>>
    BY <2>1 DEF history, Begin, server
  <2>3. /\ kind \in {"approve", "reserve"} => target \in DOMAIN made
        /\ kind \in {"dispatch", "reconcile", "view_receipt"}
             => Names(target, caseView.case, made, operations)
    BY <2>1, OfferedIsNamed DEF ViewInv
  <2> HIDE DEF kind, target
  <2> QED
    BY <1>1, <2>1, <2>2, <2>3, BeginKnows
<1>3. CASE \E access \in Reports : UpdateAccess(access)
  <2>1. PICK access \in Reports : UpdateAccess(access)
    BY <1>3
  <2>2. caseView # None /\ Begin("evidence", 0, access)
    BY <2>1 DEF UpdateAccess
  <2>3. UNCHANGED <<made, approved, operations>>
    BY <2>2 DEF history, Begin, server
  <2> QED
    BY <1>1, <2>2, <2>3, BeginKnows
<1>4. CASE (\E c \in Cases : ChooseCase(c)) \/ Retry
  <2>1. PICK c \in Cases : loadWorkspace(c)
    BY <1>4, WorkspaceAssumption DEF ChooseCase, Retry
  <2>2. /\ load' = Loading(c) /\ loadState' = "loading"
        /\ UNCHANGED <<made, approved, operations, caseView, action>>
    BY <2>1 DEF history, loadWorkspace, server
  <2>3. ServerGrows
    BY <1>1, <2>2, StandsStill
  <2>4. ReceiptFits'
    BY <2>2 DEF ReceiptFits
  <2> QED
    BY <1>1, <2>2, <2>3, <2>4, LoadingKnows, GrownInv DEF ViewInv
<1> QED
  BY <1>2, <1>3, <1>4 DEF Dispatcher

-----------------------------------------------------------------------------
(* The steps of a load. Nothing works meanwhile.                           *)
LEMMA LoadKeepsTo ==
    ASSUME ViewInv, LoadStep
    PROVE  /\ TasksInv' /\ ServerTyped /\ Shaped(load)
           /\ load # NoTask /\ action = NoTask /\ loadState = "loading"
           /\ LoadKnows(load, caseView, made, operations)
           /\ UNCHANGED <<made, approved, action>>
<1>1. load # NoTask
  BY NoTaskStands
     DEF LoadStep, SessionStarted, CaseRead, CaseShown, LoadReadsReceipt,
         ReceiptShown, LoadFails, NoTask
<1>2. UNCHANGED <<made, approved, action>>
  BY DEF LoadStep, SessionStarted, CaseRead, CaseShown, LoadReadsReceipt,
         ReceiptShown, LoadFails, server, IssueReceipt
<1> QED
  BY <1>1, <1>2, LoadKeepsTasks
     DEF ViewInv, TasksInv, OneTaskAtATime, LoadKnows

LEMMA AtMostSelf ==
    ASSUME NEW v, NEW ms, NEW ops, Sound(v, ms, ops)
    PROVE  AtMost(v, v)
BY DEF Sound, AtMost

LEMMA LoadStepKnows == ViewInv /\ LoadStep => ViewInv'
<1> SUFFICES ASSUME ViewInv, LoadStep PROVE ViewInv'
  OBVIOUS
<1>1. /\ TasksInv' /\ ServerTyped /\ Shaped(load)
      /\ load # NoTask /\ action = NoTask /\ loadState = "loading"
      /\ LoadKnows(load, caseView, made, operations)
      /\ UNCHANGED <<made, approved, action>>
  BY LoadKeepsTo
<1>2. \A v : ActionKnows(action', v, made, operations)
  BY <1>1, NoTaskKnows
<1>3. caseView # None => Sound(caseView, made, operations)
  BY DEF ViewInv
(* The server may have written a receipt; the rest is the browser's.       *)
<1>4. ASSUME ServerGrows, ReceiptFits',
             caseView' # None => Sound(caseView', made, operations),
             LoadKnows(load', caseView', made, operations)
      PROVE  ViewInv'
  BY <1>1, <1>2, <1>4, GrownInv
<1>5. ASSUME UNCHANGED operations PROVE ServerGrows
  BY <1>1, <1>5, StandsStill
<1>6. load.case \in Cases
  BY <1>1 DEF LoadKnows
<1> DEFINE read == operatorCaseView(load.case)
<1>7. /\ Sound(read, made, operations) /\ read.case = load.case
      /\ caseView # None /\ caseView.case = load.case => AtMost(caseView, read)
      /\ \A o : Names(o, load.case, made, operations) => o <= read.operation
  BY <1>3, <1>6, <1>1, ReadIsSound
<1> HIDE DEF read
<1>8. CASE SessionStarted
  <2>1. /\ Shaped(load') /\ load'.pc = "case" /\ load'.case = load.case
        /\ UNCHANGED <<operations, caseView, loadState>>
    BY <1>1, <1>8 DEF history, SessionStarted, Shaped, server, screen
  <2>2. LoadKnows(load', caseView', made, operations)
    BY <1>6, <2>1 DEF LoadKnows
  <2> QED
    BY <1>1, <1>3, <1>4, <1>5, <2>1, <2>2 DEF ReceiptFits
<1>9. CASE CaseRead
  <2>1. /\ Shaped(load') /\ load'.pc = "read" /\ load'.case = load.case
        /\ load'.answer = read
        /\ UNCHANGED <<operations, caseView, loadState>>
    BY <1>1, <1>9 DEF CaseRead, Shaped, server, screen, read
  <2>2. LoadKnows(load', caseView', made, operations)
    BY <1>6, <1>7, <2>1 DEF LoadKnows, Answers
  <2> QED
    BY <1>1, <1>3, <1>4, <1>5, <2>1, <2>2 DEF ReceiptFits
<1>10. CASE CaseShown
  <2>1. /\ Sound(load.answer, made, operations) /\ load.answer.case = load.case
        /\ caseView' = load.answer /\ UNCHANGED operations
    BY <1>1, <1>10 DEF history, CaseShown, LoadKnows, Answers, server
  <2>2. CASE load' = NoTask
    <3>1. receipt' = None
      BY <1>10, <2>2, NoTaskStands, <1>1 DEF history, CaseShown, NoTask
    <3> QED
      BY <1>4, <1>5, <2>1, <2>2, <3>1, NoTaskKnows DEF ReceiptFits
  <2>3. CASE load' # NoTask
    <3>1. /\ load' = [load EXCEPT !.pc = "receipt",
                                  !.target = load.answer.operation]
          /\ load.answer.operation # 0 /\ loadState' = loadState
      BY <1>10, <2>3 DEF history, CaseShown
    <3>2. /\ Shaped(load') /\ load'.pc = "receipt" /\ load'.case = load.case
          /\ load'.answer = load.answer /\ load'.target = load.answer.operation
      BY <1>1, <3>1 DEF Shaped
    <3>3. LoadKnows(load', caseView', made, operations)
      BY <1>6, <2>1, <3>1, <3>2, AtMostSelf DEF LoadKnows, Answers, Sound
    <3> QED
      BY <1>1, <1>4, <1>5, <2>1, <3>1, <3>3 DEF ReceiptFits
  <2> QED
    BY <2>2, <2>3
<1>11. CASE LoadReadsReceipt /\ load.pc = "receipt"
  <2>1. /\ Shaped(load') /\ load'.pc = "recording" /\ load'.case = load.case
        /\ load'.answer = read /\ load'.target = load.target
        /\ UNCHANGED <<operations, caseView, loadState>>
    BY <1>1, <1>11 DEF history, LoadReadsReceipt, Shaped, server, screen, read
  <2>2. LoadKnows(load', caseView', made, operations)
    BY <1>1, <1>6, <1>7, <1>11, <2>1 DEF LoadKnows, Answers
  <2> QED
    BY <1>1, <1>3, <1>4, <1>5, <2>1, <2>2 DEF ReceiptFits
<1>12. CASE LoadReadsReceipt /\ load.pc = "recording"
  <2>1. /\ Shaped(load') /\ load'.pc = "receipted" /\ load'.case = load.case
        /\ load'.answer = load.answer /\ load'.receipt = ReceiptOf(load.target)
        /\ UNCHANGED <<caseView, loadState>> /\ IssueReceipt(load.target)
    BY <1>1, <1>12 DEF history, LoadReadsReceipt, Shaped, screen
  <2>2. /\ Names(load.target, load.case, made, operations)
        /\ load.target <= load.answer.operation
        /\ Answers(load, caseView, made, operations)
    BY <1>1, <1>12 DEF LoadKnows
  <2>3. ServerGrows
    BY <1>1, <2>1, <2>2, ReceiptedGrows DEF Names
  <2>4. Beside(load'.receipt, load'.answer)
    <3>1. load'.receipt.case = load.case /\ load'.receipt.operation = load.target
      BY <2>1, <2>2 DEF ReceiptOf, CaseOfOperation, Names
    <3> QED
      BY <1>1, <2>1, <2>2, <3>1, RecordsTyped DEF Beside, Answers, Names
  <2>5. LoadKnows(load', caseView', made, operations)
    BY <1>6, <2>1, <2>2, <2>4 DEF LoadKnows, Answers
  <2> QED
    BY <1>1, <1>3, <1>4, <2>1, <2>3, <2>5 DEF ReceiptFits
<1>13. CASE ReceiptShown
  <2>1. /\ caseView' = load.answer /\ receipt' = load.receipt
        /\ load' = NoTask /\ UNCHANGED operations
    BY <1>13 DEF history, ReceiptShown, server
  <2>2. Sound(load.answer, made, operations) /\ Beside(load.receipt, load.answer)
    BY <1>1, <1>13 DEF history, ReceiptShown, LoadKnows, Answers
  <2> QED
    BY <1>4, <1>5, <2>1, <2>2, NoTaskKnows DEF ReceiptFits
<1>14. CASE LoadFails
  <2>1. loadState' = "error" /\ load' = NoTask /\ UNCHANGED <<operations, caseView>>
    BY <1>14 DEF LoadFails, server
  <2> QED
    BY <1>3, <1>4, <1>5, <2>1, NoTaskKnows DEF ReceiptFits
<1>15. LoadReadsReceipt => load.pc = "receipt" \/ load.pc = "recording"
  BY DEF history, LoadReadsReceipt
<1> QED
  BY <1>8, <1>9, <1>10, <1>11, <1>12, <1>13, <1>14, <1>15 DEF LoadStep

-----------------------------------------------------------------------------
(* The steps of an action. Nothing loads meanwhile.                        *)
LEMMA ActionKeepsTo ==
    ASSUME ViewInv, Acts
    PROVE  /\ TasksInv' /\ ServerTyped /\ Shaped(action)
           /\ action # NoTask /\ load = NoTask /\ load' = NoTask
           /\ loadState = "ready" /\ loadState' = loadState
           /\ ActionKnows(action, caseView, made, operations)
<1>1. action # NoTask
  BY NoTaskStands
     DEF Acts, RouteStep, PassesGuard, PalRuns, ApprovesProposal,
         FindsApproval, Reserves, Claims, Sends, Reconciles, RecordsReceipt,
         CaseAnswered, ActionShown, ActionEnds, GivesUp, Asked, NoTask
<1>2. load' = load /\ loadState' = loadState
  BY DEF Acts, RouteStep, PassesGuard, PalRuns, ApprovesProposal,
         FindsApproval, Reserves, Claims, Sends, Reconciles, RecordsReceipt,
         CaseAnswered, ActionShown, ActionEnds, GivesUp, screen
<1>3. load = NoTask /\ loadState = "ready"
  BY <1>1 DEF ViewInv, TasksInv, ActsWhenReady, OneTaskAtATime
<1> QED
  BY <1>1, <1>2, <1>3, ActionKeepsTasks DEF ViewInv, ActionKnows

(* A step of a route leaves the screen alone. What is left to see is what  *)
(* the action knows then.                                                  *)
LEMMA RouteKnows ==
    ASSUME ViewInv, Acts, ServerGrows,
           UNCHANGED <<caseView, receipt>>,
           ActionKnows(action', caseView, made, operations)
    PROVE  ViewInv'
<1>1. ReceiptFits'
  BY ActionKeepsTo DEF ViewInv, ReceiptFits
<1> QED
  BY <1>1, ActionKeepsTo, NoTaskKnows, GrownInv DEF ViewInv

(* An action that goes on to another place in its route.                   *)
LEMMA GoesKnows ==
    ASSUME ActionKnows(action, caseView, made, operations), action # NoTask,
           NEW pc \in {"running", "reading", "reserving", "sending", "refused",
                       "recording"},
           pc = "reserving" => action.kind \in {"approve", "reserve"},
           pc = "sending" => action.kind = "dispatch",
           pc = "recording" => action.kind = "reconcile",
           action.pc # "listing",
           Shaped(action'), action'.pc = pc, action'.kind = action.kind,
           action'.case = action.case, action'.target = action.target,
           \/ action'.receipt = action.receipt
           \/ /\ action'.receipt = ReceiptOf(action.target)
              /\ Names(action.target, action.case, made, operations)
    PROVE  ActionKnows(action', caseView, made, operations)
<1>1. action'.receipt # None =>
        /\ action'.receipt.case = action.case
        /\ Names(action'.receipt.operation, action.case, made, operations)
  BY DEF ActionKnows, ReceiptOf, CaseOfOperation, Names
<1> QED
  BY <1>1 DEF ActionKnows

LEMMA ShapedMoves ==
    ASSUME Shaped(action), NEW pc, Goes(pc)
    PROVE  /\ Shaped(action') /\ action'.pc = pc /\ action'.kind = action.kind
           /\ action'.case = action.case /\ action'.target = action.target
           /\ action'.receipt = action.receipt /\ action'.answer = action.answer
BY DEF Shaped, Goes

LEMMA RouteStepKnows == ViewInv /\ RouteStep => ViewInv'
<1> SUFFICES ASSUME ViewInv, RouteStep PROVE ViewInv'
  OBVIOUS
<1>1. /\ Acts /\ TasksInv' /\ ServerTyped /\ Shaped(action)
      /\ action # NoTask
      /\ ActionKnows(action, caseView, made, operations)
  BY ActionKeepsTo DEF Acts
<1>2. UNCHANGED <<caseView, receipt>>
  BY DEF RouteStep, PassesGuard, PalRuns, ApprovesProposal, FindsApproval,
         Reserves, Claims, Sends, Reconciles, RecordsReceipt, CaseAnswered,
         screen
<1>3. ASSUME ServerGrows, ActionKnows(action', caseView, made, operations)
      PROVE  ViewInv'
  BY <1>1, <1>2, <1>3, RouteKnows
<1>4. ASSUME UNCHANGED server PROVE ServerGrows
  BY <1>1, <1>4, StandsStill DEF server
<1>5. action.case \in Cases
  BY <1>1 DEF ActionKnows
<1>6. action.kind \in {"dispatch", "reconcile", "view_receipt"}
        => Names(action.target, action.case, made, operations)
  BY <1>1 DEF ActionKnows
<1>7. CASE PassesGuard
  <2>1. /\ action.pc = "sent" /\ UNCHANGED server /\ Shaped(action')
        /\ action'.pc = "running" /\ action'.kind = action.kind
        /\ action'.case = action.case /\ action'.target = action.target
        /\ action'.receipt = action.receipt
    BY <1>1, <1>7 DEF history, PassesGuard, Asked, Shaped
  <2>2. ActionKnows(action', caseView, made, operations)
    BY <1>1, <2>1, GoesKnows
  <2> QED
    BY <1>3, <1>4, <2>1, <2>2
<1>8. CASE PalRuns
  <2>1. action.pc = "running" /\ Goes("reading")
    BY <1>8 DEF history, PalRuns
  <2>2. ActionKnows(action', caseView, made, operations)
    BY <1>1, <2>1, ShapedMoves, GoesKnows
  <2>3. ServerGrows
    BY <1>1, <1>4, <1>5, <1>8, PreparedGrows DEF history, PalRuns
  <2> QED
    BY <1>3, <2>2, <2>3
<1>9. CASE ApprovesProposal
  <2>1. action.kind = "approve" /\ action.pc = "sent" /\ Goes("reserving")
    BY <1>9 DEF history, ApprovesProposal, Asked
  <2>2. ActionKnows(action', caseView, made, operations)
    BY <1>1, <2>1, ShapedMoves, GoesKnows
  <2>3. action.target \in DOMAIN made /\ Approve(action.target)
    BY <1>1, <1>9, <2>1 DEF ActionKnows, ApprovesProposal
  <2> QED
    BY <1>1, <1>3, <2>2, <2>3, ApprovedGrows
<1>10. CASE FindsApproval
  <2>1. /\ action.kind = "reserve" /\ action.pc = "sent" /\ Goes("reserving")
        /\ UNCHANGED server
    BY <1>10 DEF history, FindsApproval, Asked
  <2>2. ActionKnows(action', caseView, made, operations)
    BY <1>1, <2>1, ShapedMoves, GoesKnows
  <2> QED
    BY <1>3, <1>4, <2>1, <2>2
<1>11. CASE Reserves
  <2>1. action.pc = "reserving" /\ Goes("reading") /\ Reserve(action.target)
    BY <1>11 DEF history, Reserves
  <2>2. ActionKnows(action', caseView, made, operations)
    BY <1>1, <2>1, ShapedMoves, GoesKnows
  <2> QED
    BY <1>1, <1>3, <2>1, <2>2, ReservedGrows
<1>12. CASE Claims
  <2>1. /\ action.kind = "dispatch" /\ action.pc = "sent"
        /\ \/ Advance(action.target, "sending") /\ Goes("sending")
           \/ Advance(action.target, "cancelled") /\ Goes("refused")
    BY <1>12 DEF history, Claims, Asked
  <2>2. ActionKnows(action', caseView, made, operations)
    BY <1>1, <2>1, ShapedMoves, GoesKnows
  <2>3. action.target \in DOMAIN operations
    BY <1>6, <2>1 DEF Names
  <2>4. ServerGrows
    BY <1>1, <2>1, <2>3, AdvancedGrows DEF OperationStates
  <2> QED
    BY <1>3, <2>2, <2>4
<1>13. CASE Sends
  <2>1. /\ action.pc = "sending" /\ action.kind = "dispatch"
        /\ Goes("reading") \/ Goes("refused")
        /\ \E to \in {"accepted", "failed", "unknown"} :
             Advance(action.target, to)
    BY <1>1, <1>13 DEF history, Sends, ActionKnows
  <2>2. ActionKnows(action', caseView, made, operations)
    BY <1>1, <2>1, ShapedMoves, GoesKnows
  <2>3. action.target \in DOMAIN operations
    BY <1>6, <2>1 DEF Names
  <2>4. ServerGrows
    BY <1>1, <2>1, <2>3, AdvancedGrows DEF OperationStates
  <2> QED
    BY <1>3, <2>2, <2>4
<1>14. CASE Reconciles
  <2>1. /\ action.kind = "reconcile" /\ action.pc = "sent" /\ Goes("recording")
        /\ Advance(action.target, "assignment_reconciled") \/ UNCHANGED server
    BY <1>14 DEF history, Reconciles, Asked
  <2>2. ActionKnows(action', caseView, made, operations)
    BY <1>1, <2>1, ShapedMoves, GoesKnows
  <2>3. action.target \in DOMAIN operations
    BY <1>6, <2>1 DEF Names
  <2>4. ServerGrows
    BY <1>1, <1>4, <2>1, <2>3, AdvancedGrows DEF OperationStates
  <2> QED
    BY <1>3, <2>2, <2>4
<1>15. CASE RecordsReceipt
  <2>1. /\ action.pc = "recording" /\ action.kind \in {"reconcile", "view_receipt"}
        /\ IssueReceipt(action.target)
        /\ Names(action.target, action.case, made, operations)
    BY <1>1, <1>15 DEF history, RecordsReceipt, ActionKnows
  <2>2. ServerGrows
    BY <1>1, <2>1, ReceiptedGrows DEF Names
  <2>3. /\ Shaped(action') /\ action'.kind = action.kind
        /\ action'.pc = IF action.kind = "reconcile" THEN "reading" ELSE "answered"
        /\ action'.case = action.case /\ action'.target = action.target
        /\ action'.answer = action.answer
        /\ action'.receipt = ReceiptOf(action.target)
    BY <1>1, <1>15 DEF history, RecordsReceipt, Shaped
  <2>4. CASE action.kind = "reconcile"
    BY <1>1, <1>3, <2>1, <2>2, <2>3, <2>4, GoesKnows
  <2>5. CASE action.kind = "view_receipt"
    <3>1. /\ Answers(action, caseView, made, operations)
          /\ action.target <= action.answer.operation
      BY <1>1, <2>1, <2>5 DEF ActionKnows
    <3>2. /\ action'.receipt.case = action.case
          /\ action'.receipt.operation = action.target
      BY <2>1, <2>3 DEF ReceiptOf, CaseOfOperation, Names
    <3>3. Beside(action'.receipt, action'.answer)
      BY <1>1, <2>1, <2>3, <3>1, <3>2, RecordsTyped DEF Beside, Answers, Names
    <3>4. Answers(action', caseView, made, operations)
      BY <2>3, <3>1 DEF Answers
    <3>5. ActionKnows(action', caseView, made, operations)
      BY <1>1, <2>1, <2>3, <2>5, <3>2, <3>3, <3>4 DEF ActionKnows
    <3> QED
      BY <1>3, <2>2, <3>5
  <2> QED
    BY <2>1, <2>4, <2>5
<1>16. CASE CaseAnswered
  <2> DEFINE read == operatorCaseView(action.case)
  <2>1. /\ UNCHANGED server /\ Shaped(action') /\ action'.kind = action.kind
        /\ action'.pc = IF action.kind = "view_receipt" THEN "recording"
                                                       ELSE "answered"
        /\ action'.case = action.case /\ action'.target = action.target
        /\ action'.answer = read /\ action'.receipt = action.receipt
        /\ action.pc # "listing"
    BY <1>1, <1>16 DEF CaseAnswered, Shaped, Asked
  <2>2. /\ Sound(read, made, operations) /\ read.case = action.case
        /\ caseView # None /\ caseView.case = action.case => AtMost(caseView, read)
        /\ \A o : Names(o, action.case, made, operations) => o <= read.operation
    BY <1>1, <1>5, ReadIsSound DEF ViewInv
  <2> HIDE DEF read
  <2>3. Answers(action', caseView, made, operations)
    BY <2>1, <2>2 DEF Answers
  <2>4. action.receipt # None => Beside(action.receipt, read)
    BY <1>1, <2>2, RecordsTyped DEF ActionKnows, Beside, Names
  <2>5. action.kind = "view_receipt" => action.target <= read.operation
    BY <1>6, <2>2
  <2>6. ActionKnows(action', caseView, made, operations)
    BY <1>1, <2>1, <2>3, <2>4, <2>5 DEF ActionKnows
  <2> QED
    BY <1>3, <1>4, <2>1, <2>6
<1> QED
  BY <1>7, <1>8, <1>9, <1>10, <1>11, <1>12, <1>13, <1>14, <1>15, <1>16
     DEF RouteStep

LEMMA ActionStepKnows == ViewInv /\ Acts => ViewInv'
<1> SUFFICES ASSUME ViewInv, Acts PROVE ViewInv'
  OBVIOUS
<1>1. /\ TasksInv' /\ ServerTyped /\ Shaped(action)
      /\ action # NoTask /\ load' = NoTask /\ loadState = "ready"
      /\ loadState' = loadState
      /\ ActionKnows(action, caseView, made, operations)
  BY ActionKeepsTo
<1>2. CASE ActionShown
  <2>1. /\ action.pc = "answered" /\ Goes("listing") /\ caseView' = action.answer
        /\ UNCHANGED <<made, approved, operations, receipt>>
    BY <1>2 DEF history, ActionShown, server
  <2>2. /\ Answers(action, caseView, made, operations)
        /\ Sound(caseView, made, operations)
        /\ caseView # None /\ caseView.case = action.case
        /\ action.receipt # None => Beside(action.receipt, action.answer)
    BY <1>1, <2>1 DEF ActionKnows
  <2>3. AtMost(caseView, action.answer)
    BY <2>2 DEF Answers
  <2>4. receipt # None => Beside(receipt, caseView)
    BY <1>1 DEF ViewInv, ReceiptFits
  <2>5. receipt # None => Beside(receipt, action.answer)
    BY <2>2, <2>3, <2>4 DEF Beside, AtMost, Sound, Answers
  <2>6. ReceiptFits'
    BY <2>1, <2>5 DEF ReceiptFits
  <2>7. ActionKnows(action', caseView', made, operations)
    BY <1>1, <2>1, <2>2, ShapedMoves DEF ActionKnows, Answers
  <2>8. ServerGrows
    BY <1>1, <2>1, StandsStill
  <2> QED
    BY <1>1, <2>1, <2>2, <2>6, <2>7, <2>8, NoTaskKnows, GrownInv DEF Answers
<1>3. CASE ActionEnds \/ GivesUp
  <2>1. /\ action' = NoTask
        /\ UNCHANGED <<made, approved, operations, caseView>>
        /\ \/ receipt' = receipt
           \/ /\ action.pc = "listing" /\ action.receipt # None
              /\ receipt' = action.receipt
    BY <1>3 DEF history, ActionEnds, GivesUp, server
  <2>2. ReceiptFits'
    BY <1>1, <2>1 DEF ActionKnows, ReceiptFits, ViewInv
  <2>3. ServerGrows
    BY <1>1, <2>1, StandsStill
  <2> QED
    BY <1>1, <2>1, <2>2, <2>3, NoTaskKnows, GrownInv DEF ViewInv
<1> QED
  BY <1>2, <1>3, RouteStepKnows DEF Acts

-----------------------------------------------------------------------------
LEMMA NextKnows == ViewInv /\ [Next]_vars => ViewInv'
<1> SUFFICES ASSUME ViewInv, [Next]_vars PROVE ViewInv'
  OBVIOUS
<1>1. CASE LateReport \/ UNCHANGED vars
  <2>1. /\ UNCHANGED <<made, approved, operations, loadState, caseView, receipt>>
        /\ UNCHANGED <<load, action>>
    BY <1>1 DEF LateReport, vars, server, screen
  <2>2. TasksInv'
    BY NextKeepsTasks DEF ViewInv
  <2> QED
    BY <2>1, <2>2 DEF ViewInv, ServerTyped, ReceiptFits
<1> QED
  BY <1>1, NextIs, ElsewhereKnows, DispatcherKnows, LoadStepKnows, ActionStepKnows

(* What is put on the screen is never behind what is there.                *)
LEMMA ShownNeverGoesBack ==
    ASSUME ViewInv, Next, caseView # None, caseView'.case = caseView.case,
           caseView' # caseView
    PROVE  AtMost(caseView, caseView')
<1>1. \/ CaseShown /\ caseView' = load.answer
      \/ ReceiptShown /\ caseView' = load.answer
      \/ ActionShown /\ caseView' = action.answer
  BY NextIs DEF Elsewhere, LateReport, Dispatcher, RunAction, UpdateAccess, Begin, ChooseCase,
         Retry, loadWorkspace, LoadStep, SessionStarted, CaseRead, CaseShown,
         LoadReadsReceipt, ReceiptShown, LoadFails, Acts, RouteStep,
         PassesGuard, PalRuns, ApprovesProposal, FindsApproval, Reserves, Claims,
         Sends, Reconciles, RecordsReceipt, CaseAnswered, ActionShown, ActionEnds,
         GivesUp, screen
<1>2. CASE CaseShown \/ ReceiptShown
  BY <1>1, <1>2 DEF history, CaseShown, ReceiptShown, ViewInv, LoadKnows, Answers
<1>3. CASE ActionShown
  BY <1>1, <1>3 DEF history, ActionShown, ViewInv, ActionKnows, Answers
<1> QED
  BY <1>1, <1>2, <1>3

(* No answer, of a load or of an action, puts an earlier operation of the  *)
(* case on the screen than is there, nor an earlier revision of it.        *)
THEOREM ViewNeverGoesBack == Spec => OperationNeverGoesBack
<1>1. ViewInv /\ [Next]_vars =>
        [caseView # None /\ caseView'.case = caseView.case
         => \/ caseView.operation < caseView'.operation
            \/ /\ caseView.operation = caseView'.operation
               /\ caseView.revision <= caseView'.revision]_caseView
  BY ShownNeverGoesBack DEF AtMost, vars, screen
<1> QED
  BY <1>1, InitKnows, NextKnows, PTL DEF Spec, OperationNeverGoesBack

-----------------------------------------------------------------------------
(* What is shown is what there is.                                         *)

(* What the server would answer of each case.                              *)
Now == [c \in Cases |-> operatorCaseView(c)]

LEMMA NowStands ==
    ASSUME UNCHANGED <<server, reports>>
    PROVE  Now' = Now
BY DEF Now, server, operatorCaseView, ActiveProposal, LatestOperation,
       CaseOfOperation, session, Newest

(* A receipt makes no difference but to the view of its own case, and      *)
(* there only that it is available now.                                    *)
LEMMA NowReceipted ==
    ASSUME ServerTyped, NEW o \in DOMAIN operations, IssueReceipt(o),
           UNCHANGED reports, NEW c \in Cases
    PROVE  \/ Now'[c] = Now[c]
           \/ /\ ~operations[o].receipted
              /\ o = Now[c].operation /\ Now[c].operation # 0
              /\ Now[c] = [Now'[c] EXCEPT !.receiptAvailable = FALSE]
<1>1. UNCHANGED <<made, expired, approved, reports>>
  BY DEF IssueReceipt
<1>2. /\ DOMAIN operations' = DOMAIN operations
      /\ \A x \in DOMAIN operations \ {o} : operations'[x] = operations[x]
      /\ operations'[o] = [operations[o] EXCEPT !.receipted = TRUE]
  BY DEF IssueReceipt, ServerTyped
<1>3. /\ operations'[o].proposal = operations[o].proposal
      /\ operations'[o].state = operations[o].state
      /\ operations'[o].revision = operations[o].revision
      /\ operations'[o].receipted = TRUE
  BY <1>2, RecordsTyped DEF OperationRecord
<1>4. \A x \in DOMAIN operations :
        /\ operations'[x].proposal = operations[x].proposal
        /\ operations'[x].state = operations[x].state
        /\ operations'[x].revision = operations[x].revision
        /\ x # o => operations'[x].receipted = operations[x].receipted
  BY <1>2, <1>3
<1> DEFINE own == {x \in DOMAIN operations : made[operations[x].proposal] = c}
           l   == Newest(own)
<1>5. LatestOperation(c) = l
  BY DEF LatestOperation, CaseOfOperation
<1>6. LatestOperation(c)' = l
  <2>1. own = {x \in DOMAIN operations' : made'[operations'[x].proposal] = c}
    BY <1>1, <1>2, <1>4
  <2>2. LatestOperation(c)'
          = Newest({x \in DOMAIN operations' :
                      made'[operations'[x].proposal] = c})
    BY DEF LatestOperation, CaseOfOperation, Newest
  <2> QED
    BY <2>1, <2>2
<1>7. ActiveProposal(c)' = ActiveProposal(c)
  BY <1>1 DEF ActiveProposal, Newest
<1>8. l # 0 => l \in DOMAIN operations /\ l \in Nat
  BY <1>5, LatestFacts
<1> DEFINE p == ActiveProposal(c)
           st == IF l = 0 THEN "none" ELSE operations[l].state
           rv == IF l = 0 THEN 0 ELSE operations[l].revision
           view(b) == [case |-> c, proposal |-> p, approved |-> p \in approved,
                       operation |-> l, state |-> st, revision |-> rv,
                       receiptAvailable |-> b, access |-> reports[session][c]]
<1>9. Now[c] = view(l # 0 /\ operations[l].receipted)
  BY <1>5 DEF Now, operatorCaseView
<1> HIDE DEF l, own
<1>10. Now'[c] = view(l # 0 /\ operations'[l].receipted)
  <2>1. /\ l # 0 => operations'[l].state = operations[l].state
        /\ l # 0 => operations'[l].revision = operations[l].revision
    BY <1>4, <1>8
  <2> QED
    BY <1>1, <1>6, <1>7, <2>1 DEF Now, operatorCaseView, session
<1>11. CASE l = 0 \/ l # o
  <2>1. l # 0 => operations'[l].receipted = operations[l].receipted
    BY <1>4, <1>8, <1>11
  <2>2. (l # 0 /\ operations'[l].receipted) = (l # 0 /\ operations[l].receipted)
    BY <2>1
  <2> QED
    BY <1>9, <1>10, <2>2
<1>12. CASE l # 0 /\ l = o /\ operations[o].receipted
  BY <1>3, <1>9, <1>10, <1>12
<1>13. CASE l # 0 /\ l = o /\ ~operations[o].receipted
  <2>1. Now[c] = view(FALSE)
    BY <1>9, <1>13
  <2>2. Now'[c] = view(TRUE)
    BY <1>3, <1>10, <1>13
  <2>3. \A b, d : view(d) = [view(b) EXCEPT !.receiptAvailable = d]
    OBVIOUS
  <2>4. \A b : view(b).operation = l
    OBVIOUS
  <2> HIDE DEF view
  <2>5. view(FALSE) = [view(TRUE) EXCEPT !.receiptAvailable = FALSE]
    BY <2>3
  <2>6. Now[c] = [Now'[c] EXCEPT !.receiptAvailable = FALSE]
    BY <2>1, <2>2, <2>5, Zenon
  <2>7. Now[c].operation = l
    BY <2>1, <2>4, Zenon
  <2> QED
    BY <1>13, <2>6, <2>7, Zenon
<1> QED
  BY <1>11, <1>12, <1>13

-----------------------------------------------------------------------------
(* The view v is what the server has now, but for the receipt r of its     *)
(* operation that was written after it was read.                           *)
Pending(v, r, now) ==
    /\ v.operation # 0
    /\ r = [case |-> v.case, operation |-> v.operation]
    /\ v = [now[v.case] EXCEPT !.receiptAvailable = FALSE]

CurrentWith(v, r, now) == v = now[v.case] \/ Pending(v, r, now)

(* The same of an answer that may come with a receipt of its own.          *)
CurrentAlone(v, r, now) == v = now[v.case] \/ (r # None /\ Pending(v, r, now))

(* What is under way is current, once it has been read.                    *)
LoadCurrent(t, now) ==
    t.pc \in {"read", "receipt", "recording", "receipted"} => t.answer = now[t.case]

ActionCurrent(t, v, now) ==
    /\ t.pc = "recording" /\ t.kind = "view_receipt" => t.answer = now[t.case]
    /\ t.pc = "answered" => CurrentAlone(t.answer, t.receipt, now)
    /\ t.pc = "listing" => CurrentAlone(v, t.receipt, now)

(* A load asks for a receipt only where there is one.                      *)
LoadReceipted(t, ops) ==
    /\ t.pc = "read" /\ t.answer.operation # 0 /\ t.answer.receiptAvailable
         => ops[t.answer.operation].receipted
    /\ t.pc \in {"receipt", "recording"} => ops[t.target].receipted

ShownCurrent ==
    loadState = "ready" /\ Quiet => /\ Sound(caseView, made, operations)
                                   /\ CurrentWith(caseView, receipt, Now)

(* The inductive invariant: with what each task knows, that what was read  *)
(* is current for as long as only this dispatcher has moved.               *)
CurrentInv ==
    /\ ViewInv
    /\ LoadReceipted(load, operations)
    /\ ~disturbed => /\ LoadCurrent(load, Now)
                     /\ ActionCurrent(action, caseView, Now)
                     /\ ShownCurrent

LEMMA IdleCurrent ==
    ASSUME NEW v, NEW now, NEW ops
    PROVE  /\ LoadCurrent(NoTask, now) /\ ActionCurrent(NoTask, v, now)
           /\ LoadReceipted(NoTask, ops)
<1>1. NoTask.pc = "idle"
  BY DEF NoTask
<1> QED
  BY <1>1 DEF LoadCurrent, ActionCurrent, LoadReceipted

LEMMA LoadingCurrent ==
    ASSUME NEW c, NEW now, NEW ops
    PROVE  LoadCurrent(Loading(c), now) /\ LoadReceipted(Loading(c), ops)
<1>1. Loading(c).pc = "session"
  BY DEF NoTask, Loading
<1> QED
  BY <1>1 DEF LoadCurrent, LoadReceipted

LEMMA InitCurrent == Init => CurrentInv
<1> SUFFICES ASSUME Init PROVE CurrentInv
  OBVIOUS
<1>1. disturbed = TRUE /\ load = Loading(Home)
  BY DEF Init
<1> QED
  BY <1>1, InitKnows, LoadingCurrent DEF CurrentInv

(* No receipt is taken back.                                               *)
LEMMA ReceiptsStay ==
    ASSUME ServerTyped, Elsewhere, NEW x \in DOMAIN operations,
           operations[x].receipted
    PROVE  operations'[x].receipted
<1>1. ASSUME NEW o \in DOMAIN operations, NEW to, Advance(o, to)
      PROVE  operations'[x].receipted
  <2>1. operations' = [operations EXCEPT ![o] = [operations[o] EXCEPT
                         !.state = to, !.revision = operations[o].revision + 1]]
    BY <1>1 DEF Advance
  <2>2. "receipted" \in DOMAIN operations[o]
    BY RecordsTyped DEF OperationRecord
  <2>3. operations \in Seq(OperationRecord)
    BY DEF ServerTyped
  <2> QED
    BY <2>1, <2>2, <2>3
<1>2. ASSUME NEW o \in DOMAIN operations, IssueReceipt(o)
      PROVE  operations'[x].receipted
  <2>1. operations' = [operations EXCEPT ![o] = [operations[o] EXCEPT
                         !.receipted = TRUE]]
    BY <1>2 DEF IssueReceipt
  <2>2. "receipted" \in DOMAIN operations[o]
    BY RecordsTyped DEF OperationRecord
  <2>3. operations \in Seq(OperationRecord)
    BY DEF ServerTyped
  <2> QED
    BY <2>1, <2>2, <2>3
<1>3. ASSUME NEW p, Reserve(p)
      PROVE  operations'[x].receipted
  <2>1. operations' = operations \/ \E rec : operations' = Append(operations, rec)
    BY <1>3 DEF Reserve
  <2> QED
    BY <2>1 DEF ServerTyped
<1> QED
  BY <1>1, <1>2, <1>3 DEF Elsewhere, PrepareDecisionInputs, Approve, Expire

LEMMA ElsewhereCurrent == CurrentInv /\ Elsewhere => CurrentInv'
<1> SUFFICES ASSUME CurrentInv, Elsewhere PROVE CurrentInv'
  OBVIOUS
<1>1. ViewInv' /\ ServerTyped
  BY ElsewhereKnows DEF CurrentInv, ViewInv
<1>2. load' = load /\ disturbed' = TRUE
  BY DEF Elsewhere
<1>3. load.pc = "read" /\ load.answer.operation # 0
        => load.answer.operation \in DOMAIN operations
  BY DEF CurrentInv, ViewInv, LoadKnows, Answers, Sound, Names
<1>4. load.pc \in {"receipt", "recording"} => load.target \in DOMAIN operations
  BY DEF CurrentInv, ViewInv, LoadKnows, Names
<1>5. LoadReceipted(load', operations')
  BY <1>1, <1>2, <1>3, <1>4, ReceiptsStay DEF CurrentInv, LoadReceipted
<1> QED
  BY <1>1, <1>2, <1>5 DEF CurrentInv

LEMMA DispatcherCurrent == CurrentInv /\ Dispatcher => CurrentInv'
<1> SUFFICES ASSUME CurrentInv, Dispatcher PROVE CurrentInv'
  OBVIOUS
<1>1. ViewInv' /\ TasksInv'
  BY DispatcherKnows, DispatcherKeepsTasks DEF CurrentInv, ViewInv
<1>2. ASSUME NEW kind, NEW target, NEW access, Begin(kind, target, access)
      PROVE  CurrentInv'
  <2>1. /\ UNCHANGED <<server, reports>> /\ load' = load /\ disturbed' = disturbed
        /\ actionState' = "working" /\ operations' = operations
    BY <1>2 DEF history, Begin, server
  <2>2. action'.pc = "sent"
    BY <1>2 DEF history, Begin, NoTask
  <2>3. ~Quiet'
    BY <2>2, AtWork DEF Quiet
  <2> QED
    BY <1>1, <2>1, <2>2, <2>3, NowStands DEF CurrentInv, ActionCurrent, ShownCurrent
<1>3. ASSUME NEW c, loadWorkspace(c)
      PROVE  CurrentInv'
  <2>1. /\ UNCHANGED <<server, reports>> /\ load' = Loading(c)
        /\ disturbed' = disturbed /\ loadState' = "loading"
        /\ action' = action /\ caseView' = caseView
    BY <1>3 DEF history, loadWorkspace
  <2> QED
    BY <1>1, <2>1, NowStands, LoadingCurrent DEF CurrentInv, ShownCurrent
<1> QED
  BY <1>2, <1>3 DEF Dispatcher, RunAction, UpdateAccess, ChooseCase, Retry

-----------------------------------------------------------------------------
(* What an answer says of a receipt, the server has.                       *)
LEMMA ReadReceipt ==
    ASSUME ServerTyped, NEW c \in Cases,
           Now[c].operation # 0, Now[c].receiptAvailable
    PROVE  operations[Now[c].operation].receipted
<1>1. /\ Now[c].operation = LatestOperation(c)
      /\ Now[c].receiptAvailable
           = (LatestOperation(c) # 0 /\ operations[LatestOperation(c)].receipted)
  BY DEF Now, operatorCaseView
<1> QED
  BY <1>1

LEMMA LoadStepCurrent == CurrentInv /\ LoadStep => CurrentInv'
<1> SUFFICES ASSUME CurrentInv, LoadStep PROVE CurrentInv'
  OBVIOUS
<1>1. /\ ViewInv' /\ ServerTyped /\ Shaped(load)
      /\ load # NoTask /\ action' = NoTask
      /\ LoadKnows(load, caseView, made, operations)
  BY LoadStepKnows, LoadKeepsTo DEF CurrentInv
<1>2. load.case \in Cases
  BY <1>1 DEF LoadKnows
<1>3. \A v, now : ActionCurrent(action', v, now)
  BY <1>1, IdleCurrent
<1>4. load' # NoTask => ~Quiet'
  BY DEF Quiet
<1>5. CASE SessionStarted
  <2>1. load'.pc = "case"
    BY <1>1, <1>5 DEF history, SessionStarted, Shaped
  <2>2. load' # NoTask
    BY <2>1, AtWork
  <2> QED
    BY <1>1, <1>3, <1>4, <2>1, <2>2
       DEF CurrentInv, LoadCurrent, LoadReceipted, ShownCurrent
<1>6. CASE CaseRead
  <2>1. /\ load'.pc = "read" /\ load'.case = load.case
        /\ load'.answer = Now[load.case]
        /\ UNCHANGED <<server, reports>> /\ operations' = operations
    BY <1>1, <1>2, <1>6 DEF CaseRead, Shaped, Now, server
  <2>2. load' # NoTask
    BY <2>1, AtWork
  <2>3. LoadReceipted(load', operations')
    BY <1>1, <1>2, <2>1, ReadReceipt DEF LoadReceipted
  <2> QED
    BY <1>1, <1>3, <1>4, <2>1, <2>2, <2>3, NowStands
       DEF CurrentInv, LoadCurrent, ShownCurrent
<1>7. CASE CaseShown
  <2>1. /\ load.pc = "read" /\ caseView' = load.answer
        /\ UNCHANGED <<server, reports>> /\ operations' = operations
        /\ made' = made /\ disturbed' = disturbed
    BY <1>7 DEF history, CaseShown, server
  <2>2. ~disturbed => load.answer = Now[load.case]
    BY <2>1 DEF CurrentInv, LoadCurrent
  <2>3. load.answer.case = load.case /\ Sound(load.answer, made, operations)
    BY <1>1, <2>1 DEF LoadKnows, Answers
  <2>4. CASE load' = NoTask
    BY <1>1, <1>3, <2>1, <2>2, <2>3, <2>4, IdleCurrent, NowStands
       DEF CurrentInv, ShownCurrent, CurrentWith
  <2>5. CASE load' # NoTask
    <3>1. /\ load' = [load EXCEPT !.pc = "receipt",
                                  !.target = load.answer.operation]
          /\ load.answer.operation # 0 /\ load.answer.receiptAvailable
      BY <1>7, <2>5 DEF history, CaseShown
    <3>2. /\ load'.pc = "receipt" /\ load'.case = load.case
          /\ load'.answer = load.answer /\ load'.target = load.answer.operation
      BY <1>1, <3>1 DEF Shaped
    <3>3. LoadReceipted(load', operations')
      BY <2>1, <3>1, <3>2 DEF CurrentInv, LoadReceipted
    <3> QED
      BY <1>1, <1>3, <1>4, <2>1, <2>2, <2>5, <3>2, <3>3, NowStands
         DEF CurrentInv, LoadCurrent, ShownCurrent
  <2> QED
    BY <2>4, <2>5
<1>8. CASE LoadReadsReceipt /\ load.pc = "receipt"
  <2>1. /\ load'.pc = "recording" /\ load'.case = load.case
        /\ load'.answer = Now[load.case] /\ load'.target = load.target
        /\ UNCHANGED <<server, reports>> /\ operations' = operations
    BY <1>1, <1>2, <1>8 DEF history, LoadReadsReceipt, Shaped, Now, server
  <2>2. load' # NoTask
    BY <2>1, AtWork
  <2>3. LoadReceipted(load', operations')
    BY <1>8, <2>1 DEF CurrentInv, LoadReceipted
  <2> QED
    BY <1>1, <1>3, <1>4, <2>1, <2>2, <2>3, NowStands
       DEF CurrentInv, LoadCurrent, ShownCurrent
<1>9. CASE LoadReadsReceipt /\ load.pc = "recording"
  <2>1. /\ load'.pc = "receipted" /\ load'.case = load.case
        /\ load'.answer = load.answer
        /\ IssueReceipt(load.target) /\ UNCHANGED reports /\ disturbed' = disturbed
    BY <1>1, <1>9 DEF history, LoadReadsReceipt, Shaped
  <2>2. load' # NoTask
    BY <2>1, AtWork
  <2>3. load.target \in DOMAIN operations /\ operations[load.target].receipted
    BY <1>1, <1>9 DEF LoadKnows, Names, CurrentInv, LoadReceipted
(* The receipt was there already.                                          *)
  <2>4. Now'[load.case] = Now[load.case]
    BY <1>1, <1>2, <2>1, <2>3, NowReceipted
  <2>5. ~disturbed => load.answer = Now[load.case]
    BY <1>9 DEF CurrentInv, LoadCurrent
  <2>6. LoadReceipted(load', operations')
    BY <2>1 DEF LoadReceipted
  <2>7. ~disturbed' => LoadCurrent(load', Now')
    BY <2>1, <2>4, <2>5 DEF LoadCurrent
  <2> QED
    BY <1>1, <1>3, <1>4, <2>2, <2>6, <2>7 DEF CurrentInv, ShownCurrent
<1>10. CASE ReceiptShown
  <2>1. /\ load.pc = "receipted" /\ caseView' = load.answer /\ load' = NoTask
        /\ UNCHANGED <<server, reports, made, operations>>
        /\ disturbed' = disturbed
    BY <1>10 DEF history, ReceiptShown, server
  <2>2. ~disturbed => load.answer = Now[load.case]
    BY <2>1 DEF CurrentInv, LoadCurrent
  <2>3. load.answer.case = load.case /\ Sound(load.answer, made, operations)
    BY <1>1, <2>1 DEF LoadKnows, Answers
  <2> QED
    BY <1>1, <1>3, <2>1, <2>2, <2>3, IdleCurrent, NowStands
       DEF CurrentInv, ShownCurrent, CurrentWith
<1>11. CASE LoadFails
  <2>1. load' = NoTask /\ disturbed' = TRUE
    BY <1>11 DEF LoadFails
  <2> QED
    BY <1>1, <2>1, IdleCurrent DEF CurrentInv
<1>12. LoadReadsReceipt => load.pc = "receipt" \/ load.pc = "recording"
  BY DEF history, LoadReadsReceipt
<1> QED
  BY <1>5, <1>6, <1>7, <1>8, <1>9, <1>10, <1>11, <1>12 DEF LoadStep

-----------------------------------------------------------------------------
LEMMA ActionStepCurrent == CurrentInv /\ Acts => CurrentInv'
<1> SUFFICES ASSUME CurrentInv, Acts PROVE CurrentInv'
  OBVIOUS
<1>1. /\ ViewInv' /\ ServerTyped /\ Shaped(action)
      /\ action # NoTask /\ load' = NoTask
      /\ ActionKnows(action, caseView, made, operations)
  BY ActionStepKnows, ActionKeepsTo DEF CurrentInv
<1>2. action.case \in Cases
  BY <1>1 DEF ActionKnows
<1>3. \A now, ops : LoadCurrent(load', now) /\ LoadReceipted(load', ops)
  BY <1>1, IdleCurrent
<1>4. action' # NoTask => ~Quiet'
  BY DEF Quiet
(* Where nothing is said yet of what the action found.                     *)
<1>5. ASSUME \/ action'.pc \in {"running", "reading", "reserving", "sending",
                                "refused"}
             \/ action'.pc = "recording" /\ action'.kind = "reconcile"
      PROVE  CurrentInv'
  <2>1. action'.pc # "idle"
    BY <1>5
  <2>2. ~Quiet'
    BY <1>4, <2>1, AtWork
  <2>3. \A v, now : ActionCurrent(action', v, now)
    BY <1>5 DEF ActionCurrent
  <2> QED
    BY <1>1, <1>3, <2>2, <2>3 DEF CurrentInv, ShownCurrent
<1>6. CASE \/ PassesGuard \/ PalRuns \/ ApprovesProposal \/ FindsApproval
           \/ Reserves \/ Claims \/ Sends \/ Reconciles
  <2>1. \/ action'.pc \in {"running", "reading", "reserving", "sending", "refused"}
        \/ action'.pc = "recording" /\ action'.kind = "reconcile"
    BY <1>1, <1>6
       DEF history, PassesGuard, PalRuns, ApprovesProposal, FindsApproval, Reserves,
           Claims, Sends, Reconciles, Goes, Asked, Shaped
  <2> QED
    BY <1>5, <2>1
<1>7. CASE RecordsReceipt
  <2> DEFINE o == action.target
             r == [case |-> action.case, operation |-> o]
  <2>1. /\ action.pc = "recording" /\ IssueReceipt(o)
        /\ action'.pc = IF action.kind = "reconcile" THEN "reading"
                                                     ELSE "answered"
        /\ action'.answer = action.answer /\ action'.receipt = ReceiptOf(o)
        /\ UNCHANGED reports /\ disturbed' = disturbed
    BY <1>1, <1>7 DEF history, RecordsReceipt, Shaped
  <2>2. /\ action.kind \in {"reconcile", "view_receipt"}
        /\ Names(o, action.case, made, operations)
    BY <1>1, <2>1 DEF ActionKnows
  <2>3. CASE action.kind = "reconcile"
    BY <1>5, <2>1, <2>3
  <2>4. CASE action.kind = "view_receipt"
    <3>1. action.answer.case = action.case
      BY <1>1, <2>1, <2>4 DEF ActionKnows, Answers
    <3>2. ~disturbed => action.answer = Now[action.case]
      BY <2>1, <2>4 DEF CurrentInv, ActionCurrent
    <3>3. action'.receipt = r
      BY <2>1, <2>2 DEF ReceiptOf, CaseOfOperation, Names
    <3>4. r # None
      <4>1. o \in Nat
        BY <1>1, <2>2, RecordsTyped DEF Names
      <4> QED
        BY <1>2, <4>1, WorkspaceAssumption
    <3>5. \/ Now'[action.case] = Now[action.case]
          \/ /\ o = Now[action.case].operation /\ Now[action.case].operation # 0
             /\ Now[action.case]
                  = [Now'[action.case] EXCEPT !.receiptAvailable = FALSE]
      BY <1>1, <1>2, <2>1, <2>2, NowReceipted DEF Names
    <3>6. ASSUME ~disturbed
          PROVE  CurrentAlone(action.answer, r, Now')
      <4>1. CASE Now'[action.case] = Now[action.case]
        BY <3>1, <3>2, <3>6, <4>1 DEF CurrentAlone
      <4>2. CASE /\ o = Now[action.case].operation /\ Now[action.case].operation # 0
                 /\ Now[action.case]
                      = [Now'[action.case] EXCEPT !.receiptAvailable = FALSE]
        BY <3>1, <3>2, <3>4, <3>6, <4>2 DEF CurrentAlone, Pending
      <4> QED
        BY <3>5, <4>1, <4>2
    <3>7. action'.pc = "answered"
      BY <2>1, <2>4
    <3>8. ~Quiet'
      BY <1>4, <3>7, AtWork
    <3>9. ~disturbed' => ActionCurrent(action', caseView', Now')
      BY <2>1, <3>3, <3>6, <3>7 DEF ActionCurrent
    <3> QED
      BY <1>1, <1>3, <3>8, <3>9 DEF CurrentInv, ShownCurrent
  <2> QED
    BY <2>2, <2>3, <2>4
<1>8. CASE CaseAnswered
  <2>1. /\ UNCHANGED <<server, reports>>
        /\ action'.pc = "recording" \/ action'.pc = "answered"
        /\ action'.case = action.case /\ action'.answer = Now[action.case]
    BY <1>1, <1>2, <1>8 DEF CaseAnswered, Shaped, Now
  <2>2. ~Quiet'
    BY <1>4, <2>1, AtWork
  <2>3. Now' = Now /\ Now[action.case].case = action.case
    BY <1>2, <2>1, NowStands DEF Now, operatorCaseView
  <2>4. ActionCurrent(action', caseView', Now')
    BY <2>1, <2>3 DEF ActionCurrent, CurrentAlone
  <2> QED
    BY <1>1, <1>3, <2>2, <2>4 DEF CurrentInv, ShownCurrent
<1>9. CASE ActionShown
  <2>1. /\ action.pc = "answered" /\ caseView' = action.answer
        /\ UNCHANGED <<server, reports>> /\ disturbed' = disturbed
        /\ action'.pc = "listing" /\ action'.receipt = action.receipt
    BY <1>1, <1>9 DEF history, ActionShown, Goes, Shaped
  <2>2. ~Quiet'
    BY <1>4, <2>1, AtWork
  <2>3. ~disturbed => CurrentAlone(action.answer, action.receipt, Now)
    BY <2>1 DEF CurrentInv, ActionCurrent
  <2>4. ~disturbed' => ActionCurrent(action', caseView', Now')
    BY <2>1, <2>3, NowStands DEF ActionCurrent
  <2> QED
    BY <1>1, <1>3, <2>2, <2>4 DEF CurrentInv, ShownCurrent
<1>10. CASE ActionEnds
  <2>1. /\ action.pc = "listing" /\ action' = NoTask
        /\ UNCHANGED <<server, reports, made, operations, caseView>>
        /\ disturbed' = disturbed
        /\ action.receipt # None => receipt' = action.receipt
    BY <1>10 DEF history, ActionEnds, server
  <2>2. ~disturbed => CurrentAlone(caseView, action.receipt, Now)
    BY <2>1 DEF CurrentInv, ActionCurrent
  <2>3. ~disturbed' => CurrentWith(caseView', receipt', Now')
    BY <2>1, <2>2, NowStands DEF CurrentAlone, CurrentWith
  <2>4. Sound(caseView, made, operations)
    BY <1>1 DEF ActionKnows
  <2> QED
    BY <1>1, <1>3, <2>1, <2>3, <2>4, IdleCurrent DEF CurrentInv, ShownCurrent
<1>11. CASE GivesUp
  <2>1. disturbed' = TRUE
    BY <1>11 DEF GivesUp
  <2> QED
    BY <1>1, <1>3, <2>1 DEF CurrentInv
<1> QED
  BY <1>6, <1>7, <1>8, <1>9, <1>10, <1>11 DEF Acts, RouteStep

(* Each session's reports are of all cases; a late one is to a session.    *)
ReportsTyped ==
    /\ reports \in Seq([Cases -> Access])
    /\ late \subseteq [session : DOMAIN reports, case : Cases, access : Access]

(* A late report is recorded in its own session.                           *)
LEMMA LateIsRecorded ==
    ASSUME ReportsTyped, LateReport
    PROVE  /\ reports' \in Seq([Cases -> Access]) /\ Len(reports') = Len(reports)
           /\ \E r \in late :
                /\ \A s \in DOMAIN reports \ {r.session} : reports'[s] = reports[s]
                /\ late' = late \ {r}
                /\ disturbed' = (disturbed \/ r.session = session)
<1>1. PICK r \in late :
        /\ reports' = [reports EXCEPT ![r.session][r.case] = r.access]
        /\ late' = late \ {r}
        /\ disturbed' = (disturbed \/ r.session = session)
  BY DEF LateReport
<1>2. /\ r.session \in DOMAIN reports /\ r.case \in Cases /\ r.access \in Access
      /\ \A s \in DOMAIN reports : reports[s] \in [Cases -> Access]
  BY DEF ReportsTyped
<1>3. /\ [reports[r.session] EXCEPT ![r.case] = r.access] \in [Cases -> Access]
      /\ reports' = [reports EXCEPT
           ![r.session] = [reports[r.session] EXCEPT ![r.case] = r.access]]
  BY <1>1, <1>2
<1>4. /\ reports' \in Seq([Cases -> Access]) /\ Len(reports') = Len(reports)
      /\ \A s \in DOMAIN reports \ {r.session} : reports'[s] = reports[s]
  BY <1>2, <1>3 DEF ReportsTyped
<1> QED
  BY <1>1, <1>4

(* A report in another session than the browser's is nothing it reads.     *)
LEMMA LateReportCurrent ==
    ASSUME CurrentInv, ReportsTyped, LateReport
    PROVE  CurrentInv'
<1>1. ViewInv'
  BY NextKnows DEF CurrentInv, Next
<1>2. /\ UNCHANGED <<made, expired, approved, operations, loadState, caseView>>
      /\ UNCHANGED <<receipt, load, action>>
  BY DEF LateReport, server, screen
<1>3. ASSUME ~disturbed' PROVE ~disturbed /\ Now' = Now
  <2>1. PICK r \in late :
          /\ \A s \in DOMAIN reports \ {r.session} : reports'[s] = reports[s]
          /\ disturbed' = (disturbed \/ r.session = session)
    BY LateIsRecorded
  <2>2. ~disturbed /\ r.session # session /\ r.session \in DOMAIN reports
    BY <1>3, <2>1 DEF ReportsTyped
  <2>3. Len(reports') = Len(reports) /\ Len(reports) \in Nat
        /\ DOMAIN reports = 1..Len(reports)
    BY LateIsRecorded DEF ReportsTyped
  <2>4. session' = session /\ session \in DOMAIN reports
    BY <2>2, <2>3 DEF session
  <2>5. reports'[session] = reports[session]
    BY <2>1, <2>2, <2>4
  <2> QED
    BY <1>2, <2>2, <2>4, <2>5
       DEF Now, operatorCaseView, ActiveProposal, LatestOperation,
           CaseOfOperation, Newest
<1> QED
  BY <1>1, <1>2, <1>3 DEF CurrentInv, ShownCurrent, Quiet

LEMMA NextCurrent == CurrentInv /\ ReportsTyped /\ [Next]_vars => CurrentInv'
<1> SUFFICES ASSUME CurrentInv, ReportsTyped, [Next]_vars PROVE CurrentInv'
  OBVIOUS
<1>1. CASE UNCHANGED vars
  <2>1. /\ UNCHANGED <<server, reports, made, operations, loadState, caseView>>
        /\ UNCHANGED <<receipt, load, action, disturbed>>
    BY <1>1 DEF vars, server, screen, history
  <2>2. ViewInv'
    BY NextKnows DEF CurrentInv
  <2> QED
    BY <2>1, <2>2, NowStands DEF CurrentInv, ShownCurrent, Quiet
<1> QED
  BY <1>1, NextIs, ElsewhereCurrent, DispatcherCurrent, LoadStepCurrent,
     ActionStepCurrent, LateReportCurrent

-----------------------------------------------------------------------------
(* Types: what is on the server stays within its bounds, and every task of *)
(* the browser has a value that is one.                                    *)

(* No proposal is ever reserved twice.                                     *)
OneEach ==
    \A x, y \in DOMAIN operations :
        operations[x].proposal = operations[y].proposal => x = y

ServerBounded ==
    /\ Len(made) <= MaxProposals
    /\ expired \subseteq DOMAIN made
    /\ OneEach
    /\ \A o \in DOMAIN operations : operations[o].revision <= MaxRevision

(* A browser that has read a case holds the cookie of a session.           *)
SessionHeld ==
    load.pc \notin {"idle", "session"} \/ caseView # None \/ action # NoTask
      => Len(reports) > 0

BrowserTyped ==
    /\ reports \in Seq([Cases -> Access])
    /\ SessionHeld
    /\ loadState \in {"loading", "ready", "error"}
    /\ actionState \in {"idle", "working"}
    /\ caseView \in Views \cup {None}
    /\ receipt \in Receipts \cup {None}
    /\ load \in Tasks /\ action \in Tasks
    /\ moves \in 0..MaxMoves /\ disturbed \in BOOLEAN

TypesInv == ViewInv /\ ServerBounded /\ BrowserTyped

(* What is kept of the past is of sessions and of operations there are.    *)
PastTyped == ReportsTyped /\ overtaken \subseteq DOMAIN operations

(* Each operation has a proposal of its own: there are no more of them.    *)
LEMMA NoMoreOperations ==
    ASSUME ServerTyped, OneEach
    PROVE  Len(operations) <= Len(made)
<1> DEFINE S == 1..Len(operations)
           T == 1..Len(made)
           f == [o \in S |-> operations[o].proposal]
<1>1. /\ Len(operations) \in Nat /\ Len(made) \in Nat
      /\ DOMAIN operations = S /\ DOMAIN made = T
  BY DEF ServerTyped
<1>2. \A n \in Nat : IsFiniteSet(1..n) /\ Cardinality(1..n) = n
  <2> SUFFICES ASSUME NEW n \in Nat PROVE IsFiniteSet(1..n) /\ Cardinality(1..n) = n
    OBVIOUS
  <2>1. 1..n = {} \/ Cardinality(1..n) = n - 1 + 1
    BY FS_Interval
  <2> QED
    BY <2>1, FS_Interval, FS_EmptySet
<1>3. /\ IsFiniteSet(S) /\ Cardinality(S) = Len(operations)
      /\ IsFiniteSet(T) /\ Cardinality(T) = Len(made)
  BY <1>1, <1>2
<1>4. f \in [S -> T]
  BY <1>1 DEF ServerTyped
<1>5. ~ \E x, y \in S : x # y /\ f[x] = f[y]
  BY <1>1 DEF OneEach
<1> HIDE DEF S, T, f
<1>6. ~(Cardinality(T) < Cardinality(S))
  BY <1>3, <1>4, <1>5, FS_PigeonHole, Zenon
<1> QED
  BY <1>1, <1>3, <1>6

LEMMA NumbersBounded ==
    ASSUME ServerTyped, ServerBounded
    PROVE  /\ \A p \in DOMAIN made : p \in 1..MaxProposals
           /\ \A o \in DOMAIN operations : o \in 1..MaxProposals
           /\ MaxProposals \in Nat /\ MaxRevision \in Nat
<1>1. Len(operations) <= Len(made)
  BY NoMoreOperations DEF ServerBounded
<1>2. /\ Len(operations) \in Nat /\ Len(made) \in Nat
      /\ DOMAIN operations = 1..Len(operations) /\ DOMAIN made = 1..Len(made)
  BY DEF ServerTyped
<1> QED
  BY <1>1, <1>2, WorkspaceAssumption DEF ServerBounded

(* What a route answers is a view, and what it prints a receipt.           *)
LEMMA ViewTyped ==
    ASSUME ServerTyped, ServerBounded, NEW c \in Cases,
           reports \in Seq([Cases -> Access]), Len(reports) > 0
    PROVE  operatorCaseView(c) \in Views
<1> DEFINE p == ActiveProposal(c)
           o == LatestOperation(c)
           st == IF o = 0 THEN "none" ELSE operations[o].state
           rev == IF o = 0 THEN 0 ELSE operations[o].revision
           ra == o # 0 /\ operations[o].receipted
           ac == reports[session][c]
           ap == p \in approved
<1>1. p \in 0..MaxProposals
  <2>1. p # 0 => p \in 1..MaxProposals
    BY ActiveFacts, NumbersBounded
  <2> QED
    BY <2>1, NumbersBounded
<1>2. o # 0 => o \in DOMAIN operations
  BY LatestFacts
<1>3. o \in 0..MaxProposals
  <2>1. o # 0 => o \in 1..MaxProposals
    BY <1>2, NumbersBounded
  <2> QED
    BY <2>1, NumbersBounded
<1>4. \A x \in DOMAIN operations :
        /\ operations[x].state \in OperationStates
        /\ operations[x].receipted \in BOOLEAN
        /\ operations[x].revision \in 0..MaxRevision
  <2>1. \A x \in DOMAIN operations : operations[x] \in OperationRecord
    BY RecordsTyped
  <2>2. \A x \in DOMAIN operations : operations[x].revision <= MaxRevision
    BY DEF ServerBounded
  <2> QED
    BY <2>1, <2>2, NumbersBounded DEF OperationRecord
<1>5. ac \in Access
  <2>1. session \in DOMAIN reports /\ \A s \in DOMAIN reports : reports[s] \in [Cases -> Access]
    BY DEF session
  <2> QED
    BY <2>1
<1>6. operatorCaseView(c) = [case |-> c, proposal |-> p, approved |-> ap,
        operation |-> o, state |-> st, revision |-> rev,
        receiptAvailable |-> ra, access |-> ac]
  BY DEF operatorCaseView
<1>7. ap \in BOOLEAN
  OBVIOUS
<1>8. st \in OperationStates \cup {"none"}
  BY <1>2, <1>4
<1>9. rev \in 0..MaxRevision
  BY <1>2, <1>4, NumbersBounded
<1>10. ra \in BOOLEAN
  BY <1>2, <1>4
<1> HIDE DEF p, o, st, rev, ra, ac, ap
<1> QED
  BY <1>1, <1>3, <1>5, <1>6, <1>7, <1>8, <1>9, <1>10 DEF Views

LEMMA ReceiptTyped ==
    ASSUME ServerTyped, ServerBounded, NEW o \in DOMAIN operations
    PROVE  ReceiptOf(o) \in Receipts
<1>1. o \in 1..MaxProposals /\ operations[o].proposal \in DOMAIN made
  BY NumbersBounded, RecordsTyped
<1>2. made[operations[o].proposal] \in Cases
  BY <1>1 DEF ServerTyped
<1> QED
  BY <1>1, <1>2 DEF ReceiptOf, CaseOfOperation, Receipts

(* What is named by number exists.                                         *)
LEMMA TypesFollow == TypesInv /\ PastTyped => TypeOK
<1> SUFFICES ASSUME TypesInv, PastTyped PROVE TypeOK
  OBVIOUS
<1>1. ServerTyped /\ ServerBounded /\ BrowserTyped /\ ViewInv
  BY DEF TypesInv, ViewInv
<1>2. /\ Len(operations) <= Len(made)
      /\ Len(operations) \in Nat /\ Len(made) \in Nat
      /\ DOMAIN operations = 1..Len(operations) /\ DOMAIN made = 1..Len(made)
  BY <1>1, NoMoreOperations DEF ServerBounded, ServerTyped
<1>3. /\ made \in Seq(Cases) /\ Len(made) <= MaxProposals
      /\ expired \subseteq DOMAIN made /\ approved \subseteq DOMAIN made
  BY <1>1 DEF ServerTyped, ServerBounded
<1>4. \A o \in DOMAIN operations :
         operations[o] \in [proposal : DOMAIN made, state : OperationStates,
                            revision : 0..MaxRevision, receipted : BOOLEAN]
  <2> SUFFICES ASSUME NEW o \in DOMAIN operations
               PROVE  operations[o] \in [proposal : DOMAIN made, state : OperationStates,
                            revision : 0..MaxRevision, receipted : BOOLEAN]
    OBVIOUS
  <2>1. operations[o] \in OperationRecord /\ operations[o].proposal \in DOMAIN made
    BY <1>1, RecordsTyped
  <2>2. operations[o].revision \in 0..MaxRevision
    BY <1>1, <2>1, WorkspaceAssumption DEF ServerBounded, OperationRecord
  <2> QED
    BY <2>1, <2>2 DEF OperationRecord
<1>5. caseView # None => /\ caseView.proposal <= Len(made)
                         /\ caseView.operation <= Len(operations)
  <2>1. caseView # None => caseView \in Views /\ Sound(caseView, made, operations)
    BY <1>1 DEF BrowserTyped, ViewInv
  <2>2. caseView # None =>
           /\ caseView.proposal = 0 \/ caseView.proposal \in DOMAIN made
           /\ caseView.operation = 0 \/ caseView.operation \in DOMAIN operations
    BY <2>1 DEF Sound, Names
  <2> QED
    BY <1>2, <2>2
<1>6. /\ action.kind \in {"approve", "reserve"} => action.target \in DOMAIN made
      /\ action.kind \in {"dispatch", "reconcile", "view_receipt"}
         => action.target \in DOMAIN operations
  BY <1>1 DEF ViewInv, ActionKnows, Names
<1>7. \A s \in DOMAIN reports : reports[s] \in [Cases -> Access]
  BY <1>1 DEF BrowserTyped
<1> QED
  BY <1>1, <1>2, <1>3, <1>4, <1>5, <1>6, <1>7
     DEF TypeOK, BrowserTyped, PastTyped, ReportsTyped

-----------------------------------------------------------------------------
(* What a step writes on the server keeps within the bounds.               *)
ServerWrites ==
    \/ UNCHANGED server
    \/ \E c \in Cases : PrepareDecisionInputs(c)
    \/ \E p \in DOMAIN made : Approve(p)
    \/ \E p \in DOMAIN made : Reserve(p)
    \/ \E o \in DOMAIN operations, to \in OperationStates : Advance(o, to)
    \/ \E o \in DOMAIN operations : IssueReceipt(o)
    \/ \E p \in DOMAIN made : Expire(p)

LEMMA ReplacedBounded ==
    ASSUME ServerTyped, ServerBounded, NEW o \in DOMAIN operations, NEW rec,
           operations' = [operations EXCEPT ![o] = rec],
           rec.proposal = operations[o].proposal,
           rec.revision <= MaxRevision,
           UNCHANGED <<made, expired>>
    PROVE  ServerBounded'
<1>1. DOMAIN operations' = DOMAIN operations
  OBVIOUS
<1>2. /\ operations'[o] = rec
      /\ \A x \in DOMAIN operations \ {o} : operations'[x] = operations[x]
  BY DEF ServerTyped
<1>3. \A x \in DOMAIN operations : operations'[x].proposal = operations[x].proposal
  BY <1>2
<1>4. OneEach'
  BY <1>1, <1>3 DEF OneEach, ServerBounded
<1>5. \A x \in DOMAIN operations' : operations'[x].revision <= MaxRevision
  BY <1>1, <1>2 DEF ServerBounded
<1> QED
  BY <1>4, <1>5 DEF ServerBounded

LEMMA WritesBounded ==
    ASSUME ServerTyped, ServerBounded, ServerWrites
    PROVE  ServerBounded'
<1>1. CASE UNCHANGED server
  BY <1>1 DEF server, ServerBounded, OneEach
<1>2. ASSUME NEW c \in Cases, PrepareDecisionInputs(c) PROVE ServerBounded'
  <2>1. /\ made' = Append(made, c) /\ Len(made) < MaxProposals
        /\ UNCHANGED <<expired, operations>>
    BY <1>2 DEF PrepareDecisionInputs
  <2>2. /\ Len(made') = Len(made) + 1 /\ Len(made) \in Nat
        /\ DOMAIN made \subseteq DOMAIN made'
    BY <2>1 DEF ServerTyped
  <2>3. Len(made') <= MaxProposals
    BY <2>1, <2>2, WorkspaceAssumption
  <2> QED
    BY <2>1, <2>2, <2>3 DEF ServerBounded, OneEach
<1>3. ASSUME NEW p \in DOMAIN made, Approve(p) \/ Expire(p) PROVE ServerBounded'
  BY <1>3 DEF Approve, Expire, ServerBounded, OneEach
<1>4. ASSUME NEW p \in DOMAIN made, Reserve(p) PROVE ServerBounded'
  <2>1. UNCHANGED <<made, expired>>
    BY <1>4 DEF Reserve
  <2>2. CASE \E o \in DOMAIN operations : operations[o].proposal = p
    BY <1>4, <2>1, <2>2 DEF Reserve, ServerBounded, OneEach
  <2>3. CASE ~ \E o \in DOMAIN operations : operations[o].proposal = p
    <3> DEFINE n == Len(operations)
    <3>1. PICK new : /\ new = [proposal |-> p, state |-> "reserved", revision |-> 0,
                               receipted |-> FALSE]
                     /\ operations' = Append(operations, new)
      BY <1>4, <2>3 DEF Reserve
    <3>2. new.proposal = p /\ new.revision = 0
      BY <3>1
    <3>3. /\ n \in Nat /\ DOMAIN operations = 1..n /\ DOMAIN operations' = 1..(n + 1)
          /\ operations'[n + 1] = new
          /\ \A x \in 1..n : operations'[x] = operations[x]
      BY <3>1 DEF ServerTyped
    <3>4. \A x \in 1..(n + 1) : x = n + 1 \/ x \in 1..n
      BY <3>3
    <3> HIDE DEF n
    <3>5. OneEach'
      BY <2>3, <3>2, <3>3, <3>4 DEF OneEach, ServerBounded
    <3>6. \A x \in DOMAIN operations' : operations'[x].revision <= MaxRevision
      BY <3>2, <3>3, <3>4, WorkspaceAssumption DEF ServerBounded
    <3> QED
      BY <2>1, <3>5, <3>6 DEF ServerBounded
  <2> QED
    BY <2>2, <2>3
<1>5. ASSUME NEW o \in DOMAIN operations, NEW to \in OperationStates, Advance(o, to)
      PROVE  ServerBounded'
  <2>1. operations[o] \in OperationRecord /\ operations[o].revision \in Nat
    BY RecordsTyped
  <2>2. PICK r \in Nat : r = operations[o].revision + 1
    BY <2>1
  <2>3. r <= MaxRevision
    BY <1>5, <2>1, <2>2, WorkspaceAssumption DEF Advance
  <2>4. PICK rec : rec = [operations[o] EXCEPT !.state = to, !.revision = r]
    OBVIOUS
  <2>5. rec.proposal = operations[o].proposal /\ rec.revision = r
    BY <2>1, <2>4 DEF OperationRecord
  <2>6. operations' = [operations EXCEPT ![o] = rec] /\ UNCHANGED <<made, expired>>
    BY <1>5, <2>2, <2>4 DEF Advance
  <2> QED
    BY <2>3, <2>5, <2>6, ReplacedBounded
<1>6. ASSUME NEW o \in DOMAIN operations, IssueReceipt(o) PROVE ServerBounded'
  <2>1. operations[o] \in OperationRecord
    BY RecordsTyped
  <2>2. PICK rec : rec = [operations[o] EXCEPT !.receipted = TRUE]
    OBVIOUS
  <2>3. rec.proposal = operations[o].proposal /\ rec.revision = operations[o].revision
    BY <2>1, <2>2 DEF OperationRecord
  <2>4. operations' = [operations EXCEPT ![o] = rec] /\ UNCHANGED <<made, expired>>
    BY <1>6, <2>2 DEF IssueReceipt
  <2>5. rec.revision <= MaxRevision
    BY <2>3 DEF ServerBounded
  <2> QED
    BY <2>3, <2>4, <2>5, ReplacedBounded
<1> QED
  BY <1>1, <1>2, <1>3, <1>4, <1>5, <1>6 DEF ServerWrites

LEMMA WritesGrow ==
    ASSUME ServerTyped, ServerWrites
    PROVE  ServerGrows
<1>1. UNCHANGED server => ServerGrows
  BY StandsStill DEF server
<1>2. ASSUME NEW p \in DOMAIN made, Expire(p) PROVE ServerGrows
  BY <1>2, StandsStill DEF Expire
<1>3. ASSUME NEW p \in DOMAIN made, Reserve(p) PROVE ServerGrows
  BY <1>3, ReservedGrows
<1> QED
  BY <1>1, <1>2, <1>3, PreparedGrows, ApprovedGrows, AdvancedGrows, ReceiptedGrows
     DEF ServerWrites

(* Whatever the step, this is all that is ever written on the server.      *)
LEMMA NextWrites == ViewInv /\ Next => ServerWrites
<1> SUFFICES ASSUME ViewInv, Next PROVE ServerWrites
  OBVIOUS
<1> USE DEF ServerWrites
<1>1. CASE Elsewhere
  BY <1>1 DEF Elsewhere
<1>2. CASE Dispatcher \/ LateReport
  BY <1>2 DEF Dispatcher, RunAction, UpdateAccess, Begin, ChooseCase, Retry,
              loadWorkspace, LateReport
<1>3. CASE LoadStep
  <2>1. load.pc = "recording" => load.target \in DOMAIN operations
    BY DEF ViewInv, LoadKnows, Names
  <2> QED
    BY <1>3, <2>1 DEF LoadStep, SessionStarted, CaseRead, CaseShown,
                      LoadReadsReceipt, ReceiptShown, LoadFails
<1>4. CASE Acts
  <2>1. /\ action.case \in Cases
        /\ action.pc = "reserving" => action.kind \in {"approve", "reserve"}
        /\ action.pc = "sending" => action.kind = "dispatch"
        /\ action.pc = "recording" => action.kind \in {"reconcile", "view_receipt"}
        /\ action.kind \in {"approve", "reserve"} => action.target \in DOMAIN made
        /\ action.kind \in {"dispatch", "reconcile", "view_receipt"}
             => action.target \in DOMAIN operations
    BY DEF ViewInv, ActionKnows, Names
  <2>2. CASE \/ PassesGuard \/ FindsApproval \/ CaseAnswered \/ ActionShown
             \/ ActionEnds \/ GivesUp
    BY <2>2 DEF PassesGuard, FindsApproval, CaseAnswered, ActionShown, ActionEnds,
                GivesUp
  <2>3. CASE PalRuns
    BY <2>1, <2>3 DEF PalRuns
  <2>4. CASE ApprovesProposal \/ Reserves
    BY <2>1, <2>4 DEF ApprovesProposal, Asked, Reserves
  <2>5. CASE Claims \/ Sends \/ Reconciles
    <3>1. action.target \in DOMAIN operations
      BY <2>1, <2>5 DEF Claims, Sends, Reconciles, Asked
    <3>2. UNCHANGED server \/ \E to \in OperationStates : Advance(action.target, to)
      BY <2>5 DEF Claims, Sends, Reconciles, OperationStates
    <3> QED
      BY <3>1, <3>2
  <2>6. CASE RecordsReceipt
    BY <2>1, <2>6 DEF RecordsReceipt
  <2> QED
    BY <1>4, <2>2, <2>3, <2>4, <2>5, <2>6 DEF Acts, RouteStep
<1> QED
  BY <1>1, <1>2, <1>3, <1>4, NextIs

-----------------------------------------------------------------------------
(* Tasks.                                                                  *)
LEMMA TaskIs ==
    ASSUME NEW pc \in Places, NEW kind \in Kinds, NEW c \in Cases,
           NEW target \in 0..MaxProposals, NEW access \in Access,
           NEW answer \in Views \cup {None}, NEW r \in Receipts \cup {None}
    PROVE  [pc |-> pc, kind |-> kind, case |-> c, target |-> target,
            access |-> access, answer |-> answer, receipt |-> r] \in Tasks
  BY DEF Tasks

LEMMA TaskMoves ==
    ASSUME NEW t \in Tasks, NEW pc \in Places
    PROVE  /\ [t EXCEPT !.pc = pc] \in Tasks
           /\ \A answer \in Views \cup {None} :
                /\ [t EXCEPT !.pc = pc, !.answer = answer] \in Tasks
                /\ [t EXCEPT !.answer = answer, !.pc = pc] \in Tasks
           /\ \A target \in 0..MaxProposals :
                [t EXCEPT !.pc = pc, !.target = target] \in Tasks
           /\ \A access \in Access :
                [t EXCEPT !.pc = pc, !.access = access] \in Tasks
           /\ \A r \in Receipts \cup {None} :
                /\ [t EXCEPT !.pc = pc, !.receipt = r] \in Tasks
                /\ [t EXCEPT !.receipt = r, !.pc = pc] \in Tasks
  BY DEF Tasks

LEMMA NoTaskTyped == NoTask \in Tasks
<1>1. "unrecorded" \in Access /\ Home \in Cases /\ 0 \in 0..MaxProposals
  BY WorkspaceAssumption DEF Access
<1>2. "idle" \in Places /\ "none" \in Kinds
  BY DEF Places, Kinds
<1>3. None \in Views \cup {None} /\ None \in Receipts \cup {None}
  OBVIOUS
<1> QED
  BY <1>1, <1>2, <1>3, TaskIs DEF NoTask

LEMMA BegunTyped ==
    ASSUME NEW c \in Cases, NEW pc \in Places, NEW kind \in Kinds,
           NEW target \in 0..MaxProposals, NEW access \in Access
    PROVE  [NoTask EXCEPT !.pc = pc, !.kind = kind, !.case = c, !.target = target,
                             !.access = access] \in Tasks
  BY NoTaskTyped DEF Tasks

LEMMA LoadingTyped == \A c \in Cases : Loading(c) \in Tasks
<1> SUFFICES ASSUME NEW c \in Cases PROVE Loading(c) \in Tasks
  OBVIOUS
<1>1. "session" \in Places /\ "load" \in Kinds
  BY DEF Places, Kinds
<1>2. [NoTask EXCEPT !.pc = "session", !.kind = "load", !.case = c] \in Tasks
  BY <1>1, NoTaskTyped DEF Tasks
<1> QED
  BY <1>2 DEF Loading

LEMMA InitTypes == Init => TypesInv
<1> SUFFICES ASSUME Init PROVE TypesInv
  OBVIOUS
<1>1. Loading(Home) \in Tasks /\ NoTask \in Tasks
  BY NoTaskTyped, LoadingTyped, WorkspaceAssumption
<1>2. ServerBounded
  BY WorkspaceAssumption DEF Init, ServerBounded, OneEach
<1>3. SessionHeld
  BY DEF Init, SessionHeld, Loading, NoTask
<1> QED
  BY <1>1, <1>2, <1>3, InitKnows, WorkspaceAssumption DEF Init, TypesInv, BrowserTyped

-----------------------------------------------------------------------------
(* A step preserves the types.                                             *)
LEMMA ElsewhereTypes == TypesInv /\ Elsewhere => TypesInv'
<1> SUFFICES ASSUME TypesInv, Elsewhere PROVE TypesInv'
  OBVIOUS
<1>1. ServerWrites
  BY DEF Elsewhere, ServerWrites
<1>2. ServerBounded'
  BY <1>1, WritesBounded DEF TypesInv, ViewInv
<1>3. BrowserTyped'
  <2>1. /\ UNCHANGED <<reports, loadState, actionState, caseView, receipt>>
        /\ UNCHANGED <<load, action>>
    BY DEF Elsewhere, screen
  <2>2. moves' \in 0..MaxMoves /\ disturbed' \in BOOLEAN
    BY WorkspaceAssumption DEF Elsewhere, TypesInv, BrowserTyped
  <2> QED
    BY <2>1, <2>2 DEF TypesInv, BrowserTyped, SessionHeld
<1> QED
  BY <1>2, <1>3, ElsewhereKnows DEF TypesInv

(* What is needed of a step that the browser takes.                        *)
LEMMA StepTypes ==
    ASSUME TypesInv, Next, BrowserTyped'
    PROVE  TypesInv'
<1>1. ServerBounded'
  BY NextWrites, WritesBounded DEF TypesInv, ViewInv
<1> QED
  BY <1>1, NextKnows DEF TypesInv

LEMMA DispatcherTypes ==
    ASSUME TypesInv, Next, Dispatcher, UNCHANGED moves
    PROVE  TypesInv'
<1>1. UNCHANGED <<server, disturbed, moves, caseView, receipt, reports>>
  BY DEF Dispatcher, RunAction, UpdateAccess, Begin, ChooseCase, Retry, loadWorkspace,
         history
<1>2. /\ BrowserTyped /\ Home \in Cases
      /\ caseView # None => caseView \in Views
  BY WorkspaceAssumption DEF TypesInv, BrowserTyped
<1>3. ASSUME NEW k \in Kinds, NEW t \in 0..MaxProposals, NEW a \in Access,
             caseView # None, Begin(k, t, a)
      PROVE  BrowserTyped'
  <2>1. caseView.case \in Cases
    BY <1>2, <1>3 DEF Views
  <2>2. action' \in Tasks
    BY <1>3, <2>1, BegunTyped DEF history, Begin, Places
  <2>3. actionState' = "working" /\ UNCHANGED <<loadState, load>>
    BY <1>3 DEF history, Begin
  <2> QED
    BY <1>1, <1>2, <1>3, <2>2, <2>3 DEF BrowserTyped, SessionHeld
<1>4. ASSUME RunAction PROVE BrowserTyped'
  <2> DEFINE kind == nextOperatorAction(caseView)
             target == CASE kind = "prepare"              -> 0
                         [] kind \in {"approve", "reserve"} -> caseView.proposal
                         [] OTHER                         -> caseView.operation
  <2>1. caseView # None /\ kind # None /\ Begin(kind, target, "unrecorded")
    BY <1>4 DEF RunAction
  <2>2. kind \in Kinds
    BY <2>1 DEF nextOperatorAction, Kinds
  <2>3. /\ caseView.proposal \in 0..MaxProposals /\ caseView.operation \in 0..MaxProposals
        /\ 0 \in 0..MaxProposals
    BY <1>2, <2>1, WorkspaceAssumption DEF Views
  <2>4. target \in 0..MaxProposals
    BY <2>3
  <2>5. "unrecorded" \in Access
    BY DEF Access
  <2> HIDE DEF kind, target
  <2> QED
    BY <1>3, <2>1, <2>2, <2>4, <2>5
<1>5. ASSUME NEW access \in Reports, UpdateAccess(access) PROVE BrowserTyped'
  <2>1. "evidence" \in Kinds /\ access \in Access /\ 0 \in 0..MaxProposals
    BY WorkspaceAssumption DEF Kinds, Access
  <2> QED
    BY <1>3, <1>5, <2>1 DEF UpdateAccess
<1>6. ASSUME NEW c \in Cases, loadWorkspace(c) PROVE BrowserTyped'
  <2>1. load' = Loading(c) /\ loadState' = "loading" /\ UNCHANGED <<actionState, action>>
    BY <1>6 DEF history, loadWorkspace
  <2>2. load' \in Tasks
    BY <2>1, LoadingTyped
  <2>3. load'.pc = "session"
    BY <2>1 DEF Loading, NoTask
  <2> QED
    BY <1>1, <1>2, <2>1, <2>2, <2>3 DEF BrowserTyped, SessionHeld
<1>7. BrowserTyped'
  <2>1. CASE \E access \in Reports : UpdateAccess(access)
    BY <1>5, <2>1
  <2>2. CASE (\E c \in Cases : ChooseCase(c)) \/ Retry
    <3>1. PICK c \in Cases : loadWorkspace(c)
      BY <1>2, <2>2 DEF ChooseCase, Retry
    <3> QED
      BY <1>6, <3>1
  <2> QED
    BY <1>4, <2>1, <2>2 DEF Dispatcher
<1> QED
  BY <1>7, StepTypes

LEMMA LoadStepTypes ==
    ASSUME TypesInv, Next, LoadStep, UNCHANGED moves
    PROVE  TypesInv'
<1>1. /\ ServerTyped /\ ServerBounded /\ BrowserTyped
      /\ LoadKnows(load, caseView, made, operations)
      /\ load \in Tasks
  BY DEF TypesInv, ViewInv, BrowserTyped
<1>2. Next
  OBVIOUS
<1>3. action = NoTask /\ UNCHANGED action
  BY LoadKeepsTo DEF TypesInv
<1> USE DEF Places
<1>4. CASE SessionStarted
  <2>1. /\ load' = [load EXCEPT !.pc = "case"]
        /\ reports' = Append(reports, [c \in Cases |-> "unrecorded"])
        /\ UNCHANGED <<server, loadState, actionState, caseView, receipt, disturbed>>
    BY <1>4 DEF history, SessionStarted, screen
  <2>2. [c \in Cases |-> "unrecorded"] \in [Cases -> Access]
    BY DEF Access
  <2>3. reports' \in Seq([Cases -> Access]) /\ Len(reports') > 0
    BY <1>1, <2>1, <2>2 DEF BrowserTyped
  <2>4. load' \in Tasks
    BY <1>1, <2>1, TaskMoves
  <2>5. BrowserTyped'
    BY <1>1, <1>3, <2>1, <2>3, <2>4 DEF BrowserTyped, SessionHeld
  <2> QED
    BY <1>2, <2>1, <2>5, StepTypes
<1>5. CASE CaseRead
  <2>1. /\ load.pc = "case" /\ disturbed' = FALSE
        /\ load' = [load EXCEPT !.pc = "read", !.answer = operatorCaseView(load.case)]
        /\ UNCHANGED <<server, reports, loadState, actionState, caseView, receipt>>
    BY <1>5 DEF CaseRead, screen
  <2>2. operatorCaseView(load.case) \in Views
    BY <1>1, <2>1, ViewTyped DEF BrowserTyped, SessionHeld, Tasks
  <2>3. load' \in Tasks
    BY <1>1, <2>1, <2>2, TaskMoves
  <2>4. BrowserTyped'
    BY <1>1, <1>3, <2>1, <2>3 DEF BrowserTyped, SessionHeld
  <2> QED
    BY <1>2, <2>1, <2>4, StepTypes
<1>6. CASE CaseShown
  <2> DEFINE v == load.answer
  <2>1. /\ load.pc = "read" /\ caseView' = v
        /\ UNCHANGED <<server, reports, actionState, disturbed>>
        /\ \/ /\ load' = [load EXCEPT !.pc = "receipt", !.target = v.operation]
              /\ v.operation # 0
              /\ UNCHANGED <<loadState, receipt>>
           \/ load' = NoTask /\ loadState' = "ready" /\ receipt' = None
    BY <1>6 DEF history, CaseShown
  <2>2. v \in Views \cup {None} /\ Sound(v, made, operations)
    BY <1>1, <2>1 DEF LoadKnows, Answers, Tasks
  <2>3. v.operation # 0 => v.operation \in 0..MaxProposals
    BY <1>1, <2>2, NumbersBounded DEF Sound, Names
  <2>4. load' \in Tasks
    <3>1. ASSUME v.operation # 0, load' = [load EXCEPT !.pc = "receipt", !.target = v.operation]
          PROVE  load' \in Tasks
      BY <1>1, <2>3, <3>1, TaskMoves
    <3> QED
      BY <2>1, <3>1, NoTaskTyped
  <2>5. Len(reports) > 0
    BY <1>1, <2>1 DEF BrowserTyped, SessionHeld
  <2> HIDE DEF v
  <2>6. BrowserTyped'
    BY <1>1, <1>3, <2>1, <2>2, <2>4, <2>5 DEF BrowserTyped, SessionHeld
  <2> QED
    BY <1>2, <2>1, <2>6, StepTypes
<1>7. CASE LoadReadsReceipt
  <2>1. CASE load.pc = "receipt"
    <3>1. /\ load' = [load EXCEPT !.pc = "recording", !.answer = operatorCaseView(load.case)]
          /\ disturbed' = FALSE
          /\ UNCHANGED <<server, reports, loadState, actionState, caseView, receipt>>
      BY <1>7, <2>1 DEF history, LoadReadsReceipt, screen
    <3>2. operatorCaseView(load.case) \in Views
      BY <1>1, <2>1, ViewTyped DEF BrowserTyped, SessionHeld, Tasks
    <3>3. load' \in Tasks
      BY <1>1, <3>1, <3>2, TaskMoves
    <3>4. BrowserTyped'
      BY <1>1, <1>3, <2>1, <3>1, <3>3 DEF BrowserTyped, SessionHeld
    <3> QED
      BY <1>2, <3>1, <3>4, StepTypes
  <2>2. CASE load.pc = "recording"
    <3>1. /\ load' = [load EXCEPT !.pc = "receipted", !.receipt = ReceiptOf(load.target)]
          /\ IssueReceipt(load.target)
          /\ UNCHANGED <<reports, loadState, actionState, caseView, receipt, disturbed>>
      BY <1>7, <2>2 DEF history, LoadReadsReceipt, screen
    <3>2. load.target \in DOMAIN operations
      BY <1>1, <2>2 DEF LoadKnows, Names
    <3>3. load' \in Tasks
      BY <1>1, <3>1, <3>2, ReceiptTyped, TaskMoves
    <3>4. BrowserTyped'
      BY <1>1, <1>3, <2>2, <3>1, <3>3 DEF BrowserTyped, SessionHeld
    <3> QED
      BY <1>2, <3>4, StepTypes
  <2> QED
    BY <1>7, <2>1, <2>2 DEF history, LoadReadsReceipt
<1>8. CASE ReceiptShown
  <2>1. /\ load.pc = "receipted" /\ caseView' = load.answer /\ receipt' = load.receipt
        /\ loadState' = "ready" /\ load' = NoTask
        /\ UNCHANGED <<server, reports, actionState, disturbed>>
    BY <1>8 DEF history, ReceiptShown
  <2>2. load.answer \in Views \cup {None} /\ load.receipt \in Receipts \cup {None}
    BY <1>1 DEF Tasks
  <2>3. Len(reports) > 0
    BY <1>1, <2>1 DEF BrowserTyped, SessionHeld
  <2>4. BrowserTyped'
    BY <1>1, <1>3, <2>1, <2>2, <2>3, NoTaskTyped DEF BrowserTyped, SessionHeld
  <2> QED
    BY <1>2, <2>1, <2>4, StepTypes
<1>9. CASE LoadFails
  <2>1. /\ loadState' = "error" /\ load' = NoTask /\ disturbed' = TRUE
        /\ UNCHANGED <<server, reports, actionState, caseView, receipt>>
    BY <1>9 DEF LoadFails
  <2>2. NoTask.pc = "idle"
    BY DEF NoTask
  <2>3. BrowserTyped'
    BY <1>1, <1>3, <2>1, <2>2, NoTaskTyped DEF BrowserTyped, SessionHeld
  <2> QED
    BY <1>2, <2>1, <2>3, StepTypes
<1> QED
  BY <1>4, <1>5, <1>6, <1>7, <1>8, <1>9 DEF LoadStep

LEMMA ActionStepTypes ==
    ASSUME TypesInv, Next, Acts, moves' \in 0..MaxMoves
    PROVE  TypesInv'
<1>1. /\ ServerTyped /\ ServerBounded /\ BrowserTyped
      /\ ActionKnows(action, caseView, made, operations)
      /\ action \in Tasks
  BY DEF TypesInv, ViewInv, BrowserTyped
<1>2. Next
  OBVIOUS
<1>3. /\ action # NoTask /\ load = NoTask /\ load' = NoTask /\ Len(reports) > 0
      /\ load \in Tasks /\ loadState' = loadState
  BY <1>1, ActionKeepsTo DEF TypesInv, BrowserTyped, SessionHeld
<1>4. action.case \in Cases /\ action.access \in Access
  BY <1>1 DEF Tasks
<1>5. /\ action.kind \in {"approve", "reserve"} => action.target \in DOMAIN made
      /\ action.kind \in {"dispatch", "reconcile", "view_receipt"}
           => action.target \in DOMAIN operations
  BY <1>1 DEF ActionKnows, Names
<1>6. ASSUME action' \in Tasks, UNCHANGED <<reports, screen>>,
             disturbed' \in BOOLEAN
      PROVE  TypesInv'
  <2>1. BrowserTyped'
    BY <1>1, <1>3, <1>6 DEF BrowserTyped, SessionHeld, screen
  <2> QED
    BY <1>2, <1>6, <2>1, StepTypes
<1>7. ASSUME NEW pc \in Places, Goes(pc) PROVE action' \in Tasks
  BY <1>1, <1>7, TaskMoves DEF Goes
<1>8. {"running", "reading", "reserving", "sending", "refused", "recording",
       "answered", "listing"} \subseteq Places
  BY DEF Places
<1>9. disturbed \in BOOLEAN
  BY <1>1 DEF BrowserTyped
<1>10. CASE PassesGuard
  <2> DEFINE access == IF action.kind = "evidence" THEN action.access
                         ELSE reports[session][action.case]
  <2>1. /\ reports' = [reports EXCEPT ![session][action.case] = access]
        /\ action' = [action EXCEPT !.pc = "running", !.access = access]
        /\ UNCHANGED <<server, loadState, actionState, caseView, receipt, disturbed>>
    BY <1>10 DEF history, PassesGuard, screen
  <2>2. /\ session \in DOMAIN reports
        /\ \A s \in DOMAIN reports : reports[s] \in [Cases -> Access]
    BY <1>1, <1>3 DEF session, BrowserTyped
  <2>3. access \in Access
    BY <1>4, <2>2
  <2> HIDE DEF access
  <2>4. /\ [reports[session] EXCEPT ![action.case] = access] \in [Cases -> Access]
        /\ reports' = [reports EXCEPT
             ![session] = [reports[session] EXCEPT ![action.case] = access]]
    BY <1>4, <2>1, <2>2, <2>3
  <2>5. reports' \in Seq([Cases -> Access]) /\ Len(reports') = Len(reports)
    BY <1>1, <2>2, <2>4 DEF BrowserTyped
  <2>6. action' \in Tasks
    BY <1>1, <1>8, <2>1, <2>3, TaskMoves
  <2>7. BrowserTyped'
    BY <1>1, <1>3, <2>1, <2>5, <2>6 DEF BrowserTyped, SessionHeld
  <2> QED
    BY <1>2, <2>1, <2>7, StepTypes
<1>11. CASE PalRuns
  <2>1. Goes("reading") /\ UNCHANGED <<reports, screen, disturbed>>
    BY <1>11 DEF history, PalRuns
  <2> QED
    BY <1>6, <1>7, <1>8, <1>9, <2>1
<1>12. CASE ApprovesProposal
  <2>1. Goes("reserving") /\ UNCHANGED <<reports, screen, disturbed>>
    BY <1>12 DEF history, ApprovesProposal
  <2> QED
    BY <1>6, <1>7, <1>8, <1>9, <2>1
<1>13. CASE FindsApproval
  <2>1. Goes("reserving") /\ UNCHANGED <<server, reports, screen, disturbed>>
    BY <1>13 DEF history, FindsApproval
  <2> QED
    BY <1>6, <1>7, <1>8, <1>9, <2>1
<1>14. CASE Reserves
  <2>1. Goes("reading") /\ UNCHANGED <<reports, screen, disturbed>>
    BY <1>14 DEF history, Reserves
  <2> QED
    BY <1>6, <1>7, <1>8, <1>9, <2>1
<1>15. CASE Claims \/ Sends \/ Reconciles
  <2>1. /\ \E pc \in {"sending", "refused", "reading", "recording"} : Goes(pc)
        /\ UNCHANGED <<reports, screen, disturbed>>
    BY <1>15 DEF history, Claims, Sends, Reconciles
  <2> QED
    BY <1>6, <1>7, <1>8, <1>9, <2>1
<1>16. CASE RecordsReceipt
  <2> DEFINE pc == IF action.kind = "reconcile" THEN "reading" ELSE "answered"
  <2>1. /\ action' = [action EXCEPT !.receipt = ReceiptOf(action.target), !.pc = pc]
        /\ IssueReceipt(action.target)
        /\ UNCHANGED <<reports, screen, disturbed>>
    BY <1>16 DEF history, RecordsReceipt
  <2>2. action.target \in DOMAIN operations
    BY <1>1, <1>5, <1>16 DEF history, RecordsReceipt, ActionKnows
  <2>3. ReceiptOf(action.target) \in Receipts /\ pc \in Places
    BY <1>1, <1>8, <2>2, ReceiptTyped
  <2> HIDE DEF pc
  <2>4. action' \in Tasks
    BY <1>1, <2>1, <2>3, TaskMoves
  <2> QED
    BY <1>6, <1>9, <2>1, <2>4
<1>17. CASE CaseAnswered
  <2> DEFINE pc == IF action.kind = "view_receipt" THEN "recording" ELSE "answered"
  <2>1. /\ action' = [action EXCEPT !.answer = operatorCaseView(action.case), !.pc = pc]
        /\ disturbed' = FALSE
        /\ UNCHANGED <<server, reports, screen>>
    BY <1>17 DEF CaseAnswered
  <2>2. operatorCaseView(action.case) \in Views /\ pc \in Places
    BY <1>1, <1>3, <1>4, <1>8, ViewTyped DEF BrowserTyped
  <2> HIDE DEF pc
  <2>3. action' \in Tasks
    BY <1>1, <2>1, <2>2, TaskMoves
  <2> QED
    BY <1>6, <2>1, <2>3
<1>18. CASE ActionShown
  <2>1. /\ Goes("listing") /\ caseView' = action.answer
        /\ UNCHANGED <<server, reports, actionState, receipt, disturbed>>
    BY <1>18 DEF history, ActionShown
  <2>2. action.answer \in Views \cup {None}
    BY <1>1 DEF Tasks
  <2>3. action' \in Tasks
    BY <1>7, <1>8, <2>1
  <2>4. BrowserTyped'
    BY <1>1, <1>3, <2>1, <2>2, <2>3 DEF BrowserTyped, SessionHeld
  <2> QED
    BY <1>2, <2>1, <2>4, StepTypes
<1>19. CASE ActionEnds
  <2>1. /\ receipt' = action.receipt \/ receipt' = receipt
        /\ actionState' = "idle" /\ action' = NoTask
        /\ UNCHANGED <<server, reports, caseView, disturbed>>
    BY <1>19 DEF history, ActionEnds
  <2>2. action.receipt \in Receipts \cup {None}
    BY <1>1 DEF Tasks
  <2>3. BrowserTyped'
    BY <1>1, <1>3, <2>1, <2>2, NoTaskTyped DEF BrowserTyped, SessionHeld
  <2> QED
    BY <1>2, <2>1, <2>3, StepTypes
<1>20. CASE GivesUp
  <2>1. /\ actionState' = "idle" /\ action' = NoTask /\ disturbed' = TRUE
        /\ UNCHANGED <<server, reports, caseView, receipt>>
    BY <1>20 DEF GivesUp
  <2>2. BrowserTyped'
    BY <1>1, <1>3, <2>1, NoTaskTyped DEF BrowserTyped, SessionHeld
  <2> QED
    BY <1>2, <2>1, <2>2, StepTypes
<1> QED
  BY <1>10, <1>11, <1>12, <1>13, <1>14, <1>15, <1>16, <1>17, <1>18, <1>19, <1>20
     DEF Acts, RouteStep

LEMMA LateReportTypes ==
    ASSUME TypesInv, PastTyped, Next, LateReport
    PROVE  TypesInv'
<1>1. /\ reports' \in Seq([Cases -> Access]) /\ Len(reports') = Len(reports)
      /\ disturbed' \in BOOLEAN
  BY LateIsRecorded DEF PastTyped, TypesInv, BrowserTyped
<1>2. UNCHANGED <<loadState, actionState, caseView, receipt, load, action, moves>>
  BY DEF LateReport, screen
<1>3. BrowserTyped'
  BY <1>1, <1>2 DEF TypesInv, BrowserTyped, SessionHeld
<1> QED
  BY <1>3, StepTypes

LEMMA NextTypes == TypesInv /\ PastTyped /\ [Next]_vars => TypesInv'
<1> SUFFICES ASSUME TypesInv, PastTyped, [Next]_vars PROVE TypesInv'
  OBVIOUS
<1>1. moves \in 0..MaxMoves
  BY DEF TypesInv, BrowserTyped
<1>2. CASE UNCHANGED vars
  <2>1. ViewInv'
    BY NextKnows DEF TypesInv
  <2> QED
    BY <1>2, <2>1 DEF TypesInv, vars, server, screen, history, ServerBounded,
                      OneEach, BrowserTyped, SessionHeld
<1>3. CASE Next /\ (Dispatcher \/ LoadStep) /\ UNCHANGED moves
  BY <1>3, DispatcherTypes, LoadStepTypes
<1>4. CASE Next /\ ActionStep
  BY <1>1, <1>4, ActionStepTypes DEF ActionStep, ActionFails, Acts
<1>5. CASE Next /\ GivesUpReport
  <2>1. moves' \in 0..MaxMoves
    BY <1>1, <1>5, WorkspaceAssumption DEF GivesUpReport
  <2> QED
    BY <1>5, <2>1, ActionStepTypes DEF GivesUpReport, Acts
<1> QED
  BY <1>2, <1>3, <1>4, <1>5, LateReportTypes, ElsewhereTypes DEF Next

-----------------------------------------------------------------------------
(* What is kept of the past stays of what there is.                        *)
LEMMA InitPast == Init => PastTyped
  BY DEF Init, PastTyped, ReportsTyped

(* Only a load is issued a session; no session is ever gone.               *)
LEMMA SessionsStay ==
    ASSUME TypesInv, PastTyped, Next
    PROVE  \A s \in DOMAIN reports : s \in DOMAIN reports'
<1>1. reports \in Seq([Cases -> Access])
  BY DEF TypesInv, BrowserTyped
<1>2. CASE SessionStarted
  BY <1>1, <1>2 DEF SessionStarted
<1>3. CASE PassesGuard
  BY <1>1, <1>3 DEF PassesGuard
<1>4. CASE LateReport
  BY <1>1, <1>4 DEF LateReport
<1>5. UNCHANGED reports \/ SessionStarted \/ PassesGuard \/ LateReport
  BY NextIs
     DEF Elsewhere, Dispatcher, RunAction, UpdateAccess, Begin, ChooseCase, Retry,
         loadWorkspace, LoadStep, CaseRead, CaseShown, LoadReadsReceipt,
         ReceiptShown, LoadFails, Acts, RouteStep, PalRuns, ApprovesProposal,
         FindsApproval, Reserves, Claims, Sends, Reconciles, RecordsReceipt,
         CaseAnswered, ActionShown, ActionEnds, GivesUp
<1> QED
  BY <1>2, <1>3, <1>4, <1>5

LEMMA NextPast == TypesInv /\ PastTyped /\ [Next]_vars => PastTyped'
<1> SUFFICES ASSUME TypesInv, PastTyped, [Next]_vars PROVE PastTyped'
  OBVIOUS
<1>1. CASE UNCHANGED vars
  BY <1>1 DEF vars, server, history, PastTyped, ReportsTyped
<1>2. CASE Next
  <2>1. /\ reports' \in Seq([Cases -> Access])
        /\ \A s \in DOMAIN reports : s \in DOMAIN reports'
    BY <1>2, SessionsStay, NextTypes DEF TypesInv, BrowserTyped
  <2>2. \A r \in late' : r \in late \/ r \in [session : DOMAIN reports, case : Cases,
                                              access : Access]
    <3>1. CASE GivesUpReport
      <4>1. /\ late' = late \cup {[session |-> session, case |-> action.case,
                                   access |-> action.access]}
            /\ action # NoTask
        BY <3>1 DEF GivesUpReport, GivesUp
      <4>2. session \in DOMAIN reports
        BY <4>1 DEF session, TypesInv, BrowserTyped, SessionHeld
      <4>3. action.case \in Cases /\ action.access \in Access
        BY DEF TypesInv, BrowserTyped, Tasks
      <4> QED
        BY <4>1, <4>2, <4>3
    <3>2. ~GivesUpReport => late' \subseteq late
      BY <1>2 DEF Next, ActionStep, ActionFails, LateReport, Elsewhere
    <3> QED
      BY <3>1, <3>2
  <2>3. \A o \in DOMAIN operations : o \in DOMAIN operations'
    BY <1>2, NextWrites, WritesGrow DEF TypesInv, ViewInv, ServerGrows
  <2>4. overtaken' \subseteq overtaken \cup DOMAIN operations'
    <3>1. CASE Elsewhere
      BY <3>1 DEF Elsewhere
    <3>2. CASE CaseRead
      BY <3>2 DEF CaseRead
    <3>3. UNCHANGED overtaken \/ Elsewhere \/ CaseRead
      BY <1>2, NextIs
         DEF LateReport, Dispatcher, RunAction, UpdateAccess, Begin, ChooseCase,
             Retry, loadWorkspace, LoadStep, SessionStarted, CaseShown,
             LoadReadsReceipt, ReceiptShown, LoadFails, Acts, RouteStep,
             PassesGuard, PalRuns, ApprovesProposal, FindsApproval, Reserves, Claims,
             Sends, Reconciles, RecordsReceipt, CaseAnswered, ActionShown,
             ActionEnds, GivesUp, history
    <3> QED
      BY <3>1, <3>2, <3>3
  <2>5. overtaken' \subseteq DOMAIN operations'
    BY <2>3, <2>4 DEF PastTyped
  <2>6. late' \subseteq [session : DOMAIN reports', case : Cases, access : Access]
    BY <2>1, <2>2 DEF PastTyped, ReportsTyped
  <2> QED
    BY <2>1, <2>5, <2>6 DEF PastTyped, ReportsTyped
<1> QED
  BY <1>1, <1>2

(* Every part of the workspace has its type, and what an action names is   *)
(* there: executeAction never misses a record that the screen offers.      *)
THEOREM TypeCorrect == Spec => []TypeOK
<1>1. TypesInv /\ PastTyped => TypeOK
  BY TypesFollow
<1> QED
  BY <1>1, InitTypes, InitPast, NextTypes, NextPast, PTL DEF Spec

(* When the browser waits for nothing, no answer was lost and nobody else  *)
(* has moved, it shows what the server would answer.                       *)
THEOREM ScreenIsTrue == Spec => []ShownIsCurrent
<1>1. ASSUME CurrentInv PROVE ShownIsCurrent
  <2> SUFFICES ASSUME loadState = "ready", Quiet, ~disturbed
               PROVE  LET now == operatorCaseView(caseView.case)
                      IN  \/ caseView = now
                          \/ /\ caseView.operation # 0
                             /\ receipt = ReceiptOf(caseView.operation)
                             /\ caseView = [now EXCEPT !.receiptAvailable = FALSE]
    BY DEF ShownIsCurrent
  <2>1. CurrentWith(caseView, receipt, Now) /\ Sound(caseView, made, operations)
    BY <1>1 DEF CurrentInv, ShownCurrent
  <2>2. Now[caseView.case] = operatorCaseView(caseView.case)
    BY <2>1 DEF Sound, Now
  <2>3. caseView.operation # 0
          => ReceiptOf(caseView.operation)
               = [case |-> caseView.case, operation |-> caseView.operation]
    BY <2>1 DEF Sound, Names, ReceiptOf, CaseOfOperation
  <2> QED
    BY <2>1, <2>2, <2>3 DEF CurrentWith, Pending
<1>2. PastTyped => ReportsTyped
  BY DEF PastTyped
<1> QED
  BY <1>1, <1>2, InitCurrent, NextCurrent, InitTypes, InitPast, NextTypes, NextPast,
     PTL DEF Spec

-----------------------------------------------------------------------------
(* A receipt is shown beside its own operation, or beside one that others  *)
(* have made since.                                                        *)

(* What is newer of the case c than operation n, others have made.         *)
OthersMade(c, n, ms, ops, ov) ==
    \A o : Names(o, c, ms, ops) /\ n < o => o \in ov

(* A receipt, shown or under way, is of such an operation.                 *)
ReceiptLater(r, ms, ops, ov) ==
    r # None => r.operation # 0 /\ OthersMade(r.case, r.operation, ms, ops, ov)

ShownLater(v, r, ms, ops, ov) ==
    /\ Sound(v, ms, ops)
    /\ v.operation # 0 => OthersMade(v.case, v.operation, ms, ops, ov)
    /\ ReceiptLater(r, ms, ops, ov)

LoadLater(t, ms, ops, ov) ==
    /\ t.pc \in {"read", "receipt", "recording", "receipted"}
         => OthersMade(t.case, t.answer.operation, ms, ops, ov)
    /\ t.pc \in {"receipt", "recording"} => OthersMade(t.case, t.target, ms, ops, ov)
    /\ t.pc = "receipted" => ReceiptLater(t.receipt, ms, ops, ov)

(* The dispatcher reserves only where no operation is shown, and a receipt *)
(* comes only of an action on the operation that is.                       *)
ActionLater(t, v, ms, ops, ov) ==
    /\ t.kind \in {"approve", "reserve"} /\ t.pc \in {"sent", "reserving"}
         => v.operation = 0
    /\ t.kind \in {"dispatch", "reconcile", "view_receipt"}
         => OthersMade(t.case, t.target, ms, ops, ov)
    /\ t.receipt # None => t.kind \in {"reconcile", "view_receipt"}
    /\ ReceiptLater(t.receipt, ms, ops, ov)
    /\ t.pc = "answered" \/ (t.pc = "recording" /\ t.kind = "view_receipt")
         => OthersMade(t.case, t.answer.operation, ms, ops, ov)

LaterInv ==
    /\ loadState = "ready" => ShownLater(caseView, receipt, made, operations, overtaken)
    /\ LoadLater(load, made, operations, overtaken)
    /\ ActionLater(action, caseView, made, operations, overtaken)

(* All that a step adds to the operations, it adds as others'.             *)
Followed ==
    /\ ServerGrows
    /\ overtaken \subseteq overtaken'
    /\ \A o \in DOMAIN operations' : o \in DOMAIN operations \/ o \in overtaken'

LEMMA OthersStay ==
    ASSUME ServerTyped, Followed, NEW c, NEW n,
           OthersMade(c, n, made, operations, overtaken)
    PROVE  OthersMade(c, n, made', operations', overtaken')
<1> SUFFICES ASSUME NEW o, Names(o, c, made', operations'), n < o
             PROVE  o \in overtaken'
  BY DEF OthersMade
<1>1. CASE o \in DOMAIN operations
  <2>1. Names(o, c, made, operations)
    BY <1>1, RecordsTyped DEF Followed, ServerGrows, Names
  <2> QED
    BY <2>1 DEF OthersMade, Followed
<1> QED
  BY <1>1 DEF Followed, Names

(* The server may have grown while the browser got to know more.           *)
LEMMA FollowedInv ==
    ASSUME ServerTyped, Followed,
           loadState' = "ready"
             => ShownLater(caseView', receipt', made, operations, overtaken),
           LoadLater(load', made, operations, overtaken),
           ActionLater(action', caseView', made, operations, overtaken)
    PROVE  LaterInv'
<1>1. \A c, n : OthersMade(c, n, made, operations, overtaken)
                  => OthersMade(c, n, made', operations', overtaken')
  BY OthersStay
<1>2. \A v : Sound(v, made, operations) => Sound(v, made', operations')
  BY SoundStays DEF Followed
<1>3. \A r : ReceiptLater(r, made, operations, overtaken)
               => ReceiptLater(r, made', operations', overtaken')
  BY <1>1 DEF ReceiptLater
<1>4. loadState' = "ready"
        => ShownLater(caseView', receipt', made', operations', overtaken')
  BY <1>1, <1>2, <1>3 DEF ShownLater
<1>5. LoadLater(load', made', operations', overtaken')
  BY <1>1, <1>3 DEF LoadLater
<1>6. ActionLater(action', caseView', made', operations', overtaken')
  BY <1>1, <1>3 DEF ActionLater
<1> QED
  BY <1>4, <1>5, <1>6 DEF LaterInv

(* Only what the dispatcher reserves herself is nobody else's; and only a  *)
(* load forgets what others made.                                          *)
LEMMA StepFollows ==
    ASSUME ViewInv, Next
    PROVE  /\ Dispatcher \/ LateReport \/ Elsewhere => Followed
           /\ LoadStep => Followed \/ CaseRead
           /\ Acts => Followed \/ Reserves
<1>1. ServerGrows
  BY NextWrites, WritesGrow DEF ViewInv
<1>2. ASSUME Elsewhere PROVE Followed
  BY <1>1, <1>2 DEF Elsewhere, Followed
<1>3. ASSUME Dispatcher \/ LateReport PROVE Followed
  BY <1>1, <1>3
     DEF Followed, Dispatcher, RunAction, UpdateAccess, Begin, ChooseCase, Retry,
         loadWorkspace, LateReport, server, history
<1>4. ASSUME LoadStep PROVE Followed \/ CaseRead
  BY <1>1, <1>4
     DEF Followed, LoadStep, SessionStarted, CaseShown, LoadReadsReceipt,
         IssueReceipt, ReceiptShown, LoadFails, server, history
<1>5. ASSUME Acts PROVE Followed \/ Reserves
  BY <1>1, <1>5
     DEF Followed, Acts, RouteStep, PassesGuard, PalRuns, PrepareDecisionInputs,
         ApprovesProposal, Approve, FindsApproval, Claims, Sends, Reconciles,
         Advance, RecordsReceipt, IssueReceipt, CaseAnswered, ActionShown,
         ActionEnds, GivesUp, server, history
<1> QED
  BY <1>2, <1>3, <1>4, <1>5

LEMMA IdleLater ==
    ASSUME NEW v, NEW ms, NEW ops, NEW ov
    PROVE  LoadLater(NoTask, ms, ops, ov) /\ ActionLater(NoTask, v, ms, ops, ov)
<1>1. NoTask.pc = "idle" /\ NoTask.kind = "none" /\ NoTask.receipt = None
  BY DEF NoTask
<1> QED
  BY <1>1 DEF LoadLater, ActionLater, ReceiptLater

LEMMA LoadingLater ==
    ASSUME NEW c, NEW ms, NEW ops, NEW ov
    PROVE  LoadLater(Loading(c), ms, ops, ov)
<1>1. Loading(c).pc = "session"
  BY DEF NoTask, Loading
<1> QED
  BY <1>1 DEF LoadLater

(* What has just been read of a case has nothing newer.                    *)
LEMMA ReadLater ==
    ASSUME ServerTyped, NEW c \in Cases, NEW ov
    PROVE  OthersMade(c, operatorCaseView(c).operation, made, operations, ov)
<1> SUFFICES ASSUME NEW o, Names(o, c, made, operations),
                    operatorCaseView(c).operation < o
             PROVE  o \in ov
  BY DEF OthersMade
<1>1. o \in Nat /\ o <= operatorCaseView(c).operation
  BY ReadIsSound, RecordsTyped DEF Names
<1>2. operatorCaseView(c).operation \in Nat
  BY ReadIsSound DEF Sound
<1> QED
  BY <1>1, <1>2

LEMMA IssuedLater ==
    ASSUME ServerTyped, NEW o, NEW c, NEW ov, Names(o, c, made, operations),
           OthersMade(c, o, made, operations, ov)
    PROVE  ReceiptLater(ReceiptOf(o), made, operations, ov)
<1>1. ReceiptOf(o).case = c /\ ReceiptOf(o).operation = o /\ o # 0
  BY RecordsTyped DEF ReceiptOf, CaseOfOperation, Names
<1> QED
  BY <1>1 DEF ReceiptLater

LEMMA InitLater == Init => LaterInv
<1> SUFFICES ASSUME Init PROVE LaterInv
  OBVIOUS
<1>1. loadState = "loading" /\ load = Loading(Home) /\ action = NoTask
  BY DEF Init
<1> QED
  BY <1>1, LoadingLater, IdleLater DEF LaterInv

LEMMA DispatcherLater ==
    ASSUME ViewInv, LaterInv, Next, Dispatcher
    PROVE  LaterInv'
<1>1. ServerTyped /\ UNCHANGED <<caseView, receipt>>
  BY DEF ViewInv, Dispatcher, RunAction, UpdateAccess, Begin, ChooseCase, Retry,
         loadWorkspace
<1>2. Followed
  BY StepFollows
<1>3. ASSUME NEW kind, NEW target, NEW access, Begin(kind, target, access),
             kind \in {"approve", "reserve"} => caseView.operation = 0,
             kind \in {"dispatch", "reconcile", "view_receipt"}
               => target = caseView.operation /\ target # 0
      PROVE  LaterInv'
  <2>1. /\ loadState = "ready" /\ loadState' = loadState /\ load' = load
        /\ action'.pc = "sent" /\ action'.kind = kind
        /\ action'.case = caseView.case /\ action'.target = target
        /\ action'.receipt = None
    BY <1>3 DEF Begin, NoTask
  <2>2. ActionLater(action', caseView', made, operations, overtaken)
    BY <1>1, <1>3, <2>1 DEF LaterInv, ShownLater, ActionLater, ReceiptLater
  <2> QED
    BY <1>1, <1>2, <2>1, <2>2, FollowedInv DEF LaterInv
<1>4. CASE RunAction
  <2> DEFINE kind == nextOperatorAction(caseView)
             target == CASE kind = "prepare"              -> 0
                         [] kind \in {"approve", "reserve"} -> caseView.proposal
                         [] OTHER                         -> caseView.operation
  <2>1. kind # None /\ Begin(kind, target, "unrecorded")
    BY <1>4 DEF RunAction
  <2>2. kind = nextAction(caseView)
    BY <2>1 DEF nextOperatorAction
  <2>3. /\ kind \in {"approve", "reserve"} => caseView.operation = 0
        /\ kind \in {"dispatch", "reconcile", "view_receipt"}
             => target = caseView.operation /\ caseView.operation # 0
    BY <2>2 DEF nextAction
  <2> HIDE DEF kind, target
  <2> QED
    BY <1>3, <2>1, <2>3
<1>5. CASE \E access \in Reports : UpdateAccess(access)
  BY <1>3, <1>5 DEF UpdateAccess
<1>6. CASE (\E c \in Cases : ChooseCase(c)) \/ Retry
  <2>1. PICK c : loadWorkspace(c)
    BY <1>6 DEF ChooseCase, Retry
  <2>2. load' = Loading(c) /\ loadState' = "loading" /\ action' = action
    BY <2>1 DEF loadWorkspace
  <2> QED
    BY <1>1, <1>2, <2>2, LoadingLater, FollowedInv DEF LaterInv
<1> QED
  BY <1>4, <1>5, <1>6 DEF Dispatcher

LEMMA LoadStepLater ==
    ASSUME ViewInv, LaterInv, Next, LoadStep
    PROVE  LaterInv'
<1>1. /\ ServerTyped /\ Shaped(load) /\ action' = NoTask /\ loadState = "loading"
      /\ LoadKnows(load, caseView, made, operations)
  BY LoadKeepsTo
<1>2. \A v, ms, ops, ov : ActionLater(action', v, ms, ops, ov)
  BY <1>1, IdleLater
<1>3. load.case \in Cases
  BY <1>1 DEF LoadKnows
<1>4. CASE CaseRead
  <2>1. /\ load'.pc = "read" /\ load'.case = load.case
        /\ load'.answer = operatorCaseView(load.case)
        /\ UNCHANGED <<made, operations, loadState>>
    BY <1>1, <1>4 DEF CaseRead, Shaped, server, screen
  <2>2. LoadLater(load', made', operations', overtaken')
    BY <1>1, <1>3, <2>1, ReadLater DEF LoadLater
  <2> QED
    BY <1>1, <1>2, <2>1, <2>2 DEF LaterInv
<1>5. CASE ~CaseRead
  <2>1. ASSUME loadState' = "ready"
                 => ShownLater(caseView', receipt', made, operations, overtaken),
               LoadLater(load', made, operations, overtaken), Followed
        PROVE  LaterInv'
    BY <1>1, <1>2, <2>1, FollowedInv
  <2>2. Followed
    BY <1>5, StepFollows
  <2>3. CASE SessionStarted
    <3>1. load'.pc = "case" /\ loadState' = loadState
      BY <1>1, <2>3 DEF SessionStarted, Shaped, screen
    <3> QED
      BY <1>1, <2>1, <2>2, <3>1 DEF LoadLater
  <2>4. CASE CaseShown
    <3>1. load.pc = "read" /\ caseView' = load.answer
      BY <2>4 DEF CaseShown
    <3>2. /\ Sound(load.answer, made, operations) /\ load.answer.case = load.case
          /\ OthersMade(load.case, load.answer.operation, made, operations, overtaken)
      BY <1>1, <3>1 DEF LoadKnows, Answers, LaterInv, LoadLater
    <3>3. CASE load' = NoTask /\ receipt' = None
      BY <2>1, <2>2, <3>1, <3>2, <3>3, IdleLater DEF ShownLater, ReceiptLater
    <3>4. CASE /\ load' = [load EXCEPT !.pc = "receipt", !.target = load.answer.operation]
               /\ UNCHANGED loadState
      <4>1. /\ load'.pc = "receipt" /\ load'.case = load.case
            /\ load'.answer = load.answer /\ load'.target = load.answer.operation
        BY <1>1, <3>4 DEF Shaped
      <4> QED
        BY <1>1, <2>1, <2>2, <3>2, <3>4, <4>1 DEF LoadLater
    <3> QED
      BY <2>4, <3>3, <3>4 DEF CaseShown
  <2>5. CASE LoadReadsReceipt /\ load.pc = "receipt"
    <3>1. /\ load'.pc = "recording" /\ load'.case = load.case
          /\ load'.answer = operatorCaseView(load.case) /\ load'.target = load.target
          /\ loadState' = loadState
      BY <1>1, <2>5 DEF LoadReadsReceipt, Shaped, screen
    <3>2. LoadLater(load', made, operations, overtaken)
      BY <1>1, <1>3, <2>5, <3>1, ReadLater DEF LaterInv, LoadLater
    <3> QED
      BY <1>1, <2>1, <2>2, <3>1, <3>2
  <2>6. CASE LoadReadsReceipt /\ load.pc = "recording"
    <3>1. /\ load'.pc = "receipted" /\ load'.case = load.case
          /\ load'.answer = load.answer /\ load'.receipt = ReceiptOf(load.target)
          /\ loadState' = loadState
      BY <1>1, <2>6 DEF LoadReadsReceipt, Shaped, screen
    <3>2. /\ Names(load.target, load.case, made, operations)
          /\ OthersMade(load.case, load.target, made, operations, overtaken)
          /\ OthersMade(load.case, load.answer.operation, made, operations, overtaken)
      BY <1>1, <2>6 DEF LoadKnows, LaterInv, LoadLater
    <3>3. ReceiptLater(load'.receipt, made, operations, overtaken)
      BY <1>1, <3>1, <3>2, IssuedLater
    <3>4. LoadLater(load', made, operations, overtaken)
      BY <3>1, <3>2, <3>3 DEF LoadLater
    <3> QED
      BY <1>1, <2>1, <2>2, <3>1, <3>4
  <2>7. CASE ReceiptShown
    <3>1. /\ load.pc = "receipted" /\ caseView' = load.answer
          /\ receipt' = load.receipt /\ load' = NoTask
      BY <2>7 DEF ReceiptShown
    <3>2. /\ Sound(load.answer, made, operations) /\ load.answer.case = load.case
          /\ OthersMade(load.case, load.answer.operation, made, operations, overtaken)
          /\ ReceiptLater(load.receipt, made, operations, overtaken)
      BY <1>1, <3>1 DEF LoadKnows, Answers, LaterInv, LoadLater
    <3> QED
      BY <2>1, <2>2, <3>1, <3>2, IdleLater DEF ShownLater
  <2>8. CASE LoadFails
    <3>1. loadState' = "error" /\ load' = NoTask
      BY <2>8 DEF LoadFails
    <3> QED
      BY <2>1, <2>2, <3>1, IdleLater
  <2>9. LoadReadsReceipt => load.pc = "receipt" \/ load.pc = "recording"
    BY DEF LoadReadsReceipt
  <2> QED
    BY <1>5, <2>3, <2>4, <2>5, <2>6, <2>7, <2>8, <2>9 DEF LoadStep
<1> QED
  BY <1>4, <1>5

LEMMA ActionStepLater ==
    ASSUME ViewInv, LaterInv, Next, Acts
    PROVE  LaterInv'
<1>1. /\ ServerTyped /\ Shaped(action) /\ action # NoTask /\ load' = NoTask
      /\ loadState = "ready" /\ loadState' = loadState
      /\ ActionKnows(action, caseView, made, operations)
  BY ActionKeepsTo
<1>2. /\ ShownLater(caseView, receipt, made, operations, overtaken)
      /\ ActionLater(action, caseView, made, operations, overtaken)
      /\ receipt # None => Beside(receipt, caseView)
  BY <1>1 DEF LaterInv, ViewInv, ReceiptFits
<1>3. \A ms, ops, ov : LoadLater(load', ms, ops, ov)
  BY <1>1, IdleLater
<1>4. ASSUME Followed, UNCHANGED <<caseView, receipt>>,
             ActionLater(action', caseView, made, operations, overtaken)
      PROVE  LaterInv'
  BY <1>1, <1>2, <1>3, <1>4, FollowedInv
<1>5. ASSUME ~Reserves PROVE Followed
  BY <1>5, StepFollows
<1>6. action.case \in Cases
  BY <1>1 DEF ActionKnows
(* No operation was shown of the case, and so no receipt of any.           *)
<1>7. CASE Reserves
  <2>1. /\ action.pc = "reserving" /\ action'.pc = "reading"
        /\ action'.kind = action.kind /\ action'.receipt = action.receipt
        /\ UNCHANGED <<caseView, receipt>> /\ Reserve(action.target)
    BY <1>1, <1>7 DEF Reserves, Goes, Shaped, screen
  <2>2. action.kind \in {"approve", "reserve"}
    BY <1>1, <2>1 DEF ActionKnows
  <2>3. caseView.operation = 0 /\ action.receipt = None
    BY <1>2, <2>1, <2>2 DEF ActionLater
  <2>4. receipt = None
    BY <1>2, <2>3 DEF Beside, ShownLater, ReceiptLater
  <2>5. Sound(caseView, made', operations')
    BY <1>1, <1>2, <2>1, ReservedGrows, SoundStays DEF ShownLater
  <2>6. ShownLater(caseView', receipt', made', operations', overtaken')
    BY <2>1, <2>3, <2>4, <2>5 DEF ShownLater, ReceiptLater
  <2>7. ActionLater(action', caseView', made', operations', overtaken')
    BY <2>1, <2>2, <2>3 DEF ActionLater, ReceiptLater
  <2> QED
    BY <1>3, <2>6, <2>7 DEF LaterInv
<1>8. CASE \/ PassesGuard \/ PalRuns \/ ApprovesProposal \/ FindsApproval
           \/ Claims \/ Sends \/ Reconciles
  <2>1. /\ UNCHANGED <<caseView, receipt>>
        /\ action'.kind = action.kind /\ action'.case = action.case
        /\ action'.target = action.target /\ action'.receipt = action.receipt
        /\ action'.pc \in {"running", "reading", "reserving", "sending", "refused",
                           "recording"}
    BY <1>1, <1>8
       DEF PassesGuard, PalRuns, ApprovesProposal, FindsApproval, Claims, Sends,
           Reconciles, Goes, Shaped, screen
  <2>2. /\ action'.pc = "reserving" => action.pc = "sent"
        /\ action'.pc = "recording" => action.kind = "reconcile"
        /\ ~Reserves
    BY <1>1, <1>8
       DEF PassesGuard, PalRuns, ApprovesProposal, FindsApproval, Claims, Sends,
           Reconciles, Reserves, Goes, Shaped, Asked
  <2>3. ActionLater(action', caseView, made, operations, overtaken)
    BY <1>2, <2>1, <2>2 DEF ActionLater
  <2> QED
    BY <1>4, <1>5, <2>1, <2>2, <2>3
<1>9. CASE RecordsReceipt
  <2>1. /\ UNCHANGED <<caseView, receipt>> /\ action.pc = "recording"
        /\ action'.kind = action.kind /\ action'.case = action.case
        /\ action'.target = action.target /\ action'.answer = action.answer
        /\ action'.receipt = ReceiptOf(action.target)
        /\ action'.pc = IF action.kind = "reconcile" THEN "reading" ELSE "answered"
    BY <1>1, <1>9 DEF RecordsReceipt, Shaped, screen
  <2>2. /\ action.kind \in {"reconcile", "view_receipt"}
        /\ Names(action.target, action.case, made, operations)
        /\ OthersMade(action.case, action.target, made, operations, overtaken)
    BY <1>1, <1>2, <2>1 DEF ActionKnows, ActionLater
  <2>3. ReceiptLater(action'.receipt, made, operations, overtaken)
    BY <1>1, <2>1, <2>2, IssuedLater
  <2>4. ActionLater(action', caseView, made, operations, overtaken)
    BY <1>2, <2>1, <2>2, <2>3 DEF ActionLater
  <2>5. ~Reserves
    BY <2>1 DEF Reserves
  <2> QED
    BY <1>4, <1>5, <2>1, <2>4, <2>5
<1>10. CASE CaseAnswered
  <2>1. /\ UNCHANGED <<caseView, receipt>>
        /\ action'.kind = action.kind /\ action'.case = action.case
        /\ action'.target = action.target /\ action'.receipt = action.receipt
        /\ action'.answer = operatorCaseView(action.case)
        /\ action'.pc \in {"recording", "answered"}
    BY <1>1, <1>10 DEF CaseAnswered, Shaped, screen
  <2>2. OthersMade(action'.case, action'.answer.operation, made, operations, overtaken)
    BY <1>1, <1>6, <2>1, ReadLater
  <2>3. ActionLater(action', caseView, made, operations, overtaken)
    BY <1>2, <2>1, <2>2 DEF ActionLater
  <2>4. ~Reserves
    BY <1>1, <2>1 DEF Reserves, Goes, Shaped
  <2> QED
    BY <1>4, <1>5, <2>1, <2>3, <2>4
<1>11. CASE ActionShown
  <2>1. /\ action.pc = "answered" /\ caseView' = action.answer /\ receipt' = receipt
        /\ action'.pc = "listing" /\ action'.kind = action.kind
        /\ action'.case = action.case /\ action'.target = action.target
        /\ action'.receipt = action.receipt
    BY <1>1, <1>11 DEF ActionShown, Goes, Shaped
  <2>2. /\ Sound(action.answer, made, operations) /\ action.answer.case = action.case
        /\ OthersMade(action.case, action.answer.operation, made, operations, overtaken)
    BY <1>1, <1>2, <2>1 DEF ActionKnows, Answers, ActionLater
  <2>3. ShownLater(caseView', receipt', made, operations, overtaken)
    BY <1>2, <2>1, <2>2 DEF ShownLater
  <2>4. ActionLater(action', caseView', made, operations, overtaken)
    BY <1>2, <2>1 DEF ActionLater
  <2>5. ~Reserves
    BY <2>1 DEF Reserves
  <2> QED
    BY <1>1, <1>3, <1>5, <2>3, <2>4, <2>5, FollowedInv
<1>12. CASE ActionEnds \/ GivesUp
  <2>1. /\ action' = NoTask /\ caseView' = caseView
        /\ receipt' = receipt \/ (action.receipt # None /\ receipt' = action.receipt)
    BY <1>12 DEF ActionEnds, GivesUp
  <2>2. ShownLater(caseView', receipt', made, operations, overtaken)
    BY <1>2, <2>1 DEF ShownLater, ActionLater
  <2>3. ~Reserves
    BY <2>1, <1>1 DEF Reserves, Goes, Shaped, NoTask
  <2> QED
    BY <1>1, <1>3, <1>5, <2>1, <2>2, <2>3, IdleLater, FollowedInv
<1> QED
  BY <1>7, <1>8, <1>9, <1>10, <1>11, <1>12 DEF Acts, RouteStep

LEMMA NextLater == ViewInv /\ LaterInv /\ [Next]_vars => LaterInv'
<1> SUFFICES ASSUME ViewInv, LaterInv, [Next]_vars PROVE LaterInv'
  OBVIOUS
<1>1. CASE UNCHANGED vars
  BY <1>1 DEF vars, server, screen, history, LaterInv
<1>2. CASE Next /\ (Elsewhere \/ LateReport)
  <2>1. UNCHANGED <<loadState, caseView, receipt, load, action>>
    BY <1>2 DEF Elsewhere, LateReport, screen
  <2> QED
    BY <1>2, <2>1, StepFollows, FollowedInv DEF LaterInv, ViewInv
<1> QED
  BY <1>1, <1>2, NextIs, DispatcherLater, LoadStepLater, ActionStepLater

(* A receipt is never shown beside another case; and where it is shown     *)
(* beside another operation than its own, that one is newer, and was made  *)
(* by somebody else since the case was loaded.                             *)
THEOREM ReceiptsFit == Spec => []ReceiptBesideItsOperation
<1>1. ASSUME ViewInv, LaterInv PROVE ReceiptBesideItsOperation
  <2> SUFFICES ASSUME loadState = "ready", receipt # None
               PROVE  /\ receipt.case = caseView.case
                      /\ \/ receipt.operation = caseView.operation
                         \/ /\ receipt.operation < caseView.operation
                            /\ caseView.operation \in overtaken
    BY DEF ReceiptBesideItsOperation
  <2>1. /\ Beside(receipt, caseView) /\ Sound(caseView, made, operations)
        /\ OthersMade(receipt.case, receipt.operation, made, operations, overtaken)
    BY <1>1 DEF ViewInv, ReceiptFits, LaterInv, ShownLater, ReceiptLater
  <2>2. CASE receipt.operation < caseView.operation
    <3>1. caseView.operation # 0
      BY <2>1, <2>2 DEF Beside, Sound
    <3>2. Names(caseView.operation, receipt.case, made, operations)
      BY <2>1, <3>1 DEF Beside, Sound
    <3> QED
      BY <2>1, <2>2, <3>2 DEF Beside, OthersMade
  <2>3. receipt.operation < caseView.operation \/ receipt.operation = caseView.operation
    BY <2>1 DEF Beside, Sound
  <2> QED
    BY <2>1, <2>2, <2>3 DEF Beside
<1> QED
  BY <1>1, InitKnows, NextKnows, InitLater, NextLater, PTL DEF Spec
=============================================================================
