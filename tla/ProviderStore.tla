--------------------------- MODULE ProviderStore ---------------------------
(***************************************************************************)
(* The provider behind SimulatedDispatchConnector: assignments in a JSON   *)
(* file shared by any number of processes, guarded by a lock file.         *)
(*                                                                         *)
(* Every call of FileProviderAssignmentStore runs #withLock: create the    *)
(* lock file, read the document, decide, replace the document if it        *)
(* changed (temporary file, then rename), close and unlink the lock file.  *)
(* Each of these is one system call and one step; calls of other processes *)
(* come in between, any of them may fail, and a process may die after any  *)
(* of them, which leaves its lock file behind.                             *)
(*                                                                         *)
(* A send that the connector refuses before it calls the store (provider   *)
(* unavailable, approval not valid) is no step of this module.             *)
(***************************************************************************)
EXTENDS Naturals, FiniteSets

CONSTANTS
    Callers,      \* calls under way at once, in any number of processes
    Candidates,   \* assignment records that a send may offer
    Keys,         \* idempotency keys
    Operations,   \* tenant and operation, which the code always uses together
    MaxAttempts,  \* tries for the lock (200)
    None

ASSUME AttemptsAssumption == MaxAttempts \in Nat \ {0}

(* A record's id is a digest of its key, operation and snapshot.           *)
ASSUME CandidatesAssumption ==
    \A r \in Candidates :
        /\ r = [key |-> r.key, operation |-> r.operation,
                snapshot |-> r.snapshot, acceptedAt |-> r.acceptedAt]
        /\ r.key \in Keys
        /\ r.operation \in Operations

VARIABLES
    file,       \* assignments in the document
    lock,       \* the lock file exists
    pc,         \* where each call is
    request,    \* its arguments
    attempts,   \* how often it has tried to create the lock file
    document,   \* what it has read
    answer      \* what it returned or is about to return

vars == <<file, lock, pc, request, attempts, document, answer>>

SendRequest == [type : {"send"}, record : Candidates]
KeyRequest == [type : {"by_key"}, key : Keys]
OperationRequest == [type : {"by_operation"}, operation : Operations]
Requests == SendRequest \cup KeyRequest \cup OperationRequest

Results == {"none", "created", "found", "absent", "conflict", "timed_out", "failed"}

Answer(result, record) == [result |-> result, record |-> record]

(* Holding the lock file, in the order of #withLock.                       *)
HoldingPCs == {"locked", "writing", "renaming", "closing", "unlinking"}
PCs == {"idle", "opening"} \cup HoldingPCs

TypeOK ==
    /\ file \subseteq Candidates
    /\ lock \in BOOLEAN
    /\ pc \in [Callers -> PCs]
    /\ request \in [Callers -> Requests \cup {None}]
    /\ attempts \in [Callers -> 0 .. MaxAttempts]
    /\ document \in [Callers -> SUBSET Candidates]
    /\ answer \in [Callers -> [result : Results, record : Candidates \cup {None}]]

Init ==
    /\ file = {}
    /\ lock = FALSE
    /\ pc = [c \in Callers |-> "idle"]
    /\ request = [c \in Callers |-> None]
    /\ attempts = [c \in Callers |-> 0]
    /\ document = [c \in Callers |-> {}]
    /\ answer = [c \in Callers |-> Answer("none", None)]

-----------------------------------------------------------------------------
(* Helpers of the store.                                                   *)

(* sameAssignmentBinding: everything but acceptedAt.                       *)
SameBinding(r, s) == /\ r.key = s.key
                     /\ r.operation = s.operation
                     /\ r.snapshot = s.snapshot

(* Mutant: only the idempotency key is compared.                           *)
Conflicts_KeyOnly(doc, candidate) ==
    \E r \in doc : r.key = candidate.key /\ ~SameBinding(r, candidate)

(* assignmentConflict throws.                                              *)
Conflicts(doc, candidate) ==
    \E r \in doc : /\ r.key = candidate.key \/ r.operation = candidate.operation
                   /\ ~SameBinding(r, candidate)

(* assignmentConflict's result, where it does not throw.                   *)
Priors(doc, candidate) ==
    {r \in doc : r.key = candidate.key \/ r.operation = candidate.operation}

(* parseAssignmentFile: no key and no operation twice.                     *)
WellFormed(doc) ==
    \A r, s \in doc : r.key = s.key \/ r.operation = s.operation => r = s

Goto(c, from, to) == pc[c] = from /\ pc' = [pc EXCEPT ![c] = to]

(* The call has its result, or its error, and goes to the finally block.   *)
Conclude(c, from, a) ==
    /\ Goto(c, from, "closing")
    /\ answer' = [answer EXCEPT ![c] = a]

Failed == Answer("failed", None)

-----------------------------------------------------------------------------
(* One call.                                                               *)

Begin(c) ==
    /\ Goto(c, "idle", "opening")
    /\ \E r \in Requests : request' = [request EXCEPT ![c] = r]
    /\ attempts' = [attempts EXCEPT ![c] = 0]
    /\ document' = [document EXCEPT ![c] = {}]
    /\ answer' = [answer EXCEPT ![c] = Answer("none", None)]
    /\ UNCHANGED <<file, lock>>

(* open(lockPath, 'wx') creates the file or fails because it exists.       *)
OpenLock(c) ==
    /\ Goto(c, "opening", "locked")
    /\ ~lock
    /\ lock' = TRUE
    /\ UNCHANGED <<file, request, attempts, document, answer>>

(* Mutant: a caller that waited long enough takes the lock for stale.      *)
LockBusy_TakesOver(c) ==
    /\ pc[c] = "opening"
    /\ lock
    /\ attempts' = [attempts EXCEPT ![c] = @ + 1]
    /\ pc' = [pc EXCEPT ![c] = IF attempts[c] + 1 = MaxAttempts
                               THEN "locked" ELSE "opening"]
    /\ UNCHANGED <<file, lock, request, document, answer>>

(* Mutant: the attempts are not counted.                                   *)
LockBusy_Forever(c) ==
    /\ pc[c] = "opening"
    /\ lock
    /\ UNCHANGED vars

(* EEXIST: wait and try again, or give up after the last attempt.          *)
LockBusy(c) ==
    /\ pc[c] = "opening"
    /\ lock
    /\ attempts' = [attempts EXCEPT ![c] = @ + 1]
    /\ IF attempts[c] + 1 = MaxAttempts
       THEN /\ pc' = [pc EXCEPT ![c] = "idle"]
            /\ answer' = [answer EXCEPT ![c] = Answer("timed_out", None)]
       ELSE UNCHANGED <<pc, answer>>
    /\ UNCHANGED <<file, lock, request, document>>

(* #read and the call's own function on the document: the assignment is    *)
(* new, is there already, or is at odds with another; a lookup finds one   *)
(* or none.                                                                *)
ReadNew(c) ==
    /\ Goto(c, "locked", "writing")
    /\ request[c] \in SendRequest
    /\ WellFormed(file)
    /\ ~Conflicts(file, request[c].record)
    /\ Priors(file, request[c].record) = {}
    /\ document' = [document EXCEPT ![c] = file]
    /\ UNCHANGED <<file, lock, request, attempts, answer>>

ReadPrior(c) ==
    /\ pc[c] = "locked"
    /\ request[c] \in SendRequest
    /\ WellFormed(file)
    /\ ~Conflicts(file, request[c].record)
    /\ \E r \in Priors(file, request[c].record) :
           Conclude(c, "locked", Answer("found", r))
    /\ document' = [document EXCEPT ![c] = file]
    /\ UNCHANGED <<file, lock, request, attempts>>

ReadConflict(c) ==
    /\ pc[c] = "locked"
    /\ request[c] \in SendRequest
    /\ WellFormed(file)
    /\ Conflicts(file, request[c].record)
    /\ Conclude(c, "locked", Answer("conflict", None))
    /\ document' = [document EXCEPT ![c] = file]
    /\ UNCHANGED <<file, lock, request, attempts>>

(* findByIdempotencyKey and findByOperation.                               *)
Asked(doc, req) ==
    {r \in doc : \/ req \in KeyRequest /\ r.key = req.key
                 \/ req \in OperationRequest /\ r.operation = req.operation}

ReadFind(c) ==
    /\ pc[c] = "locked"
    /\ request[c] \in KeyRequest \cup OperationRequest
    /\ WellFormed(file)
    /\ \/ \E r \in Asked(file, request[c]) :
              Conclude(c, "locked", Answer("found", r))
       \/ /\ Asked(file, request[c]) = {}
          /\ Conclude(c, "locked", Answer("absent", None))
    /\ document' = [document EXCEPT ![c] = file]
    /\ UNCHANGED <<file, lock, request, attempts>>

(* The document cannot be read, or is not well formed.                     *)
ReadFails(c) ==
    /\ Conclude(c, "locked", Failed)
    /\ UNCHANGED <<file, lock, request, attempts, document>>

(* writeFile: the temporary file is nobody else's, and nobody reads one    *)
(* that a failed or dead writer leaves behind.                             *)
WriteTemporary(c) ==
    /\ Goto(c, "writing", "renaming")
    /\ UNCHANGED <<file, lock, request, attempts, document, answer>>

WriteFails(c) ==
    /\ Conclude(c, "writing", Failed)
    /\ UNCHANGED <<file, lock, request, attempts, document>>

(* Mutant: the new document holds the new assignment alone.                *)
Rename_Overwrites(c) ==
    LET new == request[c].record
    IN  /\ Conclude(c, "renaming", Answer("created", new))
        /\ file' = {new}
        /\ UNCHANGED <<lock, request, attempts, document>>

(* rename replaces the document in one step.                               *)
Rename(c) ==
    LET new == request[c].record
    IN  /\ Conclude(c, "renaming", Answer("created", new))
        /\ file' = document[c] \cup {new}
        /\ UNCHANGED <<lock, request, attempts, document>>

RenameFails(c) ==
    /\ Conclude(c, "renaming", Failed)
    /\ UNCHANGED <<file, lock, request, attempts, document>>

(* lock.close(). If it fails the error takes the place of the result and   *)
(* the lock file is not removed.                                           *)
Close(c) ==
    /\ Goto(c, "closing", "unlinking")
    /\ UNCHANGED <<file, lock, request, attempts, document, answer>>

CloseFails(c) ==
    /\ Goto(c, "closing", "idle")
    /\ answer' = [answer EXCEPT ![c] = Failed]
    /\ UNCHANGED <<file, lock, request, attempts, document>>

(* unlink(lockPath), whose error is swallowed, and the call returns.       *)
Unlink(c) ==
    /\ Goto(c, "unlinking", "idle")
    /\ lock' = FALSE
    /\ UNCHANGED <<file, request, attempts, document, answer>>

UnlinkFails(c) ==
    /\ Goto(c, "unlinking", "idle")
    /\ UNCHANGED <<file, lock, request, attempts, document, answer>>

(* The process dies. What it wrote stays, and so does its lock file. While *)
(* opening, the same stands for mkdir or open failing for another reason.  *)
Crash(c) ==
    /\ pc[c] # "idle"
    /\ pc' = [pc EXCEPT ![c] = "idle"]
    /\ answer' = [answer EXCEPT ![c] = Failed]
    /\ UNCHANGED <<file, lock, request, attempts, document>>

-----------------------------------------------------------------------------
(* Everything a call does once it has begun, if its process lives.         *)
Step(c) ==
    \/ OpenLock(c) \/ LockBusy(c)
    \/ ReadNew(c) \/ ReadPrior(c) \/ ReadConflict(c) \/ ReadFind(c) \/ ReadFails(c)
    \/ WriteTemporary(c) \/ WriteFails(c)
    \/ Rename(c) \/ RenameFails(c)
    \/ Close(c) \/ CloseFails(c)
    \/ Unlink(c) \/ UnlinkFails(c)

Next == \E c \in Callers : Begin(c) \/ Step(c) \/ Crash(c)

Spec == Init /\ [][Next]_vars

(* A live process keeps running its call; nothing is assumed of one that   *)
(* dies, which ends the call too.                                          *)
FairSpec == Spec /\ \A c \in Callers : WF_vars(Step(c))

-----------------------------------------------------------------------------
(* Properties.                                                             *)

Holding(c) == pc[c] \in HoldingPCs

(* The lock file does its work although any process may vanish: at most    *)
(* one call is inside #withLock's critical part, the lock file exists as   *)
(* long as one is, and what that call has read is still what the file      *)
(* says when it replaces it.                                               *)
HolderUndisturbed ==
    /\ \A c, d \in Callers : Holding(c) /\ Holding(d) => c = d
    /\ \A c \in Callers : Holding(c) => lock
    /\ \A c \in Callers : pc[c] \in {"writing", "renaming"} => document[c] = file

(* What a caller was told of an assignment stays true: the record it got   *)
(* from createOrGet or a lookup is in the file for as long as it remembers *)
(* it, whatever other processes do or fail to do.                          *)
AnswersStand ==
    \A c \in Callers : answer[c].result \in {"created", "found"}
                          => answer[c].record \in file

(* No two callers are both told that they created the assignment of one    *)
(* key or of one operation (the connector in mode accept_then_lose_ack and *)
(* its tests rely on created being told once).                             *)
CreatedOnce ==
    \A c, d \in Callers :
        /\ c # d
        /\ answer[c].result = "created"
        /\ answer[d].result = "created"
        => /\ answer[c].record.key # answer[d].record.key
           /\ answer[c].record.operation # answer[d].record.operation

(* A lock file nobody holds any more.                                      *)
Orphaned == lock /\ \A c \in Callers : ~Holding(c)

OrphanKept ==
    /\ Orphaned'
    /\ file' = file
    /\ \A c \in Callers :
          answer'[c] = answer[c]
            \/ answer'[c].result \in {"none", "timed_out", "failed"}

(* The store fails safe when a lock file is left behind: nobody takes it   *)
(* over, nothing is written, and no call learns anything of the            *)
(* assignments. #withLock has no owner and no expiry for the lock.         *)
OrphanFailsSafe == [][Orphaned => OrphanKept]_vars

(* Every call ends, with a result or an error: nobody waits for a lock     *)
(* file for ever, not even for an orphaned one.                            *)
CallsEnd == \A c \in Callers : pc[c] # "idle" ~> pc[c] = "idle"

(* The steps of #withLock make each call atomic: the store implements a    *)
(* register whose calls take effect at one instant, here the read or the   *)
(* rename.                                                                 *)
Phase == [c \in Callers |->
            IF pc[c] = "idle" THEN "idle"
            ELSE IF pc[c] \in {"closing", "unlinking"} THEN "done" ELSE "pending"]

(* A call that gives up on the lock is cut off.                            *)
Told == [c \in Callers |->
            IF answer[c].result = "timed_out" THEN Failed ELSE answer[c]]

Register == INSTANCE AssignmentRegister
                WITH register <- file, phase <- Phase, answer <- Told
RegisterSpec == Register!Spec
=============================================================================
