------------------------- MODULE AssignmentRegister -------------------------
(***************************************************************************)
(* What a dispatch provider promises about its assignments, as one atomic  *)
(* object: a call takes effect at one instant between its beginning and    *)
(* its end, an assignment is made once and stands for ever, and a caller   *)
(* that gets no answer may or may not have made one.                       *)
(***************************************************************************)
CONSTANTS Callers, Candidates, Keys, Operations, None

VARIABLES register,   \* the assignments made
          phase,      \* where each caller is: "idle", "pending" or "done"
          request,    \* what it asked for last
          answer      \* what it was told last

vars == <<register, phase, request, answer>>

Requests == [type : {"send"}, record : Candidates]
                \cup [type : {"by_key"}, key : Keys]
                \cup [type : {"by_operation"}, operation : Operations]

Answer(result, record) == [result |-> result, record |-> record]

Init == /\ register = {}
        /\ phase = [c \in Callers |-> "idle"]
        /\ request = [c \in Callers |-> None]
        /\ answer = [c \in Callers |-> Answer("none", None)]

Begin(c) ==
    /\ phase[c] = "idle"
    /\ \E r \in Requests : request' = [request EXCEPT ![c] = r]
    /\ phase' = [phase EXCEPT ![c] = "pending"]
    /\ answer' = [answer EXCEPT ![c] = Answer("none", None)]
    /\ UNCHANGED register

(* The effect of a call is over with its answer a.                         *)
Decide(c, a) ==
    /\ phase[c] = "pending"
    /\ phase' = [phase EXCEPT ![c] = "done"]
    /\ answer' = [answer EXCEPT ![c] = a]
    /\ UNCHANGED request

(* Two records for one key or one operation are at odds unless they are    *)
(* the same assignment, accepted at different times.                       *)
AtOdds(r, s) == /\ r.key = s.key \/ r.operation = s.operation
                /\ ~(r.key = s.key /\ r.operation = s.operation
                                   /\ r.snapshot = s.snapshot)

Matches(r, s) == /\ r.key = s.key
                 /\ r.operation = s.operation
                 /\ r.snapshot = s.snapshot

Create(c) ==
    /\ request[c] \in [type : {"send"}, record : Candidates]
    /\ LET new == request[c].record
       IN  /\ \A r \in register : r.key # new.key /\ r.operation # new.operation
           /\ register' = register \cup {new}
           /\ Decide(c, Answer("created", new))

Refuse(c) ==
    /\ request[c] \in [type : {"send"}, record : Candidates]
    /\ \E r \in register : AtOdds(r, request[c].record)
    /\ Decide(c, Answer("conflict", None))
    /\ UNCHANGED register

Wanted(r, req) ==
    \/ req \in [type : {"send"}, record : Candidates] /\ Matches(r, req.record)
    \/ req \in [type : {"by_key"}, key : Keys] /\ r.key = req.key
    \/ req \in [type : {"by_operation"}, operation : Operations]
         /\ r.operation = req.operation

Find(c) ==
    /\ \E r \in register : Wanted(r, request[c]) /\ Decide(c, Answer("found", r))
    /\ UNCHANGED register

Miss(c) ==
    /\ request[c] \notin [type : {"send"}, record : Candidates]
    /\ \A r \in register : ~Wanted(r, request[c])
    /\ Decide(c, Answer("absent", None))
    /\ UNCHANGED register

(* An error before any effect.                                             *)
Fail(c) ==
    /\ Decide(c, Answer("failed", None))
    /\ UNCHANGED register

Return(c) ==
    /\ phase[c] = "done"
    /\ phase' = [phase EXCEPT ![c] = "idle"]
    /\ UNCHANGED <<register, request, answer>>

(* The caller is cut off, before the effect or after it.                   *)
CutOff(c) ==
    /\ phase[c] # "idle"
    /\ phase' = [phase EXCEPT ![c] = "idle"]
    /\ answer' = [answer EXCEPT ![c] = Answer("failed", None)]
    /\ UNCHANGED <<register, request>>

Next == \E c \in Callers :
    \/ Begin(c)
    \/ Create(c) \/ Refuse(c) \/ Find(c) \/ Miss(c) \/ Fail(c)
    \/ Return(c) \/ CutOff(c)

Spec == Init /\ [][Next]_vars
=============================================================================
