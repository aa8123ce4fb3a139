--------------------------- MODULE ContextAssembly ---------------------------
(***************************************************************************)
(* assembleModelContext of packages/context/src/envelope.ts: what of the   *)
(* evidence at hand goes to the model within a token budget, and what the  *)
(* envelope says was left out. The length of a JSON text is abstracted to  *)
(* a sum: the static context, each item with its metadata, each omission   *)
(* record and the residual record have a fixed number of tokens.           *)
(***************************************************************************)
EXTENDS Naturals, Sequences

CONSTANTS
    MaxDescriptors,   \* MAX_CANDIDATE_DESCRIPTORS
    OmissionTokens,   \* one record of omittedEvidence
    ResidualTokens    \* the record that stands for those that did not fit

ASSUME AssemblyAssumption ==
    /\ MaxDescriptors \in Nat
    /\ OmissionTokens \in Nat
    /\ ResidualTokens \in Nat

(* Candidates have an id, a number of tokens and whether they are required. *)
(* Ids are unique: the source is a Map.                                     *)
Named(s) == {s[i] : i \in DOMAIN s}
Ids(candidates) == {candidates[i].id : i \in DOMAIN candidates}

(* The elements of a sequence that are in a set, in their order.            *)
Only(s, S) ==
    LET only[n \in 0..Len(s)] ==
            IF n = 0 THEN <<>>
            ELSE IF s[n] \in S THEN Append(only[n - 1], s[n]) ELSE only[n - 1]
    IN  only[Len(s)]

(* The body of the loop over the ordered candidates.                       *)
Admit(chosen, c, budget) ==
    LET trial == chosen.tokens + c.tokens + OmissionTokens * Len(chosen.omitted)
    IN  IF trial <= budget \/ c.required
        THEN [chosen EXCEPT
                 !.included = @ \cup {c.id},
                 !.tokens = @ + c.tokens,
                 !.overflowed = IF trial > budget THEN @ \cup {c.id} ELSE @]
        ELSE [chosen EXCEPT !.omitted = Append(@, c.id)]

(* The loop over the candidates that are required, or over those that are  *)
(* not, with what was chosen before it.                                     *)
Pass(start, candidates, required, budget) ==
    LET chosen[n \in 0..Len(candidates)] ==
            IF n = 0 THEN start
            ELSE IF candidates[n].required = required
                 THEN Admit(chosen[n - 1], candidates[n], budget)
                 ELSE chosen[n - 1]
    IN  chosen[Len(candidates)]

Nothing(base) == [included |-> {}, tokens |-> base, omitted |-> <<>>,
                  overflowed |-> {}]

(* The order is a stable sort by required: those that are come first.      *)
Choose(candidates, base, budget) ==
    Pass(Pass(Nothing(base), candidates, TRUE, budget), candidates, FALSE, budget)

(* Known evidence that was not loaded, among the first MaxDescriptors.     *)
Descriptors(known, candidates) ==
    LET first == IF Len(known) > MaxDescriptors THEN MaxDescriptors ELSE Len(known)
    IN  Only(SubSeq(known, 1, first), Named(known) \ Ids(candidates))

DescriptorOverflow(known) ==
    IF Len(known) > MaxDescriptors THEN Len(known) - MaxDescriptors ELSE 0

(* How many of n omission records fit beside what the context holds.       *)
LongestPrefix(n, tokens, budget) ==
    CHOOSE k \in 0..n :
        /\ k = 0 \/ tokens + k * OmissionTokens <= budget
        /\ \A m \in (k + 1)..n : tokens + m * OmissionTokens > budget

(* Mutant: records that do not fit are dropped without the residual one.   *)
Assemble_SilentTruncation(candidates, known, base, budget) ==
    LET chosen == Choose(candidates, base, budget)
        pending == chosen.omitted \o Descriptors(known, candidates)
        kept == LongestPrefix(Len(pending), chosen.tokens, budget)
    IN  [included |-> chosen.included,
         omitted |-> SubSeq(pending, 1, kept),
         overflowed |-> chosen.overflowed,
         truncated |-> FALSE,
         unreported |-> DescriptorOverflow(known) + Len(pending) - kept,
         tokens |-> chosen.tokens + kept * OmissionTokens]

(* Omission records are written while they fit. If one does not, or known  *)
(* evidence was cut off, records are taken back until the residual record  *)
(* fits, which is then written in any case.                                *)
Assemble(candidates, known, base, budget) ==
    LET chosen == Choose(candidates, base, budget)
        pending == chosen.omitted \o Descriptors(known, candidates)
        reported == LongestPrefix(Len(pending), chosen.tokens, budget)
        truncated == DescriptorOverflow(known) + Len(pending) > reported
        kept == IF truncated
                THEN LongestPrefix(reported, chosen.tokens + ResidualTokens, budget)
                ELSE reported
    IN  [included |-> chosen.included,
         omitted |-> SubSeq(pending, 1, kept),
         overflowed |-> chosen.overflowed,
         truncated |-> truncated,
         unreported |-> DescriptorOverflow(known) + Len(pending) - kept,
         tokens |-> chosen.tokens + kept * OmissionTokens
                      + (IF truncated THEN ResidualTokens ELSE 0)]

-----------------------------------------------------------------------------
(* What the harness takes for a usable context: contextPreflightFailure.   *)
Clean(a, budget) ==
    a.overflowed = {} /\ ~a.truncated /\ a.tokens <= budget

(* A context that passes for usable names every item there is, either as   *)
(* included or as omitted.                                                 *)
NamesEverything(candidates, known, a) ==
    (Ids(candidates) \cup Named(known)) \ a.included = Named(a.omitted)

(* The tokens of the required candidates, on top of the static context.    *)
Demand(candidates, base) ==
    LET sum[n \in 0..Len(candidates)] ==
            IF n = 0 THEN base
            ELSE IF candidates[n].required
                 THEN sum[n - 1] + candidates[n].tokens ELSE sum[n - 1]
    IN  sum[Len(candidates)]

(* Required items are never left out, and where they alone exceed the      *)
(* budget the context does not pass for a usable one.                      *)
RequiredStay(candidates, base, budget, a) ==
    /\ \A i \in DOMAIN candidates :
          candidates[i].required => candidates[i].id \in a.included
    /\ Demand(candidates, base) > budget => ~Clean(a, budget)
=============================================================================
