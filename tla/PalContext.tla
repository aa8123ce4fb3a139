----------------------------- MODULE PalContext -----------------------------
(***************************************************************************)
(* The context of a run: what PalHarness assumes of assembleModelContext,  *)
(* against ContextAssembly, in every state of the run and of its skill     *)
(* host (assemble and contextPreflightFailure of packages/agent/src/       *)
(* harness.ts).                                                            *)
(***************************************************************************)
EXTENDS PalHarness, ContextAssembly

(* The maps that assemble is given, in the order in which skills fill them. *)
LoadOrder == <<"case", "policy", "agreement", "customer_access",
               "field_access", "attempt", "quote">>
KnownOrder == Append(LoadOrder, "history")

(* The harness counts a token for each omission, and no run knows of more  *)
(* evidence than the descriptors hold.                                     *)
ASSUME ContextAssumption == MaxDescriptors >= 8 /\ OmissionTokens = 1

Assembly ==
    LET loaded == Only(LoadOrder, Loaded(evidence))
    IN  Assemble([i \in DOMAIN loaded |->
                     [id |-> loaded[i], required |-> TRUE, tokens |-> 1]],
                 Only(KnownOrder, known),
                 1 + Cardinality(completed), MaxContextTokens)

(* The harness and assembleModelContext agree in every state of a run: on  *)
(* whether the context may be used, and on what it costs if it may.        *)
AssemblyAgrees ==
    /\ ContextUnusable = (\/ Assembly.overflowed # {}
                          \/ Assembly.truncated \/ residual
                          \/ Assembly.tokens > MaxContextTokens)
    /\ ~ContextUnusable => /\ ContextTokens = Assembly.tokens
                           /\ Assembly.included = Loaded(evidence)

-----------------------------------------------------------------------------
(* assembleModelContext beyond what the harness asks of it: the evidence   *)
(* of a run, of which any part may be optional and one is larger than the  *)
(* rest, known evidence beyond the descriptors, every budget from tight to *)
(* ample.                                                                  *)
Small == INSTANCE ContextAssembly
    WITH MaxDescriptors <- 1, OmissionTokens <- 1, ResidualTokens <- 2

Candidates(required) ==
    LET loaded == Only(LoadOrder, Loaded(evidence))
    IN  [i \in DOMAIN loaded |->
            [id |-> loaded[i], required |-> loaded[i] \in required,
             tokens |-> IF loaded[i] = "policy" THEN 3 ELSE 1]]

(* assembleModelContext does not trade one promise for another: whatever   *)
(* of the evidence at the head of a step is required, and whatever the     *)
(* budget, nothing disappears from a context that passes for usable, and   *)
(* nothing that is required is left out.                                   *)
EnvelopeHonest ==
    phase = "loop" =>
      \A required \in SUBSET Loaded(evidence), budget \in {1, 3, 5, 7, 9} :
        LET candidates == Candidates(required)
            listed == Only(KnownOrder, known)
            a == Small!Assemble(candidates, listed, 1, budget)
        IN  /\ Clean(a, budget) => NamesEverything(candidates, listed, a)
            /\ RequiredStay(candidates, 1, budget, a)
=============================================================================
