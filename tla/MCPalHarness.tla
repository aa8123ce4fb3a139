---------------------------- MODULE MCPalHarness ----------------------------
(* Values for TLC: one source whose answers may be fine, stale, expiring   *)
(* or contradictory, and a provider that underreports or exaggerates.      *)
EXTENDS PalContext

Fact(fresh, status, until) ==
    [fresh |-> fresh, status |-> status, from |-> 0, until |-> until]

MCSourceItems ==
    [p \in Parts \ {"policy"} |->
        CASE p = "case" -> {Fact(TRUE, "none", 9)}
          [] p = "agreement" -> {Fact(TRUE, "none", 8), Fact(FALSE, "none", 8)}
          [] p = "customer_access" -> {Fact(TRUE, "confirmed_clear", 7),
                                       Fact(TRUE, "confirmed_clear", 1)}
          [] p = "field_access" ->
                {Fact(TRUE, "blocked", 7),
                 [Fact(TRUE, "unable_to_complete", 9) EXCEPT !.from = 8]}
          [] p = "attempt" -> {Fact(TRUE, "unable_to_complete", 9)}
          [] OTHER -> {Fact(TRUE, "none", 9)}]

MCListings == {{}, {"agreement", "history"}}

MCReports == {[input |-> 0, output |-> 0], [input |-> 12, output |-> 2],
              [input |-> 0, output |-> 99]}

MCPayloads == [sound : BOOLEAN,
               cites : {Parts, Parts \ {"field_access"}, Parts \ {"attempt"},
                        Parts \ {"field_access", "case"}},
               until : {1, 7, 9}]

MCAllowed == Skills \cup {"unknown_skill"}

=============================================================================
