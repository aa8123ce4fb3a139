-------------------------- MODULE SessionAuthority --------------------------
(***************************************************************************)
(* ProcessSessionAuthority: the opaque session tokens of one process, kept *)
(* in memory. A token is a bearer of capabilities for one subject until it *)
(* expires or is disabled. Revoking reaches the tokens that exist; a token *)
(* issued later is a new grant. The state is sessions alone, so that other *)
(* modules can take its actions as steps of their own.                     *)
(***************************************************************************)
CONSTANTS Tokens,        \* tokens the process may issue
          Users,         \* user subjects
          Capabilities,  \* user capabilities
          None

VARIABLE sessions

ASSUME ApproveAssumption == "approve_recovery" \in Capabilities

(* StoredPrincipal; live stands for enabled and not past expiresAtMs, both *)
(* of which end for good (resolve disables a session it finds expired).    *)
Session == [subject : Users, capabilities : SUBSET Capabilities, live : BOOLEAN]

SessionsTypeOK == sessions \in [Tokens -> Session \cup {None}]

SessionsInit == sessions = [t \in Tokens |-> None]

(* A fresh nonce makes a fresh token.                                      *)
Issue(t) ==
    /\ sessions[t] = None
    /\ \E u \in Users, granted \in SUBSET Capabilities :
           sessions' = [sessions EXCEPT ![t] =
               [subject |-> u, capabilities |-> granted, live |-> TRUE]]

(* The clock passes expiresAtMs, or revokeSession disables the token.      *)
SessionEnds(t) ==
    /\ sessions[t] # None
    /\ sessions[t].live
    /\ sessions' = [sessions EXCEPT ![t].live = FALSE]

SubjectTokens(u) == {t \in Tokens : sessions[t] # None /\ sessions[t].subject = u}

RevokeCapability(u, capability) ==
    sessions' = [t \in Tokens |->
        IF t \in SubjectTokens(u)
        THEN [sessions[t] EXCEPT !.capabilities = @ \ {capability}]
        ELSE sessions[t]]

RevokePrincipal(u) ==
    sessions' = [t \in Tokens |->
        IF t \in SubjectTokens(u) THEN [sessions[t] EXCEPT !.live = FALSE]
                                  ELSE sessions[t]]

(* resolve does not throw, and the principal it returns may do this.       *)
Resolves(t, capability) ==
    /\ sessions[t] # None
    /\ sessions[t].live
    /\ capability \in sessions[t].capabilities

HasCapability(u, capability) ==
    \E t \in SubjectTokens(u) : Resolves(t, capability)

SessionsNext ==
    \/ \E t \in Tokens : Issue(t) \/ SessionEnds(t)
    \/ \E u \in Users : RevokePrincipal(u)
    \/ \E u \in Users, capability \in Capabilities : RevokeCapability(u, capability)
=============================================================================
