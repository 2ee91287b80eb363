----------------------------- MODULE ApiTokens -----------------------------
(***************************************************************************)
(* internal/auth: the roles, and the table api_tokens with the statements  *)
(* that touch it.  Requests puts them on the way of each request.          *)
(*                                                                         *)
(* The identity of a row and its secret are made anew for every token, so  *)
(* a token goes through "new", "valid", "deleted" once.  The columns       *)
(* enabled and expires_at are only ever changed in the database itself:    *)
(* such a token has lapsed.                                                *)
(***************************************************************************)
EXTENDS FiniteSets

CONSTANTS
    Tokens,          \* identities of tokens
    NoToken          \* no bearer token, or one nobody ever made

VARIABLES
    row,             \* the state of each row of api_tokens
    role,            \* its column role
    issued,          \* the tokens whose secret was handed out
    touching         \* the updates of last_used_at under way

tokenVars == <<row, role, issued, touching>>

Roles == {"viewer", "operator", "admin"}

HasPermissionEditor(user, required) ==
    \/ user = "admin"
    \/ user = "operator" /\ required \in {"operator", "admin"}
    \/ user = "viewer" /\ required = "viewer"
HasPermission(user, required) ==
    \/ user = "admin"
    \/ user = "operator" /\ required \in {"operator", "viewer"}
    \/ user = "viewer" /\ required = "viewer"

(* The role of a request to create a token: absent means operator, one     *)
(* that is none of the three is refused, and so is a missing name.         *)
RequestedRoles == Roles \cup {"unset", "invalid"}
RoleOf(requested) == IF requested = "unset" THEN "operator" ELSE requested

(* WHERE token_hash = $1 AND enabled AND (expires_at IS NULL OR ...)       *)
AuthenticCached(t) == t \in issued
Authentic(t) == t \in Tokens /\ row[t] = "valid"

InsertToken(t, r) ==
    /\ row[t] = "new"
    /\ row' = [row EXCEPT ![t] = "valid"]
    /\ role' = [role EXCEPT ![t] = r]

DeleteRow(t) == row' = [row EXCEPT ![t] = IF @ = "new" THEN @ ELSE "deleted"]

(* The goroutine that records last_used_at, which no code reads: an        *)
(* UPDATE of a row that is gone changes nothing.                           *)
Touch(t) ==
    /\ t \in touching
    /\ touching' = touching \ {t}
    /\ UNCHANGED <<row, role, issued>>

(* The token expires, or is disabled in the database.                      *)
Lapse(t) ==
    /\ row[t] = "valid"
    /\ row' = [row EXCEPT ![t] = "lapsed"]
    /\ UNCHANGED <<role, issued, touching>>

(* The table when the server starts; all its secrets are known.            *)
TokenTable(given) ==
    /\ row = [t \in Tokens |-> IF t \in DOMAIN given THEN "valid" ELSE "new"]
    /\ role = [t \in Tokens |-> IF t \in DOMAIN given THEN given[t] ELSE "operator"]
    /\ issued = DOMAIN given
    /\ touching = {}

TokensTypeOK ==
    /\ row \in [Tokens -> {"new", "valid", "lapsed", "deleted"}]
    /\ role \in [Tokens -> Roles]
    /\ issued \in SUBSET {t \in Tokens : row[t] # "new"}
    /\ touching \in SUBSET {t \in Tokens : row[t] # "new"}
=============================================================================
