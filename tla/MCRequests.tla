----------------------------- MODULE MCRequests -----------------------------
(* Values for the constants of Requests. *)
EXTENDS Requests

CONSTANTS s1, s2, root, op, ip1, a1, a2

(* The loop of Selection keeps what SelectSeq keeps.                       *)
ASSUME KeptIsSelectSeq ==
    \A n \in 0 .. 4 : \A s \in [1 .. n -> 0 .. 2], S \in SUBSET (0 .. 2) :
        Kept(s, S) = SelectSeq(s, LAMBDA x : x \in S)

(* Tokens: an administrator and an operator against each other.            *)
Guarded == [auth |-> TRUE, limit |-> 0, healthy |-> 0, stale |-> 0,
            agents |-> <<>>,
            tokens |-> (root :> "admin" @@ op :> "operator"),
            kinds |-> [s \in Slots |-> {"createToken", "deleteToken"}],
            from |-> {ip1}, load |-> 3, until |-> 0]
(* A limit, with requests that are refused before and after it.            *)
Limiting == [Guarded EXCEPT !.limit = 2, !.load = 4, !.until = 3,
            !.tokens = (op :> "viewer"), !.from = Addresses,
            !.kinds = (s1 :> {"operate", "health"} @@ s2 :> {"operate", "listTokens"})]
(* Agents, without authentication: overviews while they report, ...        *)
Watching == [auth |-> FALSE, limit |-> 0, healthy |-> 0, stale |-> 0,
            agents |-> <<a1, a2>>, tokens |-> <<>>,
            kinds |-> (s1 :> {"ingest"} @@ s2 :> {"overview"}),
            from |-> {ip1}, load |-> 3, until |-> 3]
(* ... all that becomes of their samples in time, ...                      *)
Aging == [Watching EXCEPT !.agents = <<a1>>, !.load = 2, !.until = 7,
            !.kinds = (s1 :> {"register", "ingest"} @@ s2 :> {})]
(* ... with the default of stale below the time healthy, the limit by default. *)
Unset == [Aging EXCEPT !.healthy = 5, !.until = 9, !.limit = -1, !.agents = <<>>]
MCEnvironments == {Guarded, Limiting, Watching, Aging, Unset}
=============================================================================
