---------------------------- MODULE RateLimiter ----------------------------
(***************************************************************************)
(* The rate limiter of internal/middleware: a sliding window of request    *)
(* times for each client address, filtered and extended under one mutex.   *)
(* Time is counted in ticks; several requests can arrive in one.  Requests *)
(* puts it on the way of every request that changes something.             *)
(***************************************************************************)
EXTENDS Selection

CONSTANTS
    Addresses,       \* client addresses
    Window           \* length of the window, in ticks

ASSUME LimiterAssumption == Window \in Nat

VARIABLES
    now,
    limit,           \* RateLimiter.limit: 0 or less switches the limiter off
    requests,        \* RateLimiter.requests: [address -> times]
    admitted         \* history: the times of the requests let through

limiterVars == <<requests, admitted>>

(* t.After(cutoff)                                                         *)
InWindowShort == {t \in Int : t > now - Window + 1}
InWindow == {t \in Int : t > now - Window}
Valid(ip) == Kept(requests[ip], InWindow)

Admits(ip) ==
    /\ requests' = [requests EXCEPT ![ip] = Append(Valid(ip), now)]
    /\ admitted' = [admitted EXCEPT ![ip] = Append(@, now)]

AdmitLate(ip) == limit > 0 /\ Len(Valid(ip)) <= limit /\ Admits(ip)
Admit(ip) == limit > 0 /\ Len(Valid(ip)) < limit /\ Admits(ip)

RefuseRecorded(ip) ==
    /\ limit > 0 /\ Len(Valid(ip)) >= limit
    /\ requests' = [requests EXCEPT ![ip] = Append(Tail(Valid(ip)), now)]
    /\ UNCHANGED admitted
Refuse(ip) ==
    /\ limit > 0 /\ Len(Valid(ip)) >= limit
    /\ requests' = [requests EXCEPT ![ip] = Valid(ip)]
    /\ UNCHANGED admitted

NewRateLimiter ==
    /\ requests = [ip \in Addresses |-> <<>>]
    /\ admitted = [ip \in Addresses |-> <<>>]

----------------------------------------------------------------------------
(* Properties.                                                             *)

(* The limiter never remembers more than limit times of an address.        *)
LimiterTypeOK ==
    \A ip \in Addresses :
        /\ requests[ip] \in Seq(0 .. now)
        /\ limit > 0 => Len(requests[ip]) <= limit
        /\ admitted[ip] \in Seq(0 .. now)

(* No window of the configured length, wherever it starts, holds more than *)
(* limit admitted requests of one address (README: OPSNEXUS_RATE_LIMIT,    *)
(* "Requests per minute rate limit").                                      *)
AtMostLimit ==
    limit > 0 => \A ip \in Addresses, from \in 0 .. now :
        Len(Kept(admitted[ip], from .. (from + Window - 1))) <= limit
=============================================================================
