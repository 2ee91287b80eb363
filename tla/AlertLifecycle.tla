--------------------------- MODULE AlertLifecycle ---------------------------
(***************************************************************************)
(* What the alerting component promises about one alert row, without       *)
(* saying how: it opens firing, may be acknowledged while it fires, is     *)
(* resolved at most once and never reopens, its row can disappear only     *)
(* with its rule, and each of its transitions is announced at most once    *)
(* and only after the transition happened.  AlertEngine implements this    *)
(* specification.                                                          *)
(***************************************************************************)
EXTENDS Sequences, Functions

CONSTANT AlertIds          \* alert row identities, never reused

VARIABLES
    alerts,                \* the alert rows
    announced              \* the announcements made for each alert, in order

vars == <<alerts, announced>>

(* The announcements the transitions cause, named like the statuses.       *)
Announcements == {"firing", "acknowledged", "resolved"}

Active(i) == alerts[i].status \in {"firing", "acknowledged"}

(* Alert i has been through transition t.                                  *)
Reached(i, t) ==
    \/ t = "firing" /\ alerts[i].status # "none"
    \/ t = "acknowledged" /\ alerts[i].acked
    \/ t = "resolved" /\ alerts[i].status = "resolved"

Init ==
    /\ alerts = [i \in AlertIds |->
                    [status |-> "none", acked |-> FALSE, present |-> FALSE]]
    /\ announced = [i \in AlertIds |-> <<>>]

Open(i) ==
    /\ alerts[i].status = "none"
    /\ alerts' = [alerts EXCEPT
            ![i] = [status |-> "firing", acked |-> FALSE, present |-> TRUE]]
    /\ UNCHANGED announced

Acknowledge(i) ==
    /\ alerts[i].present
    /\ alerts[i].status = "firing"
    /\ alerts' = [alerts EXCEPT
            ![i] = [status |-> "acknowledged", acked |-> TRUE, present |-> TRUE]]
    /\ UNCHANGED announced

Resolve(i) ==
    /\ alerts[i].present
    /\ Active(i)
    /\ alerts' = [alerts EXCEPT
            ![i] = [status |-> "resolved", acked |-> @.acked, present |-> TRUE]]
    /\ UNCHANGED announced

(* The rows of one rule disappear together.                                *)
Remove(gone) ==
    /\ alerts' = [i \in AlertIds |->
            [alerts[i] EXCEPT !.present = @ /\ i \notin gone]]
    /\ UNCHANGED announced

Announce(i, t) ==
    /\ Reached(i, t)
    /\ t \notin Range(announced[i])
    /\ announced' = [announced EXCEPT ![i] = Append(@, t)]
    /\ UNCHANGED alerts

Next ==
    \/ \E i \in AlertIds : Open(i) \/ Acknowledge(i) \/ Resolve(i)
    \/ \E gone \in SUBSET AlertIds : Remove(gone)
    \/ \E i \in AlertIds, t \in Announcements : Announce(i, t)

Spec == Init /\ [][Next]_vars
=============================================================================
