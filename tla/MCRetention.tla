---------------------------- MODULE MCRetention ----------------------------
(* Values for the constants of Retention. *)
EXTENDS Retention

MCNumbers == {1, 2}
MCValues  == {1, 2, Malformed}
=============================================================================
