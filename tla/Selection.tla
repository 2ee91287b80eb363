----------------------------- MODULE Selection -----------------------------
(***************************************************************************)
(* The loop that goes through a list and keeps what passes a test, as the  *)
(* code and the WHERE of a query have it:                                  *)
(*     for _, t := range list { if test(t) { kept = append(kept, t) } }    *)
(* It is the SelectSeq of Sequences, written as the loop so that it can be *)
(* reasoned about: DataLemmas.                                             *)
(***************************************************************************)
EXTENDS Integers, Sequences

(* The elements of s that are in S, in their order.                        *)
Kept(s, S) ==
    LET kept[n \in 0 .. Len(s)] ==
            IF n = 0 THEN <<>>
            ELSE IF s[n] \in S THEN Append(kept[n - 1], s[n]) ELSE kept[n - 1]
    IN  kept[Len(s)]
=============================================================================
