------------------------------- MODULE Lists -------------------------------
(* What the code does with the elements of a vector that meet a condition. *)
EXTENDS Naturals, SequencesExt

(* The elements of s that are in S, in their order.                        *)
Keep(s, S) == FlattenSeq([i \in DOMAIN s |-> IF s[i] \in S THEN <<s[i]>> ELSE << >>])
=============================================================================
