------------------------------- MODULE Lists -------------------------------
(***************************************************************************)
(* What is left of a list when some of its entries are taken out, written  *)
(* with a recursive function so that the modules that use it can be proved *)
(* about, which SelectSeq does not allow.                                  *)
(***************************************************************************)
EXTENDS Integers, Sequences

(* [x for x in s if x in S]                                                *)
Keep(s, S) ==
  LET kept[i \in 0..Len(s)] ==
        IF i = 0 THEN <<>>
        ELSE IF s[i] \in S THEN Append(kept[i-1], s[i]) ELSE kept[i-1]
  IN  kept[Len(s)]
=============================================================================
