------------------------------- MODULE Totals -------------------------------
(***************************************************************************)
(* Sums over the jobs 1..n, written with a recursive function so that the  *)
(* modules that use them can be proved about (PackingProofs) as well as    *)
(* checked.                                                                *)
(***************************************************************************)
EXTENDS Integers

(* The running sums of f: Partial(f, n)[k] = f[1] + ... + f[k].            *)
Partial(f, n) ==
  LET p[k \in 0..n] == IF k = 0 THEN 0 ELSE p[k-1] + f[k]
  IN  p

(* Python's sum(... for s in slots.values()): f[1] + ... + f[n].           *)
Total(f, n) == Partial(f, n)[n]
=============================================================================
