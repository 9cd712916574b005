----------------------------- MODULE MCThreading -----------------------------
(* Threading for TLC: which calls the script of a run makes.                *)
EXTENDS ThreadingProperties, TLC

CONSTANTS main, a, b

(* The ids of the threads that the script starts are interchangeable.        *)
Symmetric == Permutations({a, b})
=============================================================================
