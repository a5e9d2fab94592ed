---------------------------- MODULE MCModelSession ----------------------------
(* Two executions of two branches over one row.                            *)
EXTENDS ModelSession, TLC

CONSTANTS s1, s2, b1, b2, h1, h2

MCSymmetry == Permutations({s1, s2}) \cup Permutations({b1, b2}) \cup Permutations({h1, h2})
==============================================================================
