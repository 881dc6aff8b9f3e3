------------------------------ MODULE MCFactStore ------------------------------
(* FactStore for TLC: sessions are interchangeable, and so are the data that  *)
(* can be keys.                                                               *)
EXTENDS FactStore, TLC

Symmetry == Permutations(Session) \cup Permutations(Datum \ Structured)
==============================================================================
