----------------------------- MODULE MCClassGraph -----------------------------
(* ClassGraph for TLC: two classes give loops, edges in both directions and  *)
(* edges that differ in their label only.                                    *)
EXTENDS ClassGraph

==============================================================================
