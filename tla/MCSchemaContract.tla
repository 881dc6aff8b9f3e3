--------------------------- MODULE MCSchemaContract ---------------------------
(* SchemaContract for TLC: one type that may extend another.                  *)
EXTENDS SchemaContract, TLC

Symmetry == Permutations(Field)
==============================================================================
