------------------------------- MODULE Goals -------------------------------
(***************************************************************************)
(* The goals the parser builds for the bodies of rules and methods.        *)
(***************************************************************************)
EXTENDS Terms

(* Expressions beyond data *)
Raise == <<"raise">>                              \* a call that throws an error
Write(n) == <<"write", n>>                        \* a call with an effect on the store
CallTerm(f, args) == <<"call", f, args>>          \* a call of a rule or a method
Conditional(c, a, b) == <<"cond", c, a, b>>       \* c then a else b

Arg(name, value) == [n |-> name, v |-> value]

(* Goals.  The id of an expression goal is the identity of the object. *)
AssignGoal(x, e) == [k |-> "assign", x |-> <<x, 0>>, e |-> e]
TypedGoal(x, type, e) == [k |-> "typed", x |-> <<x, 0>>, type |-> type, e |-> e]
WhereGoal(op, l, r) == [k |-> "where", op |-> op, l |-> l, r |-> r]
ExpressionGoal(id, e) == [k |-> "expr", id |-> id, e |-> e]
NotGoal(p, args) == [k |-> "not", p |-> p, args |-> args]
PatternGoal(p, args) == [k |-> "call", p |-> p, args |-> args, pattern |-> TRUE]
CallGoal(p, args) == [k |-> "call", p |-> p, args |-> args, pattern |-> FALSE]
ForGoal(x, e, body) == [k |-> "for", x |-> <<x, 0>>, e |-> e, body |-> body]
WhileGoal(e, body) == [k |-> "while", e |-> e, body |-> body]
Case(v, body) == [v |-> v, body |-> body]         \* v = Undefined: default
SwitchGoal(e, cases) == [k |-> "switch", e |-> e, cases |-> cases]
Catch(x, body) == [x |-> <<x, 0>>, body |-> body]
TryGoal(body, catches) == [k |-> "try", body |-> body, catches |-> catches]
BreakGoal == [k |-> "break"]
ContinueGoal == [k |-> "continue"]

(* Clauses *)
Rule(head, body) == [kind |-> "rule", head |-> head, body |-> body, fallback |-> <<>>]
Method(head, body, fallback) == [kind |-> "method", head |-> head, body |-> body, fallback |-> fallback]
IsMethodClause(c) == c.kind = "method"
=============================================================================
