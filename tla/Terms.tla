------------------------------- MODULE Terms -------------------------------
(***************************************************************************)
(* Terms and environments, as the solver uses them.  A variable is a name  *)
(* with the number of the clause instance it belongs to, 0 in the source   *)
(* text.  A term is a tuple headed by its kind.                            *)
(***************************************************************************)
EXTENDS Naturals, SequencesExt, FiniteSetsExt

Var(name) == <<"var", <<name, 0>>>>
Num(n) == <<"num", n>>
Bool(b) == <<"bool", b>>
Atom(x) == <<"atom", x>>
List(ts) == <<"list", ts>>
Undefined == <<"undefined">>     \* an expression that has no value

IsVar(t) == t[1] = "var"

(***************************************************************************)
(* Env: a partial function from variables to terms; a variable may be      *)
(* bound to another one.                                                   *)
(***************************************************************************)
NoBindings == <<>>
Bind(env, x, t) == [y \in (DOMAIN env) \cup {x} |-> IF y = x THEN t ELSE env[y]]
Unbind(env, x) == Restrict(env, DOMAIN env \ {x})
=============================================================================
