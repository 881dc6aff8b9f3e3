---------------------------- MODULE MCGoalSolver ----------------------------
(***************************************************************************)
(* Small programs over the records p(a: 1), p(a: 2) and the rules          *)
(* q(a: X) :- p(a: X), X < 2 and q(a: 3), each body a variation of goals.  *)
(***************************************************************************)
EXTENDS SolverReference, Syntax

A(t) == <<Arg("a", t)>>
Data == [p |-> <<A(Num(1)), A(Num(2))>>]

QRules == << Rule(A(Var("n")), <<PatternGoal("p", A(Var("n"))), WhereGoal("less", Var("n"), Num(2))>>),
             Rule(A(Num(3)), <<>>) >>
\* One value, with an effect; recursive by a tail call; with a fallback.
One == Method(<<>>, <<ExpressionGoal(90, Write(9)), ExpressionGoal(91, Num(1))>>, <<>>)
\* Tail calls, more of them than methods may be nested; and a method that nests.
Hop(id, f) == Method(<<>>, <<ExpressionGoal(id, Write(id)), ExpressionGoal(id + 10, CallTerm(f, <<>>))>>, <<>>)
Nest == Method(<<Arg("n", Var("n"))>>,
               <<AssignGoal("k", CallTerm("nest", <<Arg("n", Var("n"))>>)), ExpressionGoal(93, Var("k"))>>, <<>>)
Guarded == Method(<<Arg("n", Var("n"))>>, <<WhereGoal("less", Var("n"), Num(2)), ExpressionGoal(94, Num(7))>>,
                  << <<WhereGoal("eq", Var("n"), Num(2)), ExpressionGoal(95, Write(8))>>, <<ExpressionGoal(96, Num(6))>> >>)
Library == [q |-> QRules, one |-> <<One>>, hop1 |-> <<Hop(11, "hop2")>>,
            hop2 |-> <<Hop(12, "hop3")>>, hop3 |-> <<Hop(13, "one")>>, nest |-> <<Nest>>, guarded |-> <<Guarded>>]

X == Var("x")
Leaves == { AssignGoal("y", CallTerm("one", <<>>)), AssignGoal("x", Num(1)), TypedGoal("x", "num", Num(2)),
            PatternGoal("p", A(X)), PatternGoal("q", A(X)), NotGoal("p", A(X)), NotGoal("q", A(Num(2))),
            WhereGoal("eq", X, Num(2)), WhereGoal("ne", CallTerm("guarded", <<Arg("n", X)>>), Num(7)),
            ExpressionGoal(1, Write(1)), ExpressionGoal(2, Raise),
            ExpressionGoal(3, CallTerm("q", A(X))), ExpressionGoal(7, CallTerm("hop1", <<>>)),
            AssignGoal("w", CallTerm("nest", <<Arg("n", X)>>)), BreakGoal, ContinueGoal }
Pairs == {<<g>> : g \in Leaves} \cup {<<g, h>> : g, h \in Leaves}

Composites(body) ==
    { ForGoal("x", List(<<Num(1), Num(2)>>), body),
      WhileGoal(Bool(TRUE), body),
      SwitchGoal(X, <<Case(Undefined, <<ExpressionGoal(4, Write(4))>>), Case(Num(2), body),
                      Case(Num(3), <<BreakGoal>>)>>),
      TryGoal(body, <<Catch("e", <<PatternGoal("q", A(X))>>), Catch("x", <<ExpressionGoal(5, Write(5))>>)>>) }

Main(body) == [main |-> TRUE, entry |-> Undefined,
               clauses |-> Library @@ ("main" :> <<Method(<<>>, body, <<>>)>>)]
Query(clauses) == [main |-> FALSE, entry |-> CallTerm("r", A(Num(1))), clauses |-> Library @@ ("r" :> clauses)]

MCPrograms ==
       { Main(<<PatternGoal("p", A(X))>> \o body) : body \in Pairs }
  \cup { Main(<<PatternGoal("p", A(X)), c, ExpressionGoal(6, Write(6))>>) : c \in UNION {Composites(body) : body \in Pairs} }
  \cup { Query(<<Rule(A(Var("z")), <<g, h>>), Rule(A(X), <<h>>)>>) : g, h \in Leaves }
  \cup { Query(<<Rule(A(X), <<g>>), Method(A(X), <<h>>, <<>>)>>) : g, h \in Leaves }

\* Small terms, environments in which u may be bound to v and v to w, and arguments.
U == <<"u", 0>>
V == <<"v", 0>>
W == <<"var", <<"w", 0>>>>
Parts == {Num(1), <<"var", U>>, <<"var", V>>, W}
SmallTerms == Parts \cup {Undefined, List(<<>>)} \cup {List(<<t>>) : t \in Parts}
                    \cup {List(<<t1, t2>>) : t1, t2 \in Parts}
InnerEnvs == {NoBindings} \cup {Bind(NoBindings, V, t) : t \in {Num(1), W, List(<<W>>)}}
SmallEnvs == InnerEnvs \cup {Bind(e, U, t) : e \in InnerEnvs, t \in {Num(2), <<"var", V>>, List(<<Num(1), <<"var", V>>>>)}}
SmallPairs == SmallTerms \X {Num(1), <<"var", U>>, List(<<W>>)}
SmallArgs == UNION {[1 .. n -> [n : {"", "a"}, v : {Num(1), <<"var", U>>, W}]] : n \in 0 .. 2}

\* unifyExpr binds what is unbound and changes nothing else, and a failed one is
\* taken back; so do the outputs of a method, one after the other (appendReturnedSolution).
ASSUME UnifyExtends ==
    \A env \in SmallEnvs :
        /\ \A a, b \in SmallTerms : TermExtends(a, b, env)
        /\ \A pair1, pair2 \in SmallPairs : EachExtends(<<pair1, pair2>>, env)

\* Every alternative unifyCallAlternatives finds has the bindings of the goal.
ASSUME AlternativesExtend ==
    \A env \in SmallEnvs, args, head \in SmallArgs : CallExtends(args, head, env)
=============================================================================
