----------------------------- MODULE GoalSolver -----------------------------
(***************************************************************************)
(* The solver: nested activations of solveIterative, each a stack of       *)
(* frames, and the calls, loops and handlers that wait for them.           *)
(*                                                                         *)
(* The machine is one record, so that what a return or a caught error      *)
(* sets going next can be composed from functions on it:                   *)
(*   stack    activations, the innermost first                             *)
(*   now      what happens next: the loop of the innermost activation      *)
(*            goes on ("solve"), a value arrives at its goal, a call, a      *)
(*            method or a loop takes its next step, or something is thrown   *)
(*   mode     valueCallMode_, strictValueFailures_, methodCallDepth_,      *)
(*            tailGoal_, and the trampoline's depth                        *)
(*   negated  activeNegatedPredicates_                                     *)
(*   trails   the binding trails that are active, the innermost first, as  *)
(*            the activations whose environments they point to             *)
(*   log      the effects on the store, in order                           *)
(*   next     the next number for StandardizeApart                         *)
(*                                                                         *)
(* What is computed by recursion on terms and goals is a parameter, which  *)
(* Unification and Syntax define.                                          *)
(***************************************************************************)
EXTENDS Goals

CONSTANTS
    Programs,        \* [entry |-> call term, main |-> BOOLEAN, clauses |-> name -> clauses]
    Stored,          \* the records of the store: name -> sequence of rows
    MaxFrameDepth,   \* kMaxNativeGoalFrameDepth
    MaxMethodDepth,  \* kMaxNativeMethodCallDepth
    MaxIterations,   \* kMaximumLoopIterations
    Resolve(_, _), Value(_, _), Reduce(_, _),
    UnifyTerm(_, _, _), UnifyEach(_, _), UnifyCallAlternatives(_, _, _), Rollback(_, _),
    BodyHasExpressionGoal(_), StandardizeApart(_, _)

ASSUME StoredAssumption == \A p \in DOMAIN Stored : Stored[p] \in Seq(Range(Stored[p]))

VARIABLES program, machine
vars == <<program, machine>>

Ret == <<"return", 0>>            \* InternalSymbol::ReturnId
Output == <<"value_call_output", 0>>
Solve == [k |-> "solve"]
Error == [k |-> "throw", s |-> "error", env |-> NoBindings]
NoGoal == [k |-> "none"]
Pending == <<"pending">>
Failed == <<"failed">>            \* the entry call has no value
Stopped == <<"error">>            \* an error nobody caught
ErrorValue == Atom("exception")

Clauses(p) == IF p \in DOMAIN program.clauses THEN program.clauses[p] ELSE <<>>
Rows(p) == IF p \in DOMAIN Stored THEN Stored[p] ELSE <<>>

Top(m) == Head(m.stack)
Frame(m) == Head(Top(m).work)
Goal(m) == Head(Frame(m).gs)

NewFrame(gs, env, depth) == [gs |-> gs, env |-> env, depth |-> depth, scan |-> FALSE]
SetTop(m, act) == [m EXCEPT !.stack = <<act>> \o Tail(@), !.now = Solve]
SetWork(m, work) == SetTop(m, [Top(m) EXCEPT !.work = work])
DropFrame(m) == SetWork(m, Tail(Top(m).work))
Continue(m, env) ==
    SetWork(m, <<NewFrame(Tail(Frame(m).gs), env, Frame(m).depth)>> \o Tail(Top(m).work))
Then(m, now) == [m EXCEPT !.now = now]
Valued(v) == [k |-> "value", v |-> v]

Push(m, gs, env, depth, why) ==
    [m EXCEPT !.stack = <<[work |-> <<NewFrame(gs, env, depth)>>, out |-> <<>>, max |-> 1,
                           start |-> depth, why |-> why, mode |-> m.mode,
                           negated |-> m.negated]>> \o @,
              !.now = Solve]

\* The trails of the activations below a height: the outer ones come last.
Outside(trails, height) ==
    LET kept == {i \in DOMAIN trails : trails[i].at < height}
    IN IF kept = {} THEN <<>> ELSE SubSeq(trails, Min(kept), Len(trails))

\* Faulty variant: the negation flag is not restored.
PopKeepingNegated(m) ==
    [m EXCEPT !.stack = Tail(@), !.mode = Top(m).mode,
              !.trails = Outside(@, Len(m.stack))]

\* Leaving an activation, by a return or an exception, restores what it found.
Pop(m) ==
    [m EXCEPT !.stack = Tail(@), !.mode = Top(m).mode,
              !.negated = Top(m).negated,
              !.trails = Outside(@, Len(m.stack))]

\* unifyExpr and solveAssignGoal tell the active trail which environment they
\* change: that of the activation at this height.
Noted(trail, height) == [trail EXCEPT !.envs = @ \cup {height}]
Record(m, height) ==
    IF m.trails = <<>> THEN m
    ELSE [m EXCEPT !.trails = <<Noted(Head(@), height)>> \o Tail(@)]

(***************************************************************************)
(* Expressions                                                             *)
(***************************************************************************)
StartCall(m, f, args, env) ==
    Then([m EXCEPT !.mode.tramp = TRUE, !.mode.trampAt = m.mode.methods],
         [k |-> "once", vc |-> [f |-> f, args |-> args, env |-> env, stage |-> "infer", i |-> 1,
                                outer |-> m.mode]])

\* evalExprValue for the goal on top: solveAssignGoal, solveExpressionGoal ...
Evaluate(m, e) ==
    LET env == Frame(m).env
        r == Reduce(e, env)
    IN CASE r[1] = "raise" -> Then(m, Error)
         [] r[1] = "write" -> Then([m EXCEPT !.log = Append(@, r[2])], Valued(Num(r[2])))
         [] r[1] = "call" -> StartCall(m, r[2], r[3], env)
         [] r[1] = "undefined" -> Then(m, [k |-> "novalue"])
         [] OTHER -> Then(m, Valued(r))

(***************************************************************************)
(* solveMethodCall                                                         *)
(***************************************************************************)
\* The argument for a parameter: findArg.
ArgFor(args, param, i) ==
    LET named == SelectSeq(args, LAMBDA a : a.n = param.n)
    IN IF param.n # "" /\ named # <<>> THEN <<named[1]>>
       ELSE IF i \in DOMAIN args /\ (param.n = "" \/ args[i].n = "") THEN <<args[i]>>
       ELSE <<>>

Declares(head, args, i) ==
    IF args[i].n = "" THEN i \in DOMAIN head ELSE \E j \in DOMAIN head : head[j].n = args[i].n

ShapeFits(clause, args, env) ==
    \A i \in DOMAIN args : Declares(clause.head, args, i) \/ IsVar(Resolve(args[i].v, env))

\* makeMethodParamPlan: the name a parameter is bound to; a named parameter
\* gives the type of its argument, which in a rule is the name of no type.
Local(param) ==
    IF param.n # "" THEN <<param.n, 0>> ELSE IF IsVar(param.v) THEN param.v[2] ELSE <<"", 0>>
Untyped(clause, param) == IsMethodClause(clause) \/ param.n = "" \/ ~IsVar(param.v)

\* The frame of the method, or nothing when an argument does not fit.
BindParams(clause, args, env) ==
    LET One(frames, i) ==
            LET param == clause.head[i]
                arg == ArgFor(args, param, i)
                v == Resolve(arg[1].v, env)
                value == IF IsVar(v) THEN arg[1].v ELSE Value(v, env)
                local == <<"var", Local(param)>>
                u == UnifyTerm(local, value, frames[1])
            IN CASE frames = <<>> -> <<>>
                 [] frames # <<>> /\ arg = <<>> ->
                      IF param.n # "" /\ BodyHasExpressionGoal(clause.body) THEN <<>> ELSE frames
                 [] frames # <<>> /\ arg # <<>> /\ v = local -> frames
                 [] OTHER -> IF value # Undefined /\ (IsVar(v) \/ Untyped(clause, param)) /\ u.ok
                             THEN <<u.s.env>> ELSE <<>>
    IN FoldLeft(One, <<NoBindings>>, [i \in DOMAIN clause.head |-> i])

IsOutput(mr, i) == ~Declares(mr.clause.head, mr.args, i) \/ IsVar(Resolve(mr.args[i].v, mr.env))

Outputs(mr) == SelectSeq([i \in DOMAIN mr.args |-> i], LAMBDA i : IsOutput(mr, i))

\* What the method's environment has for an argument, if anything.
Given(mr, env, i) ==
    LET head == mr.clause.head
        named == SelectSeq(head, LAMBDA h : h.n = mr.args[i].n)
        params == IF mr.args[i].n # "" THEN named ELSE IF i \in DOMAIN head THEN <<head[i]>> ELSE <<>>
    IN IF params # <<>> /\ Local(params[1]) \in DOMAIN env
       THEN <<Resolve(env[Local(params[1])], env)>> ELSE <<>>

\* The output arguments, each with what it is given.
Answers(mr, env) ==
    LET outputs == Outputs(mr)
    IN [o \in DOMAIN outputs |-> <<mr.args[outputs[o]].v, Given(mr, env, outputs[o])[1]>>]

\* The caller's environment with the result and the output arguments.
AppendReturned(mr, env) ==
    IF \E i \in Range(Outputs(mr)) : Given(mr, env, i) = <<>> THEN <<>>
    ELSE UnifyEach(Answers(mr, env), Bind(mr.env, Ret, env[Ret]))

ValueReturned(m, vc, v) == Then([m EXCEPT !.mode = vc.outer], Valued(v))
ValueNone(m, vc) == Then([m EXCEPT !.mode = vc.outer], [k |-> "novalue"])
MethodNone(m, mr) == Then(m, [k |-> "failed", mr |-> mr])
MethodReturned(m, mr, env) == Then(m, [k |-> "returned", mr |-> mr, env |-> env])

\* The method is left: its caller gets the answer, or goes on without one.
LeaveMethod(m, mr, found) ==
    LET o == mr.owner
        back == [m EXCEPT !.mode = mr.mode]
        conts == IF found = <<>> THEN o.conts
                 ELSE Append(o.conts, NewFrame(Tail(Frame(m).gs), found[1], Frame(m).depth + 1))
    IN CASE o.k = "goal" -> Then(back, [k |-> "clauses", i |-> o.i + 1, conts |-> conts])
         [] o.k = "value" /\ found = <<>> -> Then(back, [k |-> "once", vc |-> [o.vc EXCEPT !.i = @ + 1]])
         [] o.k = "value" /\ found # <<>> -> ValueReturned(back, o.vc, found[1][Ret])
         [] o.k = "main" -> [back EXCEPT !.result = IF found = <<>> THEN Stopped ELSE found[1][Ret]]

\* The alternatives of the body, from the j-th on.
Fallback(m, mr, env, j) ==
    IF j > Len(mr.clause.fallback) THEN MethodNone(m, mr)
    ELSE Push(m, mr.clause.fallback[j], env, mr.depth + 1,
              [k |-> "fallback", mr |-> mr, env |-> env, j |-> j])

Guard(m, mr, env) ==
    LET first == SelectInSeq(mr.clause.body, LAMBDA g : g.k = "where")
        guarded == IF first = 0 THEN <<>>
                   ELSE SubSeq(mr.clause.body, first, Len(mr.clause.body))
    IN IF guarded # <<>>
       THEN Push(m, guarded, env, mr.depth + 1, [k |-> "guard", mr |-> mr, env |-> env])
       ELSE IF Ret \in DOMAIN env THEN MethodReturned(m, mr, env)
       ELSE Fallback(m, mr, env, 1)

\* executeGoalTruthTuple: the goals one by one, each with its own truth.
Truth(m, mr, env, truths, j) ==
    IF j > Len(mr.clause.body)
    THEN LET all == \A i \in DOMAIN truths : truths[i] = Bool(TRUE)
         IN MethodReturned(m, mr, Bind(env, Ret, IF all THEN Bool(TRUE) ELSE List(truths)))
    ELSE LET pushed == Push(m, <<mr.clause.body[j]>>, env, 0,
                            [k |-> "truth", mr |-> mr, env |-> env, truths |-> truths, j |-> j])
         IN [pushed EXCEPT !.mode.value = FALSE]

RunMethod(m, mr, env) ==
    LET body == mr.clause.body
        first == SelectInSeq(body, LAMBDA g : g.k = "where")
        prelude == IF first = 0 THEN body ELSE SubSeq(body, 1, first - 1)
    IN IF mr.clause.fallback # <<>>
       THEN IF prelude = <<>> THEN Guard(m, mr, env)
            ELSE Push(m, prelude, env, mr.depth + 1, [k |-> "prelude", mr |-> mr])
       ELSE IF m.mode.value /\ ~mr.main /\ ~BodyHasExpressionGoal(body)
       THEN Truth(m, mr, env, <<>>, 1)
       ELSE Push(m, body, env, mr.depth + 1, [k |-> "body", mr |-> mr, env |-> env])

\* main is called for its value like a procedure, whoever calls it.
IsMain(clause) == \E i \in DOMAIN Clauses("main") : Clauses("main")[i] = clause

MethodCall(clause, args, env, depth, owner) ==
    [k |-> "method", clause |-> clause, args |-> args, env |-> env, depth |-> depth, owner |-> owner]

StartMethod(m, call) ==
    LET clause == call.clause
        mr == [clause |-> clause, args |-> call.args, env |-> call.env, depth |-> call.depth,
               owner |-> call.owner, mode |-> m.mode, main |-> IsMain(clause)]
        inside == [m EXCEPT !.mode.methods = @ + 1,
                            !.mode.tail = IF clause.body = <<>> THEN NoGoal ELSE Last(clause.body)]
        frames == BindParams(clause, call.args, call.env)
    IN IF m.mode.methods >= MaxMethodDepth THEN Then(m, Error)
       ELSE IF ~ShapeFits(clause, call.args, call.env) \/ frames = <<>> THEN MethodNone(inside, mr)
       ELSE RunMethod(IF clause.head = <<>> THEN inside ELSE Record(inside, Len(m.stack) + 1),
                      mr, frames[1])

(***************************************************************************)
(* evalCallAsValueOnce                                                     *)
(***************************************************************************)
Missing(clause, args) ==
    SelectSeq(clause.head, LAMBDA h : h.n # "" /\ \A i \in DOMAIN args : args[i].n # h.n)
Infers(clause, args) ==
    /\ ~IsMethodClause(clause)
    /\ ~BodyHasExpressionGoal(clause.body)
    /\ Len(Missing(clause, args)) = 1
Callable(clause) == clause.body # <<>> \/ IsMethodClause(clause)

Once(m, vc) ==
    LET clauses == Clauses(vc.f)
        values == [i \in DOMAIN vc.args |-> [vc.args[i] EXCEPT !.v = Value(@, vc.env)]]
        clause == clauses[vc.i]
        more == vc.i <= Len(clauses)
        Go(next) == Then(m, [k |-> "once", vc |-> next])
    IN CASE vc.stage = "infer" /\ more ->
              IF Infers(clause, vc.args)
              THEN Push(m, <<CallGoal(vc.f, Append(vc.args,
                                Arg(Missing(clause, vc.args)[1].n, <<"var", Output>>)))>>,
                        vc.env, 0, [k |-> "infer", vc |-> vc])
              ELSE Go([vc EXCEPT !.i = @ + 1])
         [] vc.stage = "infer" /\ ~more ->
              IF \/ \E i \in DOMAIN values : values[i].v = Undefined
                 \/ \A i \in DOMAIN clauses : ~Callable(clauses[i])
              THEN ValueNone(m, vc)
              ELSE Go([vc EXCEPT !.stage = "method", !.i = 1, !.args = values])
         [] vc.stage = "method" /\ more ->
              IF Callable(clause)
              THEN Then([m EXCEPT !.mode.value = TRUE],
                        MethodCall(clause, vc.args, vc.env, 0, [k |-> "value", vc |-> vc]))
              ELSE Go([vc EXCEPT !.i = @ + 1])
         [] OTHER ->
              Push([m EXCEPT !.mode.value = vc.outer.value], <<CallGoal(vc.f, vc.args)>>,
                   vc.env, 0, [k |-> "called", vc |-> vc])

(***************************************************************************)
(* What a goal does with the value of its expression                       *)
(***************************************************************************)
WhereHolds(g, env, lv, rv) ==
    LET l == Resolve(g.l, env)
        r == Resolve(g.r, env)
        u == IF lv = Undefined \/ rv = Undefined THEN UnifyTerm(g.l, g.r, env)
             ELSE UnifyTerm(lv, rv, env)
    IN CASE g.op = "eq" -> [ok |-> u.ok, env |-> u.s.env]
         [] g.op = "ne" -> [ok |-> ~u.ok, env |-> Rollback(u.s, 0).env]
         [] OTHER -> [ok |-> l[1] = "num" /\ r[1] = "num" /\ l[2] < r[2], env |-> env]

Compared(m, lv) ==
    LET back == IF Goal(m).op = "ne" THEN [m EXCEPT !.trails = Tail(@)] ELSE m
        w == WhereHolds(Goal(m), Frame(m).env, lv, Value(Goal(m).r, Frame(m).env))
    IN IF w.ok THEN Continue(back, w.env) ELSE DropFrame(back)

ForRound(items, n, cont) == [k |-> "for", items |-> items, n |-> n, cont |-> cont]
WhileRound(n, cont) == [k |-> "while", n |-> n, cont |-> cont]

ForStep(m, items, n, cont) ==
    LET g == Goal(m) IN
    CASE items = <<>> -> Continue(m, cont)
      [] items # <<>> /\ (n = MaxIterations \/ g.x \in DOMAIN Frame(m).env) -> Then(m, Error)
      [] OTHER -> Push(m, g.body, Bind(Frame(m).env, g.x, Head(items)), Frame(m).depth + 1,
                       ForRound(Tail(items), n + 1, cont))

WhileStepUncounted(m, n, cont) ==
    LET c == Reduce(Goal(m).e, cont) IN
    CASE c = Bool(FALSE) -> Continue(m, cont)
      [] c = Bool(TRUE) ->
           Push(m, Goal(m).body, cont, Frame(m).depth + 1, WhileRound(0, cont))
      [] OTHER -> Then(m, Error)
WhileStep(m, n, cont) ==
    LET c == Reduce(Goal(m).e, cont) IN
    IF n = MaxIterations THEN Then(m, Error)
    ELSE CASE c = Bool(FALSE) -> Continue(m, cont)
           [] c = Bool(TRUE) ->
                Push(m, Goal(m).body, cont, Frame(m).depth + 1, WhileRound(n, cont))
           [] OTHER -> Then(m, Error)

\* The first case with the value, or the last default before it.
Selected(g, v, env) ==
    LET cases == g.cases
        matches == {i \in DOMAIN cases : cases[i].v # Undefined /\ Value(cases[i].v, env) = v}
        defaults == {i \in DOMAIN cases : cases[i].v = Undefined}
    IN IF matches # {} THEN Min(matches) ELSE IF defaults # {} THEN Max(defaults) ELSE 0

SwitchStep(m, v) ==
    LET g == Goal(m)
        selected == Selected(g, v, Frame(m).env)
        bodies == [i \in 1 .. Len(g.cases) - selected + 1 |-> g.cases[selected + i - 1].body]
    IN IF selected = 0 THEN Continue(m, Frame(m).env)
       ELSE Push(m, FlattenSeq(bodies), Frame(m).env, Frame(m).depth + 1, [k |-> "switch"])

Deliver(m, v) ==
    IF m.stack = <<>> THEN [m EXCEPT !.result = v]
    ELSE LET g == Goal(m)
             env == Frame(m).env
             kept == Bind(env, Ret, v)
         IN CASE g.k = "assign" -> Continue(Record(m, Len(m.stack)), Bind(kept, g.x, v))
              [] g.k = "typed" ->
                   IF g.x \in DOMAIN env \/ (g.type # "any" /\ g.type # v[1]) THEN Then(m, Error)
                   ELSE Continue(m, Bind(kept, g.x, v))
              [] g.k = "expr" -> Continue(m, kept)
              [] g.k = "where" -> Compared(m, v)
              [] g.k = "for" -> Then(m, IF v[1] = "list" THEN ForRound(v[2], 0, env) ELSE Error)
              [] g.k = "switch" -> SwitchStep(m, v)

DeliverNone(m) ==
    IF m.stack = <<>> THEN [m EXCEPT !.result = Failed]
    ELSE CASE Goal(m).k = "where" -> Compared(m, Undefined)
           [] Goal(m).k \in {"for", "switch"} -> Then(m, Error)
           [] OTHER -> IF m.mode.strict THEN Then(m, Error) ELSE DropFrame(m)

(***************************************************************************)
(* The clauses of a call, from the i-th on.  Methods run at once, rules    *)
(* become frames; then come the records of the store.                      *)
(***************************************************************************)
\* A variable that is no pattern is its own name.
EffectiveArgs(g, env) ==
    IF g.pattern THEN g.args
    ELSE [i \in DOMAIN g.args |->
             LET v == Resolve(g.args[i].v, env)
             IN IF IsVar(v) THEN Arg(g.args[i].n, Atom(v[2][1])) ELSE g.args[i]]

CallStep(m, i, conts) ==
    LET g == Goal(m)
        f == Frame(m)
        args == EffectiveArgs(g, f.env)
        clauses == Clauses(g.p)
        apart == StandardizeApart(clauses[i], m.next)
        alternatives == UnifyCallAlternatives(args, apart.clause.head, f.env)
        scan == [NewFrame(f.gs, f.env, f.depth + 1) EXCEPT !.scan = TRUE]
    IN IF i > Len(clauses)
       THEN SetWork(m, conts \o <<scan>> \o Tail(Top(m).work))
       ELSE IF IsMethodClause(clauses[i])
       THEN Then(m, MethodCall(clauses[i], args, f.env, f.depth + 1, [k |-> "goal", i |-> i, conts |-> conts]))
       ELSE Then([m EXCEPT !.next = apart.next],
                 [k |-> "clauses", i |-> i + 1, conts |-> conts \o [a \in DOMAIN alternatives |->
                     NewFrame(apart.clause.body \o Tail(f.gs), alternatives[a], f.depth + 1)]])

\* The rows of a deferred scan, each with the goals after the call.
ScanStep(m, rows) ==
    LET f == Frame(m)
        args == EffectiveArgs(Goal(m), f.env)
        fits == {i \in DOMAIN rows : UnifyCallAlternatives(args, rows[i], f.env) # <<>>}
        i == Min(fits)
        pushed == Push(m, Tail(f.gs), UnifyCallAlternatives(args, rows[i], f.env)[1], f.depth + 1,
                       [k |-> "scan", rows |-> SubSeq(rows, i + 1, Len(rows))])
    IN IF fits = {} \/ Len(Top(m).out) >= Top(m).max THEN DropFrame(m)
       ELSE SetTop(pushed, [Top(pushed) EXCEPT !.out = Top(m).out, !.max = Top(m).max])

(***************************************************************************)
(* Returns and exceptions                                                  *)
(***************************************************************************)
CatchStep(m, j) ==
    LET c == Goal(m).catches[j]
        env == Frame(m).env
    IN IF c.x \in DOMAIN env THEN Then(m, Error)
       ELSE Push(m, c.body, Bind(env, c.x, ErrorValue), Frame(m).depth + 1, [k |-> "catch", j |-> j])

Leaving(m, found, env) == IF found THEN Continue(m, env) ELSE DropFrame(m)

\* A method whose body has a solution, or, called for its value, has none.
BodyDone(m, why, found, env) ==
    LET default == IF why.mr.main THEN Atom("empty") ELSE Bool(TRUE) IN
    IF found THEN MethodReturned(m, why.mr, IF Ret \in DOMAIN env THEN env ELSE Bind(env, Ret, default))
    ELSE IF m.mode.value /\ ~why.mr.main
    THEN MethodReturned(m, why.mr, Bind(why.env, Ret, Bool(FALSE)))
    ELSE MethodNone(m, why.mr)

Returned(m) ==
    LET why == Top(m).why
        found == Top(m).out # <<>>
        env == IF found THEN Top(m).out[1] ELSE NoBindings
        back == Pop(m)
        result == found /\ Ret \in DOMAIN env
    IN CASE why.k = "for" -> Then(back, why)
         [] why.k = "while" -> IF found THEN Then(back, WhileRound(why.n + 1, why.cont))
                               ELSE Continue(back, why.cont)
         [] why.k \in {"switch", "try"} -> Leaving(back, found, env)
         [] why.k = "catch" -> Leaving(back, found, Unbind(env, Goal(back).catches[why.j].x))
         [] why.k = "not" -> Leaving(back, ~found, Frame(back).env)
         [] why.k = "scan" -> Then(SetTop(back, [Top(back) EXCEPT !.out = Top(m).out]), [k |-> "rows", rows |-> why.rows])
         [] why.k = "prelude" -> IF found THEN Guard(back, why.mr, env) ELSE MethodNone(back, why.mr)
         [] why.k = "guard" -> IF result THEN MethodReturned(back, why.mr, env)
                               ELSE Fallback(back, why.mr, why.env, 1)
         [] why.k = "fallback" -> IF result THEN MethodReturned(back, why.mr, env)
                                  ELSE Fallback(back, why.mr, why.env, why.j + 1)
         [] why.k = "body" -> BodyDone(back, why, found, env)
         [] why.k = "truth" -> Truth(back, why.mr, IF found THEN env ELSE why.env,
                                     Append(why.truths, Bool(found)), why.j + 1)
         [] why.k = "infer" -> IF found /\ Output \in DOMAIN env
                               THEN ValueReturned(back, why.vc, Value(<<"var", Output>>, env))
                               ELSE Then(back, [k |-> "once", vc |-> [why.vc EXCEPT !.i = @ + 1]])
         [] why.k = "called" -> IF found THEN ValueReturned(back, why.vc, Atom("true"))
                                ELSE ValueNone(back, why.vc)

\* break and continue do not leave a solve that starts at depth 0.
Escaping(m) ==
    IF m.now.s \in {"break", "continue"} /\ Top(m).start = 0 THEN Error ELSE m.now

KeepReturn(cont, env) == IF Ret \in DOMAIN env THEN Bind(cont, Ret, env[Ret]) ELSE cont

Unwound(m) ==
    LET why == Top(m).why
        sig == Escaping(m)
        back == Pop(m)
    IN CASE sig.s = "break" /\ why.k \in {"for", "while"} ->
              Continue(back, KeepReturn(why.cont, sig.env))
         [] sig.s = "break" /\ why.k = "switch" -> Continue(back, sig.env)
         [] sig.s = "continue" /\ why.k = "for" -> Then(back, why)
         [] sig.s = "continue" /\ why.k = "while" -> Then(back, WhileRound(why.n + 1, why.cont))
         [] sig.s = "error" /\ why.k = "try" -> CatchStep(back, 1)
         [] sig.s = "error" /\ why.k = "catch" /\ why.j < Len(Goal(back).catches) ->
              CatchStep(back, why.j + 1)
         [] sig.s = "tail" /\ why.k \in {"body", "prelude", "guard", "fallback"}
                          /\ why.mr.owner.k = "value" ->
              LET vc == why.mr.owner.vc
              IN StartCall([back EXCEPT !.mode = vc.outer], sig.f, sig.args, sig.env)
         [] OTHER -> Then(back, sig)

(***************************************************************************)
(* The loop of solveIterative                                              *)
(***************************************************************************)
Finished(m) == Top(m).work = <<>> \/ Len(Top(m).out) >= Top(m).max

Now(k) == machine.result = Pending /\ machine.now.k = k
Solving == Now("solve") /\ ~Finished(machine)
TooDeep == Frame(machine).depth > MaxFrameDepth
At(kinds) ==
    /\ Solving
    /\ ~TooDeep
    /\ ~Frame(machine).scan
    /\ Frame(machine).gs # <<>>
    /\ Goal(machine).k \in kinds

Become(m) == machine' = m /\ UNCHANGED program

DepthExceeded == Solving /\ TooDeep /\ Become(Then(machine, Error))

Solution ==
    /\ Solving /\ ~TooDeep /\ ~Frame(machine).scan /\ Frame(machine).gs = <<>>
    /\ Become(SetTop(machine, [Top(machine) EXCEPT !.out = Append(@, Frame(machine).env),
                                                   !.work = Tail(@)]))

ScanFacts ==
    /\ Solving /\ ~TooDeep /\ Frame(machine).scan
    /\ Become(Then(machine, [k |-> "rows", rows |-> Rows(Goal(machine).p)]))

SolveAssignAgain == At({"assign"}) /\ Become(Evaluate(machine, Goal(machine).e))
SolveAssign ==
    /\ At({"assign"})
    /\ Become(IF Goal(machine).x \in DOMAIN Frame(machine).env THEN Then(machine, Error)
              ELSE Evaluate(machine, Goal(machine).e))

SolveTyped == At({"typed"}) /\ Become(Evaluate(machine, Goal(machine).e))

IsTailCallAnywhere ==
    LET g == Goal(machine) IN g.e[1] = "call" /\ machine.mode.tramp /\ Clauses(g.e[2]) # <<>>
IsTailCall ==
    LET g == Goal(machine) IN
    /\ g.e[1] = "call"
    /\ machine.mode.tramp
    /\ machine.mode.methods = machine.mode.trampAt + 1
    /\ g = machine.mode.tail
    /\ Clauses(g.e[2]) # <<>>

SolveExpression ==
    /\ At({"expr"})
    /\ Become(IF IsTailCall
              THEN Then(machine, [k |-> "throw", s |-> "tail", env |-> Frame(machine).env,
                                   f |-> Goal(machine).e[2], args |-> Goal(machine).e[3]])
              ELSE Evaluate(machine, Goal(machine).e))

SolveWhere ==
    /\ At({"where"})
    /\ LET g == Goal(machine) IN
       Become(IF g.op = "less" THEN Compared(machine, Undefined)
              ELSE Evaluate(IF g.op = "ne"
                            THEN [machine EXCEPT !.trails =
                                     <<[at |-> Len(machine.stack), envs |-> {}]>> \o @]
                            ELSE machine, g.l))

\* solveNotGoal: only relational predicates, only bound arguments, and not inside
\* the negation of the same predicate.
SolveNot ==
    /\ At({"not"})
    /\ LET g == Goal(machine)
           env == Frame(machine).env
           clauses == Clauses(g.p)
       IN Become(
            IF \/ \E i \in DOMAIN g.args : IsVar(Resolve(g.args[i].v, env))
               \/ \E i \in DOMAIN clauses : IsMethodClause(clauses[i])
               \/ clauses = <<>> /\ g.p \notin DOMAIN Stored
               \/ g.p \in machine.negated
            THEN Then(machine, Error)
            ELSE [Push(machine, <<CallGoal(g.p, g.args)>>, env, Frame(machine).depth + 2, [k |-> "not"])
                  EXCEPT !.negated = @ \cup {g.p}])

SolveFor == At({"for"}) /\ Become(Evaluate(machine, Goal(machine).e))
SolveWhile == At({"while"}) /\ Become(Then(machine, WhileRound(0, Frame(machine).env)))
SolveSwitch == At({"switch"}) /\ Become(Evaluate(machine, Goal(machine).e))

SolveTry ==
    /\ At({"try"})
    /\ Become(Push(machine, Goal(machine).body, Frame(machine).env, Frame(machine).depth + 1, [k |-> "try"]))

SolveBreak ==
    /\ At({"break", "continue"})
    /\ Become(Then(machine, [k |-> "throw", s |-> Goal(machine).k, env |-> Frame(machine).env]))

SolveCall == At({"call"}) /\ Become(Then(machine, [k |-> "clauses", i |-> 1, conts |-> <<>>]))

(* What the loop waits for *)
TryClause == Now("clauses") /\ Become(CallStep(machine, machine.now.i, machine.now.conts))
TryRow == Now("rows") /\ Become(ScanStep(machine, machine.now.rows))
NextItem == Now("for") /\ Become(ForStep(machine, machine.now.items, machine.now.n, machine.now.cont))
TestCondition == Now("while") /\ Become(WhileStep(machine, machine.now.n, machine.now.cont))
CallForValue == Now("once") /\ Become(Once(machine, machine.now.vc))
EnterMethod == Now("method") /\ Become(StartMethod(machine, machine.now))
MethodAnswers ==
    /\ Now("returned")
    /\ Become(LeaveMethod(machine, machine.now.mr, AppendReturned(machine.now.mr, machine.now.env)))
MethodFails == Now("failed") /\ Become(LeaveMethod(machine, machine.now.mr, <<>>))
ValueArrives == Now("value") /\ Become(Deliver(machine, machine.now.v))
NoValueArrives == Now("novalue") /\ Become(DeliverNone(machine))

Return == Now("solve") /\ Finished(machine) /\ Become(Returned(machine))

Unwind ==
    /\ Now("throw")
    /\ Become(IF machine.stack = <<>> THEN [machine EXCEPT !.result = Stopped] ELSE Unwound(machine))

Idle ==
    [stack |-> <<>>, now |-> Solve, negated |-> {}, trails |-> <<>>, log |-> <<>>, next |-> 1,
     mode |-> [value |-> FALSE, strict |-> FALSE, methods |-> 0, tail |-> NoGoal,
               tramp |-> FALSE, trampAt |-> 0],
     result |-> Pending]

\* executeEntryCall and callMain
Begin ==
    IF program.main
    THEN Then([Idle EXCEPT !.mode.strict = TRUE],
              MethodCall(Last(Clauses("main")), <<>>, NoBindings, 0, [k |-> "main"]))
    ELSE StartCall(Idle, program.entry[2], program.entry[3], NoBindings)

Init == program \in Programs /\ machine = Begin

Ended == machine.result # Pending /\ UNCHANGED vars

Next ==
    \/ DepthExceeded \/ Solution \/ ScanFacts \/ SolveAssign \/ SolveTyped \/ SolveExpression
    \/ SolveWhere \/ SolveNot \/ SolveFor \/ SolveWhile \/ SolveSwitch \/ SolveTry \/ SolveBreak
    \/ SolveCall \/ TryClause \/ TryRow \/ NextItem \/ TestCondition \/ CallForValue \/ EnterMethod
    \/ MethodAnswers \/ MethodFails \/ ValueArrives \/ NoValueArrives \/ Return \/ Unwind
    \/ Ended

\* The interpreter goes on until the program has ended: WF_vars(Next), written
\* without the ENABLED that TLC would evaluate without any caching.  The two
\* agree as some step is always possible, which TLC checks as the absence of
\* deadlock.
Progress == []<>(machine.result # Pending) \/ []<><<TRUE>>_vars

Spec == Init /\ [][Next]_vars /\ Progress

(***************************************************************************)
(* Properties                                                              *)
(***************************************************************************)
\* However the program ends, by a value or by an error thrown through any number
\* of calls, negations and handlers, nothing of what they had set is left over:
\* the next call of the session starts with no predicate marked as being negated
\* and with no trail of a comparison that was given up.
Restored ==
    machine.result # Pending =>
        /\ machine.stack = <<>>
        /\ machine.negated = {}
        /\ machine.trails = <<>>

\* Nothing is unbound or bound anew, the result of the last call excepted.
Extends(e, env) == \A x \in (DOMAIN env) \ {Ret} : x \in DOMAIN e /\ e[x] = env[x]

\* What unification promises: it binds what is unbound and changes nothing else,
\* and a comparison that fails puts back what it has bound.
TermExtends(a, b, env) ==
    LET u == UnifyTerm(a, b, env)
    IN Extends(IF u.ok THEN u.s.env ELSE Rollback(u.s, 0).env, env)
EachExtends(pairs, env) ==
    LET found == UnifyEach(pairs, env) IN found # <<>> => Extends(found[1], env)
CallExtends(args, head, env) ==
    LET found == UnifyCallAlternatives(args, head, env)
    IN found \in Seq(Range(found)) /\ \A i \in DOMAIN found : Extends(found[i], env)

\* A frame that goes on after its first goal still has its bindings.
GoesOn(old, new) ==
    old.work # <<>> /\ new.work # <<>> /\ Len(new.work) = Len(old.work) =>
       LET f == Head(old.work)
           g == Head(new.work)
       IN f.gs # <<>> /\ g.gs = Tail(f.gs) /\ g.depth = f.depth /\ ~f.scan => Extends(g.env, f.env)

\* A variable is bound once: the goals after a goal see every binding that was
\* there before it, the result of the last call excepted, whatever was called,
\* tried, caught, left or backtracked in between.  It depends on
\* BreakStaysInMethod: a switch that a break of another method ends goes on with
\* the variables of that method.
Departs == Now("throw") \/ (Now("solve") /\ Finished(machine))
GoesOnAsBound ==
    /\ Len(machine'.stack) \in 1 .. Len(machine.stack)
    /\ Departs => Len(machine'.stack) < Len(machine.stack)
    => GoesOn(machine.stack[Len(machine.stack) - Len(machine'.stack) + 1], Top(machine'))
SingleAssignment == [][GoesOnAsBound]_vars

\* Every program ends, with a value or an error: loops are counted, and calls and
\* conjunctions have a depth.  Only a chain of tail calls has no limit.
Halts == <>(machine.result # Pending)

\* "'break' may only be used inside a loop or switch": the break of a method ends
\* a loop or switch of that method, or is an error.
MethodBody == {"body", "prelude", "guard", "fallback", "truth"}
StaysInMethod ==
    Now("throw") /\ machine.stack # <<>> /\ Top(machine).why.k \in MethodBody =>
        ~(machine'.now.k = "throw" /\ machine'.now.s \in {"break", "continue"})
BreakStaysInMethod == [][StaysInMethod]_vars
=============================================================================
