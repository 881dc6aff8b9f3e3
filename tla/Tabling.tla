------------------------------ MODULE Tabling ------------------------------
(***************************************************************************)
(* Reasoning over relational rules (src/src/ReasoningRuntime.cpp): the     *)
(* tables of a predicate and of all it depends on are built stratum by     *)
(* stratum in semi-naive rounds, with the proofs of each answer, and kept  *)
(* until a predicate or the lineage they depend on changes.                *)
(*                                                                         *)
(* One session.  A module load may be rolled back, which gives back the    *)
(* generations too.  Inside the statement batch of addProgram a write      *)
(* leaves the clearing of the caches to the end of the batch.  Positions   *)
(* in a sequence stand for the numbers of answers and proofs.              *)
(***************************************************************************)
EXTENDS RelationalRules, SequencesExt, FiniteSetsExt, TLC

CONSTANTS Clause,          \* the clauses modules may add
          Programs,        \* sets of clauses the session starts with
          FactSets,        \* sets of stored facts <<type, values>>
          NewFact,         \* facts that may be stored or deleted later
          Subtype,         \* pairs <<type, the type it extends>>
          Contrary,        \* pairs of predicates that may be registered
          Query,           \* calls <<predicate, terms>>
          Value,
          Arity,           \* a predicate's number of fields
          MaxChanges,      \* bound: changes of program, facts and lineage
          MaxProofs,       \* MaxProofsPerAnswer
          AskAfterWrite,   \* also while a batch has yet to clear the caches
          CaughtInLoad,    \* a load catches errors of its statements
          NotLoading, Idle, NoAnswer

ASSUME BoundAssumption == MaxChanges \in Nat /\ MaxProofs \in Nat \ {0}
ASSUME SessionAssumption == AskAfterWrite \in BOOLEAN /\ CaughtInLoad \in BOOLEAN
ASSUME ClauseAssumption ==
    /\ IsFiniteSet(Clause)
    /\ \A c \in Clause : c.body \in Seq(GoalsOf(c)) /\ (c.relational => ~c.method)
\* The initial programs have been validated clause by clause.
ASSUME ProgramAssumption == \A cs \in Programs : cs \subseteq Clause /\ IsStratified({}, cs)

\* Clauses and facts name every field of a predicate.
FitsArity(c) ==
    /\ DOMAIN c.args = 1 .. Arity[c.head] /\ AreTerms(c.args, Value)
    /\ \A g \in GoalsOf(c) :
          /\ AreTerms(g.args, Value)
          /\ g.kind \in {"call", "not"} => DOMAIN g.args = 1 .. Arity[g.of]
          /\ g.kind \in {"where", "assign"} => DOMAIN g.args = 1 .. 2

\* A variable is bound before it is negated, compared, read or answered: an
\* answer that is not ground is dropped, and the model has none.
IsSafe(c) ==
    /\ Unbound(c.args, <<>>) \subseteq VarsUpTo(c, Len(c.body))
    /\ \A i \in DOMAIN c.body :
          LET g == c.body[i] IN
          /\ g.kind \in {"not", "where"} => Unbound(g.args, <<>>) \subseteq VarsUpTo(c, i - 1)
          /\ g.kind = "assign" => Unbound(<<g.args[2]>>, <<>>) \subseteq VarsUpTo(c, i - 1)

ASSUME SafetyAssumption == \A c \in Clause : c.relational => FitsArity(c) /\ IsSafe(c)

Facts == (UNION FactSets) \cup NewFact

ASSUME DataAssumption ==
    /\ IsFiniteSet(Value) /\ IsFiniteSet(Facts) /\ IsFiniteSet(Subtype)
    /\ \A c \in Clause : Arity[c.head] \in Nat
    /\ \A f \in Facts : f[2] \in [1 .. Arity[f[1]] -> Value]
    /\ \A e \in Subtype : Arity[e[1]] = Arity[e[2]]

VARIABLES program,        \* clauses_
          store,          \* facts
          lineage,        \* pairs in force
          hierarchyGeneration,
          generations,    \* symbolGenerations_
          contraries,     \* contraries_
          tables,         \* tableCache_: a partial function of predicates
          batch,          \* [depth, pending] of the cache invalidations
          loading,        \* what a rollback restores
          changes,        \* number of changes so far
          work,           \* the query that is being answered
          answer          \* what the last step answered

state == <<program, store, lineage, hierarchyGeneration, generations, contraries>>
vars == <<state, tables, batch, loading, changes, work, answer>>

Predicate ==
    {c.head : c \in Clause} \cup (UNION {Targets(c) : c \in Clause})
    \cup {f[1] : f \in Facts} \cup {e[1] : e \in Subtype} \cup {e[2] : e \in Subtype}

------------------------------------------------------------------------------
(* Tables: [answers |-> a sequence of [args, proofs], delta |-> positions] *)

NoTable == [answers |-> <<>>, delta |-> {}]

\* t is p or, over any number of pairs, a subtype of it.
Compatible(pairs, t, p) ==
    \A ts \in SUBSET ({p} \cup {e[1] : e \in pairs}) :
        p \in ts /\ (\A e \in pairs : e[2] \in ts => e[1] \in ts) => t \in ts

Bucket(facts, t) == {f \in facts : f[1] = t}

\* The elements of S in some order.
Listed(S) ==
    LET list[n \in 0 .. Cardinality(S)] ==
            IF n = 0 THEN <<>>
            ELSE LET listed == list[n - 1]
                 IN Append(listed, CHOOSE x \in S : \A i \in DOMAIN listed : x # listed[i])
    IN list[Cardinality(S)]

\* durableFactBuckets: the facts of p and then those of its subtypes.
StoredFacts(p) ==
    Listed(Bucket(store, p)) \o
    Listed({f \in store \ Bucket(store, p) : Compatible(lineage, f[1], p)})

------------------------------------------------------------------------------
(* One evaluation, e: names, rules, table, proofs, stratum, ... *)

\* A proof: the stored fact, or the rule with the proofs of its goals.  `of`
\* is the atom proved, which the program does not keep.
FactProof(f, p) == [of |-> <<p, f[2]>>, facts |-> {f}, rule |-> {}, parents |-> <<>>]
RuleProof(c, args, from) ==
    [of |-> <<c.head, args>>, facts |-> {}, rule |-> {c}, parents |-> from]

Ascending(K, n) ==
    LET upTo[k \in 0 .. n] ==
            IF k = 0 THEN <<>> ELSE IF k \in K THEN Append(upTo[k - 1], k) ELSE upTo[k - 1]
    IN upTo[n]
Positions(seq, Test(_)) == Ascending({k \in DOMAIN seq : Test(k)}, Len(seq))

\* Faulty variant: the proofs of earlier goals are lost.
ProofsOfLast(binding, found) == found.proofs
ProofsOfBoth(binding, found) == binding.from \o found.proofs

\* evaluateTableGoals, one goal after the binding b.  The pivot goal takes the
\* new answers only.
Step(e, c, i, pivot, b) ==
    LET g == c.body[i] IN
    CASE g.kind = "call" ->
           LET table == e.table[g.of]
               ks == Positions(table.answers,
                               LAMBDA k : /\ i = pivot => k \in table.delta
                                          /\ Matches(b.env, g.args, table.answers[k].args))
           IN [n \in DOMAIN ks |->
                  [env |-> Extended(b.env, g.args, table.answers[ks[n]].args),
                   from |-> ProofsOfBoth(b, table.answers[ks[n]])]]
      [] g.kind = "not" ->
           IF \E a \in Range(e.table[g.of].answers) : Matches(b.env, g.args, a.args)
           THEN <<>> ELSE <<b>>
      [] g.kind = "where" ->
           IF Valued(g.args[1], b.env) # Valued(g.args[2], b.env) THEN <<b>> ELSE <<>>
      [] g.kind = "assign" ->
           LET v == Valued(g.args[2], b.env)
           IN IF Matches(b.env, <<g.args[1]>>, <<v>>)
              THEN <<[b EXCEPT !.env = Extended(@, <<g.args[1]>>, <<v>>)]>> ELSE <<>>

Bindings(e, c, pivot) ==
    LET after[i \in 0 .. Len(c.body)] ==
            IF i = 0 THEN <<[env |-> <<>>, from |-> <<>>]>>
            ELSE FlattenSeq([n \in DOMAIN after[i - 1] |-> Step(e, c, i, pivot, after[i - 1][n])])
    IN after[Len(c.body)]

\* The call goals of the stratum whose predicates have new answers.  A rule
\* without any is evaluated in the first round only, in full.
Pivots(e, c) ==
    LET pivots == Positions(c.body, LAMBDA i : /\ c.body[i].kind = "call"
                                               /\ e.stratum[c.body[i].of] = e.current
                                               /\ e.table[c.body[i].of].delta # {})
    IN IF pivots = <<>> /\ e.first THEN <<0>> ELSE pivots

\* What the rules of the stratum prove this round.
Proofs(e, c) ==
    FlattenSeq([n \in DOMAIN Pivots(e, c) |->
        LET found == Bindings(e, c, Pivots(e, c)[n])
        IN [k \in DOMAIN found |->
               RuleProof(c, Instance(c.args, found[k].env), found[k].from)]])

StratumRules(e) ==
    LET ks == Positions(e.rules, LAMBDA k : e.stratum[e.rules[k].head] = e.current)
    IN [n \in DOMAIN ks |-> e.rules[ks[n]]]

RoundProofs(e) ==
    FlattenSeq([n \in DOMAIN StratumRules(e) |-> Proofs(e, StratumRules(e)[n])])

\* Only the heads of the stratum's rules lose their new answers.
WithoutDelta(e) ==
    [e EXCEPT !.table = [p \in e.names |->
        IF \E c \in Range(StratumRules(e)) : c.head = p
        THEN [@[p] EXCEPT !.delta = {}] ELSE @[p]]]

Bounded(proofs) == SubSeq(proofs, 1, Min({MaxProofs, Len(proofs)}))

\* The numbers that proofs of an atom get.
HandlesOf(e, proved, atom) ==
    LET ks == Positions(proved, LAMBDA k : proved[k].of = atom)
    IN [i \in DOMAIN ks |-> Len(e.proofs) + ks[i]]

\* The first proofs of atoms of p that are no answers yet.
FirstProofs(e, p, proved) ==
    Positions(proved, LAMBDA k : /\ proved[k].of[1] = p
                                 /\ \A a \in Range(e.table[p].answers) : a.args # proved[k].of[2]
                                 /\ \A i \in 1 .. k - 1 : proved[i].of # proved[k].of)

\* The table of p with the atoms proved, in order: an answer that is known
\* gets the proof, up to a number, and any other is new.
WithProofs(e, p, proved) ==
    LET old == e.table[p].answers
        new == FirstProofs(e, p, proved)
    IN [answers |->
            [i \in DOMAIN old |->
                [old[i] EXCEPT !.proofs = Bounded(@ \o HandlesOf(e, proved, <<p, old[i].args>>))]]
            \o [i \in DOMAIN new |->
                [args |-> proved[new[i]].of[2],
                 proofs |-> Bounded(HandlesOf(e, proved, proved[new[i]].of))]],
        delta |-> e.table[p].delta \cup Len(old) + 1 .. Len(old) + Len(new)]

Install(e, proved) ==
    [e EXCEPT !.table = [p \in e.names |-> WithProofs(e, p, proved)], !.proofs = @ \o proved]

Size(e) == Cardinality(UNION {{p} \X DOMAIN e.table[p].answers : p \in e.names})

\* Faulty variant: an answer that is known already counts as progress.
ProgressByAnyProof(before, proofs, after) == proofs # <<>>
Progress(before, proofs, after) == Size(after) > Size(before)

AfterRound(e, proofs) ==
    LET after == Install(WithoutDelta(e), proofs)
    IN [after EXCEPT !.rounds = @ + 1,
                     !.first = ~Progress(e, proofs, after),
                     !.current = IF Progress(e, proofs, after) THEN @ ELSE @ + 1]

\* Faulty variant: what is negated may be evaluated at the same time.
RequiredAsCalled(stratum, g) ==
    IF g.kind \in {"call", "not"} THEN stratum[g.of] ELSE 0
Required(stratum, g) ==
    IF g.kind \in {"call", "not"} THEN stratum[g.of] + (IF g.kind = "not" THEN 1 ELSE 0) ELSE 0

\* A pass over the dependencies of all rules.
Raised(stratum, c) ==
    [stratum EXCEPT ![c.head] = Max({@} \cup {Required(stratum, g) : g \in GoalsOf(c)})]
AfterPass(stratum, rules) ==
    LET after[k \in 0 .. Len(rules)] == IF k = 0 THEN stratum ELSE Raised(after[k - 1], rules[k])
    IN after[Len(rules)]

MaxStratum(e) == Max(Range(e.stratum))

------------------------------------------------------------------------------
(* The session *)

NotInBatch == [depth |-> 0, pending |-> FALSE]
InBatch == batch.depth > 0

Init ==
    /\ program \in Programs
    /\ store \in FactSets
    /\ lineage = {} /\ hierarchyGeneration = 1
    /\ generations = [p \in Predicate |-> 0]
    /\ contraries = <<>>
    /\ tables = <<>>
    /\ batch = NotInBatch
    /\ loading = NotLoading
    /\ changes = 0
    /\ work = Idle
    /\ answer = NoAnswer

Change == work = Idle /\ changes < MaxChanges /\ changes' = changes + 1 /\ answer' = NoAnswer

InvalidateCaches ==
    IF InBatch THEN batch' = [batch EXCEPT !.pending = TRUE] /\ UNCHANGED tables
    ELSE tables' = <<>> /\ UNCHANGED batch

\* A statement invalidates the caches when it has succeeded.  One that fails
\* after a row is undone, except in a load: there the rows before stay staged,
\* and they are committed when a try of the load catches the error.
InvalidateOrFail ==
    \/ InvalidateCaches
    \/ CaughtInLoad /\ loading # NotLoading /\ UNCHANGED <<tables, batch>>

\* publishFact and the rows of Fact.delete; Fact.update is both.
PublishFact(f) ==
    /\ Change
    /\ store' = store \cup {f}
    /\ InvalidateOrFail
    /\ UNCHANGED <<program, lineage, hierarchyGeneration, generations, contraries, loading, work>>

DeleteFact(f) ==
    /\ Change /\ f \in store
    /\ store' = store \ {f}
    /\ InvalidateOrFail
    /\ UNCHANGED <<program, lineage, hierarchyGeneration, generations, contraries, loading, work>>

\* addProgram with one clause; it begins and ends a batch, within which the
\* clause invalidates no cache but advances its own generation.
AddClause(c) ==
    /\ Change /\ loading # NotLoading /\ c \notin program
    /\ IsStratified(program, {c})
    /\ program' = program \cup {c}
    /\ generations' = [generations EXCEPT ![c.head] = @ + 1]
    /\ UNCHANGED <<store, lineage, hierarchyGeneration, contraries, tables, batch, loading, work>>

ExtendType(pair) ==
    /\ Change /\ pair \notin lineage
    /\ lineage' = lineage \cup {pair}
    /\ hierarchyGeneration' = hierarchyGeneration + 1
    /\ UNCHANGED <<program, store, generations, contraries, tables, batch, loading, work>>

\* evalReasoningContrary: the contrary of a predicate is final.
RegisterContrary(pair) ==
    /\ Change /\ pair[1] # pair[2]
    /\ pair[1] \in DOMAIN contraries => contraries[pair[1]] = pair[2]
    /\ contraries' = (pair[1] :> pair[2]) @@ contraries
    /\ UNCHANGED <<program, store, lineage, hierarchyGeneration, generations, tables, batch,
                   loading, work>>

BeginBatch ==
    /\ work = Idle /\ loading # NotLoading /\ ~InBatch
    /\ batch' = [batch EXCEPT !.depth = 1]
    /\ answer' = NoAnswer
    /\ UNCHANGED <<state, tables, loading, changes, work>>

EndBatch ==
    /\ work = Idle /\ InBatch
    /\ batch' = NotInBatch
    /\ tables' = IF batch.pending THEN <<>> ELSE tables
    /\ answer' = NoAnswer
    /\ UNCHANGED <<state, loading, changes, work>>

BeginModule ==
    /\ work = Idle /\ loading = NotLoading /\ ~InBatch /\ changes < MaxChanges
    /\ loading' = [program |-> program, store |-> store, lineage |-> lineage,
                   hierarchyGeneration |-> hierarchyGeneration,
                   generations |-> generations, contraries |-> contraries]
    /\ answer' = NoAnswer
    /\ UNCHANGED <<state, tables, batch, changes, work>>

CommitModule ==
    /\ work = Idle /\ loading # NotLoading /\ ~InBatch
    /\ loading' = NotLoading
    /\ answer' = NoAnswer
    /\ UNCHANGED <<state, tables, batch, changes, work>>

RollbackModule ==
    /\ work = Idle /\ loading # NotLoading
    /\ program' = loading.program /\ store' = loading.store
    /\ lineage' = loading.lineage
    /\ hierarchyGeneration' = loading.hierarchyGeneration
    /\ generations' = loading.generations /\ contraries' = loading.contraries
    /\ tables' = <<>>
    /\ batch' = NotInBatch
    /\ loading' = NotLoading
    /\ answer' = NoAnswer
    /\ UNCHANGED <<changes, work>>

------------------------------------------------------------------------------
(* Answering a query *)

Ground(query) == \A i \in DOMAIN query[2] : query[2][i][1] = "val"

\* reasoning.prove takes ground calls and fails, with no effect, on a predicate
\* it does not know; the solver takes any, and only for recursive
\* predicates, or those that happen to have a table.
Ask(query, prove) ==
    /\ work = Idle
    /\ prove => Ground(query)
    /\ batch.pending => AskAfterWrite
    /\ work' = [phase |-> "lookup", query |-> query, prove |-> prove, side |-> "positive",
                of |-> query[1], found |-> [positive |-> {}, negative |-> {}],
                facts |-> [positive |-> {}, negative |-> {}]]
    /\ answer' = NoAnswer
    /\ UNCHANGED <<state, tables, batch, loading, changes>>

AtPhase(phase) == work # Idle /\ work.phase = phase

\* Faulty variant: only the generation of the predicate asked for is compared.
IsValidByRoot(e) ==
    /\ e.hierarchyGeneration = hierarchyGeneration
    /\ e.generations[e.root] = generations[e.root]

\* tableEvaluationValid
IsValid(e) ==
    /\ e.hierarchyGeneration = hierarchyGeneration
    /\ \A p \in e.names : e.generations[p] = generations[p]

HasTable(p) == p \in DOMAIN tables /\ IsValid(tables[p])

MayBuild(p) == IsTableEligible(program, p) /\ (~work.prove => IsRecursive(program, p))

Find ==
    /\ AtPhase("lookup") /\ HasTable(work.of)
    /\ work' = [work EXCEPT !.phase = "collect"]
    /\ answer' = NoAnswer
    /\ UNCHANGED <<state, tables, batch, loading, changes>>

\* No table: prove fails with an error, the solver goes on without.
Refuse ==
    /\ AtPhase("lookup") /\ ~HasTable(work.of) /\ ~MayBuild(work.of)
    /\ tables' = Restrict(tables, (DOMAIN tables) \ {work.of})
    /\ work' = Idle
    /\ answer' = NoAnswer
    /\ UNCHANGED <<state, batch, loading, changes>>

\* The evaluation of p before any fact is loaded.
Evaluation(p) ==
    LET names == NamesOf(program, p)
    IN [root |-> p, names |-> names,
        rules |-> Listed({c \in Relational(program) : c.head \in names}),
        hierarchyGeneration |-> hierarchyGeneration,
        generations |-> Restrict(generations, names),
        table |-> [q \in names |-> NoTable],
        proofs |-> <<>>,
        stratum |-> [q \in names |-> 0],
        passes |-> 0, current |-> 0, first |-> TRUE, rounds |-> 0]

StartBuild ==
    /\ AtPhase("lookup") /\ ~HasTable(work.of) /\ MayBuild(work.of)
    /\ tables' = Restrict(tables, (DOMAIN tables) \ {work.of})
    /\ work' = [phase |-> "load", query |-> work.query, prove |-> work.prove, side |-> work.side,
                of |-> work.of, found |-> work.found, facts |-> work.facts,
                toLoad |-> NamesOf(program, work.of), e |-> Evaluation(work.of)]
    /\ answer' = NoAnswer
    /\ UNCHANGED <<state, batch, loading, changes>>

\* The facts of one name, one after the other.
LoadFacts ==
    /\ AtPhase("load") /\ work.toLoad # {}
    /\ LET p == CHOOSE q \in work.toLoad : TRUE IN
       work' = [work EXCEPT
           !.toLoad = @ \ {p},
           !.e = Install(@, [i \in DOMAIN StoredFacts(p) |-> FactProof(StoredFacts(p)[i], p)])]
    /\ UNCHANGED <<state, tables, batch, loading, changes, answer>>

LayStrata ==
    /\ AtPhase("load") /\ work.toLoad = {}
    /\ work' = [work EXCEPT !.phase = "strata"]
    /\ UNCHANGED <<state, tables, batch, loading, changes, answer>>

Relaxed == AfterPass(work.e.stratum, work.e.rules)

\* A pass that changes nothing ends the relaxation, a pass too many fails.
PassStrata ==
    /\ AtPhase("strata")
    /\ work' = [work EXCEPT
           !.phase = IF Relaxed = work.e.stratum THEN "rounds"
                     ELSE IF work.e.passes = Cardinality(work.e.names) THEN "unstratified"
                     ELSE @,
           !.e = [work.e EXCEPT !.passes = @ + 1, !.stratum = Relaxed]]
    /\ UNCHANGED <<state, tables, batch, loading, changes, answer>>

Round ==
    /\ AtPhase("rounds") /\ work.e.current <= MaxStratum(work.e)
    /\ StratumRules(work.e) # <<>>
    /\ \E proofs \in {RoundProofs(work.e)} : work' = [work EXCEPT !.e = AfterRound(@, proofs)]
    /\ UNCHANGED <<state, tables, batch, loading, changes, answer>>

SkipStratum ==
    /\ AtPhase("rounds") /\ work.e.current <= MaxStratum(work.e)
    /\ StratumRules(work.e) = <<>>
    /\ work' = [work EXCEPT !.e.current = @ + 1]
    /\ UNCHANGED <<state, tables, batch, loading, changes, answer>>

KeepTables ==
    /\ AtPhase("rounds") /\ work.e.current > MaxStratum(work.e)
    /\ tables' = [p \in (DOMAIN tables) \cup {work.of} |->
                     IF p = work.of THEN work.e ELSE tables[p]]
    /\ work' = [x \in (DOMAIN work) \ {"e", "toLoad"} |->
                   IF x = "phase" THEN "collect" ELSE work[x]]
    /\ UNCHANGED <<state, batch, loading, changes, answer>>

\* tableCallAnswers: the answers that match, and the facts under their proofs.
MatchingIn(e) ==
    {a \in Range(e.table[e.root].answers) : Matches(<<>>, work.query[2], a.args)}

Under(e, handles) ==
    LET under[hs \in SUBSET DOMAIN e.proofs] ==
            LET more == hs \cup UNION {Range(e.proofs[h].parents) : h \in hs}
            IN IF more = hs THEN hs ELSE under[more]
    IN under[handles]

FactsUnder(e, handles) == UNION {e.proofs[h].facts : h \in Under(e, handles)}

Contrarily == work.prove /\ work.side = "positive" /\ work.of \in DOMAIN contraries

Found ==
    [work EXCEPT !.found[work.side] = {a.args : a \in MatchingIn(tables[work.of])},
                 !.facts[work.side] =
                     FactsUnder(tables[work.of],
                                UNION {Range(a.proofs) : a \in MatchingIn(tables[work.of])})]

\* Without clauses and facts, a predicate may still have a contract.
IsEmpty(p) == (\A c \in program : c.head # p) /\ (\A f \in store : f[1] # p)

\* The contrary predicate is asked next, if there is one.
Collect ==
    /\ AtPhase("collect") /\ Contrarily
    /\ work' = [Found EXCEPT !.phase = "lookup", !.side = "negative",
                             !.of = contraries[work.of]]
    /\ UNCHANGED <<state, tables, batch, loading, changes, answer>>

TruthStatus(positive, negative) ==
    CASE positive # {} /\ negative # {} -> "both"
      [] positive # {} /\ negative = {} -> "proved"
      [] positive = {} /\ negative # {} -> "disproved"
      [] positive = {} /\ negative = {} -> "unknown"

\* materializeDerivationResult; a contrary with neither clauses nor a contract
\* has not been asked.
Answer ==
    /\ AtPhase("collect") /\ (Contrarily => IsEmpty(contraries[work.of]))
    /\ answer' = [query |-> work.query, prove |-> work.prove, found |-> Found.found,
                  facts |-> Found.facts,
                  truth |-> TruthStatus(Found.found.positive, Found.found.negative)]
    /\ work' = Idle
    /\ UNCHANGED <<state, tables, batch, loading, changes>>

Build == LoadFacts \/ LayStrata \/ PassStrata \/ Round \/ SkipStratum \/ KeepTables

Next ==
    \/ \E f \in NewFact : PublishFact(f) \/ DeleteFact(f)
    \/ \E c \in Clause : AddClause(c)
    \/ \E pair \in Subtype : ExtendType(pair)
    \/ \E pair \in Contrary : RegisterContrary(pair)
    \/ BeginBatch \/ EndBatch \/ BeginModule \/ CommitModule \/ RollbackModule
    \/ \E query \in Query, prove \in BOOLEAN : Ask(query, prove)
    \/ Find \/ Refuse \/ StartBuild \/ Build \/ Collect \/ Answer

Spec == Init /\ [][Next]_vars

------------------------------------------------------------------------------
(* Properties *)

AtomsOf(facts) ==
    UNION {{<<p, f[2]>> : p \in {q \in Predicate : Compatible(lineage, f[1], q)}} : f \in facts}

\* What program, facts and lineage mean at present.
Meaning == WellFoundedModel(Relational(program), Value, AtomsOf(store))

TrueOf(p, atoms) == {a[2] : a \in {b \in atoms : b[1] = p}}

\* The tables of an evaluation hold what the rules mean, neither more nor
\* less: the rounds with new answers only, stratum by stratum, compute the
\* well-founded model (ReasoningRuntime.cpp, buildTableEvaluation).
TablesHoldMeaning(e, meaning) ==
    \A p \in e.names : {a.args : a \in Range(e.table[p].answers)} = TrueOf(p, meaning)
TablesExact ==
    [][KeepTables => TablesHoldMeaning(work.e, Meaning)]_vars

\* Every proof of every answer explains it: from the facts under the proof
\* the answer follows by the rules, although the proofs of an answer go on
\* growing after others have been proved from it.
ProofsExplain(e, meaning) ==
    \A p \in e.names : \A a \in Range(e.table[p].answers) : \A h \in Range(a.proofs) :
        <<p, a.args>> \in Least(Range(e.rules), Value, AtomsOf(FactsUnder(e, {h})), meaning)
Explained ==
    [][KeepTables => ProofsExplain(work.e, Meaning)]_vars

\* What is answered, from an old table or a new one, is what is true when it
\* is answered (Interpreter.cpp, the comments on generations at
\* solveCacheKey and in addClause).  An empty contrary may count as false,
\* although subtypes of it have facts.
IsTrueNow(a, meaning) ==
    LET matching(p) == {v \in TrueOf(p, meaning) : Matches(<<>>, a.query[2], v)}
    IN /\ a.found.positive = matching(a.query[1])
       /\ a.prove /\ a.query[1] \in DOMAIN contraries =>
             \/ a.found.negative = matching(contraries[a.query[1]])
             \/ IsEmpty(contraries[a.query[1]]) /\ a.found.negative = {}
AnswersTrue == [][answer' # NoAnswer => IsTrueNow(answer', Meaning)]_vars

\* The validation of each program as it is added and the relaxation of the
\* strata agree: no evaluation meets a negative cycle.
NeverUnstratified == ~AtPhase("unstratified")

\* Every round but the last of a stratum adds an answer, so the rounds end.
Derived(e) ==
    UNION {{<<p, i>> : i \in {j \in DOMAIN e.table[p].answers :
                                 e.proofs[e.table[p].answers[j].proofs[1]].rule # {}}}
             : p \in e.names}
RoundsPay ==
    AtPhase("rounds") => work.e.rounds <= Cardinality(Derived(work.e)) + work.e.current
=============================================================================
