---------------------------- MODULE ModuleLoading ----------------------------
(***************************************************************************)
(* How one session loads programs: a file and everything it imports, a     *)
(* text typed at the prompt, and a package found because one of its        *)
(* predicates was called.  A file is streamed: every statement is parsed   *)
(* with the syntax and the call signatures known by then, and takes effect *)
(* before the next one is parsed.  The outermost load owns a transaction   *)
(* over the roots of the interpreter; an error ends every load up to a     *)
(* `try' of the program, or all of them, and then the roots are restored.  *)
(*                                                                         *)
(* A statement is a record.  kind says what it declares, name and arity    *)
(* what it is called; call is a predicate it evaluates (an entry call, the *)
(* value of a global, a method that annotates a callable), guarded whether *)
(* a `try' surrounds that call; uses is mixfix syntax its text needs,      *)
(* applies a call written without parentheses; annotation, syntax, pure    *)
(* and matches describe a method that implements an operator; from says    *)
(* where an import looks.                                                  *)
(***************************************************************************)
EXTENDS Naturals, FiniteSets, SequencesExt

CONSTANTS
    File, Text,     \* the source files, and the texts of the prompt
    Name, NoName,   \* names of declarations, and "calls nothing"
    Syntax, Plain,  \* mixfix patterns, and "no pattern"
    Captures,       \* Captures[p]: how many operands pattern p captures
    Package,        \* Package[n]: the core file of n's namespace, or NoFile
    NoFile,
    Contents,       \* Contents[u]: the contents unit u may have
    Absent,         \* the content of a file that does not exist
    MaxEdits        \* bound: how often a file is written again

Unit == File \cup Text

Declaration ==
    {s \in [kind : {"import", "callable", "fact", "global", "class", "entry", "malformed"},
            name : Name, arity : Nat, call : Name \cup {NoName}, guarded : BOOLEAN,
            uses : Syntax \cup {Plain}, applies : {<<>>} \cup (Name \X Nat),
            annotation : {"none", "method", "mixfix", "overload", "matcher"},
            syntax : Syntax \cup {Plain}, pure : BOOLEAN, matches : BOOLEAN,
            from : [tried : Seq(File), native : BOOLEAN, directory : BOOLEAN]] :
        s.call # NoName => s.kind \in {"callable", "global", "entry"}}

\* A text is parsed as a whole and its imports are made first; a file is
\* taken in as it stands.
Ordered(u, content) ==
    IF content = Absent THEN <<>>
    ELSE IF u \in Text
    THEN SelectSeq(content, LAMBDA s : s.kind = "import")
           \o SelectSeq(content, LAMBDA s : s.kind # "import")
    ELSE content

ASSUME LoadingAssumption ==
    /\ File \cap Text = {} /\ NoFile \notin File /\ IsFiniteSet(File)
    /\ NoName \notin Name /\ Plain \notin Syntax
    /\ Captures \in [Syntax -> Nat]
    /\ Package \in [Name -> File \cup {NoFile}]
    /\ MaxEdits \in Nat

ASSUME ContentAssumption ==
    \A u \in Unit : \A content \in Contents[u] : Ordered(u, content) \in Seq(Declaration)

VARIABLES
    source,       \* the content of every unit
    roots,        \* what a transaction restores: see NoRoots
    saved,        \* the roots when the outermost load began, <<>> at rest
    loads,        \* the loads in progress, outermost first
    signatures,   \* CallSignatureRegistry: the arities seen for a name
    lookups,      \* clauseLookupCache_
    shared,       \* a thread started earlier still holds the clause table
    edits

vars == <<source, roots, saved, loads, signatures, lookups, shared, edits>>

Unbound == <<>>

NoRoots ==
    [clauses |-> [n \in Name |-> <<>>],      \* the clause table
     globals |-> [n \in Name |-> Unbound],   \* where a global was bound last
     classes |-> [n \in Name |-> Unbound],
     contracts |-> {},                       \* names with a fact contract
     facts |-> {},                           \* statements stored as facts
     entries |-> <<>>,                       \* entry calls made
     syntax |-> {},                          \* patterns of the registry
     operators |-> {},                       \* <<pattern, statement>>
     loaded |-> {},                          \* loadedFiles_
     attempted |-> {},                       \* packageDiscoveryAttempts_
     entered |-> {},                         \* history: texts taken in
     abandoned |-> {}]                       \* history: see Fail

NoLookups == [n \in {} |-> TRUE]

Init ==
    /\ source \in {c \in [Unit -> UNION {Contents[u] : u \in Unit}] :
                     \A u \in Unit : c[u] \in Contents[u]}
    /\ roots = NoRoots
    /\ saved = <<>>
    /\ loads = <<>>
    /\ signatures = [n \in Name |-> {}]
    /\ lookups = NoLookups
    /\ shared = FALSE
    /\ edits = 0

AtRest == loads = <<>>
-----------------------------------------------------------------------------
(* Units and statements.                                                   *)

Statements(u) == Ordered(u, source[u])

\* The parser first notes the arity of every callable the unit declares.
Indexed(u) ==
    [n \in Name |-> signatures[n] \cup
        {s.arity : s \in {x \in ToSet(Statements(u)) : x.kind = "callable" /\ x.name = n}}]

\* `f x' is a call only while f is known with that one arity.
AppliesFixed(s, arities) ==
    s.applies # <<>> => arities[s.applies[1]] = {s.applies[2]}

Parses(s, syntax, arities) ==
    /\ s.kind # "malformed"
    /\ s.uses # Plain => s.uses \in syntax
    /\ s.annotation \in {"overload", "matcher"} => s.syntax \in syntax
    /\ AppliesFixed(s, arities)

\* A @mixfix annotation registers its pattern when it has been parsed.
Declares(s) == IF s.annotation = "mixfix" THEN {s.syntax} ELSE {}

Exists(f) == f \in File /\ source[f] # Absent

\* What an import names: all program files of a directory, in the order the
\* directory gives them; or the first file that exists; or nothing, where a
\* native library answers to the name.  No result means it is not found.
Expand(from) ==
    IF from.directory
    THEN SetToSeqs({f \in ToSet(from.tried) : Exists(f)})
    ELSE LET first == {k \in DOMAIN from.tried :
                         /\ Exists(from.tried[k])
                         /\ \A j \in 1..(k - 1) : ~Exists(from.tried[j])}
         IN  IF first # {} THEN {<<from.tried[k]>> : k \in first}
             ELSE IF from.native THEN {<<>>} ELSE {}
-----------------------------------------------------------------------------
(* The stack of loads.  at counts the statements begun, files the imports  *)
(* still to be made.                                                       *)

Frame(u) == [unit |-> u, at |-> 0, phase |-> "next", files |-> <<>>]

Top == Last(loads)
Statement(frame) == Statements(frame.unit)[frame.at]
Origin(frame) == <<frame.unit, frame.at>>
WithTop(frame) == Append(Front(loads), frame)
In(phase) == [Top EXCEPT !.phase = phase]

\* addProgram runs around a rule, global or class of a file, and around all
\* of a text; a fact or entry call of a file is taken in without it.
Batched(frame) ==
    /\ frame.at > 0
    /\ \/ frame.unit \in Text /\ Statement(frame).kind # "import"
       \/ frame.phase \in {"add", "call"}
            /\ Statement(frame).kind \in {"global", "callable", "class"}

InBatch == \E i \in DOMAIN loads : Batched(loads[i])

\* Faulty variant: a file is marked only when it has been loaded.
OpenUnmarked(stack, f, r) ==
    /\ loads' = Append(stack, Frame(f))
    /\ roots' = r
    /\ signatures' = Indexed(f)

Open(stack, f, r) ==
    /\ loads' = Append(stack, Frame(f))
    /\ roots' = [r EXCEPT !.loaded = @ \cup {f}]
    /\ signatures' = Indexed(f)
-----------------------------------------------------------------------------
(* The clause table and its lookups.                                       *)

Cached(n) == ~InBatch /\ n \in DOMAIN lookups

Found(n) == IF Cached(n) THEN lookups[n].present ELSE roots.clauses[n] # <<>>

LookedUp(n) ==
    IF InBatch \/ n \in DOMAIN lookups THEN lookups
    ELSE [m \in (DOMAIN lookups) \cup {n} |->
            IF m = n THEN [present |-> roots.clauses[n] # <<>>, table |-> "current"]
            ELSE lookups[m]]

Without(cache, n) == [m \in (DOMAIN cache) \ {n} |-> cache[m]]

\* The table is copied before it is written while a thread shares it: what
\* was looked up before points into the other copy.
Unshared(cache) ==
    IF shared THEN NoLookups ELSE cache

HasCallable(n) == \E i \in DOMAIN roots.clauses[n] : ~roots.clauses[n][i].fact

\* A name is a callable, or a class or fact bucket; a global is bound once.
Refused(s) ==
    CASE s.kind = "callable" -> s.name \in roots.contracts \/ roots.classes[s.name] # Unbound
      [] s.kind = "fact" -> Found(s.name) /\ HasCallable(s.name)
      [] s.kind = "global" -> roots.globals[s.name] # Unbound \/ Found(s.name)
      [] s.kind = "class" -> roots.classes[s.name] # Unbound
                               \/ (Found(s.name) /\ HasCallable(s.name))
      [] OTHER -> FALSE

OperatorAnnotation == {"mixfix", "overload", "matcher"}

\* The method of an operator takes the captures of its pattern by name, or
\* declares all of them; it is pure, and a matcher only compares and builds.
Sound(s) ==
    s.annotation \in OperatorAnnotation =>
        /\ s.arity = 0 \/ (s.annotation # "mixfix" /\ s.arity = Captures[s.syntax])
        /\ s.pure
        /\ s.annotation = "matcher" => s.matches

\* A fact under the name of a global is kept with the clauses.
IsClause(s) ==
    \/ s.kind \in {"callable", "global"}
    \/ s.kind = "fact" /\ roots.globals[s.name] # Unbound

Effect(r, s, o) ==
    LET placed == [r EXCEPT !.clauses[s.name] =
                              Append(@, [origin |-> o, fact |-> s.kind # "callable"])]
    IN  CASE s.kind = "callable" ->
               IF s.annotation \in OperatorAnnotation
               THEN [placed EXCEPT !.operators = @ \cup {<<s.syntax, o>>}]
               ELSE placed
          [] s.kind = "global" -> [placed EXCEPT !.globals[s.name] = o]
          [] s.kind = "fact" ->
               IF IsClause(s) THEN placed
               ELSE [r EXCEPT !.facts = @ \cup {o}, !.contracts = @ \cup {s.name}]
          [] s.kind = "class" ->
               [r EXCEPT !.classes[s.name] = o, !.contracts = @ \cup {s.name}]
          [] OTHER -> [r EXCEPT !.entries = Append(@, o)]    \* an entry call

\* Faulty variant: a clause leaves the lookups of its name.
LookupsKept(s, cache) ==
    CASE IsClause(s) -> Unshared(cache)
      [] s.kind = "fact" /\ ~IsClause(s) -> NoLookups
      [] OTHER -> cache

\* A clause takes its own name out of the lookups.  A stored fact drops them
\* all; inside a batch that happens at its end, and nothing is looked up there.
LookupsAfter(s, cache) ==
    CASE IsClause(s) -> Without(Unshared(cache), s.name)
      [] s.kind = "fact" /\ ~IsClause(s) -> NoLookups
      [] OTHER -> cache

Take(s, cache) ==
    /\ roots' = Effect(roots, s, Origin(Top))
    /\ lookups' = LookupsAfter(s, cache)
    /\ shared' = (shared /\ ~IsClause(s))
    /\ loads' = WithTop(In("next"))
    /\ UNCHANGED <<saved, signatures>>
-----------------------------------------------------------------------------
(* The end of a load.                                                      *)

\* Faulty variant: the files of a failed load still count as loaded.
RollbackKeepingFiles ==
    /\ roots' = [saved EXCEPT !.loaded = roots.loaded]
    /\ saved' = <<>>
    /\ loads' = <<>>
    /\ lookups' = NoLookups
    /\ shared' = FALSE
    /\ UNCHANGED signatures

RollbackModule ==
    /\ roots' = saved
    /\ saved' = <<>>
    /\ loads' = <<>>
    /\ lookups' = NoLookups
    /\ shared' = FALSE
    /\ UNCHANGED signatures

\* The loads above a statement whose `try' catches the error of a package
\* end, and only the outermost load restores anything.
Catchers == {i \in 1..(Len(loads) - 1) : loads[i].phase = "call" /\ Statement(loads[i]).guarded}

Caught(i, cache) ==
    LET frame == loads[i]
        s == Statement(frame)
        ended == {loads[k].unit : k \in (i + 1)..Len(loads)}
    IN  /\ roots' = [Effect(roots, s, Origin(frame)) EXCEPT !.abandoned = @ \cup ended]
        /\ lookups' = LookupsAfter(s, cache)
        /\ shared' = (shared /\ ~IsClause(s))
        /\ loads' = Append(SubSeq(loads, 1, i - 1), [frame EXCEPT !.phase = "next"])
        /\ UNCHANGED <<saved, signatures>>

Fail(cache) ==
    IF Catchers = {} THEN RollbackModule
    ELSE \E i \in Catchers : (\A k \in Catchers : k <= i) /\ Caught(i, cache)

Finish ==
    /\ Top.phase = "next"
    /\ Top.at = Len(Statements(Top.unit))
    /\ source[Top.unit] # Absent
    /\ loads' = Front(loads)
    /\ IF Len(loads) = 1
       THEN saved' = <<>> /\ lookups' = NoLookups
       ELSE UNCHANGED <<saved, lookups>>
    /\ UNCHANGED <<roots, signatures, shared>>
-----------------------------------------------------------------------------
(* The steps of a load.                                                    *)

CannotOpen ==
    /\ source[Top.unit] = Absent
    /\ Fail(lookups)

ParseNext ==
    /\ Top.phase = "next"
    /\ Top.at < Len(Statements(Top.unit))
    /\ LET s == Statements(Top.unit)[Top.at + 1]
       IN  IF Top.unit \in Text \/ Parses(s, roots.syntax, signatures)
           THEN /\ loads' = WithTop([In("add") EXCEPT !.at = @ + 1])
                /\ roots' = [roots EXCEPT !.syntax = @ \cup Declares(s)]
                /\ UNCHANGED <<saved, signatures, lookups, shared>>
           ELSE Fail(lookups)

AddImport ==
    /\ Top.phase = "add" /\ Statement(Top).kind = "import"
    /\ LET found == Expand(Statement(Top).from)
       IN  IF found = {} THEN Fail(lookups)
           ELSE /\ \E files \in found : loads' = WithTop([In("load") EXCEPT !.files = files])
                /\ UNCHANGED <<roots, saved, signatures, lookups, shared>>

\* Faulty variant: the list of files does not advance.
LoadImportedAgain ==
    /\ Top.phase = "load"
    /\ IF Top.files = <<>>
       THEN loads' = WithTop(In("next")) /\ UNCHANGED <<roots, signatures>>
       ELSE IF Head(Top.files) \in roots.loaded
            THEN UNCHANGED <<loads, roots, signatures>>
            ELSE Open(loads, Head(Top.files), roots)
    /\ UNCHANGED <<saved, lookups, shared>>

\* A file already loaded, or whose load is in progress, is passed over.
LoadImported ==
    /\ Top.phase = "load"
    /\ IF Top.files = <<>>
       THEN loads' = WithTop(In("next")) /\ UNCHANGED <<roots, signatures>>
       ELSE LET rest == WithTop([Top EXCEPT !.files = Tail(@)])
            IN  IF Head(Top.files) \in roots.loaded
                THEN loads' = rest /\ UNCHANGED <<roots, signatures>>
                ELSE Open(rest, Head(Top.files), roots)
    /\ UNCHANGED <<saved, lookups, shared>>

\* The name is checked before anything is evaluated.
AddStatement ==
    /\ Top.phase = "add" /\ Statement(Top).kind # "import"
    /\ LET s == Statement(Top)
           cache == IF s.kind = "fact" THEN LookedUp(s.name) ELSE lookups
       IN  IF Refused(s) THEN Fail(cache)
           ELSE IF s.call # NoName
           THEN loads' = WithTop(In("call")) /\ UNCHANGED <<roots, saved, signatures, lookups, shared>>
           ELSE IF ~Sound(s) THEN Fail(cache)
           ELSE Take(s, cache)

\* ensurePredicateLoaded: an unknown predicate of a namespace makes the
\* session load the core file of that name, once.
MayDiscover(n) ==
    /\ ~Found(n)
    /\ Package[n] # NoFile
    /\ Package[n] \notin roots.attempted

Attempted(n) == [roots EXCEPT !.attempted = @ \cup {Package[n]}]

Evaluate ==
    /\ Top.phase = "call"
    /\ LET s == Statement(Top)
           n == s.call
       IN  IF MayDiscover(n)
           THEN /\ IF Exists(Package[n]) /\ Package[n] \notin roots.loaded
                   THEN Open(loads, Package[n], Attempted(n))
                   ELSE roots' = Attempted(n) /\ UNCHANGED <<loads, signatures>>
                /\ lookups' = LookedUp(n)
                /\ UNCHANGED <<saved, shared>>
           ELSE IF Found(n) THEN Take(s, LookedUp(n))
           ELSE Fail(LookedUp(n))

LoadStep ==
    /\ ~AtRest
    /\ \/ CannotOpen \/ ParseNext \/ AddImport \/ LoadImported
       \/ AddStatement \/ Evaluate \/ Finish
    /\ UNCHANGED <<source, edits>>
-----------------------------------------------------------------------------
(* What starts a load, and what happens between loads.                     *)

LoadProgramRoot(f) ==
    /\ AtRest /\ f \notin roots.loaded
    /\ saved' = roots
    /\ Open(<<>>, f, roots)
    /\ UNCHANGED <<source, lookups, shared, edits>>

\* The patterns a text declares are known to its later statements.
TextParses(t) ==
    LET ss == source[t]
        known(i) == roots.syntax \cup UNION {Declares(ss[k]) : k \in 1..(i - 1)}
    IN  \A i \in DOMAIN ss : Parses(ss[i], known(i), Indexed(t))

\* The transaction of a text that does not parse has nothing to restore.
RollbackText ==
    /\ lookups' = NoLookups
    /\ shared' = FALSE
    /\ UNCHANGED <<roots, saved, loads>>

LoadInteractiveProgramText(t) ==
    /\ AtRest /\ t \notin roots.entered
    /\ signatures' = Indexed(t)
    /\ IF TextParses(t)
       THEN /\ saved' = roots
            /\ roots' = [roots EXCEPT
                   !.entered = @ \cup {t},
                   !.syntax = @ \cup UNION {Declares(s) : s \in ToSet(source[t])}]
            /\ loads' = <<Frame(t)>>
            /\ UNCHANGED <<lookups, shared>>
       ELSE RollbackText
    /\ UNCHANGED <<source, edits>>

\* An expression at the prompt, or a call of the running program.
Ask(n) ==
    /\ AtRest
    /\ lookups' = LookedUp(n)
    /\ IF MayDiscover(n)
       THEN IF Exists(Package[n]) /\ Package[n] \notin roots.loaded
            THEN saved' = Attempted(n) /\ Open(<<>>, Package[n], Attempted(n))
            ELSE roots' = Attempted(n) /\ UNCHANGED <<saved, loads, signatures>>
       ELSE UNCHANGED <<roots, saved, loads, signatures>>
    /\ UNCHANGED <<source, shared, edits>>

StartThread ==
    /\ AtRest /\ ~shared
    /\ shared' = TRUE
    /\ UNCHANGED <<source, roots, saved, loads, signatures, lookups, edits>>

EndThread ==
    /\ shared
    /\ shared' = FALSE
    /\ UNCHANGED <<source, roots, saved, loads, signatures, lookups, edits>>

\* The user writes a file again that is not loaded.
Edit(f) ==
    /\ AtRest /\ edits < MaxEdits
    /\ f \notin roots.loaded
    /\ \E c \in Contents[f] : source' = [source EXCEPT ![f] = c]
    /\ edits' = edits + 1
    /\ UNCHANGED <<roots, saved, loads, signatures, lookups, shared>>

Next ==
    \/ LoadStep
    \/ \E f \in File : LoadProgramRoot(f)
    \/ \E t \in Text : LoadInteractiveProgramText(t)
    \/ \E n \in Name : Ask(n)
    \/ StartThread \/ EndThread
    \/ \E f \in File : Edit(f)

Spec == Init /\ [][Next]_vars /\ WF_vars(LoadStep)
-----------------------------------------------------------------------------
(* Properties.                                                             *)

Clauses(n) == ToSet(roots.clauses[n])

TypeOK ==
    /\ \A u \in Unit : source[u] \in Contents[u]
    /\ \A n \in Name : \A c \in Clauses(n) :
         c.origin[2] \in DOMAIN Statements(c.origin[1]) /\ c.fact \in BOOLEAN
    /\ roots.loaded \subseteq File /\ roots.attempted \subseteq File
    /\ roots.abandoned \subseteq roots.loaded /\ roots.entered \subseteq Text
    /\ roots.syntax \subseteq Syntax /\ roots.contracts \subseteq Name
    /\ (saved = <<>>) = AtRest
    /\ \A i \in DOMAIN loads :
         /\ loads[i].unit \in roots.loaded \cup roots.entered
         /\ loads[i].phase \in {"next", "add", "load", "call"}
    /\ signatures \in [Name -> SUBSET Nat]
    /\ DOMAIN lookups \subseteq Name
    /\ shared \in BOOLEAN /\ edits \in 0..MaxEdits

\* Where r has a statement in effect.
Places(r, o) ==
    (UNION {{<<n, i>> : i \in {k \in DOMAIN r.clauses[n] :
                                 r.clauses[n][k].origin = o}} : n \in Name})
      \cup {<<"class", n>> : n \in {m \in Name : r.classes[m] = o}}
      \cup {<<"entry", i>> : i \in {k \in DOMAIN r.entries : r.entries[k] = o}}
      \cup {<<"fact", x>> : x \in r.facts \cap {o}}

InEffect(r) ==
    (UNION {{c.origin : c \in ToSet(r.clauses[n])} : n \in Name})
      \cup {r.classes[n] : n \in {m \in Name : r.classes[m] # Unbound}}
      \cup ToSet(r.entries) \cup r.facts

Imported(r, from) ==
    from.directory \/ from.native \/ ToSet(from.tried) \cap r.loaded # {}

\* Between loads, every statement of a file or text that was taken in is in
\* effect exactly once, whatever was imported twice, in a cycle, by a package
\* lookup or after an earlier load had failed; and no statement of another is.
\* The one exception is a file whose load ended in an error that a `try' of
\* the program caught (loadProgramFile restores nothing unless it owns the
\* transaction): see NothingHalfLoaded.
WholeFiles ==
    AtRest =>
        /\ \A u \in (roots.loaded \cup roots.entered) \ roots.abandoned :
             \A i \in DOMAIN Statements(u) :
               IF Statements(u)[i].kind = "import" THEN Imported(roots, Statements(u)[i].from)
               ELSE Cardinality(Places(roots, <<u, i>>)) = 1
        /\ \A o \in InEffect(roots) : o[1] \in roots.loaded \cup roots.entered

\* A remembered lookup, found or not found, is what the table in use says,
\* after every load, rollback and copy of the table for a started thread.
LookupsCurrent ==
    \A n \in Name : n \in DOMAIN lookups =>
        lookups[n] = [present |-> roots.clauses[n] # <<>>, table |-> "current"]

\* No file is being loaded twice at once: cycles of imports and packages end.
NoReentry ==
    \A i, k \in DOMAIN loads : i # k => loads[i].unit # loads[k].unit

\* Every load that begins ends, and with it its transaction.
Completes == []<>AtRest

\* "In a module transaction an error restores all roots, including facts
\* already streamed before this statement" (Interpreter.cpp:1621): no file
\* counts as loaded whose load ended in an error.
NothingHalfLoaded == AtRest => roots.abandoned = {}

\* "Global is already defined and immutable" (Interpreter.cpp:1475): a bound
\* global is not bound again, but taken back with its load.
BoundOnce ==
    [][\A n \in Name : roots.globals[n] # Unbound =>
          roots'.globals[n] = roots.globals[n]
            \/ (saved # <<>> /\ roots' = saved)]_vars
=============================================================================
