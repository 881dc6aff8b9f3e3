-------------------------- MODULE ModuleLoadingProofs --------------------------
(***************************************************************************)
(* Three results about ModuleLoading for any files, texts, packages and    *)
(* contents: no unit is loaded twice at once, what the session has looked  *)
(* up is what its clause table says, and every statement of a unit that    *)
(* was taken in is in effect exactly once.                                 *)
(***************************************************************************)
EXTENDS ModuleLoading, FiniteSetTheorems, SequenceTheorems, TLAPS

\* What the argument needs of a frame, of the stack and of the roots.
Phase == {"next", "add", "load", "call"}
Frames == [unit : Unit, at : Nat, phase : Phase, files : Seq(File)]

\* Units differ; a text is only ever the first; files are marked as loaded.
Stack(ls, loaded) ==
    /\ ls \in Seq(Frames)
    /\ \A i \in 1..Len(ls) : ls[i].unit \in Text => i = 1
    /\ \A i \in 1..Len(ls) : ls[i].unit \in File => ls[i].unit \in loaded
    /\ \A i, k \in 1..Len(ls) : i # k => ls[i].unit # ls[k].unit

\* A record with the fields of the roots, whatever they hold, and a clause list
\* for every name.
RootsRecord(r) ==
    r \in [clauses : {r.clauses}, globals : {r.globals}, classes : {r.classes},
           contracts : {r.contracts}, facts : {r.facts}, entries : {r.entries},
           syntax : {r.syntax}, operators : {r.operators}, loaded : {r.loaded},
           attempted : {r.attempted}, entered : {r.entered},
           abandoned : {r.abandoned}]

Shaped(r) == RootsRecord(r) /\ r.clauses \in [Name -> {r.clauses[n] : n \in Name}]

IInv ==
    /\ Stack(loads, roots.loaded)
    /\ Shaped(roots)
    /\ loads # <<>> => Shaped(saved)
    /\ LookupsCurrent
-----------------------------------------------------------------------------
(* The stack.                                                              *)

LEMMA FramesAre ==
  ASSUME NEW u \in Unit
  PROVE  Frame(u) \in Frames /\ Frame(u).unit = u
<1>1. <<>> \in Seq(File)
  OBVIOUS
<1>2. 0 \in Nat
  OBVIOUS
<1> QED
  BY <1>1, <1>2, Zenon DEF Frame, Frames, Phase

LEMMA PrefixOfStack ==
  ASSUME NEW ls, NEW S, Stack(ls, S), NEW n \in 0..Len(ls)
  PROVE  Stack(SubSeq(ls, 1, n), S)
<1> DEFINE sub == SubSeq(ls, 1, n)
<1>1. ls \in Seq(Frames) /\ Len(ls) \in Nat
  BY DEF Stack
<1>2. sub \in Seq(Frames) /\ Len(sub) = n /\ \A i \in 1..n : sub[i] = ls[i]
  BY <1>1
<1>3. 1..n \subseteq 1..Len(ls)
  BY <1>1
<1> HIDE DEF sub
<1> QED
  BY <1>2, <1>3 DEF Stack, sub

LEMMA PushedStack ==
  ASSUME NEW ls, NEW S, Stack(ls, S), NEW f \in File, f \notin S
  PROVE  Stack(Append(ls, Frame(f)), S \cup {f})
<1> DEFINE top == Frame(f)
           new == Append(ls, top)
<1>1. ls \in Seq(Frames) /\ Len(ls) \in Nat
  BY DEF Stack
<1>2. top \in Frames /\ top.unit = f
  BY FramesAre DEF Unit
<1> HIDE DEF top
<1>3. /\ new \in Seq(Frames) /\ Len(new) = Len(ls) + 1
      /\ \A i \in 1..Len(ls) : new[i] = ls[i]
      /\ new[Len(ls) + 1] = top
  BY <1>1, <1>2
<1> HIDE DEF new
<1>4. \A i \in 1..Len(ls) : ls[i].unit # f
  <2> TAKE i \in 1..Len(ls)
  <2>1. ls[i].unit \in File => ls[i].unit \in S
    BY DEF Stack
  <2> QED
    BY <2>1
<1>5. f \notin Text
  BY LoadingAssumption
<1>6. \A i \in 1..Len(new) : i \in 1..Len(ls) \/ i = Len(ls) + 1
  BY <1>1, <1>3
<1>7. \A i \in 1..Len(new) : new[i].unit \in Text => i = 1
  BY <1>2, <1>3, <1>5, <1>6 DEF Stack
<1>8. \A i \in 1..Len(new) : new[i].unit \in File => new[i].unit \in S \cup {f}
  BY <1>2, <1>3, <1>6 DEF Stack
<1>9. \A i, k \in 1..Len(new) : i # k => new[i].unit # new[k].unit
  BY <1>2, <1>3, <1>4, <1>6 DEF Stack
<1> QED
  BY <1>3, <1>7, <1>8, <1>9 DEF Stack, new, top

\* A frame is replaced by one of the same unit, and those above it go.
LEMMA ReplacedStack ==
  ASSUME NEW ls, NEW S, Stack(ls, S), NEW n \in 1..Len(ls),
         NEW frame \in Frames, frame.unit = ls[n].unit
  PROVE  /\ Stack(Append(SubSeq(ls, 1, n - 1), frame), S)
         /\ Append(SubSeq(ls, 1, n - 1), frame) # <<>>
<1> DEFINE m == n - 1
           sub == SubSeq(ls, 1, m)
           new == Append(sub, frame)
<1>1. ls \in Seq(Frames) /\ Len(ls) \in Nat /\ m \in 0..Len(ls) /\ n = m + 1
  BY DEF Stack
<1> HIDE DEF m
<1>2. sub \in Seq(Frames) /\ Len(sub) = m /\ \A i \in 1..m : sub[i] = ls[i]
  BY <1>1
<1> HIDE DEF sub
<1>3. /\ new \in Seq(Frames) /\ Len(new) = n /\ new[n] = frame
      /\ \A i \in 1..m : new[i] = sub[i]
  BY <1>1, <1>2
<1> HIDE DEF new
<1>4. \A i \in 1..n : new[i].unit = ls[i].unit
  <2> TAKE i \in 1..n
  <2>1. i \in 1..m \/ i = n
    BY <1>1
  <2> QED
    BY <2>1, <1>2, <1>3
<1>5. new # <<>> /\ 1..n \subseteq 1..Len(ls)
  BY <1>1, <1>3
<1>6. Stack(new, S)
  BY <1>3, <1>4, <1>5 DEF Stack
<1> QED
  BY <1>5, <1>6 DEF new, sub, m

LEMMA TopOf ==
  ASSUME NEW S, Stack(loads, S), loads # <<>>
  PROVE  /\ Len(loads) \in 1..Len(loads) /\ Top = loads[Len(loads)] /\ Top \in Frames
         /\ Top.at \in Nat /\ Top.files \in Seq(File)
<1>1. loads \in Seq(Frames) /\ Len(loads) \in Nat \ {0}
  BY DEF Stack
<1>2. Top \in Frames /\ Top = loads[Len(loads)]
  BY <1>1 DEF Top, Last
<1>3. \A fr \in Frames : fr.at \in Nat /\ fr.files \in Seq(File)
  BY DEF Frames
<1> QED
  BY <1>1, <1>2, <1>3

LEMMA SameTopStack ==
  ASSUME NEW S, Stack(loads, S), loads # <<>>, NEW frame \in Frames, frame.unit = Top.unit
  PROVE  Stack(WithTop(frame), S) /\ WithTop(frame) # <<>>
<1>1. Len(loads) \in 1..Len(loads) /\ frame.unit = loads[Len(loads)].unit
  BY TopOf
<1> QED
  BY <1>1, ReplacedStack DEF WithTop, Front

\* What the steps of a load do to the top frame.
LEMMA FrameSteps ==
  ASSUME NEW frame \in Frames
  PROVE  /\ \A phase \in Phase :
               [frame EXCEPT !.phase = phase] \in Frames
                 /\ [frame EXCEPT !.phase = phase].unit = frame.unit
         /\ \A files \in Seq(File) :
               [frame EXCEPT !.files = files] \in Frames
                 /\ [frame EXCEPT !.files = files].unit = frame.unit
         /\ [frame EXCEPT !.at = @ + 1] \in Frames
               /\ [frame EXCEPT !.at = @ + 1].unit = frame.unit
BY DEF Frames

LEMMA ExpandedFiles ==
  ASSUME NEW from, NEW files \in Expand(from)
  PROVE  files \in Seq(File)
<1>1. CASE from.directory
  <2> DEFINE S == {f \in ToSet(from.tried) : Exists(f)}
  <2>1. S \subseteq File
    BY DEF Exists
  <2>2. Cardinality(S) \in Nat
    BY <2>1, LoadingAssumption, FS_Subset, FS_CardinalityType
  <2>3. files \in [1..Cardinality(S) -> S]
    BY <1>1 DEF Expand, SetToSeqs
  <2> HIDE DEF S
  <2>4. files \in [1..Cardinality(S) -> File]
    BY <2>1, <2>3
  <2>5. \A k \in Nat : [1..k -> File] \subseteq Seq(File)
    BY SeqDef, Zenon
  <2> QED
    BY <2>2, <2>4, <2>5
<1>2. CASE ~from.directory
  <2>1. files = <<>> \/ \E f \in File : files = <<f>>
    BY <1>2, Zenon DEF Expand, Exists
  <2>2. <<>> \in Seq(File) /\ \A f \in File : <<f>> \in Seq(File)
    OBVIOUS
  <2> QED
    BY <2>1, <2>2
<1> QED
  BY <1>1, <1>2

-----------------------------------------------------------------------------
(* What a statement does to the clause table, and to what was looked up.   *)

Current(cache, clauses) ==
    \A n \in Name : n \in DOMAIN cache =>
        cache[n] = [present |-> clauses[n] # <<>>, table |-> "current"]

LEMMA ClauseRoots ==
  ASSUME NEW r, Shaped(r), NEW n, NEW x, NEW q, q = [r EXCEPT !.clauses[n] = x]
  PROVE  /\ Shaped(q) /\ q.loaded = r.loaded
         /\ \A m \in Name : m # n => q.clauses[m] = r.clauses[m]
<1> DEFINE c == [r.clauses EXCEPT ![n] = x]
<1>1. c \in [Name -> {c[m] : m \in Name}] /\ \A m \in Name : m # n => c[m] = r.clauses[m]
  BY DEF Shaped, RootsRecord
<1>2. q = [r EXCEPT !.clauses = c]
  BY Zenon
<1> HIDE DEF c
<1>3. RootsRecord(q) /\ q.loaded = r.loaded /\ q.clauses = c
  BY <1>2 DEF Shaped, RootsRecord
<1>4. q.clauses \in [Name -> {q.clauses[m] : m \in Name}]
  BY <1>1, <1>3
<1> QED
  BY <1>1, <1>3, <1>4 DEF Shaped

\* A statement changes the clauses of its own name only, and only as a clause.
LEMMA EffectOnClauses ==
  ASSUME NEW s, NEW o, Shaped(roots)
  PROVE  /\ Shaped(Effect(roots, s, o))
         /\ Effect(roots, s, o).loaded = roots.loaded
         /\ \A n \in Name : n # s.name \/ ~IsClause(s) =>
               Effect(roots, s, o).clauses[n] = roots.clauses[n]
<1> DEFINE placed == [roots EXCEPT !.clauses[s.name] =
                        Append(@, [origin |-> o, fact |-> s.kind # "callable"])]
           new == Effect(roots, s, o)
<1>1. /\ Shaped(placed) /\ placed.loaded = roots.loaded
      /\ \A n \in Name : n # s.name => placed.clauses[n] = roots.clauses[n]
  <2> DEFINE x == Append(roots.clauses[s.name],
                         [origin |-> o, fact |-> s.kind # "callable"])
  <2>1. placed = [roots EXCEPT !.clauses[s.name] = x]
    OBVIOUS
  <2> HIDE DEF placed, x
  <2> QED
    BY <2>1, ClauseRoots
<1>2. CASE s.kind = "callable" /\ s.annotation \in OperatorAnnotation
  <2>1. IsClause(s)
    BY <1>2 DEF IsClause
  <2>2. new = [placed EXCEPT !.operators = @ \cup {<<s.syntax, o>>}]
    BY <1>2, Zenon DEF Effect
  <2> HIDE DEF placed, new
  <2>3. Shaped(new) /\ new.clauses = placed.clauses /\ new.loaded = placed.loaded
    BY <1>1, <2>2 DEF Shaped, RootsRecord
  <2> QED
    BY <1>1, <2>1, <2>3 DEF new
<1>3. CASE s.kind = "callable" /\ s.annotation \notin OperatorAnnotation
  <2>1. IsClause(s)
    BY <1>3 DEF IsClause
  <2>2. new = placed
    BY <1>3, Zenon DEF Effect
  <2> HIDE DEF placed, new
  <2> QED
    BY <1>1, <2>1, <2>2 DEF new
<1>4. CASE s.kind = "global"
  <2>1. IsClause(s)
    BY <1>4 DEF IsClause
  <2>2. new = [placed EXCEPT !.globals[s.name] = o]
    BY <1>4, Zenon DEF Effect
  <2> HIDE DEF placed, new
  <2>3. Shaped(new) /\ new.clauses = placed.clauses /\ new.loaded = placed.loaded
    BY <1>1, <2>2 DEF Shaped, RootsRecord
  <2> QED
    BY <1>1, <2>1, <2>3 DEF new
<1>5. CASE s.kind = "fact" /\ IsClause(s)
  <2>1. new = placed
    BY <1>5, Zenon DEF Effect
  <2> HIDE DEF placed, new
  <2> QED
    BY <1>1, <1>5, <2>1 DEF new
<1>6. CASE s.kind = "fact" /\ ~IsClause(s)
  <2>1. new = [roots EXCEPT !.facts = @ \cup {o}, !.contracts = @ \cup {s.name}]
    BY <1>6, Zenon DEF Effect
  <2> HIDE DEF new
  <2>2. Shaped(new) /\ new.clauses = roots.clauses /\ new.loaded = roots.loaded
    BY <2>1 DEF Shaped, RootsRecord
  <2> QED
    BY <2>2 DEF new
<1>7. CASE s.kind = "class"
  <2>1. new = [roots EXCEPT !.classes[s.name] = o, !.contracts = @ \cup {s.name}]
    BY <1>7, Zenon DEF Effect
  <2> HIDE DEF new
  <2>2. Shaped(new) /\ new.clauses = roots.clauses /\ new.loaded = roots.loaded
    BY <2>1 DEF Shaped, RootsRecord
  <2> QED
    BY <2>2 DEF new
<1>8. CASE s.kind \notin {"callable", "global", "fact", "class"}
  <2>1. new = [roots EXCEPT !.entries = Append(@, o)]
    BY <1>8, Zenon DEF Effect
  <2> HIDE DEF new
  <2>2. Shaped(new) /\ new.clauses = roots.clauses /\ new.loaded = roots.loaded
    BY <2>1 DEF Shaped, RootsRecord
  <2> QED
    BY <2>2 DEF new
<1> HIDE DEF new, placed
<1> QED
  BY <1>2, <1>3, <1>4, <1>5, <1>6, <1>7, <1>8 DEF new

LEMMA LookedUpIsCurrent ==
  ASSUME NEW n, LookupsCurrent
  PROVE  Current(LookedUp(n), roots.clauses)
BY DEF LookedUp, LookupsCurrent, Current

LEMMA LookupsAfterAreCurrent ==
  ASSUME NEW s, NEW o, NEW cache, Shaped(roots), Current(cache, roots.clauses)
  PROVE  Current(LookupsAfter(s, cache), Effect(roots, s, o).clauses)
<1> DEFINE after == Effect(roots, s, o).clauses
<1>1. \A n \in Name : n # s.name \/ ~IsClause(s) => after[n] = roots.clauses[n]
  BY EffectOnClauses
<1> HIDE DEF after
<1>2. Current(NoLookups, after)
  BY DEF Current, NoLookups
<1>3. CASE IsClause(s)
  <2>1. LookupsAfter(s, cache) = Without(Unshared(cache), s.name)
    BY <1>3, Zenon DEF LookupsAfter
  <2>2. Current(Unshared(cache), roots.clauses)
    BY DEF Current, Unshared, NoLookups
  <2> DEFINE kept == Unshared(cache)
  <2> HIDE DEF kept
  <2>3. Current(Without(kept, s.name), after)
    BY <1>1, <2>2 DEF Current, Without, kept
  <2> QED
    BY <2>1, <2>3 DEF after, kept
<1>4. CASE ~IsClause(s)
  <2>1. LookupsAfter(s, cache) \in {NoLookups, cache}
    BY <1>4 DEF LookupsAfter
  <2>2. Current(cache, after)
    BY <1>1, <1>4 DEF Current
  <2> QED
    BY <1>2, <2>1, <2>2 DEF after
<1> QED
  BY <1>3, <1>4
-----------------------------------------------------------------------------
(* The operations of a load keep the invariant.                            *)

LEMMA EmptyStack ==
  ASSUME NEW S
  PROVE  Stack(<<>>, S)
BY DEF Stack

LEMMA IInvFrom ==
  ASSUME Stack(loads', roots'.loaded), Shaped(roots'), loads' # <<>> => Shaped(saved'),
         Current(lookups', roots'.clauses)
  PROVE  IInv'
BY DEF IInv, LookupsCurrent, Current

LEMMA IInvGives ==
  ASSUME IInv
  PROVE  /\ Stack(loads, roots.loaded) /\ Shaped(roots)
         /\ loads # <<>> => Shaped(saved)
         /\ Current(lookups, roots.clauses)
         /\ \A n : Current(LookedUp(n), roots.clauses)
BY LookedUpIsCurrent DEF IInv, LookupsCurrent, Current

LEMMA AttemptedRoots ==
  ASSUME NEW n, Shaped(roots)
  PROVE  /\ Shaped(Attempted(n)) /\ Attempted(n).clauses = roots.clauses
         /\ Attempted(n).loaded = roots.loaded
BY DEF Attempted, Shaped, RootsRecord

LEMMA OpenKeeps ==
  ASSUME NEW stack, NEW r, NEW f \in File, Stack(stack, r.loaded), f \notin r.loaded,
         Shaped(r), Open(stack, f, r)
  PROVE  /\ Stack(loads', roots'.loaded) /\ Shaped(roots')
         /\ roots'.clauses = r.clauses
<1> DEFINE v == r.loaded \cup {f}
<1>1. roots' = [r EXCEPT !.loaded = v] /\ loads' = Append(stack, Frame(f))
  BY DEF Open
<1>2. Stack(loads', v)
  BY <1>1, PushedStack
<1> HIDE DEF v
<1>3. Shaped(roots') /\ roots'.clauses = r.clauses /\ roots'.loaded = v
  BY <1>1 DEF Shaped, RootsRecord
<1> QED
  BY <1>2, <1>3

LEMMA TakeKeeps ==
  ASSUME IInv, loads # <<>>, NEW s, NEW cache, Current(cache, roots.clauses),
         Take(s, cache)
  PROVE  IInv'
<1> DEFINE o == Origin(Top)
<1>1. /\ roots' = Effect(roots, s, o) /\ lookups' = LookupsAfter(s, cache)
      /\ loads' = WithTop(In("next")) /\ saved' = saved
  BY DEF Take
<1> HIDE DEF o
<1>2. Shaped(roots') /\ roots'.loaded = roots.loaded
  BY <1>1, IInvGives, EffectOnClauses
<1>3. Current(lookups', roots'.clauses)
  BY <1>1, IInvGives, LookupsAfterAreCurrent
<1>4. In("next") \in Frames /\ In("next").unit = Top.unit
  BY IInvGives, TopOf, FrameSteps DEF In, Phase
<1>5. Stack(loads', roots'.loaded)
  BY <1>1, <1>2, <1>4, IInvGives, SameTopStack
<1> QED
  BY <1>1, <1>2, <1>3, <1>5, IInvGives, IInvFrom

LEMMA RollbackKeeps ==
  ASSUME IInv, loads # <<>>, RollbackModule
  PROVE  IInv'
<1>1. /\ roots' = saved /\ loads' = <<>> /\ lookups' = NoLookups
      /\ Shaped(saved)
  BY IInvGives DEF RollbackModule
<1>2. Stack(loads', roots'.loaded)
  BY <1>1, EmptyStack
<1>3. Current(lookups', roots'.clauses)
  BY <1>1 DEF Current, NoLookups
<1> QED
  BY <1>1, <1>2, <1>3, IInvFrom

LEMMA CaughtKeeps ==
  ASSUME IInv, loads # <<>>, NEW i \in Catchers, NEW cache,
         Current(cache, roots.clauses), Caught(i, cache)
  PROVE  IInv'
<1> DEFINE frame == loads[i]
           next == [frame EXCEPT !.phase = "next"]
           s == Statement(frame)
           o == Origin(frame)
           ended == {loads[k].unit : k \in (i + 1)..Len(loads)}
           new == Effect(roots, s, o)
           v == new.abandoned \cup ended
<1>1. /\ roots' = [new EXCEPT !.abandoned = v]
      /\ lookups' = LookupsAfter(s, cache)
      /\ loads' = Append(SubSeq(loads, 1, i - 1), next)
      /\ saved' = saved
  BY DEF Caught
<1>2. loads \in Seq(Frames) /\ i \in 1..Len(loads)
  BY IInvGives DEF Catchers, Stack
<1>3. frame \in Frames
  BY <1>2
<1>4. next \in Frames /\ next.unit = frame.unit
  BY <1>3, FrameSteps DEF Phase
<1> HIDE DEF next
<1>5. Stack(loads', roots.loaded)
  BY <1>1, <1>2, <1>4, IInvGives, ReplacedStack
<1> HIDE DEF frame, s, o
<1>6. Shaped(new) /\ new.loaded = roots.loaded
  BY IInvGives, EffectOnClauses
<1>7. Current(LookupsAfter(s, cache), new.clauses)
  BY IInvGives, LookupsAfterAreCurrent
<1> HIDE DEF new, v
<1>8. Shaped(roots') /\ roots'.loaded = new.loaded /\ roots'.clauses = new.clauses
  BY <1>1, <1>6 DEF Shaped, RootsRecord
<1> QED
  BY <1>1, <1>5, <1>6, <1>7, <1>8, IInvGives, IInvFrom

LEMMA FailKeeps ==
  ASSUME IInv, loads # <<>>, NEW cache, Current(cache, roots.clauses), Fail(cache)
  PROVE  IInv'
BY RollbackKeeps, CaughtKeeps DEF Fail
-----------------------------------------------------------------------------
(* The steps of a load.                                                    *)

LEMMA CannotOpenKeeps ==
  ASSUME IInv, loads # <<>>, CannotOpen
  PROVE  IInv'
BY IInvGives, FailKeeps DEF CannotOpen

LEMMA ParseNextKeeps ==
  ASSUME IInv, loads # <<>>, ParseNext
  PROVE  IInv'
<1> DEFINE s == Statements(Top.unit)[Top.at + 1]
           v == roots.syntax \cup Declares(s)
           frame == [In("add") EXCEPT !.at = @ + 1]
<1>1. CASE Fail(lookups)
  BY <1>1, IInvGives, FailKeeps
<1>2. CASE /\ loads' = WithTop(frame) /\ roots' = [roots EXCEPT !.syntax = v]
           /\ UNCHANGED <<saved, signatures, lookups, shared>>
  <2>1. In("add") \in Frames /\ In("add").unit = Top.unit
    BY IInvGives, TopOf, FrameSteps DEF In, Phase
  <2>2. frame \in Frames /\ frame.unit = Top.unit
    BY <2>1, FrameSteps
  <2> HIDE DEF frame, v
  <2>3. Shaped(roots') /\ roots'.clauses = roots.clauses /\ roots'.loaded = roots.loaded
    <3>1. Shaped(roots) /\ roots' = [roots EXCEPT !.syntax = v]
      BY <1>2, IInvGives
    <3> QED
      BY <3>1 DEF Shaped, RootsRecord
  <2>4. Stack(loads', roots'.loaded)
    BY <1>2, <2>2, <2>3, IInvGives, SameTopStack
  <2> QED
    BY <1>2, <2>3, <2>4, IInvGives, IInvFrom
<1> QED
  BY <1>1, <1>2 DEF ParseNext

\* The steps that only move the top frame on.
LEMMA TopMoves ==
  ASSUME IInv, loads # <<>>, NEW frame \in Frames, frame.unit = Top.unit,
         loads' = WithTop(frame), roots' = roots, saved' = saved,
         Current(lookups', roots.clauses)
  PROVE  IInv'
<1>1. Stack(loads', roots'.loaded)
  BY IInvGives, SameTopStack
<1> QED
  BY <1>1, IInvGives, IInvFrom

LEMMA AddImportKeeps ==
  ASSUME IInv, loads # <<>>, AddImport
  PROVE  IInv'
<1>1. CASE Fail(lookups)
  BY <1>1, IInvGives, FailKeeps
<1>2. ASSUME NEW files \in Expand(Statement(Top).from),
             loads' = WithTop([In("load") EXCEPT !.files = files]),
             UNCHANGED <<roots, saved, signatures, lookups, shared>>
      PROVE  IInv'
  <2> DEFINE frame == [In("load") EXCEPT !.files = files]
  <2>1. In("load") \in Frames /\ In("load").unit = Top.unit
    BY IInvGives, TopOf, FrameSteps DEF In, Phase
  <2>2. frame \in Frames /\ frame.unit = Top.unit
    BY <2>1, ExpandedFiles, FrameSteps
  <2> HIDE DEF frame
  <2>3. loads' = WithTop(frame)
    BY <1>2 DEF frame
  <2> QED
    BY <1>2, <2>2, <2>3, IInvGives, TopMoves
<1> QED
  BY <1>1, <1>2 DEF AddImport

LEMMA LoadImportedKeeps ==
  ASSUME IInv, loads # <<>>, LoadImported
  PROVE  IInv'
<1> DEFINE tail == Tail(Top.files)
           frame == [Top EXCEPT !.files = tail]
           rest == WithTop(frame)
<1>1. UNCHANGED <<saved, lookups, shared>>
  BY DEF LoadImported
<1>2. CASE Top.files = <<>> /\ loads' = WithTop(In("next")) /\ roots' = roots
  <2>1. In("next") \in Frames /\ In("next").unit = Top.unit
    BY IInvGives, TopOf, FrameSteps DEF In, Phase
  <2> QED
    BY <1>1, <1>2, <2>1, IInvGives, TopMoves
<1>3. ASSUME Top.files # <<>>
      PROVE  frame \in Frames /\ frame.unit = Top.unit /\ Head(Top.files) \in File
  <2>1. Top \in Frames /\ Top.files \in Seq(File)
    BY IInvGives, TopOf
  <2>2. tail \in Seq(File) /\ Head(Top.files) \in File
    BY <1>3, <2>1
  <2> HIDE DEF tail
  <2> QED
    BY <2>1, <2>2, FrameSteps
<1>4. CASE Top.files # <<>> /\ loads' = rest /\ roots' = roots
  <2> HIDE DEF frame
  <2> QED
    BY <1>1, <1>3, <1>4, IInvGives, TopMoves
<1>5. CASE /\ Top.files # <<>> /\ Head(Top.files) \notin roots.loaded
           /\ Open(rest, Head(Top.files), roots)
  <2> DEFINE f == Head(Top.files)
  <2> HIDE DEF frame, f
  <2>1. f \in File /\ f \notin roots.loaded /\ Open(rest, f, roots)
    BY <1>3, <1>5 DEF f
  <2>2. Stack(rest, roots.loaded)
    BY <1>3, <1>5, IInvGives, SameTopStack
  <2>3. /\ Stack(loads', roots'.loaded) /\ Shaped(roots')
        /\ roots'.clauses = roots.clauses
    BY <2>1, <2>2, IInvGives, OpenKeeps
  <2> QED
    BY <1>1, <2>3, IInvGives, IInvFrom
<1> QED
  BY <1>2, <1>4, <1>5 DEF LoadImported

LEMMA AddStatementKeeps ==
  ASSUME IInv, loads # <<>>, AddStatement
  PROVE  IInv'
<1> DEFINE s == Statement(Top)
           cache == IF s.kind = "fact" THEN LookedUp(s.name) ELSE lookups
<1>1. Current(cache, roots.clauses)
  BY IInvGives
<1>2. \/ Fail(cache) \/ Take(s, cache)
      \/ loads' = WithTop(In("call")) /\ UNCHANGED <<roots, saved, signatures, lookups, shared>>
  BY DEF AddStatement
<1> HIDE DEF cache
<1>3. In("call") \in Frames /\ In("call").unit = Top.unit
  BY IInvGives, TopOf, FrameSteps DEF In, Phase
<1> QED
  BY <1>1, <1>2, <1>3, IInvGives, FailKeeps, TakeKeeps, TopMoves

LEMMA EvaluateKeeps ==
  ASSUME IInv, loads # <<>>, Evaluate
  PROVE  IInv'
<1> DEFINE s == Statement(Top)
           n == s.call
           f == Package[n]
           r == Attempted(n)
           cache == LookedUp(n)
<1>1. Current(cache, roots.clauses)
  BY IInvGives
<1>2. Shaped(r) /\ r.clauses = roots.clauses /\ r.loaded = roots.loaded
  BY IInvGives, AttemptedRoots
<1>3. \/ /\ Exists(f) /\ f \notin roots.loaded /\ Open(loads, f, r)
         /\ lookups' = cache /\ saved' = saved
      \/ roots' = r /\ loads' = loads /\ lookups' = cache /\ saved' = saved
      \/ Take(s, cache)
      \/ Fail(cache)
  BY DEF Evaluate
<1> HIDE DEF cache, r, f, s
<1>4. CASE /\ Exists(f) /\ f \notin roots.loaded /\ Open(loads, f, r)
           /\ lookups' = cache /\ saved' = saved
  <2>1. f \in File
    BY <1>4 DEF Exists
  <2>2. /\ Stack(loads', roots'.loaded) /\ Shaped(roots')
        /\ roots'.clauses = roots.clauses
    BY <1>2, <1>4, <2>1, IInvGives, OpenKeeps
  <2> QED
    BY <1>1, <1>4, <2>2, IInvGives, IInvFrom
<1>5. CASE roots' = r /\ loads' = loads /\ lookups' = cache /\ saved' = saved
  BY <1>1, <1>2, <1>5, IInvGives, IInvFrom
<1> QED
  BY <1>1, <1>3, <1>4, <1>5, FailKeeps, TakeKeeps

LEMMA FinishKeeps ==
  ASSUME IInv, loads # <<>>, Finish
  PROVE  IInv'
<1> DEFINE m == Len(loads) - 1
<1>1. loads \in Seq(Frames) /\ Len(loads) \in Nat \ {0}
  BY IInvGives DEF Stack
<1>2. m \in 0..Len(loads) /\ (m = 0 <=> Len(loads) = 1)
  BY <1>1
<1>3. loads' = SubSeq(loads, 1, m) /\ roots' = roots
  BY DEF Finish, Front
<1>4. m = 0 => loads' = <<>>
  BY <1>1, <1>3
<1> HIDE DEF m
<1>5. Stack(loads', roots'.loaded)
  BY <1>2, <1>3, IInvGives, PrefixOfStack
<1>6. CASE Len(loads) = 1
  <2>1. lookups' = NoLookups /\ loads' = <<>>
    BY <1>2, <1>4, <1>6 DEF Finish
  <2>2. Current(lookups', roots'.clauses)
    BY <2>1 DEF Current, NoLookups
  <2> QED
    BY <1>3, <1>5, <2>1, <2>2, IInvGives, IInvFrom
<1>7. CASE Len(loads) # 1
  <2>1. saved' = saved /\ lookups' = lookups
    BY <1>7 DEF Finish
  <2> QED
    BY <1>3, <1>5, <2>1, IInvGives, IInvFrom
<1> QED
  BY <1>6, <1>7
-----------------------------------------------------------------------------
(* What starts a load, and the theorems.                                   *)

LEMMA LoadProgramRootKeeps ==
  ASSUME IInv, NEW f \in File, LoadProgramRoot(f)
  PROVE  IInv'
<1>1. /\ saved' = roots /\ lookups' = lookups /\ f \notin roots.loaded
      /\ Open(<<>>, f, roots)
  BY DEF LoadProgramRoot
<1>2. /\ Stack(loads', roots'.loaded) /\ Shaped(roots')
      /\ roots'.clauses = roots.clauses
  BY <1>1, IInvGives, EmptyStack, OpenKeeps
<1> QED
  BY <1>1, <1>2, IInvGives, IInvFrom

LEMMA LoadInteractiveProgramTextKeeps ==
  ASSUME IInv, NEW t \in Text, LoadInteractiveProgramText(t)
  PROVE  IInv'
<1>1. CASE TextParses(t)
  <2> DEFINE entered == roots.entered \cup {t}
             known == roots.syntax \cup UNION {Declares(s) : s \in ToSet(source[t])}
             with == [roots EXCEPT !.entered = entered]
             frame == Frame(t)
  <2>1. /\ saved' = roots /\ loads' = <<frame>> /\ lookups' = lookups
        /\ roots' = [with EXCEPT !.syntax = known]
    BY <1>1 DEF LoadInteractiveProgramText
  <2>2. frame \in Frames /\ frame.unit = t /\ t \notin File
    BY FramesAre, LoadingAssumption DEF Unit
  <2> HIDE DEF entered, known, frame
  <2>3. Shaped(with) /\ with.clauses = roots.clauses /\ with.loaded = roots.loaded
    <3>1. Shaped(roots)
      BY IInvGives
    <3> QED
      BY <3>1 DEF Shaped, RootsRecord
  <2> HIDE DEF with
  <2>4. Shaped(roots') /\ roots'.clauses = with.clauses /\ roots'.loaded = with.loaded
    BY <2>1, <2>3 DEF Shaped, RootsRecord
  <2>5. Stack(loads', roots'.loaded)
    BY <2>1, <2>2 DEF Stack
  <2> QED
    BY <2>1, <2>3, <2>4, <2>5, IInvGives, IInvFrom
<1>2. CASE ~TextParses(t)
  <2>1. /\ roots' = roots /\ saved' = saved /\ loads' = loads /\ lookups' = NoLookups
    BY <1>2 DEF LoadInteractiveProgramText, RollbackText
  <2>2. Current(lookups', roots'.clauses)
    BY <2>1 DEF Current, NoLookups
  <2> QED
    BY <2>1, <2>2, IInvGives, IInvFrom
<1> QED
  BY <1>1, <1>2

LEMMA AskKeeps ==
  ASSUME IInv, NEW n \in Name, Ask(n)
  PROVE  IInv'
<1> DEFINE f == Package[n]
           r == Attempted(n)
           cache == LookedUp(n)
<1>1. Current(cache, roots.clauses)
  BY IInvGives
<1>2. Shaped(r) /\ r.clauses = roots.clauses /\ r.loaded = roots.loaded
  BY IInvGives, AttemptedRoots
<1>3. /\ loads = <<>> /\ lookups' = cache
      /\ \/ /\ Exists(f) /\ f \notin roots.loaded /\ Open(<<>>, f, r) /\ saved' = r
         \/ roots' = r /\ loads' = loads
         \/ roots' = roots /\ loads' = loads
  BY DEF Ask, AtRest
<1> HIDE DEF cache, r, f
<1>4. CASE Exists(f) /\ f \notin roots.loaded /\ Open(<<>>, f, r) /\ saved' = r
  <2>1. f \in File
    BY <1>4 DEF Exists
  <2>2. /\ Stack(loads', roots'.loaded) /\ Shaped(roots')
        /\ roots'.clauses = roots.clauses
    BY <1>2, <1>4, <2>1, EmptyStack, OpenKeeps
  <2> QED
    BY <1>1, <1>2, <1>3, <1>4, <2>2, IInvFrom
<1>5. CASE roots' \in {r, roots} /\ loads' = loads
  BY <1>1, <1>2, <1>3, <1>5, IInvGives, IInvFrom
<1> QED
  BY <1>3, <1>4, <1>5

\* A step that leaves the loads, the roots and the lookups alone.
LEMMA OthersKeep ==
  ASSUME IInv, UNCHANGED <<roots, saved, loads, lookups>>
  PROVE  IInv'
BY IInvGives, IInvFrom

LEMMA InitIInv == Init => IInv
<1> SUFFICES ASSUME Init PROVE IInv
  OBVIOUS
<1>1. roots = NoRoots /\ loads = <<>> /\ lookups = NoLookups
  BY DEF Init
<1>2. Shaped(NoRoots)
  BY DEF NoRoots, Shaped, RootsRecord
<1>3. LookupsCurrent
  BY <1>1 DEF LookupsCurrent, NoLookups
<1> QED
  BY <1>1, <1>2, <1>3, EmptyStack DEF IInv

LEMMA LoadStepIInv == IInv /\ LoadStep => IInv'
<1> SUFFICES ASSUME IInv, LoadStep PROVE IInv'
  OBVIOUS
<1>1. loads # <<>>
  BY DEF LoadStep, AtRest
<1> QED
  BY <1>1, CannotOpenKeeps, ParseNextKeeps, AddImportKeeps, LoadImportedKeeps,
     AddStatementKeeps, EvaluateKeeps, FinishKeeps DEF LoadStep

LEMMA NextIInv == IInv /\ [Next]_vars => IInv'
<1> SUFFICES ASSUME IInv, [Next]_vars PROVE IInv'
  OBVIOUS
<1>1. CASE LoadStep
  BY <1>1, LoadStepIInv
<1>2. CASE \E f \in File : LoadProgramRoot(f)
  BY <1>2, LoadProgramRootKeeps
<1>3. CASE \E t \in Text : LoadInteractiveProgramText(t)
  BY <1>3, LoadInteractiveProgramTextKeeps
<1>4. CASE \E n \in Name : Ask(n)
  BY <1>4, AskKeeps
<1>5. CASE StartThread \/ EndThread \/ \E f \in File : Edit(f)
  BY <1>5, OthersKeep DEF StartThread, EndThread, Edit
<1>6. CASE UNCHANGED vars
  BY <1>6, OthersKeep DEF vars
<1> QED
  BY <1>1, <1>2, <1>3, <1>4, <1>5, <1>6 DEF Next

\* No file is being loaded twice at once: an import that leads back to a file
\* whose load is in progress, or a package that a predicate of the same
\* package asks for, finds the file already marked (loadProgramFile marks it
\* before it reads it) and goes on.  So however the imports of a set of files
\* refer to each other, the stack of loads holds each file at most once.
THEOREM NoReentryHolds == Spec => []NoReentry
<1>1. IInv => NoReentry
  <2> SUFFICES ASSUME IInv PROVE NoReentry
    OBVIOUS
  <2>1. Stack(loads, roots.loaded) /\ DOMAIN loads = 1..Len(loads)
    BY DEF IInv, Stack
  <2> QED
    BY <2>1 DEF NoReentry, Stack
<1> QED
  BY <1>1, InitIInv, NextIInv, PTL DEF Spec

\* What clauseLookupCache_ remembers of a name is what the clause table says
\* of it and points into the table in use: through every clause added inside
\* and outside a batch, every rollback, every error a `try' catches, and
\* every copy of a table that a started thread still holds.
THEOREM LookupsCurrentHolds == Spec => []LookupsCurrent
<1>1. IInv => LookupsCurrent
  BY DEF IInv
<1> QED
  BY <1>1, InitIInv, NextIInv, PTL DEF Spec
-----------------------------------------------------------------------------
(* Where the roots have statements in effect.                              *)

At == Unit \X Nat
Clause == [origin : At, fact : BOOLEAN]

RootsTyped(r) ==
    /\ RootsRecord(r)
    /\ r.clauses \in [Name -> Seq(Clause)]
    /\ r.classes \in [Name -> At \cup {Unbound}]
    /\ r.entries \in Seq(At)
    /\ r.facts \subseteq At
    /\ r.loaded \subseteq File /\ r.entered \subseteq Text

\* The four kinds of places: in the clause list of a name, as a class, among
\* the entry calls, among the stored facts.
ClausePlace(clauses, o, p) ==
    \E n \in Name : \E i \in DOMAIN clauses[n] : clauses[n][i].origin = o /\ p = <<n, i>>
ClassPlace(classes, o, p) == \E n \in Name : classes[n] = o /\ p = <<"class", n>>
EntryPlace(entries, o, p) == \E i \in DOMAIN entries : entries[i] = o /\ p = <<"entry", i>>
FactPlace(facts, o, p) == o \in facts /\ p = <<"fact", o>>

Placed(r, o, p) ==
    \/ ClausePlace(r.clauses, o, p)
    \/ ClassPlace(r.classes, o, p)
    \/ EntryPlace(r.entries, o, p)
    \/ FactPlace(r.facts, o, p)

\* A place of a statement is one of the four kinds.
LEMMA PlacesAre ==
  ASSUME NEW r, NEW o, NEW p
  PROVE  p \in Places(r, o) <=> Placed(r, o, p)
<1> DEFINE A(n) == {<<n, i>> : i \in {k \in DOMAIN r.clauses[n] : r.clauses[n][k].origin = o}}
           B == UNION {A(n) : n \in Name}
           C == {<<"class", n>> : n \in {m \in Name : r.classes[m] = o}}
           D == {<<"entry", i>> : i \in {k \in DOMAIN r.entries : r.entries[k] = o}}
           E == {<<"fact", x>> : x \in r.facts \cap {o}}
<1>1. Places(r, o) = B \cup C \cup D \cup E
  BY DEF Places
<1>2. p \in B <=> ClausePlace(r.clauses, o, p)
  <2>1. \A n \in Name : p \in A(n) <=> 
           \E i \in DOMAIN r.clauses[n] : r.clauses[n][i].origin = o /\ p = <<n, i>>
    <3> TAKE n \in Name
    <3>1. PICK cl : cl = r.clauses[n]
      OBVIOUS
    <3>2. p \in {<<n, i>> : i \in {k \in DOMAIN cl : cl[k].origin = o}} <=>
             \E i \in DOMAIN cl : cl[i].origin = o /\ p = <<n, i>>
      OBVIOUS
    <3> QED
      BY <3>1, <3>2
  <2> HIDE DEF A
  <2>2. p \in B <=> \E n \in Name : p \in A(n)
    OBVIOUS
  <2> QED
    BY <2>1, <2>2 DEF ClausePlace
<1>3. p \in C <=> ClassPlace(r.classes, o, p)
  BY DEF ClassPlace
<1>4. p \in D <=> EntryPlace(r.entries, o, p)
  BY DEF EntryPlace
<1>5. p \in E <=> FactPlace(r.facts, o, p)
  BY DEF FactPlace
<1> HIDE DEF B, C, D, E
<1> QED
  BY <1>1, <1>2, <1>3, <1>4, <1>5 DEF Placed

\* What is in effect is a statement, and has a place.
LEMMA InEffectPlaced ==
  ASSUME NEW r, RootsTyped(r), NEW o \in InEffect(r)
  PROVE  o \in At /\ Places(r, o) # {}
<1> DEFINE A(n) == {c.origin : c \in ToSet(r.clauses[n])}
           B == UNION {A(n) : n \in Name}
           C == {r.classes[n] : n \in {m \in Name : r.classes[m] # Unbound}}
<1>1. o \in B \/ o \in C \/ o \in ToSet(r.entries) \/ o \in r.facts
  BY DEF InEffect
<1>2. CASE o \in B
  <2>1. PICK n \in Name : o \in A(n)
    BY <1>2
  <2>2. PICK cl : cl = r.clauses[n]
    OBVIOUS
  <2>3. cl \in Seq(Clause)
    BY <2>2 DEF RootsTyped
  <2>4. PICK i \in DOMAIN cl : o = cl[i].origin
    BY <2>1, <2>2 DEF ToSet
  <2>5. cl[i] \in Clause
    BY <2>3, <2>4
  <2>6. Placed(r, o, <<n, i>>)
    BY <2>2, <2>4 DEF Placed, ClausePlace
  <2>7. o \in At
    BY <2>4, <2>5 DEF Clause
  <2>8. <<n, i>> \in Places(r, o)
    BY <2>6, PlacesAre
  <2> QED
    BY <2>7, <2>8
<1>3. CASE o \in C
  <2>1. PICK n \in Name : o = r.classes[n] /\ o # Unbound
    BY <1>3
  <2>2. o \in At
    BY <2>1 DEF RootsTyped
  <2>3. Placed(r, o, <<"class", n>>)
    BY <2>1 DEF Placed, ClassPlace
  <2> QED
    BY <2>2, <2>3, PlacesAre
<1>4. CASE o \in ToSet(r.entries)
  <2>1. PICK i \in DOMAIN r.entries : o = r.entries[i]
    BY <1>4 DEF ToSet
  <2>2. o \in At
    BY <2>1 DEF RootsTyped
  <2>3. Placed(r, o, <<"entry", i>>)
    BY <2>1 DEF Placed, EntryPlace
  <2> QED
    BY <2>2, <2>3, PlacesAre
<1>5. CASE o \in r.facts
  <2>1. Placed(r, o, <<"fact", o>>)
    BY <1>5 DEF Placed, FactPlace
  <2> QED
    BY <1>5, <2>1, PlacesAre DEF RootsTyped
<1> HIDE DEF B, C
<1> QED
  BY <1>1, <1>2, <1>3, <1>4, <1>5

\* Roots that agree on what is placed.
LEMMA SamePlaces ==
  ASSUME NEW r, NEW q,
         q.clauses = r.clauses, q.classes = r.classes, q.entries = r.entries, q.facts = r.facts
  PROVE  \A o : Places(q, o) = Places(r, o)
<1> TAKE o
<1>1. ASSUME NEW p PROVE p \in Places(q, o) <=> p \in Places(r, o)
  <2>1. p \in Places(q, o) <=> Placed(q, o, p)
    BY PlacesAre
  <2>2. p \in Places(r, o) <=> Placed(r, o, p)
    BY PlacesAre
  <2> QED
    BY <2>1, <2>2 DEF Placed
<1>2. PICK P, Q : P = Places(r, o) /\ Q = Places(q, o)
  OBVIOUS
<1>3. \A p : p \in Q <=> p \in P
  BY <1>1, <1>2
<1>4. Q = P
  BY <1>3
<1> QED
  BY <1>2, <1>4

\* A place more for the statement at o, and for no other statement.
More(r, q, o, p) ==
    \A x \in At : \A y : Placed(q, x, y) <=> Placed(r, x, y) \/ (x = o /\ y = p)
OneMore(r, q, o) == \E p : More(r, q, o, p)

\* q keeps what r has placed, and the units r has taken in.
Same(r, q) ==
    /\ RootsTyped(q)
    /\ q.clauses = r.clauses /\ q.classes = r.classes /\ q.entries = r.entries /\ q.facts = r.facts
    /\ q.loaded = r.loaded /\ q.entered = r.entered

Keeps(r, q) == Same(r, q) /\ q.abandoned = r.abandoned

\* The fields that place nothing.
LEMMA OtherFields ==
  ASSUME NEW r, RootsTyped(r), NEW v
  PROVE  /\ Keeps(r, [r EXCEPT !.globals = v])
         /\ Keeps(r, [r EXCEPT !.contracts = v])
         /\ Keeps(r, [r EXCEPT !.syntax = v])
         /\ Keeps(r, [r EXCEPT !.operators = v])
         /\ Keeps(r, [r EXCEPT !.attempted = v])
         /\ Same(r, [r EXCEPT !.abandoned = v])
<1>1. Keeps(r, [r EXCEPT !.globals = v])
  BY DEF Keeps, Same, RootsTyped, RootsRecord
<1>2. Keeps(r, [r EXCEPT !.contracts = v])
  BY DEF Keeps, Same, RootsTyped, RootsRecord
<1>3. Keeps(r, [r EXCEPT !.syntax = v])
  BY DEF Keeps, Same, RootsTyped, RootsRecord
<1>4. Keeps(r, [r EXCEPT !.operators = v])
  BY DEF Keeps, Same, RootsTyped, RootsRecord
<1>5. Keeps(r, [r EXCEPT !.attempted = v])
  BY DEF Keeps, Same, RootsTyped, RootsRecord
<1>6. Same(r, [r EXCEPT !.abandoned = v])
  BY DEF Keeps, Same, RootsTyped, RootsRecord
<1> QED
  BY <1>1, <1>2, <1>3, <1>4, <1>5, <1>6

\* q has one statement more in effect than r, and took in the same units.
Adds(r, q, o) ==
    /\ RootsTyped(q) /\ OneMore(r, q, o)
    /\ q.loaded = r.loaded /\ q.entered = r.entered /\ q.abandoned = r.abandoned

\* ... and then only fields change that place nothing.
LEMMA AddsKeeps ==
  ASSUME NEW r, NEW q, NEW o, Adds(r, q, o), NEW w, Keeps(q, w)
  PROVE  Adds(r, w, o)
<1>1. \A x, y : Placed(w, x, y) <=> Placed(q, x, y)
  BY DEF Keeps, Same, Placed
<1> QED
  BY <1>1 DEF Keeps, Same, Adds, OneMore, More

\* Each of the four kinds of places is added without touching another.
LEMMA ClauseAdds ==
  ASSUME NEW r, RootsTyped(r), NEW n \in Name, NEW c \in Clause, NEW q,
         q = [r EXCEPT !.clauses[n] = Append(@, c)]
  PROVE  Adds(r, q, c.origin)
<1>1. PICK old : old = r.clauses[n]
  OBVIOUS
<1>2. PICK list : list = Append(old, c)
  OBVIOUS
<1>3. old \in Seq(Clause)
  BY <1>1 DEF RootsTyped
<1>4. /\ list \in Seq(Clause) /\ DOMAIN list = (DOMAIN old) \cup {Len(old) + 1}
      /\ Len(old) + 1 \notin DOMAIN old
      /\ list[Len(old) + 1] = c /\ \A i \in DOMAIN old : list[i] = old[i]
  BY <1>2, <1>3
<1>5. PICK cl : cl = [r.clauses EXCEPT ![n] = list]
  OBVIOUS
<1>6. /\ cl \in [Name -> Seq(Clause)] /\ cl[n] = list
      /\ \A m \in Name : m # n => cl[m] = r.clauses[m]
  BY <1>4, <1>5 DEF RootsTyped
<1>7. q = [r EXCEPT !.clauses = cl]
  BY <1>1, <1>2, <1>5, Zenon
<1>8. /\ q.clauses = cl /\ q.classes = r.classes /\ q.entries = r.entries /\ q.facts = r.facts
      /\ q.loaded = r.loaded /\ q.entered = r.entered /\ q.abandoned = r.abandoned
      /\ RootsRecord(q)
  BY <1>7 DEF RootsTyped, RootsRecord
<1>9. RootsTyped(q)
  BY <1>6, <1>8 DEF RootsTyped
<1>10. PICK k : k = Len(old) + 1
  OBVIOUS
<1>11. \A x \in At : \A y : ClausePlace(cl, x, y) <=>
         ClausePlace(r.clauses, x, y) \/ (x = c.origin /\ y = <<n, k>>)
  <2> TAKE x \in At
  <2> TAKE y
  <2>1. ASSUME ClausePlace(cl, x, y)
        PROVE  ClausePlace(r.clauses, x, y) \/ (x = c.origin /\ y = <<n, k>>)
    <3>0. PICK m \in Name : \E i \in DOMAIN cl[m] : cl[m][i].origin = x /\ y = <<m, i>>
      BY <2>1 DEF ClausePlace
    <3>1. PICK i \in DOMAIN cl[m] : cl[m][i].origin = x /\ y = <<m, i>>
      BY <3>0
    <3>2. CASE m # n
      <4>1. cl[m] = r.clauses[m]
        BY <1>6, <3>2
      <4> QED
        BY <3>1, <4>1 DEF ClausePlace
    <3>3. CASE m = n /\ i = k
      BY <1>4, <1>6, <1>10, <3>1, <3>3
    <3>4. CASE m = n /\ i # k
      <4>1. i \in DOMAIN old /\ old[i].origin = x /\ y = <<n, i>>
        BY <1>4, <1>6, <1>10, <3>1, <3>4
      <4> QED
        BY <1>1, <4>1 DEF ClausePlace
    <3> QED
      BY <3>2, <3>3, <3>4
  <2>2. ASSUME ClausePlace(r.clauses, x, y)
        PROVE  ClausePlace(cl, x, y)
    <3>0. PICK m \in Name : \E i \in DOMAIN r.clauses[m] :
             r.clauses[m][i].origin = x /\ y = <<m, i>>
      BY <2>2 DEF ClausePlace
    <3>1. PICK i \in DOMAIN r.clauses[m] : r.clauses[m][i].origin = x /\ y = <<m, i>>
      BY <3>0
    <3>2. i \in DOMAIN cl[m] /\ cl[m][i] = r.clauses[m][i]
      BY <1>1, <1>4, <1>6, <3>1
    <3> QED
      BY <3>1, <3>2 DEF ClausePlace
  <2>3. ASSUME x = c.origin, y = <<n, k>>
        PROVE  ClausePlace(cl, x, y)
    BY <1>4, <1>6, <1>10, <2>3 DEF ClausePlace
  <2> QED
    BY <2>1, <2>2, <2>3
<1>12. OneMore(r, q, c.origin)
  <2>1. More(r, q, c.origin, <<n, k>>)
    <3> SUFFICES ASSUME NEW x \in At, NEW y
                 PROVE  Placed(q, x, y) <=> Placed(r, x, y) \/ (x = c.origin /\ y = <<n, k>>)
      BY DEF More
    <3> QED
      BY <1>8, <1>11 DEF Placed
  <2> QED
    BY <2>1 DEF OneMore
<1> QED
  BY <1>8, <1>9, <1>12 DEF Adds

\* A statement is not the mark of an unbound name.
LEMMA PlaceIsBound ==
  ASSUME NEW x \in At
  PROVE  x # Unbound
<1>1. PICK u, i : x = <<u, i>>
  BY DEF At
<1>2. x[1] = u /\ DOMAIN x = 1..2
  BY <1>1
<1>3. DOMAIN Unbound = {} /\ 1 \in 1..2
  BY DEF Unbound
<1> QED
  BY <1>2, <1>3

LEMMA ClassAdds ==
  ASSUME NEW r, RootsTyped(r), NEW n \in Name, NEW o \in At, NEW q,
         r.classes[n] = Unbound, q = [r EXCEPT !.classes[n] = o]
  PROVE  Adds(r, q, o)
<1>1. PICK cl : cl = [r.classes EXCEPT ![n] = o]
  OBVIOUS
<1>2. /\ cl \in [Name -> At \cup {Unbound}] /\ cl[n] = o
      /\ \A m \in Name : m # n => cl[m] = r.classes[m]
  BY <1>1 DEF RootsTyped
<1>3. q = [r EXCEPT !.classes = cl]
  BY <1>1, Zenon
<1>4. /\ q.clauses = r.clauses /\ q.classes = cl /\ q.entries = r.entries /\ q.facts = r.facts
      /\ q.loaded = r.loaded /\ q.entered = r.entered /\ q.abandoned = r.abandoned
      /\ RootsRecord(q)
  BY <1>3 DEF RootsTyped, RootsRecord
<1>5. RootsTyped(q)
  BY <1>2, <1>4 DEF RootsTyped
<1>6. \A x \in At : x # Unbound
  BY PlaceIsBound
<1>7. \A x \in At : \A y : ClassPlace(cl, x, y) <=>
         ClassPlace(r.classes, x, y) \/ (x = o /\ y = <<"class", n>>)
  <2> TAKE x \in At
  <2> TAKE y
  <2>1. x # Unbound
    BY <1>6
  <2> QED
    BY <1>2, <2>1 DEF ClassPlace
<1>8. OneMore(r, q, o)
  <2>1. More(r, q, o, <<"class", n>>)
    <3> SUFFICES ASSUME NEW x \in At, NEW y
                 PROVE  Placed(q, x, y) <=> Placed(r, x, y) \/ (x = o /\ y = <<"class", n>>)
      BY DEF More
    <3> QED
      BY <1>4, <1>7 DEF Placed
  <2> QED
    BY <2>1 DEF OneMore
<1> QED
  BY <1>4, <1>5, <1>8 DEF Adds

LEMMA EntryAdds ==
  ASSUME NEW r, RootsTyped(r), NEW o \in At, NEW q,
         q = [r EXCEPT !.entries = Append(@, o)]
  PROVE  Adds(r, q, o)
<1>1. PICK list : list = Append(r.entries, o)
  OBVIOUS
<1>2. r.entries \in Seq(At)
  BY DEF RootsTyped
<1>3. PICK k : k = Len(r.entries) + 1
  OBVIOUS
<1>4. /\ list \in Seq(At) /\ DOMAIN list = (DOMAIN r.entries) \cup {k}
      /\ list[k] = o /\ \A i \in DOMAIN r.entries : list[i] = r.entries[i]
      /\ k \notin DOMAIN r.entries
  BY <1>1, <1>2, <1>3
<1>5. q = [r EXCEPT !.entries = list]
  BY <1>1, Zenon
<1>6. /\ q.clauses = r.clauses /\ q.classes = r.classes /\ q.entries = list /\ q.facts = r.facts
      /\ q.loaded = r.loaded /\ q.entered = r.entered /\ q.abandoned = r.abandoned
      /\ RootsRecord(q)
  BY <1>5 DEF RootsTyped, RootsRecord
<1>7. RootsTyped(q)
  BY <1>4, <1>6 DEF RootsTyped
<1>8. \A x \in At : \A y : EntryPlace(list, x, y) <=>
         EntryPlace(r.entries, x, y) \/ (x = o /\ y = <<"entry", k>>)
  BY <1>4 DEF EntryPlace
<1>9. OneMore(r, q, o)
  <2>1. More(r, q, o, <<"entry", k>>)
    <3> SUFFICES ASSUME NEW x \in At, NEW y
                 PROVE  Placed(q, x, y) <=> Placed(r, x, y) \/ (x = o /\ y = <<"entry", k>>)
      BY DEF More
    <3> QED
      BY <1>6, <1>8 DEF Placed
  <2> QED
    BY <2>1 DEF OneMore
<1> QED
  BY <1>6, <1>7, <1>9 DEF Adds

LEMMA FactAdds ==
  ASSUME NEW r, RootsTyped(r), NEW o \in At, NEW q,
         q = [r EXCEPT !.facts = @ \cup {o}]
  PROVE  Adds(r, q, o)
<1>1. PICK set : set = r.facts \cup {o}
  OBVIOUS
<1>2. set \subseteq At
  BY <1>1 DEF RootsTyped
<1>3. q = [r EXCEPT !.facts = set]
  BY <1>1, Zenon
<1>4. /\ q.clauses = r.clauses /\ q.classes = r.classes /\ q.entries = r.entries /\ q.facts = set
      /\ q.loaded = r.loaded /\ q.entered = r.entered /\ q.abandoned = r.abandoned
      /\ RootsRecord(q)
  BY <1>3 DEF RootsTyped, RootsRecord
<1>5. RootsTyped(q)
  BY <1>2, <1>4 DEF RootsTyped
<1>6. \A x \in At : \A y : FactPlace(set, x, y) <=>
         FactPlace(r.facts, x, y) \/ (x = o /\ y = <<"fact", o>>)
  BY <1>1 DEF FactPlace
<1>7. OneMore(r, q, o)
  <2>1. More(r, q, o, <<"fact", o>>)
    <3> SUFFICES ASSUME NEW x \in At, NEW y
                 PROVE  Placed(q, x, y) <=> Placed(r, x, y) \/ (x = o /\ y = <<"fact", o>>)
      BY DEF More
    <3> QED
      BY <1>4, <1>6 DEF Placed
  <2> QED
    BY <2>1 DEF OneMore
<1> QED
  BY <1>4, <1>5, <1>7 DEF Adds

\* Every statement takes effect in one place, and changes no other's.
LEMMA EffectAdds ==
  ASSUME RootsTyped(roots), NEW s, s.name \in Name, NEW o \in At,
         s.kind = "class" => roots.classes[s.name] = Unbound,
         NEW q, q = Effect(roots, s, o)
  PROVE  Adds(roots, q, o)
<1>1. PICK c : c = [origin |-> o, fact |-> s.kind # "callable"]
  OBVIOUS
<1>2. c \in Clause /\ c.origin = o
  BY <1>1 DEF Clause
<1>3. PICK placed : placed = [roots EXCEPT !.clauses[s.name] = Append(@, c)]
  OBVIOUS
<1>4. Adds(roots, placed, o) /\ RootsTyped(placed)
  BY <1>2, <1>3, ClauseAdds DEF Adds
<1>5. placed = [roots EXCEPT !.clauses[s.name] =
                  Append(@, [origin |-> o, fact |-> s.kind # "callable"])]
  BY <1>1, <1>3
<1>6. CASE s.kind = "callable"
  <2>1. PICK v : v = placed.operators \cup {<<s.syntax, o>>}
    OBVIOUS
  <2>2. q = placed \/ q = [placed EXCEPT !.operators = v]
    BY <1>5, <1>6, <2>1, Zenon DEF Effect
  <2>3. CASE q = [placed EXCEPT !.operators = v]
    BY <1>4, <2>3, OtherFields, AddsKeeps
  <2> QED
    BY <1>4, <2>2, <2>3
<1>7. CASE s.kind = "global"
  <2>1. PICK v : v = [placed.globals EXCEPT ![s.name] = o]
    OBVIOUS
  <2>2. q = [placed EXCEPT !.globals = v]
    BY <1>5, <1>7, <2>1, Zenon DEF Effect
  <2> QED
    BY <1>4, <2>2, OtherFields, AddsKeeps
<1>8. CASE s.kind = "fact" /\ IsClause(s)
  <2>1. q = placed
    BY <1>5, <1>8, Zenon DEF Effect
  <2> QED
    BY <1>4, <2>1
<1>9. CASE s.kind = "fact" /\ ~IsClause(s)
  <2>1. PICK w : w = [roots EXCEPT !.facts = @ \cup {o}]
    OBVIOUS
  <2>2. Adds(roots, w, o) /\ RootsTyped(w)
    BY <2>1, FactAdds DEF Adds
  <2>3. PICK v : v = w.contracts \cup {s.name}
    OBVIOUS
  <2>4. q = [w EXCEPT !.contracts = v]
    BY <1>9, <2>1, <2>3, Zenon DEF Effect
  <2> QED
    BY <2>2, <2>4, OtherFields, AddsKeeps
<1>10. CASE s.kind = "class"
  <2>1. PICK w : w = [roots EXCEPT !.classes[s.name] = o]
    OBVIOUS
  <2>2. Adds(roots, w, o) /\ RootsTyped(w)
    BY <1>10, <2>1, ClassAdds DEF Adds
  <2>3. PICK v : v = w.contracts \cup {s.name}
    OBVIOUS
  <2>4. q = [w EXCEPT !.contracts = v]
    BY <1>10, <2>1, <2>3, Zenon DEF Effect
  <2> QED
    BY <2>2, <2>4, OtherFields, AddsKeeps
<1>11. CASE s.kind \notin {"callable", "global", "fact", "class"}
  <2>1. q = [roots EXCEPT !.entries = Append(@, o)]
    BY <1>11, Zenon DEF Effect
  <2> QED
    BY <2>1, EntryAdds
<1> QED
  BY <1>6, <1>7, <1>8, <1>9, <1>10, <1>11
-----------------------------------------------------------------------------
(* What the loads in progress have taken in.                               *)

Units(r) == r.loaded \cup r.entered

Once(r, o) == \E p : \A y : Placed(r, o, y) <=> y = p
Nowhere(r, o) == \A y : ~Placed(r, o, y)

Taken(s, r, o) ==
    /\ s.kind = "import" => Imported(r, s.from)
    /\ s.kind # "import" => Once(r, o)

\* One of the files an import names is loaded or still to be loaded.
Pending(r, from, files) ==
    from.directory \/ from.native \/ (ToSet(from.tried) \cap (r.loaded \cup ToSet(files))) # {}

\* Whole statements: the one in progress is not yet done.
Done(frame) == IF frame.phase = "next" THEN frame.at ELSE frame.at - 1

\* st[u] are the statements of unit u.
FrameSound(st, r, frame) ==
    /\ frame.unit \in Units(r)
    /\ frame.at <= Len(st[frame.unit])
    /\ frame.phase # "next" => frame.at > 0
    /\ frame.phase = "load" =>
         /\ st[frame.unit][frame.at].kind = "import"
         /\ Pending(r, st[frame.unit][frame.at].from, frame.files)
    /\ frame.phase = "call" => st[frame.unit][frame.at].kind \notin {"import", "class"}
    /\ \A i \in 1..Len(st[frame.unit]) :
         i <= Done(frame) => Taken(st[frame.unit][i], r, <<frame.unit, i>>)
    /\ \A i \in 1..Len(st[frame.unit]) :
         i > Done(frame) => Nowhere(r, <<frame.unit, i>>)

Complete(st, r, u) == \A i \in 1..Len(st[u]) : Taken(st[u][i], r, <<u, i>>)

Known(r) == \A o \in At : \A y : Placed(r, o, y) => o[1] \in Units(r)

Whole(st, r, ls) ==
    /\ Known(r)
    /\ \A u \in Units(r) \ r.abandoned :
         (\A k \in 1..Len(ls) : ls[k].unit # u) => Complete(st, r, u)
    /\ \A k \in 1..Len(ls) : FrameSound(st, r, ls[k])

Programs == [Unit -> Seq(Declaration)]

\* q has all that r has, and everything but o where r has it.
Besides(r, q, o) ==
    /\ r.loaded \subseteq q.loaded /\ r.entered \subseteq q.entered
    /\ \A x \in At : x # o => \A y : Placed(q, x, y) <=> Placed(r, x, y)

\* What has been taken in stays so while other statements take effect.
LEMMA TakenStays ==
  ASSUME NEW s, NEW r, NEW q, NEW o, Besides(r, q, o), NEW x \in At, x # o,
         Taken(s, r, x)
  PROVE  Taken(s, q, x)
<1>1. \A y : Placed(q, x, y) <=> Placed(r, x, y)
  BY DEF Besides
<1>2. ASSUME Once(r, x) PROVE Once(q, x)
  <2>1. PICK p : \A y : Placed(r, x, y) <=> y = p
    BY <1>2 DEF Once
  <2>2. \A y : Placed(q, x, y) <=> y = p
    BY <1>1, <2>1
  <2> QED
    BY <2>2 DEF Once
<1>3. ASSUME NEW from, Imported(r, from)
      PROVE  Imported(q, from)
  BY <1>3 DEF Imported, Besides
<1> QED
  BY <1>2, <1>3 DEF Taken

LEMMA FrameStays ==
  ASSUME NEW st \in Programs, NEW r, NEW q, NEW o, Besides(r, q, o),
         NEW frame \in Frames, o[1] # frame.unit, FrameSound(st, r, frame)
  PROVE  FrameSound(st, q, frame)
<1>1. PICK u : u = frame.unit
  OBVIOUS
<1>2. u \in Unit /\ frame.at \in Nat
  BY <1>1 DEF Frames
<1>3. \A i \in 1..Len(st[u]) : <<u, i>> \in At /\ <<u, i>> # o
  <2> TAKE i \in 1..Len(st[u])
  <2>1. <<u, i>>[1] = u /\ i \in Nat
    OBVIOUS
  <2> QED
    BY <1>1, <1>2, <2>1 DEF At
<1>4. \A i \in 1..Len(st[u]) : i <= Done(frame) => Taken(st[u][i], q, <<u, i>>)
  <2> SUFFICES ASSUME NEW i \in 1..Len(st[u]), i <= Done(frame)
               PROVE  Taken(st[u][i], q, <<u, i>>)
    OBVIOUS
  <2>1. Taken(st[u][i], r, <<u, i>>)
    BY <1>1 DEF FrameSound
  <2> QED
    BY <1>3, <2>1, TakenStays
<1>5. \A i \in 1..Len(st[u]) : i > Done(frame) => Nowhere(q, <<u, i>>)
  <2> SUFFICES ASSUME NEW i \in 1..Len(st[u]), i > Done(frame)
               PROVE  Nowhere(q, <<u, i>>)
    OBVIOUS
  <2>1. Nowhere(r, <<u, i>>)
    BY <1>1 DEF FrameSound
  <2> QED
    BY <1>3, <2>1 DEF Nowhere, Besides
<1>6. u \in Units(q)
  BY <1>1 DEF FrameSound, Besides, Units
<1>7. \A from, files : Pending(r, from, files) => Pending(q, from, files)
  BY DEF Pending, Besides
<1> QED
  BY <1>1, <1>4, <1>5, <1>6, <1>7 DEF FrameSound

LEMMA CompleteStays ==
  ASSUME NEW st \in Programs, NEW r, NEW q, NEW o, Besides(r, q, o),
         NEW u \in Unit, o[1] # u, Complete(st, r, u)
  PROVE  Complete(st, q, u)
<1> SUFFICES ASSUME NEW i \in 1..Len(st[u])
             PROVE  Taken(st[u][i], q, <<u, i>>)
  BY DEF Complete
<1>1. <<u, i>>[1] = u /\ i \in Nat
  OBVIOUS
<1>2. <<u, i>> \in At /\ <<u, i>> # o
  BY <1>1 DEF At
<1>3. Taken(st[u][i], r, <<u, i>>)
  BY DEF Complete
<1> QED
  BY <1>2, <1>3, TakenStays

\* Frame n is replaced by one of its unit, and the units above it abandoned.
LEMMA ReplacedWhole ==
  ASSUME NEW st \in Programs, NEW r, NEW ls, Stack(ls, r.loaded), Whole(st, r, ls),
         Units(r) \subseteq Unit,
         NEW n \in 1..Len(ls), NEW frame \in Frames, frame.unit = ls[n].unit,
         NEW q, NEW o, o[1] = frame.unit, Besides(r, q, o), Units(q) = Units(r),
         r.abandoned \cup {ls[k].unit : k \in (n + 1)..Len(ls)} \subseteq q.abandoned,
         Known(q), FrameSound(st, q, frame)
  PROVE  Whole(st, q, Append(SubSeq(ls, 1, n - 1), frame))
<1>1. ls \in Seq(Frames) /\ Len(ls) \in Nat
  BY DEF Stack
<1>2. PICK m : m = n - 1
  OBVIOUS
<1>3. m \in 0..Len(ls) /\ n = m + 1
  BY <1>1, <1>2
<1>4. PICK sub : sub = SubSeq(ls, 1, m)
  OBVIOUS
<1>5. sub \in Seq(Frames) /\ Len(sub) = m /\ \A i \in 1..m : sub[i] = ls[i]
  BY <1>1, <1>3, <1>4
<1>6. PICK new : new = Append(sub, frame)
  OBVIOUS
<1>7. Len(new) = n /\ new[n] = frame /\ \A i \in 1..m : new[i] = ls[i]
  BY <1>3, <1>5, <1>6
<1>8. \A k \in 1..n : k \in 1..m \/ k = n
  BY <1>3
<1>9. \A k \in 1..m : k \in 1..Len(ls) /\ k # n
  BY <1>1, <1>3
<1>10. \A k \in 1..n : FrameSound(st, q, new[k])
  <2> TAKE k \in 1..n
  <2>1. CASE k = n
    BY <1>7, <2>1
  <2>2. CASE k \in 1..m
    <3>1. k \in 1..Len(ls) /\ new[k] = ls[k] /\ ls[k] \in Frames /\ ls[k].unit # ls[n].unit
      BY <1>1, <1>7, <1>9, <2>2 DEF Stack
    <3>2. FrameSound(st, r, ls[k])
      BY <3>1 DEF Whole
    <3> QED
      BY <3>1, <3>2, FrameStays
  <2> QED
    BY <1>8, <2>1, <2>2
<1>11. \A u \in Units(q) \ q.abandoned :
         (\A k \in 1..n : new[k].unit # u) => Complete(st, q, u)
  <2> SUFFICES ASSUME NEW u \in Units(q) \ q.abandoned, \A k \in 1..n : new[k].unit # u
               PROVE  Complete(st, q, u)
    OBVIOUS
  <2>1. u \in Units(r) \ r.abandoned /\ u \in Unit
    OBVIOUS
  <2>2. ASSUME NEW k \in 1..Len(ls) PROVE ls[k].unit # u
    <3>1. CASE k \in 1..m
      BY <1>7, <1>9, <1>3, <3>1
    <3>2. CASE k = n
      BY <1>7, <3>2
    <3>3. CASE k \in (n + 1)..Len(ls)
      BY <3>3
    <3> QED
      BY <1>1, <1>3, <3>1, <3>2, <3>3
  <2>3. Complete(st, r, u)
    BY <2>1, <2>2 DEF Whole
  <2>4. frame.unit # u
    BY <1>7
  <2> QED
    BY <2>1, <2>3, <2>4, CompleteStays
<1> QED
  BY <1>2, <1>4, <1>6, <1>7, <1>10, <1>11 DEF Whole

\* A unit that was not taken in before begins.
LEMMA PushedOn ==
  ASSUME NEW st \in Programs, NEW r, NEW ls, ls \in Seq(Frames), Known(r),
         \A v \in Units(r) \ r.abandoned :
            (\A k \in 1..Len(ls) : ls[k].unit # v) => Complete(st, r, v),
         Units(r) \subseteq Unit,
         NEW u \in Unit, u \notin Units(r),
         NEW q, q.loaded \cup q.entered = Units(r) \cup {u},
         r.loaded \subseteq q.loaded, r.entered \subseteq q.entered,
         q.abandoned = r.abandoned,
         \A x \in At : \A y : Placed(q, x, y) <=> Placed(r, x, y),
         \A k \in 1..Len(ls) : FrameSound(st, q, ls[k])
  PROVE  Whole(st, q, Append(ls, Frame(u)))
<1>1. PICK new, frame : frame = Frame(u) /\ new = Append(ls, frame)
  OBVIOUS
<1>2. frame \in Frames /\ frame = [unit |-> u, at |-> 0, phase |-> "next", files |-> <<>>]
  BY <1>1, FramesAre DEF Frame
<1>3. Len(ls) \in Nat /\ Len(new) = Len(ls) + 1 /\ new[Len(new)] = frame
      /\ \A i \in 1..Len(ls) : new[i] = ls[i]
  BY <1>1, <1>2
<1>4. Units(q) = Units(r) \cup {u}
  BY DEF Units
<1>5. Known(q)
  BY <1>4 DEF Known
<1>6. PICK o : o = <<u, 0>>
  OBVIOUS
<1>7. o[1] = u /\ Besides(r, q, o)
  BY <1>6 DEF Besides
<1>8. FrameSound(st, q, frame)
  <2>1. frame.unit = u /\ frame.at = 0 /\ frame.phase = "next"
    BY <1>2
  <2>2. Done(frame) = 0 /\ Len(st[u]) \in Nat
    BY <2>1 DEF Done, Programs
  <2>3. \A i \in 1..Len(st[u]) : Nowhere(q, <<u, i>>)
    <3> TAKE i \in 1..Len(st[u])
    <3>1. <<u, i>> \in At /\ <<u, i>>[1] = u
      BY DEF At
    <3>2. \A y : ~Placed(r, <<u, i>>, y)
      BY <3>1 DEF Known
    <3> QED
      BY <3>1, <3>2 DEF Nowhere
  <2> QED
    BY <1>4, <2>1, <2>2, <2>3 DEF FrameSound
<1>9. \A k \in 1..Len(new) : FrameSound(st, q, new[k])
  <2> TAKE k \in 1..Len(new)
  <2>1. k = Len(new) \/ k \in 1..Len(ls)
    BY <1>3
  <2>2. CASE k \in 1..Len(ls)
    BY <1>3, <2>2
  <2> QED
    BY <1>3, <1>8, <2>1, <2>2
<1>10. \A v \in Units(q) \ q.abandoned :
         (\A k \in 1..Len(new) : new[k].unit # v) => Complete(st, q, v)
  <2> SUFFICES ASSUME NEW v \in Units(q) \ q.abandoned,
                      \A k \in 1..Len(new) : new[k].unit # v
               PROVE  Complete(st, q, v)
    OBVIOUS
  <2>1. Len(new) \in 1..Len(new) /\ \A k \in 1..Len(ls) : k \in 1..Len(new)
    BY <1>3
  <2>2. v # u /\ \A k \in 1..Len(ls) : ls[k].unit # v
    BY <1>2, <1>3, <2>1
  <2>3. v \in Units(r) \ r.abandoned /\ v \in Unit
    BY <1>4, <2>2
  <2>4. Complete(st, r, v)
    BY <2>2, <2>3
  <2> QED
    BY <1>7, <2>2, <2>3, <2>4, CompleteStays
<1> QED
  BY <1>1, <1>5, <1>9, <1>10 DEF Whole

\* The same where the roots had everything right before.
LEMMA PushedWhole ==
  ASSUME NEW st \in Programs, NEW r, NEW ls, ls \in Seq(Frames), Whole(st, r, ls),
         Units(r) \subseteq Unit,
         NEW u \in Unit, u \notin Units(r),
         NEW q, q.loaded \cup q.entered = Units(r) \cup {u},
         r.loaded \subseteq q.loaded, r.entered \subseteq q.entered,
         q.abandoned = r.abandoned,
         \A x \in At : \A y : Placed(q, x, y) <=> Placed(r, x, y)
  PROVE  Whole(st, q, Append(ls, Frame(u)))
<1>1. PICK o : o = <<u, 0>>
  OBVIOUS
<1>2. o[1] = u /\ Besides(r, q, o)
  BY <1>1 DEF Besides
<1>3. \A k \in 1..Len(ls) : ls[k] \in Frames /\ FrameSound(st, r, ls[k]) /\ ls[k].unit # u
  BY DEF Whole, FrameSound
<1>4. \A k \in 1..Len(ls) : FrameSound(st, q, ls[k])
  BY <1>2, <1>3, FrameStays
<1>5. /\ Known(r)
      /\ \A v \in Units(r) \ r.abandoned :
            (\A k \in 1..Len(ls) : ls[k].unit # v) => Complete(st, r, v)
  BY DEF Whole
<1> QED
  BY <1>4, <1>5, PushedOn

\* The load of a unit ends with its last statement.
LEMMA PoppedWhole ==
  ASSUME NEW st \in Programs, NEW r, NEW ls, ls \in Seq(Frames), ls # <<>>, Whole(st, r, ls),
         NEW n, n = Len(ls),
         ls[n].phase = "next", ls[n].at = Len(st[ls[n].unit])
  PROVE  Whole(st, r, SubSeq(ls, 1, n - 1))
<1>1. PICK m : m = n - 1
  OBVIOUS
<1>2. m \in 0..n /\ n \in 1..Len(ls) /\ n = m + 1
  BY <1>1
<1>3. PICK sub : sub = SubSeq(ls, 1, m)
  OBVIOUS
<1>4. Len(sub) = m /\ \A i \in 1..m : sub[i] = ls[i] /\ i \in 1..Len(ls)
  BY <1>2, <1>3
<1>5. PICK u : u = ls[n].unit
  OBVIOUS
<1>6. Complete(st, r, u)
  <2>1. FrameSound(st, r, ls[n])
    BY <1>2 DEF Whole
  <2>2. Done(ls[n]) = Len(st[u])
    BY <1>5 DEF Done
  <2>3. ls[n] \in Frames
    <3>1. \A k \in 1..Len(ls) : ls[k] \in Frames
      OBVIOUS
    <3> QED
      BY <1>2, <3>1
  <2>4. \A frame \in Frames : frame.unit \in Unit
    BY DEF Frames
  <2>5. u \in Unit
    BY <1>5, <2>3, <2>4
  <2>6. Len(st[u]) \in Nat
    BY <2>5 DEF Programs
  <2> QED
    BY <1>5, <2>1, <2>2, <2>6 DEF FrameSound, Complete
<1>7. \A v \in Units(r) \ r.abandoned :
        (\A k \in 1..Len(sub) : sub[k].unit # v) => Complete(st, r, v)
  <2> SUFFICES ASSUME NEW v \in Units(r) \ r.abandoned, v # u,
                      \A k \in 1..Len(sub) : sub[k].unit # v
               PROVE  Complete(st, r, v)
    BY <1>6
  <2>1. \A k \in 1..Len(ls) : k \in 1..m \/ k = n
    BY <1>2
  <2>2. \A k \in 1..Len(ls) : ls[k].unit # v
    BY <1>4, <1>5, <2>1
  <2> QED
    BY <2>2 DEF Whole
<1>8. \A k \in 1..Len(sub) : FrameSound(st, r, sub[k])
  BY <1>4 DEF Whole
<1> QED
  BY <1>1, <1>3, <1>7, <1>8 DEF Whole
-----------------------------------------------------------------------------
(* The invariant, and the steps of the stack.                              *)

Program == [u \in Unit |-> Statements(u)]

WInv ==
    /\ source \in [Unit -> UNION {Contents[u] : u \in Unit}]
    /\ \A u \in Unit : source[u] \in Contents[u]
    /\ RootsTyped(roots) /\ Whole(Program, roots, loads)
    /\ loads # <<>> => RootsTyped(saved) /\ Whole(Program, saved, <<>>)

LEMMA ProgramsAre ==
  ASSUME WInv
  PROVE  Program \in Programs
<1>1. \A u \in Unit : Statements(u) \in Seq(Declaration)
  BY ContentAssumption DEF WInv, Statements
<1> QED
  BY <1>1 DEF Program, Programs

LEMMA WInvFrom ==
  ASSUME WInv, source' = source, RootsTyped(roots'), Whole(Program, roots', loads'),
         loads' # <<>> => RootsTyped(saved') /\ Whole(Program, saved', <<>>)
  PROVE  WInv'
<1>1. Program' = Program
  BY DEF Program, Statements
<1> QED
  BY <1>1 DEF WInv

\* Loaded files and entered texts are units.
LEMMA UnitsAre ==
  ASSUME NEW r, RootsTyped(r)
  PROVE  Units(r) \subseteq Unit
BY DEF RootsTyped, Units, Unit

\* All this depends on where the roots have statements, and on the units.
LEMMA SameSound ==
  ASSUME NEW st, NEW r, NEW q, Same(r, q)
  PROVE  /\ Units(q) = Units(r)
         /\ Known(r) => Known(q)
         /\ \A x : \A y : Placed(q, x, y) <=> Placed(r, x, y)
         /\ \A s, o : Taken(s, r, o) => Taken(s, q, o)
         /\ \A u : Complete(st, r, u) => Complete(st, q, u)
         /\ \A frame : FrameSound(st, r, frame) => FrameSound(st, q, frame)
<1>1. Units(q) = Units(r) /\ q.loaded = r.loaded
  BY DEF Same, Units
<1>2. \A x : \A y : Placed(q, x, y) <=> Placed(r, x, y)
  BY DEF Same, Placed
<1>3. Known(r) => Known(q)
  BY <1>1, <1>2 DEF Known
<1>4. \A o : Nowhere(r, o) => Nowhere(q, o)
  BY <1>2 DEF Nowhere
<1>5. ASSUME NEW o, Once(r, o) PROVE Once(q, o)
  <2>1. PICK p : \A y : Placed(r, o, y) <=> y = p
    BY <1>5 DEF Once
  <2>2. \A y : Placed(q, o, y) <=> y = p
    BY <1>2, <2>1
  <2> QED
    BY <2>2 DEF Once
<1>6. \A from : Imported(r, from) => Imported(q, from)
  BY <1>1 DEF Imported
<1>7. \A s, o : Taken(s, r, o) => Taken(s, q, o)
  BY <1>5, <1>6 DEF Taken
<1>8. \A u : Complete(st, r, u) => Complete(st, q, u)
  BY <1>7 DEF Complete
<1>9. \A from, files : Pending(r, from, files) => Pending(q, from, files)
  BY <1>1 DEF Pending
<1>10. \A frame : FrameSound(st, r, frame) => FrameSound(st, q, frame)
  BY <1>1, <1>4, <1>7, <1>9 DEF FrameSound
<1> QED
  BY <1>1, <1>2, <1>3, <1>7, <1>8, <1>10

\* It is kept by what places nothing.
LEMMA KeptWhole ==
  ASSUME NEW st, NEW r, NEW q, NEW ls, Keeps(r, q), Whole(st, r, ls)
  PROVE  Whole(st, q, ls)
<1>1. Same(r, q) /\ q.abandoned = r.abandoned
  BY DEF Keeps
<1>2. Units(q) = Units(r) /\ (Known(r) => Known(q))
  BY <1>1, SameSound, Zenon
<1>3. \A u : Complete(st, r, u) => Complete(st, q, u)
  BY <1>1, SameSound, Zenon
<1>4. \A frame : FrameSound(st, r, frame) => FrameSound(st, q, frame)
  BY <1>1, SameSound, Zenon
<1> QED
  BY <1>1, <1>2, <1>3, <1>4 DEF Whole

\* What a frame in the middle of a statement is about.
LEMMA StatementIs ==
  ASSUME NEW st \in Programs, NEW r, NEW frame \in Frames, FrameSound(st, r, frame),
         frame.phase # "next"
  PROVE  /\ frame.at \in 1..Len(st[frame.unit]) /\ frame.at \in Nat
         /\ st[frame.unit][frame.at] \in Declaration
<1>1. PICK ss, k : ss = st[frame.unit] /\ k = frame.at
  OBVIOUS
<1>2. frame.unit \in Unit /\ k \in Nat
  BY <1>1 DEF Frames
<1>3. ss \in Seq(Declaration)
  BY <1>1, <1>2 DEF Programs
<1>4. k <= Len(ss) /\ k > 0
  BY <1>1 DEF FrameSound
<1>5. k \in 1..Len(ss)
  BY <1>2, <1>3, <1>4
<1>6. ss[k] \in Declaration
  BY <1>3, <1>5
<1> QED
  BY <1>1, <1>2, <1>5, <1>6

LEMMA DeclarationsAre ==
  ASSUME NEW s \in Declaration
  PROVE  /\ s.name \in Name
         /\ s.call # NoName => s.kind \notin {"import", "class"}
BY DEF Declaration

\* The top frame moves on within what is in effect.
LEMMA TopMovesWhole ==
  ASSUME IInv, WInv, loads # <<>>, NEW frame \in Frames, frame.unit = Top.unit,
         Keeps(roots, roots'), FrameSound(Program, roots, frame),
         loads' = WithTop(frame), saved' = saved, source' = source
  PROVE  WInv'
<1>1. PICK n : n = Len(loads)
  OBVIOUS
<1>2. PICK o : o = <<frame.unit, 0>>
  OBVIOUS
<1>3. /\ Stack(loads, roots.loaded) /\ loads \in Seq(Frames)
      /\ n \in 1..Len(loads) /\ Top = loads[n] /\ Len(loads) \in Nat
  <2>1. Stack(loads, roots.loaded)
    BY IInvGives
  <2>2. Len(loads) \in 1..Len(loads) /\ Top = loads[Len(loads)]
    BY <2>1, TopOf
  <2> QED
    BY <1>1, <2>1, <2>2 DEF Stack
<1>4. o[1] = frame.unit
  BY <1>2
<1>5. PICK q : q = roots'
  OBVIOUS
<1>6. Same(roots, q) /\ q.abandoned = roots.abandoned /\ RootsTyped(q)
  BY <1>5 DEF Keeps, Same
<1>7. PICK st : st = Program
  OBVIOUS
<1>8. st \in Programs /\ Whole(st, roots, loads) /\ Known(roots)
  BY <1>7, ProgramsAre DEF WInv, Whole
<1>9. FrameSound(st, q, frame) /\ Units(q) = Units(roots) /\ Known(q)
  <2>1. FrameSound(st, roots, frame)
    BY <1>7
  <2>2. \A x : FrameSound(st, roots, x) => FrameSound(st, q, x)
    BY <1>6, SameSound, Zenon
  <2>3. Units(q) = Units(roots) /\ Known(q)
    BY <1>6, <1>8, SameSound, Zenon
  <2> QED
    BY <2>1, <2>2, <2>3
<1>10. Besides(roots, q, o)
  BY <1>6, SameSound DEF Besides, Same
<1>11. roots.abandoned \cup {loads[k].unit : k \in (n + 1)..Len(loads)} \subseteq q.abandoned
  BY <1>1, <1>3, <1>6
<1>12. Units(roots) \subseteq Unit
  BY UnitsAre DEF WInv
<1>13. Whole(st, q, Append(SubSeq(loads, 1, n - 1), frame))
  BY <1>3, <1>4, <1>8, <1>9, <1>10, <1>11, <1>12, ReplacedWhole
<1>14. loads' = Append(SubSeq(loads, 1, n - 1), frame)
  BY <1>1 DEF WithTop, Front
<1> QED
  BY <1>5, <1>6, <1>7, <1>13, <1>14, WInvFrom DEF WInv

\* The statement of frame n takes effect, and the frames above it end.
LEMMA TakenWhole ==
  ASSUME IInv, WInv, NEW n \in 1..Len(loads), loads[n].phase # "next",
         NEW s, s = Statement(loads[n]), s.kind # "import",
         s.kind = "class" => roots.classes[s.name] = Unbound,
         Same(Effect(roots, s, Origin(loads[n])), roots'),
         roots.abandoned \cup {loads[k].unit : k \in (n + 1)..Len(loads)}
            \subseteq roots'.abandoned,
         loads' = Append(SubSeq(loads, 1, n - 1), [loads[n] EXCEPT !.phase = "next"]),
         saved' = saved, source' = source
  PROVE  WInv'
<1>1. PICK old, frame, u, a, o :
        /\ old = loads[n] /\ frame = [old EXCEPT !.phase = "next"]
        /\ u = old.unit /\ a = old.at /\ o = <<u, a>>
  OBVIOUS
<1>2. Stack(loads, roots.loaded) /\ loads \in Seq(Frames) /\ old \in Frames /\ Len(loads) \in Nat
  BY <1>1, IInvGives DEF Stack
<1>3. /\ frame \in Frames /\ frame.unit = u /\ frame.at = a /\ frame.phase = "next"
      /\ u \in Unit /\ a \in Nat
  BY <1>1, <1>2 DEF Frames, Phase
<1>4. PICK st : st = Program
  OBVIOUS
<1>5. /\ st \in Programs /\ Whole(st, roots, loads) /\ Known(roots)
      /\ FrameSound(st, roots, old)
  BY <1>1, <1>4, ProgramsAre DEF WInv, Whole
<1>6. a \in 1..Len(st[u]) /\ st[u][a] \in Declaration
  BY <1>1, <1>2, <1>5, StatementIs
<1>7. s = st[u][a]
  BY <1>1, <1>3, <1>4 DEF Statement, Program
<1>8. PICK w, q : w = Effect(roots, s, o) /\ q = roots'
  OBVIOUS
<1>9. o \in At /\ s.name \in Name
  BY <1>1, <1>3, <1>6, <1>7, DeclarationsAre DEF At
<1>10. Adds(roots, w, o) /\ RootsTyped(roots)
  BY <1>8, <1>9, EffectAdds DEF WInv
<1>11. Same(w, q)
  BY <1>1, <1>8 DEF Origin
<1>12. /\ q.loaded = roots.loaded /\ q.entered = roots.entered /\ Units(q) = Units(roots)
       /\ RootsTyped(q)
  BY <1>10, <1>11 DEF Adds, Same, Units
<1>13. PICK p : \A x \in At : \A y : Placed(q, x, y) <=> Placed(roots, x, y) \/ (x = o /\ y = p)
  <2>1. PICK z : \A x \in At : \A y :
                    Placed(w, x, y) <=> Placed(roots, x, y) \/ (x = o /\ y = z)
    BY <1>10 DEF Adds, OneMore, More
  <2>2. \A x : \A y : Placed(q, x, y) <=> Placed(w, x, y)
    BY <1>11, SameSound
  <2> QED
    BY <2>1, <2>2
<1>14. Besides(roots, q, o)
  BY <1>12, <1>13 DEF Besides
<1>15. u \in Units(roots) /\ o[1] = u
  BY <1>1, <1>5 DEF FrameSound
<1>16. Known(q)
  BY <1>5, <1>12, <1>13, <1>15 DEF Known
<1>17. Done(frame) = a /\ Done(old) = a - 1
  BY <1>1, <1>3 DEF Done
<1>18. Once(q, o)
  <2>1. Nowhere(roots, o)
    BY <1>1, <1>3, <1>5, <1>6, <1>17 DEF FrameSound
  <2>2. \A y : Placed(q, o, y) <=> y = p
    BY <1>9, <1>13, <2>1 DEF Nowhere
  <2>3. Placed(q, o, p) /\ \A y : Placed(q, o, y) => y = p
    BY <2>2
  <2> QED
    BY <2>3 DEF Once
<1>19. \A i \in 1..Len(st[u]) : i # a => <<u, i>> \in At /\ <<u, i>> # o
  BY <1>1, <1>3 DEF At
<1>20. \A i \in 1..Len(st[u]) : i <= a => Taken(st[u][i], q, <<u, i>>)
  <2> SUFFICES ASSUME NEW i \in 1..Len(st[u]), i <= a
               PROVE  Taken(st[u][i], q, <<u, i>>)
    OBVIOUS
  <2>1. CASE i = a
    BY <1>1, <1>7, <1>18, <2>1 DEF Taken
  <2>2. CASE i # a
    <3>1. i <= Done(old)
      BY <1>3, <1>17, <2>2
    <3>2. Taken(st[u][i], roots, <<u, i>>)
      BY <1>1, <1>5, <3>1 DEF FrameSound
    <3> QED
      BY <1>14, <1>19, <2>2, <3>2, TakenStays
  <2> QED
    BY <2>1, <2>2
<1>21. \A i \in 1..Len(st[u]) : i > a => Nowhere(q, <<u, i>>)
  <2> SUFFICES ASSUME NEW i \in 1..Len(st[u]), i > a
               PROVE  Nowhere(q, <<u, i>>)
    OBVIOUS
  <2>1. i > Done(old) /\ i # a
    BY <1>3, <1>17
  <2>2. Nowhere(roots, <<u, i>>)
    BY <1>1, <1>5, <2>1 DEF FrameSound
  <2> QED
    BY <1>14, <1>19, <2>1, <2>2 DEF Nowhere, Besides
<1>22. FrameSound(st, q, frame)
  <2>1. frame.unit \in Units(q) /\ frame.at <= Len(st[frame.unit]) /\ frame.phase = "next"
    BY <1>3, <1>6, <1>12, <1>15
  <2>2. \A i \in 1..Len(st[frame.unit]) :
          i <= Done(frame) => Taken(st[frame.unit][i], q, <<frame.unit, i>>)
    BY <1>3, <1>17, <1>20
  <2>3. \A i \in 1..Len(st[frame.unit]) :
          i > Done(frame) => Nowhere(q, <<frame.unit, i>>)
    BY <1>3, <1>17, <1>21
  <2> QED
    BY <2>1, <2>2, <2>3 DEF FrameSound
<1>23. Units(roots) \subseteq Unit
  BY <1>10, UnitsAre
<1>24. Whole(st, q, Append(SubSeq(loads, 1, n - 1), frame))
  <2>1. frame \in Frames /\ frame.unit = loads[n].unit /\ o[1] = frame.unit
    BY <1>1, <1>3, <1>15
  <2>2. roots.abandoned \cup {loads[k].unit : k \in (n + 1)..Len(loads)} \subseteq q.abandoned
    BY <1>8
  <2>3. Units(q) = Units(roots)
    BY <1>12
  <2> QED
    BY <1>2, <1>5, <1>14, <1>16, <1>22, <1>23, <2>1, <2>2, <2>3, ReplacedWhole
<1> QED
  BY <1>1, <1>4, <1>8, <1>12, <1>24, WInvFrom DEF WInv
-----------------------------------------------------------------------------
(* The operations of a load.                                               *)

\* The facts about the top frame that every step of a load uses.
LEMMA TopSound ==
  ASSUME IInv, WInv, loads # <<>>
  PROVE  /\ Program \in Programs /\ Top \in Frames /\ Top.unit \in Unit /\ Top.at \in Nat
         /\ FrameSound(Program, roots, Top)
         /\ Statements(Top.unit) = Program[Top.unit]
         /\ Statement(Top) = Program[Top.unit][Top.at]
         /\ Len(loads) \in 1..Len(loads) /\ Top = loads[Len(loads)]
<1>1. Top \in Frames /\ Top.at \in Nat /\ Len(loads) \in 1..Len(loads) /\ Top = loads[Len(loads)]
  BY IInvGives, TopOf
<1>2. \A frame \in Frames : frame.unit \in Unit
  BY DEF Frames
<1>3. Statements(Top.unit) = Program[Top.unit]
  BY <1>1, <1>2 DEF Program
<1>4. FrameSound(Program, roots, Top)
  BY <1>1 DEF WInv, Whole
<1> QED
  BY <1>1, <1>2, <1>3, <1>4, ProgramsAre DEF Statement

\* What the steps of a load do to the fields of the top frame.
LEMMA PhaseSet ==
  ASSUME NEW old \in Frames, NEW phase \in Phase, NEW new, new = [old EXCEPT !.phase = phase]
  PROVE  /\ new \in Frames /\ new.unit = old.unit /\ new.at = old.at
         /\ new.phase = phase /\ new.files = old.files
BY DEF Frames

LEMMA Begun ==
  ASSUME NEW old \in Frames, NEW new, new = [old EXCEPT !.at = @ + 1]
  PROVE  /\ new \in Frames /\ new.unit = old.unit /\ new.at = old.at + 1
         /\ new.phase = old.phase /\ new.files = old.files
BY DEF Frames

\* A frame that has as many statements done as before.
LEMMA SoundAgain ==
  ASSUME NEW st, NEW r, NEW old, FrameSound(st, r, old),
         NEW new, new.unit = old.unit, Done(new) = Done(old),
         new.at <= Len(st[old.unit]), new.at > 0,
         new.phase = "load" => /\ st[old.unit][new.at].kind = "import"
                               /\ Pending(r, st[old.unit][new.at].from, new.files),
         new.phase = "call" => st[old.unit][new.at].kind \notin {"import", "class"}
  PROVE  FrameSound(st, r, new)
BY DEF FrameSound

LEMMA RollbackWhole ==
  ASSUME WInv, loads # <<>>, RollbackModule, source' = source
  PROVE  WInv'
BY WInvFrom DEF RollbackModule, WInv

\* A class is declared once, and evaluates nothing.
LEMMA TakeWhole ==
  ASSUME IInv, WInv, loads # <<>>, NEW cache, Take(Statement(Top), cache), source' = source,
         Top.phase # "next", Statement(Top).kind # "import",
         Statement(Top).kind = "class" => roots.classes[Statement(Top).name] = Unbound
  PROVE  WInv'
<1>1. PICK n : n = Len(loads)
  OBVIOUS
<1>2. n \in 1..Len(loads) /\ Top = loads[n]
  BY <1>1, TopSound
<1>3. PICK s, o : s = Statement(loads[n]) /\ o = Origin(loads[n])
  OBVIOUS
<1>4. /\ roots' = Effect(roots, s, o) /\ saved' = saved
      /\ loads' = Append(SubSeq(loads, 1, n - 1), [loads[n] EXCEPT !.phase = "next"])
  BY <1>1, <1>2, <1>3 DEF Take, WithTop, Front, In
<1>5. s.name \in Name /\ o \in At
  <2>1. Statement(Top) \in Declaration
    BY TopSound, StatementIs
  <2> QED
    BY <1>2, <1>3, <2>1, TopSound, DeclarationsAre DEF Origin, At
<1>6. Adds(roots, roots', o)
  BY <1>2, <1>3, <1>4, <1>5, EffectAdds DEF WInv
<1>7. Same(Effect(roots, s, o), roots') /\ roots'.abandoned = roots.abandoned
  BY <1>4, <1>6 DEF Same, Adds
<1>8. roots.abandoned \cup {loads[k].unit : k \in (n + 1)..Len(loads)} \subseteq roots'.abandoned
  BY <1>1, <1>2, <1>7
<1> QED
  BY <1>2, <1>3, <1>4, <1>7, <1>8, TakenWhole

LEMMA CaughtWhole ==
  ASSUME IInv, WInv, loads # <<>>, NEW n \in Catchers, NEW cache, Caught(n, cache),
         source' = source
  PROVE  WInv'
<1>1. n \in 1..Len(loads) /\ loads[n].phase = "call" /\ loads \in Seq(Frames)
  BY IInvGives DEF Catchers, Stack
<1>2. PICK s, o, ended, w :
        /\ s = Statement(loads[n]) /\ o = Origin(loads[n])
        /\ ended = {loads[k].unit : k \in (n + 1)..Len(loads)} /\ w = Effect(roots, s, o)
  OBVIOUS
<1>3. PICK v : v = w.abandoned \cup ended
  OBVIOUS
<1>4. /\ roots' = [w EXCEPT !.abandoned = v] /\ saved' = saved
      /\ loads' = Append(SubSeq(loads, 1, n - 1), [loads[n] EXCEPT !.phase = "next"])
  BY <1>2, <1>3 DEF Caught
<1>5. loads[n] \in Frames /\ FrameSound(Program, roots, loads[n]) /\ Program \in Programs
  BY <1>1, ProgramsAre DEF WInv, Whole
<1>6. loads[n].unit \in Unit
  BY <1>5 DEF Frames
<1>7. /\ s = Program[loads[n].unit][loads[n].at] /\ s \in Declaration /\ o \in At
      /\ s.kind \notin {"import", "class"} /\ s.name \in Name
  <2>1. s = Program[loads[n].unit][loads[n].at]
    BY <1>2, <1>6 DEF Statement, Program
  <2>2. s \in Declaration /\ loads[n].at \in Nat
    BY <1>1, <1>5, <2>1, StatementIs
  <2>3. s.kind \notin {"import", "class"}
    BY <1>1, <1>5, <2>1 DEF FrameSound
  <2> QED
    BY <1>2, <1>6, <2>1, <2>2, <2>3, DeclarationsAre DEF Origin, At
<1>8. Adds(roots, w, o)
  BY <1>2, <1>7, EffectAdds DEF WInv
<1>9. RootsTyped(w) /\ w.abandoned = roots.abandoned
  BY <1>8 DEF Adds
<1>10. Same(w, roots')
  BY <1>4, <1>9, OtherFields
<1>11. roots'.abandoned = v
  BY <1>4, <1>9 DEF RootsTyped, RootsRecord
<1> QED
  BY <1>1, <1>2, <1>3, <1>4, <1>7, <1>9, <1>10, <1>11, TakenWhole

LEMMA FailWhole ==
  ASSUME IInv, WInv, loads # <<>>, NEW cache, Fail(cache), source' = source
  PROVE  WInv'
BY RollbackWhole, CaughtWhole DEF Fail

LEMMA ParseNextWhole ==
  ASSUME IInv, WInv, loads # <<>>, ParseNext, source' = source
  PROVE  WInv'
<1> DEFINE s == Statements(Top.unit)[Top.at + 1]
           v == roots.syntax \cup Declares(s)
<1>1. PICK frame : frame = [In("add") EXCEPT !.at = @ + 1]
  OBVIOUS
<1>2. CASE Fail(lookups)
  BY <1>2, FailWhole
<1>3. CASE /\ loads' = WithTop(frame) /\ roots' = [roots EXCEPT !.syntax = v]
           /\ UNCHANGED <<saved, signatures, lookups, shared>>
  <2>1. Top.phase = "next" /\ Top.at < Len(Program[Top.unit])
    BY TopSound DEF ParseNext
  <2>2. /\ frame \in Frames /\ frame.unit = Top.unit /\ frame.at = Top.at + 1
        /\ frame.phase = "add"
    <3>1. PICK mid : mid = [Top EXCEPT !.phase = "add"]
      OBVIOUS
    <3>2. /\ mid \in Frames /\ mid.unit = Top.unit /\ mid.at = Top.at
          /\ mid.phase = "add"
      BY <3>1, TopSound, PhaseSet DEF Phase
    <3>3. frame = [mid EXCEPT !.at = @ + 1]
      BY <1>1, <3>1 DEF In
    <3> QED
      BY <3>2, <3>3, Begun
  <2>3. Done(frame) = Done(Top) /\ frame.at > 0 /\ frame.at <= Len(Program[Top.unit])
    <3>1. Len(Program[Top.unit]) \in Nat
      BY TopSound DEF Programs
    <3> QED
      BY <2>1, <2>2, <3>1, TopSound DEF Done
  <2>4. FrameSound(Program, roots, frame)
    BY <2>2, <2>3, TopSound, SoundAgain
  <2> HIDE DEF v
  <2>5. Keeps(roots, roots')
    BY <1>3, OtherFields DEF WInv
  <2> QED
    BY <1>3, <2>2, <2>4, <2>5, TopMovesWhole
<1> QED
  BY <1>1, <1>2, <1>3 DEF ParseNext

\* What an import expands to are files it names.
LEMMA ExpandedPending ==
  ASSUME NEW s \in Declaration, NEW r, NEW files \in Expand(s.from)
  PROVE  Pending(r, s.from, files)
<1>1. PICK from, tried : from = s.from /\ tried = from.tried
  OBVIOUS
<1>2. CASE ~from.directory /\ ~from.native
  <2>1. PICK k \in DOMAIN tried : files = <<tried[k]>>
    BY <1>1, <1>2, Zenon DEF Expand
  <2>2. tried[k] \in ToSet(tried) /\ tried[k] \in ToSet(files)
    <3>1. files[1] = tried[k] /\ 1 \in DOMAIN files
      BY <2>1
    <3> QED
      BY <3>1 DEF ToSet
  <2> QED
    BY <1>1, <2>2 DEF Pending
<1> QED
  BY <1>1, <1>2 DEF Pending

LEMMA AddImportWhole ==
  ASSUME IInv, WInv, loads # <<>>, AddImport, source' = source
  PROVE  WInv'
<1>1. CASE Fail(lookups)
  BY <1>1, FailWhole
<1>2. ASSUME NEW files \in Expand(Statement(Top).from),
             loads' = WithTop([In("load") EXCEPT !.files = files]),
             UNCHANGED <<roots, saved, signatures, lookups, shared>>
      PROVE  WInv'
  <2>1. PICK frame, mid : /\ mid = [Top EXCEPT !.phase = "load"]
                          /\ frame = [mid EXCEPT !.files = files]
    OBVIOUS
  <2>2. Top.phase = "add" /\ Statement(Top).kind = "import"
    BY DEF AddImport
  <2>3. mid \in Frames /\ mid.unit = Top.unit /\ mid.at = Top.at /\ mid.phase = "load"
    BY <2>1, TopSound, PhaseSet DEF Phase
  <2>4. /\ frame \in Frames /\ frame.unit = Top.unit /\ frame.at = Top.at
        /\ frame.phase = "load" /\ frame.files = files
    <3> DEFINE from == Statement(Top).from
    <3> HIDE DEF from
    <3>1. files \in Seq(File)
      <4>1. files \in Expand(from)
        BY DEF from
      <4> QED
        BY <4>1, ExpandedFiles
    <3> QED
      BY <2>1, <2>3, <3>1 DEF Frames
  <2>5. Done(frame) = Done(Top)
    BY <2>2, <2>4 DEF Done
  <2>6. Top.at \in 1..Len(Program[Top.unit]) /\ Statement(Top) \in Declaration
    BY <2>2, TopSound, StatementIs
  <2>7. Pending(roots, Statement(Top).from, files)
    BY <2>6, ExpandedPending
  <2>8. FrameSound(Program, roots, frame)
    BY <2>2, <2>4, <2>5, <2>6, <2>7, TopSound, SoundAgain
  <2>9. Keeps(roots, roots')
    BY <1>2 DEF Keeps, Same, WInv
  <2>10. loads' = WithTop(frame)
    BY <1>2, <2>1 DEF In
  <2> QED
    BY <1>2, <2>4, <2>8, <2>9, <2>10, TopMovesWhole
<1> QED
  BY <1>1, <1>2 DEF AddImport

LEMMA AddStatementWhole ==
  ASSUME IInv, WInv, loads # <<>>, AddStatement, source' = source
  PROVE  WInv'
<1>1. PICK s, cache : s = Statement(Top)
                        /\ cache = IF s.kind = "fact" THEN LookedUp(s.name) ELSE lookups
  OBVIOUS
<1>2. /\ Top.phase = "add" /\ s.kind # "import"
      /\ \/ Fail(cache)
         \/ ~Refused(s) /\ Take(s, cache)
         \/ /\ s.call # NoName
            /\ loads' = WithTop(In("call"))
            /\ UNCHANGED <<roots, saved, signatures, lookups, shared>>
  BY <1>1 DEF AddStatement
<1>3. CASE ~Refused(s) /\ Take(s, cache)
  <2>1. s.kind = "class" => roots.classes[s.name] = Unbound
    BY <1>3, Zenon DEF Refused
  <2> QED
    BY <1>1, <1>2, <1>3, <2>1, TakeWhole
<1>4. CASE /\ s.call # NoName
           /\ loads' = WithTop(In("call"))
           /\ UNCHANGED <<roots, saved, signatures, lookups, shared>>
  <2>1. PICK frame : frame = [Top EXCEPT !.phase = "call"]
    OBVIOUS
  <2>2. frame \in Frames /\ frame.unit = Top.unit /\ frame.at = Top.at /\ frame.phase = "call"
    BY <2>1, TopSound, PhaseSet DEF Phase
  <2>3. Done(frame) = Done(Top)
    BY <1>2, <2>2 DEF Done
  <2>4. Top.at \in 1..Len(Program[Top.unit]) /\ s \in Declaration
    BY <1>1, <1>2, TopSound, StatementIs
  <2>5. s.kind \notin {"import", "class"}
    BY <1>4, <2>4, DeclarationsAre
  <2>6. FrameSound(Program, roots, frame)
    BY <1>1, <2>2, <2>3, <2>4, <2>5, TopSound, SoundAgain
  <2>7. Keeps(roots, roots')
    BY <1>4 DEF Keeps, Same, WInv
  <2>8. loads' = WithTop(frame)
    BY <1>4, <2>1 DEF In
  <2> QED
    BY <1>4, <2>2, <2>6, <2>7, <2>8, TopMovesWhole
<1> QED
  BY <1>2, <1>3, <1>4, FailWhole

LEMMA FinishWhole ==
  ASSUME IInv, WInv, loads # <<>>, Finish, source' = source
  PROVE  WInv'
<1>1. PICK n : n = Len(loads)
  OBVIOUS
<1>2. loads \in Seq(Frames) /\ n \in 1..Len(loads) /\ Top = loads[n]
  BY <1>1, IInvGives, TopSound DEF Stack
<1>3. /\ loads[n].phase = "next" /\ loads[n].at = Len(Program[loads[n].unit])
      /\ loads' = SubSeq(loads, 1, n - 1) /\ roots' = roots
  BY <1>1, <1>2, TopSound DEF Finish, Front
<1>4. Whole(Program, roots, SubSeq(loads, 1, n - 1))
  BY <1>1, <1>2, <1>3, ProgramsAre, PoppedWhole DEF WInv
<1>5. loads' # <<>> => saved' = saved
  <2>1. CASE n = 1
    BY <1>2, <1>3, <2>1
  <2>2. CASE n # 1
    BY <1>1, <2>2 DEF Finish
  <2> QED
    BY <2>1, <2>2
<1> QED
  BY <1>3, <1>4, <1>5, WInvFrom DEF WInv

\* A file is marked as loaded.
LEMMA OpenedRoots ==
  ASSUME NEW r, RootsTyped(r), NEW f \in File, NEW q, q = [r EXCEPT !.loaded = @ \cup {f}]
  PROVE  /\ RootsTyped(q) /\ q.loaded = r.loaded \cup {f} /\ q.entered = r.entered
         /\ q.abandoned = r.abandoned
         /\ q.loaded \cup q.entered = Units(r) \cup {f}
         /\ \A x : \A y : Placed(q, x, y) <=> Placed(r, x, y)
<1>1. PICK v : v = r.loaded \cup {f}
  OBVIOUS
<1>2. q = [r EXCEPT !.loaded = v]
  BY <1>1
<1>3. /\ q.clauses = r.clauses /\ q.classes = r.classes /\ q.entries = r.entries
      /\ q.facts = r.facts /\ q.loaded = v /\ q.entered = r.entered
      /\ q.abandoned = r.abandoned /\ RootsRecord(q)
  BY <1>2 DEF RootsTyped, RootsRecord
<1>4. RootsTyped(q)
  BY <1>1, <1>3 DEF RootsTyped
<1> QED
  BY <1>1, <1>3, <1>4 DEF Placed, Units

\* A file that is not loaded is not a unit taken in.
LEMMA NewFile ==
  ASSUME NEW r, RootsTyped(r), NEW f \in File, f \notin r.loaded
  PROVE  f \in Unit /\ f \notin Units(r)
BY LoadingAssumption DEF RootsTyped, Units, Unit

\* A file begins on top of loads that are right.
LEMMA OpenWhole ==
  ASSUME NEW st \in Programs, NEW r, RootsTyped(r), NEW ls, ls \in Seq(Frames),
         Whole(st, r, ls), NEW f \in File, f \notin r.loaded, Open(ls, f, r)
  PROVE  RootsTyped(roots') /\ Whole(st, roots', loads')
<1>1. PICK q : q = roots'
  OBVIOUS
<1>2. q = [r EXCEPT !.loaded = @ \cup {f}] /\ loads' = Append(ls, Frame(f))
  BY <1>1 DEF Open
<1>3. /\ RootsTyped(q) /\ q.loaded = r.loaded \cup {f} /\ q.entered = r.entered
      /\ q.abandoned = r.abandoned
      /\ q.loaded \cup q.entered = Units(r) \cup {f}
      /\ \A x : \A y : Placed(q, x, y) <=> Placed(r, x, y)
  BY <1>2, OpenedRoots
<1>4. f \in Unit /\ f \notin Units(r) /\ Units(r) \subseteq Unit
  BY NewFile, UnitsAre
<1>5. r.loaded \subseteq q.loaded /\ r.entered \subseteq q.entered
  BY <1>3
<1>6. \A x \in At : \A y : Placed(q, x, y) <=> Placed(r, x, y)
  BY <1>3
<1>7. Whole(st, q, Append(ls, Frame(f)))
  BY <1>3, <1>4, <1>5, <1>6, PushedWhole
<1> QED
  BY <1>1, <1>2, <1>3, <1>7

\* The first file is loaded, and the others remain.
LEMMA TailPending ==
  ASSUME NEW r, NEW q, r.loaded \subseteq q.loaded, NEW from, NEW files \in Seq(File),
         files # <<>>, Head(files) \in q.loaded, Pending(r, from, files)
  PROVE  Pending(q, from, Tail(files))
<1>1. ASSUME NEW x \in ToSet(files) PROVE x = Head(files) \/ x \in ToSet(Tail(files))
  <2>1. PICK i \in DOMAIN files : x = files[i]
    BY DEF ToSet
  <2>2. CASE i = 1
    BY <2>1, <2>2
  <2>3. CASE i # 1
    <3>1. i - 1 \in DOMAIN Tail(files) /\ Tail(files)[i - 1] = x
      BY <2>1, <2>3
    <3> QED
      BY <3>1 DEF ToSet
  <2> QED
    BY <2>2, <2>3
<1> QED
  BY <1>1 DEF Pending

LEMMA LoadImportedWhole ==
  ASSUME IInv, WInv, loads # <<>>, LoadImported, source' = source
  PROVE  WInv'
<1>1. PICK tail, f, frame, st :
         /\ tail = Tail(Top.files) /\ f = Head(Top.files)
         /\ frame = [Top EXCEPT !.files = tail] /\ st = Program
  OBVIOUS
<1>2. /\ Top.phase = "load" /\ saved' = saved
      /\ \/ Top.files = <<>> /\ loads' = WithTop(In("next")) /\ roots' = roots
         \/ Top.files # <<>> /\ f \in roots.loaded /\ loads' = WithTop(frame) /\ roots' = roots
         \/ Top.files # <<>> /\ f \notin roots.loaded /\ Open(WithTop(frame), f, roots)
  BY <1>1 DEF LoadImported
<1>3. /\ Top.at \in 1..Len(st[Top.unit]) /\ Top.at \in Nat
      /\ st[Top.unit][Top.at] \in Declaration
      /\ FrameSound(st, roots, Top) /\ st \in Programs /\ Top \in Frames /\ Top.unit \in Unit
  BY <1>1, <1>2, TopSound, StatementIs
<1>4. PICK s : s = st[Top.unit][Top.at]
  OBVIOUS
<1>5. s.kind = "import" /\ Pending(roots, s.from, Top.files)
  BY <1>2, <1>3, <1>4 DEF FrameSound
<1>6. Done(Top) = Top.at - 1
  BY <1>2 DEF Done
<1>7. Top.files \in Seq(File)
  BY IInvGives, TopOf
<1>8. RootsTyped(roots)
  BY DEF WInv
<1>9. CASE Top.files = <<>> /\ loads' = WithTop(In("next")) /\ roots' = roots
  <2>1. PICK next : next = [Top EXCEPT !.phase = "next"]
    OBVIOUS
  <2>2. next \in Frames /\ next.unit = Top.unit /\ next.at = Top.at /\ next.phase = "next"
    BY <2>1, <1>3, PhaseSet DEF Phase
  <2>3. Taken(s, roots, <<Top.unit, Top.at>>)
    <3>1. ToSet(<<>>) = {}
      BY DEF ToSet
    <3> QED
      BY <1>5, <1>9, <3>1 DEF Taken, Imported, Pending
  <2>4. Done(next) = Top.at
    BY <2>2 DEF Done
  <2>5. \A i \in 1..Len(st[Top.unit]) :
          i <= Done(next) => Taken(st[Top.unit][i], roots, <<Top.unit, i>>)
    <3> SUFFICES ASSUME NEW i \in 1..Len(st[Top.unit]), i <= Top.at
                 PROVE  Taken(st[Top.unit][i], roots, <<Top.unit, i>>)
      BY <2>4
    <3>1. CASE i = Top.at
      BY <1>4, <2>3, <3>1
    <3>2. CASE i # Top.at
      <4>1. i <= Done(Top)
        BY <1>3, <1>6, <3>2
      <4> QED
        BY <1>3, <4>1 DEF FrameSound
    <3> QED
      BY <3>1, <3>2
  <2>6. \A i \in 1..Len(st[Top.unit]) :
          i > Done(next) => Nowhere(roots, <<Top.unit, i>>)
    <3> SUFFICES ASSUME NEW i \in 1..Len(st[Top.unit]), i > Top.at
                 PROVE  Nowhere(roots, <<Top.unit, i>>)
      BY <2>4
    <3>1. i > Done(Top)
      BY <1>3, <1>6
    <3> QED
      BY <1>3, <3>1 DEF FrameSound
  <2>7. FrameSound(st, roots, next)
    BY <1>3, <2>2, <2>5, <2>6 DEF FrameSound
  <2>8. Keeps(roots, roots')
    BY <1>8, <1>9 DEF Keeps, Same
  <2>9. loads' = WithTop(next)
    BY <1>9, <2>1 DEF In
  <2> QED
    BY <1>1, <1>2, <2>2, <2>7, <2>8, <2>9, TopMovesWhole
<1>10. ASSUME Top.files # <<>>
       PROVE  /\ tail \in Seq(File) /\ f \in File
              /\ frame \in Frames /\ frame.unit = Top.unit /\ frame.at = Top.at
              /\ frame.phase = "load" /\ frame.files = tail /\ Done(frame) = Done(Top)
  <2>1. tail \in Seq(File) /\ f \in File
    BY <1>1, <1>7, <1>10
  <2>2. /\ frame \in Frames /\ frame.unit = Top.unit /\ frame.at = Top.at
        /\ frame.phase = "load" /\ frame.files = tail
    BY <1>1, <1>2, <1>3, <2>1 DEF Frames
  <2> QED
    BY <1>2, <2>1, <2>2 DEF Done
<1>11. CASE Top.files # <<>> /\ f \in roots.loaded /\ loads' = WithTop(frame) /\ roots' = roots
  <2>1. Pending(roots, s.from, tail)
    BY <1>1, <1>5, <1>7, <1>11, TailPending
  <2>2. FrameSound(st, roots, frame)
    BY <1>3, <1>4, <1>5, <1>10, <1>11, <2>1, SoundAgain
  <2>3. Keeps(roots, roots')
    BY <1>8, <1>11 DEF Keeps, Same
  <2> QED
    BY <1>1, <1>2, <1>10, <1>11, <2>2, <2>3, TopMovesWhole
<1>12. CASE Top.files # <<>> /\ f \notin roots.loaded /\ Open(WithTop(frame), f, roots)
  <2>1. PICK q, n, ls : q = roots' /\ n = Len(loads) /\ ls = WithTop(frame)
    OBVIOUS
  <2>2. q = [roots EXCEPT !.loaded = @ \cup {f}] /\ loads' = Append(ls, Frame(f))
    BY <1>12, <2>1 DEF Open
  <2>3. /\ RootsTyped(q) /\ q.loaded = roots.loaded \cup {f} /\ q.entered = roots.entered
        /\ q.abandoned = roots.abandoned
        /\ q.loaded \cup q.entered = Units(roots) \cup {f}
        /\ \A x : \A y : Placed(q, x, y) <=> Placed(roots, x, y)
    BY <1>8, <1>10, <1>12, <2>2, OpenedRoots
  <2>4. f \in Unit /\ f \notin Units(roots) /\ Units(roots) \subseteq Unit
    BY <1>8, <1>10, <1>12, NewFile, UnitsAre
  <2>5. roots.loaded \subseteq q.loaded /\ roots.entered \subseteq q.entered
    BY <2>3
  <2>6. \A x \in At : \A y : Placed(q, x, y) <=> Placed(roots, x, y)
    BY <2>3
  <2>7. PICK o : o = <<f, 0>>
    OBVIOUS
  <2>8. o[1] = f /\ Besides(roots, q, o)
    BY <2>5, <2>6, <2>7 DEF Besides
  <2>9. /\ loads \in Seq(Frames) /\ n \in 1..Len(loads) /\ Top = loads[n] /\ n = Len(loads)
        /\ \A k \in 1..Len(loads) : loads[k] \in Frames /\ FrameSound(st, roots, loads[k])
    BY <1>1, <2>1, IInvGives, TopSound DEF Stack, WInv, Whole
  <2>10. /\ ls \in Seq(Frames) /\ Len(ls) = n /\ ls[n] = frame
         /\ \A k \in 1..(n - 1) : ls[k] = loads[k] /\ k \in 1..Len(loads)
    BY <1>10, <1>12, <2>1, <2>9 DEF WithTop, Front
  <2>11. \A k \in 1..n : k \in 1..(n - 1) \/ k = n
    BY <2>9
  <2>12. \A k \in 1..n : ls[k].unit = loads[k].unit
    BY <1>10, <1>12, <2>9, <2>10, <2>11
  <2>13. \A frm : FrameSound(st, roots, frm) => frm.unit # f
    BY <2>4 DEF FrameSound
  <2>14. \A k \in 1..(n - 1) : FrameSound(st, q, ls[k])
    BY <1>3, <2>8, <2>9, <2>10, <2>13, FrameStays
  <2>15. FrameSound(st, q, frame)
    <3>1. FrameSound(st, q, Top)
      BY <1>3, <2>8, <2>13, FrameStays
    <3>2. Pending(q, s.from, tail)
      BY <1>1, <1>5, <1>7, <1>12, <2>3, <2>5, TailPending
    <3> QED
      BY <1>3, <1>4, <1>5, <1>10, <1>12, <3>1, <3>2, SoundAgain
  <2>16. \A k \in 1..Len(ls) : FrameSound(st, q, ls[k])
    BY <2>10, <2>11, <2>14, <2>15
  <2>17. /\ Known(roots)
         /\ \A v \in Units(roots) \ roots.abandoned :
              (\A k \in 1..Len(ls) : ls[k].unit # v) => Complete(st, roots, v)
    BY <1>1, <2>9, <2>10, <2>12 DEF WInv, Whole
  <2>18. Whole(st, q, Append(ls, Frame(f)))
    BY <1>3, <2>3, <2>4, <2>5, <2>6, <2>10, <2>16, <2>17, PushedOn
  <2>19. saved' = saved
    BY <1>2
  <2> QED
    BY <1>1, <2>1, <2>2, <2>3, <2>18, <2>19, WInvFrom DEF WInv
<1> QED
  BY <1>2, <1>9, <1>11, <1>12

LEMMA AttemptedKeeps ==
  ASSUME NEW n, RootsTyped(roots)
  PROVE  Keeps(roots, Attempted(n)) /\ RootsTyped(Attempted(n))
         /\ Attempted(n).loaded = roots.loaded
<1>1. PICK v : v = roots.attempted \cup {Package[n]}
  OBVIOUS
<1>2. PICK q : q = Attempted(n)
  OBVIOUS
<1>3. q = [roots EXCEPT !.attempted = v]
  BY <1>1, <1>2 DEF Attempted
<1>4. Keeps(roots, q)
  BY <1>3, OtherFields
<1> QED
  BY <1>2, <1>4 DEF Keeps, Same

LEMMA EvaluateWhole ==
  ASSUME IInv, WInv, loads # <<>>, Evaluate, source' = source
  PROVE  WInv'
<1>1. PICK s, n, f, r, cache :
         /\ s = Statement(Top) /\ n = s.call /\ f = Package[n] /\ r = Attempted(n)
         /\ cache = LookedUp(n)
  OBVIOUS
<1>2. /\ Top.phase = "call"
      /\ \/ /\ Exists(f) /\ f \notin roots.loaded /\ Open(loads, f, r) /\ saved' = saved
         \/ roots' = r /\ loads' = loads /\ saved' = saved
         \/ Take(s, cache)
         \/ Fail(cache)
  <2> DEFINE m == Statement(Top).call
  <2>1. /\ Top.phase = "call"
        /\ \/ /\ Exists(Package[m]) /\ Package[m] \notin roots.loaded
              /\ Open(loads, Package[m], Attempted(m)) /\ saved' = saved
           \/ roots' = Attempted(m) /\ loads' = loads /\ saved' = saved
           \/ Take(Statement(Top), LookedUp(m))
           \/ Fail(LookedUp(m))
    BY DEF Evaluate
  <2>2. m = n
    BY <1>1
  <2> HIDE DEF m
  <2> QED
    BY <1>1, <2>1, <2>2
<1>3. Keeps(roots, r) /\ RootsTyped(r) /\ r.loaded = roots.loaded
  BY <1>1, AttemptedKeeps DEF WInv
<1>4. Whole(Program, r, loads)
  BY <1>3, KeptWhole DEF WInv
<1>5. CASE Exists(f) /\ f \notin roots.loaded /\ Open(loads, f, r) /\ saved' = saved
  <2>1. f \in File /\ f \notin r.loaded /\ loads \in Seq(Frames)
    BY <1>3, <1>5, IInvGives DEF Exists, Stack
  <2>2. RootsTyped(roots') /\ Whole(Program, roots', loads')
    BY <1>3, <1>4, <1>5, <2>1, ProgramsAre, OpenWhole
  <2> QED
    BY <1>5, <2>2, WInvFrom DEF WInv
<1>6. CASE roots' = r /\ loads' = loads /\ saved' = saved
  BY <1>3, <1>4, <1>6, WInvFrom DEF WInv
<1>7. CASE Take(s, cache)
  <2>1. s.kind \notin {"import", "class"}
    BY <1>1, <1>2, TopSound DEF FrameSound
  <2> QED
    BY <1>1, <1>2, <1>7, <2>1, TakeWhole
<1> QED
  BY <1>2, <1>5, <1>6, <1>7, FailWhole
-----------------------------------------------------------------------------
(* What starts a load, and what happens between loads.                     *)

LEMMA LoadProgramRootWhole ==
  ASSUME WInv, NEW f \in File, LoadProgramRoot(f)
  PROVE  WInv'
<1>1. /\ loads = <<>> /\ f \notin roots.loaded /\ saved' = roots /\ Open(<<>>, f, roots)
      /\ source' = source
  BY DEF LoadProgramRoot, AtRest
<1>2. RootsTyped(roots) /\ Whole(Program, roots, <<>>)
  BY <1>1 DEF WInv
<1>3. RootsTyped(roots') /\ Whole(Program, roots', loads')
  <2>1. <<>> \in Seq(Frames)
    OBVIOUS
  <2> QED
    BY <1>1, <1>2, <2>1, ProgramsAre, OpenWhole
<1> QED
  BY <1>1, <1>2, <1>3, WInvFrom

LEMMA AskWhole ==
  ASSUME WInv, NEW n, Ask(n)
  PROVE  WInv'
<1>1. PICK f, r : f = Package[n] /\ r = Attempted(n)
  OBVIOUS
<1>2. /\ loads = <<>> /\ source' = source
      /\ \/ Exists(f) /\ f \notin roots.loaded /\ Open(<<>>, f, r) /\ saved' = r
         \/ roots' = r /\ loads' = loads
         \/ roots' = roots /\ loads' = loads
  <2>1. /\ loads = <<>> /\ source' = source
        /\ \/ /\ Exists(Package[n]) /\ Package[n] \notin roots.loaded
              /\ Open(<<>>, Package[n], Attempted(n)) /\ saved' = Attempted(n)
           \/ roots' = Attempted(n) /\ loads' = loads
           \/ roots' = roots /\ loads' = loads
    BY DEF Ask, AtRest
  <2> QED
    BY <1>1, <2>1
<1>3. Keeps(roots, r) /\ RootsTyped(r) /\ r.loaded = roots.loaded
  BY <1>1, AttemptedKeeps DEF WInv
<1>4. Whole(Program, roots, <<>>)
  BY <1>2 DEF WInv
<1>5. Whole(Program, r, <<>>)
  BY <1>3, <1>4, KeptWhole
<1>6. CASE Exists(f) /\ f \notin roots.loaded /\ Open(<<>>, f, r) /\ saved' = r
  <2>1. f \in File /\ f \notin r.loaded /\ <<>> \in Seq(Frames)
    BY <1>3, <1>6 DEF Exists
  <2>2. RootsTyped(roots') /\ Whole(Program, roots', loads')
    BY <1>3, <1>5, <1>6, <2>1, ProgramsAre, OpenWhole
  <2> QED
    BY <1>2, <1>3, <1>5, <1>6, <2>2, WInvFrom
<1>7. CASE roots' \in {r, roots} /\ loads' = loads
  BY <1>2, <1>3, <1>4, <1>5, <1>7, WInvFrom DEF WInv
<1> QED
  BY <1>2, <1>6, <1>7

LEMMA LoadInteractiveProgramTextWhole ==
  ASSUME WInv, NEW t \in Text, LoadInteractiveProgramText(t)
  PROVE  WInv'
<1>1. loads = <<>> /\ t \notin roots.entered /\ source' = source
  BY DEF LoadInteractiveProgramText, AtRest
<1>2. RootsTyped(roots) /\ Whole(Program, roots, <<>>)
  BY <1>1 DEF WInv
<1>3. CASE TextParses(t)
  <2>1. PICK entered, syntax, w, q :
           /\ entered = roots.entered \cup {t}
           /\ syntax = roots.syntax \cup UNION {Declares(s) : s \in ToSet(source[t])}
           /\ w = [roots EXCEPT !.entered = entered]
           /\ q = roots'
    OBVIOUS
  <2>2. q = [w EXCEPT !.syntax = syntax] /\ loads' = <<Frame(t)>> /\ saved' = roots
    BY <1>3, <2>1 DEF LoadInteractiveProgramText
  <2>3. /\ w.clauses = roots.clauses /\ w.classes = roots.classes
        /\ w.entries = roots.entries /\ w.facts = roots.facts /\ w.loaded = roots.loaded
        /\ w.entered = entered /\ w.abandoned = roots.abandoned /\ RootsRecord(w)
    BY <1>2, <2>1 DEF RootsTyped, RootsRecord
  <2>4. RootsTyped(w)
    BY <1>2, <2>1, <2>3 DEF RootsTyped
  <2>5. Keeps(w, q)
    BY <2>2, <2>4, OtherFields
  <2>6. /\ RootsTyped(q) /\ q.loaded = roots.loaded /\ q.entered = roots.entered \cup {t}
        /\ q.abandoned = roots.abandoned
        /\ \A x \in At : \A y : Placed(q, x, y) <=> Placed(roots, x, y)
    BY <2>1, <2>3, <2>5 DEF Keeps, Same, Placed
  <2>7. t \in Unit /\ t \notin Units(roots) /\ Units(roots) \subseteq Unit
    BY <1>1, <1>2, UnitsAre, LoadingAssumption DEF RootsTyped, Units, Unit
  <2>8. /\ q.loaded \cup q.entered = Units(roots) \cup {t}
        /\ roots.loaded \subseteq q.loaded /\ roots.entered \subseteq q.entered
    BY <2>6 DEF Units
  <2>9. PICK none : none = <<>>
    OBVIOUS
  <2>10. none \in Seq(Frames) /\ Whole(Program, roots, none)
    BY <1>2, <2>9
  <2>11. Whole(Program, q, Append(none, Frame(t)))
    BY <2>6, <2>7, <2>8, <2>10, ProgramsAre, PushedWhole
  <2>12. loads' = Append(none, Frame(t))
    BY <2>2, <2>9
  <2> QED
    BY <1>1, <1>2, <2>1, <2>2, <2>6, <2>11, <2>12, WInvFrom
<1>4. CASE ~TextParses(t)
  <2>1. roots' = roots /\ loads' = loads
    BY <1>4 DEF LoadInteractiveProgramText, RollbackText
  <2> QED
    BY <1>1, <1>2, <2>1, WInvFrom
<1> QED
  BY <1>3, <1>4

\* A file that is not loaded is written again: the statements of the units
\* that were taken in stay.
LEMMA EditWhole ==
  ASSUME WInv, NEW f \in File, Edit(f)
  PROVE  WInv'
<1>1. PICK c \in Contents[f] : source' = [source EXCEPT ![f] = c]
  BY DEF Edit
<1>2. loads = <<>> /\ f \notin roots.loaded /\ roots' = roots /\ loads' = loads
  BY DEF Edit, AtRest
<1>3. f \in Unit /\ f \notin Units(roots) /\ Units(roots) \subseteq Unit
  BY <1>2, NewFile, UnitsAre DEF WInv
<1>4. /\ source' \in [Unit -> UNION {Contents[u] : u \in Unit}]
      /\ \A u \in Unit : source'[u] \in Contents[u]
      /\ \A u \in Unit : u # f => source'[u] = source[u]
  BY <1>1, <1>3 DEF WInv
<1>5. PICK st, new : st = Program /\ new = Program'
  OBVIOUS
<1>6. \A u \in Unit : u # f => new[u] = st[u]
  BY <1>4, <1>5 DEF Program, Statements
<1>7. Whole(st, roots, loads)
  BY <1>5 DEF WInv
<1>8. \A u \in Units(roots) : Complete(st, roots, u) => Complete(new, roots, u)
  BY <1>3, <1>6 DEF Complete
<1>9. Len(loads) = 0
  BY <1>2
<1>10. Whole(new, roots, loads)
  BY <1>7, <1>8, <1>9 DEF Whole
<1> QED
  BY <1>2, <1>4, <1>5, <1>10 DEF WInv

LEMMA InitWInv == Init => WInv
<1> SUFFICES ASSUME Init PROVE WInv
  OBVIOUS
<1>1. /\ roots = NoRoots /\ loads = <<>>
      /\ source \in [Unit -> UNION {Contents[u] : u \in Unit}]
      /\ \A u \in Unit : source[u] \in Contents[u]
  BY DEF Init
<1>2. /\ RootsRecord(NoRoots)
      /\ NoRoots.clauses = [n \in Name |-> <<>>] /\ NoRoots.classes = [n \in Name |-> Unbound]
      /\ NoRoots.entries = <<>> /\ NoRoots.facts = {} /\ NoRoots.loaded = {}
      /\ NoRoots.entered = {}
  BY DEF NoRoots, RootsRecord
<1>3. RootsTyped(NoRoots)
  <2>1. <<>> \in Seq(Clause) /\ <<>> \in Seq(At)
    OBVIOUS
  <2> QED
    BY <1>2, <2>1 DEF RootsTyped
<1>4. \A o \in At : \A y : ~Placed(NoRoots, o, y)
  <2> SUFFICES ASSUME NEW o \in At, NEW y PROVE ~Placed(NoRoots, o, y)
    OBVIOUS
  <2>1. o # Unbound
    BY PlaceIsBound
  <2>2. DOMAIN <<>> = {}
    OBVIOUS
  <2> QED
    BY <1>2, <2>1, <2>2 DEF Placed, ClausePlace, ClassPlace, EntryPlace, FactPlace
<1>5. Whole(Program, NoRoots, <<>>)
  BY <1>2, <1>4 DEF Whole, Known, Units
<1> QED
  BY <1>1, <1>3, <1>5 DEF WInv

LEMMA NextWInv == IInv /\ WInv /\ [Next]_vars => WInv'
<1> SUFFICES ASSUME IInv, WInv, [Next]_vars PROVE WInv'
  OBVIOUS
<1>1. CASE LoadStep
  <2>1. loads # <<>> /\ source' = source
    BY <1>1 DEF LoadStep, AtRest
  <2>2. CannotOpen => WInv'
    BY <2>1, FailWhole DEF CannotOpen
  <2> QED
    BY <1>1, <2>1, <2>2, ParseNextWhole, AddImportWhole, LoadImportedWhole,
       AddStatementWhole, EvaluateWhole, FinishWhole DEF LoadStep
<1>2. CASE \E f \in File : LoadProgramRoot(f)
  BY <1>2, LoadProgramRootWhole
<1>3. CASE \E t \in Text : LoadInteractiveProgramText(t)
  BY <1>3, LoadInteractiveProgramTextWhole
<1>4. CASE \E n \in Name : Ask(n)
  BY <1>4, AskWhole
<1>5. CASE StartThread \/ EndThread \/ UNCHANGED vars
  <2>1. UNCHANGED <<source, roots, saved, loads>>
    BY <1>5 DEF StartThread, EndThread, vars
  <2> QED
    BY <2>1, WInvFrom DEF WInv
<1>6. CASE \E f \in File : Edit(f)
  BY <1>6, EditWhole
<1> QED
  BY <1>1, <1>2, <1>3, <1>4, <1>5, <1>6 DEF Next

\* Between loads every statement of every file and text that was taken in is
\* in effect in exactly one place, its imports are loaded, and nothing else is
\* in effect: whichever units import each other, whatever the lookup of a
\* package loads in the middle of a statement, and whatever loads fail or are
\* caught.  A file whose load a `try' cut short is left out, as WholeFiles says.
THEOREM WholeFilesHolds == Spec => []WholeFiles
<1>1. WInv => WholeFiles
  <2> SUFFICES ASSUME WInv, loads = <<>> PROVE WholeFiles
    BY DEF WholeFiles, AtRest
  <2>1. Whole(Program, roots, <<>>) /\ RootsTyped(roots)
    BY DEF WInv
  <2>2. ASSUME NEW u \in (roots.loaded \cup roots.entered) \ roots.abandoned,
               NEW i \in DOMAIN Statements(u)
        PROVE  /\ Statements(u)[i].kind = "import" => Imported(roots, Statements(u)[i].from)
               /\ Statements(u)[i].kind # "import" => Cardinality(Places(roots, <<u, i>>)) = 1
    <3>1. u \in Unit /\ u \in Units(roots) \ roots.abandoned
      BY <2>1, UnitsAre DEF Units
    <3>2. Program[u] = Statements(u) /\ Program[u] \in Seq(Declaration)
      BY <3>1, ProgramsAre DEF Program, Programs
    <3>3. i \in 1..Len(Program[u])
      BY <3>2
    <3>4. Complete(Program, roots, u)
      <4>1. Len(<<>>) = 0
        OBVIOUS
      <4> QED
        BY <2>1, <3>1, <4>1 DEF Whole
    <3>5. Taken(Statements(u)[i], roots, <<u, i>>)
      BY <3>2, <3>3, <3>4 DEF Complete
    <3>6. ASSUME Once(roots, <<u, i>>) PROVE Cardinality(Places(roots, <<u, i>>)) = 1
      <4>1. PICK p : \A y : Placed(roots, <<u, i>>, y) <=> y = p
        BY <3>6 DEF Once
      <4>2. \A y : y \in Places(roots, <<u, i>>) <=> y = p
        BY <4>1, PlacesAre
      <4>3. Places(roots, <<u, i>>) = {p}
        BY <4>2
      <4> QED
        BY <4>3, FS_Singleton
    <3> QED
      BY <3>5, <3>6 DEF Taken
  <2>3. ASSUME NEW o \in InEffect(roots)
        PROVE  o[1] \in roots.loaded \cup roots.entered
    <3>1. o \in At /\ Places(roots, o) # {}
      BY <2>1, InEffectPlaced
    <3>2. PICK y : Placed(roots, o, y)
      BY <3>1, PlacesAre
    <3> QED
      BY <2>1, <3>1, <3>2 DEF Whole, Known, Units
  <2> QED
    BY <2>2, <2>3 DEF WholeFiles
<1>2. IInv /\ WInv /\ [Next]_vars => IInv' /\ WInv'
  BY NextIInv, NextWInv
<1> QED
  BY <1>1, <1>2, InitIInv, InitWInv, PTL DEF Spec
===============================================================================
