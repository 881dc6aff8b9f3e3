--------------------------- MODULE InterpreterProofs ---------------------------
(***************************************************************************)
(* The safety of an interpreter: of its threads and the mutex they share   *)
(* (ThreadTasks), for any number of threads and statements, and whether or *)
(* not entry calls wait for threads; and of its solver (GoalSolver), for   *)
(* every program: what a program leaves behind, whatever unification and   *)
(* renaming compute, and which bindings a goal still sees, when            *)
(* unification extends the environments it is for.                         *)
(***************************************************************************)
EXTENDS ThreadTasks, GoalSolver, FiniteSetTheorems, SequenceTheorems, TLAPS

\* The mutex is held from step to step by module loads only.
HeldByLoads == owner # Free => loading

ThreadsInv == TypeOK /\ HeldByLoads /\ ThreadsEndFirst /\ ClosesUnlocked

------------------------------------------------------------------------------

LEMMA InitThreadsInv == ThreadsInit => ThreadsInv
<1> SUFFICES ASSUME ThreadsInit PROVE ThreadsInv
  OBVIOUS
<1> USE InterpAssumption, BoundAssumption DEF ThreadsInit
<1>1. TypeOK
  <2>1. at \in [Interp -> {"absent", "opening", "running", "inserting",
                           "entering", "joining", "closing", "gone"}]
    OBVIOUS
  <2>2. left \in [Interp -> 0 .. MaxStatements]
    OBVIOUS
  <2> QED
    BY <2>1, <2>2 DEF TypeOK, Interp
<1>2. HeldByLoads /\ ClosesUnlocked
  BY DEF HeldByLoads, ClosesUnlocked
<1>3. ThreadsEndFirst
  BY DEF ThreadsEndFirst, Interp
<1> QED
  BY <1>1, <1>2, <1>3 DEF ThreadsInv

\* The type invariant is inductive by itself.
LEMMA StepTypeOK == TypeOK /\ [ThreadsNext]_threadVars => TypeOK'
<1> SUFFICES ASSUME TypeOK, [ThreadsNext]_threadVars
             PROVE  TypeOK'
  OBVIOUS
<1> USE DEF TypeOK
<1>1. CASE UNCHANGED threadVars
  BY <1>1 DEF threadVars, store, tasks
<1>2. ASSUME NEW i \in Interp, RequestWrite(i) \/ RequestLoad(i)
      PROVE  TypeOK'
  <2>1. left[i] - 1 \in 0 .. MaxStatements
    BY <1>2, BoundAssumption DEF RequestWrite, RequestLoad, Execute
  <2> QED
    BY <1>2, <2>1 DEF RequestWrite, RequestLoad, Execute, Move, store, tasks
<1>3. ASSUME NEW i \in Interp, Insert(i)
      PROVE  TypeOK'
  BY <1>3 DEF Insert, Move, store, tasks
<1>4. ASSUME NEW i \in Interp, BeginModule(i) \/ CommitModule(i)
      PROVE  TypeOK'
  <2>1. CASE BeginModule(i)
    BY <2>1 DEF BeginModule, Move, tasks
  <2>2. CASE CommitModule(i)
    BY <2>2 DEF CommitModule, tasks
  <2> QED
    BY <1>4, <2>1, <2>2
<1>5. ASSUME NEW i \in Interp, NEW t \in Task,
             CreateThreadTask(i, t) \/ StartThreadTask(i, t)
      PROVE  TypeOK'
  BY <1>5
  DEF CreateThreadTask, StartThreadTask, Move, store, Interp
<1>6. ASSUME NEW i \in Interp, NEW t \in Task, ThreadTaskResult(i, t)
      PROVE  TypeOK'
  <2>1. left[i] - 1 \in 0 .. MaxStatements
    BY <1>6, BoundAssumption DEF ThreadTaskResult, Execute
  <2> QED
    BY <1>6, <2>1 DEF ThreadTaskResult, Execute, Move, store, tasks, Interp
<1>7. ASSUME NEW i \in Interp, Joined(i) \/ Finish(i) \/ Close(i)
      PROVE  TypeOK'
  BY <1>7 DEF Joined, Finish, Close, Move, store, tasks
<1>8. ASSUME NEW i \in Interp, Fail(i)
      PROVE  TypeOK'
  BY <1>8 DEF Fail, AbandonLoad, Move, store, tasks
<1>9. ASSUME NEW t \in Task, OpenDatabase(t)
      PROVE  TypeOK'
  BY <1>9 DEF OpenDatabase, Move, store, tasks, Interp
<1> QED
  BY <1>1, <1>2, <1>3, <1>4, <1>5, <1>6, <1>7, <1>8, <1>9 DEF ThreadsNext, Step

\* An interpreter that is at work and moves on without ending lets no thread
\* outlive it.
LEMMA MoveKeepsOrder ==
    ASSUME TypeOK, ThreadsEndFirst, UNCHANGED parent,
           NEW i \in Interp, at[i] \notin {"absent", "gone"},
           NEW where, where # "gone", Move(i, where)
    PROVE  ThreadsEndFirst'
<1> SUFFICES ASSUME NEW t \in Task, parent[t] # NoParent, at'[parent[t]] = "gone"
             PROVE  at'[t] \in {"absent", "gone"}
  BY DEF ThreadsEndFirst
<1>1. parent[t] \in Interp /\ t \in Interp
  BY DEF TypeOK, Interp
<1>2. parent[t] # i /\ at[parent[t]] = "gone"
  BY <1>1 DEF Move, TypeOK
<1>3. at[t] \in {"absent", "gone"}
  BY <1>2 DEF ThreadsEndFirst
<1> QED
  BY <1>1, <1>3 DEF Move, TypeOK

LEMMA StepThreadsInv == ThreadsInv /\ [ThreadsNext]_threadVars => ThreadsInv'
<1> SUFFICES ASSUME ThreadsInv, [ThreadsNext]_threadVars
             PROVE  HeldByLoads' /\ ThreadsEndFirst' /\ ClosesUnlocked'
  BY StepTypeOK DEF ThreadsInv
<1> USE InterpAssumption
    DEF ThreadsInv, TypeOK, HeldByLoads, ThreadsEndFirst, ClosesUnlocked, Loading
<1>1. CASE UNCHANGED threadVars
  BY <1>1 DEF threadVars, store, tasks
<1>2. ASSUME NEW i \in Interp, RequestWrite(i) \/ RequestLoad(i)
      PROVE  HeldByLoads' /\ ThreadsEndFirst' /\ ClosesUnlocked'
  <2>1. HeldByLoads' /\ ClosesUnlocked'
    BY <1>2 DEF RequestWrite, RequestLoad, Execute, Move, store
  <2>2. CASE RequestWrite(i)
    BY <2>1, <2>2, MoveKeepsOrder DEF RequestWrite, Execute, tasks
  <2>3. CASE RequestLoad(i)
    BY <2>1, <2>3, MoveKeepsOrder DEF RequestLoad, Execute, tasks
  <2> QED
    BY <1>2, <2>2, <2>3
<1>3. ASSUME NEW i \in Interp, Insert(i)
      PROVE  HeldByLoads' /\ ThreadsEndFirst' /\ ClosesUnlocked'
  BY <1>3 DEF Insert, Move, store, tasks
<1>4. ASSUME NEW i \in Interp, BeginModule(i) \/ CommitModule(i)
      PROVE  HeldByLoads' /\ ThreadsEndFirst' /\ ClosesUnlocked'
  <2>1. HeldByLoads' /\ ClosesUnlocked'
    BY <1>4 DEF BeginModule, CommitModule, Move, tasks
  <2>2. CASE BeginModule(i)
    BY <2>1, <2>2, MoveKeepsOrder DEF BeginModule, tasks
  <2>3. CASE CommitModule(i)
    BY <2>1, <2>3 DEF CommitModule, tasks
  <2> QED
    BY <1>4, <2>2, <2>3
<1>5. ASSUME NEW i \in Interp, NEW t \in Task, CreateThreadTask(i, t)
      PROVE  HeldByLoads' /\ ThreadsEndFirst' /\ ClosesUnlocked'
  BY <1>5 DEF CreateThreadTask, store
<1>6. ASSUME NEW i \in Interp, NEW t \in Task, StartThreadTask(i, t)
      PROVE  HeldByLoads' /\ ThreadsEndFirst' /\ ClosesUnlocked'
  <2>1. HeldByLoads' /\ ClosesUnlocked'
    BY <1>6 DEF StartThreadTask, Move, store, Interp
  <2>2. parent[t] = i /\ at[i] = "running" /\ t \in Interp
    BY <1>6 DEF StartThreadTask, Interp
  <2>3. at' = [at EXCEPT ![t] = "opening"] /\ parent' = parent
    BY <1>6 DEF StartThreadTask, Move
  <2>4. ASSUME NEW u \in Task, parent[u] # NoParent, at'[parent[u]] = "gone"
        PROVE  at'[u] \in {"absent", "gone"}
    <3>1. parent[u] \in Interp /\ u \in Interp
      BY <2>4 DEF Interp
    <3>2. at[parent[u]] = "gone" /\ u # t
      BY <2>2, <2>3, <2>4, <3>1
    <3> QED
      BY <2>3, <2>4, <3>1, <3>2
  <2> QED
    BY <2>1, <2>3, <2>4
<1>7. ASSUME NEW i \in Interp, NEW t \in Task, ThreadTaskResult(i, t)
      PROVE  HeldByLoads' /\ ThreadsEndFirst' /\ ClosesUnlocked'
  <2>1. HeldByLoads' /\ ClosesUnlocked'
    BY <1>7 DEF ThreadTaskResult, Execute, Move, store
  <2>2. CASE at' = at
    BY <1>7, <2>1, <2>2 DEF ThreadTaskResult, tasks
  <2>3. CASE Move(i, "joining")
    BY <1>7, <2>1, <2>3, MoveKeepsOrder DEF ThreadTaskResult, Execute, tasks
  <2> QED
    BY <1>7, <2>2, <2>3 DEF ThreadTaskResult
<1>8. ASSUME NEW i \in Interp, Joined(i) \/ Finish(i)
      PROVE  HeldByLoads' /\ ThreadsEndFirst' /\ ClosesUnlocked'
  <2>1. HeldByLoads' /\ ClosesUnlocked'
    BY <1>8 DEF Joined, Finish, Move, store, tasks
  <2>2. CASE Joined(i)
    BY <2>1, <2>2, MoveKeepsOrder DEF Joined, tasks
  <2>3. CASE Finish(i)
    BY <2>1, <2>3, MoveKeepsOrder DEF Finish
  <2> QED
    BY <1>8, <2>2, <2>3
<1>9. ASSUME NEW i \in Interp, Fail(i)
      PROVE  HeldByLoads' /\ ThreadsEndFirst' /\ ClosesUnlocked'
  <2>1. HeldByLoads' /\ ClosesUnlocked'
    BY <1>9 DEF Fail, AbandonLoad, Move, store
  <2>2. ThreadsEndFirst'
    BY <1>9, MoveKeepsOrder DEF Fail, tasks
  <2> QED
    BY <2>1, <2>2
<1>10. ASSUME NEW i \in Interp, Close(i)
       PROVE  HeldByLoads' /\ ThreadsEndFirst' /\ ClosesUnlocked'
  <2>1. HeldByLoads' /\ ClosesUnlocked'
    BY <1>10 DEF Close, Move, store
  <2>2. at' = [at EXCEPT ![i] = "gone"] /\ parent' = parent
    BY <1>10 DEF Close, Move
  <2>3. ASSUME NEW t \in Task, parent[t] # NoParent, at'[parent[t]] = "gone"
        PROVE  at'[t] \in {"absent", "gone"}
    <3>1. parent[t] \in Interp /\ t \in Interp
      BY <2>3 DEF Interp
    <3>2. at[t] \in {"absent", "gone"}
      BY <1>10, <2>2, <2>3, <3>1 DEF Close, JoinedThreads
    <3> QED
      BY <2>2, <3>1, <3>2
  <2> QED
    BY <2>1, <2>2, <2>3
<1>11. ASSUME NEW t \in Task, OpenDatabase(t)
       PROVE  HeldByLoads' /\ ThreadsEndFirst' /\ ClosesUnlocked'
  BY <1>11 DEF OpenDatabase, Move, store, tasks, Interp
<1> QED
  BY <1>1, <1>2, <1>3, <1>4, <1>5, <1>6, <1>7, <1>8, <1>9, <1>10, <1>11
  DEF ThreadsNext, Step

LEMMA ThreadsInvariance == ThreadsSpec => []ThreadsInv
BY InitThreadsInv, StepThreadsInv, PTL DEF ThreadsSpec

------------------------------------------------------------------------------

\* The variables keep their types.
THEOREM ThreadsTypeCorrect == ThreadsSpec => []TypeOK
<1>1. ThreadsInv => TypeOK
  BY DEF ThreadsInv
<1> QED
  BY ThreadsInvariance, <1>1, PTL

\* No thread outlives the interpreter that started it: joinThreads in
\* ~Interpreter.
THEOREM ThreadsEndFirstHolds == ThreadsSpec => []ThreadsEndFirst
<1>1. ThreadsInv => ThreadsEndFirst
  BY DEF ThreadsInv
<1> QED
  BY ThreadsInvariance, <1>1, PTL

\* An interpreter in its destructor does not hold writeMutex: the rollbacks of
\* loadProgramFile and withStoreTransaction.
THEOREM ClosesUnlockedHolds == ThreadsSpec => []ClosesUnlocked
<1>1. ThreadsInv => ClosesUnlocked
  BY DEF ThreadsInv
<1> QED
  BY ThreadsInvariance, <1>1, PTL

------------------------------------------------------------------------------
(* Finite sets, numbers and sequences *)

\* The sets of subsets of S, except the empty one.
Families(S) == (SUBSET SUBSET S) \ {{}}

\* Of finitely many elements: among some of their sets there is one that
\* has none of the others inside.
LEMMA SmallestSet ==
    ASSUME NEW S, IsFiniteSet(S), NEW F \in Families(S)
    PROVE  \E A \in F : \A B \in F : B \subseteq A => B = A
  <1>1. F \subseteq FiniteSubsetsOf(S) /\ F # {}
    BY FS_FiniteSubsetsOfFinite DEF Families
  <1>2. PICK A \in F : \A B \in F : ~(<<B, A>> \in StrictSubsetOrdering(S))
    BY <1>1, FS_StrictSubsetOrderingWellFounded, WFMin
  <1>. QED
    BY <1>2 DEF StrictSubsetOrdering, Families

\* Finitely many numbers have a smallest one.
LEMMA MinNat ==
    ASSUME NEW S \in SUBSET Nat, IsFiniteSet(S), S # {}
    PROVE  \E m \in S : \A n \in S : m <= n
  <1>1. PICK G : G = {{k \in S : k <= n} : n \in S}
    OBVIOUS
  <1>2. G \in Families(S)
    <2>1. PICK n \in S : TRUE
      OBVIOUS
    <2>2. {k \in S : k <= n} \in G
      BY <1>1, <2>1
    <2>3. \A C \in G : C \subseteq S
      BY <1>1
    <2>. QED
      BY <2>2, <2>3, Zenon DEF Families
  <1>3. PICK A \in G : \A B \in G : B \subseteq A => B = A
    BY <1>2, SmallestSet
  <1>4. PICK m \in S : A = {k \in S : k <= m}
    BY <1>1
  <1>5. ASSUME NEW n \in S, ~(m <= n)
        PROVE  FALSE
    <2>0. PICK B : B = {k \in S : k <= n}
      OBVIOUS
    <2>1. B \in G
      BY <1>1, <2>0
    <2>4. B \subseteq A
      <3>1. m \in Nat /\ n \in Nat /\ S \subseteq Nat
        OBVIOUS
      <3>2. \A k \in S : k <= n => k <= m
        BY <3>1, <1>5
      <3>. QED
        BY <2>0, <1>4, <3>2
    <2>2. B = A
      BY <1>3, <2>4, <2>1
    <2>3. m \in B
      BY <2>2, <1>4
    <2>. QED
      BY <1>5, <2>3, <2>0
  <1>. QED
    BY <1>5

IsASequence(s) == s \in Seq(Range(s))

\* A sequence has its elements at 1 to its length.
LEMMA SequenceOfElements ==
    ASSUME NEW s, IsASequence(s)
    PROVE  \E n \in Nat : n = Len(s) /\ DOMAIN s = 1 .. n /\ \A i \in 1 .. n : s[i] \in Range(s)
  BY DEF IsASequence

\* Whatever the elements are of, a sequence is one.
LEMMA AnySequence ==
    ASSUME NEW S, NEW s \in Seq(S)
    PROVE  IsASequence(s)
  <1>1. PICK n \in Nat : n = Len(s) /\ DOMAIN s = 1 .. n /\ s = [i \in 1 .. n |-> s[i]]
    OBVIOUS
  <1>2. \A i \in 1 .. n : s[i] \in Range(s)
    BY <1>1 DEF Range
  <1>. QED
    BY <1>1, <1>2 DEF IsASequence

\* A sequence over a set is one over a larger set.
LEMMA WiderSequence ==
    ASSUME NEW S, NEW T, S \subseteq T, NEW s \in Seq(S)
    PROVE  s \in Seq(T)
  <1>1. PICK k \in Nat : DOMAIN s = 1 .. k /\ s \in [1 .. k -> S]
    OBVIOUS
  <1>2. s \in [1 .. k -> T]
    BY <1>1
  <1>. QED
    BY <1>1, <1>2

\* One sequence after the other.
LEMMA Concatenated ==
    ASSUME NEW s, IsASequence(s), NEW t, IsASequence(t)
    PROVE  /\ IsASequence(s \o t) /\ Len(s \o t) = Len(s) + Len(t)
           /\ \A i \in 1 .. Len(s) : (s \o t)[i] = s[i]
           /\ \A i \in 1 .. Len(s) + Len(t) :
                  i \notin 1 .. Len(s) => i - Len(s) \in 1 .. Len(t) /\ (s \o t)[i] = t[i - Len(s)]
  <1>1. PICK S : S = Range(s) \cup Range(t)
    OBVIOUS
  <1>2. s \in Seq(S) /\ t \in Seq(S)
    BY <1>1, WiderSequence DEF IsASequence
  <1>3. PICK m \in Nat, n \in Nat : /\ m = Len(s) /\ DOMAIN s = 1 .. m
                                    /\ n = Len(t) /\ DOMAIN t = 1 .. n
    BY <1>2
  <1>4. PICK r \in Seq(S) : r = s \o t
    <2>1. s \o t \in Seq(S)
      BY <1>2, ConcatProperties
    <2>. QED
      BY <2>1
  <1>5. /\ Len(r) = m + n
        /\ \A i \in 1 .. m + n : r[i] = IF i <= m THEN s[i] ELSE t[i - m]
    <2>1. /\ Len(s \o t) = Len(s) + Len(t)
          /\ \A i \in 1 .. Len(s) + Len(t) :
                 (s \o t)[i] = IF i <= Len(s) THEN s[i] ELSE t[i - Len(s)]
      BY <1>2, ConcatProperties
    <2>. QED
      BY <1>3, <1>4, <2>1
  <1>6. IsASequence(r)
    BY AnySequence
  <1>7. \A i \in 1 .. m : r[i] = s[i]
    BY <1>5
  <1>8. \A i \in 1 .. m + n : i \notin 1 .. m => i - m \in 1 .. n /\ r[i] = t[i - m]
    BY <1>5
  <1>. QED
    BY <1>3, <1>4, <1>5, <1>6, <1>7, <1>8

------------------------------------------------------------------------------
(* The solver: what is on its stack, and what each activation waits for *)

\* The activation at a height, counted from the outermost, and the goal it is at.
Activation(stack, h) == stack[Len(stack) - h + 1]
GoalAt(stack, h) == Head(Head(Activation(stack, h).work).gs)

\* The goals that wait for the value of an expression; a comparison that does
\* so has its trail.
ByValue == {"assign", "typed", "expr", "where", "for", "switch"}
Marked(trails, h) == \E i \in DOMAIN trails : trails[i].at = h
Waits(stack, trails, h) ==
    h # 0 => /\ GoalAt(stack, h).k \in ByValue
             /\ GoalAt(stack, h).k = "where" /\ GoalAt(stack, h).op = "ne" => Marked(trails, h)

\* Who has called a method fits what the activations up to h are doing.
Owned(stack, trails, o, h) ==
    \/ o.k = "main" /\ h = 0
    \/ o.k = "goal" /\ h # 0
    \/ o.k = "value" /\ Waits(stack, trails, h)

\* What happens next, or what an activation was opened for, fits what the
\* activations up to h are doing.
Inside == {"solve", "clauses", "rows", "for", "while", "switch", "try", "catch", "not", "scan"}
ForValue == {"value", "novalue", "once", "infer", "called"}
OfMethod == {"returned", "failed", "prelude", "guard", "fallback", "body", "truth"}
Fits(stack, trails, x, h) ==
    \/ x.k \in Inside /\ h # 0
    \/ x.k \in ForValue /\ Waits(stack, trails, h)
    \/ x.k \in OfMethod /\ Owned(stack, trails, x.mr.owner, h)
    \/ x.k = "method" /\ Owned(stack, trails, x.owner, h)
    \/ x.k = "throw"

Whys == {"for", "while", "switch", "try", "catch", "not", "scan", "infer", "called",
         "prelude", "guard", "fallback", "body", "truth"}

IsActivation(a) ==
    a \in [work : {a.work}, out : {a.out}, max : {a.max}, start : {a.start}, why : {a.why},
           mode : {a.mode}, negated : {a.negated}]

Placed(stack, trails, h) ==
    /\ IsActivation(Activation(stack, h))
    /\ Activation(stack, h).why.k \in Whys
    /\ Fits(stack, trails, Activation(stack, h).why, h - 1)

\* The trails of inner activations come first.
Ordered(trails, n) ==
    /\ IsASequence(trails)
    /\ \A i \in DOMAIN trails : trails[i] \in [at : 1 .. n, envs : SUBSET Nat]
    /\ \A i, j \in DOMAIN trails : i <= j => trails[j].at <= trails[i].at

\* The outermost activation has found no negation.
FoundOutside(stack, negated) == IF stack = <<>> THEN negated ELSE Activation(stack, 1).negated

Sound(stack, trails, negated) ==
    /\ IsASequence(stack)
    /\ \A h \in 1 .. Len(stack) : Placed(stack, trails, h)
    /\ Ordered(trails, Len(stack))
    /\ FoundOutside(stack, negated) = {}

IsMachine(m) ==
    m \in [stack : {m.stack}, now : {m.now}, mode : {m.mode}, negated : {m.negated},
           trails : {m.trails}, log : {m.log}, next : {m.next}, result : {m.result}]

\* A machine between two steps; one that is still at work; and one that has ended.
Balanced(m) == IsMachine(m) /\ Sound(m.stack, m.trails, m.negated) /\ m.result = Pending
Good(m) ==
    /\ IsMachine(m)
    /\ Sound(m.stack, m.trails, m.negated)
    /\ Fits(m.stack, m.trails, m.now, Len(m.stack))
    /\ m.result # Pending => m.stack = <<>>

MachineInv == Good(machine)

------------------------------------------------------------------------------
(* Stacks and trails *)

LEMMA EmptySequence ==
    ASSUME NEW s, IsASequence(s), Len(s) = 0
    PROVE  s = <<>>
  BY DEF IsASequence

\* One element before a sequence.
LEMMA OneMore ==
    ASSUME NEW s, IsASequence(s), NEW a, NEW n \in Nat, n = Len(s)
    PROVE  /\ IsASequence(<<a>> \o s) /\ Len(<<a>> \o s) = n + 1 /\ (<<a>> \o s)[1] = a
           /\ \A i \in 1 .. n + 1 : i # 1 => i - 1 \in 1 .. n /\ (<<a>> \o s)[i] = s[i - 1]
  <1>1. IsASequence(<<a>>) /\ Len(<<a>>) = 1 /\ <<a>>[1] = a
    <2>1. <<a>> \in Seq({a})
      OBVIOUS
    <2>. QED
      BY <2>1, AnySequence
  <1>2. PICK r : r = <<a>> \o s
    OBVIOUS
  <1>3. /\ IsASequence(r) /\ Len(r) = 1 + n
        /\ \A i \in 1 .. 1 : r[i] = <<a>>[i]
        /\ \A i \in 1 .. 1 + n : i \notin 1 .. 1 => i - 1 \in 1 .. n /\ r[i] = s[i - 1]
    BY <1>1, <1>2, Concatenated
  <1>4. r[1] = a
    BY <1>1, <1>3
  <1>5. \A i \in 1 .. n + 1 : i # 1 => i - 1 \in 1 .. n /\ r[i] = s[i - 1]
    BY <1>3
  <1>. QED
    BY <1>2, <1>3, <1>4, <1>5

LEMMA PushedStack ==
    ASSUME NEW s, IsASequence(s), NEW a, NEW n \in Nat, n = Len(s)
    PROVE  /\ IsASequence(<<a>> \o s) /\ Len(<<a>> \o s) = n + 1 /\ <<a>> \o s # <<>>
           /\ Head(<<a>> \o s) = a /\ Activation(<<a>> \o s, n + 1) = a
           /\ \A h \in 1 .. n : Activation(<<a>> \o s, h) = Activation(s, h)
  <1>1. PICK r : r = <<a>> \o s
    OBVIOUS
  <1>2. /\ IsASequence(r) /\ Len(r) = n + 1 /\ r[1] = a
        /\ \A i \in 1 .. n + 1 : i # 1 => i - 1 \in 1 .. n /\ r[i] = s[i - 1]
    BY <1>1, OneMore
  <1>3. ASSUME NEW h \in 1 .. n
        PROVE  Activation(r, h) = Activation(s, h)
    <2>1. PICK i \in 1 .. n + 1 : i = n + 1 - h + 1 /\ i # 1 /\ i - 1 = n - h + 1
      OBVIOUS
    <2>. QED
      BY <1>2, <2>1 DEF Activation
  <1>4. Activation(r, n + 1) = a
    BY <1>2 DEF Activation
  <1>5. r # <<>> /\ Head(r) = a
    BY <1>2, SequenceOfElements
  <1>. QED
    BY <1>1, <1>2, <1>3, <1>4, <1>5

LEMMA TailStack ==
    ASSUME NEW s, IsASequence(s), s # <<>>
    PROVE  \E n \in Nat \ {0} :
              /\ n = Len(s) /\ IsASequence(Tail(s)) /\ Len(Tail(s)) = n - 1
              /\ Head(s) = Activation(s, n)
              /\ \A h \in 1 .. n - 1 : Activation(Tail(s), h) = Activation(s, h)
  <1>1. PICK S : s \in Seq(S)
    BY DEF IsASequence
  <1>2. PICK n \in Nat \ {0} : n = Len(s)
    BY <1>1
  <1>3. PICK t : t = Tail(s)
    OBVIOUS
  <1>4. t \in Seq(S) /\ Len(t) = n - 1 /\ \A i \in 1 .. n - 1 : t[i] = s[i + 1]
    <2>1. /\ Tail(s) \in Seq(S) /\ Len(Tail(s)) = Len(s) - 1
          /\ \A i \in 1 .. Len(Tail(s)) : Tail(s)[i] = s[i + 1]
      BY <1>1, HeadTailProperties
    <2>. QED
      BY <1>2, <1>3, <2>1
  <1>5. ASSUME NEW h \in 1 .. n - 1
        PROVE  Activation(t, h) = Activation(s, h)
    <2>1. PICK i \in 1 .. n - 1 : i = n - 1 - h + 1 /\ i + 1 = n - h + 1
      OBVIOUS
    <2>. QED
      BY <1>2, <1>4, <2>1 DEF Activation
  <1>6. IsASequence(t)
    BY <1>4, AnySequence
  <1>7. Head(s) = Activation(s, n)
    BY <1>1, <1>2 DEF Activation
  <1>. QED
    BY <1>2, <1>3, <1>4, <1>5, <1>6, <1>7

\* What fits still fits when the activations and the marks up to a height stay.
LEMMA FitsOn ==
    ASSUME NEW s, NEW t, NEW T, NEW U, NEW p \in Nat,
           \A h \in 1 .. p : Activation(t, h) = Activation(s, h),
           \A h \in 1 .. p : Marked(T, h) => Marked(U, h),
           NEW h \in 0 .. p, NEW x, Fits(s, T, x, h)
    PROVE  Fits(t, U, x, h)
  <1>1. Waits(s, T, h) => Waits(t, U, h)
    <2>1. CASE h = 0
      BY <2>1 DEF Waits
    <2>2. CASE h \in 1 .. p
      <3>1. GoalAt(t, h) = GoalAt(s, h)
        BY <2>2, Zenon DEF GoalAt
      <3>. QED
        BY <2>2, <3>1, Zenon DEF Waits
    <2>. QED
      BY <2>1, <2>2
  <1>2. \A o : Owned(s, T, o, h) => Owned(t, U, o, h)
    BY <1>1, Zenon DEF Owned
  <1>. QED
    BY <1>1, <1>2, Zenon DEF Fits

\* Activations stay where they are when those below them and their marks do.
LEMMA PlacedOn ==
    ASSUME NEW s, NEW t, NEW T, NEW U, NEW p \in Nat,
           \A h \in 1 .. p : Activation(t, h) = Activation(s, h),
           \A h \in 1 .. p - 1 : Marked(T, h) => Marked(U, h),
           NEW h \in 1 .. p, Placed(s, T, h)
    PROVE  Placed(t, U, h)
  <1>1. PICK q \in 0 .. p : q = h - 1 /\ q \in 0 .. h - 1 /\ h - 1 \in Nat
    OBVIOUS
  <1>2. PICK a : a = Activation(s, h) /\ a = Activation(t, h)
    OBVIOUS
  <1>3. Fits(s, T, a.why, q) /\ IsActivation(a) /\ a.why.k \in Whys
    BY <1>1, <1>2 DEF Placed
  <1>4. /\ \A i \in 1 .. h - 1 : Activation(t, i) = Activation(s, i)
        /\ \A i \in 1 .. h - 1 : Marked(T, i) => Marked(U, i)
    OBVIOUS
  <1>5. Fits(t, U, a.why, q)
    BY <1>1, <1>3, <1>4, FitsOn
  <1>. QED
    BY <1>1, <1>2, <1>3, <1>5 DEF Placed

\* A new activation on top; the negations it goes on with do not matter.
LEMMA SoundPush ==
    ASSUME NEW s, NEW T, NEW N, Sound(s, T, N), NEW a, IsActivation(a), a.negated = N,
           a.why.k \in Whys, Fits(s, T, a.why, Len(s)), NEW M
    PROVE  Sound(<<a>> \o s, T, M) /\ <<a>> \o s # <<>>
  <1>1. PICK n \in Nat : n = Len(s)
    BY SequenceOfElements DEF Sound
  <1>2. PICK r : r = <<a>> \o s
    OBVIOUS
  <1>3. /\ IsASequence(r) /\ Len(r) = n + 1 /\ r # <<>> /\ Activation(r, n + 1) = a
        /\ \A h \in 1 .. n : Activation(r, h) = Activation(s, h)
    BY <1>1, <1>2, PushedStack DEF Sound
  <1>4. ASSUME NEW h \in 1 .. n + 1
        PROVE  Placed(r, T, h)
    <2>1. CASE h \in 1 .. n
      <3>1. Placed(s, T, h)
        BY <1>1, <2>1 DEF Sound
      <3>. QED
        BY <1>3, <2>1, <3>1, PlacedOn
    <2>2. CASE h = n + 1
      <3>1. n \in 0 .. n /\ (n + 1) - 1 = n /\ Fits(s, T, a.why, n)
        BY <1>1
      <3>2. PICK w : w = a.why
        OBVIOUS
      <3>3. Fits(s, T, w, n)
        BY <3>1, <3>2
      <3>4. Fits(r, T, w, n)
        BY <1>3, <3>1, <3>3, FitsOn
      <3>. QED
        BY <1>3, <2>2, <3>1, <3>2, <3>4 DEF Placed
    <2>. QED
      BY <2>1, <2>2
  <1>5. Ordered(T, n + 1)
    <2>1. [at : 1 .. n, envs : SUBSET Nat] \subseteq [at : 1 .. n + 1, envs : SUBSET Nat]
      OBVIOUS
    <2>2. \A i \in DOMAIN T : T[i] \in [at : 1 .. n + 1, envs : SUBSET Nat]
      BY <1>1, <2>1 DEF Sound, Ordered
    <2>. QED
      BY <1>1, <2>2 DEF Sound, Ordered
  <1>6. Activation(r, 1).negated = {}
    <2>1. CASE n = 0
      <3>1. s = <<>>
        BY <1>1, <2>1, EmptySequence DEF Sound
      <3>. QED
        BY <1>3, <2>1, <3>1 DEF Sound, FoundOutside
    <2>2. CASE n # 0
      <3>1. s # <<>> /\ 1 \in 1 .. n
        BY <1>1, <2>2
      <3>2. Activation(s, 1).negated = {}
        BY <3>1 DEF Sound, FoundOutside
      <3>. QED
        BY <1>3, <3>1, <3>2
    <2>. QED
      BY <2>1, <2>2
  <1>. QED
    BY <1>2, <1>3, <1>4, <1>5, <1>6 DEF Sound, FoundOutside

\* The innermost activation goes on.
LEMMA SoundTop ==
    ASSUME NEW s, NEW T, NEW N, Sound(s, T, N), s # <<>>, NEW a, IsActivation(a),
           a.negated = Head(s).negated, a.why = Head(s).why
    PROVE  /\ Sound(<<a>> \o Tail(s), T, N) /\ <<a>> \o Tail(s) # <<>>
           /\ Len(<<a>> \o Tail(s)) = Len(s)
  <1>1. PICK t : t = Tail(s)
    OBVIOUS
  <1>2. PICK n \in Nat \ {0} :
              /\ n = Len(s) /\ IsASequence(t) /\ Len(t) = n - 1
              /\ Head(s) = Activation(s, n)
              /\ \A h \in 1 .. n - 1 : Activation(t, h) = Activation(s, h)
    BY <1>1, TailStack DEF Sound
  <1>3. PICK r : r = <<a>> \o t
    OBVIOUS
  <1>4. PICK p \in Nat : p = n - 1 /\ p + 1 = n
    OBVIOUS
  <1>5. /\ IsASequence(r) /\ Len(r) = n /\ r # <<>> /\ Activation(r, n) = a
        /\ \A h \in 1 .. n - 1 : Activation(r, h) = Activation(t, h)
    <2>1. /\ IsASequence(r) /\ Len(r) = p + 1 /\ r # <<>> /\ Activation(r, p + 1) = a
          /\ \A h \in 1 .. p : Activation(r, h) = Activation(t, h)
      BY <1>2, <1>3, <1>4, PushedStack
    <2>. QED
      BY <1>4, <2>1
  <1>6. \A h \in 1 .. n - 1 : Activation(r, h) = Activation(s, h)
    BY <1>2, <1>5
  <1>7. ASSUME NEW h \in 1 .. n
        PROVE  Placed(r, T, h)
    <2>0. Placed(s, T, h)
      BY <1>2 DEF Sound
    <2>1. CASE h \in 1 .. p
      BY <1>4, <1>6, <2>0, <2>1, PlacedOn
    <2>2. CASE h = n
      <3>1. Fits(s, T, a.why, p) /\ a.why.k \in Whys
        BY <1>2, <1>4, <2>0, <2>2 DEF Placed
      <3>2. p \in 0 .. p
        OBVIOUS
      <3>3. Fits(r, T, a.why, p)
        <4>1. \A j \in 1 .. p : Activation(r, j) = Activation(s, j)
          BY <1>4, <1>6
        <4>2. PICK why : why = a.why
          OBVIOUS
        <4>3. Fits(r, T, why, p)
          BY <3>1, <3>2, <4>1, <4>2, FitsOn
        <4>. QED
          BY <4>2, <4>3
      <3>4. Activation(r, h) = a /\ h - 1 = p
        BY <1>4, <1>5, <2>2
      <3>. QED
        BY <3>1, <3>3, <3>4 DEF Placed
    <2>. QED
      BY <1>4, <2>1, <2>2
  <1>8. Activation(r, 1).negated = {}
    <2>1. Activation(s, 1).negated = {}
      BY DEF Sound, FoundOutside
    <2>2. CASE n = 1
      BY <1>2, <1>5, <2>1, <2>2
    <2>3. CASE n # 1
      BY <1>6, <2>1, <2>3
    <2>. QED
      BY <2>2, <2>3
  <1>. QED
    BY <1>1, <1>2, <1>3, <1>5, <1>7, <1>8 DEF Sound, FoundOutside

\* Other trails: those of the outer activations must stay.
LEMMA SoundTrails ==
    ASSUME NEW s, NEW T, NEW N, Sound(s, T, N), NEW U, Ordered(U, Len(s)),
           \A h \in 1 .. Len(s) - 1 : Marked(T, h) => Marked(U, h)
    PROVE  Sound(s, U, N)
  <1>1. PICK n \in Nat : n = Len(s)
    BY SequenceOfElements DEF Sound
  <1>2. ASSUME NEW h \in 1 .. n
        PROVE  Placed(s, U, h)
    <2>1. Placed(s, T, h)
      BY <1>1 DEF Sound
    <2>2. \A i \in 1 .. n : Activation(s, i) = Activation(s, i)
      OBVIOUS
    <2>3. \A i \in 1 .. n - 1 : Marked(T, i) => Marked(U, i)
      BY <1>1
    <2>. QED
      BY <2>1, <2>2, <2>3, PlacedOn
  <1>. QED
    BY <1>1, <1>2 DEF Sound

\* What is outside the innermost activation: its trails go, the others stay.
LEMMA OutsideTrails ==
    ASSUME NEW n \in Nat \ {0}, NEW T, Ordered(T, n)
    PROVE  /\ Ordered(Outside(T, n), n - 1)
           /\ \A h \in 1 .. n - 1 : Marked(T, h) => Marked(Outside(T, n), h)
  <1>1. PICK l \in Nat : l = Len(T) /\ DOMAIN T = 1 .. l
    BY SequenceOfElements DEF Ordered
  <1>2. PICK K : K = {i \in DOMAIN T : T[i].at < n}
    OBVIOUS
  <1>3. \A i \in 1 .. l : T[i].at \in 1 .. n /\ T[i].envs \in SUBSET Nat
                          /\ T[i] = [at |-> T[i].at, envs |-> T[i].envs]
    <2>1. \A i \in 1 .. l : T[i] \in [at : 1 .. n, envs : SUBSET Nat]
      BY <1>1 DEF Ordered
    <2>. QED
      BY <2>1
  <1>4. CASE K = {}
    <2>1. Outside(T, n) = <<>>
      BY <1>2, <1>4, Zenon DEF Outside
    <2>2. \A h \in 1 .. n - 1 : ~Marked(T, h)
      BY <1>1, <1>2, <1>4 DEF Marked
    <2>3. <<>> \in Seq({})
      OBVIOUS
    <2>4. IsASequence(<<>>)
      BY <2>3, AnySequence
    <2>5. Ordered(<<>>, n - 1)
      BY <2>4 DEF Ordered
    <2>. QED
      BY <2>1, <2>2, <2>5
  <1>5. CASE K # {}
    <2>1. PICK k : k = Min(K)
      OBVIOUS
    <2>2. k \in K /\ \A i \in K : k <= i
      <3>1. K \in SUBSET Nat /\ K \subseteq 1 .. l
        BY <1>1, <1>2
      <3>2. IsFiniteSet(K)
        <4>1. IsFiniteSet(1 .. l)
          BY FS_Interval
        <4>. QED
          BY <3>1, <4>1, FS_Subset
      <3>3. \E x \in K : \A y \in K : x <= y
        BY <1>5, <3>1, <3>2, MinNat
      <3>. QED
        BY <2>1, <3>3 DEF Min
    <2>3. k \in 1 .. l /\ T[k].at < n
      BY <1>1, <1>2, <2>2
    <2>4. PICK S : S = [at : 1 .. n - 1, envs : SUBSET Nat]
      OBVIOUS
    <2>5. \A i \in k .. l : T[i].at \in 1 .. n - 1
      <3>1. ASSUME NEW i \in k .. l
            PROVE  T[i].at \in 1 .. n - 1
        <4>1. PICK j \in 1 .. l : j = i /\ k <= j
          BY <2>3
        <4>2. T[j].at <= T[k].at
          BY <1>1, <2>3, <4>1 DEF Ordered
        <4>3. T[j].at \in 1 .. n /\ T[k].at \in 1 .. n
          BY <1>3, <2>3
        <4>. QED
          BY <2>3, <4>1, <4>2, <4>3
      <3>. QED
        BY <3>1
    <2>6. ASSUME NEW i \in k .. l
          PROVE  T[i] \in S
      <3>1. i \in 1 .. l
        BY <2>3
      <3>2. T[i].at \in 1 .. n - 1
        BY <2>5
      <3>3. T[i] = [at |-> T[i].at, envs |-> T[i].envs] /\ T[i].envs \in SUBSET Nat
        BY <1>3, <3>1
      <3>. QED
        BY <2>4, <3>2, <3>3
    <2>7. PICK r : r = SubSeq(T, k, l)
      OBVIOUS
    <2>8. /\ r \in Seq(S) /\ Len(r) = l - k + 1
          /\ \A i \in 1 .. l - k + 1 : r[i] = T[k + i - 1]
      BY <2>3, <2>6, <2>7, SubSeqProperties
    <2>9. PICK q \in Nat : q = l - k + 1 /\ DOMAIN r = 1 .. q
      BY <2>3, <2>8
    <2>10. \A i \in 1 .. q : k + i - 1 \in 1 .. l /\ r[i] = T[k + i - 1]
      BY <2>3, <2>8, <2>9
    <2>11. \A i, j \in 1 .. q : i <= j => r[j].at <= r[i].at
      <3>1. ASSUME NEW i \in 1 .. q, NEW j \in 1 .. q, i <= j
            PROVE  r[j].at <= r[i].at
        <4>1. PICK x \in 1 .. l, y \in 1 .. l : x = k + i - 1 /\ y = k + j - 1 /\ x <= y
          BY <2>3, <2>10, <3>1
        <4>2. T[y].at <= T[x].at
          BY <1>1, <4>1 DEF Ordered
        <4>. QED
          BY <2>10, <4>1, <4>2
      <3>. QED
        BY <3>1
    <2>12. ASSUME NEW h \in 1 .. n - 1, Marked(T, h)
           PROVE  Marked(r, h)
      <3>1. PICK i \in 1 .. l : T[i].at = h
        BY <1>1, <2>12 DEF Marked
      <3>2. i \in K /\ k <= i
        BY <1>1, <1>2, <2>2, <3>1
      <3>3. PICK j \in 1 .. q : j = i - k + 1 /\ k + j - 1 = i
        BY <2>3, <2>9, <3>2
      <3>. QED
        BY <2>9, <2>10, <3>1, <3>3 DEF Marked
    <2>13. IsASequence(r) /\ \A i \in DOMAIN r : r[i] \in S
      BY <2>8, AnySequence
    <2>14. Ordered(r, n - 1)
      BY <2>4, <2>9, <2>11, <2>13 DEF Ordered
    <2>15. Outside(T, n) = r
      BY <1>1, <1>2, <1>5, <2>1, <2>7, Zenon DEF Outside
    <2>. QED
      BY <2>12, <2>14, <2>15
  <1>. QED
    BY <1>4, <1>5

\* The comparison of the innermost activation ends: its trail is the first.
LEMMA TailTrails ==
    ASSUME NEW n \in Nat, NEW T, Ordered(T, n), Marked(T, n)
    PROVE  /\ Ordered(Tail(T), n)
           /\ \A h \in 1 .. n - 1 : Marked(T, h) => Marked(Tail(T), h)
  <1>1. PICK l \in Nat : l = Len(T) /\ DOMAIN T = 1 .. l
    BY SequenceOfElements DEF Ordered
  <1>2. PICK S : S = [at : 1 .. n, envs : SUBSET Nat]
    OBVIOUS
  <1>3. T \in Seq(S)
    <2>1. \A i \in 1 .. l : T[i] \in S
      BY <1>1, <1>2 DEF Ordered
    <2>2. T = [i \in 1 .. l |-> T[i]]
      BY <1>1 DEF Ordered, IsASequence
    <2>. QED
      BY <2>1, <2>2
  <1>4. l # 0
    BY <1>1 DEF Marked
  <1>5. PICK t : t = Tail(T)
    OBVIOUS
  <1>6. t \in Seq(S) /\ Len(t) = l - 1 /\ \A i \in 1 .. l - 1 : t[i] = T[i + 1]
    <2>1. T # <<>>
      BY <1>1, <1>4
    <2>2. /\ Tail(T) \in Seq(S) /\ Len(Tail(T)) = Len(T) - 1
          /\ \A i \in 1 .. Len(Tail(T)) : Tail(T)[i] = T[i + 1]
      BY <1>3, <2>1, HeadTailProperties
    <2>. QED
      BY <1>1, <1>5, <2>2
  <1>7. PICK q \in Nat : q = l - 1 /\ DOMAIN t = 1 .. q
    BY <1>4, <1>6
  <1>8. \A i \in 1 .. q : i + 1 \in 1 .. l /\ t[i] = T[i + 1]
    BY <1>6, <1>7
  <1>9. \A i, j \in 1 .. q : i <= j => t[j].at <= t[i].at
    <2>1. ASSUME NEW i \in 1 .. q, NEW j \in 1 .. q, i <= j
          PROVE  t[j].at <= t[i].at
      <3>1. PICK x \in 1 .. l, y \in 1 .. l : x = i + 1 /\ y = j + 1 /\ x <= y
        BY <1>8, <2>1
      <3>2. T[y].at <= T[x].at
        BY <1>1, <3>1 DEF Ordered
      <3>. QED
        BY <1>8, <3>1, <3>2
    <2>. QED
      BY <2>1
  <1>10. Ordered(t, n)
    <2>1. IsASequence(t) /\ \A i \in DOMAIN t : t[i] \in S
      BY <1>6, AnySequence
    <2>. QED
      BY <1>2, <1>7, <1>9, <2>1 DEF Ordered
  <1>11. ASSUME NEW h \in 1 .. n - 1, Marked(T, h)
         PROVE  Marked(t, h)
    <2>1. PICK i \in 1 .. l : T[i].at = h
      BY <1>1, <1>11 DEF Marked
    <2>2. PICK j \in 1 .. l : T[j].at = n
      BY <1>1 DEF Marked
    <2>3. i # 1
      <3>1. T[j].at <= T[1].at
        BY <1>1, <2>2 DEF Ordered
      <3>. QED
        BY <2>1, <2>2, <3>1
    <2>4. PICK k \in 1 .. q : k + 1 = i
      BY <1>7, <2>3
    <2>. QED
      BY <1>7, <1>8, <2>1, <2>4 DEF Marked
  <1>. QED
    BY <1>5, <1>10, <1>11

\* A comparison of the innermost activation begins.
LEMMA NewTrail ==
    ASSUME NEW n \in Nat \ {0}, NEW T, Ordered(T, n), NEW a, a = [at |-> n, envs |-> {}],
           NEW U, U = <<a>> \o T
    PROVE  /\ Ordered(U, n) /\ Marked(U, n)
           /\ \A h \in 1 .. n - 1 : Marked(T, h) => Marked(U, h)
  <1>1. PICK l \in Nat : l = Len(T) /\ DOMAIN T = 1 .. l
    BY SequenceOfElements DEF Ordered
  <1>3. PICK r : r = <<a>> \o T
    OBVIOUS
  <1>4. /\ IsASequence(U) /\ Len(U) = l + 1 /\ U[1] = a
        /\ \A i \in 1 .. l + 1 : i # 1 => i - 1 \in 1 .. l /\ U[i] = T[i - 1]
    <2>1. IsASequence(T)
      BY DEF Ordered
    <2>2. /\ IsASequence(r) /\ Len(r) = l + 1 /\ r[1] = a
          /\ \A i \in 1 .. l + 1 : i # 1 => i - 1 \in 1 .. l /\ r[i] = T[i - 1]
      BY <1>1, <1>3, <2>1, OneMore
    <2>3. U = r
      BY <1>3
    <2>. QED
      BY <2>2, <2>3
  <1>5. DOMAIN U = 1 .. l + 1
    BY <1>4, SequenceOfElements
  <1>6. \A i \in 1 .. l + 1 : i # 1 => i - 1 \in 1 .. l /\ U[i] = T[i - 1]
    BY <1>4
  <1>7. \A i \in 1 .. l : T[i] \in [at : 1 .. n, envs : SUBSET Nat] /\ T[i].at \in 1 .. n
    BY <1>1 DEF Ordered
  <1>8. \A i \in 1 .. l + 1 : U[i] \in [at : 1 .. n, envs : SUBSET Nat]
    BY <1>4, <1>6, <1>7
  <1>9. ASSUME NEW i \in 1 .. l + 1, NEW j \in 1 .. l + 1, i <= j
        PROVE  U[j].at <= U[i].at
    <2>1. CASE i = 1
      BY <1>4, <1>8, <2>1
    <2>2. CASE i # 1
      <3>1. PICK x \in 1 .. l, y \in 1 .. l : x = i - 1 /\ y = j - 1 /\ x <= y /\ j # 1
        BY <1>9, <2>2
      <3>2. T[y].at <= T[x].at
        BY <1>1, <3>1 DEF Ordered
      <3>. QED
        BY <1>6, <2>2, <3>1, <3>2
    <2>. QED
      BY <2>1, <2>2
  <1>10. ASSUME NEW h \in 1 .. n - 1, Marked(T, h)
         PROVE  Marked(U, h)
    <2>1. PICK i \in 1 .. l : T[i].at = h
      BY <1>1, <1>10 DEF Marked
    <2>2. PICK j \in 1 .. l + 1 : j = i + 1 /\ j # 1 /\ j - 1 = i
      OBVIOUS
    <2>. QED
      BY <1>5, <1>6, <2>1, <2>2 DEF Marked
  <1>11. Marked(U, n)
    BY <1>4, <1>5 DEF Marked
  <1>12. Ordered(U, n)
    BY <1>4, <1>5, <1>8, <1>9 DEF Ordered
  <1>. QED
    BY <1>10, <1>11, <1>12

\* A change of the environment of an activation is recorded in the first trail.
LEMMA RecordedTrail ==
    ASSUME NEW n \in Nat, NEW T, Ordered(T, n), T # <<>>, NEW height \in Nat,
           NEW a, a = Noted(Head(T), height),
           NEW U, U = <<a>> \o Tail(T)
    PROVE  Ordered(U, n) /\ \A h \in 1 .. n : Marked(T, h) => Marked(U, h)
  <1>1. PICK l \in Nat : l = Len(T) /\ DOMAIN T = 1 .. l
    BY SequenceOfElements DEF Ordered
  <1>2. PICK S : T \in Seq(S)
    BY DEF Ordered, IsASequence
  <1>3. l # 0 /\ Head(T) = T[1]
    BY <1>1, <1>2
  <1>5. \A i \in 1 .. l : T[i] \in [at : 1 .. n, envs : SUBSET Nat] /\ T[i].at \in 1 .. n
    BY <1>1 DEF Ordered
  <1>6. a \in [at : 1 .. n, envs : SUBSET Nat] /\ a.at = T[1].at
    <2>1. T[1] \in [at : 1 .. n, envs : SUBSET Nat]
      BY <1>3, <1>5
    <2>2. a = [T[1] EXCEPT !.envs = @ \cup {height}]
      BY <1>3 DEF Noted
    <2>. QED
      BY <2>1, <2>2
  <1>7. PICK t : t = Tail(T)
    OBVIOUS
  <1>8. IsASequence(t) /\ Len(t) = l - 1 /\ \A i \in 1 .. l - 1 : t[i] = T[i + 1]
    <2>1. /\ Tail(T) \in Seq(S) /\ Len(Tail(T)) = Len(T) - 1
          /\ \A i \in 1 .. Len(Tail(T)) : Tail(T)[i] = T[i + 1]
      BY <1>2, HeadTailProperties
    <2>2. IsASequence(Tail(T))
      BY <2>1, AnySequence
    <2>. QED
      BY <1>1, <1>7, <2>1, <2>2
  <1>9. PICK r : r = <<a>> \o t
    OBVIOUS
  <1>10. PICK q \in Nat : q = l - 1 /\ q + 1 = l
    BY <1>3
  <1>11. /\ IsASequence(U) /\ Len(U) = l /\ U[1] = a
         /\ \A i \in 1 .. l : i # 1 => i - 1 \in 1 .. q /\ U[i] = t[i - 1]
    <2>1. IsASequence(t) /\ Len(t) = q
      BY <1>8, <1>10
    <2>2. /\ IsASequence(r) /\ Len(r) = q + 1 /\ r[1] = a
          /\ \A i \in 1 .. q + 1 : i # 1 => i - 1 \in 1 .. q /\ r[i] = t[i - 1]
      BY <1>9, <2>1, OneMore
    <2>3. U = r
      BY <1>7, <1>9
    <2>. QED
      BY <1>10, <2>2, <2>3
  <1>12. DOMAIN U = 1 .. l
    BY <1>11, SequenceOfElements
  <1>13. U[1] = a /\ \A i \in 1 .. l : i # 1 => U[i] = T[i]
    <2>1. ASSUME NEW i \in 1 .. l, i # 1
          PROVE  U[i] = T[i]
      <3>1. PICK j \in 1 .. l - 1 : j = i - 1 /\ j + 1 = i
        BY <2>1
      <3>2. U[i] = t[j]
        BY <1>11, <2>1, <3>1
      <3>. QED
        BY <1>8, <3>1, <3>2
    <2>. QED
      BY <1>11, <2>1
  <1>14. \A i \in 1 .. l : U[i] \in [at : 1 .. n, envs : SUBSET Nat] /\ U[i].at = T[i].at
    BY <1>5, <1>6, <1>13
  <1>15. Ordered(U, n)
    <2>1. \A i, j \in 1 .. l : i <= j => U[j].at <= U[i].at
      <3>1. \A i, j \in 1 .. l : i <= j => T[j].at <= T[i].at
        BY <1>1 DEF Ordered
      <3>. QED
        BY <1>14, <3>1
    <2>. QED
      BY <1>11, <1>12, <1>14, <2>1 DEF Ordered
  <1>16. \A h \in 1 .. n : Marked(T, h) => Marked(U, h)
    BY <1>1, <1>12, <1>14 DEF Marked
  <1>. QED
    BY <1>15, <1>16

\* The innermost activation is left, with what it has found.
LEMMA SoundPop ==
    ASSUME NEW s, NEW T, NEW N, Sound(s, T, N), s # <<>>, NEW U, U = Outside(T, Len(s))
    PROVE  /\ Sound(Tail(s), U, Head(s).negated)
           /\ Fits(Tail(s), U, Head(s).why, Len(Tail(s)))
           /\ Head(s).why.k \in Whys
  <1>1. PICK t : t = Tail(s)
    OBVIOUS
  <1>2. PICK n \in Nat \ {0} :
              /\ n = Len(s) /\ IsASequence(t) /\ Len(t) = n - 1
              /\ Head(s) = Activation(s, n)
              /\ \A h \in 1 .. n - 1 : Activation(t, h) = Activation(s, h)
    BY <1>1, TailStack DEF Sound
  <1>3. PICK p \in Nat : p = n - 1 /\ p \in 0 .. p
    OBVIOUS
  <1>4. Ordered(U, p) /\ \A h \in 1 .. p : Marked(T, h) => Marked(U, h)
    BY <1>2, <1>3, OutsideTrails DEF Sound
  <1>5. \A h \in 1 .. p : Activation(t, h) = Activation(s, h)
    BY <1>2, <1>3
  <1>6. ASSUME NEW h \in 1 .. p
        PROVE  Placed(t, U, h)
    <2>1. Placed(s, T, h)
      BY <1>2, <1>3 DEF Sound
    <2>2. \A i \in 1 .. p - 1 : Marked(T, i) => Marked(U, i)
      BY <1>4
    <2>. QED
      BY <1>5, <2>1, <2>2, PlacedOn
  <1>7. PICK w : w = Head(s).why
    OBVIOUS
  <1>8. Fits(s, T, w, p) /\ w.k \in Whys
    <2>1. Placed(s, T, n)
      BY <1>2 DEF Sound
    <2>. QED
      BY <1>2, <1>3, <1>7, <2>1 DEF Placed
  <1>9. Fits(t, U, w, p)
    BY <1>3, <1>4, <1>5, <1>8, FitsOn
  <1>10. FoundOutside(t, Head(s).negated) = {}
    <2>1. Activation(s, 1).negated = {}
      BY DEF Sound, FoundOutside
    <2>2. CASE p = 0
      <3>1. t = <<>>
        BY <1>2, <1>3, <2>2, EmptySequence
      <3>2. n = 1
        BY <1>3, <2>2
      <3>3. Head(s) = Activation(s, 1)
        BY <1>2, <3>2
      <3>. QED
        BY <2>1, <3>1, <3>3 DEF FoundOutside
    <2>3. CASE p # 0
      <3>1. Activation(t, 1) = Activation(s, 1)
        BY <1>5, <2>3
      <3>2. t # <<>>
        BY <1>2, <1>3, <2>3
      <3>. QED
        BY <2>1, <3>1, <3>2 DEF FoundOutside
    <2>. QED
      BY <2>2, <2>3
  <1>. QED
    BY <1>1, <1>2, <1>3, <1>4, <1>6, <1>7, <1>8, <1>9, <1>10 DEF Sound

------------------------------------------------------------------------------
(* What the steps of the solver are composed of *)

FitsNow(m, x) == Fits(m.stack, m.trails, x, Len(m.stack))

\* Another machine with the same activations, trails and negations.
Same(m, k) ==
    /\ IsMachine(k) /\ k.stack = m.stack /\ k.trails = m.trails
    /\ k.negated = m.negated /\ k.result = m.result

LEMMA SameBalanced ==
    ASSUME NEW m, Balanced(m), NEW k, Same(m, k)
    PROVE  Balanced(k) /\ \A x : FitsNow(m, x) => FitsNow(k, x)
  BY Zenon DEF Balanced, Same, FitsNow

LEMMA ThenSame ==
    ASSUME NEW m, IsMachine(m), NEW x
    PROVE  Same(m, Then(m, x)) /\ Then(m, x).now = x
  <1>1. PICK k : k = [m EXCEPT !.now = x]
    OBVIOUS
  <1>2. Same(m, k) /\ k.now = x
    BY <1>1 DEF IsMachine, Same
  <1>. QED
    BY <1>1, <1>2, Zenon DEF Then

LEMMA ModeSame ==
    ASSUME NEW m, IsMachine(m), NEW x
    PROVE  Same(m, [m EXCEPT !.mode = x]) /\ [m EXCEPT !.mode = x].now = m.now
           /\ [m EXCEPT !.mode = x].mode = x
  <1>1. PICK k : k = [m EXCEPT !.mode = x]
    OBVIOUS
  <1>2. Same(m, k) /\ k.now = m.now /\ k.mode = x
    BY <1>1 DEF IsMachine, Same
  <1>. QED
    BY <1>1, <1>2, Zenon

LEMMA BalancedGood ==
    ASSUME NEW m, Balanced(m), FitsNow(m, m.now)
    PROVE  Good(m)
  BY DEF Balanced, Good, FitsNow

LEMMA ThenGood ==
    ASSUME NEW m, Balanced(m), NEW x, FitsNow(m, x)
    PROVE  Good(Then(m, x)) /\ Balanced(Then(m, x))
  <1>1. PICK k : k = Then(m, x)
    OBVIOUS
  <1>2. Same(m, k) /\ k.now = x
    BY <1>1, ThenSame, Zenon DEF Balanced
  <1>3. Balanced(k) /\ FitsNow(k, x)
    BY <1>2, SameBalanced
  <1>. QED
    BY <1>1, <1>2, <1>3, BalancedGood

\* An error may arrive anywhere, and so may any other signal.
LEMMA ThrowGood ==
    ASSUME NEW m, Balanced(m), NEW x, x.k = "throw"
    PROVE  Good(Then(m, x))
  <1>1. FitsNow(m, x)
    BY DEF FitsNow, Fits
  <1>. QED
    BY <1>1, ThenGood

LEMMA ErrorGood ==
    ASSUME NEW m, Balanced(m)
    PROVE  Good(Then(m, Error))
  <1>1. Error.k = "throw"
    BY DEF Error
  <1>. QED
    BY <1>1, ThrowGood

\* In an activation, the loop may go on, and so may what it waits for.
LEMMA InsideGood ==
    ASSUME NEW m, Balanced(m), m.stack # <<>>, NEW x, x.k \in Inside
    PROVE  FitsNow(m, x) /\ Good(Then(m, x))
  <1>1. Len(m.stack) # 0
    BY EmptySequence DEF Balanced, Sound
  <1>2. FitsNow(m, x)
    BY <1>1 DEF FitsNow, Fits
  <1>. QED
    BY <1>2, ThenGood

LEMMA SetTopGood ==
    ASSUME NEW m, Balanced(m), m.stack # <<>>, NEW a, IsActivation(a),
           a.negated = Top(m).negated, a.why = Top(m).why
    PROVE  Good(SetTop(m, a)) /\ Balanced(SetTop(m, a)) /\ SetTop(m, a).stack # <<>>
  <1>1. PICK r : r = <<a>> \o Tail(m.stack)
    OBVIOUS
  <1>2. PICK k : k = [m EXCEPT !.stack = r, !.now = Solve]
    OBVIOUS
  <1>3. SetTop(m, a) = k
    BY <1>1, <1>2, Zenon DEF SetTop
  <1>4. /\ IsMachine(k) /\ k.stack = r /\ k.trails = m.trails /\ k.negated = m.negated
        /\ k.result = m.result /\ k.now = Solve
    BY <1>2 DEF Balanced, IsMachine
  <1>5. Sound(r, m.trails, m.negated) /\ r # <<>>
    BY <1>1, SoundTop DEF Balanced, Top
  <1>6. Balanced(k)
    BY <1>4, <1>5 DEF Balanced
  <1>7. Solve.k \in Inside
    BY DEF Solve, Inside
  <1>8. FitsNow(k, Solve)
    BY <1>4, <1>5, <1>6, <1>7, InsideGood
  <1>. QED
    BY <1>3, <1>4, <1>5, <1>6, <1>8, BalancedGood

\* The innermost activation, and what may change of it.
LEMMA TopActivation ==
    ASSUME NEW m, Balanced(m), m.stack # <<>>
    PROVE  IsActivation(Top(m)) /\ Top(m).why.k \in Whys
  <1>1. PICK n \in Nat \ {0} : n = Len(m.stack) /\ Head(m.stack) = Activation(m.stack, n)
    BY TailStack DEF Balanced, Sound
  <1>2. Placed(m.stack, m.trails, n)
    BY <1>1 DEF Balanced, Sound
  <1>. QED
    BY <1>1, <1>2 DEF Placed, Top

LEMMA SetWorkGood ==
    ASSUME NEW m, Balanced(m), m.stack # <<>>, NEW work
    PROVE  Good(SetWork(m, work))
  <1>1. PICK a : a = [Top(m) EXCEPT !.work = work]
    OBVIOUS
  <1>2. IsActivation(a) /\ a.negated = Top(m).negated /\ a.why = Top(m).why
    <2>1. IsActivation(Top(m))
      BY TopActivation
    <2>. QED
      BY <1>1, <2>1 DEF IsActivation
  <1>3. Good(SetTop(m, a))
    BY <1>2, SetTopGood
  <1>. QED
    BY <1>1, <1>3, Zenon DEF SetWork

LEMMA DropFrameGood ==
    ASSUME NEW m, Balanced(m), m.stack # <<>>
    PROVE  Good(DropFrame(m))
  BY SetWorkGood DEF DropFrame

LEMMA ContinueGood ==
    ASSUME NEW m, Balanced(m), m.stack # <<>>, NEW env
    PROVE  Good(Continue(m, env))
  BY SetWorkGood DEF Continue

LEMMA LeavingGood ==
    ASSUME NEW m, Balanced(m), m.stack # <<>>, NEW found, NEW env
    PROVE  Good(Leaving(m, found, env))
  <1>1. Leaving(m, found, env) = Continue(m, env) \/ Leaving(m, found, env) = DropFrame(m)
    BY Zenon DEF Leaving
  <1>. QED
    BY <1>1, ContinueGood, DropFrameGood

LEMMA PushGood ==
    ASSUME NEW m, Balanced(m), NEW gs, NEW env, NEW depth, NEW why, why.k \in Whys,
           FitsNow(m, why)
    PROVE  /\ Good(Push(m, gs, env, depth, why)) /\ Balanced(Push(m, gs, env, depth, why))
           /\ Push(m, gs, env, depth, why).stack # <<>>
  <1>1. PICK a : a = [work |-> <<NewFrame(gs, env, depth)>>, out |-> <<>>, max |-> 1,
                      start |-> depth, why |-> why, mode |-> m.mode, negated |-> m.negated]
    OBVIOUS
  <1>2. IsActivation(a) /\ a.negated = m.negated /\ a.why = why
    BY <1>1 DEF IsActivation
  <1>3. PICK r : r = <<a>> \o m.stack
    OBVIOUS
  <1>4. PICK k : k = [m EXCEPT !.stack = r, !.now = Solve]
    OBVIOUS
  <1>5. Push(m, gs, env, depth, why) = k
    BY <1>1, <1>3, <1>4, Zenon DEF Push
  <1>6. /\ IsMachine(k) /\ k.stack = r /\ k.trails = m.trails /\ k.negated = m.negated
        /\ k.result = m.result /\ k.now = Solve
    BY <1>4 DEF Balanced, IsMachine
  <1>7. Sound(r, m.trails, m.negated) /\ r # <<>>
    <2>1. Fits(m.stack, m.trails, a.why, Len(m.stack)) /\ a.why.k \in Whys
      BY <1>2 DEF FitsNow
    <2>. QED
      BY <1>2, <1>3, <2>1, SoundPush DEF Balanced
  <1>8. Balanced(k)
    BY <1>6, <1>7 DEF Balanced
  <1>9. Solve.k \in Inside
    BY DEF Solve, Inside
  <1>10. FitsNow(k, Solve)
    BY <1>6, <1>7, <1>8, <1>9, InsideGood
  <1>. QED
    BY <1>5, <1>6, <1>7, <1>8, <1>10, BalancedGood

LEMMA PopBalanced ==
    ASSUME NEW m, Balanced(m), m.stack # <<>>
    PROVE  Balanced(Pop(m)) /\ FitsNow(Pop(m), Top(m).why) /\ Top(m).why.k \in Whys
  <1>1. PICK t, U, N, x : /\ t = Tail(m.stack) /\ U = Outside(m.trails, Len(m.stack))
                          /\ N = Top(m).negated /\ x = Top(m).mode
    OBVIOUS
  <1>2. PICK k : k = [m EXCEPT !.stack = t, !.mode = x, !.negated = N, !.trails = U]
    OBVIOUS
  <1>3. Pop(m) = k
    BY <1>1, <1>2, Zenon DEF Pop
  <1>4. IsMachine(k) /\ k.stack = t /\ k.trails = U /\ k.negated = N /\ k.result = m.result
    BY <1>2 DEF Balanced, IsMachine
  <1>5. Sound(t, U, N) /\ Fits(t, U, Top(m).why, Len(t)) /\ Top(m).why.k \in Whys
    BY <1>1, SoundPop DEF Balanced, Top
  <1>. QED
    BY <1>3, <1>4, <1>5 DEF Balanced, FitsNow

LEMMA RecordBalanced ==
    ASSUME NEW m, Balanced(m), NEW height \in Nat
    PROVE  /\ Balanced(Record(m, height)) /\ Record(m, height).stack = m.stack
           /\ \A x : FitsNow(m, x) => FitsNow(Record(m, height), x)
  <1>1. CASE m.trails = <<>>
    BY <1>1, Zenon DEF Record
  <1>2. CASE m.trails # <<>>
    <2>0. PICK a : a = Noted(Head(m.trails), height)
      OBVIOUS
    <2>1. PICK U : U = <<a>> \o Tail(m.trails)
      OBVIOUS
    <2>2. PICK k : k = [m EXCEPT !.trails = U]
      OBVIOUS
    <2>3. Record(m, height) = k
      BY <1>2, <2>0, <2>1, <2>2, Zenon DEF Record
    <2>4. /\ IsMachine(k) /\ k.stack = m.stack /\ k.trails = U /\ k.negated = m.negated
          /\ k.result = m.result
      BY <2>2 DEF Balanced, IsMachine
    <2>5. PICK n \in Nat : n = Len(m.stack)
      BY SequenceOfElements DEF Balanced, Sound
    <2>6. Ordered(U, n) /\ \A h \in 1 .. n : Marked(m.trails, h) => Marked(U, h)
      <3>1. PICK T : T = m.trails
        OBVIOUS
      <3>2. Ordered(T, n) /\ T # <<>>
        BY <1>2, <2>5, <3>1 DEF Balanced, Sound
      <3>3. a = Noted(Head(T), height) /\ U = <<a>> \o Tail(T)
        BY <2>0, <2>1, <3>1
      <3>4. Ordered(U, n) /\ \A h \in 1 .. n : Marked(T, h) => Marked(U, h)
        BY <3>2, <3>3, RecordedTrail
      <3>. QED
        BY <3>1, <3>4
    <2>7. Sound(m.stack, U, m.negated)
      <3>1. Sound(m.stack, m.trails, m.negated) /\ Ordered(U, Len(m.stack))
        BY <2>5, <2>6 DEF Balanced
      <3>2. \A h \in 1 .. Len(m.stack) - 1 : Marked(m.trails, h) => Marked(U, h)
        BY <2>5, <2>6
      <3>. QED
        BY <3>1, <3>2, SoundTrails
    <2>8. ASSUME NEW x, FitsNow(m, x)
          PROVE  FitsNow(k, x)
      <3>1. Fits(m.stack, m.trails, x, n) /\ n \in 0 .. n
        BY <2>5, <2>8 DEF FitsNow
      <3>2. \A h \in 1 .. n : Activation(m.stack, h) = Activation(m.stack, h)
        OBVIOUS
      <3>3. Fits(m.stack, U, x, n)
        BY <2>6, <3>1, <3>2, FitsOn
      <3>. QED
        BY <2>4, <2>5, <3>3 DEF FitsNow
    <2>. QED
      BY <2>3, <2>4, <2>7, <2>8 DEF Balanced
  <1>. QED
    BY <1>1, <1>2

\* What else of a machine may change when an activation is open.
LEMMA ModeGood ==
    ASSUME NEW m, Good(m), NEW x
    PROVE  Good([m EXCEPT !.mode = x])
  <1>1. PICK k : k = [m EXCEPT !.mode = x]
    OBVIOUS
  <1>2. Same(m, k) /\ k.now = m.now
    BY <1>1, ModeSame DEF Good
  <1>. QED
    BY <1>1, <1>2 DEF Good, Same

LEMMA NegatedGood ==
    ASSUME NEW m, Good(m), m.stack # <<>>, NEW N
    PROVE  Good([m EXCEPT !.negated = N])
  <1>1. PICK k : k = [m EXCEPT !.negated = N]
    OBVIOUS
  <1>2. /\ IsMachine(k) /\ k.stack = m.stack /\ k.trails = m.trails /\ k.negated = N
        /\ k.result = m.result /\ k.now = m.now
    BY <1>1 DEF Good, IsMachine
  <1>3. Sound(m.stack, m.trails, N)
    BY DEF Good, Sound, FoundOutside
  <1>. QED
    BY <1>1, <1>2, <1>3 DEF Good

------------------------------------------------------------------------------
(* The steps of calls *)

WaitsNow(m) == Waits(m.stack, m.trails, Len(m.stack))
OwnedNow(m, o) == Owned(m.stack, m.trails, o, Len(m.stack))

LEMMA SameNow ==
    ASSUME NEW m, NEW k, Same(m, k)
    PROVE  (WaitsNow(m) => WaitsNow(k)) /\ \A o : OwnedNow(m, o) => OwnedNow(k, o)
  BY Zenon DEF Same, WaitsNow, OwnedNow

\* The goal that waits is that of the innermost activation.
LEMMA GoalNow ==
    ASSUME NEW m, Balanced(m), m.stack # <<>>
    PROVE  /\ Goal(m) = GoalAt(m.stack, Len(m.stack))
           /\ Len(m.stack) \in Nat \ {0}
  <1>1. PICK n \in Nat \ {0} : n = Len(m.stack) /\ Head(m.stack) = Activation(m.stack, n)
    BY TailStack DEF Balanced, Sound
  <1>. QED
    BY <1>1, Zenon DEF Goal, Frame, Top, GoalAt

LEMMA ForValueGood ==
    ASSUME NEW m, Balanced(m), WaitsNow(m), NEW x, x.k \in ForValue
    PROVE  FitsNow(m, x) /\ Good(Then(m, x))
  <1>1. FitsNow(m, x)
    BY DEF FitsNow, Fits, WaitsNow
  <1>. QED
    BY <1>1, ThenGood

LEMMA OfMethodGood ==
    ASSUME NEW m, Balanced(m), NEW x, x.k \in OfMethod, OwnedNow(m, x.mr.owner)
    PROVE  FitsNow(m, x) /\ Good(Then(m, x))
  <1>1. FitsNow(m, x)
    BY DEF FitsNow, Fits, OwnedNow
  <1>. QED
    BY <1>1, ThenGood

LEMMA MethodCallGood ==
    ASSUME NEW m, Balanced(m), NEW clause, NEW args, NEW env, NEW depth, NEW o, OwnedNow(m, o)
    PROVE  Good(Then(m, MethodCall(clause, args, env, depth, o)))
  <1>1. PICK x : x = MethodCall(clause, args, env, depth, o)
    OBVIOUS
  <1>2. x.k = "method" /\ x.owner = o
    BY <1>1 DEF MethodCall
  <1>3. FitsNow(m, x)
    BY <1>2 DEF FitsNow, Fits, OwnedNow
  <1>. QED
    BY <1>1, <1>3, ThenGood

LEMMA StartCallGood ==
    ASSUME NEW m, Balanced(m), WaitsNow(m), NEW f, NEW args, NEW env
    PROVE  Good(StartCall(m, f, args, env))
  <1>1. PICK k : k = [m EXCEPT !.mode.tramp = TRUE, !.mode.trampAt = m.mode.methods]
    OBVIOUS
  <1>2. Same(m, k)
    BY <1>1 DEF Balanced, IsMachine, Same
  <1>3. PICK x : x = [k |-> "once", vc |-> [f |-> f, args |-> args, env |-> env, stage |-> "infer",
                                            i |-> 1, outer |-> m.mode]]
    OBVIOUS
  <1>4. x.k \in ForValue
    BY <1>3 DEF ForValue
  <1>5. Good(Then(k, x))
    BY <1>2, <1>4, SameBalanced, SameNow, ForValueGood
  <1>. QED
    BY <1>1, <1>3, <1>5, Zenon DEF StartCall

LEMMA EvaluateGood ==
    ASSUME NEW m, Balanced(m), WaitsNow(m), NEW e
    PROVE  Good(Evaluate(m, e))
  <1>1. PICK r : r = Reduce(e, Frame(m).env)
    OBVIOUS
  <1>2. CASE r[1] = "raise"
    <2>1. Evaluate(m, e) = Then(m, Error)
      BY <1>1, <1>2 DEF Evaluate
    <2>. QED
      BY <2>1, ErrorGood
  <1>3. CASE r[1] = "write"
    <2>1. PICK k : k = [m EXCEPT !.log = Append(@, r[2])]
      OBVIOUS
    <2>2. Same(m, k)
      BY <2>1 DEF Balanced, IsMachine, Same
    <2>3. Valued(Num(r[2])).k \in ForValue
      BY DEF Valued, ForValue
    <2>4. Good(Then(k, Valued(Num(r[2]))))
      BY <2>2, <2>3, SameBalanced, SameNow, ForValueGood
    <2>5. Evaluate(m, e) = Then(k, Valued(Num(r[2])))
      BY <1>1, <1>3, <2>1 DEF Evaluate
    <2>. QED
      BY <2>4, <2>5
  <1>4. CASE r[1] = "call"
    <2>1. Evaluate(m, e) = StartCall(m, r[2], r[3], Frame(m).env)
      BY <1>1, <1>4 DEF Evaluate
    <2>. QED
      BY <2>1, StartCallGood
  <1>5. CASE r[1] = "undefined"
    <2>1. Evaluate(m, e) = Then(m, [k |-> "novalue"])
      BY <1>1, <1>5 DEF Evaluate
    <2>2. [k |-> "novalue"].k \in ForValue
      BY DEF ForValue
    <2>. QED
      BY <2>1, <2>2, ForValueGood
  <1>6. CASE r[1] \notin {"raise", "write", "call", "undefined"}
    <2>1. Evaluate(m, e) = Then(m, Valued(r))
      BY <1>1, <1>6 DEF Evaluate
    <2>2. Valued(r).k \in ForValue
      BY DEF Valued, ForValue
    <2>. QED
      BY <2>1, <2>2, ForValueGood
  <1>. QED
    BY <1>2, <1>3, <1>4, <1>5, <1>6

LEMMA ValueReturnedGood ==
    ASSUME NEW m, Balanced(m), WaitsNow(m), NEW vc, NEW v
    PROVE  Good(ValueReturned(m, vc, v)) /\ Good(ValueNone(m, vc))
  <1>1. PICK k : k = [m EXCEPT !.mode = vc.outer]
    OBVIOUS
  <1>2. Balanced(k) /\ WaitsNow(k)
    BY <1>1, ModeSame, SameBalanced, SameNow DEF Balanced
  <1>3. Valued(v).k \in ForValue /\ [k |-> "novalue"].k \in ForValue
    BY DEF Valued, ForValue
  <1>4. Good(Then(k, Valued(v))) /\ Good(Then(k, [k |-> "novalue"]))
    BY <1>2, <1>3, ForValueGood
  <1>. QED
    BY <1>1, <1>4, Zenon DEF ValueReturned, ValueNone

LEMMA MethodNoneGood ==
    ASSUME NEW m, Balanced(m), NEW mr, OwnedNow(m, mr.owner)
    PROVE  Good(MethodNone(m, mr))
  <1>1. PICK x : x = [k |-> "failed", mr |-> mr]
    OBVIOUS
  <1>2. x.k \in OfMethod /\ x.mr = mr
    BY <1>1 DEF OfMethod
  <1>. QED
    BY <1>1, <1>2, OfMethodGood DEF MethodNone

LEMMA MethodReturnedGood ==
    ASSUME NEW m, Balanced(m), NEW mr, OwnedNow(m, mr.owner), NEW env
    PROVE  Good(MethodReturned(m, mr, env))
  <1>1. PICK x : x = [k |-> "returned", mr |-> mr, env |-> env]
    OBVIOUS
  <1>2. x.k \in OfMethod /\ x.mr = mr
    BY <1>1 DEF OfMethod
  <1>. QED
    BY <1>1, <1>2, OfMethodGood DEF MethodReturned

\* An activation for a part of a method's body.
LEMMA PushBodyGood ==
    ASSUME NEW m, Balanced(m), NEW gs, NEW env, NEW depth, NEW why,
           why.k \in OfMethod, why.k \in Whys, OwnedNow(m, why.mr.owner)
    PROVE  Good(Push(m, gs, env, depth, why))
  BY OfMethodGood, PushGood

LEMMA FallbackGood ==
    ASSUME NEW m, Balanced(m), NEW mr, OwnedNow(m, mr.owner), NEW env, NEW j
    PROVE  Good(Fallback(m, mr, env, j))
  <1>1. PICK why : why = [k |-> "fallback", mr |-> mr, env |-> env, j |-> j]
    OBVIOUS
  <1>2. why.k \in OfMethod /\ why.k \in Whys /\ why.mr = mr
    BY <1>1 DEF OfMethod, Whys
  <1>3. Good(Push(m, mr.clause.fallback[j], env, mr.depth + 1, why))
    BY <1>2, PushBodyGood
  <1>4. \/ Fallback(m, mr, env, j) = MethodNone(m, mr)
        \/ Fallback(m, mr, env, j) = Push(m, mr.clause.fallback[j], env, mr.depth + 1, why)
    BY <1>1, Zenon DEF Fallback
  <1>. QED
    BY <1>3, <1>4, MethodNoneGood

LEMMA GuardGood ==
    ASSUME NEW m, Balanced(m), NEW mr, OwnedNow(m, mr.owner), NEW env
    PROVE  Good(Guard(m, mr, env))
  <1>1. PICK why : why = [k |-> "guard", mr |-> mr, env |-> env]
    OBVIOUS
  <1>2. why.k \in OfMethod /\ why.k \in Whys /\ why.mr = mr
    BY <1>1 DEF OfMethod, Whys
  <1>3. \A gs : Good(Push(m, gs, env, mr.depth + 1, why))
    BY <1>2, PushBodyGood
  <1>4. \/ \E gs : Guard(m, mr, env) = Push(m, gs, env, mr.depth + 1, why)
        \/ Guard(m, mr, env) = MethodReturned(m, mr, env)
        \/ Guard(m, mr, env) = Fallback(m, mr, env, 1)
    BY <1>1 DEF Guard
  <1>. QED
    BY <1>3, <1>4, MethodReturnedGood, FallbackGood

LEMMA TruthGood ==
    ASSUME NEW m, Balanced(m), NEW mr, OwnedNow(m, mr.owner), NEW env, NEW truths, NEW j
    PROVE  Good(Truth(m, mr, env, truths, j))
  <1>1. CASE j > Len(mr.clause.body)
    <2>1. \E e : Truth(m, mr, env, truths, j) = MethodReturned(m, mr, e)
      BY <1>1 DEF Truth
    <2>. QED
      BY <2>1, MethodReturnedGood
  <1>2. CASE ~(j > Len(mr.clause.body))
    <2>1. PICK why : why = [k |-> "truth", mr |-> mr, env |-> env, truths |-> truths, j |-> j]
      OBVIOUS
    <2>2. why.k \in OfMethod /\ why.k \in Whys /\ why.mr = mr
      BY <2>1 DEF OfMethod, Whys
    <2>3. PICK p : p = Push(m, <<mr.clause.body[j]>>, env, 0, why)
      OBVIOUS
    <2>4. Good(p)
      BY <2>2, <2>3, PushBodyGood
    <2>5. PICK x : x = [p.mode EXCEPT !.value = FALSE]
      OBVIOUS
    <2>6. Good([p EXCEPT !.mode = x])
      BY <2>4, ModeGood
    <2>7. Truth(m, mr, env, truths, j) = [p EXCEPT !.mode = x]
      BY <1>2, <2>1, <2>3, <2>5 DEF Truth
    <2>. QED
      BY <2>6, <2>7
  <1>. QED
    BY <1>1, <1>2

LEMMA RunMethodGood ==
    ASSUME NEW m, Balanced(m), NEW mr, OwnedNow(m, mr.owner), NEW env
    PROVE  Good(RunMethod(m, mr, env))
  <1>1. PICK v, w : /\ v = [k |-> "prelude", mr |-> mr]
                    /\ w = [k |-> "body", mr |-> mr, env |-> env]
    OBVIOUS
  <1>2. /\ v.k \in OfMethod /\ v.k \in Whys /\ v.mr = mr
        /\ w.k \in OfMethod /\ w.k \in Whys /\ w.mr = mr
    BY <1>1 DEF OfMethod, Whys
  <1>3. \A gs : Good(Push(m, gs, env, mr.depth + 1, v)) /\ Good(Push(m, gs, env, mr.depth + 1, w))
    BY <1>2, PushBodyGood
  <1>4. \/ RunMethod(m, mr, env) = Guard(m, mr, env)
        \/ RunMethod(m, mr, env) = Truth(m, mr, env, <<>>, 1)
        \/ \E gs : RunMethod(m, mr, env) = Push(m, gs, env, mr.depth + 1, v)
        \/ \E gs : RunMethod(m, mr, env) = Push(m, gs, env, mr.depth + 1, w)
    BY <1>1 DEF RunMethod
  <1>. QED
    BY <1>3, <1>4, GuardGood, TruthGood

LEMMA StartMethodGood ==
    ASSUME NEW m, Balanced(m), NEW call, OwnedNow(m, call.owner)
    PROVE  Good(StartMethod(m, call))
  <1>1. PICK mr : mr = [clause |-> call.clause, args |-> call.args, env |-> call.env,
                        depth |-> call.depth, owner |-> call.owner, mode |-> m.mode,
                        main |-> IsMain(call.clause)]
    OBVIOUS
  <1>2. PICK b : b = IF call.clause.body = <<>> THEN NoGoal ELSE Last(call.clause.body)
    OBVIOUS
  <1>3. PICK k : k = [m EXCEPT !.mode.methods = @ + 1, !.mode.tail = b]
    OBVIOUS
  <1>4. Same(m, k)
    BY <1>3 DEF Balanced, IsMachine, Same
  <1>5. Balanced(k) /\ OwnedNow(k, mr.owner)
    <2>1. mr.owner = call.owner
      BY <1>1
    <2>. QED
      BY <1>4, <2>1, SameBalanced, SameNow
  <1>6. PICK l : l = Record(k, Len(m.stack) + 1)
    OBVIOUS
  <1>7. Balanced(l) /\ OwnedNow(l, mr.owner)
    <2>1. PICK h \in Nat : h = Len(m.stack) + 1
      <3>1. Len(m.stack) \in Nat
        BY SequenceOfElements DEF Balanced, Sound
      <3>. QED
        BY <3>1
    <2>2. l = Record(k, h)
      BY <1>6, <2>1
    <2>3. Balanced(l) /\ l.stack = k.stack /\ \A x : FitsNow(k, x) => FitsNow(l, x)
      BY <1>5, <2>1, <2>2, RecordBalanced
    <2>4. PICK x : x = [k |-> "method", owner |-> mr.owner]
      OBVIOUS
    <2>5. x.k = "method" /\ x.owner = mr.owner
      BY <2>4
    <2>6. FitsNow(l, x)
      BY <1>5, <2>3, <2>5 DEF FitsNow, Fits, OwnedNow
    <2>7. OwnedNow(l, mr.owner)
      BY <2>5, <2>6 DEF FitsNow, Fits, OwnedNow, Inside, ForValue, OfMethod
    <2>. QED
      BY <2>3, <2>7
  <1>8. PICK fs : fs = BindParams(call.clause, call.args, call.env)
    OBVIOUS
  <1>9. \/ StartMethod(m, call) = Then(m, Error)
        \/ StartMethod(m, call) = MethodNone(k, mr)
        \/ StartMethod(m, call) = RunMethod(k, mr, fs[1])
        \/ StartMethod(m, call) = RunMethod(l, mr, fs[1])
    BY <1>1, <1>2, <1>3, <1>6, <1>8, Zenon DEF StartMethod
  <1>. QED
    BY <1>5, <1>7, <1>9, ErrorGood, MethodNoneGood, RunMethodGood

LEMMA LeaveMethodGood ==
    ASSUME NEW m, Balanced(m), FitsNow(m, m.now), NEW mr, OwnedNow(m, mr.owner), NEW found
    PROVE  Good(LeaveMethod(m, mr, found))
  <1>1. PICK o : o = mr.owner
    OBVIOUS
  <1>2. PICK k : k = [m EXCEPT !.mode = mr.mode]
    OBVIOUS
  <1>3. Same(m, k) /\ Balanced(k) /\ OwnedNow(k, o) /\ FitsNow(k, k.now)
    <2>1. Same(m, k) /\ k.now = m.now
      BY <1>2, ModeSame DEF Balanced
    <2>. QED
      BY <1>1, <2>1, SameBalanced, SameNow
  <1>4. PICK conts : conts = IF found = <<>> THEN o.conts
                             ELSE Append(o.conts, NewFrame(Tail(Frame(m).gs), found[1], Frame(m).depth + 1))
    OBVIOUS
  <1>5. CASE o.k = "goal"
    <2>1. PICK x : x = [k |-> "clauses", i |-> o.i + 1, conts |-> conts]
      OBVIOUS
    <2>2. LeaveMethod(m, mr, found) = Then(k, x)
      BY <1>1, <1>2, <1>4, <1>5, <2>1 DEF LeaveMethod
    <2>3. x.k \in Inside
      BY <2>1 DEF Inside
    <2>4. k.stack # <<>>
      <3>1. Len(k.stack) # 0
        BY <1>3, <1>5 DEF OwnedNow, Owned
      <3>2. CASE k.stack = <<>>
        BY <3>1, <3>2
      <3>. QED
        BY <3>2
    <2>. QED
      BY <1>3, <2>2, <2>3, <2>4, InsideGood
  <1>6. CASE o.k = "value"
    <2>1. WaitsNow(k)
      BY <1>3, <1>6 DEF OwnedNow, Owned, WaitsNow
    <2>2. CASE found = <<>>
      <3>1. PICK x : x = [k |-> "once", vc |-> [o.vc EXCEPT !.i = @ + 1]]
        OBVIOUS
      <3>2. LeaveMethod(m, mr, found) = Then(k, x)
        BY <1>1, <1>2, <1>4, <1>6, <2>2, <3>1 DEF LeaveMethod
      <3>3. x.k \in ForValue
        BY <3>1 DEF ForValue
      <3>. QED
        BY <1>3, <2>1, <3>2, <3>3, ForValueGood
    <2>3. CASE found # <<>>
      <3>1. LeaveMethod(m, mr, found) = ValueReturned(k, o.vc, found[1][Ret])
        BY <1>1, <1>2, <1>4, <1>6, <2>3 DEF LeaveMethod
      <3>. QED
        BY <1>3, <2>1, <3>1, ValueReturnedGood
    <2>. QED
      BY <2>2, <2>3
  <1>7. CASE o.k = "main"
    <2>1. PICK r : r = IF found = <<>> THEN Stopped ELSE found[1][Ret]
      OBVIOUS
    <2>2. PICK l : l = [k EXCEPT !.result = r]
      OBVIOUS
    <2>3. LeaveMethod(m, mr, found) = l
      BY <1>1, <1>2, <1>4, <1>7, <2>1, <2>2 DEF LeaveMethod
    <2>4. /\ IsMachine(l) /\ l.stack = k.stack /\ l.trails = k.trails /\ l.negated = k.negated
          /\ l.now = k.now
      BY <1>3, <2>2 DEF Same, IsMachine
    <2>5. k.stack = <<>>
      <3>1. IsASequence(k.stack) /\ Len(k.stack) = 0
        BY <1>3, <1>7 DEF OwnedNow, Owned, Balanced, Sound
      <3>. QED
        BY <3>1, EmptySequence
    <2>. QED
      BY <1>3, <2>3, <2>4, <2>5 DEF Balanced, Good, FitsNow
  <1>. QED
    BY <1>1, <1>5, <1>6, <1>7 DEF OwnedNow, Owned

LEMMA OnceGood ==
    ASSUME NEW m, Balanced(m), WaitsNow(m), NEW vc
    PROVE  Good(Once(m, vc))
  <1>1. PICK why, called : /\ why = [k |-> "infer", vc |-> vc]
                           /\ called = [k |-> "called", vc |-> vc]
    OBVIOUS
  <1>2. /\ why.k \in ForValue /\ why.k \in Whys
        /\ called.k \in ForValue /\ called.k \in Whys
    BY <1>1 DEF ForValue, Whys
  <1>3. PICK o : o = [k |-> "value", vc |-> vc]
    OBVIOUS
  <1>4. OwnedNow(m, o)
    BY <1>3 DEF OwnedNow, Owned, WaitsNow
  <1>5. \A next : Good(Then(m, [k |-> "once", vc |-> next]))
    <2>1. \A next : [k |-> "once", vc |-> next].k \in ForValue
      BY DEF ForValue
    <2>. QED
      BY <2>1, ForValueGood
  <1>6. \A gs : Good(Push(m, gs, vc.env, 0, why))
    BY <1>2, ForValueGood, PushGood
  <1>7. PICK x, y : x = [m.mode EXCEPT !.value = TRUE] /\ y = [m.mode EXCEPT !.value = vc.outer.value]
    OBVIOUS
  <1>8. PICK k, l : k = [m EXCEPT !.mode = x] /\ l = [m EXCEPT !.mode = y]
    OBVIOUS
  <1>9. Balanced(k) /\ OwnedNow(k, o) /\ Balanced(l) /\ WaitsNow(l)
    <2>1. Same(m, k) /\ Same(m, l)
      BY <1>8, ModeSame DEF Balanced
    <2>. QED
      BY <1>4, <2>1, SameBalanced, SameNow
  <1>10. \A c : Good(Then(k, MethodCall(c, vc.args, vc.env, 0, o)))
    BY <1>9, MethodCallGood
  <1>11. \A gs : Good(Push(l, gs, vc.env, 0, called))
    BY <1>2, <1>9, ForValueGood, PushGood
  <1>12. \/ \E gs : Once(m, vc) = Push(m, gs, vc.env, 0, why)
         \/ \E next : Once(m, vc) = Then(m, [k |-> "once", vc |-> next])
         \/ Once(m, vc) = ValueNone(m, vc)
         \/ \E c : Once(m, vc) = Then(k, MethodCall(c, vc.args, vc.env, 0, o))
         \/ \E gs : Once(m, vc) = Push(l, gs, vc.env, 0, called)
    BY <1>1, <1>3, <1>7, <1>8 DEF Once
  <1>. QED
    BY <1>5, <1>6, <1>10, <1>11, <1>12, ValueReturnedGood

------------------------------------------------------------------------------
(* The steps of goals *)

\* An activation inside another one.
LEMMA PushInsideGood ==
    ASSUME NEW m, Balanced(m), m.stack # <<>>, NEW gs, NEW env, NEW depth, NEW why,
           why.k \in Inside, why.k \in Whys
    PROVE  /\ Good(Push(m, gs, env, depth, why)) /\ Balanced(Push(m, gs, env, depth, why))
           /\ Push(m, gs, env, depth, why).stack # <<>>
  BY InsideGood, PushGood

\* A comparison has its trail.
LEMMA ComparisonBegins ==
    ASSUME NEW m, Balanced(m), m.stack # <<>>, NEW k,
           k = [m EXCEPT !.trails = <<[at |-> Len(m.stack), envs |-> {}]>> \o m.trails]
    PROVE  Balanced(k) /\ k.stack = m.stack /\ Marked(k.trails, Len(m.stack))
  <1>1. PICK n \in Nat \ {0} : n = Len(m.stack)
    BY GoalNow
  <1>2. PICK a, U : a = [at |-> n, envs |-> {}] /\ U = <<a>> \o m.trails
    OBVIOUS
  <1>3. k = [m EXCEPT !.trails = U]
    BY <1>1, <1>2
  <1>4. /\ IsMachine(k) /\ k.stack = m.stack /\ k.trails = U
        /\ k.negated = m.negated /\ k.result = m.result
    BY <1>3 DEF Balanced, IsMachine
  <1>5. PICK T : T = m.trails /\ Ordered(T, n)
    <2>1. Ordered(m.trails, n)
      BY <1>1 DEF Balanced, Sound
    <2>. QED
      BY <2>1
  <1>6. Ordered(U, n) /\ Marked(U, n) /\ \A h \in 1 .. n - 1 : Marked(T, h) => Marked(U, h)
    <2>1. U = <<a>> \o T
      BY <1>2, <1>5
    <2>2. Ordered(T, n)
      BY <1>5
    <2>3. a = [at |-> n, envs |-> {}]
      BY <1>2
    <2>. QED
      BY <2>1, <2>2, <2>3, NewTrail
  <1>7. Sound(m.stack, U, m.negated)
    BY <1>1, <1>5, <1>6, SoundTrails DEF Balanced
  <1>. QED
    BY <1>1, <1>4, <1>6, <1>7 DEF Balanced

\* A comparison has given up its trail.
LEMMA ComparisonEnds ==
    ASSUME NEW m, Balanced(m), m.stack # <<>>, Marked(m.trails, Len(m.stack)), NEW k,
           k = [m EXCEPT !.trails = Tail(m.trails)]
    PROVE  Balanced(k) /\ k.stack = m.stack
  <1>1. PICK U : U = Tail(m.trails)
    OBVIOUS
  <1>2. k = [m EXCEPT !.trails = U]
    BY <1>1
  <1>3. /\ IsMachine(k) /\ k.stack = m.stack /\ k.trails = U /\ k.negated = m.negated
        /\ k.result = m.result
    BY <1>2 DEF Balanced, IsMachine
  <1>4. PICK n \in Nat \ {0} : n = Len(m.stack)
    BY GoalNow
  <1>5. Ordered(m.trails, n) /\ Marked(m.trails, n)
    BY <1>4 DEF Balanced, Sound
  <1>6. Ordered(U, n) /\ \A h \in 1 .. n - 1 : Marked(m.trails, h) => Marked(U, h)
    BY <1>1, <1>5, TailTrails
  <1>7. Sound(m.stack, U, m.negated)
    BY <1>4, <1>6, SoundTrails DEF Balanced
  <1>. QED
    BY <1>3, <1>7 DEF Balanced

\* A comparison that has evaluated its left side has its trail still.
LEMMA ComparedGood ==
    ASSUME NEW m, Balanced(m), m.stack # <<>>,
           Goal(m).op = "ne" => Marked(m.trails, Len(m.stack)), NEW lv
    PROVE  Good(Compared(m, lv))
  <1>1. PICK k : k = IF Goal(m).op = "ne" THEN [m EXCEPT !.trails = Tail(@)] ELSE m
    OBVIOUS
  <1>2. Balanced(k) /\ k.stack = m.stack
    <2>1. CASE Goal(m).op = "ne"
      <3>1. k = [m EXCEPT !.trails = Tail(m.trails)]
        BY <1>1, <2>1
      <3>. QED
        BY <2>1, <3>1, ComparisonEnds
    <2>2. CASE Goal(m).op # "ne"
      BY <1>1, <2>2
    <2>. QED
      BY <2>1, <2>2
  <1>3. \/ \E env : Compared(m, lv) = Continue(k, env)
        \/ Compared(m, lv) = DropFrame(k)
    BY <1>1 DEF Compared
  <1>. QED
    BY <1>2, <1>3, ContinueGood, DropFrameGood

LEMMA ForStepGood ==
    ASSUME NEW m, Balanced(m), m.stack # <<>>, NEW items, NEW n, NEW cont
    PROVE  Good(ForStep(m, items, n, cont))
  <1>1. PICK why : why = ForRound(Tail(items), n + 1, cont)
    OBVIOUS
  <1>2. why.k \in Inside /\ why.k \in Whys
    BY <1>1 DEF ForRound, Inside, Whys
  <1>3. \A env : Good(Push(m, Goal(m).body, env, Frame(m).depth + 1, why))
    BY <1>2, PushInsideGood
  <1>4. \/ ForStep(m, items, n, cont) = Continue(m, cont)
        \/ ForStep(m, items, n, cont) = Then(m, Error)
        \/ \E env : ForStep(m, items, n, cont) = Push(m, Goal(m).body, env, Frame(m).depth + 1, why)
    BY <1>1 DEF ForStep
  <1>. QED
    BY <1>3, <1>4, ContinueGood, ErrorGood

LEMMA WhileStepGood ==
    ASSUME NEW m, Balanced(m), m.stack # <<>>, NEW n, NEW cont
    PROVE  Good(WhileStep(m, n, cont))
  <1>1. PICK why : why = WhileRound(n, cont)
    OBVIOUS
  <1>2. why.k \in Inside /\ why.k \in Whys
    BY <1>1 DEF WhileRound, Inside, Whys
  <1>3. Good(Push(m, Goal(m).body, cont, Frame(m).depth + 1, why))
    BY <1>2, PushInsideGood
  <1>4. Bool(FALSE) # Bool(TRUE)
    BY DEF Bool
  <1>5. \/ WhileStep(m, n, cont) = Continue(m, cont)
        \/ WhileStep(m, n, cont) = Then(m, Error)
        \/ WhileStep(m, n, cont) = Push(m, Goal(m).body, cont, Frame(m).depth + 1, why)
    BY <1>1, <1>4 DEF WhileStep
  <1>. QED
    BY <1>3, <1>5, ContinueGood, ErrorGood

LEMMA SwitchStepGood ==
    ASSUME NEW m, Balanced(m), m.stack # <<>>, NEW v
    PROVE  Good(SwitchStep(m, v))
  <1>1. PICK why : why = [k |-> "switch"]
    OBVIOUS
  <1>2. why.k \in Inside /\ why.k \in Whys
    BY <1>1 DEF Inside, Whys
  <1>3. \A gs : Good(Push(m, gs, Frame(m).env, Frame(m).depth + 1, why))
    BY <1>2, PushInsideGood
  <1>4. \/ SwitchStep(m, v) = Continue(m, Frame(m).env)
        \/ \E gs : SwitchStep(m, v) = Push(m, gs, Frame(m).env, Frame(m).depth + 1, why)
    BY <1>1, Zenon DEF SwitchStep
  <1>. QED
    BY <1>3, <1>4, ContinueGood

\* The goal that waits for a value is one that can do something with it.
LEMMA WaitingGoal ==
    ASSUME NEW m, Balanced(m), m.stack # <<>>, WaitsNow(m)
    PROVE  /\ Goal(m).k \in ByValue
           /\ Goal(m).k = "where" /\ Goal(m).op = "ne" => Marked(m.trails, Len(m.stack))
  BY GoalNow DEF WaitsNow, Waits

\* The program ends where it began.
LEMMA EndGood ==
    ASSUME NEW m, Balanced(m), FitsNow(m, m.now), m.stack = <<>>, NEW r
    PROVE  Good([m EXCEPT !.result = r])
  <1>1. PICK k : k = [m EXCEPT !.result = r]
    OBVIOUS
  <1>2. /\ IsMachine(k) /\ k.stack = m.stack /\ k.trails = m.trails /\ k.negated = m.negated
        /\ k.now = m.now
    BY <1>1 DEF Balanced, IsMachine
  <1>. QED
    BY <1>1, <1>2 DEF Balanced, Good, FitsNow

LEMMA DeliverGood ==
    ASSUME NEW m, Balanced(m), FitsNow(m, m.now), WaitsNow(m), NEW v
    PROVE  Good(Deliver(m, v))
  <1>1. CASE m.stack = <<>>
    <2>1. Deliver(m, v) = [m EXCEPT !.result = v]
      BY <1>1, Zenon DEF Deliver
    <2>. QED
      BY <1>1, <2>1, EndGood
  <1>2. CASE m.stack # <<>>
    <2>1. PICK k : k = Goal(m).k
      OBVIOUS
    <2>2. k \in ByValue
      BY <1>2, <2>1, WaitingGoal
    <2>3. CASE k = "assign"
      <3>1. PICK r : r = Record(m, Len(m.stack))
        OBVIOUS
      <3>2. Balanced(r) /\ r.stack # <<>>
        BY <1>2, <3>1, GoalNow, RecordBalanced
      <3>3. \E env : Deliver(m, v) = Continue(r, env)
        BY <1>2, <2>1, <2>3, <3>1 DEF Deliver
      <3>. QED
        BY <3>2, <3>3, ContinueGood
    <2>4. CASE k \in {"typed", "expr"}
      <3>1. Deliver(m, v) = Then(m, Error) \/ \E env : Deliver(m, v) = Continue(m, env)
        BY <1>2, <2>1, <2>4 DEF Deliver
      <3>. QED
        BY <1>2, <3>1, ErrorGood, ContinueGood
    <2>5. CASE k = "where"
      <3>1. Deliver(m, v) = Compared(m, v)
        BY <1>2, <2>1, <2>5 DEF Deliver
      <3>2. Goal(m).op = "ne" => Marked(m.trails, Len(m.stack))
        BY <1>2, <2>1, <2>5, WaitingGoal
      <3>. QED
        BY <1>2, <3>1, <3>2, ComparedGood
    <2>6. CASE k = "for"
      <3>1. \E x : /\ Deliver(m, v) = Then(m, x)
                   /\ x = ForRound(v[2], 0, Frame(m).env) \/ x = Error
        BY <1>2, <2>1, <2>6 DEF Deliver
      <3>2. ForRound(v[2], 0, Frame(m).env).k \in Inside
        BY DEF ForRound, Inside
      <3>. QED
        BY <1>2, <3>1, <3>2, InsideGood, ErrorGood
    <2>7. CASE k = "switch"
      <3>1. Deliver(m, v) = SwitchStep(m, v)
        BY <1>2, <2>1, <2>7 DEF Deliver
      <3>. QED
        BY <1>2, <3>1, SwitchStepGood
    <2>. QED
      BY <2>2, <2>3, <2>4, <2>5, <2>6, <2>7 DEF ByValue
  <1>. QED
    BY <1>1, <1>2

LEMMA DeliverNoneGood ==
    ASSUME NEW m, Balanced(m), FitsNow(m, m.now), WaitsNow(m)
    PROVE  Good(DeliverNone(m))
  <1>1. CASE m.stack = <<>>
    <2>1. DeliverNone(m) = [m EXCEPT !.result = Failed]
      BY <1>1, Zenon DEF DeliverNone
    <2>. QED
      BY <1>1, <2>1, EndGood
  <1>2. CASE m.stack # <<>> /\ Goal(m).k = "where"
    <2>1. DeliverNone(m) = Compared(m, Undefined)
      BY <1>2 DEF DeliverNone
    <2>2. Goal(m).op = "ne" => Marked(m.trails, Len(m.stack))
      BY <1>2, WaitingGoal
    <2>. QED
      BY <1>2, <2>1, <2>2, ComparedGood
  <1>3. CASE m.stack # <<>> /\ Goal(m).k # "where"
    <2>1. DeliverNone(m) = Then(m, Error) \/ DeliverNone(m) = DropFrame(m)
      BY <1>3 DEF DeliverNone
    <2>. QED
      BY <1>3, <2>1, ErrorGood, DropFrameGood
  <1>. QED
    BY <1>1, <1>2, <1>3

LEMMA CallStepGood ==
    ASSUME NEW m, Balanced(m), m.stack # <<>>, NEW i, NEW conts
    PROVE  Good(CallStep(m, i, conts))
  <1>1. PICK o : o = [k |-> "goal", i |-> i, conts |-> conts]
    OBVIOUS
  <1>2. OwnedNow(m, o)
    BY <1>1, GoalNow DEF OwnedNow, Owned
  <1>3. \A c, args, env, d : Good(Then(m, MethodCall(c, args, env, d, o)))
    BY <1>2, MethodCallGood
  <1>4. \A work : Good(SetWork(m, work))
    BY SetWorkGood
  <1>5. ASSUME NEW next, NEW cs
        PROVE  Good(Then([m EXCEPT !.next = next], [k |-> "clauses", i |-> i + 1, conts |-> cs]))
    <2>1. PICK k : k = [m EXCEPT !.next = next]
      OBVIOUS
    <2>2. Same(m, k)
      BY <2>1 DEF Balanced, IsMachine, Same
    <2>3. [k |-> "clauses", i |-> i + 1, conts |-> cs].k \in Inside
      BY DEF Inside
    <2>4. Balanced(k) /\ k.stack # <<>>
      BY <2>2, SameBalanced DEF Same
    <2>. QED
      BY <2>1, <2>3, <2>4, InsideGood
  <1>6. \/ \E work : CallStep(m, i, conts) = SetWork(m, work)
        \/ \E c, args, env, d : CallStep(m, i, conts) = Then(m, MethodCall(c, args, env, d, o))
        \/ \E next, cs : CallStep(m, i, conts)
               = Then([m EXCEPT !.next = next], [k |-> "clauses", i |-> i + 1, conts |-> cs])
    BY <1>1 DEF CallStep
  <1>. QED
    BY <1>3, <1>4, <1>5, <1>6

LEMMA ScanStepGood ==
    ASSUME NEW m, Balanced(m), m.stack # <<>>, NEW rows
    PROVE  Good(ScanStep(m, rows))
  <1>1. ASSUME NEW gs, NEW env, NEW d, NEW after, NEW p,
               p = Push(m, gs, env, d, [k |-> "scan", rows |-> after])
        PROVE  Good(SetTop(p, [Top(p) EXCEPT !.out = Top(m).out, !.max = Top(m).max]))
    <2>1. PICK why : why = [k |-> "scan", rows |-> after]
      OBVIOUS
    <2>2. why.k \in Inside /\ why.k \in Whys
      BY <2>1 DEF Inside, Whys
    <2>3. Balanced(p) /\ p.stack # <<>>
      BY <1>1, <2>1, <2>2, PushInsideGood
    <2>4. PICK a : a = [Top(p) EXCEPT !.out = Top(m).out, !.max = Top(m).max]
      OBVIOUS
    <2>5. IsActivation(Top(p))
      BY <2>3, TopActivation
    <2>6. IsActivation(a) /\ a.negated = Top(p).negated /\ a.why = Top(p).why
      BY <2>4, <2>5 DEF IsActivation
    <2>. QED
      BY <2>3, <2>4, <2>6, SetTopGood
  <1>2. \/ ScanStep(m, rows) = DropFrame(m)
        \/ \E gs, env, d, after, p :
              /\ p = Push(m, gs, env, d, [k |-> "scan", rows |-> after])
              /\ ScanStep(m, rows) = SetTop(p, [Top(p) EXCEPT !.out = Top(m).out, !.max = Top(m).max])
    BY Zenon DEF ScanStep
  <1>. QED
    BY <1>1, <1>2, DropFrameGood

LEMMA CatchStepGood ==
    ASSUME NEW m, Balanced(m), m.stack # <<>>, NEW j
    PROVE  Good(CatchStep(m, j))
  <1>1. PICK why : why = [k |-> "catch", j |-> j]
    OBVIOUS
  <1>2. why.k \in Inside /\ why.k \in Whys
    BY <1>1 DEF Inside, Whys
  <1>3. \A gs, env, d : Good(Push(m, gs, env, d, why))
    BY <1>2, PushInsideGood
  <1>4. \/ CatchStep(m, j) = Then(m, Error)
        \/ \E gs, env, d : CatchStep(m, j) = Push(m, gs, env, d, why)
    BY <1>1, Zenon DEF CatchStep
  <1>. QED
    BY <1>3, <1>4, ErrorGood

------------------------------------------------------------------------------
(* Returns and exceptions *)

LEMMA BodyDoneGood ==
    ASSUME NEW m, Balanced(m), NEW why, OwnedNow(m, why.mr.owner), NEW found, NEW env
    PROVE  Good(BodyDone(m, why, found, env))
  <1>1. \/ BodyDone(m, why, found, env) = MethodNone(m, why.mr)
        \/ \E e : BodyDone(m, why, found, env) = MethodReturned(m, why.mr, e)
    BY Zenon DEF BodyDone
  <1>. QED
    BY <1>1, MethodNoneGood, MethodReturnedGood

\* What an activation was opened for tells what is below it.
LEMMA WhyNow ==
    ASSUME NEW m, Balanced(m), NEW why, FitsNow(m, why)
    PROVE  /\ why.k \in Inside => m.stack # <<>>
           /\ why.k \in ForValue => WaitsNow(m)
           /\ why.k \in OfMethod => OwnedNow(m, why.mr.owner)
  <1>1. m.stack = <<>> => Len(m.stack) = 0
    OBVIOUS
  <1>. QED
    BY <1>1 DEF FitsNow, Fits, WaitsNow, OwnedNow, Inside, ForValue, OfMethod

LEMMA ReturnedGood ==
    ASSUME NEW m, Balanced(m), m.stack # <<>>
    PROVE  Good(Returned(m))
  <1>1. PICK why, back : why = Top(m).why /\ back = Pop(m)
    OBVIOUS
  <1>2. PICK found : found = (Top(m).out # <<>>)
    OBVIOUS
  <1>3. PICK env : env = IF found THEN Top(m).out[1] ELSE NoBindings
    OBVIOUS
  <1>4. Balanced(back) /\ FitsNow(back, why) /\ why.k \in Whys
    BY <1>1, PopBalanced
  <1>5. /\ why.k \in Inside => back.stack # <<>>
        /\ why.k \in ForValue => WaitsNow(back)
        /\ why.k \in OfMethod => OwnedNow(back, why.mr.owner)
    BY <1>4, WhyNow
  <1>6. CASE why.k = "for"
    <2>1. Returned(m) = Then(back, why)
      BY <1>1, <1>2, <1>3, <1>6 DEF Returned
    <2>. QED
      BY <1>4, <2>1, ThenGood
  <1>7. CASE why.k = "while"
    <2>1. \/ Returned(m) = Then(back, WhileRound(why.n + 1, why.cont))
          \/ Returned(m) = Continue(back, why.cont)
      BY <1>1, <1>2, <1>3, <1>7 DEF Returned
    <2>2. WhileRound(why.n + 1, why.cont).k \in Inside
      BY DEF WhileRound, Inside
    <2>3. back.stack # <<>>
      BY <1>5, <1>7 DEF Inside
    <2>. QED
      BY <1>4, <2>1, <2>2, <2>3, InsideGood, ContinueGood
  <1>8. CASE why.k \in {"switch", "try", "catch", "not"}
    <2>1. \E f, e : Returned(m) = Leaving(back, f, e)
      BY <1>1, <1>2, <1>3, <1>8 DEF Returned
    <2>2. back.stack # <<>>
      BY <1>5, <1>8 DEF Inside
    <2>. QED
      BY <1>4, <2>1, <2>2, LeavingGood
  <1>9. CASE why.k = "scan"
    <2>1. PICK a : a = [Top(back) EXCEPT !.out = Top(m).out]
      OBVIOUS
    <2>2. PICK x : x = [k |-> "rows", rows |-> why.rows]
      OBVIOUS
    <2>3. Returned(m) = Then(SetTop(back, a), x)
      BY <1>1, <1>2, <1>3, <1>9, <2>1, <2>2 DEF Returned
    <2>4. back.stack # <<>>
      BY <1>5, <1>9 DEF Inside
    <2>5. IsActivation(a) /\ a.negated = Top(back).negated /\ a.why = Top(back).why
      <3>1. IsActivation(Top(back))
        BY <1>4, <2>4, TopActivation
      <3>. QED
        BY <2>1, <3>1 DEF IsActivation
    <2>6. Balanced(SetTop(back, a)) /\ SetTop(back, a).stack # <<>>
      BY <1>4, <2>4, <2>5, SetTopGood
    <2>7. x.k \in Inside
      BY <2>2 DEF Inside
    <2>. QED
      BY <2>3, <2>6, <2>7, InsideGood
  <1>10. CASE why.k \in OfMethod /\ why.k # "truth" /\ why.k # "body"
    <2>1. OwnedNow(back, why.mr.owner)
      BY <1>5, <1>10
    <2>2. why.k \in {"prelude", "guard", "fallback"}
      BY <1>4, <1>10 DEF OfMethod, Whys
    <2>3. \/ Returned(m) = Guard(back, why.mr, env)
          \/ Returned(m) = MethodNone(back, why.mr)
          \/ Returned(m) = MethodReturned(back, why.mr, env)
          \/ \E j : Returned(m) = Fallback(back, why.mr, why.env, j)
      BY <1>1, <1>2, <1>3, <2>2 DEF Returned
    <2>. QED
      BY <1>4, <2>1, <2>3, GuardGood, MethodNoneGood, MethodReturnedGood, FallbackGood
  <1>11. CASE why.k = "body"
    <2>1. OwnedNow(back, why.mr.owner)
      BY <1>5, <1>11 DEF OfMethod
    <2>2. Returned(m) = BodyDone(back, why, found, env)
      BY <1>1, <1>2, <1>3, <1>11 DEF Returned
    <2>. QED
      BY <1>4, <2>1, <2>2, BodyDoneGood
  <1>12. CASE why.k = "truth"
    <2>1. OwnedNow(back, why.mr.owner)
      BY <1>5, <1>12 DEF OfMethod
    <2>2. \E e, truths, j : Returned(m) = Truth(back, why.mr, e, truths, j)
      BY <1>1, <1>2, <1>3, <1>12 DEF Returned
    <2>. QED
      BY <1>4, <2>1, <2>2, TruthGood
  <1>13. CASE why.k \in ForValue
    <2>1. WaitsNow(back)
      BY <1>5, <1>13
    <2>2. why.k \in {"infer", "called"}
      BY <1>4, <1>13 DEF ForValue, Whys
    <2>3. \/ \E v : Returned(m) = ValueReturned(back, why.vc, v)
          \/ \E x : Returned(m) = Then(back, [k |-> "once", vc |-> x])
          \/ Returned(m) = ValueNone(back, why.vc)
      BY <1>1, <1>2, <1>3, <2>2 DEF Returned
    <2>4. \A x : [k |-> "once", vc |-> x].k \in ForValue
      BY DEF ForValue
    <2>. QED
      BY <1>4, <2>1, <2>3, <2>4, ValueReturnedGood, ForValueGood
  <1>. QED
    BY <1>4, <1>6, <1>7, <1>8, <1>9, <1>10, <1>11, <1>12, <1>13
    DEF Whys, OfMethod, ForValue

LEMMA UnwoundGood ==
    ASSUME NEW m, Balanced(m), m.stack # <<>>, m.now.k = "throw"
    PROVE  Good(Unwound(m))
  <1>1. PICK why, back, sig : why = Top(m).why /\ back = Pop(m) /\ sig = Escaping(m)
    OBVIOUS
  <1>2. Balanced(back) /\ FitsNow(back, why) /\ why.k \in Whys
    BY <1>1, PopBalanced
  <1>3. why.k \in Inside => back.stack # <<>>
    BY <1>2, WhyNow
  <1>4. sig.k = "throw"
    BY <1>1 DEF Escaping, Error
  <1>5. CASE sig.s = "break" /\ why.k \in {"for", "while", "switch"}
    <2>1. \E env : Unwound(m) = Continue(back, env)
      BY <1>1, <1>5 DEF Unwound
    <2>2. back.stack # <<>>
      BY <1>3, <1>5 DEF Inside
    <2>. QED
      BY <1>2, <2>1, <2>2, ContinueGood
  <1>6. CASE sig.s = "continue" /\ why.k = "for"
    <2>1. Unwound(m) = Then(back, why)
      BY <1>1, <1>6 DEF Unwound
    <2>. QED
      BY <1>2, <2>1, ThenGood
  <1>7. CASE sig.s = "continue" /\ why.k = "while"
    <2>1. Unwound(m) = Then(back, WhileRound(why.n + 1, why.cont))
      BY <1>1, <1>7 DEF Unwound
    <2>2. WhileRound(why.n + 1, why.cont).k \in Inside
      BY DEF WhileRound, Inside
    <2>3. back.stack # <<>>
      BY <1>3, <1>7 DEF Inside
    <2>. QED
      BY <1>2, <2>1, <2>2, <2>3, InsideGood
  <1>8. CASE \/ sig.s = "error" /\ why.k = "try"
             \/ sig.s = "error" /\ why.k = "catch" /\ why.j < Len(Goal(back).catches)
    <2>1. \E j : Unwound(m) = CatchStep(back, j)
      BY <1>1, <1>8 DEF Unwound
    <2>2. back.stack # <<>>
      BY <1>3, <1>8 DEF Inside
    <2>. QED
      BY <1>2, <2>1, <2>2, CatchStepGood
  <1>9. CASE /\ sig.s = "tail" /\ why.k \in {"body", "prelude", "guard", "fallback"}
             /\ why.mr.owner.k = "value"
    <2>1. PICK x : x = why.mr.owner.vc.outer
      OBVIOUS
    <2>2. Unwound(m) = StartCall([back EXCEPT !.mode = x], sig.f, sig.args, sig.env)
      BY <1>1, <1>9, <2>1 DEF Unwound
    <2>3. WaitsNow(back)
      <3>1. OwnedNow(back, why.mr.owner)
        BY <1>2, <1>9, WhyNow DEF OfMethod
      <3>. QED
        BY <1>9, <3>1 DEF OwnedNow, Owned, WaitsNow
    <2>4. Same(back, [back EXCEPT !.mode = x])
      BY <1>2, ModeSame DEF Balanced
    <2>. QED
      BY <1>2, <2>2, <2>3, <2>4, SameBalanced, SameNow, StartCallGood
  <1>10. CASE /\ ~(sig.s = "break" /\ why.k \in {"for", "while", "switch"})
              /\ ~(sig.s = "continue" /\ why.k \in {"for", "while"})
              /\ ~(sig.s = "error" /\ why.k = "try")
              /\ ~(sig.s = "error" /\ why.k = "catch" /\ why.j < Len(Goal(back).catches))
              /\ ~(/\ sig.s = "tail" /\ why.k \in {"body", "prelude", "guard", "fallback"}
                   /\ why.mr.owner.k = "value")
    <2>1. Unwound(m) = Then(back, sig)
      BY <1>1, <1>10 DEF Unwound
    <2>. QED
      BY <1>2, <1>4, <2>1, ThrowGood
  <1>. QED
    BY <1>5, <1>6, <1>7, <1>8, <1>9, <1>10

------------------------------------------------------------------------------
(* The solver *)

LEMMA IdleBalanced ==
    ASSUME NEW x
    PROVE  /\ Balanced([Idle EXCEPT !.mode = x]) /\ WaitsNow([Idle EXCEPT !.mode = x])
           /\ [Idle EXCEPT !.mode = x].stack = <<>>
           /\ Balanced(Idle) /\ WaitsNow(Idle)
  <1>1. <<>> \in Seq({}) /\ Len(<<>>) = 0
    OBVIOUS
  <1>2. IsASequence(<<>>)
    BY <1>1, AnySequence
  <1>3. Sound(<<>>, <<>>, {})
    BY <1>1, <1>2 DEF Sound, Ordered, FoundOutside
  <1>4. PICK k : k = [Idle EXCEPT !.mode = x]
    OBVIOUS
  <1>5. /\ IsMachine(Idle) /\ Idle.stack = <<>> /\ Idle.trails = <<>> /\ Idle.negated = {}
        /\ Idle.result = Pending
    BY DEF Idle, IsMachine
  <1>6. Same(Idle, k)
    BY <1>4, <1>5, ModeSame
  <1>7. Balanced(Idle) /\ WaitsNow(Idle)
    BY <1>1, <1>3, <1>5 DEF Balanced, WaitsNow, Waits
  <1>. QED
    BY <1>4, <1>5, <1>6, <1>7, SameBalanced, SameNow DEF Same

LEMMA InitMachineInv == Init => MachineInv
  <1> SUFFICES ASSUME Init
               PROVE  Good(Begin)
    BY DEF Init, MachineInv
  <1>1. CASE program.main
    <2>1. PICK x : x = [Idle.mode EXCEPT !.strict = TRUE]
      OBVIOUS
    <2>2. PICK k : k = [Idle EXCEPT !.mode = x]
      OBVIOUS
    <2>3. Begin = Then(k, MethodCall(Last(Clauses("main")), <<>>, NoBindings, 0, [k |-> "main"]))
      BY <1>1, <2>1, <2>2 DEF Begin
    <2>4. Balanced(k) /\ k.stack = <<>>
      BY <2>2, IdleBalanced
    <2>5. PICK o : o = [k |-> "main"]
      OBVIOUS
    <2>6. OwnedNow(k, o)
      BY <2>4, <2>5 DEF OwnedNow, Owned
    <2>. QED
      BY <2>3, <2>4, <2>5, <2>6, MethodCallGood
  <1>2. CASE ~program.main
    <2>1. Begin = StartCall(Idle, program.entry[2], program.entry[3], NoBindings)
      BY <1>2 DEF Begin
    <2>. QED
      BY <2>1, IdleBalanced, StartCallGood
  <1>. QED
    BY <1>1, <1>2

LEMMA StepMachineInv == MachineInv /\ [Next]_vars => MachineInv'
<1> SUFFICES ASSUME MachineInv, [Next]_vars
             PROVE  Good(machine')
  BY Zenon DEF MachineInv
<1>1. CASE UNCHANGED vars
  BY <1>1, Zenon DEF MachineInv, vars
<1>2. ASSUME NEW k, Now(k)
      PROVE  /\ Balanced(machine) /\ FitsNow(machine, machine.now) /\ machine.now.k = k
             /\ k \in Inside => machine.stack # <<>>
             /\ k \in ForValue => WaitsNow(machine)
             /\ k \in OfMethod => OwnedNow(machine, machine.now.mr.owner)
  <2>1. Balanced(machine) /\ FitsNow(machine, machine.now) /\ machine.now.k = k
    BY <1>2 DEF MachineInv, Good, Balanced, FitsNow, Now
  <2>. QED
    BY <2>1, WhyNow
<1>3. Now("solve") => Balanced(machine) /\ machine.stack # <<>>
  BY <1>2 DEF Inside
\* An expression of the goal on top: what waits is that goal.
<1>4. ASSUME Now("solve"), Goal(machine).k \in ByValue,
             ~(Goal(machine).k = "where" /\ Goal(machine).op = "ne"), NEW e
      PROVE  Good(Evaluate(machine, e))
  <2>1. WaitsNow(machine)
    BY <1>3, <1>4, GoalNow DEF WaitsNow, Waits
  <2>. QED
    BY <1>3, <1>4, <2>1, EvaluateGood
<1>5. CASE DepthExceeded
  BY <1>3, <1>5, ErrorGood DEF DepthExceeded, Solving, Become
<1>6. CASE Solution
  <2>1. PICK a : a = [Top(machine) EXCEPT !.out = Append(@, Frame(machine).env), !.work = Tail(@)]
    OBVIOUS
  <2>2. Now("solve") /\ machine' = SetTop(machine, a)
    BY <1>6, <2>1, Zenon DEF Solution, Solving, Become
  <2>3. IsActivation(a) /\ a.negated = Top(machine).negated /\ a.why = Top(machine).why
    <3>1. IsActivation(Top(machine))
      BY <1>3, <2>2, TopActivation
    <3>. QED
      BY <2>1, <3>1 DEF IsActivation
  <2>. QED
    BY <1>3, <2>2, <2>3, SetTopGood
<1>7. CASE ScanFacts
  <2>1. PICK x : x = [k |-> "rows", rows |-> Rows(Goal(machine).p)]
    OBVIOUS
  <2>2. Now("solve") /\ machine' = Then(machine, x)
    BY <1>7, <2>1 DEF ScanFacts, Solving, Become
  <2>3. x.k \in Inside
    BY <2>1 DEF Inside
  <2>. QED
    BY <1>3, <2>2, <2>3, InsideGood
<1>8. CASE SolveAssign
  <2>1. Now("solve") /\ Goal(machine).k = "assign"
    BY <1>8 DEF SolveAssign, At, Solving
  <2>2. Good(Evaluate(machine, Goal(machine).e))
    BY <1>4, <2>1 DEF ByValue
  <2>3. machine' = Then(machine, Error) \/ machine' = Evaluate(machine, Goal(machine).e)
    BY <1>8, Zenon DEF SolveAssign, Become
  <2>. QED
    BY <1>3, <2>1, <2>2, <2>3, ErrorGood
<1>9. CASE SolveTyped \/ SolveFor \/ SolveSwitch
  <2>1. Now("solve") /\ Goal(machine).k \in {"typed", "for", "switch"}
    BY <1>9 DEF SolveTyped, SolveFor, SolveSwitch, At, Solving
  <2>2. Good(Evaluate(machine, Goal(machine).e))
    BY <1>4, <2>1 DEF ByValue
  <2>3. machine' = Evaluate(machine, Goal(machine).e)
    BY <1>9 DEF SolveTyped, SolveFor, SolveSwitch, Become
  <2>. QED
    BY <2>2, <2>3
<1>10. CASE SolveExpression
  <2>1. Now("solve") /\ Goal(machine).k = "expr"
    BY <1>10 DEF SolveExpression, At, Solving
  <2>2. Good(Evaluate(machine, Goal(machine).e))
    BY <1>4, <2>1 DEF ByValue
  <2>3. PICK x : x = [k |-> "throw", s |-> "tail", env |-> Frame(machine).env,
                      f |-> Goal(machine).e[2], args |-> Goal(machine).e[3]]
    OBVIOUS
  <2>4. x.k = "throw"
    BY <2>3
  <2>5. machine' = Then(machine, x) \/ machine' = Evaluate(machine, Goal(machine).e)
    BY <1>10, <2>3, Zenon DEF SolveExpression, Become
  <2>. QED
    BY <1>3, <2>1, <2>2, <2>4, <2>5, ThrowGood
<1>11. CASE SolveWhere
  <2>1. Now("solve") /\ Goal(machine).k = "where"
    BY <1>11 DEF SolveWhere, At, Solving
  <2>2. CASE Goal(machine).op = "ne"
    <3>1. PICK k : k = [machine EXCEPT !.trails = <<[at |-> Len(machine.stack), envs |-> {}]>>
                                                     \o machine.trails]
      OBVIOUS
    <3>2. machine' = Evaluate(k, Goal(machine).l)
      BY <1>11, <2>2, <3>1 DEF SolveWhere, Become
    <3>3. Balanced(k) /\ k.stack = machine.stack /\ Marked(k.trails, Len(machine.stack))
      BY <1>3, <2>1, <3>1, ComparisonBegins
    <3>4. Goal(machine) = GoalAt(k.stack, Len(k.stack))
      BY <1>3, <2>1, <3>3, GoalNow
    <3>5. WaitsNow(k)
      BY <2>1, <3>3, <3>4 DEF WaitsNow, Waits, ByValue
    <3>. QED
      BY <3>2, <3>3, <3>5, EvaluateGood
  <2>3. CASE Goal(machine).op = "less"
    <3>1. machine' = Compared(machine, Undefined)
      BY <1>11, <2>3 DEF SolveWhere, Become
    <3>. QED
      BY <1>3, <2>1, <2>3, <3>1, ComparedGood
  <2>4. CASE Goal(machine).op \notin {"ne", "less"}
    <3>1. machine' = Evaluate(machine, Goal(machine).l)
      BY <1>11, <2>4 DEF SolveWhere, Become
    <3>. QED
      BY <1>4, <2>1, <2>4, <3>1 DEF ByValue
  <2>. QED
    BY <2>2, <2>3, <2>4
<1>12. CASE SolveNot
  <2>1. Now("solve")
    BY <1>12 DEF SolveNot, At, Solving
  <2>2. PICK why : why = [k |-> "not"]
    OBVIOUS
  <2>3. PICK p : p = Push(machine, <<CallGoal(Goal(machine).p, Goal(machine).args)>>,
                          Frame(machine).env, Frame(machine).depth + 2, why)
    OBVIOUS
  <2>4. Good(p) /\ p.stack # <<>>
    <3>1. why.k \in Inside /\ why.k \in Whys
      BY <2>2 DEF Inside, Whys
    <3>. QED
      BY <1>3, <2>1, <2>3, <3>1, PushInsideGood
  <2>5. \A N : Good([p EXCEPT !.negated = N])
    BY <2>4, NegatedGood
  <2>6. machine' = Then(machine, Error) \/ \E N : machine' = [p EXCEPT !.negated = N]
    BY <1>12, <2>2, <2>3, Zenon DEF SolveNot, Become
  <2>. QED
    BY <1>3, <2>1, <2>5, <2>6, ErrorGood
<1>13. CASE SolveWhile
  <2>1. Now("solve") /\ machine' = Then(machine, WhileRound(0, Frame(machine).env))
    BY <1>13 DEF SolveWhile, At, Solving, Become
  <2>2. WhileRound(0, Frame(machine).env).k \in Inside
    BY DEF WhileRound, Inside
  <2>. QED
    BY <1>3, <2>1, <2>2, InsideGood
<1>14. CASE SolveTry
  <2>1. PICK why : why = [k |-> "try"]
    OBVIOUS
  <2>2. why.k \in Inside /\ why.k \in Whys
    BY <2>1 DEF Inside, Whys
  <2>3. /\ Now("solve")
        /\ machine' = Push(machine, Goal(machine).body, Frame(machine).env,
                           Frame(machine).depth + 1, why)
    BY <1>14, <2>1 DEF SolveTry, At, Solving, Become
  <2>. QED
    BY <1>3, <2>2, <2>3, PushInsideGood
<1>15. CASE SolveBreak
  <2>1. PICK x : x = [k |-> "throw", s |-> Goal(machine).k, env |-> Frame(machine).env]
    OBVIOUS
  <2>2. Now("solve") /\ machine' = Then(machine, x) /\ x.k = "throw"
    BY <1>15, <2>1 DEF SolveBreak, At, Solving, Become
  <2>. QED
    BY <1>3, <2>2, ThrowGood
<1>16. CASE SolveCall
  <2>1. PICK x : x = [k |-> "clauses", i |-> 1, conts |-> <<>>]
    OBVIOUS
  <2>2. Now("solve") /\ machine' = Then(machine, x)
    BY <1>16, <2>1 DEF SolveCall, At, Solving, Become
  <2>3. x.k \in Inside
    BY <2>1 DEF Inside
  <2>. QED
    BY <1>3, <2>2, <2>3, InsideGood
<1>17. CASE TryClause
  <2>1. Now("clauses") /\ machine' = CallStep(machine, machine.now.i, machine.now.conts)
    BY <1>17 DEF TryClause, Become
  <2>2. Balanced(machine) /\ machine.stack # <<>>
    BY <1>2, <2>1 DEF Inside
  <2>. QED
    BY <2>1, <2>2, CallStepGood
<1>18. CASE TryRow
  <2>1. Now("rows") /\ machine' = ScanStep(machine, machine.now.rows)
    BY <1>18 DEF TryRow, Become
  <2>2. Balanced(machine) /\ machine.stack # <<>>
    BY <1>2, <2>1 DEF Inside
  <2>. QED
    BY <2>1, <2>2, ScanStepGood
<1>19. CASE NextItem
  <2>1. /\ Now("for")
        /\ machine' = ForStep(machine, machine.now.items, machine.now.n, machine.now.cont)
    BY <1>19 DEF NextItem, Become
  <2>2. Balanced(machine) /\ machine.stack # <<>>
    BY <1>2, <2>1 DEF Inside
  <2>. QED
    BY <2>1, <2>2, ForStepGood
<1>20. CASE TestCondition
  <2>1. Now("while") /\ machine' = WhileStep(machine, machine.now.n, machine.now.cont)
    BY <1>20 DEF TestCondition, Become
  <2>2. Balanced(machine) /\ machine.stack # <<>>
    BY <1>2, <2>1 DEF Inside
  <2>. QED
    BY <2>1, <2>2, WhileStepGood
<1>21. CASE CallForValue
  <2>1. Now("once") /\ machine' = Once(machine, machine.now.vc)
    BY <1>21 DEF CallForValue, Become
  <2>2. Balanced(machine) /\ WaitsNow(machine)
    BY <1>2, <2>1 DEF ForValue
  <2>. QED
    BY <2>1, <2>2, OnceGood
<1>22. CASE EnterMethod
  <2>1. Now("method") /\ machine' = StartMethod(machine, machine.now)
    BY <1>22 DEF EnterMethod, Become
  <2>2. Balanced(machine) /\ FitsNow(machine, machine.now) /\ machine.now.k = "method"
    BY <1>2, <2>1
  <2>3. OwnedNow(machine, machine.now.owner)
    BY <2>2 DEF FitsNow, Fits, OwnedNow, Inside, ForValue, OfMethod
  <2>. QED
    BY <2>1, <2>2, <2>3, StartMethodGood
<1>23. CASE MethodAnswers
  <2>1. /\ Now("returned")
        /\ \E found : machine' = LeaveMethod(machine, machine.now.mr, found)
    BY <1>23 DEF MethodAnswers, Become
  <2>2. /\ Balanced(machine) /\ FitsNow(machine, machine.now)
        /\ OwnedNow(machine, machine.now.mr.owner)
    BY <1>2, <2>1 DEF OfMethod
  <2>. QED
    BY <2>1, <2>2, LeaveMethodGood
<1>24. CASE MethodFails
  <2>1. Now("failed") /\ machine' = LeaveMethod(machine, machine.now.mr, <<>>)
    BY <1>24 DEF MethodFails, Become
  <2>2. /\ Balanced(machine) /\ FitsNow(machine, machine.now)
        /\ OwnedNow(machine, machine.now.mr.owner)
    BY <1>2, <2>1 DEF OfMethod
  <2>. QED
    BY <2>1, <2>2, LeaveMethodGood
<1>25. CASE ValueArrives
  <2>1. Now("value") /\ machine' = Deliver(machine, machine.now.v)
    BY <1>25 DEF ValueArrives, Become
  <2>2. Balanced(machine) /\ FitsNow(machine, machine.now) /\ WaitsNow(machine)
    BY <1>2, <2>1 DEF ForValue
  <2>. QED
    BY <2>1, <2>2, DeliverGood
<1>26. CASE NoValueArrives
  <2>1. Now("novalue") /\ machine' = DeliverNone(machine)
    BY <1>26 DEF NoValueArrives, Become
  <2>2. Balanced(machine) /\ FitsNow(machine, machine.now) /\ WaitsNow(machine)
    BY <1>2, <2>1 DEF ForValue
  <2>. QED
    BY <2>1, <2>2, DeliverNoneGood
<1>27. CASE Return
  BY <1>3, <1>27, ReturnedGood DEF Return, Become
<1>28. CASE Unwind
  <2>1. Balanced(machine) /\ FitsNow(machine, machine.now) /\ machine.now.k = "throw"
    BY <1>2, <1>28 DEF Unwind
  <2>2. CASE machine.stack = <<>>
    <3>1. machine' = [machine EXCEPT !.result = Stopped]
      BY <1>28, <2>2, Zenon DEF Unwind, Become
    <3>. QED
      BY <2>1, <2>2, <3>1, EndGood
  <2>3. CASE machine.stack # <<>>
    <3>1. machine' = Unwound(machine)
      BY <1>28, <2>3, Zenon DEF Unwind, Become
    <3>. QED
      BY <2>1, <2>3, <3>1, UnwoundGood
  <2>. QED
    BY <2>2, <2>3
<1>29. CASE Ended
  BY <1>29, Zenon DEF MachineInv, Ended, vars
<1> QED
  BY <1>1, <1>5, <1>6, <1>7, <1>8, <1>9, <1>10, <1>11, <1>12, <1>13, <1>14, <1>15, <1>16,
     <1>17, <1>18, <1>19, <1>20, <1>21, <1>22, <1>23, <1>24, <1>25, <1>26, <1>27, <1>28, <1>29
  DEF Next

LEMMA MachineInvariance == Spec => []MachineInv
BY InitMachineInv, StepMachineInv, PTL DEF Spec

\* Whatever ends a program, a value or an error thrown through calls, negations
\* and handlers, nothing they had set is left: the scopes of solveIterative and
\* solveNotGoal, and the trail of solveWhereGoal.
THEOREM RestoredHolds == Spec => []Restored
<1>1. MachineInv => Restored
  <2> SUFFICES ASSUME MachineInv, machine.result # Pending
               PROVE  machine.stack = <<>> /\ machine.negated = {} /\ machine.trails = <<>>
    BY DEF Restored
  <2>1. machine.stack = <<>> /\ Sound(machine.stack, machine.trails, machine.negated)
    BY DEF MachineInv, Good
  <2>2. machine.negated = {}
    BY <2>1 DEF Sound, FoundOutside
  <2>3. Ordered(machine.trails, 0)
    <3>1. Len(machine.stack) = 0
      BY <2>1
    <3>. QED
      BY <2>1, <3>1 DEF Sound
  <2>4. machine.trails = <<>>
    <3>1. PICK l \in Nat : l = Len(machine.trails) /\ DOMAIN machine.trails = 1 .. l
      BY <2>3, SequenceOfElements DEF Ordered
    <3>2. l = 0
      <4>1. \A i \in 1 .. l : machine.trails[i].at \in 1 .. 0
        BY <2>3, <3>1 DEF Ordered
      <4>2. \A i \in 1 .. 0 : FALSE
        OBVIOUS
      <4>. QED
        BY <4>1, <4>2
    <3>. QED
      BY <2>3, <3>1, <3>2, EmptySequence DEF Ordered
  <2>. QED
    BY <2>1, <2>2, <2>4
<1> QED
  BY MachineInvariance, <1>1, PTL

------------------------------------------------------------------------------
(* The solver: what its activations may do with the environments they hold *)

\* What unification promises of the step that comes next: what a comparison, a
\* method's answer, a head or a row binds extends the environment it is for.
Compares(m, lv) ==
    LET g == Goal(m)
        env == Frame(m).env
    IN g.op \in {"eq", "ne"} =>
          /\ TermExtends(g.l, g.r, env)
          /\ lv # Undefined => TermExtends(lv, Value(g.r, env), env)
Answered(mr, env) ==
    (\A i \in Range(Outputs(mr)) : Given(mr, env, i) # <<>>) =>
        EachExtends(Answers(mr, env), Bind(mr.env, Ret, env[Ret]))
Matches(m, head) == CallExtends(EffectiveArgs(Goal(m), Frame(m).env), head, Frame(m).env)
Renamed(m, i) == StandardizeApart(Clauses(Goal(m).p)[i], m.next).clause
Unifying(m) ==
    LET now == m.now IN
    /\ now.k = "value" /\ m.stack # <<>> /\ Goal(m).k = "where" => Compares(m, now.v)
    /\ now.k = "novalue" /\ m.stack # <<>> /\ Goal(m).k = "where" => Compares(m, Undefined)
    /\ now.k = "returned" => Answered(now.mr, now.env)
    /\ now.k = "clauses" /\ ~(now.i > Len(Clauses(Goal(m).p))) => Matches(m, Renamed(m, now.i).head)
    /\ now.k = "rows" => \A i \in DOMAIN now.rows : Matches(m, now.rows[i])

UnificationExtends == Unifying(machine)

EnvAt(stack, h) == Head(Activation(stack, h).work).env
AllExtend(frames, env) == IsASequence(frames) /\ \A i \in DOMAIN frames : Extends(frames[i].env, env)

\* An activation of a switch, try or negation, and what a scan opens in it, work
\* on the variables of the frame below.
Nested == {"switch", "try", "catch", "not"}
Within(stack, i, h) ==
    /\ Activation(stack, i).why.k \in Nested
    /\ \A j \in i + 1 .. h : Activation(stack, j).why.k = "scan"
Above(stack, env, h) == \A i \in 2 .. h : Within(stack, i, h) => Extends(env, EnvAt(stack, i - 1))

\* What happens next, or what an activation was opened for, suits the goal and the
\* environment it is for.
Assignable(g, env) == g.k = "assign" => g.x \notin DOMAIN env
Calls(g, env, o, callers) ==
    /\ o.k = "goal" => Extends(callers, env) /\ AllExtend(o.conts, env)
    /\ o.k = "value" => Assignable(g, env)
Suits(g, env, x) ==
    /\ x.k \in {"for", "while"} => Extends(x.cont, env)
    /\ x.k = "clauses" => AllExtend(x.conts, env)
    /\ x.k \in {"rows", "scan"} => IsASequence(x.rows)
    /\ x.k = "catch" => g.catches[x.j].x \notin DOMAIN env
    /\ x.k \in ForValue => Assignable(g, env)
    /\ x.k \in OfMethod => Calls(g, env, x.mr.owner, x.mr.env)
    /\ x.k = "method" => Calls(g, env, x.owner, x.env)
Keeps(stack, x, h) ==
    h # 0 => /\ Suits(GoalAt(stack, h), EnvAt(stack, h), x)
             /\ x.k = "throw" /\ x.s = "break" => Above(stack, x.env, h)

Kept(stack, h) ==
    LET a == Activation(stack, h) IN
    /\ IsASequence(a.work) /\ \A i \in DOMAIN a.work : Above(stack, a.work[i].env, h)
    /\ IsASequence(a.out) /\ \A i \in DOMAIN a.out : Above(stack, a.out[i], h)
    /\ a.why.k \in {"infer", "called"} => a.start = 0
    /\ Keeps(stack, a.why, h - 1)

\* All activations but the innermost wait with a frame; and so does that one.
Steady(stack) ==
    /\ IsASequence(stack)
    /\ \A h \in 1 .. Len(stack) :
           Kept(stack, h) /\ (h # Len(stack) => Activation(stack, h).work # <<>>)
Busy(stack) ==
    /\ IsASequence(stack)
    /\ \A h \in 1 .. Len(stack) : Kept(stack, h) /\ Activation(stack, h).work # <<>>
Firm(m) ==
    /\ Steady(m.stack)
    /\ m.now.k # "solve" => Busy(m.stack)
    /\ Keeps(m.stack, m.now, Len(m.stack))

FirmInv == Firm(machine)

\* What a new activation may be given to work on.
OpensOn(stack, why, env) ==
    /\ why.k \in Nested /\ stack # <<>> => Extends(env, EnvAt(stack, Len(stack)))
    /\ why.k = "scan" => Above(stack, env, Len(stack))

------------------------------------------------------------------------------
(* Environments *)

LEMMA ExtendsSelf ==
    ASSUME NEW env
    PROVE  Extends(env, env)
  BY DEF Extends

LEMMA ExtendsOn ==
    ASSUME NEW d, NEW e, NEW env, Extends(d, e), Extends(e, env)
    PROVE  Extends(d, env)
  BY DEF Extends

\* What was not bound may be, and the result of the last call may be another.
LEMMA BindExtends ==
    ASSUME NEW env, NEW x, NEW t, x \notin DOMAIN env \/ x = Ret
    PROVE  Extends(Bind(env, x, t), env)
  BY DEF Extends, Bind

LEMMA UnbindExtends ==
    ASSUME NEW e, NEW env, Extends(e, env), NEW x, x \notin DOMAIN env
    PROVE  Extends(Unbind(e, x), env)
  <1>1. PICK r : r = [y \in (DOMAIN e) \ {x} |-> e[y]]
    OBVIOUS
  <1>2. Unbind(e, x) = r
    BY <1>1 DEF Unbind, Restrict
  <1>3. Extends(r, env)
    BY <1>1 DEF Extends
  <1>. QED
    BY <1>2, <1>3

------------------------------------------------------------------------------
(* Activations and what they hold *)

\* What is above some frames depends on them and on what was opened for what.
LEMMA AboveOn ==
    ASSUME NEW s, NEW t, NEW h \in Nat, NEW e,
           \A i \in 1 .. h : Activation(t, i).why = Activation(s, i).why,
           \A i \in 1 .. h - 1 : EnvAt(t, i) = EnvAt(s, i)
    PROVE  Above(t, e, h) <=> Above(s, e, h)
  <1>1. ASSUME NEW i \in 2 .. h
        PROVE  /\ Within(t, i, h) <=> Within(s, i, h)
               /\ EnvAt(t, i - 1) = EnvAt(s, i - 1)
    <2>1. i \in 1 .. h /\ i - 1 \in 1 .. h - 1 /\ \A j \in i + 1 .. h : j \in 1 .. h
      OBVIOUS
    <2>. QED
      BY <2>1 DEF Within
  <1>. QED
    BY <1>1 DEF Above

LEMMA KeepsOn ==
    ASSUME NEW s, NEW t, NEW h \in Nat, NEW x, Keeps(s, x, h),
           \A i \in 1 .. h : Activation(t, i) = Activation(s, i)
    PROVE  Keeps(t, x, h)
  <1>1. CASE h = 0
    BY <1>1 DEF Keeps
  <1>2. CASE h # 0
    <2>1. \A i \in 1 .. h : EnvAt(t, i) = EnvAt(s, i)
      BY DEF EnvAt
    <2>2. h \in 1 .. h /\ \A i \in 1 .. h - 1 : i \in 1 .. h
      BY <1>2
    <2>3. EnvAt(t, h) = EnvAt(s, h) /\ GoalAt(t, h) = GoalAt(s, h)
      BY <2>1, <2>2 DEF GoalAt
    <2>4. \A e : Above(t, e, h) <=> Above(s, e, h)
      BY <2>1, <2>2, AboveOn
    <2>. QED
      BY <1>2, <2>3, <2>4, Zenon DEF Keeps
  <1>. QED
    BY <1>1, <1>2

LEMMA KeptOn ==
    ASSUME NEW s, NEW t, NEW h \in Nat \ {0}, Kept(s, h),
           \A i \in 1 .. h : Activation(t, i) = Activation(s, i)
    PROVE  Kept(t, h)
  <1>1. PICK a : a = Activation(s, h) /\ a = Activation(t, h)
    OBVIOUS
  <1>2. \A i \in 1 .. h : EnvAt(t, i) = EnvAt(s, i)
    BY DEF EnvAt
  <1>3. \A e : Above(t, e, h) <=> Above(s, e, h)
    BY <1>2, AboveOn
  <1>4. PICK p \in Nat : p = h - 1 /\ \A i \in 1 .. p : i \in 1 .. h
    OBVIOUS
  <1>5. Keeps(s, a.why, p)
    BY <1>1, <1>4 DEF Kept
  <1>6. Keeps(t, a.why, p)
    BY <1>4, <1>5, KeepsOn
  <1>. QED
    BY <1>1, <1>3, <1>4, <1>6 DEF Kept

\* A new activation on top of others that wait.
LEMMA AbovePushed ==
    ASSUME NEW s, NEW t, NEW n \in Nat, n = Len(s), s = <<>> => n = 0,
           NEW a, Activation(t, n + 1) = a, \A i \in 1 .. n : Activation(t, i) = Activation(s, i),
           NEW e, OpensOn(s, a.why, e)
    PROVE  Above(t, e, n + 1)
  <1> SUFFICES ASSUME NEW i \in 2 .. n + 1, Within(t, i, n + 1)
               PROVE  Extends(e, EnvAt(t, i - 1))
    BY DEF Above
  <1>1. PICK q \in 1 .. n : q = i - 1
    OBVIOUS
  <1>2. EnvAt(t, q) = EnvAt(s, q)
    BY DEF EnvAt
  <1>3. CASE i = n + 1
    <2>1. a.why.k \in Nested /\ s # <<>> /\ q = n
      BY <1>1, <1>3 DEF Within
    <2>2. Extends(e, EnvAt(s, n))
      BY <2>1 DEF OpensOn
    <2>. QED
      BY <1>1, <1>2, <2>1, <2>2
  <1>4. CASE i # n + 1
    <2>1. i \in 2 .. n /\ i \in 1 .. n
      BY <1>4
    <2>2. \A j \in i + 1 .. n + 1 : Activation(t, j).why.k = "scan"
      BY DEF Within
    <2>3. n + 1 \in i + 1 .. n + 1 /\ \A j \in i + 1 .. n : j \in 1 .. n /\ j \in i + 1 .. n + 1
      BY <2>1
    <2>4. a.why.k = "scan"
      BY <2>2, <2>3
    <2>5. Within(s, i, n)
      BY <2>1, <2>2, <2>3 DEF Within
    <2>6. Above(s, e, n)
      BY <2>4 DEF OpensOn
    <2>7. Extends(e, EnvAt(s, i - 1))
      BY <2>1, <2>5, <2>6 DEF Above
    <2>. QED
      BY <1>1, <1>2, <2>7
  <1>. QED
    BY <1>3, <1>4

LEMMA SteadyPush ==
    ASSUME NEW s, Busy(s), NEW a, IsASequence(a.work), IsASequence(a.out),
           \A i \in DOMAIN a.work : OpensOn(s, a.why, a.work[i].env),
           \A i \in DOMAIN a.out : OpensOn(s, a.why, a.out[i]),
           a.why.k \in {"infer", "called"} => a.start = 0,
           Keeps(s, a.why, Len(s)), a.work # <<>>
    PROVE  /\ Busy(<<a>> \o s)
           /\ \A e : OpensOn(s, a.why, e) => Above(<<a>> \o s, e, Len(<<a>> \o s))
  <1>1. PICK n \in Nat : n = Len(s)
    BY SequenceOfElements DEF Busy
  <1>2. PICK t : t = <<a>> \o s
    OBVIOUS
  <1>3. /\ IsASequence(t) /\ Len(t) = n + 1 /\ Activation(t, n + 1) = a
        /\ \A h \in 1 .. n : Activation(t, h) = Activation(s, h)
    BY <1>1, <1>2, PushedStack DEF Busy
  <1>4. ASSUME NEW h \in 1 .. n
        PROVE  Kept(t, h) /\ Activation(t, h).work # <<>>
    <2>1. Kept(s, h) /\ Activation(s, h).work # <<>>
      BY <1>1 DEF Busy
    <2>2. \A i \in 1 .. h : Activation(t, i) = Activation(s, i)
      BY <1>3
    <2>. QED
      BY <1>3, <2>1, <2>2, KeptOn
  <1>5. \A e : OpensOn(s, a.why, e) => Above(t, e, n + 1)
    <2>1. s = <<>> => n = 0
      BY <1>1
    <2>. QED
      BY <1>1, <1>3, <2>1, AbovePushed
  <1>6. Keeps(t, a.why, n)
    BY <1>1, <1>3, KeepsOn
  <1>7. Kept(t, n + 1)
    <2>1. (n + 1) - 1 = n
      OBVIOUS
    <2>. QED
      BY <1>3, <1>5, <1>6, <2>1 DEF Kept
  <1>. QED
    BY <1>2, <1>3, <1>4, <1>5, <1>7 DEF Busy

\* The innermost activation goes on with other frames.
LEMMA SteadyTop ==
    ASSUME NEW s, Steady(s), s # <<>>, NEW a, IsASequence(a.work), IsASequence(a.out),
           \A i \in DOMAIN a.work : Above(s, a.work[i].env, Len(s)),
           \A i \in DOMAIN a.out : Above(s, a.out[i], Len(s)),
           a.why = Head(s).why, a.start = Head(s).start
    PROVE  /\ Steady(<<a>> \o Tail(s))
           /\ a.work # <<>> => Busy(<<a>> \o Tail(s))
           /\ \A e : Above(s, e, Len(s)) => Above(<<a>> \o Tail(s), e, Len(s))
  <1>1. PICK t : t = Tail(s)
    OBVIOUS
  <1>2. PICK n \in Nat \ {0} :
              /\ n = Len(s) /\ IsASequence(t) /\ Len(t) = n - 1
              /\ Head(s) = Activation(s, n)
              /\ \A h \in 1 .. n - 1 : Activation(t, h) = Activation(s, h)
    BY <1>1, TailStack DEF Steady
  <1>3. PICK r : r = <<a>> \o t
    OBVIOUS
  <1>4. PICK p \in Nat : p = n - 1 /\ p + 1 = n
    OBVIOUS
  <1>5. /\ IsASequence(r) /\ Len(r) = n /\ Activation(r, n) = a
        /\ \A h \in 1 .. p : Activation(r, h) = Activation(s, h)
    <2>1. /\ IsASequence(r) /\ Len(r) = p + 1 /\ Activation(r, p + 1) = a
          /\ \A h \in 1 .. p : Activation(r, h) = Activation(t, h)
      BY <1>2, <1>3, <1>4, PushedStack
    <2>. QED
      BY <1>2, <1>4, <2>1
  <1>6. ASSUME NEW h \in 1 .. p
        PROVE  Kept(r, h) /\ Activation(r, h).work # <<>>
    <2>1. Kept(s, h) /\ Activation(s, h).work # <<>>
      BY <1>2, <1>4 DEF Steady
    <2>2. \A i \in 1 .. h : Activation(r, i) = Activation(s, i)
      BY <1>5
    <2>. QED
      BY <1>5, <2>1, <2>2, KeptOn
  <1>7. \A e : Above(r, e, n) <=> Above(s, e, n)
    <2>1. \A i \in 1 .. n : Activation(r, i).why = Activation(s, i).why
      BY <1>2, <1>4, <1>5
    <2>2. \A i \in 1 .. n - 1 : EnvAt(r, i) = EnvAt(s, i)
      BY <1>4, <1>5 DEF EnvAt
    <2>. QED
      BY <2>1, <2>2, AboveOn
  <1>8. Kept(r, n)
    <2>1. Keeps(s, a.why, p) /\ (a.why.k \in {"infer", "called"} => a.start = 0)
      BY <1>2, <1>4 DEF Steady, Kept
    <2>2. Keeps(r, a.why, p)
      BY <1>5, <2>1, KeepsOn
    <2>. QED
      BY <1>2, <1>4, <1>5, <1>7, <2>1, <2>2 DEF Kept
  <1>9. Steady(r)
    BY <1>4, <1>5, <1>6, <1>8 DEF Steady
  <1>10. a.work # <<>> => Busy(r)
    BY <1>4, <1>5, <1>6, <1>8 DEF Busy
  <1>. QED
    BY <1>1, <1>2, <1>3, <1>7, <1>9, <1>10

\* Below the innermost activation all wait, and the one that is on top now finds
\* what it has opened the other for.
LEMMA SteadyPop ==
    ASSUME NEW s, Steady(s), s # <<>>
    PROVE  /\ Busy(Tail(s)) /\ Keeps(Tail(s), Head(s).why, Len(Tail(s)))
           /\ \A e : Above(s, e, Len(s)) => OpensOn(Tail(s), Head(s).why, e)
  <1>1. PICK t : t = Tail(s)
    OBVIOUS
  <1>2. PICK n \in Nat \ {0} :
              /\ n = Len(s) /\ IsASequence(t) /\ Len(t) = n - 1
              /\ Head(s) = Activation(s, n)
              /\ \A h \in 1 .. n - 1 : Activation(t, h) = Activation(s, h)
    BY <1>1, TailStack DEF Steady
  <1>3. PICK p \in Nat : p = n - 1
    OBVIOUS
  <1>4. ASSUME NEW h \in 1 .. p
        PROVE  Kept(t, h) /\ Activation(t, h).work # <<>>
    <2>1. Kept(s, h) /\ Activation(s, h).work # <<>>
      BY <1>2, <1>3 DEF Steady
    <2>2. \A i \in 1 .. h : Activation(t, i) = Activation(s, i)
      BY <1>2, <1>3
    <2>. QED
      BY <1>2, <1>3, <2>1, <2>2, KeptOn
  <1>5. PICK w : w = Head(s).why
    OBVIOUS
  <1>6. Keeps(t, w, p)
    <2>1. Keeps(s, w, p)
      BY <1>2, <1>3, <1>5 DEF Steady, Kept
    <2>. QED
      BY <1>2, <1>3, <2>1, KeepsOn
  <1>7. \A i \in 1 .. p : EnvAt(t, i) = EnvAt(s, i)
    BY <1>2, <1>3 DEF EnvAt
  <1>8. ASSUME NEW e, Above(s, e, n)
        PROVE  OpensOn(t, w, e)
    <2>1. CASE w.k \in Nested /\ t # <<>>
      <3>1. p # 0
        BY <1>2, <1>3, <2>1, EmptySequence
      <3>2. n \in 2 .. n /\ ~(\E j \in n + 1 .. n : TRUE) /\ p \in 1 .. p
        BY <1>3, <3>1
      <3>3. Within(s, n, n)
        BY <1>2, <1>5, <2>1, <3>2 DEF Within
      <3>4. Extends(e, EnvAt(s, p))
        BY <1>3, <1>8, <3>2, <3>3 DEF Above
      <3>5. w.k # "scan"
        BY <2>1 DEF Nested
      <3>. QED
        BY <1>2, <1>3, <1>7, <3>2, <3>4, <3>5 DEF OpensOn
    <2>2. CASE w.k = "scan"
      <3>1. ASSUME NEW i \in 2 .. p, Within(s, i, p)
            PROVE  Extends(e, EnvAt(s, i - 1))
        <4>1. i \in 2 .. n /\ \A j \in i + 1 .. n : j = n \/ j \in i + 1 .. p
          BY <1>3
        <4>2. Within(s, i, n)
          BY <1>2, <1>5, <2>2, <3>1, <4>1 DEF Within
        <4>. QED
          BY <1>8, <4>1, <4>2 DEF Above
      <3>2. Above(s, e, p)
        BY <3>1 DEF Above
      <3>3. Above(t, e, p) <=> Above(s, e, p)
        <4>1. \A i \in 1 .. p : Activation(t, i).why = Activation(s, i).why
          BY <1>2, <1>3
        <4>2. \A i \in 1 .. p - 1 : EnvAt(t, i) = EnvAt(s, i)
          BY <1>7
        <4>. QED
          BY <4>1, <4>2, AboveOn
      <3>. QED
        BY <1>2, <1>3, <2>2, <3>2, <3>3 DEF OpensOn, Nested
    <2>3. CASE ~(w.k \in Nested /\ t # <<>>) /\ w.k # "scan"
      BY <2>3 DEF OpensOn
    <2>. QED
      BY <2>1, <2>2, <2>3
  <1>9. Busy(t)
    BY <1>2, <1>3, <1>4 DEF Busy
  <1>. QED
    BY <1>1, <1>2, <1>3, <1>5, <1>6, <1>8, <1>9

\* What extends the environment of the frame on top is above the same frames.
LEMMA AboveTop ==
    ASSUME NEW s, Busy(s), s # <<>>
    PROVE  /\ IsASequence(Head(s).work) /\ Head(s).work # <<>>
           /\ Head(s) = Activation(s, Len(s)) /\ Len(s) # 0 /\ EnvAt(s, Len(s)) = Head(Head(s).work).env
           /\ \A i \in DOMAIN Head(s).work : Above(s, Head(s).work[i].env, Len(s))
           /\ IsASequence(Head(s).out) /\ \A i \in DOMAIN Head(s).out : Above(s, Head(s).out[i], Len(s))
           /\ \A e : Extends(e, EnvAt(s, Len(s))) => Above(s, e, Len(s))
           /\ \A i \in DOMAIN Tail(Head(s).work) : Above(s, Tail(Head(s).work)[i].env, Len(s))
           /\ IsASequence(Tail(Head(s).work)) /\ Len(Tail(Head(s).work)) = Len(Head(s).work) - 1
           /\ Len(Head(s).work) \in Nat \ {0}
  <1>1. PICK n \in Nat \ {0} : n = Len(s) /\ Head(s) = Activation(s, n)
    BY TailStack DEF Busy
  <1>2. PICK a : a = Head(s) /\ a = Activation(s, n)
    BY <1>1
  <1>3. /\ IsASequence(a.work) /\ a.work # <<>> /\ IsASequence(a.out)
        /\ \A i \in DOMAIN a.work : Above(s, a.work[i].env, n)
        /\ \A i \in DOMAIN a.out : Above(s, a.out[i], n)
    BY <1>1, <1>2 DEF Busy, Kept
  <1>4. PICK w : w = a.work
    OBVIOUS
  <1>5. PICK l \in Nat \ {0} : l = Len(w) /\ DOMAIN w = 1 .. l
    BY <1>3, <1>4 DEF IsASequence
  <1>6. EnvAt(s, n) = Head(w).env /\ Head(w) = w[1] /\ 1 \in DOMAIN w
    BY <1>2, <1>3, <1>4, <1>5 DEF EnvAt, IsASequence
  <1>7. Above(s, EnvAt(s, n), n)
    BY <1>3, <1>4, <1>6
  <1>8. ASSUME NEW e, Extends(e, EnvAt(s, n))
        PROVE  Above(s, e, n)
    BY <1>7, <1>8, ExtendsOn DEF Above
  <1>9. PICK t : t = Tail(w)
    OBVIOUS
  <1>10. IsASequence(t) /\ Len(t) = l - 1 /\ DOMAIN t = 1 .. l - 1 /\ \A i \in 1 .. l - 1 : t[i] = w[i + 1]
    <2>1. PICK S : w \in Seq(S) /\ w # <<>>
      BY <1>3, <1>4 DEF IsASequence
    <2>2. t \in Seq(S) /\ Len(t) = Len(w) - 1 /\ \A i \in 1 .. Len(t) : t[i] = w[i + 1]
      BY <1>9, <2>1, HeadTailProperties
    <2>. QED
      BY <1>5, <2>2, AnySequence
  <1>11. ASSUME NEW i \in DOMAIN t
         PROVE  Above(s, t[i].env, n)
    <2>1. i + 1 \in DOMAIN w /\ t[i] = w[i + 1]
      BY <1>5, <1>10
    <2>. QED
      BY <1>3, <1>4, <2>1
  <1>. QED
    BY <1>1, <1>2, <1>3, <1>4, <1>5, <1>6, <1>8, <1>9, <1>10, <1>11

\* One frame more after others.
LEMMA AllExtendAppend ==
    ASSUME NEW frames, NEW env, AllExtend(frames, env), NEW f, Extends(f.env, env)
    PROVE  AllExtend(Append(frames, f), env)
  <1>1. PICK n \in Nat : n = Len(frames) /\ DOMAIN frames = 1 .. n
    BY SequenceOfElements DEF AllExtend
  <1>2. PICK S : S = Range(frames) \cup {f}
    OBVIOUS
  <1>3. frames \in Seq(S) /\ f \in S
    BY <1>2, WiderSequence DEF AllExtend, IsASequence
  <1>4. PICK r : r = Append(frames, f)
    OBVIOUS
  <1>5. r \in Seq(S) /\ DOMAIN r = 1 .. n + 1 /\ r[n + 1] = f /\ \A i \in 1 .. n : r[i] = frames[i]
    <2>1. /\ r \in Seq(S) /\ Len(r) = n + 1 /\ r[n + 1] = f
          /\ \A i \in 1 .. n : r[i] = frames[i]
      BY <1>1, <1>3, <1>4, AppendProperties
    <2>. QED
      BY <2>1
  <1>6. ASSUME NEW i \in DOMAIN r
        PROVE  Extends(r[i].env, env)
    <2>1. i = n + 1 \/ i \in 1 .. n
      BY <1>5
    <2>. QED
      BY <1>1, <1>5, <2>1 DEF AllExtend
  <1>7. IsASequence(r)
    BY <1>5, AnySequence
  <1>. QED
    BY <1>4, <1>6, <1>7 DEF AllExtend

LEMMA AllExtendConcat ==
    ASSUME NEW s, NEW t, NEW env, AllExtend(s, env), AllExtend(t, env)
    PROVE  AllExtend(s \o t, env)
  <1>1. PICK m \in Nat, n \in Nat : m = Len(s) /\ DOMAIN s = 1 .. m /\ n = Len(t) /\ DOMAIN t = 1 .. n
    BY SequenceOfElements DEF AllExtend
  <1>2. PICK r : r = s \o t
    OBVIOUS
  <1>3. /\ IsASequence(r) /\ Len(r) = m + n /\ \A i \in 1 .. m : r[i] = s[i]
        /\ \A i \in 1 .. m + n : i \notin 1 .. m => i - m \in 1 .. n /\ r[i] = t[i - m]
    BY <1>1, <1>2, Concatenated DEF AllExtend
  <1>4. DOMAIN r = 1 .. m + n
    BY <1>3, SequenceOfElements
  <1>5. \A i \in 1 .. m + n : Extends(r[i].env, env)
    BY <1>1, <1>3 DEF AllExtend
  <1>. QED
    BY <1>2, <1>3, <1>4, <1>5 DEF AllExtend

LEMMA AllExtendOne ==
    ASSUME NEW f, NEW env, Extends(f.env, env)
    PROVE  AllExtend(<<f>>, env) /\ AllExtend(<<>>, env)
  <1>1. <<f>> \in Seq({f}) /\ <<>> \in Seq({f})
    OBVIOUS
  <1>2. IsASequence(<<f>>) /\ IsASequence(<<>>)
    BY <1>1, AnySequence
  <1>. QED
    BY <1>2 DEF AllExtend

\* What is left of a sequence.
LEMMA RestSequence ==
    ASSUME NEW s, IsASequence(s), NEW i \in DOMAIN s
    PROVE  IsASequence(SubSeq(s, i + 1, Len(s)))
  <1>1. PICK n \in Nat : n = Len(s) /\ DOMAIN s = 1 .. n /\ \A j \in 1 .. n : s[j] \in Range(s)
    BY SequenceOfElements
  <1>2. i + 1 \in Int /\ n \in Int /\ \A j \in i + 1 .. n : s[j] \in Range(s)
    BY <1>1
  <1>3. SubSeq(s, i + 1, n) \in Seq(Range(s))
    BY <1>2, SubSeqProperties
  <1>. QED
    BY <1>1, <1>3, AnySequence

------------------------------------------------------------------------------
(* What the steps of the solver leave *)

Ready(m) == Balanced(m) /\ Busy(m.stack)
KeepsNow(m, x) == Keeps(m.stack, x, Len(m.stack))

\* A step goes on with the activations there are, or opens one.
After(m, k) ==
    /\ IsMachine(k) /\ Firm(k)
    /\ \/ Len(k.stack) = Len(m.stack) + 1
       \/ Len(k.stack) = Len(m.stack) /\ (m.stack # <<>> => GoesOn(Top(m), Top(k)))

LEMMA AfterFrom ==
    ASSUME NEW m, NEW l, l.stack = m.stack, NEW k, After(l, k)
    PROVE  After(m, k)
  BY DEF After, Top

LEMMA BusySteady ==
    ASSUME NEW s, Busy(s)
    PROVE  Steady(s)
  BY DEF Busy, Steady

LEMMA SameAfter ==
    ASSUME NEW m, Busy(m.stack), NEW k, IsMachine(k), k.stack = m.stack, KeepsNow(m, k.now)
    PROVE  After(m, k)
  <1>1. GoesOn(Top(m), Top(k))
    BY ExtendsSelf DEF GoesOn, Top
  <1>2. Firm(k)
    BY BusySteady DEF Firm, KeepsNow
  <1>. QED
    BY <1>1, <1>2 DEF After

LEMMA ThenAfter ==
    ASSUME NEW m, Ready(m), NEW x, KeepsNow(m, x)
    PROVE  After(m, Then(m, x))
  <1>1. PICK k : k = Then(m, x)
    OBVIOUS
  <1>2. IsMachine(k) /\ k.stack = m.stack /\ k.now = x
    BY <1>1, ThenSame, Zenon DEF Ready, Balanced, Same
  <1>. QED
    BY <1>1, <1>2, SameAfter DEF Ready

\* The frame on top, and what fits its goal and its environment.
LEMMA FrameNow ==
    ASSUME NEW m, Ready(m), m.stack # <<>>
    PROVE  /\ Goal(m) = GoalAt(m.stack, Len(m.stack))
           /\ Frame(m).env = EnvAt(m.stack, Len(m.stack))
           /\ Len(m.stack) \in Nat \ {0} /\ Len(m.stack) # 0
  <1>1. PICK s : s = m.stack
    OBVIOUS
  <1>2. Busy(s) /\ s # <<>>
    BY <1>1 DEF Ready
  <1>3. Len(s) # 0 /\ EnvAt(s, Len(s)) = Head(Head(s).work).env
    BY <1>2, AboveTop
  <1>4. Goal(m) = GoalAt(m.stack, Len(m.stack)) /\ Len(m.stack) \in Nat \ {0}
    BY GoalNow DEF Ready
  <1>. QED
    BY <1>1, <1>3, <1>4 DEF Frame, Top

LEMMA KeepsSuited ==
    ASSUME NEW m, Ready(m), NEW x, m.stack # <<>> => Suits(Goal(m), Frame(m).env, x),
           x.k = "throw" => x.s # "break"
    PROVE  KeepsNow(m, x)
  <1>1. CASE m.stack = <<>>
    <2>1. Len(m.stack) = 0
      BY <1>1
    <2>. QED
      BY <2>1 DEF KeepsNow, Keeps
  <1>2. CASE m.stack # <<>>
    BY <1>2, FrameNow, Zenon DEF KeepsNow, Keeps
  <1>. QED
    BY <1>1, <1>2

LEMMA SuitedNow ==
    ASSUME NEW m, Ready(m), m.stack # <<>>, NEW x, KeepsNow(m, x)
    PROVE  Suits(Goal(m), Frame(m).env, x)
  BY FrameNow, Zenon DEF KeepsNow, Keeps

LEMMA SuitedAfter ==
    ASSUME NEW m, Ready(m), NEW x, m.stack # <<>> => Suits(Goal(m), Frame(m).env, x),
           x.k = "throw" => x.s # "break"
    PROVE  After(m, Then(m, x))
  BY KeepsSuited, ThenAfter

LEMMA ThrowAfter ==
    ASSUME NEW m, Ready(m), NEW x, x.k = "throw", x.s = "break" => KeepsNow(m, x)
    PROVE  After(m, Then(m, x))
  <1>1. \A g, env : Suits(g, env, x)
    BY DEF Suits, ForValue, OfMethod
  <1>2. CASE x.s = "break"
    BY <1>2, ThenAfter
  <1>3. CASE x.s # "break"
    BY <1>1, <1>3, SuitedAfter
  <1>. QED
    BY <1>2, <1>3

LEMMA ErrorAfter ==
    ASSUME NEW m, Ready(m)
    PROVE  After(m, Then(m, Error))
  <1>1. Error.k = "throw" /\ Error.s # "break"
    BY DEF Error
  <1>. QED
    BY <1>1, ThrowAfter

\* Parts of a machine that its activations do not depend on.
LEMMA ModeAfter ==
    ASSUME NEW m, NEW k, After(m, k), NEW x
    PROVE  After(m, [k EXCEPT !.mode = x]) /\ After(m, [k EXCEPT !.negated = x])
  <1>1. PICK l, r : l = [k EXCEPT !.mode = x] /\ r = [k EXCEPT !.negated = x]
    OBVIOUS
  <1>2. /\ IsMachine(l) /\ l.stack = k.stack /\ l.now = k.now
        /\ IsMachine(r) /\ r.stack = k.stack /\ r.now = k.now
    BY <1>1 DEF After, IsMachine
  <1>3. After(m, l) /\ After(m, r)
    BY <1>2 DEF After, Firm, Top
  <1>. QED
    BY <1>1, <1>3

LEMMA SetTopAfter ==
    ASSUME NEW m, Ready(m), m.stack # <<>>, NEW a, IsASequence(a.work), IsASequence(a.out),
           \A i \in DOMAIN a.work : Above(m.stack, a.work[i].env, Len(m.stack)),
           \A i \in DOMAIN a.out : Above(m.stack, a.out[i], Len(m.stack)),
           a.why = Top(m).why, a.start = Top(m).start, GoesOn(Top(m), a)
    PROVE  /\ After(m, SetTop(m, a)) /\ Len(SetTop(m, a).stack) = Len(m.stack)
           /\ a.work # <<>> => Busy(SetTop(m, a).stack)
  <1>1. PICK s, r : s = m.stack /\ r = <<a>> \o Tail(s)
    OBVIOUS
  <1>2. PICK k : k = [m EXCEPT !.stack = r, !.now = Solve]
    OBVIOUS
  <1>3. SetTop(m, a) = k
    BY <1>1, <1>2, Zenon DEF SetTop
  <1>4. IsMachine(k) /\ k.stack = r /\ k.now = Solve
    BY <1>2 DEF Ready, Balanced, IsMachine
  <1>5. Steady(s) /\ s # <<>> /\ a.why = Head(s).why /\ a.start = Head(s).start
    BY <1>1, BusySteady DEF Ready, Top
  <1>6. Steady(r) /\ (a.work # <<>> => Busy(r))
    BY <1>1, <1>5, SteadyTop
  <1>7. PICK n \in Nat : n = Len(s) /\ Len(r) = n /\ Head(r) = a
    <2>1. IsASequence(s)
      BY <1>5 DEF Steady
    <2>2. PICK n \in Nat \ {0} : n = Len(s) /\ IsASequence(Tail(s)) /\ Len(Tail(s)) = n - 1
      BY <1>5, <2>1, TailStack
    <2>3. PICK p \in Nat : p = n - 1 /\ p + 1 = n /\ p = Len(Tail(s))
      BY <2>2
    <2>4. Len(r) = p + 1 /\ Head(r) = a
      BY <1>1, <2>2, <2>3, PushedStack
    <2>. QED
      BY <2>2, <2>3, <2>4
  <1>8. Keeps(r, Solve, Len(r)) /\ Solve.k = "solve"
    BY DEF Keeps, Suits, Solve, ForValue, OfMethod
  <1>9. Firm(k)
    BY <1>4, <1>6, <1>8 DEF Firm
  <1>10. GoesOn(Top(m), Top(k))
    BY <1>4, <1>7 DEF Top
  <1>. QED
    BY <1>1, <1>3, <1>4, <1>6, <1>7, <1>9, <1>10 DEF After

LEMMA SetWorkAfter ==
    ASSUME NEW m, Ready(m), m.stack # <<>>, NEW work, IsASequence(work),
           \A i \in DOMAIN work : Above(m.stack, work[i].env, Len(m.stack)),
           Len(work) # Len(Top(m).work) \/ Extends(Head(work).env, Frame(m).env)
    PROVE  After(m, SetWork(m, work))
  <1>1. PICK a : a = [Top(m) EXCEPT !.work = work]
    OBVIOUS
  <1>2. a.work = work /\ a.out = Top(m).out /\ a.why = Top(m).why /\ a.start = Top(m).start
    <2>1. IsActivation(Top(m))
      BY TopActivation DEF Ready
    <2>. QED
      BY <1>1, <2>1 DEF IsActivation
  <1>3. IsASequence(a.out) /\ \A i \in DOMAIN a.out : Above(m.stack, a.out[i], Len(m.stack))
    <2>1. PICK s : s = m.stack
      OBVIOUS
    <2>2. Busy(s) /\ s # <<>>
      BY <2>1 DEF Ready
    <2>3. IsASequence(Head(s).out) /\ \A i \in DOMAIN Head(s).out : Above(s, Head(s).out[i], Len(s))
      BY <2>2, AboveTop
    <2>. QED
      BY <1>2, <2>1, <2>3 DEF Top
  <1>4. GoesOn(Top(m), a)
    BY <1>2 DEF GoesOn, Frame
  <1>5. After(m, SetTop(m, a))
    BY <1>2, <1>3, <1>4, SetTopAfter
  <1>. QED
    BY <1>1, <1>5, Zenon DEF SetWork

LEMMA DropFrameAfter ==
    ASSUME NEW m, Ready(m), m.stack # <<>>
    PROVE  After(m, DropFrame(m))
  <1>1. PICK s, t : s = m.stack /\ t = Tail(Head(s).work)
    OBVIOUS
  <1>2. Busy(s) /\ s # <<>>
    BY <1>1 DEF Ready
  <1>3. /\ IsASequence(t) /\ Len(t) = Len(Head(s).work) - 1 /\ Len(Head(s).work) \in Nat \ {0}
        /\ \A i \in DOMAIN t : Above(s, t[i].env, Len(s))
    BY <1>1, <1>2, AboveTop
  <1>4. Len(t) # Len(Top(m).work)
    BY <1>1, <1>3 DEF Top
  <1>5. After(m, SetWork(m, t))
    BY <1>1, <1>3, <1>4, SetWorkAfter
  <1>. QED
    BY <1>1, <1>5 DEF DropFrame, Top

LEMMA ContinueAfter ==
    ASSUME NEW m, Ready(m), m.stack # <<>>, NEW env, Extends(env, Frame(m).env)
    PROVE  After(m, Continue(m, env))
  <1>1. PICK s, t : s = m.stack /\ t = Tail(Head(s).work)
    OBVIOUS
  <1>2. PICK f : f = NewFrame(Tail(Frame(m).gs), env, Frame(m).depth)
    OBVIOUS
  <1>3. PICK work : work = <<f>> \o t
    OBVIOUS
  <1>4. Busy(s) /\ s # <<>>
    BY <1>1 DEF Ready
  <1>5. PICK n \in Nat : n = Len(t)
    BY <1>1, <1>4, AboveTop, SequenceOfElements
  <1>6. IsASequence(t) /\ \A i \in DOMAIN t : Above(s, t[i].env, Len(s))
    BY <1>1, <1>4, AboveTop
  <1>7. /\ IsASequence(work) /\ Len(work) = n + 1 /\ work[1] = f
        /\ \A i \in 1 .. n + 1 : i # 1 => i - 1 \in 1 .. n /\ work[i] = t[i - 1]
    BY <1>3, <1>5, <1>6, OneMore
  <1>8. f.env = env
    BY <1>2 DEF NewFrame
  <1>9. Above(s, env, Len(s))
    <2>1. Extends(env, EnvAt(s, Len(s)))
      BY <1>1, FrameNow
    <2>. QED
      BY <1>4, <2>1, AboveTop
  <1>10. DOMAIN work = 1 .. n + 1 /\ DOMAIN t = 1 .. n
    BY <1>5, <1>6, <1>7, SequenceOfElements
  <1>11. \A i \in DOMAIN work : Above(s, work[i].env, Len(s))
    BY <1>6, <1>7, <1>8, <1>9, <1>10
  <1>12. Extends(Head(work).env, Frame(m).env)
    <2>1. work # <<>> /\ Head(work) = work[1]
      BY <1>7 DEF IsASequence
    <2>. QED
      BY <1>7, <1>8, <2>1
  <1>13. After(m, SetWork(m, work))
    BY <1>1, <1>7, <1>11, <1>12, SetWorkAfter
  <1>. QED
    BY <1>1, <1>2, <1>3, <1>13, Zenon DEF Continue, Top

LEMMA LeavingAfter ==
    ASSUME NEW m, Ready(m), m.stack # <<>>, NEW found, NEW env, found => Extends(env, Frame(m).env)
    PROVE  After(m, Leaving(m, found, env))
  <1>1. CASE found
    <2>1. Leaving(m, found, env) = Continue(m, env)
      BY <1>1 DEF Leaving
    <2>. QED
      BY <1>1, <2>1, ContinueAfter
  <1>2. CASE ~found
    <2>1. Leaving(m, found, env) = DropFrame(m)
      BY <1>2 DEF Leaving
    <2>. QED
      BY <2>1, DropFrameAfter
  <1>. QED
    BY <1>1, <1>2

\* An activation is opened: for a part of the goal on top, or for a method.
LEMMA PushAfter ==
    ASSUME NEW m, Ready(m), NEW gs, NEW env, NEW depth, NEW why, OpensOn(m.stack, why, env),
           why.k \in {"infer", "called"} => depth = 0, KeepsNow(m, why)
    PROVE  /\ After(m, Push(m, gs, env, depth, why)) /\ Busy(Push(m, gs, env, depth, why).stack)
           /\ Len(Push(m, gs, env, depth, why).stack) = Len(m.stack) + 1
           /\ \A e : OpensOn(m.stack, why, e)
                     => Above(Push(m, gs, env, depth, why).stack, e, Len(m.stack) + 1)
  <1>1. PICK f : f = NewFrame(gs, env, depth)
    OBVIOUS
  <1>2. PICK a : a = [work |-> <<f>>, out |-> <<>>, max |-> 1, start |-> depth, why |-> why,
                      mode |-> m.mode, negated |-> m.negated]
    OBVIOUS
  <1>3. PICK s, r : s = m.stack /\ r = <<a>> \o s
    OBVIOUS
  <1>4. PICK k : k = [m EXCEPT !.stack = r, !.now = Solve]
    OBVIOUS
  <1>5. Push(m, gs, env, depth, why) = k
    BY <1>1, <1>2, <1>3, <1>4, Zenon DEF Push
  <1>6. IsMachine(k) /\ k.stack = r /\ k.now = Solve
    BY <1>4 DEF Ready, Balanced, IsMachine
  <1>7. /\ IsASequence(a.work) /\ IsASequence(a.out) /\ a.work # <<>> /\ a.why = why /\ a.start = depth
        /\ \A i \in DOMAIN a.work : a.work[i].env = env
        /\ \A i \in DOMAIN a.out : FALSE
    <2>1. <<f>> \in Seq({f}) /\ <<>> \in Seq({f})
      OBVIOUS
    <2>2. IsASequence(<<f>>) /\ IsASequence(<<>>)
      BY <2>1, AnySequence
    <2>3. f.env = env
      BY <1>1 DEF NewFrame
    <2>. QED
      BY <1>2, <2>2, <2>3
  <1>8. Busy(s) /\ Keeps(s, a.why, Len(s)) /\ (a.why.k \in {"infer", "called"} => a.start = 0)
        /\ OpensOn(s, a.why, env)
    BY <1>3, <1>7 DEF Ready, KeepsNow
  <1>9. Busy(r) /\ \A e : OpensOn(s, why, e) => Above(r, e, Len(r))
    <2>1. \A i \in DOMAIN a.work : OpensOn(s, a.why, a.work[i].env)
      BY <1>7, <1>8
    <2>2. \A i \in DOMAIN a.out : OpensOn(s, a.why, a.out[i])
      BY <1>7
    <2>. QED
      BY <1>3, <1>7, <1>8, <2>1, <2>2, SteadyPush
  <1>10. Keeps(r, Solve, Len(r)) /\ Solve.k = "solve"
    BY DEF Keeps, Suits, Solve, ForValue, OfMethod
  <1>11. Firm(k)
    BY <1>6, <1>9, <1>10, BusySteady DEF Firm
  <1>12. Len(r) = Len(s) + 1
    <2>1. PICK n \in Nat : n = Len(s) /\ IsASequence(s)
      BY <1>8, SequenceOfElements DEF Busy
    <2>. QED
      BY <1>3, <2>1, PushedStack
  <1>. QED
    BY <1>3, <1>5, <1>6, <1>9, <1>11, <1>12 DEF After

------------------------------------------------------------------------------
(* What the steps of calls leave *)

AssignableNow(m) == m.stack # <<>> => Assignable(Goal(m), Frame(m).env)
CallsNow(m, o, callers) == m.stack # <<>> => Calls(Goal(m), Frame(m).env, o, callers)

LEMMA SameReady ==
    ASSUME NEW m, Ready(m), NEW k, Same(m, k)
    PROVE  /\ Ready(k) /\ k.stack = m.stack
           /\ AssignableNow(m) => AssignableNow(k)
           /\ \A o, callers : CallsNow(m, o, callers) => CallsNow(k, o, callers)
  <1>1. k.stack = m.stack /\ Balanced(k)
    BY SameBalanced DEF Same, Ready
  <1>2. Goal(k) = Goal(m) /\ Frame(k) = Frame(m)
    BY <1>1 DEF Goal, Frame, Top
  <1>. QED
    BY <1>1, <1>2 DEF Ready, AssignableNow, CallsNow

LEMMA ForValueSuits ==
    ASSUME NEW m, AssignableNow(m), NEW x, x.k \in ForValue
    PROVE  m.stack # <<>> => Suits(Goal(m), Frame(m).env, x)
  BY DEF AssignableNow, Suits, ForValue, OfMethod

LEMMA ForValueAfter ==
    ASSUME NEW m, Ready(m), AssignableNow(m), NEW x, x.k \in ForValue
    PROVE  After(m, Then(m, x)) /\ KeepsNow(m, x)
  <1>1. x.k # "throw"
    BY DEF ForValue
  <1>. QED
    BY <1>1, ForValueSuits, SuitedAfter, KeepsSuited

LEMMA OfMethodAfter ==
    ASSUME NEW m, Ready(m), NEW x, x.k \in OfMethod, CallsNow(m, x.mr.owner, x.mr.env)
    PROVE  After(m, Then(m, x)) /\ KeepsNow(m, x)
  <1>1. x.k # "throw"
    BY DEF OfMethod
  <1>2. m.stack # <<>> => Suits(Goal(m), Frame(m).env, x)
    BY DEF CallsNow, Suits, ForValue, OfMethod
  <1>. QED
    BY <1>1, <1>2, SuitedAfter, KeepsSuited

LEMMA MethodCallAfter ==
    ASSUME NEW m, Ready(m), NEW clause, NEW args, NEW env, NEW depth, NEW o, CallsNow(m, o, env)
    PROVE  After(m, Then(m, MethodCall(clause, args, env, depth, o)))
  <1>1. PICK x : x = MethodCall(clause, args, env, depth, o)
    OBVIOUS
  <1>2. x.k = "method" /\ x.owner = o /\ x.env = env
    BY <1>1 DEF MethodCall
  <1>3. m.stack # <<>> => Suits(Goal(m), Frame(m).env, x)
    BY <1>2 DEF CallsNow, Suits, ForValue, OfMethod
  <1>. QED
    BY <1>1, <1>2, <1>3, SuitedAfter

LEMMA StartCallAfter ==
    ASSUME NEW m, Ready(m), AssignableNow(m), NEW f, NEW args, NEW env
    PROVE  After(m, StartCall(m, f, args, env))
  <1>1. PICK k : k = [m EXCEPT !.mode.tramp = TRUE, !.mode.trampAt = m.mode.methods]
    OBVIOUS
  <1>2. Same(m, k)
    BY <1>1 DEF Ready, Balanced, IsMachine, Same
  <1>3. PICK x : x = [k |-> "once", vc |-> [f |-> f, args |-> args, env |-> env, stage |-> "infer",
                                            i |-> 1, outer |-> m.mode]]
    OBVIOUS
  <1>4. x.k \in ForValue
    BY <1>3 DEF ForValue
  <1>5. After(m, Then(k, x))
    BY <1>2, <1>4, SameReady, ForValueAfter, AfterFrom
  <1>. QED
    BY <1>1, <1>3, <1>5, Zenon DEF StartCall

LEMMA EvaluateAfter ==
    ASSUME NEW m, Ready(m), AssignableNow(m), NEW e
    PROVE  After(m, Evaluate(m, e))
  <1>1. PICK r : r = Reduce(e, Frame(m).env)
    OBVIOUS
  <1>2. CASE r[1] = "raise"
    <2>1. Evaluate(m, e) = Then(m, Error)
      BY <1>1, <1>2 DEF Evaluate
    <2>. QED
      BY <2>1, ErrorAfter
  <1>3. CASE r[1] = "write"
    <2>1. PICK k : k = [m EXCEPT !.log = Append(@, r[2])]
      OBVIOUS
    <2>2. Same(m, k)
      BY <2>1 DEF Ready, Balanced, IsMachine, Same
    <2>3. Valued(Num(r[2])).k \in ForValue
      BY DEF Valued, ForValue
    <2>4. After(m, Then(k, Valued(Num(r[2]))))
      BY <2>2, <2>3, SameReady, ForValueAfter, AfterFrom
    <2>5. Evaluate(m, e) = Then(k, Valued(Num(r[2])))
      BY <1>1, <1>3, <2>1 DEF Evaluate
    <2>. QED
      BY <2>4, <2>5
  <1>4. CASE r[1] = "call"
    <2>1. Evaluate(m, e) = StartCall(m, r[2], r[3], Frame(m).env)
      BY <1>1, <1>4 DEF Evaluate
    <2>. QED
      BY <2>1, StartCallAfter
  <1>5. CASE r[1] \notin {"raise", "write", "call"}
    <2>1. Evaluate(m, e) = Then(m, [k |-> "novalue"]) \/ Evaluate(m, e) = Then(m, Valued(r))
      BY <1>1, <1>5 DEF Evaluate
    <2>2. [k |-> "novalue"].k \in ForValue /\ Valued(r).k \in ForValue
      BY DEF Valued, ForValue
    <2>. QED
      BY <2>1, <2>2, ForValueAfter
  <1>. QED
    BY <1>2, <1>3, <1>4, <1>5

LEMMA ValueReturnedAfter ==
    ASSUME NEW m, Ready(m), AssignableNow(m), NEW vc, NEW v
    PROVE  After(m, ValueReturned(m, vc, v)) /\ After(m, ValueNone(m, vc))
  <1>1. PICK k : k = [m EXCEPT !.mode = vc.outer]
    OBVIOUS
  <1>2. Ready(k) /\ AssignableNow(k) /\ k.stack = m.stack
    BY <1>1, ModeSame, SameReady DEF Ready, Balanced
  <1>3. Valued(v).k \in ForValue /\ [k |-> "novalue"].k \in ForValue
    BY DEF Valued, ForValue
  <1>4. After(m, Then(k, Valued(v))) /\ After(m, Then(k, [k |-> "novalue"]))
    BY <1>2, <1>3, ForValueAfter, AfterFrom
  <1>. QED
    BY <1>1, <1>4, Zenon DEF ValueReturned, ValueNone

LEMMA MethodLeftAfter ==
    ASSUME NEW m, Ready(m), NEW mr, CallsNow(m, mr.owner, mr.env), NEW env
    PROVE  After(m, MethodNone(m, mr)) /\ After(m, MethodReturned(m, mr, env))
  <1>1. PICK x, y : x = [k |-> "failed", mr |-> mr] /\ y = [k |-> "returned", mr |-> mr, env |-> env]
    OBVIOUS
  <1>2. x.k \in OfMethod /\ x.mr = mr /\ y.k \in OfMethod /\ y.mr = mr
    BY <1>1 DEF OfMethod
  <1>. QED
    BY <1>1, <1>2, OfMethodAfter DEF MethodNone, MethodReturned

\* An activation for a part of a method's body has variables of its own.
LEMMA PushBodyAfter ==
    ASSUME NEW m, Ready(m), NEW gs, NEW env, NEW depth, NEW why,
           why.k \in OfMethod, CallsNow(m, why.mr.owner, why.mr.env)
    PROVE  After(m, Push(m, gs, env, depth, why))
  <1>1. OpensOn(m.stack, why, env) /\ why.k \notin {"infer", "called"}
    BY DEF OpensOn, OfMethod, Nested
  <1>. QED
    BY <1>1, OfMethodAfter, PushAfter

LEMMA FallbackAfter ==
    ASSUME NEW m, Ready(m), NEW mr, CallsNow(m, mr.owner, mr.env), NEW env, NEW j
    PROVE  After(m, Fallback(m, mr, env, j))
  <1>1. PICK why : why = [k |-> "fallback", mr |-> mr, env |-> env, j |-> j]
    OBVIOUS
  <1>2. why.k \in OfMethod /\ why.mr = mr
    BY <1>1 DEF OfMethod
  <1>3. After(m, Push(m, mr.clause.fallback[j], env, mr.depth + 1, why))
    BY <1>2, PushBodyAfter
  <1>4. \/ Fallback(m, mr, env, j) = MethodNone(m, mr)
        \/ Fallback(m, mr, env, j) = Push(m, mr.clause.fallback[j], env, mr.depth + 1, why)
    BY <1>1, Zenon DEF Fallback
  <1>. QED
    BY <1>3, <1>4, MethodLeftAfter

LEMMA GuardAfter ==
    ASSUME NEW m, Ready(m), NEW mr, CallsNow(m, mr.owner, mr.env), NEW env
    PROVE  After(m, Guard(m, mr, env))
  <1>1. PICK why : why = [k |-> "guard", mr |-> mr, env |-> env]
    OBVIOUS
  <1>2. why.k \in OfMethod /\ why.mr = mr
    BY <1>1 DEF OfMethod
  <1>3. \A gs : After(m, Push(m, gs, env, mr.depth + 1, why))
    BY <1>2, PushBodyAfter
  <1>4. \/ \E gs : Guard(m, mr, env) = Push(m, gs, env, mr.depth + 1, why)
        \/ Guard(m, mr, env) = MethodReturned(m, mr, env)
        \/ Guard(m, mr, env) = Fallback(m, mr, env, 1)
    BY <1>1 DEF Guard
  <1>. QED
    BY <1>3, <1>4, MethodLeftAfter, FallbackAfter

LEMMA TruthAfter ==
    ASSUME NEW m, Ready(m), NEW mr, CallsNow(m, mr.owner, mr.env), NEW env, NEW truths, NEW j
    PROVE  After(m, Truth(m, mr, env, truths, j))
  <1>1. CASE j > Len(mr.clause.body)
    <2>1. \E e : Truth(m, mr, env, truths, j) = MethodReturned(m, mr, e)
      BY <1>1 DEF Truth
    <2>. QED
      BY <2>1, MethodLeftAfter
  <1>2. CASE ~(j > Len(mr.clause.body))
    <2>1. PICK why : why = [k |-> "truth", mr |-> mr, env |-> env, truths |-> truths, j |-> j]
      OBVIOUS
    <2>2. why.k \in OfMethod /\ why.mr = mr
      BY <2>1 DEF OfMethod
    <2>3. PICK p : p = Push(m, <<mr.clause.body[j]>>, env, 0, why)
      OBVIOUS
    <2>4. After(m, p)
      BY <2>2, <2>3, PushBodyAfter
    <2>5. PICK x : x = [p.mode EXCEPT !.value = FALSE]
      OBVIOUS
    <2>6. After(m, [p EXCEPT !.mode = x])
      BY <2>4, ModeAfter
    <2>7. Truth(m, mr, env, truths, j) = [p EXCEPT !.mode = x]
      BY <1>2, <2>1, <2>3, <2>5 DEF Truth
    <2>. QED
      BY <2>6, <2>7
  <1>. QED
    BY <1>1, <1>2

LEMMA RunMethodAfter ==
    ASSUME NEW m, Ready(m), NEW mr, CallsNow(m, mr.owner, mr.env), NEW env
    PROVE  After(m, RunMethod(m, mr, env))
  <1>1. PICK v, w : /\ v = [k |-> "prelude", mr |-> mr]
                    /\ w = [k |-> "body", mr |-> mr, env |-> env]
    OBVIOUS
  <1>2. v.k \in OfMethod /\ v.mr = mr /\ w.k \in OfMethod /\ w.mr = mr
    BY <1>1 DEF OfMethod
  <1>3. \A gs : After(m, Push(m, gs, env, mr.depth + 1, v)) /\ After(m, Push(m, gs, env, mr.depth + 1, w))
    BY <1>2, PushBodyAfter
  <1>4. \/ RunMethod(m, mr, env) = Guard(m, mr, env)
        \/ RunMethod(m, mr, env) = Truth(m, mr, env, <<>>, 1)
        \/ \E gs : RunMethod(m, mr, env) = Push(m, gs, env, mr.depth + 1, v)
        \/ \E gs : RunMethod(m, mr, env) = Push(m, gs, env, mr.depth + 1, w)
    BY <1>1 DEF RunMethod
  <1>. QED
    BY <1>3, <1>4, GuardAfter, TruthAfter

LEMMA StartMethodAfter ==
    ASSUME NEW m, Ready(m), NEW call, CallsNow(m, call.owner, call.env)
    PROVE  After(m, StartMethod(m, call))
  <1>1. PICK mr : mr = [clause |-> call.clause, args |-> call.args, env |-> call.env,
                        depth |-> call.depth, owner |-> call.owner, mode |-> m.mode,
                        main |-> IsMain(call.clause)]
    OBVIOUS
  <1>2. PICK b : b = IF call.clause.body = <<>> THEN NoGoal ELSE Last(call.clause.body)
    OBVIOUS
  <1>3. PICK k : k = [m EXCEPT !.mode.methods = @ + 1, !.mode.tail = b]
    OBVIOUS
  <1>4. Same(m, k) /\ mr.owner = call.owner /\ mr.env = call.env
    BY <1>1, <1>3 DEF Ready, Balanced, IsMachine, Same
  <1>5. Ready(k) /\ k.stack = m.stack /\ CallsNow(k, mr.owner, mr.env)
    BY <1>4, SameReady
  <1>6. PICK l : l = Record(k, Len(m.stack) + 1)
    OBVIOUS
  <1>7. Ready(l) /\ l.stack = m.stack /\ CallsNow(l, mr.owner, mr.env)
    <2>1. PICK h \in Nat : h = Len(m.stack) + 1
      <3>1. Len(m.stack) \in Nat
        BY SequenceOfElements DEF Ready, Busy
      <3>. QED
        BY <3>1
    <2>2. l = Record(k, h)
      BY <1>6, <2>1
    <2>3. Balanced(l) /\ l.stack = k.stack
      BY <1>5, <2>1, <2>2, RecordBalanced DEF Ready
    <2>4. Goal(l) = Goal(k) /\ Frame(l) = Frame(k)
      BY <2>3 DEF Goal, Frame, Top
    <2>. QED
      BY <1>5, <2>3, <2>4 DEF Ready, CallsNow
  <1>8. PICK fs : fs = BindParams(call.clause, call.args, call.env)
    OBVIOUS
  <1>9. \/ StartMethod(m, call) = Then(m, Error)
        \/ StartMethod(m, call) = MethodNone(k, mr)
        \/ StartMethod(m, call) = RunMethod(k, mr, fs[1])
        \/ StartMethod(m, call) = RunMethod(l, mr, fs[1])
    BY <1>1, <1>2, <1>3, <1>6, <1>8, Zenon DEF StartMethod
  <1>10. After(k, MethodNone(k, mr)) /\ After(k, RunMethod(k, mr, fs[1])) /\ After(l, RunMethod(l, mr, fs[1]))
    BY <1>5, <1>7, MethodLeftAfter, RunMethodAfter
  <1>. QED
    BY <1>5, <1>7, <1>9, <1>10, ErrorAfter, AfterFrom

\* The answer of a method binds what its caller has left open.
LEMMA AnswerExtends ==
    ASSUME NEW mr, NEW env, Answered(mr, env), AppendReturned(mr, env) # <<>>
    PROVE  Extends(AppendReturned(mr, env)[1], mr.env)
  <1>1. PICK e : e = Bind(mr.env, Ret, env[Ret])
    OBVIOUS
  <1>2. /\ \A i \in Range(Outputs(mr)) : Given(mr, env, i) # <<>>
        /\ AppendReturned(mr, env) = UnifyEach(Answers(mr, env), e)
    BY <1>1, Zenon DEF AppendReturned
  <1>3. Extends(AppendReturned(mr, env)[1], e)
    BY <1>1, <1>2 DEF Answered, EachExtends
  <1>4. Extends(e, mr.env)
    BY <1>1, BindExtends
  <1>. QED
    BY <1>3, <1>4, ExtendsOn

LEMMA LeaveMethodAfter ==
    ASSUME NEW m, Ready(m), KeepsNow(m, m.now), NEW mr, OwnedNow(m, mr.owner),
           CallsNow(m, mr.owner, mr.env), NEW found, found # <<>> => Extends(found[1], mr.env)
    PROVE  After(m, LeaveMethod(m, mr, found))
  <1>1. PICK o : o = mr.owner
    OBVIOUS
  <1>2. PICK k : k = [m EXCEPT !.mode = mr.mode]
    OBVIOUS
  <1>3. Same(m, k) /\ Ready(k) /\ k.stack = m.stack /\ k.now = m.now
    BY <1>2, ModeSame, SameReady DEF Ready, Balanced
  <1>4. Goal(k) = Goal(m) /\ Frame(k) = Frame(m)
    BY <1>3 DEF Goal, Frame, Top
  <1>5. PICK f : f = NewFrame(Tail(Frame(m).gs), found[1], Frame(m).depth + 1)
    OBVIOUS
  <1>6. PICK conts : conts = IF found = <<>> THEN o.conts ELSE Append(o.conts, f)
    OBVIOUS
  <1>7. CASE o.k = "goal"
    <2>1. PICK x : x = [k |-> "clauses", i |-> o.i + 1, conts |-> conts]
      OBVIOUS
    <2>2. LeaveMethod(m, mr, found) = Then(k, x)
      BY <1>1, <1>2, <1>5, <1>6, <1>7, <2>1 DEF LeaveMethod
    <2>3. ASSUME m.stack # <<>>
          PROVE  AllExtend(conts, Frame(m).env)
      <3>1. Extends(mr.env, Frame(m).env) /\ AllExtend(o.conts, Frame(m).env)
        BY <1>1, <1>7, <2>3 DEF CallsNow, Calls
      <3>2. CASE found = <<>>
        BY <1>6, <3>1, <3>2
      <3>3. CASE found # <<>>
        <4>1. conts = Append(o.conts, f)
          BY <1>6, <3>3
        <4>2. Extends(f.env, Frame(m).env)
          BY <1>5, <3>1, <3>3, ExtendsOn DEF NewFrame
        <4>. QED
          BY <3>1, <4>1, <4>2, AllExtendAppend
      <3>. QED
        BY <3>2, <3>3
    <2>4. x.k = "clauses" /\ x.conts = conts
      BY <2>1
    <2>5. k.stack # <<>> => Suits(Goal(k), Frame(k).env, x)
      BY <1>3, <1>4, <2>3, <2>4 DEF Suits, ForValue, OfMethod
    <2>6. After(k, Then(k, x))
      BY <1>3, <2>4, <2>5, SuitedAfter
    <2>. QED
      BY <1>3, <2>2, <2>6, AfterFrom
  <1>8. CASE o.k = "value"
    <2>1. AssignableNow(k)
      BY <1>1, <1>3, <1>4, <1>8 DEF CallsNow, Calls, AssignableNow
    <2>2. PICK x : x = [k |-> "once", vc |-> [o.vc EXCEPT !.i = @ + 1]]
      OBVIOUS
    <2>3. x.k \in ForValue
      BY <2>2 DEF ForValue
    <2>4. After(k, Then(k, x)) /\ After(k, ValueReturned(k, o.vc, found[1][Ret]))
      BY <1>3, <2>1, <2>3, ForValueAfter, ValueReturnedAfter
    <2>5. \/ LeaveMethod(m, mr, found) = Then(k, x)
          \/ LeaveMethod(m, mr, found) = ValueReturned(k, o.vc, found[1][Ret])
      BY <1>1, <1>2, <1>5, <1>6, <1>8, <2>2 DEF LeaveMethod
    <2>. QED
      BY <1>3, <2>4, <2>5, AfterFrom
  <1>9. CASE o.k = "main"
    <2>1. PICK r : r = IF found = <<>> THEN Stopped ELSE found[1][Ret]
      OBVIOUS
    <2>2. PICK l : l = [k EXCEPT !.result = r]
      OBVIOUS
    <2>3. LeaveMethod(m, mr, found) = l
      BY <1>1, <1>2, <1>5, <1>6, <1>9, <2>1, <2>2 DEF LeaveMethod
    <2>4. IsMachine(l) /\ l.stack = m.stack /\ l.now = m.now
      BY <1>3, <2>2 DEF Same, IsMachine
    <2>. QED
      BY <2>3, <2>4, SameAfter DEF Ready
  <1>. QED
    BY <1>1, <1>7, <1>8, <1>9 DEF OwnedNow, Owned

LEMMA OnceAfter ==
    ASSUME NEW m, Ready(m), AssignableNow(m), NEW vc
    PROVE  After(m, Once(m, vc))
  <1>1. PICK why, called : /\ why = [k |-> "infer", vc |-> vc]
                           /\ called = [k |-> "called", vc |-> vc]
    OBVIOUS
  <1>2. why.k \in ForValue /\ called.k \in ForValue
    BY <1>1 DEF ForValue
  <1>3. \A s, env : OpensOn(s, why, env) /\ OpensOn(s, called, env)
    BY <1>1 DEF OpensOn, Nested
  <1>4. PICK o : o = [k |-> "value", vc |-> vc]
    OBVIOUS
  <1>5. CallsNow(m, o, vc.env)
    BY <1>4 DEF CallsNow, Calls, AssignableNow
  <1>6. \A next : After(m, Then(m, [k |-> "once", vc |-> next]))
    <2>1. \A next : [k |-> "once", vc |-> next].k \in ForValue
      BY DEF ForValue
    <2>. QED
      BY <2>1, ForValueAfter
  <1>7. \A gs : After(m, Push(m, gs, vc.env, 0, why))
    BY <1>2, <1>3, ForValueAfter, PushAfter
  <1>8. PICK x, y : x = [m.mode EXCEPT !.value = TRUE] /\ y = [m.mode EXCEPT !.value = vc.outer.value]
    OBVIOUS
  <1>9. PICK k, l : k = [m EXCEPT !.mode = x] /\ l = [m EXCEPT !.mode = y]
    OBVIOUS
  <1>10. /\ Ready(k) /\ k.stack = m.stack /\ CallsNow(k, o, vc.env)
         /\ Ready(l) /\ l.stack = m.stack /\ AssignableNow(l)
    <2>1. Same(m, k) /\ Same(m, l)
      BY <1>9, ModeSame DEF Ready, Balanced
    <2>. QED
      BY <1>5, <2>1, SameReady
  <1>11. \A c : After(m, Then(k, MethodCall(c, vc.args, vc.env, 0, o)))
    BY <1>10, MethodCallAfter, AfterFrom
  <1>12. \A gs : After(m, Push(l, gs, vc.env, 0, called))
    BY <1>2, <1>3, <1>10, ForValueAfter, PushAfter, AfterFrom
  <1>13. \/ \E gs : Once(m, vc) = Push(m, gs, vc.env, 0, why)
         \/ \E next : Once(m, vc) = Then(m, [k |-> "once", vc |-> next])
         \/ Once(m, vc) = ValueNone(m, vc)
         \/ \E c : Once(m, vc) = Then(k, MethodCall(c, vc.args, vc.env, 0, o))
         \/ \E gs : Once(m, vc) = Push(l, gs, vc.env, 0, called)
    BY <1>1, <1>4, <1>8, <1>9 DEF Once
  <1>. QED
    BY <1>6, <1>7, <1>11, <1>12, <1>13, ValueReturnedAfter

------------------------------------------------------------------------------
(* What the steps of goals leave *)

LEMMA WhereExtends ==
    ASSUME NEW m, NEW lv, Compares(m, lv), NEW w,
           w = WhereHolds(Goal(m), Frame(m).env, lv, Value(Goal(m).r, Frame(m).env)), w.ok
    PROVE  Extends(w.env, Frame(m).env)
  <1>1. PICK g, env : g = Goal(m) /\ env = Frame(m).env
    OBVIOUS
  <1>2. PICK rv : rv = Value(g.r, env)
    OBVIOUS
  <1>3. PICK u : u = IF lv = Undefined \/ rv = Undefined THEN UnifyTerm(g.l, g.r, env)
                     ELSE UnifyTerm(lv, rv, env)
    OBVIOUS
  <1>4. CASE g.op \in {"eq", "ne"}
    <2>1. PICK a, b : u = UnifyTerm(a, b, env) /\ TermExtends(a, b, env)
      <3>1. TermExtends(g.l, g.r, env) /\ (lv # Undefined => TermExtends(lv, rv, env))
        BY <1>1, <1>2, <1>4 DEF Compares
      <3>. QED
        BY <1>3, <3>1
    <2>2. Extends(IF u.ok THEN u.s.env ELSE Rollback(u.s, 0).env, env)
      BY <2>1, Zenon DEF TermExtends
    <2>3. CASE g.op = "eq"
      <3>1. w = [ok |-> u.ok, env |-> u.s.env]
        BY <1>1, <1>2, <1>3, <2>3 DEF WhereHolds
      <3>. QED
        BY <1>1, <2>2, <3>1
    <2>4. CASE g.op = "ne"
      <3>1. w = [ok |-> ~u.ok, env |-> Rollback(u.s, 0).env]
        BY <1>1, <1>2, <1>3, <2>4 DEF WhereHolds
      <3>2. w.env = Rollback(u.s, 0).env
        BY <3>1
      <3>3. ~u.ok
        <4> SUFFICES ASSUME u.ok
                     PROVE  FALSE
          OBVIOUS
        <4>1. PICK no : no = (~u.ok)
          OBVIOUS
        <4>2. w = [ok |-> no, env |-> Rollback(u.s, 0).env]
          BY <3>1, <4>1
        <4>3. w.ok = no
          BY <4>2
        <4>. QED
          BY <4>1, <4>3
      <3>4. Extends(Rollback(u.s, 0).env, env)
        BY <2>2, <3>3, Zenon
      <3>. QED
        BY <1>1, <3>2, <3>4, Zenon
    <2>. QED
      BY <1>4, <2>3, <2>4
  <1>5. CASE g.op \notin {"eq", "ne"}
    <2>1. w.env = env
      BY <1>1, <1>2, <1>5 DEF WhereHolds
    <2>. QED
      BY <1>1, <2>1, ExtendsSelf
  <1>. QED
    BY <1>4, <1>5

LEMMA ComparedAfter ==
    ASSUME NEW m, Ready(m), m.stack # <<>>,
           Goal(m).op = "ne" => Marked(m.trails, Len(m.stack)), NEW lv, Compares(m, lv)
    PROVE  After(m, Compared(m, lv))
  <1>1. PICK k : k = IF Goal(m).op = "ne" THEN [m EXCEPT !.trails = Tail(@)] ELSE m
    OBVIOUS
  <1>2. Balanced(k) /\ k.stack = m.stack
    <2>1. CASE Goal(m).op = "ne"
      <3>1. k = [m EXCEPT !.trails = Tail(m.trails)]
        BY <1>1, <2>1
      <3>. QED
        BY <2>1, <3>1, ComparisonEnds DEF Ready
    <2>2. CASE Goal(m).op # "ne"
      BY <1>1, <2>2 DEF Ready
    <2>. QED
      BY <2>1, <2>2
  <1>3. Ready(k) /\ k.stack # <<>> /\ Frame(k) = Frame(m)
    BY <1>2 DEF Ready, Frame, Top
  <1>4. PICK w : w = WhereHolds(Goal(m), Frame(m).env, lv, Value(Goal(m).r, Frame(m).env))
    OBVIOUS
  <1>5. CASE w.ok
    <2>1. Compared(m, lv) = Continue(k, w.env)
      BY <1>1, <1>4, <1>5 DEF Compared
    <2>2. Extends(w.env, Frame(k).env)
      BY <1>3, <1>4, <1>5, WhereExtends
    <2>3. After(k, Continue(k, w.env))
      BY <1>3, <2>2, ContinueAfter
    <2>. QED
      BY <1>2, <2>1, <2>3, AfterFrom
  <1>6. CASE ~w.ok
    <2>1. Compared(m, lv) = DropFrame(k)
      BY <1>1, <1>4, <1>6 DEF Compared
    <2>. QED
      BY <1>2, <1>3, <2>1, DropFrameAfter, AfterFrom
  <1>. QED
    BY <1>5, <1>6

\* An activation for the goal on top, on an extension of its variables or, for a
\* loop, on any.
LEMMA PushNestedAfter ==
    ASSUME NEW m, Ready(m), m.stack # <<>>, NEW gs, NEW env, NEW depth, NEW why,
           why.k \in Inside, why.k # "scan", Suits(Goal(m), Frame(m).env, why),
           why.k \in Nested => Extends(env, Frame(m).env)
    PROVE  After(m, Push(m, gs, env, depth, why))
  <1>1. why.k \notin {"infer", "called"} /\ why.k # "throw"
    BY DEF Inside
  <1>2. OpensOn(m.stack, why, env)
    BY FrameNow DEF OpensOn
  <1>3. KeepsNow(m, why)
    BY <1>1, KeepsSuited
  <1>. QED
    BY <1>1, <1>2, <1>3, PushAfter

LEMMA ForStepAfter ==
    ASSUME NEW m, Ready(m), m.stack # <<>>, NEW items, NEW n, NEW cont, Extends(cont, Frame(m).env)
    PROVE  After(m, ForStep(m, items, n, cont))
  <1>1. PICK why : why = ForRound(Tail(items), n + 1, cont)
    OBVIOUS
  <1>2. why.k = "for" /\ why.cont = cont
    BY <1>1 DEF ForRound
  <1>3. why.k \in Inside /\ why.k # "scan" /\ why.k \notin Nested
    BY <1>2 DEF Inside, Nested
  <1>4. Suits(Goal(m), Frame(m).env, why)
    BY <1>2 DEF Suits, ForValue, OfMethod
  <1>5. \A env : After(m, Push(m, Goal(m).body, env, Frame(m).depth + 1, why))
    BY <1>3, <1>4, PushNestedAfter
  <1>6. \/ ForStep(m, items, n, cont) = Continue(m, cont)
        \/ ForStep(m, items, n, cont) = Then(m, Error)
        \/ \E env : ForStep(m, items, n, cont) = Push(m, Goal(m).body, env, Frame(m).depth + 1, why)
    BY <1>1 DEF ForStep
  <1>. QED
    BY <1>5, <1>6, ContinueAfter, ErrorAfter

LEMMA WhileStepAfter ==
    ASSUME NEW m, Ready(m), m.stack # <<>>, NEW n, NEW cont, Extends(cont, Frame(m).env)
    PROVE  After(m, WhileStep(m, n, cont))
  <1>1. PICK why : why = WhileRound(n, cont)
    OBVIOUS
  <1>2. why.k = "while" /\ why.cont = cont
    BY <1>1 DEF WhileRound
  <1>3. why.k \in Inside /\ why.k # "scan" /\ why.k \notin Nested
    BY <1>2 DEF Inside, Nested
  <1>4. Suits(Goal(m), Frame(m).env, why)
    BY <1>2 DEF Suits, ForValue, OfMethod
  <1>5. After(m, Push(m, Goal(m).body, cont, Frame(m).depth + 1, why))
    BY <1>3, <1>4, PushNestedAfter
  <1>6. Bool(FALSE) # Bool(TRUE)
    BY DEF Bool
  <1>7. \/ WhileStep(m, n, cont) = Continue(m, cont)
        \/ WhileStep(m, n, cont) = Then(m, Error)
        \/ WhileStep(m, n, cont) = Push(m, Goal(m).body, cont, Frame(m).depth + 1, why)
    BY <1>1, <1>6 DEF WhileStep
  <1>. QED
    BY <1>5, <1>7, ContinueAfter, ErrorAfter

LEMMA SwitchStepAfter ==
    ASSUME NEW m, Ready(m), m.stack # <<>>, NEW v
    PROVE  After(m, SwitchStep(m, v))
  <1>1. PICK why : why = [k |-> "switch"]
    OBVIOUS
  <1>2. why.k \in Inside /\ why.k # "scan"
    BY <1>1 DEF Inside
  <1>3. Suits(Goal(m), Frame(m).env, why)
    BY <1>1 DEF Suits, ForValue, OfMethod
  <1>4. Extends(Frame(m).env, Frame(m).env)
    BY ExtendsSelf
  <1>5. \A gs : After(m, Push(m, gs, Frame(m).env, Frame(m).depth + 1, why))
    BY <1>2, <1>3, <1>4, PushNestedAfter
  <1>6. \/ SwitchStep(m, v) = Continue(m, Frame(m).env)
        \/ \E gs : SwitchStep(m, v) = Push(m, gs, Frame(m).env, Frame(m).depth + 1, why)
    BY <1>1, Zenon DEF SwitchStep
  <1>. QED
    BY <1>4, <1>5, <1>6, ContinueAfter

\* The value of the goal's expression, and the variable that gets it.
LEMMA BindBoth ==
    ASSUME NEW env, NEW x, x \notin DOMAIN env, NEW v
    PROVE  Extends(Bind(Bind(env, Ret, v), x, v), env) /\ Extends(Bind(env, Ret, v), env)
  <1>1. PICK kept : kept = Bind(env, Ret, v)
    OBVIOUS
  <1>2. Extends(kept, env)
    BY <1>1, BindExtends
  <1>3. x \notin DOMAIN kept \/ x = Ret
    BY <1>1 DEF Bind
  <1>4. Extends(Bind(kept, x, v), kept)
    BY <1>3, BindExtends
  <1>. QED
    BY <1>1, <1>2, <1>4, ExtendsOn

LEMMA DeliverAfter ==
    ASSUME NEW m, Ready(m), KeepsNow(m, m.now), WaitsNow(m), AssignableNow(m), NEW v,
           m.stack # <<>> /\ Goal(m).k = "where" => Compares(m, v)
    PROVE  After(m, Deliver(m, v))
  <1>1. CASE m.stack = <<>>
    <2>1. PICK l : l = [m EXCEPT !.result = v]
      OBVIOUS
    <2>2. Deliver(m, v) = l
      BY <1>1, <2>1, Zenon DEF Deliver
    <2>3. IsMachine(l) /\ l.stack = m.stack /\ l.now = m.now
      BY <2>1 DEF Ready, Balanced, IsMachine
    <2>. QED
      BY <2>2, <2>3, SameAfter DEF Ready
  <1>2. CASE m.stack # <<>>
    <2>1. PICK k : k = Goal(m).k
      OBVIOUS
    <2>2. k \in ByValue
      BY <1>2, <2>1, WaitingGoal DEF Ready
    <2>3. PICK env : env = Frame(m).env
      OBVIOUS
    <2>4. CASE k = "assign"
      <3>1. PICK r : r = Record(m, Len(m.stack))
        OBVIOUS
      <3>2. Balanced(r) /\ r.stack = m.stack
        BY <1>2, <3>1, GoalNow, RecordBalanced DEF Ready
      <3>3. Ready(r) /\ r.stack # <<>> /\ Frame(r).env = env
        BY <1>2, <2>3, <3>2 DEF Ready, Frame, Top
      <3>4. Deliver(m, v) = Continue(r, Bind(Bind(env, Ret, v), Goal(m).x, v))
        BY <1>2, <2>1, <2>3, <2>4, <3>1 DEF Deliver
      <3>5. Extends(Bind(Bind(env, Ret, v), Goal(m).x, v), env)
        BY <1>2, <2>1, <2>3, <2>4, BindBoth DEF AssignableNow, Assignable
      <3>. QED
        BY <3>2, <3>3, <3>4, <3>5, ContinueAfter, AfterFrom
    <2>5. CASE k = "typed"
      <3>1. \/ Deliver(m, v) = Then(m, Error)
            \/ /\ Goal(m).x \notin DOMAIN env
               /\ Deliver(m, v) = Continue(m, Bind(Bind(env, Ret, v), Goal(m).x, v))
        BY <1>2, <2>1, <2>3, <2>5 DEF Deliver
      <3>. QED
        BY <1>2, <2>3, <3>1, BindBoth, ErrorAfter, ContinueAfter
    <2>6. CASE k = "expr"
      <3>1. Deliver(m, v) = Continue(m, Bind(env, Ret, v))
        BY <1>2, <2>1, <2>3, <2>6 DEF Deliver
      <3>. QED
        BY <1>2, <2>3, <3>1, BindExtends, ContinueAfter
    <2>7. CASE k = "where"
      <3>1. Deliver(m, v) = Compared(m, v)
        BY <1>2, <2>1, <2>7 DEF Deliver
      <3>2. Goal(m).op = "ne" => Marked(m.trails, Len(m.stack))
        BY <1>2, <2>1, <2>7, WaitingGoal DEF Ready
      <3>. QED
        BY <1>2, <2>1, <2>7, <3>1, <3>2, ComparedAfter
    <2>8. CASE k = "for"
      <3>1. PICK x : x = ForRound(v[2], 0, env)
        OBVIOUS
      <3>2. x.k = "for" /\ x.cont = env
        BY <3>1 DEF ForRound
      <3>3. Deliver(m, v) = Then(m, Error) \/ Deliver(m, v) = Then(m, x)
        BY <1>2, <2>1, <2>3, <2>8, <3>1 DEF Deliver
      <3>4. Suits(Goal(m), Frame(m).env, x)
        BY <2>3, <3>2, ExtendsSelf DEF Suits, ForValue, OfMethod
      <3>5. x.k # "throw"
        BY <3>2
      <3>. QED
        BY <3>3, <3>4, <3>5, SuitedAfter, ErrorAfter
    <2>9. CASE k = "switch"
      <3>1. Deliver(m, v) = SwitchStep(m, v)
        BY <1>2, <2>1, <2>9 DEF Deliver
      <3>. QED
        BY <1>2, <3>1, SwitchStepAfter
    <2>. QED
      BY <2>2, <2>4, <2>5, <2>6, <2>7, <2>8, <2>9 DEF ByValue
  <1>. QED
    BY <1>1, <1>2

LEMMA DeliverNoneAfter ==
    ASSUME NEW m, Ready(m), KeepsNow(m, m.now), WaitsNow(m),
           m.stack # <<>> /\ Goal(m).k = "where" => Compares(m, Undefined)
    PROVE  After(m, DeliverNone(m))
  <1>1. CASE m.stack = <<>>
    <2>1. PICK l : l = [m EXCEPT !.result = Failed]
      OBVIOUS
    <2>2. DeliverNone(m) = l
      BY <1>1, <2>1, Zenon DEF DeliverNone
    <2>3. IsMachine(l) /\ l.stack = m.stack /\ l.now = m.now
      BY <2>1 DEF Ready, Balanced, IsMachine
    <2>. QED
      BY <2>2, <2>3, SameAfter DEF Ready
  <1>2. CASE m.stack # <<>> /\ Goal(m).k = "where"
    <2>1. DeliverNone(m) = Compared(m, Undefined)
      BY <1>2 DEF DeliverNone
    <2>2. Goal(m).op = "ne" => Marked(m.trails, Len(m.stack))
      BY <1>2, WaitingGoal DEF Ready
    <2>. QED
      BY <1>2, <2>1, <2>2, ComparedAfter
  <1>3. CASE m.stack # <<>> /\ Goal(m).k # "where"
    <2>1. DeliverNone(m) = Then(m, Error) \/ DeliverNone(m) = DropFrame(m)
      BY <1>3 DEF DeliverNone
    <2>. QED
      BY <1>3, <2>1, ErrorAfter, DropFrameAfter
  <1>. QED
    BY <1>1, <1>2, <1>3

LEMMA CatchStepAfter ==
    ASSUME NEW m, Ready(m), m.stack # <<>>, NEW j
    PROVE  After(m, CatchStep(m, j))
  <1>1. PICK why : why = [k |-> "catch", j |-> j]
    OBVIOUS
  <1>2. why.k \in Inside /\ why.k # "scan"
    BY <1>1 DEF Inside
  <1>3. PICK env, x : env = Frame(m).env /\ x = Goal(m).catches[j].x
    OBVIOUS
  <1>4. CASE x \in DOMAIN env
    <2>1. CatchStep(m, j) = Then(m, Error)
      BY <1>3, <1>4, Zenon DEF CatchStep
    <2>. QED
      BY <2>1, ErrorAfter
  <1>5. CASE x \notin DOMAIN env
    <2>1. \E gs, d : CatchStep(m, j) = Push(m, gs, Bind(env, x, ErrorValue), d, why)
      BY <1>1, <1>3, <1>5, Zenon DEF CatchStep
    <2>2. Extends(Bind(env, x, ErrorValue), Frame(m).env)
      BY <1>3, <1>5, BindExtends
    <2>3. Suits(Goal(m), Frame(m).env, why)
      BY <1>1, <1>3, <1>5 DEF Suits, ForValue, OfMethod
    <2>. QED
      BY <1>2, <2>1, <2>2, <2>3, PushNestedAfter
  <1>. QED
    BY <1>4, <1>5

------------------------------------------------------------------------------
(* What the clauses and the rows of a call leave *)

\* The frames of a rule, one for each way its head matches.
LEMMA RuleFrames ==
    ASSUME NEW m, NEW head, Matches(m, head), NEW gs, NEW depth, NEW alternatives,
           alternatives = UnifyCallAlternatives(EffectiveArgs(Goal(m), Frame(m).env), head, Frame(m).env)
    PROVE  AllExtend([a \in DOMAIN alternatives |-> NewFrame(gs, alternatives[a], depth)], Frame(m).env)
  <1>1. /\ alternatives \in Seq(Range(alternatives))
        /\ \A i \in DOMAIN alternatives : Extends(alternatives[i], Frame(m).env)
    BY DEF Matches, CallExtends
  <1>2. PICK n \in Nat : DOMAIN alternatives = 1 .. n
    BY <1>1
  <1>3. PICK r : r = [a \in 1 .. n |-> NewFrame(gs, alternatives[a], depth)]
    OBVIOUS
  <1>4. PICK S : S = {NewFrame(gs, alternatives[a], depth) : a \in 1 .. n}
    OBVIOUS
  <1>5. r \in Seq(S)
    BY <1>3, <1>4
  <1>6. IsASequence(r)
    BY <1>5, AnySequence
  <1>7. \A i \in 1 .. n : r[i].env = alternatives[i]
    BY <1>3 DEF NewFrame
  <1>8. AllExtend(r, Frame(m).env)
    BY <1>1, <1>2, <1>3, <1>6, <1>7 DEF AllExtend
  <1>. QED
    BY <1>2, <1>3, <1>8

\* The frames of the call take the place of its own.
LEMMA ReplaceFrameAfter ==
    ASSUME NEW m, Ready(m), m.stack # <<>>, NEW frames, AllExtend(frames, Frame(m).env), frames # <<>>
    PROVE  After(m, SetWork(m, frames \o Tail(Top(m).work)))
  <1>1. PICK s, t, env : s = m.stack /\ t = Tail(Head(s).work) /\ env = Frame(m).env
    OBVIOUS
  <1>2. PICK work : work = frames \o t
    OBVIOUS
  <1>3. Busy(s) /\ s # <<>>
    BY <1>1 DEF Ready
  <1>4. PICK k \in Nat, n \in Nat :
              k = Len(frames) /\ DOMAIN frames = 1 .. k /\ n = Len(t) /\ DOMAIN t = 1 .. n
    BY <1>1, <1>3, AboveTop, SequenceOfElements DEF AllExtend
  <1>5. /\ IsASequence(work) /\ Len(work) = k + n /\ \A i \in 1 .. k : work[i] = frames[i]
        /\ \A i \in 1 .. k + n : i \notin 1 .. k => i - k \in 1 .. n /\ work[i] = t[i - k]
    BY <1>1, <1>2, <1>3, <1>4, AboveTop, Concatenated DEF AllExtend
  <1>6. DOMAIN work = 1 .. k + n
    BY <1>5, SequenceOfElements
  <1>7. \A i \in 1 .. k : Extends(work[i].env, env) /\ Above(s, work[i].env, Len(s))
    <2>1. \A i \in 1 .. k : Extends(work[i].env, env)
      BY <1>1, <1>4, <1>5 DEF AllExtend
    <2>2. env = EnvAt(s, Len(s))
      BY <1>1, FrameNow
    <2>. QED
      BY <1>3, <2>1, <2>2, AboveTop
  <1>8. \A i \in 1 .. n : Above(s, t[i].env, Len(s))
    BY <1>1, <1>3, <1>4, AboveTop
  <1>9. \A i \in DOMAIN work : Above(s, work[i].env, Len(s))
    BY <1>5, <1>6, <1>7, <1>8
  <1>10. k # 0
    BY <1>4, EmptySequence DEF AllExtend
  <1>11. Extends(Head(work).env, env)
    <2>1. 1 \in 1 .. k /\ Len(work) # 0
      BY <1>5, <1>10
    <2>2. work # <<>> /\ Head(work) = work[1]
      BY <1>5, <2>1 DEF IsASequence
    <2>. QED
      BY <1>7, <2>1, <2>2
  <1>12. After(m, SetWork(m, work))
    BY <1>1, <1>5, <1>9, <1>11, SetWorkAfter
  <1>. QED
    BY <1>1, <1>2, <1>12 DEF Top

LEMMA CallStepAfter ==
    ASSUME NEW m, Ready(m), m.stack # <<>>, NEW i, NEW conts, AllExtend(conts, Frame(m).env),
           ~(i > Len(Clauses(Goal(m).p))) => Matches(m, Renamed(m, i).head)
    PROVE  After(m, CallStep(m, i, conts))
  <1>1. PICK g, f, env : g = Goal(m) /\ f = Frame(m) /\ env = f.env
    OBVIOUS
  <1>2. PICK clauses : clauses = Clauses(g.p)
    OBVIOUS
  <1>3. CASE i > Len(clauses)
    <2>1. PICK scan : scan = [NewFrame(f.gs, f.env, f.depth + 1) EXCEPT !.scan = TRUE]
      OBVIOUS
    <2>2. scan.env = env
      BY <1>1, <2>1 DEF NewFrame
    <2>3. AllExtend(<<scan>>, env)
      BY <2>2, ExtendsSelf, AllExtendOne
    <2>4. PICK frames : frames = conts \o <<scan>>
      OBVIOUS
    <2>5. AllExtend(frames, env)
      BY <1>1, <2>3, <2>4, AllExtendConcat
    <2>6. frames # <<>>
      <3>1. PICK k \in Nat : k = Len(conts) /\ IsASequence(conts)
        BY SequenceOfElements DEF AllExtend
      <3>2. IsASequence(<<scan>>) /\ Len(<<scan>>) = 1
        BY <2>3 DEF AllExtend
      <3>3. Len(frames) = k + 1
        BY <2>4, <3>1, <3>2, Concatenated
      <3>. QED
        BY <3>3
    <2>7. CallStep(m, i, conts) = SetWork(m, frames \o Tail(Top(m).work))
      <3>1. CallStep(m, i, conts) = SetWork(m, conts \o <<scan>> \o Tail(Top(m).work))
        BY <1>1, <1>2, <1>3, <2>1, Zenon DEF CallStep
      <3>. QED
        BY <2>4, <3>1
    <2>. QED
      BY <1>1, <2>5, <2>6, <2>7, ReplaceFrameAfter
  <1>4. CASE ~(i > Len(clauses)) /\ IsMethodClause(clauses[i])
    <2>1. PICK o : o = [k |-> "goal", i |-> i, conts |-> conts]
      OBVIOUS
    <2>2. \E args : CallStep(m, i, conts)
                    = Then(m, MethodCall(clauses[i], args, env, f.depth + 1, o))
      BY <1>1, <1>2, <1>4, <2>1 DEF CallStep
    <2>3. CallsNow(m, o, env)
      BY <1>1, <2>1, ExtendsSelf DEF CallsNow, Calls
    <2>. QED
      BY <2>2, <2>3, MethodCallAfter
  <1>5. CASE ~(i > Len(clauses)) /\ ~IsMethodClause(clauses[i])
    <2>1. PICK apart : apart = StandardizeApart(clauses[i], m.next)
      OBVIOUS
    <2>2. PICK alternatives :
              alternatives = UnifyCallAlternatives(EffectiveArgs(g, env), apart.clause.head, env)
      OBVIOUS
    <2>3. PICK frames : frames = [a \in DOMAIN alternatives |->
                NewFrame(apart.clause.body \o Tail(f.gs), alternatives[a], f.depth + 1)]
      OBVIOUS
    <2>4. PICK c, x, k : /\ c = conts \o frames /\ x = [k |-> "clauses", i |-> i + 1, conts |-> c]
                         /\ k = [m EXCEPT !.next = apart.next]
      OBVIOUS
    <2>5. CallStep(m, i, conts) = Then(k, x)
      BY <1>1, <1>2, <1>5, <2>1, <2>2, <2>3, <2>4 DEF CallStep
    <2>6. apart.clause = Renamed(m, i) /\ Matches(m, apart.clause.head)
      BY <1>1, <1>2, <1>5, <2>1 DEF Renamed
    <2>7. AllExtend(frames, env)
      <3>1. alternatives = UnifyCallAlternatives(EffectiveArgs(Goal(m), Frame(m).env),
                                                 apart.clause.head, Frame(m).env)
        BY <1>1, <2>2
      <3>2. AllExtend([a \in DOMAIN alternatives |->
                          NewFrame(apart.clause.body \o Tail(f.gs), alternatives[a], f.depth + 1)],
                      Frame(m).env)
        BY <2>6, <3>1, RuleFrames
      <3>. QED
        BY <1>1, <2>3, <3>2
    <2>8. AllExtend(c, env)
      BY <1>1, <2>4, <2>7, AllExtendConcat
    <2>9. Same(m, k)
      BY <2>4 DEF Ready, Balanced, IsMachine, Same
    <2>10. Ready(k) /\ k.stack = m.stack /\ Goal(k) = g /\ Frame(k).env = env
      BY <1>1, <2>9, SameReady DEF Goal, Frame, Top
    <2>11. Suits(Goal(k), Frame(k).env, x) /\ x.k # "throw"
      BY <2>4, <2>8, <2>10 DEF Suits, ForValue, OfMethod
    <2>12. After(k, Then(k, x))
      BY <2>10, <2>11, SuitedAfter
    <2>. QED
      BY <2>5, <2>10, <2>12, AfterFrom
  <1>. QED
    BY <1>3, <1>4, <1>5

LEMMA FirstFit ==
    ASSUME NEW rows, IsASequence(rows), NEW fits, fits \subseteq DOMAIN rows, fits # {}
    PROVE  Min(fits) \in fits
  <1>1. PICK n \in Nat : DOMAIN rows = 1 .. n
    BY SequenceOfElements
  <1>2. IsFiniteSet(1 .. n) /\ fits \subseteq 1 .. n
    BY <1>1, FS_Interval
  <1>3. IsFiniteSet(fits)
    BY <1>2, FS_Subset
  <1>4. fits \in SUBSET Nat
    BY <1>2
  <1>5. \E i \in fits : \A j \in fits : i <= j
    BY <1>3, <1>4, MinNat
  <1>. QED
    BY <1>5 DEF Min

\* A row opens an activation for the goals after the call, which goes on with the
\* solutions found so far.
LEMMA PushScanAfter ==
    ASSUME NEW m, Ready(m), m.stack # <<>>, NEW gs, NEW env, Extends(env, Frame(m).env), NEW depth,
           NEW after, IsASequence(after),
           NEW p, p = Push(m, gs, env, depth, [k |-> "scan", rows |-> after]),
           NEW a, a = [Top(p) EXCEPT !.out = Top(m).out, !.max = Top(m).max]
    PROVE  After(m, SetTop(p, a))
  <1>1. PICK why : why = [k |-> "scan", rows |-> after]
    OBVIOUS
  <1>2. why.k = "scan" /\ why.k \in Inside /\ why.k \in Whys /\ why.k \notin Nested
    BY <1>1 DEF Inside, Whys, Nested
  <1>3. p = Push(m, gs, env, depth, why)
    BY <1>1
  <1>4. KeepsNow(m, why)
    <2>1. Suits(Goal(m), Frame(m).env, why)
      BY <1>1 DEF Suits, ForValue, OfMethod
    <2>. QED
      BY <1>2, <2>1, KeepsSuited
  <1>5. PICK s : s = m.stack
    OBVIOUS
  <1>6. Busy(s) /\ s # <<>> /\ EnvAt(s, Len(s)) = Frame(m).env
    BY <1>5, FrameNow DEF Ready
  <1>7. OpensOn(s, why, env)
    <2>1. Above(s, env, Len(s))
      BY <1>6, AboveTop
    <2>. QED
      BY <1>2, <2>1 DEF OpensOn
  <1>8. /\ After(m, p) /\ Busy(p.stack) /\ Len(p.stack) = Len(s) + 1
        /\ \A e : OpensOn(s, why, e) => Above(p.stack, e, Len(s) + 1)
    <2>1. OpensOn(m.stack, why, env) /\ (why.k \in {"infer", "called"} => depth = 0)
      BY <1>2, <1>5, <1>7
    <2>2. /\ After(m, Push(m, gs, env, depth, why)) /\ Busy(Push(m, gs, env, depth, why).stack)
          /\ Len(Push(m, gs, env, depth, why).stack) = Len(m.stack) + 1
      BY <1>4, <2>1, PushAfter
    <2>3. \A e : OpensOn(m.stack, why, e)
                => Above(Push(m, gs, env, depth, why).stack, e, Len(m.stack) + 1)
      BY <1>4, <2>1, PushAfter
    <2>. QED
      BY <1>3, <1>5, <2>2, <2>3
  <1>9. Ready(p) /\ p.stack # <<>>
    BY <1>2, <1>3, <1>8, PushInsideGood DEF Ready
  <1>10. IsActivation(Top(p))
    BY <1>9, TopActivation DEF Ready
  <1>11. a.work = Top(p).work /\ a.out = Top(m).out /\ a.why = Top(p).why /\ a.start = Top(p).start
    BY <1>10 DEF IsActivation
  <1>12. /\ IsASequence(a.work)
         /\ \A i \in DOMAIN a.work : Above(p.stack, a.work[i].env, Len(p.stack))
    <2>1. PICK r : r = p.stack
      OBVIOUS
    <2>2. IsASequence(Head(r).work) /\ \A i \in DOMAIN Head(r).work : Above(r, Head(r).work[i].env, Len(r))
      BY <1>8, <1>9, <2>1, AboveTop
    <2>. QED
      BY <1>11, <2>1, <2>2 DEF Top
  <1>13. /\ IsASequence(a.out)
         /\ \A i \in DOMAIN a.out : Above(p.stack, a.out[i], Len(p.stack))
    <2>1. IsASequence(Head(s).out) /\ \A i \in DOMAIN Head(s).out : Above(s, Head(s).out[i], Len(s))
      BY <1>6, AboveTop
    <2>2. a.out = Head(s).out
      BY <1>5, <1>11 DEF Top
    <2>3. \A i \in DOMAIN a.out : OpensOn(s, why, a.out[i])
      BY <1>2, <2>1, <2>2 DEF OpensOn
    <2>. QED
      BY <1>8, <2>1, <2>2, <2>3
  <1>14. GoesOn(Top(p), a)
    BY <1>11, ExtendsSelf DEF GoesOn
  <1>15. After(p, SetTop(p, a)) /\ Len(SetTop(p, a).stack) = Len(p.stack)
    BY <1>9, <1>11, <1>12, <1>13, <1>14, SetTopAfter
  <1>. QED
    BY <1>5, <1>8, <1>15 DEF After

LEMMA ScanStepAfter ==
    ASSUME NEW m, Ready(m), m.stack # <<>>, NEW rows, IsASequence(rows),
           \A i \in DOMAIN rows : Matches(m, rows[i])
    PROVE  After(m, ScanStep(m, rows))
  <1>1. PICK f, args : f = Frame(m) /\ args = EffectiveArgs(Goal(m), f.env)
    OBVIOUS
  <1>2. PICK fits : fits = {i \in DOMAIN rows : UnifyCallAlternatives(args, rows[i], f.env) # <<>>}
    OBVIOUS
  <1>3. CASE fits = {} \/ Len(Top(m).out) >= Top(m).max
    <2>1. ScanStep(m, rows) = DropFrame(m)
      BY <1>1, <1>2, <1>3, Zenon DEF ScanStep
    <2>. QED
      BY <2>1, DropFrameAfter
  <1>4. CASE ~(fits = {} \/ Len(Top(m).out) >= Top(m).max)
    <2>1. PICK i : i = Min(fits)
      OBVIOUS
    <2>2. PICK found : found = UnifyCallAlternatives(args, rows[i], f.env)
      OBVIOUS
    <2>3. PICK env, after : env = found[1] /\ after = SubSeq(rows, i + 1, Len(rows))
      OBVIOUS
    <2>4. PICK p : p = Push(m, Tail(f.gs), env, f.depth + 1, [k |-> "scan", rows |-> after])
      OBVIOUS
    <2>5. PICK a : a = [Top(p) EXCEPT !.out = Top(m).out, !.max = Top(m).max]
      OBVIOUS
    <2>6. ScanStep(m, rows) = SetTop(p, a)
      BY <1>1, <1>2, <1>4, <2>1, <2>2, <2>3, <2>4, <2>5, Zenon DEF ScanStep
    <2>7. i \in DOMAIN rows /\ found # <<>>
      <3>1. fits \subseteq DOMAIN rows /\ fits # {}
        BY <1>2, <1>4
      <3>2. i \in fits
        BY <2>1, <3>1, FirstFit
      <3>. QED
        BY <1>2, <2>2, <3>2
    <2>8. IsASequence(after)
      BY <2>3, <2>7, RestSequence
    <2>9. Extends(env, f.env)
      <3>1. found \in Seq(Range(found)) /\ \A j \in DOMAIN found : Extends(found[j], f.env)
        BY <1>1, <2>2, <2>7 DEF Matches, CallExtends
      <3>2. 1 \in DOMAIN found
        BY <2>7, <3>1
      <3>. QED
        BY <2>3, <3>1, <3>2
    <2>. QED
      <3>1. PICK gs, depth : gs = Tail(f.gs) /\ depth = f.depth + 1
        OBVIOUS
      <3>2. Extends(env, Frame(m).env)
        BY <1>1, <2>9
      <3>3. p = Push(m, gs, env, depth, [k |-> "scan", rows |-> after])
        BY <2>4, <3>1
      <3>4. After(m, SetTop(p, a))
        BY <2>5, <2>8, <3>2, <3>3, PushScanAfter
      <3>. QED
        BY <2>6, <3>4
  <1>. QED
    BY <1>3, <1>4

\* What depends on the activations alone.
LEMMA StackAfter ==
    ASSUME NEW m, NEW l, After(m, l), Len(l.stack) = Len(m.stack), NEW k, IsMachine(k), Firm(k),
           k.stack = l.stack
    PROVE  After(m, k)
  BY DEF After, Top

------------------------------------------------------------------------------
(* What returns and exceptions leave *)

\* The activations below one that ends, and what it was opened for.
LEMMA PopReady ==
    ASSUME NEW m, Balanced(m), Steady(m.stack), m.stack # <<>>
    PROVE  /\ Ready(Pop(m)) /\ KeepsNow(Pop(m), Top(m).why) /\ IsASequence(Top(m).out)
           /\ \A e : Above(m.stack, e, Len(m.stack)) => OpensOn(Pop(m).stack, Top(m).why, e)
           /\ \A i \in DOMAIN Top(m).out : OpensOn(Pop(m).stack, Top(m).why, Top(m).out[i])
           /\ Top(m).why.k \in {"infer", "called"} => Top(m).start = 0
  <1>1. PICK s, t, a : s = m.stack /\ t = Tail(s) /\ a = Head(s)
    OBVIOUS
  <1>2. PICK x, N, U : x = a.mode /\ N = a.negated /\ U = Outside(m.trails, Len(s))
    OBVIOUS
  <1>3. PICK k : k = [m EXCEPT !.stack = t, !.mode = x, !.negated = N, !.trails = U]
    OBVIOUS
  <1>4. Pop(m) = k
    BY <1>1, <1>2, <1>3, Zenon DEF Pop, Top
  <1>5. k.stack = t
    BY <1>3 DEF Balanced, IsMachine
  <1>6. Steady(s) /\ s # <<>>
    BY <1>1
  <1>7. /\ Busy(t) /\ Keeps(t, a.why, Len(t))
        /\ \A e : Above(s, e, Len(s)) => OpensOn(t, a.why, e)
    BY <1>1, <1>6, SteadyPop
  <1>8. PICK n \in Nat \ {0} : n = Len(s) /\ a = Activation(s, n)
    BY <1>1, <1>6, TailStack DEF Steady
  <1>9. Kept(s, n)
    BY <1>6, <1>8 DEF Steady
  <1>10. /\ IsASequence(a.out) /\ \A i \in DOMAIN a.out : OpensOn(t, a.why, a.out[i])
         /\ a.why.k \in {"infer", "called"} => a.start = 0
    BY <1>7, <1>8, <1>9 DEF Kept
  <1>11. Balanced(k)
    BY <1>4, PopBalanced
  <1>. QED
    BY <1>1, <1>4, <1>5, <1>7, <1>10, <1>11 DEF Ready, KeepsNow, Top

\* What an activation was opened for tells what the goal below it has.
LEMMA WhySuits ==
    ASSUME NEW m, Ready(m), NEW why, KeepsNow(m, why)
    PROVE  /\ m.stack # <<>> => Suits(Goal(m), Frame(m).env, why)
           /\ why.k \in ForValue => AssignableNow(m)
           /\ why.k \in OfMethod => CallsNow(m, why.mr.owner, why.mr.env)
  <1>1. m.stack # <<>> => Suits(Goal(m), Frame(m).env, why)
    BY SuitedNow
  <1>. QED
    BY <1>1 DEF Suits, AssignableNow, CallsNow

LEMMA BodyDoneAfter ==
    ASSUME NEW m, Ready(m), NEW why, CallsNow(m, why.mr.owner, why.mr.env), NEW found, NEW env
    PROVE  After(m, BodyDone(m, why, found, env))
  <1>1. \/ BodyDone(m, why, found, env) = MethodNone(m, why.mr)
        \/ \E e : BodyDone(m, why, found, env) = MethodReturned(m, why.mr, e)
    BY Zenon DEF BodyDone
  <1>. QED
    BY <1>1, MethodLeftAfter

\* The next round of a loop.
LEMMA RoundAfter ==
    ASSUME NEW m, Ready(m), m.stack # <<>>, NEW n, NEW cont, Extends(cont, Frame(m).env)
    PROVE  After(m, Then(m, WhileRound(n, cont)))
  <1>1. PICK x : x = WhileRound(n, cont)
    OBVIOUS
  <1>2. Suits(Goal(m), Frame(m).env, x) /\ x.k # "throw"
    BY <1>1 DEF WhileRound, Suits, ForValue, OfMethod
  <1>. QED
    BY <1>1, <1>2, SuitedAfter

\* The rows that are left, with the solutions found for the others.
LEMMA RowsAfter ==
    ASSUME NEW m, Ready(m), m.stack # <<>>, NEW out, IsASequence(out),
           \A i \in DOMAIN out : Above(m.stack, out[i], Len(m.stack)),
           NEW a, a = [Top(m) EXCEPT !.out = out], NEW rows, IsASequence(rows)
    PROVE  After(m, Then(SetTop(m, a), [k |-> "rows", rows |-> rows]))
  <1>1. PICK s : s = m.stack
    OBVIOUS
  <1>2. PICK l : l = SetTop(m, a)
    OBVIOUS
  <1>3. IsActivation(Top(m))
    BY TopActivation DEF Ready
  <1>4. /\ IsActivation(a) /\ a.negated = Top(m).negated /\ a.why = Top(m).why
        /\ a.work = Top(m).work /\ a.out = out /\ a.start = Top(m).start
    BY <1>3 DEF IsActivation
  <1>5. Busy(s) /\ s # <<>>
    BY <1>1 DEF Ready
  <1>6. /\ IsASequence(Head(s).work) /\ Head(s).work # <<>>
        /\ \A i \in DOMAIN Head(s).work : Above(s, Head(s).work[i].env, Len(s))
    BY <1>5, AboveTop
  <1>7. /\ IsASequence(a.work) /\ a.work # <<>>
        /\ \A i \in DOMAIN a.work : Above(m.stack, a.work[i].env, Len(m.stack))
    BY <1>1, <1>4, <1>6 DEF Top
  <1>8. GoesOn(Top(m), a)
    BY <1>4, ExtendsSelf DEF GoesOn
  <1>9. After(m, l) /\ Len(l.stack) = Len(m.stack) /\ Busy(l.stack)
    BY <1>2, <1>4, <1>7, <1>8, SetTopAfter
  <1>10. Balanced(l) /\ l.stack # <<>>
    BY <1>2, <1>4, SetTopGood DEF Ready
  <1>11. Ready(l)
    BY <1>9, <1>10 DEF Ready
  <1>12. PICK x : x = [k |-> "rows", rows |-> rows]
    OBVIOUS
  <1>13. Suits(Goal(l), Frame(l).env, x) /\ x.k # "throw"
    BY <1>12 DEF Suits, ForValue, OfMethod
  <1>14. PICK k : k = Then(l, x)
    OBVIOUS
  <1>15. After(l, k)
    BY <1>11, <1>13, <1>14, SuitedAfter
  <1>16. k.stack = l.stack
    BY <1>10, <1>14, ThenSame, Zenon DEF Balanced, Same
  <1>17. IsMachine(k) /\ Firm(k)
    BY <1>15 DEF After
  <1>. QED
    BY <1>2, <1>9, <1>12, <1>14, <1>16, <1>17, StackAfter

LEMMA ReturnedAfter ==
    ASSUME NEW m, Balanced(m), Steady(m.stack), m.stack # <<>>
    PROVE  After(Pop(m), Returned(m))
  <1>1. PICK why, back : why = Top(m).why /\ back = Pop(m)
    OBVIOUS
  <1>2. PICK out, found : out = Top(m).out /\ found = (out # <<>>)
    OBVIOUS
  <1>3. PICK env : env = IF found THEN out[1] ELSE NoBindings
    OBVIOUS
  <1>4. /\ Ready(back) /\ KeepsNow(back, why) /\ IsASequence(out)
        /\ \A i \in DOMAIN out : OpensOn(back.stack, why, out[i])
    BY <1>1, <1>2, PopReady
  <1>5. FitsNow(back, why) /\ why.k \in Whys
    BY <1>1, PopBalanced
  <1>6. why.k \in Inside => back.stack # <<>>
    BY <1>4, <1>5, WhyNow DEF Ready
  <1>7. /\ back.stack # <<>> => Suits(Goal(back), Frame(back).env, why)
        /\ why.k \in ForValue => AssignableNow(back)
        /\ why.k \in OfMethod => CallsNow(back, why.mr.owner, why.mr.env)
    BY <1>4, WhySuits
  <1>8. found => OpensOn(back.stack, why, env)
    <2>1. found => 1 \in DOMAIN out
      <3>1. PICK n \in Nat : n = Len(out) /\ DOMAIN out = 1 .. n
        BY <1>4, SequenceOfElements
      <3>2. n = 0 => out = <<>>
        BY <1>4, <3>1, EmptySequence
      <3>3. found => out # <<>>
        BY <1>2, Zenon
      <3>. QED
        BY <3>1, <3>2, <3>3
    <2>. QED
      BY <1>3, <1>4, <2>1
  <1>9. found /\ why.k \in Nested => Extends(env, Frame(back).env)
    <2>1. why.k \in Nested => why.k \in Inside
      BY DEF Nested, Inside
    <2>2. back.stack # <<>> => Frame(back).env = EnvAt(back.stack, Len(back.stack))
      BY <1>4, FrameNow
    <2>. QED
      BY <1>6, <1>8, <2>1, <2>2 DEF OpensOn
  <1>10. CASE why.k = "for"
    <2>1. Returned(m) = Then(back, why)
      BY <1>1, <1>2, <1>3, <1>10 DEF Returned
    <2>. QED
      BY <1>1, <1>4, <2>1, ThenAfter
  <1>11. CASE why.k = "while"
    <2>1. \/ Returned(m) = Then(back, WhileRound(why.n + 1, why.cont))
          \/ Returned(m) = Continue(back, why.cont)
      BY <1>1, <1>2, <1>3, <1>11 DEF Returned
    <2>2. back.stack # <<>>
      BY <1>6, <1>11 DEF Inside
    <2>3. Extends(why.cont, Frame(back).env)
      BY <1>7, <1>11, <2>2 DEF Suits
    <2>. QED
      BY <1>1, <1>4, <2>1, <2>2, <2>3, RoundAfter, ContinueAfter
  <1>12. CASE why.k \in {"switch", "try"}
    <2>1. Returned(m) = Leaving(back, found, env)
      BY <1>1, <1>2, <1>3, <1>12 DEF Returned
    <2>2. back.stack # <<>> /\ why.k \in Nested
      BY <1>6, <1>12 DEF Inside, Nested
    <2>. QED
      BY <1>1, <1>4, <1>9, <2>1, <2>2, LeavingAfter
  <1>13. CASE why.k = "catch"
    <2>1. PICK x : x = Goal(back).catches[why.j].x
      OBVIOUS
    <2>2. Returned(m) = Leaving(back, found, Unbind(env, x))
      BY <1>1, <1>2, <1>3, <1>13, <2>1 DEF Returned
    <2>3. back.stack # <<>> /\ why.k \in Nested
      BY <1>6, <1>13 DEF Inside, Nested
    <2>4. x \notin DOMAIN Frame(back).env
      BY <1>7, <1>13, <2>1, <2>3 DEF Suits
    <2>5. found => Extends(Unbind(env, x), Frame(back).env)
      BY <1>9, <2>3, <2>4, UnbindExtends
    <2>. QED
      BY <1>1, <1>4, <2>2, <2>3, <2>5, LeavingAfter
  <1>14. CASE why.k = "not"
    <2>1. \E f : Returned(m) = Leaving(back, f, Frame(back).env)
      BY <1>1, <1>2, <1>3, <1>14 DEF Returned
    <2>2. back.stack # <<>>
      BY <1>6, <1>14 DEF Inside
    <2>. QED
      BY <1>1, <1>4, <2>1, <2>2, ExtendsSelf, LeavingAfter
  <1>15. CASE why.k = "scan"
    <2>1. PICK a : a = [Top(back) EXCEPT !.out = out]
      OBVIOUS
    <2>2. Returned(m) = Then(SetTop(back, a), [k |-> "rows", rows |-> why.rows])
      BY <1>1, <1>2, <1>3, <1>15, <2>1 DEF Returned
    <2>3. back.stack # <<>>
      BY <1>6, <1>15 DEF Inside
    <2>4. \A i \in DOMAIN out : Above(back.stack, out[i], Len(back.stack))
      BY <1>4, <1>15 DEF OpensOn
    <2>5. IsASequence(why.rows)
      BY <1>7, <1>15, <2>3 DEF Suits
    <2>. QED
      BY <1>1, <1>4, <2>1, <2>2, <2>3, <2>4, <2>5, RowsAfter
  <1>16. CASE why.k \in {"prelude", "guard", "fallback"}
    <2>1. CallsNow(back, why.mr.owner, why.mr.env)
      BY <1>7, <1>16 DEF OfMethod
    <2>2. \/ Returned(m) = Guard(back, why.mr, env)
          \/ Returned(m) = MethodNone(back, why.mr)
          \/ Returned(m) = MethodReturned(back, why.mr, env)
          \/ \E j : Returned(m) = Fallback(back, why.mr, why.env, j)
      BY <1>1, <1>2, <1>3, <1>16 DEF Returned
    <2>. QED
      BY <1>1, <1>4, <2>1, <2>2, GuardAfter, MethodLeftAfter, FallbackAfter
  <1>17. CASE why.k = "body"
    <2>1. CallsNow(back, why.mr.owner, why.mr.env)
      BY <1>7, <1>17 DEF OfMethod
    <2>2. Returned(m) = BodyDone(back, why, found, env)
      BY <1>1, <1>2, <1>3, <1>17 DEF Returned
    <2>. QED
      BY <1>1, <1>4, <2>1, <2>2, BodyDoneAfter
  <1>18. CASE why.k = "truth"
    <2>1. CallsNow(back, why.mr.owner, why.mr.env)
      BY <1>7, <1>18 DEF OfMethod
    <2>2. \E e, truths, j : Returned(m) = Truth(back, why.mr, e, truths, j)
      BY <1>1, <1>2, <1>3, <1>18 DEF Returned
    <2>. QED
      BY <1>1, <1>4, <2>1, <2>2, TruthAfter
  <1>19. CASE why.k \in {"infer", "called"}
    <2>1. AssignableNow(back)
      BY <1>7, <1>19 DEF ForValue
    <2>2. \/ \E v : Returned(m) = ValueReturned(back, why.vc, v)
          \/ \E x : Returned(m) = Then(back, [k |-> "once", vc |-> x])
          \/ Returned(m) = ValueNone(back, why.vc)
      BY <1>1, <1>2, <1>3, <1>19 DEF Returned
    <2>3. \A x : [k |-> "once", vc |-> x].k \in ForValue
      BY DEF ForValue
    <2>. QED
      BY <1>1, <1>4, <2>1, <2>2, <2>3, ValueReturnedAfter, ForValueAfter
  <1>. QED
    BY <1>5, <1>10, <1>11, <1>12, <1>13, <1>14, <1>15, <1>16, <1>17, <1>18, <1>19 DEF Whys

\* A break that goes on outside keeps what the activations there are for.
LEMMA BreakAfter ==
    ASSUME NEW m, Ready(m), NEW x, x.k = "throw", NEW why, OpensOn(m.stack, why, x.env),
           why.k \in {"try", "catch", "not", "scan"}
    PROVE  After(m, Then(m, x))
  <1>1. PICK s : s = m.stack
    OBVIOUS
  <1>2. Len(s) # 0 => Above(s, x.env, Len(s))
    <2>1. CASE why.k = "scan"
      BY <1>1, <2>1 DEF OpensOn
    <2>2. CASE why.k # "scan"
      <3>1. s # <<>> => Extends(x.env, EnvAt(s, Len(s)))
        BY <1>1, <2>2 DEF OpensOn, Nested
      <3>2. Len(s) # 0 => s # <<>>
        OBVIOUS
      <3>3. Busy(s)
        BY <1>1 DEF Ready
      <3>. QED
        BY <3>1, <3>2, <3>3, AboveTop
    <2>. QED
      BY <2>1, <2>2
  <1>3. \A g, env : Suits(g, env, x)
    BY DEF Suits, ForValue, OfMethod
  <1>4. KeepsNow(m, x)
    BY <1>1, <1>2, <1>3 DEF KeepsNow, Keeps
  <1>. QED
    BY <1>4, ThenAfter

LEMMA UnwoundAfter ==
    ASSUME NEW m, Ready(m), m.stack # <<>>, m.now.k = "throw", KeepsNow(m, m.now),
           Top(m).why.k \in MethodBody =>
               ~(Unwound(m).now.k = "throw" /\ Unwound(m).now.s \in {"break", "continue"})
    PROVE  After(Pop(m), Unwound(m))
  <1>1. PICK why, back, sig : why = Top(m).why /\ back = Pop(m) /\ sig = Escaping(m)
    OBVIOUS
  <1>2. /\ Ready(back) /\ KeepsNow(back, why) /\ (why.k \in {"infer", "called"} => Top(m).start = 0)
        /\ \A e : Above(m.stack, e, Len(m.stack)) => OpensOn(back.stack, why, e)
    BY <1>1, BusySteady, PopReady DEF Ready
  <1>3. FitsNow(back, why) /\ why.k \in Whys
    BY <1>1, PopBalanced DEF Ready
  <1>4. why.k \in Inside => back.stack # <<>>
    BY <1>2, <1>3, WhyNow DEF Ready
  <1>5. /\ back.stack # <<>> => Suits(Goal(back), Frame(back).env, why)
        /\ why.k \in OfMethod => CallsNow(back, why.mr.owner, why.mr.env)
    BY <1>2, WhySuits
  <1>6. sig.k = "throw"
    BY <1>1 DEF Escaping, Error
  <1>7. sig.s = "break" => sig = m.now /\ why.k \notin {"infer", "called"}
    BY <1>1, <1>2 DEF Escaping, Error
  <1>8. sig.s = "break" => OpensOn(back.stack, why, sig.env)
    <2>1. Len(m.stack) # 0
      BY FrameNow
    <2>2. m.now.s = "break" => Above(m.stack, m.now.env, Len(m.stack))
      BY <2>1 DEF KeepsNow, Keeps
    <2>. QED
      BY <1>2, <1>7, <2>2
  <1>9. CASE sig.s = "break" /\ why.k \in {"for", "while"}
    <2>1. PICK cont : cont = KeepReturn(why.cont, sig.env)
      OBVIOUS
    <2>2. Unwound(m) = Continue(back, cont)
      BY <1>1, <1>9, <2>1 DEF Unwound
    <2>3. back.stack # <<>>
      BY <1>4, <1>9 DEF Inside
    <2>4. Extends(why.cont, Frame(back).env)
      BY <1>5, <1>9, <2>3 DEF Suits
    <2>5. Extends(cont, why.cont)
      BY <2>1, ExtendsSelf, BindExtends DEF KeepReturn
    <2>6. Extends(cont, Frame(back).env)
      BY <2>4, <2>5, ExtendsOn
    <2>. QED
      BY <1>1, <1>2, <2>2, <2>3, <2>6, ContinueAfter
  <1>10. CASE sig.s = "break" /\ why.k = "switch"
    <2>1. Unwound(m) = Continue(back, sig.env)
      BY <1>1, <1>10 DEF Unwound
    <2>2. back.stack # <<>>
      BY <1>4, <1>10 DEF Inside
    <2>3. Extends(sig.env, EnvAt(back.stack, Len(back.stack)))
      BY <1>8, <1>10, <2>2 DEF OpensOn, Nested
    <2>4. Extends(sig.env, Frame(back).env)
      BY <1>2, <2>2, <2>3, FrameNow
    <2>. QED
      BY <1>1, <1>2, <2>1, <2>2, <2>4, ContinueAfter
  <1>11. CASE sig.s = "continue" /\ why.k = "for"
    <2>1. Unwound(m) = Then(back, why)
      BY <1>1, <1>11 DEF Unwound
    <2>. QED
      BY <1>1, <1>2, <2>1, ThenAfter
  <1>12. CASE sig.s = "continue" /\ why.k = "while"
    <2>1. Unwound(m) = Then(back, WhileRound(why.n + 1, why.cont))
      BY <1>1, <1>12 DEF Unwound
    <2>2. back.stack # <<>>
      BY <1>4, <1>12 DEF Inside
    <2>3. Extends(why.cont, Frame(back).env)
      BY <1>5, <1>12, <2>2 DEF Suits
    <2>. QED
      BY <1>1, <1>2, <2>1, <2>2, <2>3, RoundAfter
  <1>13. CASE \/ sig.s = "error" /\ why.k = "try"
              \/ sig.s = "error" /\ why.k = "catch" /\ why.j < Len(Goal(back).catches)
    <2>1. \E j : Unwound(m) = CatchStep(back, j)
      BY <1>1, <1>13 DEF Unwound
    <2>2. back.stack # <<>>
      BY <1>4, <1>13 DEF Inside
    <2>. QED
      BY <1>1, <1>2, <2>1, <2>2, CatchStepAfter
  <1>14. CASE /\ sig.s = "tail" /\ why.k \in {"body", "prelude", "guard", "fallback"}
              /\ why.mr.owner.k = "value"
    <2>1. PICK x : x = why.mr.owner.vc.outer
      OBVIOUS
    <2>2. PICK k : k = [back EXCEPT !.mode = x]
      OBVIOUS
    <2>3. Unwound(m) = StartCall(k, sig.f, sig.args, sig.env)
      BY <1>1, <1>14, <2>1, <2>2 DEF Unwound
    <2>4. AssignableNow(back)
      <3>1. CallsNow(back, why.mr.owner, why.mr.env)
        BY <1>5, <1>14 DEF OfMethod
      <3>. QED
        BY <1>14, <3>1 DEF CallsNow, Calls, AssignableNow
    <2>5. Same(back, k)
      BY <1>2, <2>2, ModeSame DEF Ready, Balanced
    <2>6. Ready(k) /\ AssignableNow(k) /\ k.stack = back.stack
      BY <1>2, <2>4, <2>5, SameReady
    <2>. QED
      BY <1>1, <2>3, <2>6, StartCallAfter, AfterFrom
  <1>15. CASE /\ ~(sig.s = "break" /\ why.k \in {"for", "while", "switch"})
              /\ ~(sig.s = "continue" /\ why.k \in {"for", "while"})
              /\ ~(sig.s = "error" /\ why.k = "try")
              /\ ~(sig.s = "error" /\ why.k = "catch" /\ why.j < Len(Goal(back).catches))
              /\ ~(/\ sig.s = "tail" /\ why.k \in {"body", "prelude", "guard", "fallback"}
                   /\ why.mr.owner.k = "value")
    <2>1. Unwound(m) = Then(back, sig)
      BY <1>1, <1>15 DEF Unwound
    <2>2. CASE sig.s # "break"
      BY <1>1, <1>2, <1>6, <2>1, <2>2, ThrowAfter
    <2>3. CASE sig.s = "break"
      <3>1. Unwound(m).now = sig
        BY <1>2, <2>1, ThenSame DEF Ready, Balanced
      <3>2. why.k \notin MethodBody
        BY <1>1, <1>6, <2>3, <3>1
      <3>3. why.k \in {"try", "catch", "not", "scan"}
        BY <1>3, <1>7, <1>15, <2>3, <3>2 DEF Whys, MethodBody
      <3>. QED
        BY <1>1, <1>2, <1>6, <1>8, <2>1, <2>3, <3>3, BreakAfter
    <2>. QED
      BY <2>2, <2>3
  <1>. QED
    BY <1>9, <1>10, <1>11, <1>12, <1>13, <1>14, <1>15

------------------------------------------------------------------------------
(* A variable is bound once *)

LEMMA IdleReady ==
    ASSUME NEW k, Balanced(k), k.stack = <<>>
    PROVE  Ready(k) /\ AssignableNow(k) /\ \A o, env : CallsNow(k, o, env)
  <1>1. <<>> \in Seq({}) /\ Len(<<>>) = 0
    OBVIOUS
  <1>2. Busy(<<>>)
    <2>1. IsASequence(<<>>)
      BY <1>1, AnySequence
    <2>2. 1 .. Len(<<>>) = {}
      BY <1>1
    <2>. QED
      BY <2>1, <2>2, Zenon DEF Busy
  <1>. QED
    BY <1>2 DEF Ready, AssignableNow, CallsNow

LEMMA InitFirmInv == Init => FirmInv
  <1> SUFFICES ASSUME Init
               PROVE  Firm(Begin)
    BY DEF Init, FirmInv
  <1>1. CASE program.main
    <2>1. PICK x : x = [Idle.mode EXCEPT !.strict = TRUE]
      OBVIOUS
    <2>2. PICK k : k = [Idle EXCEPT !.mode = x]
      OBVIOUS
    <2>3. Begin = Then(k, MethodCall(Last(Clauses("main")), <<>>, NoBindings, 0, [k |-> "main"]))
      BY <1>1, <2>1, <2>2 DEF Begin
    <2>4. Balanced(k) /\ k.stack = <<>>
      BY <2>2, IdleBalanced
    <2>5. After(k, Begin)
      BY <2>3, <2>4, IdleReady, MethodCallAfter
    <2>. QED
      BY <2>5 DEF After
  <1>2. CASE ~program.main
    <2>1. Begin = StartCall(Idle, program.entry[2], program.entry[3], NoBindings)
      BY <1>2 DEF Begin
    <2>2. Balanced(Idle) /\ Idle.stack = <<>>
      BY IdleBalanced DEF Idle
    <2>3. After(Idle, Begin)
      BY <2>1, <2>2, IdleReady, StartCallAfter
    <2>. QED
      BY <2>3 DEF After
  <1>. QED
    BY <1>1, <1>2

\* A step that ends no activation goes on with the frame on top, one that does
\* with the frame below.
LEMMA StaysAsBound ==
    ASSUME Balanced(machine), After(machine, machine')
    PROVE  FirmInv' /\ GoesOnAsBound
  <1>1. PICK n \in Nat : n = Len(machine.stack) /\ (n # 0 => machine.stack # <<>>)
    BY SequenceOfElements DEF Balanced, Sound
  <1>2. CASE Len(machine'.stack) = n + 1
    BY <1>1, <1>2 DEF GoesOnAsBound, After, FirmInv
  <1>3. CASE Len(machine'.stack) = n /\ n # 0
    <2>1. GoesOn(Top(machine), Top(machine'))
      BY <1>1, <1>3 DEF After
    <2>2. n - n + 1 = 1 /\ Top(machine) = machine.stack[1]
      BY <1>1, <1>3 DEF Top
    <2>3. GoesOn(machine.stack[Len(machine.stack) - Len(machine'.stack) + 1], Top(machine'))
      BY <1>1, <1>3, <2>1, <2>2
    <2>. QED
      BY <2>3 DEF GoesOnAsBound, After, FirmInv
  <1>4. CASE Len(machine'.stack) = n /\ n = 0
    BY <1>1, <1>4 DEF GoesOnAsBound, After, FirmInv
  <1>. QED
    BY <1>1, <1>2, <1>3, <1>4 DEF After

LEMMA DepartsAsBound ==
    ASSUME Balanced(machine), machine.stack # <<>>, Departs, After(Pop(machine), machine')
    PROVE  FirmInv' /\ GoesOnAsBound
  <1>1. PICK s, t : s = machine.stack /\ t = Tail(s)
    OBVIOUS
  <1>2. PICK n \in Nat \ {0} : n = Len(s) /\ IsASequence(s) /\ Len(t) = n - 1
    BY <1>1, TailStack DEF Balanced, Sound
  <1>3. Pop(machine).stack = t
    <2>1. PICK x, N, U : /\ x = Top(machine).mode /\ N = Top(machine).negated
                         /\ U = Outside(machine.trails, Len(s))
      OBVIOUS
    <2>2. PICK k : k = [machine EXCEPT !.stack = t, !.mode = x, !.negated = N, !.trails = U]
      OBVIOUS
    <2>3. Pop(machine) = k
      BY <1>1, <2>1, <2>2, Zenon DEF Pop
    <2>. QED
      BY <2>2, <2>3 DEF Balanced, IsMachine
  <1>4. CASE Len(machine'.stack) = n
    BY <1>1, <1>2, <1>4 DEF GoesOnAsBound, After, FirmInv
  <1>5. CASE Len(machine'.stack) = n - 1 /\ n # 1
    <2>1. t # <<>>
      BY <1>2, <1>5
    <2>2. GoesOn(Top(Pop(machine)), Top(machine'))
      BY <1>2, <1>3, <1>5, <2>1 DEF After
    <2>3. n - (n - 1) + 1 = 2 /\ Head(t) = s[2]
      BY <1>1, <1>2, <2>1 DEF IsASequence
    <2>4. GoesOn(machine.stack[Len(machine.stack) - Len(machine'.stack) + 1], Top(machine'))
      BY <1>1, <1>2, <1>3, <1>5, <2>2, <2>3 DEF Top
    <2>. QED
      BY <2>4 DEF GoesOnAsBound, After, FirmInv
  <1>6. CASE Len(machine'.stack) = n - 1 /\ n = 1
    BY <1>1, <1>2, <1>6 DEF GoesOnAsBound, After, FirmInv
  <1>. QED
    BY <1>1, <1>2, <1>3, <1>4, <1>5, <1>6 DEF After

\* What the innermost activation and its goal have, by what happens next.
LEMMA FirmNow ==
    ASSUME MachineInv, FirmInv, NEW k, Now(k)
    PROVE  /\ Balanced(machine) /\ machine.now.k = k /\ KeepsNow(machine, machine.now)
           /\ k # "solve" => Ready(machine)
           /\ k \in Inside => machine.stack # <<>>
           /\ k \in ForValue => WaitsNow(machine) /\ AssignableNow(machine)
           /\ k \in OfMethod => /\ OwnedNow(machine, machine.now.mr.owner)
                                /\ CallsNow(machine, machine.now.mr.owner, machine.now.mr.env)
           /\ k # "solve" /\ machine.stack # <<>> => Suits(Goal(machine), Frame(machine).env, machine.now)
  <1>1. Balanced(machine) /\ FitsNow(machine, machine.now) /\ machine.now.k = k
    BY DEF MachineInv, Good, Balanced, FitsNow, Now
  <1>2. KeepsNow(machine, machine.now) /\ (k # "solve" => Ready(machine))
    BY <1>1 DEF FirmInv, Firm, KeepsNow, Ready
  <1>3. /\ k \in Inside => machine.stack # <<>>
        /\ k \in ForValue => WaitsNow(machine)
        /\ k \in OfMethod => OwnedNow(machine, machine.now.mr.owner)
    BY <1>1, WhyNow
  <1>4. /\ k # "solve" /\ machine.stack # <<>> => Suits(Goal(machine), Frame(machine).env, machine.now)
        /\ k # "solve" /\ k \in ForValue => AssignableNow(machine)
        /\ k # "solve" /\ k \in OfMethod => CallsNow(machine, machine.now.mr.owner, machine.now.mr.env)
    BY <1>1, <1>2, WhySuits
  <1>5. "solve" \notin ForValue /\ "solve" \notin OfMethod
    BY DEF ForValue, OfMethod
  <1>. QED
    BY <1>1, <1>2, <1>3, <1>4, <1>5

\* The innermost activation has a frame to go on with.
LEMMA SolvingReady ==
    ASSUME MachineInv, FirmInv, Solving
    PROVE  Ready(machine) /\ machine.stack # <<>>
  <1>1. PICK s : s = machine.stack
    OBVIOUS
  <1>2. Now("solve") /\ Top(machine).work # <<>>
    BY DEF Solving, Finished
  <1>3. Balanced(machine) /\ s # <<>>
    BY <1>1, <1>2, FirmNow DEF Inside
  <1>4. Steady(s)
    BY <1>1 DEF FirmInv, Firm
  <1>5. PICK n \in Nat \ {0} : n = Len(s) /\ Head(s) = Activation(s, n)
    BY <1>3, <1>4, TailStack DEF Steady
  <1>6. Activation(s, n).work # <<>>
    BY <1>1, <1>2, <1>5 DEF Top
  <1>7. Busy(s)
    BY <1>4, <1>5, <1>6 DEF Steady, Busy
  <1>. QED
    BY <1>1, <1>3, <1>7 DEF Ready

\* A solution: the variables of a frame without goals.
LEMMA SolutionAfter ==
    ASSUME NEW m, Ready(m), m.stack # <<>>
    PROVE  After(m, SetTop(m, [Top(m) EXCEPT !.out = Append(@, Frame(m).env), !.work = Tail(@)]))
  <1>1. PICK s : s = m.stack
    OBVIOUS
  <1>2. PICK o, t : o = Append(Top(m).out, Frame(m).env) /\ t = Tail(Top(m).work)
    OBVIOUS
  <1>3. PICK a : a = [Top(m) EXCEPT !.out = o, !.work = t]
    OBVIOUS
  <1>4. IsActivation(Top(m))
    BY TopActivation DEF Ready
  <1>5. a = [Top(m) EXCEPT !.out = Append(@, Frame(m).env), !.work = Tail(@)]
    BY <1>2, <1>3, <1>4 DEF IsActivation
  <1>6. a.out = o /\ a.work = t /\ a.why = Top(m).why /\ a.start = Top(m).start
    BY <1>3, <1>4 DEF IsActivation
  <1>7. Busy(s) /\ s # <<>> /\ Top(m) = Head(s)
    BY <1>1 DEF Ready, Top
  <1>8. /\ IsASequence(t) /\ \A i \in DOMAIN t : Above(s, t[i].env, Len(s))
        /\ Len(t) = Len(Head(s).work) - 1 /\ Len(Head(s).work) \in Nat \ {0}
    BY <1>2, <1>7, AboveTop
  <1>9. Above(s, Frame(m).env, Len(s))
    <2>1. Extends(Frame(m).env, EnvAt(s, Len(s)))
      BY <1>1, FrameNow, ExtendsSelf
    <2>. QED
      BY <1>7, <2>1, AboveTop
  <1>10. IsASequence(o) /\ \A i \in DOMAIN o : Above(s, o[i], Len(s))
    <2>1. PICK p : p = Top(m).out /\ IsASequence(p) /\ \A i \in DOMAIN p : Above(s, p[i], Len(s))
      <3>1. IsASequence(Head(s).out) /\ \A i \in DOMAIN Head(s).out : Above(s, Head(s).out[i], Len(s))
        BY <1>7, AboveTop
      <3>. QED
        BY <1>7, <3>1
    <2>2. PICK n \in Nat : n = Len(p) /\ DOMAIN p = 1 .. n
      BY <2>1, SequenceOfElements
    <2>3. PICK e : e = Frame(m).env
      OBVIOUS
    <2>4. PICK S : S = Range(p) \cup {e}
      OBVIOUS
    <2>5. p \in Seq(S) /\ e \in S
      BY <2>1, <2>4, WiderSequence DEF IsASequence
    <2>6. o = Append(p, e)
      BY <1>2, <2>1, <2>3
    <2>7. o \in Seq(S) /\ Len(o) = n + 1 /\ o[n + 1] = e /\ \A i \in 1 .. n : o[i] = p[i]
      BY <2>2, <2>5, <2>6, AppendProperties
    <2>8. DOMAIN o = 1 .. n + 1
      BY <2>7
    <2>9. ASSUME NEW i \in 1 .. n + 1
          PROVE  Above(s, o[i], Len(s))
      <3>1. CASE i \in 1 .. n
        <4>1. Above(s, p[i], Len(s))
          BY <2>1, <2>2, <3>1
        <4>. QED
          BY <2>7, <3>1, <4>1
      <3>2. CASE i = n + 1
        BY <1>9, <2>3, <2>7, <3>2
      <3>. QED
        BY <3>1, <3>2
    <2>. QED
      BY <2>7, <2>8, <2>9, AnySequence
  <1>11. GoesOn(Top(m), a)
    <2>1. Len(a.work) # Len(Top(m).work)
      BY <1>6, <1>7, <1>8
    <2>. QED
      BY <2>1 DEF GoesOn
  <1>12. After(m, SetTop(m, a))
    BY <1>1, <1>6, <1>8, <1>10, <1>11, SetTopAfter
  <1>. QED
    BY <1>5, <1>12

LEMMA RowsSequence ==
    ASSUME NEW p
    PROVE  IsASequence(Rows(p))
  <1>1. CASE p \in DOMAIN Stored
    <2>1. Stored[p] \in Seq(Range(Stored[p])) /\ Rows(p) = Stored[p]
      BY <1>1, StoredAssumption DEF Rows
    <2>. QED
      BY <2>1, AnySequence
  <1>2. CASE p \notin DOMAIN Stored
    <2>1. <<>> \in Seq({}) /\ Rows(p) = <<>>
      BY <1>2 DEF Rows
    <2>. QED
      BY <2>1, AnySequence
  <1>. QED
    BY <1>1, <1>2

LEMMA StepFirmInv ==
    ASSUME MachineInv, FirmInv, UnificationExtends, StaysInMethod, [Next]_vars
    PROVE  FirmInv' /\ [GoesOnAsBound]_vars
<1>1. CASE UNCHANGED vars
  BY <1>1, Zenon DEF FirmInv, vars
<1>2. CASE Balanced(machine) /\ After(machine, machine')
  BY <1>2, StaysAsBound
<1>3. Solving => Balanced(machine) /\ Ready(machine) /\ machine.stack # <<>>
  BY SolvingReady DEF Ready
\* An expression of the goal on top.
<1>4. ASSUME Solving, Goal(machine).k = "assign" => Goal(machine).x \notin DOMAIN Frame(machine).env,
             NEW e
      PROVE  After(machine, Evaluate(machine, e))
  <2>1. AssignableNow(machine)
    BY <1>4 DEF AssignableNow, Assignable
  <2>. QED
    BY <1>3, <1>4, <2>1, EvaluateAfter
<1>5. CASE DepthExceeded
  BY <1>2, <1>3, <1>5, ErrorAfter DEF DepthExceeded, Become
<1>6. CASE Solution
  <2>1. PICK a : a = [Top(machine) EXCEPT !.out = Append(@, Frame(machine).env), !.work = Tail(@)]
    OBVIOUS
  <2>2. Solving /\ machine' = SetTop(machine, a)
    BY <1>6, <2>1, Zenon DEF Solution, Become
  <2>3. After(machine, SetTop(machine, a))
    BY <1>3, <2>1, <2>2, SolutionAfter
  <2>. QED
    BY <1>2, <1>3, <2>2, <2>3
<1>7. CASE ScanFacts
  <2>1. PICK x : x = [k |-> "rows", rows |-> Rows(Goal(machine).p)]
    OBVIOUS
  <2>2. Solving /\ machine' = Then(machine, x)
    BY <1>7, <2>1 DEF ScanFacts, Become
  <2>3. Suits(Goal(machine), Frame(machine).env, x) /\ x.k # "throw"
    BY <2>1, RowsSequence DEF Suits, ForValue, OfMethod
  <2>. QED
    BY <1>2, <1>3, <2>2, <2>3, SuitedAfter
<1>8. CASE SolveAssign
  <2>1. Solving
    BY <1>8 DEF SolveAssign, At
  <2>2. \/ machine' = Then(machine, Error)
        \/ /\ Goal(machine).x \notin DOMAIN Frame(machine).env
           /\ machine' = Evaluate(machine, Goal(machine).e)
    BY <1>8, Zenon DEF SolveAssign, Become
  <2>. QED
    BY <1>2, <1>3, <1>4, <2>1, <2>2, ErrorAfter
<1>9. CASE SolveTyped \/ SolveFor \/ SolveSwitch
  <2>1. Solving /\ Goal(machine).k # "assign"
    BY <1>9 DEF SolveTyped, SolveFor, SolveSwitch, At
  <2>2. machine' = Evaluate(machine, Goal(machine).e)
    BY <1>9 DEF SolveTyped, SolveFor, SolveSwitch, Become
  <2>. QED
    BY <1>2, <1>3, <1>4, <2>1, <2>2
<1>10. CASE SolveExpression
  <2>1. Solving /\ Goal(machine).k # "assign"
    BY <1>10 DEF SolveExpression, At
  <2>2. PICK x : x = [k |-> "throw", s |-> "tail", env |-> Frame(machine).env,
                      f |-> Goal(machine).e[2], args |-> Goal(machine).e[3]]
    OBVIOUS
  <2>3. x.k = "throw" /\ x.s # "break"
    BY <2>2
  <2>4. machine' = Then(machine, x) \/ machine' = Evaluate(machine, Goal(machine).e)
    BY <1>10, <2>2, Zenon DEF SolveExpression, Become
  <2>. QED
    BY <1>2, <1>3, <1>4, <2>1, <2>3, <2>4, ThrowAfter
<1>11. CASE SolveWhere
  <2>1. Solving /\ Goal(machine).k = "where"
    BY <1>11 DEF SolveWhere, At
  <2>2. CASE Goal(machine).op = "ne"
    <3>1. PICK k : k = [machine EXCEPT !.trails = <<[at |-> Len(machine.stack), envs |-> {}]>>
                                                     \o machine.trails]
      OBVIOUS
    <3>2. machine' = Evaluate(k, Goal(machine).l)
      BY <1>11, <2>2, <3>1 DEF SolveWhere, Become
    <3>3. Balanced(k) /\ k.stack = machine.stack
      BY <1>3, <2>1, <3>1, ComparisonBegins
    <3>4. Ready(k) /\ AssignableNow(k)
      BY <1>3, <2>1, <3>3 DEF Ready, AssignableNow, Assignable, Goal, Frame, Top
    <3>5. After(machine, Evaluate(k, Goal(machine).l))
      BY <3>3, <3>4, EvaluateAfter, AfterFrom
    <3>. QED
      BY <1>2, <1>3, <2>1, <3>2, <3>5
  <2>3. CASE Goal(machine).op = "less"
    <3>1. machine' = Compared(machine, Undefined)
      BY <1>11, <2>3 DEF SolveWhere, Become
    <3>2. Compares(machine, Undefined)
      BY <2>3 DEF Compares
    <3>. QED
      BY <1>2, <1>3, <2>1, <2>3, <3>1, <3>2, ComparedAfter
  <2>4. CASE Goal(machine).op \notin {"ne", "less"}
    <3>1. machine' = Evaluate(machine, Goal(machine).l)
      BY <1>11, <2>4 DEF SolveWhere, Become
    <3>. QED
      BY <1>2, <1>3, <1>4, <2>1, <3>1
  <2>. QED
    BY <2>2, <2>3, <2>4
<1>12. CASE SolveNot
  <2>1. Solving
    BY <1>12 DEF SolveNot, At
  <2>2. PICK why : why = [k |-> "not"]
    OBVIOUS
  <2>3. PICK p : p = Push(machine, <<CallGoal(Goal(machine).p, Goal(machine).args)>>,
                          Frame(machine).env, Frame(machine).depth + 2, why)
    OBVIOUS
  <2>4. why.k \in Inside /\ why.k # "scan" /\ Suits(Goal(machine), Frame(machine).env, why)
    BY <2>2 DEF Inside, Suits, ForValue, OfMethod
  <2>5. After(machine, p)
    BY <1>3, <2>1, <2>3, <2>4, ExtendsSelf, PushNestedAfter
  <2>6. \A N : After(machine, [p EXCEPT !.negated = N])
    BY <2>5, ModeAfter
  <2>7. machine' = Then(machine, Error) \/ \E N : machine' = [p EXCEPT !.negated = N]
    BY <1>12, <2>2, <2>3, Zenon DEF SolveNot, Become
  <2>. QED
    BY <1>2, <1>3, <2>1, <2>6, <2>7, ErrorAfter
<1>13. CASE SolveWhile
  <2>1. Solving /\ machine' = Then(machine, WhileRound(0, Frame(machine).env))
    BY <1>13 DEF SolveWhile, At, Become
  <2>. QED
    BY <1>2, <1>3, <2>1, ExtendsSelf, RoundAfter
<1>14. CASE SolveTry
  <2>1. PICK why : why = [k |-> "try"]
    OBVIOUS
  <2>2. why.k \in Inside /\ why.k # "scan" /\ Suits(Goal(machine), Frame(machine).env, why)
    BY <2>1 DEF Inside, Suits, ForValue, OfMethod
  <2>3. /\ Solving
        /\ machine' = Push(machine, Goal(machine).body, Frame(machine).env,
                           Frame(machine).depth + 1, why)
    BY <1>14, <2>1 DEF SolveTry, At, Become
  <2>. QED
    BY <1>2, <1>3, <2>2, <2>3, ExtendsSelf, PushNestedAfter
<1>15. CASE SolveBreak
  <2>1. PICK x : x = [k |-> "throw", s |-> Goal(machine).k, env |-> Frame(machine).env]
    OBVIOUS
  <2>2. Solving /\ machine' = Then(machine, x) /\ x.k = "throw" /\ x.env = Frame(machine).env
    BY <1>15, <2>1 DEF SolveBreak, At, Become
  <2>3. KeepsNow(machine, x)
    <3>1. PICK s : s = machine.stack
      OBVIOUS
    <3>2. Extends(x.env, EnvAt(s, Len(s)))
      BY <1>3, <2>2, <3>1, FrameNow, ExtendsSelf
    <3>3. Above(s, x.env, Len(s))
      BY <1>3, <2>2, <3>1, <3>2, AboveTop DEF Ready
    <3>4. \A g, env : Suits(g, env, x)
      BY <2>2 DEF Suits, ForValue, OfMethod
    <3>. QED
      BY <3>1, <3>3, <3>4 DEF KeepsNow, Keeps
  <2>. QED
    BY <1>2, <1>3, <2>2, <2>3, ThenAfter
<1>16. CASE SolveCall
  <2>1. PICK x : x = [k |-> "clauses", i |-> 1, conts |-> <<>>]
    OBVIOUS
  <2>2. Solving /\ machine' = Then(machine, x)
    BY <1>16, <2>1 DEF SolveCall, At, Become
  <2>3. \A env : AllExtend(<<>>, env)
    <3>1. <<>> \in Seq({})
      OBVIOUS
    <3>2. IsASequence(<<>>)
      BY <3>1, AnySequence
    <3>. QED
      BY <3>2 DEF AllExtend
  <2>4. Suits(Goal(machine), Frame(machine).env, x) /\ x.k # "throw"
    BY <2>1, <2>3 DEF Suits, ForValue, OfMethod
  <2>. QED
    BY <1>2, <1>3, <2>2, <2>4, SuitedAfter
<1>17. CASE TryClause
  <2>1. Now("clauses") /\ machine' = CallStep(machine, machine.now.i, machine.now.conts)
    BY <1>17 DEF TryClause, Become
  <2>2. /\ Balanced(machine) /\ Ready(machine) /\ machine.stack # <<>> /\ machine.now.k = "clauses"
        /\ Suits(Goal(machine), Frame(machine).env, machine.now)
    BY <2>1, FirmNow DEF Inside
  <2>3. AllExtend(machine.now.conts, Frame(machine).env)
    BY <2>2 DEF Suits
  <2>4. ~(machine.now.i > Len(Clauses(Goal(machine).p)))
           => Matches(machine, Renamed(machine, machine.now.i).head)
    BY <2>2 DEF UnificationExtends, Unifying
  <2>5. After(machine, CallStep(machine, machine.now.i, machine.now.conts))
    BY <2>2, <2>3, <2>4, CallStepAfter
  <2>. QED
    BY <1>2, <2>1, <2>2, <2>5
<1>18. CASE TryRow
  <2>1. Now("rows") /\ machine' = ScanStep(machine, machine.now.rows)
    BY <1>18 DEF TryRow, Become
  <2>2. /\ Balanced(machine) /\ Ready(machine) /\ machine.stack # <<>> /\ machine.now.k = "rows"
        /\ Suits(Goal(machine), Frame(machine).env, machine.now)
    BY <2>1, FirmNow DEF Inside
  <2>3. IsASequence(machine.now.rows)
    BY <2>2 DEF Suits
  <2>4. \A i \in DOMAIN machine.now.rows : Matches(machine, machine.now.rows[i])
    BY <2>2 DEF UnificationExtends, Unifying
  <2>5. After(machine, ScanStep(machine, machine.now.rows))
    BY <2>2, <2>3, <2>4, ScanStepAfter
  <2>. QED
    BY <1>2, <2>1, <2>2, <2>5
<1>19. CASE NextItem
  <2>1. /\ Now("for")
        /\ machine' = ForStep(machine, machine.now.items, machine.now.n, machine.now.cont)
    BY <1>19 DEF NextItem, Become
  <2>2. /\ Balanced(machine) /\ Ready(machine) /\ machine.stack # <<>>
        /\ Extends(machine.now.cont, Frame(machine).env)
    BY <2>1, FirmNow DEF Inside, Suits
  <2>. QED
    BY <1>2, <2>1, <2>2, ForStepAfter
<1>20. CASE TestCondition
  <2>1. Now("while") /\ machine' = WhileStep(machine, machine.now.n, machine.now.cont)
    BY <1>20 DEF TestCondition, Become
  <2>2. /\ Balanced(machine) /\ Ready(machine) /\ machine.stack # <<>>
        /\ Extends(machine.now.cont, Frame(machine).env)
    BY <2>1, FirmNow DEF Inside, Suits
  <2>. QED
    BY <1>2, <2>1, <2>2, WhileStepAfter
<1>21. CASE CallForValue
  <2>1. Now("once") /\ machine' = Once(machine, machine.now.vc)
    BY <1>21 DEF CallForValue, Become
  <2>2. Balanced(machine) /\ Ready(machine) /\ AssignableNow(machine)
    BY <2>1, FirmNow DEF ForValue
  <2>. QED
    BY <1>2, <2>1, <2>2, OnceAfter
<1>22. CASE EnterMethod
  <2>1. Now("method") /\ machine' = StartMethod(machine, machine.now)
    BY <1>22 DEF EnterMethod, Become
  <2>2. /\ Balanced(machine) /\ Ready(machine) /\ machine.now.k = "method"
        /\ machine.stack # <<>> => Suits(Goal(machine), Frame(machine).env, machine.now)
    BY <2>1, FirmNow
  <2>3. CallsNow(machine, machine.now.owner, machine.now.env)
    BY <2>2 DEF Suits, CallsNow
  <2>. QED
    BY <1>2, <2>1, <2>2, <2>3, StartMethodAfter
<1>23. CASE MethodAnswers
  <2>1. PICK mr, env, found : /\ mr = machine.now.mr /\ env = machine.now.env
                              /\ found = AppendReturned(mr, env)
    OBVIOUS
  <2>2. Now("returned") /\ machine' = LeaveMethod(machine, mr, found)
    BY <1>23, <2>1 DEF MethodAnswers, Become
  <2>3. /\ Balanced(machine) /\ Ready(machine) /\ KeepsNow(machine, machine.now)
        /\ machine.now.k = "returned" /\ OwnedNow(machine, mr.owner)
        /\ CallsNow(machine, mr.owner, mr.env)
    BY <2>1, <2>2, FirmNow DEF OfMethod
  <2>4. Answered(mr, env)
    BY <2>1, <2>3 DEF UnificationExtends, Unifying
  <2>5. found # <<>> => Extends(found[1], mr.env)
    BY <2>1, <2>4, AnswerExtends
  <2>. QED
    BY <1>2, <2>2, <2>3, <2>5, LeaveMethodAfter
<1>24. CASE MethodFails
  <2>1. PICK mr : mr = machine.now.mr
    OBVIOUS
  <2>2. Now("failed") /\ machine' = LeaveMethod(machine, mr, <<>>)
    BY <1>24, <2>1 DEF MethodFails, Become
  <2>3. /\ Balanced(machine) /\ Ready(machine) /\ KeepsNow(machine, machine.now)
        /\ OwnedNow(machine, mr.owner) /\ CallsNow(machine, mr.owner, mr.env)
    BY <2>1, <2>2, FirmNow DEF OfMethod
  <2>. QED
    BY <1>2, <2>2, <2>3, LeaveMethodAfter
<1>25. CASE ValueArrives
  <2>1. Now("value") /\ machine' = Deliver(machine, machine.now.v)
    BY <1>25 DEF ValueArrives, Become
  <2>2. /\ Balanced(machine) /\ Ready(machine) /\ KeepsNow(machine, machine.now)
        /\ WaitsNow(machine) /\ AssignableNow(machine) /\ machine.now.k = "value"
    BY <2>1, FirmNow DEF ForValue
  <2>3. machine.stack # <<>> /\ Goal(machine).k = "where" => Compares(machine, machine.now.v)
    BY <2>2 DEF UnificationExtends, Unifying
  <2>. QED
    BY <1>2, <2>1, <2>2, <2>3, DeliverAfter
<1>26. CASE NoValueArrives
  <2>1. Now("novalue") /\ machine' = DeliverNone(machine)
    BY <1>26 DEF NoValueArrives, Become
  <2>2. /\ Balanced(machine) /\ Ready(machine) /\ KeepsNow(machine, machine.now)
        /\ WaitsNow(machine) /\ machine.now.k = "novalue"
    BY <2>1, FirmNow DEF ForValue
  <2>3. machine.stack # <<>> /\ Goal(machine).k = "where" => Compares(machine, Undefined)
    BY <2>2 DEF UnificationExtends, Unifying
  <2>. QED
    BY <1>2, <2>1, <2>2, <2>3, DeliverNoneAfter
<1>27. CASE Return
  <2>1. Now("solve") /\ Finished(machine) /\ machine' = Returned(machine)
    BY <1>27 DEF Return, Become
  <2>2. Balanced(machine) /\ machine.stack # <<>>
    BY <2>1, FirmNow DEF Inside
  <2>3. Steady(machine.stack) /\ Departs
    BY <2>1 DEF FirmInv, Firm, Departs
  <2>. QED
    BY <2>1, <2>2, <2>3, ReturnedAfter, DepartsAsBound
<1>28. CASE Unwind
  <2>1. /\ Now("throw") /\ Balanced(machine) /\ Ready(machine) /\ machine.now.k = "throw"
        /\ KeepsNow(machine, machine.now)
    BY <1>28, FirmNow DEF Unwind
  <2>2. CASE machine.stack = <<>>
    <3>1. PICK k : k = [machine EXCEPT !.result = Stopped]
      OBVIOUS
    <3>2. machine' = k
      BY <1>28, <2>2, <3>1, Zenon DEF Unwind, Become
    <3>3. IsMachine(k) /\ k.stack = machine.stack /\ k.now = machine.now
      BY <2>1, <3>1 DEF Balanced, IsMachine
    <3>4. After(machine, k)
      BY <2>1, <3>3, SameAfter DEF Ready
    <3>. QED
      BY <1>2, <2>1, <3>2, <3>4
  <2>3. CASE machine.stack # <<>>
    <3>1. machine' = Unwound(machine)
      BY <1>28, <2>3, Zenon DEF Unwind, Become
    <3>2. Top(machine).why.k \in MethodBody =>
             ~(Unwound(machine).now.k = "throw" /\ Unwound(machine).now.s \in {"break", "continue"})
      BY <2>1, <2>3, <3>1 DEF StaysInMethod
    <3>3. After(Pop(machine), machine')
      BY <2>1, <2>3, <3>1, <3>2, UnwoundAfter
    <3>. QED
      BY <2>1, <2>3, <3>3, DepartsAsBound DEF Departs
  <2>. QED
    BY <2>2, <2>3
<1>29. CASE Ended
  BY <1>1, <1>29 DEF Ended
<1> QED
  BY <1>1, <1>5, <1>6, <1>7, <1>8, <1>9, <1>10, <1>11, <1>12, <1>13, <1>14, <1>15, <1>16,
     <1>17, <1>18, <1>19, <1>20, <1>21, <1>22, <1>23, <1>24, <1>25, <1>26, <1>27, <1>28, <1>29
  DEF Next

\* A variable is bound once, by the loops, handlers, negations and methods of
\* solveIterative as long as unification binds only what is unbound: what a goal
\* has left is an extension of the variables it was solved with.  A break that
\* leaves its method is excepted: the switch it ends goes on with the variables of
\* that method.
THEOREM SingleAssignmentHolds ==
    Spec /\ []UnificationExtends /\ BreakStaysInMethod => SingleAssignment
<1>1. MachineInv /\ FirmInv /\ UnificationExtends /\ [StaysInMethod]_vars /\ [Next]_vars
      => FirmInv' /\ [GoesOnAsBound]_vars
  <2> SUFFICES ASSUME MachineInv, FirmInv, UnificationExtends, [StaysInMethod]_vars, [Next]_vars
               PROVE  FirmInv' /\ [GoesOnAsBound]_vars
    OBVIOUS
  <2>1. CASE UNCHANGED vars
    BY <2>1, Zenon DEF FirmInv, vars
  <2>2. CASE StaysInMethod
    BY <2>2, StepFirmInv
  <2>. QED
    BY <2>1, <2>2
<1>. QED
  BY MachineInvariance, InitFirmInv, <1>1, PTL DEF Spec, SingleAssignment, BreakStaysInMethod

==============================================================================
