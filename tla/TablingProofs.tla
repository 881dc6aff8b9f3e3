--------------------------- MODULE TablingProofs ---------------------------
(***************************************************************************)
(* What Tabling promises of the strata, the rounds and the tables, for     *)
(* every set of clauses, facts, pairs and queries.                         *)
(*                                                                         *)
(* In a program that validateNegationStratification admits, how many       *)
(* predicates each one reaches solves what the goals require of strata, so *)
(* there is a least solution.  The strata never exceed it, and a pass that *)
(* changes any brings one more predicate to its level there; so the passes *)
(* suffice.                                                                *)
(*                                                                         *)
(* A round that does not end its stratum has an answer that the tables     *)
(* lacked, and a rule is its first proof for good.                         *)
(*                                                                         *)
(* The tables are the well-founded model: what a round proves is what its  *)
(* rules yield with a new answer among the goals, and what they yield      *)
(* without one they have yielded before; so a round that proves nothing    *)
(* new ends a stratum that is complete, and negation looks at complete     *)
(* strata only, below which nothing is undecided.                          *)
(*                                                                         *)
(* A kept table that counts as valid is exact, since whatever changes what *)
(* it depends on clears it or advances a generation it is compared with.   *)
(*                                                                         *)
(* Every proof follows from proofs with lower numbers, so by going through *)
(* them in order, each explains its answer from the facts under it.        *)
(***************************************************************************)
EXTENDS Tabling, FiniteSetTheorems, SequenceTheorems, TLAPS

------------------------------------------------------------------------------
(* Finite sets *)

\* The sets of subsets of S, except the empty one.
Families(S) == (SUBSET SUBSET S) \ {{}}

\* Of finitely many elements: among some of their sets there is one that
\* has none of the others inside.
LEMMA SmallestSet ==
    ASSUME NEW S, IsFiniteSet(S), NEW F \in Families(S)
    PROVE  \E A \in F : \A B \in F : B \subseteq A => B = A
  <1>1. F \subseteq FiniteSubsetsOf(S) /\ F # {}
    BY FS_FiniteSubsetsOfFinite DEF Families
  <1>2. PICK A \in F : \A B \in F : ~(<<B, A>> \in StrictSubsetOrdering(S))
    BY <1>1, FS_StrictSubsetOrderingWellFounded, WFMin
  <1>. QED
    BY <1>2 DEF StrictSubsetOrdering, Families

\* Max is the largest of finitely many numbers.
LEMMA MaxNat ==
    ASSUME NEW S \in SUBSET Nat, IsFiniteSet(S), S # {}
    PROVE  Max(S) \in S /\ \A n \in S : n <= Max(S)
  <1>1. PICK G : G = {{k \in S : n <= k} : n \in S}
    OBVIOUS
  <1>2. G \in Families(S)
    <2>1. PICK n \in S : TRUE
      OBVIOUS
    <2>2. {k \in S : n <= k} \in G
      BY <1>1, <2>1
    <2>3. \A C \in G : C \subseteq S
      BY <1>1
    <2>. QED
      BY <2>2, <2>3, Zenon DEF Families
  <1>3. PICK A \in G : \A B \in G : B \subseteq A => B = A
    BY <1>2, SmallestSet
  <1>4. PICK m \in S : A = {k \in S : m <= k}
    BY <1>1
  <1>5. ASSUME NEW n \in S, ~(n <= m)
        PROVE  FALSE
    <2>0. PICK B : B = {k \in S : n <= k}
      OBVIOUS
    <2>1. B \in G
      BY <1>1, <2>0
    <2>4. B \subseteq A
      <3>1. m \in Nat /\ n \in Nat /\ S \subseteq Nat
        OBVIOUS
      <3>2. \A k \in S : n <= k => m <= k
        BY <3>1, <1>5
      <3>. QED
        BY <2>0, <1>4, <3>2
    <2>2. B = A
      BY <1>3, <2>4, <2>1
    <2>3. m \in B
      BY <2>2, <1>4
    <2>. QED
      BY <1>5, <2>3, <2>0
  <1>6. \E x \in S : \A y \in S : x >= y
    BY <1>5
  <1>. QED
    BY <1>6 DEF Max

\* Finitely many numbers have a smallest one.
LEMMA MinNat ==
    ASSUME NEW S \in SUBSET Nat, IsFiniteSet(S), S # {}
    PROVE  \E m \in S : \A n \in S : m <= n
  <1>1. PICK G : G = {{k \in S : k <= n} : n \in S}
    OBVIOUS
  <1>2. G \in Families(S)
    <2>1. PICK n \in S : TRUE
      OBVIOUS
    <2>2. {k \in S : k <= n} \in G
      BY <1>1, <2>1
    <2>3. \A C \in G : C \subseteq S
      BY <1>1
    <2>. QED
      BY <2>2, <2>3, Zenon DEF Families
  <1>3. PICK A \in G : \A B \in G : B \subseteq A => B = A
    BY <1>2, SmallestSet
  <1>4. PICK m \in S : A = {k \in S : k <= m}
    BY <1>1
  <1>5. ASSUME NEW n \in S, ~(m <= n)
        PROVE  FALSE
    <2>0. PICK B : B = {k \in S : k <= n}
      OBVIOUS
    <2>1. B \in G
      BY <1>1, <2>0
    <2>4. B \subseteq A
      <3>1. m \in Nat /\ n \in Nat /\ S \subseteq Nat
        OBVIOUS
      <3>2. \A k \in S : k <= n => k <= m
        BY <3>1, <1>5
      <3>. QED
        BY <2>0, <1>4, <3>2
    <2>2. B = A
      BY <1>3, <2>4, <2>1
    <2>3. m \in B
      BY <2>2, <1>4
    <2>. QED
      BY <1>5, <2>3, <2>0
  <1>. QED
    BY <1>5

\* A function takes finitely many values on a finite set.
LEMMA ImageFinite ==
    ASSUME NEW S, IsFiniteSet(S), NEW f
    PROVE  IsFiniteSet({f[x] : x \in S})
  <1>1. PICK T : T = {f[x] : x \in S}
    OBVIOUS
  <1>2. PICK g : g = [x \in S |-> f[x]]
    OBVIOUS
  <1>3. g \in Surjection(S, T)
    <2>1. g \in [S -> T]
      BY <1>1, <1>2
    <2>2. \A y \in T : \E x \in S : g[x] = y
      BY <1>1, <1>2
    <2>. QED
      BY <2>1, <2>2 DEF Surjection
  <1>. QED
    BY <1>1, <1>3, FS_Surjection

\* What holds of 0 and, with each number below n, of the next, holds up to n.
LEMMA Counting ==
    ASSUME NEW n \in Nat, NEW S, 0 \in S, \A k \in 0 .. n - 1 : k \in S => k + 1 \in S
    PROVE  n \in S
  <1> SUFFICES ASSUME n \notin S
               PROVE  FALSE
    OBVIOUS
  <1>1. PICK T : T = {k \in 0 .. n : k \notin S}
    OBVIOUS
  <1>2. T \in SUBSET Nat /\ T # {} /\ T \subseteq 0 .. n
    BY <1>1
  <1>3. IsFiniteSet(T)
    <2>1. IsFiniteSet(0 .. n)
      BY FS_Interval
    <2>. QED
      BY <1>2, <2>1, FS_Subset
  <1>4. PICK m \in T : \A k \in T : m <= k
    BY <1>2, <1>3, MinNat
  <1>5. m \in 0 .. n /\ m \notin S /\ m # 0
    BY <1>1
  <1>6. m - 1 \in 0 .. n - 1 /\ ~(m <= m - 1) /\ (m - 1) + 1 = m
    BY <1>5
  <1>7. m - 1 \in S
    BY <1>1, <1>4, <1>6
  <1>. QED
    BY <1>5, <1>6, <1>7

------------------------------------------------------------------------------
(* Sequences defined by recursion on positions *)

\* Recursion on positions: a step that stays within V has its sequence of
\* values.
Runs(f, n, V, a, H) ==
    /\ f \in [0 .. n -> V]
    /\ f[0] = a
    /\ \A k \in 1 .. n : f[k] = H[k][f[k - 1]]

\* Such a sequence exists.
LEMMA Recursion ==
    ASSUME NEW n \in Nat, NEW V, NEW a \in V, NEW H \in [1 .. n -> [V -> V]]
    PROVE  \E f : Runs(f, n, V, a, H)
  <1> USE DEF Runs
  <1> DEFINE G == {m \in 0 .. n : \E f : Runs(f, m, V, a, H)}
  <1>1. 0 \in G
    <2>1. PICK f : f = [k \in 0 .. 0 |-> a]
      OBVIOUS
    <2>2. Runs(f, 0, V, a, H)
      BY <2>1
    <2>. QED
      BY <2>2
  <1>2. ASSUME NEW m \in 0 .. n - 1, m \in G
        PROVE  m + 1 \in G
    <2>1. PICK f : Runs(f, m, V, a, H)
      BY <1>2
    <2>2. PICK v : v = H[m + 1][f[m]]
      OBVIOUS
    <2>3. v \in V
      <3>1. m + 1 \in 1 .. n /\ f[m] \in V
        BY <2>1
      <3>. QED
        BY <2>2, <3>1
    <2>4. PICK g : g = [k \in 0 .. m + 1 |-> IF k = m + 1 THEN v ELSE f[k]]
      OBVIOUS
    <2>5. g \in [0 .. m + 1 -> V]
      BY <2>1, <2>3, <2>4
    <2>6. \A k \in 0 .. m : g[k] = f[k]
      BY <2>4
    <2>7. g[m + 1] = v
      BY <2>4
    <2>8. ASSUME NEW k \in 1 .. m + 1
          PROVE  g[k] = H[k][g[k - 1]]
      <3>1. CASE k = m + 1
        BY <2>2, <2>6, <2>7, <3>1
      <3>2. CASE k # m + 1
        <4>1. k \in 1 .. m /\ k - 1 \in 0 .. m /\ k \in 0 .. m
          BY <3>2
        <4>. QED
          BY <2>1, <2>6, <4>1
      <3>. QED
        BY <3>1, <3>2
    <2>9. Runs(g, m + 1, V, a, H)
      BY <2>1, <2>5, <2>6, <2>8
    <2>. QED
      BY <2>9
  <1>3. n \in G
    BY <1>1, <1>2, Counting
  <1>4. PICK f : Runs(f, n, V, a, H)
    BY <1>3
  <1>. QED
    BY <1>4

\* Ascending lists the elements of a set of positions.
LEMMA AscendingLists ==
    ASSUME NEW n \in Nat, NEW K \in SUBSET (1 .. n)
    PROVE  /\ Ascending(K, n) \in Seq(K)
           /\ \A k \in K : \E i \in DOMAIN Ascending(K, n) : Ascending(K, n)[i] = k
  <1> DEFINE More(k, s) == IF k \in K THEN Append(s, k) ELSE s
             Lists(k, s) == \A j \in K : j <= k => \E i \in DOMAIN s : s[i] = j
  <1>0. PICK V : V = Seq(K)
    OBVIOUS
  <1>1. PICK H : H = [k \in 1 .. n |-> [s \in V |-> More(k, s)]]
    OBVIOUS
  <1>2. H \in [1 .. n -> [V -> V]]
    <2>1. \A k \in 1 .. n : \A s \in V : More(k, s) \in V
      BY <1>0
    <2>2. \A k \in 1 .. n : [s \in V |-> More(k, s)] \in [V -> V]
      BY <2>1
    <2>. QED
      BY <1>1, <2>2
  <1>3. <<>> \in V
    BY <1>0, EmptySeq
  <1>4. PICK f \in [0 .. n -> V] : f[0] = <<>> /\ \A k \in 1 .. n : f[k] = H[k][f[k - 1]]
    <2>1. PICK e \in V : e = <<>>
      BY <1>3
    <2> HIDE DEF More
    <2>2. \E f : Runs(f, n, V, e, H)
      BY <1>2, Recursion
    <2>. QED
      BY <2>1, <2>2, Zenon DEF Runs
  <1>5. ASSUME NEW k \in 1 .. n
        PROVE  H[k][f[k - 1]] = More(k, f[k - 1])
    <2>1. k - 1 \in 0 .. n
      OBVIOUS
    <2>2. f[k - 1] \in V
      BY <2>1
    <2>. QED
      BY <1>1, <2>2
  <1>6. f = [k \in 0 .. n |-> IF k = 0 THEN <<>> ELSE More(k, f[k - 1])]
    <2> HIDE DEF More
    <2>1. f = [k \in 0 .. n |-> f[k]]
      OBVIOUS
    <2>. QED
      BY <1>4, <1>5, <2>1
  <1>7. PICK u : /\ u = [k \in 0 .. n |-> IF k = 0 THEN <<>> ELSE More(k, u[k - 1])]
                 /\ Ascending(K, n) = u[n]
    BY <1>6, Zenon DEF Ascending
  <1>a. u[0] = <<>> /\ \A k \in 1 .. n : u[k] = More(k, u[k - 1])
    <2> HIDE DEF More
    <2>. QED
      BY <1>7
  <1> DEFINE G == {k \in 0 .. n : u[k] \in V /\ Lists(k, u[k])}
  <1>8. 0 \in G
    <2>1. u[0] = <<>>
      BY <1>a
    <2>2. \A j \in K : ~(j <= 0)
      OBVIOUS
    <2>. QED
      BY <1>3, <2>1, <2>2
  <1>9. ASSUME NEW k \in 0 .. n - 1, k \in G
        PROVE  k + 1 \in G
    <2>1. k + 1 \in 0 .. n /\ k + 1 \in 1 .. n /\ (k + 1) - 1 = k
      OBVIOUS
    <2>2. PICK s \in Seq(K) : s = u[k] /\ Lists(k, s)
      BY <1>0, <1>9
    <2>3. u[k + 1] = More(k + 1, s)
      BY <1>a, <2>1, <2>2
    <2>4. CASE k + 1 \notin K
      <3>1. \A j \in K : j <= k + 1 => j <= k
        BY <2>4
      <3>. QED
        BY <1>0, <2>1, <2>2, <2>3, <2>4, <3>1
    <2>5. CASE k + 1 \in K
      <3>0. Append(s, k + 1) \in Seq(K)
        BY <2>5, AppendProperties
      <3>1. PICK t \in Seq(K) : t = Append(s, k + 1)
        BY <3>0
      <3>2. /\ DOMAIN t = 1 .. Len(s) + 1 /\ Len(s) \in Nat
            /\ DOMAIN s = 1 .. Len(s)
            /\ t[Len(s) + 1] = k + 1
            /\ \A i \in DOMAIN s : t[i] = s[i]
        BY <2>5, <3>1
      <3>3. DOMAIN s \subseteq DOMAIN t /\ Len(s) + 1 \in DOMAIN t
        BY <3>2
      <3>4. \A j \in K : j <= k + 1 => j <= k \/ j = k + 1
        OBVIOUS
      <3>5. Lists(k + 1, t)
        BY <2>2, <3>2, <3>3, <3>4
      <3>. QED
        BY <1>0, <2>1, <2>3, <2>5, <3>1, <3>5
    <2>. QED
      BY <2>4, <2>5
  <1>10. n \in G
    <2> HIDE DEF G
    <2>. QED
      BY <1>8, <1>9, Counting
  <1>11. \A k \in K : k <= n
    OBVIOUS
  <1>. QED
    BY <1>0, <1>7, <1>10, <1>11

\* Two sequences one after the other have the elements of both.
LEMMA RangeConcat ==
    ASSUME NEW S, NEW s \in Seq(S), NEW t \in Seq(S)
    PROVE  s \o t \in Seq(S) /\ Range(s) \subseteq Range(s \o t) /\ Range(t) \subseteq Range(s \o t)
  <1>1. PICK r \in Seq(S) : r = s \o t
    BY ConcatProperties
  <1>2. PICK m \in Nat, n \in Nat : /\ m = Len(s) /\ DOMAIN s = 1 .. m
                                    /\ n = Len(t) /\ DOMAIN t = 1 .. n
    OBVIOUS
  <1>3. /\ DOMAIN r = 1 .. m + n
        /\ \A i \in 1 .. m : r[i] = s[i]
        /\ \A i \in 1 .. n : r[m + i] = t[i] /\ m + i \in 1 .. m + n
    BY <1>1, <1>2
  <1>4. \A i \in 1 .. m : i \in 1 .. m + n
    BY <1>2
  <1>5. ASSUME NEW x \in Range(s)
        PROVE  x \in Range(r)
    <2>1. PICK i \in 1 .. m : x = s[i]
      BY <1>2 DEF Range
    <2>2. i \in DOMAIN r /\ r[i] = x
      BY <1>3, <1>4, <2>1
    <2>. QED
      BY <2>2 DEF Range
  <1>6. ASSUME NEW x \in Range(t)
        PROVE  x \in Range(r)
    <2>1. PICK i \in 1 .. n : x = t[i]
      BY <1>2 DEF Range
    <2>2. m + i \in DOMAIN r /\ r[m + i] = x
      BY <1>3, <2>1
    <2>. QED
      BY <2>2 DEF Range
  <1>. QED
    BY <1>1, <1>5, <1>6

\* FlattenSeq puts sequences one after the other.
LEMMA Flattened ==
    ASSUME NEW S, NEW ss, ss \in Seq(Seq(S))
    PROVE  /\ FlattenSeq(ss) \in Seq(S)
           /\ \A i \in DOMAIN ss : Range(ss[i]) \subseteq Range(FlattenSeq(ss))
  <1>0. PICK V : V = Seq(S)
    OBVIOUS
  <1>1. PICK n \in Nat : n = Len(ss) /\ DOMAIN ss = 1 .. n /\ \A i \in 1 .. n : ss[i] \in V
    BY <1>0
  <1>2. CASE n = 0
    <2>1. FlattenSeq(ss) = ss
      BY <1>1, <1>2 DEF FlattenSeq
    <2>2. ss = <<>>
      BY <1>1, <1>2
    <2>. QED
      BY <2>1, <2>2, EmptySeq
  <1>3. CASE n # 0
    <2>0. n - 1 \in Nat /\ n \in 1 .. n /\ 1 \in 1 .. n
      BY <1>3
    <2>1. PICK H : H = [k \in 1 .. n - 1 |-> [s \in V |-> s \o ss[k + 1]]]
      OBVIOUS
    <2>2. H \in [1 .. n - 1 -> [V -> V]]
      <3>1. ASSUME NEW k \in 1 .. n - 1, NEW s \in V
            PROVE  s \o ss[k + 1] \in V
        <4>1. k + 1 \in 1 .. n
          OBVIOUS
        <4>2. ss[k + 1] \in V
          BY <1>1, <4>1
        <4>. QED
          BY <1>0, <4>2, ConcatProperties
      <3>2. \A k \in 1 .. n - 1 : [s \in V |-> s \o ss[k + 1]] \in [V -> V]
        BY <3>1
      <3>. QED
        BY <2>1, <3>2
    <2>3. PICK a \in V : a = ss[1]
      BY <1>1, <2>0
    <2>4. PICK f \in [0 .. n - 1 -> V] : f[0] = a /\ \A k \in 1 .. n - 1 : f[k] = H[k][f[k - 1]]
      <3>1. PICK m \in Nat : m = n - 1
        BY <2>0
      <3>2. H \in [1 .. m -> [V -> V]]
        BY <2>2, <3>1
      <3>3. \E f : Runs(f, m, V, a, H)
        BY <3>2, Recursion
      <3>. QED
        BY <3>1, <3>3 DEF Runs
    <2>5. PICK g : g = [i \in 1 .. n |-> f[i - 1]]
      OBVIOUS
    <2>6. ASSUME NEW i \in 1 .. n, i # 1
          PROVE  g[i] = g[i - 1] \o ss[i]
      <3>1. PICK k \in 1 .. n - 1 : k = i - 1
        BY <2>6
      <3>2. k - 1 \in 0 .. n - 1 /\ i = k + 1 /\ i - 1 \in 1 .. n /\ (i - 1) - 1 = k - 1
        BY <3>1
      <3>3. f[k - 1] \in V
        BY <3>2
      <3>4. f[k] = f[k - 1] \o ss[k + 1]
        BY <2>1, <2>4, <3>3
      <3>5. g[i] = f[k] /\ g[i - 1] = f[k - 1]
        BY <2>5, <3>1, <3>2
      <3>. QED
        BY <3>2, <3>4, <3>5
    <2>7. g[1] = ss[1]
      BY <2>0, <2>3, <2>4, <2>5
    <2>8. g = [i \in 1 .. n |-> IF i = 1 THEN ss[i] ELSE g[i - 1] \o ss[i]]
      <3>1. g = [i \in 1 .. n |-> g[i]]
        BY <2>5
      <3>2. \A i \in 1 .. n : g[i] = IF i = 1 THEN ss[i] ELSE g[i - 1] \o ss[i]
        BY <2>6, <2>7
      <3>. QED
        BY <3>1, <3>2, Zenon
    <2>9. PICK u : /\ u = [i \in 1 .. n |-> IF i = 1 THEN ss[i] ELSE u[i - 1] \o ss[i]]
                   /\ FlattenSeq(ss) = u[n]
      <3>1. Len(ss) # 0 /\ g = [i \in 1 .. Len(ss) |-> IF i = 1 THEN ss[i] ELSE g[i - 1] \o ss[i]]
        BY <1>1, <1>3, <2>8
      <3>2. \E u : /\ u = [i \in 1 .. Len(ss) |-> IF i = 1 THEN ss[i] ELSE u[i - 1] \o ss[i]]
                   /\ FlattenSeq(ss) = u[Len(ss)]
        BY <3>1, Zenon DEF FlattenSeq
      <3>. QED
        BY <1>1, <3>2
    <2>10. u[1] = ss[1] /\ \A i \in 1 .. n : i # 1 => u[i] = u[i - 1] \o ss[i]
      <3>1. \A i \in 1 .. n : u[i] = IF i = 1 THEN ss[i] ELSE u[i - 1] \o ss[i]
        BY <2>9, Zenon
      <3>. QED
        BY <2>0, <3>1, Zenon
    <2> DEFINE G == {k \in 0 .. n - 1 :
                        /\ u[k + 1] \in V
                        /\ \A j \in 1 .. k + 1 : Range(ss[j]) \subseteq Range(u[k + 1])}
    <2>11. 0 \in G
      BY <2>0, <2>3, <2>10
    <2>12. ASSUME NEW k \in 0 .. (n - 1) - 1, k \in G
           PROVE  k + 1 \in G
      <3>1. /\ k + 1 \in 0 .. n - 1
            /\ (k + 1) + 1 \in 1 .. n /\ (k + 1) + 1 # 1
            /\ ((k + 1) + 1) - 1 = k + 1
        OBVIOUS
      <3>2. u[(k + 1) + 1] = u[k + 1] \o ss[(k + 1) + 1]
        <4>1. u[(k + 1) + 1] = u[((k + 1) + 1) - 1] \o ss[(k + 1) + 1]
          BY <2>10, <3>1, Zenon
        <4>. QED
          BY <3>1, <4>1, Zenon
      <3>3. u[k + 1] \in V /\ ss[(k + 1) + 1] \in V
        BY <1>1, <2>12, <3>1
      <3>4. /\ u[(k + 1) + 1] \in V
            /\ Range(u[k + 1]) \subseteq Range(u[(k + 1) + 1])
            /\ Range(ss[(k + 1) + 1]) \subseteq Range(u[(k + 1) + 1])
        BY <1>0, <3>2, <3>3, RangeConcat
      <3>5. ASSUME NEW j \in 1 .. (k + 1) + 1
            PROVE  Range(ss[j]) \subseteq Range(u[(k + 1) + 1])
        <4>1. j = (k + 1) + 1 \/ j \in 1 .. k + 1
          OBVIOUS
        <4>. QED
          BY <2>12, <3>4, <4>1
      <3>. QED
        BY <3>1, <3>4, <3>5
    <2>13. n - 1 \in G
      <3> HIDE DEF G
      <3>. QED
        BY <2>0, <2>11, <2>12, Counting
    <2>14. (n - 1) + 1 = n
      OBVIOUS
    <2>15. u[n] \in V /\ \A j \in 1 .. n : Range(ss[j]) \subseteq Range(u[n])
      BY <2>13, <2>14
    <2>. QED
      BY <1>0, <1>1, <2>9, <2>15
  <1>. QED
    BY <1>2, <1>3

------------------------------------------------------------------------------
(* Strata *)

\* The rules of an evaluation speak of its names only.
RulesOver(N, rules) ==
    /\ rules \in Seq(Range(rules))
    /\ \A c \in Range(rules) : c.head \in N /\ Targets(c) \subseteq N /\ IsFiniteSet(GoalsOf(c))

Below(N, s, t) == \A p \in N : s[p] <= t[p]

\* s meets what the goals of c require.
Meets(s, c) == \A g \in GoalsOf(c) : Required(s, g) <= s[c.head]

\* A goal requires a stratum, of a predicate with a table if it is a call.
LEMMA RequiredNat ==
    ASSUME NEW N, NEW s \in [N -> Nat], NEW c, Targets(c) \subseteq N, NEW g \in GoalsOf(c)
    PROVE  /\ Required(s, g) \in Nat
           /\ g.kind \in {"call", "not"} => g.of \in N
  <1>1. g.kind \in {"call", "not"} => g.of \in N
    BY DEF Targets
  <1>2. CASE g.kind \in {"call", "not"}
    <2>1. s[g.of] \in Nat
      BY <1>1, <1>2
    <2>. QED
      BY <1>1, <1>2, <2>1 DEF Required
  <1>3. CASE g.kind \notin {"call", "not"}
    BY <1>3 DEF Required
  <1>. QED
    BY <1>1, <1>2, <1>3

\* Higher strata require no less.
LEMMA RequiredGrows ==
    ASSUME NEW N, NEW s \in [N -> Nat], NEW t \in [N -> Nat], Below(N, s, t),
           NEW c, Targets(c) \subseteq N, NEW g \in GoalsOf(c)
    PROVE  Required(s, g) <= Required(t, g)
  <1>1. g.kind \in {"call", "not"} => g.of \in N
    BY RequiredNat
  <1>2. CASE g.kind \in {"call", "not"}
    <2>1. s[g.of] \in Nat /\ t[g.of] \in Nat /\ s[g.of] <= t[g.of]
      BY <1>1, <1>2 DEF Below
    <2>. QED
      BY <1>2, <2>1 DEF Required
  <1>3. CASE g.kind \notin {"call", "not"}
    BY <1>3 DEF Required
  <1>. QED
    BY <1>2, <1>3

\* One rule raises the stratum of its head as far as its goals require.
LEMMA RaisedLevels ==
    ASSUME NEW N, NEW s \in [N -> Nat], NEW c, c.head \in N, Targets(c) \subseteq N,
           IsFiniteSet(GoalsOf(c))
    PROVE  /\ Raised(s, c) \in [N -> Nat]
           /\ Below(N, s, Raised(s, c))
           /\ \A g \in GoalsOf(c) : Required(s, g) <= Raised(s, c)[c.head]
           /\ \A u \in [N -> Nat] : Below(N, s, u) /\ Meets(u, c) => Below(N, Raised(s, c), u)
  <1>1. PICK r : r = [g \in GoalsOf(c) |-> Required(s, g)]
    OBVIOUS
  <1>2. \A g \in GoalsOf(c) : r[g] = Required(s, g) /\ r[g] \in Nat
    BY <1>1, RequiredNat
  <1>3. PICK S : S = {s[c.head]} \cup {r[g] : g \in GoalsOf(c)}
    OBVIOUS
  <1>4. IsFiniteSet(S)
    <2>1. IsFiniteSet({r[g] : g \in GoalsOf(c)})
      BY ImageFinite
    <2>2. IsFiniteSet({s[c.head]})
      BY FS_Singleton
    <2>. QED
      BY <1>3, <2>1, <2>2, FS_Union
  <1>5. S \in SUBSET Nat /\ S # {}
    BY <1>2, <1>3
  <1>6. PICK m \in Nat : m = Max(S) /\ m \in S /\ \A n \in S : n <= m
    BY <1>4, <1>5, MaxNat
  <1>7. {r[g] : g \in GoalsOf(c)} = {Required(s, g) : g \in GoalsOf(c)}
    BY <1>2
  <1>8. PICK t : t = [s EXCEPT ![c.head] = m]
    OBVIOUS
  <1>9. Raised(s, c) = t
    BY <1>3, <1>6, <1>7, <1>8, Zenon DEF Raised
  <1>10. t \in [N -> Nat] /\ t[c.head] = m /\ \A p \in N : p # c.head => t[p] = s[p]
    BY <1>8
  <1>11. s[c.head] <= m
    BY <1>3, <1>6
  <1>12. \A p \in N : s[p] <= s[p]
    OBVIOUS
  <1>13. Below(N, s, t)
    BY <1>10, <1>11, <1>12 DEF Below
  <1>14. \A g \in GoalsOf(c) : Required(s, g) <= m
    BY <1>2, <1>3, <1>6
  <1>15. ASSUME NEW u \in [N -> Nat], Below(N, s, u), Meets(u, c)
         PROVE  Below(N, t, u)
    <2>1. \A g \in GoalsOf(c) : Required(s, g) <= u[c.head]
      <3>1. TAKE g \in GoalsOf(c)
      <3>2. Required(s, g) <= Required(u, g) /\ Required(u, g) <= u[c.head]
        BY <1>15, RequiredGrows DEF Meets
      <3>3. Required(s, g) \in Nat /\ Required(u, g) \in Nat /\ u[c.head] \in Nat
        BY RequiredNat
      <3>. QED
        BY <3>2, <3>3
    <2>2. \A n \in S : n <= u[c.head]
      BY <1>2, <1>3, <1>15, <2>1 DEF Below
    <2>3. m <= u[c.head]
      BY <1>6, <2>2
    <2>. QED
      BY <1>10, <1>15, <2>3 DEF Below
  <1>. QED
    BY <1>9, <1>10, <1>13, <1>14, <1>15

\* A pass over the rules raises every head as far as its rules require, and
\* no further than anything that meets them.
LEMMA PassLevels ==
    ASSUME NEW N, NEW rules, RulesOver(N, rules), NEW s \in [N -> Nat]
    PROVE  /\ AfterPass(s, rules) \in [N -> Nat]
           /\ Below(N, s, AfterPass(s, rules))
           /\ \A c \in Range(rules) : \A g \in GoalsOf(c) :
                  Required(s, g) <= AfterPass(s, rules)[c.head]
           /\ \A u \in [N -> Nat] :
                  Below(N, s, u) /\ (\A c \in Range(rules) : Meets(u, c))
                      => Below(N, AfterPass(s, rules), u)
  <1>0. PICK V : V = [N -> Nat]
    OBVIOUS
  <1>1. PICK n \in Nat : n = Len(rules) /\ DOMAIN rules = 1 .. n
    BY DEF RulesOver
  <1>2. \A k \in 1 .. n : /\ rules[k] \in Range(rules)
                          /\ rules[k].head \in N
                          /\ Targets(rules[k]) \subseteq N
                          /\ IsFiniteSet(GoalsOf(rules[k]))
    BY <1>1 DEF RulesOver, Range
  <1>3. PICK H : H = [k \in 1 .. n |-> [x \in V |-> Raised(x, rules[k])]]
    OBVIOUS
  <1>4. H \in [1 .. n -> [V -> V]]
    <2>1. \A k \in 1 .. n : \A x \in V : Raised(x, rules[k]) \in V
      BY <1>0, <1>2, RaisedLevels
    <2>2. \A k \in 1 .. n : [x \in V |-> Raised(x, rules[k])] \in [V -> V]
      BY <2>1
    <2>. QED
      BY <1>3, <2>2
  <1>5. s \in V
    BY <1>0
  <1>6. PICK f : Runs(f, n, V, s, H)
    BY <1>4, <1>5, Recursion
  <1>7. f = [k \in 0 .. n |-> IF k = 0 THEN s ELSE Raised(f[k - 1], rules[k])]
    <2>1. ASSUME NEW k \in 1 .. n
          PROVE  f[k] = Raised(f[k - 1], rules[k])
      <3>1. f[k - 1] \in V
        BY <1>6 DEF Runs
      <3>. QED
        BY <1>3, <1>6, <3>1 DEF Runs
    <2>2. f = [k \in 0 .. n |-> f[k]] /\ f[0] = s
      BY <1>6 DEF Runs
    <2>3. \A k \in 0 .. n : k # 0 => k \in 1 .. n
      OBVIOUS
    <2>4. \A k \in 0 .. n : f[k] = IF k = 0 THEN s ELSE Raised(f[k - 1], rules[k])
      BY <2>1, <2>2, <2>3, Zenon
    <2>. QED
      BY <2>2, <2>4, Zenon
  <1>8. PICK u : /\ u = [k \in 0 .. n |-> IF k = 0 THEN s ELSE Raised(u[k - 1], rules[k])]
                 /\ AfterPass(s, rules) = u[n]
    BY <1>1, <1>7, Zenon DEF AfterPass
  <1>9. u[0] = s /\ \A k \in 1 .. n : u[k] = Raised(u[k - 1], rules[k])
    BY <1>8
  <1> DEFINE Done(k, t) ==
                 /\ t \in V
                 /\ Below(N, s, t)
                 /\ \A j \in 1 .. k : \A g \in GoalsOf(rules[j]) : Required(s, g) <= t[rules[j].head]
                 /\ \A w \in V : Below(N, s, w) /\ (\A j \in 1 .. n : Meets(w, rules[j])) => Below(N, t, w)
             G == {k \in 0 .. n : Done(k, u[k])}
  <1>10. 0 \in G
    <2>1. Below(N, s, s)
      BY DEF Below
    <2>2. Done(0, s)
      BY <1>5, <2>1
    <2>. QED
      BY <1>9, <2>2
  <1>11. ASSUME NEW k \in 0 .. n - 1, k \in G
         PROVE  k + 1 \in G
    <2>1. k + 1 \in 0 .. n /\ k + 1 \in 1 .. n /\ (k + 1) - 1 = k
      OBVIOUS
    <2>2. PICK x \in V : x = u[k] /\ Done(k, x)
      BY <1>11
    <2>3. PICK c : c = rules[k + 1]
      OBVIOUS
    <2>4. c.head \in N /\ Targets(c) \subseteq N /\ IsFiniteSet(GoalsOf(c))
      BY <1>2, <2>1, <2>3
    <2>5. PICK t : t = Raised(x, c)
      OBVIOUS
    <2>6. u[k + 1] = t
      BY <1>9, <2>1, <2>2, <2>3, <2>5
    <2>7. x \in [N -> Nat]
      BY <1>0
    <2>8. /\ t \in [N -> Nat]
          /\ Below(N, x, t)
          /\ \A g \in GoalsOf(c) : Required(x, g) <= t[c.head]
          /\ \A w \in [N -> Nat] : Below(N, x, w) /\ Meets(w, c) => Below(N, t, w)
      BY <2>4, <2>5, <2>7, RaisedLevels
    <2>9. Below(N, s, t)
      <3>1. Below(N, s, x)
        BY <2>2
      <3>. QED
        BY <2>7, <2>8, <3>1 DEF Below
    <2>10. ASSUME NEW j \in 1 .. k + 1, NEW g \in GoalsOf(rules[j])
           PROVE  Required(s, g) <= t[rules[j].head]
      <3>1. j \in 1 .. n
        BY <2>1
      <3>2. rules[j].head \in N /\ Targets(rules[j]) \subseteq N
        BY <1>2, <3>1
      <3>3. Required(s, g) \in Nat
        BY <3>2, RequiredNat
      <3>4. CASE j \in 1 .. k
        <4>1. Required(s, g) <= x[rules[j].head]
          BY <2>2, <3>4
        <4>2. x[rules[j].head] <= t[rules[j].head]
          BY <2>8, <3>2 DEF Below
        <4>3. x[rules[j].head] \in Nat /\ t[rules[j].head] \in Nat
          BY <2>7, <2>8, <3>2
        <4>. QED
          BY <3>3, <4>1, <4>2, <4>3
      <3>5. CASE j = k + 1
        <4>1. Required(s, g) <= Required(x, g)
          BY <2>2, <2>3, <2>4, <2>7, <3>5, RequiredGrows
        <4>2. Required(x, g) <= t[c.head]
          BY <2>3, <2>8, <3>5
        <4>3. Required(x, g) \in Nat /\ t[c.head] \in Nat
          BY <2>3, <2>4, <2>7, <2>8, <3>5, RequiredNat
        <4>. QED
          BY <2>3, <3>3, <3>5, <4>1, <4>2, <4>3
      <3>. QED
        BY <3>4, <3>5
    <2>11. ASSUME NEW w \in V, Below(N, s, w), \A j \in 1 .. n : Meets(w, rules[j])
           PROVE  Below(N, t, w)
      <3>1. Below(N, x, w)
        BY <2>2, <2>11
      <3>2. Meets(w, c)
        BY <2>1, <2>3, <2>11
      <3>. QED
        BY <1>0, <2>8, <3>1, <3>2
    <2>12. Done(k + 1, t)
      BY <1>0, <2>8, <2>9, <2>10, <2>11
    <2>. QED
      BY <2>1, <2>6, <2>12
  <1>12. n \in G
    <2> HIDE DEF G
    <2>. QED
      BY <1>10, <1>11, Counting
  <1>13. Done(n, u[n])
    BY <1>12
  <1>14. \A c \in Range(rules) : \E j \in 1 .. n : c = rules[j]
    BY <1>1 DEF Range
  <1>. QED
    BY <1>0, <1>2, <1>8, <1>13, <1>14

\* Numbers that meet all rules, and those of them that cannot be lowered.
Solves(N, rules, t) == t \in [N -> Nat] /\ \A c \in Range(rules) : Meets(t, c)
Level(N, rules, t) ==
    /\ Solves(N, rules, t)
    /\ \A u : Solves(N, rules, u) /\ Below(N, u, t) => u = t

\* If any numbers meet the rules, some of them cannot be lowered.
LEMMA LevelExists ==
    ASSUME NEW N, IsFiniteSet(N), NEW rules, NEW t, Solves(N, rules, t)
    PROVE  \E l : Level(N, rules, l)
  <1> DEFINE Graph(u) == {x \in N \X Nat : x[2] < u[x[1]]}
  <1>1. t \in [N -> Nat]
    BY DEF Solves
  <1>2. IsFiniteSet(Graph(t))
    <2>1. PICK S : S = {0} \cup {t[p] : p \in N}
      OBVIOUS
    <2>2. IsFiniteSet(S)
      <3>1. IsFiniteSet({t[p] : p \in N})
        BY ImageFinite
      <3>2. IsFiniteSet({0})
        BY FS_Singleton
      <3>. QED
        BY <2>1, <3>1, <3>2, FS_Union
    <2>3. S \in SUBSET Nat /\ S # {}
      BY <1>1, <2>1
    <2>4. PICK b \in Nat : \A n \in S : n <= b
      BY <2>2, <2>3, MaxNat
    <2>5. Graph(t) \subseteq N \X (0 .. b)
      <3>1. ASSUME NEW p \in N, NEW k \in Nat, k < t[p]
            PROVE  k \in 0 .. b
        <4>1. t[p] \in Nat /\ t[p] <= b
          BY <1>1, <2>1, <2>4
        <4>. QED
          BY <3>1, <4>1
      <3>. QED
        BY <3>1
    <2>6. IsFiniteSet(N \X (0 .. b))
      <3>1. IsFiniteSet(0 .. b)
        BY FS_Interval
      <3>. QED
        BY <3>1, FS_Product
    <2> HIDE DEF Graph
    <2>. QED
      BY <2>5, <2>6, FS_Subset
  <1>3. ASSUME NEW u \in [N -> Nat], NEW w \in [N -> Nat]
        PROVE  Below(N, u, w) <=> Graph(u) \subseteq Graph(w)
    <2>1. ASSUME Below(N, u, w)
          PROVE  Graph(u) \subseteq Graph(w)
      <3>1. ASSUME NEW p \in N, NEW k \in Nat, k < u[p]
            PROVE  k < w[p]
        BY <2>1, <3>1 DEF Below
      <3>. QED
        BY <3>1
    <2>2. ASSUME Graph(u) \subseteq Graph(w), NEW p \in N, ~(u[p] <= w[p])
          PROVE  FALSE
      <3>1. w[p] \in Nat /\ w[p] < u[p]
        BY <2>2
      <3>2. <<p, w[p]>> \in Graph(u)
        BY <3>1
      <3>3. <<p, w[p]>> \in Graph(w)
        BY <2>2, <3>2
      <3>. QED
        BY <3>1, <3>3
    <2>. QED
      BY <2>1, <2>2 DEF Below
  <1>4. PICK F : F = {Graph(u) : u \in {w \in [N -> Nat] : Solves(N, rules, w) /\ Below(N, w, t)}}
    OBVIOUS
  <1>5. F \in Families(Graph(t))
    <2>1. Below(N, t, t)
      BY <1>1 DEF Below
    <2>2. Graph(t) \in F
      BY <1>1, <1>4, <2>1
    <2>3. \A A \in F : A \subseteq Graph(t)
      BY <1>1, <1>3, <1>4
    <2> HIDE DEF Graph
    <2>. QED
      BY <2>2, <2>3, Zenon DEF Families
  <1> HIDE DEF Graph
  <1>6. PICK A \in F : \A B \in F : B \subseteq A => B = A
    BY <1>2, <1>5, SmallestSet
  <1>7. PICK l \in [N -> Nat] : A = Graph(l) /\ Solves(N, rules, l) /\ Below(N, l, t)
    BY <1>4, <1>6
  <1>8. ASSUME NEW u, Solves(N, rules, u), Below(N, u, l)
        PROVE  u = l
    <2>1. u \in [N -> Nat]
      BY <1>8 DEF Solves
    <2>2. Below(N, u, t)
      <3>1. \A p \in N : u[p] \in Nat /\ l[p] \in Nat /\ t[p] \in Nat
        BY <1>1, <2>1
      <3>. QED
        BY <1>7, <1>8, <3>1 DEF Below
    <2>3. Graph(u) \in F
      BY <1>4, <1>8, <2>1, <2>2
    <2>4. Graph(u) \subseteq Graph(l)
      BY <1>3, <1>8, <2>1
    <2>5. Graph(l) \subseteq Graph(u)
      BY <1>6, <1>7, <2>3, <2>4
    <2>6. Below(N, l, u)
      BY <1>3, <2>1, <2>5
    <2>7. \A p \in N : u[p] = l[p]
      <3>1. \A p \in N : u[p] \in Nat /\ l[p] \in Nat
        BY <2>1
      <3>. QED
        BY <1>8, <2>6, <3>1 DEF Below
    <2>. QED
      BY <2>1, <2>7
  <1>. QED
    BY <1>7, <1>8 DEF Level

\* A pass brings some stratum to its level, if one is below it.
LEMMA PassReaches ==
    ASSUME NEW N, NEW rules, RulesOver(N, rules), NEW l, Level(N, rules, l),
           NEW s \in [N -> Nat], Below(N, s, l), s # l
    PROVE  \E p \in N : s[p] # l[p] /\ AfterPass(s, rules)[p] = l[p]
  <1>1. PICK t : t = AfterPass(s, rules)
    OBVIOUS
  <1>2. l \in [N -> Nat] /\ \A c \in Range(rules) : Meets(l, c)
    BY DEF Level, Solves
  <1>3. /\ t \in [N -> Nat] /\ Below(N, s, t) /\ Below(N, t, l)
        /\ \A c \in Range(rules) : \A g \in GoalsOf(c) : Required(s, g) <= t[c.head]
    BY <1>1, <1>2, PassLevels
  <1> SUFFICES ASSUME \A p \in N : s[p] # l[p] => t[p] # l[p]
               PROVE  FALSE
    BY <1>1
  <1>4. PICK U \in SUBSET N : U = {p \in N : s[p] # l[p]}
    OBVIOUS
  <1>5. \A p \in N : s[p] \in Nat /\ l[p] \in Nat /\ t[p] \in Nat
                     /\ s[p] <= l[p] /\ t[p] <= l[p]
    BY <1>2, <1>3 DEF Below
  <1>6. \A p \in U : l[p] - 1 \in Nat
    BY <1>4, <1>5
  <1>7. PICK w : w = [p \in N |-> IF p \in U THEN l[p] - 1 ELSE l[p]]
    OBVIOUS
  <1>8. w \in [N -> Nat]
    BY <1>5, <1>6, <1>7
  <1>9. \A p \in N : w[p] \in Nat /\ w[p] = IF p \in U THEN l[p] - 1 ELSE l[p]
    BY <1>7, <1>8
  <1>10. Below(N, w, l)
    BY <1>5, <1>9 DEF Below
  <1>11. ASSUME NEW c \in Range(rules), NEW g \in GoalsOf(c)
         PROVE  Required(w, g) <= w[c.head]
    <2>1. c.head \in N /\ Targets(c) \subseteq N
      BY DEF RulesOver
    <2>2. /\ Required(w, g) \in Nat /\ Required(l, g) \in Nat /\ Required(s, g) \in Nat
          /\ g.kind \in {"call", "not"} => g.of \in N
      BY <1>2, <1>8, <2>1, RequiredNat
    <2>3. Required(w, g) <= Required(l, g)
      BY <1>2, <1>8, <1>10, <2>1, RequiredGrows
    <2>4. Required(l, g) <= l[c.head]
      BY <1>2 DEF Meets
    <2>5. CASE c.head \notin U
      BY <1>5, <1>9, <2>1, <2>2, <2>3, <2>4, <2>5
    <2>6. CASE c.head \in U /\ Required(l, g) # l[c.head]
      BY <1>5, <1>9, <2>1, <2>2, <2>3, <2>4, <2>6
    <2>7. CASE c.head \in U /\ Required(l, g) = l[c.head]
      <3>1. Required(l, g) # 0
        BY <1>6, <2>2, <2>7
      <3>2. g.kind \in {"call", "not"} /\ g.of \in N
        BY <2>2, <3>1 DEF Required
      <3>3. CASE g.of \in U
        <4>1. Required(w, g) = Required(l, g) - 1
          BY <1>5, <1>9, <3>2, <3>3 DEF Required
        <4>. QED
          BY <1>9, <2>1, <2>2, <2>7, <4>1
      <3>4. CASE g.of \notin U
        <4>1. s[g.of] = l[g.of]
          BY <1>4, <3>2, <3>4
        <4>2. Required(s, g) = Required(l, g)
          BY <3>2, <4>1 DEF Required
        <4>3. Required(s, g) <= t[c.head]
          BY <1>3
        <4>4. t[c.head] = l[c.head]
          BY <1>5, <2>1, <2>7, <4>2, <4>3
        <4>. QED
          BY <1>4, <2>1, <2>7, <4>4
      <3>. QED
        BY <3>3, <3>4
    <2>. QED
      BY <2>5, <2>6, <2>7
  <1>12. Solves(N, rules, w)
    BY <1>8, <1>11 DEF Solves, Meets
  <1>13. w = l
    BY <1>10, <1>12 DEF Level
  <1>14. U = {}
    BY <1>4, <1>5, <1>9, <1>13
  <1>15. s = l
    BY <1>2, <1>4, <1>14
  <1>. QED
    BY <1>15

------------------------------------------------------------------------------
(* What a predicate depends on *)

\* All that Reached looks at.
All(cs, ps) == ps \cup (UNION {Targets(c) : c \in cs})

\* Reached is a closed set with ps in it, and the least.
LEMMA ReachedLeast ==
    ASSUME NEW cs, NEW ps
    PROVE  /\ ps \subseteq Reached(cs, ps)
           /\ Closed(cs, Reached(cs, ps))
           /\ Reached(cs, ps) \subseteq All(cs, ps)
           /\ \A qs : ps \subseteq qs /\ Closed(cs, qs) => Reached(cs, ps) \subseteq qs
  <1>1. PICK R : R = {p \in All(cs, ps) :
                        \A qs \in SUBSET All(cs, ps) : ps \subseteq qs /\ Closed(cs, qs) => p \in qs}
    OBVIOUS
  <1>2. Reached(cs, ps) = R
    BY <1>1, Zenon DEF Reached, All
  <1>3. ps \subseteq R
    BY <1>1 DEF All
  <1>4. ASSUME NEW c \in cs, c.head \in R, NEW p \in Targets(c)
        PROVE  p \in R
    <2>1. p \in All(cs, ps)
      BY DEF All
    <2>2. ASSUME NEW qs \in SUBSET All(cs, ps), ps \subseteq qs, Closed(cs, qs)
          PROVE  p \in qs
      BY <1>1, <1>4, <2>2 DEF Closed
    <2>. QED
      BY <1>1, <2>1, <2>2
  <1>5. Closed(cs, R)
    BY <1>4 DEF Closed
  <1>6. ASSUME NEW qs, ps \subseteq qs, Closed(cs, qs), NEW p \in R
        PROVE  p \in qs
    <2>1. PICK q : q = qs \cap All(cs, ps)
      OBVIOUS
    <2>2. q \in SUBSET All(cs, ps) /\ ps \subseteq q
      BY <1>6, <2>1 DEF All
    <2>3. \A c \in cs : Targets(c) \subseteq All(cs, ps)
      BY DEF All
    <2>4. Closed(cs, q)
      BY <1>6, <2>1, <2>3 DEF Closed
    <2>. QED
      BY <1>1, <2>1, <2>2, <2>4
  <1>. QED
    BY <1>1, <1>2, <1>3, <1>5, <1>6

\* Finitely many clauses reach finitely many predicates.
LEMMA ReachedFinite ==
    ASSUME NEW cs, cs \subseteq Clause, NEW ps, IsFiniteSet(ps)
    PROVE  /\ IsFiniteSet(Reached(cs, ps))
           /\ \A c \in cs : IsFiniteSet(GoalsOf(c))
  <1>1. IsFiniteSet(cs)
    BY ClauseAssumption, FS_Subset
  <1>2. ASSUME NEW c \in cs
        PROVE  IsFiniteSet(GoalsOf(c)) /\ IsFiniteSet(Targets(c))
    <2>1. PICK n \in Nat : DOMAIN c.body = 1 .. n
      BY ClauseAssumption
    <2>2. IsFiniteSet(1 .. n)
      BY FS_Interval
    <2>3. IsFiniteSet(GoalsOf(c))
      <3>1. PICK b : b = c.body
        OBVIOUS
      <3>2. IsFiniteSet({b[i] : i \in 1 .. n})
        BY <2>2, ImageFinite
      <3>. QED
        BY <2>1, <3>1, <3>2 DEF GoalsOf
    <2>4. PICK G : G = {h \in GoalsOf(c) : h.kind \in {"call", "not"}}
      OBVIOUS
    <2>5. IsFiniteSet(G)
      BY <2>3, <2>4, FS_Subset
    <2>6. PICK f : f = [g \in G |-> g.of]
      OBVIOUS
    <2>7. IsFiniteSet({f[g] : g \in G})
      BY <2>5, ImageFinite
    <2>8. {f[g] : g \in G} = Targets(c)
      BY <2>4, <2>6 DEF Targets
    <2>. QED
      BY <2>3, <2>7, <2>8
  <1>3. PICK T : T = {Targets(c) : c \in cs}
    OBVIOUS
  <1>4. IsFiniteSet(T)
    <2>1. PICK f : f = [c \in cs |-> Targets(c)]
      OBVIOUS
    <2>2. IsFiniteSet({f[c] : c \in cs})
      BY <1>1, ImageFinite
    <2>. QED
      BY <1>3, <2>1, <2>2
  <1>5. IsFiniteSet(UNION T)
    BY <1>2, <1>3, <1>4, FS_UNION
  <1>6. All(cs, ps) = ps \cup (UNION T)
    BY <1>3 DEF All
  <1>7. IsFiniteSet(All(cs, ps))
    BY <1>5, <1>6, FS_Union
  <1>. QED
    BY <1>2, <1>7, ReachedLeast, FS_Subset

\* What is reached from what is reached has been reached.
LEMMA ReachedFrom ==
    ASSUME NEW cs, NEW ps, NEW qs, qs \subseteq Reached(cs, ps)
    PROVE  Reached(cs, qs) \subseteq Reached(cs, ps)
  <1>1. PICK R : R = Reached(cs, ps)
    OBVIOUS
  <1>2. Closed(cs, R)
    BY <1>1, ReachedLeast
  <1>. QED
    BY <1>1, <1>2, ReachedLeast

\* How much a predicate depends on, in a stratified program, meets what the
\* rules require.
LEMMA StrataExist ==
    ASSUME NEW cs, cs \subseteq Clause, IsStratified({}, cs),
           NEW N, NEW rules, Range(rules) \subseteq Relational(cs), RulesOver(N, rules)
    PROVE  \E t : Solves(N, rules, t)
  <1>1. PICK rs : rs = Rules(cs)
    OBVIOUS
  <1>2. rs \subseteq Clause /\ Relational(cs) \subseteq rs
    BY <1>1, ClauseAssumption DEF Relational, Rules
  <1>3. \A x \in NegativeEdges(rs) : x[1] \notin Reached(rs, {x[2]})
    <2>1. {} \cup cs = cs
      OBVIOUS
    <2>. QED
      BY <1>1, <2>1 DEF IsStratified
  <1>4. PICK t : t = [p \in N |-> Cardinality(Reached(rs, {p}))]
    OBVIOUS
  <1>5. \A p : IsFiniteSet(Reached(rs, {p})) /\ Cardinality(Reached(rs, {p})) \in Nat
    <2>1. TAKE p
    <2>2. IsFiniteSet({p})
      BY FS_Singleton
    <2>3. IsFiniteSet(Reached(rs, {p}))
      BY <1>2, <2>2, ReachedFinite
    <2>. QED
      BY <2>3, FS_CardinalityType
  <1>6. t \in [N -> Nat]
    BY <1>4, <1>5
  <1>7. ASSUME NEW c \in Range(rules), NEW g \in GoalsOf(c)
        PROVE  Required(t, g) <= t[c.head]
    <2>1. c \in rs /\ c.head \in N /\ Targets(c) \subseteq N
      BY <1>2 DEF RulesOver
    <2>2. CASE g.kind \notin {"call", "not"}
      BY <1>6, <2>1, <2>2 DEF Required
    <2>3. CASE g.kind \in {"call", "not"}
      <3>1. g.of \in Targets(c)
        BY <2>3 DEF Targets
      <3>2. PICK A : A = Reached(rs, {c.head})
        OBVIOUS
      <3>3. PICK B : B = Reached(rs, {g.of})
        OBVIOUS
      <3>4. c.head \in A /\ g.of \in A
        BY <2>1, <3>1, <3>2, ReachedLeast DEF Closed
      <3>5. B \subseteq A
        BY <3>2, <3>3, <3>4, ReachedFrom
      <3>6. t[c.head] = Cardinality(A) /\ t[g.of] = Cardinality(B)
        BY <1>4, <2>1, <3>1, <3>2, <3>3
      <3>7. IsFiniteSet(A) /\ Cardinality(A) \in Nat /\ Cardinality(B) \in Nat
        BY <1>5, <3>2, <3>3
      <3>8. Cardinality(B) <= Cardinality(A)
        BY <3>5, <3>7, FS_Subset
      <3>9. CASE g.kind # "not"
        BY <2>3, <3>6, <3>7, <3>8, <3>9 DEF Required
      <3>10. CASE g.kind = "not"
        <4>1. <<c.head, g.of>> \in NegativeEdges(rs)
          BY <2>1, <3>10 DEF NegativeEdges
        <4>2. c.head \notin B
          BY <1>3, <3>3, <4>1
        <4>3. Cardinality(B) # Cardinality(A)
          BY <3>4, <3>5, <3>7, <4>2, FS_Subset
        <4>. QED
          BY <2>3, <3>6, <3>7, <3>8, <3>10, <4>3 DEF Required
      <3>. QED
        BY <3>9, <3>10
    <2>. QED
      BY <2>2, <2>3
  <1>. QED
    BY <1>6, <1>7 DEF Solves, Meets

\* The names of an evaluation are closed and no more than what is reached
\* in the whole program.
LEMMA NamesClosed ==
    ASSUME NEW cs, cs \subseteq Clause, NEW p
    PROVE  /\ p \in NamesOf(cs, p) /\ IsFiniteSet(NamesOf(cs, p))
           /\ Closed(Relational(cs), NamesOf(cs, p))
           /\ NamesOf(cs, p) \subseteq Reached(cs, {p})
  <1>1. NamesOf(cs, p) = Reached(Relational(cs), {p})
    BY DEF NamesOf, Relational
  <1>2. Relational(cs) \subseteq cs
    BY DEF Relational
  <1>3. PICK R : R = Reached(cs, {p})
    OBVIOUS
  <1>4. {p} \subseteq R /\ Closed(cs, R)
    BY <1>3, ReachedLeast
  <1>5. Closed(Relational(cs), R)
    BY <1>2, <1>4 DEF Closed
  <1>6. Relational(cs) \subseteq Clause /\ IsFiniteSet({p})
    BY <1>2, FS_Singleton
  <1>7. PICK N : N = Reached(Relational(cs), {p})
    OBVIOUS
  <1>8. {p} \subseteq N /\ Closed(Relational(cs), N)
    BY <1>7, ReachedLeast
  <1>9. N \subseteq R
    BY <1>4, <1>5, <1>7, ReachedLeast
  <1>10. IsFiniteSet(N)
    BY <1>6, <1>7, ReachedFinite
  <1>. QED
    BY <1>1, <1>3, <1>7, <1>8, <1>9, <1>10

\* The elements of a sequence are as many as its positions.
AllDiffer(s) == IsFiniteSet(Range(s)) /\ Cardinality(Range(s)) = Len(s)

\* Listed is a sequence of the elements of a finite set.
LEMMA ListedIn ==
    ASSUME NEW S, IsFiniteSet(S)
    PROVE  Listed(S) \in Seq(S) /\ Range(Listed(S)) = S
  <1> DEFINE More(s) == Append(s, CHOOSE x \in S : \A i \in DOMAIN s : x # s[i])
  <1>0. PICK V : V = Seq(S)
    OBVIOUS
  <1>1. PICK n \in Nat : n = Cardinality(S)
    BY FS_CardinalityType
  <1>2. ASSUME NEW s \in V, Len(s) < n
        PROVE  /\ More(s) \in V /\ Len(More(s)) = Len(s) + 1
               /\ AllDiffer(s) => AllDiffer(More(s))
    <2>1. \E x \in S : \A i \in DOMAIN s : x # s[i]
      <3> SUFFICES ASSUME \A x \in S : \E i \in DOMAIN s : x = s[i]
                   PROVE  FALSE
        OBVIOUS
      <3>1. PICK m \in Nat : m = Len(s) /\ DOMAIN s = 1 .. m
        BY <1>0
      <3>2. s \in Surjection(1 .. m, S)
        BY <1>0, <3>1 DEF Surjection
      <3>3. Cardinality(S) <= m
        BY <3>1, <3>2, FS_SurjCardinalityBound DEF ExistsSurjection
      <3>. QED
        BY <1>1, <1>2, <3>1, <3>3
    <2>2. PICK y \in S : /\ y = CHOOSE x \in S : \A i \in DOMAIN s : x # s[i]
                         /\ \A i \in DOMAIN s : y # s[i]
      BY <2>1
    <2>3. More(s) = Append(s, y)
      BY <2>2
    <2>4. Append(s, y) \in Seq(S) /\ Len(Append(s, y)) = Len(s) + 1
      <3>1. s \in Seq(S)
        BY <1>0
      <3>. QED
        BY <3>1, AppendProperties
    <2>5. ASSUME AllDiffer(s)
          PROVE  AllDiffer(Append(s, y))
      <3>1. PICK m \in Nat : m = Len(s) /\ DOMAIN s = 1 .. m
        BY <1>0
      <3>2. PICK t \in Seq(S) : t = Append(s, y)
        BY <2>4
      <3>3. DOMAIN t = 1 .. m + 1 /\ t[m + 1] = y /\ \A i \in 1 .. m : t[i] = s[i]
        BY <1>0, <3>1, <3>2
      <3>4. \A i \in 1 .. m + 1 : i \in 1 .. m \/ i = m + 1
        BY <3>1
      <3>5. Range(t) = Range(s) \cup {y}
        BY <3>1, <3>3, <3>4 DEF Range
      <3>6. y \notin Range(s)
        BY <2>2 DEF Range
      <3>7. IsFiniteSet(Range(s)) /\ Cardinality(Range(s)) = m
        BY <2>5, <3>1 DEF AllDiffer
      <3>8. IsFiniteSet(Range(s) \cup {y}) /\ Cardinality(Range(s) \cup {y}) = m + 1
        BY <3>6, <3>7, FS_AddElement
      <3>. QED
        BY <2>4, <3>1, <3>2, <3>5, <3>8 DEF AllDiffer
    <2>. QED
      BY <1>0, <2>3, <2>4, <2>5, Zenon
  <1>3. PICK H : H = [k \in 1 .. n |-> [s \in V |-> IF Len(s) < n THEN More(s) ELSE s]]
    OBVIOUS
  <1>4. H \in [1 .. n -> [V -> V]]
    <2>1. [s \in V |-> IF Len(s) < n THEN More(s) ELSE s] \in [V -> V]
      BY <1>2
    <2>. QED
      BY <1>3, <2>1
  <1>5. PICK e \in V : e = <<>>
    BY <1>0, EmptySeq
  <1>6. PICK f : Runs(f, n, V, e, H)
    BY <1>4, Recursion
  <1> DEFINE G == {k \in 0 .. n : f[k] \in V /\ Len(f[k]) = k}
  <1>7. 0 \in G
    BY <1>5, <1>6 DEF Runs
  <1>8. ASSUME NEW k \in 0 .. n - 1, k \in G
        PROVE  k + 1 \in G
    <2>1. k + 1 \in 1 .. n /\ (k + 1) - 1 = k /\ k < n /\ k + 1 \in 0 .. n
      OBVIOUS
    <2>2. f[k + 1] = H[k + 1][f[k]]
      BY <1>6, <2>1 DEF Runs
    <2> HIDE DEF More
    <2>3. f[k + 1] = More(f[k])
      BY <1>3, <1>8, <2>1, <2>2
    <2>4. More(f[k]) \in V /\ Len(More(f[k])) = k + 1
      BY <1>2, <1>8, <2>1
    <2>. QED
      BY <2>1, <2>3, <2>4
  <1>9. \A k \in 0 .. n : k \in G
    <2>1. TAKE k \in 0 .. n
    <2>2. k \in Nat /\ \A j \in 0 .. k - 1 : j \in 0 .. n - 1
      OBVIOUS
    <2> HIDE DEF G
    <2>. QED
      BY <1>7, <1>8, <2>2, Counting
  <1>10. ASSUME NEW k \in 1 .. n
         PROVE  f[k] = More(f[k - 1])
    <2>1. k - 1 \in 0 .. n /\ k - 1 < n
      OBVIOUS
    <2>2. f[k - 1] \in V /\ Len(f[k - 1]) < n
      BY <1>9, <2>1
    <2> HIDE DEF More
    <2>. QED
      BY <1>3, <1>6, <2>2 DEF Runs
  <1>11. f = [k \in 0 .. n |-> IF k = 0 THEN <<>> ELSE More(f[k - 1])]
    <2>1. f = [k \in 0 .. n |-> f[k]] /\ f[0] = <<>>
      BY <1>5, <1>6 DEF Runs
    <2>2. \A k \in 0 .. n : k # 0 => k \in 1 .. n
      OBVIOUS
    <2> HIDE DEF More
    <2>3. \A k \in 0 .. n : f[k] = IF k = 0 THEN <<>> ELSE More(f[k - 1])
      BY <1>10, <2>1, <2>2, Zenon
    <2>. QED
      BY <2>1, <2>3, Zenon
  <1>12. PICK u : /\ u = [k \in 0 .. n |-> IF k = 0 THEN <<>> ELSE More(u[k - 1])]
                  /\ Listed(S) = u[n]
    BY <1>1, <1>11, Zenon DEF Listed
  <1> DEFINE U == {k \in 0 .. n : u[k] \in V /\ Len(u[k]) = k /\ AllDiffer(u[k])}
  <1>13. 0 \in U
    <2>1. u[0] = <<>> /\ <<>> \in V
      BY <1>5, <1>12
    <2>2. AllDiffer(<<>>)
      <3>1. Range(<<>>) = {} /\ Len(<<>>) = 0
        BY DEF Range
      <3>. QED
        BY <3>1, FS_EmptySet DEF AllDiffer
    <2>. QED
      BY <2>1, <2>2
  <1>14. ASSUME NEW k \in 0 .. n - 1, k \in U
         PROVE  k + 1 \in U
    <2>1. k + 1 # 0 /\ (k + 1) - 1 = k /\ k < n /\ k + 1 \in 0 .. n
      OBVIOUS
    <2> HIDE DEF More
    <2>2. u[k + 1] = More(u[k])
      BY <1>12, <2>1
    <2>3. More(u[k]) \in V /\ Len(More(u[k])) = k + 1 /\ AllDiffer(More(u[k]))
      BY <1>2, <1>14, <2>1
    <2>. QED
      BY <2>1, <2>2, <2>3
  <1>15. n \in U
    <2> HIDE DEF U
    <2>. QED
      BY <1>13, <1>14, Counting
  <1>16. Listed(S) \in Seq(S) /\ Len(Listed(S)) = n /\ AllDiffer(Listed(S))
    BY <1>0, <1>12, <1>15
  <1>17. Range(Listed(S)) \subseteq S
    BY <1>16 DEF Range
  <1>18. Range(Listed(S)) = S
    BY <1>1, <1>16, <1>17, FS_Subset DEF AllDiffer
  <1>. QED
    BY <1>16, <1>18
------------------------------------------------------------------------------
(* Proofs and answers *)

IsASequence(s) == s \in Seq(Range(s))

\* A sequence has its elements at 1 to its length.
LEMMA SequenceOfElements ==
    ASSUME NEW s, IsASequence(s)
    PROVE  \E n \in Nat : n = Len(s) /\ DOMAIN s = 1 .. n /\ \A i \in 1 .. n : s[i] \in Range(s)
  BY DEF IsASequence

\* Whatever the elements are of, a sequence is one.
LEMMA AnySequence ==
    ASSUME NEW S, NEW s \in Seq(S)
    PROVE  IsASequence(s)
  <1>1. PICK n \in Nat : n = Len(s) /\ DOMAIN s = 1 .. n /\ s = [i \in 1 .. n |-> s[i]]
    OBVIOUS
  <1>2. \A i \in 1 .. n : s[i] \in Range(s)
    BY <1>1 DEF Range
  <1>. QED
    BY <1>1, <1>2 DEF IsASequence

\* A function of 1 to n is a sequence.
LEMMA FunctionIsASequence ==
    ASSUME NEW n \in Nat, NEW s, DOMAIN s = 1 .. n, s = [i \in 1 .. n |-> s[i]]
    PROVE  IsASequence(s) /\ Len(s) = n
  BY DEF IsASequence, Range

\* The numbers of the proofs of an atom follow those there are.
LEMMA HandlesFollow ==
    ASSUME NEW e, NEW proved, IsASequence(proved),
           NEW before \in Nat, before = Len(e.proofs), NEW atom
    PROVE  /\ HandlesOf(e, proved, atom) \in Seq(before + 1 .. before + Len(proved))
           /\ \A k \in DOMAIN proved :
                  proved[k].of = atom => HandlesOf(e, proved, atom) # <<>>
  <1>1. PICK n \in Nat : n = Len(proved) /\ DOMAIN proved = 1 .. n
    BY SequenceOfElements
  <1>2. PICK K \in SUBSET (1 .. n) : K = {k \in DOMAIN proved : proved[k].of = atom}
    BY <1>1
  <1>3. PICK ks \in Seq(K) : /\ ks = Ascending(K, n)
                             /\ \A k \in K : \E i \in DOMAIN ks : ks[i] = k
    BY AscendingLists
  <1>4. PICK hs : hs = [i \in DOMAIN ks |-> before + ks[i]]
    OBVIOUS
  <1>5. HandlesOf(e, proved, atom) = hs
    BY <1>1, <1>2, <1>3, <1>4, Zenon DEF HandlesOf, Positions
  <1>6. \A i \in DOMAIN ks : before + ks[i] \in before + 1 .. before + n
    <2>1. TAKE i \in DOMAIN ks
    <2>2. i \in 1 .. Len(ks)
      OBVIOUS
    <2>3. ks[i] \in K
      BY <2>2, ElementOfSeq
    <2>4. PICK k \in 1 .. n : k = ks[i]
      BY <2>3
    <2>5. before + k \in before + 1 .. before + n
      OBVIOUS
    <2>. QED
      BY <2>4, <2>5
  <1>7. PICK m \in Nat : DOMAIN ks = 1 .. m
    BY <1>3
  <1>8. hs \in Seq(before + 1 .. before + n)
    BY <1>4, <1>6, <1>7
  <1>9. ASSUME NEW k \in DOMAIN proved, proved[k].of = atom
        PROVE  hs # <<>>
    <2>1. PICK i \in 1 .. m : ks[i] = k
      BY <1>2, <1>3, <1>7, <1>9
    <2>. QED
      BY <1>4, <1>7, <2>1, SMTT(30)
  <1>. QED
    BY <1>1, <1>5, <1>8, <1>9

\* The first proof of an answer is kept.
LEMMA BoundedKeepsFirst ==
    ASSUME NEW S, NEW hs \in Seq(S), hs # <<>>
    PROVE  Bounded(hs) \in Seq(S) /\ Bounded(hs) # <<>> /\ Bounded(hs)[1] = hs[1]
  <1>1. PICK n \in Nat : n = Len(hs) /\ DOMAIN hs = 1 .. n /\ n # 0
    OBVIOUS
  <1>2. PICK M : M = {MaxProofs, n}
    OBVIOUS
  <1>3. M \in SUBSET Nat /\ M # {}
    BY <1>2, BoundAssumption
  <1>4. Min(M) \in M /\ \A k \in M : Min(M) <= k
    <2>1. IsFiniteSet(M)
      <3>1. IsFiniteSet({MaxProofs}) /\ IsFiniteSet({n})
        <4>1. \A x : IsFiniteSet({x})
          BY FS_Singleton
        <4>. QED
          BY <4>1
      <3>2. M = {MaxProofs} \cup {n}
        BY <1>2
      <3>. QED
        BY <3>1, <3>2, FS_Union
    <2>2. \E m \in M : \A k \in M : m <= k
      BY <1>3, <2>1, MinNat
    <2>. QED
      BY <2>2 DEF Min
  <1>5. PICK m \in 1 .. n : m = Min(M)
    BY <1>1, <1>2, <1>4, BoundAssumption
  <1>6. Bounded(hs) = SubSeq(hs, 1, m)
    BY <1>1, <1>2, <1>5, Zenon DEF Bounded
  <1>. QED
    BY <1>1, <1>5, <1>6, SubSeqProperties

\* A sequence over a set is one over a larger set.
LEMMA WiderSequence ==
    ASSUME NEW S, NEW T, S \subseteq T, NEW s \in Seq(S)
    PROVE  s \in Seq(T)
  <1>1. PICK k \in Nat : DOMAIN s = 1 .. k /\ s \in [1 .. k -> S]
    OBVIOUS
  <1>2. s \in [1 .. k -> T]
    BY <1>1
  <1>. QED
    BY <1>1, <1>2

\* One sequence after the other.
LEMMA Concatenated ==
    ASSUME NEW s, IsASequence(s), NEW t, IsASequence(t)
    PROVE  /\ IsASequence(s \o t) /\ Len(s \o t) = Len(s) + Len(t)
           /\ \A i \in 1 .. Len(s) : (s \o t)[i] = s[i]
           /\ \A i \in 1 .. Len(s) + Len(t) :
                  i \notin 1 .. Len(s) => i - Len(s) \in 1 .. Len(t) /\ (s \o t)[i] = t[i - Len(s)]
  <1>1. PICK S : S = Range(s) \cup Range(t)
    OBVIOUS
  <1>2. s \in Seq(S) /\ t \in Seq(S)
    BY <1>1, WiderSequence DEF IsASequence
  <1>3. PICK m \in Nat, n \in Nat : /\ m = Len(s) /\ DOMAIN s = 1 .. m
                                    /\ n = Len(t) /\ DOMAIN t = 1 .. n
    BY <1>2
  <1>4. PICK r \in Seq(S) : r = s \o t
    <2>1. s \o t \in Seq(S)
      BY <1>2, ConcatProperties
    <2>. QED
      BY <2>1
  <1>5. /\ Len(r) = m + n
        /\ \A i \in 1 .. m + n : r[i] = IF i <= m THEN s[i] ELSE t[i - m]
    <2>1. /\ Len(s \o t) = Len(s) + Len(t)
          /\ \A i \in 1 .. Len(s) + Len(t) :
                 (s \o t)[i] = IF i <= Len(s) THEN s[i] ELSE t[i - Len(s)]
      BY <1>2, ConcatProperties
    <2>. QED
      BY <1>3, <1>4, <2>1
  <1>6. IsASequence(r)
    BY AnySequence
  <1>7. \A i \in 1 .. m : r[i] = s[i]
    BY <1>5
  <1>8. \A i \in 1 .. m + n : i \notin 1 .. m => i - m \in 1 .. n /\ r[i] = t[i - m]
    BY <1>5
  <1>. QED
    BY <1>3, <1>4, <1>5, <1>6, <1>7, <1>8

\* Answers with proofs among the first n.
AnswersOver(answers, n) ==
    /\ IsASequence(answers)
    /\ \A i \in 1 .. Len(answers) :
           /\ answers[i] \in [args : {answers[i].args}, proofs : {answers[i].proofs}]
           /\ answers[i].proofs \in Seq(1 .. n) /\ answers[i].proofs # <<>>

\* The answers of t begin with answers, with the same first proofs, and the
\* others are proved first by one of the m proofs after the first n.
GrownTable(t, answers, n, m) ==
    /\ t \in [answers : {t.answers}, delta : {t.delta}]
    /\ AnswersOver(t.answers, n + m)
    /\ Len(answers) <= Len(t.answers)
    /\ \A i \in 1 .. Len(answers) : t.answers[i].proofs[1] = answers[i].proofs[1]
    /\ \A i \in 1 .. Len(t.answers) :
           i \notin 1 .. Len(answers) => t.answers[i].proofs[1] \in n + 1 .. n + m

\* Installing proofs leaves the answers of a table, with their first proofs,
\* and adds answers that are proved first by what is installed.
LEMMA WithProofsGrows ==
    ASSUME NEW e, NEW p, NEW proved, IsASequence(proved),
           NEW before \in Nat, before = Len(e.proofs),
           NEW answers, answers = e.table[p].answers, AnswersOver(answers, before)
    PROVE  GrownTable(WithProofs(e, p, proved), answers, before, Len(proved))
  <1>1. PICK n \in Nat : n = Len(proved) /\ DOMAIN proved = 1 .. n
    BY SequenceOfElements
  <1>2. PICK old \in Nat : old = Len(answers) /\ DOMAIN answers = 1 .. old
    BY SequenceOfElements DEF AnswersOver
  <1>3. PICK K \in SUBSET (1 .. n) :
            K = {k \in DOMAIN proved :
                    /\ proved[k].of[1] = p
                    /\ \A a \in Range(e.table[p].answers) : a.args # proved[k].of[2]
                    /\ \A i \in 1 .. k - 1 : proved[i].of # proved[k].of}
    BY <1>1
  <1>4. PICK new \in Seq(K) : new = Ascending(K, n)
    BY AscendingLists
  <1>5. new = FirstProofs(e, p, proved)
    BY <1>1, <1>3, <1>4, Zenon DEF FirstProofs, Positions
  <1>6. PICK A : A = [i \in 1 .. old |->
                [answers[i] EXCEPT !.proofs = Bounded(@ \o HandlesOf(e, proved, <<p, answers[i].args>>))]]
    OBVIOUS
  <1>7. PICK B : B = [i \in DOMAIN new |->
                [args |-> proved[new[i]].of[2],
                 proofs |-> Bounded(HandlesOf(e, proved, proved[new[i]].of))]]
    OBVIOUS
  <1>8. PICK D : WithProofs(e, p, proved) = [answers |-> A \o B, delta |-> D]
    BY <1>2, <1>5, <1>6, <1>7, Zenon DEF WithProofs
  <1>9. PICK all : all = 1 .. before + n
    OBVIOUS
  <1>10. 1 .. before \subseteq all /\ before + 1 .. before + n \subseteq all
    BY <1>9
  <1>11. \A atom : /\ HandlesOf(e, proved, atom) \in Seq(before + 1 .. before + n)
                   /\ HandlesOf(e, proved, atom) \in Seq(all)
    <2>1. TAKE atom
    <2>2. HandlesOf(e, proved, atom) \in Seq(before + 1 .. before + n)
      BY <1>1, HandlesFollow
    <2>. QED
      BY <1>10, <2>2, WiderSequence
  <1>12. ASSUME NEW i \in 1 .. old
         PROVE  /\ A[i] \in [args : {A[i].args}, proofs : {A[i].proofs}]
                /\ A[i].proofs \in Seq(all) /\ A[i].proofs # <<>>
                /\ A[i].proofs[1] = answers[i].proofs[1]
    <2>1. /\ answers[i] \in [args : {answers[i].args}, proofs : {answers[i].proofs}]
          /\ answers[i].proofs \in Seq(1 .. before) /\ answers[i].proofs # <<>>
      BY <1>2 DEF AnswersOver
    <2>2. PICK h : h = HandlesOf(e, proved, <<p, answers[i].args>>)
      OBVIOUS
    <2>3. h \in Seq(all)
      BY <1>11, <2>2
    <2>4. PICK q \in Seq(all) : q = answers[i].proofs
      BY <1>10, <2>1, WiderSequence
    <2>5. q \o h \in Seq(all) /\ q \o h # <<>> /\ (q \o h)[1] = q[1]
      <3>1. q # <<>>
        BY <2>1, <2>4
      <3>. QED
        BY <2>3, <3>1
    <2>6. PICK r : r = Bounded(q \o h)
      OBVIOUS
    <2>7. r \in Seq(all) /\ r # <<>> /\ r[1] = q[1]
      BY <2>5, <2>6, BoundedKeepsFirst
    <2>8. A[i] = [answers[i] EXCEPT !.proofs = r]
      BY <1>6, <2>2, <2>4, <2>6
    <2>9. A[i].proofs = r /\ A[i] \in [args : {A[i].args}, proofs : {A[i].proofs}]
      BY <2>1, <2>8
    <2>. QED
      BY <2>4, <2>7, <2>9
  <1>13. PICK m \in Nat : m = Len(new) /\ DOMAIN new = 1 .. m
    OBVIOUS
  <1>14. ASSUME NEW i \in 1 .. m
         PROVE  /\ B[i] \in [args : {B[i].args}, proofs : {B[i].proofs}]
                /\ B[i].proofs \in Seq(all) /\ B[i].proofs # <<>>
                /\ B[i].proofs[1] \in before + 1 .. before + n
    <2>1. new[i] \in K
      BY <1>13, ElementOfSeq
    <2>2. PICK k \in DOMAIN proved : k = new[i]
      BY <1>3, <2>1
    <2>3. PICK h : h = HandlesOf(e, proved, proved[k].of)
      OBVIOUS
    <2>4. h \in Seq(before + 1 .. before + n) /\ h \in Seq(all) /\ h # <<>>
      BY <1>11, <2>3, HandlesFollow
    <2>5. PICK r : r = Bounded(h)
      OBVIOUS
    <2>6. r \in Seq(all) /\ r # <<>> /\ r[1] = h[1]
      BY <2>4, <2>5, BoundedKeepsFirst
    <2>7. h[1] \in before + 1 .. before + n
      BY <2>4
    <2>8. B[i] = [args |-> proved[k].of[2], proofs |-> r]
      BY <1>7, <1>13, <2>2, <2>3, <2>5
    <2>. QED
      BY <2>6, <2>7, <2>8
  <1>15. IsASequence(A) /\ Len(A) = old
    BY <1>6, FunctionIsASequence
  <1>16. IsASequence(B) /\ Len(B) = m
    BY <1>7, <1>13, FunctionIsASequence
  <1>17. PICK T : T = A \o B
    OBVIOUS
  <1>18. /\ IsASequence(T) /\ Len(T) = old + m
         /\ \A i \in 1 .. old : T[i] = A[i]
         /\ \A i \in 1 .. old + m : i \notin 1 .. old => i - old \in 1 .. m /\ T[i] = B[i - old]
    BY <1>15, <1>16, <1>17, Concatenated
  <1>19. ASSUME NEW i \in 1 .. old + m
         PROVE  /\ T[i] \in [args : {T[i].args}, proofs : {T[i].proofs}]
                /\ T[i].proofs \in Seq(all) /\ T[i].proofs # <<>>
                /\ i \notin 1 .. old => T[i].proofs[1] \in before + 1 .. before + n
    <2>1. CASE i \in 1 .. old
      BY <1>12, <1>18, <2>1
    <2>2. CASE i \notin 1 .. old
      BY <1>14, <1>18, <2>2
    <2>. QED
      BY <2>1, <2>2
  <1>20. AnswersOver(T, before + n)
    BY <1>9, <1>18, <1>19 DEF AnswersOver
  <1>21. WithProofs(e, p, proved) = [answers |-> T, delta |-> D]
    BY <1>8, <1>17
  <1>22. PICK w : w = WithProofs(e, p, proved)
    OBVIOUS
  <1>23. w.answers = T /\ w \in [answers : {w.answers}, delta : {w.delta}]
    BY <1>21, <1>22
  <1>24. \A i \in 1 .. old : T[i].proofs[1] = answers[i].proofs[1]
    BY <1>12, <1>18
  <1>25. /\ Len(answers) <= Len(T)
         /\ \A i \in 1 .. Len(T) :
                i \notin 1 .. Len(answers) => T[i].proofs[1] \in before + 1 .. before + Len(proved)
    BY <1>1, <1>2, <1>18, <1>19
  <1>26. GrownTable(w, answers, before, Len(proved))
    BY <1>1, <1>2, <1>20, <1>23, <1>24, <1>25, Zenon DEF GrownTable
  <1>. QED
    BY <1>22, <1>26
------------------------------------------------------------------------------
(* What a round proves *)

\* Sequences one after the other are a sequence of their elements.
LEMMA Joined ==
    ASSUME NEW n \in Nat, NEW ss, ss = [i \in 1 .. n |-> ss[i]],
           \A i \in 1 .. n : IsASequence(ss[i])
    PROVE  /\ IsASequence(FlattenSeq(ss))
           /\ \A x \in Range(FlattenSeq(ss)) : \E i \in 1 .. n : x \in Range(ss[i])
           /\ \A i \in 1 .. n : Range(ss[i]) \subseteq Range(FlattenSeq(ss))
  <1>1. PICK S : S = UNION {Range(ss[i]) : i \in 1 .. n}
    OBVIOUS
  <1>2. \A i \in 1 .. n : ss[i] \in Seq(S)
    <2>1. TAKE i \in 1 .. n
    <2>2. Range(ss[i]) \subseteq S
      BY <1>1
    <2>. QED
      BY <2>2, WiderSequence DEF IsASequence
  <1>3. ss \in Seq(Seq(S))
    BY <1>2
  <1>4. PICK r \in Seq(S) : r = FlattenSeq(ss) /\ \A i \in 1 .. n : Range(ss[i]) \subseteq Range(r)
    BY <1>3, Flattened
  <1>5. Range(r) \subseteq S
    BY DEF Range
  <1>6. IsASequence(r)
    BY AnySequence
  <1>. QED
    BY <1>1, <1>4, <1>5, <1>6

\* The positions of some elements.
LEMMA SomePositions ==
    ASSUME NEW seq, IsASequence(seq), NEW K \in SUBSET DOMAIN seq
    PROVE  /\ IsASequence(Ascending(K, Len(seq)))
           /\ \A i \in DOMAIN Ascending(K, Len(seq)) : Ascending(K, Len(seq))[i] \in K
  <1>1. PICK n \in Nat : n = Len(seq) /\ DOMAIN seq = 1 .. n
    BY SequenceOfElements
  <1>2. PICK ks \in Seq(K) : ks = Ascending(K, n)
    BY <1>1, AscendingLists
  <1>3. IsASequence(ks)
    BY AnySequence
  <1>4. \A i \in DOMAIN ks : ks[i] \in K
    OBVIOUS
  <1>. QED
    BY <1>1, <1>2, <1>3, <1>4

\* The rules of an evaluation have goals that tables take.
Taken(c) == IsASequence(c.body) /\ \A g \in GoalsOf(c) : IsTableEligibleGoal(g)

\* The tables a rule looks at are there.
HasTables(e, c) == \A p \in Targets(c) : IsASequence(e.table[p].answers)

\* A goal turns a binding into a sequence of bindings.
LEMMA StepSequence ==
    ASSUME NEW e, NEW c, Taken(c), HasTables(e, c), NEW i \in DOMAIN c.body, NEW pivot, NEW b
    PROVE  IsASequence(Step(e, c, i, pivot, b))
  <1>1. PICK g : g = c.body[i]
    OBVIOUS
  <1>2. g \in GoalsOf(c) /\ IsTableEligibleGoal(g)
    BY <1>1 DEF Taken, GoalsOf
  <1>3. \A x : IsASequence(<<>>) /\ IsASequence(<<x>>)
    <2>1. TAKE x
    <2>2. <<>> \in Seq({x}) /\ <<x>> \in Seq({x})
      OBVIOUS
    <2>. QED
      BY <2>2, AnySequence
  <1>4. CASE g.kind = "call"
    <2>1. PICK table : table = e.table[g.of]
      OBVIOUS
    <2>2. g.of \in Targets(c)
      BY <1>2, <1>4 DEF Targets
    <2>3. IsASequence(table.answers)
      BY <2>1, <2>2 DEF HasTables
    <2>4. PICK K \in SUBSET DOMAIN table.answers :
              K = {k \in DOMAIN table.answers : /\ i = pivot => k \in table.delta
                                                /\ Matches(b.env, g.args, table.answers[k].args)}
      OBVIOUS
    <2>5. PICK ks : ks = Ascending(K, Len(table.answers))
      OBVIOUS
    <2>6. PICK m \in Nat : DOMAIN ks = 1 .. m
      BY <2>3, <2>5, SomePositions, SequenceOfElements
    <2>7. PICK r : r = [n \in DOMAIN ks |->
                          [env |-> Extended(b.env, g.args, table.answers[ks[n]].args),
                           from |-> ProofsOfBoth(b, table.answers[ks[n]])]]
      OBVIOUS
    <2>8. IsASequence(r)
      BY <2>6, <2>7, FunctionIsASequence
    <2>9. Step(e, c, i, pivot, b) = r
      BY <1>1, <1>4, <2>1, <2>4, <2>5, <2>7, ZenonT(40) DEF Step, Positions
    <2>. QED
      BY <2>8, <2>9
  <1>5. CASE g.kind = "not"
    <2>1. Step(e, c, i, pivot, b) = <<>> \/ Step(e, c, i, pivot, b) = <<b>>
      BY <1>1, <1>5, Zenon DEF Step, Positions
    <2>. QED
      BY <1>3, <2>1
  <1>6. CASE g.kind = "where"
    <2>1. Step(e, c, i, pivot, b) = <<>> \/ Step(e, c, i, pivot, b) = <<b>>
      BY <1>1, <1>6, Zenon DEF Step, Positions
    <2>. QED
      BY <1>3, <2>1
  <1>7. CASE g.kind = "assign"
    <2>1. \E x : Step(e, c, i, pivot, b) = <<>> \/ Step(e, c, i, pivot, b) = <<x>>
      BY <1>1, <1>7, Zenon DEF Step, Positions
    <2>. QED
      BY <1>3, <2>1
  <1>. QED
    BY <1>2, <1>4, <1>5, <1>6, <1>7 DEF IsTableEligibleGoal

\* The bindings after each goal of a rule, beginning with none bound.
StartOfBindings == <<[env |-> <<>>, from |-> <<>>]>>
BindingsAfter(e, c, pivot, n, u) ==
    /\ u[0] = StartOfBindings
    /\ \A i \in 1 .. n : /\ IsASequence(u[i - 1]) /\ IsASequence(u[i])
                         /\ u[i] = FlattenSeq([j \in DOMAIN u[i - 1] |->
                                                  Step(e, c, i, pivot, u[i - 1][j])])

\* The bindings that meet all goals of a rule.
LEMMA BindingsFollow ==
    ASSUME NEW e, NEW c, Taken(c), HasTables(e, c), NEW pivot
    PROVE  \E u : /\ BindingsAfter(e, c, pivot, Len(c.body), u)
                  /\ Bindings(e, c, pivot) = u[Len(c.body)]
                  /\ IsASequence(u[Len(c.body)])
  <1> DEFINE More(i, s) == FlattenSeq([n \in DOMAIN s |-> Step(e, c, i, pivot, s[n])])
  <1>1. PICK k \in Nat : k = Len(c.body) /\ DOMAIN c.body = 1 .. k
    BY SequenceOfElements DEF Taken
  <1>2. ASSUME NEW i \in 1 .. k, NEW s, IsASequence(s)
        PROVE  IsASequence(More(i, s))
    <2>1. PICK n \in Nat : DOMAIN s = 1 .. n
      BY <1>2, SequenceOfElements
    <2>2. PICK ss : ss = [j \in 1 .. n |-> Step(e, c, i, pivot, s[j])]
      OBVIOUS
    <2>3. \A j \in 1 .. n : IsASequence(ss[j])
      BY <1>1, <2>2, StepSequence
    <2>4. ss = [j \in 1 .. n |-> ss[j]]
      BY <2>2
    <2>5. IsASequence(FlattenSeq(ss))
      BY <2>3, <2>4, Joined
    <2>. QED
      BY <2>1, <2>2, <2>5, Zenon
  <1> HIDE DEF More
  <1>3. PICK a : a = <<[env |-> <<>>, from |-> <<>>]>> /\ IsASequence(a)
    <2>1. PICK x : x = [env |-> <<>>, from |-> <<>>]
      OBVIOUS
    <2>2. <<x>> \in Seq({x})
      OBVIOUS
    <2>. QED
      BY <2>1, <2>2, AnySequence
  <1> DEFINE Follows(f, m) ==
                 /\ f = [i \in 0 .. m |-> f[i]]
                 /\ f[0] = a
                 /\ \A i \in 1 .. m : f[i] = More(i, f[i - 1])
             G == {m \in 0 .. k : \E f : Follows(f, m)}
  <1>4. 0 \in G
    <2>1. PICK f : f = [i \in 0 .. 0 |-> a]
      OBVIOUS
    <2>2. Follows(f, 0)
      BY <2>1
    <2>. QED
      BY <2>2
  <1>5. ASSUME NEW m \in 0 .. k - 1, m \in G
        PROVE  m + 1 \in G
    <2>1. PICK f : Follows(f, m)
      BY <1>5
    <2>2. PICK g : g = [i \in 0 .. m + 1 |-> IF i = m + 1 THEN More(m + 1, f[m]) ELSE f[i]]
      OBVIOUS
    <2>3. /\ \A i \in 0 .. m : g[i] = f[i]
          /\ g[m + 1] = More(m + 1, f[m])
          /\ g = [i \in 0 .. m + 1 |-> g[i]]
      BY <2>2
    <2>4. ASSUME NEW i \in 1 .. m + 1
          PROVE  g[i] = More(i, g[i - 1])
      <3>1. CASE i = m + 1
        <4>1. i - 1 = m /\ m \in 0 .. m
          BY <3>1
        <4>2. g[i - 1] = f[m]
          BY <2>3, <4>1
        <4>. QED
          BY <2>3, <3>1, <4>2
      <3>2. CASE i # m + 1
        <4>1. i \in 1 .. m /\ i - 1 \in 0 .. m /\ i \in 0 .. m
          BY <3>2
        <4>. QED
          BY <2>1, <2>3, <4>1
      <3>. QED
        BY <3>1, <3>2
    <2>5. g[0] = a
      <3>1. 0 \in 0 .. m
        OBVIOUS
      <3>. QED
        BY <2>1, <2>3, <3>1
    <2>6. Follows(g, m + 1)
      BY <2>3, <2>4, <2>5
    <2>7. m + 1 \in 0 .. k
      OBVIOUS
    <2>. QED
      BY <2>6, <2>7
  <1>6. k \in G
    <2> HIDE DEF G
    <2>. QED
      BY <1>4, <1>5, Counting
  <1>7. PICK f : Follows(f, k)
    BY <1>6
  <1>8. f = [i \in 0 .. k |-> IF i = 0 THEN a ELSE More(i, f[i - 1])]
    <2>1. \A i \in 0 .. k : i # 0 => i \in 1 .. k
      OBVIOUS
    <2>2. \A i \in 0 .. k : f[i] = IF i = 0 THEN a ELSE More(i, f[i - 1])
      BY <1>7, <2>1, Zenon
    <2>. QED
      BY <1>7, <2>2, Zenon
  <1> DEFINE After(u) ==
                 u = [i \in 0 .. Len(c.body) |->
                        IF i = 0 THEN <<[env |-> <<>>, from |-> <<>>]>>
                        ELSE FlattenSeq([n \in DOMAIN u[i - 1] |-> Step(e, c, i, pivot, u[i - 1][n])])]
  <1>13. After(f)
    BY <1>1, <1>3, <1>8, Zenon DEF More
  <1>14. PICK u : After(u) /\ Bindings(e, c, pivot) = u[Len(c.body)]
    BY <1>13, Zenon DEF Bindings
  <1>9. /\ u = [i \in 0 .. k |-> IF i = 0 THEN a ELSE More(i, u[i - 1])]
        /\ Bindings(e, c, pivot) = u[k]
    BY <1>1, <1>3, <1>14, Zenon DEF More
  <1>15. /\ u[0] = a
         /\ \A i \in 1 .. k : u[i] = More(i, u[i - 1])
    <2>1. \A i \in 1 .. k : i \in 0 .. k /\ i # 0
      OBVIOUS
    <2>2. 0 \in 0 .. k
      OBVIOUS
    <2>. QED
      BY <1>9, <2>1, <2>2
  <1> DEFINE U == {i \in 0 .. k : IsASequence(u[i]) /\ \A j \in 0 .. i : IsASequence(u[j])}
  <1>10. 0 \in U
    BY <1>3, <1>15
  <1>11. ASSUME NEW i \in 0 .. k - 1, i \in U
         PROVE  i + 1 \in U
    <2>1. i + 1 \in 1 .. k /\ i + 1 \in 0 .. k /\ i + 1 # 0 /\ (i + 1) - 1 = i
      OBVIOUS
    <2>2. u[i + 1] = More(i + 1, u[i])
      BY <1>15, <2>1
    <2>3. IsASequence(u[i + 1])
      BY <1>2, <1>11, <2>1, <2>2
    <2>4. \A j \in 0 .. i + 1 : j \in 0 .. i \/ j = i + 1
      OBVIOUS
    <2>. QED
      BY <1>11, <2>1, <2>3, <2>4
  <1>12. k \in U
    <2> HIDE DEF U
    <2>. QED
      BY <1>10, <1>11, Counting
  <1>16. \A i \in 1 .. k : IsASequence(u[i - 1]) /\ IsASequence(u[i])
    BY <1>12
  <1>17. \A i \in 1 .. k : u[i] = FlattenSeq([j \in DOMAIN u[i - 1] |->
                                                Step(e, c, i, pivot, u[i - 1][j])])
    BY <1>15, Zenon DEF More
  <1>18. BindingsAfter(e, c, pivot, k, u)
    BY <1>3, <1>15, <1>16, <1>17 DEF BindingsAfter, StartOfBindings
  <1>. QED
    BY <1>1, <1>9, <1>12, <1>18

\* The bindings of a rule are a sequence.
LEMMA BindingsSequence ==
    ASSUME NEW e, NEW c, Taken(c), HasTables(e, c), NEW pivot
    PROVE  IsASequence(Bindings(e, c, pivot))
  BY BindingsFollow

\* Proofs by rules.
ByRules(proofs) == IsASequence(proofs) /\ \A x \in Range(proofs) : x.rule # {}

\* What a rule proves is proved by a rule.
LEMMA RuleProved ==
    ASSUME NEW e, NEW c, Taken(c), HasTables(e, c)
    PROVE  ByRules(Proofs(e, c))
  <1> DEFINE Proved(pivot) == LET found == Bindings(e, c, pivot)
                              IN [k \in DOMAIN found |->
                                    RuleProof(c, Instance(c.args, found[k].env), found[k].from)]
  <1>1. ASSUME NEW pivot
        PROVE  ByRules(Proved(pivot))
    <2>1. PICK found : found = Bindings(e, c, pivot) /\ IsASequence(found)
      BY BindingsSequence
    <2>2. PICK m \in Nat : DOMAIN found = 1 .. m
      BY <2>1, SequenceOfElements
    <2>3. PICK r : r = [k \in 1 .. m |->
                          RuleProof(c, Instance(c.args, found[k].env), found[k].from)]
      OBVIOUS
    <2>4. IsASequence(r)
      BY <2>3, FunctionIsASequence
    <2>5. \A k \in 1 .. m : r[k].rule = {c}
      BY <2>3 DEF RuleProof
    <2>6. \A x \in Range(r) : x.rule # {}
      BY <2>3, <2>5 DEF Range
    <2>7. Proved(pivot) = r
      BY <2>1, <2>2, <2>3, Zenon
    <2>. QED
      BY <2>4, <2>6, <2>7 DEF ByRules
  <1>2. IsASequence(Pivots(e, c))
    <2>1. PICK K \in SUBSET DOMAIN c.body :
              K = {i \in DOMAIN c.body : /\ c.body[i].kind = "call"
                                         /\ e.stratum[c.body[i].of] = e.current
                                         /\ e.table[c.body[i].of].delta # {}}
      OBVIOUS
    <2>2. PICK ks : ks = Ascending(K, Len(c.body)) /\ IsASequence(ks)
      BY SomePositions DEF Taken
    <2>3. Pivots(e, c) = IF ks = <<>> /\ e.first THEN <<0>> ELSE ks
      BY <2>1, <2>2, Zenon DEF Pivots, Positions
    <2>4. IsASequence(<<0>>)
      <3>1. <<0>> \in Seq(Nat)
        OBVIOUS
      <3>. QED
        BY <3>1, AnySequence
    <2>. QED
      BY <2>2, <2>3, <2>4
  <1>3. PICK ps : ps = Pivots(e, c)
    OBVIOUS
  <1>4. PICK n \in Nat : DOMAIN ps = 1 .. n
    BY <1>2, <1>3, SequenceOfElements
  <1> HIDE DEF Proved
  <1>5. PICK ss : ss = [j \in 1 .. n |-> Proved(ps[j])]
    OBVIOUS
  <1>6. Proofs(e, c) = FlattenSeq(ss)
    BY <1>3, <1>4, <1>5, Zenon DEF Proofs, Proved
  <1>7. /\ \A j \in 1 .. n : IsASequence(ss[j]) /\ \A x \in Range(ss[j]) : x.rule # {}
        /\ ss = [j \in 1 .. n |-> ss[j]]
    BY <1>1, <1>5 DEF ByRules
  <1>. QED
    BY <1>6, <1>7, Joined DEF ByRules

\* The rules of a stratum are some of the rules.
LEMMA StratumRulesAreRules ==
    ASSUME NEW e, IsASequence(e.rules)
    PROVE  /\ IsASequence(StratumRules(e))
           /\ \A n \in DOMAIN StratumRules(e) : StratumRules(e)[n] \in Range(e.rules)
  <1>1. PICK K \in SUBSET DOMAIN e.rules :
            K = {k \in DOMAIN e.rules : e.stratum[e.rules[k].head] = e.current}
    OBVIOUS
  <1>2. PICK ks : ks = Ascending(K, Len(e.rules)) /\ IsASequence(ks)
                  /\ \A i \in DOMAIN ks : ks[i] \in K
    BY SomePositions
  <1>3. PICK n \in Nat : DOMAIN ks = 1 .. n
    BY <1>2, SequenceOfElements
  <1>4. PICK rs : rs = [i \in 1 .. n |-> e.rules[ks[i]]]
    OBVIOUS
  <1>5. StratumRules(e) = rs
    BY <1>1, <1>2, <1>3, <1>4, Zenon DEF StratumRules, Positions
  <1>6. IsASequence(rs)
    BY <1>4, FunctionIsASequence
  <1>7. ASSUME NEW i \in 1 .. n
        PROVE  rs[i] \in Range(e.rules)
    <2>1. ks[i] \in DOMAIN e.rules
      BY <1>2, <1>3
    <2>. QED
      BY <1>4, <2>1 DEF Range
  <1>. QED
    BY <1>4, <1>5, <1>6, <1>7

\* What a round proves, it proves by rules.
LEMMA RoundProved ==
    ASSUME NEW e, IsASequence(e.rules),
           \A c \in Range(e.rules) : Taken(c) /\ HasTables(e, c)
    PROVE  ByRules(RoundProofs(e))
  <1>1. PICK rs : rs = StratumRules(e)
    OBVIOUS
  <1>2. PICK n \in Nat : DOMAIN rs = 1 .. n
    BY <1>1, StratumRulesAreRules, SequenceOfElements
  <1>3. PICK ss : ss = [i \in 1 .. n |-> Proofs(e, rs[i])]
    OBVIOUS
  <1>4. RoundProofs(e) = FlattenSeq(ss)
    BY <1>1, <1>2, <1>3, Zenon DEF RoundProofs
  <1>5. \A i \in 1 .. n : ByRules(ss[i])
    BY <1>1, <1>2, <1>3, StratumRulesAreRules, RuleProved
  <1>6. ss = [i \in 1 .. n |-> ss[i]]
    BY <1>3
  <1>. QED
    BY <1>4, <1>5, <1>6, Joined DEF ByRules
------------------------------------------------------------------------------
(* Evaluations *)

EvaluationShape(e) ==
    e \in [root : {e.root}, names : {e.names}, rules : {e.rules},
           hierarchyGeneration : {e.hierarchyGeneration}, generations : {e.generations},
           table : {e.table}, proofs : {e.proofs}, stratum : {e.stratum},
           passes : {e.passes}, current : {e.current}, first : {e.first}, rounds : {e.rounds}]

\* The tables of an evaluation hold answers with its proofs.
Tabled(e) ==
    /\ IsFiniteSet(e.names)
    /\ IsASequence(e.proofs)
    /\ \A p \in e.names :
           /\ e.table[p] \in [answers : {e.table[p].answers}, delta : {e.table[p].delta}]
           /\ AnswersOver(e.table[p].answers, Len(e.proofs))

\* The evaluations are for the same predicate, of the same time.
SameCause(e, f) ==
    /\ f.root = e.root
    /\ f.hierarchyGeneration = e.hierarchyGeneration /\ f.generations = e.generations

\* The evaluations differ in what has been proved only.
SameTask(e, f) ==
    /\ EvaluationShape(f) /\ SameCause(e, f)
    /\ f.names = e.names /\ f.rules = e.rules /\ f.stratum = e.stratum /\ f.passes = e.passes
    /\ f.current = e.current /\ f.first = e.first /\ f.rounds = e.rounds

\* The answers of e are answers of f, with the same first proofs.
Grown(e, f) ==
    \A p \in e.names :
        /\ Len(e.table[p].answers) <= Len(f.table[p].answers)
        /\ \A i \in 1 .. Len(e.table[p].answers) :
               f.table[p].answers[i].proofs[1] = e.table[p].answers[i].proofs[1]

\* Installing proofs keeps the answers and their first proofs, and a new answer
\* is proved first by one of the proofs.
LEMMA Installed ==
    ASSUME NEW e, EvaluationShape(e), Tabled(e), NEW proved, IsASequence(proved)
    PROVE  LET f == Install(e, proved) IN
           /\ SameTask(e, f) /\ Tabled(f) /\ Grown(e, f)
           /\ \A h \in 1 .. Len(e.proofs) : f.proofs[h] = e.proofs[h]
           /\ \A p \in e.names : \A i \in 1 .. Len(f.table[p].answers) :
                  i \notin 1 .. Len(e.table[p].answers) =>
                      f.proofs[f.table[p].answers[i].proofs[1]] \in Range(proved)
  <1>1. PICK T : T = [p \in e.names |-> WithProofs(e, p, proved)]
    OBVIOUS
  <1>2. PICK P : P = e.proofs \o proved
    OBVIOUS
  <1>3. PICK f : f = Install(e, proved)
    OBVIOUS
  <1>4. f = [e EXCEPT !.table = T, !.proofs = P]
    BY <1>1, <1>2, <1>3, Zenon DEF Install
  <1>5. SameTask(e, f) /\ f.table = T /\ f.proofs = P
    BY <1>4 DEF SameTask, SameCause, EvaluationShape
  <1>6. PICK n \in Nat, m \in Nat : /\ n = Len(e.proofs) /\ DOMAIN e.proofs = 1 .. n
                                    /\ m = Len(proved) /\ DOMAIN proved = 1 .. m
    BY SequenceOfElements DEF Tabled
  <1>7. /\ IsASequence(P) /\ Len(P) = n + m
        /\ \A h \in 1 .. n : P[h] = e.proofs[h]
        /\ \A h \in 1 .. n + m : h \notin 1 .. n => h - n \in 1 .. m /\ P[h] = proved[h - n]
    BY <1>2, <1>6, Concatenated DEF Tabled
  <1>8. ASSUME NEW p \in e.names
        PROVE  /\ T[p] \in [answers : {T[p].answers}, delta : {T[p].delta}]
               /\ AnswersOver(T[p].answers, n + m)
               /\ Len(e.table[p].answers) <= Len(T[p].answers)
               /\ \A i \in 1 .. Len(e.table[p].answers) :
                      T[p].answers[i].proofs[1] = e.table[p].answers[i].proofs[1]
               /\ \A i \in 1 .. Len(T[p].answers) :
                      i \notin 1 .. Len(e.table[p].answers) =>
                          T[p].answers[i].proofs[1] \in n + 1 .. n + m
    <2>1. T[p] = WithProofs(e, p, proved)
      BY <1>1
    <2>2. AnswersOver(e.table[p].answers, n)
      BY <1>6 DEF Tabled
    <2>3. GrownTable(T[p], e.table[p].answers, n, m)
      BY <1>6, <2>1, <2>2, WithProofsGrows
    <2>. QED
      BY <2>3 DEF GrownTable
  <1>9. Tabled(f)
    BY <1>5, <1>7, <1>8 DEF Tabled, SameTask
  <1>10. Grown(e, f)
    BY <1>5, <1>8 DEF Grown
  <1>11. ASSUME NEW p \in e.names, NEW i \in 1 .. Len(f.table[p].answers),
                i \notin 1 .. Len(e.table[p].answers)
         PROVE  f.proofs[f.table[p].answers[i].proofs[1]] \in Range(proved)
    <2>1. PICK h \in n + 1 .. n + m : h = f.table[p].answers[i].proofs[1]
      BY <1>5, <1>8, <1>11
    <2>2. h - n \in 1 .. m /\ P[h] = proved[h - n]
      BY <1>7
    <2>3. proved[h - n] \in Range(proved)
      BY <1>6, <2>2 DEF Range
    <2>. QED
      BY <1>5, <2>1, <2>2, <2>3
  <1>. QED
    BY <1>3, <1>5, <1>6, <1>7, <1>9, <1>10, <1>11

\* New answers are forgotten as such, not as answers.
LEMMA DeltaDropped ==
    ASSUME NEW e, EvaluationShape(e), Tabled(e)
    PROVE  LET f == WithoutDelta(e) IN
           /\ SameTask(e, f) /\ Tabled(f) /\ f.proofs = e.proofs
           /\ \A p \in e.names : f.table[p].answers = e.table[p].answers
  <1>1. PICK T : T = [p \in e.names |->
                        IF \E c \in Range(StratumRules(e)) : c.head = p
                        THEN [e.table[p] EXCEPT !.delta = {}] ELSE e.table[p]]
    OBVIOUS
  <1>2. PICK f : f = WithoutDelta(e)
    OBVIOUS
  <1>3. f = [e EXCEPT !.table = T]
    BY <1>1, <1>2, Zenon DEF WithoutDelta
  <1>4. SameTask(e, f) /\ f.table = T /\ f.proofs = e.proofs
    BY <1>3 DEF SameTask, SameCause, EvaluationShape
  <1>5. ASSUME NEW p \in e.names
        PROVE  /\ T[p].answers = e.table[p].answers
               /\ T[p] \in [answers : {T[p].answers}, delta : {T[p].delta}]
    <2>1. e.table[p] \in [answers : {e.table[p].answers}, delta : {e.table[p].delta}]
      BY DEF Tabled
    <2>2. T[p] = [e.table[p] EXCEPT !.delta = {}] \/ T[p] = e.table[p]
      BY <1>1, Zenon
    <2>. QED
      BY <2>1, <2>2
  <1>6. Tabled(f)
    BY <1>4, <1>5 DEF Tabled, SameTask
  <1>. QED
    BY <1>2, <1>4, <1>5, <1>6

\* The places of answers.
Places(e) == UNION {{p} \X DOMAIN e.table[p].answers : p \in e.names}

\* An evaluation has finitely many answers.
LEMMA PlacesFinite ==
    ASSUME NEW e, Tabled(e)
    PROVE  /\ IsFiniteSet(Places(e)) /\ Cardinality(Places(e)) \in Nat
           /\ Derived(e) \subseteq Places(e)
           /\ IsFiniteSet(Derived(e)) /\ Cardinality(Derived(e)) \in Nat
  <1>1. PICK f : f = [p \in e.names |-> {p} \X DOMAIN e.table[p].answers]
    OBVIOUS
  <1>2. ASSUME NEW p \in e.names
        PROVE  IsFiniteSet({p} \X DOMAIN e.table[p].answers)
    <2>1. PICK n \in Nat : DOMAIN e.table[p].answers = 1 .. n
      BY SequenceOfElements DEF Tabled, AnswersOver
    <2>2. IsFiniteSet(1 .. n)
      BY FS_Interval
    <2>3. IsFiniteSet({p})
      BY FS_Singleton
    <2>. QED
      BY <2>1, <2>2, <2>3, FS_Product
  <1>3. PICK F : F = {f[p] : p \in e.names}
    OBVIOUS
  <1>4. IsFiniteSet(F)
    BY <1>3, ImageFinite DEF Tabled
  <1>5. \A S \in F : IsFiniteSet(S)
    BY <1>1, <1>2, <1>3
  <1>6. IsFiniteSet(UNION F)
    BY <1>4, <1>5, FS_UNION
  <1>7. Places(e) = UNION F
    BY <1>1, <1>3 DEF Places
  <1>8. Derived(e) \subseteq Places(e)
    <2>1. PICK g : g = [p \in e.names |->
                          {<<p, i>> : i \in {j \in DOMAIN e.table[p].answers :
                              e.proofs[e.table[p].answers[j].proofs[1]].rule # {}}}]
      OBVIOUS
    <2>2. Derived(e) = UNION {g[p] : p \in e.names}
      BY <2>1, Zenon DEF Derived
    <2>3. ASSUME NEW p \in e.names
          PROVE  g[p] \subseteq {p} \X DOMAIN e.table[p].answers
      <3>1. PICK J : J = {j \in DOMAIN e.table[p].answers :
                             e.proofs[e.table[p].answers[j].proofs[1]].rule # {}}
        OBVIOUS
      <3>2. J \subseteq DOMAIN e.table[p].answers
        BY <3>1, Zenon
      <3>3. g[p] = {<<p, i>> : i \in J}
        BY <2>1, <3>1, Zenon
      <3>. QED
        BY <3>2, <3>3
    <2>. QED
      BY <2>2, <2>3 DEF Places
  <1>. QED
    BY <1>6, <1>7, <1>8, FS_Subset, FS_CardinalityType

\* The answer in a place was proved by a rule first.
ByRule(e, p, i) ==
    /\ p \in e.names
    /\ i \in DOMAIN e.table[p].answers
    /\ e.proofs[e.table[p].answers[i].proofs[1]].rule # {}

\* The answers derived are the places whose answers a rule proved first.
LEMMA DerivedIs ==
    ASSUME NEW e
    PROVE  /\ \A x \in Derived(e) : \E p, i : ByRule(e, p, i) /\ x = <<p, i>>
           /\ \A p, i : ByRule(e, p, i) <=> <<p, i>> \in Derived(e)
  <1> DEFINE Ruled(p) == {j \in DOMAIN e.table[p].answers :
                            e.proofs[e.table[p].answers[j].proofs[1]].rule # {}}
             S(p) == {<<p, i>> : i \in Ruled(p)}
  <1>1. Derived(e) = UNION {S(p) : p \in e.names}
    BY Zenon DEF Derived
  <1>2. \A p, i : <<p, i>> \in S(p) <=> i \in Ruled(p)
    OBVIOUS
  <1>3. \A q, x : x \in S(q) => \E i \in Ruled(q) : x = <<q, i>>
    OBVIOUS
  <1> HIDE DEF S
  <1>4. \A x : x \in Derived(e) <=> \E p \in e.names : x \in S(p)
    BY <1>1
  <1>5. ASSUME NEW x \in Derived(e)
        PROVE  \E p, i : ByRule(e, p, i) /\ x = <<p, i>>
    <2>1. PICK p \in e.names : x \in S(p)
      BY <1>4
    <2>2. PICK i \in Ruled(p) : x = <<p, i>>
      BY <1>3, <2>1
    <2>. QED
      BY <2>2 DEF ByRule
  <1>6. ASSUME NEW p, NEW i, ByRule(e, p, i)
        PROVE  <<p, i>> \in Derived(e)
    BY <1>2, <1>4, <1>6 DEF ByRule
  <1>7. ASSUME NEW p, NEW i, <<p, i>> \in Derived(e)
        PROVE  ByRule(e, p, i)
    <2>1. PICK q, j : ByRule(e, q, j) /\ <<p, i>> = <<q, j>>
      BY <1>5, <1>7
    <2>2. p = q /\ i = j
      BY <2>1
    <2>. QED
      BY <2>1, <2>2
  <1>. QED
    BY <1>5, <1>6, <1>7

\* Strata, passes and rounds are no part of what is derived.
LEMMA SameDerived ==
    ASSUME NEW e, NEW f, f.names = e.names, f.table = e.table, f.proofs = e.proofs
    PROVE  Derived(f) = Derived(e)
  <1>1. \A p, i : ByRule(e, p, i) <=> ByRule(f, p, i)
    BY DEF ByRule
  <1>2. /\ \A x \in Derived(e) : \E p, i : ByRule(e, p, i) /\ x = <<p, i>>
        /\ \A p, i : ByRule(e, p, i) <=> <<p, i>> \in Derived(e)
    BY DerivedIs
  <1>3. /\ \A x \in Derived(f) : \E p, i : ByRule(f, p, i) /\ x = <<p, i>>
        /\ \A p, i : ByRule(f, p, i) <=> <<p, i>> \in Derived(f)
    BY DerivedIs
  <1>4. Derived(e) \subseteq Derived(f)
    BY <1>1, <1>2, <1>3
  <1>5. Derived(f) \subseteq Derived(e)
    BY <1>1, <1>2, <1>3
  <1>. QED
    BY <1>4, <1>5

\* What has been derived stays derived.
LEMMA DerivedKept ==
    ASSUME NEW e, Tabled(e), NEW f, Tabled(f), f.names = e.names, Grown(e, f),
           \A h \in 1 .. Len(e.proofs) : f.proofs[h] = e.proofs[h]
    PROVE  Derived(e) \subseteq Derived(f) /\ Cardinality(Derived(e)) <= Cardinality(Derived(f))
  <1>1. ASSUME NEW p, NEW i, ByRule(e, p, i)
        PROVE  ByRule(f, p, i)
    <2>0. /\ p \in e.names /\ i \in DOMAIN e.table[p].answers
          /\ e.proofs[e.table[p].answers[i].proofs[1]].rule # {}
      BY <1>1 DEF ByRule
    <2>1. PICK m \in Nat, n \in Nat : /\ m = Len(e.table[p].answers)
                                      /\ DOMAIN e.table[p].answers = 1 .. m
                                      /\ n = Len(f.table[p].answers)
                                      /\ DOMAIN f.table[p].answers = 1 .. n
      <3>1. IsASequence(e.table[p].answers) /\ IsASequence(f.table[p].answers)
        BY <2>0 DEF Tabled, AnswersOver
      <3>. QED
        BY <3>1, SequenceOfElements
    <2>2. m <= n /\ f.table[p].answers[i].proofs[1] = e.table[p].answers[i].proofs[1]
      BY <2>0, <2>1 DEF Grown
    <2>3. PICK hs \in Seq(1 .. Len(e.proofs)) : hs = e.table[p].answers[i].proofs /\ hs # <<>>
      <3>1. AnswersOver(e.table[p].answers, Len(e.proofs)) /\ i \in 1 .. Len(e.table[p].answers)
        BY <2>0, <2>1 DEF Tabled
      <3>. QED
        BY <3>1 DEF AnswersOver
    <2>4. hs[1] \in 1 .. Len(e.proofs)
      BY <2>3
    <2>5. f.proofs[hs[1]] = e.proofs[hs[1]]
      BY <2>4
    <2>6. f.table[p].answers[i].proofs[1] = hs[1] /\ e.table[p].answers[i].proofs[1] = hs[1]
      BY <2>2, <2>3
    <2>7. i \in DOMAIN f.table[p].answers
      <3>1. i \in 1 .. m
        BY <2>0, <2>1
      <3>2. i \in 1 .. n
        BY <2>2, <3>1
      <3>. QED
        BY <2>1, <3>2
    <2>. QED
      BY <2>0, <2>5, <2>6, <2>7 DEF ByRule
  <1>2. Derived(e) \subseteq Derived(f)
    <2>1. ASSUME NEW x \in Derived(e)
          PROVE  x \in Derived(f)
      <3>1. PICK p, i : ByRule(e, p, i) /\ x = <<p, i>>
        BY DerivedIs
      <3>2. ByRule(f, p, i)
        BY <1>1, <3>1
      <3>. QED
        BY <3>1, <3>2, DerivedIs
    <2>. QED
      BY <2>1
  <1>. QED
    BY <1>2, PlacesFinite, FS_Subset

\* A round derives something new or is the last of its stratum.
LEMMA RoundDerives ==
    ASSUME NEW e, EvaluationShape(e), Tabled(e), RulesOver(e.names, e.rules),
           \A c \in Range(e.rules) : Taken(c)
    PROVE  LET f == AfterRound(e, RoundProofs(e)) IN
           /\ EvaluationShape(f) /\ Tabled(f) /\ SameCause(e, f)
           /\ f.names = e.names /\ f.rules = e.rules /\ f.stratum = e.stratum
           /\ f.passes = e.passes /\ f.rounds = e.rounds + 1
           /\ \/ f.current = e.current /\ Cardinality(Derived(e)) < Cardinality(Derived(f))
              \/ f.current = e.current + 1 /\ Cardinality(Derived(e)) <= Cardinality(Derived(f))
  <1>1. PICK proved : proved = RoundProofs(e)
    OBVIOUS
  <1>2. ByRules(proved)
    <2>1. ASSUME NEW c \in Range(e.rules)
          PROVE  HasTables(e, c)
      <3>1. Targets(c) \subseteq e.names
        BY DEF RulesOver
      <3>. QED
        BY <3>1 DEF HasTables, Tabled, AnswersOver
    <2>2. IsASequence(e.rules)
      BY DEF RulesOver, IsASequence
    <2>. QED
      BY <1>1, <2>1, <2>2, RoundProved
  <1>3. PICK d : d = WithoutDelta(e)
    OBVIOUS
  <1>4. /\ SameTask(e, d) /\ Tabled(d) /\ d.proofs = e.proofs
        /\ \A p \in e.names : d.table[p].answers = e.table[p].answers
    BY <1>3, DeltaDropped
  <1>5. PICK a : a = Install(d, proved)
    OBVIOUS
  <1>6. /\ SameTask(d, a) /\ Tabled(a) /\ Grown(d, a)
        /\ \A h \in 1 .. Len(d.proofs) : a.proofs[h] = d.proofs[h]
        /\ \A p \in d.names : \A i \in 1 .. Len(a.table[p].answers) :
               i \notin 1 .. Len(d.table[p].answers) =>
                   a.proofs[a.table[p].answers[i].proofs[1]] \in Range(proved)
    <2>1. EvaluationShape(d) /\ IsASequence(proved)
      BY <1>2, <1>4 DEF SameTask, ByRules
    <2>. QED
      BY <1>4, <1>5, <2>1, Installed
  <1>7. /\ a.names = e.names /\ Grown(e, a)
        /\ \A h \in 1 .. Len(e.proofs) : a.proofs[h] = e.proofs[h]
        /\ \A p \in e.names : \A i \in 1 .. Len(a.table[p].answers) :
               i \notin 1 .. Len(e.table[p].answers) =>
                   a.proofs[a.table[p].answers[i].proofs[1]] \in Range(proved)
    <2>1. d.names = e.names /\ a.names = d.names /\ d.proofs = e.proofs
      BY <1>4, <1>6 DEF SameTask
    <2>2. \A p \in e.names : d.table[p].answers = e.table[p].answers
      BY <1>4
    <2>3. Grown(e, a)
      BY <1>6, <2>1, <2>2 DEF Grown
    <2>. QED
      BY <1>6, <2>1, <2>2, <2>3
  <1>8. Derived(e) \subseteq Derived(a) /\ Cardinality(Derived(e)) <= Cardinality(Derived(a))
    BY <1>6, <1>7, DerivedKept
  <1>9. PICK B : B = Progress(e, proved, a)
    OBVIOUS
  <1>10. ASSUME B
         PROVE  Cardinality(Derived(e)) < Cardinality(Derived(a))
    <2>1. Cardinality(Places(a)) > Cardinality(Places(e))
      BY <1>9, <1>10, Zenon DEF Progress, Size, Places
    <2>2. PICK p \in e.names : DOMAIN a.table[p].answers # DOMAIN e.table[p].answers
      <3> SUFFICES ASSUME \A p \in e.names : DOMAIN a.table[p].answers = DOMAIN e.table[p].answers
                   PROVE  FALSE
        OBVIOUS
      <3>1. Places(a) = Places(e)
        BY <1>7 DEF Places
      <3>. QED
        BY <2>1, <3>1, PlacesFinite
    <2>3. PICK m \in Nat, n \in Nat : /\ m = Len(e.table[p].answers)
                                      /\ DOMAIN e.table[p].answers = 1 .. m
                                      /\ n = Len(a.table[p].answers)
                                      /\ DOMAIN a.table[p].answers = 1 .. n
      <3>1. PICK m \in Nat : m = Len(e.table[p].answers) /\ DOMAIN e.table[p].answers = 1 .. m
        BY SequenceOfElements DEF Tabled, AnswersOver
      <3>2. p \in a.names
        BY <1>7 DEF Grown
      <3>3. PICK n \in Nat : n = Len(a.table[p].answers) /\ DOMAIN a.table[p].answers = 1 .. n
        BY <1>6, <1>7, <3>2, SequenceOfElements DEF Tabled, AnswersOver
      <3>. QED
        BY <3>1, <3>3
    <2>4. m <= n /\ m # n
      BY <1>7, <2>2, <2>3 DEF Grown
    <2>5. n \in 1 .. n /\ n \notin 1 .. m
      BY <2>4
    <2>6. a.proofs[a.table[p].answers[n].proofs[1]].rule # {}
      BY <1>2, <1>7, <2>3, <2>5 DEF ByRules
    <2>7. <<p, n>> \in Derived(a)
      <3>1. ByRule(a, p, n)
        BY <1>7, <2>3, <2>5, <2>6 DEF ByRule
      <3>. QED
        BY <3>1, DerivedIs
    <2>8. <<p, n>> \notin Derived(e)
      <3>1. ~ByRule(e, p, n)
        BY <2>3, <2>5 DEF ByRule
      <3>. QED
        BY <3>1, DerivedIs
    <2>9. Cardinality(Derived(e)) # Cardinality(Derived(a))
      BY <1>6, <1>8, <2>7, <2>8, PlacesFinite, FS_Subset
    <2>10. Cardinality(Derived(e)) \in Nat /\ Cardinality(Derived(a)) \in Nat
      BY <1>6, PlacesFinite
    <2>. QED
      BY <1>8, <2>9, <2>10
  <1>11. PICK f : f = AfterRound(e, RoundProofs(e))
    OBVIOUS
  <1>12. f = [a EXCEPT !.rounds = @ + 1, !.first = ~B, !.current = IF B THEN @ ELSE @ + 1]
    BY <1>1, <1>3, <1>5, <1>9, <1>11, Zenon DEF AfterRound
  <1>13. /\ EvaluationShape(f) /\ SameCause(a, f)
         /\ f.names = a.names /\ f.rules = a.rules /\ f.stratum = a.stratum
         /\ f.passes = a.passes /\ f.table = a.table /\ f.proofs = a.proofs
         /\ f.rounds = a.rounds + 1
         /\ f.current = IF B THEN a.current ELSE a.current + 1
    <2>1. EvaluationShape(a)
      BY <1>6 DEF SameTask
    <2>. QED
      BY <1>12, <2>1 DEF EvaluationShape, SameCause
  <1>14. Tabled(f) /\ Derived(f) = Derived(a)
    BY <1>6, <1>13 DEF Tabled, Derived
  <1>15. CASE B
    BY <1>4, <1>6, <1>8, <1>10, <1>11, <1>13, <1>14, <1>15 DEF SameTask, SameCause
  <1>16. CASE ~B
    BY <1>4, <1>6, <1>8, <1>11, <1>13, <1>14, <1>16 DEF SameTask, SameCause
  <1>. QED
    BY <1>15, <1>16
------------------------------------------------------------------------------
(* The evaluation from its start *)

Good(cs) == cs \subseteq Clause /\ IsStratified({}, cs)

\* The rules are over the names of the evaluation and have goals for tables.
Prepared(e) ==
    /\ IsFiniteSet(e.names)
    /\ RulesOver(e.names, e.rules)
    /\ \A c \in Range(e.rules) : Taken(c)

\* After k passes, the strata s are the levels l or k of them are.
Advanced(N, s, k, l) ==
    /\ Below(N, s, l)
    /\ s = l \/ k <= Cardinality({p \in N : s[p] = l[p]})

Levelled(e) ==
    /\ e.stratum \in [e.names -> Nat]
    /\ e.passes \in Nat
    /\ \E l : Level(e.names, e.rules, l) /\ Advanced(e.names, e.stratum, e.passes, l)

\* The rounds are paid for.
Counted(e) ==
    /\ e.rounds \in Nat /\ e.current \in Nat
    /\ e.rounds <= Cardinality(Derived(e)) + e.current

\* The evaluation of a predicate by the clauses cs, as it starts.
Started(cs, of, e) ==
    /\ EvaluationShape(e)
    /\ e.names = NamesOf(cs, of)
    /\ e.rules = Listed({c \in Relational(cs) : c.head \in NamesOf(cs, of)})
    /\ e.table = [p \in NamesOf(cs, of) |-> NoTable]
    /\ e.proofs = <<>>
    /\ e.stratum = [p \in NamesOf(cs, of) |-> 0]
    /\ e.passes = 0 /\ e.current = 0 /\ e.rounds = 0

\* A good program has levels for the strata of whatever may be evaluated.
LEMMA WellStarted ==
    ASSUME NEW cs, Good(cs), NEW of, IsTableEligible(cs, of), NEW e, Started(cs, of, e)
    PROVE  Prepared(e) /\ Tabled(e) /\ Levelled(e) /\ Counted(e)
  <1> DEFINE N == NamesOf(cs, of)
             R == {c \in Relational(cs) : c.head \in N}
  <1>1. /\ e.names = N /\ e.rules = Listed(R)
        /\ e.table = [p \in N |-> NoTable] /\ e.proofs = <<>>
        /\ e.stratum = [p \in N |-> 0]
        /\ e.passes = 0 /\ e.current = 0 /\ e.rounds = 0
    BY Zenon DEF Started
  <1>2. cs \subseteq Clause /\ IsStratified({}, cs)
    BY DEF Good
  <1>3. /\ IsFiniteSet(N) /\ Closed(Relational(cs), N) /\ N \subseteq Reached(cs, {of})
    BY <1>2, NamesClosed
  <1> HIDE DEF N
  <1>4. PICK rules : rules = Listed(R) /\ rules \in Seq(R)
    <2>1. IsFiniteSet(cs)
      BY <1>2, ClauseAssumption, FS_Subset
    <2>2. IsFiniteSet(R)
      <3>1. R \subseteq cs
        BY DEF Relational
      <3>. QED
        BY <2>1, <3>1, FS_Subset
    <2>. QED
      BY <2>2, ListedIn
  <1>5. Range(rules) \subseteq R
    BY <1>4 DEF Range
  <1>6. RulesOver(N, rules)
    <2>1. IsASequence(rules)
      BY <1>4, AnySequence
    <2>2. ASSUME NEW c \in Range(rules)
          PROVE  c.head \in N /\ Targets(c) \subseteq N /\ IsFiniteSet(GoalsOf(c))
      <3>1. c \in cs /\ c.head \in N
        BY <1>5 DEF Relational
      <3>2. c \in Relational(cs)
        BY <1>5
      <3>3. IsFiniteSet({of})
        BY FS_Singleton
      <3>4. IsFiniteSet(GoalsOf(c))
        BY <1>2, <3>1, <3>3, ReachedFinite
      <3>. QED
        BY <1>3, <3>1, <3>2, <3>4 DEF Closed
    <2>. QED
      BY <2>1, <2>2 DEF RulesOver, IsASequence
  <1>7. ASSUME NEW c \in Range(rules)
        PROVE  Taken(c)
    <2>1. c \in cs /\ c.head \in Reached(cs, {of}) /\ c \in Clause
      BY <1>2, <1>3, <1>5 DEF Relational
    <2>2. \A g \in GoalsOf(c) : IsTableEligibleGoal(g)
      BY <2>1 DEF IsTableEligible
    <2>3. c.body \in Seq(GoalsOf(c))
      BY <2>1, ClauseAssumption
    <2>4. IsASequence(c.body)
      BY <2>3, AnySequence
    <2>. QED
      BY <2>2, <2>4 DEF Taken
  <1>8. Prepared(e)
    BY <1>1, <1>3, <1>4, <1>6, <1>7 DEF Prepared
  <1>9. PICK l : Level(N, rules, l)
    <2>1. Range(rules) \subseteq Relational(cs)
      BY <1>5 DEF Relational
    <2>2. \E t : Solves(N, rules, t)
      BY <1>2, <1>6, <2>1, StrataExist
    <2>. QED
      BY <1>3, <2>2, LevelExists
  <1>10. Levelled(e)
    <2>1. l \in [N -> Nat]
      BY <1>9 DEF Level, Solves
    <2>2. PICK s : s = [p \in N |-> 0]
      OBVIOUS
    <2>3. s \in [N -> Nat] /\ Below(N, s, l)
      BY <2>1, <2>2 DEF Below
    <2>4. PICK S \in SUBSET N : S = {p \in N : s[p] = l[p]}
      OBVIOUS
    <2>5. Cardinality(S) \in Nat
      BY <1>3, FS_Subset, FS_CardinalityType
    <2>6. Advanced(N, s, 0, l)
      BY <2>3, <2>4, <2>5 DEF Advanced
    <2>7. e.stratum = s /\ e.names = N /\ e.rules = rules /\ e.passes = 0
      BY <1>1, <1>4, <2>2
    <2>. QED
      BY <1>9, <2>3, <2>6, <2>7 DEF Levelled
  <1>11. Tabled(e)
    <2>1. <<>> \in Seq({})
      OBVIOUS
    <2>2. IsASequence(<<>>) /\ Len(<<>>) = 0
      BY <2>1, AnySequence
    <2>3. AnswersOver(<<>>, 0)
      BY <2>2 DEF AnswersOver
    <2>4. ASSUME NEW p \in N
          PROVE  /\ e.table[p].answers = <<>>
                 /\ e.table[p] \in [answers : {e.table[p].answers}, delta : {e.table[p].delta}]
      <3>1. e.table[p] = [answers |-> <<>>, delta |-> {}]
        BY <1>1 DEF NoTable
      <3>. QED
        BY <3>1
    <2>5. \A p \in N : AnswersOver(e.table[p].answers, Len(e.proofs))
      BY <1>1, <2>2, <2>3, <2>4
    <2>. QED
      BY <1>1, <1>3, <2>2, <2>4, <2>5 DEF Tabled
  <1>12. Counted(e)
    BY <1>1, <1>11, PlacesFinite DEF Counted
  <1>. QED
    BY <1>8, <1>10, <1>11, <1>12

\* A pass after which something has changed was not a pass too many, and the
\* strata remain below their levels.
LEMMA PassCounted ==
    ASSUME NEW e, Prepared(e), Levelled(e), NEW f,
           f.names = e.names, f.rules = e.rules,
           f.stratum = AfterPass(e.stratum, e.rules), f.passes = e.passes + 1
    PROVE  /\ Levelled(f)
           /\ f.stratum # e.stratum => e.passes # Cardinality(e.names)
  <1>1. PICK N, rules, s, t, k :
            /\ N = e.names /\ rules = e.rules /\ s = e.stratum
            /\ t = AfterPass(s, rules) /\ k = e.passes
    OBVIOUS
  <1>2. IsFiniteSet(N) /\ RulesOver(N, rules) /\ s \in [N -> Nat] /\ k \in Nat
    BY <1>1 DEF Prepared, Levelled
  <1>3. PICK l : /\ Level(N, rules, l) /\ Below(N, s, l)
                 /\ s = l \/ k <= Cardinality({p \in N : s[p] = l[p]})
    BY <1>1 DEF Levelled, Advanced
  <1>4. l \in [N -> Nat] /\ \A c \in Range(rules) : Meets(l, c)
    BY <1>3 DEF Level, Solves
  <1>5. t \in [N -> Nat] /\ Below(N, s, t) /\ Below(N, t, l)
    BY <1>1, <1>2, <1>3, <1>4, PassLevels
  <1>6. \A p \in N : /\ s[p] \in Nat /\ t[p] \in Nat /\ l[p] \in Nat
                     /\ s[p] <= t[p] /\ t[p] <= l[p]
    BY <1>2, <1>4, <1>5 DEF Below
  <1>7. f.stratum = t /\ f.names = N /\ f.rules = rules /\ f.passes = k + 1
    BY <1>1
  <1>8. CASE s = l
    <2>1. \A p \in N : t[p] = l[p]
      BY <1>6, <1>8
    <2>2. t = l
      BY <1>4, <1>5, <2>1
    <2>3. Advanced(N, t, k + 1, l)
      BY <1>5, <2>2 DEF Advanced
    <2>. QED
      BY <1>1, <1>2, <1>3, <1>5, <1>7, <1>8, <2>2, <2>3 DEF Levelled
  <1>9. CASE s # l
    <2>1. PICK p \in N : s[p] # l[p] /\ t[p] = l[p]
      BY <1>1, <1>2, <1>3, <1>9, PassReaches
    <2>2. PICK S \in SUBSET N : S = {q \in N : s[q] = l[q]}
      OBVIOUS
    <2>3. PICK T \in SUBSET N : T = {q \in N : t[q] = l[q]}
      OBVIOUS
    <2>4. S \subseteq T /\ p \in T /\ p \notin S
      BY <1>6, <2>1, <2>2, <2>3
    <2>5. IsFiniteSet(T) /\ IsFiniteSet(S)
      BY <1>2, FS_Subset
    <2>6. Cardinality(S) \in Nat /\ Cardinality(T) \in Nat /\ Cardinality(N) \in Nat
      BY <1>2, <2>5, FS_CardinalityType
    <2>7. Cardinality(S) <= Cardinality(T) /\ Cardinality(S) # Cardinality(T)
      BY <2>4, <2>5, FS_Subset
    <2>8. Cardinality(T) <= Cardinality(N)
      BY <1>2, FS_Subset
    <2>9. k + 1 <= Cardinality(T) /\ k # Cardinality(N)
      BY <1>2, <1>3, <1>9, <2>2, <2>6, <2>7, <2>8
    <2>10. Advanced(N, t, k + 1, l)
      BY <1>5, <2>3, <2>9 DEF Advanced
    <2>. QED
      BY <1>1, <1>2, <1>3, <1>5, <1>7, <2>9, <2>10 DEF Levelled
  <1>. QED
    BY <1>8, <1>9

------------------------------------------------------------------------------
(* The session *)

AskedShape(w) ==
    w \in [phase : {w.phase}, query : {w.query}, prove : {w.prove}, side : {w.side},
           of : {w.of}, found : {w.found}, facts : {w.facts}]

BuildShape(w) ==
    w \in [phase : {w.phase}, query : {w.query}, prove : {w.prove}, side : {w.side},
           of : {w.of}, found : {w.found}, facts : {w.facts}, toLoad : {w.toLoad}, e : {w.e}]

Asking(w) == AskedShape(w) /\ w.phase \in {"lookup", "collect"}

Evaluating(w) ==
    /\ BuildShape(w)
    /\ w.phase \in {"load", "strata", "rounds"}
    /\ EvaluationShape(w.e)
    /\ Prepared(w.e)
    /\ Tabled(w.e)
    /\ Counted(w.e)
    /\ w.phase # "rounds" => Levelled(w.e)

\* The program, and the one a rollback brings back, have been validated, and
\* facts and lineage are known.
Known(facts, pairs) == facts \subseteq Facts /\ pairs \subseteq Subtype
SessionGood ==
    /\ Good(program) /\ Known(store, lineage)
    /\ loading # NotLoading => Good(loading.program) /\ Known(loading.store, loading.lineage)

WorkGood == work = Idle \/ Asking(work) \/ Evaluating(work)

IInv == SessionGood /\ WorkGood

\* A session starts with nothing to answer and validated programs.
LEMMA Starts ==
    ASSUME Init
    PROVE  IInv
  <1>1. Good(program) /\ Known(store, lineage)
    BY ProgramAssumption DEF Init, Good, Known, Facts
  <1>. QED
    BY <1>1 DEF Init, IInv, SessionGood, WorkGood

\* What changes the program, the facts or a module's load.
LEMMA SessionSteps ==
    ASSUME IInv, Next
    PROVE  SessionGood'
  <1> USE DEF IInv, SessionGood
  <1>1. ASSUME UNCHANGED <<program, store, lineage, loading>>
        PROVE  SessionGood'
    BY <1>1
  <1>2. ASSUME NEW f \in NewFact, PublishFact(f) \/ DeleteFact(f)
        PROVE  SessionGood'
    <2>1. f \in Facts
      BY DEF Facts
    <2>2. Known(store', lineage') /\ program' = program /\ loading' = loading
      BY <1>2, <2>1 DEF PublishFact, DeleteFact, Known
    <2>. QED
      BY <2>2
  <1>3. ASSUME NEW c \in Clause, AddClause(c)
        PROVE  SessionGood'
    <2>1. IsStratified(program, {c}) /\ program' = program \cup {c}
          /\ store' = store /\ lineage' = lineage /\ loading' = loading
      BY <1>3 DEF AddClause
    <2>2. {} \cup (program \cup {c}) = program \cup {c}
      OBVIOUS
    <2>3. IsStratified({}, program \cup {c})
      BY <2>1, <2>2 DEF IsStratified
    <2>. QED
      BY <2>1, <2>3 DEF Good
  <1>4. CASE BeginModule
    <2>1. /\ loading'.program = program /\ loading'.store = store
          /\ loading'.lineage = lineage
          /\ program' = program /\ store' = store /\ lineage' = lineage
      BY <1>4 DEF BeginModule, state
    <2>. QED
      BY <2>1
  <1>5. CASE CommitModule
    BY <1>5 DEF CommitModule, state
  <1>6. CASE RollbackModule
    BY <1>6 DEF RollbackModule
  <1>8. ASSUME NEW pair \in Subtype, ExtendType(pair)
        PROVE  SessionGood'
    BY <1>8 DEF ExtendType, Known
  <1>7. ASSUME \/ \E pair \in Contrary : RegisterContrary(pair)
               \/ BeginBatch \/ EndBatch
               \/ \E query \in Query, prove \in BOOLEAN : Ask(query, prove)
               \/ Find \/ Refuse \/ StartBuild \/ Build \/ Collect \/ Answer
        PROVE  SessionGood'
    <2>1. UNCHANGED <<program, store, lineage, loading>>
      BY <1>7 DEF RegisterContrary, BeginBatch, EndBatch, Ask, Find, Refuse, StartBuild,
                  Build, LoadFacts, LayStrata, PassStrata, Round, SkipStratum, KeepTables, Collect,
                  Answer, state
    <2>. QED
      BY <1>1, <2>1
  <1>. QED
    BY <1>2, <1>3, <1>4, <1>5, <1>6, <1>7, <1>8 DEF Next

\* Asking and collecting.
LEMMA AskingSteps ==
    ASSUME IInv,
           \/ \E query \in Query, prove \in BOOLEAN : Ask(query, prove)
           \/ Find \/ Refuse \/ Collect \/ Answer
    PROVE  (work = Idle \/ Asking(work))'
  <1>1. ASSUME NEW query \in Query, NEW prove \in BOOLEAN, Ask(query, prove)
        PROVE  (work = Idle \/ Asking(work))'
    <2>1. AskedShape(work') /\ work'.phase = "lookup"
      BY <1>1 DEF Ask, AskedShape
    <2>. QED
      BY <2>1 DEF Asking
  <1>2. CASE Find
    <2>1. AskedShape(work) /\ work' = [work EXCEPT !.phase = "collect"]
      BY <1>2 DEF IInv, WorkGood, Find, AtPhase, Asking, Evaluating
    <2>2. AskedShape(work') /\ work'.phase = "collect"
      BY <2>1 DEF AskedShape
    <2>. QED
      BY <2>2 DEF Asking
  <1>3. CASE Refuse
    BY <1>3 DEF Refuse
  <1>4. CASE Collect
    <2>1. AskedShape(work)
      BY <1>4 DEF IInv, WorkGood, Collect, AtPhase, Asking, Evaluating
    <2>2. PICK w, x, y : /\ w = Found
                         /\ Found = [work EXCEPT !.found[work.side] = x, !.facts[work.side] = y]
      BY Zenon DEF Found
    <2>3. AskedShape(w)
      BY <2>1, <2>2 DEF AskedShape
    <2>4. PICK z : work' = [w EXCEPT !.phase = "lookup", !.side = "negative", !.of = z]
      BY <1>4, <2>2, Zenon DEF Collect
    <2>5. AskedShape(work') /\ work'.phase = "lookup"
      BY <2>3, <2>4 DEF AskedShape
    <2>. QED
      BY <2>5 DEF Asking
  <1>5. CASE Answer
    BY <1>5 DEF Answer
  <1>. QED
    BY <1>1, <1>2, <1>3, <1>4, <1>5

\* An evaluation starts well.
LEMMA StartStep ==
    ASSUME IInv, StartBuild
    PROVE  WorkGood'
  <1>1. AskedShape(work) /\ work # Idle /\ IsTableEligible(program, work.of)
    BY DEF IInv, WorkGood, StartBuild, AtPhase, Asking, Evaluating, MayBuild
  <1>2. PICK e : e = Evaluation(work.of)
    OBVIOUS
  <1>3. work' = [phase |-> "load", query |-> work.query, prove |-> work.prove,
                 side |-> work.side, of |-> work.of, found |-> work.found, facts |-> work.facts,
                 toLoad |-> NamesOf(program, work.of), e |-> e]
    BY <1>2, Zenon DEF StartBuild
  <1>4. Started(program, work.of, e)
    BY <1>2 DEF Started, EvaluationShape, Evaluation
  <1>5. Prepared(e) /\ Tabled(e) /\ Levelled(e) /\ Counted(e)
    BY <1>1, <1>4, WellStarted DEF IInv, SessionGood
  <1>7. BuildShape(work') /\ work'.phase = "load" /\ work'.e = e
    BY <1>3 DEF BuildShape
  <1>8. EvaluationShape(e)
    BY <1>4 DEF Started
  <1>. QED
    BY <1>5, <1>7, <1>8 DEF WorkGood, Evaluating

\* The facts of a predicate and of its subtypes are listed.
LEMMA FactsAreASequence ==
    ASSUME IsFiniteSet(store), NEW p
    PROVE  IsASequence(StoredFacts(p))
  <1>1. PICK A \in SUBSET store, B \in SUBSET store :
            A = Bucket(store, p) /\ B = {f \in store \ A : Compatible(lineage, f[1], p)}
    BY DEF Bucket
  <1>2. IsFiniteSet(A) /\ IsFiniteSet(B)
    BY FS_Subset
  <1>3. IsASequence(Listed(A)) /\ IsASequence(Listed(B))
    BY <1>2, ListedIn, AnySequence
  <1>4. StoredFacts(p) = Listed(A) \o Listed(B)
    BY <1>1, Zenon DEF StoredFacts
  <1>. QED
    BY <1>3, <1>4, Concatenated

\* What installing proofs does to an evaluation.
LEMMA InstalledWell ==
    ASSUME NEW e, EvaluationShape(e), Prepared(e), Tabled(e), Counted(e), Levelled(e),
           NEW proved, IsASequence(proved), NEW f, f = Install(e, proved)
    PROVE  EvaluationShape(f) /\ Prepared(f) /\ Tabled(f) /\ Counted(f) /\ Levelled(f)
  <1>1. /\ SameTask(e, f) /\ Tabled(f) /\ Grown(e, f)
        /\ \A h \in 1 .. Len(e.proofs) : f.proofs[h] = e.proofs[h]
    BY Installed
  <1>2. Cardinality(Derived(e)) <= Cardinality(Derived(f))
    BY <1>1, DerivedKept DEF SameTask
  <1>3. Cardinality(Derived(e)) \in Nat /\ Cardinality(Derived(f)) \in Nat
    BY <1>1, PlacesFinite
  <1>4. Counted(f)
    BY <1>1, <1>2, <1>3 DEF Counted, SameTask
  <1>5. Prepared(f) /\ Levelled(f)
    BY <1>1 DEF Prepared, Levelled, SameTask
  <1>. QED
    BY <1>1, <1>4, <1>5 DEF SameTask

\* Loading the facts of a predicate leaves an evaluation well under way: facts
\* derive nothing, and no answer is lost.
LEMMA LoadStep ==
    ASSUME IInv, LoadFacts \/ LayStrata
    PROVE  WorkGood'
  <1>1. Evaluating(work) /\ work.phase = "load"
    BY DEF IInv, WorkGood, LoadFacts, LayStrata, AtPhase, Asking
  <1>2. CASE LoadFacts
    <2>1. PICK p : work' = [work EXCEPT
                       !.toLoad = @ \ {p},
                       !.e = Install(@, [i \in DOMAIN StoredFacts(p) |-> FactProof(StoredFacts(p)[i], p)])]
      BY <1>2, Zenon DEF LoadFacts
    <2>2. PICK n \in Nat : DOMAIN StoredFacts(p) = 1 .. n
      <3>1. IsFiniteSet(store)
        BY DataAssumption, FS_Subset DEF IInv, SessionGood, Known
      <3>. QED
        BY <3>1, FactsAreASequence, SequenceOfElements
    <2>3. PICK proved : proved = [i \in DOMAIN StoredFacts(p) |-> FactProof(StoredFacts(p)[i], p)]
      OBVIOUS
    <2>4. IsASequence(proved)
      BY <2>2, <2>3, FunctionIsASequence
    <2>5. PICK f : f = Install(work.e, proved)
      OBVIOUS
    <2>6. work' = [work EXCEPT !.toLoad = @ \ {p}, !.e = f]
      BY <2>1, <2>3, <2>5, Zenon
    <2>7. EvaluationShape(f) /\ Prepared(f) /\ Tabled(f) /\ Counted(f) /\ Levelled(f)
      BY <1>1, <2>4, <2>5, InstalledWell DEF Evaluating
    <2>8. BuildShape(work') /\ work'.phase = "load" /\ work'.e = f
      BY <1>1, <2>6 DEF Evaluating, BuildShape
    <2>. QED
      BY <2>7, <2>8 DEF WorkGood, Evaluating
  <1>3. CASE LayStrata
    <2>1. work' = [work EXCEPT !.phase = "strata"]
      BY <1>3 DEF LayStrata
    <2>2. BuildShape(work') /\ work'.phase = "strata" /\ work'.e = work.e
      BY <1>1, <2>1 DEF Evaluating, BuildShape
    <2>. QED
      BY <1>1, <2>2 DEF WorkGood, Evaluating
  <1>. QED
    BY <1>2, <1>3

\* A pass over the strata brings one more of them to its level, or changes none.
LEMMA StrataStep ==
    ASSUME IInv, PassStrata
    PROVE  WorkGood'
  <1>1. Evaluating(work) /\ work.phase = "strata"
    BY DEF IInv, WorkGood, PassStrata, AtPhase, Asking
  <1>2. PICK e, r, ph :
            /\ e = work.e /\ r = AfterPass(e.stratum, e.rules)
            /\ ph = IF r = e.stratum THEN "rounds"
                    ELSE IF e.passes = Cardinality(e.names) THEN "unstratified"
                    ELSE work.phase
            /\ work' = [work EXCEPT !.phase = ph, !.e = [e EXCEPT !.passes = @ + 1, !.stratum = r]]
    BY Zenon DEF PassStrata, Relaxed
  <1>3. EvaluationShape(e) /\ Prepared(e) /\ Tabled(e) /\ Counted(e) /\ Levelled(e)
    BY <1>1, <1>2 DEF Evaluating
  <1>4. PICK f : f = [e EXCEPT !.passes = @ + 1, !.stratum = r]
    OBVIOUS
  <1>5. /\ EvaluationShape(f)
        /\ f.names = e.names /\ f.rules = e.rules /\ f.table = e.table /\ f.proofs = e.proofs
        /\ f.current = e.current /\ f.rounds = e.rounds
        /\ f.passes = e.passes + 1 /\ f.stratum = r
    BY <1>3, <1>4 DEF EvaluationShape
  <1>6. Levelled(f) /\ (r # e.stratum => e.passes # Cardinality(e.names))
    BY <1>2, <1>3, <1>5, PassCounted
  <1>7. Prepared(f) /\ Tabled(f) /\ Counted(f)
    <2>1. Derived(f) = Derived(e)
      BY <1>5, SameDerived
    <2>. QED
      BY <1>3, <1>5, <2>1 DEF Prepared, Tabled, Counted
  <1>8. BuildShape(work') /\ work'.phase = ph /\ work'.e = f
    <2>1. work' = [work EXCEPT !.phase = ph, !.e = f]
      BY <1>2, <1>4, Zenon
    <2>. QED
      BY <1>1, <2>1 DEF Evaluating, BuildShape
  <1>9. ph \in {"rounds", "strata"}
    BY <1>1, <1>2, <1>6
  <1>. QED
    BY <1>5, <1>6, <1>7, <1>8, <1>9 DEF WorkGood, Evaluating

\* A round either derives another answer or ends its stratum.
LEMMA RoundStep ==
    ASSUME IInv, Round \/ SkipStratum \/ KeepTables
    PROVE  WorkGood'
  <1>1. Evaluating(work) /\ work.phase = "rounds"
    BY DEF IInv, WorkGood, Round, SkipStratum, KeepTables, AtPhase, Asking
  <1>2. PICK e : e = work.e
    OBVIOUS
  <1>3. EvaluationShape(e) /\ Prepared(e) /\ Tabled(e) /\ Counted(e)
    BY <1>1, <1>2 DEF Evaluating
  <1>4. CASE Round
    <2>1. PICK f : f = AfterRound(e, RoundProofs(e))
      OBVIOUS
    <2>2. work' = [work EXCEPT !.e = f]
      BY <1>2, <1>4, <2>1 DEF Round
    <2>3. /\ EvaluationShape(f) /\ Tabled(f)
          /\ f.names = e.names /\ f.rules = e.rules
          /\ f.rounds = e.rounds + 1
          /\ \/ f.current = e.current /\ Cardinality(Derived(e)) < Cardinality(Derived(f))
             \/ f.current = e.current + 1 /\ Cardinality(Derived(e)) <= Cardinality(Derived(f))
      BY <1>3, <2>1, RoundDerives DEF Prepared
    <2>4. Cardinality(Derived(e)) \in Nat /\ Cardinality(Derived(f)) \in Nat
      BY <1>3, <2>3, PlacesFinite
    <2>5. Counted(f)
      BY <1>3, <2>3, <2>4 DEF Counted
    <2>6. Prepared(f)
      BY <1>3, <2>3 DEF Prepared
    <2>7. BuildShape(work') /\ work'.phase = "rounds" /\ work'.e = f
      BY <1>1, <2>2 DEF Evaluating, BuildShape
    <2>. QED
      BY <2>3, <2>5, <2>6, <2>7 DEF WorkGood, Evaluating
  <1>5. CASE SkipStratum
    <2>1. PICK f : f = [e EXCEPT !.current = @ + 1]
      OBVIOUS
    <2>2. work' = [work EXCEPT !.e.current = @ + 1]
      BY <1>5 DEF SkipStratum
    <2>3. /\ EvaluationShape(f)
          /\ f.names = e.names /\ f.rules = e.rules /\ f.table = e.table /\ f.proofs = e.proofs
          /\ f.current = e.current + 1 /\ f.rounds = e.rounds
      BY <1>3, <2>1 DEF EvaluationShape
    <2>4. Derived(f) = Derived(e) /\ Cardinality(Derived(e)) \in Nat
      BY <1>3, <2>3, PlacesFinite, SameDerived
    <2>5. Prepared(f) /\ Tabled(f) /\ Counted(f)
      BY <1>3, <2>3, <2>4 DEF Prepared, Tabled, Counted
    <2>6. BuildShape(work') /\ work'.phase = "rounds" /\ work'.e = f
      BY <1>1, <1>2, <2>1, <2>2 DEF Evaluating, BuildShape
    <2>. QED
      BY <2>3, <2>5, <2>6 DEF WorkGood, Evaluating
  <1>6. CASE KeepTables
    <2>1. work' = [x \in (DOMAIN work) \ {"e", "toLoad"} |->
                      IF x = "phase" THEN "collect" ELSE work[x]]
      BY <1>6 DEF KeepTables
    <2>2. DOMAIN work = {"phase", "query", "prove", "side", "of", "found", "facts", "toLoad", "e"}
      BY <1>1 DEF Evaluating, BuildShape
    <2>3. (DOMAIN work) \ {"e", "toLoad"}
              = {"phase", "query", "prove", "side", "of", "found", "facts"}
      BY <2>2
    <2>4. AskedShape(work') /\ work'.phase = "collect"
      BY <2>1, <2>3 DEF AskedShape
    <2>. QED
      BY <2>4 DEF WorkGood, Asking
  <1>. QED
    BY <1>4, <1>5, <1>6

\* Every step keeps the invariant.
LEMMA Steps ==
    ASSUME IInv, [Next]_vars
    PROVE  IInv'
  <1>1. CASE UNCHANGED vars
    <2>1. UNCHANGED <<program, store, lineage, loading, work>>
      BY <1>1 DEF vars, state
    <2>. QED
      BY <2>1 DEF IInv, SessionGood, WorkGood
  <1>2. ASSUME \/ \E f \in NewFact : PublishFact(f) \/ DeleteFact(f)
               \/ \E c \in Clause : AddClause(c)
               \/ \E pair \in Subtype : ExtendType(pair)
               \/ \E pair \in Contrary : RegisterContrary(pair)
               \/ BeginBatch \/ EndBatch \/ BeginModule \/ CommitModule \/ RollbackModule
        PROVE  WorkGood'
    <2>1. work' = work
      BY <1>2 DEF PublishFact, DeleteFact, AddClause, ExtendType, RegisterContrary, BeginBatch,
                  EndBatch, BeginModule, CommitModule, RollbackModule
    <2>. QED
      BY <2>1 DEF IInv, WorkGood
  <1>3. ASSUME \/ \E query \in Query, prove \in BOOLEAN : Ask(query, prove)
               \/ Find \/ Refuse \/ Collect \/ Answer
        PROVE  WorkGood'
    BY <1>3, AskingSteps DEF WorkGood
  <1>4. CASE Next
    BY <1>2, <1>3, <1>4, StartStep, LoadStep, StrataStep, RoundStep, SessionSteps
       DEF Next, Build, IInv
  <1>. QED
    BY <1>1, <1>4

\* The program is stratified, and an evaluation is well under way.
THEOREM Invariance == Spec => []IInv
  <1>. QED
    BY Starts, Steps, PTL DEF Spec

\* The validation of programs as they are added (validateNegationStratification)
\* and the relaxation of the strata in buildTableEvaluation agree: as many
\* passes as there are names suffice, and none finds a negative cycle.
THEOREM NeverUnstratifiedHolds == Spec => []NeverUnstratified
  <1>1. IInv => NeverUnstratified
    BY DEF IInv, WorkGood, Asking, Evaluating, NeverUnstratified, AtPhase
  <1>. QED
    BY <1>1, Invariance, PTL

\* Every round of a stratum but the last adds an answer that is derived by a
\* rule first (the loop over the rules in buildTableEvaluation).
THEOREM RoundsPayHolds == Spec => []RoundsPay
  <1>1. IInv => RoundsPay
    BY DEF IInv, WorkGood, Asking, Evaluating, Counted, RoundsPay, AtPhase
  <1>. QED
    BY <1>1, Invariance, PTL

------------------------------------------------------------------------------
(* What grows to a least closed set *)

\* A step from sets to sets, the larger from the larger.
Growing(G, A) ==
    /\ G \in [SUBSET A -> SUBSET A]
    /\ \A C, D \in SUBSET A : C \subseteq D => G[C] \subseteq G[D]

\* The least set with T in it that the step does not leave.
ClosureOf(A, G, T) == {x \in A : \A C \in SUBSET A : T \subseteq C /\ G[C] \subseteq C => x \in C}

\* It is the least set over T that is closed under G.
LEMMA ClosureCloses ==
    ASSUME NEW A, NEW G, Growing(G, A), NEW T \in SUBSET A
    PROVE  /\ ClosureOf(A, G, T) \in SUBSET A
           /\ T \subseteq ClosureOf(A, G, T)
           /\ G[ClosureOf(A, G, T)] \subseteq ClosureOf(A, G, T)
           /\ \A C \in SUBSET A : T \subseteq C /\ G[C] \subseteq C => ClosureOf(A, G, T) \subseteq C
  <1>1. PICK L \in SUBSET A : L = ClosureOf(A, G, T)
    BY DEF ClosureOf
  <1>2. T \subseteq L
    BY <1>1 DEF ClosureOf
  <1>3. \A C \in SUBSET A : T \subseteq C /\ G[C] \subseteq C => L \subseteq C
    BY <1>1 DEF ClosureOf
  <1>4. ASSUME NEW x \in G[L]
        PROVE  x \in L
    <2>1. x \in A
      BY <1>4 DEF Growing
    <2>2. ASSUME NEW C \in SUBSET A, T \subseteq C, G[C] \subseteq C
          PROVE  x \in C
      <3>1. L \subseteq C
        BY <1>3, <2>2
      <3>2. G[L] \subseteq G[C]
        BY <3>1 DEF Growing
      <3>. QED
        BY <1>4, <2>2, <3>2
    <2>. QED
      BY <1>1, <2>1, <2>2 DEF ClosureOf
  <1>. QED
    BY <1>1, <1>2, <1>3, <1>4

\* A closed set is its closure, and one step on makes no difference.
LEMMA ClosureSteps ==
    ASSUME NEW A, NEW G, Growing(G, A), NEW T \in SUBSET A
    PROVE  /\ T \cup G[T] \in SUBSET A
           /\ T \cup G[T] = T => ClosureOf(A, G, T) = T
           /\ ClosureOf(A, G, T \cup G[T]) = ClosureOf(A, G, T)
  <1>1. T \cup G[T] \in SUBSET A
    BY DEF Growing
  <1>2. T \cup G[T] = T => ClosureOf(A, G, T) = T
    <2>1. PICK L : L = ClosureOf(A, G, T)
      OBVIOUS
    <2>2. T \subseteq L /\ (G[T] \subseteq T => L \subseteq T)
      BY <2>1, ClosureCloses
    <2>3. T \cup G[T] = T => G[T] \subseteq T
      OBVIOUS
    <2>. QED
      BY <2>1, <2>2, <2>3
  <1>3. \A C \in SUBSET A : G[C] \subseteq C => (T \subseteq C <=> T \cup G[T] \subseteq C)
    <2>1. ASSUME NEW C \in SUBSET A, G[C] \subseteq C, T \subseteq C
          PROVE  T \cup G[T] \subseteq C
      <3>1. G[T] \subseteq G[C]
        BY <2>1 DEF Growing
      <3>. QED
        BY <2>1, <3>1
    <2>. QED
      BY <2>1
  <1>4. ClosureOf(A, G, T \cup G[T]) = ClosureOf(A, G, T)
    <2>1. PICK U \in SUBSET A : U = T \cup G[T]
      BY <1>1
    <2>2. \A C \in SUBSET A : G[C] \subseteq C => (T \subseteq C <=> U \subseteq C)
      BY <1>3, <2>1
    <2>3. ClosureOf(A, G, U) = ClosureOf(A, G, T)
      BY <2>2 DEF ClosureOf
    <2>. QED
      BY <2>1, <2>3
  <1>. QED
    BY <1>1, <1>2, <1>4

\* f adds what follows until nothing more does.
Grows(f, A, G) ==
    f = [T \in SUBSET A |-> IF T \cup G[T] = T THEN T ELSE f[T \cup G[T]]]

\* There is such a function.
LEMMA GrowsSomehow ==
    ASSUME NEW A, NEW G, Growing(G, A)
    PROVE  \E f : Grows(f, A, G)
  <1>1. PICK f : f = [T \in SUBSET A |-> ClosureOf(A, G, T)]
    OBVIOUS
  <1>2. ASSUME NEW T \in SUBSET A
        PROVE  f[T] = IF T \cup G[T] = T THEN T ELSE f[T \cup G[T]]
    <2>1. PICK U \in SUBSET A : U = T \cup G[T]
      BY ClosureSteps
    <2>2. /\ U = T => ClosureOf(A, G, T) = T
          /\ ClosureOf(A, G, U) = ClosureOf(A, G, T)
      BY <2>1, ClosureSteps, ZenonT(40)
    <2>. QED
      BY <1>1, <2>1, <2>2
  <1>3. f = [T \in SUBSET A |-> IF T \cup G[T] = T THEN T ELSE f[T \cup G[T]]]
    <2>1. PICK g : g = [T \in SUBSET A |-> IF T \cup G[T] = T THEN T ELSE f[T \cup G[T]]]
      OBVIOUS
    <2>2. \A T \in SUBSET A : f[T] = g[T]
      BY <1>2, <2>1
    <2>3. f = g
      BY <1>1, <2>1, <2>2
    <2>. QED
      BY <2>1, <2>3
  <1>. QED
    BY <1>3 DEF Grows

\* Over finitely many elements any such function is the closure.
LEMMA GrowsToClosure ==
    ASSUME NEW A, IsFiniteSet(A), NEW G, Growing(G, A), NEW f, Grows(f, A, G), NEW T \in SUBSET A
    PROVE  f[T] = ClosureOf(A, G, T)
  <1>1. PICK F : F = {R \in SUBSET A : f[A \ R] # ClosureOf(A, G, A \ R)}
    OBVIOUS
  <1>2. CASE F = {}
    <2>1. A \ (A \ T) = T /\ A \ T \in SUBSET A
      OBVIOUS
    <2>. QED
      BY <1>1, <1>2, <2>1
  <1>3. CASE F # {}
    <2>1. F \in Families(A)
      BY <1>1, <1>3 DEF Families
    <2>2. PICK R \in F : \A B \in F : B \subseteq R => B = R
      BY <2>1, SmallestSet
    <2>3. PICK C \in SUBSET A : C = A \ R
      OBVIOUS
    <2>4. f[C] # ClosureOf(A, G, C)
      BY <1>1, <2>2, <2>3
    <2>5. PICK D \in SUBSET A : D = C \cup G[C]
      BY ClosureSteps
    <2>6. f[C] = IF D = C THEN C ELSE f[D]
      BY <2>5 DEF Grows
    <2>7. D # C /\ f[C] = f[D] /\ ClosureOf(A, G, D) = ClosureOf(A, G, C)
      <3>1. /\ D = C => ClosureOf(A, G, C) = C
            /\ ClosureOf(A, G, D) = ClosureOf(A, G, C)
        BY <2>5, ClosureSteps, ZenonT(40)
      <3>. QED
        BY <2>4, <2>6, <3>1
    <2>8. A \ D \subseteq R /\ A \ D # R /\ A \ (A \ D) = D
      BY <1>1, <2>2, <2>3, <2>5, <2>7
    <2>9. A \ D \notin F
      BY <2>2, <2>8
    <2>10. f[D] = ClosureOf(A, G, D)
      BY <1>1, <2>8, <2>9
    <2>. QED
      BY <2>4, <2>7, <2>10
  <1>. QED
    BY <1>2, <1>3

------------------------------------------------------------------------------
(* What the rules of a program mean *)

\* Functions between finite sets are finitely many.
LEMMA FunctionsFinite ==
    ASSUME NEW S, IsFiniteSet(S), NEW V, IsFiniteSet(V)
    PROVE  IsFiniteSet([S -> V])
  <1>1. IsFiniteSet(SUBSET (S \X V))
    BY FS_Product, FS_SUBSET
  <1>2. PICK h : h = [R \in SUBSET (S \X V) |-> [x \in S |-> CHOOSE v \in V : <<x, v>> \in R]]
    OBVIOUS
  <1>3. PICK H : H = {h[R] : R \in SUBSET (S \X V)}
    OBVIOUS
  <1>4. IsFiniteSet(H)
    BY <1>1, <1>3, ImageFinite
  <1>5. ASSUME NEW f \in [S -> V]
        PROVE  f \in H
    <2>1. PICK R : R = {y \in S \X V : y[2] = f[y[1]]}
      OBVIOUS
    <2>2. R \in SUBSET (S \X V)
      BY <2>1
    <2>3. h[R] = [x \in S |-> CHOOSE v \in V : <<x, v>> \in R]
      BY <1>2, <2>2
    <2>4. ASSUME NEW x \in S
          PROVE  (CHOOSE v \in V : <<x, v>> \in R) = f[x]
      <3>1. \A v \in V : <<x, v>> \in R <=> v = f[x]
        BY <2>1
      <3>2. f[x] \in V
        OBVIOUS
      <3>. QED
        BY <3>1, <3>2
    <2>5. h[R] = f
      BY <2>3, <2>4
    <2>. QED
      BY <1>3, <2>2, <2>5
  <1>. QED
    BY <1>4, <1>5, FS_Subset

\* A clause with finitely many arguments, over the values V.
Proper(c, V) ==
    /\ IsFiniteSet(DOMAIN c.args) /\ AreTerms(c.args, V)
    /\ \A g \in GoalsOf(c) : AreTerms(g.args, V)

Sensible(cs, V, S) ==
    /\ IsFiniteSet(cs) /\ IsFiniteSet(V) /\ IsFiniteSet(S)
    /\ \A c \in cs : Proper(c, V)

\* The clause yields the atom x, from atoms T, where those in I are not false.
Yields(c, V, T, I, x) ==
    \E env \in [VarsOf(c) -> V] :
        /\ \A g \in GoalsOf(c) : Holds(g, env, T, I)
        /\ x = <<c.head, Instance(c.args, env)>>

\* What the clauses yield, clause by clause.
LEMMA ConsequencesAre ==
    ASSUME NEW cs, NEW V, NEW T, NEW I
    PROVE  \A x : x \in Consequences(cs, V, T, I) <=> \E c \in cs : Yields(c, V, T, I, x)
  BY DEF Consequences, Yields

\* The arguments of an instance are values.
LEMMA InstanceProper ==
    ASSUME NEW c, NEW V, Proper(c, V), NEW env \in [VarsOf(c) -> V]
    PROVE  Instance(c.args, env) \in [DOMAIN c.args -> V]
  <1>1. ASSUME NEW i \in DOMAIN c.args
        PROVE  Valued(c.args[i], env) \in V
    <2>1. CASE c.args[i][1] = "var"
      <3>1. c.args[i][2] \in Unbound(c.args, <<>>)
        BY <2>1 DEF Unbound
      <3>2. c.args[i][2] \in VarsOf(c)
        BY <3>1, Zenon DEF VarsOf
      <3>3. Valued(c.args[i], env) = env[c.args[i][2]]
        BY <2>1 DEF Valued
      <3>. QED
        BY <3>2, <3>3
    <2>. QED
      BY <2>1 DEF Proper, AreTerms, Var, Val, Valued
  <1>. QED
    BY <1>1 DEF Instance

\* More atoms support more goals, and fewer negated ones.
LEMMA HoldsMore ==
    ASSUME NEW g, NEW env, NEW S, NEW T, S \subseteq T, NEW I, NEW J, J \subseteq I,
           Holds(g, env, S, I)
    PROVE  Holds(g, env, T, J)
  BY Zenon DEF Holds

\* From more atoms and less that is true, no less is yielded.
LEMMA YieldsMore ==
    ASSUME NEW c, NEW V, NEW S, NEW T, S \subseteq T, NEW I, NEW J, J \subseteq I,
           NEW x, Yields(c, V, S, I, x)
    PROVE  Yields(c, V, T, J, x)
  <1>1. PICK env \in [VarsOf(c) -> V] :
            (\A g \in GoalsOf(c) : Holds(g, env, S, I)) /\ x = <<c.head, Instance(c.args, env)>>
    BY DEF Yields
  <1>2. \A g \in GoalsOf(c) : Holds(g, env, T, J)
    BY <1>1, HoldsMore
  <1>. QED
    BY <1>1, <1>2 DEF Yields

\* There are finitely many atoms to derive.
LEMMA AtomsFinite ==
    ASSUME NEW cs, NEW V, NEW S, Sensible(cs, V, S)
    PROVE  /\ IsFiniteSet(Atoms(cs, V, S)) /\ S \subseteq Atoms(cs, V, S)
           /\ \A T, I : Consequences(cs, V, T, I) \subseteq Atoms(cs, V, S)
  <1>1. PICK h : h = [c \in cs |-> {c.head} \X [DOMAIN c.args -> V]]
    OBVIOUS
  <1>2. PICK H : H = {h[c] : c \in cs}
    OBVIOUS
  <1>3. IsFiniteSet(H)
    BY <1>2, ImageFinite DEF Sensible
  <1>4. ASSUME NEW c \in cs
        PROVE  IsFiniteSet(h[c])
    <2>1. IsFiniteSet([DOMAIN c.args -> V])
      BY FunctionsFinite DEF Sensible, Proper
    <2>2. IsFiniteSet({c.head})
      BY FS_Singleton
    <2>3. IsFiniteSet({c.head} \X [DOMAIN c.args -> V])
      BY <2>1, <2>2, FS_Product
    <2>. QED
      BY <1>1, <2>3
  <1>5. \A R \in H : IsFiniteSet(R)
    BY <1>2, <1>4
  <1>6. IsFiniteSet(UNION H)
    BY <1>3, <1>5, FS_UNION
  <1>7. IsFiniteSet(S \cup UNION H)
    BY <1>6, FS_Union DEF Sensible
  <1>8. H = {{c.head} \X [DOMAIN c.args -> V] : c \in cs}
    BY <1>1, <1>2
  <1>9. Atoms(cs, V, S) = S \cup UNION H
    BY <1>8 DEF Atoms
  <1>10. ASSUME NEW T, NEW I, NEW x \in Consequences(cs, V, T, I)
         PROVE  x \in UNION H
    <2>1. PICK c \in cs : Yields(c, V, T, I, x)
      BY <1>10, ConsequencesAre
    <2>2. PICK env \in [VarsOf(c) -> V] : x = <<c.head, Instance(c.args, env)>>
      BY <2>1 DEF Yields
    <2>3. Instance(c.args, env) \in [DOMAIN c.args -> V]
      BY InstanceProper DEF Sensible
    <2>4. x \in h[c]
      BY <1>1, <2>2, <2>3
    <2>. QED
      BY <1>2, <2>4
  <1>. QED
    BY <1>7, <1>9, <1>10

\* What the rules grow to is the least set of atoms they do not leave.
LEMMA LeastIs ==
    ASSUME NEW cs, NEW V, NEW S, Sensible(cs, V, S), NEW I
    PROVE  LET L == Least(cs, V, S, I) IN
           /\ S \subseteq L /\ L \subseteq Atoms(cs, V, S)
           /\ Consequences(cs, V, L, I) \subseteq L
           /\ \A C \in SUBSET Atoms(cs, V, S) :
                 S \subseteq C /\ Consequences(cs, V, C, I) \subseteq C => L \subseteq C
  <1>1. PICK A : A = Atoms(cs, V, S)
    OBVIOUS
  <1>2. IsFiniteSet(A) /\ S \in SUBSET A /\ \A T : Consequences(cs, V, T, I) \subseteq A
    BY <1>1, AtomsFinite
  <1>3. PICK G : G = [T \in SUBSET A |-> Consequences(cs, V, T, I)]
    OBVIOUS
  <1>4. Growing(G, A)
    <2>1. G \in [SUBSET A -> SUBSET A]
      BY <1>2, <1>3
    <2>2. ASSUME NEW C \in SUBSET A, NEW D \in SUBSET A, C \subseteq D, NEW x \in G[C]
          PROVE  x \in G[D]
      <3>1. PICK c \in cs : Yields(c, V, C, I, x)
        BY <1>3, <2>2, ConsequencesAre
      <3>2. Yields(c, V, D, I, x)
        BY <2>2, <3>1, YieldsMore
      <3>. QED
        BY <1>3, <3>2, ConsequencesAre
    <2>. QED
      BY <2>1, <2>2 DEF Growing
  <1>5. PICK f : /\ f = CHOOSE least : least = [T \in SUBSET A |->
                            IF T \cup Consequences(cs, V, T, I) = T THEN T
                            ELSE least[T \cup Consequences(cs, V, T, I)]]
                 /\ Least(cs, V, S, I) = f[S]
    BY <1>1, Zenon DEF Least
  <1>6. \A g : Grows(g, A, G) <=> g = [T \in SUBSET A |->
                            IF T \cup Consequences(cs, V, T, I) = T THEN T
                            ELSE g[T \cup Consequences(cs, V, T, I)]]
    BY <1>3 DEF Grows
  <1>7. Grows(f, A, G)
    BY <1>4, <1>5, <1>6, GrowsSomehow, Zenon
  <1>8. f[S] = ClosureOf(A, G, S)
    BY <1>2, <1>4, <1>7, GrowsToClosure
  <1>9. PICK L : L = Least(cs, V, S, I)
    OBVIOUS
  <1>10. /\ L \in SUBSET A /\ S \subseteq L /\ G[L] \subseteq L
         /\ \A C \in SUBSET A : S \subseteq C /\ G[C] \subseteq C => L \subseteq C
    <2>1. L = ClosureOf(A, G, S)
      BY <1>5, <1>8, <1>9
    <2>. QED
      BY <1>2, <1>4, <2>1, ClosureCloses
  <1>. QED
    BY <1>1, <1>3, <1>9, <1>10

\* The more is true, the less is derived.
LEMMA LeastLess ==
    ASSUME NEW cs, NEW V, NEW S, Sensible(cs, V, S), NEW I, NEW J, I \subseteq J
    PROVE  Least(cs, V, S, J) \subseteq Least(cs, V, S, I)
  <1>1. PICK P, Q, A : /\ P = Least(cs, V, S, I) /\ Q = Least(cs, V, S, J)
                       /\ A = Atoms(cs, V, S)
    OBVIOUS
  <1>2. /\ S \subseteq P /\ P \in SUBSET A
        /\ Consequences(cs, V, P, I) \subseteq P
    BY <1>1, LeastIs
  <1>3. Consequences(cs, V, P, J) \subseteq Consequences(cs, V, P, I)
    <2>1. ASSUME NEW x \in Consequences(cs, V, P, J)
          PROVE  x \in Consequences(cs, V, P, I)
      <3>1. PICK c \in cs : Yields(c, V, P, J, x)
        BY <2>1, ConsequencesAre
      <3>2. Yields(c, V, P, I, x)
        BY <3>1, YieldsMore
      <3>. QED
        BY <3>2, ConsequencesAre
    <2>. QED
      BY <2>1
  <1>4. Consequences(cs, V, P, J) \subseteq P
    BY <1>2, <1>3
  <1>5. \A C \in SUBSET A : S \subseteq C /\ Consequences(cs, V, C, J) \subseteq C => Q \subseteq C
    BY <1>1, LeastIs
  <1>. QED
    BY <1>1, <1>2, <1>4, <1>5

\* The well-founded model is found from what may be true by it.
LEMMA MeaningIs ==
    ASSUME NEW cs, NEW V, NEW S, Sensible(cs, V, S)
    PROVE  LET M == WellFoundedModel(cs, V, S)
           IN M = Least(cs, V, S, Least(cs, V, S, M))
  <1>1. PICK A : A = Atoms(cs, V, S)
    OBVIOUS
  <1>2. IsFiniteSet(A)
    BY <1>1, AtomsFinite
  <1>3. PICK G : G = [T \in SUBSET A |-> Least(cs, V, S, Least(cs, V, S, T))]
    OBVIOUS
  <1>4. Growing(G, A)
    <2>1. G \in [SUBSET A -> SUBSET A]
      BY <1>1, <1>3, LeastIs
    <2>2. ASSUME NEW C \in SUBSET A, NEW D \in SUBSET A, C \subseteq D
          PROVE  G[C] \subseteq G[D]
      <3>1. Least(cs, V, S, D) \subseteq Least(cs, V, S, C)
        BY <2>2, LeastLess
      <3>2. Least(cs, V, S, Least(cs, V, S, C)) \subseteq Least(cs, V, S, Least(cs, V, S, D))
        BY <3>1, LeastLess
      <3>. QED
        BY <1>3, <3>2
    <2>. QED
      BY <2>1, <2>2 DEF Growing
  <1>5. PICK f : /\ f = CHOOSE truth : truth = [T \in SUBSET A |->
                            IF T \cup Least(cs, V, S, Least(cs, V, S, T)) = T THEN T
                            ELSE truth[T \cup Least(cs, V, S, Least(cs, V, S, T))]]
                 /\ WellFoundedModel(cs, V, S) = f[{}]
    BY <1>1, Zenon DEF WellFoundedModel
  <1>6. \A g : Grows(g, A, G) <=> g = [T \in SUBSET A |->
                            IF T \cup Least(cs, V, S, Least(cs, V, S, T)) = T THEN T
                            ELSE g[T \cup Least(cs, V, S, Least(cs, V, S, T))]]
    BY <1>3 DEF Grows
  <1>7. Grows(f, A, G)
    BY <1>4, <1>5, <1>6, GrowsSomehow, Zenon
  <1>8. PICK M : M = f[{}] /\ M = ClosureOf(A, G, {})
    BY <1>2, <1>4, <1>7, GrowsToClosure
  <1>9. /\ M \in SUBSET A /\ G[M] \subseteq M
        /\ \A C \in SUBSET A : {} \subseteq C /\ G[C] \subseteq C => M \subseteq C
    BY <1>4, <1>8, ClosureCloses
  <1>10. G[M] \in SUBSET A /\ G[G[M]] \subseteq G[M]
    BY <1>4, <1>9 DEF Growing
  <1>11. M = G[M]
    BY <1>9, <1>10
  <1>. QED
    BY <1>3, <1>5, <1>8, <1>9, <1>11

\* Predicates that need no others, with strata that the goals of their clauses
\* allow.
Layered(cs, N, l) ==
    /\ l \in [N -> Nat]
    /\ \A c \in cs : c.head \in N => Targets(c) \subseteq N /\ Meets(l, c)

\* Of a stratum, the rules yield less if they are denied more below it, and
\* more where there are more of them and of the atoms they begin with.
LEMMA LeastInStratum ==
    ASSUME NEW cs, NEW V, NEW S, Sensible(cs, V, S), NEW N, NEW l, Layered(cs, N, l),
           NEW ds, NEW R, Sensible(ds, V, R), \A c \in cs : c.head \in N => c \in ds,
           \A x \in S : x[1] \in N => x \in R,
           NEW I, NEW J, NEW k \in Nat,
           \A x \in J : x[1] \in N /\ l[x[1]] < k => x \in I,
           NEW x \in Least(cs, V, S, I), x[1] \in N, l[x[1]] <= k
    PROVE  x \in Least(ds, V, R, J)
  <1>1. PICK P, Q, A : /\ P = Least(cs, V, S, I) /\ Q = Least(ds, V, R, J)
                       /\ A = Atoms(cs, V, S)
    OBVIOUS
  <1>2. R \subseteq Q /\ Consequences(ds, V, Q, J) \subseteq Q
    BY <1>1, LeastIs
  <1>3. PICK C \in SUBSET A : C = {y \in A : y[1] \in N /\ l[y[1]] <= k => y \in Q}
    OBVIOUS
  <1>4. S \subseteq C
    <2>1. S \subseteq A
      BY <1>1, AtomsFinite
    <2>. QED
      BY <1>2, <1>3, <2>1
  <1>5. ASSUME NEW y \in Consequences(cs, V, C, I)
        PROVE  y \in C
    <2>1. y \in A
      BY <1>1, <1>5, AtomsFinite
    <2>2. PICK c \in cs : Yields(c, V, C, I, y)
      BY <1>5, ConsequencesAre
    <2>3. PICK env \in [VarsOf(c) -> V] :
              (\A g \in GoalsOf(c) : Holds(g, env, C, I)) /\ y = <<c.head, Instance(c.args, env)>>
      BY <2>2 DEF Yields
    <2>4. CASE c.head \in N /\ l[c.head] <= k
      <3>1. ASSUME NEW g \in GoalsOf(c)
            PROVE  Holds(g, env, Q, J)
        <4>1. g.kind \in {"call", "not"} => g.of \in N
          BY <2>4, <3>1 DEF Layered, Targets
        <4>2. Required(l, g) <= l[c.head]
          BY <2>4, <3>1 DEF Layered, Meets
        <4>3. Holds(g, env, C, I)
          BY <2>3
        <4>4. PICK a : a = <<g.of, Instance(g.args, env)>>
          OBVIOUS
        <4>5. CASE g.kind = "call"
          <5>1. a \in C
            BY <4>3, <4>4, <4>5, Zenon DEF Holds
          <5>2. l[g.of] \in Nat /\ l[c.head] \in Nat /\ l[g.of] <= l[c.head] /\ a[1] = g.of
            BY <2>4, <4>1, <4>2, <4>4, <4>5 DEF Layered, Required
          <5>3. a \in Q
            BY <1>3, <2>4, <4>1, <4>5, <5>1, <5>2
          <5>. QED
            BY <4>4, <4>5, <5>3, Zenon DEF Holds
        <4>6. CASE g.kind = "not"
          <5>1. a \notin I
            BY <4>3, <4>4, <4>6, Zenon DEF Holds
          <5>2. l[g.of] \in Nat /\ l[c.head] \in Nat /\ l[g.of] + 1 <= l[c.head] /\ a[1] = g.of
            BY <2>4, <4>1, <4>2, <4>4, <4>6 DEF Layered, Required
          <5>3. a \notin J
            BY <2>4, <4>1, <4>6, <5>1, <5>2
          <5>. QED
            BY <4>4, <4>6, <5>3, Zenon DEF Holds
        <4>7. CASE g.kind \notin {"call", "not"}
          BY <4>3, <4>7, Zenon DEF Holds
        <4>. QED
          BY <4>5, <4>6, <4>7
      <3>2. Yields(c, V, Q, J, y)
        BY <2>3, <3>1 DEF Yields
      <3>3. c \in ds
        BY <2>4
      <3>4. y \in Q
        BY <1>2, <3>2, <3>3, ConsequencesAre
      <3>. QED
        BY <1>3, <2>1, <3>4
    <2>5. CASE ~(c.head \in N /\ l[c.head] <= k)
      BY <1>3, <2>1, <2>3, <2>5
    <2>. QED
      BY <2>4, <2>5
  <1>6. P \subseteq C
    BY <1>1, <1>4, <1>5, LeastIs
  <1>. QED
    BY <1>1, <1>3, <1>6

\* What a stratum derives depends on the negation below it only.
LEMMA LeastAgrees ==
    ASSUME NEW cs, NEW V, NEW S, Sensible(cs, V, S), NEW N, NEW l, Layered(cs, N, l),
           NEW I, NEW J, NEW k \in Nat,
           \A x : x[1] \in N /\ l[x[1]] < k => (x \in I <=> x \in J),
           NEW x \in Least(cs, V, S, I), x[1] \in N, l[x[1]] <= k
    PROVE  x \in Least(cs, V, S, J)
  <1>1. \A c \in cs : c.head \in N => c \in cs
    OBVIOUS
  <1>2. \A y \in S : y[1] \in N => y \in S
    OBVIOUS
  <1>3. \A y \in J : y[1] \in N /\ l[y[1]] < k => y \in I
    OBVIOUS
  <1>. QED
    BY <1>1, <1>2, <1>3, LeastInStratum

\* Of the predicates in strata, nothing is undecided.
LEMMA DecidedInStrata ==
    ASSUME NEW cs, NEW V, NEW S, Sensible(cs, V, S), NEW N, NEW l, Layered(cs, N, l),
           NEW M, M = WellFoundedModel(cs, V, S)
    PROVE  \A x : x[1] \in N => (x \in M <=> x \in Least(cs, V, S, M))
  <1>1. PICK O : O = Least(cs, V, S, M) /\ M = Least(cs, V, S, O)
    BY MeaningIs
  <1>2. PICK K : K = {k \in Nat : \A x : x[1] \in N /\ l[x[1]] < k => (x \in M <=> x \in O)}
    OBVIOUS
  <1>3. 0 \in K
    BY <1>2 DEF Layered
  <1>4. ASSUME NEW k \in Nat, k \in K
        PROVE  k + 1 \in K
    <2>1. \A x : x[1] \in N /\ l[x[1]] < k => (x \in M <=> x \in O)
      BY <1>2, <1>4
    <2>2. ASSUME NEW x, x[1] \in N, l[x[1]] < k + 1
          PROVE  x \in M <=> x \in O
      <3>1. l[x[1]] <= k
        BY <2>2 DEF Layered
      <3>2. CASE x \in M
        <4>1. x \in Least(cs, V, S, O)
          BY <1>1, <3>2
        <4>2. \A y : y[1] \in N /\ l[y[1]] < k => (y \in O <=> y \in M)
          BY <2>1
        <4>3. x \in Least(cs, V, S, M)
          BY <2>2, <3>1, <4>1, <4>2, LeastAgrees
        <4>. QED
          BY <1>1, <3>2, <4>3
      <3>3. CASE x \in O
        <4>1. x \in Least(cs, V, S, M)
          BY <1>1, <3>3
        <4>2. \A y : y[1] \in N /\ l[y[1]] < k => (y \in M <=> y \in O)
          BY <2>1
        <4>3. x \in Least(cs, V, S, O)
          BY <2>2, <3>1, <4>1, <4>2, LeastAgrees
        <4>. QED
          BY <1>1, <3>3, <4>3
      <3>. QED
        BY <3>2, <3>3
    <2>. QED
      BY <1>2, <2>2
  <1>5. ASSUME NEW x, x[1] \in N
        PROVE  x \in M <=> x \in O
    <2>1. PICK n \in Nat : n = l[x[1]] + 1
      BY <1>5 DEF Layered
    <2>2. n \in K
      BY <1>3, <1>4, Counting
    <2>3. l[x[1]] < n
      BY <1>5, <2>1 DEF Layered
    <2>. QED
      BY <1>2, <1>5, <2>2, <2>3
  <1>. QED
    BY <1>1, <1>5

------------------------------------------------------------------------------
(* What the goals of a rule are met by *)

\* Variables of terms.
LEMMA VariablesAre ==
    ASSUME NEW args, NEW V, AreTerms(args, V)
    PROVE  /\ \A i \in DOMAIN args :
                 \/ args[i][1] = "var" /\ args[i][2] \in Unbound(args, <<>>)
                 \/ args[i][1] = "val" /\ args[i][2] \in V
           /\ \A x \in Unbound(args, <<>>) : \E i \in DOMAIN args : args[i] = Var(x)
           /\ \A env : Unbound(args, env) = Unbound(args, <<>>) \ DOMAIN env
  BY DEF AreTerms, Unbound, Var, Val

\* An environment over B matches values exactly if extending it makes them.
MatchDecides(V, B, env, args, values) ==
    /\ Extended(env, args, values) \in [B \cup Unbound(args, <<>>) -> V]
    /\ \A full \in [B \cup Unbound(args, <<>>) -> V] :
          Matches(env, args, values) /\ full = Extended(env, args, values)
          <=> (\A x \in B : full[x] = env[x]) /\ Instance(args, full) = values

LEMMA Matched ==
    ASSUME NEW V, NEW B, NEW env \in [B -> V], NEW args, AreTerms(args, V),
           NEW values \in [DOMAIN args -> V]
    PROVE  MatchDecides(V, B, env, args, values)
  <1>1. PICK m : m = Extended(env, args, values)
    OBVIOUS
  <1>2. PICK U : U = Unbound(args, <<>>) /\ Unbound(args, env) = U \ B
    BY VariablesAre
  <1>3. ASSUME NEW x \in U
        PROVE  \E i \in DOMAIN args : i = (CHOOSE j \in DOMAIN args : args[j] = Var(x)) /\ args[i] = Var(x)
    BY <1>2, VariablesAre
  <1>4. m = [x \in B \cup U |->
                IF x \in B THEN env[x] ELSE values[CHOOSE i \in DOMAIN args : args[i] = Var(x)]]
    <2>1. B \cup Unbound(args, env) = B \cup U /\ DOMAIN env = B
      BY <1>2
    <2>. QED
      BY <1>1, <2>1 DEF Extended
  <1>5. m \in [B \cup U -> V]
    BY <1>3, <1>4
  <1>6. ASSUME NEW e \in [B \cup U -> V]
        PROVE  Instance(args, e) = values <=> \A i \in DOMAIN args : Valued(args[i], e) = values[i]
    BY DEF Instance
  <1>7. Matches(env, args, values) <=> Instance(args, m) = values
    BY <1>1, <1>5, <1>6 DEF Matches
  <1>8. \A x \in B : m[x] = env[x]
    BY <1>4
  <1>9. ASSUME NEW full \in [B \cup U -> V],
               \A x \in B : full[x] = env[x], Instance(args, full) = values
        PROVE  full = m
    <2>1. ASSUME NEW x \in U, x \notin B
          PROVE  full[x] = m[x]
      <3>1. PICK i \in DOMAIN args :
                i = (CHOOSE j \in DOMAIN args : args[j] = Var(x)) /\ args[i] = Var(x)
        BY <1>3, <2>1
      <3>2. m[x] = values[i]
        BY <1>4, <2>1, <3>1
      <3>3. Valued(args[i], full) = values[i]
        BY <1>2, <1>6, <1>9
      <3>4. Valued(args[i], full) = full[x]
        BY <3>1 DEF Var, Valued
      <3>. QED
        BY <3>2, <3>3, <3>4
    <2>2. full \in [B \cup U -> V]
      BY <1>2
    <2>3. \A x \in B \cup U : full[x] = m[x]
      BY <1>8, <1>9, <2>1
    <2>. QED
      BY <1>5, <2>2, <2>3
  <1>. QED
    BY <1>1, <1>2, <1>5, <1>7, <1>8, <1>9 DEF MatchDecides

\* Goals look at their own variables only.
LEMMA InstanceAgrees ==
    ASSUME NEW V, NEW args, AreTerms(args, V), NEW f, NEW g,
           \A x \in Unbound(args, <<>>) : f[x] = g[x]
    PROVE  /\ Instance(args, f) = Instance(args, g)
           /\ \A i \in DOMAIN args : Valued(args[i], f) = Valued(args[i], g)
  <1>1. \A i \in DOMAIN args : Valued(args[i], f) = Valued(args[i], g)
    BY VariablesAre DEF Valued
  <1>. QED
    BY <1>1 DEF Instance

\* A goal of a clause of the evaluation: its kind and how many terms it has.
SoundGoal(g) ==
    /\ AreTerms(g.args, Value)
    /\ g.kind \in {"call", "not", "where", "assign"}
    /\ g.kind \in {"call", "not"} => DOMAIN g.args = 1 .. Arity[g.of]
    /\ g.kind \in {"where", "assign"} => DOMAIN g.args = 1 .. 2

LEMMA HoldsAgrees ==
    ASSUME NEW g, SoundGoal(g), NEW e, NEW f, NEW S, NEW I,
           \A x \in Unbound(g.args, <<>>) : e[x] = f[x]
    PROVE  Holds(g, e, S, I) <=> Holds(g, f, S, I)
  <1>1. /\ Instance(g.args, e) = Instance(g.args, f)
        /\ \A i \in DOMAIN g.args : Valued(g.args[i], e) = Valued(g.args[i], f)
    BY InstanceAgrees DEF SoundGoal
  <1>2. g.kind \in {"where", "assign"} =>
            Valued(g.args[1], e) = Valued(g.args[1], f) /\ Valued(g.args[2], e) = Valued(g.args[2], f)
    BY <1>1 DEF SoundGoal
  <1>3. CASE g.kind = "call"
    BY <1>1, <1>3, Zenon DEF Holds
  <1>4. CASE g.kind = "not"
    BY <1>1, <1>4, Zenon DEF Holds
  <1>5. CASE g.kind = "where"
    BY <1>2, <1>5, Zenon DEF Holds
  <1>6. CASE g.kind = "assign"
    BY <1>2, <1>6, Zenon DEF Holds
  <1>. QED
    BY <1>3, <1>4, <1>5, <1>6 DEF SoundGoal

------------------------------------------------------------------------------
(* The bindings of a rule are the environments that meet its goals *)

\* The atoms that are answers of an evaluation, and those that are new.
ToldOf(t) == {t.answers[k].args : k \in DOMAIN t.answers}
FreshOf(t) == {t.answers[k].args : k \in {j \in DOMAIN t.answers : j \in t.delta}}
Told(e) == UNION {{p} \X ToldOf(e.table[p]) : p \in e.names}
Fresh(e) == UNION {{p} \X FreshOf(e.table[p]) : p \in e.names}

LEMMA ToldIs ==
    ASSUME NEW e
    PROVE  /\ \A p, v : <<p, v>> \in Told(e) <=> p \in e.names /\ v \in ToldOf(e.table[p])
           /\ \A p, v : <<p, v>> \in Fresh(e) <=> p \in e.names /\ v \in FreshOf(e.table[p])
           /\ \A x \in Told(e) : x = <<x[1], x[2]>> /\ x[1] \in e.names
           /\ Fresh(e) \subseteq Told(e)
  BY DEF Told, Fresh, ToldOf, FreshOf

\* Answers name every field of their predicate.
Filled(e) == \A p \in e.names : ToldOf(e.table[p]) \subseteq [1 .. Arity[p] -> Value]

\* The rule can be evaluated on the tables.
Ready(e, c) ==
    /\ Taken(c) /\ HasTables(e, c) /\ Targets(c) \subseteq e.names
    /\ FitsArity(c) /\ IsSafe(c) /\ Filled(e)

LEMMA GoalsSound ==
    ASSUME NEW e, NEW c, Ready(e, c), NEW g \in GoalsOf(c)
    PROVE  /\ SoundGoal(g)
           /\ g.kind \in {"call", "not"} => g.of \in Targets(c) /\ g.of \in e.names
  <1>1. g.kind \in {"call", "not"} => g.of \in Targets(c)
    BY DEF Targets
  <1>. QED
    BY <1>1 DEF Ready, Taken, FitsArity, IsTableEligibleGoal, SoundGoal

\* A goal is met; the pivot by what is new.
Passes(e, c, i, pivot, env) ==
    Holds(c.body[i], env, IF i = pivot THEN Fresh(e) ELSE Told(e), Told(e))

IsBinding(b) == b = [env |-> b.env, from |-> b.from]
Envs(s) == {s[n].env : n \in DOMAIN s}

\* env is b's environment with the variables of the next goal, which it meets.
Continues(e, c, i, pivot, b, env) ==
    /\ env \in [VarsUpTo(c, i) -> Value]
    /\ \A x \in VarsUpTo(c, i - 1) : env[x] = b.env[x]
    /\ Passes(e, c, i, pivot, env)

LEMMA VarsGrow ==
    ASSUME NEW c, NEW i \in Nat \ {0}
    PROVE  VarsUpTo(c, i) = VarsUpTo(c, i - 1) \cup Unbound(c.body[i].args, <<>>)
  <1>1. 1 .. i = (1 .. i - 1) \cup {i}
    OBVIOUS
  <1>2. PICK K, L : K = 1 .. i /\ L = 1 .. i - 1 /\ K = L \cup {i}
    BY <1>1
  <1>. QED
    BY <1>2 DEF VarsUpTo

LEMMA CallEnvs ==
    ASSUME NEW e, NEW c, Ready(e, c), NEW i \in DOMAIN c.body, NEW pivot,
           NEW b, b.env \in [VarsUpTo(c, i - 1) -> Value], c.body[i].kind = "call"
    PROVE  /\ \A n \in DOMAIN Step(e, c, i, pivot, b) : IsBinding(Step(e, c, i, pivot, b)[n])
           /\ \A env : env \in Envs(Step(e, c, i, pivot, b)) <=> Continues(e, c, i, pivot, b, env)
  <1>1. PICK g : g = c.body[i] /\ g \in GoalsOf(c) /\ g.kind = "call"
    BY DEF GoalsOf
  <1>2. SoundGoal(g) /\ g.of \in Targets(c) /\ g.of \in e.names
    BY <1>1, GoalsSound
  <1>3. PICK B, U : B = VarsUpTo(c, i - 1) /\ U = Unbound(g.args, <<>>) /\ VarsUpTo(c, i) = B \cup U
    <2>1. i \in Nat \ {0}
      BY SequenceOfElements DEF Ready, Taken
    <2>. QED
      BY <1>1, <2>1, VarsGrow
  <1>4. PICK table : table = e.table[g.of] /\ IsASequence(table.answers)
    BY <1>2 DEF Ready, HasTables
  <1>5. PICK m \in Nat : m = Len(table.answers) /\ DOMAIN table.answers = 1 .. m
    BY <1>4, SequenceOfElements
  <1>6. \A k \in 1 .. m : table.answers[k].args \in [DOMAIN g.args -> Value]
    <2>1. \A k \in 1 .. m : table.answers[k].args \in ToldOf(table)
      BY <1>5 DEF ToldOf
    <2>. QED
      BY <1>1, <1>2, <1>4, <2>1 DEF SoundGoal, Ready, Filled
  <1>7. PICK K \in SUBSET (1 .. m) :
            K = {k \in DOMAIN table.answers : /\ i = pivot => k \in table.delta
                                              /\ Matches(b.env, g.args, table.answers[k].args)}
    BY <1>5
  <1>8. PICK ks \in Seq(K) : /\ ks = Ascending(K, m)
                             /\ \A k \in K : \E n \in DOMAIN ks : ks[n] = k
    BY AscendingLists
  <1>9. PICK r : r = [n \in DOMAIN ks |->
                        [env |-> Extended(b.env, g.args, table.answers[ks[n]].args),
                         from |-> ProofsOfBoth(b, table.answers[ks[n]])]]
    OBVIOUS
  <1>10. Step(e, c, i, pivot, b) = r
    <2>1. ks = Ascending({k \in DOMAIN table.answers :
                             /\ i = pivot => k \in table.delta
                             /\ Matches(b.env, g.args, table.answers[k].args)}, Len(table.answers))
      BY <1>5, <1>7, <1>8
    <2>. QED
      BY <1>1, <1>4, <1>9, <2>1, ZenonT(40) DEF Step, Positions
  <1>11. \A n \in DOMAIN r : IsBinding(r[n])
    BY <1>9 DEF IsBinding
  <1>12. \A env : env \in Envs(r) <=>
             \E k \in K : env = Extended(b.env, g.args, table.answers[k].args)
    <2>1. \A n \in DOMAIN ks : ks[n] \in K
      BY ElementOfSeq
    <2>2. \A n \in DOMAIN r : r[n].env = Extended(b.env, g.args, table.answers[ks[n]].args)
      BY <1>9
    <2>3. DOMAIN r = DOMAIN ks
      BY <1>9
    <2>4. \A env : env \in Envs(r) <=> \E n \in DOMAIN r : env = r[n].env
      BY DEF Envs
    <2>5. ASSUME NEW env, NEW n \in DOMAIN r, env = r[n].env
          PROVE  \E k \in K : env = Extended(b.env, g.args, table.answers[k].args)
      <3>1. PICK k \in K : k = ks[n]
        BY <2>1, <2>3
      <3>2. env = Extended(b.env, g.args, table.answers[k].args)
        BY <2>2, <2>5, <3>1, Zenon
      <3>. QED
        BY <3>2
    <2>6. ASSUME NEW env, NEW k \in K, env = Extended(b.env, g.args, table.answers[k].args)
          PROVE  env \in Envs(r)
      <3>1. PICK n \in DOMAIN r : ks[n] = k
        BY <1>8, <2>3
      <3>2. env = r[n].env
        BY <2>2, <2>6, <3>1, Zenon
      <3>. QED
        BY <2>4, <3>2
    <2>. QED
      BY <2>4, <2>5, <2>6
  <1>13. \A v : /\ v \in ToldOf(table) <=> \E k \in 1 .. m : v = table.answers[k].args
                /\ v \in FreshOf(table) <=> \E k \in 1 .. m : k \in table.delta /\ v = table.answers[k].args
    BY <1>5 DEF ToldOf, FreshOf
  <1>14. \A env : Passes(e, c, i, pivot, env) <=>
             \E k \in 1 .. m : (i = pivot => k \in table.delta) /\ Instance(g.args, env) = table.answers[k].args
    <2>1. TAKE env
    <2>2. PICK a : a = Instance(g.args, env)
      OBVIOUS
    <2>3. Passes(e, c, i, pivot, env) <=> <<g.of, a>> \in IF i = pivot THEN Fresh(e) ELSE Told(e)
      BY <1>1, <2>2, Zenon DEF Passes, Holds
    <2>4. /\ <<g.of, a>> \in Told(e) <=> a \in ToldOf(table)
          /\ <<g.of, a>> \in Fresh(e) <=> a \in FreshOf(table)
      BY <1>2, <1>4, ToldIs
    <2>. QED
      BY <1>13, <2>2, <2>3, <2>4
  <1>15. ASSUME NEW k \in 1 .. m
         PROVE  /\ Extended(b.env, g.args, table.answers[k].args) \in [B \cup U -> Value]
                /\ \A env \in [B \cup U -> Value] :
                     Matches(b.env, g.args, table.answers[k].args)
                     /\ env = Extended(b.env, g.args, table.answers[k].args)
                     <=> (\A x \in B : env[x] = b.env[x]) /\ Instance(g.args, env) = table.answers[k].args
    <2>1. PICK v \in [DOMAIN g.args -> Value] : v = table.answers[k].args
      BY <1>6
    <2>2. AreTerms(g.args, Value)
      BY <1>2 DEF SoundGoal
    <2>4. PICK env0 \in [B -> Value] : env0 = b.env
      BY <1>3
    <2>5. MatchDecides(Value, B, env0, g.args, v)
      BY <2>2, Matched
    <2>3. /\ Extended(b.env, g.args, v) \in [B \cup U -> Value]
          /\ \A env \in [B \cup U -> Value] :
                 Matches(b.env, g.args, v) /\ env = Extended(b.env, g.args, v)
                 <=> (\A x \in B : env[x] = b.env[x]) /\ Instance(g.args, env) = v
      BY <1>3, <2>4, <2>5, Zenon DEF MatchDecides
    <2>. QED
      BY <2>1, <2>3
  <1>16. ASSUME NEW env
         PROVE  env \in Envs(r) <=> Continues(e, c, i, pivot, b, env)
    <2>1. ASSUME NEW k \in K, env = Extended(b.env, g.args, table.answers[k].args)
          PROVE  Continues(e, c, i, pivot, b, env)
      <3>1. k \in 1 .. m /\ Matches(b.env, g.args, table.answers[k].args)
            /\ (i = pivot => k \in table.delta)
        BY <1>7
      <3>2. env \in [B \cup U -> Value]
        BY <1>15, <2>1, <3>1
      <3>3. (\A x \in B : env[x] = b.env[x]) /\ Instance(g.args, env) = table.answers[k].args
        BY <1>15, <2>1, <3>1, <3>2
      <3>4. Passes(e, c, i, pivot, env)
        BY <1>14, <3>1, <3>3
      <3>. QED
        BY <1>3, <3>2, <3>3, <3>4 DEF Continues
    <2>2. ASSUME Continues(e, c, i, pivot, b, env)
          PROVE  \E k \in K : env = Extended(b.env, g.args, table.answers[k].args)
      <3>1. env \in [B \cup U -> Value] /\ \A x \in B : env[x] = b.env[x]
        BY <1>3, <2>2 DEF Continues
      <3>2. PICK k \in 1 .. m :
                (i = pivot => k \in table.delta) /\ Instance(g.args, env) = table.answers[k].args
        BY <1>14, <2>2 DEF Continues
      <3>3. /\ Matches(b.env, g.args, table.answers[k].args)
            /\ env = Extended(b.env, g.args, table.answers[k].args)
        BY <1>15, <3>1, <3>2
      <3>4. k \in K
        BY <1>5, <1>7, <3>2, <3>3
      <3>. QED
        BY <3>3, <3>4
    <2>. QED
      BY <1>12, <2>1, <2>2
  <1>. QED
    BY <1>10, <1>11, <1>16

\* Goals that only test what is bound.
LEMMA TestEnvs ==
    ASSUME NEW e, NEW c, Ready(e, c), NEW i \in DOMAIN c.body, NEW pivot, NEW b, IsBinding(b),
           b.env \in [VarsUpTo(c, i - 1) -> Value], c.body[i].kind \in {"not", "where"}
    PROVE  /\ \A n \in DOMAIN Step(e, c, i, pivot, b) : IsBinding(Step(e, c, i, pivot, b)[n])
           /\ \A env : env \in Envs(Step(e, c, i, pivot, b)) <=> Continues(e, c, i, pivot, b, env)
  <1>1. PICK g : g = c.body[i] /\ g \in GoalsOf(c)
    BY DEF GoalsOf
  <1>2. SoundGoal(g) /\ (g.kind = "not" => g.of \in Targets(c) /\ g.of \in e.names)
    BY <1>1, GoalsSound
  <1>3. PICK B, U : B = VarsUpTo(c, i - 1) /\ U = Unbound(g.args, <<>>) /\ VarsUpTo(c, i) = B \cup U
    <2>1. i \in Nat \ {0}
      BY SequenceOfElements DEF Ready, Taken
    <2>. QED
      BY <1>1, <2>1, VarsGrow
  <1>4. U \subseteq B /\ B \cup U = B
    <2>1. U \subseteq B
      BY <1>1, <1>3, Zenon DEF Ready, IsSafe
    <2>. QED
      BY <2>1
  <1>5. PICK env0 \in [B -> Value] : env0 = b.env
    BY <1>3
  <1>6. ASSUME NEW env
        PROVE  Continues(e, c, i, pivot, b, env) <=> env = env0 /\ Passes(e, c, i, pivot, env0)
    <2>1. env \in [B -> Value] /\ (\A x \in B : env[x] = env0[x]) <=> env = env0
      BY <1>5
    <2>. QED
      BY <1>3, <1>4, <1>5, <2>1, Zenon DEF Continues
  <1>7. /\ \A env : env \notin Envs(<<>>)
        /\ \A env : env \in Envs(<<b>>) <=> env = env0
        /\ \A n \in DOMAIN <<b>> : IsBinding(<<b>>[n])
    BY <1>5 DEF Envs
  <1>8. SUFFICES Step(e, c, i, pivot, b) = IF Passes(e, c, i, pivot, env0) THEN <<b>> ELSE <<>>
    <2>1. CASE Passes(e, c, i, pivot, env0)
      BY <1>6, <1>7, <1>8, <2>1
    <2>2. CASE ~Passes(e, c, i, pivot, env0)
      BY <1>6, <1>7, <1>8, <2>2
    <2>. QED
      BY <2>1, <2>2
  <1>9. CASE g.kind = "not"
    <2>1. PICK table : table = e.table[g.of] /\ IsASequence(table.answers)
      BY <1>2, <1>9 DEF Ready, HasTables
    <2>2. ASSUME NEW a \in Range(table.answers)
          PROVE  Matches(b.env, g.args, a.args) <=> Instance(g.args, env0) = a.args
      <3>1. a.args \in ToldOf(table)
        BY DEF Range, ToldOf
      <3>2. PICK v \in [DOMAIN g.args -> Value] : v = a.args
        BY <1>2, <1>9, <2>1, <3>1 DEF SoundGoal, Ready, Filled
      <3>3. AreTerms(g.args, Value)
        BY <1>2 DEF SoundGoal
      <3>4. MatchDecides(Value, B, env0, g.args, v)
        BY <3>3, Matched
      <3>5. PICK full \in [B -> Value] : full = Extended(env0, g.args, v)
        BY <1>3, <1>4, <3>4 DEF MatchDecides
      <3>6. \A f \in [B -> Value] : Matches(env0, g.args, v) /\ f = full
               <=> (\A x \in B : f[x] = env0[x]) /\ Instance(g.args, f) = v
        BY <1>3, <1>4, <3>4, <3>5, Zenon DEF MatchDecides
      <3>7. Matches(env0, g.args, v) => full = env0
        BY <3>6
      <3>8. Matches(env0, g.args, v) <=> Instance(g.args, env0) = v
        BY <3>6, <3>7
      <3>. QED
        BY <1>5, <3>2, <3>8
    <2>3. (\E a \in Range(table.answers) : Matches(b.env, g.args, a.args))
            <=> Instance(g.args, env0) \in ToldOf(table)
      BY <2>2 DEF Range, ToldOf
    <2>4. Passes(e, c, i, pivot, env0) <=> <<g.of, Instance(g.args, env0)>> \notin Told(e)
      BY <1>1, <1>9, Zenon DEF Passes, Holds
    <2>5. <<g.of, Instance(g.args, env0)>> \in Told(e) <=> Instance(g.args, env0) \in ToldOf(table)
      BY <1>2, <1>9, <2>1, ToldIs
    <2>6. Step(e, c, i, pivot, b) =
              IF \E a \in Range(table.answers) : Matches(b.env, g.args, a.args) THEN <<>> ELSE <<b>>
      BY <1>1, <1>9, <2>1, Zenon DEF Step
    <2>. QED
      BY <2>3, <2>4, <2>5, <2>6
  <1>10. CASE g.kind = "where"
    <2>1. Passes(e, c, i, pivot, env0) <=> Valued(g.args[1], env0) # Valued(g.args[2], env0)
      BY <1>1, <1>10, Zenon DEF Passes, Holds
    <2>2. Step(e, c, i, pivot, b) =
              IF Valued(g.args[1], b.env) # Valued(g.args[2], b.env) THEN <<b>> ELSE <<>>
      BY <1>1, <1>10, Zenon DEF Step
    <2>. QED
      BY <1>5, <2>1, <2>2
  <1>. QED
    BY <1>1, <1>9, <1>10

\* Assignments bind another variable, or test it.
LEMMA AssignEnvs ==
    ASSUME NEW e, NEW c, Ready(e, c), NEW i \in DOMAIN c.body, NEW pivot, NEW b, IsBinding(b),
           b.env \in [VarsUpTo(c, i - 1) -> Value], c.body[i].kind = "assign"
    PROVE  /\ \A n \in DOMAIN Step(e, c, i, pivot, b) : IsBinding(Step(e, c, i, pivot, b)[n])
           /\ \A env : env \in Envs(Step(e, c, i, pivot, b)) <=> Continues(e, c, i, pivot, b, env)
  <1>1. PICK g : g = c.body[i] /\ g \in GoalsOf(c)
    BY DEF GoalsOf
  <1>2. SoundGoal(g) /\ DOMAIN g.args = 1 .. 2
    BY <1>1, GoalsSound DEF SoundGoal
  <1>3. PICK B : B = VarsUpTo(c, i - 1)
    OBVIOUS
  <1>4. PICK to, from : to = g.args[1] /\ from = g.args[2]
    OBVIOUS
  <1>5. PICK U : U = Unbound(<<to>>, <<>>) /\ VarsUpTo(c, i) = B \cup U
    <2>1. i \in Nat \ {0}
      BY SequenceOfElements DEF Ready, Taken
    <2>2. VarsUpTo(c, i) = B \cup Unbound(g.args, <<>>)
      BY <1>1, <1>3, <2>1, VarsGrow
    <2>3. Unbound(<<from>>, <<>>) \subseteq B
      BY <1>1, <1>3, <1>4, Zenon DEF Ready, IsSafe
    <2>4. Unbound(g.args, <<>>) = Unbound(<<to>>, <<>>) \cup Unbound(<<from>>, <<>>)
      BY <1>2, <1>4 DEF Unbound
    <2>. QED
      BY <2>2, <2>3, <2>4
  <1>6. PICK env0 \in [B -> Value] : env0 = b.env
    BY <1>3
  <1>7. /\ AreTerms(<<to>>, Value)
        /\ \/ from[1] = "var" /\ from[2] \in B
           \/ from[1] = "val" /\ from[2] \in Value
    <2>1. AreTerms(g.args, Value)
      BY <1>2 DEF SoundGoal
    <2>2. AreTerms(<<to>>, Value) /\ AreTerms(<<from>>, Value)
      BY <1>2, <1>4, <2>1 DEF AreTerms
    <2>3. Unbound(<<from>>, <<>>) \subseteq B
      BY <1>1, <1>3, <1>4, Zenon DEF Ready, IsSafe
    <2>4. DOMAIN <<from>> = {1} /\ <<from>>[1] = from
      OBVIOUS
    <2>5. \/ from[1] = "var" /\ from[2] \in Unbound(<<from>>, <<>>)
          \/ from[1] = "val" /\ from[2] \in Value
      BY <2>2, <2>4, VariablesAre
    <2>6. from[1] = "var" => from[2] \in B
      BY <2>3, <2>5
    <2>. QED
      BY <2>2, <2>5, <2>6
  <1>8. PICK v \in Value : v = Valued(from, env0)
    BY <1>7 DEF Valued
  <1>9. ASSUME NEW env, \A x \in B : env[x] = env0[x]
        PROVE  Valued(from, env) = v
    BY <1>7, <1>8, <1>9 DEF Valued
  <1>10. MatchDecides(Value, B, env0, <<to>>, <<v>>)
    <2>1. <<v>> \in [DOMAIN <<to>> -> Value]
      OBVIOUS
    <2>. QED
      BY <1>7, <2>1, Matched
  <1>11. PICK full \in [B \cup U -> Value] : full = Extended(env0, <<to>>, <<v>>)
    BY <1>5, <1>10 DEF MatchDecides
  <1>12. ASSUME NEW f
         PROVE  Instance(<<to>>, f) = <<v>> <=> Valued(to, f) = v
    <2>1. Instance(<<to>>, f) = <<Valued(to, f)>>
      BY DEF Instance
    <2>. QED
      BY <2>1
  <1>13. ASSUME NEW f \in [B \cup U -> Value]
         PROVE  Matches(env0, <<to>>, <<v>>) /\ f = full
                    <=> (\A x \in B : f[x] = env0[x]) /\ Valued(to, f) = v
    BY <1>5, <1>10, <1>11, <1>12, Zenon DEF MatchDecides
  <1>14. ASSUME NEW env
         PROVE  Continues(e, c, i, pivot, b, env) <=> Matches(env0, <<to>>, <<v>>) /\ env = full
    <2>1. Passes(e, c, i, pivot, env) <=> Valued(to, env) = Valued(from, env)
      BY <1>1, <1>4, Zenon DEF Passes, Holds
    <2>2. Continues(e, c, i, pivot, b, env) <=>
              /\ env \in [B \cup U -> Value]
              /\ \A x \in B : env[x] = env0[x]
              /\ Valued(to, env) = Valued(from, env)
      BY <1>3, <1>5, <1>6, <2>1, Zenon DEF Continues
    <2>. QED
      BY <1>9, <1>13, <2>2
  <1>15. PICK r : r = [b EXCEPT !.env = full]
    OBVIOUS
  <1>16. Step(e, c, i, pivot, b) = IF Matches(env0, <<to>>, <<v>>) THEN <<r>> ELSE <<>>
    <2>1. Step(e, c, i, pivot, b) =
              IF Matches(b.env, <<to>>, <<Valued(from, b.env)>>)
              THEN <<[b EXCEPT !.env = Extended(@, <<to>>, <<Valued(from, b.env)>>)]>> ELSE <<>>
      BY <1>1, <1>4, Zenon DEF Step
    <2>. QED
      BY <1>6, <1>8, <1>11, <1>15, <2>1, Zenon
  <1>17. r = [env |-> full, from |-> b.from]
    <2>1. PICK en, fr : b = [env |-> en, from |-> fr] /\ fr = b.from
      BY DEF IsBinding
    <2>. QED
      BY <1>15, <2>1
  <1>18. /\ \A env : env \notin Envs(<<>>)
         /\ \A env : env \in Envs(<<r>>) <=> env = full
         /\ \A n \in DOMAIN <<r>> : IsBinding(<<r>>[n])
    BY <1>17 DEF Envs, IsBinding
  <1>19. CASE Matches(env0, <<to>>, <<v>>)
    BY <1>14, <1>16, <1>18, <1>19
  <1>20. CASE ~Matches(env0, <<to>>, <<v>>)
    BY <1>14, <1>16, <1>18, <1>20
  <1>. QED
    BY <1>19, <1>20

\* A goal after the binding b: the environments it continues with.
StepDecides(e, c, i, pivot, b) ==
    /\ \A n \in DOMAIN Step(e, c, i, pivot, b) : IsBinding(Step(e, c, i, pivot, b)[n])
    /\ \A env : env \in Envs(Step(e, c, i, pivot, b)) <=> Continues(e, c, i, pivot, b, env)

LEMMA StepEnvs ==
    ASSUME NEW e, NEW c, Ready(e, c), NEW i \in DOMAIN c.body, NEW pivot, NEW b, IsBinding(b),
           b.env \in [VarsUpTo(c, i - 1) -> Value]
    PROVE  StepDecides(e, c, i, pivot, b)
  <1>1. PICK g \in GoalsOf(c) : g = c.body[i]
    BY DEF GoalsOf
  <1>2. g.kind \in {"call", "not", "where", "assign"}
    BY GoalsSound DEF SoundGoal
  <1>3. CASE g.kind = "call"
    BY <1>1, <1>3, CallEnvs DEF StepDecides
  <1>4. CASE g.kind \in {"not", "where"}
    BY <1>1, <1>4, TestEnvs DEF StepDecides
  <1>5. CASE g.kind = "assign"
    BY <1>1, <1>5, AssignEnvs DEF StepDecides
  <1>. QED
    BY <1>2, <1>3, <1>4, <1>5

\* The first n goals are met.
Fulfils(e, c, pivot, n, env) ==
    /\ env \in [VarsUpTo(c, n) -> Value]
    /\ \A i \in 1 .. n : Passes(e, c, i, pivot, env)

LEMMA VarsWithin ==
    ASSUME NEW c, NEW n \in Nat, NEW i \in 1 .. n
    PROVE  Unbound(c.body[i].args, <<>>) \subseteq VarsUpTo(c, n)
  BY DEF VarsUpTo

\* What fulfils the next goal too is what continues.
LEMMA FulfilsNext ==
    ASSUME NEW e, NEW c, Ready(e, c), NEW pivot, NEW n \in Nat, n + 1 \in DOMAIN c.body, NEW env
    PROVE  Fulfils(e, c, pivot, n + 1, env) <=>
               \E old : /\ Fulfils(e, c, pivot, n, old)
                        /\ env \in [VarsUpTo(c, n + 1) -> Value]
                        /\ \A x \in VarsUpTo(c, n) : env[x] = old[x]
                        /\ Passes(e, c, n + 1, pivot, env)
  <1>1. PICK B, D : B = VarsUpTo(c, n) /\ D = VarsUpTo(c, n + 1)
    OBVIOUS
  <1>2. B \subseteq D
    <2>1. n + 1 \in Nat \ {0} /\ (n + 1) - 1 = n
      OBVIOUS
    <2>. QED
      BY <1>1, <2>1, VarsGrow
  <1>3. ASSUME NEW f, NEW g, \A x \in B : f[x] = g[x], NEW i \in 1 .. n
        PROVE  Passes(e, c, i, pivot, f) <=> Passes(e, c, i, pivot, g)
    <2>1. i \in DOMAIN c.body
      <3>1. PICK k \in Nat : DOMAIN c.body = 1 .. k
        BY SequenceOfElements DEF Ready, Taken
      <3>. QED
        BY <3>1
    <2>2. PICK goal \in GoalsOf(c) : goal = c.body[i]
      BY <2>1 DEF GoalsOf
    <2>3. SoundGoal(goal)
      BY GoalsSound
    <2>4. \A x \in Unbound(goal.args, <<>>) : f[x] = g[x]
      BY <1>1, <1>3, <2>2, VarsWithin
    <2>5. PICK S, I : S = (IF i = pivot THEN Fresh(e) ELSE Told(e)) /\ I = Told(e)
      OBVIOUS
    <2>6. Holds(goal, f, S, I) <=> Holds(goal, g, S, I)
      BY <2>3, <2>4, HoldsAgrees
    <2>. QED
      BY <2>2, <2>5, <2>6, Zenon DEF Passes
  <1>4. \A i \in 1 .. n + 1 : i \in 1 .. n \/ i = n + 1
    OBVIOUS
  <1>5. n + 1 \in 1 .. n + 1 /\ \A i \in 1 .. n : i \in 1 .. n + 1
    OBVIOUS
  <1>6. ASSUME Fulfils(e, c, pivot, n + 1, env)
        PROVE  \E old : /\ Fulfils(e, c, pivot, n, old)
                        /\ env \in [VarsUpTo(c, n + 1) -> Value]
                        /\ \A x \in VarsUpTo(c, n) : env[x] = old[x]
                        /\ Passes(e, c, n + 1, pivot, env)
    <2>1. env \in [D -> Value]
      BY <1>1, <1>6 DEF Fulfils
    <2>2. PICK old : old = [x \in B |-> env[x]]
      OBVIOUS
    <2>3. old \in [B -> Value] /\ \A x \in B : env[x] = old[x]
      BY <1>2, <2>1, <2>2
    <2>4. \A i \in 1 .. n : Passes(e, c, i, pivot, old)
      BY <1>3, <1>5, <1>6, <2>3 DEF Fulfils
    <2>5. Passes(e, c, n + 1, pivot, env)
      BY <1>5, <1>6 DEF Fulfils
    <2>6. Fulfils(e, c, pivot, n, old)
      BY <1>1, <2>3, <2>4 DEF Fulfils
    <2>. QED
      BY <1>1, <2>1, <2>3, <2>5, <2>6
  <1>7. ASSUME NEW old, Fulfils(e, c, pivot, n, old),
               env \in [VarsUpTo(c, n + 1) -> Value],
               \A x \in VarsUpTo(c, n) : env[x] = old[x],
               Passes(e, c, n + 1, pivot, env)
        PROVE  Fulfils(e, c, pivot, n + 1, env)
    <2>1. \A i \in 1 .. n : Passes(e, c, i, pivot, env)
      BY <1>1, <1>3, <1>7 DEF Fulfils
    <2>. QED
      BY <1>4, <1>7, <2>1 DEF Fulfils
  <1>. QED
    BY <1>6, <1>7

\* The bindings of a rule are the environments that fulfil its goals.
LEMMA BindingsEnvs ==
    ASSUME NEW e, NEW c, Ready(e, c), NEW pivot
    PROVE  \A env : env \in Envs(Bindings(e, c, pivot)) <=> Fulfils(e, c, pivot, Len(c.body), env)
  <1>1. PICK k \in Nat : k = Len(c.body) /\ DOMAIN c.body = 1 .. k
    BY SequenceOfElements DEF Ready, Taken
  <1>2. PICK u : BindingsAfter(e, c, pivot, k, u) /\ Bindings(e, c, pivot) = u[k]
    BY <1>1, BindingsFollow DEF Ready
  <1> DEFINE G == {n \in 0 .. k :
                      /\ \A j \in DOMAIN u[n] : IsBinding(u[n][j])
                      /\ \A env : env \in Envs(u[n]) <=> Fulfils(e, c, pivot, n, env)}
  <1>3. 0 \in G
    <2>1. PICK s : s = StartOfBindings /\ u[0] = s
      BY <1>2 DEF BindingsAfter
    <2>2. /\ \A j \in DOMAIN s : IsBinding(s[j])
          /\ \A env : env \in Envs(s) <=> env = <<>>
      BY <2>1 DEF StartOfBindings, IsBinding, Envs
    <2>3. VarsUpTo(c, 0) = {} /\ 1 .. 0 = {}
      BY DEF VarsUpTo
    <2>4. \A env : env \in [{} -> Value] <=> env = <<>>
      <3>1. <<>> \in Seq(Value) /\ Len(<<>>) = 0
        OBVIOUS
      <3>2. <<>> \in [1 .. 0 -> Value] /\ 1 .. 0 = {}
        BY <3>1
      <3>3. PICK f \in [{} -> Value] : f = <<>>
        BY <3>2
      <3>4. \A g \in [{} -> Value] : g = f
        OBVIOUS
      <3>. QED
        BY <3>3, <3>4
    <2>5. \A env : Fulfils(e, c, pivot, 0, env) <=> env = <<>>
      BY <2>3, <2>4 DEF Fulfils
    <2>. QED
      BY <2>1, <2>2, <2>5
  <1>4. ASSUME NEW n \in 0 .. k - 1, n \in G
        PROVE  n + 1 \in G
    <2>1. n \in Nat /\ n + 1 \in 1 .. k /\ n + 1 \in DOMAIN c.body /\ (n + 1) - 1 = n
          /\ n + 1 \in 0 .. k
      BY <1>1
    <2>2. PICK s, t : s = u[n] /\ t = u[n + 1]
      OBVIOUS
    <2>3. /\ IsASequence(s) /\ IsASequence(t)
          /\ t = FlattenSeq([j \in DOMAIN s |-> Step(e, c, n + 1, pivot, s[j])])
      BY <1>2, <2>1, <2>2 DEF BindingsAfter
    <2>4. /\ \A j \in DOMAIN s : IsBinding(s[j])
          /\ \A env : env \in Envs(s) <=> Fulfils(e, c, pivot, n, env)
      BY <1>4, <2>2
    <2>5. PICK m \in Nat : DOMAIN s = 1 .. m
      BY <2>3, SequenceOfElements
    <2>6. PICK ss : ss = [j \in 1 .. m |-> Step(e, c, n + 1, pivot, s[j])]
      OBVIOUS
    <2>7. ASSUME NEW j \in 1 .. m
          PROVE  /\ IsASequence(ss[j])
                 /\ \A i \in DOMAIN ss[j] : IsBinding(ss[j][i])
                 /\ \A env : env \in Envs(ss[j]) <=> Continues(e, c, n + 1, pivot, s[j], env)
      <3>1. ss[j] = Step(e, c, n + 1, pivot, s[j])
        BY <2>6
      <3>2. IsBinding(s[j]) /\ s[j].env \in Envs(s)
        BY <2>4, <2>5 DEF Envs
      <3>3. s[j].env \in [VarsUpTo(c, n) -> Value]
        BY <2>4, <3>2 DEF Fulfils
      <3>4. StepDecides(e, c, n + 1, pivot, s[j])
        BY <2>1, <3>2, <3>3, StepEnvs
      <3>5. IsASequence(ss[j])
        BY <2>1, <3>1, StepSequence DEF Ready
      <3>. QED
        BY <3>1, <3>4, <3>5 DEF StepDecides
    <2>8. /\ \A x \in Range(t) : \E j \in 1 .. m : x \in Range(ss[j])
          /\ \A j \in 1 .. m : Range(ss[j]) \subseteq Range(t)
      <3>1. ss = [j \in 1 .. m |-> ss[j]]
        BY <2>6
      <3>2. t = FlattenSeq(ss)
        BY <2>3, <2>5, <2>6
      <3>. QED
        BY <2>7, <3>1, <3>2, Joined
    <2>9. \A r : /\ \A env : env \in Envs(r) <=> \E x \in Range(r) : env = x.env
                 /\ (\A i \in DOMAIN r : IsBinding(r[i])) <=> \A x \in Range(r) : IsBinding(x)
      BY DEF Envs, Range
    <2>10. \A i \in DOMAIN t : IsBinding(t[i])
      <3>1. ASSUME NEW x \in Range(t)
            PROVE  IsBinding(x)
        <4>1. PICK j \in 1 .. m : x \in Range(ss[j])
          BY <2>8
        <4>. QED
          BY <2>7, <2>9, <4>1
      <3>. QED
        BY <2>9, <3>1
    <2>11. ASSUME NEW env
           PROVE  env \in Envs(t) <=> \E j \in 1 .. m : Continues(e, c, n + 1, pivot, s[j], env)
      <3>1. ASSUME env \in Envs(t)
            PROVE  \E j \in 1 .. m : Continues(e, c, n + 1, pivot, s[j], env)
        <4>1. PICK x \in Range(t) : env = x.env
          BY <2>9, <3>1
        <4>2. PICK j \in 1 .. m : x \in Range(ss[j])
          BY <2>8
        <4>3. env \in Envs(ss[j])
          BY <2>9, <4>1, <4>2
        <4>. QED
          BY <2>7, <4>3
      <3>2. ASSUME NEW j \in 1 .. m, Continues(e, c, n + 1, pivot, s[j], env)
            PROVE  env \in Envs(t)
        <4>1. env \in Envs(ss[j])
          BY <2>7, <3>2
        <4>2. PICK x \in Range(ss[j]) : env = x.env
          BY <2>9, <4>1
        <4>3. x \in Range(t)
          BY <2>8
        <4>. QED
          BY <2>9, <4>2, <4>3
      <3>. QED
        BY <3>1, <3>2
    <2>12. ASSUME NEW env
           PROVE  (\E j \in 1 .. m : Continues(e, c, n + 1, pivot, s[j], env))
                      <=> Fulfils(e, c, pivot, n + 1, env)
      <3>1. \A j \in 1 .. m : Continues(e, c, n + 1, pivot, s[j], env) <=>
                /\ env \in [VarsUpTo(c, n + 1) -> Value]
                /\ \A x \in VarsUpTo(c, n) : env[x] = s[j].env[x]
                /\ Passes(e, c, n + 1, pivot, env)
        BY <2>1 DEF Continues
      <3>2. \A old : Fulfils(e, c, pivot, n, old) <=> \E j \in 1 .. m : old = s[j].env
        BY <2>4, <2>5 DEF Envs
      <3>3. Fulfils(e, c, pivot, n + 1, env) <=>
               \E old : /\ Fulfils(e, c, pivot, n, old)
                        /\ env \in [VarsUpTo(c, n + 1) -> Value]
                        /\ \A x \in VarsUpTo(c, n) : env[x] = old[x]
                        /\ Passes(e, c, n + 1, pivot, env)
        BY <2>1, FulfilsNext
      <3>4. ASSUME NEW j \in 1 .. m, Continues(e, c, n + 1, pivot, s[j], env)
            PROVE  Fulfils(e, c, pivot, n + 1, env)
        <4>1. PICK old : old = s[j].env /\ Fulfils(e, c, pivot, n, old)
          BY <3>2
        <4>. QED
          BY <3>1, <3>3, <3>4, <4>1
      <3>5. ASSUME Fulfils(e, c, pivot, n + 1, env)
            PROVE  \E j \in 1 .. m : Continues(e, c, n + 1, pivot, s[j], env)
        <4>1. PICK old : /\ Fulfils(e, c, pivot, n, old)
                         /\ env \in [VarsUpTo(c, n + 1) -> Value]
                         /\ \A x \in VarsUpTo(c, n) : env[x] = old[x]
                         /\ Passes(e, c, n + 1, pivot, env)
          BY <3>3, <3>5
        <4>2. PICK j \in 1 .. m : old = s[j].env
          BY <3>2, <4>1
        <4>. QED
          BY <3>1, <4>1, <4>2
      <3>. QED
        BY <3>4, <3>5
    <2>. QED
      BY <2>1, <2>2, <2>10, <2>11, <2>12
  <1>5. k \in G
    <2> HIDE DEF G
    <2>. QED
      BY <1>3, <1>4, Counting
  <1>. QED
    BY <1>1, <1>2, <1>5

------------------------------------------------------------------------------
(* What a round proves is what the rules yield *)

ProvedBy(proofs) == {proofs[k].of : k \in DOMAIN proofs}

LEMMA ProvedAre ==
    ASSUME NEW proofs
    PROVE  \A a : a \in ProvedBy(proofs) <=> \E x \in Range(proofs) : a = x.of
  BY DEF ProvedBy, Range

\* The goals of a rule that new answers go to.
PivotGoals(e, c) ==
    {i \in DOMAIN c.body : /\ c.body[i].kind = "call"
                           /\ e.stratum[c.body[i].of] = e.current
                           /\ e.table[c.body[i].of].delta # {}}

LEMMA PivotsAre ==
    ASSUME NEW e, NEW c, Taken(c)
    PROVE  /\ IsASequence(Pivots(e, c))
           /\ Range(Pivots(e, c)) =
                  IF PivotGoals(e, c) = {} /\ e.first THEN {0} ELSE PivotGoals(e, c)
  <1>1. PICK n \in Nat : n = Len(c.body) /\ DOMAIN c.body = 1 .. n
    BY SequenceOfElements DEF Taken
  <1>2. PICK K \in SUBSET (1 .. n) : K = PivotGoals(e, c)
    BY <1>1 DEF PivotGoals
  <1>3. PICK ks \in Seq(K) : /\ ks = Ascending(K, n)
                             /\ \A k \in K : \E i \in DOMAIN ks : ks[i] = k
    BY AscendingLists
  <1>4. Range(ks) = K /\ (ks = <<>> <=> K = {})
    <2>1. \A i \in DOMAIN ks : ks[i] \in K
      BY ElementOfSeq
    <2>2. Range(ks) = K
      BY <1>3, <2>1 DEF Range
    <2>3. ks = <<>> => K = {}
      BY <1>3
    <2>4. K = {} => ks = <<>>
      BY EmptySeq
    <2>. QED
      BY <2>2, <2>3, <2>4
  <1>5. Pivots(e, c) = IF ks = <<>> /\ e.first THEN <<0>> ELSE ks
    <2>1. ks = Ascending({i \in DOMAIN c.body : /\ c.body[i].kind = "call"
                                                /\ e.stratum[c.body[i].of] = e.current
                                                /\ e.table[c.body[i].of].delta # {}}, Len(c.body))
      BY <1>1, <1>2, <1>3 DEF PivotGoals
    <2>. QED
      BY <2>1, Zenon DEF Pivots, Positions
  <1>6. IsASequence(<<0>>) /\ Range(<<0>>) = {0}
    <2>1. <<0>> \in Seq(Nat)
      OBVIOUS
    <2>2. IsASequence(<<0>>)
      BY <2>1, AnySequence
    <2>. QED
      BY <2>2 DEF Range
  <1>7. IsASequence(ks)
    BY AnySequence
  <1>. QED
    BY <1>2, <1>4, <1>5, <1>6, <1>7

\* A rule proves an atom from some pivot on.
LEMMA RuleProves ==
    ASSUME NEW e, NEW c, Ready(e, c)
    PROVE  \A a : a \in ProvedBy(Proofs(e, c)) <=>
               \E pivot \in Range(Pivots(e, c)) : \E env :
                   Fulfils(e, c, pivot, Len(c.body), env) /\ a = <<c.head, Instance(c.args, env)>>
  <1> DEFINE Proved(pivot) == LET found == Bindings(e, c, pivot)
                              IN [k \in DOMAIN found |->
                                    RuleProof(c, Instance(c.args, found[k].env), found[k].from)]
             From(pivot, a) == \E env : /\ Fulfils(e, c, pivot, Len(c.body), env)
                                        /\ a = <<c.head, Instance(c.args, env)>>
  <1>1. ASSUME NEW pivot
        PROVE  IsASequence(Proved(pivot)) /\ \A a : a \in ProvedBy(Proved(pivot)) <=> From(pivot, a)
    <2>1. PICK found : found = Bindings(e, c, pivot) /\ IsASequence(found)
      BY BindingsSequence DEF Ready
    <2>2. PICK m \in Nat : DOMAIN found = 1 .. m
      BY <2>1, SequenceOfElements
    <2>3. PICK r : r = [k \in 1 .. m |->
                          RuleProof(c, Instance(c.args, found[k].env), found[k].from)]
      OBVIOUS
    <2>4. IsASequence(r)
      BY <2>3, FunctionIsASequence
    <2>5. Proved(pivot) = r
      BY <2>1, <2>2, <2>3, Zenon
    <2>6. DOMAIN r = 1 .. m /\ \A k \in 1 .. m : r[k].of = <<c.head, Instance(c.args, found[k].env)>>
      BY <2>3 DEF RuleProof
    <2>7. \A env : Fulfils(e, c, pivot, Len(c.body), env) <=> \E k \in 1 .. m : env = found[k].env
      <3>1. \A env : env \in Envs(found) <=> \E k \in 1 .. m : env = found[k].env
        BY <2>2 DEF Envs
      <3>. QED
        BY <2>1, <3>1, BindingsEnvs
    <2>8. ASSUME NEW a
          PROVE  a \in ProvedBy(r) <=> From(pivot, a)
      <3>1. a \in ProvedBy(r) <=> \E k \in 1 .. m : a = <<c.head, Instance(c.args, found[k].env)>>
        BY <2>6 DEF ProvedBy
      <3>. QED
        BY <2>7, <3>1
    <2>. QED
      BY <2>4, <2>5, <2>8
  <1>2. PICK ps : ps = Pivots(e, c) /\ IsASequence(ps)
    BY PivotsAre DEF Ready
  <1>3. PICK n \in Nat : DOMAIN ps = 1 .. n
    BY <1>2, SequenceOfElements
  <1> HIDE DEF Proved
  <1>4. PICK ss : ss = [j \in 1 .. n |-> Proved(ps[j])]
    OBVIOUS
  <1>5. Proofs(e, c) = FlattenSeq(ss)
    BY <1>2, <1>3, <1>4, Zenon DEF Proofs, Proved
  <1> HIDE DEF From
  <1>6. /\ \A j \in 1 .. n : IsASequence(ss[j]) /\ \A a : a \in ProvedBy(ss[j]) <=> From(ps[j], a)
        /\ ss = [j \in 1 .. n |-> ss[j]]
    BY <1>1, <1>4
  <1>7. /\ \A x \in Range(FlattenSeq(ss)) : \E j \in 1 .. n : x \in Range(ss[j])
        /\ \A j \in 1 .. n : Range(ss[j]) \subseteq Range(FlattenSeq(ss))
    BY <1>6, Joined
  <1>8. ASSUME NEW a
        PROVE  a \in ProvedBy(FlattenSeq(ss)) <=> \E j \in 1 .. n : From(ps[j], a)
    <2>1. a \in ProvedBy(FlattenSeq(ss)) <=> \E j \in 1 .. n : a \in ProvedBy(ss[j])
      BY <1>7, ProvedAre
    <2>. QED
      BY <1>6, <2>1
  <1>9. \A a : (\E j \in 1 .. n : From(ps[j], a)) <=> \E pivot \in Range(ps) : From(pivot, a)
    BY <1>3 DEF Range
  <1>. QED
    BY <1>2, <1>5, <1>8, <1>9 DEF From

\* The rules of the stratum are all rules with heads in it.
LEMMA StratumRulesAre ==
    ASSUME NEW e, IsASequence(e.rules)
    PROVE  /\ IsASequence(StratumRules(e))
           /\ \A c : c \in Range(StratumRules(e)) <=>
                  c \in Range(e.rules) /\ e.stratum[c.head] = e.current
  <1>1. PICK m \in Nat : m = Len(e.rules) /\ DOMAIN e.rules = 1 .. m
    BY SequenceOfElements
  <1>2. PICK K \in SUBSET (1 .. m) :
            K = {k \in DOMAIN e.rules : e.stratum[e.rules[k].head] = e.current}
    BY <1>1
  <1>3. PICK ks \in Seq(K) : /\ ks = Ascending(K, m)
                             /\ \A k \in K : \E i \in DOMAIN ks : ks[i] = k
    BY AscendingLists
  <1>4. PICK n \in Nat : DOMAIN ks = 1 .. n
    OBVIOUS
  <1>5. PICK rs : rs = [i \in 1 .. n |-> e.rules[ks[i]]]
    OBVIOUS
  <1>6. StratumRules(e) = rs
    <2>1. ks = Ascending({k \in DOMAIN e.rules : e.stratum[e.rules[k].head] = e.current}, Len(e.rules))
      BY <1>1, <1>2, <1>3
    <2>. QED
      BY <1>4, <1>5, <2>1, Zenon DEF StratumRules, Positions
  <1>7. \A c : (\E i \in 1 .. n : c = rs[i]) <=> c \in Range(e.rules) /\ e.stratum[c.head] = e.current
    <2>1. \A i \in 1 .. n : ks[i] \in K
      BY <1>4, ElementOfSeq
    <2>2. ASSUME NEW i \in 1 .. n
          PROVE  rs[i] \in Range(e.rules) /\ e.stratum[rs[i].head] = e.current
      <3>1. PICK k \in K : k = ks[i]
        BY <2>1
      <3>2. rs[i] = e.rules[k]
        BY <1>5, <3>1
      <3>. QED
        BY <1>2, <3>2 DEF Range
    <2>3. ASSUME NEW c \in Range(e.rules), e.stratum[c.head] = e.current
          PROVE  \E i \in 1 .. n : c = rs[i]
      <3>1. PICK k \in DOMAIN e.rules : c = e.rules[k]
        BY DEF Range
      <3>2. k \in K
        BY <1>2, <2>3, <3>1
      <3>3. PICK i \in 1 .. n : ks[i] = k
        BY <1>3, <1>4, <3>2
      <3>. QED
        BY <1>5, <3>1, <3>3
    <2>. QED
      BY <2>2, <2>3
  <1>8. \A c : c \in Range(rs) <=> \E i \in 1 .. n : c = rs[i]
    BY <1>5 DEF Range
  <1>9. IsASequence(rs)
    BY <1>5, FunctionIsASequence
  <1>. QED
    BY <1>6, <1>7, <1>8, <1>9

\* A round proves what the rules of its stratum prove.
LEMMA RoundProves ==
    ASSUME NEW e, IsASequence(e.rules), \A c \in Range(e.rules) : Taken(c) /\ HasTables(e, c)
    PROVE  \A a : a \in ProvedBy(RoundProofs(e)) <=>
               \E c \in Range(e.rules) : e.stratum[c.head] = e.current /\ a \in ProvedBy(Proofs(e, c))
  <1>1. PICK rs : rs = StratumRules(e) /\ IsASequence(rs)
    BY StratumRulesAre
  <1>2. PICK n \in Nat : DOMAIN rs = 1 .. n
    BY <1>1, SequenceOfElements
  <1>7. \A c : (\E i \in 1 .. n : c = rs[i]) <=> c \in Range(e.rules) /\ e.stratum[c.head] = e.current
    <2>1. \A c : c \in Range(rs) <=> \E i \in 1 .. n : c = rs[i]
      BY <1>2 DEF Range
    <2>. QED
      BY <1>1, <2>1, StratumRulesAre
  <1>8. PICK ss : ss = [i \in 1 .. n |-> Proofs(e, rs[i])]
    OBVIOUS
  <1>9. RoundProofs(e) = FlattenSeq(ss)
    BY <1>1, <1>2, <1>8, Zenon DEF RoundProofs
  <1>10. \A i \in 1 .. n : IsASequence(ss[i])
    <2>1. TAKE i \in 1 .. n
    <2>2. PICK c \in Range(e.rules) : c = rs[i]
      BY <1>7
    <2>3. IsASequence(Proofs(e, c))
      BY RuleProved DEF ByRules
    <2>. QED
      BY <1>8, <2>2, <2>3
  <1>11. ss = [i \in 1 .. n |-> ss[i]]
    BY <1>8
  <1>12. /\ \A x \in Range(FlattenSeq(ss)) : \E j \in 1 .. n : x \in Range(ss[j])
         /\ \A j \in 1 .. n : Range(ss[j]) \subseteq Range(FlattenSeq(ss))
    BY <1>10, <1>11, Joined
  <1>13. ASSUME NEW a
         PROVE  a \in ProvedBy(FlattenSeq(ss)) <=> \E i \in 1 .. n : a \in ProvedBy(Proofs(e, rs[i]))
    <2>1. a \in ProvedBy(FlattenSeq(ss)) <=> \E j \in 1 .. n : a \in ProvedBy(ss[j])
      BY <1>12, ProvedAre
    <2>. QED
      BY <1>8, <2>1
  <1>. QED
    BY <1>7, <1>9, <1>13

LEMMA SafeVars ==
    ASSUME NEW c, Taken(c), IsSafe(c)
    PROVE  VarsOf(c) = VarsUpTo(c, Len(c.body))
  <1>1. PICK n \in Nat : n = Len(c.body) /\ DOMAIN c.body = 1 .. n
    BY SequenceOfElements DEF Taken
  <1>2. UNION {Unbound(g.args, <<>>) : g \in GoalsOf(c)} = VarsUpTo(c, n)
    BY <1>1 DEF GoalsOf, VarsUpTo
  <1>3. Unbound(c.args, <<>>) \subseteq VarsUpTo(c, n)
    BY <1>1 DEF IsSafe
  <1>. QED
    BY <1>1, <1>2, <1>3 DEF VarsOf

\* The rules of an evaluation can be evaluated on its tables.
Evaluable(e) ==
    /\ IsASequence(e.rules)
    /\ \A c \in Range(e.rules) : c.head \in e.names /\ Ready(e, c)

\* All a round proves is yielded by its rules from the answers.
LEMMA RoundSound ==
    ASSUME NEW e, Evaluable(e), NEW a \in ProvedBy(RoundProofs(e))
    PROVE  \E c \in Range(e.rules) : /\ e.stratum[c.head] = e.current
                                     /\ Yields(c, Value, Told(e), Told(e), a)
  <1>1. PICK c \in Range(e.rules) : e.stratum[c.head] = e.current /\ a \in ProvedBy(Proofs(e, c))
    BY RoundProves DEF Evaluable, Ready
  <1>2. Ready(e, c)
    BY DEF Evaluable
  <1>3. PICK pivot, env : /\ Fulfils(e, c, pivot, Len(c.body), env)
                          /\ a = <<c.head, Instance(c.args, env)>>
    BY <1>1, <1>2, RuleProves
  <1>4. PICK n \in Nat : n = Len(c.body) /\ DOMAIN c.body = 1 .. n
    BY <1>2, SequenceOfElements DEF Ready, Taken
  <1>5. env \in [VarsOf(c) -> Value]
    BY <1>2, <1>3, SafeVars DEF Fulfils, Ready
  <1>6. ASSUME NEW g \in GoalsOf(c)
        PROVE  Holds(g, env, Told(e), Told(e))
    <2>1. PICK i \in 1 .. n : g = c.body[i]
      BY <1>4 DEF GoalsOf
    <2>2. PICK S : S = (IF i = pivot THEN Fresh(e) ELSE Told(e)) /\ S \subseteq Told(e)
      BY ToldIs
    <2>3. Holds(g, env, S, Told(e))
      BY <1>3, <1>4, <2>1, <2>2, Zenon DEF Fulfils, Passes
    <2>. QED
      BY <2>2, <2>3, HoldsMore
  <1>. QED
    BY <1>1, <1>3, <1>5, <1>6 DEF Yields

\* The answers but the new ones of the stratum.
Settled(e) == {a \in Told(e) : a \in Fresh(e) => e.stratum[a[1]] # e.current}

\* In the first round of a stratum all its answers are new.
AllNew(e, p) == FreshOf(e.table[p]) = ToldOf(e.table[p])

\* A round misses nothing that the rules yield from a new answer, nor anything
\* in the first round.
LEMMA RoundComplete ==
    ASSUME NEW e, Evaluable(e),
           e.first => \A p \in e.names : e.stratum[p] = e.current => AllNew(e, p),
           NEW c \in Range(e.rules), e.stratum[c.head] = e.current,
           NEW a, Yields(c, Value, Told(e), Told(e), a),
           ~e.first => ~Yields(c, Value, Settled(e), Told(e), a)
    PROVE  a \in ProvedBy(RoundProofs(e))
  <1>1. Ready(e, c)
    BY DEF Evaluable
  <1>2. PICK env \in [VarsOf(c) -> Value] :
            (\A g \in GoalsOf(c) : Holds(g, env, Told(e), Told(e))) /\ a = <<c.head, Instance(c.args, env)>>
    BY DEF Yields
  <1>3. PICK n \in Nat : n = Len(c.body) /\ DOMAIN c.body = 1 .. n
    BY <1>1, SequenceOfElements DEF Ready, Taken
  <1>4. env \in [VarsUpTo(c, n) -> Value]
    BY <1>1, <1>3, SafeVars DEF Ready
  <1>5. SUFFICES \E pivot \in Range(Pivots(e, c)) : Fulfils(e, c, pivot, n, env)
    <2>1. a \in ProvedBy(Proofs(e, c))
      BY <1>1, <1>2, <1>3, <1>5, RuleProves
    <2>. QED
      BY <2>1, RoundProves DEF Evaluable, Ready
  <1>6. \A i \in 1 .. n : Holds(c.body[i], env, Told(e), Told(e)) /\ c.body[i] \in GoalsOf(c)
    BY <1>2, <1>3 DEF GoalsOf
  <1> DEFINE Atom(i) == <<c.body[i].of, Instance(c.body[i].args, env)>>
             OfStratum(i) == c.body[i].kind = "call" /\ e.stratum[c.body[i].of] = e.current
  <1>7. ASSUME NEW i \in 1 .. n, c.body[i].kind = "call"
        PROVE  Atom(i) \in Told(e) /\ c.body[i].of \in e.names
    <2>1. Atom(i) \in Told(e)
      BY <1>6, <1>7, Zenon DEF Holds
    <2>. QED
      BY <2>1, ToldIs
  <1>8. CASE \E i \in 1 .. n : OfStratum(i) /\ Atom(i) \in Fresh(e)
    <2>1. PICK i \in 1 .. n : OfStratum(i) /\ Atom(i) \in Fresh(e)
      BY <1>8
    <2>2. e.table[c.body[i].of].delta # {}
      <3>1. Instance(c.body[i].args, env) \in FreshOf(e.table[c.body[i].of])
        BY <2>1, ToldIs
      <3>. QED
        BY <3>1 DEF FreshOf
    <2>3. i \in Range(Pivots(e, c))
      <3>1. i \in PivotGoals(e, c)
        BY <1>3, <2>1, <2>2 DEF PivotGoals
      <3>. QED
        BY <1>1, <3>1, PivotsAre DEF Ready
    <2>4. ASSUME NEW j \in 1 .. n
          PROVE  Passes(e, c, j, i, env)
      <3>1. CASE j = i
        <4>1. Holds(c.body[j], env, Fresh(e), Told(e))
          BY <2>1, <3>1, Zenon DEF Holds
        <4>. QED
          BY <3>1, <4>1 DEF Passes
      <3>2. CASE j # i
        BY <1>6, <3>2 DEF Passes
      <3>. QED
        BY <3>1, <3>2
    <2>. QED
      BY <1>4, <2>3, <2>4 DEF Fulfils
  <1>9. CASE ~(\E i \in 1 .. n : OfStratum(i) /\ Atom(i) \in Fresh(e))
    <2>1. e.first
      <3>1. ASSUME ~e.first, NEW g \in GoalsOf(c)
            PROVE  Holds(g, env, Settled(e), Told(e))
        <4>1. PICK i \in 1 .. n : g = c.body[i]
          BY <1>3 DEF GoalsOf
        <4>2. CASE g.kind = "call"
          <5>1. Atom(i) \in Told(e) /\ Atom(i)[1] = c.body[i].of
            BY <1>7, <4>1, <4>2
          <5>2. Atom(i) \in Settled(e)
            BY <1>9, <4>1, <4>2, <5>1 DEF Settled
          <5>. QED
            BY <4>1, <4>2, <5>2, Zenon DEF Holds
        <4>3. CASE g.kind # "call"
          <5>1. Holds(g, env, Told(e), Told(e))
            BY <1>2
          <5>. QED
            BY <4>3, <5>1, Zenon DEF Holds
        <4>. QED
          BY <4>2, <4>3
      <3>. QED
        BY <1>2, <3>1 DEF Yields
    <2>2. \A i \in 1 .. n : ~OfStratum(i)
      <3>1. ASSUME NEW i \in 1 .. n, OfStratum(i)
            PROVE  FALSE
        <4>1. PICK p, v : p = c.body[i].of /\ v = Instance(c.body[i].args, env)
          OBVIOUS
        <4>2. <<p, v>> \in Told(e) /\ <<p, v>> \notin Fresh(e) /\ e.stratum[p] = e.current
          BY <1>7, <1>9, <3>1, <4>1
        <4>3. p \in e.names /\ v \in ToldOf(e.table[p]) /\ v \notin FreshOf(e.table[p])
          BY <4>2, ToldIs
        <4>. QED
          BY <2>1, <4>2, <4>3 DEF AllNew
      <3>. QED
        BY <3>1
    <2>3. PivotGoals(e, c) = {}
      BY <1>3, <2>2 DEF PivotGoals
    <2>4. 0 \in Range(Pivots(e, c))
      BY <1>1, <2>1, <2>3, PivotsAre DEF Ready
    <2>5. \A i \in 1 .. n : Passes(e, c, i, 0, env)
      BY <1>6 DEF Passes
    <2>. QED
      BY <1>4, <2>4, <2>5 DEF Fulfils
  <1>. QED
    BY <1>8, <1>9

------------------------------------------------------------------------------
(* What a round adds to the tables *)

\* u holds the answers of t where they were, and what is proved of p; other
\* answers are new.
AddsProved(u, t, p, proved) ==
    /\ DOMAIN t.answers \subseteq DOMAIN u.answers
    /\ \A i \in DOMAIN t.answers : u.answers[i].args = t.answers[i].args
    /\ \A i \in DOMAIN u.answers :
           i \notin DOMAIN t.answers => i \in u.delta /\ <<p, u.answers[i].args>> \in ProvedBy(proved)
    /\ t.delta \subseteq u.delta
    /\ \A v : <<p, v>> \in ProvedBy(proved) => v \in ToldOf(u)

\* Proofs are of atoms.
OfAtoms(proved) ==
    IsASequence(proved) /\ \A x \in Range(proved) : x.of = <<x.of[1], x.of[2]>>

LEMMA WithProofsAdds ==
    ASSUME NEW e, NEW p, NEW proved, OfAtoms(proved),
           NEW before, AnswersOver(e.table[p].answers, before)
    PROVE  AddsProved(WithProofs(e, p, proved), e.table[p], p, proved)
  <1>0. PICK answers, delta : answers = e.table[p].answers /\ delta = e.table[p].delta
    OBVIOUS
  <1>1. PICK n \in Nat : n = Len(proved) /\ DOMAIN proved = 1 .. n
    BY SequenceOfElements DEF OfAtoms
  <1>2. PICK old \in Nat : old = Len(answers) /\ DOMAIN answers = 1 .. old
    BY <1>0, SequenceOfElements DEF AnswersOver
  <1>3. PICK K \in SUBSET (1 .. n) :
            K = {k \in DOMAIN proved :
                    /\ proved[k].of[1] = p
                    /\ \A a \in Range(e.table[p].answers) : a.args # proved[k].of[2]
                    /\ \A i \in 1 .. k - 1 : proved[i].of # proved[k].of}
    BY <1>1
  <1>4. PICK new \in Seq(K) : new = Ascending(K, n) /\ \A k \in K : \E i \in DOMAIN new : new[i] = k
    BY AscendingLists
  <1>5. new = FirstProofs(e, p, proved)
    BY <1>1, <1>3, <1>4, Zenon DEF FirstProofs, Positions
  <1>6. PICK A : A = [i \in 1 .. old |->
                [answers[i] EXCEPT !.proofs = Bounded(@ \o HandlesOf(e, proved, <<p, answers[i].args>>))]]
    OBVIOUS
  <1>7. PICK B : B = [i \in DOMAIN new |->
                [args |-> proved[new[i]].of[2],
                 proofs |-> Bounded(HandlesOf(e, proved, proved[new[i]].of))]]
    OBVIOUS
  <1>8. PICK m \in Nat : m = Len(new) /\ DOMAIN new = 1 .. m
    OBVIOUS
  <1>9. PICK u : u = WithProofs(e, p, proved)
    OBVIOUS
  <1>10. u.answers = A \o B /\ u.delta = delta \cup (old + 1 .. old + m)
    BY <1>0, <1>2, <1>5, <1>6, <1>7, <1>8, <1>9 DEF WithProofs
  <1>11. IsASequence(A) /\ Len(A) = old /\ IsASequence(B) /\ Len(B) = m
    BY <1>6, <1>7, <1>8, FunctionIsASequence
  <1>12. PICK T : T = A \o B
    OBVIOUS
  <1>13. /\ IsASequence(T) /\ Len(T) = old + m
         /\ \A i \in 1 .. old : T[i] = A[i]
         /\ \A i \in 1 .. old + m : i \notin 1 .. old => i - old \in 1 .. m /\ T[i] = B[i - old]
    BY <1>11, <1>12, Concatenated
  <1>14. DOMAIN T = 1 .. old + m
    BY <1>13, SequenceOfElements
  <1>15. ASSUME NEW i \in 1 .. old
         PROVE  T[i].args = answers[i].args /\ i \in 1 .. old + m
    <2>1. answers[i] \in [args : {answers[i].args}, proofs : {answers[i].proofs}]
      BY <1>0, <1>2 DEF AnswersOver
    <2>2. PICK x : A[i] = [answers[i] EXCEPT !.proofs = x]
      BY <1>6, Zenon
    <2>3. A[i].args = answers[i].args
      BY <2>1, <2>2
    <2>. QED
      BY <1>13, <2>3
  <1>16. ASSUME NEW j \in 1 .. m
         PROVE  new[j] \in K /\ B[j].args = proved[new[j]].of[2]
    BY <1>7, <1>8, ElementOfSeq
  <1>17. \A k \in 1 .. n : proved[k].of = <<proved[k].of[1], proved[k].of[2]>>
    BY <1>1 DEF OfAtoms, Range
  <1>18. ASSUME NEW i \in 1 .. old + m, i \notin 1 .. old
         PROVE  i \in old + 1 .. old + m /\ <<p, T[i].args>> \in ProvedBy(proved)
    <2>1. PICK j \in 1 .. m : j = i - old /\ T[i] = B[j]
      BY <1>13, <1>18
    <2>2. PICK k \in K : k = new[j] /\ T[i].args = proved[k].of[2]
      BY <1>16, <2>1
    <2>3. proved[k].of = <<p, T[i].args>> /\ k \in DOMAIN proved
      BY <1>1, <1>3, <1>17, <2>2
    <2>. QED
      BY <1>18, <2>3 DEF ProvedBy
  <1>19. ASSUME NEW v, <<p, v>> \in ProvedBy(proved)
         PROVE  \E i \in 1 .. old + m : T[i].args = v
    <2>1. CASE \E a \in Range(answers) : a.args = v
      <3>1. PICK i \in 1 .. old : answers[i].args = v
        BY <1>2, <2>1 DEF Range
      <3>. QED
        BY <1>15, <3>1
    <2>2. CASE \A a \in Range(answers) : a.args # v
      <3>1. PICK L : L = {k \in 1 .. n : proved[k].of = <<p, v>>}
        OBVIOUS
      <3>2. L # {}
        BY <1>1, <1>19, <3>1 DEF ProvedBy
      <3>3. IsFiniteSet(L)
        <4>1. IsFiniteSet(1 .. n)
          BY FS_Interval
        <4>. QED
          BY <3>1, <4>1, FS_Subset
      <3>4. PICK k \in L : \A l \in L : k <= l
        <4>1. L \in SUBSET Nat
          BY <3>1
        <4>. QED
          BY <3>2, <3>3, <4>1, MinNat
      <3>5. \A l \in 1 .. k - 1 : proved[l].of # proved[k].of
        BY <3>1, <3>4
      <3>6. k \in K
        BY <1>0, <1>1, <1>3, <2>2, <3>1, <3>4, <3>5
      <3>7. PICK j \in 1 .. m : new[j] = k
        BY <1>4, <1>8, <3>6
      <3>8. B[j].args = v
        BY <1>16, <3>1, <3>7
      <3>9. old + j \in 1 .. old + m /\ old + j \notin 1 .. old /\ (old + j) - old = j
        OBVIOUS
      <3>10. T[old + j] = B[j]
        BY <1>13, <3>9
      <3>. QED
        BY <3>8, <3>9, <3>10
    <2>. QED
      BY <2>1, <2>2
  <1>. QED
    BY <1>0, <1>2, <1>9, <1>10, <1>12, <1>14, <1>15, <1>18, <1>19, ZenonT(40) DEF AddsProved, ToldOf

\* The sets of answers after proofs are added.
TellsMore(u, t, p, proved) ==
    /\ \A v : v \in ToldOf(u) <=> v \in ToldOf(t) \/ <<p, v>> \in ProvedBy(proved)
    /\ \A v \in ToldOf(u) : v \in ToldOf(t) \/ v \in FreshOf(u)
    /\ FreshOf(t) \subseteq FreshOf(u)
    /\ DOMAIN u.answers = DOMAIN t.answers => ToldOf(u) = ToldOf(t)

LEMMA AddedTells ==
    ASSUME NEW u, NEW t, NEW p, NEW proved, AddsProved(u, t, p, proved)
    PROVE  TellsMore(u, t, p, proved)
  <1>1. ToldOf(t) \subseteq ToldOf(u)
    BY DEF AddsProved, ToldOf
  <1>2. ASSUME NEW v \in ToldOf(u), v \notin ToldOf(t)
        PROVE  v \in FreshOf(u) /\ <<p, v>> \in ProvedBy(proved)
    <2>1. PICK i \in DOMAIN u.answers : v = u.answers[i].args
      BY DEF ToldOf
    <2>2. i \notin DOMAIN t.answers
      BY <1>2, <2>1 DEF AddsProved, ToldOf
    <2>. QED
      BY <2>1, <2>2 DEF AddsProved, FreshOf
  <1>3. FreshOf(t) \subseteq FreshOf(u)
    BY DEF AddsProved, FreshOf
  <1>4. DOMAIN u.answers = DOMAIN t.answers => ToldOf(u) = ToldOf(t)
    BY DEF AddsProved, ToldOf
  <1>5. \A v : <<p, v>> \in ProvedBy(proved) => v \in ToldOf(u)
    BY DEF AddsProved
  <1>. QED
    BY <1>1, <1>2, <1>3, <1>4, <1>5 DEF TellsMore

\* Installing proofs tells the atoms proved, all new ones as such.
LEMMA InstallTells ==
    ASSUME NEW e, EvaluationShape(e), Tabled(e), NEW proved, OfAtoms(proved), NEW p \in e.names
    PROVE  /\ DOMAIN e.table[p].answers \subseteq DOMAIN Install(e, proved).table[p].answers
           /\ TellsMore(Install(e, proved).table[p], e.table[p], p, proved)
  <1>1. PICK T : T = [q \in e.names |-> WithProofs(e, q, proved)]
    OBVIOUS
  <1>2. PICK P : P = e.proofs \o proved
    OBVIOUS
  <1>3. Install(e, proved) = [e EXCEPT !.table = T, !.proofs = P]
    BY <1>1, <1>2, Zenon DEF Install
  <1>4. Install(e, proved).table[p] = WithProofs(e, p, proved)
    BY <1>1, <1>3 DEF EvaluationShape
  <1>5. AddsProved(WithProofs(e, p, proved), e.table[p], p, proved)
    BY WithProofsAdds DEF Tabled
  <1>. QED
    BY <1>4, <1>5, AddedTells DEF AddsProved

\* What the rules of a stratum prove are atoms of its predicates.
LEMMA RoundOfAtoms ==
    ASSUME NEW e, Evaluable(e)
    PROVE  /\ OfAtoms(RoundProofs(e))
           /\ \A p, v : <<p, v>> \in ProvedBy(RoundProofs(e)) =>
                  \E c \in Range(e.rules) : c.head = p /\ e.stratum[p] = e.current
  <1>1. IsASequence(RoundProofs(e))
    BY RoundProved DEF Evaluable, Ready, ByRules
  <1>2. ASSUME NEW x \in Range(RoundProofs(e))
        PROVE  x.of = <<x.of[1], x.of[2]>>
    <2>1. x.of \in ProvedBy(RoundProofs(e))
      BY <1>2, ProvedAre
    <2>2. PICK c \in Range(e.rules) : Yields(c, Value, Told(e), Told(e), x.of)
      BY <2>1, RoundSound
    <2>3. PICK v : x.of = <<c.head, v>>
      BY <2>2 DEF Yields
    <2>. QED
      BY <2>3
  <1>3. ASSUME NEW p, NEW v, <<p, v>> \in ProvedBy(RoundProofs(e))
        PROVE  \E c \in Range(e.rules) : c.head = p /\ e.stratum[p] = e.current
    <2>1. PICK c \in Range(e.rules) : e.stratum[c.head] = e.current
                                      /\ Yields(c, Value, Told(e), Told(e), <<p, v>>)
      BY <1>3, RoundSound
    <2>2. PICK w : <<p, v>> = <<c.head, w>>
      BY <2>1 DEF Yields
    <2>. QED
      BY <2>1, <2>2
  <1>. QED
    BY <1>1, <1>2, <1>3 DEF OfAtoms

\* Tables without their new answers as such.
LEMMA DeltaTells ==
    ASSUME NEW e, EvaluationShape(e), Tabled(e), Evaluable(e), NEW p \in e.names
    PROVE  /\ WithoutDelta(e).table[p].answers = e.table[p].answers
           /\ ToldOf(WithoutDelta(e).table[p]) = ToldOf(e.table[p])
           /\ e.stratum[p] # e.current =>
                  FreshOf(WithoutDelta(e).table[p]) = FreshOf(e.table[p])
  <1>1. PICK T : T = [q \in e.names |->
                        IF \E c \in Range(StratumRules(e)) : c.head = q
                        THEN [e.table[q] EXCEPT !.delta = {}] ELSE e.table[q]]
    OBVIOUS
  <1>2. WithoutDelta(e) = [e EXCEPT !.table = T]
    BY <1>1, Zenon DEF WithoutDelta
  <1>3. WithoutDelta(e).table[p] = T[p]
    BY <1>2 DEF EvaluationShape
  <1>4. WithoutDelta(e).table[p].answers = e.table[p].answers
    BY DeltaDropped
  <1>5. ASSUME e.stratum[p] # e.current
        PROVE  T[p] = e.table[p]
    <2>1. \A c \in Range(StratumRules(e)) : c.head # p
      BY <1>5, StratumRulesAre DEF Evaluable
    <2>. QED
      BY <1>1, <2>1
  <1>. QED
    BY <1>3, <1>4, <1>5 DEF ToldOf

\* Nowhere more answers: the same answers.
LEMMA SameSize ==
    ASSUME NEW e, Tabled(e), NEW a, Tabled(a), a.names = e.names,
           \A p \in e.names : DOMAIN e.table[p].answers \subseteq DOMAIN a.table[p].answers,
           ~(Size(a) > Size(e))
    PROVE  \A p \in e.names : DOMAIN a.table[p].answers = DOMAIN e.table[p].answers
  <1>1. Places(e) \subseteq Places(a)
    BY DEF Places
  <1>2. /\ IsFiniteSet(Places(a)) /\ Cardinality(Places(a)) \in Nat
        /\ IsFiniteSet(Places(e)) /\ Cardinality(Places(e)) \in Nat
    BY PlacesFinite
  <1>3. ~(Cardinality(Places(a)) > Cardinality(Places(e)))
    BY Zenon DEF Size, Places
  <1>4. Places(e) = Places(a)
    BY <1>1, <1>2, <1>3, FS_Subset
  <1>5. ASSUME NEW p \in e.names, NEW i \in DOMAIN a.table[p].answers
        PROVE  i \in DOMAIN e.table[p].answers
    <2>1. <<p, i>> \in Places(e)
      BY <1>4 DEF Places
    <2>. QED
      BY <2>1 DEF Places
  <1>. QED
    BY <1>5

\* f is e after a round.
RoundTold(e, f) ==
    /\ \A p \in e.names :
           /\ \A v : v \in ToldOf(f.table[p]) <=>
                  v \in ToldOf(e.table[p]) \/ <<p, v>> \in ProvedBy(RoundProofs(e))
           /\ \A v \in ToldOf(f.table[p]) : v \in ToldOf(e.table[p]) \/ v \in FreshOf(f.table[p])
           /\ e.stratum[p] # e.current => FreshOf(e.table[p]) \subseteq FreshOf(f.table[p])
    /\ \/ f.current = e.current /\ f.first = FALSE
       \/ /\ f.current = e.current + 1 /\ f.first = TRUE
          /\ \A p \in e.names : ToldOf(f.table[p]) = ToldOf(e.table[p])

\* A round tells what it proves, and is the last if that is nothing.
LEMMA RoundTells ==
    ASSUME NEW e, EvaluationShape(e), Tabled(e), Evaluable(e)
    PROVE  RoundTold(e, AfterRound(e, RoundProofs(e)))
  <1>1. PICK proved : proved = RoundProofs(e)
    OBVIOUS
  <1>2. OfAtoms(proved) /\ IsASequence(proved)
    BY <1>1, RoundOfAtoms DEF OfAtoms
  <1>3. PICK d : d = WithoutDelta(e)
    OBVIOUS
  <1>4. SameTask(e, d) /\ Tabled(d) /\ d.names = e.names /\ EvaluationShape(d)
    BY <1>3, DeltaDropped DEF SameTask
  <1>5. PICK a : a = Install(d, proved)
    OBVIOUS
  <1>6. SameTask(d, a) /\ Tabled(a) /\ a.names = e.names /\ EvaluationShape(a)
    BY <1>2, <1>4, <1>5, Installed DEF SameTask
  <1>7. ASSUME NEW p \in e.names
        PROVE  /\ DOMAIN e.table[p].answers \subseteq DOMAIN a.table[p].answers
               /\ TellsMore(a.table[p], d.table[p], p, proved)
               /\ d.table[p].answers = e.table[p].answers
               /\ ToldOf(d.table[p]) = ToldOf(e.table[p])
               /\ e.stratum[p] # e.current => FreshOf(d.table[p]) = FreshOf(e.table[p])
    <2>1. /\ d.table[p].answers = e.table[p].answers
          /\ ToldOf(d.table[p]) = ToldOf(e.table[p])
          /\ e.stratum[p] # e.current => FreshOf(d.table[p]) = FreshOf(e.table[p])
      BY <1>3, DeltaTells
    <2>2. /\ DOMAIN d.table[p].answers \subseteq DOMAIN a.table[p].answers
          /\ TellsMore(a.table[p], d.table[p], p, proved)
      BY <1>2, <1>4, <1>5, InstallTells
    <2>. QED
      BY <2>1, <2>2
  <1>8. PICK B : B = Progress(e, proved, a)
    OBVIOUS
  <1>9. ASSUME ~B, NEW p \in e.names
        PROVE  ToldOf(a.table[p]) = ToldOf(e.table[p])
    <2>1. ~(Size(a) > Size(e))
      BY <1>8, <1>9 DEF Progress
    <2>2. DOMAIN a.table[p].answers = DOMAIN e.table[p].answers
      BY <1>6, <1>7, <2>1, SameSize
    <2>. QED
      BY <1>7, <2>2 DEF TellsMore
  <1>10. PICK f : f = AfterRound(e, RoundProofs(e))
    OBVIOUS
  <1>11. f = [a EXCEPT !.rounds = @ + 1, !.first = ~B, !.current = IF B THEN @ ELSE @ + 1]
    BY <1>1, <1>3, <1>5, <1>8, <1>10, Zenon DEF AfterRound
  <1>12. /\ f.table = a.table /\ f.first = ~B
         /\ f.current = IF B THEN a.current ELSE a.current + 1
    BY <1>6, <1>11 DEF EvaluationShape
  <1>13. a.current = e.current
    BY <1>4, <1>6 DEF SameTask
  <1>14. ASSUME NEW p \in e.names
         PROVE  /\ \A v : v \in ToldOf(a.table[p]) <=>
                       v \in ToldOf(e.table[p]) \/ <<p, v>> \in ProvedBy(proved)
                /\ \A v \in ToldOf(a.table[p]) : v \in ToldOf(e.table[p]) \/ v \in FreshOf(a.table[p])
                /\ e.stratum[p] # e.current => FreshOf(e.table[p]) \subseteq FreshOf(a.table[p])
    BY <1>7 DEF TellsMore
  <1>15. \/ f.current = e.current /\ f.first = FALSE
         \/ /\ f.current = e.current + 1 /\ f.first = TRUE
            /\ \A p \in e.names : ToldOf(f.table[p]) = ToldOf(e.table[p])
    BY <1>8, <1>9, <1>12, <1>13
  <1>. QED
    BY <1>1, <1>10, <1>12, <1>14, <1>15 DEF RoundTold

------------------------------------------------------------------------------
(* Strata that are complete hold what the rules mean *)

\* A clause yields the same from whatever has the atoms its goals speak of.
LEMMA YieldsAgain ==
    ASSUME NEW c, NEW V, NEW T, NEW I, NEW x, Yields(c, V, T, I, x), NEW U, NEW J,
           \A g \in GoalsOf(c) : g.kind = "call" => \A y \in T : y[1] = g.of => y \in U,
           \A g \in GoalsOf(c) : g.kind = "not" => \A y \in J : y[1] = g.of => y \in I
    PROVE  Yields(c, V, U, J, x)
  <1>1. PICK env \in [VarsOf(c) -> V] :
            (\A g \in GoalsOf(c) : Holds(g, env, T, I)) /\ x = <<c.head, Instance(c.args, env)>>
    BY DEF Yields
  <1>2. ASSUME NEW g \in GoalsOf(c)
        PROVE  Holds(g, env, U, J)
    <2>1. Holds(g, env, T, I)
      BY <1>1
    <2>0. PICK a : a = <<g.of, Instance(g.args, env)>>
      OBVIOUS
    <2>2. a = <<g.of, Instance(g.args, env)>> /\ a[1] = g.of
      BY <2>0
    <2>3. CASE g.kind = "call"
      <3>1. a \in T
        BY <2>1, <2>2, <2>3, Zenon DEF Holds
      <3>2. a \in U
        BY <2>2, <2>3, <3>1
      <3>. QED
        BY <2>2, <2>3, <3>2, Zenon DEF Holds
    <2>4. CASE g.kind = "not"
      <3>1. a \notin I
        BY <2>1, <2>2, <2>4, Zenon DEF Holds
      <3>2. a \notin J
        BY <2>2, <2>4, <3>1
      <3>. QED
        BY <2>2, <2>4, <3>2, Zenon DEF Holds
    <2>5. CASE g.kind \notin {"call", "not"}
      BY <2>1, <2>5, Zenon DEF Holds
    <2>. QED
      BY <2>3, <2>4, <2>5
  <1>. QED
    BY <1>1, <1>2 DEF Yields

\* The predicates a goal of a stratum speaks of are in it or below, and below
\* if the goal is negated.
LEMMA GoalsBelow ==
    ASSUME NEW cs, NEW N, NEW l, Layered(cs, N, l), NEW c \in cs, c.head \in N,
           NEW g \in GoalsOf(c), g.kind \in {"call", "not"}
    PROVE  /\ g.of \in N /\ l[g.of] \in Nat /\ l[c.head] \in Nat /\ l[g.of] <= l[c.head]
           /\ g.kind = "not" => l[g.of] < l[c.head]
  <1>1. g.of \in N
    BY DEF Layered, Targets
  <1>2. Required(l, g) <= l[c.head]
    BY DEF Layered, Meets
  <1>3. l[g.of] \in Nat /\ l[c.head] \in Nat
    BY <1>1 DEF Layered
  <1>. QED
    BY <1>1, <1>2, <1>3 DEF Required

\* Atoms T that are meant, among them all below the stratum k.
MeantUpTo(N, l, k, T, M) ==
    T \subseteq M /\ \A x \in M : x[1] \in N /\ l[x[1]] < k => x \in T

\* What the rules of a stratum yield from them is meant.
LEMMA YieldsMeant ==
    ASSUME NEW cs, NEW V, NEW S, Sensible(cs, V, S), NEW N, NEW l, Layered(cs, N, l),
           NEW M, M = WellFoundedModel(cs, V, S), NEW k, NEW T, MeantUpTo(N, l, k, T, M),
           NEW c \in cs, c.head \in N, l[c.head] = k, NEW x, Yields(c, V, T, T, x)
    PROVE  x \in M
  <1>1. PICK L : L = Least(cs, V, S, M)
    OBVIOUS
  <1>2. \A y : y[1] \in N => (y \in M <=> y \in L)
    BY <1>1, DecidedInStrata
  <1>3. Consequences(cs, V, L, M) \subseteq L
    BY <1>1, LeastIs
  <1>4. ASSUME NEW g \in GoalsOf(c), g.kind = "call", NEW y \in T, y[1] = g.of
        PROVE  y \in L
    BY <1>2, <1>4, GoalsBelow DEF MeantUpTo
  <1>5. ASSUME NEW g \in GoalsOf(c), g.kind = "not", NEW y \in M, y[1] = g.of
        PROVE  y \in T
    BY <1>5, GoalsBelow DEF MeantUpTo
  <1>6. Yields(c, V, L, M, x)
    BY <1>4, <1>5, YieldsAgain
  <1>7. x \in L
    BY <1>3, <1>6, ConsequencesAre
  <1>8. x[1] = c.head
    BY DEF Yields
  <1>. QED
    BY <1>2, <1>7, <1>8

\* If they yield no more, T has all that is meant of the stratum.
LEMMA StratumMeant ==
    ASSUME NEW cs, NEW V, NEW S, Sensible(cs, V, S), NEW N, NEW l, Layered(cs, N, l),
           NEW M, M = WellFoundedModel(cs, V, S), NEW k \in Nat, NEW T, MeantUpTo(N, l, k, T, M),
           \A x \in S : x[1] \in N => x \in T,
           \A c \in cs : c.head \in N /\ l[c.head] = k =>
               \A x : Yields(c, V, T, T, x) => x \in T
    PROVE  MeantUpTo(N, l, k + 1, T, M)
  <1>1. PICK L : L = Least(cs, V, S, M)
    OBVIOUS
  <1>2. \A y : y[1] \in N => (y \in M <=> y \in L)
    BY <1>1, DecidedInStrata
  <1>3. PICK A : A = Atoms(cs, V, S)
    OBVIOUS
  <1>4. S \subseteq L /\ L \subseteq A /\ Consequences(cs, V, L, M) \subseteq L
    BY <1>1, <1>3, LeastIs
  <1>5. PICK C \in SUBSET A : C = {y \in L : y[1] \in N /\ l[y[1]] = k => y \in T}
    BY <1>4
  <1>6. S \subseteq C
    BY <1>4, <1>5
  <1>7. ASSUME NEW x \in Consequences(cs, V, C, M)
        PROVE  x \in C
    <2>1. PICK c \in cs : Yields(c, V, C, M, x)
      BY <1>7, ConsequencesAre
    <2>2. x[1] = c.head
      BY <2>1 DEF Yields
    <2>3. Yields(c, V, L, M, x)
      BY <1>5, <2>1, YieldsMore
    <2>4. x \in L
      BY <1>4, <2>3, ConsequencesAre
    <2>5. ASSUME c.head \in N, l[c.head] = k
          PROVE  x \in T
      <3>1. ASSUME NEW g \in GoalsOf(c), g.kind = "call", NEW y \in C, y[1] = g.of
            PROVE  y \in T
        <4>1. g.of \in N /\ l[g.of] \in Nat /\ l[g.of] <= k
          BY <2>5, <3>1, GoalsBelow
        <4>2. CASE l[g.of] = k
          BY <1>5, <3>1, <4>1, <4>2
        <4>3. CASE l[g.of] < k
          BY <1>2, <1>5, <3>1, <4>1, <4>3 DEF MeantUpTo
        <4>. QED
          BY <4>1, <4>2, <4>3
      <3>2. \A y \in T : y \in M
        BY DEF MeantUpTo
      <3>3. Yields(c, V, T, T, x)
        BY <2>1, <3>1, <3>2, YieldsAgain
      <3>. QED
        BY <2>5, <3>3
    <2>. QED
      BY <1>5, <2>2, <2>4, <2>5
  <1>8. L \subseteq C
    BY <1>1, <1>3, <1>6, <1>7, LeastIs
  <1>9. ASSUME NEW x \in M, x[1] \in N, l[x[1]] < k + 1
        PROVE  x \in T
    <2>1. l[x[1]] \in Nat
      BY <1>9 DEF Layered
    <2>2. CASE l[x[1]] < k
      BY <1>9, <2>2 DEF MeantUpTo
    <2>3. CASE l[x[1]] = k
      BY <1>2, <1>5, <1>8, <1>9, <2>3
    <2>. QED
      BY <1>9, <2>1, <2>2, <2>3
  <1>. QED
    BY <1>9 DEF MeantUpTo

------------------------------------------------------------------------------
(* Rounds *)

\* The rules of the evaluation are those of cs for its names.
Concerns(cs, e) == Range(e.rules) = {c \in cs : c.head \in e.names}

\* What is new when a stratum begins or is to come; what the rules of a begun
\* stratum yield from what is not new has been told.
UpToDate(e) ==
    /\ \A p \in e.names :
           e.stratum[p] > e.current \/ (e.first /\ e.stratum[p] = e.current) => AllNew(e, p)
    /\ ~e.first =>
           /\ \E c \in Range(e.rules) : e.stratum[c.head] = e.current
           /\ \A c \in Range(e.rules) : e.stratum[c.head] = e.current =>
                  \A x : Yields(c, Value, Settled(e), Told(e), x) => x \in Told(e)

\* The strata below the current one are complete.
Rising(cs, S, e) ==
    /\ Layered(cs, e.names, e.stratum)
    /\ \A x \in S : x[1] \in e.names => x \in Told(e)
    /\ MeantUpTo(e.names, e.stratum, e.current, Told(e), WellFoundedModel(cs, Value, S))
    /\ UpToDate(e)

\* What a round tells, as atoms.
LEMMA RoundTellsAtoms ==
    ASSUME NEW e, Evaluable(e), NEW f, RoundTold(e, f), f.names = e.names,
           e.stratum \in [e.names -> Nat], e.current \in Nat
    PROVE  /\ \A x : x \in Told(f) <=> x \in Told(e) \/ x \in ProvedBy(RoundProofs(e))
           /\ \A x \in Told(f) : x \in Told(e) \/ (x \in Fresh(f) /\ e.stratum[x[1]] = e.current)
           /\ f.first = TRUE => Told(f) = Told(e)
           /\ \A p \in e.names : e.stratum[p] > e.current /\ AllNew(e, p) => AllNew(f, p)
  <1>1. ASSUME NEW x \in ProvedBy(RoundProofs(e))
        PROVE  x = <<x[1], x[2]>> /\ x[1] \in e.names /\ e.stratum[x[1]] = e.current
    <2>1. PICK c \in Range(e.rules) : e.stratum[c.head] = e.current
                                      /\ Yields(c, Value, Told(e), Told(e), x)
      BY RoundSound
    <2>2. PICK v : x = <<c.head, v>>
      BY <2>1 DEF Yields
    <2>. QED
      BY <2>1, <2>2 DEF Evaluable
  <1>2. ASSUME NEW x
        PROVE  x \in Told(f) <=> x \in Told(e) \/ x \in ProvedBy(RoundProofs(e))
    <2>1. x \in Told(f) => x = <<x[1], x[2]>> /\ x[1] \in e.names
      BY ToldIs
    <2>2. x \in Told(e) => x = <<x[1], x[2]>> /\ x[1] \in e.names
      BY ToldIs
    <2>3. ASSUME x = <<x[1], x[2]>>, x[1] \in e.names
          PROVE  x \in Told(f) <=> x \in Told(e) \/ x \in ProvedBy(RoundProofs(e))
      <3>1. x \in Told(f) <=> x[2] \in ToldOf(f.table[x[1]])
        BY <2>3, ToldIs
      <3>2. x \in Told(e) <=> x[2] \in ToldOf(e.table[x[1]])
        BY <2>3, ToldIs
      <3>3. x[2] \in ToldOf(f.table[x[1]]) <=>
                x[2] \in ToldOf(e.table[x[1]]) \/ <<x[1], x[2]>> \in ProvedBy(RoundProofs(e))
        BY <2>3 DEF RoundTold
      <3>. QED
        BY <2>3, <3>1, <3>2, <3>3
    <2>. QED
      BY <1>1, <2>1, <2>2, <2>3
  <1>3. ASSUME NEW x \in Told(f), x \notin Told(e)
        PROVE  x \in Fresh(f) /\ e.stratum[x[1]] = e.current
    <2>1. x = <<x[1], x[2]>> /\ x[1] \in e.names
      BY ToldIs
    <2>2. x[2] \in ToldOf(f.table[x[1]]) /\ x[2] \notin ToldOf(e.table[x[1]])
      BY <1>3, <2>1, ToldIs
    <2>3. x[2] \in FreshOf(f.table[x[1]])
      BY <2>1, <2>2 DEF RoundTold
    <2>4. x \in Fresh(f)
      BY <2>1, <2>3, ToldIs
    <2>5. x \in ProvedBy(RoundProofs(e))
      BY <1>2, <1>3
    <2>. QED
      BY <1>1, <2>4, <2>5
  <1>4. ASSUME f.first = TRUE
        PROVE  Told(f) = Told(e)
    <2>1. \A p \in e.names : ToldOf(f.table[p]) = ToldOf(e.table[p])
      BY <1>4 DEF RoundTold
    <2>. QED
      BY <2>1 DEF Told
  <1>5. ASSUME NEW p \in e.names, e.stratum[p] > e.current, AllNew(e, p)
        PROVE  AllNew(f, p)
    <2>1. FreshOf(e.table[p]) \subseteq FreshOf(f.table[p])
      BY <1>5 DEF RoundTold
    <2>2. \A v \in ToldOf(f.table[p]) : v \in ToldOf(e.table[p]) \/ v \in FreshOf(f.table[p])
      BY DEF RoundTold
    <2>3. FreshOf(f.table[p]) \subseteq ToldOf(f.table[p])
      BY DEF FreshOf, ToldOf
    <2>. QED
      BY <1>5, <2>1, <2>2, <2>3 DEF AllNew
  <1>. QED
    BY <1>2, <1>3, <1>4, <1>5

\* A round misses nothing: what its rules yield is told after it.
LEMMA RoundMisses ==
    ASSUME NEW e, Evaluable(e), UpToDate(e), NEW f, RoundTold(e, f), f.names = e.names,
           e.stratum \in [e.names -> Nat], e.current \in Nat,
           NEW c \in Range(e.rules), e.stratum[c.head] = e.current,
           NEW x, Yields(c, Value, Told(e), Told(e), x)
    PROVE  x \in Told(f)
  <1>1. e.first => \A p \in e.names : e.stratum[p] = e.current => AllNew(e, p)
    BY DEF UpToDate
  <1>2. CASE ~e.first /\ Yields(c, Value, Settled(e), Told(e), x)
    BY <1>2, RoundTellsAtoms DEF UpToDate
  <1>3. CASE ~(~e.first /\ Yields(c, Value, Settled(e), Told(e), x))
    <2>1. x \in ProvedBy(RoundProofs(e))
      BY <1>1, <1>3, RoundComplete
    <2>. QED
      BY <2>1, RoundTellsAtoms
  <1>. QED
    BY <1>2, <1>3

\* The differences between evaluations after a round.
AfterIt(e, f) ==
    /\ RoundTold(e, f)
    /\ f.names = e.names /\ f.rules = e.rules /\ f.stratum = e.stratum

\* After a round its stratum is complete, or what is not new has been used.
LEMMA RoundRises ==
    ASSUME NEW cs, NEW S, Sensible(cs, Value, S), NEW e, Evaluable(e), Concerns(cs, e),
           e.current \in Nat, Rising(cs, S, e),
           \E c \in Range(e.rules) : e.stratum[c.head] = e.current,
           NEW f, AfterIt(e, f)
    PROVE  Rising(cs, S, f)
  <1>1. PICK N, l, T, U : N = e.names /\ l = e.stratum /\ T = Told(e) /\ U = Told(f)
    OBVIOUS
  <1>2. PICK M : M = WellFoundedModel(cs, Value, S)
    OBVIOUS
  <1>3. /\ Layered(cs, N, l) /\ MeantUpTo(N, l, e.current, T, M)
        /\ \A x \in S : x[1] \in N => x \in T
        /\ UpToDate(e)
    BY <1>1, <1>2 DEF Rising
  <1>4. RoundTold(e, f) /\ f.names = N /\ f.rules = e.rules /\ f.stratum = l
    BY <1>1 DEF AfterIt
  <1>5. /\ \A x : x \in U <=> x \in T \/ x \in ProvedBy(RoundProofs(e))
        /\ \A x \in U : x \in T \/ (x \in Fresh(f) /\ l[x[1]] = e.current)
        /\ f.first = TRUE => U = T
        /\ \A p \in N : l[p] > e.current /\ AllNew(e, p) => AllNew(f, p)
    <2>1. e.stratum \in [e.names -> Nat]
      BY <1>1, <1>3 DEF Layered
    <2>2. RoundTold(e, f) /\ f.names = e.names
      BY <1>1, <1>4
    <2>3. /\ \A x : x \in Told(f) <=> x \in Told(e) \/ x \in ProvedBy(RoundProofs(e))
          /\ \A x \in Told(f) : x \in Told(e) \/ (x \in Fresh(f) /\ e.stratum[x[1]] = e.current)
          /\ f.first = TRUE => Told(f) = Told(e)
          /\ \A p \in e.names : e.stratum[p] > e.current /\ AllNew(e, p) => AllNew(f, p)
      BY <2>1, <2>2, RoundTellsAtoms
    <2>. QED
      BY <1>1, <2>3
  <1>6. U \subseteq M
    <2>1. ASSUME NEW x \in ProvedBy(RoundProofs(e))
          PROVE  x \in M
      <3>1. PICK c \in Range(e.rules) : l[c.head] = e.current /\ Yields(c, Value, T, T, x)
        BY <1>1, RoundSound
      <3>2. c \in cs /\ c.head \in N
        BY <1>1 DEF Concerns
      <3>. QED
        BY <1>2, <1>3, <3>1, <3>2, YieldsMeant
    <2>. QED
      BY <1>3, <1>5, <2>1 DEF MeantUpTo
  <1>7. MeantUpTo(N, l, e.current, U, M)
    BY <1>3, <1>5, <1>6 DEF MeantUpTo
  <1>8. \A x \in S : x[1] \in N => x \in U
    BY <1>3, <1>5
  <1>9. ASSUME NEW c \in Range(e.rules), l[c.head] = e.current,
               NEW x, Yields(c, Value, T, T, x)
        PROVE  x \in U
    BY <1>1, <1>3, <1>4, <1>9, RoundMisses DEF Layered
  <1>10. CASE f.current = e.current /\ f.first = FALSE
    <2>1. ASSUME NEW c \in Range(e.rules), l[c.head] = e.current,
                 NEW x, Yields(c, Value, Settled(f), U, x)
          PROVE  x \in U
      <3>1. Settled(f) \subseteq T
        BY <1>1, <1>4, <1>5, <1>10 DEF Settled
      <3>2. T \subseteq U
        BY <1>5
      <3>3. Yields(c, Value, T, T, x)
        BY <2>1, <3>1, <3>2, YieldsMore
      <3>. QED
        BY <1>9, <2>1, <3>3
    <2>2. \E c \in Range(e.rules) : l[c.head] = e.current
      BY <1>1
    <2>3. UpToDate(f)
      BY <1>1, <1>3, <1>4, <1>5, <1>10, <2>1, <2>2 DEF UpToDate
    <2>. QED
      BY <1>1, <1>2, <1>3, <1>4, <1>7, <1>8, <1>10, <2>3 DEF Rising
  <1>11. CASE f.current = e.current + 1 /\ f.first = TRUE
    <2>1. U = T
      BY <1>5, <1>11
    <2>2. ASSUME NEW c \in cs, c.head \in N, l[c.head] = e.current,
                 NEW x, Yields(c, Value, T, T, x)
          PROVE  x \in T
      BY <1>1, <1>9, <2>1, <2>2 DEF Concerns
    <2>3. MeantUpTo(N, l, e.current + 1, T, M)
      BY <1>2, <1>3, <2>2, StratumMeant
    <2>4. \A p \in N : l[p] \in Nat
      BY <1>3 DEF Layered
    <2>5. \A p \in N : l[p] > f.current \/ l[p] = f.current => l[p] > e.current
      BY <1>11, <2>4
    <2>6. UpToDate(f)
      BY <1>1, <1>3, <1>4, <1>5, <1>11, <2>5 DEF UpToDate
    <2>. QED
      BY <1>1, <1>2, <1>3, <1>4, <1>8, <1>11, <2>1, <2>3, <2>6 DEF Rising
  <1>. QED
    BY <1>4, <1>10, <1>11 DEF RoundTold

------------------------------------------------------------------------------
(* The facts of a predicate are its atoms *)

\* Types in a lineage have the same fields, and are predicates.
LEMMA CompatibleTypes ==
    ASSUME Known(store, lineage), NEW t, NEW p, Compatible(lineage, t, p)
    PROVE  Arity[t] = Arity[p] /\ (t = p \/ p \in Predicate)
  <1>1. PICK all : all = {p} \cup {e[1] : e \in lineage}
    OBVIOUS
  <1>2. \A ts \in SUBSET all : p \in ts /\ (\A e \in lineage : e[2] \in ts => e[1] \in ts) => t \in ts
    BY <1>1 DEF Compatible
  <1>3. \A e \in lineage : e[1] \in all /\ Arity[e[1]] = Arity[e[2]]
    BY <1>1, DataAssumption DEF Known
  <1>4. PICK ts \in SUBSET all : ts = {q \in all : Arity[q] = Arity[p]}
    OBVIOUS
  <1>5. t \in ts
    BY <1>1, <1>2, <1>3, <1>4
  <1>6. ASSUME p \notin Predicate
        PROVE  t = p
    <2>1. \A e \in lineage : e[2] # p
      BY <1>6 DEF Predicate, Known
    <2>2. t \in {p}
      BY <1>1, <1>2, <2>1, ZenonT(40)
    <2>. QED
      BY <2>2
  <1>. QED
    BY <1>4, <1>5, <1>6

\* The facts listed are those of the predicate and its subtypes.
LEMMA StoredFactsAre ==
    ASSUME Known(store, lineage), NEW p
    PROVE  /\ IsASequence(StoredFacts(p))
           /\ \A f : f \in Range(StoredFacts(p)) <=> f \in store /\ Compatible(lineage, f[1], p)
  <1>0. IsFiniteSet(store)
    BY DataAssumption, FS_Subset DEF Known
  <1>1. PICK A \in SUBSET store, B \in SUBSET store :
            A = Bucket(store, p) /\ B = {f \in store \ A : Compatible(lineage, f[1], p)}
    BY DEF Bucket
  <1>2. IsFiniteSet(A) /\ IsFiniteSet(B)
    BY <1>0, FS_Subset
  <1>3. PICK s \in Seq(A), t \in Seq(B) : /\ s = Listed(A) /\ Range(s) = A
                                          /\ t = Listed(B) /\ Range(t) = B
    BY <1>2, ListedIn
  <1>4. StoredFacts(p) = s \o t
    BY <1>1, <1>3, Zenon DEF StoredFacts
  <1>5. s \in Seq(A \cup B) /\ t \in Seq(A \cup B)
    BY <1>3, WiderSequence
  <1>6. /\ s \o t \in Seq(A \cup B) /\ A \subseteq Range(s \o t) /\ B \subseteq Range(s \o t)
    BY <1>3, <1>5, RangeConcat
  <1>7. Range(s \o t) \subseteq A \cup B
    BY <1>6 DEF Range
  <1>8. Compatible(lineage, p, p)
    BY DEF Compatible
  <1>9. \A f : f \in A \cup B <=> f \in store /\ Compatible(lineage, f[1], p)
    BY <1>1, <1>8 DEF Bucket
  <1>. QED
    BY <1>0, <1>4, <1>6, <1>7, <1>9, FactsAreASequence

\* The atoms of the facts.
LEMMA AtomsAre ==
    ASSUME Known(store, lineage)
    PROVE  \A p, v : <<p, v>> \in AtomsOf(store) <=>
               \E f \in store : Compatible(lineage, f[1], p) /\ v = f[2]
  <1>1. SUFFICES ASSUME NEW p, NEW v
                 PROVE  <<p, v>> \in AtomsOf(store) <=>
                            \E f \in store : Compatible(lineage, f[1], p) /\ v = f[2]
    OBVIOUS
  <1>2. <<p, v>> \in AtomsOf(store) => \E f \in store : Compatible(lineage, f[1], p) /\ v = f[2]
    BY DEF AtomsOf
  <1>3. ASSUME NEW f \in store, Compatible(lineage, f[1], p), v = f[2]
        PROVE  <<p, v>> \in AtomsOf(store)
    <2>1. f[1] \in Predicate
      BY DEF Predicate, Known
    <2>2. p \in Predicate
      BY <1>3, <2>1, CompatibleTypes
    <2>. QED
      BY <1>3, <2>2 DEF AtomsOf
  <1>. QED
    BY <1>2, <1>3

\* The first and second parts of finitely many pairs.
LEMMA PartsFinite ==
    ASSUME NEW S, IsFiniteSet(S)
    PROVE  IsFiniteSet({f[1] : f \in S}) /\ IsFiniteSet({f[2] : f \in S})
  <1>1. PICK g, h : g = [f \in S |-> f[1]] /\ h = [f \in S |-> f[2]]
    OBVIOUS
  <1>2. IsFiniteSet({g[f] : f \in S}) /\ IsFiniteSet({h[f] : f \in S})
    BY ImageFinite
  <1>3. {g[f] : f \in S} = {f[1] : f \in S} /\ {h[f] : f \in S} = {f[2] : f \in S}
    BY <1>1
  <1>. QED
    BY <1>2, <1>3

\* There are finitely many predicates.
LEMMA PredicatesFinite == IsFiniteSet(Predicate)
  <1>1. IsFiniteSet({c.head : c \in Clause})
    <2>1. PICK h : h = [c \in Clause |-> c.head]
      OBVIOUS
    <2>2. IsFiniteSet({h[c] : c \in Clause})
      BY ClauseAssumption, ImageFinite
    <2>3. {h[c] : c \in Clause} = {c.head : c \in Clause}
      BY <2>1
    <2>. QED
      BY <2>2, <2>3
  <1>2. IsFiniteSet(UNION {Targets(c) : c \in Clause})
    <2>1. ASSUME NEW c \in Clause
          PROVE  IsFiniteSet(Targets(c))
      <3>1. IsFiniteSet(GoalsOf(c))
        BY FS_EmptySet, ReachedFinite
      <3>2. PICK H : H = {h \in GoalsOf(c) : h.kind \in {"call", "not"}}
        OBVIOUS
      <3>3. IsFiniteSet(H)
        BY <3>1, <3>2, FS_Subset
      <3>4. Targets(c) = {g.of : g \in H}
        BY <3>2 DEF Targets
      <3>5. PICK f : f = [g \in H |-> g.of]
        OBVIOUS
      <3>6. IsFiniteSet({f[g] : g \in H})
        BY <3>3, ImageFinite
      <3>7. {f[g] : g \in H} = Targets(c)
        BY <3>4, <3>5
      <3>. QED
        BY <3>6, <3>7
    <2>2. IsFiniteSet({Targets(c) : c \in Clause})
      <3>1. PICK f : f = [c \in Clause |-> Targets(c)]
        OBVIOUS
      <3>2. IsFiniteSet({f[c] : c \in Clause})
        BY ClauseAssumption, ImageFinite
      <3>3. {f[c] : c \in Clause} = {Targets(c) : c \in Clause}
        BY <3>1
      <3>. QED
        BY <3>2, <3>3
    <2>3. \A T \in {Targets(c) : c \in Clause} : IsFiniteSet(T)
      BY <2>1
    <2>. QED
      BY <2>2, <2>3, FS_UNION
  <1>3. IsFiniteSet({f[1] : f \in Facts})
    BY DataAssumption, PartsFinite
  <1>4. IsFiniteSet({e[1] : e \in Subtype}) /\ IsFiniteSet({e[2] : e \in Subtype})
    BY DataAssumption, PartsFinite
  <1>5. Predicate = (({c.head : c \in Clause} \cup (UNION {Targets(c) : c \in Clause}))
                     \cup {f[1] : f \in Facts}) \cup ({e[1] : e \in Subtype} \cup {e[2] : e \in Subtype})
    BY DEF Predicate
  <1>. QED
    BY <1>1, <1>2, <1>3, <1>4, <1>5, FS_Union

\* Clauses and the facts have finitely many terms.
LEMMA ProgramSensible ==
    ASSUME SessionGood, NEW cs, cs \subseteq Clause
    PROVE  Sensible(Relational(cs), Value, AtomsOf(store))
  <1>1. Relational(cs) \subseteq Clause /\ store \subseteq Facts
    BY DEF SessionGood, Known, Relational
  <1>2. IsFiniteSet(Relational(cs)) /\ IsFiniteSet(Value) /\ IsFiniteSet(Facts)
    BY <1>1, ClauseAssumption, DataAssumption, FS_Subset
  <1>3. IsFiniteSet(AtomsOf(store))
    <2>1. IsFiniteSet({f[2] : f \in Facts})
      BY <1>2, PartsFinite
    <2>2. IsFiniteSet(Predicate \X {f[2] : f \in Facts})
      BY <2>1, PredicatesFinite, FS_Product
    <2>3. AtomsOf(store) \subseteq Predicate \X {f[2] : f \in Facts}
      BY <1>1 DEF AtomsOf
    <2>. QED
      BY <2>2, <2>3, FS_Subset
  <1>4. ASSUME NEW c \in Relational(cs)
        PROVE  Proper(c, Value)
    <2>1. FitsArity(c) /\ Arity[c.head] \in Nat
      BY <1>1, SafetyAssumption, DataAssumption DEF Relational
    <2>2. PICK n \in Nat : n = Arity[c.head]
      BY <2>1
    <2>3. IsFiniteSet(1 .. n)
      BY FS_Interval
    <2>. QED
      BY <2>1, <2>2, <2>3 DEF Proper, FitsArity
  <1>. QED
    BY <1>2, <1>3, <1>4 DEF Sensible

\* The proofs by facts of a predicate tell its atoms.
LEMMA FactsTell ==
    ASSUME Known(store, lineage), NEW p, NEW proved,
           proved = [i \in DOMAIN StoredFacts(p) |-> FactProof(StoredFacts(p)[i], p)]
    PROVE  /\ OfAtoms(proved)
           /\ \A q, v : <<q, v>> \in ProvedBy(proved) <=> q = p /\ <<p, v>> \in AtomsOf(store)
  <1>1. PICK s : s = StoredFacts(p)
    OBVIOUS
  <1>2. /\ IsASequence(s)
        /\ \A f : f \in Range(s) <=> f \in store /\ Compatible(lineage, f[1], p)
    BY <1>1, StoredFactsAre
  <1>3. PICK n \in Nat : DOMAIN s = 1 .. n
    BY <1>2, SequenceOfElements
  <1>4. IsASequence(proved) /\ DOMAIN proved = 1 .. n
    BY <1>1, <1>3, FunctionIsASequence
  <1>5. \A i \in 1 .. n : proved[i].of = <<p, s[i][2]>>
    BY <1>1, <1>3 DEF FactProof
  <1>6. OfAtoms(proved)
    BY <1>4, <1>5 DEF OfAtoms, Range
  <1>7. ASSUME NEW q, NEW v
        PROVE  <<q, v>> \in ProvedBy(proved) <=> q = p /\ \E f \in Range(s) : v = f[2]
    <2>1. <<q, v>> \in ProvedBy(proved) <=> \E i \in 1 .. n : <<q, v>> = <<p, s[i][2]>>
      BY <1>4, <1>5 DEF ProvedBy
    <2>2. (\E f \in Range(s) : v = f[2]) <=> \E i \in 1 .. n : v = s[i][2]
      BY <1>3 DEF Range
    <2>. QED
      BY <2>1, <2>2
  <1>8. \A v : <<p, v>> \in AtomsOf(store) <=> \E f \in Range(s) : v = f[2]
    BY <1>2, AtomsAre
  <1>. QED
    BY <1>6, <1>7, <1>8

------------------------------------------------------------------------------
(* Evaluations are exact *)

\* What the evaluation w has told of the clauses cs and the atoms S.
Exactly(cs, S, w) ==
    /\ w.phase = "strata" => w.toLoad = {}
    /\ w.e.names = NamesOf(cs, w.of)
    /\ Concerns(Relational(cs), w.e)
    /\ Filled(w.e)
    /\ w.phase # "rounds" =>
           /\ w.e.current = 0 /\ w.e.first = TRUE
           /\ \A p \in w.e.names : AllNew(w.e, p)
           /\ \A p \in w.e.names : \A v :
                  v \in ToldOf(w.e.table[p]) <=> p \notin w.toLoad /\ <<p, v>> \in S
    /\ w.phase = "rounds" => Rising(Relational(cs), S, w.e)

Building == work # Idle /\ work.phase \in {"load", "strata", "rounds"}

ExactNow == Building => Exactly(program, AtomsOf(store), work)

\* What an evaluation under way has besides.
LEMMA UnderWay ==
    ASSUME IInv, Building
    PROVE  /\ Evaluating(work) /\ Known(store, lineage) /\ program \subseteq Clause
           /\ Sensible(Relational(program), Value, AtomsOf(store))
           /\ \A x \in AtomsOf(store) : x = <<x[1], x[2]>>
  <1>1. Evaluating(work)
    BY DEF IInv, WorkGood, Building, Asking
  <1>2. \A x \in AtomsOf(store) : x = <<x[1], x[2]>>
    BY DEF AtomsOf
  <1>. QED
    BY <1>1, <1>2, ProgramSensible DEF IInv, SessionGood, Good

\* The rules of an evaluation can be evaluated.
LEMMA RulesEvaluable ==
    ASSUME NEW cs, cs \subseteq Clause, NEW e, Prepared(e), Tabled(e), Filled(e),
           Concerns(Relational(cs), e)
    PROVE  Evaluable(e)
  <1>1. IsASequence(e.rules)
    BY DEF Prepared, RulesOver, IsASequence
  <1>2. ASSUME NEW c \in Range(e.rules)
        PROVE  c.head \in e.names /\ Ready(e, c)
    <2>1. c \in Clause /\ c.relational
      BY DEF Concerns, Relational
    <2>2. FitsArity(c) /\ IsSafe(c)
      BY <2>1, SafetyAssumption
    <2>3. c.head \in e.names /\ Targets(c) \subseteq e.names /\ Taken(c)
      BY DEF Prepared, RulesOver
    <2>4. HasTables(e, c)
      BY <2>3 DEF HasTables, Tabled, AnswersOver
    <2>. QED
      BY <2>2, <2>3, <2>4 DEF Ready
  <1>. QED
    BY <1>1, <1>2 DEF Evaluable

\* An evaluation starts with the rules of its names and no answers.
LEMMA StartExact ==
    ASSUME IInv, StartBuild
    PROVE  Exactly(program, AtomsOf(store), work')
  <1>1. PICK e, N, R : /\ e = Evaluation(work.of) /\ N = NamesOf(program, work.of)
                       /\ R = {c \in Relational(program) : c.head \in N}
    OBVIOUS
  <1>2. work' = [phase |-> "load", query |-> work.query, prove |-> work.prove,
                 side |-> work.side, of |-> work.of, found |-> work.found, facts |-> work.facts,
                 toLoad |-> N, e |-> e]
    BY <1>1, Zenon DEF StartBuild
  <1>3. /\ work'.phase = "load" /\ work'.of = work.of /\ work'.toLoad = N /\ work'.e = e
    BY <1>2
  <1>4. /\ e.names = N /\ e.rules = Listed(R) /\ e.table = [q \in N |-> NoTable]
        /\ e.current = 0 /\ e.first = TRUE
    BY <1>1 DEF Evaluation
  <1>5. Range(Listed(R)) = R
    <2>1. R \subseteq Clause
      BY <1>1 DEF IInv, SessionGood, Good, Relational
    <2>2. IsFiniteSet(R)
      BY <2>1, ClauseAssumption, FS_Subset
    <2>. QED
      BY <2>2, ListedIn
  <1>6. Concerns(Relational(program), e)
    BY <1>1, <1>4, <1>5 DEF Concerns
  <1>7. ASSUME NEW p \in N
        PROVE  ToldOf(e.table[p]) = {} /\ FreshOf(e.table[p]) = {}
    <2>1. e.table[p].answers = <<>>
      BY <1>4 DEF NoTable
    <2>2. DOMAIN <<>> = {}
      OBVIOUS
    <2>. QED
      BY <2>1, <2>2 DEF ToldOf, FreshOf
  <1>8. Filled(e) /\ \A p \in N : AllNew(e, p)
    BY <1>4, <1>7 DEF Filled, AllNew
  <1>. QED
    BY <1>1, <1>3, <1>4, <1>6, <1>7, <1>8 DEF Exactly

\* The facts of a predicate are told, and those of others are as they were.
LEMMA LoadExact ==
    ASSUME IInv, ExactNow, LoadFacts
    PROVE  Exactly(program, AtomsOf(store), work')
  <1>1. Building /\ work.phase = "load"
    BY DEF LoadFacts, AtPhase, Building
  <1>2. Evaluating(work) /\ Known(store, lineage) /\ Exactly(program, AtomsOf(store), work)
    BY <1>1, UnderWay DEF ExactNow
  <1>3. PICK p : /\ p \in work.toLoad
                 /\ work' = [work EXCEPT
                       !.toLoad = @ \ {p},
                       !.e = Install(@, [i \in DOMAIN StoredFacts(p) |-> FactProof(StoredFacts(p)[i], p)])]
    BY Zenon DEF LoadFacts
  <1>4. PICK proved : proved = [i \in DOMAIN StoredFacts(p) |-> FactProof(StoredFacts(p)[i], p)]
    OBVIOUS
  <1>5. /\ OfAtoms(proved)
        /\ \A q, v : <<q, v>> \in ProvedBy(proved) <=> q = p /\ <<p, v>> \in AtomsOf(store)
    BY <1>2, <1>4, FactsTell
  <1>6. PICK e, f : e = work.e /\ f = Install(e, proved)
    OBVIOUS
  <1>7. work' = [work EXCEPT !.toLoad = @ \ {p}, !.e = f]
    BY <1>3, <1>4, <1>6, Zenon
  <1>8. /\ work'.phase = "load" /\ work'.of = work.of /\ work'.toLoad = work.toLoad \ {p}
        /\ work'.e = f
    BY <1>1, <1>2, <1>7 DEF Evaluating, BuildShape
  <1>9. EvaluationShape(e) /\ Tabled(e)
    BY <1>2, <1>6 DEF Evaluating
  <1>10. /\ f.names = e.names /\ f.rules = e.rules /\ f.current = e.current /\ f.first = e.first
    BY <1>5, <1>6, <1>9, Installed DEF SameTask, OfAtoms
  <1>11. \A q \in e.names : TellsMore(f.table[q], e.table[q], q, proved)
    BY <1>5, <1>6, <1>9, InstallTells
  <1>12. ASSUME NEW q \in e.names
         PROVE  /\ AllNew(f, q)
                /\ \A v : v \in ToldOf(f.table[q]) <=> q \notin work'.toLoad /\ <<q, v>> \in AtomsOf(store)
    <2>1. AllNew(e, q) /\ \A v : v \in ToldOf(e.table[q]) <=> q \notin work.toLoad /\ <<q, v>> \in AtomsOf(store)
      BY <1>1, <1>2, <1>6 DEF Exactly
    <2>2. FreshOf(f.table[q]) \subseteq ToldOf(f.table[q])
      BY DEF FreshOf, ToldOf
    <2>3. AllNew(f, q)
      BY <1>11, <2>1, <2>2 DEF AllNew, TellsMore
    <2>4. \A v : v \in ToldOf(f.table[q]) <=>
                     v \in ToldOf(e.table[q]) \/ (q = p /\ <<p, v>> \in AtomsOf(store))
      BY <1>5, <1>11 DEF TellsMore
    <2>5. q \notin work'.toLoad <=> q \notin work.toLoad \/ q = p
      BY <1>8
    <2>. QED
      BY <1>3, <2>1, <2>3, <2>4, <2>5
  <1>13. Filled(f)
    <2>1. ASSUME NEW q \in e.names, NEW v \in ToldOf(f.table[q])
          PROVE  v \in [1 .. Arity[q] -> Value]
      <3>1. <<q, v>> \in AtomsOf(store)
        BY <1>12, <2>1
      <3>2. PICK fact \in store : Compatible(lineage, fact[1], q) /\ v = fact[2]
        BY <1>2, <3>1, AtomsAre
      <3>3. v \in [1 .. Arity[fact[1]] -> Value]
        BY <1>2, <3>2, DataAssumption DEF Known
      <3>. QED
        BY <1>2, <3>2, <3>3, CompatibleTypes
    <2>. QED
      BY <1>10, <2>1 DEF Filled
  <1>14. Concerns(Relational(program), f)
    BY <1>2, <1>6, <1>10 DEF Exactly, Concerns
  <1>. QED
    BY <1>1, <1>2, <1>6, <1>8, <1>10, <1>12, <1>13, <1>14 DEF Exactly

LEMMA LayExact ==
    ASSUME IInv, ExactNow, LayStrata
    PROVE  Exactly(program, AtomsOf(store), work')
  <1>1. Building /\ work.phase = "load" /\ work.toLoad = {}
    BY DEF LayStrata, AtPhase, Building
  <1>2. Evaluating(work) /\ Exactly(program, AtomsOf(store), work)
    BY <1>1, UnderWay DEF ExactNow
  <1>3. work' = [work EXCEPT !.phase = "strata"]
    BY DEF LayStrata
  <1>4. /\ work'.phase = "strata" /\ work'.of = work.of /\ work'.toLoad = work.toLoad
        /\ work'.e = work.e
    BY <1>2, <1>3 DEF Evaluating, BuildShape
  <1>. QED
    BY <1>1, <1>2, <1>4 DEF Exactly

\* Evaluations with the same tables tell the same.
LEMMA SameTold ==
    ASSUME NEW e, NEW f, f.names = e.names, f.table = e.table
    PROVE  /\ Told(f) = Told(e) /\ Fresh(f) = Fresh(e)
           /\ Filled(e) => Filled(f)
           /\ \A p : AllNew(e, p) <=> AllNew(f, p)
  <1>. QED
    BY DEF Told, Fresh, Filled, AllNew

\* The strata laid meet what the rules require, and below the first there is
\* nothing.
LEMMA PassExact ==
    ASSUME IInv, ExactNow, PassStrata
    PROVE  Exactly(program, AtomsOf(store), work')
  <1>1. Building /\ work.phase = "strata"
    BY DEF PassStrata, AtPhase, Building
  <1>2. /\ Evaluating(work) /\ Exactly(program, AtomsOf(store), work)
        /\ Sensible(Relational(program), Value, AtomsOf(store))
        /\ \A x \in AtomsOf(store) : x = <<x[1], x[2]>>
    BY <1>1, UnderWay DEF ExactNow
  <1>3. PICK e, r, ph :
            /\ e = work.e /\ r = AfterPass(e.stratum, e.rules)
            /\ ph = IF r = e.stratum THEN "rounds"
                    ELSE IF e.passes = Cardinality(e.names) THEN "unstratified"
                    ELSE work.phase
            /\ work' = [work EXCEPT !.phase = ph, !.e = [e EXCEPT !.passes = @ + 1, !.stratum = r]]
    BY Zenon DEF PassStrata, Relaxed
  <1>4. EvaluationShape(e) /\ Prepared(e) /\ Levelled(e)
    BY <1>1, <1>2, <1>3 DEF Evaluating
  <1>5. PICK f : f = [e EXCEPT !.passes = @ + 1, !.stratum = r]
    OBVIOUS
  <1>6. /\ f.names = e.names /\ f.rules = e.rules /\ f.table = e.table
        /\ f.current = e.current /\ f.first = e.first /\ f.stratum = r
    BY <1>4, <1>5 DEF EvaluationShape
  <1>7. work'.phase = ph /\ work'.e = f /\ work'.of = work.of /\ work'.toLoad = work.toLoad
    <2>1. work' = [work EXCEPT !.phase = ph, !.e = f]
      BY <1>3, <1>5, Zenon
    <2>. QED
      BY <1>2, <2>1 DEF Evaluating, BuildShape
  <1>8. /\ Told(f) = Told(e) /\ Filled(f)
        /\ \A p \in e.names : AllNew(f, p)
    BY <1>1, <1>2, <1>3, <1>6, SameTold DEF Exactly
  <1>9. PICK cs, S, M : /\ cs = Relational(program) /\ S = AtomsOf(store)
                        /\ M = WellFoundedModel(cs, Value, S)
    OBVIOUS
  <1>10. Concerns(cs, e) /\ Concerns(cs, f)
    BY <1>2, <1>3, <1>6, <1>9 DEF Exactly, Concerns
  <1>11. /\ e.current = 0 /\ e.first = TRUE
         /\ \A p \in e.names : \A v : v \in ToldOf(e.table[p]) <=> <<p, v>> \in S
    BY <1>1, <1>2, <1>3, <1>9 DEF Exactly
  <1>12. ASSUME ph = "rounds"
         PROVE  Rising(cs, S, f)
    <2>1. r = e.stratum
      BY <1>1, <1>3, <1>12
    <2>2. e.stratum \in [e.names -> Nat] /\ RulesOver(e.names, e.rules)
      BY <1>4 DEF Levelled, Prepared
    <2>3. \A c \in Range(e.rules) : Meets(e.stratum, c)
      <3>1. PICK s \in [e.names -> Nat] : s = e.stratum
        BY <2>2
      <3>2. \A c \in Range(e.rules) : \A g \in GoalsOf(c) :
                Required(s, g) <= AfterPass(s, e.rules)[c.head]
        BY <2>2, PassLevels
      <3>3. AfterPass(s, e.rules) = s
        BY <1>3, <2>1, <3>1
      <3>. QED
        BY <3>1, <3>2, <3>3 DEF Meets
    <2>4. Layered(cs, f.names, f.stratum)
      BY <1>6, <1>10, <2>1, <2>2, <2>3 DEF Layered, Concerns, RulesOver
    <2>5. \A x : x \in Told(f) <=> x \in S /\ x[1] \in f.names
      <3>1. ASSUME NEW x
            PROVE  x \in Told(f) <=> x \in S /\ x[1] \in f.names
        <4>1. x \in Told(f) => x = <<x[1], x[2]>> /\ x[1] \in e.names
          BY <1>6, ToldIs
        <4>2. x \in S => x = <<x[1], x[2]>>
          BY <1>2, <1>9
        <4>3. ASSUME x = <<x[1], x[2]>>, x[1] \in e.names
              PROVE  x \in Told(f) <=> x \in S
          <5>1. <<x[1], x[2]>> \in Told(e) <=> x[2] \in ToldOf(e.table[x[1]])
            BY <4>3, ToldIs
          <5>2. x[2] \in ToldOf(e.table[x[1]]) <=> <<x[1], x[2]>> \in S
            BY <1>11, <4>3
          <5>. QED
            BY <1>8, <4>3, <5>1, <5>2
        <4>. QED
          BY <1>6, <4>1, <4>2, <4>3
      <3>. QED
        BY <3>1
    <2>6. S \subseteq M
      <3>1. M = Least(cs, Value, S, Least(cs, Value, S, M))
        BY <1>2, <1>9, MeaningIs
      <3>. QED
        BY <1>2, <1>9, <3>1, LeastIs
    <2>7. \A p \in f.names : f.stratum[p] \in Nat
      BY <1>6, <2>1, <2>2
    <2>8. f.current = 0 /\ f.first = TRUE
      BY <1>6, <1>11
    <2>9. MeantUpTo(f.names, f.stratum, f.current, Told(f), M)
      BY <2>5, <2>6, <2>7, <2>8 DEF MeantUpTo
    <2>10. UpToDate(f)
      BY <1>6, <1>8, <2>8 DEF UpToDate
    <2>. QED
      BY <1>9, <2>4, <2>5, <2>9, <2>10 DEF Rising
  <1>13. \A p \in e.names : \A v : v \in ToldOf(f.table[p]) <=> <<p, v>> \in S
    BY <1>6, <1>11
  <1>14. work'.toLoad = {}
    BY <1>1, <1>2, <1>7 DEF Exactly
  <1>15. f.names = NamesOf(program, work'.of)
    BY <1>2, <1>3, <1>6, <1>7 DEF Exactly
  <1>. QED
    BY <1>6, <1>7, <1>8, <1>9, <1>10, <1>11, <1>12, <1>13, <1>14, <1>15 DEF Exactly

\* A round, with what it needs.
LEMMA RoundExact ==
    ASSUME IInv, ExactNow, Round
    PROVE  Exactly(program, AtomsOf(store), work')
  <1>1. Building /\ work.phase = "rounds"
    BY DEF Round, AtPhase, Building
  <1>2. /\ Evaluating(work) /\ Exactly(program, AtomsOf(store), work)
        /\ Sensible(Relational(program), Value, AtomsOf(store)) /\ program \subseteq Clause
    BY <1>1, UnderWay DEF ExactNow
  <1>3. PICK e, f, cs, S : /\ e = work.e /\ f = AfterRound(e, RoundProofs(e))
                           /\ cs = Relational(program) /\ S = AtomsOf(store)
    OBVIOUS
  <1>4. work' = [work EXCEPT !.e = f] /\ StratumRules(e) # <<>>
    BY <1>3 DEF Round
  <1>5. /\ work'.phase = "rounds" /\ work'.of = work.of /\ work'.toLoad = work.toLoad
        /\ work'.e = f
    BY <1>1, <1>2, <1>4 DEF Evaluating, BuildShape
  <1>6. /\ EvaluationShape(e) /\ Prepared(e) /\ Tabled(e) /\ e.current \in Nat
    BY <1>2, <1>3 DEF Evaluating, Counted
  <1>7. /\ e.names = NamesOf(program, work.of) /\ Concerns(cs, e) /\ Filled(e)
        /\ Rising(cs, S, e)
    BY <1>1, <1>2, <1>3 DEF Exactly
  <1>8. Evaluable(e)
    BY <1>2, <1>3, <1>6, <1>7, RulesEvaluable
  <1>9. f.names = e.names /\ f.rules = e.rules /\ f.stratum = e.stratum
    BY <1>3, <1>6, RoundDerives DEF Prepared
  <1>10. RoundTold(e, f)
    BY <1>3, <1>6, <1>8, RoundTells
  <1>11. AfterIt(e, f)
    BY <1>9, <1>10 DEF AfterIt
  <1>12. \E c \in Range(e.rules) : e.stratum[c.head] = e.current
    <2>1. IsASequence(StratumRules(e))
      BY <1>8, StratumRulesAre DEF Evaluable
    <2>2. PICK c : c \in Range(StratumRules(e))
      BY <1>4, <2>1 DEF IsASequence, Range
    <2>. QED
      BY <1>8, <2>2, StratumRulesAre DEF Evaluable
  <1>13. Rising(cs, S, f)
    BY <1>2, <1>3, <1>6, <1>7, <1>8, <1>11, <1>12, RoundRises
  <1>14. ASSUME NEW p \in e.names, NEW v \in ToldOf(f.table[p])
         PROVE  v \in [1 .. Arity[p] -> Value]
    <2>1. CASE v \in ToldOf(e.table[p])
      BY <1>7, <2>1 DEF Filled
    <2>2. CASE <<p, v>> \in ProvedBy(RoundProofs(e))
      <3>1. PICK c \in Range(e.rules) : Yields(c, Value, Told(e), Told(e), <<p, v>>)
        BY <1>8, <2>2, RoundSound
      <3>2. PICK env \in [VarsOf(c) -> Value] : <<p, v>> = <<c.head, Instance(c.args, env)>>
        BY <3>1 DEF Yields
      <3>3. Proper(c, Value)
        BY <1>2, <1>3, <1>7 DEF Sensible, Concerns
      <3>4. DOMAIN c.args = 1 .. Arity[c.head]
        BY <1>8 DEF Evaluable, Ready, FitsArity
      <3>5. Instance(c.args, env) \in [DOMAIN c.args -> Value]
        BY <3>3, InstanceProper
      <3>. QED
        BY <3>2, <3>4, <3>5
    <2>. QED
      BY <1>10, <1>14, <2>1, <2>2 DEF RoundTold
  <1>15. Filled(f) /\ Concerns(cs, f)
    BY <1>7, <1>9, <1>14 DEF Filled, Concerns
  <1>. QED
    BY <1>3, <1>5, <1>7, <1>9, <1>13, <1>15 DEF Exactly

\* A stratum without rules has the atoms of its facts.
LEMMA SkipExact ==
    ASSUME IInv, ExactNow, SkipStratum
    PROVE  Exactly(program, AtomsOf(store), work')
  <1>1. Building /\ work.phase = "rounds"
    BY DEF SkipStratum, AtPhase, Building
  <1>2. /\ Evaluating(work) /\ Exactly(program, AtomsOf(store), work)
        /\ Sensible(Relational(program), Value, AtomsOf(store)) /\ program \subseteq Clause
    BY <1>1, UnderWay DEF ExactNow
  <1>3. PICK e, f, cs, S : /\ e = work.e /\ f = [e EXCEPT !.current = @ + 1]
                           /\ cs = Relational(program) /\ S = AtomsOf(store)
    OBVIOUS
  <1>4. work' = [work EXCEPT !.e.current = @ + 1] /\ StratumRules(e) = <<>>
    BY <1>3 DEF SkipStratum
  <1>5. /\ work'.phase = "rounds" /\ work'.of = work.of /\ work'.toLoad = work.toLoad
        /\ work'.e = f
    BY <1>1, <1>2, <1>3, <1>4 DEF Evaluating, BuildShape
  <1>6. /\ EvaluationShape(e) /\ Prepared(e) /\ Tabled(e) /\ e.current \in Nat
    BY <1>2, <1>3 DEF Evaluating, Counted
  <1>7. /\ e.names = NamesOf(program, work.of) /\ Concerns(cs, e) /\ Filled(e)
        /\ Rising(cs, S, e)
    BY <1>1, <1>2, <1>3 DEF Exactly
  <1>8. /\ f.names = e.names /\ f.rules = e.rules /\ f.table = e.table /\ f.stratum = e.stratum
        /\ f.current = e.current + 1 /\ f.first = e.first
    BY <1>3, <1>6 DEF EvaluationShape
  <1>9. Told(f) = Told(e) /\ Filled(f) /\ \A p : AllNew(e, p) <=> AllNew(f, p)
    BY <1>7, <1>8, SameTold
  <1>10. \A c \in Range(e.rules) : e.stratum[c.head] # e.current
    <2>1. IsASequence(e.rules)
      BY <1>6 DEF Prepared, RulesOver, IsASequence
    <2>2. Range(StratumRules(e)) = {}
      BY <1>4 DEF Range
    <2>. QED
      BY <2>1, <2>2, StratumRulesAre
  <1>11. PICK M : M = WellFoundedModel(cs, Value, S)
    OBVIOUS
  <1>12. /\ Layered(cs, e.names, e.stratum) /\ UpToDate(e)
         /\ \A x \in S : x[1] \in e.names => x \in Told(e)
         /\ MeantUpTo(e.names, e.stratum, e.current, Told(e), M)
    BY <1>7, <1>11 DEF Rising
  <1>13. MeantUpTo(e.names, e.stratum, e.current + 1, Told(e), M)
    <2>1. \A c \in cs : c.head \in e.names => e.stratum[c.head] # e.current
      BY <1>7, <1>10 DEF Concerns
    <2>. QED
      BY <1>2, <1>3, <1>6, <1>11, <1>12, <2>1, StratumMeant
  <1>14. UpToDate(f)
    <2>1. e.first
      BY <1>10, <1>12 DEF UpToDate
    <2>2. \A p \in e.names : e.stratum[p] \in Nat
      BY <1>12 DEF Layered
    <2>3. \A p \in e.names : e.stratum[p] > f.current \/ e.stratum[p] = f.current
                                 => e.stratum[p] > e.current
      BY <1>6, <1>8, <2>2
    <2>. QED
      BY <1>8, <1>9, <1>12, <2>1, <2>3 DEF UpToDate
  <1>15. Rising(cs, S, f)
    BY <1>8, <1>9, <1>11, <1>12, <1>13, <1>14 DEF Rising
  <1>16. Concerns(cs, f)
    BY <1>7, <1>8 DEF Concerns
  <1>. QED
    BY <1>3, <1>5, <1>7, <1>8, <1>9, <1>15, <1>16 DEF Exactly

\* When the last stratum is complete, the tables hold the meaning.
LEMMA KeptExact ==
    ASSUME IInv, ExactNow, KeepTables
    PROVE  TablesHoldMeaning(work.e, Meaning)
  <1>1. Building /\ work.phase = "rounds"
    BY DEF KeepTables, AtPhase, Building
  <1>2. Evaluating(work) /\ Exactly(program, AtomsOf(store), work)
    BY <1>1, UnderWay DEF ExactNow
  <1>3. PICK e, M : e = work.e /\ M = Meaning
    OBVIOUS
  <1>4. IsFiniteSet(e.names) /\ e.current \in Nat /\ Tabled(e)
    BY <1>2, <1>3 DEF Evaluating, Prepared, Counted
  <1>5. /\ e.stratum \in [e.names -> Nat]
        /\ MeantUpTo(e.names, e.stratum, e.current, Told(e), M)
    BY <1>1, <1>2, <1>3 DEF Exactly, Rising, Layered, Meaning
  <1>6. e.current > MaxStratum(e)
    BY <1>3 DEF KeepTables
  <1>7. ASSUME NEW p \in e.names
        PROVE  e.stratum[p] < e.current
    <2>1. PICK s \in [e.names -> Nat] : s = e.stratum
      BY <1>5
    <2>2. IsFiniteSet({s[q] : q \in e.names})
      BY <1>4, ImageFinite
    <2>3. Range(s) = {s[q] : q \in e.names}
      BY DEF Range
    <2>4. Range(s) \in SUBSET Nat /\ s[p] \in Range(s)
      BY <2>3
    <2>5. Max(Range(s)) \in Nat /\ s[p] <= Max(Range(s))
      BY <2>2, <2>3, <2>4, MaxNat
    <2>. QED
      BY <1>4, <1>6, <2>1, <2>4, <2>5 DEF MaxStratum
  <1>8. ASSUME NEW p \in e.names
        PROVE  {a.args : a \in Range(e.table[p].answers)} = TrueOf(p, M)
    <2>1. {a.args : a \in Range(e.table[p].answers)} = ToldOf(e.table[p])
      BY DEF Range, ToldOf
    <2>2. ASSUME NEW v \in ToldOf(e.table[p])
          PROVE  v \in TrueOf(p, M)
      <3>1. <<p, v>> \in Told(e)
        BY <1>8, <2>2, ToldIs
      <3>2. <<p, v>> \in M
        BY <1>5, <3>1 DEF MeantUpTo
      <3>. QED
        BY <3>2 DEF TrueOf
    <2>3. ASSUME NEW v \in TrueOf(p, M)
          PROVE  v \in ToldOf(e.table[p])
      <3>1. PICK x \in M : x[1] = p /\ x[2] = v
        BY <2>3 DEF TrueOf
      <3>2. x \in Told(e)
        BY <1>5, <1>7, <1>8, <3>1 DEF MeantUpTo
      <3>3. x = <<x[1], x[2]>>
        BY <3>2, ToldIs
      <3>4. <<p, v>> \in Told(e)
        BY <3>1, <3>2, <3>3
      <3>. QED
        BY <3>4, ToldIs
    <2>. QED
      BY <2>1, <2>2, <2>3
  <1>. QED
    BY <1>3, <1>8 DEF TablesHoldMeaning

\* An evaluation stays exact: program, facts and lineage are what they were.
LEMMA ExactSteps ==
    ASSUME IInv, ExactNow, [Next]_vars
    PROVE  ExactNow'
  <1>1. ASSUME UNCHANGED <<program, store, lineage>>, Exactly(program, AtomsOf(store), work')
        PROVE  ExactNow'
    <2>1. AtomsOf(store) = AtomsOf(store)'
      BY <1>1 DEF AtomsOf, Compatible
    <2>2. Exactly(program', AtomsOf(store)', work')
      BY <1>1, <2>1
    <2>. QED
      BY <2>2 DEF ExactNow
  <1>2. CASE UNCHANGED vars
    <2>1. UNCHANGED <<program, store, lineage, work>>
      BY <1>2 DEF vars, state
    <2>2. CASE Building
      BY <1>1, <2>1, <2>2 DEF ExactNow
    <2>3. CASE ~Building
      BY <2>1, <2>3 DEF ExactNow, Building
    <2>. QED
      BY <2>2, <2>3
  <1>3. ASSUME \/ \E f \in NewFact : PublishFact(f) \/ DeleteFact(f)
               \/ \E c \in Clause : AddClause(c)
               \/ \E pair \in Subtype : ExtendType(pair)
               \/ \E pair \in Contrary : RegisterContrary(pair)
               \/ BeginBatch \/ EndBatch \/ BeginModule \/ CommitModule \/ RollbackModule
        PROVE  ExactNow'
    <2>1. work' = Idle
      BY <1>3 DEF PublishFact, DeleteFact, AddClause, ExtendType, RegisterContrary, BeginBatch,
                  EndBatch, BeginModule, CommitModule, RollbackModule, Change
    <2>. QED
      BY <2>1 DEF ExactNow, Building
  <1>4. ASSUME \/ \E query \in Query, prove \in BOOLEAN : Ask(query, prove)
               \/ Find \/ Refuse \/ Collect \/ Answer
        PROVE  ExactNow'
    <2>1. (work = Idle \/ Asking(work))'
      BY <1>4, AskingSteps
    <2>. QED
      BY <2>1 DEF ExactNow, Building, Asking
  <1>5. CASE StartBuild
    <2>1. UNCHANGED <<program, store, lineage>>
      BY <1>5 DEF StartBuild, state
    <2>. QED
      BY <1>1, <1>5, <2>1, StartExact
  <1>6. CASE LoadFacts \/ LayStrata \/ PassStrata \/ Round \/ SkipStratum
    <2>1. UNCHANGED <<program, store, lineage>>
      BY <1>6 DEF LoadFacts, LayStrata, PassStrata, Round, SkipStratum, state
    <2>2. Exactly(program, AtomsOf(store), work')
      BY <1>6, LoadExact, LayExact, PassExact, RoundExact, SkipExact
    <2>. QED
      BY <1>1, <2>1, <2>2
  <1>7. CASE KeepTables
    <2>1. Evaluating(work)
      BY <1>7 DEF IInv, WorkGood, KeepTables, AtPhase, Asking
    <2>2. work' = [x \in (DOMAIN work) \ {"e", "toLoad"} |->
                      IF x = "phase" THEN "collect" ELSE work[x]]
      BY <1>7 DEF KeepTables
    <2>3. "phase" \in (DOMAIN work) \ {"e", "toLoad"}
      BY <2>1 DEF Evaluating, BuildShape
    <2>4. work'.phase = "collect"
      BY <2>2, <2>3
    <2>. QED
      BY <2>4 DEF ExactNow, Building
  <1>. QED
    BY <1>2, <1>3, <1>4, <1>5, <1>6, <1>7 DEF Next, Build

\* What an evaluation keeps is the well-founded model of the program and its
\* facts, on all predicates it has tables for: the strata, the rounds with new
\* answers only and the first proofs of buildTableEvaluation lose no answer
\* and add none.
THEOREM TablesExactHolds == Spec => TablesExact
  <1>1. Init => ExactNow
    BY DEF Init, ExactNow, Building
  <1>2. IInv /\ ExactNow /\ [Next]_vars => ExactNow'
    BY ExactSteps
  <1>3. IInv /\ ExactNow => [KeepTables => TablesHoldMeaning(work.e, Meaning)]_vars
    BY KeptExact
  <1>. QED
    BY <1>1, <1>2, <1>3, Invariance, PTL DEF Spec, TablesExact

------------------------------------------------------------------------------
(* Tables that are kept *)

\* What a closed set of predicates in strata means depends on its own clauses
\* and atoms only.
LEMMA MeaningLocal ==
    ASSUME NEW V, NEW cs, NEW S, Sensible(cs, V, S), NEW ds, NEW R, Sensible(ds, V, R),
           NEW N, NEW l, Layered(cs, N, l), Layered(ds, N, l),
           \A c : c.head \in N => (c \in cs <=> c \in ds),
           \A x : x[1] \in N => (x \in S <=> x \in R),
           NEW M, M = WellFoundedModel(cs, V, S), NEW O, O = WellFoundedModel(ds, V, R)
    PROVE  \A x : x[1] \in N => (x \in M <=> x \in O)
  <1>1. \A x : x[1] \in N => (x \in M <=> x \in Least(cs, V, S, M))
    BY DecidedInStrata
  <1>2. \A x : x[1] \in N => (x \in O <=> x \in Least(ds, V, R, O))
    BY DecidedInStrata
  <1>3. PICK K : K = {k \in Nat : \A x : x[1] \in N /\ l[x[1]] < k => (x \in M <=> x \in O)}
    OBVIOUS
  <1>4. 0 \in K
    BY <1>3 DEF Layered
  <1>5. ASSUME NEW k \in Nat, k \in K
        PROVE  k + 1 \in K
    <2>1. \A x : x[1] \in N /\ l[x[1]] < k => (x \in M <=> x \in O)
      BY <1>3, <1>5
    <2>2. ASSUME NEW x, x[1] \in N, l[x[1]] < k + 1
          PROVE  x \in M <=> x \in O
      <3>1. l[x[1]] <= k
        BY <2>2 DEF Layered
      <3>2. x \in Least(cs, V, S, M) => x \in Least(ds, V, R, O)
        BY <2>1, <2>2, <3>1, LeastInStratum
      <3>3. x \in Least(ds, V, R, O) => x \in Least(cs, V, S, M)
        BY <2>1, <2>2, <3>1, LeastInStratum
      <3>. QED
        BY <1>1, <1>2, <2>2, <3>2, <3>3
    <2>. QED
      BY <1>3, <2>2
  <1>6. ASSUME NEW x, x[1] \in N
        PROVE  x \in M <=> x \in O
    <2>1. PICK n \in Nat : n = l[x[1]] + 1
      BY <1>6 DEF Layered
    <2>2. n \in K
      BY <1>4, <1>5, Counting
    <2>3. l[x[1]] < n
      BY <1>6, <2>1 DEF Layered
    <2>. QED
      BY <1>3, <1>6, <2>2, <2>3
  <1>. QED
    BY <1>6

------------------------------------------------------------------------------
(* The caches: a table that counts as valid is a true one *)

\* Nothing the evaluation depends on has changed since.  The predicates asked
\* for need not be in the program.
Current(e) ==
    /\ e.hierarchyGeneration = hierarchyGeneration
    /\ \A p \in e.names \cap Predicate : e.generations[p] = generations[p]

\* Generations an evaluation may have.
Dated(e) ==
    /\ e.hierarchyGeneration \in Nat /\ e.hierarchyGeneration <= hierarchyGeneration
    /\ \A p \in e.names \cap Predicate :
           e.generations[p] \in Nat /\ e.generations[p] <= generations[p]

TablesTrue(e) ==
    Layered(Relational(program), e.names, e.stratum) /\ TablesHoldMeaning(e, Meaning)

KeptFor(q, e) == e.root = q /\ q \in e.names /\ Dated(e)

AreGenerations(h, gs) == h \in Nat /\ gs \in [Predicate -> Nat]

\* A batch that has written may keep old tables.
CacheGood ==
    /\ AreGenerations(hierarchyGeneration, generations)
    /\ loading # NotLoading =>
           AreGenerations(loading.hierarchyGeneration, loading.generations)
    /\ batch \in [depth : {batch.depth}, pending : BOOLEAN]
    /\ \A q \in DOMAIN tables :
           /\ KeptFor(q, tables[q])
           /\ ~batch.pending /\ Current(tables[q]) => TablesTrue(tables[q])

\* An evaluation under way is of the present.
BuildGood == Building => KeptFor(work.of, work.e) /\ Current(work.e)

\* With the same program, facts and lineage, tables are as true as before.
LEMMA SameTruth ==
    ASSUME UNCHANGED <<program, store, lineage>>
    PROVE  /\ Meaning' = Meaning
           /\ \A e : TablesTrue(e) => TablesTrue(e)'
  <1>1. AtomsOf(store)' = AtomsOf(store)
    BY DEF AtomsOf, Compatible
  <1>2. Meaning' = Meaning
    BY <1>1 DEF Meaning
  <1>3. \A e : TablesTrue(e) => TablesTrue(e)'
    BY <1>2 DEF TablesTrue
  <1>. QED
    BY <1>2, <1>3

\* With the same generations, tables are as current as before.
LEMMA SameDates ==
    ASSUME UNCHANGED <<hierarchyGeneration, generations>>
    PROVE  \A e : /\ Current(e) <=> Current(e)'
                  /\ \A q : KeptFor(q, e) => KeptFor(q, e)'
  BY DEF Current, KeptFor, Dated

\* Tables that hold the meaning of one program hold that of another with the
\* same clauses for their names.
LEMMA TablesTrueLocally ==
    ASSUME SessionGood, NEW e, TablesTrue(e), NEW cs, cs \subseteq Clause,
           \A c : c.head \in e.names => (c \in program <=> c \in cs),
           NEW M, M = WellFoundedModel(Relational(cs), Value, AtomsOf(store))
    PROVE  Layered(Relational(cs), e.names, e.stratum) /\ TablesHoldMeaning(e, M)
  <1>1. PICK A, B, S, N, l : /\ A = Relational(program) /\ B = Relational(cs)
                             /\ S = AtomsOf(store) /\ N = e.names /\ l = e.stratum
    OBVIOUS
  <1>2. program \subseteq Clause
    BY DEF SessionGood, Good
  <1>3. Sensible(A, Value, S) /\ Sensible(B, Value, S)
    BY <1>1, <1>2, ProgramSensible
  <1>4. \A c : c.head \in N => (c \in A <=> c \in B)
    BY <1>1 DEF Relational
  <1>5. Layered(A, N, l)
    BY <1>1 DEF TablesTrue
  <1>6. Layered(B, N, l)
    BY <1>4, <1>5 DEF Layered
  <1>7. PICK L : L = Meaning
    OBVIOUS
  <1>8. \A x : x[1] \in N => (x \in L <=> x \in M)
    <2>1. L = WellFoundedModel(A, Value, S) /\ M = WellFoundedModel(B, Value, S)
      BY <1>1, <1>7 DEF Meaning
    <2>2. \A x : x[1] \in N => (x \in S <=> x \in S)
      OBVIOUS
    <2>. QED
      BY <1>3, <1>4, <1>5, <1>6, <2>1, <2>2, MeaningLocal
  <1>9. ASSUME NEW p \in N
        PROVE  TrueOf(p, L) = TrueOf(p, M)
    BY <1>8 DEF TrueOf
  <1>10. TablesHoldMeaning(e, M)
    BY <1>1, <1>7, <1>9 DEF TablesTrue, TablesHoldMeaning
  <1>. QED
    BY <1>1, <1>6, <1>10

\* What leaves program, facts, lineage and generations alone and keeps or drops
\* tables.
LEMMA CacheKept ==
    ASSUME CacheGood, UNCHANGED <<program, store, lineage, hierarchyGeneration, generations>>,
           loading' # NotLoading =>
               AreGenerations(loading'.hierarchyGeneration, loading'.generations),
           batch' \in [depth : {batch'.depth}, pending : BOOLEAN],
           \/ batch'.pending = batch.pending
           \/ batch.pending /\ tables' = <<>>,
           (DOMAIN tables') \subseteq DOMAIN tables,
           \A q \in DOMAIN tables' : tables'[q] = tables[q]
    PROVE  CacheGood'
  <1>1. \A q \in DOMAIN tables' :
            /\ KeptFor(q, tables[q])
            /\ ~batch.pending /\ Current(tables[q]) => TablesTrue(tables[q])
    BY DEF CacheGood
  <1>2. ASSUME NEW q \in DOMAIN tables'
        PROVE  (/\ KeptFor(q, tables[q])
                /\ ~batch.pending /\ Current(tables[q]) => TablesTrue(tables[q]))'
    <2>1. PICK e : e = tables[q]
      OBVIOUS
    <2>2. tables'[q] = e
      BY <2>1
    <2>3. KeptFor(q, e)' /\ (Current(e) <=> Current(e)') /\ (TablesTrue(e) => TablesTrue(e)')
      BY <1>1, <2>1, SameDates, SameTruth
    <2>4. batch'.pending = batch.pending
      <3>1. tables' # <<>>
        <4>1. DOMAIN <<>> = {}
          OBVIOUS
        <4>. QED
          BY <1>2, <4>1
      <3>. QED
        BY <3>1
    <2>5. ~batch'.pending /\ Current(e)' => TablesTrue(e)'
      BY <1>1, <2>1, <2>3, <2>4
    <2>. QED
      BY <2>2, <2>3, <2>5
  <1>3. AreGenerations(hierarchyGeneration, generations)'
    BY DEF CacheGood, AreGenerations
  <1>. QED
    BY <1>2, <1>3 DEF CacheGood, AreGenerations

\* Without tables there is nothing to be true.
LEMMA NoTablesGood ==
    ASSUME AreGenerations(hierarchyGeneration, generations)',
           loading' # NotLoading =>
               AreGenerations(loading'.hierarchyGeneration, loading'.generations),
           batch' \in [depth : {batch'.depth}, pending : BOOLEAN], tables' = <<>>
    PROVE  CacheGood'
  <1>1. DOMAIN <<>> = {}
    OBVIOUS
  <1>. QED
    BY <1>1 DEF CacheGood, AreGenerations

\* A write clears the tables, now or at the end of the batch.
LEMMA WriteCache ==
    ASSUME CaughtInLoad = FALSE, CacheGood, NEW f \in NewFact, PublishFact(f) \/ DeleteFact(f)
    PROVE  CacheGood'
  <1>1. /\ UNCHANGED <<program, lineage, hierarchyGeneration, generations, loading>>
        /\ InvalidateCaches
    BY DEF PublishFact, DeleteFact, InvalidateOrFail
  <1>2. /\ AreGenerations(hierarchyGeneration, generations)'
        /\ loading' # NotLoading =>
               AreGenerations(loading'.hierarchyGeneration, loading'.generations)
    BY <1>1 DEF CacheGood, AreGenerations
  <1>3. batch \in [depth : {batch.depth}, pending : BOOLEAN]
    BY DEF CacheGood
  <1>4. CASE InBatch
    <2>1. batch' = [batch EXCEPT !.pending = TRUE] /\ tables' = tables
      BY <1>1, <1>4 DEF InvalidateCaches
    <2>2. batch' \in [depth : {batch'.depth}, pending : BOOLEAN] /\ batch'.pending = TRUE
      BY <1>3, <2>1
    <2>3. \A q \in DOMAIN tables : KeptFor(q, tables[q])'
      BY <1>1, <2>1, SameDates DEF CacheGood, KeptFor, Dated
    <2>. QED
      BY <1>2, <2>1, <2>2, <2>3 DEF CacheGood
  <1>5. CASE ~InBatch
    <2>1. tables' = <<>> /\ batch' = batch
      BY <1>1, <1>5 DEF InvalidateCaches
    <2>. QED
      BY <1>2, <1>3, <2>1, NoTablesGood
  <1>. QED
    BY <1>4, <1>5

\* A clause concerns no table that is current after it.
LEMMA ClauseCache ==
    ASSUME IInv, CacheGood, NEW c \in Clause, AddClause(c)
    PROVE  CacheGood'
  <1>1. /\ UNCHANGED <<store, lineage, hierarchyGeneration, tables, batch, loading>>
        /\ program' = program \cup {c}
        /\ generations' = [generations EXCEPT ![c.head] = @ + 1]
    BY DEF AddClause
  <1>2. c.head \in Predicate /\ SessionGood /\ program \subseteq Clause
    BY DEF Predicate, IInv, SessionGood, Good
  <1>3. hierarchyGeneration \in Nat /\ generations \in [Predicate -> Nat]
    BY DEF CacheGood, AreGenerations
  <1>4. /\ generations' \in [Predicate -> Nat]
        /\ generations'[c.head] = generations[c.head] + 1
        /\ \A p \in Predicate : generations[p] <= generations'[p]
        /\ \A p \in Predicate : p # c.head => generations'[p] = generations[p]
    BY <1>1, <1>2, <1>3
  <1>5. ASSUME NEW q \in DOMAIN tables
        PROVE  (/\ KeptFor(q, tables[q])
                /\ ~batch.pending /\ Current(tables[q]) => TablesTrue(tables[q]))'
    <2>1. PICK e : e = tables[q]
      OBVIOUS
    <2>2. KeptFor(q, e) /\ (~batch.pending /\ Current(e) => TablesTrue(e))
      BY <2>1 DEF CacheGood
    <2>3. KeptFor(q, e)'
      <3>1. ASSUME NEW p \in e.names \cap Predicate
            PROVE  e.generations[p] \in Nat /\ e.generations[p] <= generations'[p]
        <4>1. e.generations[p] \in Nat /\ e.generations[p] <= generations[p]
          BY <2>2 DEF KeptFor, Dated
        <4>2. generations[p] \in Nat /\ generations'[p] \in Nat /\ generations[p] <= generations'[p]
          BY <1>3, <1>4
        <4>. QED
          BY <4>1, <4>2
      <3>. QED
        BY <1>1, <2>2, <3>1 DEF KeptFor, Dated
    <2>4. ASSUME ~batch'.pending, Current(e)'
          PROVE  TablesTrue(e)'
      <3>1. c.head \notin e.names
        <4>1. SUFFICES ASSUME c.head \in e.names
                       PROVE  FALSE
          OBVIOUS
        <4>2. e.generations[c.head] = generations[c.head] + 1
          BY <1>2, <1>4, <2>4, <4>1 DEF Current
        <4>3. e.generations[c.head] <= generations[c.head] /\ generations[c.head] \in Nat
          BY <1>2, <1>3, <2>2, <4>1 DEF KeptFor, Dated
        <4>. QED
          BY <4>2, <4>3
      <3>2. Current(e)
        <4>1. ASSUME NEW p \in e.names \cap Predicate
              PROVE  e.generations[p] = generations[p]
          BY <1>4, <2>4, <3>1 DEF Current
        <4>. QED
          BY <1>1, <2>4, <4>1 DEF Current
      <3>3. TablesTrue(e)
        BY <1>1, <2>2, <2>4, <3>2
      <3>4. PICK cs : cs = program \cup {c}
        OBVIOUS
      <3>5. cs \subseteq Clause /\ \A d : d.head \in e.names => (d \in program <=> d \in cs)
        BY <1>2, <3>1, <3>4
      <3>6. PICK M : M = WellFoundedModel(Relational(cs), Value, AtomsOf(store))
        OBVIOUS
      <3>7. Layered(Relational(cs), e.names, e.stratum) /\ TablesHoldMeaning(e, M)
        BY <1>2, <3>3, <3>5, <3>6, TablesTrueLocally
      <3>8. AtomsOf(store)' = AtomsOf(store)
        BY <1>1 DEF AtomsOf, Compatible
      <3>9. program' = cs /\ Meaning' = M
        BY <1>1, <3>4, <3>6, <3>8 DEF Meaning
      <3>10. Layered(Relational(program'), e.names, e.stratum) /\ TablesHoldMeaning(e, Meaning')
        BY <3>7, <3>9
      <3>. QED
        BY <3>10 DEF TablesTrue
    <2>5. tables'[q] = e /\ batch' = batch
      BY <1>1, <2>1
    <2>. QED
      BY <2>3, <2>4, <2>5
  <1>. QED
    BY <1>1, <1>3, <1>4, <1>5 DEF CacheGood, AreGenerations

\* No table is current after a type is declared to extend another.
LEMMA LineageCache ==
    ASSUME CacheGood, NEW pair \in Subtype, ExtendType(pair)
    PROVE  CacheGood'
  <1>1. /\ UNCHANGED <<generations, tables, batch, loading>>
        /\ hierarchyGeneration' = hierarchyGeneration + 1
    BY DEF ExtendType
  <1>2. hierarchyGeneration \in Nat /\ generations \in [Predicate -> Nat]
    BY DEF CacheGood, AreGenerations
  <1>3. ASSUME NEW q \in DOMAIN tables
        PROVE  KeptFor(q, tables[q])' /\ ~Current(tables[q])'
    <2>1. PICK e : e = tables[q]
      OBVIOUS
    <2>2. KeptFor(q, e)
      BY <2>1 DEF CacheGood
    <2>3. e.hierarchyGeneration \in Nat /\ e.hierarchyGeneration <= hierarchyGeneration
      BY <2>2 DEF KeptFor, Dated
    <2>4. KeptFor(q, e)'
      BY <1>1, <1>2, <2>2, <2>3 DEF KeptFor, Dated
    <2>5. ~Current(e)'
      BY <1>1, <1>2, <2>3 DEF Current
    <2>6. tables'[q] = e
      BY <1>1, <2>1
    <2>. QED
      BY <2>4, <2>5, <2>6
  <1>. QED
    BY <1>1, <1>2, <1>3 DEF CacheGood, AreGenerations

\* A batch that has written clears the tables as it ends, a rollback always.
LEMMA EndCache ==
    ASSUME CacheGood, EndBatch \/ RollbackModule
    PROVE  CacheGood'
  <1>1. NotInBatch \in [depth : {NotInBatch.depth}, pending : BOOLEAN] /\ ~NotInBatch.pending
    BY DEF NotInBatch
  <1>2. CASE EndBatch
    <2>1. UNCHANGED <<program, store, lineage, hierarchyGeneration, generations, loading>>
      BY <1>2 DEF EndBatch, state
    <2>2. batch' = NotInBatch /\ tables' = IF batch.pending THEN <<>> ELSE tables
      BY <1>2 DEF EndBatch
    <2>3. batch.pending \in BOOLEAN
      BY DEF CacheGood
    <2>4. /\ AreGenerations(hierarchyGeneration, generations)'
          /\ loading' # NotLoading =>
                 AreGenerations(loading'.hierarchyGeneration, loading'.generations)
      BY <2>1 DEF CacheGood, AreGenerations
    <2>5. CASE batch.pending
      BY <1>1, <2>2, <2>4, <2>5, NoTablesGood
    <2>6. CASE ~batch.pending
      <3>1. batch'.pending = batch.pending /\ tables' = tables
        BY <1>1, <2>2, <2>3, <2>6
      <3>. QED
        BY <1>1, <2>1, <2>2, <2>4, <3>1, CacheKept
    <2>. QED
      BY <2>5, <2>6
  <1>3. CASE RollbackModule
    <2>1. /\ loading # NotLoading /\ loading' = NotLoading
          /\ hierarchyGeneration' = loading.hierarchyGeneration
          /\ generations' = loading.generations
          /\ tables' = <<>> /\ batch' = NotInBatch
      BY <1>3 DEF RollbackModule
    <2>2. AreGenerations(hierarchyGeneration, generations)'
      BY <2>1 DEF CacheGood, AreGenerations
    <2>. QED
      BY <1>1, <2>1, <2>2, NoTablesGood
  <1>. QED
    BY <1>2, <1>3

\* An evaluation starts in the present.
LEMMA StartCurrent ==
    ASSUME IInv, CacheGood, StartBuild
    PROVE  BuildGood'
  <1>1. PICK e, N : e = Evaluation(work.of) /\ N = NamesOf(program, work.of)
    OBVIOUS
  <1>2. work' = [phase |-> "load", query |-> work.query, prove |-> work.prove,
                 side |-> work.side, of |-> work.of, found |-> work.found, facts |-> work.facts,
                 toLoad |-> N, e |-> e]
    BY <1>1, Zenon DEF StartBuild
  <1>3. work'.of = work.of /\ work'.e = e
    BY <1>2
  <1>4. /\ e.root = work.of /\ e.names = N /\ e.hierarchyGeneration = hierarchyGeneration
        /\ e.generations = [p \in N |-> generations[p]]
    BY <1>1 DEF Evaluation, Restrict
  <1>5. work.of \in N
    BY <1>1, NamesClosed DEF IInv, SessionGood, Good
  <1>6. KeptFor(work.of, e) /\ Current(e)
    BY <1>4, <1>5 DEF KeptFor, Dated, Current, CacheGood, AreGenerations
  <1>7. UNCHANGED <<hierarchyGeneration, generations>>
    BY DEF StartBuild, state
  <1>. QED
    BY <1>3, <1>6, <1>7, SameDates DEF BuildGood

\* What is built remains of the same time.
LEMMA BuildCurrent ==
    ASSUME IInv, BuildGood, LoadFacts \/ LayStrata \/ PassStrata \/ Round \/ SkipStratum
    PROVE  BuildGood'
  <1>1. Building /\ Evaluating(work) /\ KeptFor(work.of, work.e) /\ Current(work.e)
    BY DEF LoadFacts, LayStrata, PassStrata, Round, SkipStratum, AtPhase, Building, BuildGood,
           IInv, WorkGood, Asking
  <1>2. PICK e : e = work.e
    OBVIOUS
  <1>3. EvaluationShape(e) /\ Prepared(e) /\ Tabled(e) /\ BuildShape(work)
    BY <1>1, <1>2 DEF Evaluating
  <1>4. ASSUME NEW f, SameCause(e, f), f.names = e.names, work'.of = work.of, work'.e = f
        PROVE  BuildGood'
    <2>1. UNCHANGED <<hierarchyGeneration, generations>>
      BY DEF LoadFacts, LayStrata, PassStrata, Round, SkipStratum, state
    <2>2. KeptFor(work.of, f) /\ Current(f)
      BY <1>1, <1>2, <1>4 DEF KeptFor, Dated, Current, SameCause
    <2>. QED
      BY <1>4, <2>1, <2>2, SameDates DEF BuildGood
  <1>5. CASE LoadFacts
    <2>1. PICK p : work' = [work EXCEPT
                       !.toLoad = @ \ {p},
                       !.e = Install(@, [i \in DOMAIN StoredFacts(p) |-> FactProof(StoredFacts(p)[i], p)])]
      BY <1>5, Zenon DEF LoadFacts
    <2>2. PICK n \in Nat : DOMAIN StoredFacts(p) = 1 .. n
      <3>1. IsFiniteSet(store)
        BY DataAssumption, FS_Subset DEF IInv, SessionGood, Known
      <3>. QED
        BY <3>1, FactsAreASequence, SequenceOfElements
    <2>3. PICK proved : proved = [i \in DOMAIN StoredFacts(p) |-> FactProof(StoredFacts(p)[i], p)]
      OBVIOUS
    <2>4. IsASequence(proved)
      BY <2>2, <2>3, FunctionIsASequence
    <2>5. PICK f : f = Install(e, proved)
      OBVIOUS
    <2>6. work' = [work EXCEPT !.toLoad = @ \ {p}, !.e = f]
      BY <1>2, <2>1, <2>3, <2>5, Zenon
    <2>7. SameTask(e, f)
      BY <1>3, <2>4, <2>5, Installed
    <2>8. work'.of = work.of /\ work'.e = f
      BY <1>3, <2>6 DEF BuildShape
    <2>. QED
      BY <1>4, <2>7, <2>8 DEF SameTask
  <1>6. CASE LayStrata
    <2>1. work'.of = work.of /\ work'.e = e
      BY <1>2, <1>3, <1>6 DEF LayStrata, BuildShape
    <2>. QED
      BY <1>4, <2>1 DEF SameCause
  <1>7. CASE PassStrata
    <2>1. PICK f, r, ph :
              /\ f = [e EXCEPT !.passes = @ + 1, !.stratum = r]
              /\ work' = [work EXCEPT !.phase = ph, !.e = f]
      BY <1>2, <1>7, Zenon DEF PassStrata
    <2>2. SameCause(e, f) /\ f.names = e.names
      BY <1>3, <2>1 DEF SameCause, EvaluationShape
    <2>3. work'.of = work.of /\ work'.e = f
      BY <1>3, <2>1 DEF BuildShape
    <2>. QED
      BY <1>4, <2>2, <2>3
  <1>8. CASE Round
    <2>1. PICK f : f = AfterRound(e, RoundProofs(e))
      OBVIOUS
    <2>2. work' = [work EXCEPT !.e = f]
      BY <1>2, <1>8, <2>1 DEF Round
    <2>3. SameCause(e, f) /\ f.names = e.names
      BY <1>3, <2>1, RoundDerives DEF Prepared
    <2>4. work'.of = work.of /\ work'.e = f
      BY <1>3, <2>2 DEF BuildShape
    <2>. QED
      BY <1>4, <2>3, <2>4
  <1>9. CASE SkipStratum
    <2>1. PICK f : f = [e EXCEPT !.current = @ + 1]
      OBVIOUS
    <2>2. SameCause(e, f) /\ f.names = e.names
      BY <1>3, <2>1 DEF SameCause, EvaluationShape
    <2>3. work'.of = work.of /\ work'.e = f
      BY <1>2, <1>3, <1>9, <2>1 DEF SkipStratum, BuildShape
    <2>. QED
      BY <1>4, <2>2, <2>3
  <1>. QED
    BY <1>5, <1>6, <1>7, <1>8, <1>9

\* What is kept is true and of the present.
LEMMA KeepCache ==
    ASSUME IInv, ExactNow, CacheGood, BuildGood, KeepTables
    PROVE  CacheGood' /\ work.of \in DOMAIN tables' /\ Current(tables'[work.of])
  <1>1. Building /\ work.phase = "rounds"
    BY DEF KeepTables, AtPhase, Building
  <1>2. PICK e : e = work.e
    OBVIOUS
  <1>3. KeptFor(work.of, e) /\ Current(e)
    BY <1>1, <1>2 DEF BuildGood
  <1>4. TablesTrue(e)
    <2>1. TablesHoldMeaning(e, Meaning)
      BY <1>2, KeptExact
    <2>2. Layered(Relational(program), e.names, e.stratum)
      BY <1>1, <1>2 DEF ExactNow, Exactly, Rising
    <2>. QED
      BY <2>1, <2>2 DEF TablesTrue
  <1>5. /\ tables' = [p \in (DOMAIN tables) \cup {work.of} |-> IF p = work.of THEN e ELSE tables[p]]
        /\ UNCHANGED <<program, store, lineage, hierarchyGeneration, generations, batch, loading>>
    BY <1>2 DEF KeepTables, state
  <1>6. PICK of, E : /\ of = work.of
                     /\ E = [p \in (DOMAIN tables) \cup {of} |-> IF p = of THEN e ELSE tables[p]]
    OBVIOUS
  <1>7. tables' = E /\ of \in DOMAIN E /\ E[of] = e
    BY <1>5, <1>6
  <1>8. ASSUME NEW q \in DOMAIN E
        PROVE  (/\ KeptFor(q, tables[q])
                /\ ~batch.pending /\ Current(tables[q]) => TablesTrue(tables[q]))'
    <2>1. PICK f : f = E[q]
      OBVIOUS
    <2>2. KeptFor(q, f) /\ (~batch.pending /\ Current(f) => TablesTrue(f))
      <3>1. CASE q = of
        BY <1>3, <1>4, <1>6, <1>7, <2>1, <3>1
      <3>2. CASE q # of
        <4>1. q \in DOMAIN tables /\ f = tables[q]
          BY <1>6, <2>1, <3>2
        <4>. QED
          BY <4>1 DEF CacheGood
      <3>. QED
        BY <3>1, <3>2
    <2>3. KeptFor(q, f)' /\ (Current(f) <=> Current(f)') /\ (TablesTrue(f) => TablesTrue(f)')
      BY <1>5, <2>2, SameDates, SameTruth
    <2>4. tables'[q] = f
      BY <1>7, <2>1
    <2>. QED
      BY <1>5, <2>2, <2>3, <2>4
  <1>9. CacheGood'
    BY <1>5, <1>7, <1>8 DEF CacheGood, AreGenerations
  <1>. QED
    BY <1>3, <1>6, <1>7, <1>9

\* Every step leaves valid tables true and the evaluation of the present.
LEMMA CacheSteps ==
    ASSUME CaughtInLoad = FALSE, IInv, ExactNow, CacheGood, BuildGood, [Next]_vars
    PROVE  CacheGood' /\ BuildGood'
  <1>1. ASSUME UNCHANGED <<program, store, lineage, hierarchyGeneration, generations, batch>>,
               loading' # NotLoading =>
                   AreGenerations(loading'.hierarchyGeneration, loading'.generations),
               \/ tables' = tables
               \/ tables' = Restrict(tables, (DOMAIN tables) \ {work.of})
        PROVE  CacheGood'
    <2>1. (DOMAIN tables') \subseteq DOMAIN tables /\ \A q \in DOMAIN tables' : tables'[q] = tables[q]
      BY <1>1 DEF Restrict
    <2>2. batch \in [depth : {batch.depth}, pending : BOOLEAN]
      BY DEF CacheGood
    <2>. QED
      BY <1>1, <2>1, <2>2, CacheKept
  <1>2. /\ AreGenerations(hierarchyGeneration, generations)
        /\ loading # NotLoading =>
               AreGenerations(loading.hierarchyGeneration, loading.generations)
    BY DEF CacheGood
  <1>3. CASE UNCHANGED vars
    <2>1. /\ UNCHANGED <<program, store, lineage, hierarchyGeneration, generations, batch, tables,
                         loading, work>>
      BY <1>3 DEF vars, state
    <2>2. CacheGood'
      BY <1>1, <1>2, <2>1
    <2>3. BuildGood'
      BY <2>1, SameDates DEF BuildGood, Building, KeptFor, Dated, Current
    <2>. QED
      BY <2>2, <2>3
  <1>4. ASSUME \/ \E f \in NewFact : PublishFact(f) \/ DeleteFact(f)
               \/ \E c \in Clause : AddClause(c)
               \/ \E pair \in Subtype : ExtendType(pair)
               \/ \E pair \in Contrary : RegisterContrary(pair)
               \/ BeginBatch \/ EndBatch \/ BeginModule \/ CommitModule \/ RollbackModule
        PROVE  CacheGood' /\ BuildGood'
    <2>1. work' = Idle
      BY <1>4 DEF PublishFact, DeleteFact, AddClause, ExtendType, RegisterContrary, BeginBatch,
                  EndBatch, BeginModule, CommitModule, RollbackModule, Change
    <2>2. BuildGood'
      BY <2>1 DEF BuildGood, Building
    <2>3. ASSUME NEW pair \in Contrary, RegisterContrary(pair)
          PROVE  CacheGood'
      BY <1>1, <1>2, <2>3 DEF RegisterContrary
    <2>4. CASE BeginBatch
      <3>1. /\ UNCHANGED <<program, store, lineage, hierarchyGeneration, generations, tables, loading>>
            /\ batch' = [batch EXCEPT !.depth = 1]
        BY <2>4 DEF BeginBatch, state
      <3>2. batch' \in [depth : {batch'.depth}, pending : BOOLEAN] /\ batch'.pending = batch.pending
        BY <3>1 DEF CacheGood
      <3>. QED
        BY <1>2, <2>2, <3>1, <3>2, CacheKept
    <2>5. CASE BeginModule
      <3>1. /\ UNCHANGED <<program, store, lineage, hierarchyGeneration, generations, tables, batch>>
            /\ loading'.hierarchyGeneration = hierarchyGeneration
            /\ loading'.generations = generations
        BY <2>5 DEF BeginModule, state
      <3>. QED
        BY <1>1, <1>2, <2>2, <3>1
    <2>6. CASE CommitModule
      <3>1. /\ UNCHANGED <<program, store, lineage, hierarchyGeneration, generations, tables, batch>>
            /\ loading' = NotLoading
        BY <2>6 DEF CommitModule, state
      <3>. QED
        BY <1>1, <2>2, <3>1
    <2>. QED
      BY <1>4, <2>2, <2>3, <2>4, <2>5, <2>6, WriteCache, ClauseCache, LineageCache, EndCache
  <1>5. ASSUME \/ \E query \in Query, prove \in BOOLEAN : Ask(query, prove)
               \/ Find \/ Refuse \/ Collect \/ Answer
        PROVE  CacheGood' /\ BuildGood'
    <2>1. (work = Idle \/ Asking(work))'
      BY <1>5, AskingSteps
    <2>2. BuildGood'
      BY <2>1 DEF BuildGood, Building, Asking
    <2>3. /\ UNCHANGED <<program, store, lineage, hierarchyGeneration, generations, batch, loading>>
          /\ tables' = tables \/ tables' = Restrict(tables, (DOMAIN tables) \ {work.of})
      BY <1>5 DEF Ask, Find, Refuse, Collect, Answer, state
    <2>. QED
      BY <1>1, <1>2, <2>2, <2>3
  <1>6. CASE StartBuild
    <2>1. /\ UNCHANGED <<program, store, lineage, hierarchyGeneration, generations, batch, loading>>
          /\ tables' = Restrict(tables, (DOMAIN tables) \ {work.of})
      BY <1>6 DEF StartBuild, state
    <2>. QED
      BY <1>1, <1>2, <1>6, <2>1, StartCurrent
  <1>7. CASE LoadFacts \/ LayStrata \/ PassStrata \/ Round \/ SkipStratum
    <2>1. /\ UNCHANGED <<program, store, lineage, hierarchyGeneration, generations, batch, loading>>
          /\ tables' = tables
      BY <1>7 DEF LoadFacts, LayStrata, PassStrata, Round, SkipStratum, state
    <2>. QED
      BY <1>1, <1>2, <1>7, <2>1, BuildCurrent
  <1>8. CASE KeepTables
    <2>1. Evaluating(work)
      BY <1>8 DEF IInv, WorkGood, KeepTables, AtPhase, Asking
    <2>2. work' = [x \in (DOMAIN work) \ {"e", "toLoad"} |->
                      IF x = "phase" THEN "collect" ELSE work[x]]
      BY <1>8 DEF KeepTables
    <2>3. "phase" \in (DOMAIN work) \ {"e", "toLoad"}
      BY <2>1 DEF Evaluating, BuildShape
    <2>4. work'.phase = "collect"
      BY <2>2, <2>3
    <2>5. BuildGood'
      BY <2>4 DEF BuildGood, Building
    <2>. QED
      BY <1>8, <2>5, KeepCache
  <1>. QED
    BY <1>3, <1>4, <1>5, <1>6, <1>7, <1>8 DEF Next, Build

------------------------------------------------------------------------------
(* Answers *)

TrueMatching(query, p) == {v \in TrueOf(p, Meaning) : Matches(<<>>, query[2], v)}

\* A call is answered for its own predicate and then, if there is one, for the
\* contrary; meanwhile nothing is written, and what has been found stays true.
AnswerGood ==
    work # Idle =>
        /\ answer = NoAnswer /\ ~batch.pending
        /\ \E x, y : work.found = [positive |-> x, negative |-> y]
        /\ \/ work.side = "positive" /\ work.of = work.query[1] /\ work.found.negative = {}
           \/ /\ work.side = "negative" /\ work.prove /\ work.query[1] \in DOMAIN contraries
              /\ work.of = contraries[work.query[1]]
              /\ work.found.positive = TrueMatching(work.query, work.query[1])
        /\ work.phase = "collect" => work.of \in DOMAIN tables /\ Current(tables[work.of])

\* What a current table tells of a call is what is true.
LEMMA MatchingTrue ==
    ASSUME CacheGood, AnswerGood, work # Idle, work.phase = "collect"
    PROVE  {a.args : a \in MatchingIn(tables[work.of])} = TrueMatching(work.query, work.of)
  <1>1. PICK e, p : e = tables[work.of] /\ p = work.of
    OBVIOUS
  <1>2. p \in DOMAIN tables /\ Current(e) /\ ~batch.pending
    BY <1>1 DEF AnswerGood
  <1>3. KeptFor(p, e) /\ TablesTrue(e)
    BY <1>1, <1>2 DEF CacheGood
  <1>4. e.root = p /\ p \in e.names
    BY <1>3 DEF KeptFor
  <1>5. PICK A, T : A = Range(e.table[p].answers) /\ T = TrueOf(p, Meaning)
    OBVIOUS
  <1>6. {a.args : a \in A} = T
    BY <1>3, <1>4, <1>5 DEF TablesTrue, TablesHoldMeaning
  <1>7. MatchingIn(e) = {a \in A : Matches(<<>>, work.query[2], a.args)}
    BY <1>4, <1>5 DEF MatchingIn
  <1>8. TrueMatching(work.query, p) = {v \in T : Matches(<<>>, work.query[2], v)}
    BY <1>5 DEF TrueMatching
  <1>9. {a.args : a \in MatchingIn(e)} = {v \in T : Matches(<<>>, work.query[2], v)}
    BY <1>6, <1>7
  <1>. QED
    BY <1>1, <1>8, <1>9

\* What has been found is recorded for the side that was asked.
LEMMA FoundIs ==
    ASSUME IInv, CacheGood, AnswerGood, AtPhase("collect")
    PROVE  /\ AskedShape(work) /\ AskedShape(Found)
           /\ Found.query = work.query /\ Found.prove = work.prove
           /\ \A x, y : work.found = [positive |-> x, negative |-> y] =>
                  Found.found = IF work.side = "positive"
                                THEN [positive |-> TrueMatching(work.query, work.of), negative |-> y]
                                ELSE [positive |-> x, negative |-> TrueMatching(work.query, work.of)]
  <1>1. AskedShape(work) /\ work # Idle /\ work.phase = "collect"
    BY DEF IInv, WorkGood, AtPhase, Asking, Evaluating
  <1>2. work.side \in {"positive", "negative"}
    BY <1>1 DEF AnswerGood
  <1>3. PICK z, y : /\ z = {a.args : a \in MatchingIn(tables[work.of])}
                    /\ Found = [work EXCEPT !.found[work.side] = z, !.facts[work.side] = y]
    BY Zenon DEF Found
  <1>4. z = TrueMatching(work.query, work.of)
    BY <1>1, <1>3, MatchingTrue
  <1>5. PICK F, G : F = [work.found EXCEPT ![work.side] = z] /\ G = [work.facts EXCEPT ![work.side] = y]
    OBVIOUS
  <1>6. Found = [work EXCEPT !.found = F, !.facts = G]
    BY <1>1, <1>3, <1>5 DEF AskedShape
  <1>7. /\ AskedShape(Found) /\ Found.query = work.query /\ Found.prove = work.prove
        /\ Found.found = F
    BY <1>1, <1>6 DEF AskedShape
  <1>8. ASSUME NEW a, NEW b, work.found = [positive |-> a, negative |-> b]
        PROVE  F = IF work.side = "positive" THEN [positive |-> z, negative |-> b]
                   ELSE [positive |-> a, negative |-> z]
    <2>1. PICK r : r = [positive |-> a, negative |-> b]
      OBVIOUS
    <2>2. CASE work.side = "positive"
      <3>1. F = [r EXCEPT !["positive"] = z]
        BY <1>5, <1>8, <2>1, <2>2
      <3>2. F = [positive |-> z, negative |-> b]
        BY <2>1, <3>1
      <3>. QED
        BY <2>2, <3>2
    <2>3. CASE work.side = "negative"
      <3>1. F = [r EXCEPT !["negative"] = z]
        BY <1>5, <1>8, <2>1, <2>3
      <3>2. F = [positive |-> a, negative |-> z]
        BY <2>1, <3>1
      <3>3. work.side # "positive"
        BY <2>3
      <3>. QED
        BY <3>2, <3>3
    <2>. QED
      BY <1>2, <2>2, <2>3
  <1>. QED
    BY <1>1, <1>4, <1>7, <1>8

\* Truth stays while nothing is written.
LEMMA SameMatching ==
    ASSUME UNCHANGED <<program, store, lineage>>
    PROVE  \A query, p : TrueMatching(query, p) = TrueMatching(query, p)'
  <1>1. Meaning' = Meaning
    BY SameTruth
  <1>. QED
    BY <1>1 DEF TrueMatching, TrueOf

\* An answer is what is true when it is given.
LEMMA AnsweredTruly ==
    ASSUME IInv, CacheGood, AnswerGood, Answer
    PROVE  IsTrueNow(answer', Meaning)
  <1>1. /\ AtPhase("collect") /\ work # Idle
        /\ Contrarily => IsEmpty(contraries[work.of])
    BY DEF Answer, AtPhase
  <1>2. PICK x, y : work.found = [positive |-> x, negative |-> y]
    BY <1>1 DEF AnswerGood
  <1>3. PICK q, prove, T : q = work.query /\ prove = work.prove /\ T = TrueMatching(q, work.of)
    OBVIOUS
  <1>4. PICK found : /\ found = Found.found
                     /\ answer' = [query |-> q, prove |-> prove, found |-> found, facts |-> Found.facts,
                                   truth |-> TruthStatus(found.positive, found.negative)]
    BY <1>3, Zenon DEF Answer
  <1>5. answer'.query = q /\ answer'.prove = prove /\ answer'.found = found
    BY <1>4
  <1>6. found = IF work.side = "positive" THEN [positive |-> T, negative |-> y]
                ELSE [positive |-> x, negative |-> T]
    BY <1>1, <1>2, <1>3, <1>4, FoundIs
  <1>7. /\ found.positive = TrueMatching(q, q[1])
        /\ prove /\ q[1] \in DOMAIN contraries =>
              \/ found.negative = TrueMatching(q, contraries[q[1]])
              \/ IsEmpty(contraries[q[1]]) /\ found.negative = {}
    <2>1. CASE work.side = "positive" /\ work.of = work.query[1] /\ work.found.negative = {}
      <3>1. found.positive = T /\ T = TrueMatching(q, q[1])
        BY <1>3, <1>6, <2>1
      <3>2. found.negative = {}
        BY <1>2, <1>6, <2>1
      <3>3. prove /\ q[1] \in DOMAIN contraries => IsEmpty(contraries[q[1]])
        BY <1>1, <1>3, <2>1 DEF Contrarily
      <3>. QED
        BY <3>1, <3>2, <3>3
    <2>2. CASE /\ work.side = "negative" /\ work.of = contraries[work.query[1]]
               /\ work.found.positive = TrueMatching(work.query, work.query[1])
      <3>1. work.side # "positive"
        BY <2>2
      <3>2. found.positive = x /\ found.negative = T
        BY <1>6, <3>1
      <3>. QED
        BY <1>2, <1>3, <2>2, <3>2
    <2>. QED
      BY <1>1, <2>1, <2>2 DEF AnswerGood
  <1>8. PICK a : a = answer'
    OBVIOUS
  <1>9. IsTrueNow(a, Meaning)
    BY <1>5, <1>7, <1>8 DEF IsTrueNow, TrueMatching
  <1>. QED
    BY <1>8, <1>9

\* While a call is answered, steps that change what is neither asked nor found.
LEMMA AnswerKept ==
    ASSUME AnswerGood, work # Idle, answer' = NoAnswer \/ answer' = answer,
           UNCHANGED <<program, store, lineage, contraries, batch>>,
           work'.found = work.found, work'.side = work.side, work'.of = work.of,
           work'.query = work.query, work'.prove = work.prove,
           work'.phase = "collect" =>
               work'.of \in DOMAIN tables' /\ (Current(tables[work.of]))'
    PROVE  AnswerGood'
  <1>1. /\ answer = NoAnswer /\ ~batch.pending
        /\ \E x, y : work.found = [positive |-> x, negative |-> y]
        /\ \/ work.side = "positive" /\ work.of = work.query[1] /\ work.found.negative = {}
           \/ /\ work.side = "negative" /\ work.prove /\ work.query[1] \in DOMAIN contraries
              /\ work.of = contraries[work.query[1]]
              /\ work.found.positive = TrueMatching(work.query, work.query[1])
    BY DEF AnswerGood
  <1>2. PICK q, of, found : q = work.query /\ of = work.of /\ found = work.found
    OBVIOUS
  <1>3. TrueMatching(q, q[1]) = TrueMatching(q, q[1])'
    BY SameMatching
  <1>4. answer' = NoAnswer /\ ~batch'.pending
    BY <1>1
  <1>5. \E x, y : work'.found = [positive |-> x, negative |-> y]
    BY <1>1
  <1>6. ASSUME work.side = "negative", work.prove, q[1] \in DOMAIN contraries,
               of = contraries[q[1]], found.positive = TrueMatching(q, q[1])
        PROVE  (/\ work.side = "negative" /\ work.prove /\ work.query[1] \in DOMAIN contraries
                /\ work.of = contraries[work.query[1]]
                /\ work.found.positive = TrueMatching(work.query, work.query[1]))'
    <2>1. work'.query = q /\ work'.of = of /\ work'.found = found
      BY <1>2
    <2>. QED
      BY <1>3, <1>6, <2>1
  <1>7. (\/ work.side = "positive" /\ work.of = work.query[1] /\ work.found.negative = {}
         \/ /\ work.side = "negative" /\ work.prove /\ work.query[1] \in DOMAIN contraries
            /\ work.of = contraries[work.query[1]]
            /\ work.found.positive = TrueMatching(work.query, work.query[1]))'
    BY <1>1, <1>2, <1>6
  <1>. QED
    BY <1>4, <1>5, <1>7 DEF AnswerGood

\* A call is asked of its own predicate first.
LEMMA AskStep ==
    ASSUME AskAfterWrite = FALSE, NEW query \in Query, NEW prove \in BOOLEAN, Ask(query, prove)
    PROVE  AnswerGood'
  <1>1. ~batch.pending /\ UNCHANGED batch /\ answer' = NoAnswer
    BY DEF Ask
  <1>2. work' = [phase |-> "lookup", query |-> query, prove |-> prove, side |-> "positive",
                 of |-> query[1], found |-> [positive |-> {}, negative |-> {}],
                 facts |-> [positive |-> {}, negative |-> {}]]
    BY DEF Ask
  <1>3. /\ work'.phase = "lookup" /\ work'.side = "positive" /\ work'.of = work'.query[1]
        /\ work'.found = [positive |-> {}, negative |-> {}] /\ work'.found.negative = {}
    BY <1>2
  <1>. QED
    BY <1>1, <1>3 DEF AnswerGood

\* A table is found when it is current.
LEMMA FindStep ==
    ASSUME IInv, AnswerGood, Find
    PROVE  AnswerGood'
  <1>1. AskedShape(work) /\ work # Idle
    BY DEF IInv, WorkGood, Find, AtPhase, Asking, Evaluating
  <1>2. /\ work' = [work EXCEPT !.phase = "collect"] /\ answer' = NoAnswer
        /\ UNCHANGED <<program, store, lineage, hierarchyGeneration, generations, contraries,
                       tables, batch>>
    BY DEF Find, state
  <1>3. /\ work'.found = work.found /\ work'.side = work.side /\ work'.of = work.of
        /\ work'.query = work.query /\ work'.prove = work.prove
    BY <1>1, <1>2 DEF AskedShape
  <1>4. work.of \in DOMAIN tables /\ Current(tables[work.of])
    BY DEF Find, HasTable, IsValid, Current
  <1>5. work'.of \in DOMAIN tables' /\ (Current(tables[work.of]))'
    BY <1>2, <1>3, <1>4 DEF Current
  <1>. QED
    BY <1>1, <1>2, <1>3, <1>5, AnswerKept

\* The steps of an evaluation answer nothing yet.
LEMMA BuildingStep ==
    ASSUME IInv, AnswerGood,
           StartBuild \/ LoadFacts \/ LayStrata \/ PassStrata \/ Round \/ SkipStratum
    PROVE  AnswerGood'
  <1>1. work # Idle /\ (answer' = NoAnswer \/ answer' = answer)
        /\ UNCHANGED <<program, store, lineage, contraries, batch>>
    BY DEF StartBuild, LoadFacts, LayStrata, PassStrata, Round, SkipStratum, AtPhase, state
  <1>2. ASSUME /\ work'.found = work.found /\ work'.side = work.side /\ work'.of = work.of
               /\ work'.query = work.query /\ work'.prove = work.prove
               /\ work'.phase # "collect"
        PROVE  AnswerGood'
    BY <1>1, <1>2, AnswerKept
  <1>3. CASE StartBuild
    <2>1. PICK N, e : work' = [phase |-> "load", query |-> work.query, prove |-> work.prove,
                 side |-> work.side, of |-> work.of, found |-> work.found, facts |-> work.facts,
                 toLoad |-> N, e |-> e]
      BY <1>3, Zenon DEF StartBuild
    <2>. QED
      BY <1>2, <2>1
  <1>4. ASSUME LoadFacts \/ LayStrata \/ PassStrata \/ Round \/ SkipStratum
        PROVE  AnswerGood'
    <2>1. BuildShape(work) /\ work.phase # "collect"
      BY <1>4 DEF LoadFacts, LayStrata, PassStrata, Round, SkipStratum, AtPhase,
                  IInv, WorkGood, Asking, Evaluating
    <2>2. CASE LoadFacts
      <3>1. PICK N, f : work' = [work EXCEPT !.toLoad = N, !.e = f]
        BY <2>2, Zenon DEF LoadFacts
      <3>. QED
        BY <1>2, <2>1, <3>1 DEF BuildShape
    <2>3. CASE LayStrata
      <3>1. work' = [work EXCEPT !.phase = "strata"]
        BY <2>3 DEF LayStrata
      <3>. QED
        BY <1>2, <2>1, <3>1 DEF BuildShape
    <2>4. CASE PassStrata
      <3>1. PICK ph, f : /\ work' = [work EXCEPT !.phase = ph, !.e = f]
                         /\ ph \in {"rounds", "unstratified", work.phase}
        BY <2>4, Zenon DEF PassStrata
      <3>2. ph # "collect"
        BY <2>1, <3>1
      <3>. QED
        BY <1>2, <2>1, <3>1, <3>2 DEF BuildShape
    <2>5. CASE Round
      <3>1. PICK f : work' = [work EXCEPT !.e = f]
        BY <2>5, Zenon DEF Round
      <3>. QED
        BY <1>2, <2>1, <3>1 DEF BuildShape
    <2>6. CASE SkipStratum
      <3>1. work' = [work EXCEPT !.e.current = @ + 1]
        BY <2>6 DEF SkipStratum
      <3>. QED
        BY <1>2, <2>1, <3>1 DEF BuildShape
    <2>. QED
      BY <1>4, <2>2, <2>3, <2>4, <2>5, <2>6
  <1>. QED
    BY <1>3, <1>4

\* What has been kept is collected.
LEMMA KeepStep ==
    ASSUME IInv, ExactNow, CacheGood, BuildGood, AnswerGood, KeepTables
    PROVE  AnswerGood'
  <1>1. Evaluating(work) /\ work # Idle
    BY DEF IInv, WorkGood, KeepTables, AtPhase, Asking
  <1>2. /\ work' = [x \in (DOMAIN work) \ {"e", "toLoad"} |->
                       IF x = "phase" THEN "collect" ELSE work[x]]
        /\ UNCHANGED <<program, store, lineage, hierarchyGeneration, generations, contraries, batch,
                       answer>>
    BY DEF KeepTables, state
  <1>3. DOMAIN work = {"phase", "query", "prove", "side", "of", "found", "facts", "toLoad", "e"}
    BY <1>1 DEF Evaluating, BuildShape
  <1>4. (DOMAIN work) \ {"e", "toLoad"}
            = {"phase", "query", "prove", "side", "of", "found", "facts"}
    BY <1>3
  <1>5. /\ work'.found = work.found /\ work'.side = work.side /\ work'.of = work.of
        /\ work'.query = work.query /\ work'.prove = work.prove
    BY <1>2, <1>4
  <1>6. work.of \in DOMAIN tables' /\ Current(tables'[work.of])
    BY KeepCache
  <1>7. work'.of \in DOMAIN tables' /\ (Current(tables[work.of]))'
    BY <1>2, <1>5, <1>6 DEF Current
  <1>. QED
    BY <1>1, <1>2, <1>5, <1>7, AnswerKept

\* The contrary is asked after what was found has been recorded.
LEMMA CollectStep ==
    ASSUME IInv, CacheGood, AnswerGood, Collect
    PROVE  AnswerGood'
  <1>1. AtPhase("collect") /\ Contrarily /\ work # Idle
    BY DEF Collect, AtPhase
  <1>2. /\ work.prove /\ work.side = "positive" /\ work.of \in DOMAIN contraries
        /\ work.of = work.query[1] /\ answer = NoAnswer /\ ~batch.pending
    BY <1>1 DEF Contrarily, AnswerGood
  <1>3. PICK x, y : work.found = [positive |-> x, negative |-> y]
    BY <1>1 DEF AnswerGood
  <1>4. PICK q, T, w : q = work.query /\ T = TrueMatching(q, q[1]) /\ w = Found
    OBVIOUS
  <1>5. /\ AskedShape(w) /\ w.query = q /\ w.prove = work.prove
        /\ w.found = [positive |-> T, negative |-> y]
    BY <1>1, <1>2, <1>3, <1>4, FoundIs, ZenonT(40)
  <1>6. /\ work' = [w EXCEPT !.phase = "lookup", !.side = "negative", !.of = contraries[work.of]]
        /\ UNCHANGED <<program, store, lineage, contraries, batch, answer>>
    BY <1>4, Zenon DEF Collect, state
  <1>7. /\ work'.phase = "lookup" /\ work'.side = "negative" /\ work'.of = contraries[q[1]]
        /\ work'.query = q /\ work'.prove /\ work'.found = [positive |-> T, negative |-> y]
    BY <1>2, <1>4, <1>5, <1>6 DEF AskedShape
  <1>8. T = TrueMatching(q, q[1])'
    BY <1>4, <1>6, SameMatching
  <1>9. (/\ work.side = "negative" /\ work.prove /\ work.query[1] \in DOMAIN contraries
         /\ work.of = contraries[work.query[1]]
         /\ work.found.positive = TrueMatching(work.query, work.query[1]))'
    BY <1>2, <1>4, <1>6, <1>7, <1>8
  <1>10. answer' = NoAnswer /\ ~batch'.pending /\ work'.phase # "collect"
         /\ \E a, b : work'.found = [positive |-> a, negative |-> b]
    BY <1>2, <1>6, <1>7
  <1>. QED
    BY <1>9, <1>10 DEF AnswerGood

LEMMA AnswerSteps ==
    ASSUME AskAfterWrite = FALSE, IInv, ExactNow, CacheGood, BuildGood, AnswerGood, [Next]_vars
    PROVE  AnswerGood'
  <1>1. CASE UNCHANGED vars
    <2>1. UNCHANGED <<program, store, lineage, hierarchyGeneration, generations, contraries, batch,
                      tables, work, answer>>
      BY <1>1 DEF vars, state
    <2>2. CASE work = Idle
      BY <2>1, <2>2 DEF AnswerGood
    <2>3. CASE work # Idle
      <3>1. work.phase = "collect" => work.of \in DOMAIN tables /\ Current(tables[work.of])
        BY <2>3 DEF AnswerGood
      <3>2. work'.phase = "collect" => work'.of \in DOMAIN tables' /\ (Current(tables[work.of]))'
        BY <2>1, <3>1 DEF Current
      <3>. QED
        BY <2>1, <2>3, <3>2, AnswerKept
    <2>. QED
      BY <2>2, <2>3
  <1>2. ASSUME \/ \E f \in NewFact : PublishFact(f) \/ DeleteFact(f)
               \/ \E c \in Clause : AddClause(c)
               \/ \E pair \in Subtype : ExtendType(pair)
               \/ \E pair \in Contrary : RegisterContrary(pair)
               \/ BeginBatch \/ EndBatch \/ BeginModule \/ CommitModule \/ RollbackModule
               \/ Refuse \/ Answer
        PROVE  AnswerGood'
    <2>1. work' = Idle
      BY <1>2 DEF PublishFact, DeleteFact, AddClause, ExtendType, RegisterContrary, BeginBatch,
                  EndBatch, BeginModule, CommitModule, RollbackModule, Change, Refuse, Answer
    <2>. QED
      BY <2>1 DEF AnswerGood
  <1>. QED
    BY <1>1, <1>2, AskStep, FindStep, BuildingStep, KeepStep, CollectStep DEF Next, Build

\* Only Answer answers.
LEMMA OnlyAnswers ==
    ASSUME AnswerGood, Next, answer' # NoAnswer
    PROVE  Answer
  <1>1. ASSUME Build \/ Collect
        PROVE  answer' = NoAnswer
    <2>1. work # Idle /\ answer' = answer
      BY <1>1 DEF Build, LoadFacts, LayStrata, PassStrata, Round, SkipStratum, KeepTables, Collect,
                  AtPhase
    <2>. QED
      BY <2>1 DEF AnswerGood
  <1>2. ASSUME \/ \E f \in NewFact : PublishFact(f) \/ DeleteFact(f)
               \/ \E c \in Clause : AddClause(c)
               \/ \E pair \in Subtype : ExtendType(pair)
               \/ \E pair \in Contrary : RegisterContrary(pair)
               \/ BeginBatch \/ EndBatch \/ BeginModule \/ CommitModule \/ RollbackModule
               \/ \E query \in Query, prove \in BOOLEAN : Ask(query, prove)
               \/ Find \/ Refuse \/ StartBuild
        PROVE  answer' = NoAnswer
    BY <1>2 DEF PublishFact, DeleteFact, AddClause, ExtendType, RegisterContrary, BeginBatch,
                EndBatch, BeginModule, CommitModule, RollbackModule, Change, Ask, Find, Refuse,
                StartBuild
  <1>. QED
    BY <1>1, <1>2 DEF Next

\* Where nothing is asked while a batch has yet to clear the caches and no error
\* of a statement is caught in a load, an answer, from a table built for it or
\* kept from before, is what program, facts and lineage mean when it is given
\* (tableEvaluationValid and the clearing of tableCache_ at every write).
THEOREM AnswersTrueHolds ==
    ASSUME AskAfterWrite = FALSE, CaughtInLoad = FALSE
    PROVE  Spec => AnswersTrue
  <1> DEFINE CInv == ExactNow /\ CacheGood /\ BuildGood /\ AnswerGood
  <1>1. Init => CInv
    <2>1. DOMAIN <<>> = {}
      OBVIOUS
    <2>. QED
      BY <2>1 DEF Init, ExactNow, CacheGood, BuildGood, AnswerGood, Building, AreGenerations,
                  NotInBatch
  <1>2. IInv /\ CInv /\ [Next]_vars => CInv'
    BY ExactSteps, CacheSteps, AnswerSteps
  <1>3. IInv /\ CInv /\ [Next]_vars => [answer' # NoAnswer => IsTrueNow(answer', Meaning)]_vars
    <2>1. ASSUME IInv, CInv, Next, answer' # NoAnswer
          PROVE  IsTrueNow(answer', Meaning)
      BY <2>1, OnlyAnswers, AnsweredTruly
    <2>. QED
      BY <2>1
  <1>. QED
    BY <1>1, <1>2, <1>3, Invariance, PTL DEF Spec, AnswersTrue

------------------------------------------------------------------------------
(* What stands under a proof *)

\* The atoms that the proofs with the numbers hs are of.
ProvedOf(proofs, hs) == {proofs[k].of : k \in hs}

\* A proof by a stored fact, or by a rule that yields the atom from what the
\* parents prove, where what is not true is denied.
Follows(rs, M, proofs, x) ==
    /\ x.facts \subseteq store
    /\ \/ \E f \in x.facts : x.of \in AtomsOf({f})
       \/ \E c \in rs : Yields(c, Value, ProvedOf(proofs, Range(x.parents)), M, x.of)

\* Every proof follows from earlier ones.
ProofsFollow(rs, M, proofs) ==
    \A h \in DOMAIN proofs :
        Range(proofs[h].parents) \subseteq 1 .. h - 1 /\ Follows(rs, M, proofs, proofs[h])

\* More facts have more atoms.
LEMMA AtomsMore ==
    ASSUME NEW F, NEW G, F \subseteq G
    PROVE  AtomsOf(F) \subseteq AtomsOf(G)
  BY DEF AtomsOf

\* From more atoms no less is derived.
LEMMA LeastFromMore ==
    ASSUME NEW cs, NEW V, NEW S, Sensible(cs, V, S), NEW R, Sensible(cs, V, R), S \subseteq R,
           NEW I
    PROVE  Least(cs, V, S, I) \subseteq Least(cs, V, R, I)
  <1>1. PICK P, Q, A : /\ P = Least(cs, V, S, I) /\ Q = Least(cs, V, R, I)
                       /\ A = Atoms(cs, V, S)
    OBVIOUS
  <1>2. R \subseteq Q /\ Consequences(cs, V, Q, I) \subseteq Q
    BY <1>1, LeastIs
  <1>3. PICK C \in SUBSET A : C = A \cap Q
    OBVIOUS
  <1>4. S \subseteq A /\ \A T : Consequences(cs, V, T, I) \subseteq A
    BY <1>1, AtomsFinite
  <1>5. Consequences(cs, V, C, I) \subseteq C
    <2>1. ASSUME NEW x \in Consequences(cs, V, C, I)
          PROVE  x \in C
      <3>1. PICK c \in cs : Yields(c, V, C, I, x)
        BY <2>1, ConsequencesAre
      <3>2. Yields(c, V, Q, I, x)
        BY <1>3, <3>1, YieldsMore
      <3>3. x \in Q
        BY <1>2, <3>2, ConsequencesAre
      <3>. QED
        BY <1>3, <1>4, <2>1, <3>3
    <2>. QED
      BY <2>1
  <1>6. S \subseteq C
    BY <1>2, <1>3, <1>4
  <1>7. \A D \in SUBSET A : S \subseteq D /\ Consequences(cs, V, D, I) \subseteq D => P \subseteq D
    BY <1>1, LeastIs
  <1>. QED
    BY <1>1, <1>3, <1>5, <1>6, <1>7

\* U has the proofs H and their parents, and no more than it must.
IsUnder(proofs, H, U) ==
    /\ U \subseteq DOMAIN proofs /\ H \subseteq U
    /\ \A k \in U : Range(proofs[k].parents) \subseteq U
    /\ \A C \in SUBSET DOMAIN proofs :
           H \subseteq C /\ (\A k \in C : Range(proofs[k].parents) \subseteq C) => U \subseteq C

LEMMA UnderIs ==
    ASSUME NEW e, IsASequence(e.proofs),
           \A h \in DOMAIN e.proofs : Range(e.proofs[h].parents) \subseteq DOMAIN e.proofs,
           NEW H \in SUBSET DOMAIN e.proofs
    PROVE  IsUnder(e.proofs, H, Under(e, H))
  <1> DEFINE Parents(hs) == UNION {Range(e.proofs[h].parents) : h \in hs}
  <1>1. PICK D : D = DOMAIN e.proofs /\ IsFiniteSet(D)
    <2>1. PICK n \in Nat : DOMAIN e.proofs = 1 .. n
      BY SequenceOfElements
    <2>2. IsFiniteSet(1 .. n)
      BY FS_Interval
    <2>. QED
      BY <2>1, <2>2
  <1>2. PICK G : G = [hs \in SUBSET D |-> Parents(hs)]
    OBVIOUS
  <1>3. Growing(G, D)
    <2>1. \A hs \in SUBSET D : Parents(hs) \in SUBSET D
      BY <1>1
    <2>2. \A C, E \in SUBSET D : C \subseteq E => Parents(C) \subseteq Parents(E)
      OBVIOUS
    <2> HIDE DEF Parents
    <2>. QED
      BY <1>2, <2>1, <2>2 DEF Growing
  <1>4. PICK f : /\ f = CHOOSE under : under = [hs \in SUBSET D |->
                            IF hs \cup Parents(hs) = hs THEN hs ELSE under[hs \cup Parents(hs)]]
                 /\ Under(e, H) = f[H]
    BY <1>1, Zenon DEF Under
  <1> HIDE DEF Parents
  <1>5. \A g : Grows(g, D, G) <=> g = [hs \in SUBSET D |->
                            IF hs \cup Parents(hs) = hs THEN hs ELSE g[hs \cup Parents(hs)]]
    BY <1>2 DEF Grows
  <1>6. Grows(f, D, G)
    BY <1>3, <1>4, <1>5, GrowsSomehow, Zenon
  <1>7. PICK U : U = Under(e, H) /\ U = ClosureOf(D, G, H)
    <2>1. H \in SUBSET D
      BY <1>1
    <2>2. f[H] = ClosureOf(D, G, H)
      BY <1>1, <1>3, <1>6, <2>1, GrowsToClosure
    <2>. QED
      BY <1>4, <2>2
  <1>8. /\ U \in SUBSET D /\ H \subseteq U /\ G[U] \subseteq U
        /\ \A C \in SUBSET D : H \subseteq C /\ G[C] \subseteq C => U \subseteq C
    BY <1>1, <1>3, <1>7, ClosureCloses
  <1>9. \A C \in SUBSET D : G[C] \subseteq C <=> \A k \in C : Range(e.proofs[k].parents) \subseteq C
    <2>1. TAKE C \in SUBSET D
    <2>2. G[C] = UNION {Range(e.proofs[h].parents) : h \in C}
      BY <1>2 DEF Parents
    <2>. QED
      BY <2>2
  <1>. QED
    BY <1>1, <1>7, <1>8, <1>9 DEF IsUnder

\* The facts under a proof are stored, and those under a parent are among them.
LEMMA FactsBelow ==
    ASSUME NEW e, IsASequence(e.proofs), NEW rs, NEW M, ProofsFollow(rs, M, e.proofs),
           NEW h \in DOMAIN e.proofs
    PROVE  /\ FactsUnder(e, {h}) \subseteq store
           /\ e.proofs[h].facts \subseteq FactsUnder(e, {h})
           /\ \A k \in Range(e.proofs[h].parents) :
                  k \in 1 .. h - 1 /\ k \in DOMAIN e.proofs
                  /\ FactsUnder(e, {k}) \subseteq FactsUnder(e, {h})
  <1>1. PICK n \in Nat : DOMAIN e.proofs = 1 .. n
    BY SequenceOfElements
  <1>2. \A j \in 1 .. n : Range(e.proofs[j].parents) \subseteq 1 .. j - 1
    BY <1>1 DEF ProofsFollow
  <1>3. \A j \in DOMAIN e.proofs : Range(e.proofs[j].parents) \subseteq DOMAIN e.proofs
    <2>1. \A j \in 1 .. n : 1 .. j - 1 \subseteq 1 .. n
      OBVIOUS
    <2>. QED
      BY <1>1, <1>2, <2>1
  <1>4. \A j \in DOMAIN e.proofs : IsUnder(e.proofs, {j}, Under(e, {j}))
    BY <1>3, UnderIs
  <1>5. PICK U : U = Under(e, {h}) /\ IsUnder(e.proofs, {h}, U)
    BY <1>4
  <1>6. FactsUnder(e, {h}) = UNION {e.proofs[j].facts : j \in U}
    BY <1>5 DEF FactsUnder
  <1>7. \A j \in DOMAIN e.proofs : e.proofs[j].facts \subseteq store
    BY DEF ProofsFollow, Follows
  <1>8. U \subseteq DOMAIN e.proofs /\ h \in U
    BY <1>5 DEF IsUnder
  <1>9. ASSUME NEW k \in Range(e.proofs[h].parents)
        PROVE  k \in 1 .. h - 1 /\ k \in DOMAIN e.proofs
               /\ FactsUnder(e, {k}) \subseteq FactsUnder(e, {h})
    <2>1. k \in 1 .. h - 1 /\ k \in DOMAIN e.proofs
      BY <1>1, <1>2, <1>3
    <2>2. k \in U
      BY <1>5, <1>8 DEF IsUnder
    <2>3. PICK W : W = Under(e, {k}) /\ IsUnder(e.proofs, {k}, W)
      BY <1>4, <2>1
    <2>4. W \subseteq U
      BY <1>5, <2>2, <2>3, ZenonT(40) DEF IsUnder
    <2>5. FactsUnder(e, {k}) = UNION {e.proofs[j].facts : j \in W}
      BY <2>3 DEF FactsUnder
    <2>. QED
      BY <1>6, <2>1, <2>4, <2>5
  <1>. QED
    BY <1>6, <1>7, <1>8, <1>9

\* Whatever is proved follows by the rules from the facts under its proof.
LEMMA FollowsFromFacts ==
    ASSUME NEW e, IsASequence(e.proofs), NEW rs, NEW M, ProofsFollow(rs, M, e.proofs),
           Sensible(rs, Value, AtomsOf(store))
    PROVE  \A h \in DOMAIN e.proofs :
               e.proofs[h].of \in Least(rs, Value, AtomsOf(FactsUnder(e, {h})), M)
  <1>1. PICK n \in Nat : DOMAIN e.proofs = 1 .. n
    BY SequenceOfElements
  <1> DEFINE Derivable(h) == Least(rs, Value, AtomsOf(FactsUnder(e, {h})), M)
             G == {m \in 0 .. n : \A h \in 1 .. m : e.proofs[h].of \in Derivable(h)}
  <1>2. ASSUME NEW h \in DOMAIN e.proofs
        PROVE  Sensible(rs, Value, AtomsOf(FactsUnder(e, {h})))
    <2>1. AtomsOf(FactsUnder(e, {h})) \subseteq AtomsOf(store)
      BY FactsBelow, AtomsMore
    <2>2. IsFiniteSet(AtomsOf(FactsUnder(e, {h})))
      BY <2>1, FS_Subset DEF Sensible
    <2>. QED
      BY <2>2 DEF Sensible
  <1>3. 0 \in G
    OBVIOUS
  <1>4. ASSUME NEW m \in 0 .. n - 1, m \in G
        PROVE  m + 1 \in G
    <2>1. PICK h \in 1 .. n : h = m + 1
      OBVIOUS
    <2>2. PICK x, L, F : /\ x = e.proofs[h] /\ L = Derivable(h) /\ F = FactsUnder(e, {h})
      OBVIOUS
    <2>3. Follows(rs, M, e.proofs, x)
      BY <1>1, <2>2 DEF ProofsFollow
    <2>4. /\ AtomsOf(F) \subseteq L /\ Consequences(rs, Value, L, M) \subseteq L
      <3>1. Sensible(rs, Value, AtomsOf(F))
        BY <1>1, <1>2, <2>2
      <3>. QED
        BY <2>2, <3>1, LeastIs
    <2>5. ASSUME NEW f \in x.facts, x.of \in AtomsOf({f})
          PROVE  x.of \in L
      <3>1. {f} \subseteq F
        BY <1>1, <2>2, FactsBelow
      <3>. QED
        BY <2>4, <2>5, <3>1, AtomsMore
    <2>6. ASSUME NEW k \in Range(x.parents)
          PROVE  e.proofs[k].of \in L
      <3>1. k \in 1 .. h - 1 /\ k \in DOMAIN e.proofs /\ FactsUnder(e, {k}) \subseteq F
        BY <1>1, <2>2, FactsBelow
      <3>2. k \in 1 .. m
        BY <2>1, <3>1
      <3>3. e.proofs[k].of \in Derivable(k)
        BY <1>4, <3>2
      <3>4. Derivable(k) \subseteq L
        <4>1. AtomsOf(FactsUnder(e, {k})) \subseteq AtomsOf(F)
          BY <3>1, AtomsMore
        <4>2. Sensible(rs, Value, AtomsOf(FactsUnder(e, {k}))) /\ Sensible(rs, Value, AtomsOf(F))
          BY <1>1, <1>2, <2>2, <3>1
        <4>. QED
          BY <2>2, <4>1, <4>2, LeastFromMore
      <3>. QED
        BY <3>3, <3>4
    <2>7. ASSUME NEW c \in rs, Yields(c, Value, ProvedOf(e.proofs, Range(x.parents)), M, x.of)
          PROVE  x.of \in L
      <3>1. ProvedOf(e.proofs, Range(x.parents)) \subseteq L
        BY <2>6 DEF ProvedOf
      <3>2. Yields(c, Value, L, M, x.of)
        BY <2>7, <3>1, YieldsMore
      <3>. QED
        BY <2>4, <3>2, ConsequencesAre
    <2>8. e.proofs[h].of \in Derivable(h)
      BY <2>2, <2>3, <2>5, <2>7 DEF Follows
    <2>9. \A j \in 1 .. m + 1 : j \in 1 .. m \/ j = h
      BY <2>1
    <2>10. m + 1 \in 0 .. n
      OBVIOUS
    <2> HIDE DEF Derivable
    <2>. QED
      BY <1>4, <2>8, <2>9, <2>10
  <1>5. n \in G
    <2> HIDE DEF G
    <2>. QED
      BY <1>3, <1>4, Counting
  <1>. QED
    BY <1>1, <1>5

------------------------------------------------------------------------------
(* What a round proves follows from the proofs of the answers *)

\* The proofs of an answer are of the answer.
Proven(proofs, p, a) == \A h \in Range(a.proofs) : h \in DOMAIN proofs /\ proofs[h].of = <<p, a.args>>

\* Every answer has proofs, of it.
AllProven(e) ==
    \A p \in e.names : \A k \in DOMAIN e.table[p].answers :
        LET a == e.table[p].answers[k] IN
        /\ a.proofs \in Seq(DOMAIN e.proofs) /\ a.proofs # <<>>
        /\ Proven(e.proofs, p, a)

\* A binding comes with proofs of what the first n goals call.
Supported(e, c, n, b) ==
    /\ b.from \in Seq(DOMAIN e.proofs)
    /\ \A j \in 1 .. n : c.body[j].kind = "call" =>
           <<c.body[j].of, Instance(c.body[j].args, b.env)>> \in ProvedOf(e.proofs, Range(b.from))

\* A call adds the proofs of the answer it matches.
FromAnswer(b, g, a, d) ==
    /\ d.from = b.from \o a.proofs
    /\ Instance(g.args, d.env) = a.args

LEMMA CallFrom ==
    ASSUME NEW e, NEW c, Ready(e, c), NEW i \in DOMAIN c.body, NEW pivot, NEW b,
           c.body[i].kind = "call", NEW n \in DOMAIN Step(e, c, i, pivot, b)
    PROVE  \E k \in DOMAIN e.table[c.body[i].of].answers :
               FromAnswer(b, c.body[i], e.table[c.body[i].of].answers[k], Step(e, c, i, pivot, b)[n])
  <1>1. PICK g : g = c.body[i] /\ g \in GoalsOf(c) /\ g.kind = "call"
    BY DEF GoalsOf
  <1>2. SoundGoal(g) /\ g.of \in Targets(c) /\ g.of \in e.names
    BY <1>1, GoalsSound
  <1>3. PICK table : table = e.table[g.of] /\ IsASequence(table.answers)
    BY <1>2 DEF Ready, HasTables
  <1>4. PICK m \in Nat : m = Len(table.answers) /\ DOMAIN table.answers = 1 .. m
    BY <1>3, SequenceOfElements
  <1>5. \A k \in 1 .. m : table.answers[k].args \in [DOMAIN g.args -> Value]
    <2>1. \A k \in 1 .. m : table.answers[k].args \in ToldOf(table)
      BY <1>4 DEF ToldOf
    <2>. QED
      BY <1>1, <1>2, <1>3, <2>1 DEF SoundGoal, Ready, Filled
  <1>6. PICK K \in SUBSET (1 .. m) :
            K = {k \in DOMAIN table.answers : /\ i = pivot => k \in table.delta
                                              /\ Matches(b.env, g.args, table.answers[k].args)}
    BY <1>4
  <1>7. PICK ks \in Seq(K) : ks = Ascending(K, m)
    BY AscendingLists
  <1>8. PICK r : r = [j \in DOMAIN ks |->
                        [env |-> Extended(b.env, g.args, table.answers[ks[j]].args),
                         from |-> ProofsOfBoth(b, table.answers[ks[j]])]]
    OBVIOUS
  <1>9. Step(e, c, i, pivot, b) = r
    <2>1. ks = Ascending({k \in DOMAIN table.answers :
                             /\ i = pivot => k \in table.delta
                             /\ Matches(b.env, g.args, table.answers[k].args)}, Len(table.answers))
      BY <1>4, <1>6, <1>7
    <2>. QED
      BY <1>1, <1>3, <1>8, <2>1, ZenonT(40) DEF Step, Positions
  <1>10. n \in DOMAIN ks
    BY <1>8, <1>9
  <1>11. PICK k \in K : k = ks[n]
    <2>1. n \in 1 .. Len(ks)
      BY <1>10
    <2>. QED
      BY <2>1, ElementOfSeq
  <1>12. PICK a, full : a = table.answers[k] /\ full = Extended(b.env, g.args, a.args)
    OBVIOUS
  <1>13. r[n] = [env |-> full, from |-> ProofsOfBoth(b, a)]
    BY <1>8, <1>10, <1>11, <1>12, Zenon
  <1>14. Instance(g.args, full) = a.args
    <2>1. \A j \in DOMAIN g.args : Valued(g.args[j], full) = a.args[j]
      BY <1>6, <1>12 DEF Matches
    <2>2. a.args \in [DOMAIN g.args -> Value]
      BY <1>5, <1>12
    <2>. QED
      BY <2>1, <2>2 DEF Instance
  <1>15. FromAnswer(b, g, a, r[n])
    <2>1. r[n].env = full /\ r[n].from = ProofsOfBoth(b, a)
      BY <1>13
    <2>. QED
      BY <1>14, <2>1, Zenon DEF FromAnswer, ProofsOfBoth
  <1>. QED
    BY <1>1, <1>3, <1>4, <1>9, <1>12, <1>15

\* Other goals add none.
LEMMA TestFrom ==
    ASSUME NEW e, NEW c, Ready(e, c), NEW i \in DOMAIN c.body, NEW pivot, NEW b, IsBinding(b),
           c.body[i].kind # "call", NEW n \in DOMAIN Step(e, c, i, pivot, b)
    PROVE  Step(e, c, i, pivot, b)[n].from = b.from
  <1>1. PICK g : g = c.body[i] /\ g \in GoalsOf(c) /\ g.kind # "call"
    BY DEF GoalsOf
  <1>2. PICK s : s = Step(e, c, i, pivot, b)
    OBVIOUS
  <1>3. g.kind \in {"not", "where", "assign"}
    BY <1>1, GoalsSound DEF SoundGoal
  <1>4. CASE g.kind = "not"
    <2>1. s = <<>> \/ s = <<b>>
      BY <1>1, <1>2, <1>4, Zenon DEF Step
    <2>. QED
      BY <1>2, <2>1
  <1>5. CASE g.kind = "where"
    <2>1. s = <<>> \/ s = <<b>>
      BY <1>1, <1>2, <1>5, Zenon DEF Step
    <2>. QED
      BY <1>2, <2>1
  <1>6. CASE g.kind = "assign"
    <2>1. \E x : s = <<>> \/ s = <<[b EXCEPT !.env = x]>>
      BY <1>1, <1>2, <1>6, Zenon DEF Step
    <2>2. PICK x : s = <<>> \/ s = <<[b EXCEPT !.env = x]>>
      BY <2>1, Zenon
    <2>3. [b EXCEPT !.env = x].from = b.from
      <3>1. PICK en, fr : b = [env |-> en, from |-> fr]
        BY DEF IsBinding
      <3>. QED
        BY <3>1
    <2>4. CASE s = <<[b EXCEPT !.env = x]>>
      <3>1. PICK z : z = [b EXCEPT !.env = x] /\ z.from = b.from
        BY <2>3
      <3>2. s = <<z>>
        BY <2>4, <3>1
      <3>3. n \in DOMAIN s /\ s[n] = z
        BY <1>2, <3>2
      <3>. QED
        BY <1>2, <3>1, <3>3
    <2>5. CASE s = <<>>
      BY <1>2, <2>5
    <2>. QED
      BY <2>2, <2>4, <2>5
  <1>. QED
    BY <1>3, <1>4, <1>5, <1>6

\* A goal leaves the binding supported.
LEMMA StepSupports ==
    ASSUME NEW e, NEW c, Ready(e, c), AllProven(e), NEW i \in DOMAIN c.body, NEW pivot,
           NEW b, IsBinding(b), b.env \in [VarsUpTo(c, i - 1) -> Value], Supported(e, c, i - 1, b),
           NEW n \in DOMAIN Step(e, c, i, pivot, b)
    PROVE  LET d == Step(e, c, i, pivot, b)[n] IN
           IsBinding(d) /\ d.env \in [VarsUpTo(c, i) -> Value] /\ Supported(e, c, i, d)
  <1>1. PICK d : d = Step(e, c, i, pivot, b)[n]
    OBVIOUS
  <1>2. IsBinding(d) /\ Continues(e, c, i, pivot, b, d.env)
    BY <1>1, StepEnvs DEF StepDecides, Envs
  <1>3. /\ d.env \in [VarsUpTo(c, i) -> Value]
        /\ \A x \in VarsUpTo(c, i - 1) : d.env[x] = b.env[x]
    BY <1>2 DEF Continues
  <1>4. PICK k \in Nat : DOMAIN c.body = 1 .. k
    BY SequenceOfElements DEF Ready, Taken
  <1>5. i \in Nat /\ i - 1 \in Nat /\ \A j \in 1 .. i - 1 : j \in DOMAIN c.body
    BY <1>4
  <1>6. ASSUME NEW j \in 1 .. i - 1
        PROVE  Instance(c.body[j].args, d.env) = Instance(c.body[j].args, b.env)
    <2>1. c.body[j] \in GoalsOf(c)
      BY <1>5 DEF GoalsOf
    <2>2. AreTerms(c.body[j].args, Value)
      BY <2>1, GoalsSound DEF SoundGoal
    <2>3. \A x \in Unbound(c.body[j].args, <<>>) : d.env[x] = b.env[x]
      BY <1>3, <1>5, VarsWithin
    <2>. QED
      BY <2>2, <2>3, InstanceAgrees
  <1>7. \A j \in 1 .. i : j \in 1 .. i - 1 \/ j = i
    BY <1>5
  <1>8. ASSUME d.from \in Seq(DOMAIN e.proofs), Range(b.from) \subseteq Range(d.from),
               c.body[i].kind = "call" => <<c.body[i].of, Instance(c.body[i].args, d.env)>>
                                              \in ProvedOf(e.proofs, Range(d.from))
        PROVE  Supported(e, c, i, d)
    <2>1. ProvedOf(e.proofs, Range(b.from)) \subseteq ProvedOf(e.proofs, Range(d.from))
      BY <1>8 DEF ProvedOf
    <2>2. ASSUME NEW j \in 1 .. i - 1, c.body[j].kind = "call"
          PROVE  <<c.body[j].of, Instance(c.body[j].args, d.env)>>
                     \in ProvedOf(e.proofs, Range(d.from))
      <3>1. <<c.body[j].of, Instance(c.body[j].args, b.env)>> \in ProvedOf(e.proofs, Range(b.from))
        BY <2>2 DEF Supported
      <3>. QED
        BY <1>6, <2>1, <3>1
    <2>. QED
      BY <1>7, <1>8, <2>2, Zenon DEF Supported
  <1>9. CASE c.body[i].kind = "call"
    <2>1. PICK g : g = c.body[i] /\ g \in GoalsOf(c) /\ g.of \in e.names
      BY <1>9, GoalsSound DEF GoalsOf
    <2>2. PICK q \in DOMAIN e.table[g.of].answers : FromAnswer(b, g, e.table[g.of].answers[q], d)
      BY <1>1, <1>9, <2>1, CallFrom
    <2>3. PICK a : /\ a = e.table[g.of].answers[q] /\ FromAnswer(b, g, a, d)
                   /\ a.proofs \in Seq(DOMAIN e.proofs) /\ a.proofs # <<>>
                   /\ Proven(e.proofs, g.of, a)
      BY <2>1, <2>2 DEF AllProven
    <2>4. b.from \in Seq(DOMAIN e.proofs)
      BY DEF Supported
    <2>5. /\ d.from \in Seq(DOMAIN e.proofs)
          /\ Range(b.from) \subseteq Range(d.from) /\ Range(a.proofs) \subseteq Range(d.from)
      <3>1. d.from = b.from \o a.proofs
        BY <2>3 DEF FromAnswer
      <3>2. PICK S : S = DOMAIN e.proofs
        OBVIOUS
      <3>3. b.from \in Seq(S) /\ a.proofs \in Seq(S)
        BY <2>3, <2>4, <3>2
      <3>4. PICK x \in Seq(S), y \in Seq(S) : x = b.from /\ y = a.proofs
        BY <3>3
      <3>5. x \o y \in Seq(S) /\ Range(x) \subseteq Range(x \o y) /\ Range(y) \subseteq Range(x \o y)
        BY RangeConcat
      <3>6. d.from = x \o y
        BY <3>1, <3>4
      <3>. QED
        BY <3>2, <3>4, <3>5, <3>6
    <2>6. PICK h : h \in Range(a.proofs)
      <3>1. 1 \in DOMAIN a.proofs
        BY <2>3
      <3>. QED
        BY <3>1 DEF Range
    <2>7. e.proofs[h].of = <<g.of, Instance(g.args, d.env)>>
      BY <2>3, <2>6 DEF Proven, FromAnswer
    <2>8. <<g.of, Instance(g.args, d.env)>> \in ProvedOf(e.proofs, Range(d.from))
      BY <2>5, <2>6, <2>7 DEF ProvedOf
    <2>9. Supported(e, c, i, d)
      BY <1>8, <2>1, <2>5, <2>8
    <2>. QED
      BY <1>1, <1>2, <1>3, <2>9
  <1>10. CASE c.body[i].kind # "call"
    <2>1. d.from = b.from
      BY <1>1, <1>10, TestFrom
    <2>2. Supported(e, c, i, d)
      BY <1>8, <1>10, <2>1 DEF Supported
    <2>. QED
      BY <1>1, <1>2, <1>3, <2>2
  <1>. QED
    BY <1>9, <1>10

\* The bindings of a rule are supported.
LEMMA BindingsSupported ==
    ASSUME NEW e, NEW c, Ready(e, c), AllProven(e), NEW pivot
    PROVE  \A b \in Range(Bindings(e, c, pivot)) : Supported(e, c, Len(c.body), b)
  <1>1. PICK k \in Nat : k = Len(c.body) /\ DOMAIN c.body = 1 .. k
    BY SequenceOfElements DEF Ready, Taken
  <1>2. PICK u : BindingsAfter(e, c, pivot, k, u) /\ Bindings(e, c, pivot) = u[k]
    BY <1>1, BindingsFollow DEF Ready
  <1> DEFINE Sound(n, b) == /\ IsBinding(b) /\ b.env \in [VarsUpTo(c, n) -> Value]
                            /\ Supported(e, c, n, b)
             G == {n \in 0 .. k : \A b \in Range(u[n]) : Sound(n, b)}
  <1>3. 0 \in G
    <2>1. PICK b : b = [env |-> <<>>, from |-> <<>>] /\ u[0] = <<b>>
      BY <1>2 DEF BindingsAfter, StartOfBindings
    <2>2. VarsUpTo(c, 0) = {} /\ 1 .. 0 = {}
      BY DEF VarsUpTo
    <2>3. <<>> \in [{} -> Value]
      <3>1. <<>> \in Seq(Value) /\ Len(<<>>) = 0
        OBVIOUS
      <3>2. <<>> \in [1 .. 0 -> Value] /\ 1 .. 0 = {}
        BY <3>1
      <3>. QED
        BY <3>2
    <2>4. IsBinding(b) /\ b.env = <<>> /\ b.from = <<>>
      BY <2>1 DEF IsBinding
    <2>5. Supported(e, c, 0, b)
      <3>1. <<>> \in Seq(DOMAIN e.proofs)
        OBVIOUS
      <3>. QED
        BY <2>2, <2>4, <3>1 DEF Supported
    <2>6. Sound(0, b)
      BY <2>2, <2>3, <2>4, <2>5
    <2>7. Range(u[0]) = {b}
      BY <2>1 DEF Range
    <2> HIDE DEF Sound
    <2>. QED
      BY <2>6, <2>7
  <1>4. ASSUME NEW n \in 0 .. k - 1, n \in G
        PROVE  n + 1 \in G
    <2>1. n \in Nat /\ n + 1 \in 1 .. k /\ n + 1 \in DOMAIN c.body /\ (n + 1) - 1 = n
          /\ n + 1 \in 0 .. k
      BY <1>1
    <2>2. PICK s, t : s = u[n] /\ t = u[n + 1]
      OBVIOUS
    <2>3. /\ IsASequence(s)
          /\ t = FlattenSeq([j \in DOMAIN s |-> Step(e, c, n + 1, pivot, s[j])])
      BY <1>2, <2>1, <2>2 DEF BindingsAfter
    <2>4. PICK m \in Nat : DOMAIN s = 1 .. m
      BY <2>3, SequenceOfElements
    <2>5. \A j \in 1 .. m : Sound(n, s[j])
      BY <1>4, <2>2, <2>4 DEF Range
    <2>6. PICK ss : ss = [j \in 1 .. m |-> Step(e, c, n + 1, pivot, s[j])]
      OBVIOUS
    <2>7. ASSUME NEW j \in 1 .. m
          PROVE  IsASequence(ss[j]) /\ \A b \in Range(ss[j]) : Sound(n + 1, b)
      <3>1. ss[j] = Step(e, c, n + 1, pivot, s[j])
        BY <2>6
      <3>2. IsASequence(ss[j])
        BY <2>1, <3>1, StepSequence DEF Ready
      <3>3. \A i \in DOMAIN ss[j] : Sound(n + 1, ss[j][i])
        BY <2>1, <2>5, <3>1, StepSupports
      <3>. QED
        BY <3>2, <3>3 DEF Range
    <2>8. \A x \in Range(t) : \E j \in 1 .. m : x \in Range(ss[j])
      <3>1. ss = [j \in 1 .. m |-> ss[j]]
        BY <2>6
      <3>2. t = FlattenSeq(ss)
        BY <2>3, <2>4, <2>6
      <3>. QED
        BY <2>7, <3>1, <3>2, Joined
    <2> HIDE DEF Sound
    <2>. QED
      BY <2>1, <2>2, <2>7, <2>8
  <1>5. k \in G
    <2> HIDE DEF G
    <2>. QED
      BY <1>3, <1>4, Counting
  <1>. QED
    BY <1>1, <1>2, <1>5

\* What a rule proves it proves from a binding.
FromBinding(e, c, x) ==
    \E pivot : \E b \in Range(Bindings(e, c, pivot)) :
        x = RuleProof(c, Instance(c.args, b.env), b.from)

LEMMA RuleProofsFrom ==
    ASSUME NEW e, NEW c, Ready(e, c)
    PROVE  IsASequence(Proofs(e, c)) /\ \A x \in Range(Proofs(e, c)) : FromBinding(e, c, x)
  <1> DEFINE Proved(pivot) == LET found == Bindings(e, c, pivot)
                              IN [k \in DOMAIN found |->
                                    RuleProof(c, Instance(c.args, found[k].env), found[k].from)]
  <1>1. ASSUME NEW pivot
        PROVE  IsASequence(Proved(pivot)) /\ \A x \in Range(Proved(pivot)) : FromBinding(e, c, x)
    <2>1. PICK found : found = Bindings(e, c, pivot) /\ IsASequence(found)
      BY BindingsSequence DEF Ready
    <2>2. PICK m \in Nat : DOMAIN found = 1 .. m
      BY <2>1, SequenceOfElements
    <2>3. PICK r : r = [k \in 1 .. m |->
                          RuleProof(c, Instance(c.args, found[k].env), found[k].from)]
      OBVIOUS
    <2>4. IsASequence(r)
      BY <2>3, FunctionIsASequence
    <2>5. Proved(pivot) = r
      BY <2>1, <2>2, <2>3, Zenon
    <2>6. ASSUME NEW x \in Range(r)
          PROVE  FromBinding(e, c, x)
      <3>1. PICK k \in 1 .. m : x = r[k]
        BY <2>3 DEF Range
      <3>2. PICK b : b = found[k] /\ b \in Range(found)
        BY <2>2 DEF Range
      <3>3. x = RuleProof(c, Instance(c.args, b.env), b.from)
        BY <2>3, <3>1, <3>2
      <3>. QED
        BY <2>1, <3>2, <3>3 DEF FromBinding
    <2>. QED
      BY <2>4, <2>5, <2>6
  <1>2. PICK ps : ps = Pivots(e, c) /\ IsASequence(ps)
    BY PivotsAre DEF Ready
  <1>3. PICK n \in Nat : DOMAIN ps = 1 .. n
    BY <1>2, SequenceOfElements
  <1> HIDE DEF Proved
  <1>4. PICK ss : ss = [j \in 1 .. n |-> Proved(ps[j])]
    OBVIOUS
  <1>5. Proofs(e, c) = FlattenSeq(ss)
    BY <1>2, <1>3, <1>4, Zenon DEF Proofs, Proved
  <1>6. /\ \A j \in 1 .. n : IsASequence(ss[j]) /\ \A x \in Range(ss[j]) : FromBinding(e, c, x)
        /\ ss = [j \in 1 .. n |-> ss[j]]
    BY <1>1, <1>4
  <1>7. /\ IsASequence(FlattenSeq(ss))
        /\ \A x \in Range(FlattenSeq(ss)) : \E j \in 1 .. n : x \in Range(ss[j])
    BY <1>6, Joined
  <1>. QED
    BY <1>5, <1>6, <1>7

\* What a round proves, a rule of the stratum proves.
LEMMA RoundProofsFrom ==
    ASSUME NEW e, Evaluable(e), NEW x \in Range(RoundProofs(e))
    PROVE  \E c \in Range(e.rules) : e.stratum[c.head] = e.current /\ FromBinding(e, c, x)
  <1>1. PICK rs : rs = StratumRules(e) /\ IsASequence(rs)
    BY StratumRulesAre DEF Evaluable
  <1>2. PICK n \in Nat : DOMAIN rs = 1 .. n
    BY <1>1, SequenceOfElements
  <1>3. \A i \in 1 .. n : rs[i] \in Range(e.rules) /\ e.stratum[rs[i].head] = e.current
    <2>1. \A i \in 1 .. n : rs[i] \in Range(rs)
      BY <1>2 DEF Range
    <2>. QED
      BY <1>1, <2>1, StratumRulesAre DEF Evaluable
  <1>4. PICK ss : ss = [i \in 1 .. n |-> Proofs(e, rs[i])]
    OBVIOUS
  <1>5. RoundProofs(e) = FlattenSeq(ss)
    BY <1>1, <1>2, <1>4, Zenon DEF RoundProofs
  <1>6. ASSUME NEW i \in 1 .. n
        PROVE  IsASequence(ss[i]) /\ \A y \in Range(ss[i]) : FromBinding(e, rs[i], y)
    <2>1. PICK c \in Range(e.rules) : c = rs[i]
      BY <1>3
    <2>2. Ready(e, c)
      BY DEF Evaluable
    <2>3. ss[i] = Proofs(e, c)
      BY <1>4, <2>1
    <2>. QED
      BY <2>1, <2>2, <2>3, RuleProofsFrom
  <1>7. ss = [i \in 1 .. n |-> ss[i]]
    BY <1>4
  <1>8. PICK i \in 1 .. n : x \in Range(ss[i])
    BY <1>5, <1>6, <1>7, Joined
  <1>. QED
    BY <1>3, <1>6, <1>8

\* What a rule of the stratum proves it yields from what its parents prove:
\* what it denies is not told, and so not meant, as it is of a stratum below.
LEMMA RoundFollows ==
    ASSUME NEW cs, NEW S, NEW M, M = WellFoundedModel(cs, Value, S),
           NEW e, Evaluable(e), Concerns(cs, e), Rising(cs, S, e), AllProven(e),
           NEW x \in Range(RoundProofs(e))
    PROVE  Range(x.parents) \subseteq DOMAIN e.proofs /\ Follows(Range(e.rules), M, e.proofs, x)
  <1>1. PICK c \in Range(e.rules) : e.stratum[c.head] = e.current /\ FromBinding(e, c, x)
    BY RoundProofsFrom
  <1>2. Ready(e, c) /\ c \in cs /\ c.head \in e.names
    BY DEF Evaluable, Concerns
  <1>3. PICK pivot, b : /\ b \in Range(Bindings(e, c, pivot))
                        /\ x = RuleProof(c, Instance(c.args, b.env), b.from)
    BY <1>1 DEF FromBinding
  <1>4. Supported(e, c, Len(c.body), b)
    BY <1>2, <1>3, BindingsSupported
  <1>5. Fulfils(e, c, pivot, Len(c.body), b.env)
    BY <1>2, <1>3, BindingsEnvs DEF Envs, Range
  <1>6. PICK env : env = b.env
    OBVIOUS
  <1>7. /\ x.parents = b.from /\ x.facts = {} /\ x.of = <<c.head, Instance(c.args, env)>>
    BY <1>3, <1>6 DEF RuleProof
  <1>8. PICK n \in Nat : n = Len(c.body) /\ DOMAIN c.body = 1 .. n
    BY <1>2, SequenceOfElements DEF Ready, Taken
  <1>9. env \in [VarsOf(c) -> Value]
    BY <1>2, <1>5, <1>6, SafeVars DEF Fulfils, Ready
  <1>10. PICK T : T = ProvedOf(e.proofs, Range(b.from))
    OBVIOUS
  <1>11. /\ Layered(cs, e.names, e.stratum)
         /\ MeantUpTo(e.names, e.stratum, e.current, Told(e), M)
    BY DEF Rising
  <1>12. ASSUME NEW g \in GoalsOf(c)
         PROVE  Holds(g, env, T, M)
    <2>1. PICK i \in 1 .. n : g = c.body[i]
      BY <1>8 DEF GoalsOf
    <2>2. PICK R : R = (IF i = pivot THEN Fresh(e) ELSE Told(e))
      OBVIOUS
    <2>3. Holds(g, env, R, Told(e))
      BY <1>5, <1>6, <1>8, <2>1, <2>2, Zenon DEF Fulfils, Passes
    <2>4. CASE g.kind = "call"
      <3>1. <<g.of, Instance(g.args, env)>> \in T
        BY <1>4, <1>6, <1>8, <1>10, <2>1, <2>4 DEF Supported
      <3>. QED
        BY <2>4, <3>1, Zenon DEF Holds
    <2>5. CASE g.kind = "not"
      <3>1. PICK v : v = Instance(g.args, env)
        OBVIOUS
      <3>2. PICK y : y = <<g.of, v>>
        OBVIOUS
      <3>3. y = <<g.of, v>> /\ y[1] = g.of
        BY <3>2
      <3>4. y \notin Told(e)
        BY <2>3, <2>5, <3>1, <3>3, Zenon DEF Holds
      <3>5. g.of \in e.names /\ e.stratum[g.of] < e.current
        BY <1>1, <1>2, <1>11, <2>5, GoalsBelow
      <3>6. y \notin M
        BY <1>11, <3>3, <3>4, <3>5 DEF MeantUpTo
      <3>. QED
        BY <2>5, <3>1, <3>3, <3>6, Zenon DEF Holds
    <2>6. CASE g.kind \in {"where", "assign"}
      BY <2>3, <2>6, Zenon DEF Holds
    <2>7. g.kind \in {"call", "not", "where", "assign"}
      BY <1>2, GoalsSound DEF SoundGoal
    <2>. QED
      BY <2>4, <2>5, <2>6, <2>7
  <1>13. Yields(c, Value, T, M, x.of)
    BY <1>7, <1>9, <1>12 DEF Yields
  <1>14. Range(b.from) \subseteq DOMAIN e.proofs
    <2>1. b.from \in Seq(DOMAIN e.proofs)
      BY <1>4 DEF Supported
    <2>2. \A i \in DOMAIN b.from : b.from[i] \in DOMAIN e.proofs
      BY <2>1
    <2>. QED
      BY <2>2 DEF Range
  <1>. QED
    BY <1>7, <1>10, <1>13, <1>14 DEF Follows

\* The numbers of the proofs of an atom are those of proofs of it.
LEMMA HandlesAre ==
    ASSUME NEW e, NEW proved, IsASequence(proved), NEW before \in Nat, before = Len(e.proofs),
           NEW atom, NEW h \in Range(HandlesOf(e, proved, atom))
    PROVE  h - before \in DOMAIN proved /\ h \in Nat /\ h \notin 1 .. before
           /\ proved[h - before].of = atom
  <1>1. PICK n \in Nat : n = Len(proved) /\ DOMAIN proved = 1 .. n
    BY SequenceOfElements
  <1>2. PICK K \in SUBSET (1 .. n) : K = {k \in DOMAIN proved : proved[k].of = atom}
    BY <1>1
  <1>3. PICK ks \in Seq(K) : ks = Ascending(K, n)
    BY AscendingLists
  <1>4. PICK hs : hs = [i \in DOMAIN ks |-> before + ks[i]]
    OBVIOUS
  <1>5. HandlesOf(e, proved, atom) = hs
    BY <1>1, <1>2, <1>3, <1>4, Zenon DEF HandlesOf, Positions
  <1>6. PICK i \in DOMAIN ks : h = before + ks[i]
    BY <1>4, <1>5 DEF Range
  <1>7. PICK k \in K : k = ks[i]
    <2>1. i \in 1 .. Len(ks)
      OBVIOUS
    <2>. QED
      BY <2>1, ElementOfSeq
  <1>8. k \in 1 .. n /\ proved[k].of = atom
    BY <1>2
  <1>9. h - before = k /\ h \in Nat /\ h \notin 1 .. before
    BY <1>6, <1>7, <1>8
  <1>. QED
    BY <1>1, <1>8, <1>9

\* Bounding leaves some of the numbers.
LEMMA BoundedWithin ==
    ASSUME NEW hs, IsASequence(hs), hs # <<>>
    PROVE  Range(Bounded(hs)) \subseteq Range(hs)
  <1>1. PICK R : R = Range(hs) /\ hs \in Seq(R)
    BY DEF IsASequence
  <1>2. PICK b \in Seq(R) : b = Bounded(hs)
    BY <1>1, BoundedKeepsFirst
  <1>3. \A i \in DOMAIN b : b[i] \in R
    OBVIOUS
  <1>. QED
    BY <1>1, <1>2, <1>3 DEF Range

------------------------------------------------------------------------------
(* Installing proofs keeps the proofs of answers *)

\* The answers with the proofs added are proved by them.
LEMMA WithProofsProven ==
    ASSUME NEW e, Tabled(e), AllProven(e), NEW p \in e.names, NEW proved, OfAtoms(proved),
           NEW proofs, proofs = e.proofs \o proved
    PROVE  \A k \in DOMAIN WithProofs(e, p, proved).answers :
               Proven(proofs, p, WithProofs(e, p, proved).answers[k])
  <1>1. PICK before \in Nat : before = Len(e.proofs) /\ DOMAIN e.proofs = 1 .. before
    BY SequenceOfElements DEF Tabled
  <1>2. PICK answers : answers = e.table[p].answers
    OBVIOUS
  <1>3. /\ answers = e.table[p].answers /\ before = Len(e.proofs)
        /\ DOMAIN e.proofs = 1 .. before
        /\ AnswersOver(answers, before)
    BY <1>1, <1>2 DEF Tabled
  <1>4. PICK n \in Nat : n = Len(proved) /\ DOMAIN proved = 1 .. n /\ IsASequence(proved)
    BY SequenceOfElements DEF OfAtoms
  <1>5. PICK old \in Nat : old = Len(answers) /\ DOMAIN answers = 1 .. old
    BY <1>3, SequenceOfElements DEF AnswersOver
  <1>6. PICK K \in SUBSET (1 .. n) :
            K = {k \in DOMAIN proved :
                    /\ proved[k].of[1] = p
                    /\ \A a \in Range(e.table[p].answers) : a.args # proved[k].of[2]
                    /\ \A i \in 1 .. k - 1 : proved[i].of # proved[k].of}
    BY <1>4
  <1>7. PICK new \in Seq(K) : new = Ascending(K, n)
    BY AscendingLists
  <1>8. new = FirstProofs(e, p, proved)
    BY <1>4, <1>6, <1>7, Zenon DEF FirstProofs, Positions
  <1>9. PICK A : A = [i \in 1 .. old |->
                [answers[i] EXCEPT !.proofs = Bounded(@ \o HandlesOf(e, proved, <<p, answers[i].args>>))]]
    OBVIOUS
  <1>10. PICK B : B = [i \in DOMAIN new |->
                [args |-> proved[new[i]].of[2],
                 proofs |-> Bounded(HandlesOf(e, proved, proved[new[i]].of))]]
    OBVIOUS
  <1>11. PICK D : WithProofs(e, p, proved) = [answers |-> A \o B, delta |-> D]
    BY <1>3, <1>5, <1>8, <1>9, <1>10, Zenon DEF WithProofs
  <1>12. /\ Len(proofs) = before + n /\ DOMAIN proofs = 1 .. before + n
         /\ \A h \in 1 .. before : proofs[h] = e.proofs[h]
         /\ \A h \in 1 .. before + n :
               h \notin 1 .. before => h - before \in 1 .. n /\ proofs[h] = proved[h - before]
    <2>1. /\ IsASequence(proofs) /\ Len(proofs) = before + n
          /\ \A h \in 1 .. before : proofs[h] = e.proofs[h]
          /\ \A h \in 1 .. before + n :
                h \notin 1 .. before => h - before \in 1 .. n /\ proofs[h] = proved[h - before]
      BY <1>3, <1>4, Concatenated DEF Tabled
    <2>. QED
      BY <2>1, SequenceOfElements
  <1>13. ASSUME NEW atom, NEW h \in Range(HandlesOf(e, proved, atom))
         PROVE  h \in DOMAIN proofs /\ proofs[h].of = atom
    <2>1. h - before \in 1 .. n /\ h \in Nat /\ h \notin 1 .. before /\ proved[h - before].of = atom
      BY <1>3, <1>4, <1>13, HandlesAre, SMTT(30)
    <2>2. h \in 1 .. before + n
      BY <2>1
    <2>. QED
      BY <1>12, <2>1, <2>2
  <1>14. \A atom : IsASequence(HandlesOf(e, proved, atom))
    <2>1. TAKE atom
    <2>2. HandlesOf(e, proved, atom) \in Seq(before + 1 .. before + n)
      BY <1>3, <1>4, HandlesFollow
    <2>. QED
      BY <2>2, AnySequence
  <1>15. ASSUME NEW i \in 1 .. old
         PROVE  Proven(proofs, p, A[i])
    <2>1. /\ answers[i] \in [args : {answers[i].args}, proofs : {answers[i].proofs}]
          /\ answers[i].proofs \in Seq(1 .. before) /\ answers[i].proofs # <<>>
      BY <1>3, <1>5 DEF AnswersOver
    <2>2. PICK v, q, h : /\ v = answers[i].args /\ q = answers[i].proofs
                         /\ h = HandlesOf(e, proved, <<p, answers[i].args>>)
      OBVIOUS
    <2>3. IsASequence(q) /\ IsASequence(h) /\ q # <<>>
      BY <1>14, <2>1, <2>2, AnySequence
    <2>4. PICK S : S = Range(q) \cup Range(h)
      OBVIOUS
    <2>5. q \in Seq(S) /\ h \in Seq(S)
      BY <2>3, <2>4, WiderSequence DEF IsASequence
    <2>6. q \o h \in Seq(S) /\ q \o h # <<>>
      BY <2>3, <2>5
    <2>7. PICK r \in Seq(S) : r = q \o h /\ r # <<>>
      BY <2>6
    <2>8. Range(r) \subseteq S
      <3>1. \A j \in DOMAIN r : r[j] \in S
        OBVIOUS
      <3>. QED
        BY <3>1 DEF Range
    <2>9. Range(Bounded(r)) \subseteq S
      BY <2>7, <2>8, AnySequence, BoundedWithin
    <2>10. A[i] = [answers[i] EXCEPT !.proofs = Bounded(r)]
      BY <1>9, <2>2, <2>7
    <2>11. A[i].args = v /\ A[i].proofs = Bounded(r)
      BY <2>1, <2>2, <2>10
    <2>12. ASSUME NEW k \in S
           PROVE  k \in DOMAIN proofs /\ proofs[k].of = <<p, v>>
      <3>1. CASE k \in Range(q)
        <4>1. k \in DOMAIN e.proofs /\ e.proofs[k].of = <<p, v>>
          BY <1>3, <1>5, <2>2, <3>1 DEF AllProven, Proven
        <4>. QED
          BY <1>3, <1>12, <4>1
      <3>2. CASE k \in Range(h)
        BY <1>13, <2>2, <3>2
      <3>. QED
        BY <2>4, <2>12, <3>1, <3>2
    <2>. QED
      BY <2>9, <2>11, <2>12 DEF Proven
  <1>16. PICK m \in Nat : m = Len(new) /\ DOMAIN new = 1 .. m
    OBVIOUS
  <1>17. ASSUME NEW i \in 1 .. m
         PROVE  Proven(proofs, p, B[i])
    <2>1. new[i] \in K
      BY <1>16, ElementOfSeq
    <2>2. PICK k \in DOMAIN proved : k = new[i] /\ proved[k].of[1] = p
      BY <1>6, <2>1
    <2>3. PICK atom : atom = proved[k].of /\ atom = <<p, atom[2]>>
      <3>1. proved[k] \in Range(proved)
        BY DEF Range
      <3>. QED
        BY <2>2, <3>1 DEF OfAtoms
    <2>4. PICK h : h = HandlesOf(e, proved, atom)
      OBVIOUS
    <2>5. IsASequence(h) /\ h # <<>>
      BY <1>3, <1>4, <1>14, <2>3, <2>4, HandlesFollow
    <2>6. B[i] = [args |-> atom[2], proofs |-> Bounded(h)]
      BY <1>10, <1>16, <2>2, <2>3, <2>4
    <2>7. B[i].args = atom[2] /\ B[i].proofs = Bounded(h)
      BY <2>6
    <2>8. Range(Bounded(h)) \subseteq Range(h)
      BY <2>5, BoundedWithin
    <2>. QED
      BY <1>13, <2>3, <2>4, <2>7, <2>8 DEF Proven
  <1>18. IsASequence(A) /\ Len(A) = old
    BY <1>9, FunctionIsASequence
  <1>19. IsASequence(B) /\ Len(B) = m
    BY <1>10, <1>16, FunctionIsASequence
  <1>20. PICK T : T = A \o B
    OBVIOUS
  <1>21. /\ IsASequence(T) /\ Len(T) = old + m
         /\ \A i \in 1 .. old : T[i] = A[i]
         /\ \A i \in 1 .. old + m : i \notin 1 .. old => i - old \in 1 .. m /\ T[i] = B[i - old]
    BY <1>18, <1>19, <1>20, Concatenated
  <1>22. ASSUME NEW i \in 1 .. old + m
         PROVE  Proven(proofs, p, T[i])
    <2>1. CASE i \in 1 .. old
      BY <1>15, <1>21, <2>1
    <2>2. CASE i \notin 1 .. old
      BY <1>17, <1>21, <2>2
    <2>. QED
      BY <2>1, <2>2
  <1>23. DOMAIN T = 1 .. old + m
    BY <1>21, SequenceOfElements
  <1>24. WithProofs(e, p, proved).answers = T
    BY <1>11, <1>20
  <1>. QED
    BY <1>22, <1>23, <1>24

\* The answers of an evaluation are proved, by proofs that follow.
Explaining(M, e) == AllProven(e) /\ ProofsFollow(Range(e.rules), M, e.proofs)

\* It stays so when what follows from the proofs there are is installed.
LEMMA InstallExplains ==
    ASSUME NEW M, NEW e, EvaluationShape(e), Tabled(e), Explaining(M, e),
           NEW proved, OfAtoms(proved),
           \A x \in Range(proved) : /\ Range(x.parents) \subseteq DOMAIN e.proofs
                                    /\ Follows(Range(e.rules), M, e.proofs, x)
    PROVE  Explaining(M, Install(e, proved))
  <1>1. PICK T : T = [p \in e.names |-> WithProofs(e, p, proved)]
    OBVIOUS
  <1>2. PICK P : P = e.proofs \o proved
    OBVIOUS
  <1>3. PICK f : f = Install(e, proved)
    OBVIOUS
  <1>4. f = [e EXCEPT !.table = T, !.proofs = P]
    BY <1>1, <1>2, <1>3, Zenon DEF Install
  <1>5. f.names = e.names /\ f.rules = e.rules /\ f.table = T /\ f.proofs = P
    BY <1>4 DEF EvaluationShape
  <1>6. IsASequence(proved)
    BY DEF OfAtoms
  <1>7. PICK n \in Nat, m \in Nat : /\ n = Len(e.proofs) /\ DOMAIN e.proofs = 1 .. n
                                    /\ m = Len(proved) /\ DOMAIN proved = 1 .. m
    BY <1>6, SequenceOfElements DEF Tabled
  <1>8. /\ IsASequence(P) /\ Len(P) = n + m
        /\ \A h \in 1 .. n : P[h] = e.proofs[h]
        /\ \A h \in 1 .. n + m : h \notin 1 .. n => h - n \in 1 .. m /\ P[h] = proved[h - n]
    BY <1>2, <1>6, <1>7, Concatenated DEF Tabled
  <1>9. DOMAIN P = 1 .. n + m
    BY <1>8, SequenceOfElements
  <1>10. AllProven(f)
    <2>1. Tabled(f)
      BY <1>3, <1>6, Installed
    <2>2. ASSUME NEW p \in f.names, NEW k \in DOMAIN f.table[p].answers
          PROVE  LET a == f.table[p].answers[k] IN
                 a.proofs \in Seq(DOMAIN f.proofs) /\ a.proofs # <<>> /\ Proven(f.proofs, p, a)
      <3>1. AnswersOver(f.table[p].answers, n + m)
        BY <1>5, <1>8, <2>1, <2>2 DEF Tabled
      <3>2. k \in 1 .. Len(f.table[p].answers)
        BY <2>2, <3>1, SequenceOfElements DEF AnswersOver
      <3>3. f.table[p] = WithProofs(e, p, proved)
        BY <1>1, <1>5, <2>2
      <3>4. Proven(P, p, f.table[p].answers[k])
        BY <1>2, <1>5, <2>2, <3>3, WithProofsProven DEF Explaining
      <3>. QED
        BY <1>5, <1>9, <3>1, <3>2, <3>4 DEF AnswersOver
    <2>. QED
      BY <2>2 DEF AllProven
  <1>11. PICK rs : rs = Range(e.rules)
    OBVIOUS
  <1>12. ASSUME NEW x, Range(x.parents) \subseteq DOMAIN e.proofs, Follows(rs, M, e.proofs, x)
         PROVE  Follows(rs, M, P, x)
    <2>1. ProvedOf(P, Range(x.parents)) = ProvedOf(e.proofs, Range(x.parents))
      BY <1>7, <1>8, <1>12 DEF ProvedOf
    <2>. QED
      BY <1>12, <2>1 DEF Follows
  <1>13. ASSUME NEW h \in 1 .. n + m
         PROVE  Range(P[h].parents) \subseteq 1 .. h - 1 /\ Follows(rs, M, P, P[h])
    <2>1. CASE h \in 1 .. n
      <3>1. /\ Range(e.proofs[h].parents) \subseteq 1 .. h - 1
            /\ Follows(rs, M, e.proofs, e.proofs[h])
        BY <1>7, <1>11, <2>1 DEF Explaining, ProofsFollow
      <3>2. 1 .. h - 1 \subseteq DOMAIN e.proofs
        BY <1>7, <2>1
      <3>. QED
        BY <1>8, <1>12, <2>1, <3>1, <3>2
    <2>2. CASE h \notin 1 .. n
      <3>1. PICK x : x = P[h] /\ x = proved[h - n] /\ h - n \in 1 .. m
        BY <1>8, <2>2
      <3>2. x \in Range(proved)
        BY <1>7, <3>1 DEF Range
      <3>3. Range(x.parents) \subseteq DOMAIN e.proofs /\ Follows(rs, M, e.proofs, x)
        BY <1>11, <3>2
      <3>4. DOMAIN e.proofs \subseteq 1 .. h - 1
        BY <1>7, <2>2
      <3>. QED
        BY <1>12, <3>1, <3>3, <3>4
    <2>. QED
      BY <2>1, <2>2
  <1>14. ProofsFollow(Range(f.rules), M, f.proofs)
    BY <1>5, <1>9, <1>11, <1>13 DEF ProofsFollow
  <1>. QED
    BY <1>3, <1>10, <1>14 DEF Explaining

------------------------------------------------------------------------------
(* Evaluations explain their answers *)

ExplainNow == Building => Explaining(Meaning, work.e)

\* Strata and rounds are no part of what explains.
LEMMA SameExplaining ==
    ASSUME NEW M, NEW e, Explaining(M, e), NEW f, f.names = e.names, f.rules = e.rules,
           f.proofs = e.proofs,
           \A p \in e.names : f.table[p].answers = e.table[p].answers
    PROVE  Explaining(M, f)
  BY DEF Explaining, AllProven

\* There are no answers to explain at the start.
LEMMA StartExplains ==
    ASSUME NEW M, StartBuild
    PROVE  Explaining(M, work'.e)
  <1>1. PICK e, N : e = Evaluation(work.of) /\ N = NamesOf(program, work.of)
    OBVIOUS
  <1>2. work' = [phase |-> "load", query |-> work.query, prove |-> work.prove,
                 side |-> work.side, of |-> work.of, found |-> work.found, facts |-> work.facts,
                 toLoad |-> N, e |-> e]
    BY <1>1, Zenon DEF StartBuild
  <1>3. work'.e = e
    BY <1>2
  <1>4. e.names = N /\ e.table = [q \in N |-> NoTable] /\ e.proofs = <<>>
    BY <1>1 DEF Evaluation
  <1>5. DOMAIN <<>> = {}
    OBVIOUS
  <1>6. \A q \in N : e.table[q].answers = <<>>
    BY <1>4 DEF NoTable
  <1>. QED
    BY <1>3, <1>4, <1>5, <1>6 DEF Explaining, AllProven, ProofsFollow

\* A stored fact proves itself, of its type and of those it extends.
LEMMA LoadExplains ==
    ASSUME IInv, NEW M, Building, Explaining(M, work.e), LoadFacts
    PROVE  Explaining(M, work'.e)
  <1>1. Evaluating(work) /\ Known(store, lineage)
    BY UnderWay
  <1>2. PICK p : work' = [work EXCEPT
                       !.toLoad = @ \ {p},
                       !.e = Install(@, [i \in DOMAIN StoredFacts(p) |-> FactProof(StoredFacts(p)[i], p)])]
    BY Zenon DEF LoadFacts
  <1>3. PICK proved : proved = [i \in DOMAIN StoredFacts(p) |-> FactProof(StoredFacts(p)[i], p)]
    OBVIOUS
  <1>4. OfAtoms(proved)
    BY <1>1, <1>3, FactsTell
  <1>5. PICK e, f : e = work.e /\ f = Install(e, proved)
    OBVIOUS
  <1>6. work' = [work EXCEPT !.toLoad = @ \ {p}, !.e = f]
    BY <1>2, <1>3, <1>5, Zenon
  <1>7. work'.e = f
    BY <1>1, <1>6 DEF Evaluating, BuildShape
  <1>8. EvaluationShape(e) /\ Tabled(e)
    BY <1>1, <1>5 DEF Evaluating
  <1>9. ASSUME NEW x \in Range(proved)
        PROVE  Range(x.parents) \subseteq DOMAIN e.proofs /\ Follows(Range(e.rules), M, e.proofs, x)
    <2>1. PICK i \in DOMAIN StoredFacts(p) : x = FactProof(StoredFacts(p)[i], p)
      BY <1>3 DEF Range
    <2>2. PICK fact : fact = StoredFacts(p)[i] /\ fact \in Range(StoredFacts(p))
      BY DEF Range
    <2>3. fact \in store /\ Compatible(lineage, fact[1], p)
      BY <1>1, <2>2, StoredFactsAre
    <2>4. /\ x.of = <<p, fact[2]>> /\ x.facts = {fact} /\ x.parents = <<>>
      BY <2>1, <2>2 DEF FactProof
    <2>5. p \in Predicate
      <3>1. fact[1] \in Predicate
        BY <1>1, <2>3 DEF Predicate, Known
      <3>. QED
        BY <1>1, <2>3, <3>1, CompatibleTypes
    <2>6. x.of \in AtomsOf({fact})
      BY <2>3, <2>4, <2>5 DEF AtomsOf
    <2>7. Range(<<>>) = {}
      BY DEF Range
    <2>. QED
      BY <2>3, <2>4, <2>6, <2>7 DEF Follows
  <1>. QED
    BY <1>4, <1>5, <1>7, <1>8, <1>9, InstallExplains

\* What lays the strata or skips one proves nothing.
LEMMA QuietExplains ==
    ASSUME IInv, NEW M, Building, Explaining(M, work.e), LayStrata \/ PassStrata \/ SkipStratum
    PROVE  Explaining(M, work'.e)
  <1>1. Evaluating(work) /\ EvaluationShape(work.e)
    BY UnderWay DEF Evaluating
  <1>2. PICK e : e = work.e
    OBVIOUS
  <1>3. CASE LayStrata
    <2>1. work' = [work EXCEPT !.phase = "strata"]
      BY <1>3 DEF LayStrata
    <2>2. work'.e = work.e
      BY <1>1, <2>1 DEF Evaluating, BuildShape
    <2>. QED
      BY <2>2
  <1>4. CASE PassStrata
    <2>1. PICK ph, f : /\ f = [e EXCEPT !.passes = @ + 1, !.stratum = Relaxed]
                       /\ work' = [work EXCEPT !.phase = ph, !.e = f]
      BY <1>2, <1>4, Zenon DEF PassStrata
    <2>2. work'.e = f
      BY <1>1, <2>1 DEF Evaluating, BuildShape
    <2>3. f.names = e.names /\ f.rules = e.rules /\ f.table = e.table /\ f.proofs = e.proofs
      BY <1>1, <1>2, <2>1 DEF EvaluationShape
    <2>. QED
      BY <1>2, <2>2, <2>3, SameExplaining
  <1>5. CASE SkipStratum
    <2>1. PICK f : f = [e EXCEPT !.current = @ + 1]
      OBVIOUS
    <2>2. work' = [work EXCEPT !.e = f]
      BY <1>2, <1>5, <2>1 DEF SkipStratum
    <2>3. work'.e = f
      BY <1>1, <2>2 DEF Evaluating, BuildShape
    <2>4. f.names = e.names /\ f.rules = e.rules /\ f.table = e.table /\ f.proofs = e.proofs
      BY <1>1, <1>2, <2>1 DEF EvaluationShape
    <2>. QED
      BY <1>2, <2>3, <2>4, SameExplaining
  <1>. QED
    BY <1>3, <1>4, <1>5

\* A round explains what it adds.
LEMMA RoundExplains ==
    ASSUME IInv, ExactNow, Building, Explaining(Meaning, work.e), Round
    PROVE  Explaining(Meaning, work'.e)
  <1>1. work.phase = "rounds"
    BY DEF Round, AtPhase
  <1>2. Evaluating(work) /\ Exactly(program, AtomsOf(store), work) /\ program \subseteq Clause
    BY UnderWay DEF ExactNow
  <1>3. PICK e, f, cs, S, M :
            /\ e = work.e /\ f = AfterRound(e, RoundProofs(e))
            /\ cs = Relational(program) /\ S = AtomsOf(store) /\ M = WellFoundedModel(cs, Value, S)
    OBVIOUS
  <1>4. work' = [work EXCEPT !.e = f]
    BY <1>3 DEF Round
  <1>5. work'.e = f
    BY <1>2, <1>4 DEF Evaluating, BuildShape
  <1>6. EvaluationShape(e) /\ Prepared(e) /\ Tabled(e)
    BY <1>2, <1>3 DEF Evaluating
  <1>7. Concerns(cs, e) /\ Filled(e) /\ Rising(cs, S, e)
    BY <1>1, <1>2, <1>3 DEF Exactly
  <1>8. Evaluable(e)
    BY <1>2, <1>3, <1>6, <1>7, RulesEvaluable
  <1>9. M = Meaning /\ Explaining(M, e) /\ AllProven(e)
    BY <1>3 DEF Meaning, Explaining
  <1>10. PICK proved : proved = RoundProofs(e) /\ OfAtoms(proved) /\ IsASequence(proved)
    BY <1>8, RoundOfAtoms DEF OfAtoms
  <1>11. PICK d : d = WithoutDelta(e)
    OBVIOUS
  <1>12. /\ EvaluationShape(d) /\ Tabled(d) /\ d.names = e.names /\ d.rules = e.rules
         /\ d.proofs = e.proofs /\ \A p \in e.names : d.table[p].answers = e.table[p].answers
    BY <1>6, <1>11, DeltaDropped DEF SameTask
  <1>13. Explaining(M, d)
    BY <1>9, <1>12, SameExplaining
  <1>14. ASSUME NEW x \in Range(proved)
         PROVE  Range(x.parents) \subseteq DOMAIN d.proofs /\ Follows(Range(d.rules), M, d.proofs, x)
    BY <1>3, <1>7, <1>8, <1>9, <1>10, <1>12, RoundFollows
  <1>15. PICK a : a = Install(d, proved)
    OBVIOUS
  <1>16. Explaining(M, a)
    BY <1>10, <1>12, <1>13, <1>14, <1>15, InstallExplains
  <1>17. EvaluationShape(a)
    BY <1>10, <1>12, <1>15, Installed DEF SameTask
  <1>18. PICK B : B = Progress(e, proved, a)
    OBVIOUS
  <1>19. f = [a EXCEPT !.rounds = @ + 1, !.first = ~B, !.current = IF B THEN @ ELSE @ + 1]
    BY <1>3, <1>10, <1>11, <1>15, <1>18, Zenon DEF AfterRound
  <1>20. f.names = a.names /\ f.rules = a.rules /\ f.table = a.table /\ f.proofs = a.proofs
    BY <1>17, <1>19 DEF EvaluationShape
  <1>21. Explaining(M, f)
    BY <1>16, <1>20, SameExplaining
  <1>. QED
    BY <1>5, <1>9, <1>21

\* An evaluation goes on explaining its answers.
LEMMA ExplainSteps ==
    ASSUME IInv, ExactNow, ExplainNow, [Next]_vars
    PROVE  ExplainNow'
  <1>1. ASSUME UNCHANGED <<program, store, lineage>>, Explaining(Meaning, work'.e)
        PROVE  ExplainNow'
    <2>1. PICK M, e : M = Meaning /\ e = work'.e
      OBVIOUS
    <2>2. Meaning' = M
      BY <1>1, <2>1, SameTruth
    <2>3. \A F : AtomsOf(F)' = AtomsOf(F)
      BY <1>1 DEF AtomsOf, Compatible
    <2>4. Explaining(M, e)'
      BY <1>1, <2>1, <2>3 DEF Explaining, AllProven, Proven, ProofsFollow, Follows, ProvedOf
    <2>. QED
      BY <2>1, <2>2, <2>4 DEF ExplainNow
  <1>2. CASE UNCHANGED vars
    <2>1. UNCHANGED <<program, store, lineage, work>>
      BY <1>2 DEF vars, state
    <2>2. CASE Building
      BY <1>1, <2>1, <2>2 DEF ExplainNow
    <2>3. CASE ~Building
      BY <2>1, <2>3 DEF ExplainNow, Building
    <2>. QED
      BY <2>2, <2>3
  <1>3. ASSUME \/ \E f \in NewFact : PublishFact(f) \/ DeleteFact(f)
               \/ \E c \in Clause : AddClause(c)
               \/ \E pair \in Subtype : ExtendType(pair)
               \/ \E pair \in Contrary : RegisterContrary(pair)
               \/ BeginBatch \/ EndBatch \/ BeginModule \/ CommitModule \/ RollbackModule
        PROVE  ExplainNow'
    <2>1. work' = Idle
      BY <1>3 DEF PublishFact, DeleteFact, AddClause, ExtendType, RegisterContrary, BeginBatch,
                  EndBatch, BeginModule, CommitModule, RollbackModule, Change
    <2>. QED
      BY <2>1 DEF ExplainNow, Building
  <1>4. ASSUME \/ \E query \in Query, prove \in BOOLEAN : Ask(query, prove)
               \/ Find \/ Refuse \/ Collect \/ Answer
        PROVE  ExplainNow'
    <2>1. (work = Idle \/ Asking(work))'
      BY <1>4, AskingSteps
    <2>. QED
      BY <2>1 DEF ExplainNow, Building, Asking
  <1>5. CASE StartBuild
    <2>1. UNCHANGED <<program, store, lineage>>
      BY <1>5 DEF StartBuild, state
    <2>. QED
      BY <1>1, <1>5, <2>1, StartExplains
  <1>6. CASE LoadFacts \/ LayStrata \/ PassStrata \/ Round \/ SkipStratum
    <2>1. UNCHANGED <<program, store, lineage>>
      BY <1>6 DEF LoadFacts, LayStrata, PassStrata, Round, SkipStratum, state
    <2>2. Building
      BY <1>6 DEF LoadFacts, LayStrata, PassStrata, Round, SkipStratum, AtPhase, Building
    <2>3. Explaining(Meaning, work.e)
      BY <2>2 DEF ExplainNow
    <2>4. Explaining(Meaning, work'.e)
      BY <1>6, <2>2, <2>3, LoadExplains, QuietExplains, RoundExplains
    <2>. QED
      BY <1>1, <2>1, <2>4
  <1>7. CASE KeepTables
    <2>1. Evaluating(work)
      BY <1>7 DEF IInv, WorkGood, KeepTables, AtPhase, Asking
    <2>2. work' = [x \in (DOMAIN work) \ {"e", "toLoad"} |->
                      IF x = "phase" THEN "collect" ELSE work[x]]
      BY <1>7 DEF KeepTables
    <2>3. "phase" \in (DOMAIN work) \ {"e", "toLoad"}
      BY <2>1 DEF Evaluating, BuildShape
    <2>4. work'.phase = "collect"
      BY <2>2, <2>3
    <2>. QED
      BY <2>4 DEF ExplainNow, Building
  <1>. QED
    BY <1>2, <1>3, <1>4, <1>5, <1>6, <1>7 DEF Next, Build

\* From the facts under each proof its answer follows.
LEMMA KeptExplained ==
    ASSUME IInv, ExactNow, ExplainNow, KeepTables
    PROVE  ProofsExplain(work.e, Meaning)
  <1>1. Building
    BY DEF KeepTables, AtPhase, Building
  <1>2. /\ Evaluating(work) /\ Exactly(program, AtomsOf(store), work)
        /\ Sensible(Relational(program), Value, AtomsOf(store)) /\ Explaining(Meaning, work.e)
    BY <1>1, UnderWay DEF ExactNow, ExplainNow
  <1>3. PICK e, M, rs : e = work.e /\ M = Meaning /\ rs = Range(e.rules)
    OBVIOUS
  <1>4. IsASequence(e.proofs) /\ AllProven(e) /\ ProofsFollow(rs, M, e.proofs)
    BY <1>2, <1>3 DEF Evaluating, Tabled, Explaining
  <1>5. Sensible(rs, Value, AtomsOf(store))
    <2>1. rs \subseteq Relational(program)
      BY <1>2, <1>3 DEF Exactly, Concerns
    <2>2. IsFiniteSet(rs)
      BY <1>2, <2>1, FS_Subset DEF Sensible
    <2>. QED
      BY <1>2, <2>1, <2>2 DEF Sensible
  <1>6. \A h \in DOMAIN e.proofs :
            e.proofs[h].of \in Least(rs, Value, AtomsOf(FactsUnder(e, {h})), M)
    BY <1>4, <1>5, FollowsFromFacts
  <1>7. ASSUME NEW p \in e.names, NEW a \in Range(e.table[p].answers), NEW h \in Range(a.proofs)
        PROVE  <<p, a.args>> \in Least(rs, Value, AtomsOf(FactsUnder(e, {h})), M)
    <2>1. Proven(e.proofs, p, a)
      BY <1>4 DEF AllProven, Range
    <2>2. h \in DOMAIN e.proofs /\ e.proofs[h].of = <<p, a.args>>
      BY <2>1 DEF Proven
    <2>. QED
      BY <1>6, <2>2
  <1>. QED
    BY <1>3, <1>7 DEF ProofsExplain

\* Every proof that an evaluation keeps explains its answer: by the rules it
\* follows from the stored facts under the proof alone, with no negated goal
\* that is true, although buildTableEvaluation adds proofs to an answer after
\* other answers have been proved from it, and keeps the first few of each.
THEOREM ExplainedHolds == Spec => Explained
  <1>1. Init => ExactNow /\ ExplainNow
    BY DEF Init, ExactNow, ExplainNow, Building
  <1>2. IInv /\ ExactNow /\ ExplainNow /\ [Next]_vars => ExactNow' /\ ExplainNow'
    BY ExactSteps, ExplainSteps
  <1>3. IInv /\ ExactNow /\ ExplainNow => [KeepTables => ProofsExplain(work.e, Meaning)]_vars
    BY KeptExplained
  <1>. QED
    BY <1>1, <1>2, <1>3, Invariance, PTL DEF Spec, Explained
=============================================================================
