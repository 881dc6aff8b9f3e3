--------------------------- MODULE LineageProofs ---------------------------
(***************************************************************************)
(* Theorems about Lineage.  Two facts about finite sets of sets carry the  *)
(* reasoning about lineages: of the ancestors of some types, those of one  *)
(* are smallest, and those of one largest.  The first gives the depths,    *)
(* which are defined by recursion, a value; the second gives the common    *)
(* ancestors of two types a lowest one.                                    *)
(***************************************************************************)
EXTENDS Lineage, FiniteSetTheorems, SequenceTheorems, TLAPS

(* Finite sets *)

\* The sets of subsets of S, except the empty one.
Families(S) == (SUBSET SUBSET S) \ {{}}

\* Of finitely many elements: among some of their sets there is one that
\* has none of the others inside.
LEMMA SmallestSet ==
    ASSUME NEW S, IsFiniteSet(S), NEW F \in Families(S)
    PROVE  \E A \in F : \A B \in F : B \subseteq A => B = A
  <1>1. F \subseteq FiniteSubsetsOf(S) /\ F # {}
    BY FS_FiniteSubsetsOfFinite DEF Families
  <1>2. PICK A \in F : \A B \in F : ~(<<B, A>> \in StrictSubsetOrdering(S))
    BY <1>1, FS_StrictSubsetOrderingWellFounded, WFMin
  <1>. QED
    BY <1>2 DEF StrictSubsetOrdering, Families

\* And one that is inside none of the others.
LEMMA LargestSet ==
    ASSUME NEW S, IsFiniteSet(S), NEW F \in Families(S)
    PROVE  \E A \in F : \A B \in F : A \subseteq B => B = A
  <1>1. PICK G : G = {S \ A : A \in F}
    OBVIOUS
  <1>2. G \in Families(S)
    <2>1. PICK A \in F : TRUE
      BY DEF Families
    <2>2. S \ A \in G
      BY <1>1, <2>1
    <2>3. \A C \in G : C \subseteq S
      BY <1>1
    <2>. QED
      BY <2>2, <2>3, Zenon DEF Families
  <1>3. PICK C \in G : \A D \in G : D \subseteq C => D = C
    BY <1>2, SmallestSet
  <1>4. PICK A \in F : C = S \ A
    BY <1>1
  <1>5. ASSUME NEW B \in F, A \subseteq B
        PROVE  B = A
    <2>1. S \ B \in G /\ S \ B \subseteq C
      BY <1>1, <1>4, <1>5
    <2>2. S \ B = S \ A
      BY <1>3, <1>4, <2>1
    <2>3. A \subseteq S /\ B \subseteq S
      BY DEF Families
    <2>. QED
      BY <2>2, <2>3, <1>5
  <1>. QED
    BY <1>5

\* Max is the largest of finitely many numbers.
LEMMA MaxNat ==
    ASSUME NEW S \in SUBSET Nat, IsFiniteSet(S), S # {}
    PROVE  Max(S) \in S /\ \A n \in S : n <= Max(S)
  <1>1. PICK G : G = {{k \in S : n <= k} : n \in S}
    OBVIOUS
  <1>2. G \in Families(S)
    <2>1. PICK n \in S : TRUE
      OBVIOUS
    <2>2. {k \in S : n <= k} \in G
      BY <1>1, <2>1
    <2>3. \A C \in G : C \subseteq S
      BY <1>1
    <2>. QED
      BY <2>2, <2>3, Zenon DEF Families
  <1>3. PICK A \in G : \A B \in G : B \subseteq A => B = A
    BY <1>2, SmallestSet
  <1>4. PICK m \in S : A = {k \in S : m <= k}
    BY <1>1
  <1>5. ASSUME NEW n \in S, ~(n <= m)
        PROVE  FALSE
    <2>0. PICK B : B = {k \in S : n <= k}
      OBVIOUS
    <2>1. B \in G
      BY <1>1, <2>0
    <2>4. B \subseteq A
      <3>1. m \in Nat /\ n \in Nat /\ S \subseteq Nat
        OBVIOUS
      <3>2. \A k \in S : n <= k => m <= k
        BY <3>1, <1>5
      <3>. QED
        BY <2>0, <1>4, <3>2
    <2>2. B = A
      BY <1>3, <2>4, <2>1
    <2>3. m \in B
      BY <2>2, <1>4
    <2>. QED
      BY <1>5, <2>3, <2>0
  <1>6. \E x \in S : \A y \in S : x >= y
    BY <1>5
  <1>. QED
    BY <1>6 DEF Max

\* A function takes finitely many values on a finite set.
LEMMA ImageFinite ==
    ASSUME NEW S, IsFiniteSet(S), NEW f
    PROVE  IsFiniteSet({f[x] : x \in S})
  <1>1. PICK T : T = {f[x] : x \in S}
    OBVIOUS
  <1>2. PICK g : g = [x \in S |-> f[x]]
    OBVIOUS
  <1>3. g \in Surjection(S, T)
    <2>1. g \in [S -> T]
      BY <1>1, <1>2
    <2>2. \A y \in T : \E x \in S : g[x] = y
      BY <1>1, <1>2
    <2>. QED
      BY <2>1, <2>2 DEF Surjection
  <1>. QED
    BY <1>1, <1>3, FS_Surjection

------------------------------------------------------------------------------
(* Ancestors *)

Hierarchy == [Type -> Seq(Type)]

\* The parents of a type are what its sequence lists.
LEMMA ParentsTyped ==
    ASSUME NEW h \in Hierarchy, NEW t \in Type
    PROVE  ParentsOf(h, t) = Range(h[t]) /\ ParentsOf(h, t) \subseteq Type
  <1>1. t # FactType
    BY EdgeAssumption
  <1>2. ParentsOf(h, t) = Range(h[t])
    BY <1>1 DEF ParentsOf
  <1>3. h[t] \in Seq(Type)
    BY DEF Hierarchy
  <1>4. Range(h[t]) \subseteq Type
    BY <1>3 DEF Range
  <1>. QED
    BY <1>2, <1>4

\* An edge leads to a parent.
LEMMA EdgeParent ==
    ASSUME NEW h \in Hierarchy, NEW c \in Type, NEW p
    PROVE  <<c, p>> \in Edges(h) <=> p \in ParentsOf(h, c)
  BY ParentsTyped DEF Edges

\* The ancestors of a type have its parents and theirs.
LEMMA AncestorsOfType ==
    ASSUME NEW h \in Hierarchy, NEW t \in Type
    PROVE  /\ Ancestors(h, t) \in SUBSET Type
           /\ t \in Ancestors(h, t)
           /\ ClosedUp(h, Ancestors(h, t))
  <1>1. Ancestors(h, t) \in SUBSET Type /\ t \in Ancestors(h, t)
    BY DEF Ancestors
  <1>2. ASSUME NEW u \in Ancestors(h, t), NEW p \in ParentsOf(h, u)
        PROVE  p \in Ancestors(h, t)
    <2>1. u \in Type /\ p \in Type
      BY <1>1, ParentsTyped
    <2>2. ASSUME NEW ts \in SUBSET Type, t \in ts, ClosedUp(h, ts)
          PROVE  p \in ts
      <3>1. u \in ts
        BY <1>2, <2>2 DEF Ancestors
      <3>. QED
        BY <2>2, <3>1 DEF ClosedUp
    <2>. QED
      BY <2>1, <2>2 DEF Ancestors
  <1>. QED
    BY <1>1, <1>2 DEF ClosedUp

\* No set that has a type and with each its parents lacks an ancestor.
LEMMA AncestorsLeast ==
    ASSUME NEW h, NEW ts \in SUBSET Type, ClosedUp(h, ts), NEW t \in ts
    PROVE  Ancestors(h, t) \subseteq ts
  BY DEF Ancestors

\* The ancestors of an ancestor are ancestors.
LEMMA AncestorsOfAncestor ==
    ASSUME NEW h \in Hierarchy, NEW t \in Type, NEW u \in Ancestors(h, t)
    PROVE  Ancestors(h, u) \subseteq Ancestors(h, t)
  BY AncestorsOfType, AncestorsLeast

\* So are the ancestors of a parent.
LEMMA AncestorsOfParent ==
    ASSUME NEW h \in Hierarchy, NEW t \in Type, NEW p \in ParentsOf(h, t)
    PROVE  p \in Ancestors(h, t) /\ Ancestors(h, p) \subseteq Ancestors(h, t)
  BY AncestorsOfType, AncestorsOfAncestor DEF ClosedUp

\* A lineage is cyclic if a type is an ancestor of a parent of its own.
LEMMA CycleEdge ==
    ASSUME NEW h \in Hierarchy
    PROVE  Cyclic(h) <=> \E c, p \in Type : p \in ParentsOf(h, c) /\ c \in Ancestors(h, p)
  <1>1. ASSUME NEW e \in Edges(h), IsCompatibleType(h, e[2], e[1])
        PROVE  e[2] \in ParentsOf(h, e[1]) /\ e[1] \in Ancestors(h, e[2]) /\ e \in Type \X Type
    BY <1>1, EdgeAssumption DEF Edges, IsCompatibleType
  <1>2. ASSUME NEW c \in Type, NEW p \in Type, p \in ParentsOf(h, c), c \in Ancestors(h, p)
        PROVE  Cyclic(h)
    <2>1. <<c, p>> \in Edges(h)
      BY <1>2 DEF Edges
    <2>. QED
      BY <1>2, <2>1 DEF Cyclic, IsCompatibleType
  <1>. QED
    BY <1>1, <1>2 DEF Cyclic

\* Without some of its edges a lineage stays acyclic.
LEMMA FewerEdges ==
    ASSUME NEW g \in Hierarchy, NEW h \in Hierarchy, Edges(g) \subseteq Edges(h), ~Cyclic(h)
    PROVE  ~Cyclic(g)
  <1>1. \A t \in Type : ParentsOf(g, t) \subseteq ParentsOf(h, t)
    BY EdgeParent
  <1>2. ASSUME NEW t \in Type
        PROVE  Ancestors(g, t) \subseteq Ancestors(h, t)
    <2>1. ClosedUp(g, Ancestors(h, t))
      BY <1>1, AncestorsOfType DEF ClosedUp
    <2>. QED
      BY <2>1, AncestorsOfType, AncestorsLeast
  <1>. QED
    BY <1>1, <1>2, CycleEdge

\* No two types are ancestors of each other.
LEMMA AncestorsAntisymmetric ==
    ASSUME NEW h \in Hierarchy, ~Cyclic(h),
           NEW t \in Type, NEW u \in Ancestors(h, t), t \in Ancestors(h, u)
    PROVE  t = u
  <1> SUFFICES ASSUME t # u
               PROVE  FALSE
    OBVIOUS
  <1>1. PICK A : A = {t} \cup UNION {Ancestors(h, p) : p \in ParentsOf(h, t)}
    OBVIOUS
  <1>2. ClosedUp(h, A)
    <2>1. ASSUME NEW v \in A, NEW q \in ParentsOf(h, v)
          PROVE  q \in A
      <3>1. CASE v = t
        <4>1. q \in Type
          BY <2>1, <3>1, ParentsTyped
        <4>2. q \in Ancestors(h, q)
          BY <4>1, AncestorsOfType
        <4>. QED
          BY <1>1, <2>1, <3>1, <4>2
      <3>2. CASE v # t
        <4>1. PICK p \in ParentsOf(h, t) : v \in Ancestors(h, p)
          BY <1>1, <3>2
        <4>2. p \in Type
          BY ParentsTyped
        <4>3. q \in Ancestors(h, p)
          BY <4>1, <4>2, AncestorsOfType DEF ClosedUp
        <4>. QED
          BY <1>1, <4>3
      <3>. QED
        BY <3>1, <3>2
    <2>. QED
      BY <2>1 DEF ClosedUp
  <1>3. A \in SUBSET Type /\ t \in A
    BY <1>1, ParentsTyped, AncestorsOfType
  <1>4. u \in A
    BY <1>2, <1>3, AncestorsLeast
  <1>5. PICK p \in ParentsOf(h, t) : u \in Ancestors(h, p)
    BY <1>1, <1>4
  <1>6. p \in Type
    BY ParentsTyped
  <1>7. t \in Ancestors(h, p)
    BY <1>5, <1>6, AncestorsOfAncestor
  <1>. QED
    BY <1>5, <1>6, <1>7, CycleEdge

\* An edge that closes no cycle.
LEMMA WithParentTyped ==
    ASSUME NEW h \in Hierarchy, NEW c \in Type, NEW p \in Type
    PROVE  /\ WithParent(h, c, p) \in Hierarchy
           /\ \A t \in Type : ParentsOf(WithParent(h, c, p), t) =
                  IF t = c THEN ParentsOf(h, c) \cup {p} ELSE ParentsOf(h, t)
  <1>1. CASE p \in ParentsOf(h, c)
    BY <1>1 DEF WithParent
  <1>2. CASE p \notin ParentsOf(h, c)
    <2>1. PICK s \in Seq(Type) : s = h[c]
      BY DEF Hierarchy
    <2>2. PICK g : g = [h EXCEPT ![c] = Append(s, p)]
      OBVIOUS
    <2>3. Append(s, p) \in Seq(Type)
      OBVIOUS
    <2>4. g \in Hierarchy
      BY <2>2, <2>3 DEF Hierarchy
    <2>5. Range(Append(s, p)) = Range(s) \cup {p}
      <3>1. /\ DOMAIN Append(s, p) = 1 .. Len(s) + 1
            /\ DOMAIN s = 1 .. Len(s)
            /\ Append(s, p)[Len(s) + 1] = p
            /\ \A i \in 1 .. Len(s) : Append(s, p)[i] = s[i]
            /\ Len(s) \in Nat
        OBVIOUS
      <3>2. \A i \in 1 .. Len(s) + 1 : i = Len(s) + 1 \/ i \in 1 .. Len(s)
        BY <3>1
      <3>3. 1 .. Len(s) \subseteq 1 .. Len(s) + 1 /\ Len(s) + 1 \in 1 .. Len(s) + 1
        BY <3>1
      <3>. QED
        BY <3>1, <3>2, <3>3, Zenon DEF Range
    <2>6. g = WithParent(h, c, p)
      BY <1>2, <2>1, <2>2 DEF WithParent
    <2>7. ASSUME NEW t \in Type
          PROVE  ParentsOf(g, t) = IF t = c THEN ParentsOf(h, c) \cup {p} ELSE ParentsOf(h, t)
      <3>1. g[t] = IF t = c THEN Append(s, p) ELSE h[t]
        BY <2>2 DEF Hierarchy
      <3>. QED
        BY <2>1, <2>4, <2>5, <3>1, ParentsTyped
    <2>. QED
      BY <2>4, <2>6, <2>7
  <1>. QED
    BY <1>1, <1>2

\* setParent: an edge that closes no cycle leaves the lineage acyclic.
LEMMA WithParentAcyclic ==
    ASSUME NEW h \in Hierarchy, NEW c \in Type, NEW p \in Type,
           ~Cyclic(h), ~ClosesCycle(h, c, p)
    PROVE  ~Cyclic(WithParent(h, c, p))
  <1>1. PICK g \in Hierarchy : g = WithParent(h, c, p)
    BY WithParentTyped
  <1>2. \A t \in Type : ParentsOf(g, t) =
            IF t = c THEN ParentsOf(h, c) \cup {p} ELSE ParentsOf(h, t)
    BY <1>1, WithParentTyped
  <1>3. PICK A \in SUBSET Type : A = Ancestors(h, p)
    BY AncestorsOfType
  <1>4. c \notin A /\ p \in A /\ ClosedUp(h, A)
    BY <1>3, AncestorsOfType DEF ClosesCycle, IsCompatibleType
  <1>5. ASSUME NEW t \in Type
        PROVE  Ancestors(g, t) \subseteq Ancestors(h, t) \cup A
    <2>1. PICK B \in SUBSET Type : B = Ancestors(h, t) \cup A
      BY AncestorsOfType
    <2>2. ClosedUp(g, B) /\ t \in B
      BY <1>2, <1>4, <2>1, AncestorsOfType DEF ClosedUp
    <2>. QED
      BY <2>1, <2>2, AncestorsLeast
  <1>6. ASSUME NEW t \in Type, c \notin Ancestors(h, t)
        PROVE  Ancestors(g, t) \subseteq Ancestors(h, t)
    <2>1. PICK B \in SUBSET Type : B = Ancestors(h, t)
      BY AncestorsOfType
    <2>2. ClosedUp(g, B) /\ t \in B
      BY <1>2, <1>6, <2>1, AncestorsOfType DEF ClosedUp
    <2>. QED
      BY <2>1, <2>2, AncestorsLeast
  <1>7. ASSUME NEW x \in Type, NEW y \in Type, y \in ParentsOf(g, x), x \in Ancestors(g, y)
        PROVE  FALSE
    <2>1. CASE y \in ParentsOf(h, x)
      <3>1. x \notin Ancestors(h, y)
        BY <2>1, CycleEdge
      <3>2. c \in Ancestors(h, y) /\ x \in A
        BY <1>5, <1>6, <1>7, <3>1
      <3>3. c \in Ancestors(h, x)
        BY <2>1, <3>2, AncestorsOfParent
      <3>4. c \in A
        BY <1>3, <3>2, <3>3, AncestorsOfAncestor
      <3>. QED
        BY <1>4, <3>4
    <2>2. CASE x = c /\ y = p
      BY <1>3, <1>4, <1>6, <1>7, <2>2
    <2>. QED
      BY <1>2, <1>7, <2>1, <2>2
  <1>. QED
    BY <1>1, <1>7, CycleEdge

------------------------------------------------------------------------------
LEMMA AncestorsSmallest ==
    ASSUME NEW h \in Hierarchy, ~Cyclic(h), NEW C \in SUBSET Type, C # {}
    PROVE  \E t \in C : ParentsOf(h, t) \cap C = {}
  <1>1. PICK F : F = {Ancestors(h, t) : t \in C}
    OBVIOUS
  <1>2. F \in Families(Type)
    <2>1. PICK t \in C : TRUE
      OBVIOUS
    <2>2. Ancestors(h, t) \in F
      BY <1>1, <2>1
    <2>3. \A B \in F : B \subseteq Type
      BY <1>1, AncestorsOfType
    <2>. QED
      BY <2>2, <2>3, Zenon DEF Families
  <1>3. PICK A \in F : \A B \in F : B \subseteq A => B = A
    BY <1>2, TypeAssumption, SmallestSet
  <1>4. PICK t \in C : A = Ancestors(h, t)
    BY <1>1
  <1>5. ASSUME NEW p \in ParentsOf(h, t) \cap C
        PROVE  FALSE
    <2>1. PICK B : B = Ancestors(h, p)
      OBVIOUS
    <2>2. B \in F /\ B \subseteq A
      BY <1>1, <1>4, <2>1, AncestorsOfParent
    <2>3. B = A
      BY <1>3, <2>2
    <2>4. t \in Ancestors(h, p)
      BY <1>4, <2>1, <2>3, AncestorsOfType
    <2>. QED
      BY <2>4, CycleEdge
  <1>. QED
    BY <1>5

\* Among some types of an acyclic lineage each descends from, or is, one
\* that none of the others descends to.
LEMMA AncestorsLargest ==
    ASSUME NEW h \in Hierarchy, ~Cyclic(h), NEW C \in SUBSET Type, NEW c \in C
    PROVE  \E m \in C : c \in Ancestors(h, m) /\ \A u \in C \ {m} : m \notin Ancestors(h, u)
  <1>0. PICK D : D = {v \in C : c \in Ancestors(h, v)}
    OBVIOUS
  <1>1. PICK F : F = {Ancestors(h, v) : v \in D}
    OBVIOUS
  <1>2. F \in Families(Type)
    <2>1. c \in D
      BY <1>0, AncestorsOfType
    <2>2. Ancestors(h, c) \in F
      BY <1>1, <2>1
    <2>3. \A B \in F : B \subseteq Type
      BY <1>0, <1>1, AncestorsOfType
    <2>. QED
      BY <2>2, <2>3, Zenon DEF Families
  <1>3. PICK A \in F : \A B \in F : A \subseteq B => B = A
    BY <1>2, TypeAssumption, LargestSet
  <1>4. PICK m \in D : A = Ancestors(h, m)
    BY <1>1
  <1>5. m \in C /\ m \in Type /\ c \in Ancestors(h, m)
    BY <1>0
  <1>6. ASSUME NEW u \in C \ {m}, m \in Ancestors(h, u)
        PROVE  FALSE
    <2>1. PICK B : B = Ancestors(h, u)
      OBVIOUS
    <2>2. A \subseteq B
      BY <1>4, <1>6, <2>1, AncestorsOfAncestor
    <2>3. u \in D
      BY <1>0, <1>4, <1>5, <2>1, <2>2
    <2>4. B = A
      BY <1>1, <1>3, <2>1, <2>2, <2>3
    <2>5. u \in Type /\ u \in Ancestors(h, m)
      BY <1>4, <2>1, <2>4, AncestorsOfType
    <2>. QED
      BY <1>5, <1>6, <2>5, AncestorsAntisymmetric
  <1>. QED
    BY <1>5, <1>6

\* The depth of a type whose parents are ps, of depths f.
OneMore(f, ps) == 1 + Max({0} \cup {f[p] : p \in ps})

\* OneMore is greater than the values it is taken from.
LEMMA OneMoreThanAll ==
    ASSUME NEW ps, IsFiniteSet(ps), NEW f, \A p \in ps : f[p] \in Nat
    PROVE  OneMore(f, ps) \in Nat /\ \A p \in ps : f[p] < OneMore(f, ps)
  <1>1. PICK S : S = {0} \cup {f[p] : p \in ps}
    OBVIOUS
  <1>2. S \in SUBSET Nat /\ S # {} /\ \A p \in ps : f[p] \in S
    BY <1>1
  <1>3. IsFiniteSet(S)
    <2>1. IsFiniteSet({f[p] : p \in ps})
      BY ImageFinite
    <2>2. IsFiniteSet({0})
      BY FS_Singleton
    <2>. QED
      BY <1>1, <2>1, <2>2, FS_Union
  <1>4. Max(S) \in S /\ \A n \in S : n <= Max(S)
    BY <1>2, <1>3, MaxNat
  <1>5. OneMore(f, ps) = 1 + Max(S)
    BY <1>1 DEF OneMore
  <1>6. PICK m \in Nat : m = Max(S)
    BY <1>2, <1>4
  <1>7. PICK d : d = OneMore(f, ps)
    OBVIOUS
  <1>8. d = 1 + m
    BY <1>5, <1>6, <1>7
  <1>9. \A p \in ps : f[p] \in Nat /\ f[p] <= m
    BY <1>2, <1>4, <1>6
  <1>10. d \in Nat /\ \A p \in ps : f[p] < d
    BY <1>8, <1>9
  <1>. QED
    BY <1>7, <1>10

\* f gives the depth of each of the types ts.
IsDepth(f, h, ts) ==
    f \in [ts -> Nat] /\ \A t \in ts : f[t] = OneMore(f, ParentsOf(h, t))

\* A depth of some types is extended by a type whose parents are among them.
LEMMA DepthsExtend ==
    ASSUME NEW h \in Hierarchy, NEW A \in SUBSET Type, ClosedUp(h, A),
           NEW f, IsDepth(f, h, A), NEW t \in Type \ A, ParentsOf(h, t) \subseteq A
    PROVE  ClosedUp(h, A \cup {t}) /\ \E g : IsDepth(g, h, A \cup {t})
  <1>1. ClosedUp(h, A \cup {t})
    BY DEF ClosedUp
  <1>2. PICK n : n = OneMore(f, ParentsOf(h, t))
    OBVIOUS
  <1>3. n \in Nat
    <2>1. IsFiniteSet(ParentsOf(h, t))
      BY TypeAssumption, ParentsTyped, FS_Subset
    <2>2. \A p \in ParentsOf(h, t) : f[p] \in Nat
      BY DEF IsDepth
    <2>. QED
      BY <1>2, <2>1, <2>2, OneMoreThanAll
  <1>4. PICK g : g = [x \in A \cup {t} |-> IF x = t THEN n ELSE f[x]]
    OBVIOUS
  <1>5. g \in [A \cup {t} -> Nat]
    BY <1>3, <1>4 DEF IsDepth
  <1>6. ASSUME NEW x \in A \cup {t}
        PROVE  g[x] = OneMore(g, ParentsOf(h, x))
    <2>1. ParentsOf(h, x) \subseteq A
      BY DEF ClosedUp
    <2>2. \A p \in ParentsOf(h, x) : g[p] = f[p]
      BY <1>4, <2>1
    <2>3. {g[p] : p \in ParentsOf(h, x)} = {f[p] : p \in ParentsOf(h, x)}
      BY <2>2
    <2>4. OneMore(g, ParentsOf(h, x)) = OneMore(f, ParentsOf(h, x))
      BY <2>3 DEF OneMore
    <2>. QED
      BY <1>2, <1>4, <2>4 DEF IsDepth
  <1>. QED
    BY <1>1, <1>5, <1>6 DEF IsDepth

\* Every acyclic lineage has depths.
LEMMA DepthsExist ==
    ASSUME NEW h \in Hierarchy, ~Cyclic(h)
    PROVE  \E f : IsDepth(f, h, Type)
  <1>1. PICK F : F = {A \in SUBSET Type : ClosedUp(h, A) /\ \E f : IsDepth(f, h, A)}
    OBVIOUS
  <1>2. F \in Families(Type)
    <2>1. ClosedUp(h, {})
      BY DEF ClosedUp
    <2>2. IsDepth([x \in {} |-> 0], h, {})
      BY DEF IsDepth
    <2>3. {} \in F
      BY <1>1, <2>1, <2>2
    <2>4. \A B \in F : B \subseteq Type
      BY <1>1
    <2>. QED
      BY <2>3, <2>4, Zenon DEF Families
  <1>3. PICK A \in F : \A B \in F : A \subseteq B => B = A
    BY <1>2, TypeAssumption, LargestSet
  <1>4. A \in SUBSET Type /\ ClosedUp(h, A)
    BY <1>1
  <1>5. PICK f : IsDepth(f, h, A)
    BY <1>1
  <1>6. ASSUME A # Type
        PROVE  FALSE
    <2>1. PICK C : C = Type \ A
      OBVIOUS
    <2>2. C \in SUBSET Type /\ C # {}
      BY <1>4, <1>6, <2>1
    <2>3. PICK t \in C : ParentsOf(h, t) \cap C = {}
      BY <2>2, AncestorsSmallest
    <2>4. t \in Type \ A
      BY <2>1
    <2>5. ParentsOf(h, t) \subseteq A
      BY <2>1, <2>3, <2>4, ParentsTyped
    <2>6. ClosedUp(h, A \cup {t}) /\ \E g : IsDepth(g, h, A \cup {t})
      BY <1>4, <1>5, <2>4, <2>5, DepthsExtend
    <2>7. A \cup {t} \in F
      BY <1>1, <1>4, <2>4, <2>6
    <2>8. A \cup {t} = A
      BY <1>3, <2>7
    <2>. QED
      BY <2>4, <2>8
  <1>. QED
    BY <1>5, <1>6

\* typeHierarchyDepth gives numbers that grow from parent to child: the
\* recursion has a value because the lineage is acyclic.
LEMMA DepthsAreDepths ==
    ASSUME NEW h \in Hierarchy, ~Cyclic(h)
    PROVE  Depths(h) \in [Type -> Nat]
           /\ \A t \in Type : \A p \in ParentsOf(h, t) : Depths(h)[p] < Depths(h)[t]
  <1>1. PICK f : IsDepth(f, h, Type)
    BY DepthsExist
  <1>2. f = [t \in Type |-> 1 + Max({0} \cup {f[p] : p \in ParentsOf(h, t)})]
    BY <1>1, Zenon DEF IsDepth, OneMore
  <1>3. Depths(h) = [t \in Type |-> 1 + Max({0} \cup {Depths(h)[p] : p \in ParentsOf(h, t)})]
    BY <1>2, Zenon DEF Depths
  <1>4. PICK d : d = Depths(h)
    OBVIOUS
  <1>5. d = [t \in Type |-> OneMore(d, ParentsOf(h, t))]
    BY <1>3, <1>4, Zenon DEF OneMore
  <1>6. DOMAIN d = Type /\ \A t \in Type : d[t] = OneMore(d, ParentsOf(h, t))
    BY <1>5
  <1>7. \A t \in Type : IsFiniteSet(ParentsOf(h, t)) /\ ParentsOf(h, t) \subseteq Type
    BY ParentsTyped, TypeAssumption, FS_Subset
  <1>8. PICK C \in SUBSET Type : C = {t \in Type : d[t] \notin Nat}
    OBVIOUS
  <1>9. C = {}
    <2> SUFFICES ASSUME C # {}
                 PROVE  FALSE
      OBVIOUS
    <2>1. PICK t \in C : ParentsOf(h, t) \cap C = {}
      BY AncestorsSmallest
    <2>2. t \in Type
      OBVIOUS
    <2>3. \A p \in ParentsOf(h, t) : d[p] \in Nat
      BY <1>7, <1>8, <2>1, <2>2
    <2>4. OneMore(d, ParentsOf(h, t)) \in Nat
      BY <1>7, <2>2, <2>3, OneMoreThanAll
    <2>. QED
      BY <1>6, <1>8, <2>1, <2>2, <2>4
  <1>10. \A t \in Type : d[t] \in Nat
    BY <1>8, <1>9
  <1>11. d \in [Type -> Nat]
    BY <1>5, <1>6, <1>10
  <1>12. ASSUME NEW t \in Type
         PROVE  \A p \in ParentsOf(h, t) : d[p] < d[t]
    <2>1. \A p \in ParentsOf(h, t) : d[p] \in Nat
      BY <1>7, <1>10
    <2>2. \A p \in ParentsOf(h, t) : d[p] < OneMore(d, ParentsOf(h, t))
      BY <1>7, <2>1, OneMoreThanAll
    <2>. QED
      BY <1>6, <2>2
  <1>. QED
    BY <1>4, <1>11, <1>12

\* A type is deeper than every type it inherits from.
LEMMA AncestorsAreHigher ==
    ASSUME NEW h \in Hierarchy, ~Cyclic(h),
           NEW t \in Type, NEW u \in Ancestors(h, t), u # t
    PROVE  u \in Type /\ Depth(h, t) \in Nat /\ Depth(h, u) \in Nat /\ Depth(h, u) < Depth(h, t)
  <1>1. PICK d \in [Type -> Nat] : d = Depths(h)
    BY DepthsAreDepths
  <1>2. \A x \in Type : \A p \in ParentsOf(h, x) : d[p] < d[x]
    BY <1>1, DepthsAreDepths
  <1>3. PICK A \in SUBSET Type : A = {x \in Type : x = t \/ d[x] < d[t]}
    OBVIOUS
  <1>4. ClosedUp(h, A)
    <2>1. ASSUME NEW x \in A, NEW p \in ParentsOf(h, x)
          PROVE  p \in A
      <3>1. x \in Type /\ p \in Type
        BY ParentsTyped
      <3>2. d[p] < d[x] /\ d[x] <= d[t]
        BY <1>2, <1>3, <3>1
      <3>3. d[p] < d[t]
        BY <3>1, <3>2
      <3>. QED
        BY <1>3, <3>1, <3>3
    <2>. QED
      BY <2>1 DEF ClosedUp
  <1>5. u \in A
    BY <1>3, <1>4, AncestorsLeast
  <1>6. u \in Type /\ d[u] < d[t]
    BY <1>3, <1>5
  <1>7. t # FactType /\ u # FactType
    BY <1>6, EdgeAssumption
  <1>8. Depth(h, t) = d[t] /\ Depth(h, u) = d[u]
    BY <1>1, <1>7 DEF Depth
  <1>. QED
    BY <1>6, <1>8

------------------------------------------------------------------------------
(* The lineage of a set of edges *)

\* SetToSeq lists the elements of a finite set.
LEMMA SequenceOfSet ==
    ASSUME NEW S, IsFiniteSet(S)
    PROVE  SetToSeq(S) \in Seq(S) /\ Range(SetToSeq(S)) = S
  <1>1. PICK n \in Nat : n = Cardinality(S)
    BY FS_CardinalityType
  <1>2. PICK b \in Bijection(1 .. n, S) : TRUE
    BY <1>1, FS_CardinalityType DEF ExistsBijection
  <1>3. b \in [1 .. n -> S] /\ IsInjective(b)
    BY <1>2 DEF Bijection, Injection, IsInjective
  <1>4. PICK f : f = SetToSeq(S)
    OBVIOUS
  <1>5. f \in [1 .. n -> S] /\ IsInjective(f)
    BY <1>1, <1>3, <1>4, Zenon DEF SetToSeq
  <1>6. f \in Injection(1 .. n, S)
    BY <1>5 DEF Injection, IsInjective
  <1>7. Cardinality(1 .. n) = n
    BY FS_Interval
  <1>8. f \in Surjection(1 .. n, S)
    BY <1>1, <1>6, <1>7, FS_Injection
  <1>9. Range(f) = S
    BY <1>5, <1>8 DEF Surjection, Range
  <1>10. f \in Seq(S)
    BY <1>5, SeqDef
  <1>. QED
    BY <1>4, <1>9, <1>10

\* openDatabase gives the session the edges that are stored, and no others.
LEMMA LineageOfEdges ==
    ASSUME NEW edges \in SUBSET (Type \X Type)
    PROVE  LineageOf(edges) \in Hierarchy /\ Edges(LineageOf(edges)) = edges
  <1>1. PICK h : h = LineageOf(edges)
    OBVIOUS
  <1>2. ASSUME NEW t \in Type
        PROVE  h[t] \in Seq(Type) /\ Range(h[t]) = {p \in Type : <<t, p>> \in edges}
    <2>1. PICK ps \in SUBSET Type : ps = {p \in Type : <<t, p>> \in edges}
      OBVIOUS
    <2>2. IsFiniteSet(ps)
      BY TypeAssumption, FS_Subset
    <2>3. SetToSeq(ps) \in Seq(ps) /\ Range(SetToSeq(ps)) = ps
      BY <2>2, SequenceOfSet
    <2>4. SetToSeq(ps) \in Seq(Type)
      BY <2>3
    <2>5. h[t] = SetToSeq(ps)
      BY <1>1, <2>1 DEF LineageOf
    <2>. QED
      BY <2>1, <2>3, <2>4, <2>5
  <1>3. h \in Hierarchy
    BY <1>1, <1>2, Zenon DEF LineageOf, Hierarchy
  <1>4. ASSUME NEW e \in Type \X Type
        PROVE  e \in Edges(h) <=> e \in edges
    <2>1. PICK c \in Type, p \in Type : e = <<c, p>>
      OBVIOUS
    <2>2. <<c, p>> \in Edges(h) <=> p \in ParentsOf(h, c)
      BY <1>3, EdgeParent
    <2>3. ParentsOf(h, c) = Range(h[c])
      BY <1>3, ParentsTyped
    <2>. QED
      BY <1>2, <2>1, <2>2, <2>3
  <1>5. Edges(h) \subseteq Type \X Type
    BY DEF Edges
  <1>. QED
    BY <1>1, <1>3, <1>4, <1>5

------------------------------------------------------------------------------
(* The caches *)

\* A record with the four fields of the caches.
IsCache(c) == c = [generation |-> c.generation, ancestry |-> c.ancestry,
                   distances |-> c.distances, depth |-> c.depth]

CurrentAncestry(entries, h) ==
    \A t \in DOMAIN entries : entries[t] = TypeAncestry(h, t)
CurrentDistances(entries, h) ==
    \A t \in DOMAIN entries : entries[t] = TypeAncestorDistances(h, t)
CurrentDepth(entries, h) == \A t \in DOMAIN entries : entries[t] = Depth(h, t)

\* What is cached is what is computed from h.
Current(c, h) == /\ CurrentAncestry(c.ancestry, h)
                 /\ CurrentDistances(c.distances, h)
                 /\ CurrentDepth(c.depth, h)

\* What is cached is of generation g or older, and current if of g.
Known(c, h, g) == /\ IsCache(c)
                  /\ c.generation \in Nat
                  /\ c.generation <= g
                  /\ c.generation = g => Current(c, h)

\* Nothing cached is of generation 0.
LEMMA NoCacheKnown ==
    ASSUME NEW h, NEW g \in Nat \ {0}
    PROVE  Known(NoCache, h, g)
  BY DEF Known, IsCache, NoCache

\* refreshAncestryCaches leaves what is current.
LEMMA RefreshedCurrent ==
    ASSUME NEW c, NEW h, NEW g \in Nat \ {0}, Known(c, h, g)
    PROVE  /\ IsCache(Refreshed(c, g)) /\ Refreshed(c, g).generation = g
           /\ Current(Refreshed(c, g), h)
  <1>1. CASE c.generation = g
    BY <1>1 DEF Known, Refreshed
  <1>2. CASE c.generation # g
    <2>1. Refreshed(c, g) =
              [generation |-> g, ancestry |-> <<>>, distances |-> <<>>, depth |-> <<>>]
      BY <1>2 DEF Refreshed, NoCache
    <2>2. DOMAIN <<>> = {}
      OBVIOUS
    <2>. QED
      BY <2>1, <2>2 DEF IsCache, Current, CurrentAncestry, CurrentDistances, CurrentDepth
  <1>. QED
    BY <1>1, <1>2

\* typeAncestry caches what it computes.
LEMMA WithAncestryCurrent ==
    ASSUME NEW c, IsCache(c), NEW h, Current(c, h), NEW t
    PROVE  /\ IsCache(WithAncestry(c, h, t))
           /\ WithAncestry(c, h, t).generation = c.generation
           /\ Current(WithAncestry(c, h, t), h)
  <1>1. PICK more : more = [u \in {t} |-> TypeAncestry(h, u)]
    OBVIOUS
  <1>2. PICK old, all : old = c.ancestry /\ all = Emplaced(old, more)
    OBVIOUS
  <1>3. WithAncestry(c, h, t) =
            [generation |-> c.generation, ancestry |-> all,
             distances |-> c.distances, depth |-> c.depth]
    BY <1>1, <1>2 DEF IsCache, WithAncestry
  <1>4. CurrentAncestry(all, h)
    <2>1. \A u \in DOMAIN old : old[u] = TypeAncestry(h, u)
      BY <1>2 DEF Current, CurrentAncestry
    <2>2. \A u \in DOMAIN more : more[u] = TypeAncestry(h, u)
      BY <1>1
    <2>3. /\ DOMAIN all = (DOMAIN old) \cup (DOMAIN more)
          /\ \A u \in DOMAIN old : all[u] = old[u]
          /\ \A u \in (DOMAIN more) \ (DOMAIN old) : all[u] = more[u]
      BY <1>2 DEF Emplaced
    <2>. QED
      BY <2>1, <2>2, <2>3 DEF CurrentAncestry
  <1>. QED
    BY <1>3, <1>4 DEF IsCache, Current

\* typeAncestorDistances caches what it computes.
LEMMA WithDistancesCurrent ==
    ASSUME NEW c, IsCache(c), NEW h, Current(c, h), NEW ts
    PROVE  /\ IsCache(WithDistances(c, h, ts))
           /\ WithDistances(c, h, ts).generation = c.generation
           /\ Current(WithDistances(c, h, ts), h)
  <1>1. PICK more : more = [t \in ts |-> TypeAncestorDistances(h, t)]
    OBVIOUS
  <1>2. PICK old, all : old = c.distances /\ all = Emplaced(old, more)
    OBVIOUS
  <1>3. WithDistances(c, h, ts) =
            [generation |-> c.generation, ancestry |-> c.ancestry,
             distances |-> all, depth |-> c.depth]
    BY <1>1, <1>2 DEF IsCache, WithDistances
  <1>4. CurrentDistances(all, h)
    <2>1. \A u \in DOMAIN old : old[u] = TypeAncestorDistances(h, u)
      BY <1>2 DEF Current, CurrentDistances
    <2>2. \A u \in DOMAIN more : more[u] = TypeAncestorDistances(h, u)
      BY <1>1
    <2>3. /\ DOMAIN all = (DOMAIN old) \cup (DOMAIN more)
          /\ \A u \in DOMAIN old : all[u] = old[u]
          /\ \A u \in (DOMAIN more) \ (DOMAIN old) : all[u] = more[u]
      BY <1>2 DEF Emplaced
    <2>. QED
      BY <2>1, <2>2, <2>3 DEF CurrentDistances
  <1>. QED
    BY <1>3, <1>4 DEF IsCache, Current

\* typeHierarchyDepth caches what it computes, for all types asked.
LEMMA WithDepthsCurrent ==
    ASSUME NEW c, IsCache(c), NEW h \in Hierarchy, Current(c, h), NEW ts \in SUBSET Type
    PROVE  /\ IsCache(WithDepths(c, h, ts))
           /\ WithDepths(c, h, ts).generation = c.generation
           /\ WithDepths(c, h, ts).distances = c.distances
           /\ Current(WithDepths(c, h, ts), h)
           /\ \A t \in ts : WithDepths(c, h, ts).depth[t] = Depth(h, t)
  <1>0. PICK types : types = UNION {Ancestors(h, t) : t \in ts}
    OBVIOUS
  <1>1. PICK more : more = [t \in types |-> Depth(h, t)]
    OBVIOUS
  <1>2. PICK old, all : old = c.depth /\ all = Emplaced(old, more)
    OBVIOUS
  <1>3. WithDepths(c, h, ts) =
            [generation |-> c.generation, ancestry |-> c.ancestry,
             distances |-> c.distances, depth |-> all]
    BY <1>0, <1>1, <1>2 DEF IsCache, WithDepths
  <1>4. CurrentDepth(all, h)
    <2>1. \A u \in DOMAIN old : old[u] = Depth(h, u)
      BY <1>2 DEF Current, CurrentDepth
    <2>2. \A u \in DOMAIN more : more[u] = Depth(h, u)
      BY <1>1
    <2>3. /\ DOMAIN all = (DOMAIN old) \cup (DOMAIN more)
          /\ \A u \in DOMAIN old : all[u] = old[u]
          /\ \A u \in (DOMAIN more) \ (DOMAIN old) : all[u] = more[u]
      BY <1>2 DEF Emplaced
    <2>. QED
      BY <2>1, <2>2, <2>3 DEF CurrentDepth
  <1>5. ts \subseteq DOMAIN all
    <2>1. ts \subseteq types
      BY <1>0, AncestorsOfType
    <2>2. DOMAIN all = (DOMAIN old) \cup (DOMAIN more)
      BY <1>2 DEF Emplaced
    <2>. QED
      BY <1>1, <2>1, <2>2
  <1>. QED
    BY <1>3, <1>4, <1>5 DEF IsCache, Current, CurrentDepth

------------------------------------------------------------------------------
(* The analysis *)

\* An order of the common ancestors lists all of them.
LEMMA SortedOrder ==
    ASSUME NEW c, NEW left, NEW right, NEW order \in Sorted(c, left, right)
    PROVE  LET common == Common(c, left, right)
               n == Cardinality(common)
           IN  /\ common \in SUBSET Type /\ IsFiniteSet(common) /\ n \in Nat
               /\ order \in [1 .. n -> common]
               /\ Range(order) = common
               /\ \A i, j \in 1 .. n :
                     i < j => ~Precedes(c, left, right, order[j], order[i])
  <1>1. Common(c, left, right) \in SUBSET Type
    BY DEF Common
  <1>2. IsFiniteSet(Common(c, left, right)) /\ Cardinality(Common(c, left, right)) \in Nat
    BY <1>1, TypeAssumption, FS_Subset, FS_CardinalityType
  <1>. QED
    BY <1>1, <1>2 DEF Sorted

\* The status unique says that there is one.
LEMMA OneLowest ==
    ASSUME NEW ts, IsFiniteSet(ts), Status(ts) = "unique"
    PROVE  \A l, m \in ts : l = m
  <1>1. Cardinality(ts) = 1
    BY DEF Status
  <1>. QED
    BY <1>1, FS_Singleton

\* The status none says that there is none.
LEMMA NoneLowest ==
    ASSUME NEW ts, IsFiniteSet(ts)
    PROVE  Status(ts) = "none" <=> ts = {}
  <1>1. CASE ts = {}
    BY <1>1, FS_EmptySet DEF Status
  <1>2. CASE ts # {} /\ Cardinality(ts) = 1
    BY <1>2 DEF Status
  <1>3. CASE ts # {} /\ Cardinality(ts) # 1
    BY <1>3 DEF Status
  <1>. QED
    BY <1>1, <1>2, <1>3

\* What LeastAncestor says of an analysis.
Least(an) ==
    /\ an.status = "unique" =>
          \A low \in an.lowest, c \in Range(an.common) : IsCompatibleType(an.in, low, c)
    /\ an.common # <<>> => an.common[1] \in an.lowest
    /\ an.status = "none" <=> an.common = <<>>

\* One analysis, from depths that are those of the lineage: the first of
\* the common ancestors is no ancestor of another, which would be deeper;
\* and each descends to a lowest one.
LEMMA AnalysisLeast ==
    ASSUME NEW h \in Hierarchy, ~Cyclic(h), NEW c, NEW left, NEW right,
           \A t \in Common(c, left, right) : c.depth[t] = Depth(h, t),
           NEW order \in Sorted(c, left, right)
    PROVE  Least(AncestorAnalysis(h, left, right, order))
  <1>1. PICK common \in SUBSET Type, n \in Nat :
            common = Common(c, left, right) /\ n = Cardinality(common)
    BY SortedOrder
  <1>2. /\ IsFiniteSet(common) /\ order \in [1 .. n -> common] /\ Range(order) = common
        /\ \A i, j \in 1 .. n : i < j => ~Precedes(c, left, right, order[j], order[i])
    BY <1>1, SortedOrder
  <1>3. PICK lowest \in SUBSET common : lowest = Lowest(h, common)
    BY DEF Lowest
  <1>4. \A t \in common : t \in lowest <=> \A u \in common \ {t} : t \notin Ancestors(h, u)
    BY <1>3, EdgeAssumption DEF Lowest, IsCompatibleType
  <1>5. ASSUME NEW t \in common
        PROVE  \E m \in lowest : t \in Ancestors(h, m)
    BY <1>4, AncestorsLargest
  <1>6. order = <<>> <=> common = {}
    <2>1. n = 0 <=> common = {}
      BY <1>1, <1>2, FS_EmptySet
    <2>2. order \in Seq(common) /\ Len(order) = n
      BY <1>2, SeqDef
    <2>. QED
      BY <2>1, <2>2, EmptySeq
  <1>7. common = {} <=> lowest = {}
    BY <1>5
  <1>8. ASSUME common # {}
        PROVE  order[1] \in lowest
    <2>1. 1 \in 1 .. n
      BY <1>1, <1>2, <1>8, FS_EmptySet
    <2>2. PICK first \in common : first = order[1]
      BY <1>2, <2>1
    <2>3. ASSUME NEW u \in common \ {first}, first \in Ancestors(h, u)
          PROVE  FALSE
      <3>1. PICK j \in 1 .. n : u = order[j]
        BY <1>2 DEF Range
      <3>2. 1 < j
        BY <2>2, <2>3, <3>1
      <3>3. ~Precedes(c, left, right, u, first)
        BY <1>2, <2>1, <2>2, <3>1, <3>2
      <3>4. /\ Depth(h, u) \in Nat /\ Depth(h, first) \in Nat
            /\ Depth(h, first) < Depth(h, u)
        BY <2>3, AncestorsAreHigher
      <3>5. c.depth[u] > c.depth[first]
        BY <1>1, <3>4
      <3>. QED
        BY <3>3, <3>5 DEF Precedes
    <2>. QED
      BY <1>4, <2>2, <2>3
  <1>9. ASSUME Status(lowest) = "unique", NEW low \in lowest, NEW t \in common
        PROVE  IsCompatibleType(h, low, t)
    <2>1. IsFiniteSet(lowest)
      BY <1>2, FS_Subset
    <2>2. PICK m \in lowest : t \in Ancestors(h, m)
      BY <1>5
    <2>3. m = low
      BY <1>9, <2>1, OneLowest
    <2>. QED
      BY <2>2, <2>3 DEF IsCompatibleType
  <1>10. Status(lowest) = "none" <=> lowest = {}
    BY <1>2, FS_Subset, NoneLowest
  <1>11. PICK an : an = AncestorAnalysis(h, left, right, order)
    OBVIOUS
  <1>12. /\ an.in = h /\ an.common = order /\ an.lowest = lowest
         /\ an.status = Status(lowest)
    BY <1>2, <1>3, <1>11 DEF AncestorAnalysis
  <1>. QED
    BY <1>2, <1>6, <1>7, <1>8, <1>9, <1>10, <1>11, <1>12 DEF Least

------------------------------------------------------------------------------
(* The invariant of every session *)

\* No lineage has a cycle, the one a rollback would restore included.
Acyclic == /\ \A s \in Session : ~Cyclic(parents[s])
           /\ ~Idle => ~Cyclic(loading.parents)

\* No cache is of a later generation than its lineage.
CachesKnown == \A s \in Session : Known(cache[s], parents[s], generation[s])

IInv == TypeOK /\ Acyclic /\ CachesKnown /\ LeastAncestor

\* Of the only session that declares: it has every edge it has stored, and a
\* rollback restores a lineage that has the edges it restores.
DeclarerHasStored ==
    /\ ~Cyclic(StoredLineage)
    /\ \A s \in open \cap Declaring : stored \subseteq Edges(parents[s])
    /\ ~Idle => /\ loading.by \in Declaring
                /\ loading.stored \subseteq Edges(loading.parents)

\* The lineage a session begins with.
LEMMA NoParentsAcyclic == NoParents \in Hierarchy /\ ~Cyclic(NoParents)
  <1>1. NoParents \in Hierarchy
    <2>1. <<>> \in Seq(Type)
      OBVIOUS
    <2>. QED
      BY <2>1 DEF NoParents, Hierarchy
  <1>2. ASSUME NEW t \in Type
        PROVE  ParentsOf(NoParents, t) = {}
    <2>1. NoParents[t] = <<>>
      BY DEF NoParents
    <2>2. Range(<<>>) = {}
      BY DEF Range
    <2>. QED
      BY <1>1, <2>1, <2>2, ParentsTyped
  <1>. QED
    BY <1>1, <1>2, CycleEdge

\* The initial state.
LEMMA InitInv == Init => IInv
  <1> SUFFICES ASSUME Init
               PROVE  IInv
    OBVIOUS
  <1>1. TypeOK
    <2>1. parents \in [Session -> [Type -> Seq(Type)]]
      BY NoParentsAcyclic DEF Init, Hierarchy
    <2>2. generation \in [Session -> Nat \ {0}]
      BY DEF Init
    <2>. QED
      BY <2>1, <2>2 DEF Init, TypeOK, Idle
  <1>2. Acyclic
    BY NoParentsAcyclic DEF Init, Acyclic, Idle
  <1>3. CachesKnown
    BY NoCacheKnown DEF Init, CachesKnown
  <1>4. LeastAncestor
    BY DEF Init, LeastAncestor
  <1>. QED
    BY <1>1, <1>2, <1>3, <1>4 DEF IInv

\* A load keeps what it may have to restore.
LEMMA BeginModuleInv ==
    ASSUME IInv, NEW s \in Session, BeginModule(s)
    PROVE  IInv'
  <1>1. s \in open /\ loading.by' = s /\ loading.parents' = parents[s]
        /\ loading.generation' = generation[s] /\ loading.stored' = stored
    BY DEF BeginModule
  <1>2. TypeOK'
    BY <1>1 DEF BeginModule, IInv, TypeOK, Idle
  <1>3. Acyclic'
    BY <1>1 DEF BeginModule, IInv, Acyclic, Idle
  <1>4. CachesKnown'
    BY DEF BeginModule, IInv, CachesKnown
  <1>5. LeastAncestor'
    BY DEF BeginModule, NothingAsked, LeastAncestor
  <1>. QED
    BY <1>2, <1>3, <1>4, <1>5 DEF IInv

\* A commit drops it.
LEMMA CommitModuleInv ==
    ASSUME IInv, NEW s \in Session, CommitModule(s)
    PROVE  IInv'
  <1>2. TypeOK'
    BY DEF CommitModule, IInv, TypeOK, Idle
  <1>3. Acyclic'
    BY DEF CommitModule, IInv, Acyclic, Idle
  <1>4. CachesKnown'
    BY DEF CommitModule, IInv, CachesKnown
  <1>5. LeastAncestor'
    BY DEF CommitModule, NothingAsked, LeastAncestor
  <1>. QED
    BY <1>2, <1>3, <1>4, <1>5 DEF IInv

\* A rollback restores an acyclic lineage of an old generation, and nothing
\* cached.
LEMMA RollbackModuleInv ==
    ASSUME IInv, NEW s \in Session, RollbackModule(s)
    PROVE  IInv'
  <1>1. s \in open /\ loading.parents \in [Type -> Seq(Type)]
        /\ loading.generation \in Nat \ {0} /\ loading.stored \subseteq Type \X Type
    BY DEF RollbackModule, Loads, IInv, TypeOK
  <1>2. TypeOK'
    BY <1>1 DEF RollbackModule, Restored, IInv, TypeOK, Idle
  <1>3. Acyclic'
    <2>1. ~Cyclic(loading.parents)
      BY DEF RollbackModule, Loads, IInv, Acyclic
    <2>. QED
      BY <2>1 DEF RollbackModule, Restored, IInv, TypeOK, Acyclic, Idle
  <1>4. CachesKnown'
    <2>1. Known(NoCache, loading.parents, loading.generation)
      BY <1>1, NoCacheKnown
    <2>. QED
      BY <2>1 DEF RollbackModule, Restored, IInv, TypeOK, CachesKnown
  <1>5. LeastAncestor'
    BY DEF RollbackModule, Restored, NothingAsked, LeastAncestor
  <1>. QED
    BY <1>2, <1>3, <1>4, <1>5 DEF IInv

\* A session that closes keeps nothing.
LEMMA CloseInv ==
    ASSUME IInv, NEW s \in Session, Close(s)
    PROVE  IInv'
  <1>1. NoParents \in [Type -> Seq(Type)] /\ ~Cyclic(NoParents)
    BY NoParentsAcyclic DEF Hierarchy
  <1>2. TypeOK'
    BY <1>1 DEF Close, IInv, TypeOK, Idle
  <1>3. Acyclic'
    BY <1>1 DEF Close, IInv, TypeOK, Acyclic, Idle
  <1>4. CachesKnown'
    BY NoCacheKnown DEF Close, IInv, TypeOK, CachesKnown
  <1>5. LeastAncestor'
    BY DEF Close, NothingAsked, LeastAncestor
  <1>. QED
    BY <1>2, <1>3, <1>4, <1>5 DEF IInv

\* A longer lineage of a new generation.
LEMMA LaterKnown ==
    ASSUME NEW c, NEW h, NEW k, NEW g \in Nat, Known(c, h, g)
    PROVE  Known(c, k, g + 1)
  BY DEF Known

\* The caches of a session are as they were, or empty.
LEMMA InvalidateCachesKnown ==
    ASSUME IInv, NEW s \in Session, InvalidateCaches(s)
    PROVE  /\ DOMAIN cache' = Session
           /\ \A r \in Session : cache'[r] \in {cache[r], NoCache}
           /\ \A r \in Session \ {s} : cache'[r] = cache[r]
  BY DEF InvalidateCaches, IInv, TypeOK

\* An edge that the lineage takes makes a new generation, unless it is there
\* already, and what is cached of an earlier one is known.
LEMMA AcceptParentInv ==
    ASSUME IInv, NEW s \in Session, NEW child \in Type, NEW parent \in Type,
           Loads(s), AcceptParent(s, child, parent), InvalidateCaches(s),
           stored' = stored \cup {<<child, parent>>},
           UNCHANGED <<open, loading>>, NothingAsked
    PROVE  IInv'
  <1>1. PICK h \in Hierarchy, g \in Nat \ {0} : h = parents[s] /\ g = generation[s]
    BY DEF IInv, TypeOK, Hierarchy
  <1>2. PICK k \in Hierarchy : k = WithParent(h, child, parent)
    BY WithParentTyped
  <1>3. /\ parents' = [parents EXCEPT ![s] = k]
        /\ generation' = [generation EXCEPT ![s] = g + Grown(h, child, parent)]
        /\ s \in open /\ ~Idle
    BY <1>1, <1>2 DEF AcceptParent, Loads, IInv, TypeOK
  <1>4. k \in [Type -> Seq(Type)] /\ g + Grown(h, child, parent) \in Nat \ {0}
    BY DEF Hierarchy, Grown
  <1>5. TypeOK'
    <2>1. PICK n \in Nat \ {0} : n = g + Grown(h, child, parent)
      BY <1>4
    <2>2. /\ parents' \in [Session -> [Type -> Seq(Type)]]
          /\ generation' \in [Session -> Nat \ {0}]
      BY <1>3, <1>4, <2>1 DEF IInv, TypeOK
    <2>3. stored' \subseteq Type \X Type
      BY DEF IInv, TypeOK
    <2>4. \A t \in Session \ open : parents'[t] = NoParents /\ cache'[t] = NoCache
      BY <1>3, InvalidateCachesKnown DEF IInv, TypeOK
    <2>. QED
      BY <1>3, <2>2, <2>3, <2>4, InvalidateCachesKnown DEF IInv, TypeOK, Idle
  <1>6. ~Cyclic(k)
    BY <1>1, <1>2, WithParentAcyclic DEF AcceptParent, IInv, Acyclic
  <1>7. Acyclic'
    BY <1>3, <1>6 DEF IInv, TypeOK, Acyclic, Idle
  <1>8. CachesKnown'
    <2>1. Known(cache[s], h, g)
      BY <1>1 DEF IInv, CachesKnown
    <2>2. Known(cache[s], k, g + Grown(h, child, parent))
      <3>1. CASE parent \in ParentsOf(h, child)
        BY <1>2, <2>1, <3>1 DEF WithParent, Grown
      <3>2. CASE parent \notin ParentsOf(h, child)
        BY <2>1, <3>2, LaterKnown DEF Grown
      <3>. QED
        BY <3>1, <3>2
    <2>3. PICK n \in Nat \ {0} : n = g + Grown(h, child, parent)
      BY <1>4
    <2>4. Known(cache'[s], k, n)
      <3>1. Known(NoCache, k, n)
        BY <2>3, NoCacheKnown
      <3>. QED
        BY <2>2, <2>3, <3>1, InvalidateCachesKnown
    <2>5. parents'[s] = k /\ generation'[s] = n
      BY <1>3, <2>3 DEF IInv, TypeOK
    <2>6. \A r \in Session \ {s} : /\ parents'[r] = parents[r]
                                   /\ generation'[r] = generation[r]
                                   /\ cache'[r] = cache[r]
      BY <1>3, InvalidateCachesKnown DEF IInv, TypeOK
    <2>. QED
      BY <2>4, <2>5, <2>6 DEF IInv, CachesKnown
  <1>9. LeastAncestor'
    BY DEF NothingAsked, LeastAncestor
  <1>. QED
    BY <1>5, <1>7, <1>8, <1>9 DEF IInv

\* An edge that is stored and that the lineage has refused, and caches that
\* are dropped, change nothing of what the lineage and the caches say.
LEMMA RefuseParentInv ==
    ASSUME IInv, NEW s \in open, InvalidateCaches(s), stored' \subseteq Type \X Type,
           UNCHANGED <<parents, generation, open, loading>>, NothingAsked
    PROVE  IInv'
  <1>1. s \in Session
    BY DEF IInv, TypeOK
  <1>2. TypeOK'
    <2>1. \A t \in Session \ open : parents'[t] = NoParents /\ cache'[t] = NoCache
      BY <1>1, InvalidateCachesKnown DEF IInv, TypeOK
    <2>. QED
      BY <1>1, <2>1, InvalidateCachesKnown DEF IInv, TypeOK, Idle
  <1>3. Acyclic'
    BY DEF IInv, Acyclic, Idle
  <1>4. CachesKnown'
    <2>1. ASSUME NEW r \in Session
          PROVE  Known(cache'[r], parents'[r], generation'[r])
      <3>1. PICK h \in Hierarchy, g \in Nat \ {0} : h = parents[r] /\ g = generation[r]
        BY DEF IInv, TypeOK, Hierarchy
      <3>2. Known(cache[r], h, g) /\ Known(NoCache, h, g)
        BY <3>1, NoCacheKnown DEF IInv, CachesKnown
      <3>. QED
        BY <1>1, <3>1, <3>2, InvalidateCachesKnown
    <2>. QED
      BY <2>1 DEF CachesKnown
  <1>5. LeastAncestor'
    BY DEF NothingAsked, LeastAncestor
  <1>. QED
    BY <1>2, <1>3, <1>4, <1>5 DEF IInv

\* A declared parent is taken before it is stored.
LEMMA DeclareParentInv ==
    ASSUME IInv, NEW s \in Session, NEW child \in Type, NEW parent \in Type,
           DeclareParent(s, child, parent)
    PROVE  IInv'
  <1>1. InvalidateCaches(s)
    BY DEF DeclareParent, InvalidateCaches
  <1>. QED
    BY <1>1, AcceptParentInv DEF DeclareParent

\* The parent of a fact is stored before it is taken or refused.
LEMMA PublishFactInv ==
    ASSUME IInv, NEW s \in Session, NEW child \in Type, NEW parent \in Type,
           PublishFact(s, child, parent)
    PROVE  IInv'
  <1>1. /\ Loads(s) /\ stored' = stored \cup {<<child, parent>>}
        /\ UNCHANGED <<open, loading>> /\ NothingAsked
        /\ InvalidateCaches(s)
    BY DEF PublishFact, InvalidateCaches
  <1>2. CASE AcceptParent(s, child, parent)
    BY <1>1, <1>2, AcceptParentInv
  <1>3. CASE UNCHANGED <<parents, generation>>
    <2>1. s \in open /\ stored' \subseteq Type \X Type
      BY <1>1 DEF Loads, IInv, TypeOK
    <2>. QED
      BY <1>1, <1>3, <2>1, RefuseParentInv
  <1>. QED
    BY <1>2, <1>3 DEF PublishFact

\* The end of a batch drops the caches.
LEMMA EndBatchInv ==
    ASSUME IInv, NEW s \in Session, EndBatch(s)
    PROVE  IInv'
  <1>1. InvalidateCaches(s) /\ stored' \subseteq Type \X Type
    BY DEF EndBatch, InvalidateCaches, IInv, TypeOK
  <1>. QED
    BY <1>1, RefuseParentInv DEF EndBatch

\* So does an edge that is learnt.
LEMMA LearnParentInv ==
    ASSUME IInv, NEW s \in Session, NEW child \in Type, NEW parent \in Type,
           LearnParent(s, child, parent)
    PROVE  IInv'
  <1>1. PICK h \in Hierarchy, g \in Nat \ {0} : h = parents[s] /\ g = generation[s]
    BY DEF IInv, TypeOK, Hierarchy
  <1>2. PICK k \in Hierarchy : k = WithParent(h, child, parent)
    BY WithParentTyped
  <1>3. /\ parents' = [parents EXCEPT ![s] = k]
        /\ generation' = [generation EXCEPT ![s] = g + 1]
        /\ UNCHANGED <<cache, open, stored, loading>> /\ NothingAsked
        /\ s \in open
    BY <1>1, <1>2 DEF LearnParent
  <1>4. k \in [Type -> Seq(Type)] /\ g + 1 \in Nat \ {0}
    BY DEF Hierarchy
  <1>5. TypeOK'
    BY <1>3, <1>4 DEF IInv, TypeOK, Idle
  <1>6. ~Cyclic(k)
    BY <1>1, <1>2, WithParentAcyclic DEF LearnParent, IInv, Acyclic
  <1>7. Acyclic'
    BY <1>3, <1>6 DEF IInv, TypeOK, Acyclic, Idle
  <1>8. CachesKnown'
    <2>1. Known(cache[s], k, g + 1)
      BY <1>1, LaterKnown DEF IInv, CachesKnown
    <2>. QED
      BY <1>3, <2>1 DEF IInv, TypeOK, CachesKnown
  <1>9. LeastAncestor'
    BY <1>3 DEF NothingAsked, LeastAncestor
  <1>. QED
    BY <1>5, <1>7, <1>8, <1>9 DEF IInv

\* A database that is opened has no cycle, and its session nothing cached.
LEMMA OpenDatabaseInv ==
    ASSUME IInv, NEW s \in Session, OpenDatabase(s)
    PROVE  IInv'
  <1>1. PICK h \in Hierarchy : h = StoredLineage
    BY LineageOfEdges DEF IInv, TypeOK, StoredLineage
  <1>2. PICK g \in Nat \ {0} : g = 1 + Cardinality(stored)
    <2>1. IsFiniteSet(Type \X Type)
      BY TypeAssumption, FS_Product
    <2>2. Cardinality(stored) \in Nat
      BY <2>1, FS_Subset, FS_CardinalityType DEF IInv, TypeOK
    <2>. QED
      BY <2>2
  <1>3. /\ parents' = [parents EXCEPT ![s] = h]
        /\ generation' = [generation EXCEPT ![s] = g]
        /\ open' = open \cup {s}
        /\ UNCHANGED <<cache, stored, loading>> /\ NothingAsked
        /\ Idle /\ ~Cyclic(h) /\ s \notin open
    BY <1>1, <1>2 DEF OpenDatabase
  <1>4. TypeOK'
    BY <1>3 DEF IInv, TypeOK, Idle, Hierarchy
  <1>5. Acyclic'
    BY <1>3 DEF IInv, TypeOK, Acyclic, Idle
  <1>6. CachesKnown'
    <2>1. cache[s] = NoCache
      BY <1>3 DEF IInv, TypeOK
    <2>2. Known(cache[s], h, g)
      BY <2>1, NoCacheKnown
    <2>. QED
      BY <1>3, <2>2 DEF IInv, TypeOK, CachesKnown
  <1>7. LeastAncestor'
    BY <1>3 DEF NothingAsked, LeastAncestor
  <1>. QED
    BY <1>4, <1>5, <1>6, <1>7 DEF IInv

\* A session fills its caches from its lineage.
LEMMA FilledInv ==
    ASSUME TypeOK, Acyclic, CachesKnown, NEW s \in open, NEW c,
           IsCache(c), c.generation = generation[s], Current(c, parents[s]),
           cache' = [cache EXCEPT ![s] = c],
           UNCHANGED <<parents, generation, open, stored, loading>>
    PROVE  TypeOK' /\ Acyclic' /\ CachesKnown'
  <1>1. s \in Session /\ generation[s] \in Nat
    BY DEF TypeOK
  <1>2. TypeOK'
    BY <1>1 DEF TypeOK, Idle
  <1>3. Acyclic'
    BY DEF Acyclic, Idle
  <1>4. Known(c, parents[s], generation[s])
    BY <1>1 DEF Known
  <1>5. CachesKnown'
    BY <1>1, <1>4 DEF CachesKnown, TypeOK
  <1>. QED
    BY <1>2, <1>3, <1>5

\* A lookup fills a cache.
LEMMA FindAncestryInv ==
    ASSUME IInv, NEW s \in Session, NEW t, FindAncestry(s, t)
    PROVE  IInv'
  <1>1. PICK h \in Hierarchy, g \in Nat \ {0} : h = parents[s] /\ g = generation[s]
    BY DEF IInv, TypeOK, Hierarchy
  <1>2. PICK r : r = Refreshed(cache[s], g)
    OBVIOUS
  <1>3. IsCache(r) /\ r.generation = g /\ Current(r, h)
    BY <1>1, <1>2, RefreshedCurrent DEF IInv, CachesKnown
  <1>4. PICK c : c = WithAncestry(r, h, t)
    OBVIOUS
  <1>5. IsCache(c) /\ c.generation = g /\ Current(c, h)
    BY <1>3, <1>4, WithAncestryCurrent
  <1>6. /\ cache' = [cache EXCEPT ![s] = c]
        /\ UNCHANGED <<parents, generation, open, stored, loading>>
        /\ s \in open /\ NothingAsked
    BY <1>1, <1>2, <1>4 DEF FindAncestry
  <1>7. TypeOK' /\ Acyclic' /\ CachesKnown'
    BY <1>1, <1>5, <1>6, FilledInv DEF IInv
  <1>8. LeastAncestor'
    BY <1>6 DEF NothingAsked, LeastAncestor
  <1>. QED
    BY <1>7, <1>8 DEF IInv

\* An analysis fills caches and is judged by them.
LEMMA AnalyseInv ==
    ASSUME IInv, NEW s \in Session, NEW left, NEW right, Analyse(s, left, right)
    PROVE  IInv'
  <1>1. PICK h \in Hierarchy, g \in Nat \ {0} : h = parents[s] /\ g = generation[s]
    BY DEF IInv, TypeOK, Hierarchy
  <1>2. PICK r : r = Refreshed(cache[s], g)
    OBVIOUS
  <1>3. IsCache(r) /\ r.generation = g /\ Current(r, h)
    BY <1>1, <1>2, RefreshedCurrent DEF IInv, CachesKnown
  <1>4. PICK known : known = WithDistances(r, h, {left, right})
    OBVIOUS
  <1>5. IsCache(known) /\ known.generation = g /\ Current(known, h)
    BY <1>3, <1>4, WithDistancesCurrent
  <1>6. PICK common \in SUBSET Type : common = Common(known, left, right)
    BY DEF Common
  <1>7. PICK c : c = WithDepths(known, h, common)
    OBVIOUS
  <1>8. /\ IsCache(c) /\ c.generation = g /\ Current(c, h)
        /\ c.distances = known.distances
        /\ \A t \in common : c.depth[t] = Depth(h, t)
    BY <1>5, <1>7, WithDepthsCurrent
  <1>9. Common(c, left, right) = common
    BY <1>6, <1>8 DEF Common
  <1>10. /\ cache' = [cache EXCEPT ![s] = c]
         /\ UNCHANGED <<parents, generation, open, stored, loading>>
         /\ s \in open
    BY <1>1, <1>2, <1>4, <1>6, <1>7 DEF Analyse
  <1>11. PICK order \in Sorted(c, left, right) :
             analysis' = AncestorAnalysis(h, left, right, order)
    BY <1>1, <1>2, <1>4, <1>6, <1>7 DEF Analyse
  <1>12. TypeOK' /\ Acyclic' /\ CachesKnown'
    BY <1>1, <1>8, <1>10, FilledInv DEF IInv
  <1>13. ~Cyclic(h)
    BY <1>1 DEF IInv, Acyclic
  <1>14. Least(AncestorAnalysis(h, left, right, order))
    BY <1>8, <1>9, <1>13, AnalysisLeast
  <1>15. LeastAncestor'
    BY <1>11, <1>14 DEF LeastAncestor, Least
  <1>. QED
    BY <1>12, <1>15 DEF IInv

\* Nothing changes.
LEMMA StutterInv ==
    ASSUME IInv, UNCHANGED vars
    PROVE  IInv'
  BY DEF vars, IInv, TypeOK, Acyclic, CachesKnown, LeastAncestor, Idle

\* Every step.
LEMMA NextInv == IInv /\ [Next]_vars => IInv'
  <1> SUFFICES ASSUME IInv, [Next]_vars
               PROVE  IInv'
    OBVIOUS
  <1>1. \A e \in Declarable : e[1] \in Type /\ e[2] \in Type
    BY EdgeAssumption
  <1>2. CASE UNCHANGED vars
    BY <1>2, StutterInv
  <1>3. ASSUME NEW s \in Session,
               \/ BeginModule(s) \/ CommitModule(s) \/ RollbackModule(s)
               \/ Close(s) \/ OpenDatabase(s) \/ EndBatch(s)
        PROVE  IInv'
    BY <1>3, BeginModuleInv, CommitModuleInv, RollbackModuleInv, CloseInv,
       OpenDatabaseInv, EndBatchInv
  <1>4. ASSUME NEW s \in Session, NEW e \in Declarable,
               \/ DeclareParent(s, e[1], e[2]) \/ PublishFact(s, e[1], e[2])
               \/ LearnParent(s, e[1], e[2])
        PROVE  IInv'
    BY <1>1, <1>4, DeclareParentInv, PublishFactInv, LearnParentInv
  <1>5. ASSUME NEW s \in Session, NEW pair \in Asked,
               FindAncestry(s, pair[1]) \/ Analyse(s, pair[1], pair[2])
        PROVE  IInv'
    BY <1>5, FindAncestryInv, AnalyseInv
  <1>. QED
    BY <1>2, <1>3, <1>4, <1>5 DEF Next

------------------------------------------------------------------------------
(* One session declares *)

\* Bound on the sessions, not on the parents they declare: at most one session
\* loads modules that declare parents.
OneDeclarer == \A r, s \in Declaring : r = s

\* Stored edges that a session has make no cycle.
LEMMA StoredAcyclic ==
    ASSUME NEW edges \in SUBSET (Type \X Type), NEW h \in Hierarchy,
           edges \subseteq Edges(h), ~Cyclic(h)
    PROVE  ~Cyclic(LineageOf(edges))
  BY LineageOfEdges, FewerEdges

\* setParent adds an edge and takes none.
LEMMA WithParentEdges ==
    ASSUME NEW h \in Hierarchy, NEW c \in Type, NEW p \in Type
    PROVE  /\ Edges(h) \subseteq Edges(WithParent(h, c, p))
           /\ <<c, p>> \in Edges(WithParent(h, c, p))
  <1>1. PICK k \in Hierarchy : k = WithParent(h, c, p)
    BY WithParentTyped
  <1>2. \A t \in Type : ParentsOf(k, t) =
            IF t = c THEN ParentsOf(h, c) \cup {p} ELSE ParentsOf(h, t)
    BY <1>1, WithParentTyped
  <1>3. \A t \in Type : ParentsOf(h, t) \subseteq ParentsOf(k, t)
    BY <1>2
  <1>4. Edges(h) \subseteq Edges(k)
    BY <1>3 DEF Edges
  <1>5. p \in ParentsOf(k, c)
    BY <1>2
  <1>6. <<c, p>> \in Edges(k)
    BY <1>5 DEF Edges
  <1>. QED
    BY <1>1, <1>4, <1>6

\* The initial state, of the stored edges.
LEMMA InitStored == Init => DeclarerHasStored
  <1> SUFFICES ASSUME Init
               PROVE  DeclarerHasStored
    OBVIOUS
  <1>1. stored = {} /\ Idle
    BY DEF Init, Idle
  <1>2. ~Cyclic(LineageOf({}))
    BY NoParentsAcyclic, StoredAcyclic
  <1>. QED
    BY <1>1, <1>2 DEF DeclarerHasStored, StoredLineage

\* Every step, of the stored edges.
LEMMA NextStored ==
    ASSUME OneDeclarer, ~CaughtInLoad, IInv, IInv', DeclarerHasStored, [Next]_vars
    PROVE  DeclarerHasStored'
  <1>1. \A e \in Declarable : e[1] \in Type /\ e[2] \in Type
    BY EdgeAssumption
  <1>2. CASE UNCHANGED vars
    BY <1>2 DEF vars, DeclarerHasStored, StoredLineage, Idle
  <1>3. ASSUME NEW s \in Session, BeginModule(s)
        PROVE  DeclarerHasStored'
    <2>1. /\ loading'.by = s /\ loading'.parents = parents[s] /\ loading'.stored = stored
          /\ s \in open \cap Declaring /\ UNCHANGED <<parents, open, stored>>
      BY <1>3 DEF BeginModule
    <2>. QED
      BY <2>1 DEF DeclarerHasStored, StoredLineage
  <1>4. ASSUME NEW s \in Session, CommitModule(s)
        PROVE  DeclarerHasStored'
    BY <1>4 DEF CommitModule, DeclarerHasStored, StoredLineage, Idle
  <1>5. ASSUME NEW s \in Session, RollbackModule(s)
        PROVE  DeclarerHasStored'
    <2>1. PICK h \in Hierarchy, edges \in SUBSET (Type \X Type) :
              h = loading.parents /\ edges = loading.stored
      BY <1>5 DEF RollbackModule, Loads, IInv, TypeOK, Hierarchy
    <2>2. s \in Declaring /\ edges \subseteq Edges(h) /\ ~Cyclic(h)
      BY <1>5, <2>1 DEF RollbackModule, Loads, DeclarerHasStored, IInv, Acyclic
    <2>3. /\ parents' = [parents EXCEPT ![s] = h] /\ stored' = edges /\ open' = open
          /\ loading' = NotLoading
      BY <1>5, <2>1 DEF RollbackModule, Restored
    <2>4. ~Cyclic(LineageOf(edges))
      BY <2>2, StoredAcyclic
    <2>5. ASSUME NEW t \in open' \cap Declaring
          PROVE  stored' \subseteq Edges(parents'[t])
      <3>1. t = s
        BY <2>2 DEF OneDeclarer
      <3>2. parents'[s] = h
        BY <1>5, <2>3 DEF IInv, TypeOK
      <3>. QED
        BY <2>2, <2>3, <3>1, <3>2
    <2>. QED
      BY <2>3, <2>4, <2>5 DEF DeclarerHasStored, StoredLineage, Idle
  <1>6. ASSUME NEW s \in Session, Close(s)
        PROVE  DeclarerHasStored'
    <2>1. /\ open' = open \ {s} /\ UNCHANGED <<stored, loading>> /\ Idle
          /\ parents' = [parents EXCEPT ![s] = NoParents]
      BY <1>6 DEF Close
    <2>2. \A t \in open' : parents'[t] = parents[t]
      BY <2>1 DEF IInv, TypeOK
    <2>. QED
      BY <2>1, <2>2 DEF DeclarerHasStored, StoredLineage, Idle
  <1>7. ASSUME NEW s \in Session, OpenDatabase(s)
        PROVE  DeclarerHasStored'
    <2>1. /\ parents' = [parents EXCEPT ![s] = LineageOf(stored)]
          /\ open' = open \cup {s} /\ UNCHANGED <<stored, loading>> /\ Idle
      BY <1>7 DEF OpenDatabase, StoredLineage
    <2>2. Edges(LineageOf(stored)) = stored
      BY LineageOfEdges DEF IInv, TypeOK
    <2>3. ASSUME NEW t \in open' \cap Declaring
          PROVE  stored' \subseteq Edges(parents'[t])
      BY <2>1, <2>2 DEF DeclarerHasStored, IInv, TypeOK
    <2>. QED
      BY <2>1, <2>3 DEF DeclarerHasStored, StoredLineage, Idle
  <1>8. ASSUME NEW s \in Session, NEW child \in Type, NEW parent \in Type,
               DeclareParent(s, child, parent) \/ PublishFact(s, child, parent)
        PROVE  DeclarerHasStored'
    <2>0. /\ Loads(s) /\ AcceptParent(s, child, parent)
          /\ stored' = stored \cup {<<child, parent>>}
          /\ UNCHANGED <<open, loading>>
      BY <1>8 DEF DeclareParent, PublishFact
    <2>1. PICK h \in Hierarchy : h = parents[s]
      BY DEF IInv, TypeOK, Hierarchy
    <2>2. PICK k \in Hierarchy : k = WithParent(h, child, parent)
      BY WithParentTyped
    <2>3. s \in open \cap Declaring
      BY <2>0 DEF Loads, IInv, TypeOK, DeclarerHasStored
    <2>4. /\ parents' = [parents EXCEPT ![s] = k]
          /\ stored' = stored \cup {<<child, parent>>}
          /\ UNCHANGED <<open, loading>>
      BY <2>0, <2>1, <2>2 DEF AcceptParent
    <2>5. stored' \subseteq Edges(k)
      <3>1. stored \subseteq Edges(h)
        BY <2>1, <2>3 DEF DeclarerHasStored
      <3>2. Edges(h) \subseteq Edges(k) /\ <<child, parent>> \in Edges(k)
        BY <2>2, WithParentEdges
      <3>. QED
        BY <2>4, <3>1, <3>2
    <2>6. parents'[s] = k
      BY <2>4 DEF IInv, TypeOK
    <2>7. ~Cyclic(k)
      BY <2>6 DEF IInv, Acyclic
    <2>8. ~Cyclic(LineageOf(stored'))
      <3>1. stored' \in SUBSET (Type \X Type)
        BY DEF IInv, TypeOK
      <3>. QED
        BY <2>5, <2>7, <3>1, StoredAcyclic
    <2>9. \A t \in open' \cap Declaring : t = s
      BY <2>3 DEF OneDeclarer
    <2>. QED
      BY <2>4, <2>5, <2>6, <2>8, <2>9 DEF DeclarerHasStored, StoredLineage, Idle
  <1>9. ASSUME NEW s \in Session, NEW child \in Type, NEW parent \in Type,
               LearnParent(s, child, parent)
        PROVE  DeclarerHasStored'
    <2>1. PICK h \in Hierarchy : h = parents[s]
      BY DEF IInv, TypeOK, Hierarchy
    <2>2. PICK k \in Hierarchy : k = WithParent(h, child, parent)
      BY WithParentTyped
    <2>3. /\ parents' = [parents EXCEPT ![s] = k]
          /\ UNCHANGED <<open, stored, loading>>
      BY <1>9, <2>1, <2>2 DEF LearnParent
    <2>4. Edges(h) \subseteq Edges(k)
      BY <2>2, WithParentEdges
    <2>5. \A t \in Session : parents'[t] = IF t = s THEN k ELSE parents[t]
      BY <2>3 DEF IInv, TypeOK
    <2>6. ASSUME NEW t \in open' \cap Declaring
          PROVE  stored' \subseteq Edges(parents'[t])
      <3>1. t \in open \cap Declaring /\ t \in Session
        BY <2>3 DEF IInv, TypeOK
      <3>. QED
        BY <2>1, <2>3, <2>4, <2>5, <3>1 DEF DeclarerHasStored
    <2>. QED
      BY <2>3, <2>6 DEF DeclarerHasStored, StoredLineage, Idle
  <1>10. ASSUME NEW s \in Session, NEW left, NEW right,
                FindAncestry(s, left) \/ Analyse(s, left, right) \/ EndBatch(s)
         PROVE  DeclarerHasStored'
    BY <1>10 DEF FindAncestry, Analyse, EndBatch, DeclarerHasStored, StoredLineage, Idle
  <1>. QED
    BY <1>1, <1>2, <1>3, <1>4, <1>5, <1>6, <1>7, <1>8, <1>9, <1>10 DEF Next

------------------------------------------------------------------------------
(* Theorems *)

\* The invariant that carries the others: without acyclic lineages the
\* depths mean nothing, and without the bound on the generations of the
\* caches a step that changes a lineage could make an old cache current.
THEOREM Invariance == Spec => []IInv
  BY InitInv, NextInv, PTL DEF Spec

\* Every variable has its type, and a session without a database has no
\* lineage and nothing cached.
THEOREM TypeCorrect == Spec => []TypeOK
  <1>1. IInv => TypeOK
    BY DEF IInv
  <1>. QED
    BY <1>1, Invariance, PTL

\* No session ever has a cyclic lineage: neither the edges it declares
\* (TypeHierarchy::setParent), nor the ones it learns from facts, nor what it
\* reads when it opens a database, nor what a rollback restores.
THEOREM LineagesAcyclic == Spec => []Acyclic
  <1>1. IInv => Acyclic
    BY DEF IInv
  <1>. QED
    BY <1>1, Invariance, PTL

\* What a session has cached for its present generation is what it would
\* compute now (refreshAncestryCaches, rollbackModuleTransaction).
THEOREM CachesAreCurrent == Spec => []CachesCurrent
  <1>1. IInv => CachesCurrent
    BY DEF IInv, CachesKnown, Known, Current, CurrentAncestry, CurrentDistances,
           CurrentDepth, CachesCurrent
  <1>. QED
    BY <1>1, Invariance, PTL

\* An analysis that names one lowest common ancestor names one that has all
\* the others as ancestors, and lists a lowest one first
\* (evalAncestorAnalysis).
THEOREM AnalysesNameLeast == Spec => []LeastAncestor
  <1>1. IInv => LeastAncestor
    BY DEF IInv
  <1>. QED
    BY <1>1, Invariance, PTL

\* With one session that declares, and no load that catches an error, a
\* database can always be opened again: its edges make no cycle
\* (openDatabase).  With two sessions, or an error of a fact statement that is
\* caught, it is not so.
THEOREM OpensAgainHolds ==
    ASSUME OneDeclarer, ~CaughtInLoad
    PROVE  Spec => []OpensAgain
  <1>1. Init => IInv /\ DeclarerHasStored
    BY InitInv, InitStored
  <1>2. (IInv /\ DeclarerHasStored) /\ [Next]_vars => (IInv /\ DeclarerHasStored)'
    BY NextInv, NextStored
  <1>3. IInv /\ DeclarerHasStored => OpensAgain
    BY DEF DeclarerHasStored, OpensAgain
  <1>. QED
    BY <1>1, <1>2, <1>3, PTL DEF Spec
=============================================================================
