--------------------- MODULE ObjectTree_paths_proofs ---------------------
(***************************************************************************)
(* Theorems about the shape of the tree of ObjectTree, the paths in it and  *)
(* the cases that a run collects from it, again for any objects and trees.  *)
(*                                                                          *)
(* What is above an object, its path and what is collected from a suite are *)
(* recursive functions along the tree.  The induction theorems of the       *)
(* library take a predicate; here a set stands for one: a set of numbers    *)
(* (Induction), or of objects, of which some have no parent in it           *)
(* (UpWellFounded).                                                         *)
(*                                                                          *)
(* The notions are defined for any function p from objects to parents, so   *)
(* that what is proved of them serves for the tree before a step and after. *)
(***************************************************************************)
EXTENDS ObjectTree_proofs, Induction

-----------------------------------------------------------------------------
(* Among subsets of a finite set there is a minimal one. *)
LEMMA MinimalSubset ==
  ASSUME NEW S, IsFiniteSet(S), NEW F, F \subseteq SUBSET S, F # {}
  PROVE  \E A \in F : \A B \in F : B \subseteq A => B = A
<1>1. F \subseteq FiniteSubsetsOf(S)
  BY FS_FiniteSubsetsOfFinite
<1>2. IsWellFoundedOn(StrictSubsetOrdering(S), FiniteSubsetsOf(S))
  BY FS_StrictSubsetOrderingWellFounded
<1>3. PICK A \in F : \A B \in F : <<B, A>> \notin StrictSubsetOrdering(S)
  BY <1>1, <1>2, WFMin
<1>4. ASSUME NEW B \in F, B \subseteq A, B # A
      PROVE  FALSE
  <2>1. <<B, A>> \in StrictSubsetOrdering(S)
    BY <1>4 DEF StrictSubsetOrdering
  <2> QED
    BY <1>3, <2>1
<1> QED
  BY <1>4

-----------------------------------------------------------------------------
(* The objects above one.  What is proved of any parent pointers holds of   *)
(* those before a step and after it.                                        *)
Kin == [Objects -> Suites \cup {None}]

Grow(p, T) == T \cup ({p[x] : x \in T} \ {None})

Up(p, o) ==
  LET up[n \in Nat] ==
        IF n = 0 THEN {o}
        ELSE LET lower == up[n-1]
             IN  lower \cup ({p[x] : x \in lower} \ {None})
  IN  up[Cardinality(Objects)]

LEMMA AboveIsUp == \A o : Above(o) = Up(parent, o) /\ Above(o)' = Up(parent', o)
BY DEF Above, Up

(* No parent of a member of S is outside it. *)
Closed(p, S) == \A x \in S : p[x] \in S \cup {None}

(* The objects above o are the least closed set that o is in. *)
LEMMA UpLeast ==
  ASSUME NEW p \in Kin, NEW o \in Objects
  PROVE  /\ o \in Up(p, o) /\ Up(p, o) \subseteq Objects /\ Closed(p, Up(p, o))
         /\ \A S : o \in S /\ Closed(p, S) => Up(p, o) \subseteq S
<1> DEFINE up == CHOOSE u : u = [n \in Nat |-> IF n = 0 THEN {o} ELSE Grow(p, u[n-1])]
           last == Cardinality(Objects)
<1>1. Up(p, o) = up[last]
  BY DEF Up, Grow
<1>2. IsFiniteSet(Objects) /\ last \in Nat /\ Suites \subseteq Objects /\ None \notin Objects
  BY ObjectAssumption, FS_CardinalityType DEF Objects
<1>3. \A T \in SUBSET Objects : Grow(p, T) \in SUBSET Objects
  BY <1>2 DEF Grow, Kin
<1>4. up = [n \in Nat |-> IF n = 0 THEN {o} ELSE Grow(p, up[n-1])]
  <2> DEFINE grow == [n \in Nat |-> [T \in SUBSET Objects |-> Grow(p, T)]]
  <2>1. grow \in [Nat -> [SUBSET Objects -> SUBSET Objects]] /\ {o} \in SUBSET Objects
    BY <1>3
  <2>2. PICK f \in [Nat -> SUBSET Objects] :
          f[0] = {o} /\ \A n \in Nat : f[n+1] = grow[n+1][f[n]]
    <3> DEFINE S == SUBSET Objects
               base == {o}
    <3>1. Iterable(S, base, grow)
      BY <2>1 DEF Iterable
    <3> HIDE DEF grow, S, base
    <3>2. \E f \in [Nat -> S] : f[0] = base /\ \A n \in Nat : f[n+1] = grow[n+1][f[n]]
      BY <3>1, Iteration DEF Iterates
    <3> QED
      BY <3>2 DEF S, base
  <2>3. \A n \in Nat : n # 0 => f[n] = Grow(p, f[n-1])
    <3> SUFFICES ASSUME NEW n \in Nat, n # 0
                 PROVE  f[n] = Grow(p, f[n-1])
      OBVIOUS
    <3>1. n - 1 \in Nat /\ (n - 1) + 1 = n
      OBVIOUS
    <3>2. f[(n-1)+1] = grow[(n-1)+1][f[n-1]]
      BY <2>2, <3>1
    <3> QED
      BY <3>1, <3>2
  <2>4. f = [n \in Nat |-> IF n = 0 THEN {o} ELSE Grow(p, f[n-1])]
    <3> HIDE DEF grow
    <3> QED
      BY <2>2, <2>3
  <2> QED
    BY <2>4
<1> HIDE DEF up, last
<1>5. up[0] = {o} /\ \A n \in Nat : up[n+1] = Grow(p, up[n])
  <2>1. \A n \in Nat : up[n] = IF n = 0 THEN {o} ELSE Grow(p, up[n-1])
    BY <1>4
  <2>2. \A n \in Nat : n + 1 \in Nat /\ n + 1 # 0 /\ (n + 1) - 1 = n
    OBVIOUS
  <2>3. \A n \in Nat : up[n+1] = Grow(p, up[(n+1)-1])
    BY <2>1, <2>2
  <2> QED
    BY <2>1, <2>2, <2>3
<1>6. \A n \in Nat : up[n] \in SUBSET Objects
  <2> DEFINE Typed == {n \in Nat : up[n] \in SUBSET Objects}
  <2>1. 0 \in Typed
    BY <1>5
  <2>2. \A n \in Nat : n \in Typed => n + 1 \in Typed
    BY <1>3, <1>5
  <2>3. Nat \subseteq Typed
    <3> HIDE DEF Typed
    <3> QED
      BY <2>1, <2>2, SetInduction
  <2> QED
    BY <2>3
<1>7. \A n \in Nat : /\ IsFiniteSet(up[n]) /\ Cardinality(up[n]) \in Nat
                     /\ Cardinality(up[n]) <= last
  BY <1>2, <1>6, FS_Subset, FS_CardinalityType DEF last
<1>8. \E k \in Nat : k <= last /\ up[k+1] = up[k]
  <2> SUFFICES ASSUME \A k \in Nat : k <= last => up[k+1] # up[k]
               PROVE  FALSE
    OBVIOUS
  <2> DEFINE Large == {n \in Nat : n <= last => Cardinality(up[n]) > n}
  <2>1. 0 \in Large
    <3>1. Cardinality(up[0]) = 1
      BY <1>5, FS_Singleton
    <3> QED
      BY <3>1
  <2>2. ASSUME NEW n \in Nat, n \in Large
        PROVE  n + 1 \in Large
    <3> SUFFICES ASSUME n + 1 <= last
                 PROVE  Cardinality(up[n+1]) > n + 1
      OBVIOUS
    <3>1. n <= last /\ up[n+1] # up[n] /\ Cardinality(up[n]) > n /\ n + 1 \in Nat
      BY <1>2, <2>2
    <3>2. up[n] \subseteq up[n+1]
      BY <1>5 DEF Grow
    <3>3. Cardinality(up[n]) < Cardinality(up[n+1])
      BY <1>7, <3>1, <3>2, FS_Subset
    <3> QED
      BY <1>7, <3>1, <3>3
  <2>3. Nat \subseteq Large
    <3> HIDE DEF Large
    <3> QED
      BY <2>1, <2>2, SetInduction
  <2>4. Cardinality(up[last]) > last
    BY <1>2, <2>3
  <2> QED
    BY <1>2, <1>7, <2>4
<1>9. PICK k \in Nat : k <= last /\ up[k+1] = up[k]
  BY <1>8
<1>10. up[last] = up[k]
  <2> DEFINE Stays == {n \in Nat : up[k+n] = up[k]}
  <2>1. 0 \in Stays
    OBVIOUS
  <2>2. ASSUME NEW n \in Nat, n \in Stays
        PROVE  n + 1 \in Stays
    <3>1. k + n \in Nat /\ k + (n + 1) = (k + n) + 1
      OBVIOUS
    <3>2. up[k+n+1] = Grow(p, up[k]) /\ up[k+1] = Grow(p, up[k])
      BY <1>5, <2>2, <3>1
    <3> QED
      BY <1>9, <3>1, <3>2
  <2>3. Nat \subseteq Stays
    <3> HIDE DEF Stays
    <3> QED
      BY <2>1, <2>2, SetInduction
  <2>4. last - k \in Nat /\ k + (last - k) = last
    BY <1>2, <1>9
  <2> QED
    BY <2>3, <2>4
<1>11. Grow(p, up[last]) = up[last]
  BY <1>5, <1>9, <1>10
<1>12. Closed(p, up[last])
  BY <1>11 DEF Closed, Grow
<1>13. \A n \in Nat : o \in up[n]
  <2> DEFINE In0 == {n \in Nat : o \in up[n]}
  <2>1. 0 \in In0
    BY <1>5
  <2>2. \A n \in Nat : n \in In0 => n + 1 \in In0
    BY <1>5 DEF Grow
  <2>3. Nat \subseteq In0
    <3> HIDE DEF In0
    <3> QED
      BY <2>1, <2>2, SetInduction
  <2> QED
    BY <2>3
<1>14. ASSUME NEW S, o \in S, Closed(p, S)
       PROVE  up[last] \subseteq S
  <2> DEFINE Within == {n \in Nat : up[n] \subseteq S}
  <2>1. 0 \in Within
    BY <1>5, <1>14
  <2>2. \A n \in Nat : n \in Within => n + 1 \in Within
    BY <1>5, <1>14 DEF Grow, Closed
  <2>3. Nat \subseteq Within
    <3> HIDE DEF Within
    <3> QED
      BY <2>1, <2>2, SetInduction
  <2> QED
    BY <1>2, <2>3
<1> QED
  BY <1>1, <1>2, <1>6, <1>12, <1>13, <1>14
LEMMA UpUnfold ==
  ASSUME NEW p \in Kin, NEW o \in Objects
  PROVE  /\ p[o] = None => Up(p, o) = {o}
         /\ p[o] # None => p[o] \in Objects /\ Up(p, o) = {o} \cup Up(p, p[o])
<1>1. CASE p[o] = None
  <2>1. Closed(p, {o})
    BY <1>1 DEF Closed
  <2> QED
    BY <1>1, <2>1, UpLeast
<1>2. CASE p[o] # None
  <2>1. p[o] \in Objects
    BY <1>2 DEF Kin, Objects
  <2>2. p[o] \in Up(p, o)
    BY <1>2, UpLeast DEF Closed
  <2>3. Up(p, p[o]) \subseteq Up(p, o)
    BY <2>1, <2>2, UpLeast
  <2>4. Closed(p, {o} \cup Up(p, p[o]))
    BY <2>1, UpLeast DEF Closed
  <2>5. Up(p, o) \subseteq {o} \cup Up(p, p[o])
    BY <2>4, UpLeast
  <2> QED
    BY <1>2, <2>1, <2>3, <2>5, UpLeast
<1> QED
  BY <1>1, <1>2

LEMMA UpWithin ==
  ASSUME NEW p \in Kin, NEW o \in Objects, NEW x \in Up(p, o)
  PROVE  x \in Objects /\ Up(p, x) \subseteq Up(p, o)
BY UpLeast

(* Of two objects above o one is above the other. *)
LEMMA UpLinear ==
  ASSUME NEW p \in Kin, NEW o \in Objects, NEW x \in Up(p, o), NEW y \in Up(p, o)
  PROVE  x \in Up(p, y) \/ y \in Up(p, x)
<1> DEFINE S == {z \in Up(p, o) : z \in Up(p, y) \/ y \in Up(p, z)}
<1>1. o \in S
  BY UpLeast
<1>2. y \in Objects /\ Up(p, o) \subseteq Objects
  BY UpLeast
<1>3. ASSUME NEW z \in S, p[z] # None
      PROVE  p[z] \in S
  <2>1. z \in Objects /\ p[z] \in Up(p, o)
    BY <1>2, <1>3, UpLeast DEF Closed
  <2>2. CASE z \in Up(p, y)
    <3>1. p[z] \in Up(p, y)
      BY <1>2, <1>3, <2>2, UpLeast DEF Closed
    <3> QED
      BY <2>1, <3>1
  <2>3. CASE z \notin Up(p, y)
    <3>1. y \in Up(p, z) /\ y # z
      BY <1>2, <2>3, UpLeast
    <3>2. y \in Up(p, p[z])
      BY <1>3, <2>1, <3>1, UpUnfold
    <3> QED
      BY <2>1, <3>2
  <2> QED
    BY <2>2, <2>3
<1>4. Closed(p, S)
  BY <1>3 DEF Closed
<1>5. Up(p, o) \subseteq S
  <2> HIDE DEF S
  <2> QED
    BY <1>1, <1>4, UpLeast
<1> QED
  BY <1>5

(* Whatever is above o, and is not o, is the parent of something there. *)
LEMMA UpBelow ==
  ASSUME NEW p \in Kin, NEW o \in Objects, NEW x \in Up(p, o), x # o
  PROVE  \E y \in Up(p, o) : p[y] = x
<1> SUFFICES ASSUME \A y \in Up(p, o) : p[y] # x
             PROVE  FALSE
  OBVIOUS
<1>1. Closed(p, Up(p, o) \ {x})
  BY UpLeast DEF Closed
<1>2. o \in Up(p, o) \ {x}
  BY UpLeast
<1> QED
  BY <1>1, <1>2, UpLeast

(* Other pointers give the same line, or a part of it. *)
LEMMA UpSame ==
  ASSUME NEW p \in Kin, NEW q \in Kin, NEW o \in Objects, \A x \in Up(p, o) : q[x] = p[x]
  PROVE  Up(q, o) = Up(p, o)
<1>1. Closed(q, Up(p, o))
  BY UpLeast DEF Closed
<1>2. Up(q, o) \subseteq Up(p, o)
  BY <1>1, UpLeast
<1>3. Closed(p, Up(q, o))
  BY <1>2, UpLeast DEF Closed
<1>4. Up(p, o) \subseteq Up(q, o)
  BY <1>3, UpLeast
<1> QED
  BY <1>2, <1>4

LEMMA UpLess ==
  ASSUME NEW p \in Kin, NEW q \in Kin, NEW o \in Objects,
         \A x \in Objects : q[x] \in {p[x], None}
  PROVE  Up(q, o) \subseteq Up(p, o)
<1>1. Closed(q, Up(p, o))
  BY UpLeast DEF Closed
<1> QED
  BY <1>1, UpLeast

-----------------------------------------------------------------------------
(* Lines without cycles.                                                    *)
Loop(p, o) == p[o] # None /\ o \in Up(p, p[o])

LEMMA OnCycleIsLoop ==
  \A o : (OnCycle(o) <=> Loop(parent, o)) /\ (OnCycle(o)' <=> Loop(parent', o))
BY AboveIsUp DEF OnCycle, Loop

LEMMA LoopBelow ==
  ASSUME NEW p \in Kin, NEW o \in Objects, Loop(p, o)
  PROVE  \E y \in Up(p, o) : p[y] = o
<1>1. p[o] \in Objects /\ o \in Up(p, p[o]) /\ Up(p, o) = {o} \cup Up(p, p[o])
  BY UpUnfold DEF Loop
<1>2. CASE p[o] = o
  BY <1>2, UpLeast
<1>3. CASE p[o] # o
  <2>1. \E y \in Up(p, p[o]) : p[y] = o
    BY <1>1, <1>3, UpBelow
  <2> QED
    BY <1>1, <2>1
<1> QED
  BY <1>2, <1>3

(* Two objects that are above each other are the same, or on a cycle. *)
LEMMA UpOrder ==
  ASSUME NEW p \in Kin, NEW x \in Objects, NEW y \in Objects,
         x \in Up(p, y), y \in Up(p, x), x # y
  PROVE  Loop(p, x) /\ Loop(p, y)
<1>1. ASSUME NEW a \in Objects, NEW b \in Objects, a \in Up(p, b), b \in Up(p, a), a # b
      PROVE  Loop(p, a)
  <2>1. p[a] # None /\ p[a] \in Objects /\ b \in Up(p, p[a])
    BY <1>1, UpUnfold
  <2>2. a \in Up(p, p[a])
    BY <1>1, <2>1, UpWithin
  <2> QED
    BY <2>1, <2>2 DEF Loop
<1> QED
  BY <1>1

(* Without a cycle, some member of any set of objects has its parent        *)
(* outside, if it has one.                                                  *)
LEMMA UpWellFounded ==
  ASSUME NEW p \in Kin, NEW S, S \subseteq Objects, \A x \in S : ~Loop(p, x),
         NEW T, T \subseteq S, T # {}
  PROVE  \E x \in T : p[x] \notin T
<1> SUFFICES ASSUME \A x \in T : p[x] \in T
             PROVE  FALSE
  OBVIOUS
<1> DEFINE lines == {Up(p, x) : x \in T}
<1>1. IsFiniteSet(Objects) /\ T \subseteq Objects /\ None \notin Objects
  BY ObjectAssumption
<1>2. lines \subseteq SUBSET Objects /\ lines # {}
  BY <1>1, UpLeast
<1>3. PICK L \in lines : \A B \in lines : B \subseteq L => B = L
  <2> HIDE DEF lines
  <2> QED
    BY <1>1, <1>2, MinimalSubset
<1>4. PICK x \in T : L = Up(p, x)
  BY <1>3
<1>5. p[x] \in T /\ p[x] # None /\ x \in Objects /\ p[x] \in Objects
  BY <1>1, <1>4
<1>6. Up(p, p[x]) \subseteq Up(p, x)
  BY <1>5, UpUnfold
<1>7. Up(p, p[x]) = Up(p, x)
  BY <1>3, <1>4, <1>5, <1>6
<1>8. x \in Up(p, p[x])
  BY <1>5, <1>7, UpLeast
<1> QED
  BY <1>5, <1>8 DEF Loop

-----------------------------------------------------------------------------
(* Paths, from the root down.                                               *)

(* f is what is built from the parent pointers p, the names n and the paths *)
(* b that are there already.                                                *)
Climbing(p, n, b, S, f) ==
  \A x \in S :
    f[x] = IF b[x] # <<>> THEN b[x]
           ELSE Append(IF p[x] = None THEN <<>> ELSE f[p[x]], n[x])

LEMMA Climb ==
  ASSUME NEW p \in Kin, NEW n \in [Objects -> Names], NEW b \in [Objects -> Seq(Names)],
         NEW S, S \subseteq Objects, Closed(p, S), \A x \in S : ~Loop(p, x)
  PROVE  \E f \in [S -> Seq(Names)] : Climbing(p, n, b, S, f)
<1> DEFINE done == {A \in SUBSET S : /\ Closed(p, A)
                                     /\ \E f \in [A -> Seq(Names)] : Climbing(p, n, b, A, f)}
           rest == {S \ A : A \in done}
<1>1. IsFiniteSet(S) /\ None \notin Objects
  BY ObjectAssumption, FS_Subset
<1>2. {} \in done
  <2>1. Closed(p, {}) /\ Climbing(p, n, b, {}, <<>>)
    BY DEF Closed, Climbing
  <2>2. \E f \in [{} -> Seq(Names)] : TRUE
    <3>1. [x \in {} |-> <<>>] \in [{} -> Seq(Names)]
      OBVIOUS
    <3> QED
      BY <3>1
  <2> QED
    BY <2>1, <2>2 DEF Climbing
<1>3. PICK T \in rest : \A B \in rest : B \subseteq T => B = T
  <2>1. rest \subseteq SUBSET S /\ S \ {} \in rest
    <3> HIDE DEF done
    <3> QED
      BY <1>2
  <2> HIDE DEF rest
  <2> QED
    BY <1>1, <2>1, MinimalSubset
<1>4. PICK A \in done : T = S \ A
  BY <1>3
<1>5. A \subseteq S /\ Closed(p, A)
  BY <1>4
<1>6. PICK f \in [A -> Seq(Names)] : Climbing(p, n, b, A, f)
  BY <1>4
<1>7. CASE T = {}
  <2>1. A = S
    BY <1>4, <1>5, <1>7
  <2> QED
    BY <1>6, <2>1
<1>8. CASE T # {}
  <2>1. PICK x \in T : p[x] \notin T
    <3>1. T \subseteq S
      BY <1>4
    <3> HIDE DEF rest, done
    <3> QED
      BY <1>8, <3>1, UpWellFounded
  <2>2. x \in S /\ x \notin A /\ x \in Objects /\ p[x] \in A \cup {None}
    BY <1>4, <2>1 DEF Closed
  <2> DEFINE above == IF p[x] = None THEN <<>> ELSE f[p[x]]
             own == IF b[x] # <<>> THEN b[x] ELSE Append(above, n[x])
             g == [y \in A \cup {x} |-> IF y = x THEN own ELSE f[y]]
  <2>3. own \in Seq(Names)
    <3>1. b[x] \in Seq(Names) /\ n[x] \in Names /\ above \in Seq(Names)
      BY <2>2
    <3> HIDE DEF above
    <3>2. Append(above, n[x]) \in Seq(Names)
      BY <3>1, AppendProperties
    <3> QED
      BY <3>1, <3>2
  <2>4. g \in [A \cup {x} -> Seq(Names)]
    <3> HIDE DEF own
    <3> QED
      BY <2>3
  <2>5. Climbing(p, n, b, A \cup {x}, g)
    <3> SUFFICES ASSUME NEW y \in A \cup {x}
                 PROVE  g[y] = IF b[y] # <<>> THEN b[y]
                               ELSE Append(IF p[y] = None THEN <<>> ELSE g[p[y]], n[y])
      BY DEF Climbing
    <3>1. p[y] \in A \cup {None} /\ x \notin A
      BY <1>5, <2>2 DEF Closed
    <3>2. p[y] # None => g[p[y]] = f[p[y]]
      BY <3>1
    <3>3. CASE y = x
      BY <3>2, <3>3
    <3>4. CASE y # x
      BY <1>6, <3>2, <3>4 DEF Climbing
    <3> QED
      BY <3>3, <3>4
  <2>6. Closed(p, A \cup {x})
    BY <1>5, <2>2 DEF Closed
  <2>7. A \cup {x} \in done
    <3> HIDE DEF g
    <3> QED
      BY <1>5, <2>2, <2>4, <2>5, <2>6
  <2>8. S \ (A \cup {x}) \in rest
    <3> HIDE DEF done
    <3> QED
      BY <2>7
  <2>9. S \ (A \cup {x}) \subseteq T /\ S \ (A \cup {x}) # T
    BY <1>4, <2>1, <2>2
  <2> QED
    BY <1>3, <2>8, <2>9
<1> QED
  BY <1>7, <1>8

(* There is one such function. *)
LEMMA ClimbSame ==
  ASSUME NEW p \in Kin, NEW n, NEW b, NEW S, S \subseteq Objects, Closed(p, S),
         \A x \in S : ~Loop(p, x),
         NEW f, NEW g, Climbing(p, n, b, S, f), Climbing(p, n, b, S, g)
  PROVE  \A x \in S : f[x] = g[x]
<1> DEFINE T == {x \in S : f[x] # g[x]}
<1> SUFFICES ASSUME T # {}
             PROVE  FALSE
  OBVIOUS
<1>1. PICK x \in T : p[x] \notin T
  <2>1. T \subseteq S
    OBVIOUS
  <2> HIDE DEF T
  <2> QED
    BY <2>1, UpWellFounded
<1>2. p[x] # None => f[p[x]] = g[p[x]]
  BY <1>1 DEF Closed
<1> QED
  BY <1>1, <1>2 DEF Climbing

(* The two functions of the model are such functions. *)
Climbed(p, n, b, o) ==
  LET whole[x \in Up(p, o)] ==
        IF b[x] # <<>> THEN b[x]
        ELSE Append(IF p[x] = None THEN <<>> ELSE whole[p[x]], n[x])
  IN  whole

Whole(p, n, o) ==
  LET whole[x \in Up(p, o)] ==
        Append(IF p[x] = None THEN <<>> ELSE whole[p[x]], n[x])
  IN  whole[o]

LEMMA BuiltIsClimbed ==
  \A o : /\ Built(o) = Climbed(parent, name, path, o)
         /\ PathNow(o) = Whole(parent, name, o)
         /\ PathNow(o)' = Whole(parent', name', o)
BY AboveIsUp DEF Built, PathNow, Climbed, Whole

LEMMA ClimbedClimbs ==
  ASSUME NEW p \in Kin, NEW n \in [Objects -> Names], NEW b \in [Objects -> Seq(Names)],
         NEW o \in Objects, \A x \in Up(p, o) : ~Loop(p, x)
  PROVE  /\ Climbed(p, n, b, o) \in [Up(p, o) -> Seq(Names)]
         /\ Climbing(p, n, b, Up(p, o), Climbed(p, n, b, o))
<1> DEFINE S == Up(p, o)
           whole == CHOOSE w : w = [x \in S |->
                      IF b[x] # <<>> THEN b[x]
                      ELSE Append(IF p[x] = None THEN <<>> ELSE w[p[x]], n[x])]
<1>1. Climbed(p, n, b, o) = whole
  BY DEF Climbed
<1>2. S \subseteq Objects /\ Closed(p, S)
  BY UpLeast
<1>3. PICK f \in [S -> Seq(Names)] : Climbing(p, n, b, S, f)
  <2> HIDE DEF S
  <2> QED
    BY <1>2, Climb DEF S
<1> HIDE DEF S
<1>4. f = [x \in S |-> IF b[x] # <<>> THEN b[x]
                       ELSE Append(IF p[x] = None THEN <<>> ELSE f[p[x]], n[x])]
  BY <1>3 DEF Climbing
<1>5. whole = [x \in S |-> IF b[x] # <<>> THEN b[x]
                           ELSE Append(IF p[x] = None THEN <<>> ELSE whole[p[x]], n[x])]
  BY <1>4
<1> HIDE DEF whole
<1>6. Climbing(p, n, b, S, whole)
  BY <1>5 DEF Climbing
<1>7. \A x \in S : f[x] = whole[x]
  <2>1. \A x \in S : ~Loop(p, x)
    BY DEF S
  <2> QED
    BY SMTT(60), <1>2, <1>3, <1>6, <2>1, ClimbSame
<1>8. whole \in [S -> Seq(Names)]
  BY <1>3, <1>5, <1>7
<1> QED
  BY <1>1, <1>6, <1>8 DEF S

(* From names alone. *)
Climbs(p, n, S, f) ==
  \A x \in S : f[x] = Append(IF p[x] = None THEN <<>> ELSE f[p[x]], n[x])

(* Whatever climbs from no path agrees with the path an object has now. *)
LEMMA WholeClimbs ==
  ASSUME NEW p \in Kin, NEW n \in [Objects -> Names], NEW o \in Objects,
         \A x \in Up(p, o) : ~Loop(p, x),
         NEW S, S \subseteq Objects, Closed(p, S), \A x \in S : ~Loop(p, x), o \in S,
         NEW f, Climbs(p, n, S, f)
  PROVE  f[o] = Whole(p, n, o)
<1> DEFINE U == Up(p, o)
           b == [x \in Objects |-> <<>>]
           whole == CHOOSE w : w = [x \in U |-> Append(IF p[x] = None THEN <<>> ELSE w[p[x]], n[x])]
<1>1. Whole(p, n, o) = whole[o]
  BY DEF Whole
<1>2. o \in U /\ U \subseteq Objects /\ Closed(p, U) /\ U \subseteq S
  BY UpLeast
<1>3. b \in [Objects -> Seq(Names)] /\ \A x \in Objects : b[x] = <<>>
  OBVIOUS
<1> HIDE DEF U, b
<1>4. PICK g \in [U -> Seq(Names)] : Climbing(p, n, b, U, g)
  BY <1>2, <1>3, Climb DEF U
<1>5. g = [x \in U |-> Append(IF p[x] = None THEN <<>> ELSE g[p[x]], n[x])]
  BY <1>2, <1>3, <1>4 DEF Climbing
<1>6. whole = [x \in U |-> Append(IF p[x] = None THEN <<>> ELSE whole[p[x]], n[x])]
  BY <1>5
<1> HIDE DEF whole
<1>7. Climbing(p, n, b, U, whole)
  BY <1>2, <1>3, <1>6 DEF Climbing
<1>8. Climbing(p, n, b, U, f)
  BY <1>2, <1>3 DEF Climbing, Climbs
<1>9. \A x \in U : f[x] = whole[x]
  BY <1>2, <1>7, <1>8, ClimbSame DEF U
<1> QED
  BY <1>1, <1>2, <1>9

(* Where no two objects with one parent share a name, no two with a root in *)
(* common share a path.                                                     *)
LEMMA WholeDistinct ==
  ASSUME NEW p \in Kin, NEW n \in [Objects -> Names],
         NEW S, S \subseteq Objects, Closed(p, S), \A x \in S : ~Loop(p, x),
         \A x, y \in S : p[x] # None /\ p[x] = p[y] /\ n[x] = n[y] => x = y,
         NEW o \in S, NEW x \in S, o # x, Up(p, o) \cap Up(p, x) # {}
  PROVE  Whole(p, n, o) # Whole(p, n, x)
<1> DEFINE b == [y \in Objects |-> <<>>]
<1>1. b \in [Objects -> Seq(Names)] /\ \A y \in Objects : b[y] = <<>>
  OBVIOUS
<1> HIDE DEF b
<1>2. PICK f \in [S -> Seq(Names)] : Climbing(p, n, b, S, f)
  BY <1>1, Climb
<1>3. Climbs(p, n, S, f)
  BY <1>1, <1>2 DEF Climbing, Climbs
<1>4. \A y \in S : f[y] = Whole(p, n, y)
  <2> SUFFICES ASSUME NEW y \in S
               PROVE  f[y] = Whole(p, n, y)
    OBVIOUS
  <2>1. y \in Objects /\ \A z \in Up(p, y) : ~Loop(p, z)
    BY UpLeast
  <2> QED
    BY <1>3, <2>1, WholeClimbs
<1> DEFINE T == {y \in S : \E z \in S : z # y /\ f[z] = f[y] /\ Up(p, y) \cap Up(p, z) # {}}
<1> SUFFICES ASSUME T # {}
             PROVE  FALSE
  BY <1>4
<1>5. PICK y \in T : p[y] \notin T
  <2>1. T \subseteq S
    OBVIOUS
  <2> HIDE DEF T
  <2> QED
    BY <2>1, UpWellFounded
<1>6. PICK z \in S : z # y /\ f[z] = f[y] /\ Up(p, y) \cap Up(p, z) # {}
  BY <1>5
<1> DEFINE above(w) == IF p[w] = None THEN <<>> ELSE f[p[w]]
<1>7. /\ y \in S /\ y \in Objects /\ z \in Objects
      /\ p[y] \in S \cup {None} /\ p[z] \in S \cup {None}
  BY <1>5, <1>6 DEF Closed
<1>8. n[y] \in Names /\ n[z] \in Names /\ above(y) \in Seq(Names) /\ above(z) \in Seq(Names)
  BY <1>7
<1>9. Append(above(y), n[y]) = Append(above(z), n[z])
  BY <1>3, <1>6, <1>7 DEF Climbs
<1>10. above(y) = above(z) /\ n[y] = n[z]
  <2> HIDE DEF above
  <2> QED
    BY <1>8, <1>9, AppendInjective
<1>11. \A w \in S : f[w] # <<>>
  <2> SUFFICES ASSUME NEW w \in S
               PROVE  f[w] # <<>>
    OBVIOUS
  <2>1. n[w] \in Names /\ above(w) \in Seq(Names)
    BY DEF Closed
  <2>2. f[w] = Append(above(w), n[w])
    BY <1>3 DEF Climbs
  <2> HIDE DEF above
  <2>3. \A q \in Seq(Names), e \in Names : Append(q, e) # <<>>
    BY AppendProperties
  <2> QED
    BY <2>1, <2>2, <2>3
<1>12. CASE p[y] = None
  <2>1. p[z] = None
    BY <1>7, <1>10, <1>11, <1>12
  <2>2. Up(p, y) = {y} /\ Up(p, z) = {z}
    BY <1>7, <1>12, <2>1, UpUnfold
  <2> QED
    BY <1>6, <2>2
<1>13. CASE p[y] # None
  <2>1. p[z] # None /\ f[p[y]] = f[p[z]] /\ p[y] \in S /\ p[z] \in S
    BY <1>7, <1>10, <1>11, <1>13
  <2>2. p[y] # p[z]
    BY <1>6, <1>7, <1>10, <2>1
  <2>3. /\ Up(p, y) = {y} \cup Up(p, p[y]) /\ p[y] \in Objects
        /\ Up(p, z) = {z} \cup Up(p, p[z]) /\ p[z] \in Objects
    BY <1>7, <1>13, <2>1, UpUnfold
  <2>4. PICK w : w \in Up(p, y) /\ w \in Up(p, z)
    BY <1>6
  <2>5. Up(p, p[y]) \cap Up(p, p[z]) # {}
    <3>1. CASE w = y
      <4>1. y \in Up(p, p[z])
        BY <1>6, <2>3, <2>4, <3>1
      <4>2. p[y] \in Up(p, p[z])
        BY <1>13, <2>3, <4>1, UpLeast DEF Closed
      <4> QED
        BY <2>3, <4>2, UpLeast
    <3>2. CASE w = z
      <4>1. z \in Up(p, p[y])
        BY <1>6, <2>3, <2>4, <3>2
      <4>2. p[z] \in Up(p, p[y])
        BY <2>1, <2>3, <4>1, UpLeast DEF Closed
      <4> QED
        BY <2>3, <4>2, UpLeast
    <3>3. CASE w # y /\ w # z
      BY <2>3, <2>4, <3>3
    <3> QED
      BY <3>1, <3>2, <3>3
  <2> QED
    BY <1>5, <2>1, <2>2, <2>5
<1> QED
  BY <1>12, <1>13

-----------------------------------------------------------------------------
(* The steps, as far as the tree and the paths in it are concerned.         *)
Steady == UNCHANGED <<state, name, treeVars, path, emission>>

Builds(o) ==
  /\ emission = <<>> /\ drops = <<>>
  /\ state[o] = "none"
  /\ state' = [state EXCEPT ![o] = "live"]
  /\ UNCHANGED <<name, treeVars, path, emission>>

Joins(s, o) == Add(s, o) /\ Accepts(s, o)
Frees == Drop /\ refs[Head(drops)] = 1

LEMMA EndIsSteady ==
  ASSUME NEW how, EndProcess(how)
  PROVE  Steady
BY DEF EndProcess, Steady, objectVars, callVars

LEMMA StepKinds ==
  ASSUME OInv, [Next]_vars
  PROVE  \/ Steady
         \/ \E o \in Objects : Builds(o)
         \/ \E s \in Suites, o \in Objects : Joins(s, o)
         \/ Frees
         \/ Propagate
         \/ EndEmission
         \/ \E o \in Objects : Read(o) /\ ~Strays(o)
         \/ BeginTest /\ ~Strays(tests[at])
<1>1. ASSUME NEW o \in Objects,
             New(o) \/ RefuseNew(o) \/ Ref(o) \/ RefSink(o) \/ Unref(o) \/ Read(o)
      PROVE  Steady \/ Builds(o) \/ (Read(o) /\ ~Strays(o))
  <2>1. CASE New(o)
    BY <2>1 DEF New, Construct, Calls, InCall, Builds, callVars
  <2>2. CASE RefuseNew(o)
    BY <2>2, EndIsSteady DEF RefuseNew
  <2>3. CASE Ref(o) \/ RefSink(o)
    BY <2>3 DEF Ref, RefSink, Sink, Steady, callVars
  <2>4. CASE Unref(o)
    BY <2>4 DEF Unref, Steady
  <2>5. CASE Read(o)
    BY <2>5, EndIsSteady DEF Read
  <2> QED
    BY <1>1, <2>1, <2>2, <2>3, <2>4, <2>5
<1>2. ASSUME ValueStep
      PROVE  Steady
  <2>1. PICK v \in Values :
          \/ \E o \in Shared : CollectValue(v, o)
          \/ \E w \in Values : CopyValue(v, w)
          \/ LcopyValue(v)
          \/ FreeValue(v)
    BY <1>2 DEF ValueStep
  <2>2. ASSUME NEW o, CollectValue(v, o)
        PROVE  Steady
    BY <2>2 DEF CollectValue, Steady, callVars
  <2>3. ASSUME NEW w, CopyValue(v, w)
        PROVE  Steady
    <3>1. CASE value[v] = None \/ value[w] = None
      BY <2>3, <3>1, EndIsSteady DEF CopyValue
    <3>2. CASE value[v] # None /\ value[w] # None
      BY <2>3, <3>2 DEF CopyValue, Steady
    <3> QED
      BY <3>1, <3>2
  <2>4. CASE LcopyValue(v)
    BY <2>4 DEF LcopyValue, Steady, callVars
  <2>5. CASE FreeValue(v)
    <3>1. CASE value[v] = None
      BY <2>5, <3>1, EndIsSteady DEF FreeValue
    <3>2. CASE value[v] # None
      BY <2>5, <3>2 DEF FreeValue, Steady, objectVars
    <3> QED
      BY <3>1, <3>2
  <2> QED
    BY <2>1, <2>2, <2>3, <2>4, <2>5
<1>3. ASSUME NEW c \in Cases, NEW o \in Shared, NewCase(c, o)
      PROVE  c \in Objects /\ Builds(c)
  BY <1>3 DEF NewCase, Construct, Calls, InCall, Builds, callVars, Objects
<1>4. ASSUME NEW s \in Suites, NEW o \in Objects, Add(s, o)
      PROVE  Steady \/ Joins(s, o)
  BY <1>4, EndIsSteady DEF Add, Joins
<1>5. ASSUME NEW s \in Suites, Run(s)
      PROVE  Steady
  <2>1. CASE hasRun
    BY <1>5, <2>1, EndIsSteady DEF Run
  <2>2. CASE ~hasRun
    BY <1>5, <2>2 DEF Run, Steady, callVars
  <2> QED
    BY <2>1, <2>2
<1>6. ASSUME Drop
      PROVE  Steady \/ Frees
  <2>1. CASE refs[Head(drops)] = 1
    BY <1>6, <2>1 DEF Frees
  <2>2. CASE refs[Head(drops)] # 1
    BY <1>6, <2>2 DEF Drop, Steady
  <2> QED
    BY <2>1, <2>2
<1>7. ASSUME BeginTest
      PROVE  Steady \/ ~Strays(tests[at])
  BY <1>7, EndIsSteady DEF BeginTest
<1>8. ASSUME NEW c \in Cases, EndBody(c)
      PROVE  Steady
  BY <1>8 DEF EndBody, Steady, objectVars
<1>9. ASSUME Report
      PROVE  Steady
  <2>1. CASE taken = "freed"
    BY <1>9, <2>1, EndIsSteady DEF Report
  <2>2. CASE taken # "freed"
    BY <1>9, <2>2 DEF Report, Steady, objectVars, callVars
  <2> QED
    BY <2>1, <2>2
<1>10. ASSUME EndRun
       PROVE  Steady
  BY <1>10 DEF EndRun, Steady, objectVars
<1>11. ASSUME UNCHANGED vars
       PROVE  Steady
  BY <1>11 DEF vars, Steady, objectVars, callVars
<1> QED
  BY <1>1, <1>2, <1>3, <1>4, <1>5, <1>6, <1>7, <1>8, <1>9, <1>10, <1>11
     DEF Next, ProgramStep, CallStep, RunStep, Stop

-----------------------------------------------------------------------------
(* A parent pointer is that of a live object, and leads to the suite that   *)
(* has it for a child, or to where there was one.                           *)
KinOK ==
  \A o \in Objects :
    parent[o] # None =>
      /\ Live(o)
      /\ state[parent[o]] # "none"
      /\ Live(parent[o]) => Child(o, parent[o])

(* Only a live suite has children. *)
ParentsLive == \A s \in Suites : children[s] # <<>> => Live(s)

LEMMA JoinFacts ==
  ASSUME OInv, NEW s \in Suites, NEW o \in Objects, Joins(s, o)
  PROVE  /\ proc = "running" /\ emission = <<>> /\ drops = <<>> /\ Live(s) /\ Live(o)
         /\ phase \in {"program", "body"} /\ parent[o] = None
         /\ parent' = [parent EXCEPT ![o] = s] /\ parent'[o] = s
         /\ path' = [path EXCEPT ![o] = <<>>]
         /\ emission' = <<Emitting(o)>>
         /\ UNCHANGED <<state, name, drops, runVars>>
         /\ children' = [children EXCEPT ![s] = Append(@, o)]
         /\ children'[s] = Append(children[s], o)
         /\ ToSet(children'[s]) = ToSet(children[s]) \cup {o}
         /\ \A t \in Suites : t # s => children'[t] = children[t]
<1>1. /\ proc = "running" /\ emission = <<>> /\ drops = <<>> /\ Live(s) /\ Live(o)
      /\ phase \in {"program", "body"} /\ parent[o] = None
      /\ parent' = [parent EXCEPT ![o] = s]
      /\ path' = [path EXCEPT ![o] = <<>>]
      /\ emission' = <<Emitting(o)>>
      /\ UNCHANGED <<state, name, drops, runVars>>
      /\ children' = [children EXCEPT ![s] = Append(@, o)]
  BY DEF Joins, Add, Accepts, Calls, InCall, DirtyPath
<1>2. /\ children \in [Suites -> Seq(Objects)] /\ children[s] \in Seq(Objects)
      /\ parent \in [Objects -> Suites \cup {None}]
  BY DEF OInv, RefTypes
<1>3. /\ children'[s] = Append(children[s], o)
      /\ \A t \in Suites : t # s => children'[t] = children[t]
      /\ parent'[o] = s
  BY <1>1, <1>2
<1>4. ToSet(Append(children[s], o)) = ToSet(children[s]) \cup {o}
  BY <1>2, ToSetAppend
<1> QED
  BY <1>1, <1>3, <1>4

LEMMA FreeFacts ==
  ASSUME OInv, NEW o, o = Head(drops), Frees
  PROVE  /\ proc = "running" /\ drops # <<>> /\ o \in Objects /\ Live(o) /\ root # o
         /\ \A s \in Suites : ~Child(o, s)
         /\ state' = [state EXCEPT ![o] = "freed"]
         /\ parent' = [parent EXCEPT ![o] = None] /\ parent'[o] = None
         /\ path' = [path EXCEPT ![o] = <<>>]
         /\ children' = [s \in Suites |-> IF s = o THEN <<>> ELSE children[s]]
         /\ UNCHANGED <<name, emission, runVars>>
<1>1. /\ proc = "running" /\ drops # <<>> /\ refs[o] = 1
      /\ state' = [state EXCEPT ![o] = "freed"]
      /\ parent' = [parent EXCEPT ![o] = None]
      /\ path' = [path EXCEPT ![o] = <<>>]
      /\ children' = [s \in Suites |-> IF s = o THEN <<>> ELSE children[s]]
      /\ UNCHANGED <<name, emission, runVars>>
  BY DEF Frees, Drop, Finalize
<1>2. o \in Objects /\ Live(o) /\ Count(o, drops) > 0
  BY <1>1, AboutToDrop
<1>3. root # o /\ \A s \in Suites : ~Child(o, s)
  BY <1>1, <1>2, LastOne
<1>4. parent'[o] = None
  BY <1>1, <1>2 DEF OInv, RefTypes
<1> QED
  BY <1>1, <1>2, <1>3, <1>4

LEMMA KinInit == Init => KinOK /\ ParentsLive
BY DEF Init, KinOK, ParentsLive

LEMMA KinStep ==
  ASSUME OInv, KinOK, ParentsLive, [Next]_vars
  PROVE  KinOK' /\ ParentsLive'
<1>1. /\ state \in [Objects -> {"none", "live", "freed"}]
      /\ parent \in [Objects -> Suites \cup {None}]
      /\ children \in [Suites -> Seq(Objects)]
      /\ Suites \subseteq Objects /\ None \notin Objects
  BY ObjectAssumption DEF OInv, RefTypes, Objects
<1>2. CASE UNCHANGED <<state, treeVars>>
  BY <1>2 DEF treeVars, KinOK, ParentsLive, Live, Child
<1>3. ASSUME NEW o \in Objects, Builds(o)
      PROVE  KinOK' /\ ParentsLive'
  <2>1. /\ state[o] = "none" /\ state' = [state EXCEPT ![o] = "live"]
        /\ UNCHANGED <<parent, children>>
    BY <1>3 DEF Builds, treeVars
  <2>2. \A x \in Objects : x # o => state'[x] = state[x]
    BY <1>1, <2>1
  <2>3. state'[o] = "live"
    BY <1>1, <2>1
  <2>4. KinOK'
    <3> SUFFICES ASSUME NEW x \in Objects, parent[x] # None
                 PROVE  /\ state'[x] = "live" /\ state'[parent[x]] # "none"
                        /\ state'[parent[x]] = "live" => Child(x, parent[x])
      BY <2>1 DEF KinOK, Child, Live
    <3>1. Live(x) /\ state[parent[x]] # "none" /\ (Live(parent[x]) => Child(x, parent[x]))
      BY DEF KinOK
    <3>2. x # o /\ parent[x] # o /\ parent[x] \in Objects
      BY <1>1, <2>1, <3>1 DEF Live
    <3> QED
      BY <2>2, <3>1, <3>2 DEF Live
  <2>5. ParentsLive'
    BY <1>1, <2>1, <2>2, <2>3 DEF ParentsLive, Live
  <2> QED
    BY <2>4, <2>5
<1>4. ASSUME NEW s \in Suites, NEW o \in Objects, Joins(s, o)
      PROVE  KinOK' /\ ParentsLive'
  <2>1. /\ Live(s) /\ Live(o) /\ parent[o] = None /\ state' = state
        /\ parent' = [parent EXCEPT ![o] = s] /\ parent'[o] = s
        /\ ToSet(children'[s]) = ToSet(children[s]) \cup {o}
        /\ \A t \in Suites : t # s => children'[t] = children[t]
    BY <1>4, JoinFacts
  <2>2. \A x \in Objects : x # o => parent'[x] = parent[x]
    BY <1>1, <2>1
  <2>3. \A x \in Objects, t \in Suites : Child(x, t) => Child(x, t)'
    BY <2>1 DEF Child
  <2>4. Child(o, s)'
    BY <2>1 DEF Child
  <2>5. KinOK'
    <3> SUFFICES ASSUME NEW x \in Objects, parent'[x] # None
                 PROVE  /\ Live(x) /\ state[parent'[x]] # "none"
                        /\ Live(parent'[x]) => x \in ToSet(children'[parent'[x]])
      BY <2>1 DEF KinOK, Live, Child
    <3>1. CASE x = o
      BY <2>1, <2>4, <3>1 DEF Live, Child
    <3>2. CASE x # o
      <4>1. parent'[x] = parent[x] /\ parent[x] \in Suites
        BY <1>1, <2>2, <3>2
      <4>2. Live(x) /\ state[parent[x]] # "none" /\ (Live(parent[x]) => Child(x, parent[x]))
        BY <4>1 DEF KinOK
      <4>3. Child(x, parent[x]) => x \in ToSet(children'[parent[x]])
        BY <2>3, <4>1 DEF Child
      <4> QED
        BY <4>1, <4>2, <4>3
    <3> QED
      BY <3>1, <3>2
  <2>6. ParentsLive'
    BY <2>1 DEF ParentsLive, Live
  <2> QED
    BY <2>5, <2>6
<1>5. CASE Frees
  <2> DEFINE o == Head(drops)
  <2>1. /\ o \in Objects /\ Live(o) /\ \A s \in Suites : ~Child(o, s)
        /\ state' = [state EXCEPT ![o] = "freed"]
        /\ parent' = [parent EXCEPT ![o] = None] /\ parent'[o] = None
        /\ children' = [s \in Suites |-> IF s = o THEN <<>> ELSE children[s]]
    BY <1>5, FreeFacts
  <2> HIDE DEF o
  <2>2. /\ state'[o] = "freed"
        /\ \A x \in Objects : x # o => state'[x] = state[x] /\ parent'[x] = parent[x]
        /\ \A t \in Suites : t # o => children'[t] = children[t]
        /\ \A t \in Suites : t = o => children'[t] = <<>>
    BY <1>1, <2>1
  <2>3. KinOK'
    <3> SUFFICES ASSUME NEW x \in Objects, parent'[x] # None
                 PROVE  /\ state'[x] = "live" /\ state'[parent'[x]] # "none"
                        /\ state'[parent'[x]] = "live" => x \in ToSet(children'[parent'[x]])
      BY DEF KinOK, Live, Child
    <3>1. x # o /\ parent'[x] = parent[x] /\ parent[x] \in Suites /\ parent[x] \in Objects
      BY <1>1, <2>1, <2>2
    <3>2. Live(x) /\ state[parent[x]] # "none" /\ (Live(parent[x]) => Child(x, parent[x]))
      BY <3>1 DEF KinOK
    <3>3. CASE parent[x] = o
      BY <2>2, <3>1, <3>2, <3>3 DEF Live
    <3>4. CASE parent[x] # o
      BY <2>2, <3>1, <3>2, <3>4 DEF Live, Child
    <3> QED
      BY <3>3, <3>4
  <2>4. ParentsLive'
    BY <1>1, <2>2 DEF ParentsLive, Live
  <2> QED
    BY <2>3, <2>4
<1>6. CASE Steady
  BY <1>2, <1>6 DEF Steady
<1>7. CASE Propagate \/ EndEmission
  BY <1>2, <1>7 DEF Propagate, EndEmission, objectVars
<1>8. ASSUME NEW o, Read(o), ~Strays(o)
      PROVE  UNCHANGED <<state, treeVars>>
  BY <1>8 DEF Read, objectVars
<1>9. CASE BeginTest /\ ~Strays(tests[at])
  BY <1>2, <1>9 DEF BeginTest, objectVars
<1> QED
  BY <1>2, <1>3, <1>4, <1>5, <1>6, <1>7, <1>8, <1>9, StepKinds

LEMMA KinInv == Spec => [](KinOK /\ ParentsLive)
<1>1. Init => KinOK /\ ParentsLive
  BY KinInit
<1>2. OInv /\ (KinOK /\ ParentsLive) /\ [Next]_vars => (KinOK /\ ParentsLive)'
  BY KinStep
<1> QED
  BY <1>1, <1>2, ObjectInv, PTL DEF Spec

NameOK == name \in [Objects -> Names]

LEMMA NameInv == Spec => []NameOK
<1>1. Init => NameOK
  BY DEF Init, NameOK
<1>2. ASSUME OInv, NameOK, [Next]_vars
      PROVE  NameOK'
  <2>1. ASSUME NEW s \in Suites, NEW o \in Objects, Joins(s, o)
        PROVE  name' = name
    BY <1>2, <2>1, JoinFacts
  <2>2. CASE Frees
    BY <1>2, <2>2, FreeFacts DEF NameOK
  <2>3. CASE Propagate \/ EndEmission
    BY <1>2, <2>3 DEF Propagate, EndEmission, objectVars, NameOK
  <2>4. ASSUME NEW o, Read(o), ~Strays(o)
        PROVE  name' = name
    BY <2>4 DEF Read, objectVars
  <2>5. CASE BeginTest /\ ~Strays(tests[at])
    BY <1>2, <2>5 DEF BeginTest, objectVars, NameOK
  <2> QED
    BY <1>2, <2>1, <2>2, <2>3, <2>4, <2>5, StepKinds DEF Steady, Builds, NameOK
<1> QED
  BY <1>1, <1>2, ObjectInv, PTL DEF Spec

(* Two objects under one root never have the same path, in any tree         *)
(* gtu_test_suite_add() can have built: the root and every suite on the way *)
(* still list them, and no suite lists two of one name, so that paths part  *)
(* where the lines of the two objects part (test-suite.c:19-37,             *)
(* object.c:294-316).                                                       *)
THEOREM DistinctPaths == Spec => []PathsDistinct
<1>1. ASSUME OInv, KinOK, NameOK
      PROVE  PathsDistinct
  <2> SUFFICES ASSUME NEW o \in Objects, NEW x \in Objects, Anchored(o), Anchored(x),
                      o # x, Above(o) \cap Above(x) # {}
               PROVE  PathNow(o) # PathNow(x)
    BY DEF PathsDistinct
  <2> DEFINE p == parent
             S == Up(p, o) \cup Up(p, x)
  <2>1. p \in Kin /\ name \in [Objects -> Names]
    BY <1>1 DEF OInv, RefTypes, Kin, NameOK
  <2>2. /\ PathNow(o) = Whole(p, name, o) /\ PathNow(x) = Whole(p, name, x)
        /\ Above(o) = Up(p, o) /\ Above(x) = Up(p, x)
    BY BuiltIsClimbed, AboveIsUp
  <2>3. \A y \in S : Live(y) /\ ~Loop(p, y)
    BY <2>2, OnCycleIsLoop DEF Anchored
  <2> HIDE DEF p
  <2>4. S \subseteq Objects /\ o \in S /\ x \in S /\ Closed(p, S)
    BY <2>1, UpLeast DEF Closed
  <2> HIDE DEF S
  <2>5. ASSUME NEW y \in S, NEW z \in S, p[y] # None, p[y] = p[z], name[y] = name[z]
        PROVE  y = z
    <3>1. y \in Objects /\ z \in Objects /\ p[y] \in Suites /\ Live(p[y])
      BY <2>1, <2>3, <2>4, <2>5 DEF Kin, Closed
    <3>2. Child(y, p[y]) /\ Child(z, p[y])
      BY <1>1, <2>5, <3>1 DEF KinOK, p
    <3>3. \E i, j \in DOMAIN children[p[y]] : children[p[y]][i] = y /\ children[p[y]][j] = z
      BY <3>2 DEF Child, ToSet
    <3> QED
      BY <1>1, <2>5, <3>1, <3>3 DEF OInv, PlaceOK
  <2>6. Up(p, o) \cap Up(p, x) # {} /\ \A y \in S : ~Loop(p, y)
    BY <2>2, <2>3
  <2>7. Whole(p, name, o) # Whole(p, name, x)
    BY <2>1, <2>4, <2>5, <2>6, WholeDistinct
  <2> QED
    BY <2>2, <2>7
<1> QED
  BY <1>1, ObjectInv, KinInv, NameInv, PTL

-----------------------------------------------------------------------------
(* The signal on its way.                                                   *)

(* The frames of the emissions in progress: each object is the child that   *)
(* the frame before it has just come to, none is there twice, and the       *)
(* program has been left where it makes a call.                             *)
EmissionOK ==
  /\ emission \in Seq([obj: Objects, next: Nat \ {0}, again: BOOLEAN])
  /\ emission # <<>> => drops = <<>> /\ phase # "next"
  /\ \A i, j \in DOMAIN emission : emission[i].obj = emission[j].obj => i = j
  /\ \A i \in DOMAIN emission :
       /\ Live(emission[i].obj)
       /\ i > 1 => /\ emission[i-1].next - 1 \in DOMAIN Heirs(emission[i-1].obj)
                   /\ Heirs(emission[i-1].obj)[emission[i-1].next - 1] = emission[i].obj

(* The signal has still to come to x. *)
Awaited(x) ==
  \E k \in DOMAIN emission : \E i \in DOMAIN Heirs(emission[k].obj) :
    i >= emission[k].next /\ Heirs(emission[k].obj)[i] = x

(* A cycle is one through the object that was added last, and the signal    *)
(* keeps going round it.                                                    *)
CycleOK ==
  \A o \in Objects : OnCycle(o) =>
    /\ emission # <<>>
    /\ emission[1].obj \in Above(o)
    /\ emission[1].again \/ \E x \in Above(o) : Awaited(x)

(* The path of o is about to be dropped. *)
Pending(o) ==
  Awaited(o) \/ \E k \in DOMAIN emission : emission[k].obj = o /\ emission[k].again

(* A path is that of the parent and the name, or is about to be dropped. *)
PathOK ==
  \A o \in Objects : path[o] # <<>> =>
    /\ parent[o] = None => path[o] = <<name[o]>>
    /\ parent[o] # None /\ Live(parent[o]) =>
         \/ path[parent[o]] # <<>> /\ path[o] = Append(path[parent[o]], name[o])
         \/ Pending(o)

PathTyped == path \in [Objects -> Seq(Names)]

(* What was collected is a set of cases beneath the suite being run. *)
RunOK ==
  /\ tests \in Seq(Cases)
  /\ at \in Nat /\ (phase # "program" => at > 0)
  /\ \A i, j \in DOMAIN tests : tests[i] = tests[j] => i = j
  /\ \A i \in DOMAIN tests : root \in Above(tests[i])

LEMMA InEmission ==
  ASSUME OInv, emission # <<>>, drops = <<>>, phase # "next", [Next]_vars
  PROVE  \/ UNCHANGED <<state, name, treeVars, path, emission, drops, runVars>>
         \/ Propagate
         \/ EndEmission
         \/ \E o \in Objects : Read(o) /\ ~Strays(o)
<1>1. ~Calls /\ InCall /\ ~Drop
  BY DEF Calls, InCall, Drop
<1>2. ASSUME NEW o \in Objects,
             New(o) \/ RefuseNew(o) \/ Ref(o) \/ RefSink(o) \/ Unref(o) \/ Read(o)
      PROVE  \/ UNCHANGED <<state, name, treeVars, path, emission, drops, runVars>>
             \/ Read(o) /\ ~Strays(o)
  <2>1. Read(o)
    BY <1>1, <1>2 DEF New, Construct, RefuseNew, Ref, RefSink, Unref
  <2> QED
    BY <2>1 DEF Read, EndProcess, objectVars, callVars
<1>3. ~ValueStep
  BY <1>1 DEF ValueStep, CollectValue, CopyValue, LcopyValue, FreeValue
<1>4. \A c \in Cases, o \in Shared : ~NewCase(c, o)
  BY <1>1 DEF NewCase, Construct
<1>5. \A s \in Suites : ~Run(s) /\ \A o \in Objects : ~Add(s, o)
  BY <1>1 DEF Add, Run
<1>6. ~RunStep
  BY <1>1 DEF RunStep, BeginTest, EndBody, Report, EndRun
<1>7. UNCHANGED vars => UNCHANGED <<state, name, treeVars, path, emission, drops, runVars>>
  BY DEF vars, objectVars, callVars
<1>8. CASE ProgramStep
  BY <1>2, <1>8 DEF ProgramStep
<1>9. CASE CallStep
  BY <1>1, <1>9 DEF CallStep
<1> QED
  BY <1>3, <1>4, <1>5, <1>6, <1>7, <1>8, <1>9 DEF Next, Stop

Frames == [obj: Objects, next: Nat \ {0}, again: BOOLEAN]

LEMMA FrameFacts ==
  ASSUME OInv, EmissionOK, emission # <<>>
  PROVE  /\ emission \in Seq(Frames) /\ Depth \in Nat /\ Depth >= 1
         /\ DOMAIN emission = 1..Depth
         /\ \A i \in 1..Depth : emission[i] \in Frames
         /\ Frame = emission[Depth] /\ Frame \in Frames
         /\ \A o \in Objects : Heirs(o) \in Seq(Objects)
         /\ \A o \in Objects : DOMAIN Heirs(o) = 1..Len(Heirs(o)) /\ Len(Heirs(o)) \in Nat
<1>1. emission \in Seq(Frames)
  BY DEF EmissionOK, Frames
<1>2. Depth \in Nat /\ Depth >= 1 /\ DOMAIN emission = 1..Depth
  BY <1>1, LenProperties, EmptySeq DEF Depth
<1>3. \A i \in 1..Depth : emission[i] \in Frames
  BY <1>1, <1>2, ElementOfSeq
<1>4. Depth \in 1..Depth
  BY <1>2
<1>5. \A o \in Objects : Heirs(o) \in Seq(Objects)
  BY DEF OInv, RefTypes, Heirs
<1>6. \A o \in Objects : DOMAIN Heirs(o) = 1..Len(Heirs(o)) /\ Len(Heirs(o)) \in Nat
  BY <1>5, LenProperties
<1> QED
  BY <1>1, <1>2, <1>3, <1>4, <1>5, <1>6 DEF Frame

(* What a step of the signal does to the frames. *)
Pushes(child) ==
  /\ \A i \in 1..Depth : emission[i].obj # child
  /\ DOMAIN emission' = 1..(Depth + 1)
  /\ \A i \in 1..Depth : /\ emission'[i].obj = emission[i].obj
                         /\ emission'[i].again = emission[i].again
  /\ \A i \in 1..(Depth - 1) : emission'[i].next = emission[i].next
  /\ emission'[Depth].next = emission[Depth].next + 1
  /\ emission'[Depth + 1] = Emitting(child)
  /\ path' = [path EXCEPT ![child] = <<>>]

Marks(child) ==
  /\ \E i \in 1..Depth : emission[i].obj = child
  /\ DOMAIN emission' = 1..Depth
  /\ \A i \in 1..Depth : /\ emission'[i].obj = emission[i].obj
                         /\ emission'[i].again = (emission[i].again \/ emission[i].obj = child)
  /\ \A i \in 1..(Depth - 1) : emission'[i].next = emission[i].next
  /\ emission'[Depth].next = emission[Depth].next + 1
  /\ path' = path

LEMMA PropagateFacts ==
  ASSUME OInv, EmissionOK, Propagate
  PROVE  /\ emission # <<>>
         /\ Frame.next \in DOMAIN Heirs(Frame.obj)
         /\ Heirs(Frame.obj)[Frame.next] \in Objects
         /\ emission' \in Seq(Frames)
         /\ Pushes(Heirs(Frame.obj)[Frame.next]) \/ Marks(Heirs(Frame.obj)[Frame.next])
         /\ UNCHANGED <<state, name, treeVars, drops, runVars>>
<1> DEFINE child == Heirs(Frame.obj)[Frame.next]
           moved == [emission EXCEPT ![Depth].next = @ + 1]
           busy == {i \in 1..Depth : emission[i].obj = child}
<1>1. /\ emission # <<>> /\ Frame.next <= Len(Heirs(Frame.obj))
      /\ UNCHANGED <<state, name, treeVars, drops, runVars>>
  BY DEF Propagate, objectVars
<1>2. IF busy = {}
      THEN emission' = Append(moved, Emitting(child)) /\ DirtyPath(child)
      ELSE /\ emission' = [i \in 1..Depth |-> IF i \in busy
                             THEN [moved[i] EXCEPT !.again = TRUE]
                             ELSE moved[i]]
           /\ path' = path
  BY DEF Propagate
<1>3. /\ emission \in Seq(Frames) /\ Depth \in Nat /\ Depth >= 1
      /\ DOMAIN emission = 1..Depth /\ Depth \in 1..Depth
      /\ \A i \in 1..Depth : emission[i] \in Frames
      /\ Frame = emission[Depth] /\ Frame \in Frames
  BY <1>1, FrameFacts
<1>4. Frame.obj \in Objects /\ Frame.next \in Nat \ {0}
  BY <1>3 DEF Frames
<1>5. Frame.next \in DOMAIN Heirs(Frame.obj) /\ child \in Objects
  <2>1. /\ Heirs(Frame.obj) \in Seq(Objects) /\ Len(Heirs(Frame.obj)) \in Nat
        /\ DOMAIN Heirs(Frame.obj) = 1..Len(Heirs(Frame.obj))
    BY <1>1, <1>4, FrameFacts
  <2>2. Frame.next \in DOMAIN Heirs(Frame.obj)
    BY <1>1, <1>4, <2>1
  <2> QED
    BY <2>1, <2>2, ElementOfSeq
<1>6. /\ moved \in Seq(Frames) /\ Len(moved) = Depth /\ DOMAIN moved = 1..Depth
      /\ \A i \in 1..Depth : moved[i] = IF i = Depth
           THEN [obj |-> emission[i].obj, next |-> emission[i].next + 1,
                 again |-> emission[i].again]
           ELSE emission[i]
      /\ \A i \in 1..Depth : moved[i] \in Frames
  <2>1. emission = [i \in 1..Depth |-> emission[i]]
    BY <1>3
  <2>2. [emission[Depth] EXCEPT !.next = @ + 1]
          = [obj |-> emission[Depth].obj, next |-> emission[Depth].next + 1,
             again |-> emission[Depth].again]
    BY <1>3 DEF Frames
  <2>3. [emission[Depth] EXCEPT !.next = @ + 1] \in Frames
    BY <1>3, <2>2 DEF Frames
  <2>4. moved = [i \in 1..Depth |-> IF i = Depth THEN [emission[Depth] EXCEPT !.next = @ + 1]
                                    ELSE emission[i]]
    BY <1>3
  <2>5. \A i \in 1..Depth : moved[i] = IF i = Depth THEN [emission[Depth] EXCEPT !.next = @ + 1]
                                    ELSE emission[i]
    BY <2>4
  <2>6. DOMAIN moved = 1..Depth
    BY <2>4
  <2> HIDE DEF moved
  <2>7. \A i \in 1..Depth : moved[i] \in Frames
    BY <1>3, <2>3, <2>5
  <2>8. moved \in Seq(Frames) /\ Len(moved) = Depth
    <3>1. moved \in [1..Depth -> Frames]
      BY <2>4, <2>6, <2>7 DEF moved
    <3> QED
      BY <1>3, <3>1, SeqDef, LenProperties
  <2> QED
    BY <2>2, <2>5, <2>6, <2>7, <2>8
<1> HIDE DEF moved, child
<1>9. \A i \in 1..Depth :
        /\ moved[i] \in Frames
        /\ moved[i].obj = emission[i].obj /\ moved[i].again = emission[i].again
        /\ i # Depth => moved[i].next = emission[i].next
        /\ i = Depth => moved[i].next = emission[i].next + 1
  BY <1>6
<1>7. CASE busy = {}
  <2>1. emission' = Append(moved, Emitting(child)) /\ path' = [path EXCEPT ![child] = <<>>]
    BY <1>2, <1>7 DEF DirtyPath
  <2>2. Emitting(child) \in Frames
    BY <1>5 DEF Emitting, Frames
  <2>3. /\ emission' \in Seq(Frames) /\ Len(emission') = Depth + 1
        /\ \A i \in 1..Depth : emission'[i] = moved[i]
        /\ emission'[Depth + 1] = Emitting(child)
    BY <1>6, <2>1, <2>2, AppendProperties
  <2>4. DOMAIN emission' = 1..(Depth + 1)
    BY <2>3, LenProperties
  <2>5. \A i \in 1..Depth : emission[i].obj # child
    BY <1>7
  <2>6. \A i \in 1..Depth : /\ emission'[i].obj = emission[i].obj
                            /\ emission'[i].again = emission[i].again
    BY <1>6, <2>3
  <2>7. \A i \in 1..(Depth - 1) : i \in 1..Depth /\ i # Depth
    BY <1>3
  <2>8. \A i \in 1..(Depth - 1) : emission'[i].next = emission[i].next
    BY <1>6, <2>3, <2>7
  <2>9. emission'[Depth].next = emission[Depth].next + 1
    BY <1>3, <1>6, <2>3
  <2>10. Pushes(child)
    BY <2>1, <2>3, <2>4, <2>5, <2>6, <2>8, <2>9 DEF Pushes
  <2> QED
    BY <1>1, <1>5, <2>3, <2>10 DEF child
<1>8. CASE busy # {}
  <2>1. /\ emission' = [i \in 1..Depth |-> IF i \in busy
                          THEN [moved[i] EXCEPT !.again = TRUE]
                          ELSE moved[i]]
        /\ path' = path
    BY <1>2, <1>8
  <2>2. \A i \in 1..Depth :
          /\ [moved[i] EXCEPT !.again = TRUE] \in Frames
          /\ [moved[i] EXCEPT !.again = TRUE].obj = moved[i].obj
          /\ [moved[i] EXCEPT !.again = TRUE].next = moved[i].next
          /\ [moved[i] EXCEPT !.again = TRUE].again
    <3> SUFFICES ASSUME NEW m \in Frames
                 PROVE  /\ [m EXCEPT !.again = TRUE] \in Frames
                        /\ [m EXCEPT !.again = TRUE].obj = m.obj
                        /\ [m EXCEPT !.again = TRUE].next = m.next
                        /\ [m EXCEPT !.again = TRUE].again
      BY <1>9
    <3> QED
      BY DEF Frames
  <2>3. DOMAIN emission' = 1..Depth /\ \E i \in 1..Depth : emission[i].obj = child
    BY <1>8, <2>1
  <2>4. \A i \in 1..Depth :
          /\ emission'[i] \in Frames /\ emission'[i].obj = moved[i].obj
          /\ emission'[i].next = moved[i].next
          /\ emission[i].obj = child => emission'[i].again
          /\ emission[i].obj # child => emission'[i].again = moved[i].again
    <3> SUFFICES ASSUME NEW i \in 1..Depth
                 PROVE  /\ emission'[i] \in Frames /\ emission'[i].obj = moved[i].obj
                        /\ emission'[i].next = moved[i].next
                        /\ emission[i].obj = child => emission'[i].again
                        /\ emission[i].obj # child => emission'[i].again = moved[i].again
      OBVIOUS
    <3>1. CASE emission[i].obj = child
      <4>1. emission'[i] = [moved[i] EXCEPT !.again = TRUE]
        BY <2>1, <3>1
      <4> QED
        BY <2>2, <3>1, <4>1
    <3>2. CASE emission[i].obj # child
      BY <1>9, <2>1, <3>2
    <3> QED
      BY <3>1, <3>2
  <2>6. emission' \in Seq(Frames)
    <3>1. emission' \in [1..Depth -> Frames]
      BY <2>1, <2>4
    <3> QED
      BY <1>3, <3>1, SeqDef
  <2>5. \A i \in 1..Depth : emission'[i] \in Frames /\ emission[i] \in Frames
    BY <1>3, <2>4
  <2>7. \A i \in 1..Depth :
          /\ emission'[i].obj = emission[i].obj
          /\ emission'[i].again = (emission[i].again \/ emission[i].obj = child)
    <3> SUFFICES ASSUME NEW i \in 1..Depth
                 PROVE  /\ emission'[i].obj = emission[i].obj
                        /\ emission'[i].again = (emission[i].again \/ emission[i].obj = child)
      OBVIOUS
    <3>1. emission'[i].again \in BOOLEAN /\ emission[i].again \in BOOLEAN
      BY <2>5 DEF Frames
    <3>2. emission'[i].obj = emission[i].obj
      BY <1>9, <2>4
    <3>3. CASE emission[i].obj = child
      BY <2>4, <3>1, <3>2, <3>3
    <3>4. CASE emission[i].obj # child
      <4>1. emission'[i].again = emission[i].again
        BY <1>9, <2>4, <3>4
      <4> QED
        BY <3>1, <3>2, <3>4, <4>1
    <3> QED
      BY <3>3, <3>4
  <2>8. \A i \in 1..(Depth - 1) : i \in 1..Depth /\ i # Depth
    BY <1>3
  <2>9. \A i \in 1..(Depth - 1) : emission'[i].next = emission[i].next
    BY <1>9, <2>4, <2>8
  <2>10. emission'[Depth].next = emission[Depth].next + 1
    BY <1>3, <1>9, <2>4
  <2>11. Marks(child)
    BY <2>1, <2>3, <2>7, <2>9, <2>10 DEF Marks
  <2> QED
    BY <1>1, <1>5, <2>6, <2>11 DEF child
<1> QED
  BY <1>7, <1>8

(* The emission on the last object starts again, or is over. *)
Restarts ==
  /\ emission[Depth].again
  /\ DOMAIN emission' = 1..Depth
  /\ \A i \in 1..(Depth - 1) : emission'[i] = emission[i]
  /\ emission'[Depth] = Emitting(emission[Depth].obj)
  /\ path' = [path EXCEPT ![emission[Depth].obj] = <<>>]

Finishes ==
  /\ ~emission[Depth].again
  /\ DOMAIN emission' = 1..(Depth - 1)
  /\ \A i \in 1..(Depth - 1) : emission'[i] = emission[i]
  /\ path' = path

LEMMA EndEmissionFacts ==
  ASSUME OInv, EmissionOK, EndEmission
  PROVE  /\ emission # <<>>
         /\ Frame.next > Len(Heirs(Frame.obj))
         /\ emission' \in Seq(Frames)
         /\ Restarts \/ Finishes
         /\ UNCHANGED <<state, name, treeVars, drops, runVars>>
<1>1. /\ emission # <<>> /\ Frame.next > Len(Heirs(Frame.obj))
      /\ UNCHANGED <<state, name, treeVars, drops, runVars>>
  BY DEF EndEmission, Propagated, objectVars
<1>2. IF Frame.again
      THEN /\ emission' = [emission EXCEPT ![Depth] = Emitting(Frame.obj)]
           /\ DirtyPath(Frame.obj)
      ELSE emission' = Front(emission) /\ path' = path
  BY DEF EndEmission
<1>3. /\ emission \in Seq(Frames) /\ Depth \in Nat /\ Depth >= 1
      /\ DOMAIN emission = 1..Depth /\ Depth \in 1..Depth
      /\ \A i \in 1..Depth : emission[i] \in Frames
      /\ Frame = emission[Depth] /\ Frame \in Frames
  BY <1>1, FrameFacts
<1>4. \A i \in 1..(Depth - 1) : i \in 1..Depth /\ i # Depth
  BY <1>3
<1>5. CASE Frame.again
  <2>1. /\ emission' = [emission EXCEPT ![Depth] = Emitting(Frame.obj)]
        /\ path' = [path EXCEPT ![Frame.obj] = <<>>]
    BY <1>2, <1>5 DEF DirtyPath
  <2>2. Emitting(Frame.obj) \in Frames
    BY <1>3 DEF Emitting, Frames
  <2>3. emission' \in Seq(Frames)
    BY <1>3, <2>1, <2>2, ExceptSeq
  <2>4. /\ DOMAIN emission' = 1..Depth
        /\ emission'[Depth] = Emitting(Frame.obj)
        /\ \A i \in 1..Depth : i # Depth => emission'[i] = emission[i]
    BY <1>3, <2>1
  <2>5. Restarts
    BY <1>3, <1>4, <1>5, <2>1, <2>4 DEF Restarts
  <2> QED
    BY <1>1, <2>3, <2>5
<1>6. CASE ~Frame.again
  <2>1. emission' = SubSeq(emission, 1, Depth - 1) /\ path' = path
    BY <1>2, <1>6 DEF Front, Depth
  <2>2. \A i \in 1..(Depth - 1) : emission[i] \in Frames
    BY <1>3, <1>4
  <2>3. /\ emission' \in Seq(Frames) /\ Len(emission') = Depth - 1
        /\ \A i \in 1..(Depth - 1) : emission'[i] = emission[i]
    <3>1. emission' = [i \in 1..(Depth - 1) |-> emission[i]]
      BY <1>3, <2>1
    <3>2. Depth - 1 \in Nat
      BY <1>3
    <3>3. emission' \in [1..(Depth - 1) -> Frames]
      BY <2>2, <3>1
    <3>4. emission' \in Seq(Frames)
      BY <3>2, <3>3, SeqDef
    <3>5. DOMAIN emission' = 1..(Depth - 1)
      BY <3>1
    <3>6. Len(emission') = Depth - 1
      BY <3>2, <3>4, <3>5, LenProperties
    <3> QED
      BY <3>1, <3>4, <3>6
  <2>4. DOMAIN emission' = 1..(Depth - 1)
    BY <2>3, LenProperties
  <2>5. Finishes
    BY <1>3, <1>6, <2>1, <2>3, <2>4 DEF Finishes
  <2> QED
    BY <1>1, <2>3, <2>5
<1> QED
  BY <1>5, <1>6

LEMMA HeirIsChild ==
  ASSUME OInv, NEW o \in Objects, NEW i \in DOMAIN Heirs(o)
  PROVE  /\ o \in Suites /\ Heirs(o)[i] \in Objects /\ Child(Heirs(o)[i], o)
         /\ parent[Heirs(o)[i]] = o /\ Live(Heirs(o)[i])
<1>1. o \in Suites /\ Heirs(o) = children[o] /\ children[o] \in Seq(Objects)
  BY DEF OInv, RefTypes, Heirs
<1>2. Heirs(o)[i] \in Objects /\ Child(Heirs(o)[i], o)
  BY <1>1, ElementOfSeq DEF Child, ToSet
<1>3. Live(Heirs(o)[i])
  BY <1>1, <1>2, Unowned
<1> QED
  BY <1>1, <1>2, <1>3 DEF OInv, PlaceOK

LEMMA ChildIsHeir ==
  ASSUME NEW o \in Suites, NEW x, Child(x, o)
  PROVE  \E i \in DOMAIN Heirs(o) : Heirs(o)[i] = x
BY DEF Child, Heirs, ToSet

LEMMA EmissionInit == Init => EmissionOK
<1>1. <<>> \in Seq([obj: Objects, next: Nat \ {0}, again: BOOLEAN])
  OBVIOUS
<1> QED
  BY <1>1 DEF Init, EmissionOK

LEMMA PropagateEmission ==
  ASSUME OInv, EmissionOK, Propagate
  PROVE  EmissionOK'
<1> DEFINE child == Heirs(Frame.obj)[Frame.next]
<1>1. /\ emission # <<>> /\ Frame.next \in DOMAIN Heirs(Frame.obj)
      /\ child \in Objects /\ emission' \in Seq(Frames)
      /\ Pushes(child) \/ Marks(child)
      /\ UNCHANGED <<state, children, drops, phase>>
  BY PropagateFacts DEF treeVars, runVars
<1>2. /\ Depth \in Nat /\ Depth >= 1 /\ DOMAIN emission = 1..Depth
      /\ \A i \in 1..Depth : emission[i] \in Frames
      /\ Frame = emission[Depth] /\ Depth \in 1..Depth
  BY <1>1, FrameFacts
<1>3. Live(child)
  <2>1. Frame.obj \in Objects
    BY <1>2 DEF Frames
  <2> QED
    BY <1>1, <2>1, HeirIsChild
<1>4. /\ emission # <<>> => drops = <<>> /\ phase # "next"
      /\ \A i, j \in 1..Depth : emission[i].obj = emission[j].obj => i = j
      /\ \A i \in 1..Depth :
           /\ Live(emission[i].obj)
           /\ i > 1 => /\ emission[i-1].next - 1 \in DOMAIN Heirs(emission[i-1].obj)
                       /\ Heirs(emission[i-1].obj)[emission[i-1].next - 1] = emission[i].obj
  BY <1>2 DEF EmissionOK
<1>5. /\ \A i \in 1..Depth : emission'[i].obj = emission[i].obj
      /\ \A i \in 1..(Depth - 1) : emission'[i].next = emission[i].next
      /\ emission'[Depth].next = emission[Depth].next + 1
  BY <1>1 DEF Pushes, Marks
<1>6. /\ \A i \in 1..Depth : i > 1 => i - 1 \in 1..(Depth - 1) /\ i - 1 \in 1..Depth
      /\ Frame.next \in Nat
  BY <1>2 DEF Frames
<1>7. \A i \in 1..Depth : i > 1 =>
        /\ emission'[i-1].next - 1 \in DOMAIN Heirs(emission'[i-1].obj)
        /\ Heirs(emission'[i-1].obj)[emission'[i-1].next - 1] = emission'[i].obj
  BY <1>4, <1>5, <1>6
<1>8. \A x : Heirs(x)' = Heirs(x) /\ (Live(x)' <=> Live(x))
  BY <1>1 DEF Heirs, Live
<1> HIDE DEF child
<1>9. CASE Marks(child)
  <2>1. DOMAIN emission' = 1..Depth
    BY <1>9 DEF Marks
  <2>2. \A i, j \in DOMAIN emission' : emission'[i].obj = emission'[j].obj => i = j
    BY <1>4, <1>5, <2>1
  <2>3. \A i \in DOMAIN emission' :
          /\ state'[emission'[i].obj] = "live"
          /\ i > 1 => /\ emission'[i-1].next - 1 \in DOMAIN Heirs(emission'[i-1].obj)
                      /\ Heirs(emission'[i-1].obj)[emission'[i-1].next - 1] = emission'[i].obj
    BY <1>1, <1>4, <1>5, <1>7, <2>1 DEF Live
  <2> QED
    BY <1>1, <1>4, <2>2, <2>3 DEF EmissionOK, Frames, Live, Heirs
<1>10. CASE Pushes(child)
  <2>1. /\ DOMAIN emission' = 1..(Depth + 1) /\ emission'[Depth + 1] = Emitting(child)
        /\ \A i \in 1..Depth : emission[i].obj # child
    BY <1>10 DEF Pushes
  <2>2. emission'[Depth + 1].obj = child
    BY <2>1 DEF Emitting
  <2>3. \A i \in 1..(Depth + 1) : i \in 1..Depth \/ i = Depth + 1
    BY <1>2
  <2>4. \A i, j \in DOMAIN emission' : emission'[i].obj = emission'[j].obj => i = j
    BY <1>4, <1>5, <2>1, <2>2, <2>3
  <2>5. /\ emission'[Depth].next - 1 \in DOMAIN Heirs(emission'[Depth].obj)
        /\ Heirs(emission'[Depth].obj)[emission'[Depth].next - 1] = child
    <3>1. (emission[Depth].next + 1) - 1 = Frame.next
      BY <1>2, <1>6
    <3> QED
      BY <1>1, <1>2, <1>5, <3>1 DEF child
  <2>6. \A i \in DOMAIN emission' :
          /\ state'[emission'[i].obj] = "live"
          /\ i > 1 => /\ emission'[i-1].next - 1 \in DOMAIN Heirs(emission'[i-1].obj)
                      /\ Heirs(emission'[i-1].obj)[emission'[i-1].next - 1] = emission'[i].obj
    <3> SUFFICES ASSUME NEW i \in 1..(Depth + 1)
                 PROVE  /\ state'[emission'[i].obj] = "live"
                        /\ i > 1 => /\ emission'[i-1].next - 1 \in DOMAIN Heirs(emission'[i-1].obj)
                                    /\ Heirs(emission'[i-1].obj)[emission'[i-1].next - 1]
                                         = emission'[i].obj
      BY <2>1
    <3>1. CASE i \in 1..Depth
      BY <1>1, <1>4, <1>5, <1>7, <3>1 DEF Live
    <3>2. CASE i = Depth + 1
      <4>1. i - 1 = Depth
        BY <1>2, <3>2
      <4> QED
        BY <1>1, <1>3, <2>2, <2>5, <3>2, <4>1 DEF Live
    <3> QED
      BY <2>3, <3>1, <3>2
  <2> QED
    BY <1>1, <1>4, <2>4, <2>6 DEF EmissionOK, Frames, Live, Heirs
<1> QED
  BY <1>1, <1>9, <1>10

LEMMA EndEmissionEmission ==
  ASSUME OInv, EmissionOK, EndEmission
  PROVE  EmissionOK'
<1>1. /\ emission # <<>> /\ emission' \in Seq(Frames)
      /\ Restarts \/ Finishes
      /\ UNCHANGED <<state, children, drops, phase>>
  BY EndEmissionFacts DEF treeVars, runVars
<1>2. Depth \in Nat /\ Depth >= 1 /\ DOMAIN emission = 1..Depth /\ Depth \in 1..Depth
  BY <1>1, FrameFacts
<1>3. /\ emission # <<>> => drops = <<>> /\ phase # "next"
      /\ \A i, j \in 1..Depth : emission[i].obj = emission[j].obj => i = j
      /\ \A i \in 1..Depth :
           /\ Live(emission[i].obj)
           /\ i > 1 => /\ emission[i-1].next - 1 \in DOMAIN Heirs(emission[i-1].obj)
                       /\ Heirs(emission[i-1].obj)[emission[i-1].next - 1] = emission[i].obj
  BY <1>2 DEF EmissionOK
<1>4. /\ DOMAIN emission' \subseteq 1..Depth
      /\ \A i \in 1..(Depth - 1) : emission'[i] = emission[i]
      /\ \A i \in DOMAIN emission' : emission'[i].obj = emission[i].obj
  <2>1. CASE Restarts
    <3>1. /\ DOMAIN emission' = 1..Depth
          /\ \A i \in 1..(Depth - 1) : emission'[i] = emission[i]
          /\ emission'[Depth].obj = emission[Depth].obj
      BY <2>1 DEF Restarts, Emitting
    <3>2. \A i \in 1..Depth : i \in 1..(Depth - 1) \/ i = Depth
      BY <1>2
    <3> QED
      BY <3>1, <3>2
  <2>2. CASE Finishes
    <3>1. /\ DOMAIN emission' = 1..(Depth - 1)
          /\ \A i \in 1..(Depth - 1) : emission'[i] = emission[i]
      BY <2>2 DEF Finishes
    <3> QED
      BY <1>2, <3>1
  <2> QED
    BY <1>1, <2>1, <2>2
<1>5. \A i \in 1..Depth : i > 1 => i - 1 \in 1..(Depth - 1)
  BY <1>2
<1>6. \A i, j \in DOMAIN emission' : emission'[i].obj = emission'[j].obj => i = j
  BY <1>3, <1>4
<1>7. \A i \in DOMAIN emission' :
        /\ state'[emission'[i].obj] = "live"
        /\ i > 1 => /\ emission'[i-1].next - 1 \in DOMAIN Heirs(emission'[i-1].obj)
                    /\ Heirs(emission'[i-1].obj)[emission'[i-1].next - 1] = emission'[i].obj
  BY <1>1, <1>3, <1>4, <1>5 DEF Live
<1> QED
  BY <1>1, <1>3, <1>6, <1>7 DEF EmissionOK, Frames, Live, Heirs

LEMMA EmissionStep ==
  ASSUME OInv, EmissionOK, [Next]_vars
  PROVE  EmissionOK'
<1>1. CASE emission' = <<>>
  <2>1. <<>> \in Seq([obj: Objects, next: Nat \ {0}, again: BOOLEAN])
    OBVIOUS
  <2> QED
    BY <1>1, <2>1 DEF EmissionOK
<1>2. CASE emission # <<>>
  <2>1. CASE UNCHANGED <<state, children, emission, drops, phase>>
    BY <2>1 DEF EmissionOK, Live, Heirs
  <2>2. ASSUME NEW o, Read(o), ~Strays(o)
        PROVE  UNCHANGED <<state, children, emission, drops, phase>>
    BY <2>2 DEF Read, objectVars, treeVars, callVars, runVars
  <2>3. drops = <<>> /\ phase # "next"
    BY <1>2 DEF EmissionOK
  <2> QED
    BY <1>2, <2>1, <2>2, <2>3, InEmission, PropagateEmission, EndEmissionEmission
       DEF treeVars, runVars
<1>3. CASE emission = <<>> /\ emission' # <<>>
  <2>1. PICK s \in Suites, o \in Objects : Joins(s, o)
    BY <1>3, StepKinds DEF Steady, Builds, Frees, Drop, Propagate, EndEmission, Propagated,
                           Read, BeginTest, callVars
  <2>2. /\ emission' = <<Emitting(o)>> /\ drops' = <<>> /\ phase' \in {"program", "body"}
        /\ state'[o] = "live"
    BY <2>1, JoinFacts DEF runVars, Live
  <2>3. Emitting(o) \in [obj: Objects, next: Nat \ {0}, again: BOOLEAN]
    BY DEF Emitting
  <2>4. /\ emission' \in Seq([obj: Objects, next: Nat \ {0}, again: BOOLEAN])
        /\ DOMAIN emission' = {1} /\ emission'[1].obj = o
    BY <2>2, <2>3 DEF Emitting
  <2> QED
    BY <2>2, <2>4 DEF EmissionOK, Live
<1> QED
  BY <1>1, <1>2, <1>3

LEMMA EmissionInv == Spec => []EmissionOK
<1>1. Init => EmissionOK
  BY EmissionInit
<1>2. OInv /\ EmissionOK /\ [Next]_vars => EmissionOK'
  BY EmissionStep
<1> QED
  BY <1>1, <1>2, ObjectInv, PTL DEF Spec

-----------------------------------------------------------------------------
(* Cycles.                                                                  *)

LEMMA LoopAbove ==
  ASSUME NEW p \in Kin, NEW o \in Objects, Loop(p, o), NEW r \in Up(p, o)
  PROVE  r \in Objects /\ o \in Up(p, r) /\ Loop(p, r)
<1> DEFINE S == {z \in Up(p, o) : o \in Up(p, z)}
<1>1. o \in S
  BY UpLeast
<1>2. ASSUME NEW z \in S, p[z] # None
      PROVE  p[z] \in S
  <2>1. z \in Objects /\ p[z] \in Up(p, o)
    BY <1>2, UpLeast DEF Closed
  <2>2. o \in Up(p, p[z])
    <3>1. CASE z = o
      BY <3>1 DEF Loop
    <3>2. CASE z # o
      BY <1>2, <2>1, <3>2, UpUnfold
    <3> QED
      BY <3>1, <3>2
  <2> QED
    BY <2>1, <2>2
<1>3. \A z \in S : p[z] \in S \cup {None}
  BY <1>2
<1>4. Up(p, o) \subseteq S
  <2> HIDE DEF S
  <2>1. Closed(p, S)
    BY <1>3 DEF Closed
  <2> QED
    BY <1>1, <2>1, UpLeast
<1>5. r \in Objects /\ o \in Up(p, r)
  BY <1>4, UpLeast
<1>6. CASE r = o
  BY <1>5, <1>6
<1>7. CASE r # o
  BY <1>5, <1>7, UpOrder
<1> QED
  BY <1>5, <1>6, <1>7

LEMMA LoopLess ==
  ASSUME NEW p \in Kin, NEW q \in Kin, \A x \in Objects : q[x] \in {p[x], None},
         NEW o \in Objects, Loop(q, o)
  PROVE  Loop(p, o)
<1>1. q[o] # None /\ q[o] = p[o] /\ q[o] \in Objects
  BY UpUnfold DEF Loop
<1>2. Up(q, q[o]) \subseteq Up(p, p[o])
  BY <1>1, UpLess
<1> QED
  BY <1>1, <1>2 DEF Loop

(* One of a suite's children is on the cycle the suite is on. *)
LEMMA NextRound ==
  ASSUME OInv, KinOK, NEW r \in Objects, Live(r), Loop(parent, r)
  PROVE  \E i \in DOMAIN Heirs(r) : i > 0 /\ Heirs(r)[i] \in Up(parent, r)
<1>1. parent \in Kin
  BY DEF OInv, RefTypes, Kin
<1>2. PICK y \in Up(parent, r) : parent[y] = r
  BY <1>1, LoopBelow
<1>3. y \in Objects /\ r # None
  BY <1>1, <1>2, UpLeast, ObjectAssumption
<1>4. r \in Suites /\ Child(y, r)
  BY <1>1, <1>2, <1>3 DEF KinOK, Kin
<1>5. PICK i \in DOMAIN Heirs(r) : Heirs(r)[i] = y
  BY <1>4, ChildIsHeir
<1>6. i > 0
  BY <1>4, <1>5 DEF OInv, RefTypes, Heirs
<1> QED
  BY <1>2, <1>5, <1>6

(* The signal is about to come to a member of U, or once more to the first. *)
Rounds(U) ==
  /\ emission # <<>>
  /\ emission[1].obj \in U
  /\ emission[1].again \/ \E x \in U : Awaited(x)

LEMMA PropagateRounds ==
  ASSUME OInv, KinOK, EmissionOK, Propagate,
         NEW o \in Objects, Loop(parent, o), Rounds(Up(parent, o))
  PROVE  Rounds(Up(parent, o))'
<1> DEFINE child == Heirs(Frame.obj)[Frame.next]
           U == Up(parent, o)
<1>1. /\ emission # <<>> /\ Frame.next \in DOMAIN Heirs(Frame.obj)
      /\ child \in Objects /\ emission' \in Seq(Frames)
      /\ Pushes(child) \/ Marks(child)
      /\ UNCHANGED <<parent, children>>
  BY PropagateFacts DEF treeVars
<1>2. /\ Depth \in Nat /\ Depth >= 1 /\ DOMAIN emission = 1..Depth
      /\ \A i \in 1..Depth : emission[i] \in Frames
      /\ Frame = emission[Depth] /\ Depth \in 1..Depth /\ 1 \in 1..Depth
      /\ Frame.obj \in Objects /\ Frame.next \in Nat
  BY <1>1, FrameFacts DEF Frames
<1>3. parent[child] = Frame.obj /\ Live(child)
  BY <1>1, <1>2, HeirIsChild
<1>4. /\ \A i \in 1..Depth : emission'[i].obj = emission[i].obj
      /\ \A i \in 1..(Depth - 1) : emission'[i].next = emission[i].next
      /\ emission'[Depth].next = emission[Depth].next + 1
      /\ \A i \in 1..Depth : emission[i].again => emission'[i].again
      /\ 1..Depth \subseteq DOMAIN emission'
  <2>1. \A i \in 1..Depth : emission[i].again \in BOOLEAN
    BY <1>2 DEF Frames
  <2> QED
    BY <1>1, <1>2, <2>1 DEF Pushes, Marks
<1>5. emission' # <<>> /\ emission'[1].obj \in U
  BY <1>2, <1>4 DEF Rounds
<1>6. /\ UNCHANGED U /\ \A x : Heirs(x)' = Heirs(x)
      /\ parent \in Kin /\ U \subseteq Objects
  <2>1. parent \in Kin
    BY DEF OInv, RefTypes, Kin
  <2>2. U' = U
    BY <1>1 DEF Up
  <2>3. \A x : Heirs(x)' = Heirs(x)
    BY <1>1 DEF Heirs
  <2>4. U \subseteq Objects
    BY <2>1, UpLeast
  <2> QED
    BY <2>1, <2>2, <2>3, <2>4
<1> HIDE DEF U, child
<1>7. CASE emission[1].again
  BY <1>2, <1>4, <1>5, <1>6, <1>7 DEF Rounds, U
<1>8. CASE ~emission[1].again
  <2>1. PICK k \in 1..Depth : \E i \in DOMAIN Heirs(emission[k].obj) :
          i >= emission[k].next /\ Heirs(emission[k].obj)[i] \in U
    BY <1>2, <1>8 DEF Rounds, Awaited, U
  <2>2. PICK i \in DOMAIN Heirs(emission[k].obj) :
          i >= emission[k].next /\ Heirs(emission[k].obj)[i] \in U
    BY <2>1
  <2>3. /\ emission[k].next \in Nat /\ i \in Nat /\ emission[k].obj \in Objects
    <3>1. emission[k] \in Frames
      BY <1>2
    <3>2. emission[k].obj \in Objects /\ emission[k].next \in Nat
      BY <3>1 DEF Frames
    <3>3. DOMAIN Heirs(emission[k].obj) = 1..Len(Heirs(emission[k].obj))
      BY <1>1, <3>2, FrameFacts
    <3> QED
      BY <3>2, <3>3
  <2>4. CASE k # Depth \/ i # Frame.next
    <3>1. i >= emission'[k].next
      <4>1. CASE k # Depth
        <5>1. k \in 1..(Depth - 1)
          BY <1>2, <4>1
        <5> QED
          BY <1>4, <2>2, <5>1
      <4>2. CASE k = Depth
        <5>1. i # emission[Depth].next /\ i >= emission[Depth].next
          BY <1>2, <2>2, <2>4, <4>2
        <5>2. i >= emission[Depth].next + 1
          BY <1>2, <2>3, <4>2, <5>1
        <5> QED
          BY <1>4, <4>2, <5>2
      <4> QED
        BY <4>1, <4>2
    <3>2. /\ k \in DOMAIN emission' /\ i \in DOMAIN Heirs(emission'[k].obj)
          /\ Heirs(emission'[k].obj)[i] \in U
      BY <1>4, <2>2
    <3> QED
      BY <1>5, <1>6, <3>1, <3>2 DEF Rounds, Awaited, U, Heirs
  <2>5. CASE k = Depth /\ i = Frame.next
    <3>1. child \in U
      BY <1>2, <2>2, <2>5 DEF child
    <3>2. CASE Pushes(child)
      <4>1. Loop(parent, child) /\ Up(parent, child) \subseteq U
        BY <1>6, <3>1, LoopAbove, UpWithin DEF U
      <4>2. PICK j \in DOMAIN Heirs(child) : j > 0 /\ Heirs(child)[j] \in U
        BY <1>1, <1>3, <4>1, NextRound
      <4>3. /\ Depth + 1 \in DOMAIN emission' /\ emission'[Depth + 1].obj = child
            /\ emission'[Depth + 1].next = 1
        BY <1>2, <3>2 DEF Pushes, Emitting
      <4>4. j >= 1
        <5>1. DOMAIN Heirs(child) = 1..Len(Heirs(child)) /\ Len(Heirs(child)) \in Nat
          BY <1>1, FrameFacts
        <5> QED
          BY <4>2, <5>1
      <4> QED
        BY <1>5, <1>6, <4>2, <4>3, <4>4 DEF Rounds, Awaited, U, Heirs
    <3>3. CASE Marks(child)
      <4>1. PICK j \in 1..Depth : emission[j].obj = child
        BY <3>3 DEF Marks
      <4>2. j = 1
        <5> SUFFICES ASSUME j > 1
                     PROVE  FALSE
          BY <1>2
        <5>1. j - 1 \in 1..Depth /\ j - 1 # Depth
          BY <1>2
        <5>2. /\ emission[j-1].next - 1 \in DOMAIN Heirs(emission[j-1].obj)
              /\ Heirs(emission[j-1].obj)[emission[j-1].next - 1] = child
          BY <1>2, <4>1 DEF EmissionOK
        <5>3. emission[j-1].obj \in Objects
          BY <1>2, <5>1 DEF Frames
        <5>4. parent[child] = emission[j-1].obj
          BY <5>2, <5>3, HeirIsChild
        <5>5. emission[j-1].obj = emission[Depth].obj
          BY <1>2, <1>3, <5>4
        <5> QED
          BY <1>2, <5>1, <5>5 DEF EmissionOK
      <4>3. emission'[1].again
        <5>1. emission'[1].again = (emission[1].again \/ emission[1].obj = child)
          BY <1>2, <3>3 DEF Marks
        <5> QED
          BY <4>1, <4>2, <5>1
      <4> QED
        BY <1>5, <1>6, <4>3 DEF Rounds, U
    <3> QED
      BY <1>1, <3>2, <3>3
  <2> QED
    BY <2>4, <2>5
<1> QED
  BY <1>7, <1>8

LEMMA EndEmissionRounds ==
  ASSUME OInv, KinOK, EmissionOK, EndEmission,
         NEW o \in Objects, Loop(parent, o), Rounds(Up(parent, o))
  PROVE  Rounds(Up(parent, o))'
<1> DEFINE U == Up(parent, o)
<1>1. /\ emission # <<>> /\ Frame.next > Len(Heirs(Frame.obj))
      /\ emission' \in Seq(Frames)
      /\ Restarts \/ Finishes
      /\ UNCHANGED <<parent, children>>
  BY EndEmissionFacts DEF treeVars
<1>2. /\ Depth \in Nat /\ Depth >= 1 /\ DOMAIN emission = 1..Depth
      /\ \A i \in 1..Depth : emission[i] \in Frames
      /\ Frame = emission[Depth] /\ Depth \in 1..Depth /\ 1 \in 1..Depth
      /\ Frame.obj \in Objects /\ Frame.next \in Nat
  BY <1>1, FrameFacts DEF Frames
<1>3. U' = U /\ (\A x : Heirs(x)' = Heirs(x)) /\ parent \in Kin
  <2>1. parent \in Kin
    BY DEF OInv, RefTypes, Kin
  <2>2. U' = U
    BY <1>1 DEF Up
  <2>3. \A x : Heirs(x)' = Heirs(x)
    BY <1>1 DEF Heirs
  <2> QED
    BY <2>1, <2>2, <2>3
<1>4. /\ 1..(Depth - 1) \subseteq DOMAIN emission'
      /\ \A i \in 1..(Depth - 1) : emission'[i] = emission[i]
  BY <1>1, <1>2 DEF Restarts, Finishes
<1> HIDE DEF U
(* Nobody is awaited by the last frame. *)
<1>5. ASSUME NEW k \in 1..Depth, NEW i \in DOMAIN Heirs(emission[k].obj),
             i >= emission[k].next
      PROVE  k \in 1..(Depth - 1)
  <2>1. CASE k = Depth
    <3>1. /\ i \in 1..Len(Heirs(Frame.obj)) /\ Len(Heirs(Frame.obj)) \in Nat
      BY <1>1, <1>2, <1>5, <2>1, FrameFacts
    <3> QED
      BY <1>1, <1>2, <1>5, <2>1, <3>1
  <2>2. CASE k # Depth
    BY <1>2, <2>2
  <2> QED
    BY <2>1, <2>2
<1>6. CASE Depth > 1
  <2>1. 1 \in 1..(Depth - 1)
    BY <1>2, <1>6
  <2>2. emission' # <<>> /\ emission'[1].obj \in U /\ emission'[1].again = emission[1].again
    BY <1>4, <2>1 DEF Rounds, U
  <2>3. CASE emission[1].again
    BY <1>3, <2>2, <2>3 DEF Rounds, U
  <2>4. CASE ~emission[1].again
    <3>1. PICK k \in 1..Depth : \E i \in DOMAIN Heirs(emission[k].obj) :
            i >= emission[k].next /\ Heirs(emission[k].obj)[i] \in U
      BY <1>2, <2>4 DEF Rounds, Awaited, U
    <3>2. k \in 1..(Depth - 1)
      BY <1>5, <3>1
    <3>3. k \in DOMAIN emission' /\ emission'[k] = emission[k]
      BY <1>4, <3>2
    <3> QED
      BY <1>3, <2>2, <3>1, <3>3 DEF Rounds, Awaited, U, Heirs
  <2> QED
    BY <2>3, <2>4
<1>7. CASE Depth = 1
  <2>1. emission[1].again
    <3> SUFFICES ASSUME ~emission[1].again
                 PROVE  FALSE
      OBVIOUS
    <3>1. PICK k \in 1..Depth : \E i \in DOMAIN Heirs(emission[k].obj) :
            i >= emission[k].next /\ Heirs(emission[k].obj)[i] \in U
      BY <1>2 DEF Rounds, Awaited, U
    <3>2. k \in 1..(Depth - 1)
      BY <1>5, <3>1
    <3> QED
      BY <1>7, <3>2
  <2> DEFINE r == emission[1].obj
  <2>2. DOMAIN emission' = 1..1 /\ emission'[1] = Emitting(r)
    BY <1>1, <1>7, <2>1 DEF Restarts, Finishes
  <2>3. r \in U /\ r \in Objects /\ Live(r)
    BY <1>2, <1>7 DEF Rounds, EmissionOK, U
  <2>4. Loop(parent, r) /\ Up(parent, r) \subseteq U
    BY <1>3, <2>3, LoopAbove, UpWithin DEF U
  <2>5. PICK j \in DOMAIN Heirs(r) : j > 0 /\ Heirs(r)[j] \in U
    <3> HIDE DEF r
    <3> QED
      BY <2>3, <2>4, NextRound
  <2>6. j >= 1
    <3>1. DOMAIN Heirs(r) = 1..Len(Heirs(r)) /\ Len(Heirs(r)) \in Nat
      BY <1>1, <2>3, FrameFacts
    <3> QED
      BY <2>5, <3>1
  <2>7. emission' # <<>> /\ emission'[1].obj = r /\ emission'[1].next = 1
    BY SMTT(60), <2>2 DEF Emitting
  <2> HIDE DEF r
  <2> QED
    BY <1>3, <2>2, <2>3, <2>5, <2>6, <2>7 DEF Rounds, Awaited, U, Heirs
<1> QED
  BY <1>2, <1>6, <1>7

LEMMA CycleIsRounds ==
  (CycleOK <=> \A o \in Objects : Loop(parent, o) => Rounds(Up(parent, o)))
BY AboveIsUp, OnCycleIsLoop DEF CycleOK, Rounds

LEMMA CycleIsRoundsNext ==
  CycleOK' <=> \A o \in Objects : Loop(parent', o) => Rounds(Up(parent, o))'
BY AboveIsUp, OnCycleIsLoop DEF CycleOK, Rounds

LEMMA CycleStep ==
  ASSUME OInv, KinOK, ParentsLive, EmissionOK, CycleOK, [Next]_vars
  PROVE  CycleOK'
<1>1. /\ parent \in Kin /\ parent' \in Kin /\ Suites \subseteq Objects /\ None \notin Objects
      /\ OInv' /\ KinOK'
  BY ObjectNextInv, KinStep, ObjectAssumption DEF OInv, RefTypes, Kin, Objects
<1>2. CASE emission = <<>> /\ \A x \in Objects : parent'[x] \in {parent[x], None}
  <2>1. \A x \in Objects : ~Loop(parent, x)
    BY <1>2, CycleIsRounds DEF Rounds
  <2>2. \A x \in Objects : ~Loop(parent', x)
    BY <1>1, <1>2, <2>1, LoopLess
  <2> QED
    BY <2>2, CycleIsRoundsNext
<1>3. ASSUME NEW s \in Suites, NEW o \in Objects, Joins(s, o)
      PROVE  CycleOK'
  <2>1. /\ emission = <<>> /\ Live(o) /\ state' = state
        /\ parent' = [parent EXCEPT ![o] = s] /\ parent'[o] = s
        /\ emission' = <<Emitting(o)>>
    BY <1>3, JoinFacts
  <2>2. \A x \in Objects : ~Loop(parent, x)
    BY <2>1, CycleIsRounds DEF Rounds
  <2> DEFINE p == parent
             q == parent'
  <2>3. p \in Kin /\ q \in Kin /\ \A x \in Objects : x # o => q[x] = p[x]
    BY <1>1, <2>1 DEF Kin
  <2> HIDE DEF p, q
  <2>4. ASSUME NEW x \in Objects, Loop(q, x)
        PROVE  o \in Up(q, x)
    <3> SUFFICES ASSUME o \notin Up(q, x)
                 PROVE  FALSE
      OBVIOUS
    <3>1. \A y \in Up(q, x) : y \in Objects /\ p[y] = q[y]
      BY <2>3, UpLeast
    <3>2. Loop(p, x)
      <4>1. q[x] # None /\ q[x] \in Objects /\ Up(q, x) = {x} \cup Up(q, q[x])
        BY <2>3, <2>4, UpUnfold DEF Loop
      <4>2. p[x] = q[x]
        BY <2>3, <3>1, UpLeast
      <4>3. Up(p, q[x]) = Up(q, q[x])
        BY <2>3, <3>1, <4>1, UpSame
      <4> QED
        BY <2>4, <4>1, <4>2, <4>3 DEF Loop
    <3> QED
      BY <2>2, <3>2 DEF p
  <2>5. ASSUME NEW x \in Objects, Loop(q, x)
        PROVE  Rounds(Up(parent, x))'
    <3>1. o \in Up(q, x) /\ Loop(q, o) /\ Up(q, o) \subseteq Up(q, x)
      BY <2>3, <2>4, <2>5, LoopAbove, UpWithin
    <3>2. PICK y \in Up(q, o) : q[y] = o
      BY <2>3, <3>1, LoopBelow
    <3>3. y \in Objects /\ y \in Up(q, x) /\ o # None /\ o \in Suites
      BY <1>1, <2>3, <3>1, <3>2, UpLeast DEF Kin
    <3>4. o \in Suites /\ y \in ToSet(children'[o])
      BY <1>1, <2>1, <3>2, <3>3 DEF KinOK, Live, Child, q
    <3>5. PICK i \in DOMAIN children'[o] : children'[o][i] = y
      BY <3>4 DEF ToSet
    <3>6. i \in Nat /\ i >= 1
      <4>1. children'[o] \in Seq(Objects)
        BY <1>1, <3>4 DEF OInv, RefTypes
      <4>2. DOMAIN children'[o] = 1..Len(children'[o])
        BY <4>1, LenProperties
      <4> QED
        BY <3>5, <4>2
    <3>7. /\ emission' # <<>> /\ DOMAIN emission' = {1}
          /\ emission'[1].obj = o /\ emission'[1].next = 1
      BY <2>1 DEF Emitting
    <3>8. Awaited(y)'
      BY <3>4, <3>5, <3>6, <3>7 DEF Awaited, Heirs
    <3> QED
      BY <3>1, <3>3, <3>7, <3>8 DEF Rounds, q
  <2> QED
    BY <2>5, CycleIsRoundsNext DEF q
<1>4. CASE emission = <<>>
  <2>1. ASSUME NEW o \in Objects, Builds(o)
        PROVE  parent' = parent
    BY <2>1 DEF Builds, treeVars
  <2>2. CASE Steady
    BY <1>2, <1>4, <2>2 DEF Steady, treeVars
  <2>3. CASE Frees
    <3>1. parent' = [parent EXCEPT ![Head(drops)] = None]
      BY <2>3, FreeFacts
    <3>2. \A x \in Objects : parent'[x] \in {parent[x], None}
      BY <1>1, <3>1 DEF Kin
    <3> QED
      BY <1>2, <1>4, <3>2
  <2>4. ASSUME NEW o, Read(o), ~Strays(o)
        PROVE  parent' = parent
    BY <2>4 DEF Read, treeVars
  <2>5. CASE BeginTest /\ ~Strays(tests[at])
    BY <1>2, <1>4, <2>5 DEF BeginTest, treeVars
  <2>6. ~Propagate /\ ~EndEmission
    BY <1>4 DEF Propagate, EndEmission, Propagated
  <2>7. CASE parent' = parent
    BY <1>2, <1>4, <2>7
  <2> QED
    BY <1>3, <2>1, <2>2, <2>3, <2>4, <2>5, <2>6, <2>7, StepKinds
<1>5. CASE emission # <<>>
  <2>1. drops = <<>> /\ phase # "next"
    BY <1>5 DEF EmissionOK
  <2>2. CASE UNCHANGED <<parent, children, emission>>
    <3>1. \A o : Above(o)' = Above(o) /\ (OnCycle(o)' <=> OnCycle(o))
      BY <2>2, AboveIsUp, OnCycleIsLoop
    <3>2. \A x : Awaited(x)' <=> Awaited(x)
      BY <2>2 DEF Awaited, Heirs
    <3> QED
      BY <2>2, <3>1, <3>2 DEF CycleOK
  <2>3. ASSUME NEW o, Read(o), ~Strays(o)
        PROVE  UNCHANGED <<parent, children, emission>>
    BY <2>3 DEF Read, treeVars, callVars
  <2>4. CASE Propagate
    <3>1. parent' = parent
      BY <2>4 DEF Propagate, treeVars
    <3>2. \A o \in Objects : Loop(parent, o) => Rounds(Up(parent, o))'
      BY <2>4, PropagateRounds, CycleIsRounds
    <3> QED
      BY <3>1, <3>2, CycleIsRoundsNext
  <2>5. CASE EndEmission
    <3>1. parent' = parent
      BY <2>5 DEF EndEmission, treeVars
    <3>2. \A o \in Objects : Loop(parent, o) => Rounds(Up(parent, o))'
      BY <2>5, EndEmissionRounds, CycleIsRounds
    <3> QED
      BY <3>1, <3>2, CycleIsRoundsNext
  <2> QED
    BY <1>5, <2>1, <2>2, <2>3, <2>4, <2>5, InEmission DEF treeVars
<1> QED
  BY <1>4, <1>5

LEMMA CycleInv == Spec => []CycleOK
<1>1. Init => CycleOK
  <2> SUFFICES ASSUME Init
               PROVE  CycleOK
    OBVIOUS
  <2> QED
    BY DEF Init, CycleOK, OnCycle
<1>2. OInv /\ (KinOK /\ ParentsLive) /\ EmissionOK /\ CycleOK /\ [Next]_vars => CycleOK'
  BY CycleStep
<1> QED
  BY <1>1, <1>2, ObjectInv, KinInv, EmissionInv, PTL DEF Spec

(* No call of gtu_test_suite_add() that puts a suite beneath itself ever    *)
(* returns: whenever the program, a body or the run goes on, no suite is    *)
(* its own ancestor, so that every walk up or down the tree comes to an end *)
(* (test-suite.c:40-62,84-111, object.c:178-192,228-247,294-316).           *)
THEOREM NoCycleAtRest == Spec => [](emission = <<>> => \A o \in Objects : ~OnCycle(o))
<1>1. CycleOK => (emission = <<>> => \A o \in Objects : ~OnCycle(o))
  BY DEF CycleOK
<1> QED
  BY <1>1, CycleInv, PTL

-----------------------------------------------------------------------------
(* What a run collects.                                                     *)
Distinct(seq) == \A i, j \in DOMAIN seq : seq[i] = seq[j] => i = j

LEMMA ConcatSet ==
  ASSUME NEW S, NEW s \in Seq(S), NEW t \in Seq(S)
  PROVE  /\ ToSet(s \o t) = ToSet(s) \cup ToSet(t)
         /\ Distinct(s) /\ Distinct(t) /\ ToSet(s) \cap ToSet(t) = {} => Distinct(s \o t)
<1> DEFINE m == Len(s)
           n == Len(t)
           w == s \o t
<1>1. /\ m \in Nat /\ n \in Nat /\ DOMAIN s = 1..m /\ DOMAIN t = 1..n
      /\ w \in Seq(S) /\ DOMAIN w = 1..(m + n)
      /\ \A i \in 1..(m + n) : w[i] = IF i <= m THEN s[i] ELSE t[i - m]
  BY ConcatProperties, LenProperties
<1> HIDE DEF m, n, w
<1>2. \A i \in 1..(m + n) : (i <= m => i \in 1..m) /\ (~(i <= m) => i - m \in 1..n)
  BY <1>1
<1>3. (\A i \in 1..m : i \in 1..(m + n) /\ i <= m)
      /\ \A i \in 1..n : m + i \in 1..(m + n) /\ ~(m + i <= m) /\ (m + i) - m = i
  BY <1>1
<1>4. ToSet(w) \subseteq ToSet(s) \cup ToSet(t)
  BY <1>1, <1>2 DEF ToSet
<1>5. ToSet(s) \subseteq ToSet(w)
  BY <1>1, <1>3 DEF ToSet
<1>6. ToSet(t) \subseteq ToSet(w)
  <2>1. ASSUME NEW i \in 1..n
        PROVE  t[i] \in ToSet(w)
    <3>1. m + i \in 1..(m + n) /\ w[m + i] = t[i]
      BY <1>1, <1>3
    <3>2. m + i \in DOMAIN w
      BY <1>1, <3>1
    <3> QED
      BY <3>1, <3>2 DEF ToSet
  <2>2. ToSet(t) = {t[i] : i \in 1..n}
    BY <1>1 DEF ToSet
  <2> QED
    BY <2>1, <2>2
<1>7. ASSUME Distinct(s), Distinct(t), ToSet(s) \cap ToSet(t) = {}
      PROVE  Distinct(w)
  <2> SUFFICES ASSUME NEW i \in 1..(m + n), NEW j \in 1..(m + n), w[i] = w[j]
               PROVE  i = j
    BY <1>1 DEF Distinct
  <2>1. CASE i <= m /\ j <= m
    BY <1>1, <1>2, <1>7, <2>1 DEF Distinct
  <2>2. CASE ~(i <= m) /\ ~(j <= m)
    <3>1. i - m = j - m
      BY <1>1, <1>2, <1>7, <2>2 DEF Distinct
    <3> QED
      BY <1>1, <3>1
  <2>3. ASSUME NEW a \in 1..(m + n), NEW b \in 1..(m + n), a <= m, ~(b <= m)
        PROVE  w[a] # w[b]
    <3>1. w[a] \in ToSet(s) /\ w[b] \in ToSet(t)
      BY <1>1, <1>2, <2>3 DEF ToSet
    <3> QED
      BY <1>7, <3>1
  <2> QED
    BY <2>1, <2>2, <2>3
<1> QED
  BY <1>4, <1>5, <1>6, <1>7 DEF w

(* The sequences joined so far. *)
Parts(seqs, n, X) == \A k \in 1..n : seqs[k] \in Seq(X)

Joinable(seqs, n, X) ==
  \E f \in [Nat -> Seq(X)] :
    f[0] = <<>> /\ \A k \in Nat : k + 1 \in 1..n => f[k+1] = f[k] \o seqs[k+1]

LEMMA Joining ==
  ASSUME NEW X, NEW seqs, NEW n \in Nat, Parts(seqs, n, X)
  PROVE  Joinable(seqs, n, X)
<1> DEFINE T == Seq(X)
           base == <<>>
           join == [k \in Nat |-> [q \in T |-> IF k \in 1..n THEN q \o seqs[k] ELSE q]]
<1>1. base \in T
  OBVIOUS
<1>2. \A k \in 1..n, q \in T : q \o seqs[k] \in T
  BY ConcatProperties DEF Parts
<1>3. join \in [Nat -> [T -> T]]
  <2> HIDE DEF T
  <2> QED
    BY <1>2
<1>4. \E f \in [Nat -> T] : f[0] = base /\ \A k \in Nat : f[k+1] = join[k+1][f[k]]
  <2> HIDE DEF T, base, join
  <2>1. Iterable(T, base, join)
    BY <1>1, <1>3 DEF Iterable
  <2> QED
    BY <2>1, Iteration DEF Iterates
<1>5. PICK f \in [Nat -> T] : f[0] = base /\ \A k \in Nat : f[k+1] = join[k+1][f[k]]
  <2> HIDE DEF T, base, join
  <2> QED
    BY <1>4
<1>6. \A k \in 1..n, q \in T : join[k][q] = q \o seqs[k]
  <2> SUFFICES ASSUME NEW k \in 1..n, NEW q \in T
               PROVE  join[k][q] = q \o seqs[k]
    OBVIOUS
  <2>1. k \in Nat
    OBVIOUS
  <2> HIDE DEF T
  <2> QED
    BY <2>1
<1>7. \A k \in Nat : k + 1 \in 1..n => f[k+1] = f[k] \o seqs[k+1]
  <2> HIDE DEF T, join
  <2> QED
    BY <1>5, <1>6
<1> QED
  BY <1>5, <1>7 DEF Joinable

LEMMA FlattenIs ==
  ASSUME NEW X, NEW seqs \in Seq(Seq(X))
  PROVE  /\ FlattenSeq(seqs) \in Seq(X)
         /\ \A e \in ToSet(FlattenSeq(seqs)) : \E i \in DOMAIN seqs : e \in ToSet(seqs[i])
         /\ (/\ \A i \in DOMAIN seqs : Distinct(seqs[i])
             /\ \A i, j \in DOMAIN seqs : i # j => ToSet(seqs[i]) \cap ToSet(seqs[j]) = {})
            => Distinct(FlattenSeq(seqs))
<1> DEFINE n == Len(seqs)
           flatten == CHOOSE f : f = [i \in 1..n |-> IF i = 1 THEN seqs[i] ELSE f[i-1] \o seqs[i]]
<1>1. n \in Nat /\ DOMAIN seqs = 1..n /\ \A i \in 1..n : seqs[i] \in Seq(X)
  BY LenProperties, ElementOfSeq
<1>2. FlattenSeq(seqs) = IF n = 0 THEN seqs ELSE flatten[n]
  BY DEF FlattenSeq
<1>3. CASE n = 0
  <2>1. seqs = <<>>
    BY <1>3, EmptySeq
  <2>2. FlattenSeq(seqs) = <<>>
    BY <1>2, <1>3, <2>1
  <2>3. ToSet(<<>>) = {} /\ <<>> \in Seq(X) /\ DOMAIN <<>> = {}
    BY DEF ToSet
  <2> QED
    BY <2>2, <2>3 DEF Distinct
<1>4. CASE n # 0
  <2>4. PICK f \in [Nat -> Seq(X)] :
          f[0] = <<>> /\ \A k \in Nat : k + 1 \in 1..n => f[k+1] = f[k] \o seqs[k+1]
    <3>1. Parts(seqs, n, X)
      BY <1>1 DEF Parts
    <3> HIDE DEF n
    <3>2. Joinable(seqs, n, X)
      BY <1>1, <3>1, Joining
    <3> QED
      BY <3>2 DEF Joinable
  <2>5. \A i \in 1..n : f[i] = IF i = 1 THEN seqs[i] ELSE f[i-1] \o seqs[i]
    <3> SUFFICES ASSUME NEW i \in 1..n
                 PROVE  f[i] = IF i = 1 THEN seqs[i] ELSE f[i-1] \o seqs[i]
      OBVIOUS
    <3>1. i - 1 \in Nat /\ (i - 1) + 1 = i
      BY <1>1
    <3>4. f[i] = f[i-1] \o seqs[i]
      BY <2>4, <3>1
    <3>5. CASE i = 1
      <4>1. f[i-1] = <<>>
        BY <2>4, <3>5
      <4>2. <<>> \o seqs[i] = seqs[i]
        BY <1>1, ConcatEmptySeq
      <4> QED
        BY <3>4, <3>5, <4>1, <4>2
    <3> QED
      BY <3>4, <3>5
  <2> DEFINE g == [i \in 1..n |-> f[i]]
  <2>6. g = [i \in 1..n |-> IF i = 1 THEN seqs[i] ELSE g[i-1] \o seqs[i]]
    <3>1. \A i \in 1..n : i # 1 => i - 1 \in 1..n
      BY <1>1
    <3>2. \A i \in 1..n : i # 1 => g[i-1] = f[i-1]
      BY <3>1
    <3> QED
      BY <2>5, <3>2
  <2>7. flatten = [i \in 1..n |-> IF i = 1 THEN seqs[i] ELSE flatten[i-1] \o seqs[i]]
    <3> HIDE DEF g
    <3> QED
      BY <2>6
  <2> HIDE DEF flatten, g
  <2>8. flatten[1] = seqs[1]
    BY <1>1, <1>4, <2>7
  <2>9. \A k \in Nat : k # 0 /\ k + 1 \in 1..n => flatten[k+1] = flatten[k] \o seqs[k+1]
    <3> SUFFICES ASSUME NEW k \in Nat, k # 0, k + 1 \in 1..n
                 PROVE  flatten[k+1] = flatten[k] \o seqs[k+1]
      OBVIOUS
    <3>1. k + 1 # 1 /\ (k + 1) - 1 = k
      OBVIOUS
    <3>2. flatten[k+1] = IF k + 1 = 1 THEN seqs[k+1] ELSE flatten[(k+1)-1] \o seqs[k+1]
      BY <2>7
    <3> QED
      BY <3>1, <3>2
  <2> DEFINE Apart == /\ \A i \in 1..n : Distinct(seqs[i])
                      /\ \A i, j \in 1..n : i # j => ToSet(seqs[i]) \cap ToSet(seqs[j]) = {}
             Good == {k \in Nat : k \in 1..n =>
                        /\ flatten[k] \in Seq(X)
                        /\ \A e \in ToSet(flatten[k]) : \E i \in 1..k : e \in ToSet(seqs[i])
                        /\ Apart => Distinct(flatten[k])}
  <2>10. 0 \in Good
    BY <1>1
  <2>11. ASSUME NEW k \in Nat, k \in Good
         PROVE  k + 1 \in Good
    <3> SUFFICES ASSUME k + 1 \in 1..n
                 PROVE  /\ flatten[k+1] \in Seq(X)
                        /\ \A e \in ToSet(flatten[k+1]) : \E i \in 1..(k+1) : e \in ToSet(seqs[i])
                        /\ Apart => Distinct(flatten[k+1])
      <4>1. k + 1 \in Nat
        OBVIOUS
      <4> HIDE DEF Apart
      <4> QED
        BY <4>1
    <3>1. CASE k = 0
      <4>1. k + 1 = 1 /\ 1 \in 1..n /\ 1 \in 1..1
        BY <3>1
      <4> QED
        BY <1>1, <2>8, <4>1
    <3>2. CASE k # 0
      <4>0. k + 1 <= n /\ k >= 1
        BY <1>1, <3>2
      <4>1. /\ k \in 1..n /\ k + 1 \in 1..(k+1)
            /\ \A i \in 1..k : i \in 1..(k+1) /\ i \in 1..n /\ i # k + 1
        <5> HIDE DEF n
        <5> QED
          BY <1>1, <4>0
      <4>2. /\ flatten[k] \in Seq(X)
            /\ \A e \in ToSet(flatten[k]) : \E i \in 1..k : e \in ToSet(seqs[i])
            /\ Apart => Distinct(flatten[k])
        BY <2>11, <4>1
      <4>3. flatten[k+1] = flatten[k] \o seqs[k+1] /\ seqs[k+1] \in Seq(X)
        BY <1>1, <2>9, <3>2
      <4>4. /\ ToSet(flatten[k+1]) = ToSet(flatten[k]) \cup ToSet(seqs[k+1])
            /\ Distinct(flatten[k]) /\ Distinct(seqs[k+1])
                 /\ ToSet(flatten[k]) \cap ToSet(seqs[k+1]) = {} => Distinct(flatten[k+1])
            /\ flatten[k+1] \in Seq(X)
        <5>1. flatten[k] \in Seq(X) /\ seqs[k+1] \in Seq(X)
          BY <4>2, <4>3
        <5>2. flatten[k] \o seqs[k+1] \in Seq(X)
          BY <5>1, ConcatProperties
        <5>3. /\ ToSet(flatten[k] \o seqs[k+1]) = ToSet(flatten[k]) \cup ToSet(seqs[k+1])
              /\ Distinct(flatten[k]) /\ Distinct(seqs[k+1])
                   /\ ToSet(flatten[k]) \cap ToSet(seqs[k+1]) = {}
                   => Distinct(flatten[k] \o seqs[k+1])
          BY <5>1, ConcatSet
        <5> QED
          BY <4>3, <5>2, <5>3
      <4>5. \A e \in ToSet(flatten[k+1]) : \E i \in 1..(k+1) : e \in ToSet(seqs[i])
        BY <4>1, <4>2, <4>4
      <4>6. ASSUME Apart
            PROVE  Distinct(flatten[k+1])
        <5>1. ToSet(flatten[k]) \cap ToSet(seqs[k+1]) = {}
          BY <4>1, <4>2, <4>6
        <5> QED
          BY <4>2, <4>4, <4>6, <5>1
      <4> HIDE DEF Apart
      <4> QED
        BY <4>4, <4>5, <4>6
    <3> QED
      BY <3>1, <3>2
  <2>12. Nat \subseteq Good
    <3> HIDE DEF Good
    <3> QED
      BY <2>10, <2>11, SetInduction
  <2>13. n \in 1..n
    BY <1>1, <1>4
  <2> QED
    BY <1>1, <1>2, <1>4, <2>12, <2>13
<1> QED
  BY <1>3, <1>4

(* Without cycles, some member of any set of objects has no child in it. *)
LEMMA Lowest ==
  ASSUME OInv, \A x \in Objects : ~Loop(parent, x),
         NEW T, T \subseteq Objects, T # {}
  PROVE  \E x \in T : x \in Suites => \A i \in DOMAIN children[x] : children[x][i] \notin T
<1> SUFFICES ASSUME \A x \in T : x \in Suites /\ \E i \in DOMAIN children[x] : children[x][i] \in T
             PROVE  FALSE
  OBVIOUS
<1> DEFINE others == {Objects \ Up(parent, x) : x \in T}
<1>1. IsFiniteSet(Objects) /\ parent \in Kin
  BY ObjectAssumption DEF OInv, RefTypes, Kin
<1>2. others \subseteq SUBSET Objects /\ others # {}
  OBVIOUS
<1>3. PICK L \in others : \A B \in others : B \subseteq L => B = L
  <2> HIDE DEF others
  <2> QED
    BY <1>1, <1>2, MinimalSubset
<1>4. PICK x \in T : L = Objects \ Up(parent, x)
  BY <1>3
<1>5. PICK i \in DOMAIN children[x] : children[x][i] \in T
  BY <1>4
<1> DEFINE c == children[x][i]
<1>6. x \in Suites /\ x \in Objects /\ c \in T /\ c \in Objects /\ Child(c, x)
  BY <1>4, <1>5 DEF Child, ToSet
<1>7. parent[c] = x /\ x # None
  BY <1>6, ObjectAssumption DEF OInv, PlaceOK
<1> HIDE DEF c
<1>8. Up(parent, c) = {c} \cup Up(parent, x)
  BY <1>1, <1>6, <1>7, UpUnfold
<1>9. Objects \ Up(parent, c) = Objects \ Up(parent, x)
  <2>1. Objects \ Up(parent, c) \in others
    BY <1>6
  <2>2. Objects \ Up(parent, c) \subseteq L
    BY <1>4, <1>8
  <2> QED
    BY <1>3, <1>4, <2>1, <2>2
<1>10. c \in Up(parent, x)
  BY <1>6, <1>8, <1>9
<1> QED
  BY <1>6, <1>7, <1>10 DEF Loop

(* f is what is collected, for each object in A. *)
Collecting(A, f) ==
  \A x \in A :
    f[x] = IF x \in Cases THEN <<x>>
           ELSE FlattenSeq([i \in DOMAIN children[x] |-> f[children[x][i]]])

LEMMA PartsCollected ==
  ASSUME OInv, NEW x \in Suites, NEW f,
         \A i \in DOMAIN children[x] : f[children[x][i]] \in Seq(Cases)
  PROVE  [i \in DOMAIN children[x] |-> f[children[x][i]]] \in Seq(Seq(Cases))
<1>1. children[x] \in Seq(Objects)
  BY DEF OInv, RefTypes
<1>2. DOMAIN children[x] = 1..Len(children[x]) /\ Len(children[x]) \in Nat
  BY <1>1, LenProperties
<1>3. [i \in DOMAIN children[x] |-> f[children[x][i]]] \in [1..Len(children[x]) -> Seq(Cases)]
  BY <1>2
<1> QED
  BY <1>2, <1>3, SeqDef

LEMMA CollectExists ==
  ASSUME OInv, \A x \in Objects : ~Loop(parent, x)
  PROVE  \E f \in [Objects -> Seq(Cases)] : Collecting(Objects, f)
<1> DEFINE full(A) == \A x \in A : x \in Suites =>
                        \A i \in DOMAIN children[x] : children[x][i] \in A
           done == {A \in SUBSET Objects :
                      full(A) /\ \E f \in [A -> Seq(Cases)] : Collecting(A, f)}
           rest == {Objects \ A : A \in done}
<1>1. IsFiniteSet(Objects) /\ Suites \cap Cases = {} /\ Objects = Suites \cup Cases
  BY ObjectAssumption DEF Objects
<1>2. {} \in done
  <2>1. full({}) /\ [x \in {} |-> <<>>] \in [{} -> Seq(Cases)]
    OBVIOUS
  <2>2. Collecting({}, [x \in {} |-> <<>>])
    BY DEF Collecting
  <2> QED
    BY <2>1, <2>2
<1>3. PICK T \in rest : \A B \in rest : B \subseteq T => B = T
  <2>1. rest \subseteq SUBSET Objects /\ Objects \ {} \in rest
    <3> HIDE DEF done
    <3> QED
      BY <1>2
  <2> HIDE DEF rest
  <2> QED
    BY <1>1, <2>1, MinimalSubset
<1>4. PICK A \in done : T = Objects \ A
  BY <1>3
<1>5. A \subseteq Objects /\ full(A)
  BY <1>4
<1>6. PICK f \in [A -> Seq(Cases)] : Collecting(A, f)
  BY <1>4
<1>7. CASE T = {}
  <2>1. A = Objects
    BY <1>4, <1>5, <1>7
  <2> QED
    BY <1>6, <2>1
<1>8. CASE T # {}
  <2>1. PICK x \in T : x \in Suites => \A i \in DOMAIN children[x] : children[x][i] \notin T
    <3>1. T \subseteq Objects
      BY <1>4
    <3> HIDE DEF rest, done
    <3> QED
      BY <1>8, <3>1, Lowest
  <2>2. x \in Objects /\ x \notin A
    BY <1>4, <2>1
  <2>3. x \in Suites => \A i \in DOMAIN children[x] : children[x][i] \in A
    <3> SUFFICES ASSUME x \in Suites, NEW i \in DOMAIN children[x]
                 PROVE  children[x][i] \in A
      OBVIOUS
    <3>1. children[x][i] \in Objects
      BY DEF OInv, RefTypes
    <3> QED
      BY <1>4, <2>1, <3>1
  <2> DEFINE own == IF x \in Cases THEN <<x>>
                    ELSE FlattenSeq([i \in DOMAIN children[x] |-> f[children[x][i]]])
             g == [y \in A \cup {x} |-> IF y = x THEN own ELSE f[y]]
  <2>4. own \in Seq(Cases)
    <3>1. CASE x \in Cases
      BY <3>1
    <3>2. CASE x \notin Cases
      <4>1. x \in Suites
        BY <1>1, <2>2, <3>2
      <4>2. [i \in DOMAIN children[x] |-> f[children[x][i]]] \in Seq(Seq(Cases))
        BY <2>3, <4>1, PartsCollected
      <4> QED
        BY <3>2, <4>2, FlattenIs
    <3> QED
      BY <3>1, <3>2
  <2>5. g \in [A \cup {x} -> Seq(Cases)]
    <3> HIDE DEF own
    <3> QED
      BY <2>4
  <2>6. Collecting(A \cup {x}, g)
    <3> SUFFICES ASSUME NEW y \in A \cup {x}
                 PROVE  g[y] = IF y \in Cases THEN <<y>>
                               ELSE FlattenSeq([i \in DOMAIN children[y] |-> g[children[y][i]]])
      BY DEF Collecting
    <3>1. y \in Suites => \A i \in DOMAIN children[y] : children[y][i] \in A
      BY <1>5, <2>3
    <3>2. y \in Suites => [i \in DOMAIN children[y] |-> g[children[y][i]]]
                            = [i \in DOMAIN children[y] |-> f[children[y][i]]]
      <4> HIDE DEF own
      <4> QED
        BY <2>2, <3>1
    <3>3. y \in Suites \/ y \in Cases
      BY <1>1, <1>5, <2>2
    <3>4. CASE y = x
      BY <1>1, <3>2, <3>3, <3>4
    <3>5. CASE y # x
      <4>1. y \in A /\ g[y] = f[y]
        BY <3>5
      <4> QED
        BY <1>6, <3>2, <3>3, <4>1 DEF Collecting
    <3> QED
      BY <3>4, <3>5
  <2>7. A \cup {x} \in done
    <3>1. full(A \cup {x})
      BY <1>5, <2>3
    <3> HIDE DEF g, full
    <3> QED
      BY <1>5, <2>2, <2>5, <2>6, <3>1
  <2>8. Objects \ (A \cup {x}) \in rest
    <3> HIDE DEF done
    <3> QED
      BY <2>7
  <2>9. Objects \ (A \cup {x}) \subseteq T /\ Objects \ (A \cup {x}) # T
    BY <1>4, <2>1, <2>2
  <2> QED
    BY <1>3, <2>8, <2>9
<1> QED
  BY <1>7, <1>8

(* A run collects cases beneath its suite, each of them once. *)
LEMMA CollectedFacts ==
  ASSUME OInv, \A x \in Objects : ~Loop(parent, x), NEW s \in Suites
  PROVE  /\ Collected(s) \in Seq(Cases)
         /\ Distinct(Collected(s))
         /\ \A c \in ToSet(Collected(s)) : s \in Up(parent, c)
<1> DEFINE collect == CHOOSE f : f = [x \in Objects |->
              IF x \in Cases THEN <<x>>
              ELSE FlattenSeq([i \in DOMAIN children[x] |-> f[children[x][i]]])]
           parts(x) == [i \in DOMAIN children[x] |-> collect[children[x][i]]]
           good(x) == /\ collect[x] \in Seq(Cases)
                      /\ Distinct(collect[x])
                      /\ \A c \in ToSet(collect[x]) : x \in Up(parent, c)
<1>1. Collected(s) = collect[s]
  BY DEF Collected
<1>2. PICK f \in [Objects -> Seq(Cases)] : Collecting(Objects, f)
  BY CollectExists
<1>3. f = [x \in Objects |->
              IF x \in Cases THEN <<x>>
              ELSE FlattenSeq([i \in DOMAIN children[x] |-> f[children[x][i]]])]
  BY <1>2 DEF Collecting
<1>4. collect = [x \in Objects |->
              IF x \in Cases THEN <<x>>
              ELSE FlattenSeq([i \in DOMAIN children[x] |-> collect[children[x][i]]])]
  BY <1>3
<1> HIDE DEF collect
<1>5. Suites \cap Cases = {} /\ Objects = Suites \cup Cases /\ parent \in Kin
  BY ObjectAssumption DEF Objects, OInv, RefTypes, Kin
<1>6. ASSUME NEW x \in Cases
      PROVE  good(x)
  <2>1. collect[x] = <<x>> /\ x \in Objects
    BY <1>4, <1>5
  <2>2. <<x>> \in Seq(Cases) /\ Distinct(<<x>>) /\ ToSet(<<x>>) = {x}
    BY DEF Distinct, ToSet
  <2>3. x \in Up(parent, x)
    BY <1>5, <2>1, UpLeast
  <2> QED
    BY <2>1, <2>2, <2>3
<1>7. ASSUME NEW x \in Suites, \A i \in DOMAIN children[x] : good(children[x][i])
      PROVE  good(x)
  <2>1. collect[x] = FlattenSeq(parts(x)) /\ x \in Objects
    BY <1>4, <1>5
  <2>2. parts(x) \in Seq(Seq(Cases))
    BY <1>7, PartsCollected
  <2>3. /\ DOMAIN parts(x) = DOMAIN children[x]
        /\ \A i \in DOMAIN children[x] : parts(x)[i] = collect[children[x][i]]
    OBVIOUS
  <2>4. \A i \in DOMAIN children[x] : children[x][i] \in Objects /\ parent[children[x][i]] = x
    <3> SUFFICES ASSUME NEW i \in DOMAIN children[x]
                 PROVE  children[x][i] \in Objects /\ parent[children[x][i]] = x
      OBVIOUS
    <3>1. children[x][i] \in Objects
      BY DEF OInv, RefTypes
    <3>2. Child(children[x][i], x)
      BY DEF Child, ToSet
    <3> QED
      BY <3>1, <3>2 DEF OInv, PlaceOK
  <2>5. \A i, j \in DOMAIN children[x] : children[x][i] = children[x][j] => i = j
    BY DEF OInv, PlaceOK
  <2>6. \A i \in DOMAIN children[x] : Distinct(collect[children[x][i]])
    BY <1>7
  <2>7. \A i \in DOMAIN children[x] : \A c \in ToSet(collect[children[x][i]]) :
          c \in Objects /\ children[x][i] \in Up(parent, c)
    <3> SUFFICES ASSUME NEW i \in DOMAIN children[x], NEW c \in ToSet(collect[children[x][i]])
                 PROVE  c \in Objects /\ children[x][i] \in Up(parent, c)
      OBVIOUS
    <3>1. collect[children[x][i]] \in Seq(Cases)
      BY <1>7
    <3>2. c \in Cases
      BY <3>1 DEF ToSet
    <3> QED
      BY <1>5, <1>7, <3>2
  <2>8. ASSUME NEW i \in DOMAIN children[x], NEW j \in DOMAIN children[x], i # j
        PROVE  ToSet(collect[children[x][i]]) \cap ToSet(collect[children[x][j]]) = {}
    <3> SUFFICES ASSUME NEW c \in ToSet(collect[children[x][i]]),
                        c \in ToSet(collect[children[x][j]])
                 PROVE  FALSE
      OBVIOUS
    <3> DEFINE a == children[x][i]
               b == children[x][j]
    <3>1. /\ a \in Up(parent, c) /\ b \in Up(parent, c) /\ c \in Objects
          /\ a \in Objects /\ b \in Objects /\ parent[a] = x /\ parent[b] = x /\ a # b
      BY <2>4, <2>5, <2>7, <2>8
    <3> HIDE DEF a, b
    <3>2. x # None
      BY ObjectAssumption, <1>5
    <3>3. a \in Up(parent, b) \/ b \in Up(parent, a)
      BY <1>5, <3>1, UpLinear
    <3>4. ASSUME NEW u \in Objects, NEW v \in Objects, parent[u] = x, parent[v] = x, u # v,
                 u \in Up(parent, v)
          PROVE  FALSE
      <4>1. u \in Up(parent, parent[u])
        BY <1>5, <3>2, <3>4, UpUnfold
      <4> QED
        BY <3>2, <3>4, <4>1 DEF Loop
    <3> QED
      BY <3>1, <3>3, <3>4
  <2> DEFINE seqs == parts(x)
  <2>9. /\ \A i \in DOMAIN seqs : Distinct(seqs[i])
        /\ \A i, j \in DOMAIN seqs : i # j => ToSet(seqs[i]) \cap ToSet(seqs[j]) = {}
    BY <2>3, <2>6, <2>8
  <2>10. \A i \in DOMAIN seqs : \A c \in ToSet(seqs[i]) : x \in Up(parent, c)
    <3> SUFFICES ASSUME NEW i \in DOMAIN children[x], NEW c \in ToSet(collect[children[x][i]])
                 PROVE  x \in Up(parent, c)
      BY <2>3
    <3>1. c \in Objects /\ children[x][i] \in Up(parent, c) /\ parent[children[x][i]] = x
      BY <2>4, <2>7
    <3>2. x # None
      BY ObjectAssumption, <1>5
    <3> QED
      BY <1>5, <3>1, <3>2, UpLeast DEF Closed
  <2> HIDE DEF seqs
  <2>11. seqs \in Seq(Seq(Cases)) /\ collect[x] = FlattenSeq(seqs)
    BY <2>1, <2>2 DEF seqs
  <2>12. /\ FlattenSeq(seqs) \in Seq(Cases)
         /\ \A e \in ToSet(FlattenSeq(seqs)) : \E i \in DOMAIN seqs : e \in ToSet(seqs[i])
         /\ Distinct(FlattenSeq(seqs))
    BY <2>9, <2>11, FlattenIs
  <2> QED
    BY <2>10, <2>11, <2>12
<1>8. \A x \in Objects : good(x)
  <2> DEFINE bad == {x \in Objects : ~good(x)}
  <2> SUFFICES ASSUME bad # {}
               PROVE  FALSE
    OBVIOUS
  <2>1. PICK x \in bad : x \in Suites => \A i \in DOMAIN children[x] : children[x][i] \notin bad
    <3>1. bad \subseteq Objects
      OBVIOUS
    <3> HIDE DEF bad
    <3> QED
      BY <3>1, Lowest
  <2>2. x \in Suites => \A i \in DOMAIN children[x] : good(children[x][i])
    <3> SUFFICES ASSUME x \in Suites, NEW i \in DOMAIN children[x]
                 PROVE  good(children[x][i])
      OBVIOUS
    <3>1. children[x][i] \in Objects
      BY DEF OInv, RefTypes
    <3> HIDE DEF good
    <3> QED
      BY <2>1, <3>1
  <2> HIDE DEF good
  <2> QED
    BY <1>5, <1>6, <1>7, <2>1, <2>2
<1> QED
  BY <1>1, <1>5, <1>8

RunGoesOn ==
  /\ tests' = tests /\ root' = root /\ at' \in {at, at + 1}
  /\ (phase = "program") <=> (phase' = "program")

LEMMA RunKinds ==
  ASSUME OInv, [Next]_vars
  PROVE  \/ RunGoesOn
         \/ \E s \in Suites : Run(s) /\ ~hasRun
         \/ EndRun
<1>1. CASE UNCHANGED runVars
  BY <1>1 DEF runVars, RunGoesOn
<1>2. ASSUME NEW how, EndProcess(how)
      PROVE  UNCHANGED runVars
  BY <1>2 DEF EndProcess
<1>3. ASSUME NEW o \in Objects,
             New(o) \/ RefuseNew(o) \/ Ref(o) \/ RefSink(o) \/ Unref(o) \/ Read(o)
      PROVE  UNCHANGED runVars
  BY <1>2, <1>3 DEF New, RefuseNew, Ref, RefSink, Unref, Read
<1>4. ASSUME ValueStep
      PROVE  UNCHANGED runVars
  BY <1>2, <1>4 DEF ValueStep, CollectValue, CopyValue, LcopyValue, FreeValue
<1>5. ASSUME NEW c \in Cases, NEW o \in Shared, NewCase(c, o)
      PROVE  UNCHANGED runVars
  BY <1>5 DEF NewCase
<1>6. ASSUME NEW s \in Suites, NEW o \in Objects, Add(s, o)
      PROVE  UNCHANGED runVars
  BY <1>2, <1>6 DEF Add
<1>7. ASSUME CallStep
      PROVE  UNCHANGED runVars
  BY <1>7 DEF CallStep, Drop, Propagate, EndEmission
<1>8. ASSUME NEW s \in Suites, Run(s), hasRun
      PROVE  UNCHANGED runVars
  BY <1>2, <1>8 DEF Run
<1>9. CASE BeginTest
  BY <1>2, <1>9 DEF BeginTest, RunGoesOn, runVars
<1>10. ASSUME NEW c \in Cases, EndBody(c)
       PROVE  RunGoesOn
  BY <1>10 DEF EndBody, RunGoesOn
<1>11. CASE Report
  BY <1>2, <1>11 DEF Report, RunGoesOn, runVars
<1>12. CASE UNCHANGED vars
  BY <1>1, <1>12 DEF vars
<1> QED
  BY <1>1, <1>3, <1>4, <1>5, <1>6, <1>7, <1>8, <1>9, <1>10, <1>11, <1>12
     DEF Next, ProgramStep, RunStep, Stop

(* What is beneath the suite being run stays there: a suite that is freed   *)
(* is nobody's child, and none of those above it is alive.                  *)
LEMMA StaysBelow ==
  ASSUME OInv, KinOK, [Next]_vars, NEW o \in Objects, root # None, root \in Up(parent, o)
  PROVE  root \in Up(parent', o)
<1>1. /\ parent \in Kin /\ parent' \in Kin /\ root \in Objects
      /\ Suites \subseteq Objects /\ None \notin Objects
  BY ObjectNextInv, ObjectAssumption DEF OInv, RefTypes, Kin, Objects
<1>2. CASE parent' = parent
  BY <1>2
<1>3. ASSUME NEW s \in Suites, NEW x \in Objects, Joins(s, x)
      PROVE  root \in Up(parent', o)
  <2>1. parent[x] = None /\ parent' = [parent EXCEPT ![x] = s]
    BY <1>3, JoinFacts
  <2>2. \A y \in Objects : parent[y] \in {parent'[y], None}
    BY <1>1, <2>1 DEF Kin
  <2>3. Up(parent, o) \subseteq Up(parent', o)
    BY <1>1, <2>2, UpLess
  <2> QED
    BY <2>3
<1>4. CASE Frees
  <2> DEFINE x == Head(drops)
             p == parent
             q == parent'
  <2>1. /\ x \in Objects /\ root # x /\ \A s \in Suites : ~Child(x, s)
        /\ parent' = [parent EXCEPT ![x] = None]
    BY <1>4, FreeFacts
  <2>2. CASE parent[x] = None
    <3>1. parent' = parent
      BY <1>1, <2>1, <2>2 DEF Kin
    <3> QED
      BY <3>1
  <2>3. CASE parent[x] # None
    <3>1. parent[x] \in Suites /\ parent[x] \in Objects /\ ~Live(parent[x])
      BY <1>1, <2>1, <2>3 DEF KinOK, Kin
    <3>2. parent[parent[x]] = None
      BY <3>1 DEF KinOK
    <3>3. Up(p, x) = {x, p[x]}
      BY <1>1, <2>1, <3>1, <3>2, UpUnfold
    <3>4. root # parent[x]
      BY <1>1, <3>1, Unowned
    <3>5. Closed(p, Up(q, o) \cup Up(p, x))
      <4> SUFFICES ASSUME NEW y \in Up(q, o) \cup Up(p, x)
                   PROVE  p[y] \in Up(q, o) \cup Up(p, x) \cup {None}
        BY DEF Closed
      <4>1. CASE y \in Up(p, x)
        BY <1>1, <2>1, <4>1, UpLeast DEF Closed
      <4>2. CASE y \in Up(q, o) /\ y \notin Up(p, x)
        <5>1. y \in Objects /\ y # x
          BY <1>1, <2>1, <4>2, UpLeast
        <5>2. q[y] = p[y]
          BY <1>1, <2>1, <5>1 DEF Kin
        <5>3. q[y] \in Up(q, o) \cup {None}
          BY <1>1, <4>2, UpLeast DEF Closed
        <5> QED
          BY <5>2, <5>3
      <4> QED
        BY <4>1, <4>2
    <3>6. o \in Up(q, o)
      BY <1>1, UpLeast
    <3> HIDE DEF p, q, x
    <3>7. p \in Kin
      BY <1>1 DEF p
    <3>8. Up(p, o) \subseteq Up(q, o) \cup Up(p, x)
      BY <3>5, <3>6, <3>7, UpLeast
    <3> QED
      BY <2>1, <3>3, <3>4, <3>8 DEF p, q
  <2> QED
    BY <2>2, <2>3
<1>5. ASSUME NEW x \in Objects, Builds(x) \/ (Read(x) /\ ~Strays(x))
      PROVE  parent' = parent
  BY <1>5 DEF Builds, Read, treeVars
<1>6. CASE Steady \/ Propagate \/ EndEmission \/ (BeginTest /\ ~Strays(tests[at]))
  BY <1>2, <1>6 DEF Steady, Propagate, EndEmission, BeginTest, treeVars
<1> QED
  BY <1>2, <1>3, <1>4, <1>5, <1>6, StepKinds

LEMMA RunStepOK ==
  ASSUME OInv, KinOK, CycleOK, RunOK, [Next]_vars
  PROVE  RunOK'
<1>1. \A o : Above(o) = Up(parent, o) /\ Above(o)' = Up(parent', o)
  BY AboveIsUp
<1>2. CASE RunGoesOn
  <2>1. /\ tests' = tests /\ root' = root /\ at' \in {at, at + 1}
        /\ (phase = "program") <=> (phase' = "program")
    BY <1>2 DEF RunGoesOn
  <2>2. ASSUME NEW i \in DOMAIN tests
        PROVE  root \in Up(parent', tests[i])
    <3>1. tests[i] \in Objects /\ root \in Up(parent, tests[i])
      BY <1>1 DEF RunOK, Objects
    <3>2. root # None
      <4>1. Up(parent, tests[i]) \subseteq Objects
        <5>1. parent \in Kin
          BY DEF OInv, RefTypes, Kin
        <5> QED
          BY <3>1, <5>1, UpLeast
      <4> QED
        BY <3>1, <4>1, ObjectAssumption
    <3> QED
      BY <3>1, <3>2, StaysBelow
  <2>3. at' \in Nat /\ (phase' # "program" => at' > 0)
    BY <2>1 DEF RunOK
  <2>4. \A i \in DOMAIN tests : root' \in Above(tests[i])'
    BY <1>1, <2>1, <2>2
  <2> QED
    BY <2>1, <2>3, <2>4, <1>1, <2>2 DEF RunOK
<1>3. ASSUME NEW s \in Suites, Run(s), ~hasRun
      PROVE  RunOK'
  <2>1. /\ emission = <<>> /\ root' = s /\ tests' = Collected(s) /\ at' = 1
        /\ phase' = "next" /\ parent' = parent
    BY <1>3 DEF Run, Calls, InCall, treeVars
  <2>2. \A o \in Objects : ~Loop(parent, o)
    BY <2>1, CycleIsRounds DEF Rounds
  <2>3. /\ tests' \in Seq(Cases)
        /\ Distinct(tests')
        /\ \A c \in ToSet(tests') : s \in Up(parent, c)
    BY <2>1, <2>2, CollectedFacts
  <2>4. \A i \in DOMAIN tests' : s \in Up(parent', tests'[i])
    BY <2>1, <2>3 DEF ToSet
  <2>5. \A i \in DOMAIN tests' : root' \in Above(tests[i])'
    BY <1>1, <2>1, <2>4
  <2>6. tests' \in Seq(Cases) /\ at' \in Nat /\ at' > 0
    BY <2>1, <2>3
  <2>7. \A i, j \in DOMAIN tests' : tests'[i] = tests'[j] => i = j
    BY <2>3 DEF Distinct
  <2> QED
    BY <2>1, <2>5, <2>6, <2>7 DEF RunOK
<1>4. CASE EndRun
  <2>1. phase' = "program" /\ tests' = <<>> /\ at' = 0
    BY <1>4 DEF EndRun
  <2> QED
    BY <2>1 DEF RunOK
<1> QED
  BY <1>2, <1>3, <1>4, RunKinds

LEMMA RunOKInv == Spec => []RunOK
<1>1. Init => RunOK
  BY DEF Init, RunOK
<1>2. OInv /\ (KinOK /\ ParentsLive) /\ CycleOK /\ RunOK /\ [Next]_vars => RunOK'
  BY RunStepOK
<1> QED
  BY <1>1, <1>2, ObjectInv, KinInv, CycleInv, PTL DEF Spec

(* The run holds bare pointers to the cases it collected.  Whatever         *)
(* references the bodies drop and whatever they add to which suite, each    *)
(* case lives until the run is over, as all that is between it and the      *)
(* suite of the run does, and none is there twice (test-suite.c:40-77).     *)
THEOREM CollectedLive == Spec => []CollectedAlive
<1>1. ASSUME OInv, KinOK, RunOK
      PROVE  CollectedAlive
  <2>1. /\ tests \in Seq(Cases) /\ parent \in Kin
        /\ DOMAIN tests = 1..Len(tests) /\ Len(tests) \in Nat
        /\ \A i \in DOMAIN tests : tests[i] \in Cases /\ root \in Up(parent, tests[i])
    BY <1>1, AboveIsUp, LenProperties, ElementOfSeq DEF RunOK, OInv, RefTypes, Kin
  <2>2. ASSUME NEW i \in DOMAIN tests
        PROVE  Live(tests[i])
    <3> SUFFICES ASSUME ~Live(tests[i])
                 PROVE  FALSE
      OBVIOUS
    <3>1. tests[i] \in Objects /\ tests[i] \in Cases
      BY <2>1 DEF Objects
    <3>2. parent[tests[i]] = None
      BY <1>1, <3>1 DEF KinOK
    <3>3. root = tests[i]
      BY <2>1, <3>1, <3>2, UpUnfold
    <3>4. root \in Suites \cup {None}
      BY <1>1 DEF OInv, RefTypes
    <3> QED
      BY <3>1, <3>3, <3>4, ObjectAssumption
  <2>3. Cardinality(ToSet(tests)) = Len(tests)
    <3> DEFINE I == 1..Len(tests)
               f == [i \in I |-> tests[i]]
    <3>1. f \in Bijection(I, ToSet(tests))
      <4>1. f \in [I -> ToSet(tests)]
        BY <2>1 DEF ToSet
      <4>2. \A i, j \in I : f[i] = f[j] => i = j
        BY <1>1, <2>1 DEF RunOK
      <4>3. \A e \in ToSet(tests) : \E i \in I : f[i] = e
        BY <2>1 DEF ToSet
      <4> HIDE DEF f, I
      <4> QED
        BY <4>1, <4>2, <4>3 DEF Bijection, Injection, IsInjective, Surjection
    <3>2. IsFiniteSet(I) /\ Cardinality(I) = Len(tests)
      <4>1. /\ IsFiniteSet(1..Len(tests))
            /\ Cardinality(1..Len(tests)) = IF 1 > Len(tests) THEN 0 ELSE Len(tests) - 1 + 1
        BY <2>1, FS_Interval
      <4>2. Len(tests) \in Nat
        BY <2>1
      <4> HIDE DEF f
      <4> QED
        BY <4>1, <4>2 DEF I
    <3> HIDE DEF f, I
    <3> QED
      BY <3>1, <3>2, FS_Bijection DEF ExistsBijection
  <2> QED
    BY <2>2, <2>3 DEF CollectedAlive
<1> QED
  BY <1>1, ObjectInv, KinInv, RunOKInv, PTL

-----------------------------------------------------------------------------
(* Cached paths.                                                            *)

(* What gtu_test_object_get_path() builds on its way up from o. *)
LEMMA UnbuiltFacts ==
  ASSUME OInv, NEW o \in Objects, \A x \in Above(o) : ~OnCycle(x), ~Strays(o),
         NEW x \in Unbuilt(o)
  PROVE  /\ x \in Above(o) /\ x \in Objects /\ path[x] = <<>> /\ Live(x)
         /\ parent[x] # None =>
              /\ parent[x] \in Above(o) /\ parent[x] \in Objects
              /\ path[parent[x]] = <<>> /\ Live(parent[x]) => parent[x] \in Unbuilt(o)
<1> DEFINE p == parent
           z == p[x]
<1>1. p \in Kin /\ \A y : Above(y) = Up(p, y)
  BY AboveIsUp DEF OInv, RefTypes, Kin
<1>2. \A y \in Up(p, o) : ~Loop(p, y)
  BY <1>1, OnCycleIsLoop
<1>3. x \in Up(p, o) /\ \A y \in Up(p, o) : path[y] # <<>> \/ ~Live(y) => x \notin Up(p, y)
  BY <1>1 DEF Unbuilt
<1>4. ASSUME NEW y \in Up(p, o), path[y] = <<>>, Live(y),
             \A w \in Up(p, o) : path[w] # <<>> \/ ~Live(w) => y \notin Up(p, w)
      PROVE  y \in Unbuilt(o)
  BY <1>1, <1>4 DEF Unbuilt
<1> HIDE DEF p
<1>5. /\ Up(p, o) \subseteq Objects /\ Closed(p, Up(p, o))
      /\ \A y \in Objects : y \in Up(p, y)
  BY <1>1, UpLeast
<1>6. x \in Objects /\ path[x] = <<>> /\ Live(x)
  BY <1>3, <1>5
<1>7. ASSUME p[x] # None
      PROVE  /\ z \in Up(p, o) /\ z \in Objects
             /\ path[z] = <<>> /\ Live(z) => z \in Unbuilt(o)
  <2>1. z \in Up(p, o) /\ z \in Objects
    BY <1>3, <1>5, <1>7 DEF Closed
  <2>2. ASSUME path[z] = <<>>, Live(z),
               NEW w \in Up(p, o), path[w] # <<>> \/ ~Live(w), z \in Up(p, w)
        PROVE  FALSE
    <3>1. x \notin Up(p, w)
      BY <1>3, <2>2
    <3>2. w \in Up(p, x)
      BY <1>1, <1>3, <3>1, UpLinear
    <3>3. Up(p, x) = {x} \cup Up(p, z)
      BY <1>1, <1>6, <1>7, UpUnfold
    <3>4. w # x /\ w # z /\ w \in Objects
      BY <1>5, <1>6, <2>2
    <3>5. w \in Up(p, z)
      BY <3>2, <3>3, <3>4
    <3>6. Loop(p, z)
      BY <1>1, <2>1, <2>2, <3>4, <3>5, UpOrder
    <3> QED
      BY <1>2, <2>1, <3>6
  <2> HIDE DEF z
  <2> QED
    BY <1>4, <2>1, <2>2
<1> QED
  BY <1>1, <1>3, <1>6, <1>7 DEF p

LEMMA BuiltFacts ==
  ASSUME OInv, NameOK, PathTyped, NEW o \in Objects, \A x \in Above(o) : ~OnCycle(x)
  PROVE  /\ Built(o) \in [Above(o) -> Seq(Names)]
         /\ \A x \in Above(o) :
              Built(o)[x] = IF path[x] # <<>> THEN path[x]
                            ELSE Append(IF parent[x] = None THEN <<>>
                                        ELSE Built(o)[parent[x]], name[x])
<1>1. parent \in Kin /\ name \in [Objects -> Names] /\ path \in [Objects -> Seq(Names)]
  BY DEF OInv, RefTypes, Kin, NameOK, PathTyped
<1>2. \A x \in Up(parent, o) : ~Loop(parent, x)
  BY AboveIsUp, OnCycleIsLoop
<1>3. /\ Climbed(parent, name, path, o) \in [Up(parent, o) -> Seq(Names)]
      /\ Climbing(parent, name, path, Up(parent, o), Climbed(parent, name, path, o))
  BY <1>1, <1>2, ClimbedClimbs
<1>4. Above(o) = Up(parent, o) /\ Built(o) = Climbed(parent, name, path, o)
  BY AboveIsUp, BuiltIsClimbed
<1> HIDE DEF Built
<1> QED
  BY <1>3, <1>4 DEF Climbing

(* A path is asked for where no object is its own ancestor. *)
LEMMA GetPathKeeps ==
  ASSUME OInv, NameOK, PathTyped, PathOK, NEW o \in Objects,
         \A x \in Above(o) : ~OnCycle(x), ~Strays(o), GetPath(o),
         UNCHANGED <<state, name, treeVars, emission>>
  PROVE  PathTyped' /\ PathOK'
<1>1. /\ Built(o) \in [Above(o) -> Seq(Names)]
      /\ \A x \in Above(o) :
           Built(o)[x] = IF path[x] # <<>> THEN path[x]
                         ELSE Append(IF parent[x] = None THEN <<>>
                                     ELSE Built(o)[parent[x]], name[x])
  BY BuiltFacts
<1>2. path' = [x \in Objects |-> IF x \in Unbuilt(o) THEN Built(o)[x] ELSE path[x]]
  BY DEF GetPath
<1>3. ASSUME NEW x \in Unbuilt(o)
      PROVE  /\ x \in Above(o) /\ x \in Objects /\ path[x] = <<>>
             /\ parent[x] # None =>
                  /\ parent[x] \in Above(o) /\ parent[x] \in Objects
                  /\ path[parent[x]] = <<>> /\ Live(parent[x]) => parent[x] \in Unbuilt(o)
  BY UnbuiltFacts
<1>4. /\ parent' = parent /\ name' = name
      /\ \A x : Live(x)' = Live(x) /\ Pending(x)' = Pending(x)
  BY DEF treeVars, Live, Pending, Awaited, Heirs
<1> HIDE DEF Built, Unbuilt
<1>5. PathTyped'
  BY <1>1, <1>2, <1>3 DEF PathTyped
<1>6. ASSUME NEW x \in Objects, path'[x] # <<>>
      PROVE  /\ parent[x] = None => path'[x] = <<name[x]>>
             /\ parent[x] # None /\ Live(parent[x]) =>
                  \/ path'[parent[x]] # <<>> /\ path'[x] = Append(path'[parent[x]], name[x])
                  \/ Pending(x)
  <2>1. CASE x \in Unbuilt(o)
    <3>1. path'[x] = Append(IF parent[x] = None THEN <<>>
                            ELSE Built(o)[parent[x]], name[x])
      BY <1>1, <1>2, <1>3, <2>1
    <3>2. ASSUME parent[x] # None, Live(parent[x])
          PROVE  path'[parent[x]] = Built(o)[parent[x]] /\ path'[parent[x]] # <<>>
      <4> DEFINE z == parent[x]
      <4>1. z \in Above(o) /\ z \in Objects /\ (path[z] = <<>> => z \in Unbuilt(o))
        BY <1>3, <2>1, <3>2
      <4>2. path[z] # <<>> => z \notin Unbuilt(o)
        BY <1>3
      <4> HIDE DEF z
      <4>3. path'[z] = Built(o)[z]
        BY <1>1, <1>2, <4>1, <4>2
      <4>4. Built(o)[z] # <<>>
        <5>1. CASE path[z] # <<>>
          BY <1>1, <4>1, <5>1
        <5>2. CASE path[z] = <<>>
          <6> DEFINE q == IF parent[z] = None THEN <<>> ELSE Built(o)[parent[z]]
          <6>1. Built(o)[z] = Append(q, name[z])
            BY <1>1, <4>1, <5>2
          <6>2. q \in Seq(Names)
            BY <1>1, <1>3, <4>1, <5>2
          <6>3. name[z] \in Names
            BY <4>1 DEF NameOK
          <6> HIDE DEF q
          <6>4. Append(q, name[z]) # <<>>
            BY <6>2, <6>3, AppendProperties
          <6> QED
            BY <6>1, <6>4
        <5> QED
          BY <5>1, <5>2
      <4> QED
        BY <4>3, <4>4 DEF z
    <3>3. parent[x] = None => path'[x] = <<name[x]>>
      BY <3>1
    <3> QED
      BY <3>1, <3>2, <3>3
  <2>2. CASE x \notin Unbuilt(o)
    <3>1. path'[x] = path[x]
      BY <1>2, <2>2
    <3>2. ASSUME parent[x] # None, path[parent[x]] # <<>>
          PROVE  path'[parent[x]] = path[parent[x]]
      <4>1. parent[x] \in Objects
        BY <3>2 DEF OInv, RefTypes, Objects
      <4>2. parent[x] \notin Unbuilt(o)
        BY <1>3, <3>2
      <4> QED
        BY <1>2, <4>1, <4>2
    <3> QED
      BY <1>6, <3>1, <3>2 DEF PathOK
  <2> QED
    BY <2>1, <2>2
<1> QED
  BY <1>4, <1>5, <1>6 DEF PathOK

LEMMA JoinPaths ==
  ASSUME OInv, KinOK, PathTyped, PathOK, NEW s \in Suites, NEW o \in Objects, Joins(s, o)
  PROVE  PathTyped' /\ PathOK'
<1>1. /\ emission = <<>> /\ Live(o)
      /\ parent' = [parent EXCEPT ![o] = s] /\ parent'[o] = s
      /\ path' = [path EXCEPT ![o] = <<>>]
      /\ emission' = <<Emitting(o)>>
      /\ UNCHANGED <<state, name, drops, runVars>>
      /\ ToSet(children'[s]) = ToSet(children[s]) \cup {o}
      /\ \A t \in Suites : t # s => children'[t] = children[t]
  BY JoinFacts
<1>2. PathTyped'
  BY <1>1 DEF PathTyped
<1>3. path'[o] = <<>> /\ \A x \in Objects : x # o => path'[x] = path[x] /\ parent'[x] = parent[x]
  BY <1>1 DEF PathTyped, OInv, RefTypes
<1>4. ASSUME NEW x \in Objects, parent[x] = o
      PROVE  Pending(x)'
  <2>1. o \in Suites /\ Child(x, o)
    <3>1. parent[x] \in Suites \cup {None} /\ parent[x] # None
      BY <1>4, ObjectAssumption DEF OInv, RefTypes
    <3> QED
      BY <1>1, <1>4, <3>1 DEF KinOK
  <2>2. x \in ToSet(children'[o])
    BY <1>1, <2>1 DEF Child
  <2>3. PICK i \in DOMAIN children'[o] : children'[o][i] = x
    BY <2>2 DEF ToSet
  <2>4. children' \in [Suites -> Seq(Objects)]
    <3>1. children' = [children EXCEPT ![s] = Append(@, o)]
      BY JoinFacts
    <3> QED
      BY <3>1 DEF OInv, RefTypes
  <2>5. i \in Nat /\ i >= 1
    <3>1. children'[o] \in Seq(Objects)
      BY <2>1, <2>4
    <3>2. DOMAIN children'[o] = 1..Len(children'[o]) /\ Len(children'[o]) \in Nat
      BY <3>1, LenProperties
    <3> QED
      BY <3>2
  <2>6. DOMAIN emission' = 1..1 /\ emission'[1].obj = o /\ emission'[1].next = 1
    BY <1>1 DEF Emitting
  <2> QED
    BY <2>1, <2>3, <2>5, <2>6 DEF Pending, Awaited, Heirs
<1>5. \A x : ~Pending(x)
  BY <1>1 DEF Pending, Awaited
<1>6. ASSUME NEW x \in Objects, path'[x] # <<>>
      PROVE  /\ parent'[x] = None => path'[x] = <<name[x]>>
             /\ parent'[x] # None /\ state[parent'[x]] = "live" =>
                  \/ /\ path'[parent'[x]] # <<>>
                     /\ path'[x] = Append(path'[parent'[x]], name[x])
                  \/ Pending(x)'
  <2>1. x # o /\ path'[x] = path[x] /\ parent'[x] = parent[x]
    BY <1>3, <1>6
  <2>2. /\ parent[x] = None => path[x] = <<name[x]>>
        /\ parent[x] # None /\ state[parent[x]] = "live" =>
             path[parent[x]] # <<>> /\ path[x] = Append(path[parent[x]], name[x])
    BY <1>5, <1>6, <2>1 DEF PathOK, Live
  <2>3. parent[x] # None => parent[x] \in Objects
    BY DEF OInv, RefTypes, Objects
  <2>4. CASE parent[x] = o
    BY <1>4, <2>1, <2>2, <2>4
  <2>5. CASE parent[x] # o
    BY <1>3, <2>1, <2>2, <2>3, <2>5
  <2> QED
    BY <2>4, <2>5
<1> QED
  BY <1>1, <1>2, <1>6 DEF PathOK, Live

LEMMA FreePaths ==
  ASSUME OInv, EmissionOK, PathTyped, PathOK, Frees
  PROVE  PathTyped' /\ PathOK'
<1> DEFINE o == Head(drops)
<1>1. /\ drops # <<>> /\ o \in Objects
      /\ state' = [state EXCEPT ![o] = "freed"]
      /\ parent' = [parent EXCEPT ![o] = None]
      /\ path' = [path EXCEPT ![o] = <<>>]
      /\ UNCHANGED <<name, emission, runVars>>
  BY FreeFacts
<1>2. \A x : ~Pending(x)
  BY <1>1 DEF EmissionOK, Pending, Awaited
<1> HIDE DEF o
<1>3. PathTyped'
  BY <1>1 DEF PathTyped
<1>4. /\ path'[o] = <<>> /\ state'[o] = "freed"
      /\ \A x \in Objects : x # o => path'[x] = path[x] /\ parent'[x] = parent[x]
      /\ \A x \in Objects : x # o => state'[x] = state[x]
  BY <1>1 DEF PathTyped, OInv, RefTypes
<1>5. ASSUME NEW x \in Objects, path'[x] # <<>>
      PROVE  /\ parent'[x] = None => path'[x] = <<name[x]>>
             /\ parent'[x] # None /\ state'[parent'[x]] = "live" =>
                  path'[parent'[x]] # <<>> /\ path'[x] = Append(path'[parent'[x]], name[x])
  <2>1. x # o /\ path'[x] = path[x] /\ parent'[x] = parent[x]
    BY <1>4, <1>5
  <2>2. /\ parent[x] = None => path[x] = <<name[x]>>
        /\ parent[x] # None /\ state[parent[x]] = "live" =>
             path[parent[x]] # <<>> /\ path[x] = Append(path[parent[x]], name[x])
    BY <1>2, <1>5, <2>1 DEF PathOK, Live
  <2>3. parent[x] # None => parent[x] \in Objects
    BY DEF OInv, RefTypes, Objects
  <2> QED
    BY <1>4, <2>1, <2>2, <2>3
<1> QED
  BY <1>1, <1>3, <1>5 DEF PathOK, Live

LEMMA PropagatePaths ==
  ASSUME OInv, KinOK, EmissionOK, PathTyped, PathOK, Propagate
  PROVE  PathTyped' /\ PathOK'
<1> DEFINE child == Heirs(Frame.obj)[Frame.next]
<1>1. /\ emission # <<>> /\ Frame.next \in DOMAIN Heirs(Frame.obj)
      /\ child \in Objects
      /\ Pushes(child) \/ Marks(child)
      /\ UNCHANGED <<state, name, parent, children>>
  BY PropagateFacts DEF treeVars
<1>2. /\ Depth \in Nat /\ Depth >= 1 /\ DOMAIN emission = 1..Depth
      /\ \A i \in 1..Depth : emission[i] \in Frames
      /\ Frame = emission[Depth] /\ Depth \in 1..Depth
      /\ Frame.obj \in Objects /\ Frame.next \in Nat
  BY <1>1, FrameFacts DEF Frames
<1>3. /\ \A i \in 1..Depth : emission'[i].obj = emission[i].obj
      /\ \A i \in 1..(Depth - 1) : emission'[i].next = emission[i].next
      /\ emission'[Depth].next = emission[Depth].next + 1
      /\ \A i \in 1..Depth : emission[i].again => emission'[i].again
      /\ 1..Depth \subseteq DOMAIN emission'
  <2>1. \A i \in 1..Depth : emission[i].again \in BOOLEAN
    BY <1>2 DEF Frames
  <2> QED
    BY <1>1, <1>2, <2>1 DEF Pushes, Marks
<1>4. \A x : Heirs(x)' = Heirs(x)
  BY <1>1 DEF Heirs
<1>5. parent[child] = Frame.obj /\ Live(child)
  BY <1>1, <1>2, HeirIsChild
<1>6. PathTyped'
  <2> HIDE DEF child
  <2>1. path' = path \/ path' = [path EXCEPT ![child] = <<>>]
    BY <1>1 DEF Pushes, Marks
  <2>2. <<>> \in Seq(Names)
    OBVIOUS
  <2>3. CASE path' = path
    BY <2>3 DEF PathTyped
  <2>4. CASE path' = [path EXCEPT ![child] = <<>>]
    BY <2>2, <2>4 DEF PathTyped
  <2> QED
    BY <2>1, <2>3, <2>4
<1> HIDE DEF child
<1>7. ASSUME NEW x \in Objects, Pending(x)
      PROVE  Pending(x)' \/ (x = child /\ Pushes(child))
  <2>1. CASE \E k \in DOMAIN emission : emission[k].obj = x /\ emission[k].again
    BY <1>2, <1>3, <2>1 DEF Pending
  <2>2. CASE Awaited(x)
    <3>1. PICK k \in 1..Depth : \E i \in DOMAIN Heirs(emission[k].obj) :
            i >= emission[k].next /\ Heirs(emission[k].obj)[i] = x
      BY <1>2, <2>2 DEF Awaited
    <3>2. PICK i \in DOMAIN Heirs(emission[k].obj) :
            i >= emission[k].next /\ Heirs(emission[k].obj)[i] = x
      BY <3>1
    <3>3. /\ emission[k].next \in Nat /\ i \in Nat
      <4>1. emission[k] \in Frames
        BY <1>2
      <4>2. emission[k].obj \in Objects /\ emission[k].next \in Nat
        BY <4>1 DEF Frames
      <4>3. DOMAIN Heirs(emission[k].obj) = 1..Len(Heirs(emission[k].obj))
        BY <1>1, <4>2, FrameFacts
      <4> QED
        BY <4>2, <4>3
    <3>4. CASE k # Depth \/ i # Frame.next
      <4>1. i >= emission'[k].next
        <5>1. CASE k # Depth
          <6>1. k \in 1..(Depth - 1)
            BY <1>2, <5>1
          <6> QED
            BY <1>3, <3>2, <6>1
        <5>2. CASE k = Depth
          <6>1. i # emission[Depth].next /\ i >= emission[Depth].next
            BY <1>2, <3>2, <3>4, <5>2
          <6>2. i >= emission[Depth].next + 1
            BY <1>2, <3>3, <5>2, <6>1
          <6> QED
            BY <1>3, <5>2, <6>2
        <5> QED
          BY <5>1, <5>2
      <4>2. /\ k \in DOMAIN emission' /\ i \in DOMAIN Heirs(emission'[k].obj)
            /\ Heirs(emission'[k].obj)[i] = x
        BY <1>3, <3>2
      <4> QED
        BY <1>4, <4>1, <4>2 DEF Pending, Awaited, Heirs
    <3>5. CASE k = Depth /\ i = Frame.next
      <4>1. x = child
        BY <1>2, <3>2, <3>5 DEF child
      <4>2. CASE Marks(child)
        <5>1. PICK j \in 1..Depth : emission[j].obj = child
          BY <4>2 DEF Marks
        <5>2. emission'[j].again = (emission[j].again \/ emission[j].obj = child)
          BY <4>2 DEF Marks
        <5>3. j \in DOMAIN emission' /\ emission'[j].obj = x /\ emission'[j].again
          BY <1>3, <4>1, <5>1, <5>2
        <5> QED
          BY <5>3 DEF Pending
      <4> QED
        BY <1>1, <4>1, <4>2
    <3> QED
      BY <3>4, <3>5
  <2> QED
    BY <1>7, <2>1, <2>2 DEF Pending
<1>8. ASSUME NEW x \in Objects, parent[x] = child, Pushes(child)
      PROVE  Pending(x)'
  <2>1. child \in Suites /\ Child(x, child)
    <3>1. parent[x] \in Suites \cup {None} /\ parent[x] # None
      BY <1>1, <1>8, ObjectAssumption DEF OInv, RefTypes
    <3> QED
      BY <1>5, <1>8, <3>1 DEF KinOK
  <2>2. PICK i \in DOMAIN Heirs(child) : Heirs(child)[i] = x
    BY <2>1, ChildIsHeir
  <2>3. /\ Depth + 1 \in DOMAIN emission' /\ emission'[Depth + 1].obj = child
        /\ emission'[Depth + 1].next = 1
    BY <1>2, <1>8 DEF Pushes, Emitting
  <2>4. i >= 1
    <3>1. DOMAIN Heirs(child) = 1..Len(Heirs(child)) /\ Len(Heirs(child)) \in Nat
      BY <1>1, FrameFacts
    <3> QED
      BY <2>2, <3>1
  <2> QED
    BY <1>4, <2>2, <2>3, <2>4 DEF Pending, Awaited, Heirs
<1>9. ASSUME NEW x \in Objects, path'[x] # <<>>
      PROVE  /\ parent[x] = None => path'[x] = <<name[x]>>
             /\ parent[x] # None /\ state[parent[x]] = "live" =>
                  \/ /\ path'[parent[x]] # <<>>
                     /\ path'[x] = Append(path'[parent[x]], name[x])
                  \/ Pending(x)'
  <2>1. path'[x] = path[x] /\ (Pushes(child) => x # child)
    BY <1>1, <1>9 DEF PathTyped, Pushes, Marks
  <2>2. /\ parent[x] = None => path[x] = <<name[x]>>
        /\ parent[x] # None /\ state[parent[x]] = "live" =>
             \/ path[parent[x]] # <<>> /\ path[x] = Append(path[parent[x]], name[x])
             \/ Pending(x)
    BY <1>9, <2>1 DEF PathOK, Live
  <2>3. parent[x] # None => parent[x] \in Objects
    BY DEF OInv, RefTypes, Objects
  <2>4. Pending(x) => Pending(x)'
    BY <1>7, <2>1
  <2>5. parent[x] # None => path'[parent[x]] = path[parent[x]] \/ Pending(x)'
    BY <1>1, <1>8, <2>3 DEF PathTyped, Pushes, Marks
  <2> QED
    BY <2>1, <2>2, <2>4, <2>5
<1> QED
  BY <1>1, <1>6, <1>9 DEF PathOK, Live

LEMMA EndEmissionPaths ==
  ASSUME OInv, KinOK, EmissionOK, PathTyped, PathOK, EndEmission
  PROVE  PathTyped' /\ PathOK'
<1> DEFINE e == emission[Depth].obj
<1>1. /\ emission # <<>> /\ Frame.next > Len(Heirs(Frame.obj))
      /\ Restarts \/ Finishes
      /\ UNCHANGED <<state, name, parent, children>>
  BY EndEmissionFacts DEF treeVars
<1>2. /\ Depth \in Nat /\ Depth >= 1 /\ DOMAIN emission = 1..Depth
      /\ \A i \in 1..Depth : emission[i] \in Frames
      /\ Frame = emission[Depth] /\ Depth \in 1..Depth
      /\ Frame.obj \in Objects /\ Frame.next \in Nat
  BY <1>1, FrameFacts DEF Frames
<1>3. e \in Objects /\ Live(e)
  BY <1>2 DEF EmissionOK
<1>4. /\ 1..(Depth - 1) \subseteq DOMAIN emission'
      /\ \A i \in 1..(Depth - 1) : emission'[i] = emission[i]
  BY <1>1, <1>2 DEF Restarts, Finishes
<1>5. \A x : Heirs(x)' = Heirs(x)
  BY <1>1 DEF Heirs
<1>6. PathTyped'
  <2>1. path' = path \/ path' = [path EXCEPT ![e] = <<>>]
    BY <1>1 DEF Restarts, Finishes
  <2>2. <<>> \in Seq(Names)
    OBVIOUS
  <2>3. CASE path' = path
    BY <2>3 DEF PathTyped
  <2>4. CASE path' = [path EXCEPT ![e] = <<>>]
    BY <2>2, <2>4 DEF PathTyped
  <2> QED
    BY <2>1, <2>3, <2>4
<1>7. ASSUME NEW x \in Objects, Pending(x)
      PROVE  Pending(x)' \/ (x = e /\ Restarts)
  <2>1. CASE Awaited(x)
    <3>1. PICK k \in 1..Depth : \E i \in DOMAIN Heirs(emission[k].obj) :
            i >= emission[k].next /\ Heirs(emission[k].obj)[i] = x
      BY <1>2, <2>1 DEF Awaited
    <3>2. PICK i \in DOMAIN Heirs(emission[k].obj) :
            i >= emission[k].next /\ Heirs(emission[k].obj)[i] = x
      BY <3>1
    <3>3. k # Depth
      <4> SUFFICES ASSUME k = Depth
                   PROVE  FALSE
        OBVIOUS
      <4>1. /\ i \in 1..Len(Heirs(Frame.obj)) /\ Len(Heirs(Frame.obj)) \in Nat
        BY <1>1, <1>2, <3>2, FrameFacts
      <4> QED
        BY <1>1, <1>2, <3>2, <4>1
    <3>4. k \in DOMAIN emission' /\ emission'[k] = emission[k]
      BY <1>2, <1>4, <3>3
    <3> QED
      BY <1>5, <3>2, <3>4 DEF Pending, Awaited, Heirs
  <2>2. CASE \E k \in DOMAIN emission : emission[k].obj = x /\ emission[k].again
    <3>1. PICK k \in 1..Depth : emission[k].obj = x /\ emission[k].again
      BY <1>2, <2>2
    <3>2. CASE k = Depth
      BY <1>1, <3>1, <3>2 DEF Finishes
    <3>3. CASE k # Depth
      <4>1. k \in DOMAIN emission' /\ emission'[k] = emission[k]
        BY <1>2, <1>4, <3>3
      <4> QED
        BY <3>1, <4>1 DEF Pending
    <3> QED
      BY <3>2, <3>3
  <2> QED
    BY <1>7, <2>1, <2>2 DEF Pending
<1>8. ASSUME NEW x \in Objects, parent[x] = e, Restarts
      PROVE  Pending(x)'
  <2>1. e \in Suites /\ Child(x, e)
    <3>1. parent[x] \in Suites \cup {None} /\ parent[x] # None
      BY <1>3, <1>8, ObjectAssumption DEF OInv, RefTypes
    <3> QED
      BY <1>3, <1>8, <3>1 DEF KinOK
  <2>2. PICK i \in DOMAIN Heirs(e) : Heirs(e)[i] = x
    BY <2>1, ChildIsHeir
  <2>3. /\ Depth \in DOMAIN emission' /\ emission'[Depth].obj = e
        /\ emission'[Depth].next = 1
    BY <1>2, <1>8 DEF Restarts, Emitting
  <2>4. i >= 1
    <3>1. DOMAIN Heirs(e) = 1..Len(Heirs(e)) /\ Len(Heirs(e)) \in Nat
      BY <1>1, <1>3, FrameFacts
    <3> QED
      BY <2>2, <3>1
  <2> HIDE DEF e
  <2> QED
    BY <1>5, <2>2, <2>3, <2>4 DEF Pending, Awaited, Heirs
<1>9. Restarts => path' = [path EXCEPT ![e] = <<>>]
  BY DEF Restarts
<1>10. Finishes => path' = path
  BY DEF Finishes
<1> HIDE DEF e
<1>11. ASSUME NEW x \in Objects, path'[x] # <<>>
      PROVE  /\ parent[x] = None => path'[x] = <<name[x]>>
             /\ parent[x] # None /\ state[parent[x]] = "live" =>
                  \/ /\ path'[parent[x]] # <<>>
                     /\ path'[x] = Append(path'[parent[x]], name[x])
                  \/ Pending(x)'
  <2>1. path'[x] = path[x] /\ (Restarts => x # e)
    BY <1>1, <1>9, <1>10, <1>11 DEF PathTyped
  <2>2. /\ parent[x] = None => path[x] = <<name[x]>>
        /\ parent[x] # None /\ state[parent[x]] = "live" =>
             \/ path[parent[x]] # <<>> /\ path[x] = Append(path[parent[x]], name[x])
             \/ Pending(x)
    BY <1>11, <2>1 DEF PathOK, Live
  <2>3. parent[x] # None => parent[x] \in Objects
    BY DEF OInv, RefTypes, Objects
  <2>4. Pending(x) => Pending(x)'
    BY <1>7, <2>1
  <2>5. parent[x] # None => path'[parent[x]] = path[parent[x]] \/ Pending(x)'
    BY <1>1, <1>8, <1>9, <1>10, <2>3 DEF PathTyped
  <2> QED
    BY <2>1, <2>2, <2>4, <2>5
<1> QED
  BY <1>1, <1>6, <1>11 DEF PathOK, Live

LEMMA PathStep ==
  ASSUME OInv, KinOK, NameOK, EmissionOK, CycleOK, RunOK, PathTyped, PathOK, [Next]_vars
  PROVE  PathTyped' /\ PathOK'
<1>1. CASE Steady
  <2>1. /\ parent' = parent /\ name' = name /\ path' = path
        /\ \A x : Live(x)' = Live(x) /\ Pending(x)' = Pending(x)
    BY <1>1 DEF Steady, treeVars, Live, Pending, Awaited, Heirs
  <2> QED
    BY <2>1 DEF PathOK, PathTyped
<1>2. ASSUME NEW o \in Objects, Builds(o)
      PROVE  PathTyped' /\ PathOK'
  <2>1. /\ parent' = parent /\ name' = name /\ path' = path
        /\ \A x : Pending(x)' = Pending(x)
    BY <1>2 DEF Builds, treeVars, Pending, Awaited, Heirs
  <2>2. \A x \in Objects : parent[x] # None => Live(parent[x])' = Live(parent[x])
    <3>1. state[o] = "none" /\ state' = [state EXCEPT ![o] = "live"]
      BY <1>2 DEF Builds
    <3>2. \A x \in Objects : parent[x] # None => parent[x] # o
      BY <3>1 DEF KinOK
    <3>3. \A y \in Objects : y # o => state'[y] = state[y]
      BY <3>1 DEF OInv, RefTypes
    <3>4. \A x \in Objects : parent[x] # None => parent[x] \in Objects
      BY DEF OInv, RefTypes, Objects
    <3> QED
      BY <2>1, <3>2, <3>3, <3>4 DEF Live
  <2>3. PathTyped'
    BY <2>1 DEF PathTyped
  <2>4. ASSUME NEW x \in Objects, path'[x] # <<>>
        PROVE  /\ parent'[x] = None => path'[x] = <<name'[x]>>
               /\ parent'[x] # None /\ Live(parent[x])' =>
                    \/ /\ path'[parent'[x]] # <<>>
                       /\ path'[x] = Append(path'[parent'[x]], name'[x])
                    \/ Pending(x)'
    BY <2>1, <2>2, <2>4 DEF PathOK
  <2> QED
    BY <2>1, <2>3, <2>4 DEF PathOK, Live
<1>3. ASSUME NEW s \in Suites, NEW o \in Objects, Joins(s, o)
      PROVE  PathTyped' /\ PathOK'
  BY <1>3, JoinPaths
<1>4. CASE Frees
  BY <1>4, FreePaths
<1>5. CASE Propagate
  BY <1>5, PropagatePaths
<1>6. CASE EndEmission
  BY <1>6, EndEmissionPaths
<1>7. ASSUME NEW o \in Objects, Read(o), ~Strays(o)
      PROVE  PathTyped' /\ PathOK'
  <2>1. /\ \A x \in Above(o) : ~OnCycle(x)
        /\ GetPath(o)
        /\ UNCHANGED <<state, name, treeVars, emission>>
    BY <1>7 DEF Read, objectVars, callVars
  <2> QED
    BY <1>7, <2>1, GetPathKeeps
<1>8. CASE BeginTest /\ ~Strays(tests[at])
  <2>1. /\ phase = "next" /\ at <= Len(tests)
        /\ GetPath(tests[at])
        /\ UNCHANGED <<state, name, treeVars, emission>>
    BY <1>8 DEF BeginTest, objectVars, callVars
  <2>2. emission = <<>>
    BY <2>1 DEF EmissionOK
  <2>3. tests[at] \in Objects
    <3>1. tests \in Seq(Cases) /\ at \in Nat /\ at > 0
      BY <2>1 DEF RunOK
    <3>2. tests[at] \in Cases
      BY <2>1, <3>1, ElementOfSeq
    <3> QED
      BY <3>2 DEF Objects
  <2>4. \A x \in Above(tests[at]) : ~OnCycle(x)
    <3>1. Above(tests[at]) \subseteq Objects
      <4>1. parent \in Kin
        BY DEF OInv, RefTypes, Kin
      <4> QED
        BY <2>3, <4>1, AboveIsUp, UpLeast
    <3> QED
      BY <2>2, <3>1 DEF CycleOK
  <2> QED
    BY <1>8, <2>1, <2>3, <2>4, GetPathKeeps
<1> QED
  BY <1>1, <1>2, <1>3, <1>4, <1>5, <1>6, <1>7, <1>8, StepKinds

LEMMA PathInv == Spec => [](PathTyped /\ PathOK)
<1>1. Init => PathTyped /\ PathOK
  BY DEF Init, PathTyped, PathOK
<1>2. /\ OInv /\ (KinOK /\ ParentsLive) /\ NameOK /\ EmissionOK /\ CycleOK /\ RunOK
      /\ (PathTyped /\ PathOK) /\ [Next]_vars
      => (PathTyped /\ PathOK)'
  BY PathStep
<1> QED
  BY <1>1, <1>2, ObjectInv, KinInv, NameInv, EmissionInv, CycleInv, RunOKInv, PTL DEF Spec

(* Whoever reads a path and whenever, even from a handler of the signal     *)
(* that is to drop it, no path survives the signal that is not the one the  *)
(* tree has now (object.c:228-247,306-316, test-suite.c:100-111).           *)
THEOREM CurrentPaths == Spec => []CachedPathCurrent
<1>1. ASSUME OInv, NameOK, PathTyped, PathOK
      PROVE  CachedPathCurrent
  <2> SUFFICES ASSUME emission = <<>>,
                      NEW o \in Objects, path[o] # <<>>, Anchored(o)
               PROVE  path[o] = PathNow(o)
    BY DEF CachedPathCurrent
  <2> DEFINE p == parent
             S == Up(p, o)
             T == {x \in S : path[x] # <<>>}
  <2>1. p \in Kin /\ name \in [Objects -> Names] /\ path \in [Objects -> Seq(Names)]
    BY <1>1 DEF OInv, RefTypes, Kin, NameOK, PathTyped
  <2>2. Above(o) = S /\ PathNow(o) = Whole(p, name, o)
    BY BuiltIsClimbed, AboveIsUp
  <2>3. \A x \in S : Live(x) /\ ~Loop(p, x)
    BY <2>2, OnCycleIsLoop DEF Anchored
  <2>4. \A x : ~Pending(x)
    BY DEF Pending, Awaited
  <2>5. \A x \in Objects : path[x] # <<>> =>
          /\ p[x] = None => path[x] = <<name[x]>>
          /\ p[x] # None /\ Live(p[x]) =>
               path[p[x]] # <<>> /\ path[x] = Append(path[p[x]], name[x])
    BY <1>1, <2>4 DEF PathOK
  <2> HIDE DEF p
  <2>6. o \in S /\ S \subseteq Objects /\ Closed(p, S)
    BY <2>1, UpLeast
  <2>7. S \subseteq T
    <3>1. o \in T
      BY <2>6
    <3>2. Closed(p, T)
      BY <2>3, <2>5, <2>6 DEF Closed
    <3> HIDE DEF T
    <3> QED
      BY <2>1, <3>1, <3>2, UpLeast
  <2>8. \A x \in S : path[x] = Append(IF p[x] = None THEN <<>> ELSE path[p[x]], name[x])
    <3> TAKE x \in S
    <3>1. x \in Objects /\ path[x] # <<>>
      BY <2>6, <2>7
    <3>2. CASE p[x] = None
      BY <2>5, <3>1, <3>2
    <3>3. CASE p[x] # None
      <4>1. Live(p[x])
        BY <2>3, <2>6, <3>3 DEF Closed
      <4> QED
        BY <2>5, <3>1, <3>3, <4>1
    <3> QED
      BY <3>2, <3>3
  <2>9. Climbs(p, name, S, path)
    BY <2>8 DEF Climbs
  <2>10. path[o] = Whole(p, name, o)
    <3>1. \A x \in S : ~Loop(p, x)
      BY <2>3
    <3> QED
      BY <2>1, <2>6, <2>9, <3>1, WholeClimbs
  <2> QED
    BY <2>2, <2>10
<1> QED
  BY <1>1, ObjectInv, NameInv, PathInv, PTL

-----------------------------------------------------------------------------
(* The types.                                                               *)

Bounded == \A o \in Objects : held[o] <= MaxHeld

Stages ==
  /\ phase \in {"program", "next", "body", "report"}
  /\ taken \in {"none", "valid", "freed"}
  /\ hasRun \in BOOLEAN
  /\ proc \in {"running", "trapped", "undefined"}

(* Where the program comes to own a reference more. *)
LEMMA HeldKinds ==
  ASSUME OInv, [Next]_vars, NEW o \in Objects
  PROVE  held'[o] <= held[o] \/ held'[o] = 1 \/ (held[o] < MaxHeld /\ held'[o] = held[o] + 1)
<1> USE DEF OInv, RefTypes
<1>1. held[o] \in Nat /\ held[o] <= held[o] /\ held[o] - 1 <= held[o]
  OBVIOUS
<1>2. ASSUME held' = held
      PROVE  held'[o] <= held[o]
  BY <1>1, <1>2
<1>3. ASSUME NEW how, EndProcess(how)
      PROVE  held'[o] <= held[o]
  BY <1>2, <1>3 DEF EndProcess, objectVars
<1>4. ASSUME NEW x \in Objects, held' = [held EXCEPT ![x] = @ - 1]
      PROVE  held'[o] <= held[o]
  BY <1>1, <1>4
<1>5. ASSUME NEW x \in Objects, held[x] < MaxHeld, held' = [held EXCEPT ![x] = @ + 1]
      PROVE  held'[o] <= held[o] \/ (held[o] < MaxHeld /\ held'[o] = held[o] + 1)
  BY <1>1, <1>5
<1>6. ASSUME ProgramStep
      PROVE  held'[o] <= held[o] \/ held'[o] = 1
               \/ (held[o] < MaxHeld /\ held'[o] = held[o] + 1)
  <2>1. PICK y \in Objects :
          New(y) \/ RefuseNew(y) \/ Ref(y) \/ RefSink(y) \/ Unref(y) \/ Read(y)
    BY <1>6 DEF ProgramStep
  <2>2. CASE New(y)
    <3>1. held' = [held EXCEPT ![y] = 1]
      BY <2>2 DEF New
    <3> QED
      BY <1>1, <3>1
  <2>3. CASE RefuseNew(y)
    BY <1>3, <2>3 DEF RefuseNew
  <2>4. CASE Ref(y)
    BY <1>5, <2>4 DEF Ref
  <2>5. CASE RefSink(y)
    <3>1. held' = held \/ (held[y] < MaxHeld /\ held' = [held EXCEPT ![y] = @ + 1])
      BY <2>5 DEF RefSink
    <3> QED
      BY <1>2, <1>5, <3>1
  <2>6. CASE Unref(y)
    BY <1>4, <2>6 DEF Unref
  <2>7. CASE Read(y)
    BY <1>2, <1>3, <2>7 DEF Read, objectVars
  <2> QED
    BY <2>1, <2>2, <2>3, <2>4, <2>5, <2>6, <2>7
<1>7. CASE ValueStep
  <2>1. PICK v \in Values :
          \/ \E x \in Shared : CollectValue(v, x)
          \/ \E w \in Values : CopyValue(v, w)
          \/ LcopyValue(v)
          \/ FreeValue(v)
    BY <1>7 DEF ValueStep
  <2>2. CASE \E x \in Shared : CollectValue(v, x)
    BY <1>2, <2>2 DEF CollectValue
  <2>3. CASE \E w \in Values : CopyValue(v, w)
    BY <1>2, <1>3, <2>3 DEF CopyValue
  <2>4. CASE LcopyValue(v)
    <3>1. /\ value[v] \in Objects /\ held[value[v]] < MaxHeld
          /\ held' = [held EXCEPT ![value[v]] = @ + 1]
      BY <2>4, ObjectAssumption DEF LcopyValue
    <3> QED
      BY <1>5, <3>1
  <2>5. CASE FreeValue(v)
    BY <1>2, <1>3, <2>5 DEF FreeValue, objectVars
  <2> QED
    BY <2>1, <2>2, <2>3, <2>4, <2>5
<1>8. ASSUME NEW c \in Cases, NEW x \in Shared, NewCase(c, x)
      PROVE  held'[o] <= held[o] \/ held'[o] = 1
  <2>1. held' = [held EXCEPT ![c] = 1, ![x] = @ - 1] /\ held[x] > 0
    BY <1>8, ObjectAssumption DEF NewCase
  <2> QED
    BY <1>1, <2>1
<1>9. ASSUME NEW s \in Suites, NEW x \in Objects, Add(s, x)
      PROVE  held'[o] <= held[o]
  <2>1. CASE ~Accepts(s, x)
    BY <1>3, <1>9, <2>1 DEF Add
  <2>2. CASE Accepts(s, x)
    <3>1. held' = held \/ held' = [held EXCEPT ![x] = @ - 1]
      BY <1>9, <2>2 DEF Add
    <3> QED
      BY <1>2, <1>4, <3>1
  <2> QED
    BY <2>1, <2>2
<1>10. ASSUME NEW s \in Suites, Run(s)
       PROVE  held'[o] <= held[o]
  <2>1. s \in Objects
    BY DEF Objects
  <2> QED
    BY <1>3, <1>4, <1>10, <2>1 DEF Run
<1>11. CASE CallStep
  BY <1>2, <1>11 DEF CallStep, Drop, Propagate, EndEmission, objectVars
<1>12. CASE RunStep
  BY <1>2, <1>3, <1>12 DEF RunStep, BeginTest, EndBody, Report, EndRun, objectVars
<1>13. CASE Stop \/ UNCHANGED vars
  BY <1>2, <1>13 DEF Stop, vars, objectVars
<1> QED
  BY <1>6, <1>7, <1>8, <1>9, <1>10, <1>11, <1>12, <1>13 DEF Next

LEMMA BoundedStep ==
  ASSUME OInv, Bounded, [Next]_vars
  PROVE  Bounded'
<1> SUFFICES ASSUME NEW o \in Objects
             PROVE  held'[o] <= MaxHeld
  BY DEF Bounded
<1>1. held'[o] <= held[o] \/ held'[o] = 1 \/ (held[o] < MaxHeld /\ held'[o] = held[o] + 1)
  BY HeldKinds
<1>2. held[o] \in Nat /\ held[o] <= MaxHeld
  BY DEF OInv, RefTypes, Bounded
<1>3. held'[o] \in Nat
  <2>1. OInv'
    BY ObjectNextInv
  <2> QED
    BY <2>1 DEF OInv, RefTypes
<1>4. MaxHeld \in Nat /\ MaxHeld >= 1
  BY ObjectAssumption
<1> QED
  BY <1>1, <1>2, <1>3, <1>4

LEMMA StagesStep ==
  ASSUME OInv, Stages, [Next]_vars
  PROVE  Stages'
<1> USE DEF Stages
<1>1. ASSUME UNCHANGED <<phase, taken, hasRun>>, proc' \in {proc, "trapped", "undefined"}
      PROVE  Stages'
  BY <1>1
<1>2. ASSUME NEW how \in {"trapped", "undefined"}, EndProcess(how)
      PROVE  Stages'
  BY <1>1, <1>2 DEF EndProcess, runVars
<1>3. ASSUME UNCHANGED <<phase, hasRun, proc>>, taken' \in {taken, "freed"}
      PROVE  Stages'
  BY <1>3
<1>4. CASE ProgramStep
  <2>1. PICK o \in Objects :
          New(o) \/ RefuseNew(o) \/ Ref(o) \/ RefSink(o) \/ Unref(o) \/ Read(o)
    BY <1>4 DEF ProgramStep
  <2>2. CASE New(o) \/ Ref(o) \/ RefSink(o) \/ Unref(o)
    BY <1>1, <2>2 DEF New, Ref, RefSink, Unref, runVars
  <2>3. CASE RefuseNew(o) \/ Read(o)
    BY <1>1, <1>2, <2>3 DEF RefuseNew, Read, runVars
  <2> QED
    BY <2>1, <2>2, <2>3
<1>5. CASE ValueStep
  BY <1>1, <1>2, <1>5 DEF ValueStep, CollectValue, CopyValue, LcopyValue, FreeValue, runVars
<1>6. ASSUME NEW c \in Cases, NEW o \in Shared, NewCase(c, o)
      PROVE  Stages'
  BY <1>1, <1>6 DEF NewCase, runVars
<1>7. ASSUME NEW s \in Suites, NEW o \in Objects, Add(s, o)
      PROVE  Stages'
  <2>1. CASE ~Accepts(s, o)
    BY <1>2, <1>7, <2>1 DEF Add
  <2>2. CASE Accepts(s, o)
    BY <1>3, <1>7, <2>2 DEF Add, DirtyPath, TakenAfterFree, runVars
  <2> QED
    BY <2>1, <2>2
<1>8. ASSUME NEW s \in Suites, Run(s)
      PROVE  Stages'
  BY <1>2, <1>8 DEF Run
<1>9. CASE CallStep
  <2>1. CASE Drop
    BY <1>3, <2>1 DEF Drop, Finalize, TakenAfterFree, runVars
  <2>2. CASE Propagate
    <3>1. UNCHANGED <<phase, hasRun, proc>>
      BY <2>2 DEF Propagate, runVars
    <3>2. taken' \in {taken, "freed"}
      BY <2>2 DEF Propagate, DirtyPath, TakenAfterFree
    <3> QED
      BY <1>3, <3>1, <3>2
  <2>3. CASE EndEmission
    BY <1>3, <2>3 DEF EndEmission, DirtyPath, TakenAfterFree, runVars
  <2> QED
    BY <1>9, <2>1, <2>2, <2>3 DEF CallStep
<1>10. CASE RunStep
  <2>1. CASE BeginTest
    BY <1>2, <2>1 DEF BeginTest
  <2>2. CASE \E c \in Cases : EndBody(c)
    BY <2>2 DEF EndBody
  <2>3. CASE Report
    BY <1>2, <2>3 DEF Report
  <2>4. CASE EndRun
    BY <2>4 DEF EndRun
  <2> QED
    BY <1>10, <2>1, <2>2, <2>3, <2>4 DEF RunStep
<1>11. CASE Stop \/ UNCHANGED vars
  BY <1>1, <1>11 DEF Stop, vars, runVars
<1> QED
  BY <1>4, <1>5, <1>6, <1>7, <1>8, <1>9, <1>10, <1>11 DEF Next

LEMMA StagesInv == Spec => [](Bounded /\ Stages)
<1>1. Init => Bounded /\ Stages
  <2>1. Init => \A o \in Objects : held[o] = 0
    BY DEF Init
  <2>2. 0 <= MaxHeld
    BY ObjectAssumption
  <2>3. Init => Stages
    BY DEF Init, Stages
  <2> QED
    BY <2>1, <2>2, <2>3 DEF Bounded
<1>2. OInv /\ (Bounded /\ Stages) /\ [Next]_vars => (Bounded /\ Stages)'
  BY BoundedStep, StagesStep
<1> QED
  BY <1>1, <1>2, ObjectInv, PTL DEF Spec

(* Each variable has values of its kind, and the emissions in progress are  *)
(* ones of live objects each at a child it has (object.c:5-38,228-316,      *)
(* test-suite.c:5-61, run.c:13-108).                                        *)
THEOREM TreeTypes == Spec => []TypeOK
<1>1. ASSUME OInv, NameOK, EmissionOK, RunOK, PathTyped, Bounded, Stages
      PROVE  TypeOK
  <2>1. /\ held \in [Objects -> Nat]
        /\ \A o \in Objects : held[o] <= MaxHeld
    BY <1>1 DEF OInv, RefTypes, Bounded
  <2>2. \A o \in Objects : held[o] \in 0..MaxHeld
    BY <2>1, ObjectAssumption
  <2>3. held \in [Objects -> 0..MaxHeld]
    BY <2>1, <2>2
  <2>4. emission \in Seq([obj: Objects, next: Nat, again: BOOLEAN])
    <3>1. emission \in Seq(Frames)
      BY <1>1 DEF EmissionOK, Frames
    <3>2. Frames \subseteq [obj: Objects, next: Nat, again: BOOLEAN]
      BY DEF Frames
    <3>3. /\ Len(emission) \in Nat /\ DOMAIN emission = 1..Len(emission)
          /\ \A i \in 1..Len(emission) : emission[i] \in Frames
      BY <3>1, LenProperties, ElementOfSeq
    <3>4. emission \in [1..Len(emission) -> [obj: Objects, next: Nat, again: BOOLEAN]]
      <4>1. emission \in [1..Len(emission) -> Frames]
        BY <3>1, LenProperties
      <4> QED
        BY <3>2, <4>1
    <3> QED
      BY ZenonT(60), <3>3, <3>4, SeqDef
  <2> QED
    BY <1>1, <2>3, <2>4 DEF TypeOK, OInv, RefTypes, NameOK, RunOK, PathTyped, Stages
<1> QED
  BY <1>1, ObjectInv, NameInv, EmissionInv, RunOKInv, PathInv, StagesInv, PTL
=============================================================================
