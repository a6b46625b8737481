------------------------- MODULE ObjectTree_proofs -------------------------
(***************************************************************************)
(* Theorems about the references of ObjectTree, for any objects, values,    *)
(* trees (with cycles or without) and runs.                                 *)
(***************************************************************************)
EXTENDS ObjectTree, SequenceTheorems, FiniteSetTheorems, TLAPS

(* How often: not at all, or once. *)
Is(x, y) == IF x = y THEN 1 ELSE 0
In(x, S) == IF x \in S THEN 1 ELSE 0

(* The places an object may be owned from. *)
SuitesOf(o)  == {s \in Suites : Child(o, s)}
TargetsOf(o) == {c \in Cases : target[c] = o}
ValuesOf(o)  == {v \in Values : value[v] = o}

-----------------------------------------------------------------------------
(* Counting.                                                                *)

(* Two sets that agree but for one element. *)
LEMMA OneApart ==
  ASSUME NEW A, NEW B, NEW x, IsFiniteSet(A), A \ {x} = B \ {x}
  PROVE  /\ IsFiniteSet(B) /\ Cardinality(A) \in Nat /\ Cardinality(B) \in Nat
         /\ Cardinality(B) + In(x, A) = Cardinality(A) + In(x, B)
<1> DEFINE C == A \ {x}
<1>1. IsFiniteSet(C) /\ Cardinality(C) \in Nat
  BY FS_RemoveElement, FS_CardinalityType
<1>2. A = IF x \in A THEN C \cup {x} ELSE C
  OBVIOUS
<1>3. B = IF x \in B THEN C \cup {x} ELSE C
  OBVIOUS
<1>4. IsFiniteSet(C \cup {x}) /\ Cardinality(C \cup {x}) = Cardinality(C) + 1
  BY <1>1, FS_AddElement
<1> HIDE DEF C
<1>5. Cardinality(A) = Cardinality(C) + In(x, A)
  <2>1. CASE x \in A
    BY <1>2, <1>4, <2>1 DEF Is, In
  <2>2. CASE x \notin A
    BY <1>1, <1>2, <2>2 DEF Is, In
  <2> QED
    BY <2>1, <2>2
<1>6. Cardinality(B) = Cardinality(C) + In(x, B) /\ IsFiniteSet(B)
  <2>1. CASE x \in B
    BY <1>1, <1>3, <1>4, <2>1 DEF Is, In
  <2>2. CASE x \notin B
    BY <1>1, <1>3, <2>2 DEF Is, In
  <2> QED
    BY <2>1, <2>2
<1> QED
  BY <1>1, <1>5, <1>6 DEF Is, In

(* The occurrences of x in a sequence. *)
LEMMA CountType ==
  ASSUME NEW S, NEW seq \in Seq(S), NEW x
  PROVE  /\ Count(x, seq) \in Nat
         /\ IsFiniteSet({i \in DOMAIN seq : seq[i] = x})
         /\ Count(x, seq) = 0 <=> \A i \in DOMAIN seq : seq[i] # x
<1>1. DOMAIN seq = 1..Len(seq) /\ Len(seq) \in Nat
  BY LenProperties
<1>2. IsFiniteSet(DOMAIN seq)
  BY <1>1, FS_Interval
<1>3. IsFiniteSet({i \in DOMAIN seq : seq[i] = x})
  BY <1>2, FS_Subset
<1> QED
  BY <1>3, FS_CardinalityType, FS_EmptySet DEF Count

LEMMA CountOne ==
  \A x, o : Count(o, <<>>) = 0 /\ Count(o, <<x>>) = Is(x, o)
<1> TAKE x, o
<1>1. {i \in DOMAIN <<>> : <<>>[i] = o} = {}
  OBVIOUS
<1>2. {i \in DOMAIN <<x>> : <<x>>[i] = o} = IF x = o THEN {1} ELSE {}
  OBVIOUS
<1> QED
  BY <1>1, <1>2, FS_EmptySet, FS_Singleton DEF Count, Is

LEMMA CountConcat ==
  ASSUME NEW S, NEW seq \in Seq(S), NEW tail \in Seq(S), NEW x
  PROVE  Count(x, seq \o tail) = Count(x, seq) + Count(x, tail)
<1> DEFINE I == {i \in DOMAIN seq : seq[i] = x}
           J == {i \in DOMAIN tail : tail[i] = x}
           n == Len(seq)
           K == {i \in (n+1)..(n + Len(tail)) : tail[i - n] = x}
           f == [i \in J |-> i + n]
<1>1. /\ DOMAIN seq = 1..n /\ n \in Nat
      /\ DOMAIN tail = 1..Len(tail) /\ Len(tail) \in Nat
  BY LenProperties
<1>2. /\ DOMAIN (seq \o tail) = 1..(n + Len(tail))
      /\ \A i \in 1..(n + Len(tail)) :
           (seq \o tail)[i] = IF i <= n THEN seq[i] ELSE tail[i - n]
  BY <1>1, ConcatProperties, LenProperties
<1>3. {i \in DOMAIN (seq \o tail) : (seq \o tail)[i] = x} = I \cup K
  BY <1>1, <1>2
<1>4. I \cap K = {}
  BY <1>1
<1>5. f \in Bijection(J, K)
  <2>1. f \in [J -> K]
    BY <1>1
  <2>2. \A i, j \in J : f[i] = f[j] => i = j
    BY <1>1
  <2>3. \A k \in K : \E i \in J : f[i] = k
    <3> TAKE k \in K
    <3>1. k \in (n+1)..(n + Len(tail)) /\ tail[k - n] = x
      OBVIOUS
    <3>2. k - n \in 1..Len(tail) /\ (k - n) + n = k
      BY <1>1, <3>1
    <3>3. k - n \in J
      BY <1>1, <3>1, <3>2
    <3> QED
      BY <3>2, <3>3
  <2> HIDE DEF f, J, K
  <2> QED
    BY <2>1, <2>2, <2>3 DEF Bijection, Injection, IsInjective, Surjection
<1>6. IsFiniteSet(I) /\ IsFiniteSet(J)
  <2> HIDE DEF f, K
  <2> QED
    BY CountType
<1>7. IsFiniteSet(K) /\ Cardinality(K) = Cardinality(J)
  <2> HIDE DEF f, J, K
  <2> QED
    BY <1>5, <1>6, FS_Bijection DEF ExistsBijection
<1>8. Cardinality(I \cup K) = Cardinality(I) + Cardinality(K)
  <2> HIDE DEF I, K
  <2>1. Cardinality(I \cap K) = 0
    BY <1>4, FS_EmptySet
  <2>2. Cardinality(I) \in Nat /\ Cardinality(K) \in Nat
    BY <1>6, <1>7, FS_CardinalityType
  <2>3. Cardinality(I \cup K) = Cardinality(I) + Cardinality(K) - Cardinality(I \cap K)
    BY <1>6, <1>7, FS_Union
  <2> QED
    BY <2>1, <2>2, <2>3
<1> QED
  BY <1>3, <1>7, <1>8 DEF Count

LEMMA CountTail ==
  ASSUME NEW S, NEW seq \in Seq(S), seq # <<>>, NEW x
  PROVE  /\ Head(seq) \in S /\ Tail(seq) \in Seq(S)
         /\ Count(x, seq) = Is(Head(seq), x) + Count(x, Tail(seq))
<1>1. Head(seq) \in S /\ Tail(seq) \in Seq(S) /\ seq = <<Head(seq)>> \o Tail(seq)
  BY HeadTailProperties, LenProperties, ConcatProperties
<1>2. Count(x, <<Head(seq)>> \o Tail(seq)) = Count(x, <<Head(seq)>>) + Count(x, Tail(seq))
  <2>1. <<Head(seq)>> \in Seq(S)
    BY <1>1
  <2> QED
    BY <1>1, <2>1, CountConcat
<1> QED
  BY <1>1, <1>2, CountOne

LEMMA ToSetAppend ==
  ASSUME NEW S, NEW seq \in Seq(S), NEW e \in S
  PROVE  ToSet(Append(seq, e)) = ToSet(seq) \cup {e}
<1> DEFINE n == Len(seq)
           new == Append(seq, e)
<1>1. /\ n \in Nat /\ DOMAIN seq = 1..n /\ DOMAIN new = 1..(n + 1)
      /\ new[n + 1] = e /\ \A i \in 1..n : new[i] = seq[i]
  BY AppendProperties, LenProperties
<1> HIDE DEF n, new
<1>2. 1..(n + 1) = (1..n) \cup {n + 1}
  BY <1>1
<1>3. ToSet(new) = {new[i] : i \in 1..n} \cup {new[n + 1]}
  BY <1>1, <1>2 DEF ToSet
<1>4. {new[i] : i \in 1..n} = ToSet(seq)
  BY <1>1 DEF ToSet
<1> QED
  BY <1>1, <1>3, <1>4 DEF new

(* In a sequence without repetition. *)
LEMMA CountDistinct ==
  ASSUME NEW S, NEW seq \in Seq(S), NEW x,
         \A i, j \in DOMAIN seq : seq[i] = seq[j] => i = j
  PROVE  Count(x, seq) = In(x, ToSet(seq))
<1>1. CASE x \in ToSet(seq)
  <2>1. PICK i \in DOMAIN seq : seq[i] = x
    BY <1>1 DEF ToSet
  <2>2. {j \in DOMAIN seq : seq[j] = x} = {i}
    BY <2>1
  <2> QED
    BY <1>1, <2>2, FS_Singleton DEF Count, In
<1>2. CASE x \notin ToSet(seq)
  <2>1. {j \in DOMAIN seq : seq[j] = x} = {}
    BY <1>2 DEF ToSet
  <2> QED
    BY <1>2, <2>1, FS_EmptySet DEF Count, In
<1> QED
  BY <1>1, <1>2

-----------------------------------------------------------------------------
(* The types of what references depend on. *)
RefTypes ==
  /\ state \in [Objects -> {"none", "live", "freed"}]
  /\ refs \in [Objects -> Nat]
  /\ floating \in [Objects -> BOOLEAN]
  /\ held \in [Objects -> Nat]
  /\ target \in [Cases -> Shared \cup {None}]
  /\ value \in [Values -> Shared \cup {None}]
  /\ parent \in [Objects -> Suites \cup {None}]
  /\ children \in [Suites -> Seq(Objects)]
  /\ drops \in Seq(Objects)
  /\ root \in Suites \cup {None}

(* A child is in the suite its parent pointer tells, and no other, and its  *)
(* name is its own there.                                                   *)
PlaceOK ==
  \A s \in Suites :
    /\ \A o \in Objects : Child(o, s) => parent[o] = s
    /\ \A i, j \in DOMAIN children[s] :
         name[children[s][i]] = name[children[s][j]] => i = j

(* The floating reference of an object is the program's, until it drops it. *)
FloatOK ==
  \A o \in Objects :
    floating[o] /\ Live(o) => held[o] > 0 \/ (drops = <<o>> /\ refs[o] = 1)

(* A case has nothing before its construction and nothing after its end. *)
TargetOK == \A c \in Cases : target[c] # None => Live(c)

(* The run has its suite while there is a run, and is not at its own next   *)
(* step before a call is over.                                              *)
HoldOK ==
  /\ phase = "program" <=> root = None
  /\ phase = "next" => drops = <<>>

(* The inductive invariant. *)
OInv == RefTypes /\ RefsExact /\ PlaceOK /\ FloatOK /\ TargetOK /\ HoldOK

-----------------------------------------------------------------------------
(* The sum of what is owed. *)
LEMMA OwedSum ==
  ASSUME RefTypes, NEW o \in Objects
  PROVE  /\ IsFiniteSet(SuitesOf(o)) /\ Cardinality(SuitesOf(o)) \in Nat
         /\ IsFiniteSet(TargetsOf(o)) /\ Cardinality(TargetsOf(o)) \in Nat
         /\ IsFiniteSet(ValuesOf(o)) /\ Cardinality(ValuesOf(o)) \in Nat
         /\ Count(o, drops) \in Nat /\ held[o] \in Nat /\ refs[o] \in Nat
         /\ Is(root, o) \in Nat
         /\ Owed(o) = held[o] + Cardinality(SuitesOf(o)) + Cardinality(TargetsOf(o))
                        + Cardinality(ValuesOf(o)) + Is(root, o) + Count(o, drops)
<1>1. IsFiniteSet(Suites) /\ IsFiniteSet(Cases) /\ IsFiniteSet(Values)
  BY ObjectAssumption, FS_Subset DEF Objects
<1>2. IsFiniteSet(SuitesOf(o)) /\ IsFiniteSet(TargetsOf(o)) /\ IsFiniteSet(ValuesOf(o))
  BY <1>1, FS_Subset DEF SuitesOf, TargetsOf, ValuesOf
<1>3. Count(o, drops) \in Nat
  BY CountType DEF RefTypes
<1>4. held[o] \in Nat /\ refs[o] \in Nat
  BY DEF RefTypes
<1>5. /\ Cardinality(SuitesOf(o)) \in Nat /\ Cardinality(TargetsOf(o)) \in Nat
      /\ Cardinality(ValuesOf(o)) \in Nat
  BY <1>2, FS_CardinalityType
<1>6. Owed(o) = held[o] + Cardinality(SuitesOf(o)) + Cardinality(TargetsOf(o))
                  + Cardinality(ValuesOf(o)) + Is(root, o) + Count(o, drops)
  BY DEF Owed, SuitesOf, TargetsOf, ValuesOf, Is
<1>7. Is(root, o) \in Nat
  BY DEF Is, In
<1> QED
  BY <1>2, <1>3, <1>4, <1>5, <1>6, <1>7

(* An object nobody owns is in no other's hands. *)
LEMMA Unowned ==
  ASSUME OInv, NEW o \in Objects, ~Live(o)
  PROVE  /\ refs[o] = 0 /\ held[o] = 0 /\ root # o /\ Count(o, drops) = 0
         /\ \A s \in Suites : ~Child(o, s)
         /\ \A c \in Cases : target[c] # o
         /\ \A v \in Values : value[v] # o
<1>1. refs[o] = 0 /\ Owed(o) = 0
  BY OwedSum DEF OInv, RefsExact
<1>2. /\ held[o] = 0 /\ root # o /\ Count(o, drops) = 0
      /\ Cardinality(SuitesOf(o)) = 0 /\ Cardinality(TargetsOf(o)) = 0
      /\ Cardinality(ValuesOf(o)) = 0
  <2>1. /\ held[o] = 0 /\ Is(root, o) = 0 /\ Count(o, drops) = 0
        /\ Cardinality(SuitesOf(o)) = 0 /\ Cardinality(TargetsOf(o)) = 0
        /\ Cardinality(ValuesOf(o)) = 0
    <3>1. RefTypes
      BY DEF OInv
    <3> HIDE DEF RefTypes
    <3> QED
      BY <1>1, <3>1, OwedSum
  <2> QED
    BY <2>1 DEF Is, In
<1>3. SuitesOf(o) = {} /\ TargetsOf(o) = {} /\ ValuesOf(o) = {}
  BY <1>2, OwedSum, FS_EmptySet DEF OInv
<1> QED
  BY <1>1, <1>2, <1>3 DEF SuitesOf, TargetsOf, ValuesOf

(* A step that moves no reference. *)
LEMMA Still ==
  ASSUME OInv, UNCHANGED <<objectVars, ownerVars, treeVars, drops, root>>,
         (phase = "program") <=> (phase' = "program"),
         phase' = "next" => phase = "next" \/ drops = <<>>
  PROVE  OInv'
<1> USE DEF OInv, objectVars, ownerVars, treeVars
<1>1. RefTypes' /\ TargetOK' /\ HoldOK'
  BY DEF RefTypes, TargetOK, HoldOK, Live
<1>2. RefsExact'
  BY DEF RefsExact, Owed, Child, Live
<1>3. PlaceOK' /\ FloatOK'
  BY DEF PlaceOK, FloatOK, Child, Live
<1> QED
  BY <1>1, <1>2, <1>3

LEMMA ObjectInitInv == Init => OInv
<1> SUFFICES ASSUME Init
             PROVE  OInv
  OBVIOUS
<1> USE DEF Init
<1>1. RefTypes
  BY DEF RefTypes
<1>2. ASSUME NEW o \in Objects
      PROVE  Owed(o) = 0
  <2>1. SuitesOf(o) = {} /\ TargetsOf(o) = {} /\ ValuesOf(o) = {} /\ root # o
    BY ObjectAssumption DEF SuitesOf, TargetsOf, ValuesOf, Child, ToSet
  <2> QED
    <3>1. Cardinality(SuitesOf(o)) = 0 /\ Cardinality(TargetsOf(o)) = 0
          /\ Cardinality(ValuesOf(o)) = 0
      BY <2>1, FS_EmptySet
    <3>2. held[o] = 0 /\ Count(o, drops) = 0 /\ Is(root, o) = 0
      BY <2>1, CountOne DEF Is, In
    <3> QED
      BY <1>1, <3>1, <3>2, OwedSum
<1> QED
  BY <1>1, <1>2 DEF OInv, RefsExact, PlaceOK, FloatOK, TargetOK, HoldOK, Live, Child, ToSet

-----------------------------------------------------------------------------
(* What becomes of the sum when one of its parts changes.                   *)

LEMMA OwedNext ==
  ASSUME NEW x \in Objects
  PROVE  Owed(x)' = held'[x] + Cardinality(SuitesOf(x)') + Cardinality(TargetsOf(x)')
                      + Cardinality(ValuesOf(x)') + Is(root', x) + Count(x, drops')
BY DEF Owed, SuitesOf, TargetsOf, ValuesOf, Is, Count

LEMMA SuitesKept ==
  ASSUME UNCHANGED children, NEW x
  PROVE  SuitesOf(x)' = SuitesOf(x)
BY DEF SuitesOf, Child

LEMMA TargetsKept ==
  ASSUME UNCHANGED target, NEW x
  PROVE  TargetsOf(x)' = TargetsOf(x)
BY DEF TargetsOf

LEMMA ValuesKept ==
  ASSUME UNCHANGED value, NEW x
  PROVE  ValuesOf(x)' = ValuesOf(x)
BY DEF ValuesOf

(* Only what the program holds and what is about to be dropped. *)
LEMMA RootMoved ==
  ASSUME RefTypes, UNCHANGED <<target, value, children>>,
         NEW x \in Objects, held'[x] \in Nat, Count(x, drops') \in Nat
  PROVE  /\ Owed(x) \in Nat /\ Owed(x)' \in Nat
         /\ drops' = drops =>
              Owed(x)' + held[x] + Is(root, x) = Owed(x) + held'[x] + Is(root', x)
         /\ held' = held => Owed(x)' + Count(x, drops) + Is(root, x)
                              = Owed(x) + Count(x, drops') + Is(root', x)
<1>1. /\ SuitesOf(x)' = SuitesOf(x) /\ TargetsOf(x)' = TargetsOf(x)
      /\ ValuesOf(x)' = ValuesOf(x)
  BY SuitesKept, TargetsKept, ValuesKept
<1>2. Is(root, x) \in Nat /\ Is(root', x) \in Nat
  BY DEF Is
<1> QED
  BY <1>1, <1>2, OwedSum, OwedNext

LEMMA HeldMoved ==
  ASSUME RefTypes, UNCHANGED <<target, value, children, root>>,
         NEW x \in Objects, held'[x] \in Nat, Count(x, drops') \in Nat
  PROVE  /\ Owed(x) \in Nat /\ Owed(x)' \in Nat
         /\ Owed(x)' + held[x] + Count(x, drops) = Owed(x) + held'[x] + Count(x, drops')
         /\ drops' = drops => Owed(x)' + held[x] = Owed(x) + held'[x]
         /\ held' = held => Owed(x)' + Count(x, drops) = Owed(x) + Count(x, drops')
<1>1. /\ SuitesOf(x)' = SuitesOf(x) /\ TargetsOf(x)' = TargetsOf(x)
      /\ ValuesOf(x)' = ValuesOf(x) /\ root' = root
  BY SuitesKept, TargetsKept, ValuesKept
<1> QED
  BY <1>1, OwedSum, OwedNext

(* And one target, one value, or the children of one suite. *)
LEMMA TargetMoved ==
  ASSUME RefTypes, NEW c \in Cases, NEW x \in Objects,
         \A other \in Cases \ {c} : target'[other] = target[other],
         UNCHANGED <<value, children, root>>,
         held'[x] \in Nat, Count(x, drops') \in Nat
  PROVE  /\ Owed(x) \in Nat /\ Owed(x)' \in Nat
         /\ Owed(x)' + held[x] + Count(x, drops) + Is(target[c], x)
              = Owed(x) + held'[x] + Count(x, drops') + Is(target'[c], x)
         /\ drops' = drops =>
              Owed(x)' + held[x] + Is(target[c], x) = Owed(x) + held'[x] + Is(target'[c], x)
         /\ held' = held =>
              Owed(x)' + Count(x, drops) + Is(target[c], x)
                = Owed(x) + Count(x, drops') + Is(target'[c], x)
<1>1. TargetsOf(x) \ {c} = TargetsOf(x)' \ {c}
  BY DEF TargetsOf
<1>2. IsFiniteSet(TargetsOf(x))
  BY OwedSum
<1>3. /\ In(c, TargetsOf(x)) = Is(target[c], x)
      /\ In(c, TargetsOf(x)') = Is(target'[c], x)
  BY DEF In, Is, TargetsOf
<1>4. /\ Cardinality(TargetsOf(x)') \in Nat
      /\ Cardinality(TargetsOf(x)') + Is(target[c], x)
           = Cardinality(TargetsOf(x)) + Is(target'[c], x)
      /\ Is(target[c], x) \in Nat /\ Is(target'[c], x) \in Nat
  BY <1>1, <1>2, <1>3, OneApart DEF In, Is
<1>5. SuitesOf(x)' = SuitesOf(x) /\ ValuesOf(x)' = ValuesOf(x) /\ root' = root
  BY SuitesKept, TargetsKept, ValuesKept
<1> QED
  BY <1>4, <1>5, OwedSum, OwedNext

LEMMA ValueMoved ==
  ASSUME RefTypes, NEW v \in Values, NEW x \in Objects,
         \A other \in Values \ {v} : value'[other] = value[other],
         UNCHANGED <<target, children, root>>,
         held'[x] \in Nat, Count(x, drops') \in Nat
  PROVE  /\ Owed(x) \in Nat /\ Owed(x)' \in Nat
         /\ Owed(x)' + held[x] + Count(x, drops) + Is(value[v], x)
              = Owed(x) + held'[x] + Count(x, drops') + Is(value'[v], x)
         /\ drops' = drops =>
              Owed(x)' + held[x] + Is(value[v], x) = Owed(x) + held'[x] + Is(value'[v], x)
         /\ held' = held =>
              Owed(x)' + Count(x, drops) + Is(value[v], x)
                = Owed(x) + Count(x, drops') + Is(value'[v], x)
<1>1. ValuesOf(x) \ {v} = ValuesOf(x)' \ {v}
  BY DEF ValuesOf
<1>2. IsFiniteSet(ValuesOf(x))
  BY OwedSum
<1>3. /\ In(v, ValuesOf(x)) = Is(value[v], x)
      /\ In(v, ValuesOf(x)') = Is(value'[v], x)
  BY DEF In, Is, ValuesOf
<1>4. /\ Cardinality(ValuesOf(x)') \in Nat
      /\ Cardinality(ValuesOf(x)') + Is(value[v], x)
           = Cardinality(ValuesOf(x)) + Is(value'[v], x)
      /\ Is(value[v], x) \in Nat /\ Is(value'[v], x) \in Nat
  BY <1>1, <1>2, <1>3, OneApart DEF In, Is
<1>5. SuitesOf(x)' = SuitesOf(x) /\ TargetsOf(x)' = TargetsOf(x) /\ root' = root
  BY SuitesKept, TargetsKept, ValuesKept
<1> QED
  BY <1>4, <1>5, OwedSum, OwedNext

LEMMA ChildrenMoved ==
  ASSUME RefTypes, NEW s \in Suites, NEW x \in Objects,
         \A other \in Suites \ {s} : children'[other] = children[other],
         UNCHANGED <<target, value, root>>,
         held'[x] \in Nat, Count(x, drops') \in Nat
  PROVE  /\ Owed(x) \in Nat /\ Owed(x)' \in Nat
         /\ Owed(x)' + held[x] + Count(x, drops) + In(x, ToSet(children[s]))
              = Owed(x) + held'[x] + Count(x, drops') + In(x, ToSet(children'[s]))
         /\ drops' = drops =>
              Owed(x)' + held[x] + In(x, ToSet(children[s]))
                = Owed(x) + held'[x] + In(x, ToSet(children'[s]))
         /\ held' = held =>
              Owed(x)' + Count(x, drops) + In(x, ToSet(children[s]))
                = Owed(x) + Count(x, drops') + In(x, ToSet(children'[s]))
<1>1. SuitesOf(x) \ {s} = SuitesOf(x)' \ {s}
  BY DEF SuitesOf, Child
<1>2. IsFiniteSet(SuitesOf(x))
  BY OwedSum
<1>3. /\ In(s, SuitesOf(x)) = In(x, ToSet(children[s]))
      /\ In(s, SuitesOf(x)') = In(x, ToSet(children'[s]))
  BY DEF In, Is, SuitesOf, Child
<1>4. /\ Cardinality(SuitesOf(x)') \in Nat
      /\ Cardinality(SuitesOf(x)') + In(x, ToSet(children[s]))
           = Cardinality(SuitesOf(x)) + In(x, ToSet(children'[s]))
      /\ In(x, ToSet(children[s])) \in Nat /\ In(x, ToSet(children'[s])) \in Nat
  BY <1>1, <1>2, <1>3, OneApart DEF In, Is
<1>5. TargetsOf(x)' = TargetsOf(x) /\ ValuesOf(x)' = ValuesOf(x) /\ root' = root
  BY SuitesKept, TargetsKept, ValuesKept
<1> QED
  BY <1>4, <1>5, OwedSum, OwedNext

-----------------------------------------------------------------------------
(* References.                                                              *)

LEMMA NewStep ==
  ASSUME OInv, NEW o \in Objects, New(o)
  PROVE  OInv'
<1> USE DEF OInv
<1>1. /\ state[o] = "none" /\ ~Live(o) /\ drops = <<>>
      /\ state' = [state EXCEPT ![o] = "live"]
      /\ refs' = [refs EXCEPT ![o] = 1]
      /\ floating' = [floating EXCEPT ![o] = TRUE]
      /\ held' = [held EXCEPT ![o] = 1]
      /\ UNCHANGED <<name, target, value, parent, children, drops, phase, root>>
  BY DEF New, Construct, Calls, InCall, Live, ownerVars, treeVars, callVars, runVars
<1>2. RefTypes'
  BY <1>1 DEF RefTypes
<1>3. refs[o] = 0 /\ held[o] = 0
  BY <1>1, Unowned
<1>4. RefsExact'
  <2> SUFFICES ASSUME NEW x \in Objects
               PROVE  refs'[x] = Owed(x)' /\ (Live(x)' <=> refs'[x] > 0)
    BY DEF RefsExact
  <2>1. Count(x, drops') = Count(x, drops) /\ held'[x] \in Nat
    BY <1>1, <1>2 DEF RefTypes
  <2>2. Owed(x)' + held[x] = Owed(x) + held'[x] /\ Owed(x) \in Nat /\ Owed(x)' \in Nat
    <3>1. RefTypes /\ Count(x, drops) \in Nat /\ held[x] \in Nat
      BY OwedSum
    <3> QED
      BY <1>1, <2>1, <3>1, HeldMoved
  <2>3. refs[x] = Owed(x) /\ (Live(x) <=> refs[x] > 0)
    BY DEF RefsExact
  <2> QED
    BY <1>1, <1>3, <2>2, <2>3, OwedSum DEF RefTypes, Live
<1>5. PlaceOK' /\ TargetOK' /\ HoldOK'
  BY <1>1 DEF PlaceOK, TargetOK, HoldOK, Child, Live
<1>6. FloatOK'
  BY <1>1 DEF FloatOK, Live, RefTypes
<1> QED
  BY <1>2, <1>4, <1>5, <1>6

(* The program gets one reference more, or none. *)
LEMMA OneMore ==
  ASSUME OInv, NEW o \in Objects, Live(o), drops = <<>>, NEW new \in {0, 1},
         refs' = [refs EXCEPT ![o] = @ + new],
         held' = [held EXCEPT ![o] = @ + new],
         floating' = floating \/ floating' = [floating EXCEPT ![o] = FALSE],
         UNCHANGED <<state, name, target, value, parent, children, drops, phase, root>>
  PROVE  OInv'
<1> USE DEF OInv
<1>1. RefTypes'
  <2>1. refs[o] + new \in Nat /\ held[o] + new \in Nat
    BY DEF RefTypes
  <2> QED
    BY <2>1 DEF RefTypes
<1>2. RefsExact'
  <2> SUFFICES ASSUME NEW x \in Objects
               PROVE  refs'[x] = Owed(x)' /\ (Live(x)' <=> refs'[x] > 0)
    BY DEF RefsExact
  <2>1. Count(x, drops') = Count(x, drops) /\ held'[x] \in Nat
    BY <1>1 DEF RefTypes
  <2>2. /\ refs'[x] = refs[x] + IF x = o THEN new ELSE 0
        /\ held'[x] = held[x] + IF x = o THEN new ELSE 0
    BY DEF RefTypes
  <2>3. RefTypes /\ Count(x, drops) \in Nat /\ held[x] \in Nat /\ refs[x] \in Nat
    BY OwedSum
  <2>4. Owed(x)' + held[x] = Owed(x) + held'[x] /\ Owed(x) \in Nat /\ Owed(x)' \in Nat
    BY <2>1, <2>3, HeldMoved
  <2>5. refs[x] = Owed(x) /\ (Live(x) <=> refs[x] > 0)
    BY DEF RefsExact
  <2> QED
    BY <2>2, <2>3, <2>4, <2>5 DEF Live
<1>3. PlaceOK' /\ TargetOK' /\ HoldOK'
  BY DEF PlaceOK, TargetOK, HoldOK, Child, Live
<1>4. FloatOK'
  BY DEF FloatOK, Live, RefTypes
<1> QED
  BY <1>1, <1>2, <1>3, <1>4

LEMMA RefStep ==
  ASSUME OInv, NEW o \in Objects, Ref(o) \/ RefSink(o)
  PROVE  OInv'
<1> USE DEF Calls, InCall, ownerVars, treeVars, callVars, runVars
<1>1. refs \in [Objects -> Nat] /\ held \in [Objects -> Nat]
  BY DEF OInv, RefTypes
<1>2. CASE Ref(o)
  BY <1>2, OneMore DEF Ref
<1>3. CASE RefSink(o) /\ floating[o]
  <2>1. refs' = [refs EXCEPT ![o] = @ + 0] /\ held' = [held EXCEPT ![o] = @ + 0]
    <3>1. refs[o] + 0 = refs[o] /\ held[o] + 0 = held[o]
      BY <1>1
    <3> QED
      BY <1>3, <3>1 DEF RefSink, Sink
  <2> QED
    BY <1>3, <2>1, OneMore DEF RefSink, Sink
<1>4. CASE RefSink(o) /\ ~floating[o]
  <2>1. refs' = [refs EXCEPT ![o] = @ + 1] /\ held' = [held EXCEPT ![o] = @ + 1]
    BY <1>1, <1>4 DEF RefSink, Sink
  <2> QED
    BY <1>4, <2>1, OneMore DEF RefSink, Sink
<1> QED
  BY <1>2, <1>3, <1>4

LEMMA NewCaseStep ==
  ASSUME OInv, NEW c \in Cases, NEW o \in Shared, NewCase(c, o)
  PROVE  OInv'
<1> USE DEF OInv
<1>1. /\ state[c] = "none" /\ ~Live(c) /\ drops = <<>>
      /\ held[o] > IF floating[o] THEN 1 ELSE 0
      /\ state' = [state EXCEPT ![c] = "live"]
      /\ refs' = [refs EXCEPT ![c] = 1]
      /\ floating' = [floating EXCEPT ![c] = TRUE]
      /\ held' = [held EXCEPT ![c] = 1, ![o] = @ - 1]
      /\ target' = [target EXCEPT ![c] = o]
      /\ UNCHANGED <<name, value, parent, children, drops, phase, root>>
  BY DEF NewCase, Construct, Calls, InCall, Live, treeVars, callVars, runVars
<1>2. c \in Objects /\ o \in Objects /\ None \notin Objects
  BY ObjectAssumption DEF Objects
<1>3. refs[c] = 0 /\ held[c] = 0 /\ target[c] = None
  BY <1>1, <1>2, Unowned DEF TargetOK
<1>4. o # c /\ held[o] \in Nat /\ held[o] > 0
  BY <1>1, <1>2, <1>3 DEF RefTypes
<1>5. RefTypes'
  <2>1. held[o] - 1 \in Nat
    BY <1>4
  <2>2. held' \in [Objects -> Nat]
    BY <1>1, <1>2, <1>4, <2>1 DEF RefTypes
  <2> QED
    BY <1>1, <1>2, <2>2 DEF RefTypes
<1>6. RefsExact'
  <2> SUFFICES ASSUME NEW x \in Objects
               PROVE  refs'[x] = Owed(x)' /\ (Live(x)' <=> refs'[x] > 0)
    BY DEF RefsExact
  <2>1. /\ Owed(x) \in Nat /\ Owed(x)' \in Nat
        /\ Owed(x)' + held[x] + Is(None, x) = Owed(x) + held'[x] + Is(o, x)
    <3>1. \A d \in Cases \ {c} : target'[d] = target[d]
      BY <1>1
    <3>2. target'[c] = o
      BY <1>1 DEF RefTypes
    <3>3. Count(x, drops') = Count(x, drops) /\ Count(x, drops) \in Nat
      BY <1>1, <1>2, OwedSum
    <3>4. held'[x] \in Nat /\ held[x] \in Nat
      BY <1>2, <1>5 DEF RefTypes
    <3>5. /\ Owed(x) \in Nat /\ Owed(x)' \in Nat
          /\ Owed(x)' + held[x] + Is(target[c], x) = Owed(x) + held'[x] + Is(target'[c], x)
      BY <1>1, <3>1, <3>3, <3>4, TargetMoved
    <3> QED
      BY <1>3, <3>2, <3>5
  <2>2. Is(None, x) = 0 /\ Is(o, x) \in {0, 1} /\ (Is(o, x) = 1 <=> o = x)
    BY <1>2 DEF Is
  <2>3. refs[x] = Owed(x) /\ (Live(x) <=> refs[x] > 0)
    BY DEF RefsExact
  <2>4. held'[x] = (IF x = c THEN 1 ELSE held[x] - Is(o, x)) /\ held[x] \in Nat
    BY <1>1, <1>4 DEF RefTypes, Is
  <2>5. Owed(x)' = Owed(x) + Is(c, x)
    <3>1. x = c => Is(o, x) = 0 /\ held[x] = 0
      BY <1>3, <1>4 DEF Is
    <3>2. Is(c, x) = IF x = c THEN 1 ELSE 0
      BY DEF Is
    <3> QED
      BY <2>1, <2>2, <2>4, <3>1, <3>2
  <2> QED
    BY <1>1, <1>2, <1>3, <2>3, <2>5 DEF RefTypes, Live, Is
<1>7. PlaceOK' /\ TargetOK' /\ HoldOK'
  BY <1>1, <1>2, <1>4 DEF PlaceOK, TargetOK, HoldOK, Child, Live, RefTypes
<1>8. FloatOK'
  BY <1>1, <1>2, <1>4 DEF FloatOK, Live, RefTypes
<1> QED
  BY <1>5, <1>6, <1>7, <1>8

LEMMA UnrefStep ==
  ASSUME OInv, NEW o \in Objects, Unref(o)
  PROVE  OInv'
<1> USE DEF OInv
<1>1. /\ held[o] > 0 /\ drops = <<>> /\ drops' = <<o>>
      /\ phase # "next"
      /\ floating[o] => held[o] > 1 \/ refs[o] = 1
      /\ held' = [held EXCEPT ![o] = @ - 1]
      /\ UNCHANGED <<state, name, refs, floating, target, value, parent, children, phase,
                     root>>
  BY DEF Unref, Calls, InCall, ownerVars, treeVars, runVars
<1>2. RefTypes'
  <2>1. held[o] - 1 \in Nat
    BY <1>1 DEF RefTypes
  <2>2. <<o>> \in Seq(Objects)
    OBVIOUS
  <2> QED
    BY <1>1, <2>1, <2>2 DEF RefTypes
<1>3. RefsExact'
  <2> SUFFICES ASSUME NEW x \in Objects
               PROVE  refs'[x] = Owed(x)' /\ (Live(x)' <=> refs'[x] > 0)
    BY DEF RefsExact
  <2>1. Count(x, drops) = 0 /\ Count(x, drops') = Is(o, x)
    BY <1>1, CountOne
  <2>2. Is(o, x) \in Nat /\ held'[x] = held[x] - Is(o, x) /\ held'[x] \in Nat
    BY <1>1, <1>2 DEF RefTypes, Is
  <2>3. RefTypes /\ held[x] \in Nat
    BY OwedSum
  <2>4. Owed(x)' = Owed(x)
    BY <1>1, <2>1, <2>2, <2>3, HeldMoved
  <2> QED
    BY <1>1, <2>4 DEF RefsExact, Live
<1>4. PlaceOK' /\ TargetOK' /\ HoldOK'
  BY <1>1 DEF PlaceOK, TargetOK, HoldOK, Child, Live
<1>5. FloatOK'
  <2> SUFFICES ASSUME NEW x \in Objects, floating[x] /\ Live(x)
               PROVE  held'[x] > 0 \/ (drops' = <<x>> /\ refs[x] = 1)
    BY <1>1 DEF FloatOK, Live
  <2>1. held[x] > 0 /\ held[x] \in Nat
    BY <1>1 DEF FloatOK, RefTypes
  <2> QED
    BY <1>1, <2>1 DEF RefTypes
<1> QED
  BY <1>2, <1>3, <1>4, <1>5

-----------------------------------------------------------------------------
(* GValues.                                                                 *)

(* A reference more to what the value gets. *)
LEMMA ValueTaken ==
  ASSUME OInv, NEW v \in Values, value[v] = None, NEW o \in Objects, Live(o), o \in Shared,
         refs' = [refs EXCEPT ![o] = @ + 1],
         value' = [value EXCEPT ![v] = o],
         UNCHANGED <<state, name, floating, held, target, parent, children, drops, phase,
                     root>>,
         drops = <<>>
  PROVE  OInv'
<1> USE DEF OInv
<1>1. RefTypes'
  <2>1. refs[o] + 1 \in Nat
    BY DEF RefTypes
  <2> QED
    BY <2>1 DEF RefTypes
<1>2. RefsExact'
  <2> SUFFICES ASSUME NEW x \in Objects
               PROVE  refs'[x] = Owed(x)' /\ (Live(x)' <=> refs'[x] > 0)
    BY DEF RefsExact
  <2>1. Is(None, x) = 0 /\ Is(o, x) \in Nat
    BY ObjectAssumption DEF Is
  <2>2. Owed(x)' = Owed(x) + Is(o, x)
    <3>1. \A w \in Values \ {v} : value'[w] = value[w]
      OBVIOUS
    <3>2. value'[v] = o
      BY DEF RefTypes
    <3>3. RefTypes /\ Count(x, drops) \in Nat /\ held[x] \in Nat
      BY OwedSum
    <3>4. Count(x, drops') = Count(x, drops) /\ held' = held
      OBVIOUS
    <3>5. /\ Owed(x) \in Nat /\ Owed(x)' \in Nat
          /\ Owed(x)' + held[x] + Count(x, drops) + Is(value[v], x)
               = Owed(x) + held'[x] + Count(x, drops') + Is(value'[v], x)
      BY <3>1, <3>3, <3>4, ValueMoved
    <3> QED
      BY SMTT(60), <2>1, <3>2, <3>3, <3>4, <3>5
  <2>3. refs[x] = Owed(x) /\ (Live(x) <=> refs[x] > 0) /\ refs[x] \in Nat
    BY DEF RefsExact, RefTypes
  <2>4. refs'[x] = refs[x] + Is(o, x)
    BY <2>3 DEF Is, RefTypes
  <2>5. x = o => refs[x] > 0
    BY <2>3
  <2> QED
    BY <2>1, <2>2, <2>3, <2>4, <2>5 DEF Live, Is
<1>3. PlaceOK' /\ TargetOK' /\ HoldOK'
  BY DEF PlaceOK, TargetOK, HoldOK, Child, Live
<1>4. FloatOK'
  BY DEF FloatOK, Live, RefTypes
<1> QED
  BY <1>1, <1>2, <1>3, <1>4

LEMMA ValueFreed ==
  ASSUME OInv, NEW v \in Values, value[v] # None, FreeValue(v)
  PROVE  OInv'
<1> USE DEF OInv
<1> DEFINE o == value[v]
<1>1. /\ drops = <<>> /\ drops' = <<o>> /\ phase # "next"
      /\ value' = [value EXCEPT ![v] = None]
      /\ UNCHANGED <<state, name, refs, floating, held, target, parent, children, phase, root>>
  BY DEF FreeValue, Calls, InCall, objectVars, treeVars, runVars
<1>2. o \in Objects /\ None \notin Objects
  BY ObjectAssumption DEF RefTypes
<1>3. value'[v] = None /\ \A w \in Values \ {v} : value'[w] = value[w]
  BY <1>1 DEF RefTypes
<1> HIDE DEF o
<1>4. RefTypes'
  <2>1. <<o>> \in Seq(Objects)
    BY <1>2
  <2> QED
    BY <1>1, <2>1 DEF RefTypes
<1>5. RefsExact'
  <2> SUFFICES ASSUME NEW x \in Objects
               PROVE  Owed(x)' = Owed(x)
    BY <1>1 DEF RefsExact, Live
  <2>1. Count(x, drops) = 0 /\ Count(x, drops') = Is(o, x) /\ Is(o, x) \in Nat
    BY <1>1, CountOne DEF Is
  <2>2. Is(None, x) = 0
    BY <1>2 DEF Is
  <2>3. RefTypes /\ held'[x] \in Nat
    BY <1>4 DEF RefTypes
  <2>4. /\ Owed(x) \in Nat /\ Owed(x)' \in Nat
        /\ Owed(x)' + Count(x, drops) + Is(value[v], x)
             = Owed(x) + Count(x, drops') + Is(value'[v], x)
    BY <1>1, <1>3, <2>1, <2>3, ValueMoved
  <2>5. Is(value[v], x) = Is(o, x)
    BY DEF o
  <2> QED
    BY <1>3, <2>1, <2>2, <2>4, <2>5
<1>6. PlaceOK' /\ TargetOK' /\ HoldOK'
  BY <1>1 DEF PlaceOK, TargetOK, HoldOK, Child, Live
<1>7. FloatOK'
  BY <1>1 DEF FloatOK, Live, RefTypes
<1> QED
  BY <1>4, <1>5, <1>6, <1>7

(* The reference that a value had goes, and the one of the value copied     *)
(* into it comes.                                                           *)
LEMMA ValueReplaced ==
  ASSUME OInv, NEW v \in Values, NEW w \in Values, value[v] # None, value[w] # None,
         CopyValue(v, w)
  PROVE  OInv'
<1> USE DEF OInv
<1> DEFINE n == value[v]
           o == value[w]
<1>1. /\ drops = <<>> /\ drops' = <<o>> /\ phase # "next"
      /\ refs' = [refs EXCEPT ![n] = @ + 1]
      /\ value' = [value EXCEPT ![w] = n]
      /\ UNCHANGED <<state, name, floating, held, target, parent, children, phase, root>>
  BY DEF CopyValue, Calls, InCall, treeVars, runVars
<1>2. n \in Shared /\ n \in Objects /\ o \in Objects /\ None \notin Objects
  BY ObjectAssumption DEF RefTypes
<1>3. Live(n)
  BY <1>2, Unowned
<1>4. value'[w] = n /\ value[w] = o /\ \A u \in Values \ {w} : value'[u] = value[u]
  BY <1>1 DEF RefTypes
<1> HIDE DEF n, o
<1>5. RefTypes'
  <2>1. <<o>> \in Seq(Objects)
    BY <1>2
  <2>2. refs[n] + 1 \in Nat
    BY <1>2 DEF RefTypes
  <2> QED
    BY <1>1, <1>2, <2>1, <2>2 DEF RefTypes
<1>6. RefsExact'
  <2> SUFFICES ASSUME NEW x \in Objects
               PROVE  refs'[x] = Owed(x)' /\ (Live(x)' <=> refs'[x] > 0)
    BY DEF RefsExact
  <2>1. Count(x, drops) = 0 /\ Count(x, drops') = Is(o, x)
    BY <1>1, CountOne
  <2>2. Is(o, x) \in Nat /\ Is(n, x) \in Nat
    BY DEF Is
  <2>3. RefTypes /\ held[x] \in Nat /\ held'[x] = held[x]
    BY <1>1 DEF RefTypes
  <2>4. /\ Owed(x) \in Nat /\ Owed(x)' \in Nat
        /\ Owed(x)' + held[x] + Count(x, drops) + Is(value[w], x)
             = Owed(x) + held'[x] + Count(x, drops') + Is(value'[w], x)
    BY <1>1, <1>4, <2>1, <2>2, <2>3, ValueMoved
  <2>5. Owed(x)' = Owed(x) + Is(n, x)
    BY <1>4, <2>1, <2>2, <2>3, <2>4
  <2>6. refs[x] = Owed(x) /\ (Live(x) <=> refs[x] > 0) /\ refs[x] \in Nat
    BY DEF RefsExact, RefTypes
  <2>7. refs'[x] = refs[x] + Is(n, x)
    BY <1>1, <2>6 DEF Is, RefTypes
  <2>8. x = n => refs[x] > 0
    BY <1>3, <2>6
  <2>9. Live(x)' <=> Live(x)
    BY <1>1 DEF Live
  <2> QED
    BY <2>2, <2>5, <2>6, <2>7, <2>8, <2>9 DEF Is
<1>7. PlaceOK' /\ TargetOK' /\ HoldOK'
  BY <1>1 DEF PlaceOK, TargetOK, HoldOK, Child, Live
<1>8. FloatOK'
  BY <1>1 DEF FloatOK, Live, RefTypes
<1> QED
  BY <1>5, <1>6, <1>7, <1>8

(* A critical that ends the process moves nothing. *)
LEMMA EndStep ==
  ASSUME OInv, NEW how, EndProcess(how)
  PROVE  OInv'
<1>1. /\ UNCHANGED <<objectVars, ownerVars, treeVars, drops, root, phase>>
  BY DEF EndProcess, callVars, runVars
<1> QED
  BY <1>1, Still

LEMMA ValueInv ==
  ASSUME OInv, ValueStep
  PROVE  OInv'
<1> USE DEF Calls, InCall, callVars, runVars
<1>0. Shared \subseteq Objects /\ None \notin Objects
  BY ObjectAssumption
<1>1. ASSUME NEW v \in Values, NEW o \in Shared, CollectValue(v, o)
      PROVE  OInv'
  BY <1>0, <1>1, ValueTaken DEF CollectValue, treeVars
<1>2. ASSUME NEW v \in Values, NEW w \in Values, CopyValue(v, w)
      PROVE  OInv'
  <2>1. CASE value[v] = None \/ value[w] = None
    BY <1>2, <2>1, EndStep DEF CopyValue
  <2>2. CASE value[v] # None /\ value[w] # None
    BY <1>2, <2>2, ValueReplaced
  <2> QED
    BY <2>1, <2>2
<1>3. ASSUME NEW v \in Values, LcopyValue(v)
      PROVE  OInv'
  <2> DEFINE o == value[v]
  <2>1. o \in Objects
    BY <1>0, <1>3 DEF LcopyValue, OInv, RefTypes
  <2>2. Live(o)
    BY <2>1, Unowned
  <2>3. /\ drops = <<>>
        /\ refs' = [refs EXCEPT ![o] = @ + 1]
        /\ held' = [held EXCEPT ![o] = @ + 1]
        /\ UNCHANGED <<state, name, floating, target, value, parent, children, drops, phase,
                       root>>
    BY <1>3 DEF LcopyValue, ownerVars, treeVars
  <2> HIDE DEF o
  <2> QED
    BY <2>1, <2>2, <2>3, OneMore
<1>4. ASSUME NEW v \in Values, FreeValue(v)
      PROVE  OInv'
  <2>1. CASE value[v] = None
    BY <1>4, <2>1, EndStep DEF FreeValue
  <2>2. CASE value[v] # None
    BY <1>4, <2>2, ValueFreed
  <2> QED
    BY <2>1, <2>2
<1> QED
  BY <1>1, <1>2, <1>3, <1>4 DEF ValueStep

-----------------------------------------------------------------------------
(* The tree.                                                                *)

LEMMA AddStep ==
  ASSUME OInv, NEW s \in Suites, NEW o \in Objects, Add(s, o)
  PROVE  OInv'
<1> USE DEF OInv
<1>1. CASE ~Accepts(s, o)
  <2>1. \E how : EndProcess(how)
    BY <1>1 DEF Add
  <2> QED
    BY <2>1, EndStep
<1>2. CASE Accepts(s, o)
  <2>1. /\ drops = <<>> /\ Live(o) /\ parent[o] = None
        /\ \A c \in ToSet(children[s]) : name[c] # name[o]
        /\ floating' = [floating EXCEPT ![o] = FALSE]
        /\ refs' = [refs EXCEPT ![o] = IF floating[o] THEN @ ELSE @ + 1]
        /\ held' = [held EXCEPT ![o] = IF floating[o] THEN @ - 1 ELSE @]
        /\ children' = [children EXCEPT ![s] = Append(@, o)]
        /\ parent' = [parent EXCEPT ![o] = s]
        /\ UNCHANGED <<state, name, target, value, drops, phase, root>>
    BY <1>2 DEF Add, Accepts, Sink, Calls, InCall, ownerVars, runVars
  <2>2. s \in Objects /\ None \notin Objects /\ children[s] \in Seq(Objects)
    BY ObjectAssumption DEF Objects, RefTypes
  <2>3. \A r \in Suites : ~Child(o, r)
    BY <2>1, <2>2, ObjectAssumption DEF PlaceOK, Objects
  <2>4. floating[o] => held[o] > 0
    BY <2>1 DEF FloatOK
  <2>5. RefTypes'
    <3>1. refs[o] + 1 \in Nat /\ (floating[o] => held[o] - 1 \in Nat)
      BY <2>4 DEF RefTypes
    <3>2. Append(children[s], o) \in Seq(Objects)
      BY <2>2, AppendProperties
    <3> QED
      BY <2>1, <3>1, <3>2 DEF RefTypes
  <2>6. /\ children'[s] = Append(children[s], o)
        /\ \A r \in Suites \ {s} : children'[r] = children[r]
    BY <2>1 DEF RefTypes
  <2>7. /\ Len(children[s]) \in Nat
        /\ DOMAIN children[s] = 1..Len(children[s])
        /\ DOMAIN children'[s] = 1..(Len(children[s]) + 1)
        /\ children'[s][Len(children[s]) + 1] = o
        /\ \A i \in 1..Len(children[s]) : children'[s][i] = children[s][i]
    BY <2>2, <2>6, AppendProperties, LenProperties
  <2>8. ToSet(children'[s]) = ToSet(children[s]) \cup {o}
    BY <2>2, <2>6, ToSetAppend
  <2>9. RefsExact'
    <3> SUFFICES ASSUME NEW x \in Objects
                 PROVE  refs'[x] = Owed(x)' /\ (Live(x)' <=> refs'[x] > 0)
      BY DEF RefsExact
    <3>1. In(x, ToSet(children'[s])) = In(x, ToSet(children[s])) + Is(o, x)
      BY <2>3, <2>8 DEF In, Is, Child
    <3>2. Count(x, drops') = Count(x, drops) /\ Count(x, drops) \in Nat
      BY <2>1, OwedSum
    <3>3. held'[x] \in Nat /\ RefTypes
      BY <2>5 DEF RefTypes
    <3>4. /\ Owed(x) \in Nat /\ Owed(x)' \in Nat
          /\ Owed(x)' + held[x] + In(x, ToSet(children[s]))
               = Owed(x) + held'[x] + In(x, ToSet(children'[s]))
      BY <2>1, <2>6, <3>2, <3>3, ChildrenMoved
    <3>5. In(x, ToSet(children[s])) \in Nat /\ Is(o, x) \in Nat
      BY DEF In, Is
    <3>6. Owed(x)' + held[x] = Owed(x) + held'[x] + Is(o, x)
      <4>1. held[x] \in Nat
        BY DEF RefTypes
      <4> HIDE DEF OInv
      <4> QED
        BY <3>1, <3>3, <3>4, <3>5, <4>1
    <3>7. refs[x] = Owed(x) /\ (Live(x) <=> refs[x] > 0) /\ refs[x] \in Nat
      BY DEF RefsExact, RefTypes
    <3>8. CASE x = o
      <4>1. held[o] \in Nat /\ Is(o, x) = 1 /\ state' = state
        BY <2>1, <3>8 DEF RefTypes, Is
      <4>2. CASE floating[o]
        <5>1. refs'[o] = refs[o] /\ held'[o] = held[o] - 1
          BY <2>1, <4>2 DEF RefTypes
        <5> QED
          BY <3>4, <3>6, <3>7, <3>8, <4>1, <5>1 DEF Live
      <4>3. CASE ~floating[o]
        <5>1. refs'[o] = refs[o] + 1 /\ held'[o] = held[o]
          BY <2>1, <4>3 DEF RefTypes
        <5> QED
          BY <2>1, <3>4, <3>6, <3>7, <3>8, <4>1, <5>1 DEF Live
      <4> QED
        BY <4>2, <4>3
    <3>9. CASE x # o
      <4>1. refs'[x] = refs[x] /\ held'[x] = held[x] /\ Is(o, x) = 0 /\ state' = state
            /\ held[x] \in Nat
        BY <2>1, <3>9 DEF RefTypes, Is
      <4> QED
        BY <3>4, <3>6, <3>7, <4>1 DEF Live
    <3> QED
      BY <3>8, <3>9
  <2>10. PlaceOK'
    <3> SUFFICES ASSUME NEW r \in Suites
                 PROVE  /\ \A c \in Objects : Child(c, r)' => parent'[c] = r
                        /\ \A i, j \in DOMAIN children'[r] :
                             name[children'[r][i]] = name[children'[r][j]] => i = j
      BY <2>1 DEF PlaceOK
    <3>1. CASE r = s
      <4>1. ASSUME NEW c \in Objects, Child(c, r)'
            PROVE  parent'[c] = r
        BY <2>1, <2>8, <3>1, <4>1 DEF Child, PlaceOK, RefTypes
      <4>2. ASSUME NEW i \in DOMAIN children'[s], NEW j \in DOMAIN children'[s],
                   name[children'[s][i]] = name[children'[s][j]]
            PROVE  i = j
        <5>1. \A k \in 1..Len(children[s]) : children[s][k] \in ToSet(children[s])
          BY <2>7 DEF ToSet
        <5>2. /\ i \in 1..Len(children[s]) \/ i = Len(children[s]) + 1
              /\ j \in 1..Len(children[s]) \/ j = Len(children[s]) + 1
          BY <2>7
        <5>3. CASE i \in 1..Len(children[s]) /\ j \in 1..Len(children[s])
          BY <2>7, <4>2, <5>3 DEF PlaceOK
        <5>4. CASE i = Len(children[s]) + 1 /\ j \in 1..Len(children[s])
          BY <2>1, <2>7, <4>2, <5>1, <5>4
        <5>5. CASE j = Len(children[s]) + 1 /\ i \in 1..Len(children[s])
          BY <2>1, <2>7, <4>2, <5>1, <5>5
        <5> QED
          BY <5>2, <5>3, <5>4, <5>5
      <4> QED
        BY <3>1, <4>1, <4>2
    <3>2. CASE r # s
      BY <2>1, <2>3, <2>6, <3>2 DEF PlaceOK, Child, RefTypes
    <3> QED
      BY <3>1, <3>2
  <2>11. FloatOK' /\ TargetOK' /\ HoldOK'
    <3>1. FloatOK'
      BY <2>1 DEF FloatOK, Live, RefTypes
    <3> QED
      BY <2>1, <3>1 DEF TargetOK, HoldOK, Live
  <2> QED
    BY <2>5, <2>9, <2>10, <2>11
<1> QED
  BY <1>1, <1>2

-----------------------------------------------------------------------------
(* Dropping references.                                                     *)

(* The last reference to an object is the one that is dropped. *)
LEMMA LastOne ==
  ASSUME OInv, NEW o \in Objects, refs[o] = 1, Count(o, drops) > 0
  PROVE  /\ held[o] = 0 /\ root # o /\ Count(o, drops) = 1
         /\ \A s \in Suites : ~Child(o, s)
         /\ \A c \in Cases : target[c] # o
         /\ \A v \in Values : value[v] # o
<1>1. RefTypes /\ Owed(o) = 1
  BY DEF OInv, RefsExact
<1>2. /\ held[o] = 0 /\ Is(root, o) = 0 /\ Count(o, drops) = 1
      /\ Cardinality(SuitesOf(o)) = 0 /\ Cardinality(TargetsOf(o)) = 0
      /\ Cardinality(ValuesOf(o)) = 0
  BY <1>1, OwedSum
<1>3. SuitesOf(o) = {} /\ TargetsOf(o) = {} /\ ValuesOf(o) = {}
  BY <1>1, <1>2, OwedSum, FS_EmptySet
<1>4. root # o
  BY <1>2 DEF Is
<1> QED
  BY <1>2, <1>3, <1>4 DEF SuitesOf, TargetsOf, ValuesOf

(* The object about to be dropped is alive. *)
LEMMA AboutToDrop ==
  ASSUME OInv, drops # <<>>
  PROVE  /\ Head(drops) \in Objects /\ Tail(drops) \in Seq(Objects)
         /\ Count(Head(drops), drops) > 0
         /\ refs[Head(drops)] > 0 /\ Live(Head(drops))
         /\ \A x \in Objects : /\ Count(x, drops) = Is(Head(drops), x) + Count(x, Tail(drops))
                               /\ Count(x, Tail(drops)) \in Nat
<1> DEFINE o == Head(drops)
<1>1. drops \in Seq(Objects) /\ RefTypes
  BY DEF OInv, RefTypes
<1>2. o \in Objects /\ Tail(drops) \in Seq(Objects)
  BY <1>1, CountTail
<1>3. \A x \in Objects : /\ Count(x, drops) = Is(o, x) + Count(x, Tail(drops))
                         /\ Count(x, Tail(drops)) \in Nat
  BY <1>1, <1>2, CountTail, CountType
<1>4. Is(o, o) = 1
  BY DEF Is
<1>5. Count(o, drops) > 0
  BY <1>2, <1>3, <1>4
<1> HIDE DEF o
<1>6. Owed(o) > 0 /\ refs[o] = Owed(o)
  <2>1. refs[o] = Owed(o)
    BY <1>2 DEF OInv, RefsExact
  <2>2. Owed(o) > 0
    <3>1. /\ Cardinality(SuitesOf(o)) \in Nat /\ Cardinality(TargetsOf(o)) \in Nat
          /\ Cardinality(ValuesOf(o)) \in Nat
          /\ Count(o, drops) \in Nat /\ held[o] \in Nat /\ Is(root, o) \in Nat
          /\ Owed(o) = held[o] + Cardinality(SuitesOf(o)) + Cardinality(TargetsOf(o))
                         + Cardinality(ValuesOf(o)) + Is(root, o) + Count(o, drops)
      BY <1>1, <1>2, OwedSum
    <3> QED
      BY <1>5, <3>1
  <2> QED
    BY <2>1, <2>2
<1>7. refs[o] > 0 /\ Live(o)
  BY <1>2, <1>6 DEF OInv, RefsExact
<1> QED
  BY <1>2, <1>3, <1>5, <1>7 DEF o

(* One reference of several is dropped. *)
LEMMA DropOne ==
  ASSUME OInv, drops # <<>>, refs[Head(drops)] > 1, Drop
  PROVE  OInv'
<1> DEFINE o == Head(drops)
<1>1. /\ drops' = Tail(drops)
      /\ refs' = [refs EXCEPT ![o] = @ - 1]
      /\ UNCHANGED <<state, target, parent, children, name, floating, held, value, phase, root>>
  <2>1. refs[o] # 1
    BY AboutToDrop DEF OInv, RefTypes
  <2> QED
    BY <2>1 DEF Drop, treeVars, runVars
<1>2. /\ o \in Objects /\ Tail(drops) \in Seq(Objects) /\ refs[o] > 1 /\ refs[o] \in Nat
      /\ \A x \in Objects : /\ Count(x, drops) = Is(o, x) + Count(x, drops')
                            /\ Count(x, drops') \in Nat
  BY <1>1, AboutToDrop DEF OInv, RefTypes
<1> HIDE DEF o
<1>3. RefTypes'
  <2>1. refs[o] - 1 \in Nat
    BY <1>2
  <2> QED
    BY <1>1, <1>2, <2>1 DEF OInv, RefTypes
<1>4. RefsExact'
  <2> SUFFICES ASSUME NEW x \in Objects
               PROVE  refs'[x] = Owed(x)' /\ (Live(x)' <=> refs'[x] > 0)
    BY DEF RefsExact
  <2>1. held'[x] \in Nat /\ held[x] \in Nat /\ RefTypes
    BY <1>3 DEF OInv, RefTypes
  <2>2. /\ Owed(x) \in Nat /\ Owed(x)' \in Nat
        /\ Owed(x)' + Count(x, drops) = Owed(x) + Count(x, drops')
    BY <1>1, <1>2, <2>1, HeldMoved
  <2>3. Owed(x)' + Is(o, x) = Owed(x)
    <3>1. Is(o, x) \in Nat
      BY DEF Is
    <3> QED
      BY SMTT(60), <1>2, <2>2, <3>1
  <2>4. refs[x] = Owed(x) /\ (Live(x) <=> refs[x] > 0) /\ refs[x] \in Nat
    BY DEF OInv, RefsExact, RefTypes
  <2>5. refs'[x] + Is(o, x) = refs[x] /\ (refs'[x] > 0 <=> refs[x] > 0) /\ refs'[x] \in Nat
    BY SMTT(60), <1>1, <1>2, <1>3, <2>4 DEF Is, RefTypes
  <2>6. Live(x)' <=> Live(x)
    BY <1>1 DEF Live
  <2>7. Is(o, x) \in Nat
    BY DEF Is
  <2> QED
    BY <2>2, <2>3, <2>4, <2>5, <2>6, <2>7
<1>5. PlaceOK' /\ TargetOK' /\ HoldOK'
  <2>1. phase # "next"
    BY DEF OInv, HoldOK
  <2> QED
    BY <1>1, <2>1 DEF OInv, PlaceOK, TargetOK, HoldOK, Child, Live
<1>6. FloatOK'
  <2> SUFFICES ASSUME NEW x \in Objects, floating[x], Live(x)
               PROVE  held[x] > 0
    BY <1>1 DEF FloatOK, Live
  <2>1. drops = <<x>> => x = o
    BY DEF o
  <2> QED
    BY <1>2, <2>1 DEF OInv, FloatOK
<1> QED
  BY <1>3, <1>4, <1>5, <1>6 DEF OInv

(* The last reference is dropped: what the object owned is dropped in turn. *)
LEMMA DropLast ==
  ASSUME OInv, drops # <<>>, refs[Head(drops)] = 1, Drop
  PROVE  OInv'
<1> DEFINE o == Head(drops)
           owned == IF o \in Suites THEN children[o] ELSE Released(o)
<1>1. /\ drops' = owned \o Tail(drops)
      /\ refs' = [refs EXCEPT ![o] = @ - 1]
      /\ state' = [state EXCEPT ![o] = "freed"]
      /\ parent' = [parent EXCEPT ![o] = None]
      /\ children' = [s \in Suites |-> IF s = o THEN <<>> ELSE children[s]]
      /\ target' = [c \in Cases |-> IF c = o THEN None ELSE target[c]]
      /\ UNCHANGED <<name, floating, held, value, phase, root>>
  BY DEF Drop, Finalize, runVars
<1>2. /\ o \in Objects /\ Tail(drops) \in Seq(Objects) /\ refs[o] = 1 /\ Live(o)
      /\ \A x \in Objects : /\ Count(x, drops) = Is(o, x) + Count(x, Tail(drops))
                            /\ Count(x, Tail(drops)) \in Nat
  BY AboutToDrop
<1>3. /\ held[o] = 0 /\ root # o
      /\ \A s \in Suites : ~Child(o, s)
      /\ \A c \in Cases : target[c] # o
      /\ \A v \in Values : value[v] # o
  BY AboutToDrop, LastOne
<1>4. drops = <<o>> \/ \A x \in Objects : drops # <<x>>
  OBVIOUS
<1> HIDE DEF o
<1>5. /\ RefTypes /\ Suites \subseteq Objects /\ Cases \subseteq Objects
      /\ Suites \cap Cases = {} /\ None \notin Objects /\ Shared \subseteq Objects
      /\ (o \in Suites \/ o \in Cases)
  BY <1>2, ObjectAssumption DEF OInv, Objects
<1>6. owned \in Seq(Objects)
  <2>1. CASE o \in Suites
    BY <1>5, <2>1 DEF RefTypes
  <2>2. CASE o \in Cases /\ target[o] = None
    BY <1>5, <2>2 DEF Released
  <2>3. CASE o \in Cases /\ target[o] # None
    <3>1. target[o] \in Objects
      BY <1>5, <2>3 DEF RefTypes
    <3> QED
      BY <1>5, <2>3, <3>1 DEF Released
  <2> QED
    BY <1>5, <2>1, <2>2, <2>3
<1> HIDE DEF owned
<1>7. RefTypes'
  <2>1. refs[o] - 1 \in Nat
    BY <1>2
  <2>2. drops' \in Seq(Objects)
    BY <1>1, <1>2, <1>6, ConcatProperties
  <2>3. children' \in [Suites -> Seq(Objects)]
    <3>1. <<>> \in Seq(Objects) /\ children \in [Suites -> Seq(Objects)]
      BY <1>5 DEF RefTypes
    <3> QED
      BY <1>1, <3>1
  <2>4. target' \in [Cases -> Shared \cup {None}]
    BY <1>1, <1>5 DEF RefTypes
  <2>5. /\ state' \in [Objects -> {"none", "live", "freed"}]
        /\ refs' \in [Objects -> Nat]
        /\ parent' \in [Objects -> Suites \cup {None}]
    BY <1>1, <1>2, <1>5, <2>1 DEF RefTypes
  <2> QED
    BY <1>1, <1>5, <2>2, <2>3, <2>4, <2>5 DEF RefTypes
<1>8. ASSUME NEW x \in Objects
      PROVE  Owed(x) \in Nat /\ Owed(x)' \in Nat /\ Owed(x)' + Is(o, x) = Owed(x)
  <2>1. Count(x, drops') = Count(x, owned) + Count(x, Tail(drops))
    BY <1>1, <1>2, <1>6, CountConcat
  <2>2. Count(x, owned) \in Nat /\ Is(o, x) \in Nat /\ Count(x, drops') \in Nat
        /\ held'[x] \in Nat
    BY <1>2, <1>6, <1>7, <2>1, CountType DEF Is, RefTypes
  <2>3. /\ Count(x, drops) = Is(o, x) + Count(x, Tail(drops))
        /\ Count(x, Tail(drops)) \in Nat
    BY <1>2
  <2>4. CASE o \in Suites
    <3>1. /\ \A s \in Suites \ {o} : children'[s] = children[s]
          /\ children'[o] = <<>>
      BY <1>1, <2>4
    <3>2. target' = target
      BY <1>1, <1>5, <2>4 DEF RefTypes
    <3>3. /\ Owed(x) \in Nat /\ Owed(x)' \in Nat
          /\ Owed(x)' + Count(x, drops) + In(x, ToSet(children[o]))
               = Owed(x) + Count(x, drops') + In(x, ToSet(children'[o]))
      BY <1>1, <1>5, <2>2, <2>4, <3>1, <3>2, ChildrenMoved
    <3>4. In(x, ToSet(children'[o])) = 0
      BY <3>1 DEF In, ToSet
    <3>5. Count(x, owned) = In(x, ToSet(children[o]))
      <4>1. children[o] \in Seq(Objects)
        BY <1>5, <2>4 DEF RefTypes
      <4>2. \A i, j \in DOMAIN children[o] : children[o][i] = children[o][j] => i = j
        BY <2>4 DEF OInv, PlaceOK
      <4> QED
        BY <2>4, <4>1, <4>2, CountDistinct DEF owned
    <3>6. Owed(x)' + Count(x, drops) + Count(x, owned) = Owed(x) + Count(x, drops')
      BY <2>2, <3>3, <3>4, <3>5
    <3> QED
      BY <2>1, <2>2, <2>3, <3>3, <3>6
  <2>5. CASE o \in Cases
    <3>1. /\ \A c \in Cases \ {o} : target'[c] = target[c]
          /\ target'[o] = None
      BY <1>1, <2>5
    <3>2. children' = children
      BY <1>1, <1>5, <2>5 DEF RefTypes
    <3>3. /\ Owed(x) \in Nat /\ Owed(x)' \in Nat
          /\ Owed(x)' + Count(x, drops) + Is(target[o], x)
               = Owed(x) + Count(x, drops') + Is(target'[o], x)
      BY <1>1, <1>5, <2>2, <2>5, <3>1, <3>2, TargetMoved
    <3>4. Is(target'[o], x) = 0
      BY <1>5, <3>1 DEF Is
    <3>5. Count(x, owned) = Is(target[o], x)
      <4>1. owned = Released(o)
        BY <1>5, <2>5 DEF owned
      <4> QED
        BY <1>5, <4>1, CountOne DEF Released, Is
    <3>6. Owed(x)' + Count(x, drops) + Count(x, owned) = Owed(x) + Count(x, drops')
      BY <2>2, <3>3, <3>4, <3>5
    <3> QED
      BY <2>1, <2>2, <2>3, <3>3, <3>6
  <2> QED
    BY <1>5, <2>4, <2>5
<1>9. RefsExact'
  <2> SUFFICES ASSUME NEW x \in Objects
               PROVE  refs'[x] = Owed(x)' /\ (Live(x)' <=> refs'[x] > 0)
    BY DEF RefsExact
  <2>1. Owed(x) \in Nat /\ Owed(x)' \in Nat /\ Owed(x)' + Is(o, x) = Owed(x)
    BY <1>8
  <2>2. refs[x] = Owed(x) /\ (Live(x) <=> refs[x] > 0)
    BY DEF OInv, RefsExact
  <2>3. CASE x = o
    <3>1. refs'[x] = 0 /\ state'[x] = "freed" /\ Is(o, x) = 1
      BY <1>1, <1>2, <1>5, <2>3 DEF Is, RefTypes
    <3> QED
      BY <1>2, <2>1, <2>2, <2>3, <3>1 DEF Live
  <2>4. CASE x # o
    <3>1. refs'[x] = refs[x] /\ state'[x] = state[x] /\ Is(o, x) = 0
      BY <1>1, <1>5, <2>4 DEF Is, RefTypes
    <3> QED
      BY <2>1, <2>2, <3>1 DEF Live
  <2> QED
    BY <2>3, <2>4
<1>10. PlaceOK'
  <2> SUFFICES ASSUME NEW s \in Suites
               PROVE  /\ \A x \in Objects : Child(x, s)' => parent'[x] = s
                      /\ \A i, j \in DOMAIN children'[s] :
                           name[children'[s][i]] = name[children'[s][j]] => i = j
    BY <1>1 DEF PlaceOK
  <2>1. CASE s = o
    BY <1>1, <2>1 DEF Child, ToSet
  <2>2. CASE s # o
    <3>1. children'[s] = children[s]
      BY <1>1, <2>2
    <3>2. ASSUME NEW x \in Objects, Child(x, s)'
          PROVE  parent'[x] = s
      <4>1. Child(x, s)
        BY <3>1, <3>2 DEF Child
      <4>2. x # o
        BY <1>3, <4>1
      <4> QED
        BY <1>1, <1>5, <4>1, <4>2 DEF OInv, PlaceOK, RefTypes
    <3> QED
      BY <3>1, <3>2 DEF OInv, PlaceOK
  <2> QED
    BY <2>1, <2>2
<1>11. FloatOK'
  <2> SUFFICES ASSUME NEW x \in Objects, floating[x], Live(x)'
               PROVE  held[x] > 0
    BY <1>1 DEF FloatOK
  <2>1. x # o
    BY <1>1, <1>2, <1>5 DEF Live, RefTypes
  <2>2. Live(x)
    BY <1>1, <1>5, <2>1 DEF Live, RefTypes
  <2>3. drops = <<x>> => x = o
    BY DEF o
  <2> QED
    BY <2>1, <2>2, <2>3 DEF OInv, FloatOK
<1>12. TargetOK' /\ HoldOK'
  <2>1. TargetOK'
    <3> SUFFICES ASSUME NEW c \in Cases, target'[c] # None
                 PROVE  Live(c)'
      BY DEF TargetOK
    <3>1. c # o /\ target'[c] = target[c]
      BY <1>1
    <3> QED
      BY <1>1, <1>5, <3>1 DEF OInv, TargetOK, Live, RefTypes
  <2> QED
    BY <1>1, <2>1 DEF OInv, HoldOK
<1> QED
  BY <1>7, <1>9, <1>10, <1>11, <1>12 DEF OInv

LEMMA DropInv ==
  ASSUME OInv, Drop
  PROVE  OInv'
<1>1. drops # <<>> /\ (refs[Head(drops)] = 1 \/ refs[Head(drops)] > 1)
  BY DEF Drop
<1> QED
  BY <1>1, DropOne, DropLast

-----------------------------------------------------------------------------
(* The run.                                                                 *)

(* It takes the reference over from the program. *)
LEMMA RunInv ==
  ASSUME OInv, NEW s \in Suites, Run(s)
  PROVE  OInv'
<1>1. CASE hasRun
  BY <1>1, EndStep DEF Run
<1>2. CASE ~hasRun
  <2>1. /\ phase = "program" /\ phase' = "next" /\ drops = <<>> /\ held[s] > 0
        /\ floating' = [floating EXCEPT ![s] = FALSE]
        /\ held' = [held EXCEPT ![s] = @ - 1]
        /\ root' = s
        /\ UNCHANGED <<state, name, refs, target, value, parent, children, drops>>
    BY <1>2 DEF Run, Calls, InCall, ownerVars, treeVars, callVars
  <2>2. RefTypes /\ root = None /\ s \in Objects /\ None \notin Objects
    BY <2>1, ObjectAssumption DEF OInv, HoldOK, Objects
  <2>3. RefTypes'
    <3>1. held[s] - 1 \in Nat
      BY <2>1, <2>2 DEF RefTypes
    <3> QED
      BY <2>1, <2>2, <3>1 DEF RefTypes
  <2>4. RefsExact'
    <3> SUFFICES ASSUME NEW x \in Objects
                 PROVE  Owed(x)' = Owed(x)
      BY <2>1 DEF OInv, RefsExact, Live
    <3>1. held'[x] \in Nat /\ held[x] \in Nat
      BY <2>2, <2>3 DEF RefTypes
    <3>2. Count(x, drops') = Count(x, drops) /\ Count(x, drops) \in Nat
      BY <2>1, <2>2, OwedSum
    <3>3. /\ Owed(x) \in Nat /\ Owed(x)' \in Nat
          /\ Owed(x)' + held[x] + Is(root, x) = Owed(x) + held'[x] + Is(root', x)
      BY <2>1, <2>2, <3>1, <3>2, RootMoved
    <3>4. Is(root, x) = 0 /\ Is(root', x) = Is(s, x) /\ Is(s, x) \in Nat
      BY <2>1, <2>2 DEF Is
    <3>5. held'[x] + Is(s, x) = held[x]
      BY <2>1, <2>2, <3>1 DEF Is, RefTypes
    <3> QED
      BY <3>1, <3>3, <3>4, <3>5
  <2>5. PlaceOK' /\ TargetOK' /\ HoldOK'
    BY <2>1, <2>2 DEF OInv, PlaceOK, TargetOK, HoldOK, Child, Live
  <2>6. FloatOK'
    BY <2>1, <2>2 DEF OInv, FloatOK, Live, RefTypes
  <2> QED
    BY <2>3, <2>4, <2>5, <2>6 DEF OInv
<1> QED
  BY <1>1, <1>2

(* A case that has run is disposed of. *)
LEMMA EndBodyInv ==
  ASSUME OInv, NEW c \in Cases, EndBody(c)
  PROVE  OInv'
<1>1. /\ phase = "body" /\ phase' = "report" /\ drops = <<>> /\ drops' = Released(c)
      /\ target' = [target EXCEPT ![c] = None]
      /\ UNCHANGED <<state, name, refs, floating, held, value, parent, children, root>>
  BY DEF EndBody, Dispose, Calls, InCall, objectVars, treeVars
<1>2. /\ RefTypes /\ None \notin Objects /\ Shared \subseteq Objects
  BY ObjectAssumption DEF OInv
<1>3. RefTypes'
  <2>1. target[c] = None \/ target[c] \in Objects
    BY <1>2 DEF RefTypes
  <2>2. Released(c) \in Seq(Objects)
    BY <2>1 DEF Released
  <2> QED
    BY <1>1, <1>2, <2>2 DEF RefTypes
<1>4. RefsExact'
  <2> SUFFICES ASSUME NEW x \in Objects
               PROVE  Owed(x)' = Owed(x)
    BY <1>1 DEF OInv, RefsExact, Live
  <2>1. target'[c] = None /\ \A d \in Cases \ {c} : target'[d] = target[d]
    BY <1>1, <1>2 DEF RefTypes
  <2>2. Count(x, drops) = 0 /\ Count(x, drops') = Is(target[c], x)
    BY <1>1, <1>2, CountOne DEF Released, Is
  <2>3. held'[x] \in Nat /\ Is(target[c], x) \in Nat /\ Is(None, x) = 0
    BY <1>2, <1>3 DEF RefTypes, Is
  <2>4. /\ Owed(x) \in Nat /\ Owed(x)' \in Nat
        /\ Owed(x)' + Count(x, drops) + Is(target[c], x)
             = Owed(x) + Count(x, drops') + Is(target'[c], x)
    BY <1>1, <1>2, <2>1, <2>2, <2>3, TargetMoved
  <2> QED
    BY <2>1, <2>2, <2>3, <2>4
<1>5. PlaceOK' /\ TargetOK' /\ HoldOK'
  BY <1>1, <1>2 DEF OInv, PlaceOK, TargetOK, HoldOK, Child, Live, RefTypes
<1>6. FloatOK'
  BY <1>1 DEF OInv, FloatOK, Live
<1> QED
  BY <1>3, <1>4, <1>5, <1>6 DEF OInv

(* The run is over, and its reference goes. *)
LEMMA EndRunInv ==
  ASSUME OInv, EndRun
  PROVE  OInv'
<1>1. /\ phase = "next" /\ phase' = "program" /\ drops' = <<root>> /\ root' = None
      /\ UNCHANGED <<state, name, refs, floating, held, target, value, parent, children>>
  BY DEF EndRun, objectVars, ownerVars, treeVars
<1>2. RefTypes /\ drops = <<>> /\ root \in Objects /\ None \notin Objects
  BY <1>1, ObjectAssumption DEF OInv, HoldOK, RefTypes, Objects
<1>3. RefTypes'
  <2>1. <<root>> \in Seq(Objects)
    BY <1>2
  <2> QED
    BY <1>1, <1>2, <2>1 DEF RefTypes
<1>4. RefsExact'
  <2> SUFFICES ASSUME NEW x \in Objects
               PROVE  Owed(x)' = Owed(x)
    BY <1>1 DEF OInv, RefsExact, Live
  <2>1. Count(x, drops) = 0 /\ Count(x, drops') = Is(root, x)
    BY <1>1, <1>2, CountOne
  <2>2. held'[x] \in Nat /\ Is(root, x) \in Nat /\ Is(root', x) = 0
    BY <1>1, <1>2, <1>3 DEF RefTypes, Is
  <2>3. /\ Owed(x) \in Nat /\ Owed(x)' \in Nat
        /\ Owed(x)' + Count(x, drops) + Is(root, x)
             = Owed(x) + Count(x, drops') + Is(root', x)
    BY <1>1, <1>2, <2>1, <2>2, RootMoved
  <2> QED
    BY <2>1, <2>2, <2>3
<1>5. PlaceOK' /\ TargetOK' /\ HoldOK'
  BY <1>1 DEF OInv, PlaceOK, TargetOK, HoldOK, Child, Live
<1>6. FloatOK'
  BY <1>1, <1>2 DEF OInv, FloatOK, Live
<1> QED
  BY <1>3, <1>4, <1>5, <1>6 DEF OInv

-----------------------------------------------------------------------------
(* The theorem.                                                             *)

LEMMA ProgramInv ==
  ASSUME OInv, ProgramStep
  PROVE  OInv'
<1>1. PICK o \in Objects :
        New(o) \/ RefuseNew(o) \/ Ref(o) \/ RefSink(o) \/ Unref(o) \/ Read(o)
  BY DEF ProgramStep
<1>2. CASE RefuseNew(o)
  BY <1>2, EndStep DEF RefuseNew
<1>3. CASE Read(o)
  <2>1. CASE Strays(o)
    BY <1>3, <2>1, EndStep DEF Read
  <2>2. CASE ~Strays(o)
    BY <1>3, <2>2, Still DEF Read, callVars, runVars
  <2> QED
    BY <2>1, <2>2
<1> QED
  BY <1>1, <1>2, <1>3, NewStep, RefStep, UnrefStep

LEMMA RunStepInv ==
  ASSUME OInv, RunStep
  PROVE  OInv'
<1>1. CASE BeginTest
  <2>1. CASE Strays(tests[at])
    BY <1>1, <2>1, EndStep DEF BeginTest
  <2>2. CASE ~Strays(tests[at])
    BY <1>1, <2>2, Still DEF BeginTest, callVars
  <2> QED
    BY <2>1, <2>2
<1>2. CASE Report
  <2>1. CASE taken = "freed"
    BY <1>2, <2>1, EndStep DEF Report
  <2>2. CASE taken # "freed"
    BY <1>2, <2>2, Still DEF Report, InCall, callVars
  <2> QED
    BY <2>1, <2>2
<1> QED
  BY <1>1, <1>2, EndBodyInv, EndRunInv DEF RunStep

LEMMA ObjectNextInv == OInv /\ [Next]_vars => OInv'
<1> SUFFICES ASSUME OInv, [Next]_vars
             PROVE  OInv'
  OBVIOUS
<1>1. ASSUME NEW c \in Cases, NEW o \in Shared, NewCase(c, o)
      PROVE  OInv'
  BY <1>1, NewCaseStep
<1>2. ASSUME NEW s \in Suites, NEW o \in Objects, Add(s, o)
      PROVE  OInv'
  BY <1>2, AddStep
<1>3. ASSUME NEW s \in Suites, Run(s)
      PROVE  OInv'
  BY <1>3, RunInv
<1>4. CASE CallStep
  <2>1. CASE Propagate \/ EndEmission
    BY <2>1, Still DEF Propagate, EndEmission, Propagated, runVars
  <2> QED
    BY <1>4, <2>1, DropInv DEF CallStep
<1>5. CASE UNCHANGED vars
  BY <1>5, Still DEF vars, callVars, runVars
<1> QED
  BY <1>1, <1>2, <1>3, <1>4, <1>5, ProgramInv, ValueInv, RunStepInv DEF Next, Stop

(* What every reference rests on: a child is in the one suite its parent    *)
(* pointer tells and shares its name with no sibling there, a floating      *)
(* reference is the program's own, and the run has its suite to its end.    *)
THEOREM ObjectInv == Spec => []OInv
<1>1. Init => OInv
  BY ObjectInitInv
<1>2. OInv /\ [Next]_vars => OInv'
  BY ObjectNextInv
<1> QED
  BY <1>1, <1>2, PTL DEF Spec

(* Whatever the program and the bodies do in whatever tree, the count of    *)
(* every object is that of the references owed, and it lives as long as     *)
(* there is one (object.c:40-112,167-215, test-suite.c:25-37,70-94,         *)
(* test-case.c:6-30).                                                       *)
THEOREM ReferencesExact == Spec => []RefsExact
<1>1. OInv => RefsExact
  BY DEF OInv
<1> QED
  BY <1>1, ObjectInv, PTL
=============================================================================
