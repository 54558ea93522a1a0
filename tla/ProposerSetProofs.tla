------------------------- MODULE ProposerSetProofs -------------------------
(***************************************************************************)
(* The arithmetic of proposer priorities, for every width of int64, every  *)
(* genesis set and every list of changes.  The powers come first: after a  *)
(* change they add up to the old total less what is removed and with what  *)
(* the updates add, which verifyUpdates has bounded.  The priorities       *)
(* follow: a change or the start of IncrementProposerPriority leaves them  *)
(* centred and within twice the total; each of the next two elections      *)
(* keeps their sum and leaves them within three times the total, so that   *)
(* nothing on the way is clipped or overflows.                             *)
(***************************************************************************)
EXTENDS ProposerSet, FiniteSetTheorems, WellFoundedInduction, TLAPS

(* Induction: a set of numbers with 0 and the successor of each of its members
   holds every number. *)
LEMMA Induction ==
    ASSUME NEW T \in SUBSET Nat, 0 \in T, \A n \in T : n + 1 \in T
    PROVE  T = Nat
<1> DEFINE R == OpToRel(<, Nat)
           B == Nat \ T
<1> SUFFICES ASSUME B # {} PROVE FALSE
  OBVIOUS
<1>1. IsWellFoundedOn(R, Nat)
  BY NatLessThanWellFounded
<1>2. B \subseteq Nat
  OBVIOUS
<1> HIDE DEF R, B
<1>3. PICK x \in B : \A y \in B : ~ (<<y, x>> \in R)
  BY <1>1, <1>2, WFMin
<1>4. \A y \in B : ~ (y < x)
  BY <1>2, <1>3 DEF R, OpToRel
<1>5. x \in Nat /\ x # 0 /\ x - 1 \in Nat /\ x - 1 < x
  BY <1>3 DEF B
<1>6. x - 1 \in T
  BY <1>4, <1>5 DEF B
<1> QED BY <1>3, <1>5, <1>6 DEF B

(* A set of n + 1 elements has one to take out, and n are left. *)
LEMMA TakeOut ==
    ASSUME NEW s, IsFiniteSet(s), NEW n \in Nat, Cardinality(s) = n + 1
    PROVE  s # {} /\ \A x \in s : Cardinality(s \ {x}) = n
<1>1. s # {}
  <2>1. ASSUME s = {} PROVE FALSE
    <3>1. Cardinality(s) = 0
      BY <2>1, FS_EmptySet
    <3> QED BY <3>1
  <2> QED BY <2>1
<1>2. ASSUME NEW x \in s PROVE Cardinality(s \ {x}) = n
  <2>1. Cardinality(s \ {x}) = Cardinality(s) - 1
    BY FS_RemoveElement
  <2> QED BY <2>1
<1> QED BY <1>1, <1>2

(* Induction over the subsets of a finite set. *)
LEMMA SetInduction ==
    ASSUME NEW S, IsFiniteSet(S), NEW W, {} \in W,
           \A R \in SUBSET S : \A x \in S \ R : R \in W => R \cup {x} \in W
    PROVE  S \in W
<1> DEFINE T == {n \in Nat : \A R \in SUBSET S : Cardinality(R) = n => R \in W}
<1>1. 0 \in T
  <2>1. \A R \in SUBSET S : Cardinality(R) = 0 => R = {}
    BY FS_Subset, FS_EmptySet
  <2> QED BY <2>1
<1>2. ASSUME NEW n \in T PROVE n + 1 \in T
  <2> SUFFICES ASSUME NEW R \in SUBSET S, Cardinality(R) = n + 1 PROVE R \in W
    OBVIOUS
  <2>1. IsFiniteSet(R) /\ n \in Nat
    BY FS_Subset
  <2> HIDE DEF T
  <2>2. R # {} /\ \A x \in R : Cardinality(R \ {x}) = n
    BY <2>1, TakeOut
  <2>3. PICK x \in R : TRUE
    BY <2>2
  <2>4. Cardinality(R \ {x}) = n
    BY <2>2
  <2>5. R \ {x} \in SUBSET S /\ x \in S \ (R \ {x}) /\ (R \ {x}) \cup {x} = R
    OBVIOUS
  <2>6. R \ {x} \in W
    BY <2>4, <2>5 DEF T
  <2> QED BY <2>5, <2>6
<1>3. T = Nat
  <2>1. T \in SUBSET Nat
    OBVIOUS
  <2> HIDE DEF T
  <2> QED BY <1>1, <1>2, <2>1, Induction
<1>4. Cardinality(S) \in Nat
  BY FS_CardinalityType
<1> QED BY <1>3, <1>4

-----------------------------------------------------------------------------
(* Sums. *)

(* The element that a sum takes out first. *)
First(s) == CHOOSE x \in s : TRUE

(* g[s] is the sum of f over s, for the sets s of D. *)
Sums(f, g, D) ==
    g = [s \in D |-> IF s = {} THEN 0 ELSE f[First(s)] + g[s \ {First(s)}]]

(* The elements may be taken out in any order. *)
AnyOrder(f, g, S) == \A s \in SUBSET S : \A x \in s : g[s] = f[x] + g[s \ {x}]

Agree(f, h, S) == \A x \in S : f[x] = h[x]

LEMMA FirstIn == \A s : s # {} => First(s) \in s
BY DEF First

(* The recursive definition of a sum has a solution. *)
LEMMA SumsExist ==
    ASSUME NEW f, NEW S, IsFiniteSet(S)
    PROVE  \E g : Sums(f, g, SUBSET S)
<1> DEFINE Level(n) == {s \in SUBSET S : Cardinality(s) <= n}
           T == {n \in Nat : \E g : Sums(f, g, Level(n))}
<1>0. \A s \in SUBSET S : IsFiniteSet(s) /\ Cardinality(s) \in Nat
  BY FS_Subset, FS_CardinalityType
<1>1. 0 \in T
  <2>1. \A s \in Level(0) : s = {}
    BY <1>0, FS_EmptySet
  <2>2. Sums(f, [s \in Level(0) |-> 0], Level(0))
    BY <2>1 DEF Sums
  <2> QED BY <2>2
<1>2. ASSUME NEW n \in T PROVE n + 1 \in T
  <2>1. PICK g : Sums(f, g, Level(n))
    OBVIOUS
  <2> DEFINE h == [s \in Level(n + 1) |-> IF s = {} THEN 0 ELSE f[First(s)] + g[s \ {First(s)}]]
  <2>2. ASSUME NEW s \in Level(n + 1), s # {}
        PROVE  s \ {First(s)} \in Level(n) /\ s \ {First(s)} \in Level(n + 1)
    <3>1. First(s) \in s
      BY <2>2, FirstIn
    <3>2. Cardinality(s \ {First(s)}) = Cardinality(s) - 1
      BY <1>0, <3>1, FS_RemoveElement
    <3> QED BY <1>0, <3>2
  <2>3. ASSUME NEW s \in Level(n), s \in Level(n + 1) PROVE h[s] = g[s]
    BY <2>1, <2>3 DEF Sums
  <2>4. ASSUME NEW s \in Level(n + 1), s # {}
        PROVE  h[s \ {First(s)}] = g[s \ {First(s)}]
    BY <2>2, <2>3, <2>4
  <2>5. Sums(f, h, Level(n + 1))
    BY <2>4 DEF Sums
  <2>6. n + 1 \in Nat
    OBVIOUS
  <2> QED BY <2>5, <2>6
<1>3. T = Nat
  <2>1. T \in SUBSET Nat
    OBVIOUS
  <2> HIDE DEF T
  <2> QED BY <1>1, <1>2, <2>1, Induction
<1>4. Cardinality(S) \in T
  BY <1>0, <1>3, FS_CardinalityType
<1>5. Level(Cardinality(S)) = SUBSET S
  BY FS_Subset
<1> QED BY <1>4, <1>5

(* It has one value on each finite set, however large the sets it is defined
   on. *)
LEMMA SumsUnique ==
    ASSUME NEW f, NEW g, NEW h, NEW k, NEW S, NEW R, NEW U, IsFiniteSet(U),
           Sums(f, g, SUBSET S), Sums(h, k, SUBSET R), U \in SUBSET S, U \in SUBSET R,
           Agree(f, h, U)
    PROVE  g[U] = k[U]
<1> DEFINE T == {n \in Nat : \A s \in SUBSET U : Cardinality(s) = n => g[s] = k[s]}
<1>0. \A s \in SUBSET U : IsFiniteSet(s) /\ Cardinality(s) \in Nat
  BY FS_Subset, FS_CardinalityType
<1>1. 0 \in T
  <2>1. \A s \in SUBSET U : Cardinality(s) = 0 => s = {}
    BY <1>0, FS_EmptySet
  <2>2. g[{}] = 0 /\ k[{}] = 0
    BY DEF Sums
  <2> QED BY <2>1, <2>2
<1>2. ASSUME NEW n \in T PROVE n + 1 \in T
  <2> SUFFICES ASSUME NEW s \in SUBSET U, Cardinality(s) = n + 1 PROVE g[s] = k[s]
    OBVIOUS
  <2>1. s # {} /\ \A x \in s : Cardinality(s \ {x}) = n
    BY <1>0, TakeOut
  <2>2. First(s) \in s
    BY <2>1, FirstIn
  <2>3. Cardinality(s \ {First(s)}) = n
    BY <2>1, <2>2
  <2>4. g[s \ {First(s)}] = k[s \ {First(s)}]
    BY <2>3
  <2>5. g[s] = f[First(s)] + g[s \ {First(s)}]
    BY <2>1 DEF Sums
  <2>6. k[s] = h[First(s)] + k[s \ {First(s)}]
    BY <2>1 DEF Sums
  <2> QED BY <2>2, <2>4, <2>5, <2>6 DEF Agree
<1>3. T = Nat
  <2>1. T \in SUBSET Nat
    OBVIOUS
  <2> HIDE DEF T
  <2> QED BY <1>1, <1>2, <2>1, Induction
<1> QED BY <1>0, <1>3

(* SumOf is such a value. *)
LEMMA SumOfIs ==
    ASSUME NEW f, IsFiniteSet(DOMAIN f)
    PROVE  \E g : Sums(f, g, SUBSET DOMAIN f) /\ SumOf(f) = g[DOMAIN f]
<1> DEFINE g == CHOOSE g : Sums(f, g, SUBSET DOMAIN f)
<1>1. Sums(f, g, SUBSET DOMAIN f)
  BY SumsExist
<1>2. SumOf(f) = g[DOMAIN f]
  BY DEF SumOf, MapThenSumSet, MapThenFoldSet, Sums, First
<1> QED BY <1>1, <1>2

(* Sums of integers are integers. *)
LEMMA SumsInt ==
    ASSUME NEW S, IsFiniteSet(S), NEW f \in [S -> Int], NEW g, Sums(f, g, SUBSET S)
    PROVE  \A s \in SUBSET S : g[s] \in Int
<1> DEFINE T == {n \in Nat : \A s \in SUBSET S : Cardinality(s) = n => g[s] \in Int}
<1>0. \A s \in SUBSET S : IsFiniteSet(s) /\ Cardinality(s) \in Nat
  BY FS_Subset, FS_CardinalityType
<1>1. 0 \in T
  <2>1. \A s \in SUBSET S : Cardinality(s) = 0 => s = {}
    BY <1>0, FS_EmptySet
  <2>2. g[{}] \in Int
    BY DEF Sums
  <2>3. \A s \in SUBSET S : Cardinality(s) = 0 => g[s] \in Int
    BY <2>1, <2>2, Zenon
  <2> QED BY <2>3
<1>2. ASSUME NEW n \in T PROVE n + 1 \in T
  <2> SUFFICES ASSUME NEW s \in SUBSET S, Cardinality(s) = n + 1 PROVE g[s] \in Int
    OBVIOUS
  <2> DEFINE c == First(s)
  <2>1. n \in Nat /\ \A r \in SUBSET S : Cardinality(r) = n => g[r] \in Int
    OBVIOUS
  <2> HIDE DEF T
  <2>2. s # {} /\ \A x \in s : Cardinality(s \ {x}) = n
    BY <1>0, <2>1, TakeOut
  <2>3. c \in s /\ c \in S
    BY <2>2, FirstIn
  <2>4. g[s] = f[c] + g[s \ {c}]
    BY <2>2 DEF Sums
  <2> HIDE DEF c
  <2>5. Cardinality(s \ {c}) = n
    BY <2>2, <2>3
  <2> QED BY <2>1, <2>3, <2>4, <2>5
<1>3. T = Nat
  <2>1. T \in SUBSET Nat
    OBVIOUS
  <2> HIDE DEF T
  <2> QED BY <1>1, <1>2, <2>1, Induction
<1> QED BY <1>0, <1>3

(* The elements can be taken out in any order. *)
LEMMA SumsSwap ==
    ASSUME NEW S, IsFiniteSet(S), NEW f \in [S -> Int], NEW g, Sums(f, g, SUBSET S)
    PROVE  AnyOrder(f, g, S)
<1> DEFINE Good(s) == \A x \in s : g[s] = f[x] + g[s \ {x}]
           T == {n \in Nat : \A s \in SUBSET S : Cardinality(s) = n => Good(s)}
<1>0. \A s \in SUBSET S : IsFiniteSet(s) /\ Cardinality(s) \in Nat
  BY FS_Subset, FS_CardinalityType
<1>1. 0 \in T
  <2>1. \A s \in SUBSET S : Cardinality(s) = 0 => s = {}
    BY <1>0, FS_EmptySet
  <2>2. g[{}] = 0
    BY DEF Sums
  <2> QED BY <2>1, <2>2
<1>2. ASSUME NEW n \in T PROVE n + 1 \in T
  <2> SUFFICES ASSUME NEW s \in SUBSET S, Cardinality(s) = n + 1 PROVE Good(s)
    OBVIOUS
  <2> DEFINE c == First(s)
  <2>1. n \in Nat /\ \A r \in SUBSET S : Cardinality(r) = n => Good(r)
    OBVIOUS
  <2> HIDE DEF T, Good
  <2>2. s # {} /\ \A x \in s : Cardinality(s \ {x}) = n
    BY <1>0, <2>1, TakeOut
  <2>3. c \in s /\ c \in S
    BY <2>2, FirstIn
  <2>4. g[s] = f[c] + g[s \ {c}]
    BY <2>2 DEF Sums
  <2> HIDE DEF c
  <2>6. \A x \in s : Good(s \ {x})
    BY <2>1, <2>2
  <2>8. ASSUME NEW x \in s PROVE g[s] = f[x] + g[s \ {x}]
    <3>1. CASE x = c
      BY <2>4, <3>1
    <3>2. CASE x # c
      <4>1. g[s \ {c}] = f[x] + g[(s \ {c}) \ {x}]
        BY <2>3, <2>6, <3>2 DEF Good
      <4>2. g[s \ {x}] = f[c] + g[(s \ {x}) \ {c}]
        BY <2>3, <2>6, <3>2 DEF Good
      <4>3. (s \ {c}) \ {x} = (s \ {x}) \ {c}
        OBVIOUS
      <4>4. /\ f[x] \in Int /\ f[c] \in Int
            /\ g[(s \ {x}) \ {c}] \in Int
        BY <2>3, SumsInt
      <4>5. g[s] = f[c] + (f[x] + g[(s \ {x}) \ {c}])
        BY <2>4, <4>1, <4>3
      <4>6. f[x] + g[s \ {x}] = f[x] + (f[c] + g[(s \ {x}) \ {c}])
        BY <4>2
      <4> HIDE DEF Sums
      <4>7. f[c] + (f[x] + g[(s \ {x}) \ {c}]) = f[x] + (f[c] + g[(s \ {x}) \ {c}])
        BY <4>4
      <4> QED BY <4>5, <4>6, <4>7
    <3> QED BY <3>1, <3>2
  <2> QED BY <2>8 DEF Good
<1>3. T = Nat
  <2>1. T \in SUBSET Nat
    OBVIOUS
  <2> HIDE DEF T
  <2> QED BY <1>1, <1>2, <2>1, Induction
<1> QED BY <1>0, <1>3 DEF AnyOrder

-----------------------------------------------------------------------------
(* SumOf, for functions with integer values on a finite set. *)

Part(f, R) == [x \in R |-> f[x]]

(* Nothing adds up to 0. *)
LEMMA SumEmpty == ASSUME NEW f, DOMAIN f = {} PROVE SumOf(f) = 0
<1>1. IsFiniteSet(DOMAIN f)
  BY FS_EmptySet
<1>2. PICK g : Sums(f, g, SUBSET DOMAIN f) /\ SumOf(f) = g[DOMAIN f]
  BY <1>1, SumOfIs
<1>3. g[{}] = 0
  BY <1>2 DEF Sums
<1> QED BY <1>2, <1>3

(* One element is taken out. *)
LEMMA SumSplit ==
    ASSUME NEW S, IsFiniteSet(S), NEW f \in [S -> Int], NEW x \in S
    PROVE  /\ SumOf(f) \in Int /\ SumOf(Part(f, S \ {x})) \in Int
           /\ SumOf(f) = f[x] + SumOf(Part(f, S \ {x}))
<1> DEFINE h == Part(f, S \ {x})
<1>1. DOMAIN f = S /\ DOMAIN h = S \ {x} /\ IsFiniteSet(S \ {x})
  BY FS_RemoveElement DEF Part
<1>2. PICK g : Sums(f, g, SUBSET S) /\ SumOf(f) = g[S]
  BY <1>1, SumOfIs
<1>3. PICK k : Sums(h, k, SUBSET (S \ {x})) /\ SumOf(h) = k[S \ {x}]
  <2> HIDE DEF h
  <2> QED BY <1>1, SumOfIs
<1>4. g[S \ {x}] = k[S \ {x}]
  <2>1. Agree(f, h, S \ {x})
    BY DEF Part, Agree
  <2>2. S \ {x} \in SUBSET S /\ S \ {x} \in SUBSET (S \ {x})
    OBVIOUS
  <2> HIDE DEF h
  <2>3. PICK V : V = S \ {x}
    OBVIOUS
  <2>4. /\ IsFiniteSet(V) /\ V \in SUBSET S /\ V \in SUBSET V
        /\ Sums(f, g, SUBSET S) /\ Sums(h, k, SUBSET V) /\ Agree(f, h, V)
    BY <1>1, <1>2, <1>3, <2>1, <2>2, <2>3
  <2>5. g[V] = k[V]
    BY <2>4, SumsUnique
  <2> QED BY <2>3, <2>5
<1>5. g[S] = f[x] + g[S \ {x}] /\ g[S] \in Int /\ g[S \ {x}] \in Int
  <2>1. S \in SUBSET S /\ S \ {x} \in SUBSET S /\ x \in S
    OBVIOUS
  <2>2. \A s \in SUBSET S : g[s] \in Int
    BY <1>2, SumsInt
  <2>3. AnyOrder(f, g, S)
    BY <1>2, SumsSwap
  <2> QED BY <2>1, <2>2, <2>3 DEF AnyOrder
<1> QED BY <1>2, <1>3, <1>4, <1>5

LEMMA SumInt ==
    ASSUME NEW S, IsFiniteSet(S), NEW f \in [S -> Int]
    PROVE  SumOf(f) \in Int
<1>1. CASE S = {}
  BY <1>1, SumEmpty
<1>2. CASE S # {}
  BY <1>2, SumSplit
<1> QED BY <1>1, <1>2

(* A sum grows by what is added. *)
Grows(f, S) ==
    \A R \in SUBSET S :
        /\ SumOf(Part(f, R)) \in Int
        /\ \A x \in S \ R : SumOf(Part(f, R \cup {x})) = f[x] + SumOf(Part(f, R))

LEMMA SumGrow ==
    ASSUME NEW S, IsFiniteSet(S), NEW f \in [S -> Int]
    PROVE  Grows(f, S)
<1> SUFFICES ASSUME NEW R \in SUBSET S
             PROVE  /\ SumOf(Part(f, R)) \in Int
                    /\ \A x \in S \ R : SumOf(Part(f, R \cup {x})) = f[x] + SumOf(Part(f, R))
  BY DEF Grows
<1>1. SumOf(Part(f, R)) \in Int
  <2>1. IsFiniteSet(R) /\ Part(f, R) \in [R -> Int]
    BY FS_Subset DEF Part
  <2> QED BY <2>1, SumInt
<1>2. ASSUME NEW x \in S \ R PROVE SumOf(Part(f, R \cup {x})) = f[x] + SumOf(Part(f, R))
  <2> DEFINE U == R \cup {x}
             h == Part(f, U)
  <2>1. IsFiniteSet(U)
    BY FS_Subset
  <2>2. h \in [U -> Int] /\ h[x] = f[x] /\ x \in U
    BY DEF Part
  <2>3. Part(h, U \ {x}) = Part(f, R)
    <3>1. U \ {x} = R
      OBVIOUS
    <3> QED BY <3>1 DEF Part
  <2> HIDE DEF h, U
  <2>4. SumOf(h) = h[x] + SumOf(Part(h, U \ {x}))
    BY <2>1, <2>2, SumSplit
  <2> QED BY <2>2, <2>3, <2>4 DEF h, U
<1> QED BY <1>1, <1>2

LEMMA PartEmpty == \A f : SumOf(Part(f, {})) = 0
BY SumEmpty DEF Part

LEMMA PartAll == ASSUME NEW S, NEW f, f \in [S -> Int] PROVE Part(f, S) = f
BY DEF Part

(* h is the sum of f and g. *)
AddsUp(h, f, g, S) ==
    /\ IsFiniteSet(S) /\ f \in [S -> Int] /\ g \in [S -> Int]
    /\ h = [x \in S |-> f[x] + g[x]]

(* Sums add up. *)
LEMMA SumAdd ==
    ASSUME NEW S, NEW f, NEW g, NEW h, AddsUp(h, f, g, S)
    PROVE  SumOf(h) = SumOf(f) + SumOf(g)
<1>a. IsFiniteSet(S) /\ f \in [S -> Int] /\ g \in [S -> Int]
  BY DEF AddsUp
<1> DEFINE W == {R \in SUBSET S : SumOf(Part(h, R)) = SumOf(Part(f, R)) + SumOf(Part(g, R))}
<1>0. h \in [S -> Int] /\ Grows(f, S) /\ Grows(g, S)
  BY <1>a, SumGrow DEF AddsUp
<1>1. {} \in W
  BY PartEmpty
<1>2. ASSUME NEW R \in SUBSET S, NEW x \in S \ R, R \in W PROVE R \cup {x} \in W
  <2>1. Grows(h, S)
    BY <1>a, <1>0, SumGrow
  <2>2. h[x] = f[x] + g[x] /\ f[x] \in Int /\ g[x] \in Int
    BY <1>a DEF AddsUp
  <2>3. SumOf(Part(h, R \cup {x})) = SumOf(Part(f, R \cup {x})) + SumOf(Part(g, R \cup {x}))
    <3>1. /\ SumOf(Part(h, R \cup {x})) = h[x] + SumOf(Part(h, R))
          /\ SumOf(Part(f, R \cup {x})) = f[x] + SumOf(Part(f, R))
          /\ SumOf(Part(g, R \cup {x})) = g[x] + SumOf(Part(g, R))
          /\ SumOf(Part(f, R)) \in Int /\ SumOf(Part(g, R)) \in Int
      BY <1>0, <2>1 DEF Grows
    <3>2. SumOf(Part(h, R)) = SumOf(Part(f, R)) + SumOf(Part(g, R))
      BY <1>2
    <3> QED BY <2>2, <3>1, <3>2
  <2> QED BY <2>3
<1>3. S \in W
  <2> HIDE DEF W
  <2> QED BY <1>a, <1>1, <1>2, SetInduction
<1> QED BY <1>a, <1>0, <1>3, PartAll

(* A constant adds up to its product with the number of elements. *)
LEMMA SumConst ==
    ASSUME NEW S, IsFiniteSet(S), NEW c \in Int, NEW f, f = [x \in S |-> c]
    PROVE  SumOf(f) = c * Cardinality(S)
<1> DEFINE W == {R \in SUBSET S : SumOf(Part(f, R)) = c * Cardinality(R)}
<1>0. f \in [S -> Int]
  OBVIOUS
<1>1. {} \in W
  BY PartEmpty, FS_EmptySet
<1>2. ASSUME NEW R \in SUBSET S, NEW x \in S \ R, R \in W PROVE R \cup {x} \in W
  <2>1. Grows(f, S)
    BY <1>0, SumGrow
  <2>2. SumOf(Part(f, R \cup {x})) = c + SumOf(Part(f, R))
    BY <2>1 DEF Grows
  <2>3. IsFiniteSet(R)
    BY FS_Subset
  <2>4. Cardinality(R) \in Nat /\ Cardinality(R \cup {x}) = Cardinality(R) + 1
    BY <2>3, FS_CardinalityType, FS_AddElement
  <2>5. SumOf(Part(f, R)) = c * Cardinality(R)
    BY <1>2
  <2>6. c * (Cardinality(R) + 1) = c + c * Cardinality(R)
    BY <2>4
  <2> QED BY <2>2, <2>4, <2>5, <2>6
<1>3. S \in W
  <2> HIDE DEF W
  <2> QED BY <1>1, <1>2, SetInduction
<1> QED BY <1>0, <1>3, PartAll

(* Moving everybody by c moves the sum by so many times c. *)
LEMMA SumShift ==
    ASSUME NEW S, IsFiniteSet(S), NEW f \in [S -> Int], NEW c \in Int,
           NEW h, h = [x \in S |-> f[x] + c]
    PROVE  SumOf(h) = SumOf(f) + c * Cardinality(S)
<1> DEFINE W == {R \in SUBSET S : SumOf(Part(h, R)) = SumOf(Part(f, R)) + c * Cardinality(R)}
<1>0. h \in [S -> Int] /\ \A x \in S : h[x] = f[x] + c
  OBVIOUS
<1>1. {} \in W
  BY PartEmpty, FS_EmptySet
<1>2. ASSUME NEW R \in SUBSET S, NEW x \in S \ R, R \in W PROVE R \cup {x} \in W
  <2>0. IsFiniteSet(R)
    BY FS_Subset
  <2>1. Cardinality(R) \in Nat /\ Cardinality(R \cup {x}) = Cardinality(R) + 1
    BY <2>0, FS_CardinalityType, FS_AddElement
  <2>2. Grows(f, S)
    BY SumGrow
  <2>3. Grows(h, S)
    BY <1>0, SumGrow
  <2>4. c * (Cardinality(R) + 1) = c + c * Cardinality(R) /\ c * Cardinality(R) \in Int
    <3>1. \A k \in Nat : c * (k + 1) = c + c * k /\ c * k \in Int
      OBVIOUS
    <3> QED BY <2>1, <3>1
  <2>5. SumOf(Part(h, R)) = SumOf(Part(f, R)) + c * Cardinality(R)
    BY <1>2
  <2>6. /\ SumOf(Part(h, R \cup {x})) = h[x] + SumOf(Part(h, R))
        /\ SumOf(Part(f, R \cup {x})) = f[x] + SumOf(Part(f, R))
        /\ SumOf(Part(f, R)) \in Int /\ h[x] = f[x] + c /\ f[x] \in Int
    BY <1>0, <2>2, <2>3 DEF Grows
  <2>7. SumOf(Part(h, R \cup {x})) = SumOf(Part(f, R \cup {x})) + c * Cardinality(R \cup {x})
    BY <2>1, <2>4, <2>5, <2>6
  <2> QED BY <2>7
<1>3. S \in W
  <2> HIDE DEF W
  <2> QED BY <1>1, <1>2, SetInduction
<1> QED BY <1>0, <1>3, PartAll

(* What is nowhere less has a sum no less. *)
LEMMA SumMono ==
    ASSUME NEW S, IsFiniteSet(S), NEW f \in [S -> Int], NEW g \in [S -> Int],
           \A x \in S : f[x] <= g[x]
    PROVE  SumOf(f) <= SumOf(g)
<1> DEFINE W == {R \in SUBSET S : SumOf(Part(f, R)) <= SumOf(Part(g, R))}
<1>0. Grows(f, S) /\ Grows(g, S)
  BY SumGrow
<1>1. {} \in W
  BY PartEmpty
<1>2. ASSUME NEW R \in SUBSET S, NEW x \in S \ R, R \in W PROVE R \cup {x} \in W
  <2>1. f[x] <= g[x] /\ f[x] \in Int /\ g[x] \in Int
    OBVIOUS
  <2>2. SumOf(Part(f, R \cup {x})) <= SumOf(Part(g, R \cup {x}))
    BY <1>0, <1>2, <2>1 DEF Grows
  <2> QED BY <2>2
<1>3. S \in W
  <2> HIDE DEF W
  <2> QED BY <1>1, <1>2, SetInduction
<1> QED BY <1>3, PartAll

(* One value is changed. *)
Changed(h, f, x, v, S) ==
    /\ IsFiniteSet(S) /\ f \in [S -> Int] /\ x \in S /\ v \in Int
    /\ h = [f EXCEPT ![x] = v]

LEMMA SumExcept ==
    ASSUME NEW S, NEW f, NEW x, NEW v, NEW h, Changed(h, f, x, v, S)
    PROVE  SumOf(h) = SumOf(f) - f[x] + v
<1>0. IsFiniteSet(S) /\ f \in [S -> Int] /\ x \in S /\ v \in Int
  BY DEF Changed
<1>1. h \in [S -> Int] /\ h[x] = v /\ Part(h, S \ {x}) = Part(f, S \ {x})
  BY DEF Changed, Part
<1>2. SumOf(h) = v + SumOf(Part(f, S \ {x}))
  BY <1>0, <1>1, SumSplit
<1>3. SumOf(f) = f[x] + SumOf(Part(f, S \ {x})) /\ SumOf(Part(f, S \ {x})) \in Int
  BY <1>0, SumSplit
<1> QED BY <1>0, <1>2, <1>3

(* A sum along a one-to-one map is the sum over its image. *)
LEMMA SumMap ==
    ASSUME NEW C, IsFiniteSet(C), NEW S, IsFiniteSet(S), NEW f \in [S -> Int],
           NEW m \in [C -> S], \A c, d \in C : m[c] = m[d] => c = d,
           NEW h, h = [c \in C |-> f[m[c]]]
    PROVE  SumOf(h) = SumOf(Part(f, {m[c] : c \in C}))
<1> DEFINE Im(R) == {m[c] : c \in R}
           W == {R \in SUBSET C : SumOf(Part(h, R)) = SumOf(Part(f, Im(R)))}
<1>0. h \in [C -> Int]
  OBVIOUS
<1>1. {} \in W
  <2>1. Im({}) = {}
    OBVIOUS
  <2> QED BY <2>1, PartEmpty
<1>2. ASSUME NEW R \in SUBSET C, NEW x \in C \ R, R \in W PROVE R \cup {x} \in W
  <2>0. Grows(h, C) /\ Grows(f, S)
    BY <1>0, SumGrow
  <2>1. SumOf(Part(h, R \cup {x})) = f[m[x]] + SumOf(Part(h, R))
    BY <2>0 DEF Grows
  <2>2. Im(R \cup {x}) = Im(R) \cup {m[x]} /\ Im(R) \in SUBSET S /\ m[x] \in S /\ m[x] \notin Im(R)
    OBVIOUS
  <2>3. SumOf(Part(h, R)) = SumOf(Part(f, Im(R)))
    BY <1>2
  <2> HIDE DEF Im
  <2>4. SumOf(Part(f, Im(R) \cup {m[x]})) = f[m[x]] + SumOf(Part(f, Im(R)))
    BY <2>0, <2>2 DEF Grows
  <2>5. SumOf(Part(h, R \cup {x})) = SumOf(Part(f, Im(R \cup {x})))
    BY <2>1, <2>2, <2>3, <2>4
  <2> QED BY <2>5
<1>3. C \in W
  <2> HIDE DEF W
  <2> QED BY <1>1, <1>2, SetInduction
<1> QED BY <1>0, <1>3, PartAll

(* A set and the rest of it. *)
LEMMA SumParts ==
    ASSUME NEW S, IsFiniteSet(S), NEW f \in [S -> Int], NEW R \in SUBSET S
    PROVE  /\ SumOf(Part(f, R)) \in Int /\ SumOf(Part(f, S \ R)) \in Int
           /\ SumOf(f) = SumOf(Part(f, R)) + SumOf(Part(f, S \ R))
<1> DEFINE W == {Q \in SUBSET R : SumOf(f) = SumOf(Part(f, Q)) + SumOf(Part(f, S \ Q))}
<1>0. Grows(f, S) /\ SumOf(f) \in Int /\ Part(f, S) = f
  BY SumGrow, SumInt, PartAll
<1>1. {} \in W
  <2>1. S \ {} = S
    OBVIOUS
  <2>2. SumOf(f) = SumOf(Part(f, {})) + SumOf(Part(f, S))
    BY <1>0, PartEmpty
  <2> QED BY <2>1, <2>2
<1>2. ASSUME NEW Q \in SUBSET R, NEW x \in R \ Q, Q \in W PROVE Q \cup {x} \in W
  <2>0. PICK Z : Z = S \ (Q \cup {x})
    OBVIOUS
  <2>1. /\ Z \in SUBSET S /\ x \in S \ Z /\ Z \cup {x} = S \ Q
        /\ Q \in SUBSET S /\ x \in S \ Q
    BY <2>0
  <2>2. /\ SumOf(Part(f, Z \cup {x})) = f[x] + SumOf(Part(f, Z))
        /\ SumOf(Part(f, Z)) \in Int
    BY <1>0, <2>1 DEF Grows
  <2>3. /\ SumOf(Part(f, Q \cup {x})) = f[x] + SumOf(Part(f, Q))
        /\ SumOf(Part(f, Q)) \in Int
    BY <1>0, <2>1 DEF Grows
  <2>4. SumOf(f) = SumOf(Part(f, Q)) + SumOf(Part(f, Z \cup {x})) /\ f[x] \in Int
    BY <1>2, <2>1
  <2>5. SumOf(f) = SumOf(Part(f, Q \cup {x})) + SumOf(Part(f, Z))
    BY <2>2, <2>3, <2>4
  <2> QED BY <2>0, <2>5
<1>3. R \in W
  <2>1. IsFiniteSet(R)
    BY FS_Subset
  <2> HIDE DEF W
  <2> QED BY <1>1, <1>2, <2>1, SetInduction
<1>4. SumOf(Part(f, R)) \in Int /\ SumOf(Part(f, S \ R)) \in Int
  BY <1>0 DEF Grows
<1> QED BY <1>3, <1>4

(* Zeros add nothing. *)
LEMMA SumZeros ==
    ASSUME NEW S, IsFiniteSet(S), NEW f \in [S -> Int], NEW R \in SUBSET S,
           \A x \in S \ R : f[x] = 0
    PROVE  SumOf(f) = SumOf(Part(f, R))
<1>1. PICK Z : Z = S \ R
  OBVIOUS
<1>2. IsFiniteSet(Z) /\ Part(f, Z) = [x \in Z |-> 0]
  <2>1. IsFiniteSet(Z)
    BY <1>1, FS_Subset
  <2> QED BY <1>1, <2>1 DEF Part
<1>3. SumOf(Part(f, Z)) = 0 * Cardinality(Z) /\ Cardinality(Z) \in Nat
  BY <1>2, SumConst, FS_CardinalityType
<1>4. SumOf(Part(f, Z)) = 0
  BY <1>3
<1>5. SumOf(Part(f, R)) \in Int /\ SumOf(f) = SumOf(Part(f, R)) + SumOf(Part(f, Z))
  BY <1>1, SumParts
<1> QED BY <1>4, <1>5

(* A sum is between so many times the least and the greatest value. *)
LEMMA SumBetween ==
    ASSUME NEW S, IsFiniteSet(S), NEW f \in [S -> Int], NEW lo \in Int, NEW hi \in Int,
           \A x \in S : lo <= f[x] /\ f[x] <= hi
    PROVE  /\ lo * Cardinality(S) <= SumOf(f)
           /\ SumOf(f) <= hi * Cardinality(S)
<1>1. PICK l, h : l = [x \in S |-> lo] /\ h = [x \in S |-> hi]
  OBVIOUS
<1>2. l \in [S -> Int] /\ h \in [S -> Int]
  BY <1>1
<1>3. SumOf(l) = lo * Cardinality(S) /\ SumOf(h) = hi * Cardinality(S)
  BY <1>1, SumConst
<1>4. SumOf(l) <= SumOf(f)
  BY <1>1, <1>2, SumMono
<1>5. SumOf(f) <= SumOf(h)
  BY <1>1, <1>2, SumMono
<1> QED BY <1>3, <1>4, <1>5

-----------------------------------------------------------------------------
(* The order of priorities. *)

(* Somebody is first and somebody last. *)
LEMMA Ranked ==
    ASSUME NEW S, IsFiniteSet(S), S \in SUBSET Int, S # {}, NEW f \in [S -> Int]
    PROVE  /\ \E a \in S : \A b \in S : precedes(f, a, b)
           /\ \E a \in S : \A b \in S : precedes(f, b, a)
<1> DEFINE Ends(R) == /\ \E a \in R : \A b \in R : precedes(f, a, b)
                      /\ \E a \in R : \A b \in R : precedes(f, b, a)
           W == {R \in SUBSET S : R = {} \/ Ends(R)}
<1>1. {} \in W
  OBVIOUS
<1>2. ASSUME NEW R \in SUBSET S, NEW x \in S \ R, R \in W PROVE R \cup {x} \in W
  <2>0. /\ \A c, b \in S : precedes(f, c, b) \/ precedes(f, b, c)
        /\ \A c \in S : precedes(f, c, c)
    BY DEF precedes
  <2>1. \A c, b, d \in S : precedes(f, c, b) /\ precedes(f, b, d) => precedes(f, c, d)
    BY DEF precedes
  <2>2. CASE R = {}
    <3>1. R \cup {x} = {x} /\ precedes(f, x, x)
      BY <2>0, <2>2
    <3>2. Ends({x})
      BY <3>1
    <3> QED BY <3>1, <3>2
  <2>3. CASE Ends(R)
    <3>1. PICK a \in R : \A b \in R : precedes(f, a, b)
      BY <2>3
    <3>2. PICK z \in R : \A b \in R : precedes(f, b, z)
      BY <2>3
    <3>3. a \in S /\ z \in S /\ x \in S /\ precedes(f, x, x) /\ \A b \in R : b \in S
      BY <2>0
    <3>4. \E c \in R \cup {x} : \A b \in R \cup {x} : precedes(f, c, b)
      <4>1. CASE precedes(f, a, x)
        BY <3>1, <4>1
      <4>2. CASE precedes(f, x, a)
        <5>1. \A b \in R : precedes(f, x, b)
          BY <2>1, <3>1, <3>3, <4>2
        <5> QED BY <3>3, <5>1
      <4>3. precedes(f, a, x) \/ precedes(f, x, a)
        BY <2>0, <3>3
      <4> QED BY <4>1, <4>2, <4>3
    <3>5. \E c \in R \cup {x} : \A b \in R \cup {x} : precedes(f, b, c)
      <4>1. CASE precedes(f, x, z)
        BY <3>2, <4>1
      <4>2. CASE precedes(f, z, x)
        <5>1. \A b \in R : precedes(f, b, x)
          BY <2>1, <3>2, <3>3, <4>2
        <5> QED BY <3>3, <5>1
      <4>3. precedes(f, x, z) \/ precedes(f, z, x)
        BY <2>0, <3>3
      <4> QED BY <4>1, <4>2, <4>3
    <3> QED BY <3>4, <3>5
  <2> QED BY <1>2, <2>2, <2>3
<1>3. S \in W
  <2> HIDE DEF W
  <2> QED BY <1>1, <1>2, SetInduction
<1> QED BY <1>3

(* What getValWithMostPriority and findPreviousProposer return. *)
LEMMA MostPriority ==
    ASSUME NEW S, IsFiniteSet(S), S \in SUBSET Int, S # {}, NEW f \in [S -> Int]
    PROVE  /\ getValWithMostPriority(f) \in S
           /\ \A b \in S : f[b] <= f[getValWithMostPriority(f)]
           /\ findPreviousProposer(f) \in S
           /\ \A b \in S : f[findPreviousProposer(f)] <= f[b]
<1>1. DOMAIN f = S
  OBVIOUS
<1>2. /\ getValWithMostPriority(f) \in S
      /\ \A b \in S : precedes(f, getValWithMostPriority(f), b)
  BY <1>1, Ranked DEF getValWithMostPriority
<1>3. /\ findPreviousProposer(f) \in S
      /\ \A b \in S : precedes(f, b, findPreviousProposer(f))
  BY <1>1, Ranked DEF findPreviousProposer
<1>4. \A c, b \in S : precedes(f, c, b) => f[b] <= f[c]
  BY DEF precedes
<1> QED BY <1>2, <1>3, <1>4

(* Nobody is more than d away from anybody. *)
Spread(f, d) == \A a, b \in DOMAIN f : f[a] - f[b] <= d

(* Max and Min of the priorities are those of the first and the last. *)
LEMMA Extremes ==
    ASSUME NEW S, IsFiniteSet(S), S \in SUBSET Int, S # {}, NEW f \in [S -> Int]
    PROVE  \E a, b \in S : /\ Max(RangeOf(f)) = f[a] /\ \A x \in S : f[x] <= f[a]
                           /\ Min(RangeOf(f)) = f[b] /\ \A x \in S : f[b] <= f[x]
<1> DEFINE a == getValWithMostPriority(f)
           b == findPreviousProposer(f)
<1>1. /\ a \in S /\ \A x \in S : f[x] <= f[a]
      /\ b \in S /\ \A x \in S : f[b] <= f[x]
  BY MostPriority
<1> HIDE DEF a, b
<1>2. Max(RangeOf(f)) = f[a]
  <2>1. f[a] \in RangeOf(f) /\ \A y \in RangeOf(f) : f[a] >= y
    BY <1>1 DEF RangeOf
  <2>2. \A y \in RangeOf(f) : y \in Int
    BY DEF RangeOf
  <2> QED BY <2>1, <2>2 DEF Max
<1>3. Min(RangeOf(f)) = f[b]
  <2>1. f[b] \in RangeOf(f) /\ \A y \in RangeOf(f) : f[b] <= y
    BY <1>1 DEF RangeOf
  <2>2. \A y \in RangeOf(f) : y \in Int
    BY DEF RangeOf
  <2> QED BY <2>1, <2>2 DEF Min
<1> QED BY <1>1, <1>2, <1>3

LEMMA DistanceSpread ==
    ASSUME NEW S, IsFiniteSet(S), S \in SUBSET Int, S # {}, NEW f \in [S -> Int]
    PROVE  /\ Distance(f) \in Nat /\ Spread(f, Distance(f))
           /\ \A d \in Int : Spread(f, d) => Distance(f) <= d
<1>1. PICK a, b \in S : /\ Max(RangeOf(f)) = f[a] /\ \A x \in S : f[x] <= f[a]
                        /\ Min(RangeOf(f)) = f[b] /\ \A x \in S : f[b] <= f[x]
  BY Extremes
<1>2. Distance(f) = f[a] - f[b]
  BY <1>1 DEF Distance
<1>3. \A x \in S : f[x] \in Int
  OBVIOUS
<1> QED BY <1>1, <1>2, <1>3 DEF Spread

-----------------------------------------------------------------------------
(* int64. *)

LEMMA Widths ==
    /\ MaxInt64 \in Nat /\ MaxTotalVotingPower \in Nat
    /\ 8 * MaxTotalVotingPower <= MaxInt64 /\ MaxTotalVotingPower >= 1
    /\ MinInt64 = -MaxInt64 - 1
BY SetAssumption DEF MaxTotalVotingPower, MinInt64

LEMMA ModSmall ==
    ASSUME NEW m \in Nat, NEW y \in Nat, y < m
    PROVE  y % m = y
OBVIOUS

LEMMA WrapFits == ASSUME NEW x \in Int64 PROVE wrap(x) = x
<1>1. x \in Int /\ MinInt64 <= x /\ x <= MaxInt64
  BY Widths DEF Int64
<1>2. PICK y, m \in Nat : y = x - MinInt64 /\ m = 2 * (MaxInt64 + 1) /\ y < m
  BY <1>1, Widths
<1>3. y % m = y
  BY <1>2, ModSmall
<1> QED BY <1>1, <1>2, <1>3, Widths DEF wrap

LEMMA ClipFits == ASSUME NEW x \in Int64 PROVE clip(x) = x
BY Widths DEF Int64, clip

(* Truncating division, from above and from below. *)
LEMMA QuoBounds ==
    ASSUME NEW a \in Int, NEW r \in Nat, r >= 1
    PROVE  /\ quo(a, r) \in Int
           /\ a >= 0 => /\ 0 <= quo(a, r) /\ r * quo(a, r) <= a
                        /\ a < r * quo(a, r) + r /\ quo(a, r) <= a
           /\ a < 0 => /\ quo(a, r) <= 0 /\ a <= r * quo(a, r)
                       /\ r * quo(a, r) < a + r /\ a <= quo(a, r)
<1>1. ASSUME NEW n \in Nat
      PROVE  /\ n \div r \in Nat /\ r * (n \div r) <= n /\ n < r * (n \div r) + r
             /\ n \div r <= n
  <2>1. n \div r \in Nat /\ r * (n \div r) <= n /\ n < r * (n \div r) + r
    OBVIOUS
  <2>2. PICK q \in Nat : q = n \div r
    BY <2>1
  <2>3. q <= r * q
    OBVIOUS
  <2> QED BY <2>1, <2>2, <2>3
<1>2. CASE a >= 0
  <2>1. quo(a, r) = a \div r /\ a \in Nat
    BY <1>2 DEF quo
  <2> QED BY <1>1, <2>1
<1>3. CASE a < 0
  <2>1. PICK n \in Nat : n = -a
    BY <1>3
  <2>2. PICK q \in Nat : /\ q = n \div r /\ r * q <= n /\ n < r * q + r /\ q <= n
    BY <1>1
  <2>4. quo(a, r) = -q
    BY <1>3, <2>1, <2>2 DEF quo
  <2>3. r * (-q) = -(r * q) /\ r * q \in Nat
    OBVIOUS
  <2> QED BY <1>3, <2>1, <2>2, <2>3, <2>4
<1> QED BY <1>2, <1>3

(* Factors cancel. *)
LEMMA Cancel ==
    ASSUME NEW r \in Nat, r >= 1, NEW x \in Int, NEW m \in Int, r * x < r * m + r
    PROVE  x <= m
<1> SUFFICES ASSUME x >= m + 1 PROVE FALSE
  OBVIOUS
<1>1. r * x >= r * (m + 1)
  OBVIOUS
<1>2. r * (m + 1) = r * m + r
  OBVIOUS
<1> QED BY <1>1, <1>2

(* Division by r brings what is r * m apart to m. *)
LEMMA QuoSpread ==
    ASSUME NEW a \in Int, NEW b \in Int, NEW r \in Nat, r >= 1, NEW m \in Nat,
           a - b <= r * m
    PROVE  quo(a, r) - quo(b, r) <= m
<1>1. PICK x, y \in Int : x = quo(a, r) /\ y = quo(b, r)
  BY QuoBounds
<1>2. /\ a >= 0 => 0 <= x /\ r * x <= a
      /\ a < 0 => x <= 0 /\ r * x < a + r
  BY <1>1, QuoBounds
<1>3. /\ b >= 0 => 0 <= y /\ b < r * y + r
      /\ b < 0 => y <= 0 /\ b <= r * y
  BY <1>1, QuoBounds
<1>4. r * (x - y) = r * x - r * y /\ r * x \in Int /\ r * y \in Int /\ r * m \in Int
  OBVIOUS
<1>5. CASE a < 0 /\ b >= 0
  BY <1>1, <1>2, <1>3, <1>5
<1>6. CASE a >= 0 \/ b < 0
  <2>1. r * (x - y) < r * m + r
    BY <1>2, <1>3, <1>4, <1>6
  <2> QED BY <1>1, <2>1, Cancel
<1> QED BY <1>5, <1>6

-----------------------------------------------------------------------------
(* Scaling and centring. *)

(* All priorities are between lo and hi. *)
Between(f, lo, hi) == \A a \in DOMAIN f : lo <= f[a] /\ f[a] <= hi

(* RescalePriorities brings the priorities as close together as asked, unless
   the arithmetic overflows. *)
LEMMA Rescaled ==
    ASSUME NEW S, IsFiniteSet(S), S \in SUBSET Int, S # {}, NEW f \in [S -> Int],
           NEW m \in Nat, m >= 1, Distance(f) + m - 1 <= MaxInt64
    PROVE  LET g == RescalePriorities(f, m)
           IN  g \in [S -> Int] /\ Spread(g, m)
<1> DEFINE g == RescalePriorities(f, m)
           d == Distance(f)
<1>0. DOMAIN f = S
  OBVIOUS
<1>1. d \in Nat /\ Spread(f, d)
  BY DistanceSpread
<1>2. d \in Int64 /\ d + m - 1 \in Int64
  BY <1>1, Widths DEF Int64
<1>3. computeMaxMinPriorityDiff(f) = d
  <2>1. wrap(d) = d /\ ~ (d < 0)
    BY <1>1, <1>2, WrapFits
  <2> QED BY <2>1 DEF computeMaxMinPriorityDiff, Distance
<1> HIDE DEF d
<1>4. CASE d <= m
  <2>1. g = f
    BY <1>3, <1>4 DEF RescalePriorities
  <2>2. Spread(f, m)
    BY <1>0, <1>1, <1>4 DEF Spread
  <2> QED BY <2>1, <2>2
<1>5. CASE d > m
  <2> DEFINE r == quo(d + m - 1, m)
  <2>1. /\ r \in Int /\ 0 <= r /\ d + m - 1 < m * r + m
    BY <1>1, QuoBounds
  <2>2. g = [a \in S |-> quo(f[a], r)]
    <3>1. wrap(d + m - 1) = d + m - 1
      BY <1>2, WrapFits
    <3>2. ~ (m <= 0 \/ d <= m)
      BY <1>1, <1>5
    <3> QED BY <1>0, <1>3, <3>1, <3>2 DEF RescalePriorities
  <2> HIDE DEF r
  <2>3. r \in Nat /\ r >= 1 /\ d <= r * m
    <3>1. m * r = r * m /\ m * r \in Int
      BY <2>1
    <3>2. d <= r * m
      BY <1>1, <2>1, <3>1
    <3>3. r # 0
      BY <1>1, <1>5, <3>2
    <3> QED BY <2>1, <3>2, <3>3
  <2>4. g \in [S -> Int]
    BY <2>2, <2>3, QuoBounds
  <2>5. Spread(g, m)
    <3> SUFFICES ASSUME NEW a \in S, NEW b \in S
                 PROVE  quo(f[a], r) - quo(f[b], r) <= m
      BY <2>2 DEF Spread
    <3>1. f[a] - f[b] <= r * m /\ f[a] \in Int /\ f[b] \in Int
      BY <1>0, <1>1, <2>3 DEF Spread
    <3> QED BY <2>3, <3>1, QuoSpread
  <2> QED BY <2>4, <2>5
<1> QED BY <1>1, <1>4, <1>5

(* An average is between the values it is of. *)
LEMMA AverageBetween ==
    ASSUME NEW s \in Int, NEW n \in Nat, n >= 1, NEW lo \in Int, NEW hi \in Int,
           lo * n <= s, s <= hi * n
    PROVE  /\ s \div n \in Int /\ lo <= s \div n /\ s \div n <= hi
           /\ s - n * (s \div n) \in 0 .. n - 1
<1>1. PICK q \in Int : q = s \div n /\ n * q <= s /\ s < n * q + n
  OBVIOUS
<1>2. lo * n = n * lo /\ hi * n = n * hi /\ n * q \in Int /\ n * lo \in Int /\ n * hi \in Int
  OBVIOUS
<1>3. lo <= q
  BY <1>1, <1>2, Cancel
<1>4. q <= hi
  <2>1. n * q < n * hi + n
    BY <1>1, <1>2
  <2> QED BY <2>1, Cancel
<1> QED BY <1>1, <1>2, <1>3, <1>4

(* The sum of priorities that are centred. *)
CentredSum(f, n) == SumOf(f) \in 0 .. n - 1

(* shiftByAvgProposerPriority moves everybody alike, and centres. *)
LEMMA Shifted ==
    ASSUME NEW S, IsFiniteSet(S), S \in SUBSET Int, S # {}, NEW f \in [S -> Int],
           NEW m \in Nat, m <= MaxInt64, Spread(f, m)
    PROVE  LET g == shiftByAvgProposerPriority(f)
           IN  g \in [S -> Int] /\ Spread(g, m) /\ CentredSum(g, Cardinality(S))
<1> DEFINE n == Cardinality(S)
           avg == computeAvgProposerPriority(f)
<1>0. DOMAIN f = S /\ n \in Nat /\ n >= 1 /\ SumOf(f) \in Int
  <2>1. n \in Nat /\ n # 0
    BY FS_CardinalityType, FS_EmptySet
  <2>2. SumOf(f) \in Int
    BY SumInt
  <2> HIDE DEF n
  <2> QED BY <2>1, <2>2
<1>1. PICK a, b \in S : /\ Max(RangeOf(f)) = f[a] /\ \A x \in S : f[x] <= f[a]
                        /\ Min(RangeOf(f)) = f[b] /\ \A x \in S : f[b] <= f[x]
  BY Extremes
<1>2. f[b] * n <= SumOf(f) /\ SumOf(f) <= f[a] * n
  BY <1>1, SumBetween
<1>3. avg = SumOf(f) \div n
  BY <1>0 DEF computeAvgProposerPriority
<1> HIDE DEF avg, n
<1>4. /\ avg \in Int /\ f[b] <= avg /\ avg <= f[a]
      /\ SumOf(f) - n * avg \in 0 .. n - 1
  BY <1>0, <1>2, <1>3, AverageBetween
<1> DEFINE g == [x \in S |-> f[x] + (-avg)]
<1>5. shiftByAvgProposerPriority(f) = g
  <2>1. ASSUME NEW x \in S PROVE clip(f[x] - avg) = f[x] + (-avg)
    <3>1. /\ f[x] \in Int /\ f[a] \in Int /\ f[b] \in Int
          /\ f[b] <= f[x] /\ f[x] <= f[a] /\ f[a] - f[b] <= m
      BY <1>0, <1>1 DEF Spread
    <3>2. f[x] - avg \in Int64
      BY <1>4, <3>1, Widths DEF Int64
    <3> QED BY <1>4, <3>1, <3>2, ClipFits
  <2> QED BY <1>0, <2>1 DEF shiftByAvgProposerPriority, avg
<1>6. g \in [S -> Int]
  BY <1>4
<1>7. Spread(g, m)
  <2> SUFFICES ASSUME NEW x \in S, NEW y \in S PROVE g[x] - g[y] <= m
    BY DEF Spread
  <2>1. f[x] - f[y] <= m /\ f[x] \in Int /\ f[y] \in Int
    BY <1>0 DEF Spread
  <2> QED BY <1>4, <2>1
<1>8. CentredSum(g, n)
  <2>1. PICK c \in Int : c = -avg
    BY <1>4
  <2>2. PICK h : h = [x \in S |-> f[x] + c]
    OBVIOUS
  <2>3. h = g
    BY <2>1, <2>2
  <2> HIDE DEF g
  <2>5. SumOf(h) = SumOf(f) + c * n
    BY <2>2, SumShift DEF n
  <2>6. c * n = -(n * avg) /\ n * avg \in Int
    BY <1>0, <1>4, <2>1
  <2>7. SumOf(g) = SumOf(f) - n * avg
    BY <1>0, <2>3, <2>5, <2>6
  <2> QED BY <1>4, <2>7 DEF CentredSum
<1> QED BY <1>5, <1>6, <1>7, <1>8 DEF n

-----------------------------------------------------------------------------
(* Elections. *)

IsRecord(v) == v = [power |-> v.power, prio |-> v.prio, Proposer |-> v.Proposer,
                    totalVotingPower |-> v.totalVotingPower]

(* The powers of a set, and its cached total. *)
Powered(v) ==
    /\ IsRecord(v)
    /\ IsFiniteSet(Members(v)) /\ Members(v) \subseteq Addresses /\ Members(v) # {}
    /\ v.power \in [Members(v) -> 1 .. MaxTotalVotingPower]
    /\ v.totalVotingPower = SumOf(v.power)
    /\ v.totalVotingPower <= MaxTotalVotingPower

(* Nobody has more than the total, and no two together. *)
LEMMA Shares ==
    ASSUME NEW S, IsFiniteSet(S), S # {}, NEW p \in [S -> Int], \A a \in S : p[a] >= 1
    PROVE  /\ SumOf(p) \in Nat /\ SumOf(p) >= 1
           /\ \A a \in S : p[a] <= SumOf(p)
           /\ \A a, b \in S : a # b => p[a] + p[b] <= SumOf(p)
<1>0. ASSUME NEW R, IsFiniteSet(R), NEW q \in [R -> Int], \A a \in R : q[a] >= 1
      PROVE  SumOf(q) \in Int /\ SumOf(q) >= 0
  <2>1. PICK z : z = [a \in R |-> 0]
    OBVIOUS
  <2>2. SumOf(z) = 0 * Cardinality(R) /\ Cardinality(R) \in Nat
    BY <1>0, <2>1, SumConst, FS_CardinalityType
  <2>3. SumOf(z) <= SumOf(q)
    BY <1>0, <2>1, SumMono
  <2>4. SumOf(q) \in Int
    BY <1>0, SumInt
  <2> QED BY <2>2, <2>3, <2>4
<1>1. ASSUME NEW a \in S
      PROVE  /\ SumOf(p) \in Int /\ p[a] <= SumOf(p)
             /\ \A b \in S : a # b => p[a] + p[b] <= SumOf(p)
  <2>1. PICK R, q : R = S \ {a} /\ q = Part(p, R)
    OBVIOUS
  <2>2. /\ IsFiniteSet(R) /\ q \in [R -> Int] /\ \A b \in R : q[b] >= 1 /\ q[b] = p[b]
    BY <2>1, FS_RemoveElement DEF Part
  <2>3. /\ SumOf(p) \in Int /\ SumOf(p) = p[a] + SumOf(q) /\ p[a] \in Int
    BY <2>1, SumSplit
  <2>4. SumOf(q) \in Int /\ SumOf(q) >= 0
    BY <1>0, <2>2
  <2>5. ASSUME NEW b \in R PROVE p[b] <= SumOf(q)
    <3>1. PICK Q, r : Q = R \ {b} /\ r = Part(q, Q)
      OBVIOUS
    <3>2. IsFiniteSet(Q) /\ r \in [Q -> Int] /\ \A c \in Q : r[c] >= 1
      BY <2>2, <3>1, FS_RemoveElement DEF Part
    <3>3. SumOf(q) = q[b] + SumOf(r) /\ q[b] \in Int
      BY <2>2, <3>1, SumSplit
    <3>4. SumOf(r) \in Int /\ SumOf(r) >= 0
      BY <1>0, <3>2
    <3> QED BY <2>2, <3>3, <3>4
  <2>6. \A b \in S : a # b => p[b] <= SumOf(q) /\ p[b] \in Int
    BY <2>1, <2>5
  <2> QED BY <2>3, <2>4, <2>6
<1> QED BY <1>1

(* What replacing fields of a record makes. *)
LEMMA Replaced ==
    ASSUME NEW v, IsRecord(v), NEW f, NEW w
    PROVE  /\ [v EXCEPT !.prio = f, !.Proposer = w] =
                 [power |-> v.power, prio |-> f, Proposer |-> w,
                  totalVotingPower |-> v.totalVotingPower]
           /\ [v EXCEPT !.prio = f] =
                 [power |-> v.power, prio |-> f, Proposer |-> v.Proposer,
                  totalVotingPower |-> v.totalVotingPower]
<1>1. PICK p, q, r, t : v = [power |-> p, prio |-> q, Proposer |-> r, totalVotingPower |-> t]
  BY DEF IsRecord
<1>2. v.power = p /\ v.Proposer = r /\ v.totalVotingPower = t
  BY <1>1
<1>3. PICK u : u = [v EXCEPT !.prio = f]
  OBVIOUS
<1>4. /\ DOMAIN u = {"power", "prio", "Proposer", "totalVotingPower"}
      /\ u = [i \in DOMAIN u |-> u[i]]
      /\ u.power = p /\ u.prio = f /\ u.Proposer = r /\ u.totalVotingPower = t
  BY <1>1, <1>3
<1>5. u = [power |-> p, prio |-> f, Proposer |-> r, totalVotingPower |-> t]
  BY <1>4
<1>6. [u EXCEPT !.Proposer = w] = [power |-> p, prio |-> f, Proposer |-> w, totalVotingPower |-> t]
  BY <1>5
<1>7. [v EXCEPT !.prio = f, !.Proposer = w] = [[v EXCEPT !.prio = f] EXCEPT !.Proposer = w]
  BY <1>1
<1> QED BY <1>2, <1>3, <1>5, <1>6, <1>7

(* g are the priorities f once everybody has gained its power in p and w, which
   was then first, has paid T. *)
Elected(g, f, p, T, w, S) ==
    /\ w \in S
    /\ g = [a \in S |-> IF a = w THEN f[a] + p[a] - T ELSE f[a] + p[a]]
    /\ \A b \in S : f[b] + p[b] <= f[w] + p[w]

(* The priorities f and the powers p of the members S, with the total T. *)
Electorate(f, p, T, S) ==
    /\ IsFiniteSet(S) /\ S \in SUBSET Int /\ S # {}
    /\ f \in [S -> Int] /\ p \in [S -> Int] /\ \A a \in S : p[a] >= 1
    /\ T = SumOf(p)

(* An election hands out what it takes. *)
LEMMA Balanced ==
    ASSUME NEW S, NEW f, NEW p, NEW T, NEW w, NEW g,
           Electorate(f, p, T, S), Elected(g, f, p, T, w, S)
    PROVE  SumOf(g) = SumOf(f)
<1>0. IsFiniteSet(S) /\ f \in [S -> Int] /\ p \in [S -> Int] /\ T = SumOf(p) /\ w \in S
  BY DEF Electorate, Elected
<1>1. PICK h : h = [a \in S |-> f[a] + p[a]]
  OBVIOUS
<1>2. h \in [S -> Int] /\ AddsUp(h, f, p, S)
  BY <1>0, <1>1 DEF AddsUp
<1>3. SumOf(h) = SumOf(f) + SumOf(p)
  BY <1>2, SumAdd
<1>4. SumOf(f) \in Int /\ SumOf(p) \in Int
  BY <1>0, SumInt
<1>5. PICK t : t = h[w] - SumOf(p)
  OBVIOUS
<1>6. t \in Int /\ h[w] \in Int
  BY <1>0, <1>2, <1>4, <1>5
<1>7. g = [h EXCEPT ![w] = t]
  <2>1. g = [a \in S |-> IF a = w THEN f[a] + p[a] - T ELSE f[a] + p[a]]
    BY DEF Elected
  <2>2. PICK k : k = [h EXCEPT ![w] = t]
    OBVIOUS
  <2>3. k = [a \in S |-> IF a = w THEN t ELSE h[a]]
    BY <1>0, <1>2, <2>2
  <2>6. \A a \in S : h[a] = f[a] + p[a]
    BY <1>1
  <2>4. t = f[w] + p[w] - T
    <3>1. h[w] = f[w] + p[w]
      BY <1>0, <2>6
    <3>2. T = SumOf(p)
      BY <1>0
    <3>3. t = h[w] - T
      BY <1>5, <3>2
    <3>4. f[w] \in Int /\ p[w] \in Int /\ T \in Int
      BY <1>0, <1>4
    <3> QED BY <3>1, <3>3, <3>4
  <2>5. \A a \in S : g[a] = k[a]
    BY <2>1, <2>3, <2>4, <2>6
  <2> QED BY <2>1, <2>2, <2>3, <2>5
<1>8. SumOf(g) = SumOf(h) - h[w] + t
  <2>1. Changed(g, h, w, t, S)
    BY <1>0, <1>2, <1>6, <1>7 DEF Changed
  <2> QED BY <2>1, SumExcept
<1> QED BY <1>0, <1>3, <1>4, <1>5, <1>6, <1>8

(* Nothing is clipped. *)
Fits(f, p, T, S) == \A a \in S : f[a] + p[a] \in Int64 /\ f[a] + p[a] - T \in Int64

LEMMA Unclipped ==
    ASSUME NEW S, IsFiniteSet(S), S \in SUBSET Int, S # {},
           NEW f \in [S -> Int], NEW p \in [S -> Int], NEW T \in Nat, Fits(f, p, T, S),
           NEW raised, raised = [a \in S |-> clip(f[a] + p[a])],
           NEW w, w = getValWithMostPriority(raised),
           NEW g, g = [raised EXCEPT ![w] = clip(@ - T)]
    PROVE  Elected(g, f, p, T, w, S)
<1>1. \A a \in S : f[a] + p[a] \in Int
  OBVIOUS
<1>2. \A a \in S : clip(f[a] + p[a]) = f[a] + p[a] /\ clip(f[a] + p[a] - T) = f[a] + p[a] - T
  BY ClipFits DEF Fits
<1>3. raised \in [S -> Int] /\ \A a \in S : raised[a] = f[a] + p[a]
  BY <1>1, <1>2
<1>4. w \in S /\ \A b \in S : raised[b] <= raised[w]
  BY <1>3, MostPriority
<1>5. clip(raised[w] - T) = f[w] + p[w] - T
  BY <1>2, <1>3, <1>4
<1>6. g = [a \in S |-> IF a = w THEN f[a] + p[a] - T ELSE f[a] + p[a]]
  BY <1>3, <1>4, <1>5
<1>7. \A b \in S : f[b] + p[b] <= f[w] + p[w]
  BY <1>3, <1>4
<1> QED BY <1>4, <1>6, <1>7 DEF Elected

(* What one election does: everybody gains its power, somebody that is then
   first pays the total; nothing is clipped as long as nobody is further from 0
   than seven times the largest total. *)
LEMMA Election ==
    ASSUME NEW v, Powered(v), v.prio \in [Members(v) -> Int],
           Between(v.prio, -7 * MaxTotalVotingPower, 7 * MaxTotalVotingPower)
    PROVE  \E g, w : /\ incrementProposerPriority(v) =
                          [power |-> v.power, prio |-> g, Proposer |-> w,
                           totalVotingPower |-> v.totalVotingPower]
                     /\ Elected(g, v.prio, v.power, v.totalVotingPower, w, Members(v))
                     /\ SumOf(g) = SumOf(v.prio)
<1>1. PICK S, f, p, T : S = Members(v) /\ f = v.prio /\ p = v.power /\ T = v.totalVotingPower
  OBVIOUS
<1>2. /\ IsFiniteSet(S) /\ S \in SUBSET Int /\ S # {} /\ p \in [S -> Int] /\ f \in [S -> Int]
      /\ \A a \in S : p[a] >= 1 /\ p[a] <= MaxTotalVotingPower
      /\ T = SumOf(p) /\ T <= MaxTotalVotingPower
  <2>1. /\ IsFiniteSet(S) /\ S # {} /\ S \subseteq Addresses
        /\ p \in [S -> 1 .. MaxTotalVotingPower] /\ f \in [S -> Int]
        /\ T = SumOf(p) /\ T <= MaxTotalVotingPower
    BY <1>1, Zenon DEF Powered
  <2>2. 1 .. MaxTotalVotingPower \subseteq Int /\ Addresses \subseteq Int
    BY SetAssumption, Widths
  <2>3. \A a \in S : p[a] \in Int /\ p[a] >= 1 /\ p[a] <= MaxTotalVotingPower
    BY <2>1, Widths
  <2> QED BY <2>1, <2>2, <2>3
<1>3. T \in Nat
  BY <1>2, Shares
<1>4. Fits(f, p, T, S)
  <2> SUFFICES ASSUME NEW a \in S
               PROVE  f[a] + p[a] \in Int64 /\ f[a] + p[a] - T \in Int64
    BY DEF Fits
  <2>1. /\ f[a] \in Int /\ p[a] \in Int /\ p[a] >= 1 /\ p[a] <= MaxTotalVotingPower
        /\ -7 * MaxTotalVotingPower <= f[a] /\ f[a] <= 7 * MaxTotalVotingPower
    BY <1>1, <1>2 DEF Between
  <2> QED BY <1>2, <1>3, <2>1, Widths DEF Int64
<1>5. PICK raised : raised = [a \in S |-> clip(f[a] + p[a])]
  OBVIOUS
<1>6. PICK w : w = getValWithMostPriority(raised)
  OBVIOUS
<1>7. PICK g : g = [raised EXCEPT ![w] = clip(@ - T)]
  OBVIOUS
<1>8. Elected(g, f, p, T, w, S) /\ SumOf(g) = SumOf(f)
  <2>1. Elected(g, f, p, T, w, S)
    BY <1>2, <1>3, <1>4, <1>5, <1>6, <1>7, Unclipped
  <2>2. Electorate(f, p, T, S)
    BY <1>2 DEF Electorate
  <2>3. SumOf(g) = SumOf(f)
    BY <2>1, <2>2, Balanced
  <2> QED BY <2>1, <2>3
<1>9. incrementProposerPriority(v) = [v EXCEPT !.prio = g, !.Proposer = w]
  BY <1>1, <1>5, <1>6, <1>7 DEF incrementProposerPriority
<1>10. IsRecord(v)
  BY DEF Powered
<1> QED BY <1>1, <1>8, <1>9, <1>10, Replaced

(* Shares, for an electorate. *)
LEMMA Electors ==
    ASSUME NEW S, NEW f, NEW p, NEW T, Electorate(f, p, T, S)
    PROVE  /\ T \in Nat /\ T >= 1
           /\ \A a \in S : f[a] \in Int /\ p[a] \in Int /\ 1 <= p[a] /\ p[a] <= T
           /\ \A a, b \in S : a # b => p[a] + p[b] <= T
<1>1. /\ IsFiniteSet(S) /\ S # {} /\ f \in [S -> Int] /\ p \in [S -> Int]
      /\ \A a \in S : p[a] >= 1
      /\ T = SumOf(p)
  BY DEF Electorate
<1>2. /\ SumOf(p) \in Nat /\ SumOf(p) >= 1
      /\ \A a \in S : p[a] <= SumOf(p)
      /\ \A a, b \in S : a # b => p[a] + p[b] <= SumOf(p)
  BY <1>1, Shares
<1> QED BY <1>1, <1>2

(* What g gives to the winner and to the others. *)
LEMMA Gains ==
    ASSUME NEW S, NEW f, NEW p, NEW T, NEW w, NEW g,
           Electorate(f, p, T, S), Elected(g, f, p, T, w, S)
    PROVE  /\ Electorate(g, p, T, S) /\ w \in S
           /\ g[w] = f[w] + p[w] - T
           /\ \A a \in S : a # w => g[a] = f[a] + p[a]
           /\ \A a \in S : f[a] + p[a] <= f[w] + p[w]
<1>1. /\ T \in Nat /\ \A a \in S : f[a] \in Int /\ p[a] \in Int
  BY Electors
<1>2. /\ w \in S /\ g = [a \in S |-> IF a = w THEN f[a] + p[a] - T ELSE f[a] + p[a]]
      /\ \A a \in S : f[a] + p[a] <= f[w] + p[w]
  BY DEF Elected
<1>3. g \in [S -> Int]
  BY <1>1, <1>2
<1>4. Electorate(g, p, T, S)
  BY <1>3 DEF Electorate
<1> QED BY <1>2, <1>4

(* Priorities that have just been scaled and centred: the largest is X. *)
Start(f, X, T, S) ==
    /\ \A a \in S : X - 2 * T <= f[a] /\ f[a] <= X
    /\ \E a \in S : f[a] = X

(* After one election from there. *)
AfterOne(f, p, X, T, S) ==
    /\ \A a \in S : X - 2 * T <= f[a] /\ f[a] <= X + p[a]
    /\ \E a \in S : f[a] >= X - T

LEMMA OneElection ==
    ASSUME NEW S, NEW f, NEW p, NEW T, NEW w, NEW g, NEW X \in Int,
           Electorate(f, p, T, S), Start(f, X, T, S), Elected(g, f, p, T, w, S)
    PROVE  AfterOne(g, p, X, T, S)
<1>1. /\ T \in Nat /\ T >= 1
      /\ \A a \in S : f[a] \in Int /\ p[a] \in Int /\ 1 <= p[a] /\ p[a] <= T
  BY Electors
<1>2. /\ w \in S /\ g[w] = f[w] + p[w] - T
      /\ \A a \in S : a # w => g[a] = f[a] + p[a]
      /\ \A a \in S : f[a] + p[a] <= f[w] + p[w]
  BY Gains
<1>3. PICK x \in S : f[x] = X
  BY DEF Start
<1>4. g[w] >= X - T
  <2>1. f[x] + p[x] <= f[w] + p[w] /\ f[x] \in Int /\ p[x] \in Int /\ p[x] >= 1
        /\ f[w] \in Int /\ p[w] \in Int
    BY <1>1, <1>2
  <2> QED BY <1>1, <1>2, <1>3, <2>1
<1>5. ASSUME NEW a \in S PROVE X - 2 * T <= g[a] /\ g[a] <= X + p[a]
  <2>1. /\ f[a] \in Int /\ p[a] \in Int /\ 1 <= p[a] /\ p[a] <= T
        /\ X - 2 * T <= f[a] /\ f[a] <= X
    BY <1>1 DEF Start
  <2>2. CASE a = w
    BY <1>1, <1>2, <1>4, <2>1, <2>2
  <2>3. CASE a # w
    <3>1. g[a] = f[a] + p[a]
      BY <1>2, <2>3
    <3> QED BY <1>1, <2>1, <3>1
  <2> QED BY <2>2, <2>3
<1> QED BY <1>2, <1>4, <1>5 DEF AfterOne

(* A second election leaves them within three totals: raised, the priorities of
   two proposers exceed X by at most 2 * T together, so that of the one that
   does not win exceeds it by at most T. *)
LEMMA TwoElections ==
    ASSUME NEW S, NEW f, NEW p, NEW T, NEW w, NEW g, NEW X \in Int,
           Electorate(f, p, T, S), AfterOne(f, p, X, T, S), Elected(g, f, p, T, w, S)
    PROVE  /\ \A a \in S : X - 2 * T <= f[a] /\ f[a] <= X + T
           /\ \A a \in S : X - 2 * T <= g[a] /\ g[a] <= X + T
<1>1. /\ T \in Nat /\ T >= 1
      /\ \A a \in S : f[a] \in Int /\ p[a] \in Int /\ 1 <= p[a] /\ p[a] <= T
      /\ \A a, b \in S : a # b => p[a] + p[b] <= T
  BY Electors
<1>2. /\ w \in S /\ g[w] = f[w] + p[w] - T
      /\ \A a \in S : a # w => g[a] = f[a] + p[a]
      /\ \A a \in S : f[a] + p[a] <= f[w] + p[w]
  BY Gains
<1>3. PICK x \in S : f[x] >= X - T
  BY DEF AfterOne
<1>4. \A a \in S : X - 2 * T <= f[a] /\ f[a] <= X + p[a]
  BY DEF AfterOne
<1>5. f[w] \in Int /\ p[w] \in Int /\ p[w] <= T /\ f[w] <= X + p[w]
  BY <1>1, <1>2, <1>4
<1>6. f[w] + p[w] >= X - T
  <2>1. f[x] + p[x] <= f[w] + p[w] /\ f[x] \in Int /\ p[x] \in Int /\ p[x] >= 1
    BY <1>1, <1>2
  <2> QED BY <1>1, <1>3, <1>5, <2>1
<1>7. ASSUME NEW a \in S
      PROVE  /\ X - 2 * T <= f[a] /\ f[a] <= X + T
             /\ X - 2 * T <= g[a] /\ g[a] <= X + T
  <2>1. /\ f[a] \in Int /\ p[a] \in Int /\ 1 <= p[a] /\ p[a] <= T
        /\ X - 2 * T <= f[a] /\ f[a] <= X + p[a]
    BY <1>1, <1>4
  <2>2. CASE a = w
    BY <1>1, <1>2, <1>5, <1>6, <2>1, <2>2
  <2>3. CASE a # w
    <3>1. /\ g[a] = f[a] + p[a] /\ f[a] + p[a] <= f[w] + p[w] /\ p[a] + p[w] <= T
      BY <1>1, <1>2, <2>3
    <3> QED BY <1>1, <1>5, <2>1, <3>1
  <2> QED BY <2>2, <2>3
<1> QED BY <1>7

-----------------------------------------------------------------------------
(* The loop of IncrementProposerPriority. *)

(* g[i] is the set after i elections, for i up to n. *)
Runs(g, v, n) ==
    g = [i \in 0 .. n |-> IF i = 0 THEN v ELSE incrementProposerPriority(g[i - 1])]

LEMMA RunsExist == ASSUME NEW v, NEW n \in Nat PROVE \E g : Runs(g, v, n)
<1> DEFINE T == {k \in Nat : \E g : Runs(g, v, k)}
<1>1. 0 \in T
  <2>1. Runs([i \in 0 .. 0 |-> v], v, 0)
    BY DEF Runs
  <2> QED BY <2>1
<1>2. ASSUME NEW k \in T PROVE k + 1 \in T
  <2>1. PICK g : Runs(g, v, k)
    OBVIOUS
  <2>2. PICK h : h = [i \in 0 .. k + 1 |-> IF i = 0 THEN v ELSE incrementProposerPriority(g[i - 1])]
    OBVIOUS
  <2>3. \A i \in 0 .. k : h[i] = g[i]
    BY <2>1, <2>2 DEF Runs
  <2>4. \A i \in 0 .. k + 1 : i # 0 => h[i - 1] = g[i - 1]
    BY <2>3
  <2>5. Runs(h, v, k + 1)
    BY <2>2, <2>4 DEF Runs
  <2> QED BY <2>5
<1>3. T = Nat
  <2>1. T \in SUBSET Nat
    OBVIOUS
  <2> HIDE DEF T
  <2> QED BY <1>1, <1>2, <2>1, Induction
<1> QED BY <1>3

LEMMA Loop ==
    ASSUME NEW v, NEW n \in Nat
    PROVE  /\ elections(v, n)[0] = v
           /\ \A i \in 1 .. n :
                 elections(v, n)[i] = incrementProposerPriority(elections(v, n)[i - 1])
<1> DEFINE g == CHOOSE g : Runs(g, v, n)
<1>1. Runs(g, v, n)
  BY RunsExist
<1>2. elections(v, n) = g
  BY DEF elections, Runs
<1> HIDE DEF g
<1> QED BY <1>1, <1>2 DEF Runs

(* The powers that elections leave alone. *)
SamePowers(u, v) ==
    IsRecord(u) /\ u.power = v.power /\ u.totalVotingPower = v.totalVotingPower

LEMMA SameIsPowered ==
    ASSUME NEW u, NEW v, SamePowers(u, v), Powered(v)
    PROVE  Powered(u)
BY Zenon DEF SamePowers, Powered, Members

LEMMA ElectionKeepsPowers ==
    ASSUME NEW v, IsRecord(v)
    PROVE  SamePowers(incrementProposerPriority(v), v)
<1>1. PICK g, w : incrementProposerPriority(v) = [v EXCEPT !.prio = g, !.Proposer = w]
  BY DEF incrementProposerPriority
<1>2. incrementProposerPriority(v) =
          [power |-> v.power, prio |-> g, Proposer |-> w, totalVotingPower |-> v.totalVotingPower]
  BY <1>1, Replaced
<1> QED BY <1>2 DEF SamePowers, IsRecord

LEMMA PreparedRecord ==
    ASSUME NEW v, IsRecord(v)
    PROVE  prepared(v) =
             [power |-> v.power,
              prio |-> shiftByAvgProposerPriority(
                           RescalePriorities(v.prio, 2 * v.totalVotingPower)),
              Proposer |-> v.Proposer, totalVotingPower |-> v.totalVotingPower]
<1>1. PICK f : f = shiftByAvgProposerPriority(RescalePriorities(v.prio, 2 * v.totalVotingPower))
  OBVIOUS
<1>2. prepared(v) = [v EXCEPT !.prio = f]
  BY <1>1 DEF prepared, PriorityWindowSizeFactor
<1> QED BY <1>1, <1>2, Replaced

(* IncrementProposerPriority leaves the powers and their total alone. *)
LEMMA IncrementKeepsPowers ==
    ASSUME NEW v, IsRecord(v), NEW n \in Nat
    PROVE  SamePowers(IncrementProposerPriority(v, n), v)
<1> DEFINE e == elections(prepared(v), n)
           T == {i \in Nat : i <= n => SamePowers(e[i], v)}
<1>0. /\ e[0] = prepared(v)
      /\ \A i \in 1 .. n : e[i] = incrementProposerPriority(e[i - 1])
  BY Loop
<1>1. 0 \in T
  <2>1. SamePowers(prepared(v), v)
    BY PreparedRecord DEF SamePowers, IsRecord
  <2> QED BY <1>0, <2>1
<1>2. ASSUME NEW i \in T PROVE i + 1 \in T
  <2> HIDE DEF e
  <2> SUFFICES ASSUME i + 1 <= n PROVE SamePowers(e[i + 1], v)
    OBVIOUS
  <2>1. SamePowers(e[i], v)
    OBVIOUS
  <2>2. i + 1 \in 1 .. n /\ i + 1 - 1 = i
    OBVIOUS
  <2>3. e[i + 1] = incrementProposerPriority(e[i])
    BY <1>0, <2>2
  <2>4. SamePowers(incrementProposerPriority(e[i]), e[i])
    BY <2>1, ElectionKeepsPowers DEF SamePowers
  <2> QED BY <2>1, <2>3, <2>4 DEF SamePowers
<1>3. T = Nat
  <2>1. T \in SUBSET Nat
    OBVIOUS
  <2> HIDE DEF T
  <2> QED BY <1>1, <1>2, <2>1, Induction
<1>4. SamePowers(e[n], v)
  BY <1>3
<1> QED BY <1>4 DEF IncrementProposerPriority

-----------------------------------------------------------------------------
(* Priorities through IncrementProposerPriority. *)

(* Centred priorities are around 0. *)
LEMMA Around ==
    ASSUME NEW S, IsFiniteSet(S), S # {}, NEW f \in [S -> Int],
           CentredSum(f, Cardinality(S))
    PROVE  (\E a \in S : f[a] >= 0) /\ (\E b \in S : f[b] <= 0)
<1>0. PICK n \in Nat : n = Cardinality(S) /\ n >= 1
  <2>1. Cardinality(S) \in Nat /\ Cardinality(S) # 0
    BY FS_CardinalityType, FS_EmptySet
  <2> QED BY <2>1
<1>1. SumOf(f) \in Int /\ 0 <= SumOf(f) /\ SumOf(f) <= n - 1
  BY <1>0 DEF CentredSum
<1>2. ASSUME NEW c \in Int, \A a \in S : f[a] <= c PROVE SumOf(f) <= c * n
  <2>1. PICK h : h = [a \in S |-> c]
    OBVIOUS
  <2>2. h \in [S -> Int] /\ \A a \in S : f[a] <= h[a]
    BY <1>2, <2>1
  <2>3. SumOf(f) <= SumOf(h)
    BY <2>2, SumMono
  <2> QED BY <1>0, <2>1, <2>3, SumConst
<1>3. ASSUME NEW c \in Int, \A a \in S : c <= f[a] PROVE c * n <= SumOf(f)
  <2>1. PICK h : h = [a \in S |-> c]
    OBVIOUS
  <2>2. h \in [S -> Int] /\ \A a \in S : h[a] <= f[a]
    BY <1>3, <2>1
  <2>3. SumOf(h) <= SumOf(f)
    BY <2>2, SumMono
  <2> QED BY <1>0, <2>1, <2>3, SumConst
<1>4. \E a \in S : f[a] >= 0
  <2> SUFFICES ASSUME \A a \in S : ~ (f[a] >= 0) PROVE FALSE
    OBVIOUS
  <2>1. \A a \in S : f[a] <= -1
    OBVIOUS
  <2>2. SumOf(f) <= (-1) * n
    BY <1>2, <2>1
  <2> QED BY <1>0, <1>1, <2>2
<1>5. \E a \in S : f[a] <= 0
  <2> SUFFICES ASSUME \A a \in S : ~ (f[a] <= 0) PROVE FALSE
    OBVIOUS
  <2>1. \A a \in S : 1 <= f[a]
    OBVIOUS
  <2>2. 1 * n <= SumOf(f)
    BY <1>3, <2>1
  <2> QED BY <1>0, <1>1, <2>2
<1> QED BY <1>4, <1>5

(* The priorities of v are centred and within k times the total. *)
Ranks(v, k) ==
    /\ v.prio \in [Members(v) -> Int]
    /\ CentredSum(v.prio, Cardinality(Members(v)))
    /\ Spread(v.prio, k * v.totalVotingPower)

(* What Powered says of the parts of v. *)
LEMMA Parts ==
    ASSUME NEW v, Powered(v)
    PROVE  /\ IsFiniteSet(Members(v)) /\ Members(v) \in SUBSET Int /\ Members(v) # {}
           /\ v.power \in [Members(v) -> Int]
           /\ \A a \in Members(v) : v.power[a] >= 1 /\ v.power[a] <= MaxTotalVotingPower
           /\ v.totalVotingPower = SumOf(v.power) /\ v.totalVotingPower <= MaxTotalVotingPower
           /\ v.totalVotingPower \in Nat /\ v.totalVotingPower >= 1
           /\ \A f : f \in [Members(v) -> Int] =>
                  Electorate(f, v.power, v.totalVotingPower, Members(v))
<1>1. PICK S, p, T : S = Members(v) /\ p = v.power /\ T = v.totalVotingPower
  OBVIOUS
<1>2. /\ IsFiniteSet(S) /\ S # {} /\ S \subseteq Addresses
      /\ p \in [S -> 1 .. MaxTotalVotingPower]
      /\ T = SumOf(p) /\ T <= MaxTotalVotingPower
  BY <1>1, Zenon DEF Powered
<1>3. 1 .. MaxTotalVotingPower \subseteq Int /\ Addresses \subseteq Int
  BY SetAssumption, Widths
<1>4. \A a \in S : p[a] \in Int /\ p[a] >= 1 /\ p[a] <= MaxTotalVotingPower
  BY <1>2, Widths
<1>5. p \in [S -> Int] /\ S \in SUBSET Int
  BY <1>2, <1>3, <1>4
<1>6. T \in Nat /\ T >= 1
  BY <1>2, <1>4, <1>5, Shares
<1>7. \A f : f \in [S -> Int] => Electorate(f, p, T, S)
  BY <1>2, <1>4, <1>5 DEF Electorate
<1> QED BY <1>1, <1>2, <1>4, <1>5, <1>6, <1>7

(* Before the first election the priorities are centred and within the
   window, whatever they were, as long as diff + diffMax - 1 does not overflow. *)
LEMMA Prepared ==
    ASSUME NEW v, Powered(v), v.prio \in [Members(v) -> Int],
           Distance(v.prio) + 2 * v.totalVotingPower - 1 <= MaxInt64
    PROVE  SamePowers(prepared(v), v) /\ Ranks(prepared(v), 2)
<1>1. PICK S, f, T, m : S = Members(v) /\ f = v.prio /\ T = v.totalVotingPower /\ m = 2 * T
  OBVIOUS
<1>2. /\ IsFiniteSet(S) /\ S \in SUBSET Int /\ S # {} /\ f \in [S -> Int]
      /\ T \in Nat /\ T >= 1 /\ T <= MaxTotalVotingPower
  BY <1>1, Parts
<1>3. m \in Nat /\ m >= 1 /\ m <= MaxInt64 /\ Distance(f) + m - 1 <= MaxInt64
  BY <1>1, <1>2, Widths
<1>4. PICK g : g = RescalePriorities(f, m)
  OBVIOUS
<1>5. g \in [S -> Int] /\ Spread(g, m)
  BY <1>2, <1>3, <1>4, Rescaled
<1>6. PICK h : h = shiftByAvgProposerPriority(g)
  OBVIOUS
<1>7. h \in [S -> Int] /\ Spread(h, m) /\ CentredSum(h, Cardinality(S))
  BY <1>2, <1>3, <1>5, <1>6, Shifted
<1>8. prepared(v) = [power |-> v.power, prio |-> h, Proposer |-> v.Proposer,
                     totalVotingPower |-> T]
  BY <1>1, <1>4, <1>6, PreparedRecord DEF Powered
<1> QED BY <1>1, <1>7, <1>8 DEF SamePowers, IsRecord, Ranks, Members

(* The largest of centred priorities within twice the total. *)
LEMMA Starts ==
    ASSUME NEW v, Powered(v), Ranks(v, 2)
    PROVE  \E X \in Int : /\ 0 <= X /\ X <= 2 * v.totalVotingPower
                           /\ Start(v.prio, X, v.totalVotingPower, Members(v))
<1>1. PICK S, f, T : S = Members(v) /\ f = v.prio /\ T = v.totalVotingPower
  OBVIOUS
<1>2. /\ IsFiniteSet(S) /\ S \in SUBSET Int /\ S # {} /\ T \in Nat
  BY <1>1, Parts
<1>3. f \in [S -> Int] /\ CentredSum(f, Cardinality(S)) /\ Spread(f, 2 * T)
  BY <1>1 DEF Ranks
<1>4. PICK x, y \in S : /\ Max(RangeOf(f)) = f[x] /\ \A a \in S : f[a] <= f[x]
                        /\ Min(RangeOf(f)) = f[y] /\ \A a \in S : f[y] <= f[a]
  BY <1>2, <1>3, Extremes
<1>5. (\E a \in S : f[a] >= 0) /\ (\E b \in S : f[b] <= 0)
  BY <1>2, <1>3, Around
<1>6. \A a \in S : f[x] - f[a] <= 2 * T /\ f[a] \in Int
  BY <1>3 DEF Spread
<1>7. f[x] \in Int /\ 0 <= f[x] /\ f[x] <= 2 * T
  BY <1>2, <1>4, <1>5, <1>6
<1>8. Start(f, f[x], T, S)
  <2>1. \A a \in S : f[x] - 2 * T <= f[a]
    BY <1>2, <1>6, <1>7
  <2> QED BY <1>4, <2>1 DEF Start
<1> QED BY <1>1, <1>7, <1>8

(* What the bounds on the priorities of v say in the terms of Ranks. *)
LEMMA RanksFrom ==
    ASSUME NEW v, Powered(v), v.prio \in [Members(v) -> Int],
           CentredSum(v.prio, Cardinality(Members(v))), NEW X \in Int,
           0 <= X, X <= 2 * v.totalVotingPower,
           \A a \in Members(v) : /\ X - 2 * v.totalVotingPower <= v.prio[a]
                                 /\ v.prio[a] <= X + v.totalVotingPower
    PROVE  /\ Ranks(v, 3)
           /\ Between(v.prio, -7 * MaxTotalVotingPower, 7 * MaxTotalVotingPower)
<1>1. PICK S, f, T : S = Members(v) /\ f = v.prio /\ T = v.totalVotingPower
  OBVIOUS
<1>2. T \in Nat /\ T <= MaxTotalVotingPower /\ DOMAIN f = S
  BY <1>1, Parts
<1>3. ASSUME NEW a \in S
      PROVE  f[a] \in Int /\ X - 2 * T <= f[a] /\ f[a] <= X + T
  BY <1>1
<1>4. Spread(f, 3 * T)
  <2> SUFFICES ASSUME NEW a \in S, NEW b \in S PROVE f[a] - f[b] <= 3 * T
    BY <1>2 DEF Spread
  <2> QED BY <1>2, <1>3
<1>5. Between(f, -7 * MaxTotalVotingPower, 7 * MaxTotalVotingPower)
  <2> SUFFICES ASSUME NEW a \in S
               PROVE  -7 * MaxTotalVotingPower <= f[a] /\ f[a] <= 7 * MaxTotalVotingPower
    BY <1>2 DEF Between
  <2> QED BY <1>1, <1>2, <1>3, Widths
<1> QED BY <1>1, <1>4, <1>5 DEF Ranks

(* One election of a set that has been prepared, and a second one, keep the
   priorities centred and within three times the total. *)
LEMMA ElectionRanks ==
    ASSUME NEW v, Powered(v), v.prio \in [Members(v) -> Int],
           CentredSum(v.prio, Cardinality(Members(v))),
           NEW X \in Int, 0 <= X, X <= 2 * v.totalVotingPower,
           \/ Start(v.prio, X, v.totalVotingPower, Members(v))
           \/ AfterOne(v.prio, v.power, X, v.totalVotingPower, Members(v))
    PROVE  LET u == incrementProposerPriority(v)
           IN  /\ SamePowers(u, v) /\ u.Proposer \in Members(v) /\ Ranks(u, 3)
               /\ Start(v.prio, X, v.totalVotingPower, Members(v)) =>
                     AfterOne(u.prio, v.power, X, v.totalVotingPower, Members(v))
<1>1. PICK S, f, p, T, u : /\ S = Members(v) /\ f = v.prio /\ p = v.power
                           /\ T = v.totalVotingPower /\ u = incrementProposerPriority(v)
  OBVIOUS
<1>2. /\ f \in [S -> Int] /\ T \in Nat /\ Electorate(f, p, T, S)
  BY <1>1, Parts
<1>3. /\ \A a \in S : f[a] \in Int /\ p[a] \in Int /\ 1 <= p[a] /\ p[a] <= T
  BY <1>2, Electors
<1>4. Between(f, -7 * MaxTotalVotingPower, 7 * MaxTotalVotingPower)
  <2>1. \A a \in S : X - 2 * T <= f[a] /\ f[a] <= X + T
    <3>1. CASE Start(f, X, T, S)
      <4>1. \A a \in S : X - 2 * T <= f[a] /\ f[a] <= X
        BY <3>1 DEF Start
      <4> QED BY <1>2, <1>3, <4>1
    <3>2. CASE AfterOne(f, p, X, T, S)
      <4>1. \A a \in S : X - 2 * T <= f[a] /\ f[a] <= X + p[a]
        BY <3>2 DEF AfterOne
      <4> QED BY <1>2, <1>3, <4>1
    <3> QED BY <1>1, <3>1, <3>2
  <2> QED BY <1>1, <2>1, RanksFrom
<1>5. PICK g, w : /\ u = [power |-> p, prio |-> g, Proposer |-> w, totalVotingPower |-> T]
                  /\ Elected(g, f, p, T, w, S)
                  /\ SumOf(g) = SumOf(f)
  BY <1>1, <1>4, Election
<1>6. u.power = p /\ u.prio = g /\ u.Proposer = w /\ u.totalVotingPower = T /\ IsRecord(u)
  BY <1>5 DEF IsRecord
<1>7. SamePowers(u, v) /\ Powered(u) /\ Members(u) = S
  <2>1. SamePowers(u, v)
    BY <1>1, <1>6 DEF SamePowers
  <2> QED BY <1>1, <1>6, <2>1, SameIsPowered DEF Members
<1>8. Electorate(g, p, T, S) /\ w \in S
  BY <1>2, <1>5, Gains
<1>9. g \in [S -> Int] /\ CentredSum(g, Cardinality(S))
  BY <1>1, <1>5, <1>8 DEF Electorate, CentredSum
<1>10. Start(f, X, T, S) => AfterOne(g, p, X, T, S)
  BY <1>2, <1>5, OneElection
<1>11. \A a \in S : X - 2 * T <= g[a] /\ g[a] <= X + T
  <2>1. CASE Start(f, X, T, S)
    <3>1. \A a \in S : X - 2 * T <= g[a] /\ g[a] <= X + p[a]
      BY <1>10, <2>1 DEF AfterOne
    <3>2. \A a \in S : g[a] \in Int
      BY <1>9
    <3> QED BY <1>2, <1>3, <3>1, <3>2
  <2>2. CASE AfterOne(f, p, X, T, S)
    BY <1>2, <1>5, <2>2, TwoElections
  <2> QED BY <1>1, <2>1, <2>2
<1>12. Ranks(u, 3)
  <2>1. /\ u.prio \in [Members(u) -> Int] /\ CentredSum(u.prio, Cardinality(Members(u)))
        /\ X <= 2 * u.totalVotingPower
        /\ \A a \in Members(u) : /\ X - 2 * u.totalVotingPower <= u.prio[a]
                                  /\ u.prio[a] <= X + u.totalVotingPower
    BY <1>1, <1>6, <1>7, <1>9, <1>11
  <2> QED BY <1>7, <2>1, RanksFrom
<1> QED BY <1>1, <1>6, <1>7, <1>8, <1>10, <1>12

(* IncrementProposerPriority, of one election or two. *)
LEMMA IncrementRanks ==
    ASSUME NEW v, Powered(v), v.prio \in [Members(v) -> Int],
           Distance(v.prio) + 2 * v.totalVotingPower - 1 <= MaxInt64, NEW n \in 1 .. 2
    PROVE  LET u == IncrementProposerPriority(v, n)
           IN  SamePowers(u, v) /\ u.Proposer \in Members(v) /\ Ranks(u, 3)
<1>1. PICK s : s = prepared(v)
  OBVIOUS
<1>2. SamePowers(s, v) /\ Ranks(s, 2)
  BY <1>1, Prepared
<1>3. Powered(s) /\ Members(s) = Members(v)
  BY <1>2, SameIsPowered DEF SamePowers, Members
<1>4. PICK X \in Int : /\ 0 <= X /\ X <= 2 * s.totalVotingPower
                       /\ Start(s.prio, X, s.totalVotingPower, Members(s))
  BY <1>2, <1>3, Starts
<1>5. PICK t : t = incrementProposerPriority(s)
  OBVIOUS
<1>6. /\ SamePowers(t, s) /\ t.Proposer \in Members(s) /\ Ranks(t, 3)
      /\ AfterOne(t.prio, s.power, X, s.totalVotingPower, Members(s))
  BY <1>2, <1>3, <1>4, <1>5, ElectionRanks DEF Ranks
<1>7. PICK e : e = elections(s, n)
  OBVIOUS
<1>8. /\ e[0] = s /\ \A i \in 1 .. n : e[i] = incrementProposerPriority(e[i - 1])
  BY <1>7, Loop
<1>9. IncrementProposerPriority(v, n) = e[n]
  BY <1>1, <1>7 DEF IncrementProposerPriority
<1>10. e[1] = t
  BY <1>5, <1>8
<1>11. CASE n = 1
  BY <1>2, <1>3, <1>6, <1>9, <1>10, <1>11 DEF SamePowers
<1>12. CASE n = 2
  <2>1. e[2] = incrementProposerPriority(t)
    BY <1>8, <1>10, <1>12
  <2>2. Powered(t) /\ Members(t) = Members(s)
    BY <1>3, <1>6, SameIsPowered DEF SamePowers, Members
  <2>3. /\ X <= 2 * t.totalVotingPower
        /\ AfterOne(t.prio, t.power, X, t.totalVotingPower, Members(t))
        /\ t.prio \in [Members(t) -> Int] /\ CentredSum(t.prio, Cardinality(Members(t)))
    BY <1>4, <1>6, <2>2 DEF SamePowers, Ranks
  <2>4. /\ SamePowers(e[2], t) /\ e[2].Proposer \in Members(t) /\ Ranks(e[2], 3)
    BY <1>4, <2>1, <2>2, <2>3, ElectionRanks
  <2> QED BY <1>2, <1>3, <1>6, <1>9, <1>12, <2>2, <2>4 DEF SamePowers
<1> QED BY <1>11, <1>12

-----------------------------------------------------------------------------
(* Changes of the set. *)

(* The updates U and the removals D of a list that processChanges and
   verifyRemovals find no fault with, for the members S. *)
Changes(U, D, S) ==
    /\ IsFiniteSet(U) /\ IsFiniteSet(D)
    /\ \A c \in U : c.addr \in Addresses /\ c.power \in 1 .. MaxTotalVotingPower
    /\ \A c \in D : c.addr \in S
    /\ \A c, d \in U : c.addr = d.addr => c = d
    /\ \A c, d \in D : c.addr = d.addr => c = d
    /\ \A c \in U, d \in D : c.addr # d.addr

LEMMA RangeFinite ==
    ASSUME NEW S, IsFiniteSet(S), NEW f, DOMAIN f = S, f = [x \in S |-> f[x]]
    PROVE  IsFiniteSet(RangeOf(f))
<1>1. f \in Surjection(S, RangeOf(f))
  BY DEF Surjection, RangeOf
<1> QED BY <1>1, FS_Surjection

LEMMA Processed ==
    ASSUME NEW v, NEW ch \in Seq(Change), processChanges(ch), verifyRemovals(v, ch)
    PROVE  Changes(updates(ch), deletes(ch), Members(v))
<1>1. /\ Len(ch) \in Nat /\ DOMAIN ch = 1 .. Len(ch) /\ ch = [i \in 1 .. Len(ch) |-> ch[i]]
      /\ \A i \in 1 .. Len(ch) : ch[i] \in Change
  OBVIOUS
<1>2. IsFiniteSet(RangeOf(ch))
  <2>1. IsFiniteSet(1 .. Len(ch))
    <3>1. \A n \in Int : IsFiniteSet(1 .. n)
      BY FS_Interval
    <3> QED BY <1>1, <3>1
  <2> QED BY <1>1, <2>1, RangeFinite
<1>3. IsFiniteSet(updates(ch)) /\ IsFiniteSet(deletes(ch))
  <2>1. updates(ch) \in SUBSET RangeOf(ch) /\ deletes(ch) \in SUBSET RangeOf(ch)
    BY DEF updates, deletes
  <2> QED BY <1>2, <2>1, FS_Subset
<1>4. ASSUME NEW c \in RangeOf(ch), NEW d \in RangeOf(ch), c.addr = d.addr PROVE c = d
  <2>1. PICK i \in 1 .. Len(ch) : c = ch[i]
    BY <1>1 DEF RangeOf
  <2>2. PICK j \in 1 .. Len(ch) : d = ch[j]
    BY <1>1 DEF RangeOf
  <2>3. i # j => ch[i].addr # ch[j].addr
    BY <1>1 DEF processChanges
  <2> QED BY <1>4, <2>1, <2>2, <2>3
<1>5. \A c \in RangeOf(ch) : c.addr \in Addresses /\ c.power \in 0 .. MaxTotalVotingPower
  <2>1. \A i \in 1 .. Len(ch) : /\ ch[i].addr \in Addresses
                                /\ ch[i].power \in 0 .. MaxTotalVotingPower
    BY <1>1 DEF processChanges, Change
  <2> QED BY <1>1, <2>1 DEF RangeOf
<1>6. \A c \in updates(ch) : c \in RangeOf(ch) /\ c.power \in 1 .. MaxTotalVotingPower
  BY <1>5, Widths DEF updates
<1>7. \A c \in deletes(ch) : c \in RangeOf(ch) /\ c.power = 0 /\ c.addr \in Members(v)
  BY DEF deletes, verifyRemovals, addrs
<1>8. \A c \in updates(ch) : c.power # 0
  BY <1>6, Widths
<1>9. \A c \in updates(ch), d \in deletes(ch) : c.addr # d.addr
  BY <1>4, <1>6, <1>7, <1>8
<1> QED BY <1>3, <1>4, <1>5, <1>6, <1>7, <1>9 DEF Changes

(* As many addresses as changes. *)
LEMMA AddrsFinite ==
    ASSUME NEW C, IsFiniteSet(C), \A c, d \in C : c.addr = d.addr => c = d
    PROVE  IsFiniteSet(addrs(C)) /\ Cardinality(addrs(C)) = Cardinality(C)
<1>1. PICK m : m = [c \in C |-> c.addr]
  OBVIOUS
<1>2. m \in Surjection(C, addrs(C))
  BY <1>1 DEF Surjection, addrs
<1>3. m \in Injection(C, addrs(C))
  BY <1>1 DEF Injection, IsInjective, addrs
<1> QED BY <1>2, <1>3, FS_Surjection

(* A function on S, and 0 elsewhere in G. *)
Extended(f, S, G) == [a \in G |-> IF a \in S THEN f[a] ELSE 0]

LEMMA SumExtended ==
    ASSUME NEW G, IsFiniteSet(G), NEW S \in SUBSET G, NEW f \in [S -> Int]
    PROVE  Extended(f, S, G) \in [G -> Int] /\ SumOf(Extended(f, S, G)) = SumOf(f)
<1>1. PICK e : e = Extended(f, S, G)
  OBVIOUS
<1>2. e \in [G -> Int] /\ (\A a \in G \ S : e[a] = 0) /\ Part(e, S) = f
  BY <1>1 DEF Extended, Part
<1>3. SumOf(e) = SumOf(Part(e, S))
  BY <1>2, SumZeros
<1> QED BY <1>1, <1>2, <1>3

(* The powers q after a change of p, with what is removed (r) and what the
   updates add (d), everything 0 where it is not defined. *)
Moves(q, r, p, d, G) ==
    /\ IsFiniteSet(G)
    /\ q \in [G -> Int] /\ r \in [G -> Int] /\ p \in [G -> Int] /\ d \in [G -> Int]
    /\ \A a \in G : q[a] + r[a] = p[a] + d[a]

LEMMA SumMoves ==
    ASSUME NEW G, NEW q, NEW r, NEW p, NEW d, Moves(q, r, p, d, G)
    PROVE  SumOf(q) + SumOf(r) = SumOf(p) + SumOf(d)
<1>1. PICK h : h = [a \in G |-> q[a] + r[a]]
  OBVIOUS
<1>2. h = [a \in G |-> p[a] + d[a]]
  BY <1>1 DEF Moves
<1>3. AddsUp(h, q, r, G)
  BY <1>1 DEF Moves, AddsUp
<1>4. AddsUp(h, p, d, G)
  BY <1>2 DEF Moves, AddsUp
<1>5. SumOf(h) = SumOf(q) + SumOf(r)
  BY <1>3, SumAdd
<1>6. SumOf(h) = SumOf(p) + SumOf(d)
  BY <1>4, SumAdd
<1> QED BY <1>5, <1>6

(* A sum over changes is one over their addresses. *)
LEMMA SumAddrs ==
    ASSUME NEW C, IsFiniteSet(C), \A c, d \in C : c.addr = d.addr => c = d,
           NEW S, IsFiniteSet(S), addrs(C) \in SUBSET S, NEW f \in [S -> Int],
           NEW h, h = [c \in C |-> f[c.addr]]
    PROVE  SumOf(h) = SumOf(Part(f, addrs(C)))
<1>1. PICK m : m = [c \in C |-> c.addr]
  OBVIOUS
<1>2. /\ m \in [C -> S] /\ (\A c, d \in C : m[c] = m[d] => c = d)
      /\ h = [c \in C |-> f[m[c]]] /\ {m[c] : c \in C} = addrs(C)
  BY <1>1 DEF addrs
<1> QED BY <1>2, SumMap

(* q are the powers after a change of p, removed those of the members that are
   removed, and added what the updates add. *)
Accounts(q, removed, added, p, U, D, S) ==
    /\ IsFiniteSet(S) /\ p \in [S -> Int] /\ Changes(U, D, S)
    /\ q \in [(S \cup addrs(U)) \ addrs(D) -> Int]
    /\ \A c \in U : q[c.addr] = c.power
    /\ \A a \in S \ (addrs(U) \cup addrs(D)) : q[a] = p[a]
    /\ removed = [c \in D |-> p[c.addr]]
    /\ added = [c \in U |-> IF c.addr \in S THEN c.power - p[c.addr] ELSE c.power]

(* What a change of the set does to the total: the powers of the new members
   add up to the old total less what is removed and with what the updates add. *)
LEMMA NewTotal ==
    ASSUME NEW S, NEW p, NEW U, NEW D, NEW q, NEW removed, NEW added,
           Accounts(q, removed, added, p, U, D, S)
    PROVE  /\ SumOf(removed) \in Int /\ SumOf(added) \in Int
           /\ SumOf(q) + SumOf(removed) = SumOf(p) + SumOf(added)
<1>a. /\ IsFiniteSet(S) /\ p \in [S -> Int] /\ Changes(U, D, S)
      /\ \A c \in U : q[c.addr] = c.power
  BY DEF Accounts
<1>b. removed = [c \in D |-> p[c.addr]]
  BY DEF Accounts
<1>c. added = [c \in U |-> IF c.addr \in S THEN c.power - p[c.addr] ELSE c.power]
  BY DEF Accounts
<1>0. /\ IsFiniteSet(U) /\ IsFiniteSet(D)
      /\ \A c \in U : c.addr \in Addresses /\ c.power \in Int
      /\ \A c \in D : c.addr \in S
      /\ \A c, d \in U : c.addr = d.addr => c = d
      /\ \A c, d \in D : c.addr = d.addr => c = d
      /\ \A c \in U, d \in D : c.addr # d.addr
  BY <1>a, Widths DEF Changes
<1>1. PICK AU, AD : AU = addrs(U) /\ AD = addrs(D)
  OBVIOUS
<1>2. IsFiniteSet(AU) /\ IsFiniteSet(AD)
  BY <1>0, <1>1, AddrsFinite
<1>3. AD \subseteq S /\ \A a \in AU : a \notin AD
  BY <1>0, <1>1 DEF addrs
<1>4. PICK G : G = S \cup AU
  OBVIOUS
<1>5. IsFiniteSet(G)
  BY <1>a, <1>2, <1>4, FS_Union
<1>6. PICK N : N = G \ AD
  OBVIOUS
<1>7. q \in [N -> Int] /\ \A a \in S : a \notin AU /\ a \notin AD => q[a] = p[a]
  BY <1>1, <1>4, <1>6 DEF Accounts
<1>8. PICK P, Q : P = Extended(p, S, G) /\ Q = Extended(q, N, G)
  OBVIOUS
<1>9. /\ P \in [G -> Int] /\ SumOf(P) = SumOf(p)
      /\ Q \in [G -> Int] /\ SumOf(Q) = SumOf(q)
  <2>1. S \in SUBSET G /\ N \in SUBSET G
    BY <1>4, <1>6
  <2> QED BY <1>a, <1>5, <1>7, <1>8, <2>1, SumExtended
<1>10. \A a \in G : /\ P[a] = (IF a \in S THEN p[a] ELSE 0)
                    /\ Q[a] = (IF a \in AD THEN 0 ELSE q[a])
  <2>1. \A a \in G : P[a] = (IF a \in S THEN p[a] ELSE 0)
    BY <1>8 DEF Extended
  <2>2. \A a \in G : Q[a] = (IF a \in AD THEN 0 ELSE q[a])
    BY <1>6, <1>8 DEF Extended
  <2> QED BY <2>1, <2>2
<1>11. PICK r : r = Part(p, AD)
  OBVIOUS
<1>12. PICK R : R = Extended(r, AD, G)
  OBVIOUS
<1>13. /\ r \in [AD -> Int] /\ R \in [G -> Int] /\ SumOf(R) = SumOf(r)
       /\ \A a \in G : R[a] = IF a \in AD THEN p[a] ELSE 0
  <2>1. r \in [AD -> Int] /\ AD \in SUBSET G
    BY <1>a, <1>3, <1>4, <1>11 DEF Part
  <2>2. R \in [G -> Int] /\ SumOf(R) = SumOf(r)
    BY <1>5, <1>12, <2>1, SumExtended
  <2>3. \A a \in G : R[a] = IF a \in AD THEN p[a] ELSE 0
    BY <1>11, <1>12 DEF Extended, Part
  <2> QED BY <2>1, <2>2, <2>3
<1>14. SumOf(removed) = SumOf(r)
  <2>1. addrs(D) \in SUBSET S
    BY <1>1, <1>3
  <2> QED BY <1>a, <1>b, <1>0, <1>1, <1>11, <2>1, SumAddrs
<1>15. PICK E : E = [a \in G |-> IF a \in AU THEN q[a] - P[a] ELSE 0]
  OBVIOUS
<1>16. E \in [G -> Int] /\ (\A a \in G \ AU : E[a] = 0) /\ AU \in SUBSET G
  <2>1. \A a \in AU : a \in G /\ a \in N
    BY <1>3, <1>4, <1>6
  <2> QED BY <1>7, <1>9, <1>15, <2>1
<1>17. SumOf(added) = SumOf(E)
  <2>1. added = [c \in U |-> E[c.addr]]
    <3>1. ASSUME NEW c \in U
          PROVE  E[c.addr] = IF c.addr \in S THEN c.power - p[c.addr] ELSE c.power
      <4>1. c.addr \in AU /\ c.addr \in G
        BY <1>1, <1>4 DEF addrs
      <4>4. q[c.addr] = c.power
        BY <1>a
      <4>5. E[c.addr] = q[c.addr] - P[c.addr]
        BY <1>15, <4>1
      <4>6. P[c.addr] = (IF c.addr \in S THEN p[c.addr] ELSE 0)
        BY <1>10, <4>1
      <4>2. E[c.addr] = c.power - P[c.addr] /\ P[c.addr] = (IF c.addr \in S THEN p[c.addr] ELSE 0)
        BY <4>4, <4>5, <4>6
      <4>3. c.power \in Int
        BY <1>0
      <4> QED BY <4>2, <4>3
    <3> QED BY <1>c, <3>1
  <2>2. SumOf(added) = SumOf(Part(E, AU))
    BY <1>0, <1>1, <1>5, <1>16, <2>1, SumAddrs
  <2>3. SumOf(E) = SumOf(Part(E, AU))
    BY <1>5, <1>16, SumZeros
  <2> QED BY <2>2, <2>3
<1>18. Moves(Q, R, P, E, G)
  <2>1. ASSUME NEW a \in G PROVE Q[a] + R[a] = P[a] + E[a]
    <3>5. E[a] = (IF a \in AU THEN q[a] - P[a] ELSE 0)
      BY <1>15
    <3>6. /\ P[a] \in Int /\ Q[a] \in Int /\ R[a] \in Int /\ E[a] \in Int
      BY <1>9, <1>13, <1>16
    <3>1. /\ P[a] = (IF a \in S THEN p[a] ELSE 0)
          /\ Q[a] = (IF a \in AD THEN 0 ELSE q[a])
          /\ R[a] = (IF a \in AD THEN p[a] ELSE 0)
          /\ E[a] = (IF a \in AU THEN q[a] - P[a] ELSE 0)
          /\ P[a] \in Int /\ Q[a] \in Int /\ R[a] \in Int /\ E[a] \in Int
      BY <1>10, <1>13, <3>5, <3>6
    <3>2. CASE a \in AD
      <4>1. a \in S /\ a \notin AU
        BY <1>3, <3>2
      <4> QED BY <3>1, <3>2, <4>1
    <3>3. CASE a \in AU
      <4>1. a \notin AD
        BY <1>3, <3>3
      <4> QED BY <3>1, <3>3, <4>1
    <3>4. CASE a \notin AU /\ a \notin AD
      <4>1. a \in S /\ q[a] = p[a]
        BY <1>4, <1>7, <3>4
      <4> QED BY <3>1, <3>4, <4>1
    <3> QED BY <3>2, <3>3, <3>4
  <2> QED BY <1>5, <1>9, <1>13, <1>16, <2>1 DEF Moves
<1>19. SumOf(Q) + SumOf(R) = SumOf(P) + SumOf(E)
  BY <1>18, SumMoves
<1>20. SumOf(R) \in Int /\ SumOf(E) \in Int
  BY <1>5, <1>13, <1>16, SumInt
<1> QED BY <1>9, <1>13, <1>14, <1>17, <1>19, <1>20

(* Sums of what is not negative. *)
LEMMA SumNat ==
    ASSUME NEW S, IsFiniteSet(S), NEW f \in [S -> Int], \A a \in S : f[a] >= 0
    PROVE  SumOf(f) \in Nat
<1>1. PICK z : z = [a \in S |-> 0]
  OBVIOUS
<1>2. SumOf(z) = 0 * Cardinality(S) /\ Cardinality(S) \in Nat
  BY <1>1, SumConst, FS_CardinalityType
<1>3. z \in [S -> Int] /\ \A a \in S : z[a] <= f[a]
  BY <1>1
<1>4. SumOf(z) <= SumOf(f) /\ SumOf(f) \in Int
  BY <1>3, SumMono, SumInt
<1> QED BY <1>2, <1>4

(* The powers that are removed are part of the total. *)
LEMMA RemovedPart ==
    ASSUME NEW S, NEW p, NEW U, NEW D, NEW q, NEW removed, NEW added,
           Accounts(q, removed, added, p, U, D, S), \A a \in S : p[a] >= 0
    PROVE  0 <= SumOf(removed) /\ SumOf(removed) <= SumOf(p)
<1>1. /\ IsFiniteSet(S) /\ p \in [S -> Int] /\ Changes(U, D, S)
  BY DEF Accounts
<1>2. removed = [c \in D |-> p[c.addr]]
  BY DEF Accounts
<1>3. /\ IsFiniteSet(D) /\ addrs(D) \in SUBSET S
      /\ \A c, d \in D : c.addr = d.addr => c = d
  BY <1>1 DEF Changes, addrs
<1>4. SumOf(removed) = SumOf(Part(p, addrs(D)))
  BY <1>1, <1>2, <1>3, SumAddrs
<1>5. ASSUME NEW R \in SUBSET S PROVE SumOf(Part(p, R)) \in Nat
  <2>1. /\ IsFiniteSet(R) /\ Part(p, R) \in [R -> Int] /\ \A a \in R : Part(p, R)[a] >= 0
    BY <1>1, FS_Subset DEF Part
  <2> QED BY <2>1, SumNat
<1>6. PICK R : R = addrs(D)
  OBVIOUS
<1>7. SumOf(p) = SumOf(Part(p, R)) + SumOf(Part(p, S \ R))
  BY <1>1, <1>3, <1>6, SumParts
<1>8. SumOf(Part(p, R)) \in Nat /\ SumOf(Part(p, S \ R)) \in Nat
  BY <1>3, <1>5, <1>6
<1> QED BY <1>4, <1>6, <1>7, <1>8

(* Like Powered, of a set that may be empty. *)
Counted(v) ==
    /\ IsRecord(v)
    /\ IsFiniteSet(Members(v)) /\ Members(v) \subseteq Addresses
    /\ v.power \in [Members(v) -> 1 .. MaxTotalVotingPower]
    /\ v.totalVotingPower = SumOf(v.power)
    /\ v.totalVotingPower <= MaxTotalVotingPower

(* The members after a change, and their powers. *)
newMembers(v, ch) == (Members(v) \cup addrs(updates(ch))) \ addrs(deletes(ch))
newPowers(v, ch) == [a \in newMembers(v, ch) |-> newPower(v, ch, a)]

(* The new powers are accounted for. *)
LEMMA NewAccounts ==
    ASSUME NEW v, Counted(v), NEW ch, Changes(updates(ch), deletes(ch), Members(v))
    PROVE  /\ newPowers(v, ch) \in [newMembers(v, ch) -> 1 .. MaxTotalVotingPower]
           /\ Accounts(newPowers(v, ch), [c \in deletes(ch) |-> v.power[c.addr]],
                       [c \in updates(ch) |-> delta(v, c)],
                       v.power, updates(ch), deletes(ch), Members(v))
<1>1. PICK S, p, U, D, q : /\ S = Members(v) /\ p = v.power /\ U = updates(ch)
                           /\ D = deletes(ch) /\ q = newPowers(v, ch)
  OBVIOUS
<1>2. /\ IsFiniteSet(S) /\ p \in [S -> 1 .. MaxTotalVotingPower] /\ Changes(U, D, S)
  BY <1>1 DEF Counted
<1>3. 1 .. MaxTotalVotingPower \subseteq Int
  BY Widths
<1>4. p \in [S -> Int]
  BY <1>2, <1>3
<1>5. PICK N : N = newMembers(v, ch)
  OBVIOUS
<1>6. N = (S \cup addrs(U)) \ addrs(D)
  BY <1>1, <1>5 DEF newMembers
<1>7. \A a \in N : q[a] = IF a \in addrs(U) THEN (CHOOSE c \in U : c.addr = a).power ELSE p[a]
  BY <1>1, <1>5 DEF newPowers, newPower
<1>8. ASSUME NEW c \in U
      PROVE  /\ c.addr \in N /\ c.addr \in addrs(U) /\ q[c.addr] = c.power
             /\ c.power \in 1 .. MaxTotalVotingPower
  <2>1. /\ c.addr \in addrs(U) /\ c.addr \notin addrs(D)
        /\ c.power \in 1 .. MaxTotalVotingPower
        /\ \A d \in U : d.addr = c.addr => d = c
    BY <1>2 DEF Changes, addrs
  <2>2. (CHOOSE d \in U : d.addr = c.addr) = c
    BY <2>1
  <2> QED BY <1>6, <1>7, <2>1, <2>2
<1>9. ASSUME NEW a \in N PROVE q[a] \in 1 .. MaxTotalVotingPower
  <2>1. CASE a \in addrs(U)
    <3>1. PICK c \in U : c.addr = a
      BY <2>1 DEF addrs
    <3> QED BY <1>8, <3>1
  <2>2. CASE a \notin addrs(U)
    <3>1. a \in S /\ q[a] = p[a]
      BY <1>6, <1>7, <2>2
    <3> QED BY <1>2, <3>1
  <2> QED BY <2>1, <2>2
<1>10. q \in [N -> 1 .. MaxTotalVotingPower] /\ q \in [N -> Int]
  <2>1. q = [a \in N |-> q[a]]
    BY <1>1, <1>5 DEF newPowers
  <2> QED BY <1>3, <1>9, <2>1
<1>11. \A a \in S \ (addrs(U) \cup addrs(D)) : q[a] = p[a]
  BY <1>6, <1>7
<1>12. PICK removed, added : /\ removed = [c \in deletes(ch) |-> v.power[c.addr]]
                             /\ added = [c \in updates(ch) |-> delta(v, c)]
  OBVIOUS
<1>13. removed = [c \in D |-> p[c.addr]]
  BY <1>1, <1>12
<1>14. added = [c \in U |-> IF c.addr \in S THEN c.power - p[c.addr] ELSE c.power]
  BY <1>1, <1>12 DEF delta
<1>15. Accounts(q, removed, added, p, U, D, S)
  BY <1>2, <1>4, <1>6, <1>8, <1>10, <1>11, <1>13, <1>14 DEF Accounts
<1> QED BY <1>1, <1>5, <1>10, <1>12, <1>15

(* Somebody is left. *)
LEMMA SomebodyLeft ==
    ASSUME NEW v, Counted(v), NEW ch, Changes(updates(ch), deletes(ch), Members(v)),
           ~ leavesEmpty(v, ch)
    PROVE  newMembers(v, ch) # {}
<1>1. PICK S, U, D : S = Members(v) /\ U = updates(ch) /\ D = deletes(ch)
  OBVIOUS
<1>2. IsFiniteSet(S) /\ Changes(U, D, S)
  BY <1>1 DEF Counted
<1>3. ~ (addrs(U) \subseteq S /\ Cardinality(S) = Cardinality(D))
  BY <1>1 DEF leavesEmpty
<1>4. addrs(D) \in SUBSET S /\ \A a \in addrs(U) : a \notin addrs(D)
  BY <1>2 DEF Changes, addrs
<1>5. newMembers(v, ch) = (S \cup addrs(U)) \ addrs(D)
  BY <1>1 DEF newMembers
<1>6. CASE ~ (addrs(U) \subseteq S)
  BY <1>4, <1>5, <1>6
<1>7. CASE Cardinality(S) # Cardinality(D)
  <2>1. Cardinality(addrs(D)) = Cardinality(D)
    BY <1>2, AddrsFinite DEF Changes
  <2>2. addrs(D) # S
    BY <1>7, <2>1
  <2> QED BY <1>4, <1>5, <2>2
<1> QED BY <1>3, <1>6, <1>7

(* What accepts says of the changes. *)
LEMMA AcceptedChanges ==
    ASSUME NEW v, Counted(v), NEW ch \in Seq(Change), NEW d, accepts(v, ch, d)
    PROVE  /\ Changes(updates(ch), deletes(ch), Members(v))
           /\ IsFiniteSet(newMembers(v, ch)) /\ newMembers(v, ch) # {}
           /\ newMembers(v, ch) \subseteq Addresses
<1>1. processChanges(ch) /\ verifyRemovals(v, ch) /\ ~ leavesEmpty(v, ch)
  BY DEF accepts
<1>2. Changes(updates(ch), deletes(ch), Members(v))
  BY <1>1, Processed
<1>3. newMembers(v, ch) # {}
  BY <1>1, <1>2, SomebodyLeft
<1>4. IsFiniteSet(newMembers(v, ch))
  <2>1. IsFiniteSet(addrs(updates(ch))) /\ IsFiniteSet(Members(v))
    BY <1>2, AddrsFinite DEF Changes, Counted
  <2>2. IsFiniteSet(Members(v) \cup addrs(updates(ch)))
    BY <2>1, FS_Union
  <2>3. newMembers(v, ch) \in SUBSET (Members(v) \cup addrs(updates(ch)))
    BY DEF newMembers
  <2> QED BY <2>2, <2>3, FS_Subset
<1>5. newMembers(v, ch) \subseteq Addresses
  BY <1>2 DEF Changes, Counted, newMembers, addrs
<1> QED BY <1>2, <1>3, <1>4, <1>5

(* The total after a change, and before its removals. *)
LEMMA AcceptedTotal ==
    ASSUME NEW v, Counted(v), NEW ch \in Seq(Change), NEW d, accepts(v, ch, d)
    PROVE  /\ SumOf(newPowers(v, ch)) \in Nat
           /\ SumOf(newPowers(v, ch)) <= MaxTotalVotingPower
           /\ tvpAfterUpdatesBeforeRemovals(v, ch) \in Nat
           /\ tvpAfterUpdatesBeforeRemovals(v, ch) <= 2 * MaxTotalVotingPower
<1>1. PICK p, q, T : p = v.power /\ q = newPowers(v, ch) /\ T = v.totalVotingPower
  OBVIOUS
<1>2. PICK r, s : r = removedPower(v, ch) /\ s = deltas(v, updates(ch))
  OBVIOUS
<1>3. PICK removed, added : /\ removed = [c \in deletes(ch) |-> v.power[c.addr]]
                            /\ added = [c \in updates(ch) |-> delta(v, c)]
  OBVIOUS
<1>4. r = SumOf(removed) /\ s = SumOf(added)
  BY <1>2, <1>3 DEF removedPower, deltas
<1>5. Accounts(q, removed, added, p, updates(ch), deletes(ch), Members(v))
  BY <1>1, <1>3, AcceptedChanges, NewAccounts
<1>6. r \in Int /\ s \in Int /\ SumOf(q) + r = SumOf(p) + s
  BY <1>4, <1>5, NewTotal
<1>7. /\ IsFiniteSet(Members(v)) /\ p \in [Members(v) -> Int]
      /\ (\A a \in Members(v) : p[a] >= 0)
      /\ T = SumOf(p) /\ T <= MaxTotalVotingPower
  <2>1. p \in [Members(v) -> 1 .. MaxTotalVotingPower]
    BY <1>1 DEF Counted
  <2>2. \A a \in Members(v) : p[a] \in Int /\ p[a] >= 0
    BY <2>1, Widths
  <2> QED BY <1>1, <2>1, <2>2 DEF Counted
<1>8. 0 <= r /\ r <= SumOf(p)
  BY <1>4, <1>5, <1>7, RemovedPart
<1>9. SumOf(p) \in Nat
  BY <1>7, SumNat
<1>10. SumOf(q) \in Nat
  <2>1. PICK N : N = newMembers(v, ch)
    OBVIOUS
  <2>2. IsFiniteSet(N) /\ q \in [N -> 1 .. MaxTotalVotingPower]
    BY <1>1, <2>1, AcceptedChanges, NewAccounts
  <2>3. q \in [N -> Int] /\ \A a \in N : q[a] >= 0
    BY <2>2, Widths
  <2> QED BY <2>2, <2>3, SumNat
<1>11. T - r + s <= MaxTotalVotingPower
  <2>1. CASE updates(ch) = {}
    <3>1. s = 0
      BY <1>3, <1>4, <2>1, SumEmpty
    <3> QED BY <1>6, <1>7, <1>8, <1>9, <3>1, Widths
  <2>2. CASE updates(ch) # {}
    <3>1. verifyUpdates(v, ch)
      BY DEF accepts
    <3>2. updates(ch) \in (SUBSET updates(ch)) \ {{}}
      BY <2>2
    <3>3. v.totalVotingPower - removedPower(v, ch) + deltas(v, updates(ch)) <= MaxTotalVotingPower
      BY <3>1, <3>2 DEF verifyUpdates
    <3> QED BY <1>1, <1>2, <3>3
  <2> QED BY <2>1, <2>2
<1>12. SumOf(q) <= MaxTotalVotingPower
  BY <1>6, <1>7, <1>9, <1>10, <1>11, Widths
<1>13. tvpAfterUpdatesBeforeRemovals(v, ch) = T + s
  BY <1>1, <1>2 DEF tvpAfterUpdatesBeforeRemovals
<1>14. T + s \in Nat /\ T + s <= 2 * MaxTotalVotingPower
  BY <1>6, <1>7, <1>8, <1>9, <1>10, <1>12, Widths
<1> QED BY <1>1, <1>10, <1>12, <1>13, <1>14

(* The priorities after a change, before they are scaled and centred. *)
newPriorities(v, ch) == [a \in newMembers(v, ch) |-> newPriority(v, ch, a)]

LEMMA ApplyRecord ==
    ASSUME NEW v, IsRecord(v), NEW ch
    PROVE  applyChanges(v, ch) =
             [power |-> newPowers(v, ch),
              prio |-> shiftByAvgProposerPriority(
                         RescalePriorities(newPriorities(v, ch), 2 * SumOf(newPowers(v, ch)))),
              Proposer |-> v.Proposer,
              totalVotingPower |-> SumOf(newPowers(v, ch))]
<1>1. PICK q, t, f : /\ q = newPowers(v, ch) /\ t = SumOf(newPowers(v, ch))
                     /\ f = shiftByAvgProposerPriority(
                              RescalePriorities(newPriorities(v, ch), 2 * SumOf(newPowers(v, ch))))
  OBVIOUS
<1>2. applyChanges(v, ch) = [v EXCEPT !.power = q, !.prio = f, !.totalVotingPower = t]
  BY <1>1 DEF applyChanges, newPowers, newPriorities, newMembers, PriorityWindowSizeFactor
<1>3. PICK x, y, z, w : v = [power |-> x, prio |-> y, Proposer |-> z, totalVotingPower |-> w]
  BY DEF IsRecord
<1>4. v.Proposer = z
  BY <1>3
<1>5. PICK u : u = [v EXCEPT !.power = q, !.prio = f, !.totalVotingPower = t]
  OBVIOUS
<1>6. /\ DOMAIN u = {"power", "prio", "Proposer", "totalVotingPower"}
      /\ u = [i \in DOMAIN u |-> u[i]]
      /\ u.power = q /\ u.prio = f /\ u.Proposer = z /\ u.totalVotingPower = t
  BY <1>3, <1>5
<1>7. u = [power |-> q, prio |-> f, Proposer |-> z, totalVotingPower |-> t]
  BY <1>6
<1> QED BY <1>1, <1>2, <1>4, <1>5, <1>7

(* A change that is accepted leaves members with powers that add up to the
   cached total, within the bound. *)
LEMMA ChangePowered ==
    ASSUME NEW v, Counted(v), NEW ch \in Seq(Change), NEW d, accepts(v, ch, d)
    PROVE  /\ Powered(applyChanges(v, ch))
           /\ Members(applyChanges(v, ch)) = newMembers(v, ch)
<1>1. PICK u : u = applyChanges(v, ch)
  OBVIOUS
<1>2. /\ u.power = newPowers(v, ch) /\ u.totalVotingPower = SumOf(newPowers(v, ch))
      /\ IsRecord(u)
  BY <1>1, ApplyRecord DEF Counted, IsRecord
<1>3. newPowers(v, ch) \in [newMembers(v, ch) -> 1 .. MaxTotalVotingPower]
  BY AcceptedChanges, NewAccounts
<1>4. Members(u) = newMembers(v, ch)
  BY <1>2 DEF Members, newPowers
<1> QED BY <1>1, <1>2, <1>3, <1>4, AcceptedChanges, AcceptedTotal DEF Powered

(* Like Ranks, of the priorities of a set that a change is applied to. *)
Moderate(v) ==
    /\ v.prio \in [Members(v) -> Int]
    /\ Between(v.prio, -3 * MaxTotalVotingPower, 3 * MaxTotalVotingPower)

(* It leaves the priorities centred and within the window. *)
LEMMA ChangeRanks ==
    ASSUME NEW v, Counted(v), Moderate(v), NEW ch \in Seq(Change), NEW d, accepts(v, ch, d)
    PROVE  Ranks(applyChanges(v, ch), 2)
<1>1. PICK u, N, f, T, t, m : /\ u = applyChanges(v, ch) /\ N = newMembers(v, ch)
                              /\ f = newPriorities(v, ch) /\ T = SumOf(newPowers(v, ch))
                              /\ t = tvpAfterUpdatesBeforeRemovals(v, ch) /\ m = 2 * T
  OBVIOUS
<1>2. /\ IsFiniteSet(N) /\ N # {} /\ N \in SUBSET Int
  <2>1. IsFiniteSet(N) /\ N # {} /\ N \subseteq Addresses
    BY <1>1, AcceptedChanges
  <2>2. Addresses \subseteq Int
    BY SetAssumption
  <2> QED BY <2>1, <2>2
<1>3. /\ T \in Nat /\ T <= MaxTotalVotingPower /\ t \in Nat /\ t <= 2 * MaxTotalVotingPower
  BY <1>1, AcceptedTotal
<1>4. T >= 1
  <2>1. Powered(u) /\ u.totalVotingPower = T
    BY <1>1, ChangePowered, ApplyRecord DEF Counted
  <2> QED BY <2>1, Parts
<1>5. ASSUME NEW a \in N
      PROVE  /\ f[a] \in Int /\ -3 * MaxTotalVotingPower <= f[a]
             /\ f[a] <= 3 * MaxTotalVotingPower
  <2>1. f[a] = IF a \in Members(v) THEN v.prio[a] ELSE -(t + t \div 8)
    BY <1>1 DEF newPriorities, newPriority
  <2>2. CASE a \in Members(v)
    BY <2>1, <2>2 DEF Moderate, Between
  <2>3. CASE a \notin Members(v)
    <3>1. t \div 8 \in Int /\ 0 <= t \div 8 /\ 8 * (t \div 8) <= t
      BY <1>3
    <3> QED BY <1>3, <2>1, <2>3, <3>1, Widths
  <2> QED BY <2>2, <2>3
<1>6. f \in [N -> Int]
  <2>1. f = [a \in N |-> f[a]]
    BY <1>1 DEF newPriorities
  <2> QED BY <1>5, <2>1
<1>7. Distance(f) \in Nat /\ Distance(f) <= 6 * MaxTotalVotingPower
  <2>1. Spread(f, 6 * MaxTotalVotingPower)
    <3>1. DOMAIN f = N
      BY <1>6
    <3> SUFFICES ASSUME NEW a \in N, NEW b \in N PROVE f[a] - f[b] <= 6 * MaxTotalVotingPower
      BY <3>1 DEF Spread
    <3> QED BY <1>5, Widths
  <2>2. 6 * MaxTotalVotingPower \in Int
    BY Widths
  <2> QED BY <1>2, <1>6, <2>1, <2>2, DistanceSpread
<1>8. m \in Nat /\ m >= 1 /\ m <= MaxInt64 /\ Distance(f) + m - 1 <= MaxInt64
  <2>1. m = 2 * T
    BY <1>1
  <2> QED BY <1>3, <1>4, <1>7, <2>1, Widths
<1>9. PICK g : g = RescalePriorities(f, m)
  OBVIOUS
<1>10. g \in [N -> Int] /\ Spread(g, m)
  BY <1>2, <1>6, <1>8, <1>9, Rescaled
<1>11. PICK h : h = shiftByAvgProposerPriority(g)
  OBVIOUS
<1>12. h \in [N -> Int] /\ Spread(h, m) /\ CentredSum(h, Cardinality(N))
  BY <1>2, <1>8, <1>10, <1>11, Shifted
<1>13. u.prio = h /\ u.totalVotingPower = T
  BY <1>1, <1>9, <1>11, ApplyRecord DEF Counted
<1>14. Members(u) = N
  BY <1>1, ChangePowered
<1> QED BY <1>1, <1>12, <1>13, <1>14 DEF Ranks

-----------------------------------------------------------------------------
(* The specification. *)

LEMMA EmptyCounted == Counted(EmptySet) /\ Moderate(EmptySet) /\ IsRecord(EmptySet)
<1>1. /\ EmptySet.power = [a \in {} |-> 0] /\ EmptySet.prio = [a \in {} |-> 0]
      /\ EmptySet.totalVotingPower = 0 /\ IsRecord(EmptySet)
  BY DEF EmptySet, IsRecord
<1>2. Members(EmptySet) = {} /\ IsFiniteSet(Members(EmptySet))
  BY <1>1, FS_EmptySet DEF Members
<1>3. SumOf(EmptySet.power) = 0
  BY <1>1, SumEmpty
<1>4. EmptySet.power \in [Members(EmptySet) -> 1 .. MaxTotalVotingPower]
  BY <1>1, <1>2
<1>5. EmptySet.prio \in [Members(EmptySet) -> Int] /\ DOMAIN EmptySet.prio = {}
  BY <1>1, <1>2
<1> QED BY <1>1, <1>2, <1>3, <1>4, <1>5, Widths DEF Counted, Moderate, Between

LEMMA PoweredCounted == ASSUME NEW v, Powered(v) PROVE Counted(v)
BY DEF Powered, Counted

LEMMA InitialSet ==
    ASSUME Init
    PROVE  \E ch \in Seq(Change) :
              /\ accepts(EmptySet, ch, FALSE)
              /\ vals = IncrementProposerPriority(applyChanges(EmptySet, ch), 1)
<1>1. PICK ch \in Genesis : /\ Len(ch) > 0 /\ accepts(EmptySet, ch, FALSE)
                            /\ vals = NewValidatorSet(ch)
  BY DEF Init
<1>2. ch \in Seq(Change)
  BY <1>1, SetAssumption
<1> QED BY <1>1, <1>2 DEF NewValidatorSet, updateWithChangeSet

(* The steps of the specification, as changes of the set. *)
LEMMA Steps ==
    ASSUME [Next]_vals
    PROVE  \/ vals' = vals
           \/ \E n \in 1 .. MaxTimes : vals' = IncrementProposerPriority(vals, n)
           \/ \E ch \in Seq(Change) :
                 accepts(vals, ch, TRUE) /\ vals' = applyChanges(vals, ch)
           \/ FromExistingValidators
<1>1. CASE \E n \in 1 .. MaxTimes : Increment(n)
  BY <1>1 DEF Increment
<1>2. CASE \E ch \in ChangeSets : UpdateWithChangeSet(ch)
  <2>1. PICK ch \in ChangeSets : vals' = updateWithChangeSet(vals, ch, TRUE)
    BY <1>2 DEF UpdateWithChangeSet
  <2>2. ch \in Seq(Change)
    BY SetAssumption
  <2> QED BY <2>1, <2>2 DEF updateWithChangeSet
<1>3. CASE FromExistingValidators
  BY <1>3
<1>4. CASE UNCHANGED vals
  BY <1>4
<1> QED BY <1>1, <1>2, <1>3, <1>4 DEF Next

LEMMA Rebuilt ==
    ASSUME Powered(vals), FromExistingValidators
    PROVE  /\ SamePowers(vals', vals) /\ vals'.prio = vals.prio
           /\ vals'.Proposer = findPreviousProposer(vals.prio)
<1>1. PICK p, q, r, t : vals = [power |-> p, prio |-> q, Proposer |-> r, totalVotingPower |-> t]
  BY DEF Powered, IsRecord
<1>2. PICK w, x : /\ w = findPreviousProposer(vals.prio) /\ x = SumOf(vals.power)
  OBVIOUS
<1>3. vals' = [vals EXCEPT !.Proposer = w, !.totalVotingPower = x]
  BY <1>2 DEF FromExistingValidators
<1>4. PICK u : u = [vals EXCEPT !.Proposer = w, !.totalVotingPower = x]
  OBVIOUS
<1>5. /\ DOMAIN u = {"power", "prio", "Proposer", "totalVotingPower"}
      /\ u = [i \in DOMAIN u |-> u[i]]
      /\ u.power = p /\ u.prio = q /\ u.Proposer = w /\ u.totalVotingPower = x
  BY <1>1, <1>4
<1>6. u = [power |-> p, prio |-> q, Proposer |-> w, totalVotingPower |-> x]
  BY <1>5
<1>7. vals.power = p /\ vals.prio = q /\ vals.totalVotingPower = x
  BY <1>1, <1>2 DEF Powered
<1> QED BY <1>2, <1>3, <1>4, <1>5, <1>6, <1>7 DEF SamePowers, IsRecord

LEMMA PoweredInit == ASSUME Init PROVE Powered(vals)
<1>1. PICK ch \in Seq(Change) :
          /\ accepts(EmptySet, ch, FALSE)
          /\ vals = IncrementProposerPriority(applyChanges(EmptySet, ch), 1)
  BY InitialSet
<1>2. PICK s : s = applyChanges(EmptySet, ch)
  OBVIOUS
<1>3. Powered(s)
  BY <1>1, <1>2, EmptyCounted, ChangePowered
<1>4. SamePowers(IncrementProposerPriority(s, 1), s)
  BY <1>3, IncrementKeepsPowers DEF Powered
<1> QED BY <1>1, <1>2, <1>3, <1>4, SameIsPowered

LEMMA PoweredNext == ASSUME Powered(vals), [Next]_vals PROVE Powered(vals')
<1>1. CASE vals' = vals
  BY <1>1
<1>2. CASE \E n \in 1 .. MaxTimes : vals' = IncrementProposerPriority(vals, n)
  <2>1. PICK n \in 1 .. MaxTimes : vals' = IncrementProposerPriority(vals, n)
    BY <1>2
  <2>2. n \in Nat
    BY SetAssumption
  <2>3. SamePowers(vals', vals)
    BY <2>1, <2>2, IncrementKeepsPowers DEF Powered
  <2> QED BY <2>3, SameIsPowered
<1>3. CASE \E ch \in Seq(Change) :
             accepts(vals, ch, TRUE) /\ vals' = applyChanges(vals, ch)
  BY <1>3, PoweredCounted, ChangePowered
<1>4. CASE FromExistingValidators
  BY <1>4, Rebuilt, SameIsPowered
<1> QED BY <1>1, <1>2, <1>3, <1>4, Steps

(* The part of the inductive invariant that speaks of powers. *)
PowerInv == Powered(vals)

(* The cached total is the sum of the powers and at most MaxTotalVotingPower,
   through elections, changes of the set and rebuilding it, for any sets of
   changes and any number of elections: updateTotalVotingPower never panics. *)
THEOREM TotalStaysCurrent == Spec => []TotalIsCurrent
<1>1. Init => PowerInv
  BY PoweredInit DEF PowerInv
<1>2. PowerInv /\ [Next]_vals => PowerInv'
  BY PoweredNext DEF PowerInv
<1>3. PowerInv => TotalIsCurrent
  BY DEF PowerInv, Powered, TotalIsCurrent
<1> QED BY <1>1, <1>2, <1>3, PTL DEF Spec

(* What the bounds on the priorities amount to. *)
LEMMA Limits ==
    ASSUME NEW v, Powered(v), Ranks(v, 3)
    PROVE  /\ Distance(v.prio) \in Nat /\ Distance(v.prio) <= 3 * v.totalVotingPower
           /\ \A a \in Members(v) : /\ v.prio[a] \in Int
                                     /\ -3 * v.totalVotingPower <= v.prio[a]
                                     /\ v.prio[a] <= 3 * v.totalVotingPower
           /\ Moderate(v)
<1>1. PICK S, f, T : S = Members(v) /\ f = v.prio /\ T = v.totalVotingPower
  OBVIOUS
<1>2. /\ IsFiniteSet(S) /\ S \in SUBSET Int /\ S # {} /\ T \in Nat
      /\ T <= MaxTotalVotingPower
  BY <1>1, Parts
<1>3. f \in [S -> Int] /\ CentredSum(f, Cardinality(S)) /\ Spread(f, 3 * T)
  BY <1>1 DEF Ranks
<1>4. Distance(f) \in Nat /\ Distance(f) <= 3 * T
  <2>1. Distance(f) \in Nat /\ \A d \in Int : Spread(f, d) => Distance(f) <= d
    BY <1>2, <1>3, DistanceSpread
  <2>2. 3 * T \in Int
    BY <1>2
  <2> QED BY <1>3, <2>1, <2>2
<1>5. PICK x \in S : f[x] >= 0
  BY <1>2, <1>3, Around
<1>6. PICK y \in S : f[y] <= 0
  BY <1>2, <1>3, Around
<1>7. ASSUME NEW a \in S PROVE f[a] \in Int /\ -3 * T <= f[a] /\ f[a] <= 3 * T
  <2>1. /\ f[a] \in Int /\ f[x] \in Int /\ f[y] \in Int
        /\ f[x] - f[a] <= 3 * T /\ f[a] - f[y] <= 3 * T
    BY <1>3 DEF Spread
  <2> QED BY <1>2, <1>5, <1>6, <2>1
<1>8. Between(f, -3 * MaxTotalVotingPower, 3 * MaxTotalVotingPower)
  <2>1. DOMAIN f = S
    BY <1>3
  <2> SUFFICES ASSUME NEW a \in S
               PROVE  -3 * MaxTotalVotingPower <= f[a] /\ f[a] <= 3 * MaxTotalVotingPower
    BY <2>1 DEF Between
  <2> QED BY <1>2, <1>7, Widths
<1> QED BY <1>1, <1>3, <1>4, <1>7, <1>8 DEF Moderate

(* Priorities within twice the total are within three times the total. *)
LEMMA RanksWiden ==
    ASSUME NEW v, Powered(v), Ranks(v, 2)
    PROVE  Ranks(v, 3) /\ Distance(v.prio) <= 2 * v.totalVotingPower
<1>1. PICK S, f, T : S = Members(v) /\ f = v.prio /\ T = v.totalVotingPower
  OBVIOUS
<1>2. /\ IsFiniteSet(S) /\ S \in SUBSET Int /\ S # {} /\ T \in Nat
  BY <1>1, Parts
<1>3. f \in [S -> Int] /\ CentredSum(f, Cardinality(S)) /\ Spread(f, 2 * T)
  BY <1>1 DEF Ranks
<1>4. Distance(f) <= 2 * T
  <2>1. Distance(f) \in Nat /\ \A d \in Int : Spread(f, d) => Distance(f) <= d
    BY <1>2, <1>3, DistanceSpread
  <2>2. 2 * T \in Int
    BY <1>2
  <2> QED BY <1>3, <2>1, <2>2
<1>5. Spread(f, 3 * T)
  <2>1. DOMAIN f = S
    BY <1>3
  <2> SUFFICES ASSUME NEW a \in S, NEW b \in S PROVE f[a] - f[b] <= 3 * T
    BY <2>1 DEF Spread
  <2>2. f[a] - f[b] <= 2 * T /\ f[a] \in Int /\ f[b] \in Int
    BY <1>3, <2>1 DEF Spread
  <2> QED BY <1>2, <2>2
<1> QED BY <1>1, <1>3, <1>4, <1>5 DEF Ranks

(* The inductive invariant. *)
SetInv == Powered(vals) /\ Ranks(vals, 3) /\ vals.Proposer \in Addresses

(* An election of a set that satisfies it. *)
LEMMA IncrementInv ==
    ASSUME NEW v, Powered(v), Ranks(v, 3), NEW n \in 1 .. 2
    PROVE  LET u == IncrementProposerPriority(v, n)
           IN  SamePowers(u, v) /\ Powered(u) /\ Ranks(u, 3) /\ u.Proposer \in Addresses
<1>1. v.prio \in [Members(v) -> Int]
  BY DEF Ranks
<1>2. PICK T, d : T = v.totalVotingPower /\ d = Distance(v.prio)
  OBVIOUS
<1>3. T \in Nat /\ T <= MaxTotalVotingPower /\ d \in Nat /\ d <= 3 * T
  BY <1>2, Parts, Limits
<1>4. d + 2 * T - 1 <= MaxInt64
  BY <1>3, Widths
<1>5. PICK u : u = IncrementProposerPriority(v, n)
  OBVIOUS
<1>6. SamePowers(u, v) /\ u.Proposer \in Members(v) /\ Ranks(u, 3)
  BY <1>1, <1>2, <1>4, <1>5, IncrementRanks
<1> QED BY <1>5, <1>6, SameIsPowered DEF Powered

LEMMA SetInvInit == ASSUME Init PROVE SetInv
<1>1. PICK ch \in Seq(Change) :
          /\ accepts(EmptySet, ch, FALSE)
          /\ vals = IncrementProposerPriority(applyChanges(EmptySet, ch), 1)
  BY InitialSet
<1>2. PICK s : s = applyChanges(EmptySet, ch)
  OBVIOUS
<1>3. Powered(s) /\ Ranks(s, 2)
  BY <1>1, <1>2, EmptyCounted, ChangePowered, ChangeRanks
<1>4. Ranks(s, 3)
  BY <1>3, RanksWiden
<1> QED BY <1>1, <1>2, <1>3, <1>4, IncrementInv DEF SetInv

(* One step, and what it does to the distance of the priorities when it changes
   the powers. *)
LEMMA SetInvNext ==
    ASSUME MaxTimes <= 2, SetInv, [Next]_vals
    PROVE  /\ SetInv'
           /\ vals'.power # vals.power =>
                 Distance(vals'.prio) <= PriorityWindowSizeFactor * vals'.totalVotingPower
<1>0. Powered(vals) /\ Ranks(vals, 3) /\ vals.Proposer \in Addresses
  BY DEF SetInv
<1> DEFINE Good(u) ==
             /\ Powered(u) /\ Ranks(u, 3) /\ u.Proposer \in Addresses
             /\ u.power # vals.power => Distance(u.prio) <= 2 * u.totalVotingPower
<1> SUFFICES Good(vals')
  BY DEF SetInv, PriorityWindowSizeFactor
<1>1. CASE vals' = vals
  BY <1>0, <1>1
<1>2. CASE \E n \in 1 .. MaxTimes : vals' = IncrementProposerPriority(vals, n)
  <2>1. PICK n \in 1 .. MaxTimes : vals' = IncrementProposerPriority(vals, n)
    BY <1>2
  <2>2. n \in 1 .. 2
    BY SetAssumption
  <2> QED BY <1>0, <2>1, <2>2, IncrementInv DEF SamePowers
<1>3. CASE \E ch \in Seq(Change) :
             accepts(vals, ch, TRUE) /\ vals' = applyChanges(vals, ch)
  <2>1. PICK ch \in Seq(Change) : accepts(vals, ch, TRUE) /\ vals' = applyChanges(vals, ch)
    BY <1>3
  <2>2. Counted(vals) /\ Moderate(vals) /\ IsRecord(vals)
    BY <1>0, PoweredCounted, Limits DEF Powered
  <2>3. Powered(vals') /\ Ranks(vals', 2)
    BY <2>1, <2>2, ChangePowered, ChangeRanks
  <2>4. vals'.Proposer = vals.Proposer
    BY <2>1, <2>2, ApplyRecord
  <2> QED BY <1>0, <2>3, <2>4, RanksWiden
<1>4. CASE FromExistingValidators
  <2>1. /\ SamePowers(vals', vals) /\ vals'.prio = vals.prio
        /\ vals'.Proposer = findPreviousProposer(vals.prio)
    BY <1>0, <1>4, Rebuilt
  <2>2. Powered(vals') /\ Members(vals') = Members(vals)
    BY <1>0, <2>1, SameIsPowered DEF SamePowers, Members
  <2>3. Ranks(vals', 3)
    BY <1>0, <2>1, <2>2 DEF Ranks, SamePowers
  <2>4. findPreviousProposer(vals.prio) \in Members(vals)
    BY <1>0, Parts, MostPriority DEF Ranks
  <2> QED BY <1>0, <2>1, <2>2, <2>3, <2>4 DEF SamePowers, Powered
<1> HIDE DEF Good
<1> QED BY <1>1, <1>2, <1>3, <1>4, Steps

(* What the properties need of it. *)
LEMMA SetInvImplies == ASSUME SetInv PROVE TypeOK /\ Centred /\ NoClipping /\ Window
<1>1. PICK S, f, p, T : /\ S = Members(vals) /\ f = vals.prio /\ p = vals.power
                        /\ T = vals.totalVotingPower
  OBVIOUS
<1>2. Powered(vals) /\ Ranks(vals, 3) /\ vals.Proposer \in Addresses
  BY DEF SetInv
<1>3. /\ T \in Nat /\ T <= MaxTotalVotingPower /\ Distance(f) \in Nat /\ Distance(f) <= 3 * T
  BY <1>1, <1>2, Parts, Limits
<1>4. \A a \in S : f[a] \in Int /\ -3 * T <= f[a] /\ f[a] <= 3 * T
  BY <1>1, <1>2, Limits
<1>5. \A a \in S : p[a] \in Int /\ p[a] <= MaxTotalVotingPower
  BY <1>1, <1>2, Parts
<1>6. TypeOK
  <2>1. f \in [S -> Int64]
    <3>1. f \in [S -> Int]
      BY <1>1, <1>2 DEF Ranks
    <3>2. \A a \in S : f[a] \in Int64
      BY <1>3, <1>4, Widths DEF Int64
    <3> QED BY <3>1, <3>2
  <2> QED BY <1>1, <1>2, <2>1 DEF TypeOK, Powered
<1>7. Centred
  BY <1>2 DEF Centred, Ranks, CentredSum
<1>8. NoClipping
  <2>1. \A a \in S : f[a] + p[a] <= MaxInt64 /\ f[a] - T >= MinInt64
    BY <1>3, <1>4, <1>5, Widths
  <2>2. Distance(f) + 2 * T - 1 <= MaxInt64
    BY <1>3, Widths
  <2>3. Max(RangeOf(f)) - Min(RangeOf(f)) + PriorityWindowSizeFactor * T - 1 <= MaxInt64
    BY <2>2 DEF Distance, PriorityWindowSizeFactor
  <2> QED BY <1>1, <2>1, <2>3 DEF NoClipping
<1>9. Window
  BY <1>1, <1>3 DEF Window
<1> QED BY <1>6, <1>7, <1>8, <1>9

LEMMA SetInvHolds == ASSUME MaxTimes <= 2 PROVE Spec => []SetInv
<1>1. Init => SetInv
  BY SetInvInit
<1>2. SetInv /\ [Next]_vals => SetInv'
  BY SetInvNext
<1> QED BY <1>1, <1>2, PTL DEF Spec

(* The members are a nonempty set of addresses with positive powers, and the
   priorities are int64s. *)
THEOREM ProposerSetTyped == ASSUME MaxTimes <= 2 PROVE Spec => []TypeOK
<1>1. SetInv => TypeOK
  BY SetInvImplies
<1>2. Spec => []SetInv
  BY SetInvHolds
<1> QED BY <1>1, <1>2, PTL

(* Elections and changes leave the priorities centred around zero: an election
   hands out what it takes, and scaling and shifting round within one per
   member. *)
THEOREM PrioritiesCentred == ASSUME MaxTimes <= 2 PROVE Spec => []Centred
<1>1. SetInv => Centred
  BY SetInvImplies
<1>2. Spec => []SetInv
  BY SetInvHolds
<1> QED BY <1>1, <1>2, PTL

(* MaxTotalVotingPower is small enough, whatever the width of int64: no election
   clips and diff + diffMax - 1 does not overflow. *)
THEOREM NothingIsClipped == ASSUME MaxTimes <= 2 PROVE Spec => []NoClipping
<1>1. SetInv => NoClipping
  BY SetInvImplies
<1>2. Spec => []SetInv
  BY SetInvHolds
<1> QED BY <1>1, <1>2, PTL

(* Nobody is more than three times the total away from anybody. *)
THEOREM PrioritiesStayClose == ASSUME MaxTimes <= 2 PROVE Spec => []Window
<1>1. SetInv => Window
  BY SetInvImplies
<1>2. Spec => []SetInv
  BY SetInvHolds
<1> QED BY <1>1, <1>2, PTL

(* verifyValidatorSet: a change of the set leaves the priorities within twice
   the new total. *)
THEOREM ChangesDoRescale == ASSUME MaxTimes <= 2 PROVE Spec => ChangesRescale
<1> DEFINE Rescales == vals'.power # vals.power =>
             Distance(vals'.prio) <= PriorityWindowSizeFactor * vals'.totalVotingPower
<1>1. SetInv /\ [Next]_vals => Rescales
  BY SetInvNext
<1>2. Spec => []SetInv
  BY SetInvHolds
<1> HIDE DEF Rescales
<1>3. Spec => [][Rescales]_vals
  BY <1>1, <1>2, PTL DEF Spec
<1> QED BY <1>3 DEF ChangesRescale, Rescales
=============================================================================
