----------------------------- MODULE SumTheorems -----------------------------
(***************************************************************************)
(* Facts about SumOver and SizeSum that the proofs about accounts cite.        *)
(*                                                                         *)
(* A sum is a fold, which is a recursive function chosen by CHOOSE.  That  *)
(* the function exists, is the only one, and does not depend on the order  *)
(* in which elements are picked are inductions over the size of a set.     *)
(* They are stated about sets of numbers and of sets, in first-order form: *)
(* NatSetInduction for the numbers, SubsetInduction for finite sets.       *)
(***************************************************************************)
EXTENDS Sums, FiniteSetTheorems, WellFoundedInduction, TLAPS

(***************************************************************************)
(* Induction                                                               *)
(***************************************************************************)

(* A set of naturals that holds 0 and the successor of each of its members is all of Nat. *)
LEMMA NatSetInduction ==
  ASSUME NEW N \in SUBSET Nat, 0 \in N, \A n \in N : n + 1 \in N
  PROVE  N = Nat
<1> SUFFICES ASSUME Nat \ N # {} PROVE FALSE
  OBVIOUS
<1> DEFINE Less == {ss \in Nat \X Nat : ss[1] < ss[2]}
<1>1. IsWellFoundedOn(Less, Nat)
  BY NatLessThanWellFounded DEF OpToRel
<1>2. \E m \in Nat \ N : \A y \in Nat \ N : <<y, m>> \notin Less
  <2> HIDE DEF Less
  <2> QED BY <1>1, WFMin
<1>3. PICK m \in Nat \ N : \A y \in Nat \ N : ~ (y < m)
  BY <1>2
<1>4. m - 1 \in N
  BY <1>3
<1> QED BY <1>4, m - 1 + 1 = m

(* A set of naturals that has a member has a least one. *)
LEMMA LeastNumber ==
  ASSUME NEW S \in SUBSET Nat, S # {}
  PROVE  \E i \in S : \A j \in S : i <= j
<1> DEFINE Less == {ss \in Nat \X Nat : ss[1] < ss[2]}
<1>1. IsWellFoundedOn(Less, Nat)
  BY NatLessThanWellFounded DEF OpToRel
<1>2. \E m \in S : \A y \in S : <<y, m>> \notin Less
  <2> HIDE DEF Less
  <2> QED BY <1>1, WFMin
<1>3. PICK m \in S : \A y \in S : ~ (y < m)
  BY <1>2
<1> QED BY <1>3

(* A family of subsets of a finite set that holds the empty set, and with a set every set of one
   element more, holds the whole set. *)
LEMMA SubsetInduction ==
  ASSUME NEW S, IsFiniteSet(S), NEW K, {} \in K,
         \A T \in SUBSET S : T \in K => \A x \in S \ T : T \cup {x} \in K
  PROVE  S \in K
<1> DEFINE N == {n \in Nat : \A T \in SUBSET S : Cardinality(T) = n => T \in K}
<1>1. 0 \in N
  BY FS_EmptySet, FS_Subset
<1>2. ASSUME NEW n \in Nat, n \in N PROVE n + 1 \in N
  <2>1. SUFFICES ASSUME NEW T \in SUBSET S, Cardinality(T) = n + 1 PROVE T \in K
    OBVIOUS
  <2>2. IsFiniteSet(T) /\ T # {}
    BY <2>1, FS_Subset, FS_EmptySet
  <2>3. PICK x \in T : TRUE
    BY <2>2
  <2>4. Cardinality(T \ {x}) = n
    <3>1. Cardinality(T \ {x}) = Cardinality(T) - 1
      BY <2>2, FS_RemoveElement
    <3> QED BY <2>1, <3>1
  <2>5. T \ {x} \in K
    BY <1>2, <2>4
  <2>6. (T \ {x}) \cup {x} \in K
    BY <2>5
  <2> QED BY <2>6, (T \ {x}) \cup {x} = T
<1>3. N = Nat
  <2> HIDE DEF N
  <2>1. N \in SUBSET Nat BY DEF N
  <2> QED BY <1>1, <1>2, <2>1, NatSetInduction
<1> QED BY <1>3, FS_CardinalityType

(***************************************************************************)
(* The function behind a sum                                               *)
(***************************************************************************)

Pick(s) == CHOOSE x \in s : TRUE

Adds(f, g, s) == g[s] = IF s = {} THEN 0 ELSE f[Pick(s)] + g[s \ {Pick(s)}]

Iter(f, S, g) == g = [s \in SUBSET S |-> IF s = {} THEN 0 ELSE f[Pick(s)] + g[s \ {Pick(s)}]]

LEMMA PickIn ==
  ASSUME NEW s, s # {}
  PROVE  Pick(s) \in s
BY DEF Pick

LEMMA SumIter ==
  ASSUME NEW f, NEW S
  PROVE  SumOver(f, S) = (CHOOSE g : Iter(f, S, g))[S]
BY DEF SumOver, MapThenSumSet, MapThenFoldSet, Pick, Iter

LEMMA IterExists ==
  ASSUME NEW S, IsFiniteSet(S), NEW f, \A x \in S : f[x] \in Int
  PROVE  \E g \in [SUBSET S -> Int] : Iter(f, S, g)
<1> DEFINE Good(h, n) == \A s \in SUBSET S : Cardinality(s) <= n => Adds(f, h, s)
           N == {n \in Nat : \E h \in [SUBSET S -> Int] : Good(h, n)}
           Next(h) == [s \in SUBSET S |-> IF s = {} THEN 0 ELSE f[Pick(s)] + h[s \ {Pick(s)}]]
<1>0. \A s \in SUBSET S : IsFiniteSet(s) /\ Cardinality(s) \in Nat
  BY FS_Subset, FS_CardinalityType
<1>1. ASSUME NEW h \in [SUBSET S -> Int] PROVE Next(h) \in [SUBSET S -> Int]
  BY PickIn
<1>2. 0 \in N
  <2> DEFINE h == [s \in SUBSET S |-> 0]
  <2>1. h \in [SUBSET S -> Int]
    OBVIOUS
  <2>2. \A s \in SUBSET S : Cardinality(s) <= 0 => s = {}
    BY <1>0, FS_EmptySet
  <2>3. Good(h, 0)
    BY <2>2 DEF Adds
  <2> QED BY <2>1, <2>3
<1>3. ASSUME NEW n \in Nat, n \in N PROVE n + 1 \in N
  <2>1. PICK h \in [SUBSET S -> Int] : Good(h, n)
    BY <1>3
  <2>2. ASSUME NEW s \in SUBSET S, Cardinality(s) <= n + 1 PROVE Adds(f, Next(h), s)
    <3>1. CASE s = {}
      BY <3>1 DEF Adds
    <3>2. CASE s # {}
      <4> DEFINE t == s \ {Pick(s)}
      <4>1. t \in SUBSET S /\ Cardinality(t) <= n
        BY <3>2, <2>2, <1>0, PickIn, FS_RemoveElement
      <4>2. h[t] = Next(h)[t]
        BY <4>1, <2>1 DEF Adds
      <4>3. Next(h)[s] = f[Pick(s)] + h[t]
        BY <3>2
      <4> QED BY <3>2, <4>2, <4>3 DEF Adds
    <3> QED BY <3>1, <3>2
  <2>3. Next(h) \in [SUBSET S -> Int] /\ Good(Next(h), n + 1)
    BY <2>2, <1>1
  <2> HIDE DEF Next, Good
  <2> QED BY <2>3
<1>4. N = Nat
  <2> HIDE DEF N
  <2>1. N \in SUBSET Nat BY DEF N
  <2> QED BY <1>2, <1>3, <2>1, NatSetInduction
<1>5. PICK h \in [SUBSET S -> Int] : Good(h, Cardinality(S))
  BY <1>0, <1>4
<1>6. \A s \in SUBSET S : Adds(f, h, s)
  BY <1>5, FS_Subset
<1>7. Iter(f, S, h)
  BY <1>6 DEF Adds, Iter
<1> QED BY <1>7

(* The functions behind two sums agree on the sets on which the summed functions do. *)
LEMMA IterAgree ==
  ASSUME NEW S, NEW R, NEW T, IsFiniteSet(T), T \subseteq S, T \subseteq R,
         NEW f, NEW e, \A x \in T : f[x] = e[x],
         NEW g, Iter(f, S, g), NEW h, Iter(e, R, h)
  PROVE  g[T] = h[T]
<1> DEFINE N == {n \in Nat : \A s \in SUBSET T : Cardinality(s) = n => g[s] = h[s]}
<1>0. \A s \in SUBSET T : IsFiniteSet(s) /\ Cardinality(s) \in Nat
  BY FS_Subset, FS_CardinalityType
<1>1. \A s \in SUBSET T : Adds(f, g, s) /\ Adds(e, h, s)
  <2>1. \A s \in SUBSET S : Adds(f, g, s)
    BY DEF Iter, Adds
  <2>2. \A s \in SUBSET R : Adds(e, h, s)
    BY DEF Iter, Adds
  <2> QED BY <2>1, <2>2
<1>2. 0 \in N
  BY <1>0, <1>1, FS_EmptySet DEF Adds
<1>3. ASSUME NEW n \in Nat, n \in N PROVE n + 1 \in N
  <2>1. SUFFICES ASSUME NEW s \in SUBSET T, Cardinality(s) = n + 1 PROVE g[s] = h[s]
    OBVIOUS
  <2>2. s # {}
    BY <2>1, FS_EmptySet
  <2>3. Pick(s) \in s
    BY <2>2, PickIn
  <2>4. s \ {Pick(s)} \in SUBSET T /\ Cardinality(s \ {Pick(s)}) = n
    <3>1. Cardinality(s \ {Pick(s)}) = Cardinality(s) - 1
      BY <2>3, <1>0, FS_RemoveElement
    <3> QED BY <2>1, <3>1
  <2>5. g[s \ {Pick(s)}] = h[s \ {Pick(s)}]
    BY <1>3, <2>4
  <2> QED BY <1>1, <2>2, <2>3, <2>5 DEF Adds
<1>4. N = Nat
  <2> HIDE DEF N
  <2>1. N \in SUBSET Nat BY DEF N
  <2> QED BY <1>2, <1>3, <2>1, NatSetInduction
<1> QED BY <1>0, <1>4

(***************************************************************************)
(* Sums                                                                    *)
(***************************************************************************)

Partial(f, S, g) ==
  /\ g \in [SUBSET S -> Int] /\ Iter(f, S, g)
  /\ \A T \in SUBSET S : SumOver(f, T) = g[T]

LEMMA SumIsIter ==
  ASSUME NEW S, IsFiniteSet(S), NEW f, \A x \in S : f[x] \in Int
  PROVE  \E g : Partial(f, S, g)
<1>1. PICK g \in [SUBSET S -> Int] : Iter(f, S, g)
  BY IterExists
<1>2. ASSUME NEW T \in SUBSET S PROVE SumOver(f, T) = g[T]
  <2>1. IsFiniteSet(T)
    BY FS_Subset
  <2>2. \E h \in [SUBSET T -> Int] : Iter(f, T, h)
    BY <2>1, IterExists
  <2> DEFINE h == CHOOSE h : Iter(f, T, h)
  <2>3. Iter(f, T, h)
    BY <2>2
  <2> HIDE DEF h
  <2>4. h[T] = g[T]
    BY <1>1, <2>1, <2>3, IterAgree
  <2> QED BY <2>4, SumIter DEF h
<1> QED BY <1>1, <1>2 DEF Partial

LEMMA SumType ==
  ASSUME NEW S, IsFiniteSet(S), NEW f, \A x \in S : f[x] \in Int
  PROVE  SumOver(f, S) \in Int
<1>1. PICK g : Partial(f, S, g)
  BY SumIsIter
<1> QED BY <1>1 DEF Partial

LEMMA SumEmpty ==
  ASSUME NEW f
  PROVE  SumOver(f, {}) = 0
<1>1. PICK g : Partial(f, {}, g)
  <2>1. IsFiniteSet({}) /\ \A x \in {} : f[x] \in Int
    BY FS_EmptySet
  <2> QED BY <2>1, SumIsIter
<1> QED BY <1>1 DEF Iter, Partial

(* Two functions that agree on a set have the same sum over it. *)
LEMMA SumCongruent ==
  ASSUME NEW S, IsFiniteSet(S), NEW f, NEW e, \A x \in S : f[x] \in Int /\ f[x] = e[x]
  PROVE  SumOver(f, S) = SumOver(e, S)
<1>0. \A x \in S : f[x] \in Int /\ e[x] \in Int
  OBVIOUS
<1>1. PICK g : Partial(f, S, g)
  BY <1>0, SumIsIter
<1>2. PICK h : Partial(e, S, h)
  BY <1>0, SumIsIter
<1>3. g[S] = h[S]
  BY <1>1, <1>2, IterAgree DEF Partial
<1> QED BY <1>1, <1>2, <1>3 DEF Partial

LEMMA SumPick ==
  ASSUME NEW S, IsFiniteSet(S), S # {}, NEW f, \A x \in S : f[x] \in Int
  PROVE  SumOver(f, S) = f[Pick(S)] + SumOver(f, S \ {Pick(S)})
<1>1. PICK g : Partial(f, S, g)
  BY SumIsIter
<1>2. g[S] = f[Pick(S)] + g[S \ {Pick(S)}]
  BY <1>1 DEF Iter, Partial
<1> QED BY <1>1, <1>2 DEF Partial

(* Whichever element is taken out first, the sum is the same. *)
LEMMA SumRemove ==
  ASSUME NEW S, IsFiniteSet(S), NEW f, \A x \in S : f[x] \in Int, NEW z \in S
  PROVE  SumOver(f, S) = f[z] + SumOver(f, S \ {z})
<1> DEFINE Holds(T) == \A x \in T : SumOver(f, T) = f[x] + SumOver(f, T \ {x})
           N == {n \in Nat : \A T \in SUBSET S : Cardinality(T) = n => Holds(T)}
<1>0. \A T \in SUBSET S : IsFiniteSet(T) /\ Cardinality(T) \in Nat /\ SumOver(f, T) \in Int
  BY FS_Subset, FS_CardinalityType, SumType
<1>1. 0 \in N
  BY <1>0, FS_EmptySet
<1>2. ASSUME NEW n \in Nat, n \in N PROVE n + 1 \in N
  <2>1. SUFFICES ASSUME NEW T \in SUBSET S, Cardinality(T) = n + 1, NEW x \in T
                 PROVE  SumOver(f, T) = f[x] + SumOver(f, T \ {x})
    OBVIOUS
  <2> DEFINE p == Pick(T)
  <2>2. p \in T
    BY PickIn
  <2>3. SumOver(f, T) = f[p] + SumOver(f, T \ {p})
    BY <1>0, SumPick
  <2> HIDE DEF p
  <2>4. CASE x = p
    BY <2>3, <2>4
  <2>5. CASE x # p
    <3>1. Cardinality(T \ {p}) = n /\ Cardinality(T \ {x}) = n
      <4>1. Cardinality(T \ {p}) = Cardinality(T) - 1 /\ Cardinality(T \ {x}) = Cardinality(T) - 1
        BY <1>0, <2>2, FS_RemoveElement
      <4> QED BY <2>1, <4>1
    <3>2. Holds(T \ {p}) /\ Holds(T \ {x})
      BY <1>2, <3>1
    <3>3. SumOver(f, T \ {p}) = f[x] + SumOver(f, (T \ {p}) \ {x})
      BY <2>5, <3>2
    <3>4. SumOver(f, T \ {x}) = f[p] + SumOver(f, (T \ {x}) \ {p})
      BY <2>2, <2>5, <3>2
    <3>5. (T \ {p}) \ {x} = (T \ {x}) \ {p}
      OBVIOUS
    <3>6. SumOver(f, (T \ {x}) \ {p}) \in Int /\ f[x] \in Int /\ f[p] \in Int
      BY <1>0, <2>2
    <3>7. SumOver(f, (T \ {p}) \ {x}) = SumOver(f, (T \ {x}) \ {p})
      BY <3>5
    <3> HIDE DEF Holds, N
    <3> QED BY <2>3, <3>3, <3>4, <3>6, <3>7
  <2> QED BY <2>4, <2>5
<1>3. N = Nat
  <2> HIDE DEF N
  <2>1. N \in SUBSET Nat BY DEF N
  <2> QED BY <1>1, <1>2, <2>1, NatSetInduction
<1> QED BY <1>0, <1>3

LEMMA SumAdd ==
  ASSUME NEW S, IsFiniteSet(S), NEW f, NEW z, z \notin S, \A x \in S \cup {z} : f[x] \in Int
  PROVE  SumOver(f, S \cup {z}) = SumOver(f, S) + f[z]
<1>1. IsFiniteSet(S \cup {z}) /\ (S \cup {z}) \ {z} = S
  BY FS_AddElement
<1>2. SumOver(f, S \cup {z}) = f[z] + SumOver(f, (S \cup {z}) \ {z})
  BY <1>1, SumRemove
<1>3. SumOver(f, S) \in Int /\ f[z] \in Int
  BY SumType
<1>4. SumOver(f, (S \cup {z}) \ {z}) = SumOver(f, S)
  BY <1>1
<1> QED BY <1>2, <1>3, <1>4

(* A sum of naturals is a natural, and no part of it is more than the whole. *)
LEMMA SumNat ==
  ASSUME NEW S, IsFiniteSet(S), NEW f, \A x \in S : f[x] \in Nat
  PROVE  SumOver(f, S) \in Nat
<1> DEFINE K == {T \in SUBSET S : SumOver(f, T) \in Nat}
<1>1. {} \in K
  BY SumEmpty
<1>2. ASSUME NEW T \in SUBSET S, T \in K, NEW x \in S \ T PROVE T \cup {x} \in K
  <2>1. IsFiniteSet(T) /\ \A y \in T \cup {x} : f[y] \in Int
    BY FS_Subset
  <2>2. SumOver(f, T \cup {x}) = SumOver(f, T) + f[x]
    BY <2>1, SumAdd
  <2> QED BY <1>2, <2>2
<1>3. S \in K
  <2> HIDE DEF K
  <2> QED BY <1>1, <1>2, SubsetInduction
<1> QED BY <1>3

(* A sum does not depend on what its terms are called: g gives each its other name. *)
LEMMA SumReindexed ==
  ASSUME NEW S, IsFiniteSet(S), NEW f, NEW e, NEW g,
         \A x \in S : f[g[x]] \in Int /\ e[x] = f[g[x]],
         \A x, y \in S : g[x] = g[y] => x = y
  PROVE  SumOver(e, S) = SumOver(f, {g[x] : x \in S})
<1> DEFINE Image(T) == {g[x] : x \in T}
           K == {T \in SUBSET S : IsFiniteSet(Image(T)) /\ SumOver(e, T) = SumOver(f, Image(T))}
<1>1. {} \in K
  <2>1. Image({}) = {}
    OBVIOUS
  <2> QED BY <2>1, SumEmpty, FS_EmptySet
<1>2. ASSUME NEW T \in SUBSET S, T \in K, NEW z \in S \ T PROVE T \cup {z} \in K
  <2>1. /\ Image(T \cup {z}) = Image(T) \cup {g[z]} /\ g[z] \notin Image(T)
        /\ \A y \in Image(T) \cup {g[z]} : f[y] \in Int
    OBVIOUS
  <2>2. IsFiniteSet(Image(T)) /\ SumOver(e, T) = SumOver(f, Image(T))
    BY <1>2
  <2>3. IsFiniteSet(T) /\ z \notin T /\ \A x \in T \cup {z} : e[x] \in Int
    BY FS_Subset
  <2> HIDE DEF Image
  <2>4. SumOver(e, T \cup {z}) = SumOver(e, T) + e[z]
    BY ONLY <2>3, SumAdd
  <2>5. /\ SumOver(f, Image(T) \cup {g[z]}) = SumOver(f, Image(T)) + f[g[z]]
        /\ IsFiniteSet(Image(T) \cup {g[z]})
    <3>1. /\ IsFiniteSet(Image(T)) /\ g[z] \notin Image(T)
          /\ \A y \in Image(T) \cup {g[z]} : f[y] \in Int
      BY <2>1, <2>2
    <3>2. SumOver(f, Image(T) \cup {g[z]}) = SumOver(f, Image(T)) + f[g[z]]
      BY ONLY <3>1, SumAdd
    <3> QED BY <3>1, <3>2, FS_AddElement
  <2>6. IsFiniteSet(Image(T \cup {z})) /\ SumOver(e, T \cup {z}) = SumOver(f, Image(T \cup {z}))
    BY <2>1, <2>2, <2>4, <2>5
  <2> QED BY <2>6
<1>3. S \in K
  <2> HIDE DEF K
  <2> QED BY <1>1, <1>2, SubsetInduction
<1> QED BY <1>3

(* The sum after one value of the function has changed. *)
LEMMA SumChange ==
  ASSUME NEW S, IsFiniteSet(S), NEW f, NEW e, NEW z \in S,
         \A x \in S : f[x] \in Int /\ e[x] \in Int,
         \A x \in S \ {z} : e[x] = f[x]
  PROVE  SumOver(e, S) = SumOver(f, S) + e[z] - f[z]
<1>1. IsFiniteSet(S \ {z})
  BY FS_RemoveElement
<1>2. SumOver(f, S) = f[z] + SumOver(f, S \ {z}) /\ SumOver(e, S) = e[z] + SumOver(e, S \ {z})
  BY SumRemove
<1>3. SumOver(f, S \ {z}) = SumOver(e, S \ {z}) /\ SumOver(f, S \ {z}) \in Int
  BY <1>1, SumCongruent, SumType
<1> QED BY <1>2, <1>3

LEMMA IntervalSize ==
  ASSUME NEW a \in Int, NEW n \in Nat
  PROVE  IsFiniteSet(a .. a + n - 1) /\ Cardinality(a .. a + n - 1) = n
<1> DEFINE z == a + n - 1
<1>1. z \in Int /\ (a > z => n = 0) /\ z - a + 1 = n
  OBVIOUS
<1> HIDE DEF z
<1>2. IsFiniteSet(a .. z) /\ Cardinality(a .. z) = n
  BY <1>1, FS_Interval
<1> QED BY <1>2 DEF z

(***************************************************************************)
(* Sizes of blocks                                                         *)
(***************************************************************************)

Sized(S) == IsFiniteSet(S) /\ \A b \in S : b.size \in Nat

LEMMA SizeSumEmpty == SizeSum({}) = 0
BY SumEmpty DEF SizeSum

LEMMA SizeSumNat ==
  ASSUME NEW S, Sized(S)
  PROVE  SizeSum(S) \in Nat
BY SumNat DEF SizeSum, Sized

LEMMA SizeSumAdd ==
  ASSUME NEW S, Sized(S), NEW b, b.size \in Nat, b \notin S
  PROVE  /\ Sized(S \cup {b})
         /\ SizeSum(S \cup {b}) = SizeSum(S) + b.size
<1> DEFINE f == [c \in S \cup {b} |-> c.size]
           e == [c \in S |-> c.size]
<1>1. Sized(S \cup {b})
  BY FS_AddElement DEF Sized
<1>2. \A c \in S \cup {b} : f[c] \in Int
  BY DEF Sized
<1>3. \A c \in S : f[c] \in Int /\ f[c] = e[c]
  BY DEF Sized
<1>4. f[b] = b.size
  OBVIOUS
<1> HIDE DEF f, e
<1>5. SumOver(f, S \cup {b}) = SumOver(f, S) + f[b]
  BY <1>2, SumAdd DEF Sized
<1>6. SumOver(f, S) = SumOver(e, S)
  BY <1>3, SumCongruent DEF Sized
<1> QED BY <1>1, <1>4, <1>5, <1>6 DEF SizeSum, f, e

LEMMA SizeSumRemove ==
  ASSUME NEW S, Sized(S), NEW b \in S
  PROVE  /\ Sized(S \ {b})
         /\ SizeSum(S \ {b}) = SizeSum(S) - b.size
<1>1. Sized(S \ {b}) /\ b.size \in Nat
  BY FS_RemoveElement DEF Sized
<1>2. SizeSum((S \ {b}) \cup {b}) = SizeSum(S \ {b}) + b.size
  BY <1>1, SizeSumAdd
<1>3. (S \ {b}) \cup {b} = S
  OBVIOUS
<1> QED BY <1>1, <1>2, <1>3, SizeSumNat

(* The sizes of two sets of blocks without a common one add up. *)
LEMMA SizeSumUnion ==
  ASSUME NEW S, Sized(S), NEW T, Sized(T), S \cap T = {}
  PROVE  /\ Sized(S \cup T)
         /\ SizeSum(S \cup T) = SizeSum(S) + SizeSum(T)
<1> DEFINE Both(R) == Sized(S \cup R) /\ SizeSum(S \cup R) = SizeSum(S) + SizeSum(R)
           K == {R \in SUBSET T : Both(R)}
<1>1. {} \in K
  BY SizeSumEmpty, SizeSumNat, S \cup {} = S
<1>2. ASSUME NEW R \in SUBSET T, R \in K, NEW x \in T \ R PROVE R \cup {x} \in K
  <2>1. Sized(S \cup R) /\ SizeSum(S \cup R) = SizeSum(S) + SizeSum(R)
    BY <1>2
  <2>2. Sized(R) /\ x.size \in Nat /\ x \notin S \cup R
    BY FS_Subset DEF Sized
  <2>3. /\ Sized((S \cup R) \cup {x})
        /\ SizeSum((S \cup R) \cup {x}) = SizeSum(S \cup R) + x.size
    BY <2>1, <2>2, SizeSumAdd
  <2>4. SizeSum(R \cup {x}) = SizeSum(R) + x.size
    BY <2>2, SizeSumAdd
  <2>5. (S \cup R) \cup {x} = S \cup (R \cup {x})
    OBVIOUS
  <2>6. SizeSum(S) \in Nat /\ SizeSum(R) \in Nat
    BY <2>2, SizeSumNat
  <2>7. SizeSum((S \cup R) \cup {x}) = SizeSum(S) + SizeSum(R \cup {x})
    BY <2>1, <2>2, <2>3, <2>4, <2>6
  <2>8. Both(R \cup {x})
    BY <2>3, <2>5, <2>7
  <2>9. R \cup {x} \in SUBSET T
    OBVIOUS
  <2> QED BY <2>8, <2>9
<1>3. T \in K
  <2> HIDE DEF K
  <2> QED BY <1>1, <1>2, SubsetInduction DEF Sized
<1> QED BY <1>3

(* A part of a set of blocks holds at most what the whole holds. *)
LEMMA SizeSumSubset ==
  ASSUME NEW S, Sized(S), NEW T \in SUBSET S
  PROVE  Sized(T) /\ SizeSum(T) <= SizeSum(S)
<1> DEFINE K == {R \in SUBSET (S \ T) : SizeSum(T) <= SizeSum(T \cup R)}
<1>1. Sized(T) /\ IsFiniteSet(S \ T)
  BY FS_Subset DEF Sized
<1>2. {} \in K
  BY <1>1, SizeSumNat, T \cup {} = T
<1>3. ASSUME NEW R \in SUBSET (S \ T), R \in K, NEW x \in (S \ T) \ R PROVE R \cup {x} \in K
  <2>1. Sized(T \cup R) /\ x.size \in Nat /\ x \notin T \cup R
    BY FS_Subset DEF Sized
  <2>2. SizeSum((T \cup R) \cup {x}) = SizeSum(T \cup R) + x.size
    BY <2>1, SizeSumAdd
  <2>3. SizeSum(T \cup R) \in Nat /\ SizeSum(T) \in Nat
    BY <1>1, <2>1, SizeSumNat
  <2>4. (T \cup R) \cup {x} = T \cup (R \cup {x})
    OBVIOUS
  <2>5. SizeSum(T) <= SizeSum(T \cup R)
    BY <1>3
  <2>6. SizeSum(T) <= SizeSum((T \cup R) \cup {x})
    BY <2>1, <2>2, <2>3, <2>5
  <2>7. SizeSum(T) <= SizeSum(T \cup (R \cup {x}))
    BY <2>4, <2>6
  <2> QED BY <2>7
<1>4. S \ T \in K
  <2> HIDE DEF K
  <2> QED BY <1>1, <1>2, <1>3, SubsetInduction
<1>5. T \cup (S \ T) = S
  OBVIOUS
<1> QED BY <1>1, <1>4, <1>5

(* Blocks that share no cell of a finite memory hold at most what the memory does; c gives the
   cells of a block. *)
LEMMA SizeSumFits ==
  ASSUME NEW S, Sized(S), NEW R, IsFiniteSet(R), NEW c,
         \A b \in S : c[b] \subseteq R /\ Cardinality(c[b]) = b.size,
         \A a, b \in S : a # b => c[a] \cap c[b] = {}
  PROVE  SizeSum(S) <= Cardinality(R)
<1> DEFINE Cells(T) == UNION {c[b] : b \in T}
           K == {T \in SUBSET S : SizeSum(T) = Cardinality(Cells(T))}
<1>0. \A T \in SUBSET S : IsFiniteSet(T) /\ Sized(T) /\ Cells(T) \subseteq R
  BY FS_Subset DEF Sized
<1>1. {} \in K
  <2>1. Cells({}) = {}
    OBVIOUS
  <2> QED BY <2>1, SizeSumEmpty, FS_EmptySet
<1>2. ASSUME NEW T \in SUBSET S, T \in K, NEW x \in S \ T PROVE T \cup {x} \in K
  <2>1. Cells(T \cup {x}) = Cells(T) \cup c[x]
    OBVIOUS
  <2>2. Cells(T) \cap c[x] = {}
    OBVIOUS
  <2> HIDE DEF Cells
  <2>3. IsFiniteSet(Cells(T)) /\ IsFiniteSet(c[x]) /\ x.size \in Nat
    BY <1>0, FS_Subset DEF Sized
  <2>4. Cardinality(Cells(T) \cup c[x]) = Cardinality(Cells(T)) + x.size
    <3>1. Cardinality(Cells(T) \cup c[x])
            = Cardinality(Cells(T)) + Cardinality(c[x]) - Cardinality(Cells(T) \cap c[x])
      BY <2>3, FS_Union
    <3>2. Cardinality(Cells(T) \cap c[x]) = 0
      BY <2>2, FS_EmptySet
    <3>3. Cardinality(Cells(T)) \in Nat /\ Cardinality(c[x]) = x.size
      BY <2>3, FS_CardinalityType
    <3> QED BY <2>3, <3>1, <3>2, <3>3
  <2>5. SizeSum(T \cup {x}) = SizeSum(T) + x.size
    BY <1>0, <2>3, SizeSumAdd
  <2>6. SizeSum(T) = Cardinality(Cells(T))
    BY <1>2
  <2>7. SizeSum(T \cup {x}) = Cardinality(Cells(T \cup {x}))
    BY <2>1, <2>4, <2>5, <2>6
  <2> QED BY <2>7
<1>3. S \in K
  <2> HIDE DEF K
  <2> QED BY <1>1, <1>2, SubsetInduction DEF Sized
<1>4. Cells(S) \in SUBSET R
  BY <1>0
<1> HIDE DEF Cells
<1> QED BY <1>3, <1>4, FS_Subset

=============================================================================
