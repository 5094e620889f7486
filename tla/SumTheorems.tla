---------------------------- MODULE SumTheorems -----------------------------
(***************************************************************************)
(* Induction on numbers, and what the sum of a function over a finite set  *)
(* is: the facts about TxCounter's counters, of which the program adds up  *)
(* one per worker, that the proofs about them share.                       *)
(***************************************************************************)
EXTENDS Integers, Functions, FiniteSetTheorems, WellFoundedInduction, TLAPS

(* A set that has 0 and, with a number, the next one, has all numbers. *)
LEMMA NatSetInduction ==
  ASSUME NEW X, 0 \in X, \A n \in Nat : n \in X => n + 1 \in X
  PROVE  Nat \subseteq X
<1> DEFINE less == OpToRel(<, Nat)
           out == Nat \ X
<1>0. IsWellFoundedOn(less, Nat)
  BY NatLessThanWellFounded
<1> SUFFICES ASSUME out # {} PROVE FALSE
  OBVIOUS
<1>1. PICK x \in out : \A y \in out : ~(<<y, x>> \in less)
  <2> HIDE DEF less, out
  <2>1. out \subseteq Nat
    BY DEF out
  <2> QED
    BY <1>0, <2>1, WFMin
<1>2. x \in Nat /\ x # 0 /\ x - 1 \in Nat
  OBVIOUS
<1>3. <<x - 1, x>> \in less
  BY <1>2 DEF OpToRel
<1>4. x - 1 \in X
  BY <1>1, <1>2, <1>3
<1> QED
  BY <1>2, <1>4

-----------------------------------------------------------------------------
(* The recursion by which the community modules define a sum: g gives the  *)
(* sum over each subset of S.                                              *)
SumRec(f, g, s) ==
  IF s = {} THEN 0 ELSE f[CHOOSE x \in s : TRUE] + g[s \ {CHOOSE x \in s : TRUE}]
IsSum(f, g, S) == g = [s \in SUBSET S |-> SumRec(f, g, s)]

LEMMA SumIsRec ==
  ASSUME NEW f, NEW S
  PROVE  SumFunctionOnSet(f, S) = (CHOOSE g : IsSum(f, g, S))[S]
  BY DEF SumFunctionOnSet, FoldFunctionOnSet, MapThenFoldSet, SumRec, IsSum

(* Removing the element that is chosen leaves one element fewer. *)
LEMMA ChosenRemoved ==
  ASSUME NEW s, IsFiniteSet(s), s # {}
  PROVE  LET c == CHOOSE x \in s : TRUE
         IN  /\ c \in s /\ IsFiniteSet(s \ {c})
             /\ Cardinality(s) \in Nat /\ Cardinality(s \ {c}) = Cardinality(s) - 1
  BY FS_RemoveElement, FS_CardinalityType

(* The recursion has a solution: a solution for the sets of at most n      *)
(* elements extends to those of n + 1.                                     *)
LEMMA SumExists ==
  ASSUME NEW f, NEW S, IsFiniteSet(S)
  PROVE  \E g : IsSum(f, g, S)
<1> DEFINE dom(n) == {s \in SUBSET S : Cardinality(s) <= n}
           upTo(g, n) == g = [s \in dom(n) |-> SumRec(f, g, s)]
           X == {n \in Nat : \E g : upTo(g, n)}
<1>1. \A s \in SUBSET S : IsFiniteSet(s) /\ Cardinality(s) \in Nat /\ Cardinality(s) <= Cardinality(S)
  BY FS_Subset, FS_CardinalityType
<1>2. Cardinality(S) \in Nat
  BY FS_CardinalityType
<1>3. 0 \in X
  <2>1. \A s \in dom(0) : s = {}
    BY <1>1, FS_EmptySet
  <2> DEFINE g == [s \in dom(0) |-> 0]
  <2>2. \A s \in dom(0) : SumRec(f, g, s) = 0
    BY <2>1 DEF SumRec
  <2>3. upTo(g, 0)
    BY <2>2
  <2> QED
    BY <2>3
<1>4. ASSUME NEW n \in Nat, n \in X PROVE n + 1 \in X
  <2>1. PICK g : upTo(g, n)
    BY <1>4
  <2> DEFINE h == [s \in dom(n + 1) |-> SumRec(f, g, s)]
  <2>2. \A s \in dom(n) : h[s] = g[s]
    BY <1>1, <2>1
  <2>3. ASSUME NEW s \in dom(n + 1) PROVE SumRec(f, h, s) = SumRec(f, g, s)
    <3>1. CASE s = {}
      BY <3>1 DEF SumRec
    <3>2. CASE s # {}
      <4> DEFINE c == CHOOSE x \in s : TRUE
      <4>1. s \ {c} \in dom(n)
        BY <1>1, <3>2, ChosenRemoved
      <4>2. h[s \ {c}] = g[s \ {c}]
        BY <2>2, <4>1
      <4> HIDE DEF h
      <4> QED
        BY <4>2, <3>2 DEF SumRec
    <3> QED
      BY <3>1, <3>2
  <2>4. upTo(h, n + 1)
    BY <2>3
  <2>5. \E k : upTo(k, n + 1)
    <3> HIDE DEF upTo, h
    <3> QED
      BY <2>4
  <2> HIDE DEF upTo
  <2> QED
    BY <2>5
<1>5. Cardinality(S) \in X
  <2> HIDE DEF X
  <2> QED
    BY <1>2, <1>3, <1>4, NatSetInduction
<1>6. dom(Cardinality(S)) = SUBSET S
  BY <1>1
<1> QED
  BY <1>5, <1>6 DEF IsSum

(* Two solutions agree where both are defined. *)
LEMMA SumUnique ==
  ASSUME NEW f, NEW g, NEW h, NEW S, NEW T, IsFiniteSet(S), T \subseteq S,
         IsSum(f, g, S), IsSum(f, h, T)
  PROVE  \A s \in SUBSET T : g[s] = h[s]
<1> DEFINE X == {n \in Nat : \A s \in SUBSET T : Cardinality(s) = n => g[s] = h[s]}
<1>1. \A s \in SUBSET T : IsFiniteSet(s) /\ Cardinality(s) \in Nat
  BY FS_Subset, FS_CardinalityType
<1>2. \A s \in SUBSET T : g[s] = SumRec(f, g, s) /\ h[s] = SumRec(f, h, s)
  BY DEF IsSum
<1>3. 0 \in X
  BY <1>1, <1>2, FS_EmptySet DEF SumRec
<1>4. ASSUME NEW n \in Nat, n \in X PROVE n + 1 \in X
  <2> SUFFICES ASSUME NEW s \in SUBSET T, Cardinality(s) = n + 1 PROVE g[s] = h[s]
    OBVIOUS
  <2>1. s # {}
    BY FS_EmptySet
  <2> DEFINE c == CHOOSE x \in s : TRUE
  <2>2. s \ {c} \in SUBSET T /\ Cardinality(s \ {c}) = n
    BY <1>1, <2>1, ChosenRemoved
  <2>3. g[s \ {c}] = h[s \ {c}]
    BY <1>4, <2>2
  <2> QED
    BY <1>2, <2>1, <2>3 DEF SumRec
<1>5. Nat \subseteq X
  <2> HIDE DEF X
  <2> QED
    BY <1>3, <1>4, NatSetInduction
<1> QED
  BY <1>1, <1>5

(* The sum over the empty set. *)
LEMMA SumEmpty ==
  ASSUME NEW f
  PROVE  SumFunctionOnSet(f, {}) = 0
<1>1. PICK g : IsSum(f, g, {}) /\ SumFunctionOnSet(f, {}) = g[{}]
  BY SumExists, SumIsRec, FS_EmptySet
<1>2. g[{}] = SumRec(f, g, {})
  BY <1>1 DEF IsSum
<1> QED
  BY <1>1, <1>2 DEF SumRec

(* The sum over another set: the value at one element of it, and the sum   *)
(* over the others.                                                        *)
LEMMA SumChosen ==
  ASSUME NEW f, NEW S, IsFiniteSet(S), S # {}
  PROVE  \E c \in S : SumFunctionOnSet(f, S) = f[c] + SumFunctionOnSet(f, S \ {c})
<1> DEFINE c == CHOOSE x \in S : TRUE
<1>1. c \in S /\ IsFiniteSet(S \ {c})
  BY ChosenRemoved
<1>2. PICK g : IsSum(f, g, S) /\ SumFunctionOnSet(f, S) = g[S]
  BY SumExists, SumIsRec
<1>3. PICK h : IsSum(f, h, S \ {c}) /\ SumFunctionOnSet(f, S \ {c}) = h[S \ {c}]
  <2> HIDE DEF c
  <2> QED
    BY <1>1, SumExists, SumIsRec
<1>4. g[S] = f[c] + g[S \ {c}]
  BY <1>2 DEF IsSum, SumRec
<1>5. g[S \ {c}] = h[S \ {c}]
  <2> HIDE DEF c
  <2> QED
    BY <1>2, <1>3, SumUnique
<1> HIDE DEF c
<1> QED
  BY <1>1, <1>2, <1>3, <1>4, <1>5

(* An integer for integers, and it does not matter which element is taken  *)
(* first.                                                                  *)
LEMMA SumAdd ==
  ASSUME NEW S, IsFiniteSet(S), NEW a, a \notin S, NEW f,
         \A x \in S \cup {a} : f[x] \in Int
  PROVE  /\ SumFunctionOnSet(f, S) \in Int
         /\ SumFunctionOnSet(f, S \cup {a}) = f[a] + SumFunctionOnSet(f, S)
<1> DEFINE Sum(s) == SumFunctionOnSet(f, s)
           P(s, b) == Sum(s) \in Int /\ (b \notin s => Sum(s \cup {b}) = f[b] + Sum(s))
           X == {n \in Nat : \A s \in SUBSET S : \A b \in S \cup {a} :
                                Cardinality(s) = n => P(s, b)}
<1>1. \A s \in SUBSET S : IsFiniteSet(s) /\ Cardinality(s) \in Nat
  BY FS_Subset, FS_CardinalityType
<1>2. 0 \in X
  <2> SUFFICES ASSUME NEW b \in S \cup {a} PROVE P({}, b)
    BY <1>1, FS_EmptySet
  <2>1. Sum({}) = 0
    BY SumEmpty
  <2>2. Sum({b}) = f[b] + Sum({b} \ {b})
    <3>1. IsFiniteSet({b}) /\ {b} # {}
      BY FS_Singleton
    <3> QED
      BY <3>1, SumChosen
  <2>3. Sum({b} \ {b}) = Sum({}) /\ Sum({} \cup {b}) = Sum({b})
    <3>1. {b} \ {b} = {} /\ {} \cup {b} = {b}
      OBVIOUS
    <3> QED
      BY <3>1
  <2> HIDE DEF Sum
  <2> QED
    BY <2>1, <2>2, <2>3
<1>3. ASSUME NEW n \in Nat, n \in X PROVE n + 1 \in X
  <2> SUFFICES ASSUME NEW s \in SUBSET S, NEW b \in S \cup {a}, Cardinality(s) = n + 1
               PROVE  P(s, b)
    OBVIOUS
  <2> HIDE DEF Sum
  <2>1. s # {} /\ IsFiniteSet(s)
    BY <1>1, FS_EmptySet
  <2>2. ASSUME NEW t \in SUBSET S, Cardinality(t) = n, NEW e \in S \cup {a}, e \notin t
        PROVE  Sum(t) \in Int /\ Sum(t \cup {e}) = f[e] + Sum(t)
    BY <1>3, <2>2
  <2>0. \A c \in s : Cardinality(s \ {c}) = n
    <3> SUFFICES ASSUME NEW c \in s PROVE Cardinality(s \ {c}) = n
      OBVIOUS
    <3>1. Cardinality(s \ {c}) = Cardinality(s) - 1
      BY <2>1, FS_RemoveElement
    <3> QED
      BY <3>1
  <2>3. PICK c \in s : Sum(s) = f[c] + Sum(s \ {c})
    BY <2>1, SumChosen DEF Sum
  <2>4. Sum(s \ {c}) \in Int /\ Sum(s) \in Int
    BY <2>0, <2>2, <2>3
  <2>5. ASSUME b \notin s PROVE Sum(s \cup {b}) = f[b] + Sum(s)
    <3> DEFINE u == s \cup {b}
    <3>1. IsFiniteSet(u) /\ u # {}
      BY <2>1, FS_AddElement
    <3>2. PICK d \in u : Sum(u) = f[d] + Sum(u \ {d})
      BY <3>1, SumChosen DEF Sum
    <3>3. CASE d = b
      <4>1. u \ {d} = s
        BY <2>5, <3>3
      <4> QED
        BY <3>2, <3>3, <4>1
    <3>4. CASE d # b
      <4>1. d \in s /\ u \ {d} = (s \ {d}) \cup {b} /\ s \ {d} \in SUBSET S
            /\ s = (s \ {d}) \cup {d}
        BY <2>5, <3>2, <3>4
      <4>2. Cardinality(s \ {d}) = n
        BY <2>0, <4>1
      <4>3. Sum(s \ {d}) \in Int /\ Sum(u \ {d}) = f[b] + Sum(s \ {d})
        BY <2>2, <2>5, <4>1, <4>2
      <4>4. Sum(s) = f[d] + Sum(s \ {d})
        BY <2>2, <4>1, <4>2
      <4>5. f[d] \in Int /\ f[b] \in Int
        BY <4>1
      <4> QED
        BY <3>2, <4>3, <4>4, <4>5
    <3> QED
      BY <3>3, <3>4
  <2> QED
    BY <2>4, <2>5
<1>4. Nat \subseteq X
  <2> HIDE DEF X
  <2> QED
    BY <1>2, <1>3, NatSetInduction
<1>5. P(S, a)
  BY <1>1, <1>4
<1> QED
  BY <1>5

(* The value at one element and the sum over the others. *)
LEMMA SumRemove ==
  ASSUME NEW S, IsFiniteSet(S), NEW a \in S, NEW f, \A x \in S : f[x] \in Int
  PROVE  /\ IsFiniteSet(S \ {a}) /\ SumFunctionOnSet(f, S \ {a}) \in Int
         /\ SumFunctionOnSet(f, S) = f[a] + SumFunctionOnSet(f, S \ {a})
<1>1. IsFiniteSet(S \ {a}) /\ S = (S \ {a}) \cup {a} /\ a \notin S \ {a}
  BY FS_RemoveElement
<1> QED
  BY <1>1, SumAdd

(* Greater values have a greater sum. *)
LEMMA SumMonotone ==
  ASSUME NEW S, IsFiniteSet(S), NEW f, NEW g,
         \A x \in S : f[x] \in Int /\ g[x] \in Int /\ f[x] <= g[x]
  PROVE  /\ SumFunctionOnSet(f, S) \in Int /\ SumFunctionOnSet(g, S) \in Int
         /\ SumFunctionOnSet(f, S) <= SumFunctionOnSet(g, S)
<1> DEFINE P(s) == /\ SumFunctionOnSet(f, s) \in Int /\ SumFunctionOnSet(g, s) \in Int
                   /\ SumFunctionOnSet(f, s) <= SumFunctionOnSet(g, s)
           X == {n \in Nat : \A s \in SUBSET S : Cardinality(s) = n => P(s)}
<1>1. \A s \in SUBSET S : IsFiniteSet(s) /\ Cardinality(s) \in Nat
  BY FS_Subset, FS_CardinalityType
<1>2. 0 \in X
  BY <1>1, FS_EmptySet, SumEmpty
<1>3. ASSUME NEW n \in Nat, n \in X PROVE n + 1 \in X
  <2> SUFFICES ASSUME NEW s \in SUBSET S, Cardinality(s) = n + 1 PROVE P(s)
    OBVIOUS
  <2>0. s # {}
    <3>1. Cardinality({}) = 0
      BY FS_EmptySet
    <3> QED
      BY <3>1
  <2>1. PICK c : c \in s
    BY <2>0
  <2>2. IsFiniteSet(s) /\ Cardinality(s \ {c}) = n /\ s \ {c} \in SUBSET S
    <3>1. IsFiniteSet(s)
      BY <1>1
    <3>2. Cardinality(s \ {c}) = Cardinality(s) - 1
      BY <2>1, <3>1, FS_RemoveElement
    <3> QED
      BY <3>1, <3>2
  <2>3. P(s \ {c})
    BY <1>3, <2>2
  <2>4. SumFunctionOnSet(f, s) = f[c] + SumFunctionOnSet(f, s \ {c})
    BY <2>1, <2>2, SumRemove
  <2>5. SumFunctionOnSet(g, s) = g[c] + SumFunctionOnSet(g, s \ {c})
    BY <2>1, <2>2, SumRemove
  <2> QED
    BY <2>1, <2>3, <2>4, <2>5
<1>4. Nat \subseteq X
  <2> HIDE DEF X
  <2> QED
    BY <1>2, <1>3, NatSetInduction
<1> QED
  BY <1>1, <1>4

(* The sum depends on the values only. *)
LEMMA SumSame ==
  ASSUME NEW S, IsFiniteSet(S), NEW f, NEW g, \A x \in S : f[x] \in Int /\ g[x] = f[x]
  PROVE  SumFunctionOnSet(f, S) = SumFunctionOnSet(g, S)
<1>1. SumFunctionOnSet(f, S) <= SumFunctionOnSet(g, S)
  BY SumMonotone
<1>2. SumFunctionOnSet(g, S) <= SumFunctionOnSet(f, S)
  BY SumMonotone
<1>3. SumFunctionOnSet(f, S) \in Int /\ SumFunctionOnSet(g, S) \in Int
  BY SumMonotone
<1> QED
  BY <1>1, <1>2, <1>3

(* Nothing adds up to nothing. *)
LEMMA SumZero ==
  ASSUME NEW S, IsFiniteSet(S), NEW f, \A x \in S : f[x] = 0
  PROVE  SumFunctionOnSet(f, S) = 0
<1> DEFINE X == {n \in Nat : \A s \in SUBSET S : Cardinality(s) = n =>
                                SumFunctionOnSet(f, s) = 0}
<1>1. \A s \in SUBSET S : IsFiniteSet(s) /\ Cardinality(s) \in Nat
  BY FS_Subset, FS_CardinalityType
<1>2. 0 \in X
  BY <1>1, FS_EmptySet, SumEmpty
<1>3. ASSUME NEW n \in Nat, n \in X PROVE n + 1 \in X
  <2> SUFFICES ASSUME NEW s \in SUBSET S, Cardinality(s) = n + 1
               PROVE  SumFunctionOnSet(f, s) = 0
    OBVIOUS
  <2>0. s # {}
    <3>1. Cardinality({}) = 0
      BY FS_EmptySet
    <3> QED
      BY <3>1
  <2>1. PICK c : c \in s
    BY <2>0
  <2>2. IsFiniteSet(s) /\ Cardinality(s \ {c}) = n /\ s \ {c} \in SUBSET S
    <3>1. IsFiniteSet(s)
      BY <1>1
    <3>2. Cardinality(s \ {c}) = Cardinality(s) - 1
      BY <2>1, <3>1, FS_RemoveElement
    <3> QED
      BY <3>1, <3>2
  <2>3. SumFunctionOnSet(f, s) = f[c] + SumFunctionOnSet(f, s \ {c})
    <3>1. \A x \in s : f[x] \in Int
      OBVIOUS
    <3> QED
      BY <2>1, <2>2, <3>1, SumRemove
  <2> QED
    BY <1>3, <2>1, <2>2, <2>3
<1>4. Nat \subseteq X
  <2> HIDE DEF X
  <2> QED
    BY <1>2, <1>3, NatSetInduction
<1> QED
  BY <1>1, <1>4

(* The sum over two sets with nothing in common. *)
LEMMA SumUnion ==
  ASSUME NEW S, IsFiniteSet(S), NEW T, IsFiniteSet(T), S \cap T = {}, NEW f,
         \A x \in S \cup T : f[x] \in Int
  PROVE  /\ SumFunctionOnSet(f, S) \in Int /\ SumFunctionOnSet(f, T) \in Int
         /\ SumFunctionOnSet(f, S \cup T) = SumFunctionOnSet(f, S) + SumFunctionOnSet(f, T)
<1> DEFINE Sum(s) == SumFunctionOnSet(f, s)
           P(t) == Sum(t) \in Int /\ Sum(S \cup t) = Sum(S) + Sum(t)
           X == {n \in Nat : \A t \in SUBSET T : Cardinality(t) = n => P(t)}
<1>0. Sum(S) \in Int
  BY SumMonotone
<1>1. \A t \in SUBSET T : IsFiniteSet(t) /\ Cardinality(t) \in Nat
  BY FS_Subset, FS_CardinalityType
<1>2. 0 \in X
  <2> SUFFICES ASSUME NEW t \in SUBSET T, Cardinality(t) = 0 PROVE P(t)
    OBVIOUS
  <2>1. t = {}
    BY <1>1, FS_EmptySet
  <2>2. Sum(S \cup t) = Sum(S)
    <3>1. S \cup t = S
      BY <2>1
    <3> QED
      BY ONLY <3>1
  <2>3. Sum(t) = 0
    BY <2>1, SumEmpty
  <2> HIDE DEF Sum
  <2> QED
    BY <1>0, <2>2, <2>3
<1>3. ASSUME NEW n \in Nat, n \in X PROVE n + 1 \in X
  <2> SUFFICES ASSUME NEW t \in SUBSET T, Cardinality(t) = n + 1 PROVE P(t)
    OBVIOUS
  <2>0. t # {}
    <3>1. Cardinality({}) = 0
      BY FS_EmptySet
    <3> QED
      BY <3>1
  <2>1. PICK c : c \in t
    BY <2>0
  <2>2. IsFiniteSet(t) /\ Cardinality(t \ {c}) = n /\ t \ {c} \in SUBSET T
    <3>1. IsFiniteSet(t)
      BY <1>1
    <3>2. Cardinality(t \ {c}) = Cardinality(t) - 1
      BY <2>1, <3>1, FS_RemoveElement
    <3> QED
      BY <3>1, <3>2
  <2>3. P(t \ {c})
    BY <1>3, <2>2
  <2>4. Sum(t) = f[c] + Sum(t \ {c})
    BY <2>1, <2>2, SumRemove
  <2>5. Sum(S \cup t) = f[c] + Sum(S \cup (t \ {c}))
    <3>1. IsFiniteSet(S \cup t)
      BY <2>2, FS_Union
    <3>2. (S \cup t) \ {c} = S \cup (t \ {c}) /\ c \in S \cup t
      BY <2>1
    <3>3. \A x \in S \cup t : f[x] \in Int
      OBVIOUS
    <3>4. Sum(S \cup t) = f[c] + Sum((S \cup t) \ {c})
      BY <3>1, <3>2, <3>3, SumRemove
    <3>5. Sum((S \cup t) \ {c}) = Sum(S \cup (t \ {c}))
      BY ONLY <3>2
    <3> QED
      BY <3>4, <3>5
  <2>6. f[c] \in Int
    BY <2>1
  <2> HIDE DEF Sum
  <2> QED
    BY <1>0, <2>3, <2>4, <2>5, <2>6
<1>4. Nat \subseteq X
  <2> HIDE DEF X
  <2> QED
    BY <1>2, <1>3, NatSetInduction
<1> QED
  BY <1>0, <1>1, <1>4

(* Natural numbers add up to one, which is at least each of them. *)
LEMMA SumNat ==
  ASSUME NEW S, IsFiniteSet(S), NEW f, \A x \in S : f[x] \in Nat
  PROVE  /\ SumFunctionOnSet(f, S) \in Nat
         /\ \A a \in S : f[a] <= SumFunctionOnSet(f, S)
<1>1. ASSUME NEW T, IsFiniteSet(T), T \subseteq S PROVE SumFunctionOnSet(f, T) \in Nat
  <2> DEFINE z == [x \in T |-> 0]
  <2>1. SumFunctionOnSet(z, T) = 0
    BY <1>1, SumZero
  <2>2. \A x \in T : z[x] \in Int /\ f[x] \in Int /\ z[x] <= f[x]
    BY <1>1
  <2>3. SumFunctionOnSet(f, T) \in Int /\ SumFunctionOnSet(z, T) <= SumFunctionOnSet(f, T)
    <3> HIDE DEF z
    <3> QED
      BY <1>1, <2>2, SumMonotone
  <2> QED
    BY <2>1, <2>3
<1>2. ASSUME NEW a \in S PROVE f[a] <= SumFunctionOnSet(f, S)
  <2>1. IsFiniteSet(S \ {a}) /\ SumFunctionOnSet(f, S) = f[a] + SumFunctionOnSet(f, S \ {a})
    <3>1. \A x \in S : f[x] \in Int
      OBVIOUS
    <3> QED
      BY <3>1, SumRemove
  <2>2. SumFunctionOnSet(f, S \ {a}) \in Nat
    BY <1>1, <2>1
  <2> QED
    BY <2>1, <2>2
<1> QED
  BY <1>1, <1>2

(* What a change of one value does to the sum. *)
LEMMA SumUpdate ==
  ASSUME NEW S, IsFiniteSet(S), NEW a \in S, NEW f, NEW g, \A x \in S : f[x] \in Int,
         g[a] \in Int, \A x \in S \ {a} : g[x] = f[x]
  PROVE  SumFunctionOnSet(g, S) = SumFunctionOnSet(f, S) - f[a] + g[a]
<1>1. SumFunctionOnSet(f, S) = f[a] + SumFunctionOnSet(f, S \ {a})
      /\ SumFunctionOnSet(f, S \ {a}) \in Int /\ IsFiniteSet(S \ {a})
  BY SumRemove
<1>2. SumFunctionOnSet(g, S) = g[a] + SumFunctionOnSet(g, S \ {a})
  BY SumRemove
<1>3. SumFunctionOnSet(f, S \ {a}) = SumFunctionOnSet(g, S \ {a})
  BY <1>1, SumSame
<1> QED
  BY <1>1, <1>2, <1>3

(* Sums of natural numbers over a part of a finite set. *)
LEMMA SumPart ==
  ASSUME NEW S, IsFiniteSet(S), NEW f \in [S -> Nat], NEW U \in SUBSET S
  PROVE  IsFiniteSet(U) /\ SumFunctionOnSet(f, U) \in Nat
<1>1. IsFiniteSet(U) /\ \A x \in U : f[x] \in Nat
  BY FS_Subset
<1> QED
  BY <1>1, SumNat

(* Counting one adds one to the sum, and at most one to a part of it. *)
LEMMA SumCount ==
  ASSUME NEW S, IsFiniteSet(S), NEW f \in [S -> Nat], NEW g \in [S -> Nat], NEW a \in S,
         g[a] = f[a] + 1, \A x \in S : x # a => g[x] = f[x], NEW U \in SUBSET S
  PROVE  /\ SumFunctionOnSet(g, S) = SumFunctionOnSet(f, S) + 1
         /\ \/ SumFunctionOnSet(g, U) = SumFunctionOnSet(f, U)
            \/ SumFunctionOnSet(g, U) = SumFunctionOnSet(f, U) + 1
<1>1. g \in [S -> Nat] /\ g[a] = f[a] + 1 /\ \A x \in S \ {a} : g[x] = f[x]
  OBVIOUS
<1>2. ASSUME NEW T \in SUBSET S, a \in T
      PROVE  SumFunctionOnSet(g, T) = SumFunctionOnSet(f, T) + 1
  <2>1. IsFiniteSet(T) /\ (\A x \in T : f[x] \in Int) /\ g[a] \in Int
        /\ \A x \in T \ {a} : g[x] = f[x]
    BY <1>1, FS_Subset
  <2>2. SumFunctionOnSet(g, T) = SumFunctionOnSet(f, T) - f[a] + g[a]
    BY ONLY <1>2, <2>1, SumUpdate
  <2>3. SumFunctionOnSet(f, T) \in Nat
    BY SumPart
  <2> QED
    BY <1>1, <2>2, <2>3
<1>3. ASSUME a \notin U PROVE SumFunctionOnSet(f, U) = SumFunctionOnSet(g, U)
  <2>1. IsFiniteSet(U) /\ \A x \in U : f[x] \in Int /\ g[x] = f[x]
    BY <1>1, <1>3, FS_Subset
  <2> QED
    BY <2>1, SumSame
<1> QED
  BY <1>2, <1>3

=============================================================================
