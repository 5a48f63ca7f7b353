-------------------------------- MODULE Sums --------------------------------
(***************************************************************************)
(* What the sums of the models are: facts about SumFunctionOnSet over      *)
(* finite sets, for functions with integer values.                         *)
(*                                                                         *)
(* The library's theorems on induction take an operator as a parameter,    *)
(* which no installed prover instantiates.  Induction is done here over a  *)
(* set F of the sets of which the claim holds, from the theorem that every *)
(* set of finite sets has a minimal element.                               *)
(***************************************************************************)
EXTENDS Integers, FiniteSets, Functions, FiniteSetTheorems, WellFoundedInduction, TLAPS

(* Strong induction over the subsets of a finite set. *)
LEMMA StrongSetInduction ==
  ASSUME NEW S, IsFiniteSet(S), NEW F,
         \A T \in SUBSET S : (\A U \in SUBSET T : U # T => U \in F) => T \in F
  PROVE  SUBSET S \subseteq F
  <1> DEFINE Bad == {T \in SUBSET S : T \notin F}
             R == StrictSubsetOrdering(S)
  <1>1. SUFFICES ASSUME Bad # {} PROVE FALSE
    OBVIOUS
  <1>2. FiniteSubsetsOf(S) = SUBSET S
    BY FS_FiniteSubsetsOfFinite
  <1>3. IsWellFoundedOn(R, SUBSET S)
    BY <1>2, FS_StrictSubsetOrderingWellFounded
  <1>4. Bad \subseteq SUBSET S
    OBVIOUS
  <1> HIDE DEF Bad, R
  <1>5. PICK T \in Bad : \A U \in Bad : <<U, T>> \notin R
    BY <1>1, <1>3, <1>4, WFMin
  <1> USE DEF Bad, R
  <1>6. \A U \in SUBSET T : U # T => <<U, T>> \in R
    BY <1>4, <1>5 DEF StrictSubsetOrdering
  <1>7. \A U \in SUBSET T : U # T => U \in F
    <2> SUFFICES ASSUME NEW U \in SUBSET T, U # T, U \notin F PROVE FALSE
      OBVIOUS
    <2>1. U \in Bad
      BY <1>5
    <2>2. <<U, T>> \in R /\ <<U, T>> \notin R
      BY <1>5, <1>6, <2>1
    <2>3. QED BY <2>2
  <1>8. T \in SUBSET S /\ T \notin F
    BY <1>5
  <1>9. T \in F
    BY <1>7, <1>8
  <1>10. QED BY <1>8, <1>9

(* Induction over a finite set, one element at a time. *)
LEMMA SetInduction ==
  ASSUME NEW S, IsFiniteSet(S), NEW F, {} \in F,
         \A T \in SUBSET S, x \in S : T \in F /\ x \notin T => T \cup {x} \in F
  PROVE  S \in F
  <1>1. ASSUME NEW T \in SUBSET S, \A U \in SUBSET T : U # T => U \in F
        PROVE  T \in F
    <2>1. CASE T = {}
      BY <2>1
    <2>2. CASE T # {}
      <3>1. PICK x : x \in T
        BY <2>2
      <3>2. T \ {x} \in F
        BY <1>1, <3>1
      <3>3. (T \ {x}) \cup {x} = T
        BY <3>1
      <3>4. QED BY <3>1, <3>2, <3>3
    <2>3. QED BY <2>1, <2>2
  <1>2. SUBSET S \subseteq F
    BY <1>1, StrongSetInduction
  <1>3. QED BY <1>2
-----------------------------------------------------------------------------
First(T) == CHOOSE x \in T : TRUE

(* g gives every subset of S the sum of f over it, taken first to last. *)
Sums(g, f, S) == g = [T \in SUBSET S |-> IF T = {} THEN 0 ELSE f[First(T)] + g[T \ {First(T)}]]

LEMMA SumIsChosen ==
  ASSUME NEW f, NEW S
  PROVE  SumFunctionOnSet(f, S) = (CHOOSE g : Sums(g, f, S))[S]
  BY Zenon DEF SumFunctionOnSet, FoldFunctionOnSet, MapThenFoldSet, Sums, First

LEMMA FirstIn ==
  ASSUME NEW T, T # {}
  PROVE  First(T) \in T /\ T \ {First(T)} \in SUBSET T /\ T \ {First(T)} # T
  BY DEF First

(* There is one such function, *)
LEMMA SumsUnique ==
  ASSUME NEW S, IsFiniteSet(S), NEW f, NEW g, NEW h, Sums(g, f, S), Sums(h, f, S)
  PROVE  g = h
  <1> DEFINE F == {T \in SUBSET S : g[T] = h[T]}
  <1>1. ASSUME NEW T \in SUBSET S, \A U \in SUBSET T : U # T => U \in F
        PROVE  T \in F
    <2>1. CASE T = {}
      BY <2>1 DEF Sums
    <2>2. CASE T # {}
      <3>1. g[T] = f[First(T)] + g[T \ {First(T)}] /\ h[T] = f[First(T)] + h[T \ {First(T)}]
        BY <2>2 DEF Sums
      <3>2. T \ {First(T)} \in F
        BY <1>1, <2>2, FirstIn
      <3>3. QED BY <3>1, <3>2
    <2>3. QED BY <2>1, <2>2
  <1> HIDE DEF F
  <1>2. SUBSET S \subseteq F
    BY <1>1, StrongSetInduction
  <1>3. \A T \in SUBSET S : g[T] = h[T]
    BY <1>2 DEF F
  <1>4. DOMAIN g = SUBSET S /\ DOMAIN h = SUBSET S /\ g = [T \in DOMAIN g |-> g[T]]
          /\ h = [T \in DOMAIN h |-> h[T]]
    BY DEF Sums
  <1>5. QED BY <1>3, <1>4

(* whose values on the subsets of T do not depend on S, *)
LEMMA SumsRestricted ==
  ASSUME NEW S, NEW T \in SUBSET S, NEW f, NEW g, Sums(g, f, S)
  PROVE  Sums([U \in SUBSET T |-> g[U]], f, T)
  <1> DEFINE h == [U \in SUBSET T |-> g[U]]
  <1>1. ASSUME NEW U \in SUBSET T
        PROVE  h[U] = IF U = {} THEN 0 ELSE f[First(U)] + h[U \ {First(U)}]
    <2>1. g[U] = IF U = {} THEN 0 ELSE f[First(U)] + g[U \ {First(U)}]
      BY DEF Sums
    <2>2. U # {} => U \ {First(U)} \in SUBSET T
      BY FirstIn
    <2>3. QED BY <2>1, <2>2
  <1>2. QED BY <1>1 DEF Sums

LEMMA SumsAgree ==
  ASSUME NEW S, IsFiniteSet(S), NEW T \in SUBSET S, NEW f, NEW g, Sums(g, f, S)
  PROVE  g[T] = SumFunctionOnSet(f, T)
  <1> DEFINE h == [U \in SUBSET T |-> g[U]]
             chosen == CHOOSE k : Sums(k, f, T)
  <1>1. Sums(h, f, T)
    BY SumsRestricted
  <1>2. h[T] = g[T]
    OBVIOUS
  <1> HIDE DEF h
  <1>3. Sums(chosen, f, T)
    BY <1>1
  <1>4. IsFiniteSet(T)
    BY FS_Subset
  <1> HIDE DEF chosen
  <1>5. chosen = h
    BY <1>1, <1>3, <1>4, SumsUnique
  <1>6. SumFunctionOnSet(f, T) = chosen[T]
    BY SumIsChosen DEF chosen
  <1>7. QED BY <1>2, <1>5, <1>6

(* and it exists. *)
LEMMA SumsExist ==
  ASSUME NEW S, IsFiniteSet(S), NEW f
  PROVE  \E g : Sums(g, f, S)
  <1> DEFINE F == {T \in SUBSET S : \E g : Sums(g, f, T)}
             sum(T) == SumFunctionOnSet(f, T)
  <1>1. ASSUME NEW T \in SUBSET S, \A U \in SUBSET T : U # T => U \in F
        PROVE  T \in F
    <2> DEFINE rest == T \ {First(T)}
               h == [U \in SUBSET T |->
                       IF U # T THEN sum(U)
                       ELSE IF T = {} THEN 0 ELSE f[First(T)] + sum(rest)]
    <2>1. ASSUME NEW U \in SUBSET T, U # T, U # {}
          PROVE  sum(U) = f[First(U)] + sum(U \ {First(U)})
      <3>1. PICK g : Sums(g, f, U)
        BY <1>1, <2>1
      <3>2. IsFiniteSet(U)
        BY FS_Subset
      <3>3. g[U] = sum(U) /\ g[U \ {First(U)}] = sum(U \ {First(U)})
        BY <2>1, <3>1, <3>2, FirstIn, SumsAgree
      <3>4. g[U] = f[First(U)] + g[U \ {First(U)}]
        BY <2>1, <3>1 DEF Sums
      <3>5. QED BY <3>3, <3>4
    <2>2. T # {} => sum({}) = 0
      <3>1. ASSUME T # {} PROVE sum({}) = 0
        <4>1. PICK g : Sums(g, f, {})
          BY <1>1, <3>1
        <4>2. g[{}] = 0
          BY <4>1 DEF Sums
        <4>3. QED BY <4>1, <4>2, FS_EmptySet, SumsAgree
      <3>2. QED BY <3>1
    <2>3. T # {} => rest \in SUBSET T /\ rest # T
      BY FirstIn
    <2>4. ASSUME NEW U \in SUBSET T
          PROVE  h[U] = IF U = {} THEN 0 ELSE f[First(U)] + h[U \ {First(U)}]
      <3> HIDE DEF sum
      <3>1. CASE U = T
        BY <2>3, <3>1
      <3>2. CASE U # T /\ U = {}
        BY <2>2, <3>2
      <3>3. CASE U # T /\ U # {}
        <4>1. U \ {First(U)} \in SUBSET T /\ U \ {First(U)} # T
          BY <3>3, FirstIn
        <4>2. QED BY <2>1, <3>3, <4>1
      <3>4. QED BY <3>1, <3>2, <3>3
    <2>5. Sums(h, f, T)
      BY <2>4 DEF Sums
    <2>6. QED BY <2>5
  <1> HIDE DEF F
  <1>2. SUBSET S \subseteq F
    BY <1>1, StrongSetInduction
  <1>3. QED BY <1>2 DEF F

LEMMA SumUnfolds ==
  ASSUME NEW S, IsFiniteSet(S), NEW f
  PROVE  /\ SumFunctionOnSet(f, {}) = 0
         /\ S # {} => SumFunctionOnSet(f, S) = f[First(S)] + SumFunctionOnSet(f, S \ {First(S)})
  <1>1. PICK g : Sums(g, f, S)
    BY SumsExist
  <1>2. g[{}] = 0 /\ (S # {} => g[S] = f[First(S)] + g[S \ {First(S)}])
    BY <1>1 DEF Sums
  <1>3. \A T \in SUBSET S : g[T] = SumFunctionOnSet(f, T)
    BY <1>1, SumsAgree
  <1>4. QED BY <1>2, <1>3
-----------------------------------------------------------------------------
Ints(f, S) == \A x \in S : f[x] \in Int

(* A sum of integers is one. *)
LEMMA SumType ==
  ASSUME NEW S, IsFiniteSet(S), NEW f, Ints(f, S)
  PROVE  SumFunctionOnSet(f, S) \in Int
  <1> DEFINE F == {T \in SUBSET S : SumFunctionOnSet(f, T) \in Int}
  <1>1. ASSUME NEW T \in SUBSET S, \A U \in SUBSET T : U # T => U \in F
        PROVE  T \in F
    <2>1. IsFiniteSet(T)
      BY FS_Subset
    <2>2. CASE T = {}
      BY <2>1, <2>2, SumUnfolds
    <2>3. CASE T # {}
      <3>1. SumFunctionOnSet(f, T) = f[First(T)] + SumFunctionOnSet(f, T \ {First(T)})
        BY <2>1, <2>3, SumUnfolds
      <3>2. f[First(T)] \in Int /\ T \ {First(T)} \in F
        BY <1>1, <2>3, FirstIn DEF Ints
      <3>3. QED BY <3>1, <3>2
    <2>4. QED BY <2>2, <2>3
  <1> HIDE DEF F
  <1>2. SUBSET S \subseteq F
    BY <1>1, StrongSetInduction
  <1>3. QED BY <1>2 DEF F

(* It does not matter which element is taken first. *)
LEMMA SumTakes ==
  ASSUME NEW S, IsFiniteSet(S), NEW f, Ints(f, S), NEW x \in S
  PROVE  SumFunctionOnSet(f, S) = f[x] + SumFunctionOnSet(f, S \ {x})
  <1> DEFINE sum(T) == SumFunctionOnSet(f, T)
             F == {T \in SUBSET S : \A y \in T : sum(T) = f[y] + sum(T \ {y})}
  <1>1. ASSUME NEW T \in SUBSET S, \A U \in SUBSET T : U # T => U \in F
        PROVE  T \in F
    <2> SUFFICES ASSUME NEW y \in T PROVE sum(T) = f[y] + sum(T \ {y})
      OBVIOUS
    <2> DEFINE z == First(T)
    <2>1. IsFiniteSet(T) /\ z \in T
      BY FirstIn, FS_Subset
    <2>2. sum(T) = f[z] + sum(T \ {z})
      BY <2>1, SumUnfolds
    <2>3. CASE y = z
      BY <2>2, <2>3
    <2>4. CASE y # z
      <3>1. T \ {z} \in F /\ T \ {y} \in F
        BY <1>1, <2>1
      <3>2. sum(T \ {z}) = f[y] + sum((T \ {z}) \ {y})
        BY <2>4, <3>1
      <3>3. sum(T \ {y}) = f[z] + sum((T \ {y}) \ {z})
        BY <2>1, <2>4, <3>1
      <3>4. (T \ {z}) \ {y} = (T \ {y}) \ {z}
        OBVIOUS
      <3>5. IsFiniteSet((T \ {y}) \ {z}) /\ Ints(f, (T \ {y}) \ {z})
        BY <2>1, FS_Subset DEF Ints
      <3>6. sum((T \ {y}) \ {z}) \in Int /\ f[y] \in Int /\ f[z] \in Int
        BY <2>1, <3>5, SumType DEF Ints
      <3> HIDE DEF sum, z
      <3>7. PICK a \in Int, b \in Int, c \in Int : a = f[y] /\ b = f[z] /\ c = sum((T \ {y}) \ {z})
        BY <3>6
      <3>8. sum(T \ {z}) = a + c /\ sum(T \ {y}) = b + c
        BY <3>2, <3>3, <3>4, <3>7
      <3>9. sum(T) = b + (a + c)
        BY <2>2, <3>7, <3>8
      <3>10. sum(T) = a + (b + c)
        BY <3>9
      <3>11. QED BY <3>7, <3>8, <3>10
    <2>5. QED BY <2>3, <2>4
  <1> HIDE DEF F
  <1>2. SUBSET S \subseteq F
    BY <1>1, StrongSetInduction
  <1>3. QED BY <1>2 DEF F

LEMMA SumAdds ==
  ASSUME NEW S, IsFiniteSet(S), NEW x, x \notin S, NEW f, Ints(f, S), f[x] \in Int
  PROVE  /\ SumFunctionOnSet(f, S \cup {x}) = SumFunctionOnSet(f, S) + f[x]
         /\ SumFunctionOnSet(f, S) \in Int
  <1>1. IsFiniteSet(S \cup {x}) /\ Ints(f, S \cup {x})
    BY FS_AddElement DEF Ints
  <1>2. (S \cup {x}) \ {x} = S
    OBVIOUS
  <1>3. SumFunctionOnSet(f, S \cup {x}) = f[x] + SumFunctionOnSet(f, (S \cup {x}) \ {x})
    BY <1>1, SumTakes
  <1>4. SumFunctionOnSet(f, S) \in Int
    BY SumType
  <1>5. PICK a \in Int, b \in Int : a = f[x] /\ b = SumFunctionOnSet(f, S)
    BY <1>4
  <1>6. SumFunctionOnSet(f, S \cup {x}) = a + b
    BY <1>2, <1>3, <1>5
  <1>7. QED BY <1>5, <1>6

(* The sum reads nothing but the values on S. *)
LEMMA SumSame ==
  ASSUME NEW S, IsFiniteSet(S), NEW f, NEW g, \A x \in S : f[x] = g[x]
  PROVE  SumFunctionOnSet(f, S) = SumFunctionOnSet(g, S)
  <1> DEFINE F == {T \in SUBSET S : SumFunctionOnSet(f, T) = SumFunctionOnSet(g, T)}
  <1>1. ASSUME NEW T \in SUBSET S, \A U \in SUBSET T : U # T => U \in F
        PROVE  T \in F
    <2>1. IsFiniteSet(T)
      BY FS_Subset
    <2>2. CASE T = {}
      BY <2>1, <2>2, SumUnfolds
    <2>3. CASE T # {}
      <3>1. /\ SumFunctionOnSet(f, T) = f[First(T)] + SumFunctionOnSet(f, T \ {First(T)})
            /\ SumFunctionOnSet(g, T) = g[First(T)] + SumFunctionOnSet(g, T \ {First(T)})
        BY <2>1, <2>3, SumUnfolds
      <3>2. First(T) \in S /\ T \ {First(T)} \in F
        BY <1>1, <2>3, FirstIn
      <3>3. f[First(T)] = g[First(T)]
        BY <3>2
      <3>4. QED BY <3>1, <3>2, <3>3
    <2>4. QED BY <2>2, <2>3
  <1> HIDE DEF F
  <1>2. SUBSET S \subseteq F
    BY <1>1, StrongSetInduction
  <1>3. QED BY <1>2 DEF F

LEMMA SumNone ==
  ASSUME NEW f
  PROVE  SumFunctionOnSet(f, {}) = 0
  BY FS_EmptySet, SumUnfolds

LEMMA SumOne ==
  ASSUME NEW f, NEW x, f[x] \in Int
  PROVE  SumFunctionOnSet(f, {x}) = f[x]
  <1>1. IsFiniteSet({}) /\ Ints(f, {}) /\ x \notin {} /\ {} \cup {x} = {x}
    BY FS_EmptySet DEF Ints
  <1>2. SumFunctionOnSet(f, {} \cup {x}) = SumFunctionOnSet(f, {}) + f[x]
    BY <1>1, SumAdds
  <1>3. QED BY <1>1, <1>2, SumNone

(* The sum of a pointwise sum. *)
LEMMA SumPlus ==
  ASSUME NEW S, IsFiniteSet(S), NEW f, NEW g, NEW h, Ints(f, S), Ints(g, S),
         \A x \in S : h[x] = f[x] + g[x]
  PROVE  SumFunctionOnSet(h, S) = SumFunctionOnSet(f, S) + SumFunctionOnSet(g, S)
  <1> DEFINE sum(k, T) == SumFunctionOnSet(k, T)
             F == {T \in SUBSET S : sum(h, T) = sum(f, T) + sum(g, T)}
  <1>1. {} \in F
    BY SumNone
  <1>2. ASSUME NEW T \in SUBSET S, NEW x \in S, T \in F, x \notin T
        PROVE  T \cup {x} \in F
    <2>1. /\ IsFiniteSet(T) /\ Ints(f, T) /\ Ints(g, T) /\ Ints(h, T)
          /\ f[x] \in Int /\ g[x] \in Int /\ h[x] \in Int
      BY FS_Subset DEF Ints
    <2>2. /\ sum(f, T \cup {x}) = sum(f, T) + f[x] /\ sum(f, T) \in Int
          /\ sum(g, T \cup {x}) = sum(g, T) + g[x] /\ sum(g, T) \in Int
          /\ sum(h, T \cup {x}) = sum(h, T) + h[x]
      BY <1>2, <2>1, SumAdds
    <2>3. sum(h, T) = sum(f, T) + sum(g, T) /\ h[x] = f[x] + g[x]
      BY <1>2
    <2> HIDE DEF sum
    <2>4. sum(h, T \cup {x}) = sum(f, T \cup {x}) + sum(g, T \cup {x})
      BY <2>1, <2>2, <2>3
    <2>5. QED BY <2>4
  <1> HIDE DEF F
  <1>3. S \in F
    BY <1>1, <1>2, SetInduction
  <1>4. QED BY <1>3 DEF F

LEMMA SumZero ==
  ASSUME NEW S, IsFiniteSet(S), NEW f, \A x \in S : f[x] = 0
  PROVE  SumFunctionOnSet(f, S) = 0
  <1> DEFINE F == {T \in SUBSET S : SumFunctionOnSet(f, T) = 0}
  <1>1. {} \in F
    BY SumNone
  <1>2. ASSUME NEW T \in SUBSET S, NEW x \in S, T \in F, x \notin T
        PROVE  T \cup {x} \in F
    <2>1. IsFiniteSet(T) /\ Ints(f, T) /\ f[x] \in Int
      BY FS_Subset DEF Ints
    <2>2. SumFunctionOnSet(f, T \cup {x}) = SumFunctionOnSet(f, T) + f[x]
      BY <1>2, <2>1, SumAdds
    <2>3. QED BY <1>2, <2>2
  <1> HIDE DEF F
  <1>3. S \in F
    BY <1>1, <1>2, SetInduction
  <1>4. QED BY <1>3 DEF F

LEMMA SumNat ==
  ASSUME NEW S, IsFiniteSet(S), NEW f, \A x \in S : f[x] \in Nat
  PROVE  SumFunctionOnSet(f, S) \in Nat
  <1> DEFINE F == {T \in SUBSET S : SumFunctionOnSet(f, T) \in Nat}
  <1>1. {} \in F
    BY SumNone
  <1>2. ASSUME NEW T \in SUBSET S, NEW x \in S, T \in F, x \notin T
        PROVE  T \cup {x} \in F
    <2>1. IsFiniteSet(T) /\ Ints(f, T) /\ f[x] \in Int
      BY FS_Subset DEF Ints
    <2>2. SumFunctionOnSet(f, T \cup {x}) = SumFunctionOnSet(f, T) + f[x]
      BY <1>2, <2>1, SumAdds
    <2>3. PICK a \in Nat, b \in Nat : a = SumFunctionOnSet(f, T) /\ b = f[x]
      BY <1>2
    <2>4. SumFunctionOnSet(f, T \cup {x}) \in Nat
      BY <2>2, <2>3
    <2>5. QED BY <2>4
  <1> HIDE DEF F
  <1>3. S \in F
    BY <1>1, <1>2, SetInduction
  <1>4. QED BY <1>3 DEF F

(* Two disjoint sets. *)
LEMMA SumUnion ==
  ASSUME NEW A, NEW B, IsFiniteSet(A), IsFiniteSet(B), A \cap B = {},
         NEW f, Ints(f, A), Ints(f, B)
  PROVE  SumFunctionOnSet(f, A \cup B) = SumFunctionOnSet(f, A) + SumFunctionOnSet(f, B)
  <1> DEFINE sum(T) == SumFunctionOnSet(f, T)
             F == {T \in SUBSET B : sum(A \cup T) = sum(A) + sum(T)}
  <1>1. {} \in F
    <2>1. sum(A) \in Int /\ sum({}) = 0 /\ A \cup {} = A
      BY SumNone, SumType
    <2>2. QED BY <2>1
  <1>2. ASSUME NEW T \in SUBSET B, NEW x \in B, T \in F, x \notin T
        PROVE  T \cup {x} \in F
    <2>1. IsFiniteSet(T) /\ Ints(f, T) /\ f[x] \in Int
      BY FS_Subset DEF Ints
    <2>2. IsFiniteSet(A \cup T) /\ Ints(f, A \cup T) /\ x \notin A \cup T
      BY <1>2, <2>1, FS_Union DEF Ints
    <2>3. sum(T \cup {x}) = sum(T) + f[x] /\ sum(T) \in Int
      BY <1>2, <2>1, SumAdds
    <2>4. sum((A \cup T) \cup {x}) = sum(A \cup T) + f[x]
      BY <2>1, <2>2, SumAdds
    <2>5. sum(A \cup T) = sum(A) + sum(T) /\ sum(A) \in Int
      BY <1>2, SumType
    <2>6. (A \cup T) \cup {x} = A \cup (T \cup {x})
      OBVIOUS
    <2> HIDE DEF sum
    <2>7. PICK a \in Int, b \in Int, c \in Int : a = sum(A) /\ b = sum(T) /\ c = f[x]
      BY <2>1, <2>3, <2>5
    <2>8. sum(T \cup {x}) = b + c /\ sum(A \cup T) = a + b
      BY <2>3, <2>5, <2>7
    <2>9. sum(A \cup (T \cup {x})) = (a + b) + c
      BY <2>4, <2>6, <2>7, <2>8
    <2>10. sum(A \cup (T \cup {x})) = sum(A) + sum(T \cup {x})
      BY <2>7, <2>8, <2>9
    <2> USE DEF sum
    <2>11. QED BY <2>10
  <1> HIDE DEF F
  <1>3. B \in F
    BY <1>1, <1>2, SetInduction
  <1>4. QED BY <1>3 DEF F

(* One value changes. *)
LEMMA SumChanged ==
  ASSUME NEW S, IsFiniteSet(S), NEW f, NEW g, Ints(f, S), NEW x \in S, g[x] \in Int,
         \A y \in S \ {x} : g[y] = f[y]
  PROVE  SumFunctionOnSet(g, S) = SumFunctionOnSet(f, S) + (g[x] - f[x])
  <1> DEFINE rest == SumFunctionOnSet(f, S \ {x})
  <1>1. Ints(g, S) /\ IsFiniteSet(S \ {x}) /\ Ints(f, S \ {x})
    BY FS_Subset DEF Ints
  <1>2. SumFunctionOnSet(g, S \ {x}) = rest
    BY <1>1, SumSame
  <1>3. SumFunctionOnSet(g, S) = g[x] + SumFunctionOnSet(g, S \ {x})
    BY <1>1, SumTakes
  <1>4. SumFunctionOnSet(f, S) = f[x] + rest
    BY SumTakes
  <1>5. rest \in Int /\ f[x] \in Int
    BY <1>1, SumType DEF Ints
  <1> HIDE DEF rest
  <1>6. PICK a \in Int, b \in Int, r \in Int : a = f[x] /\ b = g[x] /\ r = rest
    BY <1>5
  <1>7. SumFunctionOnSet(g, S) = b + r /\ SumFunctionOnSet(f, S) = a + r
    BY <1>2, <1>3, <1>4, <1>6
  <1>8. QED BY <1>6, <1>7

(* Summed by groups: the members of S are told apart by their keys in K. *)
LEMMA SumGroups ==
  ASSUME NEW K, IsFiniteSet(K), NEW S, IsFiniteSet(S), NEW f, Ints(f, S),
         NEW key, \A n \in S : key[n] \in K
  PROVE  SumFunctionOnSet([k \in K |-> SumFunctionOnSet(f, {n \in S : key[n] = k})], K)
           = SumFunctionOnSet(f, S)
  <1> DEFINE part(k) == {n \in S : key[n] = k}
             upTo(L) == {n \in S : key[n] \in L}
             g == [k \in K |-> SumFunctionOnSet(f, part(k))]
             F == {L \in SUBSET K : SumFunctionOnSet(g, L) = SumFunctionOnSet(f, upTo(L))}
  <1>0. \A T \in SUBSET S : IsFiniteSet(T) /\ Ints(f, T) /\ SumFunctionOnSet(f, T) \in Int
    <2> TAKE T \in SUBSET S
    <2>1. IsFiniteSet(T) /\ Ints(f, T)
      BY FS_Subset DEF Ints
    <2>2. QED BY <2>1, SumType
  <1>1. {} \in F
    <2>1. upTo({}) = {}
      OBVIOUS
    <2>2. QED BY <2>1, SumNone
  <1>2. ASSUME NEW L \in SUBSET K, NEW k \in K, L \in F, k \notin L
        PROVE  L \cup {k} \in F
    <2>1. \A j \in K : part(j) \in SUBSET S /\ g[j] = SumFunctionOnSet(f, part(j))
      OBVIOUS
    <2>2. /\ upTo(L) \in SUBSET S /\ part(k) \in SUBSET S
          /\ upTo(L) \cap part(k) = {} /\ upTo(L) \cup part(k) = upTo(L \cup {k})
      BY <1>2
    <2>3. SumFunctionOnSet(g, L) = SumFunctionOnSet(f, upTo(L))
      BY <1>2
    <2> HIDE DEF part, upTo, g
    <2>4. IsFiniteSet(L) /\ Ints(g, L) /\ g[k] \in Int
      BY <1>0, <2>1, FS_Subset DEF Ints
    <2>5. SumFunctionOnSet(g, L \cup {k}) = SumFunctionOnSet(g, L) + g[k]
      BY <1>2, <2>4, SumAdds
    <2>6. SumFunctionOnSet(f, upTo(L) \cup part(k))
            = SumFunctionOnSet(f, upTo(L)) + SumFunctionOnSet(f, part(k))
      BY <1>0, <2>2, SumUnion
    <2>7. SumFunctionOnSet(g, L \cup {k}) = SumFunctionOnSet(f, upTo(L \cup {k}))
      BY <2>1, <2>2, <2>3, <2>5, <2>6
    <2>8. QED BY <2>7
  <1> HIDE DEF F
  <1>3. K \in F
    BY <1>1, <1>2, SetInduction
  <1>4. upTo(K) = S
    OBVIOUS
  <1>5. QED BY <1>3, <1>4 DEF F


(* The sum of the opposites. *)
LEMMA SumOpposite ==
  ASSUME NEW S, IsFiniteSet(S), NEW f, NEW g, Ints(f, S), \A x \in S : g[x] = -f[x]
  PROVE  SumFunctionOnSet(g, S) = -SumFunctionOnSet(f, S)
  <1> DEFINE zero == [x \in S |-> 0]
  <1>1. Ints(g, S) /\ \A x \in S : zero[x] = f[x] + g[x]
    BY DEF Ints
  <1>2. SumFunctionOnSet(zero, S) = 0
    BY SumZero
  <1> HIDE DEF zero
  <1>3. SumFunctionOnSet(zero, S) = SumFunctionOnSet(f, S) + SumFunctionOnSet(g, S)
    BY <1>1, SumPlus
  <1>4. PICK a \in Int, b \in Int : a = SumFunctionOnSet(f, S) /\ b = SumFunctionOnSet(g, S)
    BY <1>1, SumType
  <1>5. QED BY <1>2, <1>3, <1>4

(* A function that is zero outside a part of the set sums over the part. *)
LEMMA SumPart ==
  ASSUME NEW S, IsFiniteSet(S), NEW A \in SUBSET S, NEW f, Ints(f, A), \A x \in S \ A : f[x] = 0
  PROVE  SumFunctionOnSet(f, S) = SumFunctionOnSet(f, A)
  <1> DEFINE B == S \ A
  <1>1. IsFiniteSet(A) /\ IsFiniteSet(B)
    BY FS_Subset
  <1>2. Ints(f, B) /\ A \cap B = {} /\ A \cup B = S /\ \A x \in B : f[x] = 0
    BY DEF Ints
  <1> HIDE DEF B
  <1>3. SumFunctionOnSet(f, S) = SumFunctionOnSet(f, A) + SumFunctionOnSet(f, B)
    BY <1>1, <1>2, SumUnion
  <1>4. SumFunctionOnSet(f, B) = 0 /\ SumFunctionOnSet(f, A) \in Int
    BY <1>1, <1>2, SumZero, SumType
  <1>5. QED BY <1>3, <1>4

(* One that counts a part of the set once more and another once less than   *)
(* nothing sums to the difference of the two.                               *)
LEMMA SumDifference ==
  ASSUME NEW S, IsFiniteSet(S), NEW A \in SUBSET S, NEW B \in SUBSET S, A \cap B = {},
         NEW e, Ints(e, S), NEW f,
         \A x \in S : f[x] = IF x \in A THEN e[x] ELSE IF x \in B THEN -e[x] ELSE 0
  PROVE  SumFunctionOnSet(f, S) = SumFunctionOnSet(e, A) - SumFunctionOnSet(e, B)
  <1>1. IsFiniteSet(A) /\ IsFiniteSet(B) /\ IsFiniteSet(A \cup B)
    BY FS_Subset
  <1>2. Ints(e, A) /\ Ints(e, B) /\ Ints(f, A) /\ Ints(f, B) /\ Ints(f, A \cup B)
    BY DEF Ints
  <1>3. (\A x \in A : e[x] = f[x]) /\ (\A x \in B : f[x] = -e[x]) /\ \A x \in S \ (A \cup B) : f[x] = 0
    OBVIOUS
  <1>4. SumFunctionOnSet(f, S) = SumFunctionOnSet(f, A \cup B)
    BY <1>2, <1>3, SumPart
  <1>5. SumFunctionOnSet(f, A \cup B) = SumFunctionOnSet(f, A) + SumFunctionOnSet(f, B)
    BY <1>1, <1>2, SumUnion
  <1>6. SumFunctionOnSet(e, A) = SumFunctionOnSet(f, A)
    BY <1>1, <1>3, SumSame
  <1>7. SumFunctionOnSet(f, B) = -SumFunctionOnSet(e, B)
    BY <1>1, <1>2, <1>3, SumOpposite
  <1>8. PICK a \in Int, b \in Int : a = SumFunctionOnSet(e, A) /\ b = SumFunctionOnSet(e, B)
    BY <1>1, <1>2, SumType
  <1>9. QED BY <1>4, <1>5, <1>6, <1>7, <1>8

=============================================================================
