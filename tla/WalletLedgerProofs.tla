------------------------- MODULE WalletLedgerProofs -------------------------
(***************************************************************************)
(* Proofs about WalletLedger, for any units, amounts, costs and proceeds   *)
(* and any number and order of trades and movements.                       *)
(*                                                                         *)
(* The first two parts are about sums: induction over the naturals and     *)
(* over the subsets of a finite set, both from the well-foundedness of     *)
(* their orders, and what SumFunctionOnSet computes.                       *)
(***************************************************************************)
EXTENDS WalletLedger, FiniteSetTheorems, TLAPS

----------------------------------------------------------------------------
(* Induction, over sets instead of predicates. *)

LEMMA Inductive ==
  ASSUME NEW T, 0 \in T, \A n \in Nat : n \in T => n + 1 \in T
  PROVE  Nat \subseteq T
<1> SUFFICES ASSUME Nat \ T # {} PROVE FALSE OBVIOUS
<1> DEFINE R == OpToRel(<, Nat)
<1>1. IsWellFoundedOn(R, Nat) BY NatLessThanWellFounded, Zenon
<1>2. \A y, x \in Nat : y < x => <<y, x>> \in R BY DEF OpToRel
<1> HIDE DEF R
<1>3. PICK x \in Nat \ T : \A y \in Nat \ T : ~(<<y, x>> \in R) BY <1>1, WFMin
<1>4. x # 0 /\ x - 1 \in Nat BY <1>3
<1>5. <<x - 1, x>> \in R BY <1>2, <1>4
<1>6. x - 1 \in T BY <1>3, <1>4, <1>5
<1> QED BY <1>3, <1>4, <1>6

LEMMA SubsetsDescend ==
  ASSUME NEW S, IsFiniteSet(S)
  PROVE  IsWellFoundedOn(StrictSubsetOrdering(S), SUBSET S)
BY FS_StrictSubsetOrderingWellFounded, FS_FiniteSubsetsOfFinite

LEMMA Descent ==
  ASSUME NEW S, IsFiniteSet(S), NEW T,
         \A s \in SUBSET S : (\A r \in SUBSET s : r # s => r \in T) => s \in T
  PROVE  SUBSET S \subseteq T
<1> DEFINE R == StrictSubsetOrdering(S)
           U == (SUBSET S) \ T
<1>1. IsWellFoundedOn(R, SUBSET S) BY SubsetsDescend
<1>2. \A r, s \in SUBSET S : r \subseteq s /\ r # s => <<r, s>> \in R BY DEF StrictSubsetOrdering
<1>3. U \subseteq SUBSET S OBVIOUS
<1> HIDE DEF R
<1>4. SUFFICES ASSUME U # {} PROVE FALSE OBVIOUS
<1>5. PICK s \in U : \A y \in U : ~(<<y, s>> \in R)
  <2> HIDE DEF U
  <2> QED BY <1>1, <1>3, <1>4, WFMin
<1>6. ASSUME NEW r \in SUBSET s, r # s PROVE r \in T
  <2>1. r \in SUBSET S BY <1>5
  <2> QED BY <2>1, <1>2, <1>5, <1>6
<1> QED BY <1>5, <1>6

Pick(s) == CHOOSE x \in s : TRUE

Below(f, g, s) == IF s = {} THEN 0 ELSE f[Pick(s)] + g[s \ {Pick(s)}]

LEMMA PickIn == \A s : s # {} => Pick(s) \in s
BY DEF Pick

LEMMA IterExists ==
  ASSUME NEW f, NEW S, IsFiniteSet(S), \A i \in S : f[i] \in Int
  PROVE  \E g \in [SUBSET S -> Int] : \A s \in SUBSET S : g[s] = Below(f, g, s)
<1> DEFINE Good(n) == \E g \in [SUBSET S -> Int] :
             \A s \in SUBSET S : Cardinality(s) <= n => g[s] = Below(f, g, s)
           T == {n \in Nat : Good(n)}
<1>c. \A s \in SUBSET S : IsFiniteSet(s) /\ Cardinality(s) \in Nat /\ (s = {} <=> Cardinality(s) = 0)
  BY FS_Subset, FS_CardinalityType, FS_EmptySet
<1>d. \A s \in SUBSET S : s # {} =>
         /\ Pick(s) \in S /\ f[Pick(s)] \in Int
         /\ s \ {Pick(s)} \in SUBSET S
         /\ Cardinality(s \ {Pick(s)}) = Cardinality(s) - 1
  BY <1>c, PickIn, FS_RemoveElement
<1>1. 0 \in T
  <2> DEFINE g == [s \in SUBSET S |-> 0]
  <2>1. \A s \in SUBSET S : Cardinality(s) <= 0 => g[s] = Below(f, g, s) BY <1>c DEF Below
  <2>2. g \in [SUBSET S -> Int] OBVIOUS
  <2> QED BY <2>1, <2>2
<1>2. ASSUME NEW n \in Nat, n \in T PROVE n + 1 \in T
  <2>1. PICK g \in [SUBSET S -> Int] : \A s \in SUBSET S : Cardinality(s) <= n => g[s] = Below(f, g, s)
    BY <1>2
  <2> DEFINE h == [s \in SUBSET S |-> IF Cardinality(s) = n + 1 THEN Below(f, g, s) ELSE g[s]]
  <2>2. ASSUME NEW s \in SUBSET S PROVE Below(f, g, s) \in Int
    <3>1. CASE s = {} BY <3>1 DEF Below
    <3>2. CASE s # {}
      <4>1. f[Pick(s)] \in Int /\ g[s \ {Pick(s)}] \in Int BY <1>d, <3>2
      <4> QED BY <4>1, <3>2 DEF Below
    <3> QED BY <3>1, <3>2
  <2>3. h \in [SUBSET S -> Int] BY <2>2
  <2>4. \A s \in SUBSET S : Cardinality(s) <= n + 1 => Below(f, h, s) = Below(f, g, s)
    BY <1>c, <1>d DEF Below
  <2>5. ASSUME NEW s \in SUBSET S, Cardinality(s) <= n + 1 PROVE h[s] = Below(f, h, s)
    <3>0. Below(f, h, s) = Below(f, g, s) BY <2>4, <2>5
    <3>1. CASE Cardinality(s) = n + 1 BY <3>0, <3>1
    <3>2. CASE Cardinality(s) # n + 1
      <4>1. Cardinality(s) <= n BY <1>c, <2>5, <3>2
      <4> QED BY <4>1, <3>0, <3>2, <2>1
    <3> QED BY <3>1, <3>2
  <2> HIDE DEF h
  <2>6. Good(n + 1) BY <2>3, <2>5
  <2> QED BY <2>6
<1>3. Nat \subseteq T
  <2> HIDE DEF T
  <2> QED BY <1>1, <1>2, Inductive
<1>4. Good(Cardinality(S)) BY <1>3, FS_CardinalityType
<1>5. \A s \in SUBSET S : Cardinality(s) <= Cardinality(S) BY FS_Subset
<1> QED BY <1>4, <1>5

\* g holds the sum of f over each subset of S.
Sums(g, f, S) == \A s \in SUBSET S : g[s] = Below(f, g, s)

LEMMA SumsUnique ==
  ASSUME NEW f, NEW S, IsFiniteSet(S), NEW g, NEW h, Sums(g, f, S), Sums(h, f, S)
  PROVE  \A s \in SUBSET S : g[s] = h[s]
<1>0. \A s \in SUBSET S : g[s] = Below(f, g, s) /\ h[s] = Below(f, h, s) BY DEF Sums
<1> DEFINE T == {s \in SUBSET S : g[s] = h[s]}
<1>1. ASSUME NEW s \in SUBSET S, \A r \in SUBSET s : r # s => r \in T PROVE s \in T
  <2>1. CASE s = {} BY <2>1, <1>0 DEF Below
  <2>2. CASE s # {}
    <3>1. s \ {Pick(s)} \in T BY <1>1, <2>2, PickIn
    <3> QED BY <3>1, <2>2, <1>0 DEF Below
  <2> QED BY <2>1, <2>2
<1> HIDE DEF T
<1>2. SUBSET S \subseteq T BY <1>1, Descent
<1> QED BY <1>2 DEF T

LEMMA SumIs ==
  ASSUME NEW f, NEW S, IsFiniteSet(S), \A i \in S : f[i] \in Int
  PROVE  \E g \in [SUBSET S -> Int] :
           SumFunctionOnSet(f, S) = g[S] /\ \A s \in SUBSET S : g[s] = Below(f, g, s)
<1> DEFINE Def(g) == [s \in SUBSET S |-> IF s = {} THEN 0
                         ELSE f[CHOOSE x \in s : TRUE] + g[s \ {CHOOSE x \in s : TRUE}]]
           iter == CHOOSE g : g = Def(g)
<1>1. SumFunctionOnSet(f, S) = iter[S]
  BY DEF SumFunctionOnSet, FoldFunctionOnSet, MapThenFoldSet
<1>2. PICK g \in [SUBSET S -> Int] : \A s \in SUBSET S : g[s] = Below(f, g, s) BY IterExists
<1>3. g = Def(g) BY <1>2 DEF Below, Pick
<1>4. iter = Def(iter) BY <1>3, Zenon
<1> HIDE DEF iter
<1>5. \A s \in SUBSET S : iter[s] = Below(f, iter, s) BY <1>4 DEF Below, Pick
<1>6. \A s \in SUBSET S : iter[s] = g[s]
  <2>1. Sums(iter, f, S) /\ Sums(g, f, S) BY <1>2, <1>5 DEF Sums
  <2> QED BY <2>1, SumsUnique
<1>7. SumFunctionOnSet(f, S) = g[S] BY <1>1, <1>6
<1> QED BY <1>2, <1>7

LEMMA SumOfNone == ASSUME NEW f PROVE SumFunctionOnSet(f, {}) = 0
<1>1. IsFiniteSet({}) BY FS_EmptySet
<1>2. PICK g \in [SUBSET {} -> Int] :
        SumFunctionOnSet(f, {}) = g[{}] /\ \A s \in SUBSET {} : g[s] = Below(f, g, s)
  BY <1>1, SumIs
<1> QED BY <1>2 DEF Below
LEMMA SumOfMore ==
  ASSUME NEW f, NEW S, IsFiniteSet(S), \A i \in S : f[i] \in Int,
         NEW R \in SUBSET S, NEW x \in S \ R
  PROVE  SumFunctionOnSet(f, R \cup {x}) = f[x] + SumFunctionOnSet(f, R)
<1>1. PICK g \in [SUBSET S -> Int] : \A s \in SUBSET S : g[s] = Below(f, g, s) BY IterExists
<1>2. ASSUME NEW s \in SUBSET S PROVE SumFunctionOnSet(f, s) = g[s]
  <2>1. IsFiniteSet(s) /\ \A i \in s : f[i] \in Int BY FS_Subset
  <2>2. PICK h \in [SUBSET s -> Int] :
          SumFunctionOnSet(f, s) = h[s] /\ \A r \in SUBSET s : h[r] = Below(f, h, r)
    BY <2>1, SumIs
  <2>3. Sums(g, f, s) /\ Sums(h, f, s) BY <1>1, <2>2 DEF Sums
  <2>4. \A r \in SUBSET s : g[r] = h[r] BY <2>1, <2>3, SumsUnique
  <2> QED BY <2>2, <2>4
<1> DEFINE T == {s \in SUBSET S : \A y \in s : g[s] = f[y] + g[s \ {y}]}
<1>3. ASSUME NEW s \in SUBSET S, \A r \in SUBSET s : r # s => r \in T PROVE s \in T
  <2>1. SUFFICES ASSUME NEW y \in s PROVE g[s] = f[y] + g[s \ {y}] OBVIOUS
  <2> DEFINE c == Pick(s)
  <2>2. c \in s BY PickIn
  <2> HIDE DEF c
  <2>3. g[s] = f[c] + g[s \ {c}] BY <1>1, <2>1 DEF Below, c
  <2>4. CASE y = c BY <2>3, <2>4
  <2>5. CASE y # c
    <3>0. s \ {c} \in SUBSET s /\ s \ {c} # s /\ s \ {y} \in SUBSET s /\ s \ {y} # s
      BY <2>1, <2>2
    <3>1. s \ {c} \in T /\ s \ {y} \in T BY <1>3, <3>0
    <3>2. y \in s \ {c} /\ c \in s \ {y} BY <2>1, <2>2, <2>5
    <3>3. (s \ {c}) \ {y} = (s \ {y}) \ {c} OBVIOUS
    <3> DEFINE rest == (s \ {c}) \ {y}
    <3>4. g[s \ {c}] = f[y] + g[rest] BY <3>1, <3>2
    <3>5. g[s \ {y}] = f[c] + g[rest] BY <3>1, <3>2, <3>3
    <3>6. g[rest] \in Int /\ f[y] \in Int /\ f[c] \in Int
      <4>1. rest \in SUBSET S OBVIOUS
      <4> HIDE DEF rest
      <4> QED BY <4>1, <2>1, <2>2
    <3> HIDE DEF rest
    <3> QED BY <2>3, <3>4, <3>5, <3>6
  <2> QED BY <2>4, <2>5
<1> HIDE DEF T
<1>4. SUBSET S \subseteq T BY <1>3, Descent
<1>5. R \cup {x} \in T BY <1>4
<1>6. g[R \cup {x}] = f[x] + g[(R \cup {x}) \ {x}] BY <1>5 DEF T
<1>7. (R \cup {x}) \ {x} = R OBVIOUS
<1> QED BY <1>2, <1>6, <1>7

LEMMA FiniteInductive ==
  ASSUME NEW S, IsFiniteSet(S), NEW T, {} \in T,
         \A s \in SUBSET S : \A x \in S \ s : s \in T => s \cup {x} \in T
  PROVE  S \in T
<1>0. \A s \in SUBSET S : \A x \in S \ s : s \in T => s \cup {x} \in T OBVIOUS
<1>1. ASSUME NEW s \in SUBSET S, \A r \in SUBSET s : r # s => r \in T PROVE s \in T
  <2>1. CASE s = {} BY <2>1
  <2>2. CASE s # {}
    <3>1. PICK x \in s : TRUE BY <2>2
    <3>2. s \ {x} \in SUBSET S /\ x \in S \ (s \ {x}) BY <3>1
    <3>3. s \ {x} \in T BY <1>1, <3>1
    <3>4. (s \ {x}) \cup {x} \in T BY <1>0, <3>2, <3>3
    <3>5. (s \ {x}) \cup {x} = s BY <3>1
    <3> QED BY <3>4, <3>5
  <2> QED BY <2>1, <2>2
<1>2. SUBSET S \subseteq T BY <1>1, Descent
<1> QED BY <1>2

LEMMA SumInt ==
  ASSUME NEW f, NEW S, IsFiniteSet(S), \A i \in S : f[i] \in Int
  PROVE  SumFunctionOnSet(f, S) \in Int
<1>1. PICK g \in [SUBSET S -> Int] : SumFunctionOnSet(f, S) = g[S] BY SumIs
<1> QED BY <1>1

\* The difference of two functions, whose sums differ by the sum of it.
LEMMA SumOfDifference ==
  ASSUME NEW f, NEW g, NEW h, NEW S, IsFiniteSet(S),
         \A i \in S : f[i] \in Int /\ g[i] \in Int /\ h[i] = f[i] - g[i]
  PROVE  SumFunctionOnSet(h, S) = SumFunctionOnSet(f, S) - SumFunctionOnSet(g, S)
<1> DEFINE T == {s \in SUBSET S :
        SumFunctionOnSet(h, s) = SumFunctionOnSet(f, s) - SumFunctionOnSet(g, s)}
<1>1. {} \in T BY SumOfNone
<1>2. ASSUME NEW s \in SUBSET S, NEW x \in S \ s, s \in T PROVE s \cup {x} \in T
  <2>1. \A i \in S : h[i] \in Int OBVIOUS
  <2>2. /\ SumFunctionOnSet(f, s \cup {x}) = f[x] + SumFunctionOnSet(f, s)
        /\ SumFunctionOnSet(g, s \cup {x}) = g[x] + SumFunctionOnSet(g, s)
        /\ SumFunctionOnSet(h, s \cup {x}) = h[x] + SumFunctionOnSet(h, s)
    BY <2>1, SumOfMore
  <2>3. IsFiniteSet(s) BY FS_Subset
  <2>4. SumFunctionOnSet(f, s) \in Int /\ SumFunctionOnSet(g, s) \in Int BY <2>3, SumInt
  <2> QED BY <1>2, <2>2, <2>4
<1> HIDE DEF T
<1>3. S \in T BY <1>1, <1>2, FiniteInductive
<1> QED BY <1>3 DEF T

LEMMA SumOfZeros ==
  ASSUME NEW f, NEW S, IsFiniteSet(S), \A i \in S : f[i] = 0
  PROVE  SumFunctionOnSet(f, S) = 0
<1> DEFINE T == {s \in SUBSET S : SumFunctionOnSet(f, s) = 0}
<1>1. {} \in T BY SumOfNone
<1>2. ASSUME NEW s \in SUBSET S, NEW x \in S \ s, s \in T PROVE s \cup {x} \in T
  <2>1. SumFunctionOnSet(f, s \cup {x}) = f[x] + SumFunctionOnSet(f, s) BY SumOfMore
  <2> QED BY <1>2, <2>1
<1> HIDE DEF T
<1>3. S \in T BY <1>1, <1>2, FiniteInductive
<1> QED BY <1>3 DEF T

LEMMA SumEqual ==
  ASSUME NEW f, NEW h, NEW S, IsFiniteSet(S), \A i \in S : f[i] \in Int /\ h[i] = f[i]
  PROVE  SumFunctionOnSet(h, S) = SumFunctionOnSet(f, S)
<1> DEFINE zero == [i \in S |-> 0]
<1>1. \A i \in S : f[i] \in Int /\ zero[i] \in Int /\ h[i] = f[i] - zero[i] OBVIOUS
<1>2. SumFunctionOnSet(zero, S) = 0 BY SumOfZeros
<1> HIDE DEF zero
<1>3. SumFunctionOnSet(h, S) = SumFunctionOnSet(f, S) - SumFunctionOnSet(zero, S)
  BY <1>1, SumOfDifference
<1>4. SumFunctionOnSet(f, S) \in Int BY SumInt
<1> QED BY <1>2, <1>3, <1>4

\* A sum of naturals is a natural, at least each of its members.
LEMMA SumNat ==
  ASSUME NEW f, NEW S, IsFiniteSet(S), \A i \in S : f[i] \in Nat
  PROVE  SumFunctionOnSet(f, S) \in Nat /\ \A i \in S : f[i] <= SumFunctionOnSet(f, S)
<1> DEFINE T == {s \in SUBSET S : /\ SumFunctionOnSet(f, s) \in Nat
                                  /\ \A i \in s : f[i] <= SumFunctionOnSet(f, s)}
<1>1. {} \in T BY SumOfNone
<1>2. ASSUME NEW s \in SUBSET S, NEW x \in S \ s, s \in T PROVE s \cup {x} \in T
  <2>1. SumFunctionOnSet(f, s \cup {x}) = f[x] + SumFunctionOnSet(f, s) BY SumOfMore
  <2> QED BY <1>2, <2>1
<1> HIDE DEF T
<1>3. S \in T BY <1>1, <1>2, FiniteInductive
<1> QED BY <1>3 DEF T

\* A sum over some members is the sum over all with the others at zero.
LEMMA SumOfSome ==
  ASSUME NEW f, NEW h, NEW S, IsFiniteSet(S), NEW R \in SUBSET S, \A i \in R : f[i] \in Int,
         \A i \in S : h[i] = IF i \in R THEN f[i] ELSE 0
  PROVE  SumFunctionOnSet(h, S) = SumFunctionOnSet(f, R)
<1> DEFINE T == {s \in SUBSET S : SumFunctionOnSet(h, s) = SumFunctionOnSet(f, s \cap R)}
<1>1. {} \in T BY SumOfNone
<1>2. ASSUME NEW s \in SUBSET S, NEW x \in S \ s, s \in T PROVE s \cup {x} \in T
  <2>0. \A i \in S : h[i] \in Int OBVIOUS
  <2>1. SumFunctionOnSet(h, s \cup {x}) = h[x] + SumFunctionOnSet(h, s) BY <2>0, SumOfMore
  <2>2. SumFunctionOnSet(h, s) = SumFunctionOnSet(f, s \cap R) BY <1>2
  <2>3. IsFiniteSet(R) BY FS_Subset
  <2>4. CASE x \in R
    <3>1. (s \cup {x}) \cap R = (s \cap R) \cup {x} BY <2>4
    <3>2. s \cap R \in SUBSET R /\ x \in R \ (s \cap R) BY <2>4
    <3>3. SumFunctionOnSet(f, (s \cap R) \cup {x}) = f[x] + SumFunctionOnSet(f, s \cap R)
      BY <2>3, <3>2, SumOfMore
    <3> QED BY <3>1, <3>3, <2>1, <2>2, <2>4
  <2>5. CASE x \notin R
    <3>1. (s \cup {x}) \cap R = s \cap R BY <2>5
    <3>2. IsFiniteSet(s \cap R) BY <2>3, FS_Subset
    <3>3. SumFunctionOnSet(f, s \cap R) \in Int BY <3>2, SumInt
    <3>4. h[x] = 0 BY <2>5
    <3>5. SumFunctionOnSet(h, s \cup {x}) = SumFunctionOnSet(f, s \cap R)
      BY <3>3, <3>4, <2>1, <2>2
    <3> QED BY <3>1, <3>5
  <2> QED BY <2>4, <2>5
<1> HIDE DEF T
<1>3. S \in T BY <1>1, <1>2, FiniteInductive
<1>4. S \cap R = R OBVIOUS
<1> QED BY <1>3, <1>4 DEF T

----------------------------------------------------------------------------
(* Sums over the first members of a sequence. *)

LEMMA SumOfFirst ==
  ASSUME NEW f, NEW n \in Nat, \A i \in 1..(n + 1) : f[i] \in Int
  PROVE  SumFunctionOnSet(f, 1..(n + 1)) = SumFunctionOnSet(f, 1..n) + f[n + 1]
<1> DEFINE S == 1..(n + 1)
           R == 1..n
           x == n + 1
<1>1. IsFiniteSet(S) /\ IsFiniteSet(R) BY FS_Interval
<1>2. R \in SUBSET S /\ x \in S \ R /\ R \cup {x} = S BY Z3
<1>3. \A i \in S : f[i] \in Int OBVIOUS
<1> HIDE DEF S, R, x
<1>4. SumFunctionOnSet(f, R \cup {x}) = f[x] + SumFunctionOnSet(f, R)
  BY <1>1, <1>2, <1>3, SumOfMore
<1>5. SumFunctionOnSet(f, R) \in Int
  <2>1. \A i \in R : f[i] \in Int BY <1>2, <1>3
  <2> QED BY <2>1, <1>1, SumInt
<1>6. f[x] \in Int BY <1>2, <1>3
<1>7. SumFunctionOnSet(f, S) = SumFunctionOnSet(f, R) + f[x] BY <1>2, <1>4, <1>5, <1>6
<1> QED BY <1>7 DEF S, R, x

\* A function that takes no step down is monotone.
LEMMA Monotone ==
  ASSUME NEW N \in Nat, NEW p, \A i \in 0..N : p[i] \in Nat,
         \A i \in 0..N : i # N => p[i] <= p[i + 1]
  PROVE  \A i, j \in 0..N : i <= j => p[i] <= p[j]
<1> DEFINE T == {n \in Nat : n <= N => \A i \in 0..n : p[i] <= p[n]}
<1>1. 0 \in T BY Z3
<1>2. ASSUME NEW n \in Nat, n \in T PROVE n + 1 \in T
  <2>1. SUFFICES ASSUME n + 1 <= N, NEW i \in 0..(n + 1) PROVE p[i] <= p[n + 1] OBVIOUS
  <2>2. n \in 0..N /\ n # N /\ n + 1 \in 0..N /\ i \in 0..N BY <2>1
  <2>3. p[n] <= p[n + 1] /\ p[n] \in Nat /\ p[n + 1] \in Nat /\ p[i] \in Nat BY <2>2
  <2>4. CASE i = n + 1 BY <2>3, <2>4
  <2>5. CASE i # n + 1
    <3>1. i \in 0..n BY <2>5
    <3>2. p[i] <= p[n] BY <1>2, <2>1, <3>1
    <3> QED BY <3>2, <2>3
  <2> QED BY <2>4, <2>5
<1> HIDE DEF T
<1>3. Nat \subseteq T BY <1>1, <1>2, Inductive
<1> QED BY <1>3 DEF T

LEMMA TwoNumbers ==
  \A a, b \in Int : /\ Min({a, b}) = IF a <= b THEN a ELSE b
                    /\ Max({a, b}) = IF a <= b THEN b ELSE a
<1> SUFFICES ASSUME NEW a \in Int, NEW b \in Int
             PROVE  /\ Min({a, b}) = IF a <= b THEN a ELSE b
                    /\ Max({a, b}) = IF a <= b THEN b ELSE a
  OBVIOUS
<1>1. \E m \in {a, b} : \A y \in {a, b} : m <= y BY Z3
<1>2. \E m \in {a, b} : \A y \in {a, b} : m >= y BY Z3
<1>3. Min({a, b}) \in {a, b} /\ \A y \in {a, b} : Min({a, b}) <= y BY <1>1 DEF Min
<1>4. Max({a, b}) \in {a, b} /\ \A y \in {a, b} : Max({a, b}) >= y BY <1>2 DEF Max
<1> QED BY <1>3, <1>4

----------------------------------------------------------------------------
(* The lots. *)

LotType ==
  [amount : Nat, left : Nat, basis : Nat, unit : Units, reason : Reasons \cup {"known"}]

\* A lot is touched when every older one is used up, and leaves no basis.
LotsOK(ls) ==
  \A i \in DOMAIN ls :
    /\ ls[i].left <= ls[i].amount
    /\ ls[i].left = 0 => ls[i].basis = 0
    /\ ls[i].reason # "known" => ls[i].basis = 0
    /\ ls[i].left < ls[i].amount => \A j \in 1..(i - 1) : ls[j].left = 0

\* What the first n lots hold.
Prefix(ls, n) == SumFunctionOnSet(Left(ls), 1..n)

BasisOf(ls, u) == [i \in DOMAIN ls |-> IF ls[i].unit = u THEN ls[i].basis ELSE 0]

\* The basis in unit u that the lots still hold.
BasisIn(ls, u) == SumFunctionOnSet(BasisOf(ls, u), DOMAIN ls)

LEMMA LotFields ==
  ASSUME NEW ls \in Seq(LotType)
  PROVE  /\ Len(ls) \in Nat /\ DOMAIN ls = 1..Len(ls) /\ IsFiniteSet(DOMAIN ls)
         /\ \A i \in DOMAIN ls : /\ ls[i] \in LotType
                                 /\ ls[i].amount \in Nat /\ ls[i].left \in Nat
                                 /\ ls[i].basis \in Nat /\ ls[i].unit \in Units
                                 /\ Left(ls)[i] = ls[i].left
<1>1. Len(ls) \in Nat /\ DOMAIN ls = 1..Len(ls) OBVIOUS
<1>2. IsFiniteSet(DOMAIN ls) BY <1>1, FS_Interval
<1>3. \A i \in DOMAIN ls : ls[i] \in LotType OBVIOUS
<1> QED BY <1>1, <1>2, <1>3 DEF LotType, Left

LEMMA PrefixSteps ==
  ASSUME NEW ls \in Seq(LotType)
  PROVE  /\ Prefix(ls, 0) = 0
         /\ OpenAmount(ls) = Prefix(ls, Len(ls))
         /\ \A n \in 0..Len(ls) : Prefix(ls, n) \in Nat
         /\ \A n \in 1..Len(ls) : Prefix(ls, n) = Prefix(ls, n - 1) + ls[n].left
         /\ \A i, j \in 0..Len(ls) : i <= j => Prefix(ls, i) <= Prefix(ls, j)
<1>1. Prefix(ls, 0) = 0
  <2>1. 1..0 = {} OBVIOUS
  <2> QED BY <2>1, SumOfNone DEF Prefix
<1>2. OpenAmount(ls) = Prefix(ls, Len(ls)) BY LotFields DEF OpenAmount, Prefix
<1>3. \A n \in 0..Len(ls) : Prefix(ls, n) \in Nat
  <2>1. SUFFICES ASSUME NEW n \in 0..Len(ls) PROVE SumFunctionOnSet(Left(ls), 1..n) \in Nat
    BY DEF Prefix
  <2>2. IsFiniteSet(1..n) BY FS_Interval
  <2>3. \A i \in 1..n : Left(ls)[i] \in Nat BY LotFields
  <2> QED BY <2>2, <2>3, SumNat
<1>4. ASSUME NEW n \in 1..Len(ls) PROVE Prefix(ls, n) = Prefix(ls, n - 1) + ls[n].left
  <2>1. n - 1 \in Nat /\ (n - 1) + 1 = n BY Z3
  <2>2. \A i \in 1..n : Left(ls)[i] \in Int BY LotFields
  <2>3. SumFunctionOnSet(Left(ls), 1..n) = SumFunctionOnSet(Left(ls), 1..(n - 1)) + Left(ls)[n]
    <3> DEFINE m == n - 1
    <3>1. m \in Nat /\ m + 1 = n BY <2>1
    <3> HIDE DEF m
    <3>2. SumFunctionOnSet(Left(ls), 1..(m + 1)) = SumFunctionOnSet(Left(ls), 1..m) + Left(ls)[m + 1]
      BY <3>1, <2>2, SumOfFirst
    <3> QED BY <3>1, <3>2 DEF m
  <2>4. Left(ls)[n] = ls[n].left BY LotFields
  <2> QED BY <2>3, <2>4 DEF Prefix
<1>5. \A i, j \in 0..Len(ls) : i <= j => Prefix(ls, i) <= Prefix(ls, j)
  <2> DEFINE p == [n \in 0..Len(ls) |-> Prefix(ls, n)]
  <2>1. \A n \in 0..Len(ls) : p[n] \in Nat /\ p[n] = Prefix(ls, n) BY <1>3
  <2>2. \A n \in 0..Len(ls) : n # Len(ls) => p[n] <= p[n + 1]
    <3>1. SUFFICES ASSUME NEW n \in 0..Len(ls), n # Len(ls) PROVE p[n] <= p[n + 1] OBVIOUS
    <3>2. n + 1 \in 1..Len(ls) /\ n + 1 \in 0..Len(ls) /\ (n + 1) - 1 = n BY <3>1, LotFields
    <3>3. Prefix(ls, n + 1) = Prefix(ls, n) + ls[n + 1].left BY <3>2, <1>4
    <3>4. ls[n + 1].left \in Nat BY <3>2, LotFields
    <3> QED BY <2>1, <3>2, <3>3, <3>4
  <2> HIDE DEF p
  <2>3. \A i, j \in 0..Len(ls) : i <= j => p[i] <= p[j] BY <2>1, <2>2, LotFields, Monotone
  <2> QED BY <2>1, <2>3
<1> QED BY <1>1, <1>2, <1>3, <1>4, <1>5

\* proportional_money takes no more than there is, and all of it for the last part.
LEMMA Share ==
  ASSUME NEW total \in Nat, NEW whole \in Nat, NEW part \in 1..whole
  PROVE  /\ ProportionalMoney(total, part, whole) \in 0..total
         /\ part = whole => ProportionalMoney(total, part, whole) = total
<1>1. CASE part = whole BY <1>1 DEF ProportionalMoney
<1>2. CASE part # whole
  <2> DEFINE product == total * part
  <2>1. product \in Nat /\ product <= total * whole
    <3>1. total * (whole - part) >= 0 /\ total * part \in Nat OBVIOUS
    <3> QED BY <3>1
  <2>2. product \div whole \in Nat /\ product \div whole <= total
    <3>1. whole \in Nat \ {0} OBVIOUS
    <3> HIDE DEF product
    <3>2. product \div whole \in Int /\ (product \div whole) * whole <= product BY <2>1, <3>1
    <3>3. product \div whole \in Nat BY <2>1, <3>1
    <3>4. ((product \div whole) - total) * whole <= 0 BY <2>1, <3>2
    <3> QED BY <3>1, <3>3, <3>4
  <2> HIDE DEF product
  <2>3. ProportionalMoney(total, part, whole) = product \div whole
    BY <1>2 DEF ProportionalMoney, product
  <2> QED BY <1>2, <2>2, <2>3
<1> QED BY <1>1, <1>2

\* What a disposal takes from one lot.
LEMMA TakenFrom ==
  ASSUME NEW ls \in Seq(LotType), NEW need \in Nat, NEW i \in DOMAIN ls
  PROVE  /\ Taken(ls, need)[i] \in 0..ls[i].left
         /\ Prefix(ls, i - 1) \in Nat
         /\ need <= Prefix(ls, i - 1) => Taken(ls, need)[i] = 0
         /\ need > Prefix(ls, i - 1) =>
              Taken(ls, need)[i] = IF ls[i].left <= need - Prefix(ls, i - 1)
                                   THEN ls[i].left ELSE need - Prefix(ls, i - 1)
<1> DEFINE P == Prefix(ls, i - 1)
           d == need - P
           rest == Max({0, d})
           l == ls[i].left
<1>1. i - 1 \in 0..Len(ls) BY LotFields
<1>2. P \in Nat /\ l \in Nat /\ d \in Int /\ 0 \in Int /\ l \in Int
  BY <1>1, PrefixSteps, LotFields
<1>3. Taken(ls, need)[i] = Min({l, rest}) BY DEF Taken, Prefix
<1>d. d = need - P OBVIOUS
<1> HIDE DEF P, l, d
<1>4. rest = IF 0 <= d THEN d ELSE 0 BY <1>2, TwoNumbers, Zenon
<1> HIDE DEF rest
<1>5. rest \in Int BY <1>2, <1>4
<1>6. Taken(ls, need)[i] = IF l <= rest THEN l ELSE rest BY <1>2, <1>3, <1>5, TwoNumbers, Zenon
<1>7. /\ Taken(ls, need)[i] \in 0..l
      /\ need <= P => Taken(ls, need)[i] = 0
      /\ need > P => Taken(ls, need)[i] = IF l <= need - P THEN l ELSE need - P
  BY <1>2, <1>4, <1>6, <1>d
<1> QED BY <1>2, <1>7 DEF P, l

\* A disposal takes what it needs, while there is.
LEMMA TakenSum ==
  ASSUME NEW ls \in Seq(LotType), NEW need \in Nat
  PROVE  \A n \in 0..Len(ls) : SumFunctionOnSet(Taken(ls, need), 1..n)
                               = IF need <= Prefix(ls, n) THEN need ELSE Prefix(ls, n)
<1> DEFINE q == Taken(ls, need)
           Right(n) == IF need <= Prefix(ls, n) THEN need ELSE Prefix(ls, n)
           T == {n \in Nat : n <= Len(ls) => SumFunctionOnSet(q, 1..n) = Right(n)}
<1>1. 0 \in T
  <2>1. 1..0 = {} OBVIOUS
  <2>2. SumFunctionOnSet(q, 1..0) = 0 BY <2>1, SumOfNone
  <2>3. Right(0) = 0 BY PrefixSteps
  <2> QED BY <2>2, <2>3
<1>2. ASSUME NEW n \in Nat, n \in T PROVE n + 1 \in T
  <2>1. SUFFICES ASSUME n + 1 <= Len(ls) PROVE SumFunctionOnSet(q, 1..(n + 1)) = Right(n + 1)
    OBVIOUS
  <2>2. \A i \in 1..(n + 1) : i \in DOMAIN ls BY <2>1, LotFields
  <2>3. \A i \in 1..(n + 1) : q[i] \in Int BY <2>2, TakenFrom, LotFields
  <2> HIDE DEF q
  <2>4. SumFunctionOnSet(q, 1..(n + 1)) = SumFunctionOnSet(q, 1..n) + q[n + 1] BY <2>3, SumOfFirst
  <2>5. SumFunctionOnSet(q, 1..n) = Right(n) BY <1>2, <2>1, LotFields
  <2> DEFINE l == ls[n + 1].left
             P == Prefix(ls, n)
  <2>6. n + 1 \in DOMAIN ls /\ (n + 1) - 1 = n /\ n + 1 \in 1..Len(ls) /\ n \in 0..Len(ls)
    BY <2>1, <2>2, LotFields
  <2>7. l \in Nat /\ P \in Nat /\ Prefix(ls, n + 1) = P + l BY <2>6, LotFields, PrefixSteps
  <2>8. /\ need <= P => q[n + 1] = 0
        /\ need > P => q[n + 1] = IF l <= need - P THEN l ELSE need - P
    BY <2>6, TakenFrom DEF q
  <2>9. Right(n) = (IF need <= P THEN need ELSE P)
        /\ Right(n + 1) = (IF need <= P + l THEN need ELSE P + l)
    BY <2>7
  <2> HIDE DEF l, P, Right
  <2> QED BY <2>4, <2>5, <2>7, <2>8, <2>9
<1> HIDE DEF T
<1>3. Nat \subseteq T BY <1>1, <1>2, Inductive
<1> QED BY <1>3 DEF T

LEMMA SpentOn ==
  ASSUME NEW ls \in Seq(LotType), NEW need \in Nat, NEW i \in DOMAIN ls
  PROVE  /\ Spent(ls, need)[i] \in 0..ls[i].basis
         /\ Taken(ls, need)[i] = 0 => Spent(ls, need)[i] = 0
         /\ Taken(ls, need)[i] > 0 /\ Taken(ls, need)[i] = ls[i].left =>
              Spent(ls, need)[i] = ls[i].basis
<1> DEFINE q == Taken(ls, need)[i]
           l == ls[i].left
           b == ls[i].basis
<1>1. q \in 0..l /\ l \in Nat /\ b \in Nat BY TakenFrom, LotFields
<1>2. Spent(ls, need)[i] = IF q = 0 THEN 0 ELSE ProportionalMoney(b, q, l) BY DEF Spent
<1> HIDE DEF q, l, b
<1>3. CASE q = 0 BY <1>1, <1>2, <1>3 DEF q, l, b
<1>4. CASE q # 0
  <2>1. q \in 1..l BY <1>1, <1>4
  <2>2. /\ ProportionalMoney(b, q, l) \in 0..b
        /\ q = l => ProportionalMoney(b, q, l) = b
    BY <1>1, <2>1, Share
  <2>3. Spent(ls, need)[i] = ProportionalMoney(b, q, l) BY <1>2, <1>4
  <2> QED BY <1>4, <2>2, <2>3 DEF q, l, b
<1> QED BY <1>3, <1>4

LEMMA ConsumedLot ==
  ASSUME NEW ls \in Seq(LotType), NEW need \in Nat, NEW i \in DOMAIN ls
  PROVE  LET lot == Consumed(ls, need)[i]
         IN  /\ lot \in LotType
             /\ lot.left = ls[i].left - Taken(ls, need)[i]
             /\ lot.basis = ls[i].basis - Spent(ls, need)[i]
             /\ lot.amount = ls[i].amount /\ lot.unit = ls[i].unit /\ lot.reason = ls[i].reason
<1> DEFINE q == Taken(ls, need)[i]
           s == Spent(ls, need)[i]
           lot == ls[i]
<1>1. q \in 0..lot.left /\ s \in 0..lot.basis /\ lot \in LotType BY TakenFrom, SpentOn, LotFields
<1>2. Consumed(ls, need)[i] = [lot EXCEPT !.left = @ - q, !.basis = @ - s] BY DEF Consumed
<1> HIDE DEF q, s, lot
<1> DEFINE new == [lot EXCEPT !.left = @ - q, !.basis = @ - s]
<1>3. /\ new.left = lot.left - q /\ new.basis = lot.basis - s
      /\ new.amount = lot.amount /\ new.unit = lot.unit /\ new.reason = lot.reason
  BY <1>1 DEF LotType
<1>4. lot.left - q \in Nat /\ lot.basis - s \in Nat BY <1>1 DEF LotType
<1>5. new \in LotType BY <1>1, <1>4 DEF LotType
<1> QED BY <1>2, <1>3, <1>5 DEF q, s, lot

\* A disposal leaves lots in order: it uses up the oldest first, and a lot it
\* uses up has no basis left.
LEMMA ConsumedOK ==
  ASSUME NEW ls \in Seq(LotType), NEW need \in Nat, LotsOK(ls)
  PROVE  Consumed(ls, need) \in Seq(LotType) /\ LotsOK(Consumed(ls, need))
<1> DEFINE c == Consumed(ls, need)
           q == Taken(ls, need)
<1>1. DOMAIN c = 1..Len(ls) /\ Len(ls) \in Nat /\ DOMAIN ls = 1..Len(ls) BY LotFields DEF Consumed
<1>2. \A i \in 1..Len(ls) : c[i] \in LotType BY <1>1, ConsumedLot
<1>3. c \in Seq(LotType)
  <2>1. c = [i \in 1..Len(ls) |-> c[i]] BY <1>1 DEF Consumed
  <2> HIDE DEF c
  <2>2. c \in [1..Len(ls) -> LotType] BY <1>2, <2>1
  <2> QED BY <1>1, <2>2
<1>4. LotsOK(c)
  <2> SUFFICES ASSUME NEW i \in DOMAIN ls
               PROVE  /\ c[i].left <= c[i].amount
                      /\ c[i].left = 0 => c[i].basis = 0
                      /\ c[i].reason # "known" => c[i].basis = 0
                      /\ c[i].left < c[i].amount => \A j \in 1..(i - 1) : c[j].left = 0
    BY <1>1 DEF LotsOK
  <2>1. /\ c[i].left = ls[i].left - q[i] /\ c[i].basis = ls[i].basis - Spent(ls, need)[i]
        /\ c[i].amount = ls[i].amount /\ c[i].reason = ls[i].reason
    BY ConsumedLot
  <2>2. q[i] \in 0..ls[i].left /\ ls[i].left \in Nat /\ ls[i].amount \in Nat /\ ls[i].basis \in Nat
    BY TakenFrom, LotFields
  <2>3. /\ Spent(ls, need)[i] \in 0..ls[i].basis
        /\ q[i] = 0 => Spent(ls, need)[i] = 0
        /\ q[i] > 0 /\ q[i] = ls[i].left => Spent(ls, need)[i] = ls[i].basis
    BY SpentOn
  <2>4. /\ ls[i].left <= ls[i].amount
        /\ ls[i].left = 0 => ls[i].basis = 0
        /\ ls[i].reason # "known" => ls[i].basis = 0
        /\ ls[i].left < ls[i].amount => \A j \in 1..(i - 1) : ls[j].left = 0
    BY DEF LotsOK
  <2>5. ASSUME NEW j \in 1..(i - 1), c[i].left < c[i].amount PROVE c[j].left = 0
    <3>1. j \in DOMAIN ls /\ j \in 0..Len(ls) /\ i - 1 \in 0..Len(ls) /\ j <= i - 1
          /\ j \in 1..Len(ls) /\ j - 1 \in Nat
      BY <1>1
    <3>2. c[j].left = ls[j].left - q[j] BY <3>1, ConsumedLot
    <3>3. ls[j].left \in Nat /\ q[j] \in 0..ls[j].left BY <3>1, TakenFrom, LotFields
    <3>4. CASE q[i] = 0
      <4>1. ls[j].left = 0 BY <2>1, <2>2, <2>4, <2>5, <3>4
      <4> QED BY <3>2, <3>3, <4>1
    <3>5. CASE q[i] # 0
      <4>1. need > Prefix(ls, i - 1) BY <2>2, <3>5, TakenFrom
      <4>2. Prefix(ls, j) <= Prefix(ls, i - 1) BY <3>1, PrefixSteps
      <4>3. Prefix(ls, j) = Prefix(ls, j - 1) + ls[j].left BY <3>1, PrefixSteps
      <4>4. /\ Prefix(ls, j - 1) \in Nat
            /\ need > Prefix(ls, j - 1) =>
                 q[j] = IF ls[j].left <= need - Prefix(ls, j - 1)
                        THEN ls[j].left ELSE need - Prefix(ls, j - 1)
        BY <3>1, TakenFrom
      <4>5. Prefix(ls, i - 1) \in Nat /\ Prefix(ls, j) \in Nat BY <3>1, PrefixSteps
      <4> HIDE DEF q
      <4>6. q[j] = ls[j].left BY <3>3, <4>1, <4>2, <4>3, <4>4, <4>5
      <4> QED BY <3>2, <3>3, <4>6
    <3> QED BY <3>4, <3>5
  <2> HIDE DEF q
  <2>6. c[i].left <= c[i].amount BY <2>1, <2>2, <2>4
  <2>7. c[i].left = 0 => c[i].basis = 0 BY <2>1, <2>2, <2>3, <2>4
  <2>8. c[i].reason # "known" => c[i].basis = 0 BY <2>1, <2>2, <2>3, <2>4
  <2> QED BY <2>5, <2>6, <2>7, <2>8
<1> QED BY <1>3, <1>4

LEMMA ConsumedAmount ==
  ASSUME NEW ls \in Seq(LotType), NEW need \in Nat, need <= OpenAmount(ls)
  PROVE  OpenAmount(Consumed(ls, need)) = OpenAmount(ls) - need
<1> DEFINE c == Consumed(ls, need)
           q == Taken(ls, need)
           S == DOMAIN ls
<1>1. DOMAIN c = S /\ S = 1..Len(ls) /\ IsFiniteSet(S) /\ Len(ls) \in 0..Len(ls)
  BY LotFields DEF Consumed
<1>2. \A i \in S : Left(ls)[i] \in Int /\ q[i] \in Int /\ Left(c)[i] = Left(ls)[i] - q[i]
  <2> SUFFICES ASSUME NEW i \in S
               PROVE  Left(ls)[i] \in Int /\ q[i] \in Int /\ Left(c)[i] = Left(ls)[i] - q[i]
    OBVIOUS
  <2>1. Left(ls)[i] = ls[i].left /\ ls[i].left \in Nat BY LotFields
  <2>2. c[i].left = ls[i].left - q[i] /\ q[i] \in 0..ls[i].left BY ConsumedLot, TakenFrom
  <2>3. Left(c)[i] = c[i].left BY <1>1 DEF Left
  <2> HIDE DEF c, q
  <2> QED BY <2>1, <2>2, <2>3
<1>3. SumFunctionOnSet(q, S) = need
  <2>1. SumFunctionOnSet(q, 1..Len(ls))
          = IF need <= Prefix(ls, Len(ls)) THEN need ELSE Prefix(ls, Len(ls))
    BY <1>1, TakenSum
  <2>2. need <= Prefix(ls, Len(ls)) BY PrefixSteps
  <2> QED BY <1>1, <2>1, <2>2
<1>4. SumFunctionOnSet(Left(c), S) = SumFunctionOnSet(Left(ls), S) - SumFunctionOnSet(q, S)
  <2> HIDE DEF c, q, S
  <2> QED BY <1>1, <1>2, SumOfDifference
<1> QED BY <1>1, <1>3, <1>4 DEF OpenAmount

\* The known lots of unit u that a disposal touches.
KnownOf(ls, need, u) ==
  {i \in Touched(ls, need) : ls[i].reason = "known" /\ ls[i].unit = u}

\* The basis of unit u that leaves the lots is that of the known ones of it.
LEMMA ConsumedBasis ==
  ASSUME NEW ls \in Seq(LotType), NEW need \in Nat, LotsOK(ls), NEW u
  PROVE  /\ BasisIn(ls, u) \in Nat
         /\ SumFunctionOnSet(Spent(ls, need), KnownOf(ls, need, u)) \in Nat
         /\ BasisIn(Consumed(ls, need), u)
              = BasisIn(ls, u) - SumFunctionOnSet(Spent(ls, need), KnownOf(ls, need, u))
<1> DEFINE c == Consumed(ls, need)
           s == Spent(ls, need)
           K == KnownOf(ls, need, u)
           S == DOMAIN ls
           g == [i \in S |-> IF i \in K THEN s[i] ELSE 0]
<1>1. DOMAIN c = S /\ IsFiniteSet(S) /\ K \in SUBSET S
  BY LotFields DEF Consumed, KnownOf, Touched
<1>2. \A i \in S : s[i] \in Nat /\ ls[i].basis \in Nat
  <2> SUFFICES ASSUME NEW i \in S PROVE s[i] \in Nat /\ ls[i].basis \in Nat OBVIOUS
  <2>1. s[i] \in 0..ls[i].basis /\ ls[i].basis \in Nat BY SpentOn, LotFields
  <2> HIDE DEF s
  <2> QED BY <2>1
<1>3. \A i \in S : BasisOf(ls, u)[i] \in Nat BY <1>2 DEF BasisOf
<1>4. \A i \in S : BasisOf(c, u)[i] = BasisOf(ls, u)[i] - g[i]
  <2> SUFFICES ASSUME NEW i \in S PROVE BasisOf(c, u)[i] = BasisOf(ls, u)[i] - g[i] OBVIOUS
  <2>1. /\ s[i] \in 0..ls[i].basis
        /\ Taken(ls, need)[i] = 0 => s[i] = 0
    BY SpentOn
  <2>2. c[i].basis = ls[i].basis - s[i] /\ c[i].unit = ls[i].unit BY ConsumedLot
  <2>3. ls[i].reason # "known" => ls[i].basis = 0 BY DEF LotsOK
  <2>4. BasisOf(c, u)[i] = IF c[i].unit = u THEN c[i].basis ELSE 0 BY <1>1 DEF BasisOf
  <2>5. BasisOf(ls, u)[i] = IF ls[i].unit = u THEN ls[i].basis ELSE 0 BY DEF BasisOf
  <2>6. i \in K <=> Taken(ls, need)[i] > 0 /\ ls[i].reason = "known" /\ ls[i].unit = u
    BY DEF KnownOf, Touched
  <2>7. Taken(ls, need)[i] \in Nat
    <3>1. Taken(ls, need)[i] \in 0..ls[i].left BY TakenFrom
    <3> QED BY <3>1
  <2>8. g[i] = IF i \in K THEN s[i] ELSE 0 OBVIOUS
  <2> HIDE DEF c, s, K, g
  <2>9. ls[i].basis \in Nat BY <1>2
  <2> QED BY <2>1, <2>2, <2>3, <2>4, <2>5, <2>6, <2>7, <2>8, <2>9
<1>5. \A i \in S : g[i] \in Int BY <1>2
<1>6. SumFunctionOnSet(g, S) = SumFunctionOnSet(s, K)
  <2>1. \A i \in K : s[i] \in Int BY <1>1, <1>2
  <2>2. \A i \in S : g[i] = IF i \in K THEN s[i] ELSE 0 OBVIOUS
  <2>3. IsFiniteSet(S) /\ K \in SUBSET S BY <1>1
  <2> HIDE DEF g, s, K, S, c
  <2> QED BY <2>1, <2>2, <2>3, SumOfSome
<1>7. SumFunctionOnSet(BasisOf(c, u), S) = SumFunctionOnSet(BasisOf(ls, u), S) - SumFunctionOnSet(g, S)
  <2>1. \A i \in S : BasisOf(ls, u)[i] \in Int BY <1>3
  <2> HIDE DEF g, S, c
  <2> QED BY <1>1, <1>4, <1>5, <2>1, SumOfDifference
<1>8. SumFunctionOnSet(BasisOf(ls, u), S) \in Nat
  <2> HIDE DEF S
  <2> QED BY <1>1, <1>3, SumNat
<1>9. SumFunctionOnSet(s, K) \in Nat
  <2>1. IsFiniteSet(K) BY <1>1, FS_Subset
  <2>2. \A i \in K : s[i] \in Nat BY <1>1, <1>2
  <2> HIDE DEF s, K
  <2> QED BY <2>1, <2>2, SumNat
<1> QED BY <1>1, <1>6, <1>7, <1>8, <1>9 DEF BasisIn

\* When every touched lot has a known basis in unit u, its basis is the cost.
LEMMA CostIsBasis ==
  ASSUME NEW ls \in Seq(LotType), NEW need \in Nat, NEW u,
         \A i \in Touched(ls, need) : ls[i].reason = "known" /\ ls[i].unit = u
  PROVE  /\ SumFunctionOnSet(Spent(ls, need), DOMAIN ls)
              = SumFunctionOnSet(Spent(ls, need), KnownOf(ls, need, u))
         /\ \A v : v # u => SumFunctionOnSet(Spent(ls, need), KnownOf(ls, need, v)) = 0
<1> DEFINE s == Spent(ls, need)
           K == KnownOf(ls, need, u)
           S == DOMAIN ls
<1>1. IsFiniteSet(S) /\ K \in SUBSET S BY LotFields DEF KnownOf, Touched
<1>2. \A i \in S : s[i] \in Int /\ s[i] = IF i \in K THEN s[i] ELSE 0
  <2> SUFFICES ASSUME NEW i \in S PROVE s[i] \in Int /\ (i \notin K => s[i] = 0) OBVIOUS
  <2>1. /\ s[i] \in 0..ls[i].basis
        /\ Taken(ls, need)[i] = 0 => s[i] = 0
    BY SpentOn
  <2>2. Taken(ls, need)[i] \in 0..ls[i].left /\ ls[i].basis \in Nat BY TakenFrom, LotFields
  <2>3. i \notin K => ~(Taken(ls, need)[i] > 0) BY DEF KnownOf, Touched
  <2> HIDE DEF s, K
  <2> QED BY <2>1, <2>2, <2>3
<1>3. SumFunctionOnSet(s, S) = SumFunctionOnSet(s, K)
  <2> HIDE DEF s, K, S
  <2> QED BY <1>1, <1>2, SumOfSome
<1>4. ASSUME NEW v, v # u PROVE SumFunctionOnSet(s, KnownOf(ls, need, v)) = 0
  <2>1. KnownOf(ls, need, v) = {} BY <1>4 DEF KnownOf
  <2> QED BY <2>1, SumOfNone
<1> QED BY <1>3, <1>4

\* A sum over a sequence that has one more member.
LEMMA SumOfAppended ==
  ASSUME NEW f, NEW h, NEW n \in Nat, \A i \in 1..n : f[i] \in Int /\ h[i] = f[i],
         h[n + 1] \in Int
  PROVE  SumFunctionOnSet(h, 1..(n + 1)) = SumFunctionOnSet(f, 1..n) + h[n + 1]
<1>1. \A i \in 1..(n + 1) : h[i] \in Int
  <2> SUFFICES ASSUME NEW i \in 1..(n + 1) PROVE h[i] \in Int OBVIOUS
  <2>1. CASE i = n + 1 BY <2>1
  <2>2. CASE i # n + 1
    <3>1. i \in 1..n BY <2>2
    <3> QED BY <3>1
  <2> QED BY <2>1, <2>2
<1>2. SumFunctionOnSet(h, 1..(n + 1)) = SumFunctionOnSet(h, 1..n) + h[n + 1] BY <1>1, SumOfFirst
<1>3. SumFunctionOnSet(h, 1..n) = SumFunctionOnSet(f, 1..n)
  <2> DEFINE S == 1..n
  <2>1. IsFiniteSet(S) BY FS_Interval
  <2>2. \A i \in S : f[i] \in Int /\ h[i] = f[i] OBVIOUS
  <2> HIDE DEF S
  <2>3. SumFunctionOnSet(h, S) = SumFunctionOnSet(f, S) BY <2>1, <2>2, SumEqual
  <2> QED BY <2>3 DEF S
<1> QED BY <1>2, <1>3

\* A new lot keeps the order,
LEMMA AddedLot ==
  ASSUME NEW ls \in Seq(LotType), LotsOK(ls), NEW a \in Nat \ {0}, NEW cost \in Nat,
         NEW u \in Units, NEW why \in Reasons \cup {"known"}, why # "known" => cost = 0
  PROVE  LET new == AddLot(ls, a, cost, u, why)
         IN  /\ new \in Seq(LotType) /\ LotsOK(new)
             /\ DOMAIN new = 1..(Len(ls) + 1)
             /\ \A i \in DOMAIN ls : new[i] = ls[i]
             /\ new[Len(ls) + 1] = [amount |-> a, left |-> a, basis |-> cost, unit |-> u, reason |-> why]
<1> DEFINE lot == [amount |-> a, left |-> a, basis |-> cost, unit |-> u, reason |-> why]
           new == AddLot(ls, a, cost, u, why)
           n == Len(ls)
<1>1. lot \in LotType BY DEF LotType
<1>2. new = Append(ls, lot) BY DEF AddLot
<1>3. n \in Nat /\ DOMAIN ls = 1..n BY LotFields
<1>l. lot.amount = a /\ lot.left = a /\ lot.basis = cost /\ lot.unit = u /\ lot.reason = why OBVIOUS
<1> HIDE DEF lot
<1>4. new \in Seq(LotType) /\ Len(new) = n + 1 /\ DOMAIN new = 1..(n + 1)
      /\ (\A i \in 1..n : new[i] = ls[i]) /\ new[n + 1] = lot
  BY <1>1, <1>2, <1>3
<1> HIDE DEF new, n
<1>5. LotsOK(new)
  <2> SUFFICES ASSUME NEW i \in 1..(n + 1)
               PROVE  /\ new[i].left <= new[i].amount
                      /\ new[i].left = 0 => new[i].basis = 0
                      /\ new[i].reason # "known" => new[i].basis = 0
                      /\ new[i].left < new[i].amount => \A j \in 1..(i - 1) : new[j].left = 0
    BY <1>4 DEF LotsOK
  <2>1. CASE i = n + 1 BY <2>1, <1>l, <1>4
  <2>2. CASE i # n + 1
    <3>1. i \in 1..n /\ (\A j \in 1..(i - 1) : j \in 1..n) BY <2>2, <1>3
    <3>2. new[i] = ls[i] /\ \A j \in 1..(i - 1) : new[j] = ls[j] BY <3>1, <1>4
    <3> QED BY <3>1, <3>2, <1>3 DEF LotsOK
  <2> QED BY <2>1, <2>2
<1> QED BY <1>3, <1>4, <1>5 DEF new, n, lot

\* adds its amount,
LEMMA AddedAmount ==
  ASSUME NEW ls \in Seq(LotType), LotsOK(ls), NEW a \in Nat \ {0}, NEW cost \in Nat,
         NEW u \in Units, NEW why \in Reasons \cup {"known"}, why # "known" => cost = 0
  PROVE  OpenAmount(AddLot(ls, a, cost, u, why)) = OpenAmount(ls) + a
<1> DEFINE lot == [amount |-> a, left |-> a, basis |-> cost, unit |-> u, reason |-> why]
           new == AddLot(ls, a, cost, u, why)
           n == Len(ls)
<1>1. DOMAIN new = 1..(n + 1) /\ (\A i \in DOMAIN ls : new[i] = ls[i]) /\ new[n + 1] = lot
  BY AddedLot
<1>2. n \in Nat /\ DOMAIN ls = 1..n BY LotFields
<1>3. lot.left = a OBVIOUS
<1> HIDE DEF new, lot, n
<1>4. \A i \in 1..n : Left(ls)[i] \in Int /\ Left(new)[i] = Left(ls)[i]
  BY <1>1, <1>2, LotFields DEF Left
<1>5. Left(new)[n + 1] = a BY <1>1, <1>2, <1>3 DEF Left
<1>6. SumFunctionOnSet(Left(new), 1..(n + 1)) = SumFunctionOnSet(Left(ls), 1..n) + Left(new)[n + 1]
  BY <1>2, <1>4, <1>5, SumOfAppended
<1>7. OpenAmount(new) = OpenAmount(ls) + a BY <1>1, <1>2, <1>5, <1>6 DEF OpenAmount
<1> QED BY <1>7 DEF new

\* and adds its basis in its unit.
LEMMA AddedBasis ==
  ASSUME NEW ls \in Seq(LotType), LotsOK(ls), NEW a \in Nat \ {0}, NEW cost \in Nat,
         NEW u \in Units, NEW why \in Reasons \cup {"known"}, why # "known" => cost = 0, NEW v
  PROVE  BasisIn(AddLot(ls, a, cost, u, why), v) = BasisIn(ls, v) + (IF v = u THEN cost ELSE 0)
<1> DEFINE lot == [amount |-> a, left |-> a, basis |-> cost, unit |-> u, reason |-> why]
           new == AddLot(ls, a, cost, u, why)
           n == Len(ls)
<1>1. DOMAIN new = 1..(n + 1) /\ (\A i \in DOMAIN ls : new[i] = ls[i]) /\ new[n + 1] = lot
  BY AddedLot
<1>2. n \in Nat /\ DOMAIN ls = 1..n BY LotFields
<1>3. lot.basis = cost /\ lot.unit = u OBVIOUS
<1> HIDE DEF new, lot, n
<1>4. \A i \in 1..n : BasisOf(ls, v)[i] \in Int /\ BasisOf(new, v)[i] = BasisOf(ls, v)[i]
  BY <1>1, <1>2, LotFields DEF BasisOf
<1>5. BasisOf(new, v)[n + 1] = IF v = u THEN cost ELSE 0 BY <1>1, <1>2, <1>3 DEF BasisOf
<1>6. BasisOf(new, v)[n + 1] \in Int BY <1>5
<1>7. SumFunctionOnSet(BasisOf(new, v), 1..(n + 1))
        = SumFunctionOnSet(BasisOf(ls, v), 1..n) + BasisOf(new, v)[n + 1]
  BY <1>2, <1>4, <1>6, SumOfAppended
<1>8. BasisIn(new, v) = BasisIn(ls, v) + (IF v = u THEN cost ELSE 0)
  BY <1>1, <1>2, <1>5, <1>7 DEF BasisIn
<1> QED BY <1>8 DEF new

\* Lots that hold nothing.
LEMMA NothingHeld ==
  ASSUME NEW ls \in Seq(LotType), LotsOK(ls), OpenAmount(ls) = 0
  PROVE  (\A i \in DOMAIN ls : ls[i].left = 0) /\ \A u : BasisIn(ls, u) = 0
<1>1. \A i \in DOMAIN ls : Left(ls)[i] \in Nat /\ Left(ls)[i] = ls[i].left BY LotFields
<1>2. \A i \in DOMAIN ls : Left(ls)[i] <= SumFunctionOnSet(Left(ls), DOMAIN ls)
  BY <1>1, LotFields, SumNat
<1>3. \A i \in DOMAIN ls : ls[i].left = 0 BY <1>1, <1>2 DEF OpenAmount
<1>4. ASSUME NEW u PROVE BasisIn(ls, u) = 0
  <2>1. \A i \in DOMAIN ls : BasisOf(ls, u)[i] = 0 BY <1>3 DEF BasisOf, LotsOK
  <2> QED BY <2>1, LotFields, SumOfZeros DEF BasisIn
<1> QED BY <1>3, <1>4

LEMMA SomethingHeld ==
  ASSUME NEW ls \in Seq(LotType)
  PROVE  OpenAmount(ls) \in Nat /\ \A u : BasisIn(ls, u) \in Nat
<1>1. OpenAmount(ls) \in Nat BY PrefixSteps, LotFields
<1>2. ASSUME NEW u PROVE BasisIn(ls, u) \in Nat
  <2>1. \A i \in DOMAIN ls : BasisOf(ls, u)[i] \in Nat BY LotFields DEF BasisOf
  <2> QED BY <2>1, LotFields, SumNat DEF BasisIn
<1> QED BY <1>1, <1>2

----------------------------------------------------------------------------
(* The episode: what the books know of the history. *)

EpisodeType ==
  [unit : SUBSET Units, pnl : Int, unknown : SUBSET Reasons,
   byUnit : UNION {[D -> Int] : D \in SUBSET Units}, tainted : {"no", "yes"}]

Open(ls) == {i \in DOMAIN ls : ls[i].left > 0}

\* The basis in unit u an episode has consumed.
Gone(e, u) == IF u \in DOMAIN e.byUnit THEN e.byUnit[u] ELSE 0

\* A lot of known basis was paid in a unit of the history, one of unknown
\* basis came at an unknown price.
LotsSeen(ls, t) ==
  \A i \in Open(ls) : IF ls[i].reason = "known" THEN ls[i].unit \in t.units
                                                ELSE "cost" \in t.vague

\* The episode's unit is one of the history's; while its result is known the
\* others are those of open lots.
UnitsSeen(e, ls, t) ==
  /\ \A u \in e.unit : e.unit = {u}
  /\ e.unit \subseteq t.units
  /\ e.unknown = {} => t.units \subseteq e.unit \cup {ls[i].unit : i \in Open(ls)}

\* The result is unknown as soon as a price is, and known while every price
\* is known and in one unit.
ReasonsSeen(e, t) ==
  /\ t.vague # {} => e.unknown # {}
  /\ t.vague = {} /\ (\A u, v \in t.units : u = v) => e.unknown = {}

\* The cash flow is the result minus the basis that is still held.
CashKept(e, ls, t) ==
  /\ e.unit = {} => e.pnl = 0
  /\ e.unknown = {} =>
       \A u \in Units : t.cash[u] = (IF u \in e.unit THEN e.pnl ELSE 0) - BasisIn(ls, u)

\* A price paid that is not known is in an open lot or taints the episode.
CostSeen(e, ls, t) ==
  "cost" \in t.vague => e.tainted = "yes" \/ \E i \in Open(ls) : ls[i].reason # "known"

\* What was paid is the basis consumed and the basis held.
PaidKept(e, ls, t) == \A u \in Units : t.paid[u] = Gone(e, u) + BasisIn(ls, u)

Booked(e, ls, t) ==
  /\ LotsSeen(ls, t) /\ UnitsSeen(e, ls, t) /\ ReasonsSeen(e, t)
  /\ CashKept(e, ls, t) /\ CostSeen(e, ls, t) /\ PaidKept(e, ls, t)

\* An episode that starts while nothing is held.
LEMMA FreshBooks ==
  ASSUME NEW ls \in Seq(LotType), LotsOK(ls), OpenAmount(ls) = 0
  PROVE  NewEpisode \in EpisodeType /\ NoTruth \in Truths /\ Booked(NewEpisode, ls, NoTruth)
<1>1. NewEpisode \in EpisodeType
  <2>1. <<>> \in [{} -> Int] /\ {} \in SUBSET Units BY Z3
  <2>2. <<>> \in UNION {[D -> Int] : D \in SUBSET Units} BY <2>1
  <2> QED BY <2>2 DEF NewEpisode, EpisodeType
<1>2. NoTruth \in Truths BY DEF NoTruth, Truths
<1>3. Open(ls) = {} /\ \A u : BasisIn(ls, u) = 0
  <2>1. \A i \in DOMAIN ls : ls[i].left = 0 BY NothingHeld
  <2> QED BY <2>1, NothingHeld DEF Open
<1>4. \A u \in Units : NoTruth.paid[u] = 0 /\ NoTruth.cash[u] = 0 BY DEF NoTruth
<1>5. NoTruth.units = {} /\ NoTruth.vague = {} BY DEF NoTruth
<1>6. NewEpisode.unit = {} /\ NewEpisode.pnl = 0 /\ NewEpisode.unknown = {} /\ DOMAIN NewEpisode.byUnit = {}
  BY DEF NewEpisode
<1>7. LotsSeen(ls, NoTruth) /\ UnitsSeen(NewEpisode, ls, NoTruth) /\ ReasonsSeen(NewEpisode, NoTruth)
      /\ CostSeen(NewEpisode, ls, NoTruth)
  BY <1>3, <1>5, <1>6 DEF LotsSeen, UnitsSeen, ReasonsSeen, CostSeen
<1>8. CashKept(NewEpisode, ls, NoTruth) BY <1>3, <1>4, <1>6 DEF CashKept
<1>9. PaidKept(NewEpisode, ls, NoTruth) BY <1>3, <1>4, <1>6 DEF PaidKept, Gone
<1> QED BY <1>1, <1>2, <1>7, <1>8, <1>9 DEF Booked

\* The lots that are open after a lot is added.
LEMMA OpenAfterAdd ==
  ASSUME NEW ls \in Seq(LotType), LotsOK(ls), NEW a \in Nat \ {0}, NEW cost \in Nat,
         NEW u \in Units, NEW why \in Reasons \cup {"known"}, why # "known" => cost = 0
  PROVE  LET new == AddLot(ls, a, cost, u, why)
         IN  /\ Open(new) = Open(ls) \cup {Len(ls) + 1}
             /\ \A i \in Open(ls) : new[i] = ls[i]
             /\ new[Len(ls) + 1].unit = u /\ new[Len(ls) + 1].reason = why
<1> DEFINE new == AddLot(ls, a, cost, u, why)
           lot == [amount |-> a, left |-> a, basis |-> cost, unit |-> u, reason |-> why]
<1>1. /\ DOMAIN new = 1..(Len(ls) + 1)
      /\ \A i \in DOMAIN ls : new[i] = ls[i]
      /\ new[Len(ls) + 1] = lot
  BY AddedLot
<1>2. lot.left = a /\ lot.unit = u /\ lot.reason = why OBVIOUS
<1>3. Len(ls) \in Nat /\ DOMAIN ls = 1..Len(ls) BY LotFields
<1> HIDE DEF new, lot
<1>4. new[Len(ls) + 1].left > 0 BY <1>1, <1>2
<1>5. \A i \in 1..(Len(ls) + 1) : i = Len(ls) + 1 \/ i \in 1..Len(ls) BY <1>3
<1>6. \A i \in 1..Len(ls) : i \in 1..(Len(ls) + 1) BY <1>3
<1>7. Len(ls) + 1 \in 1..(Len(ls) + 1) BY <1>3
<1>8. Open(new) = Open(ls) \cup {Len(ls) + 1} BY <1>1, <1>3, <1>4, <1>5, <1>6, <1>7 DEF Open
<1> QED BY <1>1, <1>2, <1>8 DEF Open, new

\* A verified buy.
LEMMA BuyBooked ==
  ASSUME NEW ls \in Seq(LotType), LotsOK(ls), NEW a \in Nat \ {0}, NEW cost \in Nat,
         NEW u \in Units, NEW e \in EpisodeType, NEW t \in Truths, Booked(e, ls, t),
         NEW t2 \in Truths, t2.units = t.units \cup {u}, t2.vague = t.vague,
         t2.cash = [t.cash EXCEPT ![u] = @ - cost], t2.paid = [t.paid EXCEPT ![u] = @ + cost]
  PROVE  Booked(e, AddLot(ls, a, cost, u, "known"), t2)
<1> DEFINE new == AddLot(ls, a, cost, u, "known")
           n == Len(ls) + 1
<1>1. /\ Open(new) = Open(ls) \cup {n}
      /\ \A i \in Open(ls) : new[i] = ls[i]
      /\ new[n].unit = u /\ new[n].reason = "known"
  BY OpenAfterAdd
<1>2. \A v : BasisIn(new, v) = BasisIn(ls, v) + (IF v = u THEN cost ELSE 0)
  <2> HIDE DEF new
  <2> SUFFICES ASSUME NEW v
               PROVE  BasisIn(new, v) = BasisIn(ls, v) + (IF v = u THEN cost ELSE 0)
    OBVIOUS
  <2>1. "known" \in Reasons \cup {"known"} OBVIOUS
  <2> QED BY <2>1, AddedBasis DEF new
<1>3. \A v \in Units : t.cash[v] \in Int /\ t.paid[v] \in Nat /\ BasisIn(ls, v) \in Nat
  BY SomethingHeld DEF Truths
<1>4. \A v \in Units : /\ t2.cash[v] = IF v = u THEN t.cash[v] - cost ELSE t.cash[v]
                       /\ t2.paid[v] = IF v = u THEN t.paid[v] + cost ELSE t.paid[v]
  BY DEF Truths
<1>5. e.pnl \in Int BY DEF EpisodeType
<1> HIDE DEF new, n
<1>6. LotsSeen(new, t2) BY <1>1 DEF Booked, LotsSeen
<1>7. UnitsSeen(e, new, t2)
  <2>1. ASSUME e.unknown = {}, NEW x \in t2.units
        PROVE  x \in e.unit \cup {new[i].unit : i \in Open(new)}
    <3>1. CASE x = u BY <3>1, <1>1
    <3>2. CASE x # u
      <4>1. x \in e.unit \cup {ls[i].unit : i \in Open(ls)}
        BY <2>1, <3>2 DEF Booked, UnitsSeen
      <4> QED BY <4>1, <1>1
    <3> QED BY <3>1, <3>2
  <2> QED BY <2>1 DEF Booked, UnitsSeen
<1>8. ReasonsSeen(e, t2)
  <2>1. (\A x, y \in t2.units : x = y) => \A x, y \in t.units : x = y OBVIOUS
  <2> QED BY <2>1 DEF Booked, ReasonsSeen
<1>9. CashKept(e, new, t2)
  <2>1. ASSUME e.unknown = {}, NEW v \in Units
        PROVE  t2.cash[v] = (IF v \in e.unit THEN e.pnl ELSE 0) - BasisIn(new, v)
    <3>1. t.cash[v] = (IF v \in e.unit THEN e.pnl ELSE 0) - BasisIn(ls, v)
      BY <2>1 DEF Booked, CashKept
    <3> QED BY <3>1, <1>2, <1>3, <1>4, <1>5
  <2> QED BY <2>1 DEF Booked, CashKept
<1>10. CostSeen(e, new, t2) BY <1>1 DEF Booked, CostSeen
<1>11. PaidKept(e, new, t2)
  <2> SUFFICES ASSUME NEW v \in Units PROVE t2.paid[v] = Gone(e, v) + BasisIn(new, v) BY DEF PaidKept
  <2>1. t.paid[v] = Gone(e, v) + BasisIn(ls, v) BY DEF Booked, PaidKept
  <2>2. Gone(e, v) \in Int BY DEF Gone, EpisodeType
  <2> QED BY <2>1, <2>2, <1>2, <1>3, <1>4
<1> QED BY <1>6, <1>7, <1>8, <1>9, <1>10, <1>11 DEF Booked, new

\* An acquisition at an unknown price.
LEMMA InflowBooked ==
  ASSUME NEW ls \in Seq(LotType), LotsOK(ls), NEW a \in Nat \ {0}, NEW u \in Units,
         NEW why \in Reasons, why # "known",
         NEW e \in EpisodeType, NEW t \in Truths, Booked(e, ls, t),
         NEW t2 \in Truths, t2.units = t.units, t2.vague = t.vague \cup {"cost"},
         t2.cash = t.cash, t2.paid = t.paid
  PROVE  LET e2 == [e EXCEPT !.unknown = @ \cup {why}]
         IN  e2 \in EpisodeType /\ Booked(e2, AddLot(ls, a, 0, u, why), t2)
<1> DEFINE new == AddLot(ls, a, 0, u, why)
           n == Len(ls) + 1
           e2 == [e EXCEPT !.unknown = @ \cup {why}]
<1>1. /\ Open(new) = Open(ls) \cup {n}
      /\ \A i \in Open(ls) : new[i] = ls[i]
      /\ new[n].reason = why
  BY OpenAfterAdd
<1>2. \A v : BasisIn(new, v) = BasisIn(ls, v) + 0
  <2>1. why \in Reasons \cup {"known"} /\ 0 \in Nat OBVIOUS
  <2> SUFFICES ASSUME NEW v PROVE BasisIn(new, v) = BasisIn(ls, v) + 0 OBVIOUS
  <2>2. BasisIn(new, v) = BasisIn(ls, v) + (IF v = u THEN 0 ELSE 0)
    BY <2>1, AddedBasis
  <2> QED BY <2>2
<1>3. \A v : BasisIn(new, v) = BasisIn(ls, v) BY <1>2, SomethingHeld
<1>4. e2 \in EpisodeType BY DEF EpisodeType
<1>5. /\ e2.unit = e.unit /\ e2.pnl = e.pnl /\ e2.byUnit = e.byUnit /\ e2.tainted = e.tainted
      /\ e2.unknown # {}
  BY DEF EpisodeType
<1> HIDE DEF new, n, e2
<1>6. LotsSeen(new, t2) BY <1>1 DEF Booked, LotsSeen
<1>7. UnitsSeen(e2, new, t2) BY <1>5 DEF Booked, UnitsSeen
<1>8. ReasonsSeen(e2, t2) BY <1>5 DEF ReasonsSeen
<1>9. CashKept(e2, new, t2) BY <1>5 DEF Booked, CashKept
<1>10. CostSeen(e2, new, t2) BY <1>1 DEF CostSeen
<1>11. PaidKept(e2, new, t2) BY <1>3, <1>5 DEF Booked, PaidKept, Gone
<1> QED BY <1>4, <1>6, <1>7, <1>8, <1>9, <1>10, <1>11 DEF Booked, new, e2

LEMMA TheOnly == \A x : The({x}) = x BY DEF The

\* The basis an episode has consumed after a disposal.
LEMMA BasisAfter ==
  ASSUME NEW e \in EpisodeType, NEW ls \in Seq(LotType), NEW need \in Nat, LotsOK(ls)
  PROVE  /\ BasisByUnit(e, ls, need) \in UNION {[D -> Int] : D \in SUBSET Units}
         /\ \A u \in Units :
              (IF u \in DOMAIN BasisByUnit(e, ls, need) THEN BasisByUnit(e, ls, need)[u] ELSE 0)
                = Gone(e, u) + SumFunctionOnSet(Spent(ls, need), KnownOf(ls, need, u))
<1> DEFINE s(u) == SumFunctionOnSet(Spent(ls, need), KnownOf(ls, need, u))
           D == DOMAIN e.byUnit \cup {v \in Units : KnownOf(ls, need, v) # {}}
           b == BasisByUnit(e, ls, need)
<1>1. DOMAIN e.byUnit \subseteq Units /\ \A u \in DOMAIN e.byUnit : e.byUnit[u] \in Int
  BY DEF EpisodeType
<1>2. \A u : Gone(e, u) \in Int BY <1>1 DEF Gone
<1>3. \A u : s(u) \in Nat /\ (KnownOf(ls, need, u) = {} => s(u) = 0) BY ConsumedBasis, SumOfNone
<1>4. b = [u \in D |-> Gone(e, u) + s(u)] BY DEF BasisByUnit, Gone, KnownOf
<1> HIDE DEF b, s
<1>5. D \in SUBSET Units BY <1>1
<1>6. b \in [D -> Int] BY <1>2, <1>3, <1>4
<1>7. ASSUME NEW u \in Units PROVE (IF u \in DOMAIN b THEN b[u] ELSE 0) = Gone(e, u) + s(u)
  <2>1. CASE u \in D BY <1>4, <2>1
  <2>2. CASE u \notin D
    <3>1. Gone(e, u) = 0 /\ s(u) = 0 BY <2>2, <1>3 DEF Gone
    <3>2. u \notin DOMAIN b BY <1>4, <2>2
    <3> QED BY <3>1, <3>2
  <2> QED BY <2>1, <2>2
<1> HIDE DEF D
<1>8. b \in UNION {[E -> Int] : E \in SUBSET Units} BY <1>5, <1>6
<1> QED BY <1>7, <1>8 DEF b, s

\* An Option of an amount.
IsOption(p) == p = {} \/ \E g \in Nat : p = {g}

\* A disposal has a result when its proceeds are known, and every lot it
\* touches was paid in their unit.
Realised(ls, need, proceeds, u) ==
  proceeds # {} /\ ~Crosses(ls, need, u) /\ AllBasisKnown(ls, need)

NetResult(pnl, gross, fee, cost) == pnl + gross - fee - cost

\* The episode b after a disposal on episode e.
AfterDisposal(b, e, ls, need, proceeds, u, fee) ==
  /\ b \in EpisodeType
  /\ b.byUnit = BasisByUnit(e, ls, need)
  /\ b.tainted = IF AllBasisKnown(ls, need) THEN e.tainted ELSE "yes"
  /\ e.unknown \subseteq b.unknown
  /\ Realised(ls, need, proceeds, u) =>
       /\ b.unit = IF e.unit = {} THEN {u} ELSE e.unit
       /\ b.unknown = IF e.unit \subseteq {u} THEN e.unknown
                      ELSE e.unknown \cup {"cross_quote_unit"}
       /\ b.pnl = NetResult(e.pnl, The(proceeds), fee,
                           SumFunctionOnSet(Spent(ls, need), DOMAIN ls))
  /\ ~Realised(ls, need, proceeds, u) =>
       /\ b.unit = e.unit /\ b.pnl = e.pnl
       /\ b.unknown = {} => /\ proceeds # {} /\ ~Crosses(ls, need, u)
                            /\ ~TakesOtherUnknown(ls, need)

LEMMA DisposedFields ==
  ASSUME NEW e \in EpisodeType, NEW ls \in Seq(LotType), NEW need \in Nat, LotsOK(ls),
         NEW u \in Units, NEW fee \in Nat, NEW why \in Reasons, NEW proceeds,
         IsOption(proceeds)
  PROVE  AfterDisposal(Disposed(e, ls, need, proceeds, u, fee, why), e, ls, need, proceeds, u, fee)
<1> DEFINE b      == Disposed(e, ls, need, proceeds, u, fee, why)
           cost   == SumFunctionOnSet(Spent(ls, need), DOMAIN ls)
           gross  == IF Crosses(ls, need, u) THEN {} ELSE proceeds
           reason == IF proceeds # {} /\ gross = {} THEN "cross_quote_unit" ELSE why
           known  == AllBasisKnown(ls, need)
           by     == BasisByUnit(e, ls, need)
           taint  == IF known THEN e.tainted ELSE "yes"
           mid    == [e EXCEPT !.byUnit = by, !.tainted = taint]
           unit   == IF e.unit = {} THEN {u} ELSE e.unit
           more   == IF e.unit \subseteq {u} THEN e.unknown ELSE e.unknown \cup {"cross_quote_unit"}
           pnl    == e.pnl + The(gross) - fee - cost
           yes    == [mid EXCEPT !.unit = unit, !.unknown = more, !.pnl = pnl]
           others == e.unknown \cup (IF gross = {} THEN {reason} ELSE {})
                       \cup (IF TakesOtherUnknown(ls, need) THEN {"unknown_lot_consumed"} ELSE {})
           no     == [mid EXCEPT !.unknown = others]
<1>1. e.unit \in SUBSET Units /\ e.pnl \in Int /\ e.unknown \in SUBSET Reasons
      /\ e.tainted \in {"no", "yes"}
  BY DEF EpisodeType
<1>2. by \in UNION {[D -> Int] : D \in SUBSET Units} BY BasisAfter
<1>3. taint \in {"no", "yes"} BY <1>1
<1>4. cost \in Int
  <2>1. IsFiniteSet(DOMAIN ls) BY LotFields
  <2>2. \A i \in DOMAIN ls : Spent(ls, need)[i] \in Int
    <3> SUFFICES ASSUME NEW i \in DOMAIN ls PROVE Spent(ls, need)[i] \in Int OBVIOUS
    <3>1. Spent(ls, need)[i] \in 0..ls[i].basis /\ ls[i].basis \in Nat BY SpentOn, LotFields
    <3> QED BY <3>1
  <2> QED BY <2>1, <2>2, SumInt
<1>5. /\ mid \in EpisodeType /\ mid.byUnit = by /\ mid.tainted = taint
      /\ mid.unit = e.unit /\ mid.pnl = e.pnl /\ mid.unknown = e.unknown
  <2> HIDE DEF by, taint
  <2> QED BY <1>2, <1>3 DEF EpisodeType
<1>6. unit \in SUBSET Units BY <1>1
<1>7. "cross_quote_unit" \in Reasons /\ "unknown_lot_consumed" \in Reasons BY DEF Reasons
<1>8. more \in SUBSET Reasons /\ others \in SUBSET Reasons
      /\ e.unknown \subseteq more /\ e.unknown \subseteq others
  BY <1>1, <1>7
<1>9. gross # {} => The(gross) \in Nat /\ gross = proceeds BY TheOnly DEF IsOption
<1>10. gross # {} => pnl \in Int
  <2> HIDE DEF cost, gross
  <2> QED BY <1>1, <1>4, <1>9
<1>11. b = IF gross # {} /\ known THEN yes ELSE no
  <2>1. yes = [mid EXCEPT
                 !.unit = IF @ = {} THEN {u} ELSE @,
                 !.unknown = IF e.unit \subseteq {u} THEN @ ELSE @ \cup {"cross_quote_unit"},
                 !.pnl = @ + The(gross) - fee - cost]
    <3> HIDE DEF mid, cost, gross
    <3> QED BY <1>5 DEF EpisodeType
  <2>2. no = [mid EXCEPT !.unknown = @ \cup (IF gross = {} THEN {reason} ELSE {})
                            \cup (IF TakesOtherUnknown(ls, need)
                                  THEN {"unknown_lot_consumed"} ELSE {})]
    <3> HIDE DEF mid, cost, gross, reason
    <3> QED BY <1>5 DEF EpisodeType
  <2>3. mid = [e EXCEPT !.byUnit = by, !.tainted = IF known THEN @ ELSE "yes"]
    <3> HIDE DEF by, known
    <3> QED BY DEF EpisodeType
  <2> QED BY <2>1, <2>2, <2>3 DEF Disposed
<1> HIDE DEF mid, pnl, more, others, unit
<1>12. CASE gross # {} /\ known
  <2>1. /\ yes \in EpisodeType /\ yes.unit = unit /\ yes.unknown = more /\ yes.pnl = pnl
        /\ yes.byUnit = by /\ yes.tainted = taint
    <3> HIDE DEF gross, known, by, taint
    <3> QED BY <1>5, <1>6, <1>8, <1>10, <1>12 DEF EpisodeType
  <2>2. Realised(ls, need, proceeds, u) BY <1>12 DEF Realised
  <2>3. b = yes BY <1>11, <1>12
  <2>4. pnl = NetResult(e.pnl, The(proceeds), fee, cost) BY <1>9, <1>12 DEF pnl, NetResult
  <2> HIDE DEF yes, cost, gross, b
  <2> QED BY <2>1, <2>2, <2>3, <2>4, <1>8 DEF unit, more, b, cost, AfterDisposal
<1>13. CASE ~(gross # {} /\ known)
  <2>1. /\ no \in EpisodeType /\ no.unit = e.unit /\ no.unknown = others /\ no.pnl = e.pnl
        /\ no.byUnit = by /\ no.tainted = taint
    <3> HIDE DEF gross, known, by, taint
    <3> QED BY <1>5, <1>8 DEF EpisodeType
  <2>2. ~Realised(ls, need, proceeds, u) BY <1>13 DEF Realised
  <2>3. b = no BY <1>11, <1>13
  <2>4. others = {} => /\ proceeds # {} /\ ~Crosses(ls, need, u)
                       /\ ~TakesOtherUnknown(ls, need)
    BY DEF others
  <2> HIDE DEF no, cost, gross, b
  <2> QED BY <2>1, <2>2, <2>3, <2>4, <1>8 DEF b, AfterDisposal
<1> QED BY <1>12, <1>13

\* The lots that stay open and those a disposal touches.
LEMMA OpenAfter ==
  ASSUME NEW ls \in Seq(LotType), NEW need \in Nat
  PROVE  /\ Open(Consumed(ls, need)) \subseteq Open(ls)
         /\ Open(ls) \subseteq Open(Consumed(ls, need)) \cup Touched(ls, need)
         /\ Touched(ls, need) \subseteq Open(ls)
         /\ \A i \in DOMAIN ls : /\ Consumed(ls, need)[i].unit = ls[i].unit
                                 /\ Consumed(ls, need)[i].reason = ls[i].reason
<1> DEFINE c == Consumed(ls, need)
           q == Taken(ls, need)
<1>1. DOMAIN c = DOMAIN ls BY DEF Consumed
<1>2. \A i \in DOMAIN ls : /\ c[i].left = ls[i].left - q[i]
                           /\ c[i].unit = ls[i].unit /\ c[i].reason = ls[i].reason
  <2> SUFFICES ASSUME NEW i \in DOMAIN ls
               PROVE  /\ c[i].left = ls[i].left - q[i]
                      /\ c[i].unit = ls[i].unit /\ c[i].reason = ls[i].reason
    OBVIOUS
  <2> QED BY ConsumedLot
<1>3. \A i \in DOMAIN ls : q[i] \in 0..ls[i].left /\ ls[i].left \in Nat BY TakenFrom, LotFields
<1>4. Touched(ls, need) = {i \in DOMAIN ls : q[i] > 0} BY DEF Touched
<1> HIDE DEF c, q
<1>5. \A i \in DOMAIN ls : /\ c[i].left > 0 => ls[i].left > 0
                           /\ ls[i].left > 0 => c[i].left > 0 \/ q[i] > 0
                           /\ q[i] > 0 => ls[i].left > 0
  BY <1>2, <1>3
<1> QED BY <1>1, <1>2, <1>4, <1>5 DEF Open, c

\* The result is known after a disposal only if it was, the proceeds are
\* known, and all that was touched was paid in their unit.
LEMMA CleanDisposal ==
  ASSUME NEW e \in EpisodeType, NEW ls \in Seq(LotType), NEW need \in Nat, LotsOK(ls),
         NEW t, Booked(e, ls, t),
         NEW u, NEW fee, NEW proceeds, NEW b,
         AfterDisposal(b, e, ls, need, proceeds, u, fee), b.unknown = {}
  PROVE  /\ e.unknown = {} /\ Realised(ls, need, proceeds, u) /\ e.unit \subseteq {u}
         /\ \A i \in Touched(ls, need) : ls[i].reason = "known" /\ ls[i].unit = u
<1>1. /\ e.unknown \subseteq b.unknown
      /\ Realised(ls, need, proceeds, u) =>
           b.unknown = IF e.unit \subseteq {u} THEN e.unknown ELSE e.unknown \cup {"cross_quote_unit"}
      /\ ~Realised(ls, need, proceeds, u) =>
           (b.unknown = {} => /\ proceeds # {} /\ ~Crosses(ls, need, u)
                              /\ ~TakesOtherUnknown(ls, need))
  BY DEF AfterDisposal
<1>2. b.unknown = {} OBVIOUS
<1>3. e.unknown = {} BY <1>1, <1>2
<1>4. \A i \in Touched(ls, need) : ls[i].reason = "known"
  <2> SUFFICES ASSUME NEW i \in Touched(ls, need), ls[i].reason # "known" PROVE FALSE OBVIOUS
  <2>1. i \in Open(ls) BY OpenAfter
  <2>2. "cost" \in t.vague BY <2>1 DEF Booked, LotsSeen
  <2> QED BY <1>3, <2>2 DEF Booked, ReasonsSeen
<1>5. Realised(ls, need, proceeds, u) BY <1>1, <1>2, <1>4 DEF Realised, AllBasisKnown
<1>6. e.unit \subseteq {u} BY <1>1, <1>2, <1>5
<1>7. \A i \in Touched(ls, need) : ls[i].unit = u BY <1>4, <1>5 DEF Realised, Crosses
<1> QED BY <1>3, <1>4, <1>5, <1>6, <1>7

\* The history before and after a disposal.
Moved(t, t2, proceeds, u, fee) ==
  /\ t2.paid = t.paid
  /\ \/ \E g \in Nat : /\ proceeds = {g} /\ t2.units = t.units \cup {u} /\ t2.vague = t.vague
                        /\ t2.cash = [t.cash EXCEPT ![u] = @ + g - fee]
     \/ /\ proceeds = {} /\ t2.units = t.units /\ t2.vague = t.vague \cup {"proceeds"}
        /\ t2.cash = t.cash

LEMMA DisposalBooked ==
  ASSUME NEW e \in EpisodeType, NEW ls \in Seq(LotType), NEW need \in Nat, LotsOK(ls),
         NEW t \in Truths, Booked(e, ls, t),
         NEW u \in Units, NEW fee \in Nat, NEW why \in Reasons, NEW proceeds,
         NEW t2 \in Truths, Moved(t, t2, proceeds, u, fee)
  PROVE  LET b == Disposed(e, ls, need, proceeds, u, fee, why)
         IN  /\ b \in EpisodeType /\ Booked(b, Consumed(ls, need), t2)
             /\ b.unknown = {} => b.unit # {}
<1> DEFINE b    == Disposed(e, ls, need, proceeds, u, fee, why)
           c    == Consumed(ls, need)
           cost == SumFunctionOnSet(Spent(ls, need), DOMAIN ls)
           real == Realised(ls, need, proceeds, u)
           touched == Touched(ls, need)
           gone(v) == SumFunctionOnSet(Spent(ls, need), KnownOf(ls, need, v))
<1>0. IsOption(proceeds) BY DEF Moved, IsOption
<1>a. AfterDisposal(b, e, ls, need, proceeds, u, fee) BY <1>0, DisposedFields
<1>1. /\ b \in EpisodeType
      /\ b.byUnit = BasisByUnit(e, ls, need)
      /\ b.tainted = IF AllBasisKnown(ls, need) THEN e.tainted ELSE "yes"
      /\ e.unknown \subseteq b.unknown
      /\ real => /\ b.unit = IF e.unit = {} THEN {u} ELSE e.unit
                 /\ b.unknown = IF e.unit \subseteq {u} THEN e.unknown
                                ELSE e.unknown \cup {"cross_quote_unit"}
                 /\ b.pnl = NetResult(e.pnl, The(proceeds), fee, cost)
      /\ ~real => /\ b.unit = e.unit /\ b.pnl = e.pnl
                  /\ b.unknown = {} => proceeds # {}
  <2> HIDE DEF b
  <2> QED BY <1>a DEF AfterDisposal
<1>2. b.unknown = {} => /\ e.unknown = {} /\ real /\ e.unit \subseteq {u}
                        /\ \A i \in touched : ls[i].reason = "known" /\ ls[i].unit = u
  <2>1. ASSUME b.unknown = {}
        PROVE  /\ e.unknown = {} /\ real /\ e.unit \subseteq {u}
               /\ \A i \in touched : ls[i].reason = "known" /\ ls[i].unit = u
    <3> HIDE DEF b
    <3> QED BY <1>a, <2>1, CleanDisposal
  <2> QED BY <2>1
<1>3. /\ Open(c) \subseteq Open(ls) /\ Open(ls) \subseteq Open(c) \cup touched
      /\ touched \subseteq Open(ls)
      /\ \A i \in Open(ls) : c[i].unit = ls[i].unit /\ c[i].reason = ls[i].reason
  BY OpenAfter DEF Open
<1>4. t.units \subseteq t2.units /\ t.vague \subseteq t2.vague
      /\ (proceeds # {} => u \in t2.units /\ t2.units = t.units \cup {u} /\ t2.vague = t.vague)
      /\ (proceeds = {} => t2.vague # {} /\ t2.units = t.units)
      /\ ("cost" \in t2.vague => "cost" \in t.vague)
  BY DEF Moved
<1>5. real => proceeds # {} /\ \A i \in touched : ls[i].reason = "known" /\ ls[i].unit = u
  BY DEF Realised, AllBasisKnown, Crosses
<1>6. proceeds # {} /\ (\A i \in touched : ls[i].reason = "known" /\ ls[i].unit = u) => real
  BY DEF Realised, AllBasisKnown, Crosses
<1>7. \A v : BasisIn(c, v) = BasisIn(ls, v) - gone(v) /\ BasisIn(ls, v) \in Nat /\ gone(v) \in Nat
  BY ConsumedBasis
<1>8. real => cost = gone(u) /\ \A v : v # u => gone(v) = 0
  <2> SUFFICES ASSUME real PROVE cost = gone(u) /\ \A v : v # u => gone(v) = 0 OBVIOUS
  <2>1. \A i \in Touched(ls, need) : ls[i].reason = "known" /\ ls[i].unit = u BY <1>5
  <2> HIDE DEF real
  <2> QED BY <2>1, CostIsBasis
<1>9. \A v \in Units : Gone(b, v) = Gone(e, v) + gone(v)
  <2> DEFINE by == BasisByUnit(e, ls, need)
  <2>1. \A v \in Units : (IF v \in DOMAIN by THEN by[v] ELSE 0) = Gone(e, v) + gone(v)
    BY BasisAfter
  <2> HIDE DEF b, by, gone
  <2>2. b.byUnit = by BY <1>1 DEF by
  <2> QED BY <2>1, <2>2 DEF Gone
<1> HIDE DEF b, c, cost, real, touched, gone
<1>10. LotsSeen(c, t2) BY <1>3, <1>4 DEF Booked, LotsSeen
<1>11. UnitsSeen(b, c, t2)
  <2>1. \A v \in b.unit : b.unit = {v} BY <1>1 DEF Booked, UnitsSeen
  <2>2. b.unit \subseteq t2.units BY <1>1, <1>4, <1>5 DEF Booked, UnitsSeen
  <2>3. ASSUME b.unknown = {}, NEW x \in t2.units
        PROVE  x \in b.unit \cup {c[i].unit : i \in Open(c)}
    <3>1. real /\ e.unknown = {} /\ b.unit = {u} BY <1>1, <1>2, <2>3
    <3>2. CASE x = u BY <3>1, <3>2
    <3>3. CASE x # u
      <4>1. x \in e.unit \cup {ls[i].unit : i \in Open(ls)}
        BY <1>4, <1>5, <2>3, <3>1, <3>3 DEF Booked, UnitsSeen
      <4>2. PICK i \in Open(ls) : x = ls[i].unit BY <1>2, <2>3, <3>3, <4>1
      <4>3. i \in Open(c) BY <1>2, <1>3, <2>3, <3>3, <4>2
      <4> QED BY <1>3, <4>2, <4>3
    <3> QED BY <3>2, <3>3
  <2> QED BY <2>1, <2>2, <2>3 DEF UnitsSeen
<1>12. ReasonsSeen(b, t2)
  <2>1. ASSUME t2.vague # {} PROVE b.unknown # {}
    <3>1. CASE t.vague # {} BY <1>1, <3>1 DEF Booked, ReasonsSeen
    <3>2. CASE t.vague = {}
      <4>1. proceeds = {} BY <1>4, <2>1, <3>2
      <4> QED BY <1>2, <1>5, <4>1
    <3> QED BY <3>1, <3>2
  <2>2. ASSUME t2.vague = {}, \A x, y \in t2.units : x = y PROVE b.unknown = {}
    <3>1. proceeds # {} /\ t.vague = {} /\ u \in t2.units BY <1>4, <2>2
    <3>2. \A x, y \in t.units : x = y BY <1>4, <2>2
    <3>3. e.unknown = {} BY <3>1, <3>2 DEF Booked, ReasonsSeen
    <3>4. \A i \in touched : ls[i].reason = "known" /\ ls[i].unit \in t.units
      BY <1>3, <3>1 DEF Booked, LotsSeen
    <3>5. \A i \in touched : ls[i].unit = u BY <1>4, <2>2, <3>1, <3>4
    <3>6. real BY <1>6, <3>1, <3>4, <3>5
    <3>7. e.unit \subseteq t.units BY DEF Booked, UnitsSeen
    <3>8. e.unit \subseteq {u} BY <1>4, <2>2, <3>1, <3>7
    <3> QED BY <1>1, <3>3, <3>6, <3>8
  <2> QED BY <2>1, <2>2 DEF ReasonsSeen
<1>13. CashKept(b, c, t2)
  <2>1. b.unit = {} => b.pnl = 0 BY <1>1 DEF Booked, CashKept
  <2>2. ASSUME b.unknown = {}, NEW v \in Units
        PROVE  t2.cash[v] = (IF v \in b.unit THEN b.pnl ELSE 0) - BasisIn(c, v)
    <3>1. real /\ e.unknown = {} /\ b.unit = {u} /\ e.unit \subseteq {u} BY <1>1, <1>2, <2>2
    <3>2. PICK g \in Nat : /\ proceeds = {g}
                           /\ t2.cash = [t.cash EXCEPT ![u] = @ + g - fee]
      BY <1>5, <3>1 DEF Moved
    <3>3. b.pnl = e.pnl + g - fee - cost BY <1>1, <3>1, <3>2, TheOnly DEF NetResult
    <3>4. t.cash[v] \in Int /\ t2.cash[v] = IF v = u THEN t.cash[v] + g - fee ELSE t.cash[v]
      BY <3>2 DEF Truths
    <3>5. t.cash[v] = (IF v \in e.unit THEN e.pnl ELSE 0) - BasisIn(ls, v)
      BY <3>1 DEF Booked, CashKept
    <3>6. e.unit = {} => e.pnl = 0 BY DEF Booked, CashKept
    <3>7. e.pnl \in Int BY DEF EpisodeType
    <3>8. BasisIn(c, v) = BasisIn(ls, v) - gone(v) /\ BasisIn(ls, v) \in Nat /\ gone(v) \in Nat
      BY <1>7
    <3>9. CASE v = u
      <4>1. cost = gone(v) BY <1>8, <3>1, <3>9
      <4>2. t.cash[v] = e.pnl - BasisIn(ls, v)
        <5>1. CASE v \in e.unit BY <3>5, <5>1
        <5>2. CASE v \notin e.unit
          <6>1. e.pnl = 0 BY <3>1, <3>6, <3>9, <5>2
          <6> QED BY <3>5, <5>2, <6>1
        <5> QED BY <5>1, <5>2
      <4>3. t2.cash[v] = t.cash[v] + g - fee BY <3>4, <3>9
      <4>4. v \in b.unit BY <3>1, <3>9
      <4> QED BY <3>3, <3>4, <3>7, <3>8, <4>1, <4>2, <4>3, <4>4
    <3>10. CASE v # u
      <4>1. v \notin e.unit /\ v \notin b.unit /\ gone(v) = 0 BY <1>8, <3>1, <3>10
      <4> QED BY <3>4, <3>5, <3>8, <3>10, <4>1
    <3> QED BY <3>9, <3>10
  <2> QED BY <2>1, <2>2 DEF CashKept
<1>14. CostSeen(b, c, t2)
  <2> SUFFICES ASSUME "cost" \in t2.vague
               PROVE  b.tainted = "yes" \/ \E i \in Open(c) : c[i].reason # "known"
    BY DEF CostSeen
  <2>1. e.tainted = "yes" \/ \E i \in Open(ls) : ls[i].reason # "known"
    BY <1>4 DEF Booked, CostSeen
  <2>2. CASE e.tainted = "yes" BY <1>1, <2>2
  <2>3. CASE \E i \in Open(ls) : ls[i].reason # "known"
    <3>1. PICK i \in Open(ls) : ls[i].reason # "known" BY <2>3
    <3>2. CASE i \in Open(c) BY <1>3, <3>1, <3>2
    <3>3. CASE i \notin Open(c)
      <4>1. ~AllBasisKnown(ls, need) BY <1>3, <3>1, <3>3 DEF AllBasisKnown, touched
      <4> QED BY <1>1, <4>1
    <3> QED BY <3>2, <3>3
  <2> QED BY <2>1, <2>2, <2>3
<1>15. PaidKept(b, c, t2)
  <2> SUFFICES ASSUME NEW v \in Units PROVE t2.paid[v] = Gone(b, v) + BasisIn(c, v) BY DEF PaidKept
  <2>1. t.paid[v] = Gone(e, v) + BasisIn(ls, v) BY DEF Booked, PaidKept
  <2>2. Gone(e, v) \in Int BY DEF Gone, EpisodeType
  <2>3. Gone(b, v) = Gone(e, v) + gone(v) BY <1>9
  <2>4. BasisIn(c, v) = BasisIn(ls, v) - gone(v) /\ BasisIn(ls, v) \in Nat /\ gone(v) \in Nat
    BY <1>7
  <2>5. t2.paid[v] = t.paid[v] BY DEF Moved
  <2> QED BY <2>1, <2>2, <2>3, <2>4, <2>5
<1>16. b.unknown = {} => b.unit # {} BY <1>1, <1>2
<1> QED BY <1>1, <1>10, <1>11, <1>12, <1>13, <1>14, <1>15, <1>16 DEF Booked, b, c

----------------------------------------------------------------------------
(* The ledger. *)

\* What KnownIsCashFlow and BoundIsPrice say of one record.
RecordRight(r) ==
  r.outcome # "open" =>
    /\ r.outcome = "closed_known" <=> r.truth.vague = {} /\ Cardinality(r.truth.units) = 1
    /\ r.outcome = "closed_known" =>
         r.unit = r.truth.units /\ \A u \in r.unit : r.pnl = r.truth.cash[u]
    /\ \A b \in r.bound :
         /\ "cost" \notin r.truth.vague
         /\ b.low = 0 - r.truth.paid[b.unit]
         /\ \A u \in Units \ {b.unit} : r.truth.paid[u] = 0

\* The record of an episode whose last unit is sold.
LEMMA RecordIsRight ==
  ASSUME NEW e \in EpisodeType, NEW ls \in Seq(LotType), LotsOK(ls), OpenAmount(ls) = 0,
         NEW t \in Truths, Booked(e, ls, t), e.unknown = {} => e.unit # {}
  PROVE  RecordRight(Record(e, FALSE, t)) /\ Record(e, FALSE, t).truth = t
<1> DEFINE r == Record(e, FALSE, t)
           bound == IF Outcome(e, FALSE) = "closed_unknown" THEN Bound(e) ELSE {}
<1>1. r.outcome = Outcome(e, FALSE) /\ r.unit = e.unit /\ r.pnl = e.pnl
      /\ r.bound = bound /\ r.truth = t
  BY DEF Record
<1>2. Open(ls) = {} /\ \A u : BasisIn(ls, u) = 0
  <2>1. \A i \in DOMAIN ls : ls[i].left = 0 BY NothingHeld
  <2> QED BY <2>1, NothingHeld DEF Open
<1>3. /\ t.units \subseteq Units /\ IsFiniteSet(t.units)
      /\ \A u \in Units : t.cash[u] \in Int /\ t.paid[u] \in Nat
  BY FS_Subset, LedgerInputs DEF Truths
<1>4. e.unit \subseteq Units /\ e.pnl \in Int /\ DOMAIN e.byUnit \subseteq Units
      /\ (\A u \in DOMAIN e.byUnit : e.byUnit[u] \in Int)
      /\ IsFiniteSet(DOMAIN e.byUnit)
  <2>1. e.unit \subseteq Units /\ e.pnl \in Int /\ DOMAIN e.byUnit \subseteq Units
        /\ \A u \in DOMAIN e.byUnit : e.byUnit[u] \in Int
    BY DEF EpisodeType
  <2>2. IsFiniteSet(DOMAIN e.byUnit) BY <2>1, FS_Subset, LedgerInputs
  <2> QED BY <2>1, <2>2
<1>5. Outcome(e, FALSE) = "closed_known" <=> e.unknown = {} BY DEF Outcome
<1>6. Cardinality(t.units) = 1 <=> \E u : t.units = {u} BY <1>3, FS_Singleton
<1> HIDE DEF r, bound
<1>7. e.unknown = {} => t.units = e.unit /\ t.vague = {} /\ (\E u : e.unit = {u})
                        /\ \A u \in e.unit : e.pnl = t.cash[u]
  <2> SUFFICES ASSUME e.unknown = {}
               PROVE  t.units = e.unit /\ t.vague = {} /\ (\E u : e.unit = {u})
                      /\ \A u \in e.unit : e.pnl = t.cash[u]
    OBVIOUS
  <2>1. t.units = e.unit
    <3>1. {ls[i].unit : i \in Open(ls)} = {} BY <1>2
    <3> QED BY <3>1 DEF Booked, UnitsSeen
  <2>2. t.vague = {} BY DEF Booked, ReasonsSeen
  <2>3. \E u : e.unit = {u} BY DEF Booked, UnitsSeen
  <2>4. ASSUME NEW u \in e.unit PROVE e.pnl = t.cash[u]
    <3>1. u \in Units /\ BasisIn(ls, u) = 0 BY <1>2, <1>4
    <3>2. t.cash[u] = e.pnl - BasisIn(ls, u) BY <3>1, <2>4 DEF Booked, CashKept
    <3> QED BY <3>1, <3>2, <1>4
  <2> QED BY <2>1, <2>2, <2>3, <2>4
<1>8. t.vague = {} /\ (\E u : t.units = {u}) => e.unknown = {} BY DEF Booked, ReasonsSeen
<1>9. ASSUME NEW b \in bound
      PROVE  /\ "cost" \notin t.vague
             /\ b.low = 0 - t.paid[b.unit]
             /\ \A u \in Units \ {b.unit} : t.paid[u] = 0
  <2>1. e.tainted # "yes" /\ Cardinality(DOMAIN e.byUnit) = 1
        /\ \E u \in DOMAIN e.byUnit : b = [unit |-> u, low |-> 0 - e.byUnit[u]]
    BY <1>9 DEF bound, Bound
  <2>2. "cost" \notin t.vague BY <2>1, <1>2 DEF Booked, CostSeen
  <2>3. PICK u \in DOMAIN e.byUnit : b = [unit |-> u, low |-> 0 - e.byUnit[u]] BY <2>1
  <2>4. DOMAIN e.byUnit = {u} BY <2>1, <2>3, <1>4, FS_Singleton
  <2>5. b.unit = u /\ b.low = 0 - e.byUnit[u] BY <2>3
  <2>6. \A v \in Units : t.paid[v] = Gone(e, v) + 0 BY <1>2 DEF Booked, PaidKept
  <2>7. Gone(e, u) = e.byUnit[u] /\ \A v : v # u => Gone(e, v) = 0 BY <2>4 DEF Gone
  <2>8. t.paid[u] = e.byUnit[u] BY <2>3, <2>6, <2>7, <1>4
  <2>9. \A v \in Units : v # u => t.paid[v] = 0 BY <2>6, <2>7
  <2> QED BY <2>2, <2>5, <2>8, <2>9
<1>10. RecordRight(r)
  BY <1>1, <1>5, <1>6, <1>7, <1>8, <1>9 DEF RecordRight
<1> QED BY <1>1, <1>10 DEF r

LedgerType ==
  /\ window \in BOOLEAN
  /\ lots \in Seq(LotType) /\ LotsOK(lots)
  /\ episode = {} \/ \E e \in EpisodeType : episode = {e}
  /\ \A r \in records : r.truth \in Truths /\ RecordRight(r)
  /\ phase \in {"booking", "finished"}
  /\ trades \in 0..MaxTrades
  /\ truth \in Truths

\* The open episode, or the one the next acquisition opens.
Current == IF episode = {} THEN NewEpisode ELSE The(episode)

\* The inductive invariant: the lots hold what the wallet does, and the books
\* of the open episode account for its history.
LedgerInv ==
  /\ LedgerType
  /\ OpenAmount(lots) = truth.held
  /\ phase = "booking" =>
       /\ episode # {} <=> truth.held > 0
       /\ episode = {} => truth = NoTruth
       /\ Booked(Current, lots, truth)
  /\ phase = "finished" => episode = {}

LEMMA CurrentType == ASSUME LedgerType PROVE Current \in EpisodeType /\ (episode # {} => episode = {Current})
<1>1. CASE episode = {}
  <2>1. <<>> \in Seq(LotType) /\ LotsOK(<<>>) /\ OpenAmount(<<>>) = 0
    <3>1. <<>> \in Seq(LotType) /\ DOMAIN <<>> = {} BY Z3
    <3> QED BY <3>1, SumOfNone DEF LotsOK, OpenAmount
  <2> QED BY <1>1, <2>1, FreshBooks DEF Current
<1>2. CASE episode # {}
  <2>1. PICK e \in EpisodeType : episode = {e} BY <1>2 DEF LedgerType
  <2>2. The(episode) = e BY <2>1, TheOnly
  <2> QED BY <1>2, <2>1, <2>2 DEF Current
<1> QED BY <1>1, <1>2

LEMMA LedgerInit == Init => LedgerInv
<1> SUFFICES ASSUME Init PROVE LedgerInv OBVIOUS
<1>1. <<>> \in Seq(LotType) /\ LotsOK(<<>>) /\ OpenAmount(<<>>) = 0
  <2>1. <<>> \in Seq(LotType) /\ DOMAIN <<>> = {} BY Z3
  <2> QED BY <2>1, SumOfNone DEF LotsOK, OpenAmount
<1>2. NoTruth \in Truths /\ Booked(NewEpisode, <<>>, NoTruth) BY <1>1, FreshBooks
<1>3. LedgerType BY <1>1, <1>2, LedgerInputs DEF Init, LedgerType
<1>4. truth.held = 0 BY DEF Init, NoTruth
<1>5. Current = NewEpisode BY DEF Init, Current
<1> QED BY <1>1, <1>2, <1>3, <1>4, <1>5 DEF Init, LedgerInv

\* The lots and the episode when the disposal of `need` begins, and the
\* history that explains them.
LEMMA CoveredBooks ==
  ASSUME LedgerInv, phase = "booking", NEW need \in Nat \ {0}, NEW u \in Units,
         NEW t \in Truths, t.units = truth.units, t.cash = truth.cash, t.paid = truth.paid,
         t.vague = truth.vague \cup (IF need > truth.held THEN {"cost"} ELSE {})
  PROVE  LET c == Covered(need, u)
         IN  /\ c.lots \in Seq(LotType) /\ LotsOK(c.lots)
             /\ OpenAmount(c.lots) = IF need > truth.held THEN need ELSE truth.held
             /\ \E e \in EpisodeType : c.episode = {e} /\ Booked(e, c.lots, t)
<1> DEFINE c == Covered(need, u)
           why == IF window THEN "left_censored" ELSE "not_observed"
           gap == need - OpenAmount(lots)
           e == [Current EXCEPT !.unknown = @ \cup {why}]
           new == AddLot(lots, gap, 0, u, why)
<1>1. /\ lots \in Seq(LotType) /\ LotsOK(lots) /\ truth \in Truths
      /\ OpenAmount(lots) = truth.held /\ truth.held \in Nat
      /\ Booked(Current, lots, truth) /\ (episode # {} <=> truth.held > 0)
      /\ Current \in EpisodeType /\ (episode # {} => episode = {Current})
  BY CurrentType DEF LedgerInv, LedgerType, Truths
<1>2. why \in Reasons /\ why # "known" BY DEF Reasons
<1>3. CASE need > truth.held
  <2>1. gap \in Nat \ {0} /\ gap > 0 BY <1>1, <1>3
  <2>2. Opened(episode, why) = e BY <1>2 DEF Opened, Current
  <2>3. c = [lots |-> new, episode |-> {e}] BY <2>1, <2>2 DEF Covered
  <2>4. e \in EpisodeType /\ Booked(e, new, t)
    <3>1. t.vague = truth.vague \cup {"cost"} BY <1>3
    <3> HIDE DEF gap, why
    <3> DEFINE cur == Current
               e2 == [cur EXCEPT !.unknown = @ \cup {why}]
    <3>2. cur \in EpisodeType /\ Booked(cur, lots, truth) BY <1>1
    <3> HIDE DEF cur
    <3>3. e2 \in EpisodeType /\ Booked(e2, AddLot(lots, gap, 0, u, why), t)
      BY <1>1, <1>2, <2>1, <3>1, <3>2, InflowBooked
    <3> QED BY <3>3 DEF cur
  <2>5. new \in Seq(LotType) /\ LotsOK(new) /\ OpenAmount(new) = OpenAmount(lots) + gap
    <3>1. why \in Reasons \cup {"known"} /\ 0 \in Nat BY <1>2
    <3> HIDE DEF gap, why
    <3>2. new \in Seq(LotType) /\ LotsOK(new) BY <1>1, <1>2, <2>1, <3>1, AddedLot
    <3>3. OpenAmount(new) = OpenAmount(lots) + gap BY <1>1, <1>2, <2>1, <3>1, AddedAmount
    <3> QED BY <3>2, <3>3
  <2>6. OpenAmount(lots) + gap = need BY <1>1
  <2> HIDE DEF c, e, new, gap
  <2>7. c.lots = new /\ c.episode = {e} BY <2>3
  <2> QED BY <1>3, <2>4, <2>5, <2>6, <2>7 DEF c
<1>4. CASE ~(need > truth.held)
  <2>1. ~(gap > 0) /\ truth.held > 0 BY <1>1, <1>4
  <2>2. c = [lots |-> lots, episode |-> episode] BY <2>1 DEF Covered
  <2>3. episode = {Current} BY <1>1, <2>1
  <2>4. t.vague = truth.vague BY <1>4
  <2>5. Booked(Current, lots, t)
    BY <1>1, <2>4 DEF Booked, LotsSeen, UnitsSeen, ReasonsSeen, CashKept, CostSeen, PaidKept
  <2> HIDE DEF c
  <2>6. c.lots = lots /\ c.episode = episode BY <2>2
  <2> QED BY <1>1, <1>4, <2>3, <2>5, <2>6 DEF c
<1> QED BY <1>3, <1>4

LEMMA BuyKeeps ==
  ASSUME LedgerInv, NEW a \in Amounts, NEW cost \in Costs, NEW u \in Units, Buy(a, cost, u)
  PROVE  LedgerInv'
<1>1. a \in Nat \ {0} /\ cost \in Nat BY LedgerInputs
<1>2. /\ lots \in Seq(LotType) /\ LotsOK(lots) /\ truth \in Truths
      /\ OpenAmount(lots) = truth.held /\ truth.held \in Nat
      /\ phase = "booking" /\ Booked(Current, lots, truth)
      /\ Current \in EpisodeType
  BY CurrentType DEF LedgerInv, LedgerType, Truths, Buy, Acquire, Booking
<1> DEFINE new == AddLot(lots, a, cost, u, "known")
<1>3. lots' = new /\ episode' = {Current} /\ UNCHANGED <<window, records, phase>>
      /\ trades' = trades + 1 /\ trades < MaxTrades
  BY DEF Buy, Acquire, Booking, Opened, Current
<1>4. truth' = [truth EXCEPT !.held = @ + a, !.paid[u] = @ + cost, !.cash[u] = @ - cost,
                             !.units = @ \cup {u}]
  BY DEF Buy
<1>5. /\ truth' \in Truths /\ truth'.held = truth.held + a
      /\ truth'.units = truth.units \cup {u} /\ truth'.vague = truth.vague
      /\ truth'.cash = [truth.cash EXCEPT ![u] = @ - cost]
      /\ truth'.paid = [truth.paid EXCEPT ![u] = @ + cost]
  <2> DEFINE h == truth.held + a
             p == [truth.paid EXCEPT ![u] = @ + cost]
             k == [truth.cash EXCEPT ![u] = @ - cost]
             s == truth.units \cup {u}
  <2>1. h \in Nat /\ p \in [Units -> Nat] /\ k \in [Units -> Int] /\ s \in SUBSET Units
    BY <1>1, <1>2 DEF Truths
  <2>2. truth' = [truth EXCEPT !.held = h, !.paid = p, !.cash = k, !.units = s]
    BY <1>2, <1>4 DEF Truths
  <2> HIDE DEF h, p, k, s
  <2>3. /\ truth' \in Truths /\ truth'.held = h /\ truth'.units = s /\ truth'.vague = truth.vague
        /\ truth'.cash = k /\ truth'.paid = p
    BY <1>2, <2>1, <2>2 DEF Truths
  <2> QED BY <2>3 DEF h, p, k, s
<1>6. "known" \in Reasons \cup {"known"} OBVIOUS
<1>7. new \in Seq(LotType) /\ LotsOK(new) BY <1>1, <1>2, <1>6, AddedLot
<1>8. OpenAmount(new) = OpenAmount(lots) + a BY <1>1, <1>2, <1>6, AddedAmount
<1> DEFINE cur == Current
           t2 == truth'
<1>9. Booked(cur, new, t2)
  <2>1. cur \in EpisodeType /\ Booked(cur, lots, truth) /\ t2 \in Truths
        /\ t2.units = truth.units \cup {u} /\ t2.vague = truth.vague
        /\ t2.cash = [truth.cash EXCEPT ![u] = @ - cost]
        /\ t2.paid = [truth.paid EXCEPT ![u] = @ + cost]
    BY <1>2, <1>5
  <2> HIDE DEF cur, t2
  <2> QED BY <1>1, <1>2, <2>1, BuyBooked
<1>10. Current' = cur /\ cur \in EpisodeType BY <1>2, <1>3, TheOnly DEF Current
<1> HIDE DEF cur, new
<1>11. LedgerType' BY <1>3, <1>5, <1>7, <1>10, LedgerInputs DEF LedgerInv, LedgerType, cur
<1>12. truth'.held > 0 /\ OpenAmount(lots') = truth'.held BY <1>1, <1>2, <1>3, <1>5, <1>8
<1>13. episode' # {} BY <1>3
<1>14. Booked(Current', lots', truth') BY <1>3, <1>9, <1>10
<1> QED BY <1>2, <1>3, <1>11, <1>12, <1>13, <1>14 DEF LedgerInv

LEMMA InflowKeeps == ASSUME LedgerInv, NEW a \in Amounts, Inflow(a) PROVE LedgerInv'
<1>1. a \in Nat \ {0} /\ Native \in Units /\ 0 \in Nat BY LedgerInputs
<1>2. /\ lots \in Seq(LotType) /\ LotsOK(lots) /\ truth \in Truths
      /\ OpenAmount(lots) = truth.held /\ truth.held \in Nat
      /\ phase = "booking" /\ Booked(Current, lots, truth)
      /\ Current \in EpisodeType
  BY CurrentType DEF LedgerInv, LedgerType, Truths, Inflow, Acquire, Booking
<1>3. "unverified" \in Reasons /\ "unverified" # "known" /\ "unverified" \in Reasons \cup {"known"}
  BY DEF Reasons
<1> DEFINE why == "unverified"
           new == AddLot(lots, a, 0, Native, why)
           cur == Current
           e2 == [cur EXCEPT !.unknown = @ \cup {why}]
           t2 == truth'
<1>4. lots' = new /\ episode' = {e2} /\ UNCHANGED <<window, records, phase>>
      /\ trades' = trades + 1 /\ trades < MaxTrades
  BY DEF Inflow, Acquire, Booking, Opened, Current
<1>5. /\ t2 \in Truths /\ t2.held = truth.held + a
      /\ t2.units = truth.units /\ t2.vague = truth.vague \cup {"cost"}
      /\ t2.cash = truth.cash /\ t2.paid = truth.paid
  <2> DEFINE h == truth.held + a
             v == truth.vague \cup {"cost"}
  <2>1. h \in Nat /\ v \in SUBSET {"cost", "proceeds"} BY <1>1, <1>2 DEF Truths
  <2>2. truth' = [truth EXCEPT !.held = h, !.vague = v] BY DEF Inflow
  <2> HIDE DEF h, v
  <2>3. /\ truth' \in Truths /\ truth'.held = h /\ truth'.units = truth.units /\ truth'.vague = v
        /\ truth'.cash = truth.cash /\ truth'.paid = truth.paid
    BY <1>2, <2>1, <2>2 DEF Truths
  <2> QED BY <2>3 DEF h, v
<1>6. new \in Seq(LotType) /\ LotsOK(new) BY <1>1, <1>2, <1>3, AddedLot
<1>7. OpenAmount(new) = OpenAmount(lots) + a BY <1>1, <1>2, <1>3, AddedAmount
<1>8. e2 \in EpisodeType /\ Booked(e2, new, t2)
  <2>1. cur \in EpisodeType /\ Booked(cur, lots, truth) BY <1>2
  <2>2. why \in Reasons /\ why # "known" BY <1>3
  <2> HIDE DEF cur, t2, why
  <2> QED BY <1>1, <1>2, <1>5, <2>1, <2>2, InflowBooked
<1> HIDE DEF e2, new
<1>9. Current' = e2 BY <1>4, TheOnly DEF Current
<1>10. LedgerType' BY <1>4, <1>5, <1>6, <1>8, LedgerInputs DEF LedgerInv, LedgerType
<1>11. truth'.held > 0 /\ OpenAmount(lots') = truth'.held BY <1>1, <1>2, <1>4, <1>5, <1>7
<1>12. episode' # {} BY <1>4
<1>13. Booked(Current', lots', truth') BY <1>4, <1>8, <1>9
<1> QED BY <1>2, <1>4, <1>10, <1>11, <1>12, <1>13 DEF LedgerInv

LEMMA DisposeKeeps ==
  ASSUME LedgerInv, NEW need \in Nat \ {0}, NEW proceeds, NEW u \in Units, NEW fee \in Nat,
         NEW why \in Reasons, NEW tc \in Truths, NEW t \in Truths,
         tc.units = truth.units, tc.cash = truth.cash, tc.paid = truth.paid,
         tc.vague = truth.vague \cup (IF need > truth.held THEN {"cost"} ELSE {}),
         Moved(tc, t, proceeds, u, fee),
         t.held = IF need > truth.held THEN 0 ELSE truth.held - need,
         Dispose(need, proceeds, u, fee, why, t)
  PROVE  LedgerInv'
<1> DEFINE c == Covered(need, u)
           left == Consumed(c.lots, need)
           e == Disposed(The(c.episode), c.lots, need, proceeds, u, fee, why)
<1>1. phase = "booking" /\ trades < MaxTrades /\ trades' = trades + 1 BY DEF Dispose, Booking
<1>2. /\ lots' = left
      /\ IF OpenAmount(left) = 0
         THEN /\ records' = records \cup {Record(e, FALSE, t)}
              /\ episode' = {}
         ELSE episode' = {e} /\ UNCHANGED records
      /\ truth' = IF t.held = 0 THEN NoTruth ELSE t
      /\ UNCHANGED <<window, phase>>
  BY DEF Dispose
<1>3. truth \in Truths /\ truth.held \in Nat BY DEF LedgerInv, LedgerType, Truths
<1>4. /\ c.lots \in Seq(LotType) /\ LotsOK(c.lots)
      /\ OpenAmount(c.lots) = IF need > truth.held THEN need ELSE truth.held
      /\ \E x \in EpisodeType : c.episode = {x} /\ Booked(x, c.lots, tc)
  BY <1>1, CoveredBooks
<1> HIDE DEF c
<1>5. PICK x \in EpisodeType : c.episode = {x} /\ Booked(x, c.lots, tc) BY <1>4
<1>6. The(c.episode) = x BY <1>5, TheOnly
<1>7. /\ e \in EpisodeType /\ Booked(e, left, t)
      /\ e.unknown = {} => e.unit # {}
  <2> DEFINE ls == c.lots
             b == Disposed(x, ls, need, proceeds, u, fee, why)
  <2>1. e = b BY <1>6
  <2>2. ls \in Seq(LotType) /\ LotsOK(ls) /\ Booked(x, ls, tc) BY <1>4, <1>5
  <2> HIDE DEF ls
  <2>3. /\ b \in EpisodeType /\ Booked(b, Consumed(ls, need), t)
        /\ b.unknown = {} => b.unit # {}
    BY <2>2, DisposalBooked
  <2> HIDE DEF e, b
  <2> QED BY <2>1, <2>3 DEF ls
<1>8. left \in Seq(LotType) /\ LotsOK(left) BY <1>4, ConsumedOK
<1>9. OpenAmount(left) = t.held
  <2>1. OpenAmount(left) = OpenAmount(c.lots) - need BY <1>3, <1>4, ConsumedAmount
  <2> QED BY <1>3, <1>4, <2>1
<1> HIDE DEF left, e
<1>10. CASE t.held = 0
  <2>1. RecordRight(Record(e, FALSE, t)) /\ Record(e, FALSE, t).truth = t
    BY <1>7, <1>8, <1>9, <1>10, RecordIsRight
  <2>2. records' = records \cup {Record(e, FALSE, t)} /\ episode' = {} /\ truth' = NoTruth
    BY <1>2, <1>9, <1>10
  <2>3. NoTruth \in Truths /\ Booked(NewEpisode, left, NoTruth) BY <1>8, <1>9, <1>10, FreshBooks
  <2>4. LedgerType'
    <3> DEFINE r == Record(e, FALSE, t)
    <3>1. RecordRight(r) /\ r.truth \in Truths /\ records' = records \cup {r} BY <2>1, <2>2
    <3> HIDE DEF r
    <3>2. \A z \in records' : z.truth \in Truths /\ RecordRight(z)
      BY <3>1 DEF LedgerInv, LedgerType
    <3>3. trades' \in 0..MaxTrades BY <1>1, LedgerInputs DEF LedgerInv, LedgerType
    <3> QED BY <1>2, <1>8, <2>2, <2>3, <3>2, <3>3 DEF LedgerInv, LedgerType
  <2>5. Current' = NewEpisode BY <2>2 DEF Current
  <2>6. truth'.held = 0 BY <2>2 DEF NoTruth
  <2>7. OpenAmount(lots') = truth'.held BY <1>2, <1>9, <1>10, <2>6
  <2>8. Booked(Current', lots', truth') BY <1>2, <2>2, <2>3, <2>5
  <2> QED BY <1>1, <1>2, <2>2, <2>4, <2>6, <2>7, <2>8 DEF LedgerInv
<1>11. CASE t.held # 0
  <2>1. records' = records /\ episode' = {e} /\ truth' = t BY <1>2, <1>9, <1>11
  <2>2. LedgerType'
    BY <1>1, <1>2, <1>7, <1>8, <2>1, LedgerInputs DEF LedgerInv, LedgerType
  <2>3. Current' = e BY <2>1, TheOnly DEF Current
  <2>4. truth'.held > 0 /\ OpenAmount(lots') = truth'.held
    <3>1. t.held \in Nat BY DEF Truths
    <3> QED BY <1>2, <1>9, <1>11, <2>1, <3>1
  <2>5. Booked(Current', lots', truth') BY <1>2, <1>7, <2>1, <2>3
  <2>6. episode' # {} BY <2>1
  <2> QED BY <1>1, <1>2, <2>2, <2>4, <2>5, <2>6 DEF LedgerInv
<1> QED BY <1>10, <1>11

\* The history after what a disposal of more than is held first acquires.
Uncovered(need) ==
  [truth EXCEPT !.vague = @ \cup (IF need > truth.held THEN {"cost"} ELSE {})]

LEMMA SoldFields ==
  ASSUME truth \in Truths, NEW need \in Nat \ {0}
  PROVE  /\ Uncovered(need) \in Truths /\ Sold(need) \in Truths
         /\ \A t \in {Uncovered(need), Sold(need)} :
              /\ t.units = truth.units /\ t.cash = truth.cash /\ t.paid = truth.paid
              /\ t.vague = truth.vague \cup (IF need > truth.held THEN {"cost"} ELSE {})
         /\ Sold(need).held = IF need > truth.held THEN 0 ELSE truth.held - need
<1> DEFINE h == Max({truth.held - need, 0})
           v == truth.vague \cup (IF need > truth.held THEN {"cost"} ELSE {})
<1>1. truth.held \in Nat /\ v \in SUBSET {"cost", "proceeds"} BY DEF Truths
<1>2. h = IF need > truth.held THEN 0 ELSE truth.held - need
  <2> DEFINE d == truth.held - need
  <2>1. d \in Int /\ 0 \in Int /\ (d <= 0 <=> ~(need < truth.held)) BY <1>1
  <2>2. d = truth.held - need OBVIOUS
  <2> HIDE DEF d
  <2>3. Max({d, 0}) = IF d <= 0 THEN 0 ELSE d BY <2>1, TwoNumbers, Zenon
  <2> QED BY <1>1, <2>2, <2>3
<1>3. h \in Nat BY <1>1, <1>2
<1>4. Sold(need) = [truth EXCEPT !.held = h, !.vague = v] BY DEF Sold
<1>5. Uncovered(need) = [truth EXCEPT !.vague = v] BY DEF Uncovered
<1>v. v = truth.vague \cup (IF need > truth.held THEN {"cost"} ELSE {}) OBVIOUS
<1> HIDE DEF h, v
<1>6. /\ Sold(need) \in Truths /\ Sold(need).held = h /\ Sold(need).vague = v
      /\ Sold(need).units = truth.units /\ Sold(need).cash = truth.cash
      /\ Sold(need).paid = truth.paid
  BY <1>1, <1>3, <1>4 DEF Truths
<1>7. /\ Uncovered(need) \in Truths /\ Uncovered(need).vague = v
      /\ Uncovered(need).units = truth.units /\ Uncovered(need).cash = truth.cash
      /\ Uncovered(need).paid = truth.paid
  BY <1>1, <1>5 DEF Truths
<1> QED BY <1>2, <1>6, <1>7, <1>v

LEMMA SellKeeps ==
  ASSUME LedgerInv, NEW need \in Amounts, NEW gross \in Gross, NEW u \in Units,
         Sell(need, gross, u)
  PROVE  LedgerInv'
<1> DEFINE fee == SaleFee(u)
           sold == Sold(need)
           t == [sold EXCEPT !.cash[u] = @ + gross - fee, !.units = @ \cup {u}]
           tc == Uncovered(need)
<1>1. need \in Nat \ {0} /\ gross \in Nat /\ fee \in Nat BY LedgerInputs DEF SaleFee
<1>2. truth \in Truths BY DEF LedgerInv, LedgerType
<1>3. "unverified" \in Reasons BY DEF Reasons
<1>4. Dispose(need, {gross}, u, fee, "unverified", t) BY DEF Sell
<1>5. /\ tc \in Truths /\ sold \in Truths
      /\ tc.units = truth.units /\ tc.cash = truth.cash /\ tc.paid = truth.paid
      /\ tc.vague = truth.vague \cup (IF need > truth.held THEN {"cost"} ELSE {})
      /\ sold.units = truth.units /\ sold.cash = truth.cash /\ sold.paid = truth.paid
      /\ sold.vague = truth.vague \cup (IF need > truth.held THEN {"cost"} ELSE {})
      /\ sold.held = IF need > truth.held THEN 0 ELSE truth.held - need
  BY <1>1, <1>2, SoldFields
<1> HIDE DEF sold, tc, fee
<1>6. /\ t \in Truths /\ t.held = sold.held /\ t.paid = sold.paid /\ t.vague = sold.vague
      /\ t.units = sold.units \cup {u} /\ t.cash = [sold.cash EXCEPT ![u] = @ + gross - fee]
  <2> DEFINE k == [sold.cash EXCEPT ![u] = @ + gross - fee]
             s == sold.units \cup {u}
  <2>1. k \in [Units -> Int] /\ s \in SUBSET Units BY <1>1, <1>5 DEF Truths
  <2>2. t = [sold EXCEPT !.cash = k, !.units = s] BY <1>5 DEF Truths
  <2> HIDE DEF k, s, t
  <2>3. /\ t \in Truths /\ t.held = sold.held /\ t.paid = sold.paid /\ t.vague = sold.vague
        /\ t.units = s /\ t.cash = k
    BY <1>5, <2>1, <2>2 DEF Truths
  <2> QED BY <2>3 DEF k, s
<1> HIDE DEF t
<1>7. Moved(tc, t, {gross}, u, fee) BY <1>1, <1>5, <1>6 DEF Moved
<1> QED BY <1>1, <1>3, <1>4, <1>5, <1>6, <1>7, DisposeKeeps

LEMMA OutflowKeeps == ASSUME LedgerInv, NEW need \in Amounts, Outflow(need) PROVE LedgerInv'
<1> DEFINE sold == Sold(need)
           t == [sold EXCEPT !.vague = @ \cup {"proceeds"}]
           tc == Uncovered(need)
<1>1. need \in Nat \ {0} /\ Native \in Units /\ 0 \in Nat BY LedgerInputs
<1>2. truth \in Truths BY DEF LedgerInv, LedgerType
<1>3. "unverified" \in Reasons BY DEF Reasons
<1>4. Dispose(need, {}, Native, 0, "unverified", t) BY DEF Outflow
<1>5. /\ tc \in Truths /\ sold \in Truths
      /\ tc.units = truth.units /\ tc.cash = truth.cash /\ tc.paid = truth.paid
      /\ tc.vague = truth.vague \cup (IF need > truth.held THEN {"cost"} ELSE {})
      /\ sold.units = truth.units /\ sold.cash = truth.cash /\ sold.paid = truth.paid
      /\ sold.vague = truth.vague \cup (IF need > truth.held THEN {"cost"} ELSE {})
      /\ sold.held = IF need > truth.held THEN 0 ELSE truth.held - need
  BY <1>1, <1>2, SoldFields
<1> HIDE DEF sold, tc
<1>6. /\ t \in Truths /\ t.held = sold.held /\ t.paid = sold.paid
      /\ t.vague = sold.vague \cup {"proceeds"} /\ t.units = sold.units /\ t.cash = sold.cash
  BY <1>5 DEF Truths
<1> HIDE DEF t
<1>7. Moved(tc, t, {}, Native, 0) BY <1>5, <1>6 DEF Moved
<1> QED BY <1>1, <1>3, <1>4, <1>5, <1>6, <1>7, DisposeKeeps

LEMMA FinishKeeps == ASSUME LedgerInv, Finish PROVE LedgerInv'
<1>1. phase' = "finished" /\ episode' = {} /\ UNCHANGED <<window, lots, trades, truth>>
      /\ records' = records \cup {Record(e, TRUE, truth) : e \in episode}
  BY DEF Finish
<1>2. \A r \in records' : r.truth \in Truths /\ RecordRight(r)
  <2> SUFFICES ASSUME NEW r \in records' PROVE r.truth \in Truths /\ RecordRight(r) OBVIOUS
  <2>1. CASE r \in records BY <2>1 DEF LedgerInv, LedgerType
  <2>2. CASE r \notin records
    <3>1. PICK e \in episode : r = Record(e, TRUE, truth) BY <1>1, <2>2
    <3>2. r.outcome = "open" /\ r.truth = truth BY <3>1 DEF Record, Outcome
    <3> QED BY <3>2 DEF RecordRight, LedgerInv, LedgerType
  <2> QED BY <2>1, <2>2
<1>3. LedgerType' BY <1>1, <1>2 DEF LedgerInv, LedgerType
<1> QED BY <1>1, <1>3 DEF LedgerInv

LEMMA LedgerStep == ASSUME LedgerInv, [Next]_vars PROVE LedgerInv'
<1>1. CASE UNCHANGED vars BY <1>1 DEF vars, LedgerInv, LedgerType, Current
<1>2. ASSUME NEW a \in Amounts, NEW u \in Units, NEW c \in Costs, Buy(a, c, u) PROVE LedgerInv'
  BY <1>2, BuyKeeps
<1>3. ASSUME NEW a \in Amounts, NEW u \in Units, NEW g \in Gross, Sell(a, g, u) PROVE LedgerInv'
  BY <1>3, SellKeeps
<1>4. ASSUME NEW a \in Amounts, Inflow(a) PROVE LedgerInv' BY <1>4, InflowKeeps
<1>5. ASSUME NEW a \in Amounts, Outflow(a) PROVE LedgerInv' BY <1>5, OutflowKeeps
<1>6. CASE Finish BY <1>6, FinishKeeps
<1> QED BY <1>1, <1>2, <1>3, <1>4, <1>5, <1>6 DEF Next

LEMMA LedgerAlways == Spec => []LedgerInv
BY LedgerInit, LedgerStep, PTL DEF Spec

\* Every variable of the ledger keeps its type.
THEOREM TypeCorrect == Spec => []TypeOK
<1>1. LedgerInv => TypeOK
  <2> SUFFICES ASSUME LedgerInv PROVE TypeOK OBVIOUS
  <2>1. \A i \in DOMAIN lots : /\ lots[i].left \in 0..lots[i].amount /\ lots[i].basis \in Nat
                               /\ lots[i].reason \in Reasons \cup {"known"}
    <3>1. lots \in Seq(LotType) /\ LotsOK(lots) BY DEF LedgerInv, LedgerType
    <3>2. SUFFICES ASSUME NEW i \in DOMAIN lots
                   PROVE  /\ lots[i].left \in 0..lots[i].amount /\ lots[i].basis \in Nat
                          /\ lots[i].reason \in Reasons \cup {"known"}
      OBVIOUS
    <3>3. lots[i] \in LotType /\ lots[i].amount \in Nat /\ lots[i].left \in Nat /\ lots[i].basis \in Nat
      BY <3>1, LotFields
    <3>4. lots[i].left <= lots[i].amount BY <3>1 DEF LotsOK
    <3>5. lots[i].reason \in Reasons \cup {"known"} BY <3>3 DEF LotType
    <3>6. lots[i].left \in 0..lots[i].amount BY <3>3, <3>4
    <3> QED BY <3>3, <3>5, <3>6
  <2>2. Cardinality(episode) <= 1
    <3>1. CASE episode = {} BY <3>1, FS_EmptySet
    <3>2. CASE \E e : episode = {e}
      <4>1. PICK e : episode = {e} BY <3>2
      <4>2. Cardinality({e}) = 1 BY FS_Singleton
      <4> QED BY <4>1, <4>2
    <3> QED BY <3>1, <3>2 DEF LedgerInv, LedgerType
  <2>3. ASSUME NEW e \in episode
        PROVE  /\ e.unit \subseteq Units /\ Cardinality(e.unit) <= 1
               /\ e.pnl \in Int /\ e.unknown \subseteq Reasons /\ DOMAIN e.byUnit \subseteq Units
    <3>1. e = Current /\ e \in EpisodeType /\ Booked(e, lots, truth)
      BY <2>3, CurrentType DEF LedgerInv, LedgerType
    <3>2. /\ e.unit \subseteq Units /\ e.pnl \in Int /\ e.unknown \subseteq Reasons
          /\ DOMAIN e.byUnit \subseteq Units
      BY <3>1 DEF EpisodeType
    <3>3. Cardinality(e.unit) <= 1
      <4>1. CASE e.unit = {} BY <4>1, FS_EmptySet
      <4>2. CASE e.unit # {}
        <5>1. PICK u \in e.unit : e.unit = {u} BY <3>1, <4>2 DEF Booked, UnitsSeen
        <5> QED BY <5>1, FS_Singleton
      <4> QED BY <4>1, <4>2
    <3> QED BY <3>2, <3>3
  <2> QED BY <2>1, <2>2, <2>3 DEF LedgerInv, LedgerType, TypeOK
<1> QED BY <1>1, LedgerAlways, PTL

\* The lots hold what the wallet does, an episode is open exactly then, the
\* oldest lot is used up first, and a used-up lot has no basis left.
THEOREM InventoryIsKept == Spec => []InventoryKept
<1>1. LedgerInv => InventoryKept
  <2> SUFFICES ASSUME LedgerInv PROVE InventoryKept OBVIOUS
  <2>1. LotsOK(lots) BY DEF LedgerInv, LedgerType
  <2> QED BY <2>1 DEF LedgerInv, LotsOK, InventoryKept
<1> QED BY <1>1, LedgerAlways, PTL

\* A closed episode has a known result exactly when every price is known and
\* in one unit, and it is what the wallet received minus what it paid.
THEOREM KnownResultIsCashFlow == Spec => []KnownIsCashFlow
<1>1. LedgerInv => KnownIsCashFlow
  BY DEF LedgerInv, LedgerType, RecordRight, KnownIsCashFlow, Closed
<1> QED BY <1>1, LedgerAlways, PTL

\* The bound of a closed episode is all it paid, at known prices in one unit.
THEOREM BoundIsWhatWasPaid == Spec => []BoundIsPrice
<1>1. LedgerInv => BoundIsPrice
  BY DEF LedgerInv, LedgerType, RecordRight, BoundIsPrice, Closed
<1> QED BY <1>1, LedgerAlways, PTL
=============================================================================
