---------------------------- MODULE FiniteExtrema ----------------------------
(***************************************************************************)
(* Lemmas about finite sets that the proofs of both correlation modules    *)
(* need: a finite set has a first element in any total order, and so a     *)
(* least and a greatest number, which Min and Max find.                    *)
(***************************************************************************)
EXTENDS Integers, FiniteSets, FiniteSetsExt, FiniteSetTheorems, WellFoundedInduction, TLAPS

\* A non-empty finite set has an element that a transitive relation R, which orders
\* any two elements, puts before all others: a least set without one would have a
\* smaller one still.
LEMMA FirstOfFinite ==
  ASSUME NEW S, IsFiniteSet(S), S # {}, NEW R,
         \A x, y \in S : x # y => <<x, y>> \in R \/ <<y, x>> \in R,
         \A x, y, z \in S : <<x, y>> \in R /\ <<y, z>> \in R => <<x, z>> \in R
  PROVE  \E m \in S : \A y \in S \ {m} : <<m, y>> \in R
<1>. DEFINE HasFirst(U) == \E m \in U : \A y \in U \ {m} : <<m, y>> \in R
            Bad == {U \in FiniteSubsetsOf(S) : U # {} /\ ~ HasFirst(U)}
<1>1. Bad = {}
  <2>. SUFFICES ASSUME Bad # {} PROVE FALSE
    OBVIOUS
  <2>1. IsWellFoundedOn(StrictSubsetOrdering(S), FiniteSubsetsOf(S))
    BY FS_StrictSubsetOrderingWellFounded
  <2>2. PICK U \in Bad : \A V \in Bad : ~ (<<V, U>> \in StrictSubsetOrdering(S))
    <3>. HIDE DEF Bad
    <3>1. Bad \subseteq FiniteSubsetsOf(S)
      BY DEF Bad
    <3>. QED  BY <2>1, <3>1, WFMin
  <2>3. U \in SUBSET S /\ IsFiniteSet(U) /\ U # {} /\ ~ HasFirst(U)
    BY DEF FiniteSubsetsOf
  <2>4. PICK x \in U : TRUE
    BY <2>3
  <2>5. U \ {x} \in FiniteSubsetsOf(S)
    BY <2>3, FS_RemoveElement DEF FiniteSubsetsOf
  <2>6. <<U \ {x}, U>> \in StrictSubsetOrdering(S)
    BY <2>3, <2>4, <2>5 DEF StrictSubsetOrdering, FiniteSubsetsOf
  <2>7. U \ {x} = {} \/ HasFirst(U \ {x})
    BY <2>2, <2>5, <2>6
  <2>8. CASE U \ {x} = {}
    BY <2>3, <2>4, <2>8
  <2>9. CASE HasFirst(U \ {x})
    <3>1. PICK m \in U \ {x} : \A y \in (U \ {x}) \ {m} : <<m, y>> \in R
      BY <2>9
    <3>2. CASE <<m, x>> \in R
      BY <2>3, <2>4, <3>1, <3>2
    <3>3. CASE <<x, m>> \in R
      <4>1. \A y \in U \ {x} : <<x, y>> \in R
        BY <2>3, <2>4, <3>1, <3>3
      <4>. QED  BY <2>3, <2>4, <4>1
    <3>. QED  BY <2>3, <2>4, <3>1, <3>2, <3>3
  <2>. QED  BY <2>7, <2>8, <2>9
<1>2. S \in FiniteSubsetsOf(S)
  BY DEF FiniteSubsetsOf
<1>. QED  BY <1>1, <1>2

\* Min of a non-empty finite set of integers is its least element.
LEMMA MinOfFinite ==
  ASSUME NEW S \in SUBSET Int, IsFiniteSet(S), S # {}
  PROVE  /\ Min(S) \in S
         /\ \A x \in S : Min(S) <= x
<1>. DEFINE R == {p \in S \X S : p[1] < p[2]}
<1>1. /\ \A x, y \in S : x # y => <<x, y>> \in R \/ <<y, x>> \in R
      /\ \A x, y, z \in S : <<x, y>> \in R /\ <<y, z>> \in R => <<x, z>> \in R
  OBVIOUS
<1>2. PICK m \in S : \A y \in S \ {m} : <<m, y>> \in R
  <2>. HIDE DEF R
  <2>. QED  BY <1>1, FirstOfFinite
<1>3. ASSUME NEW y \in S PROVE m <= y
  <2>1. CASE y = m
    BY <2>1
  <2>2. CASE y # m
    <3>1. <<m, y>> \in R
      BY <1>2, <2>2
    <3>2. m < y /\ m \in Int /\ y \in Int
      BY <3>1
    <3>. QED  BY <3>2
  <2>. QED  BY <2>1, <2>2
<1>. QED  BY <1>3 DEF Min

\* Max of a non-empty finite set of integers is its greatest element.
LEMMA MaxOfFinite ==
  ASSUME NEW S \in SUBSET Int, IsFiniteSet(S), S # {}
  PROVE  /\ Max(S) \in S
         /\ \A x \in S : x <= Max(S)
<1>. DEFINE R == {p \in S \X S : p[2] < p[1]}
<1>1. /\ \A x, y \in S : x # y => <<x, y>> \in R \/ <<y, x>> \in R
      /\ \A x, y, z \in S : <<x, y>> \in R /\ <<y, z>> \in R => <<x, z>> \in R
  OBVIOUS
<1>2. PICK m \in S : \A y \in S \ {m} : <<m, y>> \in R
  <2>. HIDE DEF R
  <2>. QED  BY <1>1, FirstOfFinite
<1>3. ASSUME NEW y \in S PROVE m >= y
  <2>1. CASE y = m
    BY <2>1
  <2>2. CASE y # m
    <3>1. <<m, y>> \in R
      BY <1>2, <2>2
    <3>2. y < m /\ m \in Int /\ y \in Int
      BY <3>1
    <3>. QED  BY <3>2
  <2>. QED  BY <2>1, <2>2
<1>. QED  BY <1>3 DEF Max

\* Min and Max of one integer, or Max of zero and of what equals one natural.
LEMMA ExtremaOfFew ==
  /\ \A x \in Int : Min({x}) = x /\ Max({x}) = x
  /\ \A S \in SUBSET Nat : (\A x, y \in S : x = y) =>
        /\ S = {} => Max({0} \cup S) = 0
        /\ \A x \in S : Max({0} \cup S) = x
<1>1. \A x \in Int : Min({x}) = x /\ Max({x}) = x
  BY DEF Min, Max
<1>2. ASSUME NEW S \in SUBSET Nat, \A x, y \in S : x = y
      PROVE  /\ S = {} => Max({0} \cup S) = 0
             /\ \A x \in S : Max({0} \cup S) = x
  <2>1. CASE S = {}
    <3>1. {0} \cup S = {0}
      BY <2>1
    <3>. QED  BY <1>1, <2>1, <3>1
  <2>2. ASSUME NEW x \in S PROVE Max({0} \cup S) = x
    <3>1. {0} \cup S = {0, x} /\ x \in Nat
      BY <1>2, <2>2
    <3>2. \A m \in {0, x} : (\A y \in {0, x} : m >= y) <=> m = x
      BY <3>1
    <3>. QED  BY <3>1, <3>2 DEF Max
  <2>. QED  BY <2>1, <2>2
<1>. QED  BY <1>1, <1>2
=============================================================================
