------------------------ MODULE RuleEvaluation_proofs ------------------------
(***************************************************************************)
(* Lemmas about the choices RuleEvaluation makes, for any inputs, rule and *)
(* limits: what is chosen exists and, where the code relies on it, is one. *)
(***************************************************************************)
EXTENDS RuleEvaluation, FiniteExtrema

\* Some inputs have a first and a last one, and the interval of the first starts
\* at a natural number.
LEMMA SomeInputs ==
  ASSUME NEW M \in SUBSET Inputs
  PROVE  /\ IsFiniteSet(M)
         /\ M # {} => /\ Min(M) \in M /\ Max(M) \in M
                      /\ Min(M) \in Inputs /\ Max(M) \in Inputs
                      /\ Start(M) \in Nat
<1>1. IsFiniteSet(M) /\ M \in SUBSET Int
  <2>1. IsFiniteSet(M)
    BY InputsAssumption, FS_Subset
  <2>2. Inputs \in SUBSET Int
    BY InputsAssumption
  <2>. QED  BY <2>1, <2>2
<1>2. ASSUME M # {}
      PROVE  Min(M) \in M /\ Max(M) \in M
  BY <1>1, <1>2, MinOfFinite, MaxOfFinite
<1>3. ASSUME M # {} PROVE Start(M) \in Nat
  BY <1>2, <1>3, InputsAssumption DEF Start
<1>. QED  BY <1>1, <1>2, <1>3

\* Times and deadlines are natural numbers.
LEMMA TimesAreNatural ==
  /\ \A i \in Inputs : Occurred[i] \in Nat /\ Observed[i] \in Nat /\ i \in Nat /\ i # 0
  /\ \A start \in Nat : Deadline(start) \in Nat
<1>1. \A i \in Inputs : Occurred[i] \in Nat /\ Observed[i] \in Nat /\ i \in Nat /\ i # 0
  BY InputsAssumption
<1>2. \A start \in Nat : Deadline(start) \in Nat
  BY RuleAssumption DEF Deadline
<1>. QED  BY <1>1, <1>2

\* The number that decides between two sets of inputs is in one of them only, and
\* all smaller ones are in both or in neither.
LEMMA FirstDifference ==
  ASSUME NEW P \in SUBSET Inputs, NEW Q \in SUBSET Inputs, P # Q
  PROVE  \E m \in SymDiff(P, Q) :
           /\ m = Min(SymDiff(P, Q)) /\ m \in Nat
           /\ \A x \in Inputs : x < m => (x \in P <=> x \in Q)
<1>1. SymDiff(P, Q) \in SUBSET Inputs /\ SymDiff(P, Q) # {}
  BY DEF SymDiff
<1>2. IsFiniteSet(SymDiff(P, Q)) /\ SymDiff(P, Q) \in SUBSET Int
  <2>1. IsFiniteSet(SymDiff(P, Q))
    BY <1>1, SomeInputs
  <2>2. Inputs \in SUBSET Int
    BY InputsAssumption
  <2>. QED  BY <1>1, <2>1, <2>2
<1>3. /\ Min(SymDiff(P, Q)) \in SymDiff(P, Q)
      /\ \A x \in SymDiff(P, Q) : Min(SymDiff(P, Q)) <= x
  BY <1>1, <1>2, MinOfFinite
<1>4. ASSUME NEW x \in Inputs, x < Min(SymDiff(P, Q)) PROVE x \in P <=> x \in Q
  <2>1. x \notin SymDiff(P, Q)
    <3>1. Min(SymDiff(P, Q)) \in Int /\ x \in Int
      BY <1>2, <1>3, InputsAssumption
    <3>2. ~ (Min(SymDiff(P, Q)) <= x)
      BY <1>4, <3>1
    <3>. QED  BY <1>3, <3>2
  <2>. QED  BY <2>1 DEF SymDiff
<1>. QED  BY <1>1, <1>3, <1>4, InputsAssumption

\* Of two sets that do not contain each other one is the canonical one.
LEMMA CanonicalDecides ==
  ASSUME condition \in Conditions, NEW P \in SUBSET Inputs, NEW Q \in SUBSET Inputs,
         ~ (Q \subseteq P), NEW m \in P \ Q, m \in Nat,
         \A x \in Inputs : x < m => (x \in P <=> x \in Q)
  PROVE  Canonical(P, Q) \/ Canonical(Q, P)
<1>. DEFINE B == {x \in Q : m < x}
<1>1. \A x \in Inputs : x \in Nat
  BY InputsAssumption
<1>2. B # {}
  <2>1. PICK x \in Q : x \notin P
    OBVIOUS
  <2>2. ~ (x < m) /\ x # m
    BY <2>1
  <2>. QED  BY <1>1, <2>2
<1>3. PICK j \in Q : m < j /\ \A x \in Q : m < x => j <= x
  <2>1. B \in SUBSET Inputs
    OBVIOUS
  <2>2. IsFiniteSet(B) /\ B \in SUBSET Int
    <3>. HIDE DEF B
    <3>1. IsFiniteSet(B)
      BY <2>1, SomeInputs
    <3>. QED  BY <1>1, <2>1, <3>1
  <2>3. Min(B) \in B /\ \A x \in B : Min(B) <= x
    <3>. HIDE DEF B
    <3>. QED  BY <1>2, <2>2, MinOfFinite
  <2>. QED  BY <2>3
<1>4. {x \in P : x < m} = {x \in Q : x < j}
  <2>1. ASSUME NEW x \in P, x < m PROVE x \in Q /\ x < j
    BY <1>1, <1>3, <2>1
  <2>2. ASSUME NEW x \in Q, x < j PROVE x \in P /\ x < m
    <3>1. ~ (m < x) /\ x # m
      BY <1>1, <1>3, <2>2
    <3>. QED  BY <1>1, <3>1
  <2>. QED  BY <2>1, <2>2
<1>5. /\ condition.tags[m] \in Int /\ condition.tags[j] \in Int
      /\ condition.tags[m] # condition.tags[j]
  <2>1. condition.tags \in Order
    BY RuleAssumption DEF Condition
  <2>2. m \in Inputs /\ j \in Inputs /\ m # j
    BY <1>3
  <2>. QED  BY <2>1, <2>2 DEF Order
<1>. QED  BY <1>4, <1>5 DEF Canonical

\* Sets of inputs of one size do not contain each other.
LEMMA EqualSizes ==
  ASSUME NEW P \in SUBSET Inputs, NEW Q \in SUBSET Inputs,
         Cardinality(P) = Cardinality(Q), P \subseteq Q
  PROVE  P = Q
<1>1. IsFiniteSet(Q)
  BY SomeInputs
<1>. QED  BY <1>1, FS_Subset

\* Of sets of inputs that do not contain each other one is the canonical one.
LEMMA CanonicalExists ==
  ASSUME condition \in Conditions, NEW F \in SUBSET SUBSET Inputs, F # {},
         \A P, Q \in F : P \subseteq Q => P = Q
  PROVE  \E P \in F : \A Q \in F \ {P} : Canonical(P, Q)
<1>. DEFINE R == {p \in F \X F : Canonical(p[1], p[2])}
<1>1. IsFiniteSet(F)
  BY InputsAssumption, FS_SUBSET, FS_Subset
<1>2. \A P, Q \in F : <<P, Q>> \in R <=> Canonical(P, Q)
  OBVIOUS
<1>3. ASSUME NEW P \in F, NEW Q \in F, P # Q PROVE Canonical(P, Q) \/ Canonical(Q, P)
  <2>1. ~ (P \subseteq Q) /\ ~ (Q \subseteq P)
    BY <1>3
  <2>2. PICK m \in SymDiff(P, Q) :
          m \in Nat /\ \A x \in Inputs : x < m => (x \in P <=> x \in Q)
    BY <1>3, FirstDifference
  <2>3. CASE m \in P \ Q
    BY <2>1, <2>2, <2>3, CanonicalDecides
  <2>4. CASE m \in Q \ P
    BY <2>1, <2>2, <2>4, CanonicalDecides
  <2>. QED  BY <2>3, <2>4 DEF SymDiff
<1>4. ASSUME NEW P \in F, NEW Q \in F, NEW T \in F, Canonical(P, Q), Canonical(Q, T)
      PROVE  Canonical(P, T)
  <2>1. PICK i \in P, j \in Q :
          {k \in P : k < i} = {k \in Q : k < j} /\ condition.tags[i] < condition.tags[j]
    BY <1>4 DEF Canonical
  <2>2. PICK m \in Q, n \in T :
          {k \in Q : k < m} = {k \in T : k < n} /\ condition.tags[m] < condition.tags[n]
    BY <1>4 DEF Canonical
  <2>3. \A x \in Inputs : x \in Nat /\ condition.tags[x] \in Int
    <3>1. condition.tags \in Order
      BY RuleAssumption DEF Condition
    <3>2. condition.tags \in [Inputs -> Nat \ {0}]
      BY <3>1 DEF Order
    <3>. QED  BY <3>2, InputsAssumption
  <2>4. i \in Inputs /\ j \in Inputs /\ m \in Inputs /\ n \in Inputs
    OBVIOUS
  <2>5. CASE j < m
    <3>1. j \in T /\ j < n
      BY <2>2, <2>5
    <3>2. {k \in Q : k < j} = {k \in T : k < j}
      <4>1. ASSUME NEW k \in Q, k < j PROVE k \in T
        BY <2>2, <2>3, <2>4, <2>5, <4>1
      <4>2. ASSUME NEW k \in T, k < j PROVE k \in Q
        BY <2>2, <2>3, <2>4, <3>1, <4>2
      <4>. QED  BY <4>1, <4>2
    <3>. QED  BY <2>1, <3>1, <3>2 DEF Canonical
  <2>6. CASE m < j
    <3>1. m \in P /\ m < i
      BY <2>1, <2>6
    <3>2. {k \in Q : k < m} = {k \in P : k < m}
      <4>1. ASSUME NEW k \in Q, k < m PROVE k \in P
        BY <2>1, <2>3, <2>4, <2>6, <4>1
      <4>2. ASSUME NEW k \in P, k < m PROVE k \in Q
        BY <2>1, <2>3, <2>4, <3>1, <4>2
      <4>. QED  BY <4>1, <4>2
    <3>. QED  BY <2>2, <3>1, <3>2 DEF Canonical
  <2>7. CASE j = m
    <3>1. condition.tags[i] < condition.tags[n]
      BY <2>1, <2>2, <2>3, <2>4, <2>7
    <3>. QED  BY <2>1, <2>2, <2>7, <3>1 DEF Canonical
  <2>. QED  BY <2>3, <2>4, <2>5, <2>6, <2>7
<1>5. PICK P \in F : \A Q \in F \ {P} : <<P, Q>> \in R
  <2>1. \A x, y \in F : x # y => <<x, y>> \in R \/ <<y, x>> \in R
    BY <1>2, <1>3
  <2>2. \A x, y, z \in F : <<x, y>> \in R /\ <<y, z>> \in R => <<x, z>> \in R
    BY <1>2, <1>4
  <2>. HIDE DEF R
  <2>3. F # {}
    OBVIOUS
  <2>. QED  BY SMTT(60), <1>1, <2>1, <2>2, <2>3, FirstOfFinite
<1>6. \A Q \in F \ {P} : Canonical(P, Q)
  BY <1>2, <1>5
<1>. QED  BY <1>6

\* The leading stages a partial sequence remembers are free inputs.
LEMMA PrefixIsFree ==
  ASSUME condition \in Conditions, NEW free \in SUBSET Inputs, NEW existing
  PROVE  Prefix(free, existing) \in SUBSET free
<1>. DEFINE usable   == {i \in free : \A s \in existing :
                           InWindow(s.start, i) /\ Observed[i] <= Deadline(s.start)}
            valid(n) == {P \in kSubset(Taken(n), usable) :
                           /\ InOrder(P, n) /\ Spans(P)
                           /\ \A i \in P : Observed[i] <= Deadline(Start(P))}
            lengths  == {n \in 1 .. Len(condition.stages) - 1 : \A k \in 1 .. n : valid(k) # {}}
            best     == valid(Max(lengths))
<1>1. Prefix(free, existing) =
        IF lengths = {} THEN {} ELSE The({P \in best : \A Q \in best \ {P} : Canonical(P, Q)})
  BY DEF Prefix
<1>2. ASSUME lengths # {}
      PROVE  The({P \in best : \A Q \in best \ {P} : Canonical(P, Q)}) \in SUBSET free
  <2>1. \A n : valid(n) \in SUBSET SUBSET free
    BY DEF kSubset
  <2>2. lengths \in SUBSET Int /\ IsFiniteSet(lengths)
    <3>1. Len(condition.stages) \in Nat
      BY RuleAssumption DEF Condition
    <3>2. 1 .. Len(condition.stages) - 1 \in SUBSET Int
      OBVIOUS
    <3>3. IsFiniteSet(1 .. Len(condition.stages) - 1)
      BY <3>1, FS_Interval
    <3>4. lengths \in SUBSET (1 .. Len(condition.stages) - 1)
      OBVIOUS
    <3>. HIDE DEF lengths
    <3>. QED  BY <3>2, <3>3, <3>4, FS_Subset
  <2>3. valid(Max(lengths)) # {}
    <3>1. Max(lengths) \in lengths
      <4>. HIDE DEF lengths
      <4>. QED  BY <1>2, <2>2, MaxOfFinite
    <3>. HIDE DEF valid
    <3>2. Max(lengths) \in 1 .. Max(lengths)
      BY <3>1
    <3>. QED  BY <3>1, <3>2
  <2>4. /\ best \in SUBSET SUBSET Inputs /\ best # {} /\ best \in SUBSET SUBSET free
        /\ \A P \in best : Cardinality(P) = Taken(Max(lengths))
    <3>1. \A n : \A P \in valid(n) : Cardinality(P) = Taken(n)
      BY DEF kSubset
    <3>. QED  BY <2>1, <2>3, <3>1
  <2>. HIDE DEF best
  <2>5. ASSUME NEW P \in best, NEW Q \in best, P \subseteq Q PROVE P = Q
    <3>1. P \in SUBSET Inputs /\ Q \in SUBSET Inputs
      BY <2>4
    <3>2. Cardinality(P) = Cardinality(Q)
      BY <2>4
    <3>. QED  BY <2>5, <3>1, <3>2, EqualSizes
  <2>6. \E P \in best : \A Q \in best \ {P} : Canonical(P, Q)
    BY <2>4, <2>5, CanonicalExists
  <2>. QED  BY <2>4, <2>6 DEF The
<1>. HIDE DEF lengths, best
<1>. QED  BY <1>1, <1>2

\* An episode is as far from an input as an integer says.
LEMMA DistanceIsInteger ==
  ASSUME NEW c \in Inputs, NEW s, s.start \in Nat, s.incident \in {0} \cup Inputs
  PROVE  Distance(c, s) \in Int
<1>1. Occurred[c] \in Int /\ AnchorTime(s) \in Int
  BY TimesAreNatural DEF AnchorTime
<1>. DEFINE p == Occurred[c] - AnchorTime(s)
            q == AnchorTime(s) - Occurred[c]
<1>2. p \in Int /\ q \in Int
  BY <1>1
<1>3. Distance(c, s) = Max({p, q})
  BY DEF Distance
<1>. HIDE DEF p, q
<1>4. {p, q} \in SUBSET Int /\ {p, q} # {}
  BY <1>2
<1>5. IsFiniteSet({p, q})
  <2>1. IsFiniteSet({p} \cup {q})
    BY FS_Singleton, FS_AddElement
  <2>2. {p} \cup {q} = {p, q}
    OBVIOUS
  <2>. QED  BY <2>1, <2>2
<1>. QED  BY <1>2, <1>3, <1>4, <1>5, MaxOfFinite

\* The identities of incidents and of episodes have an order.
LEMMA NamesAreOrdered ==
  ASSUME condition \in Conditions
  PROVE  /\ \A x \in {0} \cup Inputs : IncidentRank(x) \in Int
         /\ \A x, y \in {0} \cup Inputs : IncidentRank(x) = IncidentRank(y) => x = y
         /\ \A x \in Inputs : condition.episodes[x] \in Int
<1>1. condition.incidents \in Order /\ condition.episodes \in Order
  BY RuleAssumption DEF Condition
<1>2. \A x \in Inputs : /\ condition.incidents[x] \in Nat /\ condition.incidents[x] # 0
                         /\ condition.episodes[x] \in Nat
  BY <1>1 DEF Order
<1>3. \A x, y \in Inputs : condition.incidents[x] = condition.incidents[y] => x = y
  BY <1>1 DEF Order
<1>. QED  BY <1>2, <1>3, TimesAreNatural DEF IncidentRank

\* At most one episode is nearest to an input.
LEMMA NearestIsOne ==
  ASSUME condition \in Conditions, NEW c \in Inputs, NEW S,
         \A s \in S : s.start \in Nat /\ s.incident \in {0} \cup Inputs /\ s.id \in Inputs
  PROVE  /\ Nearest(c, S) \in SUBSET S
         /\ \A s, t \in Nearest(c, S) : s = t
<1>1. Nearest(c, S) \in SUBSET S
  BY DEF Nearest
<1>2. ASSUME NEW s \in Nearest(c, S), NEW t \in Nearest(c, S), s # t PROVE FALSE
  <2>1. Closer(c, s, t) /\ Closer(c, t, s)
    BY <1>2 DEF Nearest
  <2>2. Distance(c, s) \in Int /\ Distance(c, t) \in Int
    BY <1>1, DistanceIsInteger
  <2>3. FirstNamed(s, t) /\ FirstNamed(t, s)
    BY <2>1, <2>2 DEF Closer
  <2>4. /\ IncidentRank(s.incident) \in Int /\ IncidentRank(t.incident) \in Int
        /\ condition.episodes[s.id] \in Int /\ condition.episodes[t.id] \in Int
    BY <1>1, NamesAreOrdered
  <2>. QED  BY <2>3, <2>4 DEF FirstNamed
<1>. QED  BY <1>1, <1>2

\* A match has inputs of its own, all of it in the context, and the candidate
\* among its evidence.
LEMMA MatchHasInputs ==
  ASSUME condition \in Conditions, NEW c, NEW context \in SUBSET Inputs,
         NEW o \in Matches(c, context)
  PROVE  /\ o.members \in SUBSET context /\ o.members # {}
         /\ o.related \in SUBSET context
         /\ c \in Evidence(o) /\ Evidence(o) \in SUBSET context
<1>1. PICK M \in Satisfying(context) : o = [members |-> M, related |-> RelatedTo(M, context)]
  BY DEF Matches
<1>2. c \in Evidence(o)
  BY DEF Matches
<1>3. M \in SUBSET context
  BY DEF Satisfying, kSubset
<1>4. RelatedTo(M, context) \in SUBSET context
  BY DEF RelatedTo
<1>5. M # {}
  <2>1. CASE ~ condition.derived
    BY <1>1, <1>2, <2>1 DEF RelatedTo, Evidence
  <2>2. CASE condition.derived
    <3>1. condition.kind = "join" /\ Len(condition.stages) > 1
      BY <2>2, RuleAssumption DEF Condition
    <3>2. condition.stages \in Seq(Stage)
      BY RuleAssumption DEF Condition
    <3>3. 1 \in Stages
      BY <3>1, <3>2 DEF Stages
    <3>4. Joined(M)
      BY <3>1 DEF Satisfying
    <3>. QED  BY <3>3, <3>4 DEF Joined
  <2>. QED  BY <2>1, <2>2
<1>. QED  BY <1>1, <1>2, <1>3, <1>4, <1>5 DEF Evidence

\* A chosen option is a match with at most one owner, an episode that owns one.
LEMMA OptionHasOneOwner ==
  ASSUME condition \in Conditions, NEW c \in Inputs, NEW context \in SUBSET Inputs,
         NEW S, NEW known,
         \A s \in S : s.start \in Nat /\ s.incident \in {0} \cup Inputs /\ s.id \in Inputs,
         NEW p \in Selected(c, context, S, known)
  PROVE  /\ p.match \in Matches(c, context)
         /\ p.owner \in SUBSET Owning(S)
         /\ \A s, t \in p.owner : s = t
<1>1. PICK o \in Matches(c, context) :
        p = [match |-> o, owner |-> Nearest(c, Attachable(c, S, known, o))]
  BY DEF Selected, Options
<1>2. Attachable(c, S, known, o) \in SUBSET Owning(S) /\ Owning(S) \in SUBSET S
  BY DEF Attachable, Owning
<1>3. /\ Nearest(c, Attachable(c, S, known, o)) \in SUBSET Attachable(c, S, known, o)
      /\ \A s, t \in Nearest(c, Attachable(c, S, known, o)) : s = t
  BY <1>2, NearestIsOne
<1>. QED  BY <1>1, <1>2, <1>3

\* Of episodes of different incidents one is nearest to an input.
LEMMA NearestExists ==
  ASSUME condition \in Conditions, NEW c \in Inputs, NEW S, IsFiniteSet(S), S # {},
         \A s \in S : s.start \in Nat /\ s.incident \in {0} \cup Inputs /\ s.id \in Inputs,
         \A s, t \in S : s.incident = t.incident => s = t
  PROVE  Nearest(c, S) # {}
<1>. DEFINE R == {p \in S \X S : Closer(c, p[1], p[2])}
<1>1. \A s \in S : /\ Distance(c, s) \in Int /\ IncidentRank(s.incident) \in Int
                    /\ condition.episodes[s.id] \in Int
  BY DistanceIsInteger, NamesAreOrdered
<1>2. ASSUME NEW s \in S, NEW t \in S, s # t PROVE Closer(c, s, t) \/ Closer(c, t, s)
  <2>1. s.incident # t.incident
    BY <1>2
  <2>2. IncidentRank(s.incident) # IncidentRank(t.incident)
    BY <2>1, NamesAreOrdered
  <2>. QED  BY <1>1, <2>2 DEF Closer, FirstNamed
<1>3. ASSUME NEW s \in S, NEW t \in S, NEW u \in S, Closer(c, s, t), Closer(c, t, u)
      PROVE  Closer(c, s, u)
  <2>1. FirstNamed(s, t) /\ FirstNamed(t, u) => FirstNamed(s, u)
    BY <1>1 DEF FirstNamed
  <2>. QED  BY <1>1, <1>3, <2>1 DEF Closer
<1>4. \A s, t \in S : <<s, t>> \in R <=> Closer(c, s, t)
  OBVIOUS
<1>. HIDE DEF R
<1>5. PICK s \in S : \A t \in S \ {s} : <<s, t>> \in R
  <2>1. \A x, y \in S : x # y => <<x, y>> \in R \/ <<y, x>> \in R
    BY <1>2, <1>4
  <2>2. \A x, y, z \in S : <<x, y>> \in R /\ <<y, z>> \in R => <<x, z>> \in R
    BY <1>3, <1>4
  <2>. QED  BY <2>1, <2>2, FirstOfFinite
<1>6. s \in Nearest(c, S)
  BY <1>4, <1>5 DEF Nearest
<1>. QED  BY <1>6

\* If there are options one of them is selected: among those of the preferred owner
\* the one with the canonical members.
LEMMA SelectedExists ==
  ASSUME condition \in Conditions, NEW c \in Inputs, NEW context \in SUBSET Inputs,
         NEW S, NEW known,
         \A s \in S : s.start \in Nat /\ s.incident \in {0} \cup Inputs /\ s.id \in Inputs,
         \A s, t \in Owning(S) : s.incident = t.incident => s = t,
         Options(c, context, S, known) # {}
  PROVE  Selected(c, context, S, known) # {}
<1>. DEFINE O      == Options(c, context, S, known)
            owners == UNION {p.owner : p \in O}
<1>1. \A p \in O : /\ p.match \in Matches(c, context)
                   /\ p.owner = Nearest(c, Attachable(c, S, known, p.match))
                   /\ p = [match |-> p.match, owner |-> p.owner]
  BY DEF Options
<1>2. \A p \in O : p.owner \in SUBSET Owning(S) /\ \A s, t \in p.owner : s = t
  <2>. SUFFICES ASSUME NEW p \in O
                PROVE  p.owner \in SUBSET Owning(S) /\ \A s, t \in p.owner : s = t
    OBVIOUS
  <2>1. /\ Attachable(c, S, known, p.match) \in SUBSET Owning(S)
        /\ Attachable(c, S, known, p.match) \in SUBSET S
    BY DEF Attachable, Owning
  <2>2. \A s \in Attachable(c, S, known, p.match) :
          s.start \in Nat /\ s.incident \in {0} \cup Inputs /\ s.id \in Inputs
    BY <2>1
  <2>3. /\ Nearest(c, Attachable(c, S, known, p.match)) \in SUBSET Attachable(c, S, known, p.match)
        /\ \A s, t \in Nearest(c, Attachable(c, S, known, p.match)) : s = t
    BY <2>2, NearestIsOne
  <2>4. p.owner = Nearest(c, Attachable(c, S, known, p.match))
    BY <1>1
  <2>. HIDE DEF O
  <2>. QED  BY <2>1, <2>3, <2>4
<1>3. \A p \in O : p.match.members \in SUBSET Inputs
  <2>1. \A o \in Matches(c, context) : o.members \in SUBSET context
    BY MatchHasInputs
  <2>. QED  BY <1>1, <2>1
<1>4. \A p, q \in O : p.match.members = q.match.members /\ p.owner = q.owner => p = q
  <2>1. \A o \in Matches(c, context) :
          o = [members |-> o.members, related |-> RelatedTo(o.members, context)]
    BY DEF Matches
  <2>. HIDE DEF O
  <2>2. \A p, q \in O : p.match.members = q.match.members => p.match = q.match
    <3>. SUFFICES ASSUME NEW p \in O, NEW q \in O, p.match.members = q.match.members
                  PROVE  p.match = q.match
      OBVIOUS
    <3>1. p.match = [members |-> p.match.members,
                     related |-> RelatedTo(p.match.members, context)]
      BY <1>1, <2>1
    <3>2. q.match = [members |-> q.match.members,
                     related |-> RelatedTo(q.match.members, context)]
      BY <1>1, <2>1
    <3>. QED  BY <3>1, <3>2
  <2>. QED  BY <1>1, <2>2
<1>. HIDE DEF O
<1>5. \E w \in {p.owner : p \in O} : \A p \in O :
         \/ p.owner = w
         \/ w # {} /\ p.owner = {}
         \/ \E s \in w, t \in p.owner : FirstNamed(s, t)
  <2>1. CASE owners = {}
    <3>1. \A p \in O : p.owner = {}
      BY <2>1
    <3>2. PICK p \in O : TRUE
      BY DEF O
    <3>. QED  BY <3>1, <3>2
  <2>2. CASE owners # {}
    <3>. DEFINE ids == {IncidentRank(s.incident) : s \in owners}
    <3>1. owners \in SUBSET Owning(S)
      BY <1>2
    <3>2. \A s \in owners : s.incident \in {0} \cup Inputs /\ IncidentRank(s.incident) \in Int
      BY <3>1, NamesAreOrdered DEF Owning
    <3>3. ids \in SUBSET Int /\ IsFiniteSet(ids) /\ ids # {}
      <4>. DEFINE names == {s.incident : s \in owners}
      <4>1. IsFiniteSet({0} \cup Inputs)
        BY InputsAssumption, FS_Singleton, FS_Union
      <4>2. names \in SUBSET ({0} \cup Inputs)
        BY <3>2
      <4>3. IsFiniteSet(names)
        BY <4>1, <4>2, FS_Subset
      <4>4. ids = {IncidentRank(x) : x \in names}
        OBVIOUS
      <4>5. IsFiniteSet(ids)
        <5>1. [x \in names |-> IncidentRank(x)] \in Surjection(names, ids)
          BY DEF Surjection
        <5>. HIDE DEF names, ids
        <5>. QED  BY <4>3, <5>1, FS_Surjection
      <4>6. ids \in SUBSET Int /\ ids # {}
        BY <2>2, <3>2
      <4>. QED  BY <4>5, <4>6
    <3>4. PICK s \in owners : \A x \in ids : IncidentRank(s.incident) <= x
      <4>1. Min(ids) \in ids /\ \A x \in ids : Min(ids) <= x
        <5>. HIDE DEF ids
        <5>. QED  BY <3>3, MinOfFinite
      <4>. QED  BY <4>1
    <3>5. PICK q \in O : s \in q.owner
      OBVIOUS
    <3>6. q.owner = {s}
      BY <1>2, <3>5
    <3>7. ASSUME NEW p \in O, p.owner # {s}, p.owner # {}
          PROVE  \E t \in p.owner : FirstNamed(s, t)
      <4>1. PICK t \in p.owner : t # s
        BY <1>2, <3>7
      <4>2. t \in owners /\ IncidentRank(s.incident) <= IncidentRank(t.incident)
        BY <3>4
      <4>3. s.incident # t.incident
        BY <3>1, <4>1, <4>2
      <4>4. IncidentRank(s.incident) # IncidentRank(t.incident)
        BY <3>2, <4>2, <4>3, NamesAreOrdered
      <4>5. IncidentRank(s.incident) \in Int /\ IncidentRank(t.incident) \in Int
        BY <3>2, <4>2
      <4>. QED  BY <4>1, <4>2, <4>4, <4>5 DEF FirstNamed
    <3>. QED  BY <3>6, <3>7
  <2>. QED  BY <2>1, <2>2
<1>6. PICK w \in {p.owner : p \in O} : \A p \in O :
         \/ p.owner = w
         \/ w # {} /\ p.owner = {}
         \/ \E s \in w, t \in p.owner : FirstNamed(s, t)
  BY <1>5
<1>. DEFINE F == {p.match.members : p \in {q \in O : q.owner = w}}
<1>7. /\ F \in SUBSET SUBSET Inputs /\ F # {}
      /\ \A P \in F : Cardinality(P) = Taken(Len(condition.stages))
  <2>1. \A o \in Matches(c, context) : Cardinality(o.members) = Taken(Len(condition.stages))
    BY DEF Matches, Satisfying, kSubset
  <2>. QED  BY <1>1, <1>3, <1>6, <2>1
<1>8. PICK P \in F : \A Q \in F \ {P} : Canonical(P, Q)
  <2>. HIDE DEF F
  <2>1. \A P, Q \in F : P \subseteq Q => P = Q
    BY <1>7, EqualSizes
  <2>. QED  BY <1>7, <2>1, CanonicalExists
<1>9. PICK o \in O : o.owner = w /\ o.match.members = P
  OBVIOUS
<1>10. ASSUME NEW p \in O \ {o} PROVE Preferred(o, p)
  <2>1. CASE p.owner = w
    <3>1. p.match.members \in F \ {P}
      BY <1>4, <1>9, <1>10, <2>1
    <3>. QED  BY <1>8, <1>9, <2>1, <3>1 DEF Preferred
  <2>2. CASE p.owner # w
    BY <1>6, <1>9, <1>10, <2>2 DEF Preferred
  <2>. QED  BY <2>1, <2>2
<1>11. o \in Selected(c, context, S, known)
  BY <1>10 DEF Selected, O
<1>. QED  BY <1>11

(***************************************************************************)
(* The stages of a match                                                   *)
(***************************************************************************)
\* Counting the numbers up to each one numbers a finite set in its order.
LEMMA RankNumbers ==
  ASSUME NEW M \in SUBSET Nat, IsFiniteSet(M),
         NEW rank, rank = [i \in M |-> Cardinality({j \in M : j <= i})]
  PROVE  /\ rank \in Bijection(M, 1 .. Cardinality(M))
         /\ \A i, j \in M : i < j => rank[i] < rank[j]
<1>. DEFINE Upto(i) == {j \in M : j <= i}
<1>1. Cardinality(M) \in Nat
  BY FS_CardinalityType
<1>2. \A i \in M : /\ IsFiniteSet(Upto(i)) /\ Cardinality(Upto(i)) \in Nat
                   /\ Cardinality(Upto(i)) <= Cardinality(M) /\ Cardinality(Upto(i)) # 0
  <2>. SUFFICES ASSUME NEW i \in M
                PROVE  /\ IsFiniteSet(Upto(i)) /\ Cardinality(Upto(i)) \in Nat
                       /\ Cardinality(Upto(i)) <= Cardinality(M) /\ Cardinality(Upto(i)) # 0
    OBVIOUS
  <2>1. Upto(i) \in SUBSET M /\ Upto(i) # {}
    OBVIOUS
  <2>. HIDE DEF Upto
  <2>. QED  BY <2>1, FS_Subset, FS_CardinalityType, FS_EmptySet
<1>3. ASSUME NEW i \in M, NEW j \in M, i < j
      PROVE  Cardinality(Upto(i)) < Cardinality(Upto(j))
  <2>1. Upto(i) \in SUBSET Upto(j)
    <3>1. \A x \in M : x <= i => x <= j
      BY <1>3
    <3>. QED  BY <3>1
  <2>2. Upto(j) # Upto(i)
    BY <1>3
  <2>. HIDE DEF Upto
  <2>3. Cardinality(Upto(i)) <= Cardinality(Upto(j)) /\ Cardinality(Upto(i)) # Cardinality(Upto(j))
    BY <1>2, <2>1, <2>2, FS_Subset
  <2>. QED  BY <1>2, <2>3
<1>4. \A i \in M : rank[i] = Cardinality(Upto(i))
  OBVIOUS
<1>5. rank \in [M -> 1 .. Cardinality(M)]
  <2>1. \A i \in M : rank[i] \in 1 .. Cardinality(M)
    <3>. HIDE DEF Upto
    <3>. QED  BY <1>1, <1>2, <1>4
  <2>. QED  BY <2>1
<1>6. \A i, j \in M : i < j => rank[i] < rank[j]
  <2>. HIDE DEF Upto
  <2>. QED  BY <1>3, <1>4
<1>7. rank \in Injection(M, 1 .. Cardinality(M))
  <2>1. ASSUME NEW i \in M, NEW j \in M, rank[i] = rank[j] PROVE i = j
    <3>1. rank[i] \in Int /\ rank[j] \in Int
      BY <1>5
    <3>. QED  BY <1>6, <2>1, <3>1
  <2>. QED  BY <1>5, <2>1 DEF Injection, IsInjective
<1>8. IsFiniteSet(1 .. Cardinality(M)) /\ Cardinality(1 .. Cardinality(M)) = Cardinality(M)
  BY <1>1, FS_Interval
<1>9. rank \in Surjection(M, 1 .. Cardinality(M))
  <2>. HIDE DEF Upto
  <2>. QED  BY <1>7, <1>8, FS_Injection
<1>. QED  BY <1>6, <1>7, <1>9 DEF Bijection

\* As many numbers as there are ranks have them.
LEMMA RanksAreTaken ==
  ASSUME NEW M \in SUBSET Nat, IsFiniteSet(M),
         NEW a \in Nat, NEW b \in Nat, a <= b, b <= Cardinality(M)
  PROVE  Cardinality({i \in M : Cardinality({j \in M : j <= i}) \in a + 1 .. b}) = b - a
<1>. DEFINE rank == [i \in M |-> Cardinality({j \in M : j <= i})]
            S    == {i \in M : rank[i] \in a + 1 .. b}
<1>1. rank \in Bijection(M, 1 .. Cardinality(M))
  BY RankNumbers
<1>2. S = {i \in M : Cardinality({j \in M : j <= i}) \in a + 1 .. b}
  OBVIOUS
<1>. HIDE DEF rank
<1>3. /\ rank \in [M -> 1 .. Cardinality(M)]
      /\ \A i, j \in M : rank[i] = rank[j] => i = j
      /\ \A n \in 1 .. Cardinality(M) : \E i \in M : rank[i] = n
  BY <1>1 DEF Bijection, Injection, Surjection, IsInjective
<1>4. Cardinality(M) \in Nat
  BY FS_CardinalityType
<1>. DEFINE short == [i \in S |-> rank[i]]
<1>5. short \in [S -> a + 1 .. b]
  OBVIOUS
<1>6. short \in Injection(S, a + 1 .. b)
  BY <1>3, <1>5 DEF Injection, IsInjective
<1>7. \A n \in a + 1 .. b : \E i \in S : short[i] = n
  <2>. SUFFICES ASSUME NEW n \in a + 1 .. b PROVE \E i \in S : short[i] = n
    OBVIOUS
  <2>1. n \in 1 .. Cardinality(M)
    BY <1>4
  <2>. QED  BY <1>3, <2>1
<1>8. short \in Bijection(S, a + 1 .. b)
  BY <1>5, <1>6, <1>7 DEF Bijection, Surjection
<1>9. IsFiniteSet(S)
  BY FS_Subset
<1>10. Cardinality(a + 1 .. b) = Cardinality(S)
  <2>. HIDE DEF S, short
  <2>1. ExistsBijection(S, a + 1 .. b)
    BY <1>8 DEF ExistsBijection
  <2>. QED  BY <1>9, <2>1, FS_Bijection
<1>11. Cardinality(a + 1 .. b) = b - a
  <2>1. a + 1 \in Int /\ b \in Int
    OBVIOUS
  <2>2. Cardinality(a + 1 .. b) = IF a + 1 > b THEN 0 ELSE b - (a + 1) + 1
    BY <2>1, FS_Interval
  <2>. QED  BY <2>2
<1>. QED  BY <1>2, <1>10, <1>11

\* The first stages take the sum of their counts, and more stages take more.
LEMMA TakenCounts ==
  ASSUME condition \in Conditions
  PROVE  /\ Len(condition.stages) \in Nat /\ Stages = 1 .. Len(condition.stages)
         /\ Taken(0) = 0
         /\ \A n \in 0 .. Len(condition.stages) : Taken(n) \in Nat
         /\ \A n \in Stages : /\ condition.stages[n].count \in Nat \ {0}
                              /\ Taken(n) = Taken(n - 1) + condition.stages[n].count
         /\ \A m, n \in 0 .. Len(condition.stages) : m <= n => Taken(m) <= Taken(n)
<1>. DEFINE last      == Len(condition.stages)
            places(k) == {k} \X (1 .. condition.stages[k].count)
            P(n)      == UNION {places(k) : k \in 1 .. n}
<1>1. condition.stages \in Seq(Stage) /\ last \in Nat /\ Stages = 1 .. last
  BY RuleAssumption DEF Condition, Stages
<1>2. \A k \in 1 .. last : condition.stages[k].count \in Nat \ {0}
  <2>1. \A k \in 1 .. last : condition.stages[k] \in Stage
    BY <1>1
  <2>. QED  BY <2>1 DEF Stage
<1>3. \A k \in 1 .. last : /\ IsFiniteSet(places(k))
                           /\ Cardinality(places(k)) = condition.stages[k].count
  <2>. SUFFICES ASSUME NEW k \in 1 .. last
                PROVE  /\ IsFiniteSet(places(k))
                       /\ Cardinality(places(k)) = condition.stages[k].count
    OBVIOUS
  <2>. DEFINE count == condition.stages[k].count
  <2>1. count \in Nat \ {0}
    BY <1>2
  <2>. HIDE DEF count
  <2>2. IsFiniteSet(1 .. count) /\ Cardinality(1 .. count) = count
    BY <2>1, FS_Interval
  <2>3. IsFiniteSet({k}) /\ Cardinality({k}) = 1
    BY FS_Singleton
  <2>4. IsFiniteSet({k} \X (1 .. count)) /\ Cardinality({k} \X (1 .. count)) = 1 * count
    BY ZenonT(40), <2>2, <2>3, FS_Product
  <2>. QED  BY <2>1, <2>4 DEF count
<1>4. \A n : Taken(n) = Cardinality(P(n))
  BY DEF Taken
<1>5. P(0) = {}
  OBVIOUS
<1>6. \A n \in 1 .. last : P(n) = P(n - 1) \cup places(n) /\ P(n - 1) \cap places(n) = {}
  <2>. SUFFICES ASSUME NEW n \in 1 .. last
                PROVE  P(n) = P(n - 1) \cup places(n) /\ P(n - 1) \cap places(n) = {}
    OBVIOUS
  <2>1. 1 .. n = (1 .. n - 1) \cup {n}
    BY <1>1
  <2>2. \A k \in 1 .. n - 1 : places(k) \cap places(n) = {}
    OBVIOUS
  <2>. HIDE DEF places
  <2>. QED  BY <2>1, <2>2
<1>. HIDE DEF places, P
<1>7. \A n \in 0 .. last : IsFiniteSet(P(n))
  <2>. DEFINE Bad == {n \in 0 .. last : ~ IsFiniteSet(P(n))}
  <2>. SUFFICES ASSUME Bad # {} PROVE FALSE
    OBVIOUS
  <2>1. Bad \in SUBSET Int /\ IsFiniteSet(Bad)
    <3>1. IsFiniteSet(0 .. last)
      BY <1>1, FS_Interval
    <3>. QED  BY <3>1, FS_Subset
  <2>2. PICK m \in Bad : \A n \in Bad : m <= n
    <3>. HIDE DEF Bad
    <3>. QED  BY <2>1, MinOfFinite
  <2>3. m # 0
    BY <1>5, FS_EmptySet
  <2>4. m \in 1 .. last /\ m - 1 \in 0 .. last /\ ~ (m <= m - 1)
    BY <1>1, <2>3
  <2>5. IsFiniteSet(P(m - 1))
    BY <2>2, <2>4
  <2>6. IsFiniteSet(P(m - 1) \cup places(m))
    BY <1>3, <2>4, <2>5, FS_Union
  <2>. QED  BY <1>6, <2>4, <2>6
<1>8. \A n \in 0 .. last : Taken(n) \in Nat
  BY <1>4, <1>7, FS_CardinalityType
<1>9. \A n \in 1 .. last : Taken(n) = Taken(n - 1) + condition.stages[n].count
  <2>. SUFFICES ASSUME NEW n \in 1 .. last
                PROVE  Taken(n) = Taken(n - 1) + condition.stages[n].count
    OBVIOUS
  <2>1. n - 1 \in 0 .. last
    BY <1>1
  <2>2. IsFiniteSet(P(n - 1)) /\ IsFiniteSet(places(n))
    BY <1>3, <1>7, <2>1
  <2>3. Cardinality(P(n - 1) \cup places(n)) =
          Cardinality(P(n - 1)) + Cardinality(places(n)) - Cardinality(P(n - 1) \cap places(n))
    BY <2>2, FS_Union
  <2>4. Cardinality(P(n - 1) \cap places(n)) = 0
    BY <1>6, FS_EmptySet
  <2>5. Taken(n - 1) \in Nat /\ condition.stages[n].count \in Nat
    BY <1>2, <1>8, <2>1
  <2>6. Taken(n) = Cardinality(P(n - 1) \cup places(n)) /\ Taken(n - 1) = Cardinality(P(n - 1))
    BY <1>4, <1>6
  <2>7. Cardinality(places(n)) = condition.stages[n].count
    BY <1>3
  <2>8. Taken(n) = Taken(n - 1) + condition.stages[n].count - 0
    BY <2>3, <2>4, <2>6, <2>7
  <2>. QED  BY <2>5, <2>8
<1>10. \A m, n \in 0 .. last : m <= n => Taken(m) <= Taken(n)
  <2>. SUFFICES ASSUME NEW m \in 0 .. last, NEW n \in 0 .. last, m <= n
                PROVE  Taken(m) <= Taken(n)
    OBVIOUS
  <2>1. P(m) \in SUBSET P(n)
    <3>1. (1 .. m) \in SUBSET (1 .. n)
      BY <1>1
    <3>. QED  BY <3>1 DEF P
  <2>2. IsFiniteSet(P(n))
    BY <1>7
  <2>. QED  BY <1>4, <2>1, <2>2, FS_Subset
<1>11. Taken(0) = 0
  BY <1>4, <1>5, FS_EmptySet
<1>. QED  BY <1>1, <1>2, <1>8, <1>9, <1>10, <1>11

\* Inputs as many as the stages take fall into the stages, each in one, as many in
\* a stage as it counts, and those of a later stage are later.
LEMMA StagesPartition ==
  ASSUME condition \in Conditions, NEW M \in SUBSET Inputs,
         Cardinality(M) = Taken(Len(condition.stages))
  PROVE  \E f \in [M -> Stages] :
           /\ \A k \in Stages : /\ {i \in M : f[i] = k} = StageOf(M, k)
                                /\ Cardinality(StageOf(M, k)) = condition.stages[k].count
           /\ \A i, j \in M : f[i] < f[j] => i < j
<1>. DEFINE last == Len(condition.stages)
            rank == [i \in M |-> Cardinality({j \in M : j <= i})]
<1>1. /\ last \in Nat /\ Stages = 1 .. last /\ Taken(0) = 0
      /\ \A n \in 0 .. last : Taken(n) \in Nat
      /\ \A m, n \in 0 .. last : m <= n => Taken(m) <= Taken(n)
  BY TakenCounts
<1>2. \A n \in Stages : /\ condition.stages[n].count \in Nat
                        /\ Taken(n) = Taken(n - 1) + condition.stages[n].count
  BY TakenCounts
<1>3. M \in SUBSET Nat /\ IsFiniteSet(M)
  BY SomeInputs, InputsAssumption
<1>4. /\ rank \in [M -> 1 .. Taken(last)]
      /\ \A i, j \in M : i < j => rank[i] < rank[j]
  <2>1. rank \in Bijection(M, 1 .. Cardinality(M)) /\ \A i, j \in M : i < j => rank[i] < rank[j]
    BY <1>3, RankNumbers
  <2>. HIDE DEF rank
  <2>. QED  BY <2>1 DEF Bijection, Injection
<1>5. \A k : StageOf(M, k) = {i \in M : rank[i] \in Taken(k - 1) + 1 .. Taken(k)}
  BY DEF StageOf
<1>6. \A k \in Stages : Cardinality(StageOf(M, k)) = condition.stages[k].count
  <2>. SUFFICES ASSUME NEW k \in Stages
                PROVE  Cardinality(StageOf(M, k)) = condition.stages[k].count
    OBVIOUS
  <2>1. k \in 0 .. last /\ k - 1 \in 0 .. last /\ last \in 0 .. last
    BY <1>1
  <2>2. /\ Taken(k - 1) \in Nat /\ Taken(k) \in Nat /\ Taken(k - 1) <= Taken(k)
        /\ Taken(k) <= Cardinality(M)
    BY <1>1, <2>1
  <2>3. Cardinality(StageOf(M, k)) = Taken(k) - Taken(k - 1)
    BY <1>3, <2>2, RanksAreTaken DEF StageOf
  <2>. QED  BY <1>2, <2>2, <2>3
<1>. HIDE DEF rank
<1>7. \A i \in M : \E k \in Stages : i \in StageOf(M, k)
  <2>. SUFFICES ASSUME NEW i \in M PROVE \E k \in Stages : i \in StageOf(M, k)
    OBVIOUS
  <2>. DEFINE Reach == {n \in 0 .. last : rank[i] <= Taken(n)}
  <2>1. rank[i] \in 1 .. Taken(last)
    BY <1>4
  <2>2. last \in Reach /\ Reach \in SUBSET (0 .. last)
    BY <1>1, <2>1
  <2>3. Reach \in SUBSET Int /\ IsFiniteSet(Reach)
    <3>1. IsFiniteSet(0 .. last)
      BY <1>1, FS_Interval
    <3>. QED  BY <3>1, FS_Subset
  <2>4. PICK m \in Reach : \A n \in Reach : m <= n
    <3>. HIDE DEF Reach
    <3>. QED  BY <2>2, <2>3, MinOfFinite
  <2>5. m # 0
    BY <1>1, <2>1, <2>4
  <2>6. m \in Stages /\ m - 1 \in 0 .. last /\ ~ (m <= m - 1)
    BY <1>1, <2>5
  <2>7. m - 1 \notin Reach
    <3>. HIDE DEF Reach
    <3>. QED  BY <2>4, <2>6
  <2>8. /\ Taken(m - 1) \in Nat /\ Taken(m) \in Nat /\ rank[i] \in Nat
        /\ rank[i] <= Taken(m) /\ ~ (rank[i] <= Taken(m - 1))
    <3>1. m \in 0 .. last /\ rank[i] <= Taken(m)
      BY <2>4
    <3>2. ~ (rank[i] <= Taken(m - 1))
      BY <2>6, <2>7
    <3>3. Taken(last) \in Nat
      BY <1>1
    <3>4. rank[i] \in Nat
      BY <2>1, <3>3
    <3>. HIDE DEF Reach
    <3>. QED  BY <1>1, <2>6, <3>1, <3>2, <3>4
  <2>9. rank[i] \in Taken(m - 1) + 1 .. Taken(m)
    BY <2>8
  <2>. QED  BY <1>5, <2>6, <2>9
<1>8. \A k, l \in Stages : k < l =>
        \A i \in StageOf(M, k), j \in StageOf(M, l) : i < j
  <2>. SUFFICES ASSUME NEW k \in Stages, NEW l \in Stages, k < l,
                       NEW i \in StageOf(M, k), NEW j \in StageOf(M, l)
                PROVE  i < j
    OBVIOUS
  <2>1. k \in 0 .. last /\ l \in 0 .. last /\ l - 1 \in 0 .. last /\ k - 1 \in 0 .. last /\ k <= l - 1
    BY <1>1
  <2>2. /\ Taken(k - 1) \in Nat /\ Taken(k) \in Nat /\ Taken(l - 1) \in Nat /\ Taken(l) \in Nat
        /\ Taken(k) <= Taken(l - 1)
    BY <1>1, <2>1
  <2>3. /\ i \in M /\ j \in M /\ rank[i] \in Taken(k - 1) + 1 .. Taken(k)
        /\ rank[j] \in Taken(l - 1) + 1 .. Taken(l)
    BY <1>5
  <2>4. ~ (rank[j] < rank[i]) /\ ~ (rank[j] = rank[i])
    BY <2>2, <2>3
  <2>5. i \in Nat /\ j \in Nat
    BY <1>3, <2>3
  <2>6. ~ (j < i) /\ ~ (j = i)
    BY <1>4, <2>3, <2>4
  <2>. QED  BY <2>5, <2>6
<1>. DEFINE f == [i \in M |-> CHOOSE k \in Stages : i \in StageOf(M, k)]
<1>9. f \in [M -> Stages] /\ \A i \in M : i \in StageOf(M, f[i])
  BY <1>7
<1>. HIDE DEF f
<1>10. \A i, j \in M : f[i] < f[j] => i < j
  BY <1>8, <1>9
<1>11. ASSUME NEW k \in Stages PROVE {i \in M : f[i] = k} = StageOf(M, k)
  <2>1. StageOf(M, k) \in SUBSET M
    BY DEF StageOf
  <2>2. ASSUME NEW i \in StageOf(M, k) PROVE f[i] = k
    <3>1. f[i] \in Stages /\ i \in StageOf(M, f[i]) /\ i \in Nat
      BY <1>3, <1>9, <2>1
    <3>2. f[i] \in Int /\ k \in Int
      BY <1>1, <3>1
    <3>3. ~ (f[i] < k) /\ ~ (k < f[i])
      BY <1>8, <3>1
    <3>. QED  BY <3>2, <3>3
  <2>. QED  BY <1>9, <2>1, <2>2
<1>. QED  BY <1>6, <1>9, <1>10, <1>11

\* A join takes one input for each stage.
LEMMA JoinTakesOneEach ==
  ASSUME condition \in Conditions, condition.kind = "join"
  PROVE  Taken(Len(condition.stages)) = Len(condition.stages)
<1>. DEFINE last == Len(condition.stages)
            Bad  == {n \in 0 .. last : Taken(n) # n}
<1>1. /\ last \in Nat /\ Stages = 1 .. last /\ Taken(0) = 0
      /\ \A n \in 0 .. last : Taken(n) \in Nat
  BY TakenCounts
<1>2. \A n \in Stages : Taken(n) = Taken(n - 1) + 1
  BY TakenCounts, RuleAssumption DEF Stages
<1>. SUFFICES ASSUME Bad # {} PROVE FALSE
  BY <1>1
<1>3. Bad \in SUBSET Int /\ IsFiniteSet(Bad)
  <2>1. IsFiniteSet(0 .. last)
    BY <1>1, FS_Interval
  <2>. QED  BY <2>1, FS_Subset
<1>4. PICK m \in Bad : \A n \in Bad : m <= n
  <2>. HIDE DEF Bad
  <2>. QED  BY <1>3, MinOfFinite
<1>5. m # 0
  BY <1>1
<1>6. m \in Stages /\ m \in Nat /\ m - 1 \in 0 .. last /\ ~ (m <= m - 1)
  BY <1>1, <1>5
<1>7. Taken(m - 1) = m - 1
  BY <1>4, <1>6
<1>. QED  BY <1>2, <1>6, <1>7

\* The other way round: inputs that can be given to the stages, to each as many as it
\* counts, are as many as the stages take, and if those of a later stage are later
\* then the stages they are given to are the ones their ranks put them in.
LEMMA StagesFulfilled ==
  ASSUME condition \in Conditions, NEW M \in SUBSET Inputs, NEW f \in [M -> Stages],
         \A k \in Stages : Cardinality({i \in M : f[i] = k}) = condition.stages[k].count
  PROVE  /\ Cardinality(M) = Taken(Len(condition.stages))
         /\ (\A i, j \in M : f[i] < f[j] => i < j) =>
              \A k \in Stages : StageOf(M, k) = {i \in M : f[i] = k}
<1>. DEFINE last    == Len(condition.stages)
            Of(k)   == {i \in M : f[i] = k}
            Upto(n) == {i \in M : f[i] <= n}
            Bad     == {n \in 0 .. last : Cardinality(Upto(n)) # Taken(n)}
<1>1. /\ last \in Nat /\ Stages = 1 .. last /\ Taken(0) = 0
      /\ \A n \in 0 .. last : Taken(n) \in Nat
      /\ \A m, n \in 0 .. last : m <= n => Taken(m) <= Taken(n)
  BY TakenCounts
<1>2. \A n \in Stages : /\ condition.stages[n].count \in Nat
                        /\ Taken(n) = Taken(n - 1) + condition.stages[n].count
  BY TakenCounts
<1>3. M \in SUBSET Nat /\ IsFiniteSet(M)
  BY SomeInputs, InputsAssumption
<1>4. \A n : /\ Upto(n) \in SUBSET M /\ IsFiniteSet(Upto(n)) /\ Cardinality(Upto(n)) \in Nat
             /\ IsFiniteSet(Of(n))
  BY <1>3, FS_Subset, FS_CardinalityType
<1>5. \A i \in M : f[i] \in 1 .. last
  BY <1>1
<1>6. Bad = {}
  <2>. SUFFICES ASSUME Bad # {} PROVE FALSE
    OBVIOUS
  <2>1. Bad \in SUBSET Int /\ IsFiniteSet(Bad)
    <3>1. IsFiniteSet(0 .. last)
      BY <1>1, FS_Interval
    <3>2. Bad \in SUBSET (0 .. last) /\ (0 .. last) \in SUBSET Int
      OBVIOUS
    <3>. HIDE DEF Bad
    <3>. QED  BY <3>1, <3>2, FS_Subset
  <2>2. PICK m \in Bad : \A n \in Bad : m <= n
    <3>. HIDE DEF Bad
    <3>. QED  BY <2>1, MinOfFinite
  <2>3. Upto(0) = {}
    BY <1>1, <1>5
  <2>4. m # 0
    BY <1>1, <2>3, FS_EmptySet
  <2>5. m \in Stages /\ m \in Nat /\ m - 1 \in 0 .. last /\ ~ (m <= m - 1)
    BY <1>1, <2>4
  <2>6. Cardinality(Upto(m - 1)) = Taken(m - 1)
    BY <2>2, <2>5
  <2>7. Upto(m) = Upto(m - 1) \cup Of(m) /\ Upto(m - 1) \cap Of(m) = {}
    BY <1>1, <1>5, <2>5
  <2>8. Cardinality(Of(m)) = condition.stages[m].count
    BY <2>5
  <2>. HIDE DEF Upto, Of
  <2>9. Cardinality(Upto(m)) = Cardinality(Upto(m - 1)) + Cardinality(Of(m)) - 0
    <3>1. Cardinality(Upto(m - 1) \cap Of(m)) = 0
      BY <2>7, FS_EmptySet
    <3>. QED  BY <1>4, <2>7, <3>1, FS_Union
  <2>10. Cardinality(Upto(m)) = Taken(m)
    BY <1>1, <1>2, <2>5, <2>6, <2>8, <2>9
  <2>. QED  BY <2>2, <2>10
<1>7. \A n \in 0 .. last : Cardinality(Upto(n)) = Taken(n)
  BY <1>6
<1>8. Upto(last) = M
  BY <1>1, <1>5
<1>9. Cardinality(M) = Taken(last)
  <2>. HIDE DEF Upto
  <2>. QED  BY <1>1, <1>7, <1>8
<1>10. ASSUME \A i, j \in M : f[i] < f[j] => i < j
       PROVE  \A k \in Stages : StageOf(M, k) = Of(k)
  <2>. DEFINE Rank(i) == Cardinality({j \in M : j <= i})
  <2>1. ASSUME NEW i \in M
        PROVE  Rank(i) \in Nat /\ Taken(f[i] - 1) + 1 <= Rank(i) /\ Rank(i) <= Taken(f[i])
    <3>. DEFINE R == {j \in M : j <= i}
    <3>1. /\ f[i] \in 0 .. last /\ f[i] - 1 \in 0 .. last /\ i \in Nat
          /\ \A j \in M : f[j] \in Nat /\ j \in Nat
      BY <1>1, <1>3, <1>5
    <3>2. IsFiniteSet(R) /\ Cardinality(R) \in Nat
      BY <1>3, FS_Subset, FS_CardinalityType
    <3>3. R \in SUBSET Upto(f[i])
      BY <1>10, <3>1
    <3>4. Upto(f[i] - 1) \cup {i} \in SUBSET R /\ i \notin Upto(f[i] - 1)
      <4>1. ASSUME NEW j \in M, f[j] <= f[i] - 1 PROVE j <= i /\ j # i
        <5>1. f[j] < f[i]
          BY <3>1, <4>1
        <5>2. j < i
          BY <1>10, <5>1
        <5>. QED  BY <3>1, <5>2
      <4>2. i <= i
        BY <3>1
      <4>. QED  BY <4>1, <4>2
    <3>. HIDE DEF R, Upto
    <3>5. Cardinality(R) <= Cardinality(Upto(f[i]))
      BY <1>4, <3>3, FS_Subset
    <3>6. Cardinality(Upto(f[i] - 1) \cup {i}) = Cardinality(Upto(f[i] - 1)) + 1
      BY <1>4, <3>4, FS_AddElement
    <3>7. Cardinality(Upto(f[i] - 1) \cup {i}) <= Cardinality(R)
      BY <3>2, <3>4, FS_Subset
    <3>. QED  BY <1>7, <3>1, <3>2, <3>5, <3>6, <3>7 DEF R
  <2>2. \A k : StageOf(M, k) = {i \in M : Rank(i) \in Taken(k - 1) + 1 .. Taken(k)}
    BY DEF StageOf
  <2>. HIDE DEF Rank
  <2>3. ASSUME NEW k \in Stages, NEW i \in M
        PROVE  Rank(i) \in Taken(k - 1) + 1 .. Taken(k) <=> f[i] = k
    <3>1. /\ k \in 0 .. last /\ k - 1 \in 0 .. last /\ f[i] \in 0 .. last /\ f[i] - 1 \in 0 .. last
      BY <1>1, <1>5
    <3>2. /\ Taken(k) \in Nat /\ Taken(k - 1) \in Nat
          /\ Taken(f[i]) \in Nat /\ Taken(f[i] - 1) \in Nat
      BY <1>1, <3>1
    <3>3. CASE f[i] = k
      BY <2>1, <3>2, <3>3
    <3>4. CASE f[i] < k
      <4>1. Taken(f[i]) <= Taken(k - 1)
        BY <1>1, <3>1, <3>4
      <4>. QED  BY <2>1, <3>2, <3>4, <4>1
    <3>5. CASE k < f[i]
      <4>1. Taken(k) <= Taken(f[i] - 1)
        BY <1>1, <3>1, <3>5
      <4>. QED  BY <2>1, <3>2, <3>5, <4>1
    <3>. QED  BY <3>1, <3>3, <3>4, <3>5
  <2>. QED  BY <2>2, <2>3
<1>. QED  BY <1>9, <1>10
=============================================================================
