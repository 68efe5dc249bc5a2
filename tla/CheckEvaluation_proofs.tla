------------------------ MODULE CheckEvaluation_proofs ------------------------
(***************************************************************************)
(* Proofs about CheckEvaluation: which version of a check a call is judged *)
(* by, and what the result of a check says about the call.                 *)
(***************************************************************************)
EXTENDS CheckEvaluation, FiniteSetTheorems, SequenceTheorems, TLAPS

Extending == INSTANCE FoldFacts WITH Step <- Extended

---------------------------------------------------------------------------
(* Sorting and choosing *)

\* What FoldFacts shows of its copies of the library's operators holds here.
LEMMA SameThere ==
    /\ \A S, order : Extending!Arranged(S, order) = Arranged(S, order)
    /\ \A seq, positions : Extending!Picked(seq, positions) = Picked(seq, positions)
    /\ \A S : Extending!Rising(S) = Rising(S)
    /\ \A S : IsFiniteSet(S) => Extending!IsFiniteSet(S)
    /\ \A S : Extending!Cardinality(S) = Cardinality(S)
    /\ \A seq : Extending!ToSet(seq) = ToSet(seq)
    /\ \A S : Extending!Min(S) = Min(S)
    /\ \A S : Extending!Max(S) = Max(S)
BY DEF Arranged, Extending!Arranged, Picked, Extending!Picked,
       Rising, Extending!Rising, IsFiniteSet, Extending!IsFiniteSet,
       Cardinality, Extending!Cardinality, ToSet, Extending!ToSet,
       Min, Extending!Min, Max, Extending!Max

\* The elements of a finite set, each once, in order.
LEMMA InOrder ==
    ASSUME NEW S, IsFiniteSet(S), NEW order, Extending!StrictOrder(S, order)
    PROVE  /\ Arranged(S, order) \in [1..Cardinality(S) -> S]
           /\ \A i \in S : \E k \in 1..Cardinality(S) : Arranged(S, order)[k] = i
           /\ \A k, l \in 1..Cardinality(S) :
                k < l => <<Arranged(S, order)[k], Arranged(S, order)[l]>> \in order
BY Extending!ArrangedInOrder, SameThere

\* What is picked from a sequence, at positions in some order, are the elements
\* at those positions.
LEMMA PickedElements ==
    ASSUME NEW S, NEW seq \in Seq(S), NEW kept \in SUBSET (DOMAIN seq), NEW order,
           Extending!StrictOrder(kept, order)
    PROVE  LET picked == Picked(seq, Arranged(kept, order)) IN
           /\ picked \in Seq(S)
           /\ Len(picked) = Cardinality(kept)
           /\ ToSet(picked) = {seq[i] : i \in kept}
BY Extending!PickedInOrder, SameThere

\* A comprehension keeps the elements at the positions that meet its condition.
LEMMA KeptElements ==
    ASSUME NEW S, NEW seq \in Seq(S), NEW kept \in SUBSET (DOMAIN seq)
    PROVE  LET picked == Picked(seq, Arranged(kept, Rising(kept))) IN
           /\ picked \in Seq(S)
           /\ Len(picked) = Cardinality(kept)
           /\ ToSet(picked) = {seq[i] : i \in kept}
<1>1. kept \in SUBSET Int
    BY LenProperties
<1>2. Extending!StrictOrder(kept, Rising(kept))
    BY <1>1, Extending!RisingIsStrict, SameThere
<1> QED BY <1>2, PickedElements

\* Positions in the order of a number at each, and of the positions.
ByKey(key, n) ==
    {p \in (1..n) \X (1..n) :
        key[p[1]] < key[p[2]] \/ (key[p[1]] = key[p[2]] /\ p[1] < p[2])}

\* That is a strict order.
LEMMA ByKeyIsStrict ==
    ASSUME NEW n \in Nat, NEW key \in [1..n -> Int]
    PROVE  Extending!StrictOrder(1..n, ByKey(key, n))
<1> DEFINE order == ByKey(key, n)
<1>1. \A i, j \in 1..n : <<i, j>> \in order <=>
        key[i] < key[j] \/ (key[i] = key[j] /\ i < j)
    BY DEF ByKey
<1>2. \A i \in 1..n : i \in Int /\ key[i] \in Int
    OBVIOUS
<1> HIDE DEF order
<1>3. ASSUME NEW i \in 1..n, NEW j \in 1..n, <<i, j>> \in order
      PROVE  <<j, i>> \notin order
    <2>1. i \in Int /\ key[i] \in Int /\ j \in Int /\ key[j] \in Int
        BY <1>2
    <2> QED BY <1>1, <1>3, <2>1
<1>4. ASSUME NEW i \in 1..n, NEW j \in 1..n, i # j
      PROVE  <<i, j>> \in order \/ <<j, i>> \in order
    <2>1. i \in Int /\ key[i] \in Int /\ j \in Int /\ key[j] \in Int
        BY <1>2
    <2> QED BY <1>1, <1>4, <2>1
<1>5. ASSUME NEW i \in 1..n, NEW j \in 1..n, NEW k \in 1..n,
             <<i, j>> \in order, <<j, k>> \in order
      PROVE  <<i, k>> \in order
    <2>1. /\ i \in Int /\ key[i] \in Int /\ j \in Int /\ key[j] \in Int
          /\ k \in Int /\ key[k] \in Int
        BY <1>2
    <2>2. /\ key[i] < key[j] \/ (key[i] = key[j] /\ i < j)
          /\ key[j] < key[k] \/ (key[j] = key[k] /\ j < k)
        BY <1>1, <1>5
    <2>3. key[i] < key[k] \/ (key[i] = key[k] /\ i < k)
        BY <2>1, <2>2
    <2> QED BY <1>1, <2>3
<1> QED BY <1>3, <1>4, <1>5 DEF order, Extending!StrictOrder

---------------------------------------------------------------------------
(* Versions *)

Lists == {Everywhere} \cup {Applicability(check) : check \in EnergyCheck \cup TelcoCheck}

Version == {v \in [from : Int, to : Int, applicability : Lists] : v.from <= v.to}

\* Versions in the order of their beginnings, whatever order they came in.
LEMMA VersionsInOrder ==
    ASSUME NEW vs \in Seq(Version)
    PROVE  LET at == Arranged(DOMAIN vs, StableOrder(vs, Before)) IN
           /\ at \in [DOMAIN vs -> DOMAIN vs]
           /\ \A i \in DOMAIN vs : \E k \in DOMAIN vs : at[k] = i
           /\ \A k, l \in DOMAIN vs : k < l => vs[at[k]].from <= vs[at[l]].from
           /\ \A k, l \in DOMAIN vs : k < l => at[k] # at[l]
           /\ Sorted(vs, Before) = [k \in DOMAIN vs |-> vs[at[k]]]
<1> DEFINE n == Len(vs)
           key == [i \in 1..n |-> vs[i].from]
           order == StableOrder(vs, Before)
           at == Arranged(DOMAIN vs, order)
<1>1. n \in Nat /\ DOMAIN vs = 1..n
    BY LenProperties
<1>2. \A i \in 1..n : vs[i] \in Version
    BY <1>1
<1>3. \A i \in 1..n : vs[i].from \in Int
    BY <1>2 DEF Version
<1>4. key \in [1..n -> Int]
    BY <1>3
<1>5. \A i \in 1..n : key[i] = vs[i].from
    OBVIOUS
<1> HIDE DEF key, n
<1>6. order = ByKey(key, n)
    <2>1. ASSUME NEW p \in (1..n) \X (1..n)
          PROVE  p \in order <=> p \in ByKey(key, n)
        <3>1. p[1] \in Int /\ p[2] \in Int /\ key[p[1]] \in Int /\ key[p[2]] \in Int
            BY <1>4
        <3>2. p \in order <=> \/ key[p[1]] < key[p[2]]
                              \/ p[1] < p[2] /\ ~(key[p[2]] < key[p[1]])
            BY <1>1, <1>5 DEF StableOrder, Before
        <3>3. p \in ByKey(key, n) <=>
                key[p[1]] < key[p[2]] \/ (key[p[1]] = key[p[2]] /\ p[1] < p[2])
            BY DEF ByKey
        <3> HIDE DEF order
        <3> QED BY <3>1, <3>2, <3>3
    <2>2. order \subseteq (1..n) \X (1..n) /\ ByKey(key, n) \subseteq (1..n) \X (1..n)
        BY <1>1 DEF StableOrder, ByKey
    <2> HIDE DEF order
    <2> QED BY <2>1, <2>2
<1>7. IsFiniteSet(1..n) /\ Cardinality(1..n) = n
    BY <1>1, FS_Interval
<1>8. Extending!StrictOrder(1..n, order)
    BY <1>1, <1>4, <1>6, ByKeyIsStrict
<1> HIDE DEF order
<1>9. /\ at \in [1..n -> 1..n]
      /\ \A i \in 1..n : \E k \in 1..n : at[k] = i
      /\ \A k, l \in 1..n : k < l => <<at[k], at[l]>> \in order
    <2> DEFINE m == Cardinality(1..n)
    <2>1. at = Arranged(1..n, order)
        BY <1>1
    <2>2. /\ Arranged(1..n, order) \in [1..m -> 1..n]
          /\ \A i \in 1..n : \E k \in 1..m : Arranged(1..n, order)[k] = i
          /\ \A k, l \in 1..m : k < l =>
                <<Arranged(1..n, order)[k], Arranged(1..n, order)[l]>> \in order
        BY <1>7, <1>8, InOrder
    <2> HIDE DEF at
    <2> QED BY <1>7, <2>1, <2>2
<1> HIDE DEF at
<1>10. ASSUME NEW k \in 1..n, NEW l \in 1..n, k < l
       PROVE  vs[at[k]].from <= vs[at[l]].from /\ at[k] # at[l]
    <2>1. at[k] \in 1..n /\ at[l] \in 1..n /\ <<at[k], at[l]>> \in order
        BY <1>9, <1>10
    <2>2. key[at[k]] \in Int /\ key[at[l]] \in Int /\ at[k] \in Int /\ at[l] \in Int
        BY <1>4, <2>1
    <2>3. \/ key[at[k]] < key[at[l]]
          \/ key[at[k]] = key[at[l]] /\ at[k] < at[l]
        BY <1>6, <2>1 DEF ByKey
    <2> QED BY <1>5, <2>1, <2>2, <2>3
<1>11. Sorted(vs, Before) = [k \in 1..n |-> vs[at[k]]]
    <2>1. Sorted(vs, Before) = Picked(vs, at)
        BY DEF Sorted, at, order
    <2> QED BY <1>9, <2>1 DEF Picked
<1> QED BY <1>1, <1>9, <1>10, <1>11 DEF at, order

Disjoint(vs) ==
    \A i, j \in DOMAIN vs : i # j => vs[i].to < vs[j].from \/ vs[j].to < vs[i].from

\* Comparing neighbours in the order of their beginnings compares all: what
\* ends before its neighbour begins ends before all that begin later.
LEMMA NeighboursDecide ==
    ASSUME NEW vs \in Seq(Version)
    PROVE  NonOverlapping(vs) <=> Disjoint(vs)
<1> DEFINE n == Len(vs)
           at == Arranged(DOMAIN vs, StableOrder(vs, Before))
           sorted == Sorted(vs, Before)
<1>1. n \in Nat /\ DOMAIN vs = 1..n
    BY LenProperties
<1>2. /\ at \in [1..n -> 1..n]
      /\ \A i \in 1..n : \E k \in 1..n : at[k] = i
      /\ \A k, l \in 1..n : k < l => vs[at[k]].from <= vs[at[l]].from
      /\ \A k, l \in 1..n : k < l => at[k] # at[l]
      /\ sorted = [k \in 1..n |-> vs[at[k]]]
    BY <1>1, VersionsInOrder
<1>3. \A i \in 1..n : vs[i].from \in Int /\ vs[i].to \in Int /\ vs[i].from <= vs[i].to
    <2>1. \A i \in 1..n : vs[i] \in Version
        BY <1>1
    <2> QED BY <2>1 DEF Version
<1> HIDE DEF at
<1>4. Len(sorted) = n
    BY <1>1, <1>2
<1>5. NonOverlapping(vs) <=>
        \A i \in 1..(n - 1) : vs[at[i]].to < vs[at[i + 1]].from
    <2>1. ASSUME NEW i \in 1..(n - 1)
          PROVE  sorted[i] = vs[at[i]] /\ sorted[i + 1] = vs[at[i + 1]]
        <3> HIDE DEF sorted, n
        <3>1. i \in 1..n /\ i + 1 \in 1..n
            BY <1>1
        <3> QED BY <1>2, <3>1
    <2>2. NonOverlapping(vs) <=>
            \A i \in 1..(Len(sorted) - 1) : sorted[i].to < sorted[i + 1].from
        BY DEF NonOverlapping
    <2> HIDE DEF sorted
    <2> QED BY <1>4, <2>1, <2>2
<1> HIDE DEF n, sorted
<1>6. ASSUME NonOverlapping(vs) PROVE Disjoint(vs)
    <2>1. ASSUME NEW k \in 1..n, NEW l \in 1..n, k < l
          PROVE  vs[at[k]].to < vs[at[l]].from
        <3>1. k \in 1..(n - 1) /\ k + 1 \in 1..n /\ k + 1 <= l
            BY <1>1, <2>1
        <3>2. vs[at[k]].to < vs[at[k + 1]].from
            BY <1>5, <1>6, <3>1
        <3>3. k + 1 = l \/ vs[at[k + 1]].from <= vs[at[l]].from
            BY <1>2, <2>1, <3>1
        <3>4. /\ vs[at[k]].to \in Int /\ vs[at[k + 1]].from \in Int
              /\ vs[at[l]].from \in Int
            BY <1>2, <1>3, <3>1
        <3> QED BY <3>2, <3>3, <3>4
    <2> SUFFICES ASSUME NEW i \in 1..n, NEW j \in 1..n, i # j
                 PROVE  vs[i].to < vs[j].from \/ vs[j].to < vs[i].from
        BY <1>1 DEF Disjoint
    <2>2. PICK k \in 1..n : at[k] = i
        BY <1>2
    <2>3. PICK l \in 1..n : at[l] = j
        BY <1>2
    <2>4. k < l \/ l < k
        BY <1>1, <2>2, <2>3
    <2> QED BY <2>1, <2>2, <2>3, <2>4
<1>7. ASSUME Disjoint(vs) PROVE NonOverlapping(vs)
    <2> SUFFICES ASSUME NEW i \in 1..(n - 1)
                 PROVE  vs[at[i]].to < vs[at[i + 1]].from
        BY <1>5
    <2>1. i \in 1..n /\ i + 1 \in 1..n /\ i < i + 1
        BY <1>1
    <2>2. at[i] \in 1..n /\ at[i + 1] \in 1..n /\ at[i] # at[i + 1]
        BY <1>2, <2>1
    <2>3. \/ vs[at[i]].to < vs[at[i + 1]].from
          \/ vs[at[i + 1]].to < vs[at[i]].from
        BY <1>1, <1>7, <2>2 DEF Disjoint
    <2>4. vs[at[i]].from <= vs[at[i + 1]].from
        BY <1>2, <2>1
    <2>5. /\ vs[at[i]].from \in Int /\ vs[at[i]].to \in Int
          /\ vs[at[i + 1]].from \in Int /\ vs[at[i + 1]].to \in Int
          /\ vs[at[i + 1]].from <= vs[at[i + 1]].to
        BY <1>3, <2>2
    <2> QED BY <2>3, <2>4, <2>5
<1> QED BY <1>6, <1>7

\* Of versions that do not overlap at most one is in force at a time.
LEMMA AtMostOneMatches ==
    ASSUME NEW vs \in Seq(Version), NonOverlapping(vs), NEW instant \in Int,
           NEW v \in Matches(vs, instant), NEW w \in Matches(vs, instant)
    PROVE  v = w
<1>1. PICK i \in DOMAIN vs : v = vs[i]
    BY DEF Matches, ToSet
<1>2. PICK j \in DOMAIN vs : w = vs[j]
    BY DEF Matches, ToSet
<1>3. /\ v.from <= instant /\ instant <= v.to
      /\ w.from <= instant /\ instant <= w.to
    BY DEF Matches
<1>4. i # j => v.to < w.from \/ w.to < v.from
    BY <1>1, <1>2, NeighboursDecide DEF Disjoint
<1>5. v \in Version /\ w \in Version
    BY <1>1, <1>2
<1>6. v.from \in Int /\ v.to \in Int /\ w.from \in Int /\ w.to \in Int
    BY <1>5 DEF Version
<1> QED BY <1>1, <1>2, <1>3, <1>4, <1>6

\* A version resolves where exactly one is in force, which is then the active
\* one, and fails to where there is none.
LEMMA ResolvableIsInForce ==
    ASSUME NEW vs \in Seq(Version), NonOverlapping(vs), NEW instant \in Int
    PROVE  /\ ~Resolvable(vs, instant) => Matches(vs, instant) = {}
           /\ Resolvable(vs, instant) =>
                Matches(vs, instant) = {Active(vs, instant)}
<1> DEFINE S == Matches(vs, instant)
<1>1. \A v, w \in S : v = w
    BY AtMostOneMatches
<1>2. Active(vs, instant) = CHOOSE v \in S : TRUE
    BY DEF Active
<1>3. Resolvable(vs, instant) <=> Cardinality(S) = 1
    BY DEF Resolvable
<1> HIDE DEF S
<1>4. S # {} => S = {CHOOSE v \in S : TRUE}
    BY <1>1
<1>5. S # {} => Cardinality(S) = 1
    BY <1>4, FS_Singleton
<1>6. ASSUME S = {} PROVE Cardinality(S) # 1
    BY <1>6, FS_EmptySet
<1>7. ~Resolvable(vs, instant) => S = {}
    BY <1>3, <1>5
<1>8. Resolvable(vs, instant) => S = {Active(vs, instant)}
    BY <1>2, <1>3, <1>4, <1>6
<1> QED BY <1>7, <1>8 DEF S

---------------------------------------------------------------------------
(* Libraries *)

\* The versions of the catalogues are versions.
LEMMA CatalogueVersions ==
    ASSUME NEW checks \in {EnergyCheck, TelcoCheck}, NEW check \in checks
    PROVE  BuildLibrary(checks)[check] \in Seq(Version)
<1> DEFINE version == [from |-> EffectiveFrom, to |-> Forever,
                       applicability |-> Applicability(check)]
<1>1. Applicability(check) \in Lists
    BY DEF Lists
<1>2. EffectiveFrom \in Int /\ Forever \in Int /\ EffectiveFrom <= Forever
    BY ForeverAssumption, DateAssumption DEF EffectiveFrom
<1>3. version \in Version
    BY <1>1, <1>2 DEF Version
<1>4. BuildLibrary(checks)[check] = <<version>>
    BY DEF BuildLibrary
<1> HIDE DEF version
<1> QED BY <1>3, <1>4

\* The dated check is in neither catalogue.
LEMMA NotDated == "dated" \notin EnergyCheck \cup TelcoCheck
BY DEF EnergyCheck, TelcoCheck, ScriptWeight, FactualWeight, ConductWeight,
       TelcoScriptWeight, TelcoFactualWeight, TelcoConductWeight

\* What is published is a version.
LEMMA PublishedVersion ==
    ASSUME NEW from \in Date, NEW to \in Date \cup {Forever}, NEW version,
           version = [from |-> from, to |-> to, applicability |-> Everywhere],
           Creatable(version)
    PROVE  version \in Version
<1>1. Everywhere \in Lists
    BY DEF Lists
<1>2. from \in Int /\ to \in Int
    BY ForeverAssumption, DateAssumption
<1>3. from <= to
    BY DEF Creatable
<1> QED BY <1>1, <1>2, <1>3 DEF Version

---------------------------------------------------------------------------
(* The invariant *)

\* The library: one version of every check of a catalogue, or versions of the
\* dated check.
Libraries ==
    {BuildLibrary(EnergyCheck), BuildLibrary(TelcoCheck)}
        \cup [{"dated"} -> Seq(Version)]

\* What a followed check is evaluated with.
InputsOf(check) ==
    {[check |-> check, params |-> ParamsOf(check), code |-> CodeOf(check),
      call |-> call, record |-> record] :
        call \in CallsOf[check], record \in RecordsOf[check]}

FollowedInput == UNION {InputsOf(check) : check \in Followed}

\* A resolution has the checks that apply, or some check cannot be resolved;
\* the result is what the evaluator makes of the input.
EvaluationInv ==
    /\ versions \in Libraries
    /\ date \in Int
    /\ pc \in {"library", "checks", "failed", "evaluated"}
    /\ pc \in {"library", "failed"} => applies = {}
    /\ pc \in {"library", "failed", "checks"} => input = NoInput /\ result = NoResult
    /\ pc = "failed" => ~Resolves(versions, date)
    /\ pc \in {"checks", "evaluated"} =>
            /\ Resolves(versions, date)
            /\ applies = ResolvedChecks(versions, date, sale)
    /\ pc = "evaluated" => input \in FollowedInput /\ result = Dispatch(input)

\* Every state of the specification has it.
THEOREM ResultsAreOfTheirInputs == Spec => []EvaluationInv
<1>1. Init => EvaluationInv
    <2> SUFFICES ASSUME Init PROVE EvaluationInv
        OBVIOUS
    <2>1. [check \in {"dated"} |-> <<>>] \in [{"dated"} -> Seq(Version)]
        OBVIOUS
    <2>2. versions \in Libraries
        BY <2>1 DEF Init, Libraries
    <2> QED BY <2>2 DEF Init, EvaluationInv
<1>2. EvaluationInv /\ [Next]_vars => EvaluationInv'
    <2> SUFFICES ASSUME EvaluationInv, [Next]_vars PROVE EvaluationInv'
        OBVIOUS
    <2>1. CASE PublishVersion
        <3>1. PICK from \in Date, to \in Date \cup {Forever} :
                LET version == [from |-> from, to |-> to,
                                applicability |-> Everywhere] IN
                /\ Creatable(version)
                /\ versions' = [versions EXCEPT !["dated"] = Append(@, version)]
            BY <2>1 DEF PublishVersion
        <3> DEFINE version == [from |-> from, to |-> to, applicability |-> Everywhere]
        <3>2. version \in Version
            BY <3>1, PublishedVersion
        <3> HIDE DEF version
        <3>3. "dated" \in DOMAIN versions
            BY <2>1 DEF PublishVersion
        <3>4. versions \in [{"dated"} -> Seq(Version)]
            <4>1. "dated" \notin DOMAIN BuildLibrary(EnergyCheck)
                BY NotDated DEF BuildLibrary
            <4>2. "dated" \notin DOMAIN BuildLibrary(TelcoCheck)
                BY NotDated DEF BuildLibrary
            <4> QED BY <3>3, <4>1, <4>2 DEF EvaluationInv, Libraries
        <3>5. versions' = [versions EXCEPT !["dated"] = Append(@, version)]
            BY <3>1 DEF version
        <3>6. versions' \in [{"dated"} -> Seq(Version)]
            BY <3>2, <3>4, <3>5
        <3> QED BY <2>1, <3>6 DEF PublishVersion, EvaluationInv, Libraries
    <2>2. CASE ResolveChecks
        <3>1. date' \in Int
            BY <2>2, ForeverAssumption, DateAssumption DEF ResolveChecks
        <3>2. CASE Resolves(versions, date')
            BY <2>2, <3>1, <3>2 DEF ResolveChecks, EvaluationInv
        <3>3. CASE ~Resolves(versions, date')
            BY <2>2, <3>1, <3>3 DEF ResolveChecks, EvaluationInv
        <3> QED BY <3>2, <3>3
    <2>3. CASE EvaluateCheck
        <3>1. PICK check \in applies \cap Followed :
                \E call \in CallsOf[check], record \in RecordsOf[check] :
                    input' = [check |-> check, params |-> ParamsOf(check),
                              code |-> CodeOf(check), call |-> call, record |-> record]
            BY <2>3 DEF EvaluateCheck
        <3>2. input' \in InputsOf(check)
            BY <3>1 DEF InputsOf
        <3>3. input' \in FollowedInput
            BY <3>2 DEF FollowedInput
        <3> QED BY <2>3, <3>3 DEF EvaluateCheck, EvaluationInv
    <2>4. CASE UNCHANGED vars
        BY <2>4 DEF vars, EvaluationInv
    <2> QED BY <2>1, <2>2, <2>3, <2>4 DEF Next
<1> QED BY <1>1, <1>2, PTL DEF Spec

\* Every check of a library has versions.
LEMMA LibrariesHoldVersions ==
    ASSUME NEW library \in Libraries, NEW check \in DOMAIN library
    PROVE  library[check] \in Seq(Version)
<1>1. CASE library \in [{"dated"} -> Seq(Version)]
    BY <1>1
<1>2. ASSUME NEW checks \in {EnergyCheck, TelcoCheck}, library = BuildLibrary(checks)
      PROVE  library[check] \in Seq(Version)
    <2>1. check \in checks
        BY <1>2 DEF BuildLibrary
    <2> QED BY <1>2, <2>1, CatalogueVersions
<1> QED BY <1>1, <1>2 DEF Libraries

\* Libraries are accepted exactly when no instant belongs to two versions.
LEMMA DisjointAreAccepted == EvaluationInv => AcceptsExactlyTheDisjoint
<1> SUFFICES ASSUME EvaluationInv, NEW check \in DOMAIN versions
             PROVE  NonOverlapping(versions[check]) <=> Disjoint(versions[check])
    BY DEF AcceptsExactlyTheDisjoint, Disjoint
<1>1. versions[check] \in Seq(Version)
    BY LibrariesHoldVersions DEF EvaluationInv
<1> QED BY <1>1, NeighboursDecide

\* A call of the dated check is evaluated under the version in force.
LEMMA CallsResolve == EvaluationInv => DatedCallsResolve
<1> SUFFICES ASSUME EvaluationInv, "dated" \in DOMAIN versions
             PROVE  DatedCallsResolve
    BY DEF DatedCallsResolve
<1> DEFINE vs == versions["dated"]
           InForce == {v \in ToSet(vs) : date \in v.from..v.to}
<1>1. vs \in Seq(Version) /\ date \in Int
    BY LibrariesHoldVersions DEF EvaluationInv
<1>2. InForce = Matches(vs, date)
    <2>1. \A v \in ToSet(vs) : v.from \in Int /\ v.to \in Int
        BY <1>1 DEF ToSet, Version
    <2> HIDE DEF vs
    <2> QED BY <1>1, <2>1 DEF Matches
<1>3. DOMAIN versions = {"dated"}
    <2>1. "dated" \notin DOMAIN BuildLibrary(EnergyCheck)
        BY NotDated DEF BuildLibrary
    <2>2. "dated" \notin DOMAIN BuildLibrary(TelcoCheck)
        BY NotDated DEF BuildLibrary
    <2> QED BY <2>1, <2>2 DEF EvaluationInv, Libraries
<1>4. Resolves(versions, date) <=> (vs # <<>> => Resolvable(vs, date))
    BY <1>3 DEF Resolves
<1>5. pc = "failed" => ~Resolves(versions, date)
    BY DEF EvaluationInv
<1>6. pc = "checks" => Resolves(versions, date)
    BY DEF EvaluationInv
<1> HIDE DEF vs, InForce
<1>7. NonOverlapping(vs) =>
        /\ ~Resolvable(vs, date) => InForce = {}
        /\ Resolvable(vs, date) => InForce = {Active(vs, date)}
    BY <1>1, <1>2, ResolvableIsInForce
<1>8. vs # <<>> /\ NonOverlapping(vs) =>
        /\ pc = "failed" => InForce = {}
        /\ pc = "checks" => InForce = {Active(vs, date)}
    BY <1>4, <1>5, <1>6, <1>7
<1> QED BY <1>8 DEF DatedCallsResolve, vs, InForce

\* The input of an evaluated check.
LEMMA InputIs ==
    ASSUME EvaluationInv, pc = "evaluated"
    PROVE  /\ input.check \in Followed /\ input.params = ParamsOf(input.check)
           /\ input.call \in Seq(Segment)
           /\ \A i, j \in DOMAIN input.call :
                /\ input.call[i].id = input.call[j].id => i = j
                /\ input.call[i].label = input.call[j].label
                     => input.call[i].role = input.call[j].role
           /\ result = Dispatch(input)
<1>1. input \in FollowedInput /\ result = Dispatch(input)
    BY DEF EvaluationInv
<1>2. PICK check \in Followed : input \in InputsOf(check)
    BY <1>1 DEF FollowedInput
<1>3. PICK call \in CallsOf[check], record \in RecordsOf[check] :
        input = [check |-> check, params |-> ParamsOf(check), code |-> CodeOf(check),
                 call |-> call, record |-> record]
    BY <1>2 DEF InputsOf
<1>4. input.check = check /\ input.params = ParamsOf(check) /\ input.call = call
    BY <1>3
<1> QED BY <1>1, <1>4, CallsAssumption

---------------------------------------------------------------------------
(* The numbers of a text *)

\* The longest of the prefixes up to a length is one of them.
LEMMA LongestPrefix ==
    ASSUME NEW n \in Nat, NEW S \in SUBSET (0..n), 0 \in S
    PROVE  Max(S) \in S /\ Max(S) \in 0..n /\ \A k \in S : k <= Max(S)
<1>1. IsFiniteSet(0..n)
    BY FS_Interval
<1>2. IsFiniteSet(S) /\ S # {} /\ S \in SUBSET Int
    <2>1. IsFiniteSet(S)
        BY <1>1, FS_Subset
    <2> QED BY <2>1
<1>3. Extending!IsFiniteSet(S) /\ Extending!Max(S) = Max(S)
    BY <1>2, SameThere
<1>4. Extending!Max(S) \in S /\ \A k \in S : k <= Extending!Max(S)
    BY <1>2, <1>3, Extending!Extremes
<1> QED BY <1>3, <1>4

\* A part of a text.
LEMMA Part ==
    ASSUME NEW S, NEW text \in Seq(S), NEW i \in Nat \ {0}, NEW j \in Nat, j <= Len(text)
    PROVE  /\ SubSeq(text, i, j) \in Seq(S)
           /\ Len(SubSeq(text, i, j)) = IF i <= j THEN j - i + 1 ELSE 0
           /\ \A k \in 1..(j - i + 1) : SubSeq(text, i, j)[k] = text[i + k - 1]
<1>1. Len(text) \in Nat /\ DOMAIN text = 1..Len(text)
    BY LenProperties
<1>2. \A k \in i..j : text[k] \in S
    <2>1. \A k \in i..j : k \in 1..Len(text)
        BY <1>1
    <2> QED BY <1>1, <2>1
<1> QED BY <1>2, SubSeqProperties

\* The fraction spoken by the first of some words takes no more than there are.
LEMMA FractionIsThere ==
    ASSUME NEW words \in Seq(STRING)
    PROVE  SpokenFraction(words).consumed \in 0..Len(words)
<1> DEFINE S == {n \in 0..Len(words) : \A i \in 1..n : IsFractionWord(words[i])}
<1>1. Len(words) \in Nat
    BY LenProperties
<1>2. 0 \in S /\ S \in SUBSET (0..Len(words))
    BY <1>1
<1>3. SpokenFraction(words).consumed = Max(S)
    BY DEF SpokenFraction, PrefixIn
<1> HIDE DEF S
<1> QED BY <1>1, <1>2, <1>3, LongestPrefix

\* A reading at a place of a text goes on later in the text, or at its end.
LEMMA NumeralReadsOn ==
    ASSUME NEW tokens \in Seq(STRING), NEW i \in 1..Len(tokens)
    PROVE  ReadNumeral(tokens, i).next \in (i + 1)..(Len(tokens) + 1)
<1> DEFINE literal == Numeral[tokens[i]]
           number == [whole |-> literal.whole, fraction |-> literal.fraction]
           n == Len(tokens)
           tail == SubSeq(tokens, i + 2, Min({n, i + 7}))
           spoken == FractionAfter(tail)
           done == \/ number.fraction # <<>>
                   \/ i = n
                   \/ tokens[i + 1] \notin FractionMarkers
<1>1. n \in Nat /\ i \in Nat /\ 1 <= i /\ i <= n
    BY LenProperties
<1>2. ReadNumeral(tokens, i) =
        IF done THEN [number |-> number, next |-> i + 1]
        ELSE WithFraction(number, spoken, i)
    BY DEF ReadNumeral
<1>3. CASE done
    <2>1. ReadNumeral(tokens, i).next = i + 1
        <3> HIDE DEF done
        <3> QED BY <1>2, <1>3
    <2> QED BY <1>1, <2>1
<1>4. CASE ~done
    <2>1. i + 1 \in 1..n
        BY <1>1, <1>4
    <2>2. Min({n, i + 7}) \in {n, i + 7} /\ Min({n, i + 7}) <= n
        <3>1. {n, i + 7} \in SUBSET Int /\ n \in {n, i + 7} /\ {n, i + 7} # {}
            BY <1>1
        <3>2. IsFiniteSet({n, i + 7})
            <4>1. IsFiniteSet({n} \cup {i + 7})
                BY FS_Singleton, FS_AddElement
            <4>2. {n} \cup {i + 7} = {n, i + 7}
                OBVIOUS
            <4> QED BY <4>1, <4>2
        <3>3. Extending!IsFiniteSet({n, i + 7}) /\ Extending!Min({n, i + 7}) = Min({n, i + 7})
            BY <3>2, SameThere
        <3>4. /\ Extending!Min({n, i + 7}) \in {n, i + 7}
              /\ \A k \in {n, i + 7} : Extending!Min({n, i + 7}) <= k
            <4> DEFINE T == {n, i + 7}
            <4> HIDE DEF T
            <4> QED BY <3>1, <3>3, Extending!Extremes DEF T
        <3> QED BY <3>1, <3>3, <3>4
    <2> DEFINE upto == Min({n, i + 7})
    <2> HIDE DEF upto
    <2>3. upto \in Nat /\ upto <= n /\ i + 2 \in Nat \ {0} /\ i + 2 <= upto + 1
        BY <1>1, <2>1, <2>2 DEF upto
    <2>4. tail \in Seq(STRING) /\ Len(tail) = upto - (i + 2) + 1
        <3>1. /\ SubSeq(tokens, i + 2, upto) \in Seq(STRING)
              /\ Len(SubSeq(tokens, i + 2, upto))
                    = IF i + 2 <= upto THEN upto - (i + 2) + 1 ELSE 0
            BY <2>3, Part
        <3>2. i + 2 <= upto \/ upto - (i + 2) + 1 = 0
            BY <1>1, <2>3
        <3> QED BY <3>1, <3>2 DEF upto
    <2> HIDE DEF tail, done
    <2>5. spoken.consumed \in 0..Len(tail)
        <3>1. CASE tail # <<>> /\ tail[1] \in DOMAIN Numeral
                    /\ Numeral[tail[1]].fraction = <<>>
            <4>1. spoken.consumed = 1
                BY <3>1 DEF FractionAfter
            <4>2. Len(tail) \in Nat /\ Len(tail) # 0
                BY <2>4, <3>1, LenProperties, EmptySeq
            <4> QED BY <4>1, <4>2
        <3>2. CASE ~(tail # <<>> /\ tail[1] \in DOMAIN Numeral
                        /\ Numeral[tail[1]].fraction = <<>>)
            <4>1. spoken = SpokenFraction(tail)
                BY <3>2 DEF FractionAfter
            <4> QED BY <2>4, <4>1, FractionIsThere
        <3> QED BY <3>1, <3>2
    <2> HIDE DEF spoken, n
    <2>6. ReadNumeral(tokens, i).next \in {i + 1, i + 2 + spoken.consumed}
        BY <1>2, <1>4 DEF WithFraction
    <2>7. ReadNumeral(tokens, i).next \in (i + 1)..(n + 1)
        <3> DEFINE c == spoken.consumed
                   m == Len(tail)
        <3>1. m = upto - i - 1 /\ c \in 0..m
            BY <1>1, <2>3, <2>4, <2>5
        <3> HIDE DEF m, c
        <3>2. upto \in Nat /\ upto <= n
            BY <2>3
        <3>3. i + 2 + c \in (i + 1)..(n + 1) /\ i + 1 \in (i + 1)..(n + 1)
            BY <1>1, <3>1, <3>2
        <3> QED BY <2>6, <3>3 DEF c
    <2> QED BY <2>7 DEF n
<1> QED BY <1>3, <1>4

LEMMA WordsReadOn ==
    ASSUME NEW tokens \in Seq(STRING), NEW i \in 1..Len(tokens), tokens[i] \in NumberWords
    PROVE  ReadWords(tokens, i).next \in (i + 1)..(Len(tokens) + 1)
<1> DEFINE n == Len(tokens)
           rest == From(tokens, i)
           S == {k \in 0..Len(rest) : \A j \in 1..k : rest[j] \in NumberWords}
<1>1. n \in Nat /\ i \in Nat \ {0} /\ i <= n
    BY LenProperties
<1>2. rest \in Seq(STRING) /\ Len(rest) = n - i + 1 /\ rest[1] = tokens[i]
    <2>1. /\ SubSeq(tokens, i, n) \in Seq(STRING)
          /\ Len(SubSeq(tokens, i, n)) = IF i <= n THEN n - i + 1 ELSE 0
          /\ \A k \in 1..(n - i + 1) : SubSeq(tokens, i, n)[k] = tokens[i + k - 1]
        BY <1>1, Part
    <2>2. 1 \in 1..(n - i + 1) /\ i + 1 - 1 = i
        BY <1>1
    <2> QED BY <1>1, <2>1, <2>2 DEF From
<1>3. ReadWords(tokens, i).next = i + Max(S)
    BY DEF ReadWords, ReadRun, PrefixIn
<1> HIDE DEF n, rest
<1>4. Len(rest) \in Nat /\ 0 \in S /\ 1 \in S /\ S \in SUBSET (0..Len(rest))
    BY <1>1, <1>2
<1> HIDE DEF S
<1>5. Max(S) \in 0..Len(rest) /\ 1 <= Max(S)
    BY <1>4, LongestPrefix
<1>6. ReadWords(tokens, i).next \in (i + 1)..(n + 1)
    BY <1>1, <1>2, <1>3, <1>5
<1> QED BY <1>6 DEF n

LEMMA ReadsOn ==
    ASSUME NEW tokens \in Seq(STRING), NEW i \in 1..Len(tokens),
           tokens[i] \in DOMAIN Numeral \cup Quantity
    PROVE  ReadAt(tokens, i).next \in (i + 1)..(Len(tokens) + 1)
<1>1. CASE tokens[i] \in DOMAIN Numeral
    BY <1>1, NumeralReadsOn DEF ReadAt
<1>2. CASE tokens[i] \notin DOMAIN Numeral
    <2>1. tokens[i] \in NumberWords
        BY <1>2 DEF NumberWords
    <2> QED BY <1>2, <2>1, WordsReadOn DEF ReadAt
<1> QED BY <1>1, <1>2

\* What can be read somewhere in a text.
Heard(tokens) == {ReadAt(tokens, i).number : i \in 1..Len(tokens)}

\* The numbers from a place on depend on those from later places on, and are
\* read in the text.
LEMMA ScanLooksAhead ==
    ASSUME NEW tokens \in Seq(STRING), NEW i \in 1..(Len(tokens) + 1), NEW g, NEW h,
           \A j \in 1..(Len(tokens) + 1) : j > i => g[j] = h[j] /\ h[j] \in Seq(Heard(tokens))
    PROVE  /\ NumbersFrom(tokens, i, g) = NumbersFrom(tokens, i, h)
           /\ NumbersFrom(tokens, i, h) \in Seq(Heard(tokens))
<1> DEFINE n == Len(tokens)
           H == Heard(tokens)
<1>1. n \in Nat /\ i \in Nat /\ 1 <= i
    BY LenProperties
<1>2. CASE i > n
    <2>1. NumbersFrom(tokens, i, g) = <<>> /\ NumbersFrom(tokens, i, h) = <<>>
        BY <1>2 DEF NumbersFrom
    <2>2. <<>> \in Seq(H)
        OBVIOUS
    <2> QED BY <2>1, <2>2
<1>3. CASE ~(i > n) /\ tokens[i] \in DOMAIN Numeral \cup Quantity
    <2> DEFINE read == ReadAt(tokens, i)
    <2>1. i \in 1..n
        BY <1>1, <1>3
    <2>2. read.next \in (i + 1)..(n + 1)
        BY <1>3, <2>1, ReadsOn
    <2>3. read.number \in H
        BY <2>1 DEF Heard
    <2>4. /\ NumbersFrom(tokens, i, g) = Prepend(read, g)
          /\ NumbersFrom(tokens, i, h) = Prepend(read, h)
        BY <1>3 DEF NumbersFrom
    <2> HIDE DEF read
    <2>5. read.next \in 1..(n + 1) /\ read.next > i
        BY <1>1, <2>2
    <2>6. g[read.next] = h[read.next] /\ h[read.next] \in Seq(H)
        BY <2>5
    <2> HIDE DEF H
    <2>7. <<read.number>> \in Seq(H)
        BY <2>3
    <2>8. <<read.number>> \o h[read.next] \in Seq(H)
        BY <2>6, <2>7, ConcatProperties
    <2> QED BY <2>4, <2>6, <2>8 DEF Prepend, H
<1>4. CASE ~(i > n) /\ tokens[i] \notin DOMAIN Numeral \cup Quantity
    <2>1. i + 1 \in 1..(n + 1) /\ i + 1 > i
        BY <1>1, <1>4
    <2>2. /\ NumbersFrom(tokens, i, g) = g[i + 1]
          /\ NumbersFrom(tokens, i, h) = h[i + 1]
        BY <1>4 DEF NumbersFrom
    <2> QED BY <2>1, <2>2
<1> QED BY <1>2, <1>3, <1>4

\* The numbers of a text from each of its places on.
Scans(scan, tokens) ==
    \A i \in 1..(Len(tokens) + 1) :
        scan[i] = NumbersFrom(tokens, i, scan) /\ scan[i] \in Seq(Heard(tokens))

\* The numbers of a text are read in it: the scan, which goes on where a
\* reading ends, comes to the end of the text.
LEMMA NumbersAreScanned ==
    ASSUME NEW tokens \in Seq(STRING)
    PROVE  \E scan : Scans(scan, tokens) /\ Numbers(tokens) = scan[1]
<1> DEFINE n == Len(tokens)
           D == 1..(n + 1)
           H == Heard(tokens)
           Solves(g, i) == g[i] = NumbersFrom(tokens, i, g)
           Scan == CHOOSE g : g = [i \in D |-> NumbersFrom(tokens, i, g)]
           From0 == {k \in Nat : \E g \in [D -> Seq(H)] :
                        \A i \in D : i + k > n + 1 => Solves(g, i)}
<1>1. n \in Nat
    BY LenProperties
<1>2. Numbers(tokens) = Scan[1]
    BY DEF Numbers
<1>3. 0 \in From0
    <2> DEFINE g == [i \in D |-> <<>>]
    <2>1. g \in [D -> Seq(H)]
        OBVIOUS
    <2>2. \A i \in D : ~(i + 0 > n + 1)
        BY <1>1
    <2> HIDE DEF g, D, Solves
    <2> QED BY <2>1, <2>2
<1>4. ASSUME NEW k \in Nat, k \in From0 PROVE k + 1 \in From0
    <2>1. PICK g \in [D -> Seq(H)] : \A i \in D : i + k > n + 1 => Solves(g, i)
        BY <1>4
    <2> DEFINE m == n + 1 - k
               h == [i \in D |-> IF i = m THEN NumbersFrom(tokens, m, g) ELSE g[i]]
    <2>2. \A i \in D : i # m => h[i] = g[i]
        OBVIOUS
    <2>3. m \in D => h[m] = NumbersFrom(tokens, m, g)
        OBVIOUS
    <2>4. \A i \in D : i \in Int
        OBVIOUS
    <2>5. m \in Int
        BY <1>1
    <2>6. h \in [D -> Seq(H)]
        <3>1. m \in D => NumbersFrom(tokens, m, g) \in Seq(H)
            <4> HIDE DEF m
            <4> QED BY <2>1, ScanLooksAhead
        <3> QED BY <2>1, <3>1
    <2> HIDE DEF h
    <2>7. ASSUME NEW i \in D, i + (k + 1) > n + 1 PROVE Solves(h, i)
        <3>1. i >= m
            BY <1>1, <2>4, <2>7
        <3> HIDE DEF m
        <3>2. \A j \in D : j > i => h[j] = g[j] /\ g[j] \in Seq(H)
            BY <2>1, <2>2, <2>4, <2>5, <3>1
        <3>3. NumbersFrom(tokens, i, h) = NumbersFrom(tokens, i, g)
            BY <3>2, ScanLooksAhead
        <3>4. CASE i = m
            BY <2>3, <3>3, <3>4
        <3>5. CASE i # m
            <4>1. i + k > n + 1
                BY <1>1, <2>4, <3>1, <3>5 DEF m
            <4> QED BY <2>1, <2>2, <3>3, <3>5, <4>1
        <3> QED BY <3>4, <3>5
    <2>8. \E f \in [D -> Seq(H)] : \A i \in D : i + (k + 1) > n + 1 => Solves(f, i)
        <3> HIDE DEF Solves, D, H, n
        <3> QED BY <2>6, <2>7
    <2>9. k + 1 \in Nat
        OBVIOUS
    <2> HIDE DEF Solves, D, H, n
    <2> QED BY <2>8, <2>9
<1>5. n + 1 \in From0
    <2> HIDE DEF From0
    <2>1. Nat \subseteq From0
        BY <1>3, <1>4, Extending!NumberInduction
    <2> QED BY <1>1, <2>1
<1>6. \E g : g = [i \in D |-> NumbersFrom(tokens, i, g)]
    <2>1. PICK g \in [D -> Seq(H)] : \A i \in D : i + (n + 1) > n + 1 => Solves(g, i)
        BY <1>5
    <2>2. \A i \in D : i + (n + 1) > n + 1
        BY <1>1
    <2>3. \A i \in D : g[i] = NumbersFrom(tokens, i, g)
        BY <2>1, <2>2
    <2> QED BY <2>3
<1>7. Scan = [i \in D |-> NumbersFrom(tokens, i, Scan)]
    BY <1>6
<1> HIDE DEF Scan
<1>8. \A i \in D : Scan[i] = NumbersFrom(tokens, i, Scan)
    BY <1>7
<1> DEFINE Typed == {k \in Nat : \A i \in D : i + k > n + 1 => Scan[i] \in Seq(H)}
<1>9. 0 \in Typed
    <2>1. \A i \in D : ~(i + 0 > n + 1)
        BY <1>1
    <2> HIDE DEF D
    <2> QED BY <2>1
<1>10. ASSUME NEW k \in Nat, k \in Typed PROVE k + 1 \in Typed
    <2>1. ASSUME NEW i \in D, i + (k + 1) > n + 1 PROVE Scan[i] \in Seq(H)
        <3>1. \A j \in D : j > i => Scan[j] \in Seq(H)
            <4>1. \A j \in D : j > i => j + k > n + 1
                BY <1>1, <2>1
            <4> HIDE DEF D, n, H
            <4> QED BY <1>10, <4>1
        <3>2. NumbersFrom(tokens, i, Scan) \in Seq(H)
            BY <3>1, ScanLooksAhead
        <3> QED BY <1>8, <3>2
    <2> HIDE DEF D, H
    <2> QED BY <2>1
<1>11. Nat \subseteq Typed
    <2> HIDE DEF Typed
    <2> QED BY <1>9, <1>10, Extending!NumberInduction
<1>12. \A i \in D : Scan[i] \in Seq(H)
    <2>1. n + 1 \in Typed /\ \A i \in D : i + (n + 1) > n + 1
        <3> HIDE DEF Typed
        <3> QED BY <1>1, <1>11
    <2> HIDE DEF D, n, H
    <2> QED BY <2>1
<1>13. Scans(Scan, tokens)
    BY <1>8, <1>12 DEF Scans
<1> QED BY <1>2, <1>13

LEMMA NumbersAreHeard ==
    ASSUME NEW tokens \in Seq(STRING)
    PROVE  Numbers(tokens) \in Seq(Heard(tokens))
<1>1. PICK scan : Scans(scan, tokens) /\ Numbers(tokens) = scan[1]
    BY NumbersAreScanned
<1>2. 1 \in 1..(Len(tokens) + 1)
    BY LenProperties
<1> QED BY <1>1, <1>2 DEF Scans

---------------------------------------------------------------------------
(* Scope *)

\* Which of two different segments is earlier is clear, unless they are at the
\* same time.
LEMMA EarliestOrders ==
    /\ \A s, t \in Segment : Earliest(s, t) => ~Earliest(t, s)
    /\ \A s, t, u \in Segment : Earliest(s, t) /\ Earliest(t, u) => Earliest(s, u)
    /\ \A s, t, u \in Segment :
            ~Earliest(s, t) /\ ~Earliest(t, u) => ~Earliest(s, u)
<1>1. \A s \in Segment : s.start \in Nat /\ s.end \in Nat
    BY DEF Segment
<1> QED BY <1>1 DEF Earliest

\* Positions of a call by the times of their segments, and by where they are.
LEMMA TimesOrderPositions ==
    ASSUME NEW call \in Seq(Segment)
    PROVE  Extending!StrictOrder(DOMAIN call, StableOrder(call, Earliest))
<1> DEFINE order == StableOrder(call, Earliest)
           D == DOMAIN call
<1>1. \A i \in D : call[i] \in Segment /\ i \in Int
    BY LenProperties
<1>2. \A i, j \in D : <<i, j>> \in order <=>
        \/ Earliest(call[i], call[j])
        \/ i < j /\ ~Earliest(call[j], call[i])
    BY DEF StableOrder
<1> HIDE DEF D, order
<1>3. ASSUME NEW i \in D, NEW j \in D, <<i, j>> \in order
      PROVE  <<j, i>> \notin order
    <2>1. Earliest(call[i], call[j]) => ~Earliest(call[j], call[i])
        BY <1>1, EarliestOrders
    <2> QED BY <1>1, <1>2, <1>3, <2>1
<1>4. ASSUME NEW i \in D, NEW j \in D, i # j
      PROVE  <<i, j>> \in order \/ <<j, i>> \in order
    <2>1. i < j \/ j < i
        BY <1>1, <1>4
    <2> QED BY <1>2, <2>1
<1>5. ASSUME NEW i \in D, NEW j \in D, NEW k \in D,
             <<i, j>> \in order, <<j, k>> \in order
      PROVE  <<i, k>> \in order
    <2> DEFINE s == call[i]
               t == call[j]
               u == call[k]
    <2>1. s \in Segment /\ t \in Segment /\ u \in Segment
        BY <1>1
    <2>2. \/ Earliest(s, t)
          \/ i < j /\ ~Earliest(t, s)
        BY <1>2, <1>5
    <2>3. \/ Earliest(t, u)
          \/ j < k /\ ~Earliest(u, t)
        BY <1>2, <1>5
    <2> HIDE DEF s, t, u
    <2>4. \/ Earliest(s, u)
          \/ i < k /\ ~Earliest(u, s)
        <3>1. CASE Earliest(s, t) /\ Earliest(t, u)
            BY <2>1, <3>1, EarliestOrders
        <3>2. CASE Earliest(s, t) /\ ~Earliest(u, t)
            <4>1. ~Earliest(t, s)
                BY <2>1, <3>2, EarliestOrders
            <4>2. CASE Earliest(t, u)
                BY <2>1, <3>2, <4>2, EarliestOrders
            <4>3. CASE ~Earliest(t, u)
                <5>1. ~Earliest(s, u) => ~Earliest(s, t)
                    BY <2>1, <3>2, EarliestOrders
                <5> QED BY <3>2, <5>1
            <4> QED BY <4>2, <4>3
        <3>3. CASE ~Earliest(t, s) /\ Earliest(t, u)
            <4>1. ~Earliest(s, u) => ~Earliest(t, u)
                BY <2>1, <3>3, EarliestOrders
            <4> QED BY <3>3, <4>1
        <3>4. CASE i < j /\ ~Earliest(t, s) /\ j < k /\ ~Earliest(u, t)
            <4>1. ~Earliest(u, s)
                BY <2>1, <3>4, EarliestOrders
            <4>2. i < k
                BY <1>1, <3>4
            <4> QED BY <4>1, <4>2
        <3> QED BY <2>2, <2>3, <3>1, <3>2, <3>3, <3>4
    <2> QED BY <1>2, <2>4 DEF s, u
<1> QED BY <1>3, <1>4, <1>5 DEF Extending!StrictOrder, D, order

\* The segments of a call in order: the same ones, none before an earlier one.
InTurn(ordered, call) ==
    /\ ordered \in Seq(Segment)
    /\ ToSet(ordered) = ToSet(call)
    /\ \A k, l \in DOMAIN ordered : k < l => ~Earliest(ordered[l], ordered[k])

LEMMA SegmentsInTurn ==
    ASSUME NEW call \in Seq(Segment)
    PROVE  InTurn(Sorted(call, Earliest), call)
<1> DEFINE D == DOMAIN call
           order == StableOrder(call, Earliest)
           at == Arranged(D, order)
           ordered == Sorted(call, Earliest)
<1>1. Extending!StrictOrder(D, order)
    BY TimesOrderPositions
<1>2. D \in SUBSET D
    OBVIOUS
<1>3. ordered = Picked(call, at)
    BY DEF Sorted
<1>4. IsFiniteSet(D)
    BY LenProperties, FS_Interval
<1>5. \A i, j \in D : <<i, j>> \in order =>
        \/ Earliest(call[i], call[j])
        \/ ~Earliest(call[j], call[i])
    BY DEF StableOrder
<1>6. \A i \in D : call[i] \in Segment
    BY LenProperties
<1> HIDE DEF order
<1>7. /\ Picked(call, at) \in Seq(Segment)
      /\ ToSet(Picked(call, at)) = {call[i] : i \in D}
    BY <1>1, <1>2, PickedElements
<1>8. ToSet(call) = {call[i] : i \in D}
    BY DEF ToSet
<1>9. /\ at \in [1..Cardinality(D) -> D]
      /\ \A k, l \in 1..Cardinality(D) : k < l => <<at[k], at[l]>> \in order
    BY <1>1, <1>4, InOrder
<1> HIDE DEF D, at, ordered
<1>10. ASSUME NEW k \in DOMAIN ordered, NEW l \in DOMAIN ordered, k < l
       PROVE  ~Earliest(ordered[l], ordered[k])
    <2>1. /\ k \in 1..Cardinality(D) /\ l \in 1..Cardinality(D)
          /\ ordered[k] = call[at[k]] /\ ordered[l] = call[at[l]]
        BY <1>3, <1>9 DEF Picked
    <2>2. at[k] \in D /\ at[l] \in D /\ <<at[k], at[l]>> \in order
        BY <1>9, <1>10, <2>1
    <2>3. \/ Earliest(call[at[k]], call[at[l]])
          \/ ~Earliest(call[at[l]], call[at[k]])
        BY <1>5, <2>2
    <2>4. call[at[k]] \in Segment /\ call[at[l]] \in Segment
        BY <1>6, <2>2
    <2> QED BY <2>1, <2>3, <2>4, EarliestOrders
<1> QED BY <1>3, <1>7, <1>8, <1>10 DEF InTurn, ordered

\* The positions a comprehension keeps, from the first to the last.
LEMMA KeptPositions ==
    ASSUME NEW S, NEW seq \in Seq(S), NEW kept \in SUBSET (DOMAIN seq)
    PROVE  LET n == Cardinality(kept)
               at == Arranged(kept, Rising(kept))
           IN  /\ n \in Nat
               /\ at \in [1..n -> kept]
               /\ \A i \in kept : \E k \in 1..n : at[k] = i
               /\ \A k, l \in 1..n : k < l => at[k] < at[l]
               /\ Picked(seq, at) = [k \in 1..n |-> seq[at[k]]]
<1> DEFINE n == Cardinality(kept)
           at == Arranged(kept, Rising(kept))
<1>1. IsFiniteSet(kept)
    <2>1. IsFiniteSet(DOMAIN seq)
        BY LenProperties, FS_Interval
    <2> QED BY <2>1, FS_Subset
<1>2. kept \in SUBSET Int
    BY LenProperties
<1>3. Extending!StrictOrder(kept, Rising(kept))
    BY <1>2, Extending!RisingIsStrict, SameThere
<1>4. /\ at \in [1..n -> kept]
      /\ \A i \in kept : \E k \in 1..n : at[k] = i
      /\ \A k, l \in 1..n : k < l => <<at[k], at[l]>> \in Rising(kept)
    BY <1>1, <1>3, InOrder
<1>5. n \in Nat
    BY <1>1, FS_CardinalityType
<1> HIDE DEF at, n
<1>6. \A k, l \in 1..n : k < l => at[k] < at[l]
    BY <1>4 DEF Rising
<1>7. Picked(seq, at) = [k \in 1..n |-> seq[at[k]]]
    BY <1>4 DEF Picked
<1> QED BY <1>4, <1>5, <1>6, <1>7 DEF at, n

\* Segments one after another in time, all of a call.
Following(scoped, call) ==
    /\ scoped \in Seq(Segment)
    /\ ToSet(scoped) \subseteq ToSet(call)
    /\ \A k, l \in DOMAIN scoped : k < l => scoped[k].start <= scoped[l].start

\* Without questions the scope keeps segments of the call, in time.
LEMMA FilteredFollow ==
    ASSUME NEW call, NEW ordered, InTurn(ordered, call),
           NEW kept \in SUBSET (DOMAIN ordered)
    PROVE  Following(Picked(ordered, Arranged(kept, Rising(kept))), call)
<1> DEFINE n == Cardinality(kept)
           at == Arranged(kept, Rising(kept))
           scoped == Picked(ordered, at)
<1>1. ordered \in Seq(Segment) /\ ToSet(ordered) = ToSet(call)
    BY DEF InTurn
<1>2. /\ n \in Nat
      /\ at \in [1..n -> kept]
      /\ \A k, l \in 1..n : k < l => at[k] < at[l]
      /\ scoped = [k \in 1..n |-> ordered[at[k]]]
    BY <1>1, KeptPositions
<1>3. scoped \in Seq(Segment) /\ ToSet(scoped) = {ordered[i] : i \in kept}
    BY <1>1, KeptElements
<1>4. ToSet(scoped) \subseteq ToSet(call)
    BY <1>1, <1>3 DEF ToSet
<1>5. DOMAIN scoped = 1..n
    BY <1>2
<1> HIDE DEF scoped, at, n
<1>6. ASSUME NEW k \in 1..n, NEW l \in 1..n, k < l
      PROVE  scoped[k].start <= scoped[l].start
    <2>1. at[k] \in DOMAIN ordered /\ at[l] \in DOMAIN ordered /\ at[k] < at[l]
        BY <1>2, <1>6
    <2>2. ~Earliest(ordered[at[l]], ordered[at[k]])
        BY <2>1 DEF InTurn
    <2>3. ordered[at[k]] \in Segment /\ ordered[at[l]] \in Segment
        BY <1>1, <2>1
    <2>4. ordered[at[k]].start \in Nat /\ ordered[at[l]].start \in Nat
        BY <2>3 DEF Segment
    <2>5. ordered[at[k]].start <= ordered[at[l]].start
        BY <2>2, <2>4 DEF Earliest
    <2> QED BY <1>2, <2>5
<1> QED BY <1>3, <1>4, <1>5, <1>6 DEF Following, scoped, at

\* A question that is answered has a first reply.
LEMMA FirstReply ==
    ASSUME NEW call, NEW ordered, InTurn(ordered, call), NEW params,
           NEW i \in DOMAIN ordered, Replies(ordered, i, params) # {}
    PROVE  LET first == Min(Replies(ordered, i, params)) IN
           /\ first \in Replies(ordered, i, params)
           /\ \A k \in Replies(ordered, i, params) : first <= k
           /\ first \in DOMAIN ordered /\ i < first
<1> DEFINE R == Replies(ordered, i, params)
           n == Len(ordered)
<1>1. ordered \in Seq(Segment)
    BY DEF InTurn
<1>2. n \in Nat /\ DOMAIN ordered = 1..n /\ i \in Nat /\ 1 <= i
    BY <1>1, LenProperties
<1>3. R \in SUBSET ((i + 1)..n)
    BY DEF Replies
<1>4. IsFiniteSet((i + 1)..n)
    BY <1>2, FS_Interval
<1> HIDE DEF R, n
<1>5. IsFiniteSet(R) /\ R \in SUBSET Int
    <2>1. IsFiniteSet(R)
        BY <1>3, <1>4, FS_Subset
    <2>2. R \in SUBSET Int
        BY <1>2, <1>3
    <2> QED BY <2>1, <2>2
<1>6. Extending!IsFiniteSet(R) /\ Extending!Min(R) = Min(R)
    BY <1>5, SameThere
<1>7. R # {}
    BY DEF R
<1>8. Extending!Min(R) \in R /\ \A k \in R : Extending!Min(R) <= k
    BY <1>5, <1>6, <1>7, Extending!Extremes
<1>9. Min(R) \in 1..n /\ i < Min(R)
    <2> DEFINE first == Min(R)
    <2>1. first \in R
        BY <1>6, <1>8
    <2> HIDE DEF first
    <2>2. first \in (i + 1)..n
        BY <1>3, <2>1
    <2>3. first \in 1..n /\ i < first
        BY <1>2, <2>2
    <2> QED BY <2>3 DEF first
<1> QED BY <1>2, <1>6, <1>8, <1>9 DEF R

\* What a reply is.
LEMMA ReplyIs ==
    ASSUME NEW ordered, NEW i, NEW params, NEW k
    PROVE  k \in Replies(ordered, i, params) <=>
             /\ k \in (i + 1)..Len(ordered)
             /\ \A j \in (i + 1)..k : ordered[j].start <= ordered[i].end + params.window
             /\ ordered[k].role = params.answerer
BY DEF Replies

\* A later question has no earlier first reply: what answers the later one
\* before the first reply to the earlier one would answer that, too.
LEMMA RepliesFollow ==
    ASSUME NEW call, NEW ordered, InTurn(ordered, call), NEW params,
           NEW i \in DOMAIN ordered, Replies(ordered, i, params) # {},
           NEW j \in DOMAIN ordered, Replies(ordered, j, params) # {}, i < j
    PROVE  Min(Replies(ordered, i, params)) <= Min(Replies(ordered, j, params))
<1> DEFINE r == Min(Replies(ordered, i, params))
           s == Min(Replies(ordered, j, params))
           n == Len(ordered)
<1>1. n \in Nat /\ DOMAIN ordered = 1..n
    BY LenProperties DEF InTurn
<1>2. /\ r \in Replies(ordered, i, params)
      /\ \A k \in Replies(ordered, i, params) : r <= k
      /\ r \in DOMAIN ordered /\ i < r
    BY FirstReply
<1>3. s \in Replies(ordered, j, params) /\ s \in DOMAIN ordered /\ j < s
    BY FirstReply
<1> HIDE DEF r, s, n
<1>4. i \in Int /\ j \in Int /\ r \in Int /\ s \in Int /\ s <= n
    BY <1>1, <1>2, <1>3
<1>5. ASSUME s < r PROVE FALSE
    <2>1. s \in (i + 1)..Len(ordered)
        BY <1>3, <1>4 DEF n
    <2>2. \A k \in (i + 1)..r : ordered[k].start <= ordered[i].end + params.window
        BY <1>2, ReplyIs
    <2>3. (i + 1)..s \subseteq (i + 1)..r
        BY <1>4, <1>5
    <2>4. ordered[s].role = params.answerer
        BY <1>3, ReplyIs
    <2>5. s \in Replies(ordered, i, params)
        BY <2>1, <2>2, <2>3, <2>4, ReplyIs
    <2> QED BY <1>2, <1>4, <1>5, <2>5
<1> QED BY <1>4, <1>5 DEF r, s

\* What a question and its first reply are to each other.
Answers(s, q, call, params) ==
    /\ s.role = params.answerer
    /\ q.role # s.role /\ Says(q, params.questions)
    /\ q.start <= s.start /\ s.start <= q.end + params.window
    /\ \A t \in ToSet(call) : t.role = s.role /\ Earliest(q, t) => ~Earliest(t, s)

Asker(params) == IF params.answerer = "AGENT" THEN "CUSTOMER" ELSE "AGENT"

\* A question that is answered.
Asked(ordered, i, params) ==
    /\ ordered[i].role = Asker(params)
    /\ Says(ordered[i], params.questions)
    /\ Replies(ordered, i, params) # {}

\* The first reply to a question is the first thing the answerer says after the
\* question has begun.
LEMMA FirstReplyAnswers ==
    ASSUME NEW call, NEW ordered, InTurn(ordered, call), NEW params,
           NEW i \in DOMAIN ordered, Asked(ordered, i, params)
    PROVE  Answers(ordered[Min(Replies(ordered, i, params))], ordered[i], call, params)
<1> DEFINE r == Min(Replies(ordered, i, params))
           n == Len(ordered)
           q == ordered[i]
           s == ordered[r]
<1>1. ordered \in Seq(Segment) /\ ToSet(ordered) = ToSet(call)
    BY DEF InTurn
<1>2. n \in Nat /\ DOMAIN ordered = 1..n
    BY <1>1, LenProperties
<1>3. /\ r \in Replies(ordered, i, params)
      /\ \A k \in Replies(ordered, i, params) : r <= k
      /\ r \in DOMAIN ordered /\ i < r
    BY FirstReply DEF Asked
<1> HIDE DEF r
<1>4. /\ r \in (i + 1)..n
      /\ \A j \in (i + 1)..r : ordered[j].start <= q.end + params.window
      /\ s.role = params.answerer
    BY <1>3, ReplyIs
<1> HIDE DEF n
<1>5. i \in Int /\ r \in Int
    BY <1>2, <1>3
<1>6. q.role # s.role
    BY <1>4 DEF Asked, Asker
<1>7. s \in Segment /\ q \in Segment
    BY <1>1, <1>2, <1>3
<1>8. q.start <= s.start
    <2>1. ~Earliest(s, q)
        BY <1>3 DEF InTurn
    <2>2. q.start \in Nat /\ s.start \in Nat
        BY <1>7 DEF Segment
    <2> QED BY <2>1, <2>2 DEF Earliest
<1>9. s.start <= q.end + params.window
    <2>1. r \in (i + 1)..r
        BY <1>3, <1>5
    <2> QED BY <1>4, <2>1
<1>10. ASSUME NEW t \in ToSet(call), t.role = s.role, Earliest(q, t), Earliest(t, s)
       PROVE  FALSE
    <2>1. PICK k \in DOMAIN ordered : t = ordered[k]
        BY <1>1 DEF ToSet
    <2>2. t \in Segment /\ k \in Int
        BY <1>1, <1>2, <2>1
    <2>3. ~Earliest(t, q) /\ ~Earliest(s, t)
        BY <1>7, <1>10, <2>2, EarliestOrders
    <2>4. k # i
        BY <1>10, <2>1, <2>3
    <2>5. k # r
        BY <1>10, <2>1, <2>3
    <2>6. i < k
        <3>1. k < i => ~Earliest(q, t)
            BY <2>1 DEF InTurn
        <3> QED BY <1>5, <1>10, <2>2, <2>4, <3>1
    <2>7. k < r
        <3>1. r < k => ~Earliest(t, s)
            BY <1>3, <2>1 DEF InTurn
        <3> QED BY <1>5, <1>10, <2>2, <2>5, <3>1
    <2>8. k \in (i + 1)..Len(ordered)
        BY <1>2, <1>5, <2>1, <2>2, <2>6 DEF n
    <2>9. (i + 1)..k \subseteq (i + 1)..r
        BY <1>5, <2>2, <2>7
    <2>10. \A j \in (i + 1)..k : ordered[j].start <= q.end + params.window
        BY <1>4, <2>9
    <2>11. ordered[k].role = params.answerer
        BY <1>4, <1>10, <2>1
    <2>12. k \in Replies(ordered, i, params)
        BY <2>8, <2>10, <2>11, ReplyIs
    <2> QED BY <1>3, <1>5, <2>2, <2>7, <2>12
<1> QED BY <1>4, <1>6, <1>8, <1>9, <1>10 DEF Answers, Asked, r

\* The answers to questions are segments of the call, in time, and each is the
\* first reply to a question.
LEMMA AnswersFollow ==
    ASSUME NEW call, NEW ordered, InTurn(ordered, call), NEW params
    PROVE  /\ Following(AnswersToQuestions(ordered, params), call)
           /\ \A s \in ToSet(AnswersToQuestions(ordered, params)) :
                \E q \in ToSet(call) : Answers(s, q, call, params)
<1> DEFINE all == [i \in DOMAIN ordered |-> i]
           kept == {i \in DOMAIN all : Asked(ordered, all[i], params)}
           n == Cardinality(kept)
           at == Arranged(kept, Rising(kept))
           asked == Picked(all, at)
           answers == AnswersToQuestions(ordered, params)
           First(i) == Min(Replies(ordered, i, params))
<1>1. ordered \in Seq(Segment) /\ ToSet(ordered) = ToSet(call)
    BY DEF InTurn
<1>2. all \in Seq(DOMAIN ordered) /\ DOMAIN all = DOMAIN ordered
    BY <1>1, LenProperties
<1>3. answers = [m \in DOMAIN asked |-> ordered[First(asked[m])]]
    BY DEF AnswersToQuestions, Filtered, Asked, Asker
<1>4. kept \in SUBSET (DOMAIN all)
    OBVIOUS
<1>5. /\ n \in Nat
      /\ at \in [1..n -> kept]
      /\ \A k, l \in 1..n : k < l => at[k] < at[l]
      /\ asked = [k \in 1..n |-> all[at[k]]]
    <2> HIDE DEF kept, all
    <2> QED BY <1>2, <1>4, KeptPositions
<1>6. \A i \in kept : i \in DOMAIN ordered /\ all[i] = i /\ Asked(ordered, i, params)
    OBVIOUS
<1> HIDE DEF answers, at, n, kept, asked, all
<1>7. DOMAIN asked = 1..n /\ \A m \in 1..n : asked[m] = at[m]
    BY <1>5, <1>6
<1>8. answers = [m \in 1..n |-> ordered[First(at[m])]]
    BY <1>3, <1>7
<1>9. \A m \in 1..n : at[m] \in DOMAIN ordered /\ Asked(ordered, at[m], params)
    BY <1>5, <1>6
<1>10. \A i \in DOMAIN ordered : Asked(ordered, i, params) =>
        First(i) \in DOMAIN ordered /\ Replies(ordered, i, params) # {}
    BY FirstReply DEF Asked
<1> HIDE DEF First
<1>11. \A m \in 1..n : ordered[First(at[m])] \in Segment
                         /\ ordered[First(at[m])] \in ToSet(ordered)
    BY <1>1, <1>9, <1>10, LenProperties DEF ToSet
<1>12. answers \in Seq(Segment) /\ ToSet(answers) \subseteq ToSet(call)
    <2>1. answers \in Seq(Segment) /\ DOMAIN answers = 1..n
        BY <1>5, <1>8, <1>11
    <2> QED BY <1>1, <1>8, <1>11, <2>1 DEF ToSet
<1>13. ASSUME NEW k \in 1..n, NEW l \in 1..n, k < l
       PROVE  answers[k].start <= answers[l].start
    <2> DEFINE i == at[k]
               j == at[l]
    <2>1. /\ i \in DOMAIN ordered /\ Asked(ordered, i, params)
          /\ j \in DOMAIN ordered /\ Asked(ordered, j, params) /\ i < j
        BY <1>5, <1>9, <1>13
    <2> HIDE DEF i, j
    <2>2. /\ First(i) \in DOMAIN ordered /\ Replies(ordered, i, params) # {}
          /\ First(j) \in DOMAIN ordered /\ Replies(ordered, j, params) # {}
        BY <1>10, <2>1
    <2>3. First(i) <= First(j)
        BY <2>1, <2>2, RepliesFollow DEF First
    <2>4. First(i) \in Int /\ First(j) \in Int
        BY <1>1, <2>2, LenProperties
    <2>5. ordered[First(i)] \in Segment /\ ordered[First(j)] \in Segment
        BY <1>1, <2>2, LenProperties
    <2>6. ordered[First(i)].start \in Nat /\ ordered[First(j)].start \in Nat
        BY <2>5 DEF Segment
    <2>7. ordered[First(i)].start <= ordered[First(j)].start
        <3>1. CASE First(i) = First(j)
            BY <2>6, <3>1
        <3>2. CASE First(i) < First(j)
            <4>1. ~Earliest(ordered[First(j)], ordered[First(i)])
                BY <2>2, <3>2 DEF InTurn
            <4> QED BY <2>6, <4>1 DEF Earliest
        <3> QED BY <2>3, <2>4, <3>1, <3>2
    <2>8. answers[k] = ordered[First(i)] /\ answers[l] = ordered[First(j)]
        BY <1>8, <1>13 DEF i, j
    <2> QED BY <2>7, <2>8
<1>14. ASSUME NEW s \in ToSet(answers)
       PROVE  \E q \in ToSet(call) : Answers(s, q, call, params)
    <2>1. PICK m \in 1..n : s = ordered[First(at[m])]
        BY <1>8, <1>14 DEF ToSet
    <2>2. at[m] \in DOMAIN ordered /\ Asked(ordered, at[m], params)
        BY <1>9
    <2>3. ordered[at[m]] \in ToSet(call)
        BY <1>1, <2>2 DEF ToSet
    <2>4. Answers(s, ordered[at[m]], call, params)
        BY <2>1, <2>2, FirstReplyAnswers DEF First
    <2> QED BY <2>3, <2>4
<1> QED
    <2>1. Following(answers, call)
        BY <1>8, <1>12, <1>13 DEF Following
    <2> QED BY <1>14, <2>1 DEF answers

\* The segments in the scope of a check are segments of the call, in time.
LEMMA ScopeFollows ==
    ASSUME NEW call \in Seq(Segment), NEW params
    PROVE  Following(ScopeSegments(call, params), call)
<1> DEFINE ordered == Sorted(call, Earliest)
           kept == {i \in DOMAIN ordered :
                        /\ params.speaker \in {"ANY", ordered[i].role}
                        /\ params.keywords # {} => Says(ordered[i], params.keywords)}
<1>1. InTurn(ordered, call)
    BY SegmentsInTurn
<1>2. ScopeSegments(call, params) =
        IF params.questions # {} THEN AnswersToQuestions(ordered, params)
        ELSE Picked(ordered, Arranged(kept, Rising(kept)))
    BY DEF ScopeSegments, Filtered
<1>3. kept \in SUBSET (DOMAIN ordered)
    OBVIOUS
<1> HIDE DEF ordered, kept
<1>4. Following(AnswersToQuestions(ordered, params), call)
    BY <1>1, AnswersFollow
<1>5. Following(Picked(ordered, Arranged(kept, Rising(kept))), call)
    BY <1>1, <1>3, FilteredFollow
<1> QED BY <1>2, <1>4, <1>5

---------------------------------------------------------------------------
(* Values *)

\* What a check can take from a text: a number, a word of it, a word for yes or
\* no, or all of it.
Value == STRING \cup {"yes", "no"} \cup Seq(STRING)
             \cup UNION {Heard(text) : text \in Seq(STRING)}

\* The elements of a finite set make a sequence.
LEMMA SetsMakeSequences ==
    ASSUME NEW S, IsFiniteSet(S)
    PROVE  SetToSeq(S) \in Seq(S) /\ ToSet(SetToSeq(S)) \subseteq S
<1> DEFINE n == Cardinality(S)
<1>1. n \in Nat /\ ExistsBijection(1..n, S)
    BY FS_CardinalityType
<1>2. PICK f \in Bijection(1..n, S) : TRUE
    BY <1>1 DEF ExistsBijection
<1>3. f \in [1..n -> S] /\ \A a, b \in 1..n : a # b => f[a] # f[b]
    BY <1>2 DEF Bijection, Injection, IsInjective
<1>4. IsInjective(f) <=> \A a, b \in DOMAIN f : f[a] = f[b] => a = b
    BY DEF IsInjective
<1> HIDE DEF n
<1>5. IsInjective(f)
    BY <1>3, <1>4
<1>6. \E g \in [1..n -> S] : IsInjective(g)
    BY <1>3, <1>5
<1>7. SetToSeq(S) \in [1..n -> S]
    BY <1>6 DEF SetToSeq, n
<1> DEFINE g == SetToSeq(S)
<1> HIDE DEF g
<1>8. g \in Seq(S) /\ ToSet(g) \subseteq S
    BY <1>1, <1>7 DEF ToSet, g
<1> QED BY <1>8 DEF g

\* A sequence of some elements is one of more.
LEMMA MoreElements ==
    ASSUME NEW S, NEW T, S \subseteq T, NEW seq \in Seq(S)
    PROVE  seq \in Seq(T)
<1>1. Len(seq) \in Nat /\ DOMAIN seq = 1..Len(seq)
    BY LenProperties
<1>2. \A i \in 1..Len(seq) : seq[i] \in T
    BY <1>1
<1>3. seq = [i \in 1..Len(seq) |-> seq[i]]
    BY <1>1
<1> DEFINE n == Len(seq)
<1> HIDE DEF n
<1>4. [i \in 1..n |-> seq[i]] \in Seq(T)
    BY <1>1, <1>2 DEF n
<1> QED BY <1>3, <1>4 DEF n

\* Two lists one after another have the elements of both.
LEMMA JoinedElements ==
    ASSUME NEW S, NEW s \in Seq(S), NEW t \in Seq(S)
    PROVE  /\ s \o t \in Seq(S)
           /\ \A x : x \in ToSet(s \o t) <=> x \in ToSet(s) \/ x \in ToSet(t)
<1> DEFINE l == Len(s)
           m == Len(t)
           both == s \o t
<1>1. /\ l \in Nat /\ m \in Nat /\ DOMAIN s = 1..l /\ DOMAIN t = 1..m
    BY LenProperties
<1>2. both \in Seq(S) /\ Len(both) = l + m
        /\ \A i \in 1..(l + m) : both[i] = IF i <= l THEN s[i] ELSE t[i - l]
    BY ConcatProperties
<1> HIDE DEF both, l, m
<1>3. DOMAIN both = 1..(l + m)
    BY <1>2, LenProperties
<1>4. \A i \in 1..l : i \in 1..(l + m) /\ both[i] = s[i]
    BY <1>1, <1>2
<1>5. ASSUME NEW i \in 1..m PROVE \E k \in 1..(l + m) : both[k] = t[i]
    <2> DEFINE k == l + i
    <2>1. k \in 1..(l + m) /\ ~(k <= l) /\ k - l = i
        BY <1>1
    <2> HIDE DEF k
    <2>2. both[k] = t[i]
        BY <1>2, <2>1
    <2> QED BY <2>1, <2>2
<1>6. ASSUME NEW i \in 1..(l + m)
      PROVE  (i \in 1..l /\ both[i] = s[i]) \/ (i - l \in 1..m /\ both[i] = t[i - l])
    <2>1. both[i] = IF i <= l THEN s[i] ELSE t[i - l]
        BY <1>2
    <2>2. CASE i <= l
        BY <1>1, <2>1, <2>2
    <2>3. CASE ~(i <= l)
        <3>1. i - l \in 1..m
            BY <1>1, <2>3
        <3> QED BY <2>1, <2>3, <3>1
    <2> QED BY <2>2, <2>3
<1>7. ASSUME NEW x
      PROVE  x \in ToSet(both) <=> x \in ToSet(s) \/ x \in ToSet(t)
    <2>1. ASSUME x \in ToSet(both) PROVE x \in ToSet(s) \/ x \in ToSet(t)
        <3>1. PICK i \in 1..(l + m) : x = both[i]
            BY <1>3, <2>1 DEF ToSet
        <3>2. CASE i \in 1..l /\ both[i] = s[i]
            BY <1>1, <3>1, <3>2 DEF ToSet
        <3>3. CASE i - l \in 1..m /\ both[i] = t[i - l]
            BY <1>1, <3>1, <3>3 DEF ToSet
        <3> QED BY <1>6, <3>2, <3>3
    <2>2. ASSUME x \in ToSet(s) PROVE x \in ToSet(both)
        <3>1. PICK i \in 1..l : x = s[i]
            BY <1>1, <2>2 DEF ToSet
        <3> QED BY <1>3, <1>4, <3>1 DEF ToSet
    <2>3. ASSUME x \in ToSet(t) PROVE x \in ToSet(both)
        <3>1. PICK i \in 1..m : x = t[i]
            BY <1>1, <2>3 DEF ToSet
        <3>2. PICK k \in 1..(l + m) : both[k] = t[i]
            BY <1>5
        <3> QED BY <1>3, <3>1, <3>2 DEF ToSet
    <2> QED BY <2>1, <2>2, <2>3
<1> QED BY <1>2, <1>7 DEF both

\* The values of a text.
LEMMA ValuesOfText ==
    ASSUME NEW comparator, NEW text \in Seq(STRING), NEW params
    PROVE  ExtractFromText(comparator, text, params) \in Seq(Value)
<1> DEFINE values == ExtractFromText(comparator, text, params)
<1>1. CASE comparator \in Numeric
    <2> DEFINE numbers == Numbers(text)
               kept == {i \in DOMAIN numbers : Amount(numbers[i]) \in params.min..params.max}
    <2>1. numbers \in Seq(Value)
        <3>1. numbers \in Seq(Heard(text))
            BY NumbersAreHeard
        <3>2. Heard(text) \subseteq Value
            BY DEF Value
        <3> HIDE DEF numbers
        <3> QED BY <3>1, <3>2
    <2>2. values = Picked(numbers, Arranged(kept, Rising(kept)))
        <3>1. values = Within(numbers, params)
            BY <1>1 DEF ExtractFromText, Numeric
        <3> HIDE DEF values
        <3> QED BY <3>1 DEF Within, Filtered
    <2>3. kept \in SUBSET (DOMAIN numbers)
        OBVIOUS
    <2> HIDE DEF kept, numbers, values
    <2>4. Picked(numbers, Arranged(kept, Rising(kept))) \in Seq(Value)
        BY <2>1, <2>3, KeptElements
    <2> QED BY <2>2, <2>4 DEF values
<1>2. CASE comparator = "BOOLEAN"
    <2>1. values \in {<<"no">>, <<"yes">>, <<>>}
        BY <1>2 DEF ExtractFromText, Numeric
    <2>2. "no" \in Value /\ "yes" \in Value
        BY DEF Value
    <2>3. {<<"no">>, <<"yes">>, <<>>} \subseteq Seq(Value)
        BY <2>2
    <2> HIDE DEF values
    <2>4. values \in Seq(Value)
        BY <2>1, <2>3
    <2> QED BY <2>4 DEF values
<1>3. CASE comparator = "TEXT"
    <2>1. values \in {<<text>>, <<>>}
        BY <1>3 DEF ExtractFromText, Numeric
    <2>2. text \in Value
        BY DEF Value
    <2>3. <<text>> \in Seq(Value) /\ <<>> \in Seq(Value)
        BY <2>2
    <2> HIDE DEF values
    <2>4. values \in Seq(Value)
        BY <2>1, <2>3
    <2> QED BY <2>4 DEF values
<1>4. CASE comparator = "IDENTIFIER"
    <2> DEFINE found == ToSet(text) \cap Lexicon[comparator]
    <2>1. values = SetToSeq(found)
        BY <1>4 DEF ExtractFromText, Numeric
    <2>2. IsFiniteSet(found)
        <3>1. IsFiniteSet(DOMAIN text)
            BY LenProperties, FS_Interval
        <3>2. text \in Surjection(DOMAIN text, ToSet(text))
            BY DEF Surjection, ToSet
        <3>3. IsFiniteSet(ToSet(text))
            BY <3>1, <3>2, FS_Surjection
        <3> QED BY <3>3, FS_Subset
    <2>3. found \subseteq Value
        BY DEF ToSet, Value
    <2> HIDE DEF found, values
    <2>4. SetToSeq(found) \in Seq(found)
        BY <2>2, SetsMakeSequences
    <2>5. values \in Seq(Value)
        BY <2>1, <2>3, <2>4
    <2> QED BY <2>5 DEF values
<1>5. CASE comparator \notin Numeric \cup {"BOOLEAN", "TEXT", "IDENTIFIER"}
    <2> DEFINE kept == {i \in DOMAIN text : text[i] \in Lexicon[comparator]}
    <2>1. values = Picked(text, Arranged(kept, Rising(kept)))
        <3>1. values = Listed(comparator, text)
            BY <1>5 DEF ExtractFromText
        <3> HIDE DEF values
        <3> QED BY <3>1 DEF Listed, Filtered
    <2>2. kept \in SUBSET (DOMAIN text)
        OBVIOUS
    <2> HIDE DEF kept, values
    <2>3. Picked(text, Arranged(kept, Rising(kept))) \in Seq(STRING)
        BY <2>2, KeptElements
    <2>4. STRING \subseteq Value
        BY DEF Value
    <2>5. values \in Seq(Value)
        BY <2>1, <2>3, <2>4, MoreElements
    <2> QED BY <2>5 DEF values
<1> QED BY <1>1, <1>2, <1>3, <1>4, <1>5

\* A text as a value is not empty.
ValueFor(comparator) ==
    {v \in Value : comparator = "TEXT" => v \in Seq(STRING) \ {<<>>}}

\* The values of a text, for a comparator.
LEMMA ValuesOfComparator ==
    ASSUME NEW comparator, NEW text \in Seq(STRING), NEW params
    PROVE  ExtractFromText(comparator, text, params) \in Seq(ValueFor(comparator))
<1> DEFINE values == ExtractFromText(comparator, text, params)
<1>1. CASE comparator = "TEXT"
    <2>1. values = IF text = <<>> THEN <<>> ELSE <<text>>
        BY <1>1 DEF ExtractFromText, Numeric
    <2>2. text # <<>> => text \in ValueFor(comparator)
        BY DEF Value, ValueFor
    <2>3. text # <<>> => <<text>> \in Seq(ValueFor(comparator))
        BY <2>2
    <2>4. <<>> \in Seq(ValueFor(comparator))
        OBVIOUS
    <2> HIDE DEF values
    <2>5. values \in Seq(ValueFor(comparator))
        BY <2>1, <2>3, <2>4
    <2> QED BY <2>5 DEF values
<1>2. CASE comparator # "TEXT"
    <2>1. ValueFor(comparator) = Value
        BY <1>2 DEF ValueFor
    <2> QED BY <2>1, ValuesOfText
<1> QED BY <1>1, <1>2

---------------------------------------------------------------------------
(* Candidates *)

Candidate(comparator) == [segment : Segment, value : ValueFor(comparator), correction : BOOLEAN]

\* The candidates of a segment: those that correct come last.
Ordered(part, s, comparator) ==
    /\ part \in Seq(Candidate(comparator))
    /\ \A i \in DOMAIN part : part[i].segment = s
    /\ \A i, j \in DOMAIN part :
            i < j /\ part[i].correction => part[j].correction

LEMMA CandidatesOrdered ==
    ASSUME NEW s \in Segment, NEW comparator, NEW params
    PROVE  Ordered(CandidatesOf(s, comparator, params), s, comparator)
<1> DEFINE text == s.text
           at == CorrectedFrom(text)
           Of(part) == ExtractFromText(comparator, part, params)
           before == Candidates(s, FALSE, Of(SubSeq(text, 1, at - 1)))
           after == Candidates(s, TRUE, Of(From(text, at)))
           part == CandidatesOf(s, comparator, params)
<1>1. text \in Seq(STRING) /\ Len(text) \in Nat /\ DOMAIN text = 1..Len(text)
    BY LenProperties DEF Segment
<1>2. at \in 1..(Len(text) + 1)
    <2>1. CASE Marks(text) = {}
        BY <1>1, <2>1 DEF CorrectedFrom
    <2>2. CASE Marks(text) # {}
        <3>1. Marks(text) \in SUBSET (1..Len(text))
            BY <1>1 DEF Marks
        <3>2. IsFiniteSet(1..Len(text))
            BY <1>1, FS_Interval
        <3> DEFINE M == Marks(text)
                   m == Len(text)
        <3> HIDE DEF M
        <3>3. IsFiniteSet(M)
            BY <3>1, <3>2, FS_Subset DEF M
        <3>4. M \in SUBSET Int
            BY <1>1, <3>1 DEF M
        <3>5. Extending!IsFiniteSet(M) /\ Extending!Max(M) = Max(M)
            BY <3>3, SameThere
        <3>6. Extending!Max(M) \in M
            BY <2>2, <3>3, <3>4, <3>5, Extending!Extremes DEF M
        <3>7. at = Max(M)
            BY <2>2 DEF CorrectedFrom, M
        <3>8. at \in 1..m
            BY <3>1, <3>5, <3>6, <3>7 DEF M
        <3> HIDE DEF at
        <3> QED BY <1>1, <3>8
    <2> QED BY <2>1, <2>2
<1>3. SubSeq(text, 1, at - 1) \in Seq(STRING) /\ From(text, at) \in Seq(STRING)
    <2> HIDE DEF at, text
    <2>1. at - 1 \in Nat /\ at - 1 <= Len(text) /\ at \in Nat \ {0}
        BY <1>1, <1>2
    <2>2. SubSeq(text, 1, at - 1) \in Seq(STRING)
        BY <1>1, <2>1, Part
    <2>3. SubSeq(text, at, Len(text)) \in Seq(STRING)
        BY <1>1, <2>1, Part
    <2> QED BY <2>2, <2>3 DEF From
<1>4. part = before \o after
    BY DEF CandidatesOf
<1>5. /\ Of(SubSeq(text, 1, at - 1)) \in Seq(ValueFor(comparator))
      /\ Of(From(text, at)) \in Seq(ValueFor(comparator))
    <2> HIDE DEF at, text
    <2> QED BY <1>3, ValuesOfComparator
<1>6. ASSUME NEW values \in Seq(ValueFor(comparator)), NEW correction \in BOOLEAN
      PROVE  /\ Candidates(s, correction, values) \in Seq(Candidate(comparator))
             /\ \A i \in DOMAIN Candidates(s, correction, values) :
                    /\ Candidates(s, correction, values)[i].segment = s
                    /\ Candidates(s, correction, values)[i].correction = correction
    <2> DEFINE n == Len(values)
               c == Candidates(s, correction, values)
    <2>1. n \in Nat /\ DOMAIN values = 1..n
        BY LenProperties
    <2>2. c = [i \in 1..n |-> [segment |-> s, value |-> values[i],
                               correction |-> correction]]
        BY <2>1 DEF Candidates
    <2>3. \A i \in 1..n : values[i] \in ValueFor(comparator)
        BY <2>1
    <2>4. \A i \in 1..n : c[i] \in Candidate(comparator)
        BY <2>2, <2>3 DEF Candidate
    <2> HIDE DEF n, c
    <2>5. c \in Seq(Candidate(comparator)) /\ DOMAIN c = 1..n
        BY <2>1, <2>2, <2>4
    <2>6. \A i \in DOMAIN c : c[i].segment = s /\ c[i].correction = correction
        BY <2>2, <2>5
    <2> QED BY <2>5, <2>6 DEF c
<1>7. /\ before \in Seq(Candidate(comparator))
      /\ \A i \in DOMAIN before : before[i].segment = s /\ ~before[i].correction
    <2> HIDE DEF at, text, Of
    <2> QED BY <1>5, <1>6
<1>8. /\ after \in Seq(Candidate(comparator))
      /\ \A i \in DOMAIN after : after[i].segment = s /\ after[i].correction
    <2> HIDE DEF at, text, Of
    <2> QED BY <1>5, <1>6
<1> HIDE DEF before, after, part
<1> DEFINE b == Len(before)
           n == Len(before) + Len(after)
<1>9. /\ b \in Nat /\ Len(after) \in Nat /\ DOMAIN before = 1..b
      /\ DOMAIN after = 1..Len(after)
    BY <1>7, <1>8, LenProperties
<1>10. /\ part \in Seq(Candidate(comparator)) /\ DOMAIN part = 1..n
       /\ \A i \in 1..n : part[i] = IF i <= b THEN before[i] ELSE after[i - b]
    <2>1. part \in Seq(Candidate(comparator)) /\ Len(part) = n
        BY <1>4, <1>7, <1>8, ConcatProperties
    <2>2. DOMAIN part = 1..n
        BY <2>1, LenProperties
    <2> QED BY <1>4, <1>7, <1>8, <2>1, <2>2, ConcatProperties
<1>11. ASSUME NEW i \in 1..n
       PROVE  /\ part[i].segment = s
              /\ part[i].correction <=> i > b
    <2>1. CASE i <= b
        <3>1. i \in DOMAIN before /\ ~(i > b)
            BY <1>9, <2>1
        <3> QED BY <1>7, <1>10, <2>1, <3>1
    <2>2. CASE ~(i <= b)
        <3>1. i - b \in DOMAIN after /\ i > b
            BY <1>9, <2>2
        <3> QED BY <1>8, <1>10, <2>2, <3>1
    <2> QED BY <2>1, <2>2
<1> HIDE DEF n, b
<1>12. \A i, j \in 1..n : i < j /\ i > b => j > b
    BY <1>9 DEF n
<1> QED BY <1>10, <1>11, <1>12 DEF Ordered, part

---------------------------------------------------------------------------
(* Lists one after another *)

Joined(parts) == FoldLeft(Extended, <<>>, parts)

\* Extending a list by some lists, one after another.
LEMMA JoinRuns ==
    ASSUME NEW parts, NEW n \in Nat, DOMAIN parts = 1..n
    PROVE  \E run : /\ run[0] = <<>>
                    /\ \A k \in 1..n : run[k] = run[k - 1] \o parts[k]
                    /\ Joined(parts) = run[n]
<1>1. Extending!FoldedLeft(<<>>, parts) = Joined(parts)
    BY DEF Joined, Extending!FoldedLeft, FoldLeft, MapThenFoldSet, Extending!FoldLeft,
           Extending!MapThenFoldSet, Max, Extending!Max
<1>2. \E run : Extending!RunsThrough(run, <<>>, parts, n)
                 /\ Extending!FoldedLeft(<<>>, parts) = run[n]
    BY Extending!FoldLeftRuns
<1>3. PICK run : Extending!RunsThrough(run, <<>>, parts, n)
                   /\ Extending!FoldedLeft(<<>>, parts) = run[n]
    BY <1>2
<1>4. run[0] = <<>> /\ \A k \in 1..n : run[k] = Extended(run[k - 1], parts[k])
    BY <1>3 DEF Extending!RunsThrough
<1>5. \A k \in 1..n : run[k] = run[k - 1] \o parts[k]
    BY <1>4 DEF Extended
<1> QED BY <1>1, <1>3, <1>4, <1>5

\* A list is the first n parts one after another: at k it has what is at
\* place[k] of the part block[k].
Joins(list, block, place, parts, n, S) ==
    /\ list \in Seq(S)
    /\ \A k \in DOMAIN list :
            /\ block[k] \in 1..n /\ place[k] \in DOMAIN parts[block[k]]
            /\ list[k] = parts[block[k]][place[k]]
    /\ \A k, l \in DOMAIN list : k < l =>
            block[k] < block[l] \/ (block[k] = block[l] /\ place[k] < place[l])
    /\ \A i \in 1..n : \A j \in DOMAIN parts[i] :
            \E k \in DOMAIN list : block[k] = i /\ place[k] = j

\* With a part more the list goes on with what is in it.
LEMMA JoinsMore ==
    ASSUME NEW S, NEW n \in Nat, NEW parts, NEW list, NEW block, NEW place,
           Joins(list, block, place, parts, n, S), parts[n + 1] \in Seq(S)
    PROVE  \E b, p : Joins(list \o parts[n + 1], b, p, parts, n + 1, S)
<1> DEFINE more == parts[n + 1]
           L == Len(list)
           M == Len(more)
           longer == list \o more
           b == [k \in 1..(L + M) |-> IF k <= L THEN block[k] ELSE n + 1]
           p == [k \in 1..(L + M) |-> IF k <= L THEN place[k] ELSE k - L]
<1>1. list \in Seq(S) /\ more \in Seq(S)
    BY DEF Joins
<1>2. L \in Nat /\ M \in Nat /\ DOMAIN list = 1..L /\ DOMAIN more = 1..M
    BY <1>1, LenProperties
<1>3. /\ longer \in Seq(S) /\ DOMAIN longer = 1..(L + M)
      /\ \A k \in 1..(L + M) : longer[k] = IF k <= L THEN list[k] ELSE more[k - L]
    <2>1. longer \in Seq(S) /\ Len(longer) = L + M
        BY <1>1, ConcatProperties
    <2>2. DOMAIN longer = 1..(L + M)
        BY <2>1, LenProperties
    <2> QED BY <1>1, <2>1, <2>2, ConcatProperties
<1>4. \A k \in 1..(L + M) :
        /\ k <= L => k \in 1..L /\ b[k] = block[k] /\ p[k] = place[k]
        /\ ~(k <= L) => k - L \in 1..M /\ b[k] = n + 1 /\ p[k] = k - L
    BY <1>2
<1> HIDE DEF longer, b, p
<1>5. ASSUME NEW k \in 1..(L + M)
      PROVE  /\ b[k] \in 1..(n + 1) /\ p[k] \in DOMAIN parts[b[k]]
             /\ longer[k] = parts[b[k]][p[k]]
    <2>1. CASE k <= L
        <3>1. k \in DOMAIN list /\ longer[k] = list[k] /\ b[k] = block[k] /\ p[k] = place[k]
            BY <1>2, <1>3, <1>4, <2>1
        <3>2. block[k] \in 1..n
            BY <3>1 DEF Joins
        <3>3. block[k] \in 1..(n + 1)
            BY <3>2
        <3> QED BY <3>1, <3>3 DEF Joins
    <2>2. CASE ~(k <= L)
        <3>1. k - L \in DOMAIN more /\ longer[k] = more[k - L] /\ b[k] = n + 1
                /\ p[k] = k - L
            BY <1>2, <1>3, <1>4, <2>2
        <3>2. n + 1 \in 1..(n + 1)
            OBVIOUS
        <3> QED BY <3>1, <3>2
    <2> QED BY <2>1, <2>2
<1>6. ASSUME NEW k \in 1..(L + M), NEW l \in 1..(L + M), k < l
      PROVE  b[k] < b[l] \/ (b[k] = b[l] /\ p[k] < p[l])
    <2>1. CASE l <= L
        <3>1. k <= L
            BY <1>2, <1>6, <2>1
        <3>2. k \in DOMAIN list /\ l \in DOMAIN list
            BY <1>2, <1>4, <2>1, <3>1
        <3>3. b[k] = block[k] /\ p[k] = place[k] /\ b[l] = block[l] /\ p[l] = place[l]
            BY <1>4, <2>1, <3>1
        <3> QED BY <1>6, <3>2, <3>3 DEF Joins
    <2>2. CASE k <= L /\ ~(l <= L)
        <3>1. k \in DOMAIN list /\ b[k] = block[k] /\ b[l] = n + 1
            BY <1>2, <1>4, <2>2
        <3>2. block[k] \in 1..n
            BY <3>1 DEF Joins
        <3> QED BY <3>1, <3>2
    <2>3. CASE ~(k <= L) /\ ~(l <= L)
        <3>1. b[k] = n + 1 /\ b[l] = n + 1 /\ p[k] = k - L /\ p[l] = l - L
            BY <1>4, <2>3
        <3>2. k - L < l - L
            BY <1>2, <1>6
        <3> QED BY <3>1, <3>2
    <2>4. l <= L => k <= L
        BY <1>2, <1>6
    <2> QED BY <2>1, <2>2, <2>3, <2>4
<1>7. ASSUME NEW i \in 1..(n + 1), NEW j \in DOMAIN parts[i]
      PROVE  \E k \in 1..(L + M) : b[k] = i /\ p[k] = j
    <2>1. CASE i = n + 1
        <3>1. j \in 1..M
            BY <1>2, <2>1
        <3> DEFINE k == L + j
        <3>2. k \in 1..(L + M) /\ ~(k <= L) /\ k - L = j
            BY <1>2, <3>1
        <3> HIDE DEF k
        <3>3. b[k] = i /\ p[k] = j
            BY <1>4, <2>1, <3>2
        <3> QED BY <3>2, <3>3
    <2>2. CASE i # n + 1
        <3>1. i \in 1..n
            BY <2>2
        <3>2. PICK k \in DOMAIN list : block[k] = i /\ place[k] = j
            BY <3>1 DEF Joins
        <3>3. k \in 1..(L + M) /\ k <= L
            BY <1>2, <3>2
        <3> QED BY <1>4, <3>2, <3>3
    <2> QED BY <2>1, <2>2
<1>8. Joins(longer, b, p, parts, n + 1, S)
    <2> DEFINE m == n + 1
    <2> HIDE DEF m, L, M
    <2>1. \A k \in DOMAIN longer :
            /\ b[k] \in 1..m /\ p[k] \in DOMAIN parts[b[k]]
            /\ longer[k] = parts[b[k]][p[k]]
        BY <1>3, <1>5 DEF m
    <2>2. \A k, l \in DOMAIN longer : k < l =>
            b[k] < b[l] \/ (b[k] = b[l] /\ p[k] < p[l])
        BY <1>3, <1>6
    <2>3. \A i \in 1..m : \A j \in DOMAIN parts[i] :
            \E k \in DOMAIN longer : b[k] = i /\ p[k] = j
        BY <1>3, <1>7 DEF m
    <2>4. Joins(longer, b, p, parts, m, S)
        BY <1>3, <2>1, <2>2, <2>3 DEF Joins
    <2> QED BY <2>4 DEF m
<1> QED BY <1>8 DEF longer

\* Lists one after another have what the lists have, in order.
LEMMA JoinedInOrder ==
    ASSUME NEW S, NEW n \in Nat, NEW parts, DOMAIN parts = 1..n,
           \A i \in 1..n : parts[i] \in Seq(S)
    PROVE  \E block, place : Joins(Joined(parts), block, place, parts, n, S)
<1>1. PICK run : /\ run[0] = <<>>
                 /\ \A k \in 1..n : run[k] = run[k - 1] \o parts[k]
                 /\ Joined(parts) = run[n]
    BY JoinRuns
<1> DEFINE Done == {m \in Nat : m <= n =>
                        \E block, place : Joins(run[m], block, place, parts, m, S)}
<1>2. 0 \in Done
    <2>1. run[0] \in Seq(S) /\ DOMAIN run[0] = {}
        BY <1>1
    <2>2. \A block, place : Joins(run[0], block, place, parts, 0, S)
        BY <2>1 DEF Joins
    <2> QED BY <2>2
<1>3. ASSUME NEW m \in Nat, m \in Done PROVE m + 1 \in Done
    <2>1. CASE m + 1 <= n
        <3>1. m <= n /\ m + 1 \in 1..n /\ m + 1 - 1 = m
            BY <2>1
        <3>2. \E block, place : Joins(run[m], block, place, parts, m, S)
            BY <1>3, <3>1
        <3>3. PICK block, place : Joins(run[m], block, place, parts, m, S)
            BY <3>2
        <3>4. run[m + 1] = run[m] \o parts[m + 1] /\ parts[m + 1] \in Seq(S)
            <4> DEFINE k == m + 1
            <4>1. k \in 1..n /\ k - 1 = m
                BY <3>1
            <4> HIDE DEF k
            <4>2. run[k] = run[k - 1] \o parts[k] /\ parts[k] \in Seq(S)
                BY <1>1, <4>1
            <4>3. run[k] = run[m] \o parts[k]
                BY <4>1, <4>2
            <4> QED BY <4>2, <4>3 DEF k
        <3>5. \E b, p : Joins(run[m] \o parts[m + 1], b, p, parts, m + 1, S)
            BY <3>3, <3>4, JoinsMore
        <3>6. \E b, p : Joins(run[m + 1], b, p, parts, m + 1, S)
            BY <3>4, <3>5
        <3> QED BY <3>6
    <2>2. CASE ~(m + 1 <= n)
        BY <2>2
    <2> QED BY <2>1, <2>2
<1> HIDE DEF Done
<1>4. Nat \subseteq Done
    BY <1>2, <1>3, Extending!NumberInduction
<1>5. n \in Done
    BY <1>4
<1>6. \E block, place : Joins(run[n], block, place, parts, n, S)
    BY <1>5 DEF Done
<1> QED BY <1>1, <1>6

\* The candidates of a scope: of its segments, in time, and what a segment
\* says after it has corrected itself is corrected again.
Gathered(candidates, scoped, comparator) ==
    /\ candidates \in Seq(Candidate(comparator))
    /\ \A c \in ToSet(candidates) : c.segment \in ToSet(scoped)
    /\ \A k, l \in DOMAIN candidates :
            k < l => candidates[k].segment.start <= candidates[l].segment.start
    /\ \A k, l \in DOMAIN candidates :
            /\ k < l /\ candidates[k].segment = candidates[l].segment
            /\ candidates[k].correction /\ ~candidates[l].correction
            => \E m \in DOMAIN candidates : l < m /\ candidates[m].correction

LEMMA CandidatesGathered ==
    ASSUME NEW call, NEW scoped, Following(scoped, call), NEW comparator, NEW params
    PROVE  Gathered(ExtractCandidates(comparator, scoped, params), scoped, comparator)
<1> DEFINE parts == [i \in DOMAIN scoped |-> CandidatesOf(scoped[i], comparator, params)]
           n == Len(scoped)
           list == ExtractCandidates(comparator, scoped, params)
<1>1. scoped \in Seq(Segment) /\ n \in Nat /\ DOMAIN scoped = 1..n
    BY LenProperties DEF Following
<1>2. \A i \in 1..n : scoped[i] \in Segment
    BY <1>1
<1>3. list = Joined(parts)
    BY DEF ExtractCandidates, Joined
<1>4. DOMAIN parts = 1..n /\ \A i \in 1..n : parts[i] = CandidatesOf(scoped[i], comparator, params)
    BY <1>1
<1> HIDE DEF parts, n, list
<1>5. \A i \in 1..n : Ordered(parts[i], scoped[i], comparator)
    BY <1>2, <1>4, CandidatesOrdered
<1>6. \A i \in 1..n : parts[i] \in Seq(Candidate(comparator))
    BY <1>5 DEF Ordered
<1>7. \E block, place : Joins(Joined(parts), block, place, parts, n, Candidate(comparator))
    BY <1>1, <1>4, <1>6, JoinedInOrder
<1>8. PICK block, place : Joins(list, block, place, parts, n, Candidate(comparator))
    BY <1>3, <1>7
<1>9. list \in Seq(Candidate(comparator))
    BY <1>8 DEF Joins
<1>10. ASSUME NEW k \in DOMAIN list
       PROVE  /\ block[k] \in 1..n /\ place[k] \in DOMAIN parts[block[k]]
              /\ list[k] = parts[block[k]][place[k]]
              /\ list[k].segment = scoped[block[k]]
              /\ k \in Int /\ place[k] \in Int /\ block[k] \in Int
    <2>1. /\ block[k] \in 1..n /\ place[k] \in DOMAIN parts[block[k]]
          /\ list[k] = parts[block[k]][place[k]]
        BY <1>8 DEF Joins
    <2>2. Ordered(parts[block[k]], scoped[block[k]], comparator)
        BY <1>5, <2>1
    <2>3. list[k].segment = scoped[block[k]]
        BY <2>1, <2>2 DEF Ordered
    <2>4. k \in Int
        BY <1>9, LenProperties
    <2>5. parts[block[k]] \in Seq(Candidate(comparator))
        BY <1>6, <2>1
    <2>6. place[k] \in Int
        BY <2>1, <2>5, LenProperties
    <2> QED BY <2>1, <2>3, <2>4, <2>6
<1>11. ASSUME NEW k \in DOMAIN list, NEW l \in DOMAIN list, k < l
       PROVE  block[k] < block[l] \/ (block[k] = block[l] /\ place[k] < place[l])
    BY <1>8, <1>11 DEF Joins
<1>12. \A c \in ToSet(list) : c.segment \in ToSet(scoped)
    <2> SUFFICES ASSUME NEW k \in DOMAIN list PROVE list[k].segment \in ToSet(scoped)
        BY DEF ToSet
    <2> QED BY <1>1, <1>10 DEF ToSet
<1>13. ASSUME NEW k \in DOMAIN list, NEW l \in DOMAIN list, k < l
       PROVE  list[k].segment.start <= list[l].segment.start
    <2>1. /\ block[k] \in 1..n /\ list[k].segment = scoped[block[k]]
          /\ block[l] \in 1..n /\ list[l].segment = scoped[block[l]]
        BY <1>10
    <2>2. CASE block[k] = block[l]
        <3>1. scoped[block[k]] \in Segment
            BY <1>2, <2>1
        <3>2. scoped[block[k]].start \in Nat
            BY <3>1 DEF Segment
        <3> QED BY <2>1, <2>2, <3>2
    <2>3. CASE block[k] < block[l]
        <3>1. scoped[block[k]].start <= scoped[block[l]].start
            BY <1>1, <2>1, <2>3 DEF Following
        <3> QED BY <2>1, <3>1
    <2> QED BY <1>11, <1>13, <2>2, <2>3
<1>14. ASSUME NEW k \in DOMAIN list, NEW l \in DOMAIN list, k < l,
              list[k].segment = list[l].segment,
              list[k].correction, ~list[l].correction
       PROVE  \E m \in DOMAIN list : l < m /\ list[m].correction
    <2> DEFINE i == block[k]
               j == block[l]
    <2>1. /\ i \in 1..n /\ place[k] \in DOMAIN parts[i] /\ place[k] \in Int
          /\ list[k] = parts[i][place[k]] /\ list[k].segment = scoped[i]
        BY <1>10
    <2>2. /\ j \in 1..n /\ place[l] \in DOMAIN parts[j] /\ place[l] \in Int
          /\ list[l] = parts[j][place[l]] /\ list[l].segment = scoped[j]
        BY <1>10
    <2> HIDE DEF i, j
    <2>3. parts[i] = parts[j]
        <3>1. scoped[i] = scoped[j]
            BY <1>14, <2>1, <2>2
        <3>2. /\ parts[i] = CandidatesOf(scoped[i], comparator, params)
              /\ parts[j] = CandidatesOf(scoped[j], comparator, params)
            BY <1>4, <2>1, <2>2
        <3> QED BY <3>1, <3>2
    <2>4. place[k] \in DOMAIN parts[j] /\ parts[j][place[k]].correction
        BY <1>14, <2>1, <2>3
    <2>5. ~parts[j][place[l]].correction
        BY <1>14, <2>2
    <2>6. place[l] < place[k]
        <3>1. Ordered(parts[j], scoped[j], comparator)
            BY <1>5, <2>2
        <3>2. ~(place[k] < place[l])
            BY <2>2, <2>4, <2>5, <3>1 DEF Ordered
        <3>3. place[k] # place[l]
            BY <2>4, <2>5
        <3> QED BY <2>1, <2>2, <3>2, <3>3
    <2>7. PICK m \in DOMAIN list : block[m] = j /\ place[m] = place[k]
        BY <1>8, <2>2, <2>4 DEF Joins
    <2>8. list[m].correction
        BY <1>10, <2>4, <2>7
    <2>9. l < m
        <3>1. m # l
            BY <2>1, <2>2, <2>6, <2>7
        <3>2. ~(m < l)
            <4> SUFFICES ASSUME m < l PROVE FALSE
                OBVIOUS
            <4>1. block[m] < block[l] \/ place[m] < place[l]
                BY <1>11
            <4>2. ~(block[m] < block[l])
                BY <2>2, <2>7 DEF j
            <4> QED BY <2>1, <2>2, <2>6, <2>7, <4>1, <4>2
        <3>3. m \in Int /\ l \in Int
            BY <1>10
        <3> QED BY <3>1, <3>2, <3>3
    <2> QED BY <2>8, <2>9
<1>15. Gathered(list, scoped, comparator)
    BY <1>9, <1>12, <1>13, <1>14 DEF Gathered
<1> QED BY <1>15 DEF list

---------------------------------------------------------------------------
(* Comparison *)

\* The values of a sequence of numbers have a greatest and a least; so do the
\* numbers given to the elements of a sequence.
LEMMA GreatestOf ==
    ASSUME NEW n \in Nat, n # 0, NEW f \in [1..n -> Int]
    PROVE  /\ Max({f[i] : i \in 1..n}) \in {f[i] : i \in 1..n}
           /\ \A i \in 1..n : f[i] <= Max({f[j] : j \in 1..n})
<1> DEFINE S == {f[i] : i \in 1..n}
<1>1. IsFiniteSet(S)
    <2>1. f \in Surjection(1..n, S)
        BY DEF Surjection
    <2>2. IsFiniteSet(1..n)
        BY FS_Interval
    <2> HIDE DEF S
    <2> QED BY <2>1, <2>2, FS_Surjection
<1>2. S \in SUBSET Int
    OBVIOUS
<1>3. 1 \in 1..n
    OBVIOUS
<1>4. f[1] \in S
    BY <1>3
<1>5. \A i \in 1..n : f[i] \in S
    OBVIOUS
<1> HIDE DEF S
<1>6. Extending!IsFiniteSet(S) /\ Extending!Max(S) = Max(S)
    BY <1>1, SameThere
<1>7. S # {}
    BY <1>4
<1>8. Extending!Max(S) \in S /\ \A x \in S : x <= Extending!Max(S)
    BY <1>1, <1>2, <1>6, <1>7, Extending!Extremes
<1>9. Max(S) \in S /\ \A i \in 1..n : f[i] <= Max(S)
    BY <1>5, <1>6, <1>8
<1> QED BY <1>9 DEF S

\* A likeness, and a similarity, is a percentage.
LEMMA AlikeIsPercent == \A v, w : Alike(v, w) \in 0..100
BY LikenessAssumption DEF Alike

LEMMA SimilarityIsPercent ==
    ASSUME NEW comparator, NEW expected, NEW params, NEW value \in ValueFor(comparator)
    PROVE  Similarity(comparator, expected, value, params) \in 0..100
<1>1. CASE comparator = "TEXT"
    <2>1. value \in Seq(STRING) /\ value # <<>>
        BY <1>1 DEF ValueFor
    <2> DEFINE n == Len(value)
               f == [i \in 1..n |-> Alike(expected, value[i])]
               S == {f[i] : i \in 1..n}
    <2>2. n \in Nat /\ n # 0 /\ DOMAIN value = 1..n
        BY <2>1, LenProperties, EmptySeq
    <2>3. f \in [1..n -> Int]
        <3>1. ASSUME NEW i \in 1..n PROVE Alike(expected, value[i]) \in Int
            <4>1. Alike(expected, value[i]) \in 0..100
                BY AlikeIsPercent
            <4>2. 0..100 \subseteq Int
                OBVIOUS
            <4> QED BY <4>1, <4>2
        <3> QED BY <3>1
    <2>4. Similarity(comparator, expected, value, params)
            = Max({Alike(expected, value[i]) : i \in DOMAIN value})
        BY <1>1 DEF Similarity, Numeric
    <2>5. {Alike(expected, value[i]) : i \in DOMAIN value} = S
        BY <2>2
    <2>6. S \subseteq 0..100
        <3>1. \A i \in 1..n : f[i] \in 0..100
            BY AlikeIsPercent
        <3> HIDE DEF f, n
        <3> QED BY <3>1
    <2> HIDE DEF f, n
    <2>7. Max(S) \in S
        BY <2>2, <2>3, GreatestOf
    <2> HIDE DEF S
    <2> QED BY <2>4, <2>5, <2>6, <2>7
<1>2. CASE comparator # "TEXT"
    <2>1. Similarity(comparator, expected, value, params)
            \in {0, 100, Alike(expected, value)}
        BY <1>2 DEF Similarity, Numeric
    <2>2. Alike(expected, value) \in 0..100
        BY AlikeIsPercent
    <2> QED BY <2>1, <2>2
<1> QED BY <1>1, <1>2

\* One of the closest is chosen.
LEMMA ChosenIsThere ==
    ASSUME NEW n \in Nat, n # 0, NEW f \in [1..n -> 0..100]
    PROVE  Chosen(f) \in 1..n
<1> DEFINE top == Max({f[i] : i \in 1..n})
           S == {i \in DOMAIN f : \A j \in DOMAIN f : f[j] <= f[i]}
<1>1. f \in [1..n -> Int] /\ DOMAIN f = 1..n
    <2>1. 0..100 \subseteq Int
        OBVIOUS
    <2> QED BY <2>1
<1>2. top \in {f[i] : i \in 1..n} /\ \A i \in 1..n : f[i] <= top
    BY <1>1, GreatestOf
<1> HIDE DEF top
<1>3. PICK i \in 1..n : f[i] = top
    BY <1>2
<1>4. i \in S
    BY <1>1, <1>2, <1>3
<1>5. S \in SUBSET (1..n)
    OBVIOUS
<1>6. Chosen(f) = Min(S)
    BY DEF Chosen
<1> HIDE DEF S
<1>7. IsFiniteSet(1..n)
    BY FS_Interval
<1>8. IsFiniteSet(S)
    BY <1>5, <1>7, FS_Subset
<1>9. S \in SUBSET Int /\ S # {}
    BY <1>4, <1>5
<1>10. Extending!IsFiniteSet(S) /\ Extending!Min(S) = Min(S)
    BY <1>8, SameThere
<1>11. Extending!Min(S) \in S
    BY <1>8, <1>9, <1>10, Extending!Extremes
<1> QED BY <1>5, <1>6, <1>10, <1>11

\* What stands: all values of a text, and otherwise what was not taken back.
LEMMA WhatStands ==
    ASSUME NEW comparator, NEW candidates \in Seq(Candidate(comparator)), NEW params
    PROVE  LET considered == Considered(candidates, comparator, params) IN
           /\ considered \in Seq(Candidate(comparator))
           /\ \A c : c \in ToSet(considered) <=>
                /\ c \in ToSet(candidates)
                /\ comparator # "TEXT" => ~Retracted(c, candidates, params)
<1>1. CASE comparator = "TEXT"
    BY <1>1 DEF Considered
<1>2. CASE comparator # "TEXT"
    <2> DEFINE kept == {i \in DOMAIN candidates : ~Retracted(candidates[i], candidates, params)}
               considered == Considered(candidates, comparator, params)
    <2>1. considered = Picked(candidates, Arranged(kept, Rising(kept)))
        BY <1>2 DEF Considered, Filtered
    <2>2. kept \in SUBSET (DOMAIN candidates)
        OBVIOUS
    <2>3. \A i \in DOMAIN candidates :
            i \in kept <=> ~Retracted(candidates[i], candidates, params)
        OBVIOUS
    <2> HIDE DEF considered, kept
    <2>4. considered \in Seq(Candidate(comparator))
            /\ ToSet(considered) = {candidates[i] : i \in kept}
        BY <2>1, <2>2, KeptElements
    <2>5. \A c : c \in ToSet(considered) <=>
            c \in ToSet(candidates) /\ ~Retracted(c, candidates, params)
        BY <2>2, <2>3, <2>4 DEF ToSet
    <2> QED BY <1>2, <2>4, <2>5 DEF considered
<1> QED BY <1>1, <1>2

\* Something stands: what takes others back is not taken back itself.
LEMMA SomethingStands ==
    ASSUME NEW comparator, NEW candidates \in Seq(Candidate(comparator)), NEW params,
           candidates # <<>>
    PROVE  Considered(candidates, comparator, params) # <<>>
<1> DEFINE considered == Considered(candidates, comparator, params)
<1>1. 1 \in DOMAIN candidates
    BY LenProperties, EmptySeq
<1>2. candidates[1] \in ToSet(candidates)
    BY <1>1 DEF ToSet
<1>3. \A c : Retracted(c, candidates, params) => Corrections(candidates) # {}
    BY DEF Retracted
<1>4. \A c \in Corrections(candidates) :
        c \in ToSet(candidates) /\ ~Retracted(c, candidates, params)
    BY DEF Retracted, Corrections
<1>5. \E c : c \in ToSet(candidates) /\ ~Retracted(c, candidates, params)
    <2>1. CASE Retracted(candidates[1], candidates, params)
        <3>1. Corrections(candidates) # {}
            BY <1>3, <2>1
        <3>2. PICK c \in Corrections(candidates) : TRUE
            BY <3>1
        <3> QED BY <1>4, <3>2
    <2>2. CASE ~Retracted(candidates[1], candidates, params)
        BY <1>2, <2>2
    <2> QED BY <2>1, <2>2
<1>6. PICK c : c \in ToSet(candidates) /\ ~Retracted(c, candidates, params)
    BY <1>5
<1>7. c \in ToSet(considered)
    BY <1>6, WhatStands
<1> HIDE DEF considered
<1>8. considered # <<>>
    BY <1>7 DEF ToSet
<1> QED BY <1>8 DEF considered

\* The evidence: what was taken back, the other statements, the chosen one.
ShownAs(evidence, comparator, candidates, considered, chosen, type, params) ==
    \A e : e \in ToSet(evidence) <=>
        \/ /\ comparator # "TEXT"
           /\ \E c \in ToSet(candidates) :
                Retracted(c, candidates, params) /\ e = Evidence(c, "CONTEXT")
        \/ /\ comparator # "TEXT"
           /\ \E c \in ToSet(considered) :
                ~SameStatement(comparator, c, chosen) /\ e = Evidence(c, "CONTEXT")
        \/ e = Evidence(chosen, type)

\* That is what is built.
LEMMA EvidenceIs ==
    ASSUME NEW comparator, NEW candidates \in Seq(Candidate(comparator)), NEW params,
           NEW considered \in Seq(Candidate(comparator)), NEW chosen, NEW type
    PROVE  ShownAs(BuildEvidence(comparator, candidates, considered, chosen, type, params),
                   comparator, candidates, considered, chosen, type, params)
<1> DEFINE back == {i \in DOMAIN candidates :
                        /\ comparator # "TEXT"
                        /\ Retracted(candidates[i], candidates, params)}
           retracted == Picked(candidates, Arranged(back, Rising(back)))
           other == {i \in DOMAIN considered : ~SameStatement(comparator, considered[i], chosen)}
           others == IF comparator = "TEXT" THEN <<>>
                     ELSE Picked(considered, Arranged(other, Rising(other)))
           context == retracted \o others
           shown == [i \in DOMAIN context |-> Evidence(context[i], "CONTEXT")]
           evidence == shown \o <<Evidence(chosen, type)>>
           C == Candidate(comparator)
<1>1. BuildEvidence(comparator, candidates, considered, chosen, type, params) = evidence
    BY DEF BuildEvidence, Filtered
<1>2. retracted \in Seq(C) /\ ToSet(retracted) = {candidates[i] : i \in back}
    <2> HIDE DEF back
    <2>1. back \in SUBSET (DOMAIN candidates)
        BY DEF back
    <2> QED BY <2>1, KeptElements
<1>3. others \in Seq(C) /\ (comparator = "TEXT" => others = <<>>)
        /\ (comparator # "TEXT" => ToSet(others) = {considered[i] : i \in other})
    <2>1. other \in SUBSET (DOMAIN considered)
        OBVIOUS
    <2> HIDE DEF other
    <2>2. /\ Picked(considered, Arranged(other, Rising(other))) \in Seq(C)
          /\ ToSet(Picked(considered, Arranged(other, Rising(other))))
                = {considered[i] : i \in other}
        BY <2>1, KeptElements
    <2>3. <<>> \in Seq(C)
        OBVIOUS
    <2> QED BY <2>2, <2>3
<1>4. \A i \in DOMAIN candidates : i \in back <=>
        comparator # "TEXT" /\ Retracted(candidates[i], candidates, params)
    OBVIOUS
<1>5. \A i \in DOMAIN considered : i \in other <=>
        ~SameStatement(comparator, considered[i], chosen)
    OBVIOUS
<1>6. back \in SUBSET (DOMAIN candidates) /\ other \in SUBSET (DOMAIN considered)
    OBVIOUS
<1> HIDE DEF retracted, others, back, other, C
<1>7. context \in Seq(C)
        /\ \A c : c \in ToSet(context) <=> c \in ToSet(retracted) \/ c \in ToSet(others)
    BY <1>2, <1>3, JoinedElements
<1> DEFINE E == {Evidence(c, "CONTEXT") : c \in C} \cup {Evidence(chosen, type)}
<1>8. shown \in Seq(E) /\ ToSet(shown) = {Evidence(c, "CONTEXT") : c \in ToSet(context)}
    <2> HIDE DEF context
    <2>1. Len(context) \in Nat /\ DOMAIN context = 1..Len(context)
        BY <1>7, LenProperties
    <2>2. \A i \in DOMAIN context : Evidence(context[i], "CONTEXT") \in E
        BY <1>7, <2>1
    <2> DEFINE n == Len(context)
    <2> HIDE DEF n, E
    <2>3. shown = [i \in 1..n |-> Evidence(context[i], "CONTEXT")]
        BY <2>1 DEF n
    <2>4. shown \in Seq(E)
        BY <2>1, <2>2, <2>3 DEF n
    <2>5. DOMAIN shown = DOMAIN context
        OBVIOUS
    <2>6. ToSet(shown) = {Evidence(c, "CONTEXT") : c \in ToSet(context)}
        BY DEF ToSet
    <2> QED BY <2>4, <2>6
<1>9. <<Evidence(chosen, type)>> \in Seq(E)
        /\ ToSet(<<Evidence(chosen, type)>>) = {Evidence(chosen, type)}
    BY DEF ToSet
<1> HIDE DEF E, shown
<1>10. \A e : e \in ToSet(evidence) <=>
         e \in ToSet(shown) \/ e = Evidence(chosen, type)
    BY <1>8, <1>9, JoinedElements
<1> HIDE DEF context, evidence
<1>11. \A c : c \in ToSet(retracted) <=>
         comparator # "TEXT" /\ c \in ToSet(candidates) /\ Retracted(c, candidates, params)
    BY <1>2, <1>4, <1>6 DEF ToSet
<1>12. \A c : c \in ToSet(others) <=>
         comparator # "TEXT" /\ c \in ToSet(considered)
            /\ ~SameStatement(comparator, c, chosen)
    <2>1. CASE comparator = "TEXT"
        BY <1>3, <2>1 DEF ToSet
    <2>2. CASE comparator # "TEXT"
        BY <1>3, <1>5, <1>6, <2>2 DEF ToSet
    <2> QED BY <2>1, <2>2
<1>13. \A e : e \in ToSet(evidence) <=>
         \/ \E c : c \in ToSet(context) /\ e = Evidence(c, "CONTEXT")
         \/ e = Evidence(chosen, type)
    BY <1>8, <1>10
<1>14. \A c : c \in ToSet(context) <=>
         \/ comparator # "TEXT" /\ c \in ToSet(candidates) /\ Retracted(c, candidates, params)
         \/ comparator # "TEXT" /\ c \in ToSet(considered)
                /\ ~SameStatement(comparator, c, chosen)
    BY <1>7, <1>11, <1>12
<1> QED BY <1>1, <1>13, <1>14 DEF ShownAs

---------------------------------------------------------------------------
(* The result of a factual check *)

\* The result if a candidate is the chosen one.
Verdicts(comparator, expected, candidates, params, chosen) ==
    LET considered == Considered(candidates, comparator, params)
        similarity == Similarity(comparator, expected, chosen.value, params)
    IN  Finalize(comparator, similarity,
            Competing(comparator, expected, considered, params),
            BuildEvidence(comparator, candidates, considered, chosen,
                IF similarity = 100 THEN "SUPPORTING" ELSE "CONTRADICTING", params),
            params)

\* A comparison chooses one of the candidates that stand.
LEMMA Compared ==
    ASSUME NEW comparator, NEW expected, NEW params,
           NEW candidates \in Seq(Candidate(comparator)), candidates # <<>>
    PROVE  \E chosen \in ToSet(Considered(candidates, comparator, params)) :
                Compare(comparator, expected, candidates,
                        Considered(candidates, comparator, params), params)
                    = Verdicts(comparator, expected, candidates, params, chosen)
<1> DEFINE considered == Considered(candidates, comparator, params)
           n == Len(considered)
           f == [i \in DOMAIN considered |->
                    Similarity(comparator, expected, considered[i].value, params)]
           best == Chosen(f)
<1>1. considered \in Seq(Candidate(comparator)) /\ considered # <<>>
    BY WhatStands, SomethingStands
<1> HIDE DEF considered
<1>2. n \in Nat /\ n # 0 /\ DOMAIN considered = 1..n
    BY <1>1, LenProperties, EmptySeq
<1>3. ASSUME NEW i \in 1..n
      PROVE  Similarity(comparator, expected, considered[i].value, params) \in 0..100
    <2>1. considered[i] \in Candidate(comparator)
        BY <1>1, <1>2
    <2>2. considered[i].value \in ValueFor(comparator)
        BY <2>1 DEF Candidate
    <2> QED BY <2>2, SimilarityIsPercent
<1>4. f \in [1..n -> 0..100]
    BY <1>2, <1>3
<1> HIDE DEF n
<1>5. best \in 1..n /\ DOMAIN f = 1..n
    <2> HIDE DEF f
    <2> QED BY <1>2, <1>4, ChosenIsThere
<1> HIDE DEF best
<1>6. f[best] = Similarity(comparator, expected, considered[best].value, params)
    BY <1>2, <1>5
<1>7. considered[best] \in ToSet(considered)
    BY <1>2, <1>5 DEF ToSet
<1>8. Compare(comparator, expected, candidates, considered, params)
        = Conclude(comparator, expected, candidates, considered, f, best, params)
    BY DEF Compare, best
<1> HIDE DEF f
<1>9. Compare(comparator, expected, candidates, considered, params)
        = Verdicts(comparator, expected, candidates, params, considered[best])
    BY <1>6, <1>8 DEF Conclude, Verdicts, considered
<1> QED BY <1>7, <1>9 DEF considered

\* The followed factual checks leave the outcome of a near miss to the evaluator.
LEMMA FactualFollowed ==
    ASSUME NEW check \in Followed, TypeOf(check) = "FACTUAL_MATCH"
    PROVE  /\ ParamsOf(check).nearMissOutcome = None
           /\ ParamsOf(check).correctionWindow = 30000
<1>1. check \in FollowedFactual
    <2>1. ASSUME NEW c \in FollowedScript PROVE TypeOf(c) = "VERBATIM"
        <3>1. /\ c \in DOMAIN ScriptWeight \cup DOMAIN TelcoScriptWeight
              /\ c \notin DOMAIN FactualWeight \cup DOMAIN TelcoFactualWeight
            BY DEF FollowedScript, ScriptWeight, TelcoScriptWeight,
                   FactualWeight, TelcoFactualWeight
        <3> QED BY <3>1 DEF TypeOf
    <2>2. ASSUME NEW c \in FollowedConduct PROVE TypeOf(c) = "BEHAVIOUR"
        BY DEF FollowedConduct, TypeOf, ScriptWeight, TelcoScriptWeight,
               FactualWeight, TelcoFactualWeight
    <2> QED BY <2>1, <2>2 DEF Followed
<1>2. ParamsOf(check) = FactualParams(check)
    BY DEF ParamsOf
<1>3. ASSUME NEW c \in FollowedFactual
      PROVE  FactualParams(c).nearMissOutcome = None
               /\ FactualParams(c).correctionWindow = 30000
    <2> DEFINE Left(k) == {"nearMissOutcome", "correctionWindow"}
                                  \cap DOMAIN FactualDeclared(k) = {}
    <2>1. Left("peak_rate")
        BY DEF FactualDeclared
    <2>2. Left("gift_card")
        BY DEF FactualDeclared
    <2>3. Left("telco_promo_price")
        BY DEF FactualDeclared
    <2>4. Left("email")
        BY DEF FactualDeclared
    <2>5. Left("nmi")
        BY DEF FactualDeclared
    <2>6. Left("supply_address")
        BY DEF FactualDeclared
    <2>7. Left("supply_charge")
        BY DEF FactualDeclared
    <2>8. Left("cooling_off_days")
        BY DEF FactualDeclared
    <2>9. Left("customer_name")
        BY DEF FactualDeclared
    <2>10. Left("move_in_date")
        BY DEF FactualDeclared
    <2>11. Left("dob")
        BY DEF FactualDeclared
    <2>12. Left("life_support_flag")
        BY DEF FactualDeclared
    <2> HIDE DEF Left
    <2>13. Left(c)
        BY <2>1, <2>2, <2>3, <2>4, <2>5, <2>6, <2>7, <2>8, <2>9, <2>10, <2>11, <2>12 DEF FollowedFactual
    <2>14. /\ {"nearMissOutcome", "correctionWindow"} \subseteq DOMAIN FactualDefaults
           /\ FactualDefaults["nearMissOutcome"] = None
           /\ FactualDefaults["correctionWindow"] = 30000
        BY DEF FactualDefaults
    <2> QED BY <2>13, <2>14 DEF Left, FactualParams, Completed
<1> QED BY <1>1, <1>2, <1>3

\* The result of the followed check, if it is a factual one: nothing to compare
\* with, nothing said, or what the comparison makes of one of the values that
\* stand; the values are those of the scope, in time.
FactualResult ==
    /\ input.call \in Seq(Segment)
    /\ \A s, t \in ToSet(input.call) : s.id = t.id => s = t
    /\ input.params.nearMissOutcome = None /\ input.params.correctionWindow = 30000
    /\ Following(Scoped0, input.call)
    /\ Gathered(Candidates0, Scoped0, Comparator0)
    /\ \/ result = Result("NOT_EVALUABLE", 0, "FACTUAL_EXPECTED_VALUE_UNRESOLVED", <<>>)
       \/ /\ Candidates0 = <<>>
          /\ result = Result("FAIL", 100, "VALUE_NOT_DISCLOSED", <<>>)
       \/ \E chosen \in ToSet(Considered(Candidates0, Comparator0, input.params)) :
            result = Verdicts(Comparator0, Expected0, Candidates0, input.params, chosen)

\* It follows from the invariant.
LEMMA FactualChecksAreJudged ==
    ASSUME EvaluationInv, Followable("FACTUAL_MATCH")
    PROVE  FactualResult
<1>1. pc = "evaluated" /\ TypeOf(input.check) = "FACTUAL_MATCH"
    BY DEF Followable
<1>2. input \in FollowedInput /\ result = Dispatch(input)
    BY <1>1 DEF EvaluationInv
<1>3. PICK check \in Followed : input \in InputsOf(check)
    BY <1>2 DEF FollowedInput
<1>4. PICK call \in CallsOf[check], record \in RecordsOf[check] :
        input = [check |-> check, params |-> ParamsOf(check), code |-> CodeOf(check),
                 call |-> call, record |-> record]
    BY <1>3 DEF InputsOf
<1>5. input.check = check /\ input.params = ParamsOf(check) /\ input.call = call
    BY <1>4
<1>6. input.call \in Seq(Segment) /\ \A s, t \in ToSet(input.call) : s.id = t.id => s = t
    <2>1. /\ call \in Seq(Segment)
          /\ \A i, j \in DOMAIN call : call[i].id = call[j].id => i = j
        BY CallsAssumption
    <2> QED BY <1>5, <2>1 DEF ToSet
<1>7. input.params.nearMissOutcome = None /\ input.params.correctionWindow = 30000
    BY <1>1, <1>5, FactualFollowed
<1>8. Following(Scoped0, input.call)
    BY <1>6, ScopeFollows DEF Scoped0
<1>9. Gathered(Candidates0, Scoped0, Comparator0)
    BY <1>8, CandidatesGathered DEF Candidates0
<1>10. result = Judge(Comparator0, Expected0, Candidates0, input.params)
    <2>1. result = EvaluateFactual(input, input.call, input.record)
        BY <1>1, <1>2 DEF Dispatch
    <2> QED BY <2>1 DEF EvaluateFactual, Comparator0, Expected0, Scoped0, Candidates0
<1>11. CASE Expected0 = None
    <2>1. result = Result("NOT_EVALUABLE", 0, "FACTUAL_EXPECTED_VALUE_UNRESOLVED", <<>>)
        BY <1>10, <1>11 DEF Judge
    <2> QED BY <1>6, <1>7, <1>8, <1>9, <2>1 DEF FactualResult
<1>12. CASE Expected0 # None /\ Candidates0 = <<>>
    <2>1. result = Result("FAIL", 100, "VALUE_NOT_DISCLOSED", <<>>)
        BY <1>10, <1>12 DEF Judge
    <2> QED BY <1>6, <1>7, <1>8, <1>9, <1>12, <2>1 DEF FactualResult
<1>13. CASE Expected0 # None /\ Candidates0 # <<>>
    <2>1. result = Compare(Comparator0, Expected0, Candidates0,
                        Considered(Candidates0, Comparator0, input.params), input.params)
        BY <1>10, <1>13 DEF Judge
    <2>2. Candidates0 \in Seq(Candidate(Comparator0))
        BY <1>9 DEF Gathered
    <2>3. \E chosen \in ToSet(Considered(Candidates0, Comparator0, input.params)) :
            result = Verdicts(Comparator0, Expected0, Candidates0, input.params, chosen)
        BY <1>13, <2>1, <2>2, Compared
    <2> QED BY <1>6, <1>7, <1>8, <1>9, <2>3 DEF FactualResult
<1> QED BY <1>11, <1>12, <1>13

\* The evidence of a comparison: what was taken back, what else stands, and the
\* chosen value, which alone supports or contradicts.
LEMMA VerdictsShow ==
    ASSUME NEW comparator, NEW expected, NEW params,
           NEW candidates \in Seq(Candidate(comparator)),
           NEW chosen \in ToSet(Considered(candidates, comparator, params))
    PROVE  LET verdict == Verdicts(comparator, expected, candidates, params, chosen)
               considered == Considered(candidates, comparator, params)
               similarity == Similarity(comparator, expected, chosen.value, params)
               type == IF similarity = 100 THEN "SUPPORTING" ELSE "CONTRADICTING"
           IN /\ chosen \in ToSet(candidates)
              /\ comparator # "TEXT" => ~Retracted(chosen, candidates, params)
              /\ ShownAs(verdict.evidence, comparator, candidates, considered, chosen,
                         type, params)
<1> DEFINE verdict == Verdicts(comparator, expected, candidates, params, chosen)
           considered == Considered(candidates, comparator, params)
           similarity == Similarity(comparator, expected, chosen.value, params)
           type == IF similarity = 100 THEN "SUPPORTING" ELSE "CONTRADICTING"
           evidence == BuildEvidence(comparator, candidates, considered, chosen, type, params)
<1>1. /\ considered \in Seq(Candidate(comparator))
      /\ \A c : c \in ToSet(considered) <=>
            /\ c \in ToSet(candidates)
            /\ comparator # "TEXT" => ~Retracted(c, candidates, params)
    BY WhatStands
<1>2. verdict.evidence = evidence
    <2>1. verdict = Finalize(comparator, similarity,
                        Competing(comparator, expected, considered, params),
                        evidence, params)
        BY DEF Verdicts
    <2> HIDE DEF verdict, evidence, similarity
    <2> QED BY <2>1 DEF Finalize, Result
<1> HIDE DEF considered, type
<1>3. ShownAs(evidence, comparator, candidates, considered, chosen, type, params)
    BY <1>1, EvidenceIs
<1> HIDE DEF evidence, verdict
<1>4. chosen \in ToSet(candidates) /\ (comparator # "TEXT" => ~Retracted(chosen, candidates, params))
    BY <1>1 DEF considered
<1> QED BY <1>2, <1>3, <1>4 DEF considered, type, verdict

\* A value taken back in the same breath does not confirm the record: the
\* supporting evidence is the chosen value, which was not taken back, and so is
\* itself a correction where its segment has one.
LEMMA ConfirmsLast ==
    ASSUME EvaluationInv, Followable("FACTUAL_MATCH"), Comparator0 # "TEXT",
           NEW e \in Supporting,
           NEW c \in Corrections(Candidates0), c.segment.id = e.segment
    PROVE  \E d \in Corrections(Candidates0) : d.segment.id = e.segment /\ Agrees(d.value)
<1>1. FactualResult
    BY FactualChecksAreJudged
<1>2. e \in ToSet(result.evidence) /\ e.type = "SUPPORTING"
    BY DEF Supporting
<1>3. PICK chosen \in ToSet(Considered(Candidates0, Comparator0, input.params)) :
        result = Verdicts(Comparator0, Expected0, Candidates0, input.params, chosen)
    <2>1. \A r : r.evidence = <<>> => ToSet(r.evidence) = {}
        BY DEF ToSet
    <2>2. result.evidence # <<>>
        BY <1>2, <2>1
    <2> QED BY <1>1, <2>2 DEF FactualResult, Result
<1> DEFINE considered == Considered(Candidates0, Comparator0, input.params)
           similarity == Similarity(Comparator0, Expected0, chosen.value, input.params)
           type == IF similarity = 100 THEN "SUPPORTING" ELSE "CONTRADICTING"
<1>4. Candidates0 \in Seq(Candidate(Comparator0))
    BY <1>1 DEF FactualResult, Gathered
<1>5. /\ chosen \in ToSet(Candidates0)
      /\ ~Retracted(chosen, Candidates0, input.params)
      /\ ShownAs(result.evidence, Comparator0, Candidates0, considered, chosen, type,
                 input.params)
    BY <1>3, <1>4, VerdictsShow
<1>6. e = Evidence(chosen, type)
    <2>1. \A d : Evidence(d, "CONTEXT").type = "CONTEXT"
        BY DEF Evidence
    <2> HIDE DEF type, considered
    <2> QED BY <1>2, <1>5, <2>1 DEF ShownAs
<1>7. similarity = 100 /\ e.segment = chosen.segment.id
    BY <1>2, <1>6 DEF Evidence
<1>8. chosen.correction
    BY <1>5, <1>7 DEF Retracted
<1>9. chosen \in Corrections(Candidates0)
    BY <1>5, <1>8 DEF Corrections
<1>10. Agrees(chosen.value)
    BY <1>7 DEF Agrees
<1> QED BY <1>7, <1>9, <1>10

\* Nothing that was corrected confirms the record: values taken back in the
\* segment they were said in do not support a check (TakenBackIsNotConfirmed).
THEOREM CorrectedValuesDoNotConfirm == Spec => []TakenBackIsNotConfirmed
<1>1. EvaluationInv => TakenBackIsNotConfirmed
    <2> SUFFICES ASSUME EvaluationInv, Followable("FACTUAL_MATCH"), Comparator0 # "TEXT",
                        NEW e \in Supporting,
                        {c \in Corrections(Candidates0) : c.segment.id = e.segment} # {}
                 PROVE  \E c \in {c \in Corrections(Candidates0) :
                                    c.segment.id = e.segment} : Agrees(c.value)
        BY DEF TakenBackIsNotConfirmed
    <2>1. PICK c \in Corrections(Candidates0) : c.segment.id = e.segment
        OBVIOUS
    <2> QED BY <2>1, ConfirmsLast
<1> QED BY <1>1, ResultsAreOfTheirInputs, PTL

\* Every value in scope is in the evidence: as taken back, as another statement,
\* or with the chosen one.
LEMMA AllSaidIsShown ==
    ASSUME EvaluationInv, Followable("FACTUAL_MATCH"), Comparator0 # "TEXT",
           result.outcome \in {"PASS", "FAIL", "AMBIGUOUS"},
           NEW c \in ToSet(Candidates0)
    PROVE  \E e \in ToSet(result.evidence) :
                /\ e.segment = c.segment.id
                /\ IF Comparator0 \in Numeric
                   THEN Amount(e.value) = Amount(c.value) ELSE e.value = c.value
<1>1. FactualResult
    BY FactualChecksAreJudged
<1>2. PICK chosen \in ToSet(Considered(Candidates0, Comparator0, input.params)) :
        result = Verdicts(Comparator0, Expected0, Candidates0, input.params, chosen)
    <2>1. Candidates0 # <<>>
        BY DEF ToSet
    <2>2. \A n, r, e : Result("NOT_EVALUABLE", n, r, e).outcome = "NOT_EVALUABLE"
        BY DEF Result
    <2> QED BY <1>1, <2>1, <2>2 DEF FactualResult
<1> DEFINE considered == Considered(Candidates0, Comparator0, input.params)
           similarity == Similarity(Comparator0, Expected0, chosen.value, input.params)
           type == IF similarity = 100 THEN "SUPPORTING" ELSE "CONTRADICTING"
<1>3. Candidates0 \in Seq(Candidate(Comparator0))
    BY <1>1 DEF FactualResult, Gathered
<1>4. ShownAs(result.evidence, Comparator0, Candidates0, considered, chosen, type,
              input.params)
    BY <1>2, <1>3, VerdictsShow
<1>5. c \in ToSet(considered) <=> ~Retracted(c, Candidates0, input.params)
    BY <1>3, WhatStands
<1>6. \A d, t : Evidence(d, t).segment = d.segment.id /\ Evidence(d, t).value = d.value
    BY DEF Evidence
<1> HIDE DEF considered, type
<1>7. CASE Evidence(c, "CONTEXT") \in ToSet(result.evidence)
    BY <1>6, <1>7
<1>8. CASE SameStatement(Comparator0, c, chosen)
    <2>1. Evidence(chosen, type) \in ToSet(result.evidence)
        BY <1>4 DEF ShownAs
    <2> QED BY <1>6, <1>8, <2>1 DEF SameStatement
<1>9. ASSUME ~SameStatement(Comparator0, c, chosen)
      PROVE  Evidence(c, "CONTEXT") \in ToSet(result.evidence)
    BY <1>4, <1>5, <1>9 DEF ShownAs
<1> QED BY <1>7, <1>8, <1>9

\* What is cited of an answered question is an answer.
LEMMA CitedAnswers ==
    ASSUME EvaluationInv, Followable("FACTUAL_MATCH"), input.params.questions # {},
           NEW e \in ToSet(result.evidence)
    PROVE  \E s \in ToSet(input.call), q \in ToSet(input.call) :
                s.id = e.segment /\ Answers(s, q, input.call, input.params)
<1>1. FactualResult
    BY FactualChecksAreJudged
<1>2. PICK chosen \in ToSet(Considered(Candidates0, Comparator0, input.params)) :
        result = Verdicts(Comparator0, Expected0, Candidates0, input.params, chosen)
    <2>1. \A r : r.evidence = <<>> => ToSet(r.evidence) = {}
        BY DEF ToSet
    <2>2. result.evidence # <<>>
        BY <2>1
    <2> QED BY <1>1, <2>2 DEF FactualResult, Result
<1> DEFINE considered == Considered(Candidates0, Comparator0, input.params)
           similarity == Similarity(Comparator0, Expected0, chosen.value, input.params)
           type == IF similarity = 100 THEN "SUPPORTING" ELSE "CONTRADICTING"
           ordered == Sorted(input.call, Earliest)
<1>3. Candidates0 \in Seq(Candidate(Comparator0))
    BY <1>1 DEF FactualResult, Gathered
<1>4. /\ chosen \in ToSet(Candidates0)
      /\ ShownAs(result.evidence, Comparator0, Candidates0, considered, chosen, type,
                 input.params)
    BY <1>2, <1>3, VerdictsShow
<1>5. \A c \in ToSet(considered) : c \in ToSet(Candidates0)
    BY <1>3, WhatStands
<1> HIDE DEF considered, type
<1>6. \A d, t : Evidence(d, t).segment = d.segment.id
    BY DEF Evidence
<1>7. PICK c \in ToSet(Candidates0) : e.segment = c.segment.id
    <2>1. \E c \in ToSet(Candidates0) : \E t : e = Evidence(c, t)
        BY <1>4, <1>5 DEF ShownAs
    <2> QED BY <1>6, <2>1
<1>8. c.segment \in ToSet(Scoped0)
    BY <1>1 DEF FactualResult, Gathered
<1>9. Scoped0 = AnswersToQuestions(ordered, input.params)
    BY DEF Scoped0, ScopeSegments
<1>10. InTurn(ordered, input.call)
    BY <1>1, SegmentsInTurn DEF FactualResult
<1> HIDE DEF ordered
<1>11. \E q \in ToSet(input.call) : Answers(c.segment, q, input.call, input.params)
    BY <1>8, <1>9, <1>10, AnswersFollow
<1>12. c.segment \in ToSet(input.call)
    BY <1>1, <1>8 DEF FactualResult, Following
<1> QED BY <1>7, <1>11, <1>12

\* What a reviewer reads under a factual check is what decided it: every value
\* in scope, and of a question its answers (EvidenceTellsTheReason).
THEOREM EvidenceIsComplete == Spec => []EvidenceTellsTheReason
<1>1. EvaluationInv => NothingSaidIsHidden
    BY AllSaidIsShown DEF NothingSaidIsHidden
<1>2. EvaluationInv => AnswersBelongToQuestions
    BY CitedAnswers DEF AnswersBelongToQuestions, Answers
<1>3. EvaluationInv => EvidenceTellsTheReason
    BY <1>1, <1>2 DEF EvidenceTellsTheReason
<1> QED BY <1>3, ResultsAreOfTheirInputs, PTL

Latest(candidates) == Max({c.segment.start : c \in Corrections(candidates)})

\* What is taken back is no correction, and there is one in its segment or one
\* that begins when it has ended.
LEMMA RetractedIs ==
    ASSUME NEW c, NEW candidates, NEW params, Retracted(c, candidates, params)
    PROVE  /\ ~c.correction
           /\ Corrections(candidates) # {}
           /\ (\A d \in Corrections(candidates) : d.segment.id # c.segment.id)
                => Latest(candidates) - c.segment.end \in 0..params.correctionWindow
BY DEF Retracted, Latest

\* The latest of some corrections begins where one of them does.
LEMMA LatestIsThere ==
    ASSUME NEW comparator, NEW candidates \in Seq(Candidate(comparator)),
           Corrections(candidates) # {}
    PROVE  \E h \in DOMAIN candidates :
                /\ candidates[h].correction
                /\ candidates[h].segment.start = Latest(candidates)
<1> DEFINE n == Len(candidates)
           K == {i \in 1..n : candidates[i].correction}
           f == [i \in K |-> candidates[i].segment.start]
           S == {c.segment.start : c \in Corrections(candidates)}
<1>1. n \in Nat /\ DOMAIN candidates = 1..n
    BY LenProperties
<1>2. Corrections(candidates) = {candidates[i] : i \in K}
    BY <1>1 DEF Corrections, ToSet
<1>3. S = {f[i] : i \in K}
    <2>1. \A i \in K : f[i] = candidates[i].segment.start
        OBVIOUS
    <2>2. S = {candidates[i].segment.start : i \in K}
        <3> HIDE DEF K, f
        <3> QED BY <1>2
    <2> HIDE DEF S, f, K
    <2> QED BY <2>1, <2>2
<1>4. ASSUME NEW i \in K PROVE f[i] \in Int
    <2>1. candidates[i] \in Candidate(comparator)
        BY <1>1
    <2>2. candidates[i].segment.start \in Nat
        BY <2>1 DEF Candidate, Segment
    <2> QED BY <2>2
<1>5. IsFiniteSet(K)
    <2>1. IsFiniteSet(1..n) /\ K \in SUBSET (1..n)
        BY <1>1, FS_Interval
    <2> HIDE DEF K, n
    <2> QED BY <2>1, FS_Subset
<1>6. S \in SUBSET Int
    BY <1>3, <1>4
<1>7. f \in Surjection(K, S)
    <2> HIDE DEF S, K
    <2> QED BY <1>3 DEF Surjection
<1>8. S # {}
    OBVIOUS
<1> HIDE DEF S
<1>9. IsFiniteSet(S)
    <2> HIDE DEF K, f
    <2> QED BY <1>5, <1>7, FS_Surjection
<1>10. Extending!IsFiniteSet(S) /\ Extending!Max(S) = Max(S)
    BY <1>9, SameThere
<1>11. Max(S) \in S
    BY <1>6, <1>8, <1>9, <1>10, Extending!Extremes
<1>12. PICK h \in K : f[h] = Max(S)
    BY <1>3, <1>11
<1> QED BY <1>1, <1>12 DEF S, Latest

\* What is said from the last correction on is not taken back: a correction
\* after it in its segment, or one that begins when it has ended, would be later
\* than the last.
LEMMA SaidLastStands ==
    ASSUME NEW call \in Seq(Segment), \A s, t \in ToSet(call) : s.id = t.id => s = t,
           NEW scoped, Following(scoped, call), NEW comparator, NEW candidates,
           Gathered(candidates, scoped, comparator), NEW params,
           params.correctionWindow \in Nat, NEW c \in SaidLast(candidates)
    PROVE  c \in ToSet(candidates) /\ ~Retracted(c, candidates, params)
<1> DEFINE latest == Latest(candidates)
<1> HIDE DEF latest
<1>1. PICK k \in DOMAIN candidates :
        /\ c = candidates[k]
        /\ \A h \in DOMAIN candidates : candidates[h].correction => h <= k
    BY DEF SaidLast
<1>2. candidates \in Seq(Candidate(comparator))
    BY DEF Gathered
<1>3. Len(candidates) \in Nat /\ DOMAIN candidates = 1..Len(candidates)
    BY <1>2, LenProperties
<1>4. \A h \in DOMAIN candidates : candidates[h] \in Candidate(comparator) /\ h \in Int
    BY <1>2, <1>3
<1>5. c \in ToSet(candidates)
    BY <1>1 DEF ToSet
<1>6. ASSUME Retracted(c, candidates, params) PROVE FALSE
    <2>1. /\ ~c.correction
          /\ Corrections(candidates) # {}
          /\ (\A d \in Corrections(candidates) : d.segment.id # c.segment.id)
                => latest - c.segment.end \in 0..params.correctionWindow
        BY <1>6, RetractedIs DEF latest
    <2>2. ASSUME NEW d \in Corrections(candidates), d.segment.id = c.segment.id
          PROVE  FALSE
        <3>1. PICK h \in DOMAIN candidates : d = candidates[h] /\ candidates[h].correction
            BY DEF Corrections, ToSet
        <3>2. d \in ToSet(candidates)
            BY DEF Corrections
        <3>3. d.segment \in ToSet(call) /\ c.segment \in ToSet(call)
            BY <1>5, <3>2 DEF Gathered, Following
        <3>4. d.segment = c.segment
            BY <2>2, <3>3
        <3>5. h <= k /\ h # k
            BY <1>1, <2>1, <3>1
        <3>6. h < k
            BY <1>4, <3>1, <3>5
        <3>7. \E m \in DOMAIN candidates : k < m /\ candidates[m].correction
            BY <1>1, <2>1, <3>1, <3>4, <3>6 DEF Gathered
        <3> QED BY <1>1, <1>4, <3>7
    <2>3. ASSUME latest - c.segment.end \in 0..params.correctionWindow PROVE FALSE
        <3>1. PICK h \in DOMAIN candidates :
                candidates[h].correction /\ candidates[h].segment.start = latest
            BY <1>2, <2>1, LatestIsThere DEF latest
        <3>2. h <= k
            BY <1>1, <3>1
        <3>3. candidates[h].segment.start <= c.segment.start
            <4>1. CASE h = k
                <5>1. c \in Candidate(comparator)
                    BY <1>1, <1>4
                <5>2. c.segment.start \in Nat
                    BY <5>1 DEF Candidate, Segment
                <5> QED BY <1>1, <4>1, <5>2
            <4>2. CASE h < k
                BY <1>1, <3>1, <4>2 DEF Gathered
            <4> QED BY <1>4, <3>1, <3>2, <4>1, <4>2
        <3>4. candidates[h] \in Candidate(comparator) /\ c \in Candidate(comparator)
            BY <1>1, <1>4, <3>1
        <3>5. /\ latest \in Int /\ c.segment.start \in Int /\ c.segment.end \in Int
              /\ c.segment.start < c.segment.end
            BY <3>1, <3>4 DEF Candidate, Segment
        <3>6. latest <= c.segment.start
            BY <3>1, <3>3
        <3> QED BY <2>3, <3>5, <3>6
    <2> QED BY <2>1, <2>2, <2>3
<1> QED BY <1>5, <1>6

\* A pass that is certain has a single value, which agrees.
LEMMA CertainPass ==
    ASSUME NEW comparator, comparator # "TEXT", NEW expected, NEW params,
           params.nearMissOutcome = None,
           NEW candidates \in Seq(Candidate(comparator)),
           NEW chosen \in ToSet(Considered(candidates, comparator, params)),
           Verdicts(comparator, expected, candidates, params, chosen).outcome = "PASS",
           Verdicts(comparator, expected, candidates, params, chosen).confidence >= 80
    PROVE  /\ Similarity(comparator, expected, chosen.value, params) = 100
           /\ \A c \in ToSet(Considered(candidates, comparator, params)) :
                c.value = chosen.value
<1> DEFINE considered == Considered(candidates, comparator, params)
           similarity == Similarity(comparator, expected, chosen.value, params)
           values == {c.value : c \in ToSet(considered)}
           verdict == Verdicts(comparator, expected, candidates, params, chosen)
<1>1. PICK evidence : verdict = Finalize(comparator, similarity,
                            Competing(comparator, expected, considered, params),
                            evidence, params)
    BY DEF Verdicts
<1>2. Competing(comparator, expected, considered, params) = Cardinality(values)
    BY DEF Competing
<1> HIDE DEF verdict, similarity, considered, values
<1>3. similarity = 100 /\ Cardinality(values) = 1
    <2>1. NearMissOutcome(comparator, params) # "PASS"
        BY DEF NearMissOutcome
    <2>2. CASE similarity = 100
        <3>1. verdict.confidence = IF Cardinality(values) = 1 THEN 100 ELSE 75
            BY <1>1, <1>2, <2>2 DEF Finalize, Result
        <3>2. verdict.confidence >= 80
            BY DEF verdict
        <3> QED BY <2>2, <3>1, <3>2
    <2>3. CASE similarity # 100
        <3>1. verdict.outcome \in {NearMissOutcome(comparator, params), "FAIL"}
            BY <1>1, <2>3 DEF Finalize, Result
        <3> QED BY <2>1, <3>1 DEF verdict
    <2> QED BY <2>2, <2>3
<1>4. \A v, w \in values : v = w
    <2>1. considered \in Seq(Candidate(comparator))
        BY WhatStands DEF considered
    <2>2. IsFiniteSet(ToSet(considered))
        <3> DEFINE n == Len(considered)
        <3>1. n \in Nat /\ DOMAIN considered = 1..n
            BY <2>1, LenProperties
        <3>2. considered \in Surjection(1..n, ToSet(considered))
            BY <2>1, <3>1 DEF Surjection, ToSet
        <3> HIDE DEF n
        <3> QED BY <3>1, <3>2, FS_Interval, FS_Surjection
    <2>3. IsFiniteSet(values)
        <3> DEFINE f == [c \in ToSet(considered) |-> c.value]
        <3>1. f \in Surjection(ToSet(considered), values)
            BY DEF Surjection, values
        <3> HIDE DEF f
        <3> QED BY <2>2, <3>1, FS_Surjection
    <2>4. \E v : values = {v}
        BY <1>3, <2>3, FS_Singleton
    <2> QED BY <2>4
<1>5. \A c \in ToSet(considered) : c.value \in values
    BY DEF values
<1> QED BY <1>3, <1>4, <1>5 DEF considered, similarity

\* A sale that passes without a human is not contradicted by what was said last
\* (NoContradictionShips): that stands, and all that stands is one value, which
\* agrees.
THEOREM PassesAgreeWithWhatWasSaidLast == Spec => []NoContradictionShips
<1>1. EvaluationInv => NoContradictionShips
    <2> SUFFICES ASSUME EvaluationInv, Followable("FACTUAL_MATCH"), Comparator0 # "TEXT",
                        result.outcome = "PASS", result.confidence >= 80,
                        NEW c \in SaidLast(Candidates0)
                 PROVE  Agrees(c.value)
        BY DEF NoContradictionShips
    <2>1. FactualResult
        BY FactualChecksAreJudged
    <2>2. PICK chosen \in ToSet(Considered(Candidates0, Comparator0, input.params)) :
            result = Verdicts(Comparator0, Expected0, Candidates0, input.params, chosen)
        <3>1. /\ \A n, r, e : Result("NOT_EVALUABLE", n, r, e).outcome = "NOT_EVALUABLE"
              /\ \A n, r, e : Result("FAIL", n, r, e).outcome = "FAIL"
            BY DEF Result
        <3> QED BY <2>1, <3>1 DEF FactualResult
    <2>3. Candidates0 \in Seq(Candidate(Comparator0))
        BY <2>1 DEF FactualResult, Gathered
    <2>4. /\ Similarity(Comparator0, Expected0, chosen.value, input.params) = 100
          /\ \A d \in ToSet(Considered(Candidates0, Comparator0, input.params)) :
                d.value = chosen.value
        BY <2>1, <2>2, <2>3, CertainPass DEF FactualResult
    <2>5. c \in ToSet(Candidates0) /\ ~Retracted(c, Candidates0, input.params)
        BY <2>1, SaidLastStands DEF FactualResult
    <2>6. c \in ToSet(Considered(Candidates0, Comparator0, input.params))
        BY <2>3, <2>5, WhatStands
    <2> QED BY <2>4, <2>6 DEF Agrees
<1> QED BY <1>1, ResultsAreOfTheirInputs, PTL

---------------------------------------------------------------------------
(* Amounts in words *)

\* Words are folded into a sum.
Counting == INSTANCE FoldFacts WITH Step <- AddWord

Counted(sum, words) == FoldLeft(AddWord, sum, words)

At(total, current) == [total |-> total, current |-> current]

\* The words of numbers are of one kind each.
LEMMA WordKinds ==
    /\ \A w \in DOMAIN Units :
            w \notin DOMAIN Tens \cup {"hundred", "thousand", "and", "point", "dot"}
    /\ \A w \in DOMAIN Tens : w \notin {"hundred", "thousand", "and", "point", "dot"}
BY DEF Units, Tens

\* Every number below twenty, and every multiple of ten, has its word.
LEMMA UnitsAreNamed ==
    ASSUME NEW n \in 0..19
    PROVE  NameOf(n) \in DOMAIN Units /\ Units[NameOf(n)] = n
<1> DEFINE Named(k) == \E w \in DOMAIN Units \ {"oh"} : Units[w] = k
<1>1. Named(0) /\ Named(1) /\ Named(2) /\ Named(3) /\ Named(4)
    <2>1. /\ Units["zero"] = 0 /\ Units["one"] = 1 /\ Units["two"] = 2
          /\ Units["three"] = 3 /\ Units["four"] = 4
        BY DEF Units
    <2>2. {"zero", "one", "two", "three", "four"} \subseteq DOMAIN Units \ {"oh"}
        BY DEF Units
    <2> QED BY <2>1, <2>2
<1>2. Named(5) /\ Named(6) /\ Named(7) /\ Named(8) /\ Named(9)
    <2>1. /\ Units["five"] = 5 /\ Units["six"] = 6 /\ Units["seven"] = 7
          /\ Units["eight"] = 8 /\ Units["nine"] = 9
        BY DEF Units
    <2>2. {"five", "six", "seven", "eight", "nine"} \subseteq DOMAIN Units \ {"oh"}
        BY DEF Units
    <2> QED BY <2>1, <2>2
<1>3. Named(10) /\ Named(11) /\ Named(12) /\ Named(13) /\ Named(14)
    <2>1. /\ Units["ten"] = 10 /\ Units["eleven"] = 11 /\ Units["twelve"] = 12
          /\ Units["thirteen"] = 13 /\ Units["fourteen"] = 14
        BY DEF Units
    <2>2. {"ten", "eleven", "twelve", "thirteen", "fourteen"} \subseteq DOMAIN Units \ {"oh"}
        BY DEF Units
    <2> QED BY <2>1, <2>2
<1>4. Named(15) /\ Named(16) /\ Named(17) /\ Named(18) /\ Named(19)
    <2>1. /\ Units["fifteen"] = 15 /\ Units["sixteen"] = 16 /\ Units["seventeen"] = 17
          /\ Units["eighteen"] = 18 /\ Units["nineteen"] = 19
        BY DEF Units
    <2>2. {"fifteen", "sixteen", "seventeen", "eighteen", "nineteen"}
            \subseteq DOMAIN Units \ {"oh"}
        BY DEF Units
    <2> QED BY <2>1, <2>2
<1> HIDE DEF Named
<1>5. Named(n)
    <2>1. CASE n \in 0..9
        <3>1. n \in {0, 1, 2, 3, 4, 5, 6, 7, 8, 9}
            BY <2>1
        <3> QED BY <1>1, <1>2, <3>1
    <2>2. CASE n \in 10..19
        <3>1. n \in {10, 11, 12, 13, 14, 15, 16, 17, 18, 19}
            BY <2>2
        <3> QED BY <1>3, <1>4, <3>1
    <2> QED BY <2>1, <2>2
<1> QED BY <1>5 DEF Named, NameOf

LEMMA TensAreNamed ==
    ASSUME NEW n \in 2..9
    PROVE  NameOfTens(10 * n) \in DOMAIN Tens /\ Tens[NameOfTens(10 * n)] = 10 * n
<1> DEFINE Named(k) == \E w \in DOMAIN Tens \ {"fourty"} : Tens[w] = k
<1>1. /\ Tens["twenty"] = 20 /\ Tens["thirty"] = 30 /\ Tens["forty"] = 40
      /\ Tens["fifty"] = 50 /\ Tens["sixty"] = 60 /\ Tens["seventy"] = 70
      /\ Tens["eighty"] = 80 /\ Tens["ninety"] = 90
    BY DEF Tens
<1>2. {"twenty", "thirty", "forty", "fifty", "sixty", "seventy", "eighty", "ninety"}
        \subseteq DOMAIN Tens \ {"fourty"}
    BY DEF Tens
<1>3. \A k \in {20, 30, 40, 50, 60, 70, 80, 90} : Named(k)
    BY <1>1, <1>2
<1>4. 10 * n \in {20, 30, 40, 50, 60, 70, 80, 90}
    OBVIOUS
<1>5. Named(10 * n)
    <2> HIDE DEF Named
    <2> QED BY <1>3, <1>4
<1> QED BY <1>5 DEF NameOfTens

\* What each word does to what has been counted.
LEMMA UnitAdds ==
    ASSUME NEW total \in Nat, NEW current \in Nat, NEW w \in DOMAIN Units
    PROVE  AddWord(At(total, current), w) = At(total, current + Units[w])
<1> DEFINE sum == At(total, current)
<1>1. w # "and" /\ w \notin DOMAIN Tens /\ w # "hundred" /\ w # "thousand"
    BY WordKinds
<1>2. AddWord(sum, w) = [sum EXCEPT !.current = @ + Units[w]]
    BY <1>1 DEF AddWord
<1> QED BY <1>2 DEF At

LEMMA TensAdd ==
    ASSUME NEW total \in Nat, NEW current \in Nat, NEW w \in DOMAIN Tens
    PROVE  AddWord(At(total, current), w) = At(total, current + Tens[w])
<1> DEFINE sum == At(total, current)
<1>1. w # "and" /\ w \notin DOMAIN Units /\ w # "hundred" /\ w # "thousand"
    BY WordKinds
<1>2. AddWord(sum, w) = [sum EXCEPT !.current = @ + Tens[w]]
    BY <1>1 DEF AddWord
<1> QED BY <1>2 DEF At

LEMMA OtherWordsScale ==
    ASSUME NEW total \in Nat, NEW current \in Nat
    PROVE  /\ AddWord(At(total, current), "and") = At(total, current)
           /\ current > 0 =>
                /\ AddWord(At(total, current), "hundred") = At(total, current * 100)
                /\ AddWord(At(total, current), "thousand") = At(total + current * 1000, 0)
<1> DEFINE sum == At(total, current)
<1>1. sum.total = total /\ sum.current = current
    BY DEF At
<1>2. {"and", "hundred", "thousand"} \cap (DOMAIN Units \cup DOMAIN Tens) = {}
    BY WordKinds
<1>3. AddWord(sum, "and") = sum
    <2> HIDE DEF sum
    <2> QED BY <1>2 DEF AddWord
<1>4. ASSUME current > 0
      PROVE  /\ AddWord(sum, "hundred") = At(total, current * 100)
             /\ AddWord(sum, "thousand") = At(total + current * 1000, 0)
    <2>1. Max({1, current}) = current
        BY <1>4 DEF Max
    <2>2. AddWord(sum, "hundred") = [sum EXCEPT !.current = Max({1, @}) * 100]
        BY <1>2 DEF AddWord
    <2>3. AddWord(sum, "thousand")
            = [total |-> sum.total + Max({1, sum.current}) * 1000, current |-> 0]
        BY <1>2 DEF AddWord
    <2>4. AddWord(sum, "hundred") = At(total, current * 100)
        BY <2>1, <2>2 DEF At
    <2>5. AddWord(sum, "thousand") = At(total + current * 1000, 0)
        BY <1>1, <2>1, <2>3 DEF At
    <2> QED BY <2>4, <2>5
<1> QED BY <1>3, <1>4

\* Counting goes on where the words before left off.
LEMMA CountingRuns ==
    ASSUME NEW S, NEW sum, NEW words \in Seq(S)
    PROVE  \E run : /\ run[0] = sum
                    /\ \A k \in 1..Len(words) : run[k] = AddWord(run[k - 1], words[k])
                    /\ Counted(sum, words) = run[Len(words)]
<1>1. Counting!FoldedLeft(sum, words) = Counted(sum, words)
    BY DEF Counted, Counting!FoldedLeft, FoldLeft, MapThenFoldSet, Counting!FoldLeft,
           Counting!MapThenFoldSet, Max, Counting!Max
<1>2. Len(words) \in Nat /\ DOMAIN words = 1..Len(words)
    BY LenProperties
<1>3. \E run : Counting!RunsThrough(run, sum, words, Len(words))
                 /\ Counting!FoldedLeft(sum, words) = run[Len(words)]
    BY <1>2, Counting!FoldLeftRuns
<1> QED BY <1>1, <1>3 DEF Counting!RunsThrough

\* Words after words are counted from where the first left off.
LEMMA CountsOn ==
    ASSUME NEW S, NEW sum, NEW first \in Seq(S), NEW second \in Seq(S)
    PROVE  Counted(sum, first \o second) = Counted(Counted(sum, first), second)
<1> DEFINE n == Len(first)
           m == Len(second)
           words == first \o second
<1>1. n \in Nat /\ m \in Nat
    BY LenProperties
<1>2. /\ words \in Seq(S) /\ Len(words) = n + m
      /\ \A k \in 1..n : words[k] = first[k]
      /\ \A k \in 1..m : words[n + k] = second[k]
    <2>1. words \in Seq(S) /\ Len(words) = n + m
        BY ConcatProperties
    <2>2. \A k \in 1..(n + m) : words[k] = IF k <= n THEN first[k] ELSE second[k - n]
        BY ConcatProperties
    <2> HIDE DEF words, n, m
    <2>3. \A k \in 1..n : k \in 1..(n + m) /\ k <= n
        BY <1>1
    <2>4. \A k \in 1..m : n + k \in 1..(n + m) /\ ~(n + k <= n) /\ (n + k) - n = k
        BY <1>1
    <2> QED BY <2>1, <2>2, <2>3, <2>4
<1> HIDE DEF words
<1>3. PICK all : /\ all[0] = sum
                 /\ \A k \in 1..(n + m) : all[k] = AddWord(all[k - 1], words[k])
                 /\ Counted(sum, words) = all[n + m]
    <2>1. \E all : /\ all[0] = sum
                   /\ \A k \in 1..Len(words) : all[k] = AddWord(all[k - 1], words[k])
                   /\ Counted(sum, words) = all[Len(words)]
        <3>1. words \in Seq(S)
            BY <1>2
        <3> QED BY <3>1, CountingRuns
    <2> QED BY <1>2, <2>1
<1>4. PICK one : /\ one[0] = sum
                 /\ \A k \in 1..n : one[k] = AddWord(one[k - 1], first[k])
                 /\ Counted(sum, first) = one[n]
    BY CountingRuns
<1>5. PICK two : /\ two[0] = Counted(sum, first)
                 /\ \A k \in 1..m : two[k] = AddWord(two[k - 1], second[k])
                 /\ Counted(Counted(sum, first), second) = two[m]
    BY CountingRuns
<1> HIDE DEF n, m
<1> DEFINE Begun == {k \in Nat : k <= n => all[k] = one[k]}
           Gone  == {k \in Nat : k <= m => all[n + k] = two[k]}
<1>6. 0 \in Begun
    BY <1>3, <1>4
<1>7. ASSUME NEW k \in Nat, k \in Begun PROVE k + 1 \in Begun
    <2> SUFFICES ASSUME k + 1 <= n PROVE all[k + 1] = one[k + 1]
        OBVIOUS
    <2>1. k + 1 \in 1..n /\ k + 1 \in 1..(n + m) /\ (k + 1) - 1 = k /\ k <= n
        BY <1>1
    <2>2. all[k] = one[k]
        BY <1>7, <2>1
    <2> HIDE DEF Begun, Gone
    <2> QED BY <1>2, <1>3, <1>4, <2>1, <2>2
<1>8. Nat \subseteq Begun
    <2> HIDE DEF Begun, Gone
    <2> QED BY <1>6, <1>7, Counting!NumberInduction
<1>9. 0 \in Gone
    <2>1. all[n] = one[n] /\ n + 0 = n
        BY <1>1, <1>8
    <2> QED BY <1>4, <1>5, <2>1
<1>10. ASSUME NEW k \in Nat, k \in Gone PROVE k + 1 \in Gone
    <2> SUFFICES ASSUME k + 1 <= m PROVE all[n + (k + 1)] = two[k + 1]
        OBVIOUS
    <2>1. /\ k + 1 \in 1..m /\ n + (k + 1) \in 1..(n + m) /\ (k + 1) - 1 = k
          /\ (n + (k + 1)) - 1 = n + k /\ k <= m
        BY <1>1
    <2>2. all[n + k] = two[k]
        BY <1>10, <2>1
    <2> HIDE DEF Begun, Gone
    <2> QED BY <1>2, <1>3, <1>5, <2>1, <2>2
<1>11. Nat \subseteq Gone
    <2> HIDE DEF Begun, Gone
    <2> QED BY <1>9, <1>10, Counting!NumberInduction
<1>12. all[n + m] = two[m]
    BY <1>1, <1>11
<1> QED BY <1>3, <1>5, <1>12 DEF words

\* Lists of one word and of none.
LEMMA Singleton ==
    ASSUME NEW S, NEW w \in S
    PROVE  <<w>> \in Seq(S) /\ Len(<<w>>) = 1 /\ <<w>>[1] = w
OBVIOUS

LEMMA CountsOne ==
    ASSUME NEW S, NEW sum, NEW w \in S
    PROVE  <<w>> \in Seq(S) /\ Counted(sum, <<w>>) = AddWord(sum, w)
<1>1. <<w>> \in Seq(S) /\ Len(<<w>>) = 1 /\ <<w>>[1] = w
    BY Singleton
<1> DEFINE words == <<w>>
<1> HIDE DEF words
<1>2. PICK run : /\ run[0] = sum
                 /\ \A k \in 1..Len(words) : run[k] = AddWord(run[k - 1], words[k])
                 /\ Counted(sum, words) = run[Len(words)]
    <2>1. words \in Seq(S)
        BY <1>1 DEF words
    <2> QED BY <2>1, CountingRuns
<1>3. Len(words) = 1 /\ words[1] = w
    BY <1>1 DEF words
<1>4. 1 \in 1..1 /\ 1 - 1 = 0
    OBVIOUS
<1>5. Counted(sum, words) = AddWord(sum, w)
    BY <1>2, <1>3, <1>4
<1> QED BY <1>1, <1>5 DEF words

LEMMA CountsNone ==
    ASSUME NEW S, NEW sum
    PROVE  <<>> \in Seq(S) /\ Counted(sum, <<>>) = sum
<1>1. <<>> \in Seq(S) /\ Len(<<>>) = 0
    OBVIOUS
<1> DEFINE words == <<>>
<1> HIDE DEF words
<1>2. words \in Seq(S) /\ Len(words) = 0
    BY <1>1 DEF words
<1>3. PICK run : run[0] = sum /\ Counted(sum, words) = run[Len(words)]
    <2>1. words \in Seq(S)
        BY <1>2
    <2> QED BY <2>1, CountingRuns
<1>4. Counted(sum, words) = sum
    BY <1>2, <1>3
<1> QED BY <1>1, <1>4 DEF words

\* The words whole numbers are said in.
WholeWords == NumberWords \ FractionMarkers

LEMMA WholeWordsAre ==
    /\ Quantity \subseteq WholeWords /\ {"and", "hundred", "thousand"} \subseteq WholeWords
    /\ DOMAIN Units \subseteq Quantity /\ DOMAIN Tens \subseteq Quantity
    /\ WholeWords \subseteq NumberWords /\ WholeWords \cap FractionMarkers = {}
    /\ "and" \notin Quantity
BY WordKinds DEF WholeWords, NumberWords, Quantity, FractionMarkers

\* A count goes from one sum to another over words that begin with a quantity.
Counts(from, words, to) ==
    /\ words \in Seq(WholeWords) /\ Len(words) > 0 /\ words[1] \in Quantity
    /\ Counted(from, words) = to

\* What one word adds, after words that were counted.
LEMMA CountsFurther ==
    ASSUME NEW from, NEW to, NEW first, Counts(from, first, to),
           NEW second \in Seq(WholeWords)
    PROVE  Counts(from, first \o second, Counted(to, second))
<1>1. first \in Seq(WholeWords) /\ Len(first) > 0 /\ first[1] \in Quantity
        /\ Counted(from, first) = to
    BY DEF Counts
<1>2. Counted(from, first \o second) = Counted(to, second)
    BY <1>1, CountsOn
<1>3. /\ first \o second \in Seq(WholeWords) /\ Len(first \o second) > 0
      /\ (first \o second)[1] = first[1]
    BY <1>1
<1> QED BY <1>1, <1>2, <1>3 DEF Counts

\* A word for a number below twenty, or for a multiple of ten, adds it.
LEMMA UnitCounts ==
    ASSUME NEW n \in 0..19, NEW total \in Nat, NEW current \in Nat
    PROVE  Counts(At(total, current), <<NameOf(n)>>, At(total, current + n))
<1> DEFINE w == NameOf(n)
<1>1. w \in DOMAIN Units /\ Units[w] = n
    BY UnitsAreNamed
<1> HIDE DEF w
<1>2. w \in WholeWords /\ w \in Quantity
    BY <1>1, WholeWordsAre
<1>3. AddWord(At(total, current), w) = At(total, current + n)
    <2>1. AddWord(At(total, current), w) = At(total, current + Units[w])
        BY <1>1, UnitAdds
    <2> QED BY <1>1, <2>1
<1>4. <<w>> \in Seq(WholeWords) /\ Len(<<w>>) = 1 /\ <<w>>[1] = w
    BY <1>2, Singleton
<1>5. Counted(At(total, current), <<w>>) = At(total, current + n)
    BY <1>2, <1>3, CountsOne
<1> QED BY <1>2, <1>4, <1>5 DEF Counts, w

LEMMA TensCount ==
    ASSUME NEW n \in 2..9, NEW total \in Nat, NEW current \in Nat
    PROVE  Counts(At(total, current), <<NameOfTens(10 * n)>>, At(total, current + 10 * n))
<1> DEFINE w == NameOfTens(10 * n)
<1>1. w \in DOMAIN Tens /\ Tens[w] = 10 * n
    BY TensAreNamed
<1> HIDE DEF w
<1>2. w \in WholeWords /\ w \in Quantity
    BY <1>1, WholeWordsAre
<1>3. AddWord(At(total, current), w) = At(total, current + 10 * n)
    <2>1. AddWord(At(total, current), w) = At(total, current + Tens[w])
        BY <1>1, TensAdd
    <2> QED BY <1>1, <2>1
<1>4. <<w>> \in Seq(WholeWords) /\ Len(<<w>>) = 1 /\ <<w>>[1] = w
    BY <1>2, Singleton
<1>5. Counted(At(total, current), <<w>>) = At(total, current + 10 * n)
    BY <1>2, <1>3, CountsOne
<1> QED BY <1>2, <1>4, <1>5 DEF Counts, w

\* What a word that is no quantity does between quantities.
LEMMA ScaleWordsCount ==
    /\ <<"and">> \in Seq(WholeWords) /\ <<"hundred">> \in Seq(WholeWords)
    /\ <<"thousand">> \in Seq(WholeWords)
    /\ \A total, current \in Nat :
        /\ Counted(At(total, current), <<"and">>) = At(total, current)
        /\ current > 0 =>
            /\ Counted(At(total, current), <<"hundred">>) = At(total, current * 100)
            /\ Counted(At(total, current), <<"thousand">>)
                    = At(total + current * 1000, 0)
<1>1. "and" \in WholeWords /\ "hundred" \in WholeWords /\ "thousand" \in WholeWords
    BY WholeWordsAre
<1>2. \A w \in WholeWords : <<w>> \in Seq(WholeWords)
    BY Singleton
<1>3. ASSUME NEW total \in Nat, NEW current \in Nat
      PROVE  /\ Counted(At(total, current), <<"and">>) = At(total, current)
             /\ current > 0 =>
                /\ Counted(At(total, current), <<"hundred">>) = At(total, current * 100)
                /\ Counted(At(total, current), <<"thousand">>)
                        = At(total + current * 1000, 0)
    <2>1. \A w \in WholeWords :
            Counted(At(total, current), <<w>>) = AddWord(At(total, current), w)
        BY CountsOne
    <2> QED BY <1>1, <2>1, OtherWordsScale
<1> QED BY <1>1, <1>2, <1>3

\* Numbers below a hundred, and below a thousand, said in words add themselves.
LEMMA Below100Counts ==
    ASSUME NEW n \in 0..99, NEW total \in Nat, NEW current \in Nat
    PROVE  Counts(At(total, current), Below100(n), At(total, current + n))
<1> DEFINE q == n \div 10
           r == n % 10
<1>1. q \in 0..9 /\ r \in 0..9 /\ n = 10 * q + r /\ (n >= 20 => q \in 2..9)
    OBVIOUS
<1>2. CASE n < 20
    <2>1. n \in 0..19
        BY <1>2
    <2> QED BY <1>2, <2>1, UnitCounts DEF Below100
<1>3. CASE n >= 20
    <2> DEFINE tens == <<NameOfTens(10 * q)>>
    <2>1. Below100(n) = tens \o (IF r = 0 THEN <<>> ELSE <<NameOf(r)>>)
        BY <1>3 DEF Below100
    <2> HIDE DEF q, r
    <2>2. Counts(At(total, current), tens, At(total, current + 10 * q))
        BY <1>1, <1>3, TensCount
    <2> HIDE DEF tens
    <2>3. CASE r = 0
        <3>1. tens \o <<>> = tens
            BY <2>2 DEF Counts
        <3> QED BY <1>1, <2>1, <2>2, <2>3, <3>1
    <2>4. CASE r # 0
        <3>1. r \in 0..19 /\ current + 10 * q \in Nat
            BY <1>1
        <3>2. Counts(At(total, current + 10 * q), <<NameOf(r)>>,
                     At(total, (current + 10 * q) + r))
            BY <3>1, UnitCounts
        <3>3. <<NameOf(r)>> \in Seq(WholeWords)
                /\ Counted(At(total, current + 10 * q), <<NameOf(r)>>)
                        = At(total, (current + 10 * q) + r)
            BY <3>2 DEF Counts
        <3>4. Counts(At(total, current), tens \o <<NameOf(r)>>,
                     At(total, (current + 10 * q) + r))
            BY <2>2, <3>3, CountsFurther
        <3>5. (current + 10 * q) + r = current + n
            BY <1>1
        <3> QED BY <2>1, <2>4, <3>4, <3>5
    <2> QED BY <2>3, <2>4
<1> QED BY <1>2, <1>3

LEMMA Below1000Counts ==
    ASSUME NEW n \in 0..999, NEW total \in Nat
    PROVE  Counts(At(total, 0), Below1000(n), At(total, n))
<1> DEFINE q == n \div 100
           r == n % 100
<1>1. q \in 0..9 /\ r \in 0..99 /\ n = 100 * q + r /\ (n >= 100 => q > 0)
    OBVIOUS
<1>2. CASE n < 100
    <2>1. n \in 0..99 /\ 0 + n = n
        BY <1>2
    <2>2. Counts(At(total, 0), Below100(n), At(total, 0 + n))
        BY <2>1, Below100Counts
    <2> QED BY <1>2, <2>1, <2>2 DEF Below1000
<1>3. CASE n >= 100
    <2> DEFINE digit == <<NameOf(q)>>
               hundreds == <<NameOf(q), "hundred">>
    <2>1. Below1000(n) = hundreds \o (IF r = 0 THEN <<>> ELSE <<"and">> \o Below100(r))
        BY <1>3 DEF Below1000
    <2>2. hundreds = digit \o <<"hundred">>
        OBVIOUS
    <2> HIDE DEF q, r, hundreds
    <2>3. Counts(At(total, 0), digit, At(total, q))
        <3>1. Counts(At(total, 0), digit, At(total, 0 + q))
            <4>1. q \in 0..19 /\ 0 \in Nat
                BY <1>1
            <4> QED BY <4>1, UnitCounts
        <3> QED BY <1>1, <3>1
    <2> HIDE DEF digit
    <2>4. Counts(At(total, 0), hundreds, At(total, q * 100))
        <3>1. q \in Nat /\ q > 0
            BY <1>1, <1>3
        <3>2. Counted(At(total, q), <<"hundred">>) = At(total, q * 100)
                /\ <<"hundred">> \in Seq(WholeWords)
            BY <3>1, ScaleWordsCount
        <3> QED BY <2>2, <2>3, <3>2, CountsFurther
    <2>5. CASE r = 0
        <3>1. hundreds \o <<>> = hundreds
            BY <2>4 DEF Counts
        <3>2. q * 100 = n
            BY <1>1, <2>5
        <3> QED BY <2>1, <2>4, <2>5, <3>1, <3>2
    <2>6. CASE r # 0
        <3>1. q * 100 \in Nat /\ q * 100 + r = n
            BY <1>1
        <3>2. <<"and">> \in Seq(WholeWords)
                /\ Counted(At(total, q * 100), <<"and">>) = At(total, q * 100)
            BY <3>1, ScaleWordsCount
        <3>3. Counts(At(total, q * 100), Below100(r), At(total, n))
            BY <1>1, <3>1, Below100Counts
        <3>4. Below100(r) \in Seq(WholeWords)
                /\ Counted(At(total, q * 100), Below100(r)) = At(total, n)
            BY <3>3 DEF Counts
        <3>5. <<"and">> \o Below100(r) \in Seq(WholeWords)
                /\ Counted(At(total, q * 100), <<"and">> \o Below100(r)) = At(total, n)
            <4> DEFINE joined == <<"and">>
            <4> HIDE DEF joined
            <4>1. joined \in Seq(WholeWords)
                    /\ Counted(At(total, q * 100), joined) = At(total, q * 100)
                BY <3>2 DEF joined
            <4>2. joined \o Below100(r) \in Seq(WholeWords)
                    /\ Counted(At(total, q * 100), joined \o Below100(r)) = At(total, n)
                BY <3>4, <4>1, CountsOn, ConcatProperties
            <4> QED BY <4>2 DEF joined
        <3> QED BY <2>1, <2>4, <2>6, <3>5, CountsFurther
    <2> QED BY <2>5, <2>6
<1> QED BY <1>2, <1>3

\* Whole numbers below a million said in words are counted to themselves.
LEMMA WholeNumbersCount ==
    ASSUME NEW n \in Sayable
    PROVE  /\ InWords(n) \in Seq(WholeWords) /\ Len(InWords(n)) > 0
           /\ InWords(n)[1] \in Quantity
           /\ WordsToInteger(InWords(n)) = n
<1> DEFINE q == n \div 1000
           r == n % 1000
<1>1. n \in Nat /\ q < 1000
    BY DEF Sayable
<1>2. n = 1000 * q + r /\ r \in 0..999 /\ q \in Nat
    BY ONLY <1>1
<1>3. q \in 0..999 /\ (n >= 1000 => q > 0)
    <2> HIDE DEF q, r
    <2> QED BY <1>1, <1>2
<1>4. \E total \in Nat, current \in Nat :
            Counts(At(0, 0), InWords(n), At(total, current)) /\ total + current = n
    <2>1. CASE n < 1000
        <3>1. n \in 0..999 /\ n \in Nat /\ 0 \in Nat /\ 0 + n = n
            BY <1>1, <2>1, SMT
        <3>2. Counts(At(0, 0), Below1000(n), At(0, n))
            BY ONLY <3>1, Below1000Counts
        <3>3. InWords(n) = Below1000(n)
            BY <2>1 DEF InWords
        <3> QED BY <3>1, <3>2, <3>3
    <2>2. CASE n >= 1000
        <3> DEFINE thousands == Below1000(q) \o <<"thousand">>
                   and == IF r < 100 THEN <<"and">> ELSE <<>>
        <3>1. InWords(n) = thousands \o (IF r = 0 THEN <<>> ELSE and \o Below1000(r))
            <4>1. ~(n < 1000)
                BY <1>1, <2>2
            <4> QED BY ONLY <4>1, Zenon DEF InWords
        <3> DEFINE up == q * 1000
        <3> HIDE DEF q, r
        <3>2. q \in Nat /\ q > 0 /\ up \in Nat /\ 0 + q * 1000 = up
                /\ up + r = n /\ r \in Nat /\ 0 \in Nat
            BY <1>1, <1>2, <1>3, <2>2, SMT
        <3> HIDE DEF up
        <3>3. Counts(At(0, 0), thousands, At(up, 0))
            <4>1. Counts(At(0, 0), Below1000(q), At(0, q))
                <5>1. q \in 0..999 /\ 0 \in Nat
                    BY <1>3
                <5> QED BY ONLY <5>1, Below1000Counts
            <4>2. <<"thousand">> \in Seq(WholeWords)
                    /\ Counted(At(0, q), <<"thousand">>) = At(0 + q * 1000, 0)
                BY <3>2, ScaleWordsCount
            <4>3. Counts(At(0, 0), thousands, At(0 + q * 1000, 0))
                <5> DEFINE scale == <<"thousand">>
                           said  == Below1000(q)
                           sum   == At(0 + q * 1000, 0)
                <5>1. thousands = said \o scale
                    OBVIOUS
                <5> HIDE DEF scale, said, sum, thousands
                <5>2. Counts(At(0, 0), said, At(0, q)) /\ scale \in Seq(WholeWords)
                        /\ Counted(At(0, q), scale) = sum
                    BY <4>1, <4>2 DEF scale, said, sum
                <5>3. Counts(At(0, 0), said \o scale, Counted(At(0, q), scale))
                    BY <5>2, CountsFurther
                <5> QED BY <5>1, <5>2, <5>3 DEF sum
            <4> QED BY <3>2, <4>3
        <3> HIDE DEF thousands
        <3>4. CASE r = 0
            <4>1. thousands \o <<>> = thousands
                BY <3>3 DEF Counts
            <4>2. up + 0 = n
                BY <3>2, <3>4
            <4> QED BY <3>1, <3>2, <3>3, <3>4, <4>1, <4>2
        <3>5. CASE r # 0
            <4>1. and \in Seq(WholeWords) /\ Counted(At(up, 0), and) = At(up, 0)
                <5>1. <<"and">> \in Seq(WholeWords)
                        /\ Counted(At(up, 0), <<"and">>) = At(up, 0)
                    BY <3>2, ScaleWordsCount
                <5>2. <<>> \in Seq(WholeWords)
                        /\ Counted(At(up, 0), <<>>) = At(up, 0)
                    BY CountsNone
                <5> QED BY <5>1, <5>2
            <4> HIDE DEF and
            <4>2. Counts(At(up, 0), Below1000(r), At(up, r))
                <5>1. r \in 0..999 /\ up \in Nat
                    BY <1>2, <3>2
                <5> QED BY ONLY <5>1, Below1000Counts
            <4>3. Below1000(r) \in Seq(WholeWords)
                    /\ Counted(At(up, 0), Below1000(r)) = At(up, r)
                BY <4>2 DEF Counts
            <4>4. and \o Below1000(r) \in Seq(WholeWords)
                    /\ Counted(At(up, 0), and \o Below1000(r)) = At(up, r)
                BY <4>1, <4>3, CountsOn
            <4> DEFINE rest == and \o Below1000(r)
            <4> HIDE DEF rest
            <4>5. Counts(At(0, 0), thousands \o rest, At(up, r))
                <5>1. rest \in Seq(WholeWords) /\ Counted(At(up, 0), rest) = At(up, r)
                    BY <4>4 DEF rest
                <5> QED BY <3>3, <5>1, CountsFurther
            <4> QED BY <3>1, <3>2, <3>5, <4>5 DEF rest
        <3> QED BY <3>4, <3>5
    <2>3. n < 1000 \/ n >= 1000
        BY <1>1
    <2> QED BY <2>1, <2>2, <2>3
<1>5. PICK total \in Nat, current \in Nat :
            Counts(At(0, 0), InWords(n), At(total, current)) /\ total + current = n
    BY <1>4
<1>6. WordsToInteger(InWords(n)) = n
    <2> DEFINE sum == FoldLeft(AddWord, [total |-> 0, current |-> 0], InWords(n))
    <2>1. WordsToInteger(InWords(n)) = sum.total + sum.current
        BY DEF WordsToInteger
    <2>2. sum = At(total, current)
        BY <1>5 DEF Counts, Counted, At
    <2> HIDE DEF sum
    <2> QED BY <1>5, <2>1, <2>2 DEF At
<1> QED BY <1>5, <1>6 DEF Counts

---------------------------------------------------------------------------
(* Amounts with digits after the point *)

\* Lists of one element each, one after another, are the list of the elements.
LEMMA SinglesFlatten ==
    ASSUME NEW S, NEW list \in Seq(S), Len(list) > 0
    PROVE  FlattenSeq([i \in 1..Len(list) |-> <<list[i]>>]) = list
<1> DEFINE n == Len(list)
           parts == [i \in 1..n |-> <<list[i]>>]
           D == 1..Len(parts)
           Eq(g) == g = [i \in D |-> IF i = 1 THEN parts[i] ELSE g[i - 1] \o parts[i]]
           flatten == CHOOSE g : Eq(g)
           Prefix(i) == SubSeq(list, 1, i)
           w == [i \in D |-> Prefix(i)]
<1>1. n \in Nat /\ n > 0
    BY LenProperties
<1>2. Len(parts) = n /\ D = 1..n
    BY <1>1
<1>3. FlattenSeq(parts) = flatten[n]
    <2>1. FlattenSeq(parts) = IF Len(parts) = 0 THEN parts ELSE flatten[Len(parts)]
        BY DEF FlattenSeq
    <2> HIDE DEF parts, flatten
    <2> QED BY <1>1, <1>2, <2>1
<1>4. \A i \in 1..n : parts[i] = <<list[i]>>
    OBVIOUS
<1> HIDE DEF n, parts
<1>5. ASSUME NEW i \in 1..n
      PROVE  /\ i = 1 => Prefix(i) = parts[i]
             /\ i # 1 => i - 1 \in 1..n /\ Prefix(i) = Prefix(i - 1) \o parts[i]
    <2>1. 1 \in 1..Len(list) /\ i \in 1..Len(list) /\ n = Len(list)
        BY <1>1 DEF n
    <2>2. Prefix(i) = Prefix(i - 1) \o <<list[i]>>
        BY <2>1, SubSeqRecursiveSecond
    <2>3. i = 1 => Prefix(i) = parts[i]
        <3>1. SubSeq(list, 1, 0) = <<>>
            BY SubSeqEmpty
        <3>2. <<>> \o <<list[1]>> = <<list[1]>>
            OBVIOUS
        <3> QED BY <1>4, <2>2, <3>1, <3>2
    <2>4. i # 1 => i - 1 \in 1..n
        BY <1>1
    <2> QED BY <1>4, <2>2, <2>3, <2>4
<1> HIDE DEF Prefix
<1>6. \A i \in 1..n : w[i] = Prefix(i)
    BY <1>2
<1>7. \A i \in D : w[i] = IF i = 1 THEN parts[i] ELSE w[i - 1] \o parts[i]
    <2> HIDE DEF w, D
    <2> QED BY <1>2, <1>5, <1>6
<1>8. Eq(w)
    BY <1>7
<1>9. Eq(flatten)
    <2> HIDE DEF Eq
    <2> QED BY <1>8
<1> HIDE DEF flatten
<1>10. \A i \in 1..n : flatten[i] = IF i = 1 THEN parts[i] ELSE flatten[i - 1] \o parts[i]
    BY <1>2, <1>9
<1> HIDE DEF Eq
<1> DEFINE Grown == {k \in Nat : k + 1 \in 1..n => flatten[k + 1] = Prefix(k + 1)}
<1>11. 0 \in Grown
    <2>1. 0 + 1 = 1
        OBVIOUS
    <2> QED BY <1>5, <1>10, <2>1
<1>12. ASSUME NEW k \in Nat, k \in Grown PROVE k + 1 \in Grown
    <2> SUFFICES ASSUME (k + 1) + 1 \in 1..n PROVE flatten[(k + 1) + 1] = Prefix((k + 1) + 1)
        OBVIOUS
    <2>1. k + 1 \in 1..n /\ ((k + 1) + 1) - 1 = k + 1 /\ (k + 1) + 1 # 1
        BY <1>1
    <2>2. flatten[k + 1] = Prefix(k + 1)
        BY <1>12, <2>1
    <2> DEFINE i == (k + 1) + 1
    <2>3. i \in 1..n /\ i # 1 /\ i - 1 = k + 1
        BY <2>1
    <2> HIDE DEF Grown, i
    <2>4. flatten[i] = flatten[i - 1] \o parts[i] /\ Prefix(i) = Prefix(i - 1) \o parts[i]
        BY <1>5, <1>10, <2>3
    <2>5. flatten[i] = Prefix(i)
        BY <2>2, <2>3, <2>4
    <2> QED BY <2>5 DEF i
<1>13. Nat \subseteq Grown
    <2> HIDE DEF Grown
    <2> QED BY <1>11, <1>12, Counting!NumberInduction
<1>14. flatten[n] = Prefix(n)
    <2>1. n - 1 \in Nat /\ (n - 1) + 1 = n /\ n \in 1..n
        BY <1>1
    <2>2. (n - 1) + 1 \in 1..n => flatten[(n - 1) + 1] = Prefix((n - 1) + 1)
        BY <1>13, <2>1
    <2> QED BY <2>1, <2>2
<1>15. Prefix(n) = list
    BY SubSeqFull DEF Prefix, n
<1> QED BY <1>3, <1>14, <1>15 DEF parts, n

\* A digit is said in one word, which contributes it alone.
LEMMA DigitsAreSaid ==
    ASSUME NEW d \in 0..9
    PROVE  /\ NameOf(d) \in WholeWords /\ IsFractionWord(NameOf(d))
           /\ FractionDigits(NameOf(d)) = <<d>>
<1> DEFINE w == NameOf(d)
<1>1. w \in DOMAIN Units /\ Units[w] = d
    BY UnitsAreNamed
<1> HIDE DEF w
<1>2. w \notin DOMAIN Tens
    BY <1>1, WordKinds
<1>3. w \in WholeWords
    BY <1>1, WholeWordsAre
<1>4. d <= 9
    OBVIOUS
<1> QED BY <1>1, <1>2, <1>3, <1>4 DEF IsFractionWord, FractionDigits, w

\* Digits said one by one are heard as they are.
LEMMA DigitsAreHeard ==
    ASSUME NEW fraction \in Seq(0..9), Len(fraction) > 0, NEW said,
           said = [i \in DOMAIN fraction |-> NameOf(fraction[i])]
    PROVE  /\ said \in Seq(WholeWords) /\ Len(said) = Len(fraction)
           /\ SpokenFraction(said).digits = fraction
<1> DEFINE n == Len(fraction)
           S == {k \in 0..Len(said) : \A i \in 1..k : IsFractionWord(said[i])}
<1>1. n \in Nat /\ n > 0 /\ DOMAIN fraction = 1..n
    BY LenProperties
<1>2. \A i \in 1..n : fraction[i] \in 0..9
    <2> HIDE DEF n
    <2> QED BY ElementOfSeq DEF n
<1>3. \A i \in 1..n : said[i] = NameOf(fraction[i])
    BY <1>1
<1>4. \A i \in 1..n : /\ said[i] \in WholeWords /\ IsFractionWord(said[i])
                      /\ FractionDigits(said[i]) = <<fraction[i]>>
    BY <1>2, <1>3, DigitsAreSaid
<1>5. said = [i \in 1..n |-> said[i]]
    BY <1>1
<1>6. said \in Seq(WholeWords) /\ Len(said) = n
    <2>1. said \in [1..n -> WholeWords]
        <3> HIDE DEF n
        <3> QED BY <1>4, <1>5
    <2>2. said \in Seq(WholeWords)
        BY <1>1, <2>1, SeqDef
    <2>3. DOMAIN said = 1..n /\ DOMAIN said = 1..Len(said) /\ Len(said) \in Nat
        BY <2>1, <2>2, LenProperties
    <2> QED BY <1>1, <2>2, <2>3
<1>7. Max(S) = n
    <2>1. S = 0..n
        <3> HIDE DEF n
        <3>1. \A k \in 0..n : \A i \in 1..k : i \in 1..n
            BY <1>1
        <3> QED BY <1>4, <1>6, <3>1
    <2> HIDE DEF S
    <2>2. 0 \in S /\ n \in S /\ S \in SUBSET (0..n)
        BY <1>1, <2>1
    <2> HIDE DEF n
    <2>3. Max(S) \in 0..n /\ n <= Max(S)
        BY <1>1, <2>2, LongestPrefix
    <2> QED BY <1>1, <2>3
<1>8. SpokenFraction(said).digits
        = FlattenSeq([i \in 1..Max(S) |-> FractionDigits(said[i])])
    BY DEF SpokenFraction, PrefixIn
<1> HIDE DEF S
<1>9. [i \in 1..Max(S) |-> FractionDigits(said[i])] = [i \in 1..n |-> <<fraction[i]>>]
    <2> HIDE DEF n
    <2> QED BY <1>4, <1>7
<1>10. FlattenSeq([i \in 1..n |-> <<fraction[i]>>]) = fraction
    BY SinglesFlatten
<1> QED BY <1>6, <1>8, <1>9, <1>10

LEMMA OneMark == ASSUME NEW n \in Int PROVE Min({n}) = n
BY DEF Min

\* An amount said in words is the number the words spell.
LEMMA AmountsAreSaid ==
    ASSUME NEW m \in Amounts
    PROVE  /\ SaidDecimal(m) \in Seq(NumberWords) /\ Len(SaidDecimal(m)) > 0
           /\ SaidDecimal(m)[1] \in Quantity
           /\ NumberOf(SaidDecimal(m)) = m
<1> DEFINE w == InWords(m.whole)
           n == Len(w)
           marks == {k \in DOMAIN SaidDecimal(m) : SaidDecimal(m)[k] \in FractionMarkers}
<1>1. /\ m.whole \in Sayable /\ m.fraction \in Seq(0..9)
      /\ m = [whole |-> m.whole, fraction |-> m.fraction]
    BY AmountsAssumption
<1>2. w \in Seq(WholeWords) /\ n > 0 /\ w[1] \in Quantity /\ WordsToInteger(w) = m.whole
    BY <1>1, WholeNumbersCount
<1>3. w \in Seq(NumberWords)
    BY <1>2, WholeWordsAre, SeqMonotonic
<1>4. n \in Nat /\ DOMAIN w = 1..n /\ \A k \in 1..n : w[k] \in WholeWords
    <2> HIDE DEF w
    <2> QED BY <1>2, LenProperties, ElementOfSeq
<1>5. \A k \in 1..n : w[k] \notin FractionMarkers
    BY <1>4, WholeWordsAre
<1>6. NumberOf(SaidDecimal(m)) =
        IF marks = {} THEN [whole |-> WordsToInteger(SaidDecimal(m)), fraction |-> <<>>]
        ELSE [whole    |-> WordsToInteger(SubSeq(SaidDecimal(m), 1, Min(marks) - 1)),
              fraction |-> SpokenFraction(From(SaidDecimal(m), Min(marks) + 1)).digits]
    BY DEF NumberOf
<1>7. CASE m.fraction = <<>>
    <2>1. SaidDecimal(m) = w \o <<>>
        BY <1>7 DEF SaidDecimal
    <2> HIDE DEF w
    <2>2. SaidDecimal(m) = w
        BY <1>2, <2>1, ConcatEmptySeq
    <2>3. marks = {}
        BY <1>4, <1>5, <2>2
    <2> QED BY <1>1, <1>2, <1>3, <1>6, <1>7, <2>2, <2>3
<1>8. CASE m.fraction # <<>>
    <2> DEFINE said == [i \in DOMAIN m.fraction |-> NameOf(m.fraction[i])]
               rest == <<"point">> \o said
               l == Len(said)
    <2>1. SaidDecimal(m) = w \o rest
        BY <1>8 DEF SaidDecimal
    <2>2. Len(m.fraction) > 0
        BY <1>1, <1>8, EmptySeq
    <2>3. said \in Seq(WholeWords) /\ SpokenFraction(said).digits = m.fraction
        BY <1>1, <2>2, DigitsAreHeard
    <2> HIDE DEF said, w
    <2>4. said \in Seq(NumberWords)
        BY <2>3, WholeWordsAre, SeqMonotonic
    <2>5. l \in Nat /\ \A k \in 1..l : said[k] \notin FractionMarkers
        BY <2>3, LenProperties, ElementOfSeq, WholeWordsAre
    <2>6. /\ rest \in Seq(NumberWords) /\ Len(rest) = 1 + l /\ rest[1] = "point"
          /\ \A k \in 1..l : rest[1 + k] = said[k]
        <3> DEFINE mark == <<"point">>
        <3>1. "point" \in NumberWords
            BY DEF NumberWords, FractionMarkers
        <3>2. mark \in Seq(NumberWords) /\ Len(mark) = 1 /\ mark[1] = "point"
            BY <3>1, Singleton
        <3> HIDE DEF mark
        <3>3. /\ mark \o said \in Seq(NumberWords) /\ Len(mark \o said) = 1 + l
              /\ \A k \in 1..(1 + l) :
                    (mark \o said)[k] = IF k <= 1 THEN mark[k] ELSE said[k - 1]
            <4>1. /\ mark \o said \in Seq(NumberWords)
                  /\ Len(mark \o said) = Len(mark) + Len(said)
                  /\ \A k \in 1..(Len(mark) + Len(said)) :
                        (mark \o said)[k] = IF k <= Len(mark) THEN mark[k] ELSE said[k - Len(mark)]
                BY <2>4, <3>2, ConcatProperties
            <4> QED BY <3>2, <4>1
        <3>4. 1 \in 1..(1 + l) /\ \A k \in 1..l : 1 + k \in 1..(1 + l) /\ ~(1 + k <= 1)
                /\ (1 + k) - 1 = k
            BY <2>5
        <3> QED BY <3>2, <3>3, <3>4 DEF mark
    <2> HIDE DEF rest
    <2> DEFINE all == w \o rest
    <2>7. /\ all \in Seq(NumberWords) /\ Len(all) = n + (1 + l)
          /\ \A k \in 1..n : all[k] = w[k]
          /\ \A k \in 1..(1 + l) : all[n + k] = rest[k]
        <3>1. /\ all \in Seq(NumberWords) /\ Len(all) = n + (1 + l)
              /\ \A k \in 1..(n + (1 + l)) : all[k] = IF k <= n THEN w[k] ELSE rest[k - n]
            BY <1>3, <2>6, ConcatProperties
        <3>2. \A k \in 1..n : k \in 1..(n + (1 + l)) /\ k <= n
            BY <1>4, <2>5
        <3>3. \A k \in 1..(1 + l) : n + k \in 1..(n + (1 + l)) /\ ~(n + k <= n)
                /\ (n + k) - n = k
            BY <1>4, <2>5
        <3> HIDE DEF n, all, l
        <3> QED BY <3>1, <3>2, <3>3
    <2> HIDE DEF all, n, l
    <2>8. all[n + 1] = "point" /\ \A k \in 1..l : all[n + (1 + k)] = said[k]
        <3>1. 1 \in 1..(1 + l) /\ \A k \in 1..l : 1 + k \in 1..(1 + l)
            BY <2>5
        <3> QED BY <2>6, <2>7, <3>1
    <2>9. DOMAIN all = 1..(n + (1 + l))
        BY <2>7, LenProperties
    <2>10. {k \in DOMAIN all : all[k] \in FractionMarkers} = {n + 1}
        <3>1. \A k \in 1..(n + (1 + l)) :
                k \in 1..n \/ k = n + 1 \/ (\E j \in 1..l : k = n + (1 + j))
            <4> SUFFICES ASSUME NEW k \in 1..(n + (1 + l)), k \notin 1..n, k # n + 1
                         PROVE  \E j \in 1..l : k = n + (1 + j)
                OBVIOUS
            <4>1. k - n - 1 \in 1..l /\ k = n + (1 + (k - n - 1))
                BY <1>4, <2>5
            <4> QED BY <4>1
        <3>2. \A k \in DOMAIN all : k # n + 1 => all[k] \notin FractionMarkers
            <4> SUFFICES ASSUME NEW k \in 1..(n + (1 + l)), k # n + 1
                         PROVE  all[k] \notin FractionMarkers
                BY <2>9
            <4>1. CASE k \in 1..n
                BY <1>5, <2>7, <4>1
            <4>2. CASE \E j \in 1..l : k = n + (1 + j)
                BY <2>5, <2>8, <4>2
            <4> QED BY <3>1, <4>1, <4>2
        <3>3. n + 1 \in DOMAIN all /\ all[n + 1] \in FractionMarkers
            <4>1. n + 1 \in 1..(n + (1 + l))
                BY <1>4, <2>5
            <4> QED BY <2>8, <2>9, <4>1 DEF FractionMarkers
        <3> QED BY <3>2, <3>3
    <2>11. marks = {n + 1} /\ Min(marks) = n + 1
        <3>1. n + 1 \in Int
            BY <1>4
        <3> QED BY <2>1, <2>10, <3>1, OneMark DEF all
    <2> HIDE DEF marks
    <2>12. SubSeq(all, 1, (n + 1) - 1) = w
        <3>1. (n + 1) - 1 = n /\ n <= Len(all) /\ 1 \in Nat \ {0} /\ (1 <= n) /\ n - 1 + 1 = n
            BY <1>2, <1>4, <2>5, <2>7 DEF n
        <3>2. /\ SubSeq(all, 1, n) \in Seq(NumberWords)
              /\ Len(SubSeq(all, 1, n)) = n
              /\ \A k \in 1..n : SubSeq(all, 1, n)[k] = all[1 + k - 1]
            BY <1>4, <2>7, <3>1, Part
        <3>3. \A k \in 1..n : 1 + k - 1 = k
            BY <1>4
        <3>4. \A k \in 1..n : SubSeq(all, 1, n)[k] = w[k]
            BY <2>7, <3>2, <3>3
        <3> QED BY <1>3, <3>1, <3>2, <3>4, SeqEqual DEF n
    <2>13. From(all, (n + 1) + 1) = said
        <3> DEFINE at == (n + 1) + 1
                   end == n + (1 + l)
                   tail == SubSeq(all, at, end)
        <3>1. /\ at \in Nat \ {0} /\ end \in Nat /\ end <= Len(all) /\ end - at + 1 = l
              /\ (at <= end <=> l > 0)
              /\ \A k \in 1..l : at + k - 1 = n + (1 + k)
            BY <1>4, <2>5, <2>7
        <3>2. From(all, at) = tail
            BY <2>7 DEF From
        <3> HIDE DEF at, end, tail
        <3>3. /\ tail \in Seq(NumberWords)
              /\ Len(tail) = IF at <= end THEN end - at + 1 ELSE 0
              /\ \A k \in 1..(end - at + 1) : tail[k] = all[at + k - 1]
            BY <2>7, <3>1, Part DEF tail
        <3>4. Len(tail) = l
            BY <2>5, <3>1, <3>3
        <3>5. \A k \in 1..l : tail[k] = said[k]
            BY <2>8, <3>1, <3>3
        <3>6. tail = said
            BY <2>4, <3>3, <3>4, <3>5, SeqEqual DEF l
        <3> QED BY <3>2, <3>6 DEF at
    <2>14. n + 1 \in marks
        BY <2>11
    <2>15. NumberOf(all) = [whole |-> WordsToInteger(w), fraction |-> SpokenFraction(said).digits]
        BY <1>6, <2>1, <2>11, <2>12, <2>13, <2>14 DEF all
    <2>16. Len(all) > 0 /\ all[1] = w[1]
        <3>1. 1 \in 1..n /\ n + (1 + l) > 0
            BY <1>2, <1>4, <2>5 DEF n
        <3> QED BY <2>7, <3>1
    <2> QED BY <1>1, <1>2, <2>1, <2>3, <2>7, <2>15, <2>16 DEF all
<1> QED BY <1>7, <1>8

---------------------------------------------------------------------------
(* Numbers are heard where they are said *)

\* What a number is made of.
Sounding == NumberWords \cup DOMAIN Numeral

\* The second begins as the first does, and where it goes on the first has
\* ended with a word of no number.
Like(first, second) ==
    /\ first \in Seq(STRING) /\ second \in Seq(STRING) /\ Len(first) <= Len(second)
    /\ \A k \in 1..Len(first) : first[k] = second[k]
    /\ \/ Len(first) = Len(second)
       \/ Len(first) > 0 /\ first[Len(first)] \notin Sounding

\* A part stands in a text after its first words, and ends where the text ends
\* or with a word of no number.
StandsIn(part, text, shift) ==
    /\ part \in Seq(STRING) /\ text \in Seq(STRING)
    /\ Len(part) + shift <= Len(text)
    /\ \A k \in 1..Len(part) : text[k + shift] = part[k]
    /\ \/ Len(part) + shift = Len(text)
       \/ Len(part) = 0
       \/ part[Len(part)] \notin Sounding

\* The prefixes whose words are all in a set.
PrefixesIn(words, G) == {n \in 0..Len(words) : \A k \in 1..n : words[k] \in G}

\* Of two such lists the prefixes made of number words are the same, and so are
\* the fractions they spell.
LEMMA LikePrefixes ==
    ASSUME NEW a, NEW b, Like(a, b), NEW G \in SUBSET Sounding
    PROVE  /\ PrefixesIn(a, G) = PrefixesIn(b, G)
           /\ Max(PrefixesIn(a, G)) \in PrefixesIn(a, G)
           /\ Max(PrefixesIn(a, G)) \in 0..Len(a)
<1> DEFINE n == Len(a)
           m == Len(b)
<1>1. n \in Nat /\ m \in Nat /\ n <= m /\ \A k \in 1..n : a[k] = b[k]
    BY LenProperties DEF Like
<1>2. n = m \/ (n > 0 /\ a[n] \notin G)
    BY DEF Like
<1> HIDE DEF n, m
<1>3. ASSUME NEW k \in 0..m, \A j \in 1..k : b[j] \in G PROVE k \in 0..n
    <2> SUFFICES ASSUME k > n PROVE FALSE
        BY <1>1
    <2>1. n \in 1..k /\ n \in 1..n
        BY <1>1, <1>2
    <2>2. n # m
        BY <1>1
    <2> QED BY <1>1, <1>2, <1>3, <2>1, <2>2
<1>4. \A k \in 0..n : k \in 0..m /\ \A j \in 1..k : j \in 1..n
    BY <1>1
<1>5. \A k \in 0..n : (\A j \in 1..k : a[j] \in G) <=> (\A j \in 1..k : b[j] \in G)
    BY <1>1, <1>4
<1>6. PrefixesIn(a, G) = {k \in 0..n : \A j \in 1..k : a[j] \in G}
        /\ PrefixesIn(b, G) = {k \in 0..m : \A j \in 1..k : b[j] \in G}
    BY DEF PrefixesIn, n, m
<1>7. PrefixesIn(a, G) = PrefixesIn(b, G)
    BY <1>3, <1>4, <1>5, <1>6
<1>8. 0 \in PrefixesIn(a, G) /\ PrefixesIn(a, G) \in SUBSET (0..n)
    BY <1>1, <1>6
<1> QED BY <1>1, <1>7, <1>8, LongestPrefix DEF n

\* The words digits after the point are said in.
FractionWords == {w \in NumberWords : IsFractionWord(w)}

LEMMA LikeFractions ==
    ASSUME NEW a, NEW b, Like(a, b)
    PROVE  SpokenFraction(a) = SpokenFraction(b)
<1> DEFINE Spelt(words) == {n \in 0..Len(words) : \A k \in 1..n : IsFractionWord(words[k])}
           Digits(words, n) == FlattenSeq([k \in 1..n |-> FractionDigits(words[k])])
<1>1. \A words : Spelt(words) = PrefixesIn(words, FractionWords)
    <2>1. \A w : IsFractionWord(w) <=> w \in FractionWords
        BY DEF FractionWords, IsFractionWord, NumberWords, Quantity
    <2> QED BY <2>1 DEF PrefixesIn
<1>2. \A words : SpokenFraction(words)
            = [digits |-> Digits(words, Max(Spelt(words))), consumed |-> Max(Spelt(words))]
    BY DEF SpokenFraction, PrefixIn
<1> DEFINE n == Max(PrefixesIn(a, FractionWords))
<1>3. PrefixesIn(a, FractionWords) = PrefixesIn(b, FractionWords) /\ n \in 0..Len(a)
    <2>1. FractionWords \in SUBSET Sounding
        BY DEF FractionWords, Sounding
    <2> QED BY <2>1, LikePrefixes
<1> HIDE DEF n, Spelt
<1>4. Max(Spelt(a)) = n /\ Max(Spelt(b)) = n
    BY <1>1, <1>3 DEF n
<1>5. \A k \in 1..n : a[k] = b[k]
    <2>1. Len(a) \in Nat /\ \A k \in 1..Len(a) : a[k] = b[k]
        BY LenProperties DEF Like
    <2> QED BY <1>3, <2>1
<1>6. [k \in 1..n |-> FractionDigits(a[k])] = [k \in 1..n |-> FractionDigits(b[k])]
    BY <1>5
<1>7. Digits(a, n) = Digits(b, n)
    BY <1>6
<1> QED BY <1>2, <1>4, <1>7

LEMMA LikeTails ==
    ASSUME NEW a, NEW b, Like(a, b)
    PROVE  FractionAfter(a) = FractionAfter(b)
<1>1. a = <<>> <=> b = <<>>
    <2>1. a \in Seq(STRING) /\ b \in Seq(STRING) /\ Len(a) \in Nat /\ Len(b) \in Nat
            /\ (Len(a) = 0 <=> Len(b) = 0)
        <3>1. Len(a) \in Nat /\ Len(b) \in Nat /\ Len(a) <= Len(b)
                /\ (Len(a) = Len(b) \/ Len(a) > 0)
            BY LenProperties DEF Like
        <3> QED BY <3>1 DEF Like
    <2> QED BY <2>1, EmptySeq
<1>2. a # <<>> => a[1] = b[1]
    <2> SUFFICES ASSUME a # <<>> PROVE a[1] = b[1]
        OBVIOUS
    <2>1. Len(a) \in Nat \ {0}
        BY EmptySeq DEF Like
    <2>2. 1 \in 1..Len(a)
        BY <2>1
    <2> QED BY <2>2 DEF Like
<1>3. SpokenFraction(a) = SpokenFraction(b)
    BY LikeFractions
<1> QED BY <1>1, <1>2, <1>3 DEF FractionAfter

\* Parts of a part and of the text it stands in.
LEMMA LikeParts ==
    ASSUME NEW part, NEW text, NEW shift \in Nat, StandsIn(part, text, shift),
           NEW i \in Nat \ {0}, NEW j \in Nat, NEW k \in Nat,
           i <= j + 1, j <= Len(part), k <= Len(text), j + shift <= k,
           \/ j + shift = k
           \/ i <= j /\ j = Len(part) /\ part[Len(part)] \notin Sounding
    PROVE  Like(SubSeq(part, i, j), SubSeq(text, i + shift, k))
<1> DEFINE a == SubSeq(part, i, j)
           b == SubSeq(text, i + shift, k)
           n == j - i + 1
           m == k - (i + shift) + 1
<1>1. part \in Seq(STRING) /\ text \in Seq(STRING) /\ Len(part) \in Nat
    BY LenProperties DEF StandsIn
<1>2. i + shift \in Nat \ {0} /\ n \in Nat /\ m \in Nat /\ n <= m
        /\ (i <= j <=> n > 0) /\ (i + shift <= k <=> m > 0)
    OBVIOUS
<1>3. a \in Seq(STRING) /\ Len(a) = (IF i <= j THEN n ELSE 0)
        /\ \A l \in 1..n : a[l] = part[i + l - 1]
    BY <1>1, Part
<1>4. b \in Seq(STRING) /\ Len(b) = (IF i + shift <= k THEN m ELSE 0)
        /\ \A l \in 1..m : b[l] = text[(i + shift) + l - 1]
    BY <1>1, <1>2, Part
<1>5. Len(a) = n /\ Len(b) = m
    BY <1>2, <1>3, <1>4
<1> HIDE DEF a, b
<1>6. ASSUME NEW l \in 1..n PROVE a[l] = b[l]
    <2>1. l \in 1..m /\ i + l - 1 \in 1..Len(part)
            /\ (i + shift) + l - 1 = (i + l - 1) + shift
        BY <1>1, <1>2
    <2>2. a[l] = part[i + l - 1] /\ b[l] = text[(i + l - 1) + shift]
        BY <1>3, <1>4, <2>1
    <2> HIDE DEF n, m
    <2> QED BY <2>1, <2>2 DEF StandsIn
<1>7. n = m \/ (n > 0 /\ a[n] \notin Sounding)
    <2>1. CASE j + shift = k
        BY <2>1
    <2>2. CASE i <= j /\ j = Len(part) /\ part[Len(part)] \notin Sounding
        <3>1. n \in 1..n /\ i + n - 1 = Len(part)
            BY <1>1, <2>2
        <3> HIDE DEF n
        <3>2. a[n] = part[i + n - 1]
            BY <1>3, <3>1
        <3> QED BY <2>2, <3>1, <3>2
    <2> QED BY <2>1, <2>2
<1> HIDE DEF n, m
<1> QED BY <1>2, <1>3, <1>4, <1>5, <1>6, <1>7 DEF Like, a, b

\* Of a text of at least that many words, the same words in it and in a part.
LEMMA SameWords ==
    ASSUME NEW part, NEW text, NEW shift \in Nat, StandsIn(part, text, shift),
           NEW i \in Nat \ {0}, NEW j \in Nat, i <= j + 1, j <= Len(part)
    PROVE  SubSeq(part, i, j) = SubSeq(text, i + shift, j + shift)
<1>1. Len(part) \in Nat /\ Len(text) \in Nat /\ Len(part) + shift <= Len(text)
    BY LenProperties DEF StandsIn
<1>2. j + shift \in Nat /\ j + shift <= Len(text)
    BY <1>1
<1>3. Like(SubSeq(part, i, j), SubSeq(text, i + shift, j + shift))
    BY <1>2, LikeParts
<1> DEFINE a == SubSeq(part, i, j)
           b == SubSeq(text, i + shift, j + shift)
<1>4. Len(a) = Len(b)
    <2>1. i + shift \in Nat \ {0} /\ (i <= j <=> i + shift <= j + shift)
            /\ j - i + 1 = (j + shift) - (i + shift) + 1
        OBVIOUS
    <2>2. Len(a) = IF i <= j THEN j - i + 1 ELSE 0
        BY Part DEF StandsIn
    <2>3. Len(b) = IF i + shift <= j + shift THEN (j + shift) - (i + shift) + 1 ELSE 0
        BY <1>2, <2>1, Part DEF StandsIn
    <2> QED BY <2>1, <2>2, <2>3
<1> HIDE DEF a, b
<1>5. a = b
    BY <1>3, <1>4, SeqEqual DEF Like, a, b
<1> QED BY <1>5 DEF a, b

\* Words, and numerals with what follows them, are read in a part as they are in
\* the text it stands in.
LEMMA WordsReadAlike ==
    ASSUME NEW part, NEW text, NEW shift \in Nat, StandsIn(part, text, shift),
           NEW i \in 1..Len(part)
    PROVE  /\ ReadWords(text, i + shift).number = ReadWords(part, i).number
           /\ ReadWords(text, i + shift).next = ReadWords(part, i).next + shift
<1> DEFINE L == Len(part)
           N == Len(text)
           a == From(part, i)
           b == From(text, i + shift)
           n == Max(PrefixesIn(a, NumberWords))
<1>1. L \in Nat /\ N \in Nat /\ L + shift <= N /\ i \in Nat \ {0} /\ i <= L
        /\ part \in Seq(STRING) /\ text \in Seq(STRING)
    BY LenProperties DEF StandsIn
<1>2. Like(a, b)
    <2>1. i <= L + 1 /\ (L + shift = N \/ (i <= L /\ part[L] \notin Sounding))
        BY <1>1 DEF StandsIn
    <2> QED BY <1>1, <2>1, LikeParts DEF From
<1>3. Len(a) = L - i + 1
    <2>1. Len(SubSeq(part, i, L)) = IF i <= L THEN L - i + 1 ELSE 0
        BY <1>1, Part
    <2> QED BY <1>1, <2>1 DEF From
<1> HIDE DEF a, b
<1>4. PrefixesIn(a, NumberWords) = PrefixesIn(b, NumberWords) /\ n \in 0..Len(a)
    <2>1. NumberWords \in SUBSET Sounding
        BY DEF Sounding
    <2> QED BY <1>2, <2>1, LikePrefixes
<1>5. /\ ReadWords(part, i) = ReadRun(part, i, Max(PrefixesIn(a, NumberWords)))
      /\ ReadWords(text, i + shift) = ReadRun(text, i + shift, Max(PrefixesIn(b, NumberWords)))
    BY DEF ReadWords, PrefixIn, PrefixesIn, a, b
<1>6. /\ ReadWords(part, i) = ReadRun(part, i, n)
      /\ ReadWords(text, i + shift) = ReadRun(text, i + shift, n)
    BY <1>4, <1>5
<1> HIDE DEF n
<1>7. SubSeq(part, i, i + n - 1) = SubSeq(text, i + shift, (i + shift) + n - 1)
    <2> DEFINE j == i + n - 1
    <2>1. j \in Nat /\ i <= j + 1 /\ j <= Len(part) /\ j + shift = (i + shift) + n - 1
        BY <1>1, <1>3, <1>4
    <2> HIDE DEF j
    <2>2. SubSeq(part, i, j) = SubSeq(text, i + shift, j + shift)
        <3>1. StandsIn(part, text, shift) /\ shift \in Nat /\ i \in Nat \ {0}
                /\ j \in Nat /\ i <= j + 1 /\ j <= Len(part)
            BY <1>1, <2>1
        <3> QED BY ONLY <3>1, SameWords
    <2> QED BY <2>1, <2>2 DEF j
<1>8. (i + n) + shift = (i + shift) + n
    BY <1>1, <1>3, <1>4
<1>9. /\ ReadWords(part, i)
            = [number |-> NumberOf(SubSeq(part, i, i + n - 1)), next |-> i + n]
      /\ ReadWords(text, i + shift)
            = [number |-> NumberOf(SubSeq(text, i + shift, (i + shift) + n - 1)),
               next |-> (i + shift) + n]
    BY <1>6 DEF ReadRun
<1>10. ReadWords(text, i + shift).number = ReadWords(part, i).number
    <2> DEFINE here == SubSeq(part, i, i + n - 1)
               there == SubSeq(text, i + shift, (i + shift) + n - 1)
    <2>1. here = there
        BY <1>7
    <2>2. ReadWords(part, i) = [number |-> NumberOf(here), next |-> i + n]
            /\ ReadWords(text, i + shift) = [number |-> NumberOf(there), next |-> (i + shift) + n]
        BY <1>9
    <2> HIDE DEF here, there
    <2> QED BY <2>1, <2>2
<1>11. ReadWords(text, i + shift).next = ReadWords(part, i).next + shift
    <2>1. ReadWords(text, i + shift).next = (i + shift) + n /\ ReadWords(part, i).next = i + n
        BY <1>9
    <2> QED BY <1>8, <2>1
<1> QED BY <1>10, <1>11

\* The lesser of two numbers.
LEMMA Lesser ==
    ASSUME NEW x \in Int, NEW y \in Int
    PROVE  Min({x, y}) = IF x <= y THEN x ELSE y
<1> DEFINE least == IF x <= y THEN x ELSE y
<1>1. least \in {x, y} /\ least \in Int /\ \A z \in {x, y} : least <= z
    OBVIOUS
<1> HIDE DEF least
<1>2. \A z \in {x, y} : (\A u \in {x, y} : z <= u) => z = least
    BY <1>1
<1>3. Min({x, y}) = least
    BY <1>1, <1>2 DEF Min
<1> QED BY <1>3 DEF least

LEMMA NumeralsReadAlike ==
    ASSUME NEW part, NEW text, NEW shift \in Nat, StandsIn(part, text, shift),
           NEW i \in 1..Len(part), part[i] \in DOMAIN Numeral
    PROVE  /\ ReadNumeral(text, i + shift).number = ReadNumeral(part, i).number
           /\ ReadNumeral(text, i + shift).next = ReadNumeral(part, i).next + shift
<1> DEFINE L == Len(part)
           N == Len(text)
           at == i + shift
           literal == Numeral[part[i]]
           number == [whole |-> literal.whole, fraction |-> literal.fraction]
           a == SubSeq(part, i + 2, Min({L, i + 7}))
           b == SubSeq(text, at + 2, Min({N, at + 7}))
           plainHere == \/ number.fraction # <<>>
                        \/ i = L
                        \/ part[i + 1] \notin FractionMarkers
           plainThere == \/ number.fraction # <<>>
                         \/ at = N
                         \/ text[at + 1] \notin FractionMarkers
<1>1. L \in Nat /\ N \in Nat /\ L + shift <= N /\ i \in Nat \ {0} /\ i <= L
        /\ at \in Nat \ {0} /\ part \in Seq(STRING) /\ text \in Seq(STRING)
    BY LenProperties DEF StandsIn
<1>2. text[at] = part[i]
    BY DEF StandsIn
<1>3. ReadNumeral(part, i) =
        IF plainHere THEN [number |-> number, next |-> i + 1]
        ELSE WithFraction(number, FractionAfter(a), i)
    BY DEF ReadNumeral
<1>4. ReadNumeral(text, at) =
        IF plainThere THEN [number |-> number, next |-> at + 1]
        ELSE WithFraction(number, FractionAfter(b), at)
    BY <1>2 DEF ReadNumeral
<1>5. L + shift = N \/ part[L] \notin Sounding
    BY <1>1 DEF StandsIn
<1>6. i = L <=> at = N
    <2>1. i = L => L + shift = N
        BY <1>5 DEF Sounding
    <2> QED BY <1>1, <2>1
<1>7. i # L => text[at + 1] = part[i + 1]
    <2> SUFFICES ASSUME i # L PROVE text[at + 1] = part[i + 1]
        OBVIOUS
    <2>1. i + 1 \in 1..Len(part) /\ (i + 1) + shift = at + 1
        BY <1>1
    <2>2. text[(i + 1) + shift] = part[i + 1]
        BY <2>1 DEF StandsIn
    <2> QED BY <2>1, <2>2
<1>8. plainHere <=> plainThere
    BY <1>6, <1>7
<1>9. CASE plainHere
    <2> HIDE DEF plainHere, plainThere, number
    <2>1. ReadNumeral(part, i) = [number |-> number, next |-> i + 1]
            /\ ReadNumeral(text, at) = [number |-> number, next |-> at + 1]
        BY <1>3, <1>4, <1>8, <1>9
    <2>2. (i + 1) + shift = at + 1
        BY <1>1
    <2> QED BY <2>1, <2>2
<1>10. CASE ~plainHere
    <2>1. i # L /\ part[i + 1] \in FractionMarkers
        BY <1>10
    <2> DEFINE j == Min({L, i + 7})
               k == Min({N, at + 7})
    <2>2. j = (IF L <= i + 7 THEN L ELSE i + 7) /\ k = (IF N <= at + 7 THEN N ELSE at + 7)
        BY <1>1, Lesser
    <2> HIDE DEF j, k
    <2>3. L = i + 1 => L + shift = N
        BY <1>5, <2>1 DEF Sounding, NumberWords
    <2>4. /\ j \in Nat /\ k \in Nat /\ i + 2 \in Nat \ {0}
          /\ i + 2 <= j + 1 /\ j <= L /\ k <= N /\ j + shift <= k
        BY <1>1, <2>1, <2>2
    <2>5. j + shift = k \/ (i + 2 <= j /\ j = L /\ part[L] \notin Sounding)
        <3>1. CASE L + shift = N
            BY <1>1, <2>2, <3>1
        <3>2. CASE L + shift # N
            <4>1. part[L] \notin Sounding /\ L # i + 1
                BY <1>5, <2>3, <3>2
            <4>2. j + shift = k \/ (i + 2 <= j /\ j = L)
                BY <1>1, <2>1, <2>2, <4>1
            <4> QED BY <4>1, <4>2
        <3> QED BY <3>1, <3>2
    <2>6. (i + 2) + shift = at + 2
        BY <1>1
    <2>7. Like(a, b)
        <3>1. Like(SubSeq(part, i + 2, j), SubSeq(text, (i + 2) + shift, k))
            BY <2>4, <2>5, LikeParts
        <3> QED BY <2>6, <3>1 DEF j, k
    <2> DEFINE spoken == FractionAfter(a)
    <2>8. FractionAfter(b) = spoken
        BY <2>7, LikeTails
    <2>9. spoken.consumed \in Nat
        <3>1. a \in Seq(STRING)
            BY <2>7 DEF Like
        <3> HIDE DEF a
        <3>2. Len(a) \in Nat /\ SpokenFraction(a).consumed \in 0..Len(a)
            BY <3>1, FractionIsThere, LenProperties
        <3>3. spoken.consumed = 1 \/ spoken = SpokenFraction(a)
            BY DEF FractionAfter
        <3> QED BY <3>2, <3>3
    <2> HIDE DEF plainHere, plainThere, number, spoken, a, b
    <2>10. /\ ReadNumeral(part, i) = WithFraction(number, spoken, i)
           /\ ReadNumeral(text, at) = WithFraction(number, spoken, at)
        BY <1>3, <1>4, <1>8, <1>10, <2>8 DEF spoken
    <2>11. (i + 1) + shift = at + 1 /\ (i + 2 + spoken.consumed) + shift = at + 2 + spoken.consumed
        <3> DEFINE c == spoken.consumed
        <3> HIDE DEF c
        <3>1. c \in Nat
            BY <2>9 DEF c
        <3>2. (i + 1) + shift = at + 1 /\ (i + 2 + c) + shift = at + 2 + c
            BY <1>1, <3>1
        <3> QED BY <3>2 DEF c
    <2> HIDE DEF at
    <2> QED BY <2>10, <2>11 DEF WithFraction, at
<1> QED BY <1>9, <1>10

\* A part is read alike by itself and where it stands.
LEMMA PartsReadAlike ==
    ASSUME NEW part, NEW text, NEW shift \in Nat, StandsIn(part, text, shift),
           NEW i \in 1..Len(part)
    PROVE  /\ ReadAt(text, i + shift).number = ReadAt(part, i).number
           /\ ReadAt(text, i + shift).next = ReadAt(part, i).next + shift
<1>1. text[i + shift] = part[i]
    BY DEF StandsIn
<1>2. CASE part[i] \in DOMAIN Numeral
    BY <1>1, <1>2, NumeralsReadAlike DEF ReadAt
<1>3. CASE part[i] \notin DOMAIN Numeral
    BY <1>1, <1>3, WordsReadAlike DEF ReadAt
<1> QED BY <1>2, <1>3

\* From where a part begins, the numbers of a text are those of the part and then
\* those from where the part ends.
GoesThrough(scan, part, shift) ==
    scan[1 + shift] = Numbers(part) \o scan[Len(part) + 1 + shift]

LEMMA PartsAreHeard ==
    ASSUME NEW part, NEW text, NEW shift \in Nat, StandsIn(part, text, shift),
           NEW long, Scans(long, text)
    PROVE  GoesThrough(long, part, shift)
<1>1. PICK short : Scans(short, part) /\ Numbers(part) = short[1]
    BY NumbersAreScanned DEF StandsIn
<1> DEFINE L == Len(part)
           N == Len(text)
           S == Heard(part) \cup Heard(text)
           end == long[L + 1 + shift]
           Meets(i) == long[i + shift] = short[i] \o end
           Done == {k \in Nat : \A i \in 1..(L + 1) : i + k > L => Meets(i)}
<1>2. L \in Nat /\ N \in Nat /\ L + shift <= N
        /\ part \in Seq(STRING) /\ text \in Seq(STRING)
    BY LenProperties DEF StandsIn
<1>3. ASSUME NEW i \in 1..(L + 1)
      PROVE  /\ short[i] = NumbersFrom(part, i, short) /\ short[i] \in Seq(S)
             /\ long[i + shift] = NumbersFrom(text, i + shift, long)
             /\ long[i + shift] \in Seq(S)
    <2>1. i + shift \in 1..(N + 1)
        BY <1>2
    <2>2. short[i] \in Seq(Heard(part)) /\ long[i + shift] \in Seq(Heard(text))
            /\ short[i] = NumbersFrom(part, i, short)
            /\ long[i + shift] = NumbersFrom(text, i + shift, long)
        BY <1>1, <2>1 DEF Scans
    <2>3. Heard(part) \subseteq S /\ Heard(text) \subseteq S
        OBVIOUS
    <2> HIDE DEF S
    <2>4. short[i] \in Seq(S) /\ long[i + shift] \in Seq(S)
        BY <2>2, <2>3, SeqMonotonic
    <2> QED BY <2>2, <2>4
<1>4. end \in Seq(S)
    <2>1. L + 1 \in 1..(L + 1)
        BY <1>2
    <2> HIDE DEF S
    <2> QED BY <1>3, <2>1
<1>5. \A s, t \in Seq(S) : s \o (t \o end) = (s \o t) \o end
    <2> HIDE DEF S, end
    <2> QED BY ONLY <1>4, ConcatAssociative
<1>6. 0 \in Done
    <2>1. ASSUME NEW i \in 1..(L + 1), i + 0 > L PROVE Meets(i)
        <3>1. i = L + 1 /\ i > L
            BY <1>2, <2>1
        <3>2. short[i] = <<>>
            BY <1>3, <3>1 DEF NumbersFrom
        <3> HIDE DEF end, S
        <3>3. <<>> \o end = end
            BY <1>4, ConcatEmptySeq
        <3> QED BY <3>1, <3>2, <3>3 DEF end
    <2> HIDE DEF Meets
    <2> QED BY <2>1
<1>7. ASSUME NEW k \in Nat, k \in Done PROVE k + 1 \in Done
    <2>1. ASSUME NEW i \in 1..(L + 1), i + (k + 1) > L PROVE Meets(i)
        <3>1. \A j \in 1..(L + 1) : j > i => Meets(j)
            <4>1. \A j \in 1..(L + 1) : j > i => j + k > L
                BY <1>2, <2>1
            <4> HIDE DEF Meets
            <4> QED BY <1>7, <4>1
        <3>2. CASE i > L
            <4>1. i + 0 > L
                BY <1>2, <3>2
            <4> HIDE DEF Meets
            <4> QED BY <1>6, <4>1
        <3>3. CASE ~(i > L)
            <4>1. i \in 1..L /\ ~(i + shift > N) /\ i + 1 \in 1..(L + 1) /\ i + 1 > i
                    /\ (i + 1) + shift = (i + shift) + 1
                BY <1>2, <3>3
            <4>2. text[i + shift] = part[i]
                BY <4>1 DEF StandsIn
            <4>3. CASE part[i] \in DOMAIN Numeral \cup Quantity
                <5> DEFINE here == ReadAt(part, i)
                           there == ReadAt(text, i + shift)
                           next == here.next
                <5>1. short[i] = Prepend(here, short)
                    BY <1>3, <3>3, <4>3 DEF NumbersFrom
                <5>2. long[i + shift] = Prepend(there, long)
                    BY <1>3, <4>1, <4>2, <4>3 DEF NumbersFrom
                <5>3. there.number = here.number /\ there.next = here.next + shift
                    BY <4>1, PartsReadAlike
                <5>4. next \in (i + 1)..(L + 1)
                    BY <1>2, <4>1, <4>3, ReadsOn
                <5>5. here.number \in S
                    BY <4>1 DEF Heard
                <5> HIDE DEF here, there
                <5>6. next \in 1..(L + 1) /\ next > i
                    BY <4>1, <5>4
                <5>7. long[next + shift] = short[next] \o end
                    BY <3>1, <5>6
                <5> HIDE DEF S, end, next
                <5>8. short[next] \in Seq(S) /\ <<here.number>> \in Seq(S)
                    BY <1>3, <5>5, <5>6, Singleton
                <5>9. <<here.number>> \o (short[next] \o end)
                        = (<<here.number>> \o short[next]) \o end
                    BY <1>5, <5>8
                <5>10. long[i + shift] = <<here.number>> \o long[next + shift]
                    BY <5>2, <5>3 DEF Prepend, next
                <5>11. short[i] = <<here.number>> \o short[next]
                    BY <5>1 DEF Prepend, next
                <5> QED BY <5>7, <5>9, <5>10, <5>11
            <4>4. CASE part[i] \notin DOMAIN Numeral \cup Quantity
                <5>1. short[i] = short[i + 1]
                    BY <1>3, <3>3, <4>4 DEF NumbersFrom
                <5>2. long[i + shift] = long[(i + shift) + 1]
                    BY <1>3, <4>1, <4>2, <4>4 DEF NumbersFrom
                <5>3. Meets(i + 1)
                    <6> HIDE DEF Meets
                    <6> QED BY <3>1, <4>1
                <5> HIDE DEF end
                <5> QED BY <4>1, <5>1, <5>2, <5>3
            <4> QED BY <4>3, <4>4
        <3> QED BY <3>2, <3>3
    <2> HIDE DEF Meets
    <2> QED BY <2>1
<1>8. Nat \subseteq Done
    <2> HIDE DEF Done
    <2> QED BY <1>6, <1>7, Counting!NumberInduction
<1>9. L \in Done /\ \A i \in 1..(L + 1) : i + L > L
    <2> HIDE DEF Done
    <2> QED BY <1>2, <1>8
<1>10. \A i \in 1..(L + 1) : Meets(i)
    <2> HIDE DEF Meets
    <2> QED BY <1>9
<1>11. 1 \in 1..(L + 1)
    BY <1>2
<1> QED BY <1>1, <1>10, <1>11 DEF GoesThrough

\* Number words between words of no number are read as one number.
LEMMA WordsAreReadWhole ==
    ASSUME NEW text \in Seq(STRING), NEW words \in Seq(NumberWords), Len(words) > 0,
           words[1] \in Quantity, NEW i \in Nat \ {0},
           i + Len(words) <= Len(text) + 1,
           SubSeq(text, i, i + Len(words) - 1) = words,
           i + Len(words) > Len(text) \/ text[i + Len(words)] \notin Sounding
    PROVE  text[i] \in Quantity
           /\ ReadAt(text, i) = [number |-> NumberOf(words), next |-> i + Len(words)]
<1> DEFINE N == Len(text)
           n == Len(words)
           rest == From(text, i)
<1>1. N \in Nat /\ n \in Nat /\ n > 0 /\ i + n <= N + 1
    BY LenProperties
<1>2. /\ Len(rest) = N - i + 1
      /\ \A k \in 1..(N - i + 1) : rest[k] = text[i + k - 1]
    <2>1. i <= N
        BY <1>1
    <2> QED BY <1>1, <2>1, Part DEF From
<1> HIDE DEF rest
<1>3. \A k \in 1..n : text[i + k - 1] = words[k]
    <2> DEFINE j == i + n - 1
    <2>1. j \in Nat /\ j <= Len(text) /\ j - i + 1 = n
        BY <1>1
    <2> HIDE DEF j
    <2>2. \A k \in 1..(j - i + 1) : SubSeq(text, i, j)[k] = text[i + k - 1]
        BY <2>1, Part
    <2>3. SubSeq(text, i, j) = words
        BY DEF j
    <2> HIDE DEF n
    <2> QED BY <2>1, <2>2, <2>3
<1>4. \A k \in 1..n : words[k] \in NumberWords
    <2> HIDE DEF n
    <2> QED BY ElementOfSeq DEF n
<1>5. n = N - i + 1 \/ (n + 1 <= N - i + 1 /\ text[i + n] \notin NumberWords)
    <2>1. CASE i + n > N
        <3> HIDE DEF N, n
        <3> QED BY <1>1, <2>1
    <2>2. CASE ~(i + n > N)
        <3>1. text[i + n] \notin NumberWords
            BY <2>2 DEF Sounding
        <3>2. n + 1 <= N - i + 1
            BY <1>1, <2>2
        <3> QED BY <3>1, <3>2
    <2> QED BY <2>1, <2>2
<1> HIDE DEF N, n
<1>6. ASSUME NEW k \in 0..Len(rest)
      PROVE  (\A j \in 1..k : rest[j] \in NumberWords) <=> k \in 0..n
    <2>1. CASE k \in 0..n
        <3>1. \A j \in 1..k : j \in 1..n /\ j \in 1..(N - i + 1)
            BY <1>1, <2>1
        <3> QED BY <1>2, <1>3, <1>4, <2>1, <3>1
    <2>2. CASE k \notin 0..n
        <3>1. n + 1 \in 1..k /\ n + 1 \in 1..(N - i + 1) /\ i + (n + 1) - 1 = i + n
                /\ n # N - i + 1
            BY <1>1, <1>2, <2>2
        <3>2. rest[n + 1] = text[i + n]
            BY <1>2, <3>1
        <3> QED BY <1>5, <2>2, <3>1, <3>2
    <2> QED BY <2>1, <2>2
<1> DEFINE S == {k \in 0..Len(rest) : \A j \in 1..k : rest[j] \in NumberWords}
<1>7. S = 0..n
    <2>1. \A k \in 0..n : k \in 0..Len(rest)
        BY <1>1, <1>2
    <2> QED BY <1>6, <2>1
<1>8. ReadWords(text, i) = ReadRun(text, i, Max(S))
    BY DEF ReadWords, PrefixIn, rest
<1> HIDE DEF S
<1>9. Max(S) = n
    <2>1. 0 \in S /\ n \in S /\ S \in SUBSET (0..n)
        BY <1>1, <1>7
    <2>2. Max(S) \in 0..n /\ n <= Max(S)
        BY <1>1, <2>1, LongestPrefix
    <2> QED BY <1>1, <2>2
<1>10. text[i] = words[1]
    <2>1. 1 \in 1..n /\ i + 1 - 1 = i
        BY <1>1
    <2>2. text[i + 1 - 1] = words[1]
        BY <1>3, <2>1
    <2> QED BY <2>1, <2>2
<1>11. text[i] \in Quantity /\ text[i] \notin DOMAIN Numeral
    <2>1. text[i] \in NumberWords
        BY <1>10 DEF NumberWords
    <2> QED BY <1>10, <2>1, NumeralAssumption
<1>12. ReadAt(text, i) = ReadRun(text, i, n)
    BY <1>8, <1>9, <1>11 DEF ReadAt
<1>13. ReadRun(text, i, n) = [number |-> NumberOf(words), next |-> i + n]
    BY DEF ReadRun, n
<1> QED BY <1>11, <1>12, <1>13 DEF n

\* Number words between words of no number are heard as the one number that
\* they are, between what is heard before and after them.
LEMMA WordsAreHeardBetween ==
    ASSUME NEW text \in Seq(STRING), NEW words \in Seq(NumberWords), Len(words) > 0,
           words[1] \in Quantity, NEW i \in Nat \ {0},
           i + Len(words) <= Len(text) + 1,
           SubSeq(text, i, i + Len(words) - 1) = words,
           i + Len(words) > Len(text) \/ text[i + Len(words)] \notin Sounding,
           i = 1 \/ text[i - 1] \notin Sounding
    PROVE  Numbers(text) = Numbers(SubSeq(text, 1, i - 1)) \o <<NumberOf(words)>>
                            \o Numbers(From(text, i + Len(words)))
<1> DEFINE N == Len(text)
           after == i + Len(words)
           before == SubSeq(text, 1, i - 1)
           behind == From(text, after)
<1>1. N \in Nat /\ Len(words) \in Nat /\ after \in Nat \ {0} /\ i < after /\ after <= N + 1
    BY LenProperties
<1> HIDE DEF after
<1>2. before \in Seq(STRING) /\ Len(before) = i - 1
        /\ \A k \in 1..(i - 1) : before[k] = text[k]
    <2> DEFINE j == i - 1
    <2>1. j \in Nat /\ j <= Len(text) /\ 1 \in Nat \ {0} /\ j - 1 + 1 = j
            /\ (1 <= j \/ j = 0)
        BY <1>1
    <2> HIDE DEF j
    <2>2. /\ SubSeq(text, 1, j) \in Seq(STRING)
          /\ Len(SubSeq(text, 1, j)) = IF 1 <= j THEN j - 1 + 1 ELSE 0
          /\ \A k \in 1..(j - 1 + 1) : SubSeq(text, 1, j)[k] = text[1 + k - 1]
        BY <2>1, Part
    <2>3. \A k \in 1..j : 1 + k - 1 = k
        BY <2>1
    <2> QED BY <2>1, <2>2, <2>3 DEF j
<1>3. behind \in Seq(STRING) /\ Len(behind) = N + 1 - after
        /\ \A k \in 1..(N + 1 - after) : behind[k] = text[after + k - 1]
    <2>1. N <= Len(text)
        BY <1>1
    <2>2. /\ SubSeq(text, after, N) \in Seq(STRING)
          /\ Len(SubSeq(text, after, N)) = IF after <= N THEN N - after + 1 ELSE 0
          /\ \A k \in 1..(N - after + 1) : SubSeq(text, after, N)[k] = text[after + k - 1]
        BY <1>1, <2>1, Part
    <2> HIDE DEF N
    <2>3. /\ ~(after <= N) => N + 1 - after = 0
          /\ N - after + 1 = N + 1 - after
        BY <1>1
    <2> QED BY <2>1, <2>2, <2>3 DEF From, N
<1> HIDE DEF before, behind
<1>4. StandsIn(before, text, 0)
    <2>1. \A k \in 1..(i - 1) : k + 0 = k
        OBVIOUS
    <2>2. Len(before) + 0 <= N
        BY <1>1, <1>2
    <2>3. Len(before) = 0 \/ before[Len(before)] \notin Sounding
        <3>1. CASE i = 1
            BY <1>2, <3>1
        <3>2. CASE i # 1
            <4>1. i - 1 \in 1..(i - 1)
                BY <3>2
            <4> QED BY <1>2, <3>2, <4>1
        <3> QED BY <3>1, <3>2
    <2> QED BY <1>2, <2>1, <2>2, <2>3 DEF StandsIn
<1>5. StandsIn(behind, text, after - 1)
    <2>1. (N + 1 - after) + (after - 1) = N
            /\ \A k \in 1..(N + 1 - after) : k + (after - 1) = after + k - 1
        BY <1>1
    <2> QED BY <1>1, <1>3, <2>1 DEF StandsIn
<1>6. PICK scan : Scans(scan, text) /\ Numbers(text) = scan[1]
    BY NumbersAreScanned
<1>7. Numbers(before) \in Seq(Heard(before)) /\ Numbers(behind) \in Seq(Heard(behind))
    BY <1>2, <1>3, NumbersAreHeard
<1>8. scan[1] = Numbers(before) \o scan[i]
    <2> PICK shift \in Nat : shift = 0
        OBVIOUS
    <2>1. StandsIn(before, text, shift)
        BY <1>4
    <2>2. 1 + shift = 1 /\ Len(before) + 1 + shift = i
        BY <1>2
    <2>3. GoesThrough(scan, before, shift)
        BY <1>6, <2>1, PartsAreHeard
    <2> QED BY <2>2, <2>3 DEF GoesThrough
<1>9. scan[i] = <<NumberOf(words)>> \o scan[after]
    <2> DEFINE read == ReadAt(text, i)
    <2>1. text[i] \in Quantity /\ read = [number |-> NumberOf(words), next |-> after]
        BY WordsAreReadWhole DEF after
    <2>2. i \in 1..(N + 1) /\ ~(i > N)
        BY <1>1
    <2>3. scan[i] = NumbersFrom(text, i, scan)
        BY <1>6, <2>2 DEF Scans
    <2>4. scan[i] = Prepend(read, scan)
        BY <2>1, <2>2, <2>3 DEF NumbersFrom
    <2> HIDE DEF read
    <2> QED BY <2>1, <2>4 DEF Prepend
<1>10. scan[after] = Numbers(behind)
    <2> PICK shift \in Nat : shift = after - 1
        BY <1>1
    <2>1. 1 + shift = after /\ Len(behind) + 1 + shift = N + 1
            /\ StandsIn(behind, text, shift)
        BY <1>1, <1>3, <1>5
    <2>2. GoesThrough(scan, behind, shift)
        BY <1>6, <2>1, PartsAreHeard
    <2>3. scan[after] = Numbers(behind) \o scan[N + 1]
        BY <2>1, <2>2 DEF GoesThrough
    <2>4. scan[N + 1] = <<>>
        <3>1. N + 1 \in 1..(N + 1) /\ N + 1 > N
            BY <1>1
        <3>2. scan[N + 1] = NumbersFrom(text, N + 1, scan)
            BY <1>6, <3>1 DEF Scans
        <3> QED BY <3>1, <3>2 DEF NumbersFrom
    <2>5. Numbers(behind) \o <<>> = Numbers(behind)
        BY <1>7, ConcatEmptySeq
    <2> QED BY <2>3, <2>4, <2>5
<1> DEFINE x == Numbers(before)
           y == Numbers(behind)
           one == <<NumberOf(words)>>
<1>11. x \o (one \o y) = (x \o one) \o y
    <2> DEFINE S == Heard(before) \cup Heard(behind) \cup {NumberOf(words)}
    <2>1. Heard(before) \subseteq S /\ Heard(behind) \subseteq S /\ NumberOf(words) \in S
        OBVIOUS
    <2> HIDE DEF S
    <2>2. x \in Seq(S) /\ y \in Seq(S)
        BY <1>7, <2>1, SeqMonotonic
    <2>3. one \in Seq(S)
        BY <2>1, Singleton
    <2> HIDE DEF x, y, one
    <2>4. (x \o one) \o y = x \o (one \o y)
        BY ONLY <2>2, <2>3, ConcatAssociative, SMTT(20)
    <2> QED BY ONLY <2>4
<1>12. scan[1] = (x \o one) \o y
    BY <1>8, <1>9, <1>10, <1>11
<1> QED BY <1>6, <1>12 DEF before, behind, after

\* Amounts said in words are heard.
LEMMA AmountsAreUnderstood == EvaluationInv => SpokenFormsUnderstood
<1> SUFFICES ASSUME EvaluationInv, Followable("FACTUAL_MATCH"),
                    NEW s \in ToSet(input.call), NEW m \in Amounts,
                    NEW i \in Positions(SaidForm[m], s.text),
                    i = 1 \/ s.text[i - 1] \notin NumberWords \cup DOMAIN Numeral,
                    \/ i + Len(SaidForm[m]) > Len(s.text)
                    \/ s.text[i + Len(SaidForm[m])] \notin NumberWords \cup DOMAIN Numeral
             PROVE  Numbers(s.text) =
                        Numbers(SubSeq(s.text, 1, i - 1)) \o <<m>>
                            \o Numbers(From(s.text, i + Len(SaidForm[m])))
    BY DEF SpokenFormsUnderstood
<1> DEFINE text == s.text
           words == SaidDecimal(m)
<1>1. text \in Seq(STRING)
    <2>1. input.call \in Seq(Segment)
        BY InputIs DEF Followable
    <2>2. s \in Segment
        <3>1. PICK k \in DOMAIN input.call : s = input.call[k]
            BY DEF ToSet
        <3> QED BY <2>1, <3>1, LenProperties, ElementOfSeq
    <2> QED BY <2>2 DEF Segment
<1>2. SaidForm[m] = words
    BY DEF SaidForm
<1>3. words \in Seq(NumberWords) /\ Len(words) > 0 /\ words[1] \in Quantity
        /\ NumberOf(words) = m
    BY AmountsAreSaid
<1> HIDE DEF words, text
<1>4. i \in 1..(Len(text) - Len(words) + 1) /\ SubSeq(text, i, i + Len(words) - 1) = words
    BY <1>2 DEF Positions, text
<1>5. i \in Nat \ {0} /\ i + Len(words) <= Len(text) + 1
    <2>1. Len(text) \in Nat /\ Len(words) \in Nat
        BY <1>1, <1>3, LenProperties
    <2> QED BY <1>4, <2>1
<1>6. /\ i = 1 \/ text[i - 1] \notin Sounding
      /\ i + Len(words) > Len(text) \/ text[i + Len(words)] \notin Sounding
    BY <1>2 DEF text, Sounding
<1>7. Numbers(text) = Numbers(SubSeq(text, 1, i - 1)) \o <<NumberOf(words)>>
                        \o Numbers(From(text, i + Len(words)))
    BY <1>1, <1>3, <1>4, <1>5, <1>6, WordsAreHeardBetween
<1> QED BY <1>2, <1>3, <1>7 DEF text

\* An amount said in words between words of no number is heard as that amount,
\* between the numbers before it and the numbers after it
\* (SpokenFormsUnderstood).
THEOREM SpokenAmountsAreUnderstood == Spec => []SpokenFormsUnderstood
<1>1. EvaluationInv => SpokenFormsUnderstood
    BY AmountsAreUnderstood
<1> QED BY <1>1, ResultsAreOfTheirInputs, PTL

---------------------------------------------------------------------------
(* The checks of a sale *)

Plus(sum, x) == x + sum

Adding == INSTANCE FoldFacts WITH Step <- Plus

\* A sum over a finite set of indices is the fold the induction is about.
LEMMA SumIsFolded ==
    ASSUME NEW table, NEW S
    PROVE  SumFunctionOnSet(table, S) = Adding!Folded(0, table, S)
BY DEF SumFunctionOnSet, FoldFunctionOnSet, MapThenFoldSet, Plus,
       Adding!Folded, Adding!FoldFunctionOnSet, Adding!MapThenFoldSet

\* Nothing adds up to zero, and one index more adds its entry.
LEMMA SumAdds ==
    ASSUME NEW S, IsFiniteSet(S), NEW table, \A x \in S : table[x] \in Int
    PROVE  /\ SumFunctionOnSet(table, {}) = 0
           /\ \A s \in SUBSET S :
                /\ SumFunctionOnSet(table, s) \in Int
                /\ \A x \in s : SumFunctionOnSet(table, s)
                                  = table[x] + SumFunctionOnSet(table, s \ {x})
<1>1. Adding!Commuting(0, table, S, Int)
    BY DEF Adding!Commuting, Plus
<1>2. Adding!IsFiniteSet(S)
    BY DEF IsFiniteSet, Adding!IsFiniteSet
<1>3. /\ Adding!Folded(0, table, {}) = 0
      /\ \A s \in SUBSET S :
            /\ Adding!Folded(0, table, s) \in Int
            /\ \A x \in s : Adding!Folded(0, table, s)
                              = Plus(Adding!Folded(0, table, s \ {x}), table[x])
    BY <1>1, <1>2, Adding!FoldedAdds
<1> QED BY <1>3, SumIsFolded DEF Plus

\* More entries that are not negative add up to no less.
LEMMA SumGrows ==
    ASSUME NEW S, IsFiniteSet(S), NEW table, \A x \in S : table[x] \in Nat,
           NEW T \in SUBSET S
    PROVE  SumFunctionOnSet(table, T) <= SumFunctionOnSet(table, S)
<1> DEFINE F(s) == SumFunctionOnSet(table, s)
           Grown == {s \in SUBSET S : F(T \cap s) <= F(s)}
<1>1. /\ F({}) = 0
      /\ \A s \in SUBSET S : F(s) \in Int /\ \A x \in s : F(s) = table[x] + F(s \ {x})
    BY SumAdds
<1> HIDE DEF F
<1>2. {} \in Grown
    <2>1. T \cap {} = {}
        OBVIOUS
    <2> QED BY <1>1, <2>1
<1>3. ASSUME NEW s \in SUBSET S, NEW x \in S, s \in Grown
      PROVE  s \cup {x} \in Grown
    <2>1. CASE x \in s
        <3>1. s \cup {x} = s
            BY <2>1
        <3> QED BY <1>3, <3>1
    <2>2. CASE x \notin s
        <3> DEFINE t == s \cup {x}
        <3>1. t \in SUBSET S /\ x \in t /\ t \ {x} = s
            BY <2>2
        <3> HIDE DEF t
        <3>2. F(t) = table[x] + F(s) /\ F(s) \in Int
            BY <1>1, <3>1
        <3>3. F(T \cap s) <= F(s) /\ F(T \cap s) \in Int /\ table[x] \in Nat
            BY <1>1, <1>3
        <3> HIDE DEF Grown
        <3>4. CASE x \in T
            <4>1. T \cap t \in SUBSET S /\ x \in T \cap t /\ (T \cap t) \ {x} = T \cap s
                BY <2>2, <3>4 DEF t
            <4>2. F(T \cap t) = table[x] + F(T \cap s)
                BY <1>1, <4>1
            <4>3. F(T \cap t) <= F(t)
                BY <3>2, <3>3, <4>2
            <4> QED BY <3>1, <4>3 DEF Grown
        <3>5. CASE x \notin T
            <4>1. F(T \cap t) = F(T \cap s)
                <5>1. T \cap t = T \cap s
                    BY <3>5 DEF t
                <5> QED BY <5>1
            <4>2. F(T \cap t) <= F(t)
                BY <3>2, <3>3, <4>1
            <4> QED BY <3>1, <4>2 DEF Grown
        <3> QED BY <3>4, <3>5 DEF t
    <2> QED BY <2>1, <2>2
<1> HIDE DEF Grown
<1>4. Adding!IsFiniteSet(S)
    BY DEF IsFiniteSet, Adding!IsFiniteSet
<1>5. S \in Grown
    BY <1>2, <1>3, <1>4, Adding!SetInduction
<1>6. T \cap S = T
    OBVIOUS
<1> QED BY <1>5, <1>6 DEF Grown, F

\* Two sets that have nothing in common add up to what they are together.
LEMMA SumParts ==
    ASSUME NEW S, IsFiniteSet(S), NEW table, \A x \in S : table[x] \in Int,
           NEW T \in SUBSET S
    PROVE  SumFunctionOnSet(table, S)
             = SumFunctionOnSet(table, T) + SumFunctionOnSet(table, S \ T)
<1> DEFINE F(s) == SumFunctionOnSet(table, s)
           Parted == {s \in SUBSET S : F(s) = F(T \cap s) + F(s \ T)}
<1>1. /\ F({}) = 0
      /\ \A s \in SUBSET S : F(s) \in Int /\ \A x \in s : F(s) = table[x] + F(s \ {x})
    BY SumAdds
<1> HIDE DEF F
<1>2. {} \in Parted
    <2>1. T \cap {} = {} /\ {} \ T = {}
        OBVIOUS
    <2> QED BY <1>1, <2>1
<1>3. ASSUME NEW s \in SUBSET S, NEW x \in S, s \in Parted
      PROVE  s \cup {x} \in Parted
    <2>1. CASE x \in s
        <3>1. s \cup {x} = s
            BY <2>1
        <3> QED BY <1>3, <3>1
    <2>2. CASE x \notin s
        <3> DEFINE t == s \cup {x}
        <3>1. t \in SUBSET S /\ x \in t /\ t \ {x} = s
            BY <2>2
        <3> HIDE DEF t
        <3>2. F(t) = table[x] + F(s) /\ F(s) \in Int
            BY <1>1, <3>1
        <3>3. /\ F(s) = F(T \cap s) + F(s \ T) /\ table[x] \in Int
              /\ F(T \cap s) \in Int /\ F(s \ T) \in Int
            BY <1>1, <1>3
        <3> HIDE DEF Parted
        <3>4. CASE x \in T
            <4>1. T \cap t \in SUBSET S /\ x \in T \cap t /\ (T \cap t) \ {x} = T \cap s
                BY <2>2, <3>4 DEF t
            <4>2. F(T \cap t) = table[x] + F(T \cap s)
                BY <1>1, <4>1
            <4>3. F(t \ T) = F(s \ T)
                <5>1. t \ T = s \ T
                    BY <3>4 DEF t
                <5> QED BY <5>1
            <4>4. F(t) = F(T \cap t) + F(t \ T)
                BY <3>2, <3>3, <4>2, <4>3
            <4> QED BY <3>1, <4>4 DEF Parted
        <3>5. CASE x \notin T
            <4>1. t \ T \in SUBSET S /\ x \in t \ T /\ (t \ T) \ {x} = s \ T
                BY <2>2, <3>5 DEF t
            <4>2. F(t \ T) = table[x] + F(s \ T)
                BY <1>1, <4>1
            <4>3. F(T \cap t) = F(T \cap s)
                <5>1. T \cap t = T \cap s
                    BY <3>5 DEF t
                <5> QED BY <5>1
            <4>4. F(t) = F(T \cap t) + F(t \ T)
                BY <3>2, <3>3, <4>2, <4>3
            <4> QED BY <3>1, <4>4 DEF Parted
        <3> QED BY <3>4, <3>5 DEF t
    <2> QED BY <2>1, <2>2
<1> HIDE DEF Parted
<1>4. Adding!IsFiniteSet(S)
    BY DEF IsFiniteSet, Adding!IsFiniteSet
<1>5. S \in Parted
    BY <1>2, <1>3, <1>4, Adding!SetInduction
<1>6. T \cap S = T
    OBVIOUS
<1> QED BY <1>5, <1>6 DEF Parted, F

\* The names of the energy checks.
LEMMA CheckNames ==
    /\ DOMAIN ScriptWeight = {
        "recording_disclaimer", "agent_identification", "account_holder",
        "vdo_comparison", "dmo_comparison", "explicit_consent", "cooling_off",
        "terms_conditions", "life_support_enquiry", "right_to_end_call"}
    /\ DOMAIN FactualWeight = {
        "peak_rate", "supply_charge", "email", "customer_name", "dob",
        "supply_address", "nmi", "mirn", "fuel_type", "concession",
        "life_support_flag", "move_in_date", "gift_card", "cooling_off_days",
        "plan_name"}
    /\ DOMAIN ConductWeight = {
        "dead_air", "interruptions", "talk_ratio", "objection_handling",
        "speech_rate"}
    /\ DOMAIN TelcoScriptWeight = {
        "telco_recording_disclosure", "telco_eic_otp", "telco_script_accuracy"}
    /\ DOMAIN TelcoFactualWeight = {
        "telco_nbn_speeds", "telco_promo_price", "telco_regular_price",
        "telco_minimum_total_cost", "telco_hardware_modem"}
    /\ DOMAIN TelcoConductWeight = {"telco_pci_mute"}
BY DEF ScriptWeight, FactualWeight, ConductWeight, TelcoScriptWeight,
       TelcoFactualWeight, TelcoConductWeight

\* The catalogues have no check in common, and no check has two types.
LEMMA ChecksApart ==
    /\ EnergyCheck \cap TelcoCheck = {}
    /\ DOMAIN ScriptWeight \cap DOMAIN FactualWeight = {}
    /\ DOMAIN ScriptWeight \cap DOMAIN ConductWeight = {}
    /\ DOMAIN FactualWeight \cap DOMAIN ConductWeight = {}
BY CheckNames DEF EnergyCheck, TelcoCheck

\* A set of five at most is finite.
LEMMA FiveAreFinite ==
    ASSUME NEW a, NEW b, NEW c, NEW d, NEW e PROVE IsFiniteSet({a, b, c, d, e})
<1> DEFINE T2 == {a} \cup {b}
           T3 == T2 \cup {c}
           T4 == T3 \cup {d}
<1>1. IsFiniteSet({a})
    BY FS_Singleton
<1>2. IsFiniteSet(T2)
    BY <1>1, FS_AddElement
<1>3. IsFiniteSet(T3)
    <2> HIDE DEF T2
    <2> QED BY <1>2, FS_AddElement
<1>4. IsFiniteSet(T4)
    <2> HIDE DEF T3
    <2> QED BY <1>3, FS_AddElement
<1>5. IsFiniteSet(T4 \cup {e})
    <2> HIDE DEF T4
    <2> QED BY <1>4, FS_AddElement
<1>6. T4 \cup {e} = {a, b, c, d, e}
    OBVIOUS
<1> QED BY <1>5, <1>6

\* An energy check weighs what the catalogue of its type says.
LEMMA EnergyWeights ==
    /\ IsFiniteSet(EnergyCheck)
    /\ \A check \in DOMAIN ScriptWeight : Weights[check] = ScriptWeight[check]
    /\ \A check \in DOMAIN FactualWeight : Weights[check] = FactualWeight[check]
    /\ \A check \in DOMAIN ConductWeight : Weights[check] = ConductWeight[check]
    /\ \A check \in EnergyCheck : Weights[check] \in Nat
<1>1. IsFiniteSet(EnergyCheck)
    <2>1. /\ IsFiniteSet(DOMAIN ScriptWeight)
          /\ IsFiniteSet(DOMAIN FactualWeight)
          /\ IsFiniteSet(DOMAIN ConductWeight)
        <3> DEFINE S1 == {"recording_disclaimer", "agent_identification",
                          "account_holder", "vdo_comparison", "dmo_comparison"}
                   S2 == {"explicit_consent", "cooling_off", "terms_conditions",
                          "life_support_enquiry", "right_to_end_call"}
                   F1 == {"peak_rate", "supply_charge", "email", "customer_name", "dob"}
                   F2 == {"supply_address", "nmi", "mirn", "fuel_type", "concession"}
                   F3 == {"life_support_flag", "move_in_date", "gift_card",
                          "cooling_off_days", "plan_name"}
                   C1 == {"dead_air", "interruptions", "talk_ratio",
                          "objection_handling", "speech_rate"}
        <3>1. /\ DOMAIN ScriptWeight = S1 \cup S2
              /\ DOMAIN FactualWeight = (F1 \cup F2) \cup F3
            BY CheckNames
        <3>2. /\ IsFiniteSet(S1) /\ IsFiniteSet(S2)
              /\ IsFiniteSet(F1) /\ IsFiniteSet(F2) /\ IsFiniteSet(F3)
            BY FiveAreFinite
        <3>3. IsFiniteSet(C1) /\ DOMAIN ConductWeight = C1
            <4>1. IsFiniteSet(C1)
                BY FiveAreFinite
            <4> QED BY <4>1, CheckNames
        <3> HIDE DEF S1, S2, F1, F2, F3, C1
        <3>4. IsFiniteSet(S1 \cup S2) /\ IsFiniteSet(F1 \cup F2)
            BY <3>2, FS_Union
        <3>5. IsFiniteSet((F1 \cup F2) \cup F3)
            BY <3>2, <3>4, FS_Union
        <3> QED BY <3>1, <3>3, <3>4, <3>5
    <2>2. IsFiniteSet(DOMAIN ScriptWeight \cup DOMAIN FactualWeight)
        BY <2>1, FS_Union
    <2> QED BY <2>1, <2>2, FS_Union DEF EnergyCheck
<1>2. ASSUME NEW check \in DOMAIN ScriptWeight PROVE Weights[check] = ScriptWeight[check]
    BY ChecksApart DEF Weights, Weight, EnergyCheck, TelcoCheck
<1>3. ASSUME NEW check \in DOMAIN FactualWeight PROVE Weights[check] = FactualWeight[check]
    BY ChecksApart DEF Weights, Weight, EnergyCheck, TelcoCheck
<1>4. ASSUME NEW check \in DOMAIN ConductWeight PROVE Weights[check] = ConductWeight[check]
    BY ChecksApart DEF Weights, Weight, EnergyCheck, TelcoCheck
<1>5. /\ \A check \in DOMAIN ScriptWeight : ScriptWeight[check] \in Nat
      /\ \A check \in DOMAIN FactualWeight : FactualWeight[check] \in Nat
      /\ \A check \in DOMAIN ConductWeight : ConductWeight[check] \in Nat
    BY DEF ScriptWeight, FactualWeight, ConductWeight
<1>6. \A check \in EnergyCheck : Weights[check] \in Nat
    BY <1>2, <1>3, <1>4, <1>5 DEF EnergyCheck
<1> QED BY <1>1, <1>2, <1>3, <1>4, <1>6

\* One check more adds its weight.
LEMMA TotalAdds ==
    /\ Total({}) = 0
    /\ \A s \in SUBSET EnergyCheck : Total(s) \in Nat
    /\ \A s \in SUBSET EnergyCheck : \A check \in EnergyCheck \ s :
          Total(s \cup {check}) = Weights[check] + Total(s)
    /\ \A s, t \in SUBSET EnergyCheck : s \subseteq t => Total(s) <= Total(t)
    /\ \A s, t \in SUBSET EnergyCheck : Total(s) = Total(s \cap t) + Total(s \ t)
<1>1. /\ Total({}) = 0
      /\ \A s \in SUBSET EnergyCheck :
            /\ Total(s) \in Int
            /\ \A check \in s : Total(s) = Weights[check] + Total(s \ {check})
    BY EnergyWeights, SumAdds DEF Total
<1>2. ASSUME NEW t \in SUBSET EnergyCheck
      PROVE  \A s \in SUBSET t : Total(s) <= Total(t)
                                   /\ Total(t) = Total(s) + Total(t \ s)
    <2>1. IsFiniteSet(t) /\ \A check \in t : Weights[check] \in Nat
        BY EnergyWeights, FS_Subset
    <2>2. \A check \in t : Weights[check] \in Int
        BY <2>1
    <2> SUFFICES ASSUME NEW s \in SUBSET t
                 PROVE  Total(s) <= Total(t) /\ Total(t) = Total(s) + Total(t \ s)
        OBVIOUS
    <2>3. Total(s) <= Total(t)
        BY <2>1, SumGrows DEF Total
    <2>4. Total(t) = Total(s) + Total(t \ s)
        BY <2>1, <2>2, SumParts DEF Total
    <2> QED BY <2>3, <2>4
<1>3. ASSUME NEW s \in SUBSET EnergyCheck PROVE Total(s) \in Nat
    <2>1. Total({}) <= Total(s)
        BY <1>2
    <2> QED BY <1>1, <2>1
<1>4. ASSUME NEW s \in SUBSET EnergyCheck, NEW check \in EnergyCheck \ s
      PROVE  Total(s \cup {check}) = Weights[check] + Total(s)
    <2>1. (s \cup {check}) \ {check} = s
        OBVIOUS
    <2>2. s \cup {check} \in SUBSET EnergyCheck
        OBVIOUS
    <2> QED BY <1>1, <2>1, <2>2
<1>5. ASSUME NEW s \in SUBSET EnergyCheck, NEW t \in SUBSET EnergyCheck
      PROVE  Total(s) = Total(s \cap t) + Total(s \ t)
    <2>1. s \ (s \cap t) = s \ t
        OBVIOUS
    <2>2. Total(s) = Total(s \cap t) + Total(s \ (s \cap t))
        BY <1>2
    <2> QED BY <2>1, <2>2
<1> QED BY <1>1, <1>2, <1>3, <1>4, <1>5

\* Checks that apply to every sale and weigh ten.
Always == {"recording_disclaimer", "account_holder", "explicit_consent",
           "cooling_off", "life_support_enquiry", "peak_rate", "supply_charge",
           "email", "supply_address", "life_support_flag"}

\* There are ten of them.
LEMMA AlwaysWeighs ==
    /\ Always \subseteq EnergyCheck
    /\ Always \cap DOMAIN ConductWeight = {}
    /\ Total(Always) = 100
<1> DEFINE T1 == {} \cup {"recording_disclaimer"}
           T2 == T1 \cup {"account_holder"}
           T3 == T2 \cup {"explicit_consent"}
           T4 == T3 \cup {"cooling_off"}
           T5 == T4 \cup {"life_support_enquiry"}
           T6 == T5 \cup {"peak_rate"}
           T7 == T6 \cup {"supply_charge"}
           T8 == T7 \cup {"email"}
           T9 == T8 \cup {"supply_address"}
           T10 == T9 \cup {"life_support_flag"}
<1>1. Always \subseteq DOMAIN ScriptWeight \cup DOMAIN FactualWeight
    BY CheckNames DEF Always
<1>2. \A check \in Always : Weights[check] = 10
    <2>1. /\ \A check \in Always \cap DOMAIN ScriptWeight : ScriptWeight[check] = 10
          /\ \A check \in Always \cap DOMAIN FactualWeight : FactualWeight[check] = 10
        BY DEF Always, ScriptWeight, FactualWeight
    <2> QED BY <1>1, <2>1, EnergyWeights
<1>3. Always \subseteq EnergyCheck
    BY <1>1 DEF EnergyCheck
<1>4. ASSUME NEW s \in SUBSET Always, NEW check \in Always, check \notin s
      PROVE  Total(s \cup {check}) = 10 + Total(s)
    BY <1>2, <1>3, <1>4, TotalAdds
<1>5. Total({}) = 0
    BY TotalAdds
<1>6. Total(T1) = 10 /\ T1 \in SUBSET Always
    <2>1. {} \in SUBSET Always /\ "recording_disclaimer" \in Always
        BY DEF Always
    <2> QED BY <1>4, <1>5, <2>1
<1>7. Total(T2) = 20 /\ T2 \in SUBSET Always
    <2>1. "account_holder" \notin T1 /\ "account_holder" \in Always
        BY DEF Always
    <2> HIDE DEF T1
    <2> QED BY <1>4, <1>6, <2>1
<1>8. Total(T3) = 30 /\ T3 \in SUBSET Always
    <2>1. "explicit_consent" \notin T2 /\ "explicit_consent" \in Always
        BY DEF Always
    <2> HIDE DEF T2
    <2> QED BY <1>4, <1>7, <2>1
<1>9. Total(T4) = 40 /\ T4 \in SUBSET Always
    <2>1. "cooling_off" \notin T3 /\ "cooling_off" \in Always
        BY DEF Always
    <2> HIDE DEF T3
    <2> QED BY <1>4, <1>8, <2>1
<1>10. Total(T5) = 50 /\ T5 \in SUBSET Always
    <2>1. "life_support_enquiry" \notin T4 /\ "life_support_enquiry" \in Always
        BY DEF Always
    <2> HIDE DEF T4
    <2> QED BY <1>4, <1>9, <2>1
<1>11. Total(T6) = 60 /\ T6 \in SUBSET Always
    <2>1. "peak_rate" \notin T5 /\ "peak_rate" \in Always
        BY DEF Always
    <2> HIDE DEF T5
    <2> QED BY <1>4, <1>10, <2>1
<1>12. Total(T7) = 70 /\ T7 \in SUBSET Always
    <2>1. "supply_charge" \notin T6 /\ "supply_charge" \in Always
        BY DEF Always
    <2> HIDE DEF T6
    <2> QED BY <1>4, <1>11, <2>1
<1>13. Total(T8) = 80 /\ T8 \in SUBSET Always
    <2>1. "email" \notin T7 /\ "email" \in Always
        BY DEF Always
    <2> HIDE DEF T7
    <2> QED BY <1>4, <1>12, <2>1
<1>14. Total(T9) = 90 /\ T9 \in SUBSET Always
    <2>1. "supply_address" \notin T8 /\ "supply_address" \in Always
        BY DEF Always
    <2> HIDE DEF T8
    <2> QED BY <1>4, <1>13, <2>1
<1>15. Total(T10) = 100
    <2>1. "life_support_flag" \notin T9 /\ "life_support_flag" \in Always
        BY DEF Always
    <2> HIDE DEF T9
    <2> QED BY <1>4, <1>14, <2>1
<1>16. T10 = Always
    BY DEF Always
<1>17. Always \cap DOMAIN ConductWeight = {}
    BY CheckNames DEF Always
<1> QED BY <1>3, <1>15, <1>16, <1>17

\* Behaviour checks weigh sixteen together.
LEMMA ConductWeighs ==
    DOMAIN ConductWeight \subseteq EnergyCheck /\ Total(DOMAIN ConductWeight) = 16
<1> DEFINE C == DOMAIN ConductWeight
           T1 == {} \cup {"dead_air"}
           T2 == T1 \cup {"interruptions"}
           T3 == T2 \cup {"talk_ratio"}
           T4 == T3 \cup {"objection_handling"}
           T5 == T4 \cup {"speech_rate"}
<1>1. C \subseteq EnergyCheck
    BY DEF EnergyCheck
<1>2. /\ C = T5
      /\ Weights["dead_air"] = 4 /\ Weights["interruptions"] = 3
      /\ Weights["talk_ratio"] = 3 /\ Weights["objection_handling"] = 3
      /\ Weights["speech_rate"] = 3
    BY CheckNames, EnergyWeights DEF ConductWeight
<1> HIDE DEF C
<1>3. ASSUME NEW s \in SUBSET C, NEW check \in C, check \notin s
      PROVE  Total(s \cup {check}) = Weights[check] + Total(s)
    BY <1>1, <1>3, TotalAdds
<1>4. Total({}) = 0
    BY TotalAdds
<1>5. Total(T1) = 4 /\ T1 \in SUBSET C
    <2>1. {} \in SUBSET C /\ "dead_air" \in C
        BY <1>2
    <2>2. Total(T1) = Weights["dead_air"] + Total({})
        BY <1>3, <2>1
    <2>3. Weights["dead_air"] = 4
        BY <1>2
    <2>4. T1 \in SUBSET C
        BY <2>1
    <2> HIDE DEF T1
    <2> QED BY <1>4, <2>2, <2>3, <2>4
<1>6. Total(T2) = 7 /\ T2 \in SUBSET C
    <2>1. "interruptions" \notin T1 /\ "interruptions" \in C
        BY <1>2
    <2> HIDE DEF T1
    <2> QED BY <1>2, <1>3, <1>5, <2>1
<1>7. Total(T3) = 10 /\ T3 \in SUBSET C
    <2>1. "talk_ratio" \notin T2 /\ "talk_ratio" \in C
        BY <1>2
    <2> HIDE DEF T2
    <2> QED BY <1>2, <1>3, <1>6, <2>1
<1>8. Total(T4) = 13 /\ T4 \in SUBSET C
    <2>1. "objection_handling" \notin T3 /\ "objection_handling" \in C
        BY <1>2
    <2> HIDE DEF T3
    <2> QED BY <1>2, <1>3, <1>7, <2>1
<1>9. Total(T5) = 16
    <2>1. "speech_rate" \notin T4 /\ "speech_rate" \in C
        BY <1>2
    <2> HIDE DEF T4
    <2> QED BY <1>2, <1>3, <1>8, <2>1
<1> QED BY <1>1, <1>2, <1>9 DEF C

\* The checks that apply are those of the catalogue whose lists the sale is on.
LEMMA CatalogueApplies ==
    ASSUME EvaluationInv, pc = "checks",
           NEW checks \in {EnergyCheck, TelcoCheck}, versions = BuildLibrary(checks)
    PROVE  \A check : check \in applies <=>
              /\ check \in checks
              /\ \A d \in Dimension : Allows(Applicability(check)[d], sale[d])
<1>1. Resolves(versions, date) /\ applies = ResolvedChecks(versions, date, sale)
    BY DEF EvaluationInv
<1>2. DOMAIN versions = checks
    BY DEF BuildLibrary
<1>3. ASSUME NEW check \in checks
      PROVE  /\ versions[check] # <<>>
             /\ Active(versions[check], date).applicability = Applicability(check)
    <2> DEFINE version == [from |-> EffectiveFrom, to |-> Forever,
                           applicability |-> Applicability(check)]
    <2>1. versions[check] = <<version>> /\ version.applicability = Applicability(check)
        BY DEF BuildLibrary
    <2> HIDE DEF version
    <2>2. versions[check] # <<>>
        BY <2>1
    <2>3. Cardinality(Matches(versions[check], date)) = 1
        BY <1>1, <1>2, <2>2 DEF Resolves, Resolvable
    <2>4. Matches(versions[check], date) \subseteq {version}
        BY <2>1 DEF Matches, ToSet
    <2>5. Matches(versions[check], date) # {}
        BY <2>3, FS_EmptySet
    <2>6. Active(versions[check], date) = version
        BY <2>4, <2>5 DEF Active
    <2> QED BY <2>1, <2>2, <2>6
<1> QED BY <1>1, <1>2, <1>3 DEF ResolvedChecks, Applicable

\* The lists of states of the two comparisons have every state of the
\* catalogue on one of them, and none on both.
LEMMA OneOfferApplies ==
    ASSUME EvaluationInv, pc = "checks", "vdo_comparison" \in DOMAIN versions,
           sale.state \in {"VIC", "NSW", "SA", "QLD"}
    PROVE  Cardinality(applies \cap {"vdo_comparison", "dmo_comparison"}) = 1
<1>1. versions = BuildLibrary(EnergyCheck)
    <2>1. "vdo_comparison" \notin TelcoCheck /\ "vdo_comparison" # "dated"
        BY CheckNames DEF TelcoCheck
    <2> QED BY <2>1 DEF EvaluationInv, Libraries, BuildLibrary
<1>2. {"vdo_comparison", "dmo_comparison"} \subseteq EnergyCheck
    BY CheckNames DEF EnergyCheck
<1>3. /\ Applicability("vdo_comparison") = [Everywhere EXCEPT !.state = {"VIC"}]
      /\ Applicability("dmo_comparison") =
            [Everywhere EXCEPT !.state = {"NSW", "SA", "QLD"}]
    BY DEF Applicability
<1>4. ASSUME NEW check \in EnergyCheck, NEW states, states # Unrestricted,
             Applicability(check) = [Everywhere EXCEPT !.state = states]
      PROVE  check \in applies <=> sale.state \in states
    <2>1. check \in applies <=>
            \A d \in Dimension : Allows(Applicability(check)[d], sale[d])
        BY <1>1, CatalogueApplies
    <2>2. \A d \in Dimension : Applicability(check)[d] =
            IF d = "state" THEN states ELSE Unrestricted
        BY <1>4 DEF Everywhere
    <2>3. "state" \in Dimension
        BY DEF Dimension
    <2> QED BY <1>4, <2>1, <2>2, <2>3 DEF Allows
<1>5. {"VIC"} # Unrestricted /\ {"NSW", "SA", "QLD"} # Unrestricted
    BY DEF Unrestricted
<1>6. /\ "vdo_comparison" \in applies <=> sale.state = "VIC"
      /\ "dmo_comparison" \in applies <=> sale.state \in {"NSW", "SA", "QLD"}
    <2> DEFINE vic == {"VIC"}
               others == {"NSW", "SA", "QLD"}
    <2>1. /\ vic # Unrestricted /\ others # Unrestricted
          /\ Applicability("vdo_comparison") = [Everywhere EXCEPT !.state = vic]
          /\ Applicability("dmo_comparison") = [Everywhere EXCEPT !.state = others]
        BY <1>3, <1>5
    <2> HIDE DEF vic, others
    <2>2. "vdo_comparison" \in applies <=> sale.state \in vic
        BY <1>2, <1>4, <2>1
    <2>3. "dmo_comparison" \in applies <=> sale.state \in others
        BY <1>2, <1>4, <2>1
    <2> QED BY <2>2, <2>3 DEF vic, others
<1>7. PICK check \in {"vdo_comparison", "dmo_comparison"} :
        applies \cap {"vdo_comparison", "dmo_comparison"} = {check}
    BY <1>6
<1> QED BY <1>7, FS_Singleton

\* The checks of an energy sale weigh enough that all behaviour checks together
\* leave it above the pass mark.
LEMMA ConductLeavesThePassMark ==
    ASSUME EvaluationInv, pc = "checks", applies \subseteq EnergyCheck
    PROVE  100 * Total(applies \ DOMAIN ConductWeight) >= PassMark * Total(applies)
<1> DEFINE rest == applies \ DOMAIN ConductWeight
           conduct == applies \cap DOMAIN ConductWeight
<1>1. Total(applies) = Total(conduct) + Total(rest)
    BY TotalAdds, ConductWeighs
<1>2. Total(conduct) \in Nat /\ Total(conduct) <= 16 /\ Total(rest) \in Nat
    BY TotalAdds, ConductWeighs
<1>3. CASE versions = BuildLibrary(EnergyCheck)
    <2>1. \A check \in Always : Applicability(check) = Everywhere
        BY DEF Always, Applicability
    <2>2. \A check \in Always : check \in applies
        <3>1. \A d \in Dimension : Everywhere[d] = Unrestricted
            BY DEF Everywhere
        <3> QED BY <1>3, <2>1, <3>1, AlwaysWeighs, CatalogueApplies DEF Allows
    <2>3. Always \subseteq rest
        BY <2>2, AlwaysWeighs
    <2>4. 100 <= Total(rest)
        BY <2>3, AlwaysWeighs, TotalAdds
    <2> HIDE DEF rest, conduct
    <2> QED BY <1>1, <1>2, <2>4 DEF PassMark, rest
<1>4. CASE versions # BuildLibrary(EnergyCheck)
    <2>1. applies \subseteq DOMAIN versions
        BY DEF EvaluationInv, ResolvedChecks
    <2>2. DOMAIN versions \cap EnergyCheck = {}
        BY <1>4, ChecksApart, NotDated DEF EvaluationInv, Libraries, BuildLibrary
    <2>3. applies = {} /\ rest = {}
        BY <2>1, <2>2
    <2>4. Total(applies) = 0 /\ Total(rest) = 0
        BY <2>3, TotalAdds
    <2> QED BY <2>4 DEF PassMark
<1> QED BY <1>3, <1>4

\* Every energy sale of the four states is checked for one default-offer
\* comparison, and one that fails its behaviour checks alone passes.
THEOREM ChecksAreThoseOfTheSale == Spec => []ChecksFitTheSale
<1>1. EvaluationInv => ChecksFitTheSale
    <2> SUFFICES ASSUME EvaluationInv PROVE ChecksFitTheSale
        OBVIOUS
    <2>1. OneDefaultOfferComparison
        BY OneOfferApplies DEF OneDefaultOfferComparison
    <2>2. DOMAIN ConductWeight \subseteq NonCritical
        BY DEF NonCritical
    <2>3. BehaviourNeverBlocks
        BY <2>2, ConductLeavesThePassMark DEF BehaviourNeverBlocks
    <2> QED BY <2>1, <2>3 DEF ChecksFitTheSale
<1> QED BY <1>1, ResultsAreOfTheirInputs, PTL

---------------------------------------------------------------------------
(* Disclosures *)

Matching == INSTANCE FoldFacts WITH Step <- Longer
Choosing == INSTANCE FoldFacts WITH Step <- Better

LongestFrom(base, seq) == FoldLeft(Longer, base, seq)
BestFrom(base, seq)    == FoldLeft(Better, base, seq)

\* Folding along a sequence is the same there.
LEMMA SameFolds ==
    /\ \A base, seq : Matching!FoldedLeft(base, seq) = LongestFrom(base, seq)
    /\ \A base, seq : Choosing!FoldedLeft(base, seq) = BestFrom(base, seq)
BY DEF LongestFrom, BestFrom, Matching!FoldedLeft, Choosing!FoldedLeft,
       FoldLeft, MapThenFoldSet, Matching!FoldLeft, Matching!MapThenFoldSet,
       Choosing!FoldLeft, Choosing!MapThenFoldSet, Max, Matching!Max, Choosing!Max

\* What is common to the first n tokens of a phrase of m and the first b of a
\* text has at most n tokens and at most b.
Longest(longest, m, b) ==
    /\ longest \in [0..m -> Nat]
    /\ \A n \in 0..m : longest[n] <= n /\ longest[n] <= b

\* So it stays with one token more.
LEMMA LongerGrows ==
    ASSUME NEW m \in Nat, NEW b \in Nat, NEW longest, Longest(longest, m, b),
           NEW places \in SUBSET (1..m)
    PROVE  Longest(Longer(longest, places), m, b + 1)
<1> DEFINE Reached(n) == {longest[n]} \cup {longest[k - 1] + 1 : k \in places \cap (1..n)}
<1>1. DOMAIN longest = 0..m
    BY DEF Longest
<1>2. Longer(longest, places) = [n \in 0..m |-> Max(Reached(n))]
    BY <1>1 DEF Longer
<1>3. ASSUME NEW n \in 0..m
      PROVE  Max(Reached(n)) \in Nat /\ Max(Reached(n)) <= n /\ Max(Reached(n)) <= b + 1
    <2>1. longest[n] \in Nat /\ longest[n] <= n /\ longest[n] <= b
        BY DEF Longest
    <2>2. ASSUME NEW k \in places \cap (1..n)
          PROVE  /\ longest[k - 1] + 1 \in Nat
                 /\ longest[k - 1] + 1 <= n /\ longest[k - 1] + 1 <= b + 1
        <3>1. k - 1 \in 0..m /\ k <= n
            OBVIOUS
        <3>2. longest[k - 1] \in Nat /\ longest[k - 1] <= k - 1 /\ longest[k - 1] <= b
            BY <3>1 DEF Longest
        <3> QED BY <3>1, <3>2
    <2>3. \A x \in Reached(n) : x \in Nat /\ x <= n /\ x <= b + 1
        BY <2>1, <2>2
    <2>4. Reached(n) # {}
        OBVIOUS
    <2> HIDE DEF Reached
    <2>5. Reached(n) \in SUBSET Nat /\ Reached(n) \in SUBSET Int
        BY <2>3
    <2>6. IsFiniteSet(Reached(n))
        BY <2>3, <2>5, FS_BoundedSetOfNaturals
    <2>7. Extending!IsFiniteSet(Reached(n)) /\ Extending!Max(Reached(n)) = Max(Reached(n))
        BY <2>6, SameThere
    <2>8. Extending!Max(Reached(n)) \in Reached(n)
        BY <2>4, <2>5, <2>7, Extending!Extremes
    <2> QED BY <2>3, <2>7, <2>8
<1> HIDE DEF Reached
<1> QED BY <1>2, <1>3 DEF Longest

Finite(seq) == Len(seq) \in Nat /\ DOMAIN seq = 1..Len(seq)

\* A phrase and a text have at most the tokens of either in common.
LEMMA CommonIsInBoth ==
    ASSUME NEW phrase, Finite(phrase), NEW text, Finite(text)
    PROVE  /\ Common(phrase, text) \in Nat
           /\ Common(phrase, text) <= Len(phrase)
           /\ Common(phrase, text) <= Len(text)
<1> DEFINE m == Len(phrase)
           n == Len(text)
           none == [i \in 0..m |-> 0]
           places == [i \in DOMAIN text |-> {k \in DOMAIN phrase : phrase[k] = text[i]}]
<1>1. m \in Nat /\ DOMAIN phrase = 1..m /\ n \in Nat /\ DOMAIN text = 1..n
    BY DEF Finite
<1>2. Common(phrase, text) = LongestFrom(none, places)[m]
    BY DEF Common, LongestFrom
<1>3. DOMAIN places = 1..n /\ \A i \in 1..n : places[i] \in SUBSET (1..m)
    BY <1>1
<1>4. Longest(none, m, 0)
    BY <1>1 DEF Longest
<1> HIDE DEF places, none, m, n
<1>5. \E run : Matching!RunsThrough(run, none, places, n)
                 /\ Matching!FoldedLeft(none, places) = run[n]
    BY <1>1, <1>3, Matching!FoldLeftRuns
<1>6. PICK run : Matching!RunsThrough(run, none, places, n)
                 /\ Matching!FoldedLeft(none, places) = run[n]
    BY <1>5
<1>7. run[0] = none /\ \A k \in 1..n : run[k] = Longer(run[k - 1], places[k])
    BY <1>6 DEF Matching!RunsThrough
<1> DEFINE Good == {k \in Nat : k <= n => Longest(run[k], m, k)}
<1>8. 0 \in Good
    BY <1>4, <1>7
<1>9. ASSUME NEW k \in Nat, k \in Good PROVE k + 1 \in Good
    <2> SUFFICES ASSUME k + 1 <= n PROVE Longest(run[k + 1], m, k + 1)
        OBVIOUS
    <2>1. Longest(run[k], m, k) /\ k + 1 \in 1..n /\ (k + 1) - 1 = k
        BY <1>1, <1>9
    <2>2. run[k + 1] = Longer(run[k], places[k + 1])
        BY <1>7, <2>1
    <2>3. places[k + 1] \in SUBSET (1..m)
        BY <1>3, <2>1
    <2> QED BY <1>1, <2>1, <2>2, <2>3, LongerGrows
<1> HIDE DEF Good
<1>10. n \in Good
    BY <1>1, <1>8, <1>9, Extending!NumberInduction
<1>11. Longest(run[n], m, n)
    BY <1>1, <1>10 DEF Good
<1>12. Common(phrase, text) = run[n][m]
    BY <1>2, <1>6, SameFolds
<1>13. m \in 0..m
    BY <1>1
<1> QED BY <1>1, <1>11, <1>12, <1>13 DEF Longest, m, n

\* Hundredths of a percent.
Scores == {n \in Nat : n <= 10000}

ShareOf(part, whole) ==
    part \in Nat /\ whole \in Nat /\ whole # 0 /\ part <= 10000 * whole

\* A share of at most everything.
LEMMA Quotient ==
    ASSUME NEW part, NEW whole, ShareOf(part, whole) PROVE part \div whole \in Scores
<1> DEFINE q == part \div whole
<1> USE DEF ShareOf
<1>1. q \in Int /\ whole * q <= part /\ part < whole * q + whole
    OBVIOUS
<1> HIDE DEF q
<1>2. ASSUME q > 10000 PROVE FALSE
    <2>1. whole * q >= whole * 10001
        BY <1>1, <1>2
    <2> QED BY <1>1, <2>1
<1>3. ASSUME q < 0 PROVE FALSE
    <2>1. whole * q <= whole * (-1)
        BY <1>1, <1>3
    <2> QED BY <1>1, <2>1
<1> QED BY <1>1, <1>2, <1>3 DEF q, Scores

\* The ratio is between nothing and all of a hundred percent.
LEMMA RatioIsPercent ==
    ASSUME NEW phrase, Finite(phrase), Len(phrase) # 0, NEW text, Finite(text)
    PROVE  Ratio(phrase, text) \in Scores
<1> DEFINE common == Common(phrase, text)
           p == Len(phrase)
           t == Len(text)
<1>1. common \in Nat /\ common <= p /\ common <= t
    BY CommonIsInBoth
<1>2. p \in Nat /\ p # 0 /\ t \in Nat
    BY DEF Finite
<1>3. Ratio(phrase, text) = (20000 * common) \div (p + t)
    BY DEF Ratio
<1> HIDE DEF common, p, t
<1> DEFINE part == 20000 * common
           whole == p + t
<1>4. ShareOf(part, whole)
    BY <1>1, <1>2 DEF ShareOf
<1> HIDE DEF part, whole
<1>5. part \div whole \in Scores
    BY <1>4, Quotient
<1> QED BY <1>3, <1>5 DEF part, whole

\* A disclosure is looked for by one phrase and a few anchors.
Wording(params) ==
    /\ IsFiniteSet(params.anchors)
    /\ \E phrase : /\ params.phrases = {phrase}
                   /\ Finite(phrase) /\ Len(phrase) # 0

\* The followed disclosures are.
LEMMA ScriptFollowed ==
    ASSUME NEW check \in Followed, TypeOf(check) = "VERBATIM"
    PROVE  Wording(ParamsOf(check))
<1>1. check \in FollowedScript
    <2>1. ASSUME NEW c \in FollowedFactual PROVE TypeOf(c) = "FACTUAL_MATCH"
        <3>1. /\ c \notin DOMAIN ScriptWeight \cup DOMAIN TelcoScriptWeight
              /\ c \in DOMAIN FactualWeight \cup DOMAIN TelcoFactualWeight
            BY CheckNames DEF FollowedFactual
        <3> QED BY <3>1 DEF TypeOf
    <2>2. ASSUME NEW c \in FollowedConduct PROVE TypeOf(c) = "BEHAVIOUR"
        BY CheckNames DEF FollowedConduct, TypeOf
    <2> QED BY <2>1, <2>2 DEF Followed
<1>2. ParamsOf(check) = ScriptParams(check)
    BY DEF ParamsOf
<1> DEFINE Declares(c) ==
        /\ {"anchors", "phrases"} \subseteq DOMAIN ScriptDeclared(c)
        /\ Wording(ScriptDeclared(c))
<1>3. ASSUME NEW c, NEW anchors, IsFiniteSet(anchors), NEW phrase,
             Finite(phrase), Len(phrase) # 0,
             {"anchors", "phrases"} \subseteq DOMAIN ScriptDeclared(c),
             ScriptDeclared(c).anchors = anchors, ScriptDeclared(c).phrases = {phrase}
      PROVE  Declares(c)
    BY <1>3 DEF Wording
<1>4. \A a, b : IsFiniteSet({a, b})
    <2> SUFFICES ASSUME NEW a, NEW b PROVE IsFiniteSet({a, b})
        OBVIOUS
    <2>1. IsFiniteSet({a} \cup {b})
        BY FS_Singleton, FS_AddElement
    <2>2. {a} \cup {b} = {a, b}
        OBVIOUS
    <2> QED BY <2>1, <2>2
<1> HIDE DEF Declares
<1>5. Declares("recording_disclaimer")
    <2> DEFINE phrase == <<"this", "call", "is", "being", "recorded">>
               declared == ScriptDeclared("recording_disclaimer")
    <2>1. declared = [anchors |-> {"call", "recorded"}, phrases |-> {phrase}]
        BY DEF ScriptDeclared
    <2>2. Finite(phrase) /\ Len(phrase) # 0
        BY DEF Finite
    <2> HIDE DEF phrase
    <2>3. /\ declared.anchors = {"call", "recorded"} /\ declared.phrases = {phrase}
          /\ {"anchors", "phrases"} \subseteq DOMAIN declared
        BY <2>1
    <2> HIDE DEF declared
    <2> QED BY <1>3, <1>4, <2>2, <2>3 DEF declared
<1>6. Declares("explicit_consent")
    <2> DEFINE phrase == <<"do", "you", "provide", "consent", "to", "proceed">>
               declared == ScriptDeclared("explicit_consent")
    <2>1. declared = [anchors |-> {"consent"}, phrases |-> {phrase}]
        BY DEF ScriptDeclared
    <2>2. Finite(phrase) /\ Len(phrase) # 0
        BY DEF Finite
    <2> HIDE DEF phrase
    <2>3. /\ declared.anchors = {"consent"} /\ declared.phrases = {phrase}
          /\ {"anchors", "phrases"} \subseteq DOMAIN declared
        BY <2>1
    <2>4. IsFiniteSet({"consent"})
        BY FS_Singleton
    <2> HIDE DEF declared
    <2> QED BY <1>3, <2>2, <2>3, <2>4 DEF declared
<1>7. Declares("telco_script_accuracy")
    <2> DEFINE phrase == <<"for", "the", "first", "six", "months">>
               declared == ScriptDeclared("telco_script_accuracy")
    <2>1. declared = [anchors |-> {"month", "months"}, phrases |-> {phrase},
                      threshold |-> 6000, ambiguous |-> 4000]
        BY DEF ScriptDeclared
    <2>2. Finite(phrase) /\ Len(phrase) # 0
        BY DEF Finite
    <2> HIDE DEF phrase
    <2>3. /\ declared.anchors = {"month", "months"} /\ declared.phrases = {phrase}
          /\ {"anchors", "phrases"} \subseteq DOMAIN declared
        BY <2>1
    <2> HIDE DEF declared
    <2> QED BY <1>3, <1>4, <2>2, <2>3 DEF declared
<1>8. Declares("telco_recording_disclosure")
    <2> DEFINE phrase == <<"call", "recorded", "quality", "training">>
               declared == ScriptDeclared("telco_recording_disclosure")
    <2>1. declared = [anchors |-> {"recorded", "quality"}, phrases |-> {phrase},
                      threshold |-> 6500, ambiguous |-> 5500]
        BY DEF ScriptDeclared
    <2>2. Finite(phrase) /\ Len(phrase) # 0
        BY DEF Finite
    <2> HIDE DEF phrase
    <2>3. /\ declared.anchors = {"recorded", "quality"} /\ declared.phrases = {phrase}
          /\ {"anchors", "phrases"} \subseteq DOMAIN declared
        BY <2>1
    <2> HIDE DEF declared
    <2> QED BY <1>3, <1>4, <2>2, <2>3 DEF declared
<1>9. Declares(check)
    BY <1>1, <1>5, <1>6, <1>7, <1>8 DEF FollowedScript
<1>10. {"anchors", "phrases"} \subseteq DOMAIN ScriptDefaults
    BY DEF ScriptDefaults
<1>11. /\ ScriptParams(check).anchors = ScriptDeclared(check).anchors
       /\ ScriptParams(check).phrases = ScriptDeclared(check).phrases
    BY <1>9, <1>10 DEF Declares, ScriptParams, Completed
<1> QED BY <1>2, <1>9, <1>11 DEF Declares, Wording

\* Scores are between nothing and all of a hundred percent.
LEMMA ScoreIsPercent ==
    ASSUME NEW params, Wording(params), NEW text, Finite(text)
    PROVE  Score(text, params) \in Scores
<1> DEFINE similarity == PhraseSimilarity(text, params)
           missing == Missing(text, params)
           anchors == Cardinality(params.anchors)
           present == anchors - Cardinality(missing)
           share == (10000 * present) \div anchors
<1>1. PICK phrase : params.phrases = {phrase} /\ Finite(phrase) /\ Len(phrase) # 0
    BY DEF Wording
<1>2. Ratio(phrase, text) \in Scores
    BY <1>1, RatioIsPercent
<1>3. similarity \in Scores
    <2> DEFINE ratio == Ratio(phrase, text)
    <2>1. similarity = Max({Ratio(p, text) : p \in params.phrases})
        BY <1>1 DEF PhraseSimilarity
    <2>2. {Ratio(p, text) : p \in params.phrases} = {ratio}
        BY <1>1
    <2> HIDE DEF ratio
    <2>3. {ratio} \in SUBSET Int /\ {ratio} # {}
        BY <1>2 DEF ratio, Scores
    <2>4. Extending!IsFiniteSet({ratio}) /\ Extending!Max({ratio}) = Max({ratio})
        BY FS_Singleton, SameThere
    <2>5. Extending!Max({ratio}) \in {ratio}
        BY <2>3, <2>4, Extending!Extremes
    <2> QED BY <1>2, <2>1, <2>2, <2>4, <2>5 DEF ratio
<1>4. anchors \in Nat /\ Cardinality(missing) \in Nat /\ Cardinality(missing) <= anchors
    <2>1. missing \in SUBSET params.anchors
        BY DEF Missing
    <2>2. IsFiniteSet(params.anchors)
        BY DEF Wording
    <2> HIDE DEF missing
    <2> QED BY <2>1, <2>2, FS_Subset, FS_CardinalityType
<1>5. Score(text, params) = IF anchors = 0 THEN similarity
                            ELSE (6 * share + 4 * similarity) \div 10
    BY DEF Score
<1> HIDE DEF similarity, missing, anchors
<1>6. ASSUME anchors # 0 PROVE share \in Scores
    <2> DEFINE part == 10000 * present
    <2>1. ShareOf(part, anchors)
        BY <1>4, <1>6 DEF ShareOf
    <2> HIDE DEF part
    <2>2. part \div anchors \in Scores
        BY <2>1, Quotient
    <2> QED BY <2>2 DEF part
<1> HIDE DEF share
<1>7. ASSUME anchors # 0 PROVE (6 * share + 4 * similarity) \div 10 \in Scores
    BY <1>3, <1>6, <1>7 DEF Scores
<1> QED BY <1>3, <1>5, <1>7

\* The best of some readings is one of them, or the one there was before.
LEMMA BestIsOne ==
    ASSUME NEW base, NEW seq, NEW n \in Nat, DOMAIN seq = 1..n
    PROVE  BestFrom(base, seq) \in {base} \cup {seq[i] : i \in 1..n}
<1> DEFINE S == {base} \cup {seq[i] : i \in 1..n}
<1>1. \E run : Choosing!RunsThrough(run, base, seq, n)
                 /\ Choosing!FoldedLeft(base, seq) = run[n]
    BY Choosing!FoldLeftRuns
<1>2. PICK run : Choosing!RunsThrough(run, base, seq, n)
                   /\ Choosing!FoldedLeft(base, seq) = run[n]
    BY <1>1
<1>3. run[0] = base /\ \A k \in 1..n : run[k] = Better(run[k - 1], seq[k])
    BY <1>2 DEF Choosing!RunsThrough
<1>4. base \in S /\ \A i \in 1..n : seq[i] \in S
    OBVIOUS
<1> HIDE DEF S
<1> DEFINE Good == {k \in Nat : k <= n => run[k] \in S}
<1>5. 0 \in Good
    BY <1>3, <1>4
<1>6. ASSUME NEW k \in Nat, k \in Good PROVE k + 1 \in Good
    <2> SUFFICES ASSUME k + 1 <= n PROVE run[k + 1] \in S
        OBVIOUS
    <2>1. run[k] \in S /\ k + 1 \in 1..n /\ (k + 1) - 1 = k
        BY <1>6
    <2>2. run[k + 1] = Better(run[k], seq[k + 1])
        BY <1>3, <2>1
    <2>3. seq[k + 1] \in S
        BY <1>4, <2>1
    <2> QED BY <2>1, <2>2, <2>3 DEF Better
<1> HIDE DEF Good
<1>7. n \in Good
    BY <1>5, <1>6, Extending!NumberInduction
<1>8. run[n] \in S
    BY <1>7 DEF Good
<1> QED BY <1>2, <1>8, SameFolds DEF S

\* Readings of one segment, and of two one after another.
Singles(said, params) == [i \in DOMAIN said |-> Reading(said[i], said[i].text, params)]

Pairs(said, params) ==
    [i \in 1..(Len(said) - 1) |->
        Reading(said[i], said[i].text \o said[i + 1].text, params)]

\* The best reading is one of these, or none.
LEMMA BestIsAReading ==
    ASSUME NEW said \in Seq(Segment), NEW params
    PROVE  LET best == BestReading(said, params) IN
           \/ best = NoReading
           \/ \E i \in DOMAIN said : best = Reading(said[i], said[i].text, params)
           \/ \E i \in 1..(Len(said) - 1) :
                best = Reading(said[i], said[i].text \o said[i + 1].text, params)
<1> DEFINE single == BestFrom(NoReading, Singles(said, params))
           double == BestFrom(single, Pairs(said, params))
           n == Len(said)
<1>1. n \in Nat /\ DOMAIN said = 1..n
    BY LenProperties
<1>2. BestReading(said, params) = IF single.score < params.threshold THEN double ELSE single
    BY DEF BestReading, BestFrom, Singles, Pairs
<1>3. single \in {NoReading} \cup {Singles(said, params)[i] : i \in 1..n}
    <2>1. DOMAIN Singles(said, params) = 1..n
        BY <1>1 DEF Singles
    <2> QED BY <1>1, <2>1, BestIsOne
<1>4. double \in {single} \cup {Pairs(said, params)[i] : i \in 1..(n - 1)}
    <2>1. DOMAIN Pairs(said, params) = 1..(n - 1)
        BY DEF Pairs
    <2>2. CASE n = 0
        <3>1. DOMAIN Pairs(said, params) = 1..0
            BY <2>1, <2>2
        <3>2. double \in {single} \cup {Pairs(said, params)[i] : i \in 1..0}
            BY <3>1, BestIsOne
        <3> QED BY <3>2
    <2>3. CASE n # 0
        <3>1. n - 1 \in Nat
            BY <1>1, <2>3
        <3> QED BY <2>1, <3>1, BestIsOne
    <2> QED BY <2>2, <2>3
<1>5. \A i \in 1..n : Singles(said, params)[i] = Reading(said[i], said[i].text, params)
    BY <1>1 DEF Singles
<1>6. \A i \in 1..(n - 1) : Pairs(said, params)[i]
        = Reading(said[i], said[i].text \o said[i + 1].text, params)
    BY DEF Pairs
<1> HIDE DEF single, double
<1>7. \/ single = NoReading
      \/ \E i \in DOMAIN said : single = Reading(said[i], said[i].text, params)
    BY <1>1, <1>3, <1>5
<1>8. \/ double = single
      \/ \E i \in 1..(n - 1) :
            double = Reading(said[i], said[i].text \o said[i + 1].text, params)
    BY <1>4, <1>6
<1> QED BY <1>2, <1>7, <1>8

Said(call, params) == Filtered(call, LAMBDA s : s.role = params.speaker)

\* What a role says are segments of the call.
LEMMA SaidIsOfTheCall ==
    ASSUME NEW call \in Seq(Segment), NEW params
    PROVE  Said(call, params) \in Seq(Segment) /\ ToSet(Said(call, params)) \subseteq ToSet(call)
<1> DEFINE kept == {i \in DOMAIN call : call[i].role = params.speaker}
           said == Picked(call, Arranged(kept, Rising(kept)))
<1>1. Said(call, params) = said
    BY DEF Said, Filtered
<1>2. kept \in SUBSET (DOMAIN call)
    OBVIOUS
<1> HIDE DEF kept
<1>3. said \in Seq(Segment) /\ ToSet(said) = {call[i] : i \in kept}
    BY <1>2, KeptElements
<1> QED BY <1>1, <1>2, <1>3 DEF ToSet

\* A reading that cites a segment cites one that was said, and misses what it
\* and, of a reading of two, the next one do not say.
ReadFrom(reading, said, params) ==
    \E i \in DOMAIN said :
        /\ reading.segment = said[i].id
        /\ \/ reading.missing = Missing(said[i].text, params)
           \/ /\ i < Len(said)
              /\ reading.missing = Missing(said[i].text \o said[i + 1].text, params)

\* So does the best, and its score is a score.
LEMMA BestIsRead ==
    ASSUME NEW said \in Seq(Segment), NEW params, Wording(params)
    PROVE  LET best == BestReading(said, params) IN
           /\ best.score \in Scores
           /\ best.segment # 0 => ReadFrom(best, said, params)
<1> DEFINE best == BestReading(said, params)
           n == Len(said)
<1>1. n \in Nat /\ DOMAIN said = 1..n /\ \A i \in 1..n : said[i] \in Segment
    BY LenProperties
<1>2. \A s \in Segment : s.text \in Seq(STRING)
    BY DEF Segment
<1>3. \A text \in Seq(STRING) : Score(text, params) \in Scores
    <2>1. \A text \in Seq(STRING) : Finite(text)
        BY LenProperties DEF Finite
    <2> QED BY <2>1, ScoreIsPercent
<1>4. \A s, text : /\ Reading(s, text, params).segment = s.id
                   /\ Reading(s, text, params).score = Score(text, params)
                   /\ Reading(s, text, params).missing = Missing(text, params)
    BY DEF Reading
<1>5. CASE best = NoReading
    BY <1>5 DEF NoReading, Scores
<1>6. ASSUME NEW i \in DOMAIN said, best = Reading(said[i], said[i].text, params)
      PROVE  best.score \in Scores /\ ReadFrom(best, said, params)
    <2>1. said[i].text \in Seq(STRING)
        BY <1>1, <1>2
    <2> HIDE DEF best
    <2> QED BY <1>3, <1>4, <1>6, <2>1 DEF ReadFrom
<1>7. ASSUME NEW i \in 1..(n - 1),
             best = Reading(said[i], said[i].text \o said[i + 1].text, params)
      PROVE  best.score \in Scores /\ ReadFrom(best, said, params)
    <2>1. i \in DOMAIN said /\ i + 1 \in DOMAIN said /\ i < n
        BY <1>1
    <2>2. said[i].text \in Seq(STRING) /\ said[i + 1].text \in Seq(STRING)
        BY <1>1, <1>2, <2>1
    <2> DEFINE text == said[i].text \o said[i + 1].text
    <2>3. text \in Seq(STRING)
        BY <2>2
    <2> HIDE DEF best, text
    <2>4. best = Reading(said[i], text, params)
        BY <1>7 DEF text
    <2>5. best.score \in Scores /\ best.segment = said[i].id
            /\ best.missing = Missing(text, params)
        BY <1>3, <1>4, <2>3, <2>4
    <2> QED BY <2>1, <2>5 DEF ReadFrom, text
<1>8. \/ best = NoReading
      \/ \E i \in DOMAIN said : best = Reading(said[i], said[i].text, params)
      \/ \E i \in 1..(n - 1) :
            best = Reading(said[i], said[i].text \o said[i + 1].text, params)
    BY BestIsAReading
<1> HIDE DEF best
<1> QED BY <1>5, <1>6, <1>7, <1>8 DEF best

\* A result of its types that cites segments of a call.
ResultOf(call, r) ==
    /\ r.outcome \in Outcome
    /\ r.confidence \in 0..100
    /\ \A e \in ToSet(r.evidence) : \E s \in ToSet(call) : e.segment = s.id

\* What becomes of a disclosure check: it passes on a reading that misses
\* nothing, and cites one reading or nothing.
LEMMA ScriptsAreJudged ==
    ASSUME EvaluationInv, Followable("VERBATIM")
    PROVE  LET said == Said(input.call, input.params) IN
           /\ said \in Seq(Segment)
           /\ ResultOf(input.call, result)
           /\ result.outcome = "PASS" =>
                \E best : /\ best.missing = {} /\ ReadFrom(best, said, input.params)
                          /\ result.evidence = ScriptEvidence(best, "SUPPORTING")
<1> DEFINE params == input.params
           said == Said(input.call, params)
           best == BestReading(said, params)
<1>1. pc = "evaluated" /\ TypeOf(input.check) = "VERBATIM"
    BY DEF Followable
<1>2. input.call \in Seq(Segment) /\ Wording(params) /\ result = Dispatch(input)
    BY <1>1, InputIs, ScriptFollowed
<1>3. result = EvaluateScript(input, input.call)
    BY <1>1, <1>2 DEF Dispatch
<1>4. said \in Seq(Segment) /\ ToSet(said) \subseteq ToSet(input.call)
    BY <1>2, SaidIsOfTheCall
<1>5. best.score \in Scores /\ (best.segment # 0 => ReadFrom(best, said, params))
    BY <1>2, <1>4, BestIsRead
<1>6. \/ /\ best.segment # 0 /\ best.missing = {}
         /\ result = [outcome |-> "PASS", confidence |-> 95,
                      reason |-> "VERBATIM_DISCLOSURE_VERIFIED",
                      evidence |-> ScriptEvidence(best, "SUPPORTING")]
      \/ /\ best.segment # 0
         /\ result = [outcome |-> IF best.score >= params.ambiguous THEN "AMBIGUOUS"
                                  ELSE "FAIL",
                      confidence |-> best.score \div 100,
                      reason |-> "VERBATIM_PARTIAL_OR_AMBIGUOUS_MATCH",
                      evidence |-> ScriptEvidence(best, "CONTRADICTING")]
      \/ result = [outcome |-> "FAIL", confidence |-> 95,
                   reason |-> "MANDATORY_CONCEPT_MISSING", evidence |-> <<>>]
    BY <1>3 DEF EvaluateScript, Said
<1> HIDE DEF best, said, params
<1>7. ASSUME best.segment # 0
      PROVE  \A type : \A e \in ToSet(ScriptEvidence(best, type)) :
                \E s \in ToSet(input.call) : e.segment = s.id
    <2>1. PICK i \in DOMAIN said : best.segment = said[i].id
        BY <1>5, <1>7 DEF ReadFrom
    <2>2. said[i] \in ToSet(input.call)
        BY <1>4 DEF ToSet
    <2>3. \A type : \A e \in ToSet(ScriptEvidence(best, type)) : e.segment = best.segment
        BY DEF ScriptEvidence, ToSet
    <2> QED BY <2>1, <2>2, <2>3
<1>8. best.score \div 100 \in 0..100
    BY <1>5 DEF Scores
<1>9. CASE /\ best.segment # 0 /\ best.missing = {}
           /\ result = [outcome |-> "PASS", confidence |-> 95,
                        reason |-> "VERBATIM_DISCLOSURE_VERIFIED",
                        evidence |-> ScriptEvidence(best, "SUPPORTING")]
    <2>1. result.outcome = "PASS" /\ result.confidence = 95
            /\ result.evidence = ScriptEvidence(best, "SUPPORTING")
        BY <1>9
    <2>2. ResultOf(input.call, result)
        BY <1>7, <1>9, <2>1 DEF ResultOf, Outcome
    <2> QED BY <1>4, <1>5, <1>9, <2>1, <2>2 DEF said, params
<1>10. CASE /\ best.segment # 0
            /\ result = [outcome |-> IF best.score >= params.ambiguous THEN "AMBIGUOUS"
                                     ELSE "FAIL",
                         confidence |-> best.score \div 100,
                         reason |-> "VERBATIM_PARTIAL_OR_AMBIGUOUS_MATCH",
                         evidence |-> ScriptEvidence(best, "CONTRADICTING")]
    <2>1. /\ result.outcome \in {"AMBIGUOUS", "FAIL"}
          /\ result.confidence = best.score \div 100
          /\ result.evidence = ScriptEvidence(best, "CONTRADICTING")
        BY <1>10
    <2>2. ResultOf(input.call, result)
        BY <1>7, <1>8, <1>10, <2>1 DEF ResultOf, Outcome
    <2> QED BY <1>4, <2>1, <2>2 DEF said, params
<1>11. CASE result = [outcome |-> "FAIL", confidence |-> 95,
                      reason |-> "MANDATORY_CONCEPT_MISSING", evidence |-> <<>>]
    <2>1. result.outcome = "FAIL" /\ result.confidence = 95 /\ result.evidence = <<>>
        BY <1>11
    <2>2. ToSet(<<>>) = {}
        BY DEF ToSet
    <2>3. ResultOf(input.call, result)
        BY <2>1, <2>2 DEF ResultOf, Outcome
    <2> QED BY <1>4, <2>1, <2>3 DEF said, params
<1> QED BY <1>6, <1>9, <1>10, <1>11

\* A disclosure passes where everything is said: the cited segment, or that and
\* the next, hold every anchor.
LEMMA DisclosuresAreRead == EvaluationInv => DisclosureReadInOnePlace
<1> SUFFICES ASSUME EvaluationInv, Followable("VERBATIM"), result.outcome = "PASS"
             PROVE  LET said == Said(input.call, input.params) IN
                    \E i \in DOMAIN said, e \in Supporting :
                        /\ e.segment = said[i].id
                        /\ \A anchor \in input.params.anchors :
                            Saying(anchor) \cap
                                (ToSet(said[i].text) \cup
                                    (IF i < Len(said) THEN ToSet(said[i + 1].text)
                                     ELSE {})) # {}
    BY DEF DisclosureReadInOnePlace, Said
<1> DEFINE said == Said(input.call, input.params)
<1>1. said \in Seq(Segment)
    BY ScriptsAreJudged
<1>2. PICK best : /\ best.missing = {} /\ ReadFrom(best, said, input.params)
                  /\ result.evidence = ScriptEvidence(best, "SUPPORTING")
    BY ScriptsAreJudged
<1> HIDE DEF said
<1>3. PICK i \in DOMAIN said :
        /\ best.segment = said[i].id
        /\ \/ best.missing = Missing(said[i].text, input.params)
           \/ /\ i < Len(said)
              /\ best.missing = Missing(said[i].text \o said[i + 1].text, input.params)
    BY <1>2 DEF ReadFrom
<1>4. PICK e \in Supporting : e.segment = best.segment
    <2> DEFINE e == [segment |-> best.segment, start |-> best.start,
                     value |-> best.text, type |-> "SUPPORTING"]
    <2>1. e \in ToSet(result.evidence)
        BY <1>2 DEF ScriptEvidence, ToSet
    <2>2. e.type = "SUPPORTING" /\ e.segment = best.segment
        OBVIOUS
    <2> QED BY <2>1, <2>2 DEF Supporting
<1>5. ASSUME NEW anchor \in input.params.anchors
      PROVE  Saying(anchor) \cap
                (ToSet(said[i].text) \cup
                    (IF i < Len(said) THEN ToSet(said[i + 1].text) ELSE {})) # {}
    <2>1. CASE best.missing = Missing(said[i].text, input.params)
        BY <1>2, <2>1 DEF Missing
    <2>2. CASE /\ i < Len(said)
               /\ best.missing = Missing(said[i].text \o said[i + 1].text, input.params)
        <3>1. said[i].text \in Seq(STRING) /\ said[i + 1].text \in Seq(STRING)
            <4>1. i + 1 \in DOMAIN said
                BY <1>1, <2>2, LenProperties
            <4>2. said[i] \in Segment /\ said[i + 1] \in Segment
                BY <1>1, <4>1
            <4> QED BY <4>2 DEF Segment
        <3>2. \A w : w \in ToSet(said[i].text \o said[i + 1].text)
                        <=> w \in ToSet(said[i].text) \/ w \in ToSet(said[i + 1].text)
            BY <3>1, JoinedElements
        <3>3. Saying(anchor) \cap ToSet(said[i].text \o said[i + 1].text) # {}
            BY <1>2, <2>2 DEF Missing
        <3> QED BY <2>2, <3>2, <3>3
    <2> QED BY <1>3, <2>1, <2>2
<1> QED BY <1>3, <1>4, <1>5 DEF said

---------------------------------------------------------------------------
(* Types of the results *)

\* A factual result has its types, and cites segments in scope.
LEMMA FactualIsTyped ==
    ASSUME EvaluationInv, Followable("FACTUAL_MATCH")
    PROVE  ResultOf(input.call, result)
<1>1. FactualResult
    BY FactualChecksAreJudged
<1>2. ToSet(<<>>) = {}
    BY DEF ToSet
<1>3. CASE result = Result("NOT_EVALUABLE", 0, "FACTUAL_EXPECTED_VALUE_UNRESOLVED", <<>>)
    BY <1>2, <1>3 DEF Result, ResultOf, Outcome
<1>4. CASE result = Result("FAIL", 100, "VALUE_NOT_DISCLOSED", <<>>)
    BY <1>2, <1>4 DEF Result, ResultOf, Outcome
<1>5. ASSUME NEW chosen \in ToSet(Considered(Candidates0, Comparator0, input.params)),
             result = Verdicts(Comparator0, Expected0, Candidates0, input.params, chosen)
      PROVE  ResultOf(input.call, result)
    <2> DEFINE considered == Considered(Candidates0, Comparator0, input.params)
               similarity == Similarity(Comparator0, Expected0, chosen.value, input.params)
               type == IF similarity = 100 THEN "SUPPORTING" ELSE "CONTRADICTING"
               evidence == BuildEvidence(Comparator0, Candidates0, considered, chosen,
                                         type, input.params)
               competing == Competing(Comparator0, Expected0, considered, input.params)
    <2>1. Candidates0 \in Seq(Candidate(Comparator0))
        BY <1>1 DEF FactualResult, Gathered
    <2>2. /\ chosen \in ToSet(Candidates0)
          /\ ShownAs(result.evidence, Comparator0, Candidates0, considered, chosen, type,
                     input.params)
        BY <1>5, <2>1, VerdictsShow
    <2>3. \A c \in ToSet(considered) : c \in ToSet(Candidates0)
        BY <2>1, WhatStands
    <2>4. similarity \in 0..100
        <3>1. chosen \in Candidate(Comparator0)
            BY <2>1, <2>2 DEF ToSet
        <3> QED BY <3>1, SimilarityIsPercent DEF Candidate
    <2>5. result = Finalize(Comparator0, similarity, competing, evidence, input.params)
        BY <1>5 DEF Verdicts
    <2>6. input.params.nearMissOutcome = None
        BY <1>1 DEF FactualResult
    <2> HIDE DEF considered, similarity, evidence, competing, type
    <2>7. result.outcome \in Outcome /\ result.confidence \in 0..100
        BY <2>4, <2>5, <2>6 DEF Finalize, Result, NearMissOutcome, Outcome
    <2>8. ASSUME NEW e \in ToSet(result.evidence)
          PROVE  \E s \in ToSet(input.call) : e.segment = s.id
        <3>1. \A d, t : Evidence(d, t).segment = d.segment.id
            BY DEF Evidence
        <3>2. PICK c \in ToSet(Candidates0) : e.segment = c.segment.id
            <4>1. \E c \in ToSet(Candidates0) : \E t : e = Evidence(c, t)
                BY <2>2, <2>3 DEF ShownAs
            <4> QED BY <3>1, <4>1
        <3>3. c.segment \in ToSet(Scoped0)
            BY <1>1 DEF FactualResult, Gathered
        <3>4. c.segment \in ToSet(input.call)
            BY <1>1, <3>3 DEF FactualResult, Following
        <3> QED BY <3>2, <3>4
    <2> QED BY <2>7, <2>8 DEF ResultOf
<1> QED BY <1>1, <1>3, <1>4, <1>5 DEF FactualResult

\* The two orders of segments are one.
LEMMA SortedInTurn ==
    ASSUME NEW call \in Seq(Segment)
    PROVE  InTurn(Sorted(call, Earlier), call)
<1>1. StableOrder(call, Earlier) = StableOrder(call, Earliest)
    BY DEF StableOrder, Earlier, Earliest
<1>2. Sorted(call, Earlier) = Sorted(call, Earliest)
    BY <1>1 DEF Sorted
<1> QED BY <1>2, SegmentsInTurn

\* What a conduct verdict may cite.
CitesOf(segments, evidence) ==
    \A e \in ToSet(evidence) : \E s \in ToSet(segments) : e.segment = s.id

\* A verdict has its types.
LEMMA VerdictIsTyped ==
    ASSUME NEW outcome \in Outcome, NEW reason, NEW evidence, NEW segments, NEW call,
           ToSet(segments) = ToSet(call), CitesOf(segments, evidence)
    PROVE  ResultOf(call, Verdict(outcome, reason, evidence))
BY DEF Verdict, ResultOf, CitesOf

\* Nothing cites nothing, and what cites a segment cites one.
LEMMA Citing ==
    ASSUME NEW segments
    PROVE  /\ CitesOf(segments, <<>>)
           /\ \A s \in ToSet(segments) : \A start, type : CitesOf(segments, <<Cites(s, start, type)>>)
<1>1. ToSet(<<>>) = {}
    BY DEF ToSet
<1>2. ASSUME NEW s, NEW start, NEW type
      PROVE  ToSet(<<Cites(s, start, type)>>) = {Cites(s, start, type)}
    BY DEF ToSet
<1>3. \A s, start, type : Cites(s, start, type).segment = s.id
    BY DEF Cites
<1> QED BY <1>1, <1>2, <1>3 DEF CitesOf

\* The segment before an instant, or at it, is a segment.
LEMMA NearSegments ==
    ASSUME NEW segments \in Seq(Segment), segments # <<>>, NEW instant
    PROVE  /\ SegmentBefore(segments, instant) \in ToSet(segments)
           /\ SegmentAt(segments, instant) \in ToSet(segments)
<1> DEFINE n == Len(segments)
           before == {i \in DOMAIN segments : segments[i].end <= instant}
           at == {i \in DOMAIN segments :
                    segments[i].start <= instant /\ instant <= segments[i].end}
<1>1. n \in Nat /\ n # 0 /\ DOMAIN segments = 1..n
    BY LenProperties, EmptySeq
<1>2. ASSUME NEW S \in SUBSET (1..n), S # {} PROVE Max(S) \in S /\ Min(S) \in S
    <2> HIDE DEF n
    <2>1. IsFiniteSet(S)
        <3>1. IsFiniteSet(1..n)
            BY <1>1, FS_Interval
        <3> QED BY <1>2, <3>1, FS_Subset
    <2>2. S \in SUBSET Int
        BY <1>1
    <2>3. /\ Extending!IsFiniteSet(S)
          /\ Extending!Max(S) = Max(S) /\ Extending!Min(S) = Min(S)
        BY <2>1, SameThere
    <2> QED BY <1>2, <2>2, <2>3, Extending!Extremes
<1>3. before \in SUBSET (1..n) /\ at \in SUBSET (1..n) /\ 1 \in 1..n
    BY <1>1
<1>4. \A i \in 1..n : segments[i] \in ToSet(segments)
    BY <1>1 DEF ToSet
<1>5. /\ SegmentBefore(segments, instant) = segments[IF before = {} THEN 1 ELSE Max(before)]
      /\ SegmentAt(segments, instant) = segments[IF at = {} THEN 1 ELSE Min(at)]
    BY DEF SegmentBefore, SegmentAt
<1> HIDE DEF before, at, n
<1> QED BY <1>2, <1>3, <1>4, <1>5

Lengthening == INSTANCE FoldFacts WITH Step <- Extend

\* Extending some intervals makes some intervals.
Stretches == Seq([start : Int, end : Int]) \ {<<>>}

LEMMA ExtendStretches ==
    ASSUME NEW merged \in Stretches, NEW iv, iv.start \in Int, iv.end \in Int
    PROVE  Extend(merged, iv) \in Stretches
<1> DEFINE n == Len(merged)
           I == [start : Int, end : Int]
<1>1. merged \in Seq(I) /\ n \in Nat /\ n # 0 /\ DOMAIN merged = 1..n
    BY LenProperties, EmptySeq DEF Stretches
<1>2. [merged EXCEPT ![n].end = Larger(@, iv.end)] \in Stretches
    <2> DEFINE more == [merged EXCEPT ![n].end = Larger(@, iv.end)]
    <2>1. merged[n] \in I
        <3> HIDE DEF I, n, more
        <3> QED BY <1>1, ElementOfSeq
    <2>2. Larger(merged[n].end, iv.end) \in Int
        BY <2>1 DEF Larger
    <2>3. [merged[n] EXCEPT !.end = Larger(merged[n].end, iv.end)] \in I
        BY <2>1, <2>2
    <2>4. \A i \in 1..n : merged[i] \in I
        <3> HIDE DEF I, n, more
        <3> QED BY <1>1, ElementOfSeq
    <2>5. more \in [1..n -> I]
        BY <1>1, <2>3, <2>4
    <2>6. more \in Seq(I) /\ DOMAIN more = 1..n
        BY <1>1, <2>5, IsASeq
    <2> QED BY <1>1, <2>6 DEF Stretches
<1>3. Append(merged, [start |-> iv.start, end |-> iv.end]) \in Stretches
    BY <1>1, AppendProperties DEF Stretches
<1> QED BY <1>2, <1>3 DEF Extend

\* A union of intervals is a sequence of intervals.
LEMMA UnionIsSequence ==
    ASSUME NEW ivs \in Seq(Segment)
    PROVE  Len(UnionIntervals(ivs)) \in Nat
<1>1. CASE ivs = <<>>
    BY <1>1 DEF UnionIntervals
<1>2. CASE ivs # <<>>
    <2> DEFINE sorted == Sorted(ivs, Earlier)
               first == [start |-> Head(sorted).start, end |-> Head(sorted).end]
               seq == Tail(sorted)
               n == Len(seq)
    <2>1. sorted \in Seq(Segment) /\ sorted # <<>>
        <3>1. InTurn(sorted, ivs)
            BY SortedInTurn
        <3>2. ToSet(ivs) # {} /\ ToSet(<<>>) = {}
            <4>1. 1 \in DOMAIN ivs
                BY <1>2, LenProperties, EmptySeq
            <4> QED BY <4>1 DEF ToSet
        <3> HIDE DEF sorted
        <3>3. sorted \in Seq(Segment) /\ ToSet(sorted) = ToSet(ivs)
            BY <3>1 DEF InTurn
        <3> QED BY <3>2, <3>3
    <2>2. UnionIntervals(ivs) = FoldLeft(Extend, <<first>>, seq)
        BY <1>2 DEF UnionIntervals
    <2>3. UnionIntervals(ivs) = Lengthening!FoldedLeft(<<first>>, seq)
        BY <2>2 DEF Lengthening!FoldedLeft, FoldLeft, MapThenFoldSet,
                    Lengthening!FoldLeft, Lengthening!MapThenFoldSet, Max, Lengthening!Max
    <2> HIDE DEF sorted
    <2>4. Head(sorted) \in Segment /\ seq \in Seq(Segment)
        BY <2>1, HeadTailProperties
    <2> HIDE DEF seq
    <2>5. n \in Nat /\ DOMAIN seq = 1..n
        BY <2>4, LenProperties
    <2>6. \A k \in 1..n : seq[k].start \in Int /\ seq[k].end \in Int
        <3>1. \A k \in 1..n : seq[k] \in Segment
            BY <2>4, <2>5
        <3> QED BY <3>1 DEF Segment
    <2>7. <<first>> \in Stretches
        <3>1. first \in [start : Int, end : Int]
            BY <2>4 DEF Segment
        <3> HIDE DEF first
        <3> QED BY <3>1 DEF Stretches
    <2> HIDE DEF first, n
    <2>8. PICK run : /\ Lengthening!RunsThrough(run, <<first>>, seq, n)
                     /\ UnionIntervals(ivs) = run[n]
        BY <2>3, <2>5, Lengthening!FoldLeftRuns
    <2> DEFINE S == {k \in Nat : k \in 0..n => run[k] \in Stretches}
    <2>9. 0 \in S
        BY <2>7, <2>8 DEF Lengthening!RunsThrough
    <2>10. ASSUME NEW k \in Nat, k \in S PROVE k + 1 \in S
        <3> SUFFICES ASSUME k + 1 \in 0..n PROVE run[k + 1] \in Stretches
            OBVIOUS
        <3>1. k \in 0..n /\ k + 1 \in 1..n /\ (k + 1) - 1 = k
            BY <2>5
        <3>2. run[k] \in Stretches
            BY <2>10, <3>1
        <3>3. run[k + 1] = Extend(run[k], seq[k + 1])
            BY <2>8, <3>1 DEF Lengthening!RunsThrough
        <3> QED BY <2>6, <3>1, <3>2, <3>3, ExtendStretches
    <2> HIDE DEF S
    <2>11. Nat \subseteq S
        BY <2>9, <2>10, Lengthening!NumberInduction
    <2>12. run[n] \in Stretches
        BY <2>5, <2>11 DEF S
    <2> QED BY <2>8, <2>12, LenProperties DEF Stretches
<1> QED BY <1>1, <1>2

\* The values of a function on a finite set are finitely many.
LEMMA ImageIsFinite ==
    ASSUME NEW S, IsFiniteSet(S), NEW f, DOMAIN f = S, f = [x \in S |-> f[x]]
    PROVE  IsFiniteSet({f[x] : x \in S})
<1> DEFINE T == {f[x] : x \in S}
<1>1. f \in Surjection(S, T)
    <2>1. f \in [S -> T] /\ \A t \in T : \E x \in S : f[x] = t
        OBVIOUS
    <2> QED BY <2>1 DEF Surjection
<1> HIDE DEF T
<1>2. IsFiniteSet(T)
    BY <1>1, FS_Surjection
<1> QED BY <1>2 DEF T

\* There are finitely many gaps and interruptions.
LEMMA MetricsAreFinite ==
    ASSUME NEW segments \in Seq(Segment)
    PROVE  IsFiniteSet(DeadAir(segments)) /\ IsFiniteSet(Interruptions(segments))
<1>1. IsFiniteSet(DeadAir(segments))
    <2> DEFINE merged == UnionIntervals(Spoken(segments))
               m == Len(merged)
               f == [i \in 1..(m - 1) |->
                        [start |-> merged[i].end, end |-> merged[i + 1].start]]
               G == {f[i] : i \in 1..(m - 1)}
    <2>1. m \in Nat
        <3> DEFINE kept == {i \in DOMAIN segments : segments[i].end > segments[i].start}
        <3>1. Spoken(segments) = Picked(segments, Arranged(kept, Rising(kept)))
            BY DEF Spoken, Filtered
        <3>2. kept \in SUBSET (DOMAIN segments)
            OBVIOUS
        <3> HIDE DEF kept
        <3>3. Spoken(segments) \in Seq(Segment)
            BY <3>1, <3>2, KeptElements
        <3> QED BY <3>3, UnionIsSequence
    <2>2. \A g \in DeadAir(segments) : g \in G
        BY DEF DeadAir
    <2> HIDE DEF m, merged
    <2>3. IsFiniteSet(1..(m - 1))
        BY <2>1, FS_Interval
    <2>4. IsFiniteSet(G)
        <3>1. DOMAIN f = 1..(m - 1) /\ f = [i \in 1..(m - 1) |-> f[i]]
            OBVIOUS
        <3> HIDE DEF f
        <3> QED BY <2>3, <3>1, ImageIsFinite
    <2> HIDE DEF G
    <2> QED BY <2>2, <2>4, FS_Subset
<1>2. IsFiniteSet(Interruptions(segments))
    <2> DEFINE sorted == Sorted(segments, Earlier)
               D == DOMAIN sorted
               pairs == {p \in D \X D :
                            /\ p[2] \in Visited(sorted, p[1])
                            /\ Interrupts(sorted[p[1]], sorted[p[2]])}
               f == [p \in pairs |->
                        [pair |-> p, by |-> sorted[p[2]].label,
                         start |-> sorted[p[2]].start,
                         overlap |-> Shared(sorted[p[1]], sorted[p[2]])]]
    <2>1. Interruptions(segments) = {f[p] : p \in pairs}
        BY DEF Interruptions
    <2>2. sorted \in Seq(Segment)
        BY SortedInTurn DEF InTurn
    <2>3. pairs \subseteq D \X D
        OBVIOUS
    <2>4. DOMAIN f = pairs /\ f = [p \in pairs |-> f[p]]
        OBVIOUS
    <2> HIDE DEF pairs, f, sorted
    <2>5. IsFiniteSet(D)
        BY <2>2, LenProperties, FS_Interval
    <2> HIDE DEF D
    <2>6. IsFiniteSet(pairs)
        <3>1. IsFiniteSet(D \X D)
            BY <2>5, FS_Product
        <3> QED BY <2>3, <3>1, FS_Subset
    <2>7. IsFiniteSet({f[p] : p \in pairs})
        BY <2>4, <2>6, ImageIsFinite
    <2> QED BY <2>1, <2>7
<1> QED BY <1>1, <1>2

\* What is cited of finitely many moments cites segments.
LEMMA CitingAll ==
    ASSUME NEW segments, NEW S, IsFiniteSet(S), NEW f, DOMAIN f = S,
           f = [x \in S |-> f[x]],
           \A x \in S : \E s \in ToSet(segments) : f[x].segment = s.id
    PROVE  CitesOf(segments, SetToSeq({f[x] : x \in S}))
<1> DEFINE T == {f[x] : x \in S}
<1>1. \A e \in T : \E s \in ToSet(segments) : e.segment = s.id
    OBVIOUS
<1>2. IsFiniteSet(T)
    BY ImageIsFinite
<1> HIDE DEF T
<1>3. ToSet(SetToSeq(T)) \subseteq T
    BY <1>2, SetsMakeSequences
<1>4. CitesOf(segments, SetToSeq(T))
    BY <1>1, <1>3 DEF CitesOf
<1> QED BY <1>4 DEF T

\* Dead air is cited where it begins, interruptions where they do.
LEMMA MomentsAreCited ==
    ASSUME NEW segments \in Seq(Segment), segments # <<>>, NEW call,
           ToSet(segments) = ToSet(call), NEW metrics, NEW params,
           IsFiniteSet(metrics.gaps), IsFiniteSet(metrics.interruptions)
    PROVE  /\ ResultOf(call, JudgeDeadAir(segments, metrics, params))
           /\ ResultOf(call, JudgeInterruptions(segments, metrics, params))
<1>1. {"PASS", "FAIL"} \subseteq Outcome
    BY DEF Outcome
<1>2. ResultOf(call, JudgeDeadAir(segments, metrics, params))
    <2> DEFINE gaps == LongGaps(segments, metrics, params)
               f == [g \in gaps |-> Cites(SegmentBefore(segments, g.start), g.start,
                                          "CONTRADICTING")]
    <2>1. IsFiniteSet(gaps)
        <3>1. gaps \subseteq metrics.gaps
            BY DEF LongGaps
        <3> QED BY <3>1, FS_Subset
    <2>2. \A g \in gaps : \E s \in ToSet(segments) : f[g].segment = s.id
        <3>1. \A g \in gaps : f[g].segment = SegmentBefore(segments, g.start).id
            BY DEF Cites
        <3> HIDE DEF gaps, f
        <3> QED BY <3>1, NearSegments
    <2>3. DOMAIN f = gaps /\ f = [g \in gaps |-> f[g]]
        OBVIOUS
    <2>4. JudgeDeadAir(segments, metrics, params)
            = IF gaps = {} THEN Verdict("PASS", "BEHAVIOURAL_STANDARDS_MET", <<>>)
              ELSE Verdict("FAIL", "EXCESSIVE_DEAD_AIR", SetToSeq({f[g] : g \in gaps}))
        BY DEF JudgeDeadAir
    <2> HIDE DEF gaps, f
    <2>5. CitesOf(segments, SetToSeq({f[g] : g \in gaps}))
        BY <2>1, <2>2, <2>3, CitingAll
    <2> QED BY <1>1, <2>4, <2>5, Citing, VerdictIsTyped
<1>3. ResultOf(call, JudgeInterruptions(segments, metrics, params))
    <2> DEFINE offences == Offences(segments, metrics, params)
               f == [x \in offences |-> Cites(SegmentAt(segments, x.start), x.start,
                                              "CONTRADICTING")]
    <2>1. IsFiniteSet(offences)
        <3>1. offences \subseteq metrics.interruptions
            BY DEF Offences
        <3> QED BY <3>1, FS_Subset
    <2>2. \A x \in offences : \E s \in ToSet(segments) : f[x].segment = s.id
        <3>1. \A x \in offences : f[x].segment = SegmentAt(segments, x.start).id
            BY DEF Cites
        <3> HIDE DEF offences, f
        <3> QED BY <3>1, NearSegments
    <2>3. DOMAIN f = offences /\ f = [x \in offences |-> f[x]]
        OBVIOUS
    <2>4. JudgeInterruptions(segments, metrics, params)
            = IF Cardinality(offences) <= params.maxInterruptions
              THEN Verdict("PASS", "INTERRUPTIONS_WITHIN_THRESHOLD", <<>>)
              ELSE Verdict("FAIL", "EXCESSIVE_INTERRUPTIONS",
                           SetToSeq({f[x] : x \in offences}))
        BY DEF JudgeInterruptions
    <2> HIDE DEF offences, f
    <2>5. CitesOf(segments, SetToSeq({f[x] : x \in offences}))
        BY <2>1, <2>2, <2>3, CitingAll
    <2> QED BY <1>1, <2>4, <2>5, Citing, VerdictIsTyped
<1> QED BY <1>2, <1>3

\* Ratios and rates are shown by the first segment.
LEMMA BandsAreCited ==
    ASSUME NEW segments \in Seq(Segment), segments # <<>>, NEW call,
           ToSet(segments) = ToSet(call), NEW metrics, NEW params
    PROVE  /\ ResultOf(call, JudgeTalkRatio(segments, metrics, params))
           /\ ResultOf(call, JudgeSpeechRate(segments, metrics, params))
<1>1. {"PASS", "FAIL", "NOT_EVALUABLE"} \subseteq Outcome
    BY DEF Outcome
<1>2. segments[1] \in ToSet(segments)
    <2>1. 1 \in DOMAIN segments
        BY LenProperties, EmptySeq
    <2> QED BY <2>1 DEF ToSet
<1>3. ASSUME NEW within, NEW met, NEW missed
      PROVE  ResultOf(call, Banded(within, segments, met, missed))
    <2> DEFINE cited == <<Cites(segments[1], segments[1].start,
                            IF within THEN "SUPPORTING" ELSE "CONTRADICTING")>>
    <2>1. CitesOf(segments, cited)
        BY <1>2, Citing
    <2>2. Banded(within, segments, met, missed)
            = Verdict(IF within THEN "PASS" ELSE "FAIL", IF within THEN met ELSE missed,
                      cited)
        BY DEF Banded
    <2> HIDE DEF cited
    <2>3. (IF within THEN "PASS" ELSE "FAIL") \in Outcome
        BY <1>1
    <2> QED BY <2>1, <2>2, <2>3, VerdictIsTyped
<1>4. \A reason : ResultOf(call, Verdict("NOT_EVALUABLE", reason, <<>>))
    BY <1>1, Citing, VerdictIsTyped
<1>5. ResultOf(call, JudgeTalkRatio(segments, metrics, params))
    BY <1>3, <1>4 DEF JudgeTalkRatio
<1>6. ResultOf(call, JudgeSpeechRate(segments, metrics, params))
    <2> DEFINE within == /\ params.minRate * metrics.agent <= 60000 * AgentWords(segments)
                         /\ 60000 * AgentWords(segments) <= params.maxRate * metrics.agent
    <2>1. JudgeSpeechRate(segments, metrics, params)
            = IF metrics.agent = 0 THEN Verdict("NOT_EVALUABLE", "NO_AGENT_SPEECH", <<>>)
              ELSE Banded(within, segments, "SPEECH_RATE_WITHIN_BAND",
                          "SPEECH_RATE_OUT_OF_BAND")
        BY DEF JudgeSpeechRate
    <2> HIDE DEF within
    <2> QED BY <1>3, <1>4, <2>1
<1> QED BY <1>5, <1>6

\* Objections nobody acknowledged are cited themselves.
LEMMA ObjectionsAreCited ==
    ASSUME NEW segments \in Seq(Segment), NEW call, ToSet(segments) = ToSet(call), NEW params
    PROVE  ResultOf(call, JudgeObjections(segments, params))
<1> DEFINE raised == {i \in DOMAIN segments :
                        Marked(segments[i], "CUSTOMER", params.objections)}
           objections == Picked(segments, Arranged(raised, Rising(raised)))
           left == {i \in DOMAIN objections :
                        ~Acknowledged(objections[i], segments, params)}
           unhandled == Picked(objections, Arranged(left, Rising(left)))
           cited == [i \in DOMAIN unhandled |->
                        Cites(unhandled[i], unhandled[i].start, "CONTRADICTING")]
<1>1. {"PASS", "FAIL", "UNSUPPORTED"} \subseteq Outcome
    BY DEF Outcome
<1>2. JudgeObjections(segments, params) =
        IF params.objections = {}
        THEN Verdict("UNSUPPORTED", "NO_OBJECTION_MARKERS_CONFIGURED", <<>>)
        ELSE IF objections = <<>> THEN Verdict("PASS", "NO_OBJECTIONS_RAISED", <<>>)
        ELSE IF unhandled = <<>>
        THEN Verdict("PASS", "ALL_OBJECTIONS_ACKNOWLEDGED", <<>>)
        ELSE Verdict("FAIL", "UNHANDLED_OBJECTION", cited)
    BY DEF JudgeObjections, Filtered
<1>3. raised \in SUBSET (DOMAIN segments)
    OBVIOUS
<1> HIDE DEF raised
<1>4. objections \in Seq(Segment) /\ ToSet(objections) \subseteq ToSet(segments)
    <2>1. objections \in Seq(Segment) /\ ToSet(objections) = {segments[i] : i \in raised}
        BY <1>3, KeptElements
    <2> HIDE DEF objections
    <2> QED BY <1>3, <2>1 DEF ToSet
<1> HIDE DEF objections
<1>5. left \in SUBSET (DOMAIN objections)
    OBVIOUS
<1> HIDE DEF left
<1>6. unhandled \in Seq(Segment) /\ ToSet(unhandled) \subseteq ToSet(objections)
    <2>1. unhandled \in Seq(Segment) /\ ToSet(unhandled) = {objections[i] : i \in left}
        BY <1>4, <1>5, KeptElements
    <2> HIDE DEF unhandled
    <2> QED BY <1>5, <2>1 DEF ToSet
<1> HIDE DEF unhandled
<1>7. CitesOf(segments, cited)
    <2> SUFFICES ASSUME NEW e \in ToSet(cited)
                 PROVE  \E s \in ToSet(segments) : e.segment = s.id
        BY DEF CitesOf
    <2>1. PICK i \in DOMAIN unhandled :
            e = Cites(unhandled[i], unhandled[i].start, "CONTRADICTING")
        BY DEF ToSet
    <2>2. unhandled[i] \in ToSet(segments)
        BY <1>4, <1>6 DEF ToSet
    <2> QED BY <2>1, <2>2 DEF Cites
<1> HIDE DEF cited
<1> QED BY <1>1, <1>2, <1>7, Citing, VerdictIsTyped

\* A conduct result has its types, and cites segments of the call.
LEMMA ConductIsTyped ==
    ASSUME EvaluationInv, Followable("BEHAVIOUR")
    PROVE  ResultOf(input.call, result)
<1> DEFINE call == input.call
           segments == Sorted(call, Earlier)
           metrics == Analyze(segments, LastEndOf(call), RolesOf(call))
           params == input.params
           metric == ResolveMetric(input)
<1>1. pc = "evaluated" /\ TypeOf(input.check) = "BEHAVIOUR"
    BY DEF Followable
<1>2. call \in Seq(Segment) /\ result = Dispatch(input)
    BY <1>1, InputIs
<1>3. result = EvaluateConduct(input, call, LastEndOf(call))
    BY <1>1, <1>2 DEF Dispatch
<1>4. {"NOT_EVALUABLE", "UNSUPPORTED"} \subseteq Outcome
    BY DEF Outcome
<1>5. segments \in Seq(Segment) /\ ToSet(segments) = ToSet(call)
    BY <1>2, SortedInTurn DEF InTurn
<1>6. \A reason : /\ ResultOf(call, Verdict("NOT_EVALUABLE", reason, <<>>))
                  /\ ResultOf(call, Verdict("UNSUPPORTED", reason, <<>>))
    <2> HIDE DEF segments, call
    <2> QED BY <1>4, <1>5, Citing, VerdictIsTyped
<1>7. CASE call = <<>>
    BY <1>3, <1>6, <1>7 DEF EvaluateConduct
<1>8. CASE call # <<>>
    <2>1. segments # <<>>
        <3>1. ToSet(call) # {} /\ ToSet(<<>>) = {}
            <4>1. 1 \in DOMAIN call
                BY <1>2, <1>8, LenProperties, EmptySeq
            <4> QED BY <4>1 DEF ToSet
        <3> HIDE DEF segments, call
        <3> QED BY <1>5, <3>1
    <2>2. IsFiniteSet(metrics.gaps) /\ IsFiniteSet(metrics.interruptions)
        <3>1. metrics.gaps = DeadAir(segments)
              /\ metrics.interruptions = Interruptions(segments)
            BY <2>1 DEF Analyze
        <3> HIDE DEF metrics, segments
        <3> QED BY <1>5, <3>1, MetricsAreFinite
    <2>3. result = CASE metric = "DEAD_AIR" -> JudgeDeadAir(segments, metrics, params)
                     [] metric = "INTERRUPTIONS" ->
                            JudgeInterruptions(segments, metrics, params)
                     [] metric = "TALK_RATIO" -> JudgeTalkRatio(segments, metrics, params)
                     [] metric = "OBJECTION_HANDLING" -> JudgeObjections(segments, params)
                     [] metric = "SPEECH_RATE" -> JudgeSpeechRate(segments, metrics, params)
                     [] OTHER -> Verdict("UNSUPPORTED", "UNSUPPORTED_BEHAVIOUR_METRIC", <<>>)
        BY <1>3, <1>8 DEF EvaluateConduct
    <2> HIDE DEF metrics, segments, call, metric, params
    <2>4. /\ ResultOf(call, JudgeDeadAir(segments, metrics, params))
          /\ ResultOf(call, JudgeInterruptions(segments, metrics, params))
          /\ ResultOf(call, JudgeTalkRatio(segments, metrics, params))
          /\ ResultOf(call, JudgeObjections(segments, params))
          /\ ResultOf(call, JudgeSpeechRate(segments, metrics, params))
        BY <1>5, <2>1, <2>2, MomentsAreCited, BandsAreCited, ObjectionsAreCited
    <2>5. result \in {JudgeDeadAir(segments, metrics, params),
                      JudgeInterruptions(segments, metrics, params),
                      JudgeTalkRatio(segments, metrics, params),
                      JudgeObjections(segments, params),
                      JudgeSpeechRate(segments, metrics, params),
                      Verdict("UNSUPPORTED", "UNSUPPORTED_BEHAVIOUR_METRIC", <<>>)}
        BY <2>3
    <2>6. ResultOf(call, result)
        BY <1>6, <2>4, <2>5
    <2> QED BY <2>6 DEF call
<1> QED BY <1>7, <1>8

\* The invariant implies the types.
LEMMA TypesHold == EvaluationInv => TypeOK
<1> SUFFICES ASSUME EvaluationInv PROVE TypeOK
    OBVIOUS
<1>1. pc \in {"library", "checks", "failed", "evaluated"}
    BY DEF EvaluationInv
<1>2. applies \subseteq DOMAIN versions
    <2>1. CASE pc \in {"library", "failed"}
        BY <2>1 DEF EvaluationInv
    <2>2. CASE pc \in {"checks", "evaluated"}
        BY <2>2 DEF EvaluationInv, ResolvedChecks
    <2> QED BY <1>1, <2>1, <2>2
<1>3. ResultOf(input.call, result)
    <2>1. CASE pc # "evaluated"
        <3>1. result = NoResult
            BY <1>1, <2>1 DEF EvaluationInv
        <3>2. ToSet(<<>>) = {}
            BY DEF ToSet
        <3>3. result.outcome = "" /\ result.confidence = 0 /\ result.evidence = <<>>
            BY <3>1 DEF NoResult
        <3>4. "" \in Outcome /\ 0 \in 0..100
            BY DEF Outcome
        <3> QED BY <3>2, <3>3, <3>4 DEF ResultOf
    <2>2. CASE pc = "evaluated"
        <3>1. TypeOf(input.check) \in {"VERBATIM", "FACTUAL_MATCH", "BEHAVIOUR"}
            BY DEF TypeOf
        <3>2. CASE TypeOf(input.check) = "VERBATIM"
            BY <2>2, <3>2, ScriptsAreJudged DEF Followable
        <3>3. CASE TypeOf(input.check) = "FACTUAL_MATCH"
            BY <2>2, <3>3, FactualIsTyped DEF Followable
        <3>4. CASE TypeOf(input.check) = "BEHAVIOUR"
            BY <2>2, <3>4, ConductIsTyped DEF Followable
        <3> QED BY <3>1, <3>2, <3>3, <3>4
    <2> QED BY <2>1, <2>2
<1> QED BY <1>1, <1>2, <1>3 DEF TypeOK, ResultOf

\* The library accepts exactly the histories in which no instant belongs to two
\* versions, whatever their number and order; a call is evaluated under the
\* version in force on its date and fails only where none is; and results have
\* their types (OneVersionInForce).
THEOREM OneVersionIsInForce == Spec => []OneVersionInForce
<1>1. EvaluationInv => OneVersionInForce
    BY TypesHold, DisjointAreAccepted, CallsResolve DEF OneVersionInForce
<1> QED BY <1>1, ResultsAreOfTheirInputs, PTL

---------------------------------------------------------------------------
(* Interruptions *)

\* The followed behaviour checks leave the number of interruptions to the
\* evaluator.
LEMMA ConductFollowed ==
    ASSUME NEW check \in Followed, TypeOf(check) = "BEHAVIOUR"
    PROVE  /\ check \in FollowedConduct /\ ParamsOf(check) = ConductParams(check)
           /\ ParamsOf(check).maxInterruptions = 3
<1>1. check \in FollowedConduct
    <2>1. ASSUME NEW c \in FollowedScript PROVE TypeOf(c) = "VERBATIM"
        <3>1. /\ c \in DOMAIN ScriptWeight \cup DOMAIN TelcoScriptWeight
              /\ c \notin DOMAIN FactualWeight \cup DOMAIN TelcoFactualWeight
            BY DEF FollowedScript, ScriptWeight, TelcoScriptWeight,
                   FactualWeight, TelcoFactualWeight
        <3> QED BY <3>1 DEF TypeOf
    <2>2. ASSUME NEW c \in FollowedFactual PROVE TypeOf(c) = "FACTUAL_MATCH"
        <3>1. /\ c \in DOMAIN FactualWeight \cup DOMAIN TelcoFactualWeight
              /\ c \notin DOMAIN ScriptWeight \cup DOMAIN TelcoScriptWeight
            BY DEF FollowedFactual, ScriptWeight, TelcoScriptWeight,
                   FactualWeight, TelcoFactualWeight
        <3> QED BY <3>1 DEF TypeOf
    <2> QED BY <2>1, <2>2 DEF Followed
<1>2. ParamsOf(check) = ConductParams(check)
    BY DEF ParamsOf
<1>3. ASSUME NEW c \in FollowedConduct PROVE ConductParams(c).maxInterruptions = 3
    <2> DEFINE Left(k) == "maxInterruptions" \notin DOMAIN ConductDeclared(k)
    <2>1. Left("dead_air")
        BY DEF ConductDeclared
    <2>2. Left("interruptions")
        BY DEF ConductDeclared
    <2>3. Left("talk_ratio")
        BY DEF ConductDeclared
    <2>4. Left("objection_handling")
        BY DEF ConductDeclared
    <2>5. Left("speech_rate")
        BY DEF ConductDeclared
    <2>6. Left("telco_pci_mute")
        BY DEF ConductDeclared
    <2> HIDE DEF Left
    <2>7. Left(c)
        BY <2>1, <2>2, <2>3, <2>4, <2>5, <2>6 DEF FollowedConduct
    <2>8. "maxInterruptions" \in DOMAIN ConductDefaults
            /\ ConductDefaults.maxInterruptions = 3
        BY DEF ConductDefaults
    <2> QED BY <2>7, <2>8 DEF ConductParams, Completed, Left
<1> QED BY <1>1, <1>2, <1>3

\* Where segments have ids of their own, sorting keeps them apart.
LEMMA SortedApart ==
    ASSUME NEW call \in Seq(Segment),
           \A i, j \in DOMAIN call : call[i].id = call[j].id => i = j,
           NEW sorted, sorted = Sorted(call, Earlier),
           NEW k \in DOMAIN sorted, NEW l \in DOMAIN sorted, sorted[k] = sorted[l]
    PROVE  k = l
<1> DEFINE D == DOMAIN call
           order == StableOrder(call, Earliest)
           at == Arranged(D, order)
<1>1. Extending!StrictOrder(D, order)
    BY TimesOrderPositions
<1>2. StableOrder(call, Earlier) = order
    BY DEF StableOrder, Earlier, Earliest
<1>3. sorted = Picked(call, at)
    BY <1>2 DEF Sorted
<1>4. IsFiniteSet(D)
    BY LenProperties, FS_Interval
<1> HIDE DEF order
<1>5. /\ at \in [1..Cardinality(D) -> D]
      /\ \A a, b \in 1..Cardinality(D) : a < b => <<at[a], at[b]>> \in order
    BY <1>1, <1>4, InOrder
<1>6. \A i \in D : <<i, i>> \notin order
    BY <1>1 DEF Extending!StrictOrder
<1>7. Cardinality(D) \in Nat
    BY <1>4, FS_CardinalityType
<1> HIDE DEF D, at
<1>8. /\ k \in 1..Cardinality(D) /\ l \in 1..Cardinality(D)
      /\ sorted[k] = call[at[k]] /\ sorted[l] = call[at[l]]
    BY <1>3, <1>5 DEF Picked
<1>9. at[k] \in D /\ at[l] \in D
    BY <1>5, <1>8
<1>10. at[k] = at[l]
    <2>1. call[at[k]] = call[at[l]]
        BY <1>8
    <2> QED BY <1>9, <2>1 DEF D
<1>11. ~(k < l) /\ ~(l < k)
    BY <1>5, <1>6, <1>8, <1>9, <1>10
<1> QED BY <1>7, <1>8, <1>11

\* Who starts to talk within the speech of somebody else, in a call.
TalkedOver(call) ==
    {p \in ToSet(call) \X ToSet(call) :
        /\ p[1].role = "AGENT" /\ p[2].label # p[1].label
        /\ p[2].start < p[1].start /\ p[1].start < p[2].end}

\* Every offence is of an agent's segment and one it starts in.
LEMMA OffencesTalkOver ==
    ASSUME NEW call \in Seq(Segment), NEW segments, ToSet(segments) = ToSet(call),
           \A s, t \in ToSet(call) : s.label = t.label => s.role = t.role,
           NEW sorted, InTurn(sorted, segments), sorted = Sorted(segments, Earlier),
           NEW metrics, metrics.interruptions = Interruptions(segments), NEW params,
           NEW x \in Offences(segments, metrics, params)
    PROVE  LET u == sorted[x.pair[1]]
               v == sorted[x.pair[2]]
           IN  /\ x.pair \in (DOMAIN sorted) \X (DOMAIN sorted)
               /\ x = [pair |-> x.pair, by |-> v.label, start |-> v.start,
                       overlap |-> Shared(u, v)]
               /\ <<v, u>> \in TalkedOver(call)
<1>1. x \in Interruptions(segments)
    BY DEF Offences
<1>2. PICK p \in (DOMAIN sorted) \X (DOMAIN sorted) :
        /\ p[2] \in Visited(sorted, p[1])
        /\ Interrupts(sorted[p[1]], sorted[p[2]])
        /\ x = [pair |-> p, by |-> sorted[p[2]].label, start |-> sorted[p[2]].start,
                overlap |-> Shared(sorted[p[1]], sorted[p[2]])]
    BY <1>1 DEF Interruptions
<1> DEFINE u == sorted[p[1]]
           v == sorted[p[2]]
<1>3. x.pair = p /\ x.by = v.label
    BY <1>2
<1>4. u \in ToSet(call) /\ v \in ToSet(call)
    <2>1. ToSet(sorted) = ToSet(call)
        BY DEF InTurn
    <2>2. u \in ToSet(sorted) /\ v \in ToSet(sorted)
        BY <1>2 DEF ToSet
    <2> QED BY <2>1, <2>2
<1>5. v.label # u.label /\ u.start < v.start
    <2>1. u.label # v.label /\ v.start > u.start
        BY <1>2 DEF Interrupts
    <2>2. u \in Segment /\ v \in Segment
        BY <1>4, ElementOfSeq DEF ToSet
    <2> QED BY <2>1, <2>2 DEF Segment
<1>6. v.start < u.end
    <2>1. p[2] \in (p[1] + 1)..p[2]
        <3>1. p[1] \in Nat /\ p[2] \in Nat
            <4>1. sorted \in Seq(Segment)
                BY DEF InTurn
            <4> QED BY <1>2, <4>1, LenProperties
        <3>2. p[2] \in (p[1] + 1)..Len(sorted)
            BY <1>2 DEF Visited
        <3> QED BY <3>1, <3>2
    <2> QED BY <1>2, <2>1 DEF Visited
<1>7. v.role = "AGENT"
    <2>1. PICK t \in ToSet(segments) : t.role = "AGENT" /\ t.label = x.by
        BY DEF Offences
    <2> QED BY <1>3, <1>4, <2>1
<1>8. <<v, u>> \in TalkedOver(call)
    BY <1>4, <1>5, <1>6, <1>7 DEF TalkedOver
<1> QED BY <1>2, <1>3, <1>8

\* More offences than allowed are as many segments of agents that start within
\* the speech of somebody else: no two offences are of the same two segments.
LEMMA AgentsInterrupt == EvaluationInv => OnlyAgentsInterrupt
<1> SUFFICES ASSUME EvaluationInv, Followable("BEHAVIOUR"),
                    ResolveMetric(input) = "INTERRUPTIONS", result.outcome = "FAIL"
             PROVE  Cardinality(TalkedOver(input.call)) > input.params.maxInterruptions
    BY DEF OnlyAgentsInterrupt, TalkedOver
<1> DEFINE call == input.call
           segments == Sorted(call, Earlier)
           metrics == Analyze(segments, LastEndOf(call), RolesOf(call))
           params == input.params
           sorted == Sorted(segments, Earlier)
           offences == Offences(segments, metrics, params)
           Of(x) == <<sorted[x.pair[2]], sorted[x.pair[1]]>>
           f == [x \in offences |-> Of(x)]
           over == TalkedOver(call)
<1>1. pc = "evaluated" /\ TypeOf(input.check) = "BEHAVIOUR"
    BY DEF Followable
<1>2. /\ input.check \in Followed /\ params = ParamsOf(input.check)
      /\ call \in Seq(Segment)
      /\ \A i, j \in DOMAIN call :
            /\ call[i].id = call[j].id => i = j
            /\ call[i].label = call[j].label => call[i].role = call[j].role
      /\ result = Dispatch(input)
    BY <1>1, InputIs
<1>3. params.maxInterruptions = 3
    BY <1>1, <1>2, ConductFollowed
<1>4. result = EvaluateConduct(input, call, LastEndOf(call))
    BY <1>1, <1>2 DEF Dispatch
<1>5. call # <<>>
    BY <1>4 DEF EvaluateConduct, Verdict
<1>6. result = JudgeInterruptions(segments, metrics, params)
    BY <1>4, <1>5 DEF EvaluateConduct
<1>7. ~(Cardinality(offences) <= 3)
    BY <1>3, <1>6 DEF JudgeInterruptions, Verdict
<1>8. InTurn(segments, call)
    BY <1>2, SortedInTurn
<1>9. segments \in Seq(Segment) /\ ToSet(segments) = ToSet(call)
    BY <1>8 DEF InTurn
<1>10. InTurn(sorted, segments)
    BY <1>9, SortedInTurn
<1>11. metrics.interruptions = Interruptions(segments)
    <2>1. segments # <<>>
        <3>1. ToSet(call) # {} /\ ToSet(<<>>) = {}
            <4>1. 1 \in DOMAIN call
                BY <1>2, <1>5, LenProperties, EmptySeq
            <4> QED BY <4>1 DEF ToSet
        <3> HIDE DEF segments, call
        <3> QED BY <1>9, <3>1
    <2> QED BY <2>1 DEF Analyze
<1> HIDE DEF metrics
<1>12. \A s, t \in ToSet(call) : /\ s.id = t.id => s = t
                                 /\ s.label = t.label => s.role = t.role
    BY <1>2 DEF ToSet
<1>13. \A k, l \in DOMAIN sorted : sorted[k] = sorted[l] => k = l
    <2>1. \A k, l \in DOMAIN segments : segments[k] = segments[l] => k = l
        BY <1>2, SortedApart
    <2> HIDE DEF segments, call
    <2>2. ASSUME NEW k \in DOMAIN segments, NEW l \in DOMAIN segments,
                 segments[k].id = segments[l].id
          PROVE  k = l
        <3>1. segments[k] \in ToSet(call) /\ segments[l] \in ToSet(call)
            BY <1>9 DEF ToSet
        <3> QED BY <1>12, <2>1, <2>2, <3>1
    <2> QED BY <1>9, <2>2, SortedApart
<1>14. ASSUME NEW x \in offences
       PROVE  /\ x.pair \in (DOMAIN sorted) \X (DOMAIN sorted)
              /\ x = [pair |-> x.pair, by |-> sorted[x.pair[2]].label,
                      start |-> sorted[x.pair[2]].start,
                      overlap |-> Shared(sorted[x.pair[1]], sorted[x.pair[2]])]
              /\ Of(x) \in over
    <2>1. \A s, t \in ToSet(call) : s.label = t.label => s.role = t.role
        BY <1>12
    <2> HIDE DEF call, segments
    <2>2. call \in Seq(Segment) /\ x \in Offences(segments, metrics, params)
        BY <1>2
    <2>3. sorted = Sorted(segments, Earlier)
        OBVIOUS
    <2> HIDE DEF sorted, offences, params, over
    <2>4. LET u == sorted[x.pair[1]]
              v == sorted[x.pair[2]]
          IN  /\ x.pair \in (DOMAIN sorted) \X (DOMAIN sorted)
              /\ x = [pair |-> x.pair, by |-> v.label, start |-> v.start,
                      overlap |-> Shared(u, v)]
              /\ <<v, u>> \in TalkedOver(call)
        BY <1>9, <1>10, <1>11, <2>1, <2>2, <2>3, OffencesTalkOver
    <2> QED BY <2>4 DEF over
<1> HIDE DEF offences, over
<1>15. f \in Injection(offences, over)
    <2>1. f \in [offences -> over]
        BY <1>14
    <2>2. ASSUME NEW x \in offences, NEW y \in offences, f[x] = f[y] PROVE x = y
        <3> HIDE DEF sorted
        <3>1. /\ sorted[x.pair[2]] = sorted[y.pair[2]]
              /\ sorted[x.pair[1]] = sorted[y.pair[1]]
            BY <2>2
        <3>2. x.pair[1] = y.pair[1] /\ x.pair[2] = y.pair[2]
            BY <1>13, <1>14, <3>1
        <3>3. x.pair = y.pair
            <4>1. \A A, B : \A p, q \in A \X B : p[1] = q[1] /\ p[2] = q[2] => p = q
                OBVIOUS
            <4>2. /\ x.pair \in (DOMAIN sorted) \X (DOMAIN sorted)
                  /\ y.pair \in (DOMAIN sorted) \X (DOMAIN sorted)
                BY <1>14
            <4> QED BY <3>2, <4>1, <4>2
        <3> QED BY <1>14, <3>3
    <2> HIDE DEF f
    <2> QED BY <2>1, <2>2 DEF Injection, IsInjective
<1>16. IsFiniteSet(over)
    <2>1. IsFiniteSet(ToSet(call))
        <3> DEFINE g == [i \in DOMAIN call |-> call[i]]
        <3>1. ToSet(call) = {g[i] : i \in DOMAIN call}
            BY DEF ToSet
        <3>2. IsFiniteSet(DOMAIN call)
            BY <1>2, LenProperties, FS_Interval
        <3>3. DOMAIN g = DOMAIN call /\ g = [i \in DOMAIN call |-> g[i]]
            OBVIOUS
        <3> HIDE DEF g, call
        <3>4. IsFiniteSet({g[i] : i \in DOMAIN call})
            BY <3>2, <3>3, ImageIsFinite
        <3> QED BY <3>1, <3>4
    <2>2. over \subseteq ToSet(call) \X ToSet(call)
        BY DEF over, TalkedOver
    <2> HIDE DEF call
    <2>3. IsFiniteSet(ToSet(call) \X ToSet(call))
        BY <2>1, FS_Product
    <2> QED BY <2>2, <2>3, FS_Subset
<1> HIDE DEF f
<1>17. Cardinality(offences) <= Cardinality(over) /\ IsFiniteSet(offences)
    BY <1>15, <1>16, FS_Injection
<1>18. Cardinality(offences) \in Nat /\ Cardinality(over) \in Nat
    BY <1>16, <1>17, FS_CardinalityType
<1>19. Cardinality(over) > 3
    BY <1>7, <1>17, <1>18
<1> QED BY <1>3, <1>19 DEF over, call, params

---------------------------------------------------------------------------
(* Dead air *)

\* Nobody of the first k speaks between the end of one of them and the start of
\* another.
Quiet(v, k, a, b) ==
    /\ a \in 1..k /\ b \in 1..k /\ v[a].end < v[b].start
    /\ \A j \in 1..k : v[j].end <= v[a].end \/ v[j].start >= v[b].start

\* The i-th gap of merged speech is between those two.
GapAt(merged, i, v, a, b) ==
    /\ i \in 1..(Len(merged) - 1)
    /\ merged[i].end = v[a].end /\ merged[i + 1].start = v[b].start

\* The gaps of the merged first k utterances are the silences between them.
MergedFrom(merged, v, k) ==
    /\ merged \in Stretches
    /\ \E m \in 1..k : merged[Len(merged)].end = v[m].end
    /\ \A j \in 1..k : v[j].end <= merged[Len(merged)].end
    /\ \A i \in 1..(Len(merged) - 1) :
            \E a, b \in 1..k : GapAt(merged, i, v, a, b) /\ Quiet(v, k, a, b)
    /\ \A a, b \in 1..k : Quiet(v, k, a, b) => \E i \in Nat : GapAt(merged, i, v, a, b)

\* Utterances in the order they start in.
Timed(v) == v \in Seq(Segment) /\ \A i, j \in DOMAIN v : i < j => v[i].start <= v[j].start

LEMMA TimedFacts ==
    ASSUME NEW v, Timed(v)
    PROVE  /\ Len(v) \in Nat /\ DOMAIN v = 1..Len(v)
           /\ \A j \in 1..Len(v) : /\ v[j].start \in Nat /\ v[j].end \in Nat
                                   /\ v[j].start < v[j].end
           /\ \A i, j \in 1..Len(v) : i <= j => v[i].start <= v[j].start
<1>1. Len(v) \in Nat /\ DOMAIN v = 1..Len(v)
    BY LenProperties DEF Timed
<1>2. \A j \in 1..Len(v) : v[j] \in Segment
    BY ElementOfSeq DEF Timed
<1>3. \A j \in 1..Len(v) : v[j].start \in Nat /\ v[j].end \in Nat /\ v[j].start < v[j].end
    BY <1>2 DEF Segment
<1>4. \A i, j \in 1..Len(v) : i <= j => v[i].start <= v[j].start
    <2> SUFFICES ASSUME NEW i \in 1..Len(v), NEW j \in 1..Len(v), i <= j
                 PROVE  v[i].start <= v[j].start
        OBVIOUS
    <2>1. CASE i = j
        BY <1>3, <2>1
    <2>2. CASE i # j
        <3>1. i < j
            BY <2>2
        <3> QED BY <1>1, <3>1 DEF Timed
    <2> QED BY <2>1, <2>2
<1> QED BY <1>1, <1>3, <1>4

\* A further utterance changes which two are silent in between only if it begins
\* after all others have ended: otherwise somebody else began at the same time,
\* and that silence was there.
LEMMA QuietBefore ==
    ASSUME NEW v, Timed(v), NEW k \in Nat \ {0}, k + 1 <= Len(v),
           NEW m \in 1..k, \A j \in 1..k : v[j].end <= v[m].end,
           NEW a \in 1..(k + 1), NEW b \in 1..(k + 1), Quiet(v, k + 1, a, b)
    PROVE  /\ a \in 1..k
           /\ \/ \E c \in 1..k : v[c].start = v[b].start /\ Quiet(v, k, a, c)
              \/ b = k + 1 /\ v[a].end = v[m].end /\ v[m].end < v[k + 1].start
<1>1. /\ \A j \in 1..(k + 1) : /\ v[j].start \in Nat /\ v[j].end \in Nat
                               /\ v[j].start < v[j].end
      /\ \A i, j \in 1..(k + 1) : i <= j => v[i].start <= v[j].start
    <2>1. 1..(k + 1) \subseteq 1..Len(v)
        <3>1. Len(v) \in Nat
            BY TimedFacts
        <3> QED BY <3>1
    <2> QED BY <2>1, TimedFacts
<1>2. /\ v[a].end < v[b].start
      /\ \A j \in 1..(k + 1) : v[j].end <= v[a].end \/ v[j].start >= v[b].start
    BY DEF Quiet
<1>3. 1..k \subseteq 1..(k + 1) /\ k + 1 \in 1..(k + 1) /\ \A j \in 1..(k + 1) : j <= k + 1
    OBVIOUS
<1>4. v[b].start <= v[k + 1].start
    BY <1>1, <1>3
<1>5. a # k + 1
    BY <1>1, <1>2, <1>3, <1>4
<1>6. a \in 1..k
    BY <1>5
<1>7. CASE b # k + 1
    <2>1. b \in 1..k
        BY <1>7
    <2>2. Quiet(v, k, a, b)
        BY <1>2, <1>3, <1>6, <2>1 DEF Quiet
    <2> QED BY <1>6, <2>1, <2>2
<1>8. CASE b = k + 1 /\ v[m].end < v[k + 1].start
    <2>1. v[m].end <= v[a].end
        BY <1>1, <1>2, <1>3, <1>8
    <2>2. v[a].end <= v[m].end
        BY <1>6
    <2>3. v[a].end = v[m].end
        BY <1>1, <1>3, <1>6, <2>1, <2>2
    <2> QED BY <1>6, <1>8, <2>3
<1>9. CASE b = k + 1 /\ ~(v[m].end < v[k + 1].start)
    <2>1. v[m].start = v[k + 1].start
        <3>1. ~(v[m].end <= v[a].end)
            BY <1>1, <1>2, <1>3, <1>9
        <3>2. v[m].start >= v[k + 1].start
            BY <1>2, <1>3, <1>9, <3>1
        <3>3. v[m].start <= v[k + 1].start
            BY <1>1, <1>3
        <3> QED BY <1>1, <1>3, <3>2, <3>3
    <2>2. Quiet(v, k, a, m)
        BY <1>2, <1>3, <1>6, <1>9, <2>1 DEF Quiet
    <2> QED BY <1>6, <1>9, <2>1, <2>2
<1> QED BY <1>7, <1>8, <1>9

\* Merging one utterance more keeps the gaps those silences.
LEMMA MergingOneMore ==
    ASSUME NEW v, Timed(v), NEW k \in Nat \ {0}, k + 1 <= Len(v),
           NEW merged, MergedFrom(merged, v, k)
    PROVE  MergedFrom(Extend(merged, v[k + 1]), v, k + 1)
<1> DEFINE n == Len(merged)
           x == v[k + 1]
           more == Extend(merged, x)
<1>1. /\ \A j \in 1..(k + 1) : /\ v[j].start \in Nat /\ v[j].end \in Nat
                               /\ v[j].start < v[j].end
      /\ \A i, j \in 1..(k + 1) : i <= j => v[i].start <= v[j].start
    <2>1. 1..(k + 1) \subseteq 1..Len(v)
        <3>1. Len(v) \in Nat
            BY TimedFacts
        <3> QED BY <3>1
    <2> QED BY <2>1, TimedFacts
<1>2. PICK m \in 1..k : merged[n].end = v[m].end
    BY DEF MergedFrom
<1>3. \A j \in 1..k : v[j].end <= v[m].end
    BY <1>2 DEF MergedFrom
<1>4. n \in Nat \ {0} /\ DOMAIN merged = 1..n /\ merged \in Seq([start : Int, end : Int])
    BY LenProperties, EmptySeq DEF MergedFrom, Stretches
<1>5. merged[n] \in [start : Int, end : Int]
    <2> DEFINE I == [start : Int, end : Int]
    <2> HIDE DEF I
    <2>1. merged \in [1..n -> I]
        BY <1>4, LenProperties DEF I
    <2>2. merged[n] \in I
        BY <1>4, <2>1
    <2> QED BY <2>2 DEF I
<1>6. 1..k \subseteq 1..(k + 1) /\ k + 1 \in 1..(k + 1) /\ \A j \in 1..(k + 1) : j <= k + 1
    OBVIOUS
<1>7. more \in Stretches
    <2>1. x.start \in Int /\ x.end \in Int
        BY <1>1, <1>6
    <2>2. merged \in Stretches
        BY DEF MergedFrom
    <2> QED BY <2>1, <2>2, ExtendStretches
<1>8. \A a, b \in 1..k : Quiet(v, k, a, b) => Quiet(v, k + 1, a, b)
    <2> SUFFICES ASSUME NEW a \in 1..k, NEW b \in 1..k, Quiet(v, k, a, b)
                 PROVE  Quiet(v, k + 1, a, b)
        OBVIOUS
    <2>1. v[k + 1].start >= v[b].start
        BY <1>1, <1>6
    <2>2. \A j \in 1..(k + 1) : j \in 1..k \/ j = k + 1
        OBVIOUS
    <2> QED BY <1>6, <2>1, <2>2 DEF Quiet
<1>9. \A i \in Nat : \A a, b \in 1..k : GapAt(merged, i, v, a, b) =>
        i \in 1..(n - 1) /\ i \in 1..n /\ i + 1 \in 1..n /\ i # n
    <2>1. \A i \in 1..(n - 1) : i \in 1..n /\ i + 1 \in 1..n /\ i # n
        <3> HIDE DEF n
        <3> QED BY <1>4
    <2> HIDE DEF n
    <2>2. \A i, a, b : GapAt(merged, i, v, a, b) => i \in 1..(n - 1)
        BY DEF GapAt, n
    <2> QED BY <2>1, <2>2
<1>10. Last(merged) = merged[n]
    BY DEF Last
\* It begins within what was merged last.
<1>11. CASE x.start <= merged[n].end
    <2>1. more = [merged EXCEPT ![n].end = Larger(@, x.end)]
        BY <1>10, <1>11 DEF Extend
    <2>2. DOMAIN more = 1..n /\ Len(more) = n
        <3>1. DOMAIN more = 1..n
            BY <1>4, <2>1
        <3>2. Len(more) \in Nat /\ DOMAIN more = 1..Len(more)
            BY <1>7, LenProperties DEF Stretches
        <3> HIDE DEF more, n
        <3>3. \A p, q \in Nat : 1..p = 1..q => p = q
            OBVIOUS
        <3> QED BY <1>4, <3>1, <3>2, <3>3
    <2>3. /\ \A i \in 1..n : more[i].start = merged[i].start
          /\ \A i \in 1..n : i # n => more[i].end = merged[i].end
          /\ more[n].end = Larger(merged[n].end, x.end)
        <3>1. \A i \in 1..n : merged[i] \in [start : Int, end : Int]
            BY <1>4, ElementOfSeq
        <3> QED BY <1>4, <2>1, <3>1
    <2> HIDE DEF more, n
    <2>4. \A i \in Nat : \A a, b \in 1..k : GapAt(merged, i, v, a, b) => GapAt(more, i, v, a, b)
        BY <1>9, <2>2, <2>3 DEF GapAt, n
    <2>5. \E j \in 1..(k + 1) : more[n].end = v[j].end
        <3>1. more[n].end \in {merged[n].end, x.end}
            BY <2>3 DEF Larger
        <3> QED BY <1>2, <1>6, <3>1
    <2>6. \A j \in 1..(k + 1) : v[j].end <= more[n].end
        <3>1. merged[n].end <= more[n].end /\ x.end <= more[n].end
            BY <1>1, <1>2, <1>6, <2>3 DEF Larger
        <3>2. more[n].end \in Nat
            BY <1>1, <2>5
        <3> SUFFICES ASSUME NEW j \in 1..(k + 1)
                     PROVE  v[j].end <= more[n].end
            OBVIOUS
        <3>3. CASE j = k + 1
            BY <3>1, <3>3
        <3>4. CASE j # k + 1
            <4>1. j \in 1..k
                BY <3>4
            <4>2. v[j].end <= merged[n].end /\ v[j].end \in Nat /\ merged[n].end \in Nat
                BY <1>1, <1>2, <1>3, <1>6, <4>1
            <4> QED BY <3>1, <3>2, <4>2
        <3> QED BY <3>3, <3>4
    <2>7. \A i \in 1..(n - 1) :
            \E a, b \in 1..(k + 1) : GapAt(more, i, v, a, b) /\ Quiet(v, k + 1, a, b)
        <3> SUFFICES ASSUME NEW i \in 1..(n - 1)
                     PROVE  \E a, b \in 1..(k + 1) :
                                GapAt(more, i, v, a, b) /\ Quiet(v, k + 1, a, b)
            OBVIOUS
        <3>1. PICK a \in 1..k, b \in 1..k : GapAt(merged, i, v, a, b) /\ Quiet(v, k, a, b)
            BY DEF MergedFrom, n
        <3>2. i \in Nat
            BY <1>4
        <3> QED BY <1>6, <1>8, <2>4, <3>1, <3>2
    <2>8. ASSUME NEW a \in 1..(k + 1), NEW b \in 1..(k + 1), Quiet(v, k + 1, a, b)
          PROVE  \E i \in Nat : GapAt(more, i, v, a, b)
        <3>1. ~(v[m].end < v[k + 1].start)
            BY <1>1, <1>2, <1>6, <1>11
        <3>2. a \in 1..k /\ \E c \in 1..k : v[c].start = v[b].start /\ Quiet(v, k, a, c)
            BY <1>3, <2>8, <3>1, QuietBefore
        <3>3. PICK c \in 1..k : v[c].start = v[b].start /\ Quiet(v, k, a, c)
            BY <3>2
        <3>4. PICK i \in Nat : GapAt(merged, i, v, a, c)
            BY <3>2, <3>3 DEF MergedFrom
        <3>5. GapAt(more, i, v, a, c)
            BY <2>4, <3>2, <3>4
        <3> QED BY <3>3, <3>5 DEF GapAt
    <2>9. MergedFrom(more, v, k + 1)
        BY <1>7, <2>2, <2>5, <2>6, <2>7, <2>8 DEF MergedFrom
    <2> QED BY <2>9 DEF more
\* It begins after everybody has ended.
<1>12. CASE ~(x.start <= merged[n].end)
    <2>1. more = Append(merged, [start |-> x.start, end |-> x.end])
        BY <1>10, <1>12 DEF Extend
    <2>2. Len(more) = n + 1 /\ \A i \in 1..n : more[i] = merged[i]
        BY <1>4, <2>1, AppendProperties
    <2>3. more[n + 1].start = x.start /\ more[n + 1].end = x.end
        BY <1>4, <2>1, AppendProperties
    <2> HIDE DEF more, n
    <2>4. \A i \in Nat : \A a, b \in 1..k : GapAt(merged, i, v, a, b) => GapAt(more, i, v, a, b)
        <3> SUFFICES ASSUME NEW i \in Nat, NEW a \in 1..k, NEW b \in 1..k,
                            GapAt(merged, i, v, a, b)
                     PROVE  GapAt(more, i, v, a, b)
            OBVIOUS
        <3>1. i \in 1..(n - 1) /\ i \in 1..n /\ i + 1 \in 1..n
            BY <1>9
        <3>2. i \in 1..(Len(more) - 1)
            BY <1>4, <2>2, <3>1
        <3> QED BY <2>2, <3>1, <3>2 DEF GapAt
    <2>5. v[m].end < x.start
        BY <1>1, <1>2, <1>6, <1>12
    <2>6. \A j \in 1..(k + 1) : v[j].end <= x.end
        BY <1>1, <1>3, <1>6, <2>5
    <2>7. GapAt(more, n, v, m, k + 1)
        <3>1. n \in 1..(Len(more) - 1) /\ n \in 1..n
            BY <1>4, <2>2
        <3> QED BY <1>2, <2>2, <2>3, <3>1 DEF GapAt
    <2>8. Quiet(v, k + 1, m, k + 1)
        <3>1. \A j \in 1..(k + 1) : j \in 1..k \/ j = k + 1
            OBVIOUS
        <3> QED BY <1>1, <1>3, <1>6, <2>5, <3>1 DEF Quiet
    <2>9. ASSUME NEW i \in 1..(Len(more) - 1)
          PROVE  \E a, b \in 1..(k + 1) : GapAt(more, i, v, a, b) /\ Quiet(v, k + 1, a, b)
        <3>1. CASE i = n
            BY <1>6, <2>7, <2>8, <3>1
        <3>2. CASE i # n
            <4>1. i \in 1..(n - 1) /\ i \in Nat
                BY <1>4, <2>2, <2>9, <3>2
            <4>2. PICK a \in 1..k, b \in 1..k :
                    GapAt(merged, i, v, a, b) /\ Quiet(v, k, a, b)
                BY <4>1 DEF MergedFrom, n
            <4> QED BY <1>6, <1>8, <2>4, <4>1, <4>2
        <3> QED BY <3>1, <3>2
    <2>10. ASSUME NEW a \in 1..(k + 1), NEW b \in 1..(k + 1), Quiet(v, k + 1, a, b)
           PROVE  \E i \in Nat : GapAt(more, i, v, a, b)
        <3>1. /\ a \in 1..k
              /\ \/ \E c \in 1..k : v[c].start = v[b].start /\ Quiet(v, k, a, c)
                 \/ b = k + 1 /\ v[a].end = v[m].end /\ v[m].end < v[k + 1].start
            BY <1>3, <2>10, QuietBefore
        <3>2. CASE \E c \in 1..k : v[c].start = v[b].start /\ Quiet(v, k, a, c)
            <4>1. PICK c \in 1..k : v[c].start = v[b].start /\ Quiet(v, k, a, c)
                BY <3>2
            <4>2. PICK i \in Nat : GapAt(merged, i, v, a, c)
                BY <3>1, <4>1 DEF MergedFrom
            <4>3. GapAt(more, i, v, a, c)
                BY <2>4, <3>1, <4>2
            <4> QED BY <4>1, <4>3 DEF GapAt
        <3>3. CASE b = k + 1 /\ v[a].end = v[m].end
            <4>1. GapAt(more, n, v, a, b)
                BY <2>7, <3>3 DEF GapAt
            <4> QED BY <1>4, <4>1
        <3> QED BY <3>1, <3>2, <3>3
    <2>11. \E j \in 1..(k + 1) : more[Len(more)].end = v[j].end
        BY <1>6, <2>2, <2>3
    <2>12. \A j \in 1..(k + 1) : v[j].end <= more[Len(more)].end
        BY <2>2, <2>3, <2>6
    <2>13. MergedFrom(more, v, k + 1)
        BY <1>7, <2>9, <2>10, <2>11, <2>12 DEF MergedFrom
    <2> QED BY <2>13 DEF more
<1> QED BY <1>11, <1>12

\* The gaps between merged speech are the silences between those who speak.
LEMMA UnionsGaps ==
    ASSUME NEW ivs \in Seq(Segment), ivs # <<>>
    PROVE  LET sorted == Sorted(ivs, Earlier) IN
           /\ Timed(sorted) /\ ToSet(sorted) = ToSet(ivs) /\ Len(sorted) \in Nat \ {0}
           /\ MergedFrom(UnionIntervals(ivs), sorted, Len(sorted))
<1> DEFINE sorted == Sorted(ivs, Earlier)
           first == [start |-> Head(sorted).start, end |-> Head(sorted).end]
           seq == Tail(sorted)
           n == Len(seq)
<1>1. sorted \in Seq(Segment) /\ sorted # <<>> /\ ToSet(sorted) = ToSet(ivs)
    <2>1. InTurn(sorted, ivs)
        BY SortedInTurn
    <2>2. ToSet(ivs) # {} /\ ToSet(<<>>) = {}
        <3>1. 1 \in DOMAIN ivs
            BY LenProperties, EmptySeq
        <3> QED BY <3>1 DEF ToSet
    <2> HIDE DEF sorted
    <2>3. sorted \in Seq(Segment) /\ ToSet(sorted) = ToSet(ivs)
        BY <2>1 DEF InTurn
    <2> QED BY <2>2, <2>3
<1>2. Timed(sorted)
    <2>1. InTurn(sorted, ivs)
        BY SortedInTurn
    <2> HIDE DEF sorted
    <2>2. DOMAIN sorted = 1..Len(sorted) /\ \A i \in DOMAIN sorted : sorted[i] \in Segment
        BY <1>1, LenProperties, ElementOfSeq
    <2>3. \A i \in DOMAIN sorted : sorted[i].start \in Nat
        BY <2>2 DEF Segment
    <2> QED BY <1>1, <2>1, <2>3 DEF InTurn, Timed, Earliest
<1>3. UnionIntervals(ivs) = Lengthening!FoldedLeft(<<first>>, seq)
    <2>1. UnionIntervals(ivs) = FoldLeft(Extend, <<first>>, seq)
        BY DEF UnionIntervals
    <2> QED BY <2>1 DEF Lengthening!FoldedLeft, FoldLeft, MapThenFoldSet,
                    Lengthening!FoldLeft, Lengthening!MapThenFoldSet, Max, Lengthening!Max
<1> HIDE DEF sorted
<1>4. /\ n \in Nat /\ DOMAIN seq = 1..n /\ Len(sorted) = n + 1
      /\ \A k \in 1..n : seq[k] = sorted[k + 1]
      /\ Head(sorted) = sorted[1]
    <2>1. /\ seq \in Seq(Segment) /\ n = Len(sorted) - 1
          /\ \A k \in 1..n : seq[k] = sorted[k + 1]
        BY <1>1, HeadTailProperties
    <2>2. n \in Nat /\ DOMAIN seq = 1..n /\ Len(sorted) \in Nat
        <3> HIDE DEF seq
        <3> QED BY <1>1, <2>1, LenProperties
    <2> QED BY <1>1, <2>1, <2>2
<1> HIDE DEF seq, n
<1>5. PICK run : /\ Lengthening!RunsThrough(run, <<first>>, seq, n)
                 /\ UnionIntervals(ivs) = run[n]
    BY <1>3, <1>4, Lengthening!FoldLeftRuns
<1> DEFINE S == {k \in Nat : k \in 0..n => MergedFrom(run[k], sorted, k + 1)}
<1>6. 0 \in S
    <2>1. run[0] = <<first>>
        BY <1>5 DEF Lengthening!RunsThrough
    <2>2. Head(sorted) \in Segment
        BY <1>1, HeadTailProperties
    <2>3. <<first>> \in Stretches /\ Len(<<first>>) = 1 /\ <<first>>[1] = first
        <3>1. first \in [start : Int, end : Int]
            BY <2>2 DEF Segment
        <3> HIDE DEF first
        <3> QED BY <3>1 DEF Stretches
    <2>4. first.end = sorted[1].end /\ sorted[1].end \in Nat
            /\ sorted[1].start < sorted[1].end /\ sorted[1].start \in Nat
        BY <1>4, <2>2 DEF Segment
    <2> HIDE DEF first
    <2>5. 1 \in 1..1 /\ 1..(1 - 1) = {} /\ \A a \in 1..1 : a = 1
        OBVIOUS
    <2>6. \A a, b \in 1..1 : ~Quiet(sorted, 1, a, b)
        BY <2>4, <2>5 DEF Quiet
    <2>7. MergedFrom(<<first>>, sorted, 1)
        BY <2>3, <2>4, <2>5, <2>6 DEF MergedFrom
    <2> QED BY <2>1, <2>7
<1>7. ASSUME NEW k \in Nat, k \in S PROVE k + 1 \in S
    <2> SUFFICES ASSUME k + 1 \in 0..n PROVE MergedFrom(run[k + 1], sorted, (k + 1) + 1)
        OBVIOUS
    <2>1. k \in 0..n /\ k + 1 \in 1..n /\ (k + 1) - 1 = k /\ k + 1 \in Nat \ {0}
        BY <1>4
    <2>2. MergedFrom(run[k], sorted, k + 1)
        BY <1>7, <2>1
    <2>3. run[k + 1] = Extend(run[k], sorted[(k + 1) + 1])
        BY <1>4, <1>5, <2>1 DEF Lengthening!RunsThrough
    <2>4. (k + 1) + 1 <= Len(sorted)
        BY <1>4, <2>1
    <2> HIDE DEF S
    <2> QED BY <1>2, <2>1, <2>2, <2>3, <2>4, MergingOneMore
<1> HIDE DEF S
<1>8. Nat \subseteq S
    BY <1>6, <1>7, Lengthening!NumberInduction
<1>9. MergedFrom(run[n], sorted, n + 1)
    BY <1>4, <1>8 DEF S
<1>10. MergedFrom(UnionIntervals(ivs), sorted, Len(sorted)) /\ Len(sorted) \in Nat \ {0}
    BY <1>4, <1>5, <1>9
<1> QED BY <1>1, <1>2, <1>10 DEF sorted

\* The silences between intervals.
Between(s, t) == [start |-> s.end, end |-> t.start]

SilencesOf(S) ==
    {g \in {Between(s, t) : s, t \in S} :
        /\ Span(g) > 0
        /\ \A s \in S : s.end <= g.start \/ s.start >= g.end}

GapsIn(merged) ==
    {[start |-> merged[i].end, end |-> merged[i + 1].start] : i \in 1..(Len(merged) - 1)}

\* The gaps of the speech of a call, merged, are the silences between its
\* segments.
LEMMA GapsAreSilences ==
    ASSUME NEW ivs \in Seq(Segment)
    PROVE  GapsIn(UnionIntervals(ivs)) = SilencesOf(ToSet(ivs))
<1>1. CASE ivs = <<>>
    <2>1. ToSet(ivs) = {} /\ UnionIntervals(ivs) = <<>>
        BY <1>1 DEF ToSet, UnionIntervals
    <2> QED BY <2>1 DEF GapsIn, SilencesOf
<1>2. CASE ivs # <<>>
    <2> DEFINE v == Sorted(ivs, Earlier)
               merged == UnionIntervals(ivs)
               n == Len(v)
    <2>1. /\ Timed(v) /\ ToSet(v) = ToSet(ivs) /\ n \in Nat \ {0}
          /\ MergedFrom(merged, v, n)
        BY <1>2, UnionsGaps
    <2> HIDE DEF v, merged
    <2>2. DOMAIN v = 1..n /\ ToSet(v) = {v[i] : i \in 1..n}
        BY <2>1, TimedFacts DEF ToSet
    <2> HIDE DEF n
    <2>3. \A i \in 1..n : v[i].start \in Nat /\ v[i].end \in Nat
        BY <2>1, TimedFacts DEF n
    <2>4. ASSUME NEW a \in 1..n, NEW b \in 1..n
          PROVE  Quiet(v, n, a, b) <=>
                    [start |-> v[a].end, end |-> v[b].start] \in SilencesOf(ToSet(ivs))
        <3> DEFINE g == [start |-> v[a].end, end |-> v[b].start]
        <3>1. Span(g) > 0 <=> v[a].end < v[b].start
            BY <2>3 DEF Span
        <3>2. (\A s \in ToSet(ivs) : s.end <= g.start \/ s.start >= g.end)
                <=> \A j \in 1..n : v[j].end <= v[a].end \/ v[j].start >= v[b].start
            BY <2>1, <2>2
        <3>3. g \in {Between(s, t) : s, t \in ToSet(ivs)}
            <4>1. v[a] \in ToSet(ivs) /\ v[b] \in ToSet(ivs)
                BY <2>1, <2>2
            <4>2. Between(v[a], v[b]) \in {Between(s, t) : s, t \in ToSet(ivs)}
                BY <4>1
            <4>3. g = Between(v[a], v[b])
                BY DEF Between
            <4> QED BY <4>2, <4>3
        <3> HIDE DEF g
        <3>4. g \in SilencesOf(ToSet(ivs)) <=>
                /\ Span(g) > 0
                /\ \A s \in ToSet(ivs) : s.end <= g.start \/ s.start >= g.end
            BY <3>3 DEF SilencesOf
        <3> QED BY <3>1, <3>2, <3>4 DEF Quiet, g
    <2>5. ASSUME NEW g \in GapsIn(merged) PROVE g \in SilencesOf(ToSet(ivs))
        <3>1. PICK i \in 1..(Len(merged) - 1) :
                g = [start |-> merged[i].end, end |-> merged[i + 1].start]
            BY DEF GapsIn
        <3>2. PICK a \in 1..n, b \in 1..n : GapAt(merged, i, v, a, b) /\ Quiet(v, n, a, b)
            BY <2>1 DEF MergedFrom
        <3> QED BY <2>4, <3>1, <3>2 DEF GapAt
    <2>6. ASSUME NEW g \in SilencesOf(ToSet(ivs)) PROVE g \in GapsIn(merged)
        <3>1. PICK s \in ToSet(ivs), t \in ToSet(ivs) : g = [start |-> s.end, end |-> t.start]
            BY DEF SilencesOf, Between
        <3>2. PICK a \in 1..n, b \in 1..n : s = v[a] /\ t = v[b]
            BY <2>1, <2>2
        <3>3. Quiet(v, n, a, b)
            BY <2>4, <3>1, <3>2
        <3>4. PICK i \in Nat : GapAt(merged, i, v, a, b)
            BY <2>1, <3>3 DEF MergedFrom
        <3> QED BY <3>1, <3>2, <3>4 DEF GapAt, GapsIn
    <2>7. GapsIn(merged) = SilencesOf(ToSet(ivs))
        BY <2>5, <2>6
    <2> QED BY <2>7 DEF merged
<1> QED BY <1>1, <1>2

\* Every segment lasts, so that all of them are spoken.
LEMMA AllAreSpoken ==
    ASSUME NEW call \in Seq(Segment)
    PROVE  /\ Spoken(call) \in Seq(Segment) /\ ToSet(Spoken(call)) = ToSet(call)
           /\ Filtered(call, LAMBDA s : s.end > s.start) = Spoken(call)
<1> DEFINE kept == {i \in DOMAIN call : call[i].end > call[i].start}
<1>1. Spoken(call) = Picked(call, Arranged(kept, Rising(kept)))
    BY DEF Spoken, Filtered
<1>2. kept = DOMAIN call
    <2>1. \A i \in DOMAIN call : call[i] \in Segment
        BY LenProperties, ElementOfSeq
    <2>2. \A s \in Segment : s.end > s.start
        BY DEF Segment
    <2> QED BY <2>1, <2>2
<1>3. Filtered(call, LAMBDA s : s.end > s.start) = Spoken(call)
    BY DEF Spoken, Filtered
<1> HIDE DEF kept
<1>4. kept \in SUBSET (DOMAIN call)
    BY <1>2
<1>5. /\ Spoken(call) \in Seq(Segment)
      /\ ToSet(Spoken(call)) = {call[i] : i \in kept}
    BY <1>1, <1>4, KeptElements
<1> QED BY <1>2, <1>3, <1>5 DEF ToSet

\* The silence a followed behaviour check allows.
LEMMA SilenceAllowed ==
    ASSUME NEW check \in FollowedConduct
    PROVE  ConductParams(check).maxSilence \in Nat
<1> DEFINE Left(k) == "maxSilence" \notin DOMAIN ConductDeclared(k)
<1>1. Left("interruptions")
    BY DEF ConductDeclared
<1>2. Left("talk_ratio")
    BY DEF ConductDeclared
<1>3. Left("objection_handling")
    BY DEF ConductDeclared
<1>4. Left("speech_rate")
    BY DEF ConductDeclared
<1>5. Left("telco_pci_mute")
    BY DEF ConductDeclared
<1> HIDE DEF Left
<1>6. check = "dead_air" \/ Left(check)
    BY <1>1, <1>2, <1>3, <1>4, <1>5 DEF FollowedConduct
<1>7. ConductDeclared("dead_air").maxSilence = 30000
        /\ "maxSilence" \in DOMAIN ConductDeclared("dead_air")
    BY DEF ConductDeclared
<1>8. "maxSilence" \in DOMAIN ConductDefaults /\ ConductDefaults.maxSilence = 45000
    BY DEF ConductDefaults
<1>9. ConductParams(check).maxSilence =
        IF "maxSilence" \in DOMAIN ConductDeclared(check)
        THEN ConductDeclared(check).maxSilence ELSE 45000
    BY <1>8 DEF ConductParams, Completed
<1> QED BY <1>6, <1>7, <1>9 DEF Left

\* Dead air is judged by the silences of the call: what the engine did not
\* measure is shorter than any check allows.
LEMMA DeadAirIsJudged == EvaluationInv => DeadAirByItsOwnLimit
<1> SUFFICES ASSUME EvaluationInv, Followable("BEHAVIOUR"),
                    ResolveMetric(input) = "DEAD_AIR", input.call # <<>>
             PROVE  result.outcome = "FAIL" <=>
                        \E g \in Silences(Filtered(input.call, LAMBDA s : s.end > s.start)) :
                            Span(g) > input.params.maxSilence
    BY DEF DeadAirByItsOwnLimit
<1> DEFINE call == input.call
           segments == Sorted(call, Earlier)
           metrics == Analyze(segments, LastEndOf(call), RolesOf(call))
           params == input.params
           gaps == LongGaps(segments, metrics, params)
<1>1. pc = "evaluated" /\ TypeOf(input.check) = "BEHAVIOUR"
    BY DEF Followable
<1>2. /\ input.check \in FollowedConduct /\ params = ConductParams(input.check)
      /\ call \in Seq(Segment) /\ result = Dispatch(input)
    BY <1>1, InputIs, ConductFollowed
<1>3. result = JudgeDeadAir(segments, metrics, params)
    BY <1>1, <1>2 DEF Dispatch, EvaluateConduct
<1>4. result.outcome = "FAIL" <=> gaps # {}
    BY <1>3 DEF JudgeDeadAir, Verdict
<1>5. segments \in Seq(Segment) /\ ToSet(segments) = ToSet(call)
    BY <1>2, SortedInTurn DEF InTurn
<1>6. metrics.gaps = DeadAir(segments)
    <2>1. segments # <<>>
        <3>1. ToSet(call) # {} /\ ToSet(<<>>) = {}
            <4>1. 1 \in DOMAIN call
                BY <1>2, LenProperties, EmptySeq
            <4> HIDE DEF call
            <4> QED BY <4>1 DEF ToSet
        <3> HIDE DEF segments, call
        <3> QED BY <1>5, <3>1
    <2> QED BY <2>1 DEF Analyze
<1> HIDE DEF metrics
<1>7. metrics.gaps = {g \in SilencesOf(ToSet(call)) : Span(g) >= DeadAirThreshold}
    <2>1. Spoken(segments) \in Seq(Segment) /\ ToSet(Spoken(segments)) = ToSet(call)
        BY <1>5, AllAreSpoken
    <2>2. GapsIn(UnionIntervals(Spoken(segments))) = SilencesOf(ToSet(call))
        BY <2>1, GapsAreSilences
    <2> QED BY <1>6, <2>2 DEF DeadAir, GapsIn
<1>8. Silences(Filtered(call, LAMBDA s : s.end > s.start)) = SilencesOf(ToSet(call))
    <2>1. /\ Spoken(call) \in Seq(Segment) /\ ToSet(Spoken(call)) = ToSet(call)
          /\ Filtered(call, LAMBDA s : s.end > s.start) = Spoken(call)
        BY <1>2, AllAreSpoken
    <2>2. ToSet(Spoken(Spoken(call))) = ToSet(call)
        BY <2>1, AllAreSpoken
    <2> HIDE DEF call
    <2> QED BY <2>1, <2>2 DEF Silences, SilencesOf, Between
<1>9. \A g \in SilencesOf(ToSet(call)) : Span(g) \in Int
    <2>1. \A s \in ToSet(call) : s.start \in Int /\ s.end \in Int
        <3>1. \A s \in ToSet(call) : s \in Segment
            BY <1>2, LenProperties, ElementOfSeq DEF ToSet
        <3> QED BY <3>1 DEF Segment
    <2> HIDE DEF call
    <2> QED BY <2>1 DEF SilencesOf, Between, Span
<1>10. DeadAirThreshold <= params.maxSilence /\ params.maxSilence \in Int
    BY <1>2, PermissiveAssumption, SilenceAllowed
<1>11. DeadAirThreshold \in Int
    BY MetricsAssumption
<1> HIDE DEF call, params, segments
<1>12. gaps # {} <=> \E g \in SilencesOf(ToSet(call)) : Span(g) > params.maxSilence
    BY <1>7, <1>9, <1>10, <1>11 DEF LongGaps
<1> QED BY <1>4, <1>8, <1>12 DEF call, params

\* A disclosure passes on one reading, dead air is judged by the silences of the
\* call, an agent fails on interruptions only for having interrupted
\* (SpeechJudgedAsItHappened).
THEOREM SpeechIsJudgedAsItHappened == Spec => []SpeechJudgedAsItHappened
<1>1. EvaluationInv => SpeechJudgedAsItHappened
    BY DisclosuresAreRead, DeadAirIsJudged, AgentsInterrupt DEF SpeechJudgedAsItHappened
<1> QED BY <1>1, ResultsAreOfTheirInputs, PTL

=============================================================================
