------------------------------- MODULE FoldFacts -------------------------------
(***************************************************************************)
(* Induction over data, for the folds the specifications are written with. *)
(*                                                                         *)
(* The induction theorems of the library quantify over an operator, which  *)
(* the provers cannot instantiate.  Here a predicate is a set of numbers,  *)
(* or of subsets, that is shown to be everything; and the operator that is *)
(* folded is a parameter of the module, for an INSTANCE to give.           *)
(***************************************************************************)
EXTENDS Integers, Sequences, SequencesExt, FiniteSets, Functions, Sorting,
        FiniteSetTheorems, SequenceTheorems, TLAPS

CONSTANT Step(_, _)   \* what is folded

---------------------------------------------------------------------------
(* Induction *)

\* A family of subsets of a finite set that has the empty set, and with a set
\* that set and any element more, has the whole set: a smallest subset outside
\* would be one element larger than one inside.
LEMMA SetInduction ==
    ASSUME NEW S, IsFiniteSet(S), NEW Family,
           {} \in Family,
           \A T \in SUBSET S : \A x \in S : T \in Family => T \cup {x} \in Family
    PROVE  S \in Family
<1> DEFINE Outside == (SUBSET S) \ Family
<1>1. SUFFICES ASSUME Outside # {} PROVE FALSE
    OBVIOUS
<1>2. IsWellFoundedOn(StrictSubsetOrdering(S), FiniteSubsetsOf(S))
    BY FS_StrictSubsetOrderingWellFounded
<1>3. Outside \subseteq FiniteSubsetsOf(S)
    BY FS_FiniteSubsetsOfFinite
<1>4. PICK T \in Outside :
            \A U \in Outside : <<U, T>> \notin StrictSubsetOrdering(S)
    <2> HIDE DEF Outside
    <2> QED BY <1>1, <1>2, <1>3, WFMin
<1>5. PICK x \in T : TRUE
    OBVIOUS
<1>6. T \ {x} \notin Outside
    BY <1>4, <1>5 DEF StrictSubsetOrdering
<1>7. (T \ {x}) \cup {x} \in Family
    BY <1>5, <1>6
<1>8. (T \ {x}) \cup {x} = T
    BY <1>5
<1> QED BY <1>7, <1>8

\* A set that has zero, and with a number its successor, has every number.
LEMMA NumberInduction ==
    ASSUME NEW S, 0 \in S, \A n \in Nat : n \in S => n + 1 \in S
    PROVE  Nat \subseteq S
<1> SUFFICES ASSUME NEW n \in Nat PROVE n \in S
    OBVIOUS
<1> DEFINE Family == {T \in SUBSET (1..n) : Cardinality(T) \in S}
<1>1. IsFiniteSet(1..n) /\ Cardinality(1..n) = n
    BY FS_Interval
<1>2. {} \in Family
    BY FS_EmptySet
<1>3. \A T \in SUBSET (1..n) : \A x \in 1..n : T \in Family => T \cup {x} \in Family
    <2> SUFFICES ASSUME NEW T \in SUBSET (1..n), NEW x \in 1..n, T \in Family
                 PROVE  T \cup {x} \in Family
        OBVIOUS
    <2>1. IsFiniteSet(T) /\ Cardinality(T) \in Nat
        BY <1>1, FS_Subset, FS_CardinalityType
    <2>2. Cardinality(T \cup {x}) \in {Cardinality(T), Cardinality(T) + 1}
        BY <2>1, FS_AddElement
    <2> QED BY <2>1, <2>2
<1> HIDE DEF Family
<1>4. 1..n \in Family
    BY <1>1, <1>2, <1>3, SetInduction
<1> QED BY <1>1, <1>4 DEF Family

\* A finite set of integers that is not empty has a greatest element, which is
\* what Max chooses, and a least one.
LEMMA Extremes ==
    ASSUME NEW S \in SUBSET Int, IsFiniteSet(S), S # {}
    PROVE  /\ Max(S) \in S /\ \A x \in S : x <= Max(S)
           /\ Min(S) \in S /\ \A x \in S : Min(S) <= x
<1> DEFINE Family == {T \in SUBSET S : T # {} =>
                        /\ \E m \in T : \A x \in T : x <= m
                        /\ \E m \in T : \A x \in T : m <= x}
<1>1. {} \in Family
    OBVIOUS
<1>2. \A T \in SUBSET S : \A y \in S : T \in Family => T \cup {y} \in Family
    <2> SUFFICES ASSUME NEW T \in SUBSET S, NEW y \in S, T \in Family
                 PROVE  T \cup {y} \in Family
        OBVIOUS
    <2>1. CASE T = {}
        BY <2>1
    <2>2. CASE T # {}
        <3>1. PICK high \in T : \A x \in T : x <= high
            BY <2>2
        <3>2. PICK low \in T : \A x \in T : low <= x
            BY <2>2
        <3>3. \E m \in T \cup {y} : \A x \in T \cup {y} : x <= m
            <4>1. CASE y <= high BY <3>1, <4>1
            <4>2. CASE ~(y <= high)
                <5>1. \A x \in T \cup {y} : x <= y
                    BY <3>1, <4>2
                <5> QED BY <5>1
            <4> QED BY <4>1, <4>2
        <3>4. \E m \in T \cup {y} : \A x \in T \cup {y} : m <= x
            <4>1. CASE low <= y BY <3>2, <4>1
            <4>2. CASE ~(low <= y)
                <5>1. \A x \in T \cup {y} : y <= x
                    BY <3>2, <4>2
                <5> QED BY <5>1
            <4> QED BY <4>1, <4>2
        <3> QED BY <3>3, <3>4
    <2> QED BY <2>1, <2>2
<1> HIDE DEF Family
<1>3. S \in Family
    BY <1>1, <1>2, SetInduction
<1> QED BY <1>3 DEF Family, Max, Min
---------------------------------------------------------------------------
(* Arrangements *)

\* Of two different elements one is before the other.
StrictOrder(S, order) ==
    /\ \A i, j \in S : <<i, j>> \in order => <<j, i>> \notin order
    /\ \A i, j \in S : i # j => <<i, j>> \in order \/ <<j, i>> \in order
    /\ \A i, j, k \in S :
            <<i, j>> \in order /\ <<j, k>> \in order => <<i, k>> \in order

\* An arrangement by a strict order has every element once, in order: an
\* element is placed after those that are before it, so two never share a place,
\* and there are as many places as elements.
LEMMA ArrangedInOrder ==
    ASSUME NEW S, IsFiniteSet(S), NEW order, StrictOrder(S, order)
    PROVE  /\ Arranged(S, order) \in [1..Cardinality(S) -> S]
           /\ \A i \in S : \E k \in 1..Cardinality(S) : Arranged(S, order)[k] = i
           /\ \A k, l \in 1..Cardinality(S) :
                k < l => <<Arranged(S, order)[k], Arranged(S, order)[l]>> \in order
<1> DEFINE n == Cardinality(S)
           Ahead(i) == {j \in S : <<j, i>> \in order}
           place == [i \in S |-> Cardinality(Ahead(i))]
<1>1. n \in Nat
    BY FS_CardinalityType
<1>2. \A i \in S : IsFiniteSet(Ahead(i)) /\ place[i] \in 0..(n - 1)
    <2> SUFFICES ASSUME NEW i \in S
                 PROVE  IsFiniteSet(Ahead(i)) /\ place[i] \in 0..(n - 1)
        OBVIOUS
    <2>1. Ahead(i) \in SUBSET (S \ {i})
        BY DEF StrictOrder
    <2>2. IsFiniteSet(S \ {i}) /\ Cardinality(S \ {i}) = n - 1
        BY FS_RemoveElement
    <2> HIDE DEF Ahead
    <2>3. IsFiniteSet(Ahead(i)) /\ Cardinality(Ahead(i)) <= n - 1
        BY <2>1, <2>2, FS_Subset
    <2> QED BY <1>1, <2>3, FS_CardinalityType
<1>3. \A i, j \in S : <<i, j>> \in order => place[i] < place[j]
    <2> SUFFICES ASSUME NEW i \in S, NEW j \in S, <<i, j>> \in order
                 PROVE  place[i] < place[j]
        OBVIOUS
    <2>1. Ahead(i) \cup {i} \in SUBSET Ahead(j) /\ i \notin Ahead(i)
        BY DEF StrictOrder
    <2> HIDE DEF Ahead
    <2>2. Cardinality(Ahead(i) \cup {i}) = Cardinality(Ahead(i)) + 1
        BY <1>2, <2>1, FS_AddElement
    <2>3. Cardinality(Ahead(i) \cup {i}) <= Cardinality(Ahead(j))
        BY <1>2, <2>1, FS_Subset
    <2> QED BY <1>1, <1>2, <2>2, <2>3
<1> HIDE DEF n
<1>4. /\ \A i \in S : place[i] \in Int /\ place[i] + 1 \in 1..n
      /\ \A i, j \in S : place[i] = place[j] => i = j
    <2> HIDE DEF place
    <2>1. ASSUME NEW i \in S PROVE place[i] \in Int /\ place[i] + 1 \in 1..n
        <3>1. place[i] \in 0..(n - 1)
            BY <1>2
        <3> QED BY <1>1, <3>1
    <2>2. ASSUME NEW i \in S, NEW j \in S, i # j PROVE place[i] # place[j]
        <3>1. <<i, j>> \in order \/ <<j, i>> \in order
            BY <2>2 DEF StrictOrder
        <3>2. place[i] < place[j] \/ place[j] < place[i]
            BY <1>3, <3>1
        <3>3. place[i] \in Int /\ place[j] \in Int
            BY <2>1
        <3> QED BY <3>2, <3>3
    <2> QED BY <2>1, <2>2
<1>5. \A k \in 0..(n - 1) : \E i \in S : place[i] = k
    <2>1. place \in Injection(S, 0..(n - 1))
        <3> HIDE DEF place
        <3>1. place \in [S -> 0..(n - 1)]
            BY <1>2 DEF place
        <3> QED BY <1>4, <3>1 DEF Injection, IsInjective
    <2>2. IsFiniteSet(0..(n - 1)) /\ Cardinality(0..(n - 1)) = n
        BY <1>1, FS_Interval
    <2>3. place \in Surjection(S, 0..(n - 1))
        <3> HIDE DEF place
        <3> QED BY <2>1, <2>2, FS_Injection DEF n
    <2> HIDE DEF place
    <2> QED BY <2>3 DEF Surjection
<1> DEFINE at == Arranged(S, order)
<1>6. at = [k \in 1..n |-> CHOOSE i \in S : Cardinality(Ahead(i)) = k - 1]
    BY DEF Arranged, n
<1> HIDE DEF at
<1>7. \A k \in 1..n : at[k] \in S /\ place[at[k]] = k - 1
    <2> SUFFICES ASSUME NEW k \in 1..n
                 PROVE  at[k] \in S /\ place[at[k]] = k - 1
        OBVIOUS
    <2>1. k - 1 \in 0..(n - 1)
        BY <1>1
    <2>2. \E i \in S : Cardinality(Ahead(i)) = k - 1
        <3> HIDE DEF Ahead
        <3> QED BY <1>5, <2>1
    <2> HIDE DEF Ahead
    <2> QED BY <1>6, <2>2
<1> HIDE DEF place
<1>8. at \in [1..n -> S]
    BY <1>6, <1>7
<1>9. \A i \in S : \E k \in 1..n : at[k] = i
    <2> SUFFICES ASSUME NEW i \in S PROVE \E k \in 1..n : at[k] = i
        OBVIOUS
    <2> DEFINE k == place[i] + 1
    <2>1. k \in 1..n /\ k - 1 = place[i]
        BY <1>4
    <2> HIDE DEF k
    <2> QED BY <1>4, <1>7, <2>1
<1>10. \A k, l \in 1..n : k < l => <<at[k], at[l]>> \in order
    <2> SUFFICES ASSUME NEW k \in 1..n, NEW l \in 1..n, k < l
                 PROVE  <<at[k], at[l]>> \in order
        OBVIOUS
    <2>1. at[k] # at[l] /\ ~(place[at[l]] < place[at[k]])
        BY <1>1, <1>7
    <2> QED BY <1>3, <1>7, <2>1 DEF StrictOrder
<1> QED BY <1>8, <1>9, <1>10 DEF at, n

\* A finite set that is not empty has an element every other is before.
LEMMA HasLast ==
    ASSUME NEW S, IsFiniteSet(S), S # {}, NEW order, StrictOrder(S, order)
    PROVE  \E top \in S : \A x \in S : x # top => <<x, top>> \in order
<1> DEFINE n == Cardinality(S)
           at == Arranged(S, order)
<1>1. n \in Nat /\ n # 0
    BY FS_CardinalityType, FS_EmptySet
<1>2. at \in [1..n -> S] /\ \A i \in S : \E k \in 1..n : at[k] = i
    BY ArrangedInOrder
<1>3. \A k, l \in 1..n : k < l => <<at[k], at[l]>> \in order
    BY ArrangedInOrder
<1> HIDE DEF at, n
<1>4. n \in 1..n /\ \A k \in 1..n : k = n \/ k < n
    BY <1>1
<1>5. at[n] \in S /\ \A x \in S : x # at[n] => <<x, at[n]>> \in order
    BY <1>2, <1>3, <1>4
<1> QED BY <1>5

\* What is picked from a sequence at positions arranged by a strict order: a
\* sequence of the same elements.
LEMMA PickedInOrder ==
    ASSUME NEW S, NEW seq \in Seq(S), NEW kept \in SUBSET (DOMAIN seq), NEW order,
           StrictOrder(kept, order)
    PROVE  LET picked == Picked(seq, Arranged(kept, order)) IN
           /\ picked \in Seq(S)
           /\ Len(picked) = Cardinality(kept)
           /\ ToSet(picked) = {seq[i] : i \in kept}
<1> DEFINE n == Cardinality(kept)
           at == Arranged(kept, order)
           picked == Picked(seq, at)
<1>1. IsFiniteSet(kept) /\ n \in Nat
    <2>1. IsFiniteSet(DOMAIN seq)
        BY FS_Interval, LenProperties
    <2> QED BY <2>1, FS_Subset, FS_CardinalityType
<1>2. /\ at \in [1..n -> kept]
      /\ \A i \in kept : \E k \in 1..n : at[k] = i
    BY <1>1, ArrangedInOrder
<1> HIDE DEF at, n
<1>3. picked = [k \in 1..n |-> seq[at[k]]]
    BY <1>2 DEF Picked
<1>4. \A k \in 1..n : seq[at[k]] \in S
    BY <1>2, LenProperties
<1> HIDE DEF picked
<1>5. picked \in Seq(S) /\ Len(picked) = n /\ DOMAIN picked = 1..n
    BY <1>1, <1>3, <1>4
<1>6. ToSet(picked) = {seq[i] : i \in kept}
    BY <1>2, <1>3, <1>5 DEF ToSet
<1> QED BY <1>5, <1>6 DEF picked, at, n

\* The order of positions.
LEMMA RisingIsStrict == ASSUME NEW S \in SUBSET Int PROVE StrictOrder(S, Rising(S))
BY DEF StrictOrder, Rising

---------------------------------------------------------------------------
(* Folds *)

\* What the fold over the subsets of S in a family does: nothing is base, and a
\* subset is what is picked from it after the rest.
Folding(g, base, item, pick, family) ==
    g = [s \in family |-> IF s = {} THEN base
                          ELSE Step(g[s \ {pick[s]}], item[pick[s]])]

\* The recursion that defines a fold over a finite set has a solution.
LEMMA FoldingExists ==
    ASSUME NEW S, IsFiniteSet(S), NEW base, NEW item, NEW pick,
           \A s \in SUBSET S : s # {} => pick[s] \in s
    PROVE  \E g : Folding(g, base, item, pick, SUBSET S)
<1> DEFINE Small(n) == {s \in SUBSET S : Cardinality(s) <= n}
           Solved == {n \in Nat : \E g : Folding(g, base, item, pick, Small(n))}
<1>1. \A s \in SUBSET S : IsFiniteSet(s) /\ Cardinality(s) \in Nat
    BY FS_Subset, FS_CardinalityType
<1>2. \A n \in Nat : \A s \in Small(n + 1) :
        s # {} => s \ {pick[s]} \in Small(n)
    <2> SUFFICES ASSUME NEW n \in Nat, NEW s \in Small(n + 1), s # {}
                 PROVE  s \ {pick[s]} \in Small(n)
        OBVIOUS
    <2>1. Cardinality(s \ {pick[s]}) = Cardinality(s) - 1
        BY <1>1, FS_RemoveElement
    <2> QED BY <1>1, <2>1
<1>3. 0 \in Solved
    <2>1. \A s \in Small(0) : s = {}
        BY <1>1, FS_EmptySet
    <2> DEFINE g == [s \in Small(0) |-> base]
    <2>2. Folding(g, base, item, pick, Small(0))
        BY <2>1 DEF Folding
    <2> QED BY <2>2
<1>4. \A n \in Nat : n \in Solved => n + 1 \in Solved
    <2> SUFFICES ASSUME NEW n \in Nat, n \in Solved PROVE n + 1 \in Solved
        OBVIOUS
    <2>1. PICK g : Folding(g, base, item, pick, Small(n))
        OBVIOUS
    <2> DEFINE h == [s \in Small(n + 1) |->
                        IF s = {} THEN base
                        ELSE Step(g[s \ {pick[s]}], item[pick[s]])]
    <2>2. Small(n) \subseteq Small(n + 1)
        BY <1>1
    <2> HIDE DEF Small
    <2>3. \A s \in Small(n) : h[s] = g[s]
        BY <2>1, <2>2 DEF Folding
    <2>4. \A s \in Small(n + 1) : s # {} => h[s \ {pick[s]}] = g[s \ {pick[s]}]
        BY <1>2, <2>3
    <2>5. Folding(h, base, item, pick, Small(n + 1))
        BY <2>4 DEF Folding
    <2> QED BY <2>5
<1> HIDE DEF Solved
<1>5. Cardinality(S) \in Solved
    BY <1>3, <1>4, NumberInduction, FS_CardinalityType
<1>6. Small(Cardinality(S)) = SUBSET S
    BY <1>1, FS_Subset
<1>7. \E g : Folding(g, base, item, pick, Small(Cardinality(S)))
    BY <1>5 DEF Solved
<1> HIDE DEF Small
<1> QED BY <1>6, <1>7

\* A solution for a set is one for each of its subsets.
LEMMA FoldingRestricts ==
    ASSUME NEW S, NEW base, NEW item, NEW pick, NEW g,
           Folding(g, base, item, pick, SUBSET S),
           \A s \in SUBSET S : s # {} => pick[s] \in s,
           NEW T \in SUBSET S
    PROVE  Folding([s \in SUBSET T |-> g[s]], base, item, pick, SUBSET T)
BY DEF Folding

\* Solutions are equal.
LEMMA FoldingUnique ==
    ASSUME NEW S, IsFiniteSet(S), NEW base, NEW item, NEW pick, NEW g, NEW h,
           \A s \in SUBSET S : s # {} => pick[s] \in s,
           Folding(g, base, item, pick, SUBSET S),
           Folding(h, base, item, pick, SUBSET S)
    PROVE  g = h
<1> DEFINE Alike == {n \in Nat :
                \A s \in SUBSET S : Cardinality(s) = n => g[s] = h[s]}
<1>1. \A s \in SUBSET S : IsFiniteSet(s) /\ Cardinality(s) \in Nat
    BY FS_Subset, FS_CardinalityType
<1>2. 0 \in Alike
    <2>1. \A s \in SUBSET S : Cardinality(s) = 0 => s = {}
        BY <1>1, FS_EmptySet
    <2> QED BY <2>1 DEF Folding
<1>3. \A n \in Nat : n \in Alike => n + 1 \in Alike
    <2> SUFFICES ASSUME NEW n \in Nat, n \in Alike,
                        NEW s \in SUBSET S, Cardinality(s) = n + 1
                 PROVE  g[s] = h[s]
        OBVIOUS
    <2>1. s # {}
        BY FS_EmptySet
    <2>2. Cardinality(s \ {pick[s]}) = n
        <3>1. IsFiniteSet(s) /\ pick[s] \in s
            BY <1>1, <2>1
        <3>2. Cardinality(s \ {pick[s]}) = Cardinality(s) - 1
            BY <3>1, FS_RemoveElement
        <3> QED BY <3>2
    <2>3. g[s \ {pick[s]}] = h[s \ {pick[s]}]
        BY <2>2
    <2> QED BY <2>1, <2>3 DEF Folding
<1> HIDE DEF Alike
<1>4. Nat \subseteq Alike
    BY <1>2, <1>3, NumberInduction
<1>5. \A s \in SUBSET S : g[s] = h[s]
    BY <1>1, <1>4 DEF Alike
<1> QED BY <1>5 DEF Folding

\* The steps may be taken in any order.
Commuting(base, item, S, Value) ==
    /\ base \in Value
    /\ \A v \in Value : \A x \in S : Step(v, item[x]) \in Value
    /\ \A v \in Value : \A x, y \in S :
            Step(Step(v, item[x]), item[y]) = Step(Step(v, item[y]), item[x])

\* With an element more the fold is one step more.
Additive(g, item, S, Value) ==
    \A s \in SUBSET S :
        /\ g[s] \in Value
        /\ \A x \in s : g[s] = Step(g[s \ {x}], item[x])

\* When the order of the steps makes no difference, what is picked first is no
\* matter: a set with one element more is one step more.
LEMMA FoldingAdds ==
    ASSUME NEW S, IsFiniteSet(S), NEW base, NEW item, NEW pick, NEW g,
           \A s \in SUBSET S : s # {} => pick[s] \in s,
           Folding(g, base, item, pick, SUBSET S),
           NEW Value, Commuting(base, item, S, Value)
    PROVE  Additive(g, item, S, Value)
<1> DEFINE Added == {n \in Nat : \A s \in SUBSET S : Cardinality(s) <= n =>
                /\ g[s] \in Value
                /\ \A x \in s : g[s] = Step(g[s \ {x}], item[x])}
<1>1. \A s \in SUBSET S : IsFiniteSet(s) /\ Cardinality(s) \in Nat
    BY FS_Subset, FS_CardinalityType
<1>2. 0 \in Added
    <2>1. \A s \in SUBSET S : Cardinality(s) <= 0 => s = {}
        BY <1>1, FS_EmptySet
    <2> QED BY <2>1 DEF Folding, Commuting
<1>3. \A n \in Nat : n \in Added => n + 1 \in Added
    <2> SUFFICES ASSUME NEW n \in Nat, n \in Added PROVE n + 1 \in Added
        OBVIOUS
    <2>1. \A r \in SUBSET S : Cardinality(r) <= n =>
            /\ g[r] \in Value
            /\ \A x \in r : g[r] = Step(g[r \ {x}], item[x])
        OBVIOUS
    <2>2. ASSUME NEW s \in SUBSET S, Cardinality(s) = n + 1
          PROVE  /\ g[s] \in Value
                 /\ \A x \in s : g[s] = Step(g[s \ {x}], item[x])
        <3> HIDE DEF Added
        <3>1. s # {}
            <4>1. Cardinality(s) # 0
                BY <2>2
            <4> QED BY <4>1, FS_EmptySet
        <3>2. \A x \in s : Cardinality(s \ {x}) = n
            <4> SUFFICES ASSUME NEW x \in s PROVE Cardinality(s \ {x}) = n
                OBVIOUS
            <4>1. Cardinality(s \ {x}) = Cardinality(s) - 1
                BY <1>1, FS_RemoveElement
            <4> QED BY <2>2, <4>1
        <3> DEFINE p == pick[s]
        <3>3. p \in s /\ g[s] = Step(g[s \ {p}], item[p])
            BY <3>1 DEF Folding
        <3> HIDE DEF p
        <3>4. g[s \ {p}] \in Value
            BY <2>1, <3>2, <3>3
        <3> SUFFICES ASSUME NEW x \in s, x # p
                     PROVE  g[s] = Step(g[s \ {x}], item[x])
            BY <3>3, <3>4 DEF Commuting
        <3> DEFINE rest == (s \ {p}) \ {x}
        <3>5. rest = (s \ {x}) \ {p} /\ rest \in SUBSET s
            OBVIOUS
        <3>6. Cardinality(rest) <= n
            <4>1. Cardinality(s \ {p}) = n /\ rest \in SUBSET (s \ {p})
                BY <3>2, <3>3
            <4> QED BY <1>1, <4>1, FS_Subset
        <3>7. g[rest] \in Value
            BY <2>1, <3>5, <3>6
        <3>8. g[s \ {p}] = Step(g[rest], item[x])
            BY <2>1, <3>2, <3>3
        <3>9. g[s \ {x}] = Step(g[rest], item[p])
            BY <2>1, <3>2, <3>3, <3>5
        <3> HIDE DEF rest
        <3> QED BY <3>3, <3>7, <3>8, <3>9 DEF Commuting
    <2>3. \A s \in SUBSET S : Cardinality(s) <= n + 1 =>
            Cardinality(s) <= n \/ Cardinality(s) = n + 1
        BY <1>1
    <2>4. \A s \in SUBSET S : Cardinality(s) <= n + 1 =>
            /\ g[s] \in Value
            /\ \A x \in s : g[s] = Step(g[s \ {x}], item[x])
        BY <2>1, <2>2, <2>3
    <2> QED BY <2>4
<1> HIDE DEF Added
<1>4. Nat \subseteq Added
    BY <1>2, <1>3, NumberInduction
<1> QED BY <1>1, <1>4 DEF Added, Additive

---------------------------------------------------------------------------
(* The folds of the library *)

\* The values a fold along the first n elements of a sequence runs through.
RunsThrough(run, base, seq, n) ==
    /\ run[0] = base
    /\ \A k \in 1..n : run[k] = Step(run[k - 1], seq[k])

FoldedLeft(base, seq) == FoldLeft(Step, base, seq)

\* FoldLeft goes through a sequence from its first element to its last: its
\* value is the last of the values it runs through.
LEMMA FoldLeftRuns ==
    ASSUME NEW base, NEW seq, NEW n \in Nat, DOMAIN seq = 1..n
    PROVE  \E run : RunsThrough(run, base, seq, n) /\ FoldedLeft(base, seq) = run[n]
<1> DEFINE pick == [s \in SUBSET (1..n) |-> Max(s)]
           Solves(g) == g = [s \in SUBSET (1..n) |-> IF s = {} THEN base
                                ELSE Step(g[s \ {Max(s)}], seq[Max(s)])]
           result == CHOOSE g : Solves(g)
<1>1. FoldedLeft(base, seq) = result[1..n]
    BY DEF FoldedLeft, FoldLeft, MapThenFoldSet
<1>2. IsFiniteSet(1..n)
    BY FS_Interval
<1>3. \A s \in SUBSET (1..n) : s # {} => pick[s] \in s
    <2> SUFFICES ASSUME NEW s \in SUBSET (1..n), s # {} PROVE Max(s) \in s
        OBVIOUS
    <2>1. IsFiniteSet(s)
        BY <1>2, FS_Subset
    <2>2. s \in SUBSET Int
        OBVIOUS
    <2> QED BY <2>1, <2>2, Extremes
<1>4. \E g : Folding(g, base, seq, pick, SUBSET (1..n))
    <2> HIDE DEF pick
    <2> QED BY <1>2, <1>3, FoldingExists
<1>5. \E g : Solves(g)
    BY <1>4 DEF Folding
<1>6. Solves(result)
    <2> HIDE DEF Solves
    <2> QED BY <1>5
<1> HIDE DEF result
<1> DEFINE run == [k \in 0..n |-> result[1..k]]
<1>7. run[0] = base
    <2>1. 1..0 = {}
        OBVIOUS
    <2> QED BY <1>6, <2>1
<1>8. \A k \in 1..n : run[k] = Step(run[k - 1], seq[k])
    <2> SUFFICES ASSUME NEW k \in 1..n PROVE run[k] = Step(run[k - 1], seq[k])
        OBVIOUS
    <2>1. 1..k \in SUBSET (1..n) /\ 1..k # {} /\ (1..k) \ {k} = 1..(k - 1)
        OBVIOUS
    <2>2. Max(1..k) = k
        <3>1. IsFiniteSet(1..k)
            BY FS_Interval
        <3>2. Max(1..k) \in 1..k /\ \A x \in 1..k : x <= Max(1..k)
            BY <2>1, <3>1, Extremes
        <3> QED BY <3>2
    <2>3. result[1..k] = Step(result[(1..k) \ {Max(1..k)}], seq[Max(1..k)])
        BY <1>6, <2>1
    <2>4. result[1..k] = Step(result[1..(k - 1)], seq[k])
        <3> HIDE DEF Solves
        <3> QED BY <2>1, <2>2, <2>3
    <2>5. k \in 0..n /\ k - 1 \in 0..n
        OBVIOUS
    <2> QED BY <2>4, <2>5
<1>9. run[n] = result[1..n]
    OBVIOUS
<1> HIDE DEF run
<1> QED BY <1>1, <1>7, <1>8, <1>9 DEF RunsThrough

\* What is folded over a set of the indices of a table, in no order.
PickFrom(s) == CHOOSE x \in s : TRUE

Folded(base, table, S) ==
    FoldFunctionOnSet(LAMBDA item, value : Step(value, item), base, table, S)

\* Where the order makes no difference, nothing folds to base and a set with
\* one element more is one step more.
LEMMA FoldedAdds ==
    ASSUME NEW S, IsFiniteSet(S), NEW base, NEW table,
           NEW Value, Commuting(base, table, S, Value)
    PROVE  /\ Folded(base, table, {}) = base
           /\ \A s \in SUBSET S :
                /\ Folded(base, table, s) \in Value
                /\ \A x \in s : Folded(base, table, s)
                                  = Step(Folded(base, table, s \ {x}), table[x])
<1> DEFINE Pick(T) == [s \in SUBSET T |-> PickFrom(s)]
           Solves(g, T) == g = [s \in SUBSET T |-> IF s = {} THEN base
                                ELSE Step(g[s \ {PickFrom(s)}], table[PickFrom(s)])]
           Result(T) == CHOOSE g : Solves(g, T)
<1>1. \A s \in SUBSET S : Folded(base, table, s) = Result(s)[s]
    BY DEF Folded, FoldFunctionOnSet, MapThenFoldSet, PickFrom
<1>2. \A s \in SUBSET S : s # {} => PickFrom(s) \in s
    BY DEF PickFrom
<1>3. \A T \in SUBSET S : \A g :
        Folding(g, base, table, Pick(T), SUBSET T) <=> Solves(g, T)
    BY DEF Folding
<1>4. \A T \in SUBSET S : Solves(Result(T), T)
    <2> SUFFICES ASSUME NEW T \in SUBSET S PROVE Solves(Result(T), T)
        OBVIOUS
    <2>1. IsFiniteSet(T) /\ \A s \in SUBSET T : s # {} => Pick(T)[s] \in s
        BY <1>2, FS_Subset
    <2>2. \E g : Folding(g, base, table, Pick(T), SUBSET T)
        <3> HIDE DEF Pick
        <3> QED BY <2>1, FoldingExists
    <2>3. \E g : Solves(g, T)
        BY <1>3, <2>2
    <2> HIDE DEF Solves
    <2> QED BY <2>3
<1> HIDE DEF Result, Solves
<1>5. \A T \in SUBSET S : \A s \in SUBSET T : Result(T)[s] = Result(S)[s]
    <2> SUFFICES ASSUME NEW T \in SUBSET S
                 PROVE  \A s \in SUBSET T : Result(T)[s] = Result(S)[s]
        OBVIOUS
    <2> DEFINE h == [s \in SUBSET T |-> Result(S)[s]]
    <2>1. Solves(h, T)
        <3>1. \A s \in SUBSET T : s # {} => h[s \ {PickFrom(s)}]
                                              = Result(S)[s \ {PickFrom(s)}]
            OBVIOUS
        <3>2. \A s \in SUBSET T :
                h[s] = IF s = {} THEN base
                       ELSE Step(h[s \ {PickFrom(s)}], table[PickFrom(s)])
            <4>1. S \in SUBSET S
                OBVIOUS
            <4>2. \A s \in SUBSET S : Result(S)[s] = IF s = {} THEN base
                       ELSE Step(Result(S)[s \ {PickFrom(s)}], table[PickFrom(s)])
                BY <1>4, <4>1 DEF Solves
            <4> QED BY <3>1, <4>2
        <3> QED BY <3>2 DEF Solves
    <2>2. IsFiniteSet(T) /\ \A s \in SUBSET T : s # {} => Pick(T)[s] \in s
        BY <1>2, FS_Subset
    <2>3. /\ Folding(h, base, table, Pick(T), SUBSET T)
          /\ Folding(Result(T), base, table, Pick(T), SUBSET T)
        BY <1>3, <1>4, <2>1
    <2>4. Result(T) = h
        <3> HIDE DEF Pick, h
        <3> QED BY <2>2, <2>3, FoldingUnique
    <2> QED BY <2>4
<1>6. Folding(Result(S), base, table, Pick(S), SUBSET S)
    BY <1>3, <1>4
<1>7. \A s \in SUBSET S : s # {} => Pick(S)[s] \in s
    BY <1>2
<1> HIDE DEF Pick
<1>8. \A s \in SUBSET S :
        /\ Result(S)[s] \in Value
        /\ \A x \in s : Result(S)[s] = Step(Result(S)[s \ {x}], table[x])
    <2> DEFINE g == Result(S)
               pick == Pick(S)
    <2>1. Folding(g, base, table, pick, SUBSET S)
        BY <1>6
    <2>2. \A s \in SUBSET S : s # {} => pick[s] \in s
        BY <1>7
    <2> HIDE DEF g, pick
    <2>3. Additive(g, table, S, Value)
        BY <2>1, <2>2, FoldingAdds
    <2> QED BY <2>3 DEF g, Additive
<1>9. Result({})[{}] = base
    BY <1>4 DEF Solves
<1>10. \A s \in SUBSET S : Folded(base, table, s) = Result(S)[s]
    BY <1>1, <1>5
<1>11. Folded(base, table, {}) = base
    BY <1>1, <1>9
<1>12. \A s \in SUBSET S : \A x \in s : s \ {x} \in SUBSET S
    OBVIOUS
<1> HIDE DEF Result
<1>13. ASSUME NEW s \in SUBSET S
       PROVE  /\ Folded(base, table, s) \in Value
              /\ \A x \in s : Folded(base, table, s)
                                = Step(Folded(base, table, s \ {x}), table[x])
    BY <1>8, <1>10, <1>12
<1> QED BY <1>11, <1>13

===============================================================================
