------------------------- MODULE Transcription_proofs -------------------------
(***************************************************************************)
(* Proofs about Transcription: what is merged is speech, and what passes   *)
(* both validators can be scored.                                          *)
(***************************************************************************)
EXTENDS Transcription, FiniteSetTheorems, SequenceTheorems, TLAPS

Merging == INSTANCE FoldFacts WITH Step <- Extend
Adding  == INSTANCE FoldFacts WITH Step <- AddSpan

---------------------------------------------------------------------------
(* Sorting and choosing *)

\* What FoldFacts shows of its copies of the library's operators holds here.
LEMMA SameThere ==
    /\ \A S, order : Adding!Arranged(S, order) = Arranged(S, order)
    /\ \A seq, positions : Adding!Picked(seq, positions) = Picked(seq, positions)
    /\ \A S : Adding!Rising(S) = Rising(S)
    /\ \A S : IsFiniteSet(S) => Adding!IsFiniteSet(S)
    /\ \A S : Adding!Cardinality(S) = Cardinality(S)
    /\ \A seq : Adding!ToSet(seq) = ToSet(seq)
    /\ \A S : Adding!Min(S) = Min(S)
BY DEF Arranged, Adding!Arranged, Picked, Adding!Picked, Rising, Adding!Rising,
       IsFiniteSet, Adding!IsFiniteSet, Cardinality, Adding!Cardinality,
       ToSet, Adding!ToSet, Min, Adding!Min

\* Intervals merged one after another, and spans added up.
MergedFrom(base, seq) == FoldLeft(Extend, base, seq)
AddedFrom(base, seq) == FoldLeft(AddSpan, base, seq)

\* Folding along a sequence is the same there.
LEMMA SameFolds ==
    /\ \A base, seq : Merging!FoldedLeft(base, seq) = MergedFrom(base, seq)
    /\ \A base, seq : Adding!FoldedLeft(base, seq) = AddedFrom(base, seq)
BY DEF MergedFrom, AddedFrom, Merging!FoldedLeft, Adding!FoldedLeft,
       FoldLeft, MapThenFoldSet, Merging!FoldLeft, Merging!MapThenFoldSet,
       Adding!FoldLeft, Adding!MapThenFoldSet, Max, Merging!Max, Adding!Max

\* What merging along a sequence runs through.
LEMMA MergeRuns ==
    ASSUME NEW base, NEW seq, NEW n \in Nat, DOMAIN seq = 1..n
    PROVE  \E run : /\ run[0] = base
                    /\ \A k \in 1..n : run[k] = Extend(run[k - 1], seq[k])
                    /\ MergedFrom(base, seq) = run[n]
<1>1. \E run : Merging!RunsThrough(run, base, seq, n)
                 /\ Merging!FoldedLeft(base, seq) = run[n]
    BY Merging!FoldLeftRuns
<1> QED BY <1>1, SameFolds DEF Merging!RunsThrough

\* The sums of the first spans.
AddsThrough(run, base, seq, n) ==
    /\ run[0] = base
    /\ \A k \in 1..n : run[k] = AddSpan(run[k - 1], seq[k])

\* What adding spans along a sequence runs through.
LEMMA AddRuns ==
    ASSUME NEW base, NEW seq, NEW n \in Nat, DOMAIN seq = 1..n
    PROVE  \E run : AddsThrough(run, base, seq, n) /\ AddedFrom(base, seq) = run[n]
<1>1. \E run : Adding!RunsThrough(run, base, seq, n)
                 /\ Adding!FoldedLeft(base, seq) = run[n]
    BY Adding!FoldLeftRuns
<1> QED BY <1>1, SameFolds DEF Adding!RunsThrough, AddsThrough

\* What is picked from a sequence, at positions in some order, are the elements
\* at those positions.
LEMMA PickedElements ==
    ASSUME NEW S, NEW seq \in Seq(S), NEW kept \in SUBSET (DOMAIN seq), NEW order,
           Adding!StrictOrder(kept, order)
    PROVE  LET picked == Picked(seq, Arranged(kept, order)) IN
           /\ picked \in Seq(S)
           /\ Len(picked) = Cardinality(kept)
           /\ ToSet(picked) = {seq[i] : i \in kept}
BY Adding!PickedInOrder, SameThere

\* A comprehension keeps the elements at the positions that meet its condition.
LEMMA KeptElements ==
    ASSUME NEW S, NEW seq \in Seq(S), NEW kept \in SUBSET (DOMAIN seq)
    PROVE  LET picked == Picked(seq, Arranged(kept, Rising(kept))) IN
           /\ picked \in Seq(S)
           /\ Len(picked) = Cardinality(kept)
           /\ ToSet(picked) = {seq[i] : i \in kept}
<1>1. kept \in SUBSET Int
    BY LenProperties
<1>2. Adding!StrictOrder(kept, Rising(kept))
    BY <1>1, Adding!RisingIsStrict, SameThere
<1> QED BY <1>2, PickedElements

\* Start and end are instants.
Timed(S) == \A u \in S : u.start \in Int /\ u.end \in Int

\* By start, then end, then position.
LEMMA EarlierIsStrict ==
    ASSUME NEW S, Timed(S), NEW seq \in Seq(S)
    PROVE  Adding!StrictOrder(DOMAIN seq, StableOrder(seq, Earlier))
<1> DEFINE order == StableOrder(seq, Earlier)
<1>1. DOMAIN seq \in SUBSET Int
    BY LenProperties
<1>2. \A i \in DOMAIN seq : seq[i].start \in Int /\ seq[i].end \in Int
    BY LenProperties DEF Timed
<1>3. \A i, j \in DOMAIN seq : <<i, j>> \in order <=>
        \/ seq[i].start < seq[j].start
        \/ seq[i].start = seq[j].start /\ seq[i].end < seq[j].end
        \/ seq[i].start = seq[j].start /\ seq[i].end = seq[j].end /\ i < j
    BY <1>1, <1>2 DEF StableOrder, Earlier
<1> HIDE DEF order
<1>4. \A i, j \in DOMAIN seq : <<i, j>> \in order => <<j, i>> \notin order
    BY <1>1, <1>2, <1>3
<1>5. ASSUME NEW i \in DOMAIN seq, NEW j \in DOMAIN seq, i # j
      PROVE  <<i, j>> \in order \/ <<j, i>> \in order
    <2>1. i \in Int /\ j \in Int
        BY <1>1
    <2>2. /\ seq[i].start \in Int /\ seq[i].end \in Int
          /\ seq[j].start \in Int /\ seq[j].end \in Int
        BY <1>2
    <2> QED BY <1>3, <1>5, <2>1, <2>2
<1>6. \A i, j, k \in DOMAIN seq :
        <<i, j>> \in order /\ <<j, k>> \in order => <<i, k>> \in order
    BY <1>1, <1>2, <1>3
<1> QED BY <1>4, <1>5, <1>6 DEF order, Adding!StrictOrder

\* Sorting keeps the elements and puts them by start.
LEMMA SortedByStart ==
    ASSUME NEW S, Timed(S), NEW seq \in Seq(S)
    PROVE  LET sorted == Sorted(seq, Earlier) IN
           /\ sorted \in Seq(S)
           /\ Len(sorted) = Len(seq)
           /\ ToSet(sorted) = ToSet(seq)
           /\ \A k, l \in DOMAIN sorted : k < l => sorted[k].start <= sorted[l].start
<1> DEFINE order == StableOrder(seq, Earlier)
           at == Arranged(DOMAIN seq, order)
           sorted == Sorted(seq, Earlier)
<1>1. sorted = Picked(seq, at)
    BY DEF Sorted
<1>2. Adding!StrictOrder(DOMAIN seq, order)
    BY EarlierIsStrict
<1>3. IsFiniteSet(DOMAIN seq) /\ Cardinality(DOMAIN seq) = Len(seq) /\ Len(seq) \in Nat
    <2>1. DOMAIN seq = 1..Len(seq) /\ Len(seq) \in Nat
        BY LenProperties
    <2> QED BY <2>1, FS_Interval
<1>4. /\ at \in [1..Len(seq) -> DOMAIN seq]
      /\ \A k, l \in 1..Len(seq) : k < l => <<at[k], at[l]>> \in order
    BY <1>2, <1>3, Adding!ArrangedInOrder, SameThere
<1>5. /\ sorted \in Seq(S)
      /\ Len(sorted) = Len(seq)
      /\ ToSet(sorted) = {seq[i] : i \in DOMAIN seq}
    BY <1>1, <1>2, <1>3, PickedElements
<1>6. \A i, j \in DOMAIN seq : <<i, j>> \in order => seq[i].start <= seq[j].start
    <2>1. \A i \in DOMAIN seq : seq[i].start \in Int
        BY LenProperties DEF Timed
    <2> QED BY <2>1 DEF StableOrder, Earlier
<1> HIDE DEF at, order
<1>7. \A k \in 1..Len(seq) : sorted[k] = seq[at[k]]
    BY <1>1, <1>4 DEF Picked
<1> HIDE DEF sorted
<1>8. \A k, l \in DOMAIN sorted : k < l => sorted[k].start <= sorted[l].start
    <2> SUFFICES ASSUME NEW k \in 1..Len(seq), NEW l \in 1..Len(seq), k < l
                 PROVE  sorted[k].start <= sorted[l].start
        BY <1>5, LenProperties
    <2>1. at[k] \in DOMAIN seq /\ at[l] \in DOMAIN seq /\ <<at[k], at[l]>> \in order
        BY <1>4
    <2> QED BY <1>6, <1>7, <2>1
<1> QED BY <1>5, <1>8 DEF sorted, ToSet

---------------------------------------------------------------------------
(* Merging *)

\* Every interval has a beginning and ends after it.
Spanning(S) == \A u \in S : u.start \in Nat /\ u.end \in Nat /\ u.start < u.end

\* The moments in which somebody speaks.
Moments(S) == {t \in Nat : \E u \in S : u.start <= t /\ t < u.end}

Piece == [start : Nat, end : Nat]

\* One piece after the other, with a gap between them.
Apart(pieces) ==
    /\ \A i \in DOMAIN pieces : pieces[i].start < pieces[i].end
    /\ \A i, j \in DOMAIN pieces : i < j => pieces[i].end < pieces[j].start

\* What the first intervals have been merged to.
MergedSoFar(pieces, seen) ==
    /\ pieces \in Seq(Piece) /\ pieces # <<>>
    /\ Apart(pieces)
    /\ Moments(ToSet(pieces)) = Moments(seen)

\* An interval that does not start before the last piece either continues that
\* piece or starts one.
LEMMA ExtendMerges ==
    ASSUME NEW pieces, NEW seen, NEW iv, MergedSoFar(pieces, seen),
           iv.start \in Nat, iv.end \in Nat, iv.start < iv.end,
           Last(pieces).start <= iv.start
    PROVE  /\ MergedSoFar(Extend(pieces, iv), seen \cup {iv})
           /\ Last(Extend(pieces, iv)).start <= iv.start
<1> DEFINE n == Len(pieces)
           last == pieces[n]
           more == Extend(pieces, iv)
           Early(t) == \E i \in 1..(n - 1) :
                            pieces[i].start <= t /\ t < pieces[i].end
<1>1. /\ n \in Nat \ {0} /\ DOMAIN pieces = 1..n
      /\ \A i \in 1..n : pieces[i] \in Piece
    BY DEF MergedSoFar
<1>2. last \in Piece /\ Last(pieces) = last /\ last.start <= iv.start
    BY <1>1 DEF Last
<1>3. \A i \in 1..n : pieces[i].start \in Nat /\ pieces[i].end \in Nat
    BY <1>1 DEF Piece
<1>4. \A t : t \in Moments(seen \cup {iv}) <=>
                t \in Moments(seen) \/ (t \in Nat /\ iv.start <= t /\ t < iv.end)
    BY DEF Moments
<1>5. \A t \in Nat : t \in Moments(seen) <=>
                        Early(t) \/ (last.start <= t /\ t < last.end)
    <2>1. \A t \in Nat : t \in Moments(seen) <=>
                        \E i \in 1..n : pieces[i].start <= t /\ t < pieces[i].end
        BY <1>1 DEF MergedSoFar, Moments, ToSet
    <2> QED BY <1>1, <2>1
<1>6. /\ \A i \in 1..n : pieces[i].start < pieces[i].end
      /\ \A i, j \in 1..n : i < j => pieces[i].end < pieces[j].start
    BY <1>1 DEF MergedSoFar, Apart
<1>7. last.start \in Nat /\ last.end \in Nat /\ last.start < last.end
    BY <1>1, <1>3, <1>6
<1> HIDE DEF n, last, Early
<1>8. CASE iv.start <= last.end
    <2> DEFINE longer == [start |-> last.start, end |-> Larger(last.end, iv.end)]
    <2>1. longer \in Piece /\ longer.start = last.start
            /\ longer.end = Larger(last.end, iv.end)
        BY <1>7 DEF Larger, Piece
    <2>2. more = [pieces EXCEPT ![n] = longer]
        <3>1. more = [pieces EXCEPT ![n] = [last EXCEPT !.end = Larger(@, iv.end)]]
            BY <1>2, <1>8 DEF Extend, n, last
        <3>2. [last EXCEPT !.end = Larger(last.end, iv.end)] = longer
            <4> DEFINE e == Larger(last.end, iv.end)
            <4> HIDE DEF e
            <4> QED BY <1>2 DEF Piece
        <3> QED BY <3>1, <3>2
    <2> HIDE DEF longer, more
    <2>3. more \in Seq(Piece) /\ Len(more) = n /\ DOMAIN more = 1..n
        BY <1>1, <2>1, <2>2 DEF MergedSoFar
    <2>4. more[n] = longer
        BY <1>1, <2>2
    <2>5. \A i \in 1..n : i # n => more[i] = pieces[i]
        BY <1>1, <2>2
    <2>6. Apart(more)
        <3>1. ASSUME NEW i \in 1..n PROVE more[i].start < more[i].end
            <4>1. CASE i = n
                BY <1>7, <2>1, <2>4, <4>1 DEF Larger
            <4>2. CASE i # n
                BY <1>6, <2>5, <4>2
            <4> QED BY <4>1, <4>2
        <3>2. ASSUME NEW i \in 1..n, NEW j \in 1..n, i < j
              PROVE  more[i].end < more[j].start
            <4>1. i # n
                BY <1>1, <3>2
            <4>2. more[j].start = pieces[j].start
                BY <2>1, <2>4, <2>5 DEF last
            <4> QED BY <1>6, <2>5, <3>2, <4>1, <4>2
        <3> QED BY <2>3, <3>1, <3>2 DEF Apart
    <2>7. ASSUME NEW t \in Nat
          PROVE  t \in Moments(ToSet(more)) <=> t \in Moments(seen \cup {iv})
        <3>1. t \in Moments(ToSet(more)) <=>
                    \E i \in 1..n : more[i].start <= t /\ t < more[i].end
            BY <2>3 DEF Moments, ToSet
        <3>2. \A i \in 1..(n - 1) : i \in 1..n /\ i # n
            BY <1>1
        <3>3. \A i \in 1..n : i = n \/ i \in 1..(n - 1)
            BY <1>1
        <3>4. t \in Moments(ToSet(more)) <=>
                    Early(t) \/ (longer.start <= t /\ t < longer.end)
            BY <1>1, <2>4, <2>5, <3>1, <3>2, <3>3 DEF Early
        <3>5. longer.start <= t /\ t < longer.end <=>
                \/ last.start <= t /\ t < last.end
                \/ iv.start <= t /\ t < iv.end
            BY <1>2, <1>7, <1>8, <2>1 DEF Larger
        <3> QED BY <1>4, <1>5, <3>4, <3>5
    <2>8. Moments(ToSet(more)) = Moments(seen \cup {iv})
        BY <2>7 DEF Moments
    <2>9. Last(more).start <= iv.start
        BY <1>2, <2>1, <2>3, <2>4 DEF Last
    <2> QED BY <1>1, <2>3, <2>6, <2>8, <2>9 DEF MergedSoFar, more
<1>9. CASE ~(iv.start <= last.end)
    <2> DEFINE piece == [start |-> iv.start, end |-> iv.end]
    <2>1. piece \in Piece /\ piece.start = iv.start /\ piece.end = iv.end
        BY DEF Piece
    <2>2. more = Append(pieces, piece)
        BY <1>2, <1>9 DEF Extend
    <2> HIDE DEF piece, more
    <2>3. more \in Seq(Piece) /\ Len(more) = n + 1 /\ DOMAIN more = 1..(n + 1)
        BY <1>1, <2>1, <2>2 DEF MergedSoFar, n
    <2>4. more[n + 1] = piece /\ \A i \in 1..n : more[i] = pieces[i]
        BY <1>1, <2>1, <2>2 DEF MergedSoFar, n
    <2>5. Apart(more)
        <3>1. ASSUME NEW i \in 1..(n + 1) PROVE more[i].start < more[i].end
            <4>1. CASE i = n + 1
                BY <2>1, <2>4, <4>1
            <4>2. CASE i \in 1..n
                BY <1>6, <2>4, <4>2
            <4> QED BY <1>1, <4>1, <4>2
        <3>2. ASSUME NEW i \in 1..n PROVE pieces[i].end < piece.start
            <4>1. pieces[i].end <= last.end
                <5>1. CASE i = n
                    BY <1>7, <5>1 DEF last
                <5>2. CASE i # n
                    <6>1. pieces[i].end < last.start
                        BY <1>1, <1>6, <5>2 DEF last
                    <6> QED BY <1>3, <1>7, <6>1
                <5> QED BY <5>1, <5>2
            <4>2. pieces[i].end \in Nat
                BY <1>3
            <4> QED BY <1>7, <1>9, <2>1, <4>1, <4>2
        <3>3. ASSUME NEW i \in 1..(n + 1), NEW j \in 1..(n + 1), i < j
              PROVE  more[i].end < more[j].start
            <4>1. i \in 1..n
                BY <1>1, <3>3
            <4>2. CASE j = n + 1
                BY <2>4, <3>2, <4>1, <4>2
            <4>3. CASE j \in 1..n
                BY <1>6, <2>4, <3>3, <4>1, <4>3
            <4> QED BY <1>1, <4>2, <4>3
        <3> QED BY <2>3, <3>1, <3>3 DEF Apart
    <2>6. ASSUME NEW t \in Nat
          PROVE  t \in Moments(ToSet(more)) <=> t \in Moments(seen \cup {iv})
        <3>1. t \in Moments(ToSet(more)) <=>
                    \E i \in 1..(n + 1) : more[i].start <= t /\ t < more[i].end
            BY <2>3 DEF Moments, ToSet
        <3>2. t \in Moments(seen) <=>
                    \E i \in 1..n : pieces[i].start <= t /\ t < pieces[i].end
            BY <1>1 DEF MergedSoFar, Moments, ToSet
        <3>3. n + 1 \in 1..(n + 1) /\ \A i \in 1..(n + 1) : i = n + 1 \/ i \in 1..n
            BY <1>1
        <3>4. \A i \in 1..n : i \in 1..(n + 1)
            BY <1>1
        <3> QED BY <1>4, <2>1, <2>4, <3>1, <3>2, <3>3, <3>4
    <2>7. Moments(ToSet(more)) = Moments(seen \cup {iv})
        BY <2>6 DEF Moments
    <2>8. Last(more).start <= iv.start
        BY <2>1, <2>3, <2>4 DEF Last
    <2> QED BY <1>1, <2>3, <2>5, <2>7, <2>8 DEF MergedSoFar, more
<1> QED BY <1>8, <1>9

\* Merging intervals leaves the same moments, in pieces that are apart.
LEMMA UnionMerges ==
    ASSUME NEW S, Spanning(S), NEW seq \in Seq(S), seq # <<>>
    PROVE  MergedSoFar(UnionIntervals(seq), ToSet(seq))
<1> DEFINE sorted == Sorted(seq, Earlier)
           n == Len(sorted)
           first == [start |-> Head(sorted).start, end |-> Head(sorted).end]
           rest == Tail(sorted)
           Seen(k) == {sorted[i] : i \in 1..k}
<1>1. Timed(S)
    BY DEF Spanning, Timed
<1>2. sorted \in Seq(S) /\ n = Len(seq) /\ ToSet(sorted) = ToSet(seq)
    BY <1>1, SortedByStart
<1>3. \A k, l \in DOMAIN sorted : k < l => sorted[k].start <= sorted[l].start
    BY <1>1, SortedByStart
<1>4. UnionIntervals(seq) = MergedFrom(<<first>>, rest)
    BY DEF UnionIntervals, MergedFrom
<1>5. n \in Nat \ {0} /\ DOMAIN sorted = 1..n /\ ToSet(seq) = Seen(n)
    BY <1>2, LenProperties, EmptySeq DEF ToSet
<1> HIDE DEF sorted
<1>6. \A i \in 1..n : /\ sorted[i].start \in Nat /\ sorted[i].end \in Nat
                      /\ sorted[i].start < sorted[i].end
    BY <1>2, <1>5 DEF Spanning
<1>7. rest \in Seq(S) /\ Len(rest) = n - 1 /\ DOMAIN rest = 1..(n - 1)
        /\ \A i \in 1..(n - 1) : rest[i] = sorted[i + 1]
    BY <1>2, <1>5
<1> HIDE DEF n, rest
<1>8. PICK run : /\ run[0] = <<first>>
                 /\ \A k \in 1..(n - 1) : run[k] = Extend(run[k - 1], rest[k])
                 /\ MergedFrom(<<first>>, rest) = run[n - 1]
    <2>1. n - 1 \in Nat /\ DOMAIN rest = 1..(n - 1)
        BY <1>5, <1>7
    <2> HIDE DEF first
    <2> QED BY <2>1, MergeRuns
<1> DEFINE Right == {k \in Nat : k <= n - 1 =>
                        /\ MergedSoFar(run[k], Seen(k + 1))
                        /\ Last(run[k]).start <= sorted[k + 1].start}
<1>9. 0 \in Right
    <2>1. first \in Piece /\ first.start = sorted[1].start /\ first.end = sorted[1].end
        BY <1>2, <1>5, <1>6 DEF Piece, n
    <2> HIDE DEF first
    <2>2. /\ <<first>> \in Seq(Piece) /\ <<first>> # <<>> /\ Last(<<first>>) = first
          /\ ToSet(<<first>>) = {first} /\ DOMAIN <<first>> = {1} /\ <<first>>[1] = first
        BY <2>1 DEF Last, ToSet
    <2>3. Seen(1) = {sorted[1]}
        OBVIOUS
    <2>4. Moments({first}) = Moments({sorted[1]})
        BY <2>1 DEF Moments
    <2>5. Apart(<<first>>)
        BY <1>5, <1>6, <2>1, <2>2 DEF Apart
    <2>6. Last(<<first>>).start <= sorted[1].start
        BY <1>5, <1>6, <2>1, <2>2
    <2>7. MergedSoFar(<<first>>, Seen(1))
        BY <2>2, <2>3, <2>4, <2>5 DEF MergedSoFar
    <2> HIDE DEF Seen
    <2> QED BY <1>8, <2>6, <2>7
<1>10. ASSUME NEW k \in Nat, k \in Right PROVE k + 1 \in Right
    <2> SUFFICES ASSUME k + 1 <= n - 1
                 PROVE  /\ MergedSoFar(run[k + 1], Seen(k + 2))
                        /\ Last(run[k + 1]).start <= sorted[k + 2].start
        <3> HIDE DEF Seen
        <3>1. (k + 1) + 1 = k + 2
            OBVIOUS
        <3> QED BY <3>1
    <2> DEFINE iv == sorted[k + 2]
    <2>1. /\ MergedSoFar(run[k], Seen(k + 1))
          /\ Last(run[k]).start <= sorted[k + 1].start
        <3> HIDE DEF Seen
        <3> QED BY <1>5, <1>10
    <2>2. k + 1 \in 1..n /\ k + 2 \in 1..n /\ k + 1 < k + 2
        BY <1>5
    <2>3. /\ iv.start \in Nat /\ iv.end \in Nat /\ iv.start < iv.end
          /\ sorted[k + 1].start \in Nat /\ sorted[k + 1].start <= iv.start
        BY <1>3, <1>5, <1>6, <2>2
    <2>4. Last(run[k]).start \in Nat
        <3>1. run[k] \in Seq(Piece) /\ run[k] # <<>>
            BY <2>1 DEF MergedSoFar
        <3>2. Last(run[k]) \in Piece
            BY <3>1 DEF Last
        <3> QED BY <3>2 DEF Piece
    <2>5. run[k + 1] = Extend(run[k], iv)
        <3>1. k + 1 \in 1..(n - 1) /\ (k + 1) - 1 = k /\ rest[k + 1] = iv
            BY <1>5, <1>7
        <3> QED BY <1>8, <3>1
    <2>6. Seen(k + 2) = Seen(k + 1) \cup {iv}
        <3>1. 1..(k + 2) = (1..(k + 1)) \cup {k + 2}
            OBVIOUS
        <3> QED BY <3>1
    <2>7. Last(run[k]).start <= iv.start
        BY <2>1, <2>3, <2>4
    <2> HIDE DEF Seen, iv
    <2>8. /\ MergedSoFar(Extend(run[k], iv), Seen(k + 1) \cup {iv})
          /\ Last(Extend(run[k], iv)).start <= iv.start
        BY <2>1, <2>3, <2>7, ExtendMerges
    <2> QED BY <2>5, <2>6, <2>8 DEF iv
<1> HIDE DEF Right
<1>11. n - 1 \in Right
    BY <1>5, <1>9, <1>10, Merging!NumberInduction
<1>12. MergedSoFar(run[n - 1], Seen(n))
    <2>1. n - 1 <= n - 1 /\ (n - 1) + 1 = n
        BY <1>5
    <2> HIDE DEF Seen
    <2> QED BY <1>11, <2>1 DEF Right
<1> QED BY <1>4, <1>5, <1>8, <1>12

\* The spans of pieces that are apart add up to the number of their moments.
LEMMA SpansAddUp ==
    ASSUME NEW pieces \in Seq(Piece), Apart(pieces)
    PROVE  AddedFrom(0, pieces) = Cardinality(Moments(ToSet(pieces)))
<1> DEFINE n == Len(pieces)
           Until(k) == Moments({pieces[i] : i \in 1..k})
<1>1. n \in Nat /\ DOMAIN pieces = 1..n /\ ToSet(pieces) = {pieces[i] : i \in 1..n}
    BY LenProperties DEF ToSet
<1>2. \A i \in 1..n : pieces[i].start \in Nat /\ pieces[i].end \in Nat
    <2>1. \A i \in 1..n : pieces[i] \in Piece
        BY <1>1
    <2> QED BY <2>1 DEF Piece
<1>3. /\ \A i \in 1..n : pieces[i].start < pieces[i].end
      /\ \A i, j \in 1..n : i < j => pieces[i].end < pieces[j].start
    BY <1>1 DEF Apart
<1> HIDE DEF n
<1>4. PICK run : /\ run[0] = 0
                 /\ \A k \in 1..n : run[k] = AddSpan(run[k - 1], pieces[k])
                 /\ AddedFrom(0, pieces) = run[n]
    <2>1. n \in Nat /\ DOMAIN pieces = 1..n
        BY <1>1
    <2>2. \E run : AddsThrough(run, 0, pieces, n) /\ AddedFrom(0, pieces) = run[n]
        BY <2>1, AddRuns
    <2> QED BY <2>2 DEF AddsThrough
<1> DEFINE Right == {k \in Nat : k <= n =>
                        IsFiniteSet(Until(k)) /\ run[k] = Cardinality(Until(k))}
<1> HIDE DEF Until
<1>5. 0 \in Right
    <2>1. Until(0) = {}
        BY DEF Moments, Until
    <2> QED BY <1>4, <2>1, FS_EmptySet
<1>6. ASSUME NEW k \in Nat, k \in Right PROVE k + 1 \in Right
    <2> SUFFICES ASSUME k + 1 <= n
                 PROVE  /\ IsFiniteSet(Until(k + 1))
                        /\ run[k + 1] = Cardinality(Until(k + 1))
        OBVIOUS
    <2> DEFINE p == pieces[k + 1]
               here == p.start..(p.end - 1)
    <2>1. IsFiniteSet(Until(k)) /\ run[k] = Cardinality(Until(k))
        BY <1>1, <1>6
    <2>2. k + 1 \in 1..n /\ p.start \in Nat /\ p.end \in Nat /\ p.start < p.end
        BY <1>1, <1>2, <1>3
    <2>3. Until(k + 1) = Until(k) \cup here
        <3>1. 1..(k + 1) = (1..k) \cup {k + 1}
            OBVIOUS
        <3>2. \A t : t \in here <=> t \in Nat /\ p.start <= t /\ t < p.end
            BY <2>2
        <3> HIDE DEF here
        <3> QED BY <3>1, <3>2 DEF Moments, Until
    <2>4. Until(k) \cap here = {}
        <3> SUFFICES ASSUME NEW t \in Until(k), t \in here PROVE FALSE
            OBVIOUS
        <3>1. PICK i \in 1..k : t < pieces[i].end
            BY DEF Moments, Until
        <3>2. i \in 1..n /\ i < k + 1
            BY <1>1, <2>2
        <3>3. pieces[i].end < p.start /\ pieces[i].end \in Nat
            BY <1>2, <1>3, <2>2, <3>2
        <3> QED BY <2>2, <3>1, <3>3
    <2>5. IsFiniteSet(here) /\ Cardinality(here) = p.end - p.start
        <3>1. p.start \in Int /\ p.end - 1 \in Int /\ ~(p.start > p.end - 1)
            BY <2>2
        <3>2. IsFiniteSet(here)
            BY <3>1, FS_Interval
        <3>3. Cardinality(here) = (p.end - 1) - p.start + 1
            BY <3>1, FS_Interval
        <3> QED BY <2>2, <3>2, <3>3
    <2>6. run[k + 1] = run[k] + (p.end - p.start)
        <3>1. (k + 1) - 1 = k
            OBVIOUS
        <3> QED BY <1>4, <2>2, <3>1 DEF AddSpan, Span
    <2> HIDE DEF here, p
    <2>7. /\ IsFiniteSet(Until(k) \cup here)
          /\ Cardinality(Until(k) \cup here)
                = Cardinality(Until(k)) + Cardinality(here) - 0
        BY <2>1, <2>4, <2>5, FS_Union, FS_EmptySet
    <2>8. Cardinality(Until(k)) \in Nat
        BY <2>1, FS_CardinalityType
    <2> DEFINE before == Cardinality(Until(k))
               length == p.end - p.start
    <2>9. before \in Nat /\ length \in Int
        BY <2>2, <2>8
    <2>10. Cardinality(Until(k + 1)) = before + length
        <3>1. Cardinality(Until(k + 1)) = before + length - 0
            BY <2>3, <2>5, <2>7
        <3> HIDE DEF before, length
        <3> QED BY <2>9, <3>1
    <2>11. run[k + 1] = before + length
        BY <2>1, <2>6
    <2>12. IsFiniteSet(Until(k + 1))
        BY <2>3, <2>7
    <2> HIDE DEF before, length
    <2> QED BY <2>10, <2>11, <2>12
<1> HIDE DEF Right
<1>7. n \in Right
    BY <1>1, <1>5, <1>6, Adding!NumberInduction
<1>8. run[n] = Cardinality(Until(n))
    BY <1>1, <1>7 DEF Right
<1>9. Until(n) = Moments(ToSet(pieces))
    BY <1>1 DEF Until
<1> QED BY <1>4, <1>8, <1>9

\* The total duration of intervals is the number of moments in them.
LEMMA DurationCountsMoments ==
    ASSUME NEW S, Spanning(S), NEW seq \in Seq(S)
    PROVE  TotalDuration(seq) = Cardinality(Moments(ToSet(seq)))
<1>1. TotalDuration(seq) = AddedFrom(0, UnionIntervals(seq))
    BY DEF TotalDuration, AddedFrom
<1>2. CASE seq = <<>>
    <2>1. UnionIntervals(seq) = <<>> /\ ToSet(seq) = {}
        BY <1>2 DEF UnionIntervals, ToSet
    <2>2. <<>> \in Seq(Piece) /\ Apart(<<>>) /\ ToSet(<<>>) = {}
        BY DEF Apart, ToSet
    <2> QED BY <1>1, <2>1, <2>2, SpansAddUp
<1>3. CASE seq # <<>>
    BY <1>1, <1>3, UnionMerges, SpansAddUp DEF MergedSoFar
<1> QED BY <1>2, <1>3

---------------------------------------------------------------------------
(* The metrics *)

\* What is spoken is what lasts.
LEMMA SpokenElements ==
    ASSUME NEW S, NEW seq \in Seq(S)
    PROVE  /\ Spoken(seq) \in Seq(S)
           /\ ToSet(Spoken(seq)) = {u \in ToSet(seq) : u.end > u.start}
<1> DEFINE kept == {i \in DOMAIN seq : seq[i].end > seq[i].start}
           picked == Picked(seq, Arranged(kept, Rising(kept)))
<1>1. Spoken(seq) = picked
    BY DEF Spoken, Filtered
<1>2. picked \in Seq(S) /\ ToSet(picked) = {seq[i] : i \in kept}
    BY KeptElements
<1>3. {seq[i] : i \in kept} = {u \in ToSet(seq) : u.end > u.start}
    BY DEF ToSet
<1> HIDE DEF picked
<1> QED BY <1>1, <1>2, <1>3

\* What a party speaks is what is spoken under a label of that role.
LEMMA PartyElements ==
    ASSUME NEW S, NEW seq \in Seq(S), NEW map, NEW role
    PROVE  /\ SpokenBy(seq, map, role) \in Seq(S)
           /\ ToSet(SpokenBy(seq, map, role)) =
                {u \in ToSet(Spoken(seq)) : RoleOf(map, u.label) = role}
<1> DEFINE all == Spoken(seq)
           kept == {i \in DOMAIN all : RoleOf(map, all[i].label) = role}
           picked == Picked(all, Arranged(kept, Rising(kept)))
<1>1. SpokenBy(seq, map, role) = picked
    BY DEF SpokenBy, Filtered
<1>2. all \in Seq(S)
    BY SpokenElements
<1> HIDE DEF all
<1>3. picked \in Seq(S) /\ ToSet(picked) = {all[i] : i \in kept}
    BY <1>2, KeptElements
<1>4. {all[i] : i \in kept} = {u \in ToSet(all) : RoleOf(map, u.label) = role}
    BY DEF ToSet
<1> HIDE DEF picked
<1> QED BY <1>1, <1>3, <1>4 DEF all

\* An utterance that passed the validator of the provider's output.
Voiced == {u \in [start : Nat, end : Nat, label : ToSet(LabelOrder)] :
              u.start < u.end /\ u.end <= Duration + Tolerance}

\* The fields of such an utterance.
LEMMA VoicedFacts ==
    ASSUME NEW us \in Seq(Voiced)
    PROVE  /\ Spanning(Voiced) /\ Timed(Voiced) /\ Spanning(ToSet(us))
           /\ ToSet(Spoken(us)) = ToSet(us)
<1>1. ToSet(us) \in SUBSET Voiced
    BY LenProperties DEF ToSet
<1>2. \A u \in Voiced : u.start \in Nat /\ u.end \in Nat /\ u.start < u.end
    BY DEF Voiced
<1>3. ToSet(Spoken(us)) = {u \in ToSet(us) : u.end > u.start}
    BY SpokenElements
<1>4. \A u \in ToSet(us) : u.end > u.start
    BY <1>1, <1>2
<1> QED BY <1>1, <1>2, <1>3, <1>4 DEF Spanning, Timed

\* The talk times are the numbers of moments spoken.
LEMMA TalkTimes ==
    ASSUME NEW us \in Seq(Voiced), NEW duration, NEW map
    PROVE  LET metrics == Analyze(us, duration, map)
               Of(role) == {u \in ToSet(us) : RoleOf(map, u.label) = role}
           IN  /\ metrics.agent = Cardinality(Moments(Of("AGENT")))
               /\ metrics.customer = Cardinality(Moments(Of("CUSTOMER")))
               /\ metrics.total = Cardinality(Moments(ToSet(us)))
<1> DEFINE metrics == Analyze(us, duration, map)
           Of(role) == {u \in ToSet(us) : RoleOf(map, u.label) = role}
<1>1. CASE us = <<>>
    <2>1. metrics.agent = 0 /\ metrics.customer = 0 /\ metrics.total = 0
        BY <1>1 DEF Analyze
    <2>2. ToSet(us) = {}
        BY <1>1 DEF ToSet
    <2>3. Moments(Of("AGENT")) = {} /\ Moments(Of("CUSTOMER")) = {}
            /\ Moments(ToSet(us)) = {}
        BY <2>2 DEF Moments
    <2> QED BY <2>1, <2>3, FS_EmptySet
<1>2. CASE us # <<>>
    <2>1. /\ metrics.agent = TotalDuration(SpokenBy(us, map, "AGENT"))
          /\ metrics.customer = TotalDuration(SpokenBy(us, map, "CUSTOMER"))
          /\ metrics.total = TotalDuration(Spoken(us))
        BY <1>2 DEF Analyze
    <2>2. \A role : /\ SpokenBy(us, map, role) \in Seq(Voiced)
                    /\ ToSet(SpokenBy(us, map, role)) = Of(role)
        BY PartyElements, VoicedFacts
    <2>3. Spoken(us) \in Seq(Voiced) /\ ToSet(Spoken(us)) = ToSet(us)
        BY SpokenElements, VoicedFacts
    <2>4. Spanning(Voiced)
        BY VoicedFacts
    <2> HIDE DEF Of, metrics
    <2>5. \A role : TotalDuration(SpokenBy(us, map, role)) = Cardinality(Moments(Of(role)))
        BY <2>2, <2>4, DurationCountsMoments
    <2>6. TotalDuration(Spoken(us)) = Cardinality(Moments(ToSet(us)))
        BY <2>3, <2>4, DurationCountsMoments
    <2> QED BY <2>1, <2>5, <2>6 DEF Of, metrics
<1> QED BY <1>1, <1>2

\* A silence between moments of a set that lasts for the threshold.
Silence(g, spoken) ==
    /\ Span(g) >= DeadAirThreshold
    /\ g.start # 0 /\ g.start - 1 \in spoken
    /\ g.end \in spoken
    /\ \A t \in g.start..(g.end - 1) : t \notin spoken

GapsOf(pieces) ==
    {g \in {[start |-> pieces[i].end, end |-> pieces[i + 1].start] :
                i \in 1..(Len(pieces) - 1)} : Span(g) >= DeadAirThreshold}

\* Between pieces that are apart there is silence, and there is no other.
LEMMA SilenceBetweenPieces ==
    ASSUME NEW pieces \in Seq(Piece), Apart(pieces)
    PROVE  GapsOf(pieces) =
             {g \in Piece : Silence(g, Moments(ToSet(pieces)))}
<1> DEFINE n == Len(pieces)
           spoken == Moments(ToSet(pieces))
<1>1. n \in Nat /\ DOMAIN pieces = 1..n
    BY LenProperties
<1>2. \A i \in 1..n : pieces[i].start \in Nat /\ pieces[i].end \in Nat
    <2>1. \A i \in 1..n : pieces[i] \in Piece
        BY <1>1
    <2> QED BY <2>1 DEF Piece
<1>3. /\ \A i \in 1..n : pieces[i].start < pieces[i].end
      /\ \A i, j \in 1..n : i < j => pieces[i].end < pieces[j].start
    BY <1>1 DEF Apart
<1>4. \A t : t \in spoken <=>
        t \in Nat /\ \E i \in 1..n : pieces[i].start <= t /\ t < pieces[i].end
    BY <1>1 DEF Moments, ToSet
<1> HIDE DEF n, spoken
<1>5. ASSUME NEW i \in 1..(n - 1)
      PROVE  LET g == [start |-> pieces[i].end, end |-> pieces[i + 1].start] IN
             g \in Piece /\ (Span(g) >= DeadAirThreshold => Silence(g, spoken))
    <2> DEFINE g == [start |-> pieces[i].end, end |-> pieces[i + 1].start]
    <2>1. i \in 1..n /\ i + 1 \in 1..n /\ i < i + 1
        BY <1>1
    <2>2. /\ pieces[i].start \in Nat /\ pieces[i].end \in Nat
          /\ pieces[i].start < pieces[i].end
          /\ pieces[i + 1].start \in Nat /\ pieces[i + 1].end \in Nat
          /\ pieces[i + 1].start < pieces[i + 1].end
          /\ pieces[i].end < pieces[i + 1].start
        BY <1>2, <1>3, <2>1
    <2>3. g \in Piece
        BY <2>2 DEF Piece
    <2>4. g.start # 0 /\ g.start - 1 \in spoken
        <3>1. pieces[i].end - 1 \in Nat /\ pieces[i].start <= pieces[i].end - 1
                /\ pieces[i].end - 1 < pieces[i].end
            BY <2>2
        <3> QED BY <1>4, <2>1, <2>2, <3>1
    <2>5. g.end \in spoken
        BY <1>4, <2>1, <2>2
    <2>6. ASSUME NEW t \in g.start..(g.end - 1), t \in spoken PROVE FALSE
        <3>1. PICK j \in 1..n : pieces[j].start <= t /\ t < pieces[j].end
            BY <1>4, <2>6
        <3>2. pieces[j].start \in Nat /\ pieces[j].end \in Nat /\ t \in Nat
            BY <1>2, <1>4, <2>6
        <3>3. pieces[i].end <= t /\ t < pieces[i + 1].start
            BY <2>2
        <3>4. j # i /\ j # i + 1
            BY <2>2, <3>1, <3>2, <3>3
        <3>5. CASE j < i
            <4>1. pieces[j].end < pieces[i].start
                BY <1>3, <2>1, <3>5
            <4> QED BY <2>2, <3>1, <3>2, <3>3, <4>1
        <3>6. CASE i + 1 < j
            <4>1. pieces[i + 1].end < pieces[j].start
                BY <1>3, <2>1, <3>6
            <4> QED BY <2>2, <3>1, <3>2, <3>3, <4>1
        <3> QED BY <1>1, <3>4, <3>5, <3>6
    <2> QED BY <2>3, <2>4, <2>5, <2>6 DEF Silence
<1>6. ASSUME NEW g \in Piece, Silence(g, spoken)
      PROVE  \E i \in 1..(n - 1) :
                g = [start |-> pieces[i].end, end |-> pieces[i + 1].start]
    <2>1. g.start \in Nat /\ g.end \in Nat /\ g.start < g.end
        BY <1>6, MetricsAssumption DEF Piece, Silence, Span
    <2>2. PICK i \in 1..n : pieces[i].start <= g.start - 1 /\ g.start - 1 < pieces[i].end
        BY <1>4, <1>6 DEF Silence
    <2>3. PICK j \in 1..n : pieces[j].start <= g.end /\ g.end < pieces[j].end
        BY <1>4, <1>6 DEF Silence
    <2>4. /\ pieces[i].start \in Nat /\ pieces[i].end \in Nat
          /\ pieces[j].start \in Nat /\ pieces[j].end \in Nat
        BY <1>2
    <2>5. \A t \in Nat : g.start <= t /\ t < g.end =>
            ~(pieces[i].start <= t /\ t < pieces[i].end)
                /\ ~(pieces[j].start <= t /\ t < pieces[j].end)
        <3>1. \A t \in Nat : g.start <= t /\ t < g.end => t \notin spoken
            BY <1>6, <2>1 DEF Silence
        <3> QED BY <1>4, <3>1
    <2>6. g.start = pieces[i].end
        <3>1. ~(pieces[i].start <= g.start /\ g.start < pieces[i].end)
            BY <2>1, <2>5
        <3> QED BY <2>1, <2>2, <2>4, <3>1
    <2>7. g.end = pieces[j].start
        <3>1. ~(pieces[j].start <= g.end - 1 /\ g.end - 1 < pieces[j].end)
            <4>1. g.end - 1 \in Nat /\ g.start <= g.end - 1 /\ g.end - 1 < g.end
                BY <2>1
            <4> QED BY <2>5, <4>1
        <3> QED BY <2>1, <2>3, <2>4, <3>1
    <2>8. i < j
        <3>1. i # j
            BY <1>3, <2>1, <2>4, <2>6, <2>7
        <3>2. CASE j < i
            <4>1. pieces[j].end < pieces[i].start
                BY <1>3, <3>2
            <4>2. pieces[i].start < pieces[i].end
                BY <1>3
            <4> QED BY <2>1, <2>3, <2>4, <2>6, <4>1, <4>2
        <3> QED BY <1>1, <3>1, <3>2
    <2>9. j = i + 1
        <3> SUFFICES ASSUME i + 1 < j PROVE FALSE
            BY <1>1, <2>8
        <3>1. i + 1 \in 1..n /\ i < i + 1
            BY <1>1
        <3>2. /\ pieces[i].end < pieces[i + 1].start
              /\ pieces[i + 1].start < pieces[i + 1].end
              /\ pieces[i + 1].end < pieces[j].start
            BY <1>3, <3>1
        <3>3. pieces[i + 1].start \in Nat /\ pieces[i + 1].end \in Nat
            BY <1>2, <3>1
        <3>4. pieces[i + 1].start \in spoken
            BY <1>4, <3>1, <3>2, <3>3
        <3>5. pieces[i + 1].start \in g.start..(g.end - 1)
            BY <2>1, <2>4, <2>6, <2>7, <3>2, <3>3
        <3> QED BY <1>6, <3>4, <3>5 DEF Silence
    <2>10. g = [start |-> g.start, end |-> g.end]
        BY DEF Piece
    <2>11. i \in 1..(n - 1)
        BY <1>1, <2>9
    <2> QED BY <2>6, <2>7, <2>9, <2>10, <2>11
<1>7. \A g \in GapsOf(pieces) : g \in Piece /\ Silence(g, spoken)
    BY <1>5 DEF GapsOf, n
<1>8. \A g \in Piece : Silence(g, spoken) => g \in GapsOf(pieces)
    BY <1>6 DEF GapsOf, n, Silence
<1> QED BY <1>7, <1>8 DEF spoken

\* The stored dead air is the silence.
LEMMA DeadAirIsSilence ==
    ASSUME NEW us \in Seq(Voiced), NEW duration, NEW map
    PROVE  Analyze(us, duration, map).gaps =
             {g \in Piece : Silence(g, Moments(ToSet(us)))}
<1>1. <<>> \in Seq(Piece) /\ Apart(<<>>) /\ ToSet(<<>>) = {}
    BY DEF Apart, ToSet
<1>2. GapsOf(<<>>) = {g \in Piece : Silence(g, Moments({}))}
    BY <1>1, SilenceBetweenPieces
<1>3. CASE us = <<>>
    <2>1. Analyze(us, duration, map).gaps = {}
        BY <1>3 DEF Analyze
    <2>2. GapsOf(<<>>) = {}
        <3>1. \A i \in 1..(Len(<<>>) - 1) : FALSE
            OBVIOUS
        <3> QED BY <3>1 DEF GapsOf
    <2>3. ToSet(us) = {}
        BY <1>3 DEF ToSet
    <2> QED BY <1>2, <2>1, <2>2, <2>3
<1>4. CASE us # <<>>
    <2> DEFINE all == Spoken(us)
    <2>1. all \in Seq(Voiced) /\ ToSet(all) = ToSet(us)
        BY SpokenElements, VoicedFacts
    <2>2. Analyze(us, duration, map).gaps = GapsOf(UnionIntervals(all))
        BY <1>4 DEF Analyze, DeadAir, GapsOf
    <2> HIDE DEF all
    <2>3. all # <<>>
        <3>1. Len(us) \in Nat \ {0}
            BY <1>4, EmptySeq
        <3>2. us[1] \in ToSet(us)
            BY <3>1 DEF ToSet
        <3> QED BY <1>1, <2>1, <3>2
    <2>4. MergedSoFar(UnionIntervals(all), ToSet(all))
        BY <2>1, <2>3, UnionMerges, VoicedFacts
    <2> QED BY <2>1, <2>2, <2>4, SilenceBetweenPieces DEF MergedSoFar
<1> QED BY <1>3, <1>4

\* Two utterances of different speakers of which the second cuts in.
Crossing(S) == {p \in S \X S : Interrupts(p[1], p[2])}

Overlaps(S) ==
    {[by |-> p[2].label, start |-> p[2].start, overlap |-> Shared(p[1], p[2])] :
        p \in Crossing(S)}

\* The inner loop meets every utterance that starts within the outer one.
LEMMA InterruptionsFound ==
    ASSUME NEW us \in Seq(Voiced), NEW duration, NEW map
    PROVE  {[by |-> x.by, start |-> x.start, overlap |-> x.overlap] :
                x \in Analyze(us, duration, map).interruptions} = Overlaps(ToSet(us))
<1> DEFINE sorted == Sorted(us, Earlier)
           pairs == {p \in (DOMAIN sorted) \X (DOMAIN sorted) :
                        /\ p[2] \in Visited(sorted, p[1])
                        /\ Interrupts(sorted[p[1]], sorted[p[2]])}
           found == Analyze(us, duration, map).interruptions
           Plain(x) == [by |-> x.by, start |-> x.start, overlap |-> x.overlap]
           Of(u, v) == [by |-> v.label, start |-> v.start, overlap |-> Shared(u, v)]
<1>1. CASE us = <<>>
    <2>1. found = {}
        BY <1>1 DEF Analyze
    <2>2. ToSet(us) = {}
        BY <1>1 DEF ToSet
    <2>3. Overlaps({}) = {}
        BY DEF Overlaps, Crossing
    <2> QED BY <2>1, <2>2, <2>3
<1>2. CASE us # <<>>
    <2>1. found = Interruptions(us)
        BY <1>2 DEF Analyze
    <2>2. found = {[pair |-> p, by |-> sorted[p[2]].label,
                    start |-> sorted[p[2]].start,
                    overlap |-> Shared(sorted[p[1]], sorted[p[2]])] : p \in pairs}
        BY <2>1 DEF Interruptions
    <2>3. sorted \in Seq(Voiced) /\ ToSet(sorted) = ToSet(us)
        BY SortedByStart, VoicedFacts
    <2>4. \A k, l \in DOMAIN sorted : k < l => sorted[k].start <= sorted[l].start
        BY SortedByStart, VoicedFacts
    <2> HIDE DEF sorted, found
    <2> DEFINE n == Len(sorted)
    <2>5. /\ n \in Nat /\ DOMAIN sorted = 1..n /\ \A i \in 1..n : sorted[i] \in Voiced
          /\ ToSet(us) = {sorted[i] : i \in 1..n}
        BY <2>3, LenProperties DEF ToSet
    <2>6. \A i \in 1..n : sorted[i].start \in Nat /\ sorted[i].end \in Nat
        BY <2>5 DEF Voiced
    <2>7. ASSUME NEW p \in pairs
          PROVE  Of(sorted[p[1]], sorted[p[2]]) \in Overlaps(ToSet(us))
        <3> DEFINE q == <<sorted[p[1]], sorted[p[2]]>>
        <3>1. q \in Crossing(ToSet(us))
            BY <2>5 DEF Crossing
        <3>2. q[1] = sorted[p[1]] /\ q[2] = sorted[p[2]]
            OBVIOUS
        <3> HIDE DEF q
        <3> QED BY <3>1, <3>2 DEF Overlaps
    <2>8. ASSUME NEW q \in Crossing(ToSet(us))
          PROVE  \E p \in pairs : q[1] = sorted[p[1]] /\ q[2] = sorted[p[2]]
        <3>1. PICK i \in 1..n, j \in 1..n : q[1] = sorted[i] /\ q[2] = sorted[j]
            BY <2>5 DEF Crossing
        <3>2. Interrupts(sorted[i], sorted[j])
            BY <3>1 DEF Crossing
        <3>3. /\ sorted[i].start \in Nat /\ sorted[i].end \in Nat
              /\ sorted[j].start \in Nat /\ sorted[j].end \in Nat
            BY <2>6
        <3>4. sorted[i].start < sorted[j].start /\ sorted[j].start < sorted[i].end
            BY <3>2, <3>3, MetricsAssumption DEF Interrupts, Shared, Smaller
        <3>5. i < j
            <4>1. ~(j < i)
                BY <2>4, <2>5, <3>3, <3>4
            <4>2. i # j
                BY <3>3, <3>4
            <4> QED BY <2>5, <4>1, <4>2
        <3>6. ASSUME NEW k \in (i + 1)..j PROVE sorted[k].start < sorted[i].end
            <4>1. k \in 1..n /\ (k = j \/ k < j)
                BY <2>5
            <4>2. sorted[k].start \in Nat
                BY <2>6, <4>1
            <4>3. sorted[k].start <= sorted[j].start
                BY <2>4, <2>5, <3>3, <4>1
            <4> QED BY <3>3, <3>4, <4>2, <4>3
        <3>7. j \in (i + 1)..n
            BY <2>5, <3>5
        <3>8. j \in Visited(sorted, i)
            BY <3>6, <3>7 DEF Visited
        <3> DEFINE p == <<i, j>>
        <3>9. p \in pairs /\ p[1] = i /\ p[2] = j
            BY <2>5, <3>2, <3>8
        <3> HIDE DEF p, pairs
        <3> QED BY <3>1, <3>9
    <2> DEFINE Seen(p) == [pair |-> p, by |-> sorted[p[2]].label,
                           start |-> sorted[p[2]].start,
                           overlap |-> Shared(sorted[p[1]], sorted[p[2]])]
    <2>9. found = {Seen(p) : p \in pairs}
        BY <2>2
    <2>10. \A p : Plain(Seen(p)) = Of(sorted[p[1]], sorted[p[2]])
        OBVIOUS
    <2> HIDE DEF pairs, Seen, Plain, Of
    <2>11. ASSUME NEW x \in found PROVE Plain(x) \in Overlaps(ToSet(us))
        BY <2>7, <2>9, <2>10
    <2>12. ASSUME NEW r \in Overlaps(ToSet(us)) PROVE \E x \in found : r = Plain(x)
        <3>1. PICK q \in Crossing(ToSet(us)) : r = Of(q[1], q[2])
            BY DEF Overlaps, Of
        <3> QED BY <2>8, <2>9, <2>10, <3>1
    <2>13. {Plain(x) : x \in found} = Overlaps(ToSet(us))
        BY <2>11, <2>12
    <2> QED BY <2>13 DEF Plain, found
<1> QED BY <1>1, <1>2

---------------------------------------------------------------------------
(* Diarization *)

Label == ToSet(LabelOrder)

Utterance == [start : Int, end : Int, label : Label \cup {""}]

\* Utterances somebody, or nobody, has been found to speak.
Attributed == [start : Int, end : Int, label : Label]

\* There are five labels, each with a rank of its own.
LEMMA LabelFacts ==
    /\ Label = {"SPEAKER_00", "SPEAKER_01", Channel0, Channel1, Unattributed}
    /\ IsFiniteSet(Label)
    /\ \A label \in Label : Rank(label) \in Int
    /\ \A l, m \in Label : Rank(l) = Rank(m) => l = m
<1>1. /\ DOMAIN LabelOrder = 1..5
      /\ Label = {"SPEAKER_00", "SPEAKER_01", Channel0, Channel1, Unattributed}
    <2>1. DOMAIN LabelOrder = 1..5
        BY DEF LabelOrder
    <2>2. Label = {LabelOrder[1], LabelOrder[2], LabelOrder[3], LabelOrder[4],
                   LabelOrder[5]}
        BY <2>1 DEF Label, ToSet
    <2> QED BY <2>1, <2>2 DEF LabelOrder
<1>2. IsFiniteSet(Label)
    <2>1. IsFiniteSet({"SPEAKER_00"})
        BY FS_Singleton
    <2>2. IsFiniteSet({"SPEAKER_00"} \cup {"SPEAKER_01"})
        BY <2>1, FS_AddElement
    <2>3. IsFiniteSet(({"SPEAKER_00"} \cup {"SPEAKER_01"}) \cup {Channel0})
        BY <2>2, FS_AddElement
    <2>4. IsFiniteSet((({"SPEAKER_00"} \cup {"SPEAKER_01"}) \cup {Channel0})
                        \cup {Channel1})
        BY <2>3, FS_AddElement
    <2>5. IsFiniteSet(((({"SPEAKER_00"} \cup {"SPEAKER_01"}) \cup {Channel0})
                        \cup {Channel1}) \cup {Unattributed})
        BY <2>4, FS_AddElement
    <2>6. Label = ((({"SPEAKER_00"} \cup {"SPEAKER_01"}) \cup {Channel0})
                        \cup {Channel1}) \cup {Unattributed}
        BY <1>1
    <2> QED BY <2>5, <2>6
<1>3. \A label \in Label : \E i \in 1..5 : LabelOrder[i] = label
    BY <1>1 DEF Label, ToSet
<1>4. \A label \in Label : Rank(label) \in 1..5 /\ LabelOrder[Rank(label)] = label
    BY <1>1, <1>3 DEF Rank
<1> QED BY <1>1, <1>2, <1>4

\* Labelling changes the labels only.
LEMMA LabellingAttributes ==
    ASSUME NEW us \in Seq(Utterance), NEW labels \in [DOMAIN us -> Label]
    PROVE  [i \in DOMAIN us |-> [us[i] EXCEPT !.label = labels[i]]] \in Seq(Attributed)
<1>1. \A i \in DOMAIN us : us[i] \in Utterance /\ labels[i] \in Label
    BY LenProperties
<1>2. \A i \in DOMAIN us : [us[i] EXCEPT !.label = labels[i]] \in Attributed
    <2> SUFFICES ASSUME NEW i \in DOMAIN us
                 PROVE  [us[i] EXCEPT !.label = labels[i]] \in Attributed
        OBVIOUS
    <2> DEFINE u == us[i]
               l == labels[i]
    <2>1. u \in Utterance /\ l \in Label
        BY <1>1
    <2> HIDE DEF u, l
    <2>2. [u EXCEPT !.label = l] \in Attributed
        BY <2>1 DEF Utterance, Attributed
    <2> QED BY <2>2 DEF u, l
<1>3. DOMAIN us = 1..Len(us) /\ Len(us) \in Nat
    BY LenProperties
<1> QED BY <1>2, <1>3

\* The turn that is chosen is one of the turns.
LEMMA BestTurnIsLabel ==
    ASSUME NEW n \in Nat, NEW turns \in [1..n -> Turn], NEW u \in Utterance
    PROVE  BestTurn(turns, u) \in Label
<1> DEFINE over == {i \in DOMAIN turns : Overlap(turns[i], u) > 0}
           best == {i \in over : \A j \in over :
                        Overlap(turns[j], u) <= Overlap(turns[i], u)}
           order == {p \in over \X over :
                        \/ Overlap(turns[p[1]], u) < Overlap(turns[p[2]], u)
                        \/ /\ Overlap(turns[p[1]], u) = Overlap(turns[p[2]], u)
                           /\ p[1] < p[2]}
<1>1. \A i \in 1..n : turns[i].start \in Int /\ turns[i].end \in Int
                        /\ turns[i].label \in Label
    <2>1. \A i \in 1..n : turns[i] \in [start : Int, end : Int, label : Label]
        BY InputAssumption DEF Label
    <2> QED BY <2>1
<1>2. \A i \in over : Overlap(turns[i], u) \in Int
    <2>1. u.start \in Int /\ u.end \in Int
        BY DEF Utterance
    <2> QED BY <1>1, <2>1 DEF Overlap, Smaller, Larger
<1>3. over \in SUBSET (1..n) /\ over \in SUBSET Int /\ IsFiniteSet(over)
    <2>1. over \in SUBSET (1..n) /\ IsFiniteSet(1..n)
        BY FS_Interval
    <2> QED BY <2>1, FS_Subset
<1>4. CASE over = {}
    BY <1>4, LabelFacts DEF BestTurn
<1>5. CASE over # {}
    <2> DEFINE v == [i \in over |-> Overlap(turns[i], u)]
    <2>1. order = {p \in over \X over :
                        v[p[1]] < v[p[2]] \/ (v[p[1]] = v[p[2]] /\ p[1] < p[2])}
        OBVIOUS
    <2>2. best = {i \in over : \A j \in over : v[j] <= v[i]}
        OBVIOUS
    <2>3. \A i \in over : v[i] \in Int
        BY <1>2
    <2> HIDE DEF over, v, order, best
    <2>4. Adding!StrictOrder(over, order)
        <3>1. \A i, j \in over : <<i, j>> \in order <=>
                    v[i] < v[j] \/ (v[i] = v[j] /\ i < j)
            BY <2>1
        <3>2. \A i \in over : i \in Int
            BY <1>3
        <3>3. ASSUME NEW i \in over, NEW j \in over, i # j
              PROVE  <<i, j>> \in order \/ <<j, i>> \in order
            <4>1. i \in Int /\ j \in Int /\ v[i] \in Int /\ v[j] \in Int
                BY <2>3, <3>2
            <4> QED BY <3>1, <3>3, <4>1
        <3>4. ASSUME NEW i \in over, NEW j \in over, <<i, j>> \in order
              PROVE  <<j, i>> \notin order
            BY <2>3, <3>1, <3>2, <3>4
        <3>5. ASSUME NEW i \in over, NEW j \in over, NEW k \in over,
                     <<i, j>> \in order, <<j, k>> \in order
              PROVE  <<i, k>> \in order
            BY <2>3, <3>1, <3>2, <3>5
        <3> QED BY <3>3, <3>4, <3>5 DEF Adding!StrictOrder
    <2>5. PICK top \in over : \A i \in over : i # top => <<i, top>> \in order
        BY <1>3, <1>5, <2>4, Adding!HasLast, SameThere
    <2>6. top \in best
        <3>1. ASSUME NEW i \in over PROVE v[i] <= v[top]
            <4>1. CASE i = top
                BY <2>3, <4>1
            <4>2. CASE i # top
                <5>1. v[i] < v[top] \/ v[i] = v[top]
                    BY <2>1, <2>5, <4>2
                <5> QED BY <2>3, <5>1
            <4> QED BY <4>1, <4>2
        <3> QED BY <2>2, <3>1
    <2>7. Min(best) \in best
        <3>1. best \in SUBSET Int /\ IsFiniteSet(best) /\ best # {}
            BY <1>3, <2>2, <2>6, FS_Subset
        <3> QED BY <3>1, Adding!Extremes, SameThere
    <2>8. Min(best) \in 1..n
        BY <1>3, <2>2, <2>7
    <2>9. BestTurn(turns, u) = turns[Min(best)].label
        BY <1>5 DEF BestTurn, over, best
    <2> QED BY <1>1, <2>8, <2>9
<1> QED BY <1>4, <1>5

\* Whatever the diarizer makes of the audio, it gives every utterance a label,
\* and what it does not call diarized has fewer than two voices.
LEMMA DiarizationAttributes ==
    ASSUME NEW us \in Seq(Utterance), NEW result \in Stereo(us) \cup Pyannote(us)
    PROVE  /\ result.utts \in Seq(Attributed)
           /\ result.diarized \in BOOLEAN
           /\ result.diarized \/ ~Separated(result.utts)
<1>1. /\ NoLabels(us) \in Seq(Attributed)
      /\ ~Separated(NoLabels(us))
    <2> DEFINE labels == [i \in DOMAIN us |-> Unattributed]
    <2>1. NoLabels(us) = [i \in DOMAIN us |-> [us[i] EXCEPT !.label = labels[i]]]
        BY DEF NoLabels, Labelled
    <2>2. labels \in [DOMAIN us -> Label]
        BY LabelFacts
    <2>3. NoLabels(us) \in Seq(Attributed)
        <3> HIDE DEF labels
        <3> QED BY <2>1, <2>2, LabellingAttributes
    <2>4. Labels(NoLabels(us)) \ {Unattributed} = {}
        <3>1. \A i \in DOMAIN us : us[i] \in Utterance
            BY LenProperties
        <3>2. ASSUME NEW i \in DOMAIN us
              PROVE  [us[i] EXCEPT !.label = labels[i]].label = Unattributed
            BY <3>1 DEF Utterance
        <3>3. DOMAIN NoLabels(us) = DOMAIN us
            BY <2>1
        <3> QED BY <2>1, <3>2, <3>3 DEF Labels
    <2>5. Cardinality(Labels(NoLabels(us)) \ {Unattributed}) = 0
        BY <2>4, FS_EmptySet
    <2>6. ~Separated(NoLabels(us))
        BY <2>5 DEF Separated
    <2> QED BY <2>3, <2>6
<1>2. ASSUME NEW labels \in [DOMAIN us -> Label], NEW provider,
             result = Attempted([i \in DOMAIN us |->
                                    [us[i] EXCEPT !.label = labels[i]]], provider)
      PROVE  /\ result.utts \in Seq(Attributed)
             /\ result.diarized \in BOOLEAN
             /\ result.diarized \/ ~Separated(result.utts)
    <2> DEFINE labelled == [i \in DOMAIN us |-> [us[i] EXCEPT !.label = labels[i]]]
    <2>1. labelled \in Seq(Attributed)
        BY LabellingAttributes
    <2>2. Separated(labelled) \in BOOLEAN
        BY DEF Separated
    <2> HIDE DEF labelled
    <2>3. result.utts = labelled /\ result.diarized = Separated(labelled)
        BY <1>2 DEF labelled, Attempted
    <2> QED BY <2>1, <2>2, <2>3
<1>3. CASE result = NotDiarized(us)
    <2>1. result.utts = NoLabels(us) /\ result.diarized = FALSE
        BY <1>3 DEF NotDiarized
    <2> QED BY <1>1, <2>1
<1>4. ASSUME NEW sound \in [1..Duration -> Loudness]
      PROVE  \E labels \in [DOMAIN us -> Label] :
                ByChannel(us, sound) =
                    [i \in DOMAIN us |-> [us[i] EXCEPT !.label = labels[i]]]
    <2> DEFINE labels == [i \in DOMAIN us |-> DominantLabel(sound, us[i])]
    <2>1. labels \in [DOMAIN us -> Label]
        BY LabelFacts DEF DominantLabel
    <2>2. ByChannel(us, sound) = [i \in DOMAIN us |-> [us[i] EXCEPT !.label = labels[i]]]
        BY DEF ByChannel, Labelled
    <2> HIDE DEF labels
    <2> QED BY <2>1, <2>2
<1>5. ASSUME NEW n \in Nat, NEW turns \in [1..n -> Turn]
      PROVE  \E labels \in [DOMAIN us -> Label] :
                ByTurn(us, turns) =
                    [i \in DOMAIN us |-> [us[i] EXCEPT !.label = labels[i]]]
    <2> DEFINE labels == [i \in DOMAIN us |-> BestTurn(turns, us[i])]
    <2>1. labels \in [DOMAIN us -> Label]
        <3>1. \A i \in DOMAIN us : us[i] \in Utterance
            BY LenProperties
        <3> QED BY <3>1, BestTurnIsLabel
    <2>2. ByTurn(us, turns) = [i \in DOMAIN us |-> [us[i] EXCEPT !.label = labels[i]]]
        BY DEF ByTurn, Labelled
    <2> HIDE DEF labels
    <2> QED BY <2>1, <2>2
<1>6. CASE result \in Stereo(us) \ {NotDiarized(us)}
    <2>1. PICK sound \in [1..Duration -> Loudness] :
                result = Attempted(ByChannel(us, sound), "stereo-channel")
        BY <1>6 DEF Stereo
    <2>2. PICK labels \in [DOMAIN us -> Label] :
                ByChannel(us, sound) =
                    [i \in DOMAIN us |-> [us[i] EXCEPT !.label = labels[i]]]
        BY <1>4
    <2> QED BY <1>2, <2>1, <2>2
<1>7. CASE result \in Pyannote(us) \ {NotDiarized(us)}
    <2>1. PICK n \in 0..MaxTurns : \E turns \in [1..n -> Turn] :
                result = Attempted(ByTurn(us, turns), "pyannote")
        BY <1>7 DEF Pyannote
    <2>2. PICK turns \in [1..n -> Turn] :
                result = Attempted(ByTurn(us, turns), "pyannote")
        BY <2>1
    <2>3. n \in Nat
        BY DurationAssumption
    <2>4. PICK labels \in [DOMAIN us -> Label] :
                ByTurn(us, turns) =
                    [i \in DOMAIN us |-> [us[i] EXCEPT !.label = labels[i]]]
        BY <1>5, <2>3
    <2> QED BY <1>2, <2>2, <2>4
<1> QED BY <1>3, <1>6, <1>7

---------------------------------------------------------------------------
(* Roles *)

\* Added spans are a number.
LEMMA AddedIsNumber ==
    ASSUME NEW us \in Seq(Voiced)
    PROVE  AddedFrom(0, us) \in Int
<1> DEFINE n == Len(us)
<1>1. n \in Nat /\ DOMAIN us = 1..n
    BY LenProperties
<1>2. \A i \in 1..n : Span(us[i]) \in Int
    <2> SUFFICES ASSUME NEW i \in 1..n PROVE Span(us[i]) \in Int
        OBVIOUS
    <2>1. us[i] \in Voiced
        BY <1>1
    <2> QED BY <2>1 DEF Voiced, Span
<1> HIDE DEF n
<1>3. PICK run : AddsThrough(run, 0, us, n) /\ AddedFrom(0, us) = run[n]
    BY <1>1, AddRuns
<1> DEFINE Right == {k \in Nat : k <= n => run[k] \in Int}
<1>4. 0 \in Right
    BY <1>3 DEF AddsThrough
<1>5. ASSUME NEW k \in Nat, k \in Right PROVE k + 1 \in Right
    <2> SUFFICES ASSUME k + 1 <= n PROVE run[k + 1] \in Int
        OBVIOUS
    <2>1. k + 1 \in 1..n /\ (k + 1) - 1 = k /\ run[k] \in Int
        BY <1>1, <1>5
    <2>2. run[k + 1] = run[k] + Span(us[k + 1])
        BY <1>3, <2>1 DEF AddsThrough, AddSpan
    <2> QED BY <1>2, <2>1, <2>2
<1> HIDE DEF Right
<1>6. n \in Right
    BY <1>1, <1>4, <1>5, Adding!NumberInduction
<1> QED BY <1>1, <1>3, <1>6 DEF Right

\* The affinity of a label is a number.
LEMMA AffinityIsNumber ==
    ASSUME NEW us \in Seq(Voiced), NEW cues \in [Labels(us) -> Cues],
           NEW label \in Labels(us)
    PROVE  Affinity(us, label, cues[label]) \in Int
<1>1. Everything(us) \in Int
    BY AddedIsNumber DEF Everything, AddedFrom
<1>2. SpeechOf(us, label) \in Int
    <2> DEFINE kept == {i \in DOMAIN us : us[i].label = label}
               picked == Picked(us, Arranged(kept, Rising(kept)))
    <2>1. By(us, label) = picked
        BY DEF By, Filtered
    <2>2. picked \in Seq(Voiced)
        BY KeptElements
    <2> HIDE DEF picked
    <2>3. AddedFrom(0, By(us, label)) \in Int
        BY <2>1, <2>2, AddedIsNumber
    <2> QED BY <2>3 DEF SpeechOf, AddedFrom
<1>3. cues[label] + (IF SpeaksFirst(us, label) THEN 30 ELSE 0) \in Int
    BY DEF Cues
<1> QED BY <1>1, <1>2, <1>3 DEF Affinity

\* A mapping gives every label a role, and of several labels one is the agent's.
Fits(map, labels) ==
    /\ map \in [labels -> Role]
    /\ Cardinality(labels) > 1 =>
          \E agent \in labels :
              \A label \in labels :
                  map[label] = IF label = agent THEN "AGENT" ELSE "CUSTOMER"

\* The labels of a transcript.
LEMMA LabelsOfVoiced ==
    ASSUME NEW us \in Seq(Voiced)
    PROVE  Labels(us) \in SUBSET Label /\ IsFiniteSet(Labels(us))
<1>1. \A i \in DOMAIN us : us[i].label \in Label
    <2>1. \A i \in DOMAIN us : us[i] \in Voiced
        BY LenProperties
    <2> QED BY <2>1 DEF Voiced, Label
<1>2. Labels(us) \in SUBSET Label
    BY <1>1 DEF Labels
<1> QED BY <1>2, LabelFacts, FS_Subset

\* One label is the most like an agent's: affinities can be equal, ranks cannot.
LEMMA MappingFits ==
    ASSUME NEW us \in Seq(Voiced), NEW cues \in [Labels(us) -> Cues]
    PROVE  Fits(Mapping(us, cues), Labels(us))
<1> DEFINE labels == Labels(us)
           value == [label \in labels |-> Affinity(us, label, cues[label])]
           order == {p \in labels \X labels :
                        \/ value[p[1]] < value[p[2]]
                        \/ value[p[1]] = value[p[2]] /\ Rank(p[1]) < Rank(p[2])}
           map == Mapping(us, cues)
<1>1. labels \in SUBSET Label /\ IsFiniteSet(labels)
    BY LabelsOfVoiced
<1>2. \A label \in labels : value[label] \in Int
    BY AffinityIsNumber
<1>3. \A label \in labels : Rank(label) \in Int
    BY <1>1, LabelFacts
<1>4. \A l, m \in labels : Rank(l) = Rank(m) => l = m
    BY <1>1, LabelFacts
<1>5. \A label \in labels :
        MostAgentLike(us, label, cues) <=>
            \A other \in labels \ {label} : <<other, label>> \in order
    <2> SUFFICES ASSUME NEW label \in labels
                 PROVE  MostAgentLike(us, label, cues) <=>
                          \A other \in labels \ {label} : <<other, label>> \in order
        OBVIOUS
    <2>1. \A other \in labels : value[other] = Affinity(us, other, cues[other])
        OBVIOUS
    <2>2. \A other \in labels \ {label} :
            <<other, label>> \in order <=>
                \/ value[label] > value[other]
                \/ value[label] = value[other] /\ Rank(label) > Rank(other)
        <3> HIDE DEF value, labels
        <3> QED BY <1>2, <1>3
    <2>3. MostAgentLike(us, label, cues) <=>
            \A other \in labels \ {label} :
                \/ Affinity(us, label, cues[label]) > Affinity(us, other, cues[other])
                \/ /\ Affinity(us, label, cues[label]) = Affinity(us, other, cues[other])
                   /\ Rank(label) > Rank(other)
        BY DEF MostAgentLike
    <2> DEFINE Above(other) ==
            \/ value[label] > value[other]
            \/ value[label] = value[other] /\ Rank(label) > Rank(other)
    <2>4. MostAgentLike(us, label, cues) <=> \A other \in labels \ {label} : Above(other)
        <3> HIDE DEF value, labels
        <3> QED BY <2>1, <2>3
    <2> HIDE DEF order, value, labels
    <2> QED BY <2>2, <2>4
<1>6. \A label \in labels :
        map[label] = IF Cardinality(labels) = 1
                     THEN IF Affinity(us, label, cues[label]) >= 55 * Everything(us)
                          THEN "AGENT" ELSE "UNKNOWN"
                     ELSE IF MostAgentLike(us, label, cues) THEN "AGENT" ELSE "CUSTOMER"
    BY DEF Mapping
<1>7. map \in [labels -> Role]
    BY <1>6 DEF Mapping, Role
<1> HIDE DEF map, value, labels
<1>8. Adding!StrictOrder(labels, order)
    <2>1. \A l, m \in labels : <<l, m>> \in order <=>
                value[l] < value[m] \/ (value[l] = value[m] /\ Rank(l) < Rank(m))
        OBVIOUS
    <2> HIDE DEF order
    <2>2. ASSUME NEW l \in labels, NEW m \in labels, l # m
          PROVE  <<l, m>> \in order \/ <<m, l>> \in order
        <3>1. value[l] \in Int /\ value[m] \in Int
            BY <1>2
        <3>2. Rank(l) \in Int /\ Rank(m) \in Int /\ Rank(l) # Rank(m)
            BY <1>3, <1>4, <2>2
        <3> QED BY <2>1, <3>1, <3>2
    <2>3. ASSUME NEW l \in labels, NEW m \in labels, <<l, m>> \in order
          PROVE  <<m, l>> \notin order
        BY <1>2, <1>3, <2>1, <2>3
    <2>4. ASSUME NEW l \in labels, NEW m \in labels, NEW o \in labels,
                 <<l, m>> \in order, <<m, o>> \in order
          PROVE  <<l, o>> \in order
        BY <1>2, <1>3, <2>1, <2>4
    <2> QED BY <2>2, <2>3, <2>4 DEF Adding!StrictOrder
<1> HIDE DEF order
<1>9. ASSUME Cardinality(labels) > 1
      PROVE  \E agent \in labels : \A label \in labels :
                map[label] = IF label = agent THEN "AGENT" ELSE "CUSTOMER"
    <2>1. labels # {} /\ Cardinality(labels) # 1
        <3>1. Cardinality(labels) = 0 <=> labels = {}
            BY <1>1, FS_EmptySet
        <3> QED BY <1>9, <3>1
    <2>2. PICK agent \in labels : \A x \in labels : x # agent => <<x, agent>> \in order
        BY <1>1, <1>8, <2>1, Adding!HasLast, SameThere
    <2>3. MostAgentLike(us, agent, cues)
        BY <1>5, <2>2
    <2>4. ASSUME NEW label \in labels, label # agent
          PROVE  ~MostAgentLike(us, label, cues)
        <3>1. <<label, agent>> \in order
            BY <2>2, <2>4
        <3>2. <<agent, label>> \notin order
            BY <1>8, <3>1 DEF Adding!StrictOrder
        <3> QED BY <1>5, <2>4, <3>2
    <2> QED BY <1>6, <2>1, <2>3, <2>4
<1> QED BY <1>7, <1>9 DEF Fits, map, labels

---------------------------------------------------------------------------
(* Segments *)

SegmentWith(u, map) == [label |-> u.label, role |-> RoleOf(map, u.label),
                        start |-> u.start, end |-> u.end]

Told(S, map) == {SegmentWith(u, map) : u \in S}

Segment == {s \in [label : Label, role : Role, start : Nat, end : Nat] :
               s.start < s.end /\ s.end <= Duration + Tolerance}

\* By start, then end, then label, then position.
LEMMA EarlierUtteranceIsStrict ==
    ASSUME NEW us \in Seq(Voiced)
    PROVE  Adding!StrictOrder(DOMAIN us, StableOrder(us, EarlierUtterance))
<1> DEFINE order == StableOrder(us, EarlierUtterance)
           start == [i \in DOMAIN us |-> us[i].start]
           end == [i \in DOMAIN us |-> us[i].end]
           rank == [i \in DOMAIN us |-> Rank(us[i].label)]
           Before(i, j) == \/ start[i] < start[j]
                           \/ start[i] = start[j] /\ end[i] < end[j]
                           \/ start[i] = start[j] /\ end[i] = end[j] /\ rank[i] < rank[j]
           After(i, j) == \/ Before(i, j)
                          \/ /\ start[i] = start[j] /\ end[i] = end[j]
                             /\ rank[i] = rank[j] /\ i < j
<1>1. \A i \in DOMAIN us : i \in Int
    BY LenProperties
<1>2. \A i \in DOMAIN us : start[i] \in Int /\ end[i] \in Int
    BY LenProperties, VoicedFacts DEF Timed
<1>3. \A i \in DOMAIN us : rank[i] \in Int
    <2>1. \A i \in DOMAIN us : us[i] \in Voiced
        BY LenProperties
    <2> QED BY <2>1, LabelFacts DEF Voiced, Label
<1>4. ASSUME NEW i \in DOMAIN us, NEW j \in DOMAIN us
      PROVE  EarlierUtterance(us[i], us[j]) <=> Before(i, j)
    <2>1. /\ us[i].start = start[i] /\ us[i].end = end[i] /\ Rank(us[i].label) = rank[i]
          /\ us[j].start = start[j] /\ us[j].end = end[j] /\ Rank(us[j].label) = rank[j]
        OBVIOUS
    <2> HIDE DEF start, end, rank
    <2> QED BY <2>1 DEF EarlierUtterance, Earlier
<1> HIDE DEF start, end, rank
<1>5. ASSUME NEW i \in DOMAIN us, NEW j \in DOMAIN us
      PROVE  <<i, j>> \in order <=> After(i, j)
    <2>1. /\ start[i] \in Int /\ end[i] \in Int /\ rank[i] \in Int /\ i \in Int
          /\ start[j] \in Int /\ end[j] \in Int /\ rank[j] \in Int /\ j \in Int
        BY <1>1, <1>2, <1>3
    <2>2. <<i, j>> \in order <=> \/ EarlierUtterance(us[i], us[j])
                                 \/ i < j /\ ~EarlierUtterance(us[j], us[i])
        BY DEF StableOrder
    <2>3. <<i, j>> \in order <=> Before(i, j) \/ (i < j /\ ~Before(j, i))
        BY <1>4, <2>2
    <2> QED BY <2>1, <2>3
<1> HIDE DEF order
<1>6. ASSUME NEW i \in DOMAIN us, NEW j \in DOMAIN us, <<i, j>> \in order
      PROVE  <<j, i>> \notin order
    <2>1. /\ start[i] \in Int /\ end[i] \in Int /\ rank[i] \in Int /\ i \in Int
          /\ start[j] \in Int /\ end[j] \in Int /\ rank[j] \in Int /\ j \in Int
        BY <1>1, <1>2, <1>3
    <2>2. After(i, j) /\ (<<j, i>> \in order <=> After(j, i))
        BY <1>5, <1>6
    <2> QED BY <2>1, <2>2
<1>7. ASSUME NEW i \in DOMAIN us, NEW j \in DOMAIN us, i # j
      PROVE  <<i, j>> \in order \/ <<j, i>> \in order
    <2>1. /\ start[i] \in Int /\ end[i] \in Int /\ rank[i] \in Int /\ i \in Int
          /\ start[j] \in Int /\ end[j] \in Int /\ rank[j] \in Int /\ j \in Int
        BY <1>1, <1>2, <1>3
    <2>2. (<<i, j>> \in order <=> After(i, j)) /\ (<<j, i>> \in order <=> After(j, i))
        BY <1>5
    <2> QED BY <1>7, <2>1, <2>2
<1>8. ASSUME NEW i \in DOMAIN us, NEW j \in DOMAIN us, NEW k \in DOMAIN us,
             <<i, j>> \in order, <<j, k>> \in order
      PROVE  <<i, k>> \in order
    <2>1. /\ start[i] \in Int /\ end[i] \in Int /\ rank[i] \in Int /\ i \in Int
          /\ start[j] \in Int /\ end[j] \in Int /\ rank[j] \in Int /\ j \in Int
          /\ start[k] \in Int /\ end[k] \in Int /\ rank[k] \in Int /\ k \in Int
        BY <1>1, <1>2, <1>3
    <2>2. After(i, j) /\ After(j, k) /\ (<<i, k>> \in order <=> After(i, k))
        BY <1>5, <1>8
    <2> QED BY <2>1, <2>2
<1> QED BY <1>6, <1>7, <1>8 DEF order, Adding!StrictOrder

\* The sorted utterances are the utterances.
LEMMA SortedUtterances ==
    ASSUME NEW us \in Seq(Voiced)
    PROVE  LET sorted == Sorted(us, EarlierUtterance) IN
           /\ sorted \in Seq(Voiced)
           /\ Len(sorted) = Len(us)
           /\ ToSet(sorted) = ToSet(us)
<1> DEFINE order == StableOrder(us, EarlierUtterance)
           picked == Picked(us, Arranged(DOMAIN us, order))
<1>1. Sorted(us, EarlierUtterance) = picked
    BY DEF Sorted
<1>2. Adding!StrictOrder(DOMAIN us, order)
    BY EarlierUtteranceIsStrict
<1>3. Cardinality(DOMAIN us) = Len(us)
    <2>1. DOMAIN us = 1..Len(us) /\ Len(us) \in Nat
        BY LenProperties
    <2> QED BY <2>1, FS_Interval
<1>4. /\ picked \in Seq(Voiced)
      /\ Len(picked) = Cardinality(DOMAIN us)
      /\ ToSet(picked) = {us[i] : i \in DOMAIN us}
    BY <1>2, PickedElements
<1>5. ToSet(us) = {us[i] : i \in DOMAIN us}
    BY DEF ToSet
<1> HIDE DEF picked
<1> QED BY <1>1, <1>3, <1>4, <1>5

\* A segment has what is voiced, and a role.
LEMMA SegmentFacts ==
    ASSUME NEW map, NEW labels, map \in [labels -> Role], NEW u \in Voiced
    PROVE  SegmentWith(u, map) \in Segment
<1> DEFINE s == SegmentWith(u, map)
<1>1. u.label \in Label /\ u.start \in Nat /\ u.end \in Nat
      /\ u.start < u.end /\ u.end <= Duration + Tolerance
    BY DEF Voiced, Label
<1>2. RoleOf(map, u.label) \in Role
    BY DEF RoleOf, Role
<1>3. s.start = u.start /\ s.end = u.end
    BY DEF SegmentWith
<1>4. s \in [label : Label, role : Role, start : Nat, end : Nat]
    BY <1>1, <1>2 DEF SegmentWith
<1> HIDE DEF s
<1>5. s \in Segment
    BY <1>1, <1>3, <1>4 DEF Segment
<1> QED BY <1>5 DEF s

---------------------------------------------------------------------------
(* The invariant *)

\* The segments are what was said, with roles.
Recorded(us, map, segs) ==
    /\ segs \in Seq(Segment)
    /\ Len(segs) = Len(us)
    /\ ToSet(segs) = Told(ToSet(us), map)

Heard(segs, role) == \E s \in ToSet(segs) : s.role = role

\* What each stage of the job hands to the next: diarization labels, without
\* calling one speaker two; validation voiced utterances; the resolver a
\* fitting mapping; storing the metrics and the segments; and the integrity
\* check the speech of both parties.
TransInv ==
    /\ pc \in {"recognise", "diarize", "validate", "roles", "store", "stored",
               "held", "scored", "failed"}
    /\ utts \in Seq(Utterance)
    /\ outcome.diarized \in BOOLEAN
    /\ availability \in {"NOT_AVAILABLE", "PARTIAL", "AVAILABLE"}
    /\ pc \in {"validate", "roles", "store", "stored", "held", "scored"} =>
          /\ utts \in Seq(Attributed)
          /\ outcome.diarized \/ ~Separated(utts)
    /\ pc \in {"roles", "store", "stored", "held", "scored"} => utts \in Seq(Voiced)
    /\ pc \in {"store", "stored", "held", "scored"} => Fits(roles, Labels(utts))
    /\ pc \in {"stored", "held", "scored"} =>
          /\ behavior = Analyze(utts, Duration, roles)
          /\ Recorded(utts, roles, segments)
    /\ pc = "scored" => Heard(segments, "AGENT") /\ Heard(segments, "CUSTOMER")

---------------------------------------------------------------------------
(* Initially, and from step to step *)

LEMMA TransInit ==
    Init => TransInv
<1> SUFFICES ASSUME Init PROVE TransInv
    OBVIOUS
<1>1. utts \in Seq(Utterance)
    BY DEF Init
<1> QED BY <1>1 DEF Init, TransInv, Undiarized

\* What is recognised has no label yet.
LEMMA RecogniseKeeps ==
    TransInv /\ Recognise => TransInv'
<1> SUFFICES ASSUME TransInv, Recognise PROVE TransInv'
    OBVIOUS
<1>0. PICK n \in 0..MaxUtterances : \E ivs \in [1..n -> Interval] :
            utts' = [i \in 1..n |-> [start |-> ivs[i].start, end |-> ivs[i].end,
                                     label |-> ""]]
    BY DEF Recognise
<1>1. PICK ivs \in [1..n -> Interval] :
            utts' = [i \in 1..n |-> [start |-> ivs[i].start, end |-> ivs[i].end,
                                     label |-> ""]]
    BY <1>0
<1>2. n \in Nat
    BY DurationAssumption
<1>3. \A i \in 1..n : [start |-> ivs[i].start, end |-> ivs[i].end, label |-> ""]
                          \in Utterance
    BY InputAssumption DEF Utterance
<1>4. utts' \in Seq(Utterance)
    <2>1. utts' \in [1..n -> Utterance]
        <3> HIDE DEF Utterance
        <3> QED BY <1>1, <1>3
    <2> QED BY <1>2, <2>1
<1> QED BY <1>4 DEF TransInv, Recognise

\* Whichever diarizer is asked, labels are attributed.
LEMMA DiarizedKeeps ==
    ASSUME TransInv, pc = "diarize",
           NEW result \in Stereo(utts) \cup Pyannote(utts), Diarized(result)
    PROVE  TransInv'
<1>1. utts \in Seq(Utterance)
    BY DEF TransInv
<1>2. /\ result.utts \in Seq(Attributed)
      /\ result.diarized \in BOOLEAN
      /\ result.diarized \/ ~Separated(result.utts)
    BY <1>1, DiarizationAttributes
<1>3. Attributed \subseteq Utterance
    BY DEF Attributed, Utterance
<1>4. /\ utts' = result.utts
      /\ outcome'.diarized = result.diarized
      /\ pc' = "validate"
      /\ availability' = availability
    BY DEF Diarized
<1>5. utts' \in Seq(Utterance)
    BY <1>2, <1>3, <1>4
<1> QED BY <1>2, <1>4, <1>5 DEF TransInv

LEMMA DiarizersKeep ==
    TransInv /\ (DiarizeAlone \/ DiarizeComposite \/ DiarizerRaises) => TransInv'
<1>1. TransInv /\ DiarizeAlone => TransInv'
    BY DiarizedKeeps DEF DiarizeAlone
<1>2. TransInv /\ DiarizeComposite => TransInv'
    BY DiarizedKeeps DEF DiarizeComposite
<1>3. TransInv /\ DiarizerRaises => TransInv'
    BY DEF TransInv, DiarizerRaises
<1> QED BY <1>1, <1>2, <1>3

\* What is well formed is voiced.
LEMMA WellFormedIsVoiced ==
    ASSUME NEW us \in Seq(Attributed), \A i \in DOMAIN us : ~Malformed(us[i])
    PROVE  us \in Seq(Voiced)
<1>1. ASSUME NEW i \in DOMAIN us
      PROVE  us[i] \in Voiced
    <2>1. us[i] \in Attributed
        BY LenProperties
    <2>2. Duration + Tolerance \in Int
        BY DurationAssumption
    <2>3. 0 <= us[i].start /\ us[i].start < us[i].end
          /\ us[i].end <= Duration + Tolerance
        BY <2>1, <2>2 DEF Malformed, Attributed
    <2> QED BY <2>1, <2>3 DEF Attributed, Voiced, Label
<1> QED BY <1>1, LenProperties

LEMMA ValidateKeeps ==
    TransInv /\ Validate => TransInv'
<1> SUFFICES ASSUME TransInv, Validate PROVE TransInv'
    OBVIOUS
<1>1. utts \in Seq(Attributed)
    BY DEF TransInv, Validate
<1>2. CASE \E i \in DOMAIN utts : Malformed(utts[i])
    BY <1>2 DEF TransInv, Validate
<1>3. CASE \A i \in DOMAIN utts : ~Malformed(utts[i])
    <2>1. utts \in Seq(Voiced)
        BY <1>1, <1>3, WellFormedIsVoiced
    <2>2. pc' = "roles" /\ availability' \in {"PARTIAL", "AVAILABLE"}
        BY <1>3 DEF Validate
    <2> QED BY <2>1, <2>2 DEF TransInv, Validate
<1> QED BY <1>2, <1>3

LEMMA ResolveRolesKeeps ==
    TransInv /\ ResolveRoles => TransInv'
<1> SUFFICES ASSUME TransInv, ResolveRoles PROVE TransInv'
    OBVIOUS
<1>1. PICK cues \in [Labels(utts) -> Cues] : roles' = Mapping(utts, cues)
    BY DEF ResolveRoles
<1>2. utts \in Seq(Voiced)
    BY DEF TransInv, ResolveRoles
<1>3. Fits(roles', Labels(utts))
    BY <1>1, <1>2, MappingFits
<1> QED BY <1>2, <1>3 DEF TransInv, ResolveRoles

\* What is stored is what was said.
LEMMA SegmentsRecord ==
    ASSUME NEW us \in Seq(Voiced), NEW map, Fits(map, Labels(us)), NEW segs,
           segs = [i \in DOMAIN Sorted(us, EarlierUtterance) |->
                      SegmentWith(Sorted(us, EarlierUtterance)[i], map)]
    PROVE  Recorded(us, map, segs)
<1> DEFINE sorted == Sorted(us, EarlierUtterance)
<1>1. sorted \in Seq(Voiced) /\ Len(sorted) = Len(us) /\ ToSet(sorted) = ToSet(us)
    BY SortedUtterances
<1>2. segs = [i \in DOMAIN sorted |-> SegmentWith(sorted[i], map)]
    OBVIOUS
<1> HIDE DEF sorted
<1>3. \A i \in DOMAIN sorted : SegmentWith(sorted[i], map) \in Segment
    BY <1>1, LenProperties, SegmentFacts DEF Fits
<1>4. segs \in Seq(Segment) /\ Len(segs) = Len(sorted) /\ DOMAIN segs = DOMAIN sorted
    <2>1. DOMAIN sorted = 1..Len(sorted) /\ Len(sorted) \in Nat
        BY <1>1, LenProperties
    <2> QED BY <1>2, <1>3, <2>1
<1>5. ToSet(segs) = {SegmentWith(sorted[i], map) : i \in DOMAIN sorted}
    BY <1>2, <1>4 DEF ToSet
<1>6. ToSet(us) = {sorted[i] : i \in DOMAIN sorted}
    BY <1>1 DEF ToSet
<1>7. ToSet(segs) = Told(ToSet(us), map)
    BY <1>5, <1>6 DEF Told
<1> QED BY <1>1, <1>4, <1>7 DEF Recorded

LEMMA StoreKeeps ==
    TransInv /\ Store => TransInv'
<1> SUFFICES ASSUME TransInv, Store PROVE TransInv'
    OBVIOUS
<1>1. utts \in Seq(Voiced) /\ Fits(roles, Labels(utts))
    BY DEF TransInv, Store
<1>2. segments' = [i \in DOMAIN Sorted(utts, EarlierUtterance) |->
                      SegmentWith(Sorted(utts, EarlierUtterance)[i], roles)]
    BY DEF Store, SegmentOf, SegmentWith
<1>3. Recorded(utts, roles, segments')
    BY <1>1, <1>2, SegmentsRecord
<1> QED BY <1>1, <1>3 DEF TransInv, Store

\* A party that spoke for some time is heard.
LEMMA PartyHeard ==
    ASSUME NEW role, segments \in Seq(Segment), TotalDuration(Active(role)) # 0
    PROVE  Heard(segments, role)
<1> SUFFICES ASSUME ~Heard(segments, role) PROVE FALSE
    OBVIOUS
<1>1. Spanning(Segment)
    BY DEF Spanning, Segment
<1>2. /\ Spoken(segments) \in Seq(Segment)
      /\ ToSet(Spoken(segments)) \subseteq ToSet(segments)
    BY SpokenElements
<1> DEFINE spoken == Spoken(segments)
           kept == {i \in DOMAIN spoken : spoken[i].role = role}
           picked == Picked(spoken, Arranged(kept, Rising(kept)))
<1>3. Active(role) = picked
    BY DEF Active, Filtered
<1>4. kept = {}
    <2>1. \A i \in DOMAIN spoken : spoken[i] \in ToSet(segments)
        BY <1>2 DEF ToSet
    <2> QED BY <2>1 DEF Heard
<1> HIDE DEF spoken
<1>5. /\ picked \in Seq(Segment)
      /\ ToSet(picked) = {spoken[i] : i \in kept}
    BY <1>2, KeptElements DEF spoken
<1> HIDE DEF picked
<1>6. Moments(ToSet(picked)) = {}
    BY <1>4, <1>5 DEF Moments
<1>7. TotalDuration(picked) = Cardinality(Moments(ToSet(picked)))
    BY <1>1, <1>5, DurationCountsMoments
<1>8. TotalDuration(picked) = 0
    BY <1>6, <1>7, FS_EmptySet
<1> QED BY <1>3, <1>8

\* What each reason says.
LEMMA ReasonsSay ==
    /\ TotalDuration(Active("AGENT")) = 0 <=> "NO_AGENT_SPEECH_DETECTED" \in Reasons
    /\ TotalDuration(Active("CUSTOMER")) = 0 <=> "NO_CUSTOMER_SPEECH_DETECTED" \in Reasons
    /\ (\E i \in DOMAIN segments : segments[i].start < 0)
            <=> "NEGATIVE_START_TIME" \in Reasons
    /\ (\E i \in DOMAIN segments : segments[i].end <= segments[i].start)
            <=> "INVERTED_TIMESTAMPS" \in Reasons
BY DEF Reasons

LEMMA CheckIntegrityKeeps ==
    TransInv /\ CheckIntegrity => TransInv'
<1> SUFFICES ASSUME TransInv, CheckIntegrity PROVE TransInv'
    OBVIOUS
<1>1. segments \in Seq(Segment)
    BY DEF TransInv, CheckIntegrity, Recorded
<1>2. Reasons = {} => Heard(segments, "AGENT") /\ Heard(segments, "CUSTOMER")
    BY <1>1, PartyHeard, ReasonsSay
<1>3. /\ pc = "stored" /\ pc' \in {"scored", "held"}
      /\ pc' = "scored" => Reasons = {}
      /\ UNCHANGED <<utts, outcome, availability, roles, behavior, segments>>
    BY DEF CheckIntegrity
<1> QED BY <1>2, <1>3 DEF TransInv

---------------------------------------------------------------------------
(* Theorems *)

\* What each stage of the job hands to the next holds in every run of it.
THEOREM StagesHandOver ==
    Spec => []TransInv
<1>1. TransInv /\ [Next]_vars => TransInv'
    <2> SUFFICES ASSUME TransInv, [Next]_vars PROVE TransInv'
        OBVIOUS
    <2>1. CASE Next
        BY <2>1, RecogniseKeeps, DiarizersKeep, ValidateKeeps, ResolveRolesKeeps,
           StoreKeeps, CheckIntegrityKeeps DEF Next
    <2>2. CASE UNCHANGED vars
        BY <2>2 DEF vars, TransInv
    <2> QED BY <2>1, <2>2
<1> QED BY TransInit, <1>1, PTL DEF Spec

\* Two labels, and which they are when one is all that was told apart.
LEMMA LabelsApart ==
    ASSUME NEW us \in Seq(Voiced), NEW l \in Labels(us), NEW m \in Labels(us), l # m
    PROVE  /\ Cardinality(Labels(us)) > 1
           /\ ~Separated(us) => /\ Unattributed \in Labels(us)
                                /\ Cardinality(Labels(us)) = 2
<1> DEFINE labels == Labels(us)
           named == labels \ {Unattributed}
<1>1. IsFiniteSet(labels) /\ IsFiniteSet(named)
    BY LabelsOfVoiced, FS_Subset, FS_RemoveElement
<1> HIDE DEF labels
<1>2. Cardinality(labels) \in Nat /\ Cardinality(named) \in Nat
    BY <1>1, FS_CardinalityType
<1>3. Cardinality(labels) > 1
    <2>1. Cardinality({l} \cup {m}) = 2
        <3>1. IsFiniteSet({l}) /\ Cardinality({l}) = 1
            BY FS_Singleton
        <3>2. Cardinality({l} \cup {m}) = Cardinality({l}) + 1
            BY <3>1, FS_AddElement
        <3> QED BY <3>1, <3>2
    <2>2. {l} \cup {m} \subseteq labels
        BY DEF labels
    <2>3. Cardinality({l} \cup {m}) <= Cardinality(labels)
        BY <1>1, <2>2, FS_Subset
    <2> QED BY <1>2, <2>1, <2>3
<1>4. Cardinality(named) = IF Unattributed \in labels THEN Cardinality(labels) - 1
                           ELSE Cardinality(labels)
    BY <1>1, FS_RemoveElement
<1>5. ASSUME ~Separated(us)
      PROVE  Unattributed \in labels /\ Cardinality(labels) = 2
    <2>1. ~(Cardinality(named) >= 2)
        BY <1>5 DEF Separated, labels
    <2> HIDE DEF named
    <2> QED BY <1>2, <1>3, <1>4, <2>1
<1> QED BY <1>3, <1>5 DEF labels

\* The label of one who is heard in a role.
LEMMA HeardLabel ==
    ASSUME NEW us \in Seq(Voiced), NEW map, NEW segs, Fits(map, Labels(us)),
           Recorded(us, map, segs), NEW role, Heard(segs, role)
    PROVE  \E label \in Labels(us) : map[label] = role
<1>1. PICK u \in ToSet(us) : SegmentWith(u, map).role = role
    BY DEF Heard, Recorded, Told
<1>2. u.label \in Labels(us)
    BY <1>1 DEF ToSet, Labels
<1>3. DOMAIN map = Labels(us)
    BY DEF Fits
<1>4. RoleOf(map, u.label) = role
    BY <1>1 DEF SegmentWith
<1>5. map[u.label] = role
    BY <1>2, <1>3, <1>4 DEF RoleOf
<1> QED BY <1>2, <1>5

\* Types follow from what is handed over.
LEMMA TypesHandedOver ==
    TransInv => TypeOK
<1> SUFFICES ASSUME TransInv PROVE TypeOK
    OBVIOUS
<1>1. \A i \in DOMAIN utts : utts[i].label \in ToSet(LabelOrder) \cup {""}
    <2>1. \A i \in DOMAIN utts : utts[i] \in Utterance
        BY LenProperties DEF TransInv
    <2> QED BY <2>1 DEF Utterance, Label
<1>2. pc \in {"store", "stored", "held", "scored"} => roles \in [Labels(utts) -> Role]
    BY DEF TransInv, Fits
<1>3. HasTranscript => Len(segments) = Len(utts)
    BY DEF TransInv, HasTranscript, Recorded
<1> QED BY <1>1, <1>2, <1>3 DEF TransInv, TypeOK

LEMMA PartiesHandedOver ==
    TransInv => SinglePartyHeld
<1> SUFFICES ASSUME TransInv, pc = "scored"
             PROVE  /\ Cardinality(Labels(utts)) > 1
                    /\ ~outcome.diarized => /\ Unattributed \in Labels(utts)
                                            /\ Cardinality(Labels(utts)) = 2
    BY DEF SinglePartyHeld
<1>1. /\ utts \in Seq(Voiced) /\ Fits(roles, Labels(utts))
      /\ Recorded(utts, roles, segments)
      /\ Heard(segments, "AGENT") /\ Heard(segments, "CUSTOMER")
      /\ outcome.diarized \/ ~Separated(utts)
    BY DEF TransInv
<1>2. PICK agent \in Labels(utts) : roles[agent] = "AGENT"
    BY <1>1, HeardLabel
<1>3. PICK customer \in Labels(utts) : roles[customer] = "CUSTOMER"
    BY <1>1, HeardLabel
<1>4. agent # customer
    BY <1>2, <1>3
<1> QED BY <1>1, <1>4, LabelsApart

LEMMA TimestampsHandedOver ==
    TransInv => ValidatorsAgree
<1> SUFFICES ASSUME TransInv, HasTranscript PROVE ValidatorsAgree
    BY DEF ValidatorsAgree
<1>1. \A i \in DOMAIN segments : segments[i] \in Segment
    BY LenProperties DEF TransInv, HasTranscript, Recorded
<1>2. \A s \in Segment : s.start \in Nat /\ s.end \in Nat /\ s.start < s.end
                            /\ s.end <= Duration + Tolerance
    BY DEF Segment
<1>3. \A i \in DOMAIN segments : ~(segments[i].start < 0)
                                    /\ ~(segments[i].end <= segments[i].start)
    BY <1>1, <1>2
<1>4. Reasons \cap {"NEGATIVE_START_TIME", "INVERTED_TIMESTAMPS"} = {}
    BY <1>3, ReasonsSay
<1> QED BY <1>1, <1>2, <1>4 DEF ValidatorsAgree

\* A transcript that is scored has one agent and at least one customer, who
\* were told apart or of whom one is unattributed, every label has a role, and
\* no segment that was let through has impossible timestamps: for any number
\* of utterances, whatever recogniser, diarizers and phrases come up with.
THEOREM TranscriptsAreFit ==
    Spec => []TranscriptsFitForScoring
<1>1. TransInv => OneAgent
    BY DEF TransInv, OneAgent, HasTranscript, Fits
<1>2. TransInv => TranscriptsFitForScoring
    BY <1>1, TypesHandedOver, PartiesHandedOver, TimestampsHandedOver
       DEF TranscriptsFitForScoring
<1> QED BY <1>2, StagesHandOver, PTL

\* The windows in which segments are spoken are those of the utterances.
LEMMA InstantsAreMoments ==
    ASSUME NEW S, S \subseteq Voiced, NEW map
    PROVE  Instants(Told(S, map)) = Moments(S)
<1> DEFINE T == Told(S, map)
<1>1. Duration + Tolerance \in Nat
    BY DurationAssumption
<1>2. \A u \in S : /\ SegmentWith(u, map) \in T
                   /\ SegmentWith(u, map).start = u.start
                   /\ SegmentWith(u, map).end = u.end
    BY DEF Told, SegmentWith
<1>3. \A s \in T : \E u \in S : s.start = u.start /\ s.end = u.end
    BY DEF Told, SegmentWith
<1>4. \A u \in S : u.end \in Nat /\ u.end <= Duration + Tolerance
    BY DEF Voiced
<1> HIDE DEF T
<1>5. ASSUME NEW t, t \in Instants(T) PROVE t \in Moments(S)
    <2>1. t \in Nat /\ \E s \in T : s.start <= t /\ t < s.end
        BY <1>1, <1>5 DEF Instants
    <2> QED BY <1>3, <2>1 DEF Moments
<1>6. ASSUME NEW t, t \in Moments(S) PROVE t \in Instants(T)
    <2>1. t \in Nat
        BY <1>6 DEF Moments
    <2>2. PICK u \in S : u.start <= t /\ t < u.end
        BY <1>6 DEF Moments
    <2>3. t \in 0..(Duration + Tolerance)
        <3>1. u.end \in Nat /\ u.end <= Duration + Tolerance
            BY <1>4
        <3> QED BY <1>1, <2>1, <2>2, <3>1
    <2>4. \E s \in T : s.start <= t /\ t < s.end
        BY <1>2, <2>2
    <2> QED BY <2>3, <2>4 DEF Instants
<1> QED BY <1>5, <1>6 DEF T

\* Of a role are the segments of the utterances whose label has it.
LEMMA SaidByRole ==
    ASSUME NEW us, NEW role, ToSet(segments) = Told(ToSet(us), roles)
    PROVE  SaidBy(role) = Told({u \in ToSet(us) : RoleOf(roles, u.label) = role}, roles)
<1>1. \A u : SegmentWith(u, roles).role = RoleOf(roles, u.label)
    BY DEF SegmentWith
<1>2. \A s : s \in SaidBy(role) <=> s \in Told(ToSet(us), roles) /\ s.role = role
    BY DEF SaidBy
<1> QED BY <1>1, <1>2 DEF Told

LEMMA TalkTimesHold ==
    TransInv => TalkTimeCountsMoments
<1> SUFFICES ASSUME TransInv, HasTranscript PROVE TalkTimeCountsMoments
    BY DEF TalkTimeCountsMoments
<1>1. /\ utts \in Seq(Voiced)
      /\ behavior = Analyze(utts, Duration, roles)
      /\ ToSet(segments) = Told(ToSet(utts), roles)
    BY DEF TransInv, HasTranscript, Recorded
<1> DEFINE Of(role) == {u \in ToSet(utts) : RoleOf(roles, u.label) = role}
<1>2. ToSet(utts) \subseteq Voiced
    BY <1>1, LenProperties DEF ToSet
<1>3. /\ behavior.agent = Cardinality(Moments(Of("AGENT")))
      /\ behavior.customer = Cardinality(Moments(Of("CUSTOMER")))
      /\ behavior.total = Cardinality(Moments(ToSet(utts)))
    <2>1. /\ Analyze(utts, Duration, roles).agent = Cardinality(Moments(Of("AGENT")))
          /\ Analyze(utts, Duration, roles).customer = Cardinality(Moments(Of("CUSTOMER")))
          /\ Analyze(utts, Duration, roles).total = Cardinality(Moments(ToSet(utts)))
        BY <1>1, TalkTimes
    <2> HIDE DEF Of
    <2> QED BY <1>1, <2>1
<1>4. ASSUME NEW role
      PROVE  Instants(SaidBy(role)) = Moments(Of(role))
    <2>1. SaidBy(role) = Told(Of(role), roles)
        BY <1>1, SaidByRole
    <2>2. Of(role) \subseteq Voiced
        BY <1>2
    <2> HIDE DEF Of
    <2> QED BY <2>1, <2>2, InstantsAreMoments
<1>5. Instants(ToSet(segments)) = Moments(ToSet(utts))
    BY <1>1, <1>2, InstantsAreMoments
<1> HIDE DEF Of
<1> QED BY <1>3, <1>4, <1>5 DEF TalkTimeCountsMoments

LEMMA DeadAirHolds ==
    TransInv => DeadAirIsTheSilence
<1> SUFFICES ASSUME TransInv, HasTranscript PROVE DeadAirIsTheSilence
    BY DEF DeadAirIsTheSilence
<1>1. /\ utts \in Seq(Voiced)
      /\ behavior = Analyze(utts, Duration, roles)
      /\ ToSet(segments) = Told(ToSet(utts), roles)
    BY DEF TransInv, HasTranscript, Recorded
<1>2. ToSet(utts) \subseteq Voiced
    BY <1>1, LenProperties DEF ToSet
<1> DEFINE spoken == Instants(ToSet(segments))
           silences == {g \in [start : 1..(Duration + Tolerance), end : spoken] :
                          /\ Span(g) >= DeadAirThreshold
                          /\ g.start - 1 \in spoken
                          /\ \A t \in g.start..(g.end - 1) : t \notin spoken}
<1>3. spoken = Moments(ToSet(utts))
    BY <1>1, <1>2, InstantsAreMoments
<1>4. behavior.gaps = {g \in Piece : Silence(g, spoken)}
    BY <1>1, <1>3, DeadAirIsSilence
<1>5. \A t \in spoken : t \in Nat /\ t <= Duration + Tolerance
    <2>1. \A t \in 0..(Duration + Tolerance) : t \in Nat /\ t <= Duration + Tolerance
        BY DurationAssumption
    <2> QED BY <2>1 DEF Instants
<1>6. Duration + Tolerance \in Nat /\ DeadAirThreshold \in Nat \ {0}
    BY DurationAssumption, MetricsAssumption
<1> HIDE DEF spoken
<1>7. ASSUME NEW g \in Piece, Silence(g, spoken) PROVE g \in silences
    <2>1. g.start \in Nat /\ g.end \in Nat /\ g = [start |-> g.start, end |-> g.end]
        BY DEF Piece
    <2>2. /\ Span(g) >= DeadAirThreshold /\ g.start # 0 /\ g.start - 1 \in spoken
          /\ g.end \in spoken
          /\ \A t \in g.start..(g.end - 1) : t \notin spoken
        BY <1>7 DEF Silence
    <2>3. g.end - g.start >= DeadAirThreshold
        BY <2>2 DEF Span
    <2>4. g.end <= Duration + Tolerance
        BY <1>5, <1>6, <2>2
    <2>5. g.start \in 1..(Duration + Tolerance)
        BY <1>6, <2>1, <2>2, <2>3, <2>4
    <2>6. g \in [start : 1..(Duration + Tolerance), end : spoken]
        BY <2>1, <2>2, <2>5
    <2> QED BY <2>2, <2>6
<1>8. ASSUME NEW g \in silences PROVE g \in Piece /\ Silence(g, spoken)
    <2>1. g.start \in 1..(Duration + Tolerance) /\ g.end \in spoken
          /\ g = [start |-> g.start, end |-> g.end]
        OBVIOUS
    <2>2. g.start \in Nat /\ g.start # 0 /\ g.end \in Nat
        <3>1. \A t \in 1..(Duration + Tolerance) : t \in Nat /\ t # 0
            BY <1>6
        <3> QED BY <1>5, <2>1, <3>1
    <2>3. g \in Piece
        BY <2>1, <2>2 DEF Piece
    <2> QED BY <2>1, <2>2, <2>3 DEF Silence
<1> HIDE DEF silences
<1>9. behavior.gaps = silences
    <2>1. silences \subseteq {g \in Piece : Silence(g, spoken)}
        BY <1>8
    <2>2. {g \in Piece : Silence(g, spoken)} \subseteq silences
        BY <1>7
    <2> QED BY <1>4, <2>1, <2>2
<1> QED BY <1>9 DEF DeadAirIsTheSilence, silences, spoken

LEMMA InterruptionsHold ==
    TransInv => InterruptionsComplete
<1> SUFFICES ASSUME TransInv, HasTranscript PROVE InterruptionsComplete
    BY DEF InterruptionsComplete
<1>1. /\ utts \in Seq(Voiced)
      /\ behavior = Analyze(utts, Duration, roles)
      /\ ToSet(segments) = Told(ToSet(utts), roles)
    BY DEF TransInv, HasTranscript, Recorded
<1> DEFINE S == ToSet(utts)
           T == ToSet(segments)
           Pair(p) == [by |-> p[2].label, start |-> p[2].start,
                       overlap |-> Smaller(p[1].end, p[2].end) - p[2].start]
           Cross(u, v) == /\ u.label # v.label
                          /\ u.start < v.start
                          /\ Smaller(u.end, v.end) - v.start >= InterruptionMin
           of == {p \in T \X T : /\ p[1].label # p[2].label
                                 /\ p[1].start < p[2].start
                                 /\ Smaller(p[1].end, p[2].end) - p[2].start
                                      >= InterruptionMin}
<1>2. {[by |-> x.by, start |-> x.start, overlap |-> x.overlap] :
          x \in behavior.interruptions} = Overlaps(S)
    BY <1>1, InterruptionsFound
<1>3. S \subseteq Voiced
    BY <1>1, LenProperties DEF ToSet
<1>4. ASSUME NEW u \in S
      PROVE  \E s \in T : s.label = u.label /\ s.start = u.start /\ s.end = u.end
    <2>1. SegmentWith(u, roles) \in T
        BY <1>1 DEF Told
    <2>2. /\ SegmentWith(u, roles).label = u.label
          /\ SegmentWith(u, roles).start = u.start
          /\ SegmentWith(u, roles).end = u.end
        BY DEF SegmentWith
    <2> HIDE DEF S, T
    <2> QED BY <2>1, <2>2
<1>5. \A s \in T : \E u \in S : s.label = u.label /\ s.start = u.start /\ s.end = u.end
    BY <1>1 DEF Told, SegmentWith
<1>6. \A u, v \in S : u.start \in Nat /\ v.start \in Nat
    BY <1>3 DEF Voiced
<1> HIDE DEF S, T
<1>7. ASSUME NEW x \in Overlaps(S) PROVE x \in {Pair(p) : p \in of}
    <2>1. PICK p \in Crossing(S) : x = [by |-> p[2].label, start |-> p[2].start,
                                        overlap |-> Shared(p[1], p[2])]
        BY <1>7 DEF Overlaps
    <2>2. p[1] \in S /\ p[2] \in S /\ Interrupts(p[1], p[2])
        BY <2>1 DEF Crossing
    <2>3. PICK s \in T : s.label = p[1].label /\ s.start = p[1].start /\ s.end = p[1].end
        BY <1>4, <2>2
    <2>4. PICK t \in T : t.label = p[2].label /\ t.start = p[2].start /\ t.end = p[2].end
        BY <1>4, <2>2
    <2>5. <<s, t>> \in of
        BY <1>6, <2>2, <2>3, <2>4 DEF Interrupts, Shared
    <2>6. x = Pair(<<s, t>>)
        BY <2>1, <2>3, <2>4 DEF Shared
    <2> QED BY <2>5, <2>6
<1>8. ASSUME NEW p \in of PROVE Pair(p) \in Overlaps(S)
    <2>1. p[1] \in T /\ p[2] \in T /\ Cross(p[1], p[2])
        OBVIOUS
    <2>2. PICK u \in S : p[1].label = u.label /\ p[1].start = u.start /\ p[1].end = u.end
        BY <1>5, <2>1
    <2>3. PICK v \in S : p[2].label = v.label /\ p[2].start = v.start /\ p[2].end = v.end
        BY <1>5, <2>1
    <2>4. <<u, v>> \in Crossing(S)
        BY <1>6, <2>1, <2>2, <2>3 DEF Crossing, Interrupts, Shared
    <2>5. Pair(p) = [by |-> v.label, start |-> v.start, overlap |-> Shared(u, v)]
        BY <2>2, <2>3 DEF Shared
    <2> HIDE DEF Pair
    <2> QED BY <2>4, <2>5 DEF Overlaps
<1>9. Overlaps(S) = {Pair(p) : p \in of}
    BY <1>7, <1>8
<1> HIDE DEF of
<1> QED BY <1>2, <1>9 DEF InterruptionsComplete, of, T

\* The metrics of a stored transcript measure the speech in it: talk times are
\* the numbers of windows in which the party speaks, dead air is the silence of
\* at least the threshold between speech, and no interruption is missed, for
\* any number of utterances, however they overlap.
THEOREM MetricsAreOfSpeech ==
    Spec => []MetricsMeasureSpeech
<1>1. TransInv => MetricsMeasureSpeech
    BY TalkTimesHold, DeadAirHolds, InterruptionsHold DEF MetricsMeasureSpeech
<1> QED BY <1>1, StagesHandOver, PTL

=============================================================================
