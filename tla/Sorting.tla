-------------------------------- MODULE Sorting --------------------------------
(***************************************************************************)
(* Python's sorted(items, key=...) and [item for item in items if ...]: an *)
(* arrangement of the positions of a sequence.                             *)
(***************************************************************************)
EXTENDS Integers, Sequences, FiniteSets

\* The elements of a finite set one after another, by a strict order: each has
\* as many others before it as its place says.
Arranged(S, order) ==
    [k \in 1..Cardinality(S) |->
        CHOOSE i \in S : Cardinality({j \in S : <<j, i>> \in order}) = k - 1]

Picked(seq, positions) == [k \in DOMAIN positions |-> seq[positions[k]]]

\* Positions by what they hold, and where that is equal by where they are.
StableOrder(seq, Before(_, _)) ==
    {p \in (DOMAIN seq) \X (DOMAIN seq) :
        \/ Before(seq[p[1]], seq[p[2]])
        \/ p[1] < p[2] /\ ~Before(seq[p[2]], seq[p[1]])}

\* sorted, which is stable; Before compares the keys strictly.
Sorted(seq, Before(_, _)) ==
    Picked(seq, Arranged(DOMAIN seq, StableOrder(seq, Before)))

Rising(S) == {p \in S \X S : p[1] < p[2]}

\* A comprehension with a condition keeps what meets it, in order.
Filtered(seq, Meets(_)) ==
    LET kept == {i \in DOMAIN seq : Meets(seq[i])}
    IN  Picked(seq, Arranged(kept, Rising(kept)))

=============================================================================
