----------------------------- MODULE CheckLibrary -----------------------------
(***************************************************************************)
(* Date-effective versions of checks and their applicability               *)
(* (packages/domain/check_library.py,                                      *)
(* packages/application/services/check_resolver.py).                       *)
(***************************************************************************)
EXTENDS Integers, Sequences, SequencesExt, FiniteSets, Sorting

CONSTANT Forever   \* the end of a version that has none: later than any instant

ASSUME ForeverAssumption == Forever \in Nat

Dimension == {"fuel", "customer", "state", "campaign"}

\* An allow-list that allows everything (None in the code).
Unrestricted == {"*"}

\* CheckApplicability.validate
Sound(applicability) == \A d \in Dimension : applicability[d] # {}

\* CheckVersion.create: what it lets into the library.
Creatable(version) == version.from <= version.to /\ Sound(version.applicability)

Before(v, w) == v.from < w.from

\* Mutant: neighbours in the order the versions were stored.
NonOverlappingUnsorted(versions) ==
    \A i \in 1..(Len(versions) - 1) : versions[i].to < versions[i + 1].from

\* CheckVersionResolver.validate_non_overlapping: neighbours by date.
NonOverlapping(versions) ==
    LET sorted == Sorted(versions, Before) IN
    \A i \in 1..(Len(sorted) - 1) : sorted[i].to < sorted[i + 1].from

Matches(versions, date) ==
    {v \in ToSet(versions) : v.from <= date /\ date <= v.to}

\* CheckVersionResolver.resolve does not raise.
Resolvable(versions, date) ==
    NonOverlapping(versions) /\ Cardinality(Matches(versions, date)) = 1

Active(versions, date) == CHOOSE v \in Matches(versions, date) : TRUE

\* is_dimension_applicable; "" is a dimension the sale does not have.
Allows(list, actual) == list = Unrestricted \/ actual \in list

\* is_check_applicable
Applicable(version, sale) ==
    \A d \in Dimension : Allows(version.applicability[d], sale[d])

\* resolve_checks_for_sale: one check that cannot be resolved fails all, a
\* check without versions is left out, and so is one that does not apply.
Resolves(versionsOf, date) ==
    \A check \in DOMAIN versionsOf :
        versionsOf[check] # <<>> => Resolvable(versionsOf[check], date)

ResolvedChecks(versionsOf, date, sale) ==
    {check \in DOMAIN versionsOf :
        versionsOf[check] # <<>> /\ Applicable(Active(versionsOf[check], date), sale)}

=============================================================================
