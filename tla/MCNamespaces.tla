---------------------------- MODULE MCNamespaces ----------------------------
EXTENDS Namespaces

CONSTANTS A, B

Both == {A, B}
Scenario(wide, claims, namesakes, manager, maxEdits, maxFaults) ==
    [cluster |-> wide, claims |-> claims, sameName |-> namesakes, manager |-> manager,
     edits |-> maxEdits, faults |-> maxFaults]
\* Rival managers, with one name and with two; a fault beside a cluster-wide instance,
\* whether the other manages the namespace from the start or not; a source namespace
\* that may get a manager, and rivals for one.
AnyRivals == {Scenario({}, {}, FALSE, None, 2, 0), Scenario({}, {}, TRUE, None, 2, 0),
              Scenario({A}, {}, FALSE, None, 1, 1), Scenario({A}, {}, FALSE, B, 1, 1),
              Scenario({A}, {A}, FALSE, None, 1, 0),
              Scenario({A, B}, {A}, FALSE, None, 1, 0)}
\* The label of a manager that goes and comes back.
Return == {Scenario({}, {}, FALSE, None, 2, 0)}
\* An owner that is deleted, beside another cluster-wide instance.
Owner == {Scenario({A, B}, {A}, FALSE, None, 1, 0)}
=============================================================================
