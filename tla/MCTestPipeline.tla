---------------------------- MODULE MCTestPipeline ----------------------------
(* Small instances of TestPipeline: two goroutines per pool, so channels of  *)
(* two messages; files that together reach every branch of the handlers.     *)
EXTENDS TestPipeline, TLC

CONSTANTS p1, p2, w1, w2

MCPaths   == {p1, p2}
MCWorkers == {w1, w2}

File(kind, results) == [yaml |-> kind, statuses |-> results]

MCContents == {File("bad", {}),
               File("notK8s", {"Empty"}),
               File("k8s", {"Empty", "Valid"}),
               File("k8s", {"Valid", "Skipped"}),
               File("k8s", {"Invalid", "Skipped"})}

Flags(only, skip, offline) ==
    [onlyK8s |-> only, skip |-> skip, offline |-> offline, custom |-> FALSE]

MCOptionSets == {Flags(TRUE, FALSE, FALSE), Flags(FALSE, TRUE, FALSE),
                 Flags(FALSE, FALSE, TRUE)}

MCSymmetry == Permutations(MCWorkers) \cup Permutations(MCPaths)

OneWorker == {w1}

\* For the liveness instance: a file for each verdict but "ignored", with warnings.
FewContents == {File("bad", {}), File("k8s", {"Valid", "Skipped"}),
                File("notK8s", {"Empty"})}

FewOptionSets == {Flags(FALSE, FALSE, FALSE), Flags(TRUE, FALSE, FALSE)}
=============================================================================
