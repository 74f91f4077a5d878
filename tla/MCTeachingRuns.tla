--------------------------- MODULE MCTeachingRuns ---------------------------
(***************************************************************************)
(* Model values for TeachingRuns.  One project and its tenant, so that the *)
(* two account rows are posted together and have to agree.                 *)
(***************************************************************************)
EXTENDS TeachingRunsInv, FiniteSetsExt, TLC

CONSTANTS r1, r2, w1, w2, p1

OneRun == {r1}
TwoRuns == {r1, r2}
OneWorker == {w1}
TwoWorkers == {w1, w2}
OneProject == {p1}
InOneProject == [r \in Runs |-> p1]
ShortQuestion == {1}

Symmetric == Permutations(Workers) \cup Permutations(Runs)

\* Two workers are explored on one run, two runs with one busy worker (either
\* of the two): rows of different runs meet only in the ledger and in the order
\* of claiming, and every transaction posts to the ledger atomically.
OneRunOrOneBusyWorker ==
    \/ Cardinality({r \in Runs : run[r].status # "none"}) <= 1
    \/ Cardinality({w \in Workers : worker[w].pc # "idle"}) <= 1

\* Enough for one fresh token whenever a worker is idle.
MCTokens == 1..(Cardinality(Workers) + 2 * Cardinality(Runs))

\* A cost within the estimate, and a report above the promised output.
UsageWithin == {[input |-> 1, output |-> 0]}
UsageWithinAndAbove == UsageWithin \cup {[input |-> 1, output |-> MaxOutput + 1]}

\* An input above the length of the question, within the promised maximum.
UsageAboveEstimate == {[input |-> MaxInput, output |-> MaxOutput]}
=============================================================================
