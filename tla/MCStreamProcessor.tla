------------------------- MODULE MCStreamProcessor -------------------------
(***************************************************************************)
(* Instances of StreamProcessor for TLC: how often each fault may strike.  *)
(***************************************************************************)
EXTENDS StreamProcessor, TLC

Limits(e, c, x, r, s) ==
    [k \in FaultKinds |-> CASE k = "error" -> e [] k = "crash" -> c [] k = "expire" -> x
                            [] k = "rebalance" -> r [] k = "sigterm" -> s]

\* A group: everything but a graceful stop, once each.
GroupFaults == Limits(1, 1, 1, 1, 0)
\* A single worker whose dedup set does not expire.
SoloFaults == Limits(1, 1, 0, 0, 1)
OneError == Limits(1, 0, 0, 0, 0)
OneCrash == Limits(0, 1, 0, 0, 0)
OneSigterm == Limits(0, 0, 0, 0, 1)

GroupSymmetry == Permutations(Workers) \cup Permutations(Events) \cup Permutations(Partitions)
=============================================================================
