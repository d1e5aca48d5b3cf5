---------------------------- MODULE MC_TimeoutRetry ----------------------------
(* Two checked commands in parallel and then a condition to wait for. *)
EXTENDS TimeoutRetry

Repeats == {<<t, w>> \in Try \X Thread : w \in large[t] \/ \E k \in Step : <<t, k, w>> \in removals}

\* One command repeats in large_output mode or is left to the device, not both; the threads of a step are alike, so it is the left one that repeats.
MCBound ==
  /\ Cardinality(Repeats) + Cardinality(orphans) <= 1
  /\ \A r \in Repeats : r[2] = "left"
=============================================================================
