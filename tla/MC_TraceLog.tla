------------------------------ MODULE MC_TraceLog ------------------------------
EXTENDS TraceLog
MCEvents == [p \in Process |-> IF p = "main" THEN 2 ELSE 1]
=============================================================================
