---------------------------- MODULE MCAnalysis -----------------------------
(* Instances of Analysis for TLC. *)
EXTENDS Analysis

\* Cancelling and long logs are looked at apart: a topic that was cancelled
\* gets no second record.
Focused == \A t \in Topics : cancels[t] > 0 => End(t) <= 1
=============================================================================
