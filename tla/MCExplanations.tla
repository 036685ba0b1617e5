---------------------------- MODULE MCExplanations ----------------------------
(* Small instance of Explanations for TLC. *)
EXTENDS Explanations, TLC, Integers

\* Nothing reads the two counters of requests but their comparison: states that
\* differ in how many there were, and not in how many of them are counted only,
\* have the same futures.
View == <<record, wording, input, task, stray, mixed, counts, used - calls>>

==============================================================================
