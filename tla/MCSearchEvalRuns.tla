-------------------------- MODULE MCSearchEvalRuns --------------------------
(* Searches that find what is judged already, and perhaps more. *)
EXTENDS SearchEvalRuns

CONSTANTS t1, t2, a, b

More == <<{{a}}, {{a}, {a, b}}, {{a}}>>
=============================================================================
