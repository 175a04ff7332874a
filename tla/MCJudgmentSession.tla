------------------------- MODULE MCJudgmentSession -------------------------
(* Two queries that share an image of their pools; tabs that do not agree.  *)
EXTENDS JudgmentSession, TLC

CONSTANTS t1, t2

Paired == <<{1}, {1}>>

Differ == (t1 :> {1}) @@ (t2 :> {2})
============================================================================
