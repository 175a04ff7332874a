-------------------------- MODULE MCGifAnnotation --------------------------
(* Two tabs: the first goes through the list, the second stays on its last *)
(* GIF, so that they meet there.                                           *)
EXTENDS GifAnnotation, TLC

CONSTANTS t1, t2

Apart == (t1 :> {1, 2}) @@ (t2 :> {2})
Verdicts == (t1 :> {"complete"}) @@ (t2 :> {"skipped"})
Once == <<1, 1>>
============================================================================
