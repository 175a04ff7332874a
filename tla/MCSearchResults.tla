--------------------------- MODULE MCSearchResults ---------------------------
(* Two generations of an index of up to four images, and one alone.        *)
EXTENDS SearchResults, TLC

CONSTANTS q1, q2, i1, i2, i3, i4

TwoGenerations ==
    << (q1 :> <<i1, i2, i3, i4>>) @@ (q2 :> <<i3>>),
       (q1 :> <<i3, i1>>) @@ (q2 :> <<i2, i3>>) >>

OneGeneration == << q1 :> <<i1, i2, i3, i4>> >>
==============================================================================
