--------------------------- MODULE MCIngestViews ---------------------------
(* One tab over a source of three items on two pages, two of them of one  *)
(* run, opened on its items, the live list or the page of an attempt.     *)
EXTENDS IngestViews

CONSTANTS t1

SomePages == {ListKey("items", 0), ListKey("live", 0), AttemptKey(2)}
OneUnderWay == <<"done", "in_flight", "done">>
=============================================================================
