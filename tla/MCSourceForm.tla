---------------------------- MODULE MCSourceForm ----------------------------
(* Two scores, one of them the adapter's default, and one set of the rest.  *)
EXTENDS SourceForm

CONSTANTS t1, t2, daily
=============================================================================
