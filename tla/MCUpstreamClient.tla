--------------------------- MODULE MCUpstreamClient ---------------------------
(* Small instances of UpstreamClient for TLC. *)
EXTENDS UpstreamClient

CONSTANTS c1, c2
===============================================================================
