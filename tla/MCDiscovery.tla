----------------------------- MODULE MCDiscovery -----------------------------
(* An instance of Discovery for TLC: a cluster of four databases, of which *)
(* one is excluded, and a URL of every form.                               *)
EXTENDS Discovery

CONSTANTS a, b, c, x, none

MCNames   == {a, b, c, x}
MCExclude == {x}
MCUrls    == {[path |-> a, dbname |-> none], [path |-> none, dbname |-> a],
              [path |-> none, dbname |-> none]}
MCStable  == {a}
=============================================================================
