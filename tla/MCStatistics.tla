---------------------------- MODULE MCStatistics ----------------------------
(* An instance of Collector and Statistics for TLC.                        *)
EXTENDS Statistics

\* The first predicate is asked every time, the second is cached.
MCPredTTL == <<0, 2>>
=============================================================================
