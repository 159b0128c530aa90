------------------------------ MODULE MCExporter ------------------------------
(* Instances of Exporter for TLC.  Scrapers are interchangeable.           *)
EXTENDS Exporter, TLC

MCSymmetry == Permutations(Scrapers)
=============================================================================
