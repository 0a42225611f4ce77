----------------------------- MODULE MCKeyQueue -----------------------------
(* Small instances of KeyQueue. *)
EXTENDS KeyQueue

CONSTANTS k1, k2

MCKeys == {k1, k2}
MCOneKey == {k1}
MCAllFeatures == {"pause", "reset", "load", "stop"}
MCNoFeatures == {}
=============================================================================
