-------------------------- MODULE MCImportSession --------------------------
(* Small instance of ImportSession: one source of two bytes, the first zero *)
(* so that a data byte can be mistaken for the terminator.                  *)
EXTENDS ImportSession

MCBytes == {0, 2}
MCSources == {<<0, 2>>}
MCShortSources == {<<>>, <<2>>}
MCNoLoads == {}
MCLoadRequests == {{"state"}}
MCConstantSpeed == {}
=============================================================================
