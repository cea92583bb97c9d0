---------------------------- MODULE MCTaskStorage ----------------------------
(* Finite instances of TaskStorage.                                        *)
EXTENDS TaskStorage

LegacyTwo == {1, 2}
LegacyNone == {}
=============================================================================
