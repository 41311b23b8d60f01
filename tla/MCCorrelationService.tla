------------------------ MODULE MCCorrelationService ------------------------
(***************************************************************************)
(* An instance of CorrelationService for TLC: two scopes, and an input that *)
(* is observed twice, the first time in a row that may arrive last.        *)
(***************************************************************************)
EXTENDS CorrelationService

MCRows == 1 .. 2
MCInputOf == <<1, 1>>
MCDetectedAt == <<0, 1>>
=============================================================================
