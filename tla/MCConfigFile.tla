---------------------------- MODULE MCConfigFile ----------------------------
(* The names that the run of ConfigFile registers. *)
EXTENDS ConfigFile

MCKnown == {<<"P">>}
=============================================================================
