------------------------------ MODULE MCPercent ------------------------------
(* The URIs of the run of Percent. *)
EXTENDS Percent

\* '%', two hex digits, a character that is none, and the signs
UriCharacters == {37, 48, 52, 120, 43, 45}
=============================================================================
