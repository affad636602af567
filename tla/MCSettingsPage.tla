--------------------------- MODULE MCSettingsPage ---------------------------
(* SettingsPage with settings that have two values each. *)
EXTENDS SettingsPage

MCSettings == [Fields -> BOOLEAN]
=============================================================================
