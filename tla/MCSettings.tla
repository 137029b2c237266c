----------------------------- MODULE MCSettings -----------------------------
(* Values for the constants of SettingsPage are given in the configuration. *)
EXTENDS SettingsPage
=============================================================================
