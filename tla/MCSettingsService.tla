-------------------------- MODULE MCSettingsService --------------------------
(* Small instances of SettingsService for TLC.                             *)
EXTENDS SettingsService

CONSTANTS w1, w2, trading, polymarket
=============================================================================
