------------------------------ MODULE MCSetup ------------------------------
(* Three providers, any of them installed before. *)
EXTENDS ProviderSetup
CONSTANTS kimi, codex, grok
Three == <<codex, grok, kimi>>
=============================================================================
