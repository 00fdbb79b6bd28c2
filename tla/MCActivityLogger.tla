-------------------------- MODULE MCActivityLogger --------------------------
(* ActivityLogger, with the constants of the configuration.                *)
EXTENDS ActivityLogger
=============================================================================
