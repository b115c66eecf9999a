---------------------------- MODULE MCBootstrap ----------------------------
(***************************************************************************)
(* Bootstrap with the variables of configuration.ts.                       *)
(***************************************************************************)
EXTENDS Bootstrap

EnvironmentVariables ==
  ModuleReads \cup {"NODE_ENV", "PORT", "FRONT_END_URL", "DATADOG_API_KEY"}

=============================================================================
