--------------------------- MODULE Configuration ----------------------------
(***************************************************************************)
(* The registry that files are loaded into and the loggers that follow one *)
(* of its settings.                                                        *)
(***************************************************************************)
EXTENDS LogConfig, ConfigRegistry

ConfigurationSpec == LogSpec /\ RegistrySpec

(* What the configuration says is what runs: the loggers do what their definitions say, and a
   setting has what the file gives it (log.cc:845-896, Config::LoadFromYaml). *)
ConfigurationRuns == LogsFollow /\ FileApplied
=============================================================================
