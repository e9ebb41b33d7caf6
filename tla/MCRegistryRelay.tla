-------------------------- MODULE MCRegistryRelay --------------------------
(***************************************************************************)
(* RegistryRelay with two intents that publish one package.                *)
(***************************************************************************)
EXTENDS RegistryRelay

MCPackageOf == [i \in Intents |-> "package"]
=============================================================================
