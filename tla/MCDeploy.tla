------------------------------ MODULE MCDeploy ------------------------------
(* Constants for model-checking Deploy.tla.                                *)
EXTENDS Deploy

DeployTargets == <<"dist", "web/dist", "scripts">>
=============================================================================
