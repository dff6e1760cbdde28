------------------------ MODULE MCDeploymentRequests ------------------------
(* Instances of DeploymentRequests for TLC.                                *)
EXTENDS DeploymentRequests, MCAppDeployment
=============================================================================
