------------------------------ MODULE MCEngine ------------------------------
(* Engine, with the environments of the configurations.                    *)
EXTENDS Engine

MCEnvironments ==
    {{}, {"otherEngines"}, {"idleClose"}, {"cancel", "otherEngines"}}
IdleCloseOnly == {{"idleClose"}}
=============================================================================
