------------------------------- MODULE MCHubRun -------------------------------
(* The instance of HubRun for TLC: three callers for a table of two buckets.    *)
EXTENDS HubRun, TLC

CONSTANTS enroll, sync, other

MCLimit == enroll :> 1 @@ sync :> 2 @@ other :> 2
=============================================================================
