---------------------------- MODULE MCPodStartup ----------------------------
(***************************************************************************)
(* An instance of PodStartup for TLC: load timeouts on both sides of a     *)
(* whole number of startup periods, and load times on both sides of what   *)
(* they grant.                                                             *)
(***************************************************************************)
EXTENDS PodStartup

MCLoadTimeouts == {30, 35, 39, 60}
MCBootTimes == {0, 10}
MCLoadTimes == {0, 10, 15, 20, 25, 40}
=============================================================================
