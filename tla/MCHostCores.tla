---------------------------- MODULE MCHostCores ----------------------------
(* Values for the constants of HostCoresCheck.                             *)
EXTENDS HostCoresCheck

FourCores == 0 .. 3

=============================================================================
