---------------------------- MODULE MCDriveAuth ----------------------------
(* DriveAuth for TLC: requests on the server, a command on a laptop.       *)
EXTENDS DriveAuth

CONSTANTS c1, server, laptop

MCHostOf == [p \in Clients |-> IF p = c1 THEN laptop ELSE server]
=============================================================================
