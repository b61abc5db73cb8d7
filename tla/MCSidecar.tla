------------------------------ MODULE MCSidecar ------------------------------
(* Instances of Sidecar for TLC: a session of a few commands. *)
EXTENDS Sidecar
=============================================================================
