------------------------------- MODULE MCShell -------------------------------
(* Instances of Shell for TLC: a run and its cancel, against two agents. *)
EXTENDS Shell

MCFrames ==
  [id : Calls, event : {"ack", "error"}] \cup [id : {NoId}, event : RunCalls]
=============================================================================
