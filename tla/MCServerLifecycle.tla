-------------------------- MODULE MCServerLifecycle --------------------------
(* Instances of ServerLifecycle for TLC.                                   *)
EXTENDS ServerLifecycle

\* Two tasks, so that a second server could be created.
TwoServers == {"task1", "task2"}
=============================================================================
