----------------------------- MODULE MCViewRun -----------------------------
(* A View with one slice at the hub, at a Site or behind two plugins, and   *)
(* an Action called over the port.                                          *)
EXTENDS ViewRun

CONSTANTS local, remote, port, port2

MCSiteLaunch == {[flow |-> "view", slices |-> {remote}]}

MCLaunches == MCSiteLaunch \cup
  {[flow |-> "view", slices |-> {local}],
   [flow |-> "view", slices |-> {port, port2}],
   [flow |-> "action", slices |-> {port}]}
=============================================================================
