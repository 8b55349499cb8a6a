-------------------------- MODULE MCSourceRehome --------------------------
(* Two Cells, the Connector deployed on both, nobody homing the Source yet. *)
EXTENDS SourceRehome

CONSTANTS a, b
=============================================================================
