------------------------------- MODULE MCOverlap -------------------------------
(***************************************************************************)
(* Overlap for TLC: its constants are given model values in the            *)
(* configuration.  An earlier network has left its environment files on    *)
(* all nodes and nobody removes them, so that an agent may build its       *)
(* bridge at once: whatever happens with fewer files happens here as well. *)
(***************************************************************************)
EXTENDS Overlap

AtOnceInit == OverlapInit /\ envFiles = Nodes
AtOnceNext == OverlapNext /\ UNCHANGED envFiles

AtOnceSpec == AtOnceInit /\ [][AtOnceNext]_overlapVars
=============================================================================
