-------------------------- MODULE MC_LeaveRequests --------------------------
(***************************************************************************)
(* A small instance of LeaveRequests, with SlaEscalation, for TLC.         *)
(***************************************************************************)
EXTENDS LeaveRequests

CONSTANTS r1, r2, t1
=============================================================================
