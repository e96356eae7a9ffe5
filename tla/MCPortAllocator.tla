-------------------------- MODULE MCPortAllocator --------------------------
(* PortAllocator for TLC: model values and the range PORT_MIN .. PORT_MAX. *)
EXTENDS PortAllocatorInvariant, TLC

CONSTANTS a, b, r1, r2

MCTenants == {a, b}
MCRequests == {r1, r2}
=============================================================================
