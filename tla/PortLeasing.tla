---------------------------- MODULE PortLeasing ----------------------------
(***************************************************************************)
(* What the ephemeral port allocator promises its tenants, seen from the   *)
(* tenants' side only: a tenant that was told it holds a port is the only  *)
(* one told so until the time the promise runs to.  How leases are stored, *)
(* scanned, swept and counted is left to PortAllocator, which implements   *)
(* this module.                                                            *)
(***************************************************************************)
EXTENDS Integers

CONSTANTS Tenants,  \* tenant_id values
          Ports,    \* PORT_MIN .. PORT_MAX
          Term      \* LEASE_TTL_MS + HEARTBEAT_GRACE_MS

VARIABLES told,     \* told[t][p]: the time until which t was promised p, 0 for none
          clock     \* Date.now()

promiseVars == <<told, clock>>

\* Tenant t may use port p now.
MayUse(t, p) == told[t][p] >= clock

PromiseInit ==
    /\ told = [t \in Tenants |-> [p \in Ports |-> 0]]
    /\ clock = 1

\* A successful allocate or heartbeat: nobody else may use the port, and an
\* older promise to the same tenant is never shortened.
Promise(t, p) ==
    /\ \A s \in Tenants \ {t} : ~MayUse(s, p)
    /\ \E until \in told[t][p] .. clock + Term :
           told' = [told EXCEPT ![t][p] = until]
    /\ UNCHANGED clock

\* The tenant gives the port up: it asks for the release.
GiveUp(t, p) ==
    /\ told' = [told EXCEPT ![t][p] = 0]
    /\ UNCHANGED clock

PassTime ==
    /\ clock' = clock + 1
    /\ UNCHANGED told

PromiseNext ==
    \/ \E t \in Tenants, p \in Ports : Promise(t, p)
    \/ \E t \in Tenants, p \in Ports : GiveUp(t, p)
    \/ PassTime

PromiseSpec == PromiseInit /\ [][PromiseNext]_promiseVars
=============================================================================
