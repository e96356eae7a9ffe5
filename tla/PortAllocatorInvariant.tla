----------------------- MODULE PortAllocatorInvariant -----------------------
(***************************************************************************)
(* The inductive invariant behind the safety properties.  What is          *)
(* true between two writes of a handler is true because at most one        *)
(* handler has started (Alone), and is stated at the time that handler     *)
(* read, which may be earlier than the clock.                              *)
(***************************************************************************)
EXTENDS PortAllocator

Busy(r) == handler[r].pc # "idle"

Alone == \A r, s \in Requests : Busy(r) /\ Busy(s) => r = s

\* Every promise that runs to time n or later is backed by the stored lease.
PromisesFrom(n) ==
    \A t \in Tenants, p \in Ports :
        told[t][p] >= n =>
            /\ leases[p] # NoLease
            /\ leases[p].tenant_id = t
            /\ told[t][p] <= leases[p].last_heartbeat_ms + Term

Timely(r) ==
    /\ handler[r].now >= 1
    /\ handler[r].now <= clock
    /\ \A p \in Held : leases[p].last_heartbeat_ms <= handler[r].now
    /\ PromisesFrom(handler[r].now)

\* What a handler knows at each of its phases about the port it works on.
Knows(h) ==
    LET lease == leases[h.port] IN
    /\ h.pc \in {"initCursor", "scan", "exhausted", "claim", "setCursor",
                 "countAllocation"}
         => h.op = "allocate" /\ h.tenant \in Tenants
    /\ h.pc = "scan" => cursor_port \in Ports
    /\ h.pc = "sweep" => h.op = "sweep"
    /\ h.pc \in {"mark", "delete", "countReclaim"}
         => h.op = "sweep" \/ (h.op = "allocate" /\ h.tenant \in Tenants /\ cursor_port \in Ports)
    /\ h.pc = "delete" => lease # NoLease /\ isLeaseExpired(lease, h.now)
    /\ h.pc = "countReclaim" => lease = NoLease
    /\ h.pc = "claim" => lease = NoLease
    /\ h.pc \in {"setCursor", "countAllocation"}
         => /\ lease # NoLease
            /\ lease.tenant_id = h.tenant
            /\ lease.last_heartbeat_ms = h.now
    /\ h.pc \in {"putExpired", "putHeartbeat", "deleteReleased"}
         => /\ lease # NoLease
            /\ h.seen = lease
            /\ h.tenant = lease.tenant_id
    /\ h.pc = "putExpired" => isLeaseExpired(lease, h.now)
    /\ h.pc = "deleteReleased" => h.op = "release" /\ told[h.tenant][h.port] = 0

HandlersKnow == \A r \in Requests : Busy(r) => Timely(r) /\ Knows(handler[r])

IInv ==
    /\ TypeOK
    /\ Alone
    /\ \A p \in Held : leases[p].last_heartbeat_ms <= clock
    /\ PromisesFrom(clock)
    /\ HandlersKnow

\* A heartbeat about to be stored was judged when its lease was active, which
\* the lease still is: StatusAgrees is inductive together with this.
RenewsActive ==
    \A r \in Requests :
        At(r, "putHeartbeat") => leases[handler[r].port].status = "active"

=============================================================================
