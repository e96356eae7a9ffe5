------------------------ MODULE PortAllocatorProofs ------------------------
(***************************************************************************)
(* Proofs about PortAllocator for every range, every lease term, every     *)
(* number of tenants, requests and evictions.                              *)
(***************************************************************************)
EXTENDS PortAllocatorInvariant, FiniteSetTheorems, TLAPS

-----------------------------------------------------------------------------
(* Facts about the range.                                                  *)

\* wrapPort always yields a port of the range.
LEMMA WrapPortInRange ==
    ASSUME NEW x \in Int
    PROVE  wrapPort(x) \in Ports
BY ConfigAssumption DEF wrapPort, Ports, totalCapacity

\* The initial state.
LEMMA InitIInv == Init => IInv
<1> SUFFICES ASSUME Init PROVE IInv
    OBVIOUS
<1>1. TypeOK
    BY ConfigAssumption, BoundsAssumption DEF Init, TypeOK, Idle, Handler, Phases, Ports
<1>2. Held = {}
    BY DEF Init, Held
<1>3. \A r \in Requests : ~Busy(r)
    BY DEF Init, Busy, Idle
<1>4. PromisesFrom(clock)
    BY DEF Init, PromisesFrom
<1> QED
    BY <1>1, <1>2, <1>3, <1>4 DEF IInv, Alone, HandlersKnow

-----------------------------------------------------------------------------
(* Every action keeps the invariant.                                       *)

\* The states of a handler that the steps below move it to.
LEMMA IdleIsHandler == Idle \in Handler
BY ConfigAssumption DEF Idle, Handler, Phases, Ports

LEMMA PhaseIsHandler ==
    ASSUME NEW h \in Handler, NEW pc \in Phases
    PROVE  [h EXCEPT !.pc = pc] \in Handler
BY DEF Handler

\* Replacing the state of one handler.
LEMMA SetHandler ==
    ASSUME handler \in [Requests -> Handler], NEW r \in Requests, NEW h \in Handler,
           handler' = [handler EXCEPT ![r] = h]
    PROVE  /\ handler' \in [Requests -> Handler]
           /\ handler'[r] = h
           /\ \A s \in Requests \ {r} : handler'[s] = handler[s]
OBVIOUS

LEMMA GotoHandler ==
    ASSUME handler \in [Requests -> Handler], NEW r \in Requests, NEW pc \in Phases,
           Goto(r, pc)
    PROVE  /\ handler' \in [Requests -> Handler]
           /\ handler'[r] = [handler[r] EXCEPT !.pc = pc]
           /\ \A s \in Requests \ {r} : handler'[s] = handler[s]
<1>1. [handler[r] EXCEPT !.pc = pc] \in Handler
    BY PhaseIsHandler
<1> QED
    BY <1>1 DEF Goto

LEMMA FinishHandler ==
    ASSUME handler \in [Requests -> Handler], NEW r \in Requests, Finish(r)
    PROVE  /\ handler' \in [Requests -> Handler]
           /\ handler'[r] = Idle
           /\ \A s \in Requests \ {r} : handler'[s] = handler[s]
BY IdleIsHandler DEF Finish

\* While one handler runs, only that handler needs looking at.
LEMMA OneHandler ==
    ASSUME Alone, NEW r \in Requests, Busy(r) \/ blockConcurrencyWhile,
           handler' \in [Requests -> Handler],
           \A s \in Requests \ {r} : handler'[s] = handler[s],
           Busy(r)' => Timely(r)' /\ Knows(handler[r])'
    PROVE  Alone' /\ HandlersKnow'
<1>1. \A s \in Requests \ {r} : ~Busy(s)'
    BY DEF Alone, Busy, blockConcurrencyWhile
<1>2. Alone'
    BY <1>1 DEF Alone
<1>3. HandlersKnow'
    BY <1>1 DEF HandlersKnow
<1> QED
    BY <1>2, <1>3

\* The invariant follows from what each action does to its own handler.
LEMMA IInvFromParts ==
    ASSUME IInv, NEW r \in Requests, Busy(r) \/ blockConcurrencyWhile, TypeOK',
           \A s \in Requests \ {r} : handler'[s] = handler[s],
           \A q \in Held' : leases'[q].last_heartbeat_ms <= clock',
           PromisesFrom(clock)',
           Busy(r)' => Timely(r)' /\ Knows(handler[r])'
    PROVE  IInv'
<1>1. handler' \in [Requests -> Handler]
    BY DEF TypeOK
<1>2. Alone' /\ HandlersKnow'
    BY <1>1, OneHandler DEF IInv
<1> QED
    BY <1>2 DEF IInv

LEMMA InitCursorIInv ==
    ASSUME IInv, NEW r \in Requests, InitCursor(r)
    PROVE  IInv'
<1> DEFINE h == handler[r]
<1>1. /\ handler' \in [Requests -> Handler]
      /\ handler'[r] = [handler[r] EXCEPT !.pc = "scan"]
      /\ \A s \in Requests \ {r} : handler'[s] = handler[s]
    BY GotoHandler DEF IInv, TypeOK, InitCursor, Phases
<1>2. Busy(r) /\ h \in Handler /\ Timely(r) /\ Knows(h)
    BY DEF IInv, TypeOK, HandlersKnow, Busy, InitCursor, At
<1>3. TypeOK'
  <2>1. cursor_port' \in Ports
      BY <1>2, WrapPortInRange, ConfigAssumption DEF IInv, TypeOK, Handler, Ports, InitCursor
  <2> QED
      BY <1>1, <2>1 DEF IInv, TypeOK, InitCursor
<1>4. \A q \in Held' : leases'[q].last_heartbeat_ms <= clock'
    BY <1>2 DEF IInv, TypeOK, Held, Timely, InitCursor, Handler
<1>5. PromisesFrom(clock)'
    BY <1>2, ConfigAssumption, AbsentAssumption
       DEF IInv, TypeOK, PromisesFrom, Handler, Timely, Knows, isLeaseExpired, Term, LeaseRecord, InitCursor, At
<1>6. Busy(r)' => Timely(r)' /\ Knows(handler[r])'
    BY <1>1, <1>2, <1>3, ConfigAssumption DEF Ports, IInv, TypeOK, Handler, Timely, Held, PromisesFrom, Knows, isLeaseExpired, Term, LeaseRecord, Busy, Idle, InitCursor, At
<1> QED
    BY <1>1, <1>2, <1>3, <1>4, <1>5, <1>6, IInvFromParts

LEMMA ScanExhaustedIInv ==
    ASSUME IInv, NEW r \in Requests, ScanExhausted(r)
    PROVE  IInv'
<1> DEFINE h == handler[r]
<1>1. /\ handler' \in [Requests -> Handler]
      /\ handler'[r] = [handler[r] EXCEPT !.pc = "exhausted"]
      /\ \A s \in Requests \ {r} : handler'[s] = handler[s]
    BY GotoHandler DEF IInv, TypeOK, ScanExhausted, Phases
<1>2. Busy(r) /\ h \in Handler /\ Timely(r) /\ Knows(h)
    BY DEF IInv, TypeOK, HandlersKnow, Busy, ScanExhausted, At
<1>3. TypeOK'
    BY <1>1 DEF IInv, TypeOK, ScanExhausted
<1>4. \A q \in Held' : leases'[q].last_heartbeat_ms <= clock'
    BY <1>2 DEF IInv, TypeOK, Held, Timely, ScanExhausted, Handler
<1>5. PromisesFrom(clock)'
    BY <1>2, ConfigAssumption, AbsentAssumption
       DEF IInv, TypeOK, PromisesFrom, Handler, Timely, Knows, isLeaseExpired, Term, LeaseRecord, ScanExhausted, At
<1>6. Busy(r)' => Timely(r)' /\ Knows(handler[r])'
    BY <1>1, <1>2, <1>3, ConfigAssumption DEF IInv, TypeOK, Handler, Timely, Held, PromisesFrom, Knows, isLeaseExpired, Term, LeaseRecord, Busy, Idle, ScanExhausted, At
<1> QED
    BY <1>1, <1>2, <1>3, <1>4, <1>5, <1>6, IInvFromParts

LEMMA AnswerExhaustedIInv ==
    ASSUME IInv, NEW r \in Requests, AnswerExhausted(r)
    PROVE  IInv'
<1> DEFINE h == handler[r]
<1>1. /\ handler' \in [Requests -> Handler]
      /\ handler'[r] = Idle
      /\ \A s \in Requests \ {r} : handler'[s] = handler[s]
    BY FinishHandler DEF IInv, TypeOK, AnswerExhausted
<1>2. Busy(r) /\ h \in Handler /\ Timely(r) /\ Knows(h)
    BY DEF IInv, TypeOK, HandlersKnow, Busy, AnswerExhausted, At
<1>3. TypeOK'
    BY <1>1 DEF IInv, TypeOK, AnswerExhausted
<1>4. \A q \in Held' : leases'[q].last_heartbeat_ms <= clock'
    BY <1>2 DEF IInv, TypeOK, Held, Timely, AnswerExhausted, Handler
<1>5. PromisesFrom(clock)'
    BY <1>2, ConfigAssumption, AbsentAssumption
       DEF IInv, TypeOK, PromisesFrom, Handler, Timely, Knows, isLeaseExpired, Term, LeaseRecord, AnswerExhausted, At
<1>6. Busy(r)' => Timely(r)' /\ Knows(handler[r])'
    BY <1>1, <1>2, <1>3, ConfigAssumption DEF IInv, TypeOK, Handler, Timely, Held, PromisesFrom, Knows, isLeaseExpired, Term, LeaseRecord, Busy, Idle, AnswerExhausted, At
<1> QED
    BY <1>1, <1>2, <1>3, <1>4, <1>5, <1>6, IInvFromParts

LEMMA SetCursorIInv ==
    ASSUME IInv, NEW r \in Requests, SetCursor(r)
    PROVE  IInv'
<1> DEFINE h == handler[r]
<1>1. /\ handler' \in [Requests -> Handler]
      /\ handler'[r] = [handler[r] EXCEPT !.pc = "countAllocation"]
      /\ \A s \in Requests \ {r} : handler'[s] = handler[s]
    BY GotoHandler DEF IInv, TypeOK, SetCursor, Phases
<1>2. Busy(r) /\ h \in Handler /\ Timely(r) /\ Knows(h)
    BY DEF IInv, TypeOK, HandlersKnow, Busy, SetCursor, At
<1>3. TypeOK'
  <2>1. cursor_port' \in Ports
      BY <1>2, WrapPortInRange, ConfigAssumption DEF IInv, TypeOK, Handler, Ports, SetCursor
  <2> QED
      BY <1>1, <2>1 DEF IInv, TypeOK, SetCursor
<1>4. \A q \in Held' : leases'[q].last_heartbeat_ms <= clock'
    BY <1>2 DEF IInv, TypeOK, Held, Timely, SetCursor, Handler
<1>5. PromisesFrom(clock)'
    BY <1>2, ConfigAssumption, AbsentAssumption
       DEF IInv, TypeOK, PromisesFrom, Handler, Timely, Knows, isLeaseExpired, Term, LeaseRecord, SetCursor, At
<1>6. Busy(r)' => Timely(r)' /\ Knows(handler[r])'
    BY <1>1, <1>2, <1>3, ConfigAssumption DEF IInv, TypeOK, Handler, Timely, Held, PromisesFrom, Knows, isLeaseExpired, Term, LeaseRecord, Busy, Idle, SetCursor, At
<1> QED
    BY <1>1, <1>2, <1>3, <1>4, <1>5, <1>6, IInvFromParts

LEMMA CountAllocationIInv ==
    ASSUME IInv, NEW r \in Requests, CountAllocation(r)
    PROVE  IInv'
<1> DEFINE h == handler[r]
<1>1. /\ handler' \in [Requests -> Handler]
      /\ handler'[r] = Idle
      /\ \A s \in Requests \ {r} : handler'[s] = handler[s]
    BY FinishHandler DEF IInv, TypeOK, CountAllocation
<1>2. Busy(r) /\ h \in Handler /\ Timely(r) /\ Knows(h)
    BY DEF IInv, TypeOK, HandlersKnow, Busy, CountAllocation, At
<1>3. TypeOK'
  <2>1. metrics' \in [allocations : Nat, reclaims : Nat, releases : Nat]
      BY DEF IInv, TypeOK, CountAllocation
  <2>2. told' \in [Tenants -> [Ports -> Nat]]
      BY <1>2, ConfigAssumption DEF IInv, TypeOK, Handler, Knows, At, Term, CountAllocation, Answer
  <2> QED
      BY <1>1, <2>1, <2>2 DEF IInv, TypeOK, CountAllocation
<1>4. \A q \in Held' : leases'[q].last_heartbeat_ms <= clock'
    BY <1>2 DEF IInv, TypeOK, Held, Timely, CountAllocation, Handler
<1>7. \A t \in Tenants, p \in Ports :
          \/ told'[t][p] = told[t][p]
          \/ t = h.tenant /\ p = h.port /\ told'[t][p] = h.now + Term
    BY <1>2 DEF IInv, TypeOK, Handler, CountAllocation, Answer
<1>5. PromisesFrom(clock)'
  <2> SUFFICES ASSUME NEW t \in Tenants, NEW p \in Ports, told'[t][p] >= clock
               PROVE  /\ leases'[p] # NoLease
                      /\ leases'[p].tenant_id = t
                      /\ told'[t][p] <= leases'[p].last_heartbeat_ms + Term
      BY DEF PromisesFrom, CountAllocation
  <2>1. CASE told'[t][p] = told[t][p]
    <3>1. /\ leases[p] # NoLease /\ leases[p].tenant_id = t
          /\ told[t][p] <= leases[p].last_heartbeat_ms + Term
        BY <2>1 DEF IInv, PromisesFrom
    <3> QED
        BY <1>2, <2>1, <3>1, ConfigAssumption, AbsentAssumption
           DEF IInv, TypeOK, Handler, Held, Timely, Knows, LeaseRecord, Term, CountAllocation, At
  <2>2. CASE t = h.tenant /\ p = h.port /\ told'[t][p] = h.now + Term
      BY <1>2, <2>2, ConfigAssumption, AbsentAssumption
         DEF IInv, TypeOK, Handler, Knows, LeaseRecord, Term, CountAllocation, At
  <2> QED
      BY <1>7, <2>1, <2>2
<1>6. Busy(r)' => Timely(r)' /\ Knows(handler[r])'
    BY <1>1, <1>2, <1>3, ConfigAssumption DEF IInv, TypeOK, Handler, Timely, Held, PromisesFrom, Knows, isLeaseExpired, Term, LeaseRecord, Busy, Idle, CountAllocation, At
<1> QED
    BY <1>1, <1>2, <1>3, <1>4, <1>5, <1>6, IInvFromParts

LEMMA DeleteReclaimedIInv ==
    ASSUME IInv, NEW r \in Requests, DeleteReclaimed(r)
    PROVE  IInv'
<1> DEFINE h == handler[r]
<1>1. /\ handler' \in [Requests -> Handler]
      /\ handler'[r] = [handler[r] EXCEPT !.pc = "countReclaim"]
      /\ \A s \in Requests \ {r} : handler'[s] = handler[s]
    BY GotoHandler DEF IInv, TypeOK, DeleteReclaimed, Phases
<1>2. Busy(r) /\ h \in Handler /\ Timely(r) /\ Knows(h)
    BY DEF IInv, TypeOK, HandlersKnow, Busy, DeleteReclaimed, At
<1>3. TypeOK'
  <2>1. /\ leases' \in [Ports -> LeaseRecord \cup {NoLease}]
        /\ \A p \in Ports : leases'[p] # NoLease => leases'[p].port = p
      BY <1>2, AbsentAssumption DEF IInv, TypeOK, Handler, Knows, LeaseRecord, DeleteReclaimed, At
  <2> QED
      BY <1>1, <2>1 DEF IInv, TypeOK, DeleteReclaimed
<1>4. \A q \in Held' : leases'[q].last_heartbeat_ms <= clock'
    BY <1>2 DEF IInv, TypeOK, Held, Timely, DeleteReclaimed, Handler
<1>5. PromisesFrom(clock)'
    BY <1>2, ConfigAssumption, AbsentAssumption
       DEF IInv, TypeOK, PromisesFrom, Handler, Timely, Knows, isLeaseExpired, Term, LeaseRecord, DeleteReclaimed, At
<1>6. Busy(r)' => Timely(r)' /\ Knows(handler[r])'
    BY <1>1, <1>2, <1>3, ConfigAssumption DEF IInv, TypeOK, Handler, Timely, Held, PromisesFrom, Knows, isLeaseExpired, Term, LeaseRecord, Busy, Idle, DeleteReclaimed, At
<1> QED
    BY <1>1, <1>2, <1>3, <1>4, <1>5, <1>6, IInvFromParts

LEMMA PutExpiredIInv ==
    ASSUME IInv, NEW r \in Requests, PutExpired(r)
    PROVE  IInv'
<1> DEFINE h == handler[r]
<1>1. /\ handler' \in [Requests -> Handler]
      /\ handler'[r] = Idle
      /\ \A s \in Requests \ {r} : handler'[s] = handler[s]
    BY FinishHandler DEF IInv, TypeOK, PutExpired
<1>2. Busy(r) /\ h \in Handler /\ Timely(r) /\ Knows(h)
    BY DEF IInv, TypeOK, HandlersKnow, Busy, PutExpired, At
<1>3. TypeOK'
  <2>1. /\ leases' \in [Ports -> LeaseRecord \cup {NoLease}]
        /\ \A p \in Ports : leases'[p] # NoLease => leases'[p].port = p
      BY <1>2, AbsentAssumption DEF IInv, TypeOK, Handler, Knows, LeaseRecord, PutExpired, At
  <2> QED
      BY <1>1, <2>1 DEF IInv, TypeOK, PutExpired
<1>4. \A q \in Held' : leases'[q].last_heartbeat_ms <= clock'
    BY <1>2, AbsentAssumption DEF IInv, TypeOK, Held, Knows, LeaseRecord, PutExpired, At, Handler
<1>5. PromisesFrom(clock)'
    BY <1>2, ConfigAssumption, AbsentAssumption
       DEF IInv, TypeOK, PromisesFrom, Handler, Timely, Knows, isLeaseExpired, Term, LeaseRecord, PutExpired, At
<1>6. Busy(r)' => Timely(r)' /\ Knows(handler[r])'
    BY <1>1, <1>2, <1>3, ConfigAssumption DEF IInv, TypeOK, Handler, Timely, Held, PromisesFrom, Knows, isLeaseExpired, Term, LeaseRecord, Busy, Idle, PutExpired, At
<1> QED
    BY <1>1, <1>2, <1>3, <1>4, <1>5, <1>6, IInvFromParts

LEMMA PutHeartbeatIInv ==
    ASSUME IInv, NEW r \in Requests, PutHeartbeat(r)
    PROVE  IInv'
<1> DEFINE h == handler[r]
<1>1. /\ handler' \in [Requests -> Handler]
      /\ handler'[r] = Idle
      /\ \A s \in Requests \ {r} : handler'[s] = handler[s]
    BY FinishHandler DEF IInv, TypeOK, PutHeartbeat
<1>2. Busy(r) /\ h \in Handler /\ Timely(r) /\ Knows(h)
    BY DEF IInv, TypeOK, HandlersKnow, Busy, PutHeartbeat, At
<1>3. TypeOK'
  <2>1. /\ leases' \in [Ports -> LeaseRecord \cup {NoLease}]
        /\ \A p \in Ports : leases'[p] # NoLease => leases'[p].port = p
      BY <1>2, AbsentAssumption DEF IInv, TypeOK, Handler, Knows, LeaseRecord, PutHeartbeat, At
  <2>2. told' \in [Tenants -> [Ports -> Nat]]
      BY <1>2, ConfigAssumption DEF IInv, TypeOK, Handler, Term, PutHeartbeat, Answer
  <2> QED
      BY <1>1, <2>1, <2>2 DEF IInv, TypeOK, PutHeartbeat
<1>4. \A q \in Held' : leases'[q].last_heartbeat_ms <= clock'
    BY <1>2 DEF IInv, TypeOK, Held, Timely, PutHeartbeat, Handler
<1>7. \A t \in Tenants, p \in Ports :
          \/ told'[t][p] = told[t][p]
          \/ t = h.tenant /\ p = h.port /\ told'[t][p] = h.now + Term
    BY <1>2 DEF IInv, TypeOK, Handler, PutHeartbeat, Answer
<1>8. /\ leases[h.port] # NoLease /\ leases[h.port].last_heartbeat_ms <= h.now
      /\ leases[h.port].tenant_id = h.tenant
      /\ leases[h.port] \in LeaseRecord
    BY <1>2 DEF IInv, TypeOK, Handler, Knows, Timely, Held, PutHeartbeat, At
<1>9. /\ leases'[h.port] \in LeaseRecord
      /\ leases'[h.port].last_heartbeat_ms = h.now
      /\ leases'[h.port].tenant_id = h.tenant
      /\ \A q \in Ports \ {h.port} : leases'[q] = leases[q]
    BY <1>2, <1>8 DEF IInv, TypeOK, Handler, Knows, LeaseRecord, PutHeartbeat, At
<1>5. PromisesFrom(clock)'
  <2> SUFFICES ASSUME NEW t \in Tenants, NEW p \in Ports, told'[t][p] >= clock
               PROVE  /\ leases'[p] # NoLease
                      /\ leases'[p].tenant_id = t
                      /\ told'[t][p] <= leases'[p].last_heartbeat_ms + Term
      BY DEF PromisesFrom, PutHeartbeat
  <2>1. CASE told'[t][p] = told[t][p]
    <3>1. /\ leases[p] # NoLease /\ leases[p].tenant_id = t
          /\ told[t][p] <= leases[p].last_heartbeat_ms + Term
        BY <2>1 DEF IInv, PromisesFrom
    <3> QED
        BY <1>2, <1>8, <1>9, <2>1, <3>1, ConfigAssumption, AbsentAssumption
           DEF IInv, TypeOK, Handler, LeaseRecord, Term
  <2>2. CASE t = h.tenant /\ p = h.port /\ told'[t][p] = h.now + Term
      BY <1>2, <1>9, <2>2, ConfigAssumption, AbsentAssumption
         DEF Handler, Term
  <2> QED
      BY <1>7, <2>1, <2>2
<1>6. Busy(r)' => Timely(r)' /\ Knows(handler[r])'
    BY <1>1, <1>2, <1>3, ConfigAssumption DEF IInv, TypeOK, Handler, Timely, Held, PromisesFrom, Knows, isLeaseExpired, Term, LeaseRecord, Busy, Idle, PutHeartbeat, At
<1> QED
    BY <1>1, <1>2, <1>3, <1>4, <1>5, <1>6, IInvFromParts

LEMMA DeleteReleasedIInv ==
    ASSUME IInv, NEW r \in Requests, DeleteReleased(r)
    PROVE  IInv'
<1> DEFINE h == handler[r]
<1>1. /\ handler' \in [Requests -> Handler]
      /\ handler'[r] = [handler[r] EXCEPT !.pc = "countRelease"]
      /\ \A s \in Requests \ {r} : handler'[s] = handler[s]
    BY GotoHandler DEF IInv, TypeOK, DeleteReleased, Phases
<1>2. Busy(r) /\ h \in Handler /\ Timely(r) /\ Knows(h)
    BY DEF IInv, TypeOK, HandlersKnow, Busy, DeleteReleased, At
<1>3. TypeOK'
  <2>1. /\ leases' \in [Ports -> LeaseRecord \cup {NoLease}]
        /\ \A p \in Ports : leases'[p] # NoLease => leases'[p].port = p
      BY <1>2, AbsentAssumption DEF IInv, TypeOK, Handler, Knows, LeaseRecord, DeleteReleased, At
  <2> QED
      BY <1>1, <2>1 DEF IInv, TypeOK, DeleteReleased
<1>4. \A q \in Held' : leases'[q].last_heartbeat_ms <= clock'
    BY <1>2 DEF IInv, TypeOK, Held, Timely, DeleteReleased, Handler
<1>5. PromisesFrom(clock)'
    BY <1>2, ConfigAssumption, AbsentAssumption
       DEF IInv, TypeOK, PromisesFrom, Handler, Timely, Knows, isLeaseExpired, Term, LeaseRecord, DeleteReleased, At
<1>6. Busy(r)' => Timely(r)' /\ Knows(handler[r])'
    BY <1>1, <1>2, <1>3, ConfigAssumption DEF IInv, TypeOK, Handler, Timely, Held, PromisesFrom, Knows, isLeaseExpired, Term, LeaseRecord, Busy, Idle, DeleteReleased, At
<1> QED
    BY <1>1, <1>2, <1>3, <1>4, <1>5, <1>6, IInvFromParts

LEMMA CountReleaseIInv ==
    ASSUME IInv, NEW r \in Requests, CountRelease(r)
    PROVE  IInv'
<1> DEFINE h == handler[r]
<1>1. /\ handler' \in [Requests -> Handler]
      /\ handler'[r] = Idle
      /\ \A s \in Requests \ {r} : handler'[s] = handler[s]
    BY FinishHandler DEF IInv, TypeOK, CountRelease
<1>2. Busy(r) /\ h \in Handler /\ Timely(r) /\ Knows(h)
    BY DEF IInv, TypeOK, HandlersKnow, Busy, CountRelease, At
<1>3. TypeOK'
  <2>1. metrics' \in [allocations : Nat, reclaims : Nat, releases : Nat]
      BY DEF IInv, TypeOK, CountRelease
  <2> QED
      BY <1>1, <2>1 DEF IInv, TypeOK, CountRelease
<1>4. \A q \in Held' : leases'[q].last_heartbeat_ms <= clock'
    BY <1>2 DEF IInv, TypeOK, Held, Timely, CountRelease, Handler
<1>5. PromisesFrom(clock)'
    BY <1>2, ConfigAssumption, AbsentAssumption
       DEF IInv, TypeOK, PromisesFrom, Handler, Timely, Knows, isLeaseExpired, Term, LeaseRecord, CountRelease, At
<1>6. Busy(r)' => Timely(r)' /\ Knows(handler[r])'
    BY <1>1, <1>2, <1>3, ConfigAssumption DEF IInv, TypeOK, Handler, Timely, Held, PromisesFrom, Knows, isLeaseExpired, Term, LeaseRecord, Busy, Idle, CountRelease, At
<1> QED
    BY <1>1, <1>2, <1>3, <1>4, <1>5, <1>6, IInvFromParts

LEMMA SweepEndIInv ==
    ASSUME IInv, NEW r \in Requests, SweepEnd(r)
    PROVE  IInv'
<1> DEFINE h == handler[r]
<1>1. /\ handler' \in [Requests -> Handler]
      /\ handler'[r] = Idle
      /\ \A s \in Requests \ {r} : handler'[s] = handler[s]
    BY FinishHandler DEF IInv, TypeOK, SweepEnd
<1>2. Busy(r) /\ h \in Handler /\ Timely(r) /\ Knows(h)
    BY DEF IInv, TypeOK, HandlersKnow, Busy, SweepEnd, At
<1>3. TypeOK'
    BY <1>1 DEF IInv, TypeOK, SweepEnd
<1>4. \A q \in Held' : leases'[q].last_heartbeat_ms <= clock'
    BY <1>2 DEF IInv, TypeOK, Held, Timely, SweepEnd, Handler
<1>5. PromisesFrom(clock)'
    BY <1>2, ConfigAssumption, AbsentAssumption
       DEF IInv, TypeOK, PromisesFrom, Handler, Timely, Knows, isLeaseExpired, Term, LeaseRecord, SweepEnd, At
<1>6. Busy(r)' => Timely(r)' /\ Knows(handler[r])'
    BY <1>1, <1>2, <1>3, ConfigAssumption DEF IInv, TypeOK, Handler, Timely, Held, PromisesFrom, Knows, isLeaseExpired, Term, LeaseRecord, Busy, Idle, SweepEnd, At
<1> QED
    BY <1>1, <1>2, <1>3, <1>4, <1>5, <1>6, IInvFromParts

\* The start of a handler: it reads the clock, and nothing is written.
LEMMA StartFacts ==
    ASSUME IInv, NEW r \in Requests, blockConcurrencyWhile,
           handler' \in [Requests -> Handler],
           \A s \in Requests \ {r} : handler'[s] = handler[s],
           handler'[r].now = clock,
           UNCHANGED <<leases, cursor_port, metrics, clock, minted, crashes>>,
           told' \in [Tenants -> [Ports -> Nat]],
           \A t \in Tenants, p \in Ports : told'[t][p] = told[t][p] \/ told'[t][p] = 0,
           Knows(handler[r])'
    PROVE  IInv'
<1>2. TypeOK'
    BY DEF IInv, TypeOK
<1>3. \A q \in Held' : leases'[q].last_heartbeat_ms <= clock'
    BY DEF IInv, Held
<1>4. PromisesFrom(clock)'
  <2> SUFFICES ASSUME NEW t \in Tenants, NEW p \in Ports, told'[t][p] >= clock
               PROVE  /\ leases[p] # NoLease
                      /\ leases[p].tenant_id = t
                      /\ told'[t][p] <= leases[p].last_heartbeat_ms + Term
      BY DEF PromisesFrom
  <2>1. clock \in Nat /\ clock >= 1
      BY DEF IInv, TypeOK
  <2>2. told'[t][p] = told[t][p]
      BY <2>1
  <2> QED
      BY <2>2 DEF IInv, PromisesFrom
<1>5. Timely(r)'
    BY <1>3, <1>4 DEF Timely, IInv, TypeOK, PromisesFrom, Held
<1> QED
    BY <1>2, <1>3, <1>4, <1>5, IInvFromParts

LEMMA BeginIsHandler ==
    ASSUME TypeOK, NEW t \in Tenants \cup {"none"}, NEW pc \in Phases,
           NEW op \in {"none", "allocate", "heartbeat", "release", "sweep"}
    PROVE  /\ Begin(op, t, pc) \in Handler
           /\ Begin(op, t, pc).pc = pc
           /\ Begin(op, t, pc).op = op
           /\ Begin(op, t, pc).tenant = t
           /\ Begin(op, t, pc).now = clock
BY IdleIsHandler DEF TypeOK, Begin, Idle, Handler

LEMMA AllocateStartIInv ==
    ASSUME IInv, NEW r \in Requests, NEW t \in Tenants, AllocateStart(r, t)
    PROVE  IInv'
<1> DEFINE pc == IF cursor_port = NoCursor THEN "initCursor" ELSE "scan"
           g == Begin("allocate", t, pc)
<1>1. pc \in Phases
    BY DEF Phases
<1>2. /\ g \in Handler /\ g.pc = pc /\ g.op = "allocate" /\ g.tenant = t
      /\ g.now = clock
    BY <1>1, BeginIsHandler DEF IInv
<1>3. /\ handler' = [handler EXCEPT ![r] = g]
      /\ blockConcurrencyWhile
      /\ UNCHANGED <<leases, cursor_port, metrics, clock, minted, told, crashes>>
    BY DEF AllocateStart
<1> HIDE DEF g
<1>4. /\ handler' \in [Requests -> Handler]
      /\ handler'[r] = g
      /\ \A s \in Requests \ {r} : handler'[s] = handler[s]
    BY <1>2, <1>3 DEF IInv, TypeOK
<1>5. Knows(handler[r])'
    BY <1>2, <1>3, <1>4 DEF Knows, IInv, TypeOK
<1> QED
    BY <1>2, <1>3, <1>4, <1>5, StartFacts DEF IInv, TypeOK

LEMMA HeartbeatStartIInv ==
    ASSUME IInv, NEW r \in Requests, NEW t \in Tenants, NEW id \in 1 .. minted,
           NEW p \in Ports, HeartbeatStart(r, t, id, p)
    PROVE  IInv'
<1> DEFINE b == Begin("heartbeat", t, Verdict(p))
           g == Named(b, p)
<1>1. Verdict(p) \in {"putExpired", "putHeartbeat"}
    BY DEF Verdict
<1>2. /\ b \in Handler /\ b.pc = Verdict(p) /\ b.op = "heartbeat" /\ b.tenant = t
      /\ b.now = clock
    BY <1>1, BeginIsHandler DEF IInv, Phases
<1>3. /\ handler' = [handler EXCEPT ![r] = g]
      /\ blockConcurrencyWhile
      /\ Owns(t, id, p)
      /\ UNCHANGED <<leases, cursor_port, metrics, clock, minted, told, crashes>>
    BY DEF HeartbeatStart
<1> HIDE DEF b
<1>4. /\ g \in Handler /\ g.pc = Verdict(p) /\ g.op = "heartbeat" /\ g.tenant = t
      /\ g.now = clock /\ g.port = p /\ g.seen = leases[p]
    BY <1>2 DEF Named, Handler, IInv, TypeOK
<1> HIDE DEF g
<1>5. /\ handler' \in [Requests -> Handler]
      /\ handler'[r] = g
      /\ \A s \in Requests \ {r} : handler'[s] = handler[s]
    BY <1>3, <1>4 DEF IInv, TypeOK
<1>6. Knows(handler[r])'
    BY <1>1, <1>3, <1>4, <1>5 DEF Knows, Owns, Verdict, isLeaseExpired, Term
<1> QED
    BY <1>3, <1>4, <1>5, <1>6, StartFacts DEF IInv, TypeOK

LEMMA ReleaseStartIInv ==
    ASSUME IInv, NEW r \in Requests, NEW t \in Tenants, NEW id \in 1 .. minted,
           NEW p \in Ports, ReleaseStart(r, t, id, p)
    PROVE  IInv'
<1> DEFINE b == Begin("release", t, "deleteReleased")
           g == Named(b, p)
<1>1. /\ b \in Handler /\ b.pc = "deleteReleased" /\ b.op = "release" /\ b.tenant = t
      /\ b.now = clock
    BY BeginIsHandler DEF IInv, Phases
<1>2. /\ handler' = [handler EXCEPT ![r] = g]
      /\ blockConcurrencyWhile
      /\ Owns(t, id, p)
      /\ told' = [told EXCEPT ![t][p] = 0]
      /\ UNCHANGED <<leases, cursor_port, metrics, clock, minted, crashes>>
    BY DEF ReleaseStart
<1> HIDE DEF b
<1>3. /\ g \in Handler /\ g.pc = "deleteReleased" /\ g.op = "release" /\ g.tenant = t
      /\ g.now = clock /\ g.port = p /\ g.seen = leases[p]
    BY <1>1 DEF Named, Handler, IInv, TypeOK
<1> HIDE DEF g
<1>4. /\ handler' \in [Requests -> Handler]
      /\ handler'[r] = g
      /\ \A s \in Requests \ {r} : handler'[s] = handler[s]
    BY <1>2, <1>3 DEF IInv, TypeOK
<1>5. /\ told' \in [Tenants -> [Ports -> Nat]]
      /\ told'[t][p] = 0
      /\ \A s \in Tenants, q \in Ports : told'[s][q] = told[s][q] \/ told'[s][q] = 0
    BY <1>2 DEF IInv, TypeOK
<1>6. Knows(handler[r])'
    BY <1>2, <1>3, <1>4, <1>5 DEF Knows, Owns
<1> QED
    BY <1>2, <1>3, <1>4, <1>5, <1>6, StartFacts

LEMMA SweepStartIInv ==
    ASSUME IInv, NEW r \in Requests, SweepStart(r)
    PROVE  IInv'
<1> DEFINE b == Begin("sweep", "none", "sweep")
           all == {leases[p] : p \in {q \in Ports : leases[q] # NoLease}}
           g == [b EXCEPT !.todo = all]
<1>1. /\ b \in Handler /\ b.pc = "sweep" /\ b.op = "sweep" /\ b.now = clock
    BY BeginIsHandler DEF IInv, Phases
<1>2. all \in SUBSET LeaseRecord
    BY DEF IInv, TypeOK
<1>3. /\ handler' = [handler EXCEPT ![r] = g]
      /\ blockConcurrencyWhile
      /\ UNCHANGED <<leases, cursor_port, metrics, clock, minted, told, crashes>>
    BY DEF SweepStart
<1> HIDE DEF b, all
<1>4. /\ g \in Handler /\ g.pc = "sweep" /\ g.op = "sweep" /\ g.now = clock
    BY <1>1, <1>2 DEF Handler
<1> HIDE DEF g
<1>5. /\ handler' \in [Requests -> Handler]
      /\ handler'[r] = g
      /\ \A s \in Requests \ {r} : handler'[s] = handler[s]
    BY <1>3, <1>4 DEF IInv, TypeOK
<1>6. Knows(handler[r])'
    BY <1>4, <1>5 DEF Knows
<1> QED
    BY <1>3, <1>4, <1>5, <1>6, StartFacts DEF IInv, TypeOK

LEMMA ScanFoundIInv ==
    ASSUME IInv, NEW r \in Requests, NEW i \in Attempts, ScanFound(r, i)
    PROVE  IInv'
<1> DEFINE h == handler[r]
           port == wrapPort(cursor_port + i)
           pc == IF leases[port] = NoLease THEN "claim" ELSE "mark"
           g == [h EXCEPT !.port = port, !.seen = leases[port], !.pc = pc]
<1>1. Busy(r) /\ h \in Handler /\ Timely(r) /\ Knows(h)
    BY DEF IInv, TypeOK, HandlersKnow, Busy, ScanFound, At
<1>2. port \in Ports
  <2>1. cursor_port \in Int /\ i \in Int
      BY <1>1, ConfigAssumption DEF Knows, ScanFound, At, Ports, Attempts
  <2> QED
      BY <2>1, WrapPortInRange
<1>3. pc \in {"claim", "mark"} /\ (pc = "claim" => leases[port] = NoLease)
    OBVIOUS
<1>4. /\ handler' = [handler EXCEPT ![r] = g]
      /\ h.pc = "scan"
      /\ UNCHANGED <<leases, cursor_port, metrics, clock, minted, told, crashes>>
    BY DEF ScanFound, At, IInv, TypeOK
<1> HIDE DEF port, pc
<1>5. /\ g \in Handler /\ g.port = port /\ g.pc = pc
      /\ g.now = h.now /\ g.op = h.op /\ g.tenant = h.tenant
    BY <1>1, <1>2, <1>3 DEF Handler, Phases, IInv, TypeOK
<1> HIDE DEF g
<1>6. /\ handler' \in [Requests -> Handler]
      /\ handler'[r] = g
      /\ \A s \in Requests \ {r} : handler'[s] = handler[s]
    BY <1>4, <1>5 DEF IInv, TypeOK
<1>7. TypeOK'
    BY <1>4, <1>6 DEF IInv, TypeOK
<1>8. PromisesFrom(clock)' /\ \A q \in Held' : leases'[q].last_heartbeat_ms <= clock'
    BY <1>4 DEF IInv, PromisesFrom, Held
<1>9. Timely(r)'
    BY <1>1, <1>4, <1>5, <1>6 DEF Timely, PromisesFrom, Held
<1>10. Knows(handler[r])'
    BY <1>1, <1>3, <1>4, <1>5, <1>6 DEF Knows
<1> QED
    BY <1>1, <1>6, <1>7, <1>8, <1>9, <1>10, IInvFromParts

LEMMA ClaimPortIInv ==
    ASSUME IInv, NEW r \in Requests, ClaimPort(r)
    PROVE  IInv'
<1> DEFINE h == handler[r]
           new == [port |-> h.port, tenant_id |-> h.tenant,
                   lease_id |-> minted + 1, created_at_ms |-> h.now,
                   last_heartbeat_ms |-> h.now, status |-> "active"]
<1>1. Busy(r) /\ h \in Handler /\ Timely(r) /\ Knows(h) /\ h.pc = "claim"
    BY DEF IInv, TypeOK, HandlersKnow, Busy, ClaimPort, At
<1>2. leases[h.port] = NoLease /\ h.tenant \in Tenants /\ h.port \in Ports
      /\ h.op = "allocate"
    BY <1>1 DEF Knows, Handler
<1>3. /\ leases' = [leases EXCEPT ![h.port] = new]
      /\ minted' = minted + 1
      /\ Goto(r, "setCursor")
      /\ UNCHANGED <<cursor_port, metrics, clock, told, crashes>>
    BY <1>2 DEF ClaimPort
<1>4. /\ new \in LeaseRecord /\ new # NoLease
      /\ new.port = h.port /\ new.tenant_id = h.tenant /\ new.last_heartbeat_ms = h.now
    BY <1>1, <1>2, AbsentAssumption DEF LeaseRecord, Handler, IInv, TypeOK
<1> HIDE DEF new
<1>5. /\ handler' \in [Requests -> Handler]
      /\ handler'[r] = [h EXCEPT !.pc = "setCursor"]
      /\ \A s \in Requests \ {r} : handler'[s] = handler[s]
    BY <1>3, GotoHandler DEF IInv, TypeOK, Phases
<1>6. /\ leases' \in [Ports -> LeaseRecord \cup {NoLease}]
      /\ leases'[h.port] = new
      /\ \A q \in Ports \ {h.port} : leases'[q] = leases[q]
    BY <1>2, <1>3, <1>4 DEF IInv, TypeOK
<1>7. TypeOK'
    BY <1>3, <1>4, <1>5, <1>6 DEF IInv, TypeOK
<1>8. \A q \in Held' : leases'[q].last_heartbeat_ms <= h.now
    BY <1>1, <1>4, <1>6 DEF Held, Timely, Handler
<1>9. \A n \in {clock, h.now} : PromisesFrom(n) => PromisesFrom(n)'
    BY <1>2, <1>3, <1>6 DEF PromisesFrom
<1>10. h.now \in Nat /\ clock \in Nat /\ h.now <= clock
    BY <1>1 DEF Handler, Timely, IInv, TypeOK
<1>11. \A q \in Held' : leases'[q].last_heartbeat_ms <= clock'
  <2> SUFFICES ASSUME NEW q \in Held' PROVE leases'[q].last_heartbeat_ms <= clock
      BY <1>3
  <2>1. leases'[q].last_heartbeat_ms \in Nat
      BY <1>6 DEF Held, LeaseRecord
  <2> QED
      BY <2>1, <1>8, <1>10
<1>12. Timely(r)'
    BY <1>1, <1>3, <1>5, <1>8, <1>9 DEF Timely, Handler, PromisesFrom
<1>13. Knows(handler[r])'
    BY <1>1, <1>2, <1>4, <1>5, <1>6 DEF Knows, Handler
<1>14. PromisesFrom(clock)'
    BY <1>3, <1>9 DEF IInv, PromisesFrom
<1> QED
    BY <1>1, <1>5, <1>7, <1>11, <1>12, <1>13, <1>14, IInvFromParts

LEMMA CountReclaimIInv ==
    ASSUME IInv, NEW r \in Requests, CountReclaim(r)
    PROVE  IInv'
<1> DEFINE h == handler[r]
           pc == AfterReclaim(h)
<1>1. Busy(r) /\ h \in Handler /\ Timely(r) /\ Knows(h) /\ h.pc = "countReclaim"
    BY DEF IInv, TypeOK, HandlersKnow, Busy, CountReclaim, At
<1>2. pc \in {"sweep", "claim"} /\ (pc = "claim" <=> h.op # "sweep")
    BY DEF AfterReclaim
<1>3. /\ handler' \in [Requests -> Handler]
      /\ handler'[r] = [h EXCEPT !.pc = pc]
      /\ \A s \in Requests \ {r} : handler'[s] = handler[s]
    BY <1>2, GotoHandler DEF IInv, TypeOK, Phases, CountReclaim
<1>4. metrics' \in [allocations : Nat, reclaims : Nat, releases : Nat]
      /\ UNCHANGED <<leases, cursor_port, clock, minted, told, crashes>>
    BY DEF CountReclaim, IInv, TypeOK
<1> HIDE DEF pc
<1>5. TypeOK'
    BY <1>3, <1>4 DEF IInv, TypeOK
<1>6. PromisesFrom(clock)' /\ \A q \in Held' : leases'[q].last_heartbeat_ms <= clock'
    BY <1>4 DEF IInv, PromisesFrom, Held
<1>7. Timely(r)'
    BY <1>1, <1>3, <1>4 DEF Timely, PromisesFrom, Held, Handler
<1>8. Knows(handler[r])'
    BY <1>1, <1>2, <1>3, <1>4 DEF Knows, Handler
<1> QED
    BY <1>1, <1>3, <1>5, <1>6, <1>7, <1>8, IInvFromParts

LEMMA MarkReclaimingIInv ==
    ASSUME IInv, NEW r \in Requests, MarkReclaiming(r)
    PROVE  IInv'
<1> DEFINE h == handler[r]
<1>1. Busy(r) /\ h \in Handler /\ Timely(r) /\ Knows(h) /\ h.pc = "mark"
    BY DEF IInv, TypeOK, HandlersKnow, Busy, MarkReclaiming, At
<1>2. UNCHANGED <<cursor_port, metrics, clock, minted, told, crashes>>
    BY DEF MarkReclaiming
<1>3. CASE UNCHANGED leases
  <2>1. PICK pc \in {"sweep", "claim", "scan", "delete"} :
            /\ Goto(r, pc)
            /\ pc = "claim" => leases[h.port] = NoLease /\ h.op # "sweep"
            /\ pc = "scan" => h.op # "sweep"
            /\ pc = "sweep" => h.op = "sweep"
            /\ pc = "delete" => leases[h.port] # NoLease /\ isLeaseExpired(leases[h.port], h.now)
      BY DEF MarkReclaiming, AfterReclaim, AfterSkip, IsCurrent
  <2>2. /\ handler' \in [Requests -> Handler]
        /\ handler'[r] = [h EXCEPT !.pc = pc]
        /\ \A s \in Requests \ {r} : handler'[s] = handler[s]
    <3>1. pc \in Phases /\ Goto(r, pc)
        BY <2>1 DEF Phases
    <3>2. handler \in [Requests -> Handler]
        BY DEF IInv, TypeOK
    <3> QED
        BY <3>1, <3>2, GotoHandler
  <2>3. TypeOK'
      BY <1>2, <1>3, <2>2 DEF IInv, TypeOK
  <2>4. PromisesFrom(clock)' /\ \A q \in Held' : leases'[q].last_heartbeat_ms <= clock'
      BY <1>2, <1>3 DEF IInv, PromisesFrom, Held
  <2>5. Timely(r)'
      BY <1>1, <1>2, <1>3, <2>2 DEF Timely, PromisesFrom, Held, Handler
  <2>6. Knows(handler[r])'
      BY <1>1, <1>2, <1>3, <2>1, <2>2 DEF Knows, Handler, isLeaseExpired
  <2> QED
      BY <1>1, <2>2, <2>3, <2>4, <2>5, <2>6, IInvFromParts
<1>4. CASE ~UNCHANGED leases
  <2>1. /\ leases' = [leases EXCEPT ![h.port].status = "reclaiming"]
        /\ leases[h.port] # NoLease
        /\ isLeaseExpired(leases[h.port], h.now)
        /\ Goto(r, "delete")
      BY <1>4 DEF MarkReclaiming, IsCurrent
  <2>2. /\ handler' \in [Requests -> Handler]
        /\ handler'[r] = [h EXCEPT !.pc = "delete"]
        /\ \A s \in Requests \ {r} : handler'[s] = handler[s]
    <3>1. "delete" \in Phases /\ Goto(r, "delete")
        BY <2>1 DEF Phases
    <3>2. handler \in [Requests -> Handler]
        BY DEF IInv, TypeOK
    <3> QED
        BY <3>1, <3>2, GotoHandler
  <2>3. /\ h.port \in Ports /\ leases[h.port] \in LeaseRecord
      BY <1>1, <2>1 DEF Handler, IInv, TypeOK
  <2>4. /\ leases'[h.port] \in LeaseRecord
        /\ leases'[h.port].tenant_id = leases[h.port].tenant_id
        /\ leases'[h.port].last_heartbeat_ms = leases[h.port].last_heartbeat_ms
        /\ leases'[h.port].port = leases[h.port].port
        /\ \A q \in Ports \ {h.port} : leases'[q] = leases[q]
        /\ leases' \in [Ports -> LeaseRecord \cup {NoLease}]
      BY <2>1, <2>3 DEF IInv, TypeOK, LeaseRecord
  <2>5. \A q \in Ports :
            /\ (leases'[q] # NoLease) = (leases[q] # NoLease)
            /\ leases[q] # NoLease =>
                  /\ leases'[q].tenant_id = leases[q].tenant_id
                  /\ leases'[q].last_heartbeat_ms = leases[q].last_heartbeat_ms
                  /\ leases'[q].port = leases[q].port
      BY <2>1, <2>4, AbsentAssumption
  <2>6. TypeOK'
      BY <1>2, <2>2, <2>4, <2>5 DEF IInv, TypeOK
  <2>7. PromisesFrom(clock)' /\ \A q \in Held' : leases'[q].last_heartbeat_ms <= clock'
      BY <1>2, <2>5 DEF IInv, PromisesFrom, Held
  <2>8. Timely(r)'
      BY <1>1, <1>2, <2>2, <2>5 DEF Timely, PromisesFrom, Held, Handler
  <2>9. Knows(handler[r])'
      BY <1>1, <1>2, <2>1, <2>2, <2>3, <2>5 DEF Knows, Handler, isLeaseExpired
  <2> QED
      BY <1>1, <2>2, <2>6, <2>7, <2>8, <2>9, IInvFromParts
<1> QED
    BY <1>3, <1>4

LEMMA SweepVisitIInv ==
    ASSUME IInv, NEW r \in Requests, NEW lease \in handler[r].todo, SweepVisit(r, lease)
    PROVE  IInv'
<1> DEFINE h == handler[r]
           pc == IF isLeaseExpired(lease, h.now) THEN "mark" ELSE "sweep"
           g == [h EXCEPT !.todo = @ \ {lease}, !.port = lease.port, !.seen = lease, !.pc = pc]
<1>1. Busy(r) /\ h \in Handler /\ Timely(r) /\ Knows(h) /\ h.pc = "sweep"
    BY DEF IInv, TypeOK, HandlersKnow, Busy, SweepVisit, At
<1>2. pc \in {"mark", "sweep"}
    OBVIOUS
<1>3. /\ handler' = [handler EXCEPT ![r] = g]
      /\ UNCHANGED <<leases, cursor_port, metrics, clock, minted, told, crashes>>
    BY DEF SweepVisit, IInv, TypeOK
<1>4. lease \in LeaseRecord
    BY <1>1 DEF Handler
<1> HIDE DEF pc
<1>5. /\ g \in Handler /\ g.pc = pc /\ g.now = h.now /\ g.op = h.op
    BY <1>1, <1>2, <1>4 DEF Handler, Phases, LeaseRecord
<1> HIDE DEF g
<1>6. /\ handler' \in [Requests -> Handler]
      /\ handler'[r] = g
      /\ \A s \in Requests \ {r} : handler'[s] = handler[s]
    BY <1>3, <1>5 DEF IInv, TypeOK
<1>7. TypeOK'
    BY <1>3, <1>6 DEF IInv, TypeOK
<1>8. PromisesFrom(clock)' /\ \A q \in Held' : leases'[q].last_heartbeat_ms <= clock'
    BY <1>3 DEF IInv, PromisesFrom, Held
<1>9. Timely(r)'
    BY <1>1, <1>3, <1>5, <1>6 DEF Timely, PromisesFrom, Held
<1>10. Knows(handler[r])'
    BY <1>1, <1>2, <1>3, <1>5, <1>6 DEF Knows
<1> QED
    BY <1>1, <1>6, <1>7, <1>8, <1>9, <1>10, IInvFromParts

\* Steps of the environment.
LEMMA EnvironmentIInv ==
    ASSUME IInv, SummaryInitCursor \/ Tick \/ \E r \in Requests : Crash(r)
    PROVE  IInv'
<1>1. CASE SummaryInitCursor
  <2>1. /\ cursor_port' \in Ports
        /\ UNCHANGED <<leases, metrics, clock, handler, minted, told, crashes>>
      BY <1>1, ConfigAssumption DEF SummaryInitCursor, Ports
  <2>2. \A r \in Requests : ~Busy(r)'
      BY <1>1 DEF SummaryInitCursor, blockConcurrencyWhile, Busy
  <2> QED
      BY <2>1, <2>2 DEF IInv, TypeOK, Alone, HandlersKnow, PromisesFrom, Held
<1>2. CASE Tick
  <2>1. /\ clock' = clock + 1 /\ clock \in Nat \ {0}
        /\ UNCHANGED <<leases, cursor_port, metrics, handler, minted, told, crashes>>
      BY <1>2 DEF Tick, IInv, TypeOK
  <2>2. TypeOK' /\ Alone'
      BY <2>1 DEF IInv, TypeOK, Alone, Busy
  <2>3. \A q \in Held' : leases'[q].last_heartbeat_ms <= clock'
    <3> SUFFICES ASSUME NEW q \in Held PROVE leases[q].last_heartbeat_ms <= clock + 1
        BY <2>1 DEF Held
    <3>1. leases[q].last_heartbeat_ms \in Nat /\ leases[q].last_heartbeat_ms <= clock
        BY DEF IInv, TypeOK, Held, LeaseRecord
    <3> QED
        BY <2>1, <3>1
  <2>4. PromisesFrom(clock)'
    <3> SUFFICES ASSUME NEW t \in Tenants, NEW p \in Ports, told[t][p] >= clock + 1
                 PROVE  /\ leases[p] # NoLease
                        /\ leases[p].tenant_id = t
                        /\ told[t][p] <= leases[p].last_heartbeat_ms + Term
        BY <2>1 DEF PromisesFrom
    <3>1. told[t][p] >= clock
        BY <2>1 DEF IInv, TypeOK
    <3> QED
        BY <3>1 DEF IInv, PromisesFrom
  <2>5. HandlersKnow'
    <3> SUFFICES ASSUME NEW r \in Requests, Busy(r)
                 PROVE  Timely(r)' /\ Knows(handler[r])'
        BY <2>1 DEF HandlersKnow, Busy
    <3>1. Timely(r) /\ Knows(handler[r]) /\ handler[r] \in Handler
        BY DEF IInv, TypeOK, HandlersKnow
    <3>2. Knows(handler[r])'
        BY <2>1, <3>1 DEF Knows, isLeaseExpired
    <3>3. handler[r].now <= clock + 1
        BY <2>1, <3>1 DEF Timely, Handler
    <3> QED
        BY <2>1, <3>1, <3>2, <3>3 DEF Timely, PromisesFrom, Held
  <2> QED
      BY <2>2, <2>3, <2>4, <2>5 DEF IInv
<1>3. CASE \E r \in Requests : Crash(r)
  <2>1. /\ handler' = [s \in Requests |-> Idle]
        /\ crashes' = crashes + 1
        /\ UNCHANGED <<leases, cursor_port, metrics, clock, minted, told>>
      BY <1>3 DEF Crash
  <2>2. \A r \in Requests : ~Busy(r)'
      BY <2>1 DEF Busy, Idle
  <2>3. TypeOK'
      BY <2>1, IdleIsHandler DEF IInv, TypeOK
  <2> QED
      BY <2>1, <2>2, <2>3 DEF IInv, Alone, HandlersKnow, PromisesFrom, Held
<1> QED
    BY <1>1, <1>2, <1>3

LEMMA NextIInv == IInv /\ [Next]_vars => IInv'
<1> SUFFICES ASSUME IInv, [Next]_vars PROVE IInv'
    OBVIOUS
<1>1. ASSUME NEW r \in Requests, Start(r) PROVE IInv'
    BY <1>1, AllocateStartIInv, HeartbeatStartIInv, ReleaseStartIInv, SweepStartIInv DEF Start
<1>2. ASSUME NEW r \in Requests, Continue(r) PROVE IInv'
    BY <1>2, InitCursorIInv, ScanFoundIInv, ScanExhaustedIInv, AnswerExhaustedIInv,
       ClaimPortIInv, SetCursorIInv, CountAllocationIInv, MarkReclaimingIInv,
       DeleteReclaimedIInv, CountReclaimIInv, PutExpiredIInv, PutHeartbeatIInv,
       DeleteReleasedIInv, CountReleaseIInv, SweepVisitIInv, SweepEndIInv DEF Continue
<1>3. CASE UNCHANGED vars
    BY <1>3 DEF vars, IInv, TypeOK, Alone, HandlersKnow, PromisesFrom, Held, Busy,
                Timely, Knows, isLeaseExpired
<1> QED
    BY <1>1, <1>2, <1>3, EnvironmentIInv DEF Next

-----------------------------------------------------------------------------
(* The theorems.                                                           *)

\* The inductive invariant holds of every behaviour.
THEOREM AllocatorInvariant == Spec => []IInv
BY InitIInv, NextIInv, PTL DEF Spec

\* Stored leases, the cursor, the counters and the handlers keep their types:
\* the cursor never leaves the range and a record lies under its own port.
THEOREM AllocatorTypes == Spec => []TypeOK
<1>1. IInv => TypeOK
    BY DEF IInv
<1> QED
    BY <1>1, AllocatorInvariant, PTL

\* No tenant is ever left with a promise the stored lease does not back,
\* whatever requests, evictions and sweeps happen.
THEOREM AllocatorKeepsPromises == Spec => []PromiseKept
<1>1. IInv => PromiseKept
    BY DEF IInv, PromisesFrom, PromiseKept, MayUse
<1> QED
    BY <1>1, AllocatorInvariant, PTL

\* An answer to the tenant is a step PortLeasing allows: nobody else may use the
\* port, and the new promise is not shorter than one the tenant has.
LEMMA AnswerIsPromise ==
    ASSUME IInv, NEW r \in Requests, Busy(r), UNCHANGED clock, Answer(r),
           handler[r].tenant \in Tenants,
           leases[handler[r].port] # NoLease,
           leases[handler[r].port].tenant_id = handler[r].tenant
    PROVE  \/ Leasing!Promise(handler[r].tenant, handler[r].port)
           \/ UNCHANGED <<told, clock>>
<1> DEFINE t == handler[r].tenant
           p == handler[r].port
           until == handler[r].now + Term
<1>1. /\ Timely(r) /\ p \in Ports /\ handler[r].now \in Nat /\ clock \in Nat
      /\ leases[p] \in LeaseRecord /\ told[t][p] \in Nat /\ Term \in Nat
    BY ConfigAssumption DEF IInv, TypeOK, HandlersKnow, Handler, Term
<1>2. \A s \in Tenants \ {t} : ~Leasing!MayUse(s, p)
    BY <1>1 DEF IInv, PromisesFrom, Leasing!MayUse
<1>3. until \in told[t][p] .. clock + Term
  <2>1. until <= clock + Term
      BY <1>1 DEF Timely
  <2>2. CASE told[t][p] < handler[r].now
      BY <1>1, <2>1, <2>2
  <2>3. CASE told[t][p] >= handler[r].now
    <3>1. /\ told[t][p] <= leases[p].last_heartbeat_ms + Term
          /\ leases[p].last_heartbeat_ms <= handler[r].now
        BY <1>1, <2>3 DEF Timely, PromisesFrom, Held
    <3> QED
        BY <1>1, <2>1, <3>1 DEF LeaseRecord
  <2> QED
      BY <1>1, <2>2, <2>3
<1> QED
    BY <1>2, <1>3 DEF Answer, Leasing!Promise

\* Every step of the allocator is a step of PortLeasing or changes nothing there.
LEMMA StepImplementsLeasing ==
    IInv /\ [Next]_vars => [Leasing!PromiseNext]_<<told, clock>>
<1> SUFFICES ASSUME IInv, [Next]_vars, ~UNCHANGED <<told, clock>>
             PROVE  Leasing!PromiseNext
    OBVIOUS
<1>1. CASE Tick
    BY <1>1 DEF Tick, Leasing!PromiseNext, Leasing!PassTime
<1>2. ASSUME NEW r \in Requests, NEW t \in Tenants, NEW id \in 1 .. minted, NEW p \in Ports,
             ReleaseStart(r, t, id, p)
      PROVE  Leasing!PromiseNext
    BY <1>2 DEF ReleaseStart, Leasing!PromiseNext, Leasing!GiveUp
<1>3. ASSUME NEW r \in Requests, CountAllocation(r) \/ PutHeartbeat(r)
      PROVE  Leasing!PromiseNext
  <2>1. Busy(r) /\ Knows(handler[r]) /\ handler[r] \in Handler /\ Answer(r) /\ UNCHANGED clock
      BY <1>3 DEF CountAllocation, PutHeartbeat, At, Busy, IInv, TypeOK, HandlersKnow
  <2>2. leases[handler[r].port] \in LeaseRecord \cup {NoLease}
      BY <2>1 DEF IInv, TypeOK, Handler
  <2>3. /\ leases[handler[r].port] # NoLease
        /\ leases[handler[r].port].tenant_id = handler[r].tenant
      BY <1>3, <2>1 DEF CountAllocation, PutHeartbeat, At, Knows
  <2>4. handler[r].tenant \in Tenants
      BY <2>2, <2>3 DEF LeaseRecord
  <2>5. Leasing!Promise(handler[r].tenant, handler[r].port)
      BY <2>1, <2>3, <2>4, AnswerIsPromise
  <2> QED
      BY <2>1, <2>4, <2>5 DEF Leasing!PromiseNext, Handler
<1>4. UNCHANGED <<told, clock>> \/ Tick
      \/ (\E r \in Requests, t \in Tenants, id \in 1 .. minted, p \in Ports :
             ReleaseStart(r, t, id, p))
      \/ (\E r \in Requests : CountAllocation(r) \/ PutHeartbeat(r))
  <2>1. ASSUME NEW r \in Requests, Start(r) PROVE
           UNCHANGED <<told, clock>>
             \/ \E t \in Tenants, id \in 1 .. minted, p \in Ports : ReleaseStart(r, t, id, p)
      BY <2>1 DEF Start, AllocateStart, HeartbeatStart, SweepStart
  <2>2. ASSUME NEW r \in Requests, Continue(r) PROVE
           UNCHANGED <<told, clock>> \/ CountAllocation(r) \/ PutHeartbeat(r)
      BY <2>2 DEF Continue, InitCursor, ScanFound, ScanExhausted, AnswerExhausted, ClaimPort,
                  SetCursor, MarkReclaiming, DeleteReclaimed, CountReclaim, PutExpired,
                  DeleteReleased, CountRelease, SweepVisit, SweepEnd
  <2>3. ASSUME NEW r \in Requests, Crash(r) PROVE UNCHANGED <<told, clock>>
      BY <2>3 DEF Crash
  <2>4. CASE SummaryInitCursor \/ UNCHANGED vars
      BY <2>4 DEF SummaryInitCursor, vars
  <2> QED
      BY <2>1, <2>2, <2>3, <2>4 DEF Next
<1> QED
    BY <1>1, <1>2, <1>3, <1>4

\* Tenants see a service that grants each port to one tenant at a time: the
\* storage-level allocator implements PortLeasing.
THEOREM AllocatorImplementsLeasing == Spec => LeasingSpec
<1>1. Init => Leasing!PromiseInit
    BY DEF Init, Leasing!PromiseInit
<1> QED
    BY <1>1, StepImplementsLeasing, AllocatorInvariant, PTL
       DEF Spec, LeasingSpec, Leasing!PromiseSpec, Leasing!promiseVars

\* A step leaves every lease alone or is a write of a handler that goes on.
LEMMA WhoWrites ==
    ASSUME [Next]_vars
    PROVE  \/ UNCHANGED leases
           \/ \E r \in Requests :
                 /\ Continue(r)
                 /\ \/ ClaimPort(r) \/ MarkReclaiming(r) \/ DeleteReclaimed(r)
                    \/ PutExpired(r) \/ PutHeartbeat(r) \/ DeleteReleased(r)
<1>1. ASSUME NEW r \in Requests, Start(r) PROVE UNCHANGED leases
    BY <1>1 DEF Start, AllocateStart, HeartbeatStart, ReleaseStart, SweepStart
<1>2. ASSUME NEW r \in Requests, Continue(r)
      PROVE  \/ UNCHANGED leases
             \/ ClaimPort(r) \/ MarkReclaiming(r) \/ DeleteReclaimed(r)
             \/ PutExpired(r) \/ PutHeartbeat(r) \/ DeleteReleased(r)
    BY <1>2 DEF Continue, InitCursor, ScanFound, ScanExhausted, AnswerExhausted,
                SetCursor, CountAllocation, CountReclaim, CountRelease, SweepVisit, SweepEnd
<1>3. ASSUME NEW r \in Requests, Crash(r) PROVE UNCHANGED leases
    BY <1>3 DEF Crash
<1>4. CASE SummaryInitCursor \/ Tick \/ UNCHANGED vars
    BY <1>4 DEF SummaryInitCursor, Tick, vars
<1> QED
    BY <1>1, <1>2, <1>3, <1>4 DEF Next

LEMMA StepEndsByOwner ==
    ASSUME IInv, [Next]_vars, NEW p \in Held
    PROVE  \/ leases'[p] # NoLease /\ leases'[p].lease_id = leases[p].lease_id
           \/ isLeaseExpired(leases[p], clock)
           \/ \E r \in Requests : /\ handler[r].op = "release"
                                  /\ handler[r].tenant = leases[p].tenant_id
                                  /\ handler[r].seen.lease_id = leases[p].lease_id
<1> DEFINE Kept == leases'[p] # NoLease /\ leases'[p].lease_id = leases[p].lease_id
           Writes(r) == \/ ClaimPort(r) \/ MarkReclaiming(r) \/ DeleteReclaimed(r)
                        \/ PutExpired(r) \/ PutHeartbeat(r) \/ DeleteReleased(r)
<1>1. p \in Ports /\ leases[p] # NoLease /\ leases[p] \in LeaseRecord
    BY DEF Held, IInv, TypeOK
<1>2. UNCHANGED leases \/ \E r \in Requests : Writes(r)
    BY WhoWrites
<1>3. CASE UNCHANGED leases
    BY <1>1, <1>3
<1>4. ASSUME NEW r \in Requests, Writes(r), leases'[p] # leases[p] PROVE
         Kept \/ isLeaseExpired(leases[p], clock)
              \/ ( /\ handler[r].op = "release"
                   /\ handler[r].tenant = leases[p].tenant_id
                   /\ handler[r].seen.lease_id = leases[p].lease_id )
  <2> DEFINE h == handler[r]
  <2>1. Busy(r) /\ Timely(r) /\ Knows(h) /\ h \in Handler
      BY <1>4 DEF IInv, TypeOK, HandlersKnow, Busy, ClaimPort, MarkReclaiming,
                  DeleteReclaimed, PutExpired, PutHeartbeat, DeleteReleased, At
  <2>2. CASE ClaimPort(r)
      BY <1>1, <1>4, <2>1, <2>2 DEF ClaimPort, At, Knows, IInv, TypeOK
  <2>3. CASE MarkReclaiming(r)
    <3>1. leases' = [leases EXCEPT ![h.port].status = "reclaiming"]
        BY <1>4, <2>3 DEF MarkReclaiming
    <3>2. leases'[p] = [leases[p] EXCEPT !.status = "reclaiming"]
        BY <1>1, <1>4, <3>1 DEF IInv, TypeOK
    <3> QED
        BY <1>1, <3>2, AbsentAssumption DEF LeaseRecord
  <2>4. CASE DeleteReclaimed(r)
      BY <1>1, <1>4, <2>1, <2>4, ConfigAssumption
         DEF DeleteReclaimed, At, Knows, Timely, isLeaseExpired, IInv, TypeOK, Handler,
             LeaseRecord, Term
  <2>5. CASE PutExpired(r)
      BY <1>1, <1>4, <2>1, <2>5, AbsentAssumption
         DEF PutExpired, At, Knows, IInv, TypeOK, LeaseRecord
  <2>6. CASE PutHeartbeat(r)
    <3>1. leases'[p] = [leases[p] EXCEPT !.last_heartbeat_ms = h.now, !.status = "active"]
      <4>1. h.seen = leases[h.port] /\ h.port \in Ports
          BY <2>1, <2>6 DEF PutHeartbeat, At, Knows, Handler
      <4>2. leases' = [leases EXCEPT ![h.port] =
                         [h.seen EXCEPT !.last_heartbeat_ms = h.now, !.status = "active"]]
          BY <2>6 DEF PutHeartbeat
      <4>3. leases \in [Ports -> LeaseRecord \cup {NoLease}]
          BY DEF IInv, TypeOK
      <4> QED
          BY <1>1, <1>4, <4>1, <4>2, <4>3
    <3>2. h.now \in Nat
        BY <2>1 DEF Handler
    <3>3. leases'[p].lease_id = leases[p].lease_id /\ leases'[p] \in LeaseRecord
        BY <1>1, <3>1, <3>2 DEF LeaseRecord
    <3> QED
        BY <3>3, AbsentAssumption
  <2>7. CASE DeleteReleased(r)
      BY <1>1, <1>4, <2>1, <2>7 DEF DeleteReleased, At, Knows, IInv, TypeOK
  <2> QED
      BY <1>4, <2>2, <2>3, <2>4, <2>5, <2>6, <2>7
<1> QED
    BY <1>1, <1>2, <1>3, <1>4

\* A lease in force ends only by expiry or by its own tenant's release.
THEOREM AllocatorLeaseEndsByOwner == Spec => LeaseEndsByOwner
<1> DEFINE A == \A p \in Held :
                  \/ leases'[p] # NoLease /\ leases'[p].lease_id = leases[p].lease_id
                  \/ isLeaseExpired(leases[p], clock)
                  \/ \E r \in Requests : /\ handler[r].op = "release"
                                         /\ handler[r].tenant = leases[p].tenant_id
                                         /\ handler[r].seen.lease_id = leases[p].lease_id
<1>1. IInv /\ [Next]_vars => [A]_vars
    BY StepEndsByOwner
<1> QED
    BY <1>1, AllocatorInvariant, PTL DEF Spec, LeaseEndsByOwner

-----------------------------------------------------------------------------
(* Who is in progress, and what a step changes.                            *)

\* While a handler runs or starts, every other one is idle before and after.
LEMMA OthersIdle ==
    ASSUME IInv, NEW r \in Requests, Start(r) \/ Continue(r)
    PROVE  /\ \A s \in Requests \ {r} : handler[s].pc = "idle" /\ handler'[s].pc = "idle"
           /\ UNCHANGED <<clock, crashes>>
<1>1. \A s \in Requests \ {r} : handler[s].pc = "idle"
  <2>1. CASE Start(r)
      BY <2>1 DEF Start, AllocateStart, HeartbeatStart, ReleaseStart, SweepStart,
                  blockConcurrencyWhile
  <2>2. CASE Continue(r)
    <3>1. Busy(r)
        BY <2>2 DEF Continue, InitCursor, ScanFound, ScanExhausted, AnswerExhausted, ClaimPort,
                    SetCursor, CountAllocation, MarkReclaiming, DeleteReclaimed, CountReclaim,
                    PutExpired, PutHeartbeat, DeleteReleased, CountRelease, SweepVisit,
                    SweepEnd, At, Busy
    <3> QED
        BY <3>1 DEF IInv, Alone, Busy
  <2> QED
      BY <2>1, <2>2
<1>2. UNCHANGED <<clock, crashes>>
    BY DEF Start, AllocateStart, HeartbeatStart, ReleaseStart, SweepStart,
           Continue, InitCursor, ScanFound, ScanExhausted, AnswerExhausted, ClaimPort,
           SetCursor, CountAllocation, MarkReclaiming, DeleteReclaimed, CountReclaim,
           PutExpired, PutHeartbeat, DeleteReleased, CountRelease, SweepVisit, SweepEnd
<1>3. \E h : handler' = [handler EXCEPT ![r] = h]
  <2>1. CASE Start(r)
      BY <2>1 DEF Start, AllocateStart, HeartbeatStart, ReleaseStart, SweepStart
  <2>2. CASE Continue(r)
      BY <2>2 DEF Continue, InitCursor, ScanFound, ScanExhausted, AnswerExhausted, ClaimPort,
                  SetCursor, CountAllocation, MarkReclaiming, DeleteReclaimed, CountReclaim,
                  PutExpired, PutHeartbeat, DeleteReleased, CountRelease, SweepVisit,
                  SweepEnd, Goto, Finish
  <2> QED
      BY <2>1, <2>2
<1>4. \A s \in Requests \ {r} : handler'[s] = handler[s]
    BY <1>3 DEF IInv, TypeOK
<1> QED
    BY <1>1, <1>2, <1>4

LEMMA ClockGrows ==
    ASSUME IInv, [Next]_vars
    PROVE  clock \in Nat /\ clock' \in Nat /\ clock <= clock'
<1>1. clock \in Nat
    BY DEF IInv, TypeOK
<1>2. ASSUME NEW r \in Requests, Start(r) \/ Continue(r) PROVE clock' = clock
    BY <1>2, OthersIdle
<1> QED
    BY <1>1, <1>2 DEF Next, Crash, SummaryInitCursor, Tick, vars

-----------------------------------------------------------------------------
(* What the status of a lease says.                                        *)

LEMMA RenewsActiveStep ==
    ASSUME IInv, StatusAgrees, RenewsActive, [Next]_vars
    PROVE  RenewsActive'
<1>1. ASSUME NEW r \in Requests, Continue(r) PROVE RenewsActive'
  <2>1. handler'[r].pc # "putHeartbeat"
    <3>1. handler \in [Requests -> Handler]
        BY DEF IInv, TypeOK
    <3>2. CASE \/ InitCursor(r) \/ ScanExhausted(r) \/ ClaimPort(r) \/ SetCursor(r)
               \/ MarkReclaiming(r) \/ DeleteReclaimed(r) \/ CountReclaim(r)
               \/ DeleteReleased(r)
      <4>1. PICK pc \in Phases : Goto(r, pc) \/ (Finish(r) /\ pc # "putHeartbeat")
          BY <3>2 DEF InitCursor, ScanExhausted, ClaimPort, SetCursor, MarkReclaiming,
                      DeleteReclaimed, CountReclaim, DeleteReleased, AfterReclaim, AfterSkip,
                      Phases
      <4> QED
          BY <3>1, <3>2, <4>1, GotoHandler, FinishHandler
             DEF InitCursor, ScanExhausted, ClaimPort, SetCursor, MarkReclaiming,
                 DeleteReclaimed, CountReclaim, DeleteReleased, AfterReclaim, AfterSkip,
                 Goto, Idle, Handler
    <3>3. CASE \/ AnswerExhausted(r) \/ CountAllocation(r) \/ PutExpired(r)
               \/ PutHeartbeat(r) \/ CountRelease(r) \/ SweepEnd(r)
        BY <3>1, <3>3, FinishHandler
           DEF AnswerExhausted, CountAllocation, PutExpired, PutHeartbeat, CountRelease,
               SweepEnd, Idle
    <3>4. ASSUME NEW i \in Attempts, ScanFound(r, i) PROVE handler'[r].pc # "putHeartbeat"
        BY <3>1, <3>4 DEF ScanFound, Handler
    <3>5. ASSUME NEW lease, SweepVisit(r, lease) PROVE handler'[r].pc # "putHeartbeat"
        BY <3>1, <3>5 DEF SweepVisit, Handler
    <3> QED
        BY <1>1, <3>2, <3>3, <3>4, <3>5 DEF Continue
  <2> QED
      BY <1>1, <2>1, OthersIdle DEF RenewsActive, At
<1>2. ASSUME NEW r \in Requests, Start(r) PROVE RenewsActive'
  <2> SUFFICES ASSUME handler'[r].pc = "putHeartbeat"
               PROVE  leases'[handler'[r].port].status = "active"
      BY <1>2, OthersIdle DEF RenewsActive, At
  <2>1. handler \in [Requests -> Handler] /\ Idle \in Handler /\ clock \in Nat
      BY IdleIsHandler DEF IInv, TypeOK
  <2>2. PICK t \in Tenants, id \in 1 .. minted, p \in Ports : HeartbeatStart(r, t, id, p)
    <3>1. ASSUME NEW t \in Tenants PROVE ~AllocateStart(r, t)
        BY <2>1 DEF AllocateStart, Begin, Idle
    <3>2. ASSUME NEW t \in Tenants, NEW id \in 1 .. minted, NEW p \in Ports
          PROVE  ~ReleaseStart(r, t, id, p)
        BY <2>1 DEF ReleaseStart, Begin, Named, Idle
    <3>3. ~SweepStart(r)
        BY <2>1 DEF SweepStart, Begin, Idle
    <3> QED
        BY <1>2, <3>1, <3>2, <3>3 DEF Start
  <2>3. /\ handler'[r].port = p /\ handler'[r].pc = Verdict(p)
        /\ UNCHANGED leases /\ leases[p] # NoLease
      BY <2>1, <2>2 DEF HeartbeatStart, Named, Begin, Idle, Owns
  <2>4. ~isLeaseExpired(leases[p], clock)
      BY <2>3 DEF Verdict
  <2>5. leases[p] \in LeaseRecord /\ p \in Held
      BY <2>3 DEF IInv, TypeOK, Held
  <2> QED
      BY <2>3, <2>4, <2>5 DEF StatusAgrees, LeaseRecord
<1>3. ASSUME NEW r \in Requests, Crash(r) PROVE RenewsActive'
    BY <1>3 DEF Crash, RenewsActive, At, Idle
<1>4. CASE SummaryInitCursor \/ Tick \/ UNCHANGED vars
    BY <1>4 DEF SummaryInitCursor, Tick, vars, RenewsActive, At
<1> QED
    BY <1>1, <1>2, <1>3, <1>4 DEF Next

LEMMA StatusStep ==
    ASSUME IInv, StatusAgrees, RenewsActive, [Next]_vars
    PROVE  StatusAgrees'
<1> SUFFICES ASSUME NEW p \in Held', leases'[p].status \in {"expired", "reclaiming"}
             PROVE  isLeaseExpired(leases'[p], clock')
    BY DEF StatusAgrees
<1>1. /\ clock \in Nat /\ clock' \in Nat /\ clock <= clock' /\ Term \in Nat
      /\ p \in Ports /\ leases'[p] # NoLease /\ leases[p] \in LeaseRecord \cup {NoLease}
    BY ClockGrows, ConfigAssumption DEF Held, IInv, TypeOK, Term
<1>2. CASE leases'[p] = leases[p]
  <2>1. p \in Held /\ isLeaseExpired(leases[p], clock) /\ leases[p].last_heartbeat_ms \in Nat
      BY <1>1, <1>2 DEF Held, StatusAgrees, LeaseRecord
  <2> QED
      BY <1>1, <1>2, <2>1 DEF isLeaseExpired
<1>3. ASSUME NEW r \in Requests, Continue(r), leases'[p] # leases[p],
             \/ ClaimPort(r) \/ MarkReclaiming(r) \/ DeleteReclaimed(r)
             \/ PutExpired(r) \/ PutHeartbeat(r) \/ DeleteReleased(r)
      PROVE  isLeaseExpired(leases'[p], clock')
  <2> DEFINE h == handler[r]
  <2>1. /\ Timely(r) /\ Knows(h) /\ h \in Handler
        /\ leases \in [Ports -> LeaseRecord \cup {NoLease}]
        /\ h.now \in Nat /\ h.now <= clock'
    <3>1. Busy(r)
        BY <1>3 DEF Busy, ClaimPort, MarkReclaiming, DeleteReclaimed, PutExpired,
                    PutHeartbeat, DeleteReleased, At
    <3> QED
        BY <1>1, <3>1 DEF IInv, TypeOK, HandlersKnow, Timely, Handler
  <2>2. CASE ClaimPort(r)
    <3>1. leases'[p].status = "active"
        BY <1>1, <1>3, <2>1, <2>2 DEF ClaimPort
    <3> QED
        BY <3>1
  <2>3. CASE MarkReclaiming(r)
    <3>1. IsCurrent(h) /\ leases' = [leases EXCEPT ![h.port].status = "reclaiming"]
        BY <1>3, <2>3 DEF MarkReclaiming
    <3>2. p = h.port /\ leases'[p] = [leases[p] EXCEPT !.status = "reclaiming"]
        BY <1>1, <1>3, <2>1, <3>1
    <3>3. isLeaseExpired(leases[p], h.now)
        BY <3>1, <3>2 DEF IsCurrent
    <3>4. leases[p] # NoLease
        BY <1>1, <2>3, <3>2, <1>3 DEF MarkReclaiming
    <3>5. leases[p] \in LeaseRecord
        BY <1>1, <3>4
    <3>6. /\ leases'[p].last_heartbeat_ms = leases[p].last_heartbeat_ms
          /\ leases[p].last_heartbeat_ms \in Nat
        BY <3>2, <3>5 DEF LeaseRecord
    <3> QED
        BY <1>1, <2>1, <3>3, <3>6 DEF isLeaseExpired
  <2>4. CASE DeleteReclaimed(r) \/ DeleteReleased(r)
      BY <1>1, <1>3, <2>1, <2>4 DEF DeleteReclaimed, DeleteReleased
  <2>5. CASE PutExpired(r)
    <3>1. /\ p = h.port /\ leases[p] # NoLease /\ h.seen = leases[p]
          /\ isLeaseExpired(leases[p], h.now)
          /\ leases'[p] = [leases[p] EXCEPT !.status = "expired"]
        BY <1>1, <1>3, <2>1, <2>5 DEF PutExpired, At, Knows
    <3>2. leases[p] \in LeaseRecord
        BY <1>1, <3>1
    <3>3. /\ leases'[p].last_heartbeat_ms = leases[p].last_heartbeat_ms
          /\ leases[p].last_heartbeat_ms \in Nat
        BY <3>1, <3>2 DEF LeaseRecord
    <3> QED
        BY <1>1, <2>1, <3>1, <3>3 DEF isLeaseExpired
  <2>6. CASE PutHeartbeat(r)
    <3>1. /\ h.seen = leases[h.port] /\ h.port \in Ports /\ leases[h.port] # NoLease
        BY <2>1, <2>6 DEF PutHeartbeat, At, Knows, Handler
    <3>2. leases[h.port] \in LeaseRecord
        BY <2>1, <3>1
    <3>3. p = h.port /\ leases'[p] =
            [leases[p] EXCEPT !.last_heartbeat_ms = h.now, !.status = "active"]
        BY <1>1, <1>3, <2>1, <2>6, <3>1 DEF PutHeartbeat
    <3>4. leases'[p].status = "active"
        BY <3>2, <3>3 DEF LeaseRecord
    <3> QED
        BY <3>4
  <2> QED
      BY <1>3, <2>2, <2>3, <2>4, <2>5, <2>6
<1> QED
    BY <1>2, <1>3, WhoWrites

\* The verdict on an expired lease is not taken back.
LEMMA StepKeepsVerdict ==
    ASSUME IInv, StatusAgrees, RenewsActive, [Next]_vars, NEW p \in Held,
           leases[p].status = "expired", leases'[p] # NoLease,
           leases'[p].lease_id = leases[p].lease_id
    PROVE  /\ leases'[p].status # "active"
           /\ leases'[p].last_heartbeat_ms = leases[p].last_heartbeat_ms
<1>1. p \in Ports /\ leases[p] # NoLease /\ leases[p] \in LeaseRecord
    BY DEF Held, IInv, TypeOK
<1>2. CASE leases'[p] = leases[p]
    BY <1>2
<1>3. ASSUME NEW r \in Requests, Continue(r), leases'[p] # leases[p],
             \/ ClaimPort(r) \/ MarkReclaiming(r) \/ DeleteReclaimed(r)
             \/ PutExpired(r) \/ PutHeartbeat(r) \/ DeleteReleased(r)
      PROVE  /\ leases'[p].status # "active"
             /\ leases'[p].last_heartbeat_ms = leases[p].last_heartbeat_ms
  <2> DEFINE h == handler[r]
  <2>1. /\ Knows(h) /\ h \in Handler /\ h.port \in Ports
        /\ leases \in [Ports -> LeaseRecord \cup {NoLease}]
    <3>1. Busy(r)
        BY <1>3 DEF Busy, ClaimPort, MarkReclaiming, DeleteReclaimed, PutExpired,
                    PutHeartbeat, DeleteReleased, At
    <3> QED
        BY <1>1, <3>1 DEF IInv, TypeOK, HandlersKnow, Handler
  <2>2. CASE ClaimPort(r)
      BY <1>1, <1>3, <2>1, <2>2 DEF ClaimPort, At, Knows
  <2>3. CASE MarkReclaiming(r)
    <3>1. leases' = [leases EXCEPT ![h.port].status = "reclaiming"]
        BY <1>3, <2>3 DEF MarkReclaiming
    <3>2. leases'[p] = [leases[p] EXCEPT !.status = "reclaiming"]
        BY <1>1, <1>3, <2>1, <3>1
    <3> QED
        BY <1>1, <3>2 DEF LeaseRecord
  <2>4. CASE DeleteReclaimed(r) \/ DeleteReleased(r)
      BY <1>1, <1>3, <2>1, <2>4 DEF DeleteReclaimed, DeleteReleased
  <2>5. CASE PutExpired(r)
    <3>1. leases'[p] = [leases[p] EXCEPT !.status = "expired"]
        BY <1>1, <1>3, <2>1, <2>5 DEF PutExpired, At, Knows
    <3> QED
        BY <1>1, <3>1 DEF LeaseRecord
  <2>6. CASE PutHeartbeat(r)
    <3>1. p = h.port
        BY <1>1, <1>3, <2>1, <2>6 DEF PutHeartbeat
    <3> QED
        BY <2>6, <3>1 DEF PutHeartbeat, RenewsActive, At
  <2> QED
      BY <1>3, <2>2, <2>3, <2>4, <2>5, <2>6
<1> QED
    BY <1>2, <1>3, WhoWrites

-----------------------------------------------------------------------------
(* The counters.                                                           *)

Counted == metrics.allocations - metrics.reclaims - metrics.releases
Owes(pc) == IF pc \in {"setCursor", "countAllocation"} THEN 1
            ELSE IF pc \in {"countReclaim", "countRelease"} THEN -1 ELSE 0

\* When all but one handler are idle there is one to count or none.
LEMMA CountOne ==
    ASSUME NEW h, NEW r \in Requests, NEW phases, "idle" \notin phases,
           \A s \in Requests \ {r} : h[s].pc = "idle"
    PROVE  Cardinality({s \in Requests : h[s].pc \in phases})
             = IF h[r].pc \in phases THEN 1 ELSE 0
<1>1. CASE h[r].pc \in phases
  <2>1. {s \in Requests : h[s].pc \in phases} = {r}
      BY <1>1
  <2> QED
      BY <1>1, <2>1, FS_Singleton
<1>2. CASE h[r].pc \notin phases
  <2>1. {s \in Requests : h[s].pc \in phases} = {}
      BY <1>2
  <2> QED
      BY <1>2, <2>1, FS_EmptySet
<1> QED
    BY <1>1, <1>2

LEMMA CountNone ==
    ASSUME NEW h, NEW phases, "idle" \notin phases, \A s \in Requests : h[s].pc = "idle"
    PROVE  Cardinality({s \in Requests : h[s].pc \in phases}) = 0
<1>1. {s \in Requests : h[s].pc \in phases} = {}
    OBVIOUS
<1> QED
    BY <1>1, FS_EmptySet

LEMMA HeldFinite ==
    /\ IsFiniteSet(Held) /\ Cardinality(Held) \in Nat
    /\ IsFiniteSet(Held') /\ Cardinality(Held') \in Nat
<1>1. IsFiniteSet(Ports)
    BY ConfigAssumption, FS_Interval DEF Ports
<1>2. Held \in SUBSET Ports /\ Held' \in SUBSET Ports
    BY DEF Held
<1> QED
    BY <1>1, <1>2, FS_Subset, FS_CardinalityType

LEMMA CountedIsInt ==
    ASSUME TypeOK
    PROVE  Counted \in Int
BY DEF TypeOK, Counted

\* The drift while nobody but r is in progress.
LEMMA DriftOfOne ==
    ASSUME IInv, NEW r \in Requests, \A s \in Requests \ {r} : handler[s].pc = "idle"
    PROVE  MetricDrift <=> Cardinality(Held) - Counted - Owes(handler[r].pc) \in -crashes .. crashes
<1>1. \A phases : "idle" \notin phases =>
        Uncounted(phases) = IF handler[r].pc \in phases THEN 1 ELSE 0
    BY CountOne DEF Uncounted
<1>2. Counted \in Int /\ Cardinality(Held) \in Nat /\ crashes \in Nat
    BY CountedIsInt, HeldFinite DEF IInv, TypeOK
<1> QED
    BY <1>1, <1>2 DEF MetricDrift, Counted, Owes

LEMMA DriftOfOneNext ==
    ASSUME IInv', NEW r \in Requests, \A s \in Requests \ {r} : handler'[s].pc = "idle"
    PROVE  MetricDrift' <=>
             Cardinality(Held') - Counted' - Owes(handler'[r].pc) \in -crashes' .. crashes'
<1>1. \A phases : "idle" \notin phases =>
        Uncounted(phases)' = IF handler'[r].pc \in phases THEN 1 ELSE 0
    BY CountOne DEF Uncounted
<1>2. Counted' \in Int /\ Cardinality(Held') \in Nat /\ crashes' \in Nat
    BY HeldFinite DEF IInv, TypeOK, Counted
<1> QED
    BY <1>1, <1>2 DEF MetricDrift, Counted, Owes

\* A step of a handler adds to the leases what it owes to the counters.
LEMMA StepOwes ==
    ASSUME IInv, NEW r \in Requests, Start(r) \/ Continue(r)
    PROVE  Cardinality(Held') - Counted' - Owes(handler'[r].pc)
             = Cardinality(Held) - Counted - Owes(handler[r].pc)
<1> DEFINE h == handler[r]
           Balanced == Cardinality(Held') - Counted' - Owes(handler'[r].pc)
                         = Cardinality(Held) - Counted - Owes(handler[r].pc)
<1>1. /\ leases \in [Ports -> LeaseRecord \cup {NoLease}]
      /\ handler \in [Requests -> Handler] /\ h \in Handler /\ Idle \in Handler
      /\ h.port \in Ports /\ h.op \in {"none", "allocate", "heartbeat", "release", "sweep"}
      /\ metrics \in [allocations : Nat, reclaims : Nat, releases : Nat]
      /\ Counted \in Int /\ Cardinality(Held) \in Nat /\ Cardinality(Held') \in Nat
    BY CountedIsInt, HeldFinite, IdleIsHandler DEF IInv, TypeOK, Handler
<1>2. ASSUME h.pc # "idle" PROVE Knows(h)
    BY <1>2 DEF IInv, HandlersKnow, Busy
<1>3. ASSUME UNCHANGED <<leases, metrics>>, Owes(handler'[r].pc) = Owes(h.pc)
      PROVE  Balanced
    BY <1>3 DEF Held, Counted
<1>4. CASE Start(r)
  <2>1. h.pc = "idle" /\ UNCHANGED <<leases, metrics>>
      BY <1>4 DEF Start, AllocateStart, HeartbeatStart, ReleaseStart, SweepStart,
                  blockConcurrencyWhile
  <2>2. handler'[r].pc \in {"initCursor", "scan", "putExpired", "putHeartbeat",
                            "deleteReleased", "sweep"}
    <3>1. ASSUME NEW t \in Tenants, AllocateStart(r, t)
          PROVE  handler'[r].pc \in {"initCursor", "scan"}
        BY <1>1, <3>1 DEF AllocateStart, Begin, Idle
    <3>2. ASSUME NEW t \in Tenants, NEW id \in 1 .. minted, NEW p \in Ports,
                 HeartbeatStart(r, t, id, p)
          PROVE  handler'[r].pc \in {"putExpired", "putHeartbeat"}
        BY <1>1, <3>2 DEF HeartbeatStart, Named, Begin, Idle, Verdict
    <3>3. ASSUME NEW t \in Tenants, NEW id \in 1 .. minted, NEW p \in Ports,
                 ReleaseStart(r, t, id, p)
          PROVE  handler'[r].pc = "deleteReleased"
        BY <1>1, <3>3 DEF ReleaseStart, Named, Begin, Idle
    <3>4. CASE SweepStart(r)
        BY <1>1, <3>4 DEF SweepStart, Begin, Idle
    <3> QED
        BY <1>4, <3>1, <3>2, <3>3, <3>4 DEF Start
  <2> QED
      BY <1>3, <2>1, <2>2 DEF Owes
<1>5. CASE InitCursor(r) \/ ScanExhausted(r) \/ SetCursor(r)
  <2>1. UNCHANGED <<leases, metrics>> /\ Owes(handler'[r].pc) = Owes(h.pc)
      BY <1>1, <1>5 DEF InitCursor, ScanExhausted, SetCursor, At, Goto, Handler, Owes
  <2> QED
      BY <1>3, <2>1
<1>6. ASSUME NEW i \in Attempts, ScanFound(r, i) PROVE Balanced
  <2>1. UNCHANGED <<leases, metrics>> /\ h.pc = "scan" /\ handler'[r].pc \in {"claim", "mark"}
      BY <1>1, <1>6 DEF ScanFound, At, Handler
  <2> QED
      BY <1>3, <2>1 DEF Owes
<1>7. ASSUME NEW lease, SweepVisit(r, lease) PROVE Balanced
  <2>1. UNCHANGED <<leases, metrics>> /\ h.pc = "sweep" /\ handler'[r].pc \in {"mark", "sweep"}
      BY <1>1, <1>7 DEF SweepVisit, At, Handler
  <2> QED
      BY <1>3, <2>1 DEF Owes
<1>8. CASE AnswerExhausted(r) \/ SweepEnd(r)
  <2>1. UNCHANGED <<leases, metrics>> /\ Owes(handler'[r].pc) = Owes(h.pc)
      BY <1>1, <1>8 DEF AnswerExhausted, SweepEnd, At, Finish, Idle, Owes
  <2> QED
      BY <1>3, <2>1
<1>9. CASE ClaimPort(r)
  <2>1. h.pc = "claim" /\ leases[h.port] = NoLease /\ UNCHANGED metrics
      BY <1>2, <1>9 DEF ClaimPort, At, Knows
  <2>2. /\ handler'[r].pc = "setCursor"
        /\ leases' = [leases EXCEPT ![h.port] =
                        [port |-> h.port, tenant_id |-> h.tenant,
                         lease_id |-> minted + 1, created_at_ms |-> h.now,
                         last_heartbeat_ms |-> h.now, status |-> "active"]]
      BY <1>1, <1>9, <2>1 DEF ClaimPort, Goto, Handler
  <2>3. leases' \in [Ports -> LeaseRecord \cup {NoLease}]
      BY <1>9, ClaimPortIInv DEF IInv, TypeOK
  <2>4. leases'[h.port] # NoLease
    <3>1. leases'[h.port].status = "active" /\ h.tenant \in Tenants
        BY <1>1, <1>2, <2>1, <2>2 DEF Knows
    <3>2. [port |-> h.port, tenant_id |-> h.tenant,
           lease_id |-> minted + 1, created_at_ms |-> h.now,
           last_heartbeat_ms |-> h.now, status |-> "active"] \in LeaseRecord
        BY <1>1, <3>1 DEF LeaseRecord, Handler, IInv, TypeOK
    <3> QED
        BY <1>1, <2>2, <3>2, AbsentAssumption
  <2>5. Held' = Held \cup {h.port} /\ h.port \notin Held
      BY <1>1, <2>1, <2>2, <2>4 DEF Held
  <2>6. Cardinality(Held') = Cardinality(Held) + 1
    <3> DEFINE p == h.port
    <3> HIDE DEF p
    <3>1. Held' = Held \cup {p} /\ p \notin Held
        BY <2>5 DEF p
    <3> QED
        BY <3>1, HeldFinite, FS_AddElement
  <2> QED
      BY <1>1, <2>1, <2>2, <2>6 DEF Owes, Counted
<1>10. CASE DeleteReclaimed(r) \/ DeleteReleased(r)
  <2>1. /\ h.pc \in {"delete", "deleteReleased"} /\ leases[h.port] # NoLease
        /\ UNCHANGED metrics
        /\ leases' = [leases EXCEPT ![h.port] = NoLease]
        /\ handler'[r].pc \in {"countReclaim", "countRelease"}
      BY <1>1, <1>2, <1>10 DEF DeleteReclaimed, DeleteReleased, At, Knows, Goto, Handler
  <2>2. Held' = Held \ {h.port} /\ h.port \in Held
      BY <1>1, <2>1 DEF Held
  <2>3. Cardinality(Held') = Cardinality(Held) - 1
    <3> DEFINE p == h.port
    <3> HIDE DEF p
    <3>1. Held' = Held \ {p} /\ p \in Held
        BY <2>2 DEF p
    <3> QED
        BY <3>1, HeldFinite, FS_RemoveElement
  <2> QED
      BY <1>1, <2>1, <2>3 DEF Owes, Counted
<1>11. CASE CountAllocation(r)
  <2>1. /\ h.pc = "countAllocation" /\ UNCHANGED leases /\ handler'[r].pc = "idle"
        /\ metrics' = [metrics EXCEPT !.allocations = @ + 1]
      BY <1>1, <1>11 DEF CountAllocation, At, Finish, Idle
  <2> QED
      BY <1>1, <2>1 DEF Owes, Counted, Held
<1>12. CASE CountReclaim(r)
  <2>1. /\ h.pc = "countReclaim" /\ UNCHANGED leases /\ handler'[r].pc \in {"sweep", "claim"}
        /\ metrics' = [metrics EXCEPT !.reclaims = @ + 1]
      BY <1>1, <1>12 DEF CountReclaim, At, Goto, AfterReclaim, Handler
  <2> QED
      BY <1>1, <2>1 DEF Owes, Counted, Held
<1>13. CASE CountRelease(r)
  <2>1. /\ h.pc = "countRelease" /\ UNCHANGED leases /\ handler'[r].pc = "idle"
        /\ metrics' = [metrics EXCEPT !.releases = @ + 1]
      BY <1>1, <1>13 DEF CountRelease, At, Finish, Idle
  <2> QED
      BY <1>1, <2>1 DEF Owes, Counted, Held
<1>14. ASSUME UNCHANGED metrics, Held' = Held, Owes(handler'[r].pc) = 0, Owes(h.pc) = 0
       PROVE  Balanced
    BY <1>14 DEF Counted
<1>15. CASE MarkReclaiming(r)
  <2>1. /\ h.pc = "mark" /\ UNCHANGED metrics
        /\ handler'[r].pc \in {"sweep", "claim", "scan", "delete"}
      BY <1>1, <1>15 DEF MarkReclaiming, At, Goto, AfterReclaim, AfterSkip, Handler
  <2>2. leases' \in [Ports -> LeaseRecord \cup {NoLease}]
      BY <1>15, MarkReclaimingIInv DEF IInv, TypeOK
  <2>3. ASSUME leases[h.port] # NoLease PROVE [leases[h.port] EXCEPT !.status = "reclaiming"] # NoLease
      BY <1>1, <2>3, AbsentAssumption DEF LeaseRecord
  <2>4. Held' = Held
      BY <1>1, <1>15, <2>3 DEF Held, MarkReclaiming
  <2> QED
      BY <1>14, <2>1, <2>4 DEF Owes
<1>16. CASE PutExpired(r) \/ PutHeartbeat(r)
  <2>1. /\ h.pc \in {"putExpired", "putHeartbeat"} /\ UNCHANGED metrics
        /\ handler'[r].pc = "idle"
        /\ leases[h.port] # NoLease /\ h.seen = leases[h.port]
      BY <1>1, <1>2, <1>16 DEF PutExpired, PutHeartbeat, At, Finish, Idle, Knows
  <2>2. PICK lease : leases' = [leases EXCEPT ![h.port] = lease] /\ lease \in LeaseRecord
    <3>1. h.seen \in LeaseRecord /\ h.now \in Nat
        BY <1>1, <2>1 DEF Handler
    <3>2. /\ [h.seen EXCEPT !.status = "expired"] \in LeaseRecord
          /\ [h.seen EXCEPT !.last_heartbeat_ms = h.now, !.status = "active"] \in LeaseRecord
        BY <3>1 DEF LeaseRecord
    <3> QED
        BY <1>16, <3>2 DEF PutExpired, PutHeartbeat
  <2>3. Held' = Held
      BY <1>1, <2>1, <2>2, AbsentAssumption DEF Held
  <2> QED
      BY <1>14, <2>1, <2>3 DEF Owes
<1> QED
    BY <1>4, <1>5, <1>6, <1>7, <1>8, <1>9, <1>10, <1>11, <1>12, <1>13, <1>15, <1>16 DEF Continue

LEMMA DriftStep ==
    ASSUME IInv, MetricDrift, [Next]_vars
    PROVE  MetricDrift'
<1>1. IInv'
    BY NextIInv
<1>2. ASSUME NEW r \in Requests, Start(r) \/ Continue(r) PROVE MetricDrift'
  <2>1. /\ \A s \in Requests \ {r} : handler[s].pc = "idle" /\ handler'[s].pc = "idle"
        /\ crashes' = crashes
      BY <1>2, OthersIdle
  <2> QED
      BY <1>1, <1>2, <2>1, DriftOfOne, DriftOfOneNext, StepOwes
<1>3. ASSUME NEW r \in Requests, Crash(r) PROVE MetricDrift'
  <2>1. /\ \A s \in Requests \ {r} : handler[s].pc = "idle"
        /\ \A s \in Requests : handler'[s].pc = "idle"
        /\ crashes' = crashes + 1 /\ UNCHANGED <<leases, metrics>> /\ crashes \in Nat
      BY <1>3 DEF Crash, IInv, TypeOK, Alone, Busy, At, Idle
  <2>2. Cardinality(Held) - Counted - Owes(handler[r].pc) \in -crashes .. crashes
      BY <2>1, DriftOfOne
  <2>3. /\ Cardinality(Held') = Cardinality(Held) /\ Counted' = Counted
        /\ Owes(handler'[r].pc) = 0 /\ Owes(handler[r].pc) \in {-1, 0, 1}
      BY <2>1 DEF Held, Counted, Owes
  <2>4. Counted \in Int /\ Cardinality(Held) \in Nat
      BY CountedIsInt, HeldFinite DEF IInv
  <2>5. Cardinality(Held') - Counted' - Owes(handler'[r].pc) \in -crashes' .. crashes'
      BY <2>1, <2>2, <2>3, <2>4
  <2> QED
      BY <1>1, <2>1, <2>5, DriftOfOneNext
<1>4. CASE SummaryInitCursor \/ Tick \/ UNCHANGED vars
  <2>1. UNCHANGED <<leases, metrics, handler, crashes>>
      BY <1>4 DEF SummaryInitCursor, Tick, vars
  <2> QED
      BY <2>1 DEF MetricDrift, Held, Uncounted
<1> QED
    BY <1>2, <1>3, <1>4 DEF Next

LEMMA InitDrift == Init => MetricDrift
<1> SUFFICES ASSUME Init PROVE MetricDrift
    OBVIOUS
<1>1. Held = {} /\ \A r \in Requests : handler[r].pc = "idle"
    BY DEF Init, Held, Idle
<1>2. /\ Uncounted({"setCursor", "countAllocation"}) = 0
      /\ Uncounted({"countReclaim", "countRelease"}) = 0
    BY <1>1, CountNone DEF Uncounted
<1>3. Cardinality(Held) = 0
    BY <1>1, FS_EmptySet
<1> QED
    BY <1>2, <1>3 DEF Init, MetricDrift

-----------------------------------------------------------------------------
(* The window a scan looks at.                                             *)

\* The attempts of a scan look at different ports.
LEMMA WrapPortOf ==
    ASSUME NEW c \in Ports, NEW i \in Attempts
    PROVE  wrapPort(c + i) = IF c + i <= PORT_MAX THEN c + i ELSE c + i - totalCapacity
<1> DEFINE n == totalCapacity
           x == c + i - PORT_MIN
<1>1. n \in Nat \ {0} /\ x \in 0 .. 2 * n - 1 /\ c \in Int /\ i \in Int
    BY ConfigAssumption DEF totalCapacity, Ports, Attempts
<1>2. x % n = IF x < n THEN x ELSE x - n
  <2> HIDE DEF n, x
  <2>1. CASE x < n
      BY <1>1, <2>1
  <2>2. CASE x >= n
    <3>1. PICK y \in 0 .. n - 1 : x = y + n
        BY <1>1, <2>2
    <3>2. (y + n) % n = y
        BY <1>1
    <3> QED
        BY <1>1, <3>1, <3>2, <2>2
  <2> QED
      BY <1>1, <2>1, <2>2
<1> QED
    BY <1>1, <1>2, ConfigAssumption DEF wrapPort, totalCapacity

LEMMA WindowDistinct ==
    ASSUME NEW c \in Ports, NEW i \in Attempts, NEW j \in Attempts,
           wrapPort(c + i) = wrapPort(c + j)
    PROVE  i = j
<1>1. /\ i \in 0 .. totalCapacity - 1 /\ j \in 0 .. totalCapacity - 1
      /\ totalCapacity \in Nat /\ c \in Int
    BY ConfigAssumption DEF totalCapacity, Ports, Attempts
<1> QED
    BY <1>1, WrapPortOf, ConfigAssumption DEF totalCapacity, Ports

Unexpired(now) == {p \in Held : ~isLeaseExpired(leases[p], now)}

LEMMA ExhaustedWindow ==
    ASSUME IInv, NEW r \in Requests, ScanExhausted(r)
    PROVE  Cardinality(Unexpired(handler[r].now)) >= Cardinality(Attempts)
<1> DEFINE now == handler[r].now
           window == [i \in Attempts |-> wrapPort(cursor_port + i)]
<1>1. cursor_port \in Ports
    BY DEF IInv, HandlersKnow, Busy, Knows, ScanExhausted, At
<1>2. \A i \in Attempts : wrapPort(cursor_port + i) \in Unexpired(now)
  <2> SUFFICES ASSUME NEW i \in Attempts PROVE wrapPort(cursor_port + i) \in Unexpired(now)
      OBVIOUS
  <2>1. cursor_port + i \in Int
      BY <1>1, ConfigAssumption DEF Ports, Attempts
  <2>2. wrapPort(cursor_port + i) \in Ports
      BY <2>1, WrapPortInRange
  <2> QED
      BY <2>2 DEF ScanExhausted, Takeable, Unexpired, Held
<1>3. window \in Injection(Attempts, Unexpired(now))
  <2>1. window \in [Attempts -> Unexpired(now)]
      BY <1>2
  <2>2. \A i, j \in Attempts : window[i] = window[j] => i = j
      BY <1>1, WindowDistinct
  <2> QED
      BY <2>1, <2>2 DEF Injection, IsInjective
<1>4. IsFiniteSet(Unexpired(now)) /\ Cardinality(Unexpired(now)) \in Nat
  <2>1. Unexpired(now) \in SUBSET Held
      BY DEF Unexpired
  <2> QED
      BY <2>1, HeldFinite, FS_Subset, FS_CardinalityType
<1>5. IsFiniteSet(Attempts) /\ Cardinality(Attempts) <= Cardinality(Unexpired(now))
  <2> HIDE DEF window
  <2> QED
      BY <1>3, <1>4, FS_Injection
<1>6. Cardinality(Attempts) \in Nat
    BY <1>5, FS_CardinalityType
<1> QED
    BY <1>4, <1>5, <1>6

LEMMA ExhaustedStep ==
    ASSUME IInv, ExhaustedIsReal, [Next]_vars
    PROVE  ExhaustedIsReal'
<1> SUFFICES ASSUME NEW r \in Requests, handler'[r].pc = "exhausted"
             PROVE  Cardinality(Unexpired(handler[r].now)') >= Cardinality(Attempts)
                    /\ handler'[r].now = handler[r].now
    BY DEF ExhaustedIsReal, Unexpired, At
<1>0. handler \in [Requests -> Handler] /\ Idle \in Handler /\ Idle.pc = "idle"
    BY IdleIsHandler DEF IInv, TypeOK, Idle
<1>1. ASSUME UNCHANGED <<leases, handler>>
      PROVE  Cardinality(Unexpired(handler[r].now)') >= Cardinality(Attempts)
             /\ handler'[r].now = handler[r].now
    BY <1>1 DEF ExhaustedIsReal, Unexpired, Held, isLeaseExpired, At
<1>2. CASE SummaryInitCursor \/ Tick \/ UNCHANGED vars
    BY <1>1, <1>2 DEF SummaryInitCursor, Tick, vars
<1>3. ASSUME NEW s \in Requests, Crash(s) PROVE FALSE
    BY <1>0, <1>3 DEF Crash
<1>4. ASSUME NEW s \in Requests, Start(s) PROVE FALSE
  <2>1. s = r
      BY <1>4, OthersIdle
  <2>2. ASSUME NEW t \in Tenants, AllocateStart(r, t) PROVE FALSE
      BY <1>0, <2>2 DEF AllocateStart, Begin, Idle
  <2>3. ASSUME NEW t \in Tenants, NEW id \in 1 .. minted, NEW p \in Ports,
               HeartbeatStart(r, t, id, p)
        PROVE  FALSE
      BY <1>0, <2>3 DEF HeartbeatStart, Named, Begin, Idle, Verdict
  <2>4. ASSUME NEW t \in Tenants, NEW id \in 1 .. minted, NEW p \in Ports,
               ReleaseStart(r, t, id, p)
        PROVE  FALSE
      BY <1>0, <2>4 DEF ReleaseStart, Named, Begin, Idle
  <2>5. CASE SweepStart(r)
      BY <1>0, <2>5 DEF SweepStart, Begin, Idle
  <2> QED
      BY <1>4, <2>1, <2>2, <2>3, <2>4, <2>5 DEF Start
<1>5. ASSUME NEW s \in Requests, Continue(s) PROVE s = r /\ ScanExhausted(r)
  <2>1. s = r
      BY <1>5, OthersIdle
  <2>2. ASSUME NEW pc \in Phases, Goto(r, pc) PROVE pc = "exhausted"
    <3>1. handler'[r] = [handler[r] EXCEPT !.pc = pc] /\ handler[r] \in Handler
        BY <1>0, <2>2, GotoHandler
    <3> QED
        BY <3>1 DEF Handler
  <2>3. ~Finish(r)
      BY <1>0, FinishHandler
  <2>4. ~(\/ InitCursor(r) \/ ClaimPort(r) \/ SetCursor(r) \/ MarkReclaiming(r)
          \/ DeleteReclaimed(r) \/ CountReclaim(r) \/ DeleteReleased(r))
      BY <2>2, <2>3 DEF InitCursor, ClaimPort, SetCursor, MarkReclaiming, DeleteReclaimed,
                        CountReclaim, DeleteReleased, AfterReclaim, AfterSkip, Phases
  <2>5. ~(\/ AnswerExhausted(r) \/ CountAllocation(r) \/ PutExpired(r) \/ PutHeartbeat(r)
          \/ CountRelease(r) \/ SweepEnd(r))
      BY <2>3 DEF AnswerExhausted, CountAllocation, PutExpired, PutHeartbeat, CountRelease,
                  SweepEnd
  <2>6. \A i \in Attempts : ~ScanFound(r, i)
      BY <1>0 DEF ScanFound, Handler
  <2>7. \A lease : ~SweepVisit(r, lease)
      BY <1>0 DEF SweepVisit, Handler
  <2> QED
      BY <1>5, <2>1, <2>4, <2>5, <2>6, <2>7 DEF Continue
<1>6. CASE ScanExhausted(r)
  <2>1. handler'[r].now = handler[r].now /\ UNCHANGED leases
    <3>1. handler'[r] = [handler[r] EXCEPT !.pc = "exhausted"] /\ handler[r] \in Handler
        BY <1>0, <1>6 DEF ScanExhausted, Goto
    <3> QED
        BY <1>6, <3>1 DEF ScanExhausted, Handler
  <2> QED
      BY <1>6, <2>1, ExhaustedWindow DEF Unexpired, Held, isLeaseExpired
<1> QED
    BY <1>2, <1>3, <1>4, <1>5, <1>6 DEF Next

-----------------------------------------------------------------------------
(* The theorems about status, verdicts, counters and answers.              *)

LEMMA StatusInvariant == Spec => [](StatusAgrees /\ RenewsActive)
<1>1. Init => StatusAgrees /\ RenewsActive
    BY DEF Init, StatusAgrees, RenewsActive, Held, At, Idle
<1>2. IInv /\ StatusAgrees /\ RenewsActive /\ [Next]_vars => (StatusAgrees /\ RenewsActive)'
    BY StatusStep, RenewsActiveStep
<1> QED
    BY <1>1, <1>2, AllocatorInvariant, PTL DEF Spec

\* The status an interrupted reclaim or a failed heartbeat leaves on a lease
\* agrees with its timestamps at every later time.
THEOREM AllocatorStatusAgrees == Spec => []StatusAgrees
BY StatusInvariant, PTL

\* A lease marked "expired" is never active again under the same id.
THEOREM AllocatorExpiryIsFinal == Spec => ExpiryIsFinal
<1> DEFINE A == \A p \in Held :
                  ( /\ leases[p].status = "expired"
                    /\ leases'[p] # NoLease
                    /\ leases'[p].lease_id = leases[p].lease_id )
                  => /\ leases'[p].status # "active"
                     /\ leases'[p].last_heartbeat_ms = leases[p].last_heartbeat_ms
<1>1. IInv /\ StatusAgrees /\ RenewsActive /\ [Next]_vars => [A]_vars
    BY StepKeepsVerdict
<1> QED
    BY <1>1, AllocatorInvariant, StatusInvariant, PTL DEF Spec, ExpiryIsFinal

\* The counters miss the stored leases by no more than the handlers cut off.
THEOREM AllocatorMetricDrift == Spec => []MetricDrift
<1>1. IInv /\ MetricDrift /\ [Next]_vars => MetricDrift'
    BY DriftStep
<1> QED
    BY <1>1, InitDrift, AllocatorInvariant, PTL DEF Spec

\* A tenant is told "exhausted" only when every port of the scan's window,
\* and the window has no port twice, was under an unexpired lease.
THEOREM AllocatorExhaustedIsReal == Spec => []ExhaustedIsReal
<1>1. Init => ExhaustedIsReal
    BY DEF Init, ExhaustedIsReal, At, Idle
<1>2. IInv /\ ExhaustedIsReal /\ [Next]_vars => ExhaustedIsReal'
    BY ExhaustedStep
<1> QED
    BY <1>1, <1>2, AllocatorInvariant, PTL DEF Spec
=============================================================================
