------------------------------ MODULE Scheduler ------------------------------
(***************************************************************************)
(* crates/sched: the single-owner admission and residency controller.      *)
(* Admissions hold leases of one reservation ledger (PlacementLedger);     *)
(* poll_command turns them into commands for an executor, whose            *)
(* acknowledgements and the callers' uses, retirements and revocations     *)
(* arrive in any order between polls.                                      *)
(*                                                                         *)
(* A refused call changes nothing, so it is an action that is not enabled; *)
(* a refusal that does change something has an action of its own.          *)
(* Capabilities of another controller (brands) are always refused and are  *)
(* not modelled.  Absent optional byte counts are 0: present ones are      *)
(* nonzero by type.                                                        *)
(***************************************************************************)
EXTENDS PlacementLedger, Functions

CONSTANTS
  Handle,            \* resident handles the executor can mint
  NoHandle,
  NoPlan,
  Grants,            \* the grants a controller may be given
  Requests,          \* workload lists of legacy admission
  NativeRequests,    \* native admissions: [dev, bytes, host]
  NativeUseRequests, \* native uses: [mutDev, mutHost, retDev, retHost]
  HostEnvelope,      \* supplied host bytes
  ExtendedOwners,    \* whether resident and mutable host owners are enabled
  MaxAdmissions, MaxPending, MaxUses,   \* SchedulerLimits
  IdMax,             \* counter |-> its largest word (u64::MAX for each in the code)
  LastFailingOp      \* the executor reports EvictFailed only up to this operation

ASSUME LimitAssumption ==
  /\ MaxAdmissions \in Nat \ {0} /\ MaxPending \in Nat \ {0} /\ MaxUses \in Nat \ {0}
ASSUME HostAssumption == HostEnvelope \in Word /\ ExtendedOwners \in BOOLEAN
ASSUME IdAssumption ==
  IdMax \in [{"adm", "op", "permit", "load", "use", "result", "generation"} -> Nat \ {0}]
ASSUME HandleAssumption == NoHandle \notin Handle
ASSUME RequestAssumption == Requests \subseteq Seq(Workload)
ASSUME NativeAssumption ==
  /\ NativeRequests \subseteq [dev : Device, bytes : Word, host : Word]
  /\ NativeUseRequests \subseteq
       [mutDev : Word, mutHost : Word, retDev : Word, retHost : Word]
ASSUME GrantAssumption == Grants \subseteq Snapshot

VARIABLES
  ledger,       \* the reservation ledger of the current grant
  generation,
  revoked,
  admissions,   \* admission id |-> [kind, lease, host, state, uses]
  operations,   \* operation id |-> [adm, kind]
  permits,      \* use permit id |-> admission id
  nativeLoads,  \* native load permit id |-> admission id
  nativeUses,   \* native use permit id |-> use record
  quarantined,  \* native use permit id |-> use record (native_quarantined_uses)
  results,      \* result id |-> [device, host]
  hostReserved,
  nextId,       \* the six identifier counters
  drainCursor,
  prepared,     \* a prepared admission in a caller's hand
  tickets,      \* admission id |-> the generation of its ticket
  memory        \* the executor's side: <<generation, lease id>> it may have allocated for

vars == <<ledger, generation, revoked, admissions, operations, permits,
          nativeLoads, nativeUses, quarantined, results, hostReserved, nextId,
          drainCursor, prepared, tickets, memory>>

grantVars == <<generation, revoked>>
accounts == <<ledger, hostReserved>>
work == <<operations, nativeLoads>>
uses == <<permits, nativeUses, quarantined, results>>
issued == <<prepared, tickets>>

------------------------------------------------------------------------------
Put(f, k, v) == [x \in DOMAIN f \cup {k} |-> IF x = k THEN v ELSE f[x]]
Drop(f, k) == Restrict(f, DOMAIN f \ {k})
Empty == [x \in {} |-> 0]
Least(a, S) == a \in S /\ \A x \in S : a <= x

(* Admission states. *)
Plain(p) == [phase |-> p, resident |-> NoHandle, loading |-> FALSE]
Holding(p, h) == [phase |-> p, resident |-> h, loading |-> FALSE]
DrainingLoad == [phase |-> "draining", resident |-> NoHandle, loading |-> TRUE]
DrainingReserved == Plain("draining")

(* A lease as its holder sees it; NoLease where the code has None. *)
NoLease == [id |-> 0]
LeaseOf(id, d, n) == [id |-> id, dev |-> d, bytes |-> n]
Claims(ids) == {generation} \X ids
Takeable(l, c) == CanRelease(l, c.id, [dev |-> c.dev, bytes |-> c.bytes])

AdmissionCapacity(n) == Cardinality(DOMAIN admissions) + n <= MaxAdmissions
PendingCount == Cardinality(DOMAIN operations) + Cardinality(DOMAIN nativeLoads)
(* Mutant: a result gives its slot back although it keeps its charge. *)
CustodySlotsOfUses ==
  Cardinality(DOMAIN permits) + Cardinality(DOMAIN nativeUses)
    + Cardinality(DOMAIN quarantined)
CustodySlots ==
  Cardinality(DOMAIN permits) + Cardinality(DOMAIN nativeUses)
    + Cardinality(DOMAIN quarantined) + Cardinality(DOMAIN results)

SetState(a, st) == [admissions EXCEPT ![a].state = st]
IsLoading(a) == admissions[a].state = Plain("loading") \/ admissions[a].state = DrainingLoad
Usable(a) == admissions[a].state.phase \in {"resident", "inuse"}
Current(a) == a \in DOMAIN admissions /\ tickets[a] = generation

(* Handles of every state that carries one: a handle is in custody even in *)
(* quarantine. *)
InCustody(h) == \E a \in DOMAIN admissions : admissions[a].state.resident = h

(* Mutant: a load in flight taken for a mere reservation. *)
ToDrainingEarly(st) ==
  CASE st.phase \in {"reserved", "loading"} -> DrainingReserved
    [] st.phase \in {"resident", "inuse"} -> Holding("draining", st.resident)
    [] OTHER -> st
ToDraining(st) ==
  CASE st.phase = "reserved" -> DrainingReserved
    [] st.phase = "loading" -> DrainingLoad
    [] st.phase \in {"resident", "inuse"} -> Holding("draining", st.resident)
    [] OTHER -> st

------------------------------------------------------------------------------
Init ==
  /\ \E g \in Grants : ledger = NewLedger(g)
  /\ generation = 1
  /\ revoked = FALSE
  /\ admissions = Empty /\ operations = Empty /\ permits = Empty
  /\ nativeLoads = Empty /\ nativeUses = Empty /\ quarantined = Empty /\ results = Empty
  /\ hostReserved = 0
  /\ nextId = [adm |-> 1, op |-> 1, permit |-> 1, load |-> 1, use |-> 1, result |-> 1]
  /\ drainCursor = 1
  /\ prepared = NoPlan
  /\ tickets = Empty
  /\ memory = {}

(* Legacy admission: prepare now, commit later. *)
Prepare(workloads) ==
  /\ prepared = NoPlan
  /\ ~revoked
  /\ AdmissionCapacity(Len(workloads))
  /\ \E ps \in Placements(ledger, workloads) :
       prepared' = [generation |-> generation, rev |-> ledger.rev, placements |-> ps]
  /\ UNCHANGED <<grantVars, accounts, work, uses, admissions, nextId, drainCursor, tickets, memory>>

(* A grant's ledger has its own brand, so a plan of another generation is  *)
(* foreign to the current ledger as well as stale. *)
(* Mutant: the revocation is only checked when preparing. *)
CommittableRevoked(p) ==
  /\ p.generation = generation
  /\ AdmissionCapacity(Len(p.placements))
  /\ nextId.adm + Len(p.placements) <= IdMax.adm
  /\ p.rev = ledger.rev
  /\ CanReserve(ledger, p.placements)
Committable(p) ==
  /\ p.generation = generation
  /\ ~revoked
  /\ AdmissionCapacity(Len(p.placements))
  /\ nextId.adm + Len(p.placements) <= IdMax.adm
  /\ p.rev = ledger.rev
  /\ CanReserve(ledger, p.placements)

Commit ==
  /\ prepared # NoPlan
  /\ Committable(prepared)
  /\ LET ps == prepared.placements
         new == nextId.adm .. (nextId.adm + Len(ps) - 1)
         Entry(a) ==
           LET i == a - nextId.adm + 1
           IN [kind |-> "legacy",
               lease |-> LeaseOf(ledger.nextId + i - 1, ps[i].dev, ps[i].bytes),
               host |-> 0, state |-> Plain("reserved"), uses |-> 0]
     IN /\ admissions' = [a \in DOMAIN admissions \cup new |->
                            IF a \in new THEN Entry(a) ELSE admissions[a]]
        /\ tickets' = [a \in DOMAIN tickets \cup new |->
                         IF a \in new THEN generation ELSE tickets[a]]
        /\ nextId' = [nextId EXCEPT !.adm = @ + Len(ps)]
        /\ ledger' = Reserve(ledger, ps)
  /\ prepared' = NoPlan
  /\ UNCHANGED <<grantVars, work, uses, hostReserved, drainCursor, memory>>

(* The prepared admission is consumed by a refused commit and by dropping it. *)
DiscardPrepared ==
  /\ prepared # NoPlan
  /\ prepared' = NoPlan
  /\ UNCHANGED <<grantVars, accounts, work, uses, admissions, nextId, drainCursor, tickets, memory>>

------------------------------------------------------------------------------
(* Native residents: the load starts with the admission. *)
HostFits(n) == hostReserved + n <= HostEnvelope

AdmitNativeResident(r) ==
  LET batch == <<[dev |-> r.dev, bytes |-> r.bytes]>>
  IN /\ ~revoked
     /\ AdmissionCapacity(1)
     /\ PendingCount < MaxPending
     /\ nextId.adm < IdMax.adm /\ nextId.load < IdMax.load
     /\ r.host # 0 => ExtendedOwners
     /\ HostFits(r.host)
     /\ r.dev \in ledger.snap.reservable
     /\ CanReserve(ledger, batch)
     /\ ledger' = Reserve(ledger, batch)
     /\ memory' = memory \cup Claims({ledger.nextId})
     /\ admissions' = Put(admissions, nextId.adm,
          [kind |-> "native", lease |-> LeaseOf(ledger.nextId, r.dev, r.bytes),
           host |-> r.host, state |-> Plain("loading"), uses |-> 0])
     /\ tickets' = Put(tickets, nextId.adm, generation)
     /\ nativeLoads' = Put(nativeLoads, nextId.load, nextId.adm)
     /\ hostReserved' = hostReserved + r.host
     /\ nextId' = [nextId EXCEPT !.adm = @ + 1, !.load = @ + 1]
     /\ UNCHANGED <<grantVars, uses, operations, drainCursor, prepared>>

(* Mutant: a retirement requested while the load ran is forgotten. *)
LoadedForgetsRetirement(a, h) ==
  IF revoked THEN Holding("draining", h) ELSE Holding("resident", h)

(* A loaded handle must be new to custody; a drain requested while the     *)
(* load ran takes effect now. *)
LoadedState(a, h) ==
  IF revoked \/ admissions[a].state = DrainingLoad
  THEN Holding("draining", h) ELSE Holding("resident", h)

CompleteNativeLoad(n, h) ==
  /\ IsLoading(nativeLoads[n])
  /\ ~InCustody(h)
  /\ admissions' = SetState(nativeLoads[n], LoadedState(nativeLoads[n], h))
  /\ nativeLoads' = Drop(nativeLoads, n)
  /\ UNCHANGED <<grantVars, accounts, uses, issued, operations, nextId, drainCursor, memory>>

(* Mutant: an admission is forgotten with its host bytes. *)
ForgetHostBytes(a) ==
  /\ Takeable(ledger, admissions[a].lease)
  /\ ledger' = Release(ledger, admissions[a].lease.id)
  /\ UNCHANGED hostReserved
  /\ admissions' = Drop(admissions, a)

(* release_admission: forget the admission and return its charges, or keep *)
(* everything when the ledger refuses the lease. *)
ReleaseAdmission(a) ==
  /\ Takeable(ledger, admissions[a].lease)
  /\ admissions[a].host <= hostReserved
  /\ ledger' = Release(ledger, admissions[a].lease.id)
  /\ hostReserved' = hostReserved - admissions[a].host
  /\ admissions' = Drop(admissions, a)

NativeLoadReleased(n) ==
  /\ IsLoading(nativeLoads[n])
  /\ ReleaseAdmission(nativeLoads[n])
  /\ memory' = memory \ Claims({admissions[nativeLoads[n]].lease.id})
  /\ nativeLoads' = Drop(nativeLoads, n)
  /\ UNCHANGED <<grantVars, uses, issued, operations, nextId, drainCursor>>

QuarantineNativeLoad(n) ==
  /\ IsLoading(nativeLoads[n])
  /\ admissions' = SetState(nativeLoads[n], Plain("quarantined"))
  /\ nativeLoads' = Drop(nativeLoads, n)
  /\ UNCHANGED <<grantVars, accounts, uses, issued, operations, nextId, drainCursor, memory>>

------------------------------------------------------------------------------
Revoke ==
  /\ ~revoked
  /\ revoked' = TRUE
  /\ admissions' = [a \in DOMAIN admissions |->
       [admissions[a] EXCEPT !.state = ToDraining(admissions[a].state)]]
  /\ UNCHANGED <<accounts, work, uses, issued, generation, nextId, drainCursor, memory>>

RequestRetirement(a) ==
  /\ Current(a)
  /\ admissions' = SetState(a, ToDraining(admissions[a].state))
  /\ UNCHANGED <<grantVars, accounts, work, uses, issued, nextId, drainCursor, memory>>

(* Mutant: a grant replaced under retained results. *)
DrainedOfUses ==
  /\ DOMAIN admissions \cup DOMAIN operations \cup DOMAIN permits \cup DOMAIN nativeLoads = {}
  /\ DOMAIN nativeUses \cup DOMAIN quarantined = {}
Drained ==
  /\ DOMAIN admissions \cup DOMAIN operations \cup DOMAIN permits \cup DOMAIN nativeLoads = {}
  /\ DOMAIN nativeUses \cup DOMAIN quarantined \cup DOMAIN results = {}
  /\ hostReserved = 0

ReplaceGrant(g) ==
  /\ revoked
  /\ Drained
  /\ generation < IdMax.generation
  /\ ledger' = NewLedger(g)
  /\ generation' = generation + 1
  /\ revoked' = FALSE
  /\ UNCHANGED <<work, uses, issued, admissions, hostReserved, nextId, drainCursor, memory>>

------------------------------------------------------------------------------
(* poll_command: a local release first, then one command if the pending    *)
(* bound leaves room, loads before evictions.                              *)
(* Mutant: reservations drain only with the whole grant. *)
LocalReleasesOfRevoked ==
  {a \in DOMAIN admissions : revoked /\ admissions[a].state = DrainingReserved}
LocalReleases == {a \in DOMAIN admissions : admissions[a].state = DrainingReserved}

Loadable ==
  {a \in DOMAIN admissions :
     admissions[a].state.phase = "reserved" /\ ~revoked /\ admissions[a].uses = 0}

(* Mutant: eviction does not wait for the uses to end. *)
EvictableInUse ==
  {a \in DOMAIN admissions :
     admissions[a].state.phase = "draining" /\ admissions[a].state.resident # NoHandle}
Evictable ==
  {a \in DOMAIN admissions :
     /\ admissions[a].state.phase = "draining"
     /\ admissions[a].state.resident # NoHandle
     /\ admissions[a].uses = 0}

(* Mutant: the search does not start over. *)
NextEvictionOnward(a) == Least(a, {x \in Evictable : x >= drainCursor})

(* Evictions go round: the first at or after the cursor, else the first. *)
NextEviction(a) ==
  LET after == {x \in Evictable : x >= drainCursor}
  IN IF after # {} THEN Least(a, after) ELSE Least(a, Evictable)

PollRelease ==
  /\ \E a \in LocalReleases : Least(a, LocalReleases) /\ ReleaseAdmission(a)
  /\ UNCHANGED <<grantVars, work, uses, issued, nextId, drainCursor, memory>>

Issue(a, kind, st) ==
  /\ LocalReleases = {}
  /\ PendingCount < MaxPending
  /\ nextId.op < IdMax.op
  /\ admissions' = SetState(a, st)
  /\ operations' = Put(operations, nextId.op, [adm |-> a, kind |-> kind])
  /\ nextId' = [nextId EXCEPT !.op = @ + 1]
  /\ UNCHANGED <<grantVars, accounts, uses, issued, nativeLoads, drainCursor>>

PollLoad ==
  \E a \in Loadable :
    /\ Least(a, Loadable)
    /\ Issue(a, "load", Plain("loading"))
    /\ memory' = memory \cup Claims({admissions[a].lease.id})

PollEvict ==
  /\ Loadable = {}
  /\ \E a \in Evictable :
       /\ NextEviction(a)
       /\ Issue(a, "evict", Holding("evicting", admissions[a].state.resident))
       /\ UNCHANGED memory

------------------------------------------------------------------------------
(* complete: an acknowledgement is taken once, of the kind that was issued *)
(* and in the state that command left. *)
Acknowledges(o, kind) ==
  /\ operations[o].kind = kind
  /\ IF kind = "load" THEN IsLoading(operations[o].adm)
                      ELSE admissions[operations[o].adm].state.phase = "evicting"
  /\ operations' = Drop(operations, o)

Loaded(o, h) ==
  /\ Acknowledges(o, "load")
  /\ ~InCustody(h)
  /\ admissions' = SetState(operations[o].adm, LoadedState(operations[o].adm, h))
  /\ UNCHANGED <<accounts, drainCursor, memory>>

(* LoadFailed attests that no allocation remains, Evicted that it is gone. *)
ReleasedBy(o, kind) ==
  /\ Acknowledges(o, kind)
  /\ ReleaseAdmission(operations[o].adm)
  /\ memory' = memory \ Claims({admissions[operations[o].adm].lease.id})
  /\ UNCHANGED drainCursor

QuarantinedBy(o, kind) ==
  /\ Acknowledges(o, kind)
  /\ admissions' = SetState(operations[o].adm,
       Holding("quarantined", admissions[operations[o].adm].state.resident))
  /\ UNCHANGED <<accounts, drainCursor, memory>>

(* Mutant: the cursor stays at the eviction that failed. *)
CursorAt(a) == a
CursorAfter(a) == IF a < IdMax.adm THEN a + 1 ELSE 1

EvictFailed(o) ==
  /\ o <= LastFailingOp
  /\ Acknowledges(o, "evict")
  /\ admissions' = SetState(operations[o].adm,
       Holding("draining", admissions[operations[o].adm].state.resident))
  /\ drainCursor' = CursorAfter(operations[o].adm)
  /\ UNCHANGED <<accounts, memory>>

Complete(o) ==
  /\ \/ \E h \in Handle : Loaded(o, h)
     \/ ReleasedBy(o, "load")
     \/ ReleasedBy(o, "evict")
     \/ QuarantinedBy(o, "load")
     \/ QuarantinedBy(o, "evict")
     \/ EvictFailed(o)
  /\ UNCHANGED <<grantVars, uses, issued, nativeLoads, nextId>>

------------------------------------------------------------------------------
(* Uses. *)
Startable(a) == Current(a) /\ ~revoked /\ CustodySlots < MaxUses /\ Usable(a)

InUse(a) ==
  [admissions EXCEPT ![a].uses = @ + 1,
                     ![a].state = Holding("inuse", admissions[a].state.resident)]

BeginUse(a) ==
  /\ Startable(a)
  /\ nextId.permit < IdMax.permit
  /\ admissions[a].kind = "legacy"
  /\ admissions' = InUse(a)
  /\ permits' = Put(permits, nextId.permit, a)
  /\ nextId' = [nextId EXCEPT !.permit = @ + 1]
  /\ UNCHANGED <<grantVars, accounts, work, issued, nativeUses, quarantined, results, drainCursor, memory>>

(* The state one fewer use leaves: an admission that drains keeps draining. *)
FinishedState(st, left) ==
  IF st.phase = "inuse" /\ left = 0
  THEN Holding(IF revoked THEN "draining" ELSE "resident", st.resident) ELSE st

Finishable(a, phases) ==
  /\ admissions[a].uses > 0
  /\ \/ admissions[a].state.phase \in phases
     \/ admissions[a].state.phase = "draining" /\ admissions[a].state.resident # NoHandle

Finished(a) ==
  LET left == admissions[a].uses - 1
  IN [admissions EXCEPT ![a].uses = left,
                        ![a].state = FinishedState(admissions[a].state, left)]

FinishUse(p) ==
  LET a == permits[p]
  IN /\ Finishable(a, {"inuse"})
     /\ admissions' = Finished(a)
     /\ permits' = Drop(permits, p)
     /\ UNCHANGED <<grantVars, accounts, work, issued, nativeUses, quarantined, results, nextId, drainCursor, memory>>

(* A native use reserves its mutable and its retained bytes as one batch. *)
BeginNativeUse(a, r) ==
  /\ Startable(a)
  /\ nextId.use < IdMax.use
  /\ r.mutHost # 0 => ExtendedOwners
  /\ HostFits(r.mutHost + r.retHost)
  /\ admissions[a].kind = "native"
  /\ LET d == admissions[a].lease.dev
         mutable == [dev |-> d, bytes |-> r.mutDev]
         retained == [dev |-> d, bytes |-> r.retDev]
         batch == IF r.retDev = 0 THEN <<mutable>> ELSE <<mutable, retained>>
     IN /\ d \in ledger.snap.reservable
        /\ CanReserve(ledger, batch)
        /\ ledger' = Reserve(ledger, batch)
        /\ memory' = memory \cup Claims(NewIds(ledger, batch))
        /\ nativeUses' = Put(nativeUses, nextId.use,
             [adm |-> a,
              device |-> LeaseOf(ledger.nextId, d, r.mutDev), host |-> r.mutHost,
              retained |-> IF r.retDev = 0 THEN NoLease
                           ELSE LeaseOf(ledger.nextId + 1, d, r.retDev),
              retainedHost |-> r.retHost])
  /\ admissions' = InUse(a)
  /\ hostReserved' = hostReserved + r.mutHost + r.retHost
  /\ nextId' = [nextId EXCEPT !.use = @ + 1]
  /\ UNCHANGED <<grantVars, work, issued, permits, quarantined, results, drainCursor>>

(* Mutant: only host output counts as a retained result. *)
KeepsHostOutput(u) == u.retainedHost # 0
KeepsOutput(u) == u.retained # NoLease \/ u.retainedHost # 0

(* After teardown the mutable charge goes; what is retained becomes a      *)
(* result.  A quarantined admission stays quarantined. *)
FinishNativeUse(n) ==
  LET u == nativeUses[n]
  IN /\ Finishable(u.adm, {"inuse", "quarantined"})
     /\ KeepsOutput(u) => nextId.result < IdMax.result
     /\ u.host <= hostReserved
     /\ Takeable(ledger, u.device)
     /\ ledger' = Release(ledger, u.device.id)
     /\ memory' = memory \ Claims({u.device.id})
     /\ admissions' = Finished(u.adm)
     /\ nativeUses' = Drop(nativeUses, n)
     /\ hostReserved' = hostReserved - u.host
     /\ IF KeepsOutput(u)
        THEN /\ results' = Put(results, nextId.result,
                  [device |-> u.retained, host |-> u.retainedHost])
             /\ nextId' = [nextId EXCEPT !.result = @ + 1]
        ELSE UNCHANGED <<results, nextId>>
     /\ UNCHANGED <<grantVars, work, issued, permits, quarantined, drainCursor>>

(* The record moves to quarantine and its use is never subtracted. *)
QuarantineNativeUse(n) ==
  LET a == nativeUses[n].adm
      st == admissions[a].state
  IN /\ st.phase \in {"inuse", "draining", "quarantined"}
     /\ st.resident # NoHandle
     /\ admissions' = SetState(a, Holding("quarantined", st.resident))
     /\ quarantined' = Put(quarantined, n, nativeUses[n])
     /\ nativeUses' = Drop(nativeUses, n)
     /\ UNCHANGED <<grantVars, accounts, work, issued, permits, results, nextId, drainCursor, memory>>

DiscardNativeResult(n) ==
  LET r == results[n]
  IN /\ r.host <= hostReserved
     /\ IF r.device = NoLease THEN UNCHANGED ledger
        ELSE Takeable(ledger, r.device) /\ ledger' = Release(ledger, r.device.id)
     /\ results' = Drop(results, n)
     /\ memory' = memory \ Claims({r.device.id})
     /\ hostReserved' = hostReserved - r.host
     /\ UNCHANGED <<grantVars, work, issued, admissions, permits, nativeUses, quarantined, nextId, drainCursor>>

------------------------------------------------------------------------------
Poll == PollRelease \/ PollLoad \/ PollEvict

Caller ==
  \/ \E ws \in Requests : Prepare(ws)
  \/ Commit
  \/ DiscardPrepared
  \/ \E r \in NativeRequests : AdmitNativeResident(r)
  \/ \E a \in DOMAIN admissions :
       \/ RequestRetirement(a)
       \/ BeginUse(a)
       \/ \E r \in NativeUseRequests : BeginNativeUse(a, r)

Owner == Revoke \/ \E g \in Grants : ReplaceGrant(g)

Executor == \E o \in DOMAIN operations : Complete(o)

NativeLoadEnds(n) ==
  \/ \E h \in Handle : CompleteNativeLoad(n, h)
  \/ NativeLoadReleased(n)
  \/ QuarantineNativeLoad(n)

Adapter ==
  \/ \E n \in DOMAIN nativeLoads : NativeLoadEnds(n)
  \/ \E p \in DOMAIN permits : FinishUse(p)
  \/ \E n \in DOMAIN nativeUses : FinishNativeUse(n) \/ QuarantineNativeUse(n)
  \/ \E n \in DOMAIN results : DiscardNativeResult(n)

Next == Poll \/ Caller \/ Owner \/ Executor \/ Adapter

Spec == Init /\ [][Next]_vars

------------------------------------------------------------------------------
(* Owners of leases and of host bytes, as <<role, id, what>>. *)
LeaseOwners ==
  {o \in {<<"resident", a, admissions[a].lease>> : a \in DOMAIN admissions}
         \cup {<<"mutable", n, nativeUses[n].device>> : n \in DOMAIN nativeUses}
         \cup {<<"output", n, nativeUses[n].retained>> : n \in DOMAIN nativeUses}
         \cup {<<"lost mutable", n, quarantined[n].device>> : n \in DOMAIN quarantined}
         \cup {<<"lost output", n, quarantined[n].retained>> : n \in DOMAIN quarantined}
         \cup {<<"result", n, results[n].device>> : n \in DOMAIN results} :
     o[3] # NoLease}

HostOwners ==
  {<<"resident", a, admissions[a].host>> : a \in DOMAIN admissions}
    \cup {<<"mutable", n, nativeUses[n].host>> : n \in DOMAIN nativeUses}
    \cup {<<"output", n, nativeUses[n].retainedHost>> : n \in DOMAIN nativeUses}
    \cup {<<"lost mutable", n, quarantined[n].host>> : n \in DOMAIN quarantined}
    \cup {<<"lost output", n, quarantined[n].retainedHost>> : n \in DOMAIN quarantined}
    \cup {<<"result", n, results[n].host>> : n \in DOMAIN results}

UsesOf(a) ==
  Cardinality({p \in DOMAIN permits : permits[p] = a})
    + Cardinality({n \in DOMAIN nativeUses : nativeUses[n].adm = a})
    + Cardinality({n \in DOMAIN quarantined : quarantined[n].adm = a})

PendingFor(a, kind) == {o \in DOMAIN operations : operations[o] = [adm |-> a, kind |-> kind]}
LoadsFor(a) == {n \in DOMAIN nativeLoads : nativeLoads[n] = a}

Phase == {"reserved", "loading", "resident", "inuse", "draining", "evicting", "quarantined"}
Id(counter) == 1..IdMax[counter]

AdmissionState ==
  {st \in [phase : Phase, resident : Handle \cup {NoHandle}, loading : BOOLEAN] :
     /\ st.phase \in {"reserved", "loading"} => st.resident = NoHandle
     /\ st.phase \in {"resident", "inuse", "evicting"} => st.resident # NoHandle
     /\ st.loading => st = DrainingLoad}

UseRecord(u) ==
  /\ u.adm \in Id("adm") /\ u.device.id \in Word /\ u.host \in Word
  /\ u.retained.id \in Word /\ u.retainedHost \in Word

(* Type invariant: the controller's tables hold records of their declared  *)
(* shape under identifiers already issued, and no more of them than        *)
(* SchedulerLimits allows: a use that ends as a result, or in quarantine,  *)
(* keeps its slot.                                                         *)
TypeOK ==
  /\ IsLedger(ledger)
  /\ generation \in Id("generation") /\ revoked \in BOOLEAN
  /\ \A a \in DOMAIN admissions :
       /\ a \in 1..(nextId.adm - 1)
       /\ admissions[a].kind \in {"legacy", "native"}
       /\ admissions[a].state \in AdmissionState
       /\ admissions[a].host \in Word
       /\ admissions[a].uses \in 0..MaxUses
  /\ \A o \in DOMAIN operations :
       o \in 1..(nextId.op - 1) /\ operations[o] \in [adm : Id("adm"), kind : {"load", "evict"}]
  /\ \A p \in DOMAIN permits : p \in 1..(nextId.permit - 1) /\ permits[p] \in Id("adm")
  /\ \A n \in DOMAIN nativeLoads : n \in 1..(nextId.load - 1) /\ nativeLoads[n] \in Id("adm")
  /\ \A n \in DOMAIN nativeUses : n \in 1..(nextId.use - 1) /\ UseRecord(nativeUses[n])
  /\ \A n \in DOMAIN quarantined : n \in 1..(nextId.use - 1) /\ UseRecord(quarantined[n])
  /\ \A n \in DOMAIN results : n \in 1..(nextId.result - 1) /\ results[n].host \in Word
  /\ hostReserved \in Word
  /\ DOMAIN nextId = DOMAIN IdMax \ {"generation"}
  /\ \A k \in DOMAIN nextId : nextId[k] \in Id(k)
  /\ drainCursor \in Id("adm")
  /\ memory \subseteq Id("generation") \X Word
  /\ DOMAIN tickets = 1..(nextId.adm - 1)
  /\ Cardinality(DOMAIN admissions) <= MaxAdmissions
  /\ Cardinality(DOMAIN operations) + Cardinality(DOMAIN nativeLoads) <= MaxPending
  /\ Cardinality(DOMAIN permits) + Cardinality(DOMAIN nativeUses)
       + Cardinality(DOMAIN quarantined) + Cardinality(DOMAIN results) <= MaxUses

(* Device accounting survives every transfer of custody: each active lease *)
(* of the ledger belongs to exactly one admission, use, quarantined use or *)
(* result, which holds it with the bytes the ledger charged, and no two    *)
(* admissions hold one resident.  A lease nobody owns would never be       *)
(* released, one with two owners twice; a shared resident would be         *)
(* destroyed under the other admission.                                    *)
LeasesHaveOneOwner ==
  /\ {o[3].id : o \in LeaseOwners} = DOMAIN ledger.leases
  /\ \A o \in LeaseOwners :
       ledger.leases[o[3].id] = [dev |-> o[3].dev, bytes |-> o[3].bytes]
  /\ \A o1, o2 \in LeaseOwners : o1[3].id = o2[3].id => o1 = o2
  /\ \A a, b \in DOMAIN admissions :
       admissions[a].state.resident = admissions[b].state.resident
         /\ admissions[a].state.resident # NoHandle => a = b

(* The host counter is the sum of the host bytes of its owners and stays   *)
(* within the supplied envelope, through loads, uses, results and          *)
(* quarantine.                                                             *)
HostBytesMatchOwners ==
  /\ hostReserved = Cardinality(UNION {{<<o[1], o[2]>>} \X (1..o[3]) : o \in HostOwners})
  /\ hostReserved <= HostEnvelope

(* An admission counts the permits that point at it, a quarantined use     *)
(* included, and only an admission that holds a resident has any: no       *)
(* eviction runs, and no admission is forgotten, under a live use.         *)
UsesMatchPermits ==
  /\ \A a \in DOMAIN admissions :
       /\ admissions[a].uses = UsesOf(a)
       /\ UsesOf(a) > 0 =>
            /\ admissions[a].state.phase \in {"inuse", "draining", "quarantined"}
            /\ admissions[a].state.resident # NoHandle
       /\ admissions[a].state.phase = "inuse" => UsesOf(a) > 0
  /\ \A p \in DOMAIN permits : permits[p] \in DOMAIN admissions
  /\ \A n \in DOMAIN nativeUses : nativeUses[n].adm \in DOMAIN admissions
  /\ \A n \in DOMAIN quarantined :
       /\ quarantined[n].adm \in DOMAIN admissions
       /\ admissions[quarantined[n].adm].state.phase = "quarantined"

(* Every command the executor still works on finds, when it is             *)
(* acknowledged, its admission in the state that command left, and no      *)
(* admission waits for an acknowledgement nobody owes: whatever was        *)
(* revoked or retired meanwhile, the answer is never refused or lost.      *)
PendingMatchesState ==
  /\ \A o \in DOMAIN operations : operations[o].adm \in DOMAIN admissions
  /\ \A n \in DOMAIN nativeLoads : nativeLoads[n] \in DOMAIN admissions
  /\ \A a \in DOMAIN admissions :
       /\ Cardinality(PendingFor(a, "load")) + Cardinality(LoadsFor(a))
            = IF IsLoading(a) THEN 1 ELSE 0
       /\ Cardinality(PendingFor(a, "evict"))
            = IF admissions[a].state.phase = "evicting" THEN 1 ELSE 0

(* Admissions follow the grant they were ticketed under.  Once it is       *)
(* revoked nothing waits to load or is open to use, also when a load or a  *)
(* use ends after the revocation; and a replaced grant has none left, so a *)
(* stale ticket reaches no admission.                                      *)
AdmissionsFollowTheGrant ==
  \A a \in DOMAIN admissions :
    /\ tickets[a] = generation
    /\ revoked => admissions[a].state.phase \in {"draining", "evicting", "quarantined"}

(* An admission told to stop never serves again: a late load completion, a *)
(* failed eviction and the end of its last use all leave it stopping.      *)
Stopping(a) == admissions[a].state.phase \in {"draining", "evicting", "quarantined"}
NoReturnToService ==
  [][\A a \in DOMAIN admissions \cap DOMAIN admissions' :
       Stopping(a) => Stopping(a)']_vars

(* The service owner polls, the executor answers every command in the end  *)
(* and the adapter ends every use and load it was given.  The executor may *)
(* fail an eviction, up to LastFailingOp: not for ever.                    *)
Fairness ==
  /\ WF_vars(Poll)
  /\ \A o \in Id("op") : WF_vars(o \in DOMAIN operations /\ Complete(o))
  /\ \A n \in Id("load") : WF_vars(n \in DOMAIN nativeLoads /\ NativeLoadEnds(n))
  /\ \A p \in Id("permit") : WF_vars(p \in DOMAIN permits /\ FinishUse(p))
  /\ \A n \in Id("use") : WF_vars(n \in DOMAIN nativeUses
                               /\ (FinishNativeUse(n) \/ QuarantineNativeUse(n)))
  /\ \A n \in Id("result") : WF_vars(n \in DOMAIN results /\ DiscardNativeResult(n))

FairSpec == Spec /\ Fairness

Lost == \E a \in DOMAIN admissions : admissions[a].state.phase = "quarantined"

(* Revocation ends: every admission of a revoked grant is released, unless *)
(* an uncertain outcome quarantined one, and the grant becomes replaceable. *)
RevokedGrantDrains == revoked ~> (Drained \/ Lost)

(* The documentation of request_retirement: a reserved lease releases      *)
(* through poll_command.  No executor is involved, so polling is enough.   *)
ReservedLeaseReleases ==
  \A a \in Id("adm") :
    (a \in DOMAIN admissions /\ admissions[a].state = DrainingReserved)
      ~> a \notin DOMAIN admissions

------------------------------------------------------------------------------
(* The controller keeps the promises of ResourceCustody: memory is only    *)
(* ever behind a charged lease, no lease is returned to the ledger while   *)
(* it is in use, may still have memory, or is quarantined, and a new grant *)
(* finds nothing left of the old one.                                      *)
LostLeases ==
  {o[3].id : o \in {x \in LeaseOwners :
     \/ x[1] = "resident" /\ admissions[x[2]].state.phase = "quarantined"
     \/ x[1] \in {"lost mutable", "lost output"}}}

Pins(i) ==
  IF \E a \in DOMAIN admissions : admissions[a].lease.id = i
  THEN admissions[CHOOSE a \in DOMAIN admissions : admissions[a].lease.id = i].uses
  ELSE 0

Custody == INSTANCE ResourceCustody WITH
  Claim <- Id("generation") \X Word,
  open <- ~revoked,
  charged <- Claims(DOMAIN ledger.leases),
  lost <- Claims(LostLeases),
  users <- [c \in Id("generation") \X Word |-> IF c[1] = generation THEN Pins(c[2]) ELSE 0]

KeepsCustody == Custody!Spec
==============================================================================
