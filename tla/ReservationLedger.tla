-------------------------- MODULE ReservationLedger --------------------------
(***************************************************************************)
(* crates/placement as a state machine: several reservation ledgers, the   *)
(* callers that prepare a plan now and commit it later, and the lease      *)
(* capabilities in circulation.  A prepared plan and a lease are values    *)
(* that can be presented to the wrong ledger, presented late, or dropped;  *)
(* only the ledger that issued them, at the right revision, honours them.  *)
(***************************************************************************)
EXTENDS PlacementLedger

CONSTANTS
  Brand,      \* the ledgers, by the identity of their brand
  Caller,     \* threads of work, each with at most one prepared plan in hand
  Grants,     \* the grants ledgers are created from
  Requests,   \* the workload lists callers ask to place
  Extents,    \* the nonzero byte counts of direct reservations
  NoPlan

ASSUME GrantAssumption == Grants \subseteq Snapshot
ASSUME RequestAssumption == Requests \subseteq Seq(Workload)
ASSUME ExtentAssumption == Extents \subseteq Word \ {0}

VARIABLES
  ledger,   \* brand |-> ledger
  plan,     \* caller |-> the prepared plan it holds
  held      \* lease capabilities in circulation

vars == <<ledger, plan, held>>

Plan == [brand : Brand, rev : Word, placements : Seq(Placement)]
Lease == [brand : Brand, id : Word, dev : Device, bytes : Word]

Capabilities(b, batch) ==
  {[brand |-> b, id |-> i,
    dev |-> batch[i - ledger[b].nextId + 1].dev,
    bytes |-> batch[i - ledger[b].nextId + 1].bytes] : i \in NewIds(ledger[b], batch)}

Extent(c) == [dev |-> c.dev, bytes |-> c.bytes]

------------------------------------------------------------------------------
Init ==
  /\ \E grant \in [Brand -> Grants] : ledger = [b \in Brand |-> NewLedger(grant[b])]
  /\ plan = [c \in Caller |-> NoPlan]
  /\ held = {}

(* A request pins its grant; one that differs from the ledger's is refused. *)
Prepare(c, b, s, workloads) ==
  /\ plan[c] = NoPlan
  /\ s = ledger[b].snap
  /\ \E ps \in Placements(ledger[b], workloads) :
       plan' = [plan EXCEPT ![c] =
                  [brand |-> b, rev |-> ledger[b].rev, placements |-> ps]]
  /\ UNCHANGED <<ledger, held>>

(* Mutant: the issuing ledger is not compared. *)
AcceptableAnywhere(p, b) == p.rev = ledger[b].rev /\ CanReserve(ledger[b], p.placements)
Acceptable(p, b) ==
  /\ p.brand = b
  /\ p.rev = ledger[b].rev
  /\ CanReserve(ledger[b], p.placements)

Commit(c, b) ==
  /\ plan[c] # NoPlan
  /\ Acceptable(plan[c], b)
  /\ ledger' = [ledger EXCEPT ![b] = Reserve(ledger[b], plan[c].placements)]
  /\ held' = held \cup Capabilities(b, plan[c].placements)
  /\ plan' = [plan EXCEPT ![c] = NoPlan]

(* Commit takes the plan by value: a refusal consumes it too. *)
CommitRefused(c, b) ==
  /\ plan[c] # NoPlan
  /\ ~Acceptable(plan[c], b)
  /\ plan' = [plan EXCEPT ![c] = NoPlan]
  /\ UNCHANGED <<ledger, held>>

ReserveBytes(b, batch) ==
  /\ \A i \in DOMAIN batch : batch[i].dev \in ledger[b].snap.reservable
  /\ CanReserve(ledger[b], batch)
  /\ ledger' = [ledger EXCEPT ![b] = Reserve(ledger[b], batch)]
  /\ held' = held \cup Capabilities(b, batch)
  /\ UNCHANGED plan

(* Mutant: a lease is honoured by any ledger that has one like it. *)
ReleaseAnywhere(b, c) ==
  /\ CanRelease(ledger[b], c.id, Extent(c))
  /\ ledger' = [ledger EXCEPT ![b] = Release(ledger[b], c.id)]
  /\ held' = held \ {c}
  /\ UNCHANGED plan

(* A refused release returns the capability: nothing changes. *)
ReleaseLease(b, c) ==
  /\ c.brand = b
  /\ CanRelease(ledger[b], c.id, Extent(c))
  /\ ledger' = [ledger EXCEPT ![b] = Release(ledger[b], c.id)]
  /\ held' = held \ {c}
  /\ UNCHANGED plan

(* Dropping a plan or a lease runs no accounting. *)
DropPlan(c) ==
  /\ plan[c] # NoPlan
  /\ plan' = [plan EXCEPT ![c] = NoPlan]
  /\ UNCHANGED <<ledger, held>>

DropLease(c) ==
  /\ held' = held \ {c}
  /\ UNCHANGED <<ledger, plan>>

Batches ==
  LET One == [dev : Device, bytes : Extents]
  IN {<<p>> : p \in One} \cup {<<p, q>> : p \in One, q \in One}

Next ==
  \/ \E c \in Caller, b \in Brand :
       \/ \E s \in Grants, ws \in Requests : Prepare(c, b, s, ws)
       \/ Commit(c, b)
       \/ CommitRefused(c, b)
  \/ \E b \in Brand, batch \in Batches : ReserveBytes(b, batch)
  \/ \E b \in Brand, c \in held : ReleaseLease(b, c)
  \/ \E c \in Caller : DropPlan(c)
  \/ \E c \in held : DropLease(c)

Spec == Init /\ [][Next]_vars

------------------------------------------------------------------------------
(* Type invariant: every ledger, plan and capability has its declared shape. *)
TypeOK ==
  /\ DOMAIN ledger = Brand /\ \A b \in Brand : IsLedger(ledger[b])
  /\ plan \in [Caller -> Plan \cup {NoPlan}]
  /\ held \subseteq Lease

(* The running totals the ledger keeps per device agree with its active    *)
(* leases after any interleaving of reservations and releases: no byte is  *)
(* lost by an aborted batch, counted twice, or dropped with a lease whose  *)
(* device entry was removed.                                               *)
Conservation ==
  \A b \in Brand, d \in Device : Reserved(ledger[b], d) = BytesOn(ledger[b].leases, d)

(* The grant is never over-committed: static claims plus the bytes of the  *)
(* active leases never exceed a device's capacity, whatever was prepared   *)
(* concurrently.                                                           *)
WithinCapacity ==
  \A b \in Brand, d \in Device :
    LET s == ledger[b].snap
    IN s.reserved[d] + s.committed[d] + BytesOn(ledger[b].leases, d) <= s.total[d]

(* Work is only ever charged to devices of the ledger's own grant that may *)
(* receive it, also when a plan prepared for another ledger is presented.  *)
LeasesOnUsableDevices ==
  \A b \in Brand : \A i \in DOMAIN ledger[b].leases :
    ledger[b].leases[i].dev \in ledger[b].snap.reservable

(* A lease in circulation is an active lease of the ledger that issued it, *)
(* with its device and bytes, and no two leases in circulation carry the   *)
(* same identity: a release can neither free bytes twice nor free somebody *)
(* else's.                                                                 *)
HeldLeasesAreActive ==
  /\ \A c \in held : /\ c.id \in DOMAIN ledger[c.brand].leases
                     /\ ledger[c.brand].leases[c.id] = Extent(c)
  /\ \A c1, c2 \in held : c1.brand = c2.brand /\ c1.id = c2.id => c1 = c2

(* Preparing reserves nothing, yet a plan whose revision is still current  *)
(* can only be refused at commit because an identifier is exhausted, never *)
(* because the bytes it was promised were taken meanwhile.                 *)
CurrentPlanStillFits ==
  \A c \in Caller : plan[c] # NoPlan =>
    LET l == ledger[plan[c].brand]
    IN plan[c].rev = l.rev =>
         \A d \in Device : BytesOn(plan[c].placements, d) <= Remaining(l, d)

(* The documentation of release: the refusals are a foreign lease and a    *)
(* lease that is not active, so the ledger that issued an active lease     *)
(* takes it back (as long as the revision can advance).                    *)
ActiveLeasesReleasable ==
  \A b \in Brand : ledger[b].rev < U64Max =>
    \A i \in DOMAIN ledger[b].leases :
      CanRelease(ledger[b], i, ledger[b].leases[i])
==============================================================================
