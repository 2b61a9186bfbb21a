--------------------------- MODULE PlacementLedger ---------------------------
(***************************************************************************)
(* The accounting functions of crates/placement: what remains on a device, *)
(* how a request is placed on devices, and what a reservation or a release *)
(* does to a ledger.  The module has no variables; ReservationLedger and   *)
(* Scheduler keep ledgers in theirs and change them with these operators.  *)
(*                                                                         *)
(* A ledger is a record                                                    *)
(*   snap    the pinned grant: total, reserved, committed bytes per device *)
(*           and the set of devices that may receive work                  *)
(*   dyn     device |-> dynamically reserved bytes, a partial function     *)
(*   leases  lease id |-> [dev, bytes] of every active lease               *)
(*   rev     the revision every mutation advances                          *)
(*   nextId  the next lease identifier                                     *)
(* A name that is undeclared, offline or of an unsupported architecture is *)
(* one that is not in snap.reservable: the code refuses (or, in a list of  *)
(* eligible devices, skips) the three alike.                               *)
(***************************************************************************)
EXTENDS Integers, FiniteSets, Sequences

CONSTANTS
  Device,   \* device identifiers a request may name
  U64Max    \* the largest machine word, small in a checked instance

ASSUME DeviceAssumption == IsFiniteSet(Device)
ASSUME WordAssumption == U64Max \in Nat \ {0}

Word == 0..U64Max
Placement == [dev : Device, bytes : Word]

(* A grant whose static claims fit: ReservationLedger::new refuses others. *)
Snapshot ==
  {s \in [total : [Device -> Word], reserved : [Device -> Word],
          committed : [Device -> Word], reservable : SUBSET Device] :
     \A d \in Device : s.reserved[d] + s.committed[d] <= s.total[d]}

Workload == [targets : Seq(Device), bytes : Word]

NewLedger(s) ==
  [snap |-> s, dyn |-> [d \in {} |-> 0], leases |-> [i \in {} |-> 0],
   rev |-> 0, nextId |-> 1]

------------------------------------------------------------------------------
(* Bytes a table of [dev, bytes] entries puts on d, counted unit by unit.  *)
(* A table is a batch of placements or the active leases of a ledger.      *)
UnitsOn(table, d) ==
  UNION {{k} \X (1..table[k].bytes) : k \in {j \in DOMAIN table : table[j].dev = d}}
BytesOn(table, d) == Cardinality(UnitsOn(table, d))

Reserved(l, d) == IF d \in DOMAIN l.dyn THEN l.dyn[d] ELSE 0

Remaining(l, d) ==
  l.snap.total[d] - l.snap.reserved[d] - l.snap.committed[d] - Reserved(l, d)

------------------------------------------------------------------------------
(* First fit.  free[d] is what is left before this workload is placed.     *)
Fits(s, free, d, bytes) == d \in s.reservable /\ bytes <= free[d]

SelectDevice(s, free, w, d) ==
  \E i \in DOMAIN w.targets :
     /\ w.targets[i] = d
     /\ Fits(s, free, d, w.bytes)
     /\ \A j \in 1..(i - 1) : ~Fits(s, free, w.targets[j], w.bytes)

(* What is left on each device once the first n placements are taken off.  *)
FreeAfter(l, ps, n) ==
  [d \in Device |-> Remaining(l, d) - BytesOn([i \in 1..n |-> ps[i]], d)]

(* The placements of a request, in its order: one sequence, or none when   *)
(* some workload fits nowhere and the whole request is refused.            *)
Placements(l, workloads) ==
  {ps \in {[i \in DOMAIN workloads |-> [dev |-> f[i], bytes |-> workloads[i].bytes]] :
             f \in [DOMAIN workloads -> Device]} :
     \A i \in DOMAIN workloads :
        SelectDevice(l.snap, FreeAfter(l, ps, i - 1), workloads[i], ps[i].dev)}

------------------------------------------------------------------------------
(* Reserving a batch: every check precedes every change.                   *)
(* Mutant: a batch checked piece by piece. *)
CanReservePieces(l, batch) ==
  /\ l.nextId + Len(batch) <= U64Max
  /\ l.rev < U64Max
  /\ \A i \in DOMAIN batch : batch[i].bytes <= Remaining(l, batch[i].dev)
CanReserve(l, batch) ==
  /\ l.nextId + Len(batch) <= U64Max
  /\ l.rev < U64Max
  /\ \A d \in Device : BytesOn(batch, d) <= Remaining(l, d)

NewIds(l, batch) == l.nextId .. (l.nextId + Len(batch) - 1)

(* Mutant: a revision that stands still. *)
ReserveSameRevision(l, batch) ==
  [snap |-> l.snap,
   dyn |-> [d \in DOMAIN l.dyn \cup {batch[i].dev : i \in DOMAIN batch} |->
              Reserved(l, d) + BytesOn(batch, d)],
   leases |-> [i \in DOMAIN l.leases \cup NewIds(l, batch) |->
                 IF i \in NewIds(l, batch) THEN batch[i - l.nextId + 1]
                 ELSE l.leases[i]],
   nextId |-> l.nextId + Len(batch),
   rev |-> l.rev]
Reserve(l, batch) ==
  [snap |-> l.snap,
   dyn |-> [d \in DOMAIN l.dyn \cup {batch[i].dev : i \in DOMAIN batch} |->
              Reserved(l, d) + BytesOn(batch, d)],
   leases |-> [i \in DOMAIN l.leases \cup NewIds(l, batch) |->
                 IF i \in NewIds(l, batch) THEN batch[i - l.nextId + 1]
                 ELSE l.leases[i]],
   nextId |-> l.nextId + Len(batch),
   rev |-> l.rev + 1]

(* Releasing one lease.  The entry of a device that reaches zero is        *)
(* removed, and a release needs the entry.                                 *)
CanRelease(l, id, p) ==
  /\ id \in DOMAIN l.leases
  /\ l.leases[id] = p
  /\ p.dev \in DOMAIN l.dyn
  /\ p.bytes <= l.dyn[p.dev]
  /\ l.rev < U64Max

(* Mutant: the first release on a device forgets its whole entry. *)
ReleaseDropsEntry(l, id) ==
  [snap |-> l.snap,
   dyn |-> [d \in DOMAIN l.dyn \ {l.leases[id].dev} |-> l.dyn[d]],
   leases |-> [i \in DOMAIN l.leases \ {id} |-> l.leases[i]],
   nextId |-> l.nextId,
   rev |-> l.rev + 1]
Release(l, id) ==
  LET p == l.leases[id]
      left == l.dyn[p.dev] - p.bytes
      kept == IF left = 0 THEN DOMAIN l.dyn \ {p.dev} ELSE DOMAIN l.dyn
  IN [snap |-> l.snap,
      dyn |-> [d \in kept |-> IF d = p.dev THEN left ELSE l.dyn[d]],
      leases |-> [i \in DOMAIN l.leases \ {id} |-> l.leases[i]],
      nextId |-> l.nextId,
      rev |-> l.rev + 1]

------------------------------------------------------------------------------
(* The shape of every ledger these operators lead to. *)
IsLedger(l) ==
  /\ l.snap \in Snapshot
  /\ DOMAIN l.dyn \subseteq Device
  /\ \A d \in DOMAIN l.dyn : l.dyn[d] \in Word
  /\ DOMAIN l.leases \subseteq 1..(l.nextId - 1)
  /\ \A i \in DOMAIN l.leases : l.leases[i] \in Placement
  /\ l.rev \in Word
  /\ l.nextId \in Word \ {0}
==============================================================================
