---------------------- MODULE ReservationLedger_proofs ----------------------
(***************************************************************************)
(* Theorems about ReservationLedger for every set of ledgers, callers and  *)
(* devices, every word size, every grant and every request.  The inductive *)
(* invariant joins the agreement of totals and leases, without which a     *)
(* check against the totals says nothing about the leases, with the        *)
(* devices a plan in hand may name.                                        *)
(***************************************************************************)
EXTENDS ReservationLedger, FiniteSetTheorems, FunctionTheorems, WellFoundedInduction, TLAPS

------------------------------------------------------------------------------
(* PlacementLedger: what reserving and releasing do to a ledger.  Its shape *)
(* is kept, and the bytes its active leases put on a device change by       *)
(* exactly the batch or the lease.                                          *)

(* A finite table of placements: a batch or the active leases of a ledger. *)
IsTable(t) == IsFiniteSet(DOMAIN t) /\ \A k \in DOMAIN t : t[k] \in Placement

(* A batch in the code is a vector of placements, so it is a table. *)
LEMMA BatchIsTable ==
  ASSUME NEW batch \in Seq(Placement)
  PROVE  IsTable(batch)
<1>1. DOMAIN batch = 1..Len(batch) /\ Len(batch) \in Nat
  OBVIOUS
<1>2. IsFiniteSet(DOMAIN batch)
  BY <1>1, FS_Interval
<1> QED
  BY <1>2 DEF IsTable

(* Lease identifiers are handed out in order, so the active leases of a    *)
(* ledger are finitely many. *)
LEMMA LeasesAreTable ==
  ASSUME NEW l, IsLedger(l)
  PROVE  IsTable(l.leases)
<1>1. DOMAIN l.leases \in SUBSET (1..(l.nextId - 1)) /\ l.nextId - 1 \in Int
  BY WordAssumption DEF IsLedger, Word
<1>2. IsFiniteSet(DOMAIN l.leases)
  BY <1>1, FS_Interval, FS_Subset
<1> QED
  BY <1>2 DEF IsTable, IsLedger

(* The units of a table, one by one. *)
LEMMA UnitsOnMember ==
  ASSUME NEW t, NEW d, NEW x
  PROVE  x \in UnitsOn(t, d) <=>
           \E k \in DOMAIN t, m \in Int :
             t[k].dev = d /\ m \in 1..t[k].bytes /\ x = <<k, m>>
  BY DEF UnitsOn

(* The bytes a table puts on a device are a finite number. *)
LEMMA BytesOnNat ==
  ASSUME NEW t, IsTable(t), NEW d
  PROVE  IsFiniteSet(UnitsOn(t, d)) /\ BytesOn(t, d) \in Nat
<1> DEFINE All == (DOMAIN t) \X (1..U64Max)
<1>1. IsFiniteSet(1..U64Max)
  BY FS_Interval, WordAssumption
<1>2. IsFiniteSet(DOMAIN t)
  BY DEF IsTable
<1>3. IsFiniteSet(All)
  BY <1>1, <1>2, FS_Product
<1>4. ASSUME NEW x \in UnitsOn(t, d)
      PROVE  x \in All
  <2>1. PICK k \in DOMAIN t, m \in Int : m \in 1..t[k].bytes /\ x = <<k, m>>
    BY <1>4, UnitsOnMember
  <2>2. t[k].bytes \in Nat /\ t[k].bytes <= U64Max
    BY WordAssumption DEF IsTable, Placement, Word
  <2> QED
    BY <2>1, <2>2, WordAssumption
<1>5. UnitsOn(t, d) \in SUBSET All
  BY <1>4
<1>6. IsFiniteSet(UnitsOn(t, d))
  BY <1>3, <1>5, FS_Subset
<1> QED
  BY <1>6, FS_CardinalityType DEF BytesOn

(* Two tables whose units, up to a renaming of identifiers, make up those  *)
(* of a third. *)
LEMMA BytesAddUp ==
  ASSUME NEW S, NEW A, NEW B, NEW f,
         IsFiniteSet(A), IsFiniteSet(B),
         f \in Bijection(B, S \ A), A \subseteq S
  PROVE  Cardinality(S) = Cardinality(A) + Cardinality(B)
<1>1. ExistsBijection(B, S \ A)
  BY DEF ExistsBijection
<1>2. IsFiniteSet(S \ A) /\ Cardinality(S \ A) = Cardinality(B)
  BY <1>1, FS_Bijection
<1>3. Cardinality(A \cup (S \ A)) =
        Cardinality(A) + Cardinality(S \ A) - Cardinality(A \cap (S \ A))
  BY <1>2, FS_Union
<1>4. A \cup (S \ A) = S /\ A \cap (S \ A) = {}
  OBVIOUS
<1>5. Cardinality(A) \in Nat /\ Cardinality(B) \in Nat /\ Cardinality({}) = 0
  BY FS_CardinalityType, FS_EmptySet
<1>6. Cardinality(A \cup (S \ A)) = Cardinality(S)
  BY <1>4
<1>7. Cardinality(A \cap (S \ A)) = 0
  BY <1>4, <1>5
<1> QED
  BY <1>2, <1>3, <1>5, <1>6, <1>7

(* apply_reservation inserts one record per piece under fresh identifiers, *)
(* so the active leases gain exactly the bytes of the batch. *)
LEMMA BytesOfReserve ==
  ASSUME NEW l, IsLedger(l), NEW batch \in Seq(Placement), NEW d
  PROVE  BytesOn(Reserve(l, batch).leases, d) = BytesOn(l.leases, d) + BytesOn(batch, d)
<1> DEFINE new == Reserve(l, batch).leases
           A == UnitsOn(l.leases, d)
           B == UnitsOn(batch, d)
           S == UnitsOn(new, d)
           f == [u \in B |-> <<u[1] + l.nextId - 1, u[2]>>]
<1>1. /\ l.nextId \in Nat \ {0}
      /\ \A k \in DOMAIN l.leases : k \in Nat /\ k < l.nextId
  BY WordAssumption DEF IsLedger, Word
<1>2. DOMAIN batch = 1..Len(batch) /\ Len(batch) \in Nat
  OBVIOUS
<1>3. NewIds(l, batch) = l.nextId .. (l.nextId + Len(batch) - 1)
  BY DEF NewIds
<1>4. /\ DOMAIN new = DOMAIN l.leases \cup NewIds(l, batch)
      /\ \A k \in DOMAIN new : new[k] = IF k \in NewIds(l, batch)
                                       THEN batch[k - l.nextId + 1] ELSE l.leases[k]
  BY DEF Reserve
<1>5. \A k \in DOMAIN l.leases : k \in DOMAIN new /\ new[k] = l.leases[k]
  BY <1>1, <1>2, <1>3, <1>4
<1>6. \A i \in DOMAIN batch : /\ i + l.nextId - 1 \in DOMAIN new
                              /\ new[i + l.nextId - 1] = batch[i]
                              /\ i + l.nextId - 1 \notin DOMAIN l.leases
  <2> SUFFICES ASSUME NEW i \in DOMAIN batch
               PROVE  /\ i + l.nextId - 1 \in DOMAIN new
                      /\ new[i + l.nextId - 1] = batch[i]
                      /\ i + l.nextId - 1 \notin DOMAIN l.leases
    OBVIOUS
  <2> DEFINE k == i + l.nextId - 1
  <2>1. k \in NewIds(l, batch) /\ k \in DOMAIN new
    BY <1>1, <1>2, <1>3, <1>4
  <2>2. k - l.nextId + 1 = i
    BY <1>1, <1>2
  <2>3. new[k] = batch[k - l.nextId + 1]
    BY <2>1, <1>4
  <2>4. k \notin DOMAIN l.leases
    BY <1>1, <1>2
  <2> QED
    BY <2>1, <2>2, <2>3, <2>4
<1>7. \A k \in DOMAIN new : k \in DOMAIN l.leases
                            \/ \E i \in DOMAIN batch : k = i + l.nextId - 1
  <2> SUFFICES ASSUME NEW k \in NewIds(l, batch)
               PROVE  \E i \in DOMAIN batch : k = i + l.nextId - 1
    BY <1>4
  <2>1. k - l.nextId + 1 \in DOMAIN batch
    BY <1>1, <1>2, <1>3
  <2>2. k = (k - l.nextId + 1) + l.nextId - 1
    BY <1>1, <1>3
  <2> QED
    BY <2>1, <2>2
<1>8. A \subseteq S
  <2> SUFFICES ASSUME NEW x \in A
               PROVE  x \in S
    OBVIOUS
  <2>1. PICK k \in DOMAIN l.leases, m \in Int :
          l.leases[k].dev = d /\ m \in 1..l.leases[k].bytes /\ x = <<k, m>>
    BY UnitsOnMember
  <2> QED
    BY <2>1, <1>5, UnitsOnMember
<1>9. \A u \in B : f[u] \in S \ A
  <2> SUFFICES ASSUME NEW u \in B
               PROVE  <<u[1] + l.nextId - 1, u[2]>> \in S \ A
    OBVIOUS
  <2>1. PICK i \in DOMAIN batch, m \in Int :
          batch[i].dev = d /\ m \in 1..batch[i].bytes /\ u = <<i, m>>
    BY UnitsOnMember
  <2>2. <<i + l.nextId - 1, m>> \in S
    BY <2>1, <1>6, UnitsOnMember
  <2>3. <<i + l.nextId - 1, m>> \notin A
    BY <2>1, <1>6, UnitsOnMember
  <2> QED
    BY <2>1, <2>2, <2>3
<1>10. \A x \in S \ A : \E u \in B : f[u] = x
  <2> SUFFICES ASSUME NEW x \in S \ A
               PROVE  \E u \in B : <<u[1] + l.nextId - 1, u[2]>> = x
    OBVIOUS
  <2>1. PICK k \in DOMAIN new, m \in Int :
          new[k].dev = d /\ m \in 1..new[k].bytes /\ x = <<k, m>>
    BY UnitsOnMember
  <2>2. k \notin DOMAIN l.leases
    BY <2>1, <1>5, UnitsOnMember
  <2>3. PICK i \in DOMAIN batch : k = i + l.nextId - 1
    BY <2>2, <1>7
  <2>4. <<i, m>> \in B
    BY <2>1, <2>3, <1>6, UnitsOnMember
  <2> QED
    BY <2>1, <2>3, <2>4
<1>11. \A u, v \in B : f[u] = f[v] => u = v
  <2> SUFFICES ASSUME NEW u \in B, NEW v \in B, f[u] = f[v]
               PROVE  u = v
    OBVIOUS
  <2>1. PICK i \in DOMAIN batch, m \in Int : u = <<i, m>>
    BY UnitsOnMember
  <2>2. PICK j \in DOMAIN batch, n \in Int : v = <<j, n>>
    BY UnitsOnMember
  <2>3. i + l.nextId - 1 = j + l.nextId - 1 /\ m = n
    BY <2>1, <2>2
  <2> QED
    BY <2>1, <2>2, <2>3, <1>1, <1>2
<1>12. f \in Bijection(B, S \ A)
  <2>1. f \in [B -> S \ A]
    BY <1>9
  <2> HIDE DEF f, B, S, A
  <2> QED
    BY <2>1, <1>10, <1>11, Fun_IsBij
<1>13. IsFiniteSet(A) /\ IsFiniteSet(B)
  BY BytesOnNat, BatchIsTable, LeasesAreTable
<1> HIDE DEF f, A, B, S
<1>14. Cardinality(S) = Cardinality(A) + Cardinality(B)
  BY <1>8, <1>12, <1>13, BytesAddUp
<1> QED
  BY <1>14 DEF BytesOn, A, B, S

(* A table without one of its entries: exactly the bytes of that entry     *)
(* leave its device.  Entries for other devices do not matter. *)
LEMMA BytesOfRemoval ==
  ASSUME NEW t, IsTable(t), NEW id \in DOMAIN t, NEW t2,
         \A k : (k \in DOMAIN t2 /\ t2[k].dev = t[id].dev)
                  <=> (k \in DOMAIN t /\ t[k].dev = t[id].dev /\ k # id),
         \A k \in DOMAIN t2 : t2[k] = t[k]
  PROVE  BytesOn(t, t[id].dev) = BytesOn(t2, t[id].dev) + t[id].bytes
<1> DEFINE d == t[id].dev
           n == t[id].bytes
           A == UnitsOn(t2, d)
           B == 1..n
           S == UnitsOn(t, d)
           f == [m \in B |-> <<id, m>>]
<1>1. n \in Nat
  BY WordAssumption DEF IsTable, Placement, Word
<1>2. A \subseteq S
  <2> SUFFICES ASSUME NEW x \in A
               PROVE  x \in S
    OBVIOUS
  <2>1. PICK k \in DOMAIN t2, m \in Int :
          t2[k].dev = d /\ m \in 1..t2[k].bytes /\ x = <<k, m>>
    BY UnitsOnMember
  <2>2. k \in DOMAIN t /\ t[k].dev = d /\ t2[k] = t[k]
    BY <2>1
  <2> QED
    BY <2>1, <2>2, UnitsOnMember
<1>3. \A m \in B : f[m] \in S \ A
  <2> SUFFICES ASSUME NEW m \in B
               PROVE  <<id, m>> \in S \ A
    OBVIOUS
  <2>1. <<id, m>> \in S
    BY <1>1, UnitsOnMember
  <2>2. <<id, m>> \notin A
    BY UnitsOnMember
  <2> QED
    BY <2>1, <2>2
<1>4. \A x \in S \ A : \E m \in B : f[m] = x
  <2> SUFFICES ASSUME NEW x \in S \ A
               PROVE  \E m \in B : <<id, m>> = x
    OBVIOUS
  <2>1. PICK k \in DOMAIN t, m \in Int :
          t[k].dev = d /\ m \in 1..t[k].bytes /\ x = <<k, m>>
    BY UnitsOnMember
  <2>2. k = id
    <3>1. SUFFICES ASSUME k # id PROVE FALSE
      OBVIOUS
    <3>2. k \in DOMAIN t2 /\ t2[k].dev = d /\ t2[k] = t[k]
      BY <2>1, <3>1
    <3> QED
      BY <2>1, <3>2, UnitsOnMember
  <2> QED
    BY <2>1, <2>2
<1>5. \A m, k \in B : f[m] = f[k] => m = k
  OBVIOUS
<1>6. f \in Bijection(B, S \ A)
  <2>1. f \in [B -> S \ A]
    BY <1>3
  <2> HIDE DEF f, B, S, A
  <2> QED
    BY <2>1, <1>4, <1>5, Fun_IsBij
<1>7. IsFiniteSet(S) /\ IsFiniteSet(B) /\ Cardinality(B) = n
  <2>1. IsFiniteSet(S)
    BY BytesOnNat
  <2>2. IsFiniteSet(1..n) /\ Cardinality(1..n) = IF 1 > n THEN 0 ELSE n - 1 + 1
    <3> HIDE DEF n
    <3> QED
      BY <1>1, FS_Interval
  <2> QED
    BY <2>1, <2>2, <1>1
<1>8. IsFiniteSet(A)
  BY <1>2, <1>7, FS_Subset
<1> HIDE DEF f, A, B, S, n, d
<1>9. Cardinality(S) = Cardinality(A) + Cardinality(B)
  BY <1>2, <1>6, <1>7, <1>8, BytesAddUp
<1> QED
  BY <1>7, <1>9 DEF BytesOn, A, S, n, d

(* release_lease removes one record: exactly its bytes leave its device. *)
LEMMA BytesOfRelease ==
  ASSUME NEW l, IsLedger(l), NEW id \in DOMAIN l.leases, NEW d
  PROVE  BytesOn(l.leases, d) =
           BytesOn(Release(l, id).leases, d)
             + (IF l.leases[id].dev = d THEN l.leases[id].bytes ELSE 0)
<1> DEFINE new == Release(l, id).leases
<1>1. /\ DOMAIN new = DOMAIN l.leases \ {id}
      /\ \A k \in DOMAIN new : new[k] = l.leases[k]
  BY DEF Release
<1> HIDE DEF new
<1>2. IsTable(l.leases)
  BY LeasesAreTable
<1>3. CASE l.leases[id].dev = d
  <2>1. BytesOn(l.leases, l.leases[id].dev) =
          BytesOn(new, l.leases[id].dev) + l.leases[id].bytes
    BY <1>1, <1>2, BytesOfRemoval
  <2> QED
    BY <2>1, <1>3 DEF new
<1>4. CASE l.leases[id].dev # d
  <2>1. UnitsOn(l.leases, d) = UnitsOn(new, d)
    BY <1>1, <1>4, UnitsOnMember DEF UnitsOn
  <2>2. BytesOn(l.leases, d) \in Nat
    BY <1>2, BytesOnNat
  <2> QED
    BY <2>1, <2>2, <1>4 DEF BytesOn, new
<1> QED
  BY <1>3, <1>4

(* The running totals agree with the active leases. *)
Balanced(l) == \A d \in Device : Reserved(l, d) = BytesOn(l.leases, d)

(* The active leases and the static claims fit in the grant. *)
Affordable(l) ==
  \A d \in Device :
    l.snap.reserved[d] + l.snap.committed[d] + BytesOn(l.leases, d) <= l.snap.total[d]

(* Every quantity of a ledger the checks compare is a natural number. *)
LEMMA LedgerNumbers ==
  ASSUME NEW l, IsLedger(l), NEW d \in Device
  PROVE  /\ l.snap.total[d] \in Word
         /\ l.snap.reserved[d] \in Nat
         /\ l.snap.committed[d] \in Nat
         /\ Reserved(l, d) \in Word
         /\ l.nextId \in Nat \ {0}
         /\ l.rev \in Word
<1>1. l.snap \in Snapshot
  BY DEF IsLedger
<1>2. /\ l.snap.total[d] \in Word
      /\ l.snap.reserved[d] \in Word
      /\ l.snap.committed[d] \in Word
  BY <1>1 DEF Snapshot
<1>3. Reserved(l, d) \in Word
  BY WordAssumption DEF IsLedger, Reserved, Word
<1> QED
  BY <1>2, <1>3, WordAssumption DEF IsLedger, Word

(* A batch that passes every check leaves a ledger of the declared shape:  *)
(* no word overflows and no identifier is handed out twice. *)
LEMMA ReserveIsLedger ==
  ASSUME NEW l, IsLedger(l), NEW batch \in Seq(Placement), CanReserve(l, batch)
  PROVE  IsLedger(Reserve(l, batch))
<1> DEFINE new == Reserve(l, batch)
<1>1. DOMAIN batch = 1..Len(batch) /\ Len(batch) \in Nat
  OBVIOUS
<1>2. \A i \in DOMAIN batch : batch[i] \in Placement
  OBVIOUS
<1>3. /\ new.snap = l.snap
      /\ new.nextId = l.nextId + Len(batch)
      /\ new.rev = l.rev + 1
      /\ DOMAIN new.dyn = DOMAIN l.dyn \cup {batch[i].dev : i \in DOMAIN batch}
      /\ \A d \in DOMAIN new.dyn : new.dyn[d] = Reserved(l, d) + BytesOn(batch, d)
      /\ DOMAIN new.leases = DOMAIN l.leases \cup NewIds(l, batch)
      /\ \A k \in DOMAIN new.leases :
            new.leases[k] = IF k \in NewIds(l, batch)
                            THEN batch[k - l.nextId + 1] ELSE l.leases[k]
  BY DEF Reserve
<1>4. l.nextId \in Nat \ {0} /\ l.rev \in Nat
  BY WordAssumption DEF IsLedger, Word
<1>5. DOMAIN new.dyn \subseteq Device
  BY <1>2, <1>3 DEF IsLedger, Placement
<1>6. ASSUME NEW d \in DOMAIN new.dyn
      PROVE  new.dyn[d] \in Word
  <2>1. d \in Device
    BY <1>5
  <2>2. BytesOn(batch, d) \in Nat
    BY BatchIsTable, BytesOnNat
  <2>3. BytesOn(batch, d) <= Remaining(l, d)
    BY <2>1 DEF CanReserve
  <2>4. /\ l.snap.total[d] \in Word /\ l.snap.reserved[d] \in Nat
        /\ l.snap.committed[d] \in Nat /\ Reserved(l, d) \in Word
    BY <2>1, LedgerNumbers
  <2>5. new.dyn[d] = Reserved(l, d) + BytesOn(batch, d)
    BY <1>3
  <2>6. ASSUME NEW t \in Word, NEW s \in Nat, NEW c \in Nat, NEW r \in Nat,
               NEW n \in Nat, n <= t - s - c - r
        PROVE  r + n \in Word
    BY <2>6, WordAssumption DEF Word
  <2>7. Reserved(l, d) \in Nat
    BY <2>4, WordAssumption DEF Word
  <2>8. BytesOn(batch, d)
          <= l.snap.total[d] - l.snap.reserved[d] - l.snap.committed[d] - Reserved(l, d)
    BY <2>3 DEF Remaining
  <2>9. Reserved(l, d) + BytesOn(batch, d) \in Word
    BY ONLY <2>2, <2>4, <2>6, <2>7, <2>8
  <2> QED
    BY ONLY <2>5, <2>9
<1>7. NewIds(l, batch) = l.nextId .. (l.nextId + Len(batch) - 1)
  BY DEF NewIds
<1>8. DOMAIN new.leases \subseteq 1..(new.nextId - 1)
  <2>1. DOMAIN l.leases \subseteq 1..(l.nextId - 1)
    BY DEF IsLedger
  <2> HIDE DEF new
  <2> QED
    BY <2>1, <1>1, <1>3, <1>4, <1>7
<1>9. \A k \in DOMAIN new.leases : new.leases[k] \in Placement
  <2> SUFFICES ASSUME NEW k \in DOMAIN new.leases
               PROVE  new.leases[k] \in Placement
    OBVIOUS
  <2>1. CASE k \in NewIds(l, batch)
    <3>1. k - l.nextId + 1 \in DOMAIN batch
      BY <2>1, <1>1, <1>4, <1>7
    <3>2. new.leases[k] = batch[k - l.nextId + 1]
      BY <2>1, <1>3
    <3> QED
      BY <3>1, <3>2, <1>2
  <2>2. CASE k \notin NewIds(l, batch)
    BY <2>2, <1>3 DEF IsLedger
  <2> QED
    BY <2>1, <2>2
<1>10. new.rev \in Word /\ new.nextId \in Word \ {0}
  BY <1>1, <1>3, <1>4, WordAssumption DEF CanReserve, Word
<1>11. new.snap \in Snapshot
  BY <1>3 DEF IsLedger
<1> HIDE DEF new
<1>12. IsLedger(new)
  BY <1>5, <1>6, <1>8, <1>9, <1>10, <1>11 DEF IsLedger
<1> QED
  BY <1>12 DEF new

(* Reserving keeps the totals in agreement with the leases. *)
LEMMA ReserveIsBalanced ==
  ASSUME NEW l, IsLedger(l), Balanced(l), NEW batch \in Seq(Placement)
  PROVE  Balanced(Reserve(l, batch))
<1> SUFFICES ASSUME NEW d \in Device
             PROVE  Reserved(Reserve(l, batch), d) = BytesOn(Reserve(l, batch).leases, d)
  BY DEF Balanced
<1>1. BytesOn(Reserve(l, batch).leases, d) = BytesOn(l.leases, d) + BytesOn(batch, d)
  BY BytesOfReserve
<1>2. Reserved(l, d) = BytesOn(l.leases, d) /\ Reserved(l, d) \in Nat
  BY LedgerNumbers DEF Balanced, Word
<1>3. CASE d \in DOMAIN l.dyn \cup {batch[i].dev : i \in DOMAIN batch}
  <2>1. Reserved(Reserve(l, batch), d) = Reserved(l, d) + BytesOn(batch, d)
    BY <1>3 DEF Reserve, Reserved
  <2> QED
    BY <2>1, <1>1, <1>2
<1>4. CASE d \notin DOMAIN l.dyn \cup {batch[i].dev : i \in DOMAIN batch}
  <2>1. Reserved(Reserve(l, batch), d) = 0 /\ Reserved(l, d) = 0
    BY <1>4 DEF Reserve, Reserved
  <2>2. \A k \in DOMAIN batch : batch[k].dev # d
    BY <1>4
  <2>3. UnitsOn(batch, d) = {}
    BY <2>2, UnitsOnMember
  <2>4. BytesOn(batch, d) = 0
    BY <2>3, FS_EmptySet DEF BytesOn
  <2> QED
    BY <2>1, <2>4, <1>1, <1>2
<1> QED
  BY <1>3, <1>4

(* A batch that passes every check fits beside what is already there. *)
LEMMA ReserveIsAffordable ==
  ASSUME NEW l, IsLedger(l), Balanced(l),
         NEW batch \in Seq(Placement), CanReserve(l, batch)
  PROVE  Affordable(Reserve(l, batch))
<1> SUFFICES ASSUME NEW d \in Device
             PROVE  l.snap.reserved[d] + l.snap.committed[d]
                      + BytesOn(Reserve(l, batch).leases, d) <= l.snap.total[d]
  BY DEF Affordable, Reserve
<1>1. BytesOn(Reserve(l, batch).leases, d) = BytesOn(l.leases, d) + BytesOn(batch, d)
  BY BytesOfReserve
<1>2. BytesOn(batch, d) <= Remaining(l, d)
  BY DEF CanReserve
<1>3. Reserved(l, d) = BytesOn(l.leases, d)
  BY DEF Balanced
<1>4. BytesOn(batch, d) \in Nat
  BY BatchIsTable, BytesOnNat
<1>5. /\ l.snap.total[d] \in Nat /\ l.snap.reserved[d] \in Nat
      /\ l.snap.committed[d] \in Nat /\ Reserved(l, d) \in Nat
  BY LedgerNumbers, WordAssumption DEF Word
<1> QED
  BY <1>1, <1>2, <1>3, <1>4, <1>5 DEF Remaining

(* Releasing an active lease leaves a ledger of the declared shape. *)
LEMMA ReleaseIsLedger ==
  ASSUME NEW l, IsLedger(l), NEW id, NEW p, CanRelease(l, id, p)
  PROVE  IsLedger(Release(l, id))
<1> DEFINE new == Release(l, id)
           left == l.dyn[p.dev] - p.bytes
<1>1. l.leases[id] = p /\ id \in DOMAIN l.leases /\ p \in Placement
  BY DEF CanRelease, IsLedger
<1>2. left \in Word
  <2>1. l.dyn[p.dev] \in Word /\ p.bytes \in Word /\ p.bytes <= l.dyn[p.dev]
    BY <1>1 DEF CanRelease, IsLedger, Placement
  <2> QED
    BY <2>1, WordAssumption DEF Word
<1>3. /\ new.snap = l.snap /\ new.nextId = l.nextId /\ new.rev = l.rev + 1
      /\ DOMAIN new.leases = DOMAIN l.leases \ {id}
      /\ \A k \in DOMAIN new.leases : new.leases[k] = l.leases[k]
  BY DEF Release
<1>4. /\ DOMAIN new.dyn \subseteq DOMAIN l.dyn
      /\ \A d \in DOMAIN new.dyn : new.dyn[d] = IF d = p.dev THEN left ELSE l.dyn[d]
  BY <1>1 DEF Release
<1>5. new.rev \in Word
  BY <1>3, WordAssumption DEF CanRelease, IsLedger, Word
<1> HIDE DEF new, left
<1>6. \A d \in DOMAIN new.dyn : new.dyn[d] \in Word
  BY <1>2, <1>4 DEF IsLedger
<1>7. IsLedger(new)
  BY <1>3, <1>4, <1>5, <1>6 DEF IsLedger
<1> QED
  BY <1>7 DEF new

(* Releasing keeps the totals in agreement with the leases, also when the  *)
(* entry of the device is removed because it reached zero. *)
LEMMA ReleaseIsBalanced ==
  ASSUME NEW l, IsLedger(l), Balanced(l), NEW id, NEW p, CanRelease(l, id, p)
  PROVE  Balanced(Release(l, id))
<1> SUFFICES ASSUME NEW d \in Device
             PROVE  Reserved(Release(l, id), d) = BytesOn(Release(l, id).leases, d)
  BY DEF Balanced
<1>1. l.leases[id] = p /\ id \in DOMAIN l.leases /\ p \in Placement
  BY DEF CanRelease, IsLedger
<1>2. BytesOn(l.leases, d) =
        BytesOn(Release(l, id).leases, d) + (IF p.dev = d THEN p.bytes ELSE 0)
  BY <1>1, BytesOfRelease
<1>3. BytesOn(l.leases, d) = Reserved(l, d) /\ Reserved(l, d) \in Nat
  BY LedgerNumbers DEF Balanced, Word
<1>4. IsLedger(Release(l, id))
  BY ReleaseIsLedger
<1>5. BytesOn(Release(l, id).leases, d) \in Nat
  BY <1>4, LeasesAreTable, BytesOnNat
<1>6. p.bytes \in Nat /\ p.dev \in DOMAIN l.dyn
  BY <1>1 DEF Placement, Word, CanRelease
<1>7. CASE p.dev = d
  <2>1. Reserved(l, d) = l.dyn[d]
    BY <1>6, <1>7 DEF Reserved
  <2>2. Reserved(Release(l, id), d) = l.dyn[d] - p.bytes
    BY <1>1, <1>6, <1>7 DEF Release, Reserved
  <2> QED
    BY <2>1, <2>2, <1>2, <1>3, <1>5, <1>6, <1>7
<1>8. CASE p.dev # d
  <2>1. Reserved(Release(l, id), d) = Reserved(l, d)
    BY <1>1, <1>8 DEF Release, Reserved
  <2> QED
    BY <2>1, <1>2, <1>3, <1>5, <1>8
<1> QED
  BY <1>7, <1>8

(* Releasing never takes a ledger over its grant. *)
LEMMA ReleaseIsAffordable ==
  ASSUME NEW l, IsLedger(l), Affordable(l), NEW id, NEW p, CanRelease(l, id, p)
  PROVE  Affordable(Release(l, id))
<1> SUFFICES ASSUME NEW d \in Device
             PROVE  l.snap.reserved[d] + l.snap.committed[d]
                      + BytesOn(Release(l, id).leases, d) <= l.snap.total[d]
  BY DEF Affordable, Release
<1>1. l.leases[id] = p /\ id \in DOMAIN l.leases /\ p \in Placement
  BY DEF CanRelease, IsLedger
<1>2. BytesOn(l.leases, d) =
        BytesOn(Release(l, id).leases, d) + (IF p.dev = d THEN p.bytes ELSE 0)
  BY <1>1, BytesOfRelease
<1>3. IsLedger(Release(l, id))
  BY ReleaseIsLedger
<1>4. BytesOn(Release(l, id).leases, d) \in Nat
  BY <1>3, LeasesAreTable, BytesOnNat
<1>5. p.bytes \in Nat
  BY <1>1 DEF Placement, Word
<1>6. l.snap.total[d] \in Nat /\ l.snap.reserved[d] \in Nat /\ l.snap.committed[d] \in Nat
  BY LedgerNumbers, WordAssumption DEF Word
<1>7. l.snap.reserved[d] + l.snap.committed[d] + BytesOn(l.leases, d) <= l.snap.total[d]
  BY DEF Affordable
<1> QED
  BY <1>2, <1>4, <1>5, <1>6, <1>7

(* The last entry of a batch that is placed on a device, if any is. *)
LEMMA LastOnDevice ==
  ASSUME NEW ps \in Seq(Placement), NEW d, \E i \in DOMAIN ps : ps[i].dev = d
  PROVE  \E i \in DOMAIN ps :
           ps[i].dev = d /\ \A k \in DOMAIN ps : ps[k].dev = d => k <= i
<1> DEFINE Back == {Len(ps) - i : i \in {j \in DOMAIN ps : ps[j].dev = d}}
<1>1. DOMAIN ps = 1..Len(ps) /\ Len(ps) \in Nat
  OBVIOUS
<1>2. Back \in SUBSET Nat /\ Back # {}
  BY <1>1
<1>3. PICK m \in Back : \A n \in Back : m <= n
  <2> DEFINE Less == OpToRel(<, Nat)
  <2> HIDE DEF Back
  <2>1. IsWellFoundedOn(Less, Nat)
    BY NatLessThanWellFounded
  <2>2. PICK m \in Back : \A n \in Back : <<n, m>> \notin Less
    <3> HIDE DEF Less
    <3> QED
      BY <2>1, <1>2, WFMin
  <2>3. \A n \in Back : ~(n < m)
    BY <1>2, <2>2 DEF OpToRel
  <2> QED
    BY <1>2, <2>3
<1>4. PICK i \in DOMAIN ps : ps[i].dev = d /\ m = Len(ps) - i
  OBVIOUS
<1>5. ASSUME NEW k \in DOMAIN ps, ps[k].dev = d
      PROVE  k <= i
  <2>1. Len(ps) - k \in Back
    BY <1>5
  <2>2. Len(ps) - i <= Len(ps) - k
    BY <2>1, <1>3, <1>4
  <2> QED
    BY <2>2, <1>1
<1> QED
  BY <1>4, <1>5

(* First fit subtracts each placement before the next one is chosen, so a  *)
(* request it places fits as a whole on every device. *)
LEMMA PlacementsFit ==
  ASSUME NEW l, IsLedger(l), \A d \in Device : 0 <= Remaining(l, d),
         NEW ws \in Seq(Workload), NEW ps \in Placements(l, ws),
         ps \in Seq(Placement), NEW d \in Device
  PROVE  BytesOn(ps, d) <= Remaining(l, d)
<1>1. /\ DOMAIN ps = DOMAIN ws
      /\ \A i \in DOMAIN ps : ps[i].bytes = ws[i].bytes
      /\ \A i \in DOMAIN ps :
           SelectDevice(l.snap, FreeAfter(l, ps, i - 1), ws[i], ps[i].dev)
  BY DEF Placements
<1>2. CASE \E i \in DOMAIN ps : ps[i].dev = d
  <2>1. PICK i \in DOMAIN ps :
          ps[i].dev = d /\ \A k \in DOMAIN ps : ps[k].dev = d => k <= i
    BY <1>2, LastOnDevice
  <2> DEFINE before == [j \in 1..(i - 1) |-> ps[j]]
  <2>2. DOMAIN ps = 1..Len(ps) /\ Len(ps) \in Nat /\ i \in Nat
    OBVIOUS
  <2>3. ps[i].bytes <= Remaining(l, d) - BytesOn(before, d)
    BY <1>1, <2>1 DEF SelectDevice, Fits, FreeAfter
  <2>4. /\ DOMAIN before = 1..(i - 1)
        /\ \A k \in DOMAIN before : k \in DOMAIN ps /\ before[k] = ps[k]
    BY <2>2
  <2>5. IsTable(ps)
    BY BatchIsTable
  <2> HIDE DEF before
  <2>6. IsTable(before)
    <3>1. IsFiniteSet(1..(i - 1))
      BY <2>2, FS_Interval
    <3> QED
      BY <3>1, <2>4, <2>5 DEF IsTable
  <2>7. \A k : (k \in DOMAIN before /\ before[k].dev = ps[i].dev)
               <=> (k \in DOMAIN ps /\ ps[k].dev = ps[i].dev /\ k # i)
    <3>1. \A k \in DOMAIN ps : ps[k].dev = d /\ k # i => k \in DOMAIN before
      BY <2>1, <2>2, <2>4
    <3>2. i \notin DOMAIN before
      BY <2>2, <2>4
    <3> QED
      BY <3>1, <3>2, <2>1, <2>4
  <2>8. BytesOn(ps, ps[i].dev) = BytesOn(before, ps[i].dev) + ps[i].bytes
    BY <2>4, <2>5, <2>7, BytesOfRemoval
  <2>9. BytesOn(before, d) \in Nat /\ ps[i].bytes \in Nat /\ Remaining(l, d) \in Int
    <3>1. ps[i].bytes \in Nat
      BY <2>5, WordAssumption DEF IsTable, Placement, Word
    <3>2. Remaining(l, d) \in Int
      BY LedgerNumbers, WordAssumption DEF Remaining, Word
    <3> QED
      BY <3>1, <3>2, <2>6, BytesOnNat
  <2> QED
    BY <2>1, <2>3, <2>8, <2>9
<1>3. CASE ~ \E i \in DOMAIN ps : ps[i].dev = d
  <2>1. UnitsOn(ps, d) = {}
    BY <1>3, UnitsOnMember
  <2> QED
    BY <2>1, FS_EmptySet DEF BytesOn
<1> QED
  BY <1>2, <1>3

------------------------------------------------------------------------------
(* ReservationLedger. *)

(* A plan in hand names devices its own ledger may use: it is placed on     *)
(* them, and the grant of a ledger never changes. *)
PlansOnUsableDevices ==
  \A c \in Caller : plan[c] # NoPlan =>
    \A i \in DOMAIN plan[c].placements :
      plan[c].placements[i].dev \in ledger[plan[c].brand].snap.reservable

(* A revision only advances, so no plan is ahead of its ledger. *)
PlansNotAhead ==
  \A c \in Caller : plan[c] # NoPlan => plan[c].rev <= ledger[plan[c].brand].rev

IInv ==
  /\ TypeOK
  /\ Conservation
  /\ WithinCapacity
  /\ LeasesOnUsableDevices
  /\ HeldLeasesAreActive
  /\ PlansOnUsableDevices
  /\ PlansNotAhead
  /\ CurrentPlanStillFits

------------------------------------------------------------------------------
(* What first fit returns: one placement per workload, on usable devices. *)
LEMMA PlacementsShape ==
  ASSUME NEW l, NEW ws \in Seq(Workload), NEW ps \in Placements(l, ws)
  PROVE  /\ ps \in Seq(Placement)
         /\ \A i \in DOMAIN ps : ps[i].dev \in l.snap.reservable
<1>1. PICK f \in [DOMAIN ws -> Device] :
        ps = [i \in DOMAIN ws |-> [dev |-> f[i], bytes |-> ws[i].bytes]]
  BY DEF Placements
<1>2. \A i \in DOMAIN ws :
        SelectDevice(l.snap, FreeAfter(l, ps, i - 1), ws[i], ps[i].dev)
  BY DEF Placements
<1>3. DOMAIN ws = 1..Len(ws) /\ Len(ws) \in Nat /\ \A i \in DOMAIN ws : ws[i] \in Workload
  OBVIOUS
<1>4. \A i \in DOMAIN ws : [dev |-> f[i], bytes |-> ws[i].bytes] \in Placement
  BY <1>3 DEF Workload, Placement
<1>5. ps \in [1..Len(ws) -> Placement]
  BY <1>1, <1>3, <1>4
<1>6. ps \in Seq(Placement)
  BY <1>3, <1>5
<1>7. \A i \in DOMAIN ps : ps[i].dev \in l.snap.reservable
  <2> SUFFICES ASSUME NEW i \in DOMAIN ws
               PROVE  ps[i].dev \in l.snap.reservable
    BY <1>1
  <2> QED
    BY <1>2 DEF SelectDevice, Fits
<1> QED
  BY <1>6, <1>7

(* Direct reservations are batches of nonzero placements. *)
LEMMA BatchesShape == Batches \subseteq Seq(Placement)
<1> DEFINE One == [dev : Device, bytes : Extents]
<1>1. One \subseteq Placement
  BY ExtentAssumption DEF Placement
<1>2. \A p \in One : <<p>> \in Seq(Placement)
  BY <1>1
<1>3. \A p, q \in One : <<p, q>> \in Seq(Placement)
  BY <1>1
<1>4. Batches = {<<p>> : p \in One} \cup {<<p, q>> : p \in One, q \in One}
  BY DEF Batches
<1> HIDE DEF One
<1>5. \A s \in {<<p>> : p \in One} : s \in Seq(Placement)
  BY <1>2
<1>6. ASSUME NEW s \in {<<p, q>> : p \in One, q \in One}
      PROVE  s \in Seq(Placement)
  <2>1. \E p, q \in One : s = <<p, q>>
    BY <1>6
  <2> QED
    BY <2>1, <1>3
<1> QED
  BY <1>4, <1>5, <1>6

LEMMA PlanInHand ==
  ASSUME TypeOK, NEW c \in Caller, plan[c] # NoPlan
  PROVE  /\ plan[c] \in Plan
         /\ plan[c].brand \in Brand
         /\ plan[c].placements \in Seq(Placement)
  BY DEF TypeOK, Plan

------------------------------------------------------------------------------
LEMMA NewLedgerIsEmpty ==
  ASSUME NEW s
  PROVE  DOMAIN NewLedger(s).dyn = {} /\ DOMAIN NewLedger(s).leases = {}
  BY DEF NewLedger

(* A fresh ledger has no leases and its static claims fit. *)
LEMMA InitEstablishesIInv == Init => IInv
<1> SUFFICES ASSUME Init PROVE IInv
  OBVIOUS
<1>1. PICK grant \in [Brand -> Grants] : ledger = [b \in Brand |-> NewLedger(grant[b])]
  BY DEF Init
<1>2. ASSUME NEW b \in Brand
      PROVE  /\ ledger[b] = NewLedger(grant[b])
             /\ grant[b] \in Snapshot
             /\ IsLedger(ledger[b])
  <2>1. ledger[b] = NewLedger(grant[b]) /\ grant[b] \in Snapshot
    BY <1>1, GrantAssumption
  <2>2. 0 \in Word /\ 1 \in Word \ {0}
    BY WordAssumption DEF Word
  <2>3. IsLedger(NewLedger(grant[b]))
    BY <2>1, <2>2 DEF IsLedger, NewLedger
  <2> QED
    BY <2>1, <2>3
<1>3. ASSUME NEW b \in Brand, NEW d \in Device
      PROVE  /\ Reserved(ledger[b], d) = 0
             /\ BytesOn(ledger[b].leases, d) = 0
  <2>1. DOMAIN ledger[b].dyn = {} /\ DOMAIN ledger[b].leases = {}
    BY <1>2, NewLedgerIsEmpty
  <2>2. Reserved(ledger[b], d) = 0 /\ DOMAIN ledger[b].leases = {}
    BY <2>1 DEF Reserved
  <2>3. UnitsOn(ledger[b].leases, d) = {}
    BY <2>2, UnitsOnMember
  <2> QED
    BY <2>2, <2>3, FS_EmptySet DEF BytesOn
<1>4. TypeOK
  BY <1>1, <1>2 DEF TypeOK, Init
<1>5. Conservation
  BY <1>3 DEF Conservation
<1>6. WithinCapacity
  <2> SUFFICES ASSUME NEW b \in Brand, NEW d \in Device
               PROVE  ledger[b].snap.reserved[d] + ledger[b].snap.committed[d]
                        + BytesOn(ledger[b].leases, d) <= ledger[b].snap.total[d]
    BY DEF WithinCapacity
  <2>1. ledger[b].snap \in Snapshot
    BY <1>2 DEF IsLedger
  <2>2. ledger[b].snap.reserved[d] + ledger[b].snap.committed[d] <= ledger[b].snap.total[d]
    BY <2>1 DEF Snapshot
  <2>3. ledger[b].snap.reserved[d] \in Nat /\ ledger[b].snap.committed[d] \in Nat
    BY <1>2, LedgerNumbers
  <2> QED
    BY <2>2, <2>3, <1>3
<1>7. LeasesOnUsableDevices
  <2>1. \A b \in Brand : DOMAIN ledger[b].leases = {}
    BY <1>2, NewLedgerIsEmpty
  <2> QED
    BY <2>1 DEF LeasesOnUsableDevices
<1>8. /\ HeldLeasesAreActive /\ PlansOnUsableDevices
      /\ PlansNotAhead /\ CurrentPlanStillFits
  BY DEF Init, HeldLeasesAreActive, PlansOnUsableDevices, PlansNotAhead, CurrentPlanStillFits
<1> QED
  BY <1>4, <1>5, <1>6, <1>7, <1>8 DEF IInv

(* Reserving a batch on usable devices: a commit and a direct reservation. *)
LEMMA ReservationPreserves ==
  ASSUME IInv, NEW b \in Brand, NEW batch \in Seq(Placement),
         CanReserve(ledger[b], batch),
         \A i \in DOMAIN batch : batch[i].dev \in ledger[b].snap.reservable,
         ledger' = [ledger EXCEPT ![b] = Reserve(ledger[b], batch)],
         held' = held \cup Capabilities(b, batch),
         plan' \in [Caller -> Plan \cup {NoPlan}],
         \A c \in Caller : plan'[c] \in {plan[c], NoPlan}
  PROVE  IInv'
<1> DEFINE l == ledger[b]
           new == Reserve(l, batch)
<1>1. IsLedger(l) /\ Balanced(l)
  BY DEF IInv, TypeOK, Conservation, Balanced
<1>2. IsLedger(new) /\ Balanced(new) /\ Affordable(new)
  BY <1>1, ReserveIsLedger, ReserveIsBalanced, ReserveIsAffordable
<1>3. /\ DOMAIN ledger' = Brand
      /\ ledger'[b] = new
      /\ \A x \in Brand : x # b => ledger'[x] = ledger[x]
  BY DEF IInv, TypeOK
<1>4. /\ new.snap = l.snap
      /\ DOMAIN new.leases = DOMAIN l.leases \cup NewIds(l, batch)
      /\ \A k \in DOMAIN new.leases :
           new.leases[k] = IF k \in NewIds(l, batch)
                           THEN batch[k - l.nextId + 1] ELSE l.leases[k]
  BY DEF Reserve
<1>5. /\ l.nextId \in Nat \ {0}
      /\ l.nextId + Len(batch) <= U64Max
      /\ DOMAIN l.leases \subseteq 1..(l.nextId - 1)
      /\ DOMAIN batch = 1..Len(batch) /\ Len(batch) \in Nat
  BY <1>1, WordAssumption DEF CanReserve, IsLedger, Word
<1>6. ASSUME NEW k \in NewIds(l, batch)
      PROVE  /\ k \in Word /\ k \notin DOMAIN l.leases
             /\ k - l.nextId + 1 \in DOMAIN batch
  BY <1>5, WordAssumption DEF NewIds, Word
<1>7. \A k \in DOMAIN l.leases : k \in DOMAIN new.leases /\ new.leases[k] = l.leases[k]
  BY <1>4, <1>6
<1>8. \A k \in NewIds(l, batch) :
        k \in DOMAIN new.leases /\ new.leases[k] = batch[k - l.nextId + 1]
  BY <1>4
<1>9. \A i \in DOMAIN batch : batch[i] \in Placement
  OBVIOUS
<1> DEFINE Cap(k) == [brand |-> b, id |-> k, dev |-> batch[k - l.nextId + 1].dev,
                      bytes |-> batch[k - l.nextId + 1].bytes]
<1>10. \A c \in held' : c \in held \/ \E k \in NewIds(l, batch) : c = Cap(k)
  BY DEF Capabilities
<1> HIDE DEF new
<1>11. TypeOK'
  <2>1. \A x \in Brand : IsLedger(ledger'[x])
    BY <1>2, <1>3 DEF IInv, TypeOK
  <2>2. \A k \in NewIds(l, batch) : Cap(k) \in Lease
    BY <1>6, <1>9 DEF Lease, Placement
  <2>3. held' \subseteq Lease
    BY <1>10, <2>2 DEF IInv, TypeOK
  <2> QED
    BY <1>3, <2>1, <2>3 DEF TypeOK, IsLedger, Snapshot, Placement, Word
<1>12. Conservation'
  BY <1>2, <1>3 DEF IInv, Conservation, Balanced, Reserved, BytesOn, UnitsOn
<1>13. WithinCapacity'
  BY <1>2, <1>3 DEF IInv, WithinCapacity, Affordable, BytesOn, UnitsOn
<1>14. LeasesOnUsableDevices'
  <2> SUFFICES ASSUME NEW x \in Brand, NEW i \in DOMAIN ledger'[x].leases
               PROVE  ledger'[x].leases[i].dev \in ledger'[x].snap.reservable
    BY DEF LeasesOnUsableDevices
  <2>1. CASE x # b
    BY <2>1, <1>3 DEF IInv, LeasesOnUsableDevices
  <2>2. CASE x = b /\ i \in NewIds(l, batch)
    BY <2>2, <1>3, <1>4, <1>6, <1>8
  <2>3. CASE x = b /\ i \notin NewIds(l, batch)
    BY <2>3, <1>3, <1>4 DEF IInv, LeasesOnUsableDevices
  <2> QED
    BY <2>1, <2>2, <2>3
<1>15. HeldLeasesAreActive'
  <2>1. ASSUME NEW c \in held'
        PROVE  c.id \in DOMAIN ledger'[c.brand].leases
               /\ ledger'[c.brand].leases[c.id] = Extent(c)
    <3>1. CASE c \in held
      <4>1. c.brand \in Brand /\ c.id \in DOMAIN ledger[c.brand].leases
            /\ ledger[c.brand].leases[c.id] = Extent(c)
        BY <3>1 DEF IInv, TypeOK, Lease, HeldLeasesAreActive
      <4> QED
        BY <4>1, <1>3, <1>7
    <3>2. CASE c \notin held
      <4>1. PICK k \in NewIds(l, batch) : c = Cap(k)
        BY <3>2, <1>10
      <4>2. c.brand = b /\ c.id = k /\ Extent(c) = batch[k - l.nextId + 1]
        BY <4>1, <1>6, <1>9 DEF Extent, Placement
      <4> QED
        BY <4>2, <1>3, <1>8
    <3> QED
      BY <3>1, <3>2
  <2>2. ASSUME NEW c1 \in held', NEW c2 \in held', c1.brand = c2.brand, c1.id = c2.id
        PROVE  c1 = c2
    <3>1. \A c \in held : c.brand = b => c.id \in DOMAIN l.leases
      BY DEF IInv, HeldLeasesAreActive
    <3>2. CASE c1 \in held /\ c2 \in held
      BY <2>2, <3>2 DEF IInv, HeldLeasesAreActive
    <3>3. CASE c1 \in held /\ c2 \notin held
      BY <2>2, <3>1, <3>3, <1>6, <1>10
    <3>4. CASE c1 \notin held /\ c2 \in held
      BY <2>2, <3>1, <3>4, <1>6, <1>10
    <3>5. CASE c1 \notin held /\ c2 \notin held
      <4>1. PICK k1 \in NewIds(l, batch) : c1 = Cap(k1)
        BY <3>5, <1>10
      <4>2. PICK k2 \in NewIds(l, batch) : c2 = Cap(k2)
        BY <3>5, <1>10
      <4> QED
        BY <2>2, <4>1, <4>2
    <3> QED
      BY <3>2, <3>3, <3>4, <3>5
  <2> QED
    BY <2>1, <2>2 DEF HeldLeasesAreActive, Extent
<1>16. PlansOnUsableDevices'
  <2> SUFFICES ASSUME NEW c \in Caller, plan'[c] # NoPlan,
                      NEW i \in DOMAIN plan'[c].placements
               PROVE  plan'[c].placements[i].dev
                        \in ledger'[plan'[c].brand].snap.reservable
    BY DEF PlansOnUsableDevices
  <2>1. plan'[c] = plan[c]
    OBVIOUS
  <2>2. plan[c].brand \in Brand
    BY <2>1, PlanInHand DEF IInv
  <2> QED
    BY <2>1, <2>2, <1>3, <1>4 DEF IInv, PlansOnUsableDevices
<1>17. PlansNotAhead' /\ CurrentPlanStillFits'
  <2> SUFFICES ASSUME NEW c \in Caller, plan'[c] # NoPlan
               PROVE  LET m == ledger'[plan'[c].brand]
                      IN /\ plan'[c].rev <= m.rev
                         /\ plan'[c].rev = m.rev =>
                              \A d \in Device :
                                BytesOn(plan'[c].placements, d) <= Remaining(m, d)
    BY DEF PlansNotAhead, CurrentPlanStillFits, BytesOn, UnitsOn, Remaining, Reserved
  <2>1. plan'[c] = plan[c] /\ plan[c] \in Plan /\ plan[c].brand \in Brand
    BY PlanInHand DEF IInv
  <2>2. /\ plan[c].rev <= ledger[plan[c].brand].rev
        /\ plan[c].rev = ledger[plan[c].brand].rev =>
             \A d \in Device :
               BytesOn(plan[c].placements, d) <= Remaining(ledger[plan[c].brand], d)
    BY <2>1 DEF IInv, PlansNotAhead, CurrentPlanStillFits
  <2>3. CASE plan[c].brand # b
    BY <2>1, <2>2, <2>3, <1>3
  <2>4. CASE plan[c].brand = b
    <3>1. plan[c].rev \in Int /\ l.rev \in Int /\ new.rev = l.rev + 1
      BY <1>1, <2>1, WordAssumption DEF Plan, IsLedger, Word, new, Reserve
    <3>2. plan[c].rev <= l.rev
      BY <2>2, <2>4
    <3>3. ledger'[plan'[c].brand].rev = l.rev + 1
      BY <3>1, <2>1, <2>4, <1>3
    <3> QED
      BY <3>1, <3>2, <3>3, <2>1
  <2> QED
    BY <2>3, <2>4
<1> QED
  BY <1>11, <1>12, <1>13, <1>14, <1>15, <1>16, <1>17 DEF IInv

(* A lease is released by the ledger that issued it: its identity leaves   *)
(* circulation together with its bytes. *)
LEMMA ReleasePreserves ==
  ASSUME IInv, NEW b \in Brand, NEW r \in held, ReleaseLease(b, r)
  PROVE  IInv'
<1> DEFINE l == ledger[b]
           new == Release(l, r.id)
<1>1. /\ r.brand = b
      /\ CanRelease(l, r.id, Extent(r))
      /\ ledger' = [ledger EXCEPT ![b] = new]
      /\ held' = held \ {r}
      /\ plan' = plan
  BY DEF ReleaseLease
<1>2. IsLedger(l) /\ Balanced(l) /\ Affordable(l)
  BY DEF IInv, TypeOK, Conservation, WithinCapacity, Balanced, Affordable
<1>3. IsLedger(new) /\ Balanced(new) /\ Affordable(new)
  BY <1>1, <1>2, ReleaseIsLedger, ReleaseIsBalanced, ReleaseIsAffordable
<1>4. /\ DOMAIN ledger' = Brand
      /\ ledger'[b] = new
      /\ \A x \in Brand : x # b => ledger'[x] = ledger[x]
  BY <1>1 DEF IInv, TypeOK
<1>5. /\ new.snap = l.snap /\ new.rev = l.rev + 1
      /\ DOMAIN new.leases = DOMAIN l.leases \ {r.id}
      /\ \A k \in DOMAIN new.leases : new.leases[k] = l.leases[k]
  BY DEF Release
<1> HIDE DEF new
<1>6. TypeOK'
  <2>1. \A x \in Brand : IsLedger(ledger'[x])
    BY <1>3, <1>4 DEF IInv, TypeOK
  <2> QED
    BY <2>1, <1>1, <1>4 DEF IInv, TypeOK, IsLedger, Snapshot, Placement, Word
<1>7. Conservation'
  BY <1>3, <1>4 DEF IInv, Conservation, Balanced, Reserved, BytesOn, UnitsOn
<1>8. WithinCapacity'
  BY <1>3, <1>4 DEF IInv, WithinCapacity, Affordable, BytesOn, UnitsOn
<1>9. LeasesOnUsableDevices'
  BY <1>4, <1>5 DEF IInv, LeasesOnUsableDevices
<1>10. HeldLeasesAreActive'
  <2>1. \A c1, c2 \in held' : c1.brand = c2.brand /\ c1.id = c2.id => c1 = c2
    BY <1>1 DEF IInv, HeldLeasesAreActive
  <2>2. ASSUME NEW c \in held'
        PROVE  c.id \in DOMAIN ledger'[c.brand].leases
               /\ ledger'[c.brand].leases[c.id] = Extent(c)
    <3>1. c \in held /\ c # r
      BY <1>1
    <3>2. c.brand \in Brand /\ c.id \in DOMAIN ledger[c.brand].leases
          /\ ledger[c.brand].leases[c.id] = Extent(c)
      BY <3>1 DEF IInv, TypeOK, Lease, HeldLeasesAreActive
    <3>3. c.brand = b => c.id # r.id
      BY <3>1, <1>1 DEF IInv, HeldLeasesAreActive
    <3> QED
      BY <3>2, <3>3, <1>4, <1>5
  <2> QED
    BY <2>1, <2>2 DEF HeldLeasesAreActive, Extent
<1>11. PlansOnUsableDevices'
  <2> SUFFICES ASSUME NEW c \in Caller, plan[c] # NoPlan,
                      NEW i \in DOMAIN plan[c].placements
               PROVE  plan[c].placements[i].dev
                        \in ledger'[plan[c].brand].snap.reservable
    BY <1>1 DEF PlansOnUsableDevices
  <2>1. plan[c].brand \in Brand
    BY PlanInHand DEF IInv
  <2> QED
    BY <2>1, <1>4, <1>5 DEF IInv, PlansOnUsableDevices
<1>12. PlansNotAhead' /\ CurrentPlanStillFits'
  <2> SUFFICES ASSUME NEW c \in Caller, plan[c] # NoPlan
               PROVE  LET m == ledger'[plan[c].brand]
                      IN /\ plan[c].rev <= m.rev
                         /\ plan[c].rev = m.rev =>
                              \A d \in Device :
                                BytesOn(plan[c].placements, d) <= Remaining(m, d)
    BY <1>1 DEF PlansNotAhead, CurrentPlanStillFits, BytesOn, UnitsOn, Remaining, Reserved
  <2>1. plan[c] \in Plan /\ plan[c].brand \in Brand
    BY PlanInHand DEF IInv
  <2>2. /\ plan[c].rev <= ledger[plan[c].brand].rev
        /\ plan[c].rev = ledger[plan[c].brand].rev =>
             \A d \in Device :
               BytesOn(plan[c].placements, d) <= Remaining(ledger[plan[c].brand], d)
    BY DEF IInv, PlansNotAhead, CurrentPlanStillFits
  <2>3. CASE plan[c].brand # b
    BY <2>1, <2>2, <2>3, <1>4
  <2>4. CASE plan[c].brand = b
    <3>1. plan[c].rev \in Int /\ l.rev \in Int
      BY <1>2, <2>1, WordAssumption DEF Plan, IsLedger, Word
    <3>2. plan[c].rev <= l.rev
      BY <2>2, <2>4
    <3>3. ledger'[plan[c].brand].rev = l.rev + 1
      BY <2>4, <1>4, <1>5
    <3> QED
      BY <3>1, <3>2, <3>3
  <2> QED
    BY <2>3, <2>4
<1> QED
  BY <1>6, <1>7, <1>8, <1>9, <1>10, <1>11, <1>12 DEF IInv

(* A prepared plan fits its ledger as it stands, whole, on usable devices. *)
LEMMA PreparePreserves ==
  ASSUME IInv, NEW c \in Caller, NEW b \in Brand, NEW s \in Grants,
         NEW ws \in Requests, Prepare(c, b, s, ws)
  PROVE  IInv'
<1>1. PICK ps \in Placements(ledger[b], ws) :
        /\ plan' = [plan EXCEPT ![c] =
                     [brand |-> b, rev |-> ledger[b].rev, placements |-> ps]]
        /\ ledger' = ledger /\ held' = held
  BY DEF Prepare
<1>2. ws \in Seq(Workload)
  BY RequestAssumption
<1>3. ps \in Seq(Placement) /\ \A i \in DOMAIN ps : ps[i].dev \in ledger[b].snap.reservable
  BY <1>2, PlacementsShape
<1>4. IsLedger(ledger[b])
  BY DEF IInv, TypeOK
<1>5. ASSUME NEW d \in Device
      PROVE  0 <= Remaining(ledger[b], d)
  <2>1. /\ Reserved(ledger[b], d) = BytesOn(ledger[b].leases, d)
        /\ ledger[b].snap.reserved[d] + ledger[b].snap.committed[d]
             + BytesOn(ledger[b].leases, d) <= ledger[b].snap.total[d]
    BY DEF IInv, Conservation, WithinCapacity
  <2>2. /\ ledger[b].snap.total[d] \in Nat /\ ledger[b].snap.reserved[d] \in Nat
        /\ ledger[b].snap.committed[d] \in Nat /\ Reserved(ledger[b], d) \in Nat
    BY <1>4, LedgerNumbers, WordAssumption DEF Word
  <2> QED
    BY <2>1, <2>2 DEF Remaining
<1>6. \A d \in Device : BytesOn(ps, d) <= Remaining(ledger[b], d)
  BY <1>2, <1>3, <1>4, <1>5, PlacementsFit
<1> DEFINE p == [brand |-> b, rev |-> ledger[b].rev, placements |-> ps]
<1>7. p \in Plan
  BY <1>3, <1>4 DEF Plan, IsLedger
<1>8. /\ plan' \in [Caller -> Plan \cup {NoPlan}]
      /\ plan'[c] = p
      /\ \A x \in Caller : x # c => plan'[x] = plan[x]
  BY <1>1, <1>7 DEF IInv, TypeOK
<1>9. TypeOK'
  BY <1>1, <1>8 DEF IInv, TypeOK, IsLedger, Snapshot, Placement, Word, Lease
<1>10. Conservation' /\ WithinCapacity' /\ LeasesOnUsableDevices' /\ HeldLeasesAreActive'
  BY <1>1 DEF IInv, Conservation, WithinCapacity, LeasesOnUsableDevices,
              HeldLeasesAreActive, Reserved, BytesOn, UnitsOn, Extent
<1>11. PlansOnUsableDevices'
  BY <1>1, <1>3, <1>8 DEF IInv, PlansOnUsableDevices
<1>12. PlansNotAhead' /\ CurrentPlanStillFits'
  <2> SUFFICES ASSUME NEW x \in Caller, plan'[x] # NoPlan
               PROVE  LET l == ledger[plan'[x].brand]
                      IN /\ plan'[x].rev <= l.rev
                         /\ plan'[x].rev = l.rev =>
                              \A d \in Device :
                                BytesOn(plan'[x].placements, d) <= Remaining(l, d)
    BY <1>1 DEF PlansNotAhead, CurrentPlanStillFits, BytesOn, UnitsOn, Remaining, Reserved
  <2>1. CASE x = c
    <3>1. ledger[b].rev \in Int
      BY <1>4, WordAssumption DEF IsLedger, Word
    <3> QED
      BY <2>1, <3>1, <1>6, <1>8
  <2>2. CASE x # c
    BY <2>2, <1>8 DEF IInv, PlansNotAhead, CurrentPlanStillFits
  <2> QED
    BY <2>1, <2>2
<1> QED
  BY <1>9, <1>10, <1>11, <1>12 DEF IInv

(* Plans and leases that are dropped or refused leave the accounts alone. *)
LEMMA ForgettingPreserves ==
  ASSUME IInv, ledger' = ledger,
         plan' \in [Caller -> Plan \cup {NoPlan}],
         \A c \in Caller : plan'[c] \in {plan[c], NoPlan},
         held' \subseteq held
  PROVE  IInv'
<1>1. TypeOK'
  BY DEF IInv, TypeOK, IsLedger, Snapshot, Placement, Word, Lease
<1>2. Conservation' /\ WithinCapacity' /\ LeasesOnUsableDevices' /\ HeldLeasesAreActive'
  BY DEF IInv, Conservation, WithinCapacity, LeasesOnUsableDevices,
         HeldLeasesAreActive, Reserved, BytesOn, UnitsOn, Extent
<1>3. PlansOnUsableDevices' /\ PlansNotAhead'
  BY DEF IInv, PlansOnUsableDevices, PlansNotAhead
<1>4. CurrentPlanStillFits'
  BY DEF IInv, CurrentPlanStillFits, BytesOn, UnitsOn, Remaining, Reserved
<1> QED
  BY <1>1, <1>2, <1>3, <1>4 DEF IInv

LEMMA NextPreservesIInv == IInv /\ [Next]_vars => IInv'
<1> SUFFICES ASSUME IInv, [Next]_vars PROVE IInv'
  OBVIOUS
<1>1. plan \in [Caller -> Plan \cup {NoPlan}]
  BY DEF IInv, TypeOK
<1>2. ASSUME NEW c \in Caller, NEW b \in Brand, NEW s \in Grants, NEW ws \in Requests,
             Prepare(c, b, s, ws)
      PROVE  IInv'
  BY <1>2, PreparePreserves
<1>3. ASSUME NEW c \in Caller, NEW b \in Brand, Commit(c, b)
      PROVE  IInv'
  <2> DEFINE ps == plan[c].placements
  <2>1. /\ plan[c] # NoPlan
        /\ plan[c].brand = b
        /\ CanReserve(ledger[b], ps)
        /\ ledger' = [ledger EXCEPT ![b] = Reserve(ledger[b], ps)]
        /\ held' = held \cup Capabilities(b, ps)
        /\ plan' = [plan EXCEPT ![c] = NoPlan]
    BY <1>3 DEF Commit, Acceptable
  <2>2. ps \in Seq(Placement)
    BY <2>1, PlanInHand DEF IInv
  <2>3. \A i \in DOMAIN ps : ps[i].dev \in ledger[b].snap.reservable
    BY <2>1 DEF IInv, PlansOnUsableDevices
  <2>4. /\ plan' \in [Caller -> Plan \cup {NoPlan}]
        /\ \A x \in Caller : plan'[x] \in {plan[x], NoPlan}
    BY <2>1, <1>1
  <2> HIDE DEF ps
  <2> QED
    BY <2>1, <2>2, <2>3, <2>4, ReservationPreserves
<1>4. ASSUME NEW c \in Caller, NEW b \in Brand, CommitRefused(c, b)
      PROVE  IInv'
  BY <1>1, <1>4, ForgettingPreserves DEF CommitRefused
<1>5. ASSUME NEW b \in Brand, NEW batch \in Batches, ReserveBytes(b, batch)
      PROVE  IInv'
  <2>1. batch \in Seq(Placement)
    BY BatchesShape
  <2>2. \A x \in Caller : plan'[x] \in {plan[x], NoPlan}
    BY <1>5 DEF ReserveBytes
  <2> QED
    BY <2>1, <2>2, <1>1, <1>5, ReservationPreserves DEF ReserveBytes
<1>6. ASSUME NEW b \in Brand, NEW r \in held, ReleaseLease(b, r)
      PROVE  IInv'
  BY <1>6, ReleasePreserves
<1>7. ASSUME NEW c \in Caller, DropPlan(c)
      PROVE  IInv'
  BY <1>1, <1>7, ForgettingPreserves DEF DropPlan
<1>8. ASSUME NEW c \in held, DropLease(c)
      PROVE  IInv'
  BY <1>1, <1>8, ForgettingPreserves DEF DropLease
<1>9. CASE UNCHANGED vars
  BY <1>1, <1>9, ForgettingPreserves DEF vars
<1> QED
  BY <1>2, <1>3, <1>4, <1>5, <1>6, <1>7, <1>8, <1>9 DEF Next

------------------------------------------------------------------------------
LEMMA InvariantHolds == Spec => []IInv
  BY InitEstablishesIInv, NextPreservesIInv, PTL DEF Spec

(* Every ledger keeps its shape: no total, revision or identifier leaves   *)
(* the machine word, and identifiers are never reused. *)
THEOREM TypeCorrect == Spec => []TypeOK
<1>1. IInv => TypeOK
  BY DEF IInv
<1> QED
  BY <1>1, InvariantHolds, PTL

(* The running totals agree with the active leases. *)
THEOREM TotalsAgree == Spec => []Conservation
<1>1. IInv => Conservation
  BY DEF IInv
<1> QED
  BY <1>1, InvariantHolds, PTL

(* No device of any grant is ever over-committed. *)
THEOREM NeverOverCommitted == Spec => []WithinCapacity
<1>1. IInv => WithinCapacity
  BY DEF IInv
<1> QED
  BY <1>1, InvariantHolds, PTL

(* Leases only ever name devices their grant lets receive work. *)
THEOREM OnlyUsableDevices == Spec => []LeasesOnUsableDevices
<1>1. IInv => LeasesOnUsableDevices
  BY DEF IInv
<1> QED
  BY <1>1, InvariantHolds, PTL

(* A lease in circulation is active where it was issued, and unique. *)
THEOREM LeasesAreGenuine == Spec => []HeldLeasesAreActive
<1>1. IInv => HeldLeasesAreActive
  BY DEF IInv
<1> QED
  BY <1>1, InvariantHolds, PTL

(* A plan that is still current still fits. *)
THEOREM CurrentPlansFit == Spec => []CurrentPlanStillFits
<1>1. IInv => CurrentPlanStillFits
  BY DEF IInv
<1> QED
  BY <1>1, InvariantHolds, PTL

------------------------------------------------------------------------------
(* The device entry of a ledger goes when its total reaches zero, and a    *)
(* release needs the entry.  Where every workload asks for some bytes,     *)
(* every active lease has bytes and so keeps its entry alive. *)
NonzeroRequests == \A ws \in Requests : \A i \in DOMAIN ws : ws[i].bytes # 0

Nonzero(table) == \A i \in DOMAIN table : table[i].bytes # 0

NonzeroInv ==
  /\ IInv
  /\ \A b \in Brand : Nonzero(ledger[b].leases)
  /\ \A c \in Caller : plan[c] # NoPlan => Nonzero(plan[c].placements)

LEMMA ReserveNonzero ==
  ASSUME NEW l, IsLedger(l), Nonzero(l.leases), NEW batch \in Seq(Placement), Nonzero(batch)
  PROVE  Nonzero(Reserve(l, batch).leases)
<1> SUFFICES ASSUME NEW k \in DOMAIN Reserve(l, batch).leases
             PROVE  Reserve(l, batch).leases[k].bytes # 0
  BY DEF Nonzero
<1>1. l.nextId \in Nat
  BY WordAssumption DEF IsLedger, Word
<1>2. CASE k \in NewIds(l, batch)
  <2>1. k - l.nextId + 1 \in DOMAIN batch
    BY <1>1, <1>2 DEF NewIds
  <2>2. Reserve(l, batch).leases[k] = batch[k - l.nextId + 1]
    BY <1>2 DEF Reserve
  <2> QED
    BY <2>1, <2>2 DEF Nonzero
<1>3. CASE k \notin NewIds(l, batch)
  BY <1>3 DEF Reserve, Nonzero
<1> QED
  BY <1>2, <1>3

(* An active lease with bytes can be taken back while the revision can     *)
(* advance. *)
LEMMA NonzeroLeaseReleasable ==
  ASSUME NEW l, IsLedger(l), Balanced(l), Nonzero(l.leases), l.rev < U64Max,
         NEW i \in DOMAIN l.leases
  PROVE  CanRelease(l, i, l.leases[i])
<1> DEFINE d == l.leases[i].dev
           n == l.leases[i].bytes
<1>1. d \in Device /\ n \in Nat /\ n # 0
  BY WordAssumption DEF IsLedger, Placement, Word, Nonzero
<1>2. BytesOn(l.leases, d) = BytesOn(Release(l, i).leases, d) + n
  BY BytesOfRelease
<1>3. IsTable(Release(l, i).leases)
  <2>1. /\ DOMAIN Release(l, i).leases = DOMAIN l.leases \ {i}
        /\ \A k \in DOMAIN Release(l, i).leases :
              Release(l, i).leases[k] = l.leases[k]
    BY DEF Release
  <2>2. IsTable(l.leases)
    BY LeasesAreTable
  <2>3. IsFiniteSet(DOMAIN l.leases \ {i})
    BY <2>2, FS_Subset DEF IsTable
  <2> QED
    BY <2>1, <2>2, <2>3 DEF IsTable
<1>4. BytesOn(Release(l, i).leases, d) \in Nat
  BY <1>3, BytesOnNat
<1> HIDE DEF d, n
<1>5. Reserved(l, d) = BytesOn(l.leases, d)
  BY <1>1 DEF Balanced
<1>6. d \in DOMAIN l.dyn /\ n <= l.dyn[d]
  BY <1>1, <1>2, <1>4, <1>5 DEF Reserved
<1> QED
  BY <1>6 DEF CanRelease, d, n

LEMMA NextPreservesNonzero ==
  ASSUME NonzeroRequests
  PROVE  NonzeroInv /\ [Next]_vars => NonzeroInv'
<1> SUFFICES ASSUME NonzeroInv, [Next]_vars PROVE NonzeroInv'
  OBVIOUS
<1>1. IInv /\ IInv'
  BY NextPreservesIInv DEF NonzeroInv
<1> DEFINE Preserved == /\ \A b \in Brand : Nonzero(ledger'[b].leases)
                        /\ \A c \in Caller : plan'[c] # NoPlan =>
                             Nonzero(plan'[c].placements)
<1>3. \A b \in Brand : IsLedger(ledger[b])
  BY <1>1 DEF IInv, TypeOK
<1>4. plan \in [Caller -> Plan \cup {NoPlan}]
  BY <1>1 DEF IInv, TypeOK
<1>5. ASSUME NEW b \in Brand, NEW batch \in Seq(Placement), Nonzero(batch),
             ledger' = [ledger EXCEPT ![b] = Reserve(ledger[b], batch)],
             \A c \in Caller : plan'[c] \in {plan[c], NoPlan}
      PROVE  Preserved
  <2>1. Nonzero(Reserve(ledger[b], batch).leases)
    BY <1>3, <1>5, ReserveNonzero DEF NonzeroInv
  <2>2. \A x \in Brand : ledger'[x] = IF x = b THEN Reserve(ledger[b], batch) ELSE ledger[x]
    BY <1>1, <1>5 DEF IInv, TypeOK
  <2> QED
    BY <2>1, <2>2, <1>5 DEF NonzeroInv
<1>6. ASSUME NEW c \in Caller, NEW b \in Brand, NEW s \in Grants, NEW ws \in Requests,
             Prepare(c, b, s, ws)
      PROVE  Preserved
  <2>1. PICK ps \in Placements(ledger[b], ws) :
          /\ plan' = [plan EXCEPT ![c] =
                       [brand |-> b, rev |-> ledger[b].rev, placements |-> ps]]
          /\ ledger' = ledger
    BY <1>6 DEF Prepare
  <2>2. Nonzero(ps)
    <3>1. /\ DOMAIN ps = DOMAIN ws
          /\ \A i \in DOMAIN ps : ps[i].bytes = ws[i].bytes
      BY DEF Placements
    <3> QED
      BY <3>1 DEF Nonzero, NonzeroRequests
  <2>3. \A x \in Caller : plan'[x] = IF x = c THEN [brand |-> b, rev |-> ledger[b].rev, placements |-> ps]
                                    ELSE plan[x]
    BY <2>1, <1>4
  <2> QED
    BY <2>1, <2>2, <2>3 DEF NonzeroInv
<1>7. ASSUME NEW c \in Caller, NEW b \in Brand, Commit(c, b)
      PROVE  Preserved
  <2>1. /\ plan[c] # NoPlan
        /\ ledger' = [ledger EXCEPT ![b] = Reserve(ledger[b], plan[c].placements)]
        /\ \A x \in Caller : plan'[x] \in {plan[x], NoPlan}
    BY <1>4, <1>7 DEF Commit
  <2>2. plan[c].placements \in Seq(Placement) /\ Nonzero(plan[c].placements)
    BY <2>1, <1>1, PlanInHand DEF IInv, NonzeroInv
  <2> QED
    BY <2>1, <2>2, <1>5
<1>8. ASSUME NEW b \in Brand, NEW batch \in Batches, ReserveBytes(b, batch)
      PROVE  Preserved
  <2>1. batch \in Seq(Placement)
    BY BatchesShape
  <2>2. Nonzero(batch)
    <3> DEFINE One == [dev : Device, bytes : Extents]
    <3>1. \A p \in One : p.bytes # 0
      BY ExtentAssumption
    <3>2. (\E p \in One : batch = <<p>>) \/ (\E p, q \in One : batch = <<p, q>>)
      BY DEF Batches
    <3> HIDE DEF One
    <3> QED
      BY <3>1, <3>2 DEF Nonzero
  <2> QED
    BY <2>1, <2>2, <1>5, <1>8 DEF ReserveBytes
<1>9. ASSUME NEW b \in Brand, NEW r \in held, ReleaseLease(b, r)
      PROVE  Preserved
  <2>1. /\ ledger' = [ledger EXCEPT ![b] = Release(ledger[b], r.id)] /\ plan' = plan
    BY <1>9 DEF ReleaseLease
  <2>2. Nonzero(Release(ledger[b], r.id).leases)
    BY DEF NonzeroInv, Nonzero, Release
  <2>3. \A x \in Brand : ledger'[x] = IF x = b THEN Release(ledger[b], r.id) ELSE ledger[x]
    BY <2>1, <1>1 DEF IInv, TypeOK
  <2> QED
    BY <2>1, <2>2, <2>3 DEF NonzeroInv
<1>10. ASSUME ledger' = ledger, \A c \in Caller : plan'[c] \in {plan[c], NoPlan}
       PROVE  Preserved
  BY <1>10 DEF NonzeroInv
<1>11. Preserved
  <2>1. CASE UNCHANGED vars
    BY <2>1, <1>10 DEF vars
  <2>2. ASSUME NEW c \in Caller, NEW b \in Brand, CommitRefused(c, b) PROVE Preserved
    BY <2>2, <1>4, <1>10 DEF CommitRefused
  <2>3. ASSUME NEW c \in Caller, DropPlan(c) PROVE Preserved
    BY <2>3, <1>4, <1>10 DEF DropPlan
  <2>4. ASSUME NEW c \in held, DropLease(c) PROVE Preserved
    BY <2>4, <1>10 DEF DropLease
  <2> HIDE DEF Preserved
  <2> QED
    BY <2>1, <2>2, <2>3, <2>4, <1>6, <1>7, <1>8, <1>9 DEF Next
<1> QED
  BY <1>1, <1>11 DEF NonzeroInv, Nonzero

(* The documentation of release holds where no workload asks for zero      *)
(* bytes: the ledger that issued an active lease takes it back. *)
THEOREM NonzeroLeasesReleasable ==
  NonzeroRequests => (Spec => []ActiveLeasesReleasable)
<1> SUFFICES ASSUME NonzeroRequests PROVE Spec => []ActiveLeasesReleasable
  OBVIOUS
<1>1. Init => NonzeroInv
  <2> SUFFICES ASSUME Init PROVE NonzeroInv
    OBVIOUS
  <2>1. IInv
    BY InitEstablishesIInv
  <2>2. \A b \in Brand : DOMAIN ledger[b].leases = {}
    BY NewLedgerIsEmpty DEF Init
  <2> QED
    BY <2>1, <2>2 DEF NonzeroInv, Nonzero, Init
<1>2. NonzeroInv /\ [Next]_vars => NonzeroInv'
  BY NextPreservesNonzero
<1>3. NonzeroInv => ActiveLeasesReleasable
  <2> SUFFICES ASSUME NonzeroInv, NEW b \in Brand, ledger[b].rev < U64Max,
                      NEW i \in DOMAIN ledger[b].leases
               PROVE  CanRelease(ledger[b], i, ledger[b].leases[i])
    BY DEF ActiveLeasesReleasable
  <2>1. IsLedger(ledger[b]) /\ Balanced(ledger[b]) /\ Nonzero(ledger[b].leases)
    BY DEF NonzeroInv, IInv, TypeOK, Conservation, Balanced
  <2> QED
    BY <2>1, NonzeroLeaseReleasable
<1> QED
  BY <1>1, <1>2, <1>3, PTL DEF Spec
=============================================================================
