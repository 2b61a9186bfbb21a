---------------------------- MODULE Hipcore_proofs ----------------------------
(***************************************************************************)
(* Theorems about the two models of crates/hipcore: TeardownInventory, for *)
(* every inventory and every number of failures, and DeviceMemory, for     *)
(* every set of devices and allocations.                                   *)
(***************************************************************************)
EXTENDS TeardownInventory, DeviceMemory, TLAPS

------------------------------------------------------------------------------
(* TeardownInventory.                                                      *)

Before == {"Open", "quiesce", "reconcile", "Synchronizing", "Unconfirmed"}
Freeing == {"free", "Releasing"}
Destroying == {"destroy", "Destroying"}

Shape ==
  /\ step \in Before \cup Freeing \cup Destroying \cup Final
  /\ held \in Seq(Buffer) /\ refused \subseteq Buffer
  /\ evidence \in [bytes : Nat, entries : Seq(Handle), released : Seq(Handle)]
  /\ calls \in [Handle -> Nat]
  /\ busy \subseteq Buffer

(* Nothing is acknowledged before the stream is known to be quiet, nothing  *)
(* is queued after, and the stream is not touched before the buffers are    *)
(* gone.                                                                    *)
Phases ==
  /\ step \in Before => evidence.released = <<>>
  /\ step \notin Before => busy = {}
  /\ step \in Destroying \cup {"Released"} => held = <<>>

(* The calls made are those acknowledged and the one in quarantine.        *)
AcknowledgedSet == {evidence.released[i] : i \in DOMAIN evidence.released}
InDoubt == IF step # "Quarantined" THEN {} ELSE IF held = <<>> THEN {Stream} ELSE {Top}

CallsCounted ==
  /\ \A h \in Handle : calls[h] = IF h \in AcknowledgedSet \cup InDoubt THEN 1 ELSE 0
  /\ Stream \in AcknowledgedSet => step = "Released"
  /\ \A i, j \in DOMAIN held : held[i] = held[j] => i = j
  /\ \A i \in DOMAIN held : held[i] \notin AcknowledgedSet

IInv == Shape /\ Phases /\ CallsCounted /\ EvidenceAccountsForAll

------------------------------------------------------------------------------
(* Where the elements of an extended and of a shortened sequence are.      *)
LEMMA Appended ==
  ASSUME NEW S, NEW s \in Seq(S), NEW e \in S
  PROVE  /\ Append(s, e) \in Seq(S)
         /\ Len(Append(s, e)) = Len(s) + 1
         /\ DOMAIN s = 1..Len(s) /\ DOMAIN Append(s, e) = 1..(Len(s) + 1)
         /\ \A i \in DOMAIN Append(s, e) :
               Append(s, e)[i] = IF i = Len(s) + 1 THEN e ELSE s[i]
  OBVIOUS

LEMMA Shortened ==
  ASSUME NEW S, NEW s \in Seq(S), s # <<>>
  PROVE  /\ Len(s) \in Nat \ {0} /\ Len(s) \in DOMAIN s /\ s[Len(s)] \in S
         /\ SubSeq(s, 1, Len(s) - 1) \in Seq(S)
         /\ Len(SubSeq(s, 1, Len(s) - 1)) = Len(s) - 1
         /\ DOMAIN s = 1..Len(s) /\ DOMAIN SubSeq(s, 1, Len(s) - 1) = 1..(Len(s) - 1)
         /\ \A i \in 1..(Len(s) - 1) : SubSeq(s, 1, Len(s) - 1)[i] = s[i]
<1>1. Len(s) \in Nat \ {0} /\ DOMAIN s = 1..Len(s)
  OBVIOUS
<1>2. Len(s) \in DOMAIN s /\ s[Len(s)] \in S
  BY <1>1
<1>3. \A i \in 1..(Len(s) - 1) : i \in DOMAIN s /\ s[i] \in S
  BY <1>1
<1>4. Len(s) - 1 \in Nat /\ 1 + (Len(s) - 1) - 1 = Len(s) - 1
  BY <1>1
<1>5. SubSeq(s, 1, Len(s) - 1) = [i \in 1..(Len(s) - 1) |-> s[i]]
  BY <1>1, <1>4
<1>6. SubSeq(s, 1, Len(s) - 1) \in [1..(Len(s) - 1) -> S]
  BY <1>3, <1>5
<1>7. SubSeq(s, 1, Len(s) - 1) \in Seq(S) /\ Len(SubSeq(s, 1, Len(s) - 1)) = Len(s) - 1
  BY <1>4, <1>6
<1> QED
  BY <1>1, <1>2, <1>5, <1>6, <1>7

LEMMA InitIInv == Init => IInv
<1> SUFFICES ASSUME Init PROVE IInv
  OBVIOUS
<1>1. Shape
  BY HandleAssumption DEF Init, Shape, Handle, Before, Freeing, Destroying, Final
<1>2. Phases
  BY DEF Init, Phases, Before, Destroying
<1>3. CallsCounted
  BY DEF Init, CallsCounted, AcknowledgedSet, InDoubt
<1>4. EvidenceAccountsForAll
  BY DEF Init, EvidenceAccountsForAll
<1> QED
  BY <1>1, <1>2, <1>3, <1>4 DEF IInv

(* A registered buffer is new to the inventory. *)
LEMMA PushIInv ==
  ASSUME IInv, NEW b \in Buffer, PushBuffer(b)
  PROVE  IInv'
<1>1. /\ step = "Open" /\ step' = step /\ calls' = calls /\ busy' = busy /\ alive' = alive
      /\ evidence.released = <<>>
      /\ held \in Seq(Buffer) /\ b \notin {held[i] : i \in DOMAIN held} /\ b \notin refused
  BY DEF PushBuffer, IInv, Phases, Shape, Before, Given
<1>2. /\ b \in Handle /\ b # Stream
      /\ evidence.entries \in Seq(Handle)
      /\ Len(evidence.entries) = 1 + Len(held)
      /\ evidence.entries[1] = Stream
      /\ \A i \in DOMAIN held : evidence.entries[i + 1] = held[i]
      /\ \A i \in DOMAIN evidence.entries : evidence.entries[i] \notin refused
  BY <1>1, HandleAssumption DEF IInv, Shape, EvidenceAccountsForAll, Handle
<1>3. CASE refused' = refused \cup {b} /\ UNCHANGED <<held, evidence>>
  <2>1. \A i \in DOMAIN evidence.entries : evidence.entries[i] # b
    <3>1. \A i \in 1..(1 + Len(held)) : i = 1 \/ (i - 1 \in DOMAIN held /\ (i - 1) + 1 = i)
      BY <1>1
    <3> QED
      BY <1>1, <1>2, <3>1
  <2>2. EvidenceAccountsForAll'
    BY <1>1, <1>2, <1>3, <2>1 DEF IInv, EvidenceAccountsForAll
  <2>3. (Shape /\ Phases /\ CallsCounted)'
    BY <1>1, <1>3 DEF IInv, Shape, Phases, CallsCounted, AcknowledgedSet, InDoubt, Top
  <2> QED
    BY <2>2, <2>3 DEF IInv
<1>4. CASE /\ held' = Append(held, b) /\ refused' = refused
           /\ evidence' = [evidence EXCEPT !.bytes = @ + Size[b], !.entries = Append(@, b)]
  <2>1. /\ held' \in Seq(Buffer) /\ Len(held') = Len(held) + 1
        /\ \A i \in DOMAIN held' : held'[i] = IF i = Len(held) + 1 THEN b ELSE held[i]
        /\ DOMAIN held' = 1..(Len(held) + 1) /\ DOMAIN held = 1..Len(held)
    BY <1>1, <1>4
  <2>2. /\ evidence'.entries = Append(evidence.entries, b)
        /\ evidence'.released = <<>> /\ evidence'.bytes = evidence.bytes + Size[b]
        /\ evidence' \in [bytes : Nat, entries : Seq(Handle), released : Seq(Handle)]
    <3>1. evidence \in [bytes : Nat, entries : Seq(Handle), released : Seq(Handle)]
      BY DEF IInv, Shape
    <3>2. evidence.bytes + Size[b] \in Nat
      BY <3>1, SizeAssumption
    <3>3. Append(evidence.entries, b) \in Seq(Handle)
      BY <1>2
    <3> QED
      BY <1>1, <1>4, <3>1, <3>2, <3>3
  <2>3. /\ Len(evidence'.entries) = Len(evidence.entries) + 1
        /\ \A i \in DOMAIN evidence'.entries :
              evidence'.entries[i] = IF i = Len(evidence.entries) + 1 THEN b ELSE evidence.entries[i]
        /\ DOMAIN evidence'.entries = 1..(Len(evidence.entries) + 1)
        /\ DOMAIN evidence.entries = 1..Len(evidence.entries)
    BY <1>2, <2>2, Appended
  <2>4. Shape'
    BY <1>1, <1>4, <2>1, <2>2 DEF IInv, Shape
  <2>5. Phases'
    BY <1>1, <2>2 DEF Phases, Before, Destroying
  <2>6. CallsCounted'
    <3>1. AcknowledgedSet' = {} /\ AcknowledgedSet = {} /\ InDoubt' = {} /\ InDoubt = {}
      BY <1>1, <2>2 DEF AcknowledgedSet, InDoubt
    <3>2. \A i, j \in DOMAIN held' : held'[i] = held'[j] => i = j
      BY <1>1, <2>1 DEF IInv, CallsCounted
    <3> QED
      BY <1>1, <3>1, <3>2 DEF IInv, CallsCounted
  <2>7. EvidenceAccountsForAll'
    <3>1. Len(evidence'.entries) = 1 + Len(held') /\ evidence'.entries[1] = Stream
      BY <1>1, <1>2, <2>1, <2>3
    <3>2. ASSUME NEW i \in DOMAIN held' PROVE evidence'.entries[i + 1] = held'[i]
      <4>1. Len(held) \in Nat /\ i \in 1..(Len(held) + 1)
        BY <1>1, <2>1
      <4>2. i + 1 \in DOMAIN evidence'.entries
        BY <4>1, <1>2, <2>3
      <4>3. CASE i = Len(held) + 1
        BY <4>1, <4>2, <4>3, <1>2, <2>1, <2>3
      <4>4. CASE i # Len(held) + 1
        <5>1. i \in DOMAIN held /\ i + 1 # Len(evidence.entries) + 1
          BY <4>1, <4>4, <1>2, <2>1
        <5> QED
          BY <4>2, <4>4, <5>1, <1>2, <2>1, <2>3
      <4> QED
        BY <4>3, <4>4
    <3>3. \A i \in DOMAIN evidence'.entries : evidence'.entries[i] \notin refused'
      BY <1>1, <1>2, <1>4, <2>3
    <3>4. step' # "Released" /\ DOMAIN evidence'.released = {} /\ Len(evidence'.released) = 0
      BY <1>1, <2>2
    <3>5. Len(held') + 1 = 1 + Len(held') + 0 /\ Len(held') \in Nat
      BY <2>1
    <3> QED
      BY <3>1, <3>2, <3>3, <3>4, <3>5 DEF EvidenceAccountsForAll
  <2> QED
    BY <2>4, <2>5, <2>6, <2>7 DEF IInv
<1> QED
  BY <1>3, <1>4 DEF PushBuffer, Register

(* Steps that only move the coordinator, or let the device work.           *)
MovesOnly ==
  /\ UNCHANGED <<held, refused, evidence, alive, calls>>
  /\ busy' \subseteq busy
  /\ step' \in Before \cup Freeing \cup Destroying
  /\ step \notin Final
  /\ step \in Before \/ step' \notin Before
  /\ step' \notin Before => busy' = {}
  /\ step' \in Destroying => held = <<>>

LEMMA MoveIInv == IInv /\ MovesOnly => IInv'
<1> SUFFICES ASSUME IInv, MovesOnly PROVE IInv'
  OBVIOUS
<1>1. step # "Quarantined" /\ step' # "Quarantined" /\ step # "Released" /\ step' # "Released"
  BY DEF MovesOnly, Final, Before, Freeing, Destroying
<1>2. Shape'
  BY DEF IInv, Shape, MovesOnly
<1>3. Phases'
  BY <1>1 DEF IInv, Phases, MovesOnly
<1>4. CallsCounted'
  BY <1>1 DEF IInv, CallsCounted, MovesOnly, AcknowledgedSet, InDoubt
<1>5. EvidenceAccountsForAll'
  BY <1>1 DEF IInv, EvidenceAccountsForAll, MovesOnly
<1> QED
  BY <1>2, <1>3, <1>4, <1>5 DEF IInv

LEMMA CoordinatorMoves ==
  ASSUME IInv,
         \/ BeginRelease \/ (\E b \in Buffer : DeviceFinishes(b))
         \/ QuiesceRefused \/ QuiesceUnconfirmed \/ Quiescent
         \/ FreeRefused \/ AllFreed \/ DestroyRefused \/ Retry \/ Reconcile
  PROVE  IInv'
<1> USE DEF Before, Freeing, Destroying, Final
<1>1. CASE \E b \in Buffer : DeviceFinishes(b)
  <2>1. step \in Before /\ step' = step
    BY <1>1 DEF DeviceFinishes, IInv, Shape, Phases
  <2> QED
    BY <1>1, <2>1, MoveIInv DEF DeviceFinishes, MovesOnly
<1>2. CASE BeginRelease \/ QuiesceRefused \/ QuiesceUnconfirmed \/ Quiescent \/ Reconcile
  BY <1>2, MoveIInv
  DEF BeginRelease, QuiesceRefused, QuiesceUnconfirmed, Quiescent, Reconcile, AfterPreflight, MovesOnly
<1>3. CASE FreeRefused \/ AllFreed
  BY <1>3, MoveIInv DEF FreeRefused, AllFreed, MovesOnly, IInv, Phases
<1>4. CASE DestroyRefused
  BY <1>4, MoveIInv DEF DestroyRefused, MovesOnly, IInv, Phases
<1>5. CASE Retry
  BY <1>5, MoveIInv DEF Retry, Pending, ResumeAt, MovesOnly, IInv, Phases
<1> QED
  BY <1>1, <1>2, <1>3, <1>4, <1>5

------------------------------------------------------------------------------
(* A buffer that is freed and acknowledged is the last one held and the    *)
(* next in the opposite order of the entries.                              *)
LEMMA FreeIInv ==
  ASSUME IInv, Free
  PROVE  IInv'
<1> DEFINE n == Len(evidence.entries)
           k == Len(held)
           r == Len(evidence.released)
<1>1. /\ step = "free" /\ step' = "free" /\ held # <<>> /\ held' = Rest
      /\ busy' = busy /\ refused' = refused
      /\ alive' = alive \ {Top} /\ evidence' = Acknowledged(Top)
      /\ calls' = [calls EXCEPT ![Top] = @ + 1]
  BY DEF Free, Called
<1>2. /\ held \in Seq(Buffer) /\ evidence.released \in Seq(Handle) /\ evidence.entries \in Seq(Handle)
      /\ evidence \in [bytes : Nat, entries : Seq(Handle), released : Seq(Handle)]
      /\ calls \in [Handle -> Nat]
  BY DEF IInv, Shape
<1>3. /\ k \in Nat \ {0} /\ k \in DOMAIN held /\ Top = held[k] /\ Top \in Buffer
      /\ held' \in Seq(Buffer) /\ Len(held') = k - 1
      /\ DOMAIN held = 1..k /\ DOMAIN held' = 1..(k - 1)
      /\ \A i \in 1..(k - 1) : held'[i] = held[i]
  BY <1>1, <1>2, Shortened DEF Top, Rest
<1>4. Top \in Handle /\ Top # Stream
  BY <1>3, HandleAssumption DEF Handle
<1>5. /\ evidence'.entries = evidence.entries /\ evidence'.bytes = evidence.bytes
      /\ evidence'.released = Append(evidence.released, Top)
      /\ evidence' \in [bytes : Nat, entries : Seq(Handle), released : Seq(Handle)]
  <2>1. Append(evidence.released, Top) \in Seq(Handle)
    BY <1>2, <1>4
  <2> QED
    BY <1>1, <1>2, <2>1 DEF Acknowledged
<1>6. /\ Len(evidence'.released) = r + 1 /\ r \in Nat
      /\ DOMAIN evidence.released = 1..r /\ DOMAIN evidence'.released = 1..(r + 1)
      /\ \A i \in 1..(r + 1) : evidence'.released[i] = IF i = r + 1 THEN Top ELSE evidence.released[i]
  BY <1>2, <1>4, <1>5, Appended
<1>7. /\ n = 1 + k + r /\ n \in Nat /\ evidence.entries[1] = Stream
      /\ \A i \in DOMAIN held : evidence.entries[i + 1] = held[i]
      /\ \A i \in DOMAIN evidence.released :
            evidence.released[i] = evidence.entries[n - i + 1] /\ evidence.released[i] \notin alive
      /\ \A i \in DOMAIN evidence.entries : evidence.entries[i] \notin refused
  BY <1>1, <1>2 DEF IInv, EvidenceAccountsForAll
<1>8. Shape'
  <2>1. calls' \in [Handle -> Nat]
    BY <1>1, <1>2, <1>4
  <2> QED
    BY <1>1, <1>3, <1>5, <2>1 DEF IInv, Shape
<1>9. Phases'
  BY <1>1 DEF IInv, Phases, Before, Destroying
<1>10. CallsCounted'
  <2>1. AcknowledgedSet' = AcknowledgedSet \cup {Top}
    BY <1>6 DEF AcknowledgedSet
  <2>2. InDoubt = {} /\ InDoubt' = {}
    BY <1>1 DEF InDoubt
  <2>3. Top \notin AcknowledgedSet
    BY <1>3 DEF IInv, CallsCounted
  <2>4. \A h \in Handle : calls'[h] = IF h \in AcknowledgedSet' THEN 1 ELSE 0
    BY <1>1, <1>2, <1>4, <2>1, <2>2, <2>3 DEF IInv, CallsCounted
  <2>5. \A i, j \in DOMAIN held' : held'[i] = held'[j] => i = j
    BY <1>3 DEF IInv, CallsCounted
  <2>6. \A i \in DOMAIN held' : held'[i] \notin AcknowledgedSet'
    BY <1>3, <2>1 DEF IInv, CallsCounted
  <2>7. Stream \notin AcknowledgedSet'
    BY <1>1, <1>4, <2>1 DEF IInv, CallsCounted
  <2> QED
    BY <2>2, <2>4, <2>5, <2>6, <2>7 DEF CallsCounted
<1>11. EvidenceAccountsForAll'
  <2>1. n = 1 + Len(held') + Len(evidence'.released)
    <3>1. ASSUME NEW x \in Nat, NEW y \in Nat, NEW z \in Nat, z = 1 + x + y
          PROVE  z = 1 + (x - 1) + (y + 1)
      BY <3>1
    <3>2. n = 1 + (k - 1) + (r + 1)
      BY ONLY <1>3, <1>6, <1>7, <3>1
    <3> QED
      BY <1>3, <1>6, <3>2
  <2>2. \A i \in DOMAIN held' : evidence.entries[i + 1] = held'[i]
    BY <1>3, <1>7
  <2>3. ASSUME NEW i \in DOMAIN evidence'.released
        PROVE  evidence'.released[i] = evidence.entries[n - i + 1] /\ evidence'.released[i] \notin alive'
    <3>1. CASE i = r + 1
      <4>1. n - i + 1 = k + 1
        BY <1>3, <1>6, <1>7, <3>1
      <4> QED
        BY <1>1, <1>3, <1>6, <1>7, <3>1, <4>1
    <3>2. CASE i # r + 1
      <4>1. i \in DOMAIN evidence.released
        BY <1>6, <3>2
      <4> QED
        BY <1>1, <1>6, <1>7, <3>2, <4>1
    <3> QED
      BY <3>1, <3>2
  <2> QED
    BY <1>1, <1>5, <1>7, <2>1, <2>2, <2>3 DEF EvidenceAccountsForAll
<1> QED
  BY <1>8, <1>9, <1>10, <1>11 DEF IInv

(* The stream is destroyed last, and its entry is the first.               *)
LEMMA DestroyIInv ==
  ASSUME IInv, Destroy
  PROVE  IInv'
<1> DEFINE n == Len(evidence.entries)
           r == Len(evidence.released)
<1>1. /\ step = "destroy" /\ step' = "Released" /\ held = <<>> /\ held' = <<>>
      /\ busy' = busy /\ refused' = refused
      /\ alive' = alive \ {Stream} /\ evidence' = Acknowledged(Stream)
      /\ calls' = [calls EXCEPT ![Stream] = @ + 1]
  BY DEF Destroy, Called, IInv, Phases, Destroying
<1>2. /\ evidence.released \in Seq(Handle) /\ evidence.entries \in Seq(Handle)
      /\ evidence \in [bytes : Nat, entries : Seq(Handle), released : Seq(Handle)]
      /\ calls \in [Handle -> Nat] /\ Stream \in Handle
  BY DEF IInv, Shape, Handle
<1>3. /\ evidence'.entries = evidence.entries /\ evidence'.bytes = evidence.bytes
      /\ evidence'.released = Append(evidence.released, Stream)
      /\ evidence' \in [bytes : Nat, entries : Seq(Handle), released : Seq(Handle)]
  <2>1. Append(evidence.released, Stream) \in Seq(Handle)
    BY <1>2
  <2> QED
    BY <1>1, <1>2, <2>1 DEF Acknowledged
<1>4. /\ Len(evidence'.released) = r + 1 /\ r \in Nat
      /\ DOMAIN evidence.released = 1..r /\ DOMAIN evidence'.released = 1..(r + 1)
      /\ \A i \in 1..(r + 1) : evidence'.released[i] = IF i = r + 1 THEN Stream ELSE evidence.released[i]
  BY <1>2, <1>3, Appended
<1>5. /\ n = 1 + r /\ n \in Nat /\ evidence.entries[1] = Stream
      /\ \A i \in DOMAIN evidence.released :
            evidence.released[i] = evidence.entries[n - i + 1] /\ evidence.released[i] \notin alive
      /\ \A i \in DOMAIN evidence.entries : evidence.entries[i] \notin refused
  BY <1>1, <1>2, <1>4 DEF IInv, EvidenceAccountsForAll
<1>6. Shape' /\ Phases'
  BY <1>1, <1>2, <1>3 DEF IInv, Shape, Phases, Before, Destroying, Final
<1>7. CallsCounted'
  <2>1. AcknowledgedSet' = AcknowledgedSet \cup {Stream}
    BY <1>4 DEF AcknowledgedSet
  <2>2. InDoubt = {} /\ InDoubt' = {} /\ Stream \notin AcknowledgedSet
    BY <1>1 DEF InDoubt, IInv, CallsCounted
  <2> QED
    BY <1>1, <1>2, <2>1, <2>2 DEF IInv, CallsCounted
<1>8. EvidenceAccountsForAll'
  <2>1. ASSUME NEW i \in DOMAIN evidence'.released
        PROVE  evidence'.released[i] = evidence.entries[n - i + 1] /\ evidence'.released[i] \notin alive'
    <3>1. CASE i = r + 1
      BY <1>1, <1>4, <1>5, <3>1
    <3>2. CASE i # r + 1
      <4>1. i \in DOMAIN evidence.released
        BY <1>4, <3>2
      <4> QED
        BY <1>1, <1>4, <1>5, <3>2, <4>1
    <3> QED
      BY <3>1, <3>2
  <2> QED
    BY <1>1, <1>3, <1>4, <1>5, <2>1 DEF EvidenceAccountsForAll
<1> QED
  BY <1>6, <1>7, <1>8 DEF IInv

(* A destructor that failed counts as called and is acknowledged nowhere.  *)
LEMMA UncertainIInv ==
  ASSUME IInv, FreeUncertain \/ DestroyUncertain
  PROVE  IInv'
<1> DEFINE h == IF held = <<>> THEN Stream ELSE Top
<1>1. /\ step \in {"free", "destroy"} /\ step' = "Quarantined"
      /\ UNCHANGED <<held, refused, evidence, busy>>
      /\ calls' = [calls EXCEPT ![h] = @ + 1]
      /\ alive' \subseteq alive
  BY DEF FreeUncertain, DestroyUncertain, AfterDestructorFault, Called, IInv, Phases, Destroying
<1>2. held # <<>> => Top \in Buffer /\ \E i \in DOMAIN held : held[i] = Top
  BY Shortened DEF Top, IInv, Shape
<1>3. h \in Handle
  BY <1>2 DEF Handle
<1>4. InDoubt = {} /\ InDoubt' = {h} /\ AcknowledgedSet' = AcknowledgedSet
  BY <1>1 DEF InDoubt, AcknowledgedSet, Top
<1>5. h \notin AcknowledgedSet
  BY <1>1, <1>2 DEF IInv, CallsCounted
<1>6. Shape' /\ Phases'
  BY <1>1, <1>3 DEF IInv, Shape, Phases, Before, Freeing, Destroying, Final
<1>7. CallsCounted'
  BY <1>1, <1>3, <1>4, <1>5 DEF IInv, CallsCounted, Shape
<1>8. EvidenceAccountsForAll'
  BY <1>1 DEF IInv, EvidenceAccountsForAll
<1> QED
  BY <1>6, <1>7, <1>8 DEF IInv

LEMMA NextIInv == IInv /\ [Next]_vars => IInv'
<1> SUFFICES ASSUME IInv, [Next]_vars PROVE IInv'
  OBVIOUS
<1>1. CASE UNCHANGED vars
  <2>1. (Shape /\ Phases)'
    BY <1>1 DEF vars, IInv, Shape, Phases
  <2>2. AcknowledgedSet' = AcknowledgedSet /\ InDoubt' = InDoubt
    BY <1>1 DEF vars, AcknowledgedSet, InDoubt, Top
  <2>3. CallsCounted'
    BY <1>1, <2>2 DEF vars, IInv, CallsCounted
  <2>4. EvidenceAccountsForAll'
    BY <1>1 DEF vars, IInv, EvidenceAccountsForAll
  <2> QED
    BY <2>1, <2>3, <2>4 DEF IInv
<1>2. CASE \E b \in Buffer : PushBuffer(b)
  BY <1>2, PushIInv
<1>3. CASE \/ BeginRelease \/ (\E b \in Buffer : DeviceFinishes(b)) \/ Coordinate
           \/ Retry \/ Reconcile
  BY <1>3, CoordinatorMoves, FreeIInv, DestroyIInv, UncertainIInv DEF Coordinate
<1> QED
  BY <1>1, <1>2, <1>3 DEF Next

LEMMA Invariance == Spec => []IInv
BY InitIInv, NextIInv, PTL DEF Spec

------------------------------------------------------------------------------
(* No buffer reaches hipFree while queued work may touch it, and the stream *)
(* goes last, after any history of failures, retries and reconciliations    *)
(* (begin_coordinator, reconcile_synchronization, resume_buffers).          *)
THEOREM NothingInUseIsFreed == Spec => []NothingFreedInUse
<1>1. IInv => NothingFreedInUse
  <2> SUFFICES ASSUME IInv PROVE NothingFreedInUse
    OBVIOUS
  <2>1. ASSUME NEW b \in busy PROVE calls[b] = 0
    <3>1. step \in Before /\ b \in Handle
      BY DEF IInv, Phases, Shape, Handle
    <3>2. AcknowledgedSet = {} /\ InDoubt = {}
      BY <3>1 DEF IInv, Phases, AcknowledgedSet, InDoubt, Before
    <3> QED
      BY <3>1, <3>2 DEF IInv, CallsCounted
  <2>2. ASSUME calls[Stream] > 0 PROVE held = <<>>
    <3>1. Stream \in AcknowledgedSet \cup InDoubt
      BY <2>2 DEF IInv, CallsCounted, Handle
    <3>2. CASE Stream \in AcknowledgedSet
      BY <3>2 DEF IInv, CallsCounted, Phases
    <3>3. CASE Stream \in InDoubt
      <4>1. held # <<>> => Top \in Buffer
        BY Shortened DEF IInv, Shape, Top
      <4> QED
        BY <3>3, <4>1, HandleAssumption DEF InDoubt
    <3> QED
      BY <3>1, <3>2, <3>3
  <2> QED
    BY <2>1, <2>2 DEF NothingFreedInUse
<1> QED
  BY <1>1, Invariance, PTL

(* Every outcome accounts for every entry, in the order it promises        *)
(* (InventoryEvidence, HeldInventory, InventoryPushError).                 *)
THEOREM EvidenceIsComplete == Spec => []EvidenceAccountsForAll
<1>1. IInv => EvidenceAccountsForAll
  BY DEF IInv
<1> QED
  BY <1>1, Invariance, PTL

(* No destructor is called twice, whatever is retried                      *)
(* (ReleaseOwner::attempt, InventoryQuarantine).                           *)
THEOREM DestroyedAtMostOnce == Spec => []OneDestructorCall
<1>1. IInv => OneDestructorCall
  BY DEF IInv, CallsCounted, AcknowledgedSet, InDoubt, OneDestructorCall
<1> QED
  BY <1>1, Invariance, PTL

------------------------------------------------------------------------------
(* DeviceMemory.                                                           *)

(* What must hold of one buffer.  A buffer that may still be used has been  *)
(* freed nowhere; one that is being copied to has its host data.            *)
SoundAllocation(b) ==
  /\ owner[b] \in Owners
  /\ b \in dma => /\ b \in allocated
                  /\ owner[b] \in {"copy", "leaked"} /\ data[b] \in {"held", "leaked"}
  /\ frees[b] \in {<<>>, <<Home[b]>>}
  /\ b \in allocated => owner[b] \notin {"none", "freed"}
  /\ owner[b] \in {"none", "buffer", "copy", "pending"} => frees[b] = <<>>
  /\ owner[b] \in {"buffer", "copy", "pending"} => b \in allocated
  /\ owner[b] = "copy" => data[b] = "held"

MemoryInv ==
  /\ owner \in [Allocation -> Owners]
  /\ DOMAIN data = Allocation /\ DOMAIN frees = Allocation
  /\ \A b \in Allocation : SoundAllocation(b)
  /\ dma \subseteq Allocation

(* What an action does to one buffer leaves the others alone. *)
OnlyOf(b) ==
  /\ DOMAIN owner' = Allocation /\ DOMAIN data' = Allocation /\ DOMAIN frees' = Allocation
  /\ dma' \subseteq Allocation
  /\ \A c \in Allocation \ {b} :
       /\ owner'[c] = owner[c] /\ data'[c] = data[c] /\ frees'[c] = frees[c]
       /\ c \in allocated' <=> c \in allocated
       /\ c \in dma' <=> c \in dma

MemoryStep(b) ==
  \/ AllocTracked(b) \/ DropBuffer(b) \/ Upload(b)
  \/ UploadFails(b) \/ UploadRuns(b) \/ Wait(b)
  \/ DropCopy(b) \/ Release(b)

LEMMA ActionIsLocal ==
  ASSUME MemoryInv, NEW b \in Allocation, MemoryStep(b)
  PROVE  OnlyOf(b) /\ owner' = [owner EXCEPT ![b] = owner'[b]]
<1>1. CASE AllocTracked(b)
  BY <1>1
     DEF AllocTracked, Created, NoHandle, Indeterminate,
         Becomes, OnlyOf, MemoryInv
<1>2. CASE DropBuffer(b) \/ UploadFails(b)
  BY <1>2
     DEF DropBuffer, UploadFails, Freed, Becomes,
         OnlyOf, MemoryInv
<1>3. CASE Upload(b) \/ UploadRuns(b) \/ Wait(b)
  BY <1>3
     DEF Upload, UploadRuns, Wait, Becomes, OnlyOf,
         MemoryInv
<1>4. CASE DropCopy(b)
  BY <1>4
     DEF DropCopy, Freed, LeaksBoth, Becomes, OnlyOf,
         MemoryInv
<1>5. CASE Release(b)
  BY <1>5 DEF Release, Becomes, OnlyOf, MemoryInv
<1> QED
  BY <1>1, <1>2, <1>3, <1>4, <1>5 DEF MemoryStep

(* A buffer that is freed was never freed before, and no copy to it runs. *)
LEMMA FreedSound ==
  ASSUME MemoryInv, NEW b \in Allocation, owner[b] \in {"buffer", "copy"}, b \notin dma,
         Freed(b)
  PROVE  /\ owner'[b] \in {"freed", "leaked"}
         /\ frees'[b] \in {<<>>, <<Home[b]>>}
         /\ b \in allocated' => owner'[b] = "leaked"
<1>1. frees[b] = <<>> /\ b \in allocated /\ b \in DOMAIN owner /\ b \in DOMAIN frees
  BY DEF MemoryInv, SoundAllocation
<1>2. CASE Selected(b) /\ frees' = [frees EXCEPT ![b] = Append(@, current')]
  <2>1. frees'[b] = <<Home[b]>>
    BY <1>1, <1>2 DEF Selected
  <2> QED
    BY <2>1, <1>1 DEF Freed, Becomes
<1>3. CASE SelectFails /\ Becomes(b, "leaked") /\ UNCHANGED <<allocated, frees>>
  BY <1>1, <1>3 DEF Becomes
<1> QED
  BY <1>2, <1>3 DEF Freed

LEMMA ActionIsSound ==
  ASSUME MemoryInv, NEW b \in Allocation, MemoryStep(b)
  PROVE  SoundAllocation(b)'
<1>1. SoundAllocation(b) /\ b \in DOMAIN owner /\ b \in DOMAIN data /\ b \in DOMAIN frees
  BY DEF MemoryInv
<1>2. CASE AllocTracked(b)
  BY <1>1, <1>2
     DEF AllocTracked, Created, NoHandle, Indeterminate,
         Becomes, SoundAllocation, Owners
<1>3. CASE DropBuffer(b) \/ UploadFails(b)
  <2>1. owner[b] = "buffer" /\ Freed(b) /\ data' = data /\ dma' = dma
    BY <1>3 DEF DropBuffer, UploadFails
  <2>2. b \notin dma
    BY <1>1, <2>1 DEF SoundAllocation
  <2> QED
    BY <1>1, <2>1, <2>2, FreedSound DEF SoundAllocation, Owners
<1>4. CASE Upload(b)
  BY <1>1, <1>4 DEF Upload, Becomes, SoundAllocation, Owners
<1>5. CASE UploadRuns(b)
  BY <1>1, <1>5 DEF UploadRuns, SoundAllocation
<1>6. CASE Wait(b)
  BY <1>1, <1>6
     DEF Wait, Synchronized, Becomes, SoundAllocation, Owners
<1>7. CASE DropCopy(b)
  <2>1. CASE Synchronized(b) /\ Freed(b)
    <3>1. b \notin dma /\ owner[b] = "copy" /\ dma' = dma
      BY <1>7, <2>1 DEF Synchronized, DropCopy
    <3> QED
      BY <1>1, <2>1, <3>1, FreedSound DEF SoundAllocation, Owners
  <2>2. CASE LeaksBoth(b)
    BY <1>1, <1>7, <2>2
       DEF DropCopy, LeaksBoth, Becomes, SoundAllocation, Owners
  <2> QED
    BY <1>7, <2>1, <2>2 DEF DropCopy
<1>8. CASE Release(b)
  <2>1. b \notin dma /\ frees[b] = <<>> /\ b \in allocated
    BY <1>1, <1>8 DEF Release, SoundAllocation
  <2>2. CASE SelectFails /\ Becomes(b, "pending") /\ UNCHANGED <<allocated, frees>>
    BY <1>1, <1>8, <2>1, <2>2 DEF Release, Becomes, SoundAllocation, Owners
  <2>3. CASE Selected(b) /\ frees' = [frees EXCEPT ![b] = Append(@, current')]
    <3>1. frees'[b] = <<Home[b]>>
      BY <1>1, <2>1, <2>3 DEF Selected
    <3>2. /\ dma' = dma /\ owner'[b] \in {"freed", "quarantine"}
          /\ b \in allocated' => owner'[b] = "quarantine"
      <4>1. CASE allocated' = allocated \ {b} /\ Becomes(b, "freed")
        BY <1>1, <1>8, <4>1 DEF Release, Becomes
      <4>2. CASE Becomes(b, "quarantine")
        BY <1>1, <1>8, <4>2 DEF Release, Becomes
      <4>3. CASE SelectFails /\ Becomes(b, "pending") /\ UNCHANGED <<allocated, frees>>
        BY <1>1, <2>1, <3>1, <4>3
      <4> QED
        BY <1>8, <4>1, <4>2, <4>3 DEF Release
    <3> QED
      BY <2>1, <3>1, <3>2 DEF SoundAllocation, Owners
  <2> QED
    BY <1>8, <2>2, <2>3 DEF Release
<1> QED
  BY <1>2, <1>3, <1>4, <1>5, <1>6, <1>7, <1>8 DEF MemoryStep

LEMMA MemoryInitInv == MemoryInit => MemoryInv
BY DEF MemoryInit, MemoryInv, SoundAllocation, Owners

LEMMA MemoryNextInv == MemoryInv /\ [MemoryNext]_memoryVars => MemoryInv'
<1> SUFFICES ASSUME MemoryInv, [MemoryNext]_memoryVars PROVE MemoryInv'
  OBVIOUS
<1>1. CASE UNCHANGED memoryVars
  BY <1>1 DEF memoryVars, MemoryInv, SoundAllocation
<1>2. ASSUME NEW b \in Allocation, MemoryStep(b)
      PROVE  MemoryInv'
  <2>1. OnlyOf(b) /\ owner' = [owner EXCEPT ![b] = owner'[b]]
    BY <1>2, ActionIsLocal
  <2>2. SoundAllocation(b)'
    BY <1>2, ActionIsSound
  <2>3. ASSUME NEW c \in Allocation, c # b PROVE SoundAllocation(c)'
    BY <2>1, <2>3 DEF OnlyOf, MemoryInv, SoundAllocation
  <2>4. \A c \in Allocation : SoundAllocation(c)'
    BY <2>2, <2>3
  <2>5. owner' \in [Allocation -> Owners]
    BY <2>1, <2>2 DEF MemoryInv, SoundAllocation
  <2> QED
    BY <2>1, <2>4, <2>5 DEF OnlyOf, MemoryInv
<1> QED
  BY <1>1, <1>2 DEF MemoryNext, MemoryStep

LEMMA MemoryInvariance == MemorySpec => []MemoryInv
BY MemoryInitInv, MemoryNextInv, PTL DEF MemorySpec

(* Whatever fails, nothing a running copy reads or writes is given back. *)
THEOREM UploadsKeepTheirEnds == MemorySpec => []UploadsOwnBothEnds
<1>1. MemoryInv => UploadsOwnBothEnds
  BY DEF MemoryInv, SoundAllocation, UploadsOwnBothEnds
<1> QED
  BY <1>1, MemoryInvariance, PTL

(* No buffer is freed twice or on a device other than its own, and no       *)
(* allocation is forgotten (Drop for DeviceBuffer, resolve_creation).       *)
THEOREM FreedOnceAtHome == MemorySpec => []OneFreeAtHome
<1>1. MemoryInv => OneFreeAtHome
  BY DEF MemoryInv, SoundAllocation, OneFreeAtHome
<1> QED
  BY <1>1, MemoryInvariance, PTL
==============================================================================
