-------------------------- MODULE TeardownInventory --------------------------
(***************************************************************************)
(* The explicit teardown of one stream and of the buffers it touched       *)
(* (crates/hipcore/src/teardown.rs).  The inventory is built from inert    *)
(* handles, proves that the stream is quiet, frees the buffers last in     *)
(* first out and destroys the stream.  Each native call can be refused     *)
(* before it is made (preflight: the device cannot be made current), and   *)
(* a call that was made can fail without saying what became of the handle. *)
(* A call of the owner (begin_release, retry, reconcile) runs one action   *)
(* per native call, while the device works off what was queued before.     *)
(***************************************************************************)
EXTENDS Integers, Sequences, FiniteSets

CONSTANTS
  Buffer,      \* device buffers the stream may have touched
  Stream,      \* the handle of the stream
  Size,        \* buffer |-> requested bytes
  USizeMax,    \* the largest usize
  MaxFaults    \* bound: native calls and preflights that fail

Handle == Buffer \cup {Stream}

ASSUME HandleAssumption == Stream \notin Buffer
ASSUME SizeAssumption == USizeMax \in Nat /\ Size \in [Buffer -> 0..USizeMax]
ASSUME FaultAssumption == MaxFaults \in Nat

VARIABLES
  step,      \* where the coordinator is, or the outcome it has returned
  held,      \* buffers still owned, the next to be freed last
  refused,   \* buffers push_teardown_buffer gave back
  evidence,  \* bytes requested, entries registered, entries acknowledged
  busy,      \* buffers that queued work will still touch
  alive,     \* handles the runtime still knows
  calls,     \* handle |-> destructor calls made on it
  faults     \* failures so far

vars == <<step, held, refused, evidence, busy, alive, calls, faults>>

(* Outcomes a caller holds; the other steps are points inside a call.      *)
Pending == {"Synchronizing", "Releasing", "Destroying"}
Final == {"Released", "Quarantined"}

Init ==
  /\ step = "Open"
  /\ held = <<>> /\ refused = {}
  /\ evidence = [bytes |-> 0, entries |-> <<Stream>>, released |-> <<>>]
  /\ busy \in SUBSET Buffer
  /\ alive = Handle
  /\ calls = [h \in Handle |-> 0]
  /\ faults = 0

Given == {held[i] : i \in DOMAIN held} \cup refused

(* Mutant: the entry is recorded although the buffer is refused. *)
RegisterFirst(b) ==
  /\ evidence' = [evidence EXCEPT !.bytes = IF @ + Size[b] > USizeMax THEN @ ELSE @ + Size[b],
                                  !.entries = Append(@, b)]
  /\ IF evidence.bytes + Size[b] > USizeMax
     THEN refused' = refused \cup {b} /\ UNCHANGED held
     ELSE held' = Append(held, b) /\ UNCHANGED refused
(* checked_add: a sum that does not fit gives the buffer back. *)
Register(b) ==
  \/ /\ evidence.bytes + Size[b] > USizeMax
     /\ refused' = refused \cup {b}
     /\ UNCHANGED <<held, evidence>>
  \/ /\ evidence.bytes + Size[b] <= USizeMax
     /\ held' = Append(held, b)
     /\ evidence' = [evidence EXCEPT !.bytes = @ + Size[b], !.entries = Append(@, b)]
     /\ UNCHANGED refused

PushBuffer(b) ==
  /\ step = "Open" /\ b \notin Given
  /\ Register(b)
  /\ UNCHANGED <<step, busy, alive, calls, faults>>

BeginRelease ==
  /\ step = "Open"
  /\ step' = "quiesce"
  /\ UNCHANGED <<held, refused, evidence, busy, alive, calls, faults>>

(* Queued work of the stream ends on its own. *)
DeviceFinishes(b) ==
  /\ b \in busy
  /\ busy' = busy \ {b}
  /\ UNCHANGED <<step, held, refused, evidence, alive, calls, faults>>

Fault == faults < MaxFaults /\ faults' = faults + 1

------------------------------------------------------------------------------
(* attempt_stream_quiesce and what the coordinator makes of its outcome.   *)
(* Mutant: a reconciliation that cannot select the device is a plain       *)
(* pending, from which the stream is taken to be quiet.                    *)
AsPreflight == IF step = "reconcile" THEN "Releasing" ELSE "Synchronizing"
AfterPreflight == IF step = "reconcile" THEN "Unconfirmed" ELSE "Synchronizing"

QuiesceRefused ==
  /\ step \in {"quiesce", "reconcile"}
  /\ Fault
  /\ step' = AfterPreflight
  /\ UNCHANGED <<held, refused, evidence, busy, alive, calls>>

(* hipStreamSynchronize failed: the work may be over or not. *)
QuiesceUnconfirmed ==
  /\ step \in {"quiesce", "reconcile"}
  /\ Fault
  /\ step' = "Unconfirmed"
  /\ UNCHANGED <<held, refused, evidence, busy, alive, calls>>

(* hipStreamSynchronize returns when the queue is empty. *)
Quiescent ==
  /\ step \in {"quiesce", "reconcile"}
  /\ busy = {}
  /\ step' = "free"
  /\ UNCHANGED <<held, refused, evidence, busy, alive, calls, faults>>

------------------------------------------------------------------------------
(* resume_buffers: the buffer a retry brings back is the last of held. *)
Top == held[Len(held)]
Rest == SubSeq(held, 1, Len(held) - 1)
Acknowledged(h) == [evidence EXCEPT !.released = Append(@, h)]
Called(h) == calls' = [calls EXCEPT ![h] = @ + 1]

FreeRefused ==
  /\ step = "free" /\ held # <<>>
  /\ Fault
  /\ step' = "Releasing"
  /\ UNCHANGED <<held, refused, evidence, busy, alive, calls>>

Free ==
  /\ step = "free" /\ held # <<>>
  /\ Called(Top)
  /\ alive' = alive \ {Top}
  /\ held' = Rest /\ evidence' = Acknowledged(Top)
  /\ UNCHANGED <<step, refused, busy, faults>>

(* The call was made and failed: the handle may be gone or not. *)
(* Mutant: a destructor that failed is tried again. *)
RetryableDestructor == "Releasing"
AfterDestructorFault == "Quarantined"

FreeUncertain ==
  /\ step = "free" /\ held # <<>>
  /\ Fault
  /\ Called(Top)
  /\ alive' \in {alive, alive \ {Top}}
  /\ step' = AfterDestructorFault
  /\ UNCHANGED <<held, refused, evidence, busy>>

AllFreed ==
  /\ step = "free" /\ held = <<>>
  /\ step' = "destroy"
  /\ UNCHANGED <<held, refused, evidence, busy, alive, calls, faults>>

------------------------------------------------------------------------------
(* finish_inventory *)
DestroyRefused ==
  /\ step = "destroy"
  /\ Fault
  /\ step' = "Destroying"
  /\ UNCHANGED <<held, refused, evidence, busy, alive, calls>>

Destroy ==
  /\ step = "destroy"
  /\ Called(Stream)
  /\ alive' = alive \ {Stream}
  /\ evidence' = Acknowledged(Stream)
  /\ step' = "Released"
  /\ UNCHANGED <<held, refused, busy, faults>>

DestroyUncertain ==
  /\ step = "destroy"
  /\ Fault
  /\ Called(Stream)
  /\ alive' \in {alive, alive \ {Stream}}
  /\ step' = "Quarantined"
  /\ UNCHANGED <<held, refused, evidence, busy>>

------------------------------------------------------------------------------
(* retry_pending: each pending outcome goes back to its own call.          *)
(* Mutant: a retry of the stream's destruction has nothing left to do. *)
ForgetsTheStream ==
  CASE step = "Synchronizing" -> "quiesce"
    [] step = "Releasing" -> "free"
    [] step = "Destroying" -> "Destroying"
ResumeAt ==
  CASE step = "Synchronizing" -> "quiesce"
    [] step = "Releasing" -> "free"
    [] step = "Destroying" -> "destroy"

Retry ==
  /\ step \in Pending
  /\ step' = ResumeAt
  /\ UNCHANGED <<held, refused, evidence, busy, alive, calls, faults>>

Reconcile ==
  /\ step = "Unconfirmed"
  /\ step' = "reconcile"
  /\ UNCHANGED <<held, refused, evidence, busy, alive, calls, faults>>

------------------------------------------------------------------------------
Coordinate ==
  \/ QuiesceRefused \/ QuiesceUnconfirmed \/ Quiescent
  \/ FreeRefused \/ Free \/ FreeUncertain \/ AllFreed
  \/ DestroyRefused \/ Destroy \/ DestroyUncertain

Next ==
  \/ \E b \in Buffer : PushBuffer(b)
  \/ BeginRelease
  \/ \E b \in Buffer : DeviceFinishes(b)
  \/ Coordinate
  \/ Retry
  \/ Reconcile

Spec == Init /\ [][Next]_vars

(* The device works, a call returns, and the owner asks again. *)
FairSpec ==
  /\ Spec
  /\ WF_vars(\E b \in Buffer : DeviceFinishes(b))
  /\ WF_vars(Coordinate) /\ WF_vars(Retry) /\ WF_vars(Reconcile)

------------------------------------------------------------------------------
(* No buffer reaches hipFree while queued work may touch it, and the stream *)
(* is destroyed only after every buffer of its inventory has been freed,    *)
(* whatever was refused, left unconfirmed, retried or reconciled before     *)
(* (begin_coordinator, reconcile_synchronization, resume_buffers).          *)
NothingFreedInUse ==
  /\ \A b \in busy : calls[b] = 0
  /\ calls[Stream] > 0 => held = <<>>

(* Every outcome still accounts for the whole inventory: an entry is either *)
(* held, in the order of registration, or acknowledged, in the opposite     *)
(* order and after the runtime let go of it; a refused buffer is in neither *)
(* (InventoryEvidence, HeldInventory, InventoryPushError).                  *)
EvidenceAccountsForAll ==
  LET entries == evidence.entries
      released == evidence.released
      n == Len(entries)
  IN /\ n = IF step = "Released" THEN Len(released) ELSE 1 + Len(held) + Len(released)
     /\ entries[1] = Stream
     /\ \A i \in DOMAIN held : entries[i + 1] = held[i]
     /\ \A i \in DOMAIN released : released[i] = entries[n - i + 1] /\ released[i] \notin alive
     /\ \A i \in DOMAIN entries : entries[i] \notin refused

(* A destructor is called at most once on a handle.  One that was called    *)
(* and not acknowledged ends the teardown in quarantine, from which nothing *)
(* is retried (ReleaseOwner::attempt, InventoryQuarantine).                 *)
OneDestructorCall ==
  \A h \in Handle :
    /\ calls[h] <= 1
    /\ calls[h] = 1 /\ (\A i \in DOMAIN evidence.released : evidence.released[i] # h)
         => step = "Quarantined"

(* An owner that keeps asking is told in the end, if failures do not go on  *)
(* for ever: no outcome leads back only to itself.                          *)
TeardownSettles == (step = "quiesce") ~> (step \in Final)
==============================================================================
