----------------------------- MODULE NativeText -----------------------------
(***************************************************************************)
(* Shared native text execution and who owns what on the way               *)
(* (crates/hermeneus/src/native_text.rs over decoders qwen35_native).  One *)
(* resident model serves several uses.  A use holds two references: one to *)
(* the resident of this crate, one (in its session plan, session, failed   *)
(* build or teardown) to the uploads themselves.  Whoever is left holding  *)
(* an unfinished build or teardown may retry it, reconcile it, or drop it. *)
(*                                                                         *)
(* An aggregate teardown is taken at the outcomes TeardownInventory shows. *)
(***************************************************************************)
EXTENDS Integers, FiniteSets

CONSTANTS
  Use,          \* planned uses of the resident
  Buffer,       \* buffers a session is built of
  MaxBatches,   \* bound: token batches of a generation
  MaxFaults     \* bound: native calls that fail

ASSUME UseAssumption == IsFiniteSet(Use)
ASSUME BufferAssumption == {"stream", "logits"} \cap Buffer = {}
ASSUME BoundAssumption == MaxBatches \in Nat /\ MaxFaults \in Nat

VARIABLES
  resident,   \* of the uploads: "Open", or how far their teardown has come
  handle,     \* the caller holds the NativeTextResident
  outer,      \* strong count of Arc<NativeTextResidentInner>
  inner,      \* strong count of Arc<NativeResidentModelResources>
  recovered,  \* models recovered from builds and held by the caller
  use,        \* use |-> where it is
  alive,      \* use |-> what the runtime has created for it and not destroyed
  left,       \* use |-> batches still to drive
  faults

vars == <<resident, handle, outer, inner, recovered, use, alive, left, faults>>

(* A use goes through plan, building, session and ended; what is left over  *)
(* of a failed construction is a build, of an ended session a close.        *)
(* source is the failure that comes with it, "None" without one; lost says  *)
(* that a handle of uncertain creation is kept beside the known owners.     *)
NoUse == [kind |-> "none", at |-> "none", source |-> "None", lost |-> FALSE]
Stage(k, a) == [NoUse EXCEPT !.kind = k, !.at = a]

Init ==
  /\ resident = "Open" /\ handle = TRUE
  /\ outer = 1 /\ inner = 1 /\ recovered = 0
  /\ use = [u \in Use |-> NoUse]
  /\ alive = [u \in Use |-> {}]
  /\ left = [u \in Use |-> 0]
  /\ faults = 0

Fault == faults < MaxFaults /\ faults' = faults + 1
Built == Buffer \cup {"stream"}

(* ExplicitReleaseOwner: dropping the last resident does not drop its model. *)
AfterOuterDrop(strong) == inner

DropOuter == outer' = outer - 1 /\ inner' = AfterOuterDrop(outer - 1)

(* An aggregate teardown, as TeardownInventory shows it: unless all was     *)
(* acknowledged, what it was given is still there or may be.                *)
Retained == {"Pending", "Unconfirmed", "Quarantined"}
Outcome == Retained \cup {"Released"}
TearDown(u, now) ==
  IF now = "Released" THEN alive' = [alive EXCEPT ![u] = @ \ Built] /\ UNCHANGED faults
                      ELSE Fault /\ UNCHANGED alive

------------------------------------------------------------------------------
(* plan_generation_prefill clones both references; dropping the plan gives  *)
(* them back.  A foreign preparation, a row of the wrong width and a        *)
(* cancellation before construction change nothing.                         *)
Plan(u, batches) ==
  /\ handle /\ use[u].kind = "none"
  /\ use' = [use EXCEPT ![u] = Stage("plan", "planned")]
  /\ left' = [left EXCEPT ![u] = batches]
  /\ outer' = outer + 1 /\ inner' = inner + 1
  /\ UNCHANGED <<resident, handle, recovered, alive, faults>>

DropPlan(u) ==
  /\ use[u].kind = "plan"
  /\ use' = [use EXCEPT ![u] = NoUse]
  /\ left' = [left EXCEPT ![u] = 0]
  /\ outer' = outer - 1 /\ inner' = inner - 1
  /\ UNCHANGED <<resident, handle, recovered, alive, faults>>

(* generate, as far as ModelSessionResources::new: the stream, then each    *)
(* buffer under a guard, and the whole committed when all are there.        *)
Construct(u) ==
  /\ use[u].kind = "plan"
  /\ use' = [use EXCEPT ![u] = Stage("building", "creating")]
  /\ UNCHANGED <<resident, handle, outer, inner, recovered, alive, left, faults>>

Create(u, h) ==
  /\ use[u].kind = "building" /\ h \notin alive[u]
  /\ (h = "stream") = (alive[u] = {})
  /\ alive' = [alive EXCEPT ![u] = @ \cup {h}]
  /\ use' = IF alive'[u] = Built THEN [use EXCEPT ![u] = Stage("session", "fresh")] ELSE use
  /\ UNCHANGED <<resident, handle, outer, inner, recovered, left, faults>>

(* No handle, or a failure that may have left one.  The guards unwind into  *)
(* the scope; the failure owns it, the stream and the uploads' reference.   *)
CreateFails(u, lost) ==
  /\ use[u].kind = "building"
  /\ Fault
  /\ use' = [use EXCEPT ![u] = [Stage("build", "Failed") EXCEPT !.lost = lost]]
  /\ UNCHANGED <<resident, handle, outer, inner, recovered, alive, left>>

------------------------------------------------------------------------------
(* The driven session: a token batch gives a logits buffer, which is        *)
(* released before the next batch and before anything is published.         *)
Boundary == {"fresh", "idle"}

Ended(u, source, lost) ==
  use' = [use EXCEPT ![u] = [kind |-> "ended", at |-> "driven", source |-> source, lost |-> lost]]

Prefill(u) ==
  /\ use[u].at \in Boundary /\ left[u] > 0
  /\ alive' = [alive EXCEPT ![u] = @ \cup {"logits"}]
  /\ use' = [use EXCEPT ![u].at = "output"]
  /\ left' = [left EXCEPT ![u] = @ - 1]
  /\ UNCHANGED <<resident, handle, outer, inner, recovered, faults>>

PrefillFails(u, lost) ==
  /\ use[u].at \in Boundary /\ left[u] > 0
  /\ Fault
  /\ Ended(u, "Native", lost)
  /\ UNCHANGED <<resident, handle, outer, inner, recovered, alive, left>>

(* release_intermediate, copy_and_release_final *)
AfterOutput(u, how) == Ended(u, how, FALSE)

ReleaseOutput(u) ==
  /\ use[u].at = "output"
  /\ alive' = [alive EXCEPT ![u] = @ \ {"logits"}]
  /\ \/ use' = [use EXCEPT ![u].at = "idle"] /\ UNCHANGED faults
     \/ Fault /\ Ended(u, "Copy", FALSE)
  /\ UNCHANGED <<resident, handle, outer, inner, recovered, left>>

OutputStays(u, how) ==
  /\ use[u].at = "output"
  /\ Fault
  /\ AfterOutput(u, how)
  /\ UNCHANGED <<resident, handle, outer, inner, recovered, alive, left>>

(* Generation is over, was cancelled at a boundary or failed on the host. *)
Stop(u, source) ==
  /\ use[u].at \in Boundary
  /\ source = "None" => use[u].at = "idle"
  /\ Ended(u, source, FALSE)
  /\ UNCHANGED <<resident, handle, outer, inner, recovered, alive, left, faults>>

------------------------------------------------------------------------------
(* Session close: from_session, resolve_session_teardown,                   *)
(* retain_before_publish.  A clean release consumes the duplicate model,    *)
(* and the resident with it when the generation is published.               *)
Clean(u, now) == now = "Released" /\ ~use[u].lost

(* Mutant: a generation is published whatever became of its session. *)
PublishesAnyway(u, now) == use[u].source = "None" /\ use[u].kind = "ended"
Publishes(u, now) == use[u].source = "None" /\ use[u].kind = "ended" /\ Clean(u, now)
(* Mutant: the duplicate model is kept. *)
KeepsDuplicate(u, now) == inner
AfterClose(u, now) == IF Clean(u, now) THEN inner - 1 ELSE inner

Resolved(u, now) ==
  /\ inner' = AfterClose(u, now)
  /\ IF Publishes(u, now)
     THEN use' = [use EXCEPT ![u] = Stage("published", "done")] /\ outer' = outer - 1
     ELSE /\ use' = [use EXCEPT ![u].kind = "close",
                                ![u].at = IF Clean(u, now) THEN "Acknowledged" ELSE now]
          /\ UNCHANGED outer

CloseSession(u, now) ==
  /\ use[u].kind = "ended"
  /\ TearDown(u, now) /\ Resolved(u, now)
  /\ UNCHANGED <<resident, handle, recovered, left>>

Reconcile(u, now) ==
  /\ use[u].kind = "close" /\ use[u].at = "Unconfirmed"
  /\ TearDown(u, now) /\ Resolved(u, now)
  /\ UNCHANGED <<resident, handle, recovered, left>>

(* retry goes on with the logits buffer and the session, each if pending:   *)
(* o and now are what becomes of them.                                      *)
Retry(u, o, now) ==
  LET logits == use[u].source = "Pending"
      session == use[u].at = "Pending"
      gone == (IF logits /\ o = "Released" THEN {"logits"} ELSE {})
                \cup (IF session /\ now = "Released" THEN Built ELSE {})
      failed == (IF logits /\ o # "Released" THEN 1 ELSE 0)
                  + (IF session /\ now # "Released" THEN 1 ELSE 0)
      source == IF logits THEN o ELSE use[u].source
      clean == session /\ Clean(u, now)
  IN /\ use[u].kind = "close" /\ (logits \/ session)
     /\ logits \/ o = "Released"
     /\ session \/ now = "Released"
     /\ faults + failed <= MaxFaults /\ faults' = faults + failed
     /\ alive' = [alive EXCEPT ![u] = @ \ gone]
     /\ inner' = IF session THEN AfterClose(u, now) ELSE inner
     /\ use' = [use EXCEPT ![u].source = source,
                           ![u].at = IF clean THEN "Acknowledged" ELSE IF session THEN now ELSE @]
     /\ UNCHANGED <<resident, handle, outer, recovered, left>>

------------------------------------------------------------------------------
(* The release of a failed build: NativeBuildRelease. *)
InBuild(u, stages) == use[u].kind = "build" /\ use[u].at \in stages

(* Only the construction of the stream leaves nothing to tear down. *)
BeginBuildRelease(u, now) ==
  /\ InBuild(u, {"Failed"})
  /\ \/ /\ alive[u] = {} /\ now = "NoResources" /\ UNCHANGED <<alive, faults>>
     \/ alive[u] # {} /\ now # "NoResources" /\ TearDown(u, now)
  /\ use' = [use EXCEPT ![u].at = now]
  /\ UNCHANGED <<resident, handle, outer, inner, recovered, left>>

ContinueBuildRelease(u, now) ==
  /\ InBuild(u, {"Pending", "Unconfirmed"})
  /\ TearDown(u, now)
  /\ use' = [use EXCEPT ![u].at = now]
  /\ UNCHANGED <<resident, handle, outer, inner, recovered, left>>

(* into_released_model: the reference goes to the caller, the source stays. *)
ModelStages == {"NoResources", "Released"}

RecoverModel(u) ==
  /\ InBuild(u, ModelStages)
  /\ use' = [use EXCEPT ![u].at = "Residual"]
  /\ recovered' = recovered + 1
  /\ UNCHANGED <<resident, handle, outer, inner, alive, left, faults>>

(* into_released_source: not past a lost handle, nor past the resident. *)
MayLeave(u) == ~use[u].lost

RecoverSource(u) ==
  /\ MayLeave(u)
  /\ \/ InBuild(u, {"Released"}) /\ use' = [use EXCEPT ![u].at = "NoResources"]
     \/ InBuild(u, {"Residual"}) /\ use' = [use EXCEPT ![u].at = "Recovered"]
  /\ UNCHANGED <<resident, handle, outer, inner, recovered, alive, left, faults>>

------------------------------------------------------------------------------
(* Nothing native happens when a custody is dropped: ResidentRetention      *)
(* keeps the reference that was in it.                                      *)
AfterCustodyDrop(strong) == AfterOuterDrop(strong)

HoldsUploads(u) ==
  \/ use[u].kind = "build" /\ use[u].at \notin {"Residual", "Recovered"}
  \/ use[u].kind = "close" /\ use[u].at # "Acknowledged"

DropCustody(u) ==
  /\ use[u].kind \in {"build", "close"}
  /\ use' = [use EXCEPT ![u].kind = "dropped",
                        ![u].at = IF HoldsUploads(u) THEN "kept" ELSE @]
  /\ outer' = outer - 1
  /\ inner' = IF HoldsUploads(u) THEN AfterCustodyDrop(outer - 1) ELSE AfterOuterDrop(outer - 1)
  /\ UNCHANGED <<resident, handle, recovered, alive, left, faults>>

DropRecovered ==
  /\ recovered > 0
  /\ recovered' = recovered - 1 /\ inner' = inner - 1
  /\ UNCHANGED <<resident, handle, outer, use, alive, left, faults>>

DropResident ==
  /\ handle
  /\ handle' = FALSE
  /\ DropOuter
  /\ UNCHANGED <<resident, recovered, use, alive, left, faults>>

------------------------------------------------------------------------------
(* close: the caller's reference must be the last of both, and what is made *)
(* of the uploads then needs a stream of its own to be quiet on.            *)
(* Mutant: only the resident of this crate is asked. *)
LastResident == outer = 1
LastReference == outer = 1 /\ inner = 1

ResidentOutcome == Outcome \cup {"Unadmitted"}
TearDownResident(now) ==
  /\ resident' = now
  /\ IF now = "Released" THEN UNCHANGED faults ELSE Fault
  /\ UNCHANGED <<recovered, use, alive, left>>

CloseResident(now) ==
  /\ handle /\ LastReference
  /\ handle' = FALSE /\ outer' = 0 /\ inner' = 0
  /\ TearDownResident(now)

ContinueResident(now) ==
  /\ resident \in {"Pending", "Unconfirmed"}
  /\ TearDownResident(now)
  /\ UNCHANGED <<handle, outer, inner>>

------------------------------------------------------------------------------
Drive(u) ==
  \/ Prefill(u) \/ ReleaseOutput(u)
  \/ \E lost \in BOOLEAN : PrefillFails(u, lost)
  \/ \E how \in {"Pending", "Quarantined"} : OutputStays(u, how)
  \/ \E source \in {"None", "Pipeline"} : Stop(u, source)

BuildSession(u) ==
  \/ Construct(u)
  \/ \E h \in Built : Create(u, h)
  \/ \E lost \in BOOLEAN : CreateFails(u, lost)

Settle(u) ==
  \/ \E now \in Outcome : CloseSession(u, now) \/ Reconcile(u, now)
  \/ \E o \in {"Pending", "Quarantined", "Released"}, now \in Outcome : Retry(u, o, now)
  \/ \E now \in Outcome \cup {"NoResources"} : BeginBuildRelease(u, now)
  \/ \E now \in Outcome : ContinueBuildRelease(u, now)
  \/ RecoverModel(u) \/ RecoverSource(u)

Next ==
  \/ \E u \in Use : \E n \in 1..MaxBatches : Plan(u, n)
  \/ \E u \in Use : DropPlan(u) \/ BuildSession(u) \/ Drive(u) \/ Settle(u) \/ DropCustody(u)
  \/ DropRecovered \/ DropResident
  \/ \E now \in ResidentOutcome : CloseResident(now)
  \/ \E now \in Outcome : ContinueResident(now)

Spec == Init /\ [][Next]_vars

------------------------------------------------------------------------------
(* The uploads leave only through close, not because references that are    *)
(* dropped add up to the last one, and not while a stream that may read     *)
(* them exists, even one whose custody was dropped or whose destruction is  *)
(* uncertain (ExplicitReleaseOwner, ResidentRetention,                      *)
(* NativeTextResident::close).                                              *)
UploadsOutliveStreams ==
  /\ resident = "Open" => inner > 0
  /\ resident # "Open" => \A u \in Use : "stream" \notin alive[u]

(* A generation is published, and a failure handed back without custody,    *)
(* only when the runtime has let go of everything created on the way        *)
(* (retain_before_publish, into_released_source, into_released_model).      *)
NothingLeftBehind ==
  \A u \in Use :
    /\ use[u].kind = "published" \/ use[u].at = "Residual" => alive[u] = {}
    /\ use[u].kind = "published" \/ use[u].at = "Recovered" => ~use[u].lost

(* When every use has come to its end and its references were given back,   *)
(* the resident can be closed: the caller holds the last of both.           *)
IsSettled(u) == use[u].kind \in {"none", "published"} \/ (use[u].kind = "dropped" /\ use[u].at # "kept")
SettledCanClose ==
  handle /\ recovered = 0 /\ (\A u \in Use : IsSettled(u)) => LastReference
==============================================================================
