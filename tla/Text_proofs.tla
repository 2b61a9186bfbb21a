---------------------------- MODULE Text_proofs ----------------------------
(***************************************************************************)
(* Theorems about the two ways text is generated: NativeText, for every    *)
(* finite set of uses, every buffer list and every number of batches and   *)
(* failures; then TextGeneration, for every tokenizer, decoder program and *)
(* limit.  The two share no state.                                         *)
(***************************************************************************)
EXTENDS NativeText, TextGeneration, FiniteSetTheorems, WellFoundedInduction, TLAPS

Kind == {"none", "plan", "building", "session", "ended", "build", "close", "published", "dropped"}
At == {"Pending", "Unconfirmed", "Quarantined", "Released",
       "none", "planned", "creating", "fresh", "idle", "output", "driven", "Failed",
       "NoResources", "Residual", "Recovered", "Acknowledged", "kept", "done"}
Source == {"None", "Native", "Copy", "Pipeline", "Pending", "Quarantined", "Released"}
UseRecord == [kind : Kind, at : At, source : Source, lost : BOOLEAN]

(* Where a use holds the resident of its crate, and where the uploads. *)
Active == {"plan", "building", "session", "ended"}
OuterAt(k) == k \in Active \cup {"build", "close"}
InnerAt(k, t) ==
  \/ k \in Active
  \/ k = "build" /\ t \notin {"Residual", "Recovered"}
  \/ k = "close" /\ t # "Acknowledged"
  \/ k = "dropped" /\ t = "kept"

OuterHold(r) == OuterAt(r.kind)
InnerHold(r) == InnerAt(r.kind, r.at)

OuterHolders == {u \in Use : OuterHold(use[u])}
InnerHolders == {u \in Use : InnerHold(use[u])}

(* What a use may still have at the runtime, by where it is. *)
SoundAt(k, t, s, l, a) ==
  /\ a \subseteq Built \cup {"logits"}
  /\ k \in {"none", "plan", "published"} => a = {} /\ ~l
  /\ k \in {"building", "build"} => "logits" \notin a
  /\ k \in {"none", "plan", "building", "session"} => ~l
  /\ t \in {"fresh", "idle", "output"} <=> k = "session"
  /\ t \in {"fresh", "idle"} => "logits" \notin a
  /\ k = "ended" /\ s = "None" => "logits" \notin a
  /\ k \notin {"build", "close", "dropped"} => t \notin {"Residual", "Recovered", "kept"}
  /\ k = "close" => t \notin {"Residual", "Recovered"}
  /\ k = "build" => t # "kept"
  /\ k = "build" /\ t \in {"NoResources", "Released"} => a = {}
  /\ t \in {"Residual", "Recovered"} => a = {}
  /\ t = "Recovered" => ~l
  /\ k = "close" /\ t = "Acknowledged" => "stream" \notin a
  /\ k = "dropped" /\ t # "kept" => "stream" \notin a

SoundUse(r, a) == r \in UseRecord /\ SoundAt(r.kind, r.at, r.source, r.lost, a)

One(b) == IF b THEN 1 ELSE 0

IInv ==
  /\ handle \in BOOLEAN /\ outer \in Int /\ inner \in Int /\ recovered \in Nat
  /\ use \in [Use -> UseRecord] /\ alive \in [Use -> SUBSET (Built \cup {"logits"})]
  /\ \A u \in Use : SoundUse(use[u], alive[u])
  /\ outer = One(handle) + Cardinality(OuterHolders)
  /\ inner = One(resident = "Open") + Cardinality(InnerHolders) + recovered
  /\ resident # "Open" => ~handle /\ InnerHolders = {}

------------------------------------------------------------------------------
(* A step of one use u to stage k, t: its references come and go with it. *)
Touches(u, k, t, s, l, a) ==
  /\ use' \in [Use -> UseRecord] /\ alive' \in [Use -> SUBSET (Built \cup {"logits"})]
  /\ use'[u].kind = k /\ use'[u].at = t /\ use'[u].source = s /\ use'[u].lost = l
  /\ alive'[u] = a
  /\ \A v \in Use \ {u} : use'[v] = use[v] /\ alive'[v] = alive[v]

Counts(u, k, t) ==
  /\ resident' = resident /\ handle' = handle
  /\ recovered' \in Nat /\ outer' \in Int /\ inner' \in Int
  /\ InnerAt(k, t) => InnerHold(use[u]) \/ handle
  /\ outer' = outer + One(OuterAt(k)) - One(OuterHold(use[u]))
  /\ inner' - recovered' = inner - recovered + One(InnerAt(k, t)) - One(InnerHold(use[u]))

LEMMA OneMore ==
  ASSUME NEW S, IsFiniteSet(S), NEW u, NEW T, NEW p \in BOOLEAN,
         T = IF p THEN S \cup {u} ELSE S \ {u}
  PROVE  Cardinality(T) = Cardinality(S) + One(p) - One(u \in S)
<1>1. Cardinality(S) \in Nat
  BY FS_CardinalityType
<1>2. Cardinality(S \cup {u}) = IF u \in S THEN Cardinality(S) ELSE Cardinality(S) + 1
  BY FS_AddElement
<1>3. Cardinality(S \ {u}) = IF u \in S THEN Cardinality(S) - 1 ELSE Cardinality(S)
  BY FS_RemoveElement
<1> QED
  BY <1>1, <1>2, <1>3 DEF One

LEMMA HoldersFinite ==
  /\ IsFiniteSet(OuterHolders) /\ Cardinality(OuterHolders) \in Nat
  /\ IsFiniteSet(InnerHolders) /\ Cardinality(InnerHolders) \in Nat
<1>1. OuterHolders \subseteq Use /\ InnerHolders \subseteq Use
  BY DEF OuterHolders, InnerHolders
<1>2. IsFiniteSet(OuterHolders) /\ IsFiniteSet(InnerHolders)
  BY <1>1, FS_Subset, UseAssumption
<1> QED
  BY <1>2, FS_CardinalityType

LEMMA LocalIInv ==
  ASSUME IInv, NEW u \in Use, NEW k, NEW t, NEW s, NEW l, NEW a,
         Touches(u, k, t, s, l, a), SoundAt(k, t, s, l, a), Counts(u, k, t)
  PROVE  IInv'
<1>1. /\ use' \in [Use -> UseRecord] /\ alive' \in [Use -> SUBSET (Built \cup {"logits"})]
      /\ \A v \in Use \ {u} : use'[v] = use[v] /\ alive'[v] = alive[v]
      /\ use'[u] \in UseRecord
      /\ OuterHold(use'[u]) <=> OuterAt(k)
      /\ InnerHold(use'[u]) <=> InnerAt(k, t)
      /\ SoundUse(use'[u], alive'[u])
  BY DEF Touches, OuterHold, InnerHold, SoundUse
<1>2. /\ InnerHold(use'[u]) => InnerHold(use[u]) \/ handle
      /\ outer' = outer + One(OuterHold(use'[u])) - One(OuterHold(use[u]))
      /\ inner' - recovered' = inner - recovered + One(InnerHold(use'[u])) - One(InnerHold(use[u]))
  BY <1>1 DEF Counts, One
<1>3. \A v \in Use : SoundUse(use'[v], alive'[v])
  BY <1>1 DEF IInv
<1>4. OuterHolders' = IF OuterHold(use'[u]) THEN OuterHolders \cup {u} ELSE OuterHolders \ {u}
  BY <1>1 DEF OuterHolders
<1>5. InnerHolders' = IF InnerHold(use'[u]) THEN InnerHolders \cup {u} ELSE InnerHolders \ {u}
  BY <1>1 DEF InnerHolders
<1>6. OuterHold(use'[u]) \in BOOLEAN /\ InnerHold(use'[u]) \in BOOLEAN
  BY DEF OuterHold, InnerHold, OuterAt, InnerAt
<1>7. Cardinality(OuterHolders') = Cardinality(OuterHolders) + One(OuterHold(use'[u])) - One(OuterHold(use[u]))
  <2>1. (u \in OuterHolders) = OuterHold(use[u])
    BY DEF OuterHolders, OuterHold, OuterAt
  <2> QED
    BY <1>4, <1>6, <2>1, OneMore, HoldersFinite
<1>8. Cardinality(InnerHolders') = Cardinality(InnerHolders) + One(InnerHold(use'[u])) - One(InnerHold(use[u]))
  <2>1. (u \in InnerHolders) = InnerHold(use[u])
    <3>1. InnerHold(use[u]) \in BOOLEAN
      BY DEF InnerHold, InnerAt
    <3>2. u \in InnerHolders <=> InnerHold(use[u])
      BY DEF InnerHolders
    <3> QED
      BY <3>1, <3>2
  <2> QED
    BY <1>5, <1>6, <2>1, OneMore, HoldersFinite
<1>9. \A b : One(b) \in Int
  BY DEF One
<1>10. outer' = One(handle') + Cardinality(OuterHolders')
  BY <1>7, <1>9, <1>2, HoldersFinite DEF IInv, Counts
<1>11. inner' = One(resident' = "Open") + Cardinality(InnerHolders') + recovered'
  BY <1>8, <1>9, <1>2, HoldersFinite DEF IInv, Counts
<1>12. resident' # "Open" => ~handle' /\ InnerHolders' = {}
  <2>1. ASSUME resident # "Open" PROVE ~InnerHold(use'[u]) /\ InnerHolders = {}
    BY <1>2, <2>1 DEF IInv, InnerHolders
  <2> QED
    BY <1>5, <2>1 DEF IInv, Counts
<1> QED
  BY <1>1, <1>3, <1>10, <1>11, <1>12 DEF IInv, Counts

------------------------------------------------------------------------------
(* What is known before a step. *)
LEMMA Before ==
  ASSUME IInv
  PROVE  /\ DOMAIN use = Use /\ DOMAIN alive = Use
         /\ outer \in Int /\ inner \in Int /\ recovered \in Nat /\ handle \in BOOLEAN
BY DEF IInv

LEMMA Typed ==
  ASSUME IInv
  PROVE  use \in [Use -> UseRecord] /\ alive \in [Use -> SUBSET (Built \cup {"logits"})]
BY DEF IInv

LEMMA UseBefore ==
  ASSUME IInv, NEW u \in Use
  PROVE  /\ SoundAt(use[u].kind, use[u].at, use[u].source, use[u].lost, alive[u])
         /\ use[u].kind \in Kind /\ use[u].at \in At
         /\ use[u].source \in Source /\ use[u].lost \in BOOLEAN
<1>1. SoundUse(use[u], alive[u]) /\ use[u] \in UseRecord
  BY DEF IInv, SoundUse
<1> QED
  BY <1>1 DEF SoundUse, UseRecord

LEMMA PlanIInv ==
  ASSUME IInv, NEW u \in Use, (\E n \in 1..MaxBatches : Plan(u, n)) \/ DropPlan(u)
  PROVE  IInv'
<1>1. CASE \E n \in 1..MaxBatches : Plan(u, n)
  <2>1. /\ use[u].kind = "none" /\ handle
        /\ use' = [use EXCEPT ![u] = [kind |-> "plan", at |-> "planned", source |-> "None", lost |-> FALSE]]
        /\ outer' = outer + 1 /\ inner' = inner + 1
        /\ UNCHANGED <<resident, handle, recovered, alive>>
    BY <1>1 DEF Plan, Stage, NoUse
  <2>2. Touches(u, "plan", "planned", "None", FALSE, alive[u])
    BY <2>1, Typed DEF Touches, UseRecord, Kind, At, Source
  <2>3. SoundAt("plan", "planned", "None", FALSE, alive[u])
    BY <2>1, UseBefore DEF SoundAt
  <2>4. One(OuterHold(use[u])) = 0 /\ One(InnerHold(use[u])) = 0
        /\ One(OuterAt("plan")) = 1 /\ One(InnerAt("plan", "planned")) = 1
    BY <2>1 DEF One, OuterHold, InnerHold, OuterAt, InnerAt, Active
  <2>5. Counts(u, "plan", "planned")
    BY <2>1, <2>4, Before DEF Counts
  <2> QED
    BY <2>2, <2>3, <2>5, LocalIInv
<1>2. CASE DropPlan(u)
  <2>1. /\ use[u].kind = "plan"
        /\ use' = [use EXCEPT ![u] = [kind |-> "none", at |-> "none", source |-> "None", lost |-> FALSE]]
        /\ outer' = outer - 1 /\ inner' = inner - 1
        /\ UNCHANGED <<resident, handle, recovered, alive>>
    BY <1>2 DEF DropPlan, NoUse
  <2>2. Touches(u, "none", "none", "None", FALSE, alive[u])
    BY <2>1, Typed DEF Touches, UseRecord, Kind, At, Source
  <2>3. SoundAt("none", "none", "None", FALSE, alive[u])
    BY <2>1, UseBefore DEF SoundAt
  <2>4. One(OuterHold(use[u])) = 1 /\ One(InnerHold(use[u])) = 1
        /\ One(OuterAt("none")) = 0 /\ One(InnerAt("none", "none")) = 0
        /\ ~InnerAt("none", "none")
    BY <2>1 DEF One, OuterHold, InnerHold, OuterAt, InnerAt, Active
  <2>5. Counts(u, "none", "none")
    BY <2>1, <2>4, Before DEF Counts
  <2> QED
    BY <2>2, <2>3, <2>5, LocalIInv
<1> QED
  BY <1>1, <1>2

SameHolds(u, k, t) == (OuterAt(k) <=> OuterHold(use[u])) /\ (InnerAt(k, t) <=> InnerHold(use[u]))

(* The construction and the driven session keep both references. *)
LEMMA KeepsIInv ==
  ASSUME IInv, NEW u \in Use, NEW k, NEW t, NEW s, NEW l, NEW a,
         Touches(u, k, t, s, l, a), SoundAt(k, t, s, l, a),
         UNCHANGED <<resident, handle, outer, inner, recovered>>, SameHolds(u, k, t)
  PROVE  IInv'
<1>1. One(OuterAt(k)) = One(OuterHold(use[u])) /\ One(InnerAt(k, t)) = One(InnerHold(use[u]))
      /\ One(OuterAt(k)) \in Int /\ One(InnerAt(k, t)) \in Int
  BY DEF One, SameHolds
<1>2. Counts(u, k, t)
  BY <1>1, Before DEF Counts, SameHolds
<1> QED
  BY <1>2, LocalIInv

LEMMA BuildIInv ==
  ASSUME IInv, NEW u \in Use, BuildSession(u)
  PROVE  IInv'
<1>1. CASE Construct(u)
  <2>1. use[u].kind = "plan" /\ UNCHANGED <<resident, handle, outer, inner, recovered>>
    BY <1>1 DEF Construct
  <2>2. Touches(u, "building", "creating", "None", FALSE, alive[u])
    BY <1>1, Typed DEF Touches, UseRecord, Kind, At, Source, Construct, Stage, NoUse
  <2>3. SoundAt("building", "creating", "None", FALSE, alive[u])
    BY <2>1, UseBefore DEF SoundAt
  <2>9. SameHolds(u, "building", "creating")
    BY <2>1, <2>2, <2>3 DEF SameHolds, OuterHold, InnerHold, OuterAt, InnerAt, Active
  <2> QED
    BY <2>1, <2>2, <2>3, <2>9, KeepsIInv
<1>2. ASSUME NEW h \in Built, Create(u, h) PROVE IInv'
  <2>1. /\ use[u].kind = "building" /\ UNCHANGED <<resident, handle, outer, inner, recovered>>
        /\ alive' = [alive EXCEPT ![u] = @ \cup {h}]
    BY <1>2 DEF Create
  <2>2. SoundAt("building", use[u].at, use[u].source, use[u].lost, alive[u] \cup {h})
    BY <2>1, UseBefore, BufferAssumption DEF SoundAt, Built
  <2>3. CASE alive'[u] = Built
    <3>1. Touches(u, "session", "fresh", "None", FALSE, alive[u] \cup {h})
      BY <1>2, <2>1, <2>3, Typed DEF Touches, UseRecord, Kind, At, Source, Create, Stage, NoUse
    <3>2. SoundAt("session", "fresh", "None", FALSE, alive[u] \cup {h})
      BY <2>2 DEF SoundAt
    <3>9. SameHolds(u, "session", "fresh")
      BY <2>1, <3>1, <3>2 DEF SameHolds, OuterHold, InnerHold, OuterAt, InnerAt, Active
    <3> QED
      BY <2>1, <3>1, <3>2, <3>9, KeepsIInv
  <2>4. CASE alive'[u] # Built
    <3>1. Touches(u, "building", use[u].at, use[u].source, use[u].lost, alive[u] \cup {h})
      BY <1>2, <2>1, <2>4, Typed DEF Touches, Create
    <3>9. SameHolds(u, "building", use[u].at)
      BY <2>1, <2>2, <3>1 DEF SameHolds, OuterHold, InnerHold, OuterAt, InnerAt, Active
    <3> QED
      BY <2>1, <2>2, <3>1, <3>9, KeepsIInv
  <2> QED
    BY <2>3, <2>4
<1>3. ASSUME NEW lost \in BOOLEAN, CreateFails(u, lost) PROVE IInv'
  <2>1. use[u].kind = "building" /\ UNCHANGED <<resident, handle, outer, inner, recovered>>
    BY <1>3 DEF CreateFails
  <2>2. Touches(u, "build", "Failed", "None", lost, alive[u])
    BY <1>3, Typed DEF Touches, UseRecord, Kind, At, Source, CreateFails, Stage, NoUse
  <2>3. SoundAt("build", "Failed", "None", lost, alive[u])
    BY <2>1, UseBefore DEF SoundAt
  <2>9. SameHolds(u, "build", "Failed")
    BY <2>1, <2>2, <2>3 DEF SameHolds, OuterHold, InnerHold, OuterAt, InnerAt, Active
  <2> QED
    BY <2>1, <2>2, <2>3, <2>9, KeepsIInv
<1> QED
  BY <1>1, <1>2, <1>3 DEF BuildSession

LEMMA DriveIInv ==
  ASSUME IInv, NEW u \in Use, Drive(u)
  PROVE  IInv'
<1>1. /\ use[u].kind = "session" /\ ~use[u].lost
      /\ use[u].at \in Boundary => "logits" \notin alive[u]
      /\ UNCHANGED <<resident, handle, outer, inner, recovered>>
  BY UseBefore
  DEF Drive, Prefill, ReleaseOutput, PrefillFails, OutputStays, AfterOutput, Stop, Boundary, SoundAt
<1>2. ASSUME NEW s \in Source, NEW lost \in BOOLEAN, NEW a \in SUBSET alive[u],
             Touches(u, "ended", "driven", s, lost, a),
             s = "None" => "logits" \notin a
      PROVE  IInv'
  <2>2. SoundAt("ended", "driven", s, lost, a)
    BY <1>2, UseBefore DEF SoundAt
  <2>9. SameHolds(u, "ended", "driven")
    BY <1>1, <1>2, <2>2 DEF SameHolds, OuterHold, InnerHold, OuterAt, InnerAt, Active
  <2> QED
    BY <1>1, <1>2, <2>2, <2>9, KeepsIInv
<1>3. ASSUME NEW t \in {"output", "idle"}, NEW a, a = alive[u] \cup {"logits"} \/ a = alive[u] \ {"logits"},
             t = "idle" => "logits" \notin a,
             Touches(u, "session", t, use[u].source, use[u].lost, a)
      PROVE  IInv'
  <2>2. SoundAt("session", t, use[u].source, use[u].lost, a)
    BY <1>1, <1>3, UseBefore DEF SoundAt
  <2>9. SameHolds(u, "session", t)
    BY <1>1, <1>3, <2>2 DEF SameHolds, OuterHold, InnerHold, OuterAt, InnerAt, Active
  <2> QED
    BY <1>1, <1>3, <2>2, <2>9, KeepsIInv
<1>5. CASE Prefill(u)
  <2>1. Touches(u, "session", "output", use[u].source, use[u].lost, alive[u] \cup {"logits"})
    BY <1>1, <1>5, Typed DEF Prefill, Touches, UseRecord, Kind, At, Source
  <2> QED
    BY <1>3, <2>1
<1>6. ASSUME NEW lost \in BOOLEAN, PrefillFails(u, lost) PROVE IInv'
  <2>1. Touches(u, "ended", "driven", "Native", lost, alive[u])
    BY <1>6, Typed DEF PrefillFails, Ended, Touches, UseRecord, Kind, At, Source
  <2> QED
    BY <1>2, <2>1 DEF Source
<1>7. CASE ReleaseOutput(u)
  <2>1. CASE use' = [use EXCEPT ![u].at = "idle"]
    <3>1. Touches(u, "session", "idle", use[u].source, use[u].lost, alive[u] \ {"logits"})
      BY <1>1, <1>7, <2>1, Typed DEF ReleaseOutput, Touches, UseRecord, Kind, At, Source
    <3> QED
      BY <1>3, <3>1
  <2>2. CASE Ended(u, "Copy", FALSE)
    <3>1. Touches(u, "ended", "driven", "Copy", FALSE, alive[u] \ {"logits"})
      BY <1>7, <2>2, Typed DEF ReleaseOutput, Ended, Touches, UseRecord, Kind, At, Source
    <3> QED
      BY <1>2, <3>1 DEF Source
  <2> QED
    BY <1>7, <2>1, <2>2 DEF ReleaseOutput
<1>8. ASSUME NEW how \in {"Pending", "Quarantined"}, OutputStays(u, how) PROVE IInv'
  <2>1. Touches(u, "ended", "driven", how, FALSE, alive[u])
    BY <1>8, Typed DEF OutputStays, AfterOutput, Ended, Touches, UseRecord, Kind, At, Source
  <2> QED
    BY <1>2, <2>1 DEF Source
<1>9. ASSUME NEW s \in {"None", "Pipeline"}, Stop(u, s) PROVE IInv'
  <2>1. Touches(u, "ended", "driven", s, FALSE, alive[u])
    BY <1>9, Typed DEF Stop, Ended, Touches, UseRecord, Kind, At, Source
  <2>2. "logits" \notin alive[u]
    BY <1>1, <1>9 DEF Stop
  <2> QED
    BY <1>2, <2>1, <2>2 DEF Source
<1> QED
  BY <1>5, <1>6, <1>7, <1>8, <1>9 DEF Drive
------------------------------------------------------------------------------
(* The teardown of an ended session, at once or after it was uncertain. *)
LEMMA ResolvedIInv ==
  ASSUME IInv, NEW u \in Use, NEW now \in Outcome,
         use[u].kind = "ended" \/ (use[u].kind = "close" /\ use[u].at = "Unconfirmed"),
         TearDown(u, now), Resolved(u, now), UNCHANGED <<resident, handle, recovered>>
  PROVE  IInv'
<1> DEFINE a == IF now = "Released" THEN alive[u] \ Built ELSE alive[u]
<1>1. alive' = [alive EXCEPT ![u] = a]
  BY Typed DEF TearDown
<1>2. One(OuterHold(use[u])) = 1 /\ One(InnerHold(use[u])) = 1 /\ InnerHold(use[u])
  BY DEF One, OuterHold, InnerHold, OuterAt, InnerAt, Active
<1>3. \A b : One(b) \in Int
  BY DEF One
<1>4. CASE Publishes(u, now)
  <2>1. now = "Released" /\ use[u].kind = "ended" /\ use[u].source = "None" /\ Clean(u, now)
    BY <1>4 DEF Publishes, Clean
  <2>9. /\ use' = [use EXCEPT ![u] = [kind |-> "published", at |-> "done", source |-> "None", lost |-> FALSE]]
        /\ outer' = outer - 1 /\ inner' = inner - 1
    BY <1>4, <2>1 DEF Resolved, AfterClose, Stage, NoUse
  <2>2. Touches(u, "published", "done", "None", FALSE, a)
    BY <1>1, <2>9, Typed DEF Touches, UseRecord, Kind, At, Source
  <2>3. SoundAt("published", "done", "None", FALSE, a)
    BY <2>1, UseBefore DEF SoundAt
  <2>4. One(OuterAt("published")) = 0 /\ One(InnerAt("published", "done")) = 0
        /\ ~InnerAt("published", "done")
    BY DEF One, OuterAt, InnerAt, Active
  <2>5. Counts(u, "published", "done")
    <3>1. outer' = outer + One(OuterAt("published")) - One(OuterHold(use[u])) /\ outer' \in Int
      BY <1>2, <2>9, <2>4, Before
    <3>2. inner' - recovered' = inner - recovered + One(InnerAt("published", "done")) - One(InnerHold(use[u]))
      <4>1. inner' - recovered' = inner - recovered + 0 - 1
        BY <2>9, Before
      <4> QED
        BY <1>2, <2>4, <4>1
    <3>3. resident' = resident /\ handle' = handle /\ recovered' \in Nat /\ inner' \in Int
      BY <2>9, Before
    <3> QED
      BY <2>4, <3>1, <3>2, <3>3 DEF Counts
  <2> QED
    BY <2>2, <2>3, <2>5, LocalIInv
<1>5. CASE ~Publishes(u, now)
  <2> DEFINE t == IF Clean(u, now) THEN "Acknowledged" ELSE now
  <2>1. /\ use' = [use EXCEPT ![u].kind = "close", ![u].at = t]
        /\ outer' = outer /\ inner' = IF Clean(u, now) THEN inner - 1 ELSE inner
    BY <1>5 DEF Resolved, AfterClose
  <2>2. Touches(u, "close", t, use[u].source, use[u].lost, a)
    BY <1>1, <2>1, Typed DEF Touches, UseRecord, Kind, At, Outcome, Retained
  <2>3. SoundAt("close", t, use[u].source, use[u].lost, a)
    BY UseBefore DEF SoundAt, Clean, Outcome, Retained, Built
  <2>4. One(OuterAt("close")) = 1 /\ One(InnerAt("close", t)) = IF Clean(u, now) THEN 0 ELSE 1
    BY DEF One, OuterAt, InnerAt, Active, Outcome, Retained
  <2>5. Counts(u, "close", t)
    <3>1. outer' = outer + One(OuterAt("close")) - One(OuterHold(use[u])) /\ outer' \in Int
      BY <1>2, <2>1, <2>4, Before
    <3>2. inner' - recovered' = inner - recovered + One(InnerAt("close", t)) - One(InnerHold(use[u]))
      <4>1. inner' - recovered' = inner - recovered + (IF Clean(u, now) THEN 0 ELSE 1) - 1
        BY <2>1, Before
      <4> QED
        BY <1>2, <2>4, <4>1
    <3>3. resident' = resident /\ handle' = handle /\ recovered' \in Nat /\ inner' \in Int
      BY <2>1, Before
    <3> QED
      BY <1>2, <3>1, <3>2, <3>3 DEF Counts
  <2> QED
    BY <2>2, <2>3, <2>5, LocalIInv
<1> QED
  BY <1>4, <1>5

LEMMA RetryIInv ==
  ASSUME IInv, NEW u \in Use, NEW o \in {"Pending", "Quarantined", "Released"}, NEW now \in Outcome,
         Retry(u, o, now)
  PROVE  IInv'
<1> DEFINE logits == use[u].source = "Pending"
           session == use[u].at = "Pending"
           gone == (IF logits /\ o = "Released" THEN {"logits"} ELSE {})
                     \cup (IF session /\ now = "Released" THEN Built ELSE {})
           source == IF logits THEN o ELSE use[u].source
           clean == session /\ Clean(u, now)
           t == IF clean THEN "Acknowledged" ELSE IF session THEN now ELSE use[u].at
<1>1. /\ use[u].kind = "close" /\ alive' = [alive EXCEPT ![u] = @ \ gone]
      /\ use' = [use EXCEPT ![u].source = source, ![u].at = t]
      /\ inner' = (IF clean THEN inner - 1 ELSE inner)
      /\ UNCHANGED <<resident, handle, outer, recovered>>
  BY DEF Retry, AfterClose
<1>2. Touches(u, "close", t, source, use[u].lost, alive[u] \ gone)
  <2>1. t \in At /\ source \in Source
    BY UseBefore DEF At, Source, Outcome, Retained
  <2> HIDE DEF t, source, gone
  <2>2. alive[u] \ gone \in SUBSET (Built \cup {"logits"})
    BY Typed
  <2>3. /\ use' \in [Use -> UseRecord] /\ use'[u].kind = "close" /\ use'[u].at = t
        /\ use'[u].source = source /\ use'[u].lost = use[u].lost
        /\ \A v \in Use \ {u} : use'[v] = use[v]
    BY <1>1, <2>1, Typed DEF UseRecord, Kind
  <2>4. /\ alive' \in [Use -> SUBSET (Built \cup {"logits"})] /\ alive'[u] = alive[u] \ gone
        /\ \A v \in Use \ {u} : alive'[v] = alive[v]
    BY <1>1, <2>2, Typed
  <2> QED
    BY <2>3, <2>4 DEF Touches
<1>3. SoundAt("close", t, source, use[u].lost, alive[u] \ gone)
  BY <1>1, UseBefore DEF SoundAt, Clean, Outcome, Retained, Built
<1>4. /\ One(OuterHold(use[u])) = 1 /\ One(OuterAt("close")) = 1
      /\ One(InnerAt("close", t)) = (IF clean THEN One(InnerHold(use[u])) - 1 ELSE One(InnerHold(use[u])))
      /\ InnerAt("close", t) => InnerHold(use[u])
  BY <1>1 DEF One, OuterHold, InnerHold, OuterAt, InnerAt, Active, Outcome, Retained
<1>5. One(InnerHold(use[u])) \in Int
  BY DEF One
<1>6. Counts(u, "close", t)
  BY <1>1, <1>4, <1>5, Before DEF Counts
<1> QED
  BY <1>2, <1>3, <1>6, LocalIInv

(* The release of a failed build keeps what it holds until a model is taken out. *)
LEMMA BuildReleaseIInv ==
  ASSUME IInv, NEW u \in Use, NEW now \in Outcome \cup {"NoResources"},
         BeginBuildRelease(u, now) \/ (now \in Outcome /\ ContinueBuildRelease(u, now))
  PROVE  IInv'
<1>1. /\ use[u].kind = "build" /\ use[u].at \in {"Failed", "Pending", "Unconfirmed"}
      /\ use' = [use EXCEPT ![u].at = now]
      /\ UNCHANGED <<resident, handle, outer, inner, recovered>>
  BY DEF BeginBuildRelease, ContinueBuildRelease, InBuild
<1>2. PICK a : /\ alive' = [alive EXCEPT ![u] = a] /\ a \subseteq alive[u]
               /\ now = "NoResources" => a = {}
               /\ now = "Released" => a = alive[u] \ Built
  <2>1. CASE alive' = alive /\ now # "Released"
    <3>1. alive' = [alive EXCEPT ![u] = alive[u]]
      BY <2>1, Typed
    <3>2. now = "NoResources" => alive[u] = {}
      BY DEF BeginBuildRelease, ContinueBuildRelease, Outcome, Retained
    <3> QED
      BY <2>1, <3>1, <3>2
  <2>2. CASE alive' = [alive EXCEPT ![u] = @ \ Built] /\ now = "Released"
    BY <2>2
  <2> QED
    BY <2>1, <2>2 DEF BeginBuildRelease, ContinueBuildRelease, TearDown
<1>3. Touches(u, "build", now, use[u].source, use[u].lost, a)
  BY <1>1, <1>2, Typed DEF Touches, UseRecord, At, Outcome, Retained
<1>4. SoundAt("build", now, use[u].source, use[u].lost, a)
  BY <1>1, <1>2, UseBefore DEF SoundAt, Outcome, Retained
<1>5. SameHolds(u, "build", now)
  BY <1>1 DEF SameHolds, OuterHold, InnerHold, OuterAt, InnerAt, Active, Outcome, Retained
<1> QED
  BY <1>1, <1>3, <1>4, <1>5, KeepsIInv

LEMMA RecoverIInv ==
  ASSUME IInv, NEW u \in Use, RecoverModel(u) \/ RecoverSource(u)
  PROVE  IInv'
<1>1. use[u].kind = "build" /\ UNCHANGED <<resident, handle, outer, inner, alive>>
  BY DEF RecoverModel, RecoverSource, InBuild
<1>3. CASE RecoverModel(u)
  <2>1. /\ use[u].at \in ModelStages /\ use' = [use EXCEPT ![u].at = "Residual"]
        /\ recovered' = recovered + 1
    BY <1>3 DEF RecoverModel, InBuild
  <2>2. Touches(u, "build", "Residual", use[u].source, use[u].lost, alive[u])
    BY <2>1, <1>1, Typed DEF Touches, UseRecord, At
  <2>3. SoundAt("build", "Residual", use[u].source, use[u].lost, alive[u])
    BY <1>1, <2>1, UseBefore DEF SoundAt, ModelStages
  <2>4. /\ One(OuterHold(use[u])) = 1 /\ One(InnerHold(use[u])) = 1 /\ InnerHold(use[u])
        /\ One(OuterAt("build")) = 1 /\ One(InnerAt("build", "Residual")) = 0
    BY <1>1, <2>1 DEF One, OuterHold, InnerHold, OuterAt, InnerAt, Active, ModelStages
  <2>5. inner' - recovered' = inner - recovered + 0 - 1 /\ outer' = outer + 1 - 1
    BY <1>1, <2>1, Before
  <2>6. /\ outer' = outer + One(OuterAt("build")) - One(OuterHold(use[u]))
        /\ inner' - recovered' = inner - recovered + One(InnerAt("build", "Residual")) - One(InnerHold(use[u]))
    BY <2>4, <2>5
  <2>7. /\ resident' = resident /\ handle' = handle
        /\ recovered' \in Nat /\ outer' \in Int /\ inner' \in Int
    BY <1>1, <2>1, Before
  <2>8. Counts(u, "build", "Residual")
    BY <2>4, <2>6, <2>7 DEF Counts
  <2> QED
    BY <2>2, <2>3, <2>8, LocalIInv
<1>4. CASE RecoverSource(u)
  <2>1. PICK t : /\ use' = [use EXCEPT ![u].at = t] /\ ~use[u].lost /\ recovered' = recovered
                 /\ \/ use[u].at = "Released" /\ t = "NoResources"
                    \/ use[u].at = "Residual" /\ t = "Recovered"
    BY <1>4 DEF RecoverSource, MayLeave, InBuild
  <2>2. Touches(u, "build", t, use[u].source, use[u].lost, alive[u])
    BY <2>1, <1>1, Typed DEF Touches, UseRecord, At
  <2>3. SoundAt("build", t, use[u].source, use[u].lost, alive[u])
    BY <1>1, <2>1, UseBefore DEF SoundAt
  <2>4. SameHolds(u, "build", t)
    BY <1>1, <2>1 DEF SameHolds, OuterHold, InnerHold, OuterAt, InnerAt, Active
  <2> QED
    BY <1>1, <2>1, <2>2, <2>3, <2>4, KeepsIInv
<1> QED
  BY <1>3, <1>4

LEMMA SettleIInv ==
  ASSUME IInv, NEW u \in Use, Settle(u)
  PROVE  IInv'
<1>1. ASSUME NEW now \in Outcome, CloseSession(u, now) \/ Reconcile(u, now) PROVE IInv'
  BY <1>1, ResolvedIInv DEF CloseSession, Reconcile
<1>2. ASSUME NEW o \in {"Pending", "Quarantined", "Released"}, NEW now \in Outcome, Retry(u, o, now)
      PROVE  IInv'
  BY <1>2, RetryIInv
<1>3. ASSUME NEW now \in Outcome \cup {"NoResources"}, BeginBuildRelease(u, now) PROVE IInv'
  BY <1>3, BuildReleaseIInv
<1>4. ASSUME NEW now \in Outcome, ContinueBuildRelease(u, now) PROVE IInv'
  BY <1>4, BuildReleaseIInv
<1>5. CASE RecoverModel(u) \/ RecoverSource(u)
  BY <1>5, RecoverIInv
<1> QED
  BY <1>1, <1>2, <1>3, <1>4, <1>5 DEF Settle

(* ResidentRetention keeps the reference of a custody that is dropped. *)
LEMMA DropCustodyIInv ==
  ASSUME IInv, NEW u \in Use, DropCustody(u)
  PROVE  IInv'
<1> DEFINE t == IF HoldsUploads(u) THEN "kept" ELSE use[u].at
<1>1. /\ use[u].kind \in {"build", "close"}
      /\ use' = [use EXCEPT ![u].kind = "dropped", ![u].at = t]
      /\ outer' = outer - 1 /\ inner' = inner
      /\ UNCHANGED <<resident, handle, recovered, alive>>
  BY DEF DropCustody, AfterCustodyDrop, AfterOuterDrop
<1>2. Touches(u, "dropped", t, use[u].source, use[u].lost, alive[u])
  BY <1>1, Typed DEF Touches, UseRecord, Kind, At
<1>3. SoundAt("dropped", t, use[u].source, use[u].lost, alive[u])
  BY <1>1, UseBefore DEF SoundAt, HoldsUploads
<1>4. /\ One(OuterHold(use[u])) = 1 /\ One(OuterAt("dropped")) = 0
      /\ InnerHold(use[u]) <=> HoldsUploads(u)
  BY <1>1 DEF One, OuterHold, InnerHold, OuterAt, InnerAt, Active, HoldsUploads
<1>5. InnerAt("dropped", t) <=> HoldsUploads(u)
  BY <1>1, UseBefore DEF InnerAt, Active, HoldsUploads, SoundAt
<1>6. One(InnerAt("dropped", t)) = One(InnerHold(use[u])) /\ One(InnerHold(use[u])) \in Int
  BY <1>4, <1>5 DEF One
<1>7. /\ resident' = resident /\ handle' = handle
      /\ recovered' \in Nat /\ outer' \in Int /\ inner' \in Int
      /\ outer' = outer + 0 - 1
  BY <1>1, Before
<1>8. /\ outer' = outer + One(OuterAt("dropped")) - One(OuterHold(use[u]))
      /\ inner' - recovered' = inner - recovered + One(InnerAt("dropped", t)) - One(InnerHold(use[u]))
  <2>1. inner - recovered + One(InnerHold(use[u])) - One(InnerHold(use[u])) = inner - recovered
    BY <1>6, Before
  <2> QED
    BY <1>1, <1>4, <1>6, <1>7, <2>1
<1>9. Counts(u, "dropped", t)
  BY <1>4, <1>5, <1>7, <1>8 DEF Counts
<1> QED
  BY <1>2, <1>3, <1>9, LocalIInv

------------------------------------------------------------------------------
(* The steps of the caller: what it holds besides the uses. *)
LEMMA CallerIInv ==
  ASSUME IInv, UNCHANGED <<use, alive>>,
         handle' \in BOOLEAN, outer' \in Int, inner' \in Int, recovered' \in Nat,
         outer' - One(handle') = outer - One(handle),
         inner' - recovered' - One(resident' = "Open") = inner - recovered - One(resident = "Open"),
         resident' # "Open" => ~handle' /\ InnerHolders = {}
  PROVE  IInv'
<1>1. OuterHolders' = OuterHolders /\ InnerHolders' = InnerHolders
  BY DEF OuterHolders, InnerHolders
<1>2. \A b : One(b) \in Int
  BY DEF One
<1>3. outer' = One(handle') + Cardinality(OuterHolders')
  BY <1>1, <1>2, HoldersFinite DEF IInv
<1>4. inner' = One(resident' = "Open") + Cardinality(InnerHolders') + recovered'
  BY <1>1, <1>2, HoldersFinite DEF IInv
<1> QED
  BY <1>1, <1>3, <1>4 DEF IInv

LEMMA HandleOpen ==
  ASSUME IInv, handle
  PROVE  resident = "Open"
BY DEF IInv

LEMMA CallerSteps ==
  ASSUME IInv,
         \/ DropRecovered \/ DropResident
         \/ \E now \in ResidentOutcome : CloseResident(now)
         \/ \E now \in Outcome : ContinueResident(now)
  PROVE  IInv'
<1>1. CASE DropRecovered
  <2>1. /\ recovered > 0 /\ recovered' = recovered - 1 /\ inner' = inner - 1
        /\ UNCHANGED <<resident, handle, outer, use, alive>>
    BY <1>1 DEF DropRecovered
  <2>2. /\ outer' \in Int /\ inner' \in Int /\ recovered' \in Nat /\ handle' \in BOOLEAN
        /\ inner' - recovered' = inner - recovered
    BY <2>1, Before
  <2> QED
    BY <2>1, <2>2, CallerIInv DEF IInv
<1>2. CASE DropResident
  <2>1. /\ handle /\ ~handle' /\ handle' \in BOOLEAN /\ outer' = outer - 1 /\ inner' = inner
        /\ UNCHANGED <<resident, recovered, use, alive>>
    BY <1>2 DEF DropResident, DropOuter, AfterOuterDrop
  <2>2. One(handle) = 1 /\ One(handle') = 0
    BY <2>1, Zenon DEF One
  <2>3. outer' - One(handle') = outer - One(handle) /\ outer' \in Int
    <3>1. outer' - 0 = outer - 1 /\ outer' \in Int
      BY <2>1, Before
    <3> QED
      BY <2>2, <3>1
  <2>4. resident = "Open" /\ resident' = "Open"
    BY <2>1, HandleOpen
  <2>5. /\ inner' \in Int /\ recovered' \in Nat
        /\ inner' - recovered' - One(resident' = "Open") = inner - recovered - One(resident = "Open")
    BY <2>1, Before
  <2> QED
    BY <2>1, <2>3, <2>4, <2>5, CallerIInv
<1>3. ASSUME NEW now \in ResidentOutcome, CloseResident(now) PROVE IInv'
  <2>1. /\ handle /\ outer = 1 /\ inner = 1 /\ resident = "Open"
        /\ ~handle' /\ handle' \in BOOLEAN /\ outer' = 0 /\ inner' = 0 /\ resident' # "Open"
        /\ UNCHANGED <<recovered, use, alive>>
    BY <1>3, HandleOpen
    DEF CloseResident, LastReference, TearDownResident, ResidentOutcome, Outcome, Retained
  <2>2. One(handle) = 1 /\ One(handle') = 0 /\ One(resident = "Open") = 1 /\ One(resident' = "Open") = 0
    BY <2>1 DEF One
  <2>3. Cardinality(InnerHolders) = 0
    BY <2>1, <2>2, HoldersFinite DEF IInv
  <2>4. InnerHolders = {}
    BY <2>3, HoldersFinite, FS_EmptySet
  <2>5. 0 - recovered - 0 = 1 - recovered - 1 /\ recovered' \in Nat
    BY <2>1, Before
  <2>6. /\ outer' - One(handle') = outer - One(handle)
        /\ inner' - recovered' - One(resident' = "Open") = inner - recovered - One(resident = "Open")
    <3>1. inner' - recovered' - 0 = inner - recovered - 1 /\ outer' - 0 = outer - 1
      BY <2>1, <2>5, Before
    <3> QED
      BY <2>2, <3>1
  <2> QED
    BY <2>1, <2>4, <2>5, <2>6, CallerIInv
<1>4. ASSUME NEW now \in Outcome, ContinueResident(now) PROVE IInv'
  <2>1. /\ resident # "Open" /\ resident' # "Open"
        /\ UNCHANGED <<handle, outer, inner, recovered, use, alive>>
    BY <1>4 DEF ContinueResident, TearDownResident, Outcome, Retained
  <2>2. One(resident = "Open") = 0 /\ One(resident' = "Open") = 0
    BY <2>1 DEF One
  <2> QED
    BY <2>1, <2>2, Before, CallerIInv DEF IInv
<1> QED
  BY <1>1, <1>2, <1>3, <1>4

------------------------------------------------------------------------------
LEMMA InitIInv == Init => IInv
<1> SUFFICES ASSUME Init PROVE IInv
  OBVIOUS
<1>1. /\ use \in [Use -> UseRecord] /\ alive \in [Use -> SUBSET (Built \cup {"logits"})]
  BY DEF Init, NoUse, UseRecord, Kind, At, Source
<1>2. \A u \in Use : use[u].kind = "none" /\ use[u].at = "none" /\ ~use[u].lost /\ alive[u] = {}
  BY DEF Init, NoUse
<1>3. \A u \in Use : SoundUse(use[u], alive[u])
  BY <1>1, <1>2 DEF SoundUse, SoundAt
<1>4. OuterHolders = {} /\ InnerHolders = {}
  BY <1>2 DEF OuterHolders, InnerHolders, OuterHold, InnerHold, OuterAt, InnerAt, Active
<1>5. Cardinality(OuterHolders) = 0 /\ Cardinality(InnerHolders) = 0
  BY <1>4, FS_EmptySet
<1> QED
  BY <1>1, <1>3, <1>4, <1>5 DEF Init, IInv, One

LEMMA NextIInv == IInv /\ [Next]_vars => IInv'
<1> SUFFICES ASSUME IInv, [Next]_vars PROVE IInv'
  OBVIOUS
<1>1. ASSUME NEW u \in Use, NEW n \in 1..MaxBatches, Plan(u, n) PROVE IInv'
  BY <1>1, PlanIInv
<1>2. ASSUME NEW u \in Use, DropPlan(u) PROVE IInv'
  BY <1>2, PlanIInv
<1>3. ASSUME NEW u \in Use, BuildSession(u) PROVE IInv'
  BY <1>3, BuildIInv
<1>4. ASSUME NEW u \in Use, Drive(u) PROVE IInv'
  BY <1>4, DriveIInv
<1>5. ASSUME NEW u \in Use, Settle(u) PROVE IInv'
  BY <1>5, SettleIInv
<1>6. ASSUME NEW u \in Use, DropCustody(u) PROVE IInv'
  BY <1>6, DropCustodyIInv
<1>7. CASE DropRecovered \/ DropResident \/ (\E now \in ResidentOutcome : CloseResident(now))
           \/ (\E now \in Outcome : ContinueResident(now))
  BY <1>7, CallerSteps
<1>8. CASE UNCHANGED vars
  BY <1>8 DEF vars, IInv, OuterHolders, InnerHolders, OuterHold, InnerHold, SoundUse
<1> QED
  BY <1>1, <1>2, <1>3, <1>4, <1>5, <1>6, <1>7, <1>8 DEF Next

(* The references are counted right at every reachable state: IInv holds.   *)
(* It is what keeps native_text.rs able to say who owns the uploads.        *)
LEMMA Inductive == Spec => []IInv
  BY InitIInv, NextIInv, PTL DEF Spec

(* The uploads outlive every stream that may read them, and leave only      *)
(* through close (ExplicitReleaseOwner, ResidentRetention,                  *)
(* NativeTextResident::close).                                              *)
THEOREM UploadsAreKept == Spec => []UploadsOutliveStreams
<1>1. IInv => UploadsOutliveStreams
  <2> SUFFICES ASSUME IInv PROVE UploadsOutliveStreams
    OBVIOUS
  <2>1. resident = "Open" => inner > 0
    BY HoldersFinite DEF IInv, One
  <2>2. ASSUME resident # "Open", NEW u \in Use PROVE "stream" \notin alive[u]
    <3>1. ~InnerHold(use[u])
      BY <2>2 DEF IInv, InnerHolders
    <3> QED
      BY <3>1, UseBefore DEF InnerHold, InnerAt, SoundAt, Active, Kind
  <2> QED
    BY <2>1, <2>2 DEF UploadsOutliveStreams
<1> QED
  BY <1>1, Inductive, PTL

(* What is published, or handed back without custody, has nothing left at   *)
(* the runtime (retain_before_publish, into_released_source,                *)
(* into_released_model).                                                    *)
THEOREM NothingIsLeftBehind == Spec => []NothingLeftBehind
<1>1. IInv => NothingLeftBehind
  BY UseBefore DEF NothingLeftBehind, SoundAt
<1> QED
  BY <1>1, Inductive, PTL

(* The resident can be closed once every use gave its references back       *)
(* (NativeTextResident::close).                                             *)
THEOREM SettledResidentCloses == Spec => []SettledCanClose
<1>1. IInv => SettledCanClose
  <2> SUFFICES ASSUME IInv, handle, recovered = 0, \A u \in Use : IsSettled(u)
               PROVE  LastReference
    BY DEF SettledCanClose
  <2>1. OuterHolders = {} /\ InnerHolders = {}
    BY DEF OuterHolders, InnerHolders, OuterHold, InnerHold, OuterAt, InnerAt, Active, IsSettled
  <2>2. Cardinality(OuterHolders) = 0 /\ Cardinality(InnerHolders) = 0
    BY <2>1, FS_EmptySet
  <2> QED
    BY <2>2, HandleOpen DEF IInv, One, LastReference
<1> QED
  BY <1>1, Inductive, PTL

------------------------------------------------------------------------------
(* How a text, a buffer and a plan are measured. *)
(* What holds of 0, and of each number of an interval after its            *)
(* predecessor, holds in the interval.                                     *)
LEMMA UpTo ==
  ASSUME NEW n \in Nat, NEW P, 0 \in P, \A k \in 1..n : k - 1 \in P => k \in P
  PROVE  \A k \in 0..n : k \in P
<1> DEFINE Bad == {k \in 0..n : k \notin P}
<1> SUFFICES ASSUME Bad # {} PROVE FALSE
  OBVIOUS
<1>1. PICK m \in Bad : \A k \in Bad : ~(k < m)
  <2> DEFINE Less == OpToRel(<, Nat)
  <2>1. IsWellFoundedOn(Less, Nat)
    BY NatLessThanWellFounded
  <2>2. Bad \in SUBSET Nat
    OBVIOUS
  <2> HIDE DEF Bad
  <2>3. PICK m \in Bad : \A k \in Bad : <<k, m>> \notin Less
    <3> HIDE DEF Less
    <3> QED
      BY <2>1, <2>2, WFMin
  <2> QED
    BY <2>2, <2>3 DEF OpToRel
<1>2. m \in 1..n /\ m - 1 \in 0..n /\ m - 1 < m
  OBVIOUS
<1>3. m - 1 \notin Bad
  BY <1>1, <1>2
<1> QED
  BY <1>2, <1>3

(* Steps given as functions can be taken one after the other. *)
AreSteps(F, D, n) == F \in [1..n -> [D -> D]]
AreTaken(g, F, D, base, n) ==
  g \in [0..n -> D] /\ g[0] = base /\ \A k \in 1..n : g[k] = F[k][g[k - 1]]

LEMMA StepsExist ==
  ASSUME NEW n \in Nat, NEW D, NEW base \in D, NEW F, AreSteps(F, D, n)
  PROVE  \E g : AreTaken(g, F, D, base, n)
<1> DEFINE Is(g, m) == /\ g \in [0..m -> D] /\ g[0] = base
                       /\ \A k \in 1..m : g[k] = F[k][g[k - 1]]
           P == {m \in 0..n : \E g : Is(g, m)}
<1> USE DEF AreSteps
<1>1. 0 \in P
  <2>1. Is([k \in 0..0 |-> base], 0)
    OBVIOUS
  <2> HIDE DEF Is
  <2> QED
    BY <2>1
<1>2. ASSUME NEW m \in 1..n, m - 1 \in P PROVE m \in P
  <2> PICK g : Is(g, m - 1)
    BY <1>2
  <2> DEFINE h == [k \in 0..m |-> IF k = m THEN F[m][g[m - 1]] ELSE g[k]]
  <2>0. g[m - 1] \in D /\ F[m][g[m - 1]] \in D /\ h[m] = F[m][g[m - 1]] /\ h[m - 1] = g[m - 1]
    OBVIOUS
  <2>1. h \in [0..m -> D] /\ h[0] = base
    BY <2>0
  <2>2. ASSUME NEW k \in 1..m PROVE h[k] = F[k][h[k - 1]]
    <3>1. CASE k = m
      BY <2>0, <3>1
    <3>2. CASE k # m
      <4>1. k \in 1..(m - 1) /\ k - 1 \in 0..(m - 1) /\ k - 1 # m
        BY <3>2
      <4>2. h[k] = g[k] /\ h[k - 1] = g[k - 1]
        BY <3>2, <4>1
      <4> HIDE DEF h
      <4> QED
        BY <4>1, <4>2
    <3> QED
      BY <3>1, <3>2
  <2> HIDE DEF h
  <2>3. Is(h, m)
    BY <2>1, <2>2
  <2> QED
    BY <2>3
<1>3. n \in P
  <2> HIDE DEF P
  <2>1. \A k \in 0..n : k \in P
    BY <1>1, <1>2, UpTo
  <2> QED
    BY <2>1
<1> QED
  BY <1>3 DEF AreTaken

Sums(t) == Passes(Longer, 0, t)

(* Every symbol is one to six bytes wide. *)
LEMMA Widths == \A s \in Symbol : Width[s] \in Nat /\ 1 <= Width[s] /\ Width[s] <= 6
BY DEF Symbol, Width

(* Bytes is a sum, symbol by symbol. *)
LEMMA SumsAre ==
  ASSUME NEW t \in Seq(Symbol)
  PROVE  /\ Sums(t) \in [0..Len(t) -> Nat]
         /\ Sums(t)[0] = 0
         /\ \A k \in 1..Len(t) : Sums(t)[k] = Sums(t)[k - 1] + Width[t[k]]
         /\ Bytes(t) = Sums(t)[Len(t)]
<1> DEFINE n == Len(t)
           F == [k \in 1..n |-> [x \in Nat |-> Longer(x, t[k])]]
           Is(f) == f = [k \in 0..n |-> IF k = 0 THEN 0 ELSE Longer(f[k - 1], t[k])]
<1>1. n \in Nat /\ \A k \in 1..n : t[k] \in Symbol
  OBVIOUS
<1>2. F \in [1..n -> [Nat -> Nat]]
  BY <1>1, Widths DEF Longer
<1> HIDE DEF n
<1>3. PICK g \in [0..n -> Nat] : g[0] = 0 /\ \A k \in 1..n : g[k] = F[k][g[k - 1]]
  <2>1. PICK D : D = Nat /\ 0 \in D /\ AreSteps(F, D, n)
    BY <1>2 DEF AreSteps
  <2> HIDE DEF F
  <2>2. \E g : AreTaken(g, F, D, 0, n)
    BY <1>1, <2>1, StepsExist
  <2> QED
    BY <2>1, <2>2 DEF AreTaken
<1>4. Is(g)
  <2>1. ASSUME NEW k \in 1..n PROVE g[k] = Longer(g[k - 1], t[k])
    <3>1. g[k - 1] \in Nat
      BY <1>1
    <3> QED
      BY <1>3, <3>1
  <2> QED
    BY <1>1, <1>3, <2>1
<1>5. Sums(t) = CHOOSE f : Is(f)
  BY DEF Sums, Passes, n
<1>6. Is(Sums(t))
  <2> HIDE DEF Is
  <2> QED
    BY <1>4, <1>5
<1> DEFINE r == Sums(t)
<1> HIDE DEF r
<1>7. r = [k \in 0..n |-> IF k = 0 THEN 0 ELSE Longer(r[k - 1], t[k])]
  BY <1>6 DEF r
<1>8. r[0] = 0 /\ \A k \in 1..n : r[k] = r[k - 1] + Width[t[k]]
  BY <1>1, <1>7 DEF Longer
<1>9. \A k \in 0..n : r[k] \in Nat
  <2> DEFINE P == {k \in 0..n : r[k] \in Nat}
  <2>1. 0 \in P
    BY <1>1, <1>8
  <2>2. ASSUME NEW k \in 1..n, k - 1 \in P PROVE k \in P
    <3>1. r[k - 1] \in Nat /\ t[k] \in Symbol
      BY <1>1, <2>2
    <3>2. r[k] \in Nat
      BY <1>8, <3>1, Widths
    <3> QED
      BY <1>1, <3>2
  <2> HIDE DEF P
  <2>3. \A k \in 0..n : k \in P
    BY <1>1, <2>1, <2>2, UpTo
  <2> QED
    BY <2>3 DEF P
<1>10. r \in [0..n -> Nat]
  BY <1>7, <1>9
<1> QED
  BY <1>8, <1>10 DEF r, n, Bytes, Pass, Sums

(* What grows no faster from no higher a start stays no higher. *)
LEMMA Compare ==
  ASSUME NEW n \in Nat, NEW f \in [0..n -> Int], NEW g \in [0..n -> Int], f[0] <= g[0],
         \A k \in 1..n : f[k] - f[k - 1] <= g[k] - g[k - 1]
  PROVE  \A k \in 0..n : f[k] <= g[k]
<1> DEFINE P == {k \in 0..n : f[k] <= g[k]}
<1>1. 0 \in P
  OBVIOUS
<1>2. ASSUME NEW k \in 1..n, k - 1 \in P PROVE k \in P
  <2>1. k \in 0..n /\ k - 1 \in 0..n /\ f[k - 1] <= g[k - 1]
    BY <1>2
  <2>2. f[k] \in Int /\ g[k] \in Int /\ f[k - 1] \in Int /\ g[k - 1] \in Int
    BY <2>1
  <2>3. f[k] - f[k - 1] <= g[k] - g[k - 1]
    OBVIOUS
  <2>4. f[k] <= g[k]
    BY <2>1, <2>2, <2>3
  <2> QED
    BY <2>1, <2>4
<1> HIDE DEF P
<1>3. \A k \in 0..n : k \in P
  BY <1>1, <1>2, UpTo
<1> QED
  BY <1>3 DEF P

LEMMA BytesNat ==
  ASSUME NEW t \in Text
  PROVE  Bytes(t) \in Nat /\ Len(t) \in Nat /\ Len(t) <= Bytes(t)
<1>1. Len(t) \in Nat /\ t \in Seq(Symbol)
  BY DEF Text
<1> DEFINE n == Len(t)
           S == Sums(t)
           I == [k \in 0..n |-> k]
<1>2. /\ S \in [0..n -> Nat] /\ S[0] = 0 /\ Bytes(t) = S[n]
      /\ \A k \in 1..n : S[k] = S[k - 1] + Width[t[k]]
  BY <1>1, SumsAre
<1> HIDE DEF S, n
<1>3. \A k \in 1..n : I[k] - I[k - 1] <= S[k] - S[k - 1]
  <2> TAKE k \in 1..n
  <2>1. k - 1 \in 0..n /\ k \in 0..n /\ t[k] \in Symbol
    BY <1>1 DEF n
  <2>2. S[k] \in Nat /\ S[k - 1] \in Nat /\ Width[t[k]] \in Nat /\ 1 <= Width[t[k]]
    BY <2>1, <1>2, Widths
  <2> QED
    BY <2>1, <2>2, <1>2
<1>4. n \in Nat /\ I \in [0..n -> Int] /\ S \in [0..n -> Int] /\ I[0] <= S[0]
  BY <1>1, <1>2 DEF n
<1>5. \A k \in 0..n : I[k] <= S[k]
  <2> HIDE DEF I
  <2> QED
    BY <1>3, <1>4, Compare
<1> QED
  BY <1>1, <1>2, <1>4, <1>5 DEF n

LEMMA BytesEmpty == <<>> \in Text /\ Bytes(<<>>) = 0 /\ Len(<<>>) = 0
<1>1. <<>> \in Seq(Symbol) /\ Len(<<>>) = 0
  OBVIOUS
<1> DEFINE e == <<>>
<1> HIDE DEF e
<1>2. Bytes(e) = Sums(e)[Len(e)] /\ Sums(e)[0] = 0
  BY <1>1, SumsAre DEF e
<1> QED
  BY <1>1, <1>2 DEF e, Text

LEMMA BytesOne ==
  ASSUME NEW s \in Symbol
  PROVE  <<s>> \in Text /\ Bytes(<<s>>) = Width[s] /\ Len(<<s>>) = 1
<1> DEFINE e == <<s>>
<1>1. e \in Seq(Symbol) /\ Len(e) = 1 /\ e[1] = s
  OBVIOUS
<1> HIDE DEF e
<1>2. /\ Bytes(e) = Sums(e)[Len(e)] /\ Sums(e)[0] = 0 
      /\ \A k \in 1..Len(e) : Sums(e)[k] = Sums(e)[k - 1] + Width[e[k]]
  BY <1>1, SumsAre
<1>3. Sums(e)[1] = Sums(e)[0] + Width[s]
  BY <1>1, <1>2
<1>4. Width[s] \in Nat
  BY Widths
<1> QED
  BY <1>1, <1>2, <1>3, <1>4 DEF e, Text

(* The bytes of a concatenation are the bytes of both parts. *)
LEMMA BytesConcat ==
  ASSUME NEW s \in Text, NEW t \in Text
  PROVE  /\ s \o t \in Text /\ Len(s \o t) = Len(s) + Len(t)
         /\ Bytes(s \o t) = Bytes(s) + Bytes(t)
<1> DEFINE u == s \o t
           m == Len(s)
           n == Len(t)
<1>1. /\ u \in Seq(Symbol) /\ Len(u) = m + n /\ m \in Nat /\ n \in Nat
      /\ s \in Seq(Symbol) /\ t \in Seq(Symbol)
      /\ \A k \in 1..m : u[k] = s[k]
      /\ \A k \in 1..n : u[m + k] = t[k]
  BY DEF Text
<1> HIDE DEF u, m, n
<1>2. /\ Sums(u) \in [0..(m + n) -> Nat] /\ Sums(u)[0] = 0 /\ Bytes(u) = Sums(u)[m + n]
      /\ \A k \in 1..(m + n) : Sums(u)[k] = Sums(u)[k - 1] + Width[u[k]]
  BY <1>1, SumsAre
<1>3. /\ Sums(s)[0] = 0 /\ Bytes(s) = Sums(s)[m] /\ Bytes(s) \in Nat
      /\ \A k \in 1..m : Sums(s)[k] = Sums(s)[k - 1] + Width[s[k]]
  BY <1>1, SumsAre, BytesNat DEF m, Text
<1>4. /\ Sums(t) \in [0..n -> Nat] /\ Sums(t)[0] = 0 /\ Bytes(t) = Sums(t)[n]
      /\ \A k \in 1..n : Sums(t)[k] = Sums(t)[k - 1] + Width[t[k]]
  BY <1>1, SumsAre DEF n
<1>5. Sums(u)[m] = Sums(s)[m]
  <2> DEFINE P == {k \in 0..m : Sums(u)[k] = Sums(s)[k]}
  <2>1. 0 \in P
    BY <1>1, <1>2, <1>3
  <2>2. ASSUME NEW k \in 1..m, k - 1 \in P PROVE k \in P
    <3>1. k \in 1..(m + n) /\ k \in 0..m /\ Sums(u)[k - 1] = Sums(s)[k - 1]
      BY <1>1, <2>2
    <3>2. Sums(u)[k] = Sums(s)[k - 1] + Width[s[k]] 
      BY <1>1, <1>2, <3>1
    <3>3. Sums(s)[k] = Sums(s)[k - 1] + Width[s[k]] 
      BY <1>3
    <3> QED
      BY <3>1, <3>2, <3>3
  <2> HIDE DEF P
  <2>3. \A k \in 0..m : k \in P
    BY <1>1, <2>1, <2>2, UpTo
  <2>4. m \in P
    BY <1>1, <2>3
  <2> QED
    BY <2>4 DEF P
<1>6. Sums(u)[m + n] = Sums(s)[m] + Sums(t)[n]
  <2> DEFINE P == {k \in 0..n : Sums(u)[m + k] = Bytes(s) + Sums(t)[k]}
  <2>1. 0 \in P
    BY <1>1, <1>3, <1>4, <1>5
  <2>2. ASSUME NEW k \in 1..n, k - 1 \in P PROVE k \in P
    <3>1. /\ m + k \in 1..(m + n) /\ k \in 0..n /\ k - 1 \in 0..n /\ (m + k) - 1 = m + (k - 1)
          /\ t[k] \in Symbol
      BY <1>1 DEF n
    <3>2. Sums(u)[m + k] = Sums(u)[m + (k - 1)] + Width[t[k]]
      BY <1>1, <1>2, <3>1
    <3>3. Sums(t)[k] = Sums(t)[k - 1] + Width[t[k]] /\ Sums(t)[k - 1] \in Nat /\ Width[t[k]] \in Nat
      BY <1>4, <3>1, Widths
    <3>4. Sums(u)[m + (k - 1)] = Bytes(s) + Sums(t)[k - 1]
      BY <2>2
    <3>5. Sums(u)[m + k] = Bytes(s) + Sums(t)[k]
      BY <1>3, <3>2, <3>3, <3>4
    <3> QED
      BY <3>1, <3>5
  <2> HIDE DEF P
  <2>3. \A k \in 0..n : k \in P
    BY <1>1, <2>1, <2>2, UpTo
  <2>4. n \in P
    BY <1>1, <2>3
  <2> QED
    BY <2>4, <1>3 DEF P
<1> QED
  BY <1>1, <1>2, <1>3, <1>4, <1>6 DEF u, m, n, Text

LEMMA BytesZero == ASSUME NEW t \in Text PROVE Bytes(t) = 0 <=> t = <<>>
<1>1. Bytes(t) \in Nat /\ Len(t) \in Nat /\ Len(t) <= Bytes(t) /\ (Len(t) = 0 => t = <<>>)
  BY BytesNat DEF Text
<1> QED
  BY <1>1, BytesEmpty

(* The pieces of a concatenation, one after the other. *)
IsFlat(g, b, S) ==
  /\ g \in [0..Len(b) -> Seq(S)] /\ g[0] = <<>>
  /\ \A k \in 1..Len(b) : g[k] = g[k - 1] \o b[k]

(* FlattenSeq, a recursive function of the library, without its recursion. *)
LEMMA FlattenIs ==
  ASSUME NEW S, NEW b \in Seq(Seq(S))
  PROVE  FlattenSeq(b) \in Seq(S) /\ \E g : IsFlat(g, b, S) /\ FlattenSeq(b) = g[Len(b)]
<1> DEFINE n == Len(b)
           F == [k \in 1..n |-> [x \in Seq(S) |-> x \o b[k]]]
           Is(f) == f = [i \in 1..n |-> IF i = 1 THEN b[i] ELSE f[i - 1] \o b[i]]
<1>1. n \in Nat /\ \A k \in 1..n : b[k] \in Seq(S)
  OBVIOUS
<1>2. F \in [1..n -> [Seq(S) -> Seq(S)]]
  <2>1. ASSUME NEW k \in 1..n, NEW x \in Seq(S) PROVE x \o b[k] \in Seq(S)
    BY <1>1
  <2> QED
    BY <2>1
<1> HIDE DEF n
<1>3. PICK g \in [0..n -> Seq(S)] : g[0] = <<>> /\ \A k \in 1..n : g[k] = F[k][g[k - 1]]
  <2>0. <<>> \in Seq(S)
    OBVIOUS
  <2> HIDE DEF F
  <2>1. PICK D : D = Seq(S) /\ <<>> \in D /\ AreSteps(F, D, n)
    <3>1. AreSteps(F, Seq(S), n)
      BY <1>2 DEF AreSteps
    <3> QED
      BY <2>0, <3>1
  <2>2. \E g : AreTaken(g, F, D, <<>>, n)
    BY <1>1, <2>1, StepsExist
  <2> QED
    BY <2>1, <2>2 DEF AreTaken
<1>4. \A k \in 1..n : g[k] = g[k - 1] \o b[k]
  <2> TAKE k \in 1..n
  <2>1. g[k - 1] \in Seq(S)
    BY <1>1
  <2> QED
    BY <1>3, <2>1
<1>5. IsFlat(g, b, S)
  BY <1>1, <1>3, <1>4 DEF IsFlat, n
<1>6. CASE n = 0
  <2>1. FlattenSeq(b) = <<>>
    BY <1>6 DEF FlattenSeq, n
  <2> QED
    BY <1>3, <1>5, <1>6, <2>1 DEF n
<1>7. CASE n > 0
  <2> DEFINE h == [i \in 1..n |-> g[i]]
  <2>1. g[1] = b[1]
    <3>1. 1 \in 1..n
      BY <1>1, <1>7
    <3>2. g[1] = g[1 - 1] \o b[1] /\ b[1] \in Seq(S)
      <4> HIDE DEF n
      <4> QED
        BY <1>1, <1>4, <3>1
    <3>3. \A x \in Seq(S) : <<>> \o x = x
      OBVIOUS
    <3>4. g[1 - 1] = <<>>
      <4>1. 1 - 1 = 0
        OBVIOUS
      <4> QED
        BY <1>3, <4>1
    <3>5. <<>> \o b[1] = b[1]
      BY <3>2, <3>3
    <3> QED
      BY <3>2, <3>4, <3>5
  <2>2. Is(h)
    <3>1. ASSUME NEW i \in 1..n PROVE h[i] = IF i = 1 THEN b[i] ELSE h[i - 1] \o b[i]
      <4>1. i # 1 => i - 1 \in 1..n
        BY <1>1
      <4> QED
        BY <1>4, <2>1, <4>1
    <3> HIDE DEF h
    <3>2. h = [i \in 1..n |-> h[i]]
      BY DEF h
    <3> QED
      BY <3>1, <3>2
  <2> DEFINE f == CHOOSE f : Is(f)
  <2>3. Is(f)
    <3> HIDE DEF Is, h
    <3> QED
      BY <2>2
  <2>4. FlattenSeq(b) = f[n]
    <3>1. Len(b) # 0
      BY <1>1, <1>7 DEF n
    <3> QED
      BY <3>1 DEF FlattenSeq, n
  <2> HIDE DEF f
  <2>5. f[n] = g[n]
    <3> DEFINE P == {k \in 0..n : k = 0 \/ f[k] = g[k]}
    <3>1. 0 \in P
      BY <1>1
    <3>2. ASSUME NEW k \in 1..n, k - 1 \in P PROVE k \in P
      <4>1. f[k] = IF k = 1 THEN b[k] ELSE f[k - 1] \o b[k]
        BY <2>3
      <4>2. k # 1 => f[k - 1] = g[k - 1]
        BY <3>2
      <4>3. f[k] = g[k]
        BY <1>4, <2>1, <4>1, <4>2
      <4> QED
        BY <4>3
    <3> HIDE DEF P
    <3>3. \A k \in 0..n : k \in P
      BY <1>1, <3>1, <3>2, UpTo
    <3>4. n \in P
      BY <1>1, <3>3
    <3> QED
      BY <1>7, <3>4 DEF P
  <2> QED
    BY <1>1, <1>5, <2>4, <2>5 DEF n
<1> QED
  BY <1>1, <1>6, <1>7

(* The bytes of the tokens of a buffer, one after the other. *)
IsTotal(h, b) ==
  /\ h \in [0..Len(b) -> Nat] /\ h[0] = 0
  /\ \A k \in 1..Len(b) : h[k] = h[k - 1] + Bytes(b[k])
Totals(b) == CHOOSE h : IsTotal(h, b) /\ BytesOf(b) = h[Len(b)]
Texts == Seq(Text)

(* The bytes of a buffer are the sum over its tokens. *)
LEMMA TotalsAre ==
  ASSUME NEW b \in Texts
  PROVE  /\ FlattenSeq(b) \in Text /\ IsTotal(Totals(b), b)
         /\ BytesOf(b) \in Nat /\ BytesOf(b) = Totals(b)[Len(b)]
<1> DEFINE n == Len(b)
<1>1. n \in Nat /\ \A k \in 1..n : b[k] \in Text
  BY DEF Texts
<1>2. PICK g : IsFlat(g, b, Symbol) /\ FlattenSeq(b) = g[n]
  BY FlattenIs DEF Texts, Text
<1>3. FlattenSeq(b) \in Text
  BY FlattenIs DEF Texts, Text
<1>4. g \in [0..n -> Text] /\ g[0] = <<>> /\ \A k \in 1..n : g[k] = g[k - 1] \o b[k]
  BY <1>2 DEF IsFlat, Text
<1> HIDE DEF n
<1> DEFINE h == [k \in 0..n |-> Bytes(g[k])]
<1>5. h \in [0..n -> Nat]
  <2>1. \A k \in 0..n : g[k] \in Text
    BY <1>4
  <2>2. \A k \in 0..n : Bytes(g[k]) \in Nat
    BY <2>1, BytesNat
  <2> QED
    BY <2>2
<1>6. h[0] = 0
  BY <1>1, <1>4, BytesEmpty
<1>7. \A k \in 1..n : h[k] = h[k - 1] + Bytes(b[k])
  <2> TAKE k \in 1..n
  <2>1. k \in 0..n /\ k - 1 \in 0..n
    BY <1>1
  <2>2. g[k - 1] \in Text /\ b[k] \in Text /\ g[k] = g[k - 1] \o b[k]
    BY <1>1, <1>4, <2>1
  <2>3. Bytes(g[k]) = Bytes(g[k - 1]) + Bytes(b[k])
    BY <2>2, BytesConcat
  <2> QED
    BY <2>1, <2>3
<1>8. BytesOf(b) = h[n]
  BY <1>1, <1>2 DEF BytesOf
<1> HIDE DEF h
<1>9. IsTotal(h, b) /\ BytesOf(b) = h[Len(b)]
  BY <1>5, <1>6, <1>7, <1>8 DEF IsTotal, n
<1>10. IsTotal(Totals(b), b) /\ BytesOf(b) = Totals(b)[Len(b)]
  BY <1>9 DEF Totals
<1> QED
  BY <1>1, <1>3, <1>5, <1>8, <1>10 DEF n

LEMMA BufferConcat ==
  ASSUME NEW s \in Texts, NEW t \in Texts
  PROVE  /\ s \o t \in Texts /\ Len(s \o t) = Len(s) + Len(t)
         /\ BytesOf(s \o t) = BytesOf(s) + BytesOf(t)
<1> DEFINE u == s \o t
           m == Len(s)
           n == Len(t)
<1>1. /\ u \in Texts /\ Len(u) = m + n /\ m \in Nat /\ n \in Nat
      /\ \A k \in 1..m : u[k] = s[k]
      /\ \A k \in 1..n : u[m + k] = t[k] /\ t[k] \in Text
  BY DEF Texts
<1> HIDE DEF u, m, n
<1> DEFINE U == Totals(u)
           S == Totals(s)
           T == Totals(t)
<1>2. /\ U \in [0..(m + n) -> Nat] /\ U[0] = 0 /\ BytesOf(u) = U[m + n]
      /\ \A k \in 1..(m + n) : U[k] = U[k - 1] + Bytes(u[k])
  BY <1>1, TotalsAre DEF IsTotal
<1>3. /\ S[0] = 0 /\ BytesOf(s) = S[m] /\ BytesOf(s) \in Nat
      /\ \A k \in 1..m : S[k] = S[k - 1] + Bytes(s[k])
  BY TotalsAre DEF IsTotal, m
<1>4. /\ T \in [0..n -> Nat] /\ T[0] = 0 /\ BytesOf(t) = T[n]
      /\ \A k \in 1..n : T[k] = T[k - 1] + Bytes(t[k])
  BY TotalsAre DEF IsTotal, n
<1> HIDE DEF U, S, T
<1>5. U[m] = S[m]
  <2> DEFINE P == {k \in 0..m : U[k] = S[k]}
  <2>1. 0 \in P
    BY <1>1, <1>2, <1>3
  <2>2. ASSUME NEW k \in 1..m, k - 1 \in P PROVE k \in P
    <3>1. k \in 1..(m + n) /\ k \in 0..m /\ U[k - 1] = S[k - 1]
      BY <1>1, <2>2
    <3>2. U[k] = S[k - 1] + Bytes(s[k])
      BY <1>1, <1>2, <3>1
    <3>3. S[k] = S[k - 1] + Bytes(s[k])
      BY <1>3
    <3> QED
      BY <3>1, <3>2, <3>3
  <2> HIDE DEF P
  <2>3. \A k \in 0..m : k \in P
    BY <1>1, <2>1, <2>2, UpTo
  <2>4. m \in P
    BY <1>1, <2>3
  <2> QED
    BY <2>4 DEF P
<1>6. U[m + n] = S[m] + T[n]
  <2> DEFINE P == {k \in 0..n : U[m + k] = BytesOf(s) + T[k]}
  <2>1. 0 \in P
    BY <1>1, <1>3, <1>4, <1>5
  <2>2. ASSUME NEW k \in 1..n, k - 1 \in P PROVE k \in P
    <3>1. /\ m + k \in 1..(m + n) /\ k \in 0..n /\ k - 1 \in 0..n /\ (m + k) - 1 = m + (k - 1)
          /\ t[k] \in Text
      BY <1>1
    <3>2. U[m + k] = U[m + (k - 1)] + Bytes(t[k])
      BY <1>1, <1>2, <3>1
    <3>3. T[k] = T[k - 1] + Bytes(t[k]) /\ T[k - 1] \in Nat /\ Bytes(t[k]) \in Nat
      BY <1>4, <3>1, BytesNat
    <3>4. U[m + (k - 1)] = BytesOf(s) + T[k - 1]
      BY <2>2
    <3>5. U[m + k] = BytesOf(s) + T[k]
      BY <1>3, <3>2, <3>3, <3>4
    <3> QED
      BY <3>1, <3>5
  <2> HIDE DEF P
  <2>3. \A k \in 0..n : k \in P
    BY <1>1, <2>1, <2>2, UpTo
  <2>4. n \in P
    BY <1>1, <2>3
  <2> QED
    BY <2>4, <1>3 DEF P
<1> QED
  BY <1>1, <1>2, <1>3, <1>4, <1>6 DEF u, m, n

LEMMA BufferEmpty == <<>> \in Texts /\ BytesOf(<<>>) = 0 /\ Len(<<>>) = 0
<1>1. FlattenSeq(<<>>) = <<>>
  BY DEF FlattenSeq
<1> QED
  BY <1>1, BytesEmpty DEF BytesOf, Texts

LEMMA BufferOne ==
  ASSUME NEW t \in Text
  PROVE  <<t>> \in Texts /\ BytesOf(<<t>>) = Bytes(t) /\ Len(<<t>>) = 1
<1> DEFINE b == <<t>>
<1>1. b \in Texts /\ Len(b) = 1 /\ b[1] = t
  BY DEF Texts
<1> HIDE DEF b
<1>2. IsTotal(Totals(b), b) /\ BytesOf(b) = Totals(b)[Len(b)]
  BY <1>1, TotalsAre
<1>3. Totals(b)[1] = 0 + Bytes(t)
  BY <1>1, <1>2 DEF IsTotal
<1> QED
  BY <1>1, <1>2, <1>3, BytesNat DEF b

LEMMA BufferAppend ==
  ASSUME NEW b \in Texts, NEW t \in Text
  PROVE  /\ Append(b, t) \in Texts /\ Len(Append(b, t)) = Len(b) + 1
         /\ BytesOf(Append(b, t)) = BytesOf(b) + Bytes(t)
<1>1. Append(b, t) = b \o <<t>>
  BY DEF Texts
<1> QED
  BY <1>1, BufferOne, BufferConcat

(* A text as a buffer of its symbols. *)
Singles(t) == [i \in 1..Len(t) |-> <<t[i]>>]
LEMMA SinglesAre ==
  ASSUME NEW t \in Text
  PROVE  /\ Singles(t) \in Texts /\ Len(Singles(t)) = Len(t) /\ BytesOf(Singles(t)) = Bytes(t)
         /\ \A i \in 1..Len(t) : /\ t[i] \in Symbol /\ Singles(t)[i] = <<t[i]>>
                                 /\ Bytes(Singles(t)[i]) = Width[t[i]]
<1> DEFINE n == Len(t)
           b == Singles(t)
           T == Totals(b)
<1>1. n \in Nat /\ t \in Seq(Symbol) /\ \A i \in 1..n : t[i] \in Symbol
  BY DEF Text
<1> HIDE DEF n
<1>2. \A i \in 1..n : b[i] = <<t[i]>> /\ b[i] \in Text /\ Bytes(b[i]) = Width[t[i]]
  BY <1>1, BytesOne DEF Singles, n
<1>3. b \in Texts /\ Len(b) = n
  BY <1>1, <1>2 DEF Singles, Texts, n
<1> HIDE DEF b
<1>4. /\ T[0] = 0 /\ BytesOf(b) = T[n] /\ \A k \in 1..n : T[k] = T[k - 1] + Bytes(b[k])
  BY <1>3, TotalsAre DEF IsTotal
<1>5. /\ Sums(t)[0] = 0 /\ Bytes(t) = Sums(t)[n]
      /\ \A k \in 1..n : Sums(t)[k] = Sums(t)[k - 1] + Width[t[k]]
  BY <1>1, SumsAre DEF n
<1> HIDE DEF T
<1> DEFINE P == {k \in 0..n : T[k] = Sums(t)[k]}
<1>6. 0 \in P
  BY <1>1, <1>4, <1>5
<1>7. ASSUME NEW k \in 1..n, k - 1 \in P PROVE k \in P
  <2>1. k \in 0..n /\ T[k - 1] = Sums(t)[k - 1]
    BY <1>7
  <2>2. T[k] = Sums(t)[k - 1] + Width[t[k]] /\ Sums(t)[k] = Sums(t)[k - 1] + Width[t[k]]
    BY <1>2, <1>4, <1>5, <2>1
  <2> QED
    BY <2>1, <2>2
<1> HIDE DEF P
<1>8. \A k \in 0..n : k \in P
  BY <1>1, <1>6, <1>7, UpTo
<1>9. n \in P
  BY <1>1, <1>8
<1> QED
  BY <1>1, <1>2, <1>3, <1>4, <1>5, <1>9 DEF P, n, b

------------------------------------------------------------------------------
(* What bounds a buffer after each of its tokens was changed, or some kept. *)
(* Products keep the order, and a whole number of times within a number is *)
(* at most the quotient. *)
LEMMA MulMono ==
  ASSUME NEW a \in Nat, NEW b \in Nat, NEW c \in Nat, a <= b
  PROVE  a * c \in Nat /\ b * c \in Nat /\ a * c <= b * c
<1>1. PICK d \in Nat : b = a + d
  <2>1. b - a \in Nat /\ b = a + (b - a)
    OBVIOUS
  <2> QED
    BY <2>1
<1>2. (a + d) * c = a * c + d * c /\ a * c \in Nat /\ d * c \in Nat
  OBVIOUS
<1> QED
  BY <1>1, <1>2

LEMMA Within ==
  ASSUME NEW j \in Nat, NEW p \in Nat \ {0}, NEW n \in Nat, j * p <= n
  PROVE  j <= n \div p /\ n \div p \in Nat
<1> DEFINE q == n \div p
<1>1. q \in Nat /\ n < (q + 1) * p
  <2>1. q \in Int /\ n = q * p + (n % p) /\ 0 <= n % p /\ n % p < p
    OBVIOUS
  <2>2. q >= 0
    OBVIOUS
  <2>3. (q + 1) * p = q * p + p /\ q * p \in Int /\ n % p \in Int
    BY <2>1
  <2> HIDE DEF q
  <2> QED
    BY <2>1, <2>2, <2>3
<1> HIDE DEF q
<1>2. SUFFICES ASSUME j > q PROVE FALSE
  BY <1>1 DEF q
<1>3. q + 1 \in Nat /\ q + 1 <= j
  BY <1>1, <1>2
<1>4. (q + 1) * p <= j * p /\ (q + 1) * p \in Nat /\ j * p \in Nat
  BY <1>3, MulMono
<1> QED
  BY <1>1, <1>4

LEMMA DivMono ==
  ASSUME NEW a \in Nat, NEW b \in Nat, NEW p \in Nat \ {0}, a <= b
  PROVE  a \div p \in Nat /\ b \div p \in Nat /\ a \div p <= b \div p
<1>1. a \div p \in Nat /\ (a \div p) * p <= a /\ (a \div p) * p \in Nat
  <2> DEFINE q == a \div p
  <2>1. q \in Int /\ a = q * p + (a % p) /\ 0 <= a % p
    OBVIOUS
  <2>2. q >= 0
    OBVIOUS
  <2>3. q * p \in Int /\ a % p \in Int
    BY <2>1
  <2> HIDE DEF q
  <2>4. q \in Nat /\ q * p <= a
    BY <2>1, <2>2, <2>3
  <2>5. q * p \in Nat
    BY <2>4
  <2> QED
    BY <2>4, <2>5 DEF q
<1> DEFINE j == a \div p
<1> HIDE DEF j
<1>2. j \in Nat /\ j * p <= b
  BY <1>1 DEF j
<1> QED
  BY <1>1, <1>2, Within DEF j

(* Buffers of the same number of tokens, token by token. *)
LEMMA GrowsBy ==
  ASSUME NEW b \in Texts, NEW c \in Texts, Len(c) = Len(b), NEW m \in Nat, NEW w \in Nat,
         \A k \in 1..Len(b) : Bytes(c[k]) <= Bytes(b[k]) * m + w
  PROVE  BytesOf(c) <= BytesOf(b) * m + Len(b) * w
<1> DEFINE n == Len(b)
           B == Totals(b)
           C == Totals(c)
<1>1. n \in Nat /\ Len(c) = n /\ \A k \in 1..n : b[k] \in Text /\ c[k] \in Text
  BY DEF Texts
<1> HIDE DEF n
<1>2. /\ B \in [0..n -> Nat] /\ B[0] = 0 /\ BytesOf(b) = B[n]
      /\ \A k \in 1..n : B[k] = B[k - 1] + Bytes(b[k])
  BY <1>1, TotalsAre DEF IsTotal, n
<1>3. /\ C \in [0..n -> Nat] /\ C[0] = 0 /\ BytesOf(c) = C[n]
      /\ \A k \in 1..n : C[k] = C[k - 1] + Bytes(c[k])
  BY <1>1, TotalsAre DEF IsTotal
<1> HIDE DEF B, C
<1> DEFINE G == [k \in 0..n |-> B[k] * m + k * w]
<1>4. \A k \in 1..n : C[k] - C[k - 1] <= G[k] - G[k - 1]
  <2> TAKE k \in 1..n
  <2>1. k \in 0..n /\ k - 1 \in 0..n /\ k - 1 \in Nat /\ k \in Nat
    BY <1>1
  <2>2. B[k - 1] \in Nat /\ C[k - 1] \in Nat /\ Bytes(b[k]) \in Nat /\ Bytes(c[k]) \in Nat
    BY <1>1, <1>2, <1>3, <2>1, BytesNat
  <2>3. B[k] = B[k - 1] + Bytes(b[k]) /\ C[k] = C[k - 1] + Bytes(c[k])
    BY <1>2, <1>3
  <2>4. Bytes(c[k]) <= Bytes(b[k]) * m + w
    BY DEF n
  <2>5. /\ (B[k - 1] + Bytes(b[k])) * m = B[k - 1] * m + Bytes(b[k]) * m
        /\ B[k - 1] * m \in Nat /\ Bytes(b[k]) * m \in Nat
    BY <2>2
  <2>6. k * w = (k - 1) * w + w /\ (k - 1) * w \in Nat
    BY <2>1
  <2>7. G[k] = B[k] * m + k * w /\ G[k - 1] = B[k - 1] * m + (k - 1) * w
    BY <2>1
  <2> HIDE DEF G
  <2> DEFINE x == B[k - 1] * m
             y == Bytes(b[k]) * m
             z == (k - 1) * w
  <2>8. G[k] = (x + y) + (z + w) /\ G[k - 1] = x + z /\ x \in Nat /\ y \in Nat /\ z \in Nat
    BY <2>3, <2>5, <2>6, <2>7
  <2>9. Bytes(c[k]) <= y + w
    BY <2>4
  <2> HIDE DEF x, y, z
  <2> QED
    BY <2>2, <2>3, <2>8, <2>9
<1>5. G \in [0..n -> Int] /\ C \in [0..n -> Int] /\ C[0] <= G[0]
  <2>1. \A k \in 0..n : B[k] * m + k * w \in Int
    BY <1>1, <1>2
  <2>2. G[0] = 0
    BY <1>1, <1>2
  <2> QED
    BY <1>3, <2>1, <2>2
<1>6. \A k \in 0..n : C[k] <= G[k]
  <2> HIDE DEF G
  <2> QED
    BY <1>1, <1>4, <1>5, Compare
<1>7. C[n] <= G[n] /\ G[n] = B[n] * m + n * w
  BY <1>1, <1>6
<1> QED
  BY <1>2, <1>3, <1>7 DEF n

LEMMA NoLonger ==
  ASSUME NEW b \in Texts, NEW c \in Texts, Len(c) = Len(b),
         \A k \in 1..Len(b) : Bytes(c[k]) <= Bytes(b[k])
  PROVE  BytesOf(c) <= BytesOf(b)
<1>1. Len(b) \in Nat /\ BytesOf(b) \in Nat /\ \A k \in 1..Len(b) : b[k] \in Text
  BY TotalsAre DEF Texts
<1>2. \A k \in 1..Len(b) : Bytes(c[k]) <= Bytes(b[k]) * 1 + 0
  <2> TAKE k \in 1..Len(b)
  <2>1. Bytes(b[k]) \in Nat
    BY <1>1, BytesNat
  <2> QED
    BY <2>1
<1>3. BytesOf(c) <= BytesOf(b) * 1 + Len(b) * 0
  BY <1>2, GrowsBy
<1> QED
  BY <1>1, <1>3

(* All but the first token may become longer by one. *)
LEMMA GrowsButFirst ==
  ASSUME NEW b \in Texts, NEW c \in Texts, Len(c) = Len(b),
         \A k \in 1..Len(b) : Bytes(c[k]) <= Bytes(b[k]) + (IF k = 1 THEN 0 ELSE 1)
  PROVE  BytesOf(c) <= BytesOf(b) + OneLess(Len(b))
<1> DEFINE n == Len(b)
           B == Totals(b)
           C == Totals(c)
<1>1. n \in Nat /\ Len(c) = n /\ \A k \in 1..n : b[k] \in Text /\ c[k] \in Text
  BY DEF Texts
<1> HIDE DEF n
<1>2. /\ B \in [0..n -> Nat] /\ B[0] = 0 /\ BytesOf(b) = B[n]
      /\ \A k \in 1..n : B[k] = B[k - 1] + Bytes(b[k])
  BY <1>1, TotalsAre DEF IsTotal, n
<1>3. /\ C \in [0..n -> Nat] /\ C[0] = 0 /\ BytesOf(c) = C[n]
      /\ \A k \in 1..n : C[k] = C[k - 1] + Bytes(c[k])
  BY <1>1, TotalsAre DEF IsTotal
<1> HIDE DEF B, C
<1> DEFINE G == [k \in 0..n |-> B[k] + OneLess(k)]
<1>4. \A k \in 1..n : C[k] - C[k - 1] <= G[k] - G[k - 1]
  <2> TAKE k \in 1..n
  <2>1. k \in 0..n /\ k - 1 \in 0..n /\ k - 1 \in Nat /\ k \in Nat
    BY <1>1
  <2>2. B[k - 1] \in Nat /\ C[k - 1] \in Nat /\ Bytes(b[k]) \in Nat /\ Bytes(c[k]) \in Nat
    BY <1>1, <1>2, <1>3, <2>1, BytesNat
  <2>3. B[k] = B[k - 1] + Bytes(b[k]) /\ C[k] = C[k - 1] + Bytes(c[k])
    BY <1>2, <1>3
  <2>4. Bytes(c[k]) <= Bytes(b[k]) + (IF k = 1 THEN 0 ELSE 1)
    BY DEF n
  <2>5. OneLess(k) = OneLess(k - 1) + (IF k = 1 THEN 0 ELSE 1) /\ OneLess(k - 1) \in Nat
    BY <2>1 DEF OneLess
  <2>6. G[k] = B[k] + OneLess(k) /\ G[k - 1] = B[k - 1] + OneLess(k - 1)
    BY <2>1
  <2> HIDE DEF G
  <2> QED
    BY <2>2, <2>3, <2>4, <2>5, <2>6
<1>5. G \in [0..n -> Int] /\ C \in [0..n -> Int] /\ C[0] <= G[0]
  BY <1>1, <1>2, <1>3 DEF OneLess
<1>6. \A k \in 0..n : C[k] <= G[k]
  <2> HIDE DEF G
  <2> QED
    BY <1>1, <1>4, <1>5, Compare
<1>7. C[n] <= G[n] /\ G[n] = B[n] + OneLess(n)
  BY <1>1, <1>6
<1> QED
  BY <1>2, <1>3, <1>7 DEF n

(* How often each token was replaced in adds up. *)
Replaces(before, after, p, more) ==
  \E j \in Nat : after = before + j * more /\ j * p <= before
LEMMA ReplacesInEach ==
  ASSUME NEW b \in Texts, NEW c \in Texts, Len(c) = Len(b), NEW p \in Nat, NEW more \in Int,
         \A k \in 1..Len(b) : Replaces(Bytes(b[k]), Bytes(c[k]), p, more)
  PROVE  Replaces(BytesOf(b), BytesOf(c), p, more)
<1> DEFINE n == Len(b)
           B == Totals(b)
           C == Totals(c)
<1>1. n \in Nat /\ Len(c) = n /\ \A k \in 1..n : b[k] \in Text /\ c[k] \in Text
  BY DEF Texts
<1> HIDE DEF n
<1>2. /\ B \in [0..n -> Nat] /\ B[0] = 0 /\ BytesOf(b) = B[n]
      /\ \A k \in 1..n : B[k] = B[k - 1] + Bytes(b[k])
  BY <1>1, TotalsAre DEF IsTotal, n
<1>3. /\ C \in [0..n -> Nat] /\ C[0] = 0 /\ BytesOf(c) = C[n]
      /\ \A k \in 1..n : C[k] = C[k - 1] + Bytes(c[k])
  BY <1>1, TotalsAre DEF IsTotal
<1> HIDE DEF B, C
<1> DEFINE P == {k \in 0..n : Replaces(B[k], C[k], p, more)}
<1>4. 0 \in P
  <2>1. C[0] = B[0] + 0 * more /\ 0 * p <= B[0]
    BY <1>2, <1>3
  <2> QED
    BY <1>1, <2>1 DEF Replaces
<1>5. ASSUME NEW k \in 1..n, k - 1 \in P PROVE k \in P
  <2>1. k \in 0..n /\ k - 1 \in 0..n
    BY <1>1
  <2>2. PICK i \in Nat : C[k - 1] = B[k - 1] + i * more /\ i * p <= B[k - 1]
    BY <1>5 DEF Replaces
  <2>3. PICK j \in Nat : Bytes(c[k]) = Bytes(b[k]) + j * more /\ j * p <= Bytes(b[k])
    BY DEF Replaces, n
  <2>4. B[k - 1] \in Nat /\ C[k - 1] \in Nat /\ Bytes(b[k]) \in Nat /\ Bytes(c[k]) \in Nat
    BY <1>1, <1>2, <1>3, <2>1, BytesNat
  <2>5. B[k] = B[k - 1] + Bytes(b[k]) /\ C[k] = C[k - 1] + Bytes(c[k])
    BY <1>2, <1>3
  <2>6. /\ (i + j) * more = i * more + j * more /\ (i + j) * p = i * p + j * p
        /\ i * more \in Int /\ j * more \in Int /\ i * p \in Int /\ j * p \in Int /\ i + j \in Nat
    OBVIOUS
  <2>7. C[k] = B[k] + (i + j) * more /\ (i + j) * p <= B[k]
    <3> DEFINE x == i * more
               y == j * more
               u == i * p
               v == j * p
               xy == (i + j) * more
               uv == (i + j) * p
    <3>1. C[k - 1] = B[k - 1] + x /\ u <= B[k - 1] /\ x \in Int /\ u \in Int
      BY <2>2, <2>6
    <3>2. Bytes(c[k]) = Bytes(b[k]) + y /\ v <= Bytes(b[k]) /\ y \in Int /\ v \in Int
      BY <2>3, <2>6
    <3>3. xy = x + y /\ uv = u + v
      BY <2>6
    <3> HIDE DEF x, y, u, v, xy, uv
    <3> DEFINE b0 == B[k - 1]
               c0 == C[k - 1]
               b1 == Bytes(b[k])
               c1 == Bytes(c[k])
    <3>5. /\ b0 \in Nat /\ c0 \in Nat /\ b1 \in Nat /\ c1 \in Nat
          /\ c0 = b0 + x /\ u <= b0 /\ c1 = b1 + y /\ v <= b1
          /\ x \in Int /\ y \in Int /\ u \in Int /\ v \in Int
          /\ B[k] = b0 + b1 /\ C[k] = c0 + c1
      BY <2>4, <2>5, <3>1, <3>2
    <3> HIDE DEF b0, c0, b1, c1
    <3>4. C[k] = B[k] + xy /\ uv <= B[k]
      <4>1. c0 + c1 = (b0 + b1) + (x + y)
        BY <3>5
      <4>2. u + v <= b0 + b1
        BY <3>5
      <4> QED
        BY <3>3, <3>5, <4>1, <4>2
    <3> QED
      BY <3>4 DEF xy, uv
  <2> QED
    BY <2>1, <2>6, <2>7 DEF Replaces
<1> HIDE DEF P
<1>6. \A k \in 0..n : k \in P
  BY <1>1, <1>4, <1>5, UpTo
<1>7. n \in P
  BY <1>1, <1>6
<1> QED
  BY <1>2, <1>3, <1>7 DEF P

(* A selection of the tokens of a buffer. *)
Selects(p, b) ==
  Len(p) = Len(b) /\ \A k \in 1..Len(b) : p[k] = <<b[k]>> \/ p[k] = <<>>

(* A selection has no more tokens than the whole. *)
LEMMA SelectedFits ==
  ASSUME NEW S, NEW b \in Seq(S), NEW p \in Seq(Seq(S)), Selects(p, b)
  PROVE  FlattenSeq(p) \in Seq(S) /\ Len(FlattenSeq(p)) <= Len(b)
<1> DEFINE n == Len(b)
<1>1. n \in Nat /\ Len(p) = n /\ \A k \in 1..n : b[k] \in S /\ p[k] \in Seq(S)
  BY DEF Selects
<1>2. PICK g : IsFlat(g, p, S) /\ FlattenSeq(p) = g[n]
  BY <1>1, FlattenIs
<1>3. \A k \in 1..n : Len(p[k]) <= 1
  <2> TAKE k \in 1..n
  <2>1. p[k] = <<b[k]>> \/ p[k] = <<>>
    BY DEF Selects
  <2>2. ASSUME NEW s PROVE Len(<<s>>) <= 1 /\ Len(<<>>) <= 1
    OBVIOUS
  <2> QED
    BY <2>1, <2>2
<1> HIDE DEF n
<1>4. g \in [0..n -> Seq(S)] /\ g[0] = <<>> /\ \A k \in 1..n : g[k] = g[k - 1] \o p[k]
  BY <1>1, <1>2 DEF IsFlat
<1> DEFINE P == {k \in 0..n : Len(g[k]) <= k}
<1>5. 0 \in P
  BY <1>1, <1>4
<1>6. ASSUME NEW k \in 1..n, k - 1 \in P PROVE k \in P
  <2>1. k \in 0..n /\ k - 1 \in 0..n /\ Len(g[k - 1]) <= k - 1
    BY <1>1, <1>6
  <2>2. g[k - 1] \in Seq(S) /\ p[k] \in Seq(S) /\ g[k] = g[k - 1] \o p[k]
    BY <1>1, <1>4, <2>1
  <2>3. Len(g[k]) = Len(g[k - 1]) + Len(p[k]) /\ Len(g[k - 1]) \in Nat /\ Len(p[k]) \in Nat
    BY <2>2
  <2>4. Len(p[k]) <= 1 /\ k \in Int
    BY <1>3
  <2>5. Len(g[k]) <= k
    <3> DEFINE x == Len(g[k - 1])
               y == Len(p[k])
    <3>1. Len(g[k]) = x + y /\ x \in Nat /\ y \in Nat /\ x <= k - 1 /\ y <= 1 /\ k \in Int
      BY <2>1, <2>3, <2>4
    <3> HIDE DEF x, y
    <3> QED
      BY <3>1
  <2> QED
    BY <2>1, <2>5
<1> HIDE DEF P
<1>7. \A k \in 0..n : k \in P
  BY <1>1, <1>5, <1>6, UpTo
<1>8. n \in P
  BY <1>1, <1>7
<1> QED
  BY <1>1, <1>2, <1>4, <1>8 DEF P, n

LEMMA SelectedIsSmaller ==
  ASSUME NEW b \in Texts, NEW p \in Seq(Texts), Selects(p, b)
  PROVE  /\ FlattenSeq(p) \in Texts /\ Len(FlattenSeq(p)) <= Len(b)
         /\ BytesOf(FlattenSeq(p)) <= BytesOf(b)
<1> DEFINE n == Len(b)
<1>0. FlattenSeq(p) \in Texts /\ Len(FlattenSeq(p)) <= Len(b)
  BY SelectedFits DEF Texts
<1>1. n \in Nat /\ Len(p) = n /\ \A k \in 1..n : b[k] \in Text /\ p[k] \in Texts
  BY DEF Selects, Texts
<1>2. PICK g : IsFlat(g, p, Text) /\ FlattenSeq(p) = g[n]
  BY <1>1, FlattenIs DEF Texts
<1> DEFINE B == Totals(b)
<1>3. /\ B \in [0..n -> Nat] /\ B[0] = 0 /\ BytesOf(b) = B[n]
      /\ \A k \in 1..n : B[k] = B[k - 1] + Bytes(b[k])
  BY <1>1, TotalsAre DEF IsTotal
<1>4. g \in [0..n -> Texts] /\ g[0] = <<>> /\ \A k \in 1..n : g[k] = g[k - 1] \o p[k]
  BY <1>1, <1>2 DEF IsFlat, Texts
<1>5. \A k \in 1..n : BytesOf(p[k]) <= Bytes(b[k]) /\ BytesOf(p[k]) \in Nat /\ Bytes(b[k]) \in Nat
  <2> TAKE k \in 1..n
  <2>1. p[k] = <<b[k]>> \/ p[k] = <<>>
    BY DEF Selects
  <2>2. b[k] \in Text /\ Bytes(b[k]) \in Nat
    BY <1>1, BytesNat
  <2>3. BytesOf(<<b[k]>>) = Bytes(b[k])
    BY <2>2, BufferOne
  <2> QED
    BY <2>1, <2>2, <2>3, BufferEmpty
<1> HIDE DEF n, B
<1> DEFINE P == {k \in 0..n : BytesOf(g[k]) <= B[k]}
<1>6. 0 \in P
  BY <1>1, <1>3, <1>4, BufferEmpty
<1>7. ASSUME NEW k \in 1..n, k - 1 \in P PROVE k \in P
  <2>1. k \in 0..n /\ k - 1 \in 0..n /\ BytesOf(g[k - 1]) <= B[k - 1]
    BY <1>1, <1>7
  <2>2. g[k - 1] \in Texts /\ p[k] \in Texts /\ g[k] = g[k - 1] \o p[k]
    BY <1>1, <1>4, <2>1
  <2>3. BytesOf(g[k]) = BytesOf(g[k - 1]) + BytesOf(p[k]) /\ BytesOf(g[k - 1]) \in Nat
    BY <2>2, BufferConcat, TotalsAre
  <2>4. B[k] = B[k - 1] + Bytes(b[k]) /\ B[k - 1] \in Nat
    BY <1>3, <2>1
  <2>5. BytesOf(g[k]) <= B[k]
    BY <1>5, <2>1, <2>3, <2>4
  <2> QED
    BY <2>1, <2>5
<1> HIDE DEF P
<1>8. \A k \in 0..n : k \in P
  BY <1>1, <1>6, <1>7, UpTo
<1>9. n \in P
  BY <1>1, <1>8
<1> QED
  BY <1>0, <1>1, <1>2, <1>3, <1>9 DEF P, n

LEMMA SumsGrow ==
  ASSUME NEW t \in Text
  PROVE  \A m \in 0..Len(t) : \A k \in 0..m : Sums(t)[k] <= Sums(t)[m]
<1> DEFINE n == Len(t)
           S == Sums(t)
<1>1. n \in Nat /\ \A k \in 1..n : t[k] \in Symbol
  BY DEF Text
<1>2. S \in [0..n -> Nat] /\ \A k \in 1..n : S[k] = S[k - 1] + Width[t[k]]
  BY SumsAre DEF Text
<1> HIDE DEF n, S
<1> DEFINE P == {m \in 0..n : \A k \in 0..m : S[k] <= S[m]}
<1>3. 0 \in P
  BY <1>1, <1>2
<1>4. ASSUME NEW m \in 1..n, m - 1 \in P PROVE m \in P
  <2>1. m \in 0..n /\ m - 1 \in 0..n /\ \A k \in 0..(m - 1) : S[k] <= S[m - 1]
    BY <1>1, <1>4
  <2>2. S[m - 1] \in Nat /\ S[m] \in Nat /\ Width[t[m]] \in Nat /\ S[m] = S[m - 1] + Width[t[m]]
    BY <1>1, <1>2, <2>1, Widths
  <2>3. S[m - 1] <= S[m]
    BY <2>2
  <2>4. ASSUME NEW k \in 0..m PROVE S[k] <= S[m]
    <3>1. CASE k = m
      BY <2>2, <3>1
    <3>2. CASE k # m
      <4>1. k \in 0..(m - 1) /\ k \in 0..n
        BY <1>1, <3>2
      <4>2. S[k] \in Nat /\ S[k] <= S[m - 1]
        BY <1>2, <2>1, <4>1
      <4> QED
        BY <2>2, <2>3, <4>2
    <3> QED
      BY <3>1, <3>2
  <2> QED
    BY <2>1, <2>4
<1> HIDE DEF P
<1>5. \A m \in 0..n : m \in P
  BY <1>1, <1>3, <1>4, UpTo
<1> QED
  BY <1>5 DEF P, n, S

LEMMA EmptyPart ==
  ASSUME NEW S, NEW t \in Seq(S), NEW a \in Nat, NEW m \in Nat, a >= m, a <= Len(t)
  PROVE  SubSeq(t, a + 1, m) = <<>>
BY DEF SubSeq

(* A part of a text is no longer than the text. *)
LEMMA PartIsSmaller ==
  ASSUME NEW t \in Text, NEW a \in 0..Len(t), NEW m \in 0..Len(t)
  PROVE  SubSeq(t, a + 1, m) \in Text /\ Bytes(SubSeq(t, a + 1, m)) <= Bytes(t)
<1> DEFINE n == Len(t)
           S == Sums(t)
           u == SubSeq(t, a + 1, m)
           T == Sums(u)
<1>0. t \in Seq(Symbol) /\ n \in Nat
  BY DEF Text
<1>1. CASE a >= m
  <2>1. u = <<>>
    <3>1. a \in Nat /\ m \in Nat /\ a >= m /\ a <= Len(t)
      BY <1>0, <1>1
    <3> HIDE DEF n
    <3> QED
      BY <1>0, <3>1, EmptyPart
  <2> HIDE DEF u, T
  <2>2. u \in Text /\ Bytes(u) <= Bytes(t)
    BY <2>1, BytesEmpty, BytesNat
  <2> QED
    BY <2>2 DEF u
<1>2. CASE a < m
  <2>1. /\ u \in Seq(Symbol) /\ Len(u) = m - a /\ m - a \in Nat
        /\ \A k \in 1..(m - a) : u[k] = t[a + k]
    BY <1>0, <1>2
  <2>2. /\ S \in [0..n -> Nat] /\ Bytes(t) = S[n]
        /\ \A k \in 1..n : S[k] = S[k - 1] + Width[t[k]]
    BY <1>0, SumsAre
  <2>3. /\ T \in [0..(m - a) -> Nat] /\ T[0] = 0 /\ Bytes(u) = T[m - a]
        /\ \A k \in 1..(m - a) : T[k] = T[k - 1] + Width[u[k]]
    BY <2>1, SumsAre
  <2>4. \A k \in 1..n : t[k] \in Symbol
    BY <1>0
  <2> HIDE DEF u, n, S, T
  <2> DEFINE P == {k \in 0..(m - a) : T[k] + S[a] = S[a + k]}
  <2>5. a \in 0..n /\ m \in 0..n /\ S[a] \in Nat /\ S[m] \in Nat /\ S[n] \in Nat
    BY <1>0, <2>2 DEF n
  <2>6. 0 \in P
    BY <2>1, <2>3, <2>5
  <2>7. ASSUME NEW k \in 1..(m - a), k - 1 \in P PROVE k \in P
    <3>1. k \in 0..(m - a) /\ T[k - 1] + S[a] = S[a + (k - 1)]
      BY <2>1, <2>7
    <3>2. a + k \in 1..n /\ (a + k) - 1 = a + (k - 1) /\ k - 1 \in 0..(m - a) /\ a + (k - 1) \in 0..n
      BY <1>0, <2>5
    <3>3. S[a + k] = S[a + (k - 1)] + Width[t[a + k]] /\ Width[t[a + k]] \in Nat
      BY <2>2, <2>4, <3>2, Widths
    <3>4. T[k] = T[k - 1] + Width[t[a + k]] /\ T[k - 1] \in Nat
      BY <2>1, <2>3, <3>2
    <3>5. T[k] + S[a] = S[a + k]
      BY <2>5, <3>1, <3>3, <3>4
    <3> QED
      BY <3>1, <3>5
  <2> HIDE DEF P
  <2>8. \A k \in 0..(m - a) : k \in P
    BY <2>1, <2>6, <2>7, UpTo
  <2>9. T[m - a] + S[a] = S[m]
    <3>1. m - a \in P /\ a + (m - a) = m
      BY <2>1, <2>5, <2>8
    <3> QED
      BY <3>1 DEF P
  <2>10. S[m] <= S[n]
    BY <1>0, <2>5, SumsGrow DEF n, S
  <2>11. T[m - a] \in Nat
    BY <2>1, <2>3
  <2>12. Bytes(u) <= Bytes(t)
    BY <2>2, <2>3, <2>5, <2>9, <2>10, <2>11
  <2> QED
    BY <2>1, <2>12 DEF u, Text
<1> QED
  BY <1>0, <1>1, <1>2 DEF n

(* What Strip takes from an end: there is a longest run that is allowed. *)
LEMMA LongestRun ==
  ASSUME NEW n \in Nat, NEW limit \in Nat, NEW Hit \in SUBSET (1..n)
  PROVE  \E k \in 0..n : k <= limit /\ (\A i \in 1..k : i \in Hit)
                         /\ (k = limit \/ k = n \/ k + 1 \notin Hit)
<1> DEFINE Run(k) == k <= limit /\ \A i \in 1..k : i \in Hit
           P == {k \in 0..n : Run(k)}
<1> SUFFICES ASSUME \A k \in 0..n : Run(k) => k # limit /\ k # n /\ k + 1 \in Hit
             PROVE  FALSE
  OBVIOUS
<1>1. 0 \in P
  OBVIOUS
<1>2. ASSUME NEW k \in 1..n, k - 1 \in P PROVE k \in P
  <2>1. k - 1 \in 0..n /\ Run(k - 1)
    BY <1>2
  <2>2. k - 1 # limit /\ (k - 1) + 1 \in Hit /\ k - 1 \in Int
    BY <2>1
  <2>3. k \in Hit /\ k <= limit /\ k \in 0..n
    BY <2>1, <2>2
  <2>4. \A i \in 1..k : i \in Hit
    <3> TAKE i \in 1..k
    <3>1. i = k \/ i \in 1..(k - 1)
      OBVIOUS
    <3> QED
      BY <2>1, <2>3, <3>1
  <2> QED
    BY <2>3, <2>4
<1>3. n \in P
  <2> HIDE DEF P
  <2>1. \A k \in 0..n : k \in P
    BY <1>1, <1>2, UpTo
  <2> QED
    BY <2>1
<1>4. n \in 0..n /\ Run(n)
  BY <1>3
<1> QED
  BY <1>4

(* apply_strip writes no more than it is given. *)
LEMMA StrippedIsSmaller ==
  ASSUME NEW t \in Text, NEW c, NEW start \in Nat, NEW stop \in Nat
  PROVE  Stripped(t, c, start, stop) \in Text /\ Bytes(Stripped(t, c, start, stop)) <= Bytes(t)
<1> DEFINE n == Len(t)
           AtFront(k) == /\ k <= start /\ \A i \in 1..k : t[i] = c
                         /\ k = start \/ k = n \/ t[k + 1] # c
           AtBack(k) == /\ k <= stop /\ \A i \in 1..k : t[n + 1 - i] = c
                        /\ k = stop \/ k = n \/ t[n - k] # c
           from == CHOOSE k \in 0..n : AtFront(k)
           to == CHOOSE k \in 0..n : AtBack(k)
<1>0. n \in Nat
  BY DEF Text
<1>1. \E k \in 0..n : AtFront(k)
  <2> DEFINE Hit == {i \in 1..n : t[i] = c}
  <2>1. PICK k \in 0..n : k <= start /\ (\A i \in 1..k : i \in Hit)
                          /\ (k = start \/ k = n \/ k + 1 \notin Hit)
    <3>1. Hit \in SUBSET (1..n)
      OBVIOUS
    <3> HIDE DEF Hit, n
    <3> QED
      BY <1>0, <3>1, LongestRun
  <2>2. k # n => k + 1 \in 1..n
    BY <1>0
  <2>3. AtFront(k)
    <3> HIDE DEF n
    <3> QED
      BY <2>1, <2>2
  <2> QED
    BY <2>3
<1>2. \E k \in 0..n : AtBack(k)
  <2> DEFINE Hit == {i \in 1..n : t[n + 1 - i] = c}
  <2>1. PICK k \in 0..n : k <= stop /\ (\A i \in 1..k : i \in Hit)
                          /\ (k = stop \/ k = n \/ k + 1 \notin Hit)
    <3>1. Hit \in SUBSET (1..n)
      OBVIOUS
    <3> HIDE DEF Hit, n
    <3> QED
      BY <1>0, <3>1, LongestRun
  <2>2. (k # n => k + 1 \in 1..n) /\ n + 1 - (k + 1) = n - k
    BY <1>0
  <2>3. AtBack(k)
    <3> HIDE DEF n
    <3> QED
      BY <2>1, <2>2
  <2> QED
    BY <2>3
<1>3. from \in 0..n /\ to \in 0..n
  <2> HIDE DEF AtFront, AtBack, n
  <2> QED
    BY <1>1, <1>2
<1>4. Stripped(t, c, start, stop) = SubSeq(t, from + 1, n - to)
  BY DEF Stripped
<1> HIDE DEF from, to
<1>5. n - to \in 0..n
  BY <1>0, <1>3
<1> QED
  BY <1>3, <1>4, <1>5, PartIsSmaller

------------------------------------------------------------------------------
(* The changes a stage makes to one token. *)
(* The texts of a function over the positions of a text. *)
LEMMA PiecesAre ==
  ASSUME NEW t \in Text, NEW c, c = [i \in DOMAIN t |-> c[i]], \A i \in 1..Len(t) : c[i] \in Text
  PROVE  c \in Texts /\ Len(c) = Len(t) /\ FlattenSeq(c) \in Text
         /\ Bytes(FlattenSeq(c)) = BytesOf(c)
<1>1. DOMAIN t = 1..Len(t) /\ Len(t) \in Nat
  BY DEF Text
<1>2. c \in Texts /\ Len(c) = Len(t)
  BY <1>1 DEF Texts
<1> QED
  BY <1>2, TotalsAre DEF BytesOf

LEMMA Widening ==
  ASSUME NEW b \in Nat, NEW n \in Nat, n <= b, NEW w \in Nat
  PROVE  b * 1 + n * w <= b * (1 + w) /\ b * (1 + w) = b + b * w /\ b * w \in Nat
<1>1. b * (1 + w) = b + b * w /\ b * 1 = b
  OBVIOUS
<1>2. n * w <= b * w /\ n * w \in Nat /\ b * w \in Nat
  BY MulMono
<1> QED
  BY <1>1, <1>2

(* A pattern without text is found before, between and after the symbols. *)
LEMMA ReplacedBetween ==
  ASSUME NEW t \in Text, NEW content \in Text
  PROVE  /\ Replaced(t, <<>>, content) \in Text
         /\ Bytes(Replaced(t, <<>>, content)) <= Bytes(t) * (1 + Bytes(content)) + Bytes(content)
<1> DEFINE w == Bytes(content)
           c == [i \in DOMAIN t |-> <<t[i]>> \o content]
<1>1. w \in Nat /\ Len(t) \in Nat /\ Bytes(t) \in Nat /\ Len(t) <= Bytes(t)
  BY BytesNat
<1>2. \A i \in 1..Len(t) : /\ c[i] \in Text
                           /\ Bytes(c[i]) <= Bytes(Singles(t)[i]) * 1 + w
  <2> TAKE i \in 1..Len(t)
  <2>1. t[i] \in Symbol /\ Bytes(Singles(t)[i]) = Width[t[i]] /\ Width[t[i]] \in Nat
    BY SinglesAre, Widths
  <2>2. <<t[i]>> \in Text /\ Bytes(<<t[i]>>) = Width[t[i]]
    BY <2>1, BytesOne
  <2>3. <<t[i]>> \o content \in Text /\ Bytes(<<t[i]>> \o content) = Width[t[i]] + w
    BY <2>2, BytesConcat
  <2>4. c[i] = <<t[i]>> \o content
    BY DEF Text
  <2> QED
    BY <1>1, <2>1, <2>3, <2>4
<1>3. c = [i \in DOMAIN t |-> c[i]]
  OBVIOUS
<1>4. Replaced(t, <<>>, content) = content \o FlattenSeq(c)
  BY DEF Replaced
<1> HIDE DEF c, w
<1>5. c \in Texts /\ Len(c) = Len(t) /\ FlattenSeq(c) \in Text /\ Bytes(FlattenSeq(c)) = BytesOf(c)
  BY <1>2, <1>3, PiecesAre
<1>6. BytesOf(c) <= Bytes(t) * 1 + Len(t) * w
  BY <1>1, <1>2, <1>5, SinglesAre, GrowsBy
<1>7. Bytes(content \o FlattenSeq(c)) = w + BytesOf(c) /\ content \o FlattenSeq(c) \in Text
  BY <1>5, BytesConcat DEF w
<1>8. Bytes(t) * 1 + Len(t) * w <= Bytes(t) * (1 + w)
  BY <1>1, Widening
<1>9. BytesOf(c) \in Nat /\ Bytes(t) * 1 + Len(t) * w \in Nat /\ Bytes(t) * (1 + w) \in Nat
  BY <1>1, <1>5, TotalsAre
<1>10. w + BytesOf(c) <= Bytes(t) * (1 + w) + w
  BY <1>1, <1>6, <1>8, <1>9
<1> QED
  BY <1>4, <1>7, <1>10 DEF w

(* A pattern of one symbol is found so often that its bytes are within the text. *)
LEMMA ReplacedSymbol ==
  ASSUME NEW t \in Text, NEW x \in Symbol, NEW content \in Text
  PROVE  /\ Replaced(t, <<x>>, content) \in Text
         /\ Replaces(Bytes(t), Bytes(Replaced(t, <<x>>, content)), Bytes(<<x>>),
                     Bytes(content) - Bytes(<<x>>))
<1> DEFINE w == Bytes(content)
           p == Bytes(<<x>>)
           c == [i \in DOMAIN t |-> IF <<t[i]>> = <<x>> THEN content ELSE <<t[i]>>]
<1>1. w \in Nat /\ p = Width[x] /\ p \in Nat
  BY BytesNat, BytesOne, Widths
<1>2. \A i \in 1..Len(t) : /\ c[i] \in Text
                           /\ Replaces(Bytes(Singles(t)[i]), Bytes(c[i]), p, w - p)
  <2> TAKE i \in 1..Len(t)
  <2>1. t[i] \in Symbol /\ Bytes(Singles(t)[i]) = Width[t[i]] /\ Width[t[i]] \in Nat
    BY SinglesAre, Widths
  <2>2. <<t[i]>> \in Text /\ Bytes(<<t[i]>>) = Width[t[i]]
    BY <2>1, BytesOne
  <2>3. c[i] = IF t[i] = x THEN content ELSE <<t[i]>>
    BY DEF Text
  <2>4. CASE t[i] = x
    <3>1. Bytes(c[i]) = Bytes(Singles(t)[i]) + 1 * (w - p) /\ 1 * p <= Bytes(Singles(t)[i])
      <4>1. Bytes(c[i]) = w /\ Bytes(Singles(t)[i]) = p
        BY <1>1, <2>1, <2>3, <2>4
      <4> HIDE DEF c, w, p
      <4> QED
        BY <1>1, <4>1
    <3> HIDE DEF c, w, p
    <3> QED
      BY <2>3, <2>4, <3>1 DEF Replaces, c
  <2>5. CASE t[i] # x
    <3>1. Bytes(c[i]) = Bytes(Singles(t)[i]) + 0 * (w - p) /\ 0 * p <= Bytes(Singles(t)[i])
      <4>1. Bytes(c[i]) = Bytes(Singles(t)[i])
        BY <2>1, <2>2, <2>3, <2>5
      <4> HIDE DEF c, w, p
      <4> QED
        BY <1>1, <2>1, <4>1
    <3>2. c[i] \in Text
      BY <2>2, <2>3, <2>5
    <3> HIDE DEF c, w, p
    <3> QED
      BY <3>1, <3>2 DEF Replaces
  <2> QED
    BY <2>4, <2>5
<1>3. c = [i \in DOMAIN t |-> c[i]]
  OBVIOUS
<1>4. Replaced(t, <<x>>, content) = FlattenSeq(c)
  <2>1. <<x>> # <<>>
    OBVIOUS
  <2> QED
    BY <2>1 DEF Replaced
<1> HIDE DEF c, w, p
<1>5. c \in Texts /\ Len(c) = Len(t) /\ FlattenSeq(c) \in Text /\ Bytes(FlattenSeq(c)) = BytesOf(c)
  BY <1>2, <1>3, PiecesAre
<1>6. Replaces(Bytes(t), BytesOf(c), p, w - p)
  <2>1. w - p \in Int
    BY <1>1
  <2> QED
    BY <1>1, <1>2, <1>5, <2>1, SinglesAre, ReplacesInEach
<1> QED
  BY <1>4, <1>5, <1>6 DEF w, p

(* Continuation, Spaced and TokenBytes. *)
LEMMA ContinuationIs ==
  ASSUME NEW t \in Text, NEW prefix \in Text
  PROVE  Continuation(t, prefix) \in Text /\ Bytes(Continuation(t, prefix)) <= Bytes(t) + 1
<1>0. Bytes(t) \in Nat /\ Len(t) \in Nat /\ Len(prefix) \in Nat
  BY BytesNat
<1>1. CASE IsPrefix(prefix, t)
  <2>1. Len(prefix) \in 0..Len(t) /\ Len(t) \in 0..Len(t)
    BY <1>0, <1>1 DEF IsPrefix
  <2>2. /\ SubSeq(t, Len(prefix) + 1, Len(t)) \in Text
        /\ Bytes(SubSeq(t, Len(prefix) + 1, Len(t))) <= Bytes(t)
    BY <2>1, PartIsSmaller
  <2>3. Bytes(SubSeq(t, Len(prefix) + 1, Len(t))) \in Nat
    BY <2>2, BytesNat
  <2>4. Continuation(t, prefix) = SubSeq(t, Len(prefix) + 1, Len(t))
    BY <1>1 DEF Continuation
  <2> QED
    BY <1>0, <2>2, <2>3, <2>4
<1>2. CASE ~IsPrefix(prefix, t)
  <2>1. "space" \in Symbol /\ Width["space"] = 1
    BY DEF Symbol, Width
  <2>2. <<"space">> \in Text /\ Bytes(<<"space">>) = 1
    BY <2>1, BytesOne
  <2>3. <<"space">> \o t \in Text /\ Bytes(<<"space">> \o t) = 1 + Bytes(t)
    BY <2>2, BytesConcat
  <2>4. Continuation(t, prefix) = <<"space">> \o t
    BY <1>2 DEF Continuation
  <2> QED
    BY <1>0, <2>3, <2>4
<1> QED
  BY <1>1, <1>2

LEMMA SpacedIs ==
  ASSUME NEW t \in Text, NEW keep
  PROVE  Spaced(t, keep) \in Text /\ Bytes(Spaced(t, keep)) <= Bytes(t)
<1> DEFINE c == [i \in DOMAIN t |-> IF t[i] # "mark" THEN <<t[i]>>
                                   ELSE IF keep THEN <<"space">> ELSE <<>>]
<1>1. \A i \in 1..Len(t) : c[i] \in Text /\ Bytes(c[i]) <= Bytes(Singles(t)[i])
  <2> TAKE i \in 1..Len(t)
  <2>1. t[i] \in Symbol /\ Bytes(Singles(t)[i]) = Width[t[i]] /\ Width[t[i]] \in Nat
        /\ 1 <= Width[t[i]]
    BY SinglesAre, Widths
  <2>2. <<t[i]>> \in Text /\ Bytes(<<t[i]>>) = Width[t[i]]
    BY <2>1, BytesOne
  <2>3. "space" \in Symbol /\ Width["space"] = 1
    BY DEF Symbol, Width
  <2>4. <<"space">> \in Text /\ Bytes(<<"space">>) = 1
    BY <2>3, BytesOne
  <2>5. i \in DOMAIN t
    BY DEF Text
  <2>6. c[i] = <<t[i]>> \/ c[i] = <<"space">> \/ c[i] = <<>>
    BY <2>5
  <2> HIDE DEF c
  <2> QED
    BY <2>1, <2>2, <2>4, <2>6, BytesEmpty
<1>2. c = [i \in DOMAIN t |-> c[i]]
  OBVIOUS
<1>3. Spaced(t, keep) = FlattenSeq(c)
  BY DEF Spaced
<1> HIDE DEF c
<1>4. c \in Texts /\ Len(c) = Len(t) /\ FlattenSeq(c) \in Text /\ Bytes(FlattenSeq(c)) = BytesOf(c)
  BY <1>1, <1>2, PiecesAre
<1>5. BytesOf(c) <= Bytes(t)
  BY <1>1, <1>4, SinglesAre, NoLonger
<1> QED
  BY <1>3, <1>4, <1>5

LEMMA TokenBytesAre ==
  ASSUME NEW t \in Text
  PROVE  TokenBytes(t) \in Text /\ Bytes(TokenBytes(t)) <= Bytes(t)
<1> DEFINE u == [i \in DOMAIN t |-> ByteAlphabet[t[i]]]
<1>1. CASE \A i \in DOMAIN t : t[i] \in DOMAIN ByteAlphabet
  <2>1. t \in Seq(Symbol) /\ DOMAIN t = 1..Len(t) /\ Len(t) \in Nat
    BY DEF Text
  <2>2. \A s \in DOMAIN ByteAlphabet :
          /\ s \in Symbol /\ ByteAlphabet[s] \in Symbol
          /\ Width[ByteAlphabet[s]] <= Width[s]
    BY DEF ByteAlphabet, Symbol, Width
  <2>3. u \in Text /\ Len(u) = Len(t)
    BY <1>1, <2>1, <2>2 DEF Text
  <2>4. \A i \in 1..Len(t) : u[i] = ByteAlphabet[t[i]]
    BY <2>1
  <2>5. TokenBytes(t) = u
    BY <1>1 DEF TokenBytes
  <2> HIDE DEF u
  <2>6. \A i \in 1..Len(t) : Bytes(Singles(u)[i]) <= Bytes(Singles(t)[i])
    <3> TAKE i \in 1..Len(t)
    <3>1. Bytes(Singles(u)[i]) = Width[ByteAlphabet[t[i]]]
      BY <2>3, <2>4, SinglesAre
    <3>2. Bytes(Singles(t)[i]) = Width[t[i]]
      BY SinglesAre
    <3>3. t[i] \in DOMAIN ByteAlphabet
      BY <1>1, <2>1
    <3> QED
      BY <2>2, <3>1, <3>2, <3>3
  <2>7. BytesOf(Singles(u)) <= BytesOf(Singles(t))
    BY <2>3, <2>6, SinglesAre, NoLonger
  <2> QED
    BY <2>3, <2>5, <2>7, SinglesAre
<1>2. CASE ~\A i \in DOMAIN t : t[i] \in DOMAIN ByteAlphabet
  <2>1. TokenBytes(t) = t
    BY <1>2 DEF TokenBytes
  <2>2. Bytes(t) \in Nat
    BY BytesNat
  <2> QED
    BY <2>1, <2>2
<1> QED
  BY <1>1, <1>2

------------------------------------------------------------------------------
(* ByteLevel: lossy UTF-8. *)
LEMMA StaysIn ==
  ASSUME NEW n \in Nat, NEW D, NEW r, r = [k \in 0..n |-> r[k]], r[0] \in D,
         \A k \in 1..n : r[k - 1] \in D => r[k] \in D
  PROVE  r \in [0..n -> D]
<1> DEFINE P == {k \in 0..n : r[k] \in D}
<1>1. 0 \in P
  OBVIOUS
<1>2. ASSUME NEW k \in 1..n, k - 1 \in P PROVE k \in P
  BY <1>2
<1> HIDE DEF P
<1>3. \A k \in 0..n : k \in P
  BY <1>1, <1>2, UpTo
<1> QED
  BY <1>3 DEF P

------------------------------------------------------------------------------
Scanned == [text : Text, open : BOOLEAN]
Scan(raw) == Passes(NextByte, NoBytes, raw)

LEMMA NextByteIs ==
  ASSUME NEW acc \in Scanned, NEW y \in Symbol
  PROVE  NextByte(acc, y) \in Scanned
<1>1. acc.text \in Text /\ acc.open \in BOOLEAN
  BY DEF Scanned
<1>2. "R" \in Symbol /\ "Oe" \in Symbol
  BY DEF Symbol, Width
<1>3. \A s \in Symbol, t \in Text : Append(t, s) \in Text
  BY DEF Text
<1>4. Stray(acc) \in Scanned
  BY <1>1, <1>2, <1>3 DEF Stray, Scanned
<1>5. /\ NextByte(acc, y).text = CASE y = "lead" -> Stray(acc).text
                                   [] y = "cont" -> Append(acc.text, IF acc.open THEN "Oe" ELSE "R")
                                   [] OTHER -> Append(Stray(acc).text, y)
      /\ NextByte(acc, y).open \in BOOLEAN
      /\ NextByte(acc, y) = [text |-> NextByte(acc, y).text, open |-> NextByte(acc, y).open]
  BY <1>1, <1>4 DEF NextByte, Scanned
<1>6. NextByte(acc, y).text \in Text
  BY <1>1, <1>2, <1>3, <1>4, <1>5 DEF Scanned
<1> QED
  BY <1>5, <1>6 DEF Scanned

(* The scan of write_lossy_utf8, byte by byte. *)
LEMMA ScanIs ==
  ASSUME NEW raw \in Text
  PROVE  /\ Scan(raw) \in [0..Len(raw) -> Scanned] /\ Scan(raw)[0] = NoBytes
         /\ \A k \in 1..Len(raw) : Scan(raw)[k] = NextByte(Scan(raw)[k - 1], raw[k])
         /\ Lossy(raw) = Stray(Scan(raw)[Len(raw)]).text
<1> DEFINE n == Len(raw)
           F == [k \in 1..n |-> [x \in Scanned |-> NextByte(x, raw[k])]]
           Is(f) == f = [k \in 0..n |-> IF k = 0 THEN NoBytes ELSE NextByte(f[k - 1], raw[k])]
<1>1. n \in Nat /\ \A k \in 1..n : raw[k] \in Symbol
  BY DEF Text
<1>2. NoBytes \in Scanned /\ AreSteps(F, Scanned, n)
  <2>1. \A k \in 1..n : \A x \in Scanned : NextByte(x, raw[k]) \in Scanned
    BY <1>1, NextByteIs
  <2> QED
    BY <2>1, BytesEmpty DEF AreSteps, NoBytes, Scanned
<1> HIDE DEF n
<1>3. PICK g : AreTaken(g, F, Scanned, NoBytes, n)
  <2> HIDE DEF F
  <2> QED
    BY <1>1, <1>2, StepsExist
<1>4. Is(g)
  <2>1. /\ g \in [0..n -> Scanned] /\ g[0] = NoBytes /\ \A k \in 1..n : g[k] = F[k][g[k - 1]]
    BY <1>3 DEF AreTaken
  <2>2. ASSUME NEW k \in 1..n PROVE g[k] = NextByte(g[k - 1], raw[k])
    <3>1. g[k - 1] \in Scanned
      BY <1>1, <2>1
    <3> QED
      BY <2>1, <3>1
  <2> QED
    BY <1>1, <2>1, <2>2
<1> DEFINE r == Scan(raw)
<1>5. r = CHOOSE f : Is(f)
  BY DEF Scan, Passes, n
<1> HIDE DEF r
<1>6. Is(r)
  <2> HIDE DEF Is
  <2> QED
    BY <1>4, <1>5
<1>7. r = [k \in 0..n |-> r[k]] /\ r[0] = NoBytes /\ \A k \in 1..n : r[k] = NextByte(r[k - 1], raw[k])
  BY <1>1, <1>6
<1>8. r \in [0..n -> Scanned]
  <2>1. \A k \in 1..n : r[k - 1] \in Scanned => r[k] \in Scanned
    BY <1>1, <1>7, NextByteIs
  <2> QED
    BY <1>1, <1>2, <1>7, <2>1, StaysIn
<1> QED
  BY <1>7, <1>8 DEF r, n, Lossy, Pass, Scan

(* Each byte of input is worth three of output: a lead that turns out stray *)
(* owes the replacement character. *)
Owed(acc) == Bytes(acc.text) + (IF acc.open THEN 3 ELSE 0)

LEMMA NextByteOwes ==
  ASSUME NEW acc \in Scanned, NEW y \in Symbol
  PROVE  Owed(acc) \in Nat /\ Owed(NextByte(acc, y)) <= Owed(acc) + 3 * Width[y]
<1>1. acc.text \in Text /\ acc.open \in BOOLEAN
  BY DEF Scanned
<1>2. /\ "R" \in Symbol /\ "Oe" \in Symbol /\ Width["R"] = 3 /\ Width["Oe"] = 2
      /\ Width["lead"] = 1 /\ Width["cont"] = 1
  BY DEF Symbol, Width
<1>3. ASSUME NEW s \in Symbol, NEW t \in Text
      PROVE  Append(t, s) \in Text /\ Bytes(Append(t, s)) = Bytes(t) + Width[s] /\ Bytes(t) \in Nat
  <2>1. Append(t, s) = t \o <<s>>
    BY DEF Text
  <2> QED
    BY <2>1, BytesOne, BytesConcat, BytesNat
<1>4. /\ Stray(acc).text = IF acc.open THEN Append(acc.text, "R") ELSE acc.text
      /\ Stray(acc).open = FALSE /\ Stray(acc) \in Scanned
  BY <1>1, <1>2, <1>3 DEF Stray, Scanned
<1>5. Stray(acc).text \in Text /\ Bytes(Stray(acc).text) = Owed(acc) /\ Owed(acc) \in Nat
  BY <1>1, <1>2, <1>3, <1>4 DEF Owed
<1>6. CASE y = "lead"
  <2>1. NextByte(acc, y).text = Stray(acc).text /\ NextByte(acc, y).open = TRUE
    BY <1>4, <1>6 DEF NextByte, Scanned
  <2> QED
    BY <1>2, <1>5, <1>6, <2>1 DEF Owed
<1>7. CASE y = "cont"
  <2>1. /\ NextByte(acc, y).text = Append(acc.text, IF acc.open THEN "Oe" ELSE "R")
        /\ NextByte(acc, y).open = FALSE
    BY <1>1, <1>7 DEF NextByte, Scanned
  <2>2. /\ Bytes(Append(acc.text, "Oe")) = Bytes(acc.text) + 2
        /\ Bytes(Append(acc.text, "R")) = Bytes(acc.text) + 3 /\ Bytes(acc.text) \in Nat
    BY <1>1, <1>2, <1>3
  <2>3. Bytes(NextByte(acc, y).text) = Bytes(acc.text) + (IF acc.open THEN 2 ELSE 3)
    <3>1. CASE acc.open
      BY <2>1, <2>2, <3>1
    <3>2. CASE ~acc.open
      BY <2>1, <2>2, <3>2
    <3> QED
      BY <3>1, <3>2
  <2>4. Owed(NextByte(acc, y)) = Bytes(NextByte(acc, y).text)
    <3>1. Bytes(NextByte(acc, y).text) \in Nat
      BY <2>2, <2>3
    <3> QED
      BY <2>1, <3>1 DEF Owed
  <2>5. Owed(NextByte(acc, y)) <= Owed(acc) + 3
    <3>1. Owed(acc) = Bytes(acc.text) + (IF acc.open THEN 3 ELSE 0)
      BY DEF Owed
    <3> QED
      BY <2>2, <2>3, <2>4, <3>1
  <2> QED
    BY <1>2, <1>5, <1>7, <2>5
<1>8. CASE y # "lead" /\ y # "cont"
  <2>1. NextByte(acc, y).text = Append(Stray(acc).text, y) /\ NextByte(acc, y).open = FALSE
    BY <1>4, <1>8 DEF NextByte, Scanned
  <2>2. Width[y] \in Nat
    BY Widths
  <2>3. Bytes(NextByte(acc, y).text) = Owed(acc) + Width[y]
    BY <1>3, <1>5, <2>1
  <2> QED
    BY <1>5, <2>1, <2>2, <2>3 DEF Owed
<1> QED
  BY <1>5, <1>6, <1>7, <1>8

(* Lossy text is at most three times as long as its bytes. *)
LEMMA LossyIs ==
  ASSUME NEW raw \in Text
  PROVE  Lossy(raw) \in Text /\ Bytes(Lossy(raw)) <= 3 * Bytes(raw)
<1> DEFINE n == Len(raw)
           S == Sums(raw)
           R == Scan(raw)
<1>1. n \in Nat /\ \A k \in 1..n : raw[k] \in Symbol
  BY DEF Text
<1>2. /\ S \in [0..n -> Nat] /\ S[0] = 0 /\ Bytes(raw) = S[n]
      /\ \A k \in 1..n : S[k] = S[k - 1] + Width[raw[k]]
  BY SumsAre DEF Text
<1>3. /\ R \in [0..n -> Scanned] /\ R[0] = NoBytes
      /\ \A k \in 1..n : R[k] = NextByte(R[k - 1], raw[k])
      /\ Lossy(raw) = Stray(R[n]).text
  BY ScanIs
<1> HIDE DEF n, S, R
<1> DEFINE P == {k \in 0..n : Owed(R[k]) <= 3 * S[k]}
<1>4. 0 \in P
  BY <1>1, <1>2, <1>3, BytesEmpty DEF Owed, NoBytes
<1>5. ASSUME NEW k \in 1..n, k - 1 \in P PROVE k \in P
  <2>1. k \in 0..n /\ k - 1 \in 0..n /\ Owed(R[k - 1]) <= 3 * S[k - 1] /\ raw[k] \in Symbol
    BY <1>1, <1>5
  <2>2. R[k - 1] \in Scanned /\ R[k] \in Scanned /\ R[k] = NextByte(R[k - 1], raw[k])
    BY <1>3, <2>1
  <2>3. /\ Owed(R[k - 1]) \in Nat /\ Owed(R[k]) \in Nat
        /\ Owed(R[k]) <= Owed(R[k - 1]) + 3 * Width[raw[k]]
    BY <2>1, <2>2, NextByteOwes
  <2>4. S[k] = S[k - 1] + Width[raw[k]] /\ S[k - 1] \in Nat /\ Width[raw[k]] \in Nat
    BY <1>2, <2>1, Widths
  <2>5. Owed(R[k]) <= 3 * S[k]
    BY <2>1, <2>3, <2>4
  <2> QED
    BY <2>1, <2>5
<1> HIDE DEF P
<1>6. \A k \in 0..n : k \in P
  BY <1>1, <1>4, <1>5, UpTo
<1>7. n \in P /\ R[n] \in Scanned
  BY <1>1, <1>3, <1>6
<1>8. R[n].text \in Text /\ R[n].open \in BOOLEAN
  BY <1>7 DEF Scanned
<1>9. "R" \in Symbol /\ Width["R"] = 3
  BY DEF Symbol, Width
<1>10. /\ Append(R[n].text, "R") \in Text
       /\ Bytes(Append(R[n].text, "R")) = Bytes(R[n].text) + 3
  <2>1. Append(R[n].text, "R") = R[n].text \o <<"R">>
    BY <1>8 DEF Text
  <2>2. <<"R">> \in Text /\ Bytes(<<"R">>) = 3
    BY <1>9, BytesOne
  <2>3. R[n].text \o <<"R">> \in Text /\ Bytes(R[n].text \o <<"R">>) = Bytes(R[n].text) + 3
    BY <1>8, <2>2, BytesConcat
  <2> QED
    BY <2>1, <2>3
<1>11. Stray(R[n]).text \in Text /\ Bytes(Stray(R[n]).text) = Owed(R[n])
  <2>1. Bytes(R[n].text) \in Nat
    BY <1>8, BytesNat
  <2> QED
    BY <1>8, <1>10, <2>1 DEF Stray, Owed
<1> QED
  BY <1>2, <1>3, <1>7, <1>11 DEF P

------------------------------------------------------------------------------
(* ByteFallback. *)
Held == Seq({"lead", "cont"})
Folded == [out : Texts, held : Held, raw : Nat]
Fold(buffer) == Passes(NextFallback, NoTokens, buffer)

LEMMA HeldIs ==
  ASSUME NEW h \in Held
  PROVE  h \in Text /\ Bytes(h) <= Len(h) /\ Bytes(h) \in Nat /\ Len(h) \in Nat
<1>1. Width["lead"] = 1 /\ Width["cont"] = 1 /\ "lead" \in Symbol /\ "cont" \in Symbol
  BY DEF Width, Symbol
<1>2. h \in Text
  BY <1>1 DEF Held, Text
<1>3. \A i \in 1..Len(h) : h[i] \in {"lead", "cont"}
  BY DEF Held
<1> DEFINE c == Singles(h)
<1>4. c \in Texts /\ Len(c) = Len(h) /\ BytesOf(c) = Bytes(h)
      /\ \A i \in 1..Len(h) : Bytes(c[i]) = Width[h[i]]
  BY <1>2, SinglesAre
<1> HIDE DEF c
<1>5. Bytes(h) \in Nat /\ Len(h) \in Nat
  BY <1>2, BytesNat
<1>6. \A i \in 1..Len(c) : Bytes(c[i]) <= Bytes(c[i]) * 0 + 1
  <2> TAKE i \in 1..Len(c)
  <2>1. Bytes(c[i]) = 1
    BY <1>1, <1>3, <1>4
  <2> QED
    BY <2>1
<1>7. BytesOf(c) <= BytesOf(c) * 0 + Len(c) * 1
  BY <1>4, <1>6, GrowsBy
<1> QED
  BY <1>2, <1>4, <1>5, <1>7

LEMMA DecodedIs ==
  ASSUME NEW h \in Held, h # <<>>
  PROVE  Decoded(h) \in Texts /\ Len(Decoded(h)) <= Len(h) /\ BytesOf(Decoded(h)) <= 3 * Len(h)
<1>0. h \in Text /\ Bytes(h) <= Len(h) /\ Bytes(h) \in Nat /\ Len(h) \in Nat /\ 1 <= Len(h)
  <2>1. Len(h) # 0
    BY DEF Held
  <2> QED
    BY <2>1, HeldIs
<1>1. CASE IsUtf8(h)
  <2>1. Lossy(h) \in Text /\ Bytes(Lossy(h)) <= 3 * Bytes(h) /\ Bytes(Lossy(h)) \in Nat
    BY <1>0, LossyIs, BytesNat
  <2>2. <<Lossy(h)>> \in Texts /\ BytesOf(<<Lossy(h)>>) = Bytes(Lossy(h)) /\ Len(<<Lossy(h)>>) = 1
    BY <2>1, BufferOne
  <2>3. Decoded(h) = <<Lossy(h)>>
    BY <1>1 DEF Decoded
  <2>4. Bytes(Lossy(h)) <= 3 * Len(h)
    BY <1>0, <2>1
  <2> DEFINE d == <<Lossy(h)>>
  <2> HIDE DEF d
  <2>5. Decoded(h) = d /\ d \in Texts /\ BytesOf(d) <= 3 * Len(h) /\ Len(d) = 1
    BY <2>2, <2>3, <2>4 DEF d
  <2> QED
    BY <1>0, <2>5
<1>2. CASE ~IsUtf8(h)
  <2> DEFINE c == [i \in DOMAIN h |-> <<"R">>]
  <2>1. "R" \in Symbol /\ Width["R"] = 3
    BY DEF Symbol, Width
  <2>2. <<"R">> \in Text /\ Bytes(<<"R">>) = 3
    BY <2>1, BytesOne
  <2>3. DOMAIN h = 1..Len(h) /\ Len(h) \in Nat
    BY DEF Held
  <2>4. c \in Texts /\ Len(c) = Len(h)
    BY <2>2, <2>3 DEF Texts
  <2>5. \A i \in 1..Len(c) : Bytes(c[i]) = 3
    BY <2>2, <2>3, <2>4
  <2>6. Decoded(h) = c
    BY <1>2 DEF Decoded
  <2> HIDE DEF c
  <2>7. \A i \in 1..Len(c) : Bytes(c[i]) <= Bytes(c[i]) * 0 + 3
    BY <2>5
  <2>8. BytesOf(c) <= BytesOf(c) * 0 + Len(c) * 3
    BY <2>4, <2>7, GrowsBy
  <2>9. BytesOf(c) \in Nat
    BY <2>4, TotalsAre
  <2> QED
    BY <2>3, <2>4, <2>6, <2>8, <2>9
<1> QED
  BY <1>1, <1>2

LEMMA FoldedRecord ==
  ASSUME NEW o \in Texts, NEW h \in Held, NEW r \in Nat
  PROVE  [out |-> o, held |-> h, raw |-> r] \in Folded
BY DEF Folded

LEMMA FlushIs ==
  ASSUME NEW acc \in Folded
  PROVE  /\ Flush(acc) \in Folded /\ Flush(acc).held = <<>> /\ Flush(acc).raw = acc.raw
         /\ Len(Flush(acc).out) <= Len(acc.out) + Len(acc.held)
         /\ BytesOf(Flush(acc).out) <= BytesOf(acc.out) + 3 * Len(acc.held)
<1>1. acc.out \in Texts /\ acc.held \in Held /\ acc.raw \in Nat
  BY DEF Folded
<1>2. /\ BytesOf(acc.out) \in Nat /\ Len(acc.out) \in Nat /\ Len(acc.held) \in Nat
      /\ acc.held = <<>> => Len(acc.held) = 0
  BY <1>1, TotalsAre, HeldIs DEF Texts
<1>3. CASE acc.held = <<>>
  <2>1. Flush(acc) = acc
    BY <1>3 DEF Flush
  <2> QED
    BY <1>2, <1>3, <2>1
<1>4. CASE acc.held # <<>>
  <2> DEFINE d == Decoded(acc.held)
  <2>1. d \in Texts /\ Len(d) <= Len(acc.held) /\ BytesOf(d) <= 3 * Len(acc.held)
    BY <1>1, <1>4, DecodedIs
  <2>2. Flush(acc) = [out |-> acc.out \o d, held |-> <<>>, raw |-> acc.raw]
    BY <1>4 DEF Flush, Folded
  <2> HIDE DEF d
  <2>3. /\ acc.out \o d \in Texts /\ Len(acc.out \o d) = Len(acc.out) + Len(d)
        /\ BytesOf(acc.out \o d) = BytesOf(acc.out) + BytesOf(d)
        /\ Len(d) \in Nat /\ BytesOf(d) \in Nat
    BY <1>1, <2>1, BufferConcat, TotalsAre DEF Texts
  <2>4. Flush(acc).out = acc.out \o d /\ Flush(acc).held = <<>> /\ Flush(acc).raw = acc.raw
    BY <2>2
  <2>5. Flush(acc) \in Folded
    <3>1. <<>> \in Held
      BY DEF Held
    <3>2. acc.out \o d \in Texts
      BY <2>3
    <3>3. [out |-> acc.out \o d, held |-> <<>>, raw |-> acc.raw] \in Folded
      BY <1>1, <3>1, <3>2, FoldedRecord
    <3> QED
      BY <2>2, <3>3
  <2>6. /\ Len(acc.out \o d) <= Len(acc.out) + Len(acc.held)
        /\ BytesOf(acc.out \o d) <= BytesOf(acc.out) + 3 * Len(acc.held)
    <3> DEFINE l == Len(acc.out)
               m == Len(acc.held)
               x == Len(d)
               b == BytesOf(acc.out)
               y == BytesOf(d)
               u == Len(acc.out \o d)
               v == BytesOf(acc.out \o d)
    <3>1. /\ l \in Nat /\ m \in Nat /\ x \in Nat /\ b \in Nat /\ y \in Nat
          /\ u = l + x /\ v = b + y /\ x <= m /\ y <= 3 * m
      BY <1>2, <2>1, <2>3 DEF d
    <3> HIDE DEF l, m, x, b, y, u, v
    <3>2. u <= l + m /\ v <= b + 3 * m
      BY <3>1
    <3> QED
      BY <3>2 DEF l, m, b, u, v
  <2> QED
    BY <2>4, <2>5, <2>6
<1> QED
  BY <1>3, <1>4

(* What is held back or written is paid for by the tokens so far. *)
Paid(acc, k, total) ==
  /\ Len(acc.out) + Len(acc.held) <= k
  /\ BytesOf(acc.out) + 3 * Len(acc.held) <= total
  /\ acc.raw <= total

LEMMA NextFallbackIs ==
  ASSUME NEW acc \in Folded, NEW t \in Text
  PROVE  /\ NextFallback(acc, t) \in Folded
         /\ \A k, total \in Nat :
              Paid(acc, k, total) => Paid(NextFallback(acc, t), k + 1, total + Bytes(t))
<1>1. acc.out \in Texts /\ acc.held \in Held /\ acc.raw \in Nat
  BY DEF Folded
<1>2. /\ BytesOf(acc.out) \in Nat /\ Len(acc.out) \in Nat /\ Len(acc.held) \in Nat /\ Bytes(t) \in Nat
  BY <1>1, TotalsAre, HeldIs, BytesNat DEF Texts
<1> DEFINE nxt == NextFallback(acc, t)
<1>3. CASE IsFallback(t)
  <2>1. t = <<t[1]>> /\ t[1] \in {"fallbackLead", "fallbackCont"}
    BY <1>3 DEF IsFallback, FallbackByte, Text
  <2>2. \A s \in {"fallbackLead", "fallbackCont"} :
          s \in Symbol /\ Width[s] = 6 /\ FallbackByte[s] \in {"lead", "cont"}
    BY DEF Symbol, Width, FallbackByte
  <2>3. Bytes(t) = 6
    <3>1. Bytes(<<t[1]>>) = 6
      BY <2>1, <2>2, BytesOne
    <3> QED
      BY <2>1, <3>1
  <2> DEFINE h == Append(acc.held, FallbackByte[t[1]])
  <2>4. h \in Held /\ Len(h) = Len(acc.held) + 1
    BY <1>1, <2>1, <2>2 DEF Held
  <2>5. nxt = [out |-> acc.out, held |-> h,
               raw |-> IF Len(h) > acc.raw THEN Len(h) ELSE acc.raw]
    BY <1>3 DEF NextFallback, Folded
  <2> HIDE DEF h, nxt
  <2>6. /\ nxt.out = acc.out /\ nxt.held = h
        /\ nxt.raw = IF Len(h) > acc.raw THEN Len(h) ELSE acc.raw
    BY <2>5
  <2>7. nxt \in Folded
    <3>1. nxt.raw \in Nat
      BY <1>1, <1>2, <2>4, <2>6
    <3>2. [out |-> acc.out, held |-> h, raw |-> nxt.raw] \in Folded
      BY <1>1, <2>4, <3>1, FoldedRecord
    <3> QED
      BY <2>5, <2>6, <3>2
  <2>8. ASSUME NEW k \in Nat, NEW total \in Nat, Paid(acc, k, total)
        PROVE  Paid(nxt, k + 1, total + Bytes(t))
    <3>1. /\ Len(acc.out) + Len(acc.held) <= k /\ acc.raw <= total
          /\ BytesOf(acc.out) + 3 * Len(acc.held) <= total
      BY <2>8 DEF Paid
    <3>2. Len(nxt.out) + Len(nxt.held) <= k + 1
      <4> DEFINE l == Len(acc.out)
                 m == Len(acc.held)
      <4>1. l \in Nat /\ m \in Nat /\ l + m <= k /\ Len(nxt.out) = l /\ Len(nxt.held) = m + 1
        BY <1>2, <2>4, <2>6, <3>1
      <4> HIDE DEF l, m
      <4> QED
        BY <4>1
    <3>3. BytesOf(nxt.out) + 3 * Len(nxt.held) <= total + Bytes(t)
      BY <1>2, <2>3, <2>4, <2>6, <3>1
    <3>4. nxt.raw <= total + Bytes(t)
      BY <1>1, <1>2, <2>3, <2>4, <2>6, <3>1
    <3> QED
      BY <3>2, <3>3, <3>4 DEF Paid
  <2> QED
    BY <2>7, <2>8 DEF nxt
<1>4. CASE ~IsFallback(t)
  <2> DEFINE f == Flush(acc)
  <2>1. /\ f \in Folded /\ f.held = <<>> /\ f.raw = acc.raw
        /\ Len(f.out) <= Len(acc.out) + Len(acc.held)
        /\ BytesOf(f.out) <= BytesOf(acc.out) + 3 * Len(acc.held)
    BY FlushIs
  <2>2. nxt = [out |-> Append(f.out, t), held |-> f.held, raw |-> f.raw]
    BY <1>4, <2>1 DEF NextFallback, Folded
  <2> HIDE DEF f, nxt
  <2>3. f.out \in Texts /\ f.held \in Held /\ f.raw \in Nat
    BY <2>1 DEF Folded
  <2>4. /\ Append(f.out, t) \in Texts /\ Len(Append(f.out, t)) = Len(f.out) + 1
        /\ BytesOf(Append(f.out, t)) = BytesOf(f.out) + Bytes(t)
    BY <2>3, BufferAppend
  <2>5. nxt \in Folded
    BY <2>2, <2>3, <2>4, FoldedRecord
  <2>6. nxt.out = Append(f.out, t) /\ nxt.held = <<>> /\ nxt.raw = acc.raw /\ Len(nxt.held) = 0
    BY <2>1, <2>2
  <2>7. Len(f.out) \in Nat /\ BytesOf(f.out) \in Nat
    BY <2>3, TotalsAre DEF Texts
  <2>8. ASSUME NEW k \in Nat, NEW total \in Nat, Paid(acc, k, total)
        PROVE  Paid(nxt, k + 1, total + Bytes(t))
    <3>1. /\ Len(acc.out) + Len(acc.held) <= k /\ acc.raw <= total
          /\ BytesOf(acc.out) + 3 * Len(acc.held) <= total
      BY <2>8 DEF Paid
    <3>2. Len(nxt.out) + Len(nxt.held) <= k + 1
      <4> DEFINE l == Len(acc.out)
                 m == Len(acc.held)
                 x == Len(f.out)
      <4>1. /\ l \in Nat /\ m \in Nat /\ x \in Nat /\ l + m <= k /\ x <= l + m
            /\ Len(nxt.out) = x + 1 /\ Len(nxt.held) = 0
        BY <1>2, <2>1, <2>4, <2>6, <2>7, <3>1
      <4> HIDE DEF l, m, x
      <4> QED
        BY <4>1
    <3>3. BytesOf(nxt.out) + 3 * Len(nxt.held) <= total + Bytes(t)
      <4> DEFINE l == BytesOf(acc.out)
                 m == Len(acc.held)
                 x == BytesOf(f.out)
      <4>1. /\ l \in Nat /\ m \in Nat /\ x \in Nat /\ l + 3 * m <= total /\ x <= l + 3 * m
            /\ BytesOf(nxt.out) = x + Bytes(t) /\ Len(nxt.held) = 0
        BY <1>2, <2>1, <2>4, <2>6, <2>7, <3>1
      <4> HIDE DEF l, m, x
      <4> QED
        BY <1>2, <4>1
    <3>4. nxt.raw <= total + Bytes(t)
      BY <1>1, <1>2, <2>6, <3>1
    <3> QED
      BY <3>2, <3>3, <3>4 DEF Paid
  <2> QED
    BY <2>5, <2>8 DEF nxt
<1> QED
  BY <1>3, <1>4

(* apply_byte_fallback, token by token. *)
LEMMA FoldIs ==
  ASSUME NEW b \in Texts
  PROVE  /\ Fold(b) \in [0..Len(b) -> Folded] /\ Fold(b)[0] = NoTokens
         /\ \A k \in 1..Len(b) : Fold(b)[k] = NextFallback(Fold(b)[k - 1], b[k])
         /\ ByteFallback(b) = Flush(Fold(b)[Len(b)])
<1> DEFINE n == Len(b)
           F == [k \in 1..n |-> [x \in Folded |-> NextFallback(x, b[k])]]
           Is(f) == f = [k \in 0..n |-> IF k = 0 THEN NoTokens ELSE NextFallback(f[k - 1], b[k])]
<1>1. n \in Nat /\ \A k \in 1..n : b[k] \in Text
  BY DEF Texts
<1>2. NoTokens \in Folded /\ AreSteps(F, Folded, n)
  <2>1. \A k \in 1..n : \A x \in Folded : NextFallback(x, b[k]) \in Folded
    BY <1>1, NextFallbackIs
  <2>2. NoTokens \in Folded
    BY DEF NoTokens, Folded, Texts, Held
  <2> QED
    BY <2>1, <2>2 DEF AreSteps
<1> HIDE DEF n
<1>3. PICK g : AreTaken(g, F, Folded, NoTokens, n)
  <2> HIDE DEF F
  <2> QED
    BY <1>1, <1>2, StepsExist
<1>4. Is(g)
  <2>1. /\ g \in [0..n -> Folded] /\ g[0] = NoTokens /\ \A k \in 1..n : g[k] = F[k][g[k - 1]]
    BY <1>3 DEF AreTaken
  <2>2. ASSUME NEW k \in 1..n PROVE g[k] = NextFallback(g[k - 1], b[k])
    <3>1. g[k - 1] \in Folded
      BY <1>1, <2>1
    <3> QED
      BY <2>1, <3>1
  <2> QED
    BY <1>1, <2>1, <2>2
<1> DEFINE r == Fold(b)
<1>5. r = CHOOSE f : Is(f)
  BY DEF Fold, Passes, n
<1> HIDE DEF r
<1>6. Is(r)
  <2> HIDE DEF Is
  <2> QED
    BY <1>4, <1>5
<1>7. r = [k \in 0..n |-> r[k]] /\ r[0] = NoTokens
      /\ \A k \in 1..n : r[k] = NextFallback(r[k - 1], b[k])
  BY <1>1, <1>6
<1>8. r \in [0..n -> Folded]
  <2>1. \A k \in 1..n : r[k - 1] \in Folded => r[k] \in Folded
    BY <1>1, <1>7, NextFallbackIs
  <2> QED
    BY <1>1, <1>2, <1>7, <2>1, StaysIn
<1> QED
  BY <1>7, <1>8 DEF r, n, ByteFallback, Pass, Fold

(* apply_byte_fallback writes, and holds back, no more than it is given. *)
LEMMA ByteFallbackIs ==
  ASSUME NEW b \in Texts
  PROVE  /\ ByteFallback(b).out \in Texts /\ Len(ByteFallback(b).out) <= Len(b)
         /\ BytesOf(ByteFallback(b).out) <= BytesOf(b)
         /\ ByteFallback(b).raw \in Nat /\ ByteFallback(b).raw <= BytesOf(b)
<1> DEFINE n == Len(b)
           B == Totals(b)
           R == Fold(b)
<1>1. n \in Nat /\ \A k \in 1..n : b[k] \in Text
  BY DEF Texts
<1>2. /\ B \in [0..n -> Nat] /\ B[0] = 0 /\ BytesOf(b) = B[n]
      /\ \A k \in 1..n : B[k] = B[k - 1] + Bytes(b[k])
  BY <1>1, TotalsAre DEF IsTotal
<1>3. /\ R \in [0..n -> Folded] /\ R[0] = NoTokens
      /\ \A k \in 1..n : R[k] = NextFallback(R[k - 1], b[k])
      /\ ByteFallback(b) = Flush(R[n])
  BY FoldIs
<1> HIDE DEF n, B, R
<1> DEFINE P == {k \in 0..n : Paid(R[k], k, B[k])}
<1>4. 0 \in P
  <2>1. R[0].out = <<>> /\ R[0].held = <<>> /\ R[0].raw = 0
    BY <1>3 DEF NoTokens
  <2>2. Len(R[0].out) = 0 /\ Len(R[0].held) = 0 /\ BytesOf(R[0].out) = 0
    BY <2>1, BufferEmpty
  <2>3. Len(R[0].out) + Len(R[0].held) <= 0 /\ BytesOf(R[0].out) + 3 * Len(R[0].held) <= B[0]
    BY <1>2, <2>2
  <2>4. R[0].raw <= B[0]
    BY <1>2, <2>1
  <2>5. Paid(R[0], 0, B[0])
    BY <2>3, <2>4 DEF Paid
  <2> QED
    BY <1>1, <2>5
<1>5. ASSUME NEW k \in 1..n, k - 1 \in P PROVE k \in P
  <2>1. k \in 0..n /\ k - 1 \in 0..n /\ Paid(R[k - 1], k - 1, B[k - 1])
    BY <1>1, <1>5
  <2>2. R[k - 1] \in Folded /\ R[k] = NextFallback(R[k - 1], b[k])
    BY <1>3, <2>1
  <2>3. B[k] = B[k - 1] + Bytes(b[k]) /\ B[k - 1] \in Nat /\ k - 1 \in Nat /\ (k - 1) + 1 = k
    BY <1>2, <2>1
  <2>4. b[k] \in Text
    BY <1>1
  <2>5. Paid(R[k], (k - 1) + 1, B[k - 1] + Bytes(b[k]))
    BY <2>1, <2>2, <2>3, <2>4, NextFallbackIs
  <2>6. Paid(R[k], k, B[k])
    BY <2>3, <2>5
  <2> QED
    BY <2>1, <2>6
<1> HIDE DEF P
<1>6. \A k \in 0..n : k \in P
  BY <1>1, <1>4, <1>5, UpTo
<1>7. n \in P /\ R[n] \in Folded
  BY <1>1, <1>3, <1>6
<1>8. Paid(R[n], n, B[n])
  BY <1>7 DEF P
<1> DEFINE f == Flush(R[n])
<1>9. /\ f \in Folded /\ f.raw = R[n].raw
      /\ Len(f.out) <= Len(R[n].out) + Len(R[n].held)
      /\ BytesOf(f.out) <= BytesOf(R[n].out) + 3 * Len(R[n].held)
  BY <1>7, FlushIs
<1>10. /\ f.out \in Texts /\ f.raw \in Nat /\ R[n].out \in Texts /\ R[n].held \in Held
  BY <1>7, <1>9 DEF Folded
<1> HIDE DEF f
<1>11. /\ Len(f.out) \in Nat /\ BytesOf(f.out) \in Nat /\ Len(R[n].out) \in Nat
       /\ BytesOf(R[n].out) \in Nat /\ Len(R[n].held) \in Nat
  BY <1>10, TotalsAre, HeldIs DEF Texts
<1>12. B[n] \in Nat
  BY <1>1, <1>2
<1>13. Len(f.out) <= n /\ BytesOf(f.out) <= B[n] /\ f.raw <= B[n]
  <2> DEFINE l == Len(R[n].out)
             m == Len(R[n].held)
             x == BytesOf(R[n].out)
  <2>1. /\ l \in Nat /\ m \in Nat /\ x \in Nat /\ l + m <= n /\ x + 3 * m <= B[n]
        /\ Len(f.out) <= l + m /\ BytesOf(f.out) <= x + 3 * m /\ f.raw <= B[n]
    BY <1>8, <1>9, <1>11 DEF Paid
  <2> HIDE DEF l, m, x
  <2> QED
    BY <1>1, <1>11, <1>12, <2>1
<1> QED
  BY <1>2, <1>3, <1>10, <1>13 DEF f, n

------------------------------------------------------------------------------
(* CtcDeduplicate. *)
Distinct == [out : Texts, previous : Seq(Text)]
NothingYet == [out |-> <<>>, previous |-> <<>>]
Distinguish(b) == Passes(NextDistinct, NothingYet, b)

LEMMA NextDistinctIs ==
  ASSUME NEW acc \in Distinct, NEW t \in Text
  PROVE  /\ NextDistinct(acc, t) \in Distinct
         /\ NextDistinct(acc, t).out = (IF <<t>> = acc.previous THEN acc.out ELSE Append(acc.out, t))
         /\ NextDistinct(acc, t).previous = <<t>>
<1>1. acc.out \in Texts
  BY DEF Distinct
<1>2. Append(acc.out, t) \in Texts
  BY <1>1, BufferAppend
<1>3. <<t>> \in Seq(Text)
  OBVIOUS
<1>4. \A o \in Texts : \A p \in Seq(Text) : [out |-> o, previous |-> p] \in Distinct
  BY DEF Distinct
<1> DEFINE o == IF <<t>> = acc.previous THEN acc.out ELSE Append(acc.out, t)
<1>5. NextDistinct(acc, t) = [out |-> o, previous |-> <<t>>]
  BY DEF NextDistinct
<1>6. o \in Texts
  BY <1>1, <1>2
<1> HIDE DEF o
<1>7. [out |-> o, previous |-> <<t>>] \in Distinct
  BY <1>3, <1>4, <1>6
<1> QED
  BY <1>5, <1>7 DEF o

(* apply_deduplicate, token by token. *)
LEMMA DistinguishIs ==
  ASSUME NEW b \in Texts
  PROVE  /\ Distinguish(b) \in [0..Len(b) -> Distinct] /\ Distinguish(b)[0] = NothingYet
         /\ \A k \in 1..Len(b) : Distinguish(b)[k] = NextDistinct(Distinguish(b)[k - 1], b[k])
         /\ Deduplicated(b) = Distinguish(b)[Len(b)].out
<1> DEFINE n == Len(b)
           F == [k \in 1..n |-> [x \in Distinct |-> NextDistinct(x, b[k])]]
           Is(f) == f = [k \in 0..n |-> IF k = 0 THEN NothingYet ELSE NextDistinct(f[k - 1], b[k])]
<1>1. n \in Nat /\ \A k \in 1..n : b[k] \in Text
  BY DEF Texts
<1>2. NothingYet \in Distinct /\ AreSteps(F, Distinct, n)
  <2>1. \A k \in 1..n : \A x \in Distinct : NextDistinct(x, b[k]) \in Distinct
    BY <1>1, NextDistinctIs
  <2>2. NothingYet \in Distinct
    BY DEF NothingYet, Distinct, Texts
  <2> QED
    BY <2>1, <2>2 DEF AreSteps
<1> HIDE DEF n
<1>3. PICK g : AreTaken(g, F, Distinct, NothingYet, n)
  <2> HIDE DEF F
  <2> QED
    BY <1>1, <1>2, StepsExist
<1>4. Is(g)
  <2>1. /\ g \in [0..n -> Distinct] /\ g[0] = NothingYet /\ \A k \in 1..n : g[k] = F[k][g[k - 1]]
    BY <1>3 DEF AreTaken
  <2>2. ASSUME NEW k \in 1..n PROVE g[k] = NextDistinct(g[k - 1], b[k])
    <3>1. g[k - 1] \in Distinct
      BY <1>1, <2>1
    <3> QED
      BY <2>1, <3>1
  <2> QED
    BY <1>1, <2>1, <2>2
<1> DEFINE r == Distinguish(b)
<1>5. r = CHOOSE f : Is(f)
  BY DEF Distinguish, Passes, n
<1> HIDE DEF r
<1>6. Is(r)
  <2> HIDE DEF Is
  <2> QED
    BY <1>4, <1>5
<1>7. r = [k \in 0..n |-> r[k]] /\ r[0] = NothingYet
      /\ \A k \in 1..n : r[k] = NextDistinct(r[k - 1], b[k])
  BY <1>1, <1>6
<1>8. r \in [0..n -> Distinct]
  <2>1. \A k \in 1..n : r[k - 1] \in Distinct => r[k] \in Distinct
    BY <1>1, <1>7, NextDistinctIs
  <2> QED
    BY <1>1, <1>2, <1>7, <2>1, StaysIn
<1> QED
  BY <1>7, <1>8 DEF r, n, Deduplicated, Pass, Distinguish, NothingYet

(* apply_deduplicate writes no more than it is given. *)
LEMMA DeduplicatedIs ==
  ASSUME NEW b \in Texts
  PROVE  /\ Deduplicated(b) \in Texts /\ Len(Deduplicated(b)) <= Len(b)
         /\ BytesOf(Deduplicated(b)) <= BytesOf(b)
<1> DEFINE n == Len(b)
           B == Totals(b)
           R == Distinguish(b)
<1>1. n \in Nat /\ \A k \in 1..n : b[k] \in Text
  BY DEF Texts
<1>2. /\ B \in [0..n -> Nat] /\ B[0] = 0 /\ BytesOf(b) = B[n]
      /\ \A k \in 1..n : B[k] = B[k - 1] + Bytes(b[k])
  BY <1>1, TotalsAre DEF IsTotal
<1>3. /\ R \in [0..n -> Distinct] /\ R[0] = NothingYet
      /\ \A k \in 1..n : R[k] = NextDistinct(R[k - 1], b[k])
      /\ Deduplicated(b) = R[n].out
  BY DistinguishIs
<1> HIDE DEF n, B, R
<1> DEFINE P == {k \in 0..n : Len(R[k].out) <= k /\ BytesOf(R[k].out) <= B[k]}
<1>4. 0 \in P
  <2>1. R[0].out = <<>>
    BY <1>3 DEF NothingYet
  <2>2. Len(R[0].out) <= 0 /\ BytesOf(R[0].out) <= B[0]
    BY <1>2, <2>1, BufferEmpty
  <2> QED
    BY <1>1, <2>2
<1>5. ASSUME NEW k \in 1..n, k - 1 \in P PROVE k \in P
  <2>1. /\ k \in 0..n /\ k - 1 \in 0..n
        /\ Len(R[k - 1].out) <= k - 1 /\ BytesOf(R[k - 1].out) <= B[k - 1]
    BY <1>1, <1>5
  <2> DEFINE o == R[k - 1].out
  <2>2. R[k - 1] \in Distinct /\ o \in Texts /\ b[k] \in Text
    BY <1>1, <1>3, <2>1 DEF Distinct
  <2>3. R[k].out = o \/ R[k].out = Append(o, b[k])
    BY <1>3, <2>2, NextDistinctIs
  <2> DEFINE a == Append(o, b[k])
  <2> HIDE DEF o
  <2>4. Len(o) \in Nat /\ BytesOf(o) \in Nat /\ Bytes(b[k]) \in Nat
    BY <2>2, TotalsAre, BytesNat DEF Texts
  <2>5. Len(a) = Len(o) + 1 /\ BytesOf(a) = BytesOf(o) + Bytes(b[k])
    BY <2>2, BufferAppend
  <2>6. (R[k].out = o \/ R[k].out = a) /\ Len(o) <= k - 1 /\ BytesOf(o) <= B[k - 1]
    BY <2>1, <2>3 DEF o
  <2> HIDE DEF a
  <2>7. B[k] = B[k - 1] + Bytes(b[k]) /\ B[k - 1] \in Nat /\ k \in Nat
    BY <1>2, <2>1
  <2>8. Len(o) <= k /\ Len(a) <= k /\ BytesOf(o) <= B[k] /\ BytesOf(a) <= B[k]
    BY <2>4, <2>5, <2>6, <2>7
  <2>9. Len(R[k].out) <= k /\ BytesOf(R[k].out) <= B[k]
    BY <2>6, <2>8
  <2> QED
    BY <2>1, <2>9
<1> HIDE DEF P
<1>6. \A k \in 0..n : k \in P
  BY <1>1, <1>4, <1>5, UpTo
<1>7. n \in P /\ R[n] \in Distinct
  BY <1>1, <1>3, <1>6
<1> QED
  BY <1>2, <1>3, <1>7 DEF P, n, Distinct

------------------------------------------------------------------------------
Shape(b) == [bytes |-> BytesOf(b), spans |-> Len(b)]

(* What a stage writes is a buffer within the bound it announces.          *)
Announced(s, b) ==
  LET done == Apply(s, b)
      bound == OutputBound(s, Shape(b))
  IN /\ done.out \in Texts
     /\ BytesOf(done.out) <= bound.bytes /\ Len(done.out) <= bound.spans
     /\ done.raw \in Nat
     /\ done.raw <= (IF s.op \in {"ByteLevel", "ByteFallback"} THEN BytesOf(b) ELSE 0)

LEMMA EachTokenIs ==
  ASSUME NEW b \in Texts, NEW c, c = [i \in DOMAIN b |-> c[i]], \A i \in 1..Len(b) : c[i] \in Text
  PROVE  c \in Texts /\ Len(c) = Len(b)
<1>1. DOMAIN b = 1..Len(b) /\ Len(b) \in Nat
  BY DEF Texts
<1> QED
  BY <1>1 DEF Texts

LEMMA FilterEmptyAnnounced ==
  ASSUME NEW b \in Texts, NEW s, s.op = "FilterEmpty" PROVE Announced(s, b)
<1> DEFINE p == [i \in DOMAIN b |-> IF b[i] # <<>> THEN <<b[i]>> ELSE <<>>]
<1>1. Apply(s, b) = [out |-> FlattenSeq(p), raw |-> 0]
  BY DEF Apply, Kept
<1>2. p \in Seq(Texts) /\ Selects(p, b)
  <2>1. DOMAIN b = 1..Len(b) /\ Len(b) \in Nat /\ \A i \in 1..Len(b) : b[i] \in Text
    BY DEF Texts
  <2>2. \A i \in 1..Len(b) : p[i] \in Texts /\ (p[i] = <<b[i]>> \/ p[i] = <<>>)
    BY <2>1 DEF Texts
  <2>3. p = [i \in 1..Len(b) |-> p[i]]
    BY <2>1
  <2> HIDE DEF p
  <2> QED
    BY <2>1, <2>2, <2>3 DEF Selects
<1> HIDE DEF p
<1>3. /\ FlattenSeq(p) \in Texts /\ Len(FlattenSeq(p)) <= Len(b)
      /\ BytesOf(FlattenSeq(p)) <= BytesOf(b)
  BY <1>2, SelectedIsSmaller
<1>4. OutputBound(s, Shape(b)) = [bytes |-> BytesOf(b), spans |-> Len(b)]
  BY DEF OutputBound, Shape
<1> QED
  BY <1>1, <1>3, <1>4 DEF Announced

LEMMA MetaspaceAnnounced ==
  ASSUME NEW b \in Texts, NEW s, s.op = "Metaspace" PROVE Announced(s, b)
<1> DEFINE c == [i \in DOMAIN b |-> Spaced(b[i], i # 1 \/ ~s.trimFirst)]
<1>1. Apply(s, b) = [out |-> c, raw |-> 0]
  BY DEF Apply, EachToken
<1>2. \A i \in 1..Len(b) : c[i] \in Text /\ Bytes(c[i]) <= Bytes(b[i])
  BY SpacedIs DEF Texts
<1>3. c = [i \in DOMAIN b |-> c[i]]
  OBVIOUS
<1> HIDE DEF c
<1>4. c \in Texts /\ Len(c) = Len(b)
  BY <1>2, <1>3, EachTokenIs
<1>5. BytesOf(c) <= BytesOf(b) /\ Len(b) \in Nat
  BY <1>2, <1>4, NoLonger DEF Texts
<1>6. OutputBound(s, Shape(b)) = [bytes |-> BytesOf(b), spans |-> Len(b)]
  BY DEF OutputBound, Shape
<1> QED
  BY <1>1, <1>4, <1>5, <1>6 DEF Announced

------------------------------------------------------------------------------
(* Each stage stays within what output_bound announces for it. *)
LEMMA ReplacesNoMore ==
  ASSUME NEW before \in Nat, NEW after \in Nat, NEW p \in Nat, NEW more \in Int, more <= 0,
         Replaces(before, after, p, more)
  PROVE  after <= before
<1>1. PICK j \in Nat : after = before + j * more
  BY DEF Replaces
<1>2. j * more <= 0 /\ j * more \in Int
  <2> DEFINE m == 0 - more
  <2>1. m \in Nat /\ more = 0 - m
    OBVIOUS
  <2>2. j * m \in Nat /\ j * (0 - m) = 0 - j * m
    BY <2>1
  <2> HIDE DEF m
  <2> QED
    BY <2>1, <2>2
<1> QED
  BY <1>1, <1>2

LEMMA ReplacesMore ==
  ASSUME NEW before \in Nat, NEW after \in Nat, NEW p \in Nat \ {0}, NEW more \in Nat,
         Replaces(before, after, p, more)
  PROVE  after <= before + (before \div p) * more
<1>1. PICK j \in Nat : after = before + j * more /\ j * p <= before
  BY DEF Replaces
<1>2. j <= before \div p /\ before \div p \in Nat
  BY <1>1, Within
<1> DEFINE q == before \div p
<1> HIDE DEF q
<1>3. j * more <= q * more /\ j * more \in Nat /\ q * more \in Nat
  BY <1>2, MulMono DEF q
<1>4. after <= before + q * more
  BY <1>1, <1>3
<1> QED
  BY <1>4 DEF q

LEMMA BpeAnnounced ==
  ASSUME NEW b \in Texts, NEW s, s.op = "Bpe", ShortPattern(s.pattern) PROVE Announced(s, b)
<1> DEFINE space == <<"space">>
           Content(i) == IF i = Len(b) THEN <<>> ELSE space
           c == [i \in DOMAIN b |-> Replaced(b[i], s.pattern, Content(i))]
<1>0. /\ space \in Text /\ Bytes(space) = 1
      /\ \A i : Content(i) \in Text /\ Bytes(Content(i)) \in Nat /\ Bytes(Content(i)) <= 1
  <2>1. "space" \in Symbol /\ Width["space"] = 1
    BY DEF Symbol, Width
  <2>2. space \in Text /\ Bytes(space) = 1
    BY <2>1, BytesOne
  <2> HIDE DEF space
  <2> QED
    BY <2>2, BytesEmpty
<1>1. Apply(s, b) = [out |-> c, raw |-> 0]
  BY DEF Apply, EachToken
<1> HIDE DEF Content, space
<1>2. DOMAIN b = 1..Len(b) /\ Len(b) \in Nat /\ \A i \in 1..Len(b) : b[i] \in Text /\ Bytes(b[i]) \in Nat
  BY BytesNat DEF Texts
<1>3. c = [i \in DOMAIN b |-> c[i]]
  OBVIOUS
<1>4. \A i \in 1..Len(b) : c[i] = Replaced(b[i], s.pattern, Content(i))
  BY <1>2
<1> HIDE DEF c
<1>b. BytesOf(b) \in Nat
  BY TotalsAre
<1>5. CASE s.pattern = <<>>
  <2>1. \A i \in 1..Len(b) : c[i] \in Text /\ Bytes(c[i]) <= Bytes(b[i]) * 2 + 1
    <3> TAKE i \in 1..Len(b)
    <3> DEFINE w == Bytes(Content(i))
    <3>1. /\ c[i] \in Text /\ Bytes(c[i]) <= Bytes(b[i]) * (1 + w) + w
      BY <1>0, <1>2, <1>4, <1>5, ReplacedBetween
    <3>2. w \in Nat /\ w <= 1 /\ Bytes(c[i]) \in Nat /\ Bytes(b[i]) \in Nat
      BY <1>0, <1>2, <3>1, BytesNat
    <3> HIDE DEF w
    <3>3. w = 0 \/ w = 1
      BY <3>2
    <3>4. Bytes(c[i]) <= Bytes(b[i]) * 2 + 1
      BY <3>1, <3>2, <3>3
    <3> QED
      BY <3>1, <3>4
  <2>2. c \in Texts /\ Len(c) = Len(b)
    BY <1>3, <2>1, EachTokenIs
  <2>3. BytesOf(c) <= BytesOf(b) * 2 + Len(b) * 1
    BY <2>1, <2>2, GrowsBy
  <2>4. BytesOf(c) <= 2 * BytesOf(b) + Len(b)
    BY <1>2, <1>b, <2>3
  <2>5. OutputBound(s, Shape(b)) = [bytes |-> 2 * BytesOf(b) + Len(b), spans |-> Len(b)]
    BY <1>5 DEF OutputBound, Shape, BpeBound
  <2> QED
    BY <1>1, <1>2, <2>2, <2>4, <2>5 DEF Announced
<1>6. CASE s.pattern # <<>>
  <2>0. PICK x \in Symbol : s.pattern = <<x>>
    BY <1>6 DEF ShortPattern
  <2> DEFINE p == Bytes(<<x>>)
  <2>p. p \in Nat /\ 1 <= p
    BY BytesOne, Widths
  <2>1. \A i \in 1..Len(b) : c[i] \in Text /\ Bytes(c[i]) <= Bytes(b[i])
    <3> TAKE i \in 1..Len(b)
    <3> DEFINE w == Bytes(Content(i))
    <3>1. c[i] \in Text /\ Replaces(Bytes(b[i]), Bytes(c[i]), p, w - p)
      BY <1>0, <1>2, <1>4, <2>0, ReplacedSymbol
    <3>2. w \in Nat /\ w <= 1 /\ Bytes(c[i]) \in Nat /\ Bytes(b[i]) \in Nat
      BY <1>0, <1>2, <3>1, BytesNat
    <3> HIDE DEF w, p
    <3>3. w - p \in Int /\ w - p <= 0
      BY <2>p, <3>2
    <3> QED
      BY <2>p, <3>1, <3>2, <3>3, ReplacesNoMore
  <2>2. c \in Texts /\ Len(c) = Len(b)
    BY <1>3, <2>1, EachTokenIs
  <2>3. BytesOf(c) <= BytesOf(b)
    BY <2>1, <2>2, NoLonger
  <2>5. OutputBound(s, Shape(b)) = [bytes |-> BytesOf(b), spans |-> Len(b)]
    BY <1>6 DEF OutputBound, Shape
  <2> QED
    BY <1>1, <1>2, <2>2, <2>3, <2>5 DEF Announced
<1> QED
  BY <1>5, <1>6

LEMMA ByteLevelAnnounced ==
  ASSUME NEW b \in Texts, NEW s, s.op = "ByteLevel" PROVE Announced(s, b)
<1> DEFINE c == [i \in DOMAIN b |-> TokenBytes(b[i])]
           raw == FlattenSeq(c)
           l == Lossy(raw)
<1>1. Apply(s, b) = [out |-> <<l>>, raw |-> Bytes(raw)]
  BY DEF Apply, ByteLevel
<1>2. \A i \in 1..Len(b) : c[i] \in Text /\ Bytes(c[i]) <= Bytes(b[i])
  BY TokenBytesAre DEF Texts
<1>3. c = [i \in DOMAIN b |-> c[i]]
  OBVIOUS
<1> HIDE DEF c
<1>4. c \in Texts /\ Len(c) = Len(b)
  BY <1>2, <1>3, EachTokenIs
<1>5. BytesOf(c) <= BytesOf(b) /\ raw \in Text /\ Bytes(raw) = BytesOf(c)
  BY <1>2, <1>4, NoLonger, TotalsAre DEF BytesOf
<1> HIDE DEF raw
<1>6. l \in Text /\ Bytes(l) <= 3 * Bytes(raw) /\ Bytes(l) \in Nat /\ Bytes(raw) \in Nat
  BY <1>5, LossyIs, BytesNat
<1> HIDE DEF l
<1>7. <<l>> \in Texts /\ BytesOf(<<l>>) = Bytes(l) /\ Len(<<l>>) = 1
  BY <1>6, BufferOne
<1>8. OutputBound(s, Shape(b)) = [bytes |-> 3 * BytesOf(b), spans |-> 1]
  BY DEF OutputBound, Shape
<1>9. BytesOf(b) \in Nat
  BY TotalsAre
<1>10. Bytes(l) <= 3 * BytesOf(b) /\ Bytes(raw) <= BytesOf(b)
  BY <1>5, <1>6, <1>9
<1> DEFINE d == <<l>>
<1>11. Apply(s, b).out = d /\ Apply(s, b).raw = Bytes(raw) /\ d \in Texts /\ BytesOf(d) = Bytes(l)
       /\ Len(d) = 1
  BY <1>1, <1>7
<1> HIDE DEF d
<1> QED
  BY <1>6, <1>8, <1>10, <1>11 DEF Announced

LEMMA WordPiecePrefixAnnounced ==
  ASSUME NEW b \in Texts, NEW s, s.op = "WordPiecePrefix", s.pattern \in Text PROVE Announced(s, b)
<1> DEFINE c == [i \in DOMAIN b |-> IF i = 1 THEN b[i] ELSE Continuation(b[i], s.pattern)]
<1>1. Apply(s, b) = [out |-> c, raw |-> 0]
  BY DEF Apply, EachToken
<1>2. \A i \in 1..Len(b) : c[i] \in Text /\ Bytes(c[i]) <= Bytes(b[i]) + (IF i = 1 THEN 0 ELSE 1)
  <2> TAKE i \in 1..Len(b)
  <2>1. b[i] \in Text /\ Bytes(b[i]) \in Nat /\ i \in DOMAIN b
    BY BytesNat DEF Texts
  <2>2. Continuation(b[i], s.pattern) \in Text /\ Bytes(Continuation(b[i], s.pattern)) <= Bytes(b[i]) + 1
    BY <2>1, ContinuationIs
  <2>3. CASE i = 1
    BY <2>1, <2>3
  <2>4. CASE i # 1
    BY <2>1, <2>2, <2>4
  <2> QED
    BY <2>3, <2>4
<1>3. c = [i \in DOMAIN b |-> c[i]]
  OBVIOUS
<1> HIDE DEF c
<1>4. c \in Texts /\ Len(c) = Len(b)
  BY <1>2, <1>3, EachTokenIs
<1>5. BytesOf(c) <= BytesOf(b) + OneLess(Len(b)) /\ Len(b) \in Nat
  BY <1>2, <1>4, GrowsButFirst DEF Texts
<1>6. OutputBound(s, Shape(b)) = [bytes |-> BytesOf(b) + OneLess(Len(b)), spans |-> Len(b)]
  BY DEF OutputBound, Shape
<1> QED
  BY <1>1, <1>4, <1>5, <1>6 DEF Announced

LEMMA CtcDeduplicateAnnounced ==
  ASSUME NEW b \in Texts, NEW s, s.op = "CtcDeduplicate" PROVE Announced(s, b)
<1>1. Apply(s, b) = [out |-> Deduplicated(b), raw |-> 0]
  BY DEF Apply
<1>2. OutputBound(s, Shape(b)) = [bytes |-> BytesOf(b), spans |-> Len(b)]
  BY DEF OutputBound, Shape
<1> QED
  BY <1>1, <1>2, DeduplicatedIs DEF Announced

LEMMA FuseAnnounced ==
  ASSUME NEW b \in Texts, NEW s, s.op = "Fuse" PROVE Announced(s, b)
<1> DEFINE t == FlattenSeq(b)
           d == <<t>>
<1>1. Apply(s, b) = [out |-> d, raw |-> 0]
  BY DEF Apply
<1>2. OutputBound(s, Shape(b)) = [bytes |-> BytesOf(b), spans |-> 1]
  BY DEF OutputBound, Shape
<1>3. t \in Text /\ Bytes(t) = BytesOf(b) /\ BytesOf(b) \in Nat
  BY TotalsAre DEF BytesOf
<1> HIDE DEF t
<1>4. d \in Texts /\ BytesOf(d) = Bytes(t) /\ Len(d) = 1
  BY <1>3, BufferOne
<1> HIDE DEF d
<1>5. Apply(s, b).out = d /\ Apply(s, b).raw = 0 /\ BytesOf(d) <= BytesOf(b) /\ Len(d) <= 1
  BY <1>1, <1>3, <1>4
<1>6. OutputBound(s, Shape(b)).bytes = BytesOf(b) /\ OutputBound(s, Shape(b)).spans = 1
  BY <1>2
<1>7. (IF s.op \in {"ByteLevel", "ByteFallback"} THEN BytesOf(b) ELSE 0) = 0 /\ 0 <= 0 /\ 0 \in Nat
  OBVIOUS
<1> QED
  BY <1>4, <1>5, <1>6, <1>7 DEF Announced

LEMMA StripAnnounced ==
  ASSUME NEW b \in Texts, NEW s, s.op = "Strip", s.start \in Nat, s.stop \in Nat
  PROVE  Announced(s, b)
<1> DEFINE c == [i \in DOMAIN b |-> Stripped(b[i], s.char, s.start, s.stop)]
<1>1. Apply(s, b) = [out |-> c, raw |-> 0]
  BY DEF Apply, EachToken
<1>2. \A i \in 1..Len(b) : c[i] \in Text /\ Bytes(c[i]) <= Bytes(b[i])
  BY StrippedIsSmaller DEF Texts
<1>3. c = [i \in DOMAIN b |-> c[i]]
  OBVIOUS
<1> HIDE DEF c
<1>4. c \in Texts /\ Len(c) = Len(b)
  BY <1>2, <1>3, EachTokenIs
<1>5. BytesOf(c) <= BytesOf(b) /\ Len(b) \in Nat
  BY <1>2, <1>4, NoLonger DEF Texts
<1>6. OutputBound(s, Shape(b)) = [bytes |-> BytesOf(b), spans |-> Len(b)]
  BY DEF OutputBound, Shape
<1> QED
  BY <1>1, <1>4, <1>5, <1>6 DEF Announced

LEMMA ByteFallbackAnnounced ==
  ASSUME NEW b \in Texts, NEW s, s.op = "ByteFallback" PROVE Announced(s, b)
<1>1. Apply(s, b) = ByteFallback(b)
  BY DEF Apply
<1>2. OutputBound(s, Shape(b)) = [bytes |-> BytesOf(b), spans |-> Len(b)]
  BY DEF OutputBound, Shape
<1> QED
  BY <1>1, <1>2, ByteFallbackIs DEF Announced

(* A text replaced in at every boundary, and the bound for all of them. *)
LEMMA BetweenAnnounced ==
  ASSUME NEW b \in Texts, NEW content \in Text, NEW c, c = [i \in DOMAIN b |-> c[i]],
         \A i \in 1..Len(b) : (c[i] = b[i] /\ b[i] = <<>>) \/ c[i] = Replaced(b[i], <<>>, content)
  PROVE  /\ c \in Texts /\ Len(c) = Len(b) /\ Len(b) \in Nat
         /\ BytesOf(c) <= LiteralBound(Shape(b), <<>>, content)
<1> DEFINE w == Bytes(content)
<1>1. w \in Nat /\ BytesOf(b) \in Nat /\ Len(b) \in Nat /\ \A i \in 1..Len(b) : b[i] \in Text /\ Bytes(b[i]) \in Nat
  BY BytesNat, TotalsAre DEF Texts
<1>2. \A i \in 1..Len(b) : c[i] \in Text /\ Bytes(c[i]) <= Bytes(b[i]) * (1 + w) + w
  <2> TAKE i \in 1..Len(b)
  <2>1. CASE c[i] = b[i] /\ b[i] = <<>>
    <3>1. Bytes(c[i]) = 0 /\ Bytes(b[i]) = 0 /\ c[i] \in Text
      BY <2>1, BytesEmpty
    <3> HIDE DEF w
    <3>2. 0 * (1 + w) + w = w
      BY <1>1
    <3> QED
      BY <1>1, <3>1, <3>2
  <2>2. CASE c[i] = Replaced(b[i], <<>>, content)
    BY <1>1, <2>2, ReplacedBetween
  <2> QED
    BY <2>1, <2>2
<1>3. c \in Texts /\ Len(c) = Len(b)
  BY <1>2, EachTokenIs
<1> HIDE DEF w
<1>4. 1 + w \in Nat
  BY <1>1
<1>5. BytesOf(c) <= BytesOf(b) * (1 + w) + Len(b) * w
  BY <1>1, <1>2, <1>3, <1>4, GrowsBy
<1>6. LiteralBound(Shape(b), <<>>, content) = BytesOf(b) + (BytesOf(b) + Len(b)) * w
  BY DEF LiteralBound, Shape, w
<1>7. BytesOf(b) * (1 + w) + Len(b) * w = BytesOf(b) + (BytesOf(b) + Len(b)) * w
  BY <1>1
<1> QED
  BY <1>1, <1>3, <1>5, <1>6, <1>7

LEMMA SymbolAnnounced ==
  ASSUME NEW b \in Texts, NEW content \in Text, NEW x \in Symbol, NEW c,
         c = [i \in DOMAIN b |-> c[i]],
         \A i \in 1..Len(b) : (c[i] = b[i] /\ b[i] = <<>>) \/ c[i] = Replaced(b[i], <<x>>, content)
  PROVE  /\ c \in Texts /\ Len(c) = Len(b) /\ Len(b) \in Nat
         /\ BytesOf(c) <= LiteralBound(Shape(b), <<x>>, content)
<1> DEFINE w == Bytes(content)
           p == Bytes(<<x>>)
<1>1. /\ w \in Nat /\ p \in Nat \ {0} /\ BytesOf(b) \in Nat /\ Len(b) \in Nat
      /\ \A i \in 1..Len(b) : b[i] \in Text /\ Bytes(b[i]) \in Nat
  <2>1. p = Width[x] /\ Width[x] \in Nat /\ 1 <= Width[x]
    BY BytesOne, Widths
  <2> HIDE DEF p
  <2>2. p \in Nat \ {0}
    BY <2>1
  <2> QED
    BY <2>2, BytesNat, TotalsAre DEF Texts
<1>2. \A i \in 1..Len(b) : c[i] \in Text /\ Replaces(Bytes(b[i]), Bytes(c[i]), p, w - p)
  <2> TAKE i \in 1..Len(b)
  <2>1. CASE c[i] = b[i] /\ b[i] = <<>>
    <3> HIDE DEF w, p
    <3>1. Bytes(c[i]) = Bytes(b[i]) + 0 * (w - p) /\ 0 * p <= Bytes(b[i]) /\ c[i] \in Text
      BY <1>1, <2>1
    <3> QED
      BY <3>1 DEF Replaces
  <2>2. CASE c[i] = Replaced(b[i], <<x>>, content)
    BY <1>1, <2>2, ReplacedSymbol
  <2> QED
    BY <2>1, <2>2
<1>3. c \in Texts /\ Len(c) = Len(b)
  BY <1>2, EachTokenIs
<1>4. <<x>> # <<>>
  OBVIOUS
<1>5. LiteralBound(Shape(b), <<x>>, content) =
        BytesOf(b) + (IF w - p <= 0 THEN 0 ELSE (BytesOf(b) \div p) * (w - p))
  BY <1>4 DEF LiteralBound, Shape
<1> HIDE DEF w, p
<1>6. w - p \in Int /\ BytesOf(c) \in Nat
  BY <1>1, <1>3, TotalsAre
<1>7. Replaces(BytesOf(b), BytesOf(c), p, w - p)
  BY <1>1, <1>2, <1>3, <1>6, ReplacesInEach
<1>8. CASE w - p <= 0
  BY <1>1, <1>3, <1>5, <1>6, <1>7, <1>8, ReplacesNoMore
<1>9. CASE ~(w - p <= 0)
  <2>1. w - p \in Nat
    BY <1>6, <1>9
  <2>2. BytesOf(c) <= BytesOf(b) + (BytesOf(b) \div p) * (w - p)
    BY <1>1, <1>6, <1>7, <2>1, ReplacesMore
  <2> QED
    BY <1>1, <1>3, <1>5, <1>9, <2>2
<1> QED
  BY <1>8, <1>9

LEMMA ReplaceLiteralAnnounced ==
  ASSUME NEW b \in Texts, NEW s, s.op = "ReplaceLiteral", ShortPattern(s.pattern), s.content \in Text
  PROVE  Announced(s, b)
<1> DEFINE c == [i \in DOMAIN b |-> IF b[i] = <<>> /\ ~s.emptyInputMatches THEN b[i]
                                   ELSE Replaced(b[i], s.pattern, s.content)]
<1>1. Apply(s, b) = [out |-> c, raw |-> 0]
  BY DEF Apply, EachToken
<1>2. \A i \in 1..Len(b) : (c[i] = b[i] /\ b[i] = <<>>) \/ c[i] = Replaced(b[i], s.pattern, s.content)
  BY DEF Texts
<1>3. c = [i \in DOMAIN b |-> c[i]]
  OBVIOUS
<1> HIDE DEF c
<1>4. /\ c \in Texts /\ Len(c) = Len(b) /\ Len(b) \in Nat
      /\ BytesOf(c) <= LiteralBound(Shape(b), s.pattern, s.content)
  <2>1. CASE s.pattern = <<>>
    BY <1>2, <1>3, <2>1, BetweenAnnounced
  <2>2. CASE \E x \in Symbol : s.pattern = <<x>>
    <3> PICK x \in Symbol : s.pattern = <<x>>
      BY <2>2
    <3> QED
      BY <1>2, <1>3, SymbolAnnounced
  <2> QED
    BY <2>1, <2>2 DEF ShortPattern
<1>5. OutputBound(s, Shape(b)) =
        [bytes |-> LiteralBound(Shape(b), s.pattern, s.content), spans |-> Len(b)]
  BY DEF OutputBound, Shape
<1> QED
  BY <1>1, <1>4, <1>5 DEF Announced

LEMMA ReplaceRegexAnnounced ==
  ASSUME NEW b \in Texts, NEW s, s.op = "ReplaceRegex", s.content \in Text
  PROVE  Announced(s, b)
<1> DEFINE c == [i \in DOMAIN b |-> IF b[i] = <<>> THEN b[i] ELSE Replaced(b[i], <<>>, s.content)]
<1>1. Apply(s, b) = [out |-> c, raw |-> 0]
  BY DEF Apply, EachToken
<1>2. \A i \in 1..Len(b) : (c[i] = b[i] /\ b[i] = <<>>) \/ c[i] = Replaced(b[i], <<>>, s.content)
  BY DEF Texts
<1>3. c = [i \in DOMAIN b |-> c[i]]
  OBVIOUS
<1> HIDE DEF c
<1>4. /\ c \in Texts /\ Len(c) = Len(b) /\ Len(b) \in Nat
      /\ BytesOf(c) <= LiteralBound(Shape(b), <<>>, s.content)
  BY <1>2, <1>3, BetweenAnnounced
<1>5. OutputBound(s, Shape(b)) =
        [bytes |-> LiteralBound(Shape(b), <<>>, s.content), spans |-> Len(b)]
  BY DEF OutputBound, Shape
<1> QED
  BY <1>1, <1>4, <1>5 DEF Announced

(* Stage::output_bound bounds what Stage::apply writes, in tokens and in    *)
(* bytes, and the raw bytes it holds, for every stage and every buffer.     *)
THEOREM StageIsBounded == ASSUME NEW b \in Texts, NEW s, IsStage(s) PROVE Announced(s, b)
<1>1. CASE s.op = "ByteLevel"
  BY <1>1, ByteLevelAnnounced
<1>2. CASE s.op = "CtcDeduplicate"
  BY <1>2, CtcDeduplicateAnnounced
<1>3. CASE s.op = "FilterEmpty"
  BY <1>3, FilterEmptyAnnounced
<1>4. CASE s.op = "Fuse"
  BY <1>4, FuseAnnounced
<1>5. CASE s.op = "ByteFallback"
  BY <1>5, ByteFallbackAnnounced
<1>6. CASE s.op = "Metaspace"
  BY <1>6, MetaspaceAnnounced
<1>7. CASE s.op = "Bpe"
  <2>1. ShortPattern(s.pattern)
    BY <1>7 DEF IsStage
  <2> QED
    BY <1>7, <2>1, BpeAnnounced
<1>8. CASE s.op = "WordPiecePrefix"
  <2>1. s.pattern \in Text
    BY <1>8 DEF IsStage
  <2> QED
    BY <1>8, <2>1, WordPiecePrefixAnnounced
<1>9. CASE s.op = "ReplaceLiteral"
  <2>1. ShortPattern(s.pattern) /\ s.content \in Text
    BY <1>9 DEF IsStage
  <2> QED
    BY <1>9, <2>1, ReplaceLiteralAnnounced
<1>10. CASE s.op = "ReplaceRegex"
  <2>1. s.content \in Text
    BY <1>10 DEF IsStage
  <2> QED
    BY <1>10, <2>1, ReplaceRegexAnnounced
<1>11. CASE s.op = "Strip"
  <2>1. s.start \in Nat /\ s.stop \in Nat
    BY <1>11 DEF IsStage
  <2> QED
    BY <1>11, <2>1, StripAnnounced
<1> QED
  BY <1>1, <1>2, <1>3, <1>4, <1>5, <1>6, <1>7, <1>8, <1>9, <1>10, <1>11 DEF IsStage

------------------------------------------------------------------------------
(* The bound for a larger shape is larger. *)
IsShape(x) == x.bytes \in Nat /\ x.spans \in Nat
Below(x, y) == x.bytes <= y.bytes /\ x.spans <= y.spans

(* The bound of a replacement, for a larger shape. *)
LEMMA LiteralBoundGrows ==
  ASSUME NEW x, IsShape(x), NEW y, IsShape(y), Below(x, y), NEW p, ShortPattern(p), NEW c \in Text
  PROVE  /\ LiteralBound(x, p, c) \in Nat /\ LiteralBound(y, p, c) \in Nat
         /\ LiteralBound(x, p, c) <= LiteralBound(y, p, c)
<1> DEFINE w == Bytes(c)
           v == Bytes(p)
<1>1. w \in Nat /\ v \in Nat
  BY BytesNat DEF ShortPattern
<1>2. x.bytes \in Nat /\ x.spans \in Nat /\ y.bytes \in Nat /\ y.spans \in Nat
      /\ x.bytes <= y.bytes /\ x.spans <= y.spans
  BY DEF IsShape, Below
<1>3. CASE p = <<>>
  <2>1. LiteralBound(x, p, c) = x.bytes + (x.bytes + x.spans) * w
        /\ LiteralBound(y, p, c) = y.bytes + (y.bytes + y.spans) * w
    BY <1>3 DEF LiteralBound
  <2> DEFINE k == x.bytes + x.spans
             l == y.bytes + y.spans
  <2>2. k \in Nat /\ l \in Nat /\ k <= l
    BY <1>2
  <2> HIDE DEF w, k, l
  <2>3. k * w <= l * w /\ k * w \in Nat /\ l * w \in Nat
    BY <1>1, <2>2, MulMono
  <2>4. LiteralBound(x, p, c) = x.bytes + k * w /\ LiteralBound(y, p, c) = y.bytes + l * w
    BY <2>1 DEF k, l
  <2> QED
    BY <1>2, <2>3, <2>4
<1>4. CASE p # <<>>
  <2> DEFINE Bound(z) == z.bytes + (IF w - v <= 0 THEN 0 ELSE (z.bytes \div v) * (w - v))
  <2>1. LiteralBound(x, p, c) = Bound(x) /\ LiteralBound(y, p, c) = Bound(y)
    BY <1>4 DEF LiteralBound
  <2>2. v \in Nat \ {0}
    BY <1>1, <1>4, BytesZero DEF ShortPattern
  <2> HIDE DEF w, v
  <2>3. CASE w - v <= 0
    BY <1>2, <2>1, <2>3
  <2>4. CASE ~(w - v <= 0)
    <3>1. w - v \in Nat
      BY <1>1, <2>4
    <3> DEFINE d == w - v
               k == x.bytes \div v
               l == y.bytes \div v
    <3>2. k \in Nat /\ l \in Nat /\ k <= l
      BY <1>2, <2>2, DivMono
    <3> HIDE DEF d, k, l
    <3>3. k * d <= l * d /\ k * d \in Nat /\ l * d \in Nat
      BY <3>1, <3>2, MulMono DEF d
    <3>4. Bound(x) = x.bytes + k * d /\ Bound(y) = y.bytes + l * d
      BY <2>4 DEF d, k, l
    <3> HIDE DEF Bound
    <3> QED
      BY <1>2, <2>1, <3>3, <3>4
  <2> QED
    BY <2>3, <2>4
<1> QED
  BY <1>3, <1>4

LEMMA OutputBoundGrows ==
  ASSUME NEW s, IsStage(s), NEW x, IsShape(x), NEW y, IsShape(y), Below(x, y)
  PROVE  /\ IsShape(OutputBound(s, x)) /\ IsShape(OutputBound(s, y))
         /\ OutputBound(s, x) = [bytes |-> OutputBound(s, x).bytes, spans |-> OutputBound(s, x).spans]
         /\ Below(OutputBound(s, x), OutputBound(s, y))
<1> DEFINE a == OutputBound(s, x)
           b == OutputBound(s, y)
<1>0. x.bytes \in Nat /\ x.spans \in Nat /\ y.bytes \in Nat /\ y.spans \in Nat
      /\ x.bytes <= y.bytes /\ x.spans <= y.spans
  BY DEF IsShape, Below
<1>1. a = [bytes |-> a.bytes, spans |-> a.spans]
  BY DEF OutputBound
<1>2. a.spans \in Nat /\ b.spans \in Nat /\ a.spans <= b.spans
  BY <1>0 DEF OutputBound
<1>3. a.bytes \in Nat /\ b.bytes \in Nat /\ a.bytes <= b.bytes
  <2>1. CASE s.op = "ReplaceLiteral"
    <3>1. ShortPattern(s.pattern) /\ s.content \in Text
      BY <2>1 DEF IsStage
    <3>2. a.bytes = LiteralBound(x, s.pattern, s.content) /\ b.bytes = LiteralBound(y, s.pattern, s.content)
      BY <2>1 DEF OutputBound
    <3> QED
      BY <3>1, <3>2, LiteralBoundGrows
  <2>2. CASE s.op = "ReplaceRegex"
    <3>1. ShortPattern(<<>>) /\ s.content \in Text
      BY <2>2, BytesEmpty DEF IsStage, ShortPattern
    <3>2. a.bytes = LiteralBound(x, <<>>, s.content) /\ b.bytes = LiteralBound(y, <<>>, s.content)
      BY <2>2 DEF OutputBound
    <3> QED
      BY <3>1, <3>2, LiteralBoundGrows
  <2>3. CASE s.op = "Bpe"
    <3>1. \/ a.bytes = 2 * x.bytes + x.spans /\ b.bytes = 2 * y.bytes + y.spans
          \/ a.bytes = x.bytes /\ b.bytes = y.bytes
      BY <2>3 DEF OutputBound, BpeBound
    <3> QED
      BY <1>0, <3>1
  <2>4. CASE s.op = "ByteLevel"
    BY <1>0, <2>4 DEF OutputBound
  <2>5. CASE s.op = "WordPiecePrefix"
    BY <1>0, <2>5 DEF OutputBound, OneLess
  <2>6. CASE s.op \notin {"ReplaceLiteral", "ReplaceRegex", "Bpe", "ByteLevel", "WordPiecePrefix"}
    BY <1>0, <2>6 DEF OutputBound
  <2> QED
    BY <2>1, <2>2, <2>3, <2>4, <2>5, <2>6
<1> QED
  BY <1>1, <1>2, <1>3 DEF IsShape, Below

------------------------------------------------------------------------------
(* The plan has room for every stage on the way. *)
Planned == [shape : [bytes : Nat, spans : Nat], arena : Nat, spans : Nat, raw : Nat]
Plans(program, longest, n) == Passes(PlanStage, FirstPlan(longest, n), program)

(* What one plan has room for, a later one has. *)
Holds(p, q) == p.arena <= q.arena /\ p.spans <= q.spans /\ p.raw <= q.raw
HasRoom(room, x) == x.bytes <= room.arena /\ x.spans <= room.spans

(* The plan after one more stage has room for what the stage writes. *)
LEMMA PlanStageIs ==
  ASSUME NEW room \in Planned, HasRoom(room, room.shape), NEW s, IsStage(s)
  PROVE  LET q == PlanStage(room, s)
         IN /\ q \in Planned /\ HasRoom(q, q.shape) /\ Holds(room, q)
            /\ q.shape = OutputBound(s, room.shape)
            /\ s.op \in {"ByteLevel", "ByteFallback"} => room.shape.bytes <= q.raw
<1> DEFINE x == room.shape
           y == OutputBound(s, x)
           q == PlanStage(room, s)
<1>1. /\ room.arena \in Nat /\ room.spans \in Nat /\ room.raw \in Nat
      /\ x.bytes \in Nat /\ x.spans \in Nat
  BY DEF Planned
<1>2. IsShape(x) /\ Below(x, x)
  BY <1>1 DEF IsShape, Below
<1> HIDE DEF x
<1>3. y = [bytes |-> y.bytes, spans |-> y.spans] /\ y.bytes \in Nat /\ y.spans \in Nat
  BY <1>2, OutputBoundGrows DEF IsShape
<1>4. /\ q.shape = y
      /\ q.arena = Larger(room.arena, y.bytes) /\ q.spans = Larger(room.spans, y.spans)
      /\ q.raw = IF s.op \in {"ByteLevel", "ByteFallback"} THEN Larger(room.raw, x.bytes) ELSE room.raw
      /\ q = [shape |-> q.shape, arena |-> q.arena, spans |-> q.spans, raw |-> q.raw]
  BY DEF PlanStage, x
<1> HIDE DEF q, y
<1>5. /\ q.arena \in Nat /\ room.arena <= q.arena /\ y.bytes <= q.arena
      /\ q.spans \in Nat /\ room.spans <= q.spans /\ y.spans <= q.spans
  BY <1>1, <1>3, <1>4 DEF Larger
<1>6. /\ q.raw \in Nat /\ room.raw <= q.raw
      /\ s.op \in {"ByteLevel", "ByteFallback"} => x.bytes <= q.raw
  <2>1. CASE s.op \in {"ByteLevel", "ByteFallback"}
    BY <1>1, <1>4, <2>1 DEF Larger
  <2>2. CASE s.op \notin {"ByteLevel", "ByteFallback"}
    BY <1>1, <1>4, <2>2
  <2> QED
    BY <2>1, <2>2
<1>7. y \in [bytes : Nat, spans : Nat]
  BY <1>3
<1>8. q \in Planned
  BY <1>4, <1>5, <1>6, <1>7 DEF Planned
<1> QED
  BY <1>4, <1>5, <1>6, <1>8 DEF HasRoom, Holds, q, x, y

(* storage_plan, stage by stage. *)
LEMMA PlansAre ==
  ASSUME NEW p, IsProgram(p), NEW longest \in Nat, NEW m \in Nat
  PROVE  /\ Len(p) \in Nat /\ DOMAIN p = 1..Len(p)
         /\ Plans(p, longest, m) \in [0..Len(p) -> Planned]
         /\ Plans(p, longest, m)[0] = FirstPlan(longest, m)
         /\ \A k \in 1..Len(p) : Plans(p, longest, m)[k] = PlanStage(Plans(p, longest, m)[k - 1], p[k])
         /\ \A k \in 0..Len(p) : HasRoom(Plans(p, longest, m)[k], Plans(p, longest, m)[k].shape)
         /\ Pass(PlanStage, FirstPlan(longest, m), p) = Plans(p, longest, m)[Len(p)]
<1> DEFINE n == Len(p)
           base == FirstPlan(longest, m)
           Roomy == {x \in Planned : HasRoom(x, x.shape)}
           F == [k \in 1..n |-> [x \in Roomy |-> PlanStage(x, p[k])]]
           Is(f) == f = [k \in 0..n |-> IF k = 0 THEN base ELSE PlanStage(f[k - 1], p[k])]
<1>1. n \in Nat /\ DOMAIN p = 1..n /\ \A k \in 1..n : IsStage(p[k])
  BY DEF IsProgram
<1>2. base \in Roomy /\ AreSteps(F, Roomy, n)
  <2>1. \A k \in 1..n : \A x \in Roomy : PlanStage(x, p[k]) \in Roomy
    BY <1>1, PlanStageIs
  <2>2. base \in Roomy
    <3>1. m * longest \in Nat /\ m * longest <= m * longest /\ m <= m
      OBVIOUS
    <3> DEFINE x == m * longest
    <3>2. base = [shape |-> [bytes |-> x, spans |-> m], arena |-> x, spans |-> m, raw |-> 0]
      BY DEF FirstPlan
    <3> HIDE DEF x, base
    <3> QED
      BY <3>1, <3>2 DEF Planned, HasRoom, x
  <2> HIDE DEF base
  <2> QED
    BY <2>1, <2>2 DEF AreSteps
<1> HIDE DEF n, base, Roomy
<1>3. PICK g : AreTaken(g, F, Roomy, base, n)
  <2> HIDE DEF F
  <2> QED
    BY <1>1, <1>2, StepsExist
<1>4. Is(g)
  <2>1. /\ g \in [0..n -> Roomy] /\ g[0] = base /\ \A k \in 1..n : g[k] = F[k][g[k - 1]]
    BY <1>3 DEF AreTaken
  <2>2. ASSUME NEW k \in 1..n PROVE g[k] = PlanStage(g[k - 1], p[k])
    <3>1. g[k - 1] \in Roomy
      BY <1>1, <2>1
    <3> QED
      BY <2>1, <3>1
  <2> QED
    BY <1>1, <2>1, <2>2
<1> DEFINE r == Plans(p, longest, m)
<1>5. r = CHOOSE f : Is(f)
  BY DEF Plans, Passes, n, base
<1> HIDE DEF r
<1>6. Is(r)
  <2> HIDE DEF Is
  <2> QED
    BY <1>4, <1>5
<1>7. r = [k \in 0..n |-> r[k]] /\ r[0] = base /\ \A k \in 1..n : r[k] = PlanStage(r[k - 1], p[k])
  BY <1>1, <1>6
<1>8. r \in [0..n -> Roomy]
  <2>1. \A k \in 1..n : r[k - 1] \in Roomy => r[k] \in Roomy
    BY <1>1, <1>7, PlanStageIs DEF Roomy
  <2> QED
    BY <1>1, <1>2, <1>7, <2>1, StaysIn
<1> QED
  BY <1>1, <1>7, <1>8 DEF r, n, base, Roomy, Pass, Plans

(* The last plan has room for every stage. *)
LEMMA LastPlanHolds ==
  ASSUME NEW p, IsProgram(p), NEW longest \in Nat, NEW m \in Nat
  PROVE  \A k \in 0..Len(p) : Holds(Plans(p, longest, m)[k], Plans(p, longest, m)[Len(p)])
<1> DEFINE n == Len(p)
           r == Plans(p, longest, m)
           P == {j \in 0..n : \A k \in 0..j : Holds(r[k], r[j])}
<1>1. n \in Nat /\ \A k \in 1..n : IsStage(p[k])
  BY PlansAre DEF IsProgram
<1>2. /\ r \in [0..n -> Planned]
      /\ \A k \in 1..n : r[k] = PlanStage(r[k - 1], p[k])
      /\ \A k \in 0..n : HasRoom(r[k], r[k].shape)
  BY PlansAre
<1> HIDE DEF n, r
<1>3. \A k \in 0..n : r[k].arena \in Nat /\ r[k].spans \in Nat /\ r[k].raw \in Nat
  BY <1>2 DEF Planned
<1>4. 0 \in P
  BY <1>1, <1>3 DEF Holds
<1>5. ASSUME NEW j \in 1..n, j - 1 \in P PROVE j \in P
  <2>0. \A k \in 0..(j - 1) : Holds(r[k], r[j - 1])
    BY <1>5
  <2>1. j \in 0..n /\ j - 1 \in 0..n
    BY <1>1
  <2> HIDE DEF P
  <2>2. Holds(r[j - 1], r[j])
    <3>1. r[j - 1] \in Planned /\ HasRoom(r[j - 1], r[j - 1].shape) /\ IsStage(p[j])
      BY <1>1, <1>2, <2>1
    <3>2. Holds(r[j - 1], PlanStage(r[j - 1], p[j]))
      BY <3>1, PlanStageIs
    <3> QED
      BY <1>2, <3>2
  <2>3. ASSUME NEW k \in 0..j PROVE Holds(r[k], r[j])
    <3>1. CASE k = j
      BY <1>3, <2>1, <3>1 DEF Holds
    <3>2. CASE k # j
      <4>1. k \in 0..(j - 1) /\ k \in 0..n
        BY <1>1, <2>1, <3>2
      <4>2. Holds(r[k], r[j - 1])
        BY <2>0, <4>1
      <4> DEFINE x == r[k]
                 y == r[j - 1]
                 z == r[j]
      <4>3. /\ x.arena \in Nat /\ x.spans \in Nat /\ x.raw \in Nat
            /\ y.arena \in Nat /\ y.spans \in Nat /\ y.raw \in Nat
            /\ z.arena \in Nat /\ z.spans \in Nat /\ z.raw \in Nat
        BY <1>3, <2>1, <4>1
      <4>4. Holds(x, y) /\ Holds(y, z)
        BY <2>2, <4>2
      <4> HIDE DEF x, y, z
      <4>5. Holds(x, z)
        BY <4>3, <4>4 DEF Holds
      <4> QED
        BY <4>5 DEF x, z
    <3> QED
      BY <3>1, <3>2
  <2> QED
    BY <2>1, <2>3 DEF P
<1> HIDE DEF P
<1>6. \A j \in 0..n : j \in P
  BY <1>1, <1>4, <1>5, UpTo
<1>7. n \in P
  BY <1>1, <1>6
<1> QED
  BY <1>7 DEF P, r, n

(* The spaces that join the tokens are one less than the tokens. *)
LEMMA JoinedIs ==
  ASSUME NEW b \in Texts
  PROVE  Joined(b) \in Text /\ Bytes(Joined(b)) <= BytesOf(b) + OneLess(Len(b))
<1> DEFINE c == [i \in DOMAIN b |-> IF i = 1 THEN b[i] ELSE <<"space">> \o b[i]]
<1>1. \A i \in 1..Len(b) : c[i] \in Text /\ Bytes(c[i]) <= Bytes(b[i]) + (IF i = 1 THEN 0 ELSE 1)
  <2> TAKE i \in 1..Len(b)
  <2>1. b[i] \in Text /\ Bytes(b[i]) \in Nat
    BY BytesNat DEF Texts
  <2>2. "space" \in Symbol /\ Width["space"] = 1
    BY DEF Symbol, Width
  <2>3. <<"space">> \in Text /\ Bytes(<<"space">>) = 1
    BY <2>2, BytesOne
  <2>4. <<"space">> \o b[i] \in Text /\ Bytes(<<"space">> \o b[i]) = 1 + Bytes(b[i])
    BY <2>1, <2>3, BytesConcat
  <2>5. c[i] = IF i = 1 THEN b[i] ELSE <<"space">> \o b[i]
    BY DEF Texts
  <2> DEFINE d == <<"space">> \o b[i]
  <2> HIDE DEF c, d
  <2>6. c[i] = (IF i = 1 THEN b[i] ELSE d) /\ d \in Text /\ Bytes(d) = 1 + Bytes(b[i])
    BY <2>4, <2>5 DEF d
  <2> QED
    BY <2>1, <2>6
<1>2. c = [i \in DOMAIN b |-> c[i]]
  OBVIOUS
<1>3. Joined(b) = FlattenSeq(c)
  BY DEF Joined
<1> HIDE DEF c
<1>4. c \in Texts /\ Len(c) = Len(b)
  BY <1>1, <1>2, EachTokenIs
<1>5. BytesOf(c) <= BytesOf(b) + OneLess(Len(b))
  BY <1>1, <1>4, GrowsButFirst
<1>6. FlattenSeq(c) \in Text /\ BytesOf(c) = Bytes(FlattenSeq(c))
  BY <1>4, TotalsAre DEF BytesOf
<1> QED
  BY <1>3, <1>5, <1>6

(* Finitely many numbers have a largest. *)
LEMMA LargestExists ==
  ASSUME NEW D, IsFiniteSet(D), NEW w \in [D -> Nat]
  PROVE  \E m \in {0} \cup {w[i] : i \in D} : \A i \in D : w[i] <= m
<1>1. PICK n \in Nat : ExistsBijection(1..n, D)
  BY FS_NatBijection
<1>2. PICK g \in [1..n -> D] : \A i \in D : \E k \in 1..n : g[k] = i
  BY <1>1 DEF ExistsBijection, Bijection, Surjection
<1> DEFINE W == {0} \cup {w[i] : i \in D}
           P == {k \in 0..n : \E m \in W : \A j \in 1..k : w[g[j]] <= m}
<1>3. 0 \in P
  <2>1. 0 \in W /\ 0 \in 0..n
    OBVIOUS
  <2> HIDE DEF W
  <2>2. \A j \in 1..0 : w[g[j]] <= 0
    OBVIOUS
  <2> QED
    BY <2>1, <2>2
<1>4. ASSUME NEW k \in 1..n, k - 1 \in P PROVE k \in P
  <2>1. PICK m \in W : \A j \in 1..(k - 1) : w[g[j]] <= m
    BY <1>4
  <2>2. m \in Nat
    OBVIOUS
  <2>3. g[k] \in D /\ w[g[k]] \in W /\ w[g[k]] \in Nat /\ k \in 0..n
    OBVIOUS
  <2>4. \A j \in 1..k : j \in 1..(k - 1) \/ j = k
    OBVIOUS
  <2>5. \A j \in 1..(k - 1) : w[g[j]] \in Nat
    OBVIOUS
  <2> HIDE DEF W
  <2>6. CASE w[g[k]] <= m
    <3>1. \A j \in 1..k : w[g[j]] <= m
      BY <2>1, <2>4, <2>6
    <3> QED
      BY <2>3, <3>1
  <2>7. CASE m < w[g[k]]
    <3>1. \A j \in 1..k : w[g[j]] <= w[g[k]]
      BY <2>1, <2>2, <2>3, <2>4, <2>5, <2>7
    <3> QED
      BY <2>3, <3>1
  <2> QED
    BY <2>2, <2>3, <2>6, <2>7
<1>5. n \in P
  <2> HIDE DEF P
  <2>1. \A k \in 0..n : k \in P
    BY <1>3, <1>4, UpTo
  <2> QED
    BY <2>1
<1> QED
  BY <1>2, <1>5

(* Vocabulary::compile finds the longest spelling. *)
LEMMA MaxSpellingIs ==
  ASSUME NEW t \in Tokenizers
  PROVE  /\ MaxSpelling(t) \in Nat
         /\ \A i \in DOMAIN t.spelling : t.spelling[i] \in Text /\ Bytes(t.spelling[i]) <= MaxSpelling(t)
<1> DEFINE D == DOMAIN t.spelling
           w == [i \in D |-> Bytes(t.spelling[i])]
           W == {0} \cup {Bytes(t.spelling[i]) : i \in D}
<1>1. IsFiniteSet(D) /\ \A i \in D : t.spelling[i] \in Text
  BY TokenAssumption
<1>2. w \in [D -> Nat]
  BY <1>1, BytesNat
<1>3. {0} \cup {w[i] : i \in D} = W
  OBVIOUS
<1>4. \E m \in W : \A i \in D : Bytes(t.spelling[i]) <= m
  <2>1. \E m \in {0} \cup {w[i] : i \in D} : \A i \in D : w[i] <= m
    <3> HIDE DEF w, D
    <3> QED
      BY <1>1, <1>2, LargestExists
  <2> QED
    BY <1>3, <2>1
<1>5. MaxSpelling(t) \in W /\ \A i \in D : Bytes(t.spelling[i]) <= MaxSpelling(t)
  BY <1>4 DEF MaxSpelling
<1>6. W \subseteq Nat
  BY <1>1, BytesNat
<1> QED
  BY <1>1, <1>5, <1>6

(* Vocabulary::seed writes no more than the tokens' number of spellings.   *)
LEMMA SpelledIs ==
  ASSUME NEW S, NEW tokens \in Seq(S), tokenizer \in Tokenizers
  PROVE  /\ Spelled(tokens) \in Texts /\ Len(Spelled(tokens)) <= Len(tokens)
         /\ BytesOf(Spelled(tokens)) <= Len(tokens) * MaxSpelling(tokenizer)
<1> DEFINE D == DOMAIN tokenizer.spelling
           p == [i \in DOMAIN tokens |-> IF tokens[i] \in D THEN <<tokens[i]>> ELSE <<>>]
           spelled == FlattenSeq(p)
           c == [i \in DOMAIN spelled |-> tokenizer.spelling[spelled[i]]]
           longest == MaxSpelling(tokenizer)
<1>1. Spelled(tokens) = c
  BY DEF Spelled, Kept
<1>2. DOMAIN tokens = 1..Len(tokens) /\ Len(tokens) \in Nat /\ \A i \in 1..Len(tokens) : tokens[i] \in S
  OBVIOUS
<1>3. p \in Seq(Seq(D)) /\ p \in Seq(Seq(S)) /\ Selects(p, tokens)
  <2>1. \A i \in 1..Len(tokens) : /\ p[i] = <<tokens[i]>> \/ p[i] = <<>>
                                  /\ p[i] \in Seq(D) /\ p[i] \in Seq(S)
    <3> TAKE i \in 1..Len(tokens)
    <3>1. p[i] = IF tokens[i] \in D THEN <<tokens[i]>> ELSE <<>>
      BY <1>2
    <3>2. tokens[i] \in S /\ <<tokens[i]>> \in Seq(S) /\ <<>> \in Seq(S) /\ <<>> \in Seq(D)
      BY <1>2
    <3> HIDE DEF p, D
    <3>3. tokens[i] \in D => <<tokens[i]>> \in Seq(D)
      OBVIOUS
    <3> QED
      BY <3>1, <3>2, <3>3
  <2>2. p = [i \in 1..Len(tokens) |-> p[i]]
    BY <1>2
  <2> HIDE DEF p, D
  <2> QED
    BY <1>2, <2>1, <2>2 DEF Selects
<1> HIDE DEF p
<1>4. spelled \in Seq(D) /\ Len(spelled) <= Len(tokens)
  <2>1. FlattenSeq(p) \in Seq(D)
    <3> HIDE DEF D
    <3> QED
      BY <1>3, FlattenIs
  <2>2. Len(FlattenSeq(p)) <= Len(tokens)
    BY <1>3, SelectedFits
  <2> QED
    BY <2>1, <2>2
<1> HIDE DEF spelled
<1>5. longest \in Nat /\ \A i \in D : /\ tokenizer.spelling[i] \in Text
                                      /\ Bytes(tokenizer.spelling[i]) <= longest
  BY MaxSpellingIs
<1>6. /\ Len(spelled) \in Nat /\ DOMAIN spelled = 1..Len(spelled)
      /\ \A i \in 1..Len(spelled) : spelled[i] \in D
  BY <1>4
<1>7. /\ c \in Texts /\ Len(c) = Len(spelled)
      /\ \A i \in 1..Len(c) : Bytes(c[i]) <= Bytes(c[i]) * 0 + longest
  <2>1. \A i \in 1..Len(spelled) : c[i] = tokenizer.spelling[spelled[i]]
    BY <1>6
  <2>2. c = [i \in 1..Len(spelled) |-> c[i]]
    BY <1>6
  <2> HIDE DEF c, longest
  <2>3. \A i \in 1..Len(spelled) : c[i] \in Text /\ Bytes(c[i]) <= longest
    BY <1>5, <1>6, <2>1
  <2>4. c \in Texts /\ Len(c) = Len(spelled)
    BY <1>6, <2>2, <2>3 DEF Texts
  <2>5. \A i \in 1..Len(spelled) : Bytes(c[i]) \in Nat
    BY <2>3, BytesNat
  <2>6. \A i \in 1..Len(spelled) : Bytes(c[i]) <= Bytes(c[i]) * 0 + longest
    BY <1>5, <2>3, <2>5
  <2> QED
    BY <2>4, <2>6
<1> HIDE DEF c, longest, D
<1>8. BytesOf(c) <= BytesOf(c) * 0 + Len(c) * longest /\ BytesOf(c) \in Nat
  BY <1>5, <1>7, GrowsBy, TotalsAre
<1>9. Len(c) * longest <= Len(tokens) * longest
  BY <1>2, <1>4, <1>5, <1>6, <1>7, MulMono
<1>10. Len(c) * longest \in Nat /\ Len(tokens) * longest \in Nat
  BY <1>2, <1>5, <1>6, <1>7, MulMono
<1> QED
  <2> DEFINE x == Len(c) * longest
             y == Len(tokens) * longest
  <2>1. BytesOf(c) <= x
    <3>1. BytesOf(c) * 0 = 0
      BY <1>8
    <3> HIDE DEF x
    <3>2. BytesOf(c) <= 0 + x
      BY <1>8, <3>1 DEF x
    <3> QED
      BY <1>8, <1>10, <3>2 DEF x
  <2>2. x <= y /\ x \in Nat /\ y \in Nat
    BY <1>9, <1>10
  <2> HIDE DEF x, y
  <2>3. BytesOf(c) <= y
    BY <1>8, <2>1, <2>2
  <2> QED
    BY <1>1, <1>4, <1>7, <2>3 DEF y, longest

------------------------------------------------------------------------------
(* A generation and its planned storage. *)
PlanOf(t) == StoragePlan(t.program, t.joined, MaxSpelling(t), MaxOutputTokens)
PlansOf(t) == Plans(t.program, MaxSpelling(t), MaxOutputTokens)

(* The inductive invariant: a driver that may go on has room for a token,   *)
(* and the stage that is due is given a buffer within the shape planned for *)
(* its input.                                                               *)
GenerationInv ==
  /\ tokenizer \in Tokenizers /\ plan = PlanOf(tokenizer)
  /\ ids \in Seq(Token(tokenizer)) /\ Len(ids) <= MaxOutputTokens
  /\ pc \in {"acquire", "step", "select"} => Len(ids) < MaxOutputTokens
  /\ pc \in {"acquire", "step", "select", "seed"} => stage = 1
  /\ result \notin {"Exhausted", "TokenCapacity"}
  /\ pc = "decode" =>
       /\ stage \in 1..(Len(tokenizer.program) + 1)
       /\ first \in Texts /\ Below(Shape(first), PlansOf(tokenizer)[stage - 1].shape)

(* The plan of a tokenizer, and the plans on the way to it. *)
LEMMA PlanOfIs ==
  ASSUME NEW t \in Tokenizers
  PROVE  LET n == Len(t.program)
             plans == PlansOf(t)
         IN /\ IsProgram(t.program) /\ t.joined \in BOOLEAN /\ n \in Nat
            /\ plans \in [0..n -> Planned]
            /\ plans[0].shape = [bytes |-> MaxOutputTokens * MaxSpelling(t), spans |-> MaxOutputTokens]
            /\ \A k \in 0..n : Holds(plans[k], PlanOf(t)) /\ HasRoom(PlanOf(t), plans[k].shape)
            /\ \A k \in 1..n : plans[k] = PlanStage(plans[k - 1], t.program[k])
            /\ PlanOf(t).maximum = plans[n].shape.bytes + (IF t.joined THEN OneLess(plans[n].shape.spans) ELSE 0)
            /\ PlanOf(t).tokens = MaxOutputTokens
            /\ PlanOf(t).arena \in Nat /\ PlanOf(t).spans \in Nat /\ PlanOf(t).raw \in Nat
<1> DEFINE n == Len(t.program)
           plans == PlansOf(t)
           p == t.program
           longest == MaxSpelling(t)
           last == plans[n]
           of == PlanOf(t)
<1>1. IsProgram(p) /\ t.joined \in BOOLEAN
  BY TokenAssumption
<1>2. longest \in Nat /\ MaxOutputTokens \in Nat
  BY MaxSpellingIs, LimitAssumption
<1> HIDE DEF longest
<1>3. /\ n \in Nat /\ plans \in [0..n -> Planned] /\ plans[0] = FirstPlan(longest, MaxOutputTokens)
      /\ \A k \in 1..n : plans[k] = PlanStage(plans[k - 1], p[k])
      /\ \A k \in 0..n : HasRoom(plans[k], plans[k].shape)
      /\ Pass(PlanStage, FirstPlan(longest, MaxOutputTokens), p) = plans[n]
  BY <1>1, <1>2, PlansAre DEF PlansOf, longest
<1>4. \A k \in 0..n : Holds(plans[k], plans[n])
  BY <1>1, <1>2, LastPlanHolds DEF PlansOf, longest
<1>5. of = [tokens |-> MaxOutputTokens, arena |-> last.arena, spans |-> last.spans, raw |-> last.raw,
            maximum |-> last.shape.bytes + IF t.joined THEN OneLess(last.shape.spans) ELSE 0]
  BY <1>3 DEF PlanOf, StoragePlan, longest
<1>6. plans[0].shape = [bytes |-> MaxOutputTokens * longest, spans |-> MaxOutputTokens]
  BY <1>3 DEF FirstPlan
<1> HIDE DEF n, plans, of
<1>7. last \in Planned /\ n \in 0..n
  BY <1>3
<1>8. /\ of.arena = last.arena /\ of.spans = last.spans /\ of.raw = last.raw
      /\ of.arena \in Nat /\ of.spans \in Nat /\ of.raw \in Nat
  BY <1>5, <1>7 DEF Planned
<1>9. ASSUME NEW k \in 0..n PROVE Holds(plans[k], of) /\ HasRoom(of, plans[k].shape)
  <2> DEFINE q == plans[k]
  <2>1. q \in Planned /\ Holds(q, last) /\ HasRoom(q, q.shape)
    BY <1>3, <1>4
  <2> HIDE DEF q
  <2>2. /\ q.arena \in Nat /\ q.spans \in Nat /\ q.raw \in Nat
        /\ q.shape.bytes \in Nat /\ q.shape.spans \in Nat
    BY <2>1 DEF Planned
  <2> QED
    BY <1>8, <2>1, <2>2 DEF Holds, HasRoom, q
<1> QED
  BY <1>1, <1>3, <1>5, <1>6, <1>8, <1>9 DEF n, plans, of, longest

(* The inductive invariant holds at the start, ... *)
LEMMA GenerationInvStart == GenerationInit => GenerationInv
<1> SUFFICES ASSUME GenerationInit PROVE GenerationInv
  OBVIOUS
<1>1. MaxOutputTokens \in Nat \ {0}
  BY LimitAssumption
<1> QED
  BY <1>1 DEF GenerationInit, GenerationInv, PlanOf, None

(* ... is kept by each step, ... *)
LEMMA SeedKeeps == GenerationInv /\ Seed => GenerationInv'
<1> SUFFICES ASSUME GenerationInv, Seed PROVE GenerationInv'
  OBVIOUS
<1> DEFINE plans == PlansOf(tokenizer)
<1>1. tokenizer \in Tokenizers /\ plan = PlanOf(tokenizer) /\ ids \in Seq(Token(tokenizer))
      /\ Len(ids) <= MaxOutputTokens /\ stage = 1
  BY DEF GenerationInv, Seed, AtBoundary
<1>2. /\ plans[0].shape = [bytes |-> MaxOutputTokens * MaxSpelling(tokenizer), spans |-> MaxOutputTokens]
      /\ HasRoom(plan, plans[0].shape) /\ plan.raw \in Nat /\ plan.arena \in Nat /\ plan.spans \in Nat
      /\ Len(tokenizer.program) \in Nat
  <2>1. 0 \in 0..Len(tokenizer.program)
    BY <1>1, PlanOfIs
  <2> QED
    BY <1>1, <2>1, PlanOfIs
<1>3. /\ Seeded \in Texts /\ Len(Seeded) <= Len(ids)
      /\ BytesOf(Seeded) <= Len(ids) * MaxSpelling(tokenizer)
  BY <1>1, SpelledIs DEF Seeded
<1>4. Below(Shape(Seeded), plans[0].shape)
  <2> DEFINE l == MaxSpelling(tokenizer)
             x == Len(ids) * l
             y == MaxOutputTokens * l
  <2>1. l \in Nat /\ MaxOutputTokens \in Nat /\ Len(ids) \in Nat
    BY <1>1, MaxSpellingIs, LimitAssumption
  <2>2. x <= y /\ x \in Nat /\ y \in Nat
    <3> HIDE DEF l
    <3> QED
      BY <1>1, <2>1, MulMono
  <2>3. BytesOf(Seeded) \in Nat /\ Len(Seeded) \in Nat
    BY <1>3, TotalsAre DEF Texts
  <2>4. plans[0].shape.bytes = y /\ plans[0].shape.spans = MaxOutputTokens /\ BytesOf(Seeded) <= x
    BY <1>2, <1>3
  <2> HIDE DEF l, x, y, plans
  <2> QED
    BY <1>1, <1>3, <2>1, <2>2, <2>3, <2>4 DEF Below, Shape
<1>5. Fits(Seeded, 0)
  <2> DEFINE a == plans[0].shape.bytes
             b == plans[0].shape.spans
             u == BytesOf(Seeded)
             v == Len(Seeded)
  <2>1. u <= a /\ v <= b /\ a <= plan.arena /\ b <= plan.spans
    BY <1>2, <1>4 DEF Below, Shape, HasRoom
  <2>2. u \in Nat /\ v \in Nat
    BY <1>3, TotalsAre DEF Texts
  <2>3. a \in Nat /\ b \in Nat
    <3>1. MaxOutputTokens \in Nat /\ MaxSpelling(tokenizer) \in Nat
      BY <1>1, MaxSpellingIs, LimitAssumption
    <3>2. MaxOutputTokens * MaxSpelling(tokenizer) \in Nat
      BY <3>1
    <3> QED
      BY <1>2, <3>1, <3>2
  <2> HIDE DEF a, b, u, v
  <2>4. u <= plan.arena /\ v <= plan.spans /\ 0 <= plan.raw
    BY <1>2, <2>1, <2>2, <2>3
  <2> QED
    BY <2>4 DEF Fits, u, v
<1>6. /\ first' = Seeded /\ pc' = "decode" /\ stage' = stage /\ result' = result
      /\ ids' = ids /\ tokenizer' = tokenizer /\ plan' = plan
  BY <1>5 DEF Seed, request
<1> HIDE DEF plans
<1>7. 1 \in 1..(Len(tokenizer.program) + 1) /\ 1 - 1 = 0
  BY <1>2
<1>8. /\ result \notin {"Exhausted", "TokenCapacity"}
  BY DEF GenerationInv
<1>9. Below(Shape(Seeded), PlansOf(tokenizer)[1 - 1].shape)
  BY <1>4, <1>7 DEF plans
<1> QED
  BY <1>1, <1>3, <1>6, <1>7, <1>8, <1>9 DEF GenerationInv, PlanOf, PlansOf

LEMMA ApplyStageKeeps == GenerationInv /\ ApplyStage => GenerationInv'
<1> SUFFICES ASSUME GenerationInv, ApplyStage PROVE GenerationInv'
  OBVIOUS
<1> DEFINE n == Len(tokenizer.program)
           plans == PlansOf(tokenizer)
           s == tokenizer.program[stage]
           before == plans[stage - 1]
           after == plans[stage]
           done == Apply(s, first)
<1>1. /\ tokenizer \in Tokenizers /\ plan = PlanOf(tokenizer) /\ ids \in Seq(Token(tokenizer))
      /\ Len(ids) <= MaxOutputTokens /\ pc = "decode" /\ stage \in 1..(n + 1) /\ stage <= n
      /\ first \in Texts /\ Below(Shape(first), before.shape)
      /\ result \notin {"Exhausted", "TokenCapacity"}
  BY DEF GenerationInv, ApplyStage
<1>2. n \in Nat
  BY <1>1, PlanOfIs
<1> HIDE DEF n
<1>3. stage \in 1..n /\ stage \in 0..n /\ stage - 1 \in 0..n /\ (stage + 1) - 1 = stage
      /\ stage + 1 \in 1..(n + 1)
  BY <1>1, <1>2
<1>4. /\ plans \in [0..n -> Planned] /\ IsProgram(tokenizer.program)
      /\ after = PlanStage(before, s)
      /\ Holds(after, plan) /\ HasRoom(plan, after.shape)
      /\ plan.arena \in Nat /\ plan.spans \in Nat /\ plan.raw \in Nat
  BY <1>1, <1>3, PlanOfIs DEF n
<1>5. IsStage(s) /\ before \in Planned /\ after \in Planned /\ HasRoom(before, before.shape)
  <2>1. IsStage(s)
    BY <1>3, <1>4 DEF IsProgram, n
  <2>2. MaxSpelling(tokenizer) \in Nat /\ MaxOutputTokens \in Nat
    BY <1>1, MaxSpellingIs, LimitAssumption
  <2>3. HasRoom(before, before.shape)
    BY <1>3, <1>4, <2>2, PlansAre DEF PlansOf, n
  <2> QED
    BY <1>3, <1>4, <2>1, <2>3
<1> HIDE DEF plans, s, before, after
<1>6. /\ after.shape = OutputBound(s, before.shape)
      /\ s.op \in {"ByteLevel", "ByteFallback"} => before.shape.bytes <= after.raw
  BY <1>4, <1>5, PlanStageIs
<1>7. Announced(s, first)
  BY <1>1, <1>5, StageIsBounded
<1> DEFINE bound == OutputBound(s, Shape(first))
<1>8. IsShape(Shape(first)) /\ IsShape(before.shape) /\ IsShape(after.shape)
  <2>1. BytesOf(first) \in Nat /\ Len(first) \in Nat
    BY <1>1, TotalsAre DEF Texts
  <2> QED
    BY <1>5, <2>1 DEF IsShape, Shape, Planned
<1>9. IsShape(bound) /\ Below(bound, after.shape)
  BY <1>1, <1>5, <1>6, <1>8, OutputBoundGrows
<1>10. /\ done.out \in Texts /\ done.raw \in Nat
       /\ BytesOf(done.out) <= bound.bytes /\ Len(done.out) <= bound.spans
       /\ done.raw <= (IF s.op \in {"ByteLevel", "ByteFallback"} THEN BytesOf(first) ELSE 0)
  BY <1>7 DEF Announced
<1> HIDE DEF bound
<1>11. Cleared(second) \o done.out = done.out
  <2> DEFINE o == done.out
  <2> HIDE DEF done
  <2>1. o \in Seq(Text)
    BY <1>10 DEF Texts
  <2> HIDE DEF o
  <2>2. <<>> \o o = o
    BY <2>1
  <2> QED
    BY <2>2 DEF Cleared, o
<1> HIDE DEF done
<1> DEFINE u == BytesOf(done.out)
           v == Len(done.out)
<1>12. u \in Nat /\ v \in Nat
  BY <1>10, TotalsAre DEF Texts
<1>13. u <= bound.bytes /\ v <= bound.spans
  BY <1>10
<1> HIDE DEF u, v
<1>14. u <= after.shape.bytes /\ v <= after.shape.spans
  BY <1>8, <1>9, <1>12, <1>13 DEF IsShape, Below
<1>15. u <= plan.arena /\ v <= plan.spans
  BY <1>4, <1>8, <1>12, <1>14 DEF IsShape, HasRoom
<1>16. done.raw <= plan.raw
  <2> DEFINE w == BytesOf(first)
             x == before.shape.bytes
  <2>1. w \in Nat /\ w <= x /\ x \in Nat /\ after.raw \in Nat /\ after.raw <= plan.raw
    BY <1>1, <1>4, <1>5, <1>8, TotalsAre DEF IsShape, Below, Shape, Planned, Holds
  <2>2. done.raw \in Nat /\ done.raw <= (IF s.op \in {"ByteLevel", "ByteFallback"} THEN w ELSE 0)
    BY <1>10
  <2>3. s.op \in {"ByteLevel", "ByteFallback"} => x <= after.raw
    BY <1>6
  <2> HIDE DEF w, x
  <2>4. CASE s.op \in {"ByteLevel", "ByteFallback"}
    BY <1>4, <2>1, <2>2, <2>3, <2>4
  <2>5. CASE s.op \notin {"ByteLevel", "ByteFallback"}
    BY <1>4, <2>2, <2>5
  <2> QED
    BY <2>4, <2>5
<1>17. Fits(done.out, done.raw)
  BY <1>15, <1>16 DEF Fits, u, v
<1>18. /\ first' = done.out /\ stage' = stage + 1 /\ pc' = pc /\ result' = result
       /\ tokenizer' = tokenizer /\ plan' = plan /\ ids' = ids
  BY <1>11, <1>17 DEF ApplyStage, done, s, request
<1>19. Below(Shape(done.out), PlansOf(tokenizer)[(stage + 1) - 1].shape)
  BY <1>3, <1>14 DEF Below, Shape, u, v, after, plans
<1> QED
  BY <1>1, <1>3, <1>10, <1>18, <1>19 DEF GenerationInv, PlanOf, PlansOf, n

LEMMA SelectKeeps ==
  ASSUME NEW t \in Token(tokenizer), GenerationInv, Select(t)
  PROVE  GenerationInv'
<1>1. /\ tokenizer \in Tokenizers /\ plan = PlanOf(tokenizer) /\ ids \in Seq(Token(tokenizer))
      /\ Len(ids) < MaxOutputTokens /\ pc = "select" /\ stage = 1
      /\ result \notin {"Exhausted", "TokenCapacity"} /\ Len(ids) \in Nat /\ MaxOutputTokens \in Nat
  BY LimitAssumption DEF GenerationInv, Select, AtBoundary
<1>2. plan.tokens = MaxOutputTokens
  BY <1>1, PlanOfIs
<1>3. tokenizer' = tokenizer /\ plan' = plan /\ stage' = stage
  BY DEF Select, request
<1>4. CASE t = StopToken /\ pc' = "seed" /\ UNCHANGED <<ids, result>>
  BY <1>1, <1>3, <1>4 DEF GenerationInv, PlanOf, PlansOf
<1>5. CASE t # StopToken
  <2>1. ~(Len(ids) + 1 > plan.tokens)
    BY <1>1, <1>2
  <2>2. /\ ids' = Append(ids, t) /\ result' = result
        /\ pc' = IF Len(ids') = MaxOutputTokens THEN "seed" ELSE "step"
    BY <1>5, <2>1 DEF Select
  <2>3. Append(ids, t) \in Seq(Token(tokenizer)) /\ Len(Append(ids, t)) = Len(ids) + 1
    BY <1>1
  <2> QED
    BY <1>1, <1>3, <2>2, <2>3 DEF GenerationInv, PlanOf, PlansOf
<1> QED
  BY <1>4, <1>5 DEF Select

LEMMA GenerationInvKept == GenerationInv /\ [GenerationNext]_generationVars => GenerationInv'
<1> SUFFICES ASSUME GenerationInv, [GenerationNext]_generationVars PROVE GenerationInv'
  OBVIOUS
<1> USE DEF GenerationInv, request, storage, Fails, PlanOf, PlansOf
<1>1. CASE Cancel
  BY <1>1 DEF Cancel
<1>2. CASE Refused
  BY <1>2 DEF Refused
<1>3. CASE Acquire
  BY <1>3 DEF Acquire
<1>4. CASE Step
  BY <1>4 DEF Step, AtBoundary
<1>5. CASE DriverFails
  BY <1>5 DEF DriverFails
<1>6. CASE RowRefused
  BY <1>6 DEF RowRefused, AtBoundary
<1>7. CASE \E t \in Token(tokenizer) : Select(t)
  <2> USE DEF GenerationInv
  <2> HIDE DEF GenerationInv
  <2> QED
    BY <1>7, SelectKeeps
<1>8. CASE Seed
  <2> HIDE DEF GenerationInv
  <2> QED
    BY <1>8, SeedKeeps
<1>9. CASE ApplyStage
  <2> HIDE DEF GenerationInv
  <2> QED
    BY <1>9, ApplyStageKeeps
<1>10. CASE WriteOutput
  BY <1>10 DEF WriteOutput
<1>11. CASE Publish
  BY <1>11 DEF Publish, AtBoundary
<1>12. CASE UNCHANGED generationVars
  BY <1>12 DEF generationVars
<1> QED
  BY <1>1, <1>2, <1>3, <1>4, <1>5, <1>6, <1>7, <1>8, <1>9, <1>10, <1>11, <1>12 DEF GenerationNext

(* ... and says that what was planned is enough. *)
LEMMA EnoughIsPlanned == GenerationInv => PlannedStorageSuffices
<1> SUFFICES ASSUME GenerationInv, pc = "decode", stage > Len(tokenizer.program)
             PROVE  Bytes(Written) <= plan.maximum
  BY DEF GenerationInv, PlannedStorageSuffices
<1> DEFINE n == Len(tokenizer.program)
           x == PlansOf(tokenizer)[n].shape
<1>1. /\ tokenizer \in Tokenizers /\ plan = PlanOf(tokenizer)
      /\ first \in Texts /\ stage \in 1..(n + 1) /\ stage > n
      /\ Below(Shape(first), PlansOf(tokenizer)[stage - 1].shape)
  BY DEF GenerationInv
<1>2. /\ n \in Nat /\ PlansOf(tokenizer) \in [0..n -> Planned] /\ tokenizer.joined \in BOOLEAN
      /\ plan.maximum = x.bytes + (IF tokenizer.joined THEN OneLess(x.spans) ELSE 0)
  BY <1>1, PlanOfIs
<1>3. stage - 1 = n /\ n \in 0..n
  <2> HIDE DEF n
  <2> QED
    BY <1>1, <1>2
<1>4. Below(Shape(first), x) /\ x.bytes \in Nat /\ x.spans \in Nat
  <2>1. PlansOf(tokenizer)[n] \in Planned
    BY <1>2, <1>3
  <2> QED
    BY <1>1, <1>3, <2>1 DEF Planned
<1> HIDE DEF x, n
<1> DEFINE u == BytesOf(first)
           v == Len(first)
<1>5. u \in Nat /\ v \in Nat /\ u <= x.bytes /\ v <= x.spans
  BY <1>1, <1>4, TotalsAre DEF Below, Shape, Texts
<1>6. CASE tokenizer.joined
  <2>1. Joined(first) \in Text /\ Bytes(Joined(first)) <= u + OneLess(v)
    BY <1>1, JoinedIs
  <2>2. Bytes(Joined(first)) \in Nat
    BY <2>1, BytesNat
  <2> DEFINE w == Bytes(Joined(first))
  <2>3. w \in Nat /\ w <= u + OneLess(v)
    BY <2>1, <2>2
  <2> HIDE DEF u, v, w
  <2>4. w <= x.bytes + OneLess(x.spans)
    BY <1>4, <1>5, <2>3 DEF OneLess
  <2> QED
    BY <1>2, <1>6, <2>4 DEF Written, w
<1>7. CASE ~tokenizer.joined
  <2>1. Written = FlattenSeq(first) /\ plan.maximum = x.bytes + 0
    BY <1>2, <1>7 DEF Written
  <2> QED
    BY <1>4, <1>5, <2>1 DEF BytesOf
<1> QED
  BY <1>6, <1>7

(* The storage acquired before the first step is enough for every token    *)
(* selected and for every stage of the decoder, whatever the tokenizer     *)
(* spells, its program of stages and the request's limit (storage_plan and *)
(* output_bound of collective.rs): TokenBuffer, the token ids and the raw  *)
(* bytes are never refused room, and the answer stays within the maximum.  *)
THEOREM StorageSuffices == GenerationSpec => []PlannedStorageSuffices
<1>1. GenerationInit => GenerationInv
  BY GenerationInvStart
<1>2. GenerationInv /\ [GenerationNext]_generationVars => GenerationInv'
  BY GenerationInvKept
<1>3. GenerationInv => PlannedStorageSuffices
  BY EnoughIsPlanned
<1> QED
  BY <1>1, <1>2, <1>3, PTL DEF GenerationSpec

------------------------------------------------------------------------------
(* The stages that read ahead give what the reference gives. *)
LEMMA ConcatIs ==
  ASSUME NEW S, NEW s \in Seq(S)
  PROVE  s \o <<>> = s /\ <<>> \o s = s /\ \A x \in S : Append(s, x) = s \o <<x>>
OBVIOUS

(* The reference reading of the bytes, by position. *)
Read(raw, i) ==
  CASE raw[i] = "lead" -> IF i < Len(raw) /\ raw[i + 1] = "cont" THEN <<"Oe">> ELSE <<"R">>
    [] raw[i] = "cont" -> IF i > 1 /\ raw[i - 1] = "lead" THEN <<>> ELSE <<"R">>
    [] OTHER -> <<raw[i]>>

(* write_lossy_utf8 gives the reference reading. *)
LEMMA LossyIsTheReference == ASSUME NEW raw \in Text PROVE Lossy(raw) = RefLossy(raw)
<1> DEFINE n == Len(raw)
           b == [i \in DOMAIN raw |-> Read(raw, i)]
           R == Scan(raw)
           Oe == <<"Oe">>
           Rep == <<"R">>
           none == <<>>
<1>1. n \in Nat /\ DOMAIN raw = 1..n /\ \A k \in 1..n : raw[k] \in Symbol /\ <<raw[k]>> \in Text
  BY DEF Text
<1>2. /\ R \in [0..n -> Scanned] /\ R[0] = NoBytes
      /\ \A k \in 1..n : R[k] = NextByte(R[k - 1], raw[k])
      /\ Lossy(raw) = Stray(R[n]).text
  BY ScanIs
<1>3. "R" \in Symbol /\ "Oe" \in Symbol
  BY DEF Symbol, Width
<1>4. Oe \in Text /\ Rep \in Text /\ none \in Text
  BY <1>3 DEF Text
<1>5. RefLossy(raw) = FlattenSeq(b)
  BY DEF RefLossy, Read
<1> HIDE DEF n, R
<1>6. /\ \A k \in 1..n : /\ b[k] = Read(raw, k) /\ b[k] \in Text
      /\ Len(b) = n /\ b \in Texts
  <2>1. \A k \in 1..n : b[k] = Read(raw, k)
    BY <1>1
  <2>2. \A k \in 1..n : Read(raw, k) \in Text
    BY <1>1, <1>4 DEF Read, n
  <2>3. b = [k \in 1..n |-> b[k]]
    BY <1>1
  <2> HIDE DEF b
  <2> QED
    BY <1>1, <2>1, <2>2, <2>3 DEF Texts
<1> HIDE DEF b
<1>7. PICK g : IsFlat(g, b, Symbol) /\ FlattenSeq(b) = g[n]
  BY <1>6, FlattenIs DEF Texts, Text
<1>8. g \in [0..n -> Text] /\ g[0] = none /\ \A k \in 1..n : g[k] = g[k - 1] \o b[k]
  BY <1>6, <1>7 DEF IsFlat, Text
<1> DEFINE Due(k) == IF raw[k] = "lead"
                     THEN IF k < n /\ raw[k + 1] = "cont" THEN Oe ELSE Rep
                     ELSE none
           IsOpen(k) == k # 0 /\ raw[k] = "lead"
           Upcoming(k) == IF k = 0 THEN none ELSE Due(k)
           P == {k \in 0..n : R[k].open = IsOpen(k) /\ g[k] = R[k].text \o Upcoming(k)}
<1>9. 0 \in P
  <2>1. R[0].open = FALSE /\ R[0].text = none
    BY <1>2 DEF NoBytes
  <2>2. none \o none = none
    BY <1>4, ConcatIs DEF Text
  <2>3. ~IsOpen(0) /\ Upcoming(0) = none /\ IsOpen(0) \in BOOLEAN
    OBVIOUS
  <2> HIDE DEF none, Upcoming, IsOpen
  <2>4. R[0].open = IsOpen(0)
    BY <2>1, <2>3
  <2>5. g[0] = R[0].text \o Upcoming(0)
    BY <1>8, <2>1, <2>2, <2>3
  <2> QED
    BY <1>1, <2>4, <2>5
<1>10. ASSUME NEW k \in 1..n, k - 1 \in P PROVE k \in P
  <2> DEFINE acc == R[k - 1]
             y == raw[k]
             text == acc.text
  <2>1. k \in 0..n /\ k - 1 \in 0..n /\ k # 0 /\ y \in Symbol /\ <<y>> \in Text
        /\ (k - 1) + 1 = k /\ k - 1 < n
    BY <1>1
  <2>2. acc.open = IsOpen(k - 1) /\ g[k - 1] = text \o Upcoming(k - 1)
    BY <1>10
  <2>3. acc \in Scanned /\ text \in Text /\ acc.open \in BOOLEAN /\ R[k] = NextByte(acc, y)
    BY <1>2, <2>1 DEF Scanned
  <2>4. g[k] = g[k - 1] \o Read(raw, k)
    BY <1>6, <1>8
  <2>5. /\ acc.open => Upcoming(k - 1) = (IF y = "cont" THEN Oe ELSE Rep)
        /\ ~acc.open => Upcoming(k - 1) = none
    <3> HIDE DEF Oe, Rep, none
    <3>1. k - 1 = 0 => ~acc.open /\ Upcoming(k - 1) = none
      BY <2>2
    <3>2. k - 1 # 0 => acc.open = (raw[k - 1] = "lead") /\ Upcoming(k - 1) = Due(k - 1)
      BY <2>2
    <3>3. Due(k - 1) = IF raw[k - 1] = "lead" THEN IF y = "cont" THEN Oe ELSE Rep ELSE none
      BY <2>1
    <3> QED
      BY <3>1, <3>2, <3>3
  <2>6. /\ Append(text, "R") = text \o Rep /\ Append(text, "Oe") = text \o Oe
        /\ text \o none = text /\ text \o Rep \in Text /\ text \o Oe \in Text
        /\ \A t \in Text : t \o none = t /\ Append(t, y) = t \o <<y>>
    <3>1. ASSUME NEW t \in Text
          PROVE  t \o none = t /\ \A x \in Symbol : Append(t, x) = t \o <<x>>
      BY ConcatIs DEF Text
    <3>2. text \o Rep \in Text /\ text \o Oe \in Text
      BY <1>4, <2>3, BytesConcat
    <3>3. Append(text, "R") = text \o Rep /\ Append(text, "Oe") = text \o Oe /\ text \o none = text
      BY <1>3, <2>3, <3>1
    <3>4. \A t \in Text : t \o none = t /\ Append(t, y) = t \o <<y>>
      BY <2>1, <3>1
    <3> QED
      BY <3>2, <3>3, <3>4
  <2>7. Upcoming(k) = Due(k) /\ IsOpen(k) = (y = "lead")
    BY <2>1
  <2>8. CASE y = "lead"
    <3>1. /\ R[k].open = TRUE
          /\ R[k].text = IF acc.open THEN Append(text, "R") ELSE text
      BY <2>3, <2>8 DEF NextByte, Stray, Scanned
    <3>2. Read(raw, k) = Due(k)
      BY <2>8 DEF Read, n
    <3>3. g[k - 1] = R[k].text
      <4> HIDE DEF Upcoming, none, Rep, Oe, text
      <4> QED
        BY <2>2, <2>5, <2>6, <2>8, <3>1
    <3> QED
      <4> HIDE DEF Due, none, Rep, Oe
      <4> QED
        BY <2>1, <2>4, <2>7, <2>8, <3>1, <3>2, <3>3
  <2>9. CASE y = "cont"
    <3>1. /\ R[k].open = FALSE
          /\ R[k].text = IF acc.open THEN Append(text, "Oe") ELSE Append(text, "R")
      BY <2>3, <2>9 DEF NextByte, Stray, Scanned
    <3>2. Due(k) = none
      BY <2>9
    <3>3. Read(raw, k) = IF acc.open THEN none ELSE Rep
      <4>1. acc.open = (k > 1 /\ raw[k - 1] = "lead")
        BY <2>1, <2>2
      <4> QED
        BY <2>9, <4>1 DEF Read
    <3>4. g[k] = R[k].text \o none
      <4> HIDE DEF Upcoming, none, Rep, Oe, text
      <4>1. CASE acc.open
        <5>1. g[k] = (text \o Oe) \o none /\ R[k].text = text \o Oe
          BY <2>2, <2>4, <2>5, <2>6, <2>9, <3>1, <3>3, <4>1
        <5> QED
          BY <5>1
      <4>2. CASE ~acc.open
        <5>1. g[k] = (text \o none) \o Rep /\ R[k].text = text \o Rep
          BY <2>2, <2>4, <2>5, <2>6, <2>9, <3>1, <3>3, <4>2
        <5> QED
          BY <2>6, <5>1
      <4> QED
        BY <2>3, <4>1, <4>2
    <3> QED
      <4> HIDE DEF Due, none, Rep, Oe
      <4> QED
        BY <2>1, <2>7, <2>9, <3>1, <3>2, <3>4
  <2>10. CASE y # "lead" /\ y # "cont"
    <3>1. /\ R[k].open = FALSE
          /\ R[k].text = Append(IF acc.open THEN Append(text, "R") ELSE text, y)
      BY <2>3, <2>10 DEF NextByte, Stray, Scanned
    <3>2. Due(k) = none /\ Read(raw, k) = <<y>>
      BY <2>10 DEF Read
    <3> DEFINE u == IF acc.open THEN text \o Rep ELSE text
               one == <<y>>
    <3>3. g[k - 1] = u /\ u \in Text /\ R[k].text = Append(u, y)
      <4> HIDE DEF Upcoming, none, Rep, Oe, text
      <4> QED
        BY <2>2, <2>3, <2>5, <2>6, <2>10, <3>1
    <3> HIDE DEF u
    <3>4. R[k].text = u \o one /\ u \o one \in Text
      BY <2>1, <2>6, <3>3, BytesConcat
    <3>5. g[k] = u \o one
      BY <2>4, <3>2, <3>3
    <3> HIDE DEF one
    <3>6. (u \o one) \o none = u \o one
      BY <2>6, <3>4
    <3> HIDE DEF Due, none, Rep, Oe
    <3> QED
      BY <2>1, <2>7, <2>10, <3>1, <3>2, <3>4, <3>5, <3>6
  <2> QED
    BY <2>8, <2>9, <2>10
<1> HIDE DEF P
<1>11. \A k \in 0..n : k \in P
  BY <1>1, <1>9, <1>10, UpTo
<1>12. n \in P /\ R[n] \in Scanned
  BY <1>1, <1>2, <1>11
<1>13. R[n].text \in Text /\ R[n].open \in BOOLEAN
  BY <1>12 DEF Scanned
<1>14. Upcoming(n) = IF R[n].open THEN Rep ELSE none
  <2>1. R[n].open = IsOpen(n)
    BY <1>12 DEF P
  <2>2. ~(n < n)
    BY <1>1
  <2> HIDE DEF none, Rep, Oe
  <2>3. CASE n = 0
    BY <2>1, <2>3
  <2>4. CASE n # 0
    <3>1. Due(n) = IF raw[n] = "lead" THEN Rep ELSE none
      BY <2>2
    <3> HIDE DEF Due
    <3> QED
      BY <2>1, <2>4, <3>1
  <2> QED
    BY <2>3, <2>4
<1>15. Stray(R[n]).text = R[n].text \o Upcoming(n)
  <2>1. Append(R[n].text, "R") = R[n].text \o Rep /\ R[n].text \o none = R[n].text
    BY <1>3, <1>13, ConcatIs DEF Text
  <2> HIDE DEF Upcoming, none, Rep
  <2> QED
    BY <1>13, <1>14, <2>1 DEF Stray
<1> QED
  BY <1>2, <1>5, <1>7, <1>12, <1>15 DEF P

Fresh(b, i) == IF i > 1 /\ b[i - 1] = b[i] THEN <<>> ELSE <<b[i]>>

(* A buffer of buffers, its pieces within a given set. *)
LEMMA PiecesFlatten ==
  ASSUME NEW b, NEW n \in Nat, NEW p, p = [i \in 1..n |-> p[i]], \A i \in 1..n : p[i] \in Texts
  PROVE  /\ FlattenSeq(p) \in Texts
         /\ \E g : /\ g \in [0..n -> Texts] /\ g[0] = <<>> /\ FlattenSeq(p) = g[n]
                   /\ \A k \in 1..n : g[k] = g[k - 1] \o p[k]
<1>1. p \in Seq(Seq(Text)) /\ Len(p) = n
  BY DEF Texts
<1>2. PICK g : IsFlat(g, p, Text) /\ FlattenSeq(p) = g[Len(p)]
  BY <1>1, FlattenIs
<1>3. FlattenSeq(p) \in Seq(Text)
  BY <1>1, FlattenIs
<1> QED
  BY <1>1, <1>2, <1>3 DEF IsFlat, Texts

(* apply_deduplicate drops the tokens equal to the one before them. *)
LEMMA DeduplicatedIsTheReference ==
  ASSUME NEW b \in Texts
  PROVE  Deduplicated(b) =
           FlattenSeq([i \in DOMAIN b |-> IF i > 1 /\ b[i - 1] = b[i] THEN <<>> ELSE <<b[i]>>])
<1> DEFINE n == Len(b)
           p == [i \in DOMAIN b |-> IF i > 1 /\ b[i - 1] = b[i] THEN <<>> ELSE <<b[i]>>]
           R == Distinguish(b)
<1>1. n \in Nat /\ DOMAIN b = 1..n /\ \A k \in 1..n : b[k] \in Text
  BY DEF Texts
<1>2. /\ R \in [0..n -> Distinct] /\ R[0] = NothingYet
      /\ \A k \in 1..n : R[k] = NextDistinct(R[k - 1], b[k])
      /\ Deduplicated(b) = R[n].out
  BY DistinguishIs
<1> HIDE DEF n, R
<1>3. p = [i \in 1..n |-> p[i]] /\ \A i \in 1..n : p[i] = Fresh(b, i) /\ p[i] \in Texts
  <2>1. p = [i \in 1..n |-> p[i]] /\ \A i \in 1..n : p[i] = Fresh(b, i)
    BY <1>1 DEF Fresh
  <2>2. \A i \in 1..n : Fresh(b, i) \in Texts
    <3> TAKE i \in 1..n
    <3>1. <<b[i]>> \in Texts /\ <<>> \in Texts
      BY <1>1, BufferOne, BufferEmpty
    <3> QED
      BY <3>1 DEF Fresh
  <2> HIDE DEF p
  <2> QED
    BY <2>1, <2>2
<1> HIDE DEF p
<1>4. n \in Nat /\ p = [i \in 1..n |-> p[i]] /\ \A i \in 1..n : p[i] \in Texts
  BY <1>1, <1>3
<1>5. PICK g : /\ g \in [0..n -> Texts] /\ g[0] = <<>> /\ FlattenSeq(p) = g[n]
               /\ \A k \in 1..n : g[k] = g[k - 1] \o p[k]
  BY <1>4, PiecesFlatten
<1> DEFINE Latest(k) == IF k = 0 THEN <<>> ELSE <<b[k]>>
           P == {k \in 0..n : R[k].out = g[k] /\ R[k].previous = Latest(k)}
<1>6. 0 \in P
  <2>1. R[0].out = <<>> /\ R[0].previous = <<>> /\ Latest(0) = <<>>
    BY <1>2 DEF NothingYet
  <2> HIDE DEF Latest
  <2> QED
    BY <1>1, <1>5, <2>1
<1>7. ASSUME NEW k \in 1..n, k - 1 \in P PROVE k \in P
  <2> DEFINE t == b[k]
             one == <<t>>
             o == g[k - 1]
  <2>1. k \in 0..n /\ k - 1 \in 0..n /\ k # 0 /\ t \in Text /\ (k > 1 <=> k - 1 # 0)
    BY <1>1
  <2>2. R[k - 1] \in Distinct /\ R[k - 1].out = o /\ R[k - 1].previous = Latest(k - 1) /\ o \in Texts
    BY <1>2, <1>5, <1>7, <2>1
  <2>3. /\ R[k].out = (IF one = Latest(k - 1) THEN o ELSE Append(o, t))
        /\ R[k].previous = one
    BY <1>2, <2>1, <2>2, NextDistinctIs
  <2>4. one = Latest(k - 1) <=> (k > 1 /\ b[k - 1] = t)
    <3>1. one # <<>>
      OBVIOUS
    <3>2. one = <<b[k - 1]>> <=> b[k - 1] = t
      OBVIOUS
    <3> HIDE DEF one
    <3> QED
      BY <2>1, <3>1, <3>2
  <2>5. Fresh(b, k) = IF k > 1 /\ b[k - 1] = t THEN <<>> ELSE one
    BY DEF Fresh
  <2>6. Append(o, t) = o \o one /\ o \o <<>> = o
    BY <2>1, <2>2, ConcatIs DEF Texts
  <2>7. g[k] = o \o Fresh(b, k)
    BY <1>3, <1>5
  <2>8. Latest(k) = one
    BY <2>1
  <2> HIDE DEF one, o, Latest
  <2>9. g[k] = R[k].out
    <3>1. CASE k > 1 /\ b[k - 1] = t
      BY <2>3, <2>4, <2>5, <2>6, <2>7, <3>1
    <3>2. CASE ~(k > 1 /\ b[k - 1] = t)
      BY <2>3, <2>4, <2>5, <2>6, <2>7, <3>2
    <3> QED
      BY <3>1, <3>2
  <2> QED
    BY <2>1, <2>3, <2>8, <2>9
<1> HIDE DEF P
<1>8. \A k \in 0..n : k \in P
  BY <1>1, <1>6, <1>7, UpTo
<1>9. n \in P
  BY <1>1, <1>8
<1> QED
  BY <1>2, <1>5, <1>9 DEF P, p

------------------------------------------------------------------------------
(* A run of fallback tokens is decoded as one. *)
LEMMA ConcatAssociates ==
  ASSUME NEW S, NEW s \in Seq(S), NEW t \in Seq(S), NEW u \in Seq(S)
  PROVE  (s \o t) \o u = s \o (t \o u)
OBVIOUS

LEMMA ConcatParts ==
  ASSUME NEW S, NEW s \in Seq(S), NEW t \in Seq(S)
  PROVE  /\ s \o t \in Seq(S) /\ Len(s \o t) = Len(s) + Len(t)
         /\ \A i \in 1..Len(s) : (s \o t)[i] = s[i]
         /\ \A i \in 1..Len(t) : (s \o t)[Len(s) + i] = t[i]
OBVIOUS

(* Where the run of fallback tokens around a token begins and ends, its     *)
(* bytes, and what the reference writes for the token.                      *)
RunFrom(b, i) ==
  CHOOSE j \in 1..i : /\ \A k \in j..i : IsFallback(b[k])
                      /\ j = 1 \/ ~IsFallback(b[j - 1])
RunTo(b, i) ==
  CHOOSE j \in i..Len(b) : /\ \A k \in i..j : IsFallback(b[k])
                           /\ j = Len(b) \/ ~IsFallback(b[j + 1])
RunBytes(b, c, d) == [k \in 1..(d - c + 1) |-> FallbackByte[b[c + k - 1][1]]]
RunText(b, i) == RefLossy(RunBytes(b, RunFrom(b, i), RunTo(b, i)))
Invalid(text) == \E k \in DOMAIN text : text[k] = "R"
Restored(b, i) ==
  IF ~IsFallback(b[i]) THEN <<b[i]>>
  ELSE IF Invalid(RunText(b, i)) THEN <<<<"R">>>>
  ELSE IF i = RunFrom(b, i) THEN <<RunText(b, i)>> ELSE <<>>

(* The reference of byte fallback, in these names. *)
LEMMA RefFallbackIs ==
  ASSUME NEW b
  PROVE  RefFallback(b) = FlattenSeq([i \in DOMAIN b |-> Restored(b, i)])
BY DEF RefFallback, Restored, Invalid, RunText, RunBytes, RunFrom, RunTo

IsRun(b, c, d) ==
  /\ c \in 1..d /\ d \in 1..Len(b) /\ \A k \in c..d : IsFallback(b[k])
  /\ c = 1 \/ ~IsFallback(b[c - 1])
  /\ d = Len(b) \/ ~IsFallback(b[d + 1])

(* RunFrom and RunTo find the run around a token. *)
LEMMA RunIs ==
  ASSUME NEW b \in Texts, NEW c \in Int, NEW d \in Int, IsRun(b, c, d), NEW i \in c..d
  PROVE  RunFrom(b, i) = c /\ RunTo(b, i) = d
<1> DEFINE n == Len(b)
<1>1. n \in Nat
  BY DEF Texts
<1>2. /\ 1 <= c /\ c <= i /\ i <= d /\ d <= n /\ i \in Int
      /\ \A k \in c..d : IsFallback(b[k])
      /\ c = 1 \/ ~IsFallback(b[c - 1])
      /\ d = n \/ ~IsFallback(b[d + 1])
  BY <1>1 DEF IsRun
<1>3. RunFrom(b, i) = c
  <2> DEFINE Is(j) == (\A k \in j..i : IsFallback(b[k])) /\ (j = 1 \/ ~IsFallback(b[j - 1]))
             j == RunFrom(b, i)
  <2>1. c \in 1..i /\ Is(c)
    BY <1>2
  <2>2. j \in 1..i /\ Is(j)
    <3>1. j = CHOOSE x \in 1..i : Is(x)
      BY DEF RunFrom
    <3> HIDE DEF Is, j
    <3> QED
      BY <2>1, <3>1
  <2> HIDE DEF j
  <2>3. ~(j < c)
    <3> SUFFICES ASSUME j < c PROVE FALSE
      OBVIOUS
    <3>1. c - 1 \in j..i /\ c # 1
      BY <1>2, <2>2
    <3> QED
      BY <1>2, <2>2, <3>1
  <2>4. ~(c < j)
    <3> SUFFICES ASSUME c < j PROVE FALSE
      OBVIOUS
    <3>1. j - 1 \in c..d /\ j # 1
      BY <1>2, <2>2
    <3> QED
      BY <1>2, <2>2, <3>1
  <2> QED
    BY <2>2, <2>3, <2>4 DEF j
<1>4. RunTo(b, i) = d
  <2> DEFINE Is(j) == (\A k \in i..j : IsFallback(b[k])) /\ (j = n \/ ~IsFallback(b[j + 1]))
             j == RunTo(b, i)
  <2>1. d \in i..n /\ Is(d)
    BY <1>1, <1>2
  <2>2. j \in i..n /\ Is(j)
    <3>1. j = CHOOSE x \in i..n : Is(x)
      BY DEF RunTo
    <3> HIDE DEF Is, j, n
    <3> QED
      BY <2>1, <3>1
  <2> HIDE DEF j, n
  <2>3. ~(j < d)
    <3> SUFFICES ASSUME j < d PROVE FALSE
      OBVIOUS
    <3>1. j + 1 \in c..d /\ j # n
      BY <1>1, <1>2, <2>2
    <3> QED
      BY <1>2, <2>2, <3>1
  <2>4. ~(d < j)
    <3> SUFFICES ASSUME d < j PROVE FALSE
      OBVIOUS
    <3>1. d + 1 \in i..j /\ d # n
      BY <1>1, <1>2, <2>2
    <3> QED
      BY <1>2, <2>2, <3>1
  <2> QED
    BY <1>1, <1>2, <2>2, <2>3, <2>4 DEF j
<1> QED
  BY <1>3, <1>4

LEMMA FallbackTokens ==
  ASSUME NEW t \in Text, IsFallback(t)
  PROVE  FallbackByte[t[1]] \in {"lead", "cont"}
BY DEF IsFallback, FallbackByte

(* What the reference writes for the tokens of one run. *)
LEMMA RunRestored ==
  ASSUME NEW b \in Texts, NEW c \in Int, NEW d \in Int, IsRun(b, c, d), NEW h,
         h = RunBytes(b, c, d)
  PROVE  /\ h \in Held /\ Len(h) = d - c + 1 /\ h # <<>>
         /\ \A i \in c..d : Restored(b, i) = IF ~IsUtf8(h) THEN <<<<"R">>>>
                                             ELSE IF i = c THEN <<Lossy(h)>> ELSE <<>>
<1>1. 1 <= c /\ c <= d /\ d <= Len(b) /\ Len(b) \in Nat /\ \A k \in c..d : IsFallback(b[k])
  BY DEF IsRun, Texts
<1>2. h \in Held /\ Len(h) = d - c + 1 /\ h # <<>>
  <2>1. ASSUME NEW k \in 1..(d - c + 1) PROVE FallbackByte[b[c + k - 1][1]] \in {"lead", "cont"}
    <3>1. c + k - 1 \in c..d /\ c + k - 1 \in 1..Len(b)
      BY <1>1
    <3>2. b[c + k - 1] \in Text /\ IsFallback(b[c + k - 1])
      BY <1>1, <3>1 DEF Texts
    <3> QED
      BY <3>2, FallbackTokens
  <2>2. d - c + 1 \in Nat /\ d - c + 1 # 0
    BY <1>1
  <2> QED
    BY <2>1, <2>2 DEF RunBytes, Held
<1>3. h \in Text /\ Lossy(h) = RefLossy(h)
  BY <1>2, HeldIs, LossyIsTheReference
<1>4. ASSUME NEW i \in c..d
      PROVE  Restored(b, i) = IF ~IsUtf8(h) THEN <<<<"R">>>>
                              ELSE IF i = c THEN <<Lossy(h)>> ELSE <<>>
  <2>1. RunFrom(b, i) = c /\ RunTo(b, i) = d
    BY RunIs
  <2>2. RunText(b, i) = Lossy(h)
    BY <1>3, <2>1 DEF RunText
  <2>3. IsUtf8(h) <=> ~Invalid(Lossy(h))
    BY DEF IsUtf8, Invalid
  <2>4. IsFallback(b[i])
    BY <1>1
  <2> DEFINE x == <<Lossy(h)>>
             y == <<<<"R">>>>
             z == <<>>
  <2>5. Restored(b, i) = IF Invalid(Lossy(h)) THEN y ELSE IF i = c THEN x ELSE z
    BY <2>1, <2>2, <2>4 DEF Restored
  <2> HIDE DEF x, y, z
  <2>6. Restored(b, i) = IF ~IsUtf8(h) THEN y ELSE IF i = c THEN x ELSE z
    BY <2>3, <2>5
  <2> QED
    BY <2>6 DEF x, y, z
<1> QED
  BY <1>2, <1>4

(* What the reference has written up to each token. *)
AreRestored(g, b) ==
  /\ g \in [0..Len(b) -> Texts] /\ g[0] = <<>>
  /\ \A k \in 1..Len(b) : g[k] = g[k - 1] \o Restored(b, k)

LEMMA RestoredExist ==
  ASSUME NEW b \in Texts, \A i \in 1..Len(b) : Restored(b, i) \in Texts
  PROVE  \E g : AreRestored(g, b) /\ RefFallback(b) = g[Len(b)]
<1> DEFINE p == [i \in DOMAIN b |-> Restored(b, i)]
<1>1. Len(b) \in Nat /\ DOMAIN b = 1..Len(b)
  BY DEF Texts
<1>2. p = [i \in 1..Len(b) |-> p[i]] /\ \A i \in 1..Len(b) : p[i] = Restored(b, i)
  BY <1>1
<1>3. RefFallback(b) = FlattenSeq(p)
  BY RefFallbackIs
<1> DEFINE n == Len(b)
<1> HIDE DEF p, n
<1>4. n \in Nat /\ p = [i \in 1..n |-> p[i]] /\ \A i \in 1..n : p[i] \in Texts
  BY <1>1, <1>2 DEF n
<1>5. PICK g : /\ g \in [0..n -> Texts] /\ g[0] = <<>> /\ FlattenSeq(p) = g[n]
               /\ \A k \in 1..n : g[k] = g[k - 1] \o p[k]
  BY <1>4, PiecesFlatten
<1>6. AreRestored(g, b)
  BY <1>2, <1>5 DEF AreRestored, n
<1> QED
  BY <1>3, <1>5, <1>6 DEF n

(* The reference writes for a whole run what Decoded gives for its bytes. *)
LEMMA RunFlattened ==
  ASSUME NEW b \in Texts, NEW g, AreRestored(g, b),
         NEW c \in Int, NEW d \in Int, IsRun(b, c, d)
  PROVE  g[d] = g[c - 1] \o Decoded(RunBytes(b, c, d))
<1> DEFINE h == RunBytes(b, c, d)
           m == Len(h)
           s == g[c - 1]
<1>1. /\ h \in Held /\ m = d - c + 1 /\ m \in Nat \ {0}
      /\ \A i \in c..d : Restored(b, i) = IF ~IsUtf8(h) THEN <<<<"R">>>>
                                          ELSE IF i = c THEN <<Lossy(h)>> ELSE <<>>
  <2>1. h \in Held /\ m = d - c + 1 /\ h # <<>>
    BY RunRestored
  <2>2. m \in Nat \ {0}
    BY <2>1 DEF Held
  <2> QED
    BY <2>1, <2>2, RunRestored
<1>2. 1 <= c /\ c <= d /\ d <= Len(b) /\ Len(b) \in Nat
  BY DEF IsRun, Texts
<1>3. s \in Texts
  <2>1. c - 1 \in 0..Len(b) /\ g \in [0..Len(b) -> Texts]
    BY <1>2 DEF AreRestored
  <2> QED
    BY <2>1
<1>4. \A j \in 1..m : g[c - 1 + j] = g[c - 1 + (j - 1)] \o Restored(b, c - 1 + j)
  <2> TAKE j \in 1..m
  <2>1. c - 1 + j \in 1..Len(b) /\ (c - 1 + j) - 1 = c - 1 + (j - 1)
    BY <1>1, <1>2
  <2> QED
    BY <2>1 DEF AreRestored
<1>5. c - 1 + 0 = c - 1 /\ c - 1 + m = d
  BY <1>1, <1>2
<1> HIDE DEF h, m, s
<1>6. CASE IsUtf8(h)
  <2> DEFINE w == <<Lossy(h)>>
             P == {j \in 0..m : j = 0 \/ g[c - 1 + j] = s \o w}
  <2>1. w \in Texts
    <3>1. Lossy(h) \in Text
      BY <1>1, HeldIs, LossyIs
    <3> QED
      BY <3>1, BufferOne
  <2>2. s \o w \in Texts
    BY <1>3, <2>1, BufferConcat
  <2>3. 0 \in P
    BY <1>1
  <2>4. ASSUME NEW j \in 1..m, j - 1 \in P PROVE j \in P
    <3>1. c - 1 + j \in c..d /\ (c - 1 + j = c <=> j = 1) /\ j \in 0..m
      BY <1>1, <1>2
    <3>2. Restored(b, c - 1 + j) = IF j = 1 THEN w ELSE <<>>
      BY <1>1, <1>6, <3>1
    <3>3. (s \o w) \o <<>> = s \o w
      BY <2>2, ConcatIs DEF Texts
    <3>4. j # 1 => g[c - 1 + (j - 1)] = s \o w
      BY <2>4
    <3>5. j = 1 => g[c - 1 + (j - 1)] = s
      BY <1>5 DEF s
    <3> HIDE DEF w
    <3>6. g[c - 1 + j] = s \o w
      BY <1>4, <3>2, <3>3, <3>4, <3>5
    <3> QED
      BY <3>1, <3>6
  <2> HIDE DEF P
  <2>5. \A j \in 0..m : j \in P
    BY <1>1, <2>3, <2>4, UpTo
  <2>6. m \in P
    BY <1>1, <2>5
  <2>7. g[d] = s \o w
    BY <1>1, <1>5, <2>6 DEF P
  <2> QED
    BY <1>6, <2>7 DEF Decoded, s, h
<1>7. CASE ~IsUtf8(h)
  <2> DEFINE r == <<"R">>
             one == <<r>>
             W(j) == [i \in 1..j |-> r]
             P == {j \in 0..m : g[c - 1 + j] = s \o W(j)}
  <2>1. r \in Text
    <3>1. "R" \in Symbol
      BY DEF Symbol, Width
    <3> QED
      BY <3>1, BytesOne
  <2> HIDE DEF r
  <2>2. \A j \in Nat : W(j) \in Texts
    BY <2>1 DEF Texts
  <2>3. W(0) = <<>>
    OBVIOUS
  <2>4. \A j \in Nat \ {0} : W(j - 1) \o one = W(j)
    <3> TAKE j \in Nat \ {0}
    <3> DEFINE x == W(j - 1)
               y == W(j)
    <3>1. /\ x \in Seq(Text) /\ Len(x) = j - 1 /\ \A i \in 1..(j - 1) : x[i] = r
      BY <2>1
    <3>2. y \in Seq(Text) /\ Len(y) = j /\ y = [i \in 1..j |-> r]
      BY <2>1
    <3>3. one \in Seq(Text) /\ Len(one) = 1 /\ one[1] = r
      BY <2>1
    <3> HIDE DEF x, y, one
    <3> DEFINE z == x \o one
    <3>4. /\ z \in Seq(Text) /\ Len(z) = j
          /\ \A i \in 1..(j - 1) : z[i] = x[i]
          /\ z[j] = one[1]
      <4>0. x \in Seq(Text) /\ one \in Seq(Text)
        BY <3>1, <3>3
      <4>1. /\ z \in Seq(Text) /\ Len(z) = Len(x) + Len(one)
            /\ \A i \in 1..Len(x) : z[i] = x[i]
            /\ \A i \in 1..Len(one) : z[Len(x) + i] = one[i]
        BY <4>0, ConcatParts
      <4>2. Len(x) + 1 = j /\ 1 \in 1..Len(one)
        BY <3>1, <3>3
      <4> QED
        BY <3>1, <3>3, <4>1, <4>2
    <3> HIDE DEF z
    <3>5. \A i \in 1..j : z[i] = r
      <4> TAKE i \in 1..j
      <4>1. i = j \/ i \in 1..(j - 1)
        OBVIOUS
      <4> QED
        BY <3>1, <3>3, <3>4, <4>1
    <3>6. z = [i \in 1..j |-> z[i]]
      BY <3>4
    <3>7. z = y
      BY <3>2, <3>5, <3>6
    <3> QED
      BY <3>7 DEF x, y, z
  <2>5. 0 \in P
    <3>1. s \o <<>> = s
      BY <1>3, ConcatIs DEF Texts
    <3>2. g[c - 1 + 0] = s
      BY <1>5 DEF s
    <3> HIDE DEF W
    <3>3. g[c - 1 + 0] = s \o W(0)
      BY <2>3, <3>1, <3>2
    <3> QED
      BY <1>1, <3>3
  <2>6. ASSUME NEW j \in 1..m, j - 1 \in P PROVE j \in P
    <3>1. c - 1 + j \in c..d /\ j \in 0..m /\ j \in Nat \ {0} /\ j - 1 \in Nat
      BY <1>1, <1>2
    <3>2. Restored(b, c - 1 + j) = one
      BY <1>1, <1>7, <3>1 DEF r
    <3>3. g[c - 1 + (j - 1)] = s \o W(j - 1)
      BY <2>6
    <3>4. one \in Texts
      BY <2>1, BufferOne
    <3> HIDE DEF W, one
    <3>5. (s \o W(j - 1)) \o one = s \o (W(j - 1) \o one)
      <4> DEFINE v == W(j - 1)
      <4>1. v \in Seq(Text) /\ s \in Seq(Text) /\ one \in Seq(Text)
        BY <1>3, <2>2, <3>1, <3>4 DEF Texts
      <4> HIDE DEF v, one, s
      <4>2. (s \o v) \o one = s \o (v \o one)
        BY <4>1, ConcatAssociates
      <4> QED
        BY <4>2 DEF v
    <3>6. W(j - 1) \o one = W(j)
      BY <2>4, <3>1
    <3>7. g[c - 1 + j] = s \o W(j)
      BY <1>4, <3>2, <3>3, <3>5, <3>6
    <3> QED
      BY <3>1, <3>7
  <2> HIDE DEF P
  <2>7. \A j \in 0..m : j \in P
    BY <1>1, <2>5, <2>6, UpTo
  <2>8. m \in P
    BY <1>1, <2>7
  <2>9. g[d] = s \o W(m)
    BY <1>5, <2>8 DEF P
  <2>10. Decoded(h) = W(m)
    <3>1. DOMAIN h = 1..m
      BY <1>1 DEF Held, m
    <3> QED
      BY <1>7, <3>1 DEF Decoded, r
  <2> QED
    BY <2>9, <2>10 DEF s, h
<1> QED
  BY <1>6, <1>7

(* After some tokens the decoder has written what the reference has, but    *)
(* for the run it holds back.                                               *)
Holding(g, b, acc, k) ==
  LET m == Len(acc.held)
  IN /\ m <= k /\ acc.out = g[k - m]
     /\ \A i \in 1..m : /\ IsFallback(b[k - m + i])
                        /\ acc.held[i] = FallbackByte[b[k - m + i][1]]
     /\ k - m = 0 \/ ~IsFallback(b[k - m])

(* A flush writes what the reference has for the run held back. *)
LEMMA FlushReads ==
  ASSUME NEW b \in Texts, NEW g, AreRestored(g, b), NEW acc \in Folded, NEW k \in 0..Len(b),
         Holding(g, b, acc, k), k = Len(b) \/ ~IsFallback(b[k + 1])
  PROVE  Flush(acc).out = g[k]
<1> DEFINE m == Len(acc.held)
           h == acc.held
           c == k - m + 1
<1>1. /\ h \in Held /\ m \in Nat /\ acc.out \in Texts /\ Len(b) \in Nat
      /\ h = <<>> <=> m = 0
  BY DEF Folded, Held, Texts
<1>2. /\ m <= k /\ acc.out = g[k - m]
      /\ \A i \in 1..m : IsFallback(b[k - m + i]) /\ h[i] = FallbackByte[b[k - m + i][1]]
      /\ k - m = 0 \/ ~IsFallback(b[k - m])
  BY DEF Holding
<1>3. CASE m = 0
  <2>1. Flush(acc) = acc
    BY <1>1, <1>3 DEF Flush
  <2>2. k - m = k
    BY <1>3
  <2> QED
    BY <1>2, <2>1, <2>2
<1>4. CASE m # 0
  <2>1. Flush(acc).out = acc.out \o Decoded(h)
    BY <1>1, <1>4 DEF Flush, Folded
  <2>2. c \in Int /\ k \in Int /\ c - 1 = k - m
    BY <1>1
  <2> HIDE DEF m
  <2>3. IsRun(b, c, k)
    <3>1. c \in 1..k /\ k \in 1..Len(b)
      BY <1>1, <1>2, <1>4
    <3>2. \A i \in c..k : IsFallback(b[i])
      <4> TAKE i \in c..k
      <4>1. i - (k - m) \in 1..m /\ k - m + (i - (k - m)) = i
        BY <1>1
      <4> QED
        BY <1>2, <4>1
    <3>3. c = 1 \/ ~IsFallback(b[c - 1])
      BY <1>1, <1>2, <2>2
    <3> QED
      BY <3>1, <3>2, <3>3 DEF IsRun
  <2>4. h = RunBytes(b, c, k)
    <3>1. k - c + 1 = m
      BY <1>1
    <3>2. ASSUME NEW i \in 1..m PROVE h[i] = FallbackByte[b[c + i - 1][1]]
      <4>1. c + i - 1 = k - m + i
        BY <1>1
      <4> QED
        BY <1>2, <4>1
    <3>3. h = [i \in 1..m |-> h[i]]
      BY <1>1 DEF Held, m
    <3>4. RunBytes(b, c, k) = [i \in 1..m |-> FallbackByte[b[c + i - 1][1]]]
      BY <3>1 DEF RunBytes
    <3> HIDE DEF h, c
    <3> QED
      BY <3>2, <3>3, <3>4
  <2> HIDE DEF h, c
  <2>5. g[k] = g[c - 1] \o Decoded(h)
    <3>1. g[k] = g[c - 1] \o Decoded(RunBytes(b, c, k))
      BY <2>2, <2>3, RunFlattened
    <3> QED
      BY <2>4, <3>1
  <2> QED
    BY <1>2, <2>1, <2>2, <2>5
<1> QED
  BY <1>3, <1>4

LEMMA RestoredIs ==
  ASSUME NEW b \in Texts, NEW i \in 1..Len(b)
  PROVE  ~IsFallback(b[i]) => Restored(b, i) = <<b[i]>> /\ Restored(b, i) \in Texts
<1>1. b[i] \in Text
  BY DEF Texts
<1>2. <<b[i]>> \in Texts
  BY <1>1, BufferOne
<1> QED
  BY <1>2 DEF Restored

(* Every fallback token is in a run. *)
LEMMA RunExists ==
  ASSUME NEW b \in Texts, NEW i \in 1..Len(b), IsFallback(b[i])
  PROVE  \E c, d \in Int : IsRun(b, c, d) /\ i \in c..d
<1> DEFINE n == Len(b)
<1>1. n \in Nat /\ i \in Nat /\ i >= 1 /\ i <= n
  BY DEF Texts
<1> HIDE DEF n
<1>2. \E c \in 1..i : (\A k \in c..i : IsFallback(b[k])) /\ (c = 1 \/ ~IsFallback(b[c - 1]))
  <2> DEFINE P == {k \in 0..i : k = 0 \/ ~IsFallback(b[k]) \/
                     \E c \in 1..k : (\A x \in c..k : IsFallback(b[x])) /\ (c = 1 \/ ~IsFallback(b[c - 1]))}
  <2>1. 0 \in P
    BY <1>1
  <2>2. ASSUME NEW k \in 1..i, k - 1 \in P PROVE k \in P
    <3>0. k \in 0..i /\ k \in Nat /\ k >= 1
      BY <1>1
    <3> SUFFICES ASSUME IsFallback(b[k])
                 PROVE  \E c \in 1..k : /\ \A x \in c..k : IsFallback(b[x])
                                        /\ c = 1 \/ ~IsFallback(b[c - 1])
      BY <3>0
    <3>1. CASE k - 1 = 0 \/ ~IsFallback(b[k - 1])
      <4>1. k \in 1..k /\ (\A x \in k..k : x = k) /\ (k = 1 \/ ~IsFallback(b[k - 1]))
        BY <3>0, <3>1
      <4> QED
        BY <4>1
    <3>2. CASE k - 1 # 0 /\ IsFallback(b[k - 1])
      <4>1. PICK c \in 1..(k - 1) : /\ \A x \in c..(k - 1) : IsFallback(b[x])
                                    /\ c = 1 \/ ~IsFallback(b[c - 1])
        BY <2>2, <3>2
      <4>2. c \in 1..k /\ \A x \in c..k : x \in c..(k - 1) \/ x = k
        BY <3>0
      <4> QED
        BY <4>1, <4>2
    <3> QED
      BY <3>1, <3>2
  <2> HIDE DEF P
  <2>3. \A k \in 0..i : k \in P
    BY <1>1, <2>1, <2>2, UpTo
  <2>4. i \in P
    BY <1>1, <2>3
  <2> QED
    BY <1>1, <2>4 DEF P
<1>3. \E d \in i..n : (\A k \in i..d : IsFallback(b[k])) /\ (d = n \/ ~IsFallback(b[d + 1]))
  <2> DEFINE Down(j) == n - j
             m == n - i
             P == {j \in 0..m : ~IsFallback(b[Down(j)]) \/
                     \E d \in Down(j)..n : /\ \A x \in Down(j)..d : IsFallback(b[x])
                                           /\ d = n \/ ~IsFallback(b[d + 1])}
  <2>0. m \in Nat /\ Down(m) = i
    BY <1>1
  <2>1. 0 \in P
    <3>1. Down(0) = n /\ n \in n..n /\ \A x \in n..n : x = n
      BY <1>1
    <3> HIDE DEF Down
    <3> SUFFICES ASSUME IsFallback(b[Down(0)])
                 PROVE  \E d \in Down(0)..n : /\ \A x \in Down(0)..d : IsFallback(b[x])
                                              /\ d = n \/ ~IsFallback(b[d + 1])
      BY <2>0
    <3> QED
      BY <3>1
  <2>2. ASSUME NEW j \in 1..m, j - 1 \in P PROVE j \in P
    <3> DEFINE k == Down(j)
    <3>0. j \in 0..m /\ k \in Int /\ k + 1 <= n /\ Down(j - 1) = k + 1
      BY <1>1, <2>0
    <3> SUFFICES ASSUME IsFallback(b[k])
                 PROVE  \E d \in k..n : /\ \A x \in k..d : IsFallback(b[x])
                                        /\ d = n \/ ~IsFallback(b[d + 1])
      BY <3>0
    <3>3. \/ ~IsFallback(b[k + 1])
          \/ \E d \in (k + 1)..n : /\ \A x \in (k + 1)..d : IsFallback(b[x])
                                   /\ d = n \/ ~IsFallback(b[d + 1])
      BY <2>2, <3>0
    <3> HIDE DEF k, Down
    <3>1. CASE ~IsFallback(b[k + 1])
      <4>1. k \in k..n /\ (\A x \in k..k : x = k)
        BY <1>1, <3>0
      <4> QED
        BY <3>1, <4>1
    <3>2. CASE IsFallback(b[k + 1])
      <4>1. PICK d \in (k + 1)..n : /\ \A x \in (k + 1)..d : IsFallback(b[x])
                                    /\ d = n \/ ~IsFallback(b[d + 1])
        BY <3>2, <3>3
      <4>2. d \in k..n /\ \A x \in k..d : x \in (k + 1)..d \/ x = k
        BY <1>1, <3>0
      <4> QED
        BY <4>1, <4>2
    <3> QED
      BY <3>1, <3>2
  <2> HIDE DEF P
  <2>3. \A j \in 0..m : j \in P
    BY <2>0, <2>1, <2>2, UpTo
  <2>4. m \in P
    BY <2>0, <2>3
  <2> QED
    BY <1>1, <2>0, <2>4 DEF P
<1>4. PICK c \in 1..i : (\A k \in c..i : IsFallback(b[k])) /\ (c = 1 \/ ~IsFallback(b[c - 1]))
  BY <1>2
<1>5. PICK d \in i..n : (\A k \in i..d : IsFallback(b[k])) /\ (d = n \/ ~IsFallback(b[d + 1]))
  BY <1>3
<1>6. c \in Int /\ d \in Int /\ i \in c..d /\ c \in 1..d /\ d \in 1..n
  BY <1>1
<1>7. \A k \in c..d : k \in c..i \/ k \in i..d
  BY <1>1
<1>8. IsRun(b, c, d)
  BY <1>4, <1>5, <1>6, <1>7 DEF IsRun, n
<1> QED
  BY <1>6, <1>8

LEMMA RestoredFits ==
  ASSUME NEW b \in Texts, NEW i \in 1..Len(b) PROVE Restored(b, i) \in Texts
<1>1. CASE ~IsFallback(b[i])
  BY <1>1, RestoredIs
<1>2. CASE IsFallback(b[i])
  <2>1. PICK c, d \in Int : IsRun(b, c, d) /\ i \in c..d
    BY <1>2, RunExists
  <2> DEFINE h == RunBytes(b, c, d)
             x == <<Lossy(h)>>
             y == <<<<"R">>>>
             z == <<>>
  <2>2. h \in Held /\ Restored(b, i) = IF ~IsUtf8(h) THEN y ELSE IF i = c THEN x ELSE z
    BY <2>1, RunRestored
  <2>3. x \in Texts
    <3>1. Lossy(h) \in Text
      BY <2>2, HeldIs, LossyIs
    <3> QED
      BY <3>1, BufferOne
  <2>4. y \in Texts
    <3>1. "R" \in Symbol
      BY DEF Symbol, Width
    <3>2. <<"R">> \in Text
      BY <3>1, BytesOne
    <3> QED
      BY <3>2, BufferOne
  <2>5. z \in Texts
    BY BufferEmpty
  <2> HIDE DEF x, y, z
  <2> QED
    BY <2>2, <2>3, <2>4, <2>5
<1> QED
  BY <1>1, <1>2

(* apply_byte_fallback gives the reference: a run of fallback tokens that   *)
(* is no UTF-8 is one replacement character a token, another its text.      *)
LEMMA FallbackIsTheReference ==
  ASSUME NEW b \in Texts PROVE ByteFallback(b).out = RefFallback(b)
<1> DEFINE n == Len(b)
           R == Fold(b)
<1>1. n \in Nat /\ \A k \in 1..n : b[k] \in Text
  BY DEF Texts
<1>2. /\ R \in [0..n -> Folded] /\ R[0] = NoTokens
      /\ \A k \in 1..n : R[k] = NextFallback(R[k - 1], b[k])
      /\ ByteFallback(b) = Flush(R[n])
  BY FoldIs
<1>3. PICK g : AreRestored(g, b) /\ RefFallback(b) = g[n]
  BY RestoredFits, RestoredExist
<1>4. g \in [0..n -> Texts] /\ g[0] = <<>> /\ \A k \in 1..n : g[k] = g[k - 1] \o Restored(b, k)
  BY <1>3 DEF AreRestored
<1> HIDE DEF n, R
<1> DEFINE P == {k \in 0..n : Holding(g, b, R[k], k)}
<1>5. 0 \in P
  <2>1. R[0].out = <<>> /\ R[0].held = <<>> /\ Len(R[0].held) = 0
    BY <1>2 DEF NoTokens
  <2>2. Holding(g, b, R[0], 0)
    <3> DEFINE acc == R[0]
    <3>1. acc.out = <<>> /\ Len(acc.held) = 0
      BY <2>1
    <3> HIDE DEF acc
    <3>2. 0 <= 0 /\ 0 - 0 = 0
      OBVIOUS
    <3>3. acc.out = g[0 - 0]
      BY <1>4, <3>1, <3>2
    <3> QED
      BY <3>1, <3>2, <3>3 DEF Holding, acc
  <2> QED
    BY <1>1, <2>2
<1>6. ASSUME NEW k \in 1..n, k - 1 \in P PROVE k \in P
  <2> DEFINE acc == R[k - 1]
             t == b[k]
             m == Len(acc.held)
  <2>1. k \in 0..n /\ k - 1 \in 0..n /\ (k - 1) + 1 = k /\ t \in Text
    BY <1>1
  <2>2. /\ acc \in Folded /\ R[k] = NextFallback(acc, t) /\ Holding(g, b, acc, k - 1)
        /\ acc.out \in Texts /\ acc.held \in Held /\ m \in Nat
    <3>1. acc \in Folded /\ R[k] = NextFallback(acc, t) /\ Holding(g, b, acc, k - 1)
      BY <1>2, <1>6, <2>1
    <3>2. acc.out \in Texts /\ acc.held \in Held
      BY <3>1 DEF Folded
    <3> QED
      BY <3>1, <3>2 DEF Held
  <2> HIDE DEF acc, t
  <2>3. CASE IsFallback(t)
    <3> DEFINE y == FallbackByte[t[1]]
               h == Append(acc.held, y)
    <3>1. y \in {"lead", "cont"}
      BY <2>1, <2>3, FallbackTokens
    <3>2. R[k].out = acc.out /\ R[k].held = h
      BY <2>2, <2>3 DEF NextFallback, Folded
    <3> HIDE DEF y
    <3>3. Len(h) = m + 1 /\ h[m + 1] = y /\ \A i \in 1..m : h[i] = acc.held[i]
      BY <2>2, <3>1 DEF Held
    <3> HIDE DEF h, m
    <3>4. /\ m <= k - 1 /\ acc.out = g[(k - 1) - m]
          /\ \A i \in 1..m : /\ IsFallback(b[(k - 1) - m + i])
                             /\ acc.held[i] = FallbackByte[b[(k - 1) - m + i][1]]
          /\ (k - 1) - m = 0 \/ ~IsFallback(b[(k - 1) - m])
      BY <2>2 DEF Holding, m
    <3>5. k - (m + 1) = (k - 1) - m /\ m + 1 <= k /\ k - (m + 1) + (m + 1) = k
      BY <2>1, <2>2, <3>4
    <3>6. \A i \in 1..(m + 1) : /\ IsFallback(b[k - (m + 1) + i])
                                /\ h[i] = FallbackByte[b[k - (m + 1) + i][1]]
      <4> TAKE i \in 1..(m + 1)
      <4>1. i \in 1..m \/ i = m + 1
        BY <2>2
      <4>2. CASE i \in 1..m
        BY <3>3, <3>4, <3>5, <4>2
      <4>3. CASE i = m + 1
        <5>1. k - (m + 1) + i = k
          BY <3>5, <4>3
        <5> QED
          BY <2>3, <3>3, <4>3, <5>1 DEF y, t
      <4> QED
        BY <4>1, <4>2, <4>3
    <3>7. Holding(g, b, R[k], k)
      <4>1. Len(R[k].held) = m + 1 /\ R[k].held = h
        BY <3>2, <3>3
      <4> QED
        BY <3>2, <3>4, <3>5, <3>6, <4>1 DEF Holding
    <3> QED
      BY <2>1, <3>7
  <2>4. CASE ~IsFallback(t)
    <3>1. Flush(acc).out = g[k - 1]
      <4>1. ~IsFallback(b[(k - 1) + 1]) /\ k - 1 \in 0..Len(b)
        BY <2>1, <2>4 DEF t, n
      <4> QED
        BY <1>3, <2>2, <4>1, FlushReads
    <3>2. Flush(acc) \in Folded /\ Flush(acc).held = <<>>
      BY <2>2, FlushIs
    <3>3. R[k].out = Append(g[k - 1], t) /\ R[k].held = <<>>
      BY <2>2, <2>4, <3>1, <3>2 DEF NextFallback, Folded
    <3>4. g[k - 1] \in Texts
      BY <1>4, <2>1
    <3>5. Append(g[k - 1], t) = g[k - 1] \o <<t>>
      BY <2>1, <3>4, ConcatIs DEF Texts
    <3>6. Restored(b, k) = <<t>>
      <4>1. k \in 1..Len(b)
        BY DEF n
      <4> QED
        BY <2>4, <4>1, RestoredIs DEF t
    <3>7. R[k].out = g[k]
      <4> DEFINE one == <<t>>
      <4>1. g[k] = g[k - 1] \o one
        BY <1>4, <3>6
      <4> QED
        BY <3>3, <3>5, <4>1
    <3>8. Holding(g, b, R[k], k)
      <4>1. Len(R[k].held) = 0
        BY <3>3
      <4>2. k - 0 = k /\ 0 <= k
        BY <2>1
      <4>3. ~IsFallback(b[k])
        BY <2>4 DEF t
      <4> QED
        BY <3>7, <4>1, <4>2, <4>3 DEF Holding
    <3> QED
      BY <2>1, <3>8
  <2> QED
    BY <2>3, <2>4
<1> HIDE DEF P
<1>7. \A k \in 0..n : k \in P
  BY <1>1, <1>5, <1>6, UpTo
<1>8. n \in P /\ R[n] \in Folded /\ n \in 0..n
  BY <1>1, <1>2, <1>7
<1>9. Flush(R[n]).out = g[n]
  <2>1. Holding(g, b, R[n], n) /\ n = Len(b)
    BY <1>8 DEF P, n
  <2> QED
    BY <1>3, <1>8, <2>1, FlushReads
<1> QED
  BY <1>2, <1>3, <1>9

------------------------------------------------------------------------------
(* A generation and its answer. *)

(* Stage::apply gives, for every stage and every buffer of tokens, what the *)
(* reference says by position: write_lossy_utf8, apply_byte_fallback and    *)
(* apply_deduplicate lose, repeat and reorder nothing by reading ahead.     *)
THEOREM StageIsTheReference ==
  ASSUME NEW b \in Texts, NEW s, IsStage(s)
  PROVE  Apply(s, b).out = RefStage(b, s) /\ RefStage(b, s) \in Texts
<1>1. Apply(s, b).out \in Texts
  BY StageIsBounded DEF Announced
<1>2. CASE s.op = "ByteLevel"
  <2> DEFINE c == [i \in DOMAIN b |-> TokenBytes(b[i])]
             raw == FlattenSeq(c)
  <2>1. Apply(s, b) = [out |-> <<Lossy(raw)>>, raw |-> Bytes(raw)]
    BY <1>2 DEF Apply, ByteLevel
  <2>2. RefStage(b, s) = <<RefLossy(raw)>>
    BY <1>2 DEF RefStage
  <2>3. \A i \in 1..Len(b) : c[i] \in Text
    BY TokenBytesAre DEF Texts
  <2>4. c = [i \in DOMAIN b |-> c[i]]
    OBVIOUS
  <2> HIDE DEF c
  <2>5. c \in Texts
    BY <2>3, <2>4, EachTokenIs
  <2>6. raw \in Text
    BY <2>5, TotalsAre
  <2>7. Lossy(raw) = RefLossy(raw)
    BY <2>6, LossyIsTheReference
  <2> QED
    BY <1>1, <2>1, <2>2, <2>7
<1>3. CASE s.op = "ByteFallback"
  <2>1. Apply(s, b).out = ByteFallback(b).out /\ RefStage(b, s) = RefFallback(b)
    BY <1>3 DEF Apply, RefStage
  <2> QED
    BY <1>1, <2>1, FallbackIsTheReference
<1>4. CASE s.op = "CtcDeduplicate"
  <2> DEFINE p == [i \in DOMAIN b |-> IF i > 1 /\ b[i - 1] = b[i] THEN <<>> ELSE <<b[i]>>]
  <2>1. Apply(s, b).out = Deduplicated(b) /\ RefStage(b, s) = FlattenSeq(p)
    BY <1>4 DEF Apply, RefStage
  <2> QED
    BY <1>1, <2>1, DeduplicatedIsTheReference
<1>5. CASE s.op \notin {"ByteLevel", "ByteFallback", "CtcDeduplicate"}
  <2>1. RefStage(b, s) = Apply(s, b).out
    BY <1>5 DEF RefStage
  <2> QED
    BY <1>1, <2>1
<1> QED
  BY <1>2, <1>3, <1>4, <1>5

References(p, b) == Passes(RefStage, b, p)

(* The reference decoding, stage by stage. *)
LEMMA ReferencesAre ==
  ASSUME NEW p, IsProgram(p), NEW b \in Texts
  PROVE  /\ Len(p) \in Nat /\ References(p, b) \in [0..Len(p) -> Texts] /\ References(p, b)[0] = b
         /\ \A k \in 1..Len(p) : References(p, b)[k] = RefStage(References(p, b)[k - 1], p[k])
         /\ Pass(RefStage, b, p) = References(p, b)[Len(p)]
<1> DEFINE n == Len(p)
           F == [k \in 1..n |-> [x \in Texts |-> RefStage(x, p[k])]]
           Is(f) == f = [k \in 0..n |-> IF k = 0 THEN b ELSE RefStage(f[k - 1], p[k])]
<1>1. n \in Nat /\ DOMAIN p = 1..n /\ \A k \in 1..n : IsStage(p[k])
  BY DEF IsProgram
<1>2. AreSteps(F, Texts, n)
  <2>1. \A k \in 1..n : \A x \in Texts : RefStage(x, p[k]) \in Texts
    BY <1>1, StageIsTheReference
  <2> QED
    BY <2>1 DEF AreSteps
<1> HIDE DEF n
<1>3. PICK g : AreTaken(g, F, Texts, b, n)
  <2> HIDE DEF F
  <2> QED
    BY <1>1, <1>2, StepsExist
<1>4. Is(g)
  <2>1. /\ g \in [0..n -> Texts] /\ g[0] = b /\ \A k \in 1..n : g[k] = F[k][g[k - 1]]
    BY <1>3 DEF AreTaken
  <2>2. ASSUME NEW k \in 1..n PROVE g[k] = RefStage(g[k - 1], p[k])
    <3>1. g[k - 1] \in Texts
      BY <1>1, <2>1
    <3> QED
      BY <2>1, <3>1
  <2> QED
    BY <1>1, <2>1, <2>2
<1> DEFINE r == References(p, b)
<1>5. r = CHOOSE f : Is(f)
  BY DEF References, Passes, n
<1> HIDE DEF r
<1>6. Is(r)
  <2> HIDE DEF Is
  <2> QED
    BY <1>4, <1>5
<1>7. r = [k \in 0..n |-> r[k]] /\ r[0] = b /\ \A k \in 1..n : r[k] = RefStage(r[k - 1], p[k])
  BY <1>1, <1>6
<1>8. r \in [0..n -> Texts]
  <2>1. \A k \in 1..n : r[k - 1] \in Texts => r[k] \in Texts
    BY <1>1, <1>7, StageIsTheReference
  <2> QED
    BY <1>1, <1>7, <2>1, StaysIn
<1> QED
  BY <1>1, <1>7, <1>8 DEF r, n, Pass, References

------------------------------------------------------------------------------
(* A token at the end of what follows the prompt. *)
LEMMA Prompted ==
  ASSUME NEW S, NEW s \in Seq(S), NEW t \in S, NEW x
  PROVE  /\ Append(<<x>> \o s, t) = <<x>> \o Append(s, t)
         /\ Front(Append(s, t)) = s
<1>1. Front(Append(s, t)) = s
  BY DEF Front
<1>2. PICK T : T = S \cup {x}
  OBVIOUS
<1>3. s \in Seq(T) /\ t \in T /\ x \in T
  BY <1>2
<1> DEFINE one == <<x>>
           two == <<t>>
<1>4. one \in Seq(T) /\ two \in Seq(T)
  BY <1>3
<1>5. Append(s, t) = s \o two /\ Append(one \o s, t) = (one \o s) \o two
  <2>1. one \o s \in Seq(T)
    BY <1>3, <1>4, ConcatParts
  <2> HIDE DEF one
  <2> QED
    BY <1>3, <2>1, ConcatIs
<1>6. (one \o s) \o two = one \o (s \o two)
  BY <1>3, <1>4, ConcatAssociates
<1> QED
  BY <1>1, <1>5, <1>6

(* What the driver was given, when all it said is stored. *)
Said ==
  IF next = StopToken THEN fed = <<"prompt">> \o ids
  ELSE Len(ids) = MaxOutputTokens /\ fed = <<"prompt">> \o Front(ids)

(* The inductive invariant: what the driver has been given matches what is  *)
(* stored, and the buffer that is due is the reference's after its stages.  *)
AnswerInv ==
  /\ pc # "done" => result = None
  /\ StopToken \notin {ids[i] : i \in DOMAIN ids}
  /\ pc = "acquire" => fed = <<>> /\ next = "prompt" /\ ids = <<>>
  /\ pc = "step" => Append(fed, next) = <<"prompt">> \o ids
  /\ pc = "select" => fed = <<"prompt">> \o ids
  /\ pc \in {"seed", "decode", "publish"} => Said
  /\ pc = "decode" => first = References(tokenizer.program, Spelled(ids))[stage - 1]
  /\ pc = "publish" =>
       /\ output = RefText(tokenizer.program, tokenizer.joined, Spelled(ids))
       /\ Bytes(output) <= OutputBytes
  /\ PublishesTheAnswer

LEMMA SpelledStays ==
  ASSUME ids' = ids, tokenizer' = tokenizer
  PROVE  Spelled(ids)' = Spelled(ids)
BY DEF Spelled, Kept

(* AnswerInv holds at the start and is kept by each step. *)
LEMMA AnswerInvStart == GenerationInit => AnswerInv
<1> SUFFICES ASSUME GenerationInit PROVE AnswerInv
  OBVIOUS
<1>1. /\ pc = "acquire" /\ result = "none" /\ ids = <<>> /\ fed = <<>> /\ next = "prompt"
  BY DEF GenerationInit, None
<1>2. StopToken \notin {ids[i] : i \in DOMAIN ids}
  <2>1. DOMAIN ids = {}
    BY <1>1
  <2> QED
    BY <2>1
<1> QED
  BY <1>1, <1>2 DEF AnswerInv, PublishesTheAnswer, None

(* A generation that ends without an answer. *)
LEMMA FailsKeeps ==
  ASSUME AnswerInv, NEW why, why \notin {"EndOfSequence", "Length"}, Fails(why)
  PROVE  AnswerInv'
<1>1. pc' = "done" /\ result' = why /\ ids' = ids
  BY DEF Fails, storage
<1>2. StopToken \notin {ids[i] : i \in DOMAIN ids}
  BY DEF AnswerInv
<1> QED
  BY <1>1, <1>2 DEF AnswerInv, PublishesTheAnswer

LEMMA StepAnswers == AnswerInv /\ Step => AnswerInv'
<1> SUFFICES ASSUME AnswerInv, Step PROVE AnswerInv'
  OBVIOUS
<1>1. /\ pc = "step" /\ pc' = "select" /\ fed' = Append(fed, next)
      /\ ids' = ids /\ result' = result
  BY DEF Step, AtBoundary, storage
<1>2. /\ result = None /\ StopToken \notin {ids[i] : i \in DOMAIN ids}
      /\ Append(fed, next) = <<"prompt">> \o ids
  BY <1>1 DEF AnswerInv
<1> QED
  BY <1>1, <1>2 DEF AnswerInv, PublishesTheAnswer, None

LEMMA AcquireAnswers == AnswerInv /\ Acquire => AnswerInv'
<1> SUFFICES ASSUME AnswerInv, Acquire PROVE AnswerInv'
  OBVIOUS
<1>1. CASE Fails("Storage")
  BY <1>1, FailsKeeps
<1>2. CASE ~cancelled /\ pc' = "step" /\ UNCHANGED <<cancelled, request, fed, next, storage, result>>
  <2>1. /\ pc = "acquire" /\ pc' = "step" /\ fed' = fed /\ next' = next /\ ids' = ids /\ result' = result
    BY <1>2 DEF Acquire, storage
  <2>2. /\ result = None /\ StopToken \notin {ids[i] : i \in DOMAIN ids}
        /\ fed = <<>> /\ next = "prompt" /\ ids = <<>>
    BY <2>1 DEF AnswerInv
  <2>3. Append(fed, next) = <<"prompt">> \o ids
    BY <2>2
  <2> QED
    BY <2>1, <2>2, <2>3 DEF AnswerInv, PublishesTheAnswer, None
<1> QED
  BY <1>1, <1>2 DEF Acquire

LEMMA SelectAnswers ==
  ASSUME GenerationInv, AnswerInv, NEW t \in Token(tokenizer), Select(t)
  PROVE  AnswerInv'
<1>1. /\ pc = "select" /\ next' = t /\ fed' = fed /\ ids \in Seq(Token(tokenizer))
      /\ result = None /\ StopToken \notin {ids[i] : i \in DOMAIN ids}
      /\ fed = <<"prompt">> \o ids
  BY DEF Select, AtBoundary, GenerationInv, AnswerInv
<1>2. CASE t = StopToken /\ pc' = "seed" /\ UNCHANGED <<ids, result>>
  <2>1. Said'
    BY <1>1, <1>2 DEF Said
  <2> QED
    BY <1>1, <1>2, <2>1 DEF AnswerInv, PublishesTheAnswer, None
<1>3. CASE t # StopToken /\ Len(ids) + 1 > plan.tokens
  <2>1. pc' = "done" /\ result' = "TokenCapacity" /\ ids' = ids
    BY <1>3 DEF Select
  <2> QED
    BY <1>1, <2>1 DEF AnswerInv, PublishesTheAnswer
<1>4. CASE t # StopToken /\ ~(Len(ids) + 1 > plan.tokens)
  <2>1. /\ ids' = Append(ids, t) /\ result' = result
        /\ pc' = IF Len(ids') = MaxOutputTokens THEN "seed" ELSE "step"
    BY <1>4 DEF Select
  <2> DEFINE more == Append(ids, t)
  <2>2. Append(<<"prompt">> \o ids, t) = <<"prompt">> \o more /\ Front(more) = ids
    BY <1>1, Prompted
  <2>3. StopToken \notin {more[i] : i \in DOMAIN more}
    <3>1. DOMAIN more = 1..(Len(ids) + 1) /\ DOMAIN ids = 1..Len(ids) /\ Len(ids) \in Nat
          /\ more[Len(ids) + 1] = t /\ \A i \in 1..Len(ids) : more[i] = ids[i]
      BY <1>1
    <3> HIDE DEF more
    <3>2. \A i \in 1..(Len(ids) + 1) : i \in 1..Len(ids) \/ i = Len(ids) + 1
      BY <3>1
    <3> QED
      BY <1>1, <1>4, <3>1, <3>2
  <2> HIDE DEF more
  <2>4. ids' = more
    BY <2>1 DEF more
  <2>5. Append(fed', next') = <<"prompt">> \o more
    BY <1>1, <2>2
  <2>6. Len(more) = MaxOutputTokens => Said'
    BY <1>1, <1>4, <2>2, <2>4 DEF Said
  <2>7. result' = None /\ pc' = (IF Len(more) = MaxOutputTokens THEN "seed" ELSE "step")
    BY <1>1, <2>1, <2>4 DEF None
  <2> QED
    BY <2>3, <2>4, <2>5, <2>6, <2>7 DEF AnswerInv, PublishesTheAnswer, None
<1> QED
  BY <1>2, <1>3, <1>4 DEF Select

LEMMA SeedAnswers == GenerationInv /\ AnswerInv /\ Seed => AnswerInv'
<1> SUFFICES ASSUME GenerationInv, AnswerInv, Seed PROVE AnswerInv'
  OBVIOUS
<1>1. /\ pc = "seed" /\ stage = 1 /\ tokenizer \in Tokenizers /\ ids \in Seq(Token(tokenizer))
      /\ result = None /\ StopToken \notin {ids[i] : i \in DOMAIN ids} /\ Said
      /\ ids' = ids /\ fed' = fed /\ next' = next /\ stage' = stage /\ tokenizer' = tokenizer
  BY DEF Seed, AtBoundary, GenerationInv, AnswerInv, request
<1>2. Said' /\ Spelled(ids)' = Spelled(ids)
  BY <1>1, SpelledStays DEF Said
<1>3. CASE Fits(Seeded, 0)
  <2>1. first' = Spelled(ids) /\ pc' = "decode" /\ result' = result
    BY <1>3 DEF Seed, Seeded
  <2>2. IsProgram(tokenizer.program) /\ Spelled(ids) \in Texts
    BY <1>1, TokenAssumption, SpelledIs
  <2>3. References(tokenizer.program, Spelled(ids))[0] = Spelled(ids)
    BY <2>2, ReferencesAre
  <2>4. stage' - 1 = 0
    BY <1>1
  <2>5. first' = References(tokenizer.program, Spelled(ids))[stage' - 1]
    BY <2>1, <2>3, <2>4
  <2>6. (first = References(tokenizer.program, Spelled(ids))[stage - 1])'
    BY <1>1, <1>2, <2>5
  <2> QED
    BY <1>1, <1>2, <2>1, <2>6 DEF AnswerInv, PublishesTheAnswer, None
<1>4. CASE ~Fits(Seeded, 0)
  <2>1. pc' = "done" /\ result' = "Exhausted"
    BY <1>4 DEF Seed
  <2> QED
    BY <1>1, <2>1 DEF AnswerInv, PublishesTheAnswer
<1> QED
  BY <1>3, <1>4

LEMMA ApplyStageAnswers == GenerationInv /\ AnswerInv /\ ApplyStage => AnswerInv'
<1> SUFFICES ASSUME GenerationInv, AnswerInv, ApplyStage PROVE AnswerInv'
  OBVIOUS
<1> DEFINE p == tokenizer.program
           n == Len(p)
           refs == References(p, Spelled(ids))
           done == Apply(p[stage], first)
<1>1. /\ pc = "decode" /\ stage \in 1..(n + 1) /\ stage <= n
      /\ tokenizer \in Tokenizers /\ ids \in Seq(Token(tokenizer))
      /\ first \in Texts /\ first = refs[stage - 1]
      /\ result = None /\ StopToken \notin {ids[i] : i \in DOMAIN ids} /\ Said
      /\ ids' = ids /\ fed' = fed /\ next' = next /\ tokenizer' = tokenizer
  BY DEF ApplyStage, GenerationInv, AnswerInv, request
<1>2. Said' /\ Spelled(ids)' = Spelled(ids)
  BY <1>1, SpelledStays DEF Said
<1>3. IsProgram(p) /\ Spelled(ids) \in Texts
  BY <1>1, TokenAssumption, SpelledIs
<1>4. n \in Nat /\ \A k \in 1..n : refs[k] = RefStage(refs[k - 1], p[k])
  BY <1>3, ReferencesAre
<1>5. IsStage(p[stage]) /\ stage \in 1..n /\ (stage + 1) - 1 = stage
  BY <1>1, <1>3, <1>4 DEF IsProgram
<1>6. done.out \in Texts /\ done.out = refs[stage]
  <2>1. done.out = RefStage(first, p[stage]) /\ RefStage(first, p[stage]) \in Texts
    BY <1>1, <1>5, StageIsTheReference
  <2>2. refs[stage] = RefStage(refs[stage - 1], p[stage])
    BY <1>4, <1>5
  <2> HIDE DEF done, refs, n, p
  <2> QED
    BY <1>1, <2>1, <2>2
<1>7. Cleared(second) \o done.out = done.out
  <2> DEFINE o == done.out
  <2> HIDE DEF done
  <2>1. o \in Seq(Text)
    BY <1>6 DEF Texts
  <2> HIDE DEF o
  <2>2. <<>> \o o = o
    BY <2>1
  <2> QED
    BY <2>2 DEF Cleared, o
<1>8. CASE Fits(Cleared(second) \o done.out, done.raw)
  <2>1. first' = done.out /\ stage' = stage + 1 /\ pc' = pc /\ result' = result
    BY <1>7, <1>8 DEF ApplyStage
  <2> HIDE DEF done, n
  <2>2. stage' - 1 = stage
    BY <1>5, <2>1
  <2>3. first' = refs[stage' - 1]
    BY <1>6, <2>1, <2>2
  <2>4. (first = References(tokenizer.program, Spelled(ids))[stage - 1])'
    BY <1>1, <1>2, <2>3
  <2> QED
    BY <1>1, <1>2, <2>1, <2>4 DEF AnswerInv, PublishesTheAnswer, None
<1>9. CASE ~Fits(Cleared(second) \o done.out, done.raw)
  <2>1. pc' = "done" /\ result' = "Exhausted"
    BY <1>9 DEF ApplyStage
  <2> QED
    BY <1>1, <2>1 DEF AnswerInv, PublishesTheAnswer
<1> QED
  BY <1>8, <1>9

LEMMA WriteOutputAnswers == GenerationInv /\ AnswerInv /\ WriteOutput => AnswerInv'
<1> SUFFICES ASSUME GenerationInv, AnswerInv, WriteOutput PROVE AnswerInv'
  OBVIOUS
<1> DEFINE p == tokenizer.program
           n == Len(p)
           b == Spelled(ids)
<1>1. /\ pc = "decode" /\ stage \in 1..(n + 1) /\ stage > n
      /\ tokenizer \in Tokenizers /\ ids \in Seq(Token(tokenizer))
      /\ first \in Texts /\ first = References(p, b)[stage - 1]
      /\ result = None /\ StopToken \notin {ids[i] : i \in DOMAIN ids} /\ Said
      /\ ids' = ids /\ fed' = fed /\ next' = next /\ tokenizer' = tokenizer
  BY DEF WriteOutput, GenerationInv, AnswerInv, request
<1>2. Said' /\ Spelled(ids)' = b
  BY <1>1, SpelledStays DEF Said
<1>3. CASE Bytes(Written) > OutputBytes
  <2>1. pc' = "done" /\ result' = "TooLong"
    BY <1>3 DEF WriteOutput
  <2> QED
    BY <1>1, <2>1 DEF AnswerInv, PublishesTheAnswer
<1>4. CASE ~(Bytes(Written) > OutputBytes)
  <2>1. output' = Written /\ pc' = "publish" /\ result' = result
    BY <1>4 DEF WriteOutput
  <2>2. IsProgram(p) /\ b \in Texts
    BY <1>1, TokenAssumption, SpelledIs
  <2>3. n \in Nat /\ Pass(RefStage, b, p) = References(p, b)[n]
    BY <2>2, ReferencesAre
  <2>4. stage - 1 = n
    BY <1>1, <2>3
  <2>5. first = Pass(RefStage, b, p)
    BY <1>1, <2>3, <2>4
  <2>6. Written = RefText(p, tokenizer.joined, b)
    BY <2>5 DEF Written, RefText
  <2>7. Written \in Text
    BY <1>1, JoinedIs, TotalsAre DEF Written
  <2>8. Bytes(Written) <= OutputBytes
    BY <1>4, <2>7, BytesNat, LimitAssumption
  <2> HIDE DEF n, b
  <2>9. output' = RefText(tokenizer.program, tokenizer.joined, Spelled(ids))'
    BY <1>1, <1>2, <2>1, <2>6
  <2>10. Bytes(output') <= OutputBytes
    BY <2>1, <2>8
  <2> QED
    BY <1>1, <1>2, <2>1, <2>9, <2>10 DEF AnswerInv, PublishesTheAnswer, None
<1> QED
  BY <1>3, <1>4

LEMMA PublishAnswers == AnswerInv /\ Publish => AnswerInv'
<1> SUFFICES ASSUME AnswerInv, Publish PROVE AnswerInv'
  OBVIOUS
<1>1. /\ pc = "publish" /\ pc' = "done" /\ StopToken \notin {ids[i] : i \in DOMAIN ids} /\ Said
      /\ output = RefText(tokenizer.program, tokenizer.joined, Spelled(ids))
      /\ Bytes(output) <= OutputBytes
      /\ ids' = ids /\ fed' = fed /\ next' = next /\ output' = output /\ tokenizer' = tokenizer
      /\ result' = IF next = StopToken THEN "EndOfSequence" ELSE "Length"
  BY DEF Publish, AtBoundary, AnswerInv, request, storage
<1>2. Spelled(ids)' = Spelled(ids)
  BY <1>1, SpelledStays
<1>3. PublishesTheAnswer'
  <2>1. CASE next = StopToken
    BY <1>1, <1>2, <2>1 DEF PublishesTheAnswer, Said
  <2>2. CASE next # StopToken
    BY <1>1, <1>2, <2>2 DEF PublishesTheAnswer, Said
  <2> QED
    BY <2>1, <2>2
<1> QED
  BY <1>1, <1>3 DEF AnswerInv

LEMMA UntouchedAnswers ==
  ASSUME AnswerInv, UNCHANGED <<pc, request, fed, next, storage, result>>
  PROVE  AnswerInv'
<1>1. /\ pc' = pc /\ fed' = fed /\ next' = next /\ ids' = ids /\ first' = first /\ stage' = stage
      /\ output' = output /\ result' = result /\ tokenizer' = tokenizer
  BY DEF request, storage
<1>2. Spelled(ids)' = Spelled(ids) /\ Said' = Said
  BY <1>1, SpelledStays DEF Said
<1>3. PublishesTheAnswer'
  BY <1>1, <1>2 DEF AnswerInv, PublishesTheAnswer
<1> QED
  BY <1>1, <1>2, <1>3 DEF AnswerInv

LEMMA AnswerInvKept ==
  GenerationInv /\ AnswerInv /\ [GenerationNext]_generationVars => AnswerInv'
<1> SUFFICES ASSUME GenerationInv, AnswerInv, [GenerationNext]_generationVars PROVE AnswerInv'
  OBVIOUS
<1>1. CASE Cancel
  BY <1>1, UntouchedAnswers DEF Cancel
<1>2. CASE Refused
  BY <1>2, FailsKeeps DEF Refused
<1>3. CASE Acquire
  BY <1>3, AcquireAnswers
<1>4. CASE Step
  BY <1>4, StepAnswers
<1>5. CASE DriverFails
  BY <1>5, FailsKeeps DEF DriverFails
<1>6. CASE RowRefused
  BY <1>6, FailsKeeps DEF RowRefused
<1>7. CASE \E t \in Token(tokenizer) : Select(t)
  BY <1>7, SelectAnswers
<1>8. CASE Seed
  BY <1>8, SeedAnswers
<1>9. CASE ApplyStage
  BY <1>9, ApplyStageAnswers
<1>10. CASE WriteOutput
  BY <1>10, WriteOutputAnswers
<1>11. CASE Publish
  BY <1>11, PublishAnswers
<1>12. CASE UNCHANGED generationVars
  BY <1>12, UntouchedAnswers DEF generationVars
<1> QED
  BY <1>1, <1>2, <1>3, <1>4, <1>5, <1>6, <1>7, <1>8, <1>9, <1>10, <1>11, <1>12 DEF GenerationNext

(* An answer is published only when it is the reference decoding of all the *)
(* driver said: the prompt and each token but the last were given back to   *)
(* it in order, the stop token is not stored, and every stage, those that   *)
(* read ahead included, gave what it should (run_generation, decode).       *)
THEOREM AnswerIsThePublished == GenerationSpec => []PublishesTheAnswer
<1>1. GenerationInit => GenerationInv /\ AnswerInv
  BY GenerationInvStart, AnswerInvStart
<1>2. GenerationInv /\ AnswerInv /\ [GenerationNext]_generationVars => (GenerationInv /\ AnswerInv)'
  BY GenerationInvKept, AnswerInvKept
<1>3. AnswerInv => PublishesTheAnswer
  BY DEF AnswerInv
<1> QED
  BY <1>1, <1>2, <1>3, PTL DEF GenerationSpec
==============================================================================
