--------------------------- MODULE Scheduler_proofs ---------------------------
(***************************************************************************)
(* Theorems about Scheduler, for all limits, grants, requests and handles: *)
(* what is pending always matches the states of the admissions, uses match *)
(* their permits, an admission that was told to stop never serves again,   *)
(* every lease of the ledger has one owner, the host bytes counted as      *)
(* taken are those the owners hold, the state keeps its type, the          *)
(* controller implements ResourceCustody and, with one command outstanding *)
(* at a time, evictions go round.                                          *)
(***************************************************************************)
EXTENDS EvictionOrder, FiniteSetTheorems, TLAPS

Entry(r) ==
  r \in [kind : {r.kind}, lease : {r.lease}, host : {r.host},
         state : AdmissionState, uses : Nat]

Count == Nat \ {0}
Counters == [adm : Count, op : Count, permit : Count, load : Count, use : Count, result : Count]

(* The table of admissions and the counters have their shape. *)
Shape ==
  /\ nextId \in Counters
  /\ \A a \in DOMAIN admissions :
       a \in 1..(nextId.adm - 1) /\ a \in DOMAIN tickets /\ Entry(admissions[a])
  /\ prepared # NoPlan => prepared.placements \in Seq(Placement)

StopPhases == {"draining", "evicting", "quarantined"}
UsePhases == {"inuse", "draining", "quarantined"}

LoadState(st) == st = Plain("loading") \/ st = DrainingLoad
EvictState(st) == st.phase = "evicting"
Busy(st) == LoadState(st) \/ EvictState(st)

(* Admissions follow the grant they were ticketed under. *)
GrantInv == AdmissionsFollowTheGrant

(* What is pending, without counting: every operation and every native     *)
(* load has an admission of its own, in the state its command left, and    *)
(* every admission in such a state has one. *)
PendingInv ==
  /\ DOMAIN operations \subseteq 1..(nextId.op - 1)
  /\ DOMAIN nativeLoads \subseteq 1..(nextId.load - 1)
  /\ \A o \in DOMAIN operations :
       /\ operations[o].adm \in DOMAIN admissions
       /\ \/ /\ operations[o] = [adm |-> operations[o].adm, kind |-> "load"]
             /\ LoadState(admissions[operations[o].adm].state)
          \/ /\ operations[o] = [adm |-> operations[o].adm, kind |-> "evict"]
             /\ EvictState(admissions[operations[o].adm].state)
  /\ \A n \in DOMAIN nativeLoads :
       nativeLoads[n] \in DOMAIN admissions /\ LoadState(admissions[nativeLoads[n]].state)
  /\ \A o, q \in DOMAIN operations : operations[o].adm = operations[q].adm => o = q
  /\ \A n, m \in DOMAIN nativeLoads : nativeLoads[n] = nativeLoads[m] => n = m
  /\ \A o \in DOMAIN operations, n \in DOMAIN nativeLoads : operations[o].adm # nativeLoads[n]
  /\ \A a \in DOMAIN admissions :
       Busy(admissions[a].state) =>
         \/ \E o \in DOMAIN operations : operations[o].adm = a
         \/ \E n \in DOMAIN nativeLoads : nativeLoads[n] = a

UseInv ==
  /\ DOMAIN permits \subseteq 1..(nextId.permit - 1)
  /\ DOMAIN nativeUses \subseteq 1..(nextId.use - 1)
  /\ DOMAIN quarantined \subseteq 1..(nextId.use - 1)
  /\ DOMAIN nativeUses \cap DOMAIN quarantined = {}
  /\ UsesMatchPermits

IInv == Shape /\ GrantInv /\ PendingInv /\ UseInv

(* No admission returns to service in this step. *)
Stays ==
  \A a \in DOMAIN admissions \cap DOMAIN admissions' :
    admissions[a].state.phase \in StopPhases => admissions'[a].state.phase \in StopPhases

------------------------------------------------------------------------------
(* What the steps do to the table of admissions.                           *)

(* Only the state and the count of a may change. *)
Moved(a, st, n) ==
  /\ a \in DOMAIN admissions /\ DOMAIN admissions' = DOMAIN admissions
  /\ \A b \in DOMAIN admissions :
       /\ Entry(admissions'[b])
       /\ admissions'[b].state = IF b = a THEN st ELSE admissions[b].state
       /\ admissions'[b].uses = IF b = a THEN n ELSE admissions[b].uses

(* Admission a is forgotten. *)
Gone(a) ==
  /\ a \in DOMAIN admissions /\ DOMAIN admissions' = DOMAIN admissions \ {a}
  /\ \A b \in DOMAIN admissions \ {a} : admissions'[b] = admissions[b]

(* New admissions are in state st and have no uses. *)
Added(new, st) ==
  /\ DOMAIN admissions' = DOMAIN admissions \cup new
  /\ \A b \in DOMAIN admissions : admissions'[b] = admissions[b]
  /\ \A b \in new : /\ b \notin DOMAIN admissions
                    /\ Entry(admissions'[b])
                    /\ admissions'[b].state = st /\ admissions'[b].uses = 0

(* The states of AdmissionState that the code builds. *)
LEMMA StatesBuilt ==
  /\ Plain("reserved") \in AdmissionState /\ Plain("loading") \in AdmissionState
  /\ Plain("quarantined") \in AdmissionState
  /\ DrainingReserved \in AdmissionState /\ DrainingLoad \in AdmissionState
  /\ \A h \in Handle : \A p \in {"resident", "inuse", "draining", "evicting", "quarantined"} :
       Holding(p, h) \in AdmissionState
  /\ Holding("draining", NoHandle) \in AdmissionState
  /\ Holding("quarantined", NoHandle) \in AdmissionState
BY HandleAssumption DEF AdmissionState, Plain, DrainingReserved, DrainingLoad, Holding, Phase

(* What a state is told by. *)
LEMMA StateFacts ==
  ASSUME NEW st \in AdmissionState
  PROVE  /\ LoadState(st) => st.resident = NoHandle /\ st.phase \in {"loading", "draining"}
         /\ EvictState(st) => st.resident # NoHandle /\ st.phase = "evicting"
         /\ st.phase = "loading" => LoadState(st)
         /\ st.phase \in {"resident", "inuse", "evicting"} => st.resident \in Handle
         /\ st.resident \in Handle \cup {NoHandle}
         /\ st.resident # NoHandle => ~LoadState(st) /\ st.resident \in Handle
         /\ st.phase = "reserved" => st = Plain("reserved")
         /\ st.phase \in Phase
BY DEF AdmissionState, LoadState, EvictState, Plain, DrainingLoad

LEMMA PlainFacts ==
  /\ \A p \in Phase : Plain(p).phase = p /\ Plain(p).resident = NoHandle /\ ~Plain(p).loading
  /\ \A p \in Phase : \A h : Holding(p, h).phase = p /\ Holding(p, h).resident = h /\ ~Holding(p, h).loading
  /\ DrainingLoad.phase = "draining" /\ DrainingLoad.resident = NoHandle
  /\ DrainingReserved.phase = "draining" /\ DrainingReserved.resident = NoHandle
  /\ ~LoadState(DrainingReserved) /\ DrainingReserved.loading = FALSE
BY DEF Plain, Holding, DrainingLoad, DrainingReserved, LoadState

LEMMA SetStateMoves ==
  ASSUME Shape, NEW a \in DOMAIN admissions, NEW st \in AdmissionState,
         admissions' = SetState(a, st)
  PROVE  Moved(a, st, admissions[a].uses)
<1>1. \A b \in DOMAIN admissions : Entry(admissions[b])
  BY DEF Shape
<1>2. DOMAIN admissions' = DOMAIN admissions
  BY DEF SetState
<1>3. ASSUME NEW b \in DOMAIN admissions
      PROVE  admissions'[b] = IF b = a THEN [admissions[a] EXCEPT !.state = st] ELSE admissions[b]
  BY DEF SetState
<1>4. ASSUME NEW b \in DOMAIN admissions
      PROVE  /\ Entry(admissions'[b])
             /\ admissions'[b].state = IF b = a THEN st ELSE admissions[b].state
             /\ admissions'[b].uses = IF b = a THEN admissions[a].uses ELSE admissions[b].uses
  BY <1>1, <1>3 DEF Entry
<1> QED
  BY <1>2, <1>4 DEF Moved

LEMMA ReleaseGone ==
  ASSUME NEW a \in DOMAIN admissions, ReleaseAdmission(a)
  PROVE  Gone(a)
BY DEF ReleaseAdmission, Gone, Drop, Restrict
------------------------------------------------------------------------------
(* What is pending.                                                        *)

(* A step that issues and takes nothing, and leaves alone who is busy. *)
LEMMA PendingQuiet ==
  ASSUME PendingInv, operations' = operations, nativeLoads' = nativeLoads,
         nextId'.op = nextId.op, nextId'.load = nextId.load,
         \A b \in DOMAIN admissions \cap DOMAIN admissions' :
           /\ LoadState(admissions'[b].state) <=> LoadState(admissions[b].state)
           /\ EvictState(admissions'[b].state) <=> EvictState(admissions[b].state),
         \A b \in DOMAIN admissions \ DOMAIN admissions' : ~Busy(admissions[b].state),
         \A b \in DOMAIN admissions' \ DOMAIN admissions : ~Busy(admissions'[b].state)
  PROVE  PendingInv'
<1>1. \A b \in DOMAIN admissions : Busy(admissions[b].state) => b \in DOMAIN admissions'
  OBVIOUS
<1>2. \A o \in DOMAIN operations : Busy(admissions[operations[o].adm].state)
  BY DEF PendingInv, Busy
<1>3. \A n \in DOMAIN nativeLoads : Busy(admissions[nativeLoads[n]].state)
  BY DEF PendingInv, Busy
<1>4. \A b \in DOMAIN admissions' : Busy(admissions'[b].state) =>
         b \in DOMAIN admissions /\ Busy(admissions[b].state)
  BY DEF Busy
<1>5. \A o \in DOMAIN operations : operations[o].adm \in DOMAIN admissions \cap DOMAIN admissions'
  BY <1>1, <1>2 DEF PendingInv
<1>6. \A n \in DOMAIN nativeLoads : nativeLoads[n] \in DOMAIN admissions \cap DOMAIN admissions'
  BY <1>1, <1>3 DEF PendingInv
<1> QED
  BY <1>4, <1>5, <1>6 DEF PendingInv

(* Loads and evictions are told apart by the state. *)
LEMMA OneKindOfBusy ==
  ASSUME NEW st \in AdmissionState
  PROVE  ~(LoadState(st) /\ EvictState(st))
BY StateFacts

(* A command is issued for an admission that was not busy. *)
LEMMA PendingIssue ==
  ASSUME Shape, PendingInv, NEW a \in DOMAIN admissions, NEW kind, NEW st \in AdmissionState,
         ~Busy(admissions[a].state), Moved(a, st, admissions[a].uses),
         \/ kind = "load" /\ LoadState(st)
         \/ kind = "evict" /\ EvictState(st),
         operations' = Put(operations, nextId.op, [adm |-> a, kind |-> kind]),
         nativeLoads' = nativeLoads,
         nextId'.op = nextId.op + 1, nextId'.load = nextId.load
  PROVE  PendingInv'
<1> DEFINE k == nextId.op
<1>1. k \in Nat /\ k \notin DOMAIN operations
  BY DEF Shape, Counters, Count, PendingInv
<1>2. /\ DOMAIN operations' = DOMAIN operations \cup {k}
      /\ operations'[k] = [adm |-> a, kind |-> kind]
      /\ \A o \in DOMAIN operations : operations'[o] = operations[o]
  BY <1>1 DEF Put
<1>3. \A o \in DOMAIN operations : operations[o].adm # a
  BY DEF PendingInv, Busy
<1>4. \A n \in DOMAIN nativeLoads : nativeLoads[n] # a
  BY DEF PendingInv, Busy
<1>5. /\ DOMAIN admissions' = DOMAIN admissions /\ admissions'[a].state = st
      /\ \A b \in DOMAIN admissions : b # a => admissions'[b].state = admissions[b].state
  BY DEF Moved
<1>6. DOMAIN operations' \subseteq 1..(nextId'.op - 1)
  <2>1. k \in Nat /\ 1 <= k
    BY DEF Shape, Counters, Count
  <2> QED
    BY <1>1, <1>2, <2>1 DEF PendingInv
<1> HIDE DEF k
<1>7. \A o \in DOMAIN operations' :
       /\ operations'[o].adm \in DOMAIN admissions'
       /\ \/ /\ operations'[o] = [adm |-> operations'[o].adm, kind |-> "load"]
             /\ LoadState(admissions'[operations'[o].adm].state)
          \/ /\ operations'[o] = [adm |-> operations'[o].adm, kind |-> "evict"]
             /\ EvictState(admissions'[operations'[o].adm].state)
  BY <1>2, <1>3, <1>5 DEF PendingInv
<1>8. \A n \in DOMAIN nativeLoads' :
       nativeLoads'[n] \in DOMAIN admissions' /\ LoadState(admissions'[nativeLoads'[n]].state)
  BY <1>4, <1>5 DEF PendingInv
<1>9. \A o, q \in DOMAIN operations' : operations'[o].adm = operations'[q].adm => o = q
  BY <1>2, <1>3 DEF PendingInv
<1>10. \A o \in DOMAIN operations', n \in DOMAIN nativeLoads' : operations'[o].adm # nativeLoads'[n]
  BY <1>2, <1>4 DEF PendingInv
<1>11. \A b \in DOMAIN admissions' :
       Busy(admissions'[b].state) =>
         \/ \E o \in DOMAIN operations' : operations'[o].adm = b
         \/ \E n \in DOMAIN nativeLoads' : nativeLoads'[n] = b
  BY <1>2, <1>5 DEF PendingInv
<1> QED
  BY <1>6, <1>7, <1>8, <1>9, <1>10, <1>11 DEF PendingInv

(* A native load begins with its admission. *)
LEMMA PendingAdmit ==
  ASSUME Shape, PendingInv, NEW a, Added({a}, Plain("loading")),
         nativeLoads' = Put(nativeLoads, nextId.load, a),
         operations' = operations,
         nextId'.op = nextId.op, nextId'.load = nextId.load + 1
  PROVE  PendingInv'
<1> DEFINE k == nextId.load
<1>1. k \in Nat /\ k \notin DOMAIN nativeLoads
  BY DEF Shape, Counters, Count, PendingInv
<1>2. /\ DOMAIN nativeLoads' = DOMAIN nativeLoads \cup {k}
      /\ nativeLoads'[k] = a
      /\ \A n \in DOMAIN nativeLoads : nativeLoads'[n] = nativeLoads[n]
  BY <1>1 DEF Put
<1>3. /\ DOMAIN admissions' = DOMAIN admissions \cup {a} /\ a \notin DOMAIN admissions
      /\ admissions'[a].state = Plain("loading")
      /\ \A b \in DOMAIN admissions : admissions'[b] = admissions[b]
  BY DEF Added
<1>4. DOMAIN nativeLoads' \subseteq 1..(nextId'.load - 1)
  <2>1. k \in Nat /\ 1 <= k
    BY DEF Shape, Counters, Count
  <2> QED
    BY <1>1, <1>2, <2>1 DEF PendingInv
<1>5. LoadState(Plain("loading"))
  BY DEF LoadState
<1> HIDE DEF k
<1>6. \A o \in DOMAIN operations' :
       /\ operations'[o].adm \in DOMAIN admissions'
       /\ \/ /\ operations'[o] = [adm |-> operations'[o].adm, kind |-> "load"]
             /\ LoadState(admissions'[operations'[o].adm].state)
          \/ /\ operations'[o] = [adm |-> operations'[o].adm, kind |-> "evict"]
             /\ EvictState(admissions'[operations'[o].adm].state)
  BY <1>3 DEF PendingInv
<1>7. \A n \in DOMAIN nativeLoads' :
       nativeLoads'[n] \in DOMAIN admissions' /\ LoadState(admissions'[nativeLoads'[n]].state)
  BY <1>2, <1>3, <1>5 DEF PendingInv
<1>8. \A n, m \in DOMAIN nativeLoads' : nativeLoads'[n] = nativeLoads'[m] => n = m
  BY <1>2, <1>3 DEF PendingInv
<1>9. \A o \in DOMAIN operations', n \in DOMAIN nativeLoads' : operations'[o].adm # nativeLoads'[n]
  BY <1>2, <1>3 DEF PendingInv
<1>10. \A b \in DOMAIN admissions' :
       Busy(admissions'[b].state) =>
         \/ \E o \in DOMAIN operations' : operations'[o].adm = b
         \/ \E n \in DOMAIN nativeLoads' : nativeLoads'[n] = b
  BY <1>2, <1>3 DEF PendingInv
<1> QED
  BY <1>4, <1>6, <1>7, <1>8, <1>9, <1>10 DEF PendingInv

(* The admission of an acknowledged command is no longer busy, or gone. *)
Ended(a) ==
  /\ a \in DOMAIN admissions /\ DOMAIN admissions \ {a} \subseteq DOMAIN admissions'
  /\ DOMAIN admissions' \subseteq DOMAIN admissions
  /\ a \in DOMAIN admissions' => ~Busy(admissions'[a].state)
  /\ \A b \in DOMAIN admissions \ {a} : admissions'[b].state = admissions[b].state

LEMMA PendingTaken ==
  ASSUME PendingInv, NEW o \in DOMAIN operations, Ended(operations[o].adm),
         operations' = Drop(operations, o), nativeLoads' = nativeLoads,
         nextId'.op = nextId.op, nextId'.load = nextId.load
  PROVE  PendingInv'
<1> DEFINE a == operations[o].adm
<1>1. /\ DOMAIN operations' = DOMAIN operations \ {o}
      /\ \A q \in DOMAIN operations' : operations'[q] = operations[q]
  BY DEF Drop, Restrict
<1>2. \A q \in DOMAIN operations' :
        operations[q].adm \in DOMAIN admissions \ {a} /\ operations[q].adm \in DOMAIN admissions'
  BY <1>1 DEF PendingInv, Ended
<1>3. \A n \in DOMAIN nativeLoads :
        nativeLoads[n] \in DOMAIN admissions \ {a} /\ nativeLoads[n] \in DOMAIN admissions'
  BY DEF PendingInv, Ended
<1>4. \A b \in DOMAIN admissions' :
        /\ b \in DOMAIN admissions
        /\ b = a => ~Busy(admissions'[b].state)
        /\ b # a => admissions'[b].state = admissions[b].state
  BY DEF Ended
<1> HIDE DEF a
<1>5. \A b \in DOMAIN admissions' :
       Busy(admissions'[b].state) =>
         \/ \E q \in DOMAIN operations' : operations'[q].adm = b
         \/ \E n \in DOMAIN nativeLoads' : nativeLoads'[n] = b
  BY <1>1, <1>4 DEF PendingInv, a
<1>6. \A b \in DOMAIN admissions \ {a} : b \in DOMAIN admissions' /\ admissions'[b].state = admissions[b].state
  BY DEF Ended, a
<1>7. \A q \in DOMAIN operations' :
       /\ operations'[q].adm \in DOMAIN admissions'
       /\ \/ /\ operations'[q] = [adm |-> operations'[q].adm, kind |-> "load"]
             /\ LoadState(admissions'[operations'[q].adm].state)
          \/ /\ operations'[q] = [adm |-> operations'[q].adm, kind |-> "evict"]
             /\ EvictState(admissions'[operations'[q].adm].state)
  BY <1>1, <1>2, <1>6 DEF PendingInv
<1> QED
  BY <1>1, <1>3, <1>5, <1>6, <1>7 DEF PendingInv

LEMMA PendingLoadTaken ==
  ASSUME PendingInv, NEW n \in DOMAIN nativeLoads, Ended(nativeLoads[n]),
         nativeLoads' = Drop(nativeLoads, n), operations' = operations,
         nextId'.op = nextId.op, nextId'.load = nextId.load
  PROVE  PendingInv'
<1> DEFINE a == nativeLoads[n]
<1>1. /\ DOMAIN nativeLoads' = DOMAIN nativeLoads \ {n}
      /\ \A m \in DOMAIN nativeLoads' : nativeLoads'[m] = nativeLoads[m]
  BY DEF Drop, Restrict
<1>2. \A m \in DOMAIN nativeLoads' :
        nativeLoads[m] \in DOMAIN admissions \ {a} /\ nativeLoads[m] \in DOMAIN admissions'
  BY <1>1 DEF PendingInv, Ended
<1>3. \A o \in DOMAIN operations :
        operations[o].adm \in DOMAIN admissions \ {a} /\ operations[o].adm \in DOMAIN admissions'
  BY DEF PendingInv, Ended
<1>4. \A b \in DOMAIN admissions' :
        /\ b \in DOMAIN admissions
        /\ b = a => ~Busy(admissions'[b].state)
        /\ b # a => admissions'[b].state = admissions[b].state
  BY DEF Ended
<1> HIDE DEF a
<1>5. \A b \in DOMAIN admissions' :
       Busy(admissions'[b].state) =>
         \/ \E q \in DOMAIN operations' : operations'[q].adm = b
         \/ \E m \in DOMAIN nativeLoads' : nativeLoads'[m] = b
  BY <1>1, <1>4 DEF PendingInv, a
<1>6. \A b \in DOMAIN admissions \ {a} : b \in DOMAIN admissions' /\ admissions'[b].state = admissions[b].state
  BY DEF Ended, a
<1> QED
  BY <1>1, <1>2, <1>3, <1>5, <1>6 DEF PendingInv

------------------------------------------------------------------------------
(* Uses and their permits.                                                 *)
PermitsOf(a) == {p \in DOMAIN permits : permits[p] = a}
NativesOf(a) == {n \in DOMAIN nativeUses : nativeUses[n].adm = a}
LostOf(a) == {n \in DOMAIN quarantined : quarantined[n].adm = a}

LEMMA UsersAreFinite ==
  ASSUME Shape, UseInv, NEW a
  PROVE  /\ IsFiniteSet(PermitsOf(a)) /\ IsFiniteSet(NativesOf(a)) /\ IsFiniteSet(LostOf(a))
         /\ Cardinality(PermitsOf(a)) \in Nat /\ Cardinality(NativesOf(a)) \in Nat
         /\ Cardinality(LostOf(a)) \in Nat
         /\ UsesOf(a) = Cardinality(PermitsOf(a)) + Cardinality(NativesOf(a)) + Cardinality(LostOf(a))
<1>1. nextId.permit \in Nat /\ nextId.use \in Nat
  BY DEF Shape, Counters, Count
<1>2. IsFiniteSet(1..(nextId.permit - 1)) /\ IsFiniteSet(1..(nextId.use - 1))
  <2>1. ASSUME NEW n \in Nat PROVE IsFiniteSet(1..(n - 1))
    <3>1. 1 \in Int /\ n - 1 \in Int
      OBVIOUS
    <3> QED
      BY <3>1, FS_Interval
  <2> QED
    BY <1>1, <2>1
<1>3. /\ PermitsOf(a) \subseteq 1..(nextId.permit - 1)
      /\ NativesOf(a) \subseteq 1..(nextId.use - 1)
      /\ LostOf(a) \subseteq 1..(nextId.use - 1)
  BY DEF UseInv, PermitsOf, NativesOf, LostOf
<1>4. IsFiniteSet(PermitsOf(a)) /\ IsFiniteSet(NativesOf(a)) /\ IsFiniteSet(LostOf(a))
  BY <1>2, <1>3, FS_Subset
<1>5. /\ Cardinality(PermitsOf(a)) \in Nat /\ Cardinality(NativesOf(a)) \in Nat
      /\ Cardinality(LostOf(a)) \in Nat
  BY <1>4, FS_CardinalityType
<1> QED
  BY <1>4, <1>5 DEF UsesOf, PermitsOf, NativesOf, LostOf

(* An admission without uses, or unknown, has no permit. *)
LEMMA NoUsers ==
  ASSUME Shape, UseInv, NEW a
  PROVE  UsesOf(a) = 0 <=> PermitsOf(a) = {} /\ NativesOf(a) = {} /\ LostOf(a) = {}
<1>1. /\ Cardinality(PermitsOf(a)) = 0 <=> PermitsOf(a) = {}
      /\ Cardinality(NativesOf(a)) = 0 <=> NativesOf(a) = {}
      /\ Cardinality(LostOf(a)) = 0 <=> LostOf(a) = {}
  BY UsersAreFinite, FS_EmptySet
<1> QED
  BY <1>1, UsersAreFinite

LEMMA UnknownHasNone ==
  ASSUME Shape, UseInv, NEW a, a \notin DOMAIN admissions
  PROVE  UsesOf(a) = 0
<1>1. PermitsOf(a) = {} /\ NativesOf(a) = {} /\ LostOf(a) = {}
  BY DEF UseInv, UsesMatchPermits, PermitsOf, NativesOf, LostOf
<1> QED
  BY <1>1, NoUsers

(* Only a resident can be in use. *)
LEMMA UnusedUnlessHeld ==
  ASSUME Shape, UseInv, NEW a \in DOMAIN admissions,
         \/ admissions[a].state.phase \notin UsePhases
         \/ admissions[a].state.resident = NoHandle
  PROVE  admissions[a].uses = 0
<1>1. admissions[a].uses \in Nat /\ admissions[a].uses = UsesOf(a)
  BY DEF Shape, Entry, UseInv, UsesMatchPermits
<1> QED
  BY <1>1 DEF UseInv, UsesMatchPermits, UsePhases

(* A step that begins and ends no use. *)
LEMMA UsesQuiet ==
  ASSUME Shape, UseInv, UNCHANGED <<permits, nativeUses, quarantined>>,
         nextId'.permit = nextId.permit, nextId'.use = nextId.use,
         \A b \in DOMAIN admissions \cap DOMAIN admissions' :
           /\ admissions'[b].uses = admissions[b].uses
           /\ admissions[b].uses > 0 =>
                admissions'[b].state.phase \in UsePhases /\ admissions'[b].state.resident # NoHandle
           /\ admissions'[b].state.phase = "inuse" => admissions[b].state.phase = "inuse"
           /\ admissions[b].state.phase = "quarantined" => admissions'[b].state.phase = "quarantined",
         \A b \in DOMAIN admissions \ DOMAIN admissions' : admissions[b].uses = 0,
         \A b \in DOMAIN admissions' \ DOMAIN admissions :
           admissions'[b].uses = 0 /\ admissions'[b].state.phase # "inuse"
  PROVE  UseInv'
<1>1. \A b : UsesOf(b)' = UsesOf(b)
  BY DEF UsesOf
<1>2. ASSUME NEW b \in DOMAIN admissions'
      PROVE  /\ admissions'[b].uses = UsesOf(b)
             /\ UsesOf(b) > 0 =>
                  admissions'[b].state.phase \in UsePhases /\ admissions'[b].state.resident # NoHandle
             /\ admissions'[b].state.phase = "inuse" => UsesOf(b) > 0
  <2>1. CASE b \in DOMAIN admissions
    BY <2>1 DEF UseInv, UsesMatchPermits
  <2>2. CASE b \notin DOMAIN admissions
    BY <2>2, UnknownHasNone
  <2> QED
    BY <2>1, <2>2
<1>3. ASSUME NEW b, PermitsOf(b) # {} \/ NativesOf(b) # {} \/ LostOf(b) # {}
      PROVE  b \in DOMAIN admissions \cap DOMAIN admissions'
  <2>1. b \in DOMAIN admissions
    BY <1>3 DEF UseInv, UsesMatchPermits, PermitsOf, NativesOf, LostOf
  <2>2. admissions[b].uses # 0
    BY <1>3, <2>1, NoUsers DEF UseInv, UsesMatchPermits
  <2> QED
    BY <2>1, <2>2
<1>4. \A p \in DOMAIN permits : permits[p] \in DOMAIN admissions'
  BY <1>3 DEF PermitsOf
<1>5. \A n \in DOMAIN nativeUses : nativeUses[n].adm \in DOMAIN admissions'
  BY <1>3 DEF NativesOf
<1>6. \A n \in DOMAIN quarantined :
        /\ quarantined[n].adm \in DOMAIN admissions'
        /\ admissions'[quarantined[n].adm].state.phase = "quarantined"
  BY <1>3 DEF LostOf, UseInv, UsesMatchPermits
<1>7. UsesMatchPermits'
  BY <1>1, <1>2, <1>4, <1>5, <1>6 DEF UsesMatchPermits, UsePhases
<1> QED
  BY <1>7 DEF UseInv

(* A step that changes the uses of a only. *)
LEMMA UsesMoved ==
  ASSUME Shape, UseInv, NEW a, NEW st, NEW n \in Nat, Moved(a, st, n),
         UsesOf(a)' = n, \A b : b # a => UsesOf(b)' = UsesOf(b),
         n > 0 => st.phase \in UsePhases /\ st.resident # NoHandle,
         st.phase = "inuse" => n > 0,
         \A p \in DOMAIN permits' : permits'[p] \in DOMAIN admissions,
         \A m \in DOMAIN nativeUses' : nativeUses'[m].adm \in DOMAIN admissions,
         \A m \in DOMAIN quarantined' :
           /\ quarantined'[m].adm \in DOMAIN admissions
           /\ IF quarantined'[m].adm = a THEN st.phase = "quarantined"
              ELSE admissions[quarantined'[m].adm].state.phase = "quarantined",
         DOMAIN permits' \subseteq 1..(nextId'.permit - 1),
         DOMAIN nativeUses' \subseteq 1..(nextId'.use - 1),
         DOMAIN quarantined' \subseteq 1..(nextId'.use - 1),
         DOMAIN nativeUses' \cap DOMAIN quarantined' = {}
  PROVE  UseInv'
<1>1. /\ DOMAIN admissions' = DOMAIN admissions
      /\ \A b \in DOMAIN admissions :
           /\ admissions'[b].state = IF b = a THEN st ELSE admissions[b].state
           /\ admissions'[b].uses = IF b = a THEN n ELSE admissions[b].uses
  BY DEF Moved
<1>2. ASSUME NEW b \in DOMAIN admissions
      PROVE  /\ admissions'[b].uses = UsesOf(b)'
             /\ UsesOf(b)' > 0 =>
                  admissions'[b].state.phase \in UsePhases /\ admissions'[b].state.resident # NoHandle
             /\ admissions'[b].state.phase = "inuse" => UsesOf(b)' > 0
  <2>1. CASE b = a
    BY <1>1, <2>1
  <2>2. CASE b # a
    BY <1>1, <2>2 DEF UseInv, UsesMatchPermits, UsePhases
  <2> QED
    BY <2>1, <2>2
<1>3. \A m \in DOMAIN quarantined' :
           /\ quarantined'[m].adm \in DOMAIN admissions
           /\ admissions'[quarantined'[m].adm].state.phase = "quarantined"
  BY <1>1
<1>4. UsesMatchPermits'
  BY <1>1, <1>2, <1>3 DEF UsesMatchPermits, UsePhases
<1> QED
  BY <1>4 DEF UseInv

(* Counting the users a step adds, takes and moves. *)
OneMore(a) == UsesOf(a)' = UsesOf(a) + 1 /\ \A b : b # a => UsesOf(b)' = UsesOf(b)
OneLess(a) == UsesOf(a)' = UsesOf(a) - 1 /\ \A b : b # a => UsesOf(b)' = UsesOf(b)

LEMMA PermitBegun ==
  ASSUME Shape, UseInv, NEW a, permits' = Put(permits, nextId.permit, a),
         UNCHANGED <<nativeUses, quarantined>>
  PROVE  /\ DOMAIN permits' = DOMAIN permits \cup {nextId.permit}
         /\ permits'[nextId.permit] = a
         /\ \A p \in DOMAIN permits : permits'[p] = permits[p]
         /\ OneMore(a)
<1> DEFINE k == nextId.permit
<1>1. k \in Nat /\ k \notin DOMAIN permits
  BY DEF Shape, Counters, Count, UseInv
<1>2. /\ DOMAIN permits' = DOMAIN permits \cup {k} /\ permits'[k] = a
      /\ \A p \in DOMAIN permits : permits'[p] = permits[p]
  BY <1>1 DEF Put
<1> HIDE DEF k
<1>3. PermitsOf(a)' = PermitsOf(a) \cup {k} /\ k \notin PermitsOf(a)
  BY <1>1, <1>2 DEF PermitsOf
<1>4. \A b : b # a => PermitsOf(b)' = PermitsOf(b)
  BY <1>2 DEF PermitsOf
<1>5. \A b : NativesOf(b)' = NativesOf(b) /\ LostOf(b)' = LostOf(b)
  BY DEF NativesOf, LostOf
<1>6. Cardinality(PermitsOf(a)') = Cardinality(PermitsOf(a)) + 1
  BY <1>3, UsersAreFinite, FS_AddElement
<1>7. \A b : UsesOf(b)' = Cardinality(PermitsOf(b)') + Cardinality(NativesOf(b)') + Cardinality(LostOf(b)')
  BY DEF UsesOf, PermitsOf, NativesOf, LostOf
<1>8. OneMore(a)
  BY <1>4, <1>5, <1>6, <1>7, UsersAreFinite DEF OneMore
<1> QED
  BY <1>2, <1>8 DEF k

LEMMA PermitEnded ==
  ASSUME Shape, UseInv, NEW p \in DOMAIN permits, NEW a, a = permits[p],
         permits' = Drop(permits, p),
         UNCHANGED <<nativeUses, quarantined>>
  PROVE  /\ DOMAIN permits' = DOMAIN permits \ {p}
         /\ \A q \in DOMAIN permits' : permits'[q] = permits[q]
         /\ OneLess(a)
<1>1. /\ DOMAIN permits' = DOMAIN permits \ {p}
      /\ \A q \in DOMAIN permits' : permits'[q] = permits[q]
  BY DEF Drop, Restrict
<1>2. PermitsOf(a)' = PermitsOf(a) \ {p} /\ p \in PermitsOf(a)
  BY <1>1 DEF PermitsOf
<1>3. \A b : b # a => PermitsOf(b)' = PermitsOf(b)
  BY <1>1 DEF PermitsOf
<1>4. \A b : NativesOf(b)' = NativesOf(b) /\ LostOf(b)' = LostOf(b)
  BY DEF NativesOf, LostOf
<1>5. Cardinality(PermitsOf(a)') = Cardinality(PermitsOf(a)) - 1
  BY <1>2, UsersAreFinite, FS_RemoveElement
<1>6. \A b : UsesOf(b)' = Cardinality(PermitsOf(b)') + Cardinality(NativesOf(b)') + Cardinality(LostOf(b)')
  BY DEF UsesOf, PermitsOf, NativesOf, LostOf
<1>7. OneLess(a)
  BY <1>3, <1>4, <1>5, <1>6, UsersAreFinite DEF OneLess
<1> QED
  BY <1>1, <1>7

LEMMA NativeBegun ==
  ASSUME Shape, UseInv, NEW u, nativeUses' = Put(nativeUses, nextId.use, u),
         UNCHANGED <<permits, quarantined>>
  PROVE  /\ DOMAIN nativeUses' = DOMAIN nativeUses \cup {nextId.use}
         /\ nativeUses'[nextId.use] = u
         /\ \A n \in DOMAIN nativeUses : nativeUses'[n] = nativeUses[n]
         /\ OneMore(u.adm)
<1> DEFINE k == nextId.use
<1>1. k \in Nat /\ k \notin DOMAIN nativeUses
  BY DEF Shape, Counters, Count, UseInv
<1>2. /\ DOMAIN nativeUses' = DOMAIN nativeUses \cup {k} /\ nativeUses'[k] = u
      /\ \A n \in DOMAIN nativeUses : nativeUses'[n] = nativeUses[n]
  BY <1>1 DEF Put
<1> HIDE DEF k
<1>3. NativesOf(u.adm)' = NativesOf(u.adm) \cup {k} /\ k \notin NativesOf(u.adm)
  BY <1>1, <1>2 DEF NativesOf
<1>4. \A b : b # u.adm => NativesOf(b)' = NativesOf(b)
  BY <1>2 DEF NativesOf
<1>5. \A b : PermitsOf(b)' = PermitsOf(b) /\ LostOf(b)' = LostOf(b)
  BY DEF PermitsOf, LostOf
<1>6. Cardinality(NativesOf(u.adm)') = Cardinality(NativesOf(u.adm)) + 1
  BY <1>3, UsersAreFinite, FS_AddElement
<1>7. \A b : UsesOf(b)' = Cardinality(PermitsOf(b)') + Cardinality(NativesOf(b)') + Cardinality(LostOf(b)')
  BY DEF UsesOf, PermitsOf, NativesOf, LostOf
<1>8. OneMore(u.adm)
  BY <1>4, <1>5, <1>6, <1>7, UsersAreFinite DEF OneMore
<1> QED
  BY <1>2, <1>8 DEF k

LEMMA NativeEnded ==
  ASSUME Shape, UseInv, NEW n \in DOMAIN nativeUses, NEW a, a = nativeUses[n].adm,
         nativeUses' = Drop(nativeUses, n),
         UNCHANGED <<permits, quarantined>>
  PROVE  /\ DOMAIN nativeUses' = DOMAIN nativeUses \ {n}
         /\ \A m \in DOMAIN nativeUses' : nativeUses'[m] = nativeUses[m]
         /\ OneLess(a)
<1>1. /\ DOMAIN nativeUses' = DOMAIN nativeUses \ {n}
      /\ \A m \in DOMAIN nativeUses' : nativeUses'[m] = nativeUses[m]
  BY DEF Drop, Restrict
<1>2. NativesOf(a)' = NativesOf(a) \ {n} /\ n \in NativesOf(a)
  BY <1>1 DEF NativesOf
<1>3. \A b : b # a => NativesOf(b)' = NativesOf(b)
  BY <1>1 DEF NativesOf
<1>4. \A b : PermitsOf(b)' = PermitsOf(b) /\ LostOf(b)' = LostOf(b)
  BY DEF PermitsOf, LostOf
<1>5. Cardinality(NativesOf(a)') = Cardinality(NativesOf(a)) - 1
  BY <1>2, UsersAreFinite, FS_RemoveElement
<1>6. \A b : UsesOf(b)' = Cardinality(PermitsOf(b)') + Cardinality(NativesOf(b)') + Cardinality(LostOf(b)')
  BY DEF UsesOf, PermitsOf, NativesOf, LostOf
<1>7. OneLess(a)
  BY <1>3, <1>4, <1>5, <1>6, UsersAreFinite DEF OneLess
<1> QED
  BY <1>1, <1>7

(* A quarantined use keeps its place in the count. *)
LEMMA NativeLost ==
  ASSUME Shape, UseInv, NEW n \in DOMAIN nativeUses, NEW a, a = nativeUses[n].adm,
         nativeUses' = Drop(nativeUses, n),
         quarantined' = Put(quarantined, n, nativeUses[n]), UNCHANGED permits
  PROVE  /\ DOMAIN nativeUses' = DOMAIN nativeUses \ {n}
         /\ \A m \in DOMAIN nativeUses' : nativeUses'[m] = nativeUses[m]
         /\ DOMAIN quarantined' = DOMAIN quarantined \cup {n}
         /\ quarantined'[n] = nativeUses[n]
         /\ \A m \in DOMAIN quarantined : quarantined'[m] = quarantined[m]
         /\ \A b : UsesOf(b)' = UsesOf(b)
<1>1. n \notin DOMAIN quarantined
  BY DEF UseInv
<1>2. /\ DOMAIN nativeUses' = DOMAIN nativeUses \ {n}
      /\ \A m \in DOMAIN nativeUses' : nativeUses'[m] = nativeUses[m]
  BY DEF Drop, Restrict
<1>3. /\ DOMAIN quarantined' = DOMAIN quarantined \cup {n} /\ quarantined'[n] = nativeUses[n]
      /\ \A m \in DOMAIN quarantined : quarantined'[m] = quarantined[m]
  BY <1>1 DEF Put
<1>4. NativesOf(a)' = NativesOf(a) \ {n} /\ n \in NativesOf(a)
  BY <1>2 DEF NativesOf
<1>5. LostOf(a)' = LostOf(a) \cup {n} /\ n \notin LostOf(a)
  BY <1>1, <1>3 DEF LostOf
<1>6. \A b : b # a => NativesOf(b)' = NativesOf(b) /\ LostOf(b)' = LostOf(b)
  BY <1>1, <1>2, <1>3 DEF NativesOf, LostOf
<1>7. \A b : PermitsOf(b)' = PermitsOf(b)
  BY DEF PermitsOf
<1>8. /\ Cardinality(NativesOf(a)') = Cardinality(NativesOf(a)) - 1
      /\ Cardinality(LostOf(a)') = Cardinality(LostOf(a)) + 1
  <2>1. Cardinality(NativesOf(a)') = Cardinality(NativesOf(a)) - 1
    BY <1>4, UsersAreFinite, FS_RemoveElement
  <2>2. Cardinality(LostOf(a)') = Cardinality(LostOf(a)) + 1
    BY <1>5, UsersAreFinite, FS_AddElement
  <2> QED
    BY <2>1, <2>2
<1>9. \A b : UsesOf(b)' = Cardinality(PermitsOf(b)') + Cardinality(NativesOf(b)') + Cardinality(LostOf(b)')
  BY DEF UsesOf, PermitsOf, NativesOf, LostOf
<1>10. \A b : UsesOf(b)' = UsesOf(b)
  BY <1>6, <1>7, <1>8, <1>9, UsersAreFinite
<1> QED
  BY <1>2, <1>3, <1>10

------------------------------------------------------------------------------
(* Kinds of steps.  Each says what such a step leaves of everything but    *)
(* what is pending.                                                        *)
Settled == Shape' /\ GrantInv' /\ UseInv' /\ Stays
Holds == IInv' /\ Stays

LEMMA ShapeKept ==
  ASSUME Shape, nextId' \in Counters, nextId'.adm = nextId.adm, tickets' = tickets,
         prepared' = prepared \/ prepared' = NoPlan,
         DOMAIN admissions' \subseteq DOMAIN admissions,
         \A b \in DOMAIN admissions' : Entry(admissions'[b])
  PROVE  Shape'
BY DEF Shape, Entry

(* The state of one admission changes; no use begins or ends. *)
LEMMA StateStep ==
  ASSUME IInv, NEW a \in DOMAIN admissions, NEW st,
         Moved(a, st, admissions[a].uses),
         UNCHANGED <<uses, tickets, generation, revoked, prepared>>,
         nextId' \in Counters, nextId'.adm = nextId.adm,
         nextId'.permit = nextId.permit, nextId'.use = nextId.use,
         admissions[a].uses > 0 => st.phase \in UsePhases /\ st.resident # NoHandle,
         st.phase = "inuse" => admissions[a].state.phase = "inuse",
         admissions[a].state.phase = "quarantined" => st.phase = "quarantined",
         revoked => st.phase \in StopPhases,
         admissions[a].state.phase \in StopPhases => st.phase \in StopPhases
  PROVE  Settled
<1>1. /\ DOMAIN admissions' = DOMAIN admissions
      /\ \A b \in DOMAIN admissions :
           /\ Entry(admissions'[b])
           /\ admissions'[b].uses = admissions[b].uses
           /\ b = a => admissions'[b].state = st
           /\ b # a => admissions'[b].state = admissions[b].state
  BY DEF Moved
<1>2. Shape'
  BY <1>1, ShapeKept DEF IInv
<1>3. GrantInv'
  BY <1>1 DEF IInv, GrantInv, AdmissionsFollowTheGrant, StopPhases
<1>4. \A b \in DOMAIN admissions :
         /\ admissions[b].uses > 0 =>
              admissions'[b].state.phase \in UsePhases /\ admissions'[b].state.resident # NoHandle
         /\ admissions'[b].state.phase = "inuse" => admissions[b].state.phase = "inuse"
         /\ admissions[b].state.phase = "quarantined" => admissions'[b].state.phase = "quarantined"
  BY <1>1 DEF IInv, UseInv, UsesMatchPermits, UsePhases
<1>5. UseInv'
  BY <1>1, <1>4, UsesQuiet DEF IInv, uses
<1>6. Stays
  BY <1>1 DEF Stays
<1> QED
  BY <1>2, <1>3, <1>5, <1>6 DEF Settled

(* An unused admission is forgotten. *)
LEMMA GoneStep ==
  ASSUME IInv, NEW a, Gone(a), admissions[a].uses = 0,
         UNCHANGED <<uses, tickets, generation, revoked, prepared, nextId>>
  PROVE  Settled
<1>1. /\ a \in DOMAIN admissions /\ DOMAIN admissions' = DOMAIN admissions \ {a}
      /\ \A b \in DOMAIN admissions' : admissions'[b] = admissions[b]
  BY DEF Gone
<1>2. nextId \in Counters /\ \A b \in DOMAIN admissions : Entry(admissions[b])
  BY DEF IInv, Shape
<1>3. Shape'
  <2>1. \A b \in DOMAIN admissions' : Entry(admissions'[b])
    BY <1>1, <1>2
  <2> QED
    BY <1>1, <1>2, <2>1, ShapeKept DEF IInv
<1>4. GrantInv'
  BY <1>1 DEF IInv, GrantInv, AdmissionsFollowTheGrant
<1>5. UseInv'
  <2>1. \A b \in DOMAIN admissions' :
          admissions[b].uses > 0 =>
            admissions[b].state.phase \in UsePhases /\ admissions[b].state.resident # NoHandle
    BY <1>1 DEF IInv, UseInv, UsesMatchPermits, UsePhases
  <2> QED
    BY <1>1, <2>1, UsesQuiet DEF IInv, uses
<1>6. Stays
  BY <1>1 DEF Stays
<1> QED
  BY <1>3, <1>4, <1>5, <1>6 DEF Settled

(* New admissions get the next identifiers and a ticket of the grant. *)
LEMMA AddStep ==
  ASSUME IInv, NEW st, NEW n \in Nat, Added(nextId.adm..(nextId.adm + n - 1), st),
         UNCHANGED <<uses, generation, revoked>>, ~revoked,
         prepared' = prepared \/ prepared' = NoPlan,
         nextId' \in Counters, nextId'.adm = nextId.adm + n,
         nextId'.permit = nextId.permit, nextId'.use = nextId.use,
         DOMAIN tickets' = DOMAIN tickets \cup (nextId.adm..(nextId.adm + n - 1)),
         \A b \in nextId.adm..(nextId.adm + n - 1) : tickets'[b] = generation,
         \A b \in DOMAIN admissions : tickets'[b] = tickets[b],
         st.phase # "inuse"
  PROVE  Settled
<1> DEFINE new == nextId.adm..(nextId.adm + n - 1)
<1>1. /\ DOMAIN admissions' = DOMAIN admissions \cup new
      /\ \A b \in DOMAIN admissions : admissions'[b] = admissions[b]
      /\ \A b \in new : /\ b \notin DOMAIN admissions
                        /\ Entry(admissions'[b])
                        /\ admissions'[b].state = st /\ admissions'[b].uses = 0
  BY DEF Added
<1>2. nextId \in Counters /\ \A b \in DOMAIN admissions : Entry(admissions[b])
  BY DEF IInv, Shape
<1>3. Shape'
  <2>1. nextId.adm \in Nat /\ 1 <= nextId.adm
    BY <1>2 DEF Counters, Count
  <2>2. \A b \in DOMAIN admissions' : Entry(admissions'[b])
    BY <1>1, <1>2
  <2>3. \A b \in DOMAIN admissions' : b \in 1..(nextId'.adm - 1)
    <3>1. \A b \in DOMAIN admissions : b \in 1..(nextId.adm - 1)
      BY DEF IInv, Shape
    <3> QED
      BY <1>1, <2>1, <3>1
  <2>4. \A b \in DOMAIN admissions' : b \in DOMAIN tickets'
    BY <1>1 DEF IInv, Shape
  <2> QED
    BY <2>2, <2>3, <2>4 DEF IInv, Shape, Entry
<1> HIDE DEF new
<1>4. \A b \in new : tickets'[b] = generation
  BY DEF new
<1>5. GrantInv'
  BY <1>1, <1>4 DEF IInv, GrantInv, AdmissionsFollowTheGrant
<1>6. UseInv'
  <2>1. \A b \in DOMAIN admissions :
          admissions[b].uses > 0 =>
            admissions[b].state.phase \in UsePhases /\ admissions[b].state.resident # NoHandle
    BY DEF IInv, UseInv, UsesMatchPermits, UsePhases
  <2> QED
    BY <1>1, <2>1, UsesQuiet DEF IInv, uses
<1>7. Stays
  BY <1>1 DEF Stays
<1> QED
  BY <1>3, <1>5, <1>6, <1>7 DEF Settled

(* One admission's uses change: all but the count of its permits. *)
LEMMA UsedStep ==
  ASSUME IInv, NEW a \in DOMAIN admissions, NEW st, NEW n, Moved(a, st, n),
         UNCHANGED <<operations, nativeLoads, tickets, generation, revoked, prepared>>,
         nextId' \in Counters, nextId'.adm = nextId.adm,
         nextId'.op = nextId.op, nextId'.load = nextId.load,
         revoked => st.phase \in StopPhases,
         admissions[a].state.phase \in StopPhases => st.phase \in StopPhases,
         ~Busy(admissions[a].state), ~Busy(st)
  PROVE  Shape' /\ GrantInv' /\ PendingInv' /\ Stays
<1>1. /\ DOMAIN admissions' = DOMAIN admissions
      /\ \A b \in DOMAIN admissions :
           /\ Entry(admissions'[b])
           /\ b = a => admissions'[b].state = st
           /\ b # a => admissions'[b].state = admissions[b].state
  BY DEF Moved
<1>2. Shape'
  BY <1>1, ShapeKept DEF IInv
<1>3. GrantInv'
  BY <1>1 DEF IInv, GrantInv, AdmissionsFollowTheGrant, StopPhases
<1>4. Stays
  BY <1>1 DEF Stays
<1>5. \A b \in DOMAIN admissions :
           /\ LoadState(admissions'[b].state) <=> LoadState(admissions[b].state)
           /\ EvictState(admissions'[b].state) <=> EvictState(admissions[b].state)
  BY <1>1 DEF Busy
<1>6. PendingInv'
  BY <1>1, <1>5, PendingQuiet DEF IInv
<1> QED
  BY <1>2, <1>3, <1>4, <1>6

(* A step that changes nothing the invariant speaks of. *)
LEMMA IdleStep ==
  ASSUME IInv,
         UNCHANGED <<admissions, operations, nativeLoads, permits, nativeUses, quarantined,
                     nextId, tickets, generation, revoked>>,
         prepared' # NoPlan => prepared'.placements \in Seq(Placement)
  PROVE  Holds
<1>1. Shape'
  BY DEF IInv, Shape, Entry
<1>2. GrantInv' /\ UseInv' /\ Stays
  BY DEF IInv, GrantInv, AdmissionsFollowTheGrant, UseInv, UsesMatchPermits, UsesOf, Stays
<1>3. PendingInv'
  BY DEF IInv, PendingInv
<1> QED
  BY <1>1, <1>2, <1>3 DEF Holds, IInv

LEMMA HoldingFacts ==
  /\ \A p \in Phase \ {"loading", "evicting"} : \A h :
       ~LoadState(Holding(p, h)) /\ ~EvictState(Holding(p, h)) /\ ~Busy(Holding(p, h))
  /\ \A h : LoadState(Holding("evicting", h)) <=> FALSE
  /\ \A h : h # NoHandle => EvictState(Holding("evicting", h))
  /\ LoadState(Plain("loading")) /\ ~EvictState(Plain("loading"))
  /\ ~Busy(Plain("reserved")) /\ ~Busy(Plain("quarantined"))
BY DEF Holding, Plain, DrainingLoad, LoadState, EvictState, Busy, Phase

LEMMA ToDrainingFacts ==
  ASSUME NEW st \in AdmissionState
  PROVE  /\ ToDraining(st) \in AdmissionState
         /\ LoadState(ToDraining(st)) <=> LoadState(st)
         /\ EvictState(ToDraining(st)) <=> EvictState(st)
         /\ ToDraining(st).phase \in StopPhases
         /\ st.phase = "quarantined" => ToDraining(st).phase = "quarantined"
         /\ st.phase \in UsePhases /\ st.resident # NoHandle =>
              ToDraining(st).phase \in UsePhases /\ ToDraining(st).resident # NoHandle
<1>1. CASE st.phase = "reserved"
  BY <1>1, StateFacts, StatesBuilt, PlainFacts
     DEF ToDraining, UsePhases, StopPhases, EvictState, LoadState, Plain, DrainingLoad
<1>2. CASE st.phase = "loading"
  BY <1>2, StateFacts, StatesBuilt, PlainFacts
     DEF ToDraining, UsePhases, StopPhases, EvictState, LoadState
<1>3. CASE st.phase \in {"resident", "inuse"}
  <2>1. ToDraining(st) = Holding("draining", st.resident)
    BY <1>3 DEF ToDraining
  <2>2. st.resident \in Handle /\ st.resident # NoHandle /\ ~LoadState(st) /\ ~EvictState(st)
    BY <1>3, StateFacts, HandleAssumption
  <2>3. "draining" \in Phase \ {"loading", "evicting"}
    BY DEF Phase
  <2> HIDE DEF ToDraining
  <2> QED
    BY <1>3, <2>1, <2>2, <2>3, StatesBuilt, PlainFacts, HoldingFacts DEF UsePhases, StopPhases
<1>4. CASE st.phase \in {"draining", "evicting", "quarantined"}
  BY <1>4 DEF ToDraining, UsePhases, StopPhases
<1> QED
  BY <1>1, <1>2, <1>3, <1>4, StateFacts DEF Phase

------------------------------------------------------------------------------
(* The steps.                                                              *)

LEMMA PlacementsShape ==
  ASSUME NEW l, NEW ws \in Seq(Workload), NEW ps \in Placements(l, ws)
  PROVE  ps \in Seq(Placement)
<1>1. PICK f \in [DOMAIN ws -> Device] :
        ps = [i \in DOMAIN ws |-> [dev |-> f[i], bytes |-> ws[i].bytes]]
  BY DEF Placements
<1>2. DOMAIN ws = 1..Len(ws) /\ Len(ws) \in Nat /\ \A i \in DOMAIN ws : ws[i] \in Workload
  OBVIOUS
<1>3. \A i \in DOMAIN ws : [dev |-> f[i], bytes |-> ws[i].bytes] \in Placement
  BY <1>2 DEF Workload, Placement
<1> QED
  BY <1>1, <1>2, <1>3

LEMMA PrepareStep ==
  ASSUME IInv, NEW ws \in Requests, Prepare(ws)
  PROVE  Holds
<1>1. PICK ps \in Placements(ledger, ws) :
        prepared' = [generation |-> generation, rev |-> ledger.rev, placements |-> ps]
  BY DEF Prepare
<1>2. ps \in Seq(Placement)
  BY RequestAssumption, PlacementsShape
<1> QED
  BY <1>1, <1>2, IdleStep DEF Prepare, grantVars, work, uses

LEMMA DiscardStep ==
  ASSUME IInv, DiscardPrepared \/ UNCHANGED vars \/ \E n \in DOMAIN results : DiscardNativeResult(n)
  PROVE  Holds
<1>1. CASE DiscardPrepared
  BY <1>1, IdleStep DEF DiscardPrepared, grantVars, work, uses
<1>2. CASE UNCHANGED vars
  BY <1>2, IdleStep DEF vars, IInv, Shape
<1>3. CASE \E n \in DOMAIN results : DiscardNativeResult(n)
  BY <1>3, IdleStep DEF DiscardNativeResult, grantVars, work, issued, IInv, Shape
<1> QED
  BY <1>1, <1>2, <1>3

LEMMA CommitStep ==
  ASSUME IInv, Commit
  PROVE  Holds
<1> DEFINE n == Len(prepared.placements)
           new == nextId.adm..(nextId.adm + n - 1)
<1>1. n \in Nat
  BY DEF IInv, Shape, Commit
<1>2. nextId.adm \in Nat /\ nextId \in Counters /\ \A b \in DOMAIN admissions : b \in 1..(nextId.adm - 1)
  BY DEF IInv, Shape, Counters, Count
<1>3. /\ DOMAIN admissions' = DOMAIN admissions \cup new
      /\ \A b \in DOMAIN admissions \ new : admissions'[b] = admissions[b]
      /\ \A b \in new : /\ Entry(admissions'[b])
                        /\ admissions'[b].state = Plain("reserved") /\ admissions'[b].uses = 0
  BY StatesBuilt DEF Commit, Entry
<1>4. \A b \in new : b \notin DOMAIN admissions
  BY <1>2
<1>5. Added(new, Plain("reserved"))
  BY <1>3, <1>4 DEF Added
<1>6. /\ DOMAIN tickets' = DOMAIN tickets \cup new
      /\ \A b \in new : tickets'[b] = generation
      /\ \A b \in DOMAIN tickets \ new : tickets'[b] = tickets[b]
  BY DEF Commit
<1>7. \A b \in DOMAIN admissions : tickets'[b] = tickets[b]
  BY <1>4, <1>6 DEF IInv, Shape
<1>8. nextId' \in Counters /\ nextId'.adm = nextId.adm + n
      /\ nextId'.permit = nextId.permit /\ nextId'.use = nextId.use
      /\ nextId'.op = nextId.op /\ nextId'.load = nextId.load
  <2>1. PICK m \in Count : m = nextId.adm + n
    BY <1>1, <1>2 DEF Counters, Count
  <2>2. nextId' = [nextId EXCEPT !.adm = m]
    BY <2>1 DEF Commit
  <2> HIDE DEF n, new
  <2> QED
    BY <1>2, <2>1, <2>2 DEF Counters
<1>9. UNCHANGED <<grantVars, work, uses>> /\ prepared' = NoPlan /\ ~revoked
  BY DEF Commit, Committable
<1> HIDE DEF n
<1>10. Settled
  <2>1. Plain("reserved").phase # "inuse"
    BY PlainFacts DEF Phase
  <2> QED
    BY <1>1, <1>5, <1>6, <1>7, <1>8, <1>9, <2>1, AddStep DEF grantVars
<1>11. PendingInv'
  <2> HIDE DEF new
  <2> QED
    BY <1>3, <1>4, <1>8, <1>9, HoldingFacts, PendingQuiet DEF work, IInv
<1> QED
  BY <1>10, <1>11 DEF Holds, Settled, IInv

LEMMA AdmitStep ==
  ASSUME IInv, NEW r, AdmitNativeResident(r)
  PROVE  Holds
<1> DEFINE a == nextId.adm
<1>1. a \in Nat /\ nextId \in Counters /\ a..(a + 1 - 1) = {a} /\ a \notin DOMAIN admissions
  BY DEF IInv, Shape, Counters, Count
<1>2. /\ DOMAIN admissions' = DOMAIN admissions \cup {a}
      /\ \A b \in DOMAIN admissions : admissions'[b] = admissions[b]
      /\ Entry(admissions'[a])
      /\ admissions'[a].state = Plain("loading") /\ admissions'[a].uses = 0
  BY <1>1, StatesBuilt DEF AdmitNativeResident, Put, Entry
<1>3. Added({a}, Plain("loading"))
  BY <1>1, <1>2 DEF Added
<1>4. /\ DOMAIN tickets' = DOMAIN tickets \cup {a}
      /\ tickets'[a] = generation
      /\ \A b \in DOMAIN admissions : tickets'[b] = tickets[b]
  BY <1>1 DEF AdmitNativeResident, Put, IInv, Shape
<1>5. nextId' \in Counters /\ nextId'.adm = nextId.adm + 1 /\ nextId'.load = nextId.load + 1
      /\ nextId'.permit = nextId.permit /\ nextId'.use = nextId.use /\ nextId'.op = nextId.op
  <2>1. nextId' = [nextId EXCEPT !.adm = @ + 1, !.load = @ + 1]
    BY DEF AdmitNativeResident
  <2>2. /\ nextId'.adm = nextId.adm + 1 /\ nextId'.load = nextId.load + 1
        /\ nextId'.permit = nextId.permit /\ nextId'.use = nextId.use /\ nextId'.op = nextId.op
    BY <1>1, <2>1 DEF Counters
  <2>3. [nextId EXCEPT !.adm = @ + 1, !.load = @ + 1] \in Counters
    <3>1. nextId.adm + 1 \in Count /\ nextId.load + 1 \in Count
      BY <1>1 DEF Counters, Count
    <3>2. \A x, y \in Count : [nextId EXCEPT !.adm = x, !.load = y] \in Counters
      BY <1>1 DEF Counters
    <3> QED
      BY <3>1, <3>2
  <2> QED
    BY <2>1, <2>2, <2>3
<1>6. /\ UNCHANGED <<grantVars, uses>> /\ prepared' = prepared /\ ~revoked
      /\ operations' = operations /\ nativeLoads' = Put(nativeLoads, nextId.load, a)
  BY DEF AdmitNativeResident
<1>7. Settled
  <2>1. Plain("loading").phase # "inuse"
    BY PlainFacts DEF Phase
  <2> QED
    BY <1>1, <1>3, <1>4, <1>5, <1>6, <2>1, AddStep DEF grantVars
<1>8. PICK x : x = a
  OBVIOUS
<1>9. PendingInv'
  BY <1>3, <1>5, <1>6, <1>8, PendingAdmit DEF IInv
<1> QED
  BY <1>7, <1>9 DEF Holds, Settled, IInv

(* A load in flight has no uses, and ends in the state that fits the grant *)
(* and the retirements requested meanwhile. *)
LEMMA LoadEnds ==
  ASSUME IInv, NEW a \in DOMAIN admissions, LoadState(admissions[a].state), NEW st \in AdmissionState,
         \/ \E h \in Handle : st = LoadedState(a, h)
         \/ st = Plain("quarantined"),
         admissions' = SetState(a, st),
         UNCHANGED <<uses, tickets, generation, revoked, prepared, nextId>>
  PROVE  Settled /\ Ended(a)
<1>1. Entry(admissions[a]) /\ admissions[a].state \in AdmissionState /\ nextId \in Counters
  BY DEF IInv, Shape, Entry
<1>2. admissions[a].state.resident = NoHandle /\ admissions[a].state.phase \in {"loading", "draining"}
  BY <1>1, StateFacts
<1>3. admissions[a].uses = 0
  BY <1>2, UnusedUnlessHeld DEF IInv
<1>4. Moved(a, st, admissions[a].uses)
  BY SetStateMoves DEF IInv
<1>5. /\ st.phase \in {"resident", "draining", "quarantined"} /\ ~Busy(st)
      /\ st.phase = "resident" => ~revoked /\ admissions[a].state # DrainingLoad
  <2>1. CASE \E h \in Handle : st = LoadedState(a, h)
    <3>1. PICK h \in Handle :
            \/ st = Holding("draining", h)
            \/ st = Holding("resident", h) /\ ~revoked /\ admissions[a].state # DrainingLoad
      BY <2>1 DEF LoadedState
    <3>2. "draining" \in Phase \ {"loading", "evicting"} /\ "resident" \in Phase \ {"loading", "evicting"}
      BY DEF Phase
    <3> QED
      BY <3>1, <3>2, PlainFacts, HoldingFacts
  <2>2. CASE st = Plain("quarantined")
    BY <2>2, HoldingFacts, PlainFacts DEF Phase
  <2> QED
    BY <2>1, <2>2
<1>6. Settled
  <2>1. admissions[a].state.phase = "draining" => admissions[a].state = DrainingLoad
    BY <1>1 DEF LoadState, Plain
  <2>2. revoked => st.phase \in StopPhases
    BY <1>5 DEF StopPhases
  <2>3. admissions[a].state.phase \in StopPhases => st.phase \in StopPhases
    BY <1>2, <1>5, <2>1 DEF StopPhases
  <2> QED
    BY <1>1, <1>2, <1>3, <1>4, <1>5, <2>2, <2>3, StateStep DEF Counters
<1>7. Ended(a)
  BY <1>4, <1>5 DEF Ended, Moved
<1> QED
  BY <1>6, <1>7

(* An admission released by its executor or adapter. *)
LEMMA ReleaseEnds ==
  ASSUME IInv, NEW a \in DOMAIN admissions, ReleaseAdmission(a), Busy(admissions[a].state),
         UNCHANGED <<uses, tickets, generation, revoked, prepared, nextId>>
  PROVE  Settled /\ Ended(a)
<1>1. admissions[a].state \in AdmissionState
  BY DEF IInv, Shape, Entry
<1>2. Gone(a)
  BY ReleaseGone
<1>3. admissions[a].state.phase \notin UsePhases \/ admissions[a].state.resident = NoHandle
  BY <1>1, StateFacts DEF Busy, UsePhases, EvictState
<1>4. admissions[a].uses = 0
  BY <1>3, UnusedUnlessHeld DEF IInv
<1>5. Settled
  BY <1>2, <1>4, GoneStep
<1>6. Ended(a)
  BY <1>2 DEF Gone, Ended
<1> QED
  BY <1>5, <1>6

LEMMA NativeLoadStep ==
  ASSUME IInv, NEW n \in DOMAIN nativeLoads, NativeLoadEnds(n)
  PROVE  Holds
<1>1. PICK a : a = nativeLoads[n]
  OBVIOUS
<1>2. a \in DOMAIN admissions /\ LoadState(admissions[a].state)
  BY <1>1 DEF IInv, PendingInv
<1>3. /\ UNCHANGED <<uses, tickets, generation, revoked, prepared, nextId, operations>>
      /\ nativeLoads' = Drop(nativeLoads, n)
  BY DEF NativeLoadEnds, CompleteNativeLoad, NativeLoadReleased, QuarantineNativeLoad, issued, grantVars
<1>4. Settled /\ Ended(a)
  <2>1. CASE \E h \in Handle : CompleteNativeLoad(n, h)
    <3>1. PICK h \in Handle : admissions' = SetState(a, LoadedState(a, h))
      BY <1>1, <2>1 DEF CompleteNativeLoad
    <3>2. LoadedState(a, h) \in AdmissionState
      BY StatesBuilt DEF LoadedState
    <3>3. PICK st \in AdmissionState : st = LoadedState(a, h)
      BY <3>2
    <3> QED
      BY <1>2, <1>3, <3>1, <3>3, LoadEnds
  <2>2. CASE NativeLoadReleased(n)
    <3>1. ReleaseAdmission(a)
      BY <1>1, <2>2 DEF NativeLoadReleased
    <3> QED
      BY <1>2, <1>3, <3>1, ReleaseEnds DEF Busy
  <2>3. CASE QuarantineNativeLoad(n)
    <3>1. admissions' = SetState(a, Plain("quarantined"))
      BY <1>1, <2>3 DEF QuarantineNativeLoad
    <3> QED
      BY <1>2, <1>3, <3>1, StatesBuilt, LoadEnds
  <2> QED
    BY <2>1, <2>2, <2>3 DEF NativeLoadEnds
<1>5. PendingInv'
  BY <1>1, <1>3, <1>4, PendingLoadTaken DEF IInv
<1> QED
  BY <1>4, <1>5 DEF Holds, Settled, IInv

LEMMA RevokeStep ==
  ASSUME IInv, Revoke
  PROVE  Holds
<1>1. /\ DOMAIN admissions' = DOMAIN admissions /\ revoked'
      /\ UNCHANGED <<work, uses, issued, generation, nextId>>
  BY DEF Revoke
<1>2. ASSUME NEW b \in DOMAIN admissions
      PROVE  /\ Entry(admissions[b]) /\ admissions[b].state \in AdmissionState
             /\ admissions'[b] = [admissions[b] EXCEPT !.state = ToDraining(admissions[b].state)]
  BY DEF Revoke, IInv, Shape, Entry
<1>3. ASSUME NEW b \in DOMAIN admissions
      PROVE  /\ Entry(admissions'[b])
             /\ admissions'[b].state = ToDraining(admissions[b].state)
             /\ admissions'[b].uses = admissions[b].uses
  <2>1. ToDraining(admissions[b].state) \in AdmissionState
    BY <1>2, ToDrainingFacts
  <2> QED
    BY <1>2, <2>1 DEF Entry
<1>4. ASSUME NEW b \in DOMAIN admissions
      PROVE  /\ LoadState(admissions'[b].state) <=> LoadState(admissions[b].state)
             /\ EvictState(admissions'[b].state) <=> EvictState(admissions[b].state)
             /\ admissions'[b].state.phase \in StopPhases
             /\ admissions[b].state.phase = "quarantined" => admissions'[b].state.phase = "quarantined"
             /\ admissions[b].uses > 0 =>
                  admissions'[b].state.phase \in UsePhases /\ admissions'[b].state.resident # NoHandle
  <2>1. admissions[b].uses > 0 =>
          admissions[b].state.phase \in UsePhases /\ admissions[b].state.resident # NoHandle
    BY DEF IInv, UseInv, UsesMatchPermits, UsePhases
  <2>2. PICK st \in AdmissionState : st = admissions[b].state
    BY <1>2
  <2>3. admissions'[b].state = ToDraining(st)
    BY <1>3, <2>2
  <2> QED
    BY <2>1, <2>2, <2>3, ToDrainingFacts
<1>5. nextId \in Counters
  BY DEF IInv, Shape
<1>6. Shape'
  BY <1>1, <1>3, <1>5, ShapeKept DEF IInv, issued
<1>7. GrantInv'
  BY <1>1, <1>4 DEF IInv, GrantInv, AdmissionsFollowTheGrant, StopPhases, issued
<1>8. UseInv'
  <2>1. \A b \in DOMAIN admissions : admissions'[b].state.phase # "inuse"
    BY <1>4 DEF StopPhases
  <2> QED
    BY <1>1, <1>3, <1>4, <2>1, UsesQuiet DEF IInv, uses
<1>9. PendingInv'
  BY <1>1, <1>4, PendingQuiet DEF IInv, work
<1>10. Stays
  BY <1>4 DEF Stays
<1> QED
  BY <1>6, <1>7, <1>8, <1>9, <1>10 DEF Holds, IInv

LEMMA ReplaceStep ==
  ASSUME IInv, NEW g, ReplaceGrant(g)
  PROVE  Holds
<1>1. /\ DOMAIN admissions = {}
      /\ UNCHANGED <<work, uses, issued, admissions, nextId>>
  BY DEF ReplaceGrant, Drained
<1>2. Shape'
  BY <1>1 DEF IInv, Shape, Entry, issued
<1>3. GrantInv' /\ Stays
  BY <1>1 DEF GrantInv, AdmissionsFollowTheGrant, Stays
<1>4. PendingInv'
  BY <1>1 DEF IInv, PendingInv, work
<1>5. UseInv'
  BY <1>1 DEF IInv, UseInv, UsesMatchPermits, UsesOf, uses
<1> QED
  BY <1>2, <1>3, <1>4, <1>5 DEF Holds, IInv

LEMMA RetirementStep ==
  ASSUME IInv, NEW a \in DOMAIN admissions, RequestRetirement(a)
  PROVE  Holds
<1>1. PICK st : st = ToDraining(admissions[a].state)
  OBVIOUS
<1>2. Entry(admissions[a]) /\ admissions[a].state \in AdmissionState /\ nextId \in Counters
  BY DEF IInv, Shape, Entry
<1>3. st \in AdmissionState
  BY <1>1, <1>2, ToDrainingFacts
<1>4. Moved(a, st, admissions[a].uses)
  BY <1>1, <1>3, SetStateMoves DEF IInv, RequestRetirement
<1>5. admissions[a].uses > 0 =>
        admissions[a].state.phase \in UsePhases /\ admissions[a].state.resident # NoHandle
  BY DEF IInv, UseInv, UsesMatchPermits, UsePhases
<1>6. /\ st.phase \in StopPhases
      /\ admissions[a].state.phase = "quarantined" => st.phase = "quarantined"
      /\ admissions[a].uses > 0 => st.phase \in UsePhases /\ st.resident # NoHandle
      /\ LoadState(st) <=> LoadState(admissions[a].state)
      /\ EvictState(st) <=> EvictState(admissions[a].state)
  BY <1>1, <1>2, <1>5, ToDrainingFacts
<1>7. UNCHANGED <<uses, tickets, generation, revoked, prepared, nextId, operations, nativeLoads>>
  BY DEF RequestRetirement, grantVars, work, issued
<1>8. Settled
  <2>1. st.phase # "inuse"
    BY <1>6 DEF StopPhases
  <2> QED
    BY <1>2, <1>4, <1>6, <1>7, <2>1, StateStep
<1>9. PendingInv'
  BY <1>4, <1>6, <1>7, PendingQuiet DEF IInv, Moved
<1> QED
  BY <1>8, <1>9 DEF Holds, Settled, IInv

LEMMA PollReleaseStep ==
  ASSUME IInv, PollRelease
  PROVE  Holds
<1>1. PICK a \in LocalReleases : ReleaseAdmission(a)
  BY DEF PollRelease
<1>2. a \in DOMAIN admissions /\ admissions[a].state = DrainingReserved
  BY DEF LocalReleases
<1>3. UNCHANGED <<uses, tickets, generation, revoked, prepared, nextId, operations, nativeLoads>>
  BY DEF PollRelease, grantVars, work, issued
<1>4. Gone(a)
  BY <1>1, <1>2, ReleaseGone
<1>5. admissions[a].uses = 0
  BY <1>2, UnusedUnlessHeld, PlainFacts DEF IInv
<1>6. ~Busy(admissions[a].state)
  BY <1>2, PlainFacts DEF Busy, EvictState
<1>7. Settled
  BY <1>3, <1>4, <1>5, GoneStep
<1>8. PendingInv'
  BY <1>3, <1>4, <1>6, PendingQuiet DEF IInv, Gone
<1> QED
  BY <1>7, <1>8 DEF Holds, Settled, IInv

LEMMA IssueStep ==
  ASSUME IInv, NEW a \in DOMAIN admissions, NEW kind, NEW st \in AdmissionState, Issue(a, kind, st),
         \/ kind = "load" /\ LoadState(st)
         \/ kind = "evict" /\ EvictState(st),
         ~Busy(admissions[a].state), admissions[a].uses = 0,
         revoked => st.phase \in StopPhases,
         admissions[a].state.phase \in StopPhases => st.phase \in StopPhases,
         admissions[a].state.phase # "quarantined", st.phase # "inuse"
  PROVE  Holds
<1>1. nextId \in Counters
  BY DEF IInv, Shape
<1>2. nextId' = [nextId EXCEPT !.op = @ + 1]
  BY DEF Issue
<1>3. /\ nextId'.op = nextId.op + 1 /\ nextId'.load = nextId.load
      /\ nextId'.permit = nextId.permit /\ nextId'.use = nextId.use /\ nextId'.adm = nextId.adm
  BY <1>1, <1>2 DEF Counters
<1>4. nextId' \in Counters
  <2>1. nextId.op + 1 \in Count
    BY <1>1 DEF Counters, Count
  <2>2. \A x \in Count : [nextId EXCEPT !.op = x] \in Counters
    BY <1>1 DEF Counters
  <2> QED
    BY <1>2, <2>1, <2>2
<1>5. /\ UNCHANGED <<uses, tickets, generation, revoked, prepared, nativeLoads>>
      /\ operations' = Put(operations, nextId.op, [adm |-> a, kind |-> kind])
      /\ admissions' = SetState(a, st)
  BY DEF Issue, grantVars, issued
<1>6. Moved(a, st, admissions[a].uses)
  BY <1>5, SetStateMoves DEF IInv
<1>7. Settled
  BY <1>3, <1>4, <1>5, <1>6, StateStep
<1>8. PendingInv'
  BY <1>3, <1>5, <1>6, PendingIssue DEF IInv
<1> QED
  BY <1>7, <1>8 DEF Holds, Settled, IInv

LEMMA PollLoadStep ==
  ASSUME IInv, PollLoad
  PROVE  Holds
<1>1. PICK a \in Loadable : Issue(a, "load", Plain("loading"))
  BY DEF PollLoad
<1>2. PICK st : st = Plain("loading")
  OBVIOUS
<1>3. /\ a \in DOMAIN admissions /\ admissions[a].state.phase = "reserved"
      /\ ~revoked /\ admissions[a].uses = 0
  BY DEF Loadable
<1>4. st \in AdmissionState /\ st.phase = "loading" /\ LoadState(st)
  BY <1>2, StatesBuilt, HoldingFacts, PlainFacts DEF Phase
<1>5. ~Busy(admissions[a].state)
  BY <1>3 DEF Busy, LoadState, EvictState, Plain, DrainingLoad
<1>6. /\ revoked => st.phase \in StopPhases
      /\ admissions[a].state.phase \in StopPhases => st.phase \in StopPhases
      /\ admissions[a].state.phase # "quarantined" /\ st.phase # "inuse"
  BY <1>3, <1>4 DEF StopPhases
<1> QED
  BY <1>1, <1>2, <1>3, <1>4, <1>5, <1>6, IssueStep

LEMMA PollEvictStep ==
  ASSUME IInv, PollEvict
  PROVE  Holds
<1>1. PICK a \in Evictable : Issue(a, "evict", Holding("evicting", admissions[a].state.resident))
  BY DEF PollEvict
<1>2. PICK st : st = Holding("evicting", admissions[a].state.resident)
  OBVIOUS
<1>3. /\ a \in DOMAIN admissions /\ admissions[a].state.phase = "draining"
      /\ admissions[a].state.resident # NoHandle /\ admissions[a].uses = 0
      /\ admissions[a].state \in AdmissionState
  BY DEF Evictable, IInv, Shape, Entry
<1>4. admissions[a].state.resident \in Handle /\ ~LoadState(admissions[a].state)
  BY <1>3, StateFacts
<1>5. st \in AdmissionState /\ st.phase = "evicting" /\ EvictState(st)
  BY <1>2, <1>3, <1>4, StatesBuilt, HoldingFacts, PlainFacts DEF Phase
<1>6. ~Busy(admissions[a].state)
  BY <1>3, <1>4 DEF Busy, EvictState
<1> QED
  BY <1>1, <1>2, <1>3, <1>5, <1>6, IssueStep DEF StopPhases

(* An eviction that failed, or of an unknown outcome. *)
LEMMA EvictEnds ==
  ASSUME IInv, NEW a \in DOMAIN admissions, EvictState(admissions[a].state), NEW st,
         \/ st = Holding("draining", admissions[a].state.resident)
         \/ st = Holding("quarantined", admissions[a].state.resident),
         admissions' = SetState(a, st),
         UNCHANGED <<uses, tickets, generation, revoked, prepared, nextId>>
  PROVE  Settled /\ Ended(a)
<1>1. Entry(admissions[a]) /\ admissions[a].state \in AdmissionState /\ nextId \in Counters
  BY DEF IInv, Shape, Entry
<1>2. admissions[a].state.phase = "evicting" /\ admissions[a].state.resident \in Handle
  BY <1>1, StateFacts DEF EvictState
<1>3. admissions[a].uses = 0
  BY <1>2, UnusedUnlessHeld DEF IInv, UsePhases
<1>4. st \in AdmissionState
  BY <1>2, StatesBuilt
<1>5. Moved(a, st, admissions[a].uses)
  BY <1>4, SetStateMoves DEF IInv
<1>6. st.phase \in {"draining", "quarantined"} /\ ~Busy(st)
  <2>1. "draining" \in Phase \ {"loading", "evicting"} /\ "quarantined" \in Phase \ {"loading", "evicting"}
    BY DEF Phase
  <2> QED
    BY <2>1, PlainFacts, HoldingFacts
<1>7. st.phase \in StopPhases /\ st.phase # "inuse"
  BY <1>6 DEF StopPhases
<1>8. Settled
  BY <1>1, <1>2, <1>3, <1>5, <1>7, StateStep
<1>9. Ended(a)
  BY <1>5, <1>6 DEF Ended, Moved
<1> QED
  BY <1>8, <1>9

LEMMA CompleteStep ==
  ASSUME IInv, NEW o \in DOMAIN operations, Complete(o)
  PROVE  Holds
<1>1. PICK a : a = operations[o].adm
  OBVIOUS
<1>2. /\ a \in DOMAIN admissions /\ Busy(admissions[a].state)
      /\ admissions[a].state \in AdmissionState
  BY <1>1 DEF IInv, PendingInv, Busy, Shape, Entry
<1>3. UNCHANGED <<uses, tickets, generation, revoked, prepared, nextId, nativeLoads>>
  BY DEF Complete, issued, grantVars
<1>4. operations' = Drop(operations, o)
  BY DEF Complete, Loaded, ReleasedBy, QuarantinedBy, EvictFailed, Acknowledges
<1>5. Settled /\ Ended(a)
  <2>1. CASE \E h \in Handle : Loaded(o, h)
    <3>1. PICK h \in Handle : Loaded(o, h)
      BY <2>1
    <3>2. LoadState(admissions[a].state) /\ admissions' = SetState(a, LoadedState(a, h))
      BY <1>1, <3>1 DEF Loaded, Acknowledges, IsLoading, LoadState
    <3>3. LoadedState(a, h) \in AdmissionState
      BY StatesBuilt DEF LoadedState
    <3>4. PICK st \in AdmissionState : st = LoadedState(a, h)
      BY <3>3
    <3> QED
      BY <1>2, <1>3, <3>2, <3>4, LoadEnds
  <2>2. CASE ReleasedBy(o, "load") \/ ReleasedBy(o, "evict")
    <3>1. ReleaseAdmission(a)
      BY <1>1, <2>2 DEF ReleasedBy
    <3> QED
      BY <1>2, <1>3, <3>1, ReleaseEnds
  <2>3. CASE QuarantinedBy(o, "load")
    <3>1. LoadState(admissions[a].state)
      BY <1>1, <2>3 DEF QuarantinedBy, Acknowledges, IsLoading, LoadState
    <3>2. admissions[a].state.resident = NoHandle
      BY <1>2, <3>1, StateFacts
    <3>3. admissions' = SetState(a, Plain("quarantined"))
      BY <1>1, <2>3, <3>2 DEF QuarantinedBy, Plain, Holding
    <3> QED
      BY <1>2, <1>3, <3>1, <3>3, StatesBuilt, LoadEnds
  <2>4. CASE QuarantinedBy(o, "evict") \/ EvictFailed(o)
    <3>1. EvictState(admissions[a].state)
      BY <1>1, <2>4 DEF QuarantinedBy, EvictFailed, Acknowledges, EvictState
    <3>2. PICK st :
            /\ \/ st = Holding("draining", admissions[a].state.resident)
               \/ st = Holding("quarantined", admissions[a].state.resident)
            /\ admissions' = SetState(a, st)
      BY <1>1, <2>4 DEF QuarantinedBy, EvictFailed
    <3> QED
      BY <1>2, <1>3, <3>1, <3>2, EvictEnds
  <2> QED
    BY <2>1, <2>2, <2>3, <2>4 DEF Complete
<1>6. PendingInv'
  BY <1>1, <1>3, <1>4, <1>5, PendingTaken DEF IInv
<1> QED
  BY <1>5, <1>6 DEF Holds, Settled, IInv

(* A use begins on a resident. *)
LEMMA InUseMoves ==
  ASSUME IInv, NEW a, Startable(a), admissions' = InUse(a)
  PROVE  /\ a \in DOMAIN admissions /\ ~revoked
         /\ admissions[a].uses \in Nat
         /\ ~Busy(admissions[a].state) /\ admissions[a].state.phase \in {"resident", "inuse"}
         /\ \E st : /\ st.phase = "inuse" /\ st.resident # NoHandle /\ ~Busy(st)
                    /\ Moved(a, st, admissions[a].uses + 1)
<1> DEFINE old == admissions[a].state
<1>1. /\ a \in DOMAIN admissions /\ ~revoked /\ old.phase \in {"resident", "inuse"}
      /\ Entry(admissions[a]) /\ old \in AdmissionState /\ admissions[a].uses \in Nat
  BY DEF Startable, Current, Usable, IInv, Shape, Entry
<1>2. old.resident \in Handle /\ old.resident # NoHandle /\ ~Busy(old)
  BY <1>1, StateFacts, HandleAssumption DEF Busy, EvictState
<1>3. PICK st : st = Holding("inuse", old.resident)
  OBVIOUS
<1>4. st.phase = "inuse" /\ st.resident # NoHandle /\ ~Busy(st) /\ st \in AdmissionState
  <2>1. "inuse" \in Phase \ {"loading", "evicting"}
    BY DEF Phase
  <2> QED
    BY <1>2, <1>3, <2>1, PlainFacts, HoldingFacts, StatesBuilt
<1>5. Moved(a, st, admissions[a].uses + 1)
  <2>1. DOMAIN admissions' = DOMAIN admissions
    BY DEF InUse
  <2>2. ASSUME NEW b \in DOMAIN admissions
        PROVE  /\ b # a => admissions'[b] = admissions[b]
               /\ b = a => admissions'[b] = [admissions[a] EXCEPT !.uses = @ + 1, !.state = st]
    BY <1>3 DEF InUse
  <2>3. \A b \in DOMAIN admissions : Entry(admissions[b])
    BY DEF IInv, Shape
  <2>4. ASSUME NEW b \in DOMAIN admissions, b = a
        PROVE  /\ Entry(admissions'[b]) /\ admissions'[b].state = st
               /\ admissions'[b].uses = admissions[a].uses + 1
    <3>1. \A x \in Nat :
            /\ Entry([admissions[a] EXCEPT !.uses = x, !.state = st])
            /\ [admissions[a] EXCEPT !.uses = x, !.state = st].state = st
            /\ [admissions[a] EXCEPT !.uses = x, !.state = st].uses = x
      BY <1>1, <1>4 DEF Entry
    <3>2. admissions[a].uses + 1 \in Nat
      BY <1>1
    <3> QED
      BY <2>2, <2>4, <3>1, <3>2
  <2> QED
    BY <1>1, <2>1, <2>2, <2>3, <2>4 DEF Moved
<1> QED
  BY <1>1, <1>2, <1>4, <1>5

LEMMA BeginUseStep ==
  ASSUME IInv, NEW a, BeginUse(a)
  PROVE  Holds
<1>1. /\ Startable(a) /\ admissions' = InUse(a)
      /\ permits' = Put(permits, nextId.permit, a)
      /\ nextId' = [nextId EXCEPT !.permit = @ + 1]
      /\ UNCHANGED <<operations, nativeLoads, tickets, generation, revoked, prepared,
                     nativeUses, quarantined>>
  BY DEF BeginUse, grantVars, work, issued
<1>2. PICK st : /\ st.phase = "inuse" /\ st.resident # NoHandle /\ ~Busy(st)
                /\ Moved(a, st, admissions[a].uses + 1)
  BY <1>1, InUseMoves
<1>3. /\ a \in DOMAIN admissions /\ ~revoked /\ admissions[a].uses \in Nat
      /\ ~Busy(admissions[a].state) /\ admissions[a].state.phase \in {"resident", "inuse"}
  BY <1>1, InUseMoves
<1>4. nextId \in Counters
  BY DEF IInv, Shape
<1>5. /\ nextId'.permit = nextId.permit + 1 /\ nextId'.use = nextId.use
      /\ nextId'.adm = nextId.adm /\ nextId'.op = nextId.op /\ nextId'.load = nextId.load
  BY <1>1, <1>4 DEF Counters
<1>6. nextId' \in Counters
  <2>1. nextId.permit + 1 \in Count
    BY <1>4 DEF Counters, Count
  <2>2. \A x \in Count : [nextId EXCEPT !.permit = x] \in Counters
    BY <1>4 DEF Counters
  <2> QED
    BY <1>1, <2>1, <2>2
<1>7. Shape' /\ GrantInv' /\ PendingInv' /\ Stays
  <2>1. admissions[a].state.phase \notin StopPhases
    BY <1>3 DEF StopPhases
  <2> QED
    BY <1>1, <1>2, <1>3, <1>5, <1>6, <2>1, UsedStep
<1>8. UseInv'
  <2>1. /\ DOMAIN permits' = DOMAIN permits \cup {nextId.permit}
        /\ permits'[nextId.permit] = a
        /\ \A p \in DOMAIN permits : permits'[p] = permits[p]
        /\ OneMore(a)
    BY <1>1, PermitBegun DEF IInv
  <2>2. PICK n \in Nat : n = admissions[a].uses + 1
    BY <1>3
  <2>3. UsesOf(a)' = n /\ \A b : b # a => UsesOf(b)' = UsesOf(b)
    BY <1>3, <2>1, <2>2 DEF OneMore, IInv, UseInv, UsesMatchPermits
  <2>4. n > 0
    BY <1>3, <2>2
  <2>5. \A p \in DOMAIN permits' : permits'[p] \in DOMAIN admissions
    BY <1>3, <2>1 DEF IInv, UseInv, UsesMatchPermits
  <2>6. DOMAIN permits' \subseteq 1..(nextId'.permit - 1)
    <3>1. nextId.permit \in Nat /\ 1 <= nextId.permit
      BY <1>4 DEF Counters, Count
    <3> QED
      BY <1>5, <2>1, <3>1 DEF IInv, UseInv
  <2>7. \A m \in DOMAIN quarantined' :
          quarantined'[m].adm \in DOMAIN admissions /\ quarantined'[m].adm # a
            /\ admissions[quarantined'[m].adm].state.phase = "quarantined"
    BY <1>1, <1>3 DEF IInv, UseInv, UsesMatchPermits
  <2>8. \A m \in DOMAIN nativeUses' : nativeUses'[m].adm \in DOMAIN admissions
    BY <1>1 DEF IInv, UseInv, UsesMatchPermits
  <2>9. /\ DOMAIN nativeUses' \subseteq 1..(nextId'.use - 1)
        /\ DOMAIN quarantined' \subseteq 1..(nextId'.use - 1)
        /\ DOMAIN nativeUses' \cap DOMAIN quarantined' = {}
    BY <1>1, <1>5 DEF IInv, UseInv
  <2>10. st.phase \in UsePhases /\ Moved(a, st, n)
    BY <1>2, <2>2 DEF UsePhases
  <2> QED
    BY <1>2, <2>3, <2>4, <2>5, <2>6, <2>7, <2>8, <2>9, <2>10, UsesMoved DEF IInv
<1> QED
  BY <1>7, <1>8 DEF Holds, IInv

LEMMA BeginNativeUseStep ==
  ASSUME IInv, NEW a, NEW r, BeginNativeUse(a, r)
  PROVE  Holds
<1>1. /\ Startable(a) /\ admissions' = InUse(a)
      /\ nextId' = [nextId EXCEPT !.use = @ + 1]
      /\ UNCHANGED <<operations, nativeLoads, tickets, generation, revoked, prepared,
                     permits, quarantined>>
  BY DEF BeginNativeUse, grantVars, work, issued
<1>2. PICK u : u.adm = a /\ nativeUses' = Put(nativeUses, nextId.use, u)
  BY DEF BeginNativeUse
<1>3. PICK st : /\ st.phase = "inuse" /\ st.resident # NoHandle /\ ~Busy(st)
                /\ Moved(a, st, admissions[a].uses + 1)
  BY <1>1, InUseMoves
<1>4. /\ a \in DOMAIN admissions /\ ~revoked /\ admissions[a].uses \in Nat
      /\ ~Busy(admissions[a].state) /\ admissions[a].state.phase \in {"resident", "inuse"}
  BY <1>1, InUseMoves
<1>5. nextId \in Counters
  BY DEF IInv, Shape
<1>6. /\ nextId'.permit = nextId.permit /\ nextId'.use = nextId.use + 1
      /\ nextId'.adm = nextId.adm /\ nextId'.op = nextId.op /\ nextId'.load = nextId.load
  BY <1>1, <1>5 DEF Counters
<1>7. nextId' \in Counters
  <2>1. nextId.use + 1 \in Count
    BY <1>5 DEF Counters, Count
  <2>2. \A x \in Count : [nextId EXCEPT !.use = x] \in Counters
    BY <1>5 DEF Counters
  <2> QED
    BY <1>1, <2>1, <2>2
<1>8. Shape' /\ GrantInv' /\ PendingInv' /\ Stays
  <2>1. admissions[a].state.phase \notin StopPhases
    BY <1>4 DEF StopPhases
  <2> QED
    BY <1>1, <1>3, <1>4, <1>6, <1>7, <2>1, UsedStep
<1>9. UseInv'
  <2>1. /\ DOMAIN nativeUses' = DOMAIN nativeUses \cup {nextId.use}
        /\ nativeUses'[nextId.use].adm = a
        /\ \A m \in DOMAIN nativeUses : nativeUses'[m] = nativeUses[m]
        /\ OneMore(a)
    BY <1>1, <1>2, NativeBegun DEF IInv
  <2>2. PICK n \in Nat : n = admissions[a].uses + 1
    BY <1>4
  <2>3. UsesOf(a)' = n /\ \A b : b # a => UsesOf(b)' = UsesOf(b)
    BY <1>4, <2>1, <2>2 DEF OneMore, IInv, UseInv, UsesMatchPermits
  <2>4. n > 0
    BY <1>4, <2>2
  <2>5. \A m \in DOMAIN nativeUses' : nativeUses'[m].adm \in DOMAIN admissions
    BY <1>4, <2>1 DEF IInv, UseInv, UsesMatchPermits
  <2>6. nextId.use \in Nat /\ 1 <= nextId.use
    BY <1>5 DEF Counters, Count
  <2>7. /\ DOMAIN nativeUses' \subseteq 1..(nextId'.use - 1)
        /\ DOMAIN quarantined' \subseteq 1..(nextId'.use - 1)
        /\ DOMAIN permits' \subseteq 1..(nextId'.permit - 1)
    BY <1>1, <1>6, <2>1, <2>6 DEF IInv, UseInv
  <2>8. DOMAIN nativeUses' \cap DOMAIN quarantined' = {}
    BY <1>1, <2>1, <2>6 DEF IInv, UseInv
  <2>9. \A m \in DOMAIN quarantined' :
          quarantined'[m].adm \in DOMAIN admissions /\ quarantined'[m].adm # a
            /\ admissions[quarantined'[m].adm].state.phase = "quarantined"
    BY <1>1, <1>4 DEF IInv, UseInv, UsesMatchPermits
  <2>10. \A p \in DOMAIN permits' : permits'[p] \in DOMAIN admissions
    BY <1>1 DEF IInv, UseInv, UsesMatchPermits
  <2>11. st.phase \in UsePhases /\ Moved(a, st, n)
    BY <1>3, <2>2 DEF UsePhases
  <2> QED
    BY <1>3, <2>3, <2>4, <2>5, <2>7, <2>8, <2>9, <2>10, <2>11, UsesMoved DEF IInv
<1> QED
  BY <1>8, <1>9 DEF Holds, IInv

(* A use ends on a resident that may drain meanwhile. *)
LEMMA FinishedMoves ==
  ASSUME IInv, NEW a \in DOMAIN admissions, UsesOf(a) > 0, admissions' = Finished(a)
  PROVE  /\ admissions[a].uses \in Nat /\ admissions[a].uses > 0
         /\ ~Busy(admissions[a].state)
         /\ \E st, n : /\ n \in Nat /\ n = admissions[a].uses - 1
                       /\ Moved(a, st, n) /\ ~Busy(st)
                       /\ n > 0 => st.phase \in UsePhases /\ st.resident # NoHandle
                       /\ st.phase = "inuse" => n > 0
                       /\ admissions[a].state.phase \in StopPhases => st = admissions[a].state
<1> DEFINE old == admissions[a].state
<1>1. /\ Entry(admissions[a]) /\ old \in AdmissionState /\ admissions[a].uses \in Nat
      /\ admissions[a].uses = UsesOf(a) /\ admissions[a].uses > 0
      /\ old.phase \in UsePhases /\ old.resident # NoHandle
  BY DEF IInv, Shape, Entry, UseInv, UsesMatchPermits, UsePhases
<1>2. old.resident \in Handle /\ ~Busy(old)
  BY <1>1, StateFacts DEF Busy, EvictState, UsePhases
<1>3. PICK n \in Nat : n = admissions[a].uses - 1
  BY <1>1
<1>4. PICK st : st = FinishedState(old, n)
  OBVIOUS
<1>5. \/ old.phase = "inuse" /\ n = 0 /\ st = Holding("draining", old.resident)
      \/ old.phase = "inuse" /\ n = 0 /\ st = Holding("resident", old.resident)
      \/ ~(old.phase = "inuse" /\ n = 0) /\ st = old
  BY <1>4 DEF FinishedState
<1>6. /\ st \in AdmissionState /\ ~Busy(st)
      /\ n > 0 => st.phase \in UsePhases /\ st.resident # NoHandle
      /\ st.phase = "inuse" => n > 0
      /\ old.phase \in StopPhases => st = old
  <2>1. CASE \/ st = Holding("draining", old.resident) /\ old.phase = "inuse" /\ n = 0
             \/ st = Holding("resident", old.resident) /\ old.phase = "inuse" /\ n = 0
    <3>1. "draining" \in Phase \ {"loading", "evicting"} /\ "resident" \in Phase \ {"loading", "evicting"}
      BY DEF Phase
    <3> HIDE DEF old
    <3>2. st \in AdmissionState /\ ~Busy(st) /\ st.phase # "inuse"
      BY <1>2, <2>1, <3>1, StatesBuilt, HoldingFacts, PlainFacts DEF old
    <3> QED
      BY <2>1, <3>2 DEF StopPhases
  <2>2. CASE ~(old.phase = "inuse" /\ n = 0) /\ st = old
    BY <1>1, <1>2, <1>3, <2>2
  <2> QED
    BY <1>5, <2>1, <2>2
<1>7. Moved(a, st, n)
  <2>1. DOMAIN admissions' = DOMAIN admissions
    BY DEF Finished
  <2>2. ASSUME NEW b \in DOMAIN admissions
        PROVE  /\ b # a => admissions'[b] = admissions[b]
               /\ b = a => admissions'[b] = [admissions[a] EXCEPT !.uses = n, !.state = st]
    BY <1>3, <1>4 DEF Finished
  <2>3. \A b \in DOMAIN admissions : Entry(admissions[b])
    BY DEF IInv, Shape
  <2>4. ASSUME NEW b \in DOMAIN admissions, b = a
        PROVE  Entry(admissions'[b]) /\ admissions'[b].state = st /\ admissions'[b].uses = n
    <3>1. /\ Entry([admissions[a] EXCEPT !.uses = n, !.state = st])
          /\ [admissions[a] EXCEPT !.uses = n, !.state = st].state = st
          /\ [admissions[a] EXCEPT !.uses = n, !.state = st].uses = n
      BY <1>1, <1>6 DEF Entry
    <3> QED
      BY <2>2, <2>4, <3>1
  <2> QED
    BY <2>1, <2>2, <2>3, <2>4 DEF Moved
<1> QED
  BY <1>1, <1>2, <1>3, <1>6, <1>7

LEMMA FinishUseStep ==
  ASSUME IInv, NEW p \in DOMAIN permits, FinishUse(p)
  PROVE  Holds
<1>1. PICK a : a = permits[p]
  OBVIOUS
<1>2. /\ admissions' = Finished(a) /\ permits' = Drop(permits, p)
      /\ UNCHANGED <<operations, nativeLoads, tickets, generation, revoked, prepared,
                     nativeUses, quarantined, nextId>>
  BY <1>1 DEF FinishUse, grantVars, work, issued
<1>3. a \in DOMAIN admissions /\ UsesOf(a) > 0 /\ nextId \in Counters
  <2>1. a \in DOMAIN admissions /\ nextId \in Counters /\ UsesOf(a) \in Nat
    BY <1>1, UsersAreFinite DEF IInv, UseInv, UsesMatchPermits, Shape
  <2>2. UsesOf(a) # 0
    BY <1>1, NoUsers DEF IInv, PermitsOf
  <2> QED
    BY <2>1, <2>2
<1>4. /\ admissions[a].uses \in Nat /\ ~Busy(admissions[a].state)
  BY <1>2, <1>3, FinishedMoves
<1>5. PICK st, n : /\ n \in Nat /\ n = admissions[a].uses - 1
                   /\ Moved(a, st, n) /\ ~Busy(st)
                   /\ n > 0 => st.phase \in UsePhases /\ st.resident # NoHandle
                   /\ st.phase = "inuse" => n > 0
                   /\ admissions[a].state.phase \in StopPhases => st = admissions[a].state
  BY <1>2, <1>3, FinishedMoves
<1>6. Shape' /\ GrantInv' /\ PendingInv' /\ Stays
  <2>1. revoked => admissions[a].state.phase \in StopPhases
    BY <1>3 DEF IInv, GrantInv, AdmissionsFollowTheGrant, StopPhases
  <2> QED
    BY <1>2, <1>3, <1>4, <1>5, <2>1, UsedStep
<1>7. UseInv'
  <2>1. /\ DOMAIN permits' = DOMAIN permits \ {p}
        /\ \A q \in DOMAIN permits' : permits'[q] = permits[q]
        /\ OneLess(a)
    BY <1>1, <1>2, PermitEnded DEF IInv
  <2>2. UsesOf(a)' = n /\ \A b : b # a => UsesOf(b)' = UsesOf(b)
    BY <1>3, <1>5, <2>1 DEF OneLess, IInv, UseInv, UsesMatchPermits
  <2>3. \A q \in DOMAIN permits' : permits'[q] \in DOMAIN admissions
    BY <2>1 DEF IInv, UseInv, UsesMatchPermits
  <2>4. \A m \in DOMAIN nativeUses' : nativeUses'[m].adm \in DOMAIN admissions
    BY <1>2 DEF IInv, UseInv, UsesMatchPermits
  <2>5. \A m \in DOMAIN quarantined' :
          /\ quarantined'[m].adm \in DOMAIN admissions
          /\ admissions[quarantined'[m].adm].state.phase = "quarantined"
    BY <1>2 DEF IInv, UseInv, UsesMatchPermits
  <2>6. admissions[a].state.phase = "quarantined" => st.phase = "quarantined"
    BY <1>5 DEF StopPhases
  <2>7. /\ DOMAIN permits' \subseteq 1..(nextId'.permit - 1)
        /\ DOMAIN nativeUses' \subseteq 1..(nextId'.use - 1)
        /\ DOMAIN quarantined' \subseteq 1..(nextId'.use - 1)
        /\ DOMAIN nativeUses' \cap DOMAIN quarantined' = {}
    BY <1>2, <2>1 DEF IInv, UseInv
  <2> QED
    BY <1>5, <2>2, <2>3, <2>4, <2>5, <2>6, <2>7, UsesMoved DEF IInv
<1> QED
  BY <1>6, <1>7 DEF Holds, IInv

LEMMA FinishNativeUseStep ==
  ASSUME IInv, NEW m \in DOMAIN nativeUses, FinishNativeUse(m)
  PROVE  Holds
<1>1. PICK a : a = nativeUses[m].adm
  OBVIOUS
<1>2. /\ admissions' = Finished(a) /\ nativeUses' = Drop(nativeUses, m)
      /\ UNCHANGED <<operations, nativeLoads, tickets, generation, revoked, prepared,
                     permits, quarantined>>
      /\ nextId' = nextId \/ nextId' = [nextId EXCEPT !.result = @ + 1]
  BY <1>1 DEF FinishNativeUse, grantVars, work, issued
<1>3. nextId \in Counters
  BY DEF IInv, Shape
<1>4. /\ nextId'.permit = nextId.permit /\ nextId'.use = nextId.use
      /\ nextId'.adm = nextId.adm /\ nextId'.op = nextId.op /\ nextId'.load = nextId.load
      /\ nextId' \in Counters
  <2>1. nextId.result + 1 \in Count
    BY <1>3 DEF Counters, Count
  <2>2. ASSUME NEW x \in Count
        PROVE  LET c == [nextId EXCEPT !.result = x]
               IN /\ c.permit = nextId.permit /\ c.use = nextId.use
                  /\ c.adm = nextId.adm /\ c.op = nextId.op /\ c.load = nextId.load
                  /\ c \in Counters
    BY <1>3 DEF Counters
  <2>3. CASE nextId' = nextId
    BY <1>3, <2>3
  <2>4. CASE nextId' = [nextId EXCEPT !.result = @ + 1]
    <3>1. PICK x \in Count : x = nextId.result + 1
      BY <2>1
    <3>2. nextId' = [nextId EXCEPT !.result = x]
      BY <2>4, <3>1
    <3> QED
      BY <2>2, <3>2
  <2> QED
    BY <1>2, <2>3, <2>4
<1>5. a \in DOMAIN admissions /\ UsesOf(a) > 0
  <2>1. a \in DOMAIN admissions /\ UsesOf(a) \in Nat
    BY <1>1, UsersAreFinite DEF IInv, UseInv, UsesMatchPermits
  <2>2. UsesOf(a) # 0
    BY <1>1, NoUsers DEF IInv, NativesOf
  <2> QED
    BY <2>1, <2>2
<1>6. /\ admissions[a].uses \in Nat /\ ~Busy(admissions[a].state)
  BY <1>2, <1>5, FinishedMoves
<1>7. PICK st, n : /\ n \in Nat /\ n = admissions[a].uses - 1
                   /\ Moved(a, st, n) /\ ~Busy(st)
                   /\ n > 0 => st.phase \in UsePhases /\ st.resident # NoHandle
                   /\ st.phase = "inuse" => n > 0
                   /\ admissions[a].state.phase \in StopPhases => st = admissions[a].state
  BY <1>2, <1>5, FinishedMoves
<1>8. Shape' /\ GrantInv' /\ PendingInv' /\ Stays
  <2>1. revoked => admissions[a].state.phase \in StopPhases
    BY <1>5 DEF IInv, GrantInv, AdmissionsFollowTheGrant, StopPhases
  <2> QED
    BY <1>2, <1>4, <1>5, <1>6, <1>7, <2>1, UsedStep
<1>9. UseInv'
  <2>1. /\ DOMAIN nativeUses' = DOMAIN nativeUses \ {m}
        /\ \A k \in DOMAIN nativeUses' : nativeUses'[k] = nativeUses[k]
        /\ OneLess(a)
    BY <1>1, <1>2, NativeEnded DEF IInv
  <2>2. UsesOf(a)' = n /\ \A b : b # a => UsesOf(b)' = UsesOf(b)
    BY <1>5, <1>7, <2>1 DEF OneLess, IInv, UseInv, UsesMatchPermits
  <2>3. \A q \in DOMAIN permits' : permits'[q] \in DOMAIN admissions
    BY <1>2 DEF IInv, UseInv, UsesMatchPermits
  <2>4. \A k \in DOMAIN nativeUses' : nativeUses'[k].adm \in DOMAIN admissions
    BY <2>1 DEF IInv, UseInv, UsesMatchPermits
  <2>5. \A k \in DOMAIN quarantined' :
          /\ quarantined'[k].adm \in DOMAIN admissions
          /\ admissions[quarantined'[k].adm].state.phase = "quarantined"
    BY <1>2 DEF IInv, UseInv, UsesMatchPermits
  <2>6. admissions[a].state.phase = "quarantined" => st.phase = "quarantined"
    BY <1>7 DEF StopPhases
  <2>7. /\ DOMAIN permits' = DOMAIN permits /\ DOMAIN quarantined' = DOMAIN quarantined
        /\ nextId'.permit = nextId.permit /\ nextId'.use = nextId.use
    BY <1>2, <1>4
  <2>8. /\ DOMAIN permits' \subseteq 1..(nextId'.permit - 1)
        /\ DOMAIN nativeUses' \subseteq 1..(nextId'.use - 1)
        /\ DOMAIN quarantined' \subseteq 1..(nextId'.use - 1)
        /\ DOMAIN nativeUses' \cap DOMAIN quarantined' = {}
    BY <2>1, <2>7 DEF IInv, UseInv
  <2> QED
    BY <1>7, <2>2, <2>3, <2>4, <2>5, <2>6, <2>8, UsesMoved DEF IInv
<1> QED
  BY <1>8, <1>9 DEF Holds, IInv

LEMMA QuarantineUseStep ==
  ASSUME IInv, NEW m \in DOMAIN nativeUses, QuarantineNativeUse(m)
  PROVE  Holds
<1>1. PICK a : a = nativeUses[m].adm
  OBVIOUS
<1>2. PICK st : st = Holding("quarantined", admissions[a].state.resident)
  OBVIOUS
<1>3. /\ admissions' = SetState(a, st)
      /\ nativeUses' = Drop(nativeUses, m)
      /\ quarantined' = Put(quarantined, m, nativeUses[m])
      /\ UNCHANGED <<operations, nativeLoads, tickets, generation, revoked, prepared,
                     permits, nextId>>
      /\ admissions[a].state.phase \in UsePhases /\ admissions[a].state.resident # NoHandle
  BY <1>1, <1>2 DEF QuarantineNativeUse, UsePhases, grantVars, work, issued
<1>4. a \in DOMAIN admissions /\ nextId \in Counters
  BY <1>1 DEF IInv, Shape, UseInv, UsesMatchPermits
<1>5. /\ admissions[a].state \in AdmissionState /\ admissions[a].uses \in Nat
      /\ admissions[a].uses = UsesOf(a)
  BY <1>4 DEF IInv, Shape, Entry, UseInv, UsesMatchPermits
<1>6. admissions[a].state.resident \in Handle /\ ~Busy(admissions[a].state)
  BY <1>3, <1>5, StateFacts DEF Busy, EvictState, UsePhases
<1>7. /\ st \in AdmissionState /\ st.phase = "quarantined" /\ st.resident # NoHandle /\ ~Busy(st)
  <2>1. "quarantined" \in Phase \ {"loading", "evicting"}
    BY DEF Phase
  <2> QED
    BY <1>2, <1>3, <1>6, <2>1, StatesBuilt, HoldingFacts, PlainFacts
<1>8. PICK n \in Nat : n = admissions[a].uses
  BY <1>5
<1>9. Moved(a, st, n)
  BY <1>3, <1>4, <1>7, <1>8, SetStateMoves DEF IInv
<1>10. Shape' /\ GrantInv' /\ PendingInv' /\ Stays
  <2>1. st.phase \in StopPhases
    BY <1>7 DEF StopPhases
  <2> QED
    BY <1>3, <1>4, <1>6, <1>7, <1>9, <2>1, UsedStep
<1>11. UseInv'
  <2>1. /\ DOMAIN nativeUses' = DOMAIN nativeUses \ {m}
        /\ \A k \in DOMAIN nativeUses' : nativeUses'[k] = nativeUses[k]
        /\ DOMAIN quarantined' = DOMAIN quarantined \cup {m}
        /\ quarantined'[m] = nativeUses[m]
        /\ \A k \in DOMAIN quarantined : quarantined'[k] = quarantined[k]
        /\ \A b : UsesOf(b)' = UsesOf(b)
    BY <1>1, <1>3, NativeLost DEF IInv
  <2>2. UsesOf(a)' = n
    BY <1>5, <1>8, <2>1
  <2>3. n > 0
    <3>1. UsesOf(a) # 0
      BY <1>1, NoUsers DEF IInv, NativesOf
    <3> QED
      BY <1>5, <1>8, <3>1
  <2>4. \A q \in DOMAIN permits' : permits'[q] \in DOMAIN admissions
    BY <1>3 DEF IInv, UseInv, UsesMatchPermits
  <2>5. \A k \in DOMAIN nativeUses' : nativeUses'[k].adm \in DOMAIN admissions
    BY <2>1 DEF IInv, UseInv, UsesMatchPermits
  <2>6. \A k \in DOMAIN quarantined' :
          /\ quarantined'[k].adm \in DOMAIN admissions
          /\ quarantined'[k].adm # a => admissions[quarantined'[k].adm].state.phase = "quarantined"
    BY <1>1, <1>4, <2>1 DEF IInv, UseInv, UsesMatchPermits
  <2>7. nextId' = nextId /\ permits' = permits
    BY <1>3
  <2>8. /\ DOMAIN permits' \subseteq 1..(nextId'.permit - 1)
        /\ DOMAIN nativeUses' \subseteq 1..(nextId'.use - 1)
        /\ DOMAIN quarantined' \subseteq 1..(nextId'.use - 1)
        /\ DOMAIN nativeUses' \cap DOMAIN quarantined' = {}
    BY <2>1, <2>7 DEF IInv, UseInv
  <2>9. st.phase \in UsePhases /\ st.phase # "inuse"
    BY <1>7 DEF UsePhases
  <2> QED
    BY <1>7, <1>9, <2>1, <2>2, <2>4, <2>5, <2>6, <2>8, <2>9, UsesMoved DEF IInv
<1> QED
  BY <1>10, <1>11 DEF Holds, IInv

------------------------------------------------------------------------------
(* The invariant holds at the start and every step keeps it.               *)
LEMMA InitInv == Init => IInv
<1> SUFFICES ASSUME Init PROVE IInv
  OBVIOUS
<1>1. /\ DOMAIN admissions = {} /\ DOMAIN operations = {} /\ DOMAIN permits = {}
      /\ DOMAIN nativeLoads = {} /\ DOMAIN nativeUses = {} /\ DOMAIN quarantined = {}
  BY DEF Init, Empty
<1>2. Shape
  <2>1. nextId \in Counters
    BY DEF Init, Counters, Count
  <2> QED
    BY <1>1, <2>1 DEF Init, Shape
<1>3. GrantInv
  BY <1>1 DEF GrantInv, AdmissionsFollowTheGrant
<1>4. PendingInv
  BY <1>1 DEF PendingInv
<1>5. UseInv
  BY <1>1 DEF UseInv, UsesMatchPermits
<1> QED
  BY <1>2, <1>3, <1>4, <1>5 DEF IInv

LEMMA NextInv ==
  ASSUME IInv, [Next]_vars
  PROVE  Holds
<1>1. CASE Poll
  BY <1>1, PollReleaseStep, PollLoadStep, PollEvictStep DEF Poll
<1>2. CASE Caller
  BY <1>2, PrepareStep, CommitStep, DiscardStep, AdmitStep, RetirementStep, BeginUseStep,
     BeginNativeUseStep DEF Caller
<1>3. CASE Owner
  BY <1>3, RevokeStep, ReplaceStep DEF Owner
<1>4. CASE Executor
  BY <1>4, CompleteStep DEF Executor
<1>5. CASE Adapter
  BY <1>5, NativeLoadStep, FinishUseStep, FinishNativeUseStep, QuarantineUseStep, DiscardStep
     DEF Adapter
<1>6. CASE UNCHANGED vars
  BY <1>6, DiscardStep
<1> QED
  BY <1>1, <1>2, <1>3, <1>4, <1>5, <1>6 DEF Next

LEMMA AlwaysInv == Spec => []IInv
<1>1. IInv /\ [Next]_vars => IInv'
  BY NextInv DEF Holds
<1> QED
  BY InitInv, <1>1, PTL DEF Spec

(* Counting what is pending for one admission. *)
LEMMA PendingCounts == IInv => PendingMatchesState
<1> SUFFICES ASSUME IInv PROVE PendingMatchesState
  OBVIOUS
<1>1. \A o \in DOMAIN operations : operations[o].adm \in DOMAIN admissions
  BY DEF IInv, PendingInv
<1>2. \A n \in DOMAIN nativeLoads : nativeLoads[n] \in DOMAIN admissions
  BY DEF IInv, PendingInv
<1>3. Cardinality({}) = 0 /\ \A x : Cardinality({x}) = 1
  BY FS_EmptySet, FS_Singleton
<1>4. ASSUME NEW a \in DOMAIN admissions
      PROVE  /\ Cardinality(PendingFor(a, "load")) + Cardinality(LoadsFor(a))
                  = IF IsLoading(a) THEN 1 ELSE 0
             /\ Cardinality(PendingFor(a, "evict"))
                  = IF admissions[a].state.phase = "evicting" THEN 1 ELSE 0
  <2>1. admissions[a].state \in AdmissionState
    BY DEF IInv, Shape, Entry
  <2>2. ~(LoadState(admissions[a].state) /\ EvictState(admissions[a].state))
    BY <2>1, OneKindOfBusy
  <2>3. /\ IsLoading(a) <=> LoadState(admissions[a].state)
        /\ admissions[a].state.phase = "evicting" <=> EvictState(admissions[a].state)
    BY DEF IsLoading, LoadState, EvictState
  <2>4. \A o \in PendingFor(a, "load") : operations[o].adm = a /\ LoadState(admissions[a].state)
    BY <2>2 DEF PendingFor, IInv, PendingInv
  <2>5. \A o \in PendingFor(a, "evict") : operations[o].adm = a /\ EvictState(admissions[a].state)
    BY <2>2 DEF PendingFor, IInv, PendingInv
  <2>6. \A n \in LoadsFor(a) : nativeLoads[n] = a /\ LoadState(admissions[a].state)
    BY DEF LoadsFor, IInv, PendingInv
  <2>7. CASE LoadState(admissions[a].state)
    <3>1. PendingFor(a, "evict") = {}
      BY <2>2, <2>5, <2>7
    <3>2. \/ \E o : PendingFor(a, "load") = {o} /\ LoadsFor(a) = {}
          \/ \E n : LoadsFor(a) = {n} /\ PendingFor(a, "load") = {}
      <4>1. CASE \E o \in DOMAIN operations : operations[o].adm = a
        <5>1. PICK o \in DOMAIN operations : operations[o].adm = a
          BY <4>1
        <5>2. o \in PendingFor(a, "load")
          BY <2>2, <2>7, <5>1 DEF PendingFor, IInv, PendingInv
        <5>3. \A q \in PendingFor(a, "load") : q = o
          BY <2>4, <5>1 DEF PendingFor, IInv, PendingInv
        <5>4. LoadsFor(a) = {}
          BY <2>6, <5>1 DEF LoadsFor, IInv, PendingInv
        <5> QED
          BY <5>2, <5>3, <5>4
      <4>2. CASE \E n \in DOMAIN nativeLoads : nativeLoads[n] = a
        <5>1. PICK n \in DOMAIN nativeLoads : nativeLoads[n] = a
          BY <4>2
        <5>2. n \in LoadsFor(a) /\ \A m \in LoadsFor(a) : m = n
          BY <5>1 DEF LoadsFor, IInv, PendingInv
        <5>3. PendingFor(a, "load") = {}
          BY <2>4, <5>1 DEF PendingFor, IInv, PendingInv
        <5> QED
          BY <5>2, <5>3
      <4> QED
        BY <2>7, <4>1, <4>2 DEF IInv, PendingInv, Busy
    <3>3. Cardinality(PendingFor(a, "load")) + Cardinality(LoadsFor(a)) = 1
      <4>1. CASE \E o : PendingFor(a, "load") = {o} /\ LoadsFor(a) = {}
        <5>1. Cardinality(PendingFor(a, "load")) = 1 /\ Cardinality(LoadsFor(a)) = 0
          BY <1>3, <4>1, Zenon
        <5> QED
          BY <5>1
      <4>2. CASE \E n : LoadsFor(a) = {n} /\ PendingFor(a, "load") = {}
        <5>1. Cardinality(PendingFor(a, "load")) = 0 /\ Cardinality(LoadsFor(a)) = 1
          BY <1>3, <4>2, Zenon
        <5> QED
          BY <5>1
      <4> QED
        BY <3>2, <4>1, <4>2
    <3> QED
      BY <1>3, <2>2, <2>3, <2>7, <3>1, <3>3
  <2>8. CASE EvictState(admissions[a].state)
    <3>1. PendingFor(a, "load") = {} /\ LoadsFor(a) = {}
      BY <2>2, <2>4, <2>6, <2>8
    <3>2. PICK o \in DOMAIN operations : operations[o].adm = a
      BY <2>2, <2>8 DEF IInv, PendingInv, Busy
    <3>3. o \in PendingFor(a, "evict")
      BY <2>2, <2>8, <3>2 DEF PendingFor, IInv, PendingInv
    <3>4. \A q \in PendingFor(a, "evict") : q = o
      BY <2>5, <3>2 DEF PendingFor, IInv, PendingInv
    <3>5. PendingFor(a, "evict") = {o}
      BY <3>3, <3>4
    <3> QED
      BY <1>3, <2>2, <2>3, <2>8, <3>1, <3>5
  <2>9. CASE ~LoadState(admissions[a].state) /\ ~EvictState(admissions[a].state)
    <3>1. PendingFor(a, "load") = {} /\ LoadsFor(a) = {} /\ PendingFor(a, "evict") = {}
      BY <2>4, <2>5, <2>6, <2>9
    <3> QED
      BY <1>3, <2>3, <2>9, <3>1
  <2> QED
    BY <2>7, <2>8, <2>9
<1> QED
  BY <1>1, <1>2, <1>4 DEF PendingMatchesState

(* Every command of the executor and every native load finds its admission *)
(* in the state it was left in, and no admission waits for an answer       *)
(* nobody owes. *)
THEOREM AnswersFindTheirState == Spec => []PendingMatchesState
BY AlwaysInv, PendingCounts, PTL

(* poll_command, finish_use and the evictions never see a wrong count: an  *)
(* admission counts exactly the permits that point at it, and has any only *)
(* while it holds a resident. *)
THEOREM UsesAreCounted == Spec => []UsesMatchPermits
<1>1. IInv => UsesMatchPermits
  BY DEF IInv, UseInv
<1> QED
  BY <1>1, AlwaysInv, PTL

(* revoke and replace_grant leave nothing behind: under a revoked grant    *)
(* nothing serves or waits to load, and no admission outlives its grant. *)
THEOREM GrantIsFollowed == Spec => []AdmissionsFollowTheGrant
<1>1. IInv => AdmissionsFollowTheGrant
  BY DEF IInv, GrantInv
<1> QED
  BY <1>1, AlwaysInv, PTL

(* An admission told to stop by request_retirement or revoke never serves  *)
(* again, whatever answer arrives late. *)
THEOREM StoppedNeverServes == Spec => NoReturnToService
<1>1. IInv /\ [Next]_vars =>
        [\A a \in DOMAIN admissions \cap DOMAIN admissions' :
           Stopping(a) => Stopping(a)']_vars
  BY NextInv DEF Holds, Stays, Stopping, StopPhases
<1> QED
  BY <1>1, AlwaysInv, PTL DEF Spec, NoReturnToService

------------------------------------------------------------------------------
(* Who owns the leases.  Owners as the rows of six tables.                 *)
Rows(r, f) == {<<r, k, f[k]>> : k \in DOMAIN f}
AdmLeases == [a \in DOMAIN admissions |-> admissions[a].lease]
MutLeases == [n \in DOMAIN nativeUses |-> nativeUses[n].device]
OutLeases == [n \in DOMAIN nativeUses |-> nativeUses[n].retained]
LostMutLeases == [n \in DOMAIN quarantined |-> quarantined[n].device]
LostOutLeases == [n \in DOMAIN quarantined |-> quarantined[n].retained]
ResLeases == [n \in DOMAIN results |-> results[n].device]

UseRows == Rows("mutable", MutLeases) \cup Rows("output", OutLeases)
LostRows == Rows("lost mutable", LostMutLeases) \cup Rows("lost output", LostOutLeases)
AdmRows == Rows("resident", AdmLeases)
ResRows == Rows("result", ResLeases)

(* The owners S share out the leases L. *)
OneEach(S, L) ==
  /\ {o[3].id : o \in S} = DOMAIN L
  /\ \A o \in S : L[o[3].id] = [dev |-> o[3].dev, bytes |-> o[3].bytes]
  /\ \A o1, o2 \in S : o1[3].id = o2[3].id => o1 = o2

OwnInv ==
  /\ ledger.nextId \in Count
  /\ DOMAIN ledger.leases \subseteq 1..(ledger.nextId - 1)
  /\ DOMAIN results \subseteq 1..(nextId.result - 1)
  /\ OneEach(LeaseOwners, ledger.leases)

(* No two admissions hold one resident. *)
ResidentsApart ==
  \A a, b \in DOMAIN admissions :
    admissions[a].state.resident = admissions[b].state.resident
      /\ admissions[a].state.resident # NoHandle => a = b

LEMMA RowsPut ==
  ASSUME NEW r, NEW f, NEW k, NEW v, k \notin DOMAIN f
  PROVE  Rows(r, Put(f, k, v)) = Rows(r, f) \cup {<<r, k, v>>}
BY DEF Rows, Put

LEMMA RowsDrop ==
  ASSUME NEW r, NEW f, NEW k \in DOMAIN f
  PROVE  Rows(r, Drop(f, k)) = Rows(r, f) \ {<<r, k, f[k]>>}
BY DEF Rows, Drop, Restrict

All == AdmRows \cup UseRows \cup LostRows \cup ResRows
Live(S) == {o \in S : o[3] # NoLease}
OwnersFollowRows == LeaseOwners = Live(All)

LEMMA OwnersAreRows == OwnersFollowRows
<1>1. AdmRows = {<<"resident", a, admissions[a].lease>> : a \in DOMAIN admissions}
  BY DEF AdmRows, Rows, AdmLeases
<1>2. UseRows = {<<"mutable", n, nativeUses[n].device>> : n \in DOMAIN nativeUses}
                  \cup {<<"output", n, nativeUses[n].retained>> : n \in DOMAIN nativeUses}
  BY DEF UseRows, Rows, MutLeases, OutLeases
<1>3. LostRows = {<<"lost mutable", n, quarantined[n].device>> : n \in DOMAIN quarantined}
                  \cup {<<"lost output", n, quarantined[n].retained>> : n \in DOMAIN quarantined}
  BY DEF LostRows, Rows, LostMutLeases, LostOutLeases
<1>4. ResRows = {<<"result", n, results[n].device>> : n \in DOMAIN results}
  BY DEF ResRows, Rows, ResLeases
<1> QED
  BY <1>1, <1>2, <1>3, <1>4 DEF LeaseOwners, OwnersFollowRows, All, Live

LEMMA OwnersAreRowsNext == OwnersFollowRows'
BY OwnersAreRows, PTL

LEMMA OneEachGrows ==
  ASSUME NEW S, NEW L, NEW N, NEW M, OneEach(S, L),
         DOMAIN M = DOMAIN L \cup {o[3].id : o \in N},
         \A i \in DOMAIN L : M[i] = L[i],
         \A o \in N : o[3].id \notin DOMAIN L /\ M[o[3].id] = [dev |-> o[3].dev, bytes |-> o[3].bytes],
         \A o1, o2 \in N : o1[3].id = o2[3].id => o1 = o2
  PROVE  OneEach(S \cup N, M)
<1>1. \A o \in S : o[3].id \in DOMAIN L
  BY DEF OneEach
<1>2. {o[3].id : o \in S \cup N} = DOMAIN M
  BY DEF OneEach
<1>3. \A o \in S \cup N : M[o[3].id] = [dev |-> o[3].dev, bytes |-> o[3].bytes]
  BY <1>1 DEF OneEach
<1>4. \A o1, o2 \in S \cup N : o1[3].id = o2[3].id => o1 = o2
  BY <1>1 DEF OneEach
<1> QED
  BY <1>2, <1>3, <1>4 DEF OneEach

LEMMA OneEachShrinks ==
  ASSUME NEW S, NEW L, NEW o \in S, NEW M, OneEach(S, L),
         DOMAIN M = DOMAIN L \ {o[3].id},
         \A i \in DOMAIN M : M[i] = L[i]
  PROVE  OneEach(S \ {o}, M)
<1>1. \A x \in S \ {o} : x[3].id \in DOMAIN M
  BY DEF OneEach
<1>2. {x[3].id : x \in S \ {o}} = DOMAIN M
  BY <1>1 DEF OneEach
<1>3. \A x \in S \ {o} : M[x[3].id] = [dev |-> x[3].dev, bytes |-> x[3].bytes]
  BY <1>1 DEF OneEach
<1> QED
  BY <1>2, <1>3 DEF OneEach

(* An owner hands its lease to another one. *)
LEMMA OneEachMoves ==
  ASSUME NEW S, NEW L, NEW o \in S, NEW p, p \notin S, p[3] = o[3], OneEach(S, L)
  PROVE  OneEach((S \ {o}) \cup {p}, L)
<1> DEFINE T == (S \ {o}) \cup {p}
<1>1. {x[3].id : x \in T} = DOMAIN L
  <2>1. \A x \in T : x[3].id \in DOMAIN L
    BY DEF OneEach
  <2>2. ASSUME NEW i \in DOMAIN L PROVE \E x \in T : x[3].id = i
    <3>1. PICK y \in S : y[3].id = i
      BY DEF OneEach
    <3> QED
      BY <3>1
  <2> HIDE DEF T
  <2> QED
    BY <2>1, <2>2
<1>2. \A x \in T : L[x[3].id] = [dev |-> x[3].dev, bytes |-> x[3].bytes]
  BY DEF OneEach
<1>3. \A x, y \in T : x[3].id = y[3].id => x = y
  BY DEF OneEach
<1> QED
  BY <1>1, <1>2, <1>3 DEF OneEach

LEMMA LiveMoves ==
  ASSUME NEW S, NEW L, NEW o \in S, NEW p, p \notin S, p[3] = o[3], OneEach(Live(S), L)
  PROVE  OneEach(Live((S \ {o}) \cup {p}), L)
<1>1. CASE o[3] = NoLease
  <2>1. Live((S \ {o}) \cup {p}) = Live(S)
    BY <1>1 DEF Live
  <2> QED
    BY <2>1
<1>2. CASE o[3] # NoLease
  <2>1. Live((S \ {o}) \cup {p}) = (Live(S) \ {o}) \cup {p} /\ o \in Live(S) /\ p \notin Live(S)
    BY <1>2 DEF Live
  <2>2. PICK T : T = Live(S)
    OBVIOUS
  <2>3. OneEach((T \ {o}) \cup {p}, L)
    BY <2>1, <2>2, OneEachMoves
  <2> QED
    BY <2>1, <2>2, <2>3
<1> QED
  BY <1>1, <1>2

LEMMA LiveDrops ==
  ASSUME NEW S, NEW o
  PROVE  /\ Live(S \ {o}) = Live(S) \ {o}
         /\ o[3] = NoLease => Live(S \ {o}) = Live(S)
         /\ o \in S /\ o[3] # NoLease => o \in Live(S)
BY DEF Live

(* The tables of uses, lost uses and results. *)
LEMMA RowsFollowTables ==
  /\ UNCHANGED nativeUses => UseRows' = UseRows
  /\ UNCHANGED quarantined => LostRows' = LostRows
  /\ UNCHANGED results => ResRows' = ResRows
  /\ AdmLeases' = AdmLeases => AdmRows' = AdmRows
BY DEF AdmRows, UseRows, LostRows, ResRows, Rows, MutLeases, OutLeases,
       LostMutLeases, LostOutLeases, ResLeases

LEMMA UseRowsBegun ==
  ASSUME NEW k, NEW u, k \notin DOMAIN nativeUses, nativeUses' = Put(nativeUses, k, u)
  PROVE  UseRows' = UseRows \cup {<<"mutable", k, u.device>>, <<"output", k, u.retained>>}
<1>1. MutLeases' = Put(MutLeases, k, u.device) /\ k \notin DOMAIN MutLeases
  BY DEF MutLeases, Put
<1>2. OutLeases' = Put(OutLeases, k, u.retained) /\ k \notin DOMAIN OutLeases
  BY DEF OutLeases, Put
<1>3. Rows("mutable", MutLeases') = Rows("mutable", MutLeases) \cup {<<"mutable", k, u.device>>}
  BY <1>1, RowsPut
<1>4. Rows("output", OutLeases') = Rows("output", OutLeases) \cup {<<"output", k, u.retained>>}
  BY <1>2, RowsPut
<1> QED
  BY <1>3, <1>4 DEF UseRows, Rows

LEMMA UseRowsEnded ==
  ASSUME NEW m \in DOMAIN nativeUses, NEW u, u = nativeUses[m], nativeUses' = Drop(nativeUses, m)
  PROVE  /\ UseRows' = UseRows \ {<<"mutable", m, u.device>>, <<"output", m, u.retained>>}
         /\ <<"mutable", m, u.device>> \in UseRows /\ <<"output", m, u.retained>> \in UseRows
<1>1. MutLeases' = Drop(MutLeases, m) /\ m \in DOMAIN MutLeases /\ MutLeases[m] = u.device
  BY DEF MutLeases, Drop, Restrict
<1>2. OutLeases' = Drop(OutLeases, m) /\ m \in DOMAIN OutLeases /\ OutLeases[m] = u.retained
  BY DEF OutLeases, Drop, Restrict
<1>3. Rows("mutable", MutLeases') = Rows("mutable", MutLeases) \ {<<"mutable", m, u.device>>}
  BY <1>1, RowsDrop
<1>4. Rows("output", OutLeases') = Rows("output", OutLeases) \ {<<"output", m, u.retained>>}
  BY <1>2, RowsDrop
<1>5. <<"mutable", m, u.device>> \in Rows("mutable", MutLeases)
      /\ <<"output", m, u.retained>> \in Rows("output", OutLeases)
  BY <1>1, <1>2 DEF Rows
<1>6. <<"mutable", m, u.device>> \notin Rows("output", OutLeases)
      /\ <<"output", m, u.retained>> \notin Rows("mutable", MutLeases)
  BY DEF Rows
<1>7. UseRows' = Rows("mutable", MutLeases') \cup Rows("output", OutLeases')
  BY DEF UseRows, Rows
<1> QED
  BY <1>3, <1>4, <1>5, <1>6, <1>7 DEF UseRows

LEMMA LostRowsGrow ==
  ASSUME NEW k, NEW u, k \notin DOMAIN quarantined, quarantined' = Put(quarantined, k, u)
  PROVE  LostRows' = LostRows \cup {<<"lost mutable", k, u.device>>, <<"lost output", k, u.retained>>}
<1>1. LostMutLeases' = Put(LostMutLeases, k, u.device) /\ k \notin DOMAIN LostMutLeases
  BY DEF LostMutLeases, Put
<1>2. LostOutLeases' = Put(LostOutLeases, k, u.retained) /\ k \notin DOMAIN LostOutLeases
  BY DEF LostOutLeases, Put
<1>3. ASSUME NEW r
      PROVE  /\ Rows(r, LostMutLeases') = Rows(r, LostMutLeases) \cup {<<r, k, u.device>>}
             /\ Rows(r, LostOutLeases') = Rows(r, LostOutLeases) \cup {<<r, k, u.retained>>}
  BY <1>1, <1>2, RowsPut
<1>4. LostRows' = Rows("lost mutable", LostMutLeases') \cup Rows("lost output", LostOutLeases')
  BY DEF LostRows, Rows
<1> QED
  BY <1>3, <1>4 DEF LostRows

(* A step that leaves the leases with their owners. *)
LEMMA OwnersQuiet ==
  ASSUME OwnInv, UNCHANGED <<ledger, nativeUses, quarantined, results>>,
         AdmLeases' = AdmLeases, nextId'.result = nextId.result
  PROVE  OwnInv'
<1>1. All' = All
  BY RowsFollowTables DEF All
<1>2. LeaseOwners' = LeaseOwners
  BY <1>1, OwnersAreRows, OwnersAreRowsNext DEF OwnersFollowRows, Live
<1> QED
  BY <1>2 DEF OwnInv

(* release_lease takes one lease off the ledger. *)
LEMMA ReleaseTakesOne ==
  ASSUME OwnInv, NEW S, NEW o \in S, OneEach(Live(S), ledger.leases),
         o[3].id \in DOMAIN ledger.leases, ledger' = Release(ledger, o[3].id)
  PROVE  /\ OneEach(Live(S \ {o}), ledger'.leases)
         /\ ledger'.nextId \in Count
         /\ DOMAIN ledger'.leases \subseteq 1..(ledger'.nextId - 1)
<1>1. /\ ledger'.nextId = ledger.nextId
      /\ DOMAIN ledger'.leases = DOMAIN ledger.leases \ {o[3].id}
      /\ \A i \in DOMAIN ledger'.leases : ledger'.leases[i] = ledger.leases[i]
  BY DEF Release
<1>2. o[3] # NoLease
  BY DEF OwnInv, NoLease, Count
<1>3. o \in Live(S) /\ Live(S \ {o}) = Live(S) \ {o}
  BY <1>2, LiveDrops
<1>4. OneEach(Live(S \ {o}), ledger'.leases)
  <2>1. PICK T, L, M : T = Live(S) /\ L = ledger.leases /\ M = ledger'.leases
    OBVIOUS
  <2>2. o \in T /\ OneEach(T, L) /\ DOMAIN M = DOMAIN L \ {o[3].id} /\ \A i \in DOMAIN M : M[i] = L[i]
    BY <1>1, <1>3, <2>1
  <2>3. OneEach(T \ {o}, M)
    BY <2>2, OneEachShrinks
  <2> QED
    BY <1>3, <2>1, <2>3
<1> QED
  BY <1>1, <1>4 DEF OwnInv

(* release_admission takes one owner and its lease. *)
LEMMA OwnersReleased ==
  ASSUME OwnInv, NEW a \in DOMAIN admissions, ReleaseAdmission(a),
         UNCHANGED <<nativeUses, quarantined, results, nextId>>
  PROVE  OwnInv'
<1>1. PICK o : o = <<"resident", a, admissions[a].lease>>
  OBVIOUS
<1>2. /\ o[3].id \in DOMAIN ledger.leases
      /\ ledger' = Release(ledger, o[3].id)
      /\ admissions' = Drop(admissions, a)
  BY <1>1 DEF ReleaseAdmission, Takeable, CanRelease
<1>3. AdmRows' = AdmRows \ {o}
  <2>1. AdmLeases' = Drop(AdmLeases, a)
    BY <1>2 DEF AdmLeases, Drop, Restrict
  <2>2. a \in DOMAIN AdmLeases /\ AdmLeases[a] = admissions[a].lease
    BY DEF AdmLeases
  <2>3. AdmRows' = Rows("resident", AdmLeases')
    BY DEF AdmRows, Rows
  <2> QED
    BY <1>1, <2>1, <2>2, <2>3, RowsDrop DEF AdmRows
<1>4. o \in AdmRows
  BY <1>1 DEF AdmRows, Rows, AdmLeases
<1>5. o \notin UseRows \cup LostRows \cup ResRows
  BY <1>1 DEF UseRows, LostRows, ResRows, Rows
<1>6. o \in All /\ All' = All \ {o}
  BY <1>3, <1>4, <1>5, RowsFollowTables DEF All
<1>7. OneEach(Live(All), ledger.leases)
  BY OwnersAreRows DEF OwnInv, OwnersFollowRows
<1>8. PICK S : S = All
  OBVIOUS
<1>9. /\ OneEach(Live(S \ {o}), ledger'.leases)
      /\ ledger'.nextId \in Count
      /\ DOMAIN ledger'.leases \subseteq 1..(ledger'.nextId - 1)
  BY <1>2, <1>6, <1>7, <1>8, ReleaseTakesOne
<1>10. LeaseOwners' = Live(S \ {o})
  BY <1>6, <1>8, OwnersAreRowsNext DEF OwnersFollowRows, Live
<1> QED
  BY <1>9, <1>10 DEF OwnInv

(* Only a changes its resident, and to one that nobody else has. *)
LEMMA ApartStep ==
  ASSUME ResidentsApart, NEW a,
         \A b \in DOMAIN admissions' \ {a} :
           \/ admissions'[b].state.resident = NoHandle
           \/ /\ b \in DOMAIN admissions
              /\ admissions'[b].state.resident = admissions[b].state.resident,
         a \in DOMAIN admissions' =>
           \/ admissions'[a].state.resident = NoHandle
           \/ /\ a \in DOMAIN admissions
              /\ admissions'[a].state.resident = admissions[a].state.resident
           \/ ~InCustody(admissions'[a].state.resident)
  PROVE  ResidentsApart'
<1> DEFINE res(b) == admissions'[b].state.resident
<1>1. ASSUME NEW b \in DOMAIN admissions', NEW c \in DOMAIN admissions', b # a, c # a,
             res(b) = res(c), res(b) # NoHandle
      PROVE  b = c
  BY <1>1 DEF ResidentsApart
<1>2. ASSUME NEW c \in DOMAIN admissions', c # a, a \in DOMAIN admissions',
             res(a) = res(c), res(a) # NoHandle
      PROVE  FALSE
  <2>1. c \in DOMAIN admissions /\ res(c) = admissions[c].state.resident
    BY <1>2
  <2>2. a \in DOMAIN admissions /\ res(a) = admissions[a].state.resident
    BY <1>2, <2>1 DEF InCustody
  <2> QED
    BY <1>2, <2>1, <2>2 DEF ResidentsApart
<1> QED
  BY <1>1, <1>2 DEF ResidentsApart

LEMMA SetStateKeeps ==
  ASSUME Shape, ResidentsApart, NEW a \in DOMAIN admissions, NEW st, admissions' = SetState(a, st),
         \/ st.resident = NoHandle
         \/ st.resident = admissions[a].state.resident
         \/ ~InCustody(st.resident)
  PROVE  AdmLeases' = AdmLeases /\ ResidentsApart'
<1>1. DOMAIN admissions' = DOMAIN admissions
  BY DEF SetState
<1>2. ASSUME NEW b \in DOMAIN admissions
      PROVE  /\ admissions'[b].lease = admissions[b].lease
             /\ b = a => admissions'[b].state = st
             /\ b # a => admissions'[b] = admissions[b]
  <2>1. admissions'[b] = IF b = a THEN [admissions[a] EXCEPT !.state = st] ELSE admissions[b]
    BY DEF SetState
  <2>2. Entry(admissions[b])
    BY DEF Shape
  <2> QED
    BY <2>1, <2>2 DEF Entry
<1>3. AdmLeases' = AdmLeases
  BY <1>1, <1>2 DEF AdmLeases
<1>4. ResidentsApart'
  BY <1>1, <1>2, ApartStep
<1> QED
  BY <1>3, <1>4

(* Beginning and ending a use leaves the resident and the lease. *)
LEMMA UseKeeps ==
  ASSUME Shape, ResidentsApart, NEW a \in DOMAIN admissions,
         admissions' = InUse(a) \/ admissions' = Finished(a)
  PROVE  AdmLeases' = AdmLeases /\ ResidentsApart'
<1>1. DOMAIN admissions' = DOMAIN admissions
  BY DEF InUse, Finished
<1>2. PICK st, n : /\ st.resident = admissions[a].state.resident
                   /\ \A b \in DOMAIN admissions :
                        admissions'[b] = IF b = a THEN [admissions[a] EXCEPT !.uses = n, !.state = st]
                                         ELSE admissions[b]
  <2>1. CASE admissions' = InUse(a)
    <3>1. PICK st, n : st = Holding("inuse", admissions[a].state.resident) /\ n = admissions[a].uses + 1
      OBVIOUS
    <3>2. st.resident = admissions[a].state.resident
      BY <3>1 DEF Holding
    <3>3. \A b \in DOMAIN admissions :
            admissions'[b] = IF b = a THEN [admissions[a] EXCEPT !.uses = n, !.state = st]
                             ELSE admissions[b]
      BY <2>1, <3>1 DEF InUse
    <3> QED
      BY <3>2, <3>3
  <2>2. CASE admissions' = Finished(a)
    <3>1. PICK n : n = admissions[a].uses - 1
      OBVIOUS
    <3>2. PICK st : st = FinishedState(admissions[a].state, n)
      OBVIOUS
    <3>3. st.resident = admissions[a].state.resident
      BY <3>2 DEF FinishedState, Holding
    <3>4. \A b \in DOMAIN admissions :
            admissions'[b] = IF b = a THEN [admissions[a] EXCEPT !.uses = n, !.state = st]
                             ELSE admissions[b]
      BY <2>2, <3>1, <3>2 DEF Finished
    <3> QED
      BY <3>3, <3>4
  <2> QED
    BY <2>1, <2>2
<1>3. ASSUME NEW b \in DOMAIN admissions
      PROVE  /\ admissions'[b].lease = admissions[b].lease
             /\ admissions'[b].state.resident = admissions[b].state.resident
  <2>1. Entry(admissions[b])
    BY DEF Shape
  <2> QED
    BY <1>2, <2>1 DEF Entry
<1>4. AdmLeases' = AdmLeases
  BY <1>1, <1>3 DEF AdmLeases
<1>5. ResidentsApart'
  BY <1>1, <1>3 DEF ResidentsApart
<1> QED
  BY <1>4, <1>5

OwnersHold == OwnInv' /\ ResidentsApart'

LEMMA QuietOwn ==
  ASSUME IInv, OwnInv, ResidentsApart,
         AdmLeases' = AdmLeases /\ ResidentsApart',
         UNCHANGED <<ledger, nativeUses, quarantined, results>>,
         nextId'.result = nextId.result
  PROVE  OwnersHold
BY OwnersQuiet DEF OwnersHold

LEMMA IdleOwn ==
  ASSUME IInv, OwnInv, ResidentsApart,
         UNCHANGED <<admissions, ledger, nativeUses, quarantined, results, nextId>>
  PROVE  OwnersHold
<1>1. AdmLeases' = AdmLeases /\ ResidentsApart'
  BY DEF AdmLeases, ResidentsApart
<1> QED
  BY <1>1, QuietOwn

LEMMA ReleaseOwn ==
  ASSUME IInv, OwnInv, ResidentsApart, NEW a \in DOMAIN admissions, ReleaseAdmission(a),
         UNCHANGED <<uses, nextId>>
  PROVE  OwnersHold
<1>1. Gone(a)
  BY ReleaseGone
<1>2. ResidentsApart'
  BY <1>1, ApartStep DEF Gone
<1>3. OwnInv'
  BY OwnersReleased DEF uses
<1> QED
  BY <1>2, <1>3 DEF OwnersHold

LEMMA StateOwn ==
  ASSUME IInv, OwnInv, ResidentsApart, NEW a \in DOMAIN admissions, NEW st,
         admissions' = SetState(a, st),
         \/ st.resident = NoHandle
         \/ st.resident = admissions[a].state.resident
         \/ ~InCustody(st.resident),
         UNCHANGED <<ledger, uses>>, nextId'.result = nextId.result
  PROVE  OwnersHold
<1>1. AdmLeases' = AdmLeases /\ ResidentsApart'
  BY SetStateKeeps DEF IInv
<1> QED
  BY <1>1, QuietOwn DEF uses

(* poll_command and complete. *)
LEMMA PollOwn ==
  ASSUME IInv, OwnInv, ResidentsApart, Poll
  PROVE  OwnersHold
<1>1. nextId \in Counters
  BY DEF IInv, Shape
<1>2. CASE PollRelease
  <2>1. PICK a \in LocalReleases : ReleaseAdmission(a)
    BY <1>2 DEF PollRelease
  <2>2. a \in DOMAIN admissions /\ UNCHANGED <<uses, nextId>>
    BY <1>2 DEF LocalReleases, PollRelease
  <2> QED
    BY <2>1, <2>2, ReleaseOwn
<1>3. ASSUME NEW a \in DOMAIN admissions, NEW kind, NEW st, Issue(a, kind, st),
             st.resident = NoHandle \/ st.resident = admissions[a].state.resident
      PROVE  OwnersHold
  <2>1. nextId'.result = nextId.result
    BY <1>1, <1>3 DEF Issue, Counters
  <2>2. UNCHANGED <<ledger, uses>> /\ admissions' = SetState(a, st)
    BY <1>3 DEF Issue, accounts
  <2> QED
    BY <1>3, <2>1, <2>2, StateOwn
<1>4. CASE PollLoad
  <2>1. PICK a \in Loadable : Issue(a, "load", Plain("loading"))
    BY <1>4 DEF PollLoad
  <2>2. a \in DOMAIN admissions /\ Plain("loading").resident = NoHandle
    BY DEF Loadable, Plain
  <2> QED
    BY <1>3, <2>1, <2>2
<1>5. CASE PollEvict
  <2>1. PICK a \in Evictable : Issue(a, "evict", Holding("evicting", admissions[a].state.resident))
    BY <1>5 DEF PollEvict
  <2>2. PICK st : st = Holding("evicting", admissions[a].state.resident)
    OBVIOUS
  <2>3. a \in DOMAIN admissions /\ st.resident = admissions[a].state.resident
    BY <2>2 DEF Evictable, Holding
  <2> QED
    BY <1>3, <2>1, <2>2, <2>3
<1> QED
  BY <1>2, <1>4, <1>5 DEF Poll

LEMMA LoadedResident ==
  ASSUME NEW a, NEW h PROVE LoadedState(a, h).resident = h
BY DEF LoadedState, Holding

LEMMA CompleteOwn ==
  ASSUME IInv, OwnInv, ResidentsApart, NEW o \in DOMAIN operations, Complete(o)
  PROVE  OwnersHold
<1>1. PICK a : a = operations[o].adm
  OBVIOUS
<1>2. a \in DOMAIN admissions /\ UNCHANGED <<uses, nextId>>
  BY <1>1 DEF IInv, PendingInv, Complete
<1>3. CASE \E h \in Handle : Loaded(o, h)
  <2>1. PICK h \in Handle : Loaded(o, h)
    BY <1>3
  <2>2. PICK st : st = LoadedState(a, h)
    OBVIOUS
  <2>3. /\ admissions' = SetState(a, st) /\ ~InCustody(h) /\ UNCHANGED ledger
    BY <1>1, <2>1, <2>2 DEF Loaded, accounts
  <2>4. st.resident = h
    BY <2>2, LoadedResident
  <2> QED
    BY <1>2, <2>3, <2>4, StateOwn
<1>4. CASE ReleasedBy(o, "load") \/ ReleasedBy(o, "evict")
  <2>1. ReleaseAdmission(a)
    BY <1>1, <1>4 DEF ReleasedBy
  <2> QED
    BY <1>2, <2>1, ReleaseOwn
<1>5. CASE QuarantinedBy(o, "load") \/ QuarantinedBy(o, "evict") \/ EvictFailed(o)
  <2>1. PICK p : /\ admissions' = SetState(a, Holding(p, admissions[a].state.resident))
                 /\ UNCHANGED ledger
    BY <1>1, <1>5 DEF QuarantinedBy, EvictFailed, accounts
  <2>2. PICK st : st = Holding(p, admissions[a].state.resident)
    OBVIOUS
  <2>3. st.resident = admissions[a].state.resident
    BY <2>2 DEF Holding
  <2> QED
    BY <1>2, <2>1, <2>2, <2>3, StateOwn
<1> QED
  BY <1>3, <1>4, <1>5 DEF Complete

LEMMA NativeLoadOwn ==
  ASSUME IInv, OwnInv, ResidentsApart, NEW n \in DOMAIN nativeLoads, NativeLoadEnds(n)
  PROVE  OwnersHold
<1>1. PICK a : a = nativeLoads[n]
  OBVIOUS
<1>2. a \in DOMAIN admissions /\ UNCHANGED <<uses, nextId>>
  BY <1>1 DEF IInv, PendingInv, NativeLoadEnds, CompleteNativeLoad, NativeLoadReleased,
              QuarantineNativeLoad
<1>3. CASE \E h \in Handle : CompleteNativeLoad(n, h)
  <2>1. PICK h \in Handle : CompleteNativeLoad(n, h)
    BY <1>3
  <2>2. PICK st : st = LoadedState(a, h)
    OBVIOUS
  <2>3. /\ admissions' = SetState(a, st) /\ ~InCustody(h) /\ UNCHANGED ledger
    BY <1>1, <2>1, <2>2 DEF CompleteNativeLoad, accounts
  <2>4. st.resident = h
    BY <2>2, LoadedResident
  <2> QED
    BY <1>2, <2>3, <2>4, StateOwn
<1>4. CASE NativeLoadReleased(n)
  <2>1. ReleaseAdmission(a)
    BY <1>1, <1>4 DEF NativeLoadReleased
  <2> QED
    BY <1>2, <2>1, ReleaseOwn
<1>5. CASE QuarantineNativeLoad(n)
  <2>1. PICK st : st = Plain("quarantined")
    OBVIOUS
  <2>2. admissions' = SetState(a, st) /\ UNCHANGED ledger /\ st.resident = NoHandle
    BY <1>1, <1>5, <2>1 DEF QuarantineNativeLoad, accounts, Plain
  <2> QED
    BY <1>2, <2>2, StateOwn
<1> QED
  BY <1>3, <1>4, <1>5 DEF NativeLoadEnds

LEMMA ToDrainingKeeps ==
  ASSUME NEW st \in AdmissionState
  PROVE  ToDraining(st).resident = NoHandle \/ ToDraining(st).resident = st.resident
BY PlainFacts DEF ToDraining, Holding

LEMMA OwnerOwn ==
  ASSUME IInv, OwnInv, ResidentsApart, Owner
  PROVE  OwnersHold
<1>1. CASE Revoke
  <2>1. /\ DOMAIN admissions' = DOMAIN admissions
        /\ UNCHANGED <<ledger, uses, nextId>>
    BY <1>1 DEF Revoke, accounts
  <2>2. ASSUME NEW b \in DOMAIN admissions
        PROVE  /\ admissions'[b].lease = admissions[b].lease
               /\ \/ admissions'[b].state.resident = NoHandle
                  \/ admissions'[b].state.resident = admissions[b].state.resident
    <3>1. PICK st \in AdmissionState : st = admissions[b].state
      BY DEF IInv, Shape, Entry
    <3>2. /\ Entry(admissions[b])
          /\ admissions'[b] = [admissions[b] EXCEPT !.state = ToDraining(st)]
      BY <1>1, <3>1 DEF Revoke, IInv, Shape
    <3>3. admissions'[b].lease = admissions[b].lease /\ admissions'[b].state = ToDraining(st)
      BY <3>2 DEF Entry
    <3> QED
      BY <3>1, <3>3, ToDrainingKeeps
  <2>3. AdmLeases' = AdmLeases
    BY <2>1, <2>2 DEF AdmLeases
  <2>4. ResidentsApart'
    BY <2>1, <2>2 DEF ResidentsApart
  <2> QED
    BY <2>1, <2>3, <2>4, QuietOwn DEF uses
<1>2. CASE \E g \in Grants : ReplaceGrant(g)
  <2>1. PICK g \in Grants : ReplaceGrant(g)
    BY <1>2
  <2>2. /\ ledger' = NewLedger(g)
        /\ DOMAIN admissions' = {} /\ DOMAIN nativeUses' = {} /\ DOMAIN quarantined' = {}
        /\ DOMAIN results' = {}
    BY <2>1 DEF ReplaceGrant, Drained, uses
  <2>3. DOMAIN ledger'.leases = {} /\ ledger'.nextId = 1
    BY <2>2 DEF NewLedger
  <2>4. LeaseOwners' = {}
    BY <2>2 DEF LeaseOwners
  <2>5. OneEach(LeaseOwners', ledger'.leases)
    BY <2>3, <2>4 DEF OneEach
  <2> QED
    BY <2>2, <2>3, <2>5 DEF OwnersHold, OwnInv, ResidentsApart, Count
<1> QED
  BY <1>1, <1>2 DEF Owner

(* The owners S share out the leases that the batch ps brings from c on. *)
SharedOut(S, ps, c) ==
  /\ \A o \in S : /\ o[3].id \in c..(c + Len(ps) - 1)
                  /\ ps[o[3].id - c + 1] = [dev |-> o[3].dev, bytes |-> o[3].bytes]
  /\ \A i \in c..(c + Len(ps) - 1) : \E o \in S : o[3].id = i
  /\ \A o1, o2 \in S : o1[3].id = o2[3].id => o1 = o2

(* A reserved batch brings one lease for each of the new owners. *)
LEMMA OwnersGrow ==
  ASSUME OwnInv, NEW batch, Len(batch) \in Nat, ledger' = Reserve(ledger, batch),
         NEW X, All' = All \cup X, SharedOut(Live(X), batch, ledger.nextId),
         DOMAIN results' \subseteq 1..(nextId'.result - 1)
  PROVE  OwnInv'
<1>1. PICK c \in Nat : c = ledger.nextId /\ 1 <= c
  BY DEF OwnInv, Count
<1>2. PICK len \in Nat : len = Len(batch)
  OBVIOUS
<1>3. PICK N, new : N = Live(X) /\ new = NewIds(ledger, batch)
  OBVIOUS
<1>4. new = c..(c + len - 1) /\ SharedOut(N, batch, c)
  BY <1>1, <1>2, <1>3 DEF NewIds
<1>5. \A i \in new : i \notin DOMAIN ledger.leases
  BY <1>1, <1>4 DEF OwnInv
<1>6. /\ DOMAIN ledger'.leases = DOMAIN ledger.leases \cup new
      /\ \A i \in new : ledger'.leases[i] = batch[i - c + 1]
      /\ ledger'.nextId = c + len
      /\ \A i \in DOMAIN ledger.leases \ new : ledger'.leases[i] = ledger.leases[i]
  BY <1>1, <1>2, <1>3 DEF Reserve
<1>7. \A i \in DOMAIN ledger.leases : ledger'.leases[i] = ledger.leases[i]
  BY <1>5, <1>6
<1>8. {o[3].id : o \in N} = new
  <2>1. (\A o \in N : o[3].id \in new) /\ (\A i \in new : \E o \in N : o[3].id = i)
    BY <1>2, <1>4 DEF SharedOut
  <2> QED
    BY <2>1
<1>9. LeaseOwners' = LeaseOwners \cup N
  BY <1>3, OwnersAreRows, OwnersAreRowsNext DEF OwnersFollowRows, Live
<1>10. ledger'.nextId \in Count /\ DOMAIN ledger'.leases \subseteq 1..(ledger'.nextId - 1)
  <2>1. DOMAIN ledger.leases \subseteq 1..(c - 1)
    BY <1>1 DEF OwnInv
  <2> QED
    BY <1>1, <1>4, <1>6, <2>1 DEF Count
<1>11. OneEach(LeaseOwners', ledger'.leases)
  <2>1. PICK S, L, M : S = LeaseOwners /\ L = ledger.leases /\ M = ledger'.leases
    OBVIOUS
  <2>2. OneEach(S, L)
    BY <2>1 DEF OwnInv
  <2>3. DOMAIN M = DOMAIN L \cup {o[3].id : o \in N} /\ \A i \in DOMAIN L : M[i] = L[i]
    BY <1>6, <1>7, <1>8, <2>1
  <2>4. \A o \in N : o[3].id \notin DOMAIN L /\ M[o[3].id] = [dev |-> o[3].dev, bytes |-> o[3].bytes]
    BY <1>2, <1>4, <1>5, <1>6, <2>1 DEF SharedOut
  <2>5. OneEach(S \cup N, M)
    BY <1>4, <2>2, <2>3, <2>4, OneEachGrows DEF SharedOut
  <2> QED
    BY <1>9, <2>1, <2>5
<1> QED
  BY <1>10, <1>11 DEF OwnInv

LEMMA LeaseFacts ==
  ASSUME NEW i, NEW d, NEW n
  PROVE  /\ LeaseOf(i, d, n).id = i /\ LeaseOf(i, d, n).dev = d /\ LeaseOf(i, d, n).bytes = n
         /\ NoLease.id = 0
         /\ i # 0 => LeaseOf(i, d, n) # NoLease
BY DEF LeaseOf, NoLease

(* The leases of a batch of placements, under the admissions from k on, and *)
(* the owners they make: each of those holds one new lease with its bytes.   *)
BatchLease(ps, k, c) ==
  [a \in k..(k + Len(ps) - 1) |-> LeaseOf(c + (a - k), ps[a - k + 1].dev, ps[a - k + 1].bytes)]
BatchOwners(ps, k, c) ==
  {<<"resident", a, BatchLease(ps, k, c)[a]>> : a \in k..(k + Len(ps) - 1)}

LEMMA BatchRows ==
  ASSUME NEW ps \in Seq(Placement), NEW k \in Nat, NEW c \in Nat, 1 <= c
  PROVE  /\ Live(BatchOwners(ps, k, c)) = BatchOwners(ps, k, c)
         /\ SharedOut(BatchOwners(ps, k, c), ps, c)
<1>1. PICK len \in Nat : len = Len(ps) /\ DOMAIN ps = 1..len
  OBVIOUS
<1>2. \A i \in 1..len : ps[i] \in [dev : Device, bytes : Word]
  <2>1. \A i \in 1..len : ps[i] \in Placement
    BY <1>1
  <2> QED
    BY <2>1 DEF Placement
<1>3. PICK new, r, lease : new = k..(k + len - 1) /\ r = "resident" /\ lease = BatchLease(ps, k, c)
  OBVIOUS
<1>4. \A a \in new : lease[a] = LeaseOf(c + (a - k), ps[a - k + 1].dev, ps[a - k + 1].bytes)
  BY <1>1, <1>3 DEF BatchLease
<1>5. PICK Y : Y = BatchOwners(ps, k, c)
  OBVIOUS
<1>6. Y = {<<r, a, lease[a]>> : a \in new}
  BY <1>1, <1>3, <1>5 DEF BatchOwners
<1>7. ASSUME NEW a \in new
      PROVE  /\ lease[a].id = c + (a - k) /\ lease[a] # NoLease
             /\ lease[a].id \in c..(c + len - 1) /\ lease[a].id - c + 1 = a - k + 1
             /\ ps[a - k + 1] = [dev |-> lease[a].dev, bytes |-> lease[a].bytes]
  <2>1. /\ a - k + 1 \in 1..len /\ c + (a - k) # 0
        /\ c + (a - k) \in c..(c + len - 1) /\ c + (a - k) - c + 1 = a - k + 1
    BY <1>3
  <2>2. PICK p \in [dev : Device, bytes : Word] : p = ps[a - k + 1]
    BY <1>2, <2>1
  <2>3. PICK i \in Nat : i = c + (a - k)
    BY <1>3
  <2>4. p = [dev |-> p.dev, bytes |-> p.bytes]
    BY <2>2
  <2>5. lease[a] = LeaseOf(i, p.dev, p.bytes) /\ i # 0
    BY <1>4, <2>1, <2>2, <2>3
  <2>6. lease[a].id = i /\ lease[a].dev = p.dev /\ lease[a].bytes = p.bytes /\ lease[a] # NoLease
    BY <2>5, LeaseFacts
  <2>7. [dev |-> lease[a].dev, bytes |-> lease[a].bytes] = p
    BY <2>4, <2>6
  <2>8. i \in c..(c + len - 1) /\ i - c + 1 = a - k + 1
    BY <1>3, <2>3
  <2> QED
    BY <2>2, <2>3, <2>6, <2>7, <2>8
<1>8. \A o \in Y : \E a \in new : o = <<r, a, lease[a]>> /\ o[2] = a /\ o[3] = lease[a]
  BY <1>6
<1>9. Live(Y) = Y
  <2>1. ASSUME NEW o \in Y PROVE o[3] # NoLease
    <3>1. PICK a \in new : o[3] = lease[a]
      BY <1>8
    <3> QED
      BY <1>7, <3>1
  <2> QED
    BY <2>1 DEF Live
<1>10. \A o \in Y : /\ o[3].id \in c..(c + len - 1)
                   /\ ps[o[3].id - c + 1] = [dev |-> o[3].dev, bytes |-> o[3].bytes]
  <2> SUFFICES ASSUME NEW o \in Y
               PROVE  /\ o[3].id \in c..(c + len - 1)
                      /\ ps[o[3].id - c + 1] = [dev |-> o[3].dev, bytes |-> o[3].bytes]
    OBVIOUS
  <2>1. PICK a \in new : o[3] = lease[a]
    BY <1>8
  <2>2. PICK l : l = lease[a]
    OBVIOUS
  <2>3. /\ l.id \in c..(c + len - 1) /\ l.id - c + 1 = a - k + 1
        /\ ps[a - k + 1] = [dev |-> l.dev, bytes |-> l.bytes]
    BY <1>7, <2>2
  <2> QED
    BY <2>1, <2>2, <2>3
<1>11. \A i \in c..(c + len - 1) : \E o \in Y : o[3].id = i
  <2> SUFFICES ASSUME NEW i \in c..(c + len - 1) PROVE \E o \in Y : o[3].id = i
    OBVIOUS
  <2>1. PICK a : a = k + (i - c)
    OBVIOUS
  <2>2. a \in new /\ c + (a - k) = i
    BY <1>3, <2>1
  <2>3. <<r, a, lease[a]>> \in Y /\ lease[a].id = i
    BY <1>7, <1>6, <2>2
  <2> QED
    BY <2>3
<1>12. \A o1, o2 \in Y : o1[3].id = o2[3].id => o1 = o2
  <2> SUFFICES ASSUME NEW o1 \in Y, NEW o2 \in Y, o1[3].id = o2[3].id PROVE o1 = o2
    OBVIOUS
  <2>1. PICK a \in new, b \in new : o1 = <<r, a, lease[a]>> /\ o2 = <<r, b, lease[b]>>
    BY <1>8
  <2>2. lease[a].id = c + (a - k) /\ lease[b].id = c + (b - k) /\ lease[a].id = lease[b].id
    BY <1>7, <2>1
  <2>3. a = b
    BY <1>3, <2>2
  <2> QED
    BY <2>1, <2>3
<1> QED
  BY <1>9, <1>10, <1>11, <1>12, <1>1, <1>5 DEF SharedOut

LEMMA CommitOwn ==
  ASSUME IInv, OwnInv, ResidentsApart, Commit
  PROVE  OwnersHold
<1>1. PICK ps : ps = prepared.placements
  OBVIOUS
<1>2. ps \in Seq(Placement)
  BY <1>1 DEF IInv, Shape, Commit
<1>3. PICK len \in Nat : len = Len(ps) /\ DOMAIN ps = 1..len
  BY <1>2
<1>5. PICK k, c : k = nextId.adm /\ c = ledger.nextId
  OBVIOUS
<1>6. k \in Nat /\ c \in Nat /\ 1 <= c /\ nextId \in Counters
      /\ \A b \in DOMAIN admissions : b \in 1..(k - 1)
  BY <1>5 DEF IInv, Shape, Counters, Count, OwnInv
<1>7. PICK new : new = k..(k + len - 1)
  OBVIOUS
<1>8. PICK lease : lease = BatchLease(ps, k, c)
  OBVIOUS
<1>9. PICK Y : Y = BatchOwners(ps, k, c)
  OBVIOUS
<1>10. /\ ledger' = Reserve(ledger, ps)
       /\ DOMAIN admissions' = DOMAIN admissions \cup new
       /\ \A b \in DOMAIN admissions \ new : admissions'[b] = admissions[b]
       /\ \A a \in new : admissions'[a].state = Plain("reserved")
       /\ UNCHANGED <<nativeUses, quarantined, results>>
       /\ nextId'.result = nextId.result
  BY <1>1, <1>3, <1>5, <1>6, <1>7 DEF Commit, uses, Counters
<1>11. \A a \in new : admissions'[a].lease = lease[a]
  <2>1. ASSUME NEW a \in new
        PROVE  admissions'[a].lease = LeaseOf(c + (a - k + 1) - 1, ps[a - k + 1].dev, ps[a - k + 1].bytes)
    BY <1>1, <1>3, <1>5, <1>7, <2>1 DEF Commit
  <2>2. ASSUME NEW a \in new PROVE c + (a - k + 1) - 1 = c + (a - k)
    BY <1>3, <1>6, <1>7, <2>2
  <2> QED
    BY <1>3, <1>7, <1>8, <2>1, <2>2 DEF BatchLease
<1>12. \A b \in DOMAIN admissions : b \notin new
  BY <1>3, <1>6, <1>7
<1>13. ResidentsApart'
  <2>1. Plain("reserved").resident = NoHandle
    BY DEF Plain
  <2>2. ASSUME NEW b \in DOMAIN admissions'
        PROVE  \/ admissions'[b].state.resident = NoHandle
               \/ b \in DOMAIN admissions /\ admissions'[b].state.resident = admissions[b].state.resident
    BY <1>10, <1>12, <2>1
  <2> QED
    BY <2>2 DEF ResidentsApart
<1>14. All' = All \cup Y
  <2>1. AdmRows = {<<"resident", b, admissions[b].lease>> : b \in DOMAIN admissions}
    BY DEF AdmRows, Rows, AdmLeases
  <2>2. AdmRows' = {<<"resident", b, admissions'[b].lease>> : b \in DOMAIN admissions'}
    BY DEF AdmRows, Rows, AdmLeases
  <2>3. AdmRows' = AdmRows \cup Y
    <3>1. Y = {<<"resident", a, lease[a]>> : a \in new}
      BY <1>3, <1>7, <1>8, <1>9 DEF BatchOwners
    <3> QED
      BY <1>10, <1>11, <1>12, <2>1, <2>2, <3>1
  <2> QED
    BY <1>10, <2>3, RowsFollowTables DEF All
<1>15. Live(Y) = Y /\ SharedOut(Y, ps, c)
  BY <1>2, <1>6, <1>9, BatchRows
<1>16. OwnInv'
  <2>1. DOMAIN results' \subseteq 1..(nextId'.result - 1)
    BY <1>10 DEF OwnInv
  <2>2. SharedOut(Live(Y), ps, ledger.nextId) /\ Len(ps) \in Nat
    BY <1>2, <1>5, <1>15
  <2> QED
    BY <1>10, <1>14, <2>1, <2>2, OwnersGrow
<1> QED
  BY <1>13, <1>16 DEF OwnersHold

(* A batch of one lease, and of two. *)
LEMMA SharedByOne ==
  ASSUME NEW c \in Nat, NEW d, NEW n, NEW batch, batch = <<[dev |-> d, bytes |-> n]>>,
         NEW x, x[3] = LeaseOf(c, d, n)
  PROVE  Len(batch) \in Nat /\ SharedOut({x}, batch, c)
<1>1. Len(batch) = 1 /\ batch[1] = [dev |-> d, bytes |-> n]
  OBVIOUS
<1>2. x[3].id = c /\ x[3].dev = d /\ x[3].bytes = n
  BY LeaseFacts
<1>3. PICK b : b = batch
  OBVIOUS
<1>4. c..(c + Len(b) - 1) = {c} /\ c - c + 1 = 1 /\ Len(b) \in Nat
  BY <1>1, <1>3
<1>5. b[c - c + 1] = [dev |-> d, bytes |-> n]
  BY <1>1, <1>3, <1>4
<1> QED
  BY <1>2, <1>3, <1>4, <1>5 DEF SharedOut

LEMMA SharedByTwo ==
  ASSUME NEW c \in Nat, NEW d, NEW m, NEW n, NEW batch,
         batch = <<[dev |-> d, bytes |-> m], [dev |-> d, bytes |-> n]>>,
         NEW x, x[3] = LeaseOf(c, d, m), NEW y, y[3] = LeaseOf(c + 1, d, n)
  PROVE  Len(batch) \in Nat /\ SharedOut({x, y}, batch, c)
<1>1. /\ Len(batch) = 2
      /\ batch[1] = [dev |-> d, bytes |-> m] /\ batch[2] = [dev |-> d, bytes |-> n]
  OBVIOUS
<1>2. PICK e \in Nat : e = c + 1
  OBVIOUS
<1>3. /\ x[3].id = c /\ x[3].dev = d /\ x[3].bytes = m
      /\ y[3].id = e /\ y[3].dev = d /\ y[3].bytes = n
  BY <1>2, LeaseFacts
<1>4. PICK b : b = batch
  OBVIOUS
<1>5. /\ c..(c + Len(b) - 1) = {c, e} /\ Len(b) \in Nat /\ c # e
      /\ c - c + 1 = 1 /\ e - c + 1 = 2
  BY <1>1, <1>2, <1>4
<1>6. b[c - c + 1] = [dev |-> d, bytes |-> m] /\ b[e - c + 1] = [dev |-> d, bytes |-> n]
  BY <1>1, <1>4, <1>5
<1> QED
  BY <1>3, <1>4, <1>5, <1>6 DEF SharedOut

LEMMA AdmitOwn ==
  ASSUME IInv, OwnInv, ResidentsApart, NEW r, AdmitNativeResident(r)
  PROVE  OwnersHold
<1>1. PICK batch, k, l : /\ batch = <<[dev |-> r.dev, bytes |-> r.bytes]>> /\ k = nextId.adm
                         /\ l = LeaseOf(ledger.nextId, r.dev, r.bytes)
  OBVIOUS
<1>2. nextId \in Counters /\ k \notin DOMAIN admissions
  BY <1>1 DEF IInv, Shape, Counters, Count
<1>3. PICK e : /\ admissions' = Put(admissions, k, e) /\ e.lease = l
               /\ e.state = Plain("loading")
  BY <1>1 DEF AdmitNativeResident
<1>4. /\ ledger' = Reserve(ledger, batch)
      /\ UNCHANGED <<nativeUses, quarantined, results>>
      /\ nextId'.result = nextId.result
  BY <1>1, <1>2 DEF AdmitNativeResident, uses, Counters
<1>5. PICK x : x = <<"resident", k, l>>
  OBVIOUS
<1>6. All' = All \cup {x}
  <2>1. AdmLeases' = Put(AdmLeases, k, l) /\ k \notin DOMAIN AdmLeases
    BY <1>2, <1>3 DEF AdmLeases, Put
  <2>2. AdmRows' = Rows("resident", AdmLeases')
    BY DEF AdmRows, Rows
  <2>3. AdmRows' = AdmRows \cup {x}
    BY <1>5, <2>1, <2>2, RowsPut DEF AdmRows
  <2> QED
    BY <1>4, <2>3, RowsFollowTables DEF All
<1>7. ResidentsApart'
  <2>1. e.state.resident = NoHandle
    BY <1>3 DEF Plain
  <2>2. ASSUME NEW b \in DOMAIN admissions'
        PROVE  \/ admissions'[b].state.resident = NoHandle
               \/ b \in DOMAIN admissions /\ admissions'[b].state.resident = admissions[b].state.resident
    BY <1>3, <2>1 DEF Put
  <2> QED
    BY <2>2 DEF ResidentsApart
<1>8. x[3] = LeaseOf(ledger.nextId, r.dev, r.bytes) /\ x[3] # NoLease
  BY <1>1, <1>5, LeaseFacts DEF OwnInv, Count
<1>9. Live({x}) = {x}
  BY <1>8 DEF Live
<1>10. DOMAIN results' \subseteq 1..(nextId'.result - 1)
  BY <1>4 DEF OwnInv
<1>11. Len(batch) \in Nat /\ SharedOut({x}, batch, ledger.nextId)
  <2>1. PICK c, d, n : c \in Nat /\ c = ledger.nextId /\ d = r.dev /\ n = r.bytes
    BY DEF OwnInv, Count
  <2> QED
    BY <1>1, <1>8, <2>1, SharedByOne
<1>12. OwnInv'
  BY <1>4, <1>6, <1>9, <1>10, <1>11, OwnersGrow
<1> QED
  BY <1>7, <1>12 DEF OwnersHold

(* begin_use and finish_use move no lease. *)
LEMMA UseOwn ==
  ASSUME IInv, OwnInv, ResidentsApart, NEW a \in DOMAIN admissions,
         admissions' = InUse(a) \/ admissions' = Finished(a),
         UNCHANGED <<ledger, nativeUses, quarantined, results>>,
         nextId'.result = nextId.result
  PROVE  OwnersHold
<1>1. AdmLeases' = AdmLeases /\ ResidentsApart'
  BY UseKeeps DEF IInv
<1> QED
  BY <1>1, QuietOwn

LEMMA PermitOwn ==
  ASSUME IInv, OwnInv, ResidentsApart,
         (\E a : BeginUse(a)) \/ (\E p \in DOMAIN permits : FinishUse(p))
  PROVE  OwnersHold
<1>1. nextId \in Counters
  BY DEF IInv, Shape
<1>2. ASSUME NEW a, BeginUse(a) PROVE OwnersHold
  <2>1. /\ a \in DOMAIN admissions /\ admissions' = InUse(a)
        /\ UNCHANGED <<ledger, nativeUses, quarantined, results>>
        /\ nextId'.result = nextId.result
    BY <1>1, <1>2 DEF BeginUse, Startable, Current, accounts, Counters
  <2> QED
    BY <2>1, UseOwn
<1>3. ASSUME NEW p \in DOMAIN permits, FinishUse(p) PROVE OwnersHold
  <2>1. PICK a : a = permits[p]
    OBVIOUS
  <2>2. a \in DOMAIN admissions
    BY <2>1 DEF IInv, UseInv, UsesMatchPermits
  <2>3. /\ admissions' = Finished(a) /\ nextId'.result = nextId.result
        /\ UNCHANGED <<ledger, nativeUses, quarantined, results>>
    BY <1>3, <2>1 DEF FinishUse, accounts
  <2> QED
    BY <2>2, <2>3, UseOwn
<1> QED
  BY <1>2, <1>3

(* begin_native_use: a lease for the mutable bytes, one for the retained. *)
LEMMA BeginNativeUseOwn ==
  ASSUME IInv, OwnInv, ResidentsApart, NEW a, NEW r, BeginNativeUse(a, r)
  PROVE  OwnersHold
<1>1. PICK k, c, d, m, n : /\ k = nextId.use /\ c = ledger.nextId /\ d = admissions[a].lease.dev
                           /\ m = r.mutDev /\ n = r.retDev
  OBVIOUS
<1>2. /\ nextId \in Counters /\ k \notin DOMAIN nativeUses
      /\ c \in Nat /\ c # 0 /\ c + 1 # 0
  BY <1>1 DEF IInv, Shape, UseInv, Counters, Count, OwnInv
<1>3. /\ a \in DOMAIN admissions /\ admissions' = InUse(a)
      /\ UNCHANGED <<quarantined, results>> /\ nextId'.result = nextId.result
  BY <1>2 DEF BeginNativeUse, Startable, Current, Counters
<1>4. PICK batch, u :
        /\ batch = IF n = 0 THEN <<[dev |-> d, bytes |-> m]>>
                   ELSE <<[dev |-> d, bytes |-> m], [dev |-> d, bytes |-> n]>>
        /\ ledger' = Reserve(ledger, batch)
        /\ nativeUses' = Put(nativeUses, k, u)
        /\ u.device = LeaseOf(c, d, m)
        /\ u.retained = IF n = 0 THEN NoLease ELSE LeaseOf(c + 1, d, n)
  BY <1>1 DEF BeginNativeUse
<1>5. AdmLeases' = AdmLeases /\ ResidentsApart'
  BY <1>3, UseKeeps DEF IInv
<1>6. PICK x, y : x = <<"mutable", k, u.device>> /\ y = <<"output", k, u.retained>>
  OBVIOUS
<1>7. x[3] = LeaseOf(c, d, m) /\ y[3] = u.retained /\ x[3] # NoLease
  BY <1>2, <1>4, <1>6, LeaseFacts
<1>8. All' = All \cup {x, y}
  <2>1. UseRows' = UseRows \cup {x, y}
    BY <1>2, <1>4, <1>6, UseRowsBegun
  <2> QED
    BY <1>3, <1>5, <2>1, RowsFollowTables DEF All
<1>9. DOMAIN results' \subseteq 1..(nextId'.result - 1)
  BY <1>3 DEF OwnInv
<1>10. Len(batch) \in Nat /\ SharedOut(Live({x, y}), batch, c)
  <2>1. CASE n = 0
    <3>1. Live({x, y}) = {x}
      BY <1>4, <1>7, <2>1 DEF Live
    <3>2. batch = <<[dev |-> d, bytes |-> m]>>
      BY <1>4, <2>1
    <3>3. Len(batch) \in Nat /\ SharedOut({x}, batch, c)
      BY <1>2, <1>7, <3>2, SharedByOne
    <3> QED
      BY <3>1, <3>3
  <2>2. CASE n # 0
    <3>1. y[3] = LeaseOf(c + 1, d, n) /\ y[3] # NoLease
      BY <1>2, <1>4, <1>7, <2>2, LeaseFacts
    <3>2. Live({x, y}) = {x, y}
      BY <1>7, <3>1 DEF Live
    <3>3. batch = <<[dev |-> d, bytes |-> m], [dev |-> d, bytes |-> n]>>
      BY <1>4, <2>2
    <3>4. Len(batch) \in Nat /\ SharedOut({x, y}, batch, c)
      BY <1>2, <1>7, <3>1, <3>3, SharedByTwo
    <3> QED
      BY <3>2, <3>4
  <2> QED
    BY <2>1, <2>2
<1>11. OwnInv'
  BY <1>1, <1>4, <1>8, <1>9, <1>10, OwnersGrow
<1> QED
  BY <1>5, <1>11 DEF OwnersHold

(* The rows of a use belong to no other table, nor does a new row of one. *)
LEMMA UseRowsApart ==
  ASSUME NEW k, NEW v
  PROVE  /\ <<"mutable", k, v>> \notin AdmRows \cup LostRows \cup ResRows
         /\ <<"output", k, v>> \notin AdmRows \cup LostRows \cup ResRows
         /\ <<"result", k, v>> \notin AdmRows \cup UseRows \cup LostRows
         /\ <<"lost mutable", k, v>> \notin AdmRows \cup UseRows \cup ResRows
         /\ <<"lost output", k, v>> \notin AdmRows \cup UseRows \cup ResRows
BY DEF AdmRows, UseRows, LostRows, ResRows, Rows

LEMMA FinishNativeUseOwn ==
  ASSUME IInv, OwnInv, ResidentsApart, NEW m \in DOMAIN nativeUses, FinishNativeUse(m)
  PROVE  OwnersHold
<1>1. PICK u, a, n : u = nativeUses[m] /\ a = u.adm /\ n = nextId.result
  OBVIOUS
<1>2. /\ nextId \in Counters /\ a \in DOMAIN admissions /\ n \in Nat /\ n \notin DOMAIN results
  BY <1>1 DEF IInv, Shape, UseInv, UsesMatchPermits, Counters, Count, OwnInv
<1>3. /\ admissions' = Finished(a) /\ nativeUses' = Drop(nativeUses, m) /\ UNCHANGED quarantined
      /\ Takeable(ledger, u.device) /\ ledger' = Release(ledger, u.device.id)
  BY <1>1 DEF FinishNativeUse
<1>4. AdmLeases' = AdmLeases /\ ResidentsApart'
  BY <1>2, <1>3, UseKeeps DEF IInv
<1>5. PICK x, y, z, S :
        /\ x = <<"mutable", m, u.device>> /\ y = <<"output", m, u.retained>>
        /\ z = <<"result", n, u.retained>> /\ S = All
  OBVIOUS
<1>6. x[3] = u.device /\ y[3] = u.retained /\ z[3] = u.retained /\ x # y
  BY <1>5
<1>7. UseRows' = UseRows \ {x, y} /\ x \in UseRows /\ y \in UseRows
  BY <1>1, <1>3, <1>5, UseRowsEnded
<1>8. x \in S /\ y \in S \ {x} /\ AdmRows' = AdmRows /\ LostRows' = LostRows
  BY <1>3, <1>4, <1>5, <1>6, <1>7, RowsFollowTables DEF All
<1>9. /\ x \notin AdmRows \cup LostRows \cup ResRows
      /\ y \notin AdmRows \cup LostRows \cup ResRows
      /\ z \notin AdmRows \cup UseRows \cup LostRows
  BY <1>5, UseRowsApart
<1>10. /\ OneEach(Live(S \ {x}), ledger'.leases)
       /\ ledger'.nextId \in Count
       /\ DOMAIN ledger'.leases \subseteq 1..(ledger'.nextId - 1)
  <2>1. OneEach(Live(S), ledger.leases)
    BY <1>5, OwnersAreRows DEF OwnInv, OwnersFollowRows
  <2>2. x[3].id \in DOMAIN ledger.leases /\ ledger' = Release(ledger, x[3].id)
    BY <1>3, <1>6 DEF Takeable, CanRelease
  <2> QED
    BY <1>8, <2>1, <2>2, ReleaseTakesOne
<1>11. PICK T, L : T = S \ {x} /\ L = ledger'.leases
  OBVIOUS
<1>12. OneEach(LeaseOwners', L) /\ DOMAIN results' \subseteq 1..(nextId'.result - 1)
  <2>1. CASE KeepsOutput(u)
    <3>1. PICK e : results' = Put(results, n, e) /\ e.device = u.retained
      BY <1>1, <2>1 DEF FinishNativeUse
    <3>2. nextId'.result = n + 1
      BY <1>1, <1>2, <2>1 DEF FinishNativeUse, Counters
    <3>3. ResRows' = ResRows \cup {z} /\ z \notin ResRows
      <4>1. ResLeases' = Put(ResLeases, n, u.retained) /\ n \notin DOMAIN ResLeases
        BY <1>2, <3>1 DEF ResLeases, Put
      <4>2. ResRows' = Rows("result", ResLeases')
        BY DEF ResRows, Rows
      <4>3. ResRows' = ResRows \cup {z}
        BY <1>5, <4>1, <4>2, RowsPut DEF ResRows
      <4>4. z \notin ResRows
        BY <1>5, <4>1 DEF ResRows, Rows
      <4> QED
        BY <4>3, <4>4
    <3>4. All' = (T \ {y}) \cup {z} /\ z \notin T /\ y \in T
      BY <1>5, <1>7, <1>8, <1>9, <1>11, <3>3 DEF All
    <3>5. OneEach(Live((T \ {y}) \cup {z}), L)
      BY <1>6, <1>10, <1>11, <3>4, LiveMoves
    <3>6. LeaseOwners' = Live((T \ {y}) \cup {z})
      BY <3>4, OwnersAreRowsNext DEF OwnersFollowRows, Live
    <3>7. DOMAIN results' \subseteq 1..(nextId'.result - 1)
      <4>1. DOMAIN results' = DOMAIN results \cup {n} /\ DOMAIN results \subseteq 1..(n - 1)
        BY <1>1, <3>1 DEF Put, OwnInv
      <4>2. n \in Nat /\ 1 <= n
        BY <1>1, <1>2 DEF Counters, Count
      <4> QED
        BY <3>2, <4>1, <4>2
    <3> QED
      BY <3>5, <3>6, <3>7
  <2>2. CASE ~KeepsOutput(u)
    <3>1. u.retained = NoLease /\ UNCHANGED <<results, nextId>>
      BY <1>1, <2>2 DEF FinishNativeUse, KeepsOutput
    <3>2. All' = T \ {y}
      BY <1>5, <1>7, <1>8, <1>9, <1>11, <3>1, RowsFollowTables DEF All
    <3>3. Live(T \ {y}) = Live(T)
      BY <1>6, <3>1, LiveDrops
    <3>4. LeaseOwners' = Live(T \ {y})
      BY <3>2, OwnersAreRowsNext DEF OwnersFollowRows, Live
    <3> QED
      BY <1>10, <1>11, <3>1, <3>3, <3>4 DEF OwnInv
  <2> QED
    BY <2>1, <2>2
<1> QED
  BY <1>4, <1>10, <1>11, <1>12 DEF OwnersHold, OwnInv

(* A quarantined use takes both its leases along. *)
LEMMA QuarantineUseOwn ==
  ASSUME IInv, OwnInv, ResidentsApart, NEW m \in DOMAIN nativeUses, QuarantineNativeUse(m)
  PROVE  OwnersHold
<1>1. PICK u, a, st : /\ u = nativeUses[m] /\ a = u.adm
                      /\ st = Holding("quarantined", admissions[a].state.resident)
  OBVIOUS
<1>2. a \in DOMAIN admissions /\ m \notin DOMAIN quarantined
  BY <1>1 DEF IInv, UseInv, UsesMatchPermits
<1>3. /\ admissions' = SetState(a, st)
      /\ nativeUses' = Drop(nativeUses, m) /\ quarantined' = Put(quarantined, m, u)
      /\ UNCHANGED <<ledger, results, nextId>>
  BY <1>1 DEF QuarantineNativeUse, accounts
<1>4. AdmLeases' = AdmLeases /\ ResidentsApart'
  <2>1. st.resident = admissions[a].state.resident
    BY <1>1 DEF Holding
  <2> QED
    BY <1>2, <1>3, <2>1, SetStateKeeps DEF IInv
<1>5. PICK x, y, p, q, S :
        /\ x = <<"mutable", m, u.device>> /\ y = <<"output", m, u.retained>>
        /\ p = <<"lost mutable", m, u.device>> /\ q = <<"lost output", m, u.retained>>
        /\ S = All
  OBVIOUS
<1>6. x[3] = p[3] /\ y[3] = q[3] /\ x # y /\ p # q
  BY <1>5
<1>7. UseRows' = UseRows \ {x, y} /\ x \in UseRows /\ y \in UseRows
  BY <1>1, <1>3, <1>5, UseRowsEnded
<1>8. LostRows' = LostRows \cup {p, q} /\ p \notin LostRows /\ q \notin LostRows
  <2>1. LostRows' = LostRows \cup {p, q}
    BY <1>2, <1>3, <1>5, LostRowsGrow
  <2>2. m \notin DOMAIN LostMutLeases /\ m \notin DOMAIN LostOutLeases
    BY <1>2 DEF LostMutLeases, LostOutLeases
  <2>3. ASSUME NEW r, NEW s, NEW v PROVE <<r, m, v>> \notin Rows(s, LostMutLeases) \cup Rows(s, LostOutLeases)
    BY <2>2 DEF Rows
  <2> QED
    BY <1>5, <2>1, <2>3 DEF LostRows
<1>9. /\ x \notin AdmRows \cup LostRows \cup ResRows
      /\ y \notin AdmRows \cup LostRows \cup ResRows
      /\ p \notin AdmRows \cup UseRows \cup ResRows
      /\ q \notin AdmRows \cup UseRows \cup ResRows
  BY <1>5, UseRowsApart
<1>10. PICK T, L : T = (S \ {x}) \cup {p} /\ L = ledger.leases
  OBVIOUS
<1>11. /\ x \in S /\ p \notin S /\ y \in T /\ q \notin T
       /\ All' = (T \ {y}) \cup {q}
  BY <1>3, <1>4, <1>5, <1>6, <1>7, <1>8, <1>9, <1>10, RowsFollowTables DEF All
<1>12. OneEach(Live(S), L)
  BY <1>5, <1>10, OwnersAreRows DEF OwnInv, OwnersFollowRows
<1>13. OneEach(Live(T), L)
  BY <1>6, <1>10, <1>11, <1>12, LiveMoves
<1>14. OneEach(Live((T \ {y}) \cup {q}), L)
  BY <1>6, <1>11, <1>13, LiveMoves
<1>15. LeaseOwners' = Live((T \ {y}) \cup {q})
  BY <1>11, OwnersAreRowsNext DEF OwnersFollowRows, Live
<1>16. OwnInv'
  BY <1>3, <1>10, <1>14, <1>15 DEF OwnInv
<1> QED
  BY <1>4, <1>16 DEF OwnersHold

LEMMA DiscardResultOwn ==
  ASSUME IInv, OwnInv, ResidentsApart, NEW n \in DOMAIN results, DiscardNativeResult(n)
  PROVE  OwnersHold
<1>1. PICK v, z, S : /\ v = results[n].device /\ z = <<"result", n, v>> /\ S = All
  OBVIOUS
<1>2. /\ results' = Drop(results, n)
      /\ UNCHANGED <<admissions, nativeUses, quarantined, nextId>>
      /\ IF v = NoLease THEN UNCHANGED ledger
         ELSE Takeable(ledger, v) /\ ledger' = Release(ledger, v.id)
  BY <1>1 DEF DiscardNativeResult
<1>3. AdmLeases' = AdmLeases /\ ResidentsApart'
  BY <1>2 DEF AdmLeases, ResidentsApart
<1>4. ResRows' = ResRows \ {z} /\ z \in ResRows
  <2>1. ResLeases' = Drop(ResLeases, n) /\ n \in DOMAIN ResLeases /\ ResLeases[n] = v
    BY <1>1, <1>2 DEF ResLeases, Drop, Restrict
  <2>2. ResRows' = Rows("result", ResLeases')
    BY DEF ResRows, Rows
  <2>3. ResRows' = ResRows \ {z}
    BY <1>1, <2>1, <2>2, RowsDrop DEF ResRows
  <2>4. z \in ResRows
    BY <1>1, <2>1 DEF ResRows, Rows
  <2> QED
    BY <2>3, <2>4
<1>5. z \notin AdmRows \cup UseRows \cup LostRows
  BY <1>1, UseRowsApart
<1>6. z \in S /\ All' = S \ {z} /\ z[3] = v
  BY <1>1, <1>2, <1>3, <1>4, <1>5, RowsFollowTables DEF All
<1>7. OneEach(Live(S), ledger.leases)
  BY <1>1, OwnersAreRows DEF OwnInv, OwnersFollowRows
<1>8. /\ OneEach(Live(S \ {z}), ledger'.leases)
      /\ ledger'.nextId \in Count
      /\ DOMAIN ledger'.leases \subseteq 1..(ledger'.nextId - 1)
  <2>1. CASE v = NoLease
    <3>1. Live(S \ {z}) = Live(S) /\ UNCHANGED ledger
      BY <1>2, <1>6, <2>1, LiveDrops
    <3> QED
      BY <1>7, <3>1 DEF OwnInv
  <2>2. CASE v # NoLease
    <3>1. z[3].id \in DOMAIN ledger.leases /\ ledger' = Release(ledger, z[3].id)
      BY <1>2, <1>6, <2>2 DEF Takeable, CanRelease
    <3> QED
      BY <1>6, <1>7, <3>1, ReleaseTakesOne
  <2> QED
    BY <2>1, <2>2
<1>9. LeaseOwners' = Live(S \ {z})
  BY <1>6, OwnersAreRowsNext DEF OwnersFollowRows, Live
<1>10. DOMAIN results' \subseteq 1..(nextId'.result - 1)
  BY <1>2 DEF OwnInv, Drop, Restrict
<1> QED
  BY <1>3, <1>8, <1>9, <1>10 DEF OwnersHold, OwnInv

LEMMA InitOwn == Init => OwnInv /\ ResidentsApart
<1> SUFFICES ASSUME Init PROVE OwnInv /\ ResidentsApart
  OBVIOUS
<1>1. /\ DOMAIN admissions = {} /\ DOMAIN nativeUses = {}
      /\ DOMAIN quarantined = {} /\ DOMAIN results = {}
  BY DEF Init, Empty
<1>2. DOMAIN ledger.leases = {} /\ ledger.nextId = 1
  BY DEF Init, NewLedger
<1>3. LeaseOwners = {}
  BY <1>1 DEF LeaseOwners
<1>4. OneEach(LeaseOwners, ledger.leases)
  BY <1>2, <1>3 DEF OneEach
<1> QED
  BY <1>1, <1>2, <1>4 DEF OwnInv, ResidentsApart, Count

LEMMA NextOwn ==
  ASSUME IInv, OwnInv, ResidentsApart, [Next]_vars
  PROVE  OwnersHold
<1>1. CASE Poll
  BY <1>1, PollOwn
<1>2. CASE Caller
  <2>1. ASSUME (\E ws \in Requests : Prepare(ws)) \/ DiscardPrepared PROVE OwnersHold
    <3>1. UNCHANGED <<admissions, ledger, nativeUses, quarantined, results, nextId>>
      BY <2>1 DEF Prepare, DiscardPrepared, accounts, uses
    <3> QED
      BY <3>1, IdleOwn
  <2>2. ASSUME NEW a \in DOMAIN admissions, RequestRetirement(a) PROVE OwnersHold
    <3>1. PICK st \in AdmissionState : st = admissions[a].state
      BY DEF IInv, Shape, Entry
    <3>2. PICK new : new = ToDraining(st)
      OBVIOUS
    <3>3. admissions' = SetState(a, new) /\ UNCHANGED <<ledger, uses, nextId>>
      BY <2>2, <3>1, <3>2 DEF RequestRetirement, accounts
    <3>4. new.resident = NoHandle \/ new.resident = admissions[a].state.resident
      BY <3>1, <3>2, ToDrainingKeeps
    <3> QED
      BY <3>3, <3>4, StateOwn
  <2> QED
    BY <1>2, <2>1, <2>2, CommitOwn, AdmitOwn, PermitOwn, BeginNativeUseOwn DEF Caller
<1>3. CASE Owner
  BY <1>3, OwnerOwn
<1>4. CASE Executor
  BY <1>4, CompleteOwn DEF Executor
<1>5. CASE Adapter
  BY <1>5, NativeLoadOwn, PermitOwn, FinishNativeUseOwn, QuarantineUseOwn, DiscardResultOwn
     DEF Adapter
<1>6. CASE UNCHANGED vars
  <2>1. UNCHANGED <<admissions, ledger, nativeUses, quarantined, results, nextId>>
    BY <1>6 DEF vars
  <2> QED
    BY <2>1, IdleOwn
<1> QED
  BY <1>1, <1>2, <1>3, <1>4, <1>5, <1>6 DEF Next

(* Every active lease of the ledger has one owner, an admission, a use, a  *)
(* quarantined use or a result, which holds it with the bytes the ledger   *)
(* charged, and no two admissions hold one resident: release_admission,    *)
(* finish_native_use and discard_native_result return each charge once.    *)
THEOREM EveryLeaseIsOwned == Spec => []LeasesHaveOneOwner
<1>1. Init => OwnInv /\ ResidentsApart
  BY InitOwn
<1>2. IInv /\ OwnInv /\ ResidentsApart /\ [Next]_vars => OwnInv' /\ ResidentsApart'
  BY NextOwn DEF OwnersHold
<1>3. OwnInv /\ ResidentsApart => LeasesHaveOneOwner
  BY DEF OwnInv, OneEach, ResidentsApart, LeasesHaveOneOwner
<1> QED
  BY <1>1, <1>2, <1>3, AlwaysInv, PTL DEF Spec

------------------------------------------------------------------------------
(* Who owns the host bytes.  Owners o of o[3] bytes, counted unit by unit. *)
Units(S) == UNION {{<<o[1], o[2]>>} \X (1..o[3]) : o \in S}

(* No owner of S goes by the name of o. *)
NewName(S, o) == \A x \in S : <<x[1], x[2]>> # <<o[1], o[2]>>

(* The owners of S are told apart by role and identifier and own n bytes.  *)
Charges(S, n) ==
  /\ \A o \in S : o[3] \in Nat /\ NewName(S \ {o}, o)
  /\ IsFiniteSet(Units(S))
  /\ Cardinality(Units(S)) = n

LEMMA UnitsOfOne ==
  ASSUME NEW name, NEW n \in Nat
  PROVE  IsFiniteSet({name} \X (1..n)) /\ Cardinality({name} \X (1..n)) = n
<1> DEFINE T == {name} \X (1..n)
           f == [i \in 1..n |-> <<name, i>>]
<1>1. f \in Bijection(1..n, T)
  <2>1. f \in [1..n -> T]
    OBVIOUS
  <2>2. \A i, j \in 1..n : f[i] = f[j] => i = j
    OBVIOUS
  <2>3. \A x \in T : \E i \in 1..n : f[i] = x
    OBVIOUS
  <2> HIDE DEF f, T
  <2> QED
    BY <2>1, <2>2, <2>3 DEF Bijection, Injection, Surjection, IsInjective
<1>2. IsFiniteSet(1..n) /\ Cardinality(1..n) = n
  BY FS_Interval
<1> QED
  BY <1>1, <1>2, FS_Bijection DEF ExistsBijection

LEMMA UnitsGrow ==
  ASSUME NEW S, NEW o, NewName(S, o), o[3] \in Nat, IsFiniteSet(Units(S))
  PROVE  /\ IsFiniteSet(Units(S \cup {o}))
         /\ Cardinality(Units(S \cup {o})) = Cardinality(Units(S)) + o[3]
<1>1. PICK U, V : U = Units(S) /\ V = {<<o[1], o[2]>>} \X (1..o[3])
  OBVIOUS
<1>2. Units(S \cup {o}) = U \cup V
  BY <1>1 DEF Units
<1>3. U \cap V = {}
  BY <1>1 DEF Units, NewName
<1>4. IsFiniteSet(V) /\ Cardinality(V) = o[3]
  BY <1>1, UnitsOfOne
<1>5. /\ IsFiniteSet(U \cup V)
      /\ Cardinality(U \cup V) = Cardinality(U) + Cardinality(V) - Cardinality(U \cap V)
  BY <1>1, <1>4, FS_Union
<1>6. Cardinality(U \cap V) = 0 /\ Cardinality(U) \in Nat
  BY <1>1, <1>3, FS_EmptySet, FS_CardinalityType
<1>7. Cardinality(U \cup V) = Cardinality(U) + o[3]
  BY <1>4, <1>5, <1>6
<1>8. IsFiniteSet(Units(S \cup {o})) /\ Cardinality(Units(S \cup {o})) = Cardinality(U) + o[3]
  BY <1>2, <1>5, <1>7
<1> QED
  BY <1>1, <1>8

LEMMA ChargesGrow ==
  ASSUME NEW S, NEW n, Charges(S, n), NEW o, NewName(S, o), o[3] \in Nat
  PROVE  Charges(S \cup {o}, n + o[3])
<1>1. \A x \in S \cup {o} : x[3] \in Nat /\ NewName((S \cup {o}) \ {x}, x)
  BY DEF Charges, NewName
<1> QED
  BY <1>1, UnitsGrow DEF Charges

LEMMA ChargesDrop ==
  ASSUME NEW S, NEW n, Charges(S, n), NEW o \in S
  PROVE  Charges(S \ {o}, n - o[3]) /\ o[3] \in Nat /\ n \in Nat /\ n - o[3] \in Nat
<1>1. PICK T : T = S \ {o}
  OBVIOUS
<1>2. NewName(T, o) /\ o[3] \in Nat /\ S = T \cup {o}
  BY <1>1 DEF Charges
<1>3. Units(T) \subseteq Units(S)
  BY <1>1 DEF Units
<1>4. IsFiniteSet(Units(T))
  BY <1>3, FS_Subset DEF Charges
<1>5. Cardinality(Units(S)) = Cardinality(Units(T)) + o[3]
  BY <1>2, <1>4, UnitsGrow
<1>6. Cardinality(Units(T)) \in Nat
  BY <1>4, FS_CardinalityType
<1>7. \A x \in T : x[3] \in Nat /\ NewName(T \ {x}, x)
  BY <1>1 DEF Charges, NewName
<1> QED
  BY <1>1, <1>2, <1>4, <1>5, <1>6, <1>7 DEF Charges

LEMMA ChargesMove ==
  ASSUME NEW S, NEW n, Charges(S, n), NEW o \in S, NEW p, p[3] = o[3], NewName(S, p)
  PROVE  Charges((S \ {o}) \cup {p}, n)
<1>1. PICK T, m : T = S \ {o} /\ m = n - o[3]
  OBVIOUS
<1>2. Charges(T, m) /\ o[3] \in Nat /\ n \in Nat
  BY <1>1, ChargesDrop
<1>3. NewName(T, p)
  BY <1>1 DEF NewName
<1>4. Charges(T \cup {p}, m + p[3])
  BY <1>2, <1>3, ChargesGrow
<1> QED
  BY <1>1, <1>2, <1>4

(* Owners of nothing do not count. *)
LEMMA ChargesNothing ==
  ASSUME NEW S, NEW n, Charges(S, n), NEW N,
         \A o \in N : o[3] = 0 /\ NewName(S, o) /\ NewName(N \ {o}, o)
  PROVE  Charges(S \cup N, n)
<1>1. Units(S \cup N) = Units(S)
  <2>1. \A o \in N : {<<o[1], o[2]>>} \X (1..o[3]) = {}
    <3>1. \A name : {name} \X (1..0) = {}
      OBVIOUS
    <3>2. \A o \in N : 1..o[3] = 1..0
      OBVIOUS
    <3> QED
      BY <3>1, <3>2
  <2>2. Units(S \cup N) = Units(S) \cup Units(N)
    BY DEF Units
  <2>3. Units(N) = {}
    BY <2>1 DEF Units
  <2> QED
    BY <2>2, <2>3
<1>2. \A o \in S \cup N : o[3] \in Nat /\ NewName((S \cup N) \ {o}, o)
  BY DEF Charges, NewName
<1> QED
  BY <1>1, <1>2 DEF Charges

(* The owners of host bytes as the rows of six tables. *)
AdmHosts == [a \in DOMAIN admissions |-> admissions[a].host]
MutHosts == [n \in DOMAIN nativeUses |-> nativeUses[n].host]
OutHosts == [n \in DOMAIN nativeUses |-> nativeUses[n].retainedHost]
LostMutHosts == [n \in DOMAIN quarantined |-> quarantined[n].host]
LostOutHosts == [n \in DOMAIN quarantined |-> quarantined[n].retainedHost]
ResHosts == [n \in DOMAIN results |-> results[n].host]

UseHosts == Rows("mutable", MutHosts) \cup Rows("output", OutHosts)
LostHosts == Rows("lost mutable", LostMutHosts) \cup Rows("lost output", LostOutHosts)
AllHosts == Rows("resident", AdmHosts) \cup UseHosts \cup LostHosts \cup Rows("result", ResHosts)
HostsFollowRows == HostOwners = AllHosts

HostInv == Charges(HostOwners, hostReserved) /\ hostReserved <= HostEnvelope

LEMMA HostsAreRows == HostsFollowRows
<1>1. Rows("resident", AdmHosts) = {<<"resident", a, admissions[a].host>> : a \in DOMAIN admissions}
  BY DEF Rows, AdmHosts
<1>2. UseHosts = {<<"mutable", n, nativeUses[n].host>> : n \in DOMAIN nativeUses}
                   \cup {<<"output", n, nativeUses[n].retainedHost>> : n \in DOMAIN nativeUses}
  BY DEF UseHosts, Rows, MutHosts, OutHosts
<1>3. LostHosts = {<<"lost mutable", n, quarantined[n].host>> : n \in DOMAIN quarantined}
                    \cup {<<"lost output", n, quarantined[n].retainedHost>> : n \in DOMAIN quarantined}
  BY DEF LostHosts, Rows, LostMutHosts, LostOutHosts
<1>4. Rows("result", ResHosts) = {<<"result", n, results[n].host>> : n \in DOMAIN results}
  BY DEF Rows, ResHosts
<1> QED
  BY <1>1, <1>2, <1>3, <1>4 DEF HostOwners, HostsFollowRows, AllHosts

LEMMA HostsAreRowsNext == HostsFollowRows'
BY HostsAreRows, PTL

(* A row of an identifier that a table does not have is a new owner. *)
LEMMA HostNames ==
  ASSUME NEW k, NEW v
  PROVE  /\ k \notin DOMAIN admissions => NewName(HostOwners, <<"resident", k, v>>)
         /\ k \notin DOMAIN nativeUses =>
              NewName(HostOwners, <<"mutable", k, v>>) /\ NewName(HostOwners, <<"output", k, v>>)
         /\ k \notin DOMAIN quarantined =>
              /\ NewName(HostOwners, <<"lost mutable", k, v>>)
              /\ NewName(HostOwners, <<"lost output", k, v>>)
         /\ k \notin DOMAIN results => NewName(HostOwners, <<"result", k, v>>)
<1>1. ASSUME NEW r, NEW s, NEW f, r # s \/ k \notin DOMAIN f
      PROVE  NewName(Rows(s, f), <<r, k, v>>)
  BY <1>1 DEF NewName, Rows
<1>2. /\ DOMAIN AdmHosts = DOMAIN admissions /\ DOMAIN ResHosts = DOMAIN results
      /\ DOMAIN MutHosts = DOMAIN nativeUses /\ DOMAIN OutHosts = DOMAIN nativeUses
      /\ DOMAIN LostMutHosts = DOMAIN quarantined /\ DOMAIN LostOutHosts = DOMAIN quarantined
  BY DEF AdmHosts, MutHosts, OutHosts, LostMutHosts, LostOutHosts, ResHosts
<1>3. \A o : NewName(HostOwners, o) <=>
        /\ NewName(Rows("resident", AdmHosts), o) /\ NewName(Rows("result", ResHosts), o)
        /\ NewName(Rows("mutable", MutHosts), o) /\ NewName(Rows("output", OutHosts), o)
        /\ NewName(Rows("lost mutable", LostMutHosts), o)
        /\ NewName(Rows("lost output", LostOutHosts), o)
  BY HostsAreRows DEF HostsFollowRows, AllHosts, UseHosts, LostHosts, NewName
<1>4. k \notin DOMAIN admissions => NewName(HostOwners, <<"resident", k, v>>)
  BY <1>1, <1>2, <1>3
<1>5. k \notin DOMAIN nativeUses =>
        NewName(HostOwners, <<"mutable", k, v>>) /\ NewName(HostOwners, <<"output", k, v>>)
  BY <1>1, <1>2, <1>3
<1>6. k \notin DOMAIN quarantined =>
        /\ NewName(HostOwners, <<"lost mutable", k, v>>)
        /\ NewName(HostOwners, <<"lost output", k, v>>)
  BY <1>1, <1>2, <1>3
<1>7. k \notin DOMAIN results => NewName(HostOwners, <<"result", k, v>>)
  BY <1>1, <1>2, <1>3
<1> QED
  BY <1>4, <1>5, <1>6, <1>7

(* The step leaves each admission with its host bytes. *)
LEMMA HostQuiet ==
  ASSUME HostInv, AdmHosts' = AdmHosts,
         UNCHANGED <<nativeUses, quarantined, results, hostReserved>>
  PROVE  HostInv'
<1>1. AllHosts' = AllHosts
  BY DEF AllHosts, UseHosts, LostHosts, Rows, MutHosts, OutHosts, LostMutHosts, LostOutHosts, ResHosts
<1>2. HostOwners' = HostOwners
  BY <1>1, HostsAreRows, HostsAreRowsNext DEF HostsFollowRows
<1> QED
  BY <1>2 DEF HostInv, Charges, Units, NewName

LEMMA HostsStay ==
  ASSUME Shape, NEW a \in DOMAIN admissions,
         (\E st : admissions' = SetState(a, st)) \/ admissions' = InUse(a) \/ admissions' = Finished(a)
  PROVE  AdmHosts' = AdmHosts
<1>1. DOMAIN admissions' = DOMAIN admissions
  BY DEF SetState, InUse, Finished
<1>2. ASSUME NEW b \in DOMAIN admissions PROVE admissions'[b].host = admissions[b].host
  <2>1. Entry(admissions[b])
    BY DEF Shape
  <2>2. PICK n, st : \/ admissions'[b] = admissions[b]
                     \/ admissions'[b] = [admissions[b] EXCEPT !.state = st]
                     \/ admissions'[b] = [admissions[b] EXCEPT !.uses = n, !.state = st]
    <3>1. CASE \E st : admissions' = SetState(a, st)
      BY <3>1 DEF SetState
    <3>2. CASE admissions' = InUse(a)
      <4>1. admissions'[b] = IF b = a
                             THEN [admissions[b] EXCEPT !.uses = admissions[b].uses + 1,
                                                        !.state = Holding("inuse", admissions[b].state.resident)]
                             ELSE admissions[b]
        BY <3>2 DEF InUse
      <4> QED
        BY <4>1
    <3>3. CASE admissions' = Finished(a)
      <4>1. admissions'[b] = IF b = a
                             THEN [admissions[b] EXCEPT !.uses = admissions[b].uses - 1,
                                     !.state = FinishedState(admissions[b].state, admissions[b].uses - 1)]
                             ELSE admissions[b]
        BY <3>3 DEF Finished
      <4> QED
        BY <4>1
    <3> QED
      BY <3>1, <3>2, <3>3
  <2> QED
    BY <2>1, <2>2 DEF Entry
<1> QED
  BY <1>1, <1>2 DEF AdmHosts

(* release_admission returns the host bytes of the admission. *)
LEMMA HostReleased ==
  ASSUME HostInv, NEW a \in DOMAIN admissions, ReleaseAdmission(a),
         UNCHANGED <<nativeUses, quarantined, results>>
  PROVE  HostInv'
<1>1. PICK o, S, n : o = <<"resident", a, admissions[a].host>> /\ S = HostOwners /\ n = hostReserved
  OBVIOUS
<1>2. admissions' = Drop(admissions, a) /\ hostReserved' = n - o[3]
  BY <1>1 DEF ReleaseAdmission
<1>3. AdmHosts' = Drop(AdmHosts, a) /\ a \in DOMAIN AdmHosts /\ AdmHosts[a] = admissions[a].host
  BY <1>2 DEF AdmHosts, Drop, Restrict
<1>4. Rows("resident", AdmHosts)' = Rows("resident", AdmHosts) \ {o} /\ o \in Rows("resident", AdmHosts)
  <2>1. Rows("resident", AdmHosts)' = Rows("resident", AdmHosts')
    BY DEF Rows
  <2>2. o \in Rows("resident", AdmHosts)
    BY <1>1, <1>3 DEF Rows
  <2> QED
    BY <1>1, <1>3, <2>1, <2>2, RowsDrop
<1>5. o \notin UseHosts \cup LostHosts \cup Rows("result", ResHosts)
  BY <1>1 DEF UseHosts, LostHosts, Rows
<1>6. UNCHANGED <<UseHosts, LostHosts, Rows("result", ResHosts)>>
  BY DEF UseHosts, LostHosts, Rows, MutHosts, OutHosts, LostMutHosts, LostOutHosts, ResHosts
<1>7. o \in S /\ HostOwners' = S \ {o}
  BY <1>1, <1>4, <1>5, <1>6, HostsAreRows, HostsAreRowsNext DEF HostsFollowRows, AllHosts
<1>8. Charges(S, n) /\ n <= HostEnvelope
  BY <1>1 DEF HostInv
<1>9. Charges(S \ {o}, n - o[3]) /\ o[3] \in Nat /\ n \in Nat
  BY <1>7, <1>8, ChargesDrop
<1>10. n - o[3] <= HostEnvelope
  BY <1>8, <1>9, HostAssumption, WordAssumption DEF Word
<1> QED
  BY <1>2, <1>7, <1>9, <1>10 DEF HostInv, Charges, Units, NewName

LEMMA HostTables ==
  /\ UNCHANGED nativeUses => UNCHANGED UseHosts
  /\ UNCHANGED quarantined => UNCHANGED LostHosts
  /\ UNCHANGED results => UNCHANGED Rows("result", ResHosts)
  /\ AdmHosts' = AdmHosts => UNCHANGED Rows("resident", AdmHosts)
BY DEF UseHosts, LostHosts, Rows, MutHosts, OutHosts, LostMutHosts, LostOutHosts, ResHosts

(* The rows of a use that begins, and of one that ends. *)
LEMMA UseHostsBegun ==
  ASSUME NEW k, NEW u, k \notin DOMAIN nativeUses, nativeUses' = Put(nativeUses, k, u)
  PROVE  UseHosts' = UseHosts \cup {<<"mutable", k, u.host>>, <<"output", k, u.retainedHost>>}
<1>1. MutHosts' = Put(MutHosts, k, u.host) /\ k \notin DOMAIN MutHosts
  BY DEF MutHosts, Put
<1>2. OutHosts' = Put(OutHosts, k, u.retainedHost) /\ k \notin DOMAIN OutHosts
  BY DEF OutHosts, Put
<1>3. Rows("mutable", MutHosts') = Rows("mutable", MutHosts) \cup {<<"mutable", k, u.host>>}
  BY <1>1, RowsPut
<1>4. Rows("output", OutHosts') = Rows("output", OutHosts) \cup {<<"output", k, u.retainedHost>>}
  BY <1>2, RowsPut
<1> QED
  BY <1>3, <1>4 DEF UseHosts, Rows

LEMMA UseHostsEnded ==
  ASSUME NEW m \in DOMAIN nativeUses, NEW u, u = nativeUses[m], nativeUses' = Drop(nativeUses, m)
  PROVE  /\ UseHosts' = UseHosts \ {<<"mutable", m, u.host>>, <<"output", m, u.retainedHost>>}
         /\ <<"mutable", m, u.host>> \in UseHosts /\ <<"output", m, u.retainedHost>> \in UseHosts
<1>1. MutHosts' = Drop(MutHosts, m) /\ m \in DOMAIN MutHosts /\ MutHosts[m] = u.host
  BY DEF MutHosts, Drop, Restrict
<1>2. OutHosts' = Drop(OutHosts, m) /\ m \in DOMAIN OutHosts /\ OutHosts[m] = u.retainedHost
  BY DEF OutHosts, Drop, Restrict
<1>3. Rows("mutable", MutHosts') = Rows("mutable", MutHosts) \ {<<"mutable", m, u.host>>}
  BY <1>1, RowsDrop
<1>4. Rows("output", OutHosts') = Rows("output", OutHosts) \ {<<"output", m, u.retainedHost>>}
  BY <1>2, RowsDrop
<1>5. <<"mutable", m, u.host>> \in Rows("mutable", MutHosts)
      /\ <<"output", m, u.retainedHost>> \in Rows("output", OutHosts)
  BY <1>1, <1>2 DEF Rows
<1>6. <<"mutable", m, u.host>> \notin Rows("output", OutHosts)
      /\ <<"output", m, u.retainedHost>> \notin Rows("mutable", MutHosts)
  BY DEF Rows
<1>7. UseHosts' = Rows("mutable", MutHosts') \cup Rows("output", OutHosts')
  BY DEF UseHosts, Rows
<1> QED
  BY <1>3, <1>4, <1>5, <1>6, <1>7 DEF UseHosts

LEMMA LostHostsGrow ==
  ASSUME NEW k, NEW u, k \notin DOMAIN quarantined, quarantined' = Put(quarantined, k, u)
  PROVE  LostHosts' = LostHosts \cup {<<"lost mutable", k, u.host>>, <<"lost output", k, u.retainedHost>>}
<1>1. LostMutHosts' = Put(LostMutHosts, k, u.host) /\ k \notin DOMAIN LostMutHosts
  BY DEF LostMutHosts, Put
<1>2. LostOutHosts' = Put(LostOutHosts, k, u.retainedHost) /\ k \notin DOMAIN LostOutHosts
  BY DEF LostOutHosts, Put
<1>3. ASSUME NEW r
      PROVE  /\ Rows(r, LostMutHosts') = Rows(r, LostMutHosts) \cup {<<r, k, u.host>>}
             /\ Rows(r, LostOutHosts') = Rows(r, LostOutHosts) \cup {<<r, k, u.retainedHost>>}
  BY <1>1, <1>2, RowsPut
<1>4. LostHosts' = Rows("lost mutable", LostMutHosts') \cup Rows("lost output", LostOutHosts')
  BY DEF LostHosts, Rows
<1> QED
  BY <1>3, <1>4 DEF LostHosts

LEMMA ResHostsGrow ==
  ASSUME NEW k, NEW e, k \notin DOMAIN results, results' = Put(results, k, e)
  PROVE  Rows("result", ResHosts)' = Rows("result", ResHosts) \cup {<<"result", k, e.host>>}
<1>1. ResHosts' = Put(ResHosts, k, e.host) /\ k \notin DOMAIN ResHosts
  BY DEF ResHosts, Put
<1>2. Rows("result", ResHosts)' = Rows("result", ResHosts')
  BY DEF Rows
<1> QED
  BY <1>1, <1>2, RowsPut

LEMMA ResHostsDrop ==
  ASSUME NEW k \in DOMAIN results, NEW o, o = <<"result", k, results[k].host>>,
         results' = Drop(results, k)
  PROVE  /\ Rows("result", ResHosts)' = Rows("result", ResHosts) \ {o}
         /\ o \in Rows("result", ResHosts)
<1>1. ResHosts' = Drop(ResHosts, k) /\ k \in DOMAIN ResHosts /\ ResHosts[k] = results[k].host
  BY DEF ResHosts, Drop, Restrict
<1>2. Rows("result", ResHosts)' = Rows("result", ResHosts')
  BY DEF Rows
<1>3. o \in Rows("result", ResHosts)
  BY <1>1 DEF Rows
<1> QED
  BY <1>1, <1>2, <1>3, RowsDrop

LEMMA HostRowsApart ==
  ASSUME NEW k, NEW v
  PROVE  /\ <<"mutable", k, v>> \notin Rows("resident", AdmHosts) \cup LostHosts \cup Rows("result", ResHosts)
         /\ <<"output", k, v>> \notin Rows("resident", AdmHosts) \cup LostHosts \cup Rows("result", ResHosts)
         /\ <<"result", k, v>> \notin Rows("resident", AdmHosts) \cup UseHosts \cup LostHosts
BY DEF UseHosts, LostHosts, Rows

LEMMA StateHost ==
  ASSUME Shape, HostInv, NEW a \in DOMAIN admissions, NEW st, admissions' = SetState(a, st),
         UNCHANGED <<uses, hostReserved>>
  PROVE  HostInv'
<1>1. AdmHosts' = AdmHosts
  BY HostsStay
<1> QED
  BY <1>1, HostQuiet DEF uses

LEMMA PollHost ==
  ASSUME IInv, HostInv, Poll
  PROVE  HostInv'
<1>1. Shape
  BY DEF IInv
<1>2. CASE PollRelease
  <2>1. PICK a \in LocalReleases : ReleaseAdmission(a)
    BY <1>2 DEF PollRelease
  <2>2. a \in DOMAIN admissions /\ UNCHANGED uses
    BY <1>2 DEF LocalReleases, PollRelease
  <2> QED
    BY <2>1, <2>2, HostReleased DEF uses
<1>3. ASSUME NEW a \in DOMAIN admissions, NEW kind, NEW st, Issue(a, kind, st) PROVE HostInv'
  BY <1>1, <1>3, StateHost DEF Issue, accounts
<1>4. CASE PollLoad
  BY <1>3, <1>4 DEF PollLoad, Loadable
<1>5. CASE PollEvict
  BY <1>3, <1>5 DEF PollEvict, Evictable
<1> QED
  BY <1>2, <1>4, <1>5 DEF Poll

LEMMA CompleteHost ==
  ASSUME IInv, HostInv, NEW o \in DOMAIN operations, Complete(o)
  PROVE  HostInv'
<1>1. PICK a : a = operations[o].adm
  OBVIOUS
<1>2. a \in DOMAIN admissions /\ UNCHANGED uses /\ Shape
  BY <1>1 DEF IInv, PendingInv, Complete
<1>3. CASE ReleasedBy(o, "load") \/ ReleasedBy(o, "evict")
  <2>1. ReleaseAdmission(a)
    BY <1>1, <1>3 DEF ReleasedBy
  <2> QED
    BY <1>2, <2>1, HostReleased DEF uses
<1>4. CASE \/ \E h \in Handle : Loaded(o, h)
           \/ QuarantinedBy(o, "load") \/ QuarantinedBy(o, "evict") \/ EvictFailed(o)
  <2>1. PICK st : admissions' = SetState(a, st) /\ UNCHANGED hostReserved
    BY <1>1, <1>4 DEF Loaded, QuarantinedBy, EvictFailed, accounts
  <2> QED
    BY <1>2, <2>1, StateHost
<1> QED
  BY <1>3, <1>4 DEF Complete

LEMMA NativeLoadHost ==
  ASSUME IInv, HostInv, NEW n \in DOMAIN nativeLoads, NativeLoadEnds(n)
  PROVE  HostInv'
<1>1. PICK a : a = nativeLoads[n]
  OBVIOUS
<1>2. a \in DOMAIN admissions /\ UNCHANGED uses /\ Shape
  BY <1>1 DEF IInv, PendingInv, NativeLoadEnds, CompleteNativeLoad, NativeLoadReleased,
              QuarantineNativeLoad
<1>3. CASE NativeLoadReleased(n)
  <2>1. ReleaseAdmission(a)
    BY <1>1, <1>3 DEF NativeLoadReleased
  <2> QED
    BY <1>2, <2>1, HostReleased DEF uses
<1>4. CASE (\E h \in Handle : CompleteNativeLoad(n, h)) \/ QuarantineNativeLoad(n)
  <2>1. PICK st : admissions' = SetState(a, st) /\ UNCHANGED hostReserved
    BY <1>1, <1>4 DEF CompleteNativeLoad, QuarantineNativeLoad, accounts
  <2> QED
    BY <1>2, <2>1, StateHost
<1> QED
  BY <1>3, <1>4 DEF NativeLoadEnds

LEMMA OwnerHost ==
  ASSUME IInv, HostInv, Owner
  PROVE  HostInv'
<1>1. CASE Revoke
  <2>1. ASSUME NEW b \in DOMAIN admissions PROVE admissions'[b].host = admissions[b].host
    <3>1. /\ Entry(admissions[b])
          /\ admissions'[b] = [admissions[b] EXCEPT !.state = ToDraining(admissions[b].state)]
      BY <1>1 DEF Revoke, IInv, Shape
    <3>2. PICK st : st = ToDraining(admissions[b].state)
      OBVIOUS
    <3> QED
      BY <3>1, <3>2 DEF Entry
  <2>2. DOMAIN admissions' = DOMAIN admissions
    BY <1>1 DEF Revoke
  <2>3. AdmHosts' = AdmHosts
    BY <2>1, <2>2 DEF AdmHosts
  <2> QED
    BY <1>1, <2>3, HostQuiet DEF Revoke, accounts, uses
<1>2. CASE \E g \in Grants : ReplaceGrant(g)
  <2>1. AdmHosts' = AdmHosts /\ UNCHANGED <<uses, hostReserved>>
    BY <1>2 DEF ReplaceGrant, AdmHosts
  <2> QED
    BY <2>1, HostQuiet DEF uses
<1> QED
  BY <1>1, <1>2 DEF Owner

(* Legacy admissions own no host bytes. *)
LEMMA CommitHost ==
  ASSUME IInv, HostInv, Commit
  PROVE  HostInv'
<1>1. PICK k, len, new : /\ k = nextId.adm /\ len = Len(prepared.placements)
                         /\ new = k..(k + len - 1)
  OBVIOUS
<1>2. /\ k \in Nat /\ len \in Nat /\ \A b \in DOMAIN admissions : b \in 1..(k - 1)
  BY <1>1 DEF IInv, Shape, Counters, Count, Commit
<1>3. /\ DOMAIN admissions' = DOMAIN admissions \cup new
      /\ \A a \in new : admissions'[a].host = 0
      /\ \A a \in DOMAIN admissions \ new : admissions'[a] = admissions[a]
      /\ UNCHANGED <<uses, hostReserved>>
  BY <1>1 DEF Commit
<1>4. \A b \in DOMAIN admissions : b \notin new
  BY <1>1, <1>2
<1>5. PICK N : N = {<<"resident", a, 0>> : a \in new}
  OBVIOUS
<1>6. Rows("resident", AdmHosts)' = Rows("resident", AdmHosts) \cup N
  BY <1>3, <1>4, <1>5 DEF Rows, AdmHosts
<1>7. HostOwners' = HostOwners \cup N
  BY <1>3, <1>6, HostsAreRows, HostsAreRowsNext, HostTables
     DEF HostsFollowRows, AllHosts, uses
<1>8. ASSUME NEW o \in N PROVE o[3] = 0 /\ NewName(HostOwners, o) /\ NewName(N \ {o}, o)
  <2>1. PICK a \in new : o = <<"resident", a, 0>>
    BY <1>5
  <2>2. NewName(HostOwners, o)
    BY <1>4, <2>1, HostNames
  <2>3. NewName(N \ {o}, o)
    BY <1>5, <2>1 DEF NewName
  <2> QED
    BY <2>1, <2>2, <2>3
<1>9. PICK S, n : S = HostOwners /\ n = hostReserved /\ Charges(S, n)
  BY DEF HostInv
<1>10. Charges(S \cup N, n)
  BY <1>8, <1>9, ChargesNothing
<1> QED
  BY <1>3, <1>7, <1>9, <1>10 DEF HostInv, Charges, Units, NewName

LEMMA AdmitHost ==
  ASSUME IInv, HostInv, NEW r \in NativeRequests, AdmitNativeResident(r)
  PROVE  HostInv'
<1>1. PICK k, x, S, n : /\ k = nextId.adm /\ x = <<"resident", k, r.host>>
                        /\ S = HostOwners /\ n = hostReserved
  OBVIOUS
<1>2. k \notin DOMAIN admissions /\ r.host \in Nat /\ x[3] = r.host
  BY <1>1, NativeAssumption, WordAssumption DEF IInv, Shape, Counters, Count, Word
<1>3. PICK e : admissions' = Put(admissions, k, e) /\ e.host = r.host
  BY <1>1 DEF AdmitNativeResident
<1>4. AdmHosts' = Put(AdmHosts, k, r.host) /\ k \notin DOMAIN AdmHosts
  BY <1>2, <1>3 DEF AdmHosts, Put
<1>5. Rows("resident", AdmHosts)' = Rows("resident", AdmHosts) \cup {x}
  <2>1. Rows("resident", AdmHosts)' = Rows("resident", AdmHosts')
    BY DEF Rows
  <2> QED
    BY <1>1, <1>4, <2>1, RowsPut
<1>6. UNCHANGED uses /\ hostReserved' = n + r.host /\ n + r.host <= HostEnvelope
  BY <1>1 DEF AdmitNativeResident, HostFits
<1>7. HostOwners' = S \cup {x}
  BY <1>1, <1>5, <1>6, HostsAreRows, HostsAreRowsNext, HostTables DEF HostsFollowRows, AllHosts, uses
<1>8. NewName(S, x)
  BY <1>1, <1>2, HostNames
<1>9. Charges(S, n)
  BY <1>1 DEF HostInv
<1>10. Charges(S \cup {x}, n + r.host)
  BY <1>2, <1>8, <1>9, ChargesGrow
<1> QED
  BY <1>6, <1>7, <1>10 DEF HostInv, Charges, Units, NewName

LEMMA PermitHost ==
  ASSUME IInv, HostInv, (\E a : BeginUse(a)) \/ (\E p \in DOMAIN permits : FinishUse(p))
  PROVE  HostInv'
<1>1. PICK a : /\ a \in DOMAIN admissions
               /\ admissions' = InUse(a) \/ admissions' = Finished(a)
  <2>1. CASE \E b : BeginUse(b)
    BY <2>1 DEF BeginUse, Startable, Current
  <2>2. CASE \E p \in DOMAIN permits : FinishUse(p)
    BY <2>2 DEF FinishUse, IInv, UseInv, UsesMatchPermits
  <2> QED
    BY <2>1, <2>2
<1>2. UNCHANGED <<nativeUses, quarantined, results, hostReserved>>
  BY DEF BeginUse, FinishUse, accounts
<1> QED
  BY <1>1, <1>2, HostsStay, HostQuiet DEF IInv

LEMMA BeginNativeUseHost ==
  ASSUME IInv, HostInv, NEW a, NEW r \in NativeUseRequests, BeginNativeUse(a, r)
  PROVE  HostInv'
<1>1. PICK k, m, t, S, n : /\ k = nextId.use /\ m = r.mutHost /\ t = r.retHost
                           /\ S = HostOwners /\ n = hostReserved
  OBVIOUS
<1>2. k \notin DOMAIN nativeUses /\ m \in Nat /\ t \in Nat
  BY <1>1, NativeAssumption, WordAssumption DEF IInv, Shape, UseInv, Counters, Count, Word
<1>3. PICK u : nativeUses' = Put(nativeUses, k, u) /\ u.host = m /\ u.retainedHost = t
  BY <1>1 DEF BeginNativeUse
<1>4. /\ a \in DOMAIN admissions /\ admissions' = InUse(a)
      /\ UNCHANGED <<quarantined, results>>
      /\ hostReserved' = n + m + t /\ n + (m + t) <= HostEnvelope
  BY <1>1 DEF BeginNativeUse, Startable, Current, HostFits
<1>5. AdmHosts' = AdmHosts
  BY <1>4, HostsStay DEF IInv
<1>6. PICK x, y : x = <<"mutable", k, m>> /\ y = <<"output", k, t>>
  OBVIOUS
<1>7. UseHosts' = UseHosts \cup {x, y}
  BY <1>2, <1>3, <1>6, UseHostsBegun
<1>8. HostOwners' = (S \cup {x}) \cup {y}
  BY <1>1, <1>4, <1>5, <1>7, HostsAreRows, HostsAreRowsNext, HostTables DEF HostsFollowRows, AllHosts
<1>9. x[3] = m /\ y[3] = t /\ NewName(S, x) /\ NewName(S \cup {x}, y)
  <2>1. NewName(S, x) /\ NewName(S, y)
    BY <1>1, <1>2, <1>6, HostNames
  <2> QED
    BY <1>6, <2>1 DEF NewName
<1>10. Charges(S, n)
  BY <1>1 DEF HostInv
<1>11. Charges(S \cup {x}, n + m)
  BY <1>2, <1>9, <1>10, ChargesGrow
<1>12. Charges((S \cup {x}) \cup {y}, n + m + t)
  BY <1>2, <1>9, <1>11, ChargesGrow
<1>13. n + m + t <= HostEnvelope
  <2>1. n \in Nat
    BY <1>10, FS_CardinalityType DEF Charges
  <2> QED
    BY <1>2, <1>4, <2>1
<1> QED
  BY <1>4, <1>8, <1>12, <1>13 DEF HostInv, Charges, Units, NewName

(* The mutable bytes go, what is retained becomes the result's. *)
LEMMA FinishNativeUseHost ==
  ASSUME IInv, OwnInv, HostInv, NEW m \in DOMAIN nativeUses, FinishNativeUse(m)
  PROVE  HostInv'
<1>1. PICK u, a, k, S, n : /\ u = nativeUses[m] /\ a = u.adm /\ k = nextId.result
                           /\ S = HostOwners /\ n = hostReserved
  OBVIOUS
<1>2. a \in DOMAIN admissions /\ k \notin DOMAIN results
  BY <1>1 DEF IInv, Shape, UseInv, UsesMatchPermits, Counters, Count, OwnInv
<1>3. /\ admissions' = Finished(a) /\ nativeUses' = Drop(nativeUses, m) /\ UNCHANGED quarantined
      /\ hostReserved' = n - u.host
  BY <1>1 DEF FinishNativeUse
<1>4. AdmHosts' = AdmHosts
  BY <1>2, <1>3, HostsStay DEF IInv
<1>5. PICK x, y, z : /\ x = <<"mutable", m, u.host>> /\ y = <<"output", m, u.retainedHost>>
                     /\ z = <<"result", k, u.retainedHost>>
  OBVIOUS
<1>6. x[3] = u.host /\ y[3] = u.retainedHost /\ z[3] = u.retainedHost /\ x # y
  BY <1>5
<1>7. UseHosts' = UseHosts \ {x, y} /\ x \in UseHosts /\ y \in UseHosts
  BY <1>1, <1>3, <1>5, UseHostsEnded
<1>8. /\ x \notin Rows("resident", AdmHosts) \cup LostHosts \cup Rows("result", ResHosts)
      /\ y \notin Rows("resident", AdmHosts) \cup LostHosts \cup Rows("result", ResHosts)
      /\ z \notin Rows("resident", AdmHosts) \cup UseHosts \cup LostHosts
  BY <1>5, HostRowsApart
<1>9. UNCHANGED Rows("resident", AdmHosts) /\ UNCHANGED LostHosts
  BY <1>3, <1>4, HostTables
<1>10. Charges(S, n) /\ n <= HostEnvelope
  BY <1>1 DEF HostInv
<1>11. PICK T, j : T = S \ {x} /\ j = n - u.host
  OBVIOUS
<1>12. x \in S /\ y \in T
  BY <1>1, <1>6, <1>7, <1>11, HostsAreRows DEF HostsFollowRows, AllHosts
<1>13. Charges(T, j) /\ u.host \in Nat /\ n \in Nat /\ j \in Nat
  BY <1>6, <1>10, <1>11, <1>12, ChargesDrop
<1>14. Charges(HostOwners', j)
  <2>1. CASE KeepsOutput(u)
    <3>1. PICK e : results' = Put(results, k, e) /\ e.host = u.retainedHost
      BY <1>1, <2>1 DEF FinishNativeUse
    <3>2. Rows("result", ResHosts)' = Rows("result", ResHosts) \cup {z}
      BY <1>2, <1>5, <3>1, ResHostsGrow
    <3>3. HostOwners' = (T \ {y}) \cup {z}
      <4>1. S = Rows("resident", AdmHosts) \cup UseHosts \cup LostHosts \cup Rows("result", ResHosts)
        BY <1>1, HostsAreRows DEF HostsFollowRows, AllHosts
      <4>2. HostOwners' = Rows("resident", AdmHosts)' \cup UseHosts' \cup LostHosts'
                            \cup Rows("result", ResHosts)'
        BY HostsAreRowsNext DEF HostsFollowRows, AllHosts
      <4> QED
        BY <1>7, <1>8, <1>9, <1>11, <3>2, <4>1, <4>2
    <3>4. NewName(T, z)
      <4>1. NewName(S, z)
        BY <1>1, <1>2, <1>5, HostNames
      <4> QED
        BY <1>11, <4>1 DEF NewName
    <3>5. Charges((T \ {y}) \cup {z}, j)
      BY <1>6, <1>12, <1>13, <3>4, ChargesMove
    <3> QED
      BY <3>3, <3>5
  <2>2. CASE ~KeepsOutput(u)
    <3>1. u.retainedHost = 0 /\ UNCHANGED results
      BY <1>1, <2>2 DEF FinishNativeUse, KeepsOutput
    <3>2. HostOwners' = T \ {y}
      <4>1. UNCHANGED Rows("result", ResHosts)
        BY <3>1, HostTables
      <4>2. S = Rows("resident", AdmHosts) \cup UseHosts \cup LostHosts \cup Rows("result", ResHosts)
        BY <1>1, HostsAreRows DEF HostsFollowRows, AllHosts
      <4>3. HostOwners' = Rows("resident", AdmHosts)' \cup UseHosts' \cup LostHosts'
                            \cup Rows("result", ResHosts)'
        BY HostsAreRowsNext DEF HostsFollowRows, AllHosts
      <4> QED
        BY <1>7, <1>8, <1>9, <1>11, <4>1, <4>2, <4>3
    <3>3. Charges(T \ {y}, j - y[3])
      BY <1>12, <1>13, ChargesDrop
    <3>4. j - y[3] = j
      BY <1>6, <1>13, <3>1
    <3> QED
      BY <3>2, <3>3, <3>4
  <2> QED
    BY <2>1, <2>2
<1>15. j <= HostEnvelope
  BY <1>10, <1>11, <1>13, HostAssumption, WordAssumption DEF Word
<1> QED
  BY <1>3, <1>11, <1>14, <1>15 DEF HostInv, Charges, Units, NewName

(* A quarantined use keeps both its charges. *)
LEMMA QuarantineUseHost ==
  ASSUME IInv, HostInv, NEW m \in DOMAIN nativeUses, QuarantineNativeUse(m)
  PROVE  HostInv'
<1>1. PICK u, a, S, n : u = nativeUses[m] /\ a = u.adm /\ S = HostOwners /\ n = hostReserved
  OBVIOUS
<1>2. a \in DOMAIN admissions /\ m \notin DOMAIN quarantined
  BY <1>1 DEF IInv, UseInv, UsesMatchPermits
<1>3. PICK st : /\ admissions' = SetState(a, st)
                /\ nativeUses' = Drop(nativeUses, m) /\ quarantined' = Put(quarantined, m, u)
                /\ UNCHANGED <<results, hostReserved>>
  BY <1>1 DEF QuarantineNativeUse, accounts
<1>4. AdmHosts' = AdmHosts
  BY <1>2, <1>3, HostsStay DEF IInv
<1>5. PICK x, y, p, q :
        /\ x = <<"mutable", m, u.host>> /\ y = <<"output", m, u.retainedHost>>
        /\ p = <<"lost mutable", m, u.host>> /\ q = <<"lost output", m, u.retainedHost>>
  OBVIOUS
<1>6. x[3] = p[3] /\ y[3] = q[3] /\ x # y /\ x # q /\ y # p /\ p # y
  BY <1>5
<1>7. UseHosts' = UseHosts \ {x, y} /\ x \in UseHosts /\ y \in UseHosts
  BY <1>1, <1>3, <1>5, UseHostsEnded
<1>8. LostHosts' = LostHosts \cup {p, q}
  BY <1>2, <1>3, <1>5, LostHostsGrow
<1>9. /\ x \notin Rows("resident", AdmHosts) \cup LostHosts \cup Rows("result", ResHosts)
      /\ y \notin Rows("resident", AdmHosts) \cup LostHosts \cup Rows("result", ResHosts)
  BY <1>5, HostRowsApart
<1>10. PICK T : T = (S \ {x}) \cup {p}
  OBVIOUS
<1>11. x \in S /\ y \in T /\ HostOwners' = (T \ {y}) \cup {q}
  <2>1. S = Rows("resident", AdmHosts) \cup UseHosts \cup LostHosts \cup Rows("result", ResHosts)
    BY <1>1, HostsAreRows DEF HostsFollowRows, AllHosts
  <2>2. HostOwners' = Rows("resident", AdmHosts)' \cup UseHosts' \cup LostHosts'
                        \cup Rows("result", ResHosts)'
    BY HostsAreRowsNext DEF HostsFollowRows, AllHosts
  <2>3. UNCHANGED Rows("resident", AdmHosts) /\ UNCHANGED Rows("result", ResHosts)
    BY <1>3, <1>4, HostTables
  <2> QED
    BY <1>6, <1>7, <1>8, <1>9, <1>10, <2>1, <2>2, <2>3
<1>12. Charges(S, n) /\ n <= HostEnvelope
  BY <1>1 DEF HostInv
<1>13. NewName(S, p) /\ NewName(T, q)
  <2>1. NewName(S, p) /\ NewName(S, q)
    BY <1>1, <1>2, <1>5, HostNames
  <2>2. <<p[1], p[2]>> # <<q[1], q[2]>>
    BY <1>5
  <2>3. \A v \in T : v \in S \/ v = p
    BY <1>10
  <2> QED
    BY <2>1, <2>2, <2>3 DEF NewName
<1>14. Charges(T, n)
  BY <1>6, <1>10, <1>11, <1>12, <1>13, ChargesMove
<1>15. Charges((T \ {y}) \cup {q}, n)
  BY <1>6, <1>11, <1>13, <1>14, ChargesMove
<1> QED
  BY <1>1, <1>3, <1>11, <1>12, <1>15 DEF HostInv, Charges, Units, NewName

LEMMA DiscardResultHost ==
  ASSUME HostInv, NEW k \in DOMAIN results, DiscardNativeResult(k)
  PROVE  HostInv'
<1>1. PICK o, S, n : o = <<"result", k, results[k].host>> /\ S = HostOwners /\ n = hostReserved
  OBVIOUS
<1>2. /\ results' = Drop(results, k) /\ UNCHANGED <<admissions, nativeUses, quarantined>>
      /\ hostReserved' = n - o[3]
  BY <1>1 DEF DiscardNativeResult
<1>3. /\ Rows("result", ResHosts)' = Rows("result", ResHosts) \ {o}
      /\ o \in Rows("result", ResHosts)
  BY <1>1, <1>2, ResHostsDrop
<1>4. o \notin Rows("resident", AdmHosts) \cup UseHosts \cup LostHosts
  BY <1>1, HostRowsApart
<1>5. AdmHosts' = AdmHosts
  BY <1>2 DEF AdmHosts
<1>6. o \in S /\ HostOwners' = S \ {o}
  <2>1. S = Rows("resident", AdmHosts) \cup UseHosts \cup LostHosts \cup Rows("result", ResHosts)
    BY <1>1, HostsAreRows DEF HostsFollowRows, AllHosts
  <2>2. HostOwners' = Rows("resident", AdmHosts)' \cup UseHosts' \cup LostHosts'
                        \cup Rows("result", ResHosts)'
    BY HostsAreRowsNext DEF HostsFollowRows, AllHosts
  <2>3. UNCHANGED Rows("resident", AdmHosts) /\ UNCHANGED UseHosts /\ UNCHANGED LostHosts
    BY <1>2, <1>5, HostTables
  <2> QED
    BY <1>3, <1>4, <2>1, <2>2, <2>3
<1>7. Charges(S, n) /\ n <= HostEnvelope
  BY <1>1 DEF HostInv
<1>8. Charges(S \ {o}, n - o[3]) /\ o[3] \in Nat /\ n \in Nat
  BY <1>6, <1>7, ChargesDrop
<1>9. n - o[3] <= HostEnvelope
  BY <1>7, <1>8, HostAssumption, WordAssumption DEF Word
<1> QED
  BY <1>2, <1>6, <1>8, <1>9 DEF HostInv, Charges, Units, NewName

LEMMA InitHost == Init => HostInv
<1> SUFFICES ASSUME Init PROVE HostInv
  OBVIOUS
<1>1. /\ DOMAIN admissions = {} /\ DOMAIN nativeUses = {}
      /\ DOMAIN quarantined = {} /\ DOMAIN results = {} /\ hostReserved = 0
  BY DEF Init, Empty
<1>2. HostOwners = {}
  BY <1>1 DEF HostOwners
<1>3. Units({}) = {}
  BY DEF Units
<1>4. Charges({}, 0)
  BY <1>3, FS_EmptySet DEF Charges
<1>5. 0 <= HostEnvelope
  BY HostAssumption, WordAssumption DEF Word
<1> QED
  BY <1>1, <1>2, <1>4, <1>5 DEF HostInv

LEMMA NextHost ==
  ASSUME IInv, OwnInv, HostInv, [Next]_vars
  PROVE  HostInv'
<1>1. CASE Poll
  BY <1>1, PollHost
<1>2. CASE Caller
  <2>1. ASSUME (\E ws \in Requests : Prepare(ws)) \/ DiscardPrepared PROVE HostInv'
    <3>1. UNCHANGED <<admissions, nativeUses, quarantined, results, hostReserved>>
      BY <2>1 DEF Prepare, DiscardPrepared, accounts, uses
    <3>2. AdmHosts' = AdmHosts
      BY <3>1 DEF AdmHosts
    <3> QED
      BY <3>1, <3>2, HostQuiet
  <2>2. ASSUME NEW a \in DOMAIN admissions, RequestRetirement(a) PROVE HostInv'
    <3>1. PICK st : admissions' = SetState(a, st) /\ UNCHANGED <<uses, hostReserved>>
      BY <2>2 DEF RequestRetirement, accounts
    <3> QED
      BY <3>1, StateHost DEF IInv
  <2> QED
    BY <1>2, <2>1, <2>2, CommitHost, AdmitHost, PermitHost, BeginNativeUseHost DEF Caller
<1>3. CASE Owner
  BY <1>3, OwnerHost
<1>4. CASE Executor
  BY <1>4, CompleteHost DEF Executor
<1>5. CASE Adapter
  BY <1>5, NativeLoadHost, PermitHost, FinishNativeUseHost, QuarantineUseHost, DiscardResultHost
     DEF Adapter
<1>6. CASE UNCHANGED vars
  <2>1. UNCHANGED <<admissions, nativeUses, quarantined, results, hostReserved>>
    BY <1>6 DEF vars
  <2>2. AdmHosts' = AdmHosts
    BY <2>1 DEF AdmHosts
  <2> QED
    BY <2>1, <2>2, HostQuiet
<1> QED
  BY <1>1, <1>2, <1>3, <1>4, <1>5, <1>6 DEF Next

(* The host counter is the sum of the host bytes of its owners and stays    *)
(* in the supplied envelope: a load that ends without a resident, a use, a  *)
(* retained result and a quarantined use each return what they reserved     *)
(* once, or keep it.                                                        *)
THEOREM HostBytesAreOwned == Spec => []HostBytesMatchOwners
<1>1. Init => OwnInv /\ ResidentsApart /\ HostInv
  BY InitOwn, InitHost
<1>2. IInv /\ OwnInv /\ ResidentsApart /\ HostInv /\ [Next]_vars
        => OwnInv' /\ ResidentsApart' /\ HostInv'
  BY NextOwn, NextHost DEF OwnersHold
<1>3. HostInv => HostBytesMatchOwners
  BY DEF HostInv, Charges, Units, HostBytesMatchOwners
<1> QED
  BY <1>1, <1>2, <1>3, AlwaysInv, PTL DEF Spec

------------------------------------------------------------------------------
(* The ledger keeps its shape.  The lemmas are those ReservationLedger_proofs *)
(* has for its own ledgers, about the operators of PlacementLedger.          *)

LEMMA BytesOfBatch ==
  ASSUME NEW batch \in Seq(Placement), NEW d
  PROVE  BytesOn(batch, d) \in Nat
<1> DEFINE Box == (DOMAIN batch) \X (1..U64Max)
<1>1. DOMAIN batch = 1..Len(batch) /\ Len(batch) \in Nat
      /\ \A i \in DOMAIN batch : batch[i] \in Placement
  OBVIOUS
<1>2. IsFiniteSet(Box)
  <2>1. IsFiniteSet(DOMAIN batch)
    BY <1>1, FS_Interval
  <2>2. IsFiniteSet(1..U64Max)
    BY FS_Interval, WordAssumption
  <2> QED
    BY <2>1, <2>2, FS_Product
<1>3. ASSUME NEW i \in DOMAIN batch PROVE 1..batch[i].bytes \subseteq 1..U64Max
  BY <1>1, WordAssumption DEF Placement, Word
<1>4. UnitsOn(batch, d) \subseteq Box
  BY <1>3 DEF UnitsOn
<1>5. IsFiniteSet(UnitsOn(batch, d))
  BY <1>2, <1>4, FS_Subset
<1> QED
  BY <1>5, FS_CardinalityType DEF BytesOn

LEMMA DeviceNumbers ==
  ASSUME NEW l, IsLedger(l), NEW d \in Device
  PROVE  /\ l.snap.total[d] \in Word
         /\ l.snap.reserved[d] \in Nat
         /\ l.snap.committed[d] \in Nat
         /\ Reserved(l, d) \in Nat
<1>1. l.snap \in Snapshot
  BY DEF IsLedger
<1>2. /\ l.snap.total[d] \in Word /\ l.snap.reserved[d] \in Word
      /\ l.snap.committed[d] \in Word
  BY <1>1 DEF Snapshot
<1>3. Reserved(l, d) \in Word
  BY WordAssumption DEF IsLedger, Reserved, Word
<1> QED
  BY <1>2, <1>3, WordAssumption DEF Word

LEMMA ReserveKeepsLedger ==
  ASSUME NEW l, IsLedger(l), NEW batch \in Seq(Placement), CanReserve(l, batch)
  PROVE  IsLedger(Reserve(l, batch))
<1>1. PICK new, n, c : new = Reserve(l, batch) /\ n = Len(batch) /\ c = l.nextId
  OBVIOUS
<1>2. /\ DOMAIN batch = 1..n /\ n \in Nat /\ c \in Nat \ {0}
      /\ \A i \in DOMAIN batch : batch[i] \in Placement
  BY <1>1, WordAssumption DEF IsLedger, Word
<1>3. /\ new.snap = l.snap /\ new.nextId = c + n /\ new.rev = l.rev + 1
      /\ DOMAIN new.dyn = DOMAIN l.dyn \cup {batch[i].dev : i \in DOMAIN batch}
      /\ \A d \in DOMAIN new.dyn : new.dyn[d] = Reserved(l, d) + BytesOn(batch, d)
      /\ DOMAIN new.leases = DOMAIN l.leases \cup c..(c + n - 1)
      /\ \A k \in DOMAIN new.leases :
            new.leases[k] = IF k \in c..(c + n - 1) THEN batch[k - c + 1] ELSE l.leases[k]
  BY <1>1 DEF Reserve, NewIds
<1>4. DOMAIN new.dyn \subseteq Device
  BY <1>2, <1>3 DEF IsLedger, Placement
<1>5. ASSUME NEW d \in DOMAIN new.dyn
      PROVE  new.dyn[d] \in Word
  <2>1. d \in Device
    BY <1>4
  <2>2. PICK t \in Word, s \in Nat, m \in Nat, r \in Nat, b \in Nat :
          /\ t = l.snap.total[d] /\ s = l.snap.reserved[d] /\ m = l.snap.committed[d]
          /\ r = Reserved(l, d) /\ b = BytesOn(batch, d)
    BY <2>1, DeviceNumbers, BytesOfBatch
  <2>3. b <= t - s - m - r
    BY <2>1, <2>2 DEF CanReserve, Remaining
  <2>4. r + b \in Word
    BY <2>3, WordAssumption DEF Word
  <2> QED
    BY <1>3, <2>2, <2>4
<1>6. DOMAIN new.leases \subseteq 1..(new.nextId - 1)
  <2>1. DOMAIN l.leases \subseteq 1..(c - 1)
    BY <1>1 DEF IsLedger
  <2> QED
    BY <1>2, <1>3, <2>1
<1>7. ASSUME NEW k \in DOMAIN new.leases PROVE new.leases[k] \in Placement
  <2>1. CASE k \in c..(c + n - 1)
    <3>1. k - c + 1 \in DOMAIN batch /\ new.leases[k] = batch[k - c + 1]
      BY <1>2, <1>3, <2>1
    <3> QED
      BY <1>2, <3>1
  <2>2. CASE k \notin c..(c + n - 1)
    BY <1>3, <2>2 DEF IsLedger
  <2> QED
    BY <2>1, <2>2
<1>8. new.rev \in Word /\ new.nextId \in Word \ {0}
  BY <1>1, <1>2, <1>3, WordAssumption DEF CanReserve, IsLedger, Word
<1>9. IsLedger(new)
  BY <1>3, <1>4, <1>5, <1>6, <1>7, <1>8 DEF IsLedger
<1> QED
  BY <1>1, <1>9

LEMMA ReleaseKeepsLedger ==
  ASSUME NEW l, IsLedger(l), NEW c, Takeable(l, c)
  PROVE  IsLedger(Release(l, c.id))
<1>1. PICK p, id : p = [dev |-> c.dev, bytes |-> c.bytes] /\ id = c.id
  OBVIOUS
<1>2. CanRelease(l, id, p) /\ l.leases[id] = p /\ id \in DOMAIN l.leases /\ p \in Placement
  BY <1>1 DEF Takeable, CanRelease, IsLedger
<1>3. PICK new, left : new = Release(l, id) /\ left = l.dyn[p.dev] - p.bytes
  OBVIOUS
<1>4. left \in Word
  <2>1. l.dyn[p.dev] \in Word /\ p.bytes \in Word /\ p.bytes <= l.dyn[p.dev]
    BY <1>2 DEF CanRelease, IsLedger, Placement
  <2> QED
    BY <1>3, <2>1, WordAssumption DEF Word
<1>5. /\ new.snap = l.snap /\ new.nextId = l.nextId /\ new.rev = l.rev + 1
      /\ DOMAIN new.leases = DOMAIN l.leases \ {id}
      /\ \A k \in DOMAIN new.leases : new.leases[k] = l.leases[k]
  BY <1>3 DEF Release
<1>6. /\ DOMAIN new.dyn \subseteq DOMAIN l.dyn
      /\ \A d \in DOMAIN new.dyn : new.dyn[d] = IF d = p.dev THEN left ELSE l.dyn[d]
  BY <1>2, <1>3 DEF Release
<1>7. new.rev \in Word
  BY <1>2, <1>5, WordAssumption DEF CanRelease, IsLedger, Word
<1>8. \A d \in DOMAIN new.dyn : new.dyn[d] \in Word
  BY <1>4, <1>6 DEF IsLedger
<1>9. IsLedger(new)
  BY <1>5, <1>6, <1>7, <1>8 DEF IsLedger
<1> QED
  BY <1>1, <1>3, <1>9

(* Every step that touches the ledger reserves a batch that passed the     *)
(* checks, releases a lease that passed them, or starts with a new grant.  *)
LEMMA NextLedger ==
  ASSUME IInv, IsLedger(ledger), [Next]_vars
  PROVE  IsLedger(ledger')
<1>1. CASE UNCHANGED ledger
  BY <1>1
<1>2. ASSUME NEW c, Takeable(ledger, c), ledger' = Release(ledger, c.id) PROVE IsLedger(ledger')
  BY <1>2, ReleaseKeepsLedger
<1>3. ASSUME NEW batch \in Seq(Placement), CanReserve(ledger, batch), ledger' = Reserve(ledger, batch)
      PROVE  IsLedger(ledger')
  BY <1>3, ReserveKeepsLedger
<1>4. \A p \in Placement : <<p>> \in Seq(Placement)
  OBVIOUS
<1>5. \A p, q \in Placement : <<p, q>> \in Seq(Placement)
  OBVIOUS
<1>6. CASE Commit
  <2>1. prepared.placements \in Seq(Placement)
    BY <1>6 DEF IInv, Shape, Commit
  <2> QED
    BY <1>3, <1>6, <2>1 DEF Commit, Committable
<1>7. ASSUME NEW r \in NativeRequests, AdmitNativeResident(r) PROVE IsLedger(ledger')
  <2>1. PICK p : p = [dev |-> r.dev, bytes |-> r.bytes]
    OBVIOUS
  <2>2. p \in Placement
    BY <2>1, NativeAssumption DEF Placement
  <2>3. CanReserve(ledger, <<p>>) /\ ledger' = Reserve(ledger, <<p>>)
    BY <1>7, <2>1 DEF AdmitNativeResident
  <2> QED
    BY <1>3, <1>4, <2>2, <2>3
<1>8. ASSUME NEW a, NEW r \in NativeUseRequests, BeginNativeUse(a, r) PROVE IsLedger(ledger')
  <2>1. PICK d : d = admissions[a].lease.dev
    OBVIOUS
  <2>2. d \in Device
    BY <1>8, <2>1 DEF BeginNativeUse, IsLedger, Snapshot
  <2>3. PICK p, q : p = [dev |-> d, bytes |-> r.mutDev] /\ q = [dev |-> d, bytes |-> r.retDev]
    OBVIOUS
  <2>4. p \in Placement /\ q \in Placement
    BY <2>2, <2>3, NativeAssumption DEF Placement
  <2>5. PICK batch : /\ batch = <<p>> \/ batch = <<p, q>>
                     /\ CanReserve(ledger, batch) /\ ledger' = Reserve(ledger, batch)
    BY <1>8, <2>1, <2>3 DEF BeginNativeUse
  <2>6. batch \in Seq(Placement)
    BY <1>4, <1>5, <2>4, <2>5
  <2> QED
    BY <1>3, <2>5, <2>6
<1>9. ASSUME NEW a, ReleaseAdmission(a) PROVE IsLedger(ledger')
  BY <1>2, <1>9 DEF ReleaseAdmission
<1>10. ASSUME NEW g \in Grants, ReplaceGrant(g) PROVE IsLedger(ledger')
  <2>1. ledger' = NewLedger(g) /\ g \in Snapshot
    BY <1>10, GrantAssumption DEF ReplaceGrant
  <2> QED
    BY <2>1, WordAssumption DEF NewLedger, IsLedger, Word
<1>11. CASE Poll
  BY <1>1, <1>9, <1>11 DEF Poll, PollRelease, PollLoad, PollEvict, Issue, accounts
<1>12. CASE Caller
  BY <1>1, <1>6, <1>7, <1>8, <1>12
     DEF Caller, Prepare, DiscardPrepared, RequestRetirement, BeginUse, accounts
<1>13. CASE Owner
  BY <1>1, <1>10, <1>13 DEF Owner, Revoke, accounts
<1>14. CASE Executor
  BY <1>1, <1>9, <1>14 DEF Executor, Complete, Loaded, ReleasedBy, QuarantinedBy, EvictFailed, accounts
<1>15. CASE Adapter
  <2>1. ASSUME NEW n, NativeLoadEnds(n) PROVE IsLedger(ledger')
    BY <1>1, <1>9, <2>1 DEF NativeLoadEnds, CompleteNativeLoad, NativeLoadReleased,
                            QuarantineNativeLoad, accounts
  <2>2. ASSUME NEW p, FinishUse(p) PROVE IsLedger(ledger')
    BY <1>1, <2>2 DEF FinishUse, accounts
  <2>3. ASSUME NEW n, FinishNativeUse(n) \/ QuarantineNativeUse(n) PROVE IsLedger(ledger')
    BY <1>1, <1>2, <2>3 DEF FinishNativeUse, QuarantineNativeUse, accounts
  <2>4. ASSUME NEW n, DiscardNativeResult(n) PROVE IsLedger(ledger')
    BY <1>1, <1>2, <2>4 DEF DiscardNativeResult
  <2> QED
    BY <1>15, <2>1, <2>2, <2>3, <2>4 DEF Adapter
<1>16. CASE UNCHANGED vars
  BY <1>1, <1>16 DEF vars
<1> QED
  BY <1>11, <1>12, <1>13, <1>14, <1>15, <1>16 DEF Next

------------------------------------------------------------------------------
(* Counters, cursor, tickets and memory stay in their words.               *)
CounterInv ==
  /\ generation \in Id("generation") /\ revoked \in BOOLEAN
  /\ nextId.adm \in Id("adm") /\ nextId.op \in Id("op") /\ nextId.permit \in Id("permit")
  /\ nextId.load \in Id("load") /\ nextId.use \in Id("use") /\ nextId.result \in Id("result")
  /\ drainCursor \in Id("adm")
  /\ DOMAIN tickets = 1..(nextId.adm - 1)
  /\ \A a \in DOMAIN admissions : admissions[a].kind \in {"legacy", "native"}

LEMMA IdMaxima ==
  /\ IdMax.adm \in Count /\ IdMax.op \in Count /\ IdMax.permit \in Count
  /\ IdMax.load \in Count /\ IdMax.use \in Count /\ IdMax.result \in Count
  /\ IdMax.generation \in Count
BY IdAssumption DEF Count

(* Only Commit and AdmitNativeResident bring admissions, of their kind. *)
LEMMA KindsStay ==
  ASSUME Shape, CounterInv,
         \/ \E a \in DOMAIN admissions : \E st : admissions' = SetState(a, st)
         \/ \E a \in DOMAIN admissions : admissions' = InUse(a) \/ admissions' = Finished(a)
         \/ \E a : admissions' = Drop(admissions, a)
         \/ admissions' = admissions
  PROVE  \A a \in DOMAIN admissions' : admissions'[a].kind \in {"legacy", "native"}
<1>1. ASSUME NEW a \in DOMAIN admissions PROVE Entry(admissions[a]) /\ admissions[a].kind \in {"legacy", "native"}
  BY DEF Shape, CounterInv
<1>2. CASE \E a \in DOMAIN admissions : \E st : admissions' = SetState(a, st)
  BY <1>1, <1>2 DEF SetState, Entry
<1>3. CASE \E a \in DOMAIN admissions : admissions' = InUse(a)
  BY <1>1, <1>3 DEF InUse, Entry
<1>4. CASE \E a \in DOMAIN admissions : admissions' = Finished(a)
  BY <1>1, <1>4 DEF Finished, Entry
<1>5. CASE \E a : admissions' = Drop(admissions, a)
  BY <1>1, <1>5 DEF Drop, Restrict
<1> QED
  BY <1>1, <1>2, <1>3, <1>4, <1>5

LEMMA CountersStay ==
  ASSUME IInv, CounterInv, UNCHANGED <<generation, revoked, nextId, drainCursor, tickets>>,
         \A a \in DOMAIN admissions' : admissions'[a].kind \in {"legacy", "native"}
  PROVE  CounterInv'
BY DEF CounterInv

LEMMA CommitCounters ==
  ASSUME IInv, CounterInv, Commit
  PROVE  CounterInv'
<1>1. PICK k, len, new : /\ k = nextId.adm /\ len = Len(prepared.placements)
                         /\ new = k..(k + len - 1)
  OBVIOUS
<1>2. k \in Count /\ len \in Nat /\ nextId \in Counters
  BY <1>1 DEF IInv, Shape, Counters, Commit
<1>3. /\ DOMAIN admissions' = DOMAIN admissions \cup new
      /\ \A a \in new : admissions'[a].kind = "legacy"
      /\ \A a \in DOMAIN admissions \ new : admissions'[a] = admissions[a]
      /\ DOMAIN tickets' = DOMAIN tickets \cup new
      /\ k + len <= IdMax.adm
      /\ UNCHANGED <<generation, revoked, drainCursor>>
  BY <1>1 DEF Commit, Committable, grantVars
<1>4. nextId' = [nextId EXCEPT !.adm = k + len]
  BY <1>1 DEF Commit
<1>5. /\ nextId'.adm = k + len /\ nextId'.op = nextId.op /\ nextId'.permit = nextId.permit
      /\ nextId'.load = nextId.load /\ nextId'.use = nextId.use /\ nextId'.result = nextId.result
  BY <1>2, <1>4 DEF Counters
<1>6. nextId'.adm \in Id("adm")
  BY <1>2, <1>3, <1>5, IdMaxima DEF Id, Count
<1>7. DOMAIN tickets' = 1..(nextId'.adm - 1)
  <2>1. DOMAIN tickets = 1..(k - 1)
    BY <1>1 DEF CounterInv
  <2> QED
    BY <1>1, <1>2, <1>3, <1>5, <2>1 DEF Count
<1>8. \A a \in DOMAIN admissions' : admissions'[a].kind \in {"legacy", "native"}
  BY <1>3 DEF CounterInv
<1> QED
  BY <1>3, <1>5, <1>6, <1>7, <1>8 DEF CounterInv

LEMMA AdmitCounters ==
  ASSUME IInv, CounterInv, NEW r, AdmitNativeResident(r)
  PROVE  CounterInv'
<1>1. PICK k, l : k = nextId.adm /\ l = nextId.load
  OBVIOUS
<1>2. k \in Count /\ l \in Count /\ nextId \in Counters
  BY <1>1 DEF IInv, Shape, Counters
<1>3. PICK e : admissions' = Put(admissions, k, e) /\ e.kind = "native"
  BY <1>1 DEF AdmitNativeResident
<1>4. /\ DOMAIN tickets' = DOMAIN tickets \cup {k}
      /\ k < IdMax.adm /\ l < IdMax.load
      /\ UNCHANGED <<generation, revoked, drainCursor>>
      /\ nextId' = [nextId EXCEPT !.adm = k + 1, !.load = l + 1]
  BY <1>1 DEF AdmitNativeResident, grantVars, Put
<1>5. /\ nextId'.adm = k + 1 /\ nextId'.op = nextId.op /\ nextId'.permit = nextId.permit
      /\ nextId'.load = l + 1 /\ nextId'.use = nextId.use /\ nextId'.result = nextId.result
  BY <1>2, <1>4 DEF Counters
<1>6. nextId'.adm \in Id("adm") /\ nextId'.load \in Id("load")
  BY <1>2, <1>4, <1>5, IdMaxima DEF Id, Count
<1>7. DOMAIN tickets' = 1..(nextId'.adm - 1)
  <2>1. DOMAIN tickets = 1..(k - 1)
    BY <1>1 DEF CounterInv
  <2> QED
    BY <1>2, <1>4, <1>5, <2>1 DEF Count
<1>8. \A a \in DOMAIN admissions' : admissions'[a].kind \in {"legacy", "native"}
  BY <1>3 DEF CounterInv, Put
<1> QED
  BY <1>4, <1>5, <1>6, <1>7, <1>8 DEF CounterInv

(* The steps that take one identifier of another counter. *)
LEMMA OneCounter ==
  ASSUME IInv, CounterInv, UNCHANGED <<generation, revoked, drainCursor, tickets>>,
         \A a \in DOMAIN admissions' : admissions'[a].kind \in {"legacy", "native"},
         \/ nextId.op < IdMax.op /\ nextId' = [nextId EXCEPT !.op = @ + 1]
         \/ nextId.permit < IdMax.permit /\ nextId' = [nextId EXCEPT !.permit = @ + 1]
         \/ nextId.use < IdMax.use /\ nextId' = [nextId EXCEPT !.use = @ + 1]
         \/ nextId.result < IdMax.result /\ nextId' = [nextId EXCEPT !.result = @ + 1]
  PROVE  CounterInv'
<1>1. nextId \in Counters
  BY DEF IInv, Shape
<1>2. nextId'.adm = nextId.adm /\ nextId'.load = nextId.load
  BY <1>1 DEF Counters
<1>3. CASE nextId.op < IdMax.op /\ nextId' = [nextId EXCEPT !.op = @ + 1]
  <2>1. /\ nextId'.op = nextId.op + 1
        /\ nextId'.permit = nextId.permit /\ nextId'.use = nextId.use /\ nextId'.result = nextId.result
    BY <1>1, <1>3 DEF Counters
  <2>2. nextId'.op \in Id("op")
    <3>1. PICK x \in Nat : x = nextId.op /\ 1 <= x /\ x < IdMax.op
      BY <1>1, <1>3 DEF Counters, Count
    <3>2. x + 1 \in Id("op")
      BY <3>1, IdMaxima DEF Id, Count
    <3> QED
      BY <2>1, <3>1, <3>2
  <2> QED
    BY <1>2, <2>1, <2>2 DEF CounterInv
<1>4. CASE nextId.permit < IdMax.permit /\ nextId' = [nextId EXCEPT !.permit = @ + 1]
  <2>1. /\ nextId'.permit = nextId.permit + 1
        /\ nextId'.op = nextId.op /\ nextId'.use = nextId.use /\ nextId'.result = nextId.result
    BY <1>1, <1>4 DEF Counters
  <2>2. nextId'.permit \in Id("permit")
    <3>1. PICK x \in Nat : x = nextId.permit /\ 1 <= x /\ x < IdMax.permit
      BY <1>1, <1>4 DEF Counters, Count
    <3>2. x + 1 \in Id("permit")
      BY <3>1, IdMaxima DEF Id, Count
    <3> QED
      BY <2>1, <3>1, <3>2
  <2> QED
    BY <1>2, <2>1, <2>2 DEF CounterInv
<1>5. CASE nextId.use < IdMax.use /\ nextId' = [nextId EXCEPT !.use = @ + 1]
  <2>1. /\ nextId'.use = nextId.use + 1
        /\ nextId'.op = nextId.op /\ nextId'.permit = nextId.permit /\ nextId'.result = nextId.result
    BY <1>1, <1>5 DEF Counters
  <2>2. nextId'.use \in Id("use")
    <3>1. PICK x \in Nat : x = nextId.use /\ 1 <= x /\ x < IdMax.use
      BY <1>1, <1>5 DEF Counters, Count
    <3>2. x + 1 \in Id("use")
      BY <3>1, IdMaxima DEF Id, Count
    <3> QED
      BY <2>1, <3>1, <3>2
  <2> QED
    BY <1>2, <2>1, <2>2 DEF CounterInv
<1>6. CASE nextId.result < IdMax.result /\ nextId' = [nextId EXCEPT !.result = @ + 1]
  <2>1. /\ nextId'.result = nextId.result + 1
        /\ nextId'.op = nextId.op /\ nextId'.permit = nextId.permit /\ nextId'.use = nextId.use
    BY <1>1, <1>6 DEF Counters
  <2>2. nextId'.result \in Id("result")
    <3>1. PICK x \in Nat : x = nextId.result /\ 1 <= x /\ x < IdMax.result
      BY <1>1, <1>6 DEF Counters, Count
    <3>2. x + 1 \in Id("result")
      BY <3>1, IdMaxima DEF Id, Count
    <3> QED
      BY <2>1, <3>1, <3>2
  <2> QED
    BY <1>2, <2>1, <2>2 DEF CounterInv
<1> QED
  BY <1>3, <1>4, <1>5, <1>6

LEMMA PollCounters ==
  ASSUME IInv, CounterInv, Poll
  PROVE  CounterInv'
<1>1. Shape
  BY DEF IInv
<1>2. CASE PollRelease
  <2>1. \E a : admissions' = Drop(admissions, a)
    BY <1>2 DEF PollRelease, ReleaseAdmission
  <2> QED
    BY <1>1, <1>2, <2>1, KindsStay, CountersStay DEF PollRelease, grantVars, issued
<1>3. ASSUME NEW a \in DOMAIN admissions, NEW kind, NEW st, Issue(a, kind, st) PROVE CounterInv'
  <2>1. \A b \in DOMAIN admissions' : admissions'[b].kind \in {"legacy", "native"}
    BY <1>1, <1>3, KindsStay DEF Issue
  <2> QED
    BY <1>3, <2>1, OneCounter DEF Issue, grantVars, issued
<1>4. CASE PollLoad
  BY <1>3, <1>4 DEF PollLoad, Loadable
<1>5. CASE PollEvict
  BY <1>3, <1>5 DEF PollEvict, Evictable
<1> QED
  BY <1>2, <1>4, <1>5 DEF Poll

LEMMA OwnerCounters ==
  ASSUME IInv, CounterInv, Owner
  PROVE  CounterInv'
<1>1. CASE Revoke
  <2>1. ASSUME NEW a \in DOMAIN admissions PROVE admissions'[a].kind = admissions[a].kind
    <3>1. PICK st : admissions'[a] = [admissions[a] EXCEPT !.state = st]
      BY <1>1 DEF Revoke
    <3>2. Entry(admissions[a])
      BY DEF IInv, Shape
    <3> QED
      BY <3>1, <3>2 DEF Entry
  <2>2. DOMAIN admissions' = DOMAIN admissions /\ revoked' = TRUE
        /\ UNCHANGED <<generation, nextId, drainCursor, tickets>>
    BY <1>1 DEF Revoke, issued
  <2> QED
    BY <2>1, <2>2 DEF CounterInv
<1>2. ASSUME NEW g, ReplaceGrant(g) PROVE CounterInv'
  <2>1. generation < IdMax.generation /\ generation' = generation + 1 /\ revoked' = FALSE
        /\ UNCHANGED <<admissions, nextId, drainCursor, tickets>>
    BY <1>2 DEF ReplaceGrant, issued
  <2>2. generation' \in Id("generation")
    BY <2>1, IdMaxima DEF CounterInv, Id, Count
  <2> QED
    BY <2>1, <2>2 DEF CounterInv
<1> QED
  BY <1>1, <1>2 DEF Owner

(* A failed eviction sends the cursor past its admission, or back to 1.   *)
LEMMA CompleteCounters ==
  ASSUME IInv, CounterInv, NEW o \in DOMAIN operations, Complete(o)
  PROVE  CounterInv'
<1>1. PICK a : a = operations[o].adm
  OBVIOUS
<1>2. a \in DOMAIN admissions /\ Shape /\ UNCHANGED <<generation, revoked, nextId, tickets>>
  BY <1>1 DEF IInv, PendingInv, Complete, grantVars, issued
<1>3. \A b \in DOMAIN admissions' : admissions'[b].kind \in {"legacy", "native"}
  <2>1. CASE ReleasedBy(o, "load") \/ ReleasedBy(o, "evict")
    BY <1>2, <2>1, KindsStay DEF ReleasedBy, ReleaseAdmission
  <2>2. CASE \/ \E h \in Handle : Loaded(o, h)
             \/ QuarantinedBy(o, "load") \/ QuarantinedBy(o, "evict") \/ EvictFailed(o)
    <3>1. \E st : admissions' = SetState(a, st)
      BY <1>1, <2>2 DEF Loaded, QuarantinedBy, EvictFailed
    <3> QED
      BY <1>2, <3>1, KindsStay
  <2> QED
    BY <2>1, <2>2 DEF Complete
<1>4. drainCursor' \in Id("adm")
  <2>1. CASE UNCHANGED drainCursor
    BY <2>1 DEF CounterInv
  <2>2. CASE EvictFailed(o)
    <3>1. drainCursor' = CursorAfter(a)
      BY <1>1, <2>2 DEF EvictFailed
    <3>2. a \in Nat /\ 1 <= a
      BY <1>2 DEF Shape, Counters, Count
    <3> QED
      BY <3>1, <3>2, IdMaxima DEF CursorAfter, Id, Count
  <2> QED
    BY <2>1, <2>2 DEF Complete, Loaded, ReleasedBy, QuarantinedBy
<1> QED
  BY <1>2, <1>3, <1>4 DEF CounterInv

LEMMA CallerCounters ==
  ASSUME IInv, CounterInv, Caller
  PROVE  CounterInv'
<1>1. Shape
  BY DEF IInv
<1>2. ASSUME (\E ws \in Requests : Prepare(ws)) \/ DiscardPrepared PROVE CounterInv'
  <2>1. UNCHANGED <<admissions, generation, revoked, nextId, drainCursor, tickets>>
    BY <1>2 DEF Prepare, DiscardPrepared, grantVars
  <2> QED
    BY <2>1 DEF CounterInv
<1>3. ASSUME NEW a \in DOMAIN admissions, RequestRetirement(a) PROVE CounterInv'
  <2>1. \A b \in DOMAIN admissions' : admissions'[b].kind \in {"legacy", "native"}
    BY <1>1, <1>3, KindsStay DEF RequestRetirement
  <2> QED
    BY <1>3, <2>1, CountersStay DEF RequestRetirement, grantVars, issued
<1>4. ASSUME NEW a \in DOMAIN admissions, BeginUse(a) PROVE CounterInv'
  <2>1. \A b \in DOMAIN admissions' : admissions'[b].kind \in {"legacy", "native"}
    BY <1>1, <1>4, KindsStay DEF BeginUse
  <2> QED
    BY <1>4, <2>1, OneCounter DEF BeginUse, grantVars, issued
<1>5. ASSUME NEW a \in DOMAIN admissions, NEW r, BeginNativeUse(a, r) PROVE CounterInv'
  <2>1. \A b \in DOMAIN admissions' : admissions'[b].kind \in {"legacy", "native"}
    BY <1>1, <1>5, KindsStay DEF BeginNativeUse
  <2> QED
    BY <1>5, <2>1, OneCounter DEF BeginNativeUse, grantVars, issued
<1> QED
  BY <1>2, <1>3, <1>4, <1>5, CommitCounters, AdmitCounters DEF Caller

LEMMA AdapterCounters ==
  ASSUME IInv, CounterInv, Adapter
  PROVE  CounterInv'
<1>1. Shape
  BY DEF IInv
<1>2. ASSUME NEW n \in DOMAIN nativeLoads, NativeLoadEnds(n) PROVE CounterInv'
  <2>1. nativeLoads[n] \in DOMAIN admissions
    BY DEF IInv, PendingInv
  <2>2. \A b \in DOMAIN admissions' : admissions'[b].kind \in {"legacy", "native"}
    BY <1>1, <1>2, <2>1, KindsStay
       DEF NativeLoadEnds, CompleteNativeLoad, NativeLoadReleased, QuarantineNativeLoad, ReleaseAdmission
  <2> QED
    BY <1>2, <2>2, CountersStay
       DEF NativeLoadEnds, CompleteNativeLoad, NativeLoadReleased, QuarantineNativeLoad, grantVars, issued
<1>3. ASSUME NEW p \in DOMAIN permits, FinishUse(p) PROVE CounterInv'
  <2>1. permits[p] \in DOMAIN admissions
    BY DEF IInv, UseInv, UsesMatchPermits
  <2>2. \A b \in DOMAIN admissions' : admissions'[b].kind \in {"legacy", "native"}
    BY <1>1, <1>3, <2>1, KindsStay DEF FinishUse
  <2> QED
    BY <1>3, <2>2, CountersStay DEF FinishUse, grantVars, issued
<1>4. ASSUME NEW n \in DOMAIN nativeUses PROVE nativeUses[n].adm \in DOMAIN admissions
  BY DEF IInv, UseInv, UsesMatchPermits
<1>5. ASSUME NEW n \in DOMAIN nativeUses, FinishNativeUse(n) PROVE CounterInv'
  <2>1. \A b \in DOMAIN admissions' : admissions'[b].kind \in {"legacy", "native"}
    BY <1>1, <1>4, <1>5, KindsStay DEF FinishNativeUse
  <2>2. UNCHANGED <<generation, revoked, drainCursor, tickets>>
    BY <1>5 DEF FinishNativeUse, grantVars, issued
  <2>3. \/ UNCHANGED nextId
        \/ nextId.result < IdMax.result /\ nextId' = [nextId EXCEPT !.result = @ + 1]
    BY <1>5 DEF FinishNativeUse
  <2> QED
    BY <2>1, <2>2, <2>3, OneCounter, CountersStay
<1>6. ASSUME NEW n \in DOMAIN nativeUses, QuarantineNativeUse(n) PROVE CounterInv'
  <2>1. \A b \in DOMAIN admissions' : admissions'[b].kind \in {"legacy", "native"}
    BY <1>1, <1>4, <1>6, KindsStay DEF QuarantineNativeUse
  <2> QED
    BY <1>6, <2>1, CountersStay DEF QuarantineNativeUse, grantVars, issued
<1>7. ASSUME NEW n \in DOMAIN results, DiscardNativeResult(n) PROVE CounterInv'
  <2>1. UNCHANGED <<admissions, generation, revoked, nextId, drainCursor, tickets>>
    BY <1>7 DEF DiscardNativeResult, grantVars, issued
  <2> QED
    BY <2>1 DEF CounterInv
<1> QED
  BY <1>2, <1>3, <1>5, <1>6, <1>7 DEF Adapter

LEMMA NextCounters ==
  ASSUME IInv, CounterInv, [Next]_vars
  PROVE  CounterInv'
<1>1. CASE UNCHANGED vars
  <2>1. UNCHANGED <<admissions, generation, revoked, nextId, drainCursor, tickets>>
    BY <1>1 DEF vars
  <2> QED
    BY <2>1 DEF CounterInv
<1> QED
  BY <1>1, PollCounters, CallerCounters, OwnerCounters, CompleteCounters, AdapterCounters
     DEF Next, Executor

------------------------------------------------------------------------------
(* The tables stay within SchedulerLimits.                                 *)
SlotInv ==
  /\ Cardinality(DOMAIN admissions) <= MaxAdmissions
  /\ PendingCount <= MaxPending
  /\ CustodySlots <= MaxUses

LEMMA TablesAreFinite ==
  ASSUME IInv, DOMAIN results \subseteq 1..(nextId.result - 1)
  PROVE  /\ IsFiniteSet(DOMAIN admissions) /\ Cardinality(DOMAIN admissions) \in Nat
         /\ IsFiniteSet(DOMAIN operations) /\ Cardinality(DOMAIN operations) \in Nat
         /\ IsFiniteSet(DOMAIN nativeLoads) /\ Cardinality(DOMAIN nativeLoads) \in Nat
         /\ IsFiniteSet(DOMAIN permits) /\ Cardinality(DOMAIN permits) \in Nat
         /\ IsFiniteSet(DOMAIN nativeUses) /\ Cardinality(DOMAIN nativeUses) \in Nat
         /\ IsFiniteSet(DOMAIN quarantined) /\ Cardinality(DOMAIN quarantined) \in Nat
         /\ IsFiniteSet(DOMAIN results) /\ Cardinality(DOMAIN results) \in Nat
<1>1. ASSUME NEW n \in Count, NEW S, S \subseteq 1..(n - 1)
      PROVE  IsFiniteSet(S) /\ Cardinality(S) \in Nat
  <2>1. IsFiniteSet(1..(n - 1))
    BY FS_Interval DEF Count
  <2>2. IsFiniteSet(S)
    BY <1>1, <2>1, FS_Subset
  <2> QED
    BY <2>2, FS_CardinalityType
<1>2. /\ nextId.adm \in Count /\ nextId.op \in Count /\ nextId.load \in Count
      /\ nextId.permit \in Count /\ nextId.use \in Count /\ nextId.result \in Count
  BY DEF IInv, Shape, Counters
<1>3. /\ DOMAIN admissions \subseteq 1..(nextId.adm - 1)
      /\ DOMAIN operations \subseteq 1..(nextId.op - 1)
      /\ DOMAIN nativeLoads \subseteq 1..(nextId.load - 1)
      /\ DOMAIN permits \subseteq 1..(nextId.permit - 1)
      /\ DOMAIN nativeUses \subseteq 1..(nextId.use - 1)
      /\ DOMAIN quarantined \subseteq 1..(nextId.use - 1)
  BY DEF IInv, Shape, PendingInv, UseInv
<1> QED
  BY <1>1, <1>2, <1>3

(* A table that takes an entry, and one that loses an entry it had. *)
LEMMA OneEntry ==
  ASSUME NEW f, IsFiniteSet(DOMAIN f), NEW k, NEW v
  PROVE  /\ Cardinality(DOMAIN Put(f, k, v)) <= Cardinality(DOMAIN f) + 1
         /\ Cardinality(DOMAIN Put(f, k, v)) \in Nat
         /\ k \in DOMAIN f => Cardinality(DOMAIN Drop(f, k)) = Cardinality(DOMAIN f) - 1
         /\ Cardinality(DOMAIN Drop(f, k)) <= Cardinality(DOMAIN f)
         /\ Cardinality(DOMAIN Drop(f, k)) \in Nat
<1>1. PICK D : D = DOMAIN f
  OBVIOUS
<1>2. DOMAIN Put(f, k, v) = D \cup {k} /\ DOMAIN Drop(f, k) = D \ {k}
  BY <1>1 DEF Put, Drop, Restrict
<1>3. /\ IsFiniteSet(D \cup {k})
      /\ Cardinality(D \cup {k}) = IF k \in D THEN Cardinality(D) ELSE Cardinality(D) + 1
  BY <1>1, FS_AddElement
<1>4. /\ IsFiniteSet(D \ {k})
      /\ Cardinality(D \ {k}) = IF k \in D THEN Cardinality(D) - 1 ELSE Cardinality(D)
  BY <1>1, FS_RemoveElement
<1>5. Cardinality(D) \in Nat /\ Cardinality(D \cup {k}) \in Nat /\ Cardinality(D \ {k}) \in Nat
  BY <1>1, <1>3, <1>4, FS_CardinalityType
<1> QED
  BY <1>1, <1>2, <1>3, <1>4, <1>5

(* The table of admissions in each step. *)
LEMMA AdmissionSlots ==
  ASSUME IInv, Cardinality(DOMAIN admissions) <= MaxAdmissions, IsFiniteSet(DOMAIN admissions), [Next]_vars
  PROVE  Cardinality(DOMAIN admissions') <= MaxAdmissions
<1>1. PICK D : D = DOMAIN admissions
  OBVIOUS
<1>2. Cardinality(D) \in Nat /\ Cardinality(D) <= MaxAdmissions /\ MaxAdmissions \in Nat
  BY <1>1, FS_CardinalityType, LimitAssumption
<1>3. ASSUME DOMAIN admissions' \subseteq D PROVE Cardinality(DOMAIN admissions') <= MaxAdmissions
  <2>1. Cardinality(DOMAIN admissions') <= Cardinality(D) /\ IsFiniteSet(DOMAIN admissions')
    BY <1>1, <1>3, FS_Subset
  <2>2. Cardinality(DOMAIN admissions') \in Nat
    BY <2>1, FS_CardinalityType
  <2> QED
    BY <1>2, <2>1, <2>2
<1>4. ASSUME NEW a, NEW st, admissions' = SetState(a, st) PROVE DOMAIN admissions' \subseteq D
  BY <1>1, <1>4 DEF SetState
<1>5. ASSUME NEW a, ReleaseAdmission(a) PROVE DOMAIN admissions' \subseteq D
  BY <1>1, <1>5 DEF ReleaseAdmission, Drop, Restrict
<1>6. ASSUME NEW a, admissions' = InUse(a) \/ admissions' = Finished(a) PROVE DOMAIN admissions' \subseteq D
  BY <1>1, <1>6 DEF InUse, Finished
<1>7. ASSUME admissions' = admissions PROVE DOMAIN admissions' \subseteq D
  BY <1>1, <1>7
<1>8. CASE Commit
  <2>1. PICK k, len, new : /\ k = nextId.adm /\ len = Len(prepared.placements)
                           /\ new = k..(k + len - 1)
    OBVIOUS
  <2>2. k \in Nat /\ len \in Nat
    BY <1>8, <2>1 DEF IInv, Shape, Counters, Count, Commit
  <2>3. DOMAIN admissions' = D \cup new /\ Cardinality(D) + len <= MaxAdmissions
    BY <1>1, <1>8, <2>1 DEF Commit, Committable, AdmissionCapacity
  <2>4. IsFiniteSet(new) /\ Cardinality(new) = len
    <3>1. PICK m \in Int : m = k + len - 1
      BY <2>2
    <3>2. IsFiniteSet(k..m) /\ Cardinality(k..m) = IF k > m THEN 0 ELSE m - k + 1
      BY <2>2, FS_Interval
    <3>3. (IF k > m THEN 0 ELSE m - k + 1) = len
      BY <2>2, <3>1
    <3> QED
      BY <2>1, <3>1, <3>2, <3>3
  <2>5. /\ IsFiniteSet(D \cup new) /\ IsFiniteSet(D \cap new)
        /\ Cardinality(D \cup new) = Cardinality(D) + Cardinality(new) - Cardinality(D \cap new)
    <3>1. D \cap new \in SUBSET D
      OBVIOUS
    <3> QED
      BY <1>1, <2>4, <3>1, FS_Union, FS_Subset
  <2>6. Cardinality(D \cap new) \in Nat /\ Cardinality(D \cup new) \in Nat
    BY <2>5, FS_CardinalityType
  <2>7. Cardinality(D \cup new) = Cardinality(D) + len - Cardinality(D \cap new)
    BY <2>4, <2>5
  <2>8. Cardinality(D \cup new) <= MaxAdmissions
    BY <1>2, <2>2, <2>3, <2>6, <2>7
  <2> QED
    BY <2>3, <2>8
<1>9. ASSUME NEW r, AdmitNativeResident(r) PROVE Cardinality(DOMAIN admissions') <= MaxAdmissions
  <2>1. PICK k, e : admissions' = Put(admissions, k, e)
    BY <1>9 DEF AdmitNativeResident
  <2>2. Cardinality(D) + 1 <= MaxAdmissions
    BY <1>1, <1>9 DEF AdmitNativeResident, AdmissionCapacity
  <2>3. /\ Cardinality(DOMAIN admissions') <= Cardinality(D) + 1
        /\ Cardinality(DOMAIN admissions') \in Nat
    BY <1>1, <2>1, OneEntry
  <2> QED
    BY <1>2, <2>2, <2>3
<1>10. CASE Poll
  <2>1. DOMAIN admissions' \subseteq D
    BY <1>4, <1>5, <1>10 DEF Poll, PollRelease, PollLoad, PollEvict, Issue
  <2> QED
    BY <1>3, <2>1
<1>11. CASE Caller
  <2>1. ASSUME \/ \E ws \in Requests : Prepare(ws)
               \/ DiscardPrepared
               \/ \E a : RequestRetirement(a) \/ BeginUse(a) \/ \E r : BeginNativeUse(a, r)
        PROVE  DOMAIN admissions' \subseteq D
    BY <1>4, <1>6, <1>7, <2>1 DEF Prepare, DiscardPrepared, RequestRetirement, BeginUse, BeginNativeUse
  <2> QED
    BY <1>3, <1>8, <1>9, <1>11, <2>1 DEF Caller
<1>12. CASE Owner
  <2>1. DOMAIN admissions' \subseteq D
    BY <1>1, <1>12 DEF Owner, Revoke, ReplaceGrant
  <2> QED
    BY <1>3, <2>1
<1>13. CASE Executor
  <2>1. DOMAIN admissions' \subseteq D
    BY <1>4, <1>5, <1>13 DEF Executor, Complete, Loaded, ReleasedBy, QuarantinedBy, EvictFailed
  <2> QED
    BY <1>3, <2>1
<1>14. CASE Adapter
  <2>1. ASSUME NEW n, NativeLoadEnds(n) PROVE DOMAIN admissions' \subseteq D
    BY <1>4, <1>5, <2>1 DEF NativeLoadEnds, CompleteNativeLoad, NativeLoadReleased, QuarantineNativeLoad
  <2>2. ASSUME NEW n, \/ FinishUse(n) \/ FinishNativeUse(n) \/ QuarantineNativeUse(n)
                      \/ DiscardNativeResult(n)
        PROVE  DOMAIN admissions' \subseteq D
    BY <1>4, <1>6, <1>7, <2>2 DEF FinishUse, FinishNativeUse, QuarantineNativeUse, DiscardNativeResult
  <2> QED
    BY <1>3, <1>14, <2>1, <2>2 DEF Adapter
<1>15. CASE UNCHANGED vars
  BY <1>3, <1>7, <1>15 DEF vars
<1> QED
  BY <1>10, <1>11, <1>12, <1>13, <1>14, <1>15 DEF Next

(* Commands and loads in flight. *)
LEMMA PendingSlots ==
  ASSUME IInv, OwnInv, PendingCount <= MaxPending, [Next]_vars
  PROVE  PendingCount' <= MaxPending
<1>1. PICK f, g : f = operations /\ g = nativeLoads
  OBVIOUS
<1>2. PICK o \in Nat, l \in Nat :
        /\ o = Cardinality(DOMAIN f) /\ l = Cardinality(DOMAIN g)
        /\ IsFiniteSet(DOMAIN f) /\ IsFiniteSet(DOMAIN g)
  BY <1>1, TablesAreFinite DEF OwnInv
<1>3. o + l <= MaxPending /\ MaxPending \in Nat
  BY <1>1, <1>2, LimitAssumption DEF PendingCount
<1>4. PendingCount' = Cardinality(DOMAIN operations') + Cardinality(DOMAIN nativeLoads')
  BY DEF PendingCount
<1>5. ASSUME UNCHANGED work PROVE PendingCount' <= MaxPending
  BY <1>1, <1>2, <1>3, <1>4, <1>5 DEF work
<1>6. ASSUME PendingCount < MaxPending, nativeLoads' = g,
             NEW k, NEW v, operations' = Put(f, k, v)
      PROVE  PendingCount' <= MaxPending
  <2>1. PICK m \in Nat : m = Cardinality(DOMAIN Put(f, k, v)) /\ m <= o + 1
    BY <1>2, OneEntry
  <2>2. o + l < MaxPending
    BY <1>1, <1>2, <1>6 DEF PendingCount
  <2> QED
    BY <1>2, <1>3, <1>4, <1>6, <2>1, <2>2
<1>7. ASSUME PendingCount < MaxPending, operations' = f,
             NEW k, NEW v, nativeLoads' = Put(g, k, v)
      PROVE  PendingCount' <= MaxPending
  <2>1. PICK m \in Nat : m = Cardinality(DOMAIN Put(g, k, v)) /\ m <= l + 1
    BY <1>2, OneEntry
  <2>2. o + l < MaxPending
    BY <1>1, <1>2, <1>7 DEF PendingCount
  <2> QED
    BY <1>2, <1>3, <1>4, <1>7, <2>1, <2>2
<1>8. ASSUME nativeLoads' = g, NEW k, operations' = Drop(f, k)
      PROVE  PendingCount' <= MaxPending
  <2>1. PICK m \in Nat : m = Cardinality(DOMAIN Drop(f, k)) /\ m <= o
    BY <1>2, OneEntry
  <2> QED
    BY <1>2, <1>3, <1>4, <1>8, <2>1
<1>9. ASSUME operations' = f, NEW k, nativeLoads' = Drop(g, k)
      PROVE  PendingCount' <= MaxPending
  <2>1. PICK m \in Nat : m = Cardinality(DOMAIN Drop(g, k)) /\ m <= l
    BY <1>2, OneEntry
  <2> QED
    BY <1>2, <1>3, <1>4, <1>9, <2>1
<1>10. CASE Poll
  <2>1. CASE PollRelease
    BY <1>5, <2>1 DEF PollRelease
  <2>2. ASSUME NEW a, NEW kind, NEW st, Issue(a, kind, st) PROVE PendingCount' <= MaxPending
    BY <1>1, <1>6, <2>2 DEF Issue
  <2> QED
    BY <1>10, <2>1, <2>2 DEF Poll, PollLoad, PollEvict
<1>11. CASE Caller
  <2>1. ASSUME NEW r, AdmitNativeResident(r) PROVE PendingCount' <= MaxPending
    BY <1>1, <1>7, <2>1 DEF AdmitNativeResident
  <2>2. ASSUME \/ \E ws \in Requests : Prepare(ws)
               \/ Commit \/ DiscardPrepared
               \/ \E a : RequestRetirement(a) \/ BeginUse(a) \/ \E r : BeginNativeUse(a, r)
        PROVE  PendingCount' <= MaxPending
    BY <1>5, <2>2 DEF Prepare, Commit, DiscardPrepared, RequestRetirement, BeginUse, BeginNativeUse
  <2> QED
    BY <1>11, <2>1, <2>2 DEF Caller
<1>12. CASE Owner
  BY <1>5, <1>12 DEF Owner, Revoke, ReplaceGrant
<1>13. CASE Executor
  <2>1. PICK k : nativeLoads' = nativeLoads /\ operations' = Drop(operations, k)
    BY <1>13 DEF Executor, Complete, Loaded, ReleasedBy, QuarantinedBy, EvictFailed, Acknowledges
  <2> QED
    BY <1>1, <1>8, <2>1
<1>14. CASE Adapter
  <2>1. ASSUME NEW n, NativeLoadEnds(n) PROVE PendingCount' <= MaxPending
    <3>1. operations' = operations /\ nativeLoads' = Drop(nativeLoads, n)
      BY <2>1 DEF NativeLoadEnds, CompleteNativeLoad, NativeLoadReleased, QuarantineNativeLoad
    <3> QED
      BY <1>1, <1>9, <3>1
  <2>2. ASSUME NEW n, \/ FinishUse(n) \/ FinishNativeUse(n) \/ QuarantineNativeUse(n)
                      \/ DiscardNativeResult(n)
        PROVE  PendingCount' <= MaxPending
    BY <1>5, <2>2 DEF FinishUse, FinishNativeUse, QuarantineNativeUse, DiscardNativeResult
  <2> QED
    BY <1>14, <2>1, <2>2 DEF Adapter
<1>15. CASE UNCHANGED vars
  BY <1>5, <1>15 DEF vars, work
<1> QED
  BY <1>10, <1>11, <1>12, <1>13, <1>14, <1>15 DEF Next

(* Uses, and what they leave: a use hands its slot on to its result or to   *)
(* quarantine. *)
LEMMA UseSlots ==
  ASSUME IInv, OwnInv, CustodySlots <= MaxUses, [Next]_vars
  PROVE  CustodySlots' <= MaxUses
<1>1. PICK f, g, h, e : f = permits /\ g = nativeUses /\ h = quarantined /\ e = results
  OBVIOUS
<1>2. PICK p \in Nat, n \in Nat, q \in Nat, r \in Nat :
        /\ p = Cardinality(DOMAIN f) /\ n = Cardinality(DOMAIN g)
        /\ q = Cardinality(DOMAIN h) /\ r = Cardinality(DOMAIN e)
        /\ IsFiniteSet(DOMAIN f) /\ IsFiniteSet(DOMAIN g)
        /\ IsFiniteSet(DOMAIN h) /\ IsFiniteSet(DOMAIN e)
  BY <1>1, TablesAreFinite DEF OwnInv
<1>3. p + n + q + r <= MaxUses /\ MaxUses \in Nat
  BY <1>1, <1>2, LimitAssumption DEF CustodySlots
<1>4. CustodySlots' = Cardinality(DOMAIN permits') + Cardinality(DOMAIN nativeUses')
                        + Cardinality(DOMAIN quarantined') + Cardinality(DOMAIN results')
  BY DEF CustodySlots
<1>5. ASSUME UNCHANGED uses PROVE CustodySlots' <= MaxUses
  BY <1>1, <1>2, <1>3, <1>4, <1>5 DEF uses
<1>6. ASSUME NEW a, BeginUse(a) PROVE CustodySlots' <= MaxUses
  <2>1. PICK k, v : permits' = Put(f, k, v) /\ nativeUses' = g /\ quarantined' = h /\ results' = e
    BY <1>1, <1>6 DEF BeginUse
  <2>2. PICK m \in Nat : m = Cardinality(DOMAIN Put(f, k, v)) /\ m <= p + 1
    BY <1>2, OneEntry
  <2>3. p + n + q + r < MaxUses
    BY <1>1, <1>2, <1>6 DEF BeginUse, Startable, CustodySlots
  <2> QED
    BY <1>2, <1>3, <1>4, <2>1, <2>2, <2>3
<1>7. ASSUME NEW a, NEW u, BeginNativeUse(a, u) PROVE CustodySlots' <= MaxUses
  <2>1. PICK k, v : permits' = f /\ nativeUses' = Put(g, k, v) /\ quarantined' = h /\ results' = e
    BY <1>1, <1>7 DEF BeginNativeUse
  <2>2. PICK m \in Nat : m = Cardinality(DOMAIN Put(g, k, v)) /\ m <= n + 1
    BY <1>2, OneEntry
  <2>3. p + n + q + r < MaxUses
    BY <1>1, <1>2, <1>7 DEF BeginNativeUse, Startable, CustodySlots
  <2> QED
    BY <1>2, <1>3, <1>4, <2>1, <2>2, <2>3
<1>8. ASSUME NEW k, FinishUse(k) PROVE CustodySlots' <= MaxUses
  <2>1. permits' = Drop(f, k) /\ nativeUses' = g /\ quarantined' = h /\ results' = e
    BY <1>1, <1>8 DEF FinishUse
  <2>2. PICK m \in Nat : m = Cardinality(DOMAIN Drop(f, k)) /\ m <= p
    BY <1>2, OneEntry
  <2> QED
    BY <1>2, <1>3, <1>4, <2>1, <2>2
<1>9. ASSUME NEW k \in DOMAIN nativeUses, FinishNativeUse(k) PROVE CustodySlots' <= MaxUses
  <2>1. permits' = f /\ nativeUses' = Drop(g, k) /\ quarantined' = h
    BY <1>1, <1>9 DEF FinishNativeUse
  <2>2. PICK m \in Nat : m = Cardinality(DOMAIN Drop(g, k)) /\ m = n - 1
    BY <1>1, <1>2, OneEntry
  <2>3. PICK j \in Nat : j = Cardinality(DOMAIN results') /\ j <= r + 1
    <3>1. CASE results' = e
      BY <1>2, <3>1
    <3>2. CASE results' # e
      <4>1. PICK i, v : results' = Put(e, i, v)
        BY <1>1, <1>9, <3>2 DEF FinishNativeUse
      <4>2. Cardinality(DOMAIN Put(e, i, v)) \in Nat /\ Cardinality(DOMAIN Put(e, i, v)) <= r + 1
        BY <1>2, OneEntry
      <4> QED
        BY <4>1, <4>2
    <3> QED
      BY <3>1, <3>2
  <2> QED
    BY <1>2, <1>3, <1>4, <2>1, <2>2, <2>3
<1>10. ASSUME NEW k \in DOMAIN nativeUses, QuarantineNativeUse(k) PROVE CustodySlots' <= MaxUses
  <2>1. PICK v : permits' = f /\ nativeUses' = Drop(g, k) /\ quarantined' = Put(h, k, v) /\ results' = e
    BY <1>1, <1>10 DEF QuarantineNativeUse
  <2>2. PICK m \in Nat : m = Cardinality(DOMAIN Drop(g, k)) /\ m = n - 1
    BY <1>1, <1>2, OneEntry
  <2>3. PICK j \in Nat : j = Cardinality(DOMAIN Put(h, k, v)) /\ j <= q + 1
    BY <1>2, OneEntry
  <2> QED
    BY <1>2, <1>3, <1>4, <2>1, <2>2, <2>3
<1>11. ASSUME NEW k, DiscardNativeResult(k) PROVE CustodySlots' <= MaxUses
  <2>1. permits' = f /\ nativeUses' = g /\ quarantined' = h /\ results' = Drop(e, k)
    BY <1>1, <1>11 DEF DiscardNativeResult
  <2>2. PICK m \in Nat : m = Cardinality(DOMAIN Drop(e, k)) /\ m <= r
    BY <1>2, OneEntry
  <2> QED
    BY <1>2, <1>3, <1>4, <2>1, <2>2
<1>12. CASE Poll
  BY <1>5, <1>12 DEF Poll, PollRelease, PollLoad, PollEvict, Issue
<1>13. CASE Caller
  <2>1. ASSUME \/ \E ws \in Requests : Prepare(ws)
               \/ Commit \/ DiscardPrepared
               \/ \E u : AdmitNativeResident(u)
               \/ \E a : RequestRetirement(a)
        PROVE  CustodySlots' <= MaxUses
    BY <1>5, <2>1 DEF Prepare, Commit, DiscardPrepared, AdmitNativeResident, RequestRetirement
  <2> QED
    BY <1>6, <1>7, <1>13, <2>1 DEF Caller
<1>14. CASE Owner
  BY <1>5, <1>14 DEF Owner, Revoke, ReplaceGrant
<1>15. CASE Executor
  BY <1>5, <1>15 DEF Executor, Complete
<1>16. CASE Adapter
  <2>1. ASSUME NEW k, NativeLoadEnds(k) PROVE CustodySlots' <= MaxUses
    BY <1>5, <2>1 DEF NativeLoadEnds, CompleteNativeLoad, NativeLoadReleased, QuarantineNativeLoad
  <2> QED
    BY <1>8, <1>9, <1>10, <1>11, <1>16, <2>1 DEF Adapter
<1>17. CASE UNCHANGED vars
  BY <1>5, <1>17 DEF vars, uses
<1> QED
  BY <1>12, <1>13, <1>14, <1>15, <1>16, <1>17 DEF Next

(* The identifiers of the leases that the tables hold are words. *)
LEMMA OwnedIds ==
  ASSUME OwnInv, IsLedger(ledger)
  PROVE  /\ \A a \in DOMAIN admissions : admissions[a].lease.id \in Word
         /\ \A n \in DOMAIN nativeUses :
              nativeUses[n].device.id \in Word /\ nativeUses[n].retained.id \in Word
         /\ \A n \in DOMAIN quarantined :
              quarantined[n].device.id \in Word /\ quarantined[n].retained.id \in Word
<1>1. ASSUME NEW o, o[3] # NoLease => o \in LeaseOwners PROVE o[3].id \in Word
  <2>1. CASE o[3] = NoLease
    BY <2>1, WordAssumption DEF NoLease, Word
  <2>2. CASE o[3] # NoLease
    <3>1. o[3].id \in DOMAIN ledger.leases
      BY <1>1, <2>2 DEF OwnInv, OneEach
    <3>2. o[3].id \in 1..(ledger.nextId - 1) /\ ledger.nextId \in Word
      BY <3>1 DEF IsLedger
    <3> QED
      BY <3>2, WordAssumption DEF Word
  <2> QED
    BY <2>1, <2>2
<1>2. ASSUME NEW r, NEW k, NEW l,
             l # NoLease => <<r, k, l>> \in LeaseOwners
      PROVE  l.id \in Word
  <2>1. PICK o : o = <<r, k, l>>
    OBVIOUS
  <2>2. o[3] = l
    BY <2>1
  <2> QED
    BY <1>1, <1>2, <2>1, <2>2
<1>3. \A a \in DOMAIN admissions :
        admissions[a].lease # NoLease => <<"resident", a, admissions[a].lease>> \in LeaseOwners
  BY DEF LeaseOwners
<1>4. \A n \in DOMAIN nativeUses :
        /\ nativeUses[n].device # NoLease => <<"mutable", n, nativeUses[n].device>> \in LeaseOwners
        /\ nativeUses[n].retained # NoLease => <<"output", n, nativeUses[n].retained>> \in LeaseOwners
  BY DEF LeaseOwners
<1>5. \A n \in DOMAIN quarantined :
        /\ quarantined[n].device # NoLease =>
             <<"lost mutable", n, quarantined[n].device>> \in LeaseOwners
        /\ quarantined[n].retained # NoLease =>
             <<"lost output", n, quarantined[n].retained>> \in LeaseOwners
  BY DEF LeaseOwners
<1> QED
  BY <1>2, <1>3, <1>4, <1>5

(* Memory belongs to leases of the generations so far. *)
MemoryInv == memory \subseteq Id("generation") \X Word

LEMMA NextMemory ==
  ASSUME IInv, OwnInv, IsLedger(ledger), CounterInv, MemoryInv, [Next]_vars
  PROVE  MemoryInv'
<1>1. ASSUME NEW ids, ids \subseteq Word PROVE Claims(ids) \subseteq Id("generation") \X Word
  BY <1>1 DEF Claims, CounterInv
<1>2. ASSUME NEW batch, Len(batch) \in Nat, CanReserve(ledger, batch) PROVE NewIds(ledger, batch) \subseteq Word
  BY <1>2, WordAssumption DEF NewIds, CanReserve, IsLedger, Word
<1>3. ASSUME NEW a \in DOMAIN admissions PROVE admissions[a].lease.id \in Word
  BY OwnedIds
<1>4. ASSUME memory' \subseteq memory PROVE MemoryInv'
  BY <1>4 DEF MemoryInv
<1>5. ASSUME NEW ids, ids \subseteq Word, memory' = memory \cup Claims(ids) PROVE MemoryInv'
  BY <1>1, <1>5 DEF MemoryInv
<1>6. CASE Poll
  <2>1. CASE PollRelease \/ PollEvict
    BY <1>4, <2>1 DEF PollRelease, PollEvict
  <2>2. CASE PollLoad
    <3>1. PICK a \in Loadable : memory' = memory \cup Claims({admissions[a].lease.id})
      BY <2>2 DEF PollLoad
    <3>2. a \in DOMAIN admissions
      BY DEF Loadable
    <3> QED
      BY <1>3, <1>5, <3>1, <3>2
  <2> QED
    BY <1>6, <2>1, <2>2 DEF Poll
<1>7. CASE Caller
  <2>1. ASSUME NEW r \in NativeRequests, AdmitNativeResident(r) PROVE MemoryInv'
    <3>1. memory' = memory \cup Claims({ledger.nextId})
      BY <2>1 DEF AdmitNativeResident
    <3>2. ledger.nextId \in Word
      BY DEF IsLedger
    <3> QED
      BY <1>5, <3>1, <3>2
  <2>2. ASSUME NEW a, NEW r, BeginNativeUse(a, r) PROVE MemoryInv'
    <3>1. PICK p, q, batch : /\ batch = <<p>> \/ batch = <<p, q>>
                             /\ CanReserve(ledger, batch)
                             /\ memory' = memory \cup Claims(NewIds(ledger, batch))
      BY <2>2 DEF BeginNativeUse
    <3>2. Len(batch) \in Nat
      BY <3>1
    <3> QED
      BY <1>2, <1>5, <3>1, <3>2
  <2>3. ASSUME \/ \E ws \in Requests : Prepare(ws)
               \/ Commit \/ DiscardPrepared
               \/ \E a : RequestRetirement(a) \/ BeginUse(a)
        PROVE  MemoryInv'
    BY <1>4, <2>3 DEF Prepare, Commit, DiscardPrepared, RequestRetirement, BeginUse
  <2> QED
    BY <1>7, <2>1, <2>2, <2>3 DEF Caller
<1>8. CASE Owner
  BY <1>4, <1>8 DEF Owner, Revoke, ReplaceGrant
<1>9. CASE Executor
  BY <1>4, <1>9 DEF Executor, Complete, Loaded, ReleasedBy, QuarantinedBy, EvictFailed
<1>10. CASE Adapter
  <2>1. ASSUME NEW n, NativeLoadEnds(n) PROVE MemoryInv'
    BY <1>4, <2>1 DEF NativeLoadEnds, CompleteNativeLoad, NativeLoadReleased, QuarantineNativeLoad
  <2>2. ASSUME NEW n, \/ FinishUse(n) \/ FinishNativeUse(n) \/ QuarantineNativeUse(n)
                      \/ DiscardNativeResult(n)
        PROVE  MemoryInv'
    BY <1>4, <2>2 DEF FinishUse, FinishNativeUse, QuarantineNativeUse, DiscardNativeResult
  <2> QED
    BY <1>10, <2>1, <2>2 DEF Adapter
<1>11. CASE UNCHANGED vars
  BY <1>4, <1>11 DEF vars
<1> QED
  BY <1>6, <1>7, <1>8, <1>9, <1>10, <1>11 DEF Next

TypeInv == IsLedger(ledger) /\ CounterInv /\ SlotInv /\ MemoryInv

LEMMA InitType == Init => TypeInv
<1> SUFFICES ASSUME Init PROVE TypeInv
  OBVIOUS
<1>1. /\ DOMAIN admissions = {} /\ DOMAIN operations = {} /\ DOMAIN nativeLoads = {}
      /\ DOMAIN permits = {} /\ DOMAIN nativeUses = {} /\ DOMAIN quarantined = {}
      /\ DOMAIN results = {} /\ DOMAIN tickets = {}
  BY DEF Init, Empty
<1>2. IsLedger(ledger)
  <2>1. PICK g \in Snapshot : ledger = NewLedger(g)
    BY GrantAssumption DEF Init
  <2> QED
    BY <2>1, WordAssumption DEF NewLedger, IsLedger, Word
<1>3. CounterInv
  <2>1. /\ nextId.adm = 1 /\ nextId.op = 1 /\ nextId.permit = 1 /\ nextId.load = 1
        /\ nextId.use = 1 /\ nextId.result = 1 /\ drainCursor = 1 /\ generation = 1
        /\ revoked = FALSE
    BY DEF Init
  <2>2. DOMAIN tickets = 1..(nextId.adm - 1)
    BY <1>1, <2>1
  <2>3. /\ 1 \in Id("adm") /\ 1 \in Id("op") /\ 1 \in Id("permit") /\ 1 \in Id("load")
        /\ 1 \in Id("use") /\ 1 \in Id("result") /\ 1 \in Id("generation")
    <3>1. \A m \in Count : 1 \in 1..m
      BY DEF Count
    <3> QED
      BY <3>1, IdMaxima DEF Id
  <2>4. \A a \in DOMAIN admissions : admissions[a].kind \in {"legacy", "native"}
    BY <1>1
  <2> QED
    BY <2>1, <2>2, <2>3, <2>4 DEF CounterInv
<1>4. SlotInv
  <2>1. Cardinality({}) = 0
    BY FS_EmptySet
  <2>2. Cardinality(DOMAIN admissions) = 0 /\ PendingCount = 0 /\ CustodySlots = 0
    BY <1>1, <2>1 DEF PendingCount, CustodySlots
  <2> QED
    BY <2>2, LimitAssumption DEF SlotInv
<1>5. MemoryInv
  BY DEF Init, MemoryInv
<1> QED
  BY <1>2, <1>3, <1>4, <1>5 DEF TypeInv

LEMMA NextType ==
  ASSUME IInv, OwnInv, TypeInv, [Next]_vars
  PROVE  TypeInv'
<1>1. IsLedger(ledger')
  BY NextLedger DEF TypeInv
<1>2. CounterInv'
  BY NextCounters DEF TypeInv
<1>3. Cardinality(DOMAIN admissions') <= MaxAdmissions
  <2>1. IsFiniteSet(DOMAIN admissions)
    BY TablesAreFinite DEF OwnInv
  <2> QED
    BY <2>1, AdmissionSlots DEF TypeInv, SlotInv
<1>4. PendingCount' <= MaxPending
  BY PendingSlots DEF TypeInv, SlotInv
<1>5. CustodySlots' <= MaxUses
  BY UseSlots DEF TypeInv, SlotInv
<1>6. MemoryInv'
  BY NextMemory DEF TypeInv
<1> QED
  BY <1>1, <1>2, <1>3, <1>4, <1>5, <1>6 DEF TypeInv, SlotInv

(* An admission's uses are permits in the tables, so at most MaxUses. *)
LEMMA UsesAreBounded ==
  ASSUME IInv, OwnInv, SlotInv, NEW a \in DOMAIN admissions
  PROVE  admissions[a].uses \in 0..MaxUses
<1>1. PICK p \in Nat, n \in Nat, q \in Nat, r \in Nat :
        /\ p = Cardinality(DOMAIN permits) /\ n = Cardinality(DOMAIN nativeUses)
        /\ q = Cardinality(DOMAIN quarantined) /\ r = Cardinality(DOMAIN results)
  BY TablesAreFinite DEF OwnInv
<1>2. p + n + q + r <= MaxUses /\ MaxUses \in Nat
  BY <1>1, LimitAssumption DEF SlotInv, CustodySlots
<1>3. PICK x \in Nat, y \in Nat, z \in Nat :
        /\ x = Cardinality(PermitsOf(a)) /\ y = Cardinality(NativesOf(a))
        /\ z = Cardinality(LostOf(a)) /\ admissions[a].uses = x + y + z
  BY UsersAreFinite DEF IInv, UseInv, UsesMatchPermits
<1>4. x <= p /\ y <= n /\ z <= q
  <2>1. PermitsOf(a) \in SUBSET DOMAIN permits /\ NativesOf(a) \in SUBSET DOMAIN nativeUses
        /\ LostOf(a) \in SUBSET DOMAIN quarantined
    BY DEF PermitsOf, NativesOf, LostOf
  <2>2. IsFiniteSet(DOMAIN permits) /\ IsFiniteSet(DOMAIN nativeUses) /\ IsFiniteSet(DOMAIN quarantined)
    BY TablesAreFinite DEF OwnInv
  <2> QED
    BY <1>1, <1>3, <2>1, <2>2, FS_Subset
<1> QED
  BY <1>2, <1>3, <1>4

(* No owner has more host bytes than are reserved. *)
LEMMA HostWords ==
  ASSUME HostInv
  PROVE  hostReserved \in Word /\ \A o \in HostOwners : o[3] \in Word
<1>1. PICK S, n : S = HostOwners /\ n = hostReserved
  OBVIOUS
<1>2. Charges(S, n) /\ n <= HostEnvelope
  BY <1>1 DEF HostInv
<1>3. n \in Word
  <2>1. n \in Nat
    BY <1>2, FS_CardinalityType DEF Charges
  <2> QED
    BY <1>2, <2>1, HostAssumption, WordAssumption DEF Word
<1>4. ASSUME NEW o \in S PROVE o[3] \in Word
  <2>1. o[3] \in Nat /\ n - o[3] \in Nat
    BY <1>2, ChargesDrop
  <2> QED
    BY <1>3, <2>1, WordAssumption DEF Word
<1> QED
  BY <1>1, <1>3, <1>4

LEMMA TypeFollows ==
  ASSUME IInv, OwnInv, HostInv, TypeInv
  PROVE  TypeOK
<1>1. IsLedger(ledger) /\ CounterInv /\ SlotInv /\ MemoryInv
  BY DEF TypeInv
<1>2. hostReserved \in Word
  BY HostWords
<1>3. /\ \A a \in DOMAIN admissions : admissions[a].host \in Word
      /\ \A n \in DOMAIN nativeUses : nativeUses[n].host \in Word /\ nativeUses[n].retainedHost \in Word
      /\ \A n \in DOMAIN quarantined : quarantined[n].host \in Word /\ quarantined[n].retainedHost \in Word
      /\ \A n \in DOMAIN results : results[n].host \in Word
  <2>1. \A r, k, v : <<r, k, v>> \in HostOwners => v \in Word
    BY HostWords
  <2>2. \A a \in DOMAIN admissions : <<"resident", a, admissions[a].host>> \in HostOwners
    BY DEF HostOwners
  <2>3. \A n \in DOMAIN nativeUses :
          /\ <<"mutable", n, nativeUses[n].host>> \in HostOwners
          /\ <<"output", n, nativeUses[n].retainedHost>> \in HostOwners
    BY DEF HostOwners
  <2>4. \A n \in DOMAIN quarantined :
          /\ <<"lost mutable", n, quarantined[n].host>> \in HostOwners
          /\ <<"lost output", n, quarantined[n].retainedHost>> \in HostOwners
    BY DEF HostOwners
  <2>5. \A n \in DOMAIN results : <<"result", n, results[n].host>> \in HostOwners
    BY DEF HostOwners
  <2> QED
    BY <2>1, <2>2, <2>3, <2>4, <2>5
<1>4. \A a \in DOMAIN admissions : a \in Id("adm")
  <2>1. ASSUME NEW a \in DOMAIN admissions PROVE a \in Id("adm")
    <3>1. PICK n \in Nat : n = nextId.adm /\ n \in Id("adm")
      BY <1>1 DEF CounterInv, IInv, Shape, Counters, Count
    <3>2. a \in 1..(n - 1)
      BY <3>1 DEF IInv, Shape
    <3> QED
      BY <3>1, <3>2, IdMaxima DEF Id, Count
  <2> QED
    BY <2>1
<1>5. \A a \in DOMAIN admissions :
       /\ a \in 1..(nextId.adm - 1)
       /\ admissions[a].kind \in {"legacy", "native"}
       /\ admissions[a].state \in AdmissionState
       /\ admissions[a].host \in Word
       /\ admissions[a].uses \in 0..MaxUses
  <2>1. ASSUME NEW a \in DOMAIN admissions
        PROVE  a \in 1..(nextId.adm - 1) /\ admissions[a].state \in AdmissionState
    BY DEF IInv, Shape, Entry
  <2> QED
    BY <1>1, <1>3, <2>1, UsesAreBounded DEF CounterInv
<1>6. \A o \in DOMAIN operations :
       o \in 1..(nextId.op - 1) /\ operations[o] \in [adm : Id("adm"), kind : {"load", "evict"}]
  <2>1. ASSUME NEW o \in DOMAIN operations
        PROVE  o \in 1..(nextId.op - 1) /\ operations[o] \in [adm : Id("adm"), kind : {"load", "evict"}]
    <3>1. PICK a \in Id("adm"), kind \in {"load", "evict"} : operations[o] = [adm |-> a, kind |-> kind]
      BY <1>4 DEF IInv, PendingInv
    <3> QED
      BY <3>1 DEF IInv, PendingInv
  <2> QED
    BY <2>1
<1>7. /\ \A p \in DOMAIN permits : p \in 1..(nextId.permit - 1) /\ permits[p] \in Id("adm")
      /\ \A n \in DOMAIN nativeLoads : n \in 1..(nextId.load - 1) /\ nativeLoads[n] \in Id("adm")
  BY <1>4 DEF IInv, PendingInv, UseInv, UsesMatchPermits
<1>8. /\ \A n \in DOMAIN nativeUses : n \in 1..(nextId.use - 1) /\ UseRecord(nativeUses[n])
      /\ \A n \in DOMAIN quarantined : n \in 1..(nextId.use - 1) /\ UseRecord(quarantined[n])
  <2>1. /\ \A n \in DOMAIN nativeUses : n \in 1..(nextId.use - 1) /\ nativeUses[n].adm \in Id("adm")
        /\ \A n \in DOMAIN quarantined : n \in 1..(nextId.use - 1) /\ quarantined[n].adm \in Id("adm")
    BY <1>4 DEF IInv, UseInv, UsesMatchPermits
  <2> QED
    BY <1>1, <1>3, <2>1, OwnedIds DEF UseRecord
<1>9. \A n \in DOMAIN results : n \in 1..(nextId.result - 1) /\ results[n].host \in Word
  BY <1>3 DEF OwnInv
<1>10. DOMAIN nextId = DOMAIN IdMax \ {"generation"} /\ \A k \in DOMAIN nextId : nextId[k] \in Id(k)
  <2>1. nextId \in Counters
    BY DEF IInv, Shape
  <2>2. DOMAIN nextId = {"adm", "op", "permit", "load", "use", "result"}
    BY <2>1 DEF Counters
  <2>3. DOMAIN IdMax = {"adm", "op", "permit", "load", "use", "result", "generation"}
    BY IdAssumption
  <2>4. \A k \in DOMAIN nextId : nextId[k] \in Id(k)
    BY <1>1, <2>2 DEF CounterInv
  <2> QED
    BY <2>2, <2>3, <2>4
<1>11. /\ Cardinality(DOMAIN admissions) <= MaxAdmissions
       /\ Cardinality(DOMAIN operations) + Cardinality(DOMAIN nativeLoads) <= MaxPending
       /\ Cardinality(DOMAIN permits) + Cardinality(DOMAIN nativeUses)
            + Cardinality(DOMAIN quarantined) + Cardinality(DOMAIN results) <= MaxUses
  BY <1>1 DEF SlotInv, PendingCount, CustodySlots
<1> QED
  BY <1>1, <1>2, <1>5, <1>6, <1>7, <1>8, <1>9, <1>10, <1>11 DEF TypeOK, CounterInv, MemoryInv

(* The controller's tables hold records of their declared shape under      *)
(* identifiers already issued, no counter or byte count leaves its word,   *)
(* and the tables never outgrow SchedulerLimits: a use keeps its slot      *)
(* until its result is discarded, and in quarantine for good.              *)
THEOREM TypeCorrect == Spec => []TypeOK
<1>1. Init => OwnInv /\ ResidentsApart /\ HostInv /\ TypeInv
  BY InitOwn, InitHost, InitType
<1>2. IInv /\ OwnInv /\ ResidentsApart /\ HostInv /\ TypeInv /\ [Next]_vars
        => OwnInv' /\ ResidentsApart' /\ HostInv' /\ TypeInv'
  BY NextOwn, NextHost, NextType DEF OwnersHold
<1>3. IInv /\ OwnInv /\ HostInv /\ TypeInv => TypeOK
  BY TypeFollows
<1> QED
  BY <1>1, <1>2, <1>3, AlwaysInv, PTL DEF Spec

------------------------------------------------------------------------------
(* The promises of ResourceCustody, read off the controller's state.       *)
AllClaims == Id("generation") \X Word
Charged == Claims(DOMAIN ledger.leases)
LostClaims == Claims(LostLeases)
Users == [c \in AllClaims |-> IF c[1] = generation THEN Pins(c[2]) ELSE 0]

OnPaper(st) == st = Plain("reserved") \/ st = DrainingReserved
PaperIds == {admissions[a].lease.id : a \in {b \in DOMAIN admissions : OnPaper(admissions[b].state)}}

(* Memory may be behind every active lease but those of the admissions     *)
(* that have not been told to load. *)
MemoryFollows == memory = Claims(DOMAIN ledger.leases \ PaperIds)
Admitted == \A a \in DOMAIN admissions : admissions[a].lease # NoLease
CustodyInv == Admitted /\ MemoryFollows

IsLost(a) == admissions[a].state.phase = "quarantined"
LostUses == {o[3].id : o \in Live(LostRows)}

(* What the tables say of one lease. *)
View ==
  /\ DOMAIN ledger.leases \subseteq Nat \ {0}
  /\ \A a \in DOMAIN admissions : admissions[a].lease.id \in DOMAIN ledger.leases
  /\ \A a, b \in DOMAIN admissions : admissions[a].lease.id = admissions[b].lease.id => a = b
  /\ LostLeases = {admissions[a].lease.id : a \in {b \in DOMAIN admissions : IsLost(b)}} \cup LostUses
  /\ LostUses \subseteq DOMAIN ledger.leases
  /\ \A a \in DOMAIN admissions : admissions[a].lease.id \notin LostUses
  /\ \A i : \A a \in DOMAIN admissions : admissions[a].lease.id = i => Pins(i) = admissions[a].uses
  /\ \A i : (\A a \in DOMAIN admissions : admissions[a].lease.id # i) => Pins(i) = 0

LEMMA PinsAreUses ==
  ASSUME \A a, b \in DOMAIN admissions : admissions[a].lease.id = admissions[b].lease.id => a = b
  PROVE  /\ \A i : \A a \in DOMAIN admissions : admissions[a].lease.id = i => Pins(i) = admissions[a].uses
         /\ \A i : (\A a \in DOMAIN admissions : admissions[a].lease.id # i) => Pins(i) = 0
<1>1. ASSUME NEW i, NEW a \in DOMAIN admissions, admissions[a].lease.id = i
      PROVE  Pins(i) = admissions[a].uses
  <2>2. PICK c : c = CHOOSE b \in DOMAIN admissions : admissions[b].lease.id = i
    OBVIOUS
  <2>3. c \in DOMAIN admissions /\ admissions[c].lease.id = i
    BY <1>1, <2>2
  <2>4. c = a
    BY <1>1, <2>3
  <2> QED
    BY <1>1, <2>2, <2>4 DEF Pins
<1>2. ASSUME NEW i, \A a \in DOMAIN admissions : admissions[a].lease.id # i PROVE Pins(i) = 0
  BY <1>2 DEF Pins
<1> QED
  BY <1>1, <1>2

LEMMA RowRoles == \A r, f : \A o \in Rows(r, f) : o[1] = r
<1> TAKE r, f
<1>1. ASSUME NEW o \in Rows(r, f) PROVE o[1] = r
  <2>1. PICK k \in DOMAIN f : o = <<r, k, f[k]>>
    BY DEF Rows
  <2> QED
    BY <2>1
<1> QED
  BY <1>1

LEMMA ViewOfOwners ==
  ASSUME OwnInv, Admitted
  PROVE  View
<1>1. PICK S, L : S = LeaseOwners /\ L = ledger.leases
  OBVIOUS
<1>2. OneEach(S, L) /\ DOMAIN L \subseteq Nat \ {0}
  BY <1>1 DEF OwnInv, Count
<1>3. \A o \in S : o[3].id \in DOMAIN L
  BY <1>2 DEF OneEach
<1>4. \A a \in DOMAIN admissions : <<"resident", a, admissions[a].lease>> \in S
  BY <1>1 DEF LeaseOwners, Admitted
<1>5. Live(LostRows) \subseteq S /\ \A o \in Live(LostRows) : o[1] \in {"lost mutable", "lost output"}
  <2>1. LostRows \subseteq All
    BY DEF All
  <2>2. \A o \in LostRows : o[1] \in {"lost mutable", "lost output"}
    BY RowRoles DEF LostRows
  <2> QED
    BY <1>1, <2>1, <2>2, OwnersAreRows DEF OwnersFollowRows, Live
<1>6. \A a \in DOMAIN admissions : admissions[a].lease.id \in DOMAIN L
  <2>1. ASSUME NEW a \in DOMAIN admissions PROVE admissions[a].lease.id \in DOMAIN L
    <3>1. PICK o \in S : o = <<"resident", a, admissions[a].lease>>
      BY <1>4
    <3> QED
      BY <1>3, <3>1
  <2> QED
    BY <2>1
<1>7. \A a, b \in DOMAIN admissions : admissions[a].lease.id = admissions[b].lease.id => a = b
  <2>1. ASSUME NEW a \in DOMAIN admissions, NEW b \in DOMAIN admissions,
               admissions[a].lease.id = admissions[b].lease.id
        PROVE  a = b
    <3>1. PICK o1 \in S, o2 \in S : o1 = <<"resident", a, admissions[a].lease>>
                                    /\ o2 = <<"resident", b, admissions[b].lease>>
      BY <1>4
    <3>2. o1[3].id = o2[3].id
      BY <2>1, <3>1
    <3>3. o1 = o2
      BY <1>2, <3>2 DEF OneEach
    <3> QED
      BY <3>1, <3>3
  <2> QED
    BY <2>1
<1>8. LostUses \subseteq DOMAIN L
  BY <1>3, <1>5 DEF LostUses
<1>9. ASSUME NEW a \in DOMAIN admissions, admissions[a].lease.id \in LostUses PROVE FALSE
  <2>1. PICK o1 \in S : o1 = <<"resident", a, admissions[a].lease>>
    BY <1>4
  <2>2. PICK o2 \in Live(LostRows) : o2[3].id = admissions[a].lease.id
    BY <1>9 DEF LostUses
  <2>3. o1[3].id = o2[3].id /\ o2 \in S
    BY <1>5, <2>1, <2>2
  <2>4. o1 = o2
    BY <1>2, <2>3 DEF OneEach
  <2>5. o1[1] = "resident"
    BY <2>1
  <2>6. o2[1] # "resident"
    BY <1>5
  <2> QED
    BY <2>4, <2>5, <2>6
<1>10. LostLeases = {admissions[a].lease.id : a \in {b \in DOMAIN admissions : IsLost(b)}} \cup LostUses
  <2>1. PICK F : F = {x \in S : \/ x[1] = "resident" /\ admissions[x[2]].state.phase = "quarantined"
                                \/ x[1] \in {"lost mutable", "lost output"}}
    OBVIOUS
  <2>2. LostLeases = {o[3].id : o \in F}
    BY <1>1, <2>1 DEF LostLeases
  <2>3. Live(LostRows) \subseteq F
    BY <1>5, <2>1
  <2>4. \A a \in DOMAIN admissions : IsLost(a) => <<"resident", a, admissions[a].lease>> \in F
    BY <1>4, <2>1 DEF IsLost
  <2>5. ASSUME NEW o \in F
        PROVE  \/ o \in Live(LostRows)
               \/ \E a \in DOMAIN admissions : IsLost(a) /\ o = <<"resident", a, admissions[a].lease>>
    <3>1. o \in Live(All)
      BY <1>1, <2>1, OwnersAreRows DEF OwnersFollowRows
    <3>2. CASE o \in LostRows
      BY <3>1, <3>2 DEF Live
    <3>3. CASE o \in AdmRows
      <4>1. PICK a \in DOMAIN admissions : o = <<"resident", a, admissions[a].lease>>
        BY <3>3 DEF AdmRows, Rows, AdmLeases
      <4>2. o[1] = "resident" /\ o[2] = a
        BY <4>1
      <4>3. IsLost(a)
        BY <2>1, <4>2 DEF IsLost
      <4> QED
        BY <4>1, <4>3
    <3>4. CASE o \in UseRows
      <4>1. o[1] \in {"mutable", "output"}
        BY <3>4 DEF UseRows, Rows
      <4> QED
        BY <2>1, <4>1
    <3>5. CASE o \in ResRows
      <4>1. o[1] = "result"
        BY <3>5 DEF ResRows, Rows
      <4> QED
        BY <2>1, <4>1
    <3> QED
      BY <3>1, <3>2, <3>3, <3>4, <3>5 DEF Live, All
  <2>6. \A o \in F : o[3].id \in {admissions[a].lease.id : a \in {b \in DOMAIN admissions : IsLost(b)}} \cup LostUses
    BY <2>5 DEF LostUses
  <2>7. \A a \in DOMAIN admissions : IsLost(a) => \E o \in F : o[3].id = admissions[a].lease.id
    <3>1. ASSUME NEW a \in DOMAIN admissions, IsLost(a) PROVE \E o \in F : o[3].id = admissions[a].lease.id
      <4>1. PICK o \in F : o = <<"resident", a, admissions[a].lease>>
        BY <2>4, <3>1
      <4> QED
        BY <4>1
    <3> QED
      BY <3>1
  <2>8. \A i \in LostUses : \E o \in F : o[3].id = i
    BY <2>3 DEF LostUses
  <2> QED
    BY <2>2, <2>6, <2>7, <2>8
<1> QED
  BY <1>1, <1>2, <1>6, <1>7, <1>8, <1>9, <1>10, PinsAreUses DEF View

ViewFollows == OwnInv /\ Admitted => View
ClaimsFollow == TypeInv => Charged \subseteq AllClaims

LEMMA ViewNow == ViewFollows
BY ViewOfOwners DEF ViewFollows

LEMMA ViewNext == ViewFollows'
BY ViewNow, PTL

LEMMA ClaimsNow == ClaimsFollow
<1> SUFFICES ASSUME TypeInv PROVE Charged \subseteq AllClaims
  BY DEF ClaimsFollow
<1>1. PICK l : l = ledger
  OBVIOUS
<1>2. IsLedger(l) /\ generation \in Id("generation")
  BY <1>1 DEF TypeInv, CounterInv
<1>3. DOMAIN l.leases \subseteq Word
  BY <1>2, WordAssumption DEF IsLedger, Word
<1> QED
  BY <1>1, <1>2, <1>3 DEF Charged, Claims, AllClaims

LEMMA ClaimsNext == ClaimsFollow'
BY ClaimsNow, PTL

(* When a step of the controller is one of ResourceCustody. *)
LEMMA IsStutter ==
  ASSUME UNCHANGED <<revoked, Charged, memory, LostClaims, Users>>
  PROVE  UNCHANGED Custody!vars
BY DEF Custody!vars, Charged, LostClaims, Users, AllClaims

LEMMA IsCharge ==
  ASSUME ~revoked, ~revoked', Charged \subseteq Charged', Charged' \ Charged \subseteq AllClaims,
         memory' \in {memory, memory \cup (Charged' \ Charged)},
         UNCHANGED <<LostClaims, Users>>
  PROVE  Custody!Next
<1>1. (~revoked)' = ~revoked
  OBVIOUS
<1> QED
  BY <1>1 DEF Custody!Next, Custody!Charge, Custody!New, Charged, LostClaims, Users, AllClaims

LEMMA IsOccupy ==
  ASSUME ~revoked, ~revoked', NEW c \in Charged \ memory, memory' = memory \cup {c},
         UNCHANGED <<Charged, LostClaims, Users>>
  PROVE  Custody!Next
<1>1. (~revoked)' = ~revoked
  OBVIOUS
<1> QED
  BY <1>1 DEF Custody!Next, Custody!Occupy, Charged, LostClaims, Users, AllClaims

LEMMA IsBegin ==
  ASSUME ~revoked, ~revoked', NEW c \in memory \ LostClaims, Users' = [Users EXCEPT ![c] = @ + 1],
         Charged \subseteq Charged', Charged' \ Charged \subseteq AllClaims,
         memory' = memory \cup (Charged' \ Charged), UNCHANGED LostClaims
  PROVE  Custody!Next
<1>1. (~revoked)' = ~revoked
  OBVIOUS
<1> QED
  BY <1>1 DEF Custody!Next, Custody!Begin, Custody!New, Charged, LostClaims, Users, AllClaims

Freed == {c \in memory \ LostClaims : Users[c] = 0}

LEMMA IsEnd ==
  ASSUME UNCHANGED revoked, NEW c \in Charged, Users[c] > 0, Users' = [Users EXCEPT ![c] = @ - 1],
         Charged' \subseteq Charged, Charged \ Charged' \subseteq Freed,
         memory' = memory \ (Charged \ Charged'), UNCHANGED LostClaims
  PROVE  Custody!Next
BY DEF Custody!Next, Custody!End, Custody!Gone, Custody!Vacatable, Freed, Charged, LostClaims,
       Users, AllClaims

LEMMA IsVacate ==
  ASSUME NEW c \in Freed, Charged' = Charged \ {c}, memory' = memory \ {c},
         UNCHANGED <<revoked, LostClaims, Users>>
  PROVE  Custody!Next
BY DEF Custody!Next, Custody!Vacate, Custody!Vacatable, Freed, Charged, LostClaims, Users, AllClaims

LEMMA IsCancel ==
  ASSUME NEW c \in Charged \ memory, Charged' = Charged \ {c},
         UNCHANGED <<revoked, memory, LostClaims, Users>>
  PROVE  Custody!Next
BY DEF Custody!Next, Custody!Cancel, Charged, LostClaims, Users, AllClaims

LEMMA IsLose ==
  ASSUME LostClaims \subseteq LostClaims', LostClaims' \subseteq memory,
         UNCHANGED <<revoked, Charged, memory, Users>>
  PROVE  Custody!Next
BY DEF Custody!Next, Custody!Lose, Charged, LostClaims, Users, AllClaims

LEMMA IsClose ==
  ASSUME revoked', UNCHANGED <<Charged, memory, LostClaims, Users>>
  PROVE  Custody!Next
BY DEF Custody!Next, Custody!Close, Charged, LostClaims, Users, AllClaims

LEMMA IsRenew ==
  ASSUME revoked, ~revoked', Charged = {}, UNCHANGED <<Charged, memory, LostClaims, Users>>
  PROVE  Custody!Next
BY DEF Custody!Next, Custody!Renew, Charged, LostClaims, Users, AllClaims

------------------------------------------------------------------------------
(* What the steps do to the view of one lease.                             *)
LostBook == {admissions[a].lease.id : a \in {b \in DOMAIN admissions : IsLost(b)}}

LEMMA UsersFollowPins ==
  ASSUME UNCHANGED generation, \A i : Pins(i)' = Pins(i)
  PROVE  Users' = Users
BY DEF Users, AllClaims

LEMMA UsersStay ==
  ASSUME View, View', UNCHANGED generation,
         \A b \in DOMAIN admissions \cap DOMAIN admissions' :
           admissions'[b].lease = admissions[b].lease /\ admissions'[b].uses = admissions[b].uses,
         \A b \in DOMAIN admissions \ DOMAIN admissions' : admissions[b].uses = 0,
         \A b \in DOMAIN admissions' \ DOMAIN admissions : admissions'[b].uses = 0
  PROVE  Users' = Users
<1>1. PICK D, D1 : D = DOMAIN admissions /\ D1 = DOMAIN admissions'
  OBVIOUS
<1>2. /\ \A a, b \in D : admissions[a].lease.id = admissions[b].lease.id => a = b
      /\ \A i : \A a \in D : admissions[a].lease.id = i => Pins(i) = admissions[a].uses
      /\ \A i : (\A a \in D : admissions[a].lease.id # i) => Pins(i) = 0
  BY <1>1 DEF View
<1>3. /\ \A a, b \in D1 : admissions'[a].lease.id = admissions'[b].lease.id => a = b
      /\ \A i : \A a \in D1 : admissions'[a].lease.id = i => Pins(i)' = admissions'[a].uses
      /\ \A i : (\A a \in D1 : admissions'[a].lease.id # i) => Pins(i)' = 0
  BY <1>1 DEF View
<1>4. ASSUME NEW i PROVE Pins(i)' = Pins(i)
  <2>1. CASE \E b \in D1 : admissions'[b].lease.id = i
    <3>1. PICK b \in D1 : admissions'[b].lease.id = i
      BY <2>1
    <3>2. Pins(i)' = admissions'[b].uses
      BY <1>3, <3>1
    <3>3. CASE b \in D
      BY <1>1, <1>2, <3>1, <3>2, <3>3
    <3>4. CASE b \notin D
      <4>1. Pins(i)' = 0
        BY <1>1, <3>2, <3>4
      <4>2. CASE \E a \in D : admissions[a].lease.id = i
        <5>1. PICK a \in D : admissions[a].lease.id = i
          BY <4>2
        <5>2. a \notin D1
          BY <1>1, <1>3, <3>1, <3>4, <5>1
        <5> QED
          BY <1>1, <1>2, <4>1, <5>1, <5>2
      <4> QED
        BY <1>2, <4>1, <4>2
    <3> QED
      BY <3>3, <3>4
  <2>2. CASE \A b \in D1 : admissions'[b].lease.id # i
    <3>1. Pins(i)' = 0
      BY <1>3, <2>2
    <3>2. CASE \E a \in D : admissions[a].lease.id = i
      <4>1. PICK a \in D : admissions[a].lease.id = i
        BY <3>2
      <4>2. a \notin D1
        BY <1>1, <2>2, <4>1
      <4> QED
        BY <1>1, <1>2, <3>1, <4>1, <4>2
    <3> QED
      BY <1>2, <3>1, <3>2
  <2> QED
    BY <2>1, <2>2
<1> QED
  BY <1>4, UsersFollowPins

LEMMA UsersMove ==
  ASSUME View, View', TypeInv, UNCHANGED generation,
         NEW a \in DOMAIN admissions, NEW c, c = <<generation, admissions[a].lease.id>>,
         DOMAIN admissions' = DOMAIN admissions,
         \A b \in DOMAIN admissions :
           /\ admissions'[b].lease = admissions[b].lease
           /\ b # a => admissions'[b].uses = admissions[b].uses
  PROVE  /\ c \in Charged /\ Users[c] = admissions[a].uses
         /\ Users' = [Users EXCEPT ![c] = admissions'[a].uses]
<1>1. PICK i : i = admissions[a].lease.id
  OBVIOUS
<1>2. c \in Charged /\ c \in AllClaims
  <2>1. i \in DOMAIN ledger.leases
    BY <1>1 DEF View
  <2>2. c \in Charged
    BY <1>1, <2>1 DEF Charged, Claims
  <2> QED
    BY <2>2, ClaimsNow DEF ClaimsFollow
<1>3. c[1] = generation /\ c[2] = i
  BY <1>1
<1>4. Pins(i) = admissions[a].uses /\ Pins(i)' = admissions'[a].uses
  BY <1>1 DEF View
<1>5. ASSUME NEW j, j # i PROVE Pins(j)' = Pins(j)
  <2>1. CASE \E b \in DOMAIN admissions : admissions[b].lease.id = j
    <3>1. PICK b \in DOMAIN admissions : admissions[b].lease.id = j
      BY <2>1
    <3>2. b # a /\ b \in DOMAIN admissions' /\ admissions'[b].lease.id = j
      BY <1>1, <1>5, <3>1
    <3>3. Pins(j) = admissions[b].uses
      BY <3>1 DEF View
    <3>4. Pins(j)' = admissions'[b].uses
      BY <3>2 DEF View
    <3> QED
      BY <3>2, <3>3, <3>4
  <2>2. CASE \A b \in DOMAIN admissions : admissions[b].lease.id # j
    <3>1. Pins(j) = 0
      BY <2>2 DEF View
    <3>2. \A b \in DOMAIN admissions' : admissions'[b].lease.id # j
      BY <2>2
    <3>3. Pins(j)' = 0
      BY <3>2 DEF View
    <3> QED
      BY <3>1, <3>3
  <2> QED
    BY <2>1, <2>2
<1>6. ASSUME NEW d \in AllClaims
      PROVE  Users'[d] = IF d = c THEN admissions'[a].uses ELSE Users[d]
  <2>1. d = <<d[1], d[2]>>
    BY DEF AllClaims
  <2>2. Users'[d] = IF d[1] = generation THEN Pins(d[2])' ELSE 0
    BY DEF Users, AllClaims
  <2>3. Users[d] = IF d[1] = generation THEN Pins(d[2]) ELSE 0
    BY DEF Users
  <2>4. CASE d = c
    BY <1>3, <1>4, <2>2, <2>4
  <2>5. CASE d # c
    <3>1. d[1] = generation => d[2] # i
      BY <1>1, <2>1, <2>5
    <3> QED
      BY <1>5, <2>2, <2>3, <2>5, <3>1
  <2> QED
    BY <2>4, <2>5
<1>7. Users[c] = admissions[a].uses
  BY <1>2, <1>3, <1>4 DEF Users
<1>8. Users' = [Users EXCEPT ![c] = admissions'[a].uses]
  <2>1. Users = [d \in AllClaims |-> Users[d]] /\ Users' = [d \in AllClaims |-> Users'[d]]
    BY DEF Users, AllClaims
  <2> QED
    BY <1>6, <2>1
<1> QED
  BY <1>2, <1>7, <1>8

LEMMA LostStays ==
  ASSUME View, View', UNCHANGED generation, LostUses' = LostUses,
         \A b \in DOMAIN admissions \cap DOMAIN admissions' :
           admissions'[b].lease = admissions[b].lease /\ (IsLost(b)' <=> IsLost(b)),
         \A b \in DOMAIN admissions \ DOMAIN admissions' : ~IsLost(b),
         \A b \in DOMAIN admissions' \ DOMAIN admissions : ~IsLost(b)'
  PROVE  LostClaims' = LostClaims
<1>1. LostBook' = LostBook
  BY DEF LostBook
<1>2. LostLeases = LostBook \cup LostUses /\ LostLeases' = LostBook' \cup LostUses'
  BY DEF View, LostBook
<1> QED
  BY <1>1, <1>2 DEF LostClaims, Claims

LEMMA LostUsesStay ==
  ASSUME UNCHANGED quarantined
  PROVE  LostUses' = LostUses
BY DEF LostUses, LostRows, Live, Rows, LostMutLeases, LostOutLeases

LEMMA PaperStays ==
  ASSUME \A b \in DOMAIN admissions \cap DOMAIN admissions' :
           /\ admissions'[b].lease = admissions[b].lease
           /\ OnPaper(admissions'[b].state) <=> OnPaper(admissions[b].state),
         \A b \in DOMAIN admissions \ DOMAIN admissions' : ~OnPaper(admissions[b].state),
         \A b \in DOMAIN admissions' \ DOMAIN admissions : ~OnPaper(admissions'[b].state)
  PROVE  PaperIds' = PaperIds
BY DEF PaperIds

Step == Custody!Next \/ UNCHANGED Custody!vars
Mapped == CustodyInv' /\ Step

(* A step that only changes what the admissions are doing. *)
LEMMA BookKept ==
  ASSUME OwnInv, OwnInv', CustodyInv, UNCHANGED <<ledger, generation, quarantined>>,
         DOMAIN admissions' = DOMAIN admissions,
         \A b \in DOMAIN admissions : admissions'[b].lease = admissions[b].lease
  PROVE  /\ View /\ View' /\ Admitted' /\ Charged' = Charged
         /\ (\A b \in DOMAIN admissions : admissions'[b].uses = admissions[b].uses) => Users' = Users
         /\ (\A b \in DOMAIN admissions : IsLost(b)' <=> IsLost(b)) => LostClaims' = LostClaims
         /\ (\A b \in DOMAIN admissions :
               OnPaper(admissions'[b].state) <=> OnPaper(admissions[b].state)) => PaperIds' = PaperIds
<1>1. Admitted'
  BY DEF CustodyInv, Admitted
<1>2. View /\ View'
  BY <1>1, ViewNow, ViewNext DEF CustodyInv, ViewFollows
<1>3. Charged' = Charged /\ LostUses' = LostUses
  BY LostUsesStay DEF Charged, Claims
<1>4. (\A b \in DOMAIN admissions : admissions'[b].uses = admissions[b].uses) => Users' = Users
  BY <1>2, UsersStay
<1>5. (\A b \in DOMAIN admissions : IsLost(b)' <=> IsLost(b)) => LostClaims' = LostClaims
  BY <1>2, <1>3, LostStays
<1>6. (\A b \in DOMAIN admissions :
         OnPaper(admissions'[b].state) <=> OnPaper(admissions[b].state)) => PaperIds' = PaperIds
  BY PaperStays
<1> QED
  BY <1>1, <1>2, <1>3, <1>4, <1>5, <1>6

LEMMA MemoryStays ==
  ASSUME CustodyInv, Admitted', UNCHANGED <<ledger, generation, memory, PaperIds>>
  PROVE  CustodyInv'
BY DEF CustodyInv, MemoryFollows, Claims

LEMMA PaperFacts ==
  ASSUME NEW st \in AdmissionState
  PROVE  /\ OnPaper(st) => st.resident = NoHandle /\ ~LoadState(st) /\ ~EvictState(st)
                           /\ st.phase \in {"reserved", "draining"}
         /\ st.phase = "reserved" => OnPaper(st)
         /\ st.phase = "loading" => ~OnPaper(st)
         /\ OnPaper(ToDraining(st)) <=> OnPaper(st)
         /\ ToDraining(st).phase = "quarantined" <=> st.phase = "quarantined"
<1>1. OnPaper(st) => st.resident = NoHandle /\ ~LoadState(st) /\ ~EvictState(st)
                     /\ st.phase \in {"reserved", "draining"}
  BY DEF OnPaper, Plain, DrainingReserved, DrainingLoad, LoadState, EvictState
<1>2. st.phase = "reserved" => OnPaper(st)
  BY StateFacts DEF OnPaper
<1>3. CASE st.phase = "reserved"
  <2>1. ToDraining(st) = DrainingReserved
    BY <1>3 DEF ToDraining
  <2> QED
    BY <1>1, <1>2, <1>3, <2>1, PlainFacts DEF OnPaper
<1>4. CASE st.phase = "loading"
  <2>1. ToDraining(st) = DrainingLoad
    BY <1>4 DEF ToDraining
  <2>2. ~OnPaper(DrainingLoad)
    BY DEF OnPaper, Plain, DrainingReserved, DrainingLoad
  <2> QED
    BY <1>1, <1>4, <2>1, <2>2, PlainFacts
<1>5. CASE st.phase \in {"resident", "inuse"}
  <2>1. ToDraining(st) = Holding("draining", st.resident) /\ st.resident # NoHandle
    BY <1>5, StateFacts, HandleAssumption DEF ToDraining
  <2>2. ~OnPaper(ToDraining(st)) /\ ToDraining(st).phase = "draining"
    BY <2>1 DEF OnPaper, Plain, DrainingReserved, Holding
  <2> QED
    BY <1>1, <1>5, <2>2
<1>6. CASE st.phase \in {"draining", "evicting", "quarantined"}
  <2>1. ToDraining(st) = st
    BY <1>6 DEF ToDraining
  <2> QED
    BY <1>1, <1>2, <1>6, <2>1
<1> QED
  BY <1>1, <1>2, <1>3, <1>4, <1>5, <1>6, StateFacts DEF Phase

LEMMA StepFacts ==
  /\ \A p \in Phase : \A h : h # NoHandle => ~OnPaper(Holding(p, h))
  /\ \A h : ~OnPaper(Holding("quarantined", h)) /\ ~OnPaper(Holding("evicting", h))
            /\ ~OnPaper(Holding("inuse", h)) /\ ~OnPaper(Holding("resident", h))
  /\ ~OnPaper(Plain("loading")) /\ ~OnPaper(Plain("quarantined")) /\ ~OnPaper(DrainingLoad)
BY DEF OnPaper, Plain, DrainingReserved, DrainingLoad, Holding

LEMMA SetStateBook ==
  ASSUME Shape, NEW a \in DOMAIN admissions, NEW st, admissions' = SetState(a, st)
  PROVE  /\ DOMAIN admissions' = DOMAIN admissions
         /\ \A b \in DOMAIN admissions :
              /\ admissions'[b].lease = admissions[b].lease
              /\ admissions'[b].uses = admissions[b].uses
              /\ admissions'[b].state = IF b = a THEN st ELSE admissions[b].state
<1>1. DOMAIN admissions' = DOMAIN admissions
  BY DEF SetState
<1>2. ASSUME NEW b \in DOMAIN admissions
      PROVE  /\ admissions'[b].lease = admissions[b].lease
             /\ admissions'[b].uses = admissions[b].uses
             /\ admissions'[b].state = IF b = a THEN st ELSE admissions[b].state
  <2>1. admissions'[b] = IF b = a THEN [admissions[a] EXCEPT !.state = st] ELSE admissions[b]
    BY DEF SetState
  <2>2. Entry(admissions[b])
    BY DEF Shape
  <2> QED
    BY <2>1, <2>2 DEF Entry
<1> QED
  BY <1>1, <1>2

LostIsHeld == View /\ MemoryFollows => LostClaims \subseteq memory

LEMMA LostHasMemory == LostIsHeld
<1> SUFFICES ASSUME View, MemoryFollows PROVE LostClaims \subseteq memory
  BY DEF LostIsHeld
<1>1. ASSUME NEW i \in LostLeases PROVE i \in DOMAIN ledger.leases \ PaperIds
  <2>1. CASE i \in LostUses
    BY <2>1 DEF View, PaperIds
  <2>2. CASE i \notin LostUses
    <3>1. PICK a \in DOMAIN admissions : IsLost(a) /\ i = admissions[a].lease.id
      BY <2>2 DEF View
    <3>2. ~OnPaper(admissions[a].state)
      BY <3>1 DEF IsLost, OnPaper, Plain, DrainingReserved
    <3>3. i \in DOMAIN ledger.leases
      BY <3>1 DEF View
    <3>4. ASSUME NEW b \in DOMAIN admissions, OnPaper(admissions[b].state), admissions[b].lease.id = i
          PROVE  FALSE
      <4>1. b = a
        BY <3>1, <3>4 DEF View
      <4> QED
        BY <3>2, <3>4, <4>1
    <3> QED
      BY <3>3, <3>4 DEF PaperIds
  <2> QED
    BY <2>1, <2>2
<1> QED
  BY <1>1 DEF MemoryFollows, LostClaims, Claims

LEMMA LostHasMemoryNext == LostIsHeld'
BY LostHasMemory, PTL

(* A step that moves one admission between states that are alike for its   *)
(* memory does nothing, one that quarantines it loses its memory.          *)
LEMMA StateMapped ==
  ASSUME IInv, OwnInv, OwnInv', CustodyInv, NEW a \in DOMAIN admissions, NEW st \in AdmissionState,
         admissions' = SetState(a, st), OnPaper(st) <=> OnPaper(admissions[a].state),
         IsLost(a) => st.phase = "quarantined",
         UNCHANGED <<ledger, generation, revoked, quarantined, memory>>
  PROVE  Mapped
<1>1. /\ DOMAIN admissions' = DOMAIN admissions
      /\ \A b \in DOMAIN admissions :
           /\ admissions'[b].lease = admissions[b].lease
           /\ admissions'[b].uses = admissions[b].uses
           /\ admissions'[b].state = IF b = a THEN st ELSE admissions[b].state
  BY SetStateBook DEF IInv
<1>2. /\ View /\ View' /\ Admitted' /\ Charged' = Charged /\ Users' = Users /\ PaperIds' = PaperIds
      /\ (\A b \in DOMAIN admissions : IsLost(b)' <=> IsLost(b)) => LostClaims' = LostClaims
  BY <1>1, BookKept
<1>3. CustodyInv'
  BY <1>2, MemoryStays
<1>4. CASE IsLost(a) <=> st.phase = "quarantined"
  <2>1. LostClaims' = LostClaims
    BY <1>1, <1>2, <1>4 DEF IsLost
  <2> QED
    BY <1>2, <1>3, <2>1, IsStutter DEF Mapped, Step
<1>5. CASE ~(IsLost(a) <=> st.phase = "quarantined")
  <2>1. LostUses' = LostUses
    BY LostUsesStay
  <2>2. \A b \in DOMAIN admissions : IsLost(b) => IsLost(b)'
    BY <1>1 DEF IsLost
  <2>3. LostBook \subseteq LostBook'
    BY <1>1, <2>2 DEF LostBook
  <2>4. LostLeases = LostBook \cup LostUses /\ LostLeases' = LostBook' \cup LostUses'
    BY <1>2 DEF View, LostBook
  <2>5. LostClaims \subseteq LostClaims'
    BY <2>1, <2>3, <2>4 DEF LostClaims, Claims
  <2>6. LostClaims' \subseteq memory'
    BY <1>2, <1>3, LostHasMemoryNext DEF CustodyInv, LostIsHeld
  <2> QED
    BY <1>2, <1>3, <2>5, <2>6, IsLose DEF Mapped, Step
<1> QED
  BY <1>4, <1>5

(* An admission is forgotten with its lease: on paper only, or with the    *)
(* memory behind it. *)
LEMMA ReleaseMapped ==
  ASSUME IInv, OwnInv, OwnInv', CustodyInv, TypeInv, NEW a \in DOMAIN admissions,
         ReleaseAdmission(a), admissions[a].uses = 0, ~IsLost(a),
         UNCHANGED <<generation, revoked, quarantined>>,
         \/ OnPaper(admissions[a].state) /\ memory' = memory
         \/ ~OnPaper(admissions[a].state) /\ memory' = memory \ Claims({admissions[a].lease.id})
  PROVE  Mapped
<1>1. PICK i, c : i = admissions[a].lease.id /\ c = <<generation, i>>
  OBVIOUS
<1>2. /\ DOMAIN admissions' = DOMAIN admissions \ {a}
      /\ \A b \in DOMAIN admissions' : admissions'[b] = admissions[b]
  BY ReleaseGone DEF Gone
<1>3. Admitted'
  BY <1>2 DEF CustodyInv, Admitted
<1>4. View /\ View' /\ MemoryFollows
  BY <1>3, ViewNow, ViewNext DEF CustodyInv, ViewFollows
<1>5. Users' = Users
  BY <1>2, <1>4, UsersStay
<1>6. LostClaims' = LostClaims
  <2>1. LostUses' = LostUses
    BY LostUsesStay
  <2> QED
    BY <1>2, <1>4, <2>1, LostStays DEF IsLost
<1>7. DOMAIN ledger'.leases = DOMAIN ledger.leases \ {i} /\ i \in DOMAIN ledger.leases
  <2>1. ledger' = Release(ledger, i)
    BY <1>1 DEF ReleaseAdmission
  <2> QED
    BY <1>1, <1>4, <2>1 DEF Release, View
<1>8. Charged' = Charged \ {c} /\ c \in Charged
  BY <1>1, <1>7 DEF Charged, Claims
<1>9. PaperIds' = PaperIds \ {i}
  <2>1. \A b \in DOMAIN admissions : admissions[b].lease.id = i => b = a
    BY <1>1, <1>4 DEF View
  <2> QED
    BY <1>1, <1>2, <2>1 DEF PaperIds
<1>10. i \in PaperIds <=> OnPaper(admissions[a].state)
  BY <1>1, <1>4 DEF PaperIds, View
<1>11. CustodyInv'
  <2>1. MemoryFollows'
    BY <1>1, <1>4, <1>7, <1>9, <1>10 DEF MemoryFollows, Claims
  <2> QED
    BY <1>3, <2>1 DEF CustodyInv
<1>12. c \notin LostClaims
  <2>1. i \notin LostUses
    BY <1>1, <1>4 DEF View
  <2>2. \A b \in DOMAIN admissions : IsLost(b) => admissions[b].lease.id # i
    BY <1>1, <1>4 DEF View
  <2>3. i \notin LostLeases
    BY <1>4, <2>1, <2>2 DEF View
  <2> QED
    BY <1>1, <2>3 DEF LostClaims, Claims
<1>13. CASE OnPaper(admissions[a].state)
  <2>1. c \notin memory /\ memory' = memory
    BY <1>1, <1>4, <1>10, <1>13 DEF MemoryFollows, Claims
  <2> QED
    BY <1>5, <1>6, <1>8, <1>11, <2>1, IsCancel DEF Mapped, Step
<1>14. CASE ~OnPaper(admissions[a].state)
  <2>1. c \in memory /\ memory' = memory \ {c}
    BY <1>1, <1>4, <1>7, <1>10, <1>14 DEF MemoryFollows, Claims
  <2>2. Users[c] = 0
    <3>1. c \in AllClaims
      BY <1>8, ClaimsNow DEF ClaimsFollow
    <3>2. c[1] = generation /\ c[2] = i
      BY <1>1
    <3>3. Pins(i) = 0
      BY <1>1, <1>4 DEF View
    <3> QED
      BY <3>1, <3>2, <3>3 DEF Users
  <2>3. c \in Freed
    BY <1>12, <2>1, <2>2 DEF Freed
  <2> QED
    BY <1>5, <1>6, <1>8, <1>11, <2>1, <2>3, IsVacate DEF Mapped, Step
<1> QED
  BY <1>13, <1>14

(* Who loads or is evicted has no use and is not lost. *)
LEMMA BusyIsFree ==
  ASSUME IInv, NEW a \in DOMAIN admissions
  PROVE  /\ admissions[a].state \in AdmissionState
         /\ LoadState(admissions[a].state) \/ EvictState(admissions[a].state)
              => admissions[a].uses = 0 /\ ~IsLost(a) /\ ~OnPaper(admissions[a].state)
         /\ OnPaper(admissions[a].state) => admissions[a].uses = 0 /\ ~IsLost(a)
<1>1. PICK st \in AdmissionState : st = admissions[a].state
  BY DEF IInv, Shape, Entry
<1>2. /\ UsesOf(a) > 0 => st.phase \in {"inuse", "draining", "quarantined"} /\ st.resident # NoHandle
      /\ admissions[a].uses = UsesOf(a) /\ admissions[a].uses \in Nat
  BY <1>1 DEF IInv, Shape, Entry, UseInv, UsesMatchPermits
<1>3. LoadState(st) \/ EvictState(st) \/ OnPaper(st) => UsesOf(a) = 0
  BY <1>1, <1>2, StateFacts, PaperFacts
<1>4. LoadState(st) \/ EvictState(st) \/ OnPaper(st) => st.phase # "quarantined"
  BY <1>1, StateFacts, PaperFacts
<1> QED
  BY <1>1, <1>2, <1>3, <1>4, PaperFacts DEF IsLost

LEMMA PollMapped ==
  ASSUME IInv, OwnInv, OwnInv', CustodyInv, TypeInv, Poll
  PROVE  Mapped
<1>1. CASE PollRelease
  <2>1. PICK a \in LocalReleases : ReleaseAdmission(a)
    BY <1>1 DEF PollRelease
  <2>2. a \in DOMAIN admissions /\ OnPaper(admissions[a].state)
    BY DEF LocalReleases, OnPaper
  <2>3. memory' = memory /\ UNCHANGED <<generation, revoked, quarantined>>
    BY <1>1 DEF PollRelease, grantVars, uses
  <2>4. admissions[a].uses = 0 /\ ~IsLost(a)
    BY <2>2, BusyIsFree
  <2> QED
    BY <2>1, <2>2, <2>3, <2>4, ReleaseMapped
<1>2. CASE PollEvict
  <2>1. PICK a \in Evictable : Issue(a, "evict", Holding("evicting", admissions[a].state.resident))
                               /\ memory' = memory
    BY <1>2 DEF PollEvict
  <2>2. PICK st : st = Holding("evicting", admissions[a].state.resident)
    OBVIOUS
  <2>3. a \in DOMAIN admissions /\ admissions[a].state.resident # NoHandle /\ ~IsLost(a)
    BY DEF Evictable, IsLost
  <2>4. st \in AdmissionState
    BY <2>2, <2>3, BusyIsFree, StateFacts, StatesBuilt
  <2>5. ~OnPaper(st) /\ ~OnPaper(admissions[a].state)
    BY <2>2, <2>3, BusyIsFree, StepFacts, PaperFacts
  <2>6. admissions' = SetState(a, st) /\ UNCHANGED <<ledger, generation, revoked, quarantined>>
    BY <2>1, <2>2 DEF Issue, accounts, grantVars, uses
  <2> QED
    BY <2>1, <2>3, <2>4, <2>5, <2>6, StateMapped
<1>3. CASE PollLoad
  <2>1. PICK a \in Loadable : /\ Issue(a, "load", Plain("loading"))
                              /\ memory' = memory \cup Claims({admissions[a].lease.id})
    BY <1>3 DEF PollLoad
  <2>2. PICK st, i, c : st = Plain("loading") /\ i = admissions[a].lease.id /\ c = <<generation, i>>
    OBVIOUS
  <2>3. a \in DOMAIN admissions /\ OnPaper(admissions[a].state) /\ ~revoked /\ ~IsLost(a)
    BY BusyIsFree, PaperFacts DEF Loadable
  <2>4. admissions' = SetState(a, st) /\ UNCHANGED <<ledger, generation, revoked, quarantined>>
    BY <2>1, <2>2 DEF Issue, accounts, grantVars, uses
  <2>5. /\ DOMAIN admissions' = DOMAIN admissions
        /\ \A b \in DOMAIN admissions :
             /\ admissions'[b].lease = admissions[b].lease
             /\ admissions'[b].uses = admissions[b].uses
             /\ admissions'[b].state = IF b = a THEN st ELSE admissions[b].state
    BY <2>3, <2>4, SetStateBook DEF IInv
  <2>6. ~OnPaper(st) /\ st.phase = "loading"
    BY <2>2, StepFacts, PlainFacts DEF Phase
  <2>7. View /\ View' /\ Admitted' /\ Charged' = Charged /\ Users' = Users
    BY <2>4, <2>5, BookKept
  <2>8. LostClaims' = LostClaims
    <3>1. \A b \in DOMAIN admissions : IsLost(b)' <=> IsLost(b)
      BY <2>3, <2>5, <2>6 DEF IsLost
    <3> QED
      BY <2>4, <2>5, <3>1, BookKept
  <2>9. PaperIds' = PaperIds \ {i} /\ i \in PaperIds /\ i \in DOMAIN ledger.leases
    <3>1. \A b \in DOMAIN admissions : admissions[b].lease.id = i => b = a
      BY <2>2, <2>3, <2>7 DEF View
    <3>2. i \in DOMAIN ledger.leases
      BY <2>2, <2>3, <2>7 DEF View
    <3>3. PaperIds' = PaperIds \ {i}
      BY <2>2, <2>5, <2>6, <3>1 DEF PaperIds
    <3> QED
      BY <2>2, <2>3, <3>2, <3>3 DEF PaperIds
  <2>10. c \in Charged \ memory /\ memory' = memory \cup {c}
    BY <2>1, <2>2, <2>9 DEF CustodyInv, MemoryFollows, Charged, Claims
  <2>11. CustodyInv'
    <3>1. MemoryFollows'
      BY <2>2, <2>4, <2>9, <2>10 DEF CustodyInv, MemoryFollows, Claims
    <3> QED
      BY <2>7, <3>1 DEF CustodyInv
  <2> QED
    BY <2>3, <2>4, <2>7, <2>8, <2>10, <2>11, IsOccupy DEF Mapped, Step
<1> QED
  BY <1>1, <1>2, <1>3 DEF Poll

LEMMA LoadedMapped ==
  ASSUME IInv, OwnInv, OwnInv', CustodyInv, NEW a \in DOMAIN admissions, NEW h \in Handle,
         LoadState(admissions[a].state), admissions' = SetState(a, LoadedState(a, h)),
         UNCHANGED <<ledger, generation, revoked, quarantined, memory>>
  PROVE  Mapped
<1>1. PICK st : st = LoadedState(a, h)
  OBVIOUS
<1>2. st = Holding("draining", h) \/ st = Holding("resident", h)
  BY <1>1 DEF LoadedState
<1>3. st \in AdmissionState /\ h # NoHandle
  BY <1>2, StatesBuilt, HandleAssumption
<1>4. ~OnPaper(st)
  BY <1>2, <1>3, StepFacts DEF Phase
<1>5. ~IsLost(a) /\ ~OnPaper(admissions[a].state)
  BY BusyIsFree
<1> QED
  BY <1>1, <1>3, <1>4, <1>5, StateMapped

LEMMA CompleteMapped ==
  ASSUME IInv, OwnInv, OwnInv', CustodyInv, TypeInv, NEW o \in DOMAIN operations, Complete(o)
  PROVE  Mapped
<1>1. PICK a : a = operations[o].adm
  OBVIOUS
<1>2. a \in DOMAIN admissions /\ UNCHANGED <<generation, revoked, quarantined>>
  BY <1>1 DEF IInv, PendingInv, Complete, grantVars, uses
<1>3. LoadState(admissions[a].state) \/ EvictState(admissions[a].state)
  BY <1>1 DEF IInv, PendingInv
<1>4. ~IsLost(a) /\ ~OnPaper(admissions[a].state) /\ admissions[a].uses = 0
  BY <1>2, <1>3, BusyIsFree
<1>5. CASE \E h \in Handle : Loaded(o, h)
  <2>1. PICK h \in Handle : Loaded(o, h)
    BY <1>5
  <2>2. /\ admissions' = SetState(a, LoadedState(a, h)) /\ UNCHANGED <<ledger, memory>>
        /\ LoadState(admissions[a].state)
    BY <1>1, <2>1 DEF Loaded, accounts, Acknowledges, IsLoading, LoadState
  <2> QED
    BY <1>2, <2>2, LoadedMapped
<1>6. CASE ReleasedBy(o, "load") \/ ReleasedBy(o, "evict")
  <2>1. ReleaseAdmission(a) /\ memory' = memory \ Claims({admissions[a].lease.id})
    BY <1>1, <1>6 DEF ReleasedBy
  <2> QED
    BY <1>2, <1>4, <2>1, ReleaseMapped
<1>7. CASE QuarantinedBy(o, "load") \/ QuarantinedBy(o, "evict")
  <2>1. PICK st : st = Holding("quarantined", admissions[a].state.resident)
    OBVIOUS
  <2>2. admissions' = SetState(a, st) /\ UNCHANGED <<ledger, memory>>
    BY <1>1, <1>7, <2>1 DEF QuarantinedBy, accounts
  <2>3. st \in AdmissionState
    BY <1>2, <2>1, BusyIsFree, StateFacts, StatesBuilt
  <2>4. ~OnPaper(st)
    BY <2>1, StepFacts
  <2> QED
    BY <1>2, <1>4, <2>2, <2>3, <2>4, StateMapped
<1>8. CASE EvictFailed(o)
  <2>1. PICK st : st = Holding("draining", admissions[a].state.resident)
    OBVIOUS
  <2>2. /\ admissions' = SetState(a, st) /\ UNCHANGED <<ledger, memory>>
        /\ EvictState(admissions[a].state)
    BY <1>1, <1>8, <2>1 DEF EvictFailed, accounts, Acknowledges, EvictState
  <2>3. admissions[a].state.resident # NoHandle
    BY <1>2, <2>2, BusyIsFree, StateFacts
  <2>4. st \in AdmissionState /\ ~OnPaper(st)
    BY <1>2, <2>1, <2>3, BusyIsFree, StateFacts, StatesBuilt, StepFacts DEF Phase
  <2> QED
    BY <1>2, <1>4, <2>2, <2>4, StateMapped
<1> QED
  BY <1>5, <1>6, <1>7, <1>8 DEF Complete

LEMMA NativeLoadMapped ==
  ASSUME IInv, OwnInv, OwnInv', CustodyInv, TypeInv, NEW n \in DOMAIN nativeLoads, NativeLoadEnds(n)
  PROVE  Mapped
<1>1. PICK a : a = nativeLoads[n]
  OBVIOUS
<1>2. a \in DOMAIN admissions /\ LoadState(admissions[a].state)
  BY <1>1 DEF IInv, PendingInv
<1>3. UNCHANGED <<generation, revoked, quarantined>>
  BY DEF NativeLoadEnds, CompleteNativeLoad, NativeLoadReleased, QuarantineNativeLoad, grantVars, uses
<1>4. ~IsLost(a) /\ ~OnPaper(admissions[a].state) /\ admissions[a].uses = 0
  BY <1>2, BusyIsFree
<1>5. CASE \E h \in Handle : CompleteNativeLoad(n, h)
  <2>1. PICK h \in Handle : CompleteNativeLoad(n, h)
    BY <1>5
  <2>2. admissions' = SetState(a, LoadedState(a, h)) /\ UNCHANGED <<ledger, memory>>
    BY <1>1, <2>1 DEF CompleteNativeLoad, accounts
  <2> QED
    BY <1>2, <1>3, <2>2, LoadedMapped
<1>6. CASE NativeLoadReleased(n)
  <2>1. ReleaseAdmission(a) /\ memory' = memory \ Claims({admissions[a].lease.id})
    BY <1>1, <1>6 DEF NativeLoadReleased
  <2> QED
    BY <1>2, <1>3, <1>4, <2>1, ReleaseMapped
<1>7. CASE QuarantineNativeLoad(n)
  <2>1. PICK st : st = Plain("quarantined")
    OBVIOUS
  <2>2. admissions' = SetState(a, st) /\ UNCHANGED <<ledger, memory>>
    BY <1>1, <1>7, <2>1 DEF QuarantineNativeLoad, accounts
  <2>3. st \in AdmissionState /\ ~OnPaper(st)
    BY <2>1, StatesBuilt, StepFacts
  <2> QED
    BY <1>2, <1>3, <1>4, <2>2, <2>3, StateMapped
<1> QED
  BY <1>5, <1>6, <1>7 DEF NativeLoadEnds

LEMMA ReserveIds ==
  ASSUME OwnInv, NEW batch, Len(batch) \in Nat, ledger' = Reserve(ledger, batch),
         NEW ids, ids = NewIds(ledger, batch)
  PROVE  /\ DOMAIN ledger'.leases = DOMAIN ledger.leases \cup ids
         /\ ids \cap DOMAIN ledger.leases = {}
         /\ ids = ledger.nextId..(ledger.nextId + Len(batch) - 1)
<1>1. PICK c \in Count : c = ledger.nextId
  BY DEF OwnInv
<1>2. DOMAIN ledger'.leases = DOMAIN ledger.leases \cup ids
  BY DEF Reserve
<1>3. ids = c..(c + Len(batch) - 1) /\ DOMAIN ledger.leases \subseteq 1..(c - 1)
  BY <1>1 DEF NewIds, OwnInv
<1> QED
  BY <1>1, <1>2, <1>3 DEF Count

(* Admissions are added with a lease each: on paper, or loading at once. *)
LEMMA AddedMapped ==
  ASSUME OwnInv, OwnInv', CustodyInv, TypeInv', ~revoked, ~revoked',
         UNCHANGED <<generation, quarantined>>, NEW new, NEW ids,
         DOMAIN admissions' = DOMAIN admissions \cup new, new \cap DOMAIN admissions = {},
         \A b \in DOMAIN admissions : admissions'[b] = admissions[b],
         \A b \in new : /\ admissions'[b].uses = 0 /\ admissions'[b].lease # NoLease
                        /\ admissions'[b].state.phase # "quarantined"
                        /\ admissions'[b].lease.id \in ids,
         \A i \in ids : \E b \in new : admissions'[b].lease.id = i,
         DOMAIN ledger'.leases = DOMAIN ledger.leases \cup ids, ids \cap DOMAIN ledger.leases = {},
         \/ (\A b \in new : OnPaper(admissions'[b].state)) /\ memory' = memory
         \/ (\A b \in new : ~OnPaper(admissions'[b].state)) /\ memory' = memory \cup Claims(ids)
  PROVE  Mapped
<1>1. Admitted'
  BY DEF CustodyInv, Admitted
<1>2. View /\ View'
  BY <1>1, ViewNow, ViewNext DEF CustodyInv, ViewFollows
<1>3. Users' = Users
  BY <1>2, UsersStay
<1>4. LostClaims' = LostClaims
  BY <1>2, LostUsesStay, LostStays DEF IsLost
<1>5. Charged \subseteq Charged' /\ Charged' \ Charged = Claims(ids) /\ Charged' \subseteq AllClaims
  <2>1. Charged' \subseteq AllClaims
    <3>1. AllClaims' = AllClaims
      BY DEF AllClaims
    <3> QED
      BY <3>1, ClaimsNext DEF ClaimsFollow
  <2> QED
    BY <2>1 DEF Charged, Claims
<1>6. PaperIds \subseteq DOMAIN ledger.leases
  BY <1>2 DEF View, PaperIds
<1>7. /\ \A b \in DOMAIN admissions' : b \in DOMAIN admissions \/ b \in new
      /\ \A b \in DOMAIN admissions : b \in DOMAIN admissions'
      /\ \A b \in new : b \in DOMAIN admissions'
  OBVIOUS
<1>8. CASE (\A b \in new : OnPaper(admissions'[b].state)) /\ memory' = memory
  <2>1. PaperIds' = PaperIds \cup ids
    BY <1>7, <1>8 DEF PaperIds
  <2>2. MemoryFollows'
    BY <1>6, <1>8, <2>1 DEF CustodyInv, MemoryFollows, Claims
  <2> QED
    BY <1>1, <1>3, <1>4, <1>5, <1>8, <2>2, IsCharge DEF Mapped, Step, CustodyInv
<1>9. CASE (\A b \in new : ~OnPaper(admissions'[b].state)) /\ memory' = memory \cup Claims(ids)
  <2>1. PaperIds' = PaperIds
    BY <1>7, <1>9, PaperStays
  <2>2. MemoryFollows'
    BY <1>6, <1>9, <2>1 DEF CustodyInv, MemoryFollows, Claims
  <2> QED
    BY <1>1, <1>3, <1>4, <1>5, <1>9, <2>2, IsCharge DEF Mapped, Step, CustodyInv
<1> QED
  BY <1>8, <1>9

LEMMA CommitMapped ==
  ASSUME IInv, OwnInv, OwnInv', CustodyInv, TypeInv', Commit
  PROVE  Mapped
<1>1. PICK ps \in Seq(Placement) : ps = prepared.placements
  BY DEF IInv, Shape, Commit
<1>2. PICK len \in Nat : len = Len(ps)
  BY <1>1
<1>3. PICK k \in Nat, c \in Count : k = nextId.adm /\ c = ledger.nextId
  BY DEF IInv, Shape, Counters, Count, OwnInv
<1>4. PICK new, ids : new = k..(k + len - 1) /\ ids = NewIds(ledger, ps)
  OBVIOUS
<1>5. /\ ledger' = Reserve(ledger, ps)
      /\ DOMAIN admissions' = DOMAIN admissions \cup new
      /\ \A b \in DOMAIN admissions \ new : admissions'[b] = admissions[b]
      /\ \A a \in new : admissions'[a].state = Plain("reserved") /\ admissions'[a].uses = 0
      /\ UNCHANGED <<generation, revoked, quarantined, memory>> /\ ~revoked
  BY <1>1, <1>2, <1>3, <1>4 DEF Commit, Committable, grantVars, uses
<1>6. /\ DOMAIN ledger'.leases = DOMAIN ledger.leases \cup ids
      /\ ids \cap DOMAIN ledger.leases = {} /\ ids = c..(c + len - 1)
  BY <1>1, <1>2, <1>3, <1>4, <1>5, ReserveIds
<1>7. new \cap DOMAIN admissions = {}
  <2>1. \A b \in DOMAIN admissions : b \in 1..(k - 1)
    BY <1>3 DEF IInv, Shape
  <2> QED
    BY <1>4, <2>1
<1>8. ASSUME NEW a \in new
      PROVE  /\ admissions'[a].lease.id = c + (a - k)
             /\ admissions'[a].lease # NoLease /\ admissions'[a].lease.id \in ids
  <2>1. PICK i : i = c + (a - k + 1) - 1
    OBVIOUS
  <2>2. admissions'[a].lease = LeaseOf(i, ps[a - k + 1].dev, ps[a - k + 1].bytes)
    BY <1>1, <1>2, <1>3, <1>4, <1>8, <2>1 DEF Commit
  <2>3. i = c + (a - k) /\ i # 0 /\ i \in c..(c + len - 1)
    BY <1>4, <2>1 DEF Count
  <2> QED
    BY <1>6, <2>2, <2>3, LeaseFacts
<1>9. ASSUME NEW i \in ids PROVE \E b \in new : admissions'[b].lease.id = i
  <2>1. PICK b \in new : b = k + (i - c)
    BY <1>4, <1>6, <1>9 DEF Count
  <2>2. c + (b - k) = i
    BY <1>6, <2>1 DEF Count
  <2> QED
    BY <1>8, <2>1, <2>2
<1>10. OnPaper(Plain("reserved")) /\ Plain("reserved").phase # "quarantined"
  BY DEF OnPaper, Plain
<1>11. /\ ~revoked' /\ UNCHANGED <<generation, quarantined>>
       /\ \A b \in DOMAIN admissions : admissions'[b] = admissions[b]
  BY <1>5, <1>7
<1>12. \A b \in new : /\ admissions'[b].uses = 0 /\ admissions'[b].lease # NoLease
                      /\ admissions'[b].state.phase # "quarantined"
                      /\ admissions'[b].lease.id \in ids
  BY <1>5, <1>8, <1>10
<1>13. \A b \in new : OnPaper(admissions'[b].state)
  BY <1>5, <1>10
<1>14. \A i \in ids : \E b \in new : admissions'[b].lease.id = i
  BY <1>9
<1>15. /\ DOMAIN admissions' = DOMAIN admissions \cup new /\ ~revoked /\ memory' = memory
       /\ DOMAIN ledger'.leases = DOMAIN ledger.leases \cup ids
       /\ ids \cap DOMAIN ledger.leases = {}
  BY <1>5, <1>6
<1> QED
  BY <1>7, <1>11, <1>12, <1>13, <1>14, <1>15, AddedMapped

LEMMA AdmitMapped ==
  ASSUME IInv, OwnInv, OwnInv', CustodyInv, TypeInv', NEW r, AdmitNativeResident(r)
  PROVE  Mapped
<1>1. PICK batch, k, c : /\ batch = <<[dev |-> r.dev, bytes |-> r.bytes]>> /\ k = nextId.adm
                         /\ c = ledger.nextId
  OBVIOUS
<1>2. k \notin DOMAIN admissions /\ c \in Count
  BY <1>1 DEF IInv, Shape, Counters, Count, OwnInv
<1>3. PICK e : /\ admissions' = Put(admissions, k, e) /\ e.lease = LeaseOf(c, r.dev, r.bytes)
               /\ e.state = Plain("loading") /\ e.uses = 0
  BY <1>1 DEF AdmitNativeResident
<1>4. /\ ledger' = Reserve(ledger, batch) /\ ~revoked /\ memory' = memory \cup Claims({c})
      /\ UNCHANGED <<generation, revoked, quarantined>>
  BY <1>1 DEF AdmitNativeResident, grantVars, uses
<1>5. Len(batch) = 1 /\ NewIds(ledger, batch) = {c}
  BY <1>1, <1>2 DEF NewIds, Count
<1>6. DOMAIN ledger'.leases = DOMAIN ledger.leases \cup {c} /\ {c} \cap DOMAIN ledger.leases = {}
  BY <1>4, <1>5, ReserveIds
<1>7. /\ DOMAIN admissions' = DOMAIN admissions \cup {k} /\ admissions'[k] = e
      /\ \A b \in DOMAIN admissions : admissions'[b] = admissions[b]
  BY <1>2, <1>3 DEF Put
<1>8. e.lease.id = c /\ e.lease # NoLease
  BY <1>2, <1>3, LeaseFacts DEF Count
<1>9. ~OnPaper(e.state) /\ e.state.phase # "quarantined"
  BY <1>3 DEF OnPaper, Plain, DrainingReserved
<1>10. PICK new, ids : new = {k} /\ ids = {c}
  OBVIOUS
<1>11. \A b \in new : /\ admissions'[b].uses = 0 /\ admissions'[b].lease # NoLease
                      /\ admissions'[b].state.phase # "quarantined"
                      /\ admissions'[b].lease.id \in ids
                      /\ ~OnPaper(admissions'[b].state)
  BY <1>3, <1>7, <1>8, <1>9, <1>10
<1>12. \A i \in ids : \E b \in new : admissions'[b].lease.id = i
  BY <1>7, <1>8, <1>10
<1>13. new \cap DOMAIN admissions = {} /\ ~revoked' /\ UNCHANGED <<generation, quarantined>>
  BY <1>2, <1>4, <1>10
<1> QED
  BY <1>4, <1>6, <1>7, <1>10, <1>11, <1>12, <1>13, AddedMapped

------------------------------------------------------------------------------
(* Uses. *)
LEMMA UseBook ==
  ASSUME IInv, NEW a \in DOMAIN admissions, admissions' = InUse(a) \/ admissions' = Finished(a)
  PROVE  /\ DOMAIN admissions' = DOMAIN admissions
         /\ \A b \in DOMAIN admissions :
              /\ admissions'[b].lease = admissions[b].lease
              /\ b # a => admissions'[b] = admissions[b]
<1>1. DOMAIN admissions' = DOMAIN admissions
  BY DEF InUse, Finished
<1>2. PICK st, n : \A b \in DOMAIN admissions :
        admissions'[b] = IF b = a THEN [admissions[a] EXCEPT !.uses = n, !.state = st] ELSE admissions[b]
  <2>1. CASE admissions' = InUse(a)
    BY <2>1 DEF InUse
  <2>2. CASE admissions' = Finished(a)
    <3>1. PICK n, st : n = admissions[a].uses - 1 /\ st = FinishedState(admissions[a].state, n)
      OBVIOUS
    <3>2. \A b \in DOMAIN admissions :
            admissions'[b] = IF b = a THEN [admissions[a] EXCEPT !.uses = n, !.state = st]
                             ELSE admissions[b]
      BY <2>2, <3>1 DEF Finished
    <3> QED
      BY <3>2
  <2> QED
    BY <2>1, <2>2
<1>3. ASSUME NEW b \in DOMAIN admissions
      PROVE  /\ admissions'[b].lease = admissions[b].lease
             /\ b # a => admissions'[b] = admissions[b]
  <2>1. Entry(admissions[b])
    BY DEF IInv, Shape
  <2> QED
    BY <1>2, <2>1 DEF Entry
<1> QED
  BY <1>1, <1>3

(* What a use that begins, and one that ends, does to its admission. *)
LEMMA BegunUse ==
  ASSUME IInv, NEW a, Startable(a), admissions' = InUse(a)
  PROVE  /\ a \in DOMAIN admissions /\ ~revoked /\ admissions[a].uses \in Nat
         /\ admissions'[a].uses = admissions[a].uses + 1
         /\ ~IsLost(a) /\ ~OnPaper(admissions[a].state)
         /\ ~IsLost(a)' /\ ~OnPaper(admissions'[a].state)
<1>1. PICK st : /\ st.phase = "inuse" /\ Moved(a, st, admissions[a].uses + 1)
  BY InUseMoves
<1>2. /\ a \in DOMAIN admissions /\ ~revoked /\ admissions[a].uses \in Nat
      /\ admissions[a].state.phase \in {"resident", "inuse"}
  BY InUseMoves
<1>3. admissions'[a].state.phase = "inuse" /\ admissions'[a].uses = admissions[a].uses + 1
  BY <1>1, <1>2 DEF Moved
<1>4. \A s : s.phase \in {"resident", "inuse"} => ~OnPaper(s)
  BY DEF OnPaper, Plain, DrainingReserved
<1> QED
  BY <1>2, <1>3, <1>4 DEF IsLost

LEMMA EndedUse ==
  ASSUME IInv, NEW a \in DOMAIN admissions, UsesOf(a) > 0, admissions' = Finished(a)
  PROVE  /\ admissions[a].uses \in Nat /\ admissions[a].uses > 0
         /\ admissions'[a].uses = admissions[a].uses - 1
         /\ IsLost(a)' <=> IsLost(a)
         /\ ~OnPaper(admissions[a].state) /\ ~OnPaper(admissions'[a].state)
<1>1. PICK n : n = admissions[a].uses - 1
  OBVIOUS
<1>2. PICK old, st : old = admissions[a].state /\ st = FinishedState(old, n)
  OBVIOUS
<1>3. /\ Entry(admissions[a]) /\ admissions[a].uses \in Nat /\ admissions[a].uses > 0
      /\ old.phase \in {"inuse", "draining", "quarantined"} /\ old.resident # NoHandle
  BY <1>2 DEF IInv, Shape, Entry, UseInv, UsesMatchPermits
<1>4. admissions'[a] = [admissions[a] EXCEPT !.uses = n, !.state = st]
  BY <1>1, <1>2 DEF Finished
<1>5. admissions'[a].uses = n /\ admissions'[a].state = st
  BY <1>3, <1>4 DEF Entry
<1>6. st.resident # NoHandle /\ (st.phase = "quarantined" <=> old.phase = "quarantined")
  BY <1>2, <1>3, PlainFacts DEF FinishedState, Phase
<1>7. \A s : s.resident # NoHandle => ~OnPaper(s)
  BY DEF OnPaper, Plain, DrainingReserved
<1> QED
  BY <1>1, <1>2, <1>3, <1>5, <1>6, <1>7 DEF IsLost

LEMMA ClaimFacts ==
  ASSUME View, MemoryFollows, NEW a \in DOMAIN admissions,
         NEW c, c = <<generation, admissions[a].lease.id>>
  PROVE  /\ ~OnPaper(admissions[a].state) => c \in memory
         /\ ~IsLost(a) => c \notin LostClaims
<1>1. PICK i : i = admissions[a].lease.id
  OBVIOUS
<1>2. i \in DOMAIN ledger.leases /\ i \notin LostUses
  BY <1>1 DEF View
<1>3. \A b \in DOMAIN admissions : admissions[b].lease.id = i => b = a
  BY <1>1 DEF View
<1>4. ~OnPaper(admissions[a].state) => c \in memory
  BY <1>1, <1>2, <1>3 DEF MemoryFollows, PaperIds, Claims
<1>5. ~IsLost(a) => i \notin LostLeases
  BY <1>2, <1>3 DEF View
<1> QED
  BY <1>1, <1>4, <1>5 DEF LostClaims, Claims

(* The leases of uses and results are no admission's and not lost. *)
LEMMA OtherLeases ==
  ASSUME OwnInv, CustodyInv, View, TypeInv, NEW r \in {"mutable", "output", "result"}, NEW k, NEW v,
         v # NoLease, <<r, k, v>> \in All, NEW c, c = <<generation, v.id>>
  PROVE  /\ v.id \in DOMAIN ledger.leases /\ v.id \notin PaperIds
         /\ c \in Charged /\ c \in Freed
<1>1. PICK o, i : o = <<r, k, v>> /\ i = v.id
  OBVIOUS
<1>2. o \in LeaseOwners /\ o[3].id = i /\ o[1] = r
  BY <1>1, OwnersAreRows DEF OwnersFollowRows, Live
<1>3. i \in DOMAIN ledger.leases
  BY <1>2 DEF OwnInv, OneEach
<1>4. ASSUME NEW p \in LeaseOwners, p[1] # r PROVE p[3].id # i
  BY <1>2, <1>4 DEF OwnInv, OneEach
<1>5. ASSUME NEW a \in DOMAIN admissions PROVE admissions[a].lease.id # i
  <2>1. PICK p : p = <<"resident", a, admissions[a].lease>>
    OBVIOUS
  <2>2. p \in LeaseOwners /\ p[1] = "resident" /\ p[3].id = admissions[a].lease.id
    BY <2>1 DEF LeaseOwners, CustodyInv, Admitted
  <2> QED
    BY <1>4, <2>2
<1>6. i \notin LostUses
  <2>1. ASSUME NEW p \in Live(LostRows) PROVE p \in LeaseOwners /\ p[1] \in {"lost mutable", "lost output"}
    <3>1. p \in LeaseOwners
      BY OwnersAreRows DEF OwnersFollowRows, Live, All
    <3> QED
      BY <3>1, RowRoles DEF Live, LostRows
  <2>2. \A p \in Live(LostRows) : p[3].id # i
    BY <1>4, <2>1
  <2> QED
    BY <2>2 DEF LostUses
<1>7. i \notin LostLeases /\ i \notin PaperIds /\ Pins(i) = 0
  BY <1>5, <1>6 DEF View, PaperIds
<1>8. c \in Charged /\ c \in memory /\ c \notin LostClaims
  BY <1>1, <1>3, <1>7 DEF Charged, Claims, CustodyInv, MemoryFollows, LostClaims
<1>9. Users[c] = 0
  <2>1. c \in AllClaims
    BY <1>8, ClaimsNow DEF ClaimsFollow
  <2>2. c[1] = generation /\ c[2] = i
    BY <1>1
  <2> QED
    BY <1>7, <2>1, <2>2 DEF Users
<1> QED
  BY <1>1, <1>3, <1>7, <1>8, <1>9 DEF Freed

LEMMA BeginUseMapped ==
  ASSUME IInv, OwnInv, OwnInv', CustodyInv, TypeInv, NEW a, BeginUse(a)
  PROVE  Mapped
<1>1. /\ Startable(a) /\ admissions' = InUse(a)
      /\ UNCHANGED <<ledger, generation, revoked, quarantined, memory>>
  BY DEF BeginUse, grantVars, accounts
<1>2. /\ a \in DOMAIN admissions /\ ~revoked /\ admissions[a].uses \in Nat
      /\ admissions'[a].uses = admissions[a].uses + 1
      /\ ~IsLost(a) /\ ~OnPaper(admissions[a].state)
      /\ ~IsLost(a)' /\ ~OnPaper(admissions'[a].state)
  BY <1>1, BegunUse
<1>3. /\ DOMAIN admissions' = DOMAIN admissions
      /\ \A b \in DOMAIN admissions :
           /\ admissions'[b].lease = admissions[b].lease
           /\ b # a => admissions'[b] = admissions[b]
  BY <1>1, <1>2, UseBook
<1>4. View /\ View' /\ Admitted' /\ Charged' = Charged
  BY <1>1, <1>3, BookKept
<1>5. LostClaims' = LostClaims /\ PaperIds' = PaperIds
  <2>1. \A b \in DOMAIN admissions : IsLost(b)' <=> IsLost(b)
    BY <1>2, <1>3 DEF IsLost
  <2>2. \A b \in DOMAIN admissions : OnPaper(admissions'[b].state) <=> OnPaper(admissions[b].state)
    BY <1>2, <1>3
  <2> QED
    BY <1>1, <1>3, <2>1, <2>2, BookKept
<1>6. CustodyInv'
  BY <1>1, <1>4, <1>5, MemoryStays
<1>7. PICK c : c = <<generation, admissions[a].lease.id>>
  OBVIOUS
<1>8. Users' = [Users EXCEPT ![c] = @ + 1]
  BY <1>1, <1>2, <1>3, <1>4, <1>7, UsersMove
<1>9. c \in memory \ LostClaims
  BY <1>2, <1>4, <1>7, ClaimFacts DEF CustodyInv
<1>10. Charged' \ Charged = {} /\ ~revoked' /\ memory' = memory \cup {}
  BY <1>1, <1>2, <1>4
<1> QED
  BY <1>2, <1>4, <1>5, <1>6, <1>8, <1>9, <1>10, IsBegin DEF Mapped, Step

LEMMA FinishUseMapped ==
  ASSUME IInv, OwnInv, OwnInv', CustodyInv, TypeInv, NEW p \in DOMAIN permits, FinishUse(p)
  PROVE  Mapped
<1>1. PICK a : a = permits[p]
  OBVIOUS
<1>2. /\ admissions' = Finished(a) /\ a \in DOMAIN admissions
      /\ UNCHANGED <<ledger, generation, revoked, quarantined, memory>>
  BY <1>1 DEF FinishUse, grantVars, accounts, IInv, UseInv, UsesMatchPermits
<1>3. UsesOf(a) > 0
  <2>1. admissions[a].uses > 0 /\ admissions[a].uses = UsesOf(a)
    BY <1>1, <1>2 DEF FinishUse, Finishable, IInv, UseInv, UsesMatchPermits
  <2> QED
    BY <2>1
<1>4. /\ admissions[a].uses \in Nat /\ admissions[a].uses > 0
      /\ admissions'[a].uses = admissions[a].uses - 1 /\ (IsLost(a)' <=> IsLost(a))
      /\ ~OnPaper(admissions[a].state) /\ ~OnPaper(admissions'[a].state)
  BY <1>2, <1>3, EndedUse
<1>5. /\ DOMAIN admissions' = DOMAIN admissions
      /\ \A b \in DOMAIN admissions :
           /\ admissions'[b].lease = admissions[b].lease
           /\ b # a => admissions'[b] = admissions[b]
  BY <1>2, UseBook
<1>6. View /\ View' /\ Admitted' /\ Charged' = Charged
  BY <1>2, <1>5, BookKept
<1>7. LostClaims' = LostClaims /\ PaperIds' = PaperIds
  <2>1. \A b \in DOMAIN admissions : IsLost(b)' <=> IsLost(b)
    BY <1>4, <1>5 DEF IsLost
  <2>2. \A b \in DOMAIN admissions : OnPaper(admissions'[b].state) <=> OnPaper(admissions[b].state)
    BY <1>4, <1>5
  <2> QED
    BY <1>2, <1>5, <2>1, <2>2, BookKept
<1>8. CustodyInv'
  BY <1>2, <1>6, <1>7, MemoryStays
<1>9. PICK c : c = <<generation, admissions[a].lease.id>>
  OBVIOUS
<1>10. c \in Charged /\ Users[c] > 0 /\ Users' = [Users EXCEPT ![c] = @ - 1]
  BY <1>2, <1>4, <1>5, <1>6, <1>9, UsersMove
<1>11. Charged \ Charged' = {} /\ Charged' \subseteq Charged /\ memory' = memory \ {}
  BY <1>2, <1>6
<1> QED
  BY <1>2, <1>7, <1>8, <1>10, <1>11, IsEnd DEF Mapped, Step

LEMMA BeginNativeUseMapped ==
  ASSUME IInv, OwnInv, OwnInv', CustodyInv, TypeInv, TypeInv', NEW a, NEW r, BeginNativeUse(a, r)
  PROVE  Mapped
<1>1. /\ Startable(a) /\ admissions' = InUse(a)
      /\ UNCHANGED <<generation, revoked, quarantined>>
  BY DEF BeginNativeUse, grantVars
<1>2. PICK p, q, batch : /\ batch = <<p>> \/ batch = <<p, q>>
                         /\ ledger' = Reserve(ledger, batch)
                         /\ memory' = memory \cup Claims(NewIds(ledger, batch))
  BY DEF BeginNativeUse
<1>3. PICK ids : ids = NewIds(ledger, batch)
  OBVIOUS
<1>4. DOMAIN ledger'.leases = DOMAIN ledger.leases \cup ids /\ ids \cap DOMAIN ledger.leases = {}
  <2>1. Len(batch) \in Nat
    BY <1>2
  <2> QED
    BY <1>2, <1>3, <2>1, ReserveIds
<1>5. /\ a \in DOMAIN admissions /\ ~revoked /\ admissions[a].uses \in Nat
      /\ admissions'[a].uses = admissions[a].uses + 1
      /\ ~IsLost(a) /\ ~OnPaper(admissions[a].state)
      /\ ~IsLost(a)' /\ ~OnPaper(admissions'[a].state)
  BY <1>1, BegunUse
<1>6. /\ DOMAIN admissions' = DOMAIN admissions
      /\ \A b \in DOMAIN admissions :
           /\ admissions'[b].lease = admissions[b].lease
           /\ b # a => admissions'[b] = admissions[b]
  BY <1>1, <1>5, UseBook
<1>7. View /\ View' /\ Admitted'
  <2>1. Admitted'
    BY <1>6 DEF CustodyInv, Admitted
  <2> QED
    BY <2>1, ViewNow, ViewNext DEF CustodyInv, ViewFollows
<1>8. LostClaims' = LostClaims
  <2>1. LostUses' = LostUses
    BY <1>1, LostUsesStay
  <2>2. \A b \in DOMAIN admissions : IsLost(b)' <=> IsLost(b)
    BY <1>5, <1>6 DEF IsLost
  <2> QED
    BY <1>1, <1>6, <1>7, <2>1, <2>2, LostStays
<1>9. PaperIds' = PaperIds /\ PaperIds \subseteq DOMAIN ledger.leases
  <2>1. \A b \in DOMAIN admissions : OnPaper(admissions'[b].state) <=> OnPaper(admissions[b].state)
    BY <1>5, <1>6
  <2>2. PaperIds' = PaperIds
    BY <1>6, <2>1, PaperStays
  <2>3. View
    BY <1>7
  <2>4. PaperIds \subseteq DOMAIN ledger.leases
    BY <2>3 DEF View, PaperIds
  <2> QED
    BY <2>2, <2>4
<1>10. CustodyInv'
  <2>1. MemoryFollows'
    BY <1>1, <1>2, <1>3, <1>4, <1>9 DEF CustodyInv, MemoryFollows, Claims
  <2> QED
    BY <1>7, <2>1 DEF CustodyInv
<1>11. /\ Charged \subseteq Charged' /\ Charged' \ Charged \subseteq AllClaims
       /\ memory' = memory \cup (Charged' \ Charged)
  <2>1. AllClaims' = AllClaims
    BY DEF AllClaims
  <2>2. Charged' \subseteq AllClaims
    BY <2>1, ClaimsNext DEF ClaimsFollow
  <2>3. Charged' \ Charged = Claims(ids) /\ Charged \subseteq Charged'
    BY <1>1, <1>4 DEF Charged, Claims
  <2> QED
    BY <1>2, <1>3, <2>2, <2>3
<1>12. PICK c : c = <<generation, admissions[a].lease.id>>
  OBVIOUS
<1>13. Users' = [Users EXCEPT ![c] = @ + 1]
  BY <1>1, <1>5, <1>6, <1>7, <1>12, UsersMove
<1>14. c \in memory \ LostClaims
  BY <1>5, <1>7, <1>12, ClaimFacts DEF CustodyInv
<1>15. ~revoked'
  BY <1>1, <1>5
<1> QED
  BY <1>5, <1>8, <1>10, <1>11, <1>13, <1>14, <1>15, IsBegin DEF Mapped, Step

LEMMA FinishNativeUseMapped ==
  ASSUME IInv, OwnInv, OwnInv', CustodyInv, TypeInv, NEW n \in DOMAIN nativeUses, FinishNativeUse(n)
  PROVE  Mapped
<1>1. PICK u, a, v, i : u = nativeUses[n] /\ a = u.adm /\ v = u.device /\ i = v.id
  OBVIOUS
<1>2. /\ admissions' = Finished(a) /\ a \in DOMAIN admissions
      /\ i \in DOMAIN ledger.leases /\ ledger' = Release(ledger, i)
      /\ memory' = memory \ Claims({i})
      /\ UNCHANGED <<generation, revoked, quarantined>>
  BY <1>1 DEF FinishNativeUse, Takeable, CanRelease, grantVars, IInv, UseInv, UsesMatchPermits
<1>3. UsesOf(a) > 0
  <2>1. admissions[a].uses > 0 /\ admissions[a].uses = UsesOf(a)
    BY <1>1, <1>2 DEF FinishNativeUse, Finishable, IInv, UseInv, UsesMatchPermits
  <2> QED
    BY <2>1
<1>4. /\ admissions[a].uses \in Nat /\ admissions[a].uses > 0
      /\ admissions'[a].uses = admissions[a].uses - 1 /\ (IsLost(a)' <=> IsLost(a))
      /\ ~OnPaper(admissions[a].state) /\ ~OnPaper(admissions'[a].state)
  BY <1>2, <1>3, EndedUse
<1>5. /\ DOMAIN admissions' = DOMAIN admissions
      /\ \A b \in DOMAIN admissions :
           /\ admissions'[b].lease = admissions[b].lease
           /\ b # a => admissions'[b] = admissions[b]
  BY <1>2, UseBook
<1>6. View /\ View' /\ Admitted'
  <2>1. Admitted'
    BY <1>5 DEF CustodyInv, Admitted
  <2> QED
    BY <2>1, ViewNow, ViewNext DEF CustodyInv, ViewFollows
<1>7. LostClaims' = LostClaims
  <2>1. LostUses' = LostUses
    BY <1>2, LostUsesStay
  <2>2. \A b \in DOMAIN admissions : IsLost(b)' <=> IsLost(b)
    BY <1>4, <1>5 DEF IsLost
  <2> QED
    BY <1>2, <1>5, <1>6, <2>1, <2>2, LostStays
<1>8. PaperIds' = PaperIds
  <2>1. \A b \in DOMAIN admissions : OnPaper(admissions'[b].state) <=> OnPaper(admissions[b].state)
    BY <1>4, <1>5
  <2> QED
    BY <1>5, <2>1, PaperStays
<1>9. PICK c, d : c = <<generation, admissions[a].lease.id>> /\ d = <<generation, i>>
  OBVIOUS
<1>10. d \in Freed /\ d \in Charged /\ i \notin PaperIds
  <2>1. v # NoLease
    <3>1. i # 0
      BY <1>2, <1>6 DEF View
    <3> QED
      BY <1>1, <3>1 DEF NoLease
  <2>2. <<"mutable", n, v>> \in All
    BY <1>1 DEF All, UseRows, Rows, MutLeases
  <2> QED
    BY <1>1, <1>6, <1>9, <2>1, <2>2, OtherLeases
<1>11. DOMAIN ledger'.leases = DOMAIN ledger.leases \ {i}
  BY <1>2 DEF Release
<1>12. CustodyInv'
  <2>1. MemoryFollows'
    BY <1>2, <1>8, <1>11 DEF CustodyInv, MemoryFollows, Claims
  <2> QED
    BY <1>6, <2>1 DEF CustodyInv
<1>13. c \in Charged /\ Users[c] > 0 /\ Users' = [Users EXCEPT ![c] = @ - 1]
  BY <1>2, <1>4, <1>5, <1>6, <1>9, UsersMove
<1>14. Charged' = Charged \ {d} /\ memory' = memory \ {d}
  BY <1>2, <1>9, <1>11 DEF Charged, Claims
<1>15. /\ Charged' \subseteq Charged /\ Charged \ Charged' \subseteq Freed
       /\ memory' = memory \ (Charged \ Charged')
  BY <1>10, <1>14
<1> QED
  BY <1>2, <1>7, <1>12, <1>13, <1>15, IsEnd DEF Mapped, Step

LEMMA QuarantineUseMapped ==
  ASSUME IInv, OwnInv, OwnInv', CustodyInv, TypeInv, NEW n \in DOMAIN nativeUses, QuarantineNativeUse(n)
  PROVE  Mapped
<1>1. PICK u, a, st : /\ u = nativeUses[n] /\ a = u.adm
                      /\ st = Holding("quarantined", admissions[a].state.resident)
  OBVIOUS
<1>2. /\ a \in DOMAIN admissions /\ n \notin DOMAIN quarantined
      /\ admissions' = SetState(a, st) /\ quarantined' = Put(quarantined, n, u)
      /\ admissions[a].state.resident # NoHandle
      /\ UNCHANGED <<ledger, generation, revoked, memory>>
  BY <1>1 DEF QuarantineNativeUse, accounts, grantVars, IInv, UseInv, UsesMatchPermits
<1>3. /\ DOMAIN admissions' = DOMAIN admissions
      /\ \A b \in DOMAIN admissions :
           /\ admissions'[b].lease = admissions[b].lease
           /\ admissions'[b].uses = admissions[b].uses
           /\ admissions'[b].state = IF b = a THEN st ELSE admissions[b].state
  BY <1>2, SetStateBook DEF IInv
<1>4. View /\ View' /\ Admitted'
  <2>1. Admitted'
    BY <1>3 DEF CustodyInv, Admitted
  <2> QED
    BY <2>1, ViewNow, ViewNext DEF CustodyInv, ViewFollows
<1>5. Users' = Users
  BY <1>2, <1>3, <1>4, UsersStay
<1>6. st.phase = "quarantined" /\ ~OnPaper(st) /\ ~OnPaper(admissions[a].state)
  BY <1>1, <1>2, StepFacts, PlainFacts, BusyIsFree, PaperFacts DEF Phase
<1>7. PaperIds' = PaperIds
  <2>1. \A b \in DOMAIN admissions : OnPaper(admissions'[b].state) <=> OnPaper(admissions[b].state)
    BY <1>3, <1>6
  <2> QED
    BY <1>3, <2>1, PaperStays
<1>8. CustodyInv'
  BY <1>2, <1>4, <1>7, MemoryStays
<1>9. LostClaims \subseteq LostClaims'
  <2>1. LostRows \subseteq LostRows'
    BY <1>2, LostRowsGrow
  <2>2. LostUses \subseteq LostUses'
    BY <2>1 DEF LostUses, Live
  <2>3. LostBook \subseteq LostBook'
    <3>1. \A b \in DOMAIN admissions : IsLost(b) => IsLost(b)'
      BY <1>3, <1>6 DEF IsLost
    <3> QED
      BY <1>3, <3>1 DEF LostBook
  <2>4. LostLeases = LostBook \cup LostUses /\ LostLeases' = LostBook' \cup LostUses'
    BY <1>4 DEF View, LostBook
  <2> QED
    BY <1>2, <2>2, <2>3, <2>4 DEF LostClaims, Claims
<1>10. LostClaims' \subseteq memory'
  BY <1>4, <1>8, LostHasMemoryNext DEF CustodyInv, LostIsHeld
<1>11. Charged' = Charged
  BY <1>2 DEF Charged, Claims
<1> QED
  BY <1>2, <1>5, <1>8, <1>9, <1>10, <1>11, IsLose DEF Mapped, Step

LEMMA DiscardResultMapped ==
  ASSUME IInv, OwnInv, OwnInv', CustodyInv, TypeInv, NEW n \in DOMAIN results, DiscardNativeResult(n)
  PROVE  Mapped
<1>1. PICK v, i, d : v = results[n].device /\ i = v.id /\ d = <<generation, i>>
  OBVIOUS
<1>2. /\ UNCHANGED <<generation, revoked, quarantined, admissions>>
      /\ memory' = memory \ Claims({i})
  BY <1>1 DEF DiscardNativeResult, grantVars
<1>3. View /\ View' /\ Admitted'
  <2>1. Admitted'
    BY <1>2 DEF CustodyInv, Admitted
  <2> QED
    BY <2>1, ViewNow, ViewNext DEF CustodyInv, ViewFollows
<1>4. Users' = Users /\ LostClaims' = LostClaims /\ PaperIds' = PaperIds
  <2>1. \A b \in DOMAIN admissions : admissions'[b] = admissions[b] /\ (IsLost(b)' <=> IsLost(b))
    BY <1>2 DEF IsLost
  <2>2. Users' = Users
    BY <1>2, <1>3, UsersStay
  <2>3. LostClaims' = LostClaims
    BY <1>2, <1>3, <2>1, LostUsesStay, LostStays
  <2>4. PaperIds' = PaperIds
    BY <1>2, PaperStays
  <2> QED
    BY <2>2, <2>3, <2>4
<1>5. CASE v = NoLease
  <2>1. ledger' = ledger /\ i = 0
    BY <1>1, <1>5 DEF DiscardNativeResult, NoLease
  <2>2. i \notin DOMAIN ledger.leases
    BY <1>3, <2>1 DEF View
  <2>3. memory' = memory
    BY <1>2, <2>2 DEF CustodyInv, MemoryFollows, Claims
  <2>4. Charged' = Charged
    BY <1>2, <2>1 DEF Charged, Claims
  <2>5. CustodyInv'
    BY <1>2, <1>3, <1>4, <2>1, <2>3, MemoryStays
  <2> QED
    BY <1>2, <1>4, <2>3, <2>4, <2>5, IsStutter DEF Mapped, Step
<1>6. CASE v # NoLease
  <2>1. ledger' = Release(ledger, i)
    BY <1>1, <1>6 DEF DiscardNativeResult
  <2>2. DOMAIN ledger'.leases = DOMAIN ledger.leases \ {i}
    BY <2>1 DEF Release
  <2>3. <<"result", n, v>> \in All
    BY <1>1 DEF All, ResRows, Rows, ResLeases
  <2>4. d \in Freed
    BY <1>1, <1>3, <1>6, <2>3, OtherLeases
  <2>5. Charged' = Charged \ {d} /\ memory' = memory \ {d}
    BY <1>1, <1>2, <2>2 DEF Charged, Claims
  <2>6. CustodyInv'
    <3>1. MemoryFollows'
      BY <1>2, <1>4, <2>2 DEF CustodyInv, MemoryFollows, Claims
    <3> QED
      BY <1>3, <3>1 DEF CustodyInv
  <2> QED
    BY <1>2, <1>4, <2>4, <2>5, <2>6, IsVacate DEF Mapped, Step
<1> QED
  BY <1>5, <1>6

LEMMA OwnerMapped ==
  ASSUME IInv, OwnInv, OwnInv', CustodyInv, TypeInv, Owner
  PROVE  Mapped
<1>1. CASE Revoke
  <2>1. /\ DOMAIN admissions' = DOMAIN admissions /\ revoked'
        /\ UNCHANGED <<ledger, generation, quarantined, memory>>
    BY <1>1 DEF Revoke, accounts, uses
  <2>2. ASSUME NEW b \in DOMAIN admissions
        PROVE  /\ admissions'[b].lease = admissions[b].lease
               /\ admissions'[b].uses = admissions[b].uses
               /\ IsLost(b)' <=> IsLost(b)
               /\ OnPaper(admissions'[b].state) <=> OnPaper(admissions[b].state)
    <3>1. PICK st \in AdmissionState : st = admissions[b].state
      BY DEF IInv, Shape, Entry
    <3>2. PICK e, s : e = admissions[b] /\ s = ToDraining(st)
      OBVIOUS
    <3>3. Entry(e) /\ admissions'[b] = [e EXCEPT !.state = s]
      BY <1>1, <3>1, <3>2 DEF Revoke, IInv, Shape
    <3>4. admissions'[b].lease = e.lease /\ admissions'[b].uses = e.uses /\ admissions'[b].state = s
      BY <3>3 DEF Entry
    <3>5. (OnPaper(s) <=> OnPaper(st)) /\ (s.phase = "quarantined" <=> st.phase = "quarantined")
      BY <3>2, PaperFacts
    <3> QED
      BY <3>1, <3>2, <3>4, <3>5 DEF IsLost
  <2>3. /\ View /\ View' /\ Admitted' /\ Charged' = Charged /\ Users' = Users
        /\ LostClaims' = LostClaims /\ PaperIds' = PaperIds
    BY <2>1, <2>2, BookKept
  <2>4. CustodyInv'
    BY <2>1, <2>3, MemoryStays
  <2> QED
    BY <2>1, <2>3, <2>4, IsClose DEF Mapped, Step
<1>2. CASE \E g \in Grants : ReplaceGrant(g)
  <2>1. PICK g \in Grants : ReplaceGrant(g)
    BY <1>2
  <2>2. /\ DOMAIN admissions = {} /\ DOMAIN nativeUses = {} /\ DOMAIN quarantined = {}
        /\ DOMAIN results = {} /\ revoked /\ ~revoked'
        /\ UNCHANGED <<admissions, quarantined, memory>> /\ ledger' = NewLedger(g)
    BY <2>1 DEF ReplaceGrant, Drained, uses
  <2>3. LeaseOwners = {}
    BY <2>2 DEF LeaseOwners
  <2>4. DOMAIN ledger.leases = {}
    BY <2>3 DEF OwnInv, OneEach
  <2>5. DOMAIN ledger'.leases = {}
    BY <2>2 DEF NewLedger
  <2>6. Charged = {} /\ Charged' = {} /\ memory = {}
    BY <2>4, <2>5 DEF Charged, Claims, CustodyInv, MemoryFollows
  <2>7. Admitted'
    BY <2>2 DEF Admitted
  <2>8. View /\ View'
    BY <2>7, ViewNow, ViewNext DEF CustodyInv, ViewFollows
  <2>9. LostClaims = {} /\ LostClaims' = {}
    <3>1. View => LostLeases = {}
      BY <2>2, <2>4 DEF View
    <3>2. LostLeases = {} /\ LostLeases' = {}
      BY <2>2, <2>4, <2>5, <2>8 DEF View
    <3> QED
      BY <3>2 DEF LostClaims, Claims
  <2>10. Users' = Users
    <3>1. \A i : Pins(i) = 0 /\ Pins(i)' = 0
      BY <2>2 DEF Pins
    <3> QED
      BY <3>1 DEF Users, AllClaims
  <2>11. CustodyInv'
    <3>1. MemoryFollows'
      BY <2>2, <2>5, <2>6 DEF MemoryFollows, Claims
    <3> QED
      BY <2>7, <3>1 DEF CustodyInv
  <2> QED
    BY <2>2, <2>6, <2>9, <2>10, <2>11, IsRenew DEF Mapped, Step
<1> QED
  BY <1>1, <1>2 DEF Owner

LEMMA IdleMapped ==
  ASSUME OwnInv, OwnInv', CustodyInv,
         UNCHANGED <<ledger, generation, revoked, admissions, quarantined, memory>>
  PROVE  Mapped
<1>1. \A b \in DOMAIN admissions : IsLost(b)' <=> IsLost(b)
  BY DEF IsLost
<1>2. /\ Admitted' /\ Charged' = Charged /\ Users' = Users
      /\ LostClaims' = LostClaims /\ PaperIds' = PaperIds
  BY <1>1, BookKept
<1>3. CustodyInv'
  BY <1>2, MemoryStays
<1> QED
  BY <1>2, <1>3, IsStutter DEF Mapped, Step

LEMMA NextMapped ==
  ASSUME IInv, OwnInv, OwnInv', CustodyInv, TypeInv, TypeInv', [Next]_vars
  PROVE  Mapped
<1>1. CASE Poll
  BY <1>1, PollMapped
<1>2. CASE Caller
  <2>1. CASE DiscardPrepared \/ \E ws \in Requests : Prepare(ws)
    <3>1. UNCHANGED <<ledger, generation, revoked, admissions, quarantined, memory>>
      BY <2>1 DEF DiscardPrepared, Prepare, grantVars, accounts, uses
    <3> QED
      BY <3>1, IdleMapped
  <2>2. ASSUME NEW a \in DOMAIN admissions, RequestRetirement(a) PROVE Mapped
    <3>1. PICK st \in AdmissionState : st = admissions[a].state
      BY DEF IInv, Shape, Entry
    <3>2. PICK s : s = ToDraining(st)
      OBVIOUS
    <3>3. /\ admissions' = SetState(a, s)
          /\ UNCHANGED <<ledger, generation, revoked, quarantined, memory>>
      BY <2>2, <3>1, <3>2 DEF RequestRetirement, accounts, grantVars, uses
    <3>4. /\ s \in AdmissionState /\ (OnPaper(s) <=> OnPaper(st))
          /\ IsLost(a) => s.phase = "quarantined"
      BY <3>1, <3>2, ToDrainingFacts, PaperFacts DEF IsLost
    <3> QED
      BY <3>1, <3>3, <3>4, StateMapped
  <2> QED
    BY <1>2, <2>1, <2>2, CommitMapped, AdmitMapped, BeginUseMapped, BeginNativeUseMapped DEF Caller
<1>3. CASE Owner
  BY <1>3, OwnerMapped
<1>4. CASE Executor
  BY <1>4, CompleteMapped DEF Executor
<1>5. CASE Adapter
  BY <1>5, NativeLoadMapped, FinishUseMapped, FinishNativeUseMapped, QuarantineUseMapped,
     DiscardResultMapped DEF Adapter
<1>6. CASE UNCHANGED vars
  BY <1>6, IdleMapped DEF vars
<1> QED
  BY <1>1, <1>2, <1>3, <1>4, <1>5, <1>6 DEF Next

LEMMA InitMapped == Init => CustodyInv /\ Custody!Init
<1> SUFFICES ASSUME Init PROVE CustodyInv /\ Custody!Init
  OBVIOUS
<1>1. /\ DOMAIN admissions = {} /\ DOMAIN nativeUses = {} /\ DOMAIN quarantined = {}
      /\ DOMAIN results = {} /\ ~revoked /\ memory = {}
  BY DEF Init, Empty
<1>2. DOMAIN ledger.leases = {}
  BY DEF Init, NewLedger
<1>3. CustodyInv
  BY <1>1, <1>2 DEF CustodyInv, Admitted, MemoryFollows, Claims
<1>4. LostLeases = {}
  <2>1. LeaseOwners = {}
    BY <1>1 DEF LeaseOwners
  <2> QED
    BY <2>1 DEF LostLeases
<1>5. \A i : Pins(i) = 0
  BY <1>1 DEF Pins
<1> QED
  BY <1>1, <1>2, <1>3, <1>4, <1>5 DEF Custody!Init, Claims

(* The controller implements ResourceCustody: memory is only ever behind a *)
(* charged lease, what is in use, may still have memory or has an          *)
(* uncertain fate is never given back, and replace_snapshot finds nothing  *)
(* left.  Every operation maps to one step of the abstract specification,  *)
(* or to none.                                                             *)
THEOREM CustodyIsKept == Spec => KeepsCustody
<1>1. Init => OwnInv /\ ResidentsApart /\ TypeInv /\ CustodyInv /\ Custody!Init
  BY InitOwn, InitType, InitMapped
<1>2. IInv /\ OwnInv /\ ResidentsApart /\ TypeInv /\ CustodyInv /\ [Next]_vars
        => /\ OwnInv' /\ ResidentsApart' /\ TypeInv' /\ CustodyInv'
           /\ [Custody!Next]_(Custody!vars)
  BY NextOwn, NextType, NextMapped DEF OwnersHold, Mapped, Step
<1> QED
  BY <1>1, <1>2, AlwaysInv, PTL DEF Spec, KeepsCustody, Custody!Spec

------------------------------------------------------------------------------
(* The order of evictions (EvictionOrder).                                 *)
Waiting(r) == r.state.phase = "draining" /\ r.state.resident # NoHandle /\ r.uses = 0
Settling(r) == r.state.phase \in {"evicting", "quarantined"} \/ Waiting(r)
Evicting(a) == a \in DOMAIN admissions /\ EvictState(admissions[a].state)

(* What was once sent to eviction is gone, lost, on its way, or waits. *)
Tried(a) == a \in 1..(nextId.adm - 1) /\ (a \in DOMAIN admissions => Settling(admissions[a]))

(* Going up from c and starting over at 1, y comes before w. *)
Before(c, y, w) == (c <= y /\ y < w) \/ (w < c /\ c <= y) \/ (y < w /\ w < c)

(* Who waits comes before everybody who was sent since: from the cursor,   *)
(* and from where the eviction that runs would leave the cursor. *)
Queued(p) ==
  /\ p = <<p[1], p[2]>> /\ p[2] \in Evictable /\ p[1] # p[2] /\ Tried(p[1])
  /\ p[1] \in Evictable => Before(drainCursor, p[2], p[1])
  /\ \A x : Evicting(x) /\ (p[1] \in Evictable \/ p[1] = x) => Before(CursorAfter(x), p[2], p[1])
OrderInv == \A p \in overtaken : Queued(p)

(* A step that sends nobody and turns nobody back. *)
Carried ==
  /\ drainCursor' = drainCursor /\ SentToEviction = {}
  /\ \A a : Tried(a) => Tried(a)' /\ (a \in Evictable' => a \in Evictable)
  /\ \A a : Evicting(a)' => Evicting(a)

LEMMA EvictableWait == Evictable = {a \in DOMAIN admissions : Waiting(admissions[a])}
BY DEF Evictable, Waiting

LEMMA EvictableWaitNext == Evictable' = {a \in DOMAIN admissions' : Waiting(admissions'[a])}
BY DEF Evictable, Waiting

LEMMA CarriedStates ==
  ASSUME IInv, IInv', drainCursor' = drainCursor, SentToEviction = {}, nextId.adm <= nextId'.adm,
         \A b \in DOMAIN admissions' \ DOMAIN admissions :
           nextId.adm <= b /\ ~EvictState(admissions'[b].state),
         \A b \in DOMAIN admissions \cap DOMAIN admissions' :
           /\ EvictState(admissions'[b].state) => EvictState(admissions[b].state)
           /\ Settling(admissions[b]) =>
                /\ Settling(admissions'[b])
                /\ Waiting(admissions'[b]) => Waiting(admissions[b])
  PROVE  Carried
<1>1. nextId.adm \in Nat /\ nextId'.adm \in Nat
  BY DEF IInv, Shape, Counters, Count
<1>2. ASSUME NEW a, Tried(a) PROVE Tried(a)' /\ (a \in Evictable' => a \in Evictable)
  <2>1. a \in 1..(nextId.adm - 1) /\ a \in 1..(nextId'.adm - 1)
    BY <1>1, <1>2 DEF Tried
  <2>2. a \in DOMAIN admissions' => a \in DOMAIN admissions /\ Settling(admissions[a])
    BY <1>1, <1>2, <2>1 DEF Tried
  <2> QED
    BY <2>1, <2>2, EvictableWait, EvictableWaitNext DEF Tried
<1>3. ASSUME NEW a, Evicting(a)' PROVE Evicting(a)
  BY <1>3 DEF Evicting
<1> QED
  BY <1>2, <1>3 DEF Carried

(* One admission changes, but not back from where its eviction left it. *)
LEMMA CarriedMove ==
  ASSUME IInv, IInv', drainCursor' = drainCursor, SentToEviction = {}, nextId.adm = nextId'.adm,
         NEW a \in DOMAIN admissions, NEW st, NEW n, Moved(a, st, n), ~EvictState(st),
         \/ ~Settling(admissions[a])
         \/ st.phase = "quarantined"
         \/ st = admissions[a].state /\ n = admissions[a].uses
  PROVE  Carried
<1>1. DOMAIN admissions' = DOMAIN admissions /\ nextId.adm <= nextId'.adm
  BY DEF Moved, IInv, Shape, Counters, Count
<1>2. ASSUME NEW b \in DOMAIN admissions
      PROVE  /\ EvictState(admissions'[b].state) => EvictState(admissions[b].state)
             /\ Settling(admissions[b]) =>
                  /\ Settling(admissions'[b])
                  /\ Waiting(admissions'[b]) => Waiting(admissions[b])
  <2>1. CASE b # a
    BY <2>1 DEF Moved, Settling, Waiting
  <2>2. CASE b = a
    BY <2>2 DEF Moved, Settling, Waiting
  <2> QED
    BY <2>1, <2>2
<1> QED
  BY <1>1, <1>2, CarriedStates

LEMMA CarriedGone ==
  ASSUME IInv, IInv', drainCursor' = drainCursor, SentToEviction = {}, nextId.adm = nextId'.adm,
         NEW a, Gone(a)
  PROVE  Carried
<1>1. nextId.adm <= nextId'.adm
  BY DEF IInv, Shape, Counters, Count
<1> QED
  BY <1>1, CarriedStates DEF Gone

LEMMA CarriedIdle ==
  ASSUME IInv, IInv', UNCHANGED <<admissions, operations, nextId, drainCursor>>
  PROVE  Carried
<1>1. nextId.adm <= nextId'.adm
  BY DEF IInv, Shape, Counters, Count
<1>2. SentToEviction = {}
  BY DEF SentToEviction
<1> QED
  BY <1>1, <1>2, CarriedStates

(* Only a new operation sends somebody to eviction. *)
LEMMA NobodySent ==
  ASSUME DOMAIN operations' \subseteq DOMAIN operations
  PROVE  SentToEviction = {}
BY DEF SentToEviction

(* A load in flight, or an open admission, was never sent to eviction. *)
LEMMA NotSettling ==
  ASSUME IInv, NEW a \in DOMAIN admissions,
         \/ LoadState(admissions[a].state)
         \/ admissions[a].state.phase \in {"reserved", "resident", "inuse"}
         \/ admissions[a].uses > 0 /\ admissions[a].state.phase # "quarantined"
  PROVE  ~Settling(admissions[a])
<1>1. Entry(admissions[a]) /\ admissions[a].state \in AdmissionState /\ admissions[a].uses \in Nat
  BY DEF IInv, Shape, Entry
<1>2. admissions[a].uses > 0 => admissions[a].state.phase # "evicting"
  BY DEF IInv, UseInv, UsesMatchPermits
<1>3. LoadState(admissions[a].state) =>
        admissions[a].state.resident = NoHandle /\ admissions[a].state.phase \in {"loading", "draining"}
  BY <1>1, StateFacts
<1> QED
  BY <1>1, <1>2, <1>3 DEF Settling, Waiting

LEMMA PollCarried ==
  ASSUME IInv, IInv', PollRelease \/ PollLoad
  PROVE  Carried
<1>1. CASE PollRelease
  <2>1. PICK a \in DOMAIN admissions : ReleaseAdmission(a)
    BY <1>1 DEF PollRelease, LocalReleases
  <2>2. UNCHANGED <<operations, nextId, drainCursor>>
    BY <1>1 DEF PollRelease, work
  <2> QED
    BY <2>1, <2>2, ReleaseGone, NobodySent, CarriedGone
<1>2. CASE PollLoad
  <2>1. PICK a \in Loadable : Issue(a, "load", Plain("loading"))
    BY <1>2 DEF PollLoad
  <2>2. a \in DOMAIN admissions /\ admissions[a].state.phase = "reserved"
    BY DEF Loadable
  <2>3. /\ admissions' = SetState(a, Plain("loading")) /\ drainCursor' = drainCursor
        /\ operations' = Put(operations, nextId.op, [adm |-> a, kind |-> "load"])
        /\ nextId' = [nextId EXCEPT !.op = @ + 1]
    BY <2>1 DEF Issue
  <2>4. nextId.adm = nextId'.adm
    BY <2>3 DEF IInv, Shape, Counters
  <2>5. SentToEviction = {}
    BY <2>3 DEF SentToEviction, Put
  <2>6. PICK st \in AdmissionState : st = Plain("loading") /\ ~EvictState(st)
    BY StatesBuilt, HoldingFacts
  <2>7. Moved(a, st, admissions[a].uses)
    BY <2>2, <2>3, <2>6, SetStateMoves DEF IInv
  <2>8. ~Settling(admissions[a])
    BY <2>2, NotSettling
  <2> QED
    BY <2>2, <2>3, <2>4, <2>5, <2>6, <2>7, <2>8, CarriedMove
<1> QED
  BY <1>1, <1>2

(* A load ends in a resident, in quarantine, or with the admission.        *)
LEMMA LoadCarried ==
  ASSUME IInv, IInv', NEW a \in DOMAIN admissions, LoadState(admissions[a].state),
         UNCHANGED <<nextId, drainCursor>>, DOMAIN operations' \subseteq DOMAIN operations,
         \/ \E h \in Handle : admissions' = SetState(a, LoadedState(a, h))
         \/ admissions' = SetState(a, Plain("quarantined"))
         \/ ReleaseAdmission(a)
  PROVE  Carried
<1>1. SentToEviction = {} /\ ~Settling(admissions[a])
  BY NobodySent, NotSettling
<1>2. CASE ReleaseAdmission(a)
  BY <1>1, <1>2, ReleaseGone, CarriedGone
<1>3. CASE \E st \in AdmissionState : admissions' = SetState(a, st) /\ ~EvictState(st)
  <2>1. PICK st \in AdmissionState : admissions' = SetState(a, st) /\ ~EvictState(st)
    BY <1>3
  <2>2. Moved(a, st, admissions[a].uses)
    BY <2>1, SetStateMoves DEF IInv
  <2> QED
    BY <1>1, <2>1, <2>2, CarriedMove
<1>4. ASSUME NEW h \in Handle
      PROVE  LoadedState(a, h) \in AdmissionState /\ ~EvictState(LoadedState(a, h))
  BY StatesBuilt, HoldingFacts DEF LoadedState, Phase
<1>5. Plain("quarantined") \in AdmissionState /\ ~EvictState(Plain("quarantined"))
  BY StatesBuilt, HoldingFacts DEF Busy
<1> QED
  BY <1>2, <1>3, <1>4, <1>5

LEMMA CompleteCarried ==
  ASSUME IInv, IInv', NEW o \in DOMAIN operations, Complete(o), ~EvictFailed(o)
  PROVE  Carried
<1>1. PICK a \in DOMAIN admissions : a = operations[o].adm
  BY DEF IInv, PendingInv
<1>2. UNCHANGED <<nextId, drainCursor>> /\ DOMAIN operations' \subseteq DOMAIN operations
  BY DEF Complete, Loaded, ReleasedBy, QuarantinedBy, EvictFailed, Acknowledges, Drop, Restrict
<1>3. SentToEviction = {}
  BY <1>2, NobodySent
<1>4. CASE \E h \in Handle : Loaded(o, h)
  <2>1. LoadState(admissions[a].state) /\ \E h \in Handle : admissions' = SetState(a, LoadedState(a, h))
    BY <1>1, <1>4 DEF Loaded, Acknowledges, IsLoading, LoadState
  <2> QED
    BY <1>2, <2>1, LoadCarried
<1>5. CASE ReleasedBy(o, "load") \/ ReleasedBy(o, "evict")
  <2>1. ReleaseAdmission(a)
    BY <1>1, <1>5 DEF ReleasedBy
  <2> QED
    BY <1>2, <1>3, <2>1, ReleaseGone, CarriedGone
<1>6. CASE QuarantinedBy(o, "load") \/ QuarantinedBy(o, "evict")
  <2>1. PICK st \in AdmissionState :
          /\ st = Holding("quarantined", admissions[a].state.resident)
          /\ st.phase = "quarantined" /\ ~EvictState(st)
    <3>1. admissions[a].state.resident \in Handle \cup {NoHandle}
      BY StateFacts DEF IInv, Shape, Entry
    <3> QED
      BY <3>1, StatesBuilt, PlainFacts, HoldingFacts DEF Phase
  <2>2. Moved(a, st, admissions[a].uses)
    BY <1>1, <1>6, <2>1, SetStateMoves DEF IInv, QuarantinedBy
  <2> QED
    BY <1>2, <1>3, <2>1, <2>2, CarriedMove
<1> QED
  BY <1>4, <1>5, <1>6 DEF Complete

LEMMA NativeLoadCarried ==
  ASSUME IInv, IInv', NEW n \in DOMAIN nativeLoads, NativeLoadEnds(n)
  PROVE  Carried
<1>1. PICK a \in DOMAIN admissions : a = nativeLoads[n]
  BY DEF IInv, PendingInv
<1>2. LoadState(admissions[a].state)
  BY <1>1 DEF IInv, PendingInv
<1>3. UNCHANGED <<operations, nextId, drainCursor>>
  BY DEF NativeLoadEnds, CompleteNativeLoad, NativeLoadReleased, QuarantineNativeLoad
<1>4. \/ \E h \in Handle : admissions' = SetState(a, LoadedState(a, h))
      \/ admissions' = SetState(a, Plain("quarantined"))
      \/ ReleaseAdmission(a)
  BY <1>1 DEF NativeLoadEnds, CompleteNativeLoad, NativeLoadReleased, QuarantineNativeLoad
<1> QED
  BY <1>2, <1>3, <1>4, LoadCarried

(* Retirement and revocation leave who was sent to eviction as it is. *)
LEMMA RetiringKeeps ==
  ASSUME NEW r, r.state \in AdmissionState, Settling(r)
  PROVE  ToDraining(r.state) = r.state
BY DEF Settling, Waiting, ToDraining

LEMMA RetirementCarried ==
  ASSUME IInv, IInv', NEW a \in DOMAIN admissions, RequestRetirement(a)
  PROVE  Carried
<1>1. PICK st : st = ToDraining(admissions[a].state)
  OBVIOUS
<1>2. admissions[a].state \in AdmissionState
  BY DEF IInv, Shape, Entry
<1>3. st \in AdmissionState /\ (EvictState(st) <=> EvictState(admissions[a].state))
  BY <1>1, <1>2, ToDrainingFacts
<1>4. admissions' = SetState(a, st) /\ UNCHANGED <<operations, nextId, drainCursor>>
  BY <1>1 DEF RequestRetirement, work
<1>5. Moved(a, st, admissions[a].uses)
  BY <1>3, <1>4, SetStateMoves DEF IInv
<1>6. Settling(admissions[a]) => st = admissions[a].state
  BY <1>1, <1>2, RetiringKeeps
<1>7. nextId.adm <= nextId'.adm /\ SentToEviction = {}
  BY <1>4, NobodySent DEF IInv, Shape, Counters, Count
<1>8. ASSUME NEW b \in DOMAIN admissions
      PROVE  /\ EvictState(admissions'[b].state) => EvictState(admissions[b].state)
             /\ Settling(admissions[b]) =>
                  /\ Settling(admissions'[b])
                  /\ Waiting(admissions'[b]) => Waiting(admissions[b])
  BY <1>3, <1>5, <1>6 DEF Moved, Settling, Waiting
<1>9. DOMAIN admissions' = DOMAIN admissions
  BY <1>5 DEF Moved
<1> QED
  BY <1>4, <1>7, <1>8, <1>9, CarriedStates

LEMMA OwnerCarried ==
  ASSUME IInv, IInv', Owner
  PROVE  Carried
<1>1. CASE Revoke
  <2>1. /\ DOMAIN admissions' = DOMAIN admissions /\ UNCHANGED <<operations, nextId, drainCursor>>
        /\ \A b \in DOMAIN admissions :
             admissions'[b] = [admissions[b] EXCEPT !.state = ToDraining(admissions[b].state)]
    BY <1>1 DEF Revoke, work
  <2>2. nextId.adm <= nextId'.adm /\ SentToEviction = {}
    BY <2>1, NobodySent DEF IInv, Shape, Counters, Count
  <2>3. ASSUME NEW b \in DOMAIN admissions
        PROVE  /\ EvictState(admissions'[b].state) => EvictState(admissions[b].state)
               /\ Settling(admissions[b]) =>
                    /\ Settling(admissions'[b])
                    /\ Waiting(admissions'[b]) => Waiting(admissions[b])
    <3>1. Entry(admissions[b]) /\ admissions[b].state \in AdmissionState
      BY DEF IInv, Shape, Entry
    <3>2. /\ admissions'[b].state = ToDraining(admissions[b].state)
          /\ admissions'[b].uses = admissions[b].uses
      BY <2>1, <3>1 DEF Entry
    <3>3. EvictState(ToDraining(admissions[b].state)) <=> EvictState(admissions[b].state)
      BY <3>1, ToDrainingFacts
    <3>4. Settling(admissions[b]) => admissions'[b].state = admissions[b].state
      BY <3>1, <3>2, RetiringKeeps
    <3> QED
      BY <3>2, <3>3, <3>4 DEF Settling, Waiting
  <2> QED
    BY <2>1, <2>2, <2>3, CarriedStates
<1>2. CASE \E g \in Grants : ReplaceGrant(g)
  <2>1. UNCHANGED <<admissions, operations, nextId, drainCursor>>
    BY <1>2 DEF ReplaceGrant, work
  <2> QED
    BY <2>1, CarriedIdle
<1> QED
  BY <1>1, <1>2 DEF Owner

(* Admissions that are added were never sent anywhere. *)
LEMMA AddedCarried ==
  ASSUME IInv, IInv', Commit \/ \E r : AdmitNativeResident(r)
  PROVE  Carried
<1>1. nextId.adm \in Nat /\ nextId \in Counters
  BY DEF IInv, Shape, Counters, Count
<1>2. CASE Commit
  <2> DEFINE n == Len(prepared.placements)
             new == nextId.adm..(nextId.adm + n - 1)
  <2>1. n \in Nat
    BY <1>2 DEF IInv, Shape, Commit
  <2>2. /\ DOMAIN admissions' = DOMAIN admissions \cup new
        /\ \A b \in DOMAIN admissions \ new : admissions'[b] = admissions[b]
        /\ \A b \in new : admissions'[b].state = Plain("reserved")
    BY <1>2 DEF Commit
  <2>3. \A b \in new : nextId.adm <= b /\ b \notin DOMAIN admissions
    BY <1>1 DEF IInv, Shape
  <2>4. nextId.adm <= nextId'.adm
    BY <1>1, <1>2, <2>1 DEF Commit, Counters
  <2>5. SentToEviction = {} /\ drainCursor' = drainCursor
    BY <1>2, NobodySent DEF Commit, work
  <2>6. ~EvictState(Plain("reserved"))
    BY HoldingFacts DEF Busy
  <2> HIDE DEF n, new
  <2> QED
    BY <2>2, <2>3, <2>4, <2>5, <2>6, CarriedStates
<1>3. CASE \E r : AdmitNativeResident(r)
  <2>1. PICK r : AdmitNativeResident(r)
    BY <1>3
  <2>2. /\ DOMAIN admissions' = DOMAIN admissions \cup {nextId.adm}
        /\ admissions'[nextId.adm].state = Plain("loading")
        /\ \A b \in DOMAIN admissions \ {nextId.adm} : admissions'[b] = admissions[b]
    BY <2>1 DEF AdmitNativeResident, Put
  <2>3. nextId.adm \notin DOMAIN admissions
    BY <1>1 DEF IInv, Shape
  <2>4. nextId'.adm = nextId.adm + 1
    <3>1. nextId' = [nextId EXCEPT !.adm = @ + 1, !.load = @ + 1]
      BY <2>1 DEF AdmitNativeResident
    <3> QED
      BY <1>1, <3>1 DEF Counters
  <2>5. SentToEviction = {} /\ drainCursor' = drainCursor
    BY <2>1, NobodySent DEF AdmitNativeResident
  <2>6. nextId.adm <= nextId'.adm /\ nextId.adm <= nextId.adm
    BY <1>1, <2>4
  <2> QED
    BY <2>2, <2>3, <2>5, <2>6, HoldingFacts, CarriedStates
<1> QED
  BY <1>2, <1>3

LEMMA BeginCarried ==
  ASSUME IInv, IInv', NEW a, BeginUse(a) \/ \E r : BeginNativeUse(a, r)
  PROVE  Carried
<1>1. nextId \in Counters
  BY DEF IInv, Shape
<1>2. Startable(a) /\ admissions' = InUse(a) /\ UNCHANGED <<operations, drainCursor>>
  BY DEF BeginUse, BeginNativeUse, work
<1>3. PICK st : st.phase = "inuse" /\ ~Busy(st) /\ Moved(a, st, admissions[a].uses + 1)
  BY <1>2, InUseMoves
<1>4. a \in DOMAIN admissions /\ admissions[a].state.phase \in {"resident", "inuse"}
  BY <1>2, InUseMoves
<1>5. nextId'.adm = nextId.adm
  BY <1>1 DEF BeginUse, BeginNativeUse, Counters
<1>6. SentToEviction = {} /\ ~Settling(admissions[a]) /\ ~EvictState(st)
  BY <1>2, <1>3, <1>4, NobodySent, NotSettling DEF Busy
<1> QED
  BY <1>2, <1>3, <1>4, <1>5, <1>6, CarriedMove

LEMMA FinishCarried ==
  ASSUME IInv, IInv', NEW a \in DOMAIN admissions, admissions[a].uses > 0, admissions' = Finished(a),
         UNCHANGED <<operations, drainCursor>>, nextId'.adm = nextId.adm
  PROVE  Carried
<1>1. UsesOf(a) > 0
  BY DEF IInv, UseInv, UsesMatchPermits
<1>2. PICK st, n : /\ Moved(a, st, n) /\ ~Busy(st)
                   /\ admissions[a].state.phase \in StopPhases => st = admissions[a].state
  BY <1>1, FinishedMoves
<1>3. SentToEviction = {} /\ ~EvictState(st)
  BY <1>2, NobodySent DEF Busy
<1>4. ~Settling(admissions[a]) \/ st.phase = "quarantined"
  BY <1>2, NotSettling DEF StopPhases
<1> QED
  BY <1>2, <1>3, <1>4, CarriedMove

LEMMA AdapterCarried ==
  ASSUME IInv, IInv', Adapter
  PROVE  Carried
<1>1. ASSUME NEW p \in DOMAIN permits, FinishUse(p) PROVE Carried
  <2>1. permits[p] \in DOMAIN admissions
    BY DEF IInv, UseInv, UsesMatchPermits
  <2> QED
    BY <1>1, <2>1, FinishCarried DEF FinishUse, Finishable, work
<1>2. ASSUME NEW n \in DOMAIN nativeUses PROVE nativeUses[n].adm \in DOMAIN admissions
  BY DEF IInv, UseInv, UsesMatchPermits
<1>3. ASSUME NEW n \in DOMAIN nativeUses, FinishNativeUse(n) PROVE Carried
  <2>1. PICK a \in DOMAIN admissions : a = nativeUses[n].adm
    BY <1>2
  <2>2. /\ admissions[a].uses > 0 /\ admissions' = Finished(a) /\ UNCHANGED <<operations, drainCursor>>
        /\ nextId' = nextId \/ nextId' = [nextId EXCEPT !.result = @ + 1]
    BY <1>3, <2>1 DEF FinishNativeUse, Finishable, work
  <2>3. nextId'.adm = nextId.adm
    BY <2>2 DEF IInv, Shape, Counters
  <2> QED
    BY <2>1, <2>2, <2>3, FinishCarried
<1>4. ASSUME NEW n \in DOMAIN nativeUses, QuarantineNativeUse(n) PROVE Carried
  <2>1. PICK a \in DOMAIN admissions : a = nativeUses[n].adm
    BY <1>2
  <2>2. PICK st \in AdmissionState :
          /\ st = Holding("quarantined", admissions[a].state.resident)
          /\ st.phase = "quarantined" /\ ~EvictState(st)
    <3>1. admissions[a].state.resident \in Handle \cup {NoHandle}
      BY StateFacts DEF IInv, Shape, Entry
    <3> QED
      BY <3>1, StatesBuilt, PlainFacts, HoldingFacts DEF Phase
  <2>3. admissions' = SetState(a, st) /\ UNCHANGED <<operations, nextId, drainCursor>>
    BY <1>4, <2>1, <2>2 DEF QuarantineNativeUse, work
  <2>4. Moved(a, st, admissions[a].uses) /\ SentToEviction = {}
    BY <2>3, SetStateMoves, NobodySent DEF IInv
  <2> QED
    BY <2>2, <2>3, <2>4, CarriedMove
<1>5. ASSUME NEW n \in DOMAIN results, DiscardNativeResult(n) PROVE Carried
  BY <1>5, CarriedIdle DEF DiscardNativeResult, work
<1> QED
  BY <1>1, <1>3, <1>4, <1>5, NativeLoadCarried DEF Adapter

(* Every step but an eviction sent or failed is carried. *)
LEMMA NextCarried ==
  ASSUME IInv, IInv', [Next]_vars
  PROVE  Carried \/ PollEvict \/ \E o \in DOMAIN operations : Complete(o) /\ EvictFailed(o)
<1>1. CASE UNCHANGED vars
  BY <1>1, CarriedIdle DEF vars
<1>2. CASE Caller
  <2>1. CASE DiscardPrepared \/ \E ws \in Requests : Prepare(ws)
    <3>1. UNCHANGED <<admissions, operations, nextId, drainCursor>>
      BY <2>1 DEF DiscardPrepared, Prepare, work
    <3> QED
      BY <3>1, CarriedIdle
  <2> QED
    BY <1>2, <2>1, AddedCarried, RetirementCarried, BeginCarried DEF Caller
<1> QED
  BY <1>1, <1>2, PollCarried, OwnerCarried, CompleteCarried, AdapterCarried
     DEF Next, Poll, Executor

------------------------------------------------------------------------------
(* A command of its own leaves no other eviction running. *)
LEMMA OneCommand ==
  ASSUME IInv, TypeInv, OwnInv, MaxPending = 1
  PROVE  /\ PendingCount < MaxPending => \A x : ~Evicting(x)
         /\ \A o \in DOMAIN operations : \A x : Evicting(x) => x = operations[o].adm
<1>1. /\ IsFiniteSet(DOMAIN operations) /\ Cardinality(DOMAIN operations) \in Nat
      /\ IsFiniteSet(DOMAIN nativeLoads) /\ Cardinality(DOMAIN nativeLoads) \in Nat
  BY TablesAreFinite DEF OwnInv
<1>2. ASSUME NEW x, Evicting(x) PROVE \E o \in DOMAIN operations : operations[o].adm = x
  <2>1. /\ x \in DOMAIN admissions /\ EvictState(admissions[x].state) /\ Busy(admissions[x].state)
        /\ admissions[x].state \in AdmissionState
    BY <1>2 DEF Evicting, Busy, IInv, Shape, Entry
  <2>2. ~LoadState(admissions[x].state)
    BY <2>1, StateFacts
  <2> QED
    BY <2>1, <2>2 DEF IInv, PendingInv
<1>3. PendingCount < MaxPending => DOMAIN operations = {}
  <2>1. PendingCount < MaxPending => Cardinality(DOMAIN operations) = 0
    BY <1>1 DEF PendingCount
  <2> QED
    BY <1>1, <2>1, FS_EmptySet
<1>4. ASSUME NEW o \in DOMAIN operations, NEW q \in DOMAIN operations PROVE o = q
  <2>1. Cardinality(DOMAIN operations) <= 1
    BY <1>1 DEF TypeInv, SlotInv, PendingCount
  <2>2. Cardinality(DOMAIN operations \ {o}) = Cardinality(DOMAIN operations) - 1
        /\ IsFiniteSet(DOMAIN operations \ {o}) /\ Cardinality(DOMAIN operations \ {o}) \in Nat
    BY <1>1, FS_RemoveElement, FS_CardinalityType
  <2>3. Cardinality(DOMAIN operations \ {o}) = 0
    BY <1>1, <2>1, <2>2
  <2>4. DOMAIN operations \ {o} = {}
    BY <2>2, <2>3, FS_EmptySet
  <2> QED
    BY <2>4
<1> QED
  BY <1>2, <1>3, <1>4

LEMMA CarriedOrder ==
  ASSUME IInv, OrderInv, Carried,
         overtaken' = {p \in overtaken \cup (SentToEviction \X Evictable) : p[2] \in Evictable'}
  PROVE  OrderInv'
<1>1. SUFFICES ASSUME NEW p \in overtaken' PROVE Queued(p)'
  BY DEF OrderInv
<1>2. p \in overtaken /\ p[2] \in Evictable'
  BY DEF Carried
<1>3. Queued(p)
  BY <1>2 DEF OrderInv
<1>4. Tried(p[1])' /\ (p[1] \in Evictable' => p[1] \in Evictable) /\ drainCursor' = drainCursor
  BY <1>3 DEF Queued, Carried
<1>5. \A x : Evicting(x)' => Evicting(x)
  BY DEF Carried
<1>6. p = <<p[1], p[2]>> /\ p[1] # p[2]
  BY <1>3 DEF Queued
<1>7. p[1] \in Evictable' => Before(drainCursor', p[2], p[1])
  BY <1>3, <1>4 DEF Queued
<1>8. ASSUME NEW x, Evicting(x)', p[1] \in Evictable' \/ p[1] = x
      PROVE  Before(CursorAfter(x), p[2], p[1])
  BY <1>3, <1>4, <1>5, <1>8 DEF Queued
<1> QED
  BY <1>2, <1>4, <1>6, <1>7, <1>8 DEF Queued

(* The order of turns, read off the numbers. *)
LEMMA Turns ==
  ASSUME NEW c \in Nat, NEW a \in Nat, NEW y \in Nat, a # y
  PROVE  /\ Before(a + 1, y, a)
         /\ (c <= a /\ (c <= y => a < y)) \/ (a < c /\ y < c /\ a < y) => ~Before(c, y, a)
BY DEF Before

LEMMA EvictOrder ==
  ASSUME IInv, OwnInv, TypeInv, IInv', MaxPending = 1, OrderInv, PollEvict,
         overtaken' = {p \in overtaken \cup (SentToEviction \X Evictable) : p[2] \in Evictable'}
  PROVE  /\ OrderInv'
         /\ \A x \in SentToEviction, y \in Evictable : <<x, y>> \notin overtaken
<1>1. PICK a \in Evictable :
        NextEviction(a) /\ Issue(a, "evict", Holding("evicting", admissions[a].state.resident))
  BY DEF PollEvict
<1>2. PICK st : st = Holding("evicting", admissions[a].state.resident)
  OBVIOUS
<1>3. /\ a \in DOMAIN admissions /\ admissions[a].state \in AdmissionState
      /\ admissions[a].state.resident # NoHandle
  BY DEF Evictable, IInv, Shape, Entry
<1>4. st \in AdmissionState /\ st.phase = "evicting"
  BY <1>2, <1>3, StateFacts, StatesBuilt, PlainFacts DEF Phase
<1>5. /\ PendingCount < MaxPending
      /\ admissions' = SetState(a, st) /\ drainCursor' = drainCursor
      /\ operations' = Put(operations, nextId.op, [adm |-> a, kind |-> "evict"])
      /\ nextId' = [nextId EXCEPT !.op = @ + 1]
  BY <1>1, <1>2 DEF Issue
<1>6. Moved(a, st, admissions[a].uses)
  BY <1>3, <1>4, <1>5, SetStateMoves DEF IInv
<1>7. /\ DOMAIN admissions' = DOMAIN admissions
      /\ Evictable' = Evictable \ {a}
      /\ \A x : Evicting(x)' => x = a
      /\ Settling(admissions'[a])
  <2>1. \A x : ~Evicting(x)
    BY <1>5, OneCommand
  <2> QED
    BY <1>4, <1>6, <2>1, EvictableWait, EvictableWaitNext DEF Moved, Waiting, Settling, Evicting
<1>8. nextId'.adm = nextId.adm /\ nextId.adm \in Nat
  BY <1>5 DEF IInv, Shape, Counters, Count
<1>9. ASSUME NEW w, Tried(w) PROVE Tried(w)'
  <2>1. w \in DOMAIN admissions /\ w # a => Settling(admissions'[w])
    BY <1>6, <1>9 DEF Moved, Settling, Waiting, Tried
  <2> QED
    BY <1>7, <1>8, <1>9, <2>1 DEF Tried
<1>10. SentToEviction \subseteq {a}
  BY <1>5 DEF SentToEviction, Put
<1>11. drainCursor \in Nat /\ Evictable \subseteq 1..(nextId.adm - 1) /\ Evictable \subseteq Nat
       /\ CursorAfter(a) = a + 1
  <2>1. nextId.adm \in 1..IdMax.adm /\ drainCursor \in 1..IdMax.adm /\ IdMax.adm \in Nat
    BY IdMaxima DEF TypeInv, CounterInv, Id, Count
  <2>2. Evictable \subseteq 1..(nextId.adm - 1)
    BY DEF Evictable, IInv, Shape
  <2> QED
    BY <1>8, <2>1, <2>2 DEF CursorAfter
<1>12. \/ drainCursor <= a /\ \A y \in Evictable : y # a /\ drainCursor <= y => a < y
       \/ a < drainCursor /\ \A y \in Evictable : y < drainCursor /\ (y # a => a < y)
  <2>1. CASE {x \in Evictable : x >= drainCursor} # {}
    <3>1. Least(a, {x \in Evictable : x >= drainCursor})
      BY <1>1, <2>1 DEF NextEviction
    <3> QED
      BY <1>11, <3>1 DEF Least
  <2>2. CASE {x \in Evictable : x >= drainCursor} = {}
    <3>1. Least(a, Evictable)
      BY <1>1, <2>2 DEF NextEviction
    <3> QED
      BY <1>11, <2>2, <3>1 DEF Least
  <2> QED
    BY <2>1, <2>2
<1>13. ASSUME NEW y \in Evictable, y # a
       PROVE  ~Before(drainCursor, y, a) /\ Before(a + 1, y, a)
  BY <1>11, <1>12, <1>13, Turns
<1>14. ASSUME NEW y \in Evictable PROVE <<a, y>> \notin overtaken
  <2>1. SUFFICES ASSUME <<a, y>> \in overtaken PROVE FALSE
    OBVIOUS
  <2>2. Queued(<<a, y>>)
    BY <2>1 DEF OrderInv
  <2> QED
    BY <1>13, <2>2 DEF Queued
<1>15. ASSUME NEW p \in overtaken' PROVE Queued(p)'
  <2>1. p[2] \in Evictable' /\ p[2] \in Evictable /\ p[2] # a
    BY <1>7
  <2>2. CASE p \in overtaken
    <3>1. Queued(p) /\ p = <<p[1], p[2]>>
      BY <2>2 DEF OrderInv, Queued
    <3>2. p[1] # a
      BY <1>14, <2>1, <2>2, <3>1
    <3>3. p[1] \in Evictable' => Before(drainCursor', p[2], p[1]) /\ Before(a + 1, p[2], p[1])
      <4>1. SUFFICES ASSUME p[1] \in Evictable PROVE Before(drainCursor, p[2], p[1]) /\ Before(a + 1, p[2], p[1])
        BY <1>5, <1>7
      <4>2. Before(drainCursor, p[2], p[1]) /\ p[1] # p[2]
        BY <3>1, <4>1 DEF Queued
      <4>3. PICK y \in Evictable, w \in Evictable : y = p[2] /\ w = p[1] /\ y # a /\ w # a /\ w # y
        BY <2>1, <3>2, <4>1, <4>2
      <4>4. \/ /\ drainCursor <= a /\ (drainCursor <= y => a < y) /\ (drainCursor <= w => a < w)
            \/ a < drainCursor /\ y < drainCursor /\ a < y /\ w < drainCursor /\ a < w
        BY <1>12, <4>3
      <4>5. drainCursor \in Nat /\ a \in Nat /\ y \in Nat /\ w \in Nat
        BY <1>11
      <4>6. Before(drainCursor, y, w)
        BY <4>2, <4>3
      <4>7. Before(a + 1, y, w)
        BY <4>3, <4>4, <4>5, <4>6 DEF Before
      <4> QED
        BY <4>2, <4>3, <4>7
    <3>4. p[1] # p[2] /\ Tried(p[1])'
      BY <1>9, <3>1 DEF Queued
    <3> QED
      BY <1>7, <1>11, <2>1, <3>1, <3>2, <3>3, <3>4 DEF Queued
  <2>3. CASE p \in SentToEviction \X Evictable
    <3>1. p = <<p[1], p[2]>> /\ p[1] = a
      BY <1>10, <2>3
    <3>2. Tried(a)'
      BY <1>7, <1>8, <1>11 DEF Tried
    <3>3. Before(a + 1, p[2], a)
      BY <1>13, <2>1
    <3> QED
      BY <1>7, <1>11, <2>1, <3>1, <3>2, <3>3 DEF Queued
  <2> QED
    BY <2>2, <2>3
<1> QED
  BY <1>10, <1>14, <1>15 DEF OrderInv

LEMMA FailedOrder ==
  ASSUME IInv, OwnInv, TypeInv, IInv', MaxPending = 1, OrderInv,
         NEW o \in DOMAIN operations, Complete(o), EvictFailed(o),
         overtaken' = {p \in overtaken \cup (SentToEviction \X Evictable) : p[2] \in Evictable'}
  PROVE  OrderInv' /\ SentToEviction = {}
<1>1. PICK a \in DOMAIN admissions : a = operations[o].adm
  BY DEF IInv, PendingInv
<1>2. Evicting(a) /\ admissions[a].state \in AdmissionState
  BY <1>1 DEF EvictFailed, Acknowledges, Evicting, EvictState, IInv, Shape, Entry
<1>3. PICK st \in AdmissionState :
        /\ st = Holding("draining", admissions[a].state.resident) /\ ~EvictState(st)
        /\ st.phase = "draining"
  <2>1. admissions[a].state.resident \in Handle
    BY <1>2, StateFacts DEF Evicting
  <2> QED
    BY <2>1, StatesBuilt, PlainFacts, HoldingFacts DEF Phase
<1>4. /\ admissions' = SetState(a, st) /\ drainCursor' = CursorAfter(a)
      /\ nextId' = nextId /\ SentToEviction = {}
  BY <1>1, <1>3, NobodySent DEF EvictFailed, Complete, Acknowledges, Drop, Restrict
<1>5. Moved(a, st, admissions[a].uses)
  BY <1>3, <1>4, SetStateMoves DEF IInv
<1>6. /\ DOMAIN admissions' = DOMAIN admissions
      /\ Evictable' \subseteq Evictable \cup {a}
      /\ \A x : ~Evicting(x)'
  <2>1. \A x : Evicting(x) => x = a
    BY <1>1, OneCommand
  <2> QED
    BY <1>3, <1>5, <2>1, EvictableWait, EvictableWaitNext DEF Moved, Waiting, Evicting
<1>7. Settling(admissions'[a])
  <2>1. admissions[a].uses = 0
    BY <1>2, UnusedUnlessHeld DEF IInv, Evicting, EvictState, UsePhases
  <2>2. st.resident # NoHandle
    BY <1>2, <1>3, StateFacts, PlainFacts DEF Evicting, Phase
  <2> QED
    BY <1>3, <1>5, <2>1, <2>2 DEF Moved, Settling, Waiting
<1>8. ASSUME NEW w, Tried(w) PROVE Tried(w)'
  <2>1. w \in DOMAIN admissions /\ w # a => Settling(admissions'[w])
    BY <1>5, <1>8 DEF Moved, Settling, Waiting, Tried
  <2> QED
    BY <1>4, <1>6, <1>7, <1>8, <2>1 DEF Tried
<1>9. ASSUME NEW p \in overtaken' PROVE Queued(p)'
  <2>1. p \in overtaken /\ p[2] \in Evictable'
    BY <1>4
  <2>2. Queued(p)
    BY <2>1 DEF OrderInv
  <2>3. p[1] \in Evictable' => Before(drainCursor', p[2], p[1])
    BY <1>2, <1>4, <1>6, <2>2 DEF Queued
  <2>4. p = <<p[1], p[2]>> /\ p[1] # p[2] /\ Tried(p[1])'
    BY <1>8, <2>2 DEF Queued
  <2> QED
    BY <1>6, <2>1, <2>3, <2>4 DEF Queued
<1> QED
  BY <1>4, <1>9 DEF OrderInv

(* With one command outstanding at a time, no resident is sent to eviction *)
(* twice while another one waits, whatever is admitted, used, retired,     *)
(* revoked or lost in between: the drain cursor leaves a failed eviction   *)
(* at the back. *)
THEOREM EvictionsGoRound ==
  ASSUME MaxPending = 1
  PROVE  OrderSpec => NobodyIsOvertakenTwice
<1> DEFINE Fresh == \A x \in SentToEviction, y \in Evictable : <<x, y>> \notin overtaken
<1>1. OrderInit => IInv /\ OwnInv /\ ResidentsApart /\ TypeInv /\ OrderInv
  BY InitInv, InitOwn, InitType DEF OrderInit, OrderInv
<1>2. IInv /\ OwnInv /\ ResidentsApart /\ TypeInv /\ OrderInv /\ [OrderNext]_<<vars, overtaken>>
        => /\ IInv' /\ OwnInv' /\ ResidentsApart' /\ TypeInv' /\ OrderInv'
           /\ [Fresh]_<<vars, overtaken>>
  <2> SUFFICES ASSUME IInv, OwnInv, ResidentsApart, TypeInv, OrderInv, [OrderNext]_<<vars, overtaken>>
               PROVE  /\ IInv' /\ OwnInv' /\ ResidentsApart' /\ TypeInv' /\ OrderInv'
                      /\ [Fresh]_<<vars, overtaken>>
    OBVIOUS
  <2>1. [Next]_vars
    BY DEF OrderNext
  <2>2. IInv' /\ OwnInv' /\ ResidentsApart' /\ TypeInv'
    BY <2>1, NextInv, NextOwn, NextType DEF Holds, OwnersHold
  <2>3. CASE UNCHANGED <<vars, overtaken>>
    <3>1. Carried
      BY <2>2, <2>3, CarriedIdle DEF vars
    <3>2. OrderInv'
      <4>1. UNCHANGED <<admissions, nextId, drainCursor, overtaken>>
        BY <2>3 DEF vars
      <4>2. Evictable' = Evictable
        BY <4>1 DEF Evictable
      <4> QED
        BY <4>1, <4>2 DEF OrderInv, Queued, Tried, Evicting
    <3> QED
      BY <2>2, <2>3, <3>2
  <2>4. CASE OrderNext
    <3>1. overtaken' = {p \in overtaken \cup (SentToEviction \X Evictable) : p[2] \in Evictable'}
      BY <2>4 DEF OrderNext
    <3>2. OrderInv' /\ Fresh
      <4>1. CASE Carried
        BY <3>1, <4>1, CarriedOrder DEF Carried
      <4>2. CASE PollEvict
        BY <2>2, <3>1, <4>2, EvictOrder
      <4>3. CASE \E o \in DOMAIN operations : Complete(o) /\ EvictFailed(o)
        BY <2>2, <3>1, <4>3, FailedOrder
      <4> QED
        BY <2>1, <2>2, <4>1, <4>2, <4>3, NextCarried
    <3> QED
      BY <2>2, <3>2
  <2> QED
    BY <2>3, <2>4
<1> QED
  BY <1>1, <1>2, PTL DEF OrderSpec, NobodyIsOvertakenTwice
===============================================================================
