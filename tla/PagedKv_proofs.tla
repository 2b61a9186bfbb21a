---------------------------- MODULE PagedKv_proofs ----------------------------
(***************************************************************************)
(* Theorems about PagedKv, for every page size, context, set of layers and *)
(* set of rows.                                                            *)
(***************************************************************************)
EXTENDS PagedKv, PagedLedger_proofs

(* The ledger is idle, or it extends the idle ledger the open append began *)
(* from.                                                                   *)
InAppend(n) ==
  /\ CanBegin(before, n)
  /\ open = Reservation(before, n)
  /\ Extends(ledger, before, n)

IInv ==
  /\ storage \in Storage(Row)
  /\ prepared \in BOOLEAN /\ (prepared => open # NoAppend)
  /\ open = NoAppend => Idle(ledger)
  /\ open # NoAppend => Idle(before) /\ \E n \in Nat : InAppend(n)

------------------------------------------------------------------------------
(* The steps. *)

(* An append in progress is never mistaken for none. *)
LEMMA ReservationIsAppend ==
  ASSUME NEW l, Idle(l), NEW n \in Nat, CanBegin(l, n)
  PROVE  Reservation(l, n) # NoAppend
<1>1. NoAppend \notin Reservations
  BY NoAppendAssumption DEF Reservations
<1>2. Reservation(l, n) \in Reservations
  BY ReservationIsRecord
<1> QED
  BY <1>1, <1>2

(* The copy of the tail, as PagedLedger_proofs names it. *)
LEMMA CopyIsTailCopied ==
  ASSUME NEW s, NEW tail PROVE WithTailCopied(s, tail) = TailCopied(s, tail)
BY DEF WithTailCopied, TailCopied, Within0, Slots

LEMMA InitInv == Init => IInv
<1> SUFFICES ASSUME Init PROVE IInv
  OBVIOUS
<1>1. storage \in Storage(Row)
  <2>1. Zero \in Row
    BY RowAssumption
  <2> QED
    BY <2>1 DEF Init, Storage, Slots, Within0
<1> QED
  BY <1>1, NewLedgerIdle DEF Init, IInv

LEMMA NextInv == IInv /\ [Next]_vars => IInv'
<1> SUFFICES ASSUME IInv, [Next]_vars PROVE IInv'
  OBVIOUS
<1> USE DEF IInv
<1>1. ASSUME NEW n \in 1..MaxContext, BeginAppend(n) PROVE IInv'
  <2>1. /\ Idle(ledger) /\ CanBegin(ledger, n) /\ n \in Nat
        /\ before' = ledger /\ prepared' = prepared
        /\ open' = Reservation(ledger, n)
        /\ ledger' = Begun(ledger, Reservation(ledger, n))
        /\ storage' = TailCopied(storage, Reservation(ledger, n).tail)
    BY <1>1, CopyIsTailCopied, PageAssumption DEF BeginAppend
  <2>2. storage' \in Storage(Row)
    BY <2>1, CopyKeepsStorage
  <2>3. Extends(ledger', before', n)
    BY <2>1, BeginExtends
  <2>4. open' # NoAppend
    BY <2>1, ReservationIsAppend
  <2>5. InAppend(n)'
    BY <2>1, <2>3 DEF InAppend
  <2> QED
    BY <2>1, <2>2, <2>4, <2>5
<1>2. ASSUME NEW x \in Layer, NEW v \in Row, WriteLayerRow(x, v) PROVE IInv'
  <2> PICK n \in Nat : InAppend(n)
    BY <1>2 DEF WriteLayerRow
  <2> DEFINE at == Location(ledger, open, x)
  <2>1. /\ Idle(before) /\ CanBegin(before, n) /\ open = Reservation(before, n)
        /\ Extends(ledger, before, n) /\ CanWrite(ledger, open, x)
        /\ storage' = [storage EXCEPT ![at.bundle][x][at.within] = v]
        /\ ledger' = Recorded(ledger, x, at)
        /\ open' = open /\ prepared' = prepared /\ before' = before /\ open # NoAppend
    BY <1>2 DEF WriteLayerRow, InAppend
  <2>2. at.bundle \in Bundle /\ at.within \in Within0 /\ Extends(ledger', before, n)
    BY <2>1, WriteExtends DEF Within0
  <2> HIDE DEF at
  <2>3. storage' \in Storage(Row)
    BY <2>1, <2>2 DEF Storage
  <2>4. InAppend(n)'
    BY <2>1, <2>2 DEF InAppend
  <2> QED
    BY <2>1, <2>3, <2>4
<1>3. ASSUME PrepareCommit PROVE IInv'
  <2>1. /\ prepared' = TRUE /\ open # NoAppend
        /\ ledger' = ledger /\ storage' = storage /\ open' = open /\ before' = before
    BY <1>3 DEF PrepareCommit
  <2> QED
    BY <2>1 DEF InAppend
<1>4. ASSUME Commit PROVE IInv'
  <2> PICK n \in Nat : InAppend(n)
    BY <1>4 DEF Commit
  <2>1. /\ Idle(before) /\ CanBegin(before, n) /\ open = Reservation(before, n)
        /\ Extends(ledger, before, n)
        /\ ledger' = Published(ledger, open)
        /\ open' = NoAppend /\ prepared' = FALSE /\ storage' = storage
    BY <1>4 DEF Commit, InAppend
  <2>2. Idle(ledger')
    BY <2>1, PublishIdles
  <2> QED
    BY <2>1, <2>2
<1>5. ASSUME Drop PROVE IInv'
  <2> PICK n \in Nat : InAppend(n)
    BY <1>5 DEF Drop
  <2>1. /\ Idle(before) /\ CanBegin(before, n) /\ open = Reservation(before, n)
        /\ Extends(ledger, before, n)
        /\ ledger' = RolledBack(ledger, open)
        /\ open' = NoAppend /\ prepared' = FALSE /\ storage' = storage
    BY <1>5 DEF Drop, InAppend
  <2>2. ledger' = before
    BY <2>1, RollBackRestores
  <2> QED
    BY <2>1, <2>2
<1>6. CASE UNCHANGED vars
  BY <1>6 DEF vars, InAppend
<1> QED
  BY <1>1, <1>2, <1>3, <1>4, <1>5, <1>6 DEF Next

(* The ledger has its shape, whether an append is open or not. *)
LEMMA LedgerShape == IInv => IsLedger(ledger)
<1> SUFFICES ASSUME IInv PROVE IsLedger(ledger)
  OBVIOUS
<1>1. CASE open = NoAppend
  BY <1>1 DEF IInv, Idle
<1>2. CASE open # NoAppend
  BY <1>2 DEF IInv, InAppend, Extends
<1> QED
  BY <1>1, <1>2

LEMMA AlwaysInv == Spec => []IInv
BY InitInv, NextInv, PTL DEF Spec

------------------------------------------------------------------------------
(* The ledger and the storage keep their shape (begin_append, write_row,   *)
(* publish_commit and rollback).                                           *)
THEOREM TypeCorrect == Spec => []TypeOK
<1>1. IInv => TypeOK
  <2> SUFFICES ASSUME IInv PROVE TypeOK
    OBVIOUS
  <2>1. IsLedger(ledger)
    BY LedgerShape
  <2> QED
    BY <2>1 DEF IInv, TypeOK, Storage, Slots, Within0
<1> QED
  BY <1>1, AlwaysInv, PTL

(* The one spare bundle of PagedKvPlan::allocation is enough for every     *)
(* context and page size: begin_append never refuses for want of bundles.  *)
THEOREM SpareSuffices == Spec => []RoomForEveryAppend
<1>1. IInv => RoomForEveryAppend
  BY IdleHasRoom DEF IInv, RoomForEveryAppend
<1> QED
  BY <1>1, AlwaysInv, PTL

(* Dropping an append gives back the ledger it began from (rollback).      *)
THEOREM DropRestores == Spec => []DropRestoresLedger
<1>1. IInv => DropRestoresLedger
  <2> SUFFICES ASSUME IInv, open # NoAppend PROVE RolledBack(ledger, open) = before
    BY DEF DropRestoresLedger
  <2> PICK n \in Nat : InAppend(n)
    BY DEF IInv
  <2>1. /\ Idle(before) /\ CanBegin(before, n) /\ open = Reservation(before, n)
        /\ Extends(ledger, before, n)
    BY DEF IInv, InAppend
  <2> QED
    BY <2>1, RollBackRestores
<1> QED
  BY <1>1, AlwaysInv, PTL

------------------------------------------------------------------------------
(* Where the bundles are and what the fills cover.  The ledger an append   *)
(* began from says where the bundles are while it is open.                 *)
BundleInv ==
  /\ open = NoAppend => Whole(ledger)
  /\ open # NoAppend => Whole(before) /\ Filled(before)
  /\ Filled(ledger)
  /\ prepared => Complete(ledger, open)

LEMMA NextBundleInv == IInv /\ BundleInv /\ [Next]_vars => BundleInv'
<1> SUFFICES ASSUME IInv, BundleInv, [Next]_vars PROVE BundleInv'
  OBVIOUS
<1> USE DEF BundleInv
<1>1. ASSUME NEW n \in 1..MaxContext, BeginAppend(n) PROVE BundleInv'
  <2>1. /\ Idle(ledger) /\ CanBegin(ledger, n) /\ n \in Nat
        /\ Whole(ledger) /\ Filled(ledger) /\ ~prepared
        /\ before' = ledger /\ prepared' = prepared
        /\ open' = Reservation(ledger, n)
        /\ ledger' = Begun(ledger, Reservation(ledger, n))
    BY <1>1, PageAssumption DEF BeginAppend, IInv
  <2>2. Filled(ledger')
    BY <2>1, BeginKeepsFilled
  <2>3. open' # NoAppend
    BY <2>1, ReservationIsAppend
  <2>4. Whole(before') /\ Filled(before')
    BY <2>1
  <2> QED
    BY <2>1, <2>2, <2>3, <2>4
<1>2. ASSUME NEW x \in Layer, NEW v \in Row, WriteLayerRow(x, v) PROVE BundleInv'
  <2> PICK n \in Nat : InAppend(n)
    BY <1>2 DEF WriteLayerRow, IInv
  <2>1. /\ Idle(before) /\ CanBegin(before, n) /\ open = Reservation(before, n)
        /\ Extends(ledger, before, n) /\ Filled(ledger) /\ CanWrite(ledger, open, x)
        /\ ledger' = Recorded(ledger, x, Location(ledger, open, x))
        /\ open' = open /\ prepared' = prepared /\ before' = before
        /\ open # NoAppend /\ ~prepared
    BY <1>2 DEF WriteLayerRow, InAppend, IInv
  <2>2. Filled(ledger')
    BY <2>1, WriteKeepsFilled
  <2>3. Whole(before') /\ Filled(before')
    BY <2>1
  <2> QED
    BY <2>1, <2>2, <2>3
<1>3. ASSUME PrepareCommit PROVE BundleInv'
  <2>1. /\ open # NoAppend /\ Complete(ledger, open)
        /\ ledger' = ledger /\ open' = open /\ before' = before
    BY <1>3 DEF PrepareCommit
  <2>2. Complete(ledger', open') /\ Filled(ledger') /\ Whole(before') /\ Filled(before')
    BY <2>1
  <2> QED
    BY <2>1, <2>2
<1>4. ASSUME Commit PROVE BundleInv'
  <2>1. prepared /\ open # NoAppend
    BY <1>4 DEF Commit, IInv
  <2> PICK n \in Nat : InAppend(n)
    BY <2>1 DEF IInv
  <2>2. /\ Idle(before) /\ CanBegin(before, n) /\ open = Reservation(before, n)
        /\ Extends(ledger, before, n) /\ Whole(before)
        /\ Filled(ledger) /\ Complete(ledger, open)
        /\ ledger' = Published(ledger, open)
        /\ open' = NoAppend /\ prepared' = FALSE
    BY <2>1, <1>4 DEF Commit, InAppend, IInv
  <2>3. Filled(ledger')
    BY <2>2, PublishKeepsFilled
  <2>4. Apart(ledger, open)
    BY <2>2, ExtendsApart
  <2>5. IsLedger(ledger)
    BY <2>2 DEF Extends
  <2>6. Whole(ledger')
    BY <2>2, <2>4, <2>5, PublishKeepsWhole
  <2> QED
    BY <2>2, <2>3, <2>6
<1>5. ASSUME Drop PROVE BundleInv'
  <2> PICK n \in Nat : InAppend(n)
    BY <1>5 DEF Drop, IInv
  <2>1. /\ Idle(before) /\ CanBegin(before, n) /\ open = Reservation(before, n)
        /\ Extends(ledger, before, n) /\ Whole(before) /\ Filled(before)
        /\ ledger' = RolledBack(ledger, open)
        /\ open' = NoAppend /\ prepared' = FALSE
    BY <1>5 DEF Drop, InAppend, IInv
  <2>2. ledger' = before
    BY <2>1, RollBackRestores
  <2>3. Whole(ledger') /\ Filled(ledger')
    BY <2>1, <2>2
  <2> QED
    BY <2>1, <2>3
<1>6. CASE UNCHANGED vars
  BY <1>6 DEF vars
<1> QED
  BY <1>1, <1>2, <1>3, <1>4, <1>5, <1>6 DEF Next

LEMMA AlwaysBundleInv == Spec => [](IInv /\ BundleInv)
<1>1. Init => BundleInv
  BY NewLedgerWhole DEF Init, BundleInv
<1> QED
  BY <1>1, InitInv, NextInv, NextBundleInv, PTL DEF Spec

(* Every bundle is in exactly one place: begin_append, publish_commit and  *)
(* rollback neither lose one nor give one to two pages.                    *)
THEOREM OnePlaceEach == Spec => []BundlesHaveOnePlace
<1>1. IInv /\ BundleInv => BundlesHaveOnePlace
  <2> SUFFICES ASSUME IInv, BundleInv, NEW b \in Bundle
               PROVE  \E x \in Places(b) : Places(b) = {x}
    BY DEF BundlesHaveOnePlace
  <2> DEFINE T == 1..Len(ledger.table)
             F == 1..Len(ledger.free)
             aside == open # NoAppend /\ open.tail # NoTail
  <2>1. IsLedger(ledger)
    BY LedgerShape
  <2>2. DOMAIN ledger.table = T /\ DOMAIN ledger.free = F
    BY <2>1 DEF IsLedger
  <2>3. /\ \A p, q \in T : ledger.table[p] = ledger.table[q] => p = q
        /\ \A i, j \in F : ledger.free[i] = ledger.free[j] => i = j
        /\ \A p \in T, i \in F : ledger.table[p] # ledger.free[i]
        /\ aside => /\ \A p \in T : ledger.table[p] # open.tail.original
                    /\ \A i \in F : ledger.free[i] # open.tail.original
        /\ \/ \E p \in T : ledger.table[p] = b
           \/ \E i \in F : ledger.free[i] = b
           \/ aside /\ open.tail.original = b
    <3>1. CASE open = NoAppend
      BY <3>1 DEF BundleInv, Whole
    <3>2. CASE open # NoAppend
      <4> PICK n \in Nat : InAppend(n)
        BY <3>2 DEF IInv
      <4>1. /\ Idle(before) /\ CanBegin(before, n) /\ open = Reservation(before, n)
            /\ Extends(ledger, before, n) /\ Whole(before)
        BY <3>2 DEF IInv, InAppend, BundleInv
      <4>2. Apart(ledger, open)
        BY <4>1, ExtendsApart
      <4> QED
        BY <4>2, <3>2 DEF Apart
    <3> QED
      BY <3>1, <3>2
  <2> HIDE DEF T, F
  <2>4. Places(b) =
          {<<"page", p>> : p \in {q \in T : ledger.table[q] = b}}
            \cup {<<"free", i>> : i \in {j \in F : ledger.free[j] = b}}
            \cup (IF aside /\ open.tail.original = b THEN {<<"aside", 0>>} ELSE {})
    BY <2>2 DEF Places
  <2>5. ASSUME NEW p \in T, ledger.table[p] = b PROVE Places(b) = {<<"page", p>>}
    <3>1. /\ {q \in T : ledger.table[q] = b} = {p}
          /\ {j \in F : ledger.free[j] = b} = {}
          /\ ~(aside /\ open.tail.original = b)
      BY <2>3, <2>5
    <3> QED
      BY <2>4, <3>1
  <2>6. ASSUME NEW i \in F, ledger.free[i] = b PROVE Places(b) = {<<"free", i>>}
    <3>1. /\ {q \in T : ledger.table[q] = b} = {}
          /\ {j \in F : ledger.free[j] = b} = {i}
          /\ ~(aside /\ open.tail.original = b)
      BY <2>3, <2>6
    <3> QED
      BY <2>4, <3>1
  <2>7. ASSUME aside, open.tail.original = b PROVE Places(b) = {<<"aside", 0>>}
    <3>1. /\ {q \in T : ledger.table[q] = b} = {}
          /\ {j \in F : ledger.free[j] = b} = {}
      BY <2>3, <2>7
    <3> QED
      BY <2>4, <2>7, <3>1
  <2> HIDE DEF aside
  <2> QED
    BY <2>3, <2>5, <2>6, <2>7
<1> QED
  BY <1>1, AlwaysBundleInv, PTL

(* Every row a layer may read lies below the fill of its page, so no read  *)
(* is refused for the layout (write_row, publish_commit, rollback).        *)
THEOREM VisibleRowsFilled == Spec => []VisibleRowsAreFilled
<1>1. IInv /\ BundleInv => VisibleRowsAreFilled
  <2> SUFFICES ASSUME IInv, BundleInv PROVE VisibleRowsAreFilled
    OBVIOUS
  <2>1. IsLedger(ledger)
    BY LedgerShape
  <2>2. DOMAIN ledger.table = 1..Len(ledger.table)
    BY <2>1 DEF IsLedger
  <2> QED
    BY <2>2 DEF BundleInv, Filled, Shown, VisibleRowsAreFilled
<1> QED
  BY <1>1, AlwaysBundleInv, PTL

------------------------------------------------------------------------------
(* The pool implements AppendLog: published rows never change, an append   *)
(* is published whole, and a dropped one leaves nothing behind.            *)

(* The open append shows the published rows as the ledger it began from.   *)
RowsInv ==
  open # NoAppend =>
    \A x \in Layer : \A t \in 0..(before.committed - 1) :
      At(ledger, storage, x, t) = At(before, storage, x, t)

RoomOf(r) == IF r = NoAppend THEN 0 ELSE r.tokens

(* The log the pool stands for, in those terms. *)
LogOpen(n) ==
  /\ RoomOf(open) = 0
  /\ \A x \in Layer : Len(PublishedRows(ledger, storage)[x]) + n <= MaxContext
  /\ RoomOf(open') = n
  /\ PublishedRows(ledger', storage') = PublishedRows(ledger, storage)
  /\ StagedRows(ledger', storage') = StagedRows(ledger, storage)

LogWrite(x, v) ==
  /\ Len(StagedRows(ledger, storage)[x]) < RoomOf(open)
  /\ StagedRows(ledger', storage') = [StagedRows(ledger, storage) EXCEPT ![x] = Append(@, v)]
  /\ PublishedRows(ledger', storage') = PublishedRows(ledger, storage)
  /\ RoomOf(open') = RoomOf(open)

LogPublish ==
  /\ RoomOf(open) > 0
  /\ \A x \in Layer : Len(StagedRows(ledger, storage)[x]) = RoomOf(open)
  /\ PublishedRows(ledger', storage') =
       [x \in Layer |-> PublishedRows(ledger, storage)[x] \o StagedRows(ledger, storage)[x]]
  /\ StagedRows(ledger', storage') = [x \in Layer |-> <<>>]
  /\ RoomOf(open') = 0

LogForget ==
  /\ StagedRows(ledger', storage') = [x \in Layer |-> <<>>]
  /\ RoomOf(open') = 0
  /\ PublishedRows(ledger', storage') = PublishedRows(ledger, storage)

LEMMA LogSteps ==
  /\ \A n \in 1..MaxContext : LogOpen(n) => Log!Open(n)
  /\ \A x \in Layer, v \in Row : LogWrite(x, v) => Log!Write(x, v)
  /\ LogPublish => Log!Publish
  /\ LogForget => Log!Forget
<1>1. ASSUME NEW n \in 1..MaxContext, LogOpen(n) PROVE Log!Open(n)
  BY <1>1 DEF LogOpen, Log!Open, RoomOf, PublishedRows, StagedRows, At, RowAt
<1>2. ASSUME NEW x \in Layer, NEW v \in Row, LogWrite(x, v) PROVE Log!Write(x, v)
  BY <1>2 DEF LogWrite, Log!Write, RoomOf, PublishedRows, StagedRows, At, RowAt
<1>3. ASSUME LogPublish PROVE Log!Publish
  BY <1>3 DEF LogPublish, Log!Publish, Log!Nothing, RoomOf, PublishedRows, StagedRows, At, RowAt
<1>4. ASSUME LogForget PROVE Log!Forget
  BY <1>4 DEF LogForget, Log!Forget, Log!Nothing, RoomOf, PublishedRows, StagedRows, At, RowAt
<1> QED
  BY <1>1, <1>2, <1>3, <1>4
------------------------------------------------------------------------------
(* begin_append opens the log. *)
LEMMA BeginMaps ==
  ASSUME IInv, BundleInv, NEW n \in 1..MaxContext, BeginAppend(n)
  PROVE  RowsInv' /\ LogOpen(n)
<1> DEFINE r == Reservation(ledger, n)
<1>1. /\ Idle(ledger) /\ CanBegin(ledger, n) /\ n \in Nat /\ n > 0
      /\ Whole(ledger) /\ Filled(ledger) /\ storage \in Storage(Row)
      /\ open = NoAppend /\ open' = r /\ before' = ledger
      /\ ledger' = Begun(ledger, r) /\ storage' = TailCopied(storage, r.tail)
  BY CopyIsTailCopied, PageAssumption DEF BeginAppend, IInv, BundleInv
<1>2. r.tokens = n /\ r # NoAppend
  BY <1>1, ReservationIsAppend DEF Reservation
<1>3. /\ \A x \in Layer : \A t \in 0..(ledger.committed - 1) :
           At(ledger', storage', x, t) = At(ledger, storage', x, t)
      /\ PublishedRows(ledger', storage') = PublishedRows(ledger, storage)
      /\ StagedRows(ledger', storage') = [x \in Layer |-> <<>>]
  BY <1>1, BeginShowsSame
<1> HIDE DEF r
<1>4. StagedRows(ledger, storage) = [x \in Layer |-> <<>>]
  BY <1>1, NothingStaged DEF Idle
<1>5. \A x \in Layer : Len(PublishedRows(ledger, storage)[x]) + n <= MaxContext
  <2> TAKE x \in Layer
  <2>1. Len(PublishedRows(ledger, storage)[x]) = ledger.committed
    BY <1>1, LedgerShape, RowsAreSeqs
  <2> QED
    BY <2>1, <1>1 DEF CanBegin
<1> QED
  BY <1>1, <1>2, <1>3, <1>4, <1>5 DEF LogOpen, RowsInv, RoomOf

(* write_row adds one row to the open append of its layer. *)
LEMMA WriteMaps ==
  ASSUME IInv, BundleInv, RowsInv, NEW x \in Layer, NEW v \in Row, WriteLayerRow(x, v)
  PROVE  RowsInv' /\ LogWrite(x, v)
<1> PICK n \in Nat : InAppend(n)
  BY DEF WriteLayerRow, IInv
<1>1. /\ Idle(before) /\ Whole(before) /\ Filled(before)
      /\ CanBegin(before, n) /\ open = Reservation(before, n)
      /\ Extends(ledger, before, n) /\ Filled(ledger) /\ CanWrite(ledger, open, x)
      /\ storage \in Storage(Row)
      /\ storage' = Written(storage, Location(ledger, open, x), x, v)
      /\ ledger' = Recorded(ledger, x, Location(ledger, open, x))
      /\ open' = open /\ before' = before /\ open # NoAppend
  BY DEF WriteLayerRow, InAppend, IInv, BundleInv, Written
<1>2. /\ Len(StagedRows(ledger, storage)[x]) < n
      /\ StagedRows(ledger', storage') = [StagedRows(ledger, storage) EXCEPT ![x] = Append(@, v)]
      /\ PublishedRows(ledger', storage') = PublishedRows(ledger, storage)
      /\ \A y \in Layer : \A t \in 0..(before.committed - 1) :
           /\ At(ledger', storage', y, t) = At(ledger, storage, y, t)
           /\ At(before, storage', y, t) = At(before, storage, y, t)
  BY <1>1, WriteShowsRow
<1>3. RowsInv'
  BY <1>1, <1>2 DEF RowsInv
<1>4. RoomOf(open) = n
  BY <1>1 DEF RoomOf, Reservation
<1> QED
  BY <1>1, <1>2, <1>3, <1>4 DEF LogWrite

(* publish_commit publishes the whole append. *)
LEMMA CommitMaps ==
  ASSUME IInv, BundleInv, Commit
  PROVE  RowsInv' /\ LogPublish
<1>1. open # NoAppend /\ open' = NoAppend
  BY DEF Commit, IInv
<1> PICK n \in Nat : InAppend(n)
  BY <1>1 DEF IInv
<1>2. /\ Idle(before) /\ CanBegin(before, n) /\ open = Reservation(before, n)
      /\ Extends(ledger, before, n)
      /\ Filled(ledger) /\ Complete(ledger, open) /\ storage \in Storage(Row)
      /\ ledger' = Published(ledger, open) /\ storage' = storage
  BY <1>1 DEF Commit, InAppend, IInv, BundleInv
<1>3. /\ \A x \in Layer : Len(StagedRows(ledger, storage)[x]) = n
      /\ PublishedRows(ledger', storage') = AllRows(ledger, storage)
      /\ StagedRows(ledger', storage') = [x \in Layer |-> <<>>]
  <2> DEFINE d == Published(ledger, Reservation(before, n))
  <2>1. /\ Idle(before) /\ CanBegin(before, n) /\ Extends(ledger, before, n) /\ Filled(ledger)
        /\ Complete(ledger, Reservation(before, n)) /\ storage \in Storage(Row)
    BY <1>2
  <2>2. /\ \A x \in Layer : Len(StagedRows(ledger, storage)[x]) = n
        /\ PublishedRows(d, storage) = AllRows(ledger, storage)
        /\ StagedRows(d, storage) = [x \in Layer |-> <<>>]
    BY <2>1, CommitShowsAll
  <2>3. d = ledger' /\ storage' = storage
    BY <1>2
  <2> HIDE DEF d
  <2> QED
    BY <2>2, <2>3
<1>4. RoomOf(open) = n /\ n > 0 /\ RoomOf(open') = 0
  BY <1>1, <1>2 DEF RoomOf, Reservation, CanBegin
<1> QED
  BY <1>1, <1>3, <1>4 DEF RowsInv, LogPublish, AllRows

(* rollback forgets the open append, and the published rows are those the  *)
(* ledger it began from shows. *)
LEMMA DropMaps ==
  ASSUME IInv, BundleInv, RowsInv, Drop
  PROVE  RowsInv' /\ LogForget
<1> PICK n \in Nat : InAppend(n)
  BY DEF IInv, Drop
<1>1. /\ Idle(before) /\ CanBegin(before, n) /\ open = Reservation(before, n)
      /\ Extends(ledger, before, n)
      /\ ledger' = RolledBack(ledger, open) /\ storage' = storage
      /\ open # NoAppend /\ open' = NoAppend
  BY DEF Drop, InAppend, IInv
<1>2. ledger' = before
  BY <1>1, RollBackRestores
<1>3. /\ ledger'.staged = [x \in Layer |-> 0]
      /\ ledger'.committed = ledger.committed /\ ledger.committed \in 0..MaxContext
  BY <1>1, <1>2 DEF Idle, Extends, IsLedger
<1>4. StagedRows(ledger', storage') = [x \in Layer |-> <<>>]
  BY <1>3, NothingStaged
<1>5. \A x \in Layer : \A t \in 0..(ledger.committed - 1) :
        At(ledger', storage', x, t) = At(ledger, storage, x, t)
  BY <1>1, <1>2, <1>3 DEF RowsInv
<1>6. PublishedRows(ledger', storage') = PublishedRows(ledger, storage)
  <2>1. ledger.committed \in Nat
    BY <1>3
  <2> QED
    BY <2>1, <1>3, <1>5, SamePublished
<1> QED
  BY <1>1, <1>4, <1>6 DEF RowsInv, LogForget, RoomOf

LEMMA StepMaps ==
  IInv /\ BundleInv /\ RowsInv /\ [Next]_vars => RowsInv' /\ [Log!Next]_(Log!vars)
<1> SUFFICES ASSUME IInv, BundleInv, RowsInv, [Next]_vars
             PROVE  RowsInv' /\ [Log!Next]_(Log!vars)
  OBVIOUS
<1>1. ASSUME NEW n \in 1..MaxContext, BeginAppend(n) PROVE RowsInv' /\ Log!Next
  BY <1>1, BeginMaps, LogSteps DEF Log!Next
<1>2. ASSUME NEW x \in Layer, NEW v \in Row, WriteLayerRow(x, v) PROVE RowsInv' /\ Log!Next
  BY <1>2, WriteMaps, LogSteps DEF Log!Next
<1>3. ASSUME PrepareCommit PROVE RowsInv' /\ UNCHANGED Log!vars
  BY <1>3 DEF PrepareCommit, RowsInv, At, RowAt, Log!vars
<1>4. ASSUME Commit PROVE RowsInv' /\ Log!Next
  BY <1>4, CommitMaps, LogSteps DEF Log!Next
<1>5. ASSUME Drop PROVE RowsInv' /\ Log!Next
  BY <1>5, DropMaps, LogSteps DEF Log!Next
<1>6. ASSUME UNCHANGED vars PROVE RowsInv' /\ UNCHANGED Log!vars
  BY <1>6 DEF vars, RowsInv, At, RowAt, Log!vars
<1> QED
  BY <1>1, <1>2, <1>3, <1>4, <1>5, <1>6 DEF Next

LEMMA InitMaps == Init => RowsInv /\ Log!Init
<1> SUFFICES ASSUME Init PROVE RowsInv /\ Log!Init
  OBVIOUS
<1>1. open = NoAppend /\ ledger.committed = 0 /\ ledger.staged = [x \in Layer |-> 0]
  BY DEF Init, NewLedger
<1>2. StagedRows(ledger, storage) = [x \in Layer |-> <<>>]
  BY <1>1, NothingStaged
<1>3. PublishedRows(ledger, storage) = [x \in Layer |-> <<>>]
  <2>1. \A x \in Layer : [i \in 1..ledger.committed |-> At(ledger, storage, x, i - 1)] = <<>>
    <3> TAKE x \in Layer
    <3>1. ledger.committed = 0 /\ 1..0 = {}
      BY <1>1
    <3> QED
      BY <3>1
  <2> QED
    BY <2>1 DEF PublishedRows
<1>4. RowsInv
  BY <1>1 DEF RowsInv
<1> QED
  BY <1>1, <1>2, <1>3, <1>4
  DEF Log!Init, Log!Nothing, PublishedRows, StagedRows, At, RowAt

(* The host pool implements AppendLog (begin_append, write_row,            *)
(* publish_commit and rollback): published rows never change, copies of a  *)
(* partial tail included, an append shows whole or not at all, and each    *)
(* layer reads its own rows in the order it wrote them.                    *)
THEOREM PoolIsALog == Spec => ImplementsLog
<1>1. Spec => [](IInv /\ BundleInv)
  BY AlwaysBundleInv
<1> QED
  BY <1>1, InitMaps, StepMaps, PTL DEF Spec, ImplementsLog, Log!Spec
==============================================================================
