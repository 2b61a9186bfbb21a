------------------------------- MODULE PagedKv -------------------------------
(***************************************************************************)
(* PagedKvPool and its append transaction (crates/cache/src/paged.rs): the *)
(* key and value rows of one decoder execution in host memory.  An append  *)
(* borrows the pool, so one is open at a time; it is published by commit,  *)
(* or undone when it is dropped, refused or abandoned at any point.        *)
(***************************************************************************)
EXTENDS PagedLedger

CONSTANTS
  Row,        \* a key row with its value row
  Zero,       \* what storage is filled with when it is allocated
  NoAppend

ASSUME RowAssumption == Zero \in Row
ASSUME NoAppendAssumption ==
  NoAppend \notin [tokens : Nat, original : Nat, target : Nat, pages : Nat,
                  tail : {NoTail} \cup [page : Nat, original : Nat, fill : Nat, replacement : Nat]]

VARIABLES
  ledger,
  storage,    \* bundle |-> layer |-> row within the page
  open,       \* the reservation of the open append
  prepared,   \* the open append was verified by prepare_commit
  before      \* history: the ledger when the open append began

vars == <<ledger, storage, open, prepared, before>>

Within0 == 0..(PageTokens - 1)

Init ==
  /\ ledger = NewLedger
  /\ storage = [b \in Bundle |-> [x \in Layer |-> [w \in Within0 |-> Zero]]]
  /\ open = NoAppend
  /\ prepared = FALSE
  /\ before = NewLedger

WithTailCopied(s, tail) ==
  IF tail = NoTail THEN s
  ELSE [s EXCEPT ![tail.replacement] = [x \in Layer |-> [w \in Within0 |->
          IF w < tail.fill THEN s[tail.original][x][w] ELSE s[tail.replacement][x][w]]]]

BeginAppend(n) ==
  /\ open = NoAppend
  /\ CanBegin(ledger, n)
  /\ LET r == Reservation(ledger, n)
     IN /\ open' = r
        /\ ledger' = Begun(ledger, r)
        /\ storage' = WithTailCopied(storage, r.tail)
  /\ before' = ledger
  /\ UNCHANGED prepared

WriteLayerRow(layer, row) ==
  /\ open # NoAppend /\ ~prepared
  /\ CanWrite(ledger, open, layer)
  /\ LET at == Location(ledger, open, layer)
     IN /\ storage' = [storage EXCEPT ![at.bundle][layer][at.within] = row]
        /\ ledger' = Recorded(ledger, layer, at)
  /\ UNCHANGED <<open, prepared, before>>

PrepareCommit ==
  /\ open # NoAppend /\ ~prepared
  /\ Complete(ledger, open)
  /\ prepared' = TRUE
  /\ UNCHANGED <<ledger, storage, open, before>>

Commit ==
  /\ prepared
  /\ ledger' = Published(ledger, open)
  /\ open' = NoAppend /\ prepared' = FALSE
  /\ UNCHANGED <<storage, before>>

(* Dropping the append, prepared or not.  A refused prepare_commit has     *)
(* consumed the append and drops it too. *)
Drop ==
  /\ open # NoAppend
  /\ ledger' = RolledBack(ledger, open)
  /\ open' = NoAppend /\ prepared' = FALSE
  /\ UNCHANGED <<storage, before>>

Next ==
  \/ \E n \in 1..MaxContext : BeginAppend(n)
  \/ \E x \in Layer, v \in Row : WriteLayerRow(x, v)
  \/ PrepareCommit
  \/ Commit
  \/ Drop

Spec == Init /\ [][Next]_vars

------------------------------------------------------------------------------
(* Type invariant: the ledger and the storage have their declared shape.   *)
TypeOK ==
  /\ IsLedger(ledger)
  /\ storage \in [Bundle -> [Layer -> [Within0 -> Row]]]
  /\ prepared \in BOOLEAN /\ (prepared => open # NoAppend)

(* Every bundle is in exactly one place, also in the middle of an append:  *)
(* a page, the free stack, or the tail an open append set aside.  None is  *)
(* ever written through two pages, and none leaks when an append is        *)
(* published or dropped.                                                   *)
Places(b) ==
  {<<"page", p>> : p \in {q \in DOMAIN ledger.table : ledger.table[q] = b}}
    \cup {<<"free", i>> : i \in {j \in DOMAIN ledger.free : ledger.free[j] = b}}
    \cup {<<"aside", 0>> : x \in {y \in {open} \ {NoAppend} :
                                    y.tail # NoTail /\ y.tail.original = b}}
BundlesHaveOnePlace == \A b \in Bundle : \E x \in Places(b) : Places(b) = {x}

(* The one spare bundle is enough: whatever was appended, published and    *)
(* dropped before, an append that the context has room for is accepted.    *)
RoomForEveryAppend ==
  open = NoAppend => \A n \in 1..(MaxContext - ledger.committed) : CanBegin(ledger, n)

(* A reader never meets a layout error: every row that is visible to a     *)
(* layer, published or written by the open append, lies below the fill of  *)
(* its page.                                                               *)
VisibleRowsAreFilled ==
  \A x \in Layer : \A t \in 0..(ledger.committed + ledger.staged[x] - 1) :
    /\ PageOf(t) \in DOMAIN ledger.table
    /\ Within(t) < ledger.fills[PageOf(t)]

(* "drop restores all logical committed state": at any point of an append  *)
(* dropping it leads back to the very ledger it began from, free stack     *)
(* included.                                                               *)
DropRestoresLedger == open # NoAppend => RolledBack(ledger, open) = before

(* The pool implements AppendLog: published rows never change, a dropped   *)
(* append leaves none behind, and a layer reads its own rows in order,     *)
(* also across the page a copy replaced.                                   *)
RowAt(x, t) == storage[ledger.table[PageOf(t)]][x][Within(t)]

Log == INSTANCE AppendLog WITH
  rows <- [x \in Layer |-> [i \in 1..ledger.committed |-> RowAt(x, i - 1)]],
  staged <- [x \in Layer |-> [i \in 1..ledger.staged[x] |->
                                RowAt(x, ledger.committed + i - 1)]],
  room <- IF open = NoAppend THEN 0 ELSE open.tokens

ImplementsLog == Log!Spec
==============================================================================
