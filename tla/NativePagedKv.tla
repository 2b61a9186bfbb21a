---------------------------- MODULE NativePagedKv ----------------------------
(***************************************************************************)
(* NativePagedKvPool and its append transaction (crates/cache/src/paged.rs *)
(* with the gpu feature).  The host ledger decides; the device holds a     *)
(* mirror of the page table and the rows.  Copies, table writes, rows and  *)
(* attention reads are submitted to one ordered stream and run later.  A   *)
(* submission that fails may have reached the stream or not.  An append is *)
(* parked in the pool once it is complete and published after its caller   *)
(* has synchronized the stream; every other end poisons the pool.          *)
(***************************************************************************)
EXTENDS PagedLedger

CONSTANTS
  Row,        \* a key row with its value row
  Junk,       \* what device memory holds before it is written
  NoAppend,
  MaxReads    \* bound: attention reads on the stream at a time

ASSUME RowAssumption == Junk \notin Row /\ Junk \notin Bundle /\ MaxReads \in Nat
ASSUME NoAppendAssumption ==
  NoAppend \notin [tokens : Nat, original : Nat, target : Nat, pages : Nat,
                  tail : {NoTail} \cup [page : Nat, original : Nat, fill : Nat, replacement : Nat]]

VARIABLES
  ledger,
  open,       \* the reservation of the live append
  parked,     \* the reservation a complete append left in the pool
  poisoned,
  queue,      \* operations submitted to the stream and not yet run
  device      \* table: page |-> bundle, rows: bundle |-> layer |-> rows

vars == <<ledger, open, parked, poisoned, queue, device>>

Within0 == 0..(PageTokens - 1)

Init ==
  /\ ledger = NewLedger
  /\ open = NoAppend /\ parked = NoAppend
  /\ poisoned = FALSE
  /\ queue = <<>>
  /\ device = [table |-> [p \in 1..PageCount |-> Junk],
               rows |-> [b \in Bundle |-> [x \in Layer |-> [w \in Within0 |-> Junk]]]]

------------------------------------------------------------------------------
(* The kernels, as they run on the device. *)
CopyTail(tail) ==
  [kind |-> "copy", from |-> tail.original, to |-> tail.replacement, fill |-> tail.fill]
WriteTable(page, bundle) == [kind |-> "table", page |-> page, bundle |-> bundle]
AppendRow(layer, at, row) ==
  [kind |-> "row", layer |-> layer, bundle |-> at.bundle, within |-> at.within, row |-> row]

Run(d, op) ==
  CASE op.kind = "copy" ->
         [d EXCEPT !.rows[op.to] = [x \in Layer |-> [w \in Within0 |->
            IF w < op.fill THEN d.rows[op.from][x][w] ELSE d.rows[op.to][x][w]]]]
    [] op.kind = "table" -> [d EXCEPT !.table[op.page] = op.bundle]
    [] op.kind = "row" -> [d EXCEPT !.rows[op.bundle][op.layer][op.within] = op.row]
    [] op.kind = "read" -> d

(* The device before and after each of the operations on the stream, and   *)
(* once it has run them all. *)
Runs(d, ops) ==
  LET after[k \in 0..Len(ops)] == IF k = 0 THEN d ELSE Run(after[k - 1], ops[k])
  IN after
Settled == Runs(device, queue)[Len(queue)]

RowAt(d, x, t) == d.rows[ledger.table[PageOf(t)]][x][Within(t)]

Execute ==
  /\ queue # <<>>
  /\ device' = Run(device, Head(queue))
  /\ queue' = Tail(queue)
  /\ UNCHANGED <<ledger, open, parked, poisoned>>

------------------------------------------------------------------------------
(* What beginning reservation r submits, the ledger being l: the copy of   *)
(* the tail and its new table entry, then the entries of the new pages.    *)
(* Mutant: the device keeps the table entry of the replaced tail. *)
MirrorOfNewPages(l, r) ==
  (IF r.tail = NoTail THEN <<>> ELSE <<CopyTail(r.tail)>>)
    \o [i \in 1..(Len(l.table) - r.pages) |-> WriteTable(r.pages + i, l.table[r.pages + i])]
(* Mutant: the replaced tail starts as it is. *)
MirrorWithoutCopy(l, r) ==
  LET from == IF r.tail = NoTail THEN r.pages + 1 ELSE r.pages
  IN [i \in 1..(Len(l.table) + 1 - from) |-> WriteTable(from + i - 1, l.table[from + i - 1])]
Mirror(l, r) ==
  (IF r.tail = NoTail THEN <<>>
   ELSE <<CopyTail(r.tail), WriteTable(r.tail.page, r.tail.replacement)>>)
    \o [i \in 1..(Len(l.table) - r.pages) |-> WriteTable(r.pages + i, l.table[r.pages + i])]

Usable == ~poisoned /\ parked = NoAppend

NotPoisoned == ~poisoned

BeginAppend(n) ==
  /\ open = NoAppend
  /\ Usable
  /\ CanBegin(ledger, n)
  /\ LET r == Reservation(ledger, n)
         l == Begun(ledger, r)
     IN open' = r /\ ledger' = l /\ queue' = queue \o Mirror(l, r)
  /\ UNCHANGED <<parked, poisoned, device>>

(* A submission fails after the first k reached the stream; the host rolls *)
(* back, the device cannot. *)
BeginFails(n) ==
  /\ open = NoAppend
  /\ Usable
  /\ CanBegin(ledger, n)
  /\ LET r == Reservation(ledger, n)
         l == Begun(ledger, r)
         ops == Mirror(l, r)
     IN /\ ledger' = RolledBack(l, r)
        /\ \E k \in 0..Len(ops) : queue' = queue \o SubSeq(ops, 1, k)
  /\ poisoned' = TRUE
  /\ UNCHANGED <<open, parked, device>>

(* One row of write_layer_row or of the loop of write_layer_rows. *)
WriteLayerRow(layer, row) ==
  /\ open # NoAppend
  /\ NotPoisoned
  /\ CanWrite(ledger, open, layer)
  /\ LET at == Location(ledger, open, layer)
     IN /\ queue' = Append(queue, AppendRow(layer, at, row))
        /\ ledger' = Recorded(ledger, layer, at)
  /\ UNCHANGED <<open, parked, poisoned, device>>

WriteFails(layer, row) ==
  /\ open # NoAppend
  /\ NotPoisoned
  /\ CanWrite(ledger, open, layer)
  /\ queue' \in {queue, Append(queue, AppendRow(layer, Location(ledger, open, layer), row))}
  /\ poisoned' = TRUE
  /\ UNCHANGED <<ledger, open, parked, device>>

(* The read carries, as a history, the rows the host takes it to see.      *)
Attend(layer) ==
  LET visible == ledger.committed + ledger.staged[layer]
  IN /\ open # NoAppend
     /\ visible > 0
     /\ Len(SelectSeq(queue, LAMBDA op : op.kind = "read")) < MaxReads
     /\ queue' = Append(queue, [kind |-> "read", layer |-> layer,
                                rows |-> [i \in 1..visible |-> RowAt(Settled, layer, i - 1)]])
     /\ UNCHANGED <<ledger, open, parked, poisoned, device>>

PrepareCommit ==
  /\ open # NoAppend
  /\ NotPoisoned
  /\ parked = NoAppend
  /\ Complete(ledger, open)
  /\ parked' = open
  /\ open' = NoAppend
  /\ UNCHANGED <<ledger, poisoned, queue, device>>

(* Also the end of a prepare_commit that was refused. *)
DropAppend ==
  /\ open # NoAppend
  /\ ledger' = RolledBack(ledger, open)
  /\ open' = NoAppend
  /\ poisoned' = TRUE
  /\ UNCHANGED <<parked, queue, device>>

(* The caller has synchronized the stream: this is what the safety section *)
(* of commit_prepared_after_completion asks of it, and nothing checks it.  *)
CommitPrepared ==
  /\ queue = <<>>
  /\ open = NoAppend
  /\ NotPoisoned
  /\ parked # NoAppend
  /\ ledger' = Published(ledger, parked)
  /\ parked' = NoAppend
  /\ UNCHANGED <<open, poisoned, queue, device>>

Next ==
  \/ \E n \in 1..MaxContext : BeginAppend(n)
  \/ \E n \in 1..MaxContext : BeginFails(n)
  \/ \E x \in Layer, v \in Row : WriteLayerRow(x, v)
  \/ \E x \in Layer, v \in Row : WriteFails(x, v)
  \/ \E x \in Layer : Attend(x)
  \/ PrepareCommit
  \/ DropAppend
  \/ CommitPrepared
  \/ Execute

Spec == Init /\ [][Next]_vars

------------------------------------------------------------------------------
(* The reservation that is in progress, live or parked. *)
Reserved == IF open # NoAppend THEN open ELSE parked

(* The ledger as it was published last. *)
LastPublished == IF Reserved = NoAppend THEN ledger ELSE RolledBack(ledger, Reserved)

(* Type invariant: the ledger and the device have their declared shape.    *)
TypeOK ==
  /\ IsLedger(ledger)
  /\ poisoned \in BOOLEAN
  /\ device.table \in [1..PageCount -> Bundle \cup {Junk}]
  /\ device.rows \in [Bundle -> [Layer -> [Within0 -> Row \cup {Junk}]]]

(* What is still to run on the stream never writes into a published page,  *)
(* not even after an append was rolled back under it.                      *)
Targets(op) ==
  CASE op.kind = "copy" -> {op.to} [] op.kind = "row" -> {op.bundle} [] OTHER -> {}
PublishedPagesAreQuiet ==
  \A i \in DOMAIN queue : \A p \in DOMAIN LastPublished.table :
    LastPublished.table[p] \notin Targets(queue[i])

(* An attention read finds, when it runs, the rows the host took it to see *)
(* when it was launched: copy, table entry and rows come before it.        *)
ReadsFindTheirRows ==
  queue # <<>> /\ Head(queue).kind = "read" =>
    LET op == Head(queue)
    IN \A i \in DOMAIN op.rows :
         LET bundle == device.table[PageOf(i - 1)]
         IN /\ bundle # Junk
            /\ device.rows[bundle][op.layer][Within(i - 1)] = op.rows[i]

(* The pool, read through the host's table after its stream has settled,   *)
(* implements AppendLog: published rows never change, whatever failed and  *)
(* whatever is still running.                                              *)
Log == INSTANCE AppendLog WITH
  rows <- [x \in Layer |-> [i \in 1..ledger.committed |->
             Settled.rows[LastPublished.table[PageOf(i - 1)]][x][Within(i - 1)]]],
  staged <- [x \in Layer |-> [i \in 1..ledger.staged[x] |->
             RowAt(Settled, x, ledger.committed + i - 1)]],
  room <- IF Reserved = NoAppend THEN 0 ELSE Reserved.tokens

ImplementsLog == Log!Spec
==============================================================================
