------------------------- MODULE NativePagedKv_proofs -------------------------
(***************************************************************************)
(* Theorems about NativePagedKv, for every page size, context, set of      *)
(* layers and set of rows, and for any number of operations on the stream. *)
(***************************************************************************)
EXTENDS NativePagedKv, PagedLedger_proofs, WellFoundedInduction

------------------------------------------------------------------------------
(* The stream.                                                             *)

(* What holds of 0, and of each number of an interval after its            *)
(* predecessor, holds in the interval.                                     *)
LEMMA UpTo ==
  ASSUME NEW n \in Nat, NEW P, 0 \in P, \A k \in 1..n : k - 1 \in P => k \in P
  PROVE  \A k \in 0..n : k \in P
<1> DEFINE Bad == {k \in 0..n : k \notin P}
<1> SUFFICES ASSUME Bad # {} PROVE FALSE
  OBVIOUS
<1>1. PICK m \in Bad : \A k \in Bad : ~(k < m)
  <2> DEFINE Less == OpToRel(<, Nat)
  <2>1. IsWellFoundedOn(Less, Nat)
    BY NatLessThanWellFounded
  <2>2. Bad \in SUBSET Nat
    OBVIOUS
  <2> HIDE DEF Bad
  <2>3. PICK m \in Bad : \A k \in Bad : <<k, m>> \notin Less
    <3> HIDE DEF Less
    <3> QED
      BY <2>1, <2>2, WFMin
  <2> QED
    BY <2>2, <2>3 DEF OpToRel
<1>2. m \in 1..n /\ m - 1 \in 0..n /\ m - 1 < m
  OBVIOUS
<1>3. m - 1 \notin Bad
  BY <1>1, <1>2
<1> QED
  BY <1>2, <1>3

(* The devices a queue goes through: the first is the one it finds, and    *)
(* each operation leads to the next.                                       *)
LEMMA RunsAre ==
  ASSUME NEW d, NEW S, NEW q \in Seq(S)
  PROVE  /\ Runs(d, q)[0] = d
         /\ \A k \in 1..Len(q) : Runs(d, q)[k] = Run(Runs(d, q)[k - 1], q[k])
<1> DEFINE After(f, n) == f = [k \in 0..n |-> IF k = 0 THEN d ELSE Run(f[k - 1], q[k])]
           P == {n \in 0..Len(q) : \E f : After(f, n)}
<1>1. Len(q) \in Nat
  OBVIOUS
<1>2. 0 \in P
  <2>1. After([k \in 0..0 |-> d], 0)
    OBVIOUS
  <2> HIDE DEF After
  <2> QED
    BY <1>1, <2>1
<1>3. ASSUME NEW n \in 1..Len(q), n - 1 \in P PROVE n \in P
  <2> PICK f : After(f, n - 1)
    BY <1>3
  <2> DEFINE g == [k \in 0..n |-> IF k = n THEN Run(f[n - 1], q[n]) ELSE f[k]]
  <2>1. \A k \in 0..(n - 1) : g[k] = f[k] /\ f[k] = IF k = 0 THEN d ELSE Run(f[k - 1], q[k])
    BY <1>1
  <2>2. g[n] = Run(g[n - 1], q[n])
    BY <1>1
  <2>3. ASSUME NEW k \in 0..n PROVE g[k] = IF k = 0 THEN d ELSE Run(g[k - 1], q[k])
    <3>1. CASE k = n
      BY <3>1, <2>2, <1>1
    <3>2. CASE k # n
      <4>1. k \in 0..(n - 1) /\ (k # 0 => k - 1 \in 0..(n - 1))
        BY <3>2, <1>1
      <4> HIDE DEF g
      <4> QED
        BY <4>1, <2>1
    <3> QED
      BY <3>1, <3>2
  <2>4. g = [k \in 0..n |-> g[k]]
    OBVIOUS
  <2> HIDE DEF g
  <2>5. After(g, n)
    BY <2>3, <2>4
  <2> QED
    BY <2>5
<1>4. Len(q) \in P
  <2> HIDE DEF P
  <2>1. \A k \in 0..Len(q) : k \in P
    BY <1>1, <1>2, <1>3, UpTo
  <2> QED
    BY <2>1, <1>1
<1>5. Runs(d, q) = CHOOSE f : After(f, Len(q))
  BY DEF Runs
<1>6. After(Runs(d, q), Len(q))
  <2>1. \E f : After(f, Len(q))
    BY <1>4
  <2> HIDE DEF After
  <2> QED
    BY <1>5, <2>1
<1> DEFINE r == Runs(d, q)
<1> HIDE DEF r
<1>7. r = [k \in 0..Len(q) |-> IF k = 0 THEN d ELSE Run(r[k - 1], q[k])]
  BY <1>6 DEF r
<1>8. r[0] = d /\ \A k \in 1..Len(q) : r[k] = Run(r[k - 1], q[k])
  BY <1>1, <1>7
<1> QED
  BY <1>8 DEF r

(* Operations submitted later change none of the devices before. *)
LEMMA RunsOfMore ==
  ASSUME NEW d, NEW S, NEW q \in Seq(S), NEW r \in Seq(S), Len(q) <= Len(r),
         \A i \in 1..Len(q) : r[i] = q[i]
  PROVE  \A k \in 0..Len(q) : Runs(d, r)[k] = Runs(d, q)[k]
<1> DEFINE P == {k \in 0..Len(q) : Runs(d, r)[k] = Runs(d, q)[k]}
<1>1. Len(q) \in Nat /\ Len(r) \in Nat
  OBVIOUS
<1>2. 0 \in P
  BY <1>1, RunsAre
<1>3. ASSUME NEW k \in 1..Len(q), k - 1 \in P PROVE k \in P
  <2>1. k \in 1..Len(r) /\ r[k] = q[k]
    BY <1>1
  <2>2. Runs(d, r)[k] = Run(Runs(d, r)[k - 1], r[k])
    BY <2>1, RunsAre
  <2>3. Runs(d, q)[k] = Run(Runs(d, q)[k - 1], q[k])
    BY RunsAre
  <2> QED
    BY <1>1, <1>3, <2>1, <2>2, <2>3
<1>4. \A k \in 0..Len(q) : k \in P
  <2> HIDE DEF P
  <2> QED
    BY <1>1, <1>2, <1>3, UpTo
<1> QED
  BY <1>4

(* Running the first operation leaves the devices after it. *)
LEMMA RunsOfTail ==
  ASSUME NEW d, NEW S, NEW q \in Seq(S), q # <<>>
  PROVE  \A k \in 0..Len(Tail(q)) : Runs(Run(d, Head(q)), Tail(q))[k] = Runs(d, q)[k + 1]
<1> DEFINE e == Run(d, Head(q))
           t == Tail(q)
           P == {k \in 0..Len(t) : Runs(e, t)[k] = Runs(d, q)[k + 1]}
<1>1. /\ Len(q) \in Nat /\ Len(q) > 0 /\ t \in Seq(S)
      /\ Len(t) = Len(q) - 1 /\ Len(t) \in Nat
      /\ Head(q) = q[1] /\ \A i \in 1..Len(t) : t[i] = q[i + 1]
  OBVIOUS
<1> HIDE DEF t
<1>2. 0 \in P
  <2>1. Runs(d, q)[1] = Run(Runs(d, q)[1 - 1], q[1]) /\ Runs(d, q)[0] = d
    BY <1>1, RunsAre
  <2>2. Runs(e, t)[0] = e
    BY <1>1, RunsAre
  <2> QED
    BY <1>1, <2>1, <2>2
<1> HIDE DEF e
<1>3. ASSUME NEW k \in 1..Len(t), k - 1 \in P PROVE k \in P
  <2>1. k + 1 \in 1..Len(q) /\ t[k] = q[k + 1] /\ (k - 1) + 1 = k /\ (k + 1) - 1 = k
    BY <1>1
  <2>2. Runs(e, t)[k] = Run(Runs(e, t)[k - 1], t[k])
    BY <1>1, RunsAre
  <2>3. Runs(d, q)[k + 1] = Run(Runs(d, q)[(k + 1) - 1], q[k + 1])
    BY <2>1, RunsAre
  <2>4. Runs(e, t)[k - 1] = Runs(d, q)[k]
    BY <1>3, <2>1
  <2>5. Runs(e, t)[k] = Runs(d, q)[k + 1]
    BY <2>1, <2>2, <2>3, <2>4
  <2> QED
    BY <1>1, <2>5
<1>4. \A k \in 0..Len(t) : k \in P
  <2> HIDE DEF P
  <2> QED
    BY <1>1, <1>2, <1>3, UpTo
<1> QED
  BY <1>4 DEF e, t

(* The concatenation of two sequences has the elements of both, in order. *)
LEMMA Joined ==
  ASSUME NEW S, NEW q \in Seq(S), NEW r \in Seq(S)
  PROVE  /\ q \o r \in Seq(S) /\ Len(q \o r) = Len(q) + Len(r)
         /\ \A i \in 1..Len(q) : (q \o r)[i] = q[i]
         /\ \A i \in 1..Len(r) : (q \o r)[Len(q) + i] = r[i]
  OBVIOUS

(* What is submitted behind a queue runs on the device the queue leaves. *)
LEMMA RunsOfBoth ==
  ASSUME NEW d, NEW S, NEW q \in Seq(S), NEW r \in Seq(S)
  PROVE  Runs(d, q \o r)[Len(q \o r)] = Runs(Runs(d, q)[Len(q)], r)[Len(r)]
<1> DEFINE u == q \o r
           e == Runs(d, q)[Len(q)]
           P == {k \in 0..Len(r) : Runs(d, u)[Len(q) + k] = Runs(e, r)[k]}
<1>1. /\ Len(q) \in Nat /\ Len(r) \in Nat /\ u \in Seq(S) /\ Len(u) = Len(q) + Len(r)
      /\ \A i \in 1..Len(q) : u[i] = q[i]
      /\ \A i \in 1..Len(r) : u[Len(q) + i] = r[i]
  OBVIOUS
<1> HIDE DEF u
<1>2. 0 \in P
  <2>1. Runs(d, u)[Len(q)] = e
    BY <1>1, RunsOfMore
  <2>2. Runs(e, r)[0] = e
    BY RunsAre
  <2> QED
    BY <1>1, <2>1, <2>2
<1> HIDE DEF e
<1>3. ASSUME NEW k \in 1..Len(r), k - 1 \in P PROVE k \in P
  <2> DEFINE j == Len(q) + k
  <2>1. /\ j \in 1..Len(u) /\ u[j] = r[k]
        /\ j - 1 = Len(q) + (k - 1)
    BY <1>1
  <2> HIDE DEF j
  <2>2. Runs(d, u)[j] = Run(Runs(d, u)[j - 1], u[j])
    <3>1. u \in Seq(S) /\ j \in 1..Len(u)
      BY <1>1, <2>1
    <3> QED
      BY <3>1, RunsAre
  <2>3. Runs(e, r)[k] = Run(Runs(e, r)[k - 1], r[k])
    BY RunsAre
  <2>4. Runs(d, u)[j - 1] = Runs(e, r)[k - 1]
    BY <1>3, <2>1
  <2>5. Runs(d, u)[j] = Runs(e, r)[k]
    BY <2>1, <2>2, <2>3, <2>4
  <2> QED
    BY <1>1, <2>5 DEF j
<1>4. \A k \in 0..Len(r) : k \in P
  <2> HIDE DEF P
  <2> QED
    BY <1>1, <1>2, <1>3, UpTo
<1>5. Len(r) \in P
  BY <1>1, <1>4
<1> QED
  BY <1>1, <1>5 DEF u, e
------------------------------------------------------------------------------
(* What is submitted, and what it does to the device.                      *)

Cell == Row \cup {Junk}
Device == [table : [1..PageCount -> Bundle \cup {Junk}], rows : Storage(Cell)]

Ops ==
  [kind : {"copy"}, from : Bundle, to : Bundle, fill : Nat]
    \cup [kind : {"table"}, page : 1..PageCount, bundle : Bundle]
    \cup [kind : {"row"}, layer : Layer, bundle : Bundle, within : Slots, row : Row]
    \cup [kind : {"read"}, layer : Layer, rows : Seq(Cell)]

(* A copy and a row change the rows of their target, a write of the table  *)
(* one entry, a read nothing.                                              *)
LEMMA RunChanges ==
  ASSUME NEW d \in Device, NEW op \in Ops
  PROVE  /\ Run(d, op) \in Device
         /\ op.kind = "copy" =>
              /\ Run(d, op).table = d.table
              /\ Run(d, op).rows = [d.rows EXCEPT ![op.to] = [x \in Layer |-> [w \in Slots |->
                   IF w < op.fill THEN d.rows[op.from][x][w] ELSE d.rows[op.to][x][w]]]]
         /\ op.kind = "table" =>
              Run(d, op).rows = d.rows /\ Run(d, op).table = [d.table EXCEPT ![op.page] = op.bundle]
         /\ op.kind = "row" =>
              /\ Run(d, op).table = d.table
              /\ Run(d, op).rows = [d.rows EXCEPT ![op.bundle][op.layer][op.within] = op.row]
         /\ op.kind = "read" => Run(d, op) = d
<1> USE DEF Device, Run
<1>0. d.rows \in Storage(Cell) /\ d.table \in [1..PageCount -> Bundle \cup {Junk}]
      /\ d = [table |-> d.table, rows |-> d.rows]
  OBVIOUS
<1>1. ASSUME op \in [kind : {"copy"}, from : Bundle, to : Bundle, fill : Nat]
      PROVE  /\ Run(d, op).table = d.table
             /\ Run(d, op).rows = [d.rows EXCEPT ![op.to] = [x \in Layer |-> [w \in Slots |->
                  IF w < op.fill THEN d.rows[op.from][x][w] ELSE d.rows[op.to][x][w]]]]
             /\ Run(d, op) \in Device /\ op.kind = "copy"
  <2> DEFINE new == [x \in Layer |-> [w \in Slots |->
                  IF w < op.fill THEN d.rows[op.from][x][w] ELSE d.rows[op.to][x][w]]]
             e == [d EXCEPT !.rows[op.to] = new]
  <2>1. op.kind = "copy" /\ op.to \in Bundle /\ op.from \in Bundle
    BY <1>1
  <2>2. Run(d, op) = e
    BY <2>1 DEF Slots, Within0
  <2>3. d.rows[op.from] \in [Layer -> [Slots -> Cell]] /\ d.rows[op.to] \in [Layer -> [Slots -> Cell]]
    BY <2>1, <1>0 DEF Storage
  <2>4. new \in [Layer -> [Slots -> Cell]]
    BY <2>3
  <2> HIDE DEF new
  <2>5. e.table = d.table /\ e.rows = [d.rows EXCEPT ![op.to] = new]
        /\ e = [table |-> e.table, rows |-> e.rows]
    BY <1>0
  <2>6. [d.rows EXCEPT ![op.to] = new] \in Storage(Cell)
    BY <1>0, <2>1, <2>4 DEF Storage
  <2> HIDE DEF e
  <2>7. e \in Device
    BY <2>5, <2>6, <1>0
  <2> QED
    BY <2>1, <2>2, <2>5, <2>7 DEF new
<1>2. ASSUME op \in [kind : {"table"}, page : 1..PageCount, bundle : Bundle]
      PROVE  /\ Run(d, op).rows = d.rows
             /\ Run(d, op).table = [d.table EXCEPT ![op.page] = op.bundle]
             /\ Run(d, op) \in Device /\ op.kind = "table"
  <2>1. op.kind = "table" /\ op.page \in 1..PageCount /\ op.bundle \in Bundle
    BY <1>2
  <2>2. Run(d, op) = [d EXCEPT !.table[op.page] = op.bundle]
    BY <2>1
  <2> QED
    BY <1>0, <2>1, <2>2
<1>3. ASSUME op \in [kind : {"row"}, layer : Layer, bundle : Bundle, within : Slots, row : Row]
      PROVE  /\ Run(d, op).table = d.table
             /\ Run(d, op).rows = [d.rows EXCEPT ![op.bundle][op.layer][op.within] = op.row]
             /\ Run(d, op) \in Device /\ op.kind = "row"
  <2>1. /\ op.kind = "row" /\ op.layer \in Layer /\ op.bundle \in Bundle
        /\ op.within \in Slots /\ op.row \in Cell
    BY <1>3 DEF Cell
  <2>2. Run(d, op) = [d EXCEPT !.rows[op.bundle][op.layer][op.within] = op.row]
    BY <2>1
  <2> DEFINE new == [d.rows EXCEPT ![op.bundle][op.layer][op.within] = op.row]
  <2>3. new \in Storage(Cell)
    BY <1>0, <2>1 DEF Storage
  <2>4. Run(d, op).table = d.table /\ Run(d, op).rows = new
        /\ Run(d, op) = [table |-> d.table, rows |-> new]
    BY <1>0, <2>2
  <2> HIDE DEF new, Run
  <2>5. Run(d, op) \in Device
    BY <1>0, <2>3, <2>4
  <2> QED
    BY <2>1, <2>4, <2>5 DEF new
<1>4. ASSUME op \in [kind : {"read"}, layer : Layer, rows : Seq(Cell)]
      PROVE  Run(d, op) = d /\ op.kind = "read"
  <2>1. op.kind = "read"
    BY <1>4
  <2> QED
    BY <2>1
<1>5. CASE op \in [kind : {"copy"}, from : Bundle, to : Bundle, fill : Nat]
  <2> HIDE DEF Run, Device
  <2> QED
    BY <1>1, <1>5
<1>6. CASE op \in [kind : {"table"}, page : 1..PageCount, bundle : Bundle]
  <2> HIDE DEF Run, Device
  <2> QED
    BY <1>2, <1>6
<1>7. CASE op \in [kind : {"row"}, layer : Layer, bundle : Bundle, within : Slots, row : Row]
  <2> HIDE DEF Run, Device
  <2> QED
    BY <1>3, <1>7
<1>8. CASE op \in [kind : {"read"}, layer : Layer, rows : Seq(Cell)]
  <2> HIDE DEF Run, Device
  <2> QED
    BY <1>4, <1>8
<1> QED
  BY <1>5, <1>6, <1>7, <1>8 DEF Ops

(* The operations lead from device to device. *)
LEMMA RunsAreDevices ==
  ASSUME NEW d \in Device, NEW q \in Seq(Ops)
  PROVE  \A k \in 0..Len(q) : Runs(d, q)[k] \in Device
<1> DEFINE P == {k \in 0..Len(q) : Runs(d, q)[k] \in Device}
<1>1. Len(q) \in Nat
  OBVIOUS
<1>2. 0 \in P
  BY <1>1, RunsAre
<1>3. ASSUME NEW k \in 1..Len(q), k - 1 \in P PROVE k \in P
  <2>1. q[k] \in Ops
    BY <1>1
  <2>2. Runs(d, q)[k] = Run(Runs(d, q)[k - 1], q[k])
    BY RunsAre
  <2>3. Runs(d, q)[k - 1] \in Device
    BY <1>3
  <2>4. Runs(d, q)[k] \in Device
    BY <2>1, <2>2, <2>3, RunChanges
  <2> QED
    BY <1>1, <2>4
<1>4. \A k \in 0..Len(q) : k \in P
  <2> HIDE DEF P
  <2> QED
    BY <1>1, <1>2, <1>3, UpTo
<1> QED
  BY <1>4

(* The device after one more operation, and after none. *)
LEMMA RunsOfOne ==
  ASSUME NEW d, NEW q \in Seq(Ops), NEW op \in Ops
  PROVE  /\ Append(q, op) \in Seq(Ops) /\ Len(Append(q, op)) = Len(q) + 1
         /\ Runs(d, Append(q, op))[Len(q) + 1] = Run(Runs(d, q)[Len(q)], op)
         /\ \A k \in 0..Len(q) : Runs(d, Append(q, op))[k] = Runs(d, q)[k]
<1> DEFINE r == Append(q, op)
<1>1. /\ r \in Seq(Ops) /\ Len(r) = Len(q) + 1 /\ Len(q) \in Nat
      /\ \A i \in 1..Len(q) : r[i] = q[i]
      /\ r[Len(q) + 1] = op
  OBVIOUS
<1> HIDE DEF r
<1>2. \A k \in 0..Len(q) : Runs(d, r)[k] = Runs(d, q)[k]
  BY <1>1, RunsOfMore
<1>3. Runs(d, r)[Len(q) + 1] = Run(Runs(d, r)[(Len(q) + 1) - 1], r[Len(q) + 1])
  BY <1>1, RunsAre
<1>4. (Len(q) + 1) - 1 = Len(q) /\ Len(q) \in 0..Len(q)
  BY <1>1
<1> QED
  BY <1>1, <1>2, <1>3, <1>4 DEF r
------------------------------------------------------------------------------
(* The mirror of a reservation.                                            *)

(* The ledger's numbers around the tail a reservation replaces. *)
LEMMA TailShape ==
  ASSUME NEW l, Idle(l), NEW n \in Nat, CanBegin(l, n)
  PROVE  LET r == Reservation(l, n)
             b == Begun(l, r)
             P == Len(l.table)
         IN /\ P \in Nat /\ r.pages = P /\ Len(b.table) \in Nat
            /\ P <= Len(b.table) /\ Len(b.table) <= PageCount
            /\ b.table \in Seq(Bundle) /\ l.table \in Seq(Bundle) /\ l.free \in Seq(Bundle)
            /\ r.tail = NoTail <=> ~Partial(l)
            /\ Partial(l) =>
                 /\ P > 0 /\ r.tail.page = P /\ r.tail.original = l.table[P]
                 /\ r.tail.fill = l.fills[P] /\ r.tail.fill \in Nat
                 /\ r.tail.replacement = l.free[Len(l.free)] /\ Len(l.free) \in 1..Len(l.free)
                 /\ b.table[P] = r.tail.replacement
            /\ \A p \in 1..P : ~Partial(l) \/ p < P => b.table[p] = l.table[p]
<1> DEFINE r == Reservation(l, n)
           b == Begun(l, r)
           P == Len(l.table)
           F == Len(l.free)
           more == NewPages(l, n)
<1>1. /\ l.table \in Seq(Bundle) /\ l.fills \in Seq(0..PageTokens) /\ l.free \in Seq(Bundle)
      /\ Len(l.fills) = P /\ P \in Nat /\ F \in Nat
  BY DEF Idle, IsLedger
<1>2. /\ l.committed \in Nat /\ r.target \in 1..MaxContext
      /\ r.pages = P
      /\ r.tail = NoTail <=> ~Partial(l)
      /\ Partial(l) =>
           /\ r.pages > 0
           /\ r.tail = [page |-> r.pages, original |-> l.table[r.pages],
                       fill |-> l.fills[r.pages], replacement |-> l.free[F]]
      /\ more \in Nat /\ r.pages + more = Pages(r.target)
      /\ more + (IF Partial(l) THEN 1 ELSE 0) <= F
  BY BegunShape
<1>3. b.table \in Seq(Bundle) /\ Len(b.table) = r.pages + more
  BY BegunTable
<1>4. LET k == IF Partial(l) THEN P - 1 ELSE P
      IN /\ \A p \in 1..k : b.table[p] = l.table[p]
         /\ \A i \in 1..(Len(b.table) - k) : b.table[k + i] = l.free[F + 1 - i]
  BY BegunPlaces
<1> HIDE DEF r, b, more
<1>5. Len(b.table) = P + more /\ P <= Len(b.table) /\ Len(b.table) \in Nat
  BY <1>1, <1>2, <1>3
<1>6. Len(b.table) <= PageCount
  <2>1. r.target \in Nat /\ MaxContext \in Nat /\ r.target <= MaxContext
    BY <1>2, PageAssumption
  <2>2. Pages(r.target) <= Pages(MaxContext)
    BY <2>1, PagesMonotone
  <2> QED
    BY <2>2, <1>2, <1>3 DEF PageCount
<1>7. ASSUME Partial(l)
      PROVE  /\ P > 0 /\ r.tail.page = P /\ r.tail.original = l.table[P]
             /\ r.tail.fill = l.fills[P] /\ r.tail.fill \in Nat
             /\ r.tail.replacement = l.free[F] /\ F \in 1..F
             /\ b.table[P] = r.tail.replacement
  <2>1. P > 0 /\ r.tail = [page |-> P, original |-> l.table[P],
                          fill |-> l.fills[P], replacement |-> l.free[F]]
    BY <1>2, <1>7
  <2>2. l.fills[P] \in 0..PageTokens
    <3>1. P \in 1..Len(l.fills)
      BY <1>1, <2>1
    <3> QED
      BY <3>1, <1>1, SeqElement
  <2>3. F \in 1..F
    BY <1>1, <1>2, <1>7
  <2>4. 1 \in 1..(Len(b.table) - (P - 1)) /\ (P - 1) + 1 = P /\ F + 1 - 1 = F
    BY <1>1, <1>5, <2>1
  <2>5. b.table[(P - 1) + 1] = l.free[F + 1 - 1]
    BY <1>4, <1>7, <2>4
  <2>6. b.table[P] = l.free[F]
    BY <2>4, <2>5
  <2>7. l.fills[P] \in Nat
    BY <2>2, PageAssumption
  <2> QED
    BY <2>1, <2>3, <2>6, <2>7
<1>8. \A p \in 1..P : ~Partial(l) \/ p < P => b.table[p] = l.table[p]
  BY <1>1, <1>4
<1> QED
  BY <1>1, <1>2, <1>3, <1>5, <1>6, <1>7, <1>8 DEF r, b

(* The copy of the tail comes first; every other operation writes an entry *)
(* of the new table, the replaced tail's and those of the new pages.       *)
Entry(l, i) == Len(l.table) + i - (IF Partial(l) THEN 2 ELSE 0)

LEMMA MirrorOps ==
  ASSUME NEW l, Idle(l), NEW n \in Nat, CanBegin(l, n)
  PROVE  LET r == Reservation(l, n)
             b == Begun(l, r)
             ops == Mirror(b, r)
         IN /\ ops \in Seq(Ops) /\ Len(ops) \in Nat
            /\ Entry(l, Len(ops)) = Len(b.table)
            /\ Partial(l) => Len(ops) > 1 /\ ops[1] = CopyTail(r.tail)
            /\ \A i \in 1..Len(ops) : ~(Partial(l) /\ i = 1) =>
                 /\ Entry(l, i) \in 1..Len(b.table)
                 /\ ops[i] = WriteTable(Entry(l, i), b.table[Entry(l, i)])
<1> DEFINE r == Reservation(l, n)
           b == Begun(l, r)
           front == IF r.tail = NoTail THEN <<>>
                    ELSE <<CopyTail(r.tail), WriteTable(r.tail.page, r.tail.replacement)>>
           ops == Mirror(b, r)
<1>10. PICK P \in Nat : P = Len(l.table)
  BY TailShape
<1>11. PICK B \in Nat : B = Len(b.table)
  BY TailShape
<1> DEFINE rest == [i \in 1..(B - P) |-> WriteTable(P + i, b.table[P + i])]
<1>1. /\ P = Len(l.table) /\ B = Len(b.table)
      /\ r.pages = P /\ P <= B /\ B <= PageCount
      /\ b.table \in Seq(Bundle) /\ l.table \in Seq(Bundle) /\ l.free \in Seq(Bundle)
      /\ r.tail = NoTail <=> ~Partial(l)
      /\ Partial(l) =>
           /\ P > 0 /\ r.tail.page = P /\ r.tail.original = l.table[P] /\ r.tail.fill \in Nat
           /\ r.tail.replacement = l.free[Len(l.free)] /\ Len(l.free) \in 1..Len(l.free)
           /\ b.table[P] = r.tail.replacement
  BY <1>10, <1>11, TailShape
<1>2. ops = front \o rest
  BY <1>1 DEF Mirror
<1> HIDE DEF r, b, ops
<1>3. PageCount \in Nat
  BY BundleNumbers
<1>4. ASSUME NEW p \in 1..B PROVE WriteTable(p, b.table[p]) \in Ops
  <2>1. b.table[p] \in Bundle /\ p \in 1..PageCount
    BY <1>1, <1>3, SeqElement
  <2> QED
    BY <2>1 DEF WriteTable, Ops
<1>5. rest \in Seq(Ops) /\ Len(rest) = B - P /\ \A i \in 1..(B - P) : rest[i] = WriteTable(P + i, b.table[P + i])
  <2>1. \A i \in 1..(B - P) : P + i \in 1..B
    BY <1>1
  <2>2. rest \in [1..(B - P) -> Ops]
    BY <2>1, <1>4
  <2>3. B - P \in Nat
    BY <1>1
  <2>4. \A i \in 1..(B - P) : rest[i] = WriteTable(P + i, b.table[P + i])
    OBVIOUS
  <2> HIDE DEF rest
  <2>5. rest \in Seq(Ops) /\ Len(rest) = B - P
    BY <2>2, <2>3, FunctionIsSeq
  <2> QED
    BY <2>4, <2>5
<1> HIDE DEF rest
<1>6. Partial(l) =>
        /\ front \in Seq(Ops) /\ Len(front) = 2
        /\ front[1] = CopyTail(r.tail) /\ front[2] = WriteTable(P, b.table[P])
  <2> SUFFICES ASSUME Partial(l) PROVE front \in Seq(Ops) /\ Len(front) = 2
         /\ front[1] = CopyTail(r.tail) /\ front[2] = WriteTable(P, b.table[P])
    OBVIOUS
  <2>1. r.tail # NoTail /\ front = <<CopyTail(r.tail), WriteTable(P, b.table[P])>>
    BY <1>1
  <2>2. WriteTable(P, b.table[P]) \in Ops
    BY <1>1, <1>4
  <2>3. r.tail.original \in Bundle /\ r.tail.replacement \in Bundle /\ r.tail.fill \in Nat
    <3>1. P \in 1..Len(l.table)
      BY <1>1
    <3>2. l.table[P] \in Bundle /\ l.free[Len(l.free)] \in Bundle
      BY <3>1, <1>1, SeqElement
    <3> QED
      BY <3>2, <1>1
  <2>4. CopyTail(r.tail) \in Ops
    BY <2>3 DEF CopyTail, Ops
  <2> HIDE DEF front
  <2> QED
    BY <2>1, <2>2, <2>4
<1>7. ~Partial(l) => ops = rest
  <2>1. ~Partial(l) => front = <<>>
    BY <1>1
  <2> HIDE DEF front
  <2> QED
    BY <2>1, <1>2, <1>5
<1>12. P <= B /\ B - P \in Nat /\ (Partial(l) => P > 0)
  BY <1>1
<1> HIDE DEF front
<1>8. CASE Partial(l)
  <2>1. /\ ops \in Seq(Ops) /\ Len(ops) = Len(front) + Len(rest)
        /\ \A i \in 1..Len(front) : ops[i] = front[i]
        /\ \A i \in 1..Len(rest) : ops[Len(front) + i] = rest[i]
    <3>1. front \in Seq(Ops) /\ rest \in Seq(Ops)
      BY <1>5, <1>6, <1>8
    <3>2. /\ front \o rest \in Seq(Ops) /\ Len(front \o rest) = Len(front) + Len(rest)
          /\ \A i \in 1..Len(front) : (front \o rest)[i] = front[i]
          /\ \A i \in 1..Len(rest) : (front \o rest)[Len(front) + i] = rest[i]
      BY <3>1, Joined
    <3> QED
      BY <3>2, <1>2
  <2>2. /\ Len(ops) = 2 + (B - P)
        /\ ops[1] = CopyTail(r.tail) /\ ops[2] = WriteTable(P, b.table[P])
        /\ \A i \in 1..(B - P) : ops[2 + i] = WriteTable(P + i, b.table[P + i])
    <3>1. Len(front) = 2 /\ 1 \in 1..2 /\ 2 \in 1..2
      BY <1>6, <1>8
    <3>2. ops[1] = front[1] /\ ops[2] = front[2]
      BY <2>1, <3>1
    <3>3. \A i \in 1..(B - P) : ops[2 + i] = rest[i]
      BY <2>1, <3>1, <1>5
    <3> QED
      BY <2>1, <3>1, <3>2, <3>3, <1>5, <1>6, <1>8
  <2>3. \A i \in Int : Entry(l, i) = P + i - 2
    BY <1>8, <1>10 DEF Entry
  <2>4. Len(ops) \in Nat /\ Len(ops) > 1 /\ P + Len(ops) - 2 = B /\ Len(ops) \in Int
    BY <2>2, <1>12
  <2>5. ASSUME NEW i \in 1..Len(ops), i # 1
        PROVE  P + i - 2 \in 1..B /\ ops[i] = WriteTable(P + i - 2, b.table[P + i - 2]) /\ i \in Int
    <3>1. i \in Int /\ i >= 2 /\ i <= 2 + (B - P) /\ P > 0 /\ P <= B
      BY <2>2, <2>4, <2>5, <1>1, <1>8
    <3>2. CASE i = 2
      <4>1. P + i - 2 = P
        BY <3>2
      <4> QED
        BY <2>2, <3>1, <3>2, <4>1
    <3>3. CASE i # 2
      <4>1. /\ i - 2 \in 1..(B - P) /\ 2 + (i - 2) = i
            /\ P + (i - 2) = P + i - 2 /\ P + i - 2 \in 1..B
        BY <3>1, <3>3
      <4>2. ops[2 + (i - 2)] = WriteTable(P + (i - 2), b.table[P + (i - 2)])
        BY <2>2, <4>1
      <4> QED
        BY <4>1, <4>2, <3>1
    <3> QED
      BY <3>2, <3>3
  <2>6. Entry(l, Len(ops)) = B
    BY <2>3, <2>4
  <2>7. \A i \in 1..Len(ops) : i # 1 =>
          Entry(l, i) \in 1..B /\ ops[i] = WriteTable(Entry(l, i), b.table[Entry(l, i)])
    BY <2>3, <2>5
  <2> QED
    BY <1>1, <1>8, <2>1, <2>2, <2>4, <2>6, <2>7 DEF r, b, ops
<1>9. CASE ~Partial(l)
  <2>1. /\ ops \in Seq(Ops) /\ Len(ops) = B - P /\ Len(ops) \in Nat
        /\ \A i \in 1..Len(ops) : ops[i] = WriteTable(P + i, b.table[P + i])
    BY <1>1, <1>5, <1>7, <1>9
  <2>2. \A i \in Int : Entry(l, i) = P + i
    BY <1>9, <1>10 DEF Entry
  <2>3. Entry(l, Len(ops)) = B
    <3>1. Len(ops) \in Int /\ P + Len(ops) = B
      BY <2>1, <1>1
    <3> QED
      BY <2>2, <3>1
  <2>4. \A i \in 1..Len(ops) : i \in Int /\ P + i \in 1..B
    BY <2>1, <1>1
  <2>5. \A i \in 1..Len(ops) :
          Entry(l, i) \in 1..B /\ ops[i] = WriteTable(Entry(l, i), b.table[Entry(l, i)])
    BY <2>1, <2>2, <2>4
  <2> QED
    BY <1>1, <1>9, <2>1, <2>3, <2>5 DEF r, b, ops
<1> QED
  BY <1>8, <1>9

(* Entry by cases, with numbers a solver can add. *)
LEMMA EntryIs ==
  ASSUME NEW l, Len(l.table) \in Nat, NEW k \in Nat
  PROVE  /\ Partial(l) => Entry(l, k) = Len(l.table) + k - 2
         /\ ~Partial(l) => Entry(l, k) = Len(l.table) + k
<1>1. CASE Partial(l)
  BY <1>1 DEF Entry
<1>2. CASE ~Partial(l)
  <2>1. Entry(l, k) = Len(l.table) + k - 0
    BY <1>2 DEF Entry
  <2> QED
    BY <1>2, <2>1
<1> QED
  BY <1>1, <1>2

(* The entries the mirror writes. *)
Fresh(l, p) == p > Len(l.table) \/ (Partial(l) /\ p = Len(l.table))

(* The rows change once, with the copy; the entries are written in order. *)
LEMMA MirrorRuns ==
  ASSUME NEW l, Idle(l), NEW n \in Nat, CanBegin(l, n), NEW d \in Device
  PROVE  LET r == Reservation(l, n)
             b == Begun(l, r)
             ops == Mirror(b, r)
         IN \A k \in 0..Len(ops) :
              /\ Runs(d, ops)[k].rows = IF k = 0 THEN d.rows ELSE TailCopied(d.rows, r.tail)
              /\ \A p \in 1..PageCount :
                   Runs(d, ops)[k].table[p] =
                     IF Fresh(l, p) /\ p <= Entry(l, k) THEN b.table[p] ELSE d.table[p]
<1> DEFINE r == Reservation(l, n)
           b == Begun(l, r)
           ops == Mirror(b, r)
           e(k) == Runs(d, ops)[k]
           copied == TailCopied(d.rows, r.tail)
           Good(k) == /\ e(k).rows = IF k = 0 THEN d.rows ELSE copied
                      /\ \A p \in 1..PageCount : e(k).table[p] =
                           IF Fresh(l, p) /\ p <= Entry(l, k) THEN b.table[p] ELSE d.table[p]
           P == {k \in 0..Len(ops) : Good(k)}
<1>1. /\ Len(l.table) \in Nat /\ Len(b.table) \in Nat /\ Len(b.table) <= PageCount
      /\ r.tail = NoTail <=> ~Partial(l)
      /\ Partial(l) => Len(l.table) > 0
  BY TailShape
<1>2. /\ ops \in Seq(Ops) /\ Len(ops) \in Nat
      /\ Partial(l) => Len(ops) > 1 /\ ops[1] = CopyTail(r.tail)
      /\ \A i \in 1..Len(ops) : ~(Partial(l) /\ i = 1) =>
           /\ Entry(l, i) \in 1..Len(b.table)
           /\ ops[i] = WriteTable(Entry(l, i), b.table[Entry(l, i)])
  BY MirrorOps
<1>3. PageCount \in Nat
  BY BundleNumbers
<1> HIDE DEF r, b, ops
<1>4. e(0) = d /\ \A k \in 1..Len(ops) : e(k) = Run(e(k - 1), ops[k])
  BY <1>2, RunsAre
<1>5. \A k \in 0..Len(ops) : e(k) \in Device
  BY <1>2, RunsAreDevices
<1> HIDE DEF e
<1>6. 0 \in P
  <2>1. ASSUME NEW p \in 1..PageCount PROVE ~(Fresh(l, p) /\ p <= Entry(l, 0))
    <3>1. CASE Partial(l)
      <4>1. Entry(l, 0) = Len(l.table) + 0 - 2
        BY <3>1, <1>1, EntryIs
      <4> QED
        BY <4>1, <1>1, <1>3 DEF Fresh
    <3>2. CASE ~Partial(l)
      <4>1. Entry(l, 0) = Len(l.table) + 0
        BY <3>2, <1>1, EntryIs
      <4> QED
        BY <4>1, <3>2, <1>1, <1>3 DEF Fresh
    <3> QED
      BY <3>1, <3>2
  <2>2. 0 \in 0..Len(ops)
    BY <1>2
  <2> QED
    BY <1>4, <2>1, <2>2
<1>7. ASSUME NEW k \in 1..Len(ops), k - 1 \in P PROVE k \in P
  <2>0. /\ k \in Nat /\ k # 0 /\ k \in 0..Len(ops) /\ k - 1 \in 0..Len(ops) /\ k - 1 \in Nat
        /\ ops[k] \in Ops
    BY <1>2, SeqElement
  <2>1. e(k) = Run(e(k - 1), ops[k]) /\ e(k - 1) \in Device /\ Good(k - 1)
    BY <1>4, <1>5, <1>7, <2>0
  <2>2. CASE Partial(l) /\ k = 1
    <3>1. ops[1] = CopyTail(r.tail) /\ r.tail # NoTail /\ ops[1] \in Ops
      BY <1>1, <1>2, <2>0, <2>2
    <3>2. e(0) = d /\ e(1) = Run(d, ops[1])
      BY <1>4, <2>1, <2>2
    <3>3. /\ e(1).table = d.table
          /\ e(1).rows = [d.rows EXCEPT ![ops[1].to] = [x \in Layer |-> [w \in Slots |->
               IF w < ops[1].fill THEN d.rows[ops[1].from][x][w] ELSE d.rows[ops[1].to][x][w]]]]
      <4>1. ops[1].kind = "copy"
        BY <3>1 DEF CopyTail
      <4> DEFINE o == ops[1]
      <4>2. o \in Ops /\ o.kind = "copy" /\ e(1) = Run(d, o)
        BY <3>1, <3>2, <4>1
      <4> HIDE DEF o
      <4>3. /\ Run(d, o).table = d.table
            /\ Run(d, o).rows = [d.rows EXCEPT ![o.to] = [x \in Layer |-> [w \in Slots |->
                 IF w < o.fill THEN d.rows[o.from][x][w] ELSE d.rows[o.to][x][w]]]]
        BY <4>2, RunChanges
      <4> QED
        BY <4>2, <4>3 DEF o
    <3>4. e(1).rows = copied
      <4>1. /\ ops[1].to = r.tail.replacement /\ ops[1].from = r.tail.original
            /\ ops[1].fill = r.tail.fill
        BY <3>1 DEF CopyTail
      <4> QED
        BY <3>1, <3>3, <4>1 DEF TailCopied
    <3>5. ASSUME NEW p \in 1..PageCount PROVE ~(Fresh(l, p) /\ p <= Entry(l, 1))
      <4>1. Entry(l, 1) = Len(l.table) + 1 - 2
        BY <2>2, <1>1, EntryIs
      <4> QED
        BY <4>1, <1>1, <1>3 DEF Fresh
    <3> HIDE DEF copied
    <3> QED
      BY <2>0, <2>2, <3>3, <3>4, <3>5
  <2>3. CASE ~(Partial(l) /\ k = 1)
    <3> DEFINE E == Entry(l, k)
    <3>1. E \in 1..Len(b.table) /\ ops[k] = WriteTable(E, b.table[E])
      BY <1>2, <2>3
    <3>2. Entry(l, k - 1) = E - 1 /\ E \in 1..PageCount /\ E \in Nat
      <4>0. E \in 1..PageCount /\ E \in Nat
        <5> HIDE DEF E
        <5> QED
          BY <1>1, <1>3, <3>1
      <4>1. CASE Partial(l)
        <5>1. E = Len(l.table) + k - 2 /\ Entry(l, k - 1) = Len(l.table) + (k - 1) - 2
          BY <4>1, <2>0, <1>1, EntryIs
        <5>2. Len(l.table) \in Nat /\ k \in Nat
          BY <1>1, <2>0
        <5> HIDE DEF E
        <5> QED
          BY <4>0, <5>1, <5>2
      <4>2. CASE ~Partial(l)
        <5>1. E = Len(l.table) + k /\ Entry(l, k - 1) = Len(l.table) + (k - 1)
          BY <4>2, <2>0, <1>1, EntryIs
        <5>2. Len(l.table) \in Nat /\ k \in Nat
          BY <1>1, <2>0
        <5> HIDE DEF E
        <5> QED
          BY <4>0, <5>1, <5>2
      <4> QED
        BY <4>1, <4>2
    <3>3. Fresh(l, E)
      <4>1. CASE Partial(l)
        <5>1. E = Len(l.table) + k - 2 /\ k >= 2
          BY <4>1, <2>0, <2>3, <1>1, EntryIs
        <5>2. E >= Len(l.table)
          BY <5>1, <1>1, <2>0
        <5> QED
          BY <4>1, <5>2, <1>1, <3>2 DEF Fresh
      <4>2. CASE ~Partial(l)
        <5>1. E = Len(l.table) + k
          BY <4>2, <2>0, <1>1, EntryIs
        <5>2. E > Len(l.table)
          BY <5>1, <1>1, <2>0
        <5> QED
          BY <5>2 DEF Fresh
      <4> QED
        BY <4>1, <4>2
    <3>4. e(k).rows = e(k - 1).rows /\ e(k).table = [e(k - 1).table EXCEPT ![E] = b.table[E]]
      <4>1. ops[k].kind = "table" /\ ops[k].page = E /\ ops[k].bundle = b.table[E]
        BY <3>1 DEF WriteTable
      <4>2. /\ Run(e(k - 1), ops[k]).rows = e(k - 1).rows
            /\ Run(e(k - 1), ops[k]).table = [e(k - 1).table EXCEPT ![ops[k].page] = ops[k].bundle]
        BY <2>0, <2>1, <4>1, RunChanges
      <4> QED
        BY <2>1, <4>1, <4>2
    <3>5. e(k).rows = copied
      <4>1. CASE k = 1
        <5>1. e(0) = d /\ ~Partial(l)
          BY <1>4, <2>3, <4>1
        <5> QED
          BY <5>1, <4>1, <1>1, <3>4 DEF TailCopied
      <4>2. CASE k # 1
        <5>1. k - 1 # 0
          BY <2>0, <4>2
        <5> HIDE DEF copied
        <5> QED
          BY <5>1, <2>1, <3>4
      <4> QED
        BY <4>1, <4>2
    <3>6. ASSUME NEW p \in 1..PageCount
          PROVE  e(k).table[p] =
                   IF Fresh(l, p) /\ p <= Entry(l, k) THEN b.table[p] ELSE d.table[p]
      <4>1. e(k - 1).table[p] =
              IF Fresh(l, p) /\ p <= E - 1 THEN b.table[p] ELSE d.table[p]
        BY <2>1, <3>2
      <4>2. e(k - 1).table \in [1..PageCount -> Bundle \cup {Junk}]
        BY <2>1 DEF Device
      <4>3. CASE p = E
        <5>1. e(k).table[E] = b.table[E]
          BY <4>2, <3>2, <3>4
        <5>2. E <= E
          BY <3>2
        <5> HIDE DEF E
        <5>3. Fresh(l, p) /\ p <= E
          BY <4>3, <3>3, <5>2
        <5> QED
          BY <4>3, <5>1, <5>3 DEF E
      <4>4. CASE p # E
        <5>1. p <= E <=> p <= E - 1
          BY <4>4, <3>2, <1>3
        <5>2. e(k).table[p] = e(k - 1).table[p]
          BY <4>2, <4>4, <3>4
        <5> QED
          BY <4>1, <5>1, <5>2
      <4> QED
        BY <4>3, <4>4
    <3> HIDE DEF copied
    <3> QED
      BY <2>0, <3>5, <3>6
  <2> QED
    BY <2>2, <2>3
<1>8. \A k \in 0..Len(ops) : k \in P
  <2> HIDE DEF P
  <2> QED
    BY <1>2, <1>6, <1>7, UpTo
<1> QED
  BY <1>8 DEF e, r, b, ops

(* Once all of the mirror has run, the device has the rows and the table   *)
(* the host takes it to have.                                              *)
Mirrors(l, d) == \A p \in 1..Len(l.table) : d.table[p] = l.table[p]

LEMMA MirrorSettles ==
  ASSUME NEW l, Idle(l), NEW n \in Nat, CanBegin(l, n), NEW d \in Device
  PROVE  LET r == Reservation(l, n)
             b == Begun(l, r)
             ops == Mirror(b, r)
             e == Runs(d, ops)[Len(ops)]
         IN /\ e.rows = TailCopied(d.rows, r.tail)
            /\ Mirrors(l, d) => Mirrors(b, e)
<1> DEFINE r == Reservation(l, n)
           b == Begun(l, r)
           ops == Mirror(b, r)
           e == Runs(d, ops)[Len(ops)]
<1>1. /\ Len(l.table) \in Nat /\ Len(b.table) \in Nat /\ Len(b.table) <= PageCount
      /\ r.tail = NoTail <=> ~Partial(l)
      /\ \A p \in 1..Len(l.table) : ~Partial(l) \/ p < Len(l.table) => b.table[p] = l.table[p]
  BY TailShape
<1>2. /\ Len(ops) \in Nat /\ Entry(l, Len(ops)) = Len(b.table)
      /\ Partial(l) => Len(ops) > 1
  BY MirrorOps
<1>3. /\ e.rows = IF Len(ops) = 0 THEN d.rows ELSE TailCopied(d.rows, r.tail)
      /\ \A p \in 1..PageCount : e.table[p] =
           IF Fresh(l, p) /\ p <= Entry(l, Len(ops)) THEN b.table[p] ELSE d.table[p]
  <2>1. Len(ops) \in 0..Len(ops)
    BY <1>2
  <2> QED
    BY <2>1, MirrorRuns
<1>4. PageCount \in Nat
  BY BundleNumbers
<1> HIDE DEF r, b, ops, e
<1>5. e.rows = TailCopied(d.rows, r.tail)
  <2>1. CASE Partial(l)
    BY <2>1, <1>2, <1>3
  <2>2. CASE ~Partial(l)
    BY <2>2, <1>1, <1>3 DEF TailCopied
  <2> QED
    BY <2>1, <2>2
<1>6. ASSUME Mirrors(l, d), NEW p \in 1..Len(b.table) PROVE e.table[p] = b.table[p]
  <2>1. p \in 1..PageCount /\ p <= Entry(l, Len(ops))
    BY <1>1, <1>2, <1>4
  <2>2. CASE Fresh(l, p)
    BY <2>1, <2>2, <1>3
  <2>3. CASE ~Fresh(l, p)
    <3>1. p \in 1..Len(l.table) /\ (~Partial(l) \/ p < Len(l.table))
      BY <2>3, <1>1 DEF Fresh
    <3> QED
      BY <3>1, <2>1, <2>3, <1>1, <1>3, <1>6 DEF Mirrors
  <2> QED
    BY <2>2, <2>3
<1> QED
  BY <1>5, <1>6 DEF Mirrors, r, b, ops, e

(* The mirror writes rows only into the bundle that replaces the tail, and *)
(* no page has that one. *)
LEMMA MirrorIsQuiet ==
  ASSUME NEW l, Idle(l), Whole(l), NEW n \in Nat, CanBegin(l, n)
  PROVE  LET r == Reservation(l, n)
             ops == Mirror(Begun(l, r), r)
         IN \A i \in 1..Len(ops) :
              /\ ops[i].kind # "read"
              /\ \A p \in 1..Len(l.table) : l.table[p] \notin Targets(ops[i])
<1> DEFINE r == Reservation(l, n)
           b == Begun(l, r)
           ops == Mirror(b, r)
<1>1. Partial(l) => /\ r.tail.replacement = l.free[Len(l.free)]
                    /\ Len(l.free) \in 1..Len(l.free)
  BY TailShape
<1>2. /\ Partial(l) => ops[1] = CopyTail(r.tail)
      /\ \A i \in 1..Len(ops) : ~(Partial(l) /\ i = 1) =>
           ops[i] = WriteTable(Entry(l, i), b.table[Entry(l, i)])
  BY MirrorOps
<1> HIDE DEF r, b, ops
<1> SUFFICES ASSUME NEW i \in 1..Len(ops)
             PROVE  /\ ops[i].kind # "read"
                    /\ \A p \in 1..Len(l.table) : l.table[p] \notin Targets(ops[i])
  BY DEF r, b, ops
<1>3. CASE Partial(l) /\ i = 1
  <2>1. ops[i].kind = "copy" /\ ops[i].to = l.free[Len(l.free)]
    BY <1>1, <1>2, <1>3 DEF CopyTail
  <2>2. Targets(ops[i]) = {l.free[Len(l.free)]}
    BY <2>1 DEF Targets
  <2>3. \A p \in 1..Len(l.table) : l.table[p] # l.free[Len(l.free)]
    BY <1>1, <1>3 DEF Whole
  <2> QED
    BY <2>1, <2>2, <2>3
<1>4. CASE ~(Partial(l) /\ i = 1)
  <2>1. ops[i].kind = "table"
    <3>1. ops[i] = WriteTable(Entry(l, i), b.table[Entry(l, i)])
      BY <1>2, <1>4
    <3> QED
      BY <3>1 DEF WriteTable
  <2>2. Targets(ops[i]) = {}
    BY <2>1 DEF Targets
  <2> QED
    BY <2>1, <2>2
<1> QED
  BY <1>3, <1>4

------------------------------------------------------------------------------
(* The stream behind a ledger l that was published: what is on it spares   *)
(* the pages of l, and every read will find its rows when its turn comes.  *)
Finds(d, op) ==
  \A i \in DOMAIN op.rows :
    LET bundle == d.table[PageOf(i - 1)]
    IN bundle # Junk /\ d.rows[bundle][op.layer][Within(i - 1)] = op.rows[i]

Spares(op, l) == \A p \in 1..Len(l.table) : l.table[p] \notin Targets(op)

Stream(q, d, l) ==
  /\ d \in Device /\ q \in Seq(Ops)
  /\ \A i \in 1..Len(q) : Spares(q[i], l)
  /\ \A i \in 1..Len(q) : q[i].kind = "read" => Finds(Runs(d, q)[i - 1], q[i])

(* A stream that has run leaves a device. *)
LEMMA StreamSettles ==
  ASSUME NEW q, NEW d, NEW l, Stream(q, d, l)
  PROVE  Runs(d, q)[Len(q)] \in Device
<1>1. d \in Device /\ q \in Seq(Ops) /\ Len(q) \in Nat
  BY DEF Stream
<1>2. Len(q) \in 0..Len(q)
  BY <1>1
<1> QED
  BY <1>1, <1>2, RunsAreDevices

(* An empty stream spares any ledger and leaves the device as it is. *)
LEMMA StreamEmpty ==
  ASSUME NEW d \in Device, NEW l
  PROVE  Stream(<<>>, d, l) /\ Runs(d, <<>>)[Len(<<>>)] = d
<1>1. <<>> \in Seq(Ops) /\ Len(<<>>) = 0
  OBVIOUS
<1>2. Runs(d, <<>>)[0] = d
  BY <1>1, RunsAre
<1> QED
  BY <1>1, <1>2 DEF Stream

(* More operations behind the stream. *)
LEMMA SubmitMany ==
  ASSUME NEW q, NEW d, NEW l, Stream(q, d, l), NEW ops \in Seq(Ops),
         \A i \in 1..Len(ops) : ops[i].kind # "read" /\ Spares(ops[i], l)
  PROVE  /\ Stream(q \o ops, d, l)
         /\ Runs(d, q \o ops)[Len(q \o ops)] = Runs(Runs(d, q)[Len(q)], ops)[Len(ops)]
<1> DEFINE u == q \o ops
<1>1. d \in Device /\ q \in Seq(Ops) /\ Len(q) \in Nat /\ Len(ops) \in Nat
  BY DEF Stream
<1>2. /\ u \in Seq(Ops) /\ Len(u) = Len(q) + Len(ops)
      /\ \A i \in 1..Len(q) : u[i] = q[i]
      /\ \A i \in 1..Len(ops) : u[Len(q) + i] = ops[i]
  BY <1>1, Joined
<1>3. Runs(d, u)[Len(u)] = Runs(Runs(d, q)[Len(q)], ops)[Len(ops)]
  BY <1>1, RunsOfBoth
<1> HIDE DEF u
<1>4. \A k \in 0..Len(q) : Runs(d, u)[k] = Runs(d, q)[k]
  <2>1. Len(q) <= Len(u)
    BY <1>1, <1>2
  <2> QED
    BY <1>1, <1>2, <2>1, RunsOfMore
<1>5. ASSUME NEW i \in 1..Len(u)
      PROVE  /\ Spares(u[i], l)
             /\ u[i].kind = "read" => Finds(Runs(d, u)[i - 1], u[i])
  <2>1. CASE i <= Len(q)
    <3>1. i \in 1..Len(q) /\ i - 1 \in 0..Len(q) /\ u[i] = q[i]
      BY <2>1, <1>1, <1>2
    <3> QED
      BY <3>1, <1>4 DEF Stream
  <2>2. CASE ~(i <= Len(q))
    <3>1. i - Len(q) \in 1..Len(ops) /\ Len(q) + (i - Len(q)) = i
      BY <2>2, <1>1, <1>2
    <3>2. u[i] = ops[i - Len(q)]
      BY <3>1, <1>2
    <3> QED
      BY <3>1, <3>2
  <2> QED
    BY <2>1, <2>2
<1>6. Stream(u, d, l)
  BY <1>1, <1>2, <1>5 DEF Stream
<1> QED
  BY <1>3, <1>6 DEF u

(* One more, which may be a read of what the stream will leave. *)
LEMMA SubmitOne ==
  ASSUME NEW q, NEW d, NEW l, Stream(q, d, l), NEW op \in Ops, Spares(op, l),
         op.kind = "read" => Finds(Runs(d, q)[Len(q)], op)
  PROVE  /\ Stream(Append(q, op), d, l)
         /\ Runs(d, Append(q, op))[Len(Append(q, op))] = Run(Runs(d, q)[Len(q)], op)
<1> DEFINE u == Append(q, op)
<1>1. d \in Device /\ q \in Seq(Ops) /\ Len(q) \in Nat
  BY DEF Stream
<1>2. /\ u \in Seq(Ops) /\ Len(u) = Len(q) + 1
      /\ Runs(d, u)[Len(q) + 1] = Run(Runs(d, q)[Len(q)], op)
      /\ \A k \in 0..Len(q) : Runs(d, u)[k] = Runs(d, q)[k]
  BY <1>1, RunsOfOne
<1>3. /\ \A i \in 1..Len(q) : u[i] = q[i]
      /\ u[Len(q) + 1] = op
  BY <1>1
<1> HIDE DEF u
<1>4. ASSUME NEW i \in 1..Len(u)
      PROVE  /\ Spares(u[i], l)
             /\ u[i].kind = "read" => Finds(Runs(d, u)[i - 1], u[i])
  <2>1. CASE i <= Len(q)
    <3>1. i \in 1..Len(q) /\ i - 1 \in 0..Len(q) /\ u[i] = q[i]
      BY <2>1, <1>1, <1>2, <1>3
    <3> QED
      BY <3>1, <1>2 DEF Stream
  <2>2. CASE ~(i <= Len(q))
    <3>1. i = Len(q) + 1 /\ i - 1 = Len(q) /\ Len(q) \in 0..Len(q)
      BY <2>2, <1>1, <1>2
    <3>2. u[i] = op /\ Runs(d, u)[i - 1] = Runs(d, q)[Len(q)]
      BY <3>1, <1>2, <1>3
    <3> QED
      BY <3>2
  <2> QED
    BY <2>1, <2>2
<1>5. Stream(u, d, l)
  BY <1>1, <1>2, <1>4 DEF Stream
<1> QED
  BY <1>2, <1>5 DEF u

(* The first operation runs. *)
LEMMA ExecuteKeeps ==
  ASSUME NEW q, NEW d, NEW l, Stream(q, d, l), q # <<>>
  PROVE  /\ Stream(Tail(q), Run(d, Head(q)), l)
         /\ Runs(Run(d, Head(q)), Tail(q))[Len(Tail(q))] = Runs(d, q)[Len(q)]
<1> DEFINE t == Tail(q)
           e == Run(d, Head(q))
<1>1. /\ d \in Device /\ q \in Seq(Ops) /\ t \in Seq(Ops)
      /\ Len(q) \in Nat /\ Len(t) \in Nat /\ Len(q) = Len(t) + 1
      /\ Head(q) \in Ops /\ \A i \in 1..Len(t) : t[i] = q[i + 1]
  BY DEF Stream
<1>2. \A k \in 0..Len(t) : Runs(e, t)[k] = Runs(d, q)[k + 1]
  BY <1>1, RunsOfTail
<1>3. e \in Device
  BY <1>1, RunChanges
<1> HIDE DEF t, e
<1>4. ASSUME NEW i \in 1..Len(t)
      PROVE  /\ Spares(t[i], l)
             /\ t[i].kind = "read" => Finds(Runs(e, t)[i - 1], t[i])
  <2>1. i + 1 \in 1..Len(q) /\ t[i] = q[i + 1] /\ i - 1 \in 0..Len(t)
        /\ (i - 1) + 1 = i /\ (i + 1) - 1 = i
    BY <1>1
  <2>2. Runs(e, t)[i - 1] = Runs(d, q)[(i + 1) - 1]
    BY <2>1, <1>2
  <2> QED
    BY <2>1, <2>2 DEF Stream
<1>5. Stream(t, e, l)
  BY <1>1, <1>3, <1>4 DEF Stream
<1>6. Len(t) \in 0..Len(t)
  BY <1>1
<1> QED
  BY <1>1, <1>2, <1>5, <1>6 DEF t, e

------------------------------------------------------------------------------
(* The invariant, of the ledger l that was published last.  The host has l *)
(* or an append on top of it; the stream spares l; and once the stream has *)
(* run, the device has the host's table unless the pool is poisoned with   *)
(* no append left, and the published rows read the same through either.    *)
Res(o, k) == IF o # NoAppend THEN o ELSE k

Host(m, o, k, l) ==
  /\ o = NoAppend \/ k = NoAppend
  /\ Idle(l) /\ Whole(l) /\ Filled(l)
  /\ Filled(m)
  /\ Res(o, k) = NoAppend => m = l
  /\ Res(o, k) # NoAppend =>
       \E n \in Nat : CanBegin(l, n) /\ Res(o, k) = Reservation(l, n) /\ Extends(m, l, n)
  /\ k # NoAppend => Complete(m, k)

Shows(m, o, k, ps, e, l) ==
  /\ ps \in BOOLEAN
  /\ Res(o, k) # NoAppend \/ ~ps => Mirrors(m, e)
  /\ \A x \in Layer : \A t \in 0..(l.committed - 1) : At(m, e.rows, x, t) = At(l, e.rows, x, t)

Inv(l) ==
  /\ Host(ledger, open, parked, l)
  /\ Stream(queue, device, l)
  /\ Shows(ledger, open, parked, poisoned, Settled, l)

(* What the host keeps is as its name says. *)
LEMMA HostIs ==
  ASSUME NEW m, NEW o, NEW k, NEW l, Host(m, o, k, l)
  PROVE  /\ l = IF Res(o, k) = NoAppend THEN m ELSE RolledBack(m, Res(o, k))
         /\ m.committed = l.committed /\ IsLedger(m)
<1>1. CASE Res(o, k) = NoAppend
  BY <1>1 DEF Host, Idle
<1>2. CASE Res(o, k) # NoAppend
  <2> PICK n \in Nat : CanBegin(l, n) /\ Res(o, k) = Reservation(l, n) /\ Extends(m, l, n)
    BY <1>2 DEF Host
  <2>1. RolledBack(m, Reservation(l, n)) = l
    BY RollBackRestores DEF Host
  <2> QED
    BY <1>2, <2>1 DEF Extends
<1> QED
  BY <1>1, <1>2

(* What the log of the pool is made of. *)
Pub(l) == PublishedRows(l, Settled.rows)
Stg == StagedRows(ledger, Settled.rows)
Room == IF Reserved = NoAppend THEN 0 ELSE Reserved.tokens
Same(l) == Pub(l)' = Pub(l) /\ Stg' = Stg /\ Room' = Room

(* begin_append submits the mirror of its reservation and opens the log. *)
LEMMA BeginKeeps ==
  ASSUME NEW l, Inv(l), NEW n \in 1..MaxContext, BeginAppend(n)
  PROVE  /\ Inv(l)'
         /\ Room = 0 /\ Room' = n
         /\ \A x \in Layer : Len(Pub(l)[x]) + n <= MaxContext
         /\ Pub(l)' = Pub(l) /\ Stg' = Stg
<1> DEFINE r == Reservation(l, n)
           b == Begun(l, r)
           ops == Mirror(b, r)
<1>1. /\ Idle(l) /\ Whole(l) /\ Filled(l) /\ CanBegin(l, n) /\ n \in Nat /\ n > 0
      /\ ledger = l /\ open = NoAppend /\ parked = NoAppend /\ poisoned = FALSE
      /\ open' = r /\ ledger' = b /\ queue' = queue \o ops
      /\ parked' = NoAppend /\ poisoned' = FALSE /\ device' = device
  <2>1. ledger = l
    BY DEF BeginAppend, Usable, Inv, Host, Res
  <2> QED
    BY <2>1, PageAssumption DEF BeginAppend, Usable, Inv, Host, Shows
<1>2. Stream(queue, device, l) /\ Mirrors(l, Settled)
  BY <1>1 DEF Inv, Shows
<1>3. Settled \in Device /\ Settled.rows \in Storage(Cell)
  BY <1>2, StreamSettles DEF Settled, Device
<1>4. ops \in Seq(Ops) /\ \A i \in 1..Len(ops) : ops[i].kind # "read" /\ Spares(ops[i], l)
  <2>1. ops \in Seq(Ops)
    BY <1>1, MirrorOps
  <2> QED
    BY <2>1, <1>1, MirrorIsQuiet DEF Spares
<1>5. r \in Reservations /\ r # NoAppend /\ r.tokens = n
  <2>1. r \in Reservations
    BY <1>1, ReservationIsRecord
  <2> QED
    BY <2>1, NoAppendAssumption DEF Reservations, Reservation
<1>6. Extends(b, l, n) /\ Filled(b)
  BY <1>1, BeginExtends, BeginKeepsFilled
<1>7. /\ Runs(Settled, ops)[Len(ops)].rows = TailCopied(Settled.rows, r.tail)
      /\ Mirrors(b, Runs(Settled, ops)[Len(ops)])
  BY <1>1, <1>2, <1>3, MirrorSettles
<1>8. /\ \A x \in Layer : \A t \in 0..(l.committed - 1) :
           At(b, TailCopied(Settled.rows, r.tail), x, t)
             = At(l, TailCopied(Settled.rows, r.tail), x, t)
      /\ PublishedRows(l, TailCopied(Settled.rows, r.tail)) = PublishedRows(l, Settled.rows)
      /\ StagedRows(b, TailCopied(Settled.rows, r.tail)) = [x \in Layer |-> <<>>]
  BY <1>1, <1>3, BeginShowsSame
<1> HIDE DEF r, b, ops
<1>9. /\ Stream(queue', device', l)
      /\ Settled' = Runs(Settled, ops)[Len(ops)]
  BY <1>1, <1>2, <1>4, SubmitMany DEF Settled
<1>10. Settled'.rows = TailCopied(Settled.rows, r.tail) /\ Mirrors(b, Settled')
  BY <1>7, <1>9
<1>11. StagedRows(l, Settled.rows) = [x \in Layer |-> <<>>]
  BY <1>1, NothingStaged DEF Idle
<1>12. Inv(l)'
  <2>1. Host(ledger', open', parked', l)
    <3>1. Res(open', parked') = r
      BY <1>1, <1>5 DEF Res
    <3>2. CanBegin(l, n) /\ Res(open', parked') = Reservation(l, n) /\ Extends(ledger', l, n)
      BY <1>1, <1>6, <3>1 DEF r
    <3> QED
      BY <1>1, <1>5, <1>6, <3>1, <3>2 DEF Host
  <2>2. Shows(ledger', open', parked', poisoned', Settled', l)
    BY <1>1, <1>8, <1>10 DEF Shows
  <2> QED
    BY <2>1, <2>2, <1>9 DEF Inv
<1>13. ASSUME NEW x \in Layer PROVE Len(Pub(l)[x]) + n <= MaxContext
  <2>1. IsLedger(l)
    BY <1>1 DEF Idle
  <2>2. Len(PublishedRows(l, Settled.rows)[x]) = l.committed
    BY <2>1, <1>1, <1>3, RowsAreSeqs
  <2> QED
    BY <2>2, <1>1 DEF CanBegin, Pub
<1>14. Pub(l)' = Pub(l) /\ Stg' = Stg
  BY <1>1, <1>8, <1>10, <1>11 DEF Pub, Stg
<1>15. Room = 0 /\ Room' = n
  BY <1>1, <1>5 DEF Room, Reserved
<1> QED
  BY <1>12, <1>13, <1>14, <1>15

(* begin_append whose submissions stop after the first k: the host has     *)
(* rolled back to l, and whatever ran of the copy shows in no row of l.    *)
LEMMA BeginFailsKeeps ==
  ASSUME NEW l, Inv(l), NEW n \in 1..MaxContext, BeginFails(n)
  PROVE  Inv(l)' /\ Same(l)
<1> DEFINE r == Reservation(l, n)
           b == Begun(l, r)
           ops == Mirror(b, r)
<1>1. /\ Idle(l) /\ Whole(l) /\ Filled(l) /\ CanBegin(l, n) /\ n \in Nat
      /\ ledger = l /\ open = NoAppend /\ parked = NoAppend
      /\ open' = NoAppend /\ ledger' = RolledBack(b, r)
      /\ \E k \in 0..Len(ops) : queue' = queue \o SubSeq(ops, 1, k)
      /\ parked' = NoAppend /\ poisoned' = TRUE /\ device' = device
  <2>1. ledger = l
    BY DEF BeginFails, Usable, Inv, Host, Res
  <2> QED
    BY <2>1, PageAssumption DEF BeginFails, Usable, Inv, Host
<1>2. ledger' = l
  <2>1. Extends(b, l, n)
    BY <1>1, BeginExtends
  <2>2. RolledBack(b, Reservation(l, n)) = l
    BY <2>1, <1>1, RollBackRestores
  <2> QED
    BY <2>2, <1>1
<1>3. Stream(queue, device, l)
  BY DEF Inv
<1>4. Settled \in Device /\ Settled.rows \in Storage(Cell)
  BY <1>3, StreamSettles DEF Settled, Device
<1>5. /\ ops \in Seq(Ops) /\ Len(ops) \in Nat
      /\ \A i \in 1..Len(ops) : ops[i].kind # "read" /\ Spares(ops[i], l)
  <2>1. ops \in Seq(Ops) /\ Len(ops) \in Nat
    BY <1>1, MirrorOps
  <2> QED
    BY <2>1, <1>1, MirrorIsQuiet DEF Spares
<1>6. \A k \in 0..Len(ops) :
        Runs(Settled, ops)[k].rows = IF k = 0 THEN Settled.rows ELSE TailCopied(Settled.rows, r.tail)
  BY <1>1, <1>4, MirrorRuns
<1>7. PublishedRows(l, TailCopied(Settled.rows, r.tail)) = PublishedRows(l, Settled.rows)
  BY <1>1, <1>4, BeginShowsSame
<1> HIDE DEF r, b, ops
<1> PICK k \in 0..Len(ops) : queue' = queue \o SubSeq(ops, 1, k)
  BY <1>1
<1> DEFINE some == SubSeq(ops, 1, k)
<1>8. some \in Seq(Ops) /\ Len(some) = k /\ k \in Nat /\ k <= Len(ops)
      /\ \A i \in 1..k : some[i] = ops[i]
  BY <1>5
<1> HIDE DEF some
<1>9. \A i \in 1..Len(some) : some[i].kind # "read" /\ Spares(some[i], l)
  <2>1. \A i \in 1..k : i \in 1..Len(ops)
    BY <1>5, <1>8
  <2> QED
    BY <2>1, <1>5, <1>8
<1>10. /\ Stream(queue', device', l)
       /\ Settled' = Runs(Settled, some)[k]
  <2>1. queue' = queue \o some /\ device' = device
    BY <1>1 DEF some
  <2>2. /\ Stream(queue \o some, device, l)
        /\ Runs(device, queue \o some)[Len(queue \o some)] = Runs(Settled, some)[Len(some)]
    BY <1>3, <1>8, <1>9, SubmitMany DEF Settled
  <2> QED
    BY <2>1, <2>2, <1>8 DEF Settled
<1>11. Settled' = Runs(Settled, ops)[k]
  <2>1. k \in 0..Len(some)
    BY <1>8
  <2>2. \A j \in 0..Len(some) : Runs(Settled, ops)[j] = Runs(Settled, some)[j]
    <3>1. /\ some \in Seq(Ops) /\ ops \in Seq(Ops) /\ Len(some) <= Len(ops)
          /\ \A i \in 1..Len(some) : ops[i] = some[i]
      BY <1>5, <1>8
    <3> QED
      BY <3>1, RunsOfMore
  <2> QED
    BY <2>1, <2>2, <1>10
<1>12. Settled'.rows = Settled.rows \/ Settled'.rows = TailCopied(Settled.rows, r.tail)
  BY <1>6, <1>11
<1>13. PublishedRows(l, Settled'.rows) = PublishedRows(l, Settled.rows)
  BY <1>7, <1>12
<1>14. /\ StagedRows(l, Settled.rows) = [x \in Layer |-> <<>>]
       /\ StagedRows(l, Settled'.rows) = [x \in Layer |-> <<>>]
  <2>1. l.staged = [x \in Layer |-> 0]
    BY <1>1 DEF Idle
  <2> QED
    BY <2>1, NothingStaged
<1>15. Inv(l)'
  <2>1. Host(ledger', open', parked', l)
    BY <1>1, <1>2 DEF Host, Res
  <2>2. Shows(ledger', open', parked', poisoned', Settled', l)
    BY <1>1, <1>2 DEF Shows, Res
  <2> QED
    BY <2>1, <2>2, <1>10 DEF Inv
<1>16. Pub(l)' = Pub(l) /\ Stg' = Stg
  BY <1>1, <1>2, <1>13, <1>14 DEF Pub, Stg
<1>17. Room' = Room
  BY <1>1 DEF Room, Reserved
<1> QED
  BY <1>15, <1>16, <1>17 DEF Same

(* A row behind the stream, for an append that has room for it. *)
LEMMA RowKeeps ==
  ASSUME NEW l, Inv(l), open # NoAppend, NEW x \in Layer, NEW v \in Row, CanWrite(ledger, open, x),
         NEW n \in Nat, CanBegin(l, n), open = Reservation(l, n), Extends(ledger, l, n)
  PROVE  LET at == Location(ledger, open, x)
             op == AppendRow(x, at, v)
             u == Append(queue, op)
             e == Runs(device, u)[Len(u)]
         IN /\ Stream(u, device, l)
            /\ e.table = Settled.table
            /\ e.rows = Written(Settled.rows, at, x, v)
            /\ Settled.rows \in Storage(Cell) /\ v \in Cell
<1> DEFINE at == Location(ledger, open, x)
           op == AppendRow(x, at, v)
           u == Append(queue, op)
           e == Runs(device, u)[Len(u)]
<1>1. Idle(l) /\ Whole(l) /\ Stream(queue, device, l)
  BY DEF Inv, Host
<1>2. Settled \in Device /\ Settled.rows \in Storage(Cell)
  BY <1>1, StreamSettles DEF Settled, Device
<1>3. at.bundle \in Bundle /\ at.within \in Slots
  BY <1>1, WriteExtends DEF Slots
<1>4. \A p \in 1..Len(l.table) : l.table[p] # at.bundle
  BY <1>1, WriteMissesPages
<1> HIDE DEF at
<1>5. /\ op \in Ops /\ op.kind = "row" /\ op.bundle = at.bundle /\ op.layer = x
      /\ op.within = at.within /\ op.row = v
  BY <1>3 DEF AppendRow, Ops
<1> HIDE DEF op
<1>6. Spares(op, l)
  <2>1. Targets(op) = {at.bundle}
    BY <1>5 DEF Targets
  <2> QED
    BY <2>1, <1>4 DEF Spares
<1>7. Stream(u, device, l) /\ e = Run(Settled, op)
  <2>1. op.kind # "read"
    BY <1>5
  <2> QED
    BY <2>1, <1>1, <1>5, <1>6, SubmitOne DEF Settled
<1>8. /\ Run(Settled, op).table = Settled.table
      /\ Run(Settled, op).rows = [Settled.rows EXCEPT ![op.bundle][op.layer][op.within] = op.row]
  BY <1>2, <1>5, RunChanges
<1>9. Run(Settled, op).rows = Written(Settled.rows, at, x, v)
  BY <1>5, <1>8 DEF Written
<1> HIDE DEF u, e
<1> QED
  BY <1>2, <1>7, <1>8, <1>9 DEF at, op, u, e, Cell

(* What an append with a live reservation stands on. *)
LEMMA OpenAppend ==
  ASSUME NEW l, Inv(l), open # NoAppend
  PROVE  /\ Idle(l) /\ Whole(l) /\ Filled(l) /\ Filled(ledger) /\ parked = NoAppend
         /\ Reserved = open /\ Mirrors(ledger, Settled)
         /\ \E n \in Nat : CanBegin(l, n) /\ open = Reservation(l, n) /\ Extends(ledger, l, n)
BY DEF Inv, Host, Shows, Res, Reserved

(* write_layer_row adds one row to the open append of its layer. *)
LEMMA WriteKeeps ==
  ASSUME NEW l, Inv(l), NEW x \in Layer, NEW v \in Row, WriteLayerRow(x, v)
  PROVE  /\ Inv(l)'
         /\ Len(Stg[x]) < Room
         /\ Stg' = [Stg EXCEPT ![x] = Append(@, v)]
         /\ Pub(l)' = Pub(l) /\ Room' = Room
<1> DEFINE at == Location(ledger, open, x)
<1>1. /\ open # NoAppend /\ CanWrite(ledger, open, x)
      /\ queue' = Append(queue, AppendRow(x, at, v)) /\ ledger' = Recorded(ledger, x, at)
      /\ open' = open /\ parked' = parked /\ poisoned' = poisoned /\ device' = device
  BY DEF WriteLayerRow
<1>2. /\ Idle(l) /\ Whole(l) /\ Filled(l) /\ Filled(ledger) /\ parked = NoAppend
      /\ Reserved = open /\ Mirrors(ledger, Settled)
  BY <1>1, OpenAppend
<1> PICK n \in Nat : CanBegin(l, n) /\ open = Reservation(l, n) /\ Extends(ledger, l, n)
  BY <1>1, OpenAppend
<1>3. /\ Stream(queue', device', l)
      /\ Settled'.table = Settled.table
      /\ Settled'.rows = Written(Settled.rows, at, x, v)
      /\ Settled.rows \in Storage(Cell) /\ v \in Cell
  BY <1>1, RowKeeps DEF Settled
<1>4. Extends(ledger', l, n) /\ Filled(ledger')
  BY <1>1, <1>2, WriteExtends, WriteKeepsFilled
<1>5. /\ Len(StagedRows(ledger, Settled.rows)[x]) < n
      /\ StagedRows(ledger', Settled'.rows)
           = [StagedRows(ledger, Settled.rows) EXCEPT ![x] = Append(@, v)]
      /\ PublishedRows(l, Settled'.rows) = PublishedRows(l, Settled.rows)
      /\ \A y \in Layer : \A t \in 0..(l.committed - 1) :
           /\ At(ledger', Settled'.rows, y, t) = At(ledger, Settled.rows, y, t)
           /\ At(l, Settled'.rows, y, t) = At(l, Settled.rows, y, t)
  <2> DEFINE a == Location(ledger, Reservation(l, n), x)
             d == Recorded(ledger, x, a)
             w == Written(Settled.rows, a, x, v)
  <2>0. /\ Idle(l) /\ Whole(l) /\ Filled(l) /\ CanBegin(l, n) /\ Extends(ledger, l, n)
        /\ Filled(ledger) /\ CanWrite(ledger, Reservation(l, n), x)
        /\ Settled.rows \in Storage(Cell) /\ v \in Cell
    BY <1>1, <1>2, <1>3
  <2>1. /\ Len(StagedRows(ledger, Settled.rows)[x]) < n
        /\ StagedRows(d, w) = [StagedRows(ledger, Settled.rows) EXCEPT ![x] = Append(@, v)]
        /\ PublishedRows(l, w) = PublishedRows(l, Settled.rows)
        /\ \A y \in Layer : \A t \in 0..(l.committed - 1) :
             /\ At(d, w, y, t) = At(ledger, Settled.rows, y, t)
             /\ At(l, w, y, t) = At(l, Settled.rows, y, t)
    <3>1. /\ Len(StagedRows(ledger, Settled.rows)[x]) < n
          /\ StagedRows(d, w) = [StagedRows(ledger, Settled.rows) EXCEPT ![x] = Append(@, v)]
          /\ StagedRows(ledger, w) = StagedRows(ledger, Settled.rows)
          /\ PublishedRows(d, w) = PublishedRows(ledger, Settled.rows)
          /\ PublishedRows(l, w) = PublishedRows(l, Settled.rows)
          /\ \A y \in Layer : \A t \in 0..(l.committed - 1) :
               /\ At(d, w, y, t) = At(ledger, Settled.rows, y, t)
               /\ At(ledger, w, y, t) = At(ledger, Settled.rows, y, t)
               /\ At(l, w, y, t) = At(l, Settled.rows, y, t)
          /\ w \in Storage(Cell)
      BY <2>0, WriteShowsRow
    <3> HIDE DEF d, w
    <3> QED
      BY <3>1
  <2>2. d = ledger' /\ w = Settled'.rows
    BY <1>1, <1>3
  <2> HIDE DEF d, w
  <2> QED
    BY <2>1, <2>2
<1>6. ledger'.table = ledger.table
  BY <1>1 DEF Recorded
<1> HIDE DEF at
<1>7. Inv(l)'
  <2>1. Host(ledger', open', parked', l)
    BY <1>1, <1>2, <1>4 DEF Host, Res
  <2>2. Mirrors(ledger', Settled')
    BY <1>2, <1>3, <1>6 DEF Mirrors
  <2>3. Shows(ledger', open', parked', poisoned', Settled', l)
    BY <1>1, <2>2, <1>5 DEF Inv, Shows
  <2> QED
    BY <2>1, <2>3, <1>3 DEF Inv
<1>8. Room = n /\ Room' = n
  BY <1>1, <1>2 DEF Room, Reserved, Reservation
<1> QED
  BY <1>5, <1>7, <1>8 DEF Pub, Stg

(* A write that fails may have reached the stream: no layer sees the row.  *)
LEMMA WriteFailsKeeps ==
  ASSUME NEW l, Inv(l), NEW x \in Layer, NEW v \in Row, WriteFails(x, v)
  PROVE  Inv(l)' /\ Same(l)
<1> DEFINE at == Location(ledger, open, x)
<1>1. /\ open # NoAppend /\ CanWrite(ledger, open, x)
      /\ queue' = queue \/ queue' = Append(queue, AppendRow(x, at, v))
      /\ ledger' = ledger
      /\ open' = open /\ parked' = parked /\ poisoned' = TRUE /\ device' = device
  BY DEF WriteFails
<1>2. /\ Idle(l) /\ Whole(l) /\ Filled(l) /\ Filled(ledger) /\ parked = NoAppend
      /\ Reserved = open /\ Mirrors(ledger, Settled)
      /\ Host(ledger, open, parked, l) /\ Stream(queue, device, l)
      /\ \A y \in Layer : \A t \in 0..(l.committed - 1) :
           At(ledger, Settled.rows, y, t) = At(l, Settled.rows, y, t)
  BY <1>1, OpenAppend DEF Inv, Shows
<1> PICK n \in Nat : CanBegin(l, n) /\ open = Reservation(l, n) /\ Extends(ledger, l, n)
  BY <1>1, OpenAppend
<1>3. /\ Stream(queue', device', l)
      /\ Settled'.table = Settled.table
      /\ StagedRows(ledger, Settled'.rows) = StagedRows(ledger, Settled.rows)
      /\ PublishedRows(l, Settled'.rows) = PublishedRows(l, Settled.rows)
      /\ \A y \in Layer : \A t \in 0..(l.committed - 1) :
           At(ledger, Settled'.rows, y, t) = At(l, Settled'.rows, y, t)
  <2>1. CASE queue' = queue
    <3>1. Settled' = Settled
      BY <2>1, <1>1 DEF Settled
    <3> QED
      BY <2>1, <3>1, <1>1, <1>2
  <2>2. CASE queue' = Append(queue, AppendRow(x, at, v))
    <3>1. /\ Stream(queue', device', l)
          /\ Settled'.table = Settled.table
          /\ Settled'.rows = Written(Settled.rows, at, x, v)
          /\ Settled.rows \in Storage(Cell) /\ v \in Cell
      BY <2>2, <1>1, RowKeeps DEF Settled
    <3>2. /\ StagedRows(ledger, Settled'.rows) = StagedRows(ledger, Settled.rows)
          /\ PublishedRows(l, Settled'.rows) = PublishedRows(l, Settled.rows)
          /\ \A y \in Layer : \A t \in 0..(l.committed - 1) :
               /\ At(ledger, Settled'.rows, y, t) = At(ledger, Settled.rows, y, t)
               /\ At(l, Settled'.rows, y, t) = At(l, Settled.rows, y, t)
      BY <1>1, <1>2, <3>1, WriteShowsRow
    <3> QED
      BY <3>1, <3>2, <1>2
  <2> QED
    BY <1>1, <2>1, <2>2
<1>4. Inv(l)'
  <2>1. Host(ledger', open', parked', l)
    BY <1>1, <1>2
  <2>2. Mirrors(ledger', Settled')
    BY <1>1, <1>2, <1>3 DEF Mirrors
  <2>3. Shows(ledger', open', parked', poisoned', Settled', l)
    BY <1>1, <2>2, <1>3 DEF Shows
  <2> QED
    BY <2>1, <2>3, <1>3 DEF Inv
<1>5. Room' = Room
  BY <1>1 DEF Room, Reserved
<1> QED
  BY <1>1, <1>3, <1>4, <1>5 DEF Pub, Stg, Same

(* attend reads what the layer may see: the device will have the table and *)
(* the rows when the read's turn comes. *)
LEMMA AttendKeeps ==
  ASSUME NEW l, Inv(l), NEW x \in Layer, Attend(x)
  PROVE  Inv(l)' /\ Same(l)
<1> DEFINE visible == ledger.committed + ledger.staged[x]
           seen == [i \in 1..visible |-> RowAt(Settled, x, i - 1)]
           op == [kind |-> "read", layer |-> x, rows |-> seen]
<1>1. /\ open # NoAppend /\ queue' = Append(queue, op)
      /\ ledger' = ledger /\ open' = open /\ parked' = parked /\ poisoned' = poisoned
      /\ device' = device
  BY DEF Attend
<1>2. /\ Host(ledger, open, parked, l) /\ Stream(queue, device, l)
      /\ Shows(ledger, open, parked, poisoned, Settled, l)
      /\ Filled(ledger) /\ Mirrors(ledger, Settled)
  BY <1>1, OpenAppend DEF Inv
<1>3. IsLedger(ledger)
  BY <1>2, HostIs
<1>4. /\ ledger.committed \in Nat /\ ledger.staged[x] \in Nat /\ visible \in Nat
      /\ ledger.table \in Seq(Bundle)
  BY <1>3, PageAssumption DEF IsLedger
<1>5. Settled \in Device /\ Settled.rows \in Storage(Cell)
  BY <1>2, StreamSettles DEF Settled, Device
<1> HIDE DEF visible
<1>6. ASSUME NEW i \in 1..visible
      PROVE  LET bundle == Settled.table[PageOf(i - 1)]
             IN /\ bundle # Junk
                /\ Settled.rows[bundle][x][Within(i - 1)] = RowAt(Settled, x, i - 1)
                /\ RowAt(Settled, x, i - 1) \in Cell
  <2> DEFINE t == i - 1
  <2>1. t \in Nat /\ t \in 0..(ledger.committed + ledger.staged[x] - 1)
    BY <1>4 DEF visible
  <2> HIDE DEF t
  <2>2. PageOf(t) \in 1..Len(ledger.table)
    BY <2>1, <1>2 DEF Filled, Shown
  <2>3. Within(t) \in Slots
    BY <2>1, PageOfToken DEF Slots
  <2>4. ledger.table[PageOf(t)] \in Bundle
    BY <2>2, <1>4, SeqElement
  <2>5. Settled.table[PageOf(t)] = ledger.table[PageOf(t)]
    BY <2>2, <1>2 DEF Mirrors
  <2>6. ledger.table[PageOf(t)] # Junk
    BY <2>4, RowAssumption
  <2>7. Settled.rows[ledger.table[PageOf(t)]][x][Within(t)] \in Cell
    BY <2>3, <2>4, <1>5 DEF Storage
  <2> QED
    BY <2>5, <2>6, <2>7 DEF RowAt, t
<1>7. seen \in Seq(Cell) /\ DOMAIN seen = 1..visible
  <2>1. seen \in [1..visible -> Cell]
    BY <1>6
  <2> HIDE DEF seen
  <2> QED
    BY <2>1, <1>4, FunctionIsSeq
<1>8. \A i \in 1..visible : seen[i] = RowAt(Settled, x, i - 1)
  OBVIOUS
<1> HIDE DEF seen
<1>9. op \in Ops /\ op.kind = "read" /\ op.layer = x /\ op.rows = seen
  BY <1>7 DEF Ops
<1> HIDE DEF op
<1>10. Finds(Settled, op)
  BY <1>6, <1>7, <1>8, <1>9 DEF Finds
<1>11. Spares(op, l)
  BY <1>9 DEF Spares, Targets
<1>12. Stream(queue', device', l) /\ Settled' = Settled
  <2>1. /\ Stream(Append(queue, op), device, l)
        /\ Runs(device, Append(queue, op))[Len(Append(queue, op))] = Run(Settled, op)
    BY <1>2, <1>9, <1>10, <1>11, SubmitOne DEF Settled
  <2>2. Run(Settled, op) = Settled
    BY <1>5, <1>9, RunChanges
  <2> QED
    BY <2>1, <2>2, <1>1 DEF Settled
<1>13. Inv(l)'
  BY <1>1, <1>2, <1>12 DEF Inv
<1> QED
  BY <1>1, <1>12, <1>13 DEF Same, Pub, Stg, Room, Reserved

(* A complete append is parked as it is. *)
LEMMA PrepareKeeps ==
  ASSUME NEW l, Inv(l), PrepareCommit
  PROVE  Inv(l)' /\ Same(l)
<1>1. /\ open # NoAppend /\ parked = NoAppend /\ Complete(ledger, open)
      /\ parked' = open /\ open' = NoAppend
      /\ ledger' = ledger /\ poisoned' = poisoned /\ queue' = queue /\ device' = device
  BY DEF PrepareCommit
<1>2. Settled' = Settled /\ Res(open', parked') = Res(open, parked)
  BY <1>1 DEF Settled, Res
<1>3. Complete(ledger', parked')
  BY <1>1
<1>4. Host(ledger', open', parked', l)
  BY <1>1, <1>2, <1>3 DEF Inv, Host
<1>5. Shows(ledger', open', parked', poisoned', Settled', l)
  BY <1>1, <1>2 DEF Inv, Shows
<1>6. Inv(l)'
  BY <1>1, <1>4, <1>5 DEF Inv
<1>7. Pub(l)' = Pub(l) /\ Stg' = Stg /\ Room' = Room
  BY <1>1, <1>2 DEF Pub, Stg, Room, Reserved
<1> QED
  BY <1>6, <1>7 DEF Same

(* Dropping an append forgets its rows; the pool keeps the ledger it began *)
(* from and is poisoned, for the device has another table. *)
LEMMA DropKeeps ==
  ASSUME NEW l, Inv(l), DropAppend
  PROVE  /\ Inv(l)'
         /\ Pub(l)' = Pub(l) /\ Stg' = [x \in Layer |-> <<>>] /\ Room' = 0
<1>1. /\ open # NoAppend /\ ledger' = RolledBack(ledger, open) /\ open' = NoAppend
      /\ poisoned' = TRUE /\ parked' = parked /\ queue' = queue /\ device' = device
  BY DEF DropAppend
<1>2. Idle(l) /\ Whole(l) /\ Filled(l) /\ parked = NoAppend /\ Stream(queue, device, l)
  BY <1>1, OpenAppend DEF Inv
<1> PICK n \in Nat : CanBegin(l, n) /\ open = Reservation(l, n) /\ Extends(ledger, l, n)
  BY <1>1, OpenAppend
<1>3. ledger' = l
  BY <1>1, <1>2, RollBackRestores
<1>4. Settled' = Settled
  BY <1>1 DEF Settled
<1>5. Host(ledger', open', parked', l)
  BY <1>1, <1>2, <1>3 DEF Host, Res
<1>6. Shows(ledger', open', parked', poisoned', Settled', l)
  BY <1>1, <1>2, <1>3 DEF Shows, Res
<1>7. Inv(l)'
  BY <1>1, <1>2, <1>5, <1>6 DEF Inv
<1>8. StagedRows(l, Settled.rows) = [x \in Layer |-> <<>>]
  BY <1>2, NothingStaged DEF Idle
<1> QED
  BY <1>1, <1>2, <1>3, <1>4, <1>7, <1>8 DEF Pub, Stg, Room, Reserved

(* Publishing waits for the stream, so the ledger it publishes may take    *)
(* over the pages an earlier append was rolled back under. *)
LEMMA CommitKeeps ==
  ASSUME NEW l, Inv(l), CommitPrepared
  PROVE  \E h :
           /\ Inv(h)'
           /\ Room > 0
           /\ \A x \in Layer : Len(Stg[x]) = Room
           /\ Pub(h)' = [x \in Layer |-> Pub(l)[x] \o Stg[x]]
           /\ Stg' = [x \in Layer |-> <<>>] /\ Room' = 0
<1>1. /\ queue = <<>> /\ open = NoAppend /\ poisoned = FALSE /\ parked # NoAppend
      /\ ledger' = Published(ledger, parked) /\ parked' = NoAppend
      /\ open' = NoAppend /\ poisoned' = FALSE /\ queue' = queue /\ device' = device
  BY DEF CommitPrepared, NotPoisoned, Inv, Shows
<1>2. /\ Idle(l) /\ Whole(l) /\ Filled(ledger) /\ Complete(ledger, parked)
      /\ Res(open, parked) = parked /\ Reserved = parked
      /\ Stream(queue, device, l) /\ Mirrors(ledger, Settled)
      /\ \A x \in Layer : \A t \in 0..(l.committed - 1) :
           At(ledger, Settled.rows, x, t) = At(l, Settled.rows, x, t)
  BY <1>1 DEF Inv, Host, Shows, Res, Reserved
<1> PICK n \in Nat : CanBegin(l, n) /\ parked = Reservation(l, n) /\ Extends(ledger, l, n)
  BY <1>1, <1>2 DEF Inv, Host
<1> PICK h : h = Published(ledger, parked)
  OBVIOUS
<1>3. device \in Device /\ Settled = device /\ Settled' = device
  <2>1. device \in Device
    BY <1>2 DEF Stream
  <2> QED
    BY <2>1, <1>1, StreamEmpty DEF Settled
<1>4. device.rows \in Storage(Cell)
  BY <1>3 DEF Device
<1>5. Idle(h) /\ Filled(h) /\ Whole(h)
  <2>1. Idle(h) /\ Filled(h)
    BY <1>2, PublishIdles, PublishKeepsFilled
  <2>2. Apart(ledger, parked)
    BY <1>2, ExtendsApart
  <2>3. IsLedger(ledger)
    BY DEF Extends
  <2> QED
    BY <2>1, <2>2, <2>3, PublishKeepsWhole
<1>6. /\ \A x \in Layer : Len(StagedRows(ledger, device.rows)[x]) = n
      /\ PublishedRows(h, device.rows) = AllRows(ledger, device.rows)
      /\ StagedRows(h, device.rows) = [x \in Layer |-> <<>>]
  <2> DEFINE d == Published(ledger, Reservation(l, n))
  <2>1. /\ Idle(l) /\ CanBegin(l, n) /\ Extends(ledger, l, n) /\ Filled(ledger)
        /\ Complete(ledger, Reservation(l, n)) /\ device.rows \in Storage(Cell)
    BY <1>2, <1>4
  <2>2. /\ \A x \in Layer : Len(StagedRows(ledger, device.rows)[x]) = n
        /\ PublishedRows(d, device.rows) = AllRows(ledger, device.rows)
        /\ StagedRows(d, device.rows) = [x \in Layer |-> <<>>]
    BY <2>1, CommitShowsAll
  <2>3. d = h
    OBVIOUS
  <2> HIDE DEF d
  <2> QED
    BY <2>2, <2>3
<1>7. PublishedRows(ledger, device.rows) = PublishedRows(l, device.rows)
  <2>1. ledger.committed = l.committed /\ l.committed \in Nat
    BY <1>2 DEF Extends, Idle, IsLedger
  <2> QED
    BY <2>1, <1>2, <1>3, SamePublished
<1>8. ledger' = h /\ h.table = ledger.table
  BY <1>1 DEF Published
<1>9. Inv(h)'
  <2>1. Host(ledger', open', parked', h)
    BY <1>1, <1>5, <1>8 DEF Host, Res
  <2>2. Stream(queue', device', h)
    BY <1>1, <1>3, StreamEmpty
  <2>3. Mirrors(h, device)
    BY <1>2, <1>3, <1>8 DEF Mirrors
  <2>4. Shows(ledger', open', parked', poisoned', Settled', h)
    BY <1>1, <1>3, <1>8, <2>3 DEF Shows
  <2> QED
    BY <2>1, <2>2, <2>4 DEF Inv
<1>10. Room = n /\ n > 0 /\ Room' = 0
  BY <1>1, <1>2 DEF Room, Reserved, Reservation, CanBegin
<1>11. \A x \in Layer : Len(Stg[x]) = Room
  BY <1>3, <1>6, <1>10 DEF Stg
<1>12. PublishedRows(h, device.rows) = [x \in Layer |-> Pub(l)[x] \o Stg[x]]
  BY <1>3, <1>6, <1>7 DEF AllRows, Pub, Stg
<1>13. Pub(h)' = PublishedRows(h, device.rows) /\ Stg' = [x \in Layer |-> <<>>]
  BY <1>3, <1>6, <1>8 DEF Pub, Stg
<1> QED
  BY <1>9, <1>10, <1>11, <1>12, <1>13

(* The device runs one operation. *)
LEMMA ExecuteStep ==
  ASSUME NEW l, Inv(l), Execute
  PROVE  Inv(l)' /\ Same(l)
<1>1. /\ queue # <<>> /\ device' = Run(device, Head(queue)) /\ queue' = Tail(queue)
      /\ ledger' = ledger /\ open' = open /\ parked' = parked /\ poisoned' = poisoned
  BY DEF Execute
<1>2. Stream(queue', device', l) /\ Settled' = Settled
  BY <1>1, ExecuteKeeps DEF Inv, Settled
<1>3. Inv(l)'
  BY <1>1, <1>2 DEF Inv
<1> QED
  BY <1>1, <1>2, <1>3 DEF Same, Pub, Stg, Room, Reserved

------------------------------------------------------------------------------
(* The invariant holds of the ledger the model calls LastPublished, and of *)
(* no other. *)
IInv == Inv(LastPublished)

(* Inv determines its ledger, before a step and after it. *)
LEMMA InvIs ==
  ASSUME NEW l, Inv(l)
  PROVE  l = LastPublished /\ IInv
<1>1. l = LastPublished
  BY HostIs DEF Inv, LastPublished, Reserved, Res
<1> QED
  BY <1>1 DEF IInv

LEMMA InvIsAfter ==
  ASSUME NEW l, Inv(l)'
  PROVE  l = LastPublished' /\ IInv'
<1>1. l = LastPublished'
  BY HostIs DEF Inv, LastPublished, Reserved, Res
<1> QED
  BY <1>1 DEF IInv

LEMMA InitInv == Init => IInv
<1> SUFFICES ASSUME Init PROVE IInv
  OBVIOUS
<1>1. /\ ledger = NewLedger /\ open = NoAppend /\ parked = NoAppend
      /\ poisoned = FALSE /\ queue = <<>>
  BY DEF Init
<1>2. device \in Device
  <2>1. [b \in Bundle |-> [x \in Layer |-> [w \in Within0 |-> Junk]]] \in Storage(Cell)
    BY DEF Storage, Slots, Within0, Cell
  <2> QED
    BY <2>1 DEF Init, Device
<1>3. Stream(queue, device, NewLedger) /\ Settled = device
  BY <1>1, <1>2, StreamEmpty DEF Settled
<1>4. Host(ledger, open, parked, NewLedger)
  BY <1>1, NewLedgerIdle, NewLedgerWhole DEF Host, Res
<1>5. Mirrors(NewLedger, device)
  BY DEF Mirrors, NewLedger
<1>6. Shows(ledger, open, parked, poisoned, Settled, NewLedger)
  BY <1>1, <1>3, <1>5 DEF Shows
<1>7. Inv(NewLedger)
  BY <1>3, <1>4, <1>6 DEF Inv
<1> QED
  BY <1>7, InvIs

(* What a step keeps, and what it does to the log the pool stands for. *)
OpensLog(l, n) ==
  /\ Room = 0 /\ Room' = n
  /\ \A x \in Layer : Len(Pub(l)[x]) + n <= MaxContext
  /\ Pub(l)' = Pub(l) /\ Stg' = Stg
WritesLog(l, x, v) ==
  /\ Len(Stg[x]) < Room
  /\ Stg' = [Stg EXCEPT ![x] = Append(@, v)]
  /\ Pub(l)' = Pub(l) /\ Room' = Room
ForgetsLog(l) == Pub(l)' = Pub(l) /\ Stg' = [x \in Layer |-> <<>>] /\ Room' = 0
PublishesLog(l, h) ==
  /\ Room > 0
  /\ \A x \in Layer : Len(Stg[x]) = Room
  /\ Pub(h)' = [x \in Layer |-> Pub(l)[x] \o Stg[x]]
  /\ Stg' = [x \in Layer |-> <<>>] /\ Room' = 0

LEMMA Steps ==
  ASSUME NEW l, Inv(l), [Next]_vars
  PROVE  \/ /\ Inv(l)'
            /\ \/ Same(l) \/ ForgetsLog(l)
               \/ \E n \in 1..MaxContext : OpensLog(l, n)
               \/ \E x \in Layer, v \in Row : WritesLog(l, x, v)
         \/ \E h : Inv(h)' /\ PublishesLog(l, h)
<1>1. ASSUME NEW n \in 1..MaxContext, BeginAppend(n) PROVE Inv(l)' /\ OpensLog(l, n)
  BY <1>1, BeginKeeps DEF OpensLog
<1>2. ASSUME NEW n \in 1..MaxContext, BeginFails(n) PROVE Inv(l)' /\ Same(l)
  BY <1>2, BeginFailsKeeps
<1>3. ASSUME NEW x \in Layer, NEW v \in Row, WriteLayerRow(x, v)
      PROVE  Inv(l)' /\ WritesLog(l, x, v)
  BY <1>3, WriteKeeps DEF WritesLog
<1>4. ASSUME NEW x \in Layer, NEW v \in Row, WriteFails(x, v) PROVE Inv(l)' /\ Same(l)
  BY <1>4, WriteFailsKeeps
<1>5. ASSUME NEW x \in Layer, Attend(x) PROVE Inv(l)' /\ Same(l)
  BY <1>5, AttendKeeps
<1>6. ASSUME PrepareCommit PROVE Inv(l)' /\ Same(l)
  BY <1>6, PrepareKeeps
<1>7. ASSUME DropAppend PROVE Inv(l)' /\ ForgetsLog(l)
  BY <1>7, DropKeeps DEF ForgetsLog
<1>8. ASSUME CommitPrepared PROVE \E h : Inv(h)' /\ PublishesLog(l, h)
  BY <1>8, CommitKeeps DEF PublishesLog
<1>9. ASSUME Execute PROVE Inv(l)' /\ Same(l)
  BY <1>9, ExecuteStep
<1>10. ASSUME UNCHANGED vars PROVE Inv(l)' /\ Same(l)
  BY <1>10 DEF vars, Inv, Settled, Same, Pub, Stg, Room, Reserved
<1> QED
  BY <1>1, <1>2, <1>3, <1>4, <1>5, <1>6, <1>7, <1>8, <1>9, <1>10 DEF Next

LEMMA NextInv == IInv /\ [Next]_vars => IInv'
<1> SUFFICES ASSUME IInv, [Next]_vars PROVE IInv'
  OBVIOUS
<1> PICK l : l = LastPublished
  OBVIOUS
<1>1. Inv(l)
  BY DEF IInv
<1>2. \E h : Inv(h)'
  BY <1>1, Steps
<1> QED
  BY <1>2, InvIsAfter

LEMMA AlwaysInv == Spec => []IInv
BY InitInv, NextInv, PTL DEF Spec

------------------------------------------------------------------------------
(* The ledger and the device keep their shape, whichever submissions fail. *)
THEOREM TypeCorrect == Spec => []TypeOK
<1>1. IInv => TypeOK
  <2> SUFFICES ASSUME IInv PROVE TypeOK
    OBVIOUS
  <2>1. IsLedger(ledger)
    BY HostIs DEF IInv, Inv
  <2>2. device \in Device /\ poisoned \in BOOLEAN
    BY DEF IInv, Inv, Stream, Shows
  <2> QED
    BY <2>1, <2>2 DEF TypeOK, Device, Storage, Slots, Within0, Cell
<1> QED
  BY <1>1, AlwaysInv, PTL

(* Nothing on the stream writes into a page of the published sequence: not *)
(* the copy of a tail or the rows of an append that was dropped, though    *)
(* they run after the host has taken its bundles back.                     *)
THEOREM QuietPages == Spec => []PublishedPagesAreQuiet
<1>1. IInv => PublishedPagesAreQuiet
  <2> SUFFICES ASSUME IInv PROVE PublishedPagesAreQuiet
    OBVIOUS
  <2> PICK l : l = LastPublished
    OBVIOUS
  <2>1. Stream(queue, device, l) /\ Idle(l)
    BY DEF IInv, Inv, Host
  <2>2. DOMAIN queue = 1..Len(queue) /\ DOMAIN l.table = 1..Len(l.table)
    BY <2>1 DEF Stream, Idle, IsLedger
  <2> QED
    BY <2>1, <2>2 DEF Stream, Spares, PublishedPagesAreQuiet
<1> QED
  BY <1>1, AlwaysInv, PTL

(* A read that attend submitted finds, when its turn comes, the rows the   *)
(* host took it to see: what was submitted before it has run, and nothing  *)
(* submitted since has.                                                    *)
THEOREM ReadsAreCurrent == Spec => []ReadsFindTheirRows
<1>1. IInv => ReadsFindTheirRows
  <2> SUFFICES ASSUME IInv, queue # <<>>, Head(queue).kind = "read"
               PROVE  Finds(device, Head(queue))
    BY DEF ReadsFindTheirRows, Finds
  <2> PICK l : l = LastPublished
    OBVIOUS
  <2>1. Stream(queue, device, l) /\ queue \in Seq(Ops)
    BY DEF IInv, Inv, Stream
  <2>2. 1 \in 1..Len(queue) /\ Head(queue) = queue[1]
    BY <2>1
  <2>3. Runs(device, queue)[1 - 1] = device
    BY <2>1, RunsAre
  <2>4. Finds(Runs(device, queue)[1 - 1], queue[1])
    BY <2>1, <2>2 DEF Stream
  <2> QED
    BY <2>2, <2>3, <2>4
<1> QED
  BY <1>1, AlwaysInv, PTL

------------------------------------------------------------------------------
(* The pool implements AppendLog.                                          *)

(* The log, as the refinement reads it from the pool. *)
LogRows ==
  [x \in Layer |-> [i \in 1..ledger.committed |->
     Settled.rows[LastPublished.table[PageOf(i - 1)]][x][Within(i - 1)]]]
LogStaged ==
  [x \in Layer |-> [i \in 1..ledger.staged[x] |->
     RowAt(Settled, x, ledger.committed + i - 1)]]

LEMMA LogIs ==
  ASSUME NEW l, Inv(l)
  PROVE  LogRows = Pub(l) /\ LogStaged = Stg
<1>1. l = LastPublished /\ ledger.committed = l.committed
  BY InvIs, HostIs DEF Inv
<1> QED
  BY <1>1 DEF LogRows, LogStaged, Pub, Stg, PublishedRows, StagedRows, At, RowAt

LEMMA LogIsAfter ==
  ASSUME NEW l, Inv(l)'
  PROVE  LogRows' = Pub(l)' /\ LogStaged' = Stg'
<1>1. l = LastPublished' /\ ledger'.committed = l.committed
  BY InvIsAfter, HostIs DEF Inv
<1> QED
  BY <1>1 DEF LogRows, LogStaged, Pub, Stg, PublishedRows, StagedRows, At, RowAt

(* The steps of the log, in those terms. *)
LEMMA LogSteps ==
  /\ \A n \in 1..MaxContext :
       /\ Room = 0 /\ Room' = n
       /\ \A x \in Layer : Len(LogRows[x]) + n <= MaxContext
       /\ LogRows' = LogRows /\ LogStaged' = LogStaged
       => Log!Open(n)
  /\ \A x \in Layer, v \in Row :
       /\ Len(LogStaged[x]) < Room
       /\ LogStaged' = [LogStaged EXCEPT ![x] = Append(@, v)]
       /\ LogRows' = LogRows /\ Room' = Room
       => Log!Write(x, v)
  /\ /\ Room > 0
     /\ \A x \in Layer : Len(LogStaged[x]) = Room
     /\ LogRows' = [x \in Layer |-> LogRows[x] \o LogStaged[x]]
     /\ LogStaged' = [x \in Layer |-> <<>>] /\ Room' = 0
     => Log!Publish
  /\ LogRows' = LogRows /\ LogStaged' = [x \in Layer |-> <<>>] /\ Room' = 0 => Log!Forget
  /\ LogRows' = LogRows /\ LogStaged' = LogStaged /\ Room' = Room => UNCHANGED Log!vars
BY DEF LogRows, LogStaged, Room, Log!Open, Log!Write, Log!Publish, Log!Forget, Log!Nothing, Log!vars

LEMMA StepMaps == IInv /\ [Next]_vars => [Log!Next]_(Log!vars)
<1> SUFFICES ASSUME IInv, [Next]_vars PROVE [Log!Next]_(Log!vars)
  OBVIOUS
<1> PICK l : l = LastPublished
  OBVIOUS
<1>1. Inv(l) /\ LogRows = Pub(l) /\ LogStaged = Stg
  BY LogIs DEF IInv
<1>2. ASSUME Inv(l)', Same(l) PROVE UNCHANGED Log!vars
  BY <1>1, <1>2, LogIsAfter, LogSteps DEF Same
<1>3. ASSUME Inv(l)', ForgetsLog(l) PROVE Log!Next
  BY <1>1, <1>3, LogIsAfter, LogSteps DEF ForgetsLog, Log!Next
<1>4. ASSUME Inv(l)', NEW n \in 1..MaxContext, OpensLog(l, n) PROVE Log!Next
  BY <1>1, <1>4, LogIsAfter, LogSteps DEF OpensLog, Log!Next
<1>5. ASSUME Inv(l)', NEW x \in Layer, NEW v \in Row, WritesLog(l, x, v) PROVE Log!Next
  BY <1>1, <1>5, LogIsAfter, LogSteps DEF WritesLog, Log!Next
<1>6. ASSUME NEW h, Inv(h)', PublishesLog(l, h) PROVE Log!Next
  BY <1>1, <1>6, LogIsAfter, LogSteps DEF PublishesLog, Log!Next
<1> QED
  BY <1>1, <1>2, <1>3, <1>4, <1>5, <1>6, Steps

LEMMA InitMaps == Init => Log!Init
<1> SUFFICES ASSUME Init PROVE Log!Init
  OBVIOUS
<1>1. /\ ledger.committed = 0 /\ ledger.staged = [x \in Layer |-> 0]
      /\ open = NoAppend /\ parked = NoAppend
  BY DEF Init, NewLedger
<1>2. 1..0 = {}
  OBVIOUS
<1>3. LogRows = [x \in Layer |-> <<>>]
  <2>1. \A x \in Layer : [i \in 1..ledger.committed |->
          Settled.rows[LastPublished.table[PageOf(i - 1)]][x][Within(i - 1)]] = <<>>
    <3> TAKE x \in Layer
    <3>1. 1..ledger.committed = {}
      BY <1>1, <1>2
    <3> QED
      BY <3>1
  <2> QED
    BY <2>1 DEF LogRows
<1>4. LogStaged = [x \in Layer |-> <<>>]
  <2>1. \A x \in Layer : [i \in 1..ledger.staged[x] |->
          RowAt(Settled, x, ledger.committed + i - 1)] = <<>>
    <3> TAKE x \in Layer
    <3>1. 1..ledger.staged[x] = {}
      BY <1>1, <1>2
    <3> QED
      BY <3>1
  <2> QED
    BY <2>1 DEF LogStaged
<1>5. Room = 0
  BY <1>1 DEF Room, Reserved
<1> QED
  BY <1>3, <1>4, <1>5 DEF Log!Init, Log!Nothing, LogRows, LogStaged, Room

(* The native pool, read through the host's table once its stream has      *)
(* settled, implements AppendLog: published rows never change, an append   *)
(* shows whole or not at all, and neither a submission that fails half way *)
(* nor one that outlives its append shows in any row.                      *)
THEOREM NativePoolIsALog == Spec => ImplementsLog
<1>1. Spec => []IInv
  BY AlwaysInv
<1> QED
  BY <1>1, InitMaps, StepMaps, PTL DEF Spec, ImplementsLog, Log!Spec
==============================================================================
