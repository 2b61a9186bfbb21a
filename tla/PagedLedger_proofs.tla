-------------------------- MODULE PagedLedger_proofs --------------------------
(***************************************************************************)
(* What PagedLedger's operators do to a ledger, for every page size and    *)
(* every context.  An idle ledger has the pages its tokens need and the    *)
(* other bundles on its free stack.                                        *)
(***************************************************************************)
EXTENDS PagedLedger, TLAPS

------------------------------------------------------------------------------
(* Division into pages.                                                    *)

(* The page and the place of a token determine it (write_location). *)
LEMMA DivMod ==
  ASSUME NEW a \in Nat
  PROVE  /\ a \div PageTokens \in Nat
         /\ a % PageTokens \in 0..(PageTokens - 1)
         /\ a = PageTokens * (a \div PageTokens) + (a % PageTokens)
<1> DEFINE d == PageTokens
<1>1. d \in Nat \ {0}
  BY PageAssumption
<1> HIDE DEF d
<1>2. /\ a \div d \in Nat
      /\ a % d \in 0..(d - 1)
      /\ a = d * (a \div d) + (a % d)
  BY <1>1
<1> QED
  BY <1>2 DEF d

(* A smaller number has no greater quotient. *)
LEMMA DivMonotone ==
  ASSUME NEW a \in Nat, NEW b \in Nat, a <= b
  PROVE  a \div PageTokens <= b \div PageTokens
<1> DEFINE p == a \div PageTokens  q == b \div PageTokens
<1>1. PageTokens \in Nat /\ PageTokens > 0 /\ p \in Nat /\ q \in Nat
  BY PageAssumption, DivMod
<1>2. a >= PageTokens * p /\ b < PageTokens * q + PageTokens
  BY <1>1, DivMod
<1> HIDE DEF p, q
<1>3. CASE p > q
  <2>1. PageTokens * p >= PageTokens * (q + 1)
    BY <1>1, <1>3
  <2>2. PageTokens * (q + 1) = PageTokens * q + PageTokens
    BY <1>1
  <2> QED
    BY <1>1, <1>2, <2>1, <2>2
<1> QED
  BY <1>1, <1>3 DEF p, q

(* The pages of more tokens are no fewer (ceil). *)
LEMMA PagesMonotone ==
  ASSUME NEW a \in Nat, NEW b \in Nat, a <= b
  PROVE  /\ Pages(a) \in Nat /\ Pages(b) \in Nat
         /\ Pages(a) <= Pages(b)
<1>1. /\ a + PageTokens - 1 \in Nat /\ b + PageTokens - 1 \in Nat
      /\ a + PageTokens - 1 <= b + PageTokens - 1
  BY PageAssumption
<1> QED
  BY <1>1, DivMonotone, DivMod DEF Pages

(* Quotient and remainder are unique. *)
LEMMA DivUnique ==
  ASSUME NEW a \in Nat, NEW q \in Nat, NEW r \in Nat,
         r < PageTokens, a = PageTokens * q + r
  PROVE  a \div PageTokens = q
<1> DEFINE p == a \div PageTokens
<1>1. PageTokens \in Nat /\ PageTokens > 0 /\ p \in Nat
  BY PageAssumption, DivMod
<1>2. a >= PageTokens * p /\ a < PageTokens * p + PageTokens
  BY <1>1, DivMod
<1> HIDE DEF p
<1>3. CASE p > q
  <2>1. PageTokens * p >= PageTokens * (q + 1)
    BY <1>1, <1>3
  <2>2. PageTokens * (q + 1) = PageTokens * q + PageTokens
    BY <1>1
  <2> QED
    BY <1>1, <1>2, <2>1, <2>2
<1>4. CASE p < q
  <2>1. PageTokens * q >= PageTokens * (p + 1)
    BY <1>1, <1>4
  <2>2. PageTokens * (p + 1) = PageTokens * p + PageTokens
    BY <1>1
  <2> QED
    BY <1>1, <1>2, <2>1, <2>2
<1> QED
  BY <1>1, <1>3, <1>4 DEF p

(* A token below n lies in the pages of n; one at or above n lies in its   *)
(* last page only if that page is partly filled (write_location).          *)
LEMMA PageOfToken ==
  ASSUME NEW t \in Nat, NEW n \in Nat
  PROVE  /\ PageOf(t) \in Nat \ {0}
         /\ Within(t) \in 0..(PageTokens - 1)
         /\ t < n => PageOf(t) <= Pages(n)
         /\ t >= n => PageOf(t) >= Pages(n)
         /\ t >= n /\ n % PageTokens = 0 => PageOf(t) > Pages(n)
<1> DEFINE q == t \div PageTokens  r == t % PageTokens
<1>1. /\ PageTokens \in Nat /\ PageTokens > 0
      /\ q \in Nat /\ r \in 0..(PageTokens - 1) /\ t = PageTokens * q + r
  BY PageAssumption, DivMod
<1> HIDE DEF q, r
<1>2. (t + PageTokens) \div PageTokens = q + 1
  <2>1. t + PageTokens = PageTokens * (q + 1) + r /\ q + 1 \in Nat /\ r < PageTokens /\ r \in Nat
    BY <1>1
  <2>2. t + PageTokens \in Nat
    BY <1>1
  <2> QED
    BY <2>1, <2>2, DivUnique
<1>3. PageOf(t) = q + 1 /\ Within(t) = r
  BY DEF PageOf, Within, q, r
<1>4. ASSUME t < n PROVE PageOf(t) <= Pages(n)
  <2>1. t + PageTokens \in Nat /\ n + PageTokens - 1 \in Nat /\ t + PageTokens <= n + PageTokens - 1
    BY <1>1, <1>4
  <2> QED
    BY <2>1, <1>2, <1>3, DivMonotone DEF Pages
<1>5. ASSUME t >= n PROVE PageOf(t) >= Pages(n)
  <2>1. t + PageTokens \in Nat /\ n + PageTokens - 1 \in Nat /\ n + PageTokens - 1 <= t + PageTokens
    BY <1>1, <1>5
  <2> QED
    BY <2>1, <1>2, <1>3, DivMonotone DEF Pages
<1>6. ASSUME t >= n, n % PageTokens = 0 PROVE PageOf(t) > Pages(n)
  <2>1. n \div PageTokens \in Nat /\ n = PageTokens * (n \div PageTokens)
    BY <1>6, <1>1, DivMod
  <2>2. n + PageTokens - 1 = PageTokens * (n \div PageTokens) + (PageTokens - 1)
    BY <1>1, <2>1
  <2>3. n + PageTokens - 1 \in Nat /\ PageTokens - 1 \in Nat /\ PageTokens - 1 < PageTokens
    BY <1>1
  <2>4. Pages(n) = n \div PageTokens
    BY <2>1, <2>2, <2>3, DivUnique DEF Pages
  <2>5. n \div PageTokens <= q
    BY <1>6, DivMonotone DEF q
  <2> QED
    BY <1>1, <1>3, <2>1, <2>4, <2>5
<1> QED
  BY <1>1, <1>3, <1>4, <1>5, <1>6

------------------------------------------------------------------------------
(* Ledgers.                                                                *)

(* Between appends: the pages the tokens need, the rest on the stack. *)
Idle(l) ==
  /\ IsLedger(l)
  /\ l.staged = [x \in Layer |-> 0]
  /\ Len(l.table) = Pages(l.committed)
  /\ Len(l.free) + Len(l.table) = PageCount + 1

(* m is the idle ledger l with an append of n tokens in progress. *)
Extends(m, l, n) ==
  LET b == Begun(l, Reservation(l, n))
  IN /\ IsLedger(m)
     /\ m.committed = l.committed
     /\ m.table = b.table /\ m.free = b.free
     /\ \A p \in 1..Len(l.table) :
          ~Partial(l) \/ p < Len(l.table) => m.fills[p] = l.fills[p]
     /\ \A x \in Layer : m.staged[x] <= n

(* A place of a sequence holds one of its elements. *)
LEMMA SeqElement ==
  ASSUME NEW S, NEW s \in Seq(S), NEW i \in 1..Len(s)
  PROVE  s[i] \in S
OBVIOUS

(* Bundles are numbers. *)
LEMMA BundleNumbers == PageCount \in Nat /\ Bundle \subseteq Nat
<1>1. PageCount \in Nat
  BY PageAssumption, PagesMonotone DEF PageCount
<1> QED
  BY <1>1 DEF Bundle

(* The one spare bundle is enough: an append the context has room for      *)
(* passes the capacity check of begin_append.                              *)
LEMMA IdleHasRoom ==
  ASSUME NEW l, Idle(l), NEW n \in 1..(MaxContext - l.committed)
  PROVE  CanBegin(l, n)
<1>1. /\ MaxContext \in Nat /\ l.committed \in Nat /\ n \in Nat /\ n > 0
      /\ l.committed + n \in Nat /\ l.committed + n <= MaxContext
      /\ Len(l.table) \in Nat /\ Len(l.free) \in Nat
  BY PageAssumption DEF Idle, IsLedger
<1>2. /\ Pages(l.committed) <= Pages(l.committed + n)
      /\ Pages(l.committed + n) <= PageCount
      /\ Pages(l.committed + n) \in Nat /\ PageCount \in Nat
  <2>1. l.committed <= l.committed + n
    BY <1>1
  <2>2. Pages(l.committed) <= Pages(l.committed + n) /\ Pages(l.committed + n) \in Nat
    BY <1>1, <2>1, PagesMonotone
  <2>3. Pages(l.committed + n) <= Pages(MaxContext) /\ Pages(MaxContext) \in Nat
    BY <1>1, PagesMonotone
  <2> QED
    BY <2>2, <2>3 DEF PageCount
<1>3. Len(l.table) = Pages(l.committed) /\ Len(l.free) + Len(l.table) = PageCount + 1
  BY DEF Idle
<1> QED
  BY <1>1, <1>2, <1>3 DEF CanBegin, NewPages, Needed

(* What begin_append reserves and leaves, in numbers. *)
LEMMA BegunShape ==
  ASSUME NEW l, Idle(l), NEW n \in Nat, CanBegin(l, n)
  PROVE  LET r == Reservation(l, n)
             b == Begun(l, r)
         IN /\ l.committed \in Nat /\ l.committed + n \in Nat /\ n > 0
            /\ r.tokens = n /\ r.original = l.committed /\ r.target = l.committed + n
            /\ r.target \in 1..MaxContext
            /\ r.pages = Len(l.table) /\ r.pages \in Nat
            /\ r.tail = NoTail <=> ~Partial(l)
            /\ Partial(l) =>
                 /\ r.pages > 0
                 /\ r.tail = [page |-> r.pages, original |-> l.table[r.pages],
                             fill |-> l.fills[r.pages], replacement |-> l.free[Len(l.free)]]
            /\ NewPages(l, n) \in Nat
            /\ r.pages + NewPages(l, n) = Pages(r.target)
            /\ NewPages(l, n) + (IF Partial(l) THEN 1 ELSE 0) <= Len(l.free)
<1> DEFINE r == Reservation(l, n)
<1>1. /\ MaxContext \in Nat /\ l.committed \in Nat /\ n > 0
      /\ l.committed + n \in Nat /\ l.committed + n <= MaxContext
      /\ Len(l.table) \in Nat /\ Len(l.free) \in Nat
      /\ l.table \in Seq(Bundle) /\ l.fills \in Seq(0..PageTokens) /\ l.free \in Seq(Bundle)
      /\ Len(l.fills) = Len(l.table) /\ Len(l.table) = Pages(l.committed)
  BY PageAssumption DEF Idle, IsLedger, CanBegin
<1>2. /\ r.tokens = n /\ r.original = l.committed /\ r.target = l.committed + n
      /\ r.pages = Len(l.table)
      /\ r.tail = IF ~Partial(l) THEN NoTail
                  ELSE [page |-> Len(l.table), original |-> l.table[Len(l.table)],
                        fill |-> l.fills[Len(l.table)], replacement |-> Popped(l, 1)]
  BY DEF Reservation
<1>3. Pages(l.committed + n) \in Nat /\ NewPages(l, n) \in Nat
      /\ Len(l.table) + NewPages(l, n) = Pages(l.committed + n)
      /\ NewPages(l, n) + (IF Partial(l) THEN 1 ELSE 0) <= Len(l.free)
  <2>1. Pages(l.committed + n) \in Nat
    BY <1>1, PagesMonotone
  <2> QED
    BY <1>1, <2>1 DEF CanBegin, NewPages, Needed
<1>4. Popped(l, 1) = l.free[Len(l.free)]
  BY <1>1 DEF Popped
<1>5. ASSUME Partial(l)
      PROVE  /\ Len(l.table) > 0
             /\ r.tail = [page |-> r.pages, original |-> l.table[r.pages],
                         fill |-> l.fills[r.pages], replacement |-> l.free[Len(l.free)]]
             /\ r.tail # NoTail
  <2>1. l.committed > 0
    <3>1. CASE l.committed = 0
      <4>1. 0 % PageTokens = 0
        BY PageAssumption
      <4> QED
        BY <4>1, <3>1, <1>5 DEF Partial
    <3> QED
      BY <3>1, <1>1
  <2>2. Len(l.table) > 0
    <3>1. PageOf(0) \in Nat \ {0} /\ PageOf(0) <= Pages(l.committed)
      BY <1>1, <2>1, PageOfToken
    <3> QED
      BY <3>1, <1>1
  <2>3. l.table[Len(l.table)] \in Nat /\ l.fills[Len(l.table)] \in Nat
    <3>1. Len(l.table) \in 1..Len(l.table) /\ Len(l.table) \in 1..Len(l.fills)
      BY <1>1, <2>2
    <3>2. l.table[Len(l.table)] \in Bundle
      BY <1>1, <3>1
    <3>3. l.fills[Len(l.table)] \in 0..PageTokens
      BY <1>1, <3>1, SeqElement
    <3>4. l.fills[Len(l.table)] \in Nat
      BY <3>3, PageAssumption
    <3> QED
      BY <3>2, <3>4, BundleNumbers
  <2>4. l.free[Len(l.free)] \in Nat
    <3>1. Len(l.free) \in 1..Len(l.free)
      BY <1>1, <1>3, <1>5
    <3>2. l.free[Len(l.free)] \in Bundle
      BY <1>1, <3>1
    <3> QED
      BY <3>2, BundleNumbers
  <2>5. r.tail = [page |-> Len(l.table), original |-> l.table[Len(l.table)],
                  fill |-> l.fills[Len(l.table)], replacement |-> l.free[Len(l.free)]]
    BY <1>2, <1>4, <1>5
  <2>6. r.tail \in [page : Nat, original : Nat, fill : Nat, replacement : Nat]
    BY <2>3, <2>4, <2>5, <1>1
  <2> QED
    BY <2>2, <2>5, <2>6, <1>2, NoTailAssumption
<1> QED
  BY <1>1, <1>2, <1>3, <1>5

(* A function on 1..k is a sequence of length k. *)
LEMMA FunctionIsSeq ==
  ASSUME NEW S, NEW k \in Nat, NEW f \in [1..k -> S]
  PROVE  f \in Seq(S) /\ Len(f) = k
OBVIOUS

(* The table, the fills and the stack begin_append leaves. *)
LEMMA BegunTable ==
  ASSUME NEW l, Idle(l), NEW n \in Nat, CanBegin(l, n)
  PROVE  LET r == Reservation(l, n)
             b == Begun(l, r)
             more == NewPages(l, n)
             spare == IF Partial(l) THEN 1 ELSE 0
         IN /\ b.table \in Seq(Bundle) /\ Len(b.table) = r.pages + more
            /\ \A p \in 1..r.pages : ~Partial(l) \/ p < r.pages => b.table[p] = l.table[p]
            /\ \A i \in 1..more : b.table[r.pages + i] = l.free[Len(l.free) + 1 - i - spare]
            /\ b.fills \in Seq(0..PageTokens) /\ Len(b.fills) = r.pages + more
            /\ \A p \in 1..r.pages : b.fills[p] = l.fills[p]
            /\ b.free \in Seq(Bundle) /\ Len(b.free) = Len(l.free) - more - spare
            /\ \A i \in 1..Len(b.free) : b.free[i] = l.free[i]
            /\ b.staged = [x \in Layer |-> 0] /\ b.committed = l.committed
<1> DEFINE r == Reservation(l, n)
           b == Begun(l, r)
           more == NewPages(l, n)
           spare == IF Partial(l) THEN 1 ELSE 0
           F == Len(l.free)
           Table(p) == IF p > r.pages THEN Popped(l, p - r.pages + spare)
                       ELSE IF spare = 1 /\ p = r.pages THEN Popped(l, 1) ELSE l.table[p]
           Fill(p) == IF p > r.pages THEN 0 ELSE l.fills[p]
<1>1. /\ r.pages = Len(l.table) /\ r.pages \in Nat /\ more \in Nat /\ spare \in {0, 1}
      /\ F \in Nat /\ more + spare <= F
      /\ l.table \in Seq(Bundle) /\ l.fills \in Seq(0..PageTokens) /\ l.free \in Seq(Bundle)
      /\ Len(l.fills) = r.pages
      /\ r.tail = NoTail <=> ~Partial(l)
      /\ r.tokens = n
      /\ spare = 1 => r.pages > 0
  <2>1. /\ l.table \in Seq(Bundle) /\ l.fills \in Seq(0..PageTokens) /\ l.free \in Seq(Bundle)
        /\ Len(l.fills) = Len(l.table)
    BY DEF Idle, IsLedger
  <2>2. /\ r.pages = Len(l.table) /\ r.pages \in Nat /\ more \in Nat
        /\ more + spare <= F
        /\ r.tail = NoTail <=> ~Partial(l)
        /\ r.tokens = n
        /\ Partial(l) => r.pages > 0
    BY BegunShape
  <2>3. F \in Nat
    BY <2>1
  <2> QED
    BY <2>1, <2>2, <2>3
<1>2. /\ b.table = [p \in 1..(r.pages + more) |-> Table(p)]
      /\ b.fills = [p \in 1..(r.pages + more) |-> Fill(p)]
      /\ b.free = SubSeq(l.free, 1, F - more - spare)
      /\ b.staged = [x \in Layer |-> 0] /\ b.committed = l.committed
  <2>1. (IF r.tail = NoTail THEN 0 ELSE 1) = spare /\ NewPages(l, r.tokens) = more
    BY <1>1
  <2> HIDE DEF r, more, spare
  <2> QED
    BY <2>1 DEF Begun
<1>3. \A i \in 1..F : Popped(l, i) \in Bundle
  <2> TAKE i \in 1..F
  <2>1. F + 1 - i \in 1..F
    BY <1>1
  <2> QED
    BY <1>1, <2>1, SeqElement DEF Popped
<1> HIDE DEF r, b, more, spare, F
<1>4. \A p \in 1..(r.pages + more) : Table(p) \in Bundle
  <2> TAKE p \in 1..(r.pages + more)
  <2>1. CASE p > r.pages
    <3>1. p - r.pages + spare \in 1..F
      BY <1>1, <2>1
    <3> QED
      BY <1>3, <2>1, <3>1
  <2>2. CASE ~(p > r.pages) /\ spare = 1 /\ p = r.pages
    <3>1. 1 \in 1..F
      BY <1>1, <2>2
    <3> QED
      BY <1>3, <2>2, <3>1
  <2>3. CASE ~(p > r.pages) /\ ~(spare = 1 /\ p = r.pages)
    <3>1. p \in 1..Len(l.table)
      BY <1>1, <2>3
    <3>2. l.table[p] \in Bundle
      BY <1>1, <3>1, SeqElement
    <3> QED
      BY <2>3, <3>2
  <2> QED
    BY <2>1, <2>2, <2>3
<1>5. \A p \in 1..(r.pages + more) : Fill(p) \in 0..PageTokens
  <2> TAKE p \in 1..(r.pages + more)
  <2>1. CASE p > r.pages
    BY <2>1, PageAssumption
  <2>2. CASE ~(p > r.pages)
    <3>1. p \in 1..Len(l.fills)
      BY <1>1, <2>2
    <3>2. l.fills[p] \in 0..PageTokens
      BY <1>1, <3>1, SeqElement
    <3> QED
      BY <2>2, <3>2
  <2> QED
    BY <2>1, <2>2
<1>6. /\ b.table \in [1..(r.pages + more) -> Bundle]
      /\ b.fills \in [1..(r.pages + more) -> 0..PageTokens]
  BY <1>2, <1>4, <1>5
<1>7. /\ b.table \in Seq(Bundle) /\ Len(b.table) = r.pages + more
      /\ b.fills \in Seq(0..PageTokens) /\ Len(b.fills) = r.pages + more
  <2>1. r.pages + more \in Nat
    BY <1>1
  <2> QED
    BY <1>6, <2>1, FunctionIsSeq
<1>8. /\ b.free \in Seq(Bundle) /\ Len(b.free) = F - more - spare
      /\ \A i \in 1..Len(b.free) : b.free[i] = l.free[i]
  BY <1>1, <1>2 DEF F
<1>9. \A p \in 1..r.pages : /\ ~Partial(l) \/ p < r.pages => b.table[p] = l.table[p]
                            /\ b.fills[p] = l.fills[p]
  <2> TAKE p \in 1..r.pages
  <2>1. p \in 1..(r.pages + more) /\ ~(p > r.pages)
    BY <1>1
  <2>2. ~Partial(l) \/ p < r.pages => ~(spare = 1 /\ p = r.pages)
    BY <1>1 DEF spare
  <2> QED
    BY <1>2, <2>1, <2>2
<1>10. \A i \in 1..more : b.table[r.pages + i] = l.free[F + 1 - i - spare]
  <2> TAKE i \in 1..more
  <2>1. r.pages + i \in 1..(r.pages + more) /\ r.pages + i > r.pages
    BY <1>1
  <2>2. b.table[r.pages + i] = Popped(l, r.pages + i - r.pages + spare)
    BY <1>1, <1>2, <2>1
  <2>3. F + 1 - (r.pages + i - r.pages + spare) = F + 1 - i - spare
    BY <1>1
  <2> QED
    BY <2>2, <2>3 DEF Popped, F
<1> QED
  BY <1>2, <1>7, <1>8, <1>9, <1>10 DEF r, b, more, spare, F

(* begin_append leaves the ledger with an append in progress. *)
LEMMA BeginExtends ==
  ASSUME NEW l, Idle(l), NEW n \in Nat, CanBegin(l, n)
  PROVE  Extends(Begun(l, Reservation(l, n)), l, n)
<1> DEFINE r == Reservation(l, n)
           b == Begun(l, r)
<1>1. /\ b.table \in Seq(Bundle) /\ b.fills \in Seq(0..PageTokens) /\ b.free \in Seq(Bundle)
      /\ Len(b.fills) = Len(b.table)
      /\ \A p \in 1..r.pages : b.fills[p] = l.fills[p]
      /\ b.staged = [x \in Layer |-> 0] /\ b.committed = l.committed
      /\ r.pages = Len(l.table)
  <2>1. r.pages = Len(l.table)
    BY BegunShape
  <2>2. /\ b.table \in Seq(Bundle) /\ Len(b.table) = r.pages + NewPages(l, n)
        /\ b.fills \in Seq(0..PageTokens) /\ Len(b.fills) = r.pages + NewPages(l, n)
        /\ \A p \in 1..r.pages : b.fills[p] = l.fills[p]
        /\ b.free \in Seq(Bundle)
        /\ b.staged = [x \in Layer |-> 0] /\ b.committed = l.committed
    BY BegunTable
  <2> HIDE DEF r, b
  <2> QED
    BY <2>1, <2>2
<1>2. l.committed \in 0..MaxContext
  BY DEF Idle, IsLedger
<1>3. b.staged \in [Layer -> 0..MaxContext]
  BY <1>1, PageAssumption
<1>4. b = [table |-> b.table, fills |-> b.fills, free |-> b.free,
           staged |-> b.staged, committed |-> b.committed]
  BY DEF Begun
<1> HIDE DEF b, r
<1>5. IsLedger(b)
  BY <1>1, <1>2, <1>3, <1>4 DEF IsLedger
<1>6. \A x \in Layer : b.staged[x] <= n
  <2> TAKE x \in Layer
  <2>1. b.staged[x] = 0
    BY <1>1
  <2> QED
    BY <2>1
<1> QED
  BY <1>1, <1>5, <1>6 DEF Extends, b, r

(* A row that write_location accepts goes to a page of the append: the     *)
(* replaced tail or a new page; and it leaves the append in progress.      *)
LEMMA WriteExtends ==
  ASSUME NEW l, Idle(l), NEW n \in Nat, CanBegin(l, n),
         NEW m, Extends(m, l, n), NEW x \in Layer,
         CanWrite(m, Reservation(l, n), x)
  PROVE  LET at == Location(m, Reservation(l, n), x)
         IN /\ at.page \in 1..Len(m.table)
            /\ at.bundle \in Bundle
            /\ at.within \in 0..(PageTokens - 1)
            /\ Extends(Recorded(m, x, at), l, n)
<1> DEFINE r == Reservation(l, n)
           at == Location(m, r, x)
           t == r.original + m.staged[x]
           d == Recorded(m, x, at)
           fill == IF m.fills[at.page] < at.within + 1 THEN at.within + 1 ELSE m.fills[at.page]
<1>1. /\ r.original = l.committed /\ r.target = l.committed + n /\ r.tokens = n
      /\ r.target \in 1..MaxContext /\ l.committed \in Nat
      /\ r.pages = Len(l.table) /\ r.pages \in Nat
      /\ r.pages + NewPages(l, n) = Pages(r.target)
  BY BegunShape
<1>2. /\ m \in [table : Seq(Bundle), fills : Seq(0..PageTokens), free : Seq(Bundle),
                staged : [Layer -> 0..MaxContext], committed : 0..MaxContext]
      /\ Len(m.fills) = Len(m.table)
      /\ m.table = Begun(l, r).table
  BY DEF Extends, IsLedger
<1>3. Len(m.table) = Pages(r.target)
  BY <1>1, <1>2, BegunTable
<1>4. m.staged[x] \in Nat /\ m.staged[x] < n
  <2>1. m.staged[x] \in 0..MaxContext
    BY <1>2
  <2>2. m.staged[x] < r.tokens
    BY DEF CanWrite
  <2> QED
    BY <2>1, <2>2, <1>1, PageAssumption
<1>5. t \in Nat /\ t >= l.committed /\ t < r.target
  BY <1>1, <1>4
<1>6. at = [page |-> PageOf(t), bundle |-> m.table[PageOf(t)], within |-> Within(t)]
  BY DEF Location
<1>7. Len(l.table) = Pages(l.committed)
  BY DEF Idle
<1> HIDE DEF t, at, r
<1>8. /\ at.page \in 1..Len(m.table) /\ at.within \in 0..(PageTokens - 1)
      /\ at.page >= Len(l.table)
      /\ ~Partial(l) => at.page > Len(l.table)
  <2>1. PageOf(t) \in Nat \ {0} /\ Within(t) \in 0..(PageTokens - 1)
    BY <1>5, PageOfToken
  <2>3. r.target \in Nat
    BY <1>1
  <2>4. PageOf(t) <= Pages(r.target)
    BY <1>5, <2>3, PageOfToken
  <2>5. /\ PageOf(t) >= Pages(l.committed)
        /\ l.committed % PageTokens = 0 => PageOf(t) > Pages(l.committed)
    BY <1>1, <1>5, PageOfToken
  <2>2. Pages(r.target) \in Nat
    BY <1>1, PagesMonotone
  <2> QED
    BY <2>1, <2>2, <2>4, <2>5, <1>3, <1>6, <1>7 DEF Partial
<1>9. at.bundle \in Bundle
  BY <1>2, <1>6, <1>8, SeqElement
<1>10. d = [table |-> m.table, fills |-> [m.fills EXCEPT ![at.page] = fill], free |-> m.free,
            staged |-> [m.staged EXCEPT ![x] = m.staged[x] + 1], committed |-> m.committed]
  <2>1. d = [m EXCEPT !.staged = [m.staged EXCEPT ![x] = m.staged[x] + 1],
                      !.fills = [m.fills EXCEPT ![at.page] = fill]]
    BY DEF Recorded
  <2> HIDE DEF d, fill
  <2> QED
    BY <2>1, <1>2
<1>11. fill \in 0..PageTokens
  <2>1. m.fills[at.page] \in 0..PageTokens
    BY <1>2, <1>8, SeqElement
  <2> QED
    BY <2>1, <1>8, PageAssumption
<1> HIDE DEF fill, d
<1>12. d.fills \in Seq(0..PageTokens) /\ Len(d.fills) = Len(d.table)
  BY <1>2, <1>8, <1>10, <1>11
<1>13. \A p \in 1..Len(l.table) : ~Partial(l) \/ p < Len(l.table) => d.fills[p] = l.fills[p]
  <2> TAKE p \in 1..Len(l.table)
  <2> HAVE ~Partial(l) \/ p < Len(l.table)
  <2>1. m.fills[p] = l.fills[p]
    BY DEF Extends
  <2>2. p # at.page
    BY <1>1, <1>8
  <2>3. p \in DOMAIN m.fills
    BY <1>2, <1>8, <1>1
  <2> QED
    BY <2>1, <2>2, <2>3, <1>10
<1>14. /\ d.staged \in [Layer -> 0..MaxContext]
       /\ \A y \in Layer : d.staged[y] <= n
  <2>1. m.staged[x] + 1 \in 0..MaxContext /\ m.staged[x] + 1 <= n
    BY <1>1, <1>4, PageAssumption
  <2>2. \A y \in Layer : m.staged[y] <= n
    BY DEF Extends
  <2> QED
    BY <2>1, <2>2, <1>2, <1>10
<1>15. IsLedger(d)
  BY <1>2, <1>10, <1>12, <1>14 DEF IsLedger
<1>16. Extends(d, l, n)
  BY <1>10, <1>13, <1>14, <1>15 DEF Extends
<1> QED
  BY <1>8, <1>9, <1>16 DEF d, at, r

(* A sequence is the concatenation of its parts. *)
LEMMA SplitInTwo ==
  ASSUME NEW S, NEW u \in Seq(S), NEW v \in Seq(S), NEW f \in Seq(S),
         Len(f) = Len(u) + Len(v),
         \A i \in 1..Len(u) : u[i] = f[i],
         \A i \in 1..Len(v) : v[i] = f[Len(u) + i]
  PROVE  u \o v = f
<1>1. u \o v \in Seq(S) /\ Len(u \o v) = Len(f) /\ Len(u) \in Nat /\ Len(v) \in Nat
  OBVIOUS
<1>2. ASSUME NEW i \in 1..Len(f) PROVE (u \o v)[i] = f[i]
  <2>1. CASE i <= Len(u)
    BY <2>1
  <2>2. CASE i > Len(u)
    <3>1. i - Len(u) \in 1..Len(v)
      BY <1>1, <2>2
    <3>2. (u \o v)[i] = v[i - Len(u)]
      BY <2>2, <3>1
    <3>3. Len(u) + (i - Len(u)) = i
      BY <1>1
    <3> QED
      BY <3>1, <3>2, <3>3
  <2> QED
    BY <2>1, <2>2, <1>1
<1> QED
  BY <1>1, <1>2

(* publish_commit leaves an idle ledger: the pages of the longer sequence, *)
(* and the replaced tail back on the stack.                                *)
LEMMA PublishIdles ==
  ASSUME NEW l, Idle(l), NEW n \in Nat, CanBegin(l, n), NEW m, Extends(m, l, n)
  PROVE  Idle(Published(m, Reservation(l, n)))
<1> DEFINE r == Reservation(l, n)
           d == Published(m, r)
           spare == IF Partial(l) THEN 1 ELSE 0
           more == NewPages(l, n)
           free == IF r.tail = NoTail THEN m.free ELSE Append(m.free, r.tail.original)
<1>1. /\ r.target \in 1..MaxContext
      /\ r.pages = Len(l.table) /\ r.pages \in Nat /\ more \in Nat
      /\ r.pages + more = Pages(r.target)
      /\ r.tail = NoTail <=> ~Partial(l)
      /\ Partial(l) => r.pages > 0 /\ r.tail.original = l.table[r.pages]
  <2>1. /\ r.target \in 1..MaxContext
        /\ r.pages = Len(l.table) /\ r.pages \in Nat /\ more \in Nat
        /\ r.pages + more = Pages(r.target)
        /\ r.tail = NoTail <=> ~Partial(l)
        /\ Partial(l) =>
             /\ r.pages > 0
             /\ r.tail = [page |-> r.pages, original |-> l.table[r.pages],
                         fill |-> l.fills[r.pages], replacement |-> l.free[Len(l.free)]]
    BY BegunShape
  <2> HIDE DEF r, more
  <2> QED
    BY <2>1
<1>2. /\ m \in [table : Seq(Bundle), fills : Seq(0..PageTokens), free : Seq(Bundle),
                staged : [Layer -> 0..MaxContext], committed : 0..MaxContext]
      /\ Len(m.fills) = Len(m.table)
      /\ m.table = Begun(l, r).table /\ m.free = Begun(l, r).free
  BY DEF Extends, IsLedger
<1>3. Len(m.table) = r.pages + more /\ Len(m.free) = Len(l.free) - more - spare
  BY <1>2, BegunTable
<1>4. /\ l.table \in Seq(Bundle) /\ l.free \in Seq(Bundle)
      /\ Len(l.free) + r.pages = PageCount + 1
  BY <1>1 DEF Idle, IsLedger
<1>5. PageCount \in Nat /\ Len(l.free) \in Nat
  BY <1>4, BundleNumbers
<1>6. d = [table |-> m.table, fills |-> m.fills, free |-> free,
           staged |-> [x \in Layer |-> 0], committed |-> r.target]
  <2>1. d = [m EXCEPT !.committed = r.target, !.free = free, !.staged = [x \in Layer |-> 0]]
    BY DEF Published
  <2> HIDE DEF d, free, r
  <2> QED
    BY <2>1, <1>2
<1> HIDE DEF d, r, more
<1>7. free \in Seq(Bundle) /\ Len(free) = Len(m.free) + spare
  <2>1. CASE ~Partial(l)
    BY <2>1, <1>1, <1>2, <1>3, <1>5
  <2>2. CASE Partial(l)
    <3>1. r.pages \in 1..Len(l.table)
      BY <1>1, <2>2
    <3>2. r.tail.original \in Bundle
      BY <1>1, <1>4, <2>2, <3>1, SeqElement
    <3>3. free = Append(m.free, r.tail.original)
      BY <1>1, <2>2
    <3> HIDE DEF free
    <3> QED
      BY <1>2, <2>2, <3>2, <3>3
  <2> QED
    BY <2>1, <2>2
<1> HIDE DEF free
<1>8. Len(free) + Len(m.table) = PageCount + 1
  <2>1. spare \in Nat
    OBVIOUS
  <2> HIDE DEF spare
  <2>2. r.pages \in Nat /\ more \in Nat
    BY <1>1
  <2> QED
    BY <2>1, <2>2, <1>3, <1>4, <1>5, <1>7
<1>9. /\ [x \in Layer |-> 0] \in [Layer -> 0..MaxContext]
      /\ r.target \in 0..MaxContext
  BY <1>1, PageAssumption
<1>10. IsLedger(d)
  BY <1>2, <1>6, <1>7, <1>9 DEF IsLedger
<1>11. Idle(d)
  BY <1>1, <1>3, <1>6, <1>8, <1>10 DEF Idle
<1> QED
  BY <1>11 DEF d, r

(* "drop restores all logical committed state": rollback gives back the    *)
(* ledger the append began from, whatever the append wrote and placed.     *)
LEMMA RollBackRestores ==
  ASSUME NEW l, Idle(l), NEW n \in Nat, CanBegin(l, n), NEW m, Extends(m, l, n)
  PROVE  RolledBack(m, Reservation(l, n)) = l
<1> DEFINE r == Reservation(l, n)
           b == Begun(l, r)
           spare == IF Partial(l) THEN 1 ELSE 0
           more == NewPages(l, n)
           F == Len(l.free)
           Old(p) == r.tail # NoTail /\ p = r.tail.page
           table == [p \in 1..r.pages |-> IF Old(p) THEN r.tail.original ELSE m.table[p]]
           fills == [p \in 1..r.pages |-> IF Old(p) THEN r.tail.fill ELSE m.fills[p]]
           back == [i \in 1..(Len(m.table) - r.pages) |-> m.table[Len(m.table) + 1 - i]]
           last == IF r.tail = NoTail THEN <<>> ELSE <<r.tail.replacement>>
           free == m.free \o back \o last
<1>1. /\ r.pages = Len(l.table) /\ r.pages \in Nat /\ more \in Nat /\ more + spare <= F
      /\ r.tail = NoTail <=> ~Partial(l)
      /\ Partial(l) => /\ r.pages > 0
                       /\ r.tail = [page |-> r.pages, original |-> l.table[r.pages],
                                    fill |-> l.fills[r.pages], replacement |-> l.free[F]]
  BY BegunShape
<1>2. /\ m.committed = l.committed /\ m.table = b.table /\ m.free = b.free
      /\ \A p \in 1..Len(l.table) : ~Partial(l) \/ p < Len(l.table) => m.fills[p] = l.fills[p]
  BY DEF Extends
<1>3. /\ b.table \in Seq(Bundle) /\ Len(b.table) = r.pages + more
      /\ \A p \in 1..r.pages : ~Partial(l) \/ p < r.pages => b.table[p] = l.table[p]
      /\ \A i \in 1..more : b.table[r.pages + i] = l.free[F + 1 - i - spare]
      /\ b.free \in Seq(Bundle) /\ Len(b.free) = F - more - spare
      /\ \A i \in 1..Len(b.free) : b.free[i] = l.free[i]
  BY BegunTable
<1>4. /\ l \in [table : Seq(Bundle), fills : Seq(0..PageTokens), free : Seq(Bundle),
                staged : [Layer -> 0..MaxContext], committed : 0..MaxContext]
      /\ Len(l.fills) = Len(l.table)
      /\ l.staged = [x \in Layer |-> 0]
  BY DEF Idle, IsLedger
<1>5. RolledBack(m, r) = [table |-> table, fills |-> fills, free |-> free,
                          staged |-> [x \in Layer |-> 0], committed |-> m.committed]
  BY DEF RolledBack
<1>6. /\ l.table = [p \in 1..r.pages |-> l.table[p]]
      /\ l.fills = [p \in 1..r.pages |-> l.fills[p]]
  BY <1>1, <1>4
<1> HIDE DEF r, b, more, F
<1>7. \A p \in 1..r.pages :
        /\ Old(p) => Partial(l) /\ p = r.pages
        /\ ~Old(p) => ~Partial(l) \/ p < r.pages
  BY <1>1
<1>8. table = l.table
  <2>1. ASSUME NEW p \in 1..r.pages
        PROVE  (IF Old(p) THEN r.tail.original ELSE m.table[p]) = l.table[p]
    <3>1. CASE Old(p)
      BY <3>1, <1>1, <1>7
    <3>2. CASE ~Old(p)
      BY <3>2, <1>2, <1>3, <1>7
    <3> QED
      BY <3>1, <3>2
  <2> HIDE DEF Old
  <2> QED
    BY <2>1, <1>6
<1>9. fills = l.fills
  <2>1. ASSUME NEW p \in 1..r.pages
        PROVE  (IF Old(p) THEN r.tail.fill ELSE m.fills[p]) = l.fills[p]
    <3>1. CASE Old(p)
      BY <3>1, <1>1, <1>7
    <3>2. CASE ~Old(p)
      <4>1. ~Partial(l) \/ p < Len(l.table)
        BY <3>2, <1>1, <1>7
      <4>2. p \in 1..Len(l.table)
        BY <1>1
      <4> QED
        BY <3>2, <4>1, <4>2, <1>2
    <3> QED
      BY <3>1, <3>2
  <2> HIDE DEF Old
  <2> QED
    BY <2>1, <1>6
<1>10. free = l.free
  <2>1. F \in Nat /\ spare \in {0, 1} /\ (spare = 1 <=> Partial(l)) /\ F = Len(l.free)
    BY <1>4 DEF F
  <2> HIDE DEF spare
  <2>2. Len(m.table) - r.pages = more /\ m.free \in Seq(Bundle) /\ Len(m.free) = F - more - spare
    BY <1>1, <1>2, <1>3
  <2>3. /\ back \in Seq(Bundle) /\ Len(back) = more
        /\ \A i \in 1..more : back[i] = l.free[F - more - spare + i]
    <3>1. \A i \in 1..more : /\ m.table[Len(m.table) + 1 - i] = l.free[F - more - spare + i]
                             /\ m.table[Len(m.table) + 1 - i] \in Bundle
      <4> TAKE i \in 1..more
      <4>1. /\ more + 1 - i \in 1..more
            /\ Len(m.table) + 1 - i = r.pages + (more + 1 - i)
            /\ Len(m.table) + 1 - i \in 1..Len(m.table)
        <5>1. r.pages \in Nat /\ more \in Nat /\ Len(m.table) = r.pages + more
          BY <1>1, <1>2, <1>3
        <5> QED
          BY <5>1
      <4>2. m.table[r.pages + (more + 1 - i)] = l.free[F + 1 - (more + 1 - i) - spare]
        <5> DEFINE j == more + 1 - i
        <5>1. j \in 1..more
          BY <4>1
        <5> HIDE DEF j
        <5>2. m.table[r.pages + j] = l.free[F + 1 - j - spare]
          BY <5>1, <1>2, <1>3
        <5> QED
          BY <5>2 DEF j
      <4>3. F + 1 - (more + 1 - i) - spare = F - more - spare + i
        <5>1. F \in Int /\ more \in Int /\ spare \in Int /\ i \in Int
          BY <1>1, <2>1
        <5> QED
          BY <5>1
      <4>4. m.table[Len(m.table) + 1 - i] \in Bundle
        BY <4>1, <1>2, <1>3, SeqElement
      <4> QED
        BY <4>1, <4>2, <4>3, <4>4
    <3>2. back = [i \in 1..more |-> m.table[Len(m.table) + 1 - i]]
      BY <2>2
    <3> HIDE DEF back
    <3>3. back \in [1..more -> Bundle]
      BY <3>1, <3>2
    <3> QED
      BY <3>1, <3>2, <3>3, <1>1, FunctionIsSeq
  <2>4. last \in Seq(Bundle) /\ Len(last) = spare /\ (spare = 1 => last[1] = l.free[F])
    <3>1. CASE ~Partial(l)
      BY <3>1, <1>1, <2>1
    <3>2. CASE Partial(l)
      <4>1. last = <<l.free[F]>>
        BY <3>2, <1>1
      <4>2. F \in 1..Len(l.free)
        BY <3>2, <1>1, <2>1
      <4>3. l.free[F] \in Bundle
        BY <4>2, <1>4, SeqElement
      <4> HIDE DEF last
      <4> QED
        BY <4>1, <4>3, <3>2, <2>1
    <3> QED
      BY <3>1, <3>2
  <2> HIDE DEF back, last
  <2>5. /\ F \in Nat /\ more \in Nat /\ spare \in Nat /\ F - more - spare \in Nat
        /\ Len(m.free) = F - more - spare
    BY <1>1, <2>1, <2>2
  <2> DEFINE rest == SubSeq(l.free, 1, F - spare)
  <2>6. /\ rest \in Seq(Bundle) /\ Len(rest) = F - spare
        /\ \A i \in 1..(F - spare) : rest[i] = l.free[i]
    BY <2>1, <2>5, <1>4
  <2> HIDE DEF rest
  <2>7. m.free \o back = rest
    <3>1. Len(rest) = Len(m.free) + Len(back)
      BY <2>3, <2>5, <2>6
    <3>2. \A i \in 1..Len(m.free) : m.free[i] = rest[i]
      <4> TAKE i \in 1..Len(m.free)
      <4>1. m.free[i] = l.free[i]
        BY <1>2, <1>3
      <4>2. i \in 1..(F - spare)
        BY <2>5
      <4> QED
        BY <4>1, <4>2, <2>6
    <3>3. \A i \in 1..Len(back) : back[i] = rest[Len(m.free) + i]
      <4> TAKE i \in 1..Len(back)
      <4>1. i \in 1..more /\ back[i] = l.free[F - more - spare + i]
        BY <2>3
      <4>2. F - more - spare + i \in 1..(F - spare)
        BY <4>1, <2>5
      <4> QED
        BY <4>1, <4>2, <2>5, <2>6
    <3> QED
      BY <3>1, <3>2, <3>3, <2>2, <2>3, <2>6, SplitInTwo
  <2>8. rest \o last = l.free
    <3>1. Len(l.free) = Len(rest) + Len(last)
      BY <2>1, <2>4, <2>5, <2>6
    <3>2. \A i \in 1..Len(rest) : rest[i] = l.free[i]
      BY <2>6
    <3>3. \A i \in 1..Len(last) : last[i] = l.free[Len(rest) + i]
      <4> TAKE i \in 1..Len(last)
      <4>1. i = 1 /\ spare = 1
        BY <2>1, <2>4
      <4>2. Len(rest) + i = F
        BY <4>1, <2>5, <2>6
      <4> QED
        BY <4>1, <4>2, <2>4
    <3> QED
      <4>1. l.free \in Seq(Bundle)
        BY <1>4
      <4> QED
        BY <4>1, <3>1, <3>2, <3>3, <2>4, <2>6, SplitInTwo
  <2> QED
    BY <2>7, <2>8
<1> HIDE DEF table, fills, free
<1> QED
  BY <1>2, <1>4, <1>5, <1>8, <1>9, <1>10 DEF r

------------------------------------------------------------------------------
(* Where the bundles are.                                                  *)

(* Every bundle is the storage of one page or lies once on the stack. *)
Whole(l) ==
  /\ \A p, q \in 1..Len(l.table) : l.table[p] = l.table[q] => p = q
  /\ \A i, j \in 1..Len(l.free) : l.free[i] = l.free[j] => i = j
  /\ \A p \in 1..Len(l.table), i \in 1..Len(l.free) : l.table[p] # l.free[i]
  /\ \A b \in Bundle : \/ \E p \in 1..Len(l.table) : l.table[p] = b
                       \/ \E i \in 1..Len(l.free) : l.free[i] = b

(* begin_append keeps the first k pages and takes the bundles of the others*)
(* from the top of the stack, the copy of the tail first.                  *)
LEMMA BegunPlaces ==
  ASSUME NEW l, Idle(l), NEW n \in Nat, CanBegin(l, n)
  PROVE  LET r == Reservation(l, n)
             b == Begun(l, r)
             k == IF Partial(l) THEN Len(l.table) - 1 ELSE Len(l.table)
             taken == Len(b.table) - k
         IN /\ k \in Nat /\ taken \in Nat
            /\ Len(b.free) \in Nat /\ Len(l.free) = Len(b.free) + taken
            /\ \A p \in 1..k : b.table[p] = l.table[p]
            /\ \A i \in 1..taken : b.table[k + i] = l.free[Len(l.free) + 1 - i]
            /\ \A i \in 1..Len(b.free) : b.free[i] = l.free[i]
            /\ r.tail = NoTail <=> ~Partial(l)
            /\ Partial(l) => r.tail.original = l.table[k + 1]
<1> DEFINE r == Reservation(l, n)
           b == Begun(l, r)
           more == NewPages(l, n)
           spare == IF Partial(l) THEN 1 ELSE 0
           F == Len(l.free)
           k == IF Partial(l) THEN Len(l.table) - 1 ELSE Len(l.table)
           taken == Len(b.table) - k
<1>1. /\ r.pages = Len(l.table) /\ r.pages \in Nat /\ more \in Nat
      /\ r.tail = NoTail <=> ~Partial(l)
      /\ r.tokens = n
      /\ Partial(l) =>
           /\ r.pages > 0
           /\ r.tail = [page |-> r.pages, original |-> l.table[r.pages],
                       fill |-> l.fills[r.pages], replacement |-> l.free[Len(l.free)]]
      /\ more + spare <= F
  BY BegunShape
<1>2. /\ Len(b.table) = r.pages + more
      /\ \A p \in 1..r.pages : ~Partial(l) \/ p < r.pages => b.table[p] = l.table[p]
      /\ \A i \in 1..more : b.table[r.pages + i] = l.free[F + 1 - i - spare]
      /\ Len(b.free) = F - more - spare
      /\ \A i \in 1..Len(b.free) : b.free[i] = l.free[i]
  BY BegunTable
<1>3. Partial(l) => b.table[r.pages] = l.free[F]
  <2> HAVE Partial(l)
  <2>1. b.table = [p \in 1..(r.pages + NewPages(l, r.tokens)) |->
                     IF p > r.pages THEN Popped(l, p - r.pages + 1)
                     ELSE IF 1 = 1 /\ p = r.pages THEN Popped(l, 1) ELSE l.table[p]]
    <3>1. r.tail # NoTail
      BY <1>1
    <3> HIDE DEF r
    <3> QED
      BY <3>1 DEF Begun
  <2>2. r.pages \in 1..(r.pages + NewPages(l, r.tokens)) /\ ~(r.pages > r.pages)
    BY <1>1
  <2>3. F \in Nat
    BY DEF Idle, IsLedger
  <2>4. Popped(l, 1) = l.free[F]
    BY <2>3 DEF Popped
  <2> HIDE DEF r, b
  <2> QED
    BY <2>1, <2>2, <2>4
<1>4. F \in Nat
  BY DEF Idle, IsLedger
<1> HIDE DEF r, b, more, F
<1>a. spare \in {0, 1} /\ (spare = 1 <=> Partial(l)) /\ k = r.pages - spare
  BY <1>1
<1> HIDE DEF k, spare
<1>5. k \in Nat /\ taken = more + spare /\ taken \in Nat /\ Len(b.free) = F - taken
  <2>1. spare = 1 => r.pages > 0
    BY <1>1, <1>a
  <2>2. Len(b.table) = r.pages + more /\ Len(b.free) = F - more - spare /\ more + spare <= F
    BY <1>1, <1>2 DEF spare
  <2>3. r.pages \in Nat /\ more \in Nat /\ spare \in {0, 1} /\ k = r.pages - spare
    BY <1>1, <1>a
  <2>4. taken = Len(b.table) - k
    OBVIOUS
  <2> HIDE DEF taken
  <2>5. k \in Nat
    BY <2>1, <2>3
  <2>6. taken = more + spare
    BY <2>2, <2>3, <2>4
  <2> QED
    BY <2>2, <2>3, <2>5, <2>6, <1>4
<1> HIDE DEF taken
<1>6. \A p \in 1..k : b.table[p] = l.table[p]
  <2> TAKE p \in 1..k
  <2>1. p \in 1..r.pages /\ (~Partial(l) \/ p < r.pages)
    BY <1>1, <1>5, <1>a
  <2> QED
    BY <2>1, <1>2
<1>0. \A i \in 1..more : b.table[r.pages + i] = l.free[F + 1 - i - spare]
  BY <1>2 DEF spare
<1>7. \A i \in 1..taken : b.table[k + i] = l.free[F + 1 - i]
  <2> TAKE i \in 1..taken
  <2>1. CASE ~Partial(l)
    <3>1. i \in 1..more /\ k + i = r.pages + i /\ F + 1 - i - spare = F + 1 - i
      BY <2>1, <1>1, <1>4, <1>5, <1>a
    <3> QED
      BY <3>1, <1>0
  <2>2. CASE Partial(l) /\ i = 1
    <3>1. k + i = r.pages /\ F + 1 - i = F
      BY <2>2, <1>1, <1>4, <1>a
    <3> QED
      BY <3>1, <2>2, <1>3
  <2>3. CASE Partial(l) /\ i # 1
    <3>1. /\ i - 1 \in 1..more /\ k + i = r.pages + (i - 1)
          /\ F + 1 - (i - 1) - spare = F + 1 - i
      BY <2>3, <1>1, <1>4, <1>5, <1>a
    <3> DEFINE j == i - 1
    <3> HIDE DEF j
    <3>2. b.table[r.pages + j] = l.free[F + 1 - j - spare]
      BY <3>1, <1>0 DEF j
    <3> QED
      BY <3>1, <3>2 DEF j
  <2> QED
    BY <2>1, <2>2, <2>3
<1>8. Partial(l) => r.tail.original = l.table[k + 1]
  <2> HAVE Partial(l)
  <2>1. k + 1 = r.pages
    BY <1>1, <1>a
  <2> QED
    BY <2>1, <1>1
<1>9. Len(b.free) \in Nat /\ F = Len(b.free) + taken
  BY <1>4, <1>5, <1>1, <1>2
<1>10. \A i \in 1..Len(b.free) : b.free[i] = l.free[i]
  BY <1>2
<1>11. r.tail = NoTail <=> ~Partial(l)
  BY <1>1
<1> QED
  BY <1>5, <1>6, <1>7, <1>8, <1>9, <1>10, <1>11 DEF r, b, F, k, taken

(* With an append open every bundle is the storage of one page, lies once  *)
(* on the stack, or is the one the tail had.                               *)
Apart(m, r) ==
  LET aside == r.tail # NoTail
  IN /\ \A p, q \in 1..Len(m.table) : m.table[p] = m.table[q] => p = q
     /\ \A i, j \in 1..Len(m.free) : m.free[i] = m.free[j] => i = j
     /\ \A p \in 1..Len(m.table), i \in 1..Len(m.free) : m.table[p] # m.free[i]
     /\ aside => /\ \A p \in 1..Len(m.table) : m.table[p] # r.tail.original
                 /\ \A i \in 1..Len(m.free) : m.free[i] # r.tail.original
     /\ \A b \in Bundle : \/ \E p \in 1..Len(m.table) : m.table[p] = b
                          \/ \E i \in 1..Len(m.free) : m.free[i] = b
                          \/ aside /\ r.tail.original = b

LEMMA ExtendsApart ==
  ASSUME NEW l, Idle(l), Whole(l), NEW n \in Nat, CanBegin(l, n), NEW m, Extends(m, l, n)
  PROVE  Apart(m, Reservation(l, n))
<1> DEFINE r == Reservation(l, n)
           k == IF Partial(l) THEN Len(l.table) - 1 ELSE Len(l.table)
           taken == Len(m.table) - k
           T == Len(m.table)  R == Len(m.free)  F == Len(l.free)  P == Len(l.table)
<1>1. m.table = Begun(l, r).table /\ m.free = Begun(l, r).free
  BY DEF Extends
<1>2. /\ k \in Nat /\ taken \in Nat
      /\ R \in Nat /\ F = R + taken
      /\ \A p \in 1..k : m.table[p] = l.table[p]
      /\ \A i \in 1..taken : m.table[k + i] = l.free[F + 1 - i]
      /\ \A i \in 1..R : m.free[i] = l.free[i]
      /\ r.tail = NoTail <=> ~Partial(l)
      /\ Partial(l) => r.tail.original = l.table[k + 1]
  <2> DEFINE b == Begun(l, r)
  <2>1. /\ k \in Nat /\ Len(b.table) - k \in Nat
        /\ Len(b.free) \in Nat /\ F = Len(b.free) + (Len(b.table) - k)
        /\ \A p \in 1..k : b.table[p] = l.table[p]
        /\ \A i \in 1..(Len(b.table) - k) : b.table[k + i] = l.free[F + 1 - i]
        /\ \A i \in 1..Len(b.free) : b.free[i] = l.free[i]
        /\ r.tail = NoTail <=> ~Partial(l)
        /\ Partial(l) => r.tail.original = l.table[k + 1]
    BY BegunPlaces
  <2>2. m.table = b.table /\ m.free = b.free
    BY <1>1
  <2> HIDE DEF b, k, F, r
  <2> QED
    BY <2>1, <2>2
<1>3. P \in Nat /\ F \in Nat /\ T \in Nat /\ k <= P /\ (Partial(l) => k + 1 = P) /\ (~Partial(l) => k = P)
  <2>1. P \in Nat /\ F \in Nat /\ T \in Nat
    BY DEF Idle, Extends, IsLedger
  <2> QED
    BY <2>1
<1>4. T = k + taken
  BY <1>2, <1>3
<1> HIDE DEF r, k, taken, T, R, F, P
<1>5. \A p \in 1..T : \/ p \in 1..k /\ p \in 1..P /\ m.table[p] = l.table[p]
                      \/ /\ p > k /\ F + 1 - (p - k) \in (R + 1)..F /\ F + 1 - (p - k) \in 1..F
                         /\ m.table[p] = l.free[F + 1 - (p - k)]
  <2> TAKE p \in 1..T
  <2>1. CASE p <= k
    BY <2>1, <1>2, <1>3, <1>4
  <2>2. CASE p > k
    <3>1. p - k \in 1..taken /\ k + (p - k) = p
      BY <2>2, <1>2, <1>4
    <3> DEFINE i == p - k
    <3>2. i \in 1..taken
      BY <3>1
    <3> HIDE DEF i
    <3>3. m.table[k + i] = l.free[F + 1 - i]
      BY <3>2, <1>2
    <3>4. F + 1 - i \in (R + 1)..F /\ F + 1 - i \in 1..F
      BY <3>2, <1>2
    <3> QED
      BY <3>1, <3>3, <3>4, <2>2 DEF i
  <2> QED
    BY <2>1, <2>2, <1>2
<1>6. \A i \in 1..R : i \in 1..F /\ m.free[i] = l.free[i]
  BY <1>2
<1>7. /\ \A p, q \in 1..P : l.table[p] = l.table[q] => p = q
      /\ \A i, j \in 1..F : l.free[i] = l.free[j] => i = j
      /\ \A p \in 1..P, i \in 1..F : l.table[p] # l.free[i]
      /\ \A b \in Bundle : \/ \E p \in 1..P : l.table[p] = b
                           \/ \E i \in 1..F : l.free[i] = b
  BY DEF Whole, P, F
<1>8. \A p, q \in 1..T : m.table[p] = m.table[q] => p = q
  <2> TAKE p, q \in 1..T
  <2> HAVE m.table[p] = m.table[q]
  <2>1. CASE p <= k /\ q <= k
    BY <2>1, <1>2, <1>5, <1>7
  <2>2. CASE p > k /\ q > k
    <3>1. F + 1 - (p - k) = F + 1 - (q - k)
      BY <2>2, <1>2, <1>5, <1>7
    <3> QED
      BY <3>1, <1>2, <1>3
  <2>3. CASE (p <= k /\ q > k) \/ (p > k /\ q <= k)
    BY <2>3, <1>2, <1>5, <1>7
  <2> QED
    BY <2>1, <2>2, <2>3, <1>2
<1>9. \A i, j \in 1..R : m.free[i] = m.free[j] => i = j
  BY <1>6, <1>7
<1>10. \A p \in 1..T, i \in 1..R : m.table[p] # m.free[i]
  <2> TAKE p \in 1..T, i \in 1..R
  <2>1. i \in 1..F /\ m.free[i] = l.free[i] /\ i \notin (R + 1)..F
    BY <1>2, <1>6
  <2> QED
    BY <2>1, <1>5, <1>7
<1>11. ASSUME r.tail # NoTail
       PROVE  /\ \A p \in 1..T : m.table[p] # r.tail.original
              /\ \A i \in 1..R : m.free[i] # r.tail.original
  <2>1. k + 1 \in 1..P /\ k + 1 \notin 1..k /\ r.tail.original = l.table[k + 1]
    BY <1>11, <1>2, <1>3
  <2> QED
    BY <2>1, <1>5, <1>6, <1>7
<1>12. ASSUME NEW b \in Bundle
       PROVE  \/ \E p \in 1..T : m.table[p] = b
              \/ \E i \in 1..R : m.free[i] = b
              \/ r.tail # NoTail /\ r.tail.original = b
  <2>1. ASSUME NEW p \in 1..P, l.table[p] = b, p <= k PROVE p \in 1..T /\ m.table[p] = b
    BY <2>1, <1>2, <1>4
  <2>2. ASSUME NEW p \in 1..P, l.table[p] = b, p > k
        PROVE  r.tail # NoTail /\ r.tail.original = b
    <3>1. Partial(l) /\ p = k + 1
      BY <2>2, <1>2, <1>3
    <3> QED
      BY <3>1, <2>2, <1>2
  <2>3. ASSUME NEW i \in 1..F, l.free[i] = b, i <= R PROVE i \in 1..R /\ m.free[i] = b
    BY <2>3, <1>2
  <2>4. ASSUME NEW i \in 1..F, l.free[i] = b, i > R PROVE \E p \in 1..T : m.table[p] = b
    <3> DEFINE j == F + 1 - i
    <3>1. j \in 1..taken /\ F + 1 - j = i /\ k + j \in 1..T
      BY <2>4, <1>2, <1>3, <1>4
    <3> HIDE DEF j
    <3>2. m.table[k + j] = l.free[F + 1 - j]
      BY <3>1, <1>2
    <3> QED
      BY <3>1, <3>2, <2>4
  <2>5. (\E p \in 1..P : l.table[p] = b) \/ (\E i \in 1..F : l.free[i] = b)
    BY <1>7
  <2>6. (\A p \in 1..P : p <= k \/ p > k) /\ (\A i \in 1..F : i <= R \/ i > R)
    BY <1>2
  <2> QED
    BY <2>1, <2>2, <2>3, <2>4, <2>5, <2>6
<1> QED
  BY <1>8, <1>9, <1>10, <1>11, <1>12 DEF Apart, T, R, r

(* publish_commit puts the bundle set aside back on the stack. *)
LEMMA PublishKeepsWhole ==
  ASSUME NEW m, IsLedger(m), NEW r, Apart(m, r)
  PROVE  Whole(Published(m, r))
<1> DEFINE d == Published(m, r)
           T == Len(m.table)  R == Len(m.free)
<1>1. /\ m \in [table : Seq(Bundle), fills : Seq(0..PageTokens), free : Seq(Bundle),
                staged : [Layer -> 0..MaxContext], committed : 0..MaxContext]
      /\ T \in Nat /\ R \in Nat
  BY DEF IsLedger
<1>2. d.table = m.table
      /\ d.free = IF r.tail = NoTail THEN m.free ELSE Append(m.free, r.tail.original)
  BY <1>1 DEF Published
<1> HIDE DEF d
<1>3. CASE r.tail = NoTail
  BY <1>2, <1>3 DEF Apart, Whole, d
<1>4. CASE r.tail # NoTail
  <2> DEFINE o == r.tail.original
  <2>1. Len(d.free) = R + 1 /\ d.free[R + 1] = o /\ \A i \in 1..R : d.free[i] = m.free[i]
    BY <1>1, <1>2, <1>4
  <2>2. /\ \A p, q \in 1..T : m.table[p] = m.table[q] => p = q
        /\ \A i, j \in 1..R : m.free[i] = m.free[j] => i = j
        /\ \A p \in 1..T, i \in 1..R : m.table[p] # m.free[i]
        /\ \A p \in 1..T : m.table[p] # o
        /\ \A i \in 1..R : m.free[i] # o
        /\ \A b \in Bundle : \/ \E p \in 1..T : m.table[p] = b
                             \/ \E i \in 1..R : m.free[i] = b
                             \/ o = b
    BY <1>4 DEF Apart
  <2> HIDE DEF o, T, R
  <2>3. \A i \in 1..(R + 1) : i \in 1..R \/ i = R + 1
    BY <1>1
  <2>4. \A i, j \in 1..(R + 1) : d.free[i] = d.free[j] => i = j
    BY <2>1, <2>2, <2>3
  <2>5. \A p \in 1..T, i \in 1..(R + 1) : d.table[p] # d.free[i]
    BY <1>2, <2>1, <2>2, <2>3
  <2>6. ASSUME NEW b \in Bundle
        PROVE  \/ \E p \in 1..T : d.table[p] = b
               \/ \E i \in 1..(R + 1) : d.free[i] = b
    <3>1. R + 1 \in 1..(R + 1) /\ \A i \in 1..R : i \in 1..(R + 1)
      BY <1>1
    <3> QED
      BY <1>2, <2>1, <2>2, <3>1
  <2> QED
    BY <1>2, <2>1, <2>2, <2>4, <2>5, <2>6 DEF Whole, d, T
<1> QED
  BY <1>3, <1>4

(* The fill counters cover what a reader may be shown.                     *)
Shown(l, x, t) == PageOf(t) \in 1..Len(l.table) /\ Within(t) < l.fills[PageOf(t)]
Filled(l) == \A x \in Layer : \A t \in 0..(l.committed + l.staged[x] - 1) : Shown(l, x, t)

(* begin_append keeps the fills of the old pages; nothing is staged yet. *)
LEMMA BeginKeepsFilled ==
  ASSUME NEW l, Idle(l), Filled(l), NEW n \in Nat, CanBegin(l, n)
  PROVE  Filled(Begun(l, Reservation(l, n)))
<1> DEFINE r == Reservation(l, n)
           b == Begun(l, r)
<1>1. /\ r.pages = Len(l.table) /\ r.pages \in Nat /\ NewPages(l, n) \in Nat
  BY BegunShape
<1>2. /\ Len(b.table) = r.pages + NewPages(l, n)
      /\ \A p \in 1..r.pages : b.fills[p] = l.fills[p]
      /\ b.staged = [x \in Layer |-> 0] /\ b.committed = l.committed
  BY BegunTable
<1>3. l.staged = [x \in Layer |-> 0]
  BY DEF Idle
<1> HIDE DEF b, r
<1> SUFFICES ASSUME NEW x \in Layer, NEW t \in 0..(b.committed + b.staged[x] - 1)
             PROVE  Shown(b, x, t)
  BY DEF Filled, b, r
<1>4. Shown(l, x, t)
  BY <1>2, <1>3 DEF Filled
<1>5. PageOf(t) \in 1..r.pages /\ PageOf(t) \in 1..Len(b.table)
  BY <1>1, <1>2, <1>4 DEF Shown
<1> QED
  BY <1>2, <1>4, <1>5 DEF Shown

(* write_row raises the fill of the page it writes and lowers none. *)
LEMMA WriteKeepsFilled ==
  ASSUME NEW l, Idle(l), NEW n \in Nat, CanBegin(l, n),
         NEW m, Extends(m, l, n), Filled(m), NEW x \in Layer,
         CanWrite(m, Reservation(l, n), x)
  PROVE  Filled(Recorded(m, x, Location(m, Reservation(l, n), x)))
<1> DEFINE r == Reservation(l, n)
           at == Location(m, r, x)
           d == Recorded(m, x, at)
           fill == IF m.fills[at.page] < at.within + 1 THEN at.within + 1 ELSE m.fills[at.page]
           new == r.original + m.staged[x]
<1>1. /\ at.page \in 1..Len(m.table) /\ at.within \in 0..(PageTokens - 1)
  BY WriteExtends
<1>2. at.page = PageOf(new) /\ at.within = Within(new)
  BY DEF Location
<1>3. r.original = m.committed /\ m.committed = l.committed
  BY DEF Reservation, Extends
<1>4. /\ m \in [table : Seq(Bundle), fills : Seq(0..PageTokens), free : Seq(Bundle),
                staged : [Layer -> 0..MaxContext], committed : 0..MaxContext]
      /\ Len(m.fills) = Len(m.table)
  BY DEF Extends, IsLedger
<1>5. /\ d.table = m.table /\ d.committed = m.committed
      /\ d.staged = [m.staged EXCEPT ![x] = m.staged[x] + 1]
      /\ d.fills = [m.fills EXCEPT ![at.page] = fill]
  <2>1. d = [m EXCEPT !.staged = [m.staged EXCEPT ![x] = m.staged[x] + 1],
                      !.fills = [m.fills EXCEPT ![at.page] = fill]]
    BY DEF Recorded
  <2> HIDE DEF d, fill
  <2> QED
    BY <2>1, <1>4
<1>6. m.fills[at.page] \in Nat /\ at.within \in Nat
  <2>1. m.fills[at.page] \in 0..PageTokens
    BY <1>1, <1>4, SeqElement
  <2> QED
    BY <2>1, <1>1, PageAssumption
<1>7. fill \in Nat /\ fill > at.within /\ fill >= m.fills[at.page]
  BY <1>6
<1> HIDE DEF d, at, fill, new, r
<1>8. \A p \in 1..Len(m.table) :
        d.fills[p] = IF p = at.page THEN fill ELSE m.fills[p]
  BY <1>1, <1>4, <1>5
<1> SUFFICES ASSUME NEW y \in Layer, NEW t \in 0..(d.committed + d.staged[y] - 1)
             PROVE  Shown(d, y, t)
  BY DEF Filled, d, at, r
<1>9. m.committed \in Nat /\ m.staged[x] \in Nat /\ m.staged[y] \in Nat
  <2>1. m.committed \in 0..MaxContext /\ m.staged[x] \in 0..MaxContext /\ m.staged[y] \in 0..MaxContext
    BY <1>4
  <2> QED
    BY <2>1
<1>10. t \in Nat /\ (t \in 0..(m.committed + m.staged[y] - 1) \/ (y = x /\ t = new))
  <2>1. m.staged \in [Layer -> 0..MaxContext]
    BY <1>4
  <2>2. d.staged[x] = m.staged[x] + 1 /\ (y # x => d.staged[y] = m.staged[y])
    BY <1>5, <2>1
  <2>3. d.committed = m.committed /\ new = m.committed + m.staged[x]
    BY <1>3, <1>5 DEF new
  <2> HIDE DEF new
  <2>4. CASE y = x
    BY <2>4, <2>2, <2>3, <1>9
  <2>5. CASE y # x
    BY <2>5, <2>2, <2>3, <1>9
  <2> QED
    BY <2>4, <2>5
<1>11. CASE t = new
  <2>1. PageOf(t) = at.page /\ Within(t) = at.within
    BY <1>2, <1>11
  <2> QED
    BY <2>1, <1>1, <1>5, <1>7, <1>8 DEF Shown
<1>12. CASE t \in 0..(m.committed + m.staged[y] - 1)
  <2>1. Shown(m, y, t)
    BY <1>12 DEF Filled
  <2>2. PageOf(t) \in 1..Len(m.table) /\ Within(t) < m.fills[PageOf(t)] /\ Within(t) \in Nat
    BY <2>1, <1>10, DivMod DEF Shown, Within
  <2> QED
    BY <2>2, <1>5, <1>6, <1>7, <1>8 DEF Shown
<1> QED
  BY <1>10, <1>11, <1>12

(* publish_commit only shows what complete layers wrote. *)
LEMMA PublishKeepsFilled ==
  ASSUME NEW l, Idle(l), NEW n \in Nat, CanBegin(l, n),
         NEW m, Extends(m, l, n), Filled(m), Complete(m, Reservation(l, n))
  PROVE  Filled(Published(m, Reservation(l, n)))
<1> DEFINE r == Reservation(l, n)
           d == Published(m, r)
<1>1. /\ r.target = m.committed + n /\ r.tokens = n
  BY DEF Reservation, Extends
<1>2. m \in [table : Seq(Bundle), fills : Seq(0..PageTokens), free : Seq(Bundle),
             staged : [Layer -> 0..MaxContext], committed : 0..MaxContext]
  BY DEF Extends, IsLedger
<1>3. /\ d.table = m.table /\ d.fills = m.fills /\ d.committed = r.target
      /\ d.staged = [x \in Layer |-> 0]
  BY <1>2 DEF Published
<1>4. \A x \in Layer : m.staged[x] = n
  BY <1>1 DEF Complete
<1>5. m.committed \in Nat
  <2>1. m.committed \in 0..MaxContext
    BY <1>2
  <2> QED
    BY <2>1
<1> HIDE DEF d, r
<1> SUFFICES ASSUME NEW x \in Layer, NEW t \in 0..(d.committed + d.staged[x] - 1)
             PROVE  Shown(d, x, t)
  BY DEF Filled, d, r
<1>6. t \in 0..(m.committed + m.staged[x] - 1)
  BY <1>1, <1>3, <1>4, <1>5
<1> QED
  BY <1>3, <1>6 DEF Filled, Shown

------------------------------------------------------------------------------
(* The ledger the pools start with, and the reservations they keep.        *)

Reservations ==
  [tokens : Nat, original : Nat, target : Nat, pages : Nat,
   tail : {NoTail} \cup [page : Nat, original : Nat, fill : Nat, replacement : Nat]]

(* A reservation is a record of numbers, which no stand-in for none is. *)
LEMMA ReservationIsRecord ==
  ASSUME NEW l, Idle(l), NEW n \in Nat, CanBegin(l, n)
  PROVE  Reservation(l, n) \in Reservations
<1> DEFINE r == Reservation(l, n)
           Tails == [page : Nat, original : Nat, fill : Nat, replacement : Nat]
<1>1. /\ l.committed \in Nat /\ l.committed + n \in Nat
      /\ r.pages = Len(l.table) /\ r.pages \in Nat
      /\ r.tail = NoTail <=> ~Partial(l)
      /\ Partial(l) =>
           /\ r.pages > 0
           /\ r.tail = [page |-> r.pages, original |-> l.table[r.pages],
                       fill |-> l.fills[r.pages], replacement |-> l.free[Len(l.free)]]
      /\ NewPages(l, n) \in Nat
      /\ NewPages(l, n) + (IF Partial(l) THEN 1 ELSE 0) <= Len(l.free)
  BY BegunShape
<1>2. /\ l.table \in Seq(Bundle) /\ l.fills \in Seq(0..PageTokens) /\ l.free \in Seq(Bundle)
      /\ Len(l.fills) = Len(l.table)
  BY DEF Idle, IsLedger
<1>3. r = [tokens |-> n, original |-> l.committed, target |-> l.committed + n,
           pages |-> r.pages, tail |-> r.tail]
  BY DEF Reservation
<1> HIDE DEF r
<1>4. r.tail \in {NoTail} \cup Tails
  <2>1. CASE ~Partial(l)
    BY <2>1, <1>1
  <2>2. CASE Partial(l)
    <3>1. r.pages \in 1..Len(l.table) /\ r.pages \in 1..Len(l.fills)
      BY <1>1, <1>2, <2>2
    <3>2. Len(l.free) \in 1..Len(l.free)
      BY <1>1, <1>2, <2>2
    <3>3. l.table[r.pages] \in Nat /\ l.free[Len(l.free)] \in Nat
      BY <3>1, <3>2, <1>2, SeqElement, BundleNumbers
    <3>4. l.fills[r.pages] \in 0..PageTokens
      BY <3>1, <1>2, SeqElement
    <3>5. l.fills[r.pages] \in Nat
      BY <3>4, PageAssumption
    <3>6. r.tail \in Tails
      BY <1>1, <2>2, <3>3, <3>5
    <3> QED
      BY <3>6
  <2> QED
    BY <2>1, <2>2
<1> HIDE DEF Tails
<1>5. r \in [tokens : Nat, original : Nat, target : Nat, pages : Nat, tail : {NoTail} \cup Tails]
  BY <1>1, <1>3, <1>4
<1> QED
  BY <1>5 DEF r, Tails, Reservations

(* The pool starts with an empty, idle ledger. *)
LEMMA NewLedgerIdle == Idle(NewLedger)
<1> DEFINE free == [i \in 1..(PageCount + 1) |-> (PageCount + 1) - i]
<1>1. PageCount \in Nat
  BY BundleNumbers
<1>2. NewLedger = [table |-> <<>>, fills |-> <<>>, free |-> free,
                   staged |-> [x \in Layer |-> 0], committed |-> 0]
  BY DEF NewLedger
<1>3. free \in [1..(PageCount + 1) -> Bundle]
  BY <1>1 DEF Bundle
<1>4. PageCount + 1 \in Nat
  BY <1>1
<1> HIDE DEF free
<1>5. free \in Seq(Bundle) /\ Len(free) = PageCount + 1
  BY <1>3, <1>4, FunctionIsSeq
<1>6. Pages(0) = 0
  <2>1. 0 + PageTokens - 1 = PageTokens * 0 + (PageTokens - 1)
        /\ PageTokens - 1 \in Nat /\ PageTokens - 1 < PageTokens
        /\ 0 + PageTokens - 1 \in Nat
    BY PageAssumption
  <2> QED
    BY <2>1, DivUnique DEF Pages
<1>7. /\ [x \in Layer |-> 0] \in [Layer -> 0..MaxContext]
      /\ 0 \in 0..MaxContext
  BY PageAssumption
<1>8. IsLedger(NewLedger)
  BY <1>2, <1>5, <1>7 DEF IsLedger
<1> QED
  BY <1>1, <1>2, <1>5, <1>6, <1>8 DEF Idle

(* The pool starts with every bundle on the stack and nothing to read. *)
LEMMA NewLedgerWhole == Whole(NewLedger) /\ Filled(NewLedger)
<1> DEFINE free == [i \in 1..(PageCount + 1) |-> (PageCount + 1) - i]
<1>1. PageCount \in Nat /\ PageCount + 1 \in Nat
  BY BundleNumbers
<1>2. NewLedger = [table |-> <<>>, fills |-> <<>>, free |-> free,
                   staged |-> [x \in Layer |-> 0], committed |-> 0]
  BY DEF NewLedger
<1>3. free \in [1..(PageCount + 1) -> Bundle]
  BY <1>1 DEF Bundle
<1>4. \A i \in 1..(PageCount + 1) : free[i] = PageCount + 1 - i
  BY <1>1
<1> HIDE DEF free
<1>5. Len(free) = PageCount + 1
  BY <1>1, <1>3, FunctionIsSeq
<1>6. \A b \in Bundle : \E i \in 1..(PageCount + 1) : free[i] = b
  <2> TAKE b \in Bundle
  <2>1. PageCount + 1 - b \in 1..(PageCount + 1) /\ PageCount + 1 - (PageCount + 1 - b) = b
    BY <1>1 DEF Bundle
  <2> QED
    BY <2>1, <1>4
<1>7. \A i, j \in 1..(PageCount + 1) : free[i] = free[j] => i = j
  BY <1>1, <1>4
<1>8. Whole(NewLedger)
  BY <1>2, <1>5, <1>6, <1>7 DEF Whole
<1>9. Filled(NewLedger)
  BY <1>2 DEF Filled
<1> QED
  BY <1>8, <1>9

------------------------------------------------------------------------------
(* The rows read through a ledger.                                         *)

(* The row of token t in layer x, read through ledger l. *)
At(l, s, x, t) == s[l.table[PageOf(t)]][x][Within(t)]

------------------------------------------------------------------------------
(* Storage.                                                                *)

(* Two tokens have two places (write_location). *)
LEMMA OnePlacePerToken ==
  ASSUME NEW t \in Nat, NEW u \in Nat, PageOf(t) = PageOf(u), Within(t) = Within(u)
  PROVE  t = u
<1>1. /\ t \div PageTokens \in Nat /\ t = PageTokens * (t \div PageTokens) + (t % PageTokens)
      /\ u \div PageTokens \in Nat /\ u = PageTokens * (u \div PageTokens) + (u % PageTokens)
  BY DivMod
<1>2. t \div PageTokens = u \div PageTokens /\ t % PageTokens = u % PageTokens
  <2>1. t \div PageTokens + 1 = u \div PageTokens + 1 /\ t % PageTokens = u % PageTokens
    BY DEF PageOf, Within
  <2> QED
    BY <2>1, <1>1
<1> QED
  BY <1>1, <1>2

Slots == 0..(PageTokens - 1)
Storage(V) == [Bundle -> [Layer -> [Slots -> V]]]

(* The storage s with the rows of a replaced tail copied. *)
TailCopied(s, tail) ==
  IF tail = NoTail THEN s
  ELSE [s EXCEPT ![tail.replacement] = [x \in Layer |-> [w \in Slots |->
          IF w < tail.fill THEN s[tail.original][x][w] ELSE s[tail.replacement][x][w]]]]

(* The copy of the tail keeps the storage a storage. *)
LEMMA CopyKeepsStorage ==
  ASSUME NEW l, Idle(l), NEW n \in Nat, CanBegin(l, n), NEW V, NEW s \in Storage(V)
  PROVE  TailCopied(s, Reservation(l, n).tail) \in Storage(V)
<1> DEFINE t == Reservation(l, n).tail
           rows == [x \in Layer |-> [w \in Slots |->
                      IF w < t.fill THEN s[t.original][x][w] ELSE s[t.replacement][x][w]]]
<1>1. CASE ~Partial(l)
  <2>1. t = NoTail
    BY <1>1, BegunShape
  <2> QED
    BY <2>1 DEF TailCopied
<1>2. CASE Partial(l)
  <2>1. /\ Len(l.table) > 0
        /\ t = [page |-> Len(l.table), original |-> l.table[Len(l.table)],
                fill |-> l.fills[Len(l.table)], replacement |-> l.free[Len(l.free)]]
        /\ t # NoTail
        /\ NewPages(l, n) \in Nat /\ NewPages(l, n) + 1 <= Len(l.free)
    <3> DEFINE r == Reservation(l, n)
    <3>1. /\ r.pages = Len(l.table)
          /\ r.tail = NoTail <=> ~Partial(l)
          /\ Partial(l) =>
               /\ r.pages > 0
               /\ r.tail = [page |-> r.pages, original |-> l.table[r.pages],
                           fill |-> l.fills[r.pages], replacement |-> l.free[Len(l.free)]]
          /\ NewPages(l, n) \in Nat
          /\ NewPages(l, n) + (IF Partial(l) THEN 1 ELSE 0) <= Len(l.free)
      BY BegunShape
    <3> HIDE DEF r
    <3> QED
      BY <1>2, <3>1 DEF r
  <2>2. l.table \in Seq(Bundle) /\ l.free \in Seq(Bundle)
    BY DEF Idle, IsLedger
  <2>3. Len(l.table) \in 1..Len(l.table) /\ Len(l.free) \in 1..Len(l.free)
    BY <2>1, <2>2
  <2>4. t.original \in Bundle /\ t.replacement \in Bundle
    BY <2>1, <2>2, <2>3, SeqElement
  <2> HIDE DEF t
  <2>5. s[t.original] \in [Layer -> [Slots -> V]]
        /\ s[t.replacement] \in [Layer -> [Slots -> V]]
    BY <2>4 DEF Storage
  <2>6. rows \in [Layer -> [Slots -> V]]
    BY <2>5
  <2>7. TailCopied(s, t) = [s EXCEPT ![t.replacement] = rows]
    BY <2>1 DEF TailCopied
  <2> HIDE DEF rows
  <2> QED
    BY <2>6, <2>7 DEF Storage, t
<1> QED
  BY <1>1, <1>2

(* begin_append copies the rows of the tail below its fill, into a bundle  *)
(* no page has: the published rows read the same through the old table and *)
(* through the new one.                                                    *)
LEMMA BeginKeepsRows ==
  ASSUME NEW l, Idle(l), Whole(l), Filled(l), NEW n \in Nat, CanBegin(l, n),
         NEW V, NEW s \in Storage(V), NEW x \in Layer, NEW t \in 0..(l.committed - 1)
  PROVE  LET r == Reservation(l, n)
             copied == TailCopied(s, r.tail)
         IN /\ At(Begun(l, r), copied, x, t) = At(l, s, x, t)
            /\ At(l, copied, x, t) = At(l, s, x, t)
<1> DEFINE r == Reservation(l, n)
           b == Begun(l, r)
           copied == TailCopied(s, r.tail)
           p == PageOf(t)
           w == Within(t)
           P == Len(l.table)
           F == Len(l.free)
           k == IF Partial(l) THEN P - 1 ELSE P
<1>1. l.committed \in 0..MaxContext /\ l.staged = [y \in Layer |-> 0]
      /\ l.table \in Seq(Bundle) /\ l.free \in Seq(Bundle) /\ P \in Nat /\ F \in Nat
  BY DEF Idle, IsLedger
<1>2. p \in 1..P /\ w < l.fills[p] /\ w \in Slots
  <2>1. t \in 0..(l.committed + l.staged[x] - 1)
    BY <1>1
  <2>2. Shown(l, x, t)
    BY <2>1 DEF Filled
  <2>3. t \in Nat /\ l.committed \in Nat
    BY <1>1, PageAssumption
  <2>4. w \in Slots
    BY <2>3, PageOfToken DEF Slots
  <2> QED
    BY <2>2, <2>4 DEF Shown
<1>3. /\ \A q \in 1..k : b.table[q] = l.table[q]
      /\ \A i \in 1..(Len(b.table) - k) : b.table[k + i] = l.free[F + 1 - i]
      /\ Len(b.table) - k \in Nat
      /\ r.tail = NoTail <=> ~Partial(l)
  BY BegunPlaces
<1>4. CASE ~Partial(l)
  <2>1. copied = s
    BY <1>3, <1>4 DEF TailCopied
  <2>2. b.table[p] = l.table[p]
    BY <1>2, <1>3, <1>4
  <2> QED
    BY <2>1, <2>2 DEF At
<1>5. CASE Partial(l)
  <2>1. /\ r.tail # NoTail
        /\ r.tail = [page |-> P, original |-> l.table[P],
                    fill |-> l.fills[P], replacement |-> l.free[F]]
        /\ P > 0 /\ F \in 1..F /\ Len(b.table) >= P
    <3>1. /\ r.pages = P
          /\ NewPages(l, n) \in Nat
          /\ NewPages(l, n) + (IF Partial(l) THEN 1 ELSE 0) <= F
          /\ Partial(l) =>
               /\ r.pages > 0
               /\ r.tail = [page |-> r.pages, original |-> l.table[r.pages],
                           fill |-> l.fills[r.pages], replacement |-> l.free[F]]
      BY BegunShape
    <3>2. Len(b.table) = r.pages + NewPages(l, n)
      BY BegunTable
    <3> DEFINE more == NewPages(l, n)
    <3>3. r.tail # NoTail
      BY <1>3, <1>5
    <3> HIDE DEF r, b, more
    <3>4. /\ P > 0 /\ r.tail = [page |-> P, original |-> l.table[P],
                               fill |-> l.fills[P], replacement |-> l.free[F]]
      BY <3>1, <1>5
    <3>5. more \in Nat /\ more + 1 <= F /\ Len(b.table) = P + more
      BY <3>1, <3>2, <1>5 DEF more
    <3>6. F \in 1..F /\ Len(b.table) >= P
      BY <3>5, <1>1
    <3> QED
      BY <3>3, <3>4, <3>6
  <2> DEFINE to == l.free[F]  from == l.table[P]  fill == l.fills[P]
  <2>2. copied = [s EXCEPT ![to] = [y \in Layer |-> [v \in Slots |->
                    IF v < fill THEN s[from][y][v] ELSE s[to][y][v]]]]
    BY <2>1 DEF TailCopied
  <2>3. to \in Bundle /\ l.table[p] # to
    BY <1>1, <1>2, <2>1, SeqElement DEF Whole
  <2>4. l.table[p] \in Bundle
    BY <1>1, <1>2, SeqElement
  <2> HIDE DEF copied, to, from, b, p, w, r
  <2>5. copied[l.table[p]] = s[l.table[p]]
    BY <2>2, <2>3, <2>4 DEF Storage
  <2>6. copied[to] = [y \in Layer |-> [v \in Slots |->
                       IF v < fill THEN s[from][y][v] ELSE s[to][y][v]]]
    BY <2>2, <2>3 DEF Storage
  <2>7. CASE p < P
    <3>1. b.table[p] = l.table[p]
      BY <2>7, <1>1, <1>2, <1>3, <1>5
    <3> QED
      BY <3>1, <2>5 DEF At, b, copied, p, w, r
  <2>8. CASE p = P
    <3>1. k + 1 = P /\ 1 \in 1..(Len(b.table) - k)
      BY <2>1, <1>1, <1>3, <1>5
    <3>2. b.table[k + 1] = l.free[F + 1 - 1]
      BY <3>1, <1>3
    <3>3. b.table[p] = to
      BY <3>1, <3>2, <2>8, <1>1 DEF to
    <3>4. w < fill
      BY <2>8, <1>2
    <3>5. copied[to][x][w] = s[from][x][w]
      BY <2>6, <3>4, <1>2
    <3>6. copied[b.table[p]][x][w] = s[l.table[p]][x][w]
      BY <3>3, <3>5, <2>8 DEF from
    <3> QED
      BY <3>6, <2>5 DEF At, b, copied, p, w, r
  <2> QED
    BY <2>7, <2>8, <1>1, <1>2
<1> QED
  BY <1>4, <1>5

(* A row never goes to a bundle that held a page when the append began: the *)
(* tail is replaced and the other pages are full (write_location).         *)
LEMMA WriteMissesPages ==
  ASSUME NEW l, Idle(l), Whole(l), NEW n \in Nat, CanBegin(l, n),
         NEW m, Extends(m, l, n), NEW x \in Layer, CanWrite(m, Reservation(l, n), x)
  PROVE  \A p \in 1..Len(l.table) : l.table[p] # Location(m, Reservation(l, n), x).bundle
<1> DEFINE r == Reservation(l, n)
           at == Location(m, r, x)
           new == m.committed + m.staged[x]
           P == Len(l.table)
           T == Len(m.table)
           k == IF Partial(l) THEN P - 1 ELSE P
<1>1. /\ m \in [table : Seq(Bundle), fills : Seq(0..PageTokens), free : Seq(Bundle),
                staged : [Layer -> 0..MaxContext], committed : 0..MaxContext]
      /\ m.committed = l.committed /\ m.table = Begun(l, r).table
  BY DEF Extends, IsLedger
<1>2. /\ at.page \in 1..T /\ at.page = PageOf(new) /\ at.bundle = m.table[at.page]
  <2>1. r.original = m.committed
    BY <1>1 DEF Reservation
  <2>2. at.page = PageOf(new) /\ at.bundle = m.table[at.page]
    BY <2>1 DEF Location
  <2> QED
    BY <2>2, WriteExtends
<1>3. l.committed \in Nat /\ new \in Nat /\ new >= l.committed
  <2>1. m.committed \in 0..MaxContext /\ m.staged[x] \in 0..MaxContext
    BY <1>1
  <2> QED
    BY <2>1, <1>1
<1>4. Apart(m, r)
  BY ExtendsApart
<1>5. /\ \A p \in 1..k : m.table[p] = l.table[p]
      /\ r.tail = NoTail <=> ~Partial(l)
      /\ Partial(l) => r.tail.original = l.table[k + 1]
  <2>1. /\ \A p \in 1..k : Begun(l, r).table[p] = l.table[p]
        /\ r.tail = NoTail <=> ~Partial(l)
        /\ Partial(l) => r.tail.original = l.table[k + 1]
    BY BegunPlaces
  <2> QED
    BY <2>1, <1>1
<1>6. P \in Nat /\ P = Pages(l.committed) /\ T \in Nat
  BY <1>1 DEF Idle, IsLedger
<1> HIDE DEF r, at, new
<1>7. at.page \in Nat /\ at.page >= P /\ (~Partial(l) => at.page > P)
  BY <1>2, <1>3, <1>6, PageOfToken DEF Partial
<1>8. ASSUME NEW p \in 1..P PROVE l.table[p] # at.bundle
  <2>1. CASE p \in 1..k
    <3>1. p # at.page /\ p \in 1..T
      BY <2>1, <1>2, <1>6, <1>7
    <3> QED
      BY <3>1, <2>1, <1>2, <1>4, <1>5 DEF Apart
  <2>2. CASE p \notin 1..k
    <3>1. Partial(l) /\ p = k + 1
      BY <2>2, <1>6
    <3>2. l.table[p] = r.tail.original /\ r.tail # NoTail
      BY <3>1, <1>5
    <3> QED
      BY <3>2, <1>2, <1>4 DEF Apart
  <2> QED
    BY <2>1, <2>2
<1> QED
  BY <1>8 DEF at, r

Written(s, at, x, v) == [s EXCEPT ![at.bundle][x][at.within] = v]

(* write_row changes one row: that of the token it writes.  The rows the   *)
(* layers see stay, and so do those the table had before the append.       *)
LEMMA WriteKeepsRows ==
  ASSUME NEW l, Idle(l), Whole(l), Filled(l), NEW n \in Nat, CanBegin(l, n),
         NEW m, Extends(m, l, n), Filled(m), NEW x \in Layer, NEW V, NEW v \in V,
         CanWrite(m, Reservation(l, n), x), NEW s \in Storage(V)
  PROVE  LET at == Location(m, Reservation(l, n), x)
             written == Written(s, at, x, v)
         IN /\ \A y \in Layer : \A t \in 0..(m.committed + m.staged[y] - 1) :
                 At(Recorded(m, x, at), written, y, t) = At(m, s, y, t)
            /\ \A y \in Layer : \A t \in 0..(l.committed - 1) :
                 At(l, written, y, t) = At(l, s, y, t)
            /\ At(Recorded(m, x, at), written, x, m.committed + m.staged[x]) = v
<1> DEFINE r == Reservation(l, n)
           at == Location(m, r, x)
           d == Recorded(m, x, at)
           written == Written(s, at, x, v)
           new == m.committed + m.staged[x]
           P == Len(l.table)
           T == Len(m.table)
<1>1. /\ m \in [table : Seq(Bundle), fills : Seq(0..PageTokens), free : Seq(Bundle),
                staged : [Layer -> 0..MaxContext], committed : 0..MaxContext]
      /\ m.committed = l.committed /\ m.table = Begun(l, r).table
  BY DEF Extends, IsLedger
<1>2. /\ at.page \in 1..T /\ at.bundle \in Bundle /\ at.within \in Slots
      /\ at.page = PageOf(new) /\ at.within = Within(new) /\ at.bundle = m.table[at.page]
  <2>1. r.original = m.committed
    BY <1>1 DEF Reservation
  <2>2. at.page = PageOf(new) /\ at.within = Within(new) /\ at.bundle = m.table[at.page]
    BY <2>1 DEF Location
  <2> QED
    BY <2>2, WriteExtends DEF Slots
<1>3. d.table = m.table
  BY <1>1 DEF Recorded
<1>4. /\ l.committed \in Nat /\ m.committed \in Nat /\ new \in Nat
      /\ \A y \in Layer : m.staged[y] \in Nat
  <2>1. m.committed \in 0..MaxContext /\ \A y \in Layer : m.staged[y] \in 0..MaxContext
    BY <1>1
  <2> QED
    BY <2>1, <1>1
<1>5. Apart(m, r)
  BY ExtendsApart
<1>6. \A p \in 1..P : l.table[p] # at.bundle
  BY WriteMissesPages
<1>7. P \in Nat /\ P = Pages(l.committed) /\ l.table \in Seq(Bundle) /\ T \in Nat
  BY <1>1 DEF Idle, IsLedger
<1> HIDE DEF r, at, d, new, written
<1>8. ASSUME NEW c \in Bundle, NEW y \in Layer, NEW w \in Slots,
             c # at.bundle \/ y # x \/ w # at.within
      PROVE  written[c][y][w] = s[c][y][w]
  BY <1>2, <1>8 DEF Storage, written, Written
<1>9. written[at.bundle][x][at.within] = v
  BY <1>2 DEF Storage, written, Written
<1>10. ASSUME NEW y \in Layer, NEW t \in 0..(m.committed + m.staged[y] - 1)
       PROVE  At(d, written, y, t) = At(m, s, y, t)
  <2>1. Shown(m, y, t)
    BY DEF Filled
  <2>2. t \in Nat /\ PageOf(t) \in 1..T /\ Within(t) \in Slots
    BY <2>1, <1>4, PageOfToken DEF Shown, Slots
  <2>3. m.table[PageOf(t)] \in Bundle
    BY <1>1, <2>2, SeqElement
  <2>4. m.table[PageOf(t)] # at.bundle \/ y # x \/ Within(t) # at.within
    <3> SUFFICES ASSUME m.table[PageOf(t)] = at.bundle, y = x, Within(t) = at.within
                 PROVE  FALSE
      OBVIOUS
    <3>1. PageOf(t) = at.page
      BY <1>2, <1>5, <2>2 DEF Apart
    <3>2. t = new
      BY <3>1, <1>2, <1>4, <2>2, OnePlacePerToken
    <3> QED
      BY <3>2, <1>4 DEF new
  <2> QED
    BY <1>3, <1>8, <2>2, <2>3, <2>4 DEF At
<1>11. ASSUME NEW y \in Layer, NEW t \in 0..(l.committed - 1)
       PROVE  At(l, written, y, t) = At(l, s, y, t)
  <2>1. t \in Nat /\ t < l.committed /\ PageOf(t) \in 1..P /\ Within(t) \in Slots
    <3>1. t \in Nat /\ t < l.committed
      BY <1>4
    <3>2. PageOf(t) \in Nat \ {0} /\ PageOf(t) <= Pages(l.committed) /\ Within(t) \in 0..(PageTokens - 1)
      BY <3>1, <1>4, PageOfToken
    <3> QED
      BY <3>1, <3>2, <1>7 DEF Slots
  <2>2. l.table[PageOf(t)] \in Bundle
    BY <1>7, <2>1, SeqElement
  <2>3. l.table[PageOf(t)] # at.bundle
    BY <2>1, <1>6
  <2> QED
    BY <1>8, <2>1, <2>2, <2>3 DEF At
<1>12. At(d, written, x, new) = v
  BY <1>2, <1>3, <1>9 DEF At
<1> QED
  BY <1>10, <1>11, <1>12 DEF d, at, r, new, written

------------------------------------------------------------------------------
(* The rows a layer sees through a ledger: the published ones and those of *)
(* the open append. *)
PublishedRows(l, s) == [x \in Layer |-> [i \in 1..l.committed |-> At(l, s, x, i - 1)]]
StagedRows(l, s) ==
  [x \in Layer |-> [i \in 1..l.staged[x] |-> At(l, s, x, l.committed + i - 1)]]

AllRows(l, s) == [x \in Layer |-> PublishedRows(l, s)[x] \o StagedRows(l, s)[x]]

LEMMA RowsAreSeqs ==
  ASSUME NEW l, IsLedger(l), Filled(l), NEW V, NEW s \in Storage(V), NEW x \in Layer
  PROVE  /\ PublishedRows(l, s)[x] \in Seq(V) /\ Len(PublishedRows(l, s)[x]) = l.committed
         /\ \A i \in 1..l.committed : PublishedRows(l, s)[x][i] = At(l, s, x, i - 1)
         /\ StagedRows(l, s)[x] \in Seq(V) /\ Len(StagedRows(l, s)[x]) = l.staged[x]
         /\ \A i \in 1..l.staged[x] : StagedRows(l, s)[x][i] = At(l, s, x, l.committed + i - 1)
         /\ l.committed \in Nat /\ l.staged[x] \in Nat
<1>1. l.committed \in Nat /\ l.staged[x] \in Nat /\ l.table \in Seq(Bundle)
  <2>1. l.committed \in 0..MaxContext /\ l.staged[x] \in 0..MaxContext /\ l.table \in Seq(Bundle)
    BY DEF IsLedger
  <2> QED
    BY <2>1
<1>2. ASSUME NEW t \in 0..(l.committed + l.staged[x] - 1) PROVE At(l, s, x, t) \in V
  <2>1. Shown(l, x, t)
    BY DEF Filled
  <2>2. Within(t) \in Slots
    BY <1>1, PageOfToken DEF Slots
  <2>3. l.table[PageOf(t)] \in Bundle
    BY <1>1, <2>1, SeqElement DEF Shown
  <2> QED
    BY <2>2, <2>3 DEF At, Storage
<1> DEFINE p == [i \in 1..l.committed |-> At(l, s, x, i - 1)]
           q == [i \in 1..l.staged[x] |-> At(l, s, x, l.committed + i - 1)]
<1>3. PublishedRows(l, s)[x] = p /\ StagedRows(l, s)[x] = q
  BY DEF PublishedRows, StagedRows
<1>4. p \in [1..l.committed -> V]
  <2> SUFFICES ASSUME NEW i \in 1..l.committed PROVE At(l, s, x, i - 1) \in V
    OBVIOUS
  <2>1. i - 1 \in 0..(l.committed + l.staged[x] - 1)
    BY <1>1
  <2> QED
    BY <2>1, <1>2
<1>5. q \in [1..l.staged[x] -> V]
  <2> SUFFICES ASSUME NEW i \in 1..l.staged[x] PROVE At(l, s, x, l.committed + i - 1) \in V
    OBVIOUS
  <2>1. l.committed + i - 1 \in 0..(l.committed + l.staged[x] - 1)
    BY <1>1
  <2> QED
    BY <2>1, <1>2
<1>6. /\ \A i \in 1..l.committed : p[i] = At(l, s, x, i - 1)
      /\ \A i \in 1..l.staged[x] : q[i] = At(l, s, x, l.committed + i - 1)
  OBVIOUS
<1> HIDE DEF p, q
<1>7. p \in Seq(V) /\ Len(p) = l.committed /\ q \in Seq(V) /\ Len(q) = l.staged[x]
  BY <1>1, <1>4, <1>5, FunctionIsSeq
<1> QED
  BY <1>1, <1>3, <1>6, <1>7

(* The same rows are the same log. *)
LEMMA SamePublished ==
  ASSUME NEW l, NEW m, NEW s, NEW u, m.committed = l.committed, l.committed \in Nat,
         \A x \in Layer : \A t \in 0..(l.committed - 1) : At(m, u, x, t) = At(l, s, x, t)
  PROVE  PublishedRows(m, u) = PublishedRows(l, s)
<1>1. ASSUME NEW x \in Layer, NEW i \in 1..l.committed
      PROVE  At(m, u, x, i - 1) = At(l, s, x, i - 1)
  <2>1. i - 1 \in 0..(l.committed - 1)
    OBVIOUS
  <2> QED
    BY <2>1
<1> QED
  BY <1>1 DEF PublishedRows

(* Nothing is staged. *)
LEMMA NothingStaged ==
  ASSUME NEW l, NEW s, l.staged = [x \in Layer |-> 0]
  PROVE  StagedRows(l, s) = [x \in Layer |-> <<>>]
<1>1. \A x \in Layer : [i \in 1..l.staged[x] |-> At(l, s, x, l.committed + i - 1)] = <<>>
  <2> TAKE x \in Layer
  <2>1. l.staged[x] = 0 /\ 1..0 = {}
    OBVIOUS
  <2> QED
    BY <2>1
<1> QED
  BY <1>1 DEF StagedRows

LEMMA AppendIs ==
  ASSUME NEW S, NEW u \in Seq(S), NEW v \in S, NEW f \in Seq(S),
         Len(f) = Len(u) + 1, \A i \in 1..Len(u) : u[i] = f[i], f[Len(u) + 1] = v
  PROVE  Append(u, v) = f
OBVIOUS
(* begin_append shows the same log, whether its append is kept or rolled   *)
(* back.                                                                   *)
LEMMA BeginShowsSame ==
  ASSUME NEW l, Idle(l), Whole(l), Filled(l), NEW n \in Nat, CanBegin(l, n),
         NEW V, NEW s \in Storage(V)
  PROVE  LET r == Reservation(l, n)
             b == Begun(l, r)
             copied == TailCopied(s, r.tail)
         IN /\ \A x \in Layer : \A t \in 0..(l.committed - 1) :
                 At(b, copied, x, t) = At(l, copied, x, t)
            /\ PublishedRows(b, copied) = PublishedRows(l, s)
            /\ PublishedRows(l, copied) = PublishedRows(l, s)
            /\ StagedRows(b, copied) = [x \in Layer |-> <<>>]
<1> DEFINE r == Reservation(l, n)
           b == Begun(l, r)
           copied == TailCopied(s, r.tail)
<1>1. \A x \in Layer : \A t \in 0..(l.committed - 1) :
        At(b, copied, x, t) = At(l, s, x, t) /\ At(l, copied, x, t) = At(l, s, x, t)
  BY BeginKeepsRows
<1>2. b.committed = l.committed /\ b.staged = [x \in Layer |-> 0] /\ l.committed \in Nat
  <2>1. l.committed \in 0..MaxContext
    BY DEF Idle, IsLedger
  <2> QED
    BY <2>1 DEF Begun
<1> HIDE DEF b, copied, r
<1>3. PublishedRows(b, copied) = PublishedRows(l, s) /\ PublishedRows(l, copied) = PublishedRows(l, s)
  BY <1>1, <1>2, SamePublished
<1>4. StagedRows(b, copied) = [x \in Layer |-> <<>>]
  BY <1>2, NothingStaged
<1> QED
  BY <1>1, <1>3, <1>4 DEF b, copied, r

(* write_row adds one row to the open append of its layer; a row that      *)
(* reaches the storage without being recorded shows nowhere.               *)
LEMMA WriteShowsRow ==
  ASSUME NEW l, Idle(l), Whole(l), Filled(l), NEW n \in Nat, CanBegin(l, n),
         NEW m, Extends(m, l, n), Filled(m), NEW x \in Layer, NEW V, NEW v \in V,
         CanWrite(m, Reservation(l, n), x), NEW s \in Storage(V)
  PROVE  LET at == Location(m, Reservation(l, n), x)
             written == Written(s, at, x, v)
             d == Recorded(m, x, at)
         IN /\ Len(StagedRows(m, s)[x]) < n
            /\ StagedRows(d, written) = [StagedRows(m, s) EXCEPT ![x] = Append(@, v)]
            /\ StagedRows(m, written) = StagedRows(m, s)
            /\ PublishedRows(d, written) = PublishedRows(m, s)
            /\ PublishedRows(l, written) = PublishedRows(l, s)
            /\ \A y \in Layer : \A t \in 0..(l.committed - 1) :
                 /\ At(d, written, y, t) = At(m, s, y, t)
                 /\ At(m, written, y, t) = At(m, s, y, t)
                 /\ At(l, written, y, t) = At(l, s, y, t)
            /\ written \in Storage(V)
<1> DEFINE r == Reservation(l, n)
           at == Location(m, r, x)
           written == Written(s, at, x, v)
           d == Recorded(m, x, at)
<1>1. /\ m \in [table : Seq(Bundle), fills : Seq(0..PageTokens), free : Seq(Bundle),
                staged : [Layer -> 0..MaxContext], committed : 0..MaxContext]
      /\ l.committed = m.committed /\ IsLedger(m)
      /\ d.table = m.table /\ d.committed = m.committed
      /\ d.staged = [m.staged EXCEPT ![x] = m.staged[x] + 1]
  <2>1. /\ m \in [table : Seq(Bundle), fills : Seq(0..PageTokens), free : Seq(Bundle),
                  staged : [Layer -> 0..MaxContext], committed : 0..MaxContext]
        /\ l.committed = m.committed /\ IsLedger(m)
    BY DEF Extends, IsLedger
  <2> HIDE DEF at, written, r
  <2> QED
    BY <2>1 DEF Recorded
<1>2. m.committed \in Nat /\ \A y \in Layer : m.staged[y] \in Nat
  <2>1. m.committed \in 0..MaxContext /\ \A y \in Layer : m.staged[y] \in 0..MaxContext
    BY <1>1
  <2> QED
    BY <2>1
<1>3. /\ \A y \in Layer : \A t \in 0..(m.committed + m.staged[y] - 1) :
           At(d, written, y, t) = At(m, s, y, t)
      /\ \A y \in Layer : \A t \in 0..(l.committed - 1) : At(l, written, y, t) = At(l, s, y, t)
      /\ At(d, written, x, m.committed + m.staged[x]) = v
  BY WriteKeepsRows
<1>4. at.bundle \in Bundle /\ at.within \in Slots /\ IsLedger(d) /\ Filled(d)
  <2>1. at.bundle \in Bundle /\ at.within \in Slots /\ Extends(d, l, n)
    BY WriteExtends DEF Slots
  <2>2. Filled(d)
    BY WriteKeepsFilled
  <2> HIDE DEF d, at
  <2> QED
    BY <2>1, <2>2 DEF Extends
<1>5. written \in Storage(V)
  <2> HIDE DEF at
  <2> QED
    BY <1>4 DEF Written, Storage
<1>6. r.tokens = n
  BY DEF Reservation
<1>7. m.staged[x] < n
  BY <1>6 DEF CanWrite
<1> HIDE DEF d, written, at, r
<1>8. \A y, t : At(m, written, y, t) = At(d, written, y, t)
  BY <1>1 DEF At
<1>9. \A y \in Layer : \A t \in 0..(m.committed - 1) : At(d, written, y, t) = At(m, s, y, t)
  <2> TAKE y \in Layer
  <2> TAKE t \in 0..(m.committed - 1)
  <2>1. t \in 0..(m.committed + m.staged[y] - 1)
    BY <1>2
  <2> QED
    BY <2>1, <1>3
<1>10. /\ PublishedRows(d, written) = PublishedRows(m, s)
       /\ PublishedRows(l, written) = PublishedRows(l, s)
  <2>1. PublishedRows(d, written) = PublishedRows(m, s)
    BY <1>1, <1>2, <1>9, SamePublished
  <2>2. l.committed \in Nat
    BY <1>1, <1>2
  <2>3. PublishedRows(l, written) = PublishedRows(l, s)
    BY <2>2, <1>3, SamePublished
  <2> QED
    BY <2>1, <2>3
<1>11. Len(StagedRows(m, s)[x]) < n
  <2>1. Len(StagedRows(m, s)[x]) = m.staged[x]
    BY <1>1, RowsAreSeqs
  <2> QED
    BY <2>1, <1>7
<1> DEFINE S == StagedRows(m, s)
           S2 == StagedRows(d, written)
           S3 == StagedRows(m, written)
<1>12. ASSUME NEW y \in Layer
       PROVE  S2[y] = IF y = x THEN Append(S[x], v) ELSE S[y]
  <2> DEFINE f == S2[y]
             u == S[y]
             k == m.staged[y]
             c == m.committed
  <2>1. /\ u \in Seq(V) /\ Len(u) = k
        /\ \A i \in 1..k : u[i] = At(m, s, y, c + i - 1)
    <3>1. IsLedger(m) /\ Filled(m) /\ s \in Storage(V) /\ y \in Layer
      BY <1>1
    <3> QED
      BY <3>1, RowsAreSeqs
  <2>2. /\ f \in Seq(V) /\ Len(f) = d.staged[y]
        /\ \A i \in 1..d.staged[y] : f[i] = At(d, written, y, d.committed + i - 1)
    BY <1>4, <1>5, RowsAreSeqs
  <2>3. c \in Nat /\ k \in Nat /\ d.committed = c /\ d.staged[y] = IF y = x THEN k + 1 ELSE k
    BY <1>1, <1>2
  <2>4. \A t \in 0..(c + k - 1) : At(d, written, y, t) = At(m, s, y, t)
    BY <1>3
  <2> HIDE DEF f, u, k, c
  <2>5. \A i \in 1..k : u[i] = f[i]
    <3> TAKE i \in 1..k
    <3>1. c + i - 1 \in 0..(c + k - 1) /\ i \in 1..d.staged[y]
      BY <2>3
    <3> QED
      BY <3>1, <2>1, <2>2, <2>3, <2>4
  <2>6. CASE y = x
    <3>1. f[k + 1] = v
      <4>1. k + 1 \in 1..d.staged[y] /\ c + (k + 1) - 1 = c + k
        BY <2>3, <2>6
      <4>2. f[k + 1] = At(d, written, y, c + k)
        BY <4>1, <2>2, <2>3
      <4> QED
        BY <4>2, <2>6, <1>3 DEF c, k
    <3>2. Append(u, v) = f
      BY <3>1, <2>1, <2>2, <2>3, <2>5, <2>6, AppendIs
    <3> QED
      BY <3>2, <2>6 DEF f, u
  <2>7. CASE y # x
    <3>1. u = f
      BY <2>1, <2>2, <2>3, <2>5, <2>7
    <3> QED
      BY <3>1, <2>7 DEF f, u
  <2> QED
    BY <2>6, <2>7
<1>13. ASSUME NEW y \in Layer, NEW i \in 1..m.staged[y]
       PROVE  At(m, written, y, m.committed + i - 1) = At(m, s, y, m.committed + i - 1)
  <2>1. m.committed + i - 1 \in 0..(m.committed + m.staged[y] - 1)
    BY <1>2
  <2> QED
    BY <2>1, <1>3, <1>8
<1>14. S = [y \in Layer |-> S[y]] /\ S2 = [y \in Layer |-> S2[y]]
  BY DEF StagedRows
<1>15. S3 = S
  BY <1>13 DEF StagedRows
<1> HIDE DEF S, S2, S3
<1>16. S2 = [S EXCEPT ![x] = Append(S[x], v)]
  BY <1>12, <1>14
<1> QED
  BY <1>1, <1>3, <1>5, <1>8, <1>9, <1>10, <1>11, <1>15, <1>16 DEF S, S2, S3, d, written, at, r

(* publish_commit publishes the whole append. *)
LEMMA CommitShowsAll ==
  ASSUME NEW l, Idle(l), NEW n \in Nat, CanBegin(l, n),
         NEW m, Extends(m, l, n), Filled(m), Complete(m, Reservation(l, n)),
         NEW V, NEW s \in Storage(V)
  PROVE  LET d == Published(m, Reservation(l, n))
         IN /\ \A x \in Layer : Len(StagedRows(m, s)[x]) = n
            /\ PublishedRows(d, s) = AllRows(m, s)
            /\ StagedRows(d, s) = [x \in Layer |-> <<>>]
<1> DEFINE r == Reservation(l, n)
           d == Published(m, r)
<1>1. /\ m \in [table : Seq(Bundle), fills : Seq(0..PageTokens), free : Seq(Bundle),
                staged : [Layer -> 0..MaxContext], committed : 0..MaxContext]
      /\ l.committed = m.committed /\ IsLedger(m)
  BY DEF Extends, IsLedger
<1>2. r.tokens = n /\ r.target = m.committed + n
  BY <1>1 DEF Reservation
<1>3. /\ d.table = m.table /\ d.committed = m.committed + n
      /\ d.staged = [x \in Layer |-> 0]
  BY <1>1, <1>2 DEF Published
<1>4. \A x \in Layer : m.staged[x] = n
  BY <1>2 DEF Complete
<1>5. Filled(d) /\ IsLedger(d)
  <2>1. Filled(d)
    BY PublishKeepsFilled
  <2>2. Idle(d)
    BY PublishIdles
  <2> HIDE DEF d
  <2> QED
    BY <2>1, <2>2 DEF Idle
<1> HIDE DEF d, r
<1>6. \A x \in Layer : Len(StagedRows(m, s)[x]) = n
  <2> TAKE x \in Layer
  <2>1. Len(StagedRows(m, s)[x]) = m.staged[x]
    BY <1>1, RowsAreSeqs
  <2> QED
    BY <2>1, <1>4
<1>7. StagedRows(d, s) = [x \in Layer |-> <<>>]
  BY <1>3, NothingStaged
<1>8. ASSUME NEW x \in Layer
      PROVE  PublishedRows(d, s)[x] = PublishedRows(m, s)[x] \o StagedRows(m, s)[x]
  <2> DEFINE f == PublishedRows(d, s)[x]
             u == PublishedRows(m, s)[x]
             w == StagedRows(m, s)[x]
             c == m.committed
  <2>1. /\ u \in Seq(V) /\ Len(u) = c
        /\ \A i \in 1..c : u[i] = At(m, s, x, i - 1)
        /\ w \in Seq(V) /\ Len(w) = n
        /\ \A i \in 1..n : w[i] = At(m, s, x, c + i - 1)
        /\ c \in Nat
    <3>1. /\ u \in Seq(V) /\ Len(u) = c
          /\ \A i \in 1..c : u[i] = At(m, s, x, i - 1)
          /\ w \in Seq(V) /\ Len(w) = m.staged[x]
          /\ \A i \in 1..m.staged[x] : w[i] = At(m, s, x, c + i - 1)
          /\ c \in Nat
      BY <1>1, RowsAreSeqs
    <3> HIDE DEF u, w, c
    <3> QED
      BY <3>1, <1>4
  <2>2. /\ f \in Seq(V) /\ Len(f) = c + n
        /\ \A i \in 1..(c + n) : f[i] = At(d, s, x, i - 1)
    <3>1. /\ f \in Seq(V) /\ Len(f) = d.committed
          /\ \A i \in 1..d.committed : f[i] = At(d, s, x, i - 1)
      BY <1>5, RowsAreSeqs
    <3> HIDE DEF f
    <3> QED
      BY <3>1, <1>3
  <2>3. \A t : At(d, s, x, t) = At(m, s, x, t)
    BY <1>3 DEF At
  <2> HIDE DEF f, u, w, c
  <2>4. \A i \in 1..Len(u) : u[i] = f[i]
    BY <2>1, <2>2, <2>3
  <2>5. \A i \in 1..Len(w) : w[i] = f[Len(u) + i]
    <3> TAKE i \in 1..Len(w)
    <3> DEFINE j == c + i
    <3>1. i \in 1..n /\ j \in 1..(c + n) /\ j - 1 = c + i - 1
      BY <2>1
    <3> HIDE DEF j
    <3>2. f[j] = At(d, s, x, j - 1)
      BY <3>1, <2>2
    <3> QED
      BY <3>1, <3>2, <2>1, <2>3 DEF j
  <2>6. u \o w = f
    BY <2>1, <2>2, <2>4, <2>5, SplitInTwo
  <2> QED
    BY <2>6 DEF f, u, w
<1>9. PublishedRows(d, s) = [x \in Layer |-> PublishedRows(m, s)[x] \o StagedRows(m, s)[x]]
  <2> DEFINE f == PublishedRows(d, s)
  <2>1. f = [x \in Layer |-> f[x]]
    BY DEF PublishedRows
  <2> HIDE DEF f
  <2>2. \A x \in Layer : f[x] = PublishedRows(m, s)[x] \o StagedRows(m, s)[x]
    BY <1>8 DEF f
  <2> QED
    BY <2>1, <2>2 DEF f
<1> QED
  BY <1>6, <1>7, <1>9 DEF d, r, AllRows
==============================================================================
