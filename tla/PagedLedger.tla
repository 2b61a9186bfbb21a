----------------------------- MODULE PagedLedger -----------------------------
(***************************************************************************)
(* The page accounting of crates/cache/src/paged.rs (PagedKvLedger): which *)
(* bundle of storage holds which page of the one sequence in the cache,    *)
(* and what beginning, publishing and rolling back an append do to it.     *)
(* The module has no variables; PagedKv and NativePagedKv keep a ledger.   *)
(*                                                                         *)
(* A ledger is a record                                                    *)
(*   table      page |-> bundle, a sequence                                *)
(*   fills      page |-> rows written in it, a sequence                    *)
(*   free       the stack of unused bundles, its top at the end            *)
(*   staged     layer |-> rows written by the open append                  *)
(*   committed  published tokens                                           *)
(* Pages count from 1 and rows within a page, tokens and bundles from 0.   *)
(***************************************************************************)
EXTENDS Integers, Sequences

CONSTANTS
  Layer,        \* attention layers, each with a row per token
  PageTokens,   \* rows of a page: 8, 16 or 32 in the code
  MaxContext,   \* tokens the sequence may grow to
  NoTail

ASSUME PageAssumption == PageTokens \in Nat \ {0} /\ MaxContext \in Nat \ {0}
ASSUME NoTailAssumption ==
  NoTail \notin [page : Nat, original : Nat, fill : Nat, replacement : Nat]

Pages(tokens) == (tokens + PageTokens - 1) \div PageTokens
PageCount == Pages(MaxContext)

Bundle == 0..PageCount

PageOf(token) == token \div PageTokens + 1
Within(token) == token % PageTokens

(* Mutant: no spare bundle for the copy of a partial tail. *)
NewLedgerWithoutSpare ==
  [table |-> <<>>, fills |-> <<>>, free |-> [i \in 1..PageCount |-> PageCount - i],
   staged |-> [x \in Layer |-> 0], committed |-> 0]
NewLedger ==
  LET bundles == PageCount + 1
  IN [table |-> <<>>, fills |-> <<>>,
      free |-> [i \in 1..bundles |-> bundles - i],
      staged |-> [x \in Layer |-> 0], committed |-> 0]

------------------------------------------------------------------------------
(* Beginning an append of n tokens.  A partly filled last page is replaced *)
(* by a spare bundle, so that published rows are never written over.       *)
(* Mutant: the tail is written in place. *)
NeverPartial(l) == FALSE
Partial(l) == l.committed % PageTokens # 0
NewPages(l, n) == Pages(l.committed + n) - Len(l.table)
Needed(l, n) == NewPages(l, n) + (IF Partial(l) THEN 1 ELSE 0)

CanBegin(l, n) ==
  /\ n > 0
  /\ l.committed + n <= MaxContext
  /\ NewPages(l, n) >= 0
  /\ Needed(l, n) <= Len(l.free)

Popped(l, i) == l.free[Len(l.free) + 1 - i]

Reservation(l, n) ==
  LET last == Len(l.table)
  IN [tokens |-> n, original |-> l.committed, target |-> l.committed + n, pages |-> last,
      tail |-> IF ~Partial(l) THEN NoTail
               ELSE [page |-> last, original |-> l.table[last],
                     fill |-> l.fills[last], replacement |-> Popped(l, 1)]]

(* The ledger with reservation r in progress. *)
Begun(l, r) ==
  LET spare == IF r.tail = NoTail THEN 0 ELSE 1
      more == NewPages(l, r.tokens)
  IN [table |-> [p \in 1..(r.pages + more) |->
                   IF p > r.pages THEN Popped(l, p - r.pages + spare)
                   ELSE IF spare = 1 /\ p = r.pages THEN Popped(l, 1) ELSE l.table[p]],
      fills |-> [p \in 1..(r.pages + more) |-> IF p > r.pages THEN 0 ELSE l.fills[p]],
      free |-> SubSeq(l.free, 1, Len(l.free) - more - spare),
      staged |-> [x \in Layer |-> 0],
      committed |-> l.committed]

------------------------------------------------------------------------------
(* Rows are written in token order, layer by layer or interleaved. *)
Location(l, r, layer) ==
  LET token == r.original + l.staged[layer]
  IN [page |-> PageOf(token), bundle |-> l.table[PageOf(token)], within |-> Within(token)]

CanWrite(l, r, layer) == l.staged[layer] < r.tokens

(* Mutant: the fill of a page is the last row written, not the highest. *)
RecordedLastFill(l, layer, at) ==
  [l EXCEPT !.staged[layer] = @ + 1, !.fills[at.page] = at.within + 1]
Recorded(l, layer, at) ==
  [l EXCEPT !.staged[layer] = @ + 1,
            !.fills[at.page] = IF @ < at.within + 1 THEN at.within + 1 ELSE @]

(* Mutant: one complete layer is enough. *)
CompleteSome(l, r) == \E x \in Layer : l.staged[x] = r.tokens
Complete(l, r) == \A x \in Layer : l.staged[x] = r.tokens

------------------------------------------------------------------------------
(* Mutant: the replaced bundle is not given back. *)
PublishedLeak(l, r) ==
  [l EXCEPT !.committed = r.target, !.staged = [x \in Layer |-> 0]]
Published(l, r) ==
  [l EXCEPT !.committed = r.target,
            !.free = IF r.tail = NoTail THEN @ ELSE Append(@, r.tail.original),
            !.staged = [x \in Layer |-> 0]]

(* Pages go back on the stack last first, then the spare, so that the next *)
(* append takes the bundles the dropped one had.                           *)
(* Mutant: the fill of the tail is not restored. *)
RolledBackFill(l, r) ==
  LET taken == Len(l.table) - r.pages
      back == [i \in 1..taken |-> l.table[Len(l.table) + 1 - i]]
  IN [table |-> [p \in 1..r.pages |->
                   IF r.tail # NoTail /\ p = r.pages THEN r.tail.original ELSE l.table[p]],
      fills |-> SubSeq(l.fills, 1, r.pages),
      free |-> l.free \o back \o (IF r.tail = NoTail THEN <<>> ELSE <<r.tail.replacement>>),
      staged |-> [x \in Layer |-> 0],
      committed |-> l.committed]
RolledBack(l, r) ==
  LET taken == Len(l.table) - r.pages
      back == [i \in 1..taken |-> l.table[Len(l.table) + 1 - i]]
      Old(p) == r.tail # NoTail /\ p = r.tail.page
  IN [table |-> [p \in 1..r.pages |-> IF Old(p) THEN r.tail.original ELSE l.table[p]],
      fills |-> [p \in 1..r.pages |-> IF Old(p) THEN r.tail.fill ELSE l.fills[p]],
      free |-> l.free \o back \o (IF r.tail = NoTail THEN <<>> ELSE <<r.tail.replacement>>),
      staged |-> [x \in Layer |-> 0],
      committed |-> l.committed]

------------------------------------------------------------------------------
IsLedger(l) ==
  /\ l \in [table : Seq(Bundle), fills : Seq(0..PageTokens), free : Seq(Bundle),
            staged : [Layer -> 0..MaxContext], committed : 0..MaxContext]
  /\ Len(l.fills) = Len(l.table)
==============================================================================
