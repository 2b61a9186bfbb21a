------------------------ MODULE NativeSession_proofs ------------------------
(***************************************************************************)
(* Theorems about NativeSession, for every model of full and recurrent     *)
(* layers, every context and every chunk: the memory of a session is freed *)
(* when its stream is idle, the buffers of a step are never lost, and a    *)
(* session implements TokenLog.                                            *)
(***************************************************************************)
EXTENDS NativeSession, TLAPS

(* What a session owns, by where it is. *)
Ended == {"Closed", "Released", "Freed", "Forgotten"}

Phase ==
  /\ pc \in {"idle", "prepare", "submit", "complete", "abort"}
  /\ owner \in Held \cup Ended \cup {"InFlight"}
  /\ owner = "InFlight" <=> pc # "idle"
  /\ pc = "prepare" => queue = <<>>

Buffers ==
  /\ owner \notin {"Freed", "Forgotten"} => alive = local \cup failed
  /\ owner = "Ready" => local = {} /\ failed = {}
  /\ owner \in {"InFlight", "Closed"} => failed = {}
  /\ owner = "Released" => local = {} /\ failed = {}

OwnInv == Phase /\ Buffers /\ FreedOnlyWhenIdle

LEMMA InitOwn == Init => OwnInv
BY DEF Init, OwnInv, Phase, Buffers, FreedOnlyWhenIdle, Held

LEMMA PrepareOwn ==
  ASSUME OwnInv
  PROVE  /\ \A tokens \in Chunks : Prefill(tokens) => OwnInv'
         /\ Allocate => OwnInv'
         /\ PrepareFails => OwnInv'
<1>1. ASSUME NEW tokens \in Chunks, Prefill(tokens) PROVE OwnInv'
  BY <1>1 DEF OwnInv, Phase, Buffers, FreedOnlyWhenIdle, Prefill
<1>2. ASSUME Allocate PROVE OwnInv'
  BY <1>2 DEF OwnInv, Phase, Buffers, FreedOnlyWhenIdle, Allocate, Held, Ended
<1>3. ASSUME PrepareFails PROVE OwnInv'
  <2>1. /\ pc = "prepare" /\ owner = "InFlight" /\ failed = {} /\ alive = local /\ queue = <<>>
        /\ pc' = "idle" /\ local' = {} /\ queue' = queue
        /\ owner' = IF failed' # {} \/ uncreated' THEN "PoisonedIdle" ELSE "Ready"
    BY <1>3 DEF OwnInv, Phase, Buffers, PrepareFails
  <2>2. PICK copied : failed' = local \cup copied /\ alive' = alive \cup copied
    BY <1>3 DEF PrepareFails, Kept
  <2> QED
    BY <2>1, <2>2 DEF OwnInv, Phase, Buffers, FreedOnlyWhenIdle, Held, Ended
<1> QED
  BY <1>1, <1>2, <1>3

LEMMA NextOwn == OwnInv /\ [Next]_vars => OwnInv'
<1> SUFFICES ASSUME OwnInv, [Next]_vars PROVE OwnInv'
  OBVIOUS
<1>1. CASE Execute
  BY <1>1 DEF OwnInv, Phase, Buffers, FreedOnlyWhenIdle, Execute, host
<1>2. CASE Submit
  BY <1>2 DEF OwnInv, Phase, Buffers, FreedOnlyWhenIdle, Submit
<1>3. CASE SubmitFails
  BY <1>3 DEF OwnInv, Phase, Buffers, FreedOnlyWhenIdle, SubmitFails
<1>4. CASE SynchronizeFails \/ Aborted \/ ValidationFails
  <2>1. /\ pc # "idle" /\ pc' = "idle" /\ owner' \in {"PoisonedIdle", "PoisonedUncertain"}
        /\ UNCHANGED <<local, failed, alive, queue>>
        /\ owner' = "PoisonedIdle" => queue = <<>>
    BY <1>4 DEF SynchronizeFails, Aborted, ValidationFails, Poisoned
  <2> QED
    BY <2>1 DEF OwnInv, Phase, Buffers, FreedOnlyWhenIdle, Held
<1>5. CASE Publish
  BY <1>5 DEF OwnInv, Phase, Buffers, FreedOnlyWhenIdle, Publish, Held
<1>6. CASE Close
  BY <1>6 DEF OwnInv, Phase, Buffers, FreedOnlyWhenIdle, Close, Inventory, Held, Ended
<1>7. CASE TornDown
  BY <1>7 DEF OwnInv, Phase, Buffers, FreedOnlyWhenIdle, TornDown, Held, Ended
<1>8. CASE DropSession
  <2>1. PICK fate \in {"Freed", "Forgotten"} : DropFate(fate) /\ owner' = fate
    BY <1>8 DEF DropSession
  <2>2. /\ pc = "idle" /\ pc' = pc /\ owner \in Held /\ queue' = queue
    BY <1>8 DEF DropSession
  <2>3. fate = "Freed" => queue = <<>>
    BY <2>1, <2>2 DEF OwnInv, FreedOnlyWhenIdle, DropFate, Held
  <2> QED
    BY <2>1, <2>2, <2>3 DEF OwnInv, Phase, Buffers, FreedOnlyWhenIdle, Held, Ended
<1>9. CASE UNCHANGED vars
  BY <1>9 DEF OwnInv, Phase, Buffers, FreedOnlyWhenIdle, vars, host
<1> QED
  BY <1>1, <1>2, <1>3, <1>4, <1>5, <1>6, <1>7, <1>8, <1>9, PrepareOwn DEF Next

LEMMA AlwaysOwn == Spec => []OwnInv
BY InitOwn, NextOwn, PTL DEF Spec

(* Memory that queued work may still touch is never freed, and a session at *)
(* rest has an idle stream (ResourceOwner::drop, finish_after_submission).  *)
THEOREM FreedWhenIdle == Spec => []FreedOnlyWhenIdle
<1>1. OwnInv => FreedOnlyWhenIdle
  BY DEF OwnInv
<1> QED
  BY <1>1, AlwaysOwn, PTL

(* No buffer of a step is lost, whichever of its allocations and copies     *)
(* fails (prepare_prefill, into_teardown_parts).                            *)
THEOREM StepBuffersAreKept == Spec => []StepBuffersAreOwned
<1>1. OwnInv => StepBuffersAreOwned
  BY DEF OwnInv, Phase, Buffers, StepBuffersAreOwned
<1> QED
  BY <1>1, AlwaysOwn, PTL
------------------------------------------------------------------------------
(* Sequences of tokens.  Pre(c, k) are the first k of a chunk, Upto(S, c, k) *)
(* what has been seen once they follow S.                                    *)
Pre(c, k) == [i \in 1..k |-> c[i]]
Upto(S, c, k) == S \o Pre(c, k)

LEMMA PreIs ==
  ASSUME NEW c \in Seq(Token), NEW k \in 0..Len(c)
  PROVE  /\ Pre(c, k) \in Seq(Token) /\ Len(Pre(c, k)) = k
         /\ \A i \in 1..k : Pre(c, k)[i] = c[i]
<1>1. \A i \in 1..k : c[i] \in Token
  OBVIOUS
<1>2. k \in Nat /\ Pre(c, k) \in [1..k -> Token]
  BY <1>1 DEF Pre
<1> QED
  BY <1>2 DEF Pre

LEMMA UptoIs ==
  ASSUME NEW S \in Seq(Token), NEW c \in Seq(Token), NEW k \in 0..Len(c)
  PROVE  /\ Upto(S, c, k) \in Seq(Token)
         /\ Len(Upto(S, c, k)) = Len(S) + k
         /\ \A t \in 1..(Len(S) + k) :
              Upto(S, c, k)[t] = IF t <= Len(S) THEN S[t] ELSE c[t - Len(S)]
<1>1. /\ Pre(c, k) \in Seq(Token) /\ Len(Pre(c, k)) = k
      /\ \A i \in 1..k : Pre(c, k)[i] = c[i]
  BY PreIs
<1>2. PICK p \in Seq(Token) : p = Pre(c, k)
  BY <1>1
<1>3. /\ S \o p \in Seq(Token) /\ Len(S \o p) = Len(S) + k
      /\ \A t \in 1..(Len(S) + k) : (S \o p)[t] = IF t <= Len(S) THEN S[t] ELSE p[t - Len(S)]
  BY <1>1, <1>2
<1>4. \A t \in 1..(Len(S) + k) : t > Len(S) => p[t - Len(S)] = c[t - Len(S)]
  <2>1. \A i \in 1..k : p[i] = c[i]
    BY <1>1, <1>2
  <2>2. Len(S) \in Nat /\ k \in Nat
    OBVIOUS
  <2>3. \A t \in 1..(Len(S) + k) : t > Len(S) => t - Len(S) \in 1..k
    BY <2>2
  <2> QED
    BY <2>1, <2>3
<1>5. \A t \in 1..(Len(S) + k) : (S \o p)[t] = IF t <= Len(S) THEN S[t] ELSE c[t - Len(S)]
  <2>1. Len(S) \in Nat /\ \A t \in 1..(Len(S) + k) : t <= Len(S) \/ t > Len(S)
    OBVIOUS
  <2> QED
    BY <2>1, <1>3, <1>4
<1>6. Upto(S, c, k) = S \o p
  BY <1>2 DEF Upto
<1> QED
  BY <1>3, <1>5, <1>6

(* Two sequences of one length with the same elements are one. *)
LEMMA SameSeq ==
  ASSUME NEW A, NEW B, NEW s \in Seq(A), NEW t \in Seq(B), Len(s) = Len(t),
         \A i \in 1..Len(s) : s[i] = t[i]
  PROVE  s = t
OBVIOUS

LEMMA UptoAll ==
  ASSUME NEW S \in Seq(Token), NEW c \in Seq(Token)
  PROVE  Upto(S, c, Len(c)) = S \o c
<1>1. Pre(c, Len(c)) = c
  BY PreIs, SameSeq
<1> QED
  BY <1>1 DEF Upto

LEMMA UptoMore ==
  ASSUME NEW S \in Seq(Token), NEW c \in Seq(Token), Len(c) > 0
  PROVE  Append(Upto(S, c, Len(c) - 1), c[Len(c)]) = S \o c
<1>0. Len(c) - 1 \in 0..Len(c)
  OBVIOUS
<1>1. PICK k \in 0..Len(c) : k = Len(c) - 1
  BY <1>0, Zenon
<1>2. /\ Upto(S, c, k) \in Seq(Token)
      /\ Len(Upto(S, c, k)) = Len(S) + k
      /\ \A t \in 1..(Len(S) + k) :
           Upto(S, c, k)[t] = IF t <= Len(S) THEN S[t] ELSE c[t - Len(S)]
  BY UptoIs
<1>3. PICK u \in Seq(Token) :
        /\ u = Upto(S, c, k) /\ Len(u) = Len(S) + k
        /\ \A t \in 1..(Len(S) + k) : u[t] = IF t <= Len(S) THEN S[t] ELSE c[t - Len(S)]
  BY <1>2, Zenon
<1>4. /\ Append(u, c[Len(c)]) \in Seq(Token) /\ S \o c \in Seq(Token)
      /\ Len(Append(u, c[Len(c)])) = Len(S \o c)
  BY <1>1, <1>3
<1>5. \A t \in 1..Len(S \o c) : Append(u, c[Len(c)])[t] = (S \o c)[t]
  BY <1>1, <1>3, SMTT(30)
<1>6. Append(u, c[Len(c)]) = S \o c
  BY <1>4, <1>5, SameSeq
<1> QED
  BY <1>1, <1>3, <1>6

(* The rows of a cache that have the tokens of S and of the chunk behind    *)
(* them, read from its beginning.                                           *)
LEMMA RowsAre ==
  ASSUME NEW S \in Seq(Token), NEW c \in Seq(Token), NEW k \in 0..Len(c),
         Len(S) + Len(c) <= MaxContext,
         NEW A, NEW rows \in [1..MaxContext -> A],
         \A t \in 1..Len(S) : rows[t] = S[t],
         \A i \in 1..k : rows[Len(S) + i] = c[i]
  PROVE  SubSeq(rows, 1, Len(S) + k) = Upto(S, c, k)
<1>1. MaxContext \in Nat /\ Len(S) + k \in 0..MaxContext /\ Len(S) \in Nat
  BY SizeAssumption
<1>2. rows \in Seq(A) /\ Len(rows) = MaxContext
  BY <1>1
<1>3. /\ SubSeq(rows, 1, Len(S) + k) \in Seq(A)
      /\ Len(SubSeq(rows, 1, Len(S) + k)) = Len(S) + k
      /\ \A t \in 1..(Len(S) + k) : SubSeq(rows, 1, Len(S) + k)[t] = rows[t]
  BY <1>1, <1>2
<1>4. /\ Upto(S, c, k) \in Seq(Token) /\ Len(Upto(S, c, k)) = Len(S) + k
      /\ \A t \in 1..(Len(S) + k) :
           Upto(S, c, k)[t] = IF t <= Len(S) THEN S[t] ELSE c[t - Len(S)]
  BY UptoIs
<1>5. \A t \in 1..(Len(S) + k) : rows[t] = Upto(S, c, k)[t]
  <2> TAKE t \in 1..(Len(S) + k)
  <2>1. CASE t <= Len(S)
    BY <1>1, <1>4, <2>1
  <2>2. CASE t > Len(S)
    <3>1. t - Len(S) \in 1..k /\ Len(S) + (t - Len(S)) = t
      BY <1>1, <2>2
    <3> QED
      BY <1>4, <2>2, <3>1, SMTT(30)
  <2> QED
    BY <1>1, <2>1, <2>2
<1> QED
  BY <1>3, <1>4, <1>5, SameSeq

------------------------------------------------------------------------------
(* The program of a step. *)
Layered == Len(Layers)

LEMMA LayersAre ==
  /\ Layered \in Nat \ {0} /\ Blocks = 1..Layered
  /\ Full \subseteq Blocks /\ Recurrent = Blocks \ Full
BY LayerAssumption DEF Layered, Blocks, Full, Recurrent

LEMMA Sides ==
  ASSUME NEW x \in Nat
  PROVE  Side(x) \in 1..2 /\ Side(x + 1) = 3 - Side(x) /\ Side(1) = 1
BY DEF Side

EmbedOp == [kind |-> "embed", tokens |-> step]
HeadOp == [kind |-> "head", from |-> Side(Layered + 1), count |-> Len(step)]

LEMMA ProgramIs ==
  /\ Len(Program) = Layered + 2
  /\ Program[1] = EmbedOp
  /\ \A x \in Blocks : Program[x + 1] = OpOf(x)
  /\ Program[Layered + 2] = HeadOp
<1> DEFINE body == [x \in Blocks |-> OpOf(x)]
           A == {OpOf(x) : x \in Blocks} \cup {EmbedOp, HeadOp}
<1>1. Layered \in Nat \ {0} /\ Blocks = 1..Layered
  BY LayersAre
<1>2. body \in [1..Layered -> A]
  BY <1>1
<1>3. body \in Seq(A) /\ Len(body) = Layered /\ \A x \in Blocks : body[x] = OpOf(x)
  BY <1>1, <1>2
<1>4. <<EmbedOp>> \in Seq(A) /\ <<HeadOp>> \in Seq(A)
  OBVIOUS
<1>5. Program = <<EmbedOp>> \o body \o <<HeadOp>>
  BY DEF Program, EmbedOp, HeadOp, Layered
<1> HIDE DEF body, A
<1>6. /\ <<EmbedOp>> \o body \in Seq(A) /\ Len(<<EmbedOp>> \o body) = Layered + 1
      /\ (<<EmbedOp>> \o body)[1] = EmbedOp
      /\ \A x \in Blocks : (<<EmbedOp>> \o body)[x + 1] = OpOf(x)
  BY <1>1, <1>3, <1>4
<1>7. PICK q \in Seq(A) : q = <<EmbedOp>> \o body
  BY <1>6
<1>8. /\ Len(q \o <<HeadOp>>) = Layered + 2
      /\ \A i \in 1..(Layered + 1) : (q \o <<HeadOp>>)[i] = q[i]
      /\ (q \o <<HeadOp>>)[Layered + 2] = HeadOp
  BY <1>1, <1>4, <1>6, <1>7
<1>9. \A x \in Blocks : x + 1 \in 1..(Layered + 1)
  BY <1>1
<1> QED
  BY <1>1, <1>5, <1>6, <1>7, <1>8, <1>9

------------------------------------------------------------------------------
(* What is true of the device behind a published state S, whatever is on   *)
(* its stream: the committed states and rows stand for S, and operations   *)
(* only write the others.                                                  *)
EmbedOps == [kind : {"embed"}, tokens : Seq(Token)]
RecurrentOps ==
  [kind : {"recurrent"}, layer : Recurrent, from : 1..2, to : 1..2, read : 1..2]
FullOps(base) ==
  [kind : {"full"}, layer : Full, from : 1..2, to : 1..2, base : {base}]
HeadOps == [kind : {"head"}, from : 1..2, count : Nat]

Ops ==
  EmbedOps \cup FullOps(pool.committed) \cup HeadOps
    \cup {op \in RecurrentOps : op.read = committed[op.layer]}

DeviceShape(d) ==
  /\ DOMAIN d = {"hidden", "state", "rows", "logits"}
  /\ DOMAIN d.hidden = 1..2
  /\ \A s \in 1..2 : DOMAIN d.hidden[s] \subseteq Nat \ {0}
  /\ DOMAIN d.state = Recurrent
  /\ \A x \in Recurrent : DOMAIN d.state[x] = 1..2
  /\ DOMAIN d.rows = Full
  /\ \A x \in Full : d.rows[x] = [t \in 1..MaxContext |-> d.rows[x][t]]

Published(d, S) ==
  /\ \A x \in Recurrent : d.state[x][committed[x]] = S
  /\ \A x \in Full : \A t \in 1..Len(S) : d.rows[x][t] = S[t]

Counts(S) ==
  /\ S \in Seq(Token) /\ Len(S) <= MaxContext
  /\ committed \in [Recurrent -> 1..2]
  /\ Full # {} => pool.committed = Len(S)

(* What the kernels write. *)
EmbedWrites(d, op, e) ==
  /\ DeviceShape(e) /\ e.state = d.state /\ e.rows = d.rows
  /\ e.hidden[1] = [i \in DOMAIN op.tokens |-> [token |-> op.tokens[i], seen |-> NotYet]]

HeadWrites(d, op, e) ==
  /\ DeviceShape(e) /\ e.state = d.state /\ e.rows = d.rows
  /\ LET last == d.hidden[op.from][op.count]
     IN e.logits = IF last.seen = Junk THEN Junk ELSE Append(last.seen, last.token)

RecurrentWrites(d, op, e) ==
  LET in == d.hidden[op.from]
      base == d.state[op.layer][op.read]
  IN /\ DeviceShape(e) /\ e.rows = d.rows
     /\ e.hidden[op.to] = [i \in DOMAIN in |-> Through(in[i], base \o TokensOf(in, i - 1))]
     /\ e.state[op.layer][3 - op.read] = base \o TokensOf(in, Len(in))
     /\ e.state[op.layer][op.read] = base
     /\ \A x \in Recurrent \ {op.layer} : e.state[x] = d.state[x]

FullRows(d, op, in) ==
  [t \in 1..MaxContext |->
     IF t - op.base \in DOMAIN in THEN in[t - op.base].token ELSE d.rows[op.layer][t]]
FullWrites(d, op, e) ==
  LET in == d.hidden[op.from]
      rows == FullRows(d, op, in)
  IN /\ DeviceShape(e) /\ e.state = d.state
     /\ e.hidden[op.to] = [i \in DOMAIN in |-> Through(in[i], SubSeq(rows, 1, op.base + i - 1))]
     /\ e.rows[op.layer] = rows
     /\ \A x \in Full \ {op.layer} : e.rows[x] = d.rows[x]

LEMMA EmbedKeeps ==
  ASSUME NEW d, DeviceShape(d), NEW op \in EmbedOps
  PROVE  EmbedWrites(d, op, Run(d, op))
<1> PICK e : e = Run(d, op)
  OBVIOUS
<1>1. Run(d, op) = RunEmbed(d, op)
  BY DEF Run, EmbedOps
<1> DEFINE h == [i \in DOMAIN op.tokens |-> [token |-> op.tokens[i], seen |-> NotYet]]
<1>2. DOMAIN h \subseteq Nat \ {0}
  BY DEF EmbedOps
<1>3. RunEmbed(d, op) = [d EXCEPT !.hidden[1] = h]
  BY DEF RunEmbed
<1> HIDE DEF h
<1>4. e = [d EXCEPT !.hidden[1] = h]
  BY <1>1, <1>3
<1>5. /\ DOMAIN e = DOMAIN d /\ e.state = d.state /\ e.rows = d.rows
      /\ DOMAIN e.hidden = 1..2 /\ e.hidden[1] = h /\ e.hidden[2] = d.hidden[2]
  BY <1>4 DEF DeviceShape
<1>6. DeviceShape(e)
  BY <1>2, <1>5 DEF DeviceShape
<1> QED
  BY <1>5, <1>6 DEF h, EmbedWrites

LEMMA HeadKeeps ==
  ASSUME NEW d, DeviceShape(d), NEW op \in HeadOps
  PROVE  HeadWrites(d, op, Run(d, op))
<1> PICK e, last : e = Run(d, op) /\ last = d.hidden[op.from][op.count]
  OBVIOUS
<1>1. Run(d, op) = RunHead(d, op)
  BY DEF Run, HeadOps
<1> DEFINE v == IF last.seen = Junk THEN Junk ELSE Append(last.seen, last.token)
<1>2. RunHead(d, op) = [d EXCEPT !.logits = v]
  BY DEF RunHead
<1> HIDE DEF v
<1>3. e = [d EXCEPT !.logits = v]
  BY <1>1, <1>2
<1>4. /\ DOMAIN e = DOMAIN d /\ e.state = d.state /\ e.rows = d.rows
      /\ e.hidden = d.hidden /\ e.logits = v
  BY <1>3 DEF DeviceShape
<1>5. DeviceShape(e)
  BY <1>4, Zenon DEF DeviceShape
<1> QED
  BY <1>4, <1>5 DEF v, HeadWrites

LEMMA RecurrentKeeps ==
  ASSUME NEW d, DeviceShape(d), NEW op \in RecurrentOps
  PROVE  RecurrentWrites(d, op, Run(d, op))
<1> PICK e, in, base :
      e = Run(d, op) /\ in = d.hidden[op.from] /\ base = d.state[op.layer][op.read]
  OBVIOUS
<1> DEFINE h == [i \in DOMAIN in |-> Through(in[i], base \o TokensOf(in, i - 1))]
           s == base \o TokensOf(in, Len(in))
<1>1. Run(d, op) = RunRecurrent(d, op)
  BY DEF Run, RecurrentOps
<1>2. RunRecurrent(d, op) = [d EXCEPT !.hidden[op.to] = h, !.state[op.layer][3 - op.read] = s]
  BY DEF RunRecurrent
<1>3. DOMAIN h \subseteq Nat \ {0}
  BY DEF DeviceShape, RecurrentOps
<1>4. /\ op.to \in 1..2 /\ op.layer \in Recurrent /\ op.read \in 1..2
      /\ 3 - op.read \in 1..2 /\ 3 - op.read # op.read
  BY DEF RecurrentOps
<1>5. PICK g, u : g = h /\ u = s
  OBVIOUS
<1>6. e = [d EXCEPT !.hidden[op.to] = g, !.state[op.layer][3 - op.read] = u]
  BY <1>1, <1>2, <1>5
<1>7. /\ DOMAIN e = DOMAIN d /\ e.rows = d.rows
      /\ e.hidden = [d.hidden EXCEPT ![op.to] = g]
      /\ e.state = [d.state EXCEPT ![op.layer][3 - op.read] = u]
  BY <1>6 DEF DeviceShape
<1>8. /\ DOMAIN e.hidden = 1..2 /\ e.hidden[op.to] = g
      /\ \A k \in 1..2 : k # op.to => e.hidden[k] = d.hidden[k]
  BY <1>4, <1>7 DEF DeviceShape
<1>9. /\ DOMAIN e.state = Recurrent
      /\ e.state[op.layer] = [d.state[op.layer] EXCEPT ![3 - op.read] = u]
      /\ \A x \in Recurrent \ {op.layer} : e.state[x] = d.state[x]
  BY <1>4, <1>7 DEF DeviceShape
<1>10. /\ DOMAIN e.state[op.layer] = 1..2
       /\ e.state[op.layer][3 - op.read] = u
       /\ e.state[op.layer][op.read] = base
  BY <1>4, <1>9 DEF DeviceShape
<1>11. DOMAIN g \subseteq Nat \ {0}
  BY <1>3, <1>5
<1>12. \A k \in 1..2 : DOMAIN e.hidden[k] \subseteq Nat \ {0}
  BY <1>8, <1>11 DEF DeviceShape
<1>13. \A x \in Recurrent : DOMAIN e.state[x] = 1..2
  BY <1>9, <1>10 DEF DeviceShape
<1>14. DeviceShape(e)
  BY <1>7, <1>8, <1>9, <1>12, <1>13 DEF DeviceShape
<1> QED
  BY <1>5, <1>7, <1>8, <1>9, <1>10, <1>14, ZenonT(40) DEF RecurrentWrites

LEMMA FullKeeps ==
  ASSUME NEW d, DeviceShape(d), NEW b, NEW op \in FullOps(b)
  PROVE  FullWrites(d, op, Run(d, op))
<1> PICK e, in : e = Run(d, op) /\ in = d.hidden[op.from]
  OBVIOUS
<1> PICK rows : rows = FullRows(d, op, in)
  OBVIOUS
<1> DEFINE h == [i \in DOMAIN in |-> Through(in[i], SubSeq(rows, 1, op.base + i - 1))]
<1>1. Run(d, op) = RunFull(d, op)
  BY DEF Run, FullOps
<1>2. RunFull(d, op) = [d EXCEPT !.hidden[op.to] = h, !.rows[op.layer] = rows]
  BY DEF RunFull, FullRows
<1>3. DOMAIN h \subseteq Nat \ {0} /\ rows = [t \in 1..MaxContext |-> rows[t]]
  BY DEF DeviceShape, FullOps, FullRows
<1>4. op.to \in 1..2 /\ op.layer \in Full
  BY DEF FullOps
<1>5. PICK g, r : g = h /\ r = rows
  OBVIOUS
<1>6. e = [d EXCEPT !.hidden[op.to] = g, !.rows[op.layer] = r]
  BY <1>1, <1>2, <1>5
<1>7. /\ DOMAIN e = DOMAIN d /\ e.state = d.state
      /\ e.hidden = [d.hidden EXCEPT ![op.to] = g]
      /\ e.rows = [d.rows EXCEPT ![op.layer] = r]
  BY <1>6 DEF DeviceShape
<1>8. /\ DOMAIN e.hidden = 1..2 /\ e.hidden[op.to] = g
      /\ \A k \in 1..2 : k # op.to => e.hidden[k] = d.hidden[k]
  BY <1>4, <1>7 DEF DeviceShape
<1>9. /\ DOMAIN e.rows = Full /\ e.rows[op.layer] = r
      /\ \A x \in Full \ {op.layer} : e.rows[x] = d.rows[x]
  BY <1>4, <1>7 DEF DeviceShape
<1>10. DOMAIN g \subseteq Nat \ {0} /\ r = [t \in 1..MaxContext |-> r[t]]
  BY <1>3, <1>5
<1>11. \A k \in 1..2 : DOMAIN e.hidden[k] \subseteq Nat \ {0}
  BY <1>8, <1>10 DEF DeviceShape
<1>12. \A x \in Full : e.rows[x] = [t \in 1..MaxContext |-> e.rows[x][t]]
  BY <1>9, <1>10 DEF DeviceShape
<1>13. DeviceShape(e)
  BY <1>7, <1>8, <1>9, <1>11, <1>12 DEF DeviceShape
<1> QED
  BY <1>5, <1>7, <1>8, <1>9, <1>13 DEF FullWrites

(* No operation touches what was published. *)
LEMMA RunKeeps ==
  ASSUME NEW S, Counts(S), NEW d, DeviceShape(d), Published(d, S), NEW op \in Ops
  PROVE  DeviceShape(Run(d, op)) /\ Published(Run(d, op), S)
<1> PICK e : e = Run(d, op)
  OBVIOUS
<1>1. CASE op \in EmbedOps
  <2>1. DeviceShape(e) /\ e.state = d.state /\ e.rows = d.rows
    BY <1>1, EmbedKeeps DEF EmbedWrites
  <2> QED
    BY <2>1 DEF Published
<1>2. CASE op \in HeadOps
  <2>1. DeviceShape(e) /\ e.state = d.state /\ e.rows = d.rows
    BY <1>2, HeadKeeps DEF HeadWrites
  <2> QED
    BY <2>1 DEF Published
<1>3. CASE op \in RecurrentOps /\ op.read = committed[op.layer]
  <2>1. op.layer \in Recurrent
    BY <1>3 DEF RecurrentOps
  <2>2. RecurrentWrites(d, op, e)
    BY <1>3, RecurrentKeeps, ZenonT(40)
  <2>3. /\ DeviceShape(e) /\ e.rows = d.rows
        /\ e.state[op.layer][op.read] = d.state[op.layer][op.read]
        /\ \A x \in Recurrent \ {op.layer} : e.state[x] = d.state[x]
    BY <2>2 DEF RecurrentWrites
  <2>4. \A x \in Recurrent : e.state[x][committed[x]] = S
    BY <1>3, <2>1, <2>3 DEF Published
  <2> QED
    BY <2>3, <2>4 DEF Published
<1>4. CASE op \in FullOps(pool.committed)
  <2>1. op.layer \in Full /\ op.from \in 1..2 /\ op.base = Len(S) /\ Len(S) \in Nat
    BY <1>4 DEF FullOps, Counts
  <2> PICK in : in = d.hidden[op.from]
    OBVIOUS
  <2> PICK rows : rows = FullRows(d, op, in)
    OBVIOUS
  <2>2. FullWrites(d, op, e)
    BY <1>4, FullKeeps
  <2>3. /\ DeviceShape(e) /\ e.state = d.state /\ e.rows[op.layer] = rows
        /\ \A x \in Full \ {op.layer} : e.rows[x] = d.rows[x]
    BY <2>2 DEF FullWrites
  <2>4. \A t \in 1..Len(S) : rows[t] = d.rows[op.layer][t]
    <3> TAKE t \in 1..Len(S)
    <3>1. DOMAIN in \subseteq Nat \ {0}
      BY <2>1 DEF DeviceShape
    <3>2. t - op.base \notin DOMAIN in
      BY <2>1, <3>1
    <3>3. t \in 1..MaxContext
      BY <2>1, SizeAssumption DEF Counts
    <3> QED
      BY <3>2, <3>3 DEF FullRows
  <2>5. \A x \in Full : \A t \in 1..Len(S) : e.rows[x][t] = S[t]
    <3> TAKE x \in Full
    <3> QED
      BY <2>1, <2>3, <2>4 DEF Published
  <2> QED
    BY <2>3, <2>5 DEF Published
<1> QED
  BY <1>1, <1>2, <1>3, <1>4 DEF Ops

------------------------------------------------------------------------------
(* How far the device is with a step: after j operations of its program    *)
(* the hidden rows of the side the last one wrote stand for all that was   *)
(* seen up to each token, and the layers behind have their new state in    *)
(* the uncommitted buffer or their rows behind the committed ones.         *)
RowIs(S, c, j, i) ==
  [token |-> c[i], seen |-> IF j = 1 THEN NotYet ELSE Upto(S, c, i - 1)]

RowsAt(S, c, j) == [i \in 1..Len(c) |-> RowIs(S, c, j, i)]

Reached(d, S, c, j) ==
  /\ j \in 1..(Layered + 1) => d.hidden[Side(j)] = RowsAt(S, c, j)
  /\ \A x \in Recurrent : x < j => d.state[x][3 - committed[x]] = S \o c
  /\ \A x \in Full : x < j => \A i \in 1..Len(c) : d.rows[x][Len(S) + i] = c[i]
  /\ j = Layered + 2 => d.logits = S \o c

Fits(S, c) ==
  /\ c \in Seq(Token) /\ Len(c) > 0
  /\ Len(S) + Len(c) <= MaxContext

(* A row that goes through a layer whose memory is all before it. *)
LEMMA ThroughIs ==
  ASSUME NEW S, NEW c, NEW j \in 1..Layered, NEW i
  PROVE  Through(RowIs(S, c, j, i), Upto(S, c, i - 1)) = RowIs(S, c, j + 1, i)
<1>1. j + 1 # 1
  BY LayersAre
<1> QED
  BY <1>1 DEF Through, RowIs

LEMMA TokensAre ==
  ASSUME NEW S, NEW c \in Seq(Token), NEW j, NEW in, in = RowsAt(S, c, j),
         NEW k \in 0..Len(c)
  PROVE  TokensOf(in, k) = Pre(c, k)
<1>1. \A i \in 1..k : in[i].token = c[i]
  BY DEF RowIs, RowsAt
<1> QED
  BY <1>1 DEF TokensOf, Pre

LEMMA EmbedReaches ==
  ASSUME NEW S, Fits(S, step), NEW d, DeviceShape(d)
  PROVE  Reached(Run(d, Program[1]), S, step, 1)
<1>1. Program[1] = EmbedOp /\ Side(1) = 1
  BY ProgramIs, Sides
<1>2. EmbedOp \in EmbedOps /\ EmbedOp.tokens = step
  BY DEF EmbedOp, EmbedOps, Fits
<1>3. DOMAIN step = 1..Len(step)
  BY DEF Fits
<1>4. Run(d, EmbedOp).hidden[1] =
        [i \in DOMAIN step |-> [token |-> step[i], seen |-> NotYet]]
  BY <1>2, EmbedKeeps DEF EmbedWrites
<1>5. Run(d, EmbedOp).hidden[1] = RowsAt(S, step, 1)
  BY <1>3, <1>4 DEF RowIs, RowsAt
<1>6. \A x \in Blocks : ~(x < 1)
  BY LayersAre
<1>7. 1 # Layered + 2
  BY LayersAre
<1> QED
  BY <1>1, <1>5, <1>6, <1>7, LayersAre DEF Reached

LEMMA RecurrentReaches ==
  ASSUME NEW S, Counts(S), Fits(S, step), NEW d, DeviceShape(d), Published(d, S),
         NEW j \in Recurrent, Reached(d, S, step, j)
  PROVE  Reached(Run(d, Program[j + 1]), S, step, j + 1)
<1> PICK op : op = Program[j + 1]
  OBVIOUS
<1>1. j \in 1..Layered /\ Layered \in Nat /\ j \in Blocks /\ j \notin Full
  BY LayersAre
<1>2. /\ op = [kind |-> "recurrent", layer |-> j, from |-> Side(j), to |-> Side(j + 1),
               read |-> committed[j]]
  BY <1>1, ProgramIs DEF OpOf
<1>3. op \in RecurrentOps
  <2>1. Side(j) \in 1..2 /\ Side(j + 1) \in 1..2 /\ committed[j] \in 1..2
    BY <1>1, Sides DEF Counts
  <2> QED
    BY <1>2, <2>1 DEF RecurrentOps
<1> PICK in : in = d.hidden[Side(j)]
  OBVIOUS
<1>4. in = RowsAt(S, step, j) /\ Len(step) \in Nat
  BY <1>1 DEF Reached, Fits
<1>5. /\ DOMAIN in = 1..Len(step) /\ Len(in) = Len(step)
      /\ \A i \in 1..Len(step) : in[i] = RowIs(S, step, j, i)
  BY <1>4 DEF RowsAt
<1> PICK base : base = d.state[op.layer][op.read]
  OBVIOUS
<1>6. base = S
  BY <1>2 DEF Published
<1> PICK e : e = Run(d, op)
  OBVIOUS
<1>7. /\ e.rows = d.rows
      /\ e.hidden[Side(j + 1)] = [i \in DOMAIN in |-> Through(in[i], S \o TokensOf(in, i - 1))]
      /\ e.state[j][3 - committed[j]] = S \o TokensOf(in, Len(in))
      /\ \A x \in Recurrent \ {j} : e.state[x] = d.state[x]
  <2>1. RecurrentWrites(d, op, e)
    BY <1>3, RecurrentKeeps
  <2>2. op.from = Side(j) /\ op.to = Side(j + 1) /\ op.layer = j /\ op.read = committed[j]
    BY <1>2
  <2>3. in = d.hidden[op.from]
    BY <2>2, ZenonT(40)
  <2>4. /\ e.rows = d.rows
        /\ e.hidden[op.to] = [i \in DOMAIN in |-> Through(in[i], base \o TokensOf(in, i - 1))]
        /\ e.state[op.layer][3 - op.read] = base \o TokensOf(in, Len(in))
        /\ \A x \in Recurrent \ {op.layer} : e.state[x] = d.state[x]
    BY <2>1, <2>3 DEF RecurrentWrites
  <2> QED
    BY <1>6, <2>2, <2>4
<1>8. \A i \in 1..Len(step) : Through(in[i], S \o TokensOf(in, i - 1)) = RowIs(S, step, j + 1, i)
  <2> TAKE i \in 1..Len(step)
  <2>1. i - 1 \in 0..Len(step) /\ step \in Seq(Token)
    BY <1>4 DEF Fits
  <2> PICK k \in 0..Len(step) : k = i - 1
    BY <2>1, Zenon
  <2>2. TokensOf(in, k) = Pre(step, k)
    BY <1>4, <2>1, TokensAre
  <2>3. in[i] = RowIs(S, step, j, i)
    BY <1>5
  <2>4. Through(in[i], Upto(S, step, i - 1)) = RowIs(S, step, j + 1, i)
    BY <1>1, <2>3, ThroughIs
  <2> QED
    BY <2>2, <2>4 DEF Upto
<1>9. e.hidden[Side(j + 1)] = RowsAt(S, step, j + 1)
  BY <1>5, <1>7, <1>8 DEF RowsAt
<1>10. e.state[j][3 - committed[j]] = S \o step
  <2>1. S \in Seq(Token) /\ step \in Seq(Token) /\ Len(step) \in 0..Len(step)
    BY <1>4 DEF Fits, Counts
  <2>2. TokensOf(in, Len(step)) = Pre(step, Len(step))
    BY <1>4, <2>1, TokensAre
  <2> QED
    BY <1>5, <1>7, <2>1, <2>2, UptoAll DEF Upto
<1>11. \A x \in Recurrent : x < j + 1 => e.state[x][3 - committed[x]] = S \o step
  <2>1. \A x \in Recurrent : x < j + 1 => x = j \/ x < j
    BY <1>1, LayersAre
  <2>2. \A x \in Recurrent \ {j} : x < j => e.state[x][3 - committed[x]] = S \o step
    BY <1>7 DEF Reached
  <2>3. \A x \in Recurrent : x < j => x # j
    BY <1>1, LayersAre
  <2> QED
    BY <1>10, <2>1, <2>2, <2>3
<1>12. \A x \in Full : x < j + 1 => x < j
  BY <1>1, LayersAre
<1>13. \A x \in Full : x < j + 1 => \A i \in 1..Len(step) : e.rows[x][Len(S) + i] = step[i]
  <2>1. \A x \in Full : x < j => \A i \in 1..Len(step) : d.rows[x][Len(S) + i] = step[i]
    BY Zenon DEF Reached
  <2>2. e.rows = d.rows
    BY <1>7, Zenon
  <2> QED
    BY <1>12, <2>1, <2>2, Zenon
<1>14. j + 1 # Layered + 2
  BY <1>1
<1> QED
  BY <1>9, <1>11, <1>13, <1>14 DEF Reached

LEMMA FullReaches ==
  ASSUME NEW S, Counts(S), Fits(S, step), NEW d, DeviceShape(d), Published(d, S),
         NEW j \in Full, Reached(d, S, step, j)
  PROVE  Reached(Run(d, Program[j + 1]), S, step, j + 1)
<1> PICK op : op = Program[j + 1]
  OBVIOUS
<1>1. j \in 1..Layered /\ Layered \in Nat /\ j \in Blocks
  BY LayersAre
<1>2. /\ op = [kind |-> "full", layer |-> j, from |-> Side(j), to |-> Side(j + 1),
               base |-> pool.committed]
      /\ pool.committed = Len(S)
  BY <1>1, ProgramIs DEF OpOf, Counts
<1>3. op \in FullOps(Len(S))
  <2>1. Side(j) \in 1..2 /\ Side(j + 1) \in 1..2
    BY <1>1, Sides
  <2> QED
    BY <1>2, <2>1 DEF FullOps
<1> PICK in : in = d.hidden[Side(j)]
  OBVIOUS
<1>4. /\ in = RowsAt(S, step, j) /\ Len(step) \in Nat
      /\ S \in Seq(Token) /\ step \in Seq(Token) /\ Len(S) \in Nat
      /\ Len(S) + Len(step) <= MaxContext /\ MaxContext \in Nat
  BY <1>1, SizeAssumption DEF Reached, Fits, Counts
<1>5. /\ DOMAIN in = 1..Len(step)
      /\ \A i \in 1..Len(step) : in[i] = RowIs(S, step, j, i) /\ in[i].token = step[i]
  BY <1>4 DEF RowIs, RowsAt
<1> PICK rows : rows = FullRows(d, op, in)
  OBVIOUS
<1>6. rows = [t \in 1..MaxContext |->
                IF t - Len(S) \in DOMAIN in THEN in[t - Len(S)].token ELSE d.rows[j][t]]
  BY <1>2 DEF FullRows
<1> PICK e : e = Run(d, op)
  OBVIOUS
<1>7. /\ e.state = d.state
      /\ e.hidden[Side(j + 1)] =
           [i \in DOMAIN in |-> Through(in[i], SubSeq(rows, 1, Len(S) + i - 1))]
      /\ e.rows[j] = rows
      /\ \A x \in Full \ {j} : e.rows[x] = d.rows[x]
  <2>1. FullWrites(d, op, e)
    BY <1>3, FullKeeps
  <2> QED
    BY <1>2, <2>1 DEF FullWrites
<1>8. \A t \in 1..Len(S) : rows[t] = S[t]
  <2> TAKE t \in 1..Len(S)
  <2>1. t \in 1..MaxContext /\ t - Len(S) \notin 1..Len(step)
    BY <1>4
  <2>2. rows[t] = d.rows[j][t]
    BY <1>5, <1>6, <2>1
  <2> QED
    BY <2>2 DEF Published
<1>9. \A i \in 1..Len(step) : rows[Len(S) + i] = step[i]
  <2> TAKE i \in 1..Len(step)
  <2>1. Len(S) + i \in 1..MaxContext /\ (Len(S) + i) - Len(S) = i
    BY <1>4
  <2> QED
    BY <1>5, <1>6, <2>1
<1> PICK A : A = {rows[t] : t \in 1..MaxContext}
  OBVIOUS
<1>10. rows \in [1..MaxContext -> A]
  BY <1>6
<1>11. \A i \in 1..Len(step) :
         Through(in[i], SubSeq(rows, 1, Len(S) + i - 1)) = RowIs(S, step, j + 1, i)
  <2> TAKE i \in 1..Len(step)
  <2>1. i - 1 \in 0..Len(step) /\ Len(S) + i - 1 = Len(S) + (i - 1) /\ 1..(i - 1) \subseteq 1..Len(step)
    BY <1>4
  <2> PICK k \in 0..Len(step) : k = i - 1
    BY <2>1, Zenon
  <2>4. \A m \in 1..k : rows[Len(S) + m] = step[m]
    BY <1>9, <2>1
  <2>5. SubSeq(rows, 1, Len(S) + k) = Upto(S, step, k)
    BY <1>4, <1>8, <1>10, <2>4, RowsAre, Zenon
  <2>2. SubSeq(rows, 1, Len(S) + i - 1) = Upto(S, step, i - 1)
    BY <2>1, <2>5
  <2>3. in[i] = RowIs(S, step, j, i)
    BY <1>5
  <2> QED
    BY <1>1, <2>2, <2>3, ThroughIs
<1>12. e.hidden[Side(j + 1)] = RowsAt(S, step, j + 1)
  BY <1>5, <1>7, <1>11 DEF RowsAt
<1>13. \A x \in Full : x < j + 1 => \A i \in 1..Len(step) : e.rows[x][Len(S) + i] = step[i]
  <2>1. \A x \in Full : x < j + 1 => x = j \/ x < j
    <3>1. \A x \in Full : x \in 1..Layered
      BY LayersAre
    <3> QED
      BY <1>1, <3>1
  <2>2. \A x \in Full \ {j} : x < j => \A i \in 1..Len(step) : e.rows[x][Len(S) + i] = step[i]
    BY <1>7 DEF Reached
  <2>3. \A x \in Full : x < j => x # j
    BY <1>1, LayersAre
  <2>4. \A i \in 1..Len(step) : e.rows[j][Len(S) + i] = step[i]
    BY <1>7, <1>9
  <2> QED
    BY <2>1, <2>2, <2>3, <2>4
<1>14. \A x \in Recurrent : x < j + 1 => x < j
  BY <1>1, LayersAre
<1>15. \A x \in Recurrent : x < j + 1 => e.state[x][3 - committed[x]] = S \o step
  BY <1>7, <1>14 DEF Reached
<1>16. j + 1 # Layered + 2
  BY <1>1
<1> QED
  BY <1>12, <1>13, <1>15, <1>16 DEF Reached

LEMMA HeadReaches ==
  ASSUME NEW S, Counts(S), Fits(S, step), NEW d, DeviceShape(d), Published(d, S),
         Reached(d, S, step, Layered + 1)
  PROVE  Reached(Run(d, Program[Layered + 2]), S, step, Layered + 2)
<1> PICK op : op = HeadOp
  OBVIOUS
<1>1. Program[Layered + 2] = op /\ Layered \in Nat \ {0} /\ Blocks = 1..Layered
  BY ProgramIs, LayersAre
<1>2. /\ op \in HeadOps
      /\ op.from = Side(Layered + 1) /\ op.count = Len(step)
  BY <1>1, Sides DEF HeadOp, HeadOps, Fits
<1>3. /\ Len(step) \in 1..Len(step) /\ Len(step) - 1 \in 0..Len(step)
      /\ S \in Seq(Token) /\ step \in Seq(Token)
  BY DEF Fits, Counts
<1> PICK last : last = d.hidden[op.from][op.count]
  OBVIOUS
<1>4. last = RowIs(S, step, Layered + 1, Len(step))
  BY <1>1, <1>2, <1>3 DEF Reached, RowsAt
<1>5. last.token = step[Len(step)] /\ last.seen = Upto(S, step, Len(step) - 1)
  BY <1>1, <1>4 DEF RowIs
<1>6. last.seen # Junk
  <2>1. Upto(S, step, Len(step) - 1) \in Seq(Token)
    BY <1>3, UptoIs, Zenon
  <2> QED
    BY <1>5, <2>1, JunkAssumption, Zenon
<1> PICK e : e = Run(d, op)
  OBVIOUS
<1>7. /\ e.state = d.state /\ e.rows = d.rows
      /\ e.logits = Append(last.seen, last.token)
  <2>1. HeadWrites(d, op, e)
    BY <1>2, HeadKeeps
  <2> QED
    BY <1>6, <2>1 DEF HeadWrites
<1>8. e.logits = S \o step
  BY <1>3, <1>5, <1>7, UptoMore DEF Fits
<1>9. \A x \in Blocks : x < Layered + 2 /\ x < Layered + 1
  BY <1>1
<1>10. Layered + 2 \notin 1..(Layered + 1)
  BY <1>1
<1> QED
  BY <1>1, <1>7, <1>8, <1>9, <1>10, LayersAre, ZenonT(40) DEF Reached

LEMMA RunReaches ==
  ASSUME NEW S, Counts(S), Fits(S, step), NEW d, DeviceShape(d), Published(d, S),
         NEW j \in 0..(Layered + 1), Reached(d, S, step, j)
  PROVE  Reached(Run(d, Program[j + 1]), S, step, j + 1)
<1>1. Layered \in Nat \ {0} /\ Blocks = 1..Layered /\ Recurrent = Blocks \ Full
  BY LayersAre
<1>2. CASE j = 0
  BY <1>2, EmbedReaches
<1>3. CASE j \in Recurrent
  BY <1>3, RecurrentReaches
<1>4. CASE j \in Full
  BY <1>4, FullReaches
<1>5. CASE j = Layered + 1
  <2>1. j + 1 = Layered + 2
    BY <1>1, <1>5
  <2> QED
    BY <1>5, <2>1, HeadReaches
<1>6. j = 0 \/ j = Layered + 1 \/ j \in Blocks
  BY <1>1
<1> QED
  BY <1>1, <1>2, <1>3, <1>4, <1>5, <1>6

------------------------------------------------------------------------------
(* The operations of a program from the one behind j up to m. *)
Segment(f, j, m) == [i \in 1..(m - j) |-> f[j + i]]
Fills(A, f, m) == \A k \in 1..m : f[k] \in A

LEMMA SegmentIs ==
  ASSUME NEW A, NEW f, NEW m \in Nat, Fills(A, f, m), NEW j \in 0..m
  PROVE  Segment(f, j, m) \in Seq(A) /\ Len(Segment(f, j, m)) = m - j
<1>1. \A i \in 1..(m - j) : f[j + i] \in A
  <2> TAKE i \in 1..(m - j)
  <2>1. j + i \in 1..m
    OBVIOUS
  <2> QED
    BY <2>1 DEF Fills
<1>2. m - j \in Nat /\ Segment(f, j, m) \in [1..(m - j) -> A]
  BY <1>1 DEF Segment
<1> QED
  BY <1>2

LEMMA SegmentMore ==
  ASSUME NEW A, NEW f, NEW m \in Nat, Fills(A, f, m + 1), NEW j \in 0..m
  PROVE  Append(Segment(f, j, m), f[m + 1]) = Segment(f, j, m + 1)
<1>0. Segment(f, j, m) \in Seq(A) /\ Len(Segment(f, j, m)) = m - j
  <2>1. Fills(A, f, m)
    BY DEF Fills
  <2> QED
    BY <2>1, SegmentIs
<1> PICK q : q = Segment(f, j, m)
  OBVIOUS
<1> PICK u : u = Segment(f, j, m + 1)
  OBVIOUS
<1>1. q \in Seq(A) /\ Len(q) = m - j
  BY <1>0
<1>2. PICK n \in Nat : n = m + 1
  OBVIOUS
<1>3. u \in Seq(A) /\ Len(u) = m + 1 - j
  <2>1. j \in 0..n /\ Fills(A, f, n)
    BY <1>2
  <2>2. Segment(f, j, n) \in Seq(A) /\ Len(Segment(f, j, n)) = n - j
    BY <2>1, SegmentIs
  <2> QED
    BY <1>2, <2>2
<1>4. f[m + 1] \in A
  BY DEF Fills
<1>5. /\ Append(q, f[m + 1]) \in Seq(A) /\ Len(Append(q, f[m + 1])) = m + 1 - j
      /\ \A i \in 1..(m + 1 - j) :
           Append(q, f[m + 1])[i] = IF i = m + 1 - j THEN f[m + 1] ELSE q[i]
  BY <1>1, <1>4
<1>6. \A i \in 1..(m + 1 - j) : u[i] = f[j + i]
  BY DEF Segment
<1>7. \A i \in 1..(m - j) : q[i] = f[j + i]
  BY DEF Segment
<1>8. \A i \in 1..(m + 1 - j) : Append(q, f[m + 1])[i] = u[i]
  <2> TAKE i \in 1..(m + 1 - j)
  <2>1. CASE i = m + 1 - j
    <3>1. j + i = m + 1
      BY <2>1
    <3> QED
      BY <1>5, <1>6, <2>1, <3>1
  <2>2. CASE i # m + 1 - j
    <3>1. i \in 1..(m - j)
      BY <2>2
    <3> QED
      BY <1>5, <1>6, <1>7, <2>2, <3>1
  <2> QED
    BY <2>1, <2>2
<1> QED
  BY <1>3, <1>5, <1>8, SameSeq

LEMMA SegmentTail ==
  ASSUME NEW A, NEW f, NEW m \in Nat, Fills(A, f, m), NEW j \in 0..m, j # m
  PROVE  /\ Head(Segment(f, j, m)) = f[j + 1]
         /\ Tail(Segment(f, j, m)) = Segment(f, j + 1, m)
<1>2. j + 1 \in 0..m /\ m - (j + 1) = m - j - 1
  OBVIOUS
<1>0. \A n \in 0..m : Segment(f, n, m) \in Seq(A) /\ Len(Segment(f, n, m)) = m - n
  <2> TAKE n \in 0..m
  <2> QED
    BY SegmentIs
<1> PICK q : q = Segment(f, j, m)
  OBVIOUS
<1> PICK u : u = Segment(f, j + 1, m)
  OBVIOUS
<1>1. q \in Seq(A) /\ Len(q) = m - j /\ m - j \in Nat \ {0}
  <2>1. m - j \in Nat \ {0}
    OBVIOUS
  <2> QED
    BY <1>0, <2>1
<1>3. u \in Seq(A) /\ Len(u) = m - j - 1
  BY <1>0, <1>2
<1>4. /\ Head(q) = q[1] /\ Tail(q) \in Seq(A) /\ Len(Tail(q)) = m - j - 1
      /\ \A i \in 1..(m - j - 1) : Tail(q)[i] = q[i + 1]
  BY <1>1
<1>5. \A i \in 1..(m - j) : q[i] = f[j + i]
  BY DEF Segment
<1>6. \A i \in 1..(m - j - 1) : u[i] = f[j + 1 + i]
  BY <1>2 DEF Segment
<1>7. \A i \in 1..(m - j - 1) : Tail(q)[i] = u[i]
  <2> TAKE i \in 1..(m - j - 1)
  <2>1. i + 1 \in 1..(m - j) /\ j + (i + 1) = j + 1 + i
    OBVIOUS
  <2> QED
    BY <1>4, <1>5, <1>6, <2>1
<1>8. 1 \in 1..(m - j)
  BY <1>1
<1> QED
  BY <1>3, <1>4, <1>5, <1>7, <1>8, SameSeq

------------------------------------------------------------------------------
(* The invariant, about the tokens S a session stands for. *)
Submitted == IF pc = "submit" THEN next - 1 ELSE Layered + 2

HostIs(S) ==
  /\ Counts(S) /\ position = Len(S)
  /\ pool \in [committed : Nat, open : Nat, parked : Nat]
  /\ pc \in {"prepare", "submit", "complete"} => Fits(S, step)
  /\ pc = "submit" => next \in 1..(Layered + 2)
  /\ HasCache => /\ pc = "submit" /\ next > 1 => pool.open = Len(step)
                 /\ pc = "complete" => pool.parked = Len(step)

(* The device has run the first j operations of the step, and the others   *)
(* that were submitted are on the stream.                                  *)
FlightIs(S) ==
  pc \in {"submit", "complete"} =>
    \E j \in 0..Submitted :
      queue = Segment(Program, j, Submitted) /\ Reached(device, S, step, j)

Stands(S) ==
  /\ HostIs(S)
  /\ queue \in Seq(Ops) /\ DeviceShape(device) /\ Published(device, S)
  /\ FlightIs(S)

LEMMA ProgramOps ==
  ASSUME NEW S, Counts(S), Fits(S, step)
  PROVE  Fills(Ops, Program, Layered + 2)
<1>1. Layered \in Nat \ {0} /\ Blocks = 1..Layered /\ Recurrent = Blocks \ Full
  BY LayersAre
<1> SUFFICES ASSUME NEW k \in 1..(Layered + 2) PROVE Program[k] \in Ops
  BY DEF Fills
<1>2. k = 1 \/ k = Layered + 2 \/ k - 1 \in Blocks
  BY <1>1
<1>3. CASE k = 1
  BY <1>3, ProgramIs DEF EmbedOp, EmbedOps, Ops, Fits
<1>4. CASE k = Layered + 2
  <2>1. HeadOp \in HeadOps
    BY <1>1, Sides DEF HeadOp, HeadOps, Fits
  <2> QED
    BY <1>4, <2>1, ProgramIs DEF Ops
<1>5. CASE k - 1 \in Blocks
  <2> PICK x \in Blocks : x = k - 1
    BY <1>5
  <2>1. Program[k] = OpOf(x) /\ x \in Nat /\ x + 1 \in Nat
    <3>1. k = x + 1 /\ x \in Nat
      BY <1>1
    <3> QED
      BY <3>1, ProgramIs
  <2>2. Side(x) \in 1..2 /\ Side(x + 1) \in 1..2
    BY <2>1, Sides
  <2>3. CASE x \in Full
    BY <2>1, <2>2, <2>3 DEF OpOf, FullOps, Ops
  <2>4. CASE x \notin Full
    <3>1. x \in Recurrent /\ committed[x] \in 1..2
      BY <1>1, <2>4 DEF Counts
    <3> QED
      BY <2>1, <2>2, <2>4, <3>1 DEF OpOf, RecurrentOps, Ops
  <2> QED
    BY <2>3, <2>4
<1> QED
  BY <1>2, <1>3, <1>4, <1>5

(* What the published parts are read as. *)
LEMMA SeenIs ==
  ASSUME NEW S, Stands(S)
  PROVE  Seen = S
<1>1. /\ Counts(S) /\ position = Len(S) /\ DeviceShape(device) /\ Published(device, S)
      /\ S \in Seq(Token) /\ Len(S) \in Nat /\ Len(S) <= MaxContext
  BY DEF Stands, HostIs, Counts
<1>2. \A x \in Full : SubSeq(device.rows[x], 1, pool.committed) = S
  <2> TAKE x \in Full
  <2> PICK rows, A : rows = device.rows[x] /\ A = {rows[t] : t \in 1..MaxContext}
    OBVIOUS
  <2>1. rows = [t \in 1..MaxContext |-> rows[t]] /\ MaxContext \in Nat
    BY <1>1, SizeAssumption DEF DeviceShape
  <2>2. rows \in [1..MaxContext -> A]
    BY <2>1
  <2>3. rows \in Seq(A) /\ Len(rows) = MaxContext
    BY <2>1, <2>2
  <2>4. /\ SubSeq(rows, 1, Len(S)) \in Seq(A) /\ Len(SubSeq(rows, 1, Len(S))) = Len(S)
        /\ \A t \in 1..Len(S) : SubSeq(rows, 1, Len(S))[t] = rows[t]
    BY <1>1, <2>1, <2>3
  <2>5. \A t \in 1..Len(S) : rows[t] = S[t]
    BY <1>1 DEF Published
  <2>6. SubSeq(rows, 1, Len(S)) = S
    BY <1>1, <2>4, <2>5, SameSeq
  <2>7. pool.committed = Len(S)
    BY <1>1 DEF Counts
  <2> QED
    BY <2>6, <2>7
<1>3. \A x \in Recurrent : device.state[x][committed[x]] = S
  BY <1>1 DEF Published
<1>4. Full # {} \/ Recurrent # {}
  BY LayersAre
<1>5. Parts = {S}
  BY <1>2, <1>3, <1>4 DEF Parts
<1>6. \E s \in Parts : Parts = {s} /\ Len(s) = position
  BY <1>1, <1>5
<1>7. (CHOOSE s \in Parts : TRUE) = S
  BY <1>5
<1> QED
  BY <1>6, <1>7 DEF Seen

SeenFollows == \A S : Stands(S) => Seen = S

LEMMA SeenNow == SeenFollows
BY SeenIs DEF SeenFollows

LEMMA SeenNext == SeenFollows'
BY SeenNow, PTL

------------------------------------------------------------------------------
(* The steps. *)
Usable(o) == o \in {"Ready", "InFlight"}

(* No change of the log, but that it may end. *)
Quiet == answer' = answer /\ (Usable(owner') => Usable(owner))

(* What stays when the published state, the device and the stream do. *)
Still ==
  /\ committed' = committed /\ device' = device /\ queue' = queue /\ position' = position
  /\ pool' \in [committed : Nat, open : Nat, parked : Nat]
  /\ pool'.committed = pool.committed

LEMMA StillStands ==
  ASSUME NEW S, Stands(S), Still,
         pc' \in {"prepare", "submit", "complete"} => Fits(S, step'),
         pc' \notin {"submit", "complete"}
  PROVE  Stands(S)'
<1>1. Ops' = Ops
  BY DEF Still, Ops, EmbedOps, FullOps, HeadOps, RecurrentOps
<1>2. Counts(S)' /\ position' = Len(S)
  BY DEF Stands, HostIs, Counts, Still
<1>3. HostIs(S)'
  BY <1>2 DEF HostIs, Still
<1>4. DeviceShape(device)' /\ Published(device, S)'
  BY DEF Stands, Still, DeviceShape, Published
<1>5. FlightIs(S)'
  BY DEF FlightIs
<1> QED
  BY <1>1, <1>3, <1>4, <1>5 DEF Stands, Still

LEMMA PrefillStands ==
  ASSUME NEW S, Stands(S), NEW tokens \in Chunks, Prefill(tokens)
  PROVE  Stands(S)' /\ Quiet
<1>1. tokens \in Seq(Token) /\ Len(tokens) > 0
  <2> PICK n \in 1..MaxChunk : tokens \in [1..n -> Token]
    BY DEF Chunks
  <2>1. n \in Nat /\ n > 0
    BY SizeAssumption
  <2>2. tokens \in Seq(Token) /\ Len(tokens) = n
    BY <2>1
  <2> QED
    BY <2>1, <2>2
<1>2. /\ position = Len(S) /\ position + Len(tokens) <= MaxContext
      /\ step' = tokens /\ pc' = "prepare"
  BY DEF Prefill, Stands, HostIs
<1>3. Fits(S, step')
  BY <1>1, <1>2 DEF Fits
<1>4. Still
  BY DEF Prefill, Still, Stands, HostIs
<1>5. Quiet
  BY DEF Prefill, Quiet, Usable
<1> QED
  BY <1>2, <1>3, <1>4, <1>5, StillStands

(* Nothing of a step is on the stream before its first operation. *)
LEMMA AllocateStands ==
  ASSUME NEW S, Stands(S), OwnInv, Allocate
  PROVE  Stands(S)' /\ Quiet
<1>1. Quiet
  BY DEF Allocate, Quiet, Usable
<1>2. Still /\ step' = step /\ Fits(S, step) /\ queue = <<>>
  BY DEF Allocate, Still, Stands, HostIs, OwnInv, Phase
<1>3. CASE pc' = "prepare"
  BY <1>1, <1>2, <1>3, StillStands
<1>4. CASE next' = 1 /\ pc' = "submit"
  <2>1. Layered + 2 \in Nat /\ 1 \in 1..(Layered + 2)
    BY LayersAre
  <2>2. Ops' = Ops
    BY <1>2 DEF Still, Ops, EmbedOps, FullOps, HeadOps, RecurrentOps
  <2>3. Counts(S)' /\ position' = Len(S) /\ Fits(S, step)'
    BY <1>2 DEF Stands, HostIs, Counts, Still, Fits
  <2>4. HostIs(S)'
    BY <1>2, <1>4, <2>1, <2>3 DEF HostIs, Still
  <2>5. DeviceShape(device)' /\ Published(device, S)'
    BY <1>2 DEF Stands, Still, DeviceShape, Published
  <2>6. FlightIs(S)'
    <3>1. Submitted' = 0
      BY <1>4 DEF Submitted
    <3>2. Segment(Program, 0, 0)' = <<>>
      BY DEF Segment
    <3>3. Reached(device, S, step, 0)'
      <4>1. 0 \notin 1..(Layered + 1) /\ 0 # Layered + 2 /\ \A x \in Blocks : ~(x < 0)
        BY LayersAre
      <4> QED
        BY <4>1, LayersAre DEF Reached
    <3>4. queue' = <<>>
      BY <1>2 DEF Still
    <3> QED
      BY <3>1, <3>2, <3>3, <3>4 DEF FlightIs
  <2> QED
    BY <1>1, <1>2, <2>2, <2>4, <2>5, <2>6 DEF Stands, Still
<1> QED
  BY <1>3, <1>4 DEF Allocate

(* The steps that end a step or the session leave what was published. *)
Ending ==
  PrepareFails \/ SynchronizeFails \/ Aborted \/ ValidationFails \/ Close \/ TornDown \/ DropSession

LEMMA EndingStands ==
  ASSUME NEW S, Stands(S), OwnInv, Ending
  PROVE  Stands(S)' /\ Quiet
<1>1. CASE PrepareFails
  BY <1>1, StillStands DEF PrepareFails, Still, Stands, HostIs, Quiet, Usable, OwnInv, Phase
<1>2. CASE SynchronizeFails \/ Aborted \/ ValidationFails
  BY <1>2, StillStands DEF SynchronizeFails, Aborted, ValidationFails, Poisoned, Still, Stands,
                           HostIs, Quiet, Usable
<1>3. CASE Close
  BY <1>3, StillStands DEF Close, Still, Stands, HostIs, Quiet, Usable
<1>4. CASE TornDown
  <2>1. pc = "idle"
    BY <1>4 DEF TornDown, OwnInv, Phase
  <2> QED
    BY <1>4, <2>1, StillStands DEF TornDown, Still, Stands, HostIs, Quiet, Usable
<1>5. CASE DropSession
  BY <1>5, StillStands DEF DropSession, Still, Stands, HostIs, Quiet, Usable
<1> QED
  BY <1>1, <1>2, <1>3, <1>4, <1>5 DEF Ending

(* What the program is, while its step and the published state stay. *)
LEMMA ProgramStays ==
  ASSUME step' = step, committed' = committed, pool'.committed = pool.committed
  PROVE  Program' = Program /\ Ops' = Ops
BY DEF Program, OpOf, Ops, EmbedOps, FullOps, HeadOps, RecurrentOps

LEMMA PoolAfterIs ==
  ASSUME pool \in [committed : Nat, open : Nat, parked : Nat], step \in Seq(Token),
         next \in 1..(Layered + 2), next > 1 => (HasCache => pool.open = Len(step))
  PROVE  /\ PoolAfter(next) \in [committed : Nat, open : Nat, parked : Nat]
         /\ PoolAfter(next).committed = pool.committed
         /\ HasCache /\ next < Layered + 2 => PoolAfter(next).open = Len(step)
         /\ HasCache /\ next = Layered + 2 => PoolAfter(next).parked = Len(step)
<1>1. Len(Program) = Layered + 2 /\ Layered \in Nat \ {0} /\ Len(step) \in Nat
  BY ProgramIs, LayersAre
<1>2. CASE ~HasCache
  BY <1>2 DEF PoolAfter
<1>3. CASE HasCache /\ next = 1
  BY <1>1, <1>3 DEF PoolAfter
<1>4. CASE HasCache /\ next = Layered + 2
  <2>1. next # 1 /\ next > 1
    BY <1>1, <1>4
  <2>2. PoolAfter(next) = [pool EXCEPT !.open = 0, !.parked = pool.open]
    BY <1>1, <1>4, <2>1 DEF PoolAfter
  <2>3. pool.open = Len(step)
    BY <1>4, <2>1
  <2> PICK c, o, k \in Nat : pool = [committed |-> c, open |-> o, parked |-> k]
    OBVIOUS
  <2>5. PoolAfter(next) = [committed |-> c, open |-> 0, parked |-> o]
    BY <2>2
  <2>4. /\ PoolAfter(next) \in [committed : Nat, open : Nat, parked : Nat]
        /\ PoolAfter(next).committed = pool.committed
        /\ PoolAfter(next).parked = pool.open
    BY <2>5
  <2> QED
    BY <1>4, <2>3, <2>4
<1>5. CASE HasCache /\ next # 1 /\ next # Layered + 2
  <2>1. PoolAfter(next) = pool /\ next > 1
    BY <1>1, <1>5 DEF PoolAfter
  <2> QED
    BY <1>5, <2>1
<1> QED
  BY <1>2, <1>3, <1>4, <1>5

LEMMA SubmitStands ==
  ASSUME NEW S, Stands(S), Submit
  PROVE  Stands(S)' /\ Quiet
<1>1. /\ pc = "submit" /\ Counts(S) /\ Fits(S, step) /\ next \in 1..(Layered + 2)
      /\ pool \in [committed : Nat, open : Nat, parked : Nat] /\ step \in Seq(Token)
      /\ next > 1 => (HasCache => pool.open = Len(step))
  BY DEF Submit, Stands, HostIs, Fits
<1>2. /\ queue' = Append(queue, Program[next]) /\ pool' = PoolAfter(next)
      /\ step' = step /\ committed' = committed /\ device' = device /\ position' = position
      /\ answer' = answer /\ owner' = owner
  BY DEF Submit
<1>3. Len(Program) = Layered + 2 /\ Layered \in Nat
  BY ProgramIs, LayersAre
<1>4. \/ next < Layered + 2 /\ next' = next + 1 /\ pc' = "submit"
      \/ next = Layered + 2 /\ pc' = "complete"
  BY <1>1, <1>3 DEF Submit
<1>5. /\ pool' \in [committed : Nat, open : Nat, parked : Nat]
      /\ pool'.committed = pool.committed
      /\ HasCache /\ next < Layered + 2 => pool'.open = Len(step)
      /\ HasCache /\ next = Layered + 2 => pool'.parked = Len(step)
  BY <1>1, <1>2, PoolAfterIs
<1>6. Program' = Program /\ Ops' = Ops
  BY <1>2, <1>5, ProgramStays
<1>7. Fills(Ops, Program, Layered + 2)
  BY <1>1, ProgramOps
<1>8. HostIs(S)'
  <2>1. Counts(S)' /\ position' = Len(S) /\ Fits(S, step)'
    BY <1>1, <1>2, <1>5 DEF Counts, Stands, HostIs, Fits
  <2>2. pc' = "submit" => next' \in 1..(Layered + 2)
    BY <1>1, <1>3, <1>4
  <2> QED
    BY <1>2, <1>4, <1>5, <2>1, <2>2 DEF HostIs
<1>9. DeviceShape(device)' /\ Published(device, S)'
  BY <1>2 DEF Stands, DeviceShape, Published
<1>10. queue' \in Seq(Ops)'
  BY <1>1, <1>2, <1>6, <1>7 DEF Stands, Fills
<1>11. FlightIs(S)'
  <2> PICK m \in Nat : m + 1 = next /\ m = Submitted
    <3>1. next - 1 \in Nat /\ (next - 1) + 1 = next /\ Submitted = next - 1
      BY <1>1, <1>3 DEF Submitted
    <3> QED
      BY <3>1
  <2> PICK j \in 0..m : queue = Segment(Program, j, m) /\ Reached(device, S, step, j)
    BY <1>1 DEF Stands, FlightIs
  <2>1. Fills(Ops, Program, m + 1)
    BY <1>1, <1>3, <1>7 DEF Fills
  <2>2. queue' = Segment(Program, j, m + 1)
    BY <1>2, <2>1, SegmentMore
  <2>3. Submitted' = m + 1
    BY <1>1, <1>3, <1>4 DEF Submitted
  <2>4. Reached(device, S, step, j)'
    BY <1>2 DEF Reached
  <2>5. j \in 0..(m + 1)
    OBVIOUS
  <2>6. queue' = Segment(Program, j, Submitted)'
    BY <1>6, <2>2, <2>3 DEF Segment
  <2> QED
    BY <2>3, <2>4, <2>5, <2>6 DEF FlightIs
<1>12. Quiet
  BY <1>2 DEF Quiet
<1> QED
  BY <1>6, <1>8, <1>9, <1>10, <1>11, <1>12 DEF Stands

LEMMA SubmitFailsStands ==
  ASSUME NEW S, Stands(S), SubmitFails
  PROVE  Stands(S)' /\ Quiet
<1>1. /\ pc = "submit" /\ Counts(S) /\ Fits(S, step) /\ next \in 1..(Layered + 2)
      /\ pool \in [committed : Nat, open : Nat, parked : Nat]
  BY DEF SubmitFails, Stands, HostIs
<1>2. /\ queue' \in {queue, Append(queue, Program[next])} /\ pool' = [pool EXCEPT !.open = 0]
      /\ step' = step /\ committed' = committed /\ device' = device /\ position' = position
      /\ answer' = answer /\ owner' = owner /\ pc' = "abort"
  BY DEF SubmitFails
<1>3. pool' \in [committed : Nat, open : Nat, parked : Nat] /\ pool'.committed = pool.committed
  BY <1>1, <1>2
<1>4. Ops' = Ops
  BY <1>2, <1>3, ProgramStays
<1>5. queue' \in Seq(Ops)
  <2>1. Program[next] \in Ops
    BY <1>1, ProgramOps DEF Fills
  <2> QED
    BY <1>2, <2>1 DEF Stands
<1>6. HostIs(S)'
  <2>1. Counts(S)' /\ position' = Len(S)
    BY <1>2, <1>3 DEF Counts, Stands, HostIs
  <2> QED
    BY <1>2, <1>3, <2>1 DEF HostIs
<1>7. DeviceShape(device)' /\ Published(device, S)'
  BY <1>2 DEF Stands, DeviceShape, Published
<1>8. FlightIs(S)' /\ Quiet
  BY <1>2 DEF FlightIs, Quiet
<1> QED
  BY <1>4, <1>5, <1>6, <1>7, <1>8 DEF Stands

LEMMA ExecuteStands ==
  ASSUME NEW S, Stands(S), OwnInv, Execute
  PROVE  Stands(S)' /\ Quiet
<1>1. /\ queue # <<>> /\ device' = Run(device, Head(queue)) /\ queue' = Tail(queue)
      /\ UNCHANGED host
  BY DEF Execute
<1>2. /\ owner' = owner /\ pc' = pc /\ step' = step /\ next' = next /\ position' = position
      /\ pool' = pool /\ committed' = committed /\ answer' = answer
  BY <1>1 DEF host
<1>3. Program' = Program /\ Ops' = Ops
  BY <1>2, ProgramStays
<1>4. /\ Counts(S) /\ queue \in Seq(Ops) /\ DeviceShape(device) /\ Published(device, S)
      /\ HostIs(S)
  BY DEF Stands, HostIs
<1>5. Head(queue) \in Ops /\ Tail(queue) \in Seq(Ops)
  BY <1>1, <1>4
<1>6. DeviceShape(device') /\ Published(device', S)
  BY <1>1, <1>4, <1>5, RunKeeps
<1>7. DeviceShape(device)' /\ Published(device, S)'
  BY <1>2, <1>6 DEF DeviceShape, Published
<1>8. HostIs(S)'
  BY <1>2, <1>4 DEF HostIs, Counts, Fits
<1>9. FlightIs(S)'
  <2> SUFFICES ASSUME pc \in {"submit", "complete"}
               PROVE  \E j \in 0..Submitted : /\ queue' = Segment(Program, j, Submitted)
                                              /\ Reached(device', S, step, j)
    <3>1. Submitted' = Submitted
      BY <1>2 DEF Submitted
    <3>2. \A j : Reached(device', S, step, j) => Reached(device, S, step, j)'
      BY <1>2 DEF Reached
    <3>3. \A j : Segment(Program, j, Submitted)' = Segment(Program, j, Submitted)
      BY <1>3, <3>1 DEF Segment
    <3> QED
      BY <1>2, <3>1, <3>2, <3>3 DEF FlightIs
  <2>1. Fits(S, step) /\ Layered \in Nat /\ (pc = "submit" => next \in 1..(Layered + 2))
    BY <1>4, LayersAre DEF HostIs
  <2>2. Submitted \in 0..(Layered + 2)
    BY <2>1 DEF Submitted
  <2> PICK m \in 0..(Layered + 2) : m = Submitted
    BY <2>2
  <2> PICK j \in 0..m : queue = Segment(Program, j, m) /\ Reached(device, S, step, j)
    BY DEF Stands, FlightIs
  <2>3. m \in Nat /\ Fills(Ops, Program, m)
    BY <1>4, <2>1, ProgramOps DEF Fills
  <2>4. j # m
    <3>1. Len(Segment(Program, j, m)) = m - j
      BY <2>3, SegmentIs
    <3>2. Len(queue) # 0
      BY <1>1, <1>4
    <3> QED
      BY <3>1, <3>2
  <2>5. Head(queue) = Program[j + 1] /\ Tail(queue) = Segment(Program, j + 1, m)
    BY <2>3, <2>4, SegmentTail
  <2>6. j \in 0..(Layered + 1) /\ j + 1 \in 0..m
    BY <2>1, <2>3, <2>4
  <2>7. Reached(Run(device, Program[j + 1]), S, step, j + 1)
    BY <1>4, <2>1, <2>6, RunReaches
  <2> QED
    BY <1>1, <2>5, <2>6, <2>7
<1>10. Quiet
  BY <1>2 DEF Quiet
<1> QED
  BY <1>1, <1>3, <1>5, <1>7, <1>8, <1>9, <1>10 DEF Stands

(* A step that is published is answered for. *)
Answers(S, u) ==
  /\ Fits(S, step) /\ u = S \o step /\ Stands(u)' /\ answer' = u
  /\ Usable(owner) /\ Usable(owner')

LEMMA PublishStands ==
  ASSUME NEW S, Stands(S), OwnInv, Publish
  PROVE  \E u : Answers(S, u)
<1>1. /\ pc = "complete" /\ queue = <<>> /\ queue' = queue /\ device' = device
      /\ pool' = [pool EXCEPT !.committed = @ + pool.parked, !.parked = 0]
      /\ committed' = [x \in Recurrent |-> 3 - committed[x]]
      /\ position' = position + Len(step) /\ answer' = device.logits
      /\ pc' = "idle" /\ owner' = "Ready"
  BY DEF Publish, SwapStates
<1>2. /\ Counts(S) /\ Fits(S, step) /\ position = Len(S) /\ DeviceShape(device)
      /\ Published(device, S) /\ S \in Seq(Token) /\ step \in Seq(Token)
      /\ pool \in [committed : Nat, open : Nat, parked : Nat]
      /\ HasCache => pool.parked = Len(step)
  BY <1>1 DEF Stands, HostIs, Counts, Fits
<1> PICK c \in Seq(Token) : c = step
  BY <1>2
<1> PICK u : u = S \o c
  OBVIOUS
<1>3. /\ u \in Seq(Token) /\ Len(u) = Len(S) + Len(c) /\ Len(u) <= MaxContext
      /\ \A t \in 1..Len(u) : u[t] = IF t <= Len(S) THEN S[t] ELSE c[t - Len(S)]
  BY <1>2 DEF Fits
<1>4. Reached(device, S, step, Layered + 2)
  <2>1. Layered + 2 \in Nat /\ Submitted = Layered + 2
    BY <1>1, LayersAre DEF Submitted
  <2> PICK m \in Nat : m = Layered + 2
    BY <2>1
  <2> PICK j \in 0..m : queue = Segment(Program, j, m) /\ Reached(device, S, step, j)
    BY <1>1, <2>1 DEF Stands, FlightIs
  <2>2. Fills(Ops, Program, m)
    BY <1>2, ProgramOps
  <2>3. Len(Segment(Program, j, m)) = m - j
    BY <2>2, SegmentIs
  <2>4. m - j = 0
    BY <1>1, <2>3
  <2>5. j = m
    BY <2>4
  <2> QED
    BY <2>5
<1>5. /\ device.logits = u
      /\ \A x \in Recurrent : device.state[x][3 - committed[x]] = u
      /\ \A x \in Full : \A i \in 1..Len(c) : device.rows[x][Len(S) + i] = c[i]
  <2>1. \A x \in Blocks : x < Layered + 2
    BY LayersAre
  <2> QED
    BY <1>4, <2>1, LayersAre DEF Reached
<1>6. \A x \in Full : \A t \in 1..Len(u) : device.rows[x][t] = u[t]
  <2> TAKE x \in Full
  <2> TAKE t \in 1..Len(u)
  <2>1. Len(S) \in Nat /\ Len(c) \in Nat /\ t \in Nat
    BY <1>2, <1>3
  <2>2. CASE t <= Len(S)
    <3>1. t \in 1..Len(S)
      BY <2>1, <2>2
    <3> QED
      BY <1>2, <1>3, <2>2, <3>1 DEF Published
  <2>3. CASE t > Len(S)
    <3>1. t - Len(S) \in 1..Len(c) /\ Len(S) + (t - Len(S)) = t /\ ~(t <= Len(S))
      BY <1>3, <2>1, <2>3
    <3> QED
      BY <1>3, <1>5, <3>1
  <2> QED
    BY <2>1, <2>2, <2>3
<1>7. committed \in [Recurrent -> 1..2]
  BY <1>2 DEF Counts
<1>8. committed' \in [Recurrent -> 1..2] /\ \A x \in Recurrent : committed'[x] = 3 - committed[x]
  BY <1>1, <1>7
<1>9. /\ pool' \in [committed : Nat, open : Nat, parked : Nat]
      /\ Full # {} => pool'.committed = Len(u)
  <2> PICK a, o, k \in Nat : pool = [committed |-> a, open |-> o, parked |-> k]
    BY <1>2
  <2>1. pool' = [committed |-> a + k, open |-> o, parked |-> 0]
    BY <1>1
  <2>2. Full # {} => a = Len(S) /\ k = Len(c)
    BY <1>2 DEF Counts, HasCache
  <2>3. pool' \in [committed : Nat, open : Nat, parked : Nat] /\ pool'.committed = a + k
    BY <2>1
  <2> QED
    BY <1>3, <2>2, <2>3
<1>10. Counts(u)' /\ position' = Len(u)
  BY <1>1, <1>2, <1>3, <1>8, <1>9 DEF Counts
<1>11. HostIs(u)'
  BY <1>1, <1>9, <1>10 DEF HostIs
<1>12. DeviceShape(device)' /\ Published(device, u)'
  BY <1>1, <1>2, <1>5, <1>6, <1>8 DEF DeviceShape, Published
<1>13. FlightIs(u)'
  BY <1>1 DEF FlightIs
<1>14. queue' \in Seq(Ops')
  BY <1>1
<1>15. Stands(u)'
  BY <1>11, <1>12, <1>13, <1>14 DEF Stands
<1>16. owner = "InFlight"
  BY <1>1 DEF OwnInv, Phase
<1> QED
  BY <1>1, <1>2, <1>5, <1>15, <1>16 DEF Answers, Usable

------------------------------------------------------------------------------
(* The invariant, and what every step is to the log. *)
IInv == OwnInv /\ \E S : Stands(S)

LEMMA InitStands == Init => Stands(<<>>)
<1> SUFFICES ASSUME Init PROVE Stands(<<>>)
  OBVIOUS
<1>0. <<>> \in Seq(Token)
  OBVIOUS
<1> PICK S \in Seq(Token) : S = <<>>
  BY <1>0, Zenon
<1>1. Len(S) = 0 /\ 1..0 = {} /\ MaxContext \in Nat
  BY SizeAssumption
<1>2. /\ committed = [x \in Recurrent |-> 1] /\ position = 0 /\ queue = <<>> /\ pc = "idle"
      /\ pool = [committed |-> 0, open |-> 0, parked |-> 0]
      /\ device = [hidden |-> [s \in 1..2 |-> <<>>],
                   state |-> [x \in Recurrent |-> [s \in 1..2 |-> <<>>]],
                   rows |-> [x \in Full |-> [t \in 1..MaxContext |-> Junk]],
                   logits |-> Junk]
  BY DEF Init
<1>3. HostIs(S)
  BY <1>1, <1>2 DEF HostIs, Counts
<1>4. DeviceShape(device)
  <2>1. \A s \in 1..2 : DOMAIN device.hidden[s] = {}
    BY <1>2
  <2>2. \A x \in Full : device.rows[x] = [t \in 1..MaxContext |-> Junk]
    BY <1>2
  <2>3. \A x \in Full : device.rows[x] = [t \in 1..MaxContext |-> device.rows[x][t]]
    BY <2>2
  <2> QED
    BY <1>2, <2>1, <2>3 DEF DeviceShape
<1>5. Published(device, S)
  BY <1>1, <1>2 DEF Published
<1>6. FlightIs(S) /\ queue \in Seq(Ops)
  BY <1>2 DEF FlightIs
<1> QED
  BY <1>3, <1>4, <1>5, <1>6 DEF Stands

LEMMA Steps ==
  ASSUME NEW S, Stands(S), OwnInv, [Next]_vars
  PROVE  (Stands(S)' /\ Quiet) \/ \E u : Answers(S, u)
<1>1. CASE UNCHANGED vars
  <2>1. /\ committed' = committed /\ device' = device /\ queue' = queue /\ position' = position
        /\ pool' = pool /\ pc' = pc /\ step' = step /\ next' = next /\ owner' = owner
        /\ answer' = answer
    BY <1>1 DEF vars, host
  <2>2. Program' = Program /\ Ops' = Ops
    BY <2>1, ProgramStays
  <2>3. HostIs(S)' /\ DeviceShape(device)' /\ Published(device, S)'
    BY <2>1 DEF Stands, HostIs, Counts, Fits, DeviceShape, Published
  <2>4. FlightIs(S)'
    <3>1. \A j : Reached(device, S, step, j) => Reached(device, S, step, j)'
      BY <2>1 DEF Reached
    <3>2. Submitted' = Submitted /\ \A j : Segment(Program, j, Submitted)' = Segment(Program, j, Submitted)
      BY <2>1, <2>2 DEF Segment, Submitted
    <3> QED
      BY <2>1, <3>1, <3>2 DEF Stands, FlightIs
  <2> QED
    BY <2>1, <2>2, <2>3, <2>4 DEF Stands, Quiet
<1>2. ASSUME NEW tokens \in Chunks, Prefill(tokens) PROVE Stands(S)' /\ Quiet
  BY <1>2, PrefillStands
<1>3. CASE Execute
  BY <1>3, ExecuteStands
<1>4. CASE Allocate
  BY <1>4, AllocateStands
<1>5. CASE Submit
  BY <1>5, SubmitStands
<1>6. CASE SubmitFails
  BY <1>6, SubmitFailsStands
<1>7. CASE Publish
  BY <1>7, PublishStands
<1>8. CASE Ending
  BY <1>8, EndingStands
<1> QED
  BY <1>1, <1>2, <1>3, <1>4, <1>5, <1>6, <1>7, <1>8 DEF Next, Ending

LEMMA InitIInv == Init => IInv
BY InitOwn, InitStands DEF IInv

LEMMA NextIInv == IInv /\ [Next]_vars => IInv'
<1> SUFFICES ASSUME IInv, [Next]_vars PROVE IInv'
  OBVIOUS
<1> PICK S : Stands(S)
  BY DEF IInv
<1>1. OwnInv /\ OwnInv'
  BY NextOwn DEF IInv
<1>2. Stands(S)' \/ \E u : Answers(S, u)
  BY <1>1, Steps
<1>3. \E u : Stands(u)'
  BY <1>2 DEF Answers
<1> QED
  BY <1>1, <1>3 DEF IInv

LEMMA InitMaps == Init => Log!Init
<1> SUFFICES ASSUME Init PROVE Log!Init
  OBVIOUS
<1>1. Seen = <<>>
  BY InitStands, SeenIs
<1>2. answer = <<>> /\ owner = "Ready"
  BY DEF Init
<1> QED
  BY <1>1, <1>2 DEF Log!Init

LEMMA StepMaps == IInv /\ [Next]_vars => [Log!Next]_(Log!vars)
<1> SUFFICES ASSUME IInv, [Next]_vars PROVE [Log!Next]_(Log!vars)
  OBVIOUS
<1> PICK S : Stands(S)
  BY DEF IInv
<1>1. OwnInv /\ Seen = S
  BY SeenIs DEF IInv
<1>2. \A u : Stands(u)' => Seen' = u
  BY SeenNext DEF SeenFollows
<1>3. CASE Stands(S)' /\ Quiet
  <2>1. Seen' = Seen /\ answer' = answer
    BY <1>1, <1>2, <1>3 DEF Quiet
  <2>2. Usable(owner') => Usable(owner)
    BY <1>3 DEF Quiet
  <2>3. CASE Usable(owner') <=> Usable(owner)
    BY <2>1, <2>3 DEF Log!vars, Usable
  <2>4. CASE Usable(owner) /\ ~Usable(owner')
    BY <2>1, <2>4 DEF Log!Next, Log!Fail, Usable
  <2> QED
    BY <2>2, <2>3, <2>4
<1>4. ASSUME NEW u, Answers(S, u) PROVE Log!Next
  <2>1. /\ Fits(S, step) /\ u = S \o step /\ answer' = u
        /\ Usable(owner) /\ Usable(owner')
    BY <1>4 DEF Answers
  <2>2. Seen' = u
    BY <1>2, <1>4 DEF Answers
  <2>3. S \in Seq(Token) /\ Len(S) \in Nat
    BY DEF Stands, HostIs, Counts
  <2>4. /\ Len(step) \in 1..(MaxContext - Len(S))
        /\ step \in [1..Len(step) -> Token]
    BY <2>1, <2>3, SizeAssumption DEF Fits
  <2>5. Seen' = Seen \o step
    BY <1>1, <2>1, <2>2
  <2>6. \E n \in 1..(MaxContext - Len(Seen)) : \E chunk \in [1..n -> Token] : Seen' = Seen \o chunk
    BY <1>1, <2>4, <2>5
  <2>7. answer' = Seen'
    BY <2>1, <2>2
  <2> QED
    BY <2>1, <2>6, <2>7 DEF Log!Next, Log!Step, Usable
<1> QED
  BY <1>1, <1>3, <1>4, Steps

LEMMA AlwaysIInv == Spec => []IInv
BY InitIInv, NextIInv, PTL DEF Spec

(* A caller who is answered is answered for exactly the tokens of the      *)
(* steps that succeeded, and keys, values, recurrent states and position   *)
(* advance together or not at all, whichever allocation, copy, launch,     *)
(* synchronization or validation fails (prefill, publish_completed).       *)
THEOREM SessionIsALog == Spec => ImplementsTokenLog
BY AlwaysIInv, InitMaps, StepMaps, PTL DEF Spec, ImplementsTokenLog, Log!Spec
==============================================================================
