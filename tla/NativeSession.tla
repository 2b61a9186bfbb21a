---------------------------- MODULE NativeSession ----------------------------
(***************************************************************************)
(* One native execution session (crates/decoders/src/qwen35_native.rs,     *)
(* qwen35_native/model_session.rs, model_resources.rs, recurrent.rs).  A   *)
(* step allocates its buffers, submits embedding, layers and output head   *)
(* to one ordered stream, waits for it, checks the status word and only    *)
(* then publishes keys and values, recurrent states and position together. *)
(* The paged cache is taken at what NativePagedKv shows of it: an open     *)
(* append, one parked when complete, poison when it ends otherwise.        *)
(*                                                                         *)
(* The value of a row is the sequence of tokens its computation has seen,  *)
(* Junk once two layers disagree about it.                                 *)
(***************************************************************************)
EXTENDS Integers, Sequences

CONSTANTS
  Token,
  Layers,        \* the kinds of the blocks: "full" or "recurrent"
  MaxContext,
  MaxChunk,      \* max_chunk_tokens
  Junk,          \* the content of memory that nothing has written
  NotYet, NoStep

ASSUME LayerAssumption == Layers \in Seq({"full", "recurrent"}) /\ Layers # <<>>
ASSUME SizeAssumption == MaxContext \in Nat /\ MaxChunk \in 1..MaxContext
ASSUME JunkAssumption == Junk \notin Seq(Token)

VARIABLES
  owner,      \* state of the ResourceOwner, or what became of it
  pc,         \* where prefill is, "idle" between calls
  step,       \* the tokens of the prepared step
  next,       \* the next operation to submit
  local,      \* step buffers of a step, being prepared or prepared
  failed,     \* step buffers in failed_step
  uncreated,  \* failed_step_creation holds a quarantined handle
  position,
  pool,       \* the paged cache: tokens committed, of the append, parked
  committed,  \* recurrent layer |-> which of its two buffers is committed
  device,     \* hidden rows, recurrent states, key and value rows, logits
  queue,      \* operations on the stream that have not run
  status,     \* the sticky status word reports an operand or result
  alive,      \* step buffers the runtime has
  answer      \* what the logits given out last stand for

host == <<owner, pc, step, next, local, failed, uncreated, position, pool, committed, alive,
          answer>>
vars == <<host, device, queue, status>>

Blocks == DOMAIN Layers
Full == {x \in Blocks : Layers[x] = "full"}
Recurrent == Blocks \ Full
HasCache == Full # {}

StepBuffers == IF HasCache THEN <<"cosine", "sine", "logits">> ELSE <<"logits">>

Init ==
  /\ owner = "Ready" /\ pc = "idle" /\ step = NoStep /\ next = 0
  /\ local = {} /\ failed = {} /\ uncreated = FALSE
  /\ position = 0
  /\ pool = [committed |-> 0, open |-> 0, parked |-> 0]
  /\ committed = [x \in Recurrent |-> 1]
  /\ device = [hidden |-> [s \in 1..2 |-> <<>>],
               state |-> [x \in Recurrent |-> [s \in 1..2 |-> <<>>]],
               rows |-> [x \in Full |-> [t \in 1..MaxContext |-> Junk]],
               logits |-> Junk]
  /\ queue = <<>>
  /\ status = FALSE
  /\ alive = {}
  /\ answer = <<>>

------------------------------------------------------------------------------
(* The kernels, as they run on the device. *)
(* A row that has gone through a layer whose memory is m. *)
Through(row, m) ==
  [row EXCEPT !.seen = IF @ \in {NotYet, m} THEN m ELSE Junk]

TokensOf(rows, n) == [i \in 1..n |-> rows[i].token]

RunEmbed(d, op) ==
  [d EXCEPT !.hidden[1] =
     [i \in DOMAIN op.tokens |-> [token |-> op.tokens[i], seen |-> NotYet]]]

RunRecurrent(d, op) ==
  LET in == d.hidden[op.from]
      base == d.state[op.layer][op.read]
  IN [d EXCEPT !.hidden[op.to] =
                 [i \in DOMAIN in |-> Through(in[i], base \o TokensOf(in, i - 1))],
               !.state[op.layer][3 - op.read] = base \o TokensOf(in, Len(in))]

RunFull(d, op) ==
  LET in == d.hidden[op.from]
      rows == [t \in 1..MaxContext |->
                 IF t - op.base \in DOMAIN in THEN in[t - op.base].token
                 ELSE d.rows[op.layer][t]]
  IN [d EXCEPT !.hidden[op.to] =
                 [i \in DOMAIN in |-> Through(in[i], SubSeq(rows, 1, op.base + i - 1))],
               !.rows[op.layer] = rows]

RunHead(d, op) ==
  LET last == d.hidden[op.from][op.count]
  IN [d EXCEPT !.logits = IF last.seen = Junk THEN Junk ELSE Append(last.seen, last.token)]

Run(d, op) ==
  CASE op.kind = "embed" -> RunEmbed(d, op)
    [] op.kind = "recurrent" -> RunRecurrent(d, op)
    [] op.kind = "full" -> RunFull(d, op)
    [] op.kind = "head" -> RunHead(d, op)

(* A checked kernel may find an operand or a result that is not a number.  *)
Execute ==
  /\ queue # <<>>
  /\ device' = Run(device, Head(queue))
  /\ queue' = Tail(queue)
  /\ status' \in {status, TRUE}
  /\ UNCHANGED host

------------------------------------------------------------------------------
(* prepare_prefill: the chunk is checked before anything else; then the    *)
(* buffers of the step are allocated and the controls copied, in order.    *)
Prefill(tokens) ==
  /\ pc = "idle" /\ owner = "Ready"
  /\ step = NoStep /\ failed = {} /\ ~uncreated
  /\ Len(tokens) \in 1..MaxChunk /\ position + Len(tokens) <= MaxContext
  /\ owner' = "InFlight" /\ pc' = "prepare" /\ next' = 1
  /\ step' = tokens
  /\ UNCHANGED <<local, failed, uncreated, position, pool, committed, device, queue, status,
                 alive, answer>>

Allocate ==
  /\ pc = "prepare"
  /\ local' = local \cup {StepBuffers[next]} /\ alive' = alive \cup {StepBuffers[next]}
  /\ \/ next < Len(StepBuffers) /\ next' = next + 1 /\ UNCHANGED pc
     \/ next = Len(StepBuffers) /\ next' = 1 /\ pc' = "submit"
  /\ UNCHANGED <<owner, step, failed, uncreated, position, pool, committed, device, queue,
                 status, answer>>

(* A control whose copy fails is kept with the ones before it. *)
(* Mutant: only the buffer that failed is kept. *)
KeepsTheLast(copied) == IF copied = {} THEN {} ELSE copied
Kept(copied) == local \cup copied

(* The owner goes back to ready only when nothing was left behind. *)
PrepareFails ==
  /\ pc = "prepare"
  /\ \E how \in {"no handle", "quarantine", "copy"} :
       LET copied == IF how = "copy" THEN {StepBuffers[next]} ELSE {}
       IN /\ how = "copy" => StepBuffers[next] # "logits"
          /\ uncreated' = (how = "quarantine")
          /\ failed' = Kept(copied)
          /\ alive' = alive \cup copied
  /\ owner' = IF failed' # {} \/ uncreated' THEN "PoisonedIdle" ELSE "Ready"
  /\ local' = {} /\ step' = NoStep /\ pc' = "idle" /\ next' = 0
  /\ UNCHANGED <<position, pool, committed, device, queue, status, answer>>

------------------------------------------------------------------------------
(* submit_step: embedding, the blocks with swapped hidden rows, the head.  *)
Side(x) == 2 - (x % 2)
OpOf(x) ==
  IF x \in Full
  THEN [kind |-> "full", layer |-> x, from |-> Side(x), to |-> Side(x + 1),
        base |-> pool.committed]
  ELSE [kind |-> "recurrent", layer |-> x, from |-> Side(x), to |-> Side(x + 1),
        read |-> committed[x]]
Program ==
  <<[kind |-> "embed", tokens |-> step]>>
    \o [x \in Blocks |-> OpOf(x)]
    \o <<[kind |-> "head", from |-> Side(Len(Layers) + 1), count |-> Len(step)]>>

(* The append is opened after the embedding and parked after the head.     *)
PoolAfter(k) ==
  CASE ~HasCache -> pool
    [] HasCache /\ k = 1 -> [pool EXCEPT !.open = Len(step)]
    [] HasCache /\ k = Len(Program) -> [pool EXCEPT !.open = 0, !.parked = pool.open]
    [] OTHER -> pool

Submit ==
  /\ pc = "submit"
  /\ queue' = Append(queue, Program[next])
  /\ pool' = PoolAfter(next)
  /\ \/ next < Len(Program) /\ next' = next + 1 /\ UNCHANGED pc
     \/ next = Len(Program) /\ next' = 0 /\ pc' = "complete"
  /\ UNCHANGED <<owner, step, local, failed, uncreated, position, committed, device, status,
                 alive, answer>>

(* A launch that fails may have reached the stream.  The append is dropped *)
(* on the way out, then the guard of the owner.                            *)
SubmitFails ==
  /\ pc = "submit"
  /\ queue' \in {queue, Append(queue, Program[next])}
  /\ pool' = [pool EXCEPT !.open = 0]
  /\ pc' = "abort" /\ next' = 0
  /\ UNCHANGED <<owner, step, local, failed, uncreated, position, committed, device, status,
                 alive, answer>>

------------------------------------------------------------------------------
(* complete, and finish_after_submission for a step that was aborted.      *)
Poisoned(o) ==
  /\ owner' = o /\ pc' = "idle"
  /\ UNCHANGED <<step, next, local, failed, uncreated, position, pool, committed, device,
                 queue, status, alive, answer>>

SynchronizeFails == pc \in {"complete", "abort"} /\ Poisoned("PoisonedUncertain")

(* hipStreamSynchronize returns when the queue is empty. *)
Aborted == pc = "abort" /\ queue = <<>> /\ Poisoned("PoisonedIdle")

ValidationFails == pc = "complete" /\ queue = <<>> /\ status /\ Poisoned("PoisonedIdle")

(* publish_completed: the cache, the recurrent states and the position. *)
(* Mutant: recurrent states stay as they were. *)
NoSwap == UNCHANGED committed
SwapStates == committed' = [x \in Recurrent |-> 3 - committed[x]]

Publish ==
  /\ pc = "complete" /\ queue = <<>> /\ ~status
  /\ pool' = [pool EXCEPT !.committed = @ + pool.parked, !.parked = 0]
  /\ SwapStates
  /\ position' = position + Len(step)
  /\ answer' = device.logits
  /\ step' = NoStep /\ local' = {} /\ alive' = alive \ local
  /\ owner' = "Ready" /\ pc' = "idle"
  /\ UNCHANGED <<next, failed, uncreated, device, queue, status>>

------------------------------------------------------------------------------
(* close takes the bundle in any state; teardown quiesces before it frees. *)
Inventory == local \cup failed

Held == {"Ready", "PoisonedIdle", "PoisonedUncertain"}

Close ==
  /\ pc = "idle" /\ owner \in Held
  /\ owner' = "Closed"
  /\ local' = Inventory /\ failed' = {} /\ step' = NoStep
  /\ UNCHANGED <<pc, next, uncreated, position, pool, committed, device, queue, status, alive,
                 answer>>

TornDown ==
  /\ owner = "Closed" /\ queue = <<>>
  /\ owner' = "Released"
  /\ local' = {} /\ alive' = alive \ local
  /\ UNCHANGED <<pc, step, next, failed, uncreated, position, pool, committed, device, queue,
                 status, answer>>

(* Drop of the owner: an uncertain bundle is synchronized or forgotten;    *)
(* failed_step holds inert handles, which are not freed.                   *)
(* Mutant: every bundle is dropped like an idle one. *)
DropsAtOnce(fate) == fate = "Freed"
DropFate(fate) ==
  IF owner = "PoisonedUncertain"
  THEN (fate = "Freed" /\ queue = <<>>) \/ fate = "Forgotten"
  ELSE fate = "Freed"

DropSession ==
  /\ pc = "idle" /\ owner \in Held
  /\ \E fate \in {"Freed", "Forgotten"} :
       /\ DropFate(fate)
       /\ owner' = fate
       /\ alive' = IF fate = "Freed" THEN alive \ local ELSE alive
  /\ local' = {} /\ step' = NoStep
  /\ UNCHANGED <<pc, next, failed, uncreated, position, pool, committed, device, queue, status,
                 answer>>

Chunks == UNION {[1..n -> Token] : n \in 1..MaxChunk}

Next ==
  \/ Execute
  \/ \E tokens \in Chunks : Prefill(tokens)
  \/ Allocate \/ PrepareFails
  \/ Submit \/ SubmitFails
  \/ SynchronizeFails \/ Aborted \/ ValidationFails \/ Publish
  \/ Close \/ TornDown \/ DropSession

Spec == Init /\ [][Next]_vars

------------------------------------------------------------------------------
(* What each part of the published state has absorbed: keys and values,    *)
(* every recurrent state.  They and the position must stand for the same   *)
(* tokens, also in a session that was poisoned half way, closed or dropped *)
(* (publish_completed, complete).                                          *)
Parts ==
  {SubSeq(device.rows[x], 1, pool.committed) : x \in Full}
    \cup {device.state[x][committed[x]] : x \in Recurrent}
Seen ==
  IF \E s \in Parts : Parts = {s} /\ Len(s) = position THEN CHOOSE s \in Parts : TRUE ELSE Junk

(* The memory of a session is freed only when its stream has nothing left  *)
(* that could touch it, and a session that is at rest and not uncertain    *)
(* has an idle stream (ResourceOwner::drop, finish_after_submission).      *)
FreedOnlyWhenIdle ==
  owner \in {"Freed", "Released", "PoisonedIdle", "Ready"} => queue = <<>>

(* Every buffer allocated for a step belongs to the step, to failed_step   *)
(* or to nobody: not lost by a preparation that stops half way, nor by a   *)
(* close after it (prepare_prefill, into_teardown_parts).                  *)
StepBuffersAreOwned ==
  /\ owner \notin {"Freed", "Forgotten"} => alive = local \cup failed
  /\ owner = "Ready" /\ pc = "idle" => alive = {}
  /\ owner = "Released" => alive = {}

(* A caller who receives logits receives them for exactly the tokens of    *)
(* every step that succeeded, in order, and the parts of the state advance *)
(* together or not at all (prefill, publish_completed).                    *)
Log == INSTANCE TokenLog WITH
  seen <- Seen,
  answer <- answer,
  usable <- owner \in {"Ready", "InFlight"}
ImplementsTokenLog == Log!Spec
==============================================================================
