--------------------------- MODULE TextGeneration ---------------------------
(***************************************************************************)
(* One greedy generation (run_generation of crates/text/src/lib.rs) with   *)
(* the decoding of its answer (crates/tokenize/src/collective.rs).  All    *)
(* storage is planned and acquired before the first step; the answer is    *)
(* published whole or not at all; a cancellation is seen at boundaries.    *)
(***************************************************************************)
EXTENDS DecodeStages

CONSTANTS
  Tokenizers,            \* tokenizers: spelling (token |-> text), program, joined
  StopToken, Unspelled,  \* a stop token, and one the tokenizer does not spell
  MaxOutputTokens,       \* of the request
  OutputBytes            \* of the profile's limits

ASSUME LimitAssumption == MaxOutputTokens \in Nat \ {0} /\ OutputBytes \in Nat
ASSUME TokenAssumption ==
  \A t \in Tokenizers :
    /\ {StopToken, Unspelled} \cap DOMAIN t.spelling = {}
    /\ IsFiniteSet(DOMAIN t.spelling)
    /\ \A i \in DOMAIN t.spelling : t.spelling[i] \in Text
    /\ IsProgram(t.program) /\ t.joined \in BOOLEAN

VARIABLES
  pc, cancelled,
  tokenizer, plan,
  fed,              \* what the driver has been given, "prompt" for the prompt
  next,             \* the token selected last
  ids,              \* token_ids of the acquired storage
  first, second,    \* its two token buffers
  stage,            \* the stage of the program that is due
  output,
  result            \* why the answer, ids and output, ended, or why there is none

request == <<tokenizer, plan>>
storage == <<ids, first, second, stage, output>>
generationVars == <<pc, cancelled, request, fed, next, storage, result>>

None == "none"
Token(t) == DOMAIN t.spelling \cup {StopToken, Unspelled}

(* Vocabulary::compile: the longest spelling, of any token of the table.   *)
MaxSpelling(t) ==
  CHOOSE n \in {0} \cup {Bytes(t.spelling[i]) : i \in DOMAIN t.spelling} :
    \A i \in DOMAIN t.spelling : Bytes(t.spelling[i]) <= n

GenerationInit ==
  /\ pc = "acquire" /\ cancelled = FALSE
  /\ tokenizer \in Tokenizers
  /\ plan = StoragePlan(tokenizer.program, tokenizer.joined, MaxSpelling(tokenizer),
                        MaxOutputTokens)
  /\ fed = <<>> /\ next = "prompt"
  /\ ids = <<>> /\ first = <<>> /\ second = <<>> /\ stage = 1 /\ output = <<>>
  /\ result = None

(* The caller may ask for cancellation at any time. *)
Cancel ==
  /\ ~cancelled
  /\ cancelled' = TRUE
  /\ UNCHANGED <<pc, request, fed, next, storage, result>>

Fails(why) ==
  /\ pc' = "done" /\ result' = why
  /\ UNCHANGED <<cancelled, request, fed, next, storage>>

(* check_cancelled at a boundary. *)
AtBoundary(at) == pc = at /\ ~cancelled
Refused ==
  /\ pc \in {"acquire", "step", "select", "seed", "publish"} /\ cancelled
  /\ Fails("Cancelled")

(* The row must be of the planned width, and every container is reserved   *)
(* at its planned capacity, or nothing is.                                 *)
Acquire ==
  /\ pc = "acquire"
  /\ \/ Fails("Storage")
     \/ /\ ~cancelled /\ pc' = "step"
        /\ UNCHANGED <<cancelled, request, fed, next, storage, result>>

(* select_next: the driver is given the prompt or the last token.  It may  *)
(* fail, of itself or because it saw the cancellation.                     *)
Step ==
  /\ AtBoundary("step")
  /\ fed' = Append(fed, next) /\ pc' = "select"
  /\ UNCHANGED <<cancelled, request, next, storage, result>>

DriverFails == pc = "select" /\ Fails("Driver")
RowRefused == AtBoundary("select") /\ Fails("Logits")

(* greedy_last_logits and the loop's body: push_token_id refuses a token    *)
(* the storage has no room for.                                             *)
Select(t) ==
  /\ AtBoundary("select")
  /\ next' = t
  /\ \/ t = StopToken /\ pc' = "seed" /\ UNCHANGED <<ids, result>>
     \/ /\ t # StopToken
        /\ IF Len(ids) + 1 > plan.tokens
           THEN pc' = "done" /\ result' = "TokenCapacity" /\ UNCHANGED ids
           ELSE /\ ids' = Append(ids, t) /\ UNCHANGED result
                /\ pc' = IF Len(ids') = MaxOutputTokens THEN "seed" ELSE "step"
  /\ UNCHANGED <<cancelled, request, fed, first, second, stage, output>>

------------------------------------------------------------------------------
(* decode_with_storage.  TokenBuffer refuses what would outgrow it.        *)
Fits(buffer, raw) ==
  BytesOf(buffer) <= plan.arena /\ Len(buffer) <= plan.spans /\ raw <= plan.raw

(* Vocabulary::seed: a token without a spelling is passed over. *)
Spelled(tokens) ==
  LET spelled == Kept(tokens, LAMBDA t : t \in DOMAIN tokenizer.spelling)
  IN [i \in DOMAIN spelled |-> tokenizer.spelling[spelled[i]]]
Seeded == Spelled(ids)
Seed ==
  /\ AtBoundary("seed")
  /\ IF Fits(Seeded, 0)
     THEN first' = Seeded /\ pc' = "decode" /\ UNCHANGED result
     ELSE pc' = "done" /\ result' = "Exhausted" /\ UNCHANGED first
  /\ UNCHANGED <<cancelled, request, fed, next, ids, second, stage, output>>

(* One stage: the target is cleared, filled, and becomes the source.       *)
(* Mutant: the target keeps what an earlier stage left in it. *)
NotCleared(buffer) == buffer
Cleared(buffer) == <<>>

ApplyStage ==
  /\ pc = "decode" /\ stage <= Len(tokenizer.program)
  /\ LET done == Apply(tokenizer.program[stage], first)
         target == Cleared(second) \o done.out
     IN IF Fits(target, done.raw)
        THEN /\ first' = target /\ second' = first /\ stage' = stage + 1
             /\ UNCHANGED <<pc, result>>
        ELSE /\ pc' = "done" /\ result' = "Exhausted"
             /\ UNCHANGED <<first, second, stage>>
  /\ UNCHANGED <<cancelled, request, fed, next, ids, output>>

(* write_output: the limit on the answer is checked before it is written.  *)
Written == IF tokenizer.joined THEN Joined(first) ELSE FlattenSeq(first)
WriteOutput ==
  /\ pc = "decode" /\ stage > Len(tokenizer.program)
  /\ IF Bytes(Written) > OutputBytes
     THEN pc' = "done" /\ result' = "TooLong" /\ UNCHANGED output
     ELSE output' = Written /\ pc' = "publish" /\ UNCHANGED result
  /\ UNCHANGED <<cancelled, request, fed, next, ids, first, second, stage>>

Publish ==
  /\ AtBoundary("publish")
  /\ pc' = "done"
  /\ result' = IF next = StopToken THEN "EndOfSequence" ELSE "Length"
  /\ UNCHANGED <<cancelled, request, fed, next, storage>>

GenerationNext ==
  \/ Cancel \/ Refused
  \/ Acquire \/ Step \/ DriverFails \/ RowRefused
  \/ \E t \in Token(tokenizer) : Select(t)
  \/ Seed \/ ApplyStage \/ WriteOutput \/ Publish

GenerationSpec == GenerationInit /\ [][GenerationNext]_generationVars

------------------------------------------------------------------------------
(* What was acquired before the first step is enough for every token and   *)
(* every decoder: no container is outgrown on the way, and the answer stays *)
(* within the maximum the plan names (storage_plan, output_bound;           *)
(* DecodeStorageExhausted and DecodeTokenCapacityExceeded are never seen). *)
PlannedStorageSuffices ==
  /\ result \notin {"Exhausted", "TokenCapacity"}
  /\ pc = "decode" /\ stage > Len(tokenizer.program) => Bytes(Written) <= plan.maximum

(* A published answer is the whole of what the driver said, without the     *)
(* stop token: the driver was given the prompt and then each stored token   *)
(* except the last of a full answer, and the text is the reference decoding *)
(* of the tokens, read as one sequence (run_generation, decode).            *)
PublishesTheAnswer ==
  result \in {"EndOfSequence", "Length"} =>
    /\ StopToken \notin {ids[i] : i \in DOMAIN ids}
    /\ fed = <<"prompt">> \o (IF result = "Length" THEN Front(ids) ELSE ids)
    /\ result = "Length" => Len(ids) = MaxOutputTokens
    /\ output = RefText(tokenizer.program, tokenizer.joined, Spelled(ids))
    /\ Bytes(output) <= OutputBytes
==============================================================================
