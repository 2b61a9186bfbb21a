---------------------------- MODULE DecodeStages ----------------------------
(***************************************************************************)
(* The stages of collective decoding and the storage planned for them      *)
(* (crates/tokenize/src/collective.rs).  A text is a sequence of symbols   *)
(* with a width in bytes, a token buffer a sequence of texts.  A symbol is *)
(* a character, or a whole fallback spelling such as "<0xC5>".  Bytes that *)
(* are not yet text are "lead" and "cont", the two bytes of one character, *)
(* or a symbol, which stands for its bytes.  Patterns have no more than    *)
(* one symbol.                                                             *)
(***************************************************************************)
EXTENDS Integers, SequencesExt

(* a, b and x are ASCII, U+2581 is the mark of a space, Oe the character of *)
(* the two bytes, R the replacement character; Lc, Cc and Gs are what       *)
(* byte-level vocabularies spell the two bytes and the space with.          *)
Width == [a |-> 1, b |-> 1, x |-> 1, space |-> 1, mark |-> 3, Oe |-> 2, R |-> 3,
          Lc |-> 2, Cc |-> 2, Gs |-> 2, fallbackLead |-> 6, fallbackCont |-> 6,
          lead |-> 1, cont |-> 1]

Symbol == DOMAIN Width
Text == Seq(Symbol)

(* A pass over a sequence: what it has gathered after each element, and in *)
(* the end.  (FoldLeft, with the values on the way a proof speaks of.)     *)
Passes(Op(_, _), base, seq) ==
  LET after[k \in 0..Len(seq)] == IF k = 0 THEN base ELSE Op(after[k - 1], seq[k])
  IN after
Pass(Op(_, _), base, seq) == Passes(Op, base, seq)[Len(seq)]

Longer(n, s) == n + Width[s]
Bytes(text) == Pass(Longer, 0, text)
BytesOf(buffer) == Bytes(FlattenSeq(buffer))
Joined(buffer) ==
  FlattenSeq([i \in DOMAIN buffer |-> IF i = 1 THEN buffer[i] ELSE <<"space">> \o buffer[i]])

OneLess(n) == IF n = 0 THEN 0 ELSE n - 1

------------------------------------------------------------------------------
(* Lossy UTF-8: write_lossy_utf8 looks for the next error, a stray byte.   *)
(* A lead at the end is an error as well.                                  *)
Stray(acc) == IF acc.open THEN [text |-> Append(acc.text, "R"), open |-> FALSE] ELSE acc
NextByte(acc, y) ==
  CASE y = "lead" -> [Stray(acc) EXCEPT !.open = TRUE]
    [] y = "cont" -> IF acc.open THEN [text |-> Append(acc.text, "Oe"), open |-> FALSE]
                                 ELSE [acc EXCEPT !.text = Append(@, "R")]
    [] OTHER -> [Stray(acc) EXCEPT !.text = Append(@, y)]
NoBytes == [text |-> <<>>, open |-> FALSE]
Lossy(raw) == Stray(Pass(NextByte, NoBytes, raw)).text
IsUtf8(raw) == "R" \notin {Lossy(raw)[i] : i \in DOMAIN Lossy(raw)}

(* apply_byte_level: a token of the byte alphabet gives its bytes, another  *)
(* one the bytes of its own spelling; the whole is one token.               *)
ByteAlphabet == [a |-> "a", b |-> "b", x |-> "x", Lc |-> "lead", Cc |-> "cont", Gs |-> "space",
                 fallbackLead |-> "fallbackLead", fallbackCont |-> "fallbackCont"]
TokenBytes(t) ==
  IF \A i \in DOMAIN t : t[i] \in DOMAIN ByteAlphabet
  THEN [i \in DOMAIN t |-> ByteAlphabet[t[i]]] ELSE t
ByteLevel(buffer) ==
  LET raw == FlattenSeq([i \in DOMAIN buffer |-> TokenBytes(buffer[i])])
  IN [out |-> <<Lossy(raw)>>, raw |-> Bytes(raw)]

(* apply_byte_fallback: a run of fallback tokens is held back until another *)
(* token or the end flushes it.                                             *)
FallbackByte == [fallbackLead |-> "lead", fallbackCont |-> "cont"]
IsFallback(t) == Len(t) = 1 /\ t[1] \in DOMAIN FallbackByte

Decoded(raw) == IF IsUtf8(raw) THEN <<Lossy(raw)>> ELSE [i \in DOMAIN raw |-> <<"R">>]
Flush(acc) ==
  IF acc.held = <<>> THEN acc ELSE [acc EXCEPT !.out = @ \o Decoded(acc.held), !.held = <<>>]
NextFallback(acc, t) ==
  IF IsFallback(t)
  THEN LET held == Append(acc.held, FallbackByte[t[1]])
       IN [acc EXCEPT !.held = held, !.raw = IF Len(held) > @ THEN Len(held) ELSE @]
  ELSE [Flush(acc) EXCEPT !.out = Append(@, t)]
NoTokens == [out |-> <<>>, held |-> <<>>, raw |-> 0]
ByteFallback(buffer) == Flush(Pass(NextFallback, NoTokens, buffer))

------------------------------------------------------------------------------
(* replace_literal_token, apply_regex_replace of a pattern without text.   *)
Replaced(t, pattern, content) ==
  IF pattern = <<>> THEN content \o FlattenSeq([i \in DOMAIN t |-> <<t[i]>> \o content])
  ELSE FlattenSeq([i \in DOMAIN t |-> IF <<t[i]>> = pattern THEN content ELSE <<t[i]>>])

Continuation(t, prefix) ==
  IF IsPrefix(prefix, t) THEN SubSeq(t, Len(prefix) + 1, Len(t)) ELSE <<"space">> \o t

(* apply_metaspace *)
Spaced(t, keep) == FlattenSeq([i \in DOMAIN t |-> IF t[i] # "mark" THEN <<t[i]>>
                                                 ELSE IF keep THEN <<"space">> ELSE <<>>])

(* apply_strip: at most so many of the character from either end. *)
Stripped(t, c, start, stop) ==
  LET from == CHOOSE k \in 0..Len(t) :
                /\ k <= start /\ \A i \in 1..k : t[i] = c
                /\ k = start \/ k = Len(t) \/ t[k + 1] # c
      to == CHOOSE k \in 0..Len(t) :
                /\ k <= stop /\ \A i \in 1..k : t[Len(t) + 1 - i] = c
                /\ k = stop \/ k = Len(t) \/ t[Len(t) - k] # c
  IN SubSeq(t, from + 1, Len(t) - to)

NextDistinct(acc, t) ==
  [out |-> IF <<t>> = acc.previous THEN acc.out ELSE Append(acc.out, t), previous |-> <<t>>]
Deduplicated(buffer) == Pass(NextDistinct, [out |-> <<>>, previous |-> <<>>], buffer).out

(* The tokens a test lets through (SelectSeq, as a concatenation). *)
Kept(buffer, Test(_)) ==
  FlattenSeq([i \in DOMAIN buffer |-> IF Test(buffer[i]) THEN <<buffer[i]>> ELSE <<>>])

(* Stage::apply: the tokens it writes, and how many raw bytes it held.     *)
EachToken(buffer, Op(_, _)) ==
  [out |-> [i \in DOMAIN buffer |-> Op(i, buffer[i])], raw |-> 0]
Apply(stage, buffer) ==
  CASE stage.op = "Bpe" ->
         EachToken(buffer, LAMBDA i, t :
           Replaced(t, stage.pattern, IF i = Len(buffer) THEN <<>> ELSE <<"space">>))
    [] stage.op = "ByteLevel" -> ByteLevel(buffer)
    [] stage.op = "WordPiecePrefix" ->
         EachToken(buffer, LAMBDA i, t : IF i = 1 THEN t ELSE Continuation(t, stage.pattern))
    [] stage.op = "Metaspace" ->
         EachToken(buffer, LAMBDA i, t : Spaced(t, i # 1 \/ ~stage.trimFirst))
    [] stage.op = "CtcDeduplicate" ->
         [out |-> Deduplicated(buffer), raw |-> 0]
    [] stage.op = "FilterEmpty" ->
         [out |-> Kept(buffer, LAMBDA t : t # <<>>), raw |-> 0]
    [] stage.op = "ReplaceLiteral" ->
         EachToken(buffer, LAMBDA i, t :
           IF t = <<>> /\ ~stage.emptyInputMatches THEN t
           ELSE Replaced(t, stage.pattern, stage.content))
    [] stage.op = "ReplaceRegex" ->
         EachToken(buffer, LAMBDA i, t : IF t = <<>> THEN t ELSE Replaced(t, <<>>, stage.content))
    [] stage.op = "Fuse" -> [out |-> <<FlattenSeq(buffer)>>, raw |-> 0]
    [] stage.op = "Strip" ->
         EachToken(buffer, LAMBDA i, t : Stripped(t, stage.char, stage.start, stage.stop))
    [] stage.op = "ByteFallback" -> ByteFallback(buffer)

(* The stages a tokenizer's decoder is compiled to (the variants of Stage). *)
ShortPattern(p) == p \in Text /\ (p = <<>> \/ \E s \in Symbol : p = <<s>>)
IsStage(s) ==
  \/ s.op \in {"ByteLevel", "CtcDeduplicate", "FilterEmpty", "Fuse", "ByteFallback", "Metaspace"}
  \/ s.op = "Bpe" /\ ShortPattern(s.pattern)
  \/ s.op = "WordPiecePrefix" /\ s.pattern \in Text
  \/ s.op = "ReplaceLiteral" /\ ShortPattern(s.pattern) /\ s.content \in Text
  \/ s.op = "ReplaceRegex" /\ s.content \in Text
  \/ s.op = "Strip" /\ s.start \in Nat /\ s.stop \in Nat
IsProgram(p) == p \in Seq({p[i] : i \in DOMAIN p}) /\ \A i \in DOMAIN p : IsStage(p[i])

------------------------------------------------------------------------------
(* Stage::output_bound *)
LiteralBound(in, pattern, content) ==
  IF pattern = <<>> THEN in.bytes + (in.bytes + in.spans) * Bytes(content)
  ELSE LET more == Bytes(content) - Bytes(pattern)
       IN in.bytes + (IF more <= 0 THEN 0 ELSE (in.bytes \div Bytes(pattern)) * more)

(* Mutant: a boundary after each character, and none before the first. *)
BpeWithoutFirst(in) == 2 * in.bytes
BpeBound(in) == 2 * in.bytes + in.spans

OutputBound(stage, in) ==
  [bytes |->
     CASE stage.op = "Bpe" /\ stage.pattern = <<>> -> BpeBound(in)
       [] stage.op = "ByteLevel" -> 3 * in.bytes
       [] stage.op = "WordPiecePrefix" -> in.bytes + OneLess(in.spans)
       [] stage.op = "ReplaceLiteral" -> LiteralBound(in, stage.pattern, stage.content)
       [] stage.op = "ReplaceRegex" -> LiteralBound(in, <<>>, stage.content)
       [] OTHER -> in.bytes,
   spans |-> IF stage.op \in {"ByteLevel", "Fuse"} THEN 1 ELSE in.spans]

(* storage_plan: the largest of every container over the program.          *)
Larger(m, n) == IF m >= n THEN m ELSE n
PlanStage(plan, stage) ==
  LET shape == OutputBound(stage, plan.shape)
  IN [shape |-> shape,
      arena |-> Larger(plan.arena, shape.bytes),
      spans |-> Larger(plan.spans, shape.spans),
      raw |-> IF stage.op \in {"ByteLevel", "ByteFallback"}
              THEN Larger(plan.raw, plan.shape.bytes) ELSE plan.raw]
FirstPlan(maxSpelling, tokens) ==
  [shape |-> [bytes |-> tokens * maxSpelling, spans |-> tokens],
   arena |-> tokens * maxSpelling, spans |-> tokens, raw |-> 0]
StoragePlan(program, joined, maxSpelling, tokens) ==
  LET plan == Pass(PlanStage, FirstPlan(maxSpelling, tokens), program)
  IN [tokens |-> tokens, arena |-> plan.arena, spans |-> plan.spans, raw |-> plan.raw,
      maximum |-> plan.shape.bytes + IF joined THEN OneLess(plan.shape.spans) ELSE 0]

------------------------------------------------------------------------------
(* What the stages that read ahead should give, by position and not in     *)
(* passing: the reference the decoder is checked against.                  *)
RefLossy(raw) ==
  FlattenSeq([i \in DOMAIN raw |->
    CASE raw[i] = "lead" -> IF i < Len(raw) /\ raw[i + 1] = "cont" THEN <<"Oe">> ELSE <<"R">>
      [] raw[i] = "cont" -> IF i > 1 /\ raw[i - 1] = "lead" THEN <<>> ELSE <<"R">>
      [] OTHER -> <<raw[i]>>])

RefFallback(buffer) ==
  LET RunFrom(i) == CHOOSE j \in 1..i : /\ \A k \in j..i : IsFallback(buffer[k])
                                        /\ j = 1 \/ ~IsFallback(buffer[j - 1])
      RunTo(i) == CHOOSE j \in i..Len(buffer) : /\ \A k \in i..j : IsFallback(buffer[k])
                                                /\ j = Len(buffer) \/ ~IsFallback(buffer[j + 1])
      Run(i) == RefLossy([k \in 1..(RunTo(i) - RunFrom(i) + 1) |->
                            FallbackByte[buffer[RunFrom(i) + k - 1][1]]])
      Invalid(i) == \E k \in DOMAIN Run(i) : Run(i)[k] = "R"
  IN FlattenSeq([i \in DOMAIN buffer |->
       IF ~IsFallback(buffer[i]) THEN <<buffer[i]>>
       ELSE IF Invalid(i) THEN <<<<"R">>>>
       ELSE IF i = RunFrom(i) THEN <<Run(i)>> ELSE <<>>])

RefStage(buffer, stage) ==
  CASE stage.op = "ByteLevel" ->
         <<RefLossy(FlattenSeq([i \in DOMAIN buffer |-> TokenBytes(buffer[i])]))>>
    [] stage.op = "ByteFallback" -> RefFallback(buffer)
    [] stage.op = "CtcDeduplicate" ->
         FlattenSeq([i \in DOMAIN buffer |->
           IF i > 1 /\ buffer[i - 1] = buffer[i] THEN <<>> ELSE <<buffer[i]>>])
    [] OTHER -> Apply(stage, buffer).out

RefText(program, joined, buffer) ==
  LET last == Pass(RefStage, buffer, program)
  IN IF joined THEN Joined(last) ELSE FlattenSeq(last)
==============================================================================
