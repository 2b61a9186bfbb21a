-------------------------- MODULE MCTextGeneration --------------------------
(* Three tokens answered at most, over every pair of stages.               *)
EXTENDS TextGeneration

Stage(o) == [op |-> o]
Literal(p, c, e) == [op |-> "ReplaceLiteral", pattern |-> p, content |-> c, emptyInputMatches |-> e]
Strip(c, m, n) == [op |-> "Strip", char |-> c, start |-> m, stop |-> n]

(* Stages that insert at the boundaries of characters go with vocabularies *)
(* without fallback spellings, which have characters of their own.         *)
Plain ==
  {Stage("ByteLevel"), Stage("Fuse"), Stage("CtcDeduplicate"), Stage("FilterEmpty"),
   [op |-> "Bpe", pattern |-> <<"x">>],
   [op |-> "WordPiecePrefix", pattern |-> <<"x">>],
   [op |-> "Metaspace", trimFirst |-> TRUE],
   Literal(<<"mark">>, <<"space">>, FALSE), Literal(<<"a">>, <<"Oe">>, TRUE),
   Strip("a", 1, 1)}
Inserting ==
  {[op |-> "Bpe", pattern |-> <<>>],
   Literal(<<>>, <<"b", "b">>, TRUE), Literal(<<>>, <<"b">>, FALSE),
   [op |-> "ReplaceRegex", content |-> <<"a">>]}

Programs(stages) == {<<>>} \cup [1..1 -> stages] \cup [1..2 -> stages]
Llama == <<Literal(<<"mark">>, <<"space">>, FALSE), Stage("ByteFallback"), Stage("Fuse"),
           Strip("space", 1, 0)>>

LetterSpelling == [t1 |-> <<"a">>, t2 |-> <<"b">>, t3 |-> <<"x">>]
AsciiSpelling == [t1 |-> <<"a">>, t2 |-> <<"x", "a">>, t3 |-> <<"x">>]
ByteSpelling == [t1 |-> <<"Lc">>, t2 |-> <<"Cc">>, t3 |-> <<"Gs", "a">>]
FallbackSpelling == [t1 |-> <<"fallbackLead">>, t2 |-> <<"fallbackCont">>, t3 |-> <<"mark", "a">>]

Made(spelling, programs) ==
  {[spelling |-> spelling, program |-> p, joined |-> FALSE] : p \in programs}
    \cup {[spelling |-> spelling, program |-> <<>>, joined |-> TRUE]}
MCTokenizers ==
  Made(LetterSpelling, Programs(Inserting \cup {Stage("ByteLevel"), Stage("Fuse")}))
    \cup Made(AsciiSpelling, Programs(Plain \cup Inserting))
    \cup Made(ByteSpelling, Programs(Plain))
    \cup Made(FallbackSpelling, Programs(Plain \cup {Stage("ByteFallback")}) \cup {Llama})
==============================================================================
