----------------------------- MODULE AgentText -----------------------------
(***************************************************************************)
(* The block that Wktbox keeps in the instructions of an agent             *)
(* (agentintegration/files.go): how it is put into a text that belongs to  *)
(* the user, and taken out again.                                          *)
(*                                                                         *)
(* A text is a sequence of tokens: "a" any text of the user, "n" a line    *)
(* break, "S" and "E" the two markers, "b" what Wktbox writes between      *)
(* them.                                                                   *)
(***************************************************************************)
EXTENDS Naturals, Sequences

Tokens == {"a", "n", "S", "E", "b"}
Text == Seq(Tokens)

\* ManagedInstructionsBlock
Block == <<"S", "b", "E">>

Has(x, k) == \E i \in DOMAIN x : x[i] = k
\* strings.Index: the first place of a token that the text has.
Index(x, k) == CHOOSE i \in DOMAIN x : x[i] = k /\ \A j \in 1 .. i - 1 : x[j] # k
Before(x, k) == SubSeq(x, 1, Index(x, k) - 1)
After(x, k) == SubSeq(x, Index(x, k) + 1, Len(x))

Marked(x) == Has(x, "S") \/ Has(x, "E")
\* An incomplete block, or markers out of order: the text is left alone.
Broken(x) == Marked(x) /\ ~(Has(x, "S") /\ Has(x, "E") /\ Index(x, "S") < Index(x, "E"))
\* strings.Contains(text, ManagedInstructionsBlock)
Managed(x) == \E i \in 1 .. Len(x) - 2 : SubSeq(x, i, i + 2) = Block

EndsWith(x, y) == Len(x) >= Len(y) /\ SubSeq(x, Len(x) - Len(y) + 1, Len(x)) = y
StartsLine(x) == x # <<>> /\ Head(x) = "n"
Separator(x) ==
  IF EndsWith(x, <<"n", "n">>) THEN <<>>
  ELSE IF EndsWith(x, <<"n">>) THEN <<"n">> ELSE <<"n", "n">>

\* Mutant: the text after the block is lost.
RenderHead(x) == IF Marked(x) THEN Before(x, "S") \o Block ELSE x \o Separator(x) \o Block
\* renderManagedInstructions, of a text that is not broken
Render(x) ==
  IF Marked(x) THEN Before(x, "S") \o Block \o After(x, "E")
  ELSE IF x = <<>> THEN Block \o <<"n">>
  ELSE x \o Separator(x) \o Block \o <<"n">>

\* removeManagedInstructions, of a text that is marked and not broken
Remove(x) ==
  LET before == Before(x, "S")
      after == After(x, "E")
  IN  IF EndsWith(before, <<"n", "n">>) /\ StartsLine(after)
      THEN SubSeq(before, 1, Len(before) - 1) \o after
      ELSE before \o (IF before = <<>> /\ StartsLine(after) THEN Tail(after) ELSE after)

\* What the user wrote outside the block.
Prose(x) ==
  LET Letters(y) == SelectSeq(y, LAMBDA k : k \in {"a", "b"})
  IN  IF Marked(x) /\ ~Broken(x) THEN Letters(Before(x, "S") \o After(x, "E")) ELSE Letters(x)
=============================================================================
