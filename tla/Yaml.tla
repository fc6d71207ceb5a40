-------------------------------- MODULE Yaml --------------------------------
(***************************************************************************)
(* nnn-parser/src/yaml: sequences, mappings and scalars, told apart by     *)
(* indentation; `strict` is validate_yaml, which also wants the text to    *)
(* end with the document.  A token is a line: so many spaces and a         *)
(* content, where "bad" stands for what parse_scalar refuses and "long"    *)
(* for a scalar longer than its limit.  "blank" is a blank line or a       *)
(* comment, "tab" a line indented with one.                                *)
(*                                                                         *)
(* A frame is a sequence or a mapping under way, with its indentation in   *)
(* `made`; while the node of one of its entries is read its kind is "item" *)
(* or "value".  The line a parser peeks at is the last one read.           *)
(***************************************************************************)
EXTENDS Parsing

Indents == 0 .. 2
Scalars == {"s", "bad", "long"}
Contents == {"-", "k:", "s", "- s", "k: s", "- k: s", "bad", "- bad", "k: bad", "long"}
Line(i, content) == <<"", " ", "  ">>[i + 1] \o content
Lines == {Line(i, content) : i \in Indents, content \in Contents}

ItemOf == [c \in {"- s", "- k: s", "- bad"} |->
             IF c = "- bad" THEN "bad" ELSE "s"]
ValueOf == [c \in {"k: s", "- k: s", "k: bad"} |->
              IF c = "k: bad" THEN "bad" ELSE "s"]
IsSequenceEntry(content) == content = "-" \/ content \in DOMAIN ItemOf
IsMappingEntry(content) == content = "k:" \/ content \in DOMAIN ValueOf

(* How many blank lines come before the next line, and how often a line is *)
(* still to be peeked at; bound: three blank lines one after the other.    *)
Blanks == <<"line", "blank", "two blanks", "three blanks">>
Peeks == <<"peeked", "peeked twice", "peeked three times", "peeked four times">>

(* The line peeked at is at this indentation; the end is left of them all. *)
PeekedAt(i, content) ==
  /\ mode \in Range(Peeks)
  /\ IF i = -1 THEN Last(read) = End ELSE Last(read) = Line(i, content)

(* LineCursor::next goes on by one line, blank or not: a line is peeked at *)
(* again for every blank one before it.                                    *)
Taken ==
  IF mode = Peeks[1] THEN "line"
  ELSE LET k == CHOOSE j \in DOMAIN Peeks : Peeks[j] = mode IN Peeks[k - 1]

-----------------------------------------------------------------------------
(* The cursor. *)

ReadLine(tok) ==
  \E k \in DOMAIN Blanks :
    /\ mode = Blanks[k]
    /\ \/ tok = "tab" /\ Refuse
       \/ tok = "blank" /\ k < Len(Blanks) /\ Go(Blanks[k + 1], stack, nodes)
       \/ tok = End /\ Go("peeked", stack, nodes)
       \/ tok \in Lines /\ Go(Peeks[k], stack, nodes)

-----------------------------------------------------------------------------
(* The parser. *)

At(i, content) == PeekedAt(i, content) /\ verdict = "reading" /\ UNCHANGED <<format, strict, read>>

Block(kind, i) == [Frame(kind) EXCEPT !.made = <<i>>]
Base == Top.made[1]
Within(kinds) == stack # <<>> /\ Top.kind \in kinds

(* An entry of the innermost frame is complete. *)
Entered(frames, next, n) ==
  LET entered == Counted(frames)
      frame == entered[Len(frames)]
      kind == IF frame.kind \in {"item", "sequence"} THEN "sequence" ELSE "mapping"
  IN IF frame.count > MaxItems THEN OverLimit
     ELSE Go(next, [entered EXCEPT ![Len(frames)].kind = kind], n)

ParseScalar(value, frames, n) ==
  \/ value = "bad" /\ Refuse
  \/ value = "long" /\ OverLimit
  \/ value = "s" /\ (IF frames = <<>> THEN Go(Taken, frames, n) ELSE Entered(frames, Taken, n))

(* The document, or the node of an entry, which lies deeper than the entry. *)
ParseNode(i, content) ==
  /\ i >= 0
  /\ \/ stack = <<>> /\ nodes = 0
     \/ Within({"item", "value"}) /\ i > Base
  /\ IF Depth > MaxDepth \/ nodes = MaxNodes THEN OverLimit
     ELSE CASE IsSequenceEntry(content) -> Go(mode, Push(Block("sequence", i)), nodes + 1)
            [] ~IsSequenceEntry(content) /\ IsMappingEntry(content) ->
                 Go(mode, Push(Block("mapping", i)), nodes + 1)
            [] OTHER -> ParseScalar(content, stack, nodes + 1)

ParseSequence(i, content) ==
  /\ Within({"sequence"}) /\ i = Base /\ IsSequenceEntry(content)
  /\ IF content = "-" THEN Go(Taken, [stack EXCEPT ![Depth].kind = "item"], nodes)
     ELSE ParseScalar(ItemOf[content], stack, nodes)

ParseMapping(i, content) ==
  /\ Within({"mapping"}) /\ i = Base /\ IsMappingEntry(content)
  /\ IF content = "k:" THEN Go(Taken, [stack EXCEPT ![Depth].kind = "value"], nodes)
     ELSE ParseScalar(ValueOf[content], stack, nodes)

Misindented(i) ==
  /\ \/ Within({"sequence", "mapping"}) /\ i > Base
     \/ Within({"item"}) /\ i <= Base
     \/ stack = <<>> /\ nodes = 0 /\ i = -1
  /\ Refuse

(* A key with nothing deeper after it. *)
NoValue(i) == Within({"value"}) /\ i <= Base /\ Entered(stack, mode, nodes)

(* A line the sequence or mapping cannot take ends it. *)
EndBlock(i, content) ==
  /\ \/ Within({"sequence"}) /\ (i < Base \/ (i = Base /\ ~IsSequenceEntry(content)))
     \/ Within({"mapping"}) /\ (i < Base \/ (i = Base /\ ~IsMappingEntry(content)))
  /\ IF Depth = 1 THEN Go(mode, <<>>, nodes) ELSE Entered(Front(stack), mode, nodes)

(* Has the line peeked at been taken before? *)
TakenBefore ==
  LET blanks == {j \in 1 .. Len(read) - 1 : \A k \in j .. Len(read) - 1 : read[k] = "blank"}
  IN mode # Peeks[Cardinality(blanks) + 1]

(* The document is complete.  parse leaves the other lines unread, after   *)
(* those of the document: a line that is peeked at again is one of them.   *)
EndDocument(i) ==
  /\ stack = <<>> /\ nodes > 0
  /\ \/ i = -1 /\ Accept
     \/ i # -1 /\ strict /\ Refuse
     \/ /\ i # -1 /\ ~strict
        /\ mode' = "rest"
        /\ stack' = <<[Frame("rest") EXCEPT !.count = IF TakenBefore THEN Len(read) ELSE Len(read) - 1]>>
        /\ verdict' = "accepted"
        /\ UNCHANGED nodes

Peeked(i, content) ==
  /\ At(i, content)
  /\ \/ ParseNode(i, content) \/ ParseSequence(i, content) \/ ParseMapping(i, content)
     \/ Misindented(i) \/ NoValue(i) \/ EndBlock(i, content) \/ EndDocument(i)

Steps ==
  \/ \E tok \in Lines \cup {"blank", "tab", End} : Reads(tok) /\ ReadLine(tok)
  \/ \E i \in Indents, content \in Contents : Peeked(i, content)
  \/ Peeked(-1, "")

-----------------------------------------------------------------------------
(* The documents, within the limits: an entry whose node lies deeper, or a *)
(* scalar.  A line with a dash and a colon is an entry of either kind, but *)
(* starts a sequence.  A scalar is never continued on the next line.       *)

Documents(i) ==
  LET n == MaxRead["yaml"]
      document[d \in 0 .. MaxDepth + 1] ==
        [k \in Indents |->
           IF d = 0 THEN {}
           ELSE LET inner == document[d - 1]
                    deeper == UNION {inner[j] : j \in {x \in Indents : x > k}}
                    nested(content) == Pairs({<<Line(k, content)>>}, deeper, n)
                    items == {<<Line(k, c)>> : c \in {"- s", "- k: s"}} \cup nested("-")
                    pairs == {<<Line(k, c)>> : c \in {"k: s", "k:"}} \cup nested("k:")
                    more == IF MaxItems = 1 THEN {} ELSE Lists(pairs \cup {<<Line(k, "- k: s")>>}, MaxItems - 1, n)
                IN {<<Line(k, "s")>>}
                   \cup {FlattenSeq(l) : l \in Lists(items, MaxItems, n)}
                   \cup pairs
                   \cup {t \in {p \o FlattenSeq(l) : p \in pairs, l \in more} : Len(t) <= n}]
  IN document[MaxDepth + 1][i]

NodesOf(text) ==
  1 + Cardinality({k \in 2 .. Len(text) :
        \E i \in Indents, j \in Indents : /\ j < i
                                          /\ text[k] \in {Line(i, c) : c \in Contents}
                                          /\ text[k - 1] \in {Line(j, "-"), Line(j, "k:")}})

DocumentTexts == {t \in UNION {Documents(i) : i \in Indents} : NodesOf(t) <= MaxNodes}

(* Blank lines do not matter. *)
Significant(text) == SelectSeq(text, LAMBDA line : line # "blank")
=============================================================================
