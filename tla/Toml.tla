-------------------------------- MODULE Toml --------------------------------
(***************************************************************************)
(* nnn-parser/src/toml: headers and pairs of a key and a value; `strict`   *)
(* is strict_validate_toml.  White space is left out, except that a scalar *)
(* and a comment have a blank between them; names and strings have no      *)
(* punctuation in them.                                                    *)
(*                                                                         *)
(* The outermost frame is the header or the pair under way, the others the *)
(* arrays and inline tables around a value; `made` holds the segments of a *)
(* key.                                                                    *)
(***************************************************************************)
EXTENDS Parsing

(* A string or a number such as 1 may be a key and a value; the tokens for *)
(* keys and for scalars here are some that are not.                        *)
TomlKeys == {"k", "h"}
Scalar == "+1"
BadDate == "2024-13-01"
Scalars == {Scalar, BadDate}

(* A string that is longer than max_key_len and max_string_len.            *)
Long == "'long'"

(* The end of a line, or of the text, and a comment with it, of which one  *)
(* ends in a bracket.                                                      *)
LineEnds == {"nl", "#", "#]"}

TomlTokens == TomlKeys \cup Scalars \cup LineEnds \cup {Long, "[", "]", "{", "}", ".", "=", ","}

Exceeds(n) == Depth - 1 > MaxDepth \/ n > MaxNodes

-----------------------------------------------------------------------------
(* Keys: parse_key in a header, in a pair and in an inline table. *)

Key(tok, frames, n) ==
  IF tok = Long THEN OverLimit
  ELSE IF tok \notin TomlKeys THEN Refuse
  ELSE Go("after_key", [frames EXCEPT ![Len(frames)].made = Append(@, tok)], n)

ParseKey(tok) == mode = "key" /\ Key(tok, stack, nodes)

ParseDot(tok) ==
  /\ mode = "after_key"
  /\ tok = "."
  /\ IF Len(Top.made) > MaxDepth THEN OverLimit ELSE Go("key", stack, nodes)

ParseAfterKey(tok) ==
  /\ mode = "after_key"
  /\ tok # "."
  /\ \/ Top.kind \in {"pair", "inline"} /\ tok = "=" /\ Go("value", stack, nodes)
     \/ Top.kind = "header" /\ tok = "]" /\ Go("document", <<>>, nodes)
     \/ Top.kind = "array header" /\ tok = "]" /\ Go("second", stack, nodes)
     \/ tok # (IF Top.kind \in {"pair", "inline"} THEN "=" ELSE "]") /\ Refuse

ParseSecondBracket(tok) ==
  /\ mode = "second"
  /\ IF tok = "]" THEN Go("document", <<>>, nodes) ELSE Refuse

-----------------------------------------------------------------------------
(* Values. *)

ValueRead(frames, n) ==
  LET outer == frames[Len(frames)]
      counted == Counted(frames)
  IN IF outer.kind = "pair" THEN Go("document", <<>>, n)
     ELSE IF outer.count = MaxItems THEN OverLimit
     ELSE IF outer.kind = "array" THEN Go("after_item", counted, n)
     ELSE Go("after_entry", [counted EXCEPT ![Len(frames)].made = <<>>], n)

ParseValue(tok) ==
  LET n == nodes + 1
  IN /\ mode = "value" \/ (mode = "item" /\ tok \notin LineEnds \cup {"]"})
     /\ \/ (Exceeds(n) \/ tok = Long) /\ OverLimit
        \/ ~Exceeds(n) /\ tok \in Scalars /\ ValueRead(stack, n)
        \/ ~Exceeds(n) /\ tok = "[" /\ Go("item", Push(Frame("array")), n)
        \/ ~Exceeds(n) /\ tok = "{" /\ Go("first_key", Push(Frame("inline")), n)
        \/ ~Exceeds(n) /\ tok \notin Scalars \cup {Long, "[", "{"} /\ Refuse

(* parse_array, where lines may end, also with comments.                   *)
ParseItem(tok) ==
  /\ mode = "item"
  /\ \/ tok \in LineEnds /\ Go("item", stack, nodes)
     \/ tok = "]" /\ ValueRead(Front(stack), nodes)

ParseAfterItem(tok) ==
  /\ mode = "after_item"
  /\ \/ tok \in LineEnds /\ Go("after_item", stack, nodes)
     \/ tok = "," /\ Go("item", stack, nodes)
     \/ tok = "]" /\ ValueRead(Front(stack), nodes)
     \/ tok \notin LineEnds \cup {",", "]"} /\ Refuse

(* parse_inline_table. *)
ParseFirstKey(tok) ==
  /\ mode = "first_key"
  /\ IF tok = "}" THEN ValueRead(Front(stack), nodes) ELSE Key(tok, stack, nodes)

ParseAfterEntry(tok) ==
  /\ mode = "after_entry"
  /\ \/ tok = "}" /\ ValueRead(Front(stack), nodes)
     \/ tok = "," /\ Go("key", stack, nodes)
     \/ tok \notin {"}", ","} /\ Refuse

-----------------------------------------------------------------------------
(* strict_validate_toml, which looks at the text again line by line,       *)
(* comments included, but not at lines that are comments.                  *)

Pieces(tok) ==
  CASE tok = "nl" -> <<>>
    [] tok = "#]" -> <<"#", "]">>
    [] OTHER -> <<tok>>

LinesOf(text) ==
  LET extended(lines, tok) == [lines EXCEPT ![Len(lines)] = @ \o Pieces(tok)]
      lines == FoldLeft(LAMBDA ls, tok : IF tok \in LineEnds THEN Append(extended(ls, tok), <<>>)
                                         ELSE extended(ls, tok),
                        <<<<>>>>, text)
  IN SelectSeq(lines, LAMBDA line : line # <<>> /\ line[1] # "#")

IsArrayHeader(line) ==
  Len(line) > 3 /\ line[1] = "[" /\ line[2] = "[" /\ line[Len(line)] = "]" /\ line[Len(line) - 1] = "]"

IsHeader(line) == Len(line) > 1 /\ line[1] = "[" /\ line[2] # "[" /\ Last(line) = "]"

IsPair(line) == ~IsArrayHeader(line) /\ ~IsHeader(line) /\ Contains(line, "=")

KeyOf(line) == SubSeq(line, 1, SelectInSeq(line, LAMBDA tok : tok = "=") - 1)

Repeats(lines) ==
  \E i, j \in DOMAIN lines :
    /\ i < j
    /\ \/ IsHeader(lines[i]) /\ lines[i] = lines[j]
       \/ /\ IsPair(lines[i]) /\ IsPair(lines[j])
          /\ KeyOf(lines[i]) = KeyOf(lines[j])
          /\ \A k \in i .. j : ~IsHeader(lines[k]) /\ ~IsArrayHeader(lines[k])

Assigns(line, tok) ==
  LET at == Len(KeyOf(line)) + 2
  IN IsPair(line) /\ at <= Len(line) /\ line[at] = tok

(* An inline table is not closed at the end of its line.                   *)
Unclosed(line) == Assigns(line, "{") /\ Last(line) # "}"

InvalidDate(line) == Assigns(line, BadDate)

StrictlyValid(text) ==
  LET lines == LinesOf(text)
  IN ~Repeats(lines) /\ \A i \in DOMAIN lines : ~Unclosed(lines[i]) /\ ~InvalidDate(lines[i])

-----------------------------------------------------------------------------
(* parse_document. *)

ParseStatement(tok) ==
  /\ mode = "document"
  /\ \/ tok \in LineEnds /\ Go("document", <<>>, nodes)
     \/ tok = End /\ (IF strict /\ ~StrictlyValid(read) THEN Refuse ELSE Accept)
     \/ tok = "[" /\ (IF nodes = MaxNodes THEN OverLimit ELSE Go("header", <<Frame("header")>>, nodes + 1))
     \/ tok \notin LineEnds \cup {"[", End} /\ Key(tok, <<Frame("pair")>>, nodes)

ParseHeader(tok) ==
  /\ mode = "header"
  /\ IF tok = "[" THEN Go("key", <<Frame("array header")>>, nodes) ELSE Key(tok, stack, nodes)

Steps ==
  \E tok \in TomlTokens \cup {End} :
    /\ Reads(tok)
    /\ \/ ParseStatement(tok) \/ ParseHeader(tok) \/ ParseKey(tok) \/ ParseDot(tok)
       \/ ParseAfterKey(tok) \/ ParseSecondBracket(tok) \/ ParseValue(tok) \/ ParseItem(tok)
       \/ ParseAfterItem(tok) \/ ParseFirstKey(tok) \/ ParseAfterEntry(tok)

-----------------------------------------------------------------------------
(* The grammar, within the limits.  Unlike TOML it lets a pair follow      *)
(* another one, or a header, on the same line.  It says nothing of         *)
(* comments, and knows one scalar.                                         *)

Plain(text) ==
  [i \in DOMAIN text |-> IF text[i] \in LineEnds THEN "nl"
                         ELSE IF text[i] \in Scalars THEN Scalar ELSE text[i]]

KeyTexts == {Text(l, <<".">>) : l \in Lists({<<k>> : k \in TomlKeys}, MaxDepth + 1, MaxDepth + 1)}

(* Values within so many arrays and tables; lines may end only in arrays.  *)
ValueTexts(lines) ==
  LET n == MaxRead["toml"] - 2
      ends == IF lines THEN BoundedSeq({"nl"}, n) ELSE {<<>>}
      flat == {<<Scalar>>, <<"{", "}">>} \cup {<<"[">> \o e \o <<"]">> : e \in ends}
      array(inner) ==
        LET item == Pairs(Pairs(ends, inner, n - 2), ends, n - 2)
            items == Short({Text(l, <<",">>) : l \in Lists(item, MaxItems, n - 2)}, n - 2)
            last == {<<>>, <<",">>} \cup {<<",">> \o e : e \in ends}
        IN Pairs(Pairs(Pairs({<<"[">>}, items, n), last, n), {<<"]">>}, n)
      table(inner) ==
        LET pair == Pairs(Pairs(KeyTexts, {<<"=">>}, n - 2), inner, n - 2)
        IN Short({<<"{">> \o Text(l, <<",">>) \o <<"}">> : l \in Lists(pair, MaxItems, n - 2)}, n)
      value[d \in 0 .. MaxDepth] ==
        IF d = 0 THEN flat
        ELSE LET inner == Short(value[d - 1], n - 2)
             IN flat \cup array(inner) \cup table(inner)
  IN value[MaxDepth]

Statements(lines) ==
  LET n == MaxRead["toml"]
  IN {<<"[">> \o k \o <<"]">> : k \in KeyTexts}
     \cup {<<"[", "[">> \o k \o <<"]", "]">> : k \in KeyTexts}
     \cup Pairs(Pairs(KeyTexts, {<<"=">>}, n), ValueTexts(lines), n)

NodesOf(text) ==
  LET at(toks) == {i \in DOMAIN text : text[i] \in toks}
      array_headers == {i \in at({"["}) : /\ i + 2 <= Len(text)
                                          /\ text[i + 1] = "["
                                          /\ text[i + 2] \in TomlKeys}
  IN Cardinality(at({Scalar, "[", "{"})) - Cardinality(array_headers)

LenientTexts ==
  LET n == MaxRead["toml"]
      parts == {<<"nl">>} \cup Statements(TRUE)
      texts[k \in 0 .. n] ==
        IF k = 0 THEN {<<>>} ELSE LET t == texts[k - 1] IN t \cup Pairs(parts, t, n)
  IN {t \in texts[n] : NodesOf(t) <= MaxNodes}

(* Documents line by line: a statement on each or none, and a comment,     *)
(* which only pairs have after them, and those whose value is no inline    *)
(* table: strict_validate_toml takes no other line with a comment for what *)
(* it is.  The last line need not end.                                     *)
Documents ==
  LET n == MaxRead["toml"]
      ends(s) == IF s[1] = "[" \/ Last(s) = "}" THEN {"nl"} ELSE LineEnds
      dated(s) == IF s[1] # "[" /\ Last(s) = Scalar THEN {s, Append(Front(s), BadDate)} ELSE {s}
      statements == UNION {dated(s) : s \in Statements(FALSE)}
      line == {<<e>> : e \in LineEnds} \cup UNION {{Append(s, e) : e \in ends(s)} : s \in statements}
      whole == {<<>>} \cup Lists(line, n, n)
      all == whole \cup
             UNION {{Append(d, s) : s \in Short(statements, n - Len(FlattenSeq(d)))} : d \in whole}
  IN {d \in all : NodesOf(Plain(FlattenSeq(d))) <= MaxNodes}

(* A name is given twice, a table's or a key's within a table, or a date   *)
(* does not exist.                                                         *)
Invalid(d) ==
  LET name(i) == SelectSeq(d[i], LAMBDA tok : tok \notin LineEnds)
      pair(i) == Contains(d[i], "=") /\ d[i][1] # "["
  IN \/ \E i, j \in DOMAIN d :
          /\ i < j
          /\ \/ d[i][1] = "[" /\ d[i][2] # "[" /\ name(i) = name(j)
             \/ /\ pair(i) /\ pair(j)
                /\ \A k \in i .. j : d[k][1] # "["
                /\ \E m \in DOMAIN d[i] \cap DOMAIN d[j] :
                     d[i][m] = "=" /\ SubSeq(d[i], 1, m) = SubSeq(d[j], 1, m)
     \/ \E i \in DOMAIN d : Contains(d[i], BadDate)

StrictRequired == {FlattenSeq(d) : d \in {e \in Documents : ~Invalid(e)}}
StrictForbidden == {FlattenSeq(d) : d \in {e \in Documents : Invalid(e)}}
=============================================================================
