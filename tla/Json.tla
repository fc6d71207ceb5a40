-------------------------------- MODULE Json --------------------------------
(***************************************************************************)
(* nnn-parser/src/json.  Three grammars: documents, of whole lexemes;      *)
(* numbers; and strings.  `strict` is DuplicateKeyPolicy::Reject.          *)
(***************************************************************************)
EXTENDS Parsing

CONSTANT MaxTracked     (* DUP_TRACK_LIMIT: keys of an object that rejects *)

Keys == {"'a'", "'b'"}              (* strings, as keys and as values      *)
Long == "'long'"                    (* longer than max_string_len          *)
Scalars == Keys \cup {"1"}          (* 1: number, true, false or null      *)
JsonTokens == Scalars \cup {Long, "{", "}", "[", "]", ":", ",", "?"}

NumberTokens == {"-", "0", "7", ".", "e", "+"}

(* "u ..." is \u with a code of its own, or with half a surrogate pair;    *)
(* "ctl" is a control character, "bad" bytes that are not UTF-8.           *)
StringTokens == {"quote", "\\", "n", "u plain", "u high", "u low", "c", "ctl", "bad"}

-----------------------------------------------------------------------------
(* Documents. *)

(* Mutant of Exceeds: a value may lie one deeper.                          *)
ExceedsLate(n) == Depth > MaxDepth + 1 \/ n > MaxNodes

Exceeds(n) == Depth > MaxDepth \/ n > MaxNodes

(* Mutant of ValueRead: the limit is noticed one value late.               *)
ValueReadLate(frames, n) ==
  IF frames = <<>> THEN Go("end", frames, n)
  ELSE IF frames[Len(frames)].count > MaxItems THEN OverLimit
  ELSE Go("more", Counted(frames), n)

(* A value has been read inside `frames`: the container counts it.         *)
ValueRead(frames, n) ==
  IF frames = <<>> THEN Go("end", frames, n)
  ELSE IF frames[Len(frames)].count = MaxItems THEN OverLimit
  ELSE Go("more", Counted(frames), n)

ParseValue(tok) ==
  LET n == nodes + 1
  IN /\ mode = "value" \/ (mode = "first_item" /\ tok # "]")
     /\ \/ (Exceeds(n) \/ tok = Long) /\ OverLimit
        \/ ~Exceeds(n) /\ tok = "{" /\ Go("first_key", Push(Frame("object")), n)
        \/ ~Exceeds(n) /\ tok = "[" /\ Go("first_item", Push(Frame("array")), n)
        \/ ~Exceeds(n) /\ tok \in Scalars /\ ValueRead(stack, n)
        \/ ~Exceeds(n) /\ tok \notin Scalars \cup {Long, "{", "["} /\ Refuse

ParseEmpty(tok) ==
  /\ \/ mode = "first_item" /\ tok = "]"
     \/ mode = "first_key" /\ tok = "}"
  /\ ValueRead(Front(stack), nodes)

Duplicate(key) == strict /\ key \in Top.names

ParseKey(tok) ==
  /\ mode = "key" \/ (mode = "first_key" /\ tok # "}")
  /\ IF tok = Long THEN OverLimit
     ELSE IF tok \notin Keys \/ Duplicate(tok) THEN Refuse
     ELSE IF strict /\ Cardinality(Top.names) >= MaxTracked THEN OverLimit
     ELSE Go("colon", [stack EXCEPT ![Depth].names = @ \cup {tok}], nodes)

ParseColon(tok) ==
  /\ mode = "colon"
  /\ IF tok = ":" THEN Go("value", stack, nodes) ELSE Refuse

ParseMore(tok) ==
  LET object == Top.kind = "object"
      close == IF object THEN "}" ELSE "]"
  IN /\ mode = "more"
     /\ \/ tok = "," /\ Go(IF object THEN "key" ELSE "value", stack, nodes)
        \/ tok = close /\ ValueRead(Front(stack), nodes)
        \/ tok \notin {",", close} /\ Refuse

ParseEnd(tok) ==
  /\ mode = "end"
  /\ IF tok = End THEN Accept ELSE Refuse

Document ==
  \E tok \in JsonTokens \cup {End} :
    /\ Reads(tok)
    /\ \/ ParseValue(tok) \/ ParseEmpty(tok) \/ ParseKey(tok)
       \/ ParseColon(tok) \/ ParseMore(tok) \/ ParseEnd(tok)

-----------------------------------------------------------------------------
(* parse_number and parse_string: what may follow in each of their modes.  *)

NumberNext(m, tok) ==
  CASE m = "number" /\ tok = "-" -> "first"
    [] m \in {"number", "first"} /\ tok = "0" -> "whole"
    [] m \in {"number", "first", "int"} /\ tok = "7" -> "int"
    [] m = "int" /\ tok = "0" -> "int"
    [] m \in {"whole", "int"} /\ tok = "." -> "point"
    [] m \in {"point", "frac"} /\ tok \in {"0", "7"} -> "frac"
    [] m \in {"whole", "int", "frac"} /\ tok = "e" -> "exp"
    [] m = "exp" /\ tok \in {"+", "-"} -> "signed"
    [] m \in {"exp", "signed", "power"} /\ tok \in {"0", "7"} -> "power"
    [] m \in {"whole", "int", "frac", "power"} /\ tok = End -> "done"
    [] OTHER -> "error"

(* Bytes that are not UTF-8 are noticed where their segment ends.          *)
StringNext(m, tok) ==
  CASE m = "string" /\ tok = "quote" -> "chars"
    [] m \in {"chars", "garbled"} /\ tok \in {"n", "u plain", "u high", "u low", "c"} -> m
    [] m \in {"chars", "garbled"} /\ tok = "bad" -> "garbled"
    [] m = "chars" /\ tok = "\\" -> "escape"
    [] m = "escape" /\ tok \in {"quote", "\\", "n", "u plain"} -> "chars"
    [] m = "escape" /\ tok = "u high" -> "pair"
    [] m = "pair" /\ tok = "\\" -> "half"
    [] m = "half" /\ tok = "u low" -> "chars"
    [] m = "chars" /\ tok = "quote" -> "closed"
    [] m = "closed" /\ tok = End -> "done"
    [] OTHER -> "error"

Lexes(next) ==
  \/ next = "done" /\ Accept
  \/ next = "error" /\ Refuse
  \/ next \notin {"done", "error"} /\ Go(next, stack, nodes)

Steps ==
  \/ format = "json" /\ Document
  \/ format = "json number" /\ \E tok \in NumberTokens \cup {End} : Reads(tok) /\ Lexes(NumberNext(mode, tok))
  \/ format = "json string" /\ \E tok \in StringTokens \cup {End} : Reads(tok) /\ Lexes(StringNext(mode, tok))

-----------------------------------------------------------------------------
(* The grammar (RFC 8259), within the limits. *)

(* Values nested in at most MaxDepth containers; with `unique` keys.       *)
Values(unique) ==
  LET n == MaxRead["json"]
      flat == {<<s>> : s \in Scalars} \cup {<<"[", "]">>, <<"{", "}">>}
      members(vals) == Pairs({<<k, ":">> : k \in Keys}, vals, n - 2)
      value[d \in 0 .. MaxDepth] ==
        IF d = 0 THEN flat
        ELSE LET inner == Short(value[d - 1], n - 2)
             IN flat
                \cup Short({<<"[">> \o Text(l, <<",">>) \o <<"]">> : l \in Lists(inner, MaxItems, n - 2)}, n)
                \cup Short({<<"{">> \o Text(l, <<",">>) \o <<"}">> :
                              l \in {m \in Lists(members(inner), MaxItems, n - 2) : unique => Distinct(m)}}, n)
  IN value[MaxDepth]

NodesOf(text) ==
  Cardinality({i \in DOMAIN text :
                 /\ text[i] \in Scalars \cup {"{", "["}
                 /\ i < Len(text) => text[i + 1] # ":"})

LenientTexts == {v \in Values(FALSE) : NodesOf(v) <= MaxNodes}
StrictTexts == {v \in Values(TRUE) : NodesOf(v) <= MaxNodes}

NumberTexts ==
  LET n == MaxRead["json number"]
      digits == BoundedSeq({"0", "7"}, n) \ {<<>>}
      sign == {<<>>, <<"-">>}
      int == {<<"0">>} \cup {d \in digits : d[1] = "7"}
      frac == {<<>>} \cup Pairs({<<".">>}, digits, n)
      exp == {<<>>} \cup Pairs({<<"e">>, <<"e", "+">>, <<"e", "-">>}, digits, n)
  IN Pairs(Pairs(Pairs(sign, int, n), frac, n), exp, n)

StringTexts ==
  LET n == MaxRead["json string"]
      escaped == {<<"quote">>, <<"\\">>, <<"n">>, <<"u plain">>, <<"u high", "\\", "u low">>}
      char == {<<c>> : c \in {"c", "n", "u plain", "u high", "u low"}}
              \cup Pairs({<<"\\">>}, escaped, n)
      chars[k \in 0 .. n - 2] ==
        IF k = 0 THEN {<<>>} ELSE LET t == chars[k - 1] IN t \cup Pairs(char, t, n - 2)
  IN Pairs(Pairs({<<"quote">>}, chars[n - 2], n), {<<"quote">>}, n)
=============================================================================
