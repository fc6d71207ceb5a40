-------------------------------- MODULE Csv --------------------------------
(***************************************************************************)
(* nnn-parser/src/csv: rows of fields, byte by byte.  Three frames: the    *)
(* table counts rows, the row fields and the field bytes.                  *)
(***************************************************************************)
EXTENDS Parsing

CsvBytes == {"quote", ",", "lf", "cr", "c", "bad"}     (* bad: not UTF-8   *)
Delimiters == {",", "lf", "cr", End}

Table == <<Frame("table"), Frame("row"), Frame("field")>>

(* One more byte in the field. *)
Held(frames, byte) ==
  [frames EXCEPT ![3].count = @ + 1,
                 ![3].names = IF byte = "bad" THEN {"bad"} ELSE @]

(* A delimiter ends the field and perhaps the row or the text.             *)
FieldEnds(tok, frames, n) ==
  LET row == [frames EXCEPT ![2].count = @ + 1, ![3] = Frame("field")]
  IN IF frames[3].count > MaxLength THEN OverLimit
     ELSE IF frames[3].names # {} THEN Refuse
     ELSE IF frames[2].count = MaxItems THEN OverLimit
     ELSE IF tok = End THEN Accept
     ELSE Go(IF tok = "," THEN "field" ELSE tok,
             IF tok = "," THEN row ELSE [row EXCEPT ![2] = Frame("row")], n)

FieldByte(tok, frames, n) ==
  \/ tok \in Delimiters /\ FieldEnds(tok, frames, n)
  \/ tok \in {"c", "bad"} /\ Go("unquoted", Held(frames, tok), n)

(* parse_field, where a field may begin. *)
FieldStarts(tok, frames) ==
  LET n == nodes + 1
  IN IF n > MaxNodes THEN OverLimit
     ELSE IF tok = "quote" THEN Go("quoted", frames, n)
     ELSE FieldByte(tok, frames, n)

ParseField(tok) == mode = "field" /\ FieldStarts(tok, stack)

(* parse_row: at the start, or after a line end; a line feed goes with a   *)
(* carriage return before it.                                              *)
ParseRow(tok) ==
  /\ mode \in {"lf", "cr"}
  /\ IF mode = "cr" /\ tok = "lf" THEN Go("lf", stack, nodes)
     ELSE IF tok = End THEN Accept
     ELSE IF stack[1].count = MaxItems THEN OverLimit
     ELSE FieldStarts(tok, [stack EXCEPT ![1].count = @ + 1])

ParseUnquoted(tok) ==
  /\ mode = "unquoted"
  /\ IF tok = "quote" THEN Refuse ELSE FieldByte(tok, stack, nodes)

ParseQuoted(tok) ==
  /\ mode = "quoted"
  /\ IF tok = End THEN Refuse
     ELSE IF tok = "quote" THEN Go("quote", stack, nodes)
     ELSE Go("quoted", Held(stack, tok), nodes)

(* A second quote stands for one, and counts as two bytes.                 *)
ParseQuote(tok) ==
  /\ mode = "quote"
  /\ \/ tok = "quote" /\ Go("quoted", Held(Held(stack, tok), tok), nodes)
     \/ tok \in Delimiters /\ FieldEnds(tok, stack, nodes)
     \/ tok \in {"c", "bad"} /\ (IF stack[3].count > MaxLength THEN OverLimit ELSE Refuse)

Steps ==
  \E tok \in CsvBytes \cup {End} :
    /\ Reads(tok)
    /\ \/ ParseRow(tok) \/ ParseField(tok) \/ ParseUnquoted(tok)
       \/ ParseQuoted(tok) \/ ParseQuote(tok)

-----------------------------------------------------------------------------
(* RFC 4180, within the limits; a line may also end in lf or in cr alone,  *)
(* and rows may differ in length.                                          *)

Fields ==
  LET quoted == {<<>>} \cup {Text(l, <<>>) : l \in
                   Lists({<<"c">>, <<",">>, <<"lf">>, <<"cr">>, <<"quote", "quote">>},
                         MaxLength, MaxLength)}
  IN BoundedSeq({"c"}, MaxLength)
     \cup {<<"quote">> \o q \o <<"quote">> : q \in quoted}

(* Tables of k rows, each of them ended, as pairs of a text and its fields. *)
CsvTexts ==
  LET n == MaxRead["csv"]
      rows == {[text |-> Text(l, <<",">>), fields |-> Len(l)] : l \in Lists(Fields, MaxItems, n)}
      follow(A, ends) ==
        {[text |-> t[1].text \o t[2].text \o t[3], fields |-> t[1].fields + t[2].fields] :
           t \in {u \in A \X rows \X ends :
                    /\ Len(u[1].text) + Len(u[2].text) + Len(u[3]) <= n
                    /\ u[1].fields + u[2].fields <= MaxNodes}}
      ended[k \in 0 .. MaxItems] ==
        IF k = 0 THEN {[text |-> <<>>, fields |-> 0]}
        ELSE LET t == ended[k - 1] IN t \cup follow(t, {<<"lf">>, <<"cr">>, <<"cr", "lf">>})
  IN {t.text : t \in ended[MaxItems] \cup follow(ended[MaxItems - 1], {<<>>})}
=============================================================================
