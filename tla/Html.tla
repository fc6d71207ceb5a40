-------------------------------- MODULE Html --------------------------------
(***************************************************************************)
(* nnn-parser/src/html: elements that are closed, void, or hold raw text;  *)
(* `strict` is strict_validate_html.  A tag is a token for its name, one   *)
(* for each attribute and one for its end; "<p" and "<P" differ in case    *)
(* only, "<br" is void, "<script" holds raw text.  "&" is an entity that   *)
(* is not one, "nul" text with a NUL, "note" a comment or document type,   *)
(* "note x x" one in which a tag repeats an attribute, "unclosed" one      *)
(* without an end, "</" an end tag without a name, and "long" an attribute *)
(* with too long a value.                                                  *)
(***************************************************************************)
EXTENDS Parsing

Closing == [o \in {"<p", "<q"} |-> IF o = "<p" THEN {"</p>", "</P>"} ELSE {"</q>"}]
Void == "<br"
Raw == "<script"
EndOfRaw == "</script>"
Opens == DOMAIN Closing \cup {Void, Raw}
Closes == UNION Range(Closing) \cup {EndOfRaw, "</"}
Texts == {"text", "&", "nul"}
InTag == {"x", "long", ">", "/>"}
Notes == {"note", "note x x"}
HtmlTokens == Opens \cup Closes \cup Texts \cup InTag \cup Notes \cup {"unclosed"}

-----------------------------------------------------------------------------
(* strict_validate_html, which goes over the whole text again and takes    *)
(* what raw text and notes hold for tags.                                  *)

RepeatsAttribute(text) ==
  \/ Contains(text, "note x x")
  \/ \E i \in DOMAIN text : /\ i + 2 <= Len(text)
                            /\ text[i] \in Opens /\ text[i + 1] = "x" /\ text[i + 2] = "x"

StrictlyValid(text) == ~Contains(text, "nul") /\ ~RepeatsAttribute(text)

Ends == IF strict /\ ~StrictlyValid(read) THEN Refuse ELSE Accept

-----------------------------------------------------------------------------
(* parse_nodes. *)

Content == mode \in {"content", "text"}

Node(frames, next) == IF nodes = MaxNodes THEN OverLimit ELSE Go(next, frames, nodes + 1)

ParseText(tok) ==
  /\ Content /\ tok \in Texts
  /\ \/ mode = "text" /\ tok # "&" /\ Go("text", stack, nodes)
     \/ mode # "text" /\ (tok # "&" \/ nodes = MaxNodes) /\ Node(stack, "text")
     \/ tok = "&" /\ (mode = "text" \/ nodes < MaxNodes) /\ Refuse

ParseNote(tok) == Content /\ tok \in Notes /\ Node(stack, "content")

ParseOpen(tok) ==
  /\ Content /\ tok \in Opens
  /\ Node(Push([Frame("element") EXCEPT !.made = <<tok>>]), "tag")

ParseUnclosed(tok) == Content /\ tok = "unclosed" /\ (IF nodes = MaxNodes THEN OverLimit ELSE Refuse)

(* parse_attributes, and what the end of the tag starts. *)
ParseTag(tok) ==
  /\ mode = "tag"
  /\ \/ tok = "x" /\ (IF Top.count = MaxItems THEN OverLimit ELSE Go("tag", Counted(stack), nodes))
     \/ tok = "long" /\ OverLimit
     \/ (tok = "/>" \/ (tok = ">" /\ Top.made[1] = Void)) /\ Go("content", Front(stack), nodes)
     \/ tok = ">" /\ Top.made[1] = Raw /\ Go("raw", stack, nodes)
     \/ /\ tok = ">" /\ Top.made[1] \in DOMAIN Closing
        /\ IF Depth > MaxDepth THEN OverLimit ELSE Go("content", stack, nodes)
     \/ tok \notin InTag /\ Refuse

(* skip_raw_text, where an end tag without a name hides the next one.      *)
SkipRaw(tok) ==
  /\ mode \in {"raw", "raw hidden"}
  /\ \/ tok = EndOfRaw /\ mode = "raw" /\ Go("content", Front(stack), nodes)
     \/ tok = EndOfRaw /\ mode = "raw hidden" /\ Go("raw", stack, nodes)
     \/ tok = "</" /\ Go(IF mode = "raw" THEN "raw hidden" ELSE "raw", stack, nodes)
     \/ tok \in {"text", "<p", "x", "&"} /\ Go("raw", stack, nodes)
     \/ tok = End /\ Refuse

(* Mutant of ParseClose: the case of a name matters.                       *)
ParseCloseExact(tok) ==
  /\ Content /\ tok \in Closes /\ stack # <<>>
  /\ IF tok \in Closing[Top.made[1]] \ {"</P>"} THEN Go("content", Front(stack), nodes) ELSE Refuse

(* parse_closing_tag. *)
ParseClose(tok) ==
  /\ Content /\ tok \in Closes /\ stack # <<>>
  /\ IF tok \in Closing[Top.made[1]] THEN Go("content", Front(stack), nodes) ELSE Refuse

(* An end tag where no element is open ends parse_nodes(0): the text is    *)
(* accepted and the rest never parsed, only looked over if `strict`.       *)
StrayClose(tok) ==
  /\ Content /\ tok \in Closes /\ stack = <<>>
  /\ mode' = "rest"
  /\ stack' = <<[Frame("rest") EXCEPT !.count = Len(read)]>>
  /\ verdict' = IF strict THEN "reading" ELSE "accepted"
  /\ UNCHANGED nodes

LookOver(tok) ==
  /\ mode = "rest"
  /\ \/ tok = End /\ Ends
     \/ tok \in {"<p", "x", "nul"} /\ Go(mode, stack, nodes)

ParseEnd(tok) == Content /\ tok = End /\ (IF stack = <<>> THEN Ends ELSE Refuse)

Steps ==
  \E tok \in HtmlTokens \cup {End} :
    /\ Reads(tok)
    /\ \/ ParseText(tok) \/ ParseNote(tok) \/ ParseOpen(tok) \/ ParseUnclosed(tok)
       \/ ParseTag(tok) \/ SkipRaw(tok) \/ ParseClose(tok) \/ StrayClose(tok)
       \/ LookOver(tok) \/ ParseEnd(tok)

-----------------------------------------------------------------------------
(* Elements that nest, within the limits.  Raw text must be taken where no *)
(* end tag without a name is in it; where one is, it may.  What a note     *)
(* holds is left open.                                                     *)

Emptied(text) == [i \in DOMAIN text |-> IF text[i] \in Notes THEN "note" ELSE text[i]]

Tagged(open, attributes) == {<<open>> \o [i \in 1 .. k |-> "x"] : k \in attributes}

PlainRaw(n) == Repeated({<<t>> : t \in {"text", "<p", "x", "&"}}, n)
AnyRaw(n) == Repeated({<<t>> : t \in {"text", "<p", "x", "&", "</"}} \cup {<<"</", EndOfRaw>>}, n)

Elements(inner, attributes, raw, n) ==
  LET whole(open, body) ==
        UNION {Pairs(Pairs(Pairs(Tagged(open, attributes), {<<">">>}, n), body, n), {<<c>>}, n) :
                 c \in IF open = Raw THEN {EndOfRaw} ELSE Closing[open]}
  IN Pairs(Tagged(Void, attributes), {<<">">>}, n)
     \cup UNION {Pairs(Tagged(o, attributes), {<<"/>">>}, n) : o \in Opens}
     \cup UNION {whole(o, inner) : o \in DOMAIN Closing}
     \cup whole(Raw, raw)

Nodes(flat, attributes, raw) ==
  LET n == MaxRead["html"]
      nodes_in[d \in 0 .. MaxDepth + 1] ==
        IF d = 0 THEN {} ELSE LET inner == nodes_in[d - 1]
                              IN {<<f>> : f \in flat} \cup Elements(Repeated(inner, n - 3), attributes, raw, n)
  IN Repeated(nodes_in[MaxDepth + 1], n)

NodesOf(text) ==
  LET raw(i) == \E o \in 1 .. i - 1 :
                  /\ text[o] = Raw
                  /\ \E e \in o + 1 .. i - 1 : text[e] = ">" /\ \A j \in o + 1 .. e - 1 : text[j] = "x"
                  /\ \A j \in o .. i - 1 : text[j] = EndOfRaw => text[j - 1] = "</"
  IN Cardinality({i \in DOMAIN text :
       /\ ~raw(i)
       /\ \/ text[i] \in Opens \cup {"note"}
          \/ text[i] \in Texts /\ (i > 1 => (text[i - 1] \notin Texts \/ raw(i - 1)))})

Limited(texts) == {t \in texts : NodesOf(t) <= MaxNodes}

Flat == {"text", "nul", "note"}
LenientTexts == Limited(Nodes(Flat, 0 .. MaxItems, PlainRaw(MaxRead["html"] - 3)))
AcceptableTexts == Limited(Nodes(Flat, 0 .. MaxItems, AnyRaw(MaxRead["html"] - 3)))

(* No attribute is given twice, and nothing in raw text looks as if.       *)
Strict(raw) ==
  Limited(Nodes(Flat \ {"nul"}, 0 .. 1, {t \in raw : ~RepeatsAttribute(t)}))
StrictTexts == Strict(PlainRaw(MaxRead["html"] - 3))
StrictAcceptable == Strict(AnyRaw(MaxRead["html"] - 3))
=============================================================================
