-------------------------------- MODULE Xml --------------------------------
(***************************************************************************)
(* nnn-parser/src/xml: elements, attributes and what lies between them;    *)
(* `strict` is strict_validate_xml.  A tag is a token for its name, one    *)
(* for each attribute and one for its end.  A frame is an open element,    *)
(* whose name is in `made`.                                                *)
(*                                                                         *)
(* "&" is text with an entity that is not closed.  "note" is a comment or  *)
(* a CDATA section, "note--" a comment with two dashes in it, "note x x" a *)
(* note in which a tag repeats an attribute, "note &" a comment with an    *)
(* entity that is not closed, after a ">", "long note" too long a CDATA    *)
(* section, and "unclosed" a note without an end.  "<?xml?>" is a          *)
(* declaration without a version, "<?!>" any other instruction or the      *)
(* document type, "<?" one of them without an end, and "<!x>" what else    *)
(* starts with "<!".  "<!" is that without an end, and "<" the last byte   *)
(* of the text.  "long" is an attribute with too long a value.             *)
(***************************************************************************)
EXTENDS Parsing

Opens == {"<a", "<b"}
Closes == {"</a>", "</b>"}
Notes == {"note", "note--", "note x x", "note &"}
Skipped == {"<?xml?>", "<?!>", "<!x>"}
Texts == {"text", "&"}
InTag == {"x", "long", ">", "/>"}
Cut == {"<", "<!"}
XmlTokens ==
  Opens \cup Closes \cup Notes \cup Skipped \cup Texts \cup InTag \cup Cut \cup {"long note", "unclosed", "<?"}

CloseOf(open) == IF open = "<a" THEN "</a>" ELSE "</b>"

-----------------------------------------------------------------------------
(* strict_validate_xml, which goes over the whole text again. *)

Starts(state, tok) == tok = "<!x>" \/ (tok \in Opens /\ ~state.tag)

(* check_single_xml_root, which counts elements without their names, and   *)
(* takes "<!x>" for one.                                                   *)
RootSeen(state, tok) ==
  [depth |-> CASE Starts(state, tok) -> state.depth + 1
               [] tok \in Closes \/ (tok = "/>" /\ state.tag) ->
                    IF state.depth = 0 THEN 0 ELSE state.depth - 1
               [] OTHER -> state.depth,
   roots |-> state.roots + (IF Starts(state, tok) /\ state.depth = 0 THEN 1 ELSE 0),
   tag   |-> tok \in Opens \/ (state.tag /\ tok \notin {">", "/>"}),
   stray |-> state.stray \/ (tok \in Texts /\ ~state.tag /\ state.depth = 0)]

SingleRoot(text) ==
  LET seen == FoldLeft(RootSeen, [depth |-> 0, roots |-> 0, tag |-> FALSE, stray |-> FALSE], text)
  IN seen.roots = 1 /\ seen.depth = 0 /\ ~seen.stray

(* has_duplicate_xml_attrs, which looks for tags in notes, too.            *)
RepeatsAttribute(text) ==
  \/ Contains(text, "note x x")
  \/ \E i \in DOMAIN text, k \in DOMAIN text :
       /\ text[i] \in Opens /\ k > i + 1
       /\ \A j \in i + 1 .. k : text[j] = "x"

StrictlyValid(text) ==
  /\ text # <<>> => text[1] # "<?xml?>"
  /\ \A i \in DOMAIN text : text[i] \notin {"note--", "note &", "&"} \cup Cut
  /\ SingleRoot(text)
  /\ ~RepeatsAttribute(text)

Ends == IF strict /\ ~StrictlyValid(read) THEN Refuse ELSE Accept

-----------------------------------------------------------------------------
(* parse_nodes. *)

Content == mode \in {"content", "text"}

Node(frames, next) == IF nodes = MaxNodes THEN OverLimit ELSE Go(next, frames, nodes + 1)

ParseText(tok) ==
  /\ Content /\ tok \in Texts
  /\ IF mode = "text" THEN Go("text", stack, nodes) ELSE Node(stack, "text")

ParseNote(tok) ==
  /\ Content
  /\ \/ tok \in Notes /\ Node(stack, "content")
     \/ tok = "long note" /\ OverLimit
     \/ tok = "unclosed" /\ (IF nodes = MaxNodes THEN OverLimit ELSE Refuse)

SkipInstruction(tok) ==
  /\ Content
  /\ \/ tok \in Skipped /\ Go("content", stack, nodes)
     \/ tok = "<?" /\ Refuse

ParseOpen(tok) ==
  /\ Content /\ tok \in Opens
  /\ IF Depth >= MaxDepth THEN OverLimit
     ELSE Node(Push([Frame("element") EXCEPT !.made = <<tok>>]), "tag")

(* parse_element, after its children. *)
ParseClose(tok) ==
  /\ Content /\ tok \in Closes /\ stack # <<>>
  /\ IF tok = CloseOf(Top.made[1]) THEN Go("content", Front(stack), nodes) ELSE Refuse

(* Where no element is open an end tag and a last "<" end parse_nodes(0),  *)
(* and "<!" is skipped to the end of the text: it is accepted and the rest *)
(* never parsed, only looked over if `strict`.                             *)
StrayClose(tok) ==
  /\ Content /\ tok \in Closes \cup Cut /\ stack = <<>>
  /\ mode' = "rest"
  /\ stack' = <<[Frame("rest") EXCEPT !.count = Len(read)]>>
  /\ verdict' = IF strict THEN "reading" ELSE "accepted"
  /\ UNCHANGED nodes

ParseEnd(tok) ==
  \/ Content /\ tok = End /\ stack # <<>> /\ Refuse
  \/ Content /\ tok = End /\ stack = <<>> /\ Ends
  \/ Content /\ tok \in Cut /\ stack # <<>> /\ Refuse

LookOver(tok) ==
  /\ mode = "rest"
  /\ \/ tok = End /\ Ends
     \/ tok \in {"<a", "/>", "text"} /\ Last(read) \notin Cut /\ Go(mode, stack, nodes)

(* parse_attributes, and the end of the tag. *)
ParseTag(tok) ==
  /\ mode = "tag"
  /\ \/ tok = "x" /\ (IF Top.count = MaxItems THEN OverLimit ELSE Go("tag", Counted(stack), nodes))
     \/ tok = "long" /\ OverLimit
     \/ tok = ">" /\ Go("content", stack, nodes)
     \/ tok = "/>" /\ Go("content", Front(stack), nodes)
     \/ tok \notin InTag /\ Refuse

Steps ==
  \E tok \in XmlTokens \cup {End} :
    /\ Reads(tok)
    /\ \/ ParseText(tok) \/ ParseNote(tok) \/ SkipInstruction(tok) \/ ParseOpen(tok)
       \/ ParseClose(tok) \/ StrayClose(tok) \/ ParseEnd(tok) \/ LookOver(tok) \/ ParseTag(tok)

-----------------------------------------------------------------------------
(* Well-formed texts, within the limits; with any number of roots, or one. *)
(* They do not tell what a note holds.                                     *)

Emptied(text) ==
  [i \in DOMAIN text |-> IF text[i] \in {"note x x", "note &"} THEN "note" ELSE text[i]]

Elements(inner, attributes, n) ==
  LET open(name) == Pairs({<<name>>}, {[i \in 1 .. k |-> "x"] : k \in attributes}, n)
  IN UNION {Pairs(open(a), {<<"/>">>}, n)
            \cup Pairs(Pairs(Pairs(open(a), {<<">">>}, n), inner, n), {<<CloseOf(a)>>}, n) : a \in Opens}

Nodes(flat, attributes, d) ==
  LET n == MaxRead["xml"]
      leaves == {<<f>> : f \in flat}
      elements[e \in 0 .. d] ==
        IF e = 0 THEN {} ELSE Elements(Repeated(leaves \cup elements[e - 1], n - 3), attributes, n)
  IN elements[d]

NodesOf(text) ==
  Cardinality({i \in DOMAIN text :
                 \/ text[i] \in Opens \cup Notes
                 \/ text[i] \in Texts /\ (i > 1 => text[i - 1] \notin Texts)})

Limited(texts) == {t \in texts : NodesOf(t) <= MaxNodes}

LenientTexts ==
  LET flat == Texts \cup {"note", "note--"} \cup Skipped
  IN Limited(Repeated({<<f>> : f \in flat} \cup Nodes(flat, 0 .. MaxItems, MaxDepth), MaxRead["xml"]))

StrictTexts ==
  LET n == MaxRead["xml"]
      flat == {"note", "<?xml?>", "<?!>"}
      misc == Repeated({<<f>> : f \in flat}, n)
      roots == Nodes(flat \cup (Texts \ {"&"}), 0 .. 1, MaxDepth)
  IN Limited({t \in Pairs(Pairs(misc, roots, n), misc, n) : t[1] # "<?xml?>"})
=============================================================================
