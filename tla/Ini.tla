-------------------------------- MODULE Ini --------------------------------
(***************************************************************************)
(* nnn-parser/src/ini: sections and entries, a line at a time; `strict` is *)
(* strict_validate_ini.  "ws" is white space within a line, and "#" either *)
(* mark of a comment.  Two grammars: documents, of whole lines, and lines, *)
(* of bytes.                                                               *)
(*                                                                         *)
(* Three frames: the document counts sections and makes the list of what   *)
(* was read, the section counts keys, and the line makes up the line.      *)
(***************************************************************************)
EXTENDS Parsing

IniBytes == {"[", "]", "=", "#", "k", "ws", "bad"}     (* bad: not UTF-8   *)

IniLines ==
  [blank   |-> <<"ws">>,                 comment |-> <<"ws", "#", "[">>,
   k       |-> <<"[", "ws", "k", "]">>,  kk      |-> <<"[", "k", "k", "]", "k">>,
   entry   |-> <<"k", "=", "k">>,        other   |-> <<"k", "k", "ws", "=">>,
   garbage |-> <<"k">>]

Document == <<Frame("document"), Frame("section"), Frame("line")>>

First(line, byte) == SelectInSeq(line, LAMBDA b : b = byte)
Before(line, i) == SubSeq(line, 1, i - 1)
After(line, i) == SubSeq(line, i + 1, Len(line))

(* str::trim: from the first to the last byte that is no white space.      *)
Trimmed(text) ==
  LET first == SelectInSeq(text, LAMBDA b : b # "ws")
      last == SelectLastInSeq(text, LAMBDA b : b # "ws")
  IN IF first = 0 THEN <<>> ELSE SubSeq(text, first, last)

(* Two sections of one name, or two keys in a section, are looked for once *)
(* all is parsed; here they are refused at once.                           *)
Repeats(frame, name) == strict /\ name \in frame.names

(* What a line makes of the document and the section it is in, or why not. *)
Failure(why) == [why |-> why, doc |-> stack[1], section |-> stack[2]]
Success(item, doc, section) ==
  [why |-> "reading", doc |-> [doc EXCEPT !.made = @ \o item], section |-> section]

Named(frame, name) == [frame EXCEPT !.count = @ + 1, !.names = @ \cup {name}]

(* Whatever follows the first bracket is ignored.                          *)
Section(line) ==
  LET name == Trimmed(SubSeq(line, 2, First(line, "]") - 1))
  IN IF First(line, "]") = 0 \/ name = <<>> \/ Repeats(stack[1], name) THEN Failure("refused")
     ELSE IF stack[1].count = MaxItems THEN Failure("over_limit")
     ELSE Success(<<<<name>>>>, Named(stack[1], name), Frame("section"))

(* Mutant of Separator: the last one in the line.                          *)
SeparatorLast(line) == SelectLastInSeq(line, LAMBDA b : b = "=")

Separator(line) == First(line, "=")

Entry(line) ==
  LET at == Separator(line)
      key == Trimmed(Before(line, at))
      value == Trimmed(After(line, at))
  IN IF at = 0 \/ key = <<>> \/ Repeats(stack[2], key) THEN Failure("refused")
     ELSE IF Len(key) > MaxLength \/ Len(value) > MaxLength \/ stack[2].count = MaxItems
       THEN Failure("over_limit")
     ELSE Success(<<<<key, value>>>>, stack[1], Named(stack[2], key))

(* next_line, which skips empty lines and comments, and what parse does.   *)
Line(line) ==
  LET content == Trimmed(line)
  IN IF First(line, "bad") # 0 THEN Failure("refused")
     ELSE IF content = <<>> \/ content[1] = "#" THEN Success(<<>>, stack[1], stack[2])
     ELSE IF content[1] = "[" THEN Section(content)
     ELSE Entry(content)

Becomes(means, last) ==
  /\ stack' = <<means.doc, means.section, stack[3]>>
  /\ verdict' = IF last /\ means.why = "reading" THEN "accepted" ELSE means.why
  /\ UNCHANGED <<mode, nodes>>

Steps ==
  \/ format = "ini" /\ Reads(End) /\ Accept
  \/ format = "ini" /\ \E tok \in DOMAIN IniLines : Reads(tok) /\ Becomes(Line(IniLines[tok]), FALSE)
  \/ format = "ini line" /\ Reads(End) /\ Becomes(Line(stack[3].made), TRUE)
  \/ /\ format = "ini line"
     /\ \E tok \in IniBytes :
          Reads(tok) /\ Go(mode, [stack EXCEPT ![3].made = Append(@, tok)], nodes)

-----------------------------------------------------------------------------
(* The grammar, and write_ini. *)

LineTexts ==
  LET n == MaxRead["ini line"]
      spaces == BoundedSeq({"ws"}, n)
      any == BoundedSeq(IniBytes \ {"bad"}, n)
      within == {t \in BoundedSeq(IniBytes \ {"bad", "]"}, n) : \E i \in DOMAIN t : t[i] # "ws"}
      plain(t) == t # <<>> => t[1] # "ws" /\ Last(t) # "ws"
      key == {k \in BoundedSeq(IniBytes \ {"bad", "="}, MaxLength) \ {<<>>} :
                plain(k) /\ k[1] \notin {"[", "#"}}
      value == {v \in Short(any, MaxLength) : plain(v)}
      spaced(texts) == Pairs(Pairs(spaces, texts, n), spaces, n)
  IN spaced({<<>>} \cup Pairs({<<"#">>}, any, n)
            \cup Pairs(Pairs({<<"[">>}, within, n), Pairs({<<"]">>}, any, n), n)
            \cup Pairs(Pairs(key, spaced({<<"=">>}), n), value, n))

(* Lines but the garbage, whose sections and keys are within the limits.   *)
DocumentTexts(unique) ==
  LET sections(d) == {i \in DOMAIN d : d[i] \in {"k", "kk"}}
      keys(d, i) == {j \in i + 1 .. Len(d) : /\ d[j] \in {"entry", "other"}
                                             /\ sections(d) \cap (i + 1 .. j) = {}}
      bounded(S, d) == /\ Cardinality(S) <= MaxItems
                       /\ unique => \A i, j \in S : d[i] = d[j] => i = j
  IN {d \in BoundedSeq(DOMAIN IniLines \ {"garbage"}, MaxRead["ini"]) :
        /\ bounded(sections(d), d)
        /\ \A i \in sections(d) \cup {0} : bounded(keys(d, i), d)}

(* Items that can be told from the rest of a line, which write_ini does    *)
(* not see to: nothing begins or ends with white space, and no name looks  *)
(* like a comment.  A value may have all of it in it, a "#" anywhere.      *)
Items ==
  LET plain(t) == t # <<>> => t[1] # "ws" /\ Last(t) # "ws"
      words == {w \in BoundedSeq({"k", "#", "ws"}, MaxLength) \ {<<>>} : plain(w)}
      values == {v \in BoundedSeq({"k", "#", "ws", "="}, MaxLength) : plain(v)}
  IN {<<w>> : w \in words} \cup {<<k, v>> : k \in {w \in words : w[1] # "#"}, v \in values}

Write(item) ==
  IF Len(item) = 1 THEN <<"[">> \o item[1] \o <<"]">>
  ELSE item[1] \o <<"ws", "=", "ws">> \o item[2]
=============================================================================
