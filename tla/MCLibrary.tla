---------------------------- MODULE MCLibrary ----------------------------
(***************************************************************************)
(* The sequential parts of the library, for TLC: a behaviour is about one  *)
(* of them, and the others stay as they are.  Those are the parsers of     *)
(* nnn-parser, which read one text chosen token by token, the arithmetic   *)
(* of SoftFloat, matrices, buffers, views and signals.                     *)
(***************************************************************************)
EXTENDS Parsing, FloatProperties, MatrixProperties, Buffers, Views, Signals

CONSTANTS
  Subjects,              (* the parts that behaviours are about            *)
  MaxTracked, MaxText    (* bounds of the grammars                         *)

VARIABLE about           (* the part that this behaviour is about          *)

J == INSTANCE Json
C == INSTANCE Csv
T == INSTANCE Txt
I == INSTANCE Ini
O == INSTANCE Toml
X == INSTANCE Xml
H == INSTANCE Html
Y == INSTANCE Yaml

Formats ==
  {"json", "json number", "json string", "csv", "txt", "ini", "ini line", "toml", "xml", "html", "yaml"}

(* Enough tokens to open one construct more than MaxDepth, or to put one   *)
(* thing more than MaxItems in one, and to close it.                       *)
MCMaxRead ==
  [f \in Formats |->
     CASE f = "json" -> 8
       [] f \in {"json number", "csv", "txt", "toml"} -> 7
       [] f \in {"json string", "ini line"} -> 6
       [] f \in {"ini", "xml", "html"} -> 5
       [] f = "yaml" -> 4]

HasStrict == {"json", "ini", "toml", "xml", "html", "yaml"}

Starts ==
  [f \in Formats |->
     CASE f = "csv" -> <<"lf", C!Table>>
       [] f \in {"ini", "ini line"} -> <<"lines", I!Document>>
       [] f = "json" -> <<"value", <<>>>>
       [] f = "json number" -> <<"number", <<>>>>
       [] f = "json string" -> <<"string", <<>>>>
       [] f = "txt" -> <<"text", <<>>>>
       [] f = "toml" -> <<"document", <<>>>>
       [] f \in {"xml", "html"} -> <<"content", <<>>>>
       [] f = "yaml" -> <<"line", <<>>>>]

TextInit ==
  /\ format \in Formats
  /\ strict \in (IF format \in HasStrict THEN BOOLEAN ELSE {FALSE})
  /\ read = <<>> /\ nodes = 0 /\ verdict = "reading"
  /\ mode = Starts[format][1] /\ stack = Starts[format][2]

TextNext ==
  \/ format \in {"json", "json number", "json string"} /\ J!Steps
  \/ format = "csv" /\ C!Steps
  \/ format = "txt" /\ T!Steps
  \/ format \in {"ini", "ini line"} /\ I!Steps
  \/ format = "toml" /\ O!Steps
  \/ format = "xml" /\ X!Steps
  \/ format = "html" /\ H!Steps
  \/ format = "yaml" /\ Y!Steps

-----------------------------------------------------------------------------
(* The texts of each grammar, and what has been read of one of them.  Each *)
(* has a name here, so that TLC builds it once.                            *)

JsonLenient == J!LenientTexts
JsonStrict == J!StrictTexts
JsonNumber == J!NumberTexts
JsonString == J!StringTexts
CsvTexts == C!CsvTexts
TxtTexts == T!TxtTexts
IniLenient == I!DocumentTexts(FALSE)
IniStrict == I!DocumentTexts(TRUE)
IniLine == I!LineTexts
TomlLenient == O!LenientTexts
TomlRequired == O!StrictRequired
TomlForbidden == O!StrictForbidden
XmlLenient == X!LenientTexts
XmlStrict == X!StrictTexts
HtmlLenient == H!LenientTexts
HtmlAcceptable == H!AcceptableTexts
HtmlStrict == H!StrictAcceptable
YamlTexts == Y!DocumentTexts

InJsonLenient == Beginnings(JsonLenient)
InJsonStrict == Beginnings(JsonStrict)
InJsonNumber == Beginnings(JsonNumber)
InJsonString == Beginnings(JsonString)
InCsv == Beginnings(CsvTexts)
InTxt == Beginnings(TxtTexts)
InIniLenient == Beginnings(IniLenient)
InIniStrict == Beginnings(IniStrict)
InIniLine == Beginnings(IniLine)
InTomlLenient == Beginnings(TomlLenient)
InTomlRequired == Beginnings(TomlRequired)
InXmlLenient == Beginnings(XmlLenient)
InXmlStrict == Beginnings(XmlStrict)
InHtmlLenient == Beginnings(HtmlLenient)
InHtmlStrict == Beginnings(H!StrictTexts)
InYaml == Beginnings(YamlTexts \cup {Append(t, "blank") : t \in YamlTexts})

(* Of an end tag too many on, a text was only looked over by the strict    *)
(* checks; of a YAML document on, by none.                                 *)
Language ==
  CASE format = "json" -> IF strict THEN JsonStrict ELSE JsonLenient
    [] format = "json number" -> JsonNumber
    [] format = "json string" -> JsonString
    [] format = "csv" -> CsvTexts
    [] format = "txt" -> TxtTexts
    [] format = "ini" -> IF strict THEN IniStrict ELSE IniLenient
    [] format = "ini line" -> IniLine
    [] format = "toml" -> TomlLenient
    [] format = "xml" -> IF strict /\ mode # "rest" THEN XmlStrict ELSE XmlLenient
    [] format = "html" -> IF strict /\ mode # "rest" THEN HtmlStrict ELSE HtmlAcceptable
    [] format = "yaml" -> YamlTexts

Viable ==
  CASE format = "json" -> IF strict THEN InJsonStrict ELSE InJsonLenient
    [] format = "json number" -> InJsonNumber
    [] format = "json string" -> InJsonString
    [] format = "csv" -> InCsv
    [] format = "txt" -> InTxt
    [] format = "ini" -> IF strict THEN InIniStrict ELSE InIniLenient
    [] format = "ini line" -> InIniLine
    [] format = "toml" -> IF strict THEN InTomlRequired ELSE InTomlLenient
    [] format = "xml" -> IF strict THEN InXmlStrict ELSE InXmlLenient
    [] format = "html" -> IF strict THEN InHtmlStrict ELSE InHtmlLenient
    [] format = "yaml" -> InYaml

(* The text without its end, or the part of it that was parsed. *)
Parsed ==
  LET text == IF mode = "rest" THEN SubSeq(read, 1, stack[1].count) ELSE Front(read)
  IN CASE format = "yaml" -> Y!Significant(text)
       [] format = "toml" -> O!Plain(text)
       [] format = "xml" -> X!Emptied(text)
       [] format = "html" -> H!Emptied(text)
       [] OTHER -> text

(* What the strict checks of TOML are for. *)
Forbidden == format = "toml" /\ strict /\ Front(read) \in TomlForbidden

(* Comments and the like are told apart by strict checks only. *)
Seen ==
  CASE format = "toml" /\ ~strict -> O!Plain(read)
    [] format = "xml" /\ ~strict -> X!Emptied(read)
    [] format = "html" /\ ~strict -> H!Emptied(read)
    [] OTHER -> read

-----------------------------------------------------------------------------
(* What numbers, matrices and the rest are made of. *)

(* Of the narrow formats the words around zero, one and the largest, of    *)
(* the others those around every boundary between binades that matters.    *)
Magnitudes ==
  [d \in {"E4M3", "E5M2", "F16", "BF16", "TF32"} |->
     LET F == Layout[d]
         first == 2^F.fraction_bits
     IN CASE d = "E4M3" -> (0 .. 12) \cup (52 .. 68) \cup (112 .. 127)
          [] d = "E5M2" -> (0 .. 8) \cup (30 .. 34) \cup (56 .. 64) \cup (116 .. 125)
          [] OTHER -> (0 .. 2) \cup (first - 1 .. first + 1) \cup {2 * first - 1, 2 * first}
                      \cup (F.max_finite - 1 .. F.max_finite + 1)
                      \cup {F.bias * first + k : k \in {0, 1, first - 1}}]

PartnerMagnitudes(F) ==
  {0, 1, 2^F.fraction_bits, Infinity(F), NanWord(F), F.max_finite}
  \cup {Word(FALSE, F.bias + e, f, F) : e \in -2 .. 2, f \in {0, 2^(F.fraction_bits - 1), 2^F.fraction_bits - 1}}

BothSigns(magnitudes, F) == magnitudes \cup {m + SignMask(F) : m \in magnitudes}
AllPartners == [d \in DOMAIN Layout |-> BothSigns(PartnerMagnitudes(Layout[d]), Layout[d])]
AllOperands == [d \in DOMAIN Layout |-> BothSigns(Magnitudes[d], Layout[d]) \cup AllPartners[d]]
MCPartners(d) == AllPartners[d]
MCOperands(d) == AllOperands[d]

(* The F32s whose significand is shifted by so many bits when it is        *)
(* narrowed, at either end of their binade and in its middle.              *)
ShiftedBy(layout, shifts) ==
  {field * 2^23 + f : field \in {151 - layout.bias - layout.fraction_bits - s : s \in shifts} \cap 1 .. 254,
                      f \in {0, 1, 2^22, 2^23 - 1}}

(* The F32s halfway between two words, and their neighbours; and those far *)
(* below the smallest, on both sides of a shift by a machine word.         *)
AllProbes ==
  [d \in DOMAIN Layout |->
     {F32(FALSE, m) : m \in
        {1, F32Infinity - 1, F32Infinity, F32Infinity + 1}
        \cup ShiftedBy(Layout[d], {25, 26, 40, 63, 64, 65})
        \cup UNION {Halfway[d][u] - 1 .. Halfway[d][u] + 1 :
                      u \in {v \in Magnitudes[d] : v <= Layout[d].max_finite}}}]
MCProbes(d) == AllProbes[d]

MCSquares == [1 .. 1 -> -2 .. 2] \cup [1 .. 4 -> -2 .. 2] \cup [1 .. 9 -> {0, 1}]
MCFactors ==
  {<<a>> : a \in 0 .. 2} \cup {<<a, 0, b, c>> : a, c \in 0 .. 2, b \in -1 .. 1}
  \cup {<<a, 0, 0, b, c, 0, d, e, f>> : a, c, f \in 0 .. 2, b, d, e \in -1 .. 1}
Flat(m, n, values) == {[rows |-> m, columns |-> n, data |-> d] : d \in [1 .. m * n -> values]}
MCFlats == Flat(2, 3, {0, 1}) \cup Flat(3, 1, {-1, 0, 2}) \cup {[rows |-> 3, columns |-> 2, data |-> <<1, 2, 3, 4, 5, 6>>]}
MCColumns(n) == {[i \in 1 .. n |-> i], [i \in 1 .. n |-> IF i = 1 THEN 2 ELSE -1]}

MCPayloadValues == {-1, 2, NonFinite}
MCWeights == {1, -2}
MCConfidences == {0, 1, 2, 3}

-----------------------------------------------------------------------------
TextIdle ==
  /\ format = "none" /\ strict = FALSE /\ read = <<>> /\ stack = <<>>
  /\ mode = "none" /\ nodes = 0 /\ verdict = "idle"
FloatIdle == dtype = "F16" /\ word = 0 /\ wide = F32(FALSE, 0) /\ latest = <<"idle", 0, 0>>
BuffersIdle ==
  /\ ring = [data |-> <<>>, capacity |-> 1, head |-> 0, len |-> 0]
  /\ tokens = <<>> /\ copied = [asked |-> FALSE]
  /\ log = [buffer |-> <<>>, len |-> 0, dropped |-> 0] /\ offered = <<>>
SignalsIdle == inbox = <<>> /\ outbox = <<>> /\ before = <<>> /\ folded = [asked |-> FALSE]

MCInit ==
  \E subject \in Subjects :
    /\ IF subject = "texts" THEN TextInit ELSE TextIdle
    /\ IF subject = "numbers" THEN FloatInit ELSE FloatIdle
    /\ IF subject = "buffers" THEN BuffersInit ELSE BuffersIdle
    /\ IF subject = "signals" THEN SignalsInit ELSE SignalsIdle
    /\ MatricesInit /\ ViewsInit /\ about = subject

MCNext ==
  /\ UNCHANGED about
  /\ \/ about = "texts" /\ TextNext /\ UNCHANGED <<floats, matrices, buffers, views, signals>>
     \/ about = "numbers" /\ FloatNext /\ UNCHANGED <<parser, matrices, buffers, views, signals>>
     \/ about = "matrices" /\ MatricesNext /\ UNCHANGED <<parser, floats, buffers, views, signals>>
     \/ about = "buffers" /\ BuffersNext /\ UNCHANGED <<parser, floats, matrices, views, signals>>
     \/ about = "views" /\ ViewsNext /\ UNCHANGED <<parser, floats, matrices, buffers, signals>>
     \/ about = "signals" /\ SignalsNext /\ UNCHANGED <<parser, floats, matrices, buffers, views>>

MCSpec == MCInit /\ [][MCNext]_<<about, parser, floats, matrices, buffers, views, signals>>

-----------------------------------------------------------------------------
(* Nothing is accepted that the grammar of the format does not allow within *)
(* the limits: every construct is closed by its own end, no limit is        *)
(* exceeded by one, and the strict checks find what they look for (each     *)
(* parser's parse and validate, and strict validation).  What TOML's checks *)
(* must find is asked of lines they take for what they are: see Documents;  *)
(* and what follows the parsed part of an XML, HTML or YAML text is not     *)
(* asked about.                                                             *)
AcceptsOnlyDocuments == verdict = "accepted" => Parsed \in Language /\ ~Forbidden

(* What is refused, or taken to exceed a limit, at some token was not so    *)
(* far the beginning of any text of the grammar: no limit is one too small, *)
(* and no strict check mistakes a good text (each parser's parse and        *)
(* validate, and strict validation).  Not counted as good, for each is      *)
(* refused by the code: for strict validation TOML headers and inline       *)
(* tables with a comment after them, and XML and HTML notes with markup in  *)
(* them; YAML with a blank line before a line; HTML raw text with "</".     *)
RefusesOnlyNonDocuments == verdict \in {"refused", "over_limit"} => Seen \notin Viable

(* While a parser reads on it has made no more nodes than max_node_count,   *)
(* is within no more constructs than max_depth, not counting the one that   *)
(* it is about to refuse and TOML's pair, and no construct has more in it   *)
(* than its limit: an untrusted text cannot make it recurse or store more.  *)
LimitsBoundTheWork ==
  /\ nodes <= MaxNodes
  /\ format \notin {"csv", "ini", "ini line"} => Len(stack) <= MaxDepth + 2
  /\ \A i \in DOMAIN stack : stack[i].kind \notin {"field", "rest"} => stack[i].count <= MaxItems

(* A section or an entry that write_ini writes is read as the same section  *)
(* or entry, however many separators and comment marks its value holds, and *)
(* wherever: there is no quoting, and nothing to undo it.                   *)
WrittenIsRead ==
  format = "ini line" /\ verdict # "reading" =>
    \A item \in I!Items :
      read = Append(I!Write(item), End) => (verdict = "accepted" /\ stack[1].made = <<item>>)
=============================================================================
