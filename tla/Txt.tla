-------------------------------- MODULE Txt --------------------------------
(***************************************************************************)
(* nnn-parser/src/txt: a text is read whole, and then measured.            *)
(***************************************************************************)
EXTENDS Parsing

CONSTANT MaxText        (* max_text_len *)

TxtBytes == {"c", "lf", "cr", "bad"}                   (* bad: not UTF-8   *)

(* str::lines: what lies before each lf, less one cr at its end, and what  *)
(* lies after the last one, if anything.                                   *)
LineLengths(text) ==
  LET ends == {i \in DOMAIN text : text[i] = "lf"}
      starts == {i \in DOMAIN text : i = 1 \/ i - 1 \in ends}
      stop(i) == CHOOSE j \in i .. Len(text) + 1 :
                   /\ j \in ends \/ j = Len(text) + 1
                   /\ \A k \in i .. j - 1 : k \notin ends
      length(i) == LET j == stop(i)
                   IN IF j \in ends /\ j > i /\ text[j - 1] = "cr" THEN j - i - 1 ELSE j - i
  IN [i \in starts |-> length(i)]

Verdict(text) ==
  LET lines == LineLengths(text)
  IN IF \E i \in DOMAIN text : text[i] = "bad" THEN "refused"
     ELSE IF \/ Len(text) > MaxText
             \/ Cardinality(DOMAIN lines) > MaxItems
             \/ \E i \in DOMAIN lines : lines[i] > MaxLength
          THEN "over_limit" ELSE "accepted"

Steps ==
  \E tok \in TxtBytes \cup {End} :
    /\ Reads(tok)
    /\ \/ tok # End /\ Go(mode, stack, nodes)
       \/ tok = End /\ Stop(Verdict(read))

-----------------------------------------------------------------------------
(* Up to MaxItems lines of MaxLength bytes each, the last one ended or not. *)

TxtTexts ==
  LET line == BoundedSeq({"c", "cr"}, MaxLength)
      ended == Pairs(line, {<<"lf">>, <<"cr", "lf">>}, MaxText)
      lines[k \in 0 .. MaxItems] ==
        IF k = 0 THEN {<<>>} ELSE LET t == lines[k - 1] IN t \cup Pairs(ended, t, MaxText)
  IN lines[MaxItems] \cup Pairs(lines[MaxItems - 1], line, MaxText)
=============================================================================
