------------------------------ MODULE Parsing ------------------------------
(***************************************************************************)
(* nnn-parser: what the parsers of the eight formats have in common.  A    *)
(* parser reads a text token by token, keeps the constructs it is inside   *)
(* of on a stack (the recursion of the code), counts what its limits       *)
(* bound, and accepts, refuses, or stops because a limit is exceeded.      *)
(*                                                                         *)
(* A token is what the lexer of the format hands over in one piece, with   *)
(* the white space around it; the text is chosen token by token.  A module *)
(* per format has the parser's steps and, apart from them, the texts that  *)
(* the format allows, built from its grammar.                              *)
(***************************************************************************)
EXTENDS Integers, Sequences, SequencesExt, FiniteSets

CONSTANTS
  MaxDepth,      (* limit: max_depth, max_list_depth                       *)
  MaxItems,      (* limit: max_array_len, max_columns, max_rows, ...       *)
  MaxLength,     (* limit: max_field_len, max_key_len, max_line_len, ...   *)
  MaxNodes,      (* limit: max_node_count                                  *)
  MaxRead        (* bound: tokens in a text, for each format               *)

ASSUME LimitsAssumption ==
  /\ MaxDepth \in Nat /\ MaxLength \in Nat
  /\ MaxItems \in Nat \ {0} /\ MaxNodes \in Nat \ {0}

VARIABLES
  format,        (* the grammar read for                                   *)
  strict,        (* are the optional checks made: a policy, or validate_*  *)
  read,          (* history: the tokens read so far                        *)
  stack,         (* the constructs the parser is inside of, outermost first *)
  mode,          (* what it expects next                                   *)
  nodes,         (* nodes_seen                                             *)
  verdict        (* reading, accepted, refused, or over_limit              *)

parser == <<format, strict, read, stack, mode, nodes, verdict>>

End == "end of text"
Depth == Len(stack)
Top == stack[Depth]

(* What a construct holds: how many things, under which names, and what    *)
(* has been made of it.                                                    *)
Frame(kind) == [kind |-> kind, count |-> 0, names |-> {}, made |-> <<>>]

(* The token that comes next, which may be the end of the text. *)
Reads(tok) ==
  /\ verdict = "reading"
  /\ tok # End => Len(read) < MaxRead[format]
  /\ read' = Append(read, tok)
  /\ UNCHANGED <<format, strict>>

Go(m, frames, n) == mode' = m /\ stack' = frames /\ nodes' = n /\ UNCHANGED verdict
Stop(v) == verdict' = v /\ UNCHANGED <<mode, stack, nodes>>
Accept == Stop("accepted")
Refuse == Stop("refused")
OverLimit == Stop("over_limit")

Push(frame) == Append(stack, frame)
Counted(frames) == [frames EXCEPT ![Len(frames)].count = @ + 1]

-----------------------------------------------------------------------------
(* Building the texts of a grammar. *)

(* The elements of a list one after the other, with sep in between.        *)
Text(list, sep) ==
  FoldLeft(LAMBDA text, element : text \o sep \o element, list[1], Tail(list))

Short(texts, n) == {t \in texts : Len(t) <= n}

(* Lists of one to k texts of S that are at most n tokens long in all.     *)
Lists(S, k, n) ==
  LET list[i \in 1 .. k] ==
        IF i = 1 THEN {<<t>> : t \in Short(S, n)}
        ELSE LET shorter == list[i - 1]
             IN shorter \cup
                UNION {{Append(l, t) : t \in Short(S, n - Len(FlattenSeq(l)))} : l \in shorter}
  IN list[k]

(* No two texts of the list start with the same token.                     *)
Distinct(list) == \A i, j \in DOMAIN list : list[i][1] = list[j][1] => i = j

(* A text of A and then one of B, in at most n tokens.                     *)
Pairs(A, B, n) ==
  UNION {{a \o b : b \in {t \in B : Len(a) + Len(t) <= n}} : a \in A}

(* Texts of S one after the other, any number of them, in at most n tokens. *)
Repeated(S, n) ==
  LET of[k \in 0 .. n] ==
        IF k = 0 THEN <<{<<>>}>>
        ELSE LET shorter == of[k - 1]
             IN Append(shorter, UNION {{a \o b : b \in shorter[k - Len(a) + 1]} : a \in Short(S, k) \ {<<>>}})
  IN UNION Range(of[n])

(* What has been read of a text of the set, at any moment.                 *)
Beginnings(texts) ==
  UNION {Prefixes(Append(t, End)) : t \in texts}
=============================================================================
