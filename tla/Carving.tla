------------------------------ MODULE Carving ------------------------------
(***************************************************************************)
(* nnn-base/src/scratch/align.rs and carve.rs: the arithmetic by which a   *)
(* request for memory is checked against a region before a byte of it is   *)
(* touched.  There is no state here.                                       *)
(*                                                                         *)
(* A function that returns Option or Result returns a set: {} for None or  *)
(* Err, {x} for Some(x) or Ok(x).  Which CarveError a refusal carries is   *)
(* left out; no caller in the crate tells them apart.                      *)
(***************************************************************************)
EXTENDS Integers

CONSTANTS
  UsizeMax,     (* usize::MAX                                              *)
  Alignments    (* the powers of two a usize can hold                      *)

ASSUME UsizeAssumption == UsizeMax \in Nat
ASSUME AlignmentsAssumption == Alignments \subseteq Nat \ {0}

Usize == 0 .. UsizeMax

-----------------------------------------------------------------------------
(* align.rs *)

IsAligned(address, alignment) ==
  alignment \in Alignments /\ address % alignment = 0

(* Mutant of Pad: a block starts where the cursor stands.                  *)
PadNever(value, alignment) == 0

(* The bytes from value to the next boundary: what the masking leaves.     *)
Pad(value, alignment) == (alignment - (value % alignment)) % alignment

AlignUp(value, alignment) ==
  IF alignment \in Alignments /\ value + (alignment - 1) \in Usize
    THEN {value + Pad(value, alignment)}
    ELSE {}

AlignDown(value, alignment) ==
  IF alignment \in Alignments THEN {value - (value % alignment)} ELSE {}

-----------------------------------------------------------------------------
(* carve.rs: requests.  `at` is the operand of Split::At, Head and Tail,   *)
(* the start of Split::Middle, and the position Reuse::Marked names; `len` *)
(* is that of Split::Middle.  At and Head are treated alike throughout.    *)
(* The From and Region families take the whole requirement: "from".        *)

SplitKinds == {"head", "tail", "middle"}

ReuseKinds == {"marked", "last", "reset"}

Kinds == {"from"} \cup SplitKinds \cup ReuseKinds

(* Carve::validate *)
Validate(req) ==
  /\ req.align \in Alignments
  /\ req.kind \in {"head", "tail"} => req.at <= req.bytes
  /\ req.kind = "middle" => req.at + req.len \in Usize /\ req.at + req.len <= req.bytes
  /\ req.kind = "marked" => req.at # 0

(* Where the carve starts and how long it is, in the body of the region:   *)
(* what remains of it after the alignment prefix.                          *)
SpanLen(req) ==
  CASE req.kind \in {"head", "tail"} -> req.at
    [] req.kind = "middle" -> req.len
    [] OTHER -> req.bytes

SpanStart(req, body) ==
  CASE req.kind = "tail" -> body - req.at
    [] req.kind = "middle" -> req.at
    [] OTHER -> 0

(* Mutant of CheckSplit: the bytes lost to alignment are not subtracted    *)
(* from what the region can hold.                                          *)
CheckSplitUnpadded(req, arenaLen, arenaAddr) ==
  { [prefix |-> aligned - arenaAddr,
     start |-> SpanStart(req, arenaLen), len |-> SpanLen(req)] :
    aligned \in { a \in AlignUp(arenaAddr, req.align) :
      /\ Validate(req)
      /\ SpanStart(req, arenaLen) >= 0
      /\ SpanStart(req, arenaLen) + SpanLen(req) <= arenaLen } }

(* check_split: the span a request takes in a region of arenaLen bytes at  *)
(* arenaAddr, if it fits.                                                  *)
CheckSplit(req, arenaLen, arenaAddr) ==
  LET Prefix(aligned) == aligned - arenaAddr
      Body(aligned) == arenaLen - Prefix(aligned)
      Start(aligned) == SpanStart(req, Body(aligned))
      Fits(aligned) ==
        /\ Prefix(aligned) <= arenaLen
        /\ Start(aligned) >= 0
        /\ Start(aligned) + SpanLen(req) \in Usize
        /\ Start(aligned) + SpanLen(req) <= Body(aligned)
  IN  { [prefix |-> Prefix(a), start |-> Start(a), len |-> SpanLen(req)] :
        a \in { a \in AlignUp(arenaAddr, req.align) : Validate(req) /\ Fits(a) } }

(* The bytes a span takes away from the front of the region.               *)
SpanEnd(span) == span.prefix + span.start + span.len

(* RequiredBytes::extend: one requirement that holds both, in order.       *)
ExtendRequired(a, b) ==
  { [bytes |-> offset + b.bytes,
     align |-> IF a.align > b.align THEN a.align ELSE b.align] :
    offset \in { o \in AlignUp(a.bytes, b.align) : o + b.bytes \in Usize } }
=============================================================================
