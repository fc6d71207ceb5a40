------------------------------ MODULE Buffers ------------------------------
(***************************************************************************)
(* Two buffers of a fixed size in memory of the caller, which are handed   *)
(* more than they hold: the key-value cache, a ring that keeps the latest  *)
(* tokens (nnn-base/src/tensor/cache_tensor.rs, and cache_push of          *)
(* tensor/helpers.rs), and the log buffer, which keeps the first bytes and *)
(* counts the others (scratch/logbuf.rs).                                  *)
(***************************************************************************)
EXTENDS Integers, SequencesExt

CONSTANTS
  Capacities,    (* the capacities that caches and log buffers have        *)
  Stride,        (* num_heads * head_dim, the elements of a token          *)
  MaxTokens,     (* bound: elements of one call of cache_push              *)
  MaxLogged      (* bound: bytes written to a log buffer between clears    *)

ASSUME StrideAssumption == Stride \in Nat \ {0}
ASSUME CapacitiesAssumption == Capacities \subseteq Nat \ {0}
ASSUME WrittenAssumption == MaxTokens \in Nat /\ MaxLogged \in Nat

VARIABLES
  ring,          (* the CacheTensor: its data, capacity, head and len      *)
  tokens,        (* the elements handed to cache_push, each a new one      *)
  copied,        (* what copy_tokens_into gave, or what it refused         *)
  log,           (* the LogBuf: its buffer, len and dropped                *)
  offered        (* history: the bytes written to it since it was empty    *)

buffers == <<ring, tokens, copied, log, offered>>

(* copy_from_slice of part into s, after the first `at` elements. *)
Overwrite(s, at, part) ==
  [i \in DOMAIN s |-> IF i \in at + 1 .. at + Len(part) THEN part[i - at] ELSE s[i]]

Blank(n) == [i \in 1 .. n |-> 0]

BuffersInit ==
  \E capacity \in Capacities :
    /\ ring = [data |-> Blank(capacity * Stride), capacity |-> capacity, head |-> 0, len |-> 0]
    /\ tokens = <<>> /\ copied = [asked |-> FALSE, ok |-> FALSE, out |-> <<>>]
    /\ log = [buffer |-> Blank(capacity), len |-> 0, dropped |-> 0] /\ offered = <<>>

-----------------------------------------------------------------------------
(* The cache. *)

(* push: a chunk shorter than a token is refused. *)
PushToken(r, kv) ==
  IF Len(kv) < Stride THEN r
  ELSE [r EXCEPT !.data = Overwrite(@, r.head * Stride, kv),
                 !.head = (@ + 1) % r.capacity,
                 !.len = IF @ < r.capacity THEN @ + 1 ELSE @]

(* Mutant of Oldest: the ring is read from its head before it is full.     *)
OldestHead(r) == r.head

(* token: where the oldest is, and the one so many after it. *)
Oldest(r) == IF r.len = r.capacity THEN r.head ELSE 0
TokenAt(r, index) ==
  LET slot == (Oldest(r) + index) % r.capacity IN SubSeq(r.data, slot * Stride + 1, (slot + 1) * Stride)

(* copy_tokens_into, if there is room. *)
Copy(r, room) ==
  IF room < r.len * Stride THEN [asked |-> TRUE, ok |-> FALSE, out |-> <<>>]
  ELSE [asked |-> TRUE, ok |-> TRUE, out |-> FlattenSeq([i \in 1 .. r.len |-> TokenAt(r, i - 1)])]

(* cache_push: a new ring, the elements in chunks of a token, of which the *)
(* last may be short, and the copy.                                        *)
Chunks(elements) ==
  [k \in 1 .. (Len(elements) + Stride - 1) \div Stride |->
     SubSeq(elements, (k - 1) * Stride + 1, IF k * Stride < Len(elements) THEN k * Stride ELSE Len(elements))]

CachePush ==
  /\ ~copied.asked
  /\ \E n \in 0 .. MaxTokens, room \in 0 .. ring.capacity * Stride :
       /\ tokens' = [i \in 1 .. n |-> i]
       /\ ring' = FoldLeft(PushToken, ring, Chunks(tokens'))
       /\ copied' = Copy(ring', room)
  /\ UNCHANGED <<log, offered>>

-----------------------------------------------------------------------------
(* The log buffer. *)

(* write_bytes: what fits is written, and what does not is counted.        *)
WriteBytes(l, bytes) ==
  LET available == Len(l.buffer) - l.len
      written == IF Len(bytes) < available THEN Len(bytes) ELSE available
  IN [l EXCEPT !.buffer = Overwrite(@, l.len, SubSeq(bytes, 1, written)),
               !.len = @ + written,
               !.dropped = @ + Len(bytes) - written]

NewBytes(n) == [i \in 1 .. n |-> Len(offered) + i]

Write ==
  /\ ~copied.asked
  /\ \E n \in 0 .. MaxLogged - Len(offered) :
       log' = WriteBytes(log, NewBytes(n)) /\ offered' = offered \o NewBytes(n)
  /\ UNCHANGED <<ring, tokens, copied>>

(* write_fmt: the pieces one after the other, and none after one that did  *)
(* not fit; what was never written is not counted.                         *)
WriteFmt ==
  /\ ~copied.asked
  /\ \E m \in 1 .. MaxLogged - Len(offered) : \E n \in 1 .. MaxLogged - Len(offered) - m :
       LET first == WriteBytes(log, NewBytes(m))
           both == SubSeq(NewBytes(m + n), m + 1, m + n)
       IN IF first.dropped > log.dropped
          THEN log' = first /\ offered' = offered \o NewBytes(m)
          ELSE log' = WriteBytes(first, both) /\ offered' = offered \o NewBytes(m + n)
  /\ UNCHANGED <<ring, tokens, copied>>

(* clear: the bytes stay in the buffer. *)
Clear ==
  /\ ~copied.asked
  /\ log' = [log EXCEPT !.len = 0, !.dropped = 0] /\ offered' = <<>>
  /\ UNCHANGED <<ring, tokens, copied>>

BuffersNext == CachePush \/ Write \/ WriteFmt \/ Clear

-----------------------------------------------------------------------------
(* The tokens copied out are the last of those handed over, as many as the *)
(* ring holds, in their order and whole, wherever the head of the ring is; *)
(* what the ring does not hold yet is not among them, and of an incomplete *)
(* token at the end nothing is.  The log has the first bytes written since *)
(* it was cleared, with none missing in between and none of before, and    *)
(* dropped is how many more there were (CacheTensor, cache_push, LogBuf).  *)
BuffersKeepTheirPart ==
  /\ copied.asked =>
       LET whole == Len(tokens) - (Len(tokens) % Stride)
           kept == IF whole < ring.capacity * Stride THEN whole ELSE ring.capacity * Stride
       IN /\ ring.len * Stride = kept
          /\ copied.ok => copied.out = SubSeq(tokens, whole - kept + 1, whole)
  /\ SubSeq(log.buffer, 1, log.len) = SubSeq(offered, 1, log.len)
  /\ log.len + log.dropped = Len(offered)
  /\ log.dropped > 0 => log.len = Len(log.buffer)
=============================================================================
