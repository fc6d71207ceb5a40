------------------------------- MODULE Views -------------------------------
(***************************************************************************)
(* Which part of a slice a caller is given: the plans of ArenaLayout       *)
(* (scratch/layout.rs), the typed Buf (typed.rs), Bytes and BytesMut       *)
(* (bytes.rs), tensor views (tensor/view_mut.rs, tensor_core.rs), the      *)
(* weights of an edge (edge_data.rs) and the regions of a node             *)
(* (memory/node_memory.rs).                                                *)
(*                                                                         *)
(* A part is where it starts and how long it is, in elements of the slice. *)
(* As in Carving, what returns None or Err returns {}.                     *)
(***************************************************************************)
EXTENDS Carving, SequencesExt

CONSTANTS
  Lengths,       (* the lengths of slices, and of parts asked for          *)
  Sides,         (* the sides of tensors that are indexed                  *)
  NearMax        (* lengths and offsets close to usize::MAX                *)

ASSUME AmountsAssumption == Lengths \subseteq Usize /\ Sides \subseteq Usize /\ NearMax \subseteq Usize

VARIABLES
  asked,         (* the operation and its operands                         *)
  given          (* the parts it gave; or whether it panicked              *)

views == <<asked, given>>

Part(start, len) == [start |-> start, len |-> len]
Amounts == Lengths \cup NearMax
CheckedMul(m, n) == IF m * n \in Usize THEN {m * n} ELSE {}
CheckedAdd(m, n) == IF m + n \in Usize THEN {m + n} ELSE {}

(* slice.get(start .. start + len), of which the sum is checked. *)
Get(total, start, len) == {Part(start, end - start) : end \in {e \in CheckedAdd(start, len) : e <= total}}

-----------------------------------------------------------------------------
(* ArenaLayout. *)

(* ArenaLayout::new, of a stack and a heap of these sizes. *)
NewLayout(low, high, slot, align) ==
  IF slot = 0 \/ slot % align # 0 THEN {}
  ELSE UNION {{[stack |-> Part(0, low), heap |-> Part(offset, high), slot |-> slot, total |-> total] :
                 total \in CheckedAdd(offset, high)} : offset \in AlignUp(low, align)}

(* plan_slot, with ArenaLayout::slot. *)
PlanSlot(layout, index, align) ==
  {Part(at, layout.slot) :
     at \in {a \in UNION {AlignUp(o, align) : o \in CheckedMul(index, layout.slot)} :
               \E end \in CheckedAdd(a, layout.slot) : end <= layout.total}}

(* plan_stack and plan_heap: a size, at no place yet in their region. *)
PlanSize(region, required, align) ==
  IF required <= region.len /\ align \in Alignments THEN {required} ELSE {}

-----------------------------------------------------------------------------
(* Typed and raw bytes. *)

(* Buf::from_carve, of elements of `size` bytes: the elements, if the      *)
(* bytes are aligned and none is left over.  from_bytes also takes none.   *)
FromCarve(address, bytes, size) ==
  {Part(0, n) : n \in {m \in {bytes \div size} : address % size = 0 /\ bytes # 0 /\ bytes % size = 0}}

(* BytesMut::write, and Bytes::array for what it reads. *)
WriteAt(data, offset, value) ==
  {Part(p.start, p.len) : p \in Get(Len(data), offset, Len(value))}
Written(data, p, value) ==
  [i \in DOMAIN data |-> IF i \in p.start + 1 .. p.start + p.len THEN value[i - p.start] ELSE data[i]]

(* Mutant of CopyWithin: byte by byte from the front, as if the two parts  *)
(* never overlapped.                                                       *)
CopyWithinForward(data, from, to, dest) ==
  IF from > to \/ to > Len(data) \/ ~(\E end \in CheckedAdd(dest, to - from) : end <= Len(data)) THEN data
  ELSE FoldLeft(LAMBDA d, k : [d EXCEPT ![dest + k] = d[from + k]], data, [k \in 1 .. to - from |-> k])

(* BytesMut::copy_within: all of the source is read before it is written.  *)
CopyWithin(data, from, to, dest) ==
  IF from > to \/ to > Len(data) \/ ~(\E end \in CheckedAdd(dest, to - from) : end <= Len(data)) THEN data
  ELSE Written(data, Part(dest, to - from), SubSeq(data, from + 1, to))

-----------------------------------------------------------------------------
(* Tensors, edges and nodes. *)

(* The product of a shape, checked at each step. *)
CheckedProduct(shape) == FoldLeft(LAMBDA n, d : UNION {CheckedMul(m, d) : m \in n}, {1}, shape)

(* TensorViewMut::from_slice_offset. *)
FromSliceOffset(total, shape, offset) == UNION {Get(total, offset, n) : n \in CheckedProduct(shape)}

(* TensorView::idx_linear, from 0. *)
IdxLinear(total, shape, index) ==
  IF \E k \in DOMAIN shape : index[k] >= shape[k] THEN {}
  ELSE {i \in FoldLeft(LAMBDA at, k : UNION {UNION {CheckedAdd(m, index[k]) : m \in CheckedMul(a, shape[k])} : a \in at},
                       {0}, [k \in DOMAIN shape |-> k]) : i < total}

(* EdgeData::weights. *)
Weights(total, offset, len) == Get(total, offset, len)

(* NodeMemory::split.  The total is not checked: it wraps in a build that  *)
(* does not stop at that, and the split then panics.                       *)
Split(total, recurrent, moments, stats) ==
  LET needed == (recurrent + moments + stats) % (UsizeMax + 1)
  IN IF total < needed THEN [panic |-> FALSE, parts |-> <<>>]
     ELSE IF recurrent > total \/ moments > total - recurrent THEN [panic |-> TRUE, parts |-> <<>>]
     ELSE [panic |-> FALSE,
           parts |-> <<Part(0, recurrent), Part(recurrent, moments),
                       Part(recurrent + moments, total - recurrent - moments)>>]

-----------------------------------------------------------------------------
(* The calls. *)

ViewsInit == asked = [op |-> "none"] /\ given = [panic |-> FALSE, parts |-> <<>>]

Parts(set) == [panic |-> FALSE, parts |-> SetToSeq(set)]
Unasked == asked.op = "none"
Ask(call, result) == asked' = call /\ given' = result

Plan ==
  Unasked /\ \E low, high, slot \in Lengths, made, align \in Alignments, index \in Amounts :
    \E layout \in NewLayout(low, high, slot, made) :
      \/ Ask([op |-> "slot", layout |-> layout, index |-> index, align |-> align], Parts(PlanSlot(layout, index, align)))
      \/ \E kind \in {"stack", "heap"} :
           Ask([op |-> "region", layout |-> layout, region |-> layout[kind], len |-> index],
               Parts(PlanSize(layout[kind], index, align)))

Type ==
  Unasked /\ \E address, bytes \in Lengths, size \in Alignments :
    Ask([op |-> "typed", address |-> address, bytes |-> bytes, size |-> size], Parts(FromCarve(address, bytes, size)))

Numbered(n) == [i \in 1 .. n |-> i]

Store ==
  Unasked /\ \E total \in Lengths, offset \in Amounts, n \in {1, 2} :
    LET data == Numbered(total)
        value == [i \in 1 .. n |-> -i]
        p == WriteAt(data, offset, value)
    IN Ask([op |-> "store", data |-> data, offset |-> offset, value |-> value],
           [panic |-> FALSE, parts |-> SetToSeq(p), now |-> IF p = {} THEN data ELSE Written(data, CHOOSE q \in p : TRUE, value)])

Move ==
  Unasked /\ \E total \in Lengths, from, to \in Lengths, dest \in Amounts :
    LET data == Numbered(total)
    IN Ask([op |-> "move", data |-> data, from |-> from, to |-> to, dest |-> dest],
           [panic |-> FALSE, parts |-> <<>>, now |-> CopyWithin(data, from, to, dest)])

View ==
  Unasked /\ \E total \in Lengths, shape \in [1 .. 3 -> Lengths], offset \in Amounts :
    Ask([op |-> "view", total |-> total, shape |-> shape, offset |-> offset], Parts(FromSliceOffset(total, shape, offset)))

Index ==
  Unasked /\ \E shape \in [1 .. 3 -> Sides] : \E total \in CheckedProduct(shape), index \in [1 .. 3 -> Sides] :
    Ask([op |-> "index", total |-> total, shape |-> shape, index |-> index],
        Parts({Part(i, 1) : i \in IdxLinear(total, shape, index)}))

Weigh ==
  Unasked /\ \E total \in Lengths, offset, len \in Amounts :
    Ask([op |-> "weights", total |-> total, offset |-> offset, len |-> len], Parts(Weights(total, offset, len)))

SplitMemory ==
  Unasked /\ \E total \in Lengths, recurrent, moments, stats \in Amounts :
    Ask([op |-> "split", total |-> total, lens |-> <<recurrent, moments, stats>>], Split(total, recurrent, moments, stats))

ViewsNext == Plan \/ Type \/ Store \/ Move \/ View \/ Index \/ Weigh \/ SplitMemory

-----------------------------------------------------------------------------
Apart(p, q) == p.start + p.len <= q.start \/ q.start + q.len <= p.start
Inside(p, total) == p.start + p.len <= total
None == given.parts = <<>>
Given == given.parts[1]
Product(shape) == shape[1] * shape[2] * shape[3]

(* What is given lies inside, also where sums and products exceed a usize, *)
(* and what fits is given.  Two slots of a layout, planned with an         *)
(* alignment that divides their size, its stack and its heap, and two      *)
(* regions of a node never share a byte, and no two elements of a tensor   *)
(* one place; stack and heap plan no more than they hold; a write          *)
(* changes the bytes it names and no other, and a move takes what was      *)
(* there before it, overlapping or not.  Only node sizes whose sum exceeds *)
(* a usize make a split panic or give too little (see the README).         *)
ViewsStayInside ==
  CASE asked.op = "slot" ->
         LET layout == asked.layout IN
         /\ (asked.index + 1) * layout.slot > layout.total => None
         /\ ~None => Inside(Given, layout.total) /\ Given.len = layout.slot
         /\ layout.slot % asked.align = 0 =>
              /\ None => (asked.index + 1) * layout.slot > layout.total
              /\ ~None => \A other \in Lengths \ {asked.index} :
                           \A p \in PlanSlot(layout, other, asked.align) : Apart(Given, p)
    [] asked.op = "region" ->
         LET layout == asked.layout IN
         /\ Inside(layout.stack, layout.total) /\ Inside(layout.heap, layout.total)
         /\ Apart(layout.stack, layout.heap)
         /\ None <=> asked.len > asked.region.len
         /\ ~None => Given = asked.len
    [] asked.op = "typed" ->
         IF None THEN asked.bytes = 0 \/ asked.bytes % asked.size # 0 \/ asked.address % asked.size # 0
         ELSE Given.len * asked.size = asked.bytes /\ asked.address % asked.size = 0
    [] asked.op = "store" ->
         /\ None <=> asked.offset + Len(asked.value) > Len(asked.data)
         /\ \A i \in DOMAIN asked.data :
              given.now[i] = IF ~None /\ i - asked.offset \in DOMAIN asked.value
                             THEN asked.value[i - asked.offset] ELSE asked.data[i]
    [] asked.op = "move" ->
         LET n == asked.to - asked.from
             fits == n >= 0 /\ asked.to <= Len(asked.data) /\ asked.dest + n <= Len(asked.data)
         IN \A i \in DOMAIN asked.data :
              given.now[i] = IF fits /\ i - asked.dest \in 1 .. n
                             THEN asked.data[asked.from + i - asked.dest] ELSE asked.data[i]
    [] asked.op = "view" ->
         /\ None <=> \/ asked.offset + Product(asked.shape) > asked.total
                     \/ asked.shape[1] * asked.shape[2] > UsizeMax
         /\ ~None => Given = Part(asked.offset, Product(asked.shape))
    [] asked.op = "index" ->
         /\ None <=> \E k \in 1 .. 3 : asked.index[k] >= asked.shape[k]
         /\ ~None => /\ Inside(Given, asked.total)
                     /\ asked.index = <<Given.start \div (asked.shape[2] * asked.shape[3]),
                                       (Given.start \div asked.shape[3]) % asked.shape[2],
                                       Given.start % asked.shape[3]>>
    [] asked.op = "weights" ->
         /\ None <=> asked.offset + asked.len > asked.total
         /\ ~None => Given = Part(asked.offset, asked.len)
    [] asked.op = "split" ->
         LET sum == asked.lens[1] + asked.lens[2] + asked.lens[3] IN
         /\ sum <= UsizeMax =>
              /\ ~given.panic
              /\ None <=> sum > asked.total
              /\ ~None => given.parts[3].len >= asked.lens[3]
         /\ ~None =>
              /\ \A k \in 1 .. 2 : given.parts[k].len = asked.lens[k]
              /\ \A k \in 1 .. 3 : Inside(given.parts[k], asked.total)
              /\ \A k, m \in 1 .. 3 : k # m => Apart(given.parts[k], given.parts[m])
    [] OTHER -> TRUE
=============================================================================
