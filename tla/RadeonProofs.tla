---------------------------- MODULE RadeonProofs ----------------------------
(***************************************************************************)
(* Proofs about Radeon, for every page size, shape, number of render nodes *)
(* and set of calls: the rows of an accepted product stay inside, the      *)
(* buffers of a product never collide in the device's address space, a     *)
(* call that has returned left nothing behind, a product answered true     *)
(* only with the product copied out, false only with nothing copied, and   *)
(* no buffer is mapped or bound that was not created before.               *)
(***************************************************************************)
EXTENDS Radeon, SequenceTheorems, TLAPS

-----------------------------------------------------------------------------
(* Arithmetic. *)

(* Multiplying by the same size keeps the order.                           *)
LEMMA TimesIsMonotonic ==
  ASSUME NEW a \in Nat, NEW b \in Nat, NEW c \in Nat, a <= b
  PROVE  a * c \in Nat /\ b * c \in Nat /\ a * c <= b * c
<1>1. b * c = a * c + (b - a) * c
  OBVIOUS
<1>2. (b - a) * c >= 0 /\ a * c \in Nat /\ b * c \in Nat
  OBVIOUS
<1>3. QED
  BY <1>1, <1>2

(* Where rows of `len` elements that start `stride` apart lie: in bytes,   *)
(* row r ends before any later row starts, and before the end of the last. *)
LEMMA RowsApart ==
  ASSUME NEW r \in Nat, NEW q \in Nat, NEW stride \in Nat, NEW len \in Nat,
         NEW elem \in Nat, q < r, len <= stride
  PROVE  q * stride * elem + len * elem <= r * stride * elem
<1>1. q * stride \in Nat /\ r * stride \in Nat /\ (q + 1) * stride \in Nat
  OBVIOUS
<1>2. (q + 1) * stride <= r * stride
  BY TimesIsMonotonic
<1>3. (q + 1) * stride = q * stride + stride
  OBVIOUS
<1>4. q * stride + len <= r * stride
  BY <1>1, <1>2, <1>3
<1>5. (q * stride + len) * elem <= (r * stride) * elem
  BY <1>1, <1>4, TimesIsMonotonic
<1>6. (q * stride + len) * elem = (q * stride) * elem + len * elem
  BY <1>1
<1>7. QED
  BY <1>5, <1>6

LEMMA RowBeforeTheEnd ==
  ASSUME NEW r \in Nat, NEW last \in Nat, NEW stride \in Nat, NEW len \in Nat,
         NEW elem \in Nat, r <= last
  PROVE  r * stride * elem + len * elem <= (last * stride + len) * elem
<1>1. r * stride \in Nat /\ last * stride \in Nat /\ r * stride <= last * stride
  BY TimesIsMonotonic
<1>2. (r * stride + len) * elem <= (last * stride + len) * elem
  BY <1>1, TimesIsMonotonic
<1>3. (r * stride + len) * elem = (r * stride) * elem + len * elem
  BY <1>1
<1>4. QED
  BY <1>2, <1>3

-----------------------------------------------------------------------------
(* Rows. *)

(* What the checks of radeon_matmul and radeon_gemm are for: if a shape is *)
(* accepted its rows lie inside the slices and apart from each other.      *)
LEMMA AcceptedRowsAreInside ==
  ASSUME NEW c \in [op : Ops, shape : Shape], c.op \in Products, Accepted(c)
  PROVE  RowsInside(c.op, c.shape)
<1> DEFINE s == c.shape
<1>1. /\ s.batch \in Nat \ {0} /\ s.stride \in Nat /\ s.out \in Nat /\ s.elem \in Nat
      /\ s.dst \in Nat /\ s.in \in Nat
  BY DEF Shape, Accepted, MatmulAccepts, GemmAccepts, Products
<1>2. SUFFICES ASSUME NEW r \in 0 .. s.batch - 1
               PROVE  /\ RowOnDevice(s, r) + RowBytes(s) <= DstBytes(s)
                      /\ RowOfCaller(c.op, s, r) + RowBytes(s) <= s.dst
                      /\ \A q \in 0 .. r - 1 :
                           RowOfCaller(c.op, s, q) + RowBytes(s) <= RowOfCaller(c.op, s, r)
  BY DEF RowsInside
<1>3. r \in Nat /\ s.batch - 1 \in Nat /\ r <= s.batch - 1
  BY <1>1, <1>2
<1>4. RowOnDevice(s, r) + RowBytes(s) <= DstBytes(s)
  BY <1>1, <1>3, RowBeforeTheEnd DEF RowOnDevice, RowBytes, DstBytes, LastBase
<1>5. CASE c.op = "matmul"
  <2>1. /\ s.dst >= DstBytes(s)
        /\ ~(s.batch > 1 /\ s.stride < s.out)
    BY <1>5 DEF Accepted, MatmulAccepts
  <2>2. RowOfCaller(c.op, s, r) = RowOnDevice(s, r)
    BY <1>5 DEF RowOfCaller, RowOnDevice
  <2>3. RowOnDevice(s, r) \in Nat /\ RowBytes(s) \in Nat /\ DstBytes(s) \in Nat
    BY <1>1, <1>3 DEF RowOnDevice, RowBytes, DstBytes, LastBase
  <2>4. RowOfCaller(c.op, s, r) + RowBytes(s) <= s.dst
    BY <1>1, <1>4, <2>1, <2>2, <2>3
  <2>5. ASSUME NEW q \in 0 .. r - 1
        PROVE  RowOfCaller(c.op, s, q) + RowBytes(s) <= RowOfCaller(c.op, s, r)
    <3>1. q \in Nat /\ q < r /\ s.out <= s.stride
      BY <1>1, <1>3, <2>1, <2>5
    <3>2. q * s.stride * s.elem + s.out * s.elem <= r * s.stride * s.elem
      BY <1>1, <1>3, <3>1, RowsApart
    <3>3. QED
      BY <1>5, <3>2 DEF RowOfCaller, RowBytes
  <2>6. QED
    BY <1>4, <2>4, <2>5
<1>6. CASE c.op = "gemm"
  <2>1. s.dst >= s.batch * s.out * s.elem
    BY <1>6 DEF Accepted, GemmAccepts
  <2>2. r * s.out * s.elem + s.out * s.elem <= s.batch * s.out * s.elem
    BY <1>1, <1>3, RowsApart
  <2>3. r * s.out * s.elem \in Nat /\ s.out * s.elem \in Nat
    BY <1>1, <1>3
  <2>4. s.batch * s.out * s.elem \in Nat
    BY <1>1
  <2>5. RowOfCaller(c.op, s, r) + RowBytes(s) <= s.dst
    <3>1. r * s.out * s.elem + s.out * s.elem <= s.dst
      BY <1>1, <2>1, <2>2, <2>3, <2>4
    <3>2. QED
      BY <1>6, <3>1 DEF RowOfCaller, RowBytes
  <2>6. ASSUME NEW q \in 0 .. r - 1
        PROVE  RowOfCaller(c.op, s, q) + RowBytes(s) <= RowOfCaller(c.op, s, r)
    <3>1. q \in Nat /\ q < r
      BY <1>3, <2>6
    <3>2. q * s.out * s.elem + s.out * s.elem <= r * s.out * s.elem
      BY <1>1, <1>3, <3>1, RowsApart
    <3>3. QED
      BY <1>6, <3>2 DEF RowOfCaller, RowBytes
  <2>7. QED
    BY <1>4, <2>5, <2>6
<1>7. QED
  BY <1>5, <1>6 DEF Products

(* The call that has a node open is one that was accepted.                 *)
AtWork == call \in Calls /\ (phase # "idle" => Accepted(call))

LEMMA AtWorkHolds == Spec => []AtWork
<1>1. Init => AtWork
  BY DEF Init, AtWork
<1>2. AtWork /\ [Next]_vars => AtWork'
  <2> SUFFICES ASSUME AtWork, [Next]_vars PROVE AtWork'
    OBVIOUS
  <2>1. CASE \E c \in Calls : Start(c)
    BY <2>1 DEF AtWork, Start, Accepted
  <2>2. CASE call' = call /\ (phase = "idle" => phase' = "idle")
    BY <2>2 DEF AtWork, Accepted
  <2>3. CASE Working
    BY <2>2, <2>3 DEF Working, OpenNode, NoNodeLeft, NameMatches, NameDiffers, Create,
       MmapOffset, MapAndFill, BindVa, Submit, WaitIdle, CopyRows, Query,
       RefusedAndIgnored, Refused, BodyDone, DropBuffer, CloseNode, Doing, Step
  <2>4. CASE JobDone
    BY <2>2, <2>4 DEF JobDone
  <2>5. CASE UNCHANGED vars
    BY <2>2, <2>5 DEF vars
  <2>6. QED
    BY <2>1, <2>3, <2>4, <2>5 DEF Next
<1>3. QED
  BY <1>1, <1>2, PTL DEF Spec

(* The rows a product copies out lie in the device's buffer and in the     *)
(* caller's slice and share no byte, whatever the sizes and strides.       *)
THEOREM RowsAreInside == Spec => []RowsStayInside
<1>1. AtWork => RowsStayInside
  BY AcceptedRowsAreInside, CallsAssumption DEF AtWork, RowsStayInside
<1>2. QED
  BY <1>1, AtWorkHolds, PTL

-----------------------------------------------------------------------------
(* Leaving nothing behind. *)

(* What is held at each phase of a call.  A node is open only between the  *)
(* asking of its driver's name and its closing, and what is allocated on   *)
(* it exists only from the body on.                                        *)
Tidy ==
  /\ fds = IF phase \in {"name", "body", "unwind"} THEN {node} ELSE {}
  /\ phase \in {"idle", "open", "name"} => handles = {} /\ maps = <<>> /\ bound = {}

LEMMA TidyHolds == Spec => []Tidy
<1>1. Init => Tidy
  BY DEF Init, Tidy
<1>2. Tidy /\ [Next]_vars => Tidy'
  <2> SUFFICES ASSUME Tidy, [Next]_vars PROVE Tidy'
    OBVIOUS
  <2> USE DEF Tidy, Device
  <2>1. CASE \E c \in Calls : Start(c)
    BY <2>1 DEF Start
  <2>2. CASE OpenNode
    BY <2>2 DEF OpenNode
  <2>3. CASE NoNodeLeft
    BY <2>3 DEF NoNodeLeft
  <2>4. CASE NameMatches
    BY <2>4 DEF NameMatches
  <2>5. CASE NameDiffers
    BY <2>5 DEF NameDiffers
  <2>6. CASE phase = "body" /\ phase' \in {"body", "unwind"} /\ fds' = fds /\ node' = node
    BY <2>6
  <2>7. CASE \/ Create \/ MmapOffset \/ MapAndFill \/ BindVa \/ Submit \/ WaitIdle
             \/ CopyRows \/ Query \/ RefusedAndIgnored
    BY <2>6, <2>7 DEF Create, MmapOffset, MapAndFill, BindVa, Submit, WaitIdle,
       CopyRows, Query, RefusedAndIgnored, Doing, Step
  <2>8. CASE Refused
    BY <2>6, <2>8 DEF Refused, Doing
  <2>9. CASE BodyDone
    BY <2>6, <2>9 DEF BodyDone
  <2>10. CASE DropBuffer
    BY <2>10 DEF DropBuffer
  <2>11. CASE CloseNode
    BY <2>11 DEF CloseNode
  <2>12. CASE JobDone
    BY <2>12 DEF JobDone
  <2>13. CASE UNCHANGED vars
    BY <2>13 DEF vars
  <2>14. QED
    BY <2>1, <2>2, <2>3, <2>4, <2>5, <2>7, <2>8, <2>9, <2>10, <2>11, <2>12, <2>13
       DEF Next, Working
<1>3. QED
  BY <1>1, <1>2, PTL DEF Spec

(* A call that has returned left no node open, and no buffer allocated,    *)
(* mapped or bound, whichever kernel calls were refused.                   *)
THEOREM CallsAreTidy == Spec => []NothingLeftBehind
<1>1. Tidy => NothingLeftBehind
  BY DEF Tidy, NothingLeftBehind
<1>2. QED
  BY <1>1, TidyHolds, PTL

-----------------------------------------------------------------------------
(* Addresses. *)

LEMMA MultipleHasNoRemainder ==
  ASSUME NEW a \in Nat \ {0}, NEW q \in Nat
  PROVE  (q * a) % a = 0
<1> DEFINE d == (q * a) \div a
           m == (q * a) % a
<1>1. q * a \in Int /\ q * a = a * d + m /\ m \in 0 .. a - 1 /\ d \in Int
  OBVIOUS
<1>2. m = a * (q - d)
  BY <1>1
<1>3. CASE q - d >= 1
  <2>1. a * (q - d) = a + a * (q - d - 1) /\ a * (q - d - 1) >= 0
    BY <1>1, <1>3
  <2>2. QED
    BY <1>1, <1>2, <2>1
<1>4. CASE q - d <= -1
  <2>1. a * (q - d) = a * (q - d + 1) - a /\ a * (q - d + 1) <= 0
    BY <1>1, <1>4
  <2>2. QED
    BY <1>1, <1>2, <2>1
<1>5. QED
  BY <1>1, <1>2, <1>3, <1>4

(* Rounding up to pages gives the smallest multiple that is not below.     *)
LEMMA VaAlignUpIsUp ==
  ASSUME NEW v \in Nat
  PROVE  /\ VaAlignUp(v) \in Nat /\ v <= VaAlignUp(v) /\ VaAlignUp(v) < v + PageSize
         /\ \E q \in Nat : VaAlignUp(v) = q * PageSize
<1> DEFINE q == (v + PageSize - 1) \div PageSize
           m == (v + PageSize - 1) % PageSize
<1>1. PageSize \in Nat \ {0}
  BY PageSizeAssumption
<1>2. v + PageSize - 1 \in Nat /\ q \in Nat /\ m \in 0 .. PageSize - 1
  BY <1>1
<1>3. v + PageSize - 1 = PageSize * q + m
  BY <1>1
<1>4. VaAlignUp(v) = q * PageSize
  BY DEF VaAlignUp
<1>5. \A x \in Nat : x * PageSize \in Nat /\ x * PageSize = PageSize * x
  BY <1>1
<1> HIDE DEF q, m
<1>6. VaAlignUp(v) \in Nat /\ VaAlignUp(v) = v + PageSize - 1 - m
  BY <1>1, <1>2, <1>3, <1>4, <1>5
<1>7. v <= VaAlignUp(v) /\ VaAlignUp(v) < v + PageSize
  BY <1>1, <1>2, <1>6
<1>8. \E x \in Nat : VaAlignUp(v) = x * PageSize
  BY <1>2, <1>4
<1>9. QED
  BY <1>6, <1>7, <1>8

LEMMA MultiplesApart ==
  ASSUME NEW a \in Nat, NEW x \in Nat, NEW y \in Nat, x * a < y * a
  PROVE  x * a + a <= y * a
<1>1. x < y
  <2>1. SUFFICES ASSUME y <= x PROVE FALSE
    OBVIOUS
  <2>2. y * a <= x * a /\ x * a \in Nat /\ y * a \in Nat
    BY <2>1, TimesIsMonotonic
  <2>3. QED
    BY <2>2
<1>2. (x + 1) * a <= y * a
  BY <1>1, TimesIsMonotonic
<1>3. QED
  BY <1>2

(* A buffer placed at a page ends, with the pages it is rounded up to, no  *)
(* later than where the next one is placed.                                *)
LEMMA NextVaIsAfter ==
  ASSUME NEW k \in Nat, NEW bytes \in Nat
  PROVE  k * PageSize + BufferSize(bytes) <= NextVa(k * PageSize, bytes)
<1> DEFINE va == k * PageSize
<1>1. PageSize \in Nat \ {0} /\ va \in Nat
  BY PageSizeAssumption
<1>2. PICK x \in Nat : VaAlignUp(bytes) = x * PageSize
  BY VaAlignUpIsUp
<1>3. va + bytes \in Nat
  BY <1>1
<1>4. PICK y \in Nat : VaAlignUp(va + bytes) = y * PageSize
  BY <1>3, VaAlignUpIsUp
<1>5. va + bytes <= y * PageSize /\ y * PageSize \in Nat /\ x * PageSize < bytes + PageSize
      /\ x * PageSize \in Nat
  BY <1>2, <1>3, <1>4, VaAlignUpIsUp
<1>6. k + x \in Nat /\ (k + x) * PageSize = va + x * PageSize
  BY <1>1
<1>7. (k + x) * PageSize <= y * PageSize
  <2>1. SUFFICES ASSUME y * PageSize < (k + x) * PageSize PROVE FALSE
    BY <1>1, <1>5, <1>6
  <2>2. y * PageSize + PageSize <= (k + x) * PageSize
    BY <1>1, <1>6, <2>1, MultiplesApart
  <2>3. QED
    BY <1>1, <1>5, <1>6, <2>2
<1>8. QED
  BY <1>2, <1>4, <1>6, <1>7 DEF BufferSize, NextVa

(* Where the buffers of a product are placed: each at a page, and each     *)
(* after all the pages of those placed before it.                          *)
LEMMA BuffersInARow ==
  ASSUME NEW s \in Shape, s.batch # 0
  PROVE  /\ \A b \in Buffers : VaOfBuffer(s, b) % PageSize = 0
         /\ \A b, o \in Buffers : b # o =>
              VaEnd(s, b) <= VaOfBuffer(s, o) \/ VaEnd(s, o) <= VaOfBuffer(s, b)
<1> DEFINE Placed(va) == \E k \in Nat : va = k * PageSize
           srcVa == VaOfSrc
           weightsVa == VaOfWeights(s)
           dstVa == NextVa(weightsVa, WbBytes(s))
<1>1. PageSize \in Nat \ {0} /\ ShaderBytes \in Nat
  BY PageSizeAssumption, ShaderAssumption
<1>2. SrcBytes(s) \in Nat /\ WbBytes(s) \in Nat /\ DstBytes(s) \in Nat
  <2>1. s.batch - 1 \in Nat /\ s.stride \in Nat /\ s.in \in Nat /\ s.out \in Nat /\ s.elem \in Nat
    BY DEF Shape
  <2>2. QED
    BY <2>1 DEF SrcBytes, WbBytes, DstBytes, LastBase
<1>3. Placed(ShaderVa)
  <2>1. ShaderVa = PageSize * (ShaderVa \div PageSize) + (ShaderVa % PageSize)
        /\ ShaderVa \div PageSize \in Nat
    BY <1>1, ShaderAssumption
  <2>2. ShaderVa = (ShaderVa \div PageSize) * PageSize
    BY <1>1, <2>1, ShaderAssumption
  <2>3. QED
    BY <2>1, <2>2
<1>4. ASSUME NEW va, NEW bytes \in Nat, Placed(va)
      PROVE  /\ Placed(NextVa(va, bytes)) /\ va \in Nat /\ NextVa(va, bytes) \in Nat
             /\ va + BufferSize(bytes) <= NextVa(va, bytes)
             /\ va <= NextVa(va, bytes) /\ BufferSize(bytes) \in Nat
  <2>1. PICK k \in Nat : va = k * PageSize
    BY <1>4
  <2>2. va \in Nat /\ va + bytes \in Nat
    BY <1>1, <2>1
  <2>3. NextVa(va, bytes) \in Nat /\ Placed(NextVa(va, bytes)) /\ va + bytes <= NextVa(va, bytes)
    BY <2>2, VaAlignUpIsUp DEF NextVa
  <2>4. va + BufferSize(bytes) <= NextVa(va, bytes)
    BY <2>1, NextVaIsAfter
  <2>5. BufferSize(bytes) \in Nat
    BY VaAlignUpIsUp DEF BufferSize
  <2>6. QED
    BY <2>2, <2>3, <2>4, <2>5
<1>5. Placed(srcVa) /\ Placed(weightsVa) /\ Placed(dstVa)
  <2> HIDE DEF Placed
  <2>1. Placed(srcVa)
    BY <1>1, <1>3, <1>4 DEF VaOfSrc
  <2>2. Placed(weightsVa)
    BY <1>2, <1>4, <2>1 DEF VaOfWeights
  <2>3. Placed(dstVa)
    BY <1>2, <1>4, <2>2
  <2>4. QED
    BY <2>1, <2>2, <2>3
<1>6. /\ VaEnd(s, "shader") <= srcVa
      /\ VaEnd(s, "src") <= weightsVa
      /\ VaEnd(s, "weights") <= dstVa
  BY <1>1, <1>2, <1>3, <1>4, <1>5 DEF VaEnd, VaOfBuffer, BytesOfBuffer, VaOfSrc, VaOfWeights
<1>7. srcVa <= weightsVa /\ weightsVa <= dstVa /\ ShaderVa <= srcVa
  BY <1>1, <1>2, <1>3, <1>4, <1>5 DEF VaOfSrc, VaOfWeights
<1>8. ShaderVa \in Nat /\ srcVa \in Nat /\ weightsVa \in Nat /\ dstVa \in Nat
  BY <1>1, <1>2, <1>3, <1>4, <1>5
<1>9. /\ VaEnd(s, "shader") \in Nat /\ VaEnd(s, "src") \in Nat /\ VaEnd(s, "weights") \in Nat
  BY <1>1, <1>2, <1>8, VaAlignUpIsUp DEF VaEnd, VaOfBuffer, BytesOfBuffer, BufferSize
<1>10. \A va : Placed(va) => va % PageSize = 0
  BY <1>1, MultipleHasNoRemainder
<1>11. /\ VaOfBuffer(s, "shader") = ShaderVa /\ VaOfBuffer(s, "src") = srcVa
       /\ VaOfBuffer(s, "weights") = weightsVa /\ VaOfBuffer(s, "dst") = dstVa
  BY DEF VaOfBuffer
<1> HIDE DEF Placed, srcVa, weightsVa, dstVa
<1>12. \A b \in Buffers : VaOfBuffer(s, b) % PageSize = 0
  BY <1>3, <1>5, <1>10, <1>11 DEF Buffers, MatmulBuffers
<1>13. \A b, o \in Buffers : b # o =>
         VaEnd(s, b) <= VaOfBuffer(s, o) \/ VaEnd(s, o) <= VaOfBuffer(s, b)
  BY <1>6, <1>7, <1>8, <1>9, <1>11 DEF Buffers, MatmulBuffers
<1>14. QED
  BY <1>12, <1>13

(* What is left of a body are instructions about known buffers.            *)
Known == todo \in Seq(Instructions) /\ bound \subseteq Buffers

LEMMA BodiesAreInstructions ==
  ASSUME NEW op \in Ops
  PROVE  Body(op) \in Seq(Instructions)
<1>1. \A b \in Buffers : Alloc(b) \in Seq(Instructions)
  BY DEF Alloc, I, Instructions
<1>2. /\ Alloc("shader") \in Seq(Instructions) /\ Alloc("src") \in Seq(Instructions)
      /\ Alloc("weights") \in Seq(Instructions) /\ Alloc("dst") \in Seq(Instructions)
  BY <1>1 DEF Buffers, MatmulBuffers
<1>3. \A p, q \in Seq(Instructions) : p \o q \in Seq(Instructions)
  OBVIOUS
<1>4. /\ <<I("bind", "shader"), I("bind", "src"), I("bind", "weights"), I("bind", "dst"),
           I("submit", "dst"), I("wait", "dst"), I("copy", "dst")>> \in Seq(Instructions)
      /\ <<I("submit", "dst"), I("settle", "dst"), I("copy", "dst")>> \in Seq(Instructions)
      /\ <<I("bind", "shader")>> \in Seq(Instructions)
      /\ <<I("bind", "src")>> \in Seq(Instructions)
      /\ <<I("bind", "dst")>> \in Seq(Instructions)
      /\ <<I("trybind", "src")>> \in Seq(Instructions)
      /\ <<I("device", "src"), I("query", "src"), I("query", "src")>> \in Seq(Instructions)
  BY DEF I, Instructions, Buffers, MatmulBuffers
<1>5. ProductBody \in Seq(Instructions)
  BY <1>2, <1>3, <1>4, Zenon DEF ProductBody
<1>6. ScaleBody \in Seq(Instructions)
  BY <1>2, <1>3, <1>4, Zenon DEF ScaleBody
<1>7. GemBody \in Seq(Instructions)
  BY <1>2, <1>3, <1>4, Zenon DEF GemBody
<1>8. ProbeBody \in Seq(Instructions)
  BY <1>4 DEF ProbeBody
<1>9. QED
  BY <1>5, <1>6, <1>7, <1>8 DEF Body, Ops, Products

LEMMA HeadIsKnown ==
  ASSUME todo \in Seq(Instructions), todo # <<>>
  PROVE  Buf \in Buffers
<1>1. Head(todo) \in Instructions
  OBVIOUS
<1>2. QED
  BY <1>1 DEF Buf, Instructions

LEMMA KnownHolds == Spec => []Known
<1>1. Init => Known
  BY DEF Init, Known
<1>2. AtWork /\ Known /\ [Next]_vars => Known'
  <2> SUFFICES ASSUME AtWork, Known, [Next]_vars PROVE Known'
    OBVIOUS
  <2> USE DEF Known, Device
  <2>1. CASE NameMatches
    BY <2>1, CallsAssumption, BodiesAreInstructions DEF NameMatches, AtWork
  <2>2. CASE todo' = Tail(todo) /\ todo # <<>> /\ bound' = bound
    BY <2>2
  <2>3. CASE \/ Create \/ MmapOffset \/ MapAndFill \/ Submit \/ WaitIdle
             \/ CopyRows \/ Query \/ RefusedAndIgnored
    BY <2>2, <2>3 DEF Create, MmapOffset, MapAndFill, Submit, WaitIdle,
       CopyRows, Query, RefusedAndIgnored, Doing, Step
  <2>4. CASE BindVa
    <3>1. Buf \in Buffers /\ todo # <<>>
      BY <2>4, HeadIsKnown DEF BindVa, Doing
    <3>2. QED
      BY <2>4, <3>1 DEF BindVa, Step
  <2>5. CASE (todo' = todo \/ todo' = <<>>) /\ (bound' = bound \/ bound' = {})
    <3>1. todo' \in Seq(Instructions)
      <4>1. <<>> \in Seq(Instructions) /\ todo \in Seq(Instructions)
        OBVIOUS
      <4>2. QED
        BY <2>5, <4>1, Zenon
    <3>2. bound' \subseteq Buffers
      BY <2>5
    <3>3. QED
      BY <3>1, <3>2
  <2>6. CASE \E c \in Calls : Start(c)
    BY <2>5, <2>6 DEF Start
  <2>7. CASE \/ OpenNode \/ NoNodeLeft \/ NameDiffers \/ Refused \/ BodyDone
             \/ DropBuffer \/ CloseNode \/ JobDone \/ UNCHANGED vars
    BY <2>5, <2>7 DEF OpenNode, NoNodeLeft, NameDiffers, Refused, BodyDone,
       DropBuffer, CloseNode, JobDone, vars
  <2>8. QED
    BY <2>1, <2>3, <2>4, <2>6, <2>7 DEF Next, Working
<1>3. QED
  BY <1>1, <1>2, AtWorkHolds, PTL DEF Spec

(* A product never has a buffer refused for its address: whatever the      *)
(* sizes, its four buffers are placed at pages, one after the other.       *)
THEOREM BindingsAreFree == Spec => []BindingsNeverCollide
<1>1. AtWork /\ Known => BindingsNeverCollide
  <2>1. SUFFICES ASSUME AtWork, Known, call.op \in Products, Doing("bind")
                 PROVE  Bindable(Buf)
    BY DEF BindingsNeverCollide
  <2>2. Buf \in Buffers /\ bound \subseteq Buffers
    BY <2>1, HeadIsKnown DEF Known, Doing
  <2>3. call.shape \in Shape /\ call.shape.batch # 0
    BY <2>1, CallsAssumption
       DEF AtWork, Doing, Products, Accepted, MatmulAccepts, GemmAccepts
  <2>4. \A b : Va(b) = VaOfBuffer(call.shape, b) /\ EndVa(b) = VaEnd(call.shape, b)
    BY <2>1 DEF Va, EndVa
  <2>5. QED
    BY <2>2, <2>3, <2>4, BuffersInARow DEF Bindable
<1>2. QED
  BY <1>1, AtWorkHolds, KnownHolds, PTL

-----------------------------------------------------------------------------
(* A false answer. *)

Plain(p) == \A i \in 1 .. Len(p) : p[i].do \notin {"copy", "device"}

(* Nothing follows the copying of the rows. *)
CopiesLast(p) ==
  \A i \in 1 .. Len(p) : p[i].do # "device" /\ (p[i].do = "copy" => i = Len(p))

LEMMA PlainThenCopiesLast ==
  ASSUME NEW p \in Seq(Instructions), NEW q \in Seq(Instructions), Plain(p)
  PROVE  /\ Plain(q) => Plain(p \o q)
         /\ CopiesLast(q) => CopiesLast(p \o q)
<1>1. /\ Len(p \o q) = Len(p) + Len(q) /\ Len(p) \in Nat /\ Len(q) \in Nat
      /\ \A i \in 1 .. Len(p) : (p \o q)[i] = p[i]
      /\ \A i \in Len(p) + 1 .. Len(p) + Len(q) :
           (p \o q)[i] = q[i - Len(p)] /\ i - Len(p) \in 1 .. Len(q)
  OBVIOUS
<1>2. \A i \in 1 .. Len(p \o q) : i \in 1 .. Len(p) \/ i \in Len(p) + 1 .. Len(p) + Len(q)
  BY <1>1
<1>3. ASSUME Plain(q) PROVE Plain(p \o q)
  BY <1>1, <1>2, <1>3 DEF Plain
<1>4. ASSUME CopiesLast(q), NEW i \in 1 .. Len(p \o q)
      PROVE  (p \o q)[i].do # "device" /\ ((p \o q)[i].do = "copy" => i = Len(p \o q))
  <2>1. CASE i \in 1 .. Len(p)
    BY <1>1, <2>1 DEF Plain
  <2>2. CASE i \in Len(p) + 1 .. Len(p) + Len(q)
    <3>1. (p \o q)[i] = q[i - Len(p)] /\ i - Len(p) \in 1 .. Len(q)
      BY <1>1, <2>2
    <3>2. q[i - Len(p)].do # "device" /\ (q[i - Len(p)].do = "copy" => i - Len(p) = Len(q))
      BY <1>4, <3>1 DEF CopiesLast
    <3>3. i - Len(p) = Len(q) => i = Len(p \o q)
      BY <1>1, <2>2
    <3>4. QED
      BY <3>1, <3>2, <3>3
  <2>3. QED
    BY <1>2, <1>4, <2>1, <2>2
<1>5. QED
  BY <1>3, <1>4 DEF CopiesLast

LEMMA ProductCopiesLast == CopiesLast(ProductBody)
<1> DEFINE last == <<I("bind", "shader"), I("bind", "src"), I("bind", "weights"),
                     I("bind", "dst"), I("submit", "dst"), I("wait", "dst"), I("copy", "dst")>>
           a == Alloc("shader") \o Alloc("src")
           b == a \o Alloc("weights")
           c == b \o Alloc("dst")
<1>1. \A x \in Buffers : Alloc(x) \in Seq(Instructions) /\ Plain(Alloc(x))
  BY DEF Alloc, I, Instructions, Plain
<1>2. last \in Seq(Instructions) /\ CopiesLast(last)
  BY DEF I, Instructions, CopiesLast, Buffers, MatmulBuffers
<1>3. {"shader", "src", "weights", "dst"} = Buffers
  BY DEF Buffers, MatmulBuffers
<1> HIDE DEF last
<1>4. a \in Seq(Instructions) /\ Plain(a)
  BY <1>1, <1>3, PlainThenCopiesLast
<1>5. b \in Seq(Instructions) /\ Plain(b)
  <2> HIDE DEF a
  <2> QED BY <1>1, <1>3, <1>4, PlainThenCopiesLast
<1>6. c \in Seq(Instructions) /\ Plain(c)
  <2> HIDE DEF b
  <2> QED BY <1>1, <1>3, <1>5, PlainThenCopiesLast
<1>7. CopiesLast(c \o last)
  <2> HIDE DEF c
  <2> QED BY <1>2, <1>6, PlainThenCopiesLast
<1>8. QED
  BY <1>7 DEF ProductBody, last

(* While a product is at work its rows are the last thing it copies, and   *)
(* what fails it fails it before.                                          *)
Quiet ==
  call.op \in Products =>
    /\ dst # "untouched" => ok /\ phase \in {"body", "unwind", "idle"}
    /\ phase = "body" =>
         /\ ok
         /\ dst # "untouched" => todo = <<>>
         /\ CopiesLast(todo)

(* A product that returned false left the caller's output as it was,       *)
(* wherever on its way it was refused.                                     *)
THEOREM RefusalsLeaveTheOutput == Spec => []FalseLeavesTheOutput
<1>1. Init => Quiet
  BY DEF Init, Quiet
<1>2. Known /\ Quiet /\ [Next]_vars => Quiet'
  <2> SUFFICES ASSUME Known, Quiet, [Next]_vars, call'.op \in Products PROVE Quiet'
    BY DEF Quiet
  <2> USE DEF Device
  <2>1. CASE \E c \in Calls : Start(c)
    BY <2>1 DEF Start, Quiet
  <2>2. CASE NameMatches
    <3>1. call.op \in Products /\ phase = "name" /\ phase' = "body" /\ ok' = TRUE
          /\ call' = call /\ dst' = dst /\ todo' = Body(call.op)
      BY <2>2 DEF NameMatches
    <3>2. todo' = ProductBody
      BY <3>1 DEF Body, Products
    <3>3. dst = "untouched"
      BY <3>1 DEF Quiet
    <3>4. QED
      BY <3>1, <3>2, <3>3, ProductCopiesLast DEF Quiet
  <2>3. ASSUME phase = "body", phase' = "body", todo # <<>>, todo' = Tail(todo),
               call' = call, ok' = ok, dst' = dst \/ Head(todo).do = "copy"
        PROVE  Quiet'
    <3>1. /\ todo \in Seq(Instructions) /\ Len(todo) \in Nat /\ Len(todo) > 0
          /\ Len(Tail(todo)) = Len(todo) - 1 /\ Head(todo) = todo[1]
          /\ \A i \in 1 .. Len(Tail(todo)) : Tail(todo)[i] = todo[i + 1]
      BY <2>3 DEF Known
    <3>2. dst = "untouched" /\ ok /\ CopiesLast(todo)
      BY <2>3 DEF Quiet
    <3>3. CopiesLast(Tail(todo))
      BY <3>1, <3>2 DEF CopiesLast
    <3>4. CASE Head(todo).do = "copy"
      <4>1. Len(todo) = 1
        <5>1. 1 \in 1 .. Len(todo) /\ todo[1].do = "copy"
          BY <3>1, <3>4
        <5>2. QED
          BY <3>2, <5>1 DEF CopiesLast
      <4>2. Tail(todo) = <<>>
        <5>1. Tail(todo) \in Seq(Instructions) /\ Len(Tail(todo)) = 0
          BY <3>1, <4>1, <2>3, HeadTailProperties
        <5>2. QED
          BY <5>1, EmptySeq
      <4>3. QED
        BY <2>3, <3>2, <3>3, <4>2 DEF Quiet
    <3>5. CASE dst' = dst
      BY <2>3, <3>2, <3>3, <3>5 DEF Quiet
    <3>6. QED
      BY <2>3, <3>4, <3>5
  <2>4. CASE \/ Create \/ MmapOffset \/ MapAndFill \/ BindVa \/ Submit \/ WaitIdle
             \/ CopyRows \/ Query
    BY <2>3, <2>4 DEF Create, MmapOffset, MapAndFill, BindVa, Submit, WaitIdle,
       CopyRows, Query, Doing, Step
  <2>5. CASE RefusedAndIgnored
    <3>1. phase = "body" /\ todo # <<>> /\ call' = call /\ dst' = dst
          /\ phase' = "body" /\ todo' = Tail(todo)
      BY <2>5 DEF RefusedAndIgnored, Doing, Step
    <3>2. CopiesLast(todo) /\ ok
      BY <3>1 DEF Quiet
    <3>3. Head(todo).do # "device"
      BY <3>1, <3>2 DEF Known, CopiesLast
    <3>4. ok' = ok
      BY <2>5, <3>2, <3>3 DEF RefusedAndIgnored
    <3>5. QED
      BY <2>3, <3>1, <3>4
  <2>6. CASE Refused
    BY <2>6 DEF Refused, Doing, Quiet
  <2>7. CASE BodyDone
    BY <2>7 DEF BodyDone, Quiet
  <2>8. CASE OpenNode \/ NoNodeLeft \/ NameDiffers
    BY <2>8 DEF OpenNode, NoNodeLeft, NameDiffers, Quiet
  <2>9. CASE DropBuffer \/ CloseNode
    BY <2>9 DEF DropBuffer, CloseNode, Quiet
  <2>10. CASE JobDone
    BY <2>10 DEF JobDone, Quiet
  <2>11. CASE UNCHANGED vars
    BY <2>11 DEF vars, Quiet
  <2>12. QED
    BY <2>1, <2>2, <2>4, <2>5, <2>6, <2>7, <2>8, <2>9, <2>10, <2>11 DEF Next, Working
<1>3. Quiet => FalseLeavesTheOutput
  BY DEF Quiet, FalseLeavesTheOutput
<1>4. QED
  BY <1>1, <1>2, <1>3, KnownHolds, PTL DEF Spec

-----------------------------------------------------------------------------
(* A true answer. *)

(* Does a program that copies end by submitting the job, waiting for it    *)
(* and copying, once each, with every buffer mapped before?                *)
EndsWithTheJob(p) ==
  \A i \in 1 .. Len(p) :
    /\ p[i].do = "copy" <=> i = Len(p)
    /\ p[i].do = "wait" <=> i = Len(p) - 1
    /\ p[i].do = "submit" <=> i = Len(p) - 2
    /\ p[i].do \notin {"settle", "trybind", "query", "device"}

Prepares(p) == \A i \in 1 .. Len(p) : p[i].do \in {"create", "offset", "mmap"}

(* Allocating more buffers first makes no difference to how it ends.       *)
LEMMA PreparedEndsTheSame ==
  ASSUME NEW p \in Seq(Instructions), NEW q \in Seq(Instructions), Prepares(p)
  PROVE  /\ Prepares(q) => Prepares(p \o q)
         /\ EndsWithTheJob(q) /\ Len(q) >= 3 => EndsWithTheJob(p \o q) /\ Len(p \o q) >= 3
<1>1. /\ Len(p \o q) = Len(p) + Len(q) /\ Len(p) \in Nat /\ Len(q) \in Nat
      /\ \A i \in 1 .. Len(p) : (p \o q)[i] = p[i]
      /\ \A i \in Len(p) + 1 .. Len(p) + Len(q) :
           (p \o q)[i] = q[i - Len(p)] /\ i - Len(p) \in 1 .. Len(q)
  OBVIOUS
<1>2. \A i \in 1 .. Len(p \o q) : i \in 1 .. Len(p) \/ i \in Len(p) + 1 .. Len(p) + Len(q)
  BY <1>1
<1>3. ASSUME Prepares(q) PROVE Prepares(p \o q)
  BY <1>1, <1>2, <1>3 DEF Prepares
<1>4. ASSUME EndsWithTheJob(q), Len(q) >= 3, NEW i \in 1 .. Len(p \o q)
      PROVE  /\ (p \o q)[i].do = "copy" <=> i = Len(p \o q)
             /\ (p \o q)[i].do = "wait" <=> i = Len(p \o q) - 1
             /\ (p \o q)[i].do = "submit" <=> i = Len(p \o q) - 2
             /\ (p \o q)[i].do \notin {"settle", "trybind", "query", "device"}
  <2>1. CASE i \in 1 .. Len(p)
    <3>1. (p \o q)[i].do \in {"create", "offset", "mmap"}
      BY <1>1, <2>1 DEF Prepares
    <3>2. i < Len(p \o q) - 2
      BY <1>1, <1>4, <2>1
    <3>3. i # Len(p \o q) /\ i # Len(p \o q) - 1 /\ i # Len(p \o q) - 2
      BY <1>1, <2>1, <3>2
    <3>4. QED
      BY <3>1, <3>3
  <2>2. CASE i \in Len(p) + 1 .. Len(p) + Len(q)
    <3> DEFINE k == i - Len(p)
    <3>1. (p \o q)[i] = q[k] /\ k \in 1 .. Len(q)
      BY <1>1, <2>2
    <3>2. /\ q[k].do = "copy" <=> k = Len(q)
          /\ q[k].do = "wait" <=> k = Len(q) - 1
          /\ q[k].do = "submit" <=> k = Len(q) - 2
          /\ q[k].do \notin {"settle", "trybind", "query", "device"}
      BY <1>4, <3>1 DEF EndsWithTheJob
    <3>3. /\ k = Len(q) <=> i = Len(p \o q)
          /\ k = Len(q) - 1 <=> i = Len(p \o q) - 1
          /\ k = Len(q) - 2 <=> i = Len(p \o q) - 2
      BY <1>1, <2>2
    <3>4. QED
      BY <3>1, <3>2, <3>3
  <2>3. QED
    BY <1>2, <1>4, <2>1, <2>2
<1>5. EndsWithTheJob(q) /\ Len(q) >= 3 => EndsWithTheJob(p \o q)
  BY <1>4 DEF EndsWithTheJob
<1>6. Len(q) >= 3 => Len(p \o q) >= 3
  BY <1>1
<1>7. QED
  BY <1>3, <1>5, <1>6

(* radeon_matmul and radeon_gemm do. *)
LEMMA ProductEndsWithTheJob ==
  EndsWithTheJob(ProductBody) /\ Len(ProductBody) >= 3
<1> DEFINE last == <<I("bind", "shader"), I("bind", "src"), I("bind", "weights"),
                     I("bind", "dst"), I("submit", "dst"), I("wait", "dst"), I("copy", "dst")>>
           a == Alloc("shader") \o Alloc("src")
           b == a \o Alloc("weights")
           c == b \o Alloc("dst")
<1>1. \A x \in Buffers : Alloc(x) \in Seq(Instructions) /\ Prepares(Alloc(x))
  BY DEF Alloc, I, Instructions, Prepares
<1>2. last \in Seq(Instructions) /\ EndsWithTheJob(last) /\ Len(last) >= 3
  BY DEF I, Instructions, EndsWithTheJob, Buffers, MatmulBuffers
<1>3. {"shader", "src", "weights", "dst"} = Buffers
  BY DEF Buffers, MatmulBuffers
<1> HIDE DEF last
<1>4. a \in Seq(Instructions) /\ Prepares(a)
  BY <1>1, <1>3, PreparedEndsTheSame
<1>5. b \in Seq(Instructions) /\ Prepares(b)
  <2> HIDE DEF a
  <2> QED BY <1>1, <1>3, <1>4, PreparedEndsTheSame
<1>6. c \in Seq(Instructions) /\ Prepares(c)
  <2> HIDE DEF b
  <2> QED BY <1>1, <1>3, <1>5, PreparedEndsTheSame
<1>7. EndsWithTheJob(c \o last) /\ Len(c \o last) >= 3
  <2> HIDE DEF c
  <2> QED BY <1>2, <1>6, PreparedEndsTheSame
<1>8. QED
  BY <1>7 DEF ProductBody, last

(* How far a product has come: nothing runs before the submission, the     *)
(* wait sees the job end, the copy finds its result in the buffer, and     *)
(* what was copied is in the caller's hands when the body is over.         *)
Delivers ==
  /\ phase \in {"idle", "open", "name"} => job = "none"
  /\ phase \in {"open", "name"} => ~ok
  /\ call.op \in Products =>
       /\ phase = "body" =>
            /\ EndsWithTheJob(todo)
            /\ Len(todo) >= 3 => job = "none"
            /\ Len(todo) = 2 => job = "running" \/ (job = "done" /\ output = Computed)
            /\ Len(todo) = 1 => job = "done" /\ output = Computed
            /\ Len(todo) = 0 => dst = Computed
       /\ phase \in {"unwind", "idle"} /\ ok => dst = Computed

(* A step of the body of a product, by what it takes from the program.     *)
LEMMA BodyStepDelivers ==
  ASSUME Known, Delivers, call.op \in Products, phase = "body", phase' = "body",
         call' = call, ok' = ok, todo # <<>>, todo' = Tail(todo),
         Head(todo).do = "submit" => job' = "running",
         Head(todo).do = "wait" => job = "done" /\ job' = job /\ output' = output,
         Head(todo).do = "copy" => (output = Computed => dst' = Computed),
         Head(todo).do \notin {"submit", "wait", "copy"} => job' = job
  PROVE  Delivers'
<1>1. /\ todo \in Seq(Instructions) /\ Len(todo) \in Nat /\ Len(todo) > 0
      /\ Len(Tail(todo)) = Len(todo) - 1 /\ Head(todo) = todo[1]
      /\ \A i \in 1 .. Len(Tail(todo)) : Tail(todo)[i] = todo[i + 1]
  BY DEF Known
<1>2. EndsWithTheJob(todo)
  BY DEF Delivers
<1>3. EndsWithTheJob(Tail(todo))
  <2> SUFFICES ASSUME NEW i \in 1 .. Len(Tail(todo))
               PROVE  /\ Tail(todo)[i].do = "copy" <=> i = Len(Tail(todo))
                      /\ Tail(todo)[i].do = "wait" <=> i = Len(Tail(todo)) - 1
                      /\ Tail(todo)[i].do = "submit" <=> i = Len(Tail(todo)) - 2
                      /\ Tail(todo)[i].do \notin {"settle", "trybind", "query", "device"}
    BY DEF EndsWithTheJob
  <2>1. i + 1 \in 1 .. Len(todo) /\ Tail(todo)[i] = todo[i + 1]
    BY <1>1
  <2>2. /\ todo[i + 1].do = "copy" <=> i + 1 = Len(todo)
        /\ todo[i + 1].do = "wait" <=> i + 1 = Len(todo) - 1
        /\ todo[i + 1].do = "submit" <=> i + 1 = Len(todo) - 2
        /\ todo[i + 1].do \notin {"settle", "trybind", "query", "device"}
    BY <1>2, <2>1 DEF EndsWithTheJob
  <2>3. /\ i + 1 = Len(todo) <=> i = Len(Tail(todo))
        /\ i + 1 = Len(todo) - 1 <=> i = Len(Tail(todo)) - 1
        /\ i + 1 = Len(todo) - 2 <=> i = Len(Tail(todo)) - 2
    BY <1>1, <2>1
  <2>4. QED
    BY <2>1, <2>2, <2>3
<1>4. /\ Head(todo).do = "copy" <=> Len(todo) = 1
      /\ Head(todo).do = "wait" <=> Len(todo) = 2
      /\ Head(todo).do = "submit" <=> Len(todo) = 3
  <2>1. 1 \in 1 .. Len(todo)
    BY <1>1
  <2>2. /\ todo[1].do = "copy" <=> 1 = Len(todo)
        /\ todo[1].do = "wait" <=> 1 = Len(todo) - 1
        /\ todo[1].do = "submit" <=> 1 = Len(todo) - 2
    BY <1>2, <2>1 DEF EndsWithTheJob
  <2>3. QED
    BY <1>1, <2>2
<1>5. Computed' = Computed
  BY DEF Computed
<1>6. /\ Len(todo') >= 3 => job' = "none"
      /\ Len(todo') = 2 => job' = "running"
      /\ Len(todo') = 1 => job' = "done" /\ output' = Computed
      /\ Len(todo') = 0 => dst' = Computed
  <2>1. Len(todo') = Len(todo) - 1 /\ Len(todo) \in Nat /\ Len(todo) > 0
    BY <1>1
  <2>2. /\ Len(todo) >= 3 => job = "none"
        /\ Len(todo) = 2 /\ job = "done" => output = Computed
        /\ Len(todo) = 1 => output = Computed
    BY DEF Delivers
  <2>3. Len(todo) = 1 => dst' = Computed
    BY <1>4, <2>2
  <2>4. Len(todo) = 2 => job' = "done" /\ output' = Computed
    BY <1>4, <2>2
  <2>5. Len(todo) = 3 => job' = "running"
    BY <1>4
  <2>6. Len(todo) > 3 => job' = "none"
    <3> SUFFICES ASSUME Len(todo) > 3 PROVE job' = "none"
      OBVIOUS
    <3>1. Head(todo).do \notin {"submit", "wait", "copy"}
      BY <1>1, <1>4
    <3>2. job = "none"
      BY <2>1, <2>2
    <3>3. QED
      BY <3>1, <3>2
  <2>7. QED
    BY ONLY <2>1, <2>3, <2>4, <2>5, <2>6
<1>7. QED
  BY <1>3, <1>5, <1>6 DEF Delivers

(* Every step of every call keeps it. *)
LEMMA NextDelivers == ASSUME Known, Delivers, [Next]_vars PROVE Delivers'
<1> USE DEF Device
<1>1. CASE \E c \in Calls : Start(c)
  BY <1>1 DEF Start, Delivers
<1>2. CASE NameMatches
  <2>1. /\ phase = "name" /\ phase' = "body" /\ job' = "none" /\ call' = call
        /\ todo' = Body(call.op)
    BY <1>2 DEF NameMatches, Delivers
  <2>2. call.op \in Products => todo' = ProductBody
    BY <2>1 DEF Body, Products
  <2>3. call.op \in Products => EndsWithTheJob(todo') /\ Len(todo') >= 3
    BY <2>2, ProductEndsWithTheJob
  <2>4. Len(todo') \in Int => (Len(todo') >= 3 =>
          Len(todo') # 2 /\ Len(todo') # 1 /\ Len(todo') # 0)
    OBVIOUS
  <2>5. call.op \in Products => Len(todo') \in Int
    BY <2>2, BodiesAreInstructions DEF Body, Ops, Products
  <2>6. QED
    BY <2>1, <2>3, <2>4, <2>5 DEF Delivers
<1>3. ASSUME phase = "body", phase' = "body", call' = call, call.op \notin Products
      PROVE  Delivers'
  BY <1>3 DEF Delivers
<1>4. ASSUME phase = "body", todo # <<>> PROVE Head(todo) \in Instructions
  BY <1>4 DEF Known
<1>5. CASE Create \/ MmapOffset \/ MapAndFill \/ BindVa \/ Query
  <2>1. /\ phase = "body" /\ todo # <<>> /\ phase' = "body" /\ todo' = Tail(todo)
        /\ call' = call /\ ok' = ok /\ job' = job
        /\ Head(todo).do \notin {"submit", "wait", "copy"}
    BY <1>5 DEF Create, MmapOffset, MapAndFill, BindVa, Query, Doing, Step
  <2>2. QED
    BY <1>3, <2>1, BodyStepDelivers
<1>6. CASE Submit
  <2>1. /\ phase = "body" /\ todo # <<>> /\ phase' = "body" /\ todo' = Tail(todo)
        /\ call' = call /\ ok' = ok /\ job' = "running" /\ Head(todo).do = "submit"
    BY <1>6 DEF Submit, Doing, Step
  <2>2. QED
    BY <1>3, <2>1, BodyStepDelivers
<1>7. CASE WaitIdle
  <2>1. /\ phase = "body" /\ todo # <<>> /\ phase' = "body" /\ todo' = Tail(todo)
        /\ call' = call /\ ok' = ok /\ job = "done" /\ job' = job /\ output' = output
        /\ Head(todo).do \in {"wait", "settle"}
    BY <1>7 DEF WaitIdle, Doing, Step
  <2>2. QED
    BY <1>3, <2>1, BodyStepDelivers
<1>8. CASE CopyRows
  <2>1. /\ phase = "body" /\ todo # <<>> /\ phase' = "body" /\ todo' = Tail(todo)
        /\ call' = call /\ ok' = ok /\ job' = job /\ output' = output
        /\ Head(todo).do = "copy"
    BY <1>8 DEF CopyRows, Doing, Step
  <2>2. output = Computed => dst' = Computed
    BY <1>8 DEF CopyRows, Computed, Results
  <2>3. QED
    BY <1>3, <2>1, <2>2, BodyStepDelivers
<1>9. CASE RefusedAndIgnored
  <2>1. /\ phase = "body" /\ todo # <<>> /\ phase' = "body" /\ call' = call
        /\ Head(todo).do \in {"trybind", "settle", "query", "device"}
    BY <1>9 DEF RefusedAndIgnored, Doing, Step
  <2>2. call.op \notin Products
    <3> SUFFICES ASSUME call.op \in Products PROVE FALSE
      OBVIOUS
    <3>1. EndsWithTheJob(todo)
      BY <2>1 DEF Delivers
    <3>2. Head(todo) = todo[1] /\ 1 \in 1 .. Len(todo)
      BY <2>1 DEF Known
    <3>3. QED
      BY <2>1, <3>1, <3>2 DEF EndsWithTheJob
  <2>3. QED
    BY <1>3, <2>1, <2>2
<1>10. CASE Refused
  BY <1>10 DEF Refused, Doing, Delivers
<1>11. CASE BodyDone
  <2>1. Len(todo) = 0
    BY <1>11 DEF BodyDone
  <2>2. Computed' = Computed
    BY <1>11 DEF BodyDone, Computed
  <2>3. QED
    BY <1>11, <2>1, <2>2 DEF BodyDone, Delivers
<1>12. CASE OpenNode \/ NoNodeLeft \/ NameDiffers
  <2>1. /\ phase \in {"open", "name"} /\ phase' \in {"idle", "open", "name"}
        /\ job' = job /\ call' = call /\ ok' = ok
    BY <1>12 DEF OpenNode, NoNodeLeft, NameDiffers
  <2>2. QED
    BY <2>1 DEF Delivers
<1>13. CASE DropBuffer \/ CloseNode
  <2>1. /\ phase = "unwind" /\ phase' \in {"unwind", "idle"} /\ call' = call
        /\ ok' = ok /\ dst' = dst /\ (phase' = "idle" => job' = "none")
    BY <1>13 DEF DropBuffer, CloseNode
  <2>2. Computed' = Computed
    BY <2>1 DEF Computed
  <2>3. QED
    BY <2>1, <2>2 DEF Delivers
<1>14. CASE JobDone
  <2>1. /\ job = "running" /\ job' = "done" /\ output' = Computed
        /\ UNCHANGED <<phase, call, todo, ok, dst>>
    BY <1>14 DEF JobDone
  <2>2. Computed' = Computed
    BY <2>1 DEF Computed
  <2>3. QED
    BY <2>1, <2>2 DEF Delivers
<1>15. CASE UNCHANGED vars
  <2>1. Computed' = Computed
    BY <1>15 DEF vars, Computed
  <2>2. QED
    BY <1>15, <2>1 DEF vars, Delivers
<1>16. QED
  BY <1>1, <1>2, <1>5, <1>6, <1>7, <1>8, <1>9, <1>10, <1>11, <1>12, <1>13, <1>14, <1>15
     DEF Next, Working

(* A product that returned true wrote what the device computed for it, for *)
(* every shape: the job was seen to end before the rows were copied, and   *)
(* nothing was copied from a buffer the job had not filled.                *)
THEOREM AnswersAreDelivered == Spec => []TrueMeansTheDevicesAnswer
<1>1. Init => Delivers
  BY DEF Init, Delivers
<1>2. Known /\ Delivers /\ [Next]_vars => Delivers'
  BY NextDelivers
<1>3. Delivers => TrueMeansTheDevicesAnswer
  BY DEF Delivers, TrueMeansTheDevicesAnswer, Computed
<1>4. QED
  BY <1>1, <1>2, <1>3, KnownHolds, PTL DEF Spec

-----------------------------------------------------------------------
(* Types. *)

(* The buffers that the instructions of p create. *)
Created(p) == {b \in Buffers : \E j \in 1 .. Len(p) : p[j] = I("create", b)}

(* Nothing in p maps or binds a buffer that is neither there at its start  *)
(* nor created before.                                                     *)
CreatedFirst(p, have) ==
  \A i \in 1 .. Len(p) : p[i].do \in {"mmap", "bind", "trybind"} =>
    p[i].buf \in have \/ \E j \in 1 .. i - 1 : p[j] = I("create", p[i].buf)

(* One body after another: what the second needs may be what the first     *)
(* creates.                                                                *)
LEMMA CreatedFirstJoins ==
  ASSUME NEW p \in Seq(Instructions), NEW q \in Seq(Instructions), NEW have, NEW later,
         CreatedFirst(p, have), CreatedFirst(q, later), later \subseteq have \cup Created(p)
  PROVE  CreatedFirst(p \o q, have) /\ Created(p) \subseteq Created(p \o q)
         /\ Created(q) \subseteq Created(p \o q)
<1> DEFINE r == p \o q
<1>1. /\ r \in Seq(Instructions) /\ Len(r) = Len(p) + Len(q)
      /\ \A i \in 1 .. Len(p) : r[i] = p[i]
      /\ \A i \in 1 .. Len(q) : r[Len(p) + i] = q[i]
      /\ Len(p) \in Nat /\ Len(q) \in Nat
  OBVIOUS
<1>2. \A i \in 1 .. Len(r) : i \in 1 .. Len(p) \/ \E k \in 1 .. Len(q) : i = Len(p) + k
  <2>1. TAKE i \in 1 .. Len(r)
  <2>2. i \in 1 .. Len(p) \/ (i - Len(p) \in 1 .. Len(q) /\ i = Len(p) + (i - Len(p)))
    BY <1>1
  <2>3. QED
    BY <2>2
<1> HIDE DEF r
<1>3. ASSUME NEW i \in 1 .. Len(r), r[i].do \in {"mmap", "bind", "trybind"}
      PROVE  r[i].buf \in have \/ \E j \in 1 .. i - 1 : r[j] = I("create", r[i].buf)
  <2>1. CASE i \in 1 .. Len(p)
    <3>1. r[i] = p[i]
      BY <1>1, <2>1
    <3>2. CASE p[i].buf \in have
      BY <3>1, <3>2
    <3>3. ASSUME NEW j \in 1 .. i - 1, p[j] = I("create", p[i].buf)
          PROVE  \E k \in 1 .. i - 1 : r[k] = I("create", r[i].buf)
      <4>1. r[j] = p[j]
        BY <1>1, <2>1
      <4>2. QED
        BY <3>1, <3>3, <4>1
    <3>4. QED
      BY <1>3, <2>1, <3>1, <3>2, <3>3 DEF CreatedFirst
  <2>2. ASSUME NEW k \in 1 .. Len(q), i = Len(p) + k
        PROVE  r[i].buf \in have \/ \E j \in 1 .. i - 1 : r[j] = I("create", r[i].buf)
    <3>1. r[i] = q[k]
      BY <1>1, <2>2
    <3>2. ASSUME NEW j \in 1 .. k - 1, q[j] = I("create", q[k].buf)
          PROVE  \E m \in 1 .. i - 1 : r[m] = I("create", r[i].buf)
      <4>1. Len(p) + j \in 1 .. i - 1 /\ r[Len(p) + j] = q[j]
        BY <1>1, <2>2
      <4>2. QED
        BY <3>1, <3>2, <4>1
    <3>3. ASSUME NEW j \in 1 .. Len(p), p[j] = I("create", q[k].buf)
          PROVE  \E m \in 1 .. i - 1 : r[m] = I("create", r[i].buf)
      <4>1. j \in 1 .. i - 1 /\ r[j] = p[j]
        BY <1>1, <2>2
      <4>2. QED
        BY <3>1, <3>3, <4>1
    <3>4. q[k].buf \in later => q[k].buf \in have \/ \E j \in 1 .. Len(p) : p[j] = I("create", q[k].buf)
      BY DEF Created
    <3>5. q[k].buf \in later \/ \E j \in 1 .. k - 1 : q[j] = I("create", q[k].buf)
      BY <1>3, <3>1 DEF CreatedFirst
    <3>6. QED
      BY <3>1, <3>2, <3>3, <3>4, <3>5
  <2>3. QED
    BY <1>2, <2>1, <2>2
<1>4. CreatedFirst(r, have)
  BY <1>3 DEF CreatedFirst
<1>5. Created(p) \subseteq Created(r)
  <2>1. ASSUME NEW b \in Buffers, NEW j \in 1 .. Len(p), p[j] = I("create", b)
        PROVE  b \in Created(r)
    <3>1. j \in 1 .. Len(r) /\ r[j] = I("create", b)
      BY <1>1, <2>1
    <3>2. QED
      BY <3>1 DEF Created
  <2>2. QED
    BY <2>1 DEF Created
<1>6. Created(q) \subseteq Created(r)
  <2>1. ASSUME NEW b \in Buffers, NEW j \in 1 .. Len(q), q[j] = I("create", b)
        PROVE  b \in Created(r)
    <3>1. Len(p) + j \in 1 .. Len(r) /\ r[Len(p) + j] = I("create", b)
      BY <1>1, <2>1
    <3>2. QED
      BY <3>1 DEF Created
  <2>2. QED
    BY <2>1 DEF Created
<1>7. QED
  BY <1>4, <1>5, <1>6 DEF r

(* Every body creates a buffer before it maps or binds it.                 *)
LEMMA BodiesCreateFirst ==
  ASSUME NEW op \in Ops
  PROVE  CreatedFirst(Body(op), {})
<1> DEFINE Fine(p, have, made) ==
      p \in Seq(Instructions) /\ CreatedFirst(p, have) /\ made \subseteq Created(p)
<1>1. ASSUME NEW b \in Buffers
      PROVE  Fine(Alloc(b), {}, {b})
  <2>1. Alloc(b) \in Seq(Instructions)
    BY DEF Alloc, I, Instructions
  <2>2. Len(Alloc(b)) = 3 /\ Alloc(b)[1] = I("create", b) /\ Alloc(b)[2] = I("offset", b)
        /\ Alloc(b)[3] = I("mmap", b)
    BY DEF Alloc
  <2>3. CreatedFirst(Alloc(b), {})
    <3>1. SUFFICES ASSUME NEW i \in 1 .. 3, Alloc(b)[i].do \in {"mmap", "bind", "trybind"}
                   PROVE  \E j \in 1 .. i - 1 : Alloc(b)[j] = I("create", Alloc(b)[i].buf)
      BY <2>2 DEF CreatedFirst
    <3>2. i = 3
      BY <2>2, <3>1 DEF I
    <3>3. Alloc(b)[i].buf = b /\ 1 \in 1 .. i - 1
      BY <2>2, <3>2 DEF I
    <3>4. QED
      BY <2>2, <3>3
  <2>4. b \in Created(Alloc(b))
    BY <2>2 DEF Created
  <2>5. QED
    BY <2>1, <2>3, <2>4
<1>2. ASSUME NEW p, NEW q, NEW have, NEW later, NEW m, NEW n,
             Fine(p, have, m), Fine(q, later, n), later \subseteq have \cup m
      PROVE  Fine(p \o q, have, m \cup n)
  <2>1. p \o q \in Seq(Instructions) /\ later \subseteq have \cup Created(p)
    BY <1>2
  <2>2. QED
    BY <1>2, <2>1, CreatedFirstJoins
<1>3. /\ "shader" \in Buffers /\ "src" \in Buffers /\ "weights" \in Buffers /\ "dst" \in Buffers
  BY DEF Buffers, MatmulBuffers
<1>4. ASSUME NEW p \in Seq(Instructions), NEW have,
             \A i \in 1 .. Len(p) : p[i].do \in {"mmap", "bind", "trybind"} => p[i].buf \in have
      PROVE  Fine(p, have, {})
  BY <1>4 DEF CreatedFirst
<1> HIDE DEF Fine
<1>5. Fine(ProductBody, {}, {})
  <2> DEFINE rest == <<I("bind", "shader"), I("bind", "src"), I("bind", "weights"),
                       I("bind", "dst"), I("submit", "dst"), I("wait", "dst"), I("copy", "dst")>>
             all == {"shader", "src", "weights", "dst"}
  <2>1. rest \in Seq(Instructions)
    BY <1>3 DEF I, Instructions
  <2>2. \A i \in 1 .. Len(rest) : rest[i].buf \in all
    BY DEF I
  <2>3. Fine(rest, all, {})
    BY <1>4, <2>1, <2>2
  <2> HIDE DEF rest, all
  <2>4. Fine(Alloc("shader") \o Alloc("src"), {}, {"shader"} \cup {"src"})
    BY <1>1, <1>2, <1>3
  <2>5. Fine(Alloc("shader") \o Alloc("src") \o Alloc("weights"), {},
             {"shader"} \cup {"src"} \cup {"weights"})
    BY <1>1, <1>2, <1>3, <2>4
  <2>6. Fine(Alloc("shader") \o Alloc("src") \o Alloc("weights") \o Alloc("dst"), {},
             {"shader"} \cup {"src"} \cup {"weights"} \cup {"dst"})
    BY <1>1, <1>2, <1>3, <2>5
  <2>7. Fine(ProductBody, {}, {"shader"} \cup {"src"} \cup {"weights"} \cup {"dst"} \cup {})
    <3>1. all \subseteq {} \cup ({"shader"} \cup {"src"} \cup {"weights"} \cup {"dst"})
      BY DEF all
    <3>2. QED
      BY <1>2, <2>3, <2>6, <3>1 DEF ProductBody, rest
  <2>8. QED
    BY <2>7 DEF Fine
<1>6. Fine(ScaleBody, {}, {})
  <2> DEFINE B(b) == <<I("bind", b)>>
             rest == <<I("submit", "dst"), I("settle", "dst"), I("copy", "dst")>>
  <2>1. \A b \in Buffers : Fine(B(b), {b}, {})
    <3>1. TAKE b \in Buffers
    <3>2. B(b) \in Seq(Instructions) /\ \A i \in 1 .. Len(B(b)) : B(b)[i].buf \in {b}
      BY DEF I, Instructions
    <3>3. QED
      BY <1>4, <3>2
  <2>2. Fine(rest, {}, {})
    <3>1. rest \in Seq(Instructions)
      BY <1>3 DEF I, Instructions
    <3>2. \A i \in 1 .. Len(rest) : rest[i].do \notin {"mmap", "bind", "trybind"}
      BY DEF I
    <3>3. QED
      BY <1>4, <3>1, <3>2
  <2> HIDE DEF B, rest
  <2>3. Fine(Alloc("shader") \o B("shader"), {}, {"shader"} \cup {})
    BY <1>1, <1>2, <1>3, <2>1
  <2>4. Fine(Alloc("shader") \o B("shader") \o Alloc("src"), {}, {"shader"} \cup {} \cup {"src"})
    BY <1>1, <1>2, <1>3, <2>3
  <2>5. Fine(Alloc("shader") \o B("shader") \o Alloc("src") \o B("src"), {},
             {"shader"} \cup {} \cup {"src"} \cup {})
    BY <1>2, <1>3, <2>1, <2>4
  <2>6. Fine(Alloc("shader") \o B("shader") \o Alloc("src") \o B("src") \o Alloc("dst"), {},
             {"shader"} \cup {} \cup {"src"} \cup {} \cup {"dst"})
    BY <1>1, <1>2, <1>3, <2>5
  <2>7. Fine(Alloc("shader") \o B("shader") \o Alloc("src") \o B("src") \o Alloc("dst") \o B("dst"), {},
             {"shader"} \cup {} \cup {"src"} \cup {} \cup {"dst"} \cup {})
    BY <1>2, <1>3, <2>1, <2>6
  <2>8. Fine(ScaleBody, {}, {"shader"} \cup {} \cup {"src"} \cup {} \cup {"dst"} \cup {} \cup {})
    BY <1>2, <2>2, <2>7 DEF ScaleBody, B, rest
  <2>9. QED
    BY <2>8 DEF Fine
<1>7. Fine(GemBody, {}, {})
  <2>1. <<I("trybind", "src")>> \in Seq(Instructions)
    BY <1>3 DEF I, Instructions
  <2>2. \A i \in 1 .. Len(<<I("trybind", "src")>>) : <<I("trybind", "src")>>[i].buf \in {"src"}
    BY DEF I
  <2>3. Fine(<<I("trybind", "src")>>, {"src"}, {})
    BY <1>4, <2>1, <2>2
  <2>4. Fine(GemBody, {}, {"src"} \cup {})
    BY <1>1, <1>2, <1>3, <2>3 DEF GemBody
  <2>5. QED
    BY <2>4 DEF Fine
<1>8. Fine(ProbeBody, {}, {})
  <2>1. ProbeBody \in Seq(Instructions)
    BY <1>3 DEF ProbeBody, I, Instructions
  <2>2. \A i \in 1 .. Len(ProbeBody) : ProbeBody[i].do \notin {"mmap", "bind", "trybind"}
    BY DEF ProbeBody, I
  <2>3. QED
    BY <1>4, <2>1, <2>2
<1>9. QED
  BY <1>5, <1>6, <1>7, <1>8 DEF Fine, Body, Ops, Products

(* A node is open only while it is one of the nodes, and what is left of a *)
(* body maps and binds only what it has created.                           *)
Typed ==
  /\ TypeOK
  /\ phase \in {"name", "body", "unwind"} => node \in 1 .. Nodes
  /\ phase # "body" => todo = <<>>
  /\ CreatedFirst(todo, handles)

(* What is done first maps or binds what is there, and what follows it     *)
(* finds what it created.                                                  *)
LEMMA CreatedFirstSteps ==
  ASSUME todo \in Seq(Instructions), todo # <<>>, CreatedFirst(todo, handles)
  PROVE  /\ Head(todo) \in Instructions /\ Tail(todo) \in Seq(Instructions)
         /\ Head(todo).do \in {"mmap", "bind", "trybind"} => Buf \in handles
         /\ Head(todo).do # "create" => CreatedFirst(Tail(todo), handles)
         /\ CreatedFirst(Tail(todo), handles \cup {Buf})
<1>1. /\ Head(todo) = todo[1] /\ Len(todo) \in Nat /\ Len(todo) > 0
      /\ Len(Tail(todo)) = Len(todo) - 1
      /\ \A i \in 1 .. Len(todo) - 1 : Tail(todo)[i] = todo[i + 1]
      /\ Head(todo) \in Instructions /\ Tail(todo) \in Seq(Instructions)
  OBVIOUS
<1>2. Head(todo).do \in {"mmap", "bind", "trybind"} => Buf \in handles
  BY <1>1 DEF CreatedFirst, Buf
<1>3. ASSUME NEW have, handles \subseteq have,
             \A b : todo[1] = I("create", b) => b \in have
      PROVE  CreatedFirst(Tail(todo), have)
  <2>1. SUFFICES ASSUME NEW i \in 1 .. Len(todo) - 1,
                        todo[i + 1].do \in {"mmap", "bind", "trybind"},
                        todo[i + 1].buf \notin have
                 PROVE  \E j \in 1 .. i - 1 : Tail(todo)[j] = I("create", todo[i + 1].buf)
    BY <1>1 DEF CreatedFirst
  <2>2. i + 1 \in 1 .. Len(todo) /\ (i + 1) - 1 = i
    BY <1>1
  <2>3. PICK j \in 1 .. i : todo[j] = I("create", todo[i + 1].buf)
    BY <1>3, <2>1, <2>2 DEF CreatedFirst
  <2>4. j # 1
    BY <1>3, <2>1, <2>3
  <2>5. j - 1 \in 1 .. i - 1 /\ j - 1 \in 1 .. Len(todo) - 1 /\ (j - 1) + 1 = j
    BY <2>2, <2>4
  <2>6. Tail(todo)[j - 1] = todo[j]
    BY <1>1, <2>5
  <2>7. QED
    BY <2>3, <2>5, <2>6
<1>4. Head(todo).do # "create" => CreatedFirst(Tail(todo), handles)
  BY <1>1, <1>3 DEF I
<1>5. CreatedFirst(Tail(todo), handles \cup {Buf})
  <2>1. \A b : todo[1] = I("create", b) => b = Buf
    BY <1>1 DEF I, Buf
  <2>2. QED
    BY <1>3, <2>1
<1>6. QED
  BY <1>1, <1>2, <1>4, <1>5

(* Dropping the last mapping adds none. *)
LEMMA FrontIsAPart ==
  ASSUME NEW s \in Seq(Buffers), s # <<>>
  PROVE  Front(s) \in Seq(Buffers) /\ ToSet(Front(s)) \subseteq ToSet(s)
<1>1. Len(s) \in Nat /\ Len(s) > 0
  OBVIOUS
<1>2. /\ Front(s) \in Seq(Buffers) /\ Len(Front(s)) = Len(s) - 1
      /\ \A i \in 1 .. Len(s) - 1 : Front(s)[i] = s[i]
  <2>1. \A i \in 1 .. Len(s) - 1 : s[i] \in Buffers
    BY <1>1
  <2> DEFINE n == Len(s) - 1
  <2>2. n \in Nat
    BY <1>1
  <2>3. n \in Int /\ 1 \in Int /\ n - 1 + 1 = n /\ (IF 1 <= n THEN n - 1 + 1 ELSE 0) = n
    <3> HIDE DEF n
    <3>1. QED
      BY <2>2
  <2>4. /\ SubSeq(s, 1, n) \in Seq(Buffers) /\ Len(SubSeq(s, 1, n)) = n
        /\ \A i \in 1 .. n : SubSeq(s, 1, n)[i] = s[1 + i - 1]
    <3> HIDE DEF n
    <3>1. \A i \in 1 .. n : s[i] \in Buffers
      BY <2>1 DEF n
    <3>2. QED
      BY <2>3, <3>1, SubSeqProperties
  <2>5. \A i \in 1 .. n : s[1 + i - 1] = s[i]
    BY <1>1
  <2>6. QED
    BY <2>4, <2>5 DEF Front
<1>3. \A i \in 1 .. Len(s) - 1 : i \in 1 .. Len(s)
  BY <1>1
<1>4. QED
  BY <1>2, <1>3 DEF ToSet

LEMMA NothingLeft ==
  /\ \A have : CreatedFirst(<<>>, have)
  /\ <<>> \in Seq(Instructions) /\ <<>> \in Seq(Buffers) /\ ToSet(<<>>) = {}
BY DEF CreatedFirst, ToSet

(* Every state is typed; in particular no buffer is mapped or bound that   *)
(* was not created on the node, whatever was refused.                      *)
THEOREM TypeCorrect == Spec => []TypeOK
<1>1. Init => Typed
  <2>1. SUFFICES ASSUME Init PROVE Typed
    OBVIOUS
  <2>2. node \in 1 .. Nodes + 1
    BY <2>1, NodesAssumption DEF Init
  <2>3. /\ todo \in Seq(Instructions) /\ maps \in Seq(Buffers) /\ ToSet(maps) = {}
        /\ CreatedFirst(todo, handles)
    BY <2>1, NothingLeft DEF Init
  <2>4. QED
    BY <2>1, <2>2, <2>3 DEF Init, Typed, TypeOK
<1>2. AtWork /\ Tidy /\ Typed /\ [Next]_vars => Typed'
  <2> SUFFICES ASSUME AtWork, Tidy, Typed, [Next]_vars PROVE Typed'
    OBVIOUS
  <2> USE NodesAssumption DEF Typed, TypeOK, Device
  <2>1. CASE \E c \in Calls : Start(c)
    <3>1. node' \in 1 .. Nodes + 1
      BY <2>1 DEF Start
    <3>2. todo' \in Seq(Instructions) /\ CreatedFirst(todo', handles')
      BY <2>1, NothingLeft DEF Start
    <3>3. QED
      BY <2>1, <3>1, <3>2 DEF Start
  <2>2. CASE OpenNode
    <3>1. node \in 1 .. Nodes /\ node + 1 \in 1 .. Nodes + 1
      BY <2>2 DEF OpenNode
    <3>2. /\ node' \in 1 .. Nodes + 1 /\ fds' \subseteq 1 .. Nodes
          /\ phase' \in {"open", "name"} /\ (phase' = "name" => node' \in 1 .. Nodes)
      BY <2>2, <3>1 DEF OpenNode
    <3>3. CreatedFirst(todo', handles') /\ ToSet(maps') = ToSet(maps)
      BY <2>2 DEF OpenNode
    <3>4. QED
      BY <2>2, <3>2, <3>3 DEF OpenNode
  <2>3. CASE NoNodeLeft
    BY <2>3 DEF NoNodeLeft
  <2>4. CASE NameMatches
    <3>1. call.op \in Ops
      BY CallsAssumption
    <3>2. Body(call.op) \in Seq(Instructions) /\ CreatedFirst(Body(call.op), {})
      BY <3>1, BodiesAreInstructions, BodiesCreateFirst
    <3>3. handles = {}
      BY <2>4 DEF NameMatches, Tidy
    <3>4. QED
      BY <2>4, <3>2, <3>3 DEF NameMatches
  <2>5. CASE NameDiffers
    BY <2>5 DEF NameDiffers
  <2>6. CASE phase = "body" /\ todo # <<>> /\ todo' = Tail(todo)
             /\ UNCHANGED <<phase, call, node, fds>> /\ Head(todo).do # "create"
             /\ UNCHANGED <<handles, maps, bound>>
             /\ ok' \in BOOLEAN /\ dst' \in {"untouched", "stale"} \cup Results
             /\ job' \in {"none", "running", "done"} /\ output' = output
    BY <2>6, CreatedFirstSteps
  <2>7. CASE Create
    <3>1. todo # <<>>
      BY <2>7 DEF Create, Doing
    <3>2. Buf \in Buffers
      BY <3>1, HeadIsKnown
    <3>3. QED
      BY <2>7, <3>1, <3>2, CreatedFirstSteps DEF Create, Doing, Step
  <2>8. CASE MapAndFill
    <3>1. todo # <<>> /\ Head(todo).do = "mmap"
      BY <2>8 DEF MapAndFill, Doing
    <3>2. Buf \in Buffers /\ Buf \in handles
      BY <3>1, HeadIsKnown, CreatedFirstSteps
    <3>3. Append(maps, Buf) \in Seq(Buffers)
      BY <3>2
    <3>4. ToSet(Append(maps, Buf)) \subseteq handles
      BY <3>2 DEF ToSet
    <3>5. QED
      BY <2>8, <3>1, <3>3, <3>4, CreatedFirstSteps DEF MapAndFill, Step
  <2>9. CASE BindVa
    <3>1. todo # <<>> /\ Head(todo).do \in {"bind", "trybind"}
      BY <2>9 DEF BindVa, Doing
    <3>2. Buf \in handles
      BY <3>1, CreatedFirstSteps
    <3>3. QED
      BY <2>9, <3>1, <3>2, CreatedFirstSteps DEF BindVa, Step
  <2>10. CASE CopyRows
    <3>1. Computed \in Results
      BY DEF Computed, Results
    <3>2. dst' \in {"untouched", "stale"} \cup Results
      BY <2>10, <3>1 DEF CopyRows
    <3>3. QED
      BY <2>6, <2>10, <3>2 DEF CopyRows, Doing, Step
  <2>11. CASE MmapOffset \/ Submit \/ WaitIdle \/ Query \/ RefusedAndIgnored
    BY <2>6, <2>11 DEF MmapOffset, Submit, WaitIdle, Query, RefusedAndIgnored, Doing, Step
  <2>12. CASE Refused
    BY <2>12, NothingLeft DEF Refused, Doing
  <2>13. CASE BodyDone
    BY <2>13 DEF BodyDone
  <2>14. CASE DropBuffer
    <3>1. maps \in Seq(Buffers) /\ maps # <<>>
      BY <2>14 DEF DropBuffer
    <3>2. Front(maps) \in Seq(Buffers) /\ ToSet(Front(maps)) \subseteq ToSet(maps)
      BY <3>1, FrontIsAPart
    <3>3. QED
      BY <2>14, <3>2 DEF DropBuffer
  <2>15. CASE CloseNode
    <3>1. todo = <<>> /\ todo' = <<>> /\ maps' = <<>> /\ ToSet(maps') = {}
      BY <2>15 DEF CloseNode, ToSet
    <3>2. CreatedFirst(todo', handles')
      BY <3>1, NothingLeft
    <3>3. node \in 1 .. Nodes + 1 /\ fds' \subseteq 1 .. Nodes
      BY <2>15 DEF CloseNode
    <3>4. QED
      BY <2>15, <3>1, <3>2, <3>3 DEF CloseNode
  <2>16. CASE JobDone
    BY <2>16 DEF JobDone, Computed, Results
  <2>17. CASE UNCHANGED vars
    BY <2>17 DEF vars
  <2>18. QED
    BY <2>1, <2>2, <2>3, <2>4, <2>5, <2>7, <2>8, <2>9, <2>10, <2>11, <2>12, <2>13,
       <2>14, <2>15, <2>16, <2>17 DEF Next, Working
<1>3. Typed => TypeOK
  BY DEF Typed
<1>4. QED
  BY <1>1, <1>2, <1>3, AtWorkHolds, TidyHolds, PTL DEF Spec
=============================================================================
