---------------------------- MODULE MatmulLayout ----------------------------
(***************************************************************************)
(* nnn-hal/src/x86/linux/mod.rs, radeon_matmul and radeon_gemm: the        *)
(* arithmetic of a product on the device.  Which shapes are accepted for   *)
(* the slices the caller lends, where each row lives in the caller's       *)
(* slices and in the device's buffers, and where each buffer is bound in   *)
(* the device's address space.  There is no state here.                    *)
(*                                                                         *)
(* A shape has the batch (rows), the stride between rows, the input and    *)
(* output sizes and the element size, and the bytes of the three slices.   *)
(***************************************************************************)
EXTENDS Integers

CONSTANTS
  PageSize,      (* 4096: buffers and addresses are multiples of it        *)
  ShaderVa,      (* 0x100_0000                                             *)
  ShaderBytes,   (* size_of_val(shader)                                    *)
  Field,         (* 2^16: a size packed in half a word for the shader      *)
  Word           (* 2^32: the bytes of a buffer in its descriptor          *)

ASSUME PageSizeAssumption == PageSize \in Nat \ {0}
ASSUME ShaderAssumption ==
  /\ ShaderVa \in Nat /\ ShaderVa % PageSize = 0
  /\ ShaderBytes \in Nat \ {0}
ASSUME WidthAssumption == Field \in Nat \ {0} /\ Word \in Nat \ {0}

Shape == [batch : Nat, stride : Nat, in : Nat, out : Nat, elem : Nat \ {0},
          src : Nat, dst : Nat, weights : Nat, activation : Nat]

-----------------------------------------------------------------------------
(* Shapes. *)

Larger(m, n) == IF m > n THEN m ELSE n

LastBase(s) == (s.batch - 1) * s.stride

SrcBytes(s) == (LastBase(s) + s.in) * s.elem

DstBytes(s) == (LastBase(s) + s.out) * s.elem

WeightsBytes(s) == s.out * s.in * s.elem

(* The weights, then one bias for each output. *)
WbBytes(s) == (s.out * s.in + s.out) * s.elem

(* Mutant of MatmulAccepts: rows may be closer than they are long.         *)
MatmulAcceptsAnyStride(s) ==
  /\ s.batch # 0 /\ s.in # 0 /\ s.out # 0
  /\ s.weights >= WeightsBytes(s)
  /\ s.src >= SrcBytes(s) /\ s.dst >= DstBytes(s)

(* What radeon_matmul checks before it opens the device. *)
MatmulAccepts(s) ==
  /\ s.batch # 0 /\ s.in # 0 /\ s.out # 0
  /\ s.weights >= WeightsBytes(s)
  /\ ~(s.batch > 1 /\ s.stride < s.out)
  /\ s.src >= SrcBytes(s) /\ s.dst >= DstBytes(s)

(* What radeon_gemm checks; it picks the stride itself.                    *)
GemmAccepts(s) ==
  /\ s.batch # 0 /\ s.in # 0 /\ s.out # 0
  /\ s.weights >= WeightsBytes(s)
  /\ s.src >= s.batch * s.in * s.elem /\ s.dst >= s.batch * s.out * s.elem
  /\ s.stride = Larger(s.in, s.out)

(* Where row r of the result begins in the device's buffer and in the      *)
(* slice of the caller: gemm packs the rows, matmul keeps them apart.      *)
RowOnDevice(s, r) == r * s.stride * s.elem

RowOfCaller(op, s, r) ==
  IF op = "gemm" THEN r * s.out * s.elem ELSE r * s.stride * s.elem

RowBytes(s) == s.out * s.elem

-----------------------------------------------------------------------------
(* Addresses. *)

(* (value + 0xFFF) & !0xFFF *)
VaAlignUp(value) == ((value + PageSize - 1) \div PageSize) * PageSize

(* alloc_gtt and alloc_vram round the size of a buffer up the same way.    *)
BufferSize(bytes) == VaAlignUp(bytes)

(* Mutant of NextVa: the next buffer begins where the bytes end.           *)
NextVaUnaligned(va, bytes) == va + bytes

NextVa(va, bytes) == VaAlignUp(va + bytes)

BytesOfBuffer(s, b) ==
  CASE b = "shader" -> ShaderBytes
    [] b = "src" -> SrcBytes(s)
    [] b = "weights" -> WbBytes(s)
    [] b = "dst" -> DstBytes(s)

VaOfSrc == NextVa(ShaderVa, ShaderBytes)

VaOfWeights(s) == NextVa(VaOfSrc, SrcBytes(s))

VaOfBuffer(s, b) ==
  CASE b = "shader" -> ShaderVa
    [] b = "src" -> VaOfSrc
    [] b = "weights" -> VaOfWeights(s)
    [] b = "dst" -> NextVa(VaOfWeights(s), WbBytes(s))

MatmulBuffers == {"shader", "src", "weights", "dst"}

VaEnd(s, b) == VaOfBuffer(s, b) + BufferSize(BytesOfBuffer(s, b))

-----------------------------------------------------------------------------
(* What the device is told, in words of fixed width. *)

(* lo | (hi << 16): the shader takes lo modulo the field back and, when lo *)
(* does not spill over, hi modulo the field.                               *)
ReadsBack(lo, hi) == lo % Field = lo /\ hi % Field = hi

(* The descriptors and the user data of build_matmul_ib give the shader    *)
(* the sizes the caller gave.                                              *)
DeviceReads(s) ==
  /\ ReadsBack(s.in, s.out) /\ ReadsBack(s.stride, s.activation)
  /\ \A b \in MatmulBuffers : BytesOfBuffer(s, b) % Word = BytesOfBuffer(s, b)
=============================================================================
