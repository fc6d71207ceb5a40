----------------------------- MODULE PoolProofs -----------------------------
(***************************************************************************)
(* Proofs about Pool, for every class table and region.  A pool takes only *)
(* the steps a Scratch would take, so what ScratchProofs shows of the      *)
(* arena holds of the pool's.                                              *)
(***************************************************************************)
EXTENDS Pool, TLAPS

(* First fit is smallest fit when the table is ascending, which is what    *)
(* the module documentation says of the order of the table.                *)
LEMMA FirstFitIsSmallestFit ==
  ASSUME NEW classes \in Seq(Nat), NEW required \in Nat,
         \A i, j \in DOMAIN classes : i < j => classes[i] <= classes[j],
         NEW k \in CapacityClass(classes, required),
         NEW j \in DOMAIN classes, classes[j] # 0, classes[j] >= required
  PROVE  classes[k] <= classes[j]
<1>1. k \in DOMAIN classes /\ \A i \in 1 .. k - 1 : classes[i] = 0 \/ classes[i] < required
  BY DEF CapacityClass
<1>2. k \in 1 .. Len(classes) /\ j \in 1 .. Len(classes) /\ Len(classes) \in Nat
  BY <1>1
<1>3. classes[j] \in Nat /\ classes[k] \in Nat
  BY <1>2
<1>4. CASE j < k
  BY <1>1, <1>2, <1>3, <1>4
<1>5. CASE j >= k
  BY <1>1, <1>2, <1>3, <1>5
<1>6. QED
  BY <1>2, <1>4, <1>5

(* Every step of a pool is a step of its arena, or leaves the arena alone. *)
THEOREM PoolImplementsArena == Spec => ArenaSteps
<1>1. Init => Arena!Init
  BY DEF Init, Arena!Init
<1>2. [Next]_vars => [Arena!Next]_(Arena!vars)
  <2> SUFFICES ASSUME [Next]_vars PROVE [Arena!Next]_(Arena!vars)
    OBVIOUS
  <2>1. ASSUME NEW b \in Blocks, NEW r \in Required, CarveBytes(b, r)
        PROVE  Arena!Next
    <3>1. PICK k \in DOMAIN Classes : Arena!CarveApply(b, ForBytes(Classes[k], r.align))
      BY <2>1 DEF CarveBytes, PlanBytes, CapacityClass, CarvePlan
    <3>2. ForBytes(Classes[k], r.align) \in ClassRequests
      BY DEF ClassRequests
    <3>3. QED
      BY <3>1, <3>2 DEF Arena!Next
  <2>2. ASSUME NEW b \in Blocks, NEW k \in DOMAIN Classes, CarveClass(b, k)
        PROVE  Arena!Next
    <3>1. Arena!CarveApply(b, ForBytes(Classes[k], DefaultAlignment))
      BY <2>2 DEF CarveClass, ClassCapacity, CarvePlan
    <3>2. ForBytes(Classes[k], DefaultAlignment) \in ClassRequests
      BY DEF ClassRequests
    <3>3. QED
      BY <3>1, <3>2 DEF Arena!Next
  <2>3. ASSUME NEW b \in Blocks, DropBlock(b) PROVE Arena!Next
    BY <2>3 DEF DropBlock, Arena!Next
  <2>4. ASSUME NEW m \in marks, ForgetMark(m) PROVE [Arena!Next]_(Arena!vars)
    <3> DEFINE A == { n.mark : n \in marks }
    <3>1. A' = A \/ A' = A \ {m.mark}
      BY <2>4 DEF ForgetMark
    <3>2. m.mark \in A
      OBVIOUS
    <3>3. CASE A' = A
      BY <2>4, <3>3 DEF ForgetMark, Arena!vars
    <3>4. CASE A' = A \ {m.mark}
      BY <2>4, <3>2, <3>4 DEF ForgetMark, Arena!Next, Arena!ForgetMark
    <3>5. QED
      BY <3>1, <3>3, <3>4
  <2>5. ASSUME NEW m \in marks, Release(m) PROVE [Arena!Next]_(Arena!vars)
    <3>1. CASE m.mark <= cursor
      <4>1. Arena!Release(m.mark)
        BY <2>5, <3>1 DEF Release, Arena!Release
      <4>2. QED
        BY <4>1 DEF Arena!Next
    <3>2. CASE ~(m.mark <= cursor)
      BY <2>5, <3>2 DEF Release, Arena!vars
    <3>3. QED
      BY <3>1, <3>2
  <2>6. CASE Mark
    BY <2>6 DEF Mark, Arena!Next
  <2>7. CASE Reset
    BY <2>7 DEF Reset, Arena!Next, Arena!Reset
  <2>8. CASE UNCHANGED vars
    BY <2>8 DEF vars, Arena!vars
  <2>9. QED
    BY <2>1, <2>2, <2>3, <2>4, <2>5, <2>6, <2>7, <2>8 DEF Next
<1>3. QED
  BY <1>1, <1>2, PTL DEF Spec, ArenaSteps, Arena!Spec

ArenaProofs == INSTANCE ScratchProofs WITH
  Ids <- Blocks,
  Requests <- ClassRequests,
  Contract <- "ends",
  marks <- { m.mark : m \in marks }

(* The two instances of the arena are the same specification.              *)
LEMMA SameArena == Arena!Spec => ArenaProofs!Spec
<1>1. Arena!Init => ArenaProofs!Init
  BY DEF Arena!Init, ArenaProofs!Init, Arena!NoCarve, ArenaProofs!NoCarve
<1>2. Arena!Next => ArenaProofs!Next
  <2>1. ASSUME NEW req, NEW len, NEW addr
        PROVE  Arena!CheckSplit(req, len, addr) = ArenaProofs!CheckSplit(req, len, addr)
    <3>1. \A body : Arena!SpanStart(req, body) = ArenaProofs!SpanStart(req, body)
      BY DEF Arena!SpanStart, ArenaProofs!SpanStart
    <3>2. Arena!SpanLen(req) = ArenaProofs!SpanLen(req)
      BY DEF Arena!SpanLen, ArenaProofs!SpanLen
    <3>3. Arena!Usize = ArenaProofs!Usize
      BY DEF Arena!Usize, ArenaProofs!Usize
    <3>4. Arena!AlignUp(addr, req.align) = ArenaProofs!AlignUp(addr, req.align)
      BY <3>3 DEF Arena!AlignUp, ArenaProofs!AlignUp, Arena!Pad, ArenaProofs!Pad
    <3>5. Arena!Validate(req) <=> ArenaProofs!Validate(req)
      BY <3>3 DEF Arena!Validate, ArenaProofs!Validate
    <3>6. QED
      BY <3>1, <3>2, <3>3, <3>4, <3>5 DEF Arena!CheckSplit, ArenaProofs!CheckSplit
  <2>2. ASSUME NEW id, NEW req PROVE Arena!CarveApply(id, req) => ArenaProofs!CarveApply(id, req)
    BY <2>1 DEF Arena!CarveApply, ArenaProofs!CarveApply, Arena!Held, ArenaProofs!Held,
         Arena!Advance, ArenaProofs!Advance, Arena!SpanEnd, ArenaProofs!SpanEnd
  <2>3. ASSUME NEW id PROVE Arena!DropCarve(id) => ArenaProofs!DropCarve(id)
    BY DEF Arena!DropCarve, ArenaProofs!DropCarve, Arena!NoCarve, ArenaProofs!NoCarve,
         Arena!Held, ArenaProofs!Held
  <2>4. ASSUME NEW position, NEW spent
        PROVE  /\ Arena!Ended(position, spent) <=> ArenaProofs!Ended(position, spent)
               /\ Arena!Rewind(position) <=> ArenaProofs!Rewind(position)
    BY DEF Arena!Ended, ArenaProofs!Ended, Arena!End, ArenaProofs!End,
         Arena!Held, ArenaProofs!Held, Arena!Rewind, ArenaProofs!Rewind
  <2>5. ASSUME NEW c PROVE Arena!ReuseTarget(c) = ArenaProofs!ReuseTarget(c)
    BY DEF Arena!ReuseTarget, ArenaProofs!ReuseTarget,
         Arena!MarkedTarget, ArenaProofs!MarkedTarget
  <2>6. ASSUME NEW id PROVE Arena!Reuse(id) => ArenaProofs!Reuse(id)
    BY <2>4, <2>5 DEF Arena!Reuse, ArenaProofs!Reuse, Arena!NoCarve, ArenaProofs!NoCarve
  <2>7. ASSUME NEW m
        PROVE  /\ Arena!ForgetMark(m) => ArenaProofs!ForgetMark(m)
               /\ Arena!Release(m) => ArenaProofs!Release(m)
    BY <2>4 DEF Arena!ForgetMark, ArenaProofs!ForgetMark, Arena!Release, ArenaProofs!Release
  <2>8. Arena!Mark => ArenaProofs!Mark
    BY DEF Arena!Mark, ArenaProofs!Mark, Arena!Cardinality, ArenaProofs!Cardinality
  <2>9. Arena!Reset => ArenaProofs!Reset
    BY <2>4 DEF Arena!Reset, ArenaProofs!Reset
  <2>10. QED
    BY <2>2, <2>3, <2>6, <2>7, <2>8, <2>9 DEF Arena!Next, ArenaProofs!Next
<1>3. UNCHANGED Arena!vars => UNCHANGED ArenaProofs!vars
  BY DEF Arena!vars, ArenaProofs!vars
<1>4. QED
  BY <1>1, <1>2, <1>3, PTL DEF Arena!Spec, ArenaProofs!Spec

(* Hence a pool never lends a byte twice.                                  *)
THEOREM PoolLendsExclusively == Spec => ArenaProofs!LendsExclusively
<1>1. ClassRequests \subseteq
        [kind : ArenaProofs!Kinds, at : Nat, len : Nat, bytes : Nat, align : Nat]
  BY ClassesAssumption, RequiredAssumption, DefaultAlignmentAssumption, AlignmentsAssumption
     DEF ClassRequests, ForBytes, ArenaProofs!Kinds
<1>2. Base \in Nat /\ Total \in Nat /\ Base + Total \in ArenaProofs!Usize
  BY RegionAssumption DEF Usize, ArenaProofs!Usize
<1>3. ArenaProofs!Spec => ArenaProofs!LendsExclusively
  BY <1>1, <1>2, WordAssumption, UsizeAssumption, AlignmentsAssumption,
     ArenaProofs!ImplementsLoans
<1>4. QED
  BY <1>3, SameArena, PoolImplementsArena, PTL DEF ArenaSteps

-----------------------------------------------------------------------------
(* What a pool adds to its arena, typed: every class it remembers, in a    *)
(* mark, a block or last_class, is a class of the table.  ClassesInv is    *)
(* inductive beside the arena's invariant, which bounds the cursor: a      *)
(* release restores a class from a mark, so EveryPositionCanBeMarked needs *)
(* the classes of the marks, and a rewind forgets the blocks above it, so  *)
(* HeldBlocksAreWholeClasses needs the contract of the rewind.  A     *)
(* reset keeps it only because no block is empty: an empty one could be    *)
(* held at position 0, which is why plan_bytes and class_capacity skip the *)
(* holes of the table.                                                     *)
PoolTypes ==
  /\ marks \subseteq PoolMarks
  /\ last_class \in {NoClass} \cup DOMAIN Classes
  /\ blocks \subseteq [class : DOMAIN Classes, end : 0 .. Total]

NoBlockIsAHole == \A blk \in blocks : Classes[blk.class] # 0

ClassesInv == PoolTypes /\ NoBlockIsAHole /\ EveryPositionCanBeMarked /\ HeldBlocksAreWholeClasses

(* What ScratchProofs shows of the arena, of the pool's.                   *)
LEMMA ArenaInvariance == Spec => []ArenaProofs!IInv
<1>1. ClassRequests \subseteq
        [kind : ArenaProofs!Kinds, at : Nat, len : Nat, bytes : Nat, align : Nat]
  BY ClassesAssumption, RequiredAssumption, DefaultAlignmentAssumption, AlignmentsAssumption
     DEF ClassRequests, ForBytes, ArenaProofs!Kinds
<1>2. Base \in Nat /\ Total \in Nat /\ Base + Total \in ArenaProofs!Usize
  BY RegionAssumption DEF Usize, ArenaProofs!Usize
<1>3. ArenaProofs!Spec => []ArenaProofs!IInv
  BY <1>1, <1>2, WordAssumption, UsizeAssumption, AlignmentsAssumption,
     ArenaProofs!Invariance
<1>4. QED
  BY <1>3, SameArena, PoolImplementsArena, PTL DEF ArenaSteps

(* A block is exactly as long as its class, and ends at the new cursor.    *)
LEMMA BlockIsItsClass ==
  ASSUME ArenaProofs!IInv, NEW b \in Blocks, NEW k \in DOMAIN Classes, NEW a \in Nat,
         Arena!CarveApply(b, ForBytes(Classes[k], a))
  PROVE  /\ carves'[b].len = Classes[k]
         /\ carves'[b].offset + carves'[b].len = cursor'
         /\ \A c \in Blocks : c # b => carves'[c] = carves[c]
<1> DEFINE req == ForBytes(Classes[k], a)
<1>1. PICK span \in Arena!CheckSplit(req, remaining, Base + cursor) :
        Arena!Advance(b, req, span)
  BY DEF Arena!CarveApply
<1>2. Classes[k] \in Nat /\ cursor \in Nat /\ remaining \in Nat /\ Base \in Nat
      /\ carves \in [Blocks -> ArenaProofs!Carves]
  BY ClassesAssumption, RegionAssumption DEF ArenaProofs!IInv, ArenaProofs!TypeOK
<1>3. PICK up \in Arena!AlignUp(Base + cursor, a) :
        span = [prefix |-> up - (Base + cursor), start |-> 0, len |-> Classes[k]]
  BY DEF Arena!CheckSplit, Arena!SpanStart, Arena!SpanLen, ForBytes
<1>4. up \in Int
  BY <1>2, UsizeAssumption DEF Arena!AlignUp, Arena!Pad, Arena!Usize
<1>5. QED
  BY <1>1, <1>2, <1>3, <1>4 DEF Arena!Advance, Arena!SpanEnd

(* A carve of either kind keeps ClassesInv.                                *)
LEMMA CarvePlanKeepsClasses ==
  ASSUME ArenaProofs!IInv, ArenaProofs!IInv', ClassesInv,
         NEW b \in Blocks, NEW k \in DOMAIN Classes, NEW a \in Nat,
         Classes[k] # 0,
         CarvePlan(b, [class |-> k, req |-> ForBytes(Classes[k], a)])
  PROVE  ClassesInv'
<1>1. /\ Arena!CarveApply(b, ForBytes(Classes[k], a))
      /\ last_class' = k /\ marks' = marks
      /\ blocks' = blocks \cup {[class |-> k, end |-> cursor']}
  BY DEF CarvePlan
<1>2. k # NoClass /\ cursor' \in 0 .. Total
  BY ClassesAssumption DEF NoClass, ArenaProofs!IInv, ArenaProofs!TypeOK
<1>3. PoolTypes'
  BY <1>1, <1>2 DEF ClassesInv, PoolTypes, PoolMarks
<1>4. EveryPositionCanBeMarked'
  BY <1>1, <1>2 DEF EveryPositionCanBeMarked
<1>5. HeldBlocksAreWholeClasses'
  <2> SUFFICES ASSUME NEW c \in Blocks, carves'[c].kind # "none"
               PROVE  \E blk \in blocks' :
                        /\ blk.end = carves'[c].offset + carves'[c].len
                        /\ carves'[c].len = Classes[blk.class]
    BY DEF HeldBlocksAreWholeClasses
  <2>1. CASE c = b
    <3>1. carves'[b].len = Classes[k] /\ carves'[b].offset + carves'[b].len = cursor'
      BY <1>1, BlockIsItsClass
    <3>2. [class |-> k, end |-> cursor'] \in blocks'
      BY <1>1
    <3>3. QED
      BY <2>1, <3>1, <3>2
  <2>2. CASE c # b
    <3>1. carves'[c] = carves[c]
      BY <1>1, <2>2, BlockIsItsClass
    <3>2. QED
      BY <1>1, <3>1 DEF ClassesInv, HeldBlocksAreWholeClasses
  <2>3. QED
    BY <2>1, <2>2
<1>6. NoBlockIsAHole'
  BY <1>1 DEF NoBlockIsAHole, ClassesInv
<1>7. QED
  BY <1>3, <1>4, <1>5, <1>6 DEF ClassesInv

(* A rewind keeps the blocks still held: none ends above its position.     *)
LEMMA RewindKeepsHeldBlocks ==
  ASSUME HeldBlocksAreWholeClasses, NEW position,
         Arena!Ended(position, {}), blocks' = Below(position), carves' = carves
  PROVE  HeldBlocksAreWholeClasses'
  BY DEF HeldBlocksAreWholeClasses, Arena!Ended, Arena!Held, Arena!End, Below

(* Every step of a pool keeps ClassesInv.                                  *)
LEMMA NextKeepsClasses ==
  ArenaProofs!IInv /\ ArenaProofs!IInv' /\ ClassesInv /\ [Next]_vars => ClassesInv'
<1> SUFFICES ASSUME ArenaProofs!IInv, ArenaProofs!IInv', ClassesInv, [Next]_vars
             PROVE  ClassesInv'
  OBVIOUS
<1>1. ASSUME NEW b \in Blocks, NEW r \in Required, CarveBytes(b, r) PROVE ClassesInv'
  <2>1. PICK k \in DOMAIN Classes :
          /\ Classes[k] # 0
          /\ CarvePlan(b, [class |-> k, req |-> ForBytes(Classes[k], r.align)])
    BY <1>1 DEF CarveBytes, PlanBytes, CapacityClass
  <2>2. r.align \in Nat
    BY RequiredAssumption
  <2>3. QED
    BY <2>1, <2>2, CarvePlanKeepsClasses
<1>2. ASSUME NEW b \in Blocks, NEW k \in DOMAIN Classes, CarveClass(b, k) PROVE ClassesInv'
  <2>1. /\ Classes[k] # 0
        /\ CarvePlan(b, [class |-> k, req |-> ForBytes(Classes[k], DefaultAlignment)])
    BY <1>2 DEF CarveClass, ClassCapacity
  <2>2. DefaultAlignment \in Nat
    BY DefaultAlignmentAssumption, AlignmentsAssumption
  <2>3. QED
    BY <2>1, <2>2, CarvePlanKeepsClasses
<1>3. ASSUME NEW b \in Blocks, DropBlock(b) PROVE ClassesInv'
  <2>1. carves' = [carves EXCEPT ![b] = Arena!NoCarve] /\ cursor' = cursor
    BY <1>3 DEF DropBlock, Arena!DropCarve
  <2>2. carves \in [Blocks -> ArenaProofs!Carves]
    BY DEF ArenaProofs!IInv, ArenaProofs!TypeOK
  <2>3. HeldBlocksAreWholeClasses'
    BY <1>3, <2>1, <2>2 DEF DropBlock, ClassesInv, HeldBlocksAreWholeClasses, Arena!NoCarve
  <2>4. QED
    BY <1>3, <2>1, <2>3 DEF DropBlock, ClassesInv, PoolTypes, NoBlockIsAHole, EveryPositionCanBeMarked
<1>4. ASSUME NEW m \in marks, Release(m) PROVE ClassesInv'
  <2>1. m \in PoolMarks /\ last_class' = m.class /\ carves' = carves /\ marks' = marks
    BY <1>4 DEF Release, ClassesInv, PoolTypes
  <2>2. last_class' \in DOMAIN Classes /\ last_class' # NoClass
    BY <2>1, ClassesAssumption DEF PoolMarks, NoClass
  <2>3. HeldBlocksAreWholeClasses'
    <3>1. CASE m.mark <= cursor
      BY <1>4, <2>1, <3>1, RewindKeepsHeldBlocks DEF Release, ClassesInv
    <3>2. CASE ~(m.mark <= cursor)
      BY <1>4, <2>1, <3>2 DEF Release, ClassesInv, HeldBlocksAreWholeClasses
    <3>3. QED
      BY <3>1, <3>2
  <2>4. blocks' \subseteq blocks
    BY <1>4 DEF Release, Below
  <2>5. QED
    BY <2>1, <2>2, <2>3, <2>4 DEF ClassesInv, PoolTypes, NoBlockIsAHole, EveryPositionCanBeMarked
<1>5. ASSUME NEW m \in marks, ForgetMark(m) PROVE ClassesInv'
  BY <1>5 DEF ForgetMark, ClassesInv, PoolTypes, NoBlockIsAHole, EveryPositionCanBeMarked,
     HeldBlocksAreWholeClasses
<1>6. CASE Mark
  <2>1. /\ last_class # NoClass /\ last_class' = last_class /\ blocks' = blocks
        /\ carves' = carves /\ cursor' = cursor
        /\ marks' = marks \cup {[mark |-> cursor, class |-> last_class]}
    BY <1>6 DEF Mark, Arena!Mark
  <2>2. [mark |-> cursor, class |-> last_class] \in PoolMarks
    BY <2>1 DEF PoolMarks, ClassesInv, PoolTypes, ArenaProofs!IInv, ArenaProofs!TypeOK
  <2>3. QED
    BY <2>1, <2>2 DEF ClassesInv, PoolTypes, NoBlockIsAHole, EveryPositionCanBeMarked,
       HeldBlocksAreWholeClasses
<1>7. CASE Reset
  <2>1. /\ Arena!Ended(0, {}) /\ cursor' = 0 /\ blocks' = {} /\ carves' = carves
        /\ marks' = marks /\ last_class' = NoClass
    BY <1>7 DEF Reset, Arena!Rewind
  <2>2. PoolTypes' /\ NoBlockIsAHole' /\ EveryPositionCanBeMarked'
    BY <2>1 DEF ClassesInv, PoolTypes, NoBlockIsAHole, EveryPositionCanBeMarked
  <2>3. ASSUME NEW b \in Blocks, carves[b].kind # "none" PROVE FALSE
    <3>1. carves[b].offset \in Nat /\ carves[b].len \in Nat
      BY DEF ArenaProofs!IInv, ArenaProofs!TypeOK, ArenaProofs!Carves
    <3>2. carves[b].offset + carves[b].len <= 0
      BY <2>1, <2>3 DEF Arena!Ended, Arena!Held, Arena!End
    <3>3. carves[b].len # 0
      BY <2>3 DEF ClassesInv, NoBlockIsAHole, HeldBlocksAreWholeClasses
    <3>4. QED
      BY <3>1, <3>2, <3>3
  <2>4. HeldBlocksAreWholeClasses'
    BY <2>1, <2>3 DEF HeldBlocksAreWholeClasses
  <2>5. QED
    BY <2>2, <2>4 DEF ClassesInv
<1>8. CASE UNCHANGED vars
  BY <1>8 DEF vars, ClassesInv, PoolTypes, NoBlockIsAHole, EveryPositionCanBeMarked,
     HeldBlocksAreWholeClasses
<1>9. QED
  BY <1>1, <1>2, <1>3, <1>4, <1>5, <1>6, <1>7, <1>8 DEF Next

(* ClassesInv holds in every reachable state of a pool.                    *)
LEMMA ClassesInvariance == Spec => []ClassesInv
<1>1. Init => ClassesInv
  BY RegionAssumption DEF Init, ClassesInv, PoolTypes, NoBlockIsAHole, EveryPositionCanBeMarked,
     HeldBlocksAreWholeClasses, Arena!NoCarve
<1>2. QED
  BY <1>1, NextKeepsClasses, ArenaInvariance, PTL DEF Spec

(* No sequence of carves, releases and resets leaves the pool with bytes   *)
(* out and no class for mark to record, though release restores a class    *)
(* from whatever mark it is given, before it knows whether it is refused.  *)
THEOREM PositionsCanBeMarked == Spec => []EveryPositionCanBeMarked
<1>1. ClassesInv => EveryPositionCanBeMarked
  BY DEF ClassesInv
<1>2. QED
  BY <1>1, ClassesInvariance, PTL

(* Every block the caller holds is as long as its class, and was taken     *)
(* back by no rewind.                                                      *)
THEOREM HeldBlocksKeepTheirClass == Spec => []HeldBlocksAreWholeClasses
<1>1. ClassesInv => HeldBlocksAreWholeClasses
  BY DEF ClassesInv
<1>2. QED
  BY <1>1, ClassesInvariance, PTL
=============================================================================
