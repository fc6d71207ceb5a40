---------------------------- MODULE SizeClasses ----------------------------
(***************************************************************************)
(* nnn-base/src/scratch/pool.rs: how a request is rounded to a size class. *)
(* A class table is a sequence; classes are named by position, and a       *)
(* position is the index in the Rust table plus one.                       *)
(***************************************************************************)
EXTENDS Carving, Sequences

(* capacity_class: the first class, in table order, that holds the request.*)
(* A class of zero bytes is a hole in the table.                           *)
CapacityClass(classes, required) ==
  { k \in DOMAIN classes :
      /\ classes[k] # 0 /\ classes[k] >= required
      /\ \A j \in 1 .. k - 1 : classes[j] = 0 \/ classes[j] < required }

(* class_capacity, without the holes that carve_class filters out.         *)
ClassCapacity(classes, class) ==
  { classes[k] : k \in { k \in DOMAIN classes : k = class /\ classes[k] # 0 } }

(* Carve::for_bytes with FromCarve::Bytes.                                 *)
ForBytes(bytes, alignment) ==
  [kind |-> "from", at |-> 0, len |-> 0, bytes |-> bytes, align |-> alignment]

(* Mutant of PlanBytes: the block is as long as the request.               *)
PlanBytesRequested(classes, required, alignment) ==
  { [class |-> k, req |-> ForBytes(required, alignment)] :
    k \in { k \in CapacityClass(classes, required) : alignment \in Alignments } }

(* plan_bytes: the block is as large as its class, never as the request.   *)
PlanBytes(classes, required, alignment) ==
  { [class |-> k, req |-> ForBytes(classes[k], alignment)] :
    k \in { k \in CapacityClass(classes, required) : alignment \in Alignments } }
=============================================================================
