------------------------------- MODULE Radeon -------------------------------
(***************************************************************************)
(* nnn-hal/src/x86/linux: the calls that use a radeon device.  Each opens  *)
(* a render node (drm.rs), allocates buffers on it, maps them and binds    *)
(* them in the device's address space (gem.rs), submits a job (cs.rs),     *)
(* waits, copies the rows of the result out, drops the buffers and closes  *)
(* the node.  The kernel may refuse any call; the device ends a job at any *)
(* time after its submission.                                              *)
(*                                                                         *)
(* The body of a call, the closure between the opening and the closing of  *)
(* the node, is a sequence of instructions, one per kernel call, each      *)
(* naming the buffer it is about.                                          *)
(***************************************************************************)
EXTENDS MatmulLayout, SequencesExt

CONSTANTS
  Nodes,         (* the length of RENDER_NODES                             *)
  Calls          (* the calls to make: records [op, shape]                 *)

Ops == {"matmul", "gemm", "scale", "gem", "probe"}
Products == {"matmul", "gemm"}

ASSUME NodesAssumption == Nodes \in Nat \ {0}
ASSUME CallsAssumption == Calls \subseteq [op : Ops, shape : Shape]

VARIABLES
  phase,    (* idle, open (looking for a node), name (asking the driver's
               name), body or unwind (after the closure)                   *)
  call,     (* the call in progress, or the last one                       *)
  node,     (* the next render node to open                                *)
  todo,     (* what is left of the body                                    *)
  ok,       (* nothing that makes the call fail has happened               *)
  dst,      (* what the call wrote for its caller                          *)
  fds,      (* render nodes open                                           *)
  handles,  (* buffers created on the node                                 *)
  maps,     (* buffers mapped in the process, in the order of creation     *)
  bound,    (* buffers bound in the device's address space                 *)
  job,      (* none, running or done                                       *)
  output    (* what the output buffer holds: nothing, zeros or a result    *)

vars == <<phase, call, node, todo, ok, dst, fds, handles, maps, bound, job, output>>

Buffers == MatmulBuffers
OutputOf(op) == IF op = "gem" THEN "src" ELSE "dst"
Results == {"product", "wrong"}

I(what, buffer) == [do |-> what, buf |-> buffer]
Instructions == [do : {"create", "offset", "mmap", "bind", "trybind", "submit",
                       "wait", "settle", "copy", "device", "query"},
                 buf : Buffers]

TypeOK ==
  /\ phase \in {"idle", "open", "name", "body", "unwind"}
  /\ call \in Calls
  /\ node \in 1 .. Nodes + 1
  /\ todo \in Seq(Instructions)
  /\ ok \in BOOLEAN
  /\ dst \in {"untouched", "stale"} \cup Results
  /\ fds \subseteq 1 .. Nodes
  /\ handles \subseteq Buffers
  /\ maps \in Seq(Buffers) /\ ToSet(maps) \subseteq handles
  /\ bound \subseteq handles
  /\ job \in {"none", "running", "done"}
  /\ output \in {"none", "zeros"} \cup Results

-----------------------------------------------------------------------------
(* The programs. *)

Alloc(b) == <<I("create", b), I("offset", b), I("mmap", b)>>

(* Mutant of ProductBody: the result is taken whether or not the wait      *)
(* succeeded, as the self-test does.                                       *)
ProductBodySettles ==
  Alloc("shader") \o Alloc("src") \o Alloc("weights") \o Alloc("dst")
  \o <<I("bind", "shader"), I("bind", "src"), I("bind", "weights"), I("bind", "dst"),
       I("submit", "dst"), I("settle", "dst"), I("copy", "dst")>>

(* Mutant of ProductBody: the result is copied before the wait.            *)
ProductBodyEager ==
  Alloc("shader") \o Alloc("src") \o Alloc("weights") \o Alloc("dst")
  \o <<I("bind", "shader"), I("bind", "src"), I("bind", "weights"), I("bind", "dst"),
       I("submit", "dst"), I("copy", "dst"), I("wait", "dst")>>

ProductBody ==
  Alloc("shader") \o Alloc("src") \o Alloc("weights") \o Alloc("dst")
  \o <<I("bind", "shader"), I("bind", "src"), I("bind", "weights"), I("bind", "dst"),
       I("submit", "dst"), I("wait", "dst"), I("copy", "dst")>>

ScaleBody ==
  Alloc("shader") \o <<I("bind", "shader")>> \o Alloc("src") \o <<I("bind", "src")>>
  \o Alloc("dst") \o <<I("bind", "dst")>>
  \o <<I("submit", "dst"), I("settle", "dst"), I("copy", "dst")>>

GemBody == Alloc("src") \o <<I("trybind", "src")>>

ProbeBody == <<I("device", "src"), I("query", "src"), I("query", "src")>>

Body(op) ==
  CASE op \in Products -> ProductBody
    [] op = "scale" -> ScaleBody
    [] op = "gem" -> GemBody
    [] op = "probe" -> ProbeBody

(* What is checked before a node is opened. *)
Accepted(c) ==
  CASE c.op = "matmul" -> MatmulAccepts(c.shape)
    [] c.op = "gemm" -> GemmAccepts(c.shape)
    [] OTHER -> TRUE

-----------------------------------------------------------------------------
(* Addresses: [va, end) of each buffer in the device's address space.  The *)
(* self-tests bind at multiples of 0x100_0000 and size their data buffers  *)
(* by the elements, which a shape gives as the bytes of src.               *)

Va(b) ==
  IF call.op \in Products THEN VaOfBuffer(call.shape, b)
  ELSE CASE b = "shader" -> ShaderVa
         [] b = "src" -> IF call.op = "gem" THEN ShaderVa ELSE 2 * ShaderVa
         [] b = "dst" -> 3 * ShaderVa

EndVa(b) ==
  IF call.op \in Products THEN VaEnd(call.shape, b)
  ELSE Va(b) + BufferSize(IF b = "shader" THEN ShaderBytes ELSE call.shape.src)

(* External: the kernel binds page by page and never over a binding.       *)
(* gem_va_map also takes VA_EXIST for a success, which the kernel answers  *)
(* for a buffer that is bound already: no body binds a buffer twice.       *)
Bindable(b) ==
  /\ Va(b) % PageSize = 0
  /\ \A o \in bound \ {b} : EndVa(b) <= Va(o) \/ EndVa(o) <= Va(b)

-----------------------------------------------------------------------------
(* Opening a node. *)

Init ==
  /\ phase = "idle" /\ node = 1 /\ todo = <<>> /\ ok = FALSE
  /\ call \in Calls /\ dst = "untouched"
  /\ fds = {} /\ handles = {} /\ maps = <<>> /\ bound = {}
  /\ job = "none" /\ output = "none"

Device == <<handles, maps, bound, job, output>>

Start(c) ==
  /\ phase = "idle"
  /\ call' = c /\ ok' = FALSE /\ dst' = "untouched" /\ node' = 1 /\ todo' = <<>>
  /\ phase' = IF Accepted(c) THEN "open" ELSE "idle"
  /\ UNCHANGED <<fds, Device>>

OpenNode ==
  /\ phase = "open" /\ node <= Nodes
  /\ \/ phase' = "name" /\ fds' = fds \cup {node} /\ UNCHANGED node
     \/ node' = node + 1 /\ UNCHANGED <<phase, fds>>
  /\ UNCHANGED <<call, todo, ok, dst, Device>>

NoNodeLeft ==
  /\ phase = "open" /\ node > Nodes
  /\ phase' = "idle"
  /\ UNCHANGED <<call, node, todo, ok, dst, fds, Device>>

NameMatches ==
  /\ phase = "name"
  /\ phase' = "body" /\ todo' = Body(call.op) /\ ok' = TRUE
  /\ UNCHANGED <<call, node, dst, fds, Device>>

(* Mutant of NameDiffers: the node of another driver stays open.           *)
NameDiffersOpen ==
  /\ phase = "name"
  /\ phase' = "open" /\ node' = node + 1
  /\ UNCHANGED <<call, todo, ok, dst, fds, Device>>

(* Mutant of NameDiffers: the search goes on at the same node.             *)
NameDiffersAgain ==
  /\ phase = "name"
  /\ phase' = "open" /\ fds' = fds \ {node}
  /\ UNCHANGED <<call, node, todo, ok, dst, Device>>

NameDiffers ==
  /\ phase = "name"
  /\ phase' = "open" /\ node' = node + 1 /\ fds' = fds \ {node}
  /\ UNCHANGED <<call, todo, ok, dst, Device>>

-----------------------------------------------------------------------------
(* The body: one action for each kernel call that succeeds. *)

Doing(k) == phase = "body" /\ todo # <<>> /\ Head(todo).do = k
Buf == Head(todo).buf
Step == todo' = Tail(todo) /\ UNCHANGED <<phase, call, node, fds>>

Create ==
  /\ Doing("create") /\ Step
  /\ handles' = handles \cup {Buf}
  /\ UNCHANGED <<ok, dst, maps, bound, job, output>>

MmapOffset == Doing("offset") /\ Step /\ UNCHANGED <<ok, dst, Device>>

(* The buffer is mapped and filled: the output with zeros.                 *)
MapAndFill ==
  /\ Doing("mmap") /\ Step
  /\ maps' = Append(maps, Buf)
  /\ output' = IF Buf = OutputOf(call.op) THEN "zeros" ELSE output
  /\ UNCHANGED <<ok, dst, handles, bound, job>>

BindVa ==
  /\ Doing("bind") \/ Doing("trybind")
  /\ Step /\ Bindable(Buf)
  /\ bound' = bound \cup {Buf}
  /\ UNCHANGED <<ok, dst, handles, maps, job, output>>

Submit ==
  /\ Doing("submit") /\ Step
  /\ job' = "running"
  /\ UNCHANGED <<ok, dst, handles, maps, bound, output>>

WaitIdle ==
  /\ Doing("wait") \/ Doing("settle")
  /\ Step /\ job = "done"
  /\ UNCHANGED <<ok, dst, Device>>

(* What the shader computes from the words it is given. *)
Computed ==
  IF call.op \in Products /\ ~DeviceReads(call.shape) THEN "wrong" ELSE "product"

(* Rows are copied one by one: while the job runs, some are not there yet, *)
(* or all are and the job has not been seen to end.                        *)
CopyRows ==
  /\ Doing("copy") /\ Step
  /\ dst' \in CASE output \in Results -> {output}
                [] output = "zeros" /\ job = "running" -> {"stale", Computed}
                [] OTHER -> {"stale"}
  /\ UNCHANGED <<ok, Device>>

Query ==
  /\ Doing("query") \/ Doing("device")
  /\ Step /\ UNCHANGED <<ok, dst, Device>>

(* A refusal the code goes on from: bind_va of the memory self-test,       *)
(* wait_idle of the compute self-test, two of the three queries of a probe *)
(* (the answer of the third decides what the probe returns).               *)
RefusedAndIgnored ==
  /\ \E k \in {"trybind", "settle", "query", "device"} : Doing(k)
  /\ Step
  /\ ok' = (ok /\ Head(todo).do # "device")
  /\ UNCHANGED <<dst, Device>>

(* A refusal that ends the closure. *)
Refused ==
  /\ \E k \in {"create", "offset", "mmap", "bind", "submit", "wait"} : Doing(k)
  /\ phase' = "unwind" /\ todo' = <<>> /\ ok' = FALSE
  /\ UNCHANGED <<call, node, dst, fds, Device>>

BodyDone ==
  /\ phase = "body" /\ todo = <<>>
  /\ phase' = "unwind"
  /\ UNCHANGED <<call, node, todo, ok, dst, fds, Device>>

-----------------------------------------------------------------------------
(* Leaving: buffers are dropped last first, then the node is closed.       *)

DropBuffer ==
  /\ phase = "unwind" /\ maps # <<>>
  /\ maps' = Front(maps)
  /\ UNCHANGED <<phase, call, node, todo, ok, dst, fds, handles, bound, job, output>>

(* External: closing a node gives back its buffers and its address space.  *)
CloseNode ==
  /\ phase = "unwind" /\ maps = <<>>
  /\ phase' = "idle" /\ fds' = fds \ {node}
  /\ handles' = {} /\ bound' = {} /\ job' = "none" /\ output' = "none"
  /\ UNCHANGED <<call, node, todo, ok, dst, maps>>

(* External: the device ends the job. *)
JobDone ==
  /\ job = "running"
  /\ job' = "done"
  /\ output' = Computed
  /\ UNCHANGED <<phase, call, node, todo, ok, dst, fds, handles, maps, bound>>

Working ==
  \/ OpenNode \/ NoNodeLeft \/ NameMatches \/ NameDiffers
  \/ Create \/ MmapOffset \/ MapAndFill \/ BindVa \/ Submit \/ WaitIdle
  \/ CopyRows \/ Query \/ RefusedAndIgnored \/ Refused \/ BodyDone
  \/ DropBuffer \/ CloseNode

Next == (\E c \in Calls : Start(c)) \/ Working \/ JobDone

(* A call that was made goes on, and a job that was submitted ends; nobody *)
(* has to make a call.                                                     *)
Spec == Init /\ [][Next]_vars /\ WF_vars(Working) /\ WF_vars(JobDone)

-----------------------------------------------------------------------------
(* Whatever the kernel refuses, a call that has returned left nothing      *)
(* open, mapped, allocated or bound: open_render_node closes every node it *)
(* does not return, and the buffers are dropped before the node is closed. *)
NothingLeftBehind ==
  phase = "idle" => fds = {} /\ handles = {} /\ maps = <<>> /\ bound = {}

(* A product that returned false left the caller's output as it was, so    *)
(* the caller may compute it in another way.                               *)
FalseLeavesTheOutput ==
  phase = "idle" /\ ~ok /\ call.op \in Products => dst = "untouched"

(* A product that returned true wrote every row the device computed for    *)
(* this call and none that was there before, whatever its shape.  It is    *)
(* the product if and only if the sizes fit the words the device is told   *)
(* them in: nothing in the code checks that they do.                       *)
TrueMeansTheDevicesAnswer ==
  phase = "idle" /\ ok /\ call.op \in Products
    => dst = IF DeviceReads(call.shape) THEN "product" ELSE "wrong"

(* The addresses a product computes from its sizes never make the kernel   *)
(* refuse a binding: radeon_matmul and radeon_gemm place each buffer after *)
(* the pages of the one before.                                            *)
BindingsNeverCollide ==
  call.op \in Products /\ Doing("bind") => Bindable(Buf)

(* The rows of a product that was accepted lie in the device's buffer and  *)
(* in the caller's slice, and no two of them share a byte.                 *)
RowsInside(op, s) ==
  \A r \in 0 .. s.batch - 1 :
    /\ RowOnDevice(s, r) + RowBytes(s) <= DstBytes(s)
    /\ RowOfCaller(op, s, r) + RowBytes(s) <= s.dst
    /\ \A q \in 0 .. r - 1 : RowOfCaller(op, s, q) + RowBytes(s) <= RowOfCaller(op, s, r)

RowsStayInside ==
  phase # "idle" /\ call.op \in Products => RowsInside(call.op, call.shape)

(* Every call returns: the search for a node ends, a wait ends with the    *)
(* job, and everything else is a straight line.                            *)
EveryCallReturns == phase # "idle" ~> phase = "idle"
=============================================================================
