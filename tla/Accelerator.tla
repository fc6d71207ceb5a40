---------------------------- MODULE Accelerator ----------------------------
(***************************************************************************)
(* nnn-hal/src/{arm,x86}/macos/{lpu,tpu}: the drivers of an inference      *)
(* (LPU) and a tensor (TPU) accelerator.  Their state is in atomics that   *)
(* any thread may use at any time, and no lock is taken: a call is the     *)
(* list of atomic accesses and register writes it has left to make, and    *)
(* every one of them is a step.                                            *)
(*                                                                         *)
(* Sizes and addresses are counted in granules; the offset of the region   *)
(* is a machine word, which wraps at Word.  The mapped-byte counter, the   *)
(* power and clock registers and the interrupt controller are left out.    *)
(***************************************************************************)
EXTENDS Integers, Sequences, FiniteSets

CONSTANTS
  Threads,
  Region,     (* granules in the DMA region                                *)
  Sizes,      (* granules a caller may ask for                             *)
  Streams,    (* length of the stream tables                               *)
  Word,       (* the offset and the addresses are computed modulo Word     *)
  Calls       (* bound: calls made in a behaviour                          *)

ASSUME ThreadsAssumption == IsFiniteSet(Threads)
ASSUME RegionAssumption == Region \in Nat \ {0}
ASSUME SizesAssumption == Sizes \subseteq Nat \ {0}
ASSUME StreamsAssumption == Streams \in Nat \ {0}
ASSUME WordAssumption == Word \in Nat /\ Word > 2 * Region
ASSUME CallsAssumption == Calls \in Nat

VARIABLES
  card,           (* the driver: [kind, arch]                              *)
  todo,           (* the steps each thread's call has left                 *)
  reg,            (* the local variables of each thread's call             *)
  calls,          (* calls that may still be made                          *)
  probe_base,     (* *_PROBE_BASE: 0 or Base                               *)
  mmio_base,      (* *_MMIO_BASE                                           *)
  initialized,    (* *_INITIALIZED                                         *)
  control,        (* the device: off, in reset or enabled                  *)
  region_base,    (* DMA_REGION_BASE                                       *)
  region_ready,   (* DMA_INITIALIZED (LPU)                                 *)
  offset,         (* DMA_REGION_OFFSET, DMA_OFFSET                         *)
  stream_count,   (* STREAM_COUNT                                          *)
  stream_ids,     (* STREAM_IDS                                            *)
  stream_attrs,   (* STREAM_ATTRS                                          *)
  dart_base,      (* DART_BASE, SMMU_BASE                                  *)
  context,        (* the device's translation register of each slot        *)
  held,           (* history: the stream each thread's probe returned, and
                     the attributes that thread last set for it            *)
  buffers,        (* history: the buffers lent since the last set-up       *)
  lent,           (* history: their total size                             *)
  squeezed,       (* history: a buffer was lent while a refused request
                     had not been taken back                               *)
  raced,          (* history: a set-up reset the offset under a request    *)
  turned_away     (* history: a stream was refused                         *)

dma == <<region_base, region_ready, offset, buffers, lent, squeezed, raced>>
stream == <<stream_count, stream_ids, stream_attrs, dart_base, context, held, turned_away>>
device == <<probe_base, mmio_base, initialized, control>>
vars == <<card, todo, reg, calls, dma, stream, device>>

Kinds == {"lpu", "tpu"}
Archs == {"arm", "x86"}
Base == Region                (* where the region lies, when it is set up *)
NoStream == 0
Slots == 0 .. Streams - 1

Free == [id |-> NoStream, slot |-> 0, count |-> 0, size |-> 0, at |-> 0, attrs |-> "none"]

StepNames ==
  {"probe_base", "device_id", "mmio_base", "reset", "enable", "claim", "unclaim",
   "store_id", "store_attrs", "dart_base", "bypass", "count", "start", "search",
   "set_attrs", "context", "settled", "region_base", "rewind", "ready", "initialized",
   "take", "give_back", "address", "region?", "is_initialized", "mmio_base?", "command"}

(* Every register and table holds a value the code can store there, and a  *)
(* call has only steps that exist left.                                    *)
AcceleratorTypeOK ==
  /\ card \in [kind : Kinds, arch : Archs]
  /\ \A t \in Threads : \A i \in DOMAIN todo[t] : todo[t][i] \in StepNames
  /\ \A t \in Threads :
       /\ reg[t].slot \in 0 .. Streams + Cardinality(Threads)
       /\ reg[t].size \in Sizes \cup {0}
       /\ reg[t].at \in 0 .. Word - 1
  /\ calls \in 0 .. Calls
  /\ probe_base \in {0, Base} /\ mmio_base \in {0, Base} /\ region_base \in {0, Base}
  /\ dart_base \in {0, Base}
  /\ initialized \in BOOLEAN /\ region_ready \in BOOLEAN
  /\ control \in {"off", "reset", "enabled"}
  /\ offset \in 0 .. Word - 1
  /\ stream_count \in 0 .. Streams + Cardinality(Threads)
  /\ \A s \in Slots : stream_ids[s] \in Nat
  /\ \A s \in Slots : stream_attrs[s] \in {"none", "plain", "base", "cached", "device"}
  /\ \A s \in Slots : context[s] \in {"none", "bypass", "translate", "cached", "device"}

-----------------------------------------------------------------------------
(* A thread's call. *)

Idle(t) == todo[t] = <<>>
At(t, step) == todo[t] # <<>> /\ Head(todo[t]) = step

Call(t, program, locals) ==
  /\ Idle(t)
  /\ calls > 0
  /\ calls' = calls - 1
  /\ todo' = [todo EXCEPT ![t] = program]
  /\ reg' = [reg EXCEPT ![t] = locals]
  /\ UNCHANGED <<card, dma, stream, device>>

(* The call goes on with `rest`, its locals becoming `locals`. *)
Go(t, rest, locals) ==
  /\ todo' = [todo EXCEPT ![t] = rest]
  /\ reg' = [reg EXCEPT ![t] = IF rest = <<>> THEN Free ELSE locals]
  /\ UNCHANGED <<card, calls>>

Proceed(t) == Go(t, Tail(todo[t]), reg[t])

Asking(t) == \E step \in {"give_back", "address"} : At(t, step)

-----------------------------------------------------------------------------
(* Registers and tables both drivers have. *)

Configure(t, base) ==
  /\ Idle(t)
  /\ calls > 0
  /\ calls' = calls - 1
  /\ probe_base' = base
  /\ UNCHANGED <<card, todo, reg, dma, stream, mmio_base, initialized, control>>

(* The base that was configured; without one the call ends. *)
ReadProbeBase(t) ==
  /\ At(t, "probe_base")
  /\ IF probe_base = 0 THEN Go(t, <<>>, Free) ELSE Proceed(t)
  /\ UNCHANGED <<dma, stream, device>>

(* A device that is absent reads as 0 or as all ones. *)
ReadDeviceId(t) ==
  /\ At(t, "device_id")
  /\ Proceed(t) \/ Go(t, <<>>, Free)
  /\ UNCHANGED <<dma, stream, device>>

StoreMmioBase(t) ==
  /\ At(t, "mmio_base")
  /\ mmio_base' = Base
  /\ Proceed(t)
  /\ UNCHANGED <<dma, stream, probe_base, initialized, control>>

(* reset_device: the poll ends when the device is ready or after so many   *)
(* reads, and the device is enabled either way.                            *)
Reset(t) ==
  /\ At(t, "reset")
  /\ control' = "reset"
  /\ Proceed(t)
  /\ UNCHANGED <<dma, stream, probe_base, mmio_base, initialized>>

Enable(t) ==
  /\ At(t, "enable")
  /\ control' = "enabled"
  /\ Proceed(t)
  /\ UNCHANGED <<dma, stream, probe_base, mmio_base, initialized>>

(* fetch_add on the count: the slot is the thread's and `publish` fills    *)
(* it, or the table is full and the count is put back in a step of its own. *)
ClaimStream(t, id, publish) ==
  LET free == stream_count < Streams
  IN /\ At(t, "claim")
     /\ stream_count' = stream_count + 1
     /\ turned_away' = (turned_away \/ ~free)
     /\ Go(t, (IF free THEN publish ELSE <<"unclaim">>) \o Tail(todo[t]),
           [reg[t] EXCEPT !.slot = stream_count, !.id = IF free THEN id ELSE NoStream])
     /\ UNCHANGED <<dma, device, stream_ids, stream_attrs, dart_base, context, held>>

UnclaimStream(t) ==
  /\ At(t, "unclaim")
  /\ stream_count' = stream_count - 1
  /\ Proceed(t)
  /\ UNCHANGED <<dma, device, stream_ids, stream_attrs, dart_base, context, held, turned_away>>

StoreStreamId(t) ==
  /\ At(t, "store_id")
  /\ stream_ids' = [stream_ids EXCEPT ![reg[t].slot] = reg[t].id]
  /\ Proceed(t)
  /\ UNCHANGED <<dma, device, stream_count, stream_attrs, dart_base, context, held, turned_away>>

StoreStreamAttrs(t, attrs) ==
  /\ At(t, "store_attrs")
  /\ stream_attrs' = [stream_attrs EXCEPT ![reg[t].slot] = attrs]
  /\ Proceed(t)
  /\ UNCHANGED <<dma, device, stream_count, stream_ids, dart_base, context, held, turned_away>>

StoreDartBase(t) ==
  /\ At(t, "dart_base")
  /\ dart_base' = Base
  /\ Proceed(t)
  /\ UNCHANGED <<dma, device, stream_count, stream_ids, stream_attrs, context, held, turned_away>>

(* On arm a new slot's translation register says to bypass.                *)
Bypass(t) ==
  /\ At(t, "bypass")
  /\ context' = [context EXCEPT ![reg[t].slot] = "bypass"]
  /\ Proceed(t)
  /\ UNCHANGED <<dma, device, stream_count, stream_ids, stream_attrs, dart_base, held, turned_away>>

(* One turn of the search for the stream among the first `count` slots.    *)
(* The table ends after Streams slots: indexing past it is a panic, and    *)
(* the thread goes no further.                                             *)
Search(t, count, found) ==
  LET slot == reg[t].slot
  IN /\ At(t, "search")
     /\ IF slot >= count
          THEN Proceed(t)
          ELSE /\ slot < Streams
               /\ IF stream_ids[slot] = reg[t].id
                    THEN Go(t, found \o Tail(todo[t]), reg[t])
                    ELSE Go(t, todo[t], [reg[t] EXCEPT !.slot = slot + 1])
     /\ UNCHANGED <<dma, stream, device>>

SetStreamAttrs(t) ==
  /\ At(t, "set_attrs")
  /\ stream_attrs' = [stream_attrs EXCEPT ![reg[t].slot] = reg[t].attrs]
  /\ Proceed(t)
  /\ UNCHANGED <<dma, device, stream_count, stream_ids, dart_base, context, held, turned_away>>

WriteContext(t, value) ==
  /\ At(t, "context")
  /\ context' = IF dart_base = 0 THEN context ELSE [context EXCEPT ![reg[t].slot] = value]
  /\ Proceed(t)
  /\ UNCHANGED <<dma, device, stream_count, stream_ids, stream_attrs, dart_base, held, turned_away>>

StoreRegionBase(t) ==
  /\ At(t, "region_base")
  /\ region_base' = Base
  /\ Proceed(t)
  /\ UNCHANGED <<stream, device, region_ready, offset, buffers, lent, squeezed, raced>>

(* *_INITIALIZED, and the context returned to the caller.                  *)
Finish(t) ==
  /\ At(t, "initialized")
  /\ initialized' = TRUE
  /\ held' = [held EXCEPT ![t] = [id |-> reg[t].id, attrs |-> reg[t].attrs]]
  /\ Proceed(t)
  /\ UNCHANGED <<dma, probe_base, mmio_base, control, stream_count, stream_ids,
                 stream_attrs, dart_base, context, turned_away>>

(* The owner of a stream sets its attributes: what it asked for is on      *)
(* record from the moment the call returns.                                *)
Settled(t) ==
  /\ At(t, "settled")
  /\ held' = [held EXCEPT ![t].attrs = reg[t].attrs]
  /\ Proceed(t)
  /\ UNCHANGED <<dma, device, stream_count, stream_ids, stream_attrs, dart_base, context, turned_away>>

(* The register writes that start a command on the device.                 *)
Command(t) ==
  /\ At(t, "command")
  /\ Proceed(t)
  /\ UNCHANGED <<dma, stream, device>>

(* The bytes a request that was granted is answered with.                  *)
Lend(t, base, off) ==
  /\ buffers' = buffers \cup {[at |-> (base + off) % Word, size |-> reg[t].size]}
  /\ lent' = lent + reg[t].size

Init ==
  /\ todo = [t \in Threads |-> <<>>]
  /\ reg = [t \in Threads |-> Free]
  /\ calls = Calls
  /\ probe_base = 0 /\ mmio_base = 0 /\ initialized = FALSE /\ control = "off"
  /\ region_base = 0 /\ region_ready = FALSE /\ offset = 0
  /\ stream_count = 0
  /\ stream_ids = [s \in Slots |-> NoStream]
  /\ stream_attrs = [s \in Slots |-> "none"]
  /\ dart_base = 0
  /\ context = [s \in Slots |-> "none"]
  /\ held = [t \in Threads |-> [id |-> NoStream, attrs |-> "none"]]
  /\ buffers = {} /\ lent = 0
  /\ squeezed = FALSE /\ raced = FALSE /\ turned_away = FALSE

-----------------------------------------------------------------------------

Bytes(b) == b.at .. b.at + b.size - 1

(* Two buffers lent from the DMA region since it was set up never share a  *)
(* byte, and each lies inside the region, however the calls that asked for *)
(* them interleaved: alloc_inference_buffer and alloc_dma_buffer.  Two     *)
(* interleavings of the LPU are excepted: a grant while a refused request  *)
(* is not yet taken back, and a set-up under a request.                    *)
BuffersAreDisjoint ==
  ~squeezed /\ ~raced =>
    /\ \A b \in buffers : Bytes(b) \subseteq Base .. Base + Region - 1
    /\ \A b, c \in buffers : b # c => Bytes(b) \cap Bytes(c) = {}

(* A command reaches an LPU only after some bring-up reset it, set up its  *)
(* region and gave it a stream, although submit and probe_device run on    *)
(* different threads: *_INITIALIZED is the last thing a bring-up stores.   *)
CommandsFollowBringUp ==
  card.kind = "lpu" =>
    \A t \in Threads : At(t, "command") => control # "off" /\ region_ready /\ stream_count > 0
=============================================================================
