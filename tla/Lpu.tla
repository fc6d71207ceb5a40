-------------------------------- MODULE Lpu --------------------------------
(***************************************************************************)
(* nnn-hal/src/{arm,x86}/macos/lpu: the inference accelerator.  Its DMA    *)
(* region takes a refused request back with a fetch_sub, its set-up resets *)
(* the offset, its streams have an id per slot, and a command is sent only *)
(* once *_INITIALIZED is set.                                              *)
(***************************************************************************)
EXTENDS Accelerator

FirstStream == 100     (* 0x300: ids are this one plus the slot            *)

-----------------------------------------------------------------------------
(* configure_lpu_stream and set_lpu_attributes. *)

PublishArm == <<"store_id", "store_attrs", "dart_base", "bypass">>

PublishX86 == <<"store_id", "store_attrs", "dart_base">>

(* Mutant of StreamId: every slot gets the first id, as on the TPU.        *)
StreamIdFixed(slot) == FirstStream

StreamId(slot) == FirstStream + slot

Claim(t) ==
  ClaimStream(t, StreamId(stream_count),
              IF card.arch = "arm" THEN PublishArm ELSE PublishX86)

(* The attributes a new slot starts with: on x86, the base of the device.  *)
FirstAttrs == IF card.arch = "arm" THEN "plain" ELSE "base"

CountStreams(t) ==
  /\ At(t, "count")
  /\ Go(t, Tail(todo[t]), [reg[t] EXCEPT !.count = stream_count, !.slot = 0])
  /\ UNCHANGED <<dma, stream, device>>

ContextArm(attrs) == IF attrs = "cached" THEN "translate" ELSE "bypass"

(* The bits of CBAR tell the attributes apart.                             *)
ContextX86(attrs) == attrs

Context(attrs) == IF card.arch = "arm" THEN ContextArm(attrs) ELSE ContextX86(attrs)

SetAttributes == <<"count", "search">>

-----------------------------------------------------------------------------
(* The region (dma.rs, the same on both). *)

(* The set-up stores 0 in the offset, whoever holds buffers or is asking.  *)
RewindRegion(t) ==
  /\ At(t, "rewind")
  /\ offset' = 0
  /\ buffers' = {} /\ lent' = 0
  /\ raced' = (raced \/ \E u \in Threads : Asking(u))
  /\ Proceed(t)
  /\ UNCHANGED <<stream, device, region_base, region_ready, squeezed>>

RegionReady(t) ==
  /\ At(t, "ready")
  /\ region_ready' = TRUE
  /\ Proceed(t)
  /\ UNCHANGED <<stream, device, region_base, offset, buffers, lent, squeezed, raced>>

(* Mutant of Fits: only the start of the buffer must lie in the region.    *)
FitsByStart(off, size) == off < Region

Fits(off, size) == (off + size) % Word <= Region

(* alloc_inference_buffer: fetch_add first, then the comparison.           *)
Take(t) ==
  /\ At(t, "take")
  /\ offset' = (offset + reg[t].size) % Word
  /\ Go(t, (IF Fits(offset, reg[t].size) THEN <<"address">> ELSE <<"give_back">>)
           \o Tail(todo[t]),
        [reg[t] EXCEPT !.at = offset])
  /\ squeezed' = (squeezed \/ /\ Fits(offset, reg[t].size)
                              /\ \E u \in Threads : At(u, "give_back"))
  /\ UNCHANGED <<stream, device, region_base, region_ready, buffers, lent, raced>>

(* Mutant of GiveBack: a refused request keeps its bytes, as on the TPU.   *)
GiveBackNothing(t) ==
  /\ At(t, "give_back")
  /\ Proceed(t)
  /\ UNCHANGED <<stream, device, dma>>

GiveBack(t) ==
  /\ At(t, "give_back")
  /\ offset' = (offset - reg[t].size) % Word
  /\ Proceed(t)
  /\ UNCHANGED <<stream, device, region_base, region_ready, buffers, lent, squeezed, raced>>

Address(t) ==
  /\ At(t, "address")
  /\ Lend(t, region_base, reg[t].at)
  /\ Proceed(t)
  /\ UNCHANGED <<stream, device, region_base, region_ready, offset, squeezed, raced>>

-----------------------------------------------------------------------------
(* Calls. *)

(* Mutant of BringUp: the device is published before it is set up.         *)
BringUpEager ==
  <<"probe_base", "device_id", "mmio_base", "initialized", "reset", "enable", "claim">>
  \o SetAttributes \o <<"region_base", "rewind", "ready">>

(* probe_device and init_lpu.                                              *)
BringUp ==
  <<"probe_base", "device_id", "mmio_base", "reset", "enable", "claim">>
  \o SetAttributes \o <<"region_base", "rewind", "ready", "initialized">>

ProbeDevice(t) == Call(t, BringUp, [Free EXCEPT !.attrs = "cached"])

(* Callers are taken to ask is_region_initialized first: nothing in        *)
(* alloc_inference_buffer does.                                            *)
DmaAlloc(t, size) ==
  /\ region_ready
  /\ Call(t, <<"take">>, [Free EXCEPT !.size = size])

(* smmu_set_attrs, by the thread whose probe returned the stream.          *)
SmmuSetAttrs(t, attrs) ==
  /\ held[t].id # NoStream
  /\ Call(t, SetAttributes \o <<"settled">>,
          [Free EXCEPT !.id = held[t].id, !.attrs = attrs])

(* submit_prefill, submit_decode, submit_speculative and dma_submit, which *)
(* all ask device_mmio_base.                                               *)
Submit(t) == Call(t, <<"probe_base", "is_initialized", "command">>, Free)

IsInitialized(t) ==
  /\ At(t, "is_initialized")
  /\ IF initialized THEN Proceed(t) ELSE Go(t, <<>>, Free)
  /\ UNCHANGED <<dma, stream, device>>

Steps(t) ==
  \/ \E base \in {0, Base} : Configure(t, base)
  \/ ProbeDevice(t)
  \/ \E size \in Sizes : DmaAlloc(t, size)
  \/ \E attrs \in {"cached", "device"} : SmmuSetAttrs(t, attrs)
  \/ Submit(t)
  \/ ReadProbeBase(t) \/ ReadDeviceId(t) \/ StoreMmioBase(t) \/ Reset(t) \/ Enable(t)
  \/ Claim(t) \/ UnclaimStream(t) \/ StoreStreamId(t) \/ StoreStreamAttrs(t, FirstAttrs)
  \/ StoreDartBase(t) \/ Bypass(t) \/ CountStreams(t)
  \/ Search(t, reg[t].count, <<"set_attrs", "context">>)
  \/ SetStreamAttrs(t) \/ WriteContext(t, Context(reg[t].attrs)) \/ Settled(t)
  \/ StoreRegionBase(t) \/ RewindRegion(t) \/ RegionReady(t) \/ Finish(t)
  \/ Take(t) \/ GiveBack(t) \/ Address(t)
  \/ IsInitialized(t) \/ Command(t)

LpuInit == Init /\ card \in [kind : {"lpu"}, arch : Archs]

LpuSpec == LpuInit /\ [][\E t \in Threads : Steps(t)]_vars

-----------------------------------------------------------------------------

Requesting(t) ==
  \E i \in DOMAIN todo[t] : todo[t][i] \in {"take", "give_back", "address"}

(* When no request is under way, the LPU's offset is the sum of what was   *)
(* lent: a refused request has been taken back exactly once, although      *)
(* others moved the offset between its fetch_add and its fetch_sub.        *)
RefusalsGiveBack ==
  card.kind = "lpu" /\ ~raced /\ (\A t \in Threads : ~Requesting(t)) => offset = lent

(* While no stream has been refused, the thread that owns a stream of the  *)
(* LPU finds the attributes it last set in that stream's slot, and the     *)
(* device's translation register says the same, whatever other threads did *)
(* to the tables meanwhile: configure_lpu_stream and set_lpu_attributes.   *)
StreamsKeepTheirSlot ==
  card.kind = "lpu" /\ ~turned_away =>
    \A t \in Threads : held[t].id # NoStream /\ Idle(t) =>
      \E s \in Slots :
        /\ stream_ids[s] = held[t].id
        /\ stream_attrs[s] = held[t].attrs
        /\ context[s] = Context(held[t].attrs)
=============================================================================
