-------------------------------- MODULE Tpu --------------------------------
(***************************************************************************)
(* nnn-hal/src/{arm,x86}/macos/tpu: the tensor accelerator.  A refused     *)
(* request for DMA memory is never taken back, the set-up leaves the       *)
(* offset alone, every probe asks for the same stream id, and a command    *)
(* needs no more than the base the probe stores before the reset.          *)
(***************************************************************************)
EXTENDS Accelerator

TpuStream == 200       (* 0x200 *)

-----------------------------------------------------------------------------
(* configure_tpu_stream and set_tpu_attributes. *)

PublishArm == <<"store_id", "store_attrs", "dart_base", "bypass">>

(* No translation register is written on x86. *)
PublishX86 == <<"store_id", "store_attrs">>

Claim(t) ==
  ClaimStream(t, TpuStream, IF card.arch = "arm" THEN PublishArm ELSE PublishX86)

FirstAttrs == IF card.arch = "arm" THEN "device" ELSE "base"

(* Every slot is looked at, whatever the count says. *)
StartSearch(t) ==
  /\ At(t, "start")
  /\ Go(t, Tail(todo[t]), [reg[t] EXCEPT !.slot = 0])
  /\ UNCHANGED <<dma, stream, device>>

SetFoundArm == <<"set_attrs", "context">>

SetFoundX86 == <<"set_attrs">>

SetFound == IF card.arch = "arm" THEN SetFoundArm ELSE SetFoundX86

Context(attrs) == IF attrs = "cached" THEN "translate" ELSE "bypass"

-----------------------------------------------------------------------------
(* The region (dma.rs, the same on both). *)

Fits(off, size) == (off + size) % Word <= Region

ReadRegionBase(t) ==
  /\ At(t, "region?")
  /\ IF region_base = 0 THEN Go(t, <<>>, Free) ELSE Proceed(t)
  /\ UNCHANGED <<dma, stream, device>>

(* alloc_dma_buffer: what does not fit stays counted. *)
Take(t) ==
  /\ At(t, "take")
  /\ offset' = (offset + reg[t].size) % Word
  /\ IF Fits(offset, reg[t].size)
       THEN Lend(t, region_base, offset)
       ELSE UNCHANGED <<buffers, lent>>
  /\ Proceed(t)
  /\ UNCHANGED <<stream, device, region_base, region_ready, squeezed, raced>>

-----------------------------------------------------------------------------
(* Calls. *)

(* probe_device and init_tpu. *)
BringUp ==
  <<"probe_base", "device_id", "mmio_base", "reset", "enable", "claim",
    "start", "search", "region_base", "initialized">>

ProbeDevice(t) == Call(t, BringUp, [Free EXCEPT !.attrs = "device"])

DmaAlloc(t, size) == Call(t, <<"region?", "take">>, [Free EXCEPT !.size = size])

SmmuSetAttrs(t, attrs) ==
  /\ held[t].id # NoStream
  /\ Call(t, <<"start", "search", "settled">>,
          [Free EXCEPT !.id = held[t].id, !.attrs = attrs])

(* submit_compute and dma_submit ask for the base alone.                   *)
Submit(t) == Call(t, <<"mmio_base?", "command">>, Free)

ReadMmioBase(t) ==
  /\ At(t, "mmio_base?")
  /\ IF mmio_base = 0 THEN Go(t, <<>>, Free) ELSE Proceed(t)
  /\ UNCHANGED <<dma, stream, device>>

Steps(t) ==
  \/ \E base \in {0, Base} : Configure(t, base)
  \/ ProbeDevice(t)
  \/ \E size \in Sizes : DmaAlloc(t, size)
  \/ \E attrs \in {"cached", "device"} : SmmuSetAttrs(t, attrs)
  \/ Submit(t)
  \/ ReadProbeBase(t) \/ ReadDeviceId(t) \/ StoreMmioBase(t) \/ Reset(t) \/ Enable(t)
  \/ Claim(t) \/ UnclaimStream(t) \/ StoreStreamId(t) \/ StoreStreamAttrs(t, FirstAttrs)
  \/ StoreDartBase(t) \/ Bypass(t) \/ StartSearch(t)
  \/ Search(t, Streams, SetFound)
  \/ SetStreamAttrs(t) \/ WriteContext(t, Context(reg[t].attrs)) \/ Settled(t)
  \/ StoreRegionBase(t) \/ Finish(t)
  \/ ReadRegionBase(t) \/ Take(t)
  \/ ReadMmioBase(t) \/ Command(t)
=============================================================================
