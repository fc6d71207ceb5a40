--------------------------- MODULE ThreadsProofs ---------------------------
(***************************************************************************)
(* Proofs about what threads and processes share without a lock.           *)
(*                                                                         *)
(* The driver of the inference accelerator, for any finite number of       *)
(* threads and calls, and tables and regions of any size: a command        *)
(* follows a bring-up; no two threads publish in one slot, and a stream    *)
(* keeps its own; a refused request is taken back; and no two buffers that *)
(* are lent share a byte.  What a thread still has to do is a sequence of  *)
(* steps.  The proofs only use which steps are in it, and three facts      *)
(* about their order: nothing comes after the last step of a program, a    *)
(* slot is published before anything else is done, and a refused stream is *)
(* put back at once.  What the streams and the requests need of that order *)
(* is Program, below.                                                      *)
(*                                                                         *)
(* The driver of the tensor accelerator: it never takes a request back, so *)
(* what keeps its buffers apart is that the offset does not wrap, which is *)
(* a matter of the calls that were made (TpuInv).  OneOfTheDrivers brings  *)
(* both together: a behaviour of MCSpec is one of them.                    *)
(*                                                                         *)
(* The guardian and the file store behind it, for any number of processes  *)
(* and calls, any data, limits and loads: once initialize has returned the *)
(* guardian refuses nothing, and so a descriptor is left open only by a    *)
(* close that was asked for before (GuardianInv); and a call that answers  *)
(* Ok did what it promises, when no other process changed the file in the  *)
(* meantime (StoreInv: how far each call has come).                        *)
(***************************************************************************)
EXTENDS MCThreads, FiniteSetTheorems, SequenceTheorems, TLAPS

-----------------------------------------------------------------------------
(* The driver. *)

StepsIn(s) == {s[i] : i \in DOMAIN s}

Last == {"initialized", "command"}
Publish == {"store_id", "store_attrs", "dart_base", "bypass"}

Ordered(s) ==
  /\ s \in Seq(StepNames)
  /\ \A i \in DOMAIN s : s[i] \in Last => i = Len(s)
  /\ \A i \in DOMAIN s : s[i] = "unclaim" => i = 1
  /\ \A i, j \in DOMAIN s : s[i] \in Publish /\ s[j] \notin Publish => i < j

(* The next step of a call is one of those it has left.                    *)
LEMMA HeadIsIn == ASSUME NEW s, Ordered(s), s # <<>> PROVE Head(s) \in StepsIn(s)
<1>1. Len(s) \in Nat \ {0} /\ Head(s) = s[1]
  BY DEF Ordered
<1>2. 1 \in DOMAIN s
  BY <1>1 DEF Ordered
<1>3. QED
  BY <1>1, <1>2 DEF StepsIn

(* What is left of an ordered program after its first step.                *)
LEMMA TailIsOrdered ==
  ASSUME NEW s, Ordered(s), s # <<>>
  PROVE  /\ Ordered(Tail(s))
         /\ StepsIn(s) = {Head(s)} \cup StepsIn(Tail(s))
         /\ "unclaim" \notin StepsIn(Tail(s))
         /\ Head(s) \notin Publish => StepsIn(Tail(s)) \cap Publish = {}
         /\ Head(s) \in Last => Tail(s) = <<>>
<1> DEFINE r == Tail(s)
<1>1. s \in Seq(StepNames) /\ Len(s) \in Nat \ {0} /\ Head(s) = s[1]
  BY DEF Ordered
<1>2. r \in Seq(StepNames) /\ Len(r) = Len(s) - 1 /\ \A i \in 1 .. Len(r) : r[i] = s[i + 1]
  BY <1>1
<1>3. DOMAIN s = 1 .. Len(s) /\ DOMAIN r = 1 .. Len(r)
  BY <1>1, <1>2
<1>4. \A i \in DOMAIN r : i + 1 \in DOMAIN s /\ r[i] = s[i + 1]
  BY <1>1, <1>2, <1>3
<1>5. Ordered(r)
  <2>1. \A i \in DOMAIN r : r[i] \in Last => i = Len(r)
    BY <1>2, <1>3, <1>4 DEF Ordered
  <2>2. \A i \in DOMAIN r : r[i] # "unclaim"
    BY <1>3, <1>4 DEF Ordered
  <2>3. \A i, j \in DOMAIN r : r[i] \in Publish /\ r[j] \notin Publish => i < j
    BY <1>3, <1>4 DEF Ordered
  <2>4. QED
    BY <1>2, <2>1, <2>2, <2>3 DEF Ordered
<1>6. StepsIn(s) = {Head(s)} \cup StepsIn(r)
  <2>1. ASSUME NEW i \in DOMAIN s, i # 1 PROVE i - 1 \in DOMAIN r /\ r[i - 1] = s[i]
    BY <2>1, <1>1, <1>2, <1>3
  <2>2. 1 \in DOMAIN s
    BY <1>1, <1>3
  <2>3. StepsIn(s) \subseteq {Head(s)} \cup StepsIn(r)
    BY <1>1, <2>1 DEF StepsIn
  <2>4. {Head(s)} \cup StepsIn(r) \subseteq StepsIn(s)
    BY <1>1, <1>4, <2>2 DEF StepsIn
  <2>5. QED
    BY <2>3, <2>4
<1>7. "unclaim" \notin StepsIn(r)
  BY <1>3, <1>4 DEF Ordered, StepsIn
<1>8. Head(s) \notin Publish => StepsIn(r) \cap Publish = {}
  <2>1. 1 \in DOMAIN s
    BY <1>1, <1>3
  <2>2. QED
    BY <1>1, <1>3, <1>4, <2>1 DEF Ordered, StepsIn
<1>9. Head(s) \in Last => r = <<>>
  <2>1. 1 \in DOMAIN s
    BY <1>1, <1>3
  <2>2. Head(s) \in Last => Len(r) = 0
    BY <1>1, <1>2, <2>1 DEF Ordered
  <2>3. QED
    BY <1>2, <2>2
<1>10. QED
  BY <1>5, <1>6, <1>7, <1>8, <1>9

(* Steps put in front of what is left.                                     *)
LEMMA PrefixIsOrdered ==
  ASSUME NEW r, Ordered(r), StepsIn(r) \cap Publish = {}, "unclaim" \notin StepsIn(r),
         NEW pre, Ordered(pre), StepsIn(pre) \cap Last = {}
  PROVE  Ordered(pre \o r) /\ StepsIn(pre \o r) = StepsIn(pre) \cup StepsIn(r)
<1> DEFINE s == pre \o r
           n == Len(pre)
<1>1. r \in Seq(StepNames) /\ pre \in Seq(StepNames) /\ n \in Nat /\ Len(r) \in Nat
  BY DEF Ordered
<1>2. s \in Seq(StepNames) /\ Len(s) = n + Len(r)
  BY <1>1
<1>3. \A i \in 1 .. n : i \in DOMAIN s /\ s[i] = pre[i]
  BY <1>1, <1>2
<1>4. \A i \in 1 .. Len(r) : n + i \in DOMAIN s /\ s[n + i] = r[i]
  BY <1>1, <1>2
<1>5. DOMAIN s = 1 .. n + Len(r) /\ DOMAIN pre = 1 .. n /\ DOMAIN r = 1 .. Len(r)
  BY <1>1, <1>2
<1>6. ASSUME NEW i \in DOMAIN s
      PROVE  \/ i \in DOMAIN pre /\ s[i] = pre[i]
             \/ i > n /\ i - n \in DOMAIN r /\ s[i] = r[i - n]
  <2>1. CASE i <= n
    BY <1>1, <1>3, <1>5, <2>1
  <2>2. CASE i > n
    <3>1. i - n \in 1 .. Len(r)
      BY <1>1, <1>5, <2>2
    <3>2. s[n + (i - n)] = r[i - n] /\ n + (i - n) = i
      BY <1>1, <1>4, <1>5, <3>1
    <3>3. QED
      BY <1>5, <2>2, <3>1, <3>2
  <2>3. QED
    BY <1>1, <1>5, <2>1, <2>2
<1>7. \A i \in DOMAIN s : s[i] \in Last => i = Len(s)
  <2>1. \A i \in DOMAIN pre : pre[i] \notin Last
    BY DEF StepsIn
  <2>2. ASSUME NEW i \in DOMAIN s, s[i] \in Last PROVE i = Len(s)
    <3>1. i - n \in DOMAIN r /\ s[i] = r[i - n]
      BY <1>6, <2>1, <2>2
    <3>2. i - n = Len(r)
      BY <2>2, <3>1 DEF Ordered
    <3>3. QED
      BY <1>1, <1>2, <1>5, <3>2
  <2>3. QED
    BY <2>2
<1>8. \A i \in DOMAIN s : s[i] = "unclaim" => i = 1
  <2>1. \A i \in DOMAIN r : r[i] # "unclaim"
    BY DEF StepsIn
  <2>2. QED
    BY <1>6, <2>1 DEF Ordered
<1>9. \A i, j \in DOMAIN s : s[i] \in Publish /\ s[j] \notin Publish => i < j
  <2>1. \A i \in DOMAIN r : r[i] \notin Publish
    BY DEF StepsIn
  <2>2. ASSUME NEW i \in DOMAIN s, NEW j \in DOMAIN s, s[i] \in Publish, s[j] \notin Publish
        PROVE  i < j
    <3>1. i \in DOMAIN pre /\ s[i] = pre[i]
      BY <1>6, <2>1, <2>2
    <3>2. CASE j \in DOMAIN pre /\ s[j] = pre[j]
      BY <2>2, <3>1, <3>2 DEF Ordered
    <3>3. CASE j > n
      BY <1>1, <1>5, <3>1, <3>3
    <3>4. QED
      BY <1>6, <3>2, <3>3
  <2>3. QED
    BY <2>2
<1>10. StepsIn(s) = StepsIn(pre) \cup StepsIn(r)
  <2>1. StepsIn(s) \subseteq StepsIn(pre) \cup StepsIn(r)
    BY <1>6 DEF StepsIn
  <2>2. StepsIn(pre) \subseteq StepsIn(s)
    BY <1>3, <1>5 DEF StepsIn
  <2>3. StepsIn(r) \subseteq StepsIn(s)
    BY <1>4, <1>5 DEF StepsIn
  <2>4. QED
    BY <2>1, <2>2, <2>3
<1>11. QED
  BY <1>2, <1>7, <1>8, <1>9, <1>10 DEF Ordered
-----------------------------------------------------------------------------
(* The invariant. *)

Locals ==
  [id : Nat, slot : Nat, count : Nat, size : Nat, at : Nat, attrs : {"none", "cached", "device"}]

Typed ==
  /\ card \in [kind : {"lpu"}, arch : Archs]
  /\ reg \in [Threads -> Locals]
  /\ held \in [Threads -> [id : Nat, attrs : {"none", "cached", "device"}]]
  /\ stream_count \in Nat /\ offset \in Nat

ProgramsAreOrdered ==
  DOMAIN todo = Threads /\ \A t \in Threads : Ordered(todo[t])

Left(t) == StepsIn(todo[t])

(* The refused streams that are not put back yet, and the count without    *)
(* them: the slots that were claimed.                                      *)
Unclaimers == {t \in Threads : At(t, "unclaim")}
Claimed == stream_count - Cardinality(Unclaimers)

CountIsRestored ==
  /\ Claimed \in 0 .. Streams
  /\ Unclaimers # {} => Claimed = Streams

Publishing(t) == Left(t) \cap Publish # {}

SlotsAreApart ==
  \A t \in Threads : Publishing(t) =>
    /\ reg[t].slot < Claimed
    /\ \A u \in Threads \ {t} : Publishing(u) => reg[u].slot # reg[t].slot

(* A thread that will say the device is initialized has done, or will do   *)
(* before, what that means; and one that will send a command asks before.  *)
SetUpInOrder ==
  \A t \in Threads : "initialized" \in Left(t) =>
    /\ "reset" \in Left(t) \/ control # "off"
    /\ "ready" \in Left(t) \/ region_ready
    /\ "claim" \in Left(t) \/ Claimed > 0

Up == control # "off" /\ region_ready /\ Claimed > 0

AskedFirst ==
  /\ initialized => Up
  /\ \A t \in Threads : "command" \in Left(t) => "is_initialized" \in Left(t) \/ initialized

IInv ==
  Typed /\ ProgramsAreOrdered /\ CountIsRestored /\ SlotsAreApart /\ SetUpInOrder /\ AskedFirst

(* Threads that have nothing left to do violate nothing.                   *)
LEMMA InitIsSafe == ASSUME LpuInit PROVE IInv
<1> USE DEF LpuInit, Init
<1>1. Free \in Locals
  BY DEF Free, Locals, NoStream
<1>2. [id |-> NoStream, attrs |-> "none"] \in [id : Nat, attrs : {"none", "cached", "device"}]
  BY DEF NoStream
<1>3. Typed
  BY <1>1, <1>2 DEF Typed
<1>4. \A t \in Threads : todo[t] = <<>> /\ Left(t) = {}
  BY DEF Left, StepsIn
<1>5. Ordered(<<>>)
  BY DEF Ordered
<1>6. ProgramsAreOrdered
  BY <1>4, <1>5 DEF ProgramsAreOrdered
<1>7. Unclaimers = {}
  BY <1>4 DEF Unclaimers, At
<1>8. Claimed = 0
  BY <1>7, FS_EmptySet DEF Claimed
<1>9. CountIsRestored
  BY <1>7, <1>8, StreamsAssumption DEF CountIsRestored
<1>10. SlotsAreApart /\ SetUpInOrder /\ AskedFirst
  BY <1>4 DEF SlotsAreApart, Publishing, SetUpInOrder, AskedFirst
<1>11. QED
  BY <1>3, <1>6, <1>9, <1>10 DEF IInv

-----------------------------------------------------------------------------
(* Steps of a thread. *)

(* What a step of a thread must respect.                                   *)
LEMMA StepIsSafe ==
  ASSUME IInv, NEW t \in Threads, NEW rest, Ordered(rest), NEW l \in Locals,
         todo' = [todo EXCEPT ![t] = rest], reg' = [reg EXCEPT ![t] = l],
         card' = card, held' \in [Threads -> [id : Nat, attrs : {"none", "cached", "device"}]],
         stream_count' \in Nat, offset' \in Nat,
         CountIsRestored', Claimed' >= Claimed,
         StepsIn(rest) \cap Publish # {} =>
           /\ l.slot < Claimed'
           /\ \A u \in Threads \ {t} : Publishing(u) => reg[u].slot # l.slot,
         control # "off" => control' # "off",
         region_ready => region_ready',
         initialized => initialized',
         initialized' => initialized \/ Up,
         "initialized" \in StepsIn(rest) =>
           /\ "reset" \in StepsIn(rest) \/ control' # "off"
           /\ "ready" \in StepsIn(rest) \/ region_ready'
           /\ "claim" \in StepsIn(rest) \/ Claimed' > 0,
         "command" \in StepsIn(rest) => "is_initialized" \in StepsIn(rest) \/ initialized'
  PROVE  IInv'
<1>1. Typed'
  BY DEF IInv, Typed
<1>2. ProgramsAreOrdered'
  BY DEF IInv, ProgramsAreOrdered
<1>3. /\ Left(t)' = StepsIn(rest) /\ reg'[t] = l
      /\ \A u \in Threads \ {t} : Left(u)' = Left(u) /\ reg'[u] = reg[u]
  BY DEF IInv, ProgramsAreOrdered, Typed, Left
<1>4. Claimed \in Int /\ Claimed' \in Int /\ \A u \in Threads : reg[u].slot \in Nat
  BY DEF IInv, CountIsRestored, Typed, Locals
<1>5. /\ Publishing(t)' <=> StepsIn(rest) \cap Publish # {}
      /\ \A u \in Threads \ {t} : Publishing(u)' <=> Publishing(u)
  BY <1>3 DEF Publishing
<1>6. SlotsAreApart'
  <2>1. \A u \in Threads \ {t} : Publishing(u) => reg[u].slot < Claimed'
    BY <1>4 DEF IInv, SlotsAreApart
  <2>2. QED
    BY <1>3, <1>5, <2>1 DEF IInv, SlotsAreApart
<1>7. SetUpInOrder'
  BY <1>3, <1>4 DEF IInv, SetUpInOrder
<1>8. AskedFirst'
  BY <1>3, <1>4 DEF IInv, AskedFirst, Up
<1>9. QED
  BY <1>1, <1>2, <1>6, <1>7, <1>8 DEF IInv

(* A step that neither refuses a stream nor puts one back counts nothing.  *)
LEMMA CountIsKept ==
  ASSUME IInv, NEW t \in Threads, NEW rest, Ordered(rest), "unclaim" \notin StepsIn(rest),
         ~At(t, "unclaim"), todo' = [todo EXCEPT ![t] = rest], stream_count' = stream_count
  PROVE  Claimed' = Claimed /\ CountIsRestored'
<1>1. rest # <<>> => Head(rest) \in StepsIn(rest)
  BY HeadIsIn
<1>2. ~At(t, "unclaim")'
  BY <1>1 DEF At, IInv, ProgramsAreOrdered
<1>3. \A u \in Threads \ {t} : At(u, "unclaim")' <=> At(u, "unclaim")
  BY DEF At, IInv, ProgramsAreOrdered
<1>4. Unclaimers' = Unclaimers
  BY <1>2, <1>3 DEF Unclaimers
<1>5. QED
  BY <1>4 DEF Claimed, CountIsRestored, IInv

(* A call goes on with its next step: what it leaves behind was the reset, *)
(* the end of the set-up or the question, or is no condition of anything.  *)
LEMMA ProceedIsSafe ==
  ASSUME IInv, NEW t \in Threads, NEW h, At(t, h), Proceed(t), h \notin {"claim", "unclaim"},
         held' \in [Threads -> [id : Nat, attrs : {"none", "cached", "device"}]],
         stream_count' = stream_count, offset' \in Nat,
         control # "off" \/ h = "reset" => control' # "off",
         region_ready \/ h = "ready" => region_ready',
         initialized => initialized',
         initialized' => initialized \/ h = "initialized",
         h = "is_initialized" => initialized
  PROVE  IInv'
<1> DEFINE rest == Tail(todo[t])
           l == IF rest = <<>> THEN Free ELSE reg[t]
<1>1. Ordered(todo[t]) /\ todo[t] # <<>> /\ Head(todo[t]) = h /\ reg[t] \in Locals
  BY DEF At, IInv, ProgramsAreOrdered, Typed
<1>2. /\ Ordered(rest) /\ Left(t) = {h} \cup StepsIn(rest) /\ "unclaim" \notin StepsIn(rest)
      /\ h \in Last => rest = <<>>
  BY <1>1, TailIsOrdered DEF Left
<1>3. /\ todo' = [todo EXCEPT ![t] = rest] /\ reg' = [reg EXCEPT ![t] = l] /\ card' = card
  BY DEF Proceed, Go
<1>4. l \in Locals
  BY <1>1 DEF Free, Locals, NoStream
<1>5. ~At(t, "unclaim")
  BY DEF At
<1>6. Claimed' = Claimed /\ CountIsRestored'
  BY <1>2, <1>3, <1>5, CountIsKept
<1>7. rest = <<>> => StepsIn(rest) = {}
  BY DEF StepsIn
<1>8. StepsIn(rest) \cap Publish # {} =>
        l.slot < Claimed' /\ \A u \in Threads \ {t} : Publishing(u) => reg[u].slot # l.slot
  <2> SUFFICES ASSUME StepsIn(rest) \cap Publish # {}
               PROVE  l.slot < Claimed' /\ \A u \in Threads \ {t} : Publishing(u) => reg[u].slot # l.slot
    OBVIOUS
  <2>1. Publishing(t) /\ l = reg[t]
    BY <1>2, <1>7 DEF Publishing
  <2>2. QED
    BY <2>1, <1>6 DEF IInv, SlotsAreApart
<1>9. initialized' => initialized \/ Up
  <2> SUFFICES ASSUME h = "initialized" PROVE Up
    OBVIOUS
  <2>1. Left(t) = {"initialized"}
    BY <1>2, <1>7 DEF Last
  <2>2. QED
    BY <2>1 DEF IInv, SetUpInOrder, Up
<1>10. "initialized" \in StepsIn(rest) =>
         /\ "reset" \in StepsIn(rest) \/ control' # "off"
         /\ "ready" \in StepsIn(rest) \/ region_ready'
         /\ "claim" \in StepsIn(rest) \/ Claimed' > 0
  BY <1>2, <1>6 DEF IInv, SetUpInOrder
<1>11. "command" \in StepsIn(rest) => "is_initialized" \in StepsIn(rest) \/ initialized'
  BY <1>2 DEF IInv, AskedFirst
<1>12. stream_count' \in Nat /\ Claimed' >= Claimed
  BY <1>6 DEF IInv, Typed, CountIsRestored
<1>13. QED
  BY <1>2, <1>3, <1>4, <1>6, <1>8, <1>9, <1>10, <1>11, <1>12, StepIsSafe

(* A call ends early.                                                      *)
LEMMA StopIsSafe ==
  ASSUME IInv, NEW t \in Threads, ~At(t, "unclaim"), Go(t, <<>>, Free), UNCHANGED <<dma, stream, device>>
  PROVE  IInv'
<1>1. Ordered(<<>>) /\ StepsIn(<<>>) = {}
  BY DEF Ordered, StepsIn
<1>2. todo' = [todo EXCEPT ![t] = <<>>] /\ reg' = [reg EXCEPT ![t] = Free] /\ card' = card
  BY DEF Go
<1>3. /\ stream_count' = stream_count /\ held' = held /\ offset' = offset /\ control' = control
      /\ region_ready' = region_ready /\ initialized' = initialized
  BY DEF dma, stream, device
<1>4. Free \in Locals
  BY DEF Free, Locals, NoStream
<1>5. Claimed' = Claimed /\ CountIsRestored'
  BY <1>1, <1>2, <1>3, CountIsKept
<1>6. Claimed' >= Claimed /\ stream_count' \in Nat /\ offset' \in Nat
      /\ held' \in [Threads -> [id : Nat, attrs : {"none", "cached", "device"}]]
  BY <1>3, <1>5 DEF IInv, Typed, CountIsRestored
<1>7. QED
  BY <1>1, <1>2, <1>3, <1>4, <1>5, <1>6, StepIsSafe

(* A call does something first that nothing depends on, or does it again.  *)
LEMMA DetourIsSafe ==
  ASSUME IInv, NEW t \in Threads, NEW h, At(t, h),
         h \notin {"claim", "unclaim", "reset", "ready", "is_initialized"} \cup Last \cup Publish,
         NEW rest, Ordered(rest), NEW extra,
         StepsIn(rest) = extra \cup StepsIn(Tail(todo[t])),
         extra \cap (Last \cup Publish \cup {"unclaim"}) = {},
         NEW l \in Locals, Go(t, rest, l),
         UNCHANGED <<stream, device, region_ready>>, offset' \in Nat
  PROVE  IInv'
<1> DEFINE k == IF rest = <<>> THEN Free ELSE l
<1>1. Ordered(todo[t]) /\ todo[t] # <<>> /\ Head(todo[t]) = h
  BY DEF At, IInv, ProgramsAreOrdered
<1>2. /\ Left(t) = {h} \cup StepsIn(Tail(todo[t])) /\ "unclaim" \notin StepsIn(rest)
      /\ StepsIn(rest) \cap Publish = {}
  BY <1>1, TailIsOrdered DEF Left
<1>3. /\ todo' = [todo EXCEPT ![t] = rest] /\ reg' = [reg EXCEPT ![t] = k] /\ card' = card
  BY DEF Go
<1>4. /\ stream_count' = stream_count /\ held' = held /\ control' = control
      /\ region_ready' = region_ready /\ initialized' = initialized
  BY DEF stream, device
<1>5. k \in Locals
  BY DEF Free, Locals, NoStream
<1>6. ~At(t, "unclaim")
  BY DEF At
<1>7. Claimed' = Claimed /\ CountIsRestored'
  BY <1>2, <1>3, <1>4, <1>6, CountIsKept
<1>8. Claimed' >= Claimed /\ stream_count' \in Nat
      /\ held' \in [Threads -> [id : Nat, attrs : {"none", "cached", "device"}]]
  BY <1>4, <1>7 DEF IInv, Typed, CountIsRestored
<1>9. "initialized" \in StepsIn(rest) =>
        /\ "reset" \in StepsIn(rest) \/ control' # "off"
        /\ "ready" \in StepsIn(rest) \/ region_ready'
        /\ "claim" \in StepsIn(rest) \/ Claimed' > 0
  BY <1>2, <1>4, <1>7 DEF IInv, SetUpInOrder, Last
<1>10. "command" \in StepsIn(rest) => "is_initialized" \in StepsIn(rest) \/ initialized'
  BY <1>2, <1>4 DEF IInv, AskedFirst, Last
<1>11. StepsIn(rest) \cap Publish # {} =>
         k.slot < Claimed' /\ \A u \in Threads \ {t} : Publishing(u) => reg[u].slot # k.slot
  BY <1>2
<1>12. /\ control # "off" => control' # "off"
       /\ region_ready => region_ready'
       /\ initialized => initialized'
       /\ initialized' => initialized \/ Up
  BY <1>4
<1> HIDE DEF k
<1>13. QED
  BY <1>3, <1>5, <1>7, <1>8, <1>9, <1>10, <1>11, <1>12, StepIsSafe

(* A call begins with a program that sets everything up before it says so, *)
(* and asks before it sends a command.                                     *)
LEMMA CallIsSafe ==
  ASSUME IInv, NEW t \in Threads, NEW program, Ordered(program), NEW l \in Locals,
         Call(t, program, l),
         StepsIn(program) \cap (Publish \cup {"unclaim"}) = {},
         "initialized" \in StepsIn(program) => {"reset", "ready", "claim"} \subseteq StepsIn(program),
         "command" \in StepsIn(program) => "is_initialized" \in StepsIn(program)
  PROVE  IInv'
<1>1. /\ todo' = [todo EXCEPT ![t] = program] /\ reg' = [reg EXCEPT ![t] = l] /\ card' = card
  BY DEF Call
<1>2. /\ stream_count' = stream_count /\ held' = held /\ offset' = offset /\ control' = control
      /\ region_ready' = region_ready /\ initialized' = initialized
  BY DEF Call, dma, stream, device
<1>3. ~At(t, "unclaim")
  BY DEF Call, Idle, At
<1>4. Claimed' = Claimed /\ CountIsRestored'
  BY <1>1, <1>2, <1>3, CountIsKept
<1>5. Claimed' >= Claimed /\ stream_count' \in Nat /\ offset' \in Nat
      /\ held' \in [Threads -> [id : Nat, attrs : {"none", "cached", "device"}]]
  BY <1>2, <1>4 DEF IInv, Typed, CountIsRestored
<1>6. QED
  BY <1>1, <1>2, <1>4, <1>5, StepIsSafe

-----------------------------------------------------------------------------
(* The stream tables. *)

(* A claim: the slot is the next one, or the table is full and the number  *)
(* of slots claimed stays what it was.                                     *)
LEMMA ClaimIsSafe == ASSUME IInv, NEW t \in Threads, Claim(t) PROVE IInv'
<1> DEFINE tail == Tail(todo[t])
           publish == IF card.arch = "arm" THEN PublishArm ELSE PublishX86
           free == stream_count < Streams
           pre == IF free THEN publish ELSE <<"unclaim">>
           rest == pre \o tail
           l == [reg[t] EXCEPT !.slot = stream_count, !.id = IF free THEN StreamId(stream_count) ELSE NoStream]
<1> USE DEF Claim, ClaimStream
<1>1. Ordered(todo[t]) /\ todo[t] # <<>> /\ Head(todo[t]) = "claim" /\ stream_count \in Nat
  BY DEF At, IInv, ProgramsAreOrdered, Typed
<1>2. /\ Ordered(tail) /\ Left(t) = {"claim"} \cup StepsIn(tail) /\ "unclaim" \notin StepsIn(tail)
      /\ StepsIn(tail) \cap Publish = {}
  BY <1>1, TailIsOrdered DEF Left, Publish
<1>3. /\ Ordered(PublishArm) /\ StepsIn(PublishArm) = Publish
      /\ Ordered(PublishX86) /\ StepsIn(PublishX86) \subseteq Publish
      /\ Ordered(<<"unclaim">>) /\ StepsIn(<<"unclaim">>) = {"unclaim"}
  BY DEF Ordered, StepsIn, PublishArm, PublishX86, Publish, Last, StepNames
<1>4. /\ Ordered(pre) /\ StepsIn(pre) \cap Last = {} /\ pre # <<>>
      /\ free => StepsIn(pre) \subseteq Publish
      /\ ~free => StepsIn(pre) = {"unclaim"} /\ pre = <<"unclaim">>
  BY <1>3 DEF Last, Publish, PublishArm, PublishX86
<1>5. Ordered(rest) /\ StepsIn(rest) = StepsIn(pre) \cup StepsIn(tail)
  BY <1>2, <1>4, PrefixIsOrdered
<1>6. rest # <<>> /\ Head(rest) = Head(pre)
  <2> HIDE DEF pre
  <2>1. pre \in Seq(StepNames) /\ tail \in Seq(StepNames) /\ Len(pre) \in Nat \ {0}
    BY <1>2, <1>4 DEF Ordered
  <2>2. Len(rest) = Len(pre) + Len(tail) /\ rest[1] = pre[1]
    BY <2>1
  <2>3. rest \in Seq(StepNames)
    BY <2>1
  <2>4. QED
    BY <2>1, <2>2, <2>3
<1>7. l \in Locals
  <2> DEFINE id == IF free THEN StreamId(stream_count) ELSE NoStream
  <2>1. id \in Nat /\ reg[t] \in Locals
    BY <1>1 DEF IInv, Typed, StreamId, FirstStream, NoStream
  <2> HIDE DEF id
  <2>2. [reg[t] EXCEPT !.slot = stream_count, !.id = id] \in Locals
    BY <1>1, <2>1 DEF Locals
  <2>3. QED
    BY <2>2 DEF id
<1>8. /\ todo' = [todo EXCEPT ![t] = rest] /\ reg' = [reg EXCEPT ![t] = l]
      /\ stream_count' = stream_count + 1 /\ card' = card
  BY <1>6 DEF Go
<1>9. /\ held' = held /\ offset' = offset /\ control' = control
      /\ region_ready' = region_ready /\ initialized' = initialized
  BY DEF dma, device
<1>10. /\ t \notin Unclaimers
       /\ IsFiniteSet(Unclaimers) /\ Cardinality(Unclaimers) \in Nat
       /\ Unclaimers = {} => Cardinality(Unclaimers) = 0
  <2>1. IsFiniteSet(Unclaimers)
    BY ThreadsAssumption, FS_Subset DEF Unclaimers
  <2>2. QED
    BY <1>1, <2>1, FS_CardinalityType, FS_EmptySet DEF Unclaimers, At
<1>11. \A u \in Threads \ {t} : At(u, "unclaim")' <=> At(u, "unclaim")
  BY <1>8 DEF At, IInv, ProgramsAreOrdered
<1>12. todo'[t] = rest
  BY <1>8 DEF IInv, ProgramsAreOrdered
<1>13. CASE free
  <2>1. Unclaimers = {}
    BY <1>1, <1>10, <1>13, StreamsAssumption DEF IInv, CountIsRestored, Claimed
  <2>2. "unclaim" \notin StepsIn(rest)
    BY <1>2, <1>4, <1>5, <1>13 DEF Publish
  <2>3. Head(rest) \in StepsIn(rest)
    BY <1>5, <1>6, HeadIsIn
  <2>4. Unclaimers' = {}
    BY <1>11, <1>12, <2>1, <2>2, <2>3 DEF Unclaimers, At
  <2>5. Claimed = stream_count /\ Claimed' = stream_count + 1
    BY <1>1, <1>8, <1>10, <2>1, <2>4 DEF Claimed
  <2>6. CountIsRestored' /\ Claimed' >= Claimed /\ Claimed' > 0
    BY <1>1, <1>13, <2>4, <2>5, StreamsAssumption DEF CountIsRestored
  <2>7. l.slot = stream_count
    BY DEF IInv, Typed, Locals
  <2>8. l.slot < Claimed' /\ \A u \in Threads \ {t} : Publishing(u) => reg[u].slot # l.slot
    BY <1>1, <2>5, <2>7 DEF IInv, SlotsAreApart, Typed, Locals
  <2>9. QED
    <3>1. "initialized" \in StepsIn(rest) =>
            /\ "reset" \in StepsIn(rest) \/ control' # "off"
            /\ "ready" \in StepsIn(rest) \/ region_ready'
      BY <1>2, <1>4, <1>5, <1>9 DEF IInv, SetUpInOrder, Last
    <3>2. "command" \in StepsIn(rest) => "is_initialized" \in StepsIn(rest) \/ initialized'
      BY <1>2, <1>4, <1>5, <1>9 DEF IInv, AskedFirst, Last
    <3>3. /\ stream_count' \in Nat /\ offset' \in Nat
          /\ held' \in [Threads -> [id : Nat, attrs : {"none", "cached", "device"}]]
      BY <1>1, <1>8, <1>9 DEF IInv, Typed
    <3>4. QED
      BY <1>5, <1>7, <1>8, <1>9, <2>6, <2>8, <3>1, <3>2, <3>3, StepIsSafe
<1>14. CASE ~free
  <2>1. Head(rest) = "unclaim"
    BY <1>4, <1>6, <1>14
  <2>2. Unclaimers' = Unclaimers \cup {t}
    BY <1>6, <1>11, <1>12, <2>1 DEF Unclaimers, At
  <2>3. Cardinality(Unclaimers') = Cardinality(Unclaimers) + 1
    BY <1>10, <2>2, FS_AddElement
  <2>4. Claimed' = Claimed
    BY <1>1, <1>8, <1>10, <2>3 DEF Claimed
  <2>5. Claimed = Streams
    BY <1>1, <1>10, <1>14, StreamsAssumption DEF IInv, CountIsRestored, Claimed
  <2>6. CountIsRestored' /\ Claimed' >= Claimed /\ Claimed' > 0
    BY <2>4, <2>5, StreamsAssumption DEF CountIsRestored
  <2>7. StepsIn(rest) \cap Publish = {}
    BY <1>2, <1>4, <1>5, <1>14 DEF Publish
  <2>8. QED
    <3>1. "initialized" \in StepsIn(rest) =>
            /\ "reset" \in StepsIn(rest) \/ control' # "off"
            /\ "ready" \in StepsIn(rest) \/ region_ready'
      BY <1>2, <1>4, <1>5, <1>9 DEF IInv, SetUpInOrder, Last
    <3>2. "command" \in StepsIn(rest) => "is_initialized" \in StepsIn(rest) \/ initialized'
      BY <1>2, <1>4, <1>5, <1>9 DEF IInv, AskedFirst, Last
    <3>3. /\ stream_count' \in Nat /\ offset' \in Nat
          /\ held' \in [Threads -> [id : Nat, attrs : {"none", "cached", "device"}]]
      BY <1>1, <1>8, <1>9 DEF IInv, Typed
    <3>4. QED
      BY <1>5, <1>7, <1>8, <1>9, <2>6, <2>7, <3>1, <3>2, <3>3, StepIsSafe
<1>15. QED
  BY <1>13, <1>14

(* A refused stream put back leaves the number of slots claimed alone.     *)
LEMMA UnclaimIsSafe == ASSUME IInv, NEW t \in Threads, UnclaimStream(t) PROVE IInv'
<1> DEFINE rest == Tail(todo[t])
           l == IF rest = <<>> THEN Free ELSE reg[t]
<1> USE DEF UnclaimStream
<1>1. Ordered(todo[t]) /\ todo[t] # <<>> /\ Head(todo[t]) = "unclaim" /\ reg[t] \in Locals
  BY DEF At, IInv, ProgramsAreOrdered, Typed
<1>2. /\ Ordered(rest) /\ Left(t) = {"unclaim"} \cup StepsIn(rest) /\ "unclaim" \notin StepsIn(rest)
      /\ StepsIn(rest) \cap Publish = {}
  BY <1>1, TailIsOrdered DEF Left, Publish
<1>3. /\ todo' = [todo EXCEPT ![t] = rest] /\ reg' = [reg EXCEPT ![t] = l] /\ card' = card
  BY DEF Proceed, Go
<1>4. l \in Locals
  BY <1>1 DEF Free, Locals, NoStream
<1>5. /\ held' = held /\ offset' = offset /\ control' = control
      /\ region_ready' = region_ready /\ initialized' = initialized
  BY DEF dma, device
<1>6. t \in Unclaimers /\ IsFiniteSet(Unclaimers) /\ Cardinality(Unclaimers) \in Nat
  <2>1. IsFiniteSet(Unclaimers)
    BY ThreadsAssumption, FS_Subset DEF Unclaimers
  <2>2. QED
    BY <2>1, FS_CardinalityType DEF Unclaimers
<1>7. rest # <<>> => Head(rest) \in StepsIn(rest)
  BY <1>2, HeadIsIn
<1>8. ~At(t, "unclaim")'
  BY <1>2, <1>3, <1>7 DEF At, IInv, ProgramsAreOrdered
<1>9. \A u \in Threads \ {t} : At(u, "unclaim")' <=> At(u, "unclaim")
  BY <1>3 DEF At, IInv, ProgramsAreOrdered
<1>10. Unclaimers' = Unclaimers \ {t}
  BY <1>8, <1>9 DEF Unclaimers
<1>11. Cardinality(Unclaimers') = Cardinality(Unclaimers) - 1
  BY <1>6, <1>10, FS_RemoveElement
<1>12. stream_count \in Nat /\ stream_count' = stream_count - 1
  BY DEF IInv, Typed
<1>13. Claimed' = Claimed /\ Claimed = Streams
  BY <1>6, <1>11, <1>12 DEF Claimed, IInv, CountIsRestored
<1>14. CountIsRestored' /\ Claimed' >= Claimed /\ Claimed' > 0
  BY <1>13, StreamsAssumption DEF CountIsRestored
<1>15. Cardinality(Unclaimers) > 0
  BY <1>6, <1>11, <1>10, FS_CardinalityType, FS_Subset, FS_EmptySet
<1>16. stream_count' \in Nat
  BY <1>6, <1>12, <1>13, <1>15, StreamsAssumption DEF Claimed
<1>17. "initialized" \in StepsIn(rest) =>
         /\ "reset" \in StepsIn(rest) \/ control' # "off"
         /\ "ready" \in StepsIn(rest) \/ region_ready'
  BY <1>2, <1>5 DEF IInv, SetUpInOrder
<1>18. "command" \in StepsIn(rest) => "is_initialized" \in StepsIn(rest) \/ initialized'
  BY <1>2, <1>5 DEF IInv, AskedFirst
<1>19. offset' \in Nat /\ held' \in [Threads -> [id : Nat, attrs : {"none", "cached", "device"}]]
  BY <1>5 DEF IInv, Typed
<1>20. QED
  BY <1>2, <1>3, <1>4, <1>5, <1>14, <1>16, <1>17, <1>18, <1>19, StepIsSafe

-----------------------------------------------------------------------------
(* The driver. *)

(* What the programs are made of.                                          *)
LEMMA ProgramsAreSafe ==
  /\ Ordered(BringUp) /\ StepsIn(BringUp) \cap (Publish \cup {"unclaim"}) = {}
  /\ {"reset", "ready", "claim"} \subseteq StepsIn(BringUp) /\ "command" \notin StepsIn(BringUp)
  /\ Ordered(<<"take">>) /\ StepsIn(<<"take">>) = {"take"}
  /\ Ordered(SetAttributes \o <<"settled">>)
  /\ StepsIn(SetAttributes \o <<"settled">>) = {"count", "search", "settled"}
  /\ Ordered(<<"probe_base", "is_initialized", "command">>)
  /\ StepsIn(<<"probe_base", "is_initialized", "command">>) = {"probe_base", "is_initialized", "command"}
<1> DEFINE begin == <<"probe_base", "device_id", "mmio_base", "reset", "enable", "claim">>
           end == <<"region_base", "rewind", "ready", "initialized">>
<1>1. /\ Ordered(begin)
      /\ StepsIn(begin) = {"probe_base", "device_id", "mmio_base", "reset", "enable", "claim"}
  BY DEF Ordered, StepsIn, Last, Publish, StepNames
<1>2. Ordered(end) /\ StepsIn(end) = {"region_base", "rewind", "ready", "initialized"}
  BY DEF Ordered, StepsIn, Last, Publish, StepNames
<1>3. Ordered(SetAttributes) /\ StepsIn(SetAttributes) = {"count", "search"}
  BY DEF Ordered, StepsIn, Last, Publish, StepNames, SetAttributes
<1>4. BringUp = (begin \o SetAttributes) \o end
  BY DEF BringUp
<1> HIDE DEF begin, end
<1>5. Ordered(begin \o SetAttributes) /\ StepsIn(begin \o SetAttributes) = StepsIn(begin) \cup {"count", "search"}
  BY <1>1, <1>3, PrefixIsOrdered DEF Last, Publish
<1>6. /\ Ordered(BringUp)
      /\ StepsIn(BringUp) = StepsIn(begin) \cup {"count", "search"} \cup StepsIn(end)
  BY <1>1, <1>2, <1>4, <1>5, PrefixIsOrdered DEF Last, Publish
<1>7. Ordered(<<"settled">>) /\ StepsIn(<<"settled">>) = {"settled"}
  BY DEF Ordered, StepsIn, Last, Publish, StepNames
<1>8. /\ Ordered(SetAttributes \o <<"settled">>)
      /\ StepsIn(SetAttributes \o <<"settled">>) = {"count", "search"} \cup {"settled"}
  BY <1>3, <1>7, PrefixIsOrdered DEF Last, Publish
<1>9. Ordered(<<"take">>) /\ StepsIn(<<"take">>) = {"take"}
  BY DEF Ordered, StepsIn, Last, Publish, StepNames
<1>10. /\ Ordered(<<"probe_base", "is_initialized", "command">>)
       /\ StepsIn(<<"probe_base", "is_initialized", "command">>) = {"probe_base", "is_initialized", "command"}
  BY DEF Ordered, StepsIn, Last, Publish, StepNames
<1>11. QED
  BY <1>1, <1>2, <1>6, <1>8, <1>9, <1>10 DEF Publish

(* The beginning of a call keeps the invariant.                            *)
LEMMA CallsAreSafe ==
  ASSUME IInv, NEW t \in Threads,
         \/ \E base \in {0, Base} : Configure(t, base)
         \/ ProbeDevice(t)
         \/ \E size \in Sizes : DmaAlloc(t, size)
         \/ \E attrs \in {"cached", "device"} : SmmuSetAttrs(t, attrs)
         \/ Submit(t)
  PROVE  IInv'
<1>1. Free \in Locals
  BY DEF Free, Locals, NoStream
<1>2. CASE \E base \in {0, Base} : Configure(t, base)
  <2>1. /\ UNCHANGED <<card, todo, reg, held, stream_count, offset, control, region_ready, initialized>>
    BY <1>2 DEF Configure, dma, stream
  <2>2. Unclaimers' = Unclaimers /\ \A u \in Threads : Left(u)' = Left(u)
    BY <2>1 DEF Unclaimers, At, Left
  <2>3. Claimed' = Claimed
    BY <2>1, <2>2 DEF Claimed
  <2>4. Typed' /\ ProgramsAreOrdered' /\ CountIsRestored'
    BY <2>1, <2>2, <2>3 DEF IInv, Typed, ProgramsAreOrdered, CountIsRestored
  <2>5. SlotsAreApart' /\ SetUpInOrder' /\ AskedFirst'
    BY <2>1, <2>2, <2>3 DEF IInv, SlotsAreApart, Publishing, SetUpInOrder, AskedFirst, Up
  <2>6. QED
    BY <2>4, <2>5 DEF IInv
<1>3. CASE ProbeDevice(t)
  <2>1. [Free EXCEPT !.attrs = "cached"] \in Locals
    BY <1>1 DEF Locals
  <2>2. QED
    BY <1>3, <2>1, ProgramsAreSafe, CallIsSafe DEF ProbeDevice
<1>4. ASSUME NEW size \in Sizes, DmaAlloc(t, size) PROVE IInv'
  <2>1. [Free EXCEPT !.size = size] \in Locals
    BY <1>1, SizesAssumption DEF Locals
  <2>2. QED
    BY <1>4, <2>1, ProgramsAreSafe, CallIsSafe DEF DmaAlloc, Publish
<1>5. ASSUME NEW attrs \in {"cached", "device"}, SmmuSetAttrs(t, attrs) PROVE IInv'
  <2>1. [Free EXCEPT !.id = held[t].id, !.attrs = attrs] \in Locals
    BY <1>1 DEF Locals, IInv, Typed
  <2>2. QED
    BY <1>5, <2>1, ProgramsAreSafe, CallIsSafe DEF SmmuSetAttrs, Publish
<1>6. CASE Submit(t)
  BY <1>1, <1>6, ProgramsAreSafe, CallIsSafe DEF Submit, Publish
<1>7. QED
  BY <1>2, <1>3, <1>4, <1>5, <1>6

(* The steps at which a call turns to something else first.                *)
LEMMA DetoursAreSafe ==
  ASSUME IInv, NEW t \in Threads,
         \/ CountStreams(t)
         \/ Search(t, reg[t].count, <<"set_attrs", "context">>)
         \/ Take(t)
  PROVE  IInv'
<1> DEFINE tail == Tail(todo[t])
<1>1. reg[t] \in Locals /\ stream_count \in Nat /\ offset \in Nat
  BY DEF IInv, Typed
<1>2. ASSUME NEW h, At(t, h), h \notin Publish
      PROVE  /\ Ordered(tail) /\ Left(t) = {h} \cup StepsIn(tail)
             /\ StepsIn(tail) \cap Publish = {} /\ "unclaim" \notin StepsIn(tail)
  BY <1>2, TailIsOrdered DEF At, IInv, ProgramsAreOrdered, Left
<1>3. ASSUME NEW pre, pre \in {<<"set_attrs", "context">>, <<"address">>, <<"give_back">>}
      PROVE  /\ Ordered(pre) /\ StepsIn(pre) \cap Last = {}
             /\ StepsIn(pre) \cap (Last \cup Publish \cup {"unclaim"}) = {}
  <2>1. CASE pre = <<"set_attrs", "context">>
    <3>1. Ordered(pre) /\ StepsIn(pre) = {"set_attrs", "context"}
      BY <2>1 DEF Ordered, StepsIn, Last, Publish, StepNames
    <3>2. QED
      BY <3>1 DEF Last, Publish
  <2>2. CASE pre = <<"address">>
    <3>1. Ordered(pre) /\ StepsIn(pre) = {"address"}
      BY <2>2 DEF Ordered, StepsIn, Last, Publish, StepNames
    <3>2. QED
      BY <3>1 DEF Last, Publish
  <2>3. CASE pre = <<"give_back">>
    <3>1. Ordered(pre) /\ StepsIn(pre) = {"give_back"}
      BY <2>3 DEF Ordered, StepsIn, Last, Publish, StepNames
    <3>2. QED
      BY <3>1 DEF Last, Publish
  <2>4. QED
    BY <1>3, <2>1, <2>2, <2>3
<1>4. CASE CountStreams(t)
  <2>1. At(t, "count") /\ "count" \notin Publish
    BY <1>4 DEF CountStreams, Publish
  <2>2. [reg[t] EXCEPT !.count = stream_count, !.slot = 0] \in Locals
    BY <1>1 DEF Locals
  <2>3. UNCHANGED <<stream, device, region_ready>> /\ offset' \in Nat
    BY <1>1, <1>4 DEF CountStreams, dma
  <2>4. Ordered(tail) /\ StepsIn(tail) = {} \cup StepsIn(tail)
    BY <1>2, <2>1
  <2>5. QED
    BY <1>4, <2>1, <2>2, <2>3, <2>4, DetourIsSafe DEF CountStreams, Last
<1>5. CASE Search(t, reg[t].count, <<"set_attrs", "context">>)
  <2> DEFINE found == <<"set_attrs", "context">> \o tail
  <2>1. At(t, "search") /\ "search" \notin Publish /\ UNCHANGED <<dma, stream, device>>
    BY <1>5 DEF Search, Publish
  <2>2. offset' \in Nat /\ UNCHANGED region_ready
    BY <1>1, <2>1 DEF dma
  <2>3. CASE Proceed(t)
    BY <1>1, <2>1, <2>2, <2>3, ProceedIsSafe DEF stream, device, IInv, Typed
  <2>4. CASE Go(t, found, reg[t])
    <3>1. Ordered(found) /\ StepsIn(found) = StepsIn(<<"set_attrs", "context">>) \cup StepsIn(tail)
      BY <1>2, <1>3, <2>1, PrefixIsOrdered
    <3>2. QED
      BY <1>1, <1>3, <2>1, <2>2, <2>4, <3>1, DetourIsSafe DEF Last
  <2>5. CASE Go(t, todo[t], [reg[t] EXCEPT !.slot = reg[t].slot + 1])
    <3>1. Ordered(todo[t]) /\ StepsIn(todo[t]) = {"search"} \cup StepsIn(tail)
      BY <1>2, <2>1 DEF IInv, ProgramsAreOrdered, Left
    <3>2. [reg[t] EXCEPT !.slot = reg[t].slot + 1] \in Locals
      BY <1>1 DEF Locals
    <3>3. {"search"} \cap (Last \cup Publish \cup {"unclaim"}) = {}
      BY DEF Last, Publish
    <3>4. QED
      BY <2>1, <2>2, <2>5, <3>1, <3>2, <3>3, DetourIsSafe DEF Last
  <2>6. QED
    BY <1>5, <2>3, <2>4, <2>5 DEF Search
<1>6. CASE Take(t)
  <2> DEFINE pre == IF Fits(offset, reg[t].size) THEN <<"address">> ELSE <<"give_back">>
             l == [reg[t] EXCEPT !.at = offset]
  <2>1. At(t, "take") /\ "take" \notin Publish /\ Go(t, pre \o tail, l) /\ UNCHANGED <<stream, device, region_ready>>
    BY <1>6 DEF Take, Publish
  <2>2. offset' \in Nat
    BY <1>1, <1>6, WordAssumption, RegionAssumption DEF Take, Locals
  <2>3. Ordered(pre \o tail) /\ StepsIn(pre \o tail) = StepsIn(pre) \cup StepsIn(tail)
    BY <1>2, <1>3, <2>1, PrefixIsOrdered
  <2>4. l \in Locals
    BY <1>1 DEF Locals
  <2>5. StepsIn(pre) \cap (Last \cup Publish \cup {"unclaim"}) = {}
    BY <1>3
  <2> HIDE DEF pre, l
  <2>6. QED
    BY <2>1, <2>2, <2>3, <2>4, <2>5, DetourIsSafe DEF Last
<1>7. QED
  BY <1>4, <1>5, <1>6

(* The steps after which a call goes on with the next.                     *)
LEMMA PlainStepsAreSafe ==
  ASSUME IInv, NEW t \in Threads,
         \/ ReadProbeBase(t) \/ ReadDeviceId(t) \/ StoreMmioBase(t) \/ Reset(t) \/ Enable(t)
         \/ StoreStreamId(t) \/ StoreStreamAttrs(t, FirstAttrs) \/ StoreDartBase(t) \/ Bypass(t)
         \/ SetStreamAttrs(t) \/ WriteContext(t, Context(reg[t].attrs)) \/ Settled(t)
         \/ StoreRegionBase(t) \/ RewindRegion(t) \/ RegionReady(t) \/ Finish(t)
         \/ GiveBack(t) \/ Address(t)
         \/ IsInitialized(t) \/ Command(t)
  PROVE  IInv'
<1>1. /\ reg[t] \in Locals /\ reg[t].size \in Nat /\ stream_count \in Nat /\ offset \in Nat
      /\ held \in [Threads -> [id : Nat, attrs : {"none", "cached", "device"}]]
  BY DEF IInv, Typed, Locals
<1>2. ASSUME NEW h, At(t, h), h # "unclaim", Go(t, <<>>, Free), UNCHANGED <<dma, stream, device>>
      PROVE  IInv'
  BY <1>2, StopIsSafe DEF At
<1>3. ASSUME NEW h, At(t, h), h \notin {"claim", "unclaim", "is_initialized", "reset", "ready", "initialized"},
             Proceed(t), UNCHANGED <<stream_count, control, region_ready, initialized>>, offset' \in Nat,
             held' \in [Threads -> [id : Nat, attrs : {"none", "cached", "device"}]]
      PROVE  IInv'
  BY <1>3, ProceedIsSafe
<1>4. CASE ReadProbeBase(t) \/ ReadDeviceId(t) \/ Command(t)
  <2>1. UNCHANGED <<dma, stream, device>>
    BY <1>4 DEF ReadProbeBase, ReadDeviceId, Command
  <2>2. UNCHANGED <<stream_count, control, region_ready, initialized, held, offset>>
    BY <2>1 DEF dma, stream, device
  <2>3. CASE Go(t, <<>>, Free)
    BY <1>2, <1>4, <2>1, <2>3 DEF ReadProbeBase, ReadDeviceId, Command
  <2>4. CASE Proceed(t)
    BY <1>1, <1>3, <1>4, <2>2, <2>4 DEF ReadProbeBase, ReadDeviceId, Command
  <2>5. QED
    BY <1>4, <2>3, <2>4 DEF ReadProbeBase, ReadDeviceId, Command
<1>5. CASE StoreMmioBase(t) \/ Enable(t)
  <2>1. offset' = offset /\ stream_count' = stream_count /\ held' = held /\ region_ready' = region_ready
    BY <1>5 DEF StoreMmioBase, Enable, dma, stream
  <2>2. CASE StoreMmioBase(t)
    BY <1>1, <1>3, <2>1, <2>2 DEF StoreMmioBase
  <2>3. CASE Enable(t)
    BY <1>1, <2>1, <2>3, ProceedIsSafe DEF Enable
  <2>4. QED
    BY <1>5, <2>2, <2>3
<1>6. CASE Reset(t)
  <2>1. offset' = offset /\ stream_count' = stream_count /\ held' = held /\ region_ready' = region_ready
    BY <1>6 DEF Reset, dma, stream
  <2>2. QED
    BY <1>1, <1>6, <2>1, ProceedIsSafe DEF Reset
<1>7. CASE \/ StoreStreamId(t) \/ StoreStreamAttrs(t, FirstAttrs) \/ StoreDartBase(t) \/ Bypass(t)
           \/ SetStreamAttrs(t) \/ WriteContext(t, Context(reg[t].attrs))
  <2>1. /\ UNCHANGED <<dma, device>> /\ held' = held /\ stream_count' = stream_count /\ Proceed(t)
        /\ \E h \in {"store_id", "store_attrs", "dart_base", "bypass", "set_attrs", "context"} : At(t, h)
    BY <1>7 DEF StoreStreamId, StoreStreamAttrs, StoreDartBase, Bypass, SetStreamAttrs, WriteContext
  <2>2. UNCHANGED <<control, region_ready, initialized, offset>>
    BY <2>1 DEF dma, device
  <2>3. QED
    BY <1>1, <1>3, <2>1, <2>2
<1>8. CASE Settled(t)
  <2>1. held' \in [Threads -> [id : Nat, attrs : {"none", "cached", "device"}]]
    BY <1>1, <1>8 DEF Settled, Locals
  <2>2. UNCHANGED <<control, region_ready, initialized, offset>>
    BY <1>8 DEF Settled, dma, device
  <2>3. QED
    BY <1>1, <1>3, <1>8, <2>1, <2>2 DEF Settled
<1>9. CASE StoreRegionBase(t) \/ RewindRegion(t) \/ GiveBack(t) \/ Address(t)
  <2>1. /\ UNCHANGED <<stream, device, region_ready>> /\ Proceed(t)
        /\ \E h \in {"region_base", "rewind", "give_back", "address"} : At(t, h)
    BY <1>9 DEF StoreRegionBase, RewindRegion, GiveBack, Address
  <2>2. UNCHANGED <<stream_count, held, control, initialized>>
    BY <2>1 DEF stream, device
  <2>3. offset' \in Nat
    BY <1>1, <1>9, WordAssumption, RegionAssumption DEF StoreRegionBase, RewindRegion, GiveBack, Address
  <2>4. QED
    BY <1>1, <1>3, <2>1, <2>2, <2>3
<1>10. CASE RegionReady(t)
  <2>1. UNCHANGED <<stream_count, held, control, initialized>>
    BY <1>10 DEF RegionReady, stream, device
  <2>2. QED
    BY <1>1, <1>10, <2>1, ProceedIsSafe DEF RegionReady
<1>11. CASE Finish(t)
  <2>1. held' \in [Threads -> [id : Nat, attrs : {"none", "cached", "device"}]]
    BY <1>1, <1>11 DEF Finish, Locals
  <2>2. UNCHANGED <<offset, region_ready>>
    BY <1>11 DEF Finish, dma
  <2>3. QED
    BY <1>1, <1>11, <2>1, <2>2, ProceedIsSafe DEF Finish
<1>12. CASE IsInitialized(t)
  <2>1. UNCHANGED <<stream_count, control, region_ready, initialized, held, offset>>
    BY <1>12 DEF IsInitialized, dma, stream, device
  <2>2. CASE initialized
    BY <1>1, <1>12, <2>1, <2>2, ProceedIsSafe DEF IsInitialized
  <2>3. CASE ~initialized
    BY <1>2, <1>12, <2>3 DEF IsInitialized
  <2>4. QED
    BY <2>2, <2>3
<1>13. QED
  BY <1>4, <1>5, <1>6, <1>7, <1>8, <1>9, <1>10, <1>11, <1>12

(* Every step of every thread keeps the invariant.                         *)
LEMMA NextIsSafe == ASSUME IInv, [\E t \in Threads : Steps(t)]_vars PROVE IInv'
<1>1. ASSUME NEW t \in Threads, Steps(t) PROVE IInv'
  BY <1>1, CallsAreSafe, DetoursAreSafe, PlainStepsAreSafe, ClaimIsSafe, UnclaimIsSafe DEF Steps
<1>2. CASE UNCHANGED vars
  <2>1. UNCHANGED <<card, todo, reg, held, stream_count, offset, control, region_ready, initialized>>
    BY <1>2 DEF vars, dma, stream, device
  <2>2. Unclaimers' = Unclaimers /\ \A u \in Threads : Left(u)' = Left(u)
    BY <2>1 DEF Unclaimers, At, Left
  <2>3. Claimed' = Claimed
    BY <2>1, <2>2 DEF Claimed
  <2>4. Typed' /\ ProgramsAreOrdered' /\ CountIsRestored'
    BY <2>1, <2>2, <2>3 DEF IInv, Typed, ProgramsAreOrdered, CountIsRestored
  <2>5. SlotsAreApart' /\ SetUpInOrder' /\ AskedFirst'
    BY <2>1, <2>2, <2>3 DEF IInv, SlotsAreApart, Publishing, SetUpInOrder, AskedFirst, Up
  <2>6. QED
    BY <2>4, <2>5 DEF IInv
<1>3. QED
  BY <1>1, <1>2

(* The invariant holds of every behaviour of the driver.                   *)
LEMMA InvariantHolds == LpuSpec => []IInv
<1>1. LpuInit => IInv
  BY InitIsSafe
<1>2. IInv /\ [\E t \in Threads : Steps(t)]_vars => IInv'
  BY NextIsSafe
<1>3. QED
  BY <1>1, <1>2, PTL DEF LpuSpec

-----------------------------------------------------------------------------

(* A command reaches an LPU only after some bring-up reset it, set up its  *)
(* region and gave it a stream, for any number of threads that bring it up *)
(* and submit at the same time (lpu/mod.rs, device.rs).                    *)
LEMMA LpuCommandsFollow == LpuSpec => []CommandsFollowBringUp
<1>1. IInv => CommandsFollowBringUp
  <2> SUFFICES ASSUME IInv, NEW t \in Threads, At(t, "command")
               PROVE  control # "off" /\ region_ready /\ stream_count > 0
    BY DEF CommandsFollowBringUp
  <2>1. Ordered(todo[t]) /\ todo[t] # <<>> /\ Head(todo[t]) = "command"
    BY DEF At, IInv, ProgramsAreOrdered
  <2>2. Tail(todo[t]) = <<>> /\ Left(t) = {"command"} \cup StepsIn(Tail(todo[t]))
    BY <2>1, TailIsOrdered DEF Left, Last
  <2>3. Left(t) = {"command"}
    BY <2>2 DEF StepsIn
  <2>4. Up
    BY <2>3 DEF IInv, AskedFirst
  <2>5. Cardinality(Unclaimers) \in Nat
    BY ThreadsAssumption, FS_Subset, FS_CardinalityType DEF Unclaimers
  <2>6. QED
    BY <2>4, <2>5 DEF Up, Claimed, IInv, Typed
<1>2. QED
  BY <1>1, InvariantHolds, PTL

(* No two threads ever publish a stream in the same slot, and none does    *)
(* past the end of the table, although the count is above it while refused *)
(* streams are put back (smmu.rs: fetch_add, then fetch_sub on refusal).   *)
THEOREM SlotsAreClaimedOnce ==
  LpuSpec => [](\A t, u \in Threads : Publishing(t) =>
                  /\ reg[t].slot \in Slots
                  /\ Publishing(u) /\ t # u => reg[t].slot # reg[u].slot)
<1>1. IInv => \A t, u \in Threads : Publishing(t) =>
                /\ reg[t].slot \in Slots
                /\ Publishing(u) /\ t # u => reg[t].slot # reg[u].slot
  <2> SUFFICES ASSUME IInv, NEW t \in Threads, NEW u \in Threads, Publishing(t)
               PROVE  reg[t].slot \in Slots /\ (Publishing(u) /\ t # u => reg[t].slot # reg[u].slot)
    OBVIOUS
  <2>1. reg[t].slot \in Nat /\ Claimed \in 0 .. Streams /\ reg[t].slot < Claimed
    BY DEF IInv, Typed, Locals, CountIsRestored, SlotsAreApart
  <2>2. QED
    BY <2>1, StreamsAssumption DEF IInv, SlotsAreApart, Slots
<1>2. QED
  BY <1>1, InvariantHolds, PTL

(* When no refused stream is left to put back, the count is the number of  *)
(* slots in use again, and never above the table.                          *)
THEOREM RefusedStreamsAreCountedBack ==
  LpuSpec => []((\A t \in Threads : ~At(t, "unclaim")) => stream_count \in 0 .. Streams)
<1>1. IInv => ((\A t \in Threads : ~At(t, "unclaim")) => stream_count \in 0 .. Streams)
  <2> SUFFICES ASSUME IInv, \A t \in Threads : ~At(t, "unclaim") PROVE stream_count \in 0 .. Streams
    OBVIOUS
  <2>1. Unclaimers = {}
    BY DEF Unclaimers
  <2>2. QED
    BY <2>1, FS_EmptySet DEF IInv, Typed, CountIsRestored, Claimed
<1>2. QED
  BY <1>1, InvariantHolds, PTL

-----------------------------------------------------------------------------
(* What is left of a call, step by step. *)

(* The steps that depend on each other's order; the others are at stage 0. *)
Stages == {"claim", "count", "search", "set_attrs", "context", "settled", "region_base", "ready"}

Stage(h) ==
  IF h = "claim" THEN 1 ELSE
  IF h = "count" THEN 2 ELSE
  IF h = "search" THEN 3 ELSE
  IF h = "set_attrs" THEN 4 ELSE
  IF h = "context" THEN 5 ELSE
  IF h = "settled" THEN 6 ELSE
  IF h = "region_base" THEN 7 ELSE
  IF h = "ready" THEN 8 ELSE 0

(* Where the stages lie.                                                   *)
LEMMA StageValues ==
  /\ Stage("claim") = 1 /\ Stage("count") = 2 /\ Stage("search") = 3
  /\ Stage("set_attrs") = 4 /\ Stage("context") = 5 /\ Stage("settled") = 6
  /\ Stage("region_base") = 7 /\ Stage("ready") = 8
  /\ \A h : h \notin Stages => Stage(h) = 0
BY DEF Stage, Stages

Staged(s) ==
  \A i, j \in DOMAIN s : i < j /\ Stage(s[j]) # 0 => Stage(s[i]) < Stage(s[j])

Requests == {"take", "give_back", "address"}
Attributing == {"count", "search", "set_attrs", "context"} \cup Publish

(* A call claims before it counts, counts before it searches and searches  *)
(* before it sets; one that does any of it says so at its end; and a       *)
(* request for memory is a call of its own.                                *)
Program(s) ==
  /\ Ordered(s)
  /\ Staged(s)
  /\ "claim" \in StepsIn(s) =>
       {"count", "initialized"} \subseteq StepsIn(s) /\ StepsIn(s) \cap Publish = {}
  /\ "count" \in StepsIn(s) => "search" \in StepsIn(s)
  /\ StepsIn(s) \cap Publish # {} => "count" \in StepsIn(s)
  /\ "search" \in StepsIn(s) => StepsIn(s) \cap {"set_attrs", "context"} = {}
  /\ "set_attrs" \in StepsIn(s) => "context" \in StepsIn(s)
  /\ StepsIn(s) \cap Attributing # {} => StepsIn(s) \cap {"settled", "initialized"} # {}
  /\ "settled" \in StepsIn(s) => StepsIn(s) \subseteq {"count", "search", "set_attrs", "context", "settled"}
  /\ "ready" \in StepsIn(s) => "initialized" \in StepsIn(s)
  /\ StepsIn(s) \cap Requests # {} => Len(s) = 1

(* What is left after the first step.                                      *)
LEMMA TailIsProgram ==
  ASSUME NEW s, Program(s), s # <<>>
  PROVE  /\ Program(Tail(s))
         /\ Ordered(Tail(s))
         /\ StepsIn(s) = {Head(s)} \cup StepsIn(Tail(s))
         /\ StepsIn(Tail(s)) \cap Requests = {}
         /\ Head(s) \notin Publish => StepsIn(Tail(s)) \cap Publish = {}
         /\ \A h \in StepsIn(Tail(s)) : Stage(h) # 0 => Stage(Head(s)) < Stage(h)
         /\ Head(s) \in Requests => Tail(s) = <<>>
<1> DEFINE r == Tail(s)
<1>1. s \in Seq(StepNames) /\ Len(s) \in Nat \ {0} /\ Head(s) = s[1]
  BY DEF Program, Ordered
<1>2. r \in Seq(StepNames) /\ Len(r) = Len(s) - 1 /\ \A i \in 1 .. Len(r) : r[i] = s[i + 1]
  BY <1>1
<1>3. DOMAIN s = 1 .. Len(s) /\ DOMAIN r = 1 .. Len(r)
  BY <1>1, <1>2
<1>4. /\ Ordered(r) /\ StepsIn(s) = {Head(s)} \cup StepsIn(r)
      /\ Head(s) \notin Publish => StepsIn(r) \cap Publish = {}
      /\ Head(s) \in Last => r = <<>>
  BY TailIsOrdered DEF Program
<1>5. \A i \in DOMAIN r : i + 1 \in DOMAIN s /\ r[i] = s[i + 1]
  BY <1>1, <1>2, <1>3
<1>6. Staged(r)
  <2> SUFFICES ASSUME NEW i \in DOMAIN r, NEW j \in DOMAIN r, i < j, Stage(r[j]) # 0
               PROVE  Stage(r[i]) < Stage(r[j])
    BY DEF Staged
  <2>1. i + 1 \in DOMAIN s /\ j + 1 \in DOMAIN s /\ i + 1 < j + 1 /\ r[i] = s[i + 1] /\ r[j] = s[j + 1]
    BY <1>3, <1>5
  <2>2. QED
    BY <2>1 DEF Program, Staged
<1>7. \A h \in StepsIn(r) : Stage(h) # 0 => Stage(Head(s)) < Stage(h)
  <2> SUFFICES ASSUME NEW i \in DOMAIN r, Stage(r[i]) # 0 PROVE Stage(s[1]) < Stage(r[i])
    BY <1>1 DEF StepsIn
  <2>1. 1 \in DOMAIN s /\ i + 1 \in DOMAIN s /\ 1 < i + 1 /\ r[i] = s[i + 1]
    BY <1>1, <1>3, <1>5
  <2>2. QED
    BY <2>1 DEF Program, Staged
<1>8. r = <<>> => StepsIn(r) = {}
  BY DEF StepsIn
<1>9. StepsIn(r) \cap Requests = {} /\ (Head(s) \in Requests => r = <<>>)
  <2>1. StepsIn(s) \cap Requests # {} => r = <<>>
    BY <1>1, <1>2 DEF Program
  <2>2. QED
    BY <1>4, <1>8, <2>1
<1>10. /\ "claim" \in StepsIn(r) =>
             {"count", "initialized"} \subseteq StepsIn(r) /\ StepsIn(r) \cap Publish = {}
       /\ "count" \in StepsIn(r) => "search" \in StepsIn(r)
       /\ "set_attrs" \in StepsIn(r) => "context" \in StepsIn(r)
  BY <1>4, <1>7, <1>8 DEF Program, Stage, Last
<1>11. StepsIn(r) \cap Publish # {} => "count" \in StepsIn(r)
  BY <1>4 DEF Program, Publish
<1>12. /\ "search" \in StepsIn(r) => StepsIn(r) \cap {"set_attrs", "context"} = {}
       /\ "settled" \in StepsIn(r) => StepsIn(r) \subseteq {"count", "search", "set_attrs", "context", "settled"}
       /\ "ready" \in StepsIn(r) => "initialized" \in StepsIn(r)
  BY <1>4, <1>8 DEF Program, Last
<1>13. StepsIn(r) \cap Attributing # {} => StepsIn(r) \cap {"settled", "initialized"} # {}
  <2>1. CASE Head(s) = "settled"
    <3>1. StepsIn(r) \cap Publish = {}
      BY <1>4, <2>1 DEF Publish
    <3>2. \A h \in {"count", "search", "set_attrs", "context"} : Stage(h) # 0 /\ ~(Stage("settled") < Stage(h))
      BY StageValues
    <3>3. QED
      BY <1>7, <2>1, <3>1, <3>2 DEF Attributing
  <2>2. CASE Head(s) = "initialized"
    BY <1>4, <1>8, <2>2 DEF Last
  <2>3. QED
    BY <1>4, <2>1, <2>2 DEF Program
<1>14. QED
  BY <1>4, <1>6, <1>7, <1>9, <1>10, <1>11, <1>12, <1>13 DEF Program

(* Steps put in front keep the stages, if they are earlier ones.           *)
LEMMA PrefixIsStaged ==
  ASSUME NEW r, Ordered(r), Staged(r), NEW pre, Ordered(pre), Staged(pre),
         \A a \in StepsIn(pre), b \in StepsIn(r) : Stage(b) # 0 => Stage(a) < Stage(b)
  PROVE  Staged(pre \o r)
<1> DEFINE s == pre \o r
           n == Len(pre)
<1>1. r \in Seq(StepNames) /\ pre \in Seq(StepNames) /\ n \in Nat /\ Len(r) \in Nat
  BY DEF Ordered
<1>2. /\ DOMAIN s = 1 .. n + Len(r) /\ DOMAIN pre = 1 .. n /\ DOMAIN r = 1 .. Len(r)
      /\ \A i \in 1 .. n : s[i] = pre[i]
      /\ \A i \in 1 .. Len(r) : s[n + i] = r[i]
  BY <1>1
<1>3. ASSUME NEW i \in DOMAIN s
      PROVE  \/ i \in DOMAIN pre /\ s[i] = pre[i]
             \/ i > n /\ i - n \in DOMAIN r /\ s[i] = r[i - n]
  <2>1. CASE i <= n
    BY <1>1, <1>2, <2>1
  <2>2. CASE i > n
    <3>1. i - n \in 1 .. Len(r) /\ n + (i - n) = i
      BY <1>1, <1>2, <2>2
    <3>2. s[n + (i - n)] = r[i - n]
      BY <1>2, <3>1
    <3>3. QED
      BY <1>2, <2>2, <3>1, <3>2
  <2>3. QED
    BY <1>1, <1>2, <2>1, <2>2
<1>4. ASSUME NEW i \in DOMAIN s, NEW j \in DOMAIN s, i < j, Stage(s[j]) # 0
      PROVE  Stage(s[i]) < Stage(s[j])
  <2>1. CASE j \in DOMAIN pre /\ s[j] = pre[j]
    <3>1. i \in DOMAIN pre /\ s[i] = pre[i]
      BY <1>1, <1>2, <1>4, <2>1
    <3>2. QED
      BY <1>4, <2>1, <3>1 DEF Staged
  <2>2. CASE j > n /\ j - n \in DOMAIN r /\ s[j] = r[j - n]
    <3>1. CASE i \in DOMAIN pre /\ s[i] = pre[i]
      BY <1>4, <2>2, <3>1 DEF StepsIn
    <3>2. CASE i > n /\ i - n \in DOMAIN r /\ s[i] = r[i - n]
      <4>1. i - n < j - n
        BY <1>1, <1>2, <1>4
      <4>2. QED
        BY <1>4, <2>2, <3>2, <4>1 DEF Staged
    <3>3. QED
      BY <1>3, <3>1, <3>2
  <2>3. QED
    BY <1>3, <2>1, <2>2
<1>5. QED
  BY <1>4 DEF Staged

ProgramsAreStaged == \A t \in Threads : Program(todo[t])

(* What the calls of the driver have to do when they begin.                *)
LEMMA ProgramsBegin ==
  /\ Program(<<>>) /\ Program(BringUp) /\ Program(<<"take">>)
  /\ Program(SetAttributes \o <<"settled">>)
  /\ Program(<<"probe_base", "is_initialized", "command">>)
  /\ {"claim", "search", "count", "region_base", "ready", "initialized"} \subseteq StepsIn(BringUp)
  /\ StepsIn(BringUp) \cap (Publish \cup {"settled"}) = {}
<1> DEFINE begin == <<"probe_base", "device_id", "mmio_base", "reset", "enable", "claim">>
           end == <<"region_base", "rewind", "ready", "initialized">>
<1>1. /\ Ordered(begin) /\ Staged(begin)
      /\ StepsIn(begin) = {"probe_base", "device_id", "mmio_base", "reset", "enable", "claim"}
  BY DEF Ordered, Staged, Stage, StepsIn, Last, Publish, StepNames
<1>2. Ordered(end) /\ Staged(end) /\ StepsIn(end) = {"region_base", "rewind", "ready", "initialized"}
  BY DEF Ordered, Staged, Stage, StepsIn, Last, Publish, StepNames
<1>3. Ordered(SetAttributes) /\ Staged(SetAttributes) /\ StepsIn(SetAttributes) = {"count", "search"}
  BY DEF Ordered, Staged, Stage, StepsIn, Last, Publish, StepNames, SetAttributes
<1>4. BringUp = (begin \o SetAttributes) \o end
  BY DEF BringUp
<1> HIDE DEF begin, end
<1>5. /\ Ordered(begin \o SetAttributes)
      /\ StepsIn(begin \o SetAttributes) = StepsIn(begin) \cup {"count", "search"}
  BY <1>1, <1>3, PrefixIsOrdered DEF Last, Publish
<1>6. Ordered(BringUp) /\ StepsIn(BringUp) = StepsIn(begin) \cup {"count", "search"} \cup StepsIn(end)
  BY <1>1, <1>2, <1>4, <1>5, PrefixIsOrdered DEF Last, Publish
<1>7. Staged(begin \o SetAttributes)
  BY <1>1, <1>3, PrefixIsStaged DEF Stage
<1>8. Staged(BringUp)
  BY <1>1, <1>2, <1>4, <1>5, <1>7, PrefixIsStaged DEF Stage
<1>9. Program(BringUp)
  BY <1>1, <1>2, <1>6, <1>8 DEF Program, Publish, Requests, Attributing
<1>10. Ordered(<<"settled">>) /\ Staged(<<"settled">>) /\ StepsIn(<<"settled">>) = {"settled"}
  BY DEF Ordered, Staged, Stage, StepsIn, Last, Publish, StepNames
<1>11. Staged(SetAttributes \o <<"settled">>)
  BY <1>3, <1>10, PrefixIsStaged DEF Stage
<1>12. Program(SetAttributes \o <<"settled">>)
  BY <1>11, ProgramsAreSafe DEF Program, Publish, Requests, Attributing
<1>13. Program(<<"take">>)
  <2>1. Staged(<<"take">>) /\ Len(<<"take">>) = 1
    BY DEF Staged
  <2>2. QED
    BY <2>1, ProgramsAreSafe DEF Program, Publish, Requests, Attributing
<1>14. Program(<<"probe_base", "is_initialized", "command">>)
  <2>1. Staged(<<"probe_base", "is_initialized", "command">>)
    BY DEF Staged, Stage
  <2>2. QED
    BY <2>1, ProgramsAreSafe DEF Program, Publish, Requests, Attributing
<1>15. Program(<<>>)
  BY DEF Program, Ordered, Staged, StepsIn
<1>16. QED
  BY <1>1, <1>2, <1>6, <1>9, <1>12, <1>13, <1>14, <1>15 DEF Publish

(* A claim, a search and a request put steps in front of what is left.     *)
LEMMA DetoursArePrograms ==
  ASSUME NEW s, Program(s), s # <<>>
  PROVE  /\ Head(s) = "claim" =>
              /\ \A pre \in {PublishArm, PublishX86} :
                   /\ Program(pre \o Tail(s))
                   /\ StepsIn(pre \o Tail(s)) = StepsIn(pre) \cup StepsIn(Tail(s))
              /\ Program(<<"unclaim">> \o Tail(s))
              /\ StepsIn(<<"unclaim">> \o Tail(s)) = {"unclaim"} \cup StepsIn(Tail(s))
         /\ Head(s) = "search" =>
              /\ Program(<<"set_attrs", "context">> \o Tail(s))
              /\ StepsIn(<<"set_attrs", "context">> \o Tail(s)) = {"set_attrs", "context"} \cup StepsIn(Tail(s))
         /\ Head(s) = "take" =>
              Tail(s) = <<>> /\ Program(<<"address">> \o Tail(s)) /\ Program(<<"give_back">> \o Tail(s))
<1> DEFINE r == Tail(s)
<1>1. /\ Program(r) /\ Ordered(r) /\ Staged(r) /\ StepsIn(s) = {Head(s)} \cup StepsIn(r)
      /\ StepsIn(r) \cap Requests = {}
      /\ Head(s) \notin Publish => StepsIn(r) \cap Publish = {}
      /\ \A h \in StepsIn(r) : Stage(h) # 0 => Stage(Head(s)) < Stage(h)
      /\ Head(s) \in Requests => r = <<>>
  BY TailIsProgram DEF Program
<1>2. "unclaim" \notin StepsIn(r)
  BY TailIsOrdered DEF Program
<1>3. /\ Ordered(PublishArm) /\ StepsIn(PublishArm) = {"store_id", "store_attrs", "dart_base", "bypass"}
      /\ Ordered(PublishX86) /\ StepsIn(PublishX86) = {"store_id", "store_attrs", "dart_base"}
      /\ Ordered(<<"unclaim">>) /\ StepsIn(<<"unclaim">>) = {"unclaim"}
  BY DEF Ordered, StepsIn, PublishArm, PublishX86, Publish, Last, StepNames
<1>4. Staged(PublishArm) /\ Staged(PublishX86) /\ Staged(<<"unclaim">>)
  BY DEF Staged, Stage, PublishArm, PublishX86
<1>5. ASSUME Head(s) = "claim",
             NEW pre, Ordered(pre), Staged(pre), StepsIn(pre) \subseteq Publish \cup {"unclaim"}
      PROVE  Program(pre \o r) /\ StepsIn(pre \o r) = StepsIn(pre) \cup StepsIn(r)
  <2>1. StepsIn(r) \cap Publish = {}
    BY <1>1, <1>5 DEF Publish
  <2>2. Ordered(pre \o r) /\ StepsIn(pre \o r) = StepsIn(pre) \cup StepsIn(r)
    BY <1>1, <1>2, <1>5, <2>1, PrefixIsOrdered DEF Publish, Last
  <2>3. \A a \in StepsIn(pre) : Stage(a) = 0
    BY <1>5, StageValues DEF Publish, Stages
  <2>4. \A b \in StepsIn(r) : Stage(b) # 0 => Stage(b) > 1
    BY <1>1, <1>5, StageValues
  <2>5. Staged(pre \o r)
    <3>1. \A a \in StepsIn(pre), b \in StepsIn(r) : Stage(b) # 0 => Stage(a) < Stage(b)
      <4> SUFFICES ASSUME NEW a \in StepsIn(pre), NEW b \in StepsIn(r), Stage(b) # 0
                   PROVE  Stage(a) < Stage(b)
        OBVIOUS
      <4>1. Stage(a) = 0 /\ Stage(b) > 1
        BY <2>3, <2>4
      <4>2. Stage(b) \in Nat
        BY DEF Stage
      <4>3. QED
        BY <4>1, <4>2
    <3>2. QED
      BY <1>1, <1>5, <3>1, PrefixIsStaged
  <2>6. {"count", "initialized"} \subseteq StepsIn(r) /\ "search" \in StepsIn(r)
    BY <1>1, <1>5 DEF Program
  <2>9. "claim" \notin StepsIn(r)
    BY <2>4, StageValues
  <2>7. StepsIn(pre) \cap {"claim", "count", "search", "set_attrs", "context", "settled", "ready", "initialized"} = {}
        /\ StepsIn(pre) \cap Requests = {}
    BY <1>5 DEF Publish, Requests
  <2> HIDE DEF r
  <2>8. QED
    BY <1>1, <2>2, <2>5, <2>6, <2>7, <2>9 DEF Program
<1>6. ASSUME Head(s) = "search"
      PROVE  /\ Program(<<"set_attrs", "context">> \o r)
             /\ StepsIn(<<"set_attrs", "context">> \o r) = {"set_attrs", "context"} \cup StepsIn(r)
  <2> DEFINE pre == <<"set_attrs", "context">>
  <2>1. Ordered(pre) /\ Staged(pre) /\ StepsIn(pre) = {"set_attrs", "context"}
    BY DEF Ordered, Staged, Stage, StepsIn, Last, Publish, StepNames
  <2> HIDE DEF pre
  <2>2. StepsIn(r) \cap (Publish \cup {"claim", "count", "search", "set_attrs", "context"}) = {}
    <3>1. StepsIn(r) \cap Publish = {}
      BY <1>1, <1>6 DEF Publish
    <3>2. StepsIn(r) \cap {"set_attrs", "context"} = {}
      BY <1>1, <1>6 DEF Program
    <3>3. StepsIn(r) \cap {"claim", "count", "search"} = {}
      BY <1>1, <1>6, StageValues
    <3>4. QED
      BY <3>1, <3>2, <3>3
  <2>3. Ordered(pre \o r) /\ StepsIn(pre \o r) = StepsIn(pre) \cup StepsIn(r)
    BY <1>1, <1>2, <2>1, <2>2, PrefixIsOrdered DEF Publish, Last
  <2>4. Staged(pre \o r)
    <3>1. \A a \in StepsIn(pre), b \in StepsIn(r) : Stage(b) # 0 => Stage(a) < Stage(b)
      <4> SUFFICES ASSUME NEW a \in StepsIn(pre), NEW b \in StepsIn(r), Stage(b) # 0
                   PROVE  Stage(a) < Stage(b)
        OBVIOUS
      <4>1. Stage(a) \in {4, 5}
        BY <2>1, StageValues
      <4>2. b \in {"settled", "region_base", "ready"}
        BY <2>2, StageValues DEF Stages
      <4>3. QED
        BY <4>1, <4>2, StageValues
    <3>2. QED
      BY <1>1, <2>1, <3>1, PrefixIsStaged
  <2>5. StepsIn(r) \cap {"settled", "initialized"} # {}
    BY <1>1, <1>6 DEF Program, Attributing
  <2>6. StepsIn(pre \o r) \cap Requests = {} /\ StepsIn(pre \o r) \cap (Publish \cup {"claim", "count", "search"}) = {}
    BY <1>1, <2>1, <2>2, <2>3 DEF Requests, Publish
  <2>7. QED
    <3>1. "settled" \in StepsIn(pre \o r) =>
            StepsIn(pre \o r) \subseteq {"count", "search", "set_attrs", "context", "settled"}
      BY <1>1, <2>1, <2>3 DEF Program
    <3>2. "ready" \in StepsIn(pre \o r) => "initialized" \in StepsIn(pre \o r)
      BY <1>1, <2>1, <2>3 DEF Program
    <3> HIDE DEF r
    <3>3. Program(pre \o r)
      BY <2>1, <2>3, <2>4, <2>5, <2>6, <3>1, <3>2 DEF Program
    <3>4. QED
      BY <2>1, <2>3, <3>3 DEF pre
<1>7. ASSUME Head(s) = "take"
      PROVE  r = <<>> /\ Program(<<"address">> \o r) /\ Program(<<"give_back">> \o r)
  <2>1. r = <<>>
    BY <1>1, <1>7 DEF Requests
  <2>2. <<"address">> \o <<>> = <<"address">> /\ <<"give_back">> \o <<>> = <<"give_back">>
    OBVIOUS
  <2>3. Program(<<"address">>)
    <3>1. Ordered(<<"address">>) /\ Staged(<<"address">>) /\ StepsIn(<<"address">>) = {"address"} /\ Len(<<"address">>) = 1
      BY DEF Ordered, Staged, StepsIn, Last, Publish, StepNames
    <3>2. QED
      BY <3>1 DEF Program, Publish, Requests, Attributing
  <2>4. Program(<<"give_back">>)
    <3>1. Ordered(<<"give_back">>) /\ Staged(<<"give_back">>) /\ StepsIn(<<"give_back">>) = {"give_back"} /\ Len(<<"give_back">>) = 1
      BY DEF Ordered, Staged, StepsIn, Last, Publish, StepNames
    <3>2. QED
      BY <3>1 DEF Program, Publish, Requests, Attributing
  <2>5. QED
    BY <2>1, <2>2, <2>3, <2>4
<1>8. ASSUME Head(s) = "claim", NEW pre \in {PublishArm, PublishX86}
      PROVE  Program(pre \o r) /\ StepsIn(pre \o r) = StepsIn(pre) \cup StepsIn(r)
  <2>1. Ordered(pre) /\ Staged(pre) /\ StepsIn(pre) \subseteq Publish \cup {"unclaim"}
    BY <1>3, <1>4, <1>8 DEF Publish
  <2>2. QED
    BY <1>5, <1>8, <2>1
<1>9. ASSUME Head(s) = "claim"
      PROVE  Program(<<"unclaim">> \o r) /\ StepsIn(<<"unclaim">> \o r) = {"unclaim"} \cup StepsIn(r)
  BY <1>3, <1>4, <1>5, <1>9
<1>10. QED
  BY <1>6, <1>7, <1>8, <1>9

(* Every step leaves a program to each thread.                             *)
LEMMA StepsKeepPrograms ==
  ASSUME IInv, ProgramsAreStaged, NEW t \in Threads, Steps(t)
  PROVE  ProgramsAreStaged'
<1>1. ASSUME NEW rest, Program(rest), todo' = [todo EXCEPT ![t] = rest] PROVE ProgramsAreStaged'
  <2>1. \A u \in Threads : todo'[u] = IF u = t THEN rest ELSE todo[u]
    BY <1>1 DEF IInv, ProgramsAreOrdered
  <2>2. QED
    BY <1>1, <2>1 DEF ProgramsAreStaged
<1>2. Program(todo[t])
  BY DEF ProgramsAreStaged
<1>3. todo[t] # <<>> => Program(Tail(todo[t]))
  BY <1>2, TailIsProgram
<1>4. ASSUME NEW program, NEW l, Program(program), Call(t, program, l) PROVE ProgramsAreStaged'
  BY <1>1, <1>4 DEF Call
<1>5. ASSUME NEW rest, Program(rest), NEW l, Go(t, rest, l) PROVE ProgramsAreStaged'
  BY <1>1, <1>5 DEF Go
<1>6. ASSUME NEW h, At(t, h), Proceed(t) \/ Go(t, <<>>, Free) PROVE ProgramsAreStaged'
  BY <1>3, <1>5, <1>6, ProgramsBegin DEF At, Proceed
<1>7. CASE \/ \E base \in {0, Base} : Configure(t, base)
           \/ ProbeDevice(t) \/ \E size \in Sizes : DmaAlloc(t, size)
           \/ \E attrs \in {"cached", "device"} : SmmuSetAttrs(t, attrs)
           \/ Submit(t)
  <2>1. CASE \E base \in {0, Base} : Configure(t, base)
    BY <2>1 DEF Configure, ProgramsAreStaged
  <2>2. CASE ProbeDevice(t) \/ \E size \in Sizes : DmaAlloc(t, size)
    BY <1>4, <2>2, ProgramsBegin DEF ProbeDevice, DmaAlloc
  <2>3. CASE \E attrs \in {"cached", "device"} : SmmuSetAttrs(t, attrs)
    BY <1>4, <2>3, ProgramsBegin DEF SmmuSetAttrs
  <2>4. CASE Submit(t)
    BY <1>4, <2>4, ProgramsBegin DEF Submit
  <2>5. QED
    BY <1>7, <2>1, <2>2, <2>3, <2>4
<1>8. CASE Claim(t)
  <2> DEFINE publish == IF card.arch = "arm" THEN PublishArm ELSE PublishX86
             pre == IF stream_count < Streams THEN publish ELSE <<"unclaim">>
  <2>1. todo[t] # <<>> /\ Head(todo[t]) = "claim" /\ \E l : Go(t, pre \o Tail(todo[t]), l)
    BY <1>8 DEF Claim, ClaimStream, At
  <2>2. Program(pre \o Tail(todo[t]))
    BY <1>2, <2>1, DetoursArePrograms
  <2>3. QED
    BY <1>5, <2>1, <2>2
<1>9. CASE CountStreams(t)
  BY <1>3, <1>5, <1>9 DEF CountStreams, At
<1>10. CASE Search(t, reg[t].count, <<"set_attrs", "context">>)
  <2>1. todo[t] # <<>> /\ Head(todo[t]) = "search" /\ At(t, "search")
    BY <1>10 DEF Search, At
  <2>2. CASE Proceed(t)
    BY <1>6, <2>1, <2>2
  <2>3. CASE Go(t, <<"set_attrs", "context">> \o Tail(todo[t]), reg[t])
    BY <1>2, <1>5, <2>1, <2>3, DetoursArePrograms
  <2>4. CASE \E l : Go(t, todo[t], l)
    BY <1>2, <1>5, <2>4
  <2>5. QED
    BY <1>10, <2>2, <2>3, <2>4 DEF Search
<1>11. CASE Take(t)
  <2>1. todo[t] # <<>> /\ Head(todo[t]) = "take"
    BY <1>11 DEF Take, At
  <2>2. Program(<<"address">> \o Tail(todo[t])) /\ Program(<<"give_back">> \o Tail(todo[t]))
    BY <1>2, <2>1, DetoursArePrograms
  <2>3. \E l : \/ Go(t, <<"address">> \o Tail(todo[t]), l)
               \/ Go(t, <<"give_back">> \o Tail(todo[t]), l)
    BY <1>11 DEF Take
  <2>4. QED
    BY <1>5, <2>2, <2>3
<1>12. CASE \/ ReadProbeBase(t) \/ ReadDeviceId(t) \/ StoreMmioBase(t) \/ Reset(t) \/ Enable(t)
            \/ UnclaimStream(t) \/ StoreStreamId(t) \/ StoreStreamAttrs(t, FirstAttrs)
            \/ StoreDartBase(t) \/ Bypass(t)
            \/ SetStreamAttrs(t) \/ WriteContext(t, Context(reg[t].attrs)) \/ Settled(t)
            \/ StoreRegionBase(t) \/ RewindRegion(t) \/ RegionReady(t) \/ Finish(t)
            \/ GiveBack(t) \/ Address(t) \/ IsInitialized(t) \/ Command(t)
  <2>1. (\E h : At(t, h)) /\ (Proceed(t) \/ Go(t, <<>>, Free))
    BY <1>12 DEF ReadProbeBase, ReadDeviceId, StoreMmioBase, Reset, Enable, UnclaimStream,
       StoreStreamId, StoreStreamAttrs, StoreDartBase, Bypass, SetStreamAttrs, WriteContext,
       Settled, StoreRegionBase, RewindRegion, RegionReady, Finish, GiveBack, Address,
       IsInitialized, Command
  <2>2. QED
    BY <1>6, <2>1
<1>13. QED
  BY <1>7, <1>8, <1>9, <1>10, <1>11, <1>12 DEF Steps

-----------------------------------------------------------------------------
(* Streams. *)

(* The stream a call has claimed, and the one its thread holds.            *)
Mine(t) == {reg[t].id, held[t].id} \ {NoStream}

(* The slot of a stream agrees with what was asked for it. *)
Keeps(id, attrs) ==
  /\ stream_attrs[id - FirstStream] = attrs
  /\ context[id - FirstStream] = Context(attrs)

(* What a thread has published of its streams, by what it has left to do:  *)
(* its slot bears its stream, and the tables what it asked for it.         *)
OwnsItsStream(t) ==
  LET id == reg[t].id
      own == id - FirstStream
  IN /\ "unclaim" \notin Left(t)
     /\ \A i \in Mine(t) : i - FirstStream \in 0 .. stream_count - 1
     /\ "claim" \in Left(t) => id = NoStream
     /\ Left(t) \cap Attributing # {} /\ "claim" \notin Left(t) => id # NoStream
     /\ "settled" \in Left(t) => id # NoStream /\ id = held[t].id
     /\ id # NoStream =>
          /\ "settled" \notin Left(t) /\ Left(t) \cap Attributing # {} => id # held[t].id
          /\ Left(t) \cap (Publish \cup {"set_attrs", "context"}) # {} => reg[t].slot = own
          /\ "search" \in Left(t) /\ "count" \notin Left(t) => reg[t].slot <= own /\ own < reg[t].count
          /\ "store_id" \notin Left(t) => stream_ids[own] = id
          /\ "dart_base" \notin Left(t) => dart_base = Base
          /\ Left(t) \cap {"search", "set_attrs"} = {} => stream_attrs[own] = reg[t].attrs
          /\ Left(t) \cap {"search", "set_attrs", "context"} = {} => Keeps(id, reg[t].attrs)
     /\ held[t].id # NoStream =>
          /\ stream_ids[held[t].id - FirstStream] = held[t].id
          /\ dart_base = Base
          /\ "settled" \notin Left(t) => Keeps(held[t].id, held[t].attrs)

(* No slot bears a stream of another one, and no two threads share one.    *)
StreamsAreOwned ==
  /\ \A s \in Slots : stream_ids[s] \in {NoStream, StreamId(s)}
  /\ \A t \in Threads : OwnsItsStream(t)
  /\ \A t, u \in Threads : t # u => Mine(t) \cap Mine(u) = {}

TablesAreTyped ==
  DOMAIN stream_ids = Slots /\ DOMAIN stream_attrs = Slots /\ DOMAIN context = Slots

StreamInv == TablesAreTyped /\ (~turned_away => StreamsAreOwned)

(* While no stream was refused, the streams that have been claimed fit.    *)
LEMMA StreamsFit ==
  ASSUME IInv, StreamsAreOwned
  PROVE  stream_count \in 0 .. Streams /\ \A t \in Threads : \A i \in Mine(t) : i - FirstStream \in Slots
<1>1. Unclaimers = {}
  <2> SUFFICES ASSUME NEW t \in Threads, At(t, "unclaim") PROVE FALSE
    BY DEF Unclaimers
  <2>1. "unclaim" \in Left(t)
    BY HeadIsIn DEF At, IInv, ProgramsAreOrdered, Left
  <2>2. QED
    BY <2>1 DEF StreamsAreOwned, OwnsItsStream
<1>2. stream_count \in 0 .. Streams
  BY <1>1, FS_EmptySet DEF IInv, Typed, CountIsRestored, Claimed
<1>3. QED
  BY <1>2, StreamsAssumption DEF StreamsAreOwned, OwnsItsStream, Slots

(* A thread that writes only into the slots of its own streams leaves the  *)
(* others their streams.                                                   *)
LEMMA OthersKeepTheirStreams ==
  ASSUME IInv, StreamsAreOwned, NEW t \in Threads,
         NEW rest, todo' = [todo EXCEPT ![t] = rest],
         NEW l, reg' = [reg EXCEPT ![t] = l],
         NEW mine, held' = [held EXCEPT ![t] = mine],
         card' = card, stream_count' \in Nat, stream_count' >= stream_count,
         dart_base = Base => dart_base' = Base,
         \A s \in Slots : stream_ids'[s] \in {NoStream, StreamId(s)},
         \A s \in Slots : StreamId(s) \notin Mine(t) =>
           /\ stream_ids'[s] = stream_ids[s]
           /\ stream_attrs'[s] = stream_attrs[s]
           /\ context'[s] = context[s],
         {l.id, mine.id} \ {NoStream} \subseteq Mine(t) \cup {StreamId(stream_count)},
         OwnsItsStream(t)'
  PROVE  StreamsAreOwned'
<1>1. /\ DOMAIN todo = Threads /\ DOMAIN reg = Threads /\ DOMAIN held = Threads
      /\ \A u \in Threads : reg[u].id \in Nat /\ held[u].id \in Nat
      /\ stream_count \in Nat
  BY DEF IInv, ProgramsAreOrdered, Typed, Locals
<1>2. \A u \in Threads \ {t} : Left(u)' = Left(u) /\ reg'[u] = reg[u] /\ held'[u] = held[u]
  BY <1>1 DEF Left
<1>3. \A u \in Threads \ {t} : Mine(u)' = Mine(u)
  BY <1>2 DEF Mine
<1>4. Mine(t)' \subseteq Mine(t) \cup {StreamId(stream_count)}
  BY <1>1 DEF Mine
<1>5. \A u \in Threads : StreamId(stream_count) \notin Mine(u)
  BY <1>1 DEF StreamsAreOwned, OwnsItsStream, StreamId, FirstStream
<1>6. ASSUME NEW u \in Threads \ {t}, NEW i \in Mine(u)
      PROVE  LET s == i - FirstStream
             IN  /\ stream_ids'[s] = stream_ids[s]
                 /\ stream_attrs'[s] = stream_attrs[s]
                 /\ context'[s] = context[s]
  <2>1. i - FirstStream \in Slots /\ i \notin Mine(t)
    BY StreamsFit DEF StreamsAreOwned
  <2>2. StreamId(i - FirstStream) = i
    BY <1>1 DEF StreamId, FirstStream, Mine
  <2>3. QED
    BY <2>1, <2>2
<1>7. ASSUME NEW u \in Threads \ {t} PROVE OwnsItsStream(u)'
  <2>1. OwnsItsStream(u)
    BY DEF StreamsAreOwned
  <2>2. \A attrs : Context(attrs)' = Context(attrs)
    BY DEF Context, ContextArm, ContextX86
  <2>3. /\ Left(u)' = Left(u) /\ reg'[u] = reg[u] /\ held'[u] = held[u] /\ Mine(u)' = Mine(u)
    BY <1>2, <1>3
  <2>4. reg[u].id # NoStream => reg[u].id \in Mine(u)
    BY DEF Mine
  <2>5. held[u].id # NoStream => held[u].id \in Mine(u)
    BY DEF Mine
  <2>6. \A i \in Mine(u) : i - FirstStream \in 0 .. stream_count' - 1
    BY <1>1, <2>1 DEF OwnsItsStream
  <2>7. QED
    BY <1>6, <2>1, <2>2, <2>3, <2>4, <2>5, <2>6 DEF OwnsItsStream, Keeps
<1>8. \A u, v \in Threads : u # v => Mine(u)' \cap Mine(v)' = {}
  BY <1>3, <1>4, <1>5 DEF StreamsAreOwned
<1>9. QED
  BY <1>7, <1>8 DEF StreamsAreOwned

(* A call goes on: a step that leaves the tables to do what the invariant  *)
(* says of those who have done it.                                         *)
LEMMA ProceedKeepsStreams ==
  ASSUME IInv, ProgramsAreStaged, StreamsAreOwned, NEW t \in Threads, NEW h, At(t, h), Proceed(t),
         h \notin {"claim", "unclaim", "count", "search", "settled"},
         held' = held, stream_count' = stream_count,
         dart_base = Base \/ h = "dart_base" => dart_base' = Base,
         LET id == reg[t].id
             own == id - FirstStream
         IN  /\ \A s \in Slots : /\ StreamId(s) # id \/ h # "store_id" => stream_ids'[s] = stream_ids[s]
                                 /\ StreamId(s) # id \/ h \notin {"store_attrs", "set_attrs"} =>
                                      stream_attrs'[s] = stream_attrs[s]
                                 /\ StreamId(s) # id \/ h \notin {"bypass", "context"} => context'[s] = context[s]
             /\ h = "store_id" => id # NoStream /\ stream_ids'[own] = id
             /\ h = "set_attrs" => id # NoStream /\ stream_attrs'[own] = reg[t].attrs
             /\ h = "context" => id # NoStream /\ context'[own] = Context(reg[t].attrs)
             /\ h \in Attributing => id # NoStream
  PROVE  StreamsAreOwned'
<1> DEFINE rest == Tail(todo[t])
           l == IF rest = <<>> THEN Free ELSE reg[t]
           id == reg[t].id
           own == id - FirstStream
<1>1. todo[t] # <<>> /\ Head(todo[t]) = h /\ Program(todo[t]) /\ OwnsItsStream(t)
  BY DEF At, ProgramsAreStaged, StreamsAreOwned
<1>2. /\ Left(t) = {h} \cup StepsIn(rest)
      /\ h \notin Publish => StepsIn(rest) \cap Publish = {}
      /\ \A k \in StepsIn(rest) : Stage(k) # 0 => Stage(h) < Stage(k)
      /\ Program(rest)
  BY <1>1, TailIsProgram DEF Left
<1>3. todo' = [todo EXCEPT ![t] = rest] /\ reg' = [reg EXCEPT ![t] = l] /\ card' = card
  BY DEF Proceed, Go
<1>4. Left(t)' = StepsIn(rest) /\ reg'[t] = l /\ held'[t] = held[t]
  BY <1>3 DEF Left, IInv, ProgramsAreOrdered, Typed
<1>5. /\ rest = <<>> => StepsIn(rest) = {} /\ l.id = NoStream
      /\ rest # <<>> => l = reg[t]
  BY DEF Free, StepsIn
<1>6. Mine(t)' \subseteq Mine(t) /\ {l.id, held[t].id} \ {NoStream} \subseteq Mine(t)
  BY <1>4, <1>5 DEF Mine
<1>7. /\ id \in Nat /\ held[t].id \in Nat /\ stream_count \in Nat
      /\ id # NoStream => own \in Slots /\ StreamId(own) = id
      /\ held[t].id # NoStream => held[t].id - FirstStream \in Slots /\ StreamId(held[t].id - FirstStream) = held[t].id
  BY StreamsFit DEF IInv, Typed, Locals, Mine, StreamId, FirstStream
<1>8. \A attrs : Context(attrs)' = Context(attrs)
  BY <1>3 DEF Context, ContextArm, ContextX86
<1>9. \A s \in Slots : stream_ids'[s] \in {NoStream, StreamId(s)}
  <2> SUFFICES ASSUME NEW s \in Slots, StreamId(s) = id, h = "store_id"
               PROVE  stream_ids'[s] \in {NoStream, StreamId(s)}
    BY DEF StreamsAreOwned
  <2>1. own = s
    BY DEF StreamId, FirstStream, Slots
  <2>2. QED
    BY <2>1
<1>10. /\ "search" \in Left(t) => "search" \in StepsIn(rest)
       /\ "count" \in Left(t) => "count" \in StepsIn(rest)
       /\ "settled" \in Left(t) <=> "settled" \in StepsIn(rest)
       /\ "claim" \in Left(t) <=> "claim" \in StepsIn(rest)
  BY <1>2
<1>11. /\ "unclaim" \notin StepsIn(rest)
       /\ "claim" \in StepsIn(rest) => l.id = NoStream
       /\ StepsIn(rest) \cap Attributing # {} /\ "claim" \notin StepsIn(rest) => l.id # NoStream
       /\ "settled" \in StepsIn(rest) => l.id # NoStream /\ l.id = held[t].id
  <2>1. StepsIn(rest) # {} => rest # <<>>
    BY <1>5
  <2>2. QED
    BY <1>1, <1>2, <1>5, <1>10, <2>1 DEF OwnsItsStream
<1>12. ASSUME l.id # NoStream
       PROVE  /\ l = reg[t] /\ id # NoStream
              /\ "settled" \notin StepsIn(rest) /\ StepsIn(rest) \cap Attributing # {} => id # held[t].id
              /\ StepsIn(rest) \cap (Publish \cup {"set_attrs", "context"}) # {} => reg[t].slot = own
              /\ "search" \in StepsIn(rest) /\ "count" \notin StepsIn(rest) => reg[t].slot <= own /\ own < reg[t].count
  BY <1>1, <1>2, <1>5, <1>10, <1>12 DEF OwnsItsStream
<1>13. ASSUME l.id # NoStream
       PROVE  /\ "store_id" \notin StepsIn(rest) => stream_ids'[own] = id
              /\ "dart_base" \notin StepsIn(rest) => dart_base' = Base
              /\ StepsIn(rest) \cap {"search", "set_attrs"} = {} => stream_attrs'[own] = reg[t].attrs
  <2>1. "store_id" \notin StepsIn(rest) => stream_ids'[own] = id
    BY <1>1, <1>2, <1>7, <1>12, <1>13 DEF OwnsItsStream
  <2>2. "dart_base" \notin StepsIn(rest) => dart_base' = Base
    BY <1>1, <1>2, <1>12, <1>13 DEF OwnsItsStream
  <2>3. ASSUME StepsIn(rest) \cap {"search", "set_attrs"} = {}, h # "set_attrs"
        PROVE  stream_attrs'[own] = reg[t].attrs
    <3>1. Left(t) \cap {"search", "set_attrs"} = {}
      BY <1>2, <2>3
    <3>2. h # "store_attrs"
      BY <1>1, <1>2, <3>1 DEF Program, Left, Publish
    <3>3. QED
      BY <1>1, <1>7, <1>12, <1>13, <2>3, <3>1, <3>2 DEF OwnsItsStream
  <2>4. QED
    BY <2>1, <2>2, <2>3
<1>14. ASSUME l.id # NoStream, StepsIn(rest) \cap {"search", "set_attrs", "context"} = {}
       PROVE  stream_attrs'[own] = reg[t].attrs /\ context'[own] = Context(reg[t].attrs)
  <2>1. stream_attrs'[own] = reg[t].attrs
    BY <1>13, <1>14
  <2>2. CASE h = "context"
    BY <2>1, <2>2
  <2>3. CASE h = "set_attrs"
    BY <1>1, <1>2, <1>14, <2>3 DEF Program, Left
  <2>4. CASE h \notin {"set_attrs", "context"}
    <3>1. Left(t) \cap {"search", "set_attrs", "context"} = {}
      BY <1>2, <1>14, <2>4
    <3>2. h # "bypass"
      BY <1>1, <1>2, <3>1 DEF Program, Left, Publish
    <3>3. QED
      BY <1>1, <1>7, <1>12, <1>14, <2>1, <2>4, <3>1, <3>2 DEF OwnsItsStream, Keeps
  <2>5. QED
    BY <2>2, <2>3, <2>4
<1>15. ASSUME held[t].id # NoStream
       PROVE  /\ stream_ids'[held[t].id - FirstStream] = held[t].id
              /\ dart_base' = Base
              /\ "settled" \notin StepsIn(rest) =>
                   /\ stream_attrs'[held[t].id - FirstStream] = held[t].attrs
                   /\ context'[held[t].id - FirstStream] = Context(held[t].attrs)
  <2>1. stream_ids'[held[t].id - FirstStream] = held[t].id
    BY <1>1, <1>7, <1>15 DEF OwnsItsStream
  <2>2. dart_base' = Base
    BY <1>1, <1>15 DEF OwnsItsStream
  <2>3. ASSUME "settled" \notin StepsIn(rest)
        PROVE  /\ stream_attrs'[held[t].id - FirstStream] = held[t].attrs
               /\ context'[held[t].id - FirstStream] = Context(held[t].attrs)
    <3>1. Keeps(held[t].id, held[t].attrs)
      BY <1>1, <1>10, <1>15, <2>3 DEF OwnsItsStream
    <3>2. h \in Attributing => id # held[t].id
      BY <1>1, <1>2, <1>10, <2>3 DEF OwnsItsStream
    <3>3. QED
      BY <1>7, <1>15, <3>1, <3>2 DEF Keeps, Attributing, Publish
  <2>4. QED
    BY <2>1, <2>2, <2>3
<1>16. OwnsItsStream(t)'
  <2>1. \A i \in Mine(t)' : i - FirstStream \in 0 .. stream_count' - 1
    BY <1>1, <1>6 DEF OwnsItsStream
  <2>2. l.id # NoStream => l.id = id
    BY <1>12
  <2> HIDE DEF l
  <2>3. QED
    BY <1>4, <1>8, <1>11, <1>12, <1>13, <1>14, <1>15, <2>1, <2>2 DEF OwnsItsStream, Keeps
<1>17. \A s \in Slots : StreamId(s) \notin Mine(t) =>
         /\ stream_ids'[s] = stream_ids[s]
         /\ stream_attrs'[s] = stream_attrs[s]
         /\ context'[s] = context[s]
  <2> SUFFICES ASSUME NEW s \in Slots, StreamId(s) \notin Mine(t)
               PROVE  /\ stream_ids'[s] = stream_ids[s]
                      /\ stream_attrs'[s] = stream_attrs[s]
                      /\ context'[s] = context[s]
    OBVIOUS
  <2>1. StreamId(s) # NoStream
    BY DEF StreamId, FirstStream, NoStream, Slots
  <2>2. StreamId(s) # id
    BY <2>1 DEF Mine
  <2>3. QED
    BY <2>2
<1>18. held' = [held EXCEPT ![t] = held[t]]
  BY DEF IInv, Typed
<1>19. /\ stream_count' \in Nat /\ stream_count' >= stream_count
       /\ dart_base = Base => dart_base' = Base
       /\ {l.id, held[t].id} \ {NoStream} \subseteq Mine(t) \cup {StreamId(stream_count)}
  BY <1>6, <1>7
<1> HIDE DEF l, rest, id, own
<1>20. QED
  BY <1>3, <1>9, <1>16, <1>17, <1>18, <1>19, OthersKeepTheirStreams

(* A call that begins: a probe, that has no stream yet, or one about the   *)
(* stream of its own that the thread holds.                                *)
LEMMA CallKeepsStreams ==
  ASSUME IInv, StreamsAreOwned, NEW t \in Threads, NEW program, NEW l, Call(t, program, l),
         StepsIn(program) \cap (Publish \cup {"unclaim", "set_attrs", "context"}) = {},
         \/ /\ l.id = NoStream /\ "settled" \notin StepsIn(program)
            /\ "claim" \in StepsIn(program) \/ StepsIn(program) \cap Attributing = {}
         \/ /\ l.id = held[t].id /\ l.id # NoStream
            /\ StepsIn(program) = {"count", "search", "settled"}
  PROVE  StreamsAreOwned'
<1>1. /\ todo' = [todo EXCEPT ![t] = program] /\ reg' = [reg EXCEPT ![t] = l] /\ card' = card
      /\ UNCHANGED <<stream_count, stream_ids, stream_attrs, dart_base, context, held, turned_away>>
      /\ Left(t) = {}
  BY DEF Call, stream, Idle, Left, StepsIn
<1>2. Left(t)' = StepsIn(program) /\ reg'[t] = l /\ held'[t] = held[t]
  BY <1>1 DEF Left, IInv, ProgramsAreOrdered, Typed
<1>3. OwnsItsStream(t)
  BY DEF StreamsAreOwned
<1>4. Mine(t)' \subseteq Mine(t) /\ {l.id, held[t].id} \ {NoStream} \subseteq Mine(t)
  BY <1>2 DEF Mine
<1>5. \A attrs : Context(attrs)' = Context(attrs)
  BY <1>1 DEF Context, ContextArm, ContextX86
<1>6. held[t].id # NoStream =>
        /\ stream_ids[held[t].id - FirstStream] = held[t].id
        /\ dart_base = Base
        /\ Keeps(held[t].id, held[t].attrs)
  BY <1>1, <1>3 DEF OwnsItsStream
<1>7. \A i \in Mine(t)' : i - FirstStream \in 0 .. stream_count' - 1
  BY <1>1, <1>3, <1>4 DEF OwnsItsStream
<1>8. Keeps(held[t].id, held[t].attrs)' <=> Keeps(held[t].id, held[t].attrs)
  BY <1>1, <1>2, <1>5 DEF Keeps
<1>9. OwnsItsStream(t)'
  <2>1. CASE l.id = NoStream /\ "settled" \notin StepsIn(program)
    <3>1. "claim" \in StepsIn(program) \/ StepsIn(program) \cap Attributing = {}
      BY <2>1
    <3>2. QED
      BY <1>1, <1>2, <1>6, <1>7, <1>8, <2>1, <3>1 DEF OwnsItsStream
  <2>2. CASE l.id = held[t].id /\ l.id # NoStream /\ StepsIn(program) = {"count", "search", "settled"}
    BY <1>1, <1>2, <1>6, <1>7, <2>2 DEF OwnsItsStream, Publish
  <2>3. QED
    BY <2>1, <2>2
<1>10. held' = [held EXCEPT ![t] = held[t]] /\ stream_count' \in Nat /\ stream_count' >= stream_count
  BY <1>1 DEF IInv, Typed
<1>11. \A s \in Slots : stream_ids'[s] \in {NoStream, StreamId(s)}
  BY <1>1 DEF StreamsAreOwned
<1>12. QED
  BY <1>1, <1>4, <1>9, <1>10, <1>11, OthersKeepTheirStreams

(* A call that ends early is not about the attributes of a stream.         *)
LEMMA StopKeepsStreams ==
  ASSUME IInv, ProgramsAreStaged, StreamsAreOwned, NEW t \in Threads, Go(t, <<>>, Free),
         NEW h \in {"probe_base", "device_id", "is_initialized"}, At(t, h),
         UNCHANGED stream
  PROVE  StreamsAreOwned'
<1>1. /\ todo' = [todo EXCEPT ![t] = <<>>] /\ reg' = [reg EXCEPT ![t] = Free] /\ card' = card
      /\ UNCHANGED <<stream_count, stream_ids, stream_attrs, dart_base, context, held, turned_away>>
  BY DEF Go, stream
<1>2. Left(t)' = {} /\ reg'[t] = Free /\ held'[t] = held[t] /\ Free.id = NoStream
  BY <1>1 DEF Left, IInv, ProgramsAreOrdered, Typed, StepsIn, Free
<1>3. OwnsItsStream(t)
  BY DEF StreamsAreOwned
<1>4. "settled" \notin Left(t)
  <2>1. h \in Left(t) /\ Program(todo[t])
    BY HeadIsIn DEF At, ProgramsAreStaged, Program, Left
  <2>2. QED
    BY <2>1 DEF Program, Left
<1>5. Mine(t)' \subseteq Mine(t) /\ {Free.id, held[t].id} \ {NoStream} \subseteq Mine(t)
  BY <1>2 DEF Mine
<1>6. \A attrs : Context(attrs)' = Context(attrs)
  BY <1>1 DEF Context, ContextArm, ContextX86
<1>7. Keeps(held[t].id, held[t].attrs)' <=> Keeps(held[t].id, held[t].attrs)
  BY <1>1, <1>2, <1>6 DEF Keeps
<1>8. OwnsItsStream(t)'
  BY <1>1, <1>2, <1>3, <1>4, <1>5, <1>7 DEF OwnsItsStream
<1>9. held' = [held EXCEPT ![t] = held[t]] /\ stream_count' \in Nat /\ stream_count' >= stream_count
  BY <1>1 DEF IInv, Typed
<1>10. \A s \in Slots : stream_ids'[s] \in {NoStream, StreamId(s)}
  BY <1>1 DEF StreamsAreOwned
<1>11. QED
  BY <1>1, <1>5, <1>8, <1>9, <1>10, OthersKeepTheirStreams

(* A free slot is claimed: the stream is nobody's yet.                     *)
LEMMA ClaimKeepsStreams ==
  ASSUME IInv, ProgramsAreStaged, StreamsAreOwned, NEW t \in Threads, Claim(t), ~turned_away'
  PROVE  StreamsAreOwned'
<1> DEFINE tail == Tail(todo[t])
           pre == IF card.arch = "arm" THEN PublishArm ELSE PublishX86
           l == [reg[t] EXCEPT !.slot = stream_count, !.id = StreamId(stream_count)]
           rest == pre \o tail
<1>1. todo[t] # <<>> /\ Head(todo[t]) = "claim" /\ Program(todo[t]) /\ OwnsItsStream(t)
  BY DEF Claim, ClaimStream, At, ProgramsAreStaged, StreamsAreOwned
<1>2. stream_count < Streams
  BY DEF Claim, ClaimStream
<1>3. /\ StepsIn(PublishArm) = {"store_id", "store_attrs", "dart_base", "bypass"} /\ Len(PublishArm) = 4
      /\ StepsIn(PublishX86) = {"store_id", "store_attrs", "dart_base"} /\ Len(PublishX86) = 3
      /\ PublishArm \in Seq(StepNames) /\ PublishX86 \in Seq(StepNames)
  BY DEF StepsIn, PublishArm, PublishX86, StepNames
<1>4. pre \in {PublishArm, PublishX86} /\ {"store_id", "store_attrs", "dart_base"} \subseteq StepsIn(pre)
      /\ StepsIn(pre) \subseteq Publish
  BY <1>3 DEF Publish
<1>5. StepsIn(rest) = StepsIn(pre) \cup StepsIn(tail) /\ Program(rest)
  BY <1>1, <1>4, DetoursArePrograms
<1>6. StepsIn(rest) # {}
  BY <1>4, <1>5
<1>7. /\ todo' = [todo EXCEPT ![t] = rest] /\ reg' = [reg EXCEPT ![t] = l] /\ card' = card
  <2>1. rest # <<>>
    <3>1. StepsIn(<<>>) = {}
      BY DEF StepsIn
    <3>2. QED
      BY <1>6, <3>1
  <2>2. QED
    BY <1>2, <2>1 DEF Claim, ClaimStream, Go
<1>8. stream_count' = stream_count + 1 /\ UNCHANGED <<stream_ids, stream_attrs, dart_base, context, held>>
  BY DEF Claim, ClaimStream
<1>9. Left(t)' = StepsIn(rest) /\ reg'[t] = l /\ held'[t] = held[t]
  BY <1>7, <1>8 DEF Left, IInv, ProgramsAreOrdered, Typed
<1>10. /\ stream_count \in Nat /\ reg[t] \in Locals /\ held[t].id \in Nat
       /\ l.id = StreamId(stream_count) /\ l.slot = stream_count
  BY DEF IInv, Typed, Locals
<1>11. /\ l.id # NoStream /\ l.id - FirstStream = stream_count
       /\ held[t].id # NoStream => held[t].id # l.id
  BY <1>1, <1>10 DEF StreamId, FirstStream, NoStream, OwnsItsStream, Mine
<1>12. /\ Left(t) = {"claim"} \cup StepsIn(tail) /\ "unclaim" \notin StepsIn(tail)
       /\ "claim" \notin StepsIn(tail)
       /\ {"count", "search", "initialized"} \subseteq StepsIn(tail)
  BY <1>1, TailIsProgram, TailIsOrdered, StageValues DEF Program, Left
<1>13. /\ {"count", "search", "initialized", "store_id", "dart_base"} \subseteq StepsIn(rest)
       /\ StepsIn(rest) \cap {"claim", "unclaim", "settled", "set_attrs", "context"} = {}
  <2>1. {"count", "search", "initialized", "store_id", "dart_base"} \subseteq StepsIn(rest)
    BY <1>4, <1>5, <1>12
  <2>2. StepsIn(rest) \cap {"settled", "set_attrs", "context"} = {}
    BY <1>5, <2>1 DEF Program
  <2>3. StepsIn(rest) \cap {"claim", "unclaim"} = {}
    BY <1>4, <1>5, <1>12 DEF Publish
  <2>4. QED
    BY <2>1, <2>2, <2>3
<1>14. "settled" \notin Left(t)
  BY <1>5, <1>12, <1>13
<1>15. \A attrs : Context(attrs)' = Context(attrs)
  BY <1>7 DEF Context, ContextArm, ContextX86
<1>16. held[t].id # NoStream =>
        /\ stream_ids[held[t].id - FirstStream] = held[t].id
        /\ dart_base = Base
        /\ Keeps(held[t].id, held[t].attrs)
  BY <1>1, <1>14 DEF OwnsItsStream
<1>17. Keeps(held[t].id, held[t].attrs)' <=> Keeps(held[t].id, held[t].attrs)
  BY <1>8, <1>15 DEF Keeps
<1>18. \A i \in Mine(t)' : i - FirstStream \in 0 .. stream_count' - 1
  BY <1>1, <1>8, <1>9, <1>10, <1>11 DEF OwnsItsStream, Mine
<1> HIDE DEF rest, l
<1>19. OwnsItsStream(t)'
  BY <1>8, <1>9, <1>10, <1>11, <1>13, <1>16, <1>17, <1>18 DEF OwnsItsStream
<1>20. held' = [held EXCEPT ![t] = held[t]] /\ stream_count' \in Nat /\ stream_count' >= stream_count
  BY <1>8, <1>10 DEF IInv, Typed
<1>21. {l.id, held[t].id} \ {NoStream} \subseteq Mine(t) \cup {StreamId(stream_count)}
  BY <1>10 DEF Mine
<1>22. \A s \in Slots : stream_ids'[s] \in {NoStream, StreamId(s)}
  BY <1>8 DEF StreamsAreOwned
<1>23. QED
  BY <1>7, <1>8, <1>19, <1>20, <1>21, <1>22, OthersKeepTheirStreams

(* The steps that only move in the call: what is left changes, or where it *)
(* is in its search.                                                       *)
LEMMA LookingKeepsStreams ==
  ASSUME IInv, StreamsAreOwned, NEW t \in Threads, NEW rest, NEW l,
         Go(t, rest, l), UNCHANGED stream, rest # <<>>,
         l.id = reg[t].id, l.attrs = reg[t].attrs,
         Left(t) \cap Publish = {}, StepsIn(rest) \cap (Publish \cup {"unclaim"}) = {},
         {"settled", "claim"} \cap StepsIn(rest) = {"settled", "claim"} \cap Left(t),
         StepsIn(rest) \cap Attributing # {} => Left(t) \cap Attributing # {} /\ "claim" \notin Left(t),
         StepsIn(rest) \cap {"search", "set_attrs"} = {} => Left(t) \cap {"search", "set_attrs"} = {},
         StepsIn(rest) \cap {"search", "set_attrs", "context"} = {} =>
           Left(t) \cap {"search", "set_attrs", "context"} = {},
         reg[t].id # NoStream =>
           /\ StepsIn(rest) \cap {"set_attrs", "context"} # {} => l.slot = reg[t].id - FirstStream
           /\ "search" \in StepsIn(rest) /\ "count" \notin StepsIn(rest) =>
                l.slot <= reg[t].id - FirstStream /\ reg[t].id - FirstStream < l.count
  PROVE  StreamsAreOwned'
<1>1. /\ todo' = [todo EXCEPT ![t] = rest] /\ reg' = [reg EXCEPT ![t] = l] /\ card' = card
      /\ UNCHANGED <<stream_count, stream_ids, stream_attrs, dart_base, context, held, turned_away>>
  BY DEF Go, stream
<1>2. Left(t)' = StepsIn(rest) /\ reg'[t] = l /\ held'[t] = held[t]
  BY <1>1 DEF Left, IInv, ProgramsAreOrdered, Typed
<1>3. OwnsItsStream(t)
  BY DEF StreamsAreOwned
<1>4. Mine(t)' = Mine(t) /\ {l.id, held[t].id} \ {NoStream} \subseteq Mine(t)
  BY <1>2 DEF Mine
<1>5. \A attrs : Context(attrs)' = Context(attrs)
  BY <1>1 DEF Context, ContextArm, ContextX86
<1>6. \A i, attrs : Keeps(i, attrs)' <=> Keeps(i, attrs)
  BY <1>1, <1>5 DEF Keeps
<1>7. /\ "unclaim" \notin StepsIn(rest)
      /\ \A h \in {"unclaim", "store_id", "dart_base", "settled", "claim"} : h \in StepsIn(rest) <=> h \in Left(t)
  BY <1>3 DEF OwnsItsStream, Publish
<1>8. OwnsItsStream(t)'
  <2>1. \A i \in Mine(t)' : i - FirstStream \in 0 .. stream_count' - 1
    BY <1>1, <1>3, <1>4 DEF OwnsItsStream
  <2>2. ASSUME l.id # NoStream
        PROVE  /\ "settled" \notin StepsIn(rest) /\ StepsIn(rest) \cap Attributing # {} => l.id # held[t].id
               /\ StepsIn(rest) \cap (Publish \cup {"set_attrs", "context"}) # {} => l.slot = l.id - FirstStream
               /\ "search" \in StepsIn(rest) /\ "count" \notin StepsIn(rest) =>
                    l.slot <= l.id - FirstStream /\ l.id - FirstStream < l.count
               /\ "store_id" \notin StepsIn(rest) => stream_ids[l.id - FirstStream] = l.id
               /\ "dart_base" \notin StepsIn(rest) => dart_base = Base
               /\ StepsIn(rest) \cap {"search", "set_attrs"} = {} => stream_attrs[l.id - FirstStream] = l.attrs
               /\ StepsIn(rest) \cap {"search", "set_attrs", "context"} = {} => Keeps(l.id, l.attrs)
    BY <1>3, <1>7, <2>2 DEF OwnsItsStream
  <2>3. /\ "claim" \in StepsIn(rest) => l.id = NoStream
        /\ StepsIn(rest) \cap Attributing # {} /\ "claim" \notin StepsIn(rest) => l.id # NoStream
        /\ "settled" \in StepsIn(rest) => l.id # NoStream /\ l.id = held[t].id
    BY <1>3, <1>7 DEF OwnsItsStream
  <2>4. held[t].id # NoStream =>
          /\ stream_ids[held[t].id - FirstStream] = held[t].id
          /\ dart_base = Base
          /\ "settled" \notin StepsIn(rest) => Keeps(held[t].id, held[t].attrs)
    BY <1>3, <1>7 DEF OwnsItsStream
  <2>5. QED
    BY <1>1, <1>2, <1>6, <1>7, <2>1, <2>2, <2>3, <2>4 DEF OwnsItsStream
<1>9. held' = [held EXCEPT ![t] = held[t]] /\ stream_count' \in Nat /\ stream_count' >= stream_count
  BY <1>1 DEF IInv, Typed
<1>10. \A s \in Slots : stream_ids'[s] \in {NoStream, StreamId(s)}
  BY <1>1 DEF StreamsAreOwned
<1>11. QED
  BY <1>1, <1>4, <1>8, <1>9, <1>10, OthersKeepTheirStreams

(* Counting, looking at a slot, and asking for memory.                     *)
LEMMA DetoursKeepStreams ==
  ASSUME IInv, ProgramsAreStaged, TablesAreTyped, StreamsAreOwned, NEW t \in Threads,
         \/ CountStreams(t)
         \/ Search(t, reg[t].count, <<"set_attrs", "context">>)
         \/ Take(t)
  PROVE  StreamsAreOwned'
<1> DEFINE tail == Tail(todo[t])
           id == reg[t].id
           own == id - FirstStream
<1>1. Program(todo[t]) /\ OwnsItsStream(t) /\ reg[t] \in Locals /\ stream_count \in Nat
  BY DEF ProgramsAreStaged, StreamsAreOwned, IInv, Typed
<1>2. ASSUME NEW h, At(t, h), h \notin Publish
      PROVE  /\ todo[t] # <<>> /\ Head(todo[t]) = h
             /\ Left(t) = {h} \cup StepsIn(tail) /\ Program(tail)
             /\ StepsIn(tail) \cap (Publish \cup {"unclaim"}) = {}
             /\ \A k \in StepsIn(tail) : Stage(k) # 0 => Stage(h) < Stage(k)
  BY <1>1, <1>2, TailIsProgram, TailIsOrdered DEF At, Left, Program
<1>3. id # NoStream => own \in 0 .. stream_count - 1 /\ own \in Slots
  BY <1>1, StreamsFit DEF OwnsItsStream, Mine
<1>4. CASE CountStreams(t)
  <2> DEFINE l == [reg[t] EXCEPT !.count = stream_count, !.slot = 0]
  <2>1. At(t, "count") /\ Go(t, tail, l) /\ UNCHANGED stream
    BY <1>4 DEF CountStreams
  <2>2. /\ Left(t) = {"count"} \cup StepsIn(tail) /\ Program(tail) /\ Program(todo[t])
        /\ StepsIn(tail) \cap (Publish \cup {"unclaim"}) = {}
        /\ StepsIn(tail) \cap {"claim", "count"} = {}
    BY <1>1, <1>2, <2>1, StageValues DEF Publish
  <2>3. "search" \in StepsIn(tail) /\ StepsIn(tail) \cap {"set_attrs", "context"} = {}
    BY <2>2 DEF Program, Left
  <2>4. l.id = id /\ l.attrs = reg[t].attrs /\ l.slot = 0 /\ l.count = stream_count
    BY <1>1 DEF Locals
  <2>5. tail # <<>> /\ Left(t) \cap Publish = {}
    <3>1. StepsIn(<<>>) = {}
      BY DEF StepsIn
    <3>2. QED
      BY <2>2, <2>3, <3>1 DEF Publish
  <2>6. id # NoStream => l.slot <= own /\ own < l.count
    BY <1>1, <1>3, <2>4
  <2>7. Left(t) \cap Attributing # {} /\ "claim" \notin Left(t)
    BY <2>2 DEF Attributing
  <2> HIDE DEF l, tail
  <2>8. QED
    BY <2>1, <2>2, <2>3, <2>4, <2>5, <2>6, <2>7, LookingKeepsStreams
<1>5. CASE Search(t, reg[t].count, <<"set_attrs", "context">>)
  <2> DEFINE found == <<"set_attrs", "context">> \o tail
             next == [reg[t] EXCEPT !.slot = reg[t].slot + 1]
  <2>1. At(t, "search") /\ UNCHANGED stream
    BY <1>5 DEF Search
  <2>2. /\ todo[t] # <<>> /\ Head(todo[t]) = "search"
        /\ Left(t) = {"search"} \cup StepsIn(tail) /\ Program(tail) /\ Program(todo[t])
        /\ StepsIn(tail) \cap (Publish \cup {"unclaim"}) = {}
        /\ StepsIn(tail) \cap {"claim", "count", "search"} = {}
    BY <1>1, <1>2, <2>1, StageValues DEF Publish
  <2>3. StepsIn(tail) \cap {"set_attrs", "context"} = {}
    BY <2>2 DEF Program, Left
  <2>4. id # NoStream
    BY <1>1, <2>2 DEF OwnsItsStream, Attributing
  <2>5. /\ reg[t].slot <= own /\ own < reg[t].count /\ stream_ids[own] = id
    BY <1>1, <2>2, <2>4 DEF OwnsItsStream, Publish
  <2>6. reg[t].slot \in Nat /\ reg[t].count \in Nat /\ own \in Nat /\ own \in Slots /\ StreamId(own) = id
    BY <1>1, <1>3, <2>4 DEF Locals, Slots, StreamId, FirstStream
  <2>7. ~(reg[t].slot >= reg[t].count)
    BY <2>5, <2>6
  <2>8. CASE stream_ids[reg[t].slot] = id /\ Go(t, found, reg[t])
    <3>1. reg[t].slot \in Slots
      BY <2>5, <2>6, StreamsAssumption DEF Slots
    <3>2. stream_ids[reg[t].slot] \in {NoStream, StreamId(reg[t].slot)}
      BY <3>1 DEF StreamsAreOwned
    <3>3. reg[t].slot = own
      BY <2>4, <2>6, <2>8, <3>2 DEF StreamId, FirstStream
    <3>4. StepsIn(found) = {"set_attrs", "context"} \cup StepsIn(tail)
      BY <2>2, DetoursArePrograms
    <3>5. found # <<>> /\ Left(t) \cap Publish = {}
      <4>1. StepsIn(<<>>) = {}
        BY DEF StepsIn
      <4>2. QED
        BY <2>2, <3>4, <4>1 DEF Publish
    <3>6. /\ StepsIn(found) \cap (Publish \cup {"unclaim"}) = {}
          /\ {"settled", "claim"} \cap StepsIn(found) = {"settled", "claim"} \cap Left(t)
          /\ Left(t) \cap Attributing # {} /\ "claim" \notin Left(t)
          /\ "search" \notin StepsIn(found)
          /\ StepsIn(found) \cap {"search", "set_attrs"} # {}
          /\ StepsIn(found) \cap {"search", "set_attrs", "context"} # {}
      BY <2>2, <3>4 DEF Publish, Attributing
    <3> HIDE DEF found, tail
    <3>7. QED
      BY <2>1, <2>8, <3>3, <3>5, <3>6, LookingKeepsStreams
  <2>9. CASE stream_ids[reg[t].slot] # id /\ Go(t, todo[t], next)
    <3>1. next.id = id /\ next.attrs = reg[t].attrs /\ next.slot = reg[t].slot + 1 /\ next.count = reg[t].count
      BY <1>1 DEF Locals
    <3>2. next.slot <= own
      BY <2>5, <2>6, <2>9, <3>1
    <3>3. /\ Left(t) \cap (Publish \cup {"unclaim"}) = {} /\ "claim" \notin Left(t)
          /\ Left(t) \cap Attributing # {} /\ Left(t) \cap {"set_attrs", "context"} = {}
      BY <2>2, <2>3 DEF Publish, Attributing
    <3> HIDE DEF next
    <3>4. QED
      BY <2>1, <2>2, <2>5, <2>9, <3>1, <3>2, <3>3, LookingKeepsStreams DEF Left
  <2>10. QED
    BY <1>5, <2>7, <2>8, <2>9 DEF Search
<1>6. CASE Take(t)
  <2> DEFINE pre == IF Fits(offset, reg[t].size) THEN <<"address">> ELSE <<"give_back">>
             l == [reg[t] EXCEPT !.at = offset]
  <2>1. At(t, "take") /\ UNCHANGED stream /\ Go(t, pre \o tail, l)
    BY <1>6 DEF Take
  <2>2. tail = <<>> /\ StepsIn(tail) = {} /\ Left(t) = {"take"}
    <3>1. Head(todo[t]) = "take" /\ todo[t] # <<>>
      BY <2>1 DEF At
    <3>2. tail = <<>>
      BY <1>1, <3>1, DetoursArePrograms
    <3>3. StepsIn(<<>>) = {}
      BY DEF StepsIn
    <3>4. QED
      BY <1>2, <2>1, <3>2, <3>3 DEF Publish
  <2>3. <<"address">> \o tail = <<"address">> /\ <<"give_back">> \o tail = <<"give_back">>
    <3>1. <<"address">> \o <<>> = <<"address">> /\ <<"give_back">> \o <<>> = <<"give_back">>
      OBVIOUS
    <3> HIDE DEF tail
    <3>2. QED
      BY <2>2, <3>1
  <2>4. StepsIn(<<"address">>) = {"address"} /\ StepsIn(<<"give_back">>) = {"give_back"}
    BY DEF StepsIn
  <2>5. l.id = id /\ l.attrs = reg[t].attrs
    BY <1>1 DEF Locals
  <2>6. pre \o tail \in {<<"address">>, <<"give_back">>}
    BY <2>3
  <2> DEFINE rest == pre \o tail
  <2> HIDE DEF rest, l, tail, pre
  <2>7. rest # <<>> /\ StepsIn(rest) \subseteq {"address", "give_back"}
    <3>1. StepsIn(<<>>) = {}
      BY DEF StepsIn
    <3>2. QED
      BY <2>4, <2>6, <3>1 DEF rest
  <2>8. Go(t, rest, l)
    BY <2>1 DEF rest
  <2>9. QED
    BY <2>1, <2>2, <2>5, <2>7, <2>8, LookingKeepsStreams DEF Publish, Attributing
<1>7. QED
  BY <1>4, <1>5, <1>6

(* The stream a call leaves to its thread when it ends.                    *)
LEMMA EndsKeepStreams ==
  ASSUME IInv, ProgramsAreStaged, StreamsAreOwned, NEW t \in Threads, Settled(t) \/ Finish(t)
  PROVE  StreamsAreOwned'
<1> DEFINE rest == Tail(todo[t])
           mine == IF Settled(t) THEN [held[t] EXCEPT !.attrs = reg[t].attrs]
                                 ELSE [id |-> reg[t].id, attrs |-> reg[t].attrs]
<1>1. OwnsItsStream(t) /\ Program(todo[t])
  BY DEF StreamsAreOwned, ProgramsAreStaged
<1>2. PICK h \in {"settled", "initialized"} : At(t, h) /\ (Settled(t) <=> h = "settled")
  BY DEF Settled, Finish, At
<1>3. /\ todo[t] # <<>> /\ Head(todo[t]) = h /\ Left(t) = {h} \cup StepsIn(rest)
      /\ \A k \in StepsIn(rest) : Stage(k) # 0 => Stage(h) < Stage(k)
      /\ Program(rest) /\ Ordered(rest)
  BY <1>1, <1>2, TailIsProgram DEF At, Left
<1>4. rest = <<>>
  <2>1. CASE h = "settled"
    <3>1. StepsIn(rest) \subseteq {"count", "search", "set_attrs", "context", "settled"}
      BY <1>1, <1>3, <2>1 DEF Program, Left
    <3>2. StepsIn(rest) = {}
      BY <1>3, <2>1, <3>1, StageValues
    <3>3. QED
      BY <1>3, <3>2, HeadIsIn
  <2>2. CASE h = "initialized"
    BY <1>1, <1>3, <2>2, TailIsOrdered DEF Program, Last
  <2>3. QED
    BY <2>1, <2>2
<1>5. StepsIn(<<>>) = {} /\ Free.id = NoStream
  BY DEF StepsIn, Free
<1>6. /\ todo' = [todo EXCEPT ![t] = <<>>] /\ reg' = [reg EXCEPT ![t] = Free] /\ card' = card
      /\ UNCHANGED <<stream_count, stream_ids, stream_attrs, dart_base, context>>
  <2> HIDE DEF rest
  <2>1. UNCHANGED <<stream_count, stream_ids, stream_attrs, dart_base, context>> /\ Proceed(t)
    BY DEF Settled, Finish
  <2>2. QED
    BY <1>4, <2>1 DEF Proceed, Go, rest
<1>7. /\ held' = [held EXCEPT ![t] = mine]
      /\ mine.attrs = reg[t].attrs /\ mine.id = reg[t].id
  <2>1. held[t] \in [id : Nat, attrs : {"none", "cached", "device"}]
    BY DEF IInv, Typed
  <2>2. CASE h = "settled"
    <3>1. held[t].id = reg[t].id
      BY <1>1, <1>3, <2>2 DEF OwnsItsStream
    <3>2. QED
      BY <1>2, <2>1, <2>2, <3>1 DEF Settled
  <2>3. CASE h = "initialized"
    BY <1>2, <2>3 DEF Finish
  <2>4. QED
    BY <2>2, <2>3
<1> HIDE DEF mine
<1>8. Left(t)' = {} /\ reg'[t] = Free /\ held'[t] = mine
  BY <1>5, <1>6, <1>7 DEF Left, IInv, ProgramsAreOrdered, Typed
<1>9. Left(t) = {h}
  BY <1>3, <1>4, <1>5
<1>10. mine.id # NoStream =>
         /\ stream_ids[mine.id - FirstStream] = mine.id
         /\ dart_base = Base
         /\ Keeps(mine.id, mine.attrs)
  BY <1>1, <1>7, <1>9 DEF OwnsItsStream
<1>11. \A attrs : Context(attrs)' = Context(attrs)
  BY <1>6 DEF Context, ContextArm, ContextX86
<1>12. Mine(t)' \subseteq Mine(t) /\ {Free.id, mine.id} \ {NoStream} \subseteq Mine(t)
  BY <1>5, <1>7, <1>8 DEF Mine
<1>13. \A i \in Mine(t)' : i - FirstStream \in 0 .. stream_count' - 1
  BY <1>1, <1>6, <1>12 DEF OwnsItsStream
<1>14. OwnsItsStream(t)'
  BY <1>5, <1>6, <1>8, <1>10, <1>11, <1>13 DEF OwnsItsStream, Keeps
<1>15. stream_count' \in Nat /\ stream_count' >= stream_count
  BY <1>6 DEF IInv, Typed
<1>16. \A s \in Slots : stream_ids'[s] \in {NoStream, StreamId(s)}
  BY <1>6 DEF StreamsAreOwned
<1>17. QED
  BY <1>6, <1>7, <1>12, <1>14, <1>15, <1>16, OthersKeepTheirStreams

(* The stores into the tables and into the device's registers.             *)
LEMMA StoresKeepStreams ==
  ASSUME IInv, ProgramsAreStaged, TablesAreTyped, StreamsAreOwned, NEW t \in Threads,
         \/ StoreStreamId(t) \/ StoreStreamAttrs(t, FirstAttrs) \/ StoreDartBase(t) \/ Bypass(t)
         \/ SetStreamAttrs(t) \/ WriteContext(t, Context(reg[t].attrs))
  PROVE  StreamsAreOwned'
<1> DEFINE id == reg[t].id
           own == id - FirstStream
<1>1. OwnsItsStream(t) /\ Program(todo[t])
  BY DEF StreamsAreOwned, ProgramsAreStaged
<1>2. ASSUME NEW h \in Publish \cup {"set_attrs", "context"}, At(t, h)
      PROVE  /\ id # NoStream /\ reg[t].slot = own /\ own \in Slots
             /\ \A s \in Slots : StreamId(s) # id => s # own
  <2>1. todo[t] # <<>> /\ Head(todo[t]) = h /\ h \in Left(t) /\ Left(t) = {h} \cup StepsIn(Tail(todo[t]))
    BY <1>1, <1>2, HeadIsIn, TailIsProgram DEF At, Left, Program
  <2>2. "claim" \notin Left(t)
    <3>1. CASE "claim" \in Left(t)
      <4>1. {"count", "search"} \subseteq Left(t)
        BY <1>1, <3>1 DEF Program, Left
      <4>2. h \notin {"set_attrs", "context"}
        BY <1>1, <2>1, <4>1 DEF Program, Left
      <4>3. Left(t) \cap Publish = {}
        BY <1>1, <3>1 DEF Program, Left
      <4>4. QED
        BY <2>1, <4>2, <4>3
    <3>2. QED
      BY <3>1
  <2>3. id # NoStream /\ reg[t].slot = own
    BY <1>1, <2>1, <2>2 DEF OwnsItsStream, Attributing
  <2>4. own \in Slots /\ id \in Nat
    BY <2>3, StreamsFit DEF Mine, IInv, Typed, Locals
  <2>5. QED
    BY <2>3, <2>4 DEF StreamId, FirstStream, Slots
<1>3. \A h : At(t, h) => h \in Left(t)
  BY <1>1, HeadIsIn DEF At, Left, Program
<1>4. CASE StoreStreamId(t)
  <2>1. /\ At(t, "store_id") /\ Proceed(t) /\ held' = held /\ stream_count' = stream_count
        /\ UNCHANGED <<stream_attrs, dart_base, context>>
        /\ stream_ids' = [stream_ids EXCEPT ![reg[t].slot] = id]
    BY <1>4 DEF StoreStreamId
  <2>2. id # NoStream /\ reg[t].slot = own /\ own \in Slots /\ \A s \in Slots : StreamId(s) # id => s # own
    BY <1>2, <2>1 DEF Publish
  <2>3. stream_ids'[own] = id /\ \A s \in Slots : StreamId(s) # id => stream_ids'[s] = stream_ids[s]
    BY <2>1, <2>2 DEF TablesAreTyped
  <2> HIDE DEF own, id
  <2>4. QED
    BY <2>1, <2>2, <2>3, ProceedKeepsStreams DEF own, id
<1>5. CASE StoreStreamAttrs(t, FirstAttrs)
  <2>1. /\ At(t, "store_attrs") /\ Proceed(t) /\ held' = held /\ stream_count' = stream_count
        /\ UNCHANGED <<stream_ids, dart_base, context>>
        /\ stream_attrs' = [stream_attrs EXCEPT ![reg[t].slot] = FirstAttrs]
    BY <1>5 DEF StoreStreamAttrs
  <2>2. id # NoStream /\ reg[t].slot = own /\ own \in Slots /\ \A s \in Slots : StreamId(s) # id => s # own
    BY <1>2, <2>1 DEF Publish
  <2>3. \A s \in Slots : StreamId(s) # id => stream_attrs'[s] = stream_attrs[s]
    BY <2>1, <2>2
  <2>4. QED
    BY <2>1, <2>2, <2>3, ProceedKeepsStreams
<1>6. CASE StoreDartBase(t)
  <2>1. /\ At(t, "dart_base") /\ Proceed(t) /\ held' = held /\ stream_count' = stream_count
        /\ UNCHANGED <<stream_ids, stream_attrs, context>> /\ dart_base' = Base
    BY <1>6 DEF StoreDartBase
  <2>2. id # NoStream
    BY <1>2, <2>1 DEF Publish
  <2>3. QED
    BY <2>1, <2>2, ProceedKeepsStreams
<1>7. CASE Bypass(t)
  <2>1. /\ At(t, "bypass") /\ Proceed(t) /\ held' = held /\ stream_count' = stream_count
        /\ UNCHANGED <<stream_ids, stream_attrs, dart_base>>
        /\ context' = [context EXCEPT ![reg[t].slot] = "bypass"]
    BY <1>7 DEF Bypass
  <2>2. id # NoStream /\ reg[t].slot = own /\ own \in Slots /\ \A s \in Slots : StreamId(s) # id => s # own
    BY <1>2, <2>1 DEF Publish
  <2>3. \A s \in Slots : StreamId(s) # id => context'[s] = context[s]
    BY <2>1, <2>2
  <2>4. QED
    BY <2>1, <2>2, <2>3, ProceedKeepsStreams
<1>8. CASE SetStreamAttrs(t)
  <2>1. /\ At(t, "set_attrs") /\ Proceed(t) /\ held' = held /\ stream_count' = stream_count
        /\ UNCHANGED <<stream_ids, dart_base, context>>
        /\ stream_attrs' = [stream_attrs EXCEPT ![reg[t].slot] = reg[t].attrs]
    BY <1>8 DEF SetStreamAttrs
  <2>2. id # NoStream /\ reg[t].slot = own /\ own \in Slots /\ \A s \in Slots : StreamId(s) # id => s # own
    BY <1>2, <2>1
  <2>3. stream_attrs'[own] = reg[t].attrs /\ \A s \in Slots : StreamId(s) # id => stream_attrs'[s] = stream_attrs[s]
    BY <2>1, <2>2 DEF TablesAreTyped
  <2>4. QED
    BY <2>1, <2>2, <2>3, ProceedKeepsStreams
<1>9. CASE WriteContext(t, Context(reg[t].attrs))
  <2>1. /\ At(t, "context") /\ Proceed(t) /\ held' = held /\ stream_count' = stream_count
        /\ UNCHANGED <<stream_ids, stream_attrs, dart_base>>
        /\ context' = IF dart_base = 0 THEN context
                       ELSE [context EXCEPT ![reg[t].slot] = Context(reg[t].attrs)]
    BY <1>9 DEF WriteContext
  <2>2. id # NoStream /\ reg[t].slot = own /\ own \in Slots /\ \A s \in Slots : StreamId(s) # id => s # own
    BY <1>2, <2>1
  <2>3. dart_base = Base
    <3>1. "context" \in Left(t) /\ Head(todo[t]) = "context" /\ todo[t] # <<>>
      BY <1>3, <2>1 DEF At
    <3>2. Left(t) \cap Publish = {}
      BY <1>1, <3>1, TailIsProgram DEF Left, Publish
    <3>3. QED
      BY <1>1, <2>2, <3>2 DEF OwnsItsStream, Publish
  <2>4. context' = [context EXCEPT ![own] = Context(reg[t].attrs)]
    BY <2>1, <2>2, <2>3, RegionAssumption DEF Base
  <2>5. context'[own] = Context(reg[t].attrs) /\ \A s \in Slots : StreamId(s) # id => context'[s] = context[s]
    BY <2>2, <2>4 DEF TablesAreTyped
  <2>6. QED
    BY <2>1, <2>2, <2>5, ProceedKeepsStreams
<1>10. QED
  BY <1>4, <1>5, <1>6, <1>7, <1>8, <1>9

(* Steps that are about anything but a stream.                             *)
LEMMA RestKeepsStreams ==
  ASSUME IInv, ProgramsAreStaged, StreamsAreOwned, NEW t \in Threads, UNCHANGED stream,
         NEW h, At(t, h), Proceed(t),
         h \notin Attributing \cup {"claim", "unclaim", "settled"}
  PROVE  StreamsAreOwned'
<1>1. /\ stream_ids' = stream_ids /\ stream_attrs' = stream_attrs /\ context' = context
      /\ dart_base' = dart_base /\ held' = held /\ stream_count' = stream_count
  BY DEF stream
<1>2. h # "dart_base" /\ h # "store_id" /\ h # "set_attrs" /\ h # "context"
  BY DEF Attributing, Publish
<1>3. h \notin {"claim", "unclaim", "count", "search", "settled"}
  BY DEF Attributing
<1>4. QED
  BY <1>1, <1>2, <1>3, ProceedKeepsStreams

(* The tables keep their slots, whatever is stored in them.                *)
LEMMA TablesKeepTheirSlots ==
  ASSUME TablesAreTyped, NEW t \in Threads, Steps(t)
  PROVE  TablesAreTyped' /\ (turned_away => turned_away')
<1>1. ASSUME UNCHANGED <<stream_ids, stream_attrs, context>> PROVE TablesAreTyped'
  BY <1>1 DEF TablesAreTyped
<1>2. ASSUME NEW v, StoreStreamId(t) \/ StoreStreamAttrs(t, FirstAttrs) \/ Bypass(t) \/ SetStreamAttrs(t)
             \/ WriteContext(t, v)
      PROVE  TablesAreTyped'
  BY <1>2 DEF StoreStreamId, StoreStreamAttrs, Bypass, SetStreamAttrs, WriteContext, TablesAreTyped
<1>3. TablesAreTyped'
  BY <1>1, <1>2 DEF Steps, Configure, ProbeDevice, DmaAlloc, SmmuSetAttrs, Submit, Call,
     ReadProbeBase, ReadDeviceId, StoreMmioBase, Reset, Enable, Claim, ClaimStream, UnclaimStream,
     StoreDartBase, CountStreams, Search, Settled, StoreRegionBase, RewindRegion, RegionReady, Finish,
     Take, GiveBack, Address, IsInitialized, Command, stream
<1>4. turned_away => turned_away'
  BY DEF Steps, Configure, ProbeDevice, DmaAlloc, SmmuSetAttrs, Submit, Call,
     ReadProbeBase, ReadDeviceId, StoreMmioBase, Reset, Enable, Claim, ClaimStream, UnclaimStream,
     StoreStreamId, StoreStreamAttrs, Bypass, SetStreamAttrs, WriteContext,
     StoreDartBase, CountStreams, Search, Settled, StoreRegionBase, RewindRegion, RegionReady, Finish,
     Take, GiveBack, Address, IsInitialized, Command, stream
<1>5. QED
  BY <1>3, <1>4

(* Calls begin.                                                            *)
LEMMA CallsKeepStreams ==
  ASSUME IInv, StreamsAreOwned, NEW t \in Threads,
         \/ ProbeDevice(t) \/ \E size \in Sizes : DmaAlloc(t, size)
         \/ \E attrs \in {"cached", "device"} : SmmuSetAttrs(t, attrs)
         \/ Submit(t)
  PROVE  StreamsAreOwned'
<1>1. /\ Program(BringUp) /\ {"claim", "initialized"} \subseteq StepsIn(BringUp)
      /\ StepsIn(BringUp) \cap (Publish \cup {"settled"}) = {}
      /\ "search" \in StepsIn(BringUp)
  BY ProgramsBegin
<1>2. "unclaim" \notin StepsIn(BringUp)
  BY ProgramsAreSafe
<1>3. StepsIn(BringUp) \cap {"set_attrs", "context"} = {}
  BY <1>1 DEF Program
<1>4. CASE ProbeDevice(t)
  <2> DEFINE l == [Free EXCEPT !.attrs = "cached"]
  <2>1. Call(t, BringUp, l) /\ l.id = NoStream
    BY <1>4 DEF ProbeDevice, Free
  <2> HIDE DEF l
  <2>2. QED
    BY <1>1, <1>2, <1>3, <2>1, CallKeepsStreams
<1>5. ASSUME NEW size \in Sizes, DmaAlloc(t, size) PROVE StreamsAreOwned'
  <2> DEFINE l == [Free EXCEPT !.size = size]
  <2>1. Call(t, <<"take">>, l) /\ l.id = NoStream
    BY <1>5 DEF DmaAlloc, Free
  <2>2. StepsIn(<<"take">>) = {"take"}
    BY DEF StepsIn
  <2> HIDE DEF l
  <2>3. QED
    BY <2>1, <2>2, CallKeepsStreams DEF Publish, Attributing
<1>6. ASSUME NEW attrs \in {"cached", "device"}, SmmuSetAttrs(t, attrs) PROVE StreamsAreOwned'
  <2> DEFINE l == [Free EXCEPT !.id = held[t].id, !.attrs = attrs]
             program == SetAttributes \o <<"settled">>
  <2>1. Call(t, program, l) /\ l.id = held[t].id /\ held[t].id # NoStream
    BY <1>6 DEF SmmuSetAttrs, Free
  <2>2. StepsIn(program) = {"count", "search", "settled"}
    BY DEF StepsIn, SetAttributes
  <2> HIDE DEF l, program
  <2>3. QED
    BY <2>1, <2>2, CallKeepsStreams DEF Publish, Attributing
<1>7. CASE Submit(t)
  <2> DEFINE program == <<"probe_base", "is_initialized", "command">>
  <2>1. Call(t, program, Free) /\ Free.id = NoStream
    BY <1>7 DEF Submit, Free
  <2>2. StepsIn(program) = {"probe_base", "is_initialized", "command"}
    BY DEF StepsIn
  <2> HIDE DEF program
  <2>3. QED
    BY <2>1, <2>2, CallKeepsStreams DEF Publish, Attributing
<1>8. QED
  BY <1>4, <1>5, <1>6, <1>7

(* Every step of a thread.                                                 *)
LEMMA StepsKeepStreams ==
  ASSUME IInv, ProgramsAreStaged, StreamInv, NEW t \in Threads, Steps(t)
  PROVE  StreamInv'
<1> SUFFICES ASSUME ~turned_away' PROVE StreamsAreOwned'
  BY TablesKeepTheirSlots DEF StreamInv
<1>1. TablesAreTyped /\ StreamsAreOwned
  BY TablesKeepTheirSlots DEF StreamInv
<1>2. CASE \E base \in {0, Base} : Configure(t, base)
  <2>1. UNCHANGED <<card, todo, reg, stream_count, stream_ids, stream_attrs, dart_base, context, held>>
    BY <1>2 DEF Configure, stream
  <2>2. /\ \A u \in Threads : Left(u)' = Left(u) /\ Mine(u)' = Mine(u)
        /\ \A i, attrs : Keeps(i, attrs)' <=> Keeps(i, attrs)
    BY <2>1 DEF Left, Mine, Keeps, Context, ContextArm, ContextX86
  <2>3. ASSUME NEW u \in Threads PROVE OwnsItsStream(u)'
    <3>1. OwnsItsStream(u)
      BY <1>1 DEF StreamsAreOwned
    <3>2. QED
      BY <2>1, <2>2, <3>1 DEF OwnsItsStream
  <2>4. QED
    BY <1>1, <2>1, <2>2, <2>3 DEF StreamsAreOwned
<1>3. CASE \/ ProbeDevice(t) \/ \E size \in Sizes : DmaAlloc(t, size)
           \/ \E attrs \in {"cached", "device"} : SmmuSetAttrs(t, attrs)
           \/ Submit(t)
  BY <1>1, <1>3, CallsKeepStreams
<1>4. CASE Claim(t)
  BY <1>1, <1>4, ClaimKeepsStreams
<1>5. CASE UnclaimStream(t)
  <2>1. At(t, "unclaim")
    BY <1>5 DEF UnclaimStream
  <2>2. "unclaim" \in Left(t)
    BY <2>1, HeadIsIn DEF At, IInv, ProgramsAreOrdered, Left
  <2>3. QED
    BY <1>1, <2>2 DEF StreamsAreOwned, OwnsItsStream
<1>6. CASE \/ StoreStreamId(t) \/ StoreStreamAttrs(t, FirstAttrs) \/ StoreDartBase(t) \/ Bypass(t)
           \/ SetStreamAttrs(t) \/ WriteContext(t, Context(reg[t].attrs))
  BY <1>1, <1>6, StoresKeepStreams
<1>7. CASE CountStreams(t) \/ Search(t, reg[t].count, <<"set_attrs", "context">>) \/ Take(t)
  BY <1>1, <1>7, DetoursKeepStreams
<1>8. CASE Settled(t) \/ Finish(t)
  BY <1>1, <1>8, EndsKeepStreams
<1>9. CASE ReadProbeBase(t) \/ ReadDeviceId(t) \/ IsInitialized(t)
  <2>1. PICK h \in {"probe_base", "device_id", "is_initialized"} :
          At(t, h) /\ UNCHANGED stream /\ (Proceed(t) \/ Go(t, <<>>, Free))
    BY <1>9 DEF ReadProbeBase, ReadDeviceId, IsInitialized
  <2>2. h \notin Attributing \cup {"claim", "unclaim", "settled"}
    BY DEF Attributing, Publish
  <2>3. QED
    BY <1>1, <2>1, <2>2, RestKeepsStreams, StopKeepsStreams
<1>10. CASE \/ StoreMmioBase(t) \/ Reset(t) \/ Enable(t)
            \/ StoreRegionBase(t) \/ RewindRegion(t) \/ RegionReady(t)
            \/ GiveBack(t) \/ Address(t) \/ Command(t)
  <2> DEFINE Names == {"mmio_base", "reset", "enable", "region_base", "rewind", "ready",
                       "give_back", "address", "command"}
  <2>1. PICK h \in Names : At(t, h) /\ UNCHANGED stream /\ Proceed(t)
    BY <1>10 DEF StoreMmioBase, Reset, Enable, StoreRegionBase, RewindRegion, RegionReady,
       GiveBack, Address, Command
  <2>2. h \notin Attributing \cup {"claim", "unclaim", "settled"}
    BY DEF Attributing, Publish
  <2>3. QED
    BY <1>1, <2>1, <2>2, RestKeepsStreams
<1>11. QED
  BY <1>2, <1>3, <1>4, <1>5, <1>6, <1>7, <1>8, <1>9, <1>10 DEF Steps

(* Nothing has been asked of the streams yet.                              *)
LEMMA StreamsBegin == ASSUME LpuInit PROVE ProgramsAreStaged /\ StreamInv
<1>1. \A t \in Threads : todo[t] = <<>> /\ reg[t] = Free /\ held[t].id = NoStream
  BY DEF LpuInit, Init
<1>2. StepsIn(<<>>) = {} /\ Free.id = NoStream
  BY DEF StepsIn, Free
<1>3. \A t \in Threads : Left(t) = {} /\ Mine(t) = {} /\ reg[t].id = NoStream /\ held[t].id = NoStream
  BY <1>1, <1>2 DEF Left, Mine
<1>4. ProgramsAreStaged
  BY <1>1, ProgramsBegin DEF ProgramsAreStaged
<1>5. TablesAreTyped /\ \A s \in Slots : stream_ids[s] = NoStream
  BY DEF LpuInit, Init, TablesAreTyped
<1>6. \A t \in Threads : OwnsItsStream(t)
  BY <1>3 DEF OwnsItsStream
<1>7. QED
  BY <1>3, <1>4, <1>5, <1>6 DEF StreamInv, StreamsAreOwned

(* The invariants hold together.                                           *)
LEMMA StreamInvariantHolds == LpuSpec => [](IInv /\ ProgramsAreStaged /\ StreamInv)
<1>1. LpuInit => ProgramsAreStaged /\ StreamInv
  BY StreamsBegin
<1>2. IInv /\ ProgramsAreStaged /\ StreamInv /\ [\E t \in Threads : Steps(t)]_vars
        => ProgramsAreStaged' /\ StreamInv'
  <2> SUFFICES ASSUME IInv, ProgramsAreStaged, StreamInv, [\E t \in Threads : Steps(t)]_vars
               PROVE  ProgramsAreStaged' /\ StreamInv'
    OBVIOUS
  <2>1. CASE UNCHANGED vars
    <3>1. UNCHANGED <<card, todo, reg, stream_count, stream_ids, stream_attrs, dart_base, context, held, turned_away>>
      BY <2>1 DEF vars, stream
    <3>2. /\ \A u \in Threads : Left(u)' = Left(u) /\ Mine(u)' = Mine(u)
          /\ \A i, attrs : Keeps(i, attrs)' <=> Keeps(i, attrs)
      BY <3>1 DEF Left, Mine, Keeps, Context, ContextArm, ContextX86
    <3>3. ASSUME NEW u \in Threads PROVE OwnsItsStream(u)' <=> OwnsItsStream(u)
      BY <3>1, <3>2 DEF OwnsItsStream
    <3>4. QED
      BY <3>1, <3>2, <3>3 DEF ProgramsAreStaged, StreamInv, TablesAreTyped, StreamsAreOwned
  <2>2. CASE \E t \in Threads : Steps(t)
    BY <2>2, StepsKeepPrograms, StepsKeepStreams
  <2>3. QED
    BY <2>1, <2>2
<1>3. QED
  BY <1>1, <1>2, InvariantHolds, PTL DEF LpuSpec

(* The thread that owns a stream finds in the stream's slot the attributes *)
(* it set last, and the device's register agrees, for any number of        *)
(* threads that bring the device up and set attributes at the same time    *)
(* (smmu.rs: the search that follows a claim finds the claimed slot).      *)
LEMMA LpuStreamsAreKept == LpuSpec => []StreamsKeepTheirSlot
<1>1. IInv /\ ProgramsAreStaged /\ StreamInv => StreamsKeepTheirSlot
  <2> SUFFICES ASSUME IInv, StreamInv, ~turned_away, NEW t \in Threads, held[t].id # NoStream, Idle(t)
               PROVE  \E s \in Slots :
                        /\ stream_ids[s] = held[t].id
                        /\ stream_attrs[s] = held[t].attrs
                        /\ context[s] = Context(held[t].attrs)
    BY DEF StreamsKeepTheirSlot
  <2>1. StreamsAreOwned /\ OwnsItsStream(t)
    BY DEF StreamInv, StreamsAreOwned
  <2>2. Left(t) = {}
    BY DEF Idle, Left, StepsIn
  <2>3. held[t].id - FirstStream \in Slots
    BY <2>1, StreamsFit DEF Mine
  <2>4. stream_ids[held[t].id - FirstStream] = held[t].id /\ Keeps(held[t].id, held[t].attrs)
    BY <2>1, <2>2 DEF OwnsItsStream
  <2>5. QED
    BY <2>3, <2>4 DEF Keeps
<1>2. QED
  BY <1>1, StreamInvariantHolds, PTL

-----------------------------------------------------------------------------
(* Requests. *)

(* Sizes are added up without a fold, whose value no prover can follow:    *)
(* as many units as bytes.                                                 *)
Units(size) == {u \in Threads \X Nat : 1 <= u[2] /\ u[2] <= size[u[1]]}
Total(size) == Cardinality(Units(size))

(* The bytes of the threads at a step: granted to those that still have to *)
(* add the base, refused to those that still have to take them back.       *)
AskedAt(step) == [t \in Threads |-> IF At(t, step) THEN reg[t].size ELSE 0]
Granted == Total(AskedAt("address"))
RefusedBytes == Total(AskedAt("give_back"))

(* The atomic offset does not wrap, even if every thread is refused.       *)
WordHoldsRequests ==
  \E m \in Nat : (\A s \in Sizes : s <= m) /\ Word > Region + Cardinality(Threads) * m

(* A request is made once the region is ready, which it is with its base.  *)
RegionInOrder ==
  /\ region_ready => region_base = Base
  /\ \A t \in Threads :
       /\ "ready" \in Left(t) => "region_base" \in Left(t) \/ region_base = Base
       /\ Left(t) \cap Requests # {} => region_ready
       /\ reg[t].size \in Sizes \cup {0}

(* What lies below the offset is lent, about to be lent, or about to be    *)
(* taken back; and what is lent, or about to be, lies in the region.       *)
OffsetIsTheSum ==
  ~raced => /\ offset = lent + Granted + RefusedBytes
            /\ lent + Granted <= Region

Clear(a, n, b, m) == a + n <= b \/ b + m <= a

(* As long as no refused request let another one in below it, the buffers  *)
(* and the requests that were granted lie side by side below that sum.     *)
LoansAreApart ==
  ~raced /\ ~squeezed =>
    /\ \A b \in buffers : Base <= b.at /\ b.at + b.size <= Base + lent + Granted
    /\ \A b, c \in buffers : b # c => Clear(b.at, b.size, c.at, c.size)
    /\ \A t \in Threads : At(t, "address") =>
         /\ reg[t].at + reg[t].size <= lent + Granted
         /\ \A b \in buffers : Clear(Base + reg[t].at, reg[t].size, b.at, b.size)
         /\ \A u \in Threads \ {t} : At(u, "address") =>
              Clear(reg[t].at, reg[t].size, reg[u].at, reg[u].size)

RequestTypes ==
  /\ offset \in 0 .. Word - 1
  /\ lent \in Nat
  /\ buffers \subseteq [at : Nat, size : Nat]

RequestInv == RequestTypes /\ WordHoldsRequests /\ RegionInOrder /\ OffsetIsTheSum /\ LoansAreApart

(* A total is bounded by as much for each thread.                          *)
LEMMA TotalIsBounded ==
  ASSUME NEW m \in Nat, NEW size \in [Threads -> 0 .. m]
  PROVE  IsFiniteSet(Units(size)) /\ Total(size) \in Nat /\ Total(size) <= Cardinality(Threads) * m
<1>1. IsFiniteSet(1 .. m) /\ Cardinality(1 .. m) = m
  BY FS_Interval
<1>2. IsFiniteSet(Threads \X (1 .. m)) /\ Cardinality(Threads \X (1 .. m)) = Cardinality(Threads) * m
  BY <1>1, FS_Product, ThreadsAssumption
<1>3. Units(size) \in SUBSET (Threads \X (1 .. m))
  <2> SUFFICES ASSUME NEW u \in Threads \X Nat, 1 <= u[2], u[2] <= size[u[1]]
               PROVE  u \in Threads \X (1 .. m)
    BY DEF Units
  <2>1. u[1] \in Threads /\ u[2] \in Nat /\ u = <<u[1], u[2]>>
    OBVIOUS
  <2>2. u[2] \in 1 .. m
    BY <2>1
  <2>3. QED
    BY <2>1, <2>2
<1>4. IsFiniteSet(Units(size)) /\ Cardinality(Units(size)) <= Cardinality(Threads \X (1 .. m))
  BY <1>2, <1>3, FS_Subset
<1>5. QED
  BY <1>2, <1>4, FS_CardinalityType DEF Total

(* Nothing asked makes nothing.                                            *)
LEMMA TotalOfNothing ==
  ASSUME NEW size \in [Threads -> Nat], \A t \in Threads : size[t] = 0
  PROVE  Total(size) = 0
<1>1. Units(size) = {}
  BY DEF Units
<1>2. QED
  BY <1>1, FS_EmptySet DEF Total

(* What one more thread asks is added to the total.                        *)
LEMMA TotalOfOneMore ==
  ASSUME NEW m \in Nat, NEW f \in [Threads -> 0 .. m], NEW g \in [Threads -> 0 .. m],
         NEW t \in Threads, f[t] = 0, \A u \in Threads \ {t} : g[u] = f[u]
  PROVE  Total(g) = Total(f) + g[t]
<1> DEFINE more == {t} \X (1 .. g[t])
<1>1. IsFiniteSet(1 .. g[t]) /\ Cardinality(1 .. g[t]) = g[t]
  BY FS_Interval
<1>2. IsFiniteSet({t}) /\ Cardinality({t}) = 1
  BY FS_Singleton
<1>3. IsFiniteSet(more) /\ Cardinality(more) = g[t]
  BY <1>1, <1>2, FS_Product
<1>4. IsFiniteSet(Units(f)) /\ Total(f) \in Nat
  BY TotalIsBounded
<1>5. Units(g) = Units(f) \cup more
  <2>1. ASSUME NEW u \in Threads \X Nat
        PROVE  u \in Units(g) <=> u \in Units(f) \/ u \in more
    <3>1. u[1] \in Threads /\ u[2] \in Nat /\ u = <<u[1], u[2]>>
      OBVIOUS
    <3>2. CASE u[1] = t
      <4>1. u \in more <=> u[2] \in 1 .. g[t]
        BY <3>1, <3>2
      <4>2. u \notin Units(f)
        BY <3>1, <3>2 DEF Units
      <4>3. QED
        BY <3>1, <3>2, <4>1, <4>2 DEF Units
    <3>3. CASE u[1] # t
      <4>1. u \notin more
        BY <3>1, <3>3
      <4>2. g[u[1]] = f[u[1]]
        BY <3>1, <3>3
      <4>3. QED
        BY <3>1, <4>1, <4>2 DEF Units
    <3>4. QED
      BY <3>2, <3>3
  <2>2. Units(g) \subseteq Threads \X Nat /\ Units(f) \subseteq Threads \X Nat /\ more \subseteq Threads \X Nat
    BY DEF Units
  <2>3. QED
    BY <2>1, <2>2
<1>6. Units(f) \cap more = {}
  <2> SUFFICES ASSUME NEW u \in Units(f), u \in more PROVE FALSE
    OBVIOUS
  <2>1. u[1] = t /\ 1 <= u[2] /\ u[2] <= f[u[1]] /\ u[2] \in Nat
    BY DEF Units
  <2>2. QED
    BY <2>1
<1> HIDE DEF more
<1>7. Cardinality(Units(f) \cup more) = Cardinality(Units(f)) + Cardinality(more) - 0
  <2>1. Cardinality(Units(f) \cup more)
          = Cardinality(Units(f)) + Cardinality(more) - Cardinality(Units(f) \cap more)
    BY <1>3, <1>4, FS_Union
  <2>2. QED
    BY <1>6, <2>1, FS_EmptySet
<1>8. Total(g) = Total(f) + g[t] - 0
  BY <1>3, <1>5, <1>7 DEF Total
<1>9. Total(f) \in Int /\ g[t] \in Int
  BY <1>4
<1>10. QED
  BY ONLY <1>8, <1>9

(* What a step of a thread does to what is asked.                          *)
LEMMA AskedNext ==
  ASSUME IInv, NEW t \in Threads, NEW rest, todo' = [todo EXCEPT ![t] = rest],
         NEW l, reg' = [reg EXCEPT ![t] = l], NEW step
  PROVE  /\ AskedAt(step)' = [AskedAt(step) EXCEPT ![t] = IF rest # <<>> /\ Head(rest) = step THEN l.size ELSE 0]
         /\ reg'[t] = l /\ Left(t)' = StepsIn(rest)
         /\ At(t, step)' <=> rest # <<>> /\ Head(rest) = step
         /\ \A u \in Threads \ {t} :
              (At(u, step)' <=> At(u, step)) /\ reg'[u] = reg[u] /\ Left(u)' = Left(u)
<1>1. DOMAIN todo = Threads /\ DOMAIN reg = Threads
  BY DEF IInv, ProgramsAreOrdered, Typed
<1>2. /\ todo'[t] = rest /\ reg'[t] = l
      /\ \A u \in Threads \ {t} : todo'[u] = todo[u] /\ reg'[u] = reg[u]
  BY <1>1
<1>3. /\ At(t, step)' <=> rest # <<>> /\ Head(rest) = step
      /\ \A u \in Threads \ {t} : At(u, step)' <=> At(u, step)
  BY <1>2 DEF At
<1>4. AskedAt(step)' = [AskedAt(step) EXCEPT ![t] = IF rest # <<>> /\ Head(rest) = step THEN l.size ELSE 0]
  <2>1. /\ AskedAt(step)' = [u \in Threads |-> IF At(u, step)' THEN reg'[u].size ELSE 0]
        /\ AskedAt(step) = [u \in Threads |-> IF At(u, step) THEN reg[u].size ELSE 0]
    BY DEF AskedAt
  <2>2. \A u \in Threads :
          (IF At(u, step)' THEN reg'[u].size ELSE 0)
            = (IF u = t THEN (IF rest # <<>> /\ Head(rest) = step THEN l.size ELSE 0)
                        ELSE IF At(u, step) THEN reg[u].size ELSE 0)
    BY <1>2, <1>3
  <2>3. QED
    BY <2>1, <2>2
<1>5. Left(t)' = StepsIn(rest) /\ \A u \in Threads \ {t} : Left(u)' = Left(u)
  BY <1>2 DEF Left
<1>6. QED
  BY <1>2, <1>3, <1>4, <1>5

(* The base is set before the region is said to be ready, and only then    *)
(* are requests made.                                                      *)
LEMMA RegionStaysInOrder ==
  ASSUME IInv, RegionInOrder, NEW t \in Threads, NEW rest, todo' = [todo EXCEPT ![t] = rest],
         NEW l, reg' = [reg EXCEPT ![t] = l], l.size \in Sizes \cup {0},
         region_base = Base => region_base' = Base,
         region_ready => region_ready',
         region_ready' => region_base' = Base,
         "ready" \in StepsIn(rest) => "region_base" \in StepsIn(rest) \/ region_base' = Base,
         StepsIn(rest) \cap Requests # {} => region_ready'
  PROVE  RegionInOrder'
<1>1. reg'[t] = l /\ Left(t)' = StepsIn(rest)
      /\ \A u \in Threads \ {t} : reg'[u] = reg[u] /\ Left(u)' = Left(u)
  BY AskedNext
<1>2. QED
  BY <1>1 DEF RegionInOrder

(* A step that is about anything but the region.                           *)
LEMMA QuietStepsKeepRequests ==
  ASSUME IInv, RequestInv, NEW t \in Threads, NEW rest, todo' = [todo EXCEPT ![t] = rest],
         NEW l, reg' = [reg EXCEPT ![t] = l],
         ~At(t, "address"), ~At(t, "give_back"),
         rest = <<>> \/ Head(rest) \notin {"address", "give_back"},
         UNCHANGED <<offset, buffers, lent, squeezed, raced>>, RegionInOrder'
  PROVE  RequestInv'
<1>1. \A step \in {"address", "give_back"} :
        /\ ~At(t, step)' /\ AskedAt(step)[t] = 0
        /\ AskedAt(step)' = [AskedAt(step) EXCEPT ![t] = 0]
        /\ \A u \in Threads \ {t} : (At(u, step)' <=> At(u, step)) /\ reg'[u] = reg[u]
  <2> SUFFICES ASSUME NEW step \in {"address", "give_back"}
               PROVE  /\ ~At(t, step)' /\ AskedAt(step)[t] = 0
                      /\ AskedAt(step)' = [AskedAt(step) EXCEPT ![t] = 0]
                      /\ \A u \in Threads \ {t} : (At(u, step)' <=> At(u, step)) /\ reg'[u] = reg[u]
    OBVIOUS
  <2>1. ~(rest # <<>> /\ Head(rest) = step)
    OBVIOUS
  <2>2. AskedAt(step)[t] = 0
    BY DEF AskedAt
  <2>3. QED
    BY <2>1, <2>2, AskedNext
<1>2. \A step \in {"address", "give_back"} : AskedAt(step)' = AskedAt(step)
  <2> SUFFICES ASSUME NEW step \in {"address", "give_back"} PROVE AskedAt(step)' = AskedAt(step)
    OBVIOUS
  <2>1. AskedAt(step)[t] = 0 /\ AskedAt(step)' = [AskedAt(step) EXCEPT ![t] = 0]
    BY <1>1
  <2>2. AskedAt(step) = [u \in Threads |-> AskedAt(step)[u]]
    BY DEF AskedAt
  <2> HIDE DEF AskedAt
  <2>3. QED
    BY <2>1, <2>2
<1>3. Granted' = Granted /\ RefusedBytes' = RefusedBytes
  BY <1>2 DEF Granted, RefusedBytes
<1>4. OffsetIsTheSum'
  BY <1>3 DEF RequestInv, OffsetIsTheSum
<1>5. LoansAreApart'
  BY <1>1, <1>3 DEF RequestInv, LoansAreApart
<1>6. QED
  BY <1>4, <1>5 DEF RequestInv, RequestTypes

(* A request stands alone in its call.                                     *)
LEMMA RequestsStandAlone ==
  ASSUME IInv, ProgramsAreStaged, NEW t \in Threads, NEW h \in Requests, At(t, h)
  PROVE  Tail(todo[t]) = <<>> /\ Left(t) = {h} /\ (RegionInOrder => region_ready /\ region_base = Base)
<1>1. todo[t] # <<>> /\ Head(todo[t]) = h /\ Program(todo[t])
  BY DEF At, ProgramsAreStaged
<1>2. Tail(todo[t]) = <<>> /\ Left(t) = {h} \cup StepsIn(Tail(todo[t]))
  BY <1>1, TailIsProgram DEF Left
<1>3. Left(t) = {h}
  BY <1>2 DEF StepsIn
<1>4. QED
  BY <1>2, <1>3 DEF RegionInOrder

(* A step that goes on with the call keeps the order.                      *)
LEMMA ProceedKeepsRegion ==
  ASSUME IInv, ProgramsAreStaged, RegionInOrder, NEW t \in Threads, NEW h, At(t, h), Proceed(t),
         region_base = Base \/ h = "region_base" => region_base' = Base,
         region_ready => region_ready',
         region_ready' => region_ready \/ h = "ready"
  PROVE  RegionInOrder'
<1> DEFINE rest == Tail(todo[t])
           l == IF rest = <<>> THEN Free ELSE reg[t]
<1>1. todo[t] # <<>> /\ Head(todo[t]) = h /\ Program(todo[t])
  BY DEF At, ProgramsAreStaged
<1>2. /\ Left(t) = {h} \cup StepsIn(rest) /\ StepsIn(rest) \cap Requests = {}
      /\ \A k \in StepsIn(rest) : Stage(k) # 0 => Stage(h) < Stage(k)
  BY <1>1, TailIsProgram DEF Left
<1>3. todo' = [todo EXCEPT ![t] = rest] /\ reg' = [reg EXCEPT ![t] = l]
  BY DEF Proceed, Go
<1>4. l.size \in Sizes \cup {0}
  BY DEF RegionInOrder, Free
<1>5. h = "ready" => region_base = Base
  <2> SUFFICES ASSUME h = "ready" PROVE region_base = Base
    OBVIOUS
  <2>1. "ready" \in Left(t) /\ "region_base" \notin StepsIn(rest)
    BY <1>2, StageValues
  <2>2. "region_base" \notin Left(t)
    BY <1>2, <2>1
  <2>3. QED
    BY <2>1, <2>2 DEF RegionInOrder
<1>6. region_ready' => region_base' = Base
  BY <1>5 DEF RegionInOrder
<1>7. "ready" \in StepsIn(rest) => "region_base" \in StepsIn(rest) \/ region_base' = Base
  BY <1>2 DEF RegionInOrder
<1> HIDE DEF rest, l
<1>8. QED
  BY <1>2, <1>3, <1>4, <1>6, <1>7, RegionStaysInOrder

(* A step that is about anything but the region goes on with the call.     *)
LEMMA ProceedKeepsRequests ==
  ASSUME IInv, ProgramsAreStaged, RequestInv, NEW t \in Threads, NEW h, At(t, h), Proceed(t),
         h \notin {"address", "give_back", "ready"},
         UNCHANGED <<offset, buffers, lent, squeezed, raced, region_ready>>,
         region_base = Base \/ h = "region_base" => region_base' = Base
  PROVE  RequestInv'
<1> DEFINE rest == Tail(todo[t])
           l == IF rest = <<>> THEN Free ELSE reg[t]
<1>1. todo[t] # <<>> /\ Head(todo[t]) = h /\ Program(todo[t])
  BY DEF At, ProgramsAreStaged
<1>2. StepsIn(rest) \cap Requests = {} /\ Ordered(rest)
  BY <1>1, TailIsProgram
<1>3. todo' = [todo EXCEPT ![t] = rest] /\ reg' = [reg EXCEPT ![t] = l]
  BY DEF Proceed, Go
<1>4. rest = <<>> \/ Head(rest) \notin {"address", "give_back"}
  BY <1>2, HeadIsIn DEF Requests
<1>5. RegionInOrder'
  BY ProceedKeepsRegion DEF RequestInv
<1>6. ~At(t, "address") /\ ~At(t, "give_back")
  BY DEF At
<1> HIDE DEF rest, l
<1>7. QED
  BY <1>3, <1>4, <1>5, <1>6, QuietStepsKeepRequests

(* The region is ready when its base is set.                               *)
LEMMA ReadyKeepsRequests ==
  ASSUME IInv, ProgramsAreStaged, RequestInv, NEW t \in Threads, RegionReady(t)
  PROVE  RequestInv'
<1> DEFINE rest == Tail(todo[t])
           l == IF rest = <<>> THEN Free ELSE reg[t]
<1>1. /\ At(t, "ready") /\ Proceed(t) /\ region_ready' = TRUE
      /\ UNCHANGED <<region_base, offset, buffers, lent, squeezed, raced>>
  BY DEF RegionReady
<1>2. StepsIn(rest) \cap Requests = {} /\ Ordered(rest)
  BY <1>1, TailIsProgram DEF At, ProgramsAreStaged
<1>3. todo' = [todo EXCEPT ![t] = rest] /\ reg' = [reg EXCEPT ![t] = l]
  BY <1>1 DEF Proceed, Go
<1>4. rest = <<>> \/ Head(rest) \notin {"address", "give_back"}
  BY <1>2, HeadIsIn DEF Requests
<1>5. RegionInOrder'
  BY <1>1, ProceedKeepsRegion DEF RequestInv
<1>6. ~At(t, "address") /\ ~At(t, "give_back")
  BY <1>1 DEF At
<1> HIDE DEF rest, l
<1>7. QED
  BY <1>1, <1>3, <1>4, <1>5, <1>6, QuietStepsKeepRequests

(* A call that is about no request, or goes on with none under way.        *)
LEMMA MovesKeepRequests ==
  ASSUME IInv, ProgramsAreStaged, RequestInv, NEW t \in Threads, NEW rest, Ordered(rest),
         NEW l, todo' = [todo EXCEPT ![t] = rest], reg' = [reg EXCEPT ![t] = l],
         l.size \in Sizes \cup {0}, UNCHANGED dma,
         ~At(t, "address"), ~At(t, "give_back"), StepsIn(rest) \cap {"address", "give_back"} = {},
         "take" \in StepsIn(rest) => region_ready,
         "ready" \in StepsIn(rest) => "region_base" \in StepsIn(rest) \/ region_base = Base
  PROVE  RequestInv'
<1>1. UNCHANGED <<region_base, region_ready, offset, buffers, lent, squeezed, raced>>
  BY DEF dma
<1>2. RegionInOrder'
  <2>1. StepsIn(rest) \cap Requests # {} => region_ready
    BY DEF Requests
  <2>2. region_ready => region_base = Base
    BY DEF RequestInv, RegionInOrder
  <2>3. QED
    BY <1>1, <2>1, <2>2, RegionStaysInOrder DEF RequestInv
<1>3. rest = <<>> \/ Head(rest) \notin {"address", "give_back"}
  BY HeadIsIn
<1>4. QED
  BY <1>1, <1>2, <1>3, QuietStepsKeepRequests

(* Sizes are numbers.                                                      *)
LEMMA SizesAreBounded ==
  ASSUME NEW m \in Nat, \A s \in Sizes : s <= m
  PROVE  \A s \in Sizes \cup {0} : s \in 0 .. m
<1> SUFFICES ASSUME NEW s \in Sizes \cup {0} PROVE s \in 0 .. m
  OBVIOUS
<1>1. CASE s \in Sizes
  <2>1. s \in Nat /\ s <= m
    BY <1>1, SizesAssumption
  <2>2. QED
    BY <2>1
<1>2. CASE s = 0
  BY <1>2
<1>3. QED
  BY <1>1, <1>2

(* What is asked is a size for each thread, and none where no step is.     *)
LEMMA AskedIsTyped ==
  ASSUME RegionInOrder, NEW m \in Nat, \A s \in Sizes : s <= m, NEW step
  PROVE  /\ AskedAt(step) \in [Threads -> 0 .. m]
         /\ \A t \in Threads : ~At(t, step) => AskedAt(step)[t] = 0
         /\ \A t \in Threads : At(t, step) => AskedAt(step)[t] = reg[t].size
<1>1. \A t \in Threads : reg[t].size \in 0 .. m
  BY SizesAreBounded DEF RegionInOrder
<1>2. QED
  BY <1>1 DEF AskedAt

(* The totals of what is under way.                                        *)
LEMMA TotalsAreTyped ==
  ASSUME RequestInv
  PROVE  /\ Granted \in Nat /\ RefusedBytes \in Nat
         /\ (\A t \in Threads : ~At(t, "address")) => Granted = 0
         /\ (\A t \in Threads : ~At(t, "give_back")) => RefusedBytes = 0
<1>1. PICK m \in Nat : \A s \in Sizes : s <= m
  BY DEF RequestInv, WordHoldsRequests
<1>2. ASSUME NEW step
      PROVE  /\ Total(AskedAt(step)) \in Nat
             /\ (\A t \in Threads : ~At(t, step)) => Total(AskedAt(step)) = 0
  <2>1. /\ AskedAt(step) \in [Threads -> 0 .. m]
        /\ \A t \in Threads : ~At(t, step) => AskedAt(step)[t] = 0
    BY <1>1, AskedIsTyped DEF RequestInv
  <2>2. Total(AskedAt(step)) \in Nat
    BY <2>1, TotalIsBounded
  <2>3. AskedAt(step) \in [Threads -> Nat]
    BY <2>1
  <2>4. ASSUME \A t \in Threads : ~At(t, step) PROVE Total(AskedAt(step)) = 0
    BY <2>1, <2>3, <2>4, TotalOfNothing
  <2>5. QED
    BY <2>2, <2>4
<1>3. QED
  BY <1>2 DEF Granted, RefusedBytes

(* A thread that was at a step leaves it: its size leaves the total.       *)
LEMMA LeavingAStep ==
  ASSUME IInv, RequestInv, NEW t \in Threads, NEW rest, todo' = [todo EXCEPT ![t] = rest],
         NEW l, reg' = [reg EXCEPT ![t] = l], NEW step, At(t, step),
         ~(rest # <<>> /\ Head(rest) = step)
  PROVE  Total(AskedAt(step)) = Total(AskedAt(step)') + reg[t].size /\ Total(AskedAt(step)') \in Nat
<1> DEFINE f == AskedAt(step)
           g == [f EXCEPT ![t] = 0]
<1>1. PICK m \in Nat : \A s \in Sizes : s <= m
  BY DEF RequestInv, WordHoldsRequests
<1>2. f \in [Threads -> 0 .. m] /\ f[t] = reg[t].size
  BY <1>1, AskedIsTyped DEF RequestInv
<1>3. AskedAt(step)' = g
  BY AskedNext
<1> HIDE DEF f
<1>4. g \in [Threads -> 0 .. m] /\ g[t] = 0 /\ \A u \in Threads \ {t} : f[u] = g[u]
  BY <1>2
<1> HIDE DEF g
<1>5. Total(f) = Total(g) + f[t] /\ Total(g) \in Nat
  BY <1>2, <1>4, TotalOfOneMore, TotalIsBounded
<1>6. QED
  BY <1>2, <1>3, <1>5 DEF f

(* A thread comes to a step: its size joins the total.                     *)
LEMMA ComingToAStep ==
  ASSUME IInv, RequestInv, NEW t \in Threads, NEW rest, todo' = [todo EXCEPT ![t] = rest],
         NEW l, reg' = [reg EXCEPT ![t] = l], NEW step, ~At(t, step),
         rest # <<>>, Head(rest) = step, l.size \in Sizes \cup {0}
  PROVE  Total(AskedAt(step)') = Total(AskedAt(step)) + l.size
<1> DEFINE f == AskedAt(step)
           g == [f EXCEPT ![t] = l.size]
<1>1. PICK m \in Nat : \A s \in Sizes : s <= m
  BY DEF RequestInv, WordHoldsRequests
<1>2. f \in [Threads -> 0 .. m] /\ f[t] = 0
  BY <1>1, AskedIsTyped DEF RequestInv
<1>3. AskedAt(step)' = g
  BY AskedNext
<1>4. l.size \in 0 .. m
  BY <1>1, SizesAreBounded
<1> HIDE DEF f
<1>5. g \in [Threads -> 0 .. m] /\ g[t] = l.size /\ \A u \in Threads \ {t} : g[u] = f[u]
  BY <1>2, <1>4
<1> HIDE DEF g
<1>6. Total(g) = Total(f) + g[t]
  BY <1>2, <1>5, TotalOfOneMore
<1>7. QED
  BY <1>3, <1>5, <1>6 DEF f

(* A thread that neither was at a step nor comes to it changes no total.   *)
LEMMA PassingAStep ==
  ASSUME IInv, NEW t \in Threads, NEW rest, todo' = [todo EXCEPT ![t] = rest],
         NEW l, reg' = [reg EXCEPT ![t] = l], NEW step, ~At(t, step),
         ~(rest # <<>> /\ Head(rest) = step)
  PROVE  AskedAt(step)' = AskedAt(step)
<1>1. AskedAt(step)' = [AskedAt(step) EXCEPT ![t] = 0]
  BY AskedNext
<1>2. AskedAt(step)[t] = 0 /\ AskedAt(step) = [u \in Threads |-> AskedAt(step)[u]]
  BY DEF AskedAt
<1>3. QED
  BY <1>1, <1>2

(* What is asked of a full region does not overflow the word.              *)
LEMMA OffsetDoesNotWrap ==
  ASSUME IInv, RequestInv, ~raced, NEW t \in Threads, At(t, "take")
  PROVE  offset + reg[t].size \in 0 .. Word - 1
<1> DEFINE f == AskedAt("give_back")
           g == [f EXCEPT ![t] = reg[t].size]
<1>1. PICK m \in Nat : (\A s \in Sizes : s <= m) /\ Word > Region + Cardinality(Threads) * m
  BY DEF RequestInv, WordHoldsRequests
<1>2. ~At(t, "give_back")
  BY DEF At
<1>3. f \in [Threads -> 0 .. m] /\ f[t] = 0
  BY <1>1, <1>2, AskedIsTyped DEF RequestInv
<1>4. reg[t].size \in 0 .. m
  BY <1>1, SizesAreBounded DEF RequestInv, RegionInOrder
<1> HIDE DEF f
<1>5. g \in [Threads -> 0 .. m] /\ g[t] = reg[t].size /\ \A u \in Threads \ {t} : g[u] = f[u]
  BY <1>3, <1>4
<1> HIDE DEF g
<1>6. Total(g) = Total(f) + g[t] /\ Total(g) <= Cardinality(Threads) * m
  BY <1>3, <1>5, TotalOfOneMore, TotalIsBounded
<1>7. Cardinality(Threads) * m \in Nat
  BY ThreadsAssumption, FS_CardinalityType
<1>8. RefusedBytes = Total(f) /\ RefusedBytes \in Nat /\ Granted \in Nat /\ lent \in Nat
  BY TotalsAreTyped DEF RefusedBytes, f, RequestInv, RequestTypes
<1>9. offset = lent + Granted + RefusedBytes /\ lent + Granted <= Region
  BY DEF RequestInv, OffsetIsTheSum
<1> DEFINE most == Cardinality(Threads) * m
<1>10. RefusedBytes + reg[t].size <= most /\ most \in Nat /\ Word > Region + most
  BY <1>1, <1>5, <1>6, <1>7, <1>8
<1> HIDE DEF most
<1>11. QED
  BY <1>4, <1>8, <1>9, <1>10, RegionAssumption, WordAssumption

(* A request is granted or refused: the bytes are the thread's, or are to  *)
(* be taken back.                                                          *)
LEMMA TakeKeepsRequests ==
  ASSUME IInv, ProgramsAreStaged, RequestInv, NEW t \in Threads, Take(t)
  PROVE  RequestInv'
<1> DEFINE size == reg[t].size
           fits == Fits(offset, size)
           next == IF fits THEN "address" ELSE "give_back"
           l == [reg[t] EXCEPT !.at = offset]
<1>1. /\ At(t, "take") /\ Tail(todo[t]) = <<>>
      /\ offset' = (offset + size) % Word
      /\ squeezed' = (squeezed \/ (fits /\ \E u \in Threads : At(u, "give_back")))
      /\ UNCHANGED <<region_base, region_ready, buffers, lent, raced>>
  BY RequestsStandAlone DEF Take, Requests
<1>2. region_ready /\ region_base = Base
  BY <1>1, RequestsStandAlone DEF Requests, RequestInv
<1>3. /\ <<"address">> \o <<>> = <<"address">> /\ <<"give_back">> \o <<>> = <<"give_back">>
      /\ \A h : <<h>> # <<>> /\ Head(<<h>>) = h
      /\ StepsIn(<<"address">>) = {"address"} /\ StepsIn(<<"give_back">>) = {"give_back"}
  BY DEF StepsIn
<1>4. Go(t, <<next>>, l)
  <2>1. Go(t, (IF fits THEN <<"address">> ELSE <<"give_back">>) \o <<>>, l)
    BY <1>1 DEF Take
  <2> HIDE DEF l, fits
  <2>2. QED
    BY <1>3, <2>1
<1>5. reg[t] \in Locals /\ size \in Sizes \cup {0} /\ offset \in Nat
  BY DEF IInv, Typed, RequestInv, RegionInOrder
<1>6. l.size = size /\ l.at = offset /\ l.size \in Sizes \cup {0}
  BY <1>5 DEF Locals
<1> HIDE DEF l
<1>7. todo' = [todo EXCEPT ![t] = <<next>>] /\ reg' = [reg EXCEPT ![t] = l]
  BY <1>3, <1>4 DEF Go
<1>8. RegionInOrder'
  <2>1. StepsIn(<<next>>) = {next}
    BY <1>3
  <2>2. QED
    BY <1>1, <1>2, <1>6, <1>7, <2>1, RegionStaysInOrder DEF RequestInv
<1>9. ~At(t, "address") /\ ~At(t, "give_back")
  BY <1>1 DEF At
<1>10. size \in Nat
  BY <1>5 DEF Locals
<1>11. Granted' = Granted + (IF fits THEN size ELSE 0)
  <2>1. CASE fits
    <3> DEFINE rest == <<"address">>
    <3>1. todo' = [todo EXCEPT ![t] = rest] /\ reg' = [reg EXCEPT ![t] = l]
      BY <1>7, <2>1
    <3>2. rest # <<>> /\ Head(rest) = "address"
      OBVIOUS
    <3> HIDE DEF rest, fits, next, size
    <3>3. Total(AskedAt("address")') = Total(AskedAt("address")) + l.size
      BY <1>6, <1>9, <3>1, <3>2, ComingToAStep
    <3>4. QED
      BY <1>6, <2>1, <3>3 DEF Granted
  <2>2. CASE ~fits
    <3>1. AskedAt("address")' = AskedAt("address")
      BY <1>3, <1>7, <1>9, <2>2, PassingAStep
    <3>2. QED
      BY <2>2, <3>1, TotalsAreTyped DEF Granted
  <2>3. QED
    BY <2>1, <2>2
<1>12. RefusedBytes' = RefusedBytes + (IF fits THEN 0 ELSE size)
  <2>1. CASE ~fits
    <3> DEFINE rest == <<"give_back">>
    <3>1. todo' = [todo EXCEPT ![t] = rest] /\ reg' = [reg EXCEPT ![t] = l]
      BY <1>7, <2>1
    <3>2. rest # <<>> /\ Head(rest) = "give_back"
      OBVIOUS
    <3> HIDE DEF rest, fits, next, size
    <3>3. Total(AskedAt("give_back")') = Total(AskedAt("give_back")) + l.size
      BY <1>6, <1>9, <3>1, <3>2, ComingToAStep
    <3>4. QED
      BY <1>6, <2>1, <3>3 DEF RefusedBytes
  <2>2. CASE fits
    <3>1. AskedAt("give_back")' = AskedAt("give_back")
      BY <1>3, <1>7, <1>9, <2>2, PassingAStep
    <3>2. QED
      BY <2>2, <3>1, TotalsAreTyped DEF RefusedBytes
  <2>3. QED
    BY <2>1, <2>2
<1>13. Granted \in Nat /\ RefusedBytes \in Nat /\ lent \in Nat
  BY TotalsAreTyped DEF RequestInv, RequestTypes
<1>14. ~raced => /\ offset = lent + Granted + RefusedBytes /\ lent + Granted <= Region
                 /\ offset' = offset + size
                 /\ fits => offset + size <= Region
  <2> SUFFICES ASSUME ~raced
               PROVE  /\ offset = lent + Granted + RefusedBytes /\ lent + Granted <= Region
                      /\ offset' = offset + size
                      /\ fits => offset + size <= Region
    OBVIOUS
  <2>1. offset + size \in 0 .. Word - 1
    BY <1>1, OffsetDoesNotWrap
  <2>2. (offset + size) % Word = offset + size
    BY <2>1, WordAssumption
  <2>3. QED
    BY <1>1, <2>2 DEF Fits, RequestInv, OffsetIsTheSum
<1>15. OffsetIsTheSum'
  <2> SUFFICES ASSUME ~raced' PROVE offset' = lent' + Granted' + RefusedBytes' /\ lent' + Granted' <= Region
    BY DEF OffsetIsTheSum
  <2>1. ~raced /\ lent' = lent
    BY <1>1
  <2> HIDE DEF fits, size
  <2>2. CASE fits
    BY <1>10, <1>11, <1>12, <1>13, <1>14, <2>1, <2>2, RegionAssumption
  <2>3. CASE ~fits
    BY <1>10, <1>11, <1>12, <1>13, <1>14, <2>1, <2>3, RegionAssumption
  <2>4. QED
    BY <2>2, <2>3
<1>16. /\ At(t, "address")' <=> fits
       /\ reg'[t] = l
       /\ \A u \in Threads \ {t} : (At(u, "address")' <=> At(u, "address")) /\ reg'[u] = reg[u]
  <2>1. <<next>> # <<>> /\ (Head(<<next>>) = "address" <=> fits)
    BY <1>3
  <2> HIDE DEF fits, next
  <2>2. QED
    BY <1>7, <2>1, AskedNext
<1>17. LoansAreApart'
  <2> SUFFICES ASSUME ~raced', ~squeezed'
               PROVE  /\ \A b \in buffers : Base <= b.at /\ b.at + b.size <= Base + lent + Granted'
                      /\ \A b, c \in buffers : b # c => Clear(b.at, b.size, c.at, c.size)
                      /\ \A u \in Threads : At(u, "address")' =>
                           /\ reg'[u].at + reg'[u].size <= lent + Granted'
                           /\ \A b \in buffers : Clear(Base + reg'[u].at, reg'[u].size, b.at, b.size)
                           /\ \A v \in Threads \ {u} : At(v, "address")' =>
                                Clear(reg'[u].at, reg'[u].size, reg'[v].at, reg'[v].size)
    BY <1>1 DEF LoansAreApart
  <2>1. ~raced /\ ~squeezed /\ (fits => \A u \in Threads : ~At(u, "give_back"))
    BY <1>1
  <2>2. /\ \A b \in buffers : Base <= b.at /\ b.at + b.size <= Base + lent + Granted
        /\ \A b, c \in buffers : b # c => Clear(b.at, b.size, c.at, c.size)
        /\ \A u \in Threads : At(u, "address") =>
             /\ reg[u].at + reg[u].size <= lent + Granted
             /\ \A b \in buffers : Clear(Base + reg[u].at, reg[u].size, b.at, b.size)
             /\ \A v \in Threads \ {u} : At(v, "address") =>
                  Clear(reg[u].at, reg[u].size, reg[v].at, reg[v].size)
    BY <2>1 DEF RequestInv, LoansAreApart
  <2>3. /\ \A b \in buffers : b.at \in Nat /\ b.size \in Nat
        /\ \A u \in Threads : reg[u].at \in Nat /\ reg[u].size \in Nat
        /\ Base \in Nat
    BY RegionAssumption DEF RequestInv, RequestTypes, IInv, Typed, Locals, Base
  <2>4. CASE ~fits
    BY <1>11, <1>13, <1>16, <2>2, <2>4
  <2>5. CASE fits
    <3>1. RefusedBytes = 0 /\ offset = lent + Granted /\ Granted' = Granted + size
      BY <1>11, <1>13, <1>14, <2>1, <2>5, TotalsAreTyped
    <3>2. \A b \in buffers : Base <= b.at /\ b.at + b.size <= Base + lent + Granted'
      BY <1>10, <1>13, <2>2, <2>3, <3>1
    <3>3. \A b \in buffers : Clear(Base + l.at, l.size, b.at, b.size)
      BY <1>6, <1>10, <1>13, <2>2, <2>3, <3>1 DEF Clear
    <3>4. \A u \in Threads \ {t} : At(u, "address") =>
            /\ reg[u].at + reg[u].size <= lent + Granted'
            /\ Clear(reg[u].at, reg[u].size, l.at, l.size)
            /\ Clear(l.at, l.size, reg[u].at, reg[u].size)
      BY <1>6, <1>10, <1>13, <2>2, <2>3, <3>1 DEF Clear
    <3>5. l.at + l.size <= lent + Granted'
      BY <1>6, <1>10, <1>13, <3>1
    <3>6. QED
      BY <1>16, <2>2, <3>2, <3>3, <3>4, <3>5
  <2>6. QED
    BY <2>4, <2>5
<1>18. RequestTypes'
  <2>1. Word \in Nat \ {0} /\ offset + size \in Int
    BY <1>5, <1>10, WordAssumption, RegionAssumption
  <2>2. (offset + size) % Word \in 0 .. Word - 1
    BY <2>1
  <2>3. QED
    BY <1>1, <2>2 DEF RequestInv, RequestTypes
<1>19. QED
  BY <1>8, <1>15, <1>17, <1>18 DEF RequestInv

(* A request's last step: it is over.                                      *)
LEMMA RequestsEnd ==
  ASSUME IInv, ProgramsAreStaged, RequestInv, NEW t \in Threads, NEW h \in {"address", "give_back"},
         At(t, h), Proceed(t), UNCHANGED <<region_base, region_ready>>
  PROVE  /\ RegionInOrder' /\ region_base = Base
         /\ Total(AskedAt(h)) = Total(AskedAt(h)') + reg[t].size /\ Total(AskedAt(h)') \in Nat
         /\ \A k \in {"address", "give_back"} \ {h} : AskedAt(k)' = AskedAt(k)
         /\ \A k : ~At(t, k)'
         /\ \A u \in Threads \ {t}, k \in {"address"} : (At(u, k)' <=> At(u, k)) /\ reg'[u] = reg[u]
<1>1. Tail(todo[t]) = <<>> /\ region_ready /\ region_base = Base
  BY RequestsStandAlone DEF Requests, RequestInv
<1>2. todo' = [todo EXCEPT ![t] = <<>>] /\ reg' = [reg EXCEPT ![t] = Free]
  BY <1>1 DEF Proceed, Go
<1>3. RegionInOrder'
  BY ProceedKeepsRegion DEF RequestInv
<1>4. Total(AskedAt(h)) = Total(AskedAt(h)') + reg[t].size /\ Total(AskedAt(h)') \in Nat
  BY <1>2, LeavingAStep
<1>5. \A k \in {"address", "give_back"} \ {h} : AskedAt(k)' = AskedAt(k)
  <2> SUFFICES ASSUME NEW k \in {"address", "give_back"} \ {h} PROVE AskedAt(k)' = AskedAt(k)
    OBVIOUS
  <2>1. ~At(t, k)
    BY DEF At
  <2>2. QED
    BY <1>2, <2>1, PassingAStep
<1>6. \A k : ~At(t, k)'
  BY <1>2 DEF At, IInv, ProgramsAreOrdered
<1>7. \A u \in Threads \ {t}, k \in {"address"} : (At(u, k)' <=> At(u, k)) /\ reg'[u] = reg[u]
  BY <1>2, AskedNext
<1>8. QED
  BY <1>1, <1>3, <1>4, <1>5, <1>6, <1>7

(* A refused request is taken back.                                        *)
LEMMA GiveBackKeepsRequests ==
  ASSUME IInv, ProgramsAreStaged, RequestInv, NEW t \in Threads, GiveBack(t)
  PROVE  RequestInv'
<1>1. /\ At(t, "give_back") /\ Proceed(t) /\ offset' = (offset - reg[t].size) % Word
      /\ UNCHANGED <<region_base, region_ready, buffers, lent, squeezed, raced>>
  BY DEF GiveBack
<1>2. /\ RegionInOrder'
      /\ Total(AskedAt("give_back")) = Total(AskedAt("give_back")') + reg[t].size
      /\ Total(AskedAt("give_back")') \in Nat
      /\ AskedAt("address")' = AskedAt("address")
      /\ ~At(t, "address")'
      /\ \A u \in Threads \ {t} : (At(u, "address")' <=> At(u, "address")) /\ reg'[u] = reg[u]
  BY <1>1, RequestsEnd
<1>3. Granted' = Granted /\ RefusedBytes = RefusedBytes' + reg[t].size /\ RefusedBytes' \in Nat
  BY <1>2 DEF Granted, RefusedBytes
<1>4. Granted \in Nat /\ lent \in Nat /\ reg[t].size \in Nat /\ offset \in Nat
  BY TotalsAreTyped DEF RequestInv, RequestTypes, IInv, Typed, Locals
<1>5. OffsetIsTheSum'
  <2> SUFFICES ASSUME ~raced PROVE offset' = lent' + Granted' + RefusedBytes' /\ lent' + Granted' <= Region
    BY <1>1 DEF OffsetIsTheSum
  <2>1. offset = lent + Granted + RefusedBytes /\ lent + Granted <= Region
    BY DEF RequestInv, OffsetIsTheSum
  <2>2. offset - reg[t].size = lent + Granted + RefusedBytes'
    BY <1>3, <1>4, <2>1
  <2>3. lent + Granted + RefusedBytes' \in 0 .. Word - 1
    <3>1. offset \in 0 .. Word - 1
      BY DEF RequestInv, RequestTypes
    <3>2. lent + Granted + RefusedBytes' \in Nat
      <4>1. lent + Granted \in Nat /\ RefusedBytes' \in Nat
        BY <1>3, <1>4
      <4>2. QED
        BY <4>1
    <3>3. lent + Granted + RefusedBytes' <= offset
      BY <1>4, <2>2, <3>2
    <3>4. QED
      BY <3>1, <3>2, <3>3, WordAssumption
  <2>4. (lent + Granted + RefusedBytes') % Word = lent + Granted + RefusedBytes'
    BY <2>3, WordAssumption
  <2>5. QED
    BY <1>1, <1>3, <2>1, <2>2, <2>4
<1>6. LoansAreApart'
  BY <1>1, <1>2, <1>3 DEF RequestInv, LoansAreApart
<1>7. RequestTypes'
  <2>1. Word \in Nat \ {0} /\ offset - reg[t].size \in Int
    BY <1>4, WordAssumption, RegionAssumption
  <2>2. (offset - reg[t].size) % Word \in 0 .. Word - 1
    BY <2>1
  <2>3. QED
    BY <1>1, <2>2 DEF RequestInv, RequestTypes
<1>8. QED
  BY <1>2, <1>5, <1>6, <1>7 DEF RequestInv

(* A granted request becomes a buffer.                                     *)
LEMMA AddressKeepsRequests ==
  ASSUME IInv, ProgramsAreStaged, RequestInv, NEW t \in Threads, Address(t)
  PROVE  RequestInv'
<1> DEFINE size == reg[t].size
           at == reg[t].at
           new == [at |-> (Base + at) % Word, size |-> size]
<1>1. /\ At(t, "address") /\ Proceed(t)
      /\ buffers' = buffers \cup {[at |-> (region_base + at) % Word, size |-> size]}
      /\ lent' = lent + size
      /\ UNCHANGED <<region_base, region_ready, offset, squeezed, raced>>
  BY DEF Address, Lend
<1>2. /\ RegionInOrder' /\ region_base = Base
      /\ Total(AskedAt("address")) = Total(AskedAt("address")') + size
      /\ Total(AskedAt("address")') \in Nat
      /\ AskedAt("give_back")' = AskedAt("give_back")
      /\ ~At(t, "address")'
      /\ \A u \in Threads \ {t} : (At(u, "address")' <=> At(u, "address")) /\ reg'[u] = reg[u]
  BY <1>1, RequestsEnd
<1>3. RefusedBytes' = RefusedBytes /\ Granted = Granted' + size /\ Granted' \in Nat
  BY <1>2 DEF Granted, RefusedBytes
<1>4. RefusedBytes \in Nat /\ lent \in Nat /\ size \in Nat /\ at \in Nat /\ Base \in Nat /\ Word \in Nat \ {0}
  BY TotalsAreTyped, RegionAssumption, WordAssumption
     DEF RequestInv, RequestTypes, IInv, Typed, Locals, Base
<1>5. buffers' = buffers \cup {new} /\ new \in [at : Nat, size : Nat]
  <2>1. (Base + at) % Word \in Nat
    BY <1>4
  <2>2. QED
    BY <1>1, <1>2, <1>4, <2>1
<1>6. RequestTypes'
  BY <1>1, <1>4, <1>5 DEF RequestInv, RequestTypes
<1>7. lent' + Granted' = lent + Granted
  BY <1>1, <1>3, <1>4
<1>8. OffsetIsTheSum'
  BY <1>1, <1>3, <1>7 DEF RequestInv, OffsetIsTheSum
<1>9. LoansAreApart'
  <2> SUFFICES ASSUME ~raced, ~squeezed
               PROVE  /\ \A b \in buffers' : Base <= b.at /\ b.at + b.size <= Base + lent' + Granted'
                      /\ \A b, c \in buffers' : b # c => Clear(b.at, b.size, c.at, c.size)
                      /\ \A u \in Threads : At(u, "address")' =>
                           /\ reg'[u].at + reg'[u].size <= lent' + Granted'
                           /\ \A b \in buffers' : Clear(Base + reg'[u].at, reg'[u].size, b.at, b.size)
                           /\ \A v \in Threads \ {u} : At(v, "address")' =>
                                Clear(reg'[u].at, reg'[u].size, reg'[v].at, reg'[v].size)
    BY <1>1 DEF LoansAreApart
  <2>1. /\ \A b \in buffers : Base <= b.at /\ b.at + b.size <= Base + lent + Granted
        /\ \A b, c \in buffers : b # c => Clear(b.at, b.size, c.at, c.size)
        /\ \A u \in Threads : At(u, "address") =>
             /\ reg[u].at + reg[u].size <= lent + Granted
             /\ \A b \in buffers : Clear(Base + reg[u].at, reg[u].size, b.at, b.size)
             /\ \A v \in Threads \ {u} : At(v, "address") =>
                  Clear(reg[u].at, reg[u].size, reg[v].at, reg[v].size)
    BY DEF RequestInv, LoansAreApart
  <2>2. /\ \A b \in buffers : b.at \in Nat /\ b.size \in Nat
        /\ \A u \in Threads : reg[u].at \in Nat /\ reg[u].size \in Nat
        /\ Granted \in Nat
    BY TotalsAreTyped DEF RequestInv, RequestTypes, IInv, Typed, Locals
  <2>3. at + size <= lent + Granted /\ lent + Granted <= Region
    BY <1>1, <2>1 DEF RequestInv, OffsetIsTheSum
  <2>4. (Base + at) % Word = Base + at
    <3>1. Base + at \in 0 .. Word - 1
      BY <1>4, <2>2, <2>3, WordAssumption, RegionAssumption DEF Base
    <3>2. QED
      BY <1>4, <3>1
  <2>5. new.at = Base + at /\ new.size = size
    BY <2>4
  <2> HIDE DEF new
  <2>6. Base <= new.at /\ new.at + new.size <= Base + lent + Granted
    BY <1>4, <2>2, <2>3, <2>5
  <2>7. \A b \in buffers : Clear(new.at, new.size, b.at, b.size) /\ Clear(b.at, b.size, new.at, new.size)
    BY <1>1, <2>1, <2>5 DEF Clear
  <2>8. \A u \in Threads \ {t} : At(u, "address") =>
          Clear(Base + reg[u].at, reg[u].size, new.at, new.size)
    <3> SUFFICES ASSUME NEW u \in Threads \ {t}, At(u, "address")
                 PROVE  Clear(Base + reg[u].at, reg[u].size, new.at, new.size)
      OBVIOUS
    <3>1. Clear(reg[u].at, reg[u].size, at, size)
      BY <1>1, <2>1
    <3>2. QED
      BY <1>4, <2>2, <2>5, <3>1 DEF Clear
  <2>9. \A b \in buffers' : Base <= b.at /\ b.at + b.size <= Base + lent' + Granted'
    <3>1. Base + lent' + Granted' = Base + lent + Granted
      BY <1>1, <1>3, <1>4
    <3>2. QED
      BY <1>5, <2>1, <2>6, <3>1
  <2>10. QED
    BY <1>2, <1>5, <1>7, <2>1, <2>7, <2>8, <2>9
<1>10. QED
  BY <1>2, <1>6, <1>8, <1>9 DEF RequestInv

(* A set-up with no request under way starts from an empty region.         *)
LEMMA RewindKeepsRequests ==
  ASSUME IInv, ProgramsAreStaged, RequestInv, NEW t \in Threads, RewindRegion(t)
  PROVE  RequestInv'
<1> DEFINE rest == Tail(todo[t])
           l == IF rest = <<>> THEN Free ELSE reg[t]
<1>1. /\ At(t, "rewind") /\ Proceed(t) /\ offset' = 0 /\ buffers' = {} /\ lent' = 0
      /\ raced' = (raced \/ \E u \in Threads : Asking(u))
      /\ UNCHANGED <<region_base, region_ready, squeezed>>
  BY DEF RewindRegion
<1>2. StepsIn(rest) \cap Requests = {} /\ Ordered(rest)
  BY <1>1, TailIsProgram DEF At, ProgramsAreStaged
<1>3. todo' = [todo EXCEPT ![t] = rest] /\ reg' = [reg EXCEPT ![t] = l]
  BY <1>1 DEF Proceed, Go
<1>4. rest = <<>> \/ Head(rest) \notin {"address", "give_back"}
  BY <1>2, HeadIsIn DEF Requests
<1> HIDE DEF l, rest
<1>5. RegionInOrder'
  BY <1>1, ProceedKeepsRegion DEF RequestInv
<1>6. \A k \in {"address", "give_back"} : AskedAt(k)' = AskedAt(k) /\ \A u \in Threads : At(u, k)' => At(u, k)
  <2> SUFFICES ASSUME NEW k \in {"address", "give_back"}
               PROVE  AskedAt(k)' = AskedAt(k) /\ \A u \in Threads : At(u, k)' => At(u, k)
    OBVIOUS
  <2>1. ~At(t, k) /\ ~(rest # <<>> /\ Head(rest) = k)
    BY <1>1, <1>4 DEF At
  <2>2. QED
    BY <1>3, <2>1, PassingAStep, AskedNext
<1>7. ASSUME ~raced'
      PROVE  Granted' = 0 /\ RefusedBytes' = 0 /\ \A u \in Threads : ~At(u, "address")'
  <2>1. \A u \in Threads, k \in {"address", "give_back"} : ~At(u, k)
    BY <1>1, <1>7 DEF Asking
  <2>2. Granted' = Granted /\ RefusedBytes' = RefusedBytes
    BY <1>6 DEF Granted, RefusedBytes
  <2>3. QED
    BY <1>6, <2>1, <2>2, TotalsAreTyped
<1>8. OffsetIsTheSum'
  <2> SUFFICES ASSUME ~raced' PROVE offset' = lent' + Granted' + RefusedBytes' /\ lent' + Granted' <= Region
    BY DEF OffsetIsTheSum
  <2>1. QED
    BY <1>1, <1>7, RegionAssumption
<1>9. LoansAreApart'
  BY <1>1, <1>7 DEF LoansAreApart
<1>10. RequestTypes'
  BY <1>1, WordAssumption, RegionAssumption DEF RequestTypes
<1>11. QED
  BY <1>5, <1>8, <1>9, <1>10 DEF RequestInv

(* The steps that make a list of what is left.                             *)
LEMMA DetoursKeepRequests ==
  ASSUME IInv, ProgramsAreStaged, RequestInv, NEW t \in Threads,
         Claim(t) \/ CountStreams(t) \/ Search(t, reg[t].count, <<"set_attrs", "context">>)
  PROVE  RequestInv'
<1> DEFINE rest == Tail(todo[t])
<1>1. reg[t] \in Locals /\ Program(todo[t]) /\ reg[t].size \in Sizes \cup {0}
  BY DEF ProgramsAreStaged, IInv, Typed, RequestInv, RegionInOrder
<1>2. "ready" \in Left(t) => "region_base" \in Left(t) \/ region_base = Base
  BY DEF RequestInv, RegionInOrder
<1>3. ASSUME NEW h \in {"claim", "count", "search"}, At(t, h)
      PROVE  /\ todo[t] # <<>> /\ Head(todo[t]) = h /\ ~At(t, "address") /\ ~At(t, "give_back")
             /\ Program(rest) /\ Ordered(rest) /\ Left(t) = {h} \cup StepsIn(rest)
             /\ StepsIn(rest) \cap Requests = {}
             /\ "ready" \in StepsIn(rest) => "region_base" \in StepsIn(rest) \/ region_base = Base
  BY <1>1, <1>2, <1>3, TailIsProgram DEF At, Left
<1>4. CASE Claim(t)
  <2> DEFINE publish == IF card.arch = "arm" THEN PublishArm ELSE PublishX86
             pre == IF stream_count < Streams THEN publish ELSE <<"unclaim">>
             l == [reg[t] EXCEPT !.slot = stream_count,
                                 !.id = IF stream_count < Streams THEN StreamId(stream_count) ELSE NoStream]
  <2>1. At(t, "claim") /\ UNCHANGED dma /\ Go(t, pre \o rest, l)
    BY <1>4 DEF Claim, ClaimStream
  <2>2. /\ Program(pre \o rest) /\ StepsIn(pre \o rest) = StepsIn(pre) \cup StepsIn(rest)
    <3>1. Head(todo[t]) = "claim" /\ todo[t] # <<>>
      BY <1>3, <2>1
    <3>2. pre \in {PublishArm, PublishX86} \/ pre = <<"unclaim">>
      OBVIOUS
    <3>3. StepsIn(<<"unclaim">>) = {"unclaim"}
      BY DEF StepsIn
    <3> HIDE DEF pre
    <3>4. QED
      BY <1>1, <3>1, <3>2, <3>3, DetoursArePrograms
  <2>3. StepsIn(pre) \subseteq Publish \cup {"unclaim"} /\ StepsIn(pre) # {}
    <3>1. StepsIn(PublishArm) \subseteq Publish /\ StepsIn(PublishX86) \subseteq Publish /\ StepsIn(<<"unclaim">>) = {"unclaim"}
      BY DEF StepsIn, PublishArm, PublishX86, Publish
    <3>2. "store_id" \in StepsIn(PublishArm) /\ "store_id" \in StepsIn(PublishX86)
      BY DEF StepsIn, PublishArm, PublishX86
    <3>3. QED
      BY <3>1, <3>2
  <2>4. pre \o rest # <<>>
    <3>1. StepsIn(<<>>) = {}
      BY DEF StepsIn
    <3>2. QED
      BY <2>2, <2>3, <3>1
  <2>5. l.size = reg[t].size
    BY <1>1 DEF Locals
  <2> HIDE DEF l, pre, rest
  <2>6. todo' = [todo EXCEPT ![t] = pre \o rest] /\ reg' = [reg EXCEPT ![t] = l]
    BY <2>1, <2>4 DEF Go
  <2>7. /\ StepsIn(pre \o rest) \cap Requests = {} /\ Ordered(pre \o rest)
        /\ "ready" \in StepsIn(pre \o rest) => "region_base" \in StepsIn(pre \o rest) \/ region_base = Base
    BY <1>3, <2>1, <2>2, <2>3 DEF Publish, Requests, Program
  <2>8. QED
    BY <1>1, <1>3, <2>1, <2>5, <2>6, <2>7, MovesKeepRequests DEF Requests
<1>5. CASE CountStreams(t)
  <2> DEFINE moved == [reg[t] EXCEPT !.count = stream_count, !.slot = 0]
             l == IF rest = <<>> THEN Free ELSE moved
  <2>1. At(t, "count") /\ Go(t, rest, moved) /\ UNCHANGED dma
    BY <1>5 DEF CountStreams
  <2>2. l.size \in Sizes \cup {0}
    BY <1>1 DEF Locals, Free
  <2>3. todo' = [todo EXCEPT ![t] = rest] /\ reg' = [reg EXCEPT ![t] = l]
    BY <2>1 DEF Go
  <2> HIDE DEF l, rest
  <2>4. QED
    BY <1>3, <2>1, <2>2, <2>3, MovesKeepRequests DEF Requests
<1>6. CASE Search(t, reg[t].count, <<"set_attrs", "context">>)
  <2> DEFINE found == <<"set_attrs", "context">> \o rest
             next == [reg[t] EXCEPT !.slot = reg[t].slot + 1]
  <2>1. At(t, "search") /\ UNCHANGED dma
    BY <1>6 DEF Search
  <2>2. CASE Proceed(t)
    <3> DEFINE l == IF rest = <<>> THEN Free ELSE reg[t]
    <3>1. l.size \in Sizes \cup {0} /\ todo' = [todo EXCEPT ![t] = rest] /\ reg' = [reg EXCEPT ![t] = l]
      BY <1>1, <2>2 DEF Proceed, Go, Free
    <3> HIDE DEF l, rest
    <3>2. QED
      BY <1>3, <2>1, <3>1, MovesKeepRequests DEF Requests
  <2>3. CASE Go(t, found, reg[t])
    <3>1. Program(found) /\ StepsIn(found) = {"set_attrs", "context"} \cup StepsIn(rest)
      BY <1>1, <1>3, <2>1, DetoursArePrograms
    <3>2. found # <<>>
      <4>1. StepsIn(<<>>) = {}
        BY DEF StepsIn
      <4>2. QED
        BY <3>1, <4>1
    <3> HIDE DEF found, rest
    <3>3. todo' = [todo EXCEPT ![t] = found] /\ reg' = [reg EXCEPT ![t] = reg[t]]
      BY <2>3, <3>2 DEF Go
    <3>4. /\ StepsIn(found) \cap Requests = {} /\ Ordered(found)
          /\ "ready" \in StepsIn(found) => "region_base" \in StepsIn(found) \/ region_base = Base
      BY <1>3, <2>1, <3>1 DEF Requests, Program
    <3>5. QED
      BY <1>1, <1>3, <2>1, <3>3, <3>4, MovesKeepRequests DEF Requests
  <2>4. CASE Go(t, todo[t], next)
    <3>1. next.size = reg[t].size
      BY <1>1 DEF Locals
    <3> HIDE DEF next, rest
    <3>2. todo' = [todo EXCEPT ![t] = todo[t]] /\ reg' = [reg EXCEPT ![t] = next]
      BY <1>3, <2>1, <2>4 DEF Go
    <3>3. StepsIn(todo[t]) \cap Requests = {} /\ Ordered(todo[t])
      BY <1>1, <1>3, <2>1 DEF Requests, Program, Left
    <3>4. QED
      BY <1>1, <1>2, <1>3, <2>1, <3>1, <3>2, <3>3, MovesKeepRequests DEF Requests, Left
  <2>5. QED
    BY <1>6, <2>2, <2>3, <2>4 DEF Search
<1>7. QED
  BY <1>4, <1>5, <1>6

(* Calls begin.                                                            *)
LEMMA CallsKeepRequests ==
  ASSUME IInv, ProgramsAreStaged, RequestInv, NEW t \in Threads,
         \/ ProbeDevice(t) \/ \E size \in Sizes : DmaAlloc(t, size)
         \/ \E attrs \in {"cached", "device"} : SmmuSetAttrs(t, attrs)
         \/ Submit(t)
  PROVE  RequestInv'
<1>1. ASSUME NEW program, Program(program), NEW l, Call(t, program, l), l.size \in Sizes \cup {0},
             StepsIn(program) \cap {"address", "give_back"} = {},
             "take" \in StepsIn(program) => region_ready,
             "ready" \in StepsIn(program) => "region_base" \in StepsIn(program)
      PROVE  RequestInv'
  <2>1. /\ todo' = [todo EXCEPT ![t] = program] /\ reg' = [reg EXCEPT ![t] = l] /\ UNCHANGED dma
        /\ ~At(t, "address") /\ ~At(t, "give_back")
    BY <1>1 DEF Call, Idle, At
  <2>2. QED
    BY <1>1, <2>1, MovesKeepRequests DEF Program
<1>2. Program(BringUp) /\ {"region_base", "ready", "initialized", "claim", "count"} \subseteq StepsIn(BringUp)
  BY ProgramsBegin
<1>3. StepsIn(BringUp) \cap Requests = {}
  <2>1. Len(BringUp) = 12
    BY DEF BringUp, SetAttributes
  <2>2. QED
    BY <1>2, <2>1 DEF Program
<1>4. CASE ProbeDevice(t)
  <2> DEFINE l == [Free EXCEPT !.attrs = "cached"]
  <2>1. Call(t, BringUp, l) /\ l.size = 0
    BY <1>4 DEF ProbeDevice, Free
  <2> HIDE DEF l
  <2>2. QED
    BY <1>1, <1>2, <1>3, <2>1 DEF Requests
<1>5. ASSUME NEW size \in Sizes, DmaAlloc(t, size) PROVE RequestInv'
  <2> DEFINE l == [Free EXCEPT !.size = size]
  <2>1. Call(t, <<"take">>, l) /\ l.size = size /\ region_ready
    BY <1>5 DEF DmaAlloc, Free
  <2>2. StepsIn(<<"take">>) = {"take"} /\ Program(<<"take">>)
    BY ProgramsBegin DEF StepsIn
  <2> HIDE DEF l
  <2>3. QED
    BY <1>1, <2>1, <2>2
<1>6. ASSUME NEW attrs \in {"cached", "device"}, SmmuSetAttrs(t, attrs) PROVE RequestInv'
  <2> DEFINE l == [Free EXCEPT !.id = held[t].id, !.attrs = attrs]
             program == SetAttributes \o <<"settled">>
  <2>1. Call(t, program, l) /\ l.size = 0 /\ Program(program)
    BY <1>6, ProgramsBegin DEF SmmuSetAttrs, Free
  <2>2. StepsIn(program) = {"count", "search", "settled"}
    BY DEF StepsIn, SetAttributes
  <2> HIDE DEF l, program
  <2>3. QED
    BY <1>1, <2>1, <2>2
<1>7. CASE Submit(t)
  <2> DEFINE program == <<"probe_base", "is_initialized", "command">>
  <2>1. Call(t, program, Free) /\ Free.size = 0 /\ Program(program)
    BY <1>7, ProgramsBegin DEF Submit, Free
  <2>2. StepsIn(program) = {"probe_base", "is_initialized", "command"}
    BY DEF StepsIn
  <2> HIDE DEF program
  <2>3. QED
    BY <1>1, <2>1, <2>2
<1>8. QED
  BY <1>4, <1>5, <1>6, <1>7

(* Nothing that was asked or lent changes.                                 *)
LEMMA UntouchedRequests ==
  ASSUME RequestInv, UNCHANGED <<todo, reg, dma>>
  PROVE  RequestInv'
<1>1. UNCHANGED <<region_base, region_ready, offset, buffers, lent, squeezed, raced>>
  BY DEF dma
<1>2. \A t \in Threads : /\ Left(t)' = Left(t)
                         /\ At(t, "address")' <=> At(t, "address")
                         /\ At(t, "give_back")' <=> At(t, "give_back")
  BY DEF Left, At
<1>3. AskedAt("address")' = AskedAt("address") /\ AskedAt("give_back")' = AskedAt("give_back")
  BY <1>2 DEF AskedAt
<1>4. Granted' = Granted /\ RefusedBytes' = RefusedBytes
  BY <1>3 DEF Granted, RefusedBytes
<1>5. RegionInOrder'
  BY <1>1, <1>2 DEF RequestInv, RegionInOrder
<1>6. OffsetIsTheSum' /\ LoansAreApart'
  BY <1>1, <1>2, <1>4 DEF RequestInv, OffsetIsTheSum, LoansAreApart
<1>7. QED
  BY <1>1, <1>5, <1>6 DEF RequestInv, RequestTypes

(* A call that ends early was about no request.                            *)
LEMMA StopKeepsRequests ==
  ASSUME IInv, ProgramsAreStaged, RequestInv, NEW t \in Threads, Go(t, <<>>, Free), UNCHANGED dma,
         NEW h \in {"probe_base", "device_id", "is_initialized"}, At(t, h)
  PROVE  RequestInv'
<1>1. todo' = [todo EXCEPT ![t] = <<>>] /\ reg' = [reg EXCEPT ![t] = Free]
  BY DEF Go
<1>2. Free.size = 0 /\ StepsIn(<<>>) = {} /\ Ordered(<<>>)
  BY DEF Free, StepsIn, Ordered
<1>3. ~At(t, "address") /\ ~At(t, "give_back")
  BY DEF At
<1>4. QED
  BY <1>1, <1>2, <1>3, MovesKeepRequests

(* Every step of a thread.                                                 *)
LEMMA StepsKeepRequests ==
  ASSUME IInv, ProgramsAreStaged, RequestInv, NEW t \in Threads, Steps(t)
  PROVE  RequestInv'
<1>1. CASE \E base \in {0, Base} : Configure(t, base)
  BY <1>1, UntouchedRequests DEF Configure
<1>2. CASE \/ ProbeDevice(t) \/ \E size \in Sizes : DmaAlloc(t, size)
           \/ \E attrs \in {"cached", "device"} : SmmuSetAttrs(t, attrs)
           \/ Submit(t)
  BY <1>2, CallsKeepRequests
<1>3. CASE Claim(t) \/ CountStreams(t) \/ Search(t, reg[t].count, <<"set_attrs", "context">>)
  BY <1>3, DetoursKeepRequests
<1>4. CASE Take(t) \/ GiveBack(t) \/ Address(t) \/ RewindRegion(t) \/ RegionReady(t)
  BY <1>4, TakeKeepsRequests, GiveBackKeepsRequests, AddressKeepsRequests, RewindKeepsRequests,
     ReadyKeepsRequests
<1>5. CASE ReadProbeBase(t) \/ ReadDeviceId(t) \/ IsInitialized(t)
  <2>1. PICK h \in {"probe_base", "device_id", "is_initialized"} :
          At(t, h) /\ UNCHANGED dma /\ (Proceed(t) \/ Go(t, <<>>, Free))
    BY <1>5 DEF ReadProbeBase, ReadDeviceId, IsInitialized
  <2>2. h \notin {"address", "give_back", "ready"} /\ h # "region_base"
    OBVIOUS
  <2>3. UNCHANGED <<offset, buffers, lent, squeezed, raced, region_ready, region_base>>
    BY <2>1 DEF dma
  <2>4. QED
    BY <2>1, <2>2, <2>3, ProceedKeepsRequests, StopKeepsRequests
<1>6. CASE StoreRegionBase(t)
  BY <1>6, ProceedKeepsRequests DEF StoreRegionBase
<1>7. CASE \/ StoreMmioBase(t) \/ Reset(t) \/ Enable(t) \/ UnclaimStream(t)
           \/ StoreStreamId(t) \/ StoreStreamAttrs(t, FirstAttrs) \/ StoreDartBase(t) \/ Bypass(t)
           \/ SetStreamAttrs(t) \/ WriteContext(t, Context(reg[t].attrs)) \/ Settled(t)
           \/ Finish(t) \/ Command(t)
  <2> DEFINE Names == {"mmio_base", "reset", "enable", "unclaim", "store_id", "store_attrs", "dart_base",
                       "bypass", "set_attrs", "context", "settled", "initialized", "command"}
  <2>1. PICK h \in Names : At(t, h) /\ UNCHANGED dma /\ Proceed(t)
    BY <1>7 DEF StoreMmioBase, Reset, Enable, UnclaimStream, StoreStreamId, StoreStreamAttrs,
       StoreDartBase, Bypass, SetStreamAttrs, WriteContext, Settled, Finish, Command
  <2>2. h \notin {"address", "give_back", "ready"} /\ h # "region_base"
    OBVIOUS
  <2>3. UNCHANGED <<offset, buffers, lent, squeezed, raced, region_ready, region_base>>
    BY <2>1 DEF dma
  <2>4. QED
    BY <2>1, <2>2, <2>3, ProceedKeepsRequests
<1>8. QED
  BY <1>1, <1>2, <1>3, <1>4, <1>5, <1>6, <1>7 DEF Steps

(* Nothing has been asked yet.                                             *)
LEMMA RequestsBegin == ASSUME LpuInit, WordHoldsRequests PROVE RequestInv
<1>1. \A t \in Threads : todo[t] = <<>> /\ reg[t] = Free
  BY DEF LpuInit, Init
<1>2. Free.size = 0 /\ StepsIn(<<>>) = {}
  BY DEF Free, StepsIn
<1>3. \A t \in Threads : Left(t) = {} /\ reg[t].size = 0 /\ \A h : ~At(t, h)
  BY <1>1, <1>2 DEF Left, At
<1>4. /\ offset = 0 /\ lent = 0 /\ buffers = {} /\ region_ready = FALSE
  BY DEF LpuInit, Init
<1>5. Granted = 0 /\ RefusedBytes = 0
  <2>1. ASSUME NEW h PROVE Total(AskedAt(h)) = 0
    <3>1. AskedAt(h) \in [Threads -> Nat] /\ \A t \in Threads : AskedAt(h)[t] = 0
      BY <1>3 DEF AskedAt
    <3>2. QED
      BY <3>1, TotalOfNothing
  <2>2. QED
    BY <2>1 DEF Granted, RefusedBytes
<1>6. RegionInOrder
  BY <1>3, <1>4 DEF RegionInOrder
<1>7. OffsetIsTheSum /\ LoansAreApart
  BY <1>3, <1>4, <1>5, RegionAssumption DEF OffsetIsTheSum, LoansAreApart
<1>8. RequestTypes
  BY <1>4, WordAssumption, RegionAssumption DEF RequestTypes
<1>9. QED
  BY <1>6, <1>7, <1>8 DEF RequestInv

(* The invariant of the region.                                            *)
LEMMA RequestInvariantHolds == WordHoldsRequests /\ LpuSpec => []RequestInv
<1>1. WordHoldsRequests /\ LpuInit => RequestInv
  BY RequestsBegin
<1>2. IInv /\ ProgramsAreStaged /\ RequestInv /\ [\E t \in Threads : Steps(t)]_vars => RequestInv'
  <2> SUFFICES ASSUME IInv, ProgramsAreStaged, RequestInv, [\E t \in Threads : Steps(t)]_vars
               PROVE  RequestInv'
    OBVIOUS
  <2>1. CASE UNCHANGED vars
    BY <2>1, UntouchedRequests DEF vars
  <2>2. CASE \E t \in Threads : Steps(t)
    BY <2>2, StepsKeepRequests
  <2>3. QED
    BY <2>1, <2>2
<1>3. QED
  BY <1>1, <1>2, StreamInvariantHolds, PTL DEF LpuSpec

(* When no request is under way, the offset is the sum of what was lent,   *)
(* however the fetch_add and the fetch_sub of any number of requests       *)
(* interleaved, unless a set-up came under a request (dma.rs).             *)
LEMMA LpuRefusalsAreTakenBack == WordHoldsRequests /\ LpuSpec => []RefusalsGiveBack
<1>1. IInv /\ RequestInv => RefusalsGiveBack
  <2> SUFFICES ASSUME IInv, RequestInv, ~raced, \A t \in Threads : ~Requesting(t)
               PROVE  offset = lent
    BY DEF RefusalsGiveBack
  <2>1. \A t \in Threads, h \in Requests : ~At(t, h)
    <3> SUFFICES ASSUME NEW t \in Threads, NEW h \in Requests, At(t, h) PROVE FALSE
      OBVIOUS
    <3>1. h \in Left(t)
      BY HeadIsIn DEF At, IInv, ProgramsAreOrdered, Left
    <3>2. QED
      BY <3>1 DEF Left, StepsIn, Requests, Requesting
  <2>2. Granted = 0 /\ RefusedBytes = 0
    BY <2>1, TotalsAreTyped DEF Requests
  <2>3. QED
    BY <2>2 DEF RequestInv, OffsetIsTheSum, RequestTypes
<1>2. QED
  BY <1>1, InvariantHolds, RequestInvariantHolds, PTL

(* No two buffers lent from the region share a byte, and none reaches past *)
(* the region's end, for any number of threads that ask at the same time   *)
(* and are refused (dma.rs: the comparison follows the fetch_add).         *)
LEMMA LpuBuffersAreDisjoint == WordHoldsRequests /\ LpuSpec => []BuffersAreDisjoint
<1>1. RequestInv => BuffersAreDisjoint
  <2> SUFFICES ASSUME RequestInv, ~squeezed, ~raced
               PROVE  /\ \A b \in buffers : Bytes(b) \subseteq Base .. Base + Region - 1
                      /\ \A b, c \in buffers : b # c => Bytes(b) \cap Bytes(c) = {}
    BY DEF BuffersAreDisjoint
  <2>1. /\ \A b \in buffers : Base <= b.at /\ b.at + b.size <= Base + lent + Granted
        /\ \A b, c \in buffers : b # c => Clear(b.at, b.size, c.at, c.size)
        /\ lent + Granted <= Region
    BY DEF RequestInv, LoansAreApart, OffsetIsTheSum
  <2>2. /\ lent \in Nat /\ Granted \in Nat /\ Base \in Nat /\ Region \in Nat
        /\ \A b \in buffers : b.at \in Nat /\ b.size \in Nat
    BY TotalsAreTyped, RegionAssumption DEF RequestInv, RequestTypes, Base
  <2>3. \A b \in buffers : Bytes(b) \subseteq Base .. Base + Region - 1
    BY <2>1, <2>2 DEF Bytes
  <2>4. \A b, c \in buffers : b # c => Bytes(b) \cap Bytes(c) = {}
    BY <2>1, <2>2 DEF Bytes, Clear
  <2>5. QED
    BY <2>3, <2>4
<1>2. QED
  BY <1>1, RequestInvariantHolds, PTL

-----------------------------------------------------------------------------
(* The region of the tensor accelerator.                                   *)

(* The behaviours of the tensor accelerator alone.                         *)
TpuInit == Init /\ card \in [kind : {"tpu"}, arch : Archs]

TpuSpec == TpuInit /\ [][\E t \in Threads : T!Steps(t)]_vars

(* The driver never takes a refused request back, so its offset only grows *)
(* and would wrap.  Two calls come before the first request: one that      *)
(* configures the device and one that brings it up.                        *)
WordHoldsCalls ==
  \E m \in Nat : (\A s \in Sizes : s <= m) /\ Word > m * (Calls - 2)

(* The calls made so far, less those that must have configured the device  *)
(* and brought it up and those that are still going to ask.                *)
Configured ==
  \/ probe_base = Base \/ region_base = Base
  \/ \E t \in Threads : "region_base" \in Left(t) /\ "probe_base" \notin Left(t)

BroughtUp == region_base = Base \/ \E t \in Threads : "region_base" \in Left(t)

Before == (IF Configured THEN 1 ELSE 0) + (IF BroughtUp THEN 1 ELSE 0)

(* The threads whose request has not been made yet.                        *)
Takers == {t \in Threads : "take" \in Left(t)}

(* The calls that may have taken something already.                        *)
Spare == (Calls - calls - Before) - Cardinality(Takers)

(* A request asks for the region and takes from it, and nothing else; a    *)
(* bring-up asks for the base that was configured before it does anything. *)
AsksInOrder(t) ==
  /\ todo[t] \in Seq(StepNames)
  /\ Left(t) \cap {"take", "region?"} # {} =>
       /\ todo[t] = <<"region?", "take">> \/ (todo[t] = <<"take">> /\ region_base = Base)
       /\ reg[t].size \in Sizes
  /\ "probe_base" \in Left(t) =>
       Head(todo[t]) = "probe_base" /\ "probe_base" \notin StepsIn(Tail(todo[t]))

(* How far the calls have come, ...                                        *)
TpuCalls ==
  /\ DOMAIN todo = Threads /\ DOMAIN reg = Threads
  /\ \A t \in Threads : AsksInOrder(t)
  /\ calls \in Nat /\ calls <= Calls
  /\ region_base \in {0, Base} /\ probe_base \in {0, Base}

(* ... what they were lent, side by side below the offset, ...             *)
TpuBuffers ==
  /\ \A b \in buffers : b.at \in Nat /\ b.size \in Nat
  /\ \A b \in buffers : Base <= b.at /\ b.at + b.size <= Base + offset /\ b.at + b.size <= Base + Region
  /\ \A b, c \in buffers : b # c => Clear(b.at, b.size, c.at, c.size)

(* ... and the offset, which no call has moved by more than the largest    *)
(* size.                                                                   *)
TpuInv ==
  /\ TpuCalls /\ TpuBuffers
  /\ offset \in Nat
  /\ \A m \in Nat : (\A s \in Sizes : s <= m) => offset <= m * Spare

(* What is counted are integers.                                           *)
LEMMA CountsAreIntegers ==
  ASSUME TpuCalls
  PROVE  /\ Before \in 0 .. 2 /\ Cardinality(Takers) \in Nat /\ IsFiniteSet(Takers)
         /\ Spare \in Int /\ Calls \in Int
<1>1. IsFiniteSet(Takers)
  BY ThreadsAssumption, FS_Subset DEF Takers
<1>2. Cardinality(Takers) \in Nat
  BY <1>1, FS_CardinalityType
<1>3. Before \in 0 .. 2
  BY DEF Before
<1>4. calls \in Int /\ Calls \in Int
  BY CallsAssumption DEF TpuCalls
<1>5. QED
  BY <1>1, <1>2, <1>3, <1>4 DEF Spare

(* A bound that holds of fewer holds of more.                              *)
LEMMA MoreOfThem ==
  ASSUME NEW m \in Nat, NEW a \in Int, NEW b \in Int, a <= b
  PROVE  m * a \in Int /\ m * b \in Int /\ m * a <= m * b
<1>1. m * a \in Int /\ m * b \in Int
  OBVIOUS
<1>2. PICK d \in Nat : b = a + d
  OBVIOUS
<1>3. m * b = m * a + m * d /\ m * d \in Nat
  BY <1>2
<1>4. QED
  BY <1>1, <1>3

(* So the bound stays when the offset does.                                *)
LEMMA StillBounded ==
  ASSUME TpuInv, Spare' \in Int, Spare <= Spare', offset' = offset
  PROVE  \A m \in Nat : (\A s \in Sizes : s <= m) => offset' <= m * Spare'
<1> SUFFICES ASSUME NEW m \in Nat, \A s \in Sizes : s <= m PROVE offset' <= m * Spare'
  OBVIOUS
<1>1. offset <= m * Spare /\ offset \in Nat /\ Spare \in Int
  BY CountsAreIntegers DEF TpuInv
<1>2. \A a, b \in Int : a <= b => m * a \in Int /\ m * b \in Int /\ m * a <= m * b
  BY MoreOfThem
<1>3. m * Spare \in Int /\ m * Spare' \in Int /\ m * Spare <= m * Spare'
  BY <1>1, <1>2, Zenon
<1> DEFINE low == m * Spare
           high == m * Spare'
<1>4. low \in Int /\ high \in Int /\ low <= high /\ offset <= low
  BY <1>1, <1>3
<1> HIDE DEF low, high
<1>5. offset' <= high
  BY <1>1, <1>4
<1>6. QED
  BY <1>5 DEF high

(* The set of those that are going to take, when one thread moves.         *)
LEMMA TakersNext ==
  ASSUME TpuCalls, NEW t \in Threads, NEW rest, todo' = [todo EXCEPT ![t] = rest]
  PROVE  /\ todo'[t] = rest /\ Left(t)' = StepsIn(rest)
         /\ \A u \in Threads \ {t} : todo'[u] = todo[u] /\ Left(u)' = Left(u)
         /\ Takers' = IF "take" \in StepsIn(rest) THEN Takers \cup {t} ELSE Takers \ {t}
<1>1. /\ todo'[t] = rest /\ \A u \in Threads \ {t} : todo'[u] = todo[u]
  BY DEF TpuCalls
<1>2. Left(t)' = StepsIn(rest) /\ \A u \in Threads \ {t} : Left(u)' = Left(u)
  BY <1>1 DEF Left
<1>3. QED
  BY <1>1, <1>2 DEF Takers

(* A thread moves on without asking for anything.                          *)
LEMMA QuietMove ==
  ASSUME TpuInv, NEW t \in Threads, NEW rest \in Seq(StepNames), NEW l,
         todo' = [todo EXCEPT ![t] = rest], reg' = [reg EXCEPT ![t] = l],
         StepsIn(rest) \cap {"take", "region?", "probe_base"} = {},
         "region_base" \in StepsIn(rest) => "region_base" \in Left(t) /\ Configured,
         region_base' = region_base \/ (region_base' = Base /\ Configured /\ BroughtUp),
         UNCHANGED <<calls, probe_base, offset, buffers>>
  PROVE  TpuInv'
<1>1. TpuCalls
  BY DEF TpuInv
<1>2. /\ todo'[t] = rest /\ Left(t)' = StepsIn(rest)
      /\ \A u \in Threads \ {t} : todo'[u] = todo[u] /\ Left(u)' = Left(u)
      /\ Takers' = Takers \ {t}
  BY <1>1, TakersNext
<1>3. \A u \in Threads : AsksInOrder(u)'
  <2> SUFFICES ASSUME NEW u \in Threads PROVE AsksInOrder(u)'
    OBVIOUS
  <2>1. CASE u = t
    BY <1>2, <2>1 DEF AsksInOrder
  <2>2. CASE u # t
    <3>1. reg'[u] = reg[u] /\ todo'[u] = todo[u] /\ Left(u)' = Left(u)
      BY <1>1, <1>2, <2>2 DEF TpuCalls
    <3>2. region_base = Base => region_base' = Base
      OBVIOUS
    <3>3. AsksInOrder(u)
      BY <1>1 DEF TpuCalls
    <3>4. QED
      BY <3>1, <3>2, <3>3 DEF AsksInOrder
  <2>3. QED
    BY <2>1, <2>2
<1>4. TpuCalls'
  BY <1>1, <1>3 DEF TpuCalls
<1>5. (Configured' => Configured) /\ (BroughtUp' => BroughtUp)
  <2>1. ASSUME Configured' PROVE Configured
    <3>1. CASE probe_base = Base \/ region_base' = Base
      BY <3>1 DEF Configured
    <3>2. CASE \E u \in Threads : "region_base" \in Left(u)' /\ "probe_base" \notin Left(u)'
      BY <1>2, <3>2 DEF Configured
    <3>3. QED
      BY <2>1, <3>1, <3>2 DEF Configured
  <2>2. ASSUME BroughtUp' PROVE BroughtUp
    <3>1. CASE region_base' = Base
      BY <3>1 DEF BroughtUp
    <3>2. CASE \E u \in Threads : "region_base" \in Left(u)'
      BY <1>2, <3>2 DEF BroughtUp
    <3>3. QED
      BY <2>2, <3>1, <3>2 DEF BroughtUp
  <2>3. QED
    BY <2>1, <2>2
<1>6. Before' <= Before
  BY <1>5 DEF Before
<1>7. Cardinality(Takers') \in Nat /\ Cardinality(Takers') <= Cardinality(Takers)
  BY <1>1, <1>2, CountsAreIntegers, FS_Subset, FS_CardinalityType
<1>8. TpuBuffers' /\ offset' \in Nat
  BY DEF TpuInv, TpuBuffers
<1>9. Spare' \in Int /\ Spare <= Spare'
  BY <1>1, <1>6, <1>7, CountsAreIntegers DEF Spare, TpuCalls, Before
<1>10. QED
  BY <1>4, <1>8, <1>9, StillBounded DEF TpuInv

(* What is left after a step that asks for nothing.                        *)
LEMMA AfterAStep ==
  ASSUME TpuInv, NEW t \in Threads, NEW step, T!At(t, step), step \notin {"take", "region?"}
  PROVE  /\ Tail(todo[t]) \in Seq(StepNames) /\ todo[t] \in Seq(StepNames) /\ step \in Left(t)
         /\ StepsIn(Tail(todo[t])) \cap {"take", "region?", "probe_base"} = {}
         /\ StepsIn(Tail(todo[t])) \subseteq Left(t)
         /\ step # "probe_base" =>
              /\ Left(t) \cap {"take", "region?", "probe_base"} = {}
              /\ "region_base" \in Left(t) => Configured
<1>1. AsksInOrder(t) /\ todo[t] # <<>> /\ Head(todo[t]) = step
  BY DEF TpuInv, TpuCalls, T!At
<1>2. /\ todo[t] \in Seq(StepNames) /\ Tail(todo[t]) \in Seq(StepNames)
      /\ Len(todo[t]) \in Nat \ {0} /\ Len(Tail(todo[t])) = Len(todo[t]) - 1
      /\ todo[t][1] = step
      /\ \A i \in 1 .. Len(todo[t]) - 1 : Tail(todo[t])[i] = todo[t][i + 1]
  BY <1>1 DEF AsksInOrder
<1>3. StepsIn(Tail(todo[t])) \subseteq Left(t) /\ step \in Left(t)
  BY <1>2 DEF StepsIn, Left
<1>4. Left(t) \cap {"take", "region?"} = {}
  <2>1. todo[t] # <<"region?", "take">> /\ todo[t] # <<"take">>
    BY <1>1
  <2>2. QED
    BY <1>1, <2>1 DEF AsksInOrder
<1>5. "probe_base" \notin StepsIn(Tail(todo[t]))
  BY <1>1, <1>3 DEF AsksInOrder
<1>6. step # "probe_base" => "probe_base" \notin Left(t)
  BY <1>1 DEF AsksInOrder
<1>7. QED
  BY <1>2, <1>3, <1>4, <1>5, <1>6 DEF Configured

(* A step that moves on to the rest of its call.                           *)
LEMMA ProceedIsQuiet ==
  ASSUME TpuInv, NEW t \in Threads, NEW step, T!At(t, step),
         step \notin {"take", "region?"}, step = "probe_base" => Configured,
         T!Proceed(t),
         region_base' = region_base \/ (region_base' = Base /\ step = "region_base"),
         UNCHANGED <<probe_base, offset, buffers>>
  PROVE  TpuInv'
<1> DEFINE rest == Tail(todo[t])
           l == IF rest = <<>> THEN T!Free ELSE reg[t]
<1>1. /\ rest \in Seq(StepNames) /\ step \in Left(t)
      /\ StepsIn(rest) \cap {"take", "region?", "probe_base"} = {}
      /\ StepsIn(rest) \subseteq Left(t)
      /\ "region_base" \in Left(t) => Configured
  BY AfterAStep
<1>2. todo' = [todo EXCEPT ![t] = rest] /\ reg' = [reg EXCEPT ![t] = l] /\ calls' = calls
  BY DEF T!Proceed, T!Go
<1>3. region_base' = region_base \/ (region_base' = Base /\ Configured /\ BroughtUp)
  BY <1>1 DEF BroughtUp
<1> HIDE DEF rest, l
<1>4. QED
  BY <1>1, <1>2, <1>3, QuietMove

(* A step after which the call is over.                                    *)
LEMMA StopIsQuiet ==
  ASSUME TpuInv, NEW t \in Threads, T!Go(t, <<>>, T!Free),
         UNCHANGED <<region_base, probe_base, offset, buffers>>
  PROVE  TpuInv'
<1>1. todo' = [todo EXCEPT ![t] = <<>>] /\ reg' = [reg EXCEPT ![t] = T!Free] /\ calls' = calls
  BY DEF T!Go
<1>2. <<>> \in Seq(StepNames) /\ StepsIn(<<>>) = {}
  BY DEF StepsIn
<1>3. QED
  BY <1>1, <1>2, QuietMove

(* Steps in front of what is left.                                         *)
LEMMA StepsOfBoth ==
  ASSUME NEW a \in Seq(StepNames), NEW b \in Seq(StepNames)
  PROVE  a \o b \in Seq(StepNames) /\ StepsIn(a \o b) = StepsIn(a) \cup StepsIn(b)
<1>1. /\ a \o b \in Seq(StepNames) /\ Len(a) \in Nat /\ Len(b) \in Nat
      /\ DOMAIN (a \o b) = 1 .. Len(a) + Len(b) /\ DOMAIN a = 1 .. Len(a) /\ DOMAIN b = 1 .. Len(b)
      /\ \A i \in 1 .. Len(a) + Len(b) : (a \o b)[i] = IF i <= Len(a) THEN a[i] ELSE b[i - Len(a)]
  OBVIOUS
<1>2. ASSUME NEW x \in StepsIn(a \o b) PROVE x \in StepsIn(a) \cup StepsIn(b)
  <2>1. PICK i \in 1 .. Len(a) + Len(b) : x = (a \o b)[i]
    BY <1>1 DEF StepsIn
  <2>2. CASE i <= Len(a)
    <3>1. i \in DOMAIN a /\ x = a[i]
      BY <1>1, <2>1, <2>2
    <3>2. QED
      BY <3>1 DEF StepsIn
  <2>3. CASE ~(i <= Len(a))
    <3>1. i - Len(a) \in DOMAIN b /\ x = b[i - Len(a)]
      BY <1>1, <2>1, <2>3
    <3>2. QED
      BY <3>1 DEF StepsIn
  <2>4. QED
    BY <2>2, <2>3
<1>3. ASSUME NEW x \in StepsIn(a) PROVE x \in StepsIn(a \o b)
  <2>1. PICK i \in 1 .. Len(a) : x = a[i]
    BY <1>1 DEF StepsIn
  <2>2. i \in DOMAIN (a \o b) /\ x = (a \o b)[i]
    BY <1>1, <2>1
  <2>3. QED
    BY <2>2 DEF StepsIn
<1>4. ASSUME NEW x \in StepsIn(b) PROVE x \in StepsIn(a \o b)
  <2>1. PICK i \in 1 .. Len(b) : x = b[i]
    BY <1>1 DEF StepsIn
  <2>2. i + Len(a) \in DOMAIN (a \o b) /\ x = (a \o b)[i + Len(a)]
    BY <1>1, <2>1
  <2>3. QED
    BY <2>2 DEF StepsIn
<1>5. QED
  BY <1>1, <1>2, <1>3, <1>4

(* A detour that asks for nothing.                                         *)
LEMMA DetourIsQuiet ==
  ASSUME TpuInv, NEW t \in Threads, NEW step, T!At(t, step),
         step \notin {"take", "region?", "probe_base"},
         NEW pre \in Seq(StepNames), StepsIn(pre) \cap {"take", "region?", "probe_base", "region_base"} = {},
         NEW locals, T!Go(t, pre \o Tail(todo[t]), locals),
         UNCHANGED <<region_base, probe_base, offset, buffers>>
  PROVE  TpuInv'
<1> DEFINE rest == pre \o Tail(todo[t])
           l == IF rest = <<>> THEN T!Free ELSE locals
<1>1. /\ Tail(todo[t]) \in Seq(StepNames)
      /\ StepsIn(Tail(todo[t])) \cap {"take", "region?", "probe_base"} = {}
      /\ StepsIn(Tail(todo[t])) \subseteq Left(t)
      /\ "region_base" \in Left(t) => Configured
  BY AfterAStep
<1>2. rest \in Seq(StepNames) /\ StepsIn(rest) = StepsIn(pre) \cup StepsIn(Tail(todo[t]))
  BY <1>1, StepsOfBoth
<1>3. todo' = [todo EXCEPT ![t] = rest] /\ reg' = [reg EXCEPT ![t] = l] /\ calls' = calls
  BY DEF T!Go
<1> HIDE DEF rest, l
<1>4. QED
  BY <1>1, <1>2, <1>3, QuietMove

(* A call that begins is one more call; it may ask, or bring the device    *)
(* up,                                                                     *)
(* but not both.                                                           *)
LEMMA CallIsCounted ==
  ASSUME TpuInv, NEW t \in Threads, NEW program \in Seq(StepNames), NEW locals, T!Call(t, program, locals),
         "take" \in StepsIn(program) \/ "region?" \in StepsIn(program) =>
           program = <<"region?", "take">> /\ locals.size \in Sizes,
         "take" \in StepsIn(program) => "region_base" \notin StepsIn(program),
         "region_base" \in StepsIn(program) => "probe_base" \in StepsIn(program),
         "probe_base" \in StepsIn(program) =>
           Head(program) = "probe_base" /\ "probe_base" \notin StepsIn(Tail(program))
  PROVE  TpuInv'
<1>1. TpuCalls
  BY DEF TpuInv
<1>2. /\ todo[t] = <<>> /\ calls > 0 /\ calls' = calls - 1
      /\ todo' = [todo EXCEPT ![t] = program] /\ reg' = [reg EXCEPT ![t] = locals]
      /\ UNCHANGED <<probe_base, region_base, offset, buffers>>
  BY DEF T!Call, T!Idle, T!dma, T!device
<1>3. Left(t) = {}
  BY <1>2 DEF Left, StepsIn
<1>4. /\ todo'[t] = program /\ Left(t)' = StepsIn(program)
      /\ \A u \in Threads \ {t} : todo'[u] = todo[u] /\ Left(u)' = Left(u)
      /\ Takers' = IF "take" \in StepsIn(program) THEN Takers \cup {t} ELSE Takers \ {t}
  BY <1>1, <1>2, TakersNext
<1>5. /\ reg'[t] = locals /\ \A u \in Threads \ {t} : reg'[u] = reg[u]
  BY <1>1, <1>2 DEF TpuCalls
<1>6. \A u \in Threads : AsksInOrder(u)'
  <2> SUFFICES ASSUME NEW u \in Threads PROVE AsksInOrder(u)'
    OBVIOUS
  <2>1. CASE u = t
    BY <1>4, <1>5, <2>1 DEF AsksInOrder
  <2>2. CASE u # t
    <3>1. AsksInOrder(u) /\ reg'[u] = reg[u] /\ todo'[u] = todo[u] /\ Left(u)' = Left(u)
      BY <1>1, <1>4, <1>5, <2>2 DEF TpuCalls
    <3>2. QED
      BY <1>2, <3>1 DEF AsksInOrder
  <2>3. QED
    BY <2>1, <2>2
<1>7. TpuCalls'
  <2>1. DOMAIN todo' = Threads /\ DOMAIN reg' = Threads
    BY <1>1, <1>2 DEF TpuCalls
  <2>2. calls' \in Nat /\ calls' <= Calls /\ region_base' \in {0, Base} /\ probe_base' \in {0, Base}
    BY <1>1, <1>2, CallsAssumption DEF TpuCalls
  <2>3. QED
    BY <1>6, <2>1, <2>2 DEF TpuCalls
<1>8. Configured' => Configured
  <2> SUFFICES ASSUME Configured' PROVE Configured
    OBVIOUS
  <2>1. CASE probe_base = Base \/ region_base = Base
    BY <2>1 DEF Configured
  <2>2. CASE \E u \in Threads : "region_base" \in Left(u)' /\ "probe_base" \notin Left(u)'
    <3>1. PICK u \in Threads : "region_base" \in Left(u)' /\ "probe_base" \notin Left(u)'
      BY <2>2
    <3>2. u # t
      BY <1>4, <3>1
    <3>3. QED
      BY <1>4, <3>1, <3>2 DEF Configured
  <2>3. QED
    BY <1>2, <2>1, <2>2 DEF Configured
<1>9. "region_base" \notin StepsIn(program) => (BroughtUp' => BroughtUp)
  <2> SUFFICES ASSUME "region_base" \notin StepsIn(program), BroughtUp' PROVE BroughtUp
    OBVIOUS
  <2>1. CASE region_base = Base
    BY <2>1 DEF BroughtUp
  <2>2. CASE \E u \in Threads : "region_base" \in Left(u)'
    <3>1. PICK u \in Threads : "region_base" \in Left(u)'
      BY <2>2
    <3>2. u # t
      BY <1>4, <3>1
    <3>3. QED
      BY <1>4, <3>1, <3>2 DEF BroughtUp
  <2>3. QED
    BY <1>2, <2>1, <2>2 DEF BroughtUp
<1>10. /\ IsFiniteSet(Takers) /\ Cardinality(Takers) \in Nat /\ Calls \in Int /\ calls \in Int
       /\ Before \in 0 .. 2 /\ Spare \in Int
  BY <1>1, CountsAreIntegers DEF TpuCalls
<1>11. Spare' \in Int /\ Spare <= Spare'
  <2>1. CASE "take" \in StepsIn(program)
    <3>1. Before' <= Before
      BY <1>8, <1>9, <2>1 DEF Before
    <3>2. Cardinality(Takers') \in Nat /\ Cardinality(Takers') <= Cardinality(Takers) + 1
      <4>1. Takers' = Takers \cup {t}
        BY <1>4, <2>1
      <4>2. /\ IsFiniteSet(Takers \cup {t})
            /\ Cardinality(Takers \cup {t}) = IF t \in Takers THEN Cardinality(Takers) ELSE Cardinality(Takers) + 1
        BY <1>10, FS_AddElement
      <4>3. QED
        BY <1>10, <4>1, <4>2, FS_CardinalityType
    <3>3. QED
      BY <1>2, <1>10, <3>1, <3>2 DEF Spare, Before
  <2>2. CASE "take" \notin StepsIn(program)
    <3>1. Before' <= Before + 1
      BY <1>8 DEF Before
    <3>2. Cardinality(Takers') \in Nat /\ Cardinality(Takers') <= Cardinality(Takers)
      BY <1>4, <1>10, <2>2, FS_Subset, FS_CardinalityType
    <3>3. QED
      BY <1>2, <1>10, <3>1, <3>2 DEF Spare, Before
  <2>3. QED
    BY <2>1, <2>2
<1>12. TpuBuffers' /\ offset' \in Nat
  BY <1>2 DEF TpuInv, TpuBuffers
<1>13. QED
  BY <1>2, <1>7, <1>11, <1>12, StillBounded DEF TpuInv

(* Configuring the device is a call, too.                                  *)
LEMMA ConfigureIsCounted ==
  ASSUME TpuInv, NEW t \in Threads, NEW base \in {0, Base}, T!Configure(t, base)
  PROVE  TpuInv'
<1>1. TpuCalls
  BY DEF TpuInv
<1>2. /\ calls > 0 /\ calls' = calls - 1 /\ probe_base' \in {0, Base}
      /\ UNCHANGED <<todo, reg, region_base, offset, buffers>>
  BY DEF T!Configure, T!dma
<1>3. /\ \A u \in Threads : Left(u)' = Left(u) /\ (AsksInOrder(u)' <=> AsksInOrder(u))
      /\ Takers' = Takers
  BY <1>2 DEF Left, AsksInOrder, Takers
<1>4. TpuCalls'
  BY <1>1, <1>2, <1>3, CallsAssumption DEF TpuCalls
<1>5. BroughtUp' <=> BroughtUp
  BY <1>2, <1>3 DEF BroughtUp
<1>6. Before' <= Before + 1
  BY <1>5 DEF Before
<1>7. /\ Cardinality(Takers) \in Nat /\ Calls \in Int /\ calls \in Int
      /\ Before \in 0 .. 2 /\ Spare \in Int
  BY <1>1, CountsAreIntegers DEF TpuCalls
<1>8. Spare' \in Int /\ Spare <= Spare'
  BY <1>2, <1>3, <1>6, <1>7 DEF Spare, Before
<1>9. TpuBuffers' /\ offset' \in Nat
  BY <1>2 DEF TpuInv, TpuBuffers
<1>10. QED
  BY <1>2, <1>4, <1>8, <1>9, StillBounded DEF TpuInv

(* A request that finds the region set up.                                 *)
LEMMA AskIsInOrder ==
  ASSUME TpuInv, NEW t \in Threads, T!ReadRegionBase(t)
  PROVE  TpuInv'
<1>1. TpuCalls /\ AsksInOrder(t) /\ todo[t] # <<>> /\ Head(todo[t]) = "region?"
  BY DEF TpuInv, TpuCalls, T!ReadRegionBase, T!At
<1>2. UNCHANGED <<region_base, probe_base, offset, buffers>>
  BY DEF T!ReadRegionBase, T!dma, T!device
<1>3. CASE region_base = 0
  BY <1>2, <1>3, StopIsQuiet DEF T!ReadRegionBase
<1>4. CASE region_base # 0
  <2>1. region_base = Base
    BY <1>1, <1>4 DEF TpuCalls
  <2>2. "region?" \in Left(t)
    <3>1. 1 \in DOMAIN todo[t] /\ todo[t][1] = "region?"
      BY <1>1 DEF AsksInOrder
    <3>2. QED
      BY <3>1 DEF Left, StepsIn
  <2>3. todo[t] = <<"region?", "take">> /\ reg[t].size \in Sizes
    BY <1>1, <2>2 DEF AsksInOrder
  <2>4. todo' = [todo EXCEPT ![t] = <<"take">>] /\ reg' = [reg EXCEPT ![t] = reg[t]] /\ calls' = calls
    <3>1. Tail(todo[t]) = <<"take">> /\ <<"take">> # <<>>
      BY <2>3
    <3>2. QED
      BY <1>4, <3>1 DEF T!ReadRegionBase, T!Proceed, T!Go
  <2>5. StepsIn(<<"take">>) = {"take"} /\ <<"take">> \in Seq(StepNames) /\ "take" \in Left(t)
    <3>1. DOMAIN <<"take">> = {1} /\ <<"take">>[1] = "take"
      OBVIOUS
    <3>2. 2 \in DOMAIN todo[t] /\ todo[t][2] = "take"
      BY <2>3
    <3>3. QED
      BY <3>1, <3>2 DEF Left, StepsIn, StepNames
  <2>6. /\ todo'[t] = <<"take">> /\ Left(t)' = {"take"}
        /\ \A u \in Threads \ {t} : todo'[u] = todo[u] /\ Left(u)' = Left(u)
        /\ Takers' = Takers \cup {t}
    BY <1>1, <2>4, <2>5, TakersNext
  <2>7. Takers' = Takers
    BY <2>5, <2>6 DEF Takers
  <2>8. DOMAIN reg' = Threads /\ \A u \in Threads : reg'[u] = reg[u]
    BY <1>1, <2>4 DEF TpuCalls
  <2>9. \A u \in Threads : AsksInOrder(u)'
    <3> SUFFICES ASSUME NEW u \in Threads PROVE AsksInOrder(u)'
      OBVIOUS
    <3>1. CASE u = t
      BY <1>2, <2>1, <2>3, <2>5, <2>6, <2>8, <3>1 DEF AsksInOrder
    <3>2. CASE u # t
      <4>1. AsksInOrder(u) /\ todo'[u] = todo[u] /\ Left(u)' = Left(u)
        BY <1>1, <2>6, <3>2 DEF TpuCalls
      <4>2. QED
        BY <1>2, <2>8, <4>1 DEF AsksInOrder
    <3>3. QED
      BY <3>1, <3>2
  <2>10. TpuCalls'
    BY <1>1, <1>2, <2>4, <2>8, <2>9 DEF TpuCalls
  <2>11. Configured /\ BroughtUp
    BY <2>1 DEF Configured, BroughtUp
  <2>12. /\ Cardinality(Takers) \in Nat /\ Calls \in Int /\ calls \in Int
         /\ Before \in 0 .. 2 /\ Spare \in Int
    BY <1>1, CountsAreIntegers DEF TpuCalls
  <2>13. Spare' \in Int /\ Spare <= Spare'
    BY <2>4, <2>7, <2>11, <2>12 DEF Spare, Before
  <2>14. TpuBuffers' /\ offset' \in Nat
    BY <1>2 DEF TpuInv, TpuBuffers
  <2>15. QED
    BY <1>2, <2>10, <2>13, <2>14, StillBounded DEF TpuInv
<1>5. QED
  BY <1>3, <1>4

(* The fetch_add of a request: the offset grows by what was asked.         *)
LEMMA TakeIsInOrder ==
  ASSUME WordHoldsCalls, TpuInv, NEW t \in Threads, T!Take(t)
  PROVE  TpuInv'
<1>1. TpuCalls /\ AsksInOrder(t) /\ todo[t] # <<>> /\ Head(todo[t]) = "take"
  BY DEF TpuInv, TpuCalls, T!Take, T!At
<1>2. "take" \in Left(t)
  <2>1. 1 \in DOMAIN todo[t] /\ todo[t][1] = "take"
    BY <1>1 DEF AsksInOrder
  <2>2. QED
    BY <2>1 DEF Left, StepsIn
<1>3. todo[t] = <<"take">> /\ region_base = Base /\ reg[t].size \in Sizes
  <2>1. todo[t] # <<"region?", "take">>
    BY <1>1
  <2>2. QED
    BY <1>1, <1>2, <2>1 DEF AsksInOrder
<1> DEFINE size == reg[t].size
<1>4. size \in Nat /\ size > 0
  <2>1. size \in Sizes
    BY <1>3
  <2> HIDE DEF size
  <2>2. size \in Nat \ {0}
    BY <2>1, SizesAssumption
  <2>3. QED
    BY <2>2
<1>5. UNCHANGED <<region_base, probe_base, calls>>
  BY DEF T!Take, T!device, T!Proceed, T!Go
<1>6. todo' = [todo EXCEPT ![t] = <<>>] /\ reg' = [reg EXCEPT ![t] = T!Free]
  <2>1. Tail(todo[t]) = <<>>
    BY <1>3
  <2>2. QED
    BY <2>1 DEF T!Take, T!Proceed, T!Go
<1>7. StepsIn(<<>>) = {} /\ <<>> \in Seq(StepNames)
  BY DEF StepsIn
<1>8. /\ todo'[t] = <<>> /\ Left(t)' = {}
      /\ \A u \in Threads \ {t} : todo'[u] = todo[u] /\ Left(u)' = Left(u)
      /\ Takers' = Takers \ {t}
  BY <1>1, <1>6, <1>7, TakersNext
<1>9. \A u \in Threads : AsksInOrder(u)'
  <2> SUFFICES ASSUME NEW u \in Threads PROVE AsksInOrder(u)'
    OBVIOUS
  <2>1. CASE u = t
    BY <1>7, <1>8, <2>1 DEF AsksInOrder
  <2>2. CASE u # t
    <3>1. AsksInOrder(u) /\ todo'[u] = todo[u] /\ Left(u)' = Left(u) /\ reg'[u] = reg[u]
      BY <1>1, <1>6, <1>8, <2>2 DEF TpuCalls
    <3>2. QED
      BY <1>5, <3>1 DEF AsksInOrder
  <2>3. QED
    BY <2>1, <2>2
<1>10. TpuCalls'
  BY <1>1, <1>5, <1>6, <1>9 DEF TpuCalls
<1>11. Before = 2 /\ Before' = 2
  BY <1>3, <1>5 DEF Before, Configured, BroughtUp
<1>12. t \in Takers /\ IsFiniteSet(Takers) /\ Cardinality(Takers) \in Nat /\ Spare \in Int /\ Calls \in Int
  BY <1>1, <1>2, CountsAreIntegers DEF Takers
<1>13. Cardinality(Takers') = Cardinality(Takers) - 1 /\ Cardinality(Takers') \in Nat
  <2>1. IsFiniteSet(Takers \ {t}) /\ Cardinality(Takers \ {t}) = IF t \in Takers THEN Cardinality(Takers) - 1 ELSE Cardinality(Takers)
    BY <1>12, FS_RemoveElement
  <2>2. Cardinality(Takers \ {t}) \in Nat
    BY <2>1, FS_CardinalityType
  <2>3. QED
    BY <1>8, <1>12, <2>1, <2>2
<1>14. Spare' = Spare + 1 /\ Spare + 1 <= Calls - 2 /\ Spare' \in Int
  BY <1>1, <1>5, <1>11, <1>12, <1>13 DEF Spare, TpuCalls
<1>15. ASSUME NEW m \in Nat, \A s \in Sizes : s <= m
       PROVE  offset + size <= m * Spare' /\ m * Spare' <= m * (Calls - 2) /\ m * Spare' \in Int /\ m * (Calls - 2) \in Int
  <2>1. offset <= m * Spare /\ offset \in Nat /\ size <= m
    BY <1>3, <1>15 DEF TpuInv
  <2>2. m * (Spare + 1) = m * Spare + m /\ m * Spare \in Int
    BY <1>12
  <2>3. \A a, b \in Int : a <= b => m * a \in Int /\ m * b \in Int /\ m * a <= m * b
    BY MoreOfThem
  <2>4. Calls - 2 \in Int /\ Spare + 1 \in Int
    BY <1>12
  <2>5. m * (Spare + 1) <= m * (Calls - 2) /\ m * (Calls - 2) \in Int /\ m * (Spare + 1) \in Int
    BY <1>14, <2>3, <2>4, Zenon
  <2> DEFINE one == m * (Spare + 1)
             most == m * (Calls - 2)
             low == m * Spare
  <2>6. one = low + m /\ low \in Int /\ one \in Int /\ most \in Int /\ one <= most /\ offset <= low
    BY <2>1, <2>2, <2>5
  <2>7. Spare' = Spare + 1
    BY <1>14
  <2> HIDE DEF low
  <2>8. offset + size <= one
    BY <1>4, <2>1, <2>6
  <2>9. QED
    BY <2>6, <2>7, <2>8
<1>16. offset \in Nat /\ offset + size < Word
  <2>1. PICK m \in Nat : (\A s \in Sizes : s <= m) /\ Word > m * (Calls - 2)
    BY DEF WordHoldsCalls
  <2>2. offset + size <= m * Spare' /\ m * Spare' <= m * (Calls - 2) /\ m * Spare' \in Int /\ m * (Calls - 2) \in Int
    BY <1>15, <2>1
  <2> DEFINE b == m * Spare'
             c == m * (Calls - 2)
  <2>3. offset + size <= b /\ b <= c /\ c < Word /\ b \in Int /\ c \in Int
    BY <2>1, <2>2
  <2> HIDE DEF b, c
  <2>4. offset \in Nat
    BY DEF TpuInv
  <2>5. QED
    BY <1>4, <2>3, <2>4, WordAssumption
<1>17. offset' = offset + size
  BY <1>4, <1>16, WordAssumption DEF T!Take
<1> HIDE DEF size
<1>18. TpuBuffers'
  <2>1. TpuBuffers
    BY DEF TpuInv
  <2>2. CASE T!Fits(offset, size)
    <3>1. offset + size <= Region
      BY <1>4, <1>16, <2>2, WordAssumption DEF T!Fits
    <3>2. (Base + offset) % Word = Base + offset
      BY <1>4, <1>16, <3>1, WordAssumption, RegionAssumption DEF Base
    <3> DEFINE new == [at |-> Base + offset, size |-> size]
    <3>3. buffers' = buffers \cup {new}
      BY <1>3, <2>2, <3>2 DEF T!Take, T!Lend, size
    <3>4. new.at = Base + offset /\ new.size = size
      OBVIOUS
    <3> HIDE DEF new
    <3>5. ASSUME NEW b \in buffers'
          PROVE  /\ b.at \in Nat /\ b.size \in Nat
                 /\ Base <= b.at /\ b.at + b.size <= Base + offset' /\ b.at + b.size <= Base + Region
      <4>1. CASE b = new
        BY <1>4, <1>16, <1>17, <3>1, <3>4, <4>1, RegionAssumption DEF Base
      <4>2. CASE b \in buffers
        BY <1>4, <1>16, <1>17, <2>1, <4>2, RegionAssumption DEF TpuBuffers, Base
      <4>3. QED
        BY <3>3, <4>1, <4>2
    <3>6. ASSUME NEW b \in buffers', NEW c \in buffers', b # c
          PROVE  Clear(b.at, b.size, c.at, c.size)
      <4>1. CASE b \in buffers /\ c \in buffers
        BY <2>1, <3>6, <4>1 DEF TpuBuffers
      <4>2. CASE b = new /\ c \in buffers
        BY <2>1, <3>4, <4>2 DEF TpuBuffers, Clear
      <4>3. CASE b \in buffers /\ c = new
        BY <2>1, <3>4, <4>3 DEF TpuBuffers, Clear
      <4>4. QED
        BY <3>3, <3>6, <4>1, <4>2, <4>3
    <3>7. QED
      BY <3>5, <3>6 DEF TpuBuffers
  <2>3. CASE ~T!Fits(offset, size)
    <3>1. buffers' = buffers
      BY <2>3 DEF T!Take, size
    <3>2. ASSUME NEW b \in buffers PROVE b.at + b.size <= Base + offset'
      BY <1>4, <1>16, <1>17, <2>1, RegionAssumption DEF TpuBuffers, Base
    <3>3. QED
      BY <2>1, <3>1, <3>2 DEF TpuBuffers
  <2>4. QED
    BY <2>2, <2>3
<1>19. offset' \in Nat
  BY <1>4, <1>16, <1>17
<1>20. ASSUME NEW m \in Nat, \A s \in Sizes : s <= m PROVE offset' <= m * Spare'
  BY <1>15, <1>17, <1>20 DEF size
<1>21. QED
  BY <1>10, <1>18, <1>19, <1>20 DEF TpuInv

(* The calls that begin.                                                   *)
LEMMA TpuCallsBegin ==
  ASSUME TpuInv, NEW t \in Threads,
         \/ \E base \in {0, Base} : T!Configure(t, base)
         \/ T!ProbeDevice(t)
         \/ \E size \in Sizes : T!DmaAlloc(t, size)
         \/ \E attrs \in {"cached", "device"} : T!SmmuSetAttrs(t, attrs)
         \/ T!Submit(t)
  PROVE  TpuInv'
<1>1. CASE \E base \in {0, Base} : T!Configure(t, base)
  BY <1>1, ConfigureIsCounted
<1>2. CASE T!ProbeDevice(t)
  <2> DEFINE program == <<"probe_base", "device_id", "mmio_base", "reset", "enable", "claim",
                          "start", "search", "region_base", "initialized">>
  <2>1. T!Call(t, program, [T!Free EXCEPT !.attrs = "device"])
    BY <1>2 DEF T!ProbeDevice, T!BringUp
  <2>2. program \in Seq(StepNames)
    BY DEF StepNames
  <2>3. StepsIn(program) = {"probe_base", "device_id", "mmio_base", "reset", "enable", "claim",
                            "start", "search", "region_base", "initialized"}
    BY DEF StepsIn
  <2>4. Head(program) = "probe_base"
    OBVIOUS
  <2>5. "probe_base" \notin StepsIn(Tail(program))
    <3>1. Tail(program) = <<"device_id", "mmio_base", "reset", "enable", "claim",
                            "start", "search", "region_base", "initialized">>
      OBVIOUS
    <3>2. QED
      BY <3>1 DEF StepsIn
  <2> HIDE DEF program
  <2>6. QED
    BY <2>1, <2>2, <2>3, <2>4, <2>5, CallIsCounted
<1>3. CASE \E size \in Sizes : T!DmaAlloc(t, size)
  <2>1. PICK size \in Sizes : T!DmaAlloc(t, size)
    BY <1>3
  <2> DEFINE program == <<"region?", "take">>
             locals == [T!Free EXCEPT !.size = size]
  <2>2. T!Call(t, program, locals)
    BY <2>1 DEF T!DmaAlloc
  <2>3. program \in Seq(StepNames) /\ StepsIn(program) = {"region?", "take"}
    BY DEF StepNames, StepsIn
  <2>4. locals.size = size
    BY DEF T!Free
  <2> HIDE DEF locals
  <2>5. QED
    BY <2>2, <2>3, <2>4, CallIsCounted
<1>4. CASE \E attrs \in {"cached", "device"} : T!SmmuSetAttrs(t, attrs)
  <2>1. PICK attrs \in {"cached", "device"} : T!SmmuSetAttrs(t, attrs)
    BY <1>4
  <2> DEFINE program == <<"start", "search", "settled">>
             locals == [T!Free EXCEPT !.id = held[t].id, !.attrs = attrs]
  <2>2. T!Call(t, program, locals)
    BY <2>1 DEF T!SmmuSetAttrs
  <2>3. program \in Seq(StepNames) /\ StepsIn(program) = {"start", "search", "settled"}
    BY DEF StepNames, StepsIn
  <2> HIDE DEF locals, program
  <2>4. QED
    BY <2>2, <2>3, CallIsCounted
<1>5. CASE T!Submit(t)
  <2> DEFINE program == <<"mmio_base?", "command">>
  <2>1. T!Call(t, program, T!Free)
    BY <1>5 DEF T!Submit
  <2>2. program \in Seq(StepNames) /\ StepsIn(program) = {"mmio_base?", "command"}
    BY DEF StepNames, StepsIn
  <2> HIDE DEF program
  <2>3. QED
    BY <2>1, <2>2, CallIsCounted
<1>6. QED
  BY <1>1, <1>2, <1>3, <1>4, <1>5

(* The steps that put others in front of what is left, or turn around.     *)
LEMMA TpuDetours ==
  ASSUME TpuInv, NEW t \in Threads,
         T!Claim(t) \/ T!StartSearch(t) \/ T!Search(t, Streams, T!SetFound)
  PROVE  TpuInv'
<1>1. CASE T!Claim(t)
  <2> DEFINE pre == IF stream_count < Streams
                    THEN IF card.arch = "arm" THEN T!PublishArm ELSE T!PublishX86 ELSE <<"unclaim">>
             locals == [reg[t] EXCEPT !.slot = stream_count,
                                      !.id = IF stream_count < Streams THEN T!TpuStream ELSE NoStream]
  <2>1. /\ T!At(t, "claim") /\ T!Go(t, pre \o Tail(todo[t]), locals)
        /\ UNCHANGED <<region_base, probe_base, offset, buffers>>
    BY <1>1 DEF T!Claim, T!ClaimStream, T!dma, T!device, T!NoStream, NoStream
  <2>2. /\ pre \in Seq(StepNames)
        /\ StepsIn(pre) \subseteq {"store_id", "store_attrs", "dart_base", "bypass", "unclaim"}
    <3>1. /\ T!PublishArm \in Seq(StepNames) /\ T!PublishX86 \in Seq(StepNames) /\ <<"unclaim">> \in Seq(StepNames)
      BY DEF T!PublishArm, T!PublishX86, StepNames
    <3>2. /\ StepsIn(T!PublishArm) = {"store_id", "store_attrs", "dart_base", "bypass"}
          /\ StepsIn(T!PublishX86) = {"store_id", "store_attrs"} /\ StepsIn(<<"unclaim">>) = {"unclaim"}
      BY DEF T!PublishArm, T!PublishX86, StepsIn
    <3>3. QED
      BY <3>1, <3>2
  <2> HIDE DEF pre, locals
  <2>3. QED
    BY <2>1, <2>2, DetourIsQuiet
<1>2. CASE T!StartSearch(t)
  <2> DEFINE locals == [reg[t] EXCEPT !.slot = 0]
  <2>1. /\ T!At(t, "start") /\ T!Go(t, Tail(todo[t]), locals)
        /\ UNCHANGED <<region_base, probe_base, offset, buffers>>
    BY <1>2 DEF T!StartSearch, T!dma, T!device
  <2>2. <<>> \in Seq(StepNames) /\ StepsIn(<<>>) = {} /\ <<>> \o Tail(todo[t]) = Tail(todo[t])
    <3>1. Tail(todo[t]) \in Seq(StepNames)
      BY <2>1, AfterAStep
    <3>2. QED
      BY <3>1 DEF StepsIn
  <2> HIDE DEF locals
  <2>3. QED
    BY <2>1, <2>2, DetourIsQuiet
<1>3. CASE T!Search(t, Streams, T!SetFound)
  <2>1. T!At(t, "search") /\ UNCHANGED <<region_base, probe_base, offset, buffers>>
    BY <1>3 DEF T!Search, T!dma, T!device
  <2>2. CASE T!Proceed(t)
    BY <2>1, <2>2, ProceedIsQuiet
  <2>3. CASE T!Go(t, T!SetFound \o Tail(todo[t]), reg[t])
    <3>1. T!SetFound \in Seq(StepNames)
      <4>1. T!SetFoundArm \in Seq(StepNames) /\ T!SetFoundX86 \in Seq(StepNames)
        BY DEF T!SetFoundArm, T!SetFoundX86, StepNames
      <4>2. QED
        BY <4>1 DEF T!SetFound
    <3>2. StepsIn(T!SetFound) \subseteq {"set_attrs", "context"}
      <4>1. StepsIn(T!SetFoundArm) = {"set_attrs", "context"} /\ StepsIn(T!SetFoundX86) = {"set_attrs"}
        BY DEF T!SetFoundArm, T!SetFoundX86, StepsIn
      <4>2. QED
        BY <4>1 DEF T!SetFound
    <3>3. QED
      BY <2>1, <2>3, <3>1, <3>2, DetourIsQuiet
  <2>4. CASE T!Go(t, todo[t], [reg[t] EXCEPT !.slot = reg[t].slot + 1])
    <3> DEFINE l == IF todo[t] = <<>> THEN T!Free ELSE [reg[t] EXCEPT !.slot = reg[t].slot + 1]
    <3>1. todo' = [todo EXCEPT ![t] = todo[t]] /\ reg' = [reg EXCEPT ![t] = l] /\ calls' = calls
      BY <2>4 DEF T!Go
    <3>2. /\ todo[t] \in Seq(StepNames) /\ Left(t) \cap {"take", "region?", "probe_base"} = {}
          /\ "region_base" \in Left(t) => Configured
      BY <2>1, AfterAStep
    <3> HIDE DEF l
    <3>3. QED
      BY <2>1, <3>1, <3>2, QuietMove DEF Left
  <2>5. QED
    BY <1>3, <2>2, <2>3, <2>4 DEF T!Search
<1>4. QED
  BY <1>1, <1>2, <1>3

(* The steps that only move on, and those that may end a call.             *)
LEMMA TpuMoves ==
  ASSUME TpuInv, NEW t \in Threads,
         \/ T!ReadProbeBase(t) \/ T!ReadDeviceId(t) \/ T!StoreMmioBase(t) \/ T!Reset(t) \/ T!Enable(t)
         \/ T!UnclaimStream(t) \/ T!StoreStreamId(t) \/ T!StoreStreamAttrs(t, T!FirstAttrs)
         \/ T!StoreDartBase(t) \/ T!Bypass(t)
         \/ T!SetStreamAttrs(t) \/ T!WriteContext(t, T!Context(reg[t].attrs)) \/ T!Settled(t)
         \/ T!StoreRegionBase(t) \/ T!Finish(t)
         \/ T!ReadMmioBase(t) \/ T!Command(t)
  PROVE  TpuInv'
<1> USE DEF T!dma, T!device
<1>1. CASE T!ReadProbeBase(t)
  <2>1. T!At(t, "probe_base") /\ UNCHANGED <<region_base, probe_base, offset, buffers>>
    BY <1>1 DEF T!ReadProbeBase
  <2>2. CASE probe_base = 0
    BY <1>1, <2>1, <2>2, StopIsQuiet DEF T!ReadProbeBase
  <2>3. CASE probe_base # 0
    <3>1. probe_base = Base => Configured
      BY DEF Configured
    <3>2. T!Proceed(t)
      BY <1>1, <2>3 DEF T!ReadProbeBase
    <3>3. probe_base = Base
      BY <2>3 DEF TpuInv, TpuCalls
    <3>4. QED
      BY <2>1, <3>1, <3>2, <3>3, ProceedIsQuiet
  <2>4. QED
    BY <2>2, <2>3
<1>2. CASE T!ReadDeviceId(t)
  BY <1>2, StopIsQuiet, ProceedIsQuiet DEF T!ReadDeviceId
<1>3. CASE T!ReadMmioBase(t)
  BY <1>3, StopIsQuiet, ProceedIsQuiet DEF T!ReadMmioBase
<1>4. CASE T!StoreRegionBase(t)
  <2>1. region_base' = Base
    BY <1>4 DEF T!StoreRegionBase, T!Base, Base
  <2>2. T!At(t, "region_base") /\ T!Proceed(t) /\ UNCHANGED <<probe_base, offset, buffers>>
    BY <1>4 DEF T!StoreRegionBase
  <2>3. QED
    BY <2>1, <2>2, ProceedIsQuiet
<1>5. CASE T!StoreMmioBase(t)
  BY <1>5, ProceedIsQuiet DEF T!StoreMmioBase
<1>6. CASE T!Reset(t)
  BY <1>6, ProceedIsQuiet DEF T!Reset
<1>7. CASE T!Enable(t)
  BY <1>7, ProceedIsQuiet DEF T!Enable
<1>8. CASE T!UnclaimStream(t)
  BY <1>8, ProceedIsQuiet DEF T!UnclaimStream
<1>9. CASE T!StoreStreamId(t)
  BY <1>9, ProceedIsQuiet DEF T!StoreStreamId
<1>10. CASE T!StoreStreamAttrs(t, T!FirstAttrs)
  BY <1>10, ProceedIsQuiet DEF T!StoreStreamAttrs
<1>11. CASE T!StoreDartBase(t)
  BY <1>11, ProceedIsQuiet DEF T!StoreDartBase
<1>12. CASE T!Bypass(t)
  BY <1>12, ProceedIsQuiet DEF T!Bypass
<1>13. CASE T!SetStreamAttrs(t)
  BY <1>13, ProceedIsQuiet DEF T!SetStreamAttrs
<1>14. CASE T!WriteContext(t, T!Context(reg[t].attrs))
  BY <1>14, ProceedIsQuiet DEF T!WriteContext
<1>15. CASE T!Settled(t)
  BY <1>15, ProceedIsQuiet DEF T!Settled
<1>16. CASE T!Finish(t)
  BY <1>16, ProceedIsQuiet DEF T!Finish
<1>17. CASE T!Command(t)
  BY <1>17, ProceedIsQuiet DEF T!Command
<1>18. QED
  BY <1>1, <1>2, <1>3, <1>4, <1>5, <1>6, <1>7, <1>8, <1>9, <1>10, <1>11, <1>12, <1>13, <1>14, <1>15, <1>16, <1>17

(* Every step keeps the invariant.                                         *)
LEMMA TpuStepIsSafe ==
  ASSUME WordHoldsCalls, TpuInv, NEW t \in Threads, T!Steps(t)
  PROVE  TpuInv'
<1>1. CASE \/ \E base \in {0, Base} : T!Configure(t, base)
           \/ T!ProbeDevice(t)
           \/ \E size \in Sizes : T!DmaAlloc(t, size)
           \/ \E attrs \in {"cached", "device"} : T!SmmuSetAttrs(t, attrs)
           \/ T!Submit(t)
  BY <1>1, TpuCallsBegin
<1>2. CASE T!Claim(t) \/ T!StartSearch(t) \/ T!Search(t, Streams, T!SetFound)
  BY <1>2, TpuDetours
<1>3. CASE \/ T!ReadProbeBase(t) \/ T!ReadDeviceId(t) \/ T!StoreMmioBase(t) \/ T!Reset(t) \/ T!Enable(t)
           \/ T!UnclaimStream(t) \/ T!StoreStreamId(t) \/ T!StoreStreamAttrs(t, T!FirstAttrs)
           \/ T!StoreDartBase(t) \/ T!Bypass(t)
           \/ T!SetStreamAttrs(t) \/ T!WriteContext(t, T!Context(reg[t].attrs)) \/ T!Settled(t)
           \/ T!StoreRegionBase(t) \/ T!Finish(t)
           \/ T!ReadMmioBase(t) \/ T!Command(t)
  BY <1>3, TpuMoves
<1>4. CASE T!ReadRegionBase(t)
  BY <1>4, AskIsInOrder
<1>5. CASE T!Take(t)
  BY <1>5, TakeIsInOrder
<1>6. T!Base = Base
  BY DEF T!Base, Base
<1>7. QED
  BY <1>1, <1>2, <1>3, <1>4, <1>5, <1>6 DEF T!Steps

(* With the word it needs.                                                 *)
TpuSafe == WordHoldsCalls /\ TpuInv

(* The invariant of the tensor accelerator's region.                       *)
LEMMA TpuInvariantHolds == WordHoldsCalls /\ TpuSpec => []TpuSafe
<1>1. WordHoldsCalls /\ TpuInit => TpuSafe
  <2> SUFFICES ASSUME WordHoldsCalls, TpuInit PROVE TpuSafe
    OBVIOUS
  <2>1. /\ DOMAIN todo = Threads /\ DOMAIN reg = Threads /\ \A t \in Threads : todo[t] = <<>>
        /\ calls = Calls /\ probe_base = 0 /\ region_base = 0 /\ offset = 0 /\ buffers = {}
    BY DEF TpuInit, Init
  <2>2. \A t \in Threads : Left(t) = {}
    BY <2>1 DEF Left, StepsIn
  <2>3. \A t \in Threads : AsksInOrder(t)
    <3>1. <<>> \in Seq(StepNames)
      OBVIOUS
    <3>2. QED
      BY <2>1, <2>2, <3>1 DEF AsksInOrder
  <2>4. TpuCalls /\ TpuBuffers
    BY <2>1, <2>3, CallsAssumption DEF TpuCalls, TpuBuffers
  <2>5. Takers = {} /\ Cardinality(Takers) = 0
    BY <2>2, FS_EmptySet DEF Takers
  <2>6. Before = 0
    BY <2>1, <2>2, RegionAssumption DEF Before, Configured, BroughtUp, Base
  <2>7. Spare = 0
    BY <2>1, <2>5, <2>6, CallsAssumption DEF Spare
  <2>8. QED
    BY <2>1, <2>4, <2>7 DEF TpuInv, TpuSafe
<1>2. TpuSafe /\ [\E t \in Threads : T!Steps(t)]_vars => TpuSafe'
  <2> SUFFICES ASSUME TpuSafe, [\E t \in Threads : T!Steps(t)]_vars PROVE TpuSafe'
    OBVIOUS
  <2>1. CASE UNCHANGED vars
    <3>1. UNCHANGED <<todo, reg, calls, probe_base, region_base, offset, buffers>>
      BY <2>1 DEF vars, dma, device
    <3>2. \A u \in Threads : Left(u)' = Left(u) /\ (AsksInOrder(u)' <=> AsksInOrder(u))
      BY <3>1 DEF Left, AsksInOrder
    <3>3. Takers' = Takers /\ (Configured' <=> Configured) /\ (BroughtUp' <=> BroughtUp)
      BY <3>1, <3>2 DEF Takers, Configured, BroughtUp
    <3>4. Spare' = Spare
      BY <3>1, <3>3 DEF Spare, Before
    <3>5. TpuCalls' /\ TpuBuffers'
      BY <3>1, <3>2 DEF TpuSafe, TpuInv, TpuCalls, TpuBuffers
    <3>6. QED
      BY <3>1, <3>4, <3>5 DEF TpuSafe, TpuInv
  <2>2. CASE \E t \in Threads : T!Steps(t)
    BY <2>2, TpuStepIsSafe DEF TpuSafe
  <2>3. QED
    BY <2>1, <2>2
<1>3. QED
  BY <1>1, <1>2, PTL DEF TpuSpec

(* The tensor accelerator lends no byte twice either.                      *)
LEMMA TpuLoansAreApart == WordHoldsCalls /\ TpuSpec => []BuffersAreDisjoint
<1>1. TpuSafe => BuffersAreDisjoint
  <2> SUFFICES ASSUME TpuSafe
               PROVE  /\ \A b \in buffers : Bytes(b) \subseteq Base .. Base + Region - 1
                      /\ \A b, c \in buffers : b # c => Bytes(b) \cap Bytes(c) = {}
    BY DEF BuffersAreDisjoint
  <2>1. TpuBuffers /\ Base \in Nat /\ Region \in Nat
    BY RegionAssumption DEF TpuSafe, TpuInv, Base
  <2>2. \A b \in buffers : Bytes(b) \subseteq Base .. Base + Region - 1
    BY <2>1 DEF TpuBuffers, Bytes
  <2>3. \A b, c \in buffers : b # c => Bytes(b) \cap Bytes(c) = {}
    BY <2>1 DEF TpuBuffers, Bytes, Clear
  <2>4. QED
    BY <2>2, <2>3
<1>2. QED
  BY <1>1, TpuInvariantHolds, PTL

-----------------------------------------------------------------------------
(* The drivers together, as the run has them.                              *)

(* Which accelerator a behaviour is about.                                 *)
IsLpu == card.kind = "lpu"
IsTpu == card.kind = "tpu"

(* Which driver it is does not change.                                     *)
LEMMA CardStays ==
  ASSUME NEW t \in Threads, Steps(t) \/ T!Steps(t)
  PROVE  card' = card
<1>1. CASE Steps(t)
  BY <1>1 DEF Steps, Call, Go, Proceed, Configure, ProbeDevice, DmaAlloc, SmmuSetAttrs, Submit,
       ReadProbeBase, ReadDeviceId, StoreMmioBase, Reset, Enable, Claim, ClaimStream, UnclaimStream,
       StoreStreamId, StoreStreamAttrs, StoreDartBase, Bypass, CountStreams, Search, SetStreamAttrs,
       WriteContext, Settled, StoreRegionBase, RewindRegion, RegionReady, Finish, Take, GiveBack,
       Address, IsInitialized, Command
<1>2. CASE T!Steps(t)
  BY <1>2 DEF T!Steps, T!Call, T!Go, T!Proceed, T!Configure, T!ProbeDevice, T!DmaAlloc, T!SmmuSetAttrs,
       T!Submit, T!ReadProbeBase, T!ReadDeviceId, T!StoreMmioBase, T!Reset, T!Enable, T!Claim,
       T!ClaimStream, T!UnclaimStream, T!StoreStreamId, T!StoreStreamAttrs, T!StoreDartBase, T!Bypass,
       T!StartSearch, T!Search, T!SetStreamAttrs, T!WriteContext, T!Settled, T!StoreRegionBase,
       T!Finish, T!ReadRegionBase, T!Take, T!ReadMmioBase, T!Command
<1>3. QED
  BY <1>1, <1>2

(* A behaviour of the whole is one of an LPU or one of a TPU.              *)
LEMMA OneOfTheDrivers == MCSpec => (IsLpu => LpuSpec) /\ (~IsLpu => TpuSpec /\ []IsTpu)
<1>1. ASSUME MCInit PROVE (IsLpu => LpuInit) /\ (~IsLpu => TpuInit /\ IsTpu)
  <2>1. Init /\ card \in [kind : Kinds, arch : Archs] /\ card.kind \in Kinds
    BY <1>1 DEF MCInit
  <2>2. IsLpu => card \in [kind : {"lpu"}, arch : Archs]
    BY <2>1 DEF IsLpu
  <2>3. ~IsLpu => card.kind = "tpu"
    BY <2>1 DEF IsLpu, Kinds
  <2>4. ~IsLpu => card \in [kind : {"tpu"}, arch : Archs]
    BY <2>1, <2>3
  <2>5. QED
    BY <2>1, <2>2, <2>3, <2>4 DEF LpuInit, TpuInit, IsTpu
<1>2. ASSUME [MCNext]_all
      PROVE  /\ UNCHANGED vars \/ (card' = card /\ \E t \in Threads : DriverStep(t))
  <2>1. CASE UNCHANGED all
    BY <2>1 DEF all
  <2>2. CASE MCNext
    <3>1. CASE UNCHANGED vars
      BY <3>1
    <3>2. CASE \E t \in Threads : DriverStep(t)
      <4>1. PICK t \in Threads : DriverStep(t)
        BY <3>2
      <4>2. card' = card
        BY <4>1, CardStays DEF DriverStep
      <4>3. QED
        BY <4>1, <4>2
    <3>3. QED
      BY <2>2, <3>1, <3>2 DEF MCNext
  <2>3. QED
    BY <1>2, <2>1, <2>2
<1>3. ASSUME [MCNext]_all, IsLpu PROVE [\E t \in Threads : Steps(t)]_vars /\ IsLpu'
  BY <1>2, <1>3 DEF IsLpu, DriverStep, vars
<1>4. ASSUME [MCNext]_all, IsTpu PROVE [\E t \in Threads : T!Steps(t)]_vars /\ IsTpu'
  BY <1>2, <1>4 DEF IsTpu, DriverStep, vars
<1>5. QED
  BY <1>1, <1>3, <1>4, PTL DEF MCSpec, LpuSpec, TpuSpec

(* A command reaches an LPU only after some bring-up reset it, set up its  *)
(* region and gave it a stream, for any number of threads that bring it up *)
(* and submit at the same time (lpu/mod.rs, device.rs).                    *)
THEOREM CommandsFollowSetUp == MCSpec => []CommandsFollowBringUp
<1>1. IsTpu => CommandsFollowBringUp
  BY DEF IsTpu, CommandsFollowBringUp
<1>2. QED
  BY <1>1, OneOfTheDrivers, LpuCommandsFollow, PTL

(* The thread that owns a stream of an LPU finds in the stream's slot the  *)
(* attributes it set last, and the device's register agrees, for any       *)
(* number of threads that bring the device up and set attributes at the    *)
(* same time (smmu.rs: the search after a claim finds the claimed slot).   *)
THEOREM StreamsAreKept == MCSpec => []StreamsKeepTheirSlot
<1>1. IsTpu => StreamsKeepTheirSlot
  BY DEF IsTpu, StreamsKeepTheirSlot
<1>2. QED
  BY <1>1, OneOfTheDrivers, LpuStreamsAreKept, PTL

(* When no request is under way, the offset of an LPU is the sum of what   *)
(* was lent, however the fetch_add and the fetch_sub of any number of      *)
(* requests interleaved, unless a set-up came under a request (dma.rs).    *)
THEOREM RefusalsAreTakenBack == WordHoldsRequests /\ MCSpec => []RefusalsGiveBack
<1>1. IsTpu => RefusalsGiveBack
  BY DEF IsTpu, RefusalsGiveBack
<1>2. QED
  BY <1>1, OneOfTheDrivers, LpuRefusalsAreTakenBack, PTL

(* No two buffers lent from the region of either accelerator share a byte, *)
(* and none reaches past the region's end, for any number of threads that  *)
(* ask at the same time and are refused: the comparison follows the        *)
(* fetch_add (lpu/dma.rs, tpu/dma.rs).                                     *)
THEOREM LentBuffersAreDisjoint ==
  WordHoldsRequests /\ WordHoldsCalls /\ MCSpec => []BuffersAreDisjoint
BY OneOfTheDrivers, LpuBuffersAreDisjoint, TpuLoansAreApart, PTL

-----------------------------------------------------------------------------
(* The guardian. *)

(* initialize installs the CPU reader before the memory reader, and both   *)
(* before it returns.                                                      *)
ReadersAreSet ==
  /\ setup \in {"memory_reader", "done"} => cpu_reader
  /\ setup = "done" => memory_reader

(* An authorization that began after initialize had returned found the CPU *)
(* within its limit, and is not refused.                                   *)
LatePasses ==
  \A p \in Processes : asking[p].late =>
    setup = "done" /\ asking[p].cpu /\ asking[p].at # "refuse"

GuardianInv == GuardianTypeOK /\ ReadersAreSet /\ LatePasses

(* Nothing is set up and nobody is asking at first.                        *)
LEMMA GuardianInitIsSafe == ASSUME GuardianInit PROVE GuardianInv
<1>1. NotAsking \in [at : Asks, cpu : BOOLEAN, late : BOOLEAN] /\ ~NotAsking.late
  BY DEF NotAsking, Asks
<1>2. asking \in [Processes -> [at : Asks, cpu : BOOLEAN, late : BOOLEAN]]
  BY <1>1 DEF GuardianInit
<1>3. GuardianTypeOK
  BY <1>2 DEF GuardianInit, GuardianTypeOK, SetupSteps
<1>4. ReadersAreSet
  BY DEF GuardianInit, ReadersAreSet
<1>5. LatePasses
  BY <1>1 DEF GuardianInit, LatePasses
<1>6. QED
  BY <1>3, <1>4, <1>5 DEF GuardianInv

(* A step of initialize keeps the limits and readers in order.             *)
LEMMA InitializeIsSafe == ASSUME GuardianInv, Initialize PROVE GuardianInv'
<1>1. GuardianTypeOK'
  BY DEF GuardianInv, GuardianTypeOK, Initialize, InitializeSteps, SetupSteps
<1>2. ReadersAreSet'
  BY DEF GuardianInv, GuardianTypeOK, ReadersAreSet, Initialize, InitializeSteps
<1>3. LatePasses'
  BY DEF GuardianInv, LatePasses, Initialize, InitializeSteps
<1>4. QED
  BY <1>1, <1>2, <1>3 DEF GuardianInv

(* What an authorization sees of one process alone.                        *)
LEMMA SeeIsSafe ==
  ASSUME GuardianInv, NEW p \in Processes,
         NEW next \in [at : Asks, cpu : BOOLEAN, late : BOOLEAN],
         next.late => setup = "done" /\ next.cpu /\ next.at # "refuse",
         See(p, next)
  PROVE  GuardianInv'
<1>1. UNCHANGED policy /\ asking' = [asking EXCEPT ![p] = next]
  BY DEF See
<1>2. GuardianTypeOK'
  BY <1>1 DEF GuardianInv, GuardianTypeOK, policy
<1>3. ReadersAreSet'
  BY <1>1 DEF GuardianInv, ReadersAreSet, policy
<1>4. LatePasses'
  BY <1>1 DEF GuardianInv, GuardianTypeOK, LatePasses, policy
<1>5. QED
  BY <1>2, <1>3, <1>4 DEF GuardianInv

(* The readers that initialize installed answer 0, which every limit       *)
(* admits.                                                                 *)
LEMMA AuthorizeIsSafe == ASSUME GuardianInv, NEW p \in Processes, Authorize(p) PROVE GuardianInv'
<1>1. cpu_limit \in Nat /\ ram_limit \in Nat
  BY CpuLimitAssumption, RamLimitAssumption DEF GuardianInv, GuardianTypeOK
<1>2. CASE GateCpu(p)
  <2>1. PICK load \in IF cpu_reader THEN {0} ELSE CpuLoads :
          See(p, [at |-> "memory", cpu |-> WithinLimit(load, cpu_limit), late |-> setup = "done"])
    BY <1>2 DEF GateCpu
  <2>2. setup = "done" => WithinLimit(load, cpu_limit)
    BY <1>1, <2>1 DEF GuardianInv, ReadersAreSet, WithinLimit
  <2>3. WithinLimit(load, cpu_limit) \in BOOLEAN /\ (setup = "done") \in BOOLEAN
    BY DEF WithinLimit
  <2> DEFINE next == [at |-> "memory", cpu |-> WithinLimit(load, cpu_limit), late |-> setup = "done"]
  <2>4. next \in [at : Asks, cpu : BOOLEAN, late : BOOLEAN]
    BY <2>3 DEF Asks
  <2>5. next.late => setup = "done" /\ next.cpu /\ next.at # "refuse"
    BY <2>2
  <2>6. QED
    BY <2>1, <2>4, <2>5, SeeIsSafe
<1>3. CASE GateMemory(p)
  <2>1. PICK load \in IF memory_reader THEN {0} ELSE RamLoads :
          LET allowed == asking[p].cpu /\ WithinLimit(load, ram_limit)
          IN See(p, [asking[p] EXCEPT !.at = IF allowed THEN "pass" ELSE "refuse", !.cpu = TRUE])
    BY <1>3 DEF GateMemory
  <2> DEFINE allowed == asking[p].cpu /\ WithinLimit(load, ram_limit)
             next == [asking[p] EXCEPT !.at = IF allowed THEN "pass" ELSE "refuse", !.cpu = TRUE]
  <2>2. asking[p] \in [at : Asks, cpu : BOOLEAN, late : BOOLEAN]
    BY DEF GuardianInv, GuardianTypeOK
  <2>3. asking[p].late => setup = "done" /\ allowed
    BY <1>1, <2>1 DEF GuardianInv, ReadersAreSet, LatePasses, WithinLimit
  <2>4. next \in [at : Asks, cpu : BOOLEAN, late : BOOLEAN]
    BY <2>2 DEF Asks
  <2>5. next.late => setup = "done" /\ next.cpu /\ next.at # "refuse"
    BY <2>2, <2>3
  <2>6. QED
    BY <2>1, <2>4, <2>5, SeeIsSafe
<1>4. QED
  BY <1>2, <1>3 DEF Authorize

(* Once a system call has its answer, the next one asks anew.              *)
LEMMA AnsweredIsSafe == ASSUME GuardianInv, NEW p \in Processes, Answered(p) PROVE GuardianInv'
<1>1. NotAsking \in [at : Asks, cpu : BOOLEAN, late : BOOLEAN] /\ ~NotAsking.late
  BY DEF NotAsking, Asks
<1>2. QED
  BY <1>1, SeeIsSafe DEF Answered

-----------------------------------------------------------------------------
(* The store. *)

(* A step of the store asks the guardian anew, or leaves it alone.         *)
LEMMA FileStepsAsk ==
  ASSUME NEW p \in Processes, FileSteps(p)
  PROVE  Answered(p) \/ UNCHANGED guardian
<1>1. CASE \E op \in FileOps \cup DirOps : Begin(p, op)
  BY <1>1 DEF Begin
<1>2. CASE FirstCheck(p) \/ SecondCheck(p)
  BY <1>2 DEF FirstCheck, SecondCheck, Found, NotFound
<1>3. CASE FirstCheckClose(p) \/ SecondCheckClose(p) \/ CloseOk(p) \/ CloseFailed(p)
  BY <1>3 DEF FirstCheckClose, SecondCheckClose, CloseOk, CloseFailed, Closes
<1>4. CASE Mkdir(p) \/ OpenRead(p) \/ Reading(p) \/ OpenWrite(p) \/ OpenAppend(p) \/ Writing(p)
  BY <1>4 DEF Mkdir, OpenRead, Reading, OpenWrite, OpenAppend, Writing
<1>5. CASE Written(p)
  BY <1>5 DEF Written
<1>6. QED
  BY <1>1, <1>2, <1>3, <1>4, <1>5 DEF FileSteps

(* A step of the store leaves a descriptor open only where a system call   *)
(* was refused.                                                            *)
LEMMA OnlyRefusedClosesLeak ==
  ASSUME NEW p \in Processes, FileSteps(p), leaked' # leaked
  PROVE  Refused(p)
<1>1. CASE \E op \in FileOps \cup DirOps : Begin(p, op)
  BY <1>1 DEF Begin
<1>2. CASE FirstCheck(p) \/ SecondCheck(p)
  BY <1>2 DEF FirstCheck, SecondCheck, Found, NotFound
<1>3. CASE FirstCheckClose(p) \/ SecondCheckClose(p) \/ CloseOk(p) \/ CloseFailed(p)
  BY <1>3 DEF FirstCheckClose, SecondCheckClose, CloseOk, CloseFailed, Closes, Close
<1>4. CASE Mkdir(p) \/ OpenRead(p) \/ Reading(p) \/ OpenAppend(p)
  BY <1>4 DEF Mkdir, OpenRead, Reading, OpenAppend
<1>5. CASE OpenWrite(p) \/ Writing(p)
  BY <1>5 DEF OpenWrite, Writing, StepChanging
<1>6. CASE Written(p)
  BY <1>6 DEF Written
<1>7. QED
  BY <1>1, <1>2, <1>3, <1>4, <1>5, <1>6 DEF FileSteps

(* Every step of initialize, of an authorization and of the store keeps    *)
(* the invariant.                                                          *)
LEMMA GuardianNextIsSafe == ASSUME GuardianInv, [MCNext]_all PROVE GuardianInv'
<1>1. CASE UNCHANGED guardian
  BY <1>1 DEF guardian, GuardianInv, GuardianTypeOK, ReadersAreSet, LatePasses
<1>2. CASE Initialize
  BY <1>2, InitializeIsSafe
<1>3. ASSUME NEW p \in Processes, Authorize(p) PROVE GuardianInv'
  BY <1>3, AuthorizeIsSafe
<1>4. ASSUME NEW p \in Processes, FileSteps(p) PROVE GuardianInv'
  BY <1>1, <1>4, FileStepsAsk, AnsweredIsSafe
<1>5. CASE UNCHANGED all
  BY <1>1, <1>5 DEF all
<1>6. CASE MCNext
  BY <1>1, <1>2, <1>3, <1>4, <1>6 DEF MCNext, StoreStep
<1>7. QED
  BY <1>5, <1>6

-----------------------------------------------------------------------------

(* Safety of the guardian: whatever it is asked once initialize has        *)
(* returned, it lets pass, in spite of the load (guardian/mod.rs).         *)
THEOREM NothingLateIsRefused ==
  MCSpec => [](\A p \in Processes : asking[p].late => ~Refused(p))
<1>1. MCInit => GuardianInv
  BY GuardianInitIsSafe DEF MCInit
<1>2. GuardianInv /\ [MCNext]_all => GuardianInv'
  BY GuardianNextIsSafe
<1>3. GuardianInv => \A p \in Processes : asking[p].late => ~Refused(p)
  BY DEF GuardianInv, LatePasses, Refused
<1>4. QED
  BY <1>1, <1>2, <1>3, PTL DEF MCSpec

(* A descriptor is left open only by a close that was asked for before     *)
(* initialize had returned, whichever system calls were refused and        *)
(* however the processes interleaved (nnn-parser/src/fs.rs).               *)
THEOREM ClosesAreRefusedEarlyOnly == MCSpec => DescriptorsAreClosed
<1>1. MCInit => GuardianInv
  BY GuardianInitIsSafe DEF MCInit
<1>2. GuardianInv /\ [MCNext]_all => GuardianInv'
  BY GuardianNextIsSafe
<1>3. GuardianInv /\ [MCNext]_all =>
        [leaked' # leaked => \E p \in Processes : Refused(p) /\ ~asking[p].late]_all
  <2> SUFFICES ASSUME GuardianInv, MCNext, leaked' # leaked
               PROVE  \E p \in Processes : Refused(p) /\ ~asking[p].late
    OBVIOUS
  <2>1. PICK p \in Processes : FileSteps(p)
    BY DEF MCNext, StoreStep, store
  <2>2. Refused(p)
    BY <2>1, OnlyRefusedClosesLeak
  <2>3. ~asking[p].late
    BY <2>2 DEF GuardianInv, LatePasses, Refused
  <2>4. QED
    BY <2>2, <2>3
<1>4. QED
  BY <1>1, <1>2, <1>3, PTL DEF MCSpec, DescriptorsAreClosed

-----------------------------------------------------------------------------
(* What the calls of the store do. *)

Fds == [open : BOOLEAN, pos : Nat, append : BOOLEAN]

Jobs == [op : FileOps \cup DirOps, fd : Fds, written : 0 .. Len(Data), got : Seq(Byte),
         result : {"none", "ok", "failed"}, before : Seq(Byte), after : Seq(Byte),
         alone : BOOLEAN, misled : BOOLEAN]

StoreTypes ==
  /\ exists \subseteq {"file", "dir"}
  /\ content \in Seq(Byte)
  /\ ("file" \notin exists => content = <<>>)
  /\ pc \in [Processes -> Labels]
  /\ job \in [Processes -> Jobs]

(* Which calls pass through which label.                                   *)
RightPlace(l, op) ==
  /\ l \in {"open_read", "reading"} => op = "read"
  /\ l = "open_append" => op = "append"
  /\ l \in {"open_write", "writing"} => op \in {"write", "append"}
  /\ l \in {"mkdir", "recheck", "recheck_close"} => op = "ensure"
  /\ l \in {"check", "check_close"} => op \in {"append", "ensure"}
  /\ l = "close_ok" => op \in FileOps

(* The bytes the first w of Data make of a file of `before`, as the        *)
(* descriptor was opened: appended to it, or in its place.                 *)
PartOf(j, w) == (IF j.fd.append THEN j.before ELSE <<>>) \o SubSeq(Data, 1, w)

(* Done, of a call on the file. *)
FileDone(j) ==
  /\ j.op = "write" => j.after = Data
  /\ j.op = "append" => j.misled \/ j.after = j.before \o Data
  /\ j.op = "read" => j.got = j.before

(* How far a call on the file that nobody disturbed has come, at label l,  *)
(* when the file holds `bytes`.  An append that opened to truncate was     *)
(* misled, or found no file.                                               *)
Progress(l, j, bytes) ==
  /\ l \in {"check", "check_close", "open_read", "open_append"} /\ j.op \in FileOps
       => bytes = j.before
  /\ l = "open_write" /\ j.op = "append" => j.misled \/ j.before = <<>>
  /\ l = "reading" =>
       /\ bytes = j.before
       /\ j.fd.pos <= Len(bytes)
       /\ j.got = SubSeq(bytes, 1, j.fd.pos)
  /\ l = "writing" =>
       /\ bytes = PartOf(j, j.written)
       /\ j.fd.append \/ j.fd.pos = j.written
       /\ IF j.fd.append THEN j.op = "append"
                         ELSE j.op = "append" => j.misled \/ j.before = <<>>
  /\ l = "close_ok" => /\ j.op = "write" => bytes = Data
                       /\ j.op = "append" => j.misled \/ bytes = j.before \o Data
                       /\ j.op = "read" => j.got = j.before
  /\ l = "idle" /\ j.result = "ok" /\ j.op \in FileOps => FileDone(j)

(* What a process at label l with job j can count on, when the file holds  *)
(* `bytes` and the paths `there` exist.                                    *)
Promise(l, j, bytes, there) ==
  /\ RightPlace(l, j.op)
  /\ l \in {"check", "open_read", "check_close", "open_write", "open_append"} =>
       j.written = 0 /\ j.got = <<>>
  /\ j.op = "ensure" /\ l \in {"check_close", "recheck_close"} => "dir" \in there
  /\ j.op = "ensure" /\ l = "idle" /\ j.result = "ok" => "dir" \in there
  /\ j.alone => Progress(l, j, bytes)

PromisesKept == \A p \in Processes : Promise(pc[p], job[p], content, exists)

StoreInv == StoreTypes /\ PromisesKept

(* Bytes written anywhere leave a file of bytes.                           *)
LEMMA WriteAtType ==
  ASSUME NEW s \in Seq(Byte), NEW pos \in Nat, NEW chunk \in Seq(Byte)
  PROVE  WriteAt(s, pos, chunk) \in Seq(Byte)
<1> DEFINE m == IF pos + Len(chunk) > Len(s) THEN pos + Len(chunk) ELSE Len(s)
<1>1. m \in Nat
  OBVIOUS
<1>2. ASSUME NEW i \in 1 .. m
      PROVE (IF pos < i /\ i <= pos + Len(chunk) THEN chunk[i - pos]
             ELSE IF i <= Len(s) THEN s[i] ELSE 0) \in Byte
  <2>1. CASE pos < i /\ i <= pos + Len(chunk)
    <3>1. i - pos \in 1 .. Len(chunk)
      BY <1>1, <2>1
    <3>2. QED
      BY <2>1, <3>1
  <2>2. CASE ~(pos < i /\ i <= pos + Len(chunk)) /\ i <= Len(s)
    BY <2>2
  <2>3. CASE ~(pos < i /\ i <= pos + Len(chunk)) /\ ~(i <= Len(s))
    BY <2>3 DEF Byte
  <2>4. QED
    BY <2>1, <2>2, <2>3
<1>3. WriteAt(s, pos, chunk) \in [1 .. m -> Byte]
  BY <1>2 DEF WriteAt
<1>4. QED
  BY <1>1, <1>3

(* A chunk written at the end of a file is appended to it.                 *)
LEMMA WriteAtEnd ==
  ASSUME NEW s \in Seq(Byte), NEW chunk \in Seq(Byte)
  PROVE  WriteAt(s, Len(s), chunk) = s \o chunk
<1> DEFINE w == WriteAt(s, Len(s), chunk)
<1>1. /\ s \o chunk \in Seq(Byte) /\ Len(s \o chunk) = Len(s) + Len(chunk)
      /\ \A i \in 1 .. Len(s) + Len(chunk) :
           (s \o chunk)[i] = IF i <= Len(s) THEN s[i] ELSE chunk[i - Len(s)]
  BY ConcatProperties
<1>2. w = [i \in 1 .. Len(s) + Len(chunk) |->
             IF Len(s) < i /\ i <= Len(s) + Len(chunk) THEN chunk[i - Len(s)]
             ELSE IF i <= Len(s) THEN s[i] ELSE 0]
  BY DEF WriteAt
<1>3. Len(w) = Len(s) + Len(chunk)
  BY <1>2
<1>4. ASSUME NEW i \in 1 .. Len(s) + Len(chunk)
      PROVE  w[i] = (s \o chunk)[i]
  BY <1>1, <1>2
<1>5. QED
  BY <1>1, <1>3, <1>4, WriteAtType, SeqEqual

(* A prefix and the bytes that follow it are a longer prefix.              *)
LEMMA PrefixGrows ==
  ASSUME NEW s \in Seq(Byte), NEW k \in 0 .. Len(s), NEW n \in 0 .. Len(s) - k
  PROVE  /\ SubSeq(s, 1, k) \in Seq(Byte) /\ Len(SubSeq(s, 1, k)) = k
         /\ SubSeq(s, k + 1, k + n) \in Seq(Byte)
         /\ SubSeq(s, 1, k) \o SubSeq(s, k + 1, k + n) = SubSeq(s, 1, k + n)
<1>1. Len(s) \in Nat /\ k \in Nat /\ n \in Nat /\ k + n \in k .. Len(s)
  OBVIOUS
<1>2. SubSeq(s, 1, k) \in Seq(Byte) /\ SubSeq(s, k + 1, k + n) \in Seq(Byte)
  BY <1>1
<1>3. Len(SubSeq(s, 1, k)) = k
  BY <1>1
<1>4. 1 \in 1 .. Len(s) + 1 /\ k \in 1 - 1 .. Len(s)
  BY <1>1
<1>5. QED
  BY <1>1, <1>2, <1>3, <1>4, ConcatAdjacentSubSeq

(* The first bytes of what is left are the ones that come next.            *)
LEMMA NextChunk ==
  ASSUME NEW s \in Seq(Byte), NEW k \in 0 .. Len(s), NEW n \in 1 .. Len(s) - k
  PROVE  SubSeq(SubSeq(s, k + 1, Len(s)), 1, n) = SubSeq(s, k + 1, k + n)
<1> DEFINE rest == SubSeq(s, k + 1, Len(s))
<1>1. rest \in Seq(Byte) /\ Len(rest) = Len(s) - k
  OBVIOUS
<1>2. \A i \in 1 .. Len(s) - k : rest[i] = s[k + i]
  OBVIOUS
<1>3. SubSeq(rest, 1, n) = [i \in 1 .. n |-> rest[i]]
  BY <1>1
<1>4. SubSeq(s, k + 1, k + n) = [i \in 1 .. n |-> s[k + i]]
  OBVIOUS
<1>5. QED
  BY <1>2, <1>3, <1>4

(* Bytes appended twice are appended together.                             *)
LEMMA AppendedTogether ==
  ASSUME NEW s \in Seq(Byte), NEW t \in Seq(Byte), NEW u \in Seq(Byte)
  PROVE  (s \o t) \o u = s \o (t \o u)
  BY ConcatAssociative

(* A step that changes the label and the job of one process and no file.   *)
LEMMA MoveKeepsPromises ==
  ASSUME StoreInv, NEW p \in Processes, NEW l \in Labels, NEW j \in Jobs,
         pc' = [pc EXCEPT ![p] = l], job' = [job EXCEPT ![p] = j],
         content' = content, exists' \in {exists, exists \cup {"dir"}},
         Promise(l, j, content, exists')
  PROVE  StoreInv'
<1>1. StoreTypes'
  BY DEF StoreInv, StoreTypes
<1>2. ASSUME NEW q \in Processes PROVE Promise(pc'[q], job'[q], content', exists')
  <2>1. CASE q = p
    BY <2>1 DEF StoreInv, StoreTypes
  <2>2. CASE q # p
    <3>1. pc'[q] = pc[q] /\ job'[q] = job[q]
      BY <2>2 DEF StoreInv, StoreTypes
    <3>2. Promise(pc[q], job[q], content, exists)
      BY DEF StoreInv, PromisesKept
    <3>3. QED
      BY <3>1, <3>2 DEF Promise
  <2>3. QED
    BY <2>1, <2>2
<1>3. QED
  BY <1>1, <1>2 DEF StoreInv, PromisesKept

(* A step by which a process changes the file: of a call under way, only   *)
(* its own can still count on what is in it.                               *)
LEMMA ChangeKeepsPromises ==
  ASSUME StoreInv, NEW p \in Processes, NEW l \in Labels, NEW j \in Jobs,
         NEW bytes \in Seq(Byte), StepChanging(p, l, j, bytes),
         Promise(l, j, bytes, exists')
  PROVE  StoreInv'
<1> DEFINE seen(q) == IF pc[q] = "idle" THEN job[q] ELSE [job[q] EXCEPT !.alone = FALSE]
<1>1. /\ pc' = [pc EXCEPT ![p] = l] /\ content' = bytes /\ exists' = exists \cup {"file"}
      /\ job' = [q \in Processes |-> IF q = p THEN j ELSE seen(q)]
  BY DEF StepChanging
<1>2. ASSUME NEW q \in Processes PROVE seen(q) \in Jobs
  BY DEF StoreInv, StoreTypes, Jobs
<1>3. StoreTypes'
  BY <1>1, <1>2 DEF StoreInv, StoreTypes
<1>4. ASSUME NEW q \in Processes PROVE Promise(pc'[q], job'[q], content', exists')
  <2>1. CASE q = p
    BY <1>1, <2>1 DEF StoreInv, StoreTypes
  <2>2. CASE q # p
    <3>1. pc'[q] = pc[q] /\ job'[q] = seen(q) /\ job[q] \in Jobs
      BY <1>1, <2>2 DEF StoreInv, StoreTypes
    <3>2. Promise(pc[q], job[q], content, exists)
      BY DEF StoreInv, PromisesKept
    <3>3. CASE pc[q] = "idle"
      BY <1>1, <3>1, <3>2, <3>3 DEF Promise, Progress
    <3>4. CASE pc[q] # "idle"
      <4>1. /\ job'[q].op = job[q].op /\ job'[q].written = job[q].written
            /\ job'[q].got = job[q].got /\ ~job'[q].alone
        BY <3>1, <3>4 DEF Jobs
      <4>2. QED
        BY <1>1, <3>1, <3>2, <3>4, <4>1 DEF Promise
    <3>5. QED
      BY <3>3, <3>4
  <2>3. QED
    BY <2>1, <2>2
<1>5. QED
  BY <1>3, <1>4 DEF StoreInv, PromisesKept

(* The same for the steps and the returns the actions are made of.         *)
LEMMA StepKeepsPromises ==
  ASSUME StoreInv, NEW p \in Processes, NEW l \in Labels, NEW j \in Jobs,
         Step(p, l, j), Promise(l, j, content, exists)
  PROVE  StoreInv'
<1>1. /\ pc' = [pc EXCEPT ![p] = l] /\ job' = [job EXCEPT ![p] = j]
      /\ content' = content /\ exists' = exists
  BY DEF Step
<1>2. QED
  BY <1>1, MoveKeepsPromises

(* A call that returns.                                                    *)
LEMMA ReturnKeepsPromises ==
  ASSUME StoreInv, NEW p \in Processes, NEW j \in Jobs, NEW result \in {"ok", "failed"},
         Return(p, j, result),
         result = "ok" => IF j.op = "ensure" THEN "dir" \in exists
                          ELSE j.alone => FileDone([j EXCEPT !.after = content])
  PROVE  StoreInv'
<1> DEFINE k == [j EXCEPT !.fd = NoFd, !.result = result, !.after = content]
<1>1. k \in Jobs
  BY DEF Jobs, Fds, NoFd, StoreInv, StoreTypes
<1>2. /\ k.op = j.op /\ k.alone = j.alone /\ k.before = j.before /\ k.misled = j.misled
      /\ k.got = j.got /\ k.after = content /\ k.result = result
  BY DEF Jobs
<1>3. FileDone([j EXCEPT !.after = content]) <=> FileDone(k)
  BY <1>2 DEF FileDone, Jobs
<1>4. Promise("idle", k, content, exists)
  BY <1>2, <1>3 DEF Promise, Progress, RightPlace, FileOps
<1>5. Step(p, "idle", k)
  BY DEF Return
<1>6. QED
  BY <1>1, <1>4, <1>5, StepKeepsPromises DEF Labels

(* What the actions are made of, typed. *)
LEMMA JobIsTyped ==
  ASSUME StoreInv, NEW p \in Processes
  PROVE  /\ job[p] \in Jobs /\ pc[p] \in Labels /\ content \in Seq(Byte)
         /\ Promise(pc[p], job[p], content, exists)
  BY DEF StoreInv, StoreTypes, PromisesKept

(* The beginning of a call, which notes what the file holds.               *)
LEMMA BeginKeepsPromises ==
  ASSUME StoreInv, NEW p \in Processes, NEW op \in FileOps \cup DirOps, Begin(p, op)
  PROVE  StoreInv'
<1> DEFINE j == [NoJob EXCEPT !.op = op, !.before = content]
           l == CASE op = "read" -> "open_read"
                  [] op = "write" -> "open_write"
                  [] OTHER -> "check"
<1>1. /\ pc' = [pc EXCEPT ![p] = l] /\ job' = [job EXCEPT ![p] = j]
      /\ content' = content /\ exists' = exists
  BY DEF Begin
<1>2. j \in Jobs /\ l \in Labels
  <2>1. content \in Seq(Byte) /\ <<>> \in Seq(Byte) /\ 0 \in 0 .. Len(Data)
    BY DataAssumption DEF StoreInv, StoreTypes
  <2>2. NoJob \in Jobs
    BY <2>1 DEF NoJob, Jobs, Fds, NoFd, FileOps
  <2>3. QED
    BY <2>1, <2>2 DEF Jobs, Labels
<1>3. /\ j.op = op /\ j.before = content /\ j.written = 0 /\ j.got = <<>>
      /\ j.result = "none"
  BY DEF NoJob
<1>4. \/ op = "read" /\ l = "open_read"
      \/ op = "write" /\ l = "open_write"
      \/ op \in {"append", "ensure"} /\ l = "check"
  BY DEF FileOps, DirOps
<1>5. Promise(l, j, content, exists)
  BY <1>3, <1>4 DEF Promise, Progress, RightPlace
<1>6. QED
  BY <1>1, <1>2, <1>5, MoveKeepsPromises

(* Does the path exist?  An append goes on to the file it found, or        *)
(* truncates what it did not find.                                         *)
LEMMA ChecksKeepPromises ==
  ASSUME StoreInv, NEW p \in Processes,
         FirstCheck(p) \/ FirstCheckClose(p) \/ SecondCheck(p) \/ SecondCheckClose(p)
  PROVE  StoreInv'
<1>1. /\ job[p] \in Jobs /\ Promise(pc[p], job[p], content, exists)
  BY JobIsTyped
<1> DEFINE opened == [job[p] EXCEPT !.fd = [NoFd EXCEPT !.open = TRUE]]
           misled == Misled(p)
           closed == Closed(p)
<1>2. opened \in Jobs /\ misled \in Jobs /\ closed \in Jobs
  BY <1>1 DEF Jobs, Fds, NoFd, Misled, Closed
<1>3. /\ \A j \in {opened, misled, closed} :
           /\ j.op = job[p].op /\ j.written = job[p].written /\ j.got = job[p].got
           /\ j.result = job[p].result /\ j.before = job[p].before /\ j.alone = job[p].alone
      /\ misled.misled <=> job[p].misled \/ PathOf(job[p].op) \in exists
  BY <1>1 DEF Jobs, Misled, Closed
<1>4. CASE FirstCheck(p)
  <2>1. CASE Found(p, "check", "check_close")
    <3>1. pc[p] = "check" /\ PathOf(job[p].op) \in exists /\ Step(p, "check_close", opened)
      BY <2>1 DEF Found
    <3>2. Promise("check_close", opened, content, exists)
      BY <1>1, <1>3, <3>1 DEF Promise, Progress, RightPlace, PathOf, DirOps
    <3>3. QED
      BY <1>2, <3>1, <3>2, StepKeepsPromises DEF Labels
  <2>2. CASE NotFound(p, "check") /\ job[p].op = "append" /\ Step(p, "open_write", misled)
    <3>1. misled.misled \/ "file" \notin exists
      BY <1>3, <2>2 DEF PathOf, DirOps
    <3>2. pc[p] = "check"
      BY <2>2 DEF NotFound
    <3>3. misled.alone => misled.misled \/ misled.before = <<>>
      BY <1>1, <1>3, <2>2, <3>1, <3>2 DEF Promise, Progress, FileOps, StoreInv, StoreTypes
    <3>4. Promise("open_write", misled, content, exists)
      BY <1>1, <1>3, <2>2, <3>2, <3>3 DEF Promise, Progress, RightPlace
    <3>5. QED
      BY <1>2, <2>2, <3>4, StepKeepsPromises DEF Labels
  <2>3. CASE NotFound(p, "check") /\ job[p].op # "append" /\ Step(p, "mkdir", misled)
    <3>1. pc[p] = "check"
      BY <2>3 DEF NotFound
    <3>2. Promise("mkdir", misled, content, exists)
      BY <1>1, <1>3, <2>3, <3>1 DEF Promise, Progress, RightPlace
    <3>3. QED
      BY <1>2, <2>3, <3>2, StepKeepsPromises DEF Labels
  <2>4. QED
    BY <1>4, <2>1, <2>2, <2>3 DEF FirstCheck
<1>5. CASE FirstCheckClose(p)
  <2>1. pc[p] = "check_close"
    BY <1>5 DEF FirstCheckClose, Closes
  <2>2. CASE job[p].op = "append" /\ Step(p, "open_append", closed)
    <3>1. Promise("open_append", closed, content, exists)
      BY <1>1, <1>3, <2>1, <2>2 DEF Promise, Progress, RightPlace, FileOps
    <3>2. QED
      BY <1>2, <2>2, <3>1, StepKeepsPromises DEF Labels
  <2>3. CASE job[p].op # "append" /\ Return(p, closed, "ok")
    <3>1. closed.op = "ensure" /\ "dir" \in exists
      BY <1>1, <1>3, <2>1, <2>3 DEF Promise, RightPlace
    <3>2. QED
      BY <1>2, <2>3, <3>1, ReturnKeepsPromises
  <2>4. QED
    BY <1>5, <2>2, <2>3 DEF FirstCheckClose
<1>6. CASE SecondCheck(p)
  <2>1. CASE Found(p, "recheck", "recheck_close")
    <3>1. pc[p] = "recheck" /\ PathOf(job[p].op) \in exists /\ Step(p, "recheck_close", opened)
      BY <2>1 DEF Found
    <3>2. Promise("recheck_close", opened, content, exists)
      BY <1>1, <1>3, <3>1 DEF Promise, Progress, RightPlace, PathOf, DirOps
    <3>3. QED
      BY <1>2, <3>1, <3>2, StepKeepsPromises DEF Labels
  <2>2. CASE Return(p, misled, "failed")
    BY <1>2, <2>2, ReturnKeepsPromises
  <2>3. QED
    BY <1>6, <2>1, <2>2 DEF SecondCheck
<1>7. CASE SecondCheckClose(p)
  <2>1. pc[p] = "recheck_close" /\ Return(p, closed, "ok")
    BY <1>7 DEF SecondCheckClose, Closes
  <2>2. closed.op = "ensure" /\ "dir" \in exists
    BY <1>1, <1>3, <2>1 DEF Promise, RightPlace
  <2>3. QED
    BY <1>2, <2>1, <2>2, ReturnKeepsPromises
<1>8. QED
  BY <1>4, <1>5, <1>6, <1>7

(* mkdir makes the directory, or the path is asked for again.              *)
LEMMA MkdirKeepsPromises ==
  ASSUME StoreInv, NEW p \in Processes, Mkdir(p) PROVE StoreInv'
<1>1. job[p] \in Jobs /\ Promise(pc[p], job[p], content, exists) /\ pc[p] = "mkdir"
  BY JobIsTyped DEF Mkdir
<1>2. job[p].op = "ensure"
  BY <1>1 DEF Promise, RightPlace
<1>3. CASE Step(p, "recheck", job[p])
  <2>1. Promise("recheck", job[p], content, exists)
    BY <1>1, <1>2 DEF Promise, Progress, RightPlace
  <2>2. QED
    BY <1>1, <1>3, <2>1, StepKeepsPromises DEF Labels
<1>4. CASE /\ exists' = exists \cup {"dir"} /\ pc' = [pc EXCEPT ![p] = "idle"]
           /\ job' = [job EXCEPT ![p].result = "ok"] /\ content' = content
  <2> DEFINE j == [job[p] EXCEPT !.result = "ok"]
  <2>1. j \in Jobs /\ j.op = "ensure"
    BY <1>1, <1>2 DEF Jobs
  <2>2. Promise("idle", j, content, exists')
    BY <1>4, <2>1 DEF Promise, Progress, RightPlace, FileOps
  <2>3. job' = [job EXCEPT ![p] = j]
    BY <1>4 DEF StoreInv, StoreTypes
  <2>4. QED
    BY <1>4, <2>1, <2>2, <2>3, MoveKeepsPromises DEF Labels
<1>5. QED
  BY <1>3, <1>4 DEF Mkdir

(* A read of any part of what is left: what was read is what lies before   *)
(* the descriptor.                                                         *)
LEMMA ReadsKeepPromises ==
  ASSUME StoreInv, NEW p \in Processes, OpenRead(p) \/ Reading(p)
  PROVE  StoreInv'
<1> DEFINE j == job[p]
<1>1. j \in Jobs /\ Promise(pc[p], j, content, exists) /\ content \in Seq(Byte)
  BY JobIsTyped
<1>2. CASE OpenRead(p)
  <2>1. pc[p] = "open_read"
    BY <1>2 DEF OpenRead
  <2>2. CASE Step(p, "reading", [j EXCEPT !.fd = [NoFd EXCEPT !.open = TRUE]])
    <3> DEFINE k == [j EXCEPT !.fd = [NoFd EXCEPT !.open = TRUE]]
    <3>1. /\ k \in Jobs /\ k.op = j.op /\ k.got = j.got /\ k.before = j.before
          /\ k.alone = j.alone /\ k.fd.pos = 0
      BY <1>1 DEF Jobs, Fds, NoFd
    <3>2. SubSeq(content, 1, 0) = <<>> /\ 0 <= Len(content)
      BY <1>1, SubSeqEmpty
    <3>3. Promise("reading", k, content, exists)
      BY <1>1, <2>1, <3>1, <3>2 DEF Promise, Progress, RightPlace, FileOps
    <3>4. QED
      BY <2>2, <3>1, <3>3, StepKeepsPromises DEF Labels
  <2>3. CASE Return(p, j, "failed")
    BY <1>1, <2>3, ReturnKeepsPromises
  <2>4. QED
    BY <1>2, <2>2, <2>3 DEF OpenRead
<1>3. CASE Reading(p)
  <2>1. pc[p] = "reading" /\ j.op = "read" /\ j.fd \in Fds
    BY <1>1, <1>3 DEF Reading, Promise, RightPlace, Jobs
  <2>2. ASSUME NEW n \in 1 .. Len(content) - j.fd.pos,
               Step(p, "reading",
                    [j EXCEPT !.fd.pos = @ + n,
                              !.got = @ \o SubSeq(content, j.fd.pos + 1, j.fd.pos + n)])
        PROVE  StoreInv'
    <3> DEFINE pos == j.fd.pos
               chunk == SubSeq(content, pos + 1, pos + n)
               k == [j EXCEPT !.fd.pos = @ + n, !.got = @ \o chunk]
    <3>1. /\ pos \in 0 .. Len(content) /\ n \in 0 .. Len(content) - pos
          /\ pos + n \in Nat /\ pos + n <= Len(content)
      BY <1>1, <2>1 DEF Fds
    <3>2. /\ chunk \in Seq(Byte)
          /\ SubSeq(content, 1, pos) \o chunk = SubSeq(content, 1, pos + n)
      BY <1>1, <3>1, PrefixGrows
    <3>3. j.got \in Seq(Byte) /\ j.got \o chunk \in Seq(Byte)
      BY <1>1, <3>2, ConcatProperties DEF Jobs
    <3>4. [j.fd EXCEPT !.pos = pos + n] \in Fds
      BY <2>1, <3>1 DEF Fds
    <3>5. k = [j EXCEPT !.fd = [j.fd EXCEPT !.pos = pos + n], !.got = j.got \o chunk]
      BY <1>1, <2>1 DEF Jobs, Fds
    <3>6. /\ k \in Jobs /\ k.op = "read" /\ k.before = j.before /\ k.alone = j.alone
          /\ k.got = j.got \o chunk /\ k.fd.pos = pos + n
      BY <1>1, <2>1, <3>3, <3>4, <3>5 DEF Jobs, Fds
    <3>7. k.alone => /\ content = k.before
                     /\ k.got = SubSeq(content, 1, k.fd.pos)
      BY <1>1, <2>1, <3>2, <3>6 DEF Promise, Progress
    <3>8. Promise("reading", k, content, exists)
      BY <3>1, <3>6, <3>7 DEF Promise, Progress, RightPlace
    <3>9. QED
      BY <2>2, <3>6, <3>8, StepKeepsPromises DEF Labels
  <2>3. CASE Len(content) - j.fd.pos <= 0 /\ Step(p, "close_ok", j)
    <3>1. j.alone => j.fd.pos = Len(content) /\ j.got = SubSeq(content, 1, Len(content))
      BY <1>1, <2>1, <2>3 DEF Promise, Progress, Fds
    <3>2. SubSeq(content, 1, Len(content)) = content
      BY <1>1, SubSeqFull
    <3>3. Promise("close_ok", j, content, exists)
      BY <1>1, <2>1, <3>1, <3>2 DEF Promise, Progress, RightPlace, FileOps
    <3>4. QED
      BY <1>1, <2>3, <3>3, StepKeepsPromises DEF Labels
  <2>4. CASE Step(p, "close_failed", j)
    <3>1. Promise("close_failed", j, content, exists)
      BY <1>1, <2>1 DEF Promise, Progress, RightPlace
    <3>2. QED
      BY <1>1, <2>4, <3>1, StepKeepsPromises DEF Labels
  <2>5. QED
    BY <1>3, <2>2, <2>3, <2>4 DEF Reading
<1>4. QED
  BY <1>2, <1>3

(* A file opened to be written is empty, or to be appended to as it was.   *)
LEMMA OpensKeepPromises ==
  ASSUME StoreInv, NEW p \in Processes, OpenWrite(p) \/ OpenAppend(p)
  PROVE  StoreInv'
<1> DEFINE j == job[p]
<1>1. j \in Jobs /\ Promise(pc[p], j, content, exists) /\ content \in Seq(Byte)
  BY JobIsTyped
<1>2. /\ SubSeq(Data, 1, 0) = <<>> /\ <<>> \o <<>> = <<>> /\ <<>> \in Seq(Byte)
      /\ \A s \in Seq(Byte) : s \o <<>> = s
  BY SubSeqEmpty, ConcatEmptySeq
<1>3. CASE Return(p, j, "failed")
  BY <1>1, <1>3, ReturnKeepsPromises
<1>4. CASE /\ pc[p] = "open_write"
           /\ StepChanging(p, "writing", [j EXCEPT !.fd = [NoFd EXCEPT !.open = TRUE]], <<>>)
  <2> DEFINE k == [j EXCEPT !.fd = [NoFd EXCEPT !.open = TRUE]]
  <2>1. /\ k \in Jobs /\ k.op = j.op /\ k.written = j.written /\ k.before = j.before
        /\ k.alone = j.alone /\ k.misled = j.misled /\ k.fd.pos = 0 /\ ~k.fd.append
    BY <1>1 DEF Jobs, Fds, NoFd
  <2>2. k.written = 0 /\ k.op \in {"write", "append"}
        /\ (k.alone /\ k.op = "append" => k.misled \/ k.before = <<>>)
    BY <1>1, <1>4, <2>1 DEF Promise, Progress, RightPlace
  <2>3. PartOf(k, k.written) = <<>>
    BY <1>2, <2>1, <2>2 DEF PartOf
  <2>4. Promise("writing", k, <<>>, exists')
    BY <2>1, <2>2, <2>3 DEF Promise, Progress, RightPlace
  <2>5. QED
    BY <1>2, <1>4, <2>1, <2>4, ChangeKeepsPromises DEF Labels
<1>5. CASE /\ pc[p] = "open_append"
           /\ Step(p, "writing", [j EXCEPT !.fd = [open |-> TRUE, pos |-> 0, append |-> TRUE]])
  <2> DEFINE k == [j EXCEPT !.fd = [open |-> TRUE, pos |-> 0, append |-> TRUE]]
  <2>1. /\ k \in Jobs /\ k.op = j.op /\ k.written = j.written /\ k.before = j.before
        /\ k.alone = j.alone /\ k.fd.append
    BY <1>1 DEF Jobs, Fds
  <2>2. k.written = 0 /\ k.op = "append" /\ (k.alone => content = k.before)
    BY <1>1, <1>5, <2>1 DEF Promise, Progress, RightPlace, FileOps
  <2>3. k.alone => content = PartOf(k, k.written)
    BY <1>1, <1>2, <2>1, <2>2 DEF PartOf
  <2>4. Promise("writing", k, content, exists)
    BY <2>1, <2>2, <2>3 DEF Promise, Progress, RightPlace
  <2>5. QED
    BY <1>5, <2>1, <2>4, StepKeepsPromises DEF Labels
<1>6. QED
  BY <1>3, <1>4, <1>5 DEF OpenWrite, OpenAppend

(* A write of any part of what is left adds that part at the end of the    *)
(* file, when nobody else changed it.                                      *)
LEMMA WritesKeepPromises ==
  ASSUME StoreInv, NEW p \in Processes, Writing(p) \/ Written(p)
  PROVE  StoreInv'
<1> DEFINE j == job[p]
           pos == IF j.fd.append THEN Len(content) ELSE j.fd.pos
<1>1. /\ j \in Jobs /\ Promise(pc[p], j, content, exists) /\ content \in Seq(Byte)
      /\ pc[p] = "writing" /\ Data \in Seq(Byte)
  BY JobIsTyped, DataAssumption DEF Writing, Written
<1>2. /\ j.op \in {"write", "append"} /\ j.fd \in Fds /\ pos \in Nat
      /\ j.written \in 0 .. Len(Data) /\ j.before \in Seq(Byte)
  BY <1>1 DEF Promise, RightPlace, Jobs, Fds
<1>3. /\ SubSeq(Data, 1, j.written) \in Seq(Byte)
      /\ Len(SubSeq(Data, 1, j.written)) = j.written
  BY <1>1, <1>2, PrefixGrows
<1>4. PartOf(j, j.written) \in Seq(Byte)
  BY <1>2, <1>3, ConcatProperties DEF PartOf
<1>5. j.alone => content = PartOf(j, j.written) /\ pos = Len(content)
  <2>1. ASSUME j.alone, ~j.fd.append PROVE j.fd.pos = Len(content)
    <3>1. content = <<>> \o SubSeq(Data, 1, j.written) /\ j.fd.pos = j.written
      BY <1>1, <2>1 DEF Promise, Progress, PartOf
    <3>2. QED
      BY <1>3, <3>1, ConcatEmptySeq
  <2>2. QED
    BY <1>1, <2>1 DEF Promise, Progress
<1>6. ASSUME NEW n \in 1 .. Len(Data) - j.written,
             StepChanging(p, "writing", [j EXCEPT !.written = @ + n, !.fd.pos = pos + n],
                          WriteAt(content, pos, SubSeq(Rest(j), 1, n)))
      PROVE  StoreInv'
  <2> DEFINE k == [j EXCEPT !.written = @ + n, !.fd.pos = pos + n]
             chunk == SubSeq(Data, j.written + 1, j.written + n)
  <2>1. /\ n \in 0 .. Len(Data) - j.written /\ j.written + n \in 0 .. Len(Data)
        /\ pos + n \in Nat
    BY <1>1, <1>2
  <2>2. /\ chunk \in Seq(Byte)
        /\ SubSeq(Data, 1, j.written) \o chunk = SubSeq(Data, 1, j.written + n)
    BY <1>1, <1>2, <2>1, PrefixGrows
  <2>3. SubSeq(Rest(j), 1, n) = chunk
    BY <1>1, <1>2, NextChunk DEF Rest
  <2>4. WriteAt(content, pos, chunk) \in Seq(Byte)
    BY <1>1, <1>2, <2>2, WriteAtType
  <2>5. [j.fd EXCEPT !.pos = pos + n] \in Fds
    BY <1>2, <2>1 DEF Fds
  <2>6. k = [j EXCEPT !.written = j.written + n, !.fd = [j.fd EXCEPT !.pos = pos + n]]
    BY <1>1, <1>2 DEF Jobs, Fds
  <2>7. /\ k \in Jobs /\ k.op = j.op /\ k.before = j.before /\ k.alone = j.alone
        /\ k.misled = j.misled /\ k.written = j.written + n
        /\ k.fd = [j.fd EXCEPT !.pos = pos + n]
    BY <1>1, <2>1, <2>5, <2>6 DEF Jobs
  <2>8. k.fd.append = j.fd.append /\ k.fd.pos = pos + n
    BY <1>2, <2>7 DEF Fds
  <2>9. k.alone => WriteAt(content, pos, chunk) = PartOf(k, k.written)
    <3> SUFFICES ASSUME j.alone PROVE WriteAt(content, pos, chunk) = PartOf(k, k.written)
      BY <2>7
    <3>1. WriteAt(content, pos, chunk) = PartOf(j, j.written) \o chunk
      BY <1>1, <1>5, <2>2, WriteAtEnd
    <3> DEFINE front == IF j.fd.append THEN j.before ELSE <<>>
               part == SubSeq(Data, 1, j.written)
    <3>2. front \in Seq(Byte) /\ part \in Seq(Byte)
      BY <1>2, <1>3, EmptySeq
    <3>3. PartOf(j, j.written) \o chunk = front \o SubSeq(Data, 1, j.written + n)
      <4>1. (front \o part) \o chunk = front \o (part \o chunk)
        BY <2>2, <3>2, AppendedTogether
      <4>2. QED
        BY <2>2, <4>1 DEF PartOf
    <3>4. /\ k.written = j.written + n /\ k.before = j.before
          /\ k.fd.append = j.fd.append
      BY <2>7, <2>8
    <3>5. PartOf(k, k.written) =
            front \o SubSeq(Data, 1, j.written + n)
      BY ONLY <3>4 DEF PartOf
    <3>6. QED
      BY <3>1, <3>3, <3>5
  <2>10. k.alone => /\ k.fd.append \/ k.fd.pos = k.written
                    /\ IF k.fd.append THEN k.op = "append"
                                      ELSE k.op = "append" => k.misled \/ k.before = <<>>
    <3> SUFFICES ASSUME j.alone
                 PROVE  /\ k.fd.append \/ k.fd.pos = k.written
                        /\ IF k.fd.append THEN k.op = "append"
                                          ELSE k.op = "append" => k.misled \/ k.before = <<>>
      BY <2>7
    <3>1. /\ j.fd.append \/ j.fd.pos = j.written
          /\ IF j.fd.append THEN j.op = "append"
                            ELSE j.op = "append" => j.misled \/ j.before = <<>>
      BY <1>1 DEF Promise, Progress
    <3>2. QED
      BY <2>7, <2>8, <3>1
  <2>11. Promise("writing", k, WriteAt(content, pos, chunk), exists')
    BY <1>2, <2>7, <2>9, <2>10 DEF Promise, Progress, RightPlace
  <2>12. QED
    BY <1>6, <2>3, <2>4, <2>7, <2>11, ChangeKeepsPromises DEF Labels
<1>7. CASE Step(p, "close_failed", j)
  <2>1. Promise("close_failed", j, content, exists)
    BY <1>1, <1>2 DEF Promise, Progress, RightPlace
  <2>2. QED
    BY <1>1, <1>7, <2>1, StepKeepsPromises DEF Labels
<1>8. CASE j.written >= Len(Data) /\ Step(p, "close_ok", j)
  <2>1. j.written = Len(Data) /\ SubSeq(Data, 1, j.written) = Data
    BY <1>1, <1>2, <1>8, SubSeqFull
  <2>2. j.alone => content = (IF j.fd.append THEN j.before ELSE <<>>) \o Data
    BY <1>5, <2>1 DEF PartOf
  <2>3. <<>> \o Data = Data
    BY <1>1, ConcatEmptySeq
  <2>4. j.alone => IF j.fd.append THEN j.op = "append"
                                  ELSE j.op = "append" => j.misled \/ j.before = <<>>
    BY <1>1 DEF Promise, Progress
  <2>5. j.alone => /\ j.op = "write" => content = Data
                   /\ j.op = "append" => j.misled \/ content = j.before \o Data
    BY <2>2, <2>3, <2>4
  <2>6. Promise("close_ok", j, content, exists)
    BY <1>2, <2>5 DEF Promise, Progress, RightPlace, FileOps
  <2>7. QED
    BY <1>1, <1>8, <2>6, StepKeepsPromises DEF Labels
<1>9. QED
  BY <1>6, <1>7, <1>8 DEF Writing, Written

(* The close that ends a call: what it promised is done.                   *)
LEMMA ClosesKeepPromises ==
  ASSUME StoreInv, NEW p \in Processes, CloseOk(p) \/ CloseFailed(p)
  PROVE  StoreInv'
<1> DEFINE j == job[p]
<1>1. j \in Jobs /\ Promise(pc[p], j, content, exists)
  BY JobIsTyped
<1>2. CASE CloseOk(p)
  <2>1. pc[p] = "close_ok" /\ Return(p, j, "ok")
    BY <1>2 DEF CloseOk, Closes
  <2>2. j.op \in FileOps /\ j.op # "ensure"
    BY <1>1, <2>1 DEF Promise, RightPlace, FileOps
  <2> DEFINE k == [j EXCEPT !.after = content]
  <2>3. /\ k.op = j.op /\ k.after = content /\ k.misled = j.misled /\ k.before = j.before
        /\ k.got = j.got
    BY <1>1 DEF Jobs
  <2>4. j.alone => FileDone(k)
    BY <1>1, <2>1, <2>3 DEF Promise, Progress, FileDone
  <2>5. QED
    BY <1>1, <2>1, <2>2, <2>4, ReturnKeepsPromises
<1>3. CASE CloseFailed(p)
  <2>1. Return(p, j, "failed")
    BY <1>3 DEF CloseFailed
  <2>2. QED
    BY <1>1, <2>1, ReturnKeepsPromises
<1>4. QED
  BY <1>2, <1>3

(* Every step keeps every promise, however the processes interleave.       *)
LEMMA NextKeepsPromises == ASSUME StoreInv, [MCNext]_all PROVE StoreInv'
<1>1. CASE UNCHANGED store
  BY <1>1 DEF store, StoreInv, StoreTypes, PromisesKept
<1>2. ASSUME NEW p \in Processes, FileSteps(p) PROVE StoreInv'
  BY <1>2, BeginKeepsPromises, ChecksKeepPromises, MkdirKeepsPromises, ReadsKeepPromises,
     OpensKeepPromises, WritesKeepPromises, ClosesKeepPromises DEF FileSteps
<1>3. CASE UNCHANGED all
  BY <1>1, <1>3 DEF all
<1>4. CASE MCNext
  BY <1>1, <1>2, <1>4 DEF MCNext, StoreStep
<1>5. QED
  BY <1>3, <1>4

(* A call of the file store that answers Ok, and during which no other     *)
(* process changed the file, did what it promises: a write left Data, an   *)
(* append what was there and Data (unless it was told that its file does   *)
(* not exist), a read returned all of it, however few bytes each system    *)
(* call moved (nnn-parser/src/fs.rs).                                      *)
THEOREM CallsDoWhatTheyAnswer == MCSpec => []OkMeansDone
<1>1. MCInit => StoreInv
  <2> SUFFICES ASSUME StoreInit PROVE StoreInv
    BY DEF MCInit
  <2>1. content \in Seq(Byte) /\ <<>> \in Seq(Byte) /\ 0 \in 0 .. Len(Data)
    <3>1. <<>> \in Seq(Byte)
      OBVIOUS
    <3>2. content \in {<<>>, Data}
      BY DEF StoreInit
    <3>3. Data \in Seq(Byte) /\ Len(Data) \in Nat
      BY DataAssumption
    <3>4. content \in Seq(Byte)
      BY <3>1, <3>2, <3>3
    <3>5. 0 \in 0 .. Len(Data)
      BY <3>3
    <3>6. QED
      BY <3>1, <3>4, <3>5
  <2>2. NoJob \in Jobs
    BY <2>1 DEF NoJob, Jobs, Fds, NoFd, FileOps
  <2>3. StoreTypes
    BY <2>1, <2>2 DEF StoreInit, StoreTypes, Labels
  <2>4. Promise("idle", NoJob, content, exists)
    BY DEF Promise, Progress, RightPlace, NoJob
  <2>5. PromisesKept
    <3>1. \A p \in Processes : pc[p] = "idle" /\ job[p] = NoJob
      BY DEF StoreInit
    <3>2. QED
      BY <2>4, <3>1 DEF PromisesKept
  <2>6. QED
    BY <2>3, <2>5 DEF StoreInv
<1>2. StoreInv /\ [MCNext]_all => StoreInv'
  BY NextKeepsPromises
<1>3. StoreInv => OkMeansDone
  <2> SUFFICES ASSUME StoreInv, NEW p \in Processes,
                      pc[p] = "idle", job[p].result = "ok", job[p].alone
               PROVE  Done(job[p])
    BY DEF OkMeansDone
  <2>1. job[p] \in Jobs /\ Promise("idle", job[p], content, exists)
    BY JobIsTyped
  <2>2. job[p].op \in FileOps \cup {"ensure"}
    BY <2>1 DEF Jobs, DirOps
  <2>3. CASE job[p].op \in FileOps
    BY <2>1, <2>3 DEF Promise, Progress, FileDone, Done, FileOps
  <2>4. CASE job[p].op = "ensure"
    BY <2>1, <2>4 DEF Promise, Done
  <2>5. QED
    BY <2>2, <2>3, <2>4
<1>4. QED
  BY <1>1, <1>2, <1>3, PTL DEF MCSpec
=============================================================================
