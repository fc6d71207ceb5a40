------------------------------ MODULE Signals ------------------------------
(***************************************************************************)
(* The graph protocol of nnn-base: signals and their validation (signal/,  *)
(* propagation/), the law by which an edge delivers them (edge/), and the  *)
(* folding of an inbox into a buffer (routing/mod.rs).                     *)
(*                                                                         *)
(* Elements are whole numbers of quarters, and NonFinite stands for what   *)
(* is no finite number; a confidence is a number of halves.                *)
(***************************************************************************)
EXTENDS Integers, SequencesExt, FiniteSetsExt

CONSTANTS
  PayloadValues, (* the elements of payloads, NonFinite among them         *)
  WeightValues,  (* the weights of edges                                   *)
  Widths,        (* the lengths of payloads                                *)
  Confidences,   (* the confidences handed in, good and bad                *)
  Distances,     (* Meta::distance                                         *)
  MaxInbox,      (* bound: signals in the inbox                            *)
  NonFinite,     (* a value that none of the others is                     *)
  MostFinite     (* the largest finite element                             *)

ASSUME ElementsAssumption ==
  /\ PayloadValues \subseteq Int /\ WeightValues \subseteq Int /\ Widths \subseteq Nat
  /\ NonFinite \in Int /\ MostFinite \in Int

VARIABLES
  inbox,         (* the signals, oldest first                              *)
  outbox,        (* the Buf that the inbox is folded into                  *)
  before,        (* history: what was in it before                         *)
  folded         (* history: the last fold: its operands and its answer    *)

signals == <<inbox, outbox, before, folded>>

Modes == {"dense", "sequential", "wave", "event"}
Finite(x) == x # NonFinite
Bounded(x) == IF x > MostFinite \/ x < -MostFinite THEN NonFinite ELSE x
Sum2(x, y) == IF Finite(x) /\ Finite(y) THEN Bounded(x + y) ELSE NonFinite
Scaled(scale, x) == IF Finite(scale) /\ Finite(x) THEN Bounded(scale * x) ELSE NonFinite

-----------------------------------------------------------------------------
(* Signal::validate, through which every signal is made. *)
IsValid(s) ==
  /\ s.payload # <<>>
  /\ \A i \in DOMAIN s.payload : Finite(s.payload[i])
  /\ s.confidence \in 0 .. 2

(* transport_law: the delay, the decay in halves, and whether to deliver.  *)
TransportLaw(s) ==
  CASE s.mode = "dense" -> [delay |-> 0, decay |-> 2, deliver |-> TRUE]
    [] s.mode = "sequential" -> [delay |-> 1, decay |-> 2, deliver |-> TRUE]
    [] s.mode = "wave" -> [delay |-> s.distance, decay |-> s.confidence, deliver |-> TRUE]
    [] s.mode = "event" -> [delay |-> 0, decay |-> 2, deliver |-> s.masked /\ s.confidence >= 1]

(* Mutant of AggregateInbox: a narrower signal is folded as far as it goes. *)
AggregateInboxNarrow(box, weights, decays, deliver, into) ==
  LET width == Len(box[1].payload)
      fold(acc, k) ==
        IF ~deliver[k] THEN acc
        ELSE [i \in DOMAIN acc |-> IF i > Len(box[k].payload) THEN acc[i]
                                   ELSE Sum2(acc[i], Scaled(weights[k] * decays[k], box[k].payload[i]))]
  IN IF box = <<>> THEN [ok |-> FALSE, out |-> into]
     ELSE IF Len(weights) # Len(box) \/ Len(into) < width THEN [ok |-> FALSE, out |-> into]
     ELSE [ok |-> TRUE, out |-> FoldLeft(fold, into, [k \in DOMAIN box |-> k])]

(* aggregate_inbox: nothing is written before everything has been checked. *)
AggregateInbox(box, weights, decays, deliver, into) ==
  LET width == Len(box[1].payload)
      fold(acc, k) ==
        IF ~deliver[k] THEN acc
        ELSE [i \in DOMAIN acc |-> IF i > width THEN acc[i]
                                   ELSE Sum2(acc[i], Scaled(weights[k] * decays[k], box[k].payload[i]))]
  IN IF box = <<>> THEN [ok |-> FALSE, out |-> into]
     ELSE IF Len(weights) # Len(box) \/ Len(into) < width THEN [ok |-> FALSE, out |-> into]
     ELSE IF \E k \in DOMAIN box : Len(box[k].payload) # width THEN [ok |-> FALSE, out |-> into]
     ELSE [ok |-> TRUE, out |-> FoldLeft(fold, into, [k \in DOMAIN box |-> k])]

-----------------------------------------------------------------------------
SignalsInit ==
  /\ inbox = <<>> /\ folded = [asked |-> FALSE]
  /\ \E n \in Widths : outbox = [i \in 1 .. n |-> 0]
  /\ before = outbox

(* Signal::new, and emitted with a full confidence and neutral metadata:   *)
(* what does not validate never is a signal.                               *)
Emit ==
  /\ ~folded.asked /\ Len(inbox) < MaxInbox
  /\ \E n \in Widths \cup {0}, confidence \in Confidences, way \in Modes, masked \in BOOLEAN, distance \in Distances :
       \E payload \in [1 .. n -> PayloadValues] :
         LET s == [payload |-> payload, confidence |-> confidence, mode |-> way,
                   masked |-> masked, distance |-> distance]
         IN IsValid(s) /\ inbox' = Append(inbox, s)
  /\ UNCHANGED <<outbox, before, folded>>

(* reinterpret_lmlp_signals: each is validated again and takes the mode,   *)
(* up to one that does not validate.                                       *)
Reinterpret ==
  /\ ~folded.asked
  /\ \E way \in Modes :
       inbox' = [k \in DOMAIN inbox |-> IF \A j \in 1 .. k : IsValid(inbox[j])
                                        THEN [inbox[k] EXCEPT !.mode = way] ELSE inbox[k]]
  /\ UNCHANGED <<outbox, before, folded>>

(* The fold of the inbox, with the decay and the flag that the edge of     *)
(* each signal computes for it; perhaps with a weight too many.            *)
Aggregate ==
  /\ ~folded.asked
  /\ \E one \in [1 .. Len(inbox) -> WeightValues], extra \in {<<>>, <<1>>} :
       LET weights == one \o extra
           delivery == [k \in DOMAIN inbox |-> TransportLaw(inbox[k])]
           result == AggregateInbox(inbox, weights, [k \in DOMAIN inbox |-> delivery[k].decay],
                                    [k \in DOMAIN inbox |-> delivery[k].deliver], outbox)
       IN /\ outbox' = result.out
          /\ folded' = [asked |-> TRUE, ok |-> result.ok, weights |-> weights]
  /\ before' = outbox /\ UNCHANGED inbox

SignalsNext == Emit \/ Reinterpret \/ Aggregate

-----------------------------------------------------------------------------
(* An inbox folds only if all its signals have one width, for which there  *)
(* is room, and then each element is what it was and the weighted elements *)
(* of the signals that are to be delivered: all of them but those of an    *)
(* event that nobody asked for or that is too unsure, and of a wave as     *)
(* much as its confidence.  Otherwise the buffer is left alone, and what   *)
(* is past the width always is.  What is in the inbox stays valid whatever *)
(* its mode is changed to (aggregate_inbox, transport_law, Signal).        *)
InboxFoldsWhatIsDelivered ==
  /\ \A k \in DOMAIN inbox : IsValid(inbox[k])
  /\ folded.asked =>
       LET counts(s) == s.mode = "event" => s.masked /\ s.confidence >= 1
           factor(k) == folded.weights[k] * (IF inbox[k].mode = "wave" THEN inbox[k].confidence ELSE 2)
           sum(i) == MapThenSumSet(LAMBDA k : factor(k) * inbox[k].payload[i], {k \in DOMAIN inbox : counts(inbox[k])})
       IN IF folded.ok
          THEN /\ Cardinality({Len(inbox[k].payload) : k \in DOMAIN inbox}) = 1
               /\ \A i \in DOMAIN outbox :
                    IF i <= Len(inbox[1].payload)
                    THEN Finite(outbox[i]) => outbox[i] = before[i] + sum(i)
                    ELSE outbox[i] = before[i]
          ELSE /\ outbox = before
               /\ \/ inbox = <<>> \/ Len(folded.weights) # Len(inbox)
                  \/ \E k \in DOMAIN inbox : Len(inbox[k].payload) # Len(inbox[1].payload)
                  \/ Len(inbox[1].payload) > Len(outbox)
=============================================================================
