--------------------------- MODULE LibraryProofs ---------------------------
(***************************************************************************)
(* Proofs about MCSpec, the sequential parts of the library, for every     *)
(* text, limit, capacity, usize and element.                               *)
(*   - A parser stays within its limits at every token.  The invariant is  *)
(*     WithinLimits: no frame of the stack has more in it than its limit,  *)
(*     there are no more frames than the depth or the shape of the format  *)
(*     allows, and no more nodes than theirs.                              *)
(*   - An INI line that was written is read as what was written (LineInv:  *)
(*     a line that is read is taken apart at its first separator).         *)
(*   - What SequentialProofs shows of buffers, views and signals holds of  *)
(*     them here, where a behaviour is about one of them.                  *)
(*   - A transposed matrix is the matrix turned over, whatever its sides   *)
(*     and elements.                                                       *)
(***************************************************************************)
EXTENDS MCLibrary, SequentialProofs

(* A frame that its limit allows, and a stack of such frames.              *)
Allowed(frame) ==
  /\ {"kind", "count", "names", "made"} \subseteq DOMAIN frame
  /\ frame.count \in Int
  /\ frame.kind \notin {"field", "rest"} => frame.count <= MaxItems

IsStack(frames) == \E S : frames \in Seq(S) /\ \A f \in S : Allowed(f)

(* What is known of such a stack, ...                                      *)
LEMMA StackOfAllowed ==
  ASSUME NEW s, IsStack(s)
  PROVE  /\ Len(s) \in Nat /\ DOMAIN s = 1 .. Len(s)
         /\ \A i \in DOMAIN s : Allowed(s[i])
<1>1. PICK S : s \in Seq(S) /\ \A f \in S : Allowed(f)
  BY DEF IsStack
<1>2. QED
  BY <1>1

(* ... and how the formats make one: empty, of one frame, by a push, by a  *)
(* pop, and by replacing a frame.                                          *)
LEMMA EmptyIsStack == IsStack(<<>>)
<1> DEFINE S == {}
<1>1. <<>> \in Seq(S) /\ \A f \in S : Allowed(f)
  OBVIOUS
<1> HIDE DEF S
<1>2. QED
  BY <1>1 DEF IsStack

LEMMA SingleIsStack ==
  ASSUME NEW f, Allowed(f)
  PROVE  IsStack(<<f>>) /\ Len(<<f>>) = 1
<1> DEFINE S == {f}
<1>1. <<f>> \in Seq(S) /\ Len(<<f>>) = 1 /\ \A g \in S : Allowed(g)
  OBVIOUS
<1> HIDE DEF S
<1>2. QED
  BY <1>1 DEF IsStack

LEMMA PushIsStack ==
  ASSUME NEW s, IsStack(s), NEW f, Allowed(f)
  PROVE  IsStack(Append(s, f)) /\ Len(Append(s, f)) = Len(s) + 1
<1>1. PICK S : s \in Seq(S) /\ \A g \in S : Allowed(g)
  BY DEF IsStack
<1>2. s \in Seq(S \cup {f}) /\ f \in S \cup {f}
  BY <1>1
<1>3. Append(s, f) \in Seq(S \cup {f}) /\ Len(Append(s, f)) = Len(s) + 1
  BY <1>2
<1>4. QED
  BY <1>1, <1>3 DEF IsStack

LEMMA FrontIsStack ==
  ASSUME NEW s, IsStack(s)
  PROVE  /\ IsStack(Front(s)) /\ Len(Front(s)) <= Len(s)
         /\ s # <<>> => Len(Front(s)) = Len(s) - 1
<1>1. PICK S : s \in Seq(S) /\ \A g \in S : Allowed(g)
  BY DEF IsStack
<1>2. CASE s = <<>>
  <2>1. Front(s) = <<>>
    BY <1>2 DEF Front
  <2>2. QED
    BY <1>2, <2>1, EmptyIsStack
<1>3. CASE s # <<>>
  <2>1. Len(s) \in Nat /\ Len(s) >= 1
    BY <1>1, <1>3
  <2>2. Front(s) \in Seq(S) /\ Len(Front(s)) = Len(s) - 1
    <3> DEFINE n == Len(s) - 1
    <3>1. n \in Nat /\ \A i \in 1 .. n : s[i] \in S
      BY <1>1, <2>1
    <3>2. Front(s) = SubSeq(s, 1, n)
      BY DEF Front
    <3> HIDE DEF n
    <3>3. Front(s) \in Seq(S) /\ Len(Front(s)) = IF 1 <= n THEN n - 1 + 1 ELSE 0
      BY <3>1, <3>2, SubSeqProperties
    <3>4. Front(s) \in Seq(S) /\ Len(Front(s)) = n
      BY <3>1, <3>3
    <3>5. QED
      BY <3>4 DEF n
  <2>3. QED
    BY <1>1, <2>1, <2>2 DEF IsStack
<1>4. QED
  BY <1>2, <1>3

LEMMA ReplacedIsStack ==
  ASSUME NEW s, IsStack(s), NEW i, NEW f, i \in DOMAIN s => Allowed(f)
  PROVE  /\ IsStack([s EXCEPT ![i] = f]) /\ Len([s EXCEPT ![i] = f]) = Len(s)
<1>1. PICK S : s \in Seq(S) /\ \A g \in S : Allowed(g)
  BY DEF IsStack
<1>2. CASE i \in DOMAIN s
  <2>1. s \in Seq(S \cup {f}) /\ f \in S \cup {f}
    BY <1>1
  <2>2. [s EXCEPT ![i] = f] \in Seq(S \cup {f}) /\ Len([s EXCEPT ![i] = f]) = Len(s)
    BY <1>1, <1>2, <2>1, ExceptSeq
  <2>3. QED
    BY <1>1, <1>2, <2>2 DEF IsStack
<1>3. CASE i \notin DOMAIN s
  <2>1. [s EXCEPT ![i] = f] = s
    BY <1>1, <1>3
  <2>2. QED
    BY <2>1
<1>4. QED
  BY <1>2, <1>3

(* The container counts one more, unless its limit has been reached.       *)
LEMMA CountedIsStack ==
  ASSUME NEW s, IsStack(s), s # <<>> => s[Len(s)].count # MaxItems
  PROVE  IsStack(Counted(s)) /\ Len(Counted(s)) = Len(s)
<1> DEFINE f == [s[Len(s)] EXCEPT !.count = @ + 1]
<1>1. ASSUME Len(s) \in DOMAIN s PROVE Allowed(f)
  <2>1. s # <<>> /\ Allowed(s[Len(s)])
    BY <1>1, StackOfAllowed
  <2>2. f.count = s[Len(s)].count + 1 /\ f.kind = s[Len(s)].kind /\ DOMAIN f = DOMAIN s[Len(s)]
    BY <2>1 DEF Allowed
  <2>3. QED
    BY <2>1, <2>2, LimitsAssumption DEF Allowed
<1>2. Counted(s) = [s EXCEPT ![Len(s)] = f]
  BY DEF Counted
<1> HIDE DEF f
<1>3. IsStack([s EXCEPT ![Len(s)] = f]) /\ Len([s EXCEPT ![Len(s)] = f]) = Len(s)
  BY <1>1, ReplacedIsStack
<1>4. QED
  BY <1>2, <1>3

-----------------------------------------------------------------------------

(* What the limits allow of a format in a mode with a stack and a count.   *)
Fits(f, m, frames, n) ==
  /\ n \in 0 .. MaxNodes
  /\ IsStack(frames)
  /\ f \notin {"csv", "ini", "ini line"} => Len(frames) <= MaxDepth + 2
  /\ f = "csv" => Len(frames) = 3 /\ frames[3].kind = "field"
  /\ f \in {"ini", "ini line"} => Len(frames) = 3
  /\ f = "html" => Len(frames) <= MaxDepth + (IF m \in {"content", "text"} THEN 0 ELSE 1)

WithinLimits == Fits(format, mode, stack, nodes)

(* A new frame has nothing in it.                                          *)
LEMMA NewFrame ==
  ASSUME NEW kind
  PROVE  Allowed(Frame(kind)) /\ Frame(kind).kind = kind /\ Frame(kind).count = 0
BY LimitsAssumption DEF Allowed, Frame

(* A token of a JSON document, of a number in it, or of a string.          *)
LEMMA JsonFits ==
  ASSUME WithinLimits, format = "json", J!Document
  PROVE  WithinLimits'
<1>1. PICK tok : /\ J!Reads(tok)
                 /\ \/ J!ParseValue(tok) \/ J!ParseEmpty(tok) \/ J!ParseKey(tok)
                    \/ J!ParseColon(tok) \/ J!ParseMore(tok) \/ J!ParseEnd(tok)
  BY DEF J!Document
<1>2. format' = format
  BY <1>1 DEF J!Reads
<1>3. IsStack(stack) /\ Len(stack) \in Nat /\ Len(stack) <= MaxDepth + 2 /\ nodes \in 0 .. MaxNodes
  BY StackOfAllowed DEF WithinLimits, Fits
<1>4. ASSUME UNCHANGED <<mode, stack, nodes>>
      PROVE  WithinLimits'
  BY <1>2, <1>4 DEF WithinLimits, Fits
<1>5. ASSUME NEW m, NEW frames, NEW n, J!Go(m, frames, n),
             IsStack(frames), Len(frames) <= MaxDepth + 2, n \in 0 .. MaxNodes
      PROVE  WithinLimits'
  BY <1>2, <1>5 DEF WithinLimits, Fits, J!Go
<1>6. ASSUME NEW frames, NEW n, J!ValueRead(frames, n),
             IsStack(frames), Len(frames) <= MaxDepth + 2, n \in 0 .. MaxNodes
      PROVE  WithinLimits'
  <2>1. CASE frames # <<>> /\ frames[Len(frames)].count # MaxItems
    <3>1. IsStack(Counted(frames)) /\ Len(Counted(frames)) = Len(frames)
      BY <1>6, <2>1, CountedIsStack
    <3>2. J!Go("more", Counted(frames), n)
      BY <1>6, <2>1 DEF J!ValueRead, J!Counted, Counted
    <3>3. QED
      BY <1>5, <1>6, <3>1, <3>2
  <2>2. CASE frames = <<>> \/ frames[Len(frames)].count = MaxItems
    <3>1. J!Go("end", frames, n) \/ UNCHANGED <<mode, stack, nodes>>
      BY <1>6, <2>2 DEF J!ValueRead, J!OverLimit, J!Stop
    <3>2. QED
      BY <1>4, <1>5, <1>6, <3>1
  <2>3. QED
    BY <2>1, <2>2
<1>7. IsStack(J!Front(stack)) /\ Len(J!Front(stack)) <= MaxDepth + 2
  <2>1. IsStack(Front(stack)) /\ Len(Front(stack)) <= Len(stack)
    BY <1>3, FrontIsStack
  <2>2. J!Front(stack) = Front(stack)
    BY DEF J!Front, Front
  <2>3. QED
    BY <1>3, <2>1, <2>2, StackOfAllowed, LimitsAssumption
<1>8. CASE J!ParseValue(tok)
  <2> DEFINE n == nodes + 1
  <2>1. CASE J!Exceeds(n)
    BY <1>4, <1>8, <2>1 DEF J!ParseValue, J!OverLimit, J!Stop
  <2>2. CASE ~J!Exceeds(n)
    <3>1. n \in 0 .. MaxNodes /\ Len(stack) <= MaxDepth
      BY <1>3, <2>2, LimitsAssumption DEF J!Exceeds, J!Depth
    <3>2. ASSUME NEW kind PROVE IsStack(J!Push(Frame(kind))) /\ Len(J!Push(Frame(kind))) <= MaxDepth + 2
      BY <1>3, <3>1, PushIsStack, NewFrame, LimitsAssumption DEF J!Push
    <3>3. \/ J!Go("first_key", J!Push(Frame("object")), n)
          \/ J!Go("first_item", J!Push(Frame("array")), n)
          \/ J!ValueRead(stack, n)
          \/ UNCHANGED <<mode, stack, nodes>>
      BY <1>8, <2>2 DEF J!ParseValue, J!OverLimit, J!Refuse, J!Stop, J!Frame, Frame
    <3> HIDE DEF n
    <3>4. QED
      BY <1>3, <1>4, <1>5, <1>6, <3>1, <3>2, <3>3
  <2>3. QED
    BY <2>1, <2>2
<1>9. CASE J!ParseEmpty(tok)
  BY <1>3, <1>6, <1>7, <1>9 DEF J!ParseEmpty
<1>10. CASE J!ParseKey(tok)
  <2> DEFINE g == [stack[Len(stack)] EXCEPT !.names = @ \cup {tok}]
             frames == [stack EXCEPT ![Len(stack)] = g]
  <2>1. J!Go("colon", frames, nodes) \/ UNCHANGED <<mode, stack, nodes>>
    BY <1>10 DEF J!ParseKey, J!Refuse, J!OverLimit, J!Stop, J!Depth
  <2>2. ASSUME Len(stack) \in DOMAIN stack PROVE Allowed(g)
    BY <1>3, <2>2, StackOfAllowed DEF Allowed
  <2> HIDE DEF g
  <2>3. IsStack(frames) /\ Len(frames) = Len(stack)
    BY <1>3, <2>2, ReplacedIsStack
  <2> HIDE DEF frames
  <2>4. QED
    BY <1>3, <1>4, <1>5, <2>1, <2>3
<1>11. CASE J!ParseColon(tok)
  BY <1>3, <1>4, <1>5, <1>11 DEF J!ParseColon, J!Refuse, J!Stop
<1>12. CASE J!ParseMore(tok)
  <2>1. \/ \E m : J!Go(m, stack, nodes)
        \/ J!ValueRead(J!Front(stack), nodes)
        \/ UNCHANGED <<mode, stack, nodes>>
    BY <1>12 DEF J!ParseMore, J!Refuse, J!Stop
  <2>2. QED
    BY <1>3, <1>4, <1>5, <1>6, <1>7, <2>1
<1>13. CASE J!ParseEnd(tok)
  BY <1>4, <1>13 DEF J!ParseEnd, J!Accept, J!Refuse, J!Stop
<1>14. QED
  BY <1>1, <1>8, <1>9, <1>10, <1>11, <1>12, <1>13

(* One more counted in a frame, where its limit has not been reached.      *)
LEMMA IncrementedIsStack ==
  ASSUME NEW s, IsStack(s), NEW i \in DOMAIN s, s[i].kind = "field" \/ s[i].count # MaxItems
  PROVE  LET t == [s EXCEPT ![i].count = @ + 1]
         IN /\ IsStack(t) /\ Len(t) = Len(s)
            /\ t[i].kind = s[i].kind /\ \A j \in DOMAIN s : j # i => t[j] = s[j]
<1> DEFINE f == [s[i] EXCEPT !.count = @ + 1]
<1>1. Allowed(s[i])
  BY StackOfAllowed
<1>2. f.count = s[i].count + 1 /\ f.kind = s[i].kind /\ DOMAIN f = DOMAIN s[i]
  BY <1>1 DEF Allowed
<1>3. Allowed(f)
  BY <1>1, <1>2, LimitsAssumption DEF Allowed
<1>4. [s EXCEPT ![i].count = @ + 1] = [s EXCEPT ![i] = f]
  OBVIOUS
<1> HIDE DEF f
<1>5. IsStack([s EXCEPT ![i] = f]) /\ Len([s EXCEPT ![i] = f]) = Len(s)
  BY <1>3, ReplacedIsStack
<1>6. [s EXCEPT ![i] = f][i] = f /\ \A j \in DOMAIN s : j # i => [s EXCEPT ![i] = f][j] = s[j]
  OBVIOUS
<1>7. QED
  BY <1>2, <1>4, <1>5, <1>6

(* The three frames of a table. *)
Framed(frames) == IsStack(frames) /\ Len(frames) = 3 /\ frames[3].kind = "field"

(* The places in a table.                                                  *)
LEMMA OneToThree == 1 \in 1 .. 3 /\ 2 \in 1 .. 3 /\ 3 \in 1 .. 3
OBVIOUS

(* It stays one when a frame is replaced, when one is counted up that may  *)
(* be, and when a field is held.                                           *)
LEMMA ReplacedIsFramed ==
  ASSUME NEW s, Framed(s), NEW i \in 1 .. 3, NEW f, Allowed(f), i = 3 => f.kind = "field"
  PROVE  Framed([s EXCEPT ![i] = f])
<1>1. IsStack(s) /\ Len(s) = 3 /\ DOMAIN s = 1 .. 3 /\ s[3].kind = "field"
  BY StackOfAllowed DEF Framed
<1> DEFINE t == [s EXCEPT ![i] = f]
<1>2. IsStack(t) /\ Len(t) = Len(s)
  BY <1>1, ReplacedIsStack
<1>3. t[3] = IF i = 3 THEN f ELSE s[3]
  BY <1>1
<1> HIDE DEF t
<1>4. QED
  BY <1>1, <1>2, <1>3 DEF Framed, t

LEMMA IncrementedIsFramed ==
  ASSUME NEW s, Framed(s), NEW i \in 1 .. 3, i = 3 \/ s[i].count # MaxItems
  PROVE  Framed([s EXCEPT ![i].count = @ + 1])
<1>1. IsStack(s) /\ Len(s) = 3 /\ DOMAIN s = 1 .. 3 /\ s[3].kind = "field"
  BY StackOfAllowed DEF Framed
<1> DEFINE t == [s EXCEPT ![i].count = @ + 1]
<1>2. /\ IsStack(t) /\ Len(t) = Len(s)
      /\ t[i].kind = s[i].kind /\ \A j \in DOMAIN s : j # i => t[j] = s[j]
  BY <1>1, IncrementedIsStack
<1> HIDE DEF t
<1>3. t[3].kind = "field"
  BY <1>1, <1>2
<1>4. Framed(t)
  BY <1>1, <1>2, <1>3 DEF Framed
<1>5. QED
  BY <1>4 DEF t

LEMMA HeldIsFramed ==
  ASSUME NEW s, Framed(s), NEW byte
  PROVE  Framed(C!Held(s, byte))
<1> DEFINE held == [s EXCEPT ![3].count = @ + 1]
           g == [held[3] EXCEPT !.names = IF byte = "bad" THEN {"bad"} ELSE @]
<1>1. Framed(held)
  BY IncrementedIsFramed, OneToThree
<1>2. C!Held(s, byte) = [held EXCEPT ![3] = g]
  BY DEF C!Held
<1> HIDE DEF held
<1>3. Allowed(held[3]) /\ held[3].kind = "field"
  BY <1>1, StackOfAllowed DEF Framed
<1>4. Allowed(g) /\ g.kind = "field"
  BY <1>3 DEF Allowed
<1> HIDE DEF g
<1>5. Framed([held EXCEPT ![3] = g])
  BY <1>1, <1>4, ReplacedIsFramed, OneToThree
<1>6. QED
  BY <1>2, <1>5

(* A byte of a table.                                                      *)
LEMMA CsvFits ==
  ASSUME WithinLimits, format = "csv", C!Steps
  PROVE  WithinLimits'
<1>1. PICK tok : /\ C!Reads(tok)
                 /\ \/ C!ParseRow(tok) \/ C!ParseField(tok) \/ C!ParseUnquoted(tok)
                    \/ C!ParseQuoted(tok) \/ C!ParseQuote(tok)
  BY DEF C!Steps
<1>2. format' = format
  BY <1>1 DEF C!Reads
<1>3. Framed(stack) /\ nodes \in 0 .. MaxNodes
  BY DEF WithinLimits, Fits, Framed
<1>4. ASSUME UNCHANGED <<mode, stack, nodes>>
      PROVE  WithinLimits'
  BY <1>2, <1>4 DEF WithinLimits, Fits
<1>5. ASSUME NEW m, NEW frames, NEW n, C!Go(m, frames, n), Framed(frames), n \in 0 .. MaxNodes
      PROVE  WithinLimits'
  BY <1>2, <1>5 DEF WithinLimits, Fits, Framed, C!Go
<1> DEFINE Goes == \/ \E m, frames : \E n \in 0 .. MaxNodes : Framed(frames) /\ C!Go(m, frames, n)
                   \/ UNCHANGED <<mode, stack, nodes>>
<1> SUFFICES Goes
  BY <1>4, <1>5
<1>8. ASSUME NEW frames, Framed(frames), NEW n \in 0 .. MaxNodes, C!FieldEnds(tok, frames, n)
      PROVE  Goes
  <2> DEFINE counted == [frames EXCEPT ![2].count = @ + 1]
             row == [counted EXCEPT ![3] = Frame("field")]
             next == [row EXCEPT ![2] = Frame("row")]
  <2>1. CASE frames[2].count # MaxItems
    <3>1. Framed(counted)
      BY <1>8, <2>1, IncrementedIsFramed, OneToThree
    <3>2. Framed(row)
      BY <3>1, NewFrame, ReplacedIsFramed, OneToThree
    <3>3. Framed(next)
      <4> HIDE DEF row
      <4>1. Framed([row EXCEPT ![2] = Frame("row")])
        BY <3>2, NewFrame, ReplacedIsFramed, OneToThree
      <4>2. QED
        BY <4>1
    <3>4. \/ \E m : C!Go(m, row, n) \/ C!Go(m, next, n)
          \/ UNCHANGED <<mode, stack, nodes>>
      BY <1>8, <2>1 DEF C!FieldEnds, C!OverLimit, C!Refuse, C!Accept, C!Stop, C!Frame, Frame
    <3> HIDE DEF row, next
    <3>5. QED
      BY <3>2, <3>3, <3>4
  <2>2. CASE frames[2].count = MaxItems
    BY <1>8, <2>2 DEF C!FieldEnds, C!OverLimit, C!Refuse, C!Stop
  <2>3. QED
    BY <2>1, <2>2
<1>9. ASSUME NEW frames, Framed(frames), NEW n \in 0 .. MaxNodes, C!FieldByte(tok, frames, n)
      PROVE  Goes
  BY <1>8, <1>9, HeldIsFramed DEF C!FieldByte
<1>10. ASSUME NEW frames, Framed(frames), C!FieldStarts(tok, frames)
       PROVE  Goes
  <2>1. CASE nodes + 1 > MaxNodes
    BY <1>10, <2>1 DEF C!FieldStarts, C!OverLimit, C!Stop
  <2>2. CASE nodes + 1 <= MaxNodes
    <3>1. nodes + 1 \in 0 .. MaxNodes
      BY <1>3, <2>2, LimitsAssumption
    <3>2. C!Go("quoted", frames, nodes + 1) \/ C!FieldByte(tok, frames, nodes + 1)
      BY <1>3, <1>10, <2>2, LimitsAssumption DEF C!FieldStarts
    <3>3. QED
      BY <1>9, <1>10, <3>1, <3>2
  <2>3. QED
    BY <1>3, <2>1, <2>2, LimitsAssumption
<1>11. CASE C!ParseRow(tok)
  <2>1. CASE stack[1].count # MaxItems
    <3> DEFINE frames == [stack EXCEPT ![1].count = @ + 1]
    <3>1. Framed(frames)
      BY <1>3, <2>1, IncrementedIsFramed, OneToThree
    <3>2. \/ C!Go("lf", stack, nodes) \/ C!FieldStarts(tok, frames)
          \/ UNCHANGED <<mode, stack, nodes>>
      BY <1>11, <2>1 DEF C!ParseRow, C!Accept, C!Stop
    <3> HIDE DEF frames
    <3>3. QED
      BY <1>3, <1>10, <3>1, <3>2
  <2>2. CASE stack[1].count = MaxItems
    BY <1>3, <1>11, <2>2 DEF C!ParseRow, C!Accept, C!OverLimit, C!Stop
  <2>3. QED
    BY <2>1, <2>2
<1>12. CASE C!ParseField(tok)
  BY <1>3, <1>10, <1>12 DEF C!ParseField
<1>13. CASE C!ParseUnquoted(tok)
  BY <1>3, <1>9, <1>13 DEF C!ParseUnquoted, C!Refuse, C!Stop
<1>14. CASE C!ParseQuoted(tok)
  <2>1. \/ C!Go("quote", stack, nodes) \/ C!Go("quoted", C!Held(stack, tok), nodes)
        \/ UNCHANGED <<mode, stack, nodes>>
    BY <1>14 DEF C!ParseQuoted, C!Refuse, C!Stop
  <2>2. QED
    BY <1>3, HeldIsFramed, <2>1
<1>15. CASE C!ParseQuote(tok)
  <2>1. \/ C!Go("quoted", C!Held(C!Held(stack, tok), tok), nodes)
        \/ C!FieldEnds(tok, stack, nodes)
        \/ UNCHANGED <<mode, stack, nodes>>
    BY <1>15 DEF C!ParseQuote, C!OverLimit, C!Refuse, C!Stop
  <2>2. Framed(C!Held(C!Held(stack, tok), tok))
    BY <1>3, HeldIsFramed
  <2>3. QED
    BY <1>3, <1>8, <2>1, <2>2
<1>16. QED
  BY <1>1, <1>11, <1>12, <1>13, <1>14, <1>15

(* What a line makes of the document and of its section.                   *)
LEMMA LinesAreAllowed ==
  ASSUME Allowed(stack[1]), Allowed(stack[2]), NEW line
  PROVE  Allowed(I!Line(line).doc) /\ Allowed(I!Line(line).section)
<1> DEFINE Sound(means) == Allowed(means.doc) /\ Allowed(means.section)
<1>1. ASSUME NEW why PROVE Sound(I!Failure(why))
  BY DEF I!Failure
<1>2. ASSUME NEW item, NEW doc, NEW section, Allowed(doc), Allowed(section)
      PROVE  Sound(I!Success(item, doc, section))
  <2> DEFINE d == [doc EXCEPT !.made = @ \o item]
  <2>1. Allowed(d)
    BY <1>2 DEF Allowed
  <2>2. I!Success(item, doc, section).doc = d /\ I!Success(item, doc, section).section = section
    BY DEF I!Success
  <2> HIDE DEF d
  <2>3. QED
    BY <1>2, <2>1, <2>2
<1>3. ASSUME NEW frame, Allowed(frame), frame.count # MaxItems, NEW name
      PROVE  Allowed(I!Named(frame, name))
  <2> DEFINE f == [frame EXCEPT !.count = @ + 1]
             g == [f EXCEPT !.names = @ \cup {name}]
  <2>1. f.count = frame.count + 1 /\ f.kind = frame.kind /\ DOMAIN f = DOMAIN frame
    BY <1>3 DEF Allowed
  <2>2. Allowed(f)
    BY <1>3, <2>1, LimitsAssumption DEF Allowed
  <2>3. I!Named(frame, name) = g
    BY DEF I!Named
  <2> HIDE DEF f
  <2>4. Allowed(g)
    BY <2>2 DEF Allowed
  <2>5. QED
    BY <2>3, <2>4
<1> HIDE DEF Sound
<1>4. ASSUME NEW content PROVE Sound(I!Section(content))
  <2>1. \/ \E why : I!Section(content) = I!Failure(why)
        \/ /\ stack[1].count # MaxItems
           /\ \E item, name : I!Section(content) = I!Success(item, I!Named(stack[1], name), Frame("section"))
    BY DEF I!Section, I!Frame, Frame
  <2>2. QED
    BY <1>1, <1>2, <1>3, <2>1, NewFrame
<1>5. ASSUME NEW content PROVE Sound(I!Entry(content))
  <2>1. \/ \E why : I!Entry(content) = I!Failure(why)
        \/ /\ stack[2].count # MaxItems
           /\ \E item, name : I!Entry(content) = I!Success(item, stack[1], I!Named(stack[2], name))
    BY DEF I!Entry
  <2>2. QED
    BY <1>1, <1>2, <1>3, <2>1
<1> DEFINE content == I!Trimmed(line)
<1>6. \/ \E why : I!Line(line) = I!Failure(why)
      \/ I!Line(line) = I!Success(<<>>, stack[1], stack[2])
      \/ I!Line(line) = I!Section(content)
      \/ I!Line(line) = I!Entry(content)
  BY DEF I!Line
<1>7. Sound(I!Line(line))
  BY <1>1, <1>2, <1>4, <1>5, <1>6
<1>8. QED
  BY <1>7 DEF Sound

(* A stack of three frames.                                                *)
LEMMA TripleIsStack ==
  ASSUME NEW a, NEW b, NEW c, Allowed(a), Allowed(b), Allowed(c)
  PROVE  IsStack(<<a, b, c>>) /\ Len(<<a, b, c>>) = 3
<1> DEFINE S == {a, b, c}
<1>1. <<a, b, c>> \in Seq(S) /\ Len(<<a, b, c>>) = 3
  OBVIOUS
<1>2. \A f \in S : Allowed(f)
  OBVIOUS
<1> HIDE DEF S
<1>3. QED
  BY <1>1, <1>2 DEF IsStack

(* A line.                                                                 *)
LEMMA IniFits ==
  ASSUME WithinLimits, format \in {"ini", "ini line"}, I!Steps
  PROVE  WithinLimits'
<1>1. \/ I!Reads(End) /\ I!Accept
      \/ \E tok, line, last : I!Reads(tok) /\ I!Becomes(I!Line(line), last)
      \/ \E tok : I!Reads(tok) /\ I!Go(mode, [stack EXCEPT ![3].made = Append(@, tok)], nodes)
  BY DEF I!Steps, I!End, End
<1>2. /\ IsStack(stack) /\ Len(stack) = 3 /\ nodes \in 0 .. MaxNodes
      /\ DOMAIN stack = 1 .. 3
      /\ Allowed(stack[1]) /\ Allowed(stack[2]) /\ Allowed(stack[3])
  BY StackOfAllowed, OneToThree DEF WithinLimits, Fits
<1>3. CASE I!Reads(End) /\ I!Accept
  BY <1>3 DEF I!Reads, I!Accept, I!Stop, WithinLimits, Fits
<1>4. ASSUME NEW tok, NEW line, NEW last, I!Reads(tok), I!Becomes(I!Line(line), last)
      PROVE  WithinLimits'
  <2> DEFINE means == I!Line(line)
  <2>1. Allowed(means.doc) /\ Allowed(means.section)
    BY <1>2, LinesAreAllowed
  <2>2. stack' = <<means.doc, means.section, stack[3]>> /\ nodes' = nodes /\ format' = format
    BY <1>4 DEF I!Becomes, I!Reads
  <2> HIDE DEF means
  <2>3. IsStack(stack') /\ Len(stack') = 3
    BY <1>2, <2>1, <2>2, TripleIsStack
  <2>4. QED
    BY <1>2, <2>2, <2>3 DEF WithinLimits, Fits
<1>5. ASSUME NEW tok, I!Reads(tok), I!Go(mode, [stack EXCEPT ![3].made = Append(@, tok)], nodes)
      PROVE  WithinLimits'
  <2> DEFINE g == [stack[3] EXCEPT !.made = Append(@, tok)]
  <2>1. Allowed(g)
    BY <1>2 DEF Allowed
  <2>2. stack' = [stack EXCEPT ![3] = g] /\ nodes' = nodes /\ format' = format
    BY <1>5 DEF I!Go, I!Reads
  <2> HIDE DEF g
  <2>3. IsStack([stack EXCEPT ![3] = g]) /\ Len([stack EXCEPT ![3] = g]) = 3
    BY <1>2, <2>1, ReplacedIsStack
  <2>4. QED
    BY <1>2, <2>2, <2>3 DEF WithinLimits, Fits
<1>6. QED
  BY <1>1, <1>3, <1>4, <1>5

(* Formats whose steps leave the stack and the count alone.                *)
LEMMA FlatFormatsFit ==
  ASSUME WithinLimits,
         \/ format = "txt" /\ T!Steps
         \/ format \in {"json number", "json string"} /\ J!Steps
  PROVE  WithinLimits'
<1>1. UNCHANGED <<format, stack, nodes>>
  <2>1. CASE format = "txt" /\ T!Steps
    BY <2>1 DEF T!Steps, T!Reads, T!Go, T!Stop
  <2>2. CASE format \in {"json number", "json string"} /\ J!Steps
    <3>1. \E tok, next : J!Reads(tok) /\ J!Lexes(next)
      BY <2>2 DEF J!Steps
    <3>2. QED
      BY <3>1 DEF J!Lexes, J!Reads, J!Go, J!Accept, J!Refuse, J!Stop
  <2>3. QED
    BY <2>1, <2>2
<1>2. format # "html"
  OBVIOUS
<1>3. QED
  BY <1>1, <1>2 DEF WithinLimits, Fits

(* A token of a TOML document.                                             *)
LEMMA TomlFits ==
  ASSUME WithinLimits, format = "toml", O!Steps
  PROVE  WithinLimits'
<1>1. PICK tok : /\ O!Reads(tok)
                 /\ \/ O!ParseStatement(tok) \/ O!ParseHeader(tok) \/ O!ParseKey(tok) \/ O!ParseDot(tok)
                    \/ O!ParseAfterKey(tok) \/ O!ParseSecondBracket(tok) \/ O!ParseValue(tok)
                    \/ O!ParseItem(tok) \/ O!ParseAfterItem(tok) \/ O!ParseFirstKey(tok)
                    \/ O!ParseAfterEntry(tok)
  BY DEF O!Steps
<1>2. format' = format
  BY <1>1 DEF O!Reads
<1> DEFINE Sound(frames) == IsStack(frames) /\ Len(frames) <= MaxDepth + 2
           Goes == \/ \E m, frames : \E n \in 0 .. MaxNodes : Sound(frames) /\ O!Go(m, frames, n)
                   \/ UNCHANGED <<mode, stack, nodes>>
<1>3. Sound(stack) /\ nodes \in 0 .. MaxNodes
  BY DEF WithinLimits, Fits
<1>4. Sound(<<>>)
  <2>1. Len(<<>>) = 0
    OBVIOUS
  <2>2. QED
    BY <2>1, EmptyIsStack, LimitsAssumption
<1>5. Sound(O!Front(stack))
  <2>1. IsStack(Front(stack)) /\ Len(Front(stack)) <= Len(stack)
    BY <1>3, FrontIsStack
  <2>2. O!Front(stack) = Front(stack)
    BY DEF O!Front, Front
  <2>3. QED
    BY <1>3, <2>1, <2>2, StackOfAllowed, LimitsAssumption
<1>6. ASSUME NEW frames, Sound(frames), NEW i, NEW f, i \in DOMAIN frames => Allowed(f)
      PROVE  Sound([frames EXCEPT ![i] = f])
  BY <1>6, ReplacedIsStack
<1>7. ASSUME NEW kind PROVE Sound(<<Frame(kind)>>)
  BY NewFrame, SingleIsStack, LimitsAssumption
<1>8. SUFFICES Goes
  <2>1. CASE UNCHANGED <<mode, stack, nodes>>
    BY <1>2, <2>1 DEF WithinLimits, Fits
  <2>2. ASSUME NEW m, NEW frames, NEW n \in 0 .. MaxNodes, Sound(frames), O!Go(m, frames, n)
        PROVE  WithinLimits'
    BY <1>2, <2>2 DEF WithinLimits, Fits, O!Go
  <2>3. QED
    BY <2>1, <2>2
<1>9. ASSUME NEW frames, Sound(frames), NEW n \in 0 .. MaxNodes, O!Key(tok, frames, n)
      PROVE  Goes
  <2> DEFINE g == [frames[Len(frames)] EXCEPT !.made = Append(@, tok)]
  <2>1. ASSUME Len(frames) \in DOMAIN frames PROVE Allowed(g)
    BY <1>9, <2>1, StackOfAllowed DEF Allowed
  <2>2. O!Go("after_key", [frames EXCEPT ![Len(frames)] = g], n) \/ UNCHANGED <<mode, stack, nodes>>
    BY <1>9 DEF O!Key, O!OverLimit, O!Refuse, O!Stop
  <2> HIDE DEF g
  <2>3. Sound([frames EXCEPT ![Len(frames)] = g])
    BY <1>6, <1>9, <2>1
  <2> HIDE DEF Sound
  <2>4. QED
    BY <2>2, <2>3
<1>10. ASSUME NEW frames, Sound(frames), NEW n \in 0 .. MaxNodes, O!ValueRead(frames, n)
       PROVE  Goes
  <2> DEFINE counted == Counted(frames)
             g == [counted[Len(frames)] EXCEPT !.made = <<>>]
             cleared == [counted EXCEPT ![Len(frames)] = g]
  <2>1. CASE frames # <<>> => frames[Len(frames)].count # MaxItems
    <3>1. IsStack(counted) /\ Len(counted) = Len(frames)
      BY <1>10, <2>1, CountedIsStack
    <3>2. Sound(counted)
      BY <1>10, <3>1
    <3>3. O!Counted(frames) = counted
      BY DEF O!Counted, Counted
    <3> HIDE DEF counted
    <3>4. ASSUME Len(frames) \in DOMAIN counted PROVE Allowed(g)
      BY <3>1, <3>4, StackOfAllowed DEF Allowed
    <3>5. \/ O!Go("document", <<>>, n) \/ O!Go("after_item", counted, n)
          \/ O!Go("after_entry", cleared, n)
          \/ UNCHANGED <<mode, stack, nodes>>
      BY <1>10, <3>3 DEF O!ValueRead, O!OverLimit, O!Stop
    <3> HIDE DEF g
    <3>6. Sound(cleared)
      BY <1>6, <3>2, <3>4
    <3> HIDE DEF Sound, cleared
    <3>7. QED
      BY <1>4, <3>2, <3>5, <3>6
  <2>2. CASE frames[Len(frames)].count = MaxItems
    BY <1>4, <1>10, <2>2 DEF O!ValueRead, O!OverLimit, O!Stop
  <2>3. QED
    BY <2>1, <2>2
<1>11. CASE O!ParseValue(tok)
  <2> DEFINE n == nodes + 1
  <2>1. CASE O!Exceeds(n)
    BY <1>11, <2>1 DEF O!ParseValue, O!OverLimit, O!Stop
  <2>2. CASE ~O!Exceeds(n)
    <3>1. n \in 0 .. MaxNodes /\ Len(stack) - 1 <= MaxDepth
      BY <1>3, <2>2, StackOfAllowed, LimitsAssumption DEF O!Exceeds, O!Depth
    <3>2. ASSUME NEW kind PROVE Sound(O!Push(Frame(kind)))
      BY <1>3, <3>1, PushIsStack, NewFrame, StackOfAllowed, LimitsAssumption DEF O!Push
    <3>3. \/ O!Go("item", O!Push(Frame("array")), n)
          \/ O!Go("first_key", O!Push(Frame("inline")), n)
          \/ O!ValueRead(stack, n)
          \/ UNCHANGED <<mode, stack, nodes>>
      BY <1>11, <2>2 DEF O!ParseValue, O!OverLimit, O!Refuse, O!Stop, O!Frame, Frame
    <3> HIDE DEF n, Sound
    <3>4. QED
      BY <1>3, <1>10, <3>1, <3>2, <3>3
  <2>3. QED
    BY <2>1, <2>2
<1> HIDE DEF Sound
<1>12. CASE O!ParseStatement(tok)
  <2>1. \/ O!Go("document", <<>>, nodes)
        \/ nodes # MaxNodes /\ O!Go("header", <<Frame("header")>>, nodes + 1)
        \/ O!Key(tok, <<Frame("pair")>>, nodes)
        \/ UNCHANGED <<mode, stack, nodes>>
    BY <1>12 DEF O!ParseStatement, O!OverLimit, O!Accept, O!Refuse, O!Stop, O!Frame, Frame
  <2>2. nodes # MaxNodes => nodes + 1 \in 0 .. MaxNodes
    BY <1>3, LimitsAssumption
  <2>3. QED
    BY <1>3, <1>4, <1>7, <1>9, <2>1, <2>2
<1>13. CASE O!ParseHeader(tok)
  <2>1. O!Go("key", <<Frame("array header")>>, nodes) \/ O!Key(tok, stack, nodes)
    BY <1>13 DEF O!ParseHeader, O!Frame, Frame
  <2>2. QED
    BY <1>3, <1>7, <1>9, <2>1
<1>14. CASE O!ParseKey(tok)
  BY <1>3, <1>9, <1>14 DEF O!ParseKey
<1>15. CASE O!ParseDot(tok) \/ O!ParseAfterKey(tok) \/ O!ParseSecondBracket(tok)
  <2>1. (\E m : O!Go(m, stack, nodes) \/ O!Go(m, <<>>, nodes)) \/ UNCHANGED <<mode, stack, nodes>>
    BY <1>15 DEF O!ParseDot, O!ParseAfterKey, O!ParseSecondBracket, O!OverLimit, O!Refuse, O!Stop
  <2>2. QED
    BY <1>3, <1>4, <2>1
<1>16. CASE O!ParseItem(tok) \/ O!ParseAfterItem(tok) \/ O!ParseAfterEntry(tok)
  <2>1. \/ \E m : O!Go(m, stack, nodes)
        \/ O!ValueRead(O!Front(stack), nodes)
        \/ UNCHANGED <<mode, stack, nodes>>
    BY <1>16 DEF O!ParseItem, O!ParseAfterItem, O!ParseAfterEntry, O!Refuse, O!Stop
  <2>2. QED
    BY <1>3, <1>5, <1>10, <2>1
<1>17. CASE O!ParseFirstKey(tok)
  <2>1. O!ValueRead(O!Front(stack), nodes) \/ O!Key(tok, stack, nodes)
    BY <1>17 DEF O!ParseFirstKey
  <2>2. QED
    BY <1>3, <1>5, <1>9, <1>10, <2>1
<1>18. QED
  BY <1>1, <1>11, <1>12, <1>13, <1>14, <1>15, <1>16, <1>17

(* An element is opened, and its name kept.                                *)
LEMMA NamedFrame ==
  ASSUME NEW kind, NEW made
  PROVE  Allowed([Frame(kind) EXCEPT !.made = made])
BY LimitsAssumption DEF Allowed, Frame

(* What is left of a text after its last element is not bounded.           *)
LEMMA RestFrame ==
  ASSUME NEW n \in Int
  PROVE  Allowed([Frame("rest") EXCEPT !.count = n])
BY DEF Allowed, Frame

(* A token of an XML document.                                             *)
LEMMA XmlFits ==
  ASSUME WithinLimits, format = "xml", Len(read) \in Nat, X!Steps
  PROVE  WithinLimits'
<1>1. PICK tok : /\ X!Reads(tok)
                 /\ \/ X!ParseText(tok) \/ X!ParseNote(tok) \/ X!SkipInstruction(tok)
                    \/ X!ParseOpen(tok) \/ X!ParseClose(tok) \/ X!StrayClose(tok)
                    \/ X!ParseEnd(tok) \/ X!LookOver(tok) \/ X!ParseTag(tok)
  BY DEF X!Steps
<1>2. format' = format
  BY <1>1 DEF X!Reads
<1> DEFINE Sound(frames) == IsStack(frames) /\ Len(frames) <= MaxDepth + 2
           Goes == \/ \E m, frames : \E n \in 0 .. MaxNodes :
                        Sound(frames) /\ mode' = m /\ stack' = frames /\ nodes' = n
                   \/ UNCHANGED <<mode, stack, nodes>>
<1>3. Sound(stack) /\ nodes \in 0 .. MaxNodes
  BY DEF WithinLimits, Fits
<1>4. Sound(X!Front(stack))
  <2>1. IsStack(Front(stack)) /\ Len(Front(stack)) <= Len(stack)
    BY <1>3, FrontIsStack
  <2>2. X!Front(stack) = Front(stack)
    BY DEF X!Front, Front
  <2>3. QED
    BY <1>3, <2>1, <2>2, StackOfAllowed, LimitsAssumption
<1>5. SUFFICES Goes
  BY <1>2, <1>5 DEF WithinLimits, Fits
<1>6. ASSUME NEW m, NEW frames, Sound(frames), NEW n \in 0 .. MaxNodes, X!Go(m, frames, n)
      PROVE  Goes
  BY <1>6 DEF X!Go
<1>7. ASSUME NEW frames, Sound(frames), NEW next, X!Node(frames, next)
      PROVE  Goes
  <2>1. nodes # MaxNodes => nodes + 1 \in 0 .. MaxNodes
    BY <1>3, LimitsAssumption
  <2>2. (nodes # MaxNodes /\ X!Go(next, frames, nodes + 1)) \/ UNCHANGED <<mode, stack, nodes>>
    BY <1>7 DEF X!Node, X!OverLimit, X!Stop
  <2> HIDE DEF Sound, Goes
  <2>3. QED
    BY <1>6, <1>7, <2>1, <2>2 DEF Goes
<1>8. CASE X!ParseText(tok) \/ X!ParseNote(tok) \/ X!SkipInstruction(tok)
  <2>1. \/ \E m : X!Go(m, stack, nodes) \/ X!Node(stack, m)
        \/ UNCHANGED <<mode, stack, nodes>>
    BY <1>8 DEF X!ParseText, X!ParseNote, X!SkipInstruction, X!OverLimit, X!Refuse, X!Stop
  <2>2. QED
    BY <1>3, <1>6, <1>7, <2>1
<1>9. CASE X!ParseOpen(tok)
  <2> DEFINE g == [Frame("element") EXCEPT !.made = <<tok>>]
  <2>1. \/ Len(stack) < MaxDepth /\ X!Node(Append(stack, g), "tag")
        \/ UNCHANGED <<mode, stack, nodes>>
    BY <1>3, <1>9, StackOfAllowed, LimitsAssumption
       DEF X!ParseOpen, X!OverLimit, X!Stop, X!Depth, X!Push, X!Frame, Frame
  <2>2. Allowed(g)
    BY NamedFrame
  <2> HIDE DEF g
  <2>3. Len(stack) < MaxDepth => Sound(Append(stack, g))
    BY <1>3, <2>2, PushIsStack, StackOfAllowed, LimitsAssumption
  <2>4. QED
    BY <1>7, <2>1, <2>3
<1>10. CASE X!ParseClose(tok)
  BY <1>3, <1>4, <1>6, <1>10 DEF X!ParseClose, X!Refuse, X!Stop
<1>11. CASE X!StrayClose(tok)
  <2> DEFINE g == [Frame("rest") EXCEPT !.count = Len(read)]
  <2>1. mode' = "rest" /\ stack' = <<g>> /\ nodes' = nodes
    BY <1>11 DEF X!StrayClose, X!Frame, Frame
  <2>2. Allowed(g)
    BY RestFrame
  <2> HIDE DEF g
  <2>3. Sound(<<g>>)
    BY <2>2, SingleIsStack, LimitsAssumption
  <2>4. QED
    BY <1>3, <2>1, <2>3
<1>12. CASE X!ParseEnd(tok)
  BY <1>12 DEF X!ParseEnd, X!Ends, X!Accept, X!Refuse, X!OverLimit, X!Stop
<1>13. CASE X!LookOver(tok)
  BY <1>3, <1>6, <1>13 DEF X!LookOver, X!Ends, X!Accept, X!Refuse, X!Stop
<1>14. CASE X!ParseTag(tok)
  <2>1. CASE stack # <<>> => stack[Len(stack)].count # MaxItems
    <3>1. IsStack(Counted(stack)) /\ Len(Counted(stack)) = Len(stack)
      BY <1>3, <2>1, CountedIsStack
    <3>2. Sound(Counted(stack)) /\ X!Counted(stack) = Counted(stack)
      BY <1>3, <3>1 DEF X!Counted, Counted
    <3>3. \/ \E m : X!Go(m, X!Counted(stack), nodes) \/ X!Go(m, stack, nodes) \/ X!Go(m, X!Front(stack), nodes)
          \/ UNCHANGED <<mode, stack, nodes>>
      BY <1>14 DEF X!ParseTag, X!OverLimit, X!Refuse, X!Stop
    <3>4. QED
      BY <1>3, <1>4, <1>6, <3>2, <3>3
  <2>2. CASE stack[Len(stack)].count = MaxItems
    <3>1. \/ \E m : X!Go(m, stack, nodes) \/ X!Go(m, X!Front(stack), nodes)
          \/ UNCHANGED <<mode, stack, nodes>>
      BY <1>14, <2>2 DEF X!ParseTag, X!OverLimit, X!Refuse, X!Stop, X!Top, X!Depth
    <3>2. QED
      BY <1>3, <1>4, <1>6, <3>1
  <2>3. QED
    BY <2>1, <2>2
<1>15. QED
  BY <1>1, <1>8, <1>9, <1>10, <1>11, <1>12, <1>13, <1>14

(* A token of a page, whose frame before the content is not counted in its *)
(* depth.                                                                  *)
LEMMA HtmlFits ==
  ASSUME WithinLimits, format = "html", Len(read) \in Nat, H!Steps
  PROVE  WithinLimits'
<1>1. PICK tok : /\ H!Reads(tok)
                 /\ \/ H!ParseText(tok) \/ H!ParseNote(tok) \/ H!ParseOpen(tok) \/ H!ParseUnclosed(tok)
                    \/ H!ParseTag(tok) \/ H!SkipRaw(tok) \/ H!ParseClose(tok) \/ H!StrayClose(tok)
                    \/ H!LookOver(tok) \/ H!ParseEnd(tok)
  BY DEF H!Steps
<1>2. format' = format
  BY <1>1 DEF H!Reads
<1> DEFINE Sound(frames, extra) == IsStack(frames) /\ Len(frames) <= MaxDepth + extra
           Goes == \/ \E m, frames : \E n \in 0 .. MaxNodes :
                        /\ Sound(frames, IF m \in {"content", "text"} THEN 0 ELSE 1)
                        /\ mode' = m /\ stack' = frames /\ nodes' = n
                   \/ UNCHANGED <<mode, stack, nodes>>
<1>3. /\ Sound(stack, IF mode \in {"content", "text"} THEN 0 ELSE 1)
      /\ nodes \in 0 .. MaxNodes /\ Len(stack) \in Nat
  BY StackOfAllowed DEF WithinLimits, Fits
<1>4. Sound(H!Front(stack), 0)
  <2>1. IsStack(Front(stack)) /\ Len(Front(stack)) <= Len(stack)
        /\ (stack # <<>> => Len(Front(stack)) = Len(stack) - 1)
    BY <1>3, FrontIsStack
  <2>2. stack = <<>> => Len(stack) = 0
    OBVIOUS
  <2>3. Len(Front(stack)) <= MaxDepth
    BY <1>3, <2>1, <2>2, StackOfAllowed, LimitsAssumption
  <2>4. H!Front(stack) = Front(stack)
    BY DEF H!Front, Front
  <2>5. QED
    BY <2>1, <2>3, <2>4, StackOfAllowed, LimitsAssumption
<1>5. SUFFICES Goes
  <2>1. CASE UNCHANGED <<mode, stack, nodes>>
    BY <1>2, <2>1 DEF WithinLimits, Fits
  <2>2. ASSUME NEW m, NEW frames, NEW n \in 0 .. MaxNodes,
               Sound(frames, IF m \in {"content", "text"} THEN 0 ELSE 1),
               mode' = m, stack' = frames, nodes' = n
        PROVE  WithinLimits'
    BY <1>2, <2>2, StackOfAllowed, LimitsAssumption DEF WithinLimits, Fits
  <2>3. QED
    BY <1>5, <2>1, <2>2
<1>6. ASSUME NEW m, NEW frames, Sound(frames, IF m \in {"content", "text"} THEN 0 ELSE 1),
             NEW n \in 0 .. MaxNodes, H!Go(m, frames, n)
      PROVE  Goes
  BY <1>6 DEF H!Go
<1>7. ASSUME NEW frames, NEW m, Sound(frames, IF m \in {"content", "text"} THEN 0 ELSE 1), H!Node(frames, m)
      PROVE  Goes
  <2>1. nodes # MaxNodes => nodes + 1 \in 0 .. MaxNodes
    BY <1>3, LimitsAssumption
  <2>2. (nodes # MaxNodes /\ H!Go(m, frames, nodes + 1)) \/ UNCHANGED <<mode, stack, nodes>>
    BY <1>7 DEF H!Node, H!OverLimit, H!Stop
  <2> HIDE DEF Sound, Goes
  <2>3. QED
    BY <1>6, <1>7, <2>1, <2>2 DEF Goes
<1>8. ASSUME H!Content PROVE Sound(stack, 0)
  BY <1>3, <1>8 DEF H!Content
<1>9. ASSUME NEW m, H!Go(m, stack, nodes), m = mode \/ Sound(stack, 0) \/ m \notin {"content", "text"}
      PROVE  Goes
  <2>1. Sound(stack, IF m \in {"content", "text"} THEN 0 ELSE 1)
    BY <1>3, <1>9, LimitsAssumption
  <2>2. QED
    BY <1>3, <1>6, <1>9, <2>1
<1>10. CASE H!ParseText(tok) \/ H!ParseNote(tok)
  <2>1. H!Content
    BY <1>10 DEF H!ParseText, H!ParseNote
  <2>2. \/ H!Go("text", stack, nodes) \/ H!Node(stack, "text") \/ H!Node(stack, "content")
        \/ UNCHANGED <<mode, stack, nodes>>
    BY <1>10 DEF H!ParseText, H!ParseNote, H!Refuse, H!Stop
  <2>3. Sound(stack, 0)
    BY <1>8, <2>1
  <2>4. QED
    BY <1>3, <1>7, <1>9, <2>2, <2>3
<1>11. CASE H!ParseOpen(tok)
  <2> DEFINE g == [Frame("element") EXCEPT !.made = <<tok>>]
  <2>1. H!Content /\ H!Node(Append(stack, g), "tag")
    BY <1>11 DEF H!ParseOpen, H!Push, H!Frame, Frame
  <2>2. Allowed(g)
    BY NamedFrame
  <2> HIDE DEF g
  <2>3. Sound(Append(stack, g), 1)
    BY <1>3, <1>8, <2>1, <2>2, PushIsStack, LimitsAssumption
  <2>4. QED
    BY <1>7, <2>1, <2>3
<1>12. CASE H!ParseUnclosed(tok) \/ H!ParseEnd(tok)
  BY <1>12 DEF H!ParseUnclosed, H!ParseEnd, H!Ends, H!Accept, H!OverLimit, H!Refuse, H!Stop
<1>13. CASE H!ParseTag(tok)
  <2>1. mode = "tag" /\ Sound(stack, 1)
    BY <1>3, <1>13 DEF H!ParseTag
  <2>2. \/ H!Top.count # MaxItems /\ H!Go("tag", H!Counted(stack), nodes)
        \/ H!Go("content", H!Front(stack), nodes)
        \/ H!Go("raw", stack, nodes)
        \/ ~(H!Depth > MaxDepth) /\ H!Go("content", stack, nodes)
        \/ UNCHANGED <<mode, stack, nodes>>
    BY <1>13 DEF H!ParseTag, H!OverLimit, H!Refuse, H!Stop
  <2>3. ASSUME H!Top.count # MaxItems PROVE Sound(H!Counted(stack), 1)
    <3>1. IsStack(Counted(stack)) /\ Len(Counted(stack)) = Len(stack)
      BY <1>3, <2>3, CountedIsStack DEF H!Top, H!Depth
    <3>2. H!Counted(stack) = Counted(stack)
      BY DEF H!Counted, Counted
    <3>3. QED
      BY <2>1, <3>1, <3>2
  <2>4. ~(H!Depth > MaxDepth) => Sound(stack, 0)
    BY <1>3, LimitsAssumption DEF H!Depth
  <2>5. QED
    BY <1>3, <1>4, <1>6, <1>9, <2>2, <2>3, <2>4
<1>14. CASE H!SkipRaw(tok)
  <2>1. \/ H!Go("content", H!Front(stack), nodes)
        \/ H!Go("raw", stack, nodes) \/ H!Go("raw hidden", stack, nodes)
        \/ UNCHANGED <<mode, stack, nodes>>
    BY <1>14 DEF H!SkipRaw, H!Refuse, H!Stop
  <2>2. QED
    BY <1>3, <1>4, <1>6, <1>9, <2>1
<1>15. CASE H!ParseClose(tok)
  BY <1>3, <1>4, <1>6, <1>15 DEF H!ParseClose, H!Refuse, H!Stop
<1>16. CASE H!StrayClose(tok)
  <2> DEFINE g == [Frame("rest") EXCEPT !.count = Len(read)]
  <2>1. mode' = "rest" /\ stack' = <<g>> /\ nodes' = nodes
    BY <1>16 DEF H!StrayClose, H!Frame, Frame
  <2>2. Allowed(g)
    BY RestFrame
  <2> HIDE DEF g
  <2>3. Sound(<<g>>, 1)
    BY <2>2, SingleIsStack, LimitsAssumption
  <2>4. QED
    BY <1>3, <2>1, <2>3
<1>17. CASE H!LookOver(tok)
  BY <1>3, <1>9, <1>17 DEF H!LookOver, H!Ends, H!Accept, H!Refuse, H!Stop
<1>18. QED
  BY <1>1, <1>10, <1>11, <1>12, <1>13, <1>14, <1>15, <1>16, <1>17

(* A token of a YAML document.                                             *)
LEMMA YamlFits ==
  ASSUME WithinLimits, format = "yaml", Len(read) \in Nat, Y!Steps
  PROVE  WithinLimits'
<1> DEFINE Sound(frames) == IsStack(frames) /\ Len(frames) <= MaxDepth + 2
           Goes == \/ \E m, frames : \E n \in 0 .. MaxNodes :
                        Sound(frames) /\ mode' = m /\ stack' = frames /\ nodes' = n
                   \/ UNCHANGED <<mode, stack, nodes>>
<1>1. Sound(stack) /\ nodes \in 0 .. MaxNodes /\ Len(stack) \in Nat
  BY StackOfAllowed DEF WithinLimits, Fits
<1>2. nodes # MaxNodes => nodes + 1 \in 0 .. MaxNodes
  BY <1>1, LimitsAssumption
<1>3. Sound(Y!Front(stack))
  <2>1. IsStack(Front(stack)) /\ Len(Front(stack)) <= Len(stack)
    BY <1>1, FrontIsStack
  <2>2. Y!Front(stack) = Front(stack)
    BY DEF Y!Front, Front
  <2>3. QED
    BY <1>1, <2>1, <2>2, StackOfAllowed, LimitsAssumption
<1>4. ASSUME format' = format, Goes
      PROVE  WithinLimits'
  BY <1>4 DEF WithinLimits, Fits
<1>5. ASSUME NEW m, NEW frames, Sound(frames), NEW n \in 0 .. MaxNodes, Y!Go(m, frames, n)
      PROVE  Goes
  BY <1>5 DEF Y!Go
<1> HIDE DEF Goes
<1>6. ASSUME UNCHANGED <<mode, stack, nodes>>
      PROVE  Goes
  BY <1>6 DEF Goes
<1>7. ASSUME NEW frames, Sound(frames), frames # <<>>, NEW next, NEW n \in 0 .. MaxNodes,
             Y!Entered(frames, next, n)
      PROVE  Goes
  <2> DEFINE last == Len(frames)
             f == [frames[last] EXCEPT !.count = @ + 1]
             entered == [frames EXCEPT ![last] = f]
             kind == IF entered[last].kind \in {"item", "sequence"} THEN "sequence" ELSE "mapping"
             g == [entered[last] EXCEPT !.kind = kind]
  <2>1. last \in DOMAIN frames /\ Allowed(frames[last])
    <3>1. Len(frames) \in Nat /\ DOMAIN frames = 1 .. Len(frames) /\ Len(frames) # 0
      <4>1. PICK S : frames \in Seq(S)
        BY <1>7 DEF IsStack
      <4>2. QED
        BY <1>7, <4>1
    <3>2. QED
      BY <1>7, <3>1, StackOfAllowed
  <2>2. /\ f.count = frames[last].count + 1 /\ f.count \in Int
        /\ {"kind", "count", "names", "made"} \subseteq DOMAIN f
    BY <2>1 DEF Allowed
  <2>3. entered[last] = f
    BY <2>1
  <2>4. Y!Counted(frames) = entered
    BY DEF Y!Counted
  <2>5. \/ f.count <= MaxItems /\ Y!Go(next, [entered EXCEPT ![last] = g], n)
        \/ UNCHANGED <<mode, stack, nodes>>
    <3>1. CASE f.count > MaxItems
      BY <1>7, <2>3, <2>4, <3>1 DEF Y!Entered, Y!OverLimit, Y!Stop
    <3>2. CASE ~(f.count > MaxItems)
      <4>1. Y!Go(next, [entered EXCEPT ![Len(frames)].kind = kind], n)
        BY <1>7, <2>3, <2>4, <3>2 DEF Y!Entered
      <4>2. QED
        BY <2>2, <3>2, <4>1, LimitsAssumption
    <3>3. QED
      BY <3>1, <3>2
  <2>6. [entered EXCEPT ![last] = g] = [frames EXCEPT ![last] = g]
    BY <2>1
  <2>7. g.count = f.count /\ DOMAIN g = DOMAIN f
    BY <2>2, <2>3
  <2>8. f.count <= MaxItems => Allowed(g)
    BY <2>2, <2>7 DEF Allowed
  <2> HIDE DEF g, f, entered
  <2>9. f.count <= MaxItems => Sound([frames EXCEPT ![last] = g])
    BY <1>7, <2>8, ReplacedIsStack
  <2> HIDE DEF Sound
  <2>10. QED
    BY <1>5, <1>6, <1>7, <2>5, <2>6, <2>9
<1>8. ASSUME NEW value, NEW frames, Sound(frames), NEW n \in 0 .. MaxNodes, Y!ParseScalar(value, frames, n)
      PROVE  Goes
  <2>1. \/ \E m : Y!Go(m, frames, n)
        \/ frames # <<>> /\ \E m : Y!Entered(frames, m, n)
        \/ UNCHANGED <<mode, stack, nodes>>
    BY <1>8 DEF Y!ParseScalar, Y!Refuse, Y!OverLimit, Y!Stop
  <2> HIDE DEF Sound
  <2>2. QED
    BY <1>5, <1>6, <1>7, <1>8, <2>1
<1>9. ASSUME NEW tok, Y!ReadLine(tok)
      PROVE  Goes
  <2>1. (\E m : Y!Go(m, stack, nodes)) \/ UNCHANGED <<mode, stack, nodes>>
    BY <1>9 DEF Y!ReadLine, Y!Refuse, Y!Stop
  <2>2. QED
    BY <1>1, <1>5, <1>6, <2>1
<1>10. ASSUME NEW i, NEW content, Y!ParseNode(i, content)
       PROVE  Goes
  <2>1. CASE Len(stack) > MaxDepth \/ nodes = MaxNodes
    BY <1>6, <1>10, <2>1 DEF Y!ParseNode, Y!OverLimit, Y!Stop, Y!Depth
  <2>2. CASE ~(Len(stack) > MaxDepth \/ nodes = MaxNodes)
    <3> DEFINE block(kind) == [Frame(kind) EXCEPT !.made = <<i>>]
    <3>1. \/ \E kind : Y!Go(mode, Append(stack, block(kind)), nodes + 1)
          \/ Y!ParseScalar(content, stack, nodes + 1)
      BY <1>10, <2>2 DEF Y!ParseNode, Y!Depth, Y!Push, Y!Block, Y!Frame, Frame
    <3>2. ASSUME NEW kind PROVE Allowed(block(kind))
      BY NamedFrame
    <3> HIDE DEF block
    <3>3. ASSUME NEW kind PROVE Sound(Append(stack, block(kind)))
      BY <1>1, <2>2, <3>2, PushIsStack, LimitsAssumption
    <3> HIDE DEF Sound
    <3>4. QED
      BY <1>1, <1>2, <1>5, <1>8, <2>2, <3>1, <3>3
  <2>3. QED
    BY <2>1, <2>2
<1>11. ASSUME NEW kinds, Y!Within(kinds), "field" \notin kinds, "rest" \notin kinds, NEW kind
       PROVE  Sound([stack EXCEPT ![Len(stack)].kind = kind])
  <2> DEFINE g == [stack[Len(stack)] EXCEPT !.kind = kind]
  <2>1. stack[Len(stack)].kind \notin {"field", "rest"}
    BY <1>11 DEF Y!Within, Y!Top, Y!Depth
  <2>2. ASSUME Len(stack) \in DOMAIN stack PROVE Allowed(g)
    BY <1>1, <2>1, <2>2, StackOfAllowed DEF Allowed
  <2> HIDE DEF g
  <2>3. Sound([stack EXCEPT ![Len(stack)] = g])
    BY <1>1, <2>2, ReplacedIsStack
  <2>4. QED
    BY <2>3 DEF g
<1> DEFINE opened(kind) == [stack EXCEPT ![Len(stack)].kind = kind]
<1>12. ASSUME NEW i, NEW content, Y!ParseSequence(i, content) \/ Y!ParseMapping(i, content)
       PROVE  Goes
  <2>1. \/ Y!Within({"sequence"}) /\ Y!Go(Y!Taken, opened("item"), nodes)
        \/ Y!Within({"mapping"}) /\ Y!Go(Y!Taken, opened("value"), nodes)
        \/ \E value : Y!ParseScalar(value, stack, nodes)
    BY <1>12 DEF Y!ParseSequence, Y!ParseMapping, Y!Depth
  <2>2. Y!Within({"sequence"}) => Sound(opened("item"))
    BY <1>11
  <2>3. Y!Within({"mapping"}) => Sound(opened("value"))
    BY <1>11
  <2> HIDE DEF Sound, opened
  <2>4. QED
    BY <1>1, <1>5, <1>8, <2>1, <2>2, <2>3
<1>13. ASSUME NEW i, Y!Misindented(i) \/ Y!NoValue(i)
       PROVE  Goes
  <2>1. UNCHANGED <<mode, stack, nodes>> \/ (stack # <<>> /\ Y!Entered(stack, mode, nodes))
    BY <1>13 DEF Y!Misindented, Y!NoValue, Y!Within, Y!Refuse, Y!Stop
  <2>2. QED
    BY <1>1, <1>6, <1>7, <2>1
<1>14. ASSUME NEW i, NEW content, Y!EndBlock(i, content)
       PROVE  Goes
  <2>1. stack # <<>> /\ (Y!Go(mode, <<>>, nodes) \/ (Len(stack) # 1 /\ Y!Entered(Y!Front(stack), mode, nodes)))
    BY <1>14 DEF Y!EndBlock, Y!Within, Y!Depth
  <2>2. Len(stack) # 1 => Y!Front(stack) # <<>>
    <3>1. Len(Front(stack)) = Len(stack) - 1
      BY <1>1, <2>1, FrontIsStack
    <3>2. Y!Front(stack) = Front(stack)
      BY DEF Y!Front, Front
    <3>3. Len(<<>>) = 0
      OBVIOUS
    <3>4. QED
      BY <1>1, <3>1, <3>2, <3>3
  <2>3. Sound(<<>>)
    <3>1. Len(<<>>) = 0
      OBVIOUS
    <3>2. QED
      BY <3>1, EmptyIsStack, LimitsAssumption
  <2> HIDE DEF Sound
  <2>4. QED
    BY <1>1, <1>3, <1>5, <1>7, <2>1, <2>2, <2>3
<1>15. ASSUME NEW i, Y!EndDocument(i)
       PROVE  Goes
  <2>1. \/ \E n \in {Len(read), Len(read) - 1} :
             mode' = "rest" /\ stack' = <<[Frame("rest") EXCEPT !.count = n]>> /\ nodes' = nodes
        \/ UNCHANGED <<mode, stack, nodes>>
    BY <1>15 DEF Y!EndDocument, Y!Accept, Y!Refuse, Y!Stop, Y!Frame, Frame
  <2>2. ASSUME NEW n \in {Len(read), Len(read) - 1}
        PROVE  Sound(<<[Frame("rest") EXCEPT !.count = n]>>)
    <3> DEFINE g == [Frame("rest") EXCEPT !.count = n]
    <3>1. n \in Int
      BY <2>2
    <3>2. Allowed(g)
      BY <3>1, RestFrame
    <3> HIDE DEF g
    <3>3. Sound(<<g>>)
      BY <3>2, SingleIsStack, LimitsAssumption
    <3>4. QED
      BY <3>3 DEF g
  <2>3. QED
    BY <1>1, <1>6, <2>1, <2>2 DEF Goes
<1>16. ASSUME NEW i, NEW content, Y!Peeked(i, content)
       PROVE  Goes /\ format' = format
  BY <1>10, <1>12, <1>13, <1>14, <1>15, <1>16 DEF Y!Peeked, Y!At
<1>17. ASSUME NEW tok, Y!Reads(tok) /\ Y!ReadLine(tok)
       PROVE  Goes /\ format' = format
  BY <1>9, <1>17 DEF Y!Reads
<1>18. QED
  BY <1>4, <1>16, <1>17 DEF Y!Steps

-----------------------------------------------------------------------------

(* What was read is a sequence.                                            *)
IsRead(text) == \E S : text \in Seq(S)

(* The tokens read stay a sequence.                                        *)
LEMMA ReadsOn ==
  ASSUME IsRead(read), TextNext
  PROVE  IsRead(read')
<1>1. (\E tok : read' = Append(read, tok)) \/ read' = read
  <2>1. CASE format \in {"json", "json number", "json string"} /\ J!Steps
    BY <2>1 DEF J!Steps, J!Document, J!Reads
  <2>2. CASE C!Steps
    BY <2>2 DEF C!Steps, C!Reads
  <2>3. CASE T!Steps
    BY <2>3 DEF T!Steps, T!Reads
  <2>4. CASE I!Steps
    BY <2>4 DEF I!Steps, I!Reads
  <2>5. CASE O!Steps
    BY <2>5 DEF O!Steps, O!Reads
  <2>6. CASE X!Steps
    BY <2>6 DEF X!Steps, X!Reads
  <2>7. CASE H!Steps
    BY <2>7 DEF H!Steps, H!Reads
  <2>8. CASE Y!Steps
    BY <2>8 DEF Y!Steps, Y!Reads, Y!Peeked, Y!At
  <2>9. QED
    BY <2>1, <2>2, <2>3, <2>4, <2>5, <2>6, <2>7, <2>8 DEF TextNext
<1>2. PICK S : read \in Seq(S)
  BY DEF IsRead
<1>3. ASSUME NEW tok, read' = Append(read, tok)
      PROVE  IsRead(read')
  <2>1. read \in Seq(S \cup {tok}) /\ tok \in S \cup {tok}
    BY <1>2
  <2>2. Append(read, tok) \in Seq(S \cup {tok})
    BY <2>1
  <2>3. QED
    BY <1>3, <2>2 DEF IsRead
<1>4. QED
  BY <1>1, <1>3 DEF IsRead

(* So a token of any format keeps the limits.                              *)
LEMMA StepsFit ==
  ASSUME WithinLimits, IsRead(read), TextNext
  PROVE  WithinLimits'
<1>1. Len(read) \in Nat
  BY DEF IsRead
<1>2. J!Steps /\ format = "json" => J!Document
  BY DEF J!Steps
<1>3. QED
  BY <1>1, <1>2, JsonFits, CsvFits, IniFits, FlatFormatsFit, TomlFits, XmlFits, HtmlFits, YamlFits DEF TextNext

(* The formats.                                                            *)
LEMMA AllFormats ==
  Formats = {"json", "json number", "json string", "csv", "txt", "ini", "ini line",
             "toml", "xml", "html", "yaml"}
BY DEF Formats

(* The limits hold before the first token, and of a call on another part. *)
LEMMA StartsFit ==
  ASSUME TextInit \/ TextIdle
  PROVE  WithinLimits /\ IsRead(read)
<1>1. nodes = 0 /\ read = <<>>
  BY DEF TextInit, TextIdle
<1>2. IsRead(read)
  <2> DEFINE S == {}
  <2>1. read \in Seq(S)
    BY <1>1
  <2> HIDE DEF S
  <2>2. QED
    BY <2>1 DEF IsRead
<1>3. nodes \in 0 .. MaxNodes /\ MaxDepth \in Nat
  BY <1>1, LimitsAssumption
<1>4. CASE stack = <<>> /\ format \notin {"csv", "ini", "ini line"}
  <2>1. Len(stack) = 0 /\ IsStack(stack)
    BY <1>4, EmptyIsStack
  <2>2. Len(stack) <= MaxDepth + 2 /\ Len(stack) <= MaxDepth + 0 /\ Len(stack) <= MaxDepth + 1
    BY <1>3, <2>1
  <2>3. Len(stack) <= MaxDepth + (IF mode \in {"content", "text"} THEN 0 ELSE 1)
    BY <2>2
  <2>4. Fits(format, mode, stack, nodes)
    BY <1>3, <1>4, <2>1, <2>2, <2>3 DEF Fits
  <2>5. QED
    BY <1>2, <2>4 DEF WithinLimits
<1>5. CASE format = "csv" /\ stack = C!Table
  <2>1. stack = <<Frame("table"), Frame("row"), Frame("field")>>
    BY <1>5 DEF C!Table, C!Frame, Frame
  <2>2. IsStack(stack) /\ Len(stack) = 3
    BY <2>1, TripleIsStack, NewFrame
  <2>3. stack[3].kind = "field"
    BY <2>1, NewFrame
  <2>4. QED
    BY <1>2, <1>3, <1>5, <2>2, <2>3 DEF WithinLimits, Fits
<1>6. CASE format \in {"ini", "ini line"} /\ stack = I!Document
  <2>1. stack = <<Frame("document"), Frame("section"), Frame("line")>>
    BY <1>6 DEF I!Document, I!Frame, Frame
  <2>2. IsStack(stack) /\ Len(stack) = 3
    BY <2>1, TripleIsStack, NewFrame
  <2>3. QED
    BY <1>2, <1>3, <1>6, <2>2 DEF WithinLimits, Fits
<1>7. CASE TextIdle
  BY <1>4, <1>7 DEF TextIdle
<1>8. CASE TextInit
  <2>1. format \in Formats /\ stack = Starts[format][2]
    BY <1>8 DEF TextInit
  <2>2. CASE format = "csv"
    BY <1>5, <2>1, <2>2 DEF Starts
  <2>3. CASE format \in {"ini", "ini line"}
    BY <1>6, <2>1, <2>3 DEF Starts
  <2>4. CASE format \notin {"csv", "ini", "ini line"}
    BY <1>4, <2>1, <2>4, AllFormats DEF Starts
  <2>5. QED
    BY <2>2, <2>3, <2>4
<1>9. QED
  BY <1>7, <1>8

(* A limit bounds what a parser makes and how deep it goes, for every      *)
(* value of the limits and every text.                                     *)
THEOREM LimitsHold == MCSpec => []LimitsBoundTheWork
<1> DEFINE Inv == WithinLimits /\ IsRead(read)
<1>1. MCInit => Inv
  BY StartsFit DEF MCInit
<1>2. Inv /\ [MCNext]_<<about, parser, floats, matrices, buffers, views, signals>> => Inv'
  <2> SUFFICES ASSUME Inv, [MCNext]_<<about, parser, floats, matrices, buffers, views, signals>>
               PROVE  Inv'
    OBVIOUS
  <2>1. CASE TextNext
    BY <2>1, StepsFit, ReadsOn
  <2>2. CASE UNCHANGED parser
    BY <2>2 DEF parser, WithinLimits
  <2>3. QED
    BY <2>1, <2>2 DEF MCNext
<1>3. Inv => LimitsBoundTheWork
  <2> SUFFICES ASSUME Inv PROVE LimitsBoundTheWork
    OBVIOUS
  <2>1. nodes \in 0 .. MaxNodes
    BY DEF WithinLimits, Fits
  <2>2. \A i \in DOMAIN stack : Allowed(stack[i])
    BY StackOfAllowed DEF WithinLimits, Fits
  <2>3. nodes <= MaxNodes
    BY <2>1, LimitsAssumption
  <2>4. format \notin {"csv", "ini", "ini line"} => Len(stack) <= MaxDepth + 2
    BY DEF WithinLimits, Fits
  <2>5. QED
    BY <2>2, <2>3, <2>4 DEF Allowed, LimitsBoundTheWork
<1> HIDE DEF Inv
<1>4. QED
  BY <1>1, <1>2, <1>3, PTL DEF MCSpec

-----------------------------------------------------------------------------
(* Lines of an INI file. *)

(* The first of a byte in a line, where there is one.                      *)
LEMMA FirstIsAt ==
  ASSUME NEW line, Len(line) \in Nat, NEW byte, NEW n \in 1 .. Len(line),
         line[n] = byte, \A i \in 1 .. n - 1 : line[i] # byte
  PROVE  I!First(line, byte) = n
<1> DEFINE Least(S) == CHOOSE x \in S : \A y \in S : x <= y
           found == {i \in 1 .. Len(line) : line[i] = byte}
<1>1. I!First(line, byte) = IF found # {} THEN Least(found) ELSE 0
  BY DEF I!First, I!SelectInSeq, I!Min
<1>2. n \in found /\ \A y \in found : n <= y
  OBVIOUS
<1>3. \A x \in found : (\A y \in found : x <= y) => x = n
  BY <1>2
<1> HIDE DEF found
<1>4. Least(found) = n
  BY <1>2, <1>3
<1>5. QED
  BY <1>1, <1>2, <1>4

(* A byte that a line does not have is found nowhere.                      *)
LEMMA FirstIsNowhere ==
  ASSUME NEW line, Len(line) \in Nat, NEW byte, \A i \in 1 .. Len(line) : line[i] # byte
  PROVE  I!First(line, byte) = 0
<1>1. {i \in 1 .. Len(line) : line[i] = byte} = {}
  OBVIOUS
<1>2. QED
  BY <1>1 DEF I!First, I!SelectInSeq

(* A text that begins and ends with something, or is empty.                *)
Plain(text) == text # <<>> => text[1] # "ws" /\ text[Len(text)] # "ws"

(* What is left of a text between white space.                             *)
LEMMA TrimmedIs ==
  ASSUME NEW text, Len(text) \in Nat, NEW a \in 1 .. Len(text), NEW b \in a .. Len(text),
         text[a] # "ws", text[b] # "ws",
         \A i \in 1 .. a - 1 : text[i] = "ws", \A i \in b + 1 .. Len(text) : text[i] = "ws"
  PROVE  I!Trimmed(text) = SubSeq(text, a, b)
<1> DEFINE solid == {i \in 1 .. Len(text) : text[i] # "ws"}
           Least(S) == CHOOSE x \in S : \A y \in S : x <= y
           Most(S) == CHOOSE x \in S : \A y \in S : x >= y
           first == IF solid # {} THEN Least(solid) ELSE 0
           last == IF solid # {} THEN Most(solid) ELSE 0
<1>1. I!Trimmed(text) = IF first = 0 THEN <<>> ELSE SubSeq(text, first, last)
  BY DEF I!Trimmed, I!SelectInSeq, I!SelectLastInSeq, I!Min, I!Max
<1>2. a \in solid /\ b \in solid /\ \A y \in solid : a <= y /\ b >= y
  OBVIOUS
<1>3. /\ \A x \in solid : (\A y \in solid : x <= y) => x = a
      /\ \A x \in solid : (\A y \in solid : x >= y) => x = b
  BY <1>2
<1> HIDE DEF solid
<1>4. first = a /\ last = b
  BY <1>2, <1>3
<1>5. a # 0
  OBVIOUS
<1> HIDE DEF first, last
<1>6. QED
  BY <1>1, <1>4, <1>5

LEMMA BlankIsTrimmed ==
  ASSUME NEW text, Len(text) \in Nat, \A i \in 1 .. Len(text) : text[i] = "ws"
  PROVE  I!Trimmed(text) = <<>>
<1>1. {i \in 1 .. Len(text) : text[i] # "ws"} = {}
  OBVIOUS
<1>2. QED
  BY <1>1 DEF I!Trimmed, I!SelectInSeq

(* A plain text is what is left of it, with a blank at either end as well. *)
LEMMA PlainIsTrimmed ==
  ASSUME NEW S, NEW text \in Seq(S), Plain(text), text # <<>>
  PROVE  /\ I!Trimmed(text) = text
         /\ I!Trimmed(text \o <<"ws">>) = text
         /\ I!Trimmed(<<"ws">> \o text) = text
<1> DEFINE n == Len(text)
           after == text \o <<"ws">>
           padded == <<"ws">> \o text
<1>1. n \in Nat /\ n # 0 /\ text[1] # "ws" /\ text[n] # "ws"
  BY DEF Plain
<1>2. I!Trimmed(text) = SubSeq(text, 1, n)
  <2>1. n \in Nat /\ 1 \in 1 .. n /\ n \in 1 .. n /\ 1 .. 1 - 1 = {} /\ n + 1 .. n = {}
    BY <1>1
  <2>2. QED
    BY <1>1, <2>1, TrimmedIs
<1>3. /\ Len(after) = n + 1 /\ after[1] = text[1] /\ after[n] = text[n] /\ after[n + 1] = "ws"
      /\ SubSeq(after, 1, n) = text
  BY <1>1
<1>4. I!Trimmed(after) = SubSeq(after, 1, n)
  <2>1. n + 1 \in Nat /\ 1 \in 1 .. n + 1 /\ n \in 1 .. n + 1 /\ 1 .. 1 - 1 = {} /\ n + 1 .. n + 1 = {n + 1}
    BY <1>1
  <2> HIDE DEF after, n
  <2>2. QED
    BY <1>1, <1>3, <2>1, TrimmedIs
<1>5. /\ Len(padded) = n + 1 /\ padded[1] = "ws" /\ padded[2] = text[1] /\ padded[n + 1] = text[n]
      /\ SubSeq(padded, 2, n + 1) = text
  BY <1>1
<1>6. I!Trimmed(padded) = SubSeq(padded, 2, n + 1)
  <2>1. /\ n + 1 \in Nat /\ 2 \in 1 .. n + 1 /\ n + 1 \in 2 .. n + 1
        /\ 1 .. 2 - 1 = {1} /\ n + 1 + 1 .. n + 1 = {}
    BY <1>1
  <2> HIDE DEF padded, n
  <2>2. QED
    BY <1>1, <1>5, <2>1, TrimmedIs
<1>7. SubSeq(text, 1, n) = text
  BY <1>1
<1>8. QED
  BY <1>2, <1>3, <1>4, <1>5, <1>6, <1>7

(* What is written: the name of a section, or a key and a value.           *)
InNames == {"k", "#", "ws"}
InValues == {"k", "#", "ws", "="}

LEMMA ItemsAreWords ==
  ASSUME NEW item \in I!Items
  PROVE  \/ \E w \in Seq(InNames) : w # <<>> /\ Plain(w) /\ item = <<w>>
         \/ \E k \in Seq(InNames), v \in Seq(InValues) :
              /\ k # <<>> /\ Plain(k) /\ k[1] = "k" /\ Len(k) <= MaxLength
              /\ Plain(v) /\ Len(v) <= MaxLength
              /\ item = <<k, v>>
<1>1. ASSUME NEW S, NEW w \in I!BoundedSeq(S, MaxLength)
      PROVE  w \in Seq(S) /\ Len(w) <= MaxLength
  <2>1. PICK m \in 0 .. MaxLength : w \in [1 .. m -> S]
    BY <1>1 DEF I!BoundedSeq, I!SeqOf
  <2>2. m \in Nat /\ m <= MaxLength
    BY LimitsAssumption
  <2>3. QED
    BY <2>1, <2>2
<1> DEFINE words == {w \in I!BoundedSeq(InNames, MaxLength) \ {<<>>} : Plain(w)}
           values == {v \in I!BoundedSeq(InValues, MaxLength) : Plain(v)}
<1>2. I!Items = {<<w>> : w \in words} \cup {<<k, v>> : k \in {w \in words : w[1] # "#"}, v \in values}
  BY DEF I!Items, I!Last, Plain, InNames, InValues
<1>3. CASE item \in {<<w>> : w \in words}
  BY <1>1, <1>3
<1>4. CASE item \in {<<k, v>> : k \in {w \in words : w[1] # "#"}, v \in values}
  <2>1. PICK k \in {w \in words : w[1] # "#"}, v \in values : item = <<k, v>>
    BY <1>4
  <2>2. k \in Seq(InNames) /\ Len(k) <= MaxLength /\ k # <<>> /\ k[1] # "#" /\ Plain(k)
    BY <1>1, <2>1
  <2>3. v \in Seq(InValues) /\ Len(v) <= MaxLength /\ Plain(v)
    BY <1>1, <2>1
  <2>4. k[1] = "k"
    BY <2>2 DEF Plain, InNames
  <2>5. QED
    BY <2>1, <2>2, <2>3, <2>4
<1>5. QED
  BY <1>2, <1>3, <1>4

(* The document and the section before the first line.                     *)
AtItsStart == stack[1] = Frame("document") /\ stack[2] = Frame("section")

(* The line of a section is read as its name.                              *)
LEMMA SectionsAreRead ==
  ASSUME AtItsStart, NEW w \in Seq(InNames), w # <<>>, Plain(w)
  PROVE  LET means == I!Line(<<"[">> \o w \o <<"]">>)
         IN means.why = "reading" /\ means.doc.made = <<<<w>>>>
<1> DEFINE line == <<"[">> \o w \o <<"]">>
           n == Len(w)
<1>1. n \in Nat /\ n # 0 /\ \A i \in 1 .. n : w[i] \in InNames
  OBVIOUS
<1>2. /\ Len(line) = n + 2
      /\ line[1] = "[" /\ line[n + 2] = "]"
      /\ \A i \in 2 .. n + 1 : line[i] = w[i - 1]
  OBVIOUS
<1>3. line # <<>>
  BY <1>1, <1>2
<1>4. \A i \in 1 .. n + 2 : line[i] \in {"[", "]"} \cup InNames
  BY <1>1, <1>2
<1>5. \A i \in 1 .. n + 1 : line[i] # "]"
  BY <1>1, <1>2 DEF InNames
<1>6. SubSeq(line, 2, n + 1) = w
  OBVIOUS
<1>7. I!Trimmed(line) = line
  <2>1. line \in Seq({"[", "]"} \cup InNames)
    OBVIOUS
  <2>2. Plain(line)
    BY <1>2 DEF Plain
  <2>3. QED
    BY <1>3, <2>1, <2>2, PlainIsTrimmed
<1> HIDE DEF line, n
<1>8. I!First(line, "bad") = 0
  BY <1>1, <1>2, <1>4, FirstIsNowhere DEF InNames
<1>9. I!First(line, "]") = n + 2
  <2>1. n + 2 \in 1 .. Len(line) /\ (n + 2) - 1 = n + 1 /\ Len(line) \in Nat
    BY <1>1, <1>2
  <2>2. QED
    BY <1>2, <1>5, <2>1, FirstIsAt
<1>10. I!Line(line) = I!Section(line)
  BY <1>2, <1>3, <1>7, <1>8 DEF I!Line
<1>11. (n + 2) - 1 = n + 1 /\ n + 2 # 0
  BY <1>1
<1>12. ~I!Repeats(stack[1], w) /\ stack[1].count = 0 /\ stack[1].made = <<>>
  BY DEF AtItsStart, I!Repeats, Frame
<1>13. 0 # MaxItems /\ I!Trimmed(w) = w
  BY LimitsAssumption, PlainIsTrimmed
<1>14. I!Section(line) = I!Success(<<<<w>>>>, I!Named(stack[1], w), I!Frame("section"))
  BY <1>6, <1>9, <1>11, <1>12, <1>13 DEF I!Section
<1>15. I!Named(stack[1], w).made = <<>>
  BY <1>12 DEF I!Named, AtItsStart, Frame
<1>16. I!Success(<<<<w>>>>, I!Named(stack[1], w), I!Frame("section")).doc.made = <<>> \o <<<<w>>>>
  <2>1. I!Named(stack[1], w) = [[stack[1] EXCEPT !.count = @ + 1] EXCEPT !.names = @ \cup {w}]
    BY DEF I!Named
  <2>2. "made" \in DOMAIN I!Named(stack[1], w)
    BY <2>1 DEF AtItsStart, Frame
  <2> HIDE DEF I!Named
  <2>3. QED
    BY <1>15, <2>2 DEF I!Success
<1>17. I!Success(<<<<w>>>>, I!Named(stack[1], w), I!Frame("section")).why = "reading"
  BY DEF I!Success
<1>18. <<>> \o <<<<w>>>> = <<<<w>>>>
  OBVIOUS
<1>19. QED
  BY <1>10, <1>14, <1>16, <1>17, <1>18 DEF line

(* What is left of the line of an entry: all of it, or what is before the  *)
(* blank after the separator, which is where an empty value was.           *)
LEMMA EntriesAreTrimmed ==
  ASSUME NEW k \in Seq(InNames), NEW v \in Seq(InValues), k # <<>>, k[1] = "k", Plain(v)
  PROVE  LET line == k \o <<"ws", "=", "ws">> \o v
             content == I!Trimmed(line)
             m == Len(k)
         IN /\ Len(content) \in Nat /\ Len(content) >= m + 2
            /\ \A i \in 1 .. m : content[i] = k[i]
            /\ content[m + 1] = "ws" /\ content[m + 2] = "="
            /\ SubSeq(content, 1, m + 1) = k \o <<"ws">>
            /\ SubSeq(content, m + 3, Len(content)) = IF v = <<>> THEN <<>> ELSE <<"ws">> \o v
<1> DEFINE line == k \o <<"ws", "=", "ws">> \o v
           m == Len(k)
           n == Len(v)
           end == IF n = 0 THEN m + 2 ELSE m + 3 + n
           content == SubSeq(line, 1, end)
<1>1. m \in Nat /\ m # 0 /\ n \in Nat /\ (v = <<>> <=> n = 0)
  OBVIOUS
<1>2. /\ Len(line) = m + 3 + n
      /\ \A i \in 1 .. m : line[i] = k[i]
      /\ line[m + 1] = "ws" /\ line[m + 2] = "=" /\ line[m + 3] = "ws"
      /\ \A i \in 1 .. n : line[m + 3 + i] = v[i]
  OBVIOUS
<1>3. line \in Seq(InNames \cup InValues)
  BY DEF InNames, InValues
<1>4. I!Trimmed(line) = content
  <2>1. line[1] = "k"
    BY <1>1, <1>2
  <2>2. end \in 1 .. Len(line) /\ line[end] # "ws" /\ \A i \in end + 1 .. Len(line) : line[i] = "ws"
    BY <1>1, <1>2 DEF Plain
  <2>3. Len(line) \in Nat /\ 1 \in 1 .. Len(line) /\ 1 .. 1 - 1 = {}
    BY <1>1, <1>2
  <2> HIDE DEF line, end
  <2>4. QED
    BY <2>1, <2>2, <2>3, TrimmedIs
<1>5. /\ Len(content) = end /\ \A i \in 1 .. end : content[i] = line[i]
      /\ end \in Nat /\ end >= m + 2
  BY <1>1, <1>2, <1>3
<1>6. SubSeq(content, 1, m + 1) = k \o <<"ws">>
  <2>1. content \in Seq(InNames \cup InValues) /\ k \o <<"ws">> \in Seq(InNames \cup InValues)
    BY <1>3, <1>5 DEF InNames
  <2>2. Len(k \o <<"ws">>) = m + 1 /\ \A i \in 1 .. m + 1 : (k \o <<"ws">>)[i] = line[i]
    BY <1>1, <1>2
  <2>3. /\ Len(SubSeq(content, 1, m + 1)) = m + 1
        /\ \A i \in 1 .. m + 1 : SubSeq(content, 1, m + 1)[i] = line[i]
    BY <1>1, <1>5, <2>1
  <2>4. SubSeq(content, 1, m + 1) \in Seq(InNames \cup InValues)
    BY <1>1, <1>5, <2>1
  <2> HIDE DEF content, line
  <2>5. QED
    BY <2>1, <2>2, <2>3, <2>4, SeqEqual
<1>7. SubSeq(content, m + 3, end) = IF v = <<>> THEN <<>> ELSE <<"ws">> \o v
  <2>1. content \in Seq(InNames \cup InValues)
    BY <1>3, <1>5
  <2>2. CASE n = 0
    BY <1>1, <1>5, <2>1, <2>2
  <2>3. CASE n # 0
    <3>1. /\ <<"ws">> \o v \in Seq(InNames \cup InValues) /\ Len(<<"ws">> \o v) = n + 1
          /\ \A i \in 1 .. n + 1 : (<<"ws">> \o v)[i] = line[m + 2 + i]
      BY <1>1, <1>2 DEF InValues
    <3>2. end = m + 3 + n
      BY <2>3
    <3>3. /\ SubSeq(content, m + 3, end) \in Seq(InNames \cup InValues)
          /\ Len(SubSeq(content, m + 3, end)) = n + 1
          /\ \A i \in 1 .. n + 1 : SubSeq(content, m + 3, end)[i] = line[m + 2 + i]
      BY <1>1, <1>5, <2>1, <3>2
    <3> HIDE DEF content, line, end
    <3>4. QED
      BY <1>1, <2>3, <3>1, <3>3, SeqEqual
  <2>4. QED
    BY <2>2, <2>3
<1> HIDE DEF content, line, end
<1>8. /\ \A i \in 1 .. m : content[i] = k[i]
      /\ content[m + 1] = "ws" /\ content[m + 2] = "="
  BY <1>1, <1>2, <1>5
<1>9. QED
  BY <1>4, <1>5, <1>6, <1>7, <1>8 DEF line

(* The line of an entry is read as its key and its value: the first        *)
(* separator ends the key.                                                 *)
LEMMA EntriesAreRead ==
  ASSUME AtItsStart, NEW k \in Seq(InNames), NEW v \in Seq(InValues),
         k # <<>>, Plain(k), k[1] = "k", Len(k) <= MaxLength, Plain(v), Len(v) <= MaxLength
  PROVE  LET means == I!Line(k \o <<"ws", "=", "ws">> \o v)
         IN means.why = "reading" /\ means.doc.made = <<<<k, v>>>>
<1> DEFINE line == k \o <<"ws", "=", "ws">> \o v
           content == I!Trimmed(line)
           m == Len(k)
<1>1. m \in Nat /\ m # 0 /\ \A i \in 1 .. m : k[i] \in InNames
  OBVIOUS
<1>2. /\ Len(content) \in Nat /\ Len(content) >= m + 2
      /\ \A i \in 1 .. m : content[i] = k[i]
      /\ content[m + 1] = "ws" /\ content[m + 2] = "="
      /\ SubSeq(content, 1, m + 1) = k \o <<"ws">>
      /\ SubSeq(content, m + 3, Len(content)) = IF v = <<>> THEN <<>> ELSE <<"ws">> \o v
  BY EntriesAreTrimmed
<1>3. I!First(line, "bad") = 0
  <2>1. line \in Seq(InNames \cup InValues)
    BY DEF InNames, InValues
  <2> HIDE DEF line
  <2>2. Len(line) \in Nat /\ \A i \in 1 .. Len(line) : line[i] \in InNames \cup InValues
    BY <2>1
  <2>3. \A i \in 1 .. Len(line) : line[i] # "bad"
    BY <2>2 DEF InNames, InValues
  <2>4. QED
    BY <2>2, <2>3, FirstIsNowhere
<1> HIDE DEF content, line, m
<1>4. content # <<>> /\ content[1] = "k"
  BY <1>1, <1>2
<1>5. I!First(content, "=") = m + 2
  <2>1. m + 2 \in 1 .. Len(content) /\ (m + 2) - 1 = m + 1
    BY <1>1, <1>2
  <2>2. \A i \in 1 .. m : content[i] # "="
    <3>1. "=" \notin InNames
      BY DEF InNames
    <3>2. \A i \in 1 .. m : content[i] \in InNames
      BY <1>1, <1>2
    <3>3. QED
      BY <3>1, <3>2
  <2>3. \A i \in 1 .. m + 1 : i \in 1 .. m \/ i = m + 1
    BY <1>1
  <2>4. Len(content) \in Nat /\ content[m + 1] # "=" /\ content[m + 2] = "="
    BY <1>2
  <2>5. \A i \in 1 .. (m + 2) - 1 : content[i] # "="
    BY <2>1, <2>2, <2>3, <2>4
  <2>6. QED
    BY <2>1, <2>4, <2>5, FirstIsAt
<1>6. I!Line(line) = I!Entry(content)
  BY <1>3, <1>4 DEF I!Line, content
<1>7. I!Trimmed(I!Before(content, m + 2)) = k
  <2>1. (m + 2) - 1 = m + 1
    BY <1>1
  <2>2. I!Before(content, m + 2) = k \o <<"ws">>
    BY <1>2, <2>1 DEF I!Before
  <2>3. QED
    BY <2>2, PlainIsTrimmed
<1>8. I!Trimmed(I!After(content, m + 2)) = v
  <2>1. (m + 2) + 1 = m + 3
    BY <1>1
  <2>2. I!After(content, m + 2) = IF v = <<>> THEN <<>> ELSE <<"ws">> \o v
    BY <1>2, <2>1 DEF I!After
  <2>3. CASE v = <<>>
    <3>1. Len(<<>>) \in Nat /\ 1 .. Len(<<>>) = {}
      OBVIOUS
    <3>2. I!Trimmed(<<>>) = <<>>
      BY <3>1, BlankIsTrimmed
    <3>3. QED
      BY <2>2, <2>3, <3>2
  <2>4. CASE v # <<>>
    BY <2>2, <2>4, PlainIsTrimmed
  <2>5. QED
    BY <2>3, <2>4
<1>9. ~I!Repeats(stack[2], k) /\ stack[2].count = 0 /\ stack[1].made = <<>> /\ "made" \in DOMAIN stack[1]
  BY DEF AtItsStart, I!Repeats, Frame
<1>10. 0 # MaxItems /\ m + 2 # 0 /\ ~(Len(k) > MaxLength \/ Len(v) > MaxLength)
  <2>1. Len(k) \in Nat /\ Len(v) \in Nat
    OBVIOUS
  <2>2. QED
    BY <1>1, <2>1, LimitsAssumption
<1>11. I!Entry(content) = I!Success(<<<<k, v>>>>, stack[1], I!Named(stack[2], k))
  BY <1>5, <1>7, <1>8, <1>9, <1>10 DEF I!Entry, I!Separator
<1>12. /\ I!Success(<<<<k, v>>>>, stack[1], I!Named(stack[2], k)).why = "reading"
       /\ I!Success(<<<<k, v>>>>, stack[1], I!Named(stack[2], k)).doc.made = <<>> \o <<<<k, v>>>>
  BY <1>9 DEF I!Success
<1>13. <<>> \o <<<<k, v>>>> = <<<<k, v>>>>
  OBVIOUS
<1>14. QED
  BY <1>6, <1>11, <1>12, <1>13 DEF line

(* What write_ini makes of an item is read as that item.                   *)
LEMMA WrittenLines ==
  ASSUME AtItsStart, NEW item \in I!Items
  PROVE  /\ I!Write(item) \in Seq(I!IniBytes)
         /\ I!Line(I!Write(item)).why = "reading"
         /\ I!Line(I!Write(item)).doc.made = <<item>>
<1>1. ASSUME NEW w \in Seq(InNames), w # <<>>, Plain(w), item = <<w>>
      PROVE  /\ I!Write(item) \in Seq(I!IniBytes)
             /\ I!Line(I!Write(item)).why = "reading"
             /\ I!Line(I!Write(item)).doc.made = <<item>>
  <2>1. I!Write(item) = <<"[">> \o w \o <<"]">>
    BY <1>1 DEF I!Write
  <2>2. w \in Seq(I!IniBytes) /\ "[" \in I!IniBytes /\ "]" \in I!IniBytes
    BY DEF I!IniBytes, InNames
  <2>3. <<"[">> \o w \o <<"]">> \in Seq(I!IniBytes)
    BY <2>2
  <2>4. QED
    BY <1>1, <2>1, <2>3, SectionsAreRead
<1>2. ASSUME NEW k \in Seq(InNames), NEW v \in Seq(InValues), k # <<>>, Plain(k), k[1] = "k",
             Len(k) <= MaxLength, Plain(v), Len(v) <= MaxLength, item = <<k, v>>
      PROVE  /\ I!Write(item) \in Seq(I!IniBytes)
             /\ I!Line(I!Write(item)).why = "reading"
             /\ I!Line(I!Write(item)).doc.made = <<item>>
  <2>1. I!Write(item) = k \o <<"ws", "=", "ws">> \o v
    BY <1>2 DEF I!Write
  <2>2. k \in Seq(I!IniBytes) /\ v \in Seq(I!IniBytes) /\ {"ws", "="} \subseteq I!IniBytes
    BY DEF I!IniBytes, InNames, InValues
  <2>3. k \o <<"ws", "=", "ws">> \o v \in Seq(I!IniBytes)
    BY <2>2
  <2>4. QED
    BY <1>2, <2>1, <2>3, EntriesAreRead
<1>3. QED
  BY <1>1, <1>2, ItemsAreWords

(* The line made up is what has been read of it; when it is complete, it   *)
(* has been read as what was written.                                      *)
LineInv ==
  format = "ini line" =>
    IF verdict = "reading" THEN AtItsStart /\ read \in Seq(I!IniBytes) /\ stack[3].made = read
    ELSE \A item \in I!Items :
           read = Append(I!Write(item), End) => (verdict = "accepted" /\ stack[1].made = <<item>>)

(* Two texts with the same last token are the same before it.              *)
LEMMA AppendsAreEqual ==
  ASSUME NEW S, NEW s \in Seq(S), NEW t \in Seq(S), NEW x, Append(s, x) = Append(t, x)
  PROVE  s = t
<1>1. /\ Len(Append(s, x)) = Len(s) + 1 /\ \A i \in 1 .. Len(s) : Append(s, x)[i] = s[i]
      /\ Len(Append(t, x)) = Len(t) + 1 /\ \A i \in 1 .. Len(t) : Append(t, x)[i] = t[i]
  OBVIOUS
<1>2. Len(s) = Len(t)
  BY <1>1
<1>3. \A i \in 1 .. Len(s) : s[i] = t[i]
  BY <1>1, <1>2
<1>4. QED
  BY <1>2, <1>3, SeqEqual

(* A token keeps what the line means.                                      *)
LEMMA LineInvStep ==
  ASSUME WithinLimits, LineInv, TextNext
  PROVE  LineInv'
<1>1. CASE format # "ini line"
  <2>1. format' = format
    <3>1. CASE J!Steps
      BY <3>1 DEF J!Steps, J!Document, J!Reads
    <3>2. CASE C!Steps
      BY <3>2 DEF C!Steps, C!Reads
    <3>3. CASE T!Steps
      BY <3>3 DEF T!Steps, T!Reads
    <3>4. CASE I!Steps
      BY <3>4 DEF I!Steps, I!Reads
    <3>5. CASE O!Steps
      BY <3>5 DEF O!Steps, O!Reads
    <3>6. CASE X!Steps
      BY <3>6 DEF X!Steps, X!Reads
    <3>7. CASE H!Steps
      BY <3>7 DEF H!Steps, H!Reads
    <3>8. CASE Y!Steps
      BY <3>8 DEF Y!Steps, Y!Reads, Y!Peeked, Y!At
    <3>9. QED
      BY <3>1, <3>2, <3>3, <3>4, <3>5, <3>6, <3>7, <3>8 DEF TextNext
  <2>2. QED
    BY <1>1, <2>1 DEF LineInv
<1>2. CASE format = "ini line"
  <2>1. PICK tok \in I!IniBytes \cup {End} :
          /\ I!Reads(tok)
          /\ \/ tok = End /\ I!Becomes(I!Line(stack[3].made), TRUE)
             \/ tok \in I!IniBytes /\ I!Go(mode, [stack EXCEPT ![3].made = Append(@, tok)], nodes)
    BY <1>2 DEF TextNext, I!Steps, I!End, End
  <2>2. verdict = "reading" /\ read' = Append(read, tok) /\ format' = format
    BY <2>1 DEF I!Reads
  <2>3. AtItsStart /\ read \in Seq(I!IniBytes) /\ stack[3].made = read
    BY <1>2, <2>2 DEF LineInv
  <2>4. DOMAIN stack = 1 .. 3 /\ "made" \in DOMAIN stack[3]
    <3>1. IsStack(stack) /\ Len(stack) = 3
      BY <1>2 DEF WithinLimits, Fits
    <3>2. QED
      BY <3>1, StackOfAllowed, OneToThree DEF Allowed
  <2>5. CASE tok = End /\ I!Becomes(I!Line(stack[3].made), TRUE)
    <3>1. /\ stack' = <<I!Line(read).doc, I!Line(read).section, stack[3]>>
          /\ verdict' = IF I!Line(read).why = "reading" THEN "accepted" ELSE I!Line(read).why
      BY <2>3, <2>5 DEF I!Becomes
    <3>2. ASSUME NEW item \in I!Items, Append(read, End) = Append(I!Write(item), End)
          PROVE  verdict' = "accepted" /\ stack'[1].made = <<item>>
      <4>1. read = I!Write(item)
        BY <2>3, <3>2, WrittenLines, AppendsAreEqual
      <4>2. QED
        BY <2>3, <3>1, <4>1, WrittenLines
    <3>3. verdict' # "reading"
      BY <3>1
    <3>4. QED
      BY <2>2, <2>5, <3>2, <3>3 DEF LineInv
  <2>6. CASE tok \in I!IniBytes /\ I!Go(mode, [stack EXCEPT ![3].made = Append(@, tok)], nodes)
    <3>1. stack' = [stack EXCEPT ![3].made = Append(@, tok)] /\ verdict' = verdict
      BY <2>6 DEF I!Go
    <3>2. stack'[1] = stack[1] /\ stack'[2] = stack[2] /\ stack'[3].made = Append(read, tok)
      BY <2>3, <2>4, <3>1
    <3>3. read' \in Seq(I!IniBytes)
      BY <2>2, <2>3, <2>6
    <3>4. QED
      BY <2>2, <2>3, <3>1, <3>2, <3>3 DEF LineInv, AtItsStart
  <2>7. QED
    BY <2>1, <2>5, <2>6
<1>3. QED
  BY <1>1, <1>2

(* A section or an entry that write_ini writes is read as the same one,    *)
(* for every length of names and values and every set of limits.           *)
THEOREM RoundTripsHold == MCSpec => []WrittenIsRead
<1> DEFINE Inv == WithinLimits /\ IsRead(read) /\ LineInv
<1>1. MCInit => Inv
  <2> SUFFICES ASSUME MCInit PROVE Inv
    OBVIOUS
  <2>1. TextInit \/ TextIdle
    BY DEF MCInit
  <2>2. ASSUME format = "ini line"
        PROVE  LineInv
    <3>1. TextInit /\ stack = I!Document
      BY <2>1, <2>2, AllFormats DEF TextInit, TextIdle, Starts
    <3>2. stack = <<Frame("document"), Frame("section"), Frame("line")>>
      BY <3>1 DEF I!Document, I!Frame, Frame
    <3>3. AtItsStart
      BY <3>2 DEF AtItsStart
    <3>4. stack[3].made = <<>> /\ read = <<>> /\ verdict = "reading"
      BY <3>1, <3>2 DEF Frame, TextInit
    <3>5. read \in Seq(I!IniBytes)
      BY <3>4
    <3>6. QED
      BY <3>3, <3>4, <3>5 DEF LineInv
  <2>3. LineInv
    BY <2>2 DEF LineInv
  <2>4. QED
    BY <2>1, <2>3, StartsFit
<1>2. Inv /\ [MCNext]_<<about, parser, floats, matrices, buffers, views, signals>> => Inv'
  <2> SUFFICES ASSUME Inv, [MCNext]_<<about, parser, floats, matrices, buffers, views, signals>>
               PROVE  Inv'
    OBVIOUS
  <2>1. CASE TextNext
    BY <2>1, StepsFit, ReadsOn, LineInvStep
  <2>2. CASE UNCHANGED parser
    BY <2>2 DEF parser, WithinLimits, LineInv, AtItsStart
  <2>3. QED
    BY <2>1, <2>2 DEF MCNext
<1>3. Inv => WrittenIsRead
  BY DEF LineInv, WrittenIsRead
<1> HIDE DEF Inv
<1>4. QED
  BY <1>1, <1>2, <1>3, PTL DEF MCSpec

-----------------------------------------------------------------------------
(* Buffers, views and signals: they are as they were, or take a step of    *)
(* their own.                                                              *)

LEMMA PartsStep ==
  [MCNext]_<<about, parser, floats, matrices, buffers, views, signals>> =>
    /\ UNCHANGED about
    /\ UNCHANGED buffers \/ (about = "buffers" /\ BuffersNext)
    /\ [ViewsNext]_views /\ [SignalsNext]_signals
BY DEF MCNext

(* Buffers that the behaviour is not about stay empty.                     *)
BuffersAre == IF about = "buffers" THEN BuffersHold ELSE BuffersIdle

(* What a ring and a log of any capacity keep of what they are handed is   *)
(* the part they promise, for tokens of any size and any number of calls.  *)
THEOREM BuffersKeep == MCSpec => []BuffersKeepTheirPart
<1>1. MCInit => BuffersAre
  <2> SUFFICES ASSUME MCInit PROVE BuffersAre
    OBVIOUS
  <2>1. IF about = "buffers" THEN BuffersInit ELSE BuffersIdle
    BY DEF MCInit
  <2>2. QED
    BY <2>1, BuffersStart DEF BuffersAre
<1>2. BuffersAre /\ [MCNext]_<<about, parser, floats, matrices, buffers, views, signals>> => BuffersAre'
  <2> SUFFICES ASSUME BuffersAre, [MCNext]_<<about, parser, floats, matrices, buffers, views, signals>>
               PROVE  BuffersAre'
    OBVIOUS
  <2>1. about' = about /\ (UNCHANGED buffers \/ (about = "buffers" /\ BuffersNext))
    BY PartsStep
  <2>2. CASE about = "buffers"
    <3>1. BuffersHold /\ [BuffersNext]_buffers
      BY <2>1, <2>2 DEF BuffersAre
    <3>2. BuffersHold'
      BY <3>1, BuffersStay
    <3>3. QED
      BY <2>1, <2>2, <3>2 DEF BuffersAre
  <2>3. CASE about # "buffers"
    BY <2>1, <2>3 DEF BuffersAre, BuffersIdle, buffers
  <2>4. QED
    BY <2>2, <2>3
<1>3. BuffersAre => BuffersKeepTheirPart
  <2>1. BuffersIdle => BuffersKeepTheirPart
    BY DEF BuffersIdle, BuffersKeepTheirPart
  <2>2. QED
    BY <2>1, BuffersKeepParts DEF BuffersAre
<1>4. QED
  BY <1>1, <1>2, <1>3, PTL DEF MCSpec

(* Every part that is given lies inside what it was asked of, whatever the *)
(* lengths, sizes, offsets and shapes, and however large a usize is; what  *)
(* fits is given; slots, regions and elements share nothing; and a write   *)
(* or a move changes what it names (ArenaLayout, Buf, Bytes, BytesMut,     *)
(* TensorView, EdgeData, NodeMemory).                                      *)
THEOREM ViewsAreInside == MCSpec => []ViewsStayInside
<1>1. MCInit => ViewsStayInside
  BY ViewsStart DEF MCInit
<1>2. ViewsStayInside /\ [MCNext]_<<about, parser, floats, matrices, buffers, views, signals>> => ViewsStayInside'
  BY PartsStep, ViewsStay
<1>3. QED
  BY <1>1, <1>2, PTL DEF MCSpec

(* An inbox of any number of signals, of any width and with any weights,   *)
(* is folded to what is to be delivered of it, or nothing is changed.      *)
THEOREM InboxFolds == MCSpec => []InboxFoldsWhatIsDelivered
<1>1. MCInit => SignalsHold
  <2>1. SignalsIdle => SignalsHold
    BY DEF SignalsIdle, SignalsHold
  <2>2. QED
    BY <2>1, SignalsStart DEF MCInit
<1>2. SignalsHold /\ [MCNext]_<<about, parser, floats, matrices, buffers, views, signals>> => SignalsHold'
  BY PartsStep, SignalsStay
<1>3. QED
  BY <1>1, <1>2, InboxIsRight, PTL DEF MCSpec

-----------------------------------------------------------------------------
(* A matrix turned over. *)

(* Where the element at p, counted from zero, of m rows of n goes.         *)
TurnedPlace(p, m, n) == (p % n) * m + (p \div n) + 1

(* It lies in the output, and no other element goes there.                 *)
LEMMA TurnedPlacesDiffer ==
  ASSUME NEW m \in Nat, NEW n \in Nat, NEW p \in 0 .. m * n - 1
  PROVE  /\ n # 0 /\ m # 0 /\ TurnedPlace(p, m, n) \in 1 .. m * n
         /\ \A q \in 0 .. m * n - 1 : TurnedPlace(p, m, n) = TurnedPlace(q, m, n) => p = q
<1>1. n # 0 /\ m # 0
  <2>1. m * n > 0
    OBVIOUS
  <2>2. QED
    BY <2>1
<1>2. ASSUME NEW q \in 0 .. m * n - 1
      PROVE  /\ q % n \in 0 .. n - 1 /\ q \div n \in 0 .. m - 1
             /\ q = n * (q \div n) + (q % n)
             /\ (TurnedPlace(q, m, n) - 1) \div m = q % n
             /\ (TurnedPlace(q, m, n) - 1) % m = q \div n
             /\ TurnedPlace(q, m, n) \in 1 .. m * n
  <2> DEFINE d == q \div n
             r == q % n
  <2>1. r \in 0 .. n - 1 /\ d \in Int /\ q = n * d + r
    BY <1>1
  <2>2. d \in 0 .. m - 1
    <3> HIDE DEF d, r
    <3>1. CASE d >= m
      <4>1. n * d >= n * m
        BY <2>1, <3>1
      <4>2. QED
        BY <2>1, <4>1
    <3>2. CASE d <= -1
      <4>1. n * d <= -n
        BY <2>1, <3>2
      <4>2. QED
        BY <2>1, <4>1
    <3>3. QED
      BY <2>1, <3>1, <3>2
  <2>3. TurnedPlace(q, m, n) = r * m + (d + 1)
    <3>1. TurnedPlace(q, m, n) = r * m + d + 1
      BY DEF TurnedPlace
    <3> HIDE DEF d, r
    <3>2. r * m \in Int
      BY <2>1
    <3>3. QED
      BY <2>2, <3>1, <3>2
  <2> HIDE DEF d, r
  <2>4. r * m + (d + 1) \in 1 .. n * m
    <3>1. d + 1 \in 1 .. m
      BY <2>2
    <3>2. QED
      BY <1>1, <2>1, <3>1, PlaceIsIn
  <2>5. TurnedPlace(q, m, n) \in Int /\ TurnedPlace(q, m, n) - 1 = m * r + d
    BY <2>1, <2>2, <2>3
  <2>6. (TurnedPlace(q, m, n) - 1) \div m = r /\ (TurnedPlace(q, m, n) - 1) % m = d
    <3>1. TurnedPlace(q, m, n) - 1 \in Int /\ m \in Nat \ {0} /\ r \in Int
      BY <1>1, <2>1, <2>5
    <3>2. QED
      BY <2>2, <2>5, <3>1, QuotientIs
  <2>7. TurnedPlace(q, m, n) \in 1 .. m * n
    <3>1. n * m = m * n
      OBVIOUS
    <3>2. QED
      BY <2>3, <2>4, <3>1
  <2>8. QED
    BY <2>1, <2>2, <2>6, <2>7 DEF d, r
<1>3. ASSUME NEW q \in 0 .. m * n - 1, TurnedPlace(p, m, n) = TurnedPlace(q, m, n)
      PROVE  p = q
  <2>1. p % n = q % n /\ p \div n = q \div n
    BY <1>2, <1>3
  <2>2. p = n * (p \div n) + (p % n)
    BY <1>2
  <2>3. q = n * (q \div n) + (q % n)
    BY <1>2
  <2>4. QED
    BY <2>1, <2>2, <2>3
<1>4. QED
  BY <1>1, <1>2, <1>3

(* The output after each element that is moved.                            *)
Turned(out, p, a, m, n) == [out EXCEPT ![(p % n) * m + (p \div n) + 1] = a[p + 1]]

AreTurned(at, a, m, n) ==
  /\ at[0] = [p \in 1 .. m * n |-> Zero]
  /\ \A k \in 1 .. m * n : at[k] = Turned(at[k - 1], k - 1, a, m, n)
  /\ Transpose(a, m, n) = at[m * n]

LEMMA FoldOfTurns ==
  ASSUME NEW m \in Nat, NEW n \in Nat, NEW E, Zero \in E, NEW a \in [1 .. m * n -> E]
  PROVE  \E at : AreTurned(at, a, m, n)
<1> DEFINE N == m * n
           S == [1 .. N -> E]
           base == [p \in 1 .. N |-> Zero]
           seq == Span(0, N - 1)
           one(out, p) == Turned(out, p, a, m, n)
           step == [p \in (1 .. N) \X S |-> one(p[2], p[1] - 1)]
           Is(f) == f = [s \in SUBSET DOMAIN seq |->
                           IF s = {} THEN base ELSE one(f[s \ {Max(s)}], seq[Max(s)])]
           fold == CHOOSE f : Is(f)
<1>1. N \in Nat /\ base \in S
  OBVIOUS
<1>2. \A out \in S, p \in 0 .. N - 1 : one(out, p) \in S
  BY DEF Turned
<1>3. Transpose(a, m, n) = fold[DOMAIN seq]
  BY DEF Transpose, FoldLeft, MapThenFoldSet, Turned
<1>4. DOMAIN seq = 1 .. N /\ \A k \in 1 .. N : seq[k] = k - 1
  <2> HIDE DEF N
  <2>1. QED
    BY <1>1 DEF Span
<1> HIDE DEF seq, one
<1>5. step \in [(1 .. N) \X S -> S] /\ \A k \in 1 .. N, out \in S : step[<<k, out>>] = one(out, k - 1)
  <2> HIDE DEF S, N
  <2>1. \A k \in 1 .. N : k - 1 \in 0 .. N - 1
    BY <1>1
  <2>2. QED
    BY <1>2, <2>1
<1> HIDE DEF step, Is, fold, S, base, N
<1>6. PICK g : IsFold(g, N, S, base, step)
  BY <1>1, <1>5, FoldExists
<1> g \in [SUBSET (1 .. N) -> S]
  BY <1>6 DEF IsFold
<1>7. ASSUME NEW s \in SUBSET (1 .. N)
      PROVE  g[s] = IF s = {} THEN base ELSE one(g[s \ {Max(s)}], seq[Max(s)])
  <2>1. CASE s = {}
    BY <1>6, <2>1 DEF IsFold
  <2>2. CASE s # {}
    <3> DEFINE k == Max(s)
    <3>1. k \in 1 .. N /\ g[s] = step[<<k, g[s \ {k}]>>]
      BY <1>6, <2>2 DEF IsFold
    <3>2. s \ {k} \in SUBSET (1 .. N)
      OBVIOUS
    <3> HIDE DEF k
    <3>3. g[s \ {k}] \in S
      BY <3>2
    <3>4. g[s] = one(g[s \ {k}], seq[k])
      BY <1>4, <1>5, <3>1, <3>3
    <3>5. QED
      BY <2>2, <3>4 DEF k
  <2>3. QED
    BY <2>1, <2>2
<1>8. Is(fold)
  <2>1. Is(g)
    BY <1>4, <1>7 DEF Is
  <2>2. QED
    BY <2>1 DEF fold
<1>9. fold[1 .. 0] = base
  BY <1>1, <1>4, <1>8 DEF Is
<1>10. ASSUME NEW k \in 1 .. N
       PROVE  fold[1 .. k] = one(fold[1 .. k - 1], k - 1)
  <2>1. k \in Nat \ {0}
    BY <1>1
  <2>2. Max(1 .. k) = k /\ (1 .. k) \ {k} = 1 .. k - 1 /\ 1 .. k # {}
    BY <2>1, MaxOfSegment
  <2>3. 1 .. k \in SUBSET (1 .. N)
    BY <1>1
  <2>4. fold[1 .. k] = one(fold[(1 .. k) \ {Max(1 .. k)}], seq[Max(1 .. k)])
    BY <1>4, <1>8, <2>2, <2>3 DEF Is
  <2>5. seq[Max(1 .. k)] = k - 1
    BY <1>4, <2>2
  <2>6. QED
    BY <2>2, <2>4, <2>5
<1> DEFINE at == [k \in 0 .. N |-> fold[1 .. k]]
<1>11. at[0] = base /\ at[N] = fold[1 .. N]
  BY <1>1, <1>9
<1>12. \A k \in 1 .. N : at[k] = fold[1 .. k] /\ at[k - 1] = fold[1 .. k - 1]
  BY <1>1
<1> HIDE DEF at
<1>13. \A k \in 1 .. N : at[k] = Turned(at[k - 1], k - 1, a, m, n)
  BY <1>10, <1>12 DEF one
<1>14. AreTurned(at, a, m, n)
  BY <1>3, <1>4, <1>11, <1>13 DEF AreTurned, base, N
<1>15. QED
  BY <1>14

(* tensor_transpose_2d, for every number of rows and columns and any       *)
(* elements: what is in row i and column j is in row j and column i of the *)
(* output.                                                                 *)
THEOREM TransposesTurnOver ==
  ASSUME NEW m \in Nat, NEW n \in Nat, NEW E, NEW a \in [1 .. m * n -> E]
  PROVE  IsTransposed(Transpose(a, m, n), a, m, n)
<1> DEFINE N == m * n
           F == E \cup {Zero}
           S == [1 .. N -> F]
           c == Transpose(a, m, n)
<1>1. N \in Nat /\ a \in S
  OBVIOUS
<1>2. PICK at : AreTurned(at, a, m, n)
  <2>1. Zero \in F /\ a \in [1 .. m * n -> F]
    OBVIOUS
  <2> HIDE DEF F
  <2>2. QED
    BY <2>1, FoldOfTurns
<1> DEFINE Moved(k) == at[k] \in S /\ \A p \in 0 .. k - 1 : at[k][TurnedPlace(p, m, n)] = a[p + 1]
           done == {k \in 0 .. N : Moved(k)}
<1>3. 0 \in done
  BY <1>2 DEF AreTurned
<1>4. ASSUME NEW k \in 0 .. N - 1, k \in done
      PROVE  k + 1 \in done
  <2>1. k \in Nat /\ k + 1 \in 1 .. N /\ k + 1 \in 0 .. N /\ (k + 1) - 1 = k
    BY <1>1
  <2>2. at[k + 1] = [at[k] EXCEPT ![TurnedPlace(k, m, n)] = a[k + 1]]
    BY <1>2, <2>1 DEF AreTurned, Turned, TurnedPlace
  <2>3. at[k] \in S /\ \A p \in 0 .. k - 1 : at[k][TurnedPlace(p, m, n)] = a[p + 1]
    BY <1>4
  <2>4. TurnedPlace(k, m, n) \in 1 .. N
    BY TurnedPlacesDiffer
  <2>5. a[k + 1] \in F
    BY <2>1
  <2>6. at[k + 1] \in S
    <3> HIDE DEF N, F
    <3>1. QED
      BY <2>2, <2>3, <2>4, <2>5
  <2>7. ASSUME NEW p \in 0 .. k
        PROVE  at[k + 1][TurnedPlace(p, m, n)] = a[p + 1]
    <3>1. p \in 0 .. N - 1 /\ k \in 0 .. N - 1
      BY <1>1
    <3>2. TurnedPlace(p, m, n) \in 1 .. N /\ (TurnedPlace(p, m, n) = TurnedPlace(k, m, n) => p = k)
      BY <3>1, TurnedPlacesDiffer
    <3>3. p # k => p \in 0 .. k - 1
      BY <2>1
    <3> HIDE DEF N, F
    <3>4. QED
      BY <2>2, <2>3, <2>4, <3>2, <3>3
  <2>8. QED
    BY <2>1, <2>6, <2>7
<1> HIDE DEF done
<1>5. N \in done
  <2>1. N \in 0 .. N
    BY <1>1
  <2>2. QED
    BY <1>1, <1>3, <1>4, <2>1, UpTo
<1>6. c = at[N] /\ c \in S
  BY <1>2, <1>5 DEF done, AreTurned
<1>7. Len(c) = m * n
  <2> HIDE DEF c, F, N
  <2>1. DOMAIN c = 1 .. N /\ N \in Nat
    BY <1>1, <1>6
  <2>2. QED
    BY <1>1, <1>6, <2>1 DEF N
<1>8. ASSUME NEW i \in 0 .. m - 1, NEW j \in 0 .. n - 1
      PROVE  At(c, m, j, i) = At(a, n, i, j)
  <2> DEFINE p == i * n + j
  <2>1. n \in Nat \ {0} /\ m \in Nat \ {0} /\ p \in Int /\ p = n * i + j
    OBVIOUS
  <2>2. p \in 0 .. N - 1
    <3>1. i * n + (j + 1) \in 1 .. m * n
      <4>1. j + 1 \in 1 .. n
        OBVIOUS
      <4>2. QED
        BY <2>1, <4>1, PlaceIsIn
    <3>2. p + 1 = i * n + (j + 1)
      OBVIOUS
    <3> HIDE DEF p
    <3>3. QED
      BY <1>1, <2>1, <3>1, <3>2
  <2>3. p \div n = i /\ p % n = j
    <3> HIDE DEF p
    <3>1. QED
      BY <2>1, QuotientIs
  <2>4. c[TurnedPlace(p, m, n)] = a[p + 1]
    BY <1>5, <1>6, <2>2 DEF done
  <2>5. TurnedPlace(p, m, n) = j * m + i + 1
    <3> HIDE DEF p
    <3>1. QED
      BY <2>3 DEF TurnedPlace
  <2>6. QED
    BY <2>4, <2>5 DEF At
<1>9. QED
  BY <1>7, <1>8 DEF IsTransposed
=============================================================================
