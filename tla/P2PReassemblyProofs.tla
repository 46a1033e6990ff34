-------------------------- MODULE P2PReassemblyProofs --------------------------
(***************************************************************************)
(* Theorems about P2PReassembly, for all values of the constants: any      *)
(* channels, streams, codecs, lengths and queues.  First the frames, then  *)
(* the messages, which need to say what a queue of segments parses to.     *)
(***************************************************************************)
EXTENDS P2PReassembly, SequenceTheorems, TLAPS

-----------------------------------------------------------------------------
(* What is on its way. *)

Segments == [head : {TRUE}, message : Messages] \cup [head : {FALSE}, part : Nat \X Nat]

\* Messages and what there is of them, on the station's side and on this one.
QueuesOK ==
  /\ messages \in Nat /\ stream \in 1 .. Len(Codec) /\ starts \in 0 .. MaxStarts
  /\ sending \in [DataTypes -> Messages \cup {NoMessage}]
  /\ segments \in [DataTypes -> Seq(Segments)]
  /\ pending \in [DataTypes -> Pending \cup {NoMessage}]

LEMMA CodecLength == Len(Codec) \in Nat \ {0} /\ \A i \in 1 .. Len(Codec) : Codec[i] \in Codecs
<1>1. Codec \in Seq(Codecs) /\ Codec # <<>>
  BY ReassemblyAssumption
<1> QED BY <1>1, EmptySeq, ElementOfSeq

LEMMA MessageOK ==
  ASSUME NEW id \in Nat, NEW total \in Nat, NEW f \in Frame
  PROVE  Message(id, total, f) \in Messages
<1>1. <<<<id, 1>>>> \in Seq(Nat \X Nat)
  OBVIOUS
<1> QED BY <1>1 DEF Message, Messages

LEMMA WithPartOK ==
  ASSUME NEW m \in Messages, NEW part \in Nat \X Nat
  PROVE  WithPart(m, part) \in Messages /\ WithPart(m, part).frame = m.frame
<1>1. m.parts \in Seq(Nat \X Nat)
  BY DEF Messages
<1>2. Append(m.parts, part) \in Seq(Nat \X Nat)
  BY <1>1, AppendProperties
<1>3. WithPart(m, part) = [m EXCEPT !.parts = Append(m.parts, part)]
  BY DEF WithPart, Messages
<1> QED BY <1>2, <1>3 DEF Messages

LEMMA SegmentOK ==
  /\ \A m \in Messages : HeadSegment(m) \in Segments
  /\ \A part \in Nat \X Nat : TailSegment(part) \in Segments
  BY DEF HeadSegment, TailSegment, Segments

LEMMA TakenOK ==
  ASSUME QueuesOK, NEW d \in DataTypes, segments[d] # <<>>, Taken(d)
  PROVE  /\ segments' \in [DataTypes -> Seq(Segments)]
         /\ First(d) \in Segments
<1>1. segments[d] \in Seq(Segments)
  BY DEF QueuesOK
<1>2. Tail(segments[d]) \in Seq(Segments) /\ Head(segments[d]) \in Segments
  BY <1>1, HeadTailProperties
<1> QED BY <1>2 DEF QueuesOK, Taken, First

LEMMA QueueOK ==
  ASSUME QueuesOK, NEW d \in DataTypes, NEW s \in Segments,
         segments' = [segments EXCEPT ![d] = Append(@, s)]
  PROVE  segments' \in [DataTypes -> Seq(Segments)]
<1>1. segments[d] \in Seq(Segments)
  BY DEF QueuesOK
<1>2. Append(segments[d], s) \in Seq(Segments)
  BY <1>1, AppendProperties
<1> QED BY <1>2 DEF QueuesOK

LEMMA StationOK ==
  ASSUME QueuesOK, NEW d \in DataTypes, NEW total \in Nat, NEW f \in FramesNow,
         SendShort(d, total, f) \/ BeginLong(d, total, f)
  PROVE  QueuesOK' /\ UNCHANGED frameVars
<1>1. f \in Frame /\ messages \in Nat /\ messages' = messages + 1
  BY DEF FramesNow, QueuesOK, SendShort, BeginLong
<1>2. Message(messages, total, f) \in Messages
  BY <1>1, MessageOK
<1>3. segments' \in [DataTypes -> Seq(Segments)]
  BY <1>2, SegmentOK, QueueOK DEF SendShort, BeginLong
<1>4. sending' \in [DataTypes -> Messages \cup {NoMessage}]
  BY <1>2 DEF SendShort, BeginLong, QueuesOK
<1>5. UNCHANGED <<stream, pending, frameVars>> /\ messages' \in Nat
  BY <1>1 DEF SendShort, BeginLong
<1> QED BY <1>3, <1>4, <1>5 DEF QueuesOK, frameVars

LEMMA ContinueOK ==
  ASSUME QueuesOK, NEW d \in DataTypes, NEW padding \in {<<>>, <<Padding>>},
         ContinueLong(d, padding)
  PROVE  QueuesOK' /\ UNCHANGED frameVars
<1> DEFINE part == <<sending[d].id, Len(sending[d].parts) + 1>>
           m == WithPart(sending[d], part)
<1>1. sending[d] \in Messages
  BY DEF ContinueLong, QueuesOK
<1>2. part \in Nat \X Nat
  <2>1. sending[d].id \in Nat /\ sending[d].parts \in Seq(Nat \X Nat)
    BY <1>1 DEF Messages
  <2> QED BY <2>1, LenProperties
<1>3. m \in Messages /\ TailSegment(part) \in Segments
  BY <1>1, <1>2, WithPartOK, SegmentOK
<1>4. padding \in Seq(Segments)
  <2>1. Padding \in Segments
    BY SegmentOK, ReassemblyAssumption DEF Padding
  <2>2. CASE padding = <<>>
    BY <2>2, EmptySeq
  <2>3. CASE padding = <<Padding>>
    BY <2>1, <2>3
  <2> QED BY <2>2, <2>3
<1>5. /\ segments' = [segments EXCEPT ![d] = Append(segments[d], TailSegment(part)) \o padding]
      /\ sending' \in {[sending EXCEPT ![d] = NoMessage], [sending EXCEPT ![d] = m]}
      /\ UNCHANGED <<messages, stream, pending, frameVars>>
  BY DEF ContinueLong
<1> HIDE DEF part, m
<1>6. segments' \in [DataTypes -> Seq(Segments)]
  <2>1. segments[d] \in Seq(Segments)
    BY DEF QueuesOK
  <2>2. Append(segments[d], TailSegment(part)) \in Seq(Segments)
    BY <1>3, <2>1, AppendProperties
  <2>3. Append(segments[d], TailSegment(part)) \o padding \in Seq(Segments)
    BY <1>4, <2>2, ConcatProperties
  <2> QED BY <1>5, <2>3 DEF QueuesOK
<1>7. sending' \in [DataTypes -> Messages \cup {NoMessage}]
  BY <1>3, <1>5 DEF QueuesOK
<1> QED BY <1>5, <1>6, <1>7 DEF QueuesOK, frameVars

-----------------------------------------------------------------------------
(* Frames. *)

Shown == [frame : Frame, codec : Codecs]

FramesOK ==
  /\ gotKeyframe \in BOOLEAN /\ videoCodec \in Codecs \cup {UNKNOWN}
  /\ handled \in Seq(Frame) /\ shown \in Seq(Shown)

\* The gate is open when something has been shown; what it kept back has no keyframe.
GateInv ==
  /\ gotKeyframe <=> shown # <<>>
  /\ ~gotKeyframe => \A i \in 1 .. Len(handled) : handled[i].kind # "key"

\* The codec is the one that the first frame shows.
CodecInv ==
  /\ handled = <<>> <=> videoCodec = UNKNOWN
  /\ handled # <<>> => videoCodec = CodecOf(handled[1])
  /\ \A i \in 1 .. Len(shown) : shown[i].codec = videoCodec

FrameInv == FramesOK /\ GateInv /\ CodecInv /\ KeyframeFirst

LEMMA CodecOfOK ==
  ASSUME NEW f \in Frame
  PROVE  CodecOf(f) \in Codecs /\ CodecOf(f) # UNKNOWN
<1>1. f.of \in 1 .. Len(Codec)
  BY DEF Frame
<1> QED BY <1>1, CodecLength, ReassemblyAssumption DEF CodecOf

\* One more element, in front of which nothing changes.
LEMMA AppendElements ==
  ASSUME NEW S, NEW s \in Seq(S), NEW x \in S
  PROVE  /\ Append(s, x) \in Seq(S) /\ Append(s, x) # <<>>
         /\ Len(s) \in Nat /\ Len(Append(s, x)) = Len(s) + 1
         /\ Append(s, x)[Len(s) + 1] = x
         /\ \A i \in 1 .. Len(s) : Append(s, x)[i] = s[i]
  BY AppendProperties, LenProperties

LEMMA FrameHandled ==
  ASSUME FrameInv, NEW f \in Frame, HandleVideoFrame(f)
  PROVE  FrameInv'
<1>1. CASE f.kind = "rejected"
  BY <1>1 DEF HandleVideoFrame, FrameInv, FramesOK, GateInv, CodecInv, KeyframeFirst
<1>2. CASE f.kind # "rejected"
  <2> DEFINE entry == [frame |-> f, codec |-> videoCodec']
  <2>1. /\ handled' = Append(handled, f)
        /\ videoCodec' = IF videoCodec = UNKNOWN THEN CodecOf(f) ELSE videoCodec
        /\ gotKeyframe' = (gotKeyframe \/ f.kind = "key")
        /\ shown' = IF gotKeyframe' THEN Append(shown, entry) ELSE shown
    BY <1>2 DEF HandleVideoFrame
  <2>2. videoCodec' \in Codecs /\ videoCodec' # UNKNOWN
    BY <2>1, CodecOfOK DEF FrameInv, FramesOK
  <2>3. entry \in Shown /\ entry.frame = f /\ entry.codec = videoCodec'
    BY <2>2 DEF Shown
  <2>4. /\ handled' \in Seq(Frame) /\ handled' # <<>>
        /\ Len(handled) \in Nat /\ Len(handled') = Len(handled) + 1
        /\ handled'[Len(handled) + 1] = f
        /\ \A i \in 1 .. Len(handled) : handled'[i] = handled[i]
    BY <2>1, AppendElements DEF FrameInv, FramesOK
  <2> HIDE DEF entry
  <2>5. CASE gotKeyframe'
    <3>1. /\ shown' \in Seq(Shown) /\ shown' # <<>>
          /\ Len(shown) \in Nat /\ Len(shown') = Len(shown) + 1
          /\ shown'[Len(shown) + 1] = entry
          /\ \A i \in 1 .. Len(shown) : shown'[i] = shown[i]
      BY <2>1, <2>3, <2>5, AppendElements DEF FrameInv, FramesOK
    <3>2. FramesOK' /\ GateInv'
      BY <2>2, <2>4, <2>5, <3>1 DEF FramesOK, GateInv
    <3>3. videoCodec # UNKNOWN => videoCodec' = videoCodec
      BY <2>1
    <3>4. videoCodec = UNKNOWN => handled = <<>> /\ Len(handled) = 0 /\ Len(shown) = 0
      <4>1. videoCodec = UNKNOWN => handled = <<>> /\ Len(handled) = 0
        BY EmptySeq DEF FrameInv, CodecInv
      <4>2. Len(shown) <= Len(handled)
        BY <2>4, <3>1 DEF FrameInv, KeyframeFirst
      <4> QED BY <3>1, <4>1, <4>2
    <3>5. \A i \in 1 .. Len(shown') : shown'[i].codec = videoCodec'
      BY <2>3, <3>1, <3>3, <3>4 DEF FrameInv, CodecInv
    <3>6. videoCodec' = CodecOf(handled'[1])
      <4>1. CASE handled = <<>>
        BY <2>1, <2>4, <4>1, EmptySeq DEF FrameInv, CodecInv
      <4>2. CASE handled # <<>>
        <5>1. 1 \in 1 .. Len(handled)
          BY <4>2, EmptySeq DEF FrameInv, FramesOK
        <5> QED BY <2>1, <2>4, <3>3, <4>2, <5>1 DEF FrameInv, CodecInv, CodecOf
      <4> QED BY <4>1, <4>2
    <3>7. CodecInv'
      BY <2>2, <2>4, <3>5, <3>6 DEF CodecInv, CodecOf
    <3>8. KeyframeFirst'
      <4>1. CASE gotKeyframe
        <5>1. PICK k \in 0 .. Len(handled) :
                /\ Len(shown) = Len(handled) - k
                /\ \A i \in 1 .. Len(shown) : shown[i].frame = handled[k + i]
                /\ \A i \in 1 .. k : handled[i].kind # "key"
          BY DEF FrameInv, KeyframeFirst
        <5>2. Len(shown) >= 1 /\ shown[1].frame.kind = "key"
          BY <3>1, <4>1, EmptySeq DEF FrameInv, FramesOK, GateInv, KeyframeFirst
        <5>3. shown'[1].frame.kind = "key"
          BY <3>1, <5>2
        <5>4. /\ k \in 0 .. Len(handled') /\ Len(shown') = Len(handled') - k
              /\ \A i \in 1 .. k : handled'[i].kind # "key"
          BY <2>4, <3>1, <5>1
        <5>5. \A i \in 1 .. Len(shown') : shown'[i].frame = handled'[k + i]
          <6> SUFFICES ASSUME NEW i \in 1 .. Len(shown') PROVE shown'[i].frame = handled'[k + i]
            OBVIOUS
          <6>1. CASE i \in 1 .. Len(shown)
            <7>1. k + i \in 1 .. Len(handled)
              BY <2>4, <3>1, <5>1, <6>1
            <7> QED BY <2>4, <3>1, <5>1, <6>1, <7>1
          <6>2. CASE i = Len(shown) + 1
            <7>1. k + i = Len(handled) + 1
              BY <2>4, <3>1, <5>1, <6>2
            <7> QED BY <2>3, <2>4, <3>1, <6>2, <7>1
          <6> QED BY <3>1, <6>1, <6>2
        <5> QED BY <5>3, <5>4, <5>5 DEF KeyframeFirst
      <4>2. CASE ~gotKeyframe
        <5>1. f.kind = "key" /\ Len(shown) = 0
          BY <2>1, <2>5, <4>2, EmptySeq DEF FrameInv, GateInv
        <5>2. \A i \in 1 .. Len(handled) : handled'[i].kind # "key"
          BY <2>4, <4>2 DEF FrameInv, GateInv
        <5>3. shown'[1].frame = f /\ Len(shown') = 1
          BY <2>3, <3>1, <5>1
        <5>4. /\ Len(handled) \in 0 .. Len(handled')
              /\ Len(shown') = Len(handled') - Len(handled)
              /\ \A i \in 1 .. Len(shown') : shown'[i].frame = handled'[Len(handled) + i]
          BY <2>4, <5>3
        <5> QED BY <5>1, <5>2, <5>3, <5>4 DEF KeyframeFirst
      <4> QED BY <4>1, <4>2 DEF FrameInv, FramesOK
    <3> QED BY <3>2, <3>7, <3>8 DEF FrameInv
  <2>6. CASE ~gotKeyframe'
    <3>1. ~gotKeyframe /\ f.kind # "key" /\ UNCHANGED shown /\ shown = <<>> /\ Len(shown) = 0
      BY <2>1, <2>6, EmptySeq DEF FrameInv, FramesOK, GateInv
    <3>2. FramesOK'
      BY <2>1, <2>2, <2>4, <3>1 DEF FrameInv, FramesOK
    <3>3. \A i \in 1 .. Len(handled') : handled'[i].kind # "key"
      BY <2>4, <3>1 DEF FrameInv, GateInv
    <3>4. GateInv'
      BY <2>6, <3>1, <3>3 DEF GateInv
    <3>5. videoCodec' = CodecOf(handled'[1])
      <4>1. CASE handled = <<>>
        BY <2>1, <2>4, <4>1, EmptySeq DEF FrameInv, CodecInv
      <4>2. CASE handled # <<>>
        <5>1. 1 \in 1 .. Len(handled) /\ videoCodec # UNKNOWN
          BY <4>2, EmptySeq DEF FrameInv, FramesOK, CodecInv
        <5> QED BY <2>1, <2>4, <4>2, <5>1 DEF FrameInv, CodecInv, CodecOf
      <4> QED BY <4>1, <4>2
    <3>6. CodecInv'
      BY <2>2, <2>4, <3>1, <3>5 DEF CodecInv, CodecOf
    <3>7. KeyframeFirst'
      <4>1. /\ Len(handled') \in 0 .. Len(handled')
            /\ Len(shown') = Len(handled') - Len(handled') /\ Len(shown') = 0
        BY <2>4, <3>1
      <4> QED BY <3>1, <3>3, <4>1 DEF KeyframeFirst
    <3> QED BY <3>2, <3>4, <3>6, <3>7 DEF FrameInv
  <2> QED BY <2>5, <2>6
<1> QED BY <1>1, <1>2

-----------------------------------------------------------------------------
(* The steps. *)

Inv == QueuesOK /\ FrameInv

LEMMA FramesStay ==
  ASSUME FrameInv, UNCHANGED <<gotKeyframe, videoCodec, handled, shown>>
  PROVE  FrameInv'
  BY DEF FrameInv, FramesOK, GateInv, CodecInv, KeyframeFirst, CodecOf

LEMMA DispatchOK ==
  ASSUME FrameInv, NEW d \in DataTypes, NEW m \in Messages, DispatchMessage(d, m)
  PROVE  FrameInv' /\ UNCHANGED starts
<1>1. m.frame \in Frame
  BY DEF Messages
<1>2. CASE d = VIDEO
  BY <1>1, <1>2, FrameHandled DEF DispatchMessage
<1>3. CASE d # VIDEO
  BY <1>3, FramesStay DEF DispatchMessage
<1> QED BY <1>2, <1>3 DEF DispatchMessage

LEMMA ProcessOK ==
  ASSUME Inv, NEW d \in DataTypes, ProcessDataSegment(d)
  PROVE  Inv'
<1> USE DEF Inv
<1>0. /\ segments[d] # <<>> /\ Taken(d) /\ UNCHANGED <<messages, stream, sending>>
  BY DEF ProcessDataSegment, ProcessShort, ProcessHead, ProcessStray, ProcessPart, stationVars
<1>1. segments' \in [DataTypes -> Seq(Segments)] /\ First(d) \in Segments
  BY <1>0, TakenOK
<1>2. CASE ProcessShort(d)
  <2>1. First(d).message \in Messages
    BY <1>1, <1>2 DEF ProcessShort, Segments
  <2>2. FrameInv' /\ UNCHANGED starts
    BY <1>2, <2>1, DispatchOK DEF ProcessShort
  <2> QED BY <1>0, <1>1, <1>2, <2>2 DEF ProcessShort, QueuesOK
<1>3. CASE ProcessHead(d)
  <2>1. First(d).message \in Messages
    BY <1>1, <1>3 DEF ProcessHead, Segments
  <2>2. [message |-> First(d).message, received |-> 1] \in Pending
    BY <2>1 DEF Pending
  <2>3. pending' \in [DataTypes -> Pending \cup {NoMessage}]
    BY <1>3, <2>2 DEF ProcessHead, QueuesOK
  <2>4. FrameInv' /\ UNCHANGED starts
    BY <1>3, FramesStay DEF ProcessHead, frameVars
  <2> QED BY <1>0, <1>1, <2>3, <2>4 DEF QueuesOK
<1>4. CASE ProcessStray(d)
  <2>1. FrameInv' /\ UNCHANGED <<starts, pending>>
    BY <1>4, FramesStay DEF ProcessStray, frameVars
  <2> QED BY <1>0, <1>1, <2>1 DEF QueuesOK
<1>5. CASE ProcessPart(d)
  <2>1. First(d).part \in Nat \X Nat
    BY <1>1, <1>5 DEF ProcessPart, Segments
  <2>2. pending[d] \in Pending
    BY <1>5 DEF ProcessPart, QueuesOK
  <2>3. pending[d].message \in Messages /\ pending[d].received + 1 \in Nat
    BY <2>2 DEF Pending
  <2>4. Extended(d) \in Pending /\ Extended(d).message \in Messages
    BY <2>1, <2>3, WithPartOK DEF Extended, Pending
  <2>5. \/ /\ pending' = [pending EXCEPT ![d] = NoMessage]
           /\ DispatchMessage(d, Extended(d).message)
        \/ /\ pending' = [pending EXCEPT ![d] = Extended(d)]
           /\ UNCHANGED frameVars
    BY <1>5 DEF ProcessPart
  <2>6. FrameInv' /\ UNCHANGED starts
    BY <2>4, <2>5, DispatchOK, FramesStay DEF frameVars
  <2>7. pending' \in [DataTypes -> Pending \cup {NoMessage}]
    BY <2>4, <2>5 DEF QueuesOK
  <2> QED BY <1>0, <1>1, <2>6, <2>7 DEF QueuesOK
<1> QED BY <1>2, <1>3, <1>4, <1>5 DEF ProcessDataSegment

\* A stream that is started has shown nothing, whatever comes in afterwards.
LEMMA StartOK ==
  ASSUME Inv, StartLivestream
  PROVE  Inv'
<1>1. /\ starts < MaxStarts /\ starts' = starts + 1 /\ gotKeyframe' = FALSE
      /\ videoCodec' = UNKNOWN /\ handled' = <<>> /\ shown' = <<>>
      /\ UNCHANGED <<messages, stream, sending, segments, pending>>
  BY DEF StartLivestream, stationVars
<1>2. starts' \in 0 .. MaxStarts
  BY <1>1, CodecLength DEF Inv, QueuesOK, MaxStarts
<1>3. QueuesOK'
  BY <1>1, <1>2 DEF Inv, QueuesOK
<1>4. FramesOK'
  BY <1>1, EmptySeq DEF FramesOK
<1>5. GateInv' /\ CodecInv' /\ KeyframeFirst'
  BY <1>1, EmptySeq DEF GateInv, CodecInv, KeyframeFirst
<1> QED BY <1>3, <1>4, <1>5 DEF Inv, FrameInv

LEMMA SwitchOK ==
  ASSUME Inv, SwitchStream
  PROVE  Inv'
<1>1. /\ stream <= starts /\ stream' = stream + 1
      /\ UNCHANGED <<messages, sending, segments, pending, frameVars>>
  BY DEF SwitchStream
<1>2. stream' \in 1 .. Len(Codec)
  BY <1>1, CodecLength DEF Inv, QueuesOK, MaxStarts
<1>3. FrameInv' /\ UNCHANGED starts
  BY <1>1, FramesStay DEF Inv, frameVars
<1> QED BY <1>1, <1>2, <1>3 DEF Inv, QueuesOK

LEMMA InitOK == Init => Inv
<1> SUFFICES ASSUME Init PROVE Inv
  OBVIOUS
<1>1. <<>> \in Seq(Segments) /\ <<>> \in Seq(Frame) /\ <<>> \in Seq(Shown) /\ Len(<<>>) = 0
  BY EmptySeq
<1>2. 1 \in 1 .. Len(Codec) /\ 0 \in 0 .. MaxStarts
  BY CodecLength DEF MaxStarts
<1>3. QueuesOK
  <2>1. segments \in [DataTypes -> Seq(Segments)]
    BY <1>1 DEF Init
  <2>2. /\ sending \in [DataTypes -> Messages \cup {NoMessage}]
        /\ pending \in [DataTypes -> Pending \cup {NoMessage}]
    BY DEF Init
  <2> QED BY <1>2, <2>1, <2>2 DEF Init, QueuesOK
<1>4. handled = <<>> /\ shown = <<>> /\ videoCodec = UNKNOWN /\ gotKeyframe = FALSE
  BY DEF Init
<1>5. FramesOK
  BY <1>1, <1>4 DEF FramesOK
<1>6. GateInv /\ CodecInv /\ KeyframeFirst
  BY <1>1, <1>4 DEF GateInv, CodecInv, KeyframeFirst
<1> QED BY <1>3, <1>5, <1>6 DEF Inv, FrameInv

LEMMA StepOK == Inv /\ [Next]_vars => Inv'
<1> SUFFICES ASSUME Inv, [Next]_vars PROVE Inv'
  OBVIOUS
<1>0. ASSUME QueuesOK', UNCHANGED frameVars
      PROVE  Inv'
  BY <1>0, FramesStay DEF Inv, frameVars
<1>1. ASSUME NEW d \in DataTypes, NEW total \in 0 .. MaxTotal, NEW f \in FramesNow,
             SendShort(d, total, f) \/ BeginLong(d, total, f)
      PROVE  Inv'
  <2>1. total \in Nat
    OBVIOUS
  <2> QED BY <1>0, <1>1, <2>1, StationOK DEF Inv
<1>2. ASSUME NEW d \in DataTypes, NEW padding \in {<<>>, <<Padding>>}, ContinueLong(d, padding)
      PROVE  Inv'
  BY <1>0, <1>2, ContinueOK DEF Inv
<1>3. CASE UNCHANGED vars
  BY <1>0, <1>3 DEF vars, stationVars, frameVars, Inv, QueuesOK
<1> QED BY <1>1, <1>2, <1>3, ProcessOK, SwitchOK, StartOK DEF Next

\* After start_livestream the first frame shown is a keyframe and nothing after it is
\* missing, with late frames of the previous stream, broken messages and frames that a
\* check rejects in between (_handle_video_frame, start_livestream).
LEMMA FirstIsKeyframe == Inv => KeyframeFirst
  BY DEF Inv, FrameInv

\* Every frame shown bears the codec of the stream, under the two conditions that
\* CodecMatches names (_handle_video_frame, _detect_video_codec).
LEMMA FramesMatchCodec == Inv => CodecMatches
<1> SUFFICES ASSUME Inv,
                    \A i \in 1 .. Len(handled) : handled[i].of = starts + 1,
                    handled # <<>> => handled[1].of \in Declared \/ handled[1].kind = "key",
                    NEW i \in 1 .. Len(shown)
             PROVE  shown[i].codec = Codec[starts + 1]
  BY DEF CodecMatches
<1>1. Len(shown) \in Nat /\ Len(handled) \in Nat /\ Len(handled) >= Len(shown)
  BY LenProperties DEF Inv, FrameInv, FramesOK, KeyframeFirst
<1>2. handled # <<>> /\ 1 \in 1 .. Len(handled)
  BY <1>1, EmptySeq
<1>3. videoCodec = CodecOf(handled[1]) /\ shown[i].codec = videoCodec
  BY <1>2 DEF Inv, FrameInv, CodecInv
<1> QED BY <1>2, <1>3 DEF CodecOf

\* The frames shown can be played: they begin with a keyframe, none is missing after it,
\* and they bear their codec under the conditions named (_handle_video_frame, start_livestream).
THEOREM Playable == Spec => []FramesPlayable
<1>1. Inv => FramesPlayable
  BY FirstIsKeyframe, FramesMatchCodec DEF FramesPlayable
<1> QED BY <1>1, InitOK, StepOK, PTL DEF Spec

-----------------------------------------------------------------------------
(* What a queue of segments parses to.  To say it without recursion, a reading  *)
(* of the queue is a pair of functions: held[k] and out[k] are what is put      *)
(* together, and what has been dispatched, when k segments have been processed. *)

Held == Pending \cup {NoMessage}

\* What one segment makes of what is put together, and of what has been dispatched.
After(p, s) ==
  IF s.head
    THEN IF s.message.total <= 1 THEN p ELSE [message |-> s.message, received |-> 1]
    ELSE IF p = NoMessage \/ Enough(p.received + 1, p.message.total) THEN NoMessage
         ELSE [message |-> WithPart(p.message, s.part), received |-> p.received + 1]

Given(o, p, s) ==
  IF s.head
    THEN IF s.message.total <= 1 THEN Append(o, s.message) ELSE o
    ELSE IF p = NoMessage \/ ~Enough(p.received + 1, p.message.total) THEN o
         ELSE Append(o, WithPart(p.message, s.part))

\* Sequence s is the beginning of t.
Begins(s, t) == Len(s) <= Len(t) /\ \A i \in 1 .. Len(s) : t[i] = s[i]

Reading(held, out, p, o, q, P, O) ==
  /\ held \in [0 .. Len(q) -> Held] /\ out \in [0 .. Len(q) -> Seq(Messages)]
  /\ held[0] = p /\ out[0] = o
  /\ held[Len(q)] = P /\ out[Len(q)] = O
  /\ \A k \in 1 .. Len(q) :
       held[k] = After(held[k - 1], q[k]) /\ out[k] = Given(out[k - 1], held[k - 1], q[k])
  /\ \A k \in 0 .. Len(q) : Begins(out[k], O)

\* Queue q leads from p and o to P and O.
Reads(p, o, q, P, O) == \E held, out : Reading(held, out, p, o, q, P, O)

LEMMA AfterOK ==
  ASSUME NEW p \in Held, NEW s \in Segments
  PROVE  After(p, s) \in Held
<1>1. CASE s.head
  <2>1. s.message \in Messages
    BY <1>1 DEF Segments
  <2>2. [message |-> s.message, received |-> 1] \in Pending
    BY <2>1 DEF Pending
  <2> QED BY <1>1, <2>2 DEF After, Held
<1>2. CASE ~s.head /\ p # NoMessage
  <2>1. p \in Pending
    BY <1>2 DEF Held
  <2>2. p.message \in Messages /\ p.received + 1 \in Nat
    BY <2>1 DEF Pending
  <2>3. s.part \in Nat \X Nat
    BY <1>2 DEF Segments
  <2>4. WithPart(p.message, s.part) \in Messages
    BY <2>2, <2>3, WithPartOK
  <2>5. [message |-> WithPart(p.message, s.part), received |-> p.received + 1] \in Pending
    BY <2>2, <2>4 DEF Pending
  <2> QED BY <1>2, <2>5 DEF After, Held
<1>3. CASE ~s.head /\ p = NoMessage
  BY <1>3 DEF After, Held
<1> QED BY <1>1, <1>2, <1>3

\* A segment adds at most one message.
LEMMA GivenOK ==
  ASSUME NEW p \in Held, NEW s \in Segments, NEW o \in Seq(Messages)
  PROVE  /\ Given(o, p, s) \in Seq(Messages)
         /\ Given(o, p, s) = o \/ \E m \in Messages : Given(o, p, s) = Append(o, m)
<1> SUFFICES Given(o, p, s) = o \/ \E m \in Messages : Given(o, p, s) = Append(o, m)
  BY AppendProperties
<1>1. CASE s.head
  <2>1. s.message \in Messages
    BY <1>1 DEF Segments
  <2> QED BY <1>1, <2>1 DEF Given
<1>2. CASE ~s.head /\ p # NoMessage
  <2>1. p.message \in Messages /\ s.part \in Nat \X Nat
    BY <1>2 DEF Segments, Held, Pending
  <2>2. WithPart(p.message, s.part) \in Messages
    BY <2>1, WithPartOK
  <2> QED BY <1>2, <2>2 DEF Given
<1>3. CASE ~s.head /\ p = NoMessage
  BY <1>3 DEF Given
<1> QED BY <1>1, <1>2, <1>3

LEMMA BeginsAppend ==
  ASSUME NEW o \in Seq(Messages), NEW t \in Seq(Messages), NEW m \in Messages, Begins(o, t)
  PROVE  Begins(o, Append(t, m))
<1>1. Len(o) \in Nat /\ Len(t) \in Nat
  BY LenProperties
<1> QED BY <1>1, AppendElements DEF Begins

\* An empty queue leads nowhere else.
LEMMA ReadsNothing ==
  ASSUME NEW p \in Held, NEW o \in Seq(Messages)
  PROVE  Reads(p, o, <<>>, p, o)
<1> DEFINE held == [k \in 0 .. 0 |-> p]
           out == [k \in 0 .. 0 |-> o]
<1>1. Len(<<>>) = 0 /\ Len(o) \in Nat
  BY EmptySeq, LenProperties
<1>2. held \in [0 .. 0 -> Held] /\ out \in [0 .. 0 -> Seq(Messages)]
  OBVIOUS
<1>3. Begins(o, o)
  BY <1>1 DEF Begins
<1>4. Reading(held, out, p, o, <<>>, p, o)
  BY <1>1, <1>2, <1>3 DEF Reading
<1> QED BY <1>4 DEF Reads

LEMMA ReadsEmpty ==
  ASSUME NEW p, NEW o, NEW P, NEW O, Reads(p, o, <<>>, P, O)
  PROVE  P = p /\ O = o
  BY EmptySeq DEF Reads, Reading

\* One more segment behind the queue.
LEMMA ReadsMore ==
  ASSUME NEW p, NEW o, NEW q \in Seq(Segments), NEW P \in Held, NEW O \in Seq(Messages),
         NEW s \in Segments, Reads(p, o, q, P, O)
  PROVE  Reads(p, o, Append(q, s), After(P, s), Given(O, P, s))
<1> DEFINE n == Len(q)
<1>1. PICK held, out : Reading(held, out, p, o, q, P, O)
  BY DEF Reads
<1> DEFINE held2 == [k \in 0 .. n + 1 |-> IF k <= n THEN held[k] ELSE After(P, s)]
           out2 == [k \in 0 .. n + 1 |-> IF k <= n THEN out[k] ELSE Given(O, P, s)]
           q2 == Append(q, s)
<1>2. /\ n \in Nat /\ Len(q2) = n + 1 /\ q2[n + 1] = s
      /\ \A k \in 1 .. n : q2[k] = q[k]
  BY AppendElements
<1>3. After(P, s) \in Held /\ Given(O, P, s) \in Seq(Messages)
  BY AfterOK, GivenOK
<1>4. held2 \in [0 .. n + 1 -> Held] /\ out2 \in [0 .. n + 1 -> Seq(Messages)]
  BY <1>1, <1>2, <1>3 DEF Reading
<1>5. /\ held2[0] = p /\ out2[0] = o
      /\ held2[n + 1] = After(P, s) /\ out2[n + 1] = Given(O, P, s)
      /\ \A k \in 0 .. n : held2[k] = held[k] /\ out2[k] = out[k]
  BY <1>1, <1>2 DEF Reading
<1>6. held[n] = P /\ out[n] = O
  BY <1>1 DEF Reading
<1> HIDE DEF n, held2, out2, q2
<1>7. ASSUME NEW k \in 1 .. n + 1
      PROVE  /\ held2[k] = After(held2[k - 1], q2[k])
             /\ out2[k] = Given(out2[k - 1], held2[k - 1], q2[k])
  <2>1. CASE k = n + 1
    <3>1. k - 1 = n /\ n \in 0 .. n
      BY <1>2, <2>1
    <3> QED BY <1>2, <1>5, <1>6, <2>1, <3>1
  <2>2. CASE k # n + 1
    <3>1. k \in 1 .. n /\ k \in 0 .. n /\ k - 1 \in 0 .. n
      BY <1>2, <2>2
    <3>2. held[k] = After(held[k - 1], q[k]) /\ out[k] = Given(out[k - 1], held[k - 1], q[k])
      BY <1>1, <3>1 DEF Reading, n
    <3> QED BY <1>2, <1>5, <3>1, <3>2
  <2> QED BY <2>1, <2>2
<1>8. ASSUME NEW k \in 0 .. n + 1
      PROVE  Begins(out2[k], Given(O, P, s))
  <2>1. CASE k = n + 1
    BY <1>3, <1>5, <2>1, LenProperties DEF Begins
  <2>2. CASE k # n + 1
    <3>1. k \in 0 .. n
      BY <1>2, <2>2
    <3>2. Begins(out[k], O) /\ out[k] \in Seq(Messages)
      BY <1>1, <3>1 DEF Reading, n
    <3>3. Begins(out[k], Given(O, P, s))
      BY <3>2, GivenOK, BeginsAppend
    <3> QED BY <1>5, <3>1, <3>3
  <2> QED BY <2>1, <2>2
<1>9. Reading(held2, out2, p, o, q2, After(P, s), Given(O, P, s))
  BY <1>2, <1>4, <1>5, <1>7, <1>8 DEF Reading
<1> QED BY <1>9 DEF Reads, q2

\* The first segment of the queue is processed.
LEMMA ReadsFirst ==
  ASSUME NEW p, NEW o, NEW q \in Seq(Segments), q # <<>>, NEW P, NEW O, Reads(p, o, q, P, O)
  PROVE  /\ Reads(After(p, Head(q)), Given(o, p, Head(q)), Tail(q), P, O)
         /\ Begins(Given(o, p, Head(q)), O)
<1> DEFINE n == Len(Tail(q))
           p1 == After(p, Head(q))
           o1 == Given(o, p, Head(q))
<1>1. PICK held, out : Reading(held, out, p, o, q, P, O)
  BY DEF Reads
<1> DEFINE held2 == [k \in 0 .. n |-> held[k + 1]]
           out2 == [k \in 0 .. n |-> out[k + 1]]
<1>2. /\ n \in Nat /\ Len(q) = n + 1 /\ Head(q) = q[1]
      /\ \A k \in 1 .. n : Tail(q)[k] = q[k + 1]
  <2>1. Len(q) \in Nat \ {0} /\ Len(Tail(q)) = Len(q) - 1
    BY EmptySeq, HeadTailProperties
  <2> QED BY <2>1, HeadTailProperties
<1>3. /\ held \in [0 .. n + 1 -> Held] /\ out \in [0 .. n + 1 -> Seq(Messages)]
      /\ held[0] = p /\ out[0] = o /\ held[n + 1] = P /\ out[n + 1] = O
      /\ \A k \in 1 .. n + 1 :
           held[k] = After(held[k - 1], q[k]) /\ out[k] = Given(out[k - 1], held[k - 1], q[k])
      /\ \A k \in 0 .. n + 1 : Begins(out[k], O)
  BY <1>1, <1>2 DEF Reading
<1>4. held[1] = p1 /\ out[1] = o1
  <2>1. 1 \in 1 .. n + 1 /\ 1 - 1 = 0
    BY <1>2
  <2> QED BY <1>2, <1>3, <2>1
<1>5. held2 \in [0 .. n -> Held] /\ out2 \in [0 .. n -> Seq(Messages)]
  BY <1>2, <1>3
<1>6. \A k \in 0 .. n : held2[k] = held[k + 1] /\ out2[k] = out[k + 1] /\ k + 1 \in 1 .. n + 1
  BY <1>2
<1> HIDE DEF n, p1, o1, held2, out2
<1>7. held2[0] = p1 /\ out2[0] = o1 /\ held2[n] = P /\ out2[n] = O
  BY <1>2, <1>3, <1>4, <1>6
<1>8. ASSUME NEW k \in 1 .. n
      PROVE  /\ held2[k] = After(held2[k - 1], Tail(q)[k])
             /\ out2[k] = Given(out2[k - 1], held2[k - 1], Tail(q)[k])
  <2>1. k \in 0 .. n /\ k - 1 \in 0 .. n /\ (k - 1) + 1 = k /\ (k + 1) - 1 = k /\ k + 1 \in 1 .. n + 1
    BY <1>2
  <2>2. held2[k] = held[k + 1] /\ out2[k] = out[k + 1] /\ held2[k - 1] = held[k]
        /\ out2[k - 1] = out[k] /\ Tail(q)[k] = q[k + 1]
    BY <1>2, <1>6, <2>1
  <2>3. held[k + 1] = After(held[k], q[k + 1]) /\ out[k + 1] = Given(out[k], held[k], q[k + 1])
    BY <1>3, <2>1
  <2> QED BY <2>2, <2>3
<1>9. \A k \in 0 .. n : Begins(out2[k], O)
  BY <1>2, <1>3, <1>6
<1>10. Reading(held2, out2, p1, o1, Tail(q), P, O)
  BY <1>5, <1>7, <1>8, <1>9 DEF Reading, n
<1>11. Begins(o1, O)
  BY <1>2, <1>7, <1>9
<1> QED BY <1>10, <1>11 DEF Reads, p1, o1

-----------------------------------------------------------------------------
(* Messages come out as they were sent: the segments that wait on a channel      *)
(* lead from what this side has to what the station has sent.                   *)

\* What is put together of a message when all that has been sent is processed.
Partial(m) ==
  IF m = NoMessage THEN NoMessage ELSE [message |-> m, received |-> Len(m.parts)]

HistoryOK ==
  /\ complete \in [DataTypes -> Seq(Messages)]
  /\ dispatched \in [DataTypes -> Seq(Messages)]

\* Parts of a message that is being sent are missing.
SendingInv ==
  \A d \in DataTypes : sending[d] # NoMessage => Len(sending[d].parts) < sending[d].total

ParseInv ==
  \A d \in DataTypes :
    Reads(pending[d], dispatched[d], segments[d], Partial(sending[d]), complete[d])

MessageInv == HistoryOK /\ SendingInv /\ ParseInv

LayerStep == [Layer!Next]_(Layer!vars)

LEMMA PartialOK ==
  ASSUME NEW m \in Messages \cup {NoMessage}
  PROVE  /\ Partial(m) \in Held
         /\ Partial(m) = NoMessage <=> m = NoMessage
<1>1. CASE m = NoMessage
  BY <1>1 DEF Partial, Held
<1>2. CASE m # NoMessage
  <2>1. m \in Messages /\ Len(m.parts) \in Nat
    BY <1>2, LenProperties DEF Messages
  <2>2. Partial(m) \in Pending
    BY <1>2, <2>1 DEF Partial, Pending
  <2> QED BY <1>2, <2>2, ReassemblyAssumption DEF Held
<1> QED BY <1>1, <1>2

\* One channel changes and leads on as it did.
LEMMA Elsewhere ==
  ASSUME MessageInv, NEW d \in DataTypes, HistoryOK', SendingInv',
         \A c \in DataTypes \ {d} :
           UNCHANGED <<pending[c], dispatched[c], segments[c], sending[c], complete[c]>>,
         Reads(pending'[d], dispatched'[d], segments'[d], Partial(sending'[d]), complete'[d])
  PROVE  MessageInv'
<1> SUFFICES ASSUME NEW c \in DataTypes
             PROVE  Reads(pending'[c], dispatched'[c], segments'[c], Partial(sending'[c]),
                          complete'[c])
  BY DEF MessageInv, ParseInv
<1>1. CASE c = d
  BY <1>1
<1>2. CASE c # d
  <2>1. Reads(pending[c], dispatched[c], segments[c], Partial(sending[c]), complete[c])
    BY DEF MessageInv, ParseInv
  <2> QED BY <1>2, <2>1
<1> QED BY <1>1, <1>2

LEMMA Untouched ==
  ASSUME MessageInv, UNCHANGED <<sending, complete, segments, pending, dispatched>>
  PROVE  MessageInv' /\ LayerStep
<1>1. UNCHANGED Layer!vars
  BY DEF Layer!vars
<1> QED BY <1>1 DEF MessageInv, HistoryOK, SendingInv, ParseInv, LayerStep

\* The station sends one more segment.
LEMMA Sent ==
  ASSUME QueuesOK, MessageInv, NEW d \in DataTypes, NEW s \in Segments
  PROVE  Reads(pending[d], dispatched[d], Append(segments[d], s),
               After(Partial(sending[d]), s), Given(complete[d], Partial(sending[d]), s))
<1>1. /\ segments[d] \in Seq(Segments) /\ complete[d] \in Seq(Messages)
      /\ sending[d] \in Messages \cup {NoMessage}
  BY DEF QueuesOK, MessageInv, HistoryOK
<1>2. Partial(sending[d]) \in Held
  BY <1>1, PartialOK
<1>3. Reads(pending[d], dispatched[d], segments[d], Partial(sending[d]), complete[d])
  BY DEF MessageInv, ParseInv
<1> QED BY <1>1, <1>2, <1>3, ReadsMore

\* A message is finished: a step of the contract.
LEMMA Finished ==
  ASSUME HistoryOK, NEW d \in DataTypes, NEW m \in Messages,
         complete' = [complete EXCEPT ![d] = Append(@, m)], UNCHANGED dispatched
  PROVE  HistoryOK' /\ LayerStep
<1>1. complete[d] \in Seq(Messages)
  BY DEF HistoryOK
<1>2. /\ Append(complete[d], m) \in Seq(Messages)
      /\ Len(complete[d]) \in Nat /\ Len(Append(complete[d], m)) = Len(complete[d]) + 1
      /\ Append(complete[d], m)[Len(complete[d]) + 1] = m
  BY <1>1, AppendElements
<1>3. HistoryOK' /\ complete'[d] = Append(complete[d], m)
  BY <1>2 DEF HistoryOK
<1>4. complete'[d] # complete[d] /\ complete'[d][Len(complete'[d])] = m
  <2>1. Len(complete[d]) # Len(Append(complete[d], m))
    BY <1>2
  <2>2. Append(complete[d], m)[Len(Append(complete[d], m))] = m
    BY <1>2
  <2> QED BY <1>3, <2>1, <2>2
<1>5. Layer!Finish(d)
  BY <1>4 DEF Layer!Finish
<1> QED BY <1>3, <1>5 DEF LayerStep, Layer!Next

LEMMA ShortSent ==
  ASSUME QueuesOK, MessageInv, NEW d \in DataTypes, NEW total \in Nat, NEW f \in FramesNow,
         SendShort(d, total, f)
  PROVE  MessageInv' /\ LayerStep
<1> DEFINE m == Message(messages, total, f)
           s == HeadSegment(m)
<1>1. m \in Messages /\ m.total = total
  BY MessageOK DEF Message, FramesNow, QueuesOK
<1> HIDE DEF m
<1>2. s \in Segments /\ s.head /\ s.message = m
  BY <1>1, SegmentOK DEF HeadSegment
<1>3. /\ total <= 1
      /\ segments' = [segments EXCEPT ![d] = Append(@, s)]
      /\ complete' = [complete EXCEPT ![d] = Append(@, m)]
      /\ UNCHANGED <<sending, pending, dispatched>>
  BY DEF SendShort, m
<1> HIDE DEF s
<1>4. HistoryOK' /\ SendingInv' /\ LayerStep
  BY <1>1, <1>3, Finished DEF MessageInv, SendingInv
<1>5. /\ After(Partial(sending[d]), s) = Partial(sending[d])
      /\ Given(complete[d], Partial(sending[d]), s) = Append(complete[d], m)
  BY <1>1, <1>2, <1>3 DEF After, Given
<1>6. segments'[d] = Append(segments[d], s) /\ complete'[d] = Append(complete[d], m)
  BY <1>3 DEF QueuesOK, MessageInv, HistoryOK
<1>7. Reads(pending[d], dispatched[d], segments'[d], Partial(sending[d]), complete'[d])
  BY <1>2, <1>5, <1>6, Sent
<1>8. \A c \in DataTypes \ {d} :
        UNCHANGED <<pending[c], dispatched[c], segments[c], sending[c], complete[c]>>
  BY <1>3 DEF QueuesOK, MessageInv, HistoryOK
<1>9. Reads(pending'[d], dispatched'[d], segments'[d], Partial(sending'[d]), complete'[d])
  BY <1>3, <1>7
<1> QED BY <1>4, <1>8, <1>9, Elsewhere

LEMMA LongBegun ==
  ASSUME QueuesOK, MessageInv, NEW d \in DataTypes, NEW total \in Nat, NEW f \in FramesNow,
         BeginLong(d, total, f)
  PROVE  MessageInv' /\ LayerStep
<1> DEFINE m == Message(messages, total, f)
           s == HeadSegment(m)
<1>1. m \in Messages /\ m # NoMessage /\ m.total = total /\ Len(m.parts) = 1
  BY MessageOK, ReassemblyAssumption DEF Message, FramesNow, QueuesOK
<1> HIDE DEF m
<1>2. s \in Segments /\ s.head /\ s.message = m
  BY <1>1, SegmentOK DEF HeadSegment
<1>3. /\ total > 1
      /\ segments' = [segments EXCEPT ![d] = Append(@, s)]
      /\ sending' = [sending EXCEPT ![d] = m]
      /\ UNCHANGED <<complete, pending, dispatched>>
  BY DEF BeginLong, m
<1> HIDE DEF s
<1>4. HistoryOK' /\ LayerStep
  BY <1>3 DEF MessageInv, HistoryOK, LayerStep, Layer!vars
<1>5. SendingInv'
  BY <1>1, <1>3 DEF MessageInv, SendingInv, QueuesOK
<1>6. /\ After(Partial(sending[d]), s) = Partial(m)
      /\ Given(complete[d], Partial(sending[d]), s) = complete[d]
  BY <1>1, <1>2, <1>3 DEF After, Given, Partial
<1>7. segments'[d] = Append(segments[d], s) /\ sending'[d] = m
  BY <1>3 DEF QueuesOK
<1>8. Reads(pending[d], dispatched[d], segments'[d], Partial(sending'[d]), complete[d])
  BY <1>2, <1>6, <1>7, Sent
<1>9. \A c \in DataTypes \ {d} :
        UNCHANGED <<pending[c], dispatched[c], segments[c], sending[c], complete[c]>>
  BY <1>3 DEF QueuesOK, MessageInv, HistoryOK
<1>10. Reads(pending'[d], dispatched'[d], segments'[d], Partial(sending'[d]), complete'[d])
  BY <1>3, <1>8
<1> QED BY <1>4, <1>5, <1>9, <1>10, Elsewhere

\* The padding behind a message leaves everything as it is.
LEMMA LongContinued ==
  ASSUME QueuesOK, MessageInv, NEW d \in DataTypes, NEW padding \in {<<>>, <<Padding>>},
         ContinueLong(d, padding)
  PROVE  MessageInv' /\ LayerStep
<1> DEFINE old == sending[d]
           part == <<old.id, Len(old.parts) + 1>>
           m == WithPart(old, part)
           s == TailSegment(part)
           last == Len(m.parts) = m.total
<1>1. /\ old \in Messages /\ old # NoMessage /\ Len(old.parts) < old.total
      /\ segments[d] \in Seq(Segments) /\ complete[d] \in Seq(Messages)
  BY DEF ContinueLong, QueuesOK, MessageInv, SendingInv, HistoryOK
<1>2. /\ old.id \in Nat /\ old.parts \in Seq(Nat \X Nat) /\ old.total \in Nat
      /\ Len(old.parts) \in Nat
  BY <1>1, LenProperties DEF Messages
<1>3. part \in Nat \X Nat
  BY <1>2
<1>4. /\ padding # <<>> => last
      /\ segments' = [segments EXCEPT ![d] = Append(@, s) \o padding]
      /\ sending' = [sending EXCEPT ![d] = IF last THEN NoMessage ELSE m]
      /\ complete' = IF last THEN [complete EXCEPT ![d] = Append(@, m)] ELSE complete
      /\ UNCHANGED <<pending, dispatched>>
  BY DEF ContinueLong
<1> HIDE DEF part
<1>5. m \in Messages /\ m # NoMessage
  BY <1>1, <1>3, WithPartOK, ReassemblyAssumption
<1>6. m.total = old.total /\ Len(m.parts) = Len(old.parts) + 1
  <2>1. m.parts = Append(old.parts, part) /\ m.total = old.total
    BY <1>1 DEF WithPart, Messages
  <2> QED BY <1>2, <1>3, <2>1, AppendProperties
<1>7. s \in Segments /\ ~s.head /\ s.part = part
  BY <1>3, SegmentOK DEF TailSegment
<1> HIDE DEF s
<1>8. /\ Partial(old) = [message |-> old, received |-> Len(old.parts)]
      /\ Partial(old) # NoMessage
  BY <1>1, PartialOK DEF Partial
<1>9. /\ Partial(old).message = old /\ Partial(old).received = Len(old.parts)
      /\ Enough(Partial(old).received + 1, Partial(old).message.total) <=> last
  BY <1>1, <1>2, <1>6, <1>8 DEF Enough
<1>10. /\ After(Partial(old), s) = Partial(sending'[d])
       /\ Given(complete[d], Partial(old), s) = complete'[d]
  <2>1. sending'[d] = IF last THEN NoMessage ELSE m
    BY <1>4 DEF QueuesOK
  <2>2. complete'[d] = IF last THEN Append(complete[d], m) ELSE complete[d]
    BY <1>4 DEF MessageInv, HistoryOK
  <2>3. Partial(m) = [message |-> m, received |-> Len(old.parts) + 1]
    BY <1>5, <1>6 DEF Partial
  <2>4. CASE last
    BY <1>7, <1>8, <1>9, <2>1, <2>2, <2>4 DEF After, Given, Partial
  <2>5. CASE ~last
    BY <1>7, <1>8, <1>9, <2>1, <2>2, <2>3, <2>5 DEF After, Given
  <2> QED BY <2>4, <2>5
<1> HIDE DEF m
<1>11. HistoryOK' /\ LayerStep
  <2>1. CASE last
    BY <1>4, <1>5, <2>1, Finished DEF MessageInv
  <2>2. CASE ~last
    BY <1>4, <2>2 DEF MessageInv, HistoryOK, LayerStep, Layer!vars
  <2> QED BY <2>1, <2>2
<1>12. SendingInv'
  <2> SUFFICES ASSUME NEW c \in DataTypes, sending'[c] # NoMessage
               PROVE  Len(sending'[c].parts) < sending'[c].total
    BY DEF SendingInv
  <2>1. CASE c = d
    <3>1. ~last /\ sending'[d] = m
      BY <1>4, <2>1 DEF QueuesOK
    <3> QED BY <1>1, <1>2, <1>6, <2>1, <3>1
  <2>2. CASE c # d
    BY <1>4, <2>2 DEF QueuesOK, MessageInv, SendingInv
  <2> QED BY <2>1, <2>2
<1>13. Reads(pending[d], dispatched[d], Append(segments[d], s), Partial(sending'[d]), complete'[d])
  BY <1>7, <1>10, Sent
<1>14. Append(segments[d], s) \in Seq(Segments) /\ segments'[d] = Append(segments[d], s) \o padding
  BY <1>1, <1>4, <1>7, AppendProperties DEF QueuesOK
<1>15. Reads(pending[d], dispatched[d], segments'[d], Partial(sending'[d]), complete'[d])
  <2>1. CASE padding = <<>>
    <3>1. segments'[d] = Append(segments[d], s)
      BY <1>14, <2>1
    <3> QED BY <1>13, <3>1
  <2>2. CASE padding = <<Padding>>
    <3>1. last
      BY <1>4, <2>2
    <3>2. Partial(sending'[d]) = NoMessage
      BY <1>4, <3>1 DEF QueuesOK, Partial
    <3>3. segments'[d] = Append(Append(segments[d], s), Padding)
      BY <1>14, <2>2
    <3>4. Padding \in Segments /\ ~Padding.head
      BY SegmentOK, ReassemblyAssumption DEF Padding, TailSegment
    <3>5. /\ After(NoMessage, Padding) = NoMessage
          /\ Given(complete'[d], NoMessage, Padding) = complete'[d]
      BY <3>4 DEF After, Given
    <3>6. NoMessage \in Held /\ complete'[d] \in Seq(Messages)
      BY <1>11 DEF Held, HistoryOK
    <3>7. Reads(pending[d], dispatched[d], Append(Append(segments[d], s), Padding),
                After(NoMessage, Padding), Given(complete'[d], NoMessage, Padding))
      BY <1>13, <1>14, <3>2, <3>4, <3>6, ReadsMore
    <3> QED BY <3>2, <3>3, <3>5, <3>7
  <2> QED BY <2>1, <2>2
<1>16. \A c \in DataTypes \ {d} :
         UNCHANGED <<pending[c], dispatched[c], segments[c], sending[c], complete[c]>>
  BY <1>4 DEF QueuesOK, MessageInv, HistoryOK
<1>17. Reads(pending'[d], dispatched'[d], segments'[d], Partial(sending'[d]), complete'[d])
  BY <1>4, <1>15
<1> QED BY <1>11, <1>12, <1>16, <1>17, Elsewhere

\* Processing a segment does what After and Given say.
LEMMA Processed ==
  ASSUME QueuesOK, HistoryOK, NEW d \in DataTypes, ProcessDataSegment(d)
  PROVE  /\ segments[d] # <<>>
         /\ segments' = [segments EXCEPT ![d] = Tail(@)]
         /\ pending' = [pending EXCEPT ![d] = After(@, Head(segments[d]))]
         /\ dispatched' = [dispatched EXCEPT ![d] = Given(@, pending[d], Head(segments[d]))]
         /\ UNCHANGED <<sending, complete>>
<1>1. segments[d] # <<>> /\ Taken(d) /\ UNCHANGED <<sending, complete>>
  BY DEF ProcessDataSegment, ProcessShort, ProcessHead, ProcessStray, ProcessPart, stationVars
<1> DEFINE s == First(d)
           p == pending[d]
<1> SUFFICES /\ pending' = [pending EXCEPT ![d] = After(p, s)]
             /\ dispatched' = [dispatched EXCEPT ![d] = Given(dispatched[d], p, s)]
  BY <1>1 DEF Taken, First
<1>2. s \in Segments
  BY <1>1, TakenOK
<1>3. /\ pending = [pending EXCEPT ![d] = p]
      /\ dispatched = [dispatched EXCEPT ![d] = dispatched[d]]
  BY DEF QueuesOK, HistoryOK
<1>4. CASE ProcessShort(d)
  <2>1. s.head /\ s.message.total <= 1 /\ pending' = pending
        /\ dispatched' = [dispatched EXCEPT ![d] = Append(dispatched[d], s.message)]
    BY <1>4 DEF ProcessShort, DispatchMessage
  <2> QED BY <1>3, <2>1 DEF After, Given
<1>5. CASE ProcessHead(d)
  <2>1. s.head /\ s.message.total > 1 /\ dispatched' = dispatched
        /\ pending' = [pending EXCEPT ![d] = [message |-> s.message, received |-> 1]]
    BY <1>5 DEF ProcessHead
  <2>2. s.message.total \in Nat
    BY <1>2, <2>1 DEF Segments, Messages
  <2>3. ~(s.message.total <= 1)
    BY <2>1, <2>2
  <2> QED BY <1>3, <2>1, <2>3 DEF After, Given
<1>6. CASE ProcessStray(d)
  <2>1. ~s.head /\ p = NoMessage /\ UNCHANGED <<pending, dispatched>>
    BY <1>6 DEF ProcessStray
  <2> QED BY <1>3, <2>1 DEF After, Given
<1>7. CASE ProcessPart(d)
  <2>1. ~s.head /\ p # NoMessage
    BY <1>7 DEF ProcessPart
  <2>2. /\ Extended(d).message = WithPart(p.message, s.part)
        /\ Extended(d).received = p.received + 1
        /\ Extended(d) = [message |-> WithPart(p.message, s.part), received |-> p.received + 1]
        /\ WithPart(p.message, s.part).total = p.message.total
    <3>1. p.message \in Messages
      BY <2>1 DEF QueuesOK, Pending
    <3> QED BY <3>1 DEF Extended, WithPart, Messages
  <2>3. CASE Enough(p.received + 1, p.message.total)
    <3>1. /\ pending' = [pending EXCEPT ![d] = NoMessage]
          /\ dispatched' = [dispatched EXCEPT ![d] =
                              Append(dispatched[d], WithPart(p.message, s.part))]
      BY <1>7, <2>2, <2>3 DEF ProcessPart, DispatchMessage
    <3> QED BY <2>1, <2>3, <3>1 DEF After, Given
  <2>4. CASE ~Enough(p.received + 1, p.message.total)
    <3>1. pending' = [pending EXCEPT ![d] = Extended(d)] /\ dispatched' = dispatched
      BY <1>7, <2>2, <2>4 DEF ProcessPart
    <3> QED BY <1>3, <2>1, <2>2, <2>4, <3>1 DEF After, Given
  <2> QED BY <2>3, <2>4
<1> QED BY <1>4, <1>5, <1>6, <1>7 DEF ProcessDataSegment

\* A dispatched message is the next of those the station finished.
LEMMA SegmentProcessed ==
  ASSUME QueuesOK, MessageInv, NEW d \in DataTypes, ProcessDataSegment(d)
  PROVE  MessageInv' /\ LayerStep
<1> DEFINE s == Head(segments[d])
           o == dispatched[d]
           g == Given(o, pending[d], s)
<1>1. /\ segments[d] # <<>>
      /\ segments' = [segments EXCEPT ![d] = Tail(@)]
      /\ pending' = [pending EXCEPT ![d] = After(@, s)]
      /\ dispatched' = [dispatched EXCEPT ![d] = g]
      /\ UNCHANGED <<sending, complete>>
  BY Processed DEF MessageInv
<1>2. /\ segments[d] \in Seq(Segments) /\ pending[d] \in Held
      /\ o \in Seq(Messages) /\ complete[d] \in Seq(Messages)
  BY DEF QueuesOK, Held, MessageInv, HistoryOK
<1>3. s \in Segments
  BY <1>1, <1>2, HeadTailProperties
<1>4. Reads(pending[d], o, segments[d], Partial(sending[d]), complete[d])
  BY DEF MessageInv, ParseInv
<1>5. /\ Reads(After(pending[d], s), g, Tail(segments[d]), Partial(sending[d]), complete[d])
      /\ Begins(g, complete[d])
  BY <1>1, <1>2, <1>4, ReadsFirst
<1>6. g \in Seq(Messages) /\ (g = o \/ \E m \in Messages : g = Append(o, m))
  BY <1>2, <1>3, GivenOK
<1> HIDE DEF s, g
<1>7. /\ segments'[d] = Tail(segments[d]) /\ pending'[d] = After(pending[d], s)
      /\ dispatched'[d] = g
      /\ \A c \in DataTypes \ {d} :
           UNCHANGED <<pending[c], dispatched[c], segments[c], sending[c], complete[c]>>
  BY <1>1 DEF QueuesOK, MessageInv, HistoryOK
<1>8. HistoryOK' /\ SendingInv'
  BY <1>1, <1>6 DEF MessageInv, HistoryOK, SendingInv
<1>9. Reads(pending'[d], dispatched'[d], segments'[d], Partial(sending'[d]), complete'[d])
  BY <1>1, <1>5, <1>7
<1>10. LayerStep
  <2>1. CASE g = o
    <3>1. UNCHANGED Layer!vars
      BY <1>1, <2>1 DEF MessageInv, HistoryOK, Layer!vars
    <3> QED BY <3>1 DEF LayerStep
  <2>2. ASSUME NEW m \in Messages, g = Append(o, m)
        PROVE  LayerStep
    <3>1. Len(o) \in Nat /\ Len(complete[d]) \in Nat /\ Len(g) = Len(o) + 1 /\ g[Len(o) + 1] = m
      BY <1>2, <2>2, AppendElements, LenProperties
    <3>2. Len(o) < Len(complete[d]) /\ complete[d][Len(o) + 1] = m
      BY <1>5, <3>1 DEF Begins
    <3>3. Layer!Dispatch(d)
      BY <1>1, <2>2, <3>2 DEF Layer!Dispatch
    <3> QED BY <3>3 DEF LayerStep, Layer!Next
  <2> QED BY <1>6, <2>1, <2>2
<1> QED BY <1>7, <1>8, <1>9, <1>10, Elsewhere

LEMMA MessageInit == Init => MessageInv /\ Layer!Init
<1> SUFFICES ASSUME Init PROVE MessageInv /\ Layer!Init
  OBVIOUS
<1>1. <<>> \in Seq(Messages) /\ NoMessage \in Held
  BY EmptySeq DEF Held
<1>2. Layer!Init
  BY DEF Init, Layer!Init
<1>3. HistoryOK /\ SendingInv
  BY <1>1 DEF Init, HistoryOK, SendingInv
<1>4. ParseInv
  <2> SUFFICES ASSUME NEW d \in DataTypes
               PROVE  Reads(pending[d], dispatched[d], segments[d], Partial(sending[d]),
                            complete[d])
    BY DEF ParseInv
  <2>1. /\ pending[d] = NoMessage /\ dispatched[d] = <<>> /\ segments[d] = <<>>
        /\ Partial(sending[d]) = NoMessage /\ complete[d] = <<>>
    BY DEF Init, Partial
  <2>2. Reads(NoMessage, <<>>, <<>>, NoMessage, <<>>)
    BY <1>1, ReadsNothing
  <2> QED BY <2>1, <2>2
<1> QED BY <1>2, <1>3, <1>4 DEF MessageInv

LEMMA MessageStep == Inv /\ MessageInv /\ [Next]_vars => MessageInv' /\ LayerStep
<1> SUFFICES ASSUME Inv, MessageInv, [Next]_vars PROVE MessageInv' /\ LayerStep
  OBVIOUS
<1>1. ASSUME NEW d \in DataTypes, NEW total \in 0 .. MaxTotal, NEW f \in FramesNow,
             SendShort(d, total, f) \/ BeginLong(d, total, f)
      PROVE  MessageInv' /\ LayerStep
  <2>1. total \in Nat
    OBVIOUS
  <2> QED BY <1>1, <2>1, ShortSent, LongBegun DEF Inv
<1>2. ASSUME NEW d \in DataTypes, NEW padding \in {<<>>, <<Padding>>}, ContinueLong(d, padding)
      PROVE  MessageInv' /\ LayerStep
  BY <1>2, LongContinued DEF Inv
<1>3. ASSUME NEW d \in DataTypes, ProcessDataSegment(d)
      PROVE  MessageInv' /\ LayerStep
  BY <1>3, SegmentProcessed DEF Inv
<1>4. CASE SwitchStream \/ StartLivestream \/ UNCHANGED vars
  BY <1>4, Untouched DEF SwitchStream, StartLivestream, vars, stationVars
<1> QED BY <1>1, <1>2, <1>3, <1>4 DEF Next

\* The message layer implements MessageChannel: on every channel the messages the
\* station finished are dispatched once each, in order, each with its own segments
\* (_process_data_segment).
THEOREM MessagesImplement == Spec => MessagesInOrder
<1>1. Inv /\ MessageInv /\ [Next]_vars => [Layer!Next]_(Layer!vars)
  BY MessageStep DEF LayerStep
<1>2. Inv /\ MessageInv /\ [Next]_vars => MessageInv'
  BY MessageStep
<1>3. Init => MessageInv /\ Layer!Init
  BY MessageInit
<1> QED BY <1>1, <1>2, <1>3, InitOK, StepOK, PTL DEF Spec, MessagesInOrder, Layer!Spec

\* Nothing is left to wait on a channel whose segments are all processed: what the
\* station finished has been dispatched, and the entries of _reassembly are gone unless
\* it is in the middle of a message (_process_data_segment).
THEOREM NothingKept == Spec => []NothingHeldBack
<1>1. Inv /\ MessageInv => NothingHeldBack
  <2> SUFFICES ASSUME Inv, MessageInv, NEW d \in DataTypes, segments[d] = <<>>
               PROVE  /\ dispatched[d] = complete[d]
                      /\ sending[d] = NoMessage => pending[d] = NoMessage
    BY DEF NothingHeldBack
  <2>1. Reads(pending[d], dispatched[d], <<>>, Partial(sending[d]), complete[d])
    BY DEF MessageInv, ParseInv
  <2>2. Partial(sending[d]) = pending[d] /\ complete[d] = dispatched[d]
    BY <2>1, ReadsEmpty
  <2> QED BY <2>2 DEF Partial
<1>2. Inv /\ MessageInv /\ [Next]_vars => MessageInv'
  BY MessageStep
<1>3. Init => MessageInv
  BY MessageInit
<1> QED BY <1>1, <1>2, <1>3, InitOK, StepOK, PTL DEF Spec
=============================================================================
