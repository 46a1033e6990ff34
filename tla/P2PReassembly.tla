----------------------------- MODULE P2PReassembly -----------------------------
(***************************************************************************)
(* The message layer of a P2P session (lib/p2p/session.py), above          *)
(* P2PReceiver and below the commands and the camera:                      *)
(*   _process_data_segment, which puts multi-part messages together,       *)
(*   _dispatch_message and the handlers of the VIDEO channel, which hand   *)
(*   frames to the stream callback,                                        *)
(*   the part of start_livestream that starts the frame state afresh.      *)
(*                                                                         *)
(* Segments arrive in order and once each: that is what P2PReceiver        *)
(* implements (FifoChannel), so a channel is a queue here.  The station is *)
(* external.  It may send a short message between the segments of a long   *)
(* one, give a long one up and begin another, and send padding after a     *)
(* message.                                                                *)
(*                                                                         *)
(* Lengths are counted in segments.  A segment that begins with MAGIC_WORD *)
(* is a head and announces the length of its message; a payload that       *)
(* happens to begin with it is left out.  The handlers of the other        *)
(* channels are in P2PSession (gateway info) and P2PCommand (results).     *)
(***************************************************************************)
EXTENDS Integers, Sequences

CONSTANTS
  DataTypes,        \* channels, P2PDataType
  VIDEO,            \* the channel of the frames
  NoMessage,        \* no message is being sent, or put together
  Codec,            \* [1..n -> codecs]: the codec of the station's i-th stream
  Declared,         \* the streams whose frames have a stream_type of 1 or 2
  UNKNOWN,          \* VideoCodec.UNKNOWN, AudioCodec.UNKNOWN
  DefaultCodec,     \* what _detect_video_codec returns when it recognises nothing
  MaxTotal,         \* bound: length of a message
  MaxMessages,      \* bound: messages the station sends
  MaxQueue          \* bound: segments waiting on a channel

Codecs == {Codec[i] : i \in DOMAIN Codec}
MaxStarts == Len(Codec) - 1     \* bound: calls of start_livestream

\* A video frame: a keyframe, another one, or one that a check on its header,
\* its decryption or its size rejects; and the stream it is of.
Frame == [kind : {"key", "delta", "rejected"}, of : 1 .. Len(Codec)]

\* A message: its number, the length in its header, its parts so far and the
\* frame it carries; and what is put together of one.
Messages == [id : Nat, total : Nat, parts : Seq(Nat \X Nat), frame : Frame]
Pending == [message : Messages, received : Nat]

ASSUME ReassemblyAssumption ==
  /\ VIDEO \in DataTypes
  /\ Codec \in Seq(Codecs) /\ Codec # <<>>
  /\ Declared \subseteq DOMAIN Codec
  /\ UNKNOWN \notin Codecs
  /\ DefaultCodec \in Codecs
  /\ MaxTotal \in Nat
  /\ MaxMessages \in Nat
  /\ MaxQueue \in Nat
  /\ NoMessage \notin Messages \cup Pending

VARIABLES
  messages,     \* station: messages begun
  stream,       \* station: the stream whose frames it sends
  sending,      \* station: [DataTypes -> the long message being sent, or NoMessage]
  complete,     \* history: messages whose last segment has been sent, per channel
  segments,     \* segments handed over by P2PReceiver and not yet processed
  pending,      \* _reassembly_total, _reassembly_received, _reassembly[1000 + d] and
                \* _reassembly[2000 + d], which are set and deleted together
  dispatched,   \* history: messages given to _dispatch_message
  starts,       \* calls of start_livestream so far
  gotKeyframe,  \* _got_keyframe
  videoCodec,   \* _video_codec
  handled,      \* history: video frames past the checks, since the last start
  shown         \* history: video frames given to _on_stream_data since then

stationVars == <<messages, stream, sending, complete>>
frameVars == <<starts, gotKeyframe, videoCodec, handled, shown>>
vars == <<stationVars, segments, pending, dispatched, frameVars>>

FramesNow == {f \in Frame : f.of = stream}

\* The head of message number id, whose k-th part is <<id, k>>.
Message(id, total, frame) ==
  [id |-> id, total |-> total, parts |-> <<<<id, 1>>>>, frame |-> frame]

WithPart(m, part) == [m EXCEPT !.parts = Append(@, part)]

HeadSegment(m) == [head |-> TRUE, message |-> m]
TailSegment(part) == [head |-> FALSE, part |-> part]

Init ==
  /\ messages = 0
  /\ stream = 1
  /\ sending = [d \in DataTypes |-> NoMessage]
  /\ complete = [d \in DataTypes |-> <<>>]
  /\ segments = [d \in DataTypes |-> <<>>]
  /\ pending = [d \in DataTypes |-> NoMessage]
  /\ dispatched = [d \in DataTypes |-> <<>>]
  /\ starts = 0
  /\ gotKeyframe = FALSE
  /\ videoCodec = UNKNOWN
  /\ handled = <<>>
  /\ shown = <<>>

-----------------------------------------------------------------------------
(* The station. *)

Room(d) == Len(segments[d]) < MaxQueue

\* A message that fits in one segment (total = 0: the segment is padded), at any
\* moment: also while a long one is being sent on the channel.
SendShort(d, total, f) ==
  /\ messages < MaxMessages
  /\ Room(d)
  /\ total <= 1
  /\ LET m == Message(messages, total, f) IN
       /\ segments' = [segments EXCEPT ![d] = Append(@, HeadSegment(m))]
       /\ complete' = [complete EXCEPT ![d] = Append(@, m)]
  /\ messages' = messages + 1
  /\ UNCHANGED <<stream, sending, pending, dispatched, frameVars>>

\* The first segment of a long message; one that was being sent is given up.
BeginLong(d, total, f) ==
  /\ messages < MaxMessages
  /\ Room(d)
  /\ total > 1
  /\ LET m == Message(messages, total, f) IN
       /\ segments' = [segments EXCEPT ![d] = Append(@, HeadSegment(m))]
       /\ sending' = [sending EXCEPT ![d] = m]
  /\ messages' = messages + 1
  /\ UNCHANGED <<stream, complete, pending, dispatched, frameVars>>

\* Another segment of the long message, and after the last one perhaps a
\* segment of padding.
ContinueLong(d, padding) ==
  /\ sending[d] # NoMessage
  /\ Room(d)
  /\ LET part == <<sending[d].id, Len(sending[d].parts) + 1>>
         m == WithPart(sending[d], part)
         last == Len(m.parts) = m.total IN
       /\ padding # <<>> => last
       /\ segments' = [segments EXCEPT ![d] = Append(@, TailSegment(part)) \o padding]
       /\ sending' = [sending EXCEPT ![d] = IF last THEN NoMessage ELSE m]
       /\ complete' = IF last THEN [complete EXCEPT ![d] = Append(@, m)] ELSE complete
  /\ UNCHANGED <<messages, stream, pending, dispatched, frameVars>>

Padding == TailSegment(<<MaxMessages, 0>>)

\* A start command has reached the station: its next frames are of a new stream.
SwitchStream ==
  /\ stream <= starts
  /\ stream' = stream + 1
  /\ UNCHANGED <<messages, sending, complete, segments, pending, dispatched, frameVars>>

-----------------------------------------------------------------------------
(* The handlers of frames: they have no await. *)

\* stream_type when it is 1 or 2; otherwise _detect_video_codec, which looks for
\* parameter sets, and those come with keyframes only.
CodecOf(f) ==
  IF f.of \in Declared \/ f.kind = "key" THEN Codec[f.of] ELSE DefaultCodec

\* Mutant: the gate is opened by any frame.
MutantHandleVideoFrame(f) ==
  IF f.kind = "rejected"
    THEN UNCHANGED <<gotKeyframe, videoCodec, handled, shown>>
    ELSE /\ handled' = Append(handled, f)
         /\ videoCodec' = IF videoCodec = UNKNOWN THEN CodecOf(f) ELSE videoCodec
         /\ gotKeyframe' = TRUE
         /\ shown' = Append(shown, [frame |-> f, codec |-> videoCodec'])

\* The codec is settled by the first frame, keyframe or not; nothing is shown
\* before a keyframe.
HandleVideoFrame(f) ==
  IF f.kind = "rejected"
    THEN UNCHANGED <<gotKeyframe, videoCodec, handled, shown>>
    ELSE /\ handled' = Append(handled, f)
         /\ videoCodec' = IF videoCodec = UNKNOWN THEN CodecOf(f) ELSE videoCodec
         /\ gotKeyframe' = (gotKeyframe \/ f.kind = "key")
         /\ shown' = IF gotKeyframe'
                       THEN Append(shown, [frame |-> f, codec |-> videoCodec'])
                       ELSE shown

DispatchMessage(d, m) ==
  /\ dispatched' = [dispatched EXCEPT ![d] = Append(@, m)]
  /\ UNCHANGED starts
  /\ IF d = VIDEO THEN HandleVideoFrame(m.frame)
                  ELSE UNCHANGED <<gotKeyframe, videoCodec, handled, shown>>

-----------------------------------------------------------------------------
(* _process_data_segment on the first segment of a channel. *)

First(d) == Head(segments[d])
Taken(d) == segments' = [segments EXCEPT ![d] = Tail(@)]

\* A whole message in one segment.  What is being put together is left alone.
ProcessShort(d) ==
  /\ segments[d] # <<>>
  /\ First(d).head
  /\ First(d).message.total <= 1
  /\ Taken(d)
  /\ DispatchMessage(d, First(d).message)
  /\ UNCHANGED <<stationVars, pending>>

\* The first part of a long message takes the place of whatever was begun.
ProcessHead(d) ==
  /\ segments[d] # <<>>
  /\ First(d).head
  /\ First(d).message.total > 1
  /\ Taken(d)
  /\ pending' = [pending EXCEPT ![d] =
                   [message |-> First(d).message, received |-> 1]]
  /\ UNCHANGED <<stationVars, dispatched, frameVars>>

\* A segment without a header when nothing is being put together is dropped.
ProcessStray(d) ==
  /\ segments[d] # <<>>
  /\ ~First(d).head
  /\ pending[d] = NoMessage
  /\ Taken(d)
  /\ UNCHANGED <<stationVars, pending, dispatched, frameVars>>

\* Mutant: an announced length reached exactly does not count.
MutantEnough(received, total) == received > total
Enough(received, total) == received >= total

Extended(d) ==
  [message |-> WithPart(pending[d].message, First(d).part),
   received |-> pending[d].received + 1]

\* Mutant: the entries are not deleted.
MutantProcessPart(d) ==
  /\ segments[d] # <<>>
  /\ ~First(d).head
  /\ pending[d] # NoMessage
  /\ Taken(d)
  /\ pending' = [pending EXCEPT ![d] = Extended(d)]
  /\ IF Enough(Extended(d).received, Extended(d).message.total)
       THEN DispatchMessage(d, Extended(d).message)
       ELSE UNCHANGED <<dispatched, frameVars>>
  /\ UNCHANGED stationVars

\* Another part; the entries are deleted before the message is dispatched.
ProcessPart(d) ==
  /\ segments[d] # <<>>
  /\ ~First(d).head
  /\ pending[d] # NoMessage
  /\ Taken(d)
  /\ LET p == Extended(d) IN
       IF Enough(p.received, p.message.total)
         THEN /\ pending' = [pending EXCEPT ![d] = NoMessage]
              /\ DispatchMessage(d, p.message)
         ELSE /\ pending' = [pending EXCEPT ![d] = p]
              /\ UNCHANGED <<dispatched, frameVars>>
  /\ UNCHANGED stationVars

-----------------------------------------------------------------------------
\* start_livestream, up to its await: the frame state is reset before the
\* command is sent, while frames of the previous stream may still come in.
StartLivestream ==
  /\ starts < MaxStarts
  /\ starts' = starts + 1
  /\ gotKeyframe' = FALSE
  /\ videoCodec' = UNKNOWN
  /\ handled' = <<>>
  /\ shown' = <<>>
  /\ UNCHANGED <<stationVars, segments, pending, dispatched>>

ProcessDataSegment(d) ==
  ProcessShort(d) \/ ProcessHead(d) \/ ProcessStray(d) \/ ProcessPart(d)

Next ==
  \/ \E d \in DataTypes :
       \/ \E total \in 0 .. MaxTotal, f \in FramesNow :
            \/ SendShort(d, total, f)
            \/ BeginLong(d, total, f)
       \/ \E padding \in {<<>>, <<Padding>>} : ContinueLong(d, padding)
       \/ ProcessDataSegment(d)
  \/ SwitchStream
  \/ StartLivestream

Spec == Init /\ [][Next]_vars

-----------------------------------------------------------------------------
\* Messages are dispatched once each, in the order in which the station
\* finished them, and made of their own segments only, whatever short messages
\* and abandoned ones come in between (_process_data_segment).
Layer == INSTANCE MessageChannel
MessagesInOrder == Layer!Spec

\* When all that has come in is processed, every message the station has finished
\* has been dispatched, and nothing of another one is kept unless the station is in
\* the middle of it: no remainder waits for the parts of the next message
\* (_process_data_segment, the entries of _reassembly and their deletion).
NothingHeldBack ==
  \A d \in DataTypes : segments[d] = <<>> =>
    /\ dispatched[d] = complete[d]
    /\ sending[d] = NoMessage => pending[d] = NoMessage

\* After start_livestream the first frame shown is a keyframe, so a decoder can
\* begin ("Wait for keyframe before streaming", _handle_video_frame), and every
\* frame from then on is shown: none is missing between two others.
KeyframeFirst ==
  /\ shown # <<>> => shown[1].frame.kind = "key"
  /\ \E k \in 0 .. Len(handled) :
       /\ Len(shown) = Len(handled) - k
       /\ \A i \in 1 .. Len(shown) : shown[i].frame = handled[k + i]
       /\ \A i \in 1 .. k : handled[i].kind # "key"

\* Frames are labelled with the codec they are in, provided no frame of an
\* earlier stream came in after start_livestream had reset the codec and the
\* first frame either declares its codec or is a keyframe.
CodecMatches ==
  /\ \A i \in 1 .. Len(handled) : handled[i].of = starts + 1
  /\ handled # <<>> => handled[1].of \in Declared \/ handled[1].kind = "key"
  => \A i \in 1 .. Len(shown) : shown[i].codec = Codec[starts + 1]

\* A decoder that is set up for the first frame shown can play all of them.
FramesPlayable == KeyframeFirst /\ CodecMatches
=============================================================================
