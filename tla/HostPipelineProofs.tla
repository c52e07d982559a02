------------------------- MODULE HostPipelineProofs -------------------------
(***************************************************************************)
(* Proofs about the three threads of the host: the frames between them are *)
(* a queue, the threads implement the feed of HostFeed on it, frames reach *)
(* each client in order, and a delta reaches it on the screen it is        *)
(* relative to.                                                            *)
(***************************************************************************)
EXTENDS HostPipelineFeed, TilesProofs, SequenceTheorems

-----------------------------------------------------------------------------
(* Queues of three parts. *)

\* Their length and elements.
LEMMA QueueOf ==
  ASSUME NEW S, NEW a \in Seq(S), NEW b \in Seq(S), NEW c \in Seq(S)
  PROVE  /\ a \o b \o c \in Seq(S) /\ Len(a \o b \o c) = Len(a) + Len(b) + Len(c)
         /\ \A k \in 1 .. Len(a) + Len(b) + Len(c) :
              (a \o b \o c)[k] = IF k <= Len(a) THEN a[k]
                                 ELSE IF k <= Len(a) + Len(b) THEN b[k - Len(a)]
                                 ELSE c[k - Len(a) - Len(b)]
  <1>1. /\ a \o b \in Seq(S) /\ Len(a \o b) = Len(a) + Len(b)
        /\ \A k \in 1 .. Len(a) + Len(b) : (a \o b)[k] = IF k <= Len(a) THEN a[k] ELSE b[k - Len(a)]
    BY ConcatProperties
  <1>2. /\ a \o b \o c \in Seq(S) /\ Len(a \o b \o c) = Len(a \o b) + Len(c)
        /\ \A k \in 1 .. Len(a \o b) + Len(c) :
              (a \o b \o c)[k] = IF k <= Len(a \o b) THEN (a \o b)[k] ELSE c[k - Len(a \o b)]
    BY <1>1, ConcatProperties
  <1>3. Len(a) \in Nat /\ Len(b) \in Nat /\ Len(c) \in Nat
    BY LenProperties
  <1>. QED BY <1>1, <1>2, <1>3

\* A sequence of one.
LEMMA Single ==
  ASSUME NEW S, NEW x \in S
  PROVE  <<x>> \in Seq(S) /\ Len(<<x>>) = 1 /\ <<x>>[1] = x
  OBVIOUS

\* One more at the end.
LEMMA QueueAppend ==
  ASSUME NEW S, NEW a \in Seq(S), NEW b \in Seq(S), NEW x \in S
  PROVE  a \o b \o <<x>> = Append(a \o b \o <<>>, x)
  <1>1. a \o b \in Seq(S)
    BY ConcatProperties
  <1>. QED BY <1>1, ConcatEmptySeq, AppendIsConcat

\* It moves from the third part to the second.
LEMMA QueueMove ==
  ASSUME NEW S, NEW a \in Seq(S), NEW b \in Seq(S), NEW x \in S
  PROVE  a \o Append(b, x) \o <<>> = a \o b \o <<x>>
  <1>1. Append(b, x) = b \o <<x>> /\ <<x>> \in Seq(S)
    BY AppendIsConcat, Single
  <1>2. a \o (b \o <<x>>) \in Seq(S)
    BY <1>1, ConcatProperties
  <1>. QED BY <1>1, <1>2, ConcatEmptySeq, ConcatAssociative

\* The oldest moves from the second part to the first.
LEMMA QueueReceive ==
  ASSUME NEW S, NEW b \in Seq(S), NEW c \in Seq(S), b # <<>>
  PROVE  <<Head(b)>> \o Tail(b) \o c = <<>> \o b \o c
  <1>1. /\ Head(b) \in S /\ Tail(b) \in Seq(S) /\ Len(Tail(b)) = Len(b) - 1
        /\ \A k \in 1 .. Len(Tail(b)) : Tail(b)[k] = b[k + 1]
    BY HeadTailProperties
  <1>2. Head(b) = b[1] /\ Len(b) \in Nat \ {0}
    BY EmptySeq
  <1> DEFINE t == <<Head(b)>> \o Tail(b)
  <1>3. /\ <<Head(b)>> \in Seq(S) /\ Len(<<Head(b)>>) = 1 /\ <<Head(b)>>[1] = Head(b)
    BY <1>1
  <1>4. /\ t \in Seq(S) /\ Len(t) = 1 + Len(Tail(b))
        /\ \A k \in 1 .. 1 + Len(Tail(b)) : t[k] = IF k <= 1 THEN <<Head(b)>>[k] ELSE Tail(b)[k - 1]
    BY <1>1, <1>3, ConcatProperties
  <1>5. \A k \in 1 .. Len(t) : t[k] = b[k]
    BY <1>1, <1>2, <1>3, <1>4
  <1>6. t = b
    BY <1>1, <1>2, <1>4, <1>5, SeqEqual
  <1>. QED BY <1>6, ConcatEmptySeq

\* The oldest goes.
LEMMA QueueTail ==
  ASSUME NEW S, NEW x \in S, NEW b \in Seq(S), NEW c \in Seq(S)
  PROVE  LET q == <<x>> \o b \o c
         IN  q # <<>> /\ Head(q) = x /\ Tail(q) = <<>> \o b \o c
  <1> DEFINE r == b \o c
             q == <<x>> \o r
  <1>1. r \in Seq(S) /\ Len(r) \in Nat
    BY ConcatProperties, LenProperties
  <1>2. <<x>> \in Seq(S) /\ Len(<<x>>) = 1 /\ <<x>>[1] = x
    BY Single
  <1>3. <<x>> \o b \o c = q /\ <<>> \o b \o c = r
    BY <1>2, ConcatAssociative, ConcatEmptySeq
  <1> HIDE DEF r
  <1>4. /\ q \in Seq(S) /\ Len(q) = 1 + Len(r)
        /\ \A k \in 1 .. 1 + Len(r) : q[k] = IF k <= 1 THEN <<x>>[k] ELSE r[k - 1]
    BY <1>1, <1>2, ConcatProperties
  <1> HIDE DEF q
  <1>5. q # <<>> /\ q[1] = x
    BY <1>1, <1>2, <1>4, EmptySeq
  <1>6. Tail(q) \in Seq(S) /\ Len(Tail(q)) = Len(q) - 1 /\ \A k \in 1 .. Len(Tail(q)) : Tail(q)[k] = q[k + 1]
    BY <1>4, <1>5, HeadTailProperties
  <1>7. \A k \in 1 .. Len(r) : Tail(q)[k] = r[k]
    BY <1>1, <1>4, <1>6
  <1>8. Tail(q) = r
    BY <1>1, <1>4, <1>6, <1>7, SeqEqual
  <1>. QED BY <1>3, <1>4, <1>5, <1>8

\* The youngest goes.
LEMMA QueueDrop ==
  ASSUME NEW S, NEW a \in Seq(S), NEW b \in Seq(S), NEW x \in S
  PROVE  LET q == a \o b \o <<x>>
         IN  q # <<>> /\ SubSeq(q, 1, Len(q) - 1) = a \o b \o <<>>
  <1> DEFINE ab == a \o b
             q  == ab \o <<x>>
  <1>1. /\ ab \in Seq(S) /\ Len(ab) \in Nat /\ ab \o <<>> = ab
    BY ConcatProperties, ConcatEmptySeq, LenProperties
  <1> HIDE DEF ab
  <1>2. /\ q \in Seq(S) /\ Len(q) = Len(ab) + 1
        /\ \A k \in 1 .. Len(ab) : q[k] = ab[k]
    BY <1>1, Single, ConcatProperties
  <1> HIDE DEF q
  <1>3. /\ SubSeq(q, 1, Len(ab)) \in Seq(S) /\ Len(SubSeq(q, 1, Len(ab))) = Len(ab)
        /\ \A k \in 1 .. Len(ab) : SubSeq(q, 1, Len(ab))[k] = q[k]
    <2>1. \A k \in 1 .. Len(ab) : q[k] \in S
      BY <1>1, <1>2, ElementOfSeq
    <2>2. /\ SubSeq(q, 1, Len(ab)) \in Seq(S)
          /\ Len(SubSeq(q, 1, Len(ab))) = IF 1 <= Len(ab) THEN Len(ab) - 1 + 1 ELSE 0
          /\ \A k \in 1 .. Len(ab) - 1 + 1 : SubSeq(q, 1, Len(ab))[k] = q[1 + k - 1]
      BY <1>1, <2>1, SubSeqProperties
    <2>. QED BY <1>1, <2>2
  <1>4. SubSeq(q, 1, Len(ab)) = ab
    BY <1>1, <1>2, <1>3, SeqEqual
  <1>. QED BY <1>1, <1>2, <1>4, EmptySeq DEF ab, q
-----------------------------------------------------------------------------
(* Types. *)

\* The parts of InFlight.
Front == IF send_pc \in {"addrs", "transmit"} THEN <<sending>> ELSE <<>>
Back  == IF cap_pc = "send" THEN <<grabbed>> ELSE <<>>

\* What is being encoded was captured by a device that still works, and of which
\* the desktop has the size.
Encoding ==
    cap_pc = "encode" =>
        capture = "ready" /\ Size(grabbed) = Size(screen) /\ frame_seq < MaxSeq

Typing ==
    /\ TypeOK /\ Encoding
    /\ channel \in Seq(Frames) /\ last_sent \in [Addrs -> Frames \cup {None}]

LEMMA InitTyping == Init => Typing
  <1> SUFFICES ASSUME Init PROVE Typing
    OBVIOUS
  <1>1. channel \in Seq(Frames) /\ Len(channel) = 0 /\ 0 <= FRAME_CHANNEL_CAP
    BY PipelineAssumption DEF Init
  <1>2. 0 \in 0 .. SeqMod - 1
    BY EncoderAssumption
  <1>3. \A k \in 1 .. Len(channel) : IsFrame(channel[k])
    BY <1>1
  <1>4. TypeOK
    BY <1>1, <1>2, <1>3 DEF Init, TypeOK
  <1>5. last_sent \in [Addrs -> Frames \cup {None}]
    BY DEF Init
  <1>. QED BY <1>1, <1>4, <1>5 DEF Init, Typing, Encoding

\* The capture thread keeps the types.
LEMMA CaptureTyping ==
  ASSUME Typing, Capture
  PROVE  Typing'
  <1> USE DEF Typing, TypeOK, Encoding
  <1>1. CASE CapCheck
    BY <1>1 DEF CapCheck, shared, desktop, sndVars
  <1>2. CASE CapNoDevice
    BY <1>2 DEF CapNoDevice, CapContinue, shared, desktop, sndVars
  <1>3. CASE CapGrab
    BY <1>3 DEF CapGrab, Device!Deliver, shared, sndVars
  <1>4. CASE CapAcquireFailed
    BY <1>4 DEF CapAcquireFailed, CapContinue, shared, desktop, sndVars
  <1>5. CASE CapWedge
    BY <1>5 DEF CapWedge, Device!Wedge, CapContinue, shared, sndVars
  <1>6. CASE CapDeviceLost
    BY <1>6 DEF CapDeviceLost, Device!Reopen, CapContinue, shared, sndVars
  <1>7. CASE CapEncode
    <2>1. grabbed \in Screens /\ frame_seq \in 0 .. SeqMod - 1
      BY <1>7 DEF CapEncode
    <2>2. \/ NotEncoded
          \/ \E f \in Frames : Encoded(f)
      BY <1>7, <2>1, FramesMade DEF CapEncode
    <2>3. CASE NotEncoded
      BY <1>7, <2>3 DEF CapEncode, NotEncoded, desktop, sndVars
    <2>4. CASE \E f \in Frames : Encoded(f)
      <3>1. PICK f \in Frames : Encoded(f)
        BY <2>4
      <3>2. IsFrame(f) /\ next_seq(frame_seq) \in 0 .. SeqMod - 1
        BY <2>1, FramesAreFrames, NextSeq
      <3>3. compute_tile_checksums[grabbed] \in Checksums
        BY <2>1 DEF Checksums
      <3>. QED BY <1>7, <3>1, <3>2, <3>3 DEF CapEncode, Encoded, desktop, sndVars
    <2>. QED BY <2>2, <2>3, <2>4
  <1>8. CASE CapSend
    <2>1. grabbed \in Frames
      BY <1>8, FramesAreFrames DEF CapSend
    <2>2. CASE channel' = channel
      BY <1>8, <2>2 DEF CapSend, shared, desktop, sndVars
    <2>3. CASE Len(channel) < FRAME_CHANNEL_CAP /\ channel' = Append(channel, grabbed)
      <3>1. /\ channel' \in Seq(Frames) /\ Len(channel') = Len(channel) + 1
            /\ \A k \in 1 .. Len(channel) : channel'[k] = channel[k]
            /\ channel'[Len(channel) + 1] = grabbed /\ Len(channel) \in Nat
        BY <2>1, <2>3, AppendProperties, LenProperties
      <3>2. Len(channel') <= FRAME_CHANNEL_CAP /\ \A k \in 1 .. Len(channel') : IsFrame(channel'[k])
        BY <2>1, <2>3, <3>1, FramesAreFrames, PipelineAssumption
      <3>. QED BY <1>8, <3>1, <3>2 DEF CapSend, shared, desktop, sndVars
    <2>. QED BY <1>8, <2>2, <2>3 DEF CapSend
  <1>. QED BY <1>1, <1>2, <1>3, <1>4, <1>5, <1>6, <1>7, <1>8 DEF Capture

\* The send thread keeps them.
LEMMA SendTyping ==
  ASSUME Typing, Send
  PROVE  Typing'
  <1> USE DEF Typing, TypeOK, Encoding
  <1>1. CASE SendCheck
    BY <1>1 DEF SendCheck, shared, desktop, capVars
  <1>2. CASE SendRecv
    <2>1. CASE channel # <<>> /\ sending' = Head(channel) /\ channel' = Tail(channel) /\ send_pc' = "addrs"
      <3>1. /\ Head(channel) \in Frames /\ Tail(channel) \in Seq(Frames)
            /\ Len(Tail(channel)) = Len(channel) - 1 /\ Len(channel) \in Nat
            /\ \A k \in 1 .. Len(Tail(channel)) : Tail(channel)[k] = channel[k + 1]
        BY <2>1, HeadTailProperties, LenProperties
      <3>2. /\ IsFrame(sending') /\ Len(channel') <= FRAME_CHANNEL_CAP
            /\ \A k \in 1 .. Len(channel') : IsFrame(channel'[k])
        BY <2>1, <3>1, FramesAreFrames, PipelineAssumption
      <3>. QED BY <1>2, <2>1, <3>1, <3>2 DEF SendRecv, shared, desktop, capVars
    <2>2. CASE send_pc' = "exited" /\ UNCHANGED <<sending, channel>>
      BY <1>2, <2>2 DEF SendRecv, shared, desktop, capVars
    <2>. QED BY <1>2, <2>1, <2>2 DEF SendRecv
  <1>3. CASE SendAddrs
    BY <1>3 DEF SendAddrs, shared, desktop, capVars
  <1>4. ASSUME NEW a \in Addrs, SendFragmented(a)
        PROVE  Typing'
    <2>1. sending \in Frames /\ IsFrame(sending)
      BY <1>4, FramesAreFrames DEF SendFragmented
    <2>2. last_sent' = [last_sent EXCEPT ![a] = sending]
      BY <1>4 DEF SendFragmented
    <2>3. last_sent' \in [Addrs -> Frames \cup {None}]
      BY <2>1, <2>2
    <2>4. DOMAIN last_sent' = Addrs /\ \A b \in Addrs : last_sent'[b] # None => IsFrame(last_sent'[b])
      BY <2>3, FramesAreFrames
    <2>. QED BY <1>4, <2>3, <2>4 DEF SendFragmented, Transmitted, shared, desktop, capVars
  <1>5. ASSUME NEW a \in Addrs, SendFailed(a)
        PROVE  Typing'
    BY <1>5 DEF SendFailed, Transmitted, shared, desktop, capVars
  <1>. QED BY <1>1, <1>2, <1>3, <1>4, <1>5 DEF Send

\* So do all steps.
LEMMA StepTyping ==
  ASSUME Typing, [Next]_vars
  PROVE  Typing'
  <1>1. CASE Capture
    BY <1>1, CaptureTyping
  <1>2. CASE Send
    BY <1>2, SendTyping
  <1>3. CASE Main
    <2>1. active' \in SUBSET Addrs /\ force_full_next' \in BOOLEAN
          /\ main_pc' \in {"check", "receive", "join_capture", "join_send", "exited"}
          /\ UNCHANGED <<running, channel, desktop, capVars, sndVars>>
      BY <1>3 DEF Main, MainCheck, Receive, JoinCapture, JoinSend, RequestKeyframe, OtherMessage,
                  Activate, handle_disconnect, Handled, shared, Typing, TypeOK
    <2>. QED BY <2>1 DEF Typing, TypeOK, Encoding, desktop, capVars, sndVars
  <1>4. CASE Draw
    <2>1. /\ screen' \in Screens /\ updated' = TRUE
          /\ capture = "ready" => Size(screen') = Size(screen)
          /\ UNCHANGED <<capture, grabbed, shared, channel, cap_pc, prev_checksums, frame_seq, sndVars, main_pc>>
      BY <1>4 DEF Draw, Device!Draw
    <2>2. TypeOK'
      BY <2>1 DEF shared, sndVars, Typing, TypeOK
    <2>3. Encoding'
      BY <2>1 DEF Typing, Encoding
    <2>. QED BY <2>1, <2>2, <2>3 DEF Typing, sndVars
  <1>5. CASE CtrlC
    <2>1. TypeOK'
      <3>1. /\ running' \in BOOLEAN
            /\ UNCHANGED <<active, force_full_next, channel, screen, updated, cap_pc, capture, prev_checksums,
                           frame_seq, grabbed, send_pc, sending, targets, main_pc, last_sent>>
        BY <1>5 DEF CtrlC, desktop, capVars, sndVars
      <3>. QED BY <3>1 DEF Typing, TypeOK
    <2>2. channel' \in Seq(Frames) /\ last_sent' \in [Addrs -> Frames \cup {None}] /\ Encoding'
      BY <1>5 DEF CtrlC, desktop, capVars, sndVars, Typing, Encoding
    <2>. QED BY <2>1, <2>2 DEF Typing
  <1>6. CASE UNCHANGED vars
    BY <1>6 DEF vars, Typing, TypeOK, Encoding
  <1>. QED BY <1>1, <1>2, <1>3, <1>4, <1>5, <1>6 DEF Next

LEMMA Types == Spec => []Typing
  BY InitTyping, StepTyping, PTL DEF Spec

\* The pipeline's type invariant: each thread's local variables fit its pc, and the
\* channel keeps to its capacity, whatever the threads interleave.
THEOREM PipelineTypes == Spec => []TypeOK
  BY Types, PTL DEF Typing
-----------------------------------------------------------------------------
(* The feed. *)

\* What HostPipelineFeed maps base and extent to.
Base   == IF capture = "ready" THEN prev_checksums ELSE None
Extent == IF capture = "ready" /\ prev_checksums # None THEN Size(screen) ELSE None

LEMMA Flight ==
  ASSUME Typing
  PROVE  /\ InFlight = Front \o channel \o Back
         /\ Front \in Seq(Frames) /\ Back \in Seq(Frames) /\ channel \in Seq(Frames)
         /\ InFlight \in Seq(Frames)
         /\ Len(Front) = (IF send_pc \in {"addrs", "transmit"} THEN 1 ELSE 0)
         /\ Len(Back) = (IF cap_pc = "send" THEN 1 ELSE 0)
         /\ Len(InFlight) = Len(Front) + Len(channel) + Len(Back)
  <1>1. /\ send_pc \in {"addrs", "transmit"} => sending \in Frames
        /\ cap_pc = "send" => grabbed \in Frames
    BY FramesAreFrames DEF Typing, TypeOK
  <1>2. /\ Front \in Seq(Frames) /\ Len(Front) = (IF send_pc \in {"addrs", "transmit"} THEN 1 ELSE 0)
    BY <1>1, Single, EmptySeq DEF Front
  <1>3. /\ Back \in Seq(Frames) /\ Len(Back) = (IF cap_pc = "send" THEN 1 ELSE 0)
    BY <1>1, Single, EmptySeq DEF Back
  <1>4. InFlight = Front \o channel \o Back
    BY DEF InFlight, Front, Back
  <1>5. channel \in Seq(Frames)
    BY DEF Typing
  <1>6. /\ Front \o channel \o Back \in Seq(Frames)
        /\ Len(Front \o channel \o Back) = Len(Front) + Len(channel) + Len(Back)
    <2>1. Front \in Seq(Frames) /\ Back \in Seq(Frames)
      BY <1>2, <1>3
    <2>. QED BY ONLY <2>1, <1>5, QueueOf
  <1>. QED BY <1>2, <1>3, <1>4, <1>5, <1>6

\* What the feed's operators compute is what the pipeline's do.
LEMMA FeedCardinality ==
  ASSUME NEW S
  PROVE  Feed!Cardinality(S) = Cardinality(S)
  BY DEF Feed!Cardinality, Cardinality

LEMMA FeedChecksums ==
  /\ Feed!compute_tile_checksums = compute_tile_checksums
  /\ Feed!delta_regions = delta_regions
  <1>1. Feed!compute_tile_checksums = compute_tile_checksums
    BY Zenon DEF Feed!compute_tile_checksums, compute_tile_checksums,
         Feed!tile_checksums, tile_checksums, Feed!TileGrid, TileGrid, Feed!TileCount, TileCount,
         Feed!extract_tile_data, extract_tile_data, Feed!TileExtent, TileExtent, Feed!Lower, Lower
  <1>2. ASSUME NEW C
        PROVE  Feed!Listed(C) = Listed(C)
    BY FeedCardinality DEF Feed!Listed, Listed, Feed!Range, Range
  <1>3. ASSUME NEW p, NEW w, NEW h, NEW t
        PROVE  Feed!DeltaRegion(p, w, h, t, TileSize) = DeltaRegion(p, w, h, t, TileSize)
    BY Zenon DEF Feed!DeltaRegion, DeltaRegion, Feed!extract_tile_data, extract_tile_data,
                 Feed!TileExtent, TileExtent, Feed!Lower, Lower
  <1>4. Feed!delta_regions = delta_regions
    BY <1>1, <1>2, <1>3 DEF Feed!delta_regions, delta_regions, Feed!build_delta_regions, build_delta_regions
  <1>. QED BY <1>1, <1>4

LEMMA FeedOperators ==
  ASSUME NEW request, NEW n, NEW base, NEW s
  PROVE  /\ Feed!Size(s) = Size(s)
         /\ Feed!next_seq(n) = next_seq(n)
         /\ Feed!Unchanged(request, n, base, s) = Unchanged(request, n, base, s)
         /\ Feed!WantsFull(request, n, base, s) = WantsFull(request, n, base, s)
         /\ Feed!FullFrame(n, s) = FullFrame(n, s)
         /\ Feed!DeltaFrame(n, base, s) = DeltaFrame(n, base, s)
  <1>1. Feed!Size(s) = Size(s) /\ Feed!next_seq(n) = next_seq(n)
    BY DEF Feed!Size, Size, Feed!next_seq, next_seq
  <1>2. Feed!changed(base, s) = changed(base, s)
    BY FeedChecksums DEF Feed!changed, changed, Feed!detect_delta_tiles, detect_delta_tiles
  <1>3. Feed!Unchanged(request, n, base, s) = Unchanged(request, n, base, s)
    BY <1>2, Zenon DEF Feed!Unchanged, Unchanged, Feed!force_full, force_full
  <1>4. Feed!WantsFull(request, n, base, s) = WantsFull(request, n, base, s)
    BY <1>2, FeedCardinality DEF Feed!WantsFull, WantsFull, Feed!force_full, force_full,
                Feed!should_send_full_frame, should_send_full_frame,
                Feed!total_tile_count, total_tile_count, Feed!TileCount, TileCount
  <1>5. /\ Feed!FullFrame(n, s) = FullFrame(n, s)
        /\ Feed!DeltaFrame(n, base, s) = DeltaFrame(n, base, s)
    BY <1>1, <1>2, FeedChecksums DEF Feed!FullFrame, FullFrame, Feed!DeltaFrame, DeltaFrame, Feed!Frame, Frame
  <1>. QED BY <1>1, <1>3, <1>4, <1>5

\* The steps of the feed in terms of the pipeline.
LEMMA FeedSteps ==
  /\ Feed!Request <=>
        force_full_next' = TRUE /\ UNCHANGED <<Base, Extent, frame_seq, InFlight, last_sent>>
  /\ Feed!EncodeFailed <=>
        force_full_next' = FALSE /\ UNCHANGED <<Base, Extent, frame_seq, InFlight, last_sent>>
  /\ Feed!LoseBase <=>
        Base' = None /\ Extent' = None /\ UNCHANGED <<force_full_next, frame_seq, InFlight, last_sent>>
  /\ Feed!Retire <=>
        /\ InFlight # <<>> /\ InFlight' = Tail(InFlight)
        /\ UNCHANGED <<force_full_next, Base, Extent, frame_seq, last_sent>>
  /\ Feed!Discard <=>
        /\ InFlight # <<>> /\ InFlight' = SubSeq(InFlight, 1, Len(InFlight) - 1)
        /\ UNCHANGED <<force_full_next, Base, Extent, frame_seq, last_sent>>
  /\ \A a : Feed!Transmit(a) <=>
        /\ InFlight # <<>> /\ last_sent[a] # Head(InFlight)
        /\ last_sent' = [last_sent EXCEPT ![a] = Head(InFlight)]
        /\ InFlight' \in {InFlight, Tail(InFlight)}
        /\ UNCHANGED <<force_full_next, Base, Extent, frame_seq>>
  BY DEF Feed!Request, Feed!EncodeFailed, Feed!LoseBase, Feed!Retire, Feed!Discard, Feed!Transmit, Base, Extent

\* Frame f of screen s is put on the queue.
Queued(f, s) ==
    /\ frame_seq < MaxSeq /\ Len(InFlight) < FRAME_CHANNEL_CAP + 2
    /\ Extent \in {None, Size(s)}
    /\ ~ Unchanged(force_full_next, frame_seq, Base, s)
    /\ InFlight' = Append(InFlight, f)
    /\ force_full_next' = FALSE /\ frame_seq' = next_seq(frame_seq)
    /\ Base' = compute_tile_checksums[s] /\ Extent' = Size(s)
    /\ UNCHANGED last_sent

LEMMA FeedEncodes ==
  ASSUME NEW s
  PROVE  /\ Feed!EncodeFallback(s) <=> Queued(FullFrame(frame_seq, s), s)
         /\ Feed!Encode(s) <=>
              Queued(IF WantsFull(force_full_next, frame_seq, Base, s)
                       THEN FullFrame(frame_seq, s) ELSE DeltaFrame(frame_seq, Base, s), s)
  <1>1. Feed!EncodeFallback(s) <=> Queued(FullFrame(frame_seq, s), s)
    BY FeedChecksums, FeedOperators DEF Feed!EncodeFallback, Feed!MayEncode, Base, Extent, Queued
  <1>2. Feed!Encode(s) <=>
              Queued(IF WantsFull(force_full_next, frame_seq, Base, s)
                       THEN FullFrame(frame_seq, s) ELSE DeltaFrame(frame_seq, Base, s), s)
    BY FeedChecksums, FeedOperators DEF Feed!Encode, Feed!MayEncode, Base, Extent, Queued
  <1>. QED BY <1>1, <1>2

FeedState == <<force_full_next, Base, Extent, frame_seq, InFlight, last_sent>>

LEMMA FeedIdle ==
  ASSUME UNCHANGED FeedState
  PROVE  [Feed!FeedNext]_(Feed!feedVars)
  BY DEF FeedState, Feed!feedVars, Base, Extent

LEMMA FlightParts ==
  InFlight = Front \o channel \o Back /\ InFlight' = Front' \o channel' \o Back'
  BY DEF InFlight, Front, Back

\* A step of a thread that leaves the queue and what is mapped alone.
LEMMA IdleStep ==
  ASSUME UNCHANGED <<force_full_next, Base, Extent, frame_seq, Front, channel, Back, last_sent>>
  PROVE  UNCHANGED FeedState
  BY FlightParts DEF FeedState

\* The steps of the capture thread.
LEMMA CaptureFeed ==
  ASSUME Typing, Capture
  PROVE  \/ UNCHANGED FeedState
         \/ Feed!EncodeFailed \/ Feed!LoseBase
         \/ Feed!Discard /\ cap_pc' = "exited"
         \/ \E s \in Screens : Feed!Encode(s) \/ Feed!EncodeFallback(s)
  <1>1. CASE CapCheck
    <2>1. UNCHANGED <<force_full_next, Base, Extent, frame_seq, Front, channel, Back, last_sent>>
      BY <1>1 DEF CapCheck, shared, desktop, sndVars, Base, Extent, Front, Back
    <2>. QED BY <2>1, IdleStep
  <1>2. CASE CapNoDevice \/ CapAcquireFailed
    <2>1. UNCHANGED <<force_full_next, Base, Extent, frame_seq, Front, channel, Back, last_sent>>
      BY <1>2 DEF CapNoDevice, CapAcquireFailed, CapContinue, shared, desktop, sndVars, Base, Extent, Front, Back
    <2>. QED BY <2>1, IdleStep
  <1>3. CASE CapGrab
    <2>1. UNCHANGED <<force_full_next, Base, Extent, frame_seq, Front, channel, Back, last_sent>>
      BY <1>3 DEF CapGrab, Device!Deliver, shared, sndVars, Base, Extent, Front, Back
    <2>. QED BY <2>1, IdleStep
  <1>4. CASE CapWedge \/ CapDeviceLost
    <2>1. Base' = None /\ Extent' = None
      BY <1>4 DEF CapWedge, CapDeviceLost, Device!Wedge, Device!Reopen, Base, Extent
    <2>2. UNCHANGED <<force_full_next, frame_seq, Front, channel, Back, last_sent>>
      BY <1>4 DEF CapWedge, CapDeviceLost, Device!Wedge, Device!Reopen, CapContinue, shared, sndVars, Front, Back
    <2>3. UNCHANGED InFlight
      BY <2>2, FlightParts
    <2>. QED BY <2>1, <2>2, <2>3, FeedSteps
  <1>5. CASE CapEncode
    <2>1. /\ cap_pc = "encode" /\ force_full_next' = FALSE
          /\ UNCHANGED <<channel, capture, screen, last_sent, Front>>
          /\ grabbed \in Screens /\ capture = "ready" /\ Size(grabbed) = Size(screen) /\ frame_seq < MaxSeq
          /\ Base = prev_checksums /\ frame_seq \in 0 .. SeqMod - 1
      BY <1>5 DEF CapEncode, desktop, sndVars, Front, Typing, TypeOK, Encoding, Base
    <2>2. CASE NotEncoded
      <3>1. UNCHANGED <<Base, Extent, frame_seq, Back>>
        BY <2>1, <2>2 DEF NotEncoded, Base, Extent, Back
      <3>2. UNCHANGED InFlight
        BY <2>1, <3>1, FlightParts
      <3>. QED BY <2>1, <3>1, <3>2, FeedSteps
    <2>3. ASSUME NEW f \in Frames, Encoded(f), ~ Unchanged(force_full_next, frame_seq, prev_checksums, grabbed)
          PROVE  Queued(f, grabbed)
      <3>1. /\ Base' = compute_tile_checksums[grabbed] /\ Extent' = Size(grabbed)
            /\ frame_seq' = next_seq(frame_seq) /\ Back' = <<f>> /\ Back = <<>>
        BY <2>1, <2>3, NoneAssumption DEF Encoded, Base, Extent, Back
      <3>2. InFlight' = Append(InFlight, f)
        <4>1. Front \in Seq(Frames) /\ channel \in Seq(Frames)
          BY Flight
        <4>2. Front \o channel \o <<f>> = Append(Front \o channel \o <<>>, f)
          BY <4>1, <2>3, QueueAppend
        <4>. QED BY <2>1, <3>1, <4>2, FlightParts
      <3>3. Len(InFlight) < FRAME_CHANNEL_CAP + 2
        <4>1. Len(InFlight) = Len(Front) + Len(channel) + Len(Back) /\ Len(Front) <= 1 /\ Len(Back) = 0
              /\ Len(Front) \in Nat
          BY <2>1, Flight
        <4>2. Len(channel) <= FRAME_CHANNEL_CAP /\ Len(channel) \in Nat
          BY LenProperties DEF Typing, TypeOK
        <4>. QED BY <4>1, <4>2, PipelineAssumption
      <3>4. Extent \in {None, Size(grabbed)}
        BY <2>1 DEF Extent
      <3>. QED BY <2>1, <2>3, <3>1, <3>2, <3>3, <3>4 DEF Queued
    <2>4. CASE ~ NotEncoded
      <3>1. /\ ~ Unchanged(force_full_next, frame_seq, prev_checksums, grabbed)
            /\ \/ Encoded(FullFrame(frame_seq, grabbed))
               \/ /\ ~ WantsFull(force_full_next, frame_seq, prev_checksums, grabbed)
                  /\ Encoded(DeltaFrame(frame_seq, prev_checksums, grabbed))
        BY <1>5, <2>4 DEF CapEncode
      <3>2. FullFrame(frame_seq, grabbed) \in Frames /\ DeltaFrame(frame_seq, prev_checksums, grabbed) \in Frames
        BY <2>1, FramesMade
      <3>3. CASE Encoded(FullFrame(frame_seq, grabbed))
        <4>1. Queued(FullFrame(frame_seq, grabbed), grabbed)
          BY <2>3, <3>1, <3>2, <3>3
        <4>. QED BY <2>1, <4>1, FeedEncodes
      <3>4. CASE /\ ~ WantsFull(force_full_next, frame_seq, prev_checksums, grabbed)
                 /\ Encoded(DeltaFrame(frame_seq, prev_checksums, grabbed))
        <4>1. Queued(DeltaFrame(frame_seq, prev_checksums, grabbed), grabbed)
          BY <2>3, <3>1, <3>2, <3>4
        <4>. QED BY <2>1, <3>4, <4>1, FeedEncodes
      <3>. QED BY <3>1, <3>3, <3>4
    <2>. QED BY <2>2, <2>4
  <1>6. CASE CapSend
    <2>1. /\ cap_pc = "send" /\ Back = <<grabbed>> /\ Back' = <<>>
          /\ UNCHANGED <<force_full_next, Base, Extent, frame_seq, Front, last_sent>>
      BY <1>6 DEF CapSend, shared, desktop, sndVars, Base, Extent, Front, Back
    <2>2. Front \in Seq(Frames) /\ channel \in Seq(Frames) /\ grabbed \in Frames
      BY <2>1, Flight, FramesAreFrames DEF Typing, TypeOK
    <2>3. CASE cap_pc' = "exited" /\ channel' = channel
      <3>1. InFlight # <<>> /\ SubSeq(InFlight, 1, Len(InFlight) - 1) = Front \o channel \o <<>>
        BY <2>1, <2>2, QueueDrop, FlightParts
      <3>2. InFlight' = Front \o channel \o <<>>
        BY <2>1, <2>3, FlightParts
      <3>. QED BY <2>1, <2>3, <3>1, <3>2, FeedSteps
    <2>4. CASE channel' = Append(channel, grabbed)
      <3>1. UNCHANGED InFlight
        BY <2>1, <2>2, <2>4, QueueMove, FlightParts
      <3>. QED BY <2>1, <3>1 DEF FeedState
    <2>. QED BY <1>6, <2>3, <2>4 DEF CapSend
  <1>. QED BY <1>1, <1>2, <1>3, <1>4, <1>5, <1>6 DEF Capture

\* While a frame is transmitted, it stays and no address is added to its targets.
Kept ==
    send_pc = "transmit" =>
        send_pc' = "transmit" /\ sending' = sending /\ targets' \subseteq targets

\* Address a has been sent the oldest frame, which is done with or still at hand.
SentTo(a) ==
    /\ Feed!Transmit(a)
    /\ \/ InFlight' = Tail(InFlight)
       \/ InFlight' = InFlight /\ send_pc = "transmit" /\ Kept /\ a \notin targets'

\* A frame to one address.
LEMMA TransmitFeed ==
  ASSUME Typing, NEW a \in Addrs, SendFragmented(a) \/ SendFailed(a)
  PROVE  (UNCHANGED FeedState /\ Kept) \/ Feed!Retire \/ SentTo(a)
  <1>1. /\ send_pc = "transmit" /\ sending \in Frames /\ Front = <<sending>>
        /\ UNCHANGED <<force_full_next, Base, Extent, frame_seq, channel, Back>>
        /\ a \notin targets'
        /\ \/ Front' = <<>>
           \/ (Front' = <<sending>> /\ Kept)
    <2>1. send_pc = "transmit" /\ Transmitted(a)
      BY DEF SendFragmented, SendFailed
    <2>2. sending \in Frames
      BY <2>1, FramesAreFrames DEF Typing, TypeOK
    <2>3. Front' = <<>> \/ (Front' = <<sending>> /\ Kept)
      BY <2>1 DEF Transmitted, Front, Kept
    <2>. QED BY <2>1, <2>2, <2>3 DEF Transmitted, shared, desktop, capVars, Base, Extent, Front, Back
  <1>2. channel \in Seq(Frames) /\ Back \in Seq(Frames)
    BY Flight
  <1>3. /\ InFlight # <<>> /\ Head(InFlight) = sending
        /\ InFlight' = Tail(InFlight) \/ (InFlight' = InFlight /\ Kept)
    <2>1. InFlight # <<>> /\ Head(InFlight) = sending /\ Tail(InFlight) = <<>> \o channel \o Back
      <3> DEFINE q == <<sending>> \o channel \o Back
      <3>1. q # <<>> /\ Head(q) = sending /\ Tail(q) = <<>> \o channel \o Back
        BY <1>1, <1>2, QueueTail
      <3>2. InFlight = q
        BY <1>1, FlightParts
      <3> HIDE DEF q
      <3>. QED BY <3>1, <3>2
    <2>. QED BY <1>1, <2>1, FlightParts
  <1>4. CASE last_sent' = last_sent
    BY <1>1, <1>3, <1>4, FeedSteps DEF FeedState
  <1>5. CASE last_sent' # last_sent
    <2>1. last_sent' = [last_sent EXCEPT ![a] = sending]
      BY <1>5 DEF SendFragmented, SendFailed
    <2>2. last_sent[a] # sending
      <3>1. last_sent \in [Addrs -> Frames \cup {None}]
        BY DEF Typing
      <3>2. last_sent' \in [Addrs -> Frames \cup {None}]
            /\ \A b \in Addrs : last_sent'[b] = IF b = a THEN sending ELSE last_sent[b]
        BY <1>1, <2>1, <3>1
      <3>3. last_sent[a] = sending => \A b \in Addrs : last_sent'[b] = last_sent[b]
        BY <3>2
      <3>4. (\A b \in Addrs : last_sent'[b] = last_sent[b]) => last_sent' = last_sent
        BY <3>1, <3>2
      <3>. QED BY <1>5, <3>3, <3>4
    <2>. QED BY <1>1, <1>3, <2>1, <2>2, FeedSteps DEF SentTo
  <1>. QED BY <1>4, <1>5

\* The steps of the send thread.
LEMMA SendFeed ==
  ASSUME Typing, Send
  PROVE  (UNCHANGED FeedState /\ Kept) \/ Feed!Retire \/ \E a \in Addrs : SentTo(a)
  <1>1. CASE SendCheck
    <2>1. UNCHANGED <<force_full_next, Base, Extent, frame_seq, Front, channel, Back, last_sent>>
      BY <1>1 DEF SendCheck, shared, desktop, capVars, Base, Extent, Front, Back
    <2>. QED BY <1>1, <2>1, IdleStep DEF SendCheck, Kept
  <1>2. CASE SendRecv
    <2>1. /\ send_pc = "recv" /\ Front = <<>>
          /\ UNCHANGED <<force_full_next, Base, Extent, frame_seq, Back, last_sent>>
      BY <1>2 DEF SendRecv, shared, desktop, capVars, Base, Extent, Front, Back
    <2>2. CASE channel # <<>> /\ sending' = Head(channel) /\ channel' = Tail(channel) /\ send_pc' = "addrs"
      <3>1. Front' = <<Head(channel)>>
        BY <2>2 DEF Front
      <3>2. channel \in Seq(Frames) /\ Back \in Seq(Frames)
        BY Flight
      <3>3. UNCHANGED InFlight
        BY <2>1, <2>2, <3>1, <3>2, QueueReceive, FlightParts
      <3>. QED BY <2>1, <3>3 DEF FeedState, Kept
    <2>3. CASE send_pc' = "exited" /\ UNCHANGED <<sending, channel>>
      <3>1. Front' = <<>>
        BY <2>3 DEF Front
      <3>. QED BY <2>1, <2>3, <3>1, IdleStep DEF Kept
    <2>. QED BY <1>2, <2>2, <2>3 DEF SendRecv
  <1>3. CASE SendAddrs
    <2>1. /\ send_pc = "addrs" /\ Front = <<sending>> /\ sending \in Frames
          /\ UNCHANGED <<force_full_next, Base, Extent, frame_seq, channel, Back, last_sent>>
      BY <1>3, FramesAreFrames DEF SendAddrs, shared, desktop, capVars, Base, Extent, Front, Back, Typing, TypeOK
    <2>2. CASE send_pc' = "check"
      <3>1. Front' = <<>>
        BY <2>2 DEF Front
      <3>2. channel \in Seq(Frames) /\ Back \in Seq(Frames)
        BY Flight
      <3>3. InFlight # <<>> /\ InFlight' = Tail(InFlight)
        BY <2>1, <3>1, <3>2, QueueTail, FlightParts
      <3>. QED BY <2>1, <3>3, FeedSteps
    <2>3. CASE send_pc' = "transmit" /\ sending' = sending
      <3>1. Front' = <<sending>>
        BY <2>3 DEF Front
      <3>. QED BY <2>1, <3>1, IdleStep DEF Kept
    <2>. QED BY <1>3, <2>2, <2>3 DEF SendAddrs
  <1>4. ASSUME NEW a \in Addrs, SendFragmented(a) \/ SendFailed(a)
        PROVE  (UNCHANGED FeedState /\ Kept) \/ Feed!Retire \/ SentTo(a)
    BY <1>4, TransmitFeed
  <1>. QED BY <1>1, <1>2, <1>3, <1>4 DEF Send

\* The other steps: a keyframe is asked for, or nothing happens to the feed.
LEMMA OtherFeed ==
  ASSUME Typing, Main \/ Draw \/ CtrlC \/ UNCHANGED vars
  PROVE  UNCHANGED FeedState \/ Feed!Request
  <1>1. CASE Main
    <2>1. UNCHANGED <<Base, Extent, frame_seq, Front, channel, Back, last_sent>>
      BY <1>1 DEF Main, MainCheck, Receive, JoinCapture, JoinSend, RequestKeyframe, OtherMessage,
                  Activate, handle_disconnect, Handled, desktop, capVars, sndVars, Base, Extent, Front, Back
    <2>2. UNCHANGED force_full_next \/ force_full_next' = TRUE
      BY <1>1 DEF Main, MainCheck, Receive, JoinCapture, JoinSend, RequestKeyframe, OtherMessage,
                  Activate, handle_disconnect, shared
    <2>3. UNCHANGED InFlight
      BY <2>1, FlightParts
    <2>. QED BY <2>1, <2>2, <2>3, FeedSteps DEF FeedState
  <1>2. CASE Draw
    <2>1. UNCHANGED <<force_full_next, Base, Extent, frame_seq, Front, channel, Back, last_sent>>
      BY <1>2 DEF Draw, Device!Draw, shared, sndVars, Base, Extent, Front, Back
    <2>. QED BY <2>1, IdleStep
  <1>3. CASE CtrlC
    <2>1. UNCHANGED <<force_full_next, Base, Extent, frame_seq, Front, channel, Back, last_sent>>
      BY <1>3 DEF CtrlC, desktop, capVars, sndVars, Base, Extent, Front, Back
    <2>. QED BY <2>1, IdleStep
  <1>4. CASE UNCHANGED vars
    <2>1. UNCHANGED <<force_full_next, Base, Extent, frame_seq, Front, channel, Back, last_sent>>
      BY <1>4 DEF vars, Base, Extent, Front, Back
    <2>. QED BY <2>1, IdleStep
  <1>. QED BY <1>1, <1>2, <1>3, <1>4

\* The pipeline implements the feed: whatever the threads interleave, each step is
\* one of the feed or leaves it alone.
THEOREM PipelineImplementsFeed == Spec => ImplementsFeed
  <1>1. Init => Feed!FeedInit
    <2> SUFFICES ASSUME Init PROVE Feed!FeedInit
      OBVIOUS
    <2>1. Front = <<>> /\ channel = <<>> /\ Back = <<>>
      BY DEF Init, Front, Back
    <2>2. InFlight = <<>>
      BY <2>1, EmptySeq, ConcatEmptySeq, FlightParts
    <2>3. Base = None /\ Extent = None
      BY DEF Init, Base, Extent
    <2>. QED BY <2>2, <2>3 DEF Init, Feed!FeedInit, Base, Extent
  <1>2. Typing /\ [Next]_vars => [Feed!FeedNext]_(Feed!feedVars)
    <2> SUFFICES ASSUME Typing, [Next]_vars PROVE [Feed!FeedNext]_(Feed!feedVars)
      OBVIOUS
    <2>1. \/ UNCHANGED FeedState
          \/ Feed!Request \/ Feed!EncodeFailed \/ Feed!LoseBase \/ Feed!Retire \/ Feed!Discard
          \/ \E s \in Screens : Feed!Encode(s) \/ Feed!EncodeFallback(s)
          \/ \E a \in Addrs : Feed!Transmit(a)
      BY CaptureFeed, SendFeed, OtherFeed DEF Next, SentTo
    <2>. QED BY <2>1, FeedIdle DEF Feed!FeedNext
  <1>. QED BY <1>1, <1>2, Types, PTL DEF Spec, ImplementsFeed, Feed!FeedSpec
-----------------------------------------------------------------------------
(* The order of frames. *)

\* The frames on their way are numbered without a hole up to the one encoded last,
\* or up to the one before if the last was thrown away; and what an address was
\* sent is older than all of them, but for the one being transmitted.
Numbered ==
    /\ frame_seq <= MaxSeq
    /\ \E top \in {frame_seq, frame_seq - 1} :
          /\ top # frame_seq => cap_pc = "exited"
          /\ \A k \in 1 .. Len(InFlight) : InFlight[k].msg_id = top - (Len(InFlight) - k)

Older ==
    \A a \in Addrs : last_sent[a] # None =>
        /\ last_sent[a].msg_id <= frame_seq
        /\ \A k \in 1 .. Len(InFlight) :
              \/ last_sent[a].msg_id < InFlight[k].msg_id
              \/ k = 1 /\ send_pc = "transmit" /\ a \notin targets /\ last_sent[a] = sending

Order == Numbered /\ Older

\* The kinds of step there are.
LEMMA Steps ==
  ASSUME Typing, [Next]_vars
  PROVE  \/ /\ UNCHANGED <<frame_seq, InFlight, last_sent>> /\ Kept
            /\ cap_pc = "exited" => cap_pc' = "exited"
            /\ (Base' = Base /\ Extent' = Extent) \/ Base' = None
         \/ cap_pc # "exited" /\ Kept /\ Feed!Discard /\ cap_pc' = "exited"
         \/ cap_pc # "exited" /\ Kept /\ \E s \in Screens : Feed!Encode(s) \/ Feed!EncodeFallback(s)
         \/ Feed!Retire /\ cap_pc' = cap_pc
         \/ cap_pc' = cap_pc /\ \E a \in Addrs : SentTo(a)
  <1>1. CASE Capture
    <2>1. cap_pc # "exited" /\ Kept
      BY <1>1 DEF Capture, CapCheck, CapNoDevice, CapGrab, CapAcquireFailed, CapWedge, CapDeviceLost,
                  CapEncode, CapSend, CapContinue, sndVars, Kept
    <2>. QED BY <1>1, <2>1, CaptureFeed, FeedSteps DEF FeedState
  <1>2. CASE Send
    <2>1. cap_pc' = cap_pc
      BY <1>2 DEF Send, SendCheck, SendRecv, SendAddrs, SendFragmented, SendFailed, Transmitted, capVars
    <2>. QED BY <1>2, <2>1, SendFeed DEF FeedState
  <1>3. CASE Main \/ Draw \/ CtrlC \/ UNCHANGED vars
    <2>1. UNCHANGED <<cap_pc, send_pc, sending, targets>>
      BY <1>3 DEF Main, MainCheck, Receive, JoinCapture, JoinSend, RequestKeyframe, OtherMessage,
                  Activate, handle_disconnect, Handled, Draw, CtrlC, vars, capVars, sndVars
    <2>. QED BY <1>3, <2>1, OtherFeed, FeedSteps DEF FeedState, Kept
  <1>. QED BY <1>1, <1>2, <1>3 DEF Next

\* A frame is put on the queue.
LEMMA Encodes ==
  ASSUME Typing, MaxSeq < SeqMod, NEW s \in Screens, Feed!Encode(s) \/ Feed!EncodeFallback(s)
  PROVE  \E f \in Frames :
            /\ Queued(f, s) /\ f.shows = s /\ f.msg_id = frame_seq + 1
            /\ frame_seq' = frame_seq + 1 /\ frame_seq < MaxSeq
            /\ f.kind = "delta" =>
                  Base # None /\ f.payload = delta_regions[s][changed(Base, s)]
  <1>1. frame_seq \in 0 .. SeqMod - 1
    BY DEF Typing, TypeOK
  <1>2. frame_seq < MaxSeq => next_seq(frame_seq) = frame_seq + 1
    BY <1>1, NextSeq, PipelineAssumption, EncoderAssumption
  <1>3. CASE Queued(FullFrame(frame_seq, s), s)
    BY <1>1, <1>2, <1>3, FramesMade DEF Queued
  <1>4. CASE /\ Queued(DeltaFrame(frame_seq, Base, s), s)
             /\ ~ WantsFull(force_full_next, frame_seq, Base, s)
    BY <1>1, <1>2, <1>4, FramesMade DEF Queued, WantsFull
  <1>. QED BY <1>3, <1>4, FeedEncodes

LEMMA InitOrder == Init => Order
  <1> SUFFICES ASSUME Init PROVE Order
    OBVIOUS
  <1>1. Front = <<>> /\ channel = <<>> /\ Back = <<>>
    BY DEF Init, Front, Back
  <1>2. InFlight = <<>> /\ Len(InFlight) = 0
    BY <1>1, EmptySeq, ConcatEmptySeq, FlightParts
  <1>. QED BY <1>2, PipelineAssumption DEF Init, Order, Numbered, Older

\* The frames on their way, of which the first is the one being transmitted.
LEMMA FlightFrames ==
  ASSUME Typing
  PROVE  /\ InFlight \in Seq(Frames) /\ Len(InFlight) \in Nat
         /\ \A k \in 1 .. Len(InFlight) : InFlight[k] \in Frames /\ InFlight[k].msg_id \in Nat
         /\ InFlight # <<>> => Len(InFlight) > 0 /\ Head(InFlight) = InFlight[1]
         /\ send_pc = "transmit" => InFlight # <<>> /\ InFlight[1] = sending
         /\ frame_seq \in Nat
         /\ \A a \in Addrs : last_sent[a] # None => last_sent[a] \in Frames /\ last_sent[a].msg_id \in Nat
  <1>1. InFlight \in Seq(Frames) /\ Len(InFlight) \in Nat
    BY Flight, LenProperties
  <1>2. \A k \in 1 .. Len(InFlight) : InFlight[k] \in Frames /\ InFlight[k].msg_id \in Nat
    <2>1. \A k \in 1 .. Len(InFlight) : InFlight[k] \in Frames
      BY <1>1, ElementOfSeq
    <2>. QED BY <2>1 DEF Frames
  <1>3. InFlight # <<>> => Len(InFlight) > 0 /\ Head(InFlight) = InFlight[1]
    BY <1>1, EmptySeq
  <1>4. ASSUME send_pc = "transmit" PROVE InFlight # <<>> /\ InFlight[1] = sending
    <2>1. sending \in Frames /\ Front = <<sending>>
      BY <1>4, FramesAreFrames DEF Typing, TypeOK, Front
    <2>2. channel \in Seq(Frames) /\ Back \in Seq(Frames)
      BY Flight
    <2>3. InFlight # <<>> /\ Head(InFlight) = sending
      BY <2>1, <2>2, QueueTail, FlightParts
    <2>. QED BY <1>3, <2>3
  <1>5. frame_seq \in Nat /\ last_sent \in [Addrs -> Frames \cup {None}]
    BY EncoderAssumption DEF Typing, TypeOK
  <1>6. \A f \in Frames : f.msg_id \in Nat
    BY DEF Frames
  <1>. QED BY <1>1, <1>2, <1>3, <1>4, <1>5, <1>6

LEMMA StepOrder ==
  ASSUME Typing, Typing', Order, [Next]_vars, MaxSeq < SeqMod
  PROVE  Order'
  <1> DEFINE q == InFlight
             n == Len(InFlight)
  <1>1. /\ q \in Seq(Frames) /\ n \in Nat /\ frame_seq \in Nat
        /\ \A k \in 1 .. n : q[k] \in Frames /\ q[k].msg_id \in Nat
        /\ q # <<>> => n > 0 /\ Head(q) = q[1]
        /\ send_pc = "transmit" => q # <<>> /\ q[1] = sending
        /\ \A a \in Addrs : last_sent[a] # None => last_sent[a].msg_id \in Nat
    BY FlightFrames
  <1>2. PICK top \in {frame_seq, frame_seq - 1} :
          /\ top # frame_seq => cap_pc = "exited"
          /\ \A k \in 1 .. n : q[k].msg_id = top - (n - k)
    BY DEF Order, Numbered
  <1>3. /\ frame_seq <= MaxSeq /\ MaxSeq \in Nat
        /\ \A a \in Addrs : last_sent[a] # None =>
              /\ last_sent[a].msg_id <= frame_seq
              /\ \A k \in 1 .. n :
                    \/ last_sent[a].msg_id < q[k].msg_id
                    \/ k = 1 /\ send_pc = "transmit" /\ a \notin targets /\ last_sent[a] = sending
    BY PipelineAssumption DEF Order, Numbered, Older
  <1> HIDE DEF q, n
  <1>4. CASE /\ UNCHANGED <<frame_seq, InFlight, last_sent>> /\ Kept
             /\ cap_pc = "exited" => cap_pc' = "exited"
    <2>1. Numbered'
      BY <1>2, <1>3, <1>4 DEF Numbered, q, n
    <2>2. Older'
      BY <1>3, <1>4 DEF Older, Kept, q, n
    <2>. QED BY <2>1, <2>2 DEF Order
  <1>5. CASE cap_pc # "exited" /\ Kept /\ Feed!Discard /\ cap_pc' = "exited"
    <2>1. /\ q # <<>> /\ InFlight' = SubSeq(q, 1, n - 1) /\ UNCHANGED <<frame_seq, last_sent>>
          /\ cap_pc' = "exited" /\ Kept /\ top = frame_seq
      BY <1>2, <1>5, FeedSteps DEF q, n
    <2>2. Len(InFlight') = n - 1 /\ \A k \in 1 .. n - 1 : InFlight'[k] = q[k]
      <3>1. \A k \in 1 .. n - 1 : q[k] \in Frames
        BY <1>1
      <3>2. /\ Len(SubSeq(q, 1, n - 1)) = IF 1 <= n - 1 THEN n - 1 - 1 + 1 ELSE 0
            /\ \A k \in 1 .. n - 1 - 1 + 1 : SubSeq(q, 1, n - 1)[k] = q[1 + k - 1]
        BY <1>1, <3>1, SubSeqProperties
      <3>. QED BY <1>1, <2>1, <3>2
    <2>3. Numbered'
      <3>1. ASSUME NEW k \in 1 .. n - 1
            PROVE  InFlight'[k].msg_id = frame_seq - 1 - (n - 1 - k)
        <4>1. k \in 1 .. n /\ InFlight'[k] = q[k]
          BY <1>1, <2>2
        <4>2. q[k].msg_id = frame_seq - (n - k)
          BY <1>2, <2>1, <4>1
        <4>. QED BY <1>1, <4>1, <4>2
      <3>. QED BY <1>1, <1>3, <2>1, <2>2, <3>1 DEF Numbered
    <2>4. Older'
      BY <1>1, <1>3, <2>1, <2>2 DEF Older, Kept
    <2>. QED BY <2>3, <2>4 DEF Order
  <1>6. CASE cap_pc # "exited" /\ Kept /\ \E s \in Screens : Feed!Encode(s) \/ Feed!EncodeFallback(s)
    <2>1. PICK f \in Frames, s \in Screens :
             /\ Queued(f, s) /\ f.msg_id = frame_seq + 1
             /\ frame_seq' = frame_seq + 1 /\ frame_seq < MaxSeq
      BY <1>6, Encodes
    <2>2. /\ InFlight' = Append(q, f) /\ UNCHANGED last_sent /\ Kept /\ top = frame_seq
      BY <1>2, <1>6, <2>1 DEF Queued, q
    <2>3. /\ Len(InFlight') = n + 1 /\ InFlight'[n + 1] = f
          /\ \A k \in 1 .. n : InFlight'[k] = q[k]
      BY <1>1, <2>2, AppendProperties DEF n, q
    <2>4. Numbered'
      <3>1. ASSUME NEW k \in 1 .. n + 1
            PROVE  InFlight'[k].msg_id = frame_seq' - (Len(InFlight') - k)
        <4>1. CASE k = n + 1
          BY <1>1, <2>1, <2>3, <4>1
        <4>2. CASE k \in 1 .. n
          <5>1. q[k].msg_id = frame_seq - (n - k) /\ InFlight'[k] = q[k]
            BY <1>2, <2>2, <2>3, <4>2
          <5>. QED BY <1>1, <2>1, <2>3, <4>2, <5>1
        <4>. QED BY <1>1, <4>1, <4>2
      <3>2. frame_seq' <= MaxSeq
        BY <1>1, <1>3, <2>1
      <3>. QED BY <2>3, <3>1, <3>2 DEF Numbered
    <2>5. Older'
      BY <1>1, <1>3, <2>1, <2>2, <2>3 DEF Older, Kept
    <2>. QED BY <2>4, <2>5 DEF Order
  <1>7. CASE Feed!Retire /\ cap_pc' = cap_pc
    <2>1. q # <<>> /\ InFlight' = Tail(q) /\ UNCHANGED <<frame_seq, last_sent, cap_pc>>
      BY <1>7, FeedSteps DEF q
    <2>2. Len(InFlight') = n - 1 /\ \A k \in 1 .. n - 1 : InFlight'[k] = q[k + 1]
      BY <1>1, <2>1, HeadTailProperties DEF n, q
    <2>3. Numbered'
      <3>1. \A k \in 1 .. n - 1 : InFlight'[k].msg_id = top - (n - 1 - k)
        BY <1>1, <1>2, <2>2
      <3>. QED BY <1>1, <1>2, <1>3, <2>1, <2>2, <3>1 DEF Numbered
    <2>4. Older'
      BY <1>1, <1>3, <2>1, <2>2 DEF Older
    <2>. QED BY <2>3, <2>4 DEF Order
  <1>8. CASE cap_pc' = cap_pc /\ \E a \in Addrs : SentTo(a)
    <2>1. PICK a \in Addrs : SentTo(a)
      BY <1>8
    <2>2. /\ n > 0 /\ q # <<>> /\ UNCHANGED <<frame_seq, cap_pc>>
          /\ last_sent' = [last_sent EXCEPT ![a] = q[1]]
      BY <1>1, <1>8, <2>1, FeedSteps DEF SentTo, q
    <2>3. \A b \in Addrs : last_sent'[b] = IF b = a THEN q[1] ELSE last_sent[b]
      BY <2>2 DEF Typing
    <2>4. q[1].msg_id <= frame_seq /\ \A k \in 2 .. n : q[1].msg_id < q[k].msg_id
      BY <1>1, <1>2, <2>2
    <2>5. CASE InFlight' = Tail(q)
      <3>1. Len(InFlight') = n - 1 /\ \A k \in 1 .. n - 1 : InFlight'[k] = q[k + 1]
        BY <1>1, <2>2, <2>5, HeadTailProperties DEF n, q
      <3>2. Numbered'
        <4>1. \A k \in 1 .. n - 1 : InFlight'[k].msg_id = top - (n - 1 - k)
          BY <1>1, <1>2, <3>1
        <4>. QED BY <1>1, <1>2, <1>3, <2>2, <3>1, <4>1 DEF Numbered
      <3>3. ASSUME NEW b \in Addrs, last_sent'[b] # None
            PROVE  /\ last_sent'[b].msg_id <= frame_seq'
                   /\ \A k \in 1 .. Len(InFlight') : last_sent'[b].msg_id < InFlight'[k].msg_id
        <4>1. CASE b = a
          BY <1>1, <2>2, <2>3, <2>4, <3>1, <4>1
        <4>2. CASE b # a
          <5>1. last_sent'[b] = last_sent[b] /\ last_sent[b] # None
            BY <2>3, <3>3, <4>2
          <5>2. last_sent[b].msg_id <= frame_seq
            BY <1>3, <5>1
          <5>3. ASSUME NEW k \in 1 .. n - 1
                PROVE  last_sent[b].msg_id < q[k + 1].msg_id
            <6>1. k + 1 \in 1 .. n /\ k + 1 # 1
              BY <1>1
            <6>. QED BY <1>3, <5>1, <6>1
          <5>. QED BY <2>2, <3>1, <5>1, <5>2, <5>3
        <4>. QED BY <4>1, <4>2
      <3>4. Older'
        BY <3>3 DEF Older
      <3>. QED BY <3>2, <3>4 DEF Order
    <2>6. CASE InFlight' = q /\ send_pc = "transmit" /\ Kept /\ a \notin targets'
      <3>1. Len(InFlight') = n
        BY <2>6 DEF n, q
      <3>2. Numbered'
        BY <1>2, <1>3, <2>2, <2>6, <3>1 DEF Numbered
      <3>3. q[1] = sending /\ sending' = sending /\ send_pc' = "transmit" /\ targets' \subseteq targets
        BY <1>1, <2>6 DEF Kept
      <3>4. Older'
        BY <1>1, <1>3, <2>2, <2>3, <2>4, <2>6, <3>1, <3>3 DEF Older
      <3>. QED BY <3>2, <3>4 DEF Order
    <2>. QED BY <2>1, <2>5, <2>6 DEF SentTo, q
  <1>. QED BY <1>4, <1>5, <1>6, <1>7, <1>8, Steps

LEMMA Orders ==
  ASSUME MaxSeq < SeqMod
  PROVE  Spec => [](Typing /\ Order)
  <1>1. Init => Typing /\ Order
    BY InitTyping, InitOrder
  <1>2. Typing /\ Order /\ [Next]_vars => (Typing /\ Order)'
    BY StepTyping, StepOrder
  <1>. QED BY <1>1, <1>2, PTL DEF Spec

\* The pipeline's safety invariant: until frame_seq wraps, the frames on their way
\* are numbered without a hole, and what a client was sent is older than them.
THEOREM PipelineOrdered ==
  ASSUME MaxSeq < SeqMod
  PROVE  Spec => []PipelineOrder
  <1>1. Typing /\ Order => PipelineOrder
    <2> SUFFICES ASSUME Typing, Order PROVE PipelineOrder
      OBVIOUS
    <2> DEFINE n == Len(InFlight)
    <2>1. n \in Nat /\ frame_seq \in Nat
      BY FlightFrames
    <2>2. PICK top \in {frame_seq, frame_seq - 1} :
             /\ top # frame_seq => cap_pc = "exited"
             /\ \A k \in 1 .. n : InFlight[k].msg_id = top - (n - k)
      BY DEF Order, Numbered
    <2> HIDE DEF n
    <2>3. n > 0 => InFlight[n].msg_id = top
      BY <2>1, <2>2
    <2>4. \A k \in 1 .. n : InFlight[k].msg_id = InFlight[n].msg_id - (n - k)
      BY <2>1, <2>2, <2>3
    <2>5. n > 0 => \/ InFlight[n].msg_id = frame_seq
                   \/ cap_pc = "exited" /\ InFlight[n].msg_id = frame_seq - 1
      BY <2>2, <2>3
    <2>. QED BY <2>4, <2>5 DEF Order, Older, PipelineOrder, n
  <1>. QED BY <1>1, Orders, PTL

\* What an address is sent next is a frame on its way, younger than the last.
LEMMA SentNext ==
  ASSUME Typing, Order, [Next]_vars, NEW a \in Addrs, last_sent'[a] # last_sent[a]
  PROVE  /\ InFlight # <<>> /\ Len(InFlight) > 0 /\ last_sent'[a] = InFlight[1]
         /\ last_sent[a] # None => last_sent[a].msg_id < InFlight[1].msg_id
  <1>1. last_sent \in [Addrs -> Frames \cup {None}]
    BY DEF Typing
  <1>2. PICK b \in Addrs : SentTo(b)
    BY Steps, FeedSteps DEF Queued, Feed!Encode, Feed!EncodeFallback
  <1>3. /\ InFlight # <<>> /\ last_sent[b] # Head(InFlight)
        /\ last_sent' = [last_sent EXCEPT ![b] = Head(InFlight)]
    BY <1>2, FeedSteps DEF SentTo
  <1>4. a = b /\ last_sent'[a] = Head(InFlight)
    BY <1>1, <1>3
  <1>5. Len(InFlight) > 0 /\ Head(InFlight) = InFlight[1] /\ Len(InFlight) \in Nat
        /\ (send_pc = "transmit" => InFlight[1] = sending)
    BY <1>3, FlightFrames
  <1>6. ASSUME last_sent[a] # None
        PROVE  last_sent[a].msg_id < InFlight[1].msg_id
    <2>1. 1 \in 1 .. Len(InFlight)
      BY <1>5
    <2>. QED BY <1>3, <1>4, <1>5, <1>6, <2>1 DEF Order, Older
  <1>. QED BY <1>3, <1>4, <1>5, <1>6

\* A client is never sent a frame older than, or the same as, the one before, until
\* frame_seq wraps.
THEOREM PipelineWireOrder ==
  ASSUME MaxSeq < SeqMod
  PROVE  Spec => WireOrder
  <1>1. Typing /\ Order /\ [Next]_vars =>
          [\A a \in Addrs : last_sent'[a] # last_sent[a] /\ last_sent[a] # None =>
              last_sent'[a].msg_id > last_sent[a].msg_id]_vars
    <2> SUFFICES ASSUME Typing, Order, [Next]_vars, NEW a \in Addrs,
                        last_sent'[a] # last_sent[a], last_sent[a] # None
                 PROVE  last_sent'[a].msg_id > last_sent[a].msg_id
      OBVIOUS
    <2>1. /\ Len(InFlight) > 0 /\ last_sent'[a] = InFlight[1]
          /\ last_sent[a].msg_id < InFlight[1].msg_id
      BY SentNext
    <2>2. Len(InFlight) \in Nat /\ last_sent[a].msg_id \in Nat /\ InFlight[1].msg_id \in Nat
      BY <2>1, FlightFrames
    <2>. QED BY <2>1, <2>2
  <1>. QED BY <1>1, Orders, PTL DEF Spec, WireOrder
-----------------------------------------------------------------------------
(* What a delta is relative to. *)

\* The frames on their way, and those an address was sent last.
Known ==
    {InFlight[k] : k \in 1 .. Len(InFlight)}
    \cup {last_sent[a] : a \in {b \in Addrs : last_sent[b] # None}}

\* The base is of the frame numbered frame_seq, and a delta makes of what the frame
\* numbered before it shows what it shows itself.
Deltas ==
    /\ \A f \in Known :
          /\ f.msg_id <= frame_seq
          /\ f.msg_id = frame_seq /\ Base # None =>
                Base = compute_tile_checksums[f.shows] /\ Extent = Size(f.shows)
    /\ \A f, g \in Known :
          g.kind = "delta" /\ g.msg_id = f.msg_id + 1 => apply_regions(f.shows, g.payload) = g.shows

LEMMA KnownFrames ==
  ASSUME Typing
  PROVE  \A f \in Known : f \in Frames /\ f.msg_id \in Nat /\ f.shows \in Screens
  <1>1. Known \subseteq Frames
    BY FlightFrames DEF Known
  <1>. QED BY <1>1 DEF Frames

\* Only an encoded frame is new.
LEMMA KnownSteps ==
  ASSUME Typing, [Next]_vars, MaxSeq < SeqMod
  PROVE  \/ /\ Known' \subseteq Known /\ frame_seq' = frame_seq
            /\ (Base' = Base /\ Extent' = Extent) \/ Base' = None
         \/ \E f \in Frames, s \in Screens :
               /\ Queued(f, s) /\ f.shows = s /\ f.msg_id = frame_seq + 1
               /\ frame_seq' = frame_seq + 1
               /\ f.kind = "delta" => Base # None /\ f.payload = delta_regions[s][changed(Base, s)]
               /\ Known' \subseteq Known \cup {f}
  <1> DEFINE q == InFlight
             n == Len(InFlight)
  <1>1. /\ q \in Seq(Frames) /\ n \in Nat
        /\ q # <<>> => n > 0 /\ Head(q) = q[1]
    BY FlightFrames
  <1>2. Known = {q[k] : k \in 1 .. n} \cup {last_sent[a] : a \in {b \in Addrs : last_sent[b] # None}}
    BY DEF Known
  <1>3. Known' = {InFlight'[k] : k \in 1 .. Len(InFlight')}
                 \cup {last_sent'[a] : a \in {b \in Addrs : last_sent'[b] # None}}
    BY DEF Known
  <1>4. Len(q) = n
    OBVIOUS
  <1> HIDE DEF n, q
  <1>5. ASSUME q # <<>>, InFlight' = Tail(q)
        PROVE  \A k \in 1 .. Len(InFlight') : k + 1 \in 1 .. n /\ InFlight'[k] = q[k + 1]
    BY <1>1, <1>4, <1>5, HeadTailProperties
  <1>6. CASE UNCHANGED <<frame_seq, InFlight, last_sent>> /\ ((Base' = Base /\ Extent' = Extent) \/ Base' = None)
    BY <1>2, <1>3, <1>6 DEF q, n
  <1>7. CASE Feed!Discard
    <2>1. /\ q # <<>> /\ InFlight' = SubSeq(q, 1, n - 1) /\ UNCHANGED <<frame_seq, last_sent, Base, Extent>>
      BY <1>7, FeedSteps DEF q, n
    <2>2. \A k \in 1 .. n - 1 : q[k] \in Frames
      BY <1>1, <1>4, ElementOfSeq
    <2>3. /\ Len(SubSeq(q, 1, n - 1)) = IF 1 <= n - 1 THEN n - 1 - 1 + 1 ELSE 0
          /\ \A k \in 1 .. n - 1 - 1 + 1 : SubSeq(q, 1, n - 1)[k] = q[1 + k - 1]
      BY <1>1, <2>2, SubSeqProperties
    <2>4. \A k \in 1 .. Len(InFlight') : k \in 1 .. n /\ InFlight'[k] = q[k]
      BY <1>1, <2>1, <2>3
    <2>. QED BY <1>2, <1>3, <2>1, <2>4
  <1>8. CASE Feed!Retire
    <2>1. q # <<>> /\ InFlight' = Tail(q) /\ UNCHANGED <<frame_seq, last_sent, Base, Extent>>
      BY <1>8, FeedSteps DEF q
    <2>. QED BY <1>2, <1>3, <1>5, <2>1
  <1>9. CASE \E a \in Addrs : SentTo(a)
    <2>1. PICK a \in Addrs : SentTo(a)
      BY <1>9
    <2>2. /\ q # <<>> /\ last_sent' = [last_sent EXCEPT ![a] = q[1]] /\ n > 0
          /\ InFlight' \in {q, Tail(q)} /\ UNCHANGED <<frame_seq, Base, Extent>>
      BY <1>1, <2>1, FeedSteps DEF SentTo, q
    <2>3. 1 \in 1 .. n /\ \A k \in 1 .. Len(InFlight') : \E j \in 1 .. n : InFlight'[k] = q[j]
      BY <1>1, <1>4, <1>5, <2>2
    <2>4. \A b \in Addrs : last_sent'[b] = q[1] \/ last_sent'[b] = last_sent[b]
      BY <2>2 DEF Typing
    <2>. QED BY <1>2, <1>3, <2>2, <2>3, <2>4
  <1>10. CASE \E s \in Screens : Feed!Encode(s) \/ Feed!EncodeFallback(s)
    <2>1. PICK f \in Frames, s \in Screens :
             /\ Queued(f, s) /\ f.shows = s /\ f.msg_id = frame_seq + 1 /\ frame_seq' = frame_seq + 1
             /\ f.kind = "delta" => Base # None /\ f.payload = delta_regions[s][changed(Base, s)]
      BY <1>10, Encodes
    <2>2. InFlight' = Append(q, f) /\ UNCHANGED last_sent
      BY <2>1 DEF Queued, q
    <2>3. \A k \in 1 .. Len(InFlight') : InFlight'[k] = f \/ (k \in 1 .. n /\ InFlight'[k] = q[k])
      BY <1>1, <1>4, <2>2, AppendProperties
    <2>4. Known' \subseteq Known \cup {f}
      BY <1>2, <1>3, <2>2, <2>3
    <2>. QED BY <2>1, <2>4
  <1>. QED BY <1>6, <1>7, <1>8, <1>9, <1>10, Steps

LEMMA StepDeltas ==
  ASSUME Typing, Deltas, [Next]_vars, MaxSeq < SeqMod
  PROVE  Deltas'
  <1>1. /\ frame_seq \in Nat
        /\ \A f \in Known : f.msg_id \in Nat /\ f.shows \in Screens
    BY FlightFrames, KnownFrames
  <1>2. CASE /\ Known' \subseteq Known /\ frame_seq' = frame_seq
             /\ (Base' = Base /\ Extent' = Extent) \/ Base' = None
    BY <1>2 DEF Deltas
  <1>3. ASSUME NEW f \in Frames, NEW s \in Screens,
               Queued(f, s), f.shows = s, f.msg_id = frame_seq + 1, frame_seq' = frame_seq + 1,
               f.kind = "delta" => Base # None /\ f.payload = delta_regions[s][changed(Base, s)],
               Known' \subseteq Known \cup {f}
        PROVE  Deltas'
    <2>1. \A g \in Known : g.msg_id <= frame_seq
      BY DEF Deltas
    <2>2. Base' = compute_tile_checksums[s] /\ Extent' = Size(s) /\ Extent \in {None, Size(s)}
      BY <1>3 DEF Queued
    <2>3. ASSUME NEW g \in Known'
          PROVE  /\ g.msg_id <= frame_seq'
                 /\ g.msg_id = frame_seq' =>
                      Base' = compute_tile_checksums[g.shows] /\ Extent' = Size(g.shows)
      BY <1>1, <1>3, <2>1, <2>2
    <2>4. ASSUME NEW g \in Known, f.kind = "delta", f.msg_id = g.msg_id + 1
          PROVE  apply_regions(g.shows, f.payload) = f.shows
      <3>1. g.msg_id = frame_seq /\ g.shows \in Screens
        BY <1>1, <1>3, <2>4
      <3>2. Base # None /\ Base = compute_tile_checksums[g.shows] /\ Extent = Size(g.shows)
        BY <1>3, <2>4, <3>1 DEF Deltas
      <3>3. Size(g.shows) = Size(s)
        BY <2>2, <3>1, <3>2, NoneAssumption
      <3>. QED BY <1>3, <2>4, <3>1, <3>2, <3>3, DeltaApplies
    <2>5. ASSUME NEW g \in Known', NEW h \in Known', h.kind = "delta", h.msg_id = g.msg_id + 1
          PROVE  apply_regions(g.shows, h.payload) = h.shows
      <3>1. CASE h = f
        BY <1>1, <1>3, <2>4, <2>5, <3>1
      <3>2. CASE h \in Known /\ g = f
        BY <1>1, <1>3, <2>1, <2>5, <3>2
      <3>3. CASE h \in Known /\ g \in Known
        BY <2>5, <3>3 DEF Deltas
      <3>. QED BY <1>3, <3>1, <3>2, <3>3
    <2>. QED BY <2>3, <2>5 DEF Deltas
  <1>. QED BY <1>2, <1>3, KnownSteps

\* A delta is relative to the frame numbered just before it: a client that shows
\* that one and applies the delta shows the screen the delta was encoded from,
\* whatever errors, device losses and keyframe requests came in between, until
\* frame_seq wraps.
THEOREM PipelineDeltaBase ==
  ASSUME MaxSeq < SeqMod
  PROVE  Spec => DeltaBase
  <1>1. Init => Typing /\ Deltas
    <2> SUFFICES ASSUME Init PROVE Deltas
      BY InitTyping
    <2>1. Front = <<>> /\ channel = <<>> /\ Back = <<>>
      BY DEF Init, Front, Back
    <2>2. Len(InFlight) = 0
      BY <2>1, EmptySeq, ConcatEmptySeq, FlightParts
    <2>3. Known = {}
      BY <2>2 DEF Init, Known
    <2>. QED BY <2>3 DEF Deltas
  <1>2. Typing /\ Deltas /\ [Next]_vars => (Typing /\ Deltas)'
    BY StepTyping, StepDeltas
  <1>3. Typing /\ Order /\ Deltas /\ [Next]_vars =>
          [\A a \in Addrs :
              LET old == last_sent[a]  new == last_sent'[a] IN
              /\ new # old /\ old # None
              /\ new.kind = "delta" /\ new.msg_id = old.msg_id + 1
              => apply_regions(old.shows, new.payload) = new.shows]_vars
    <2> SUFFICES ASSUME Typing, Order, Deltas, [Next]_vars, NEW a \in Addrs,
                        last_sent'[a] # last_sent[a], last_sent[a] # None,
                        last_sent'[a].kind = "delta", last_sent'[a].msg_id = last_sent[a].msg_id + 1
                 PROVE  apply_regions(last_sent[a].shows, last_sent'[a].payload) = last_sent'[a].shows
      OBVIOUS
    <2>1. Len(InFlight) > 0 /\ last_sent'[a] = InFlight[1] /\ Len(InFlight) \in Nat
      BY SentNext, FlightFrames
    <2>2. last_sent[a] \in Known /\ last_sent'[a] \in Known
      BY <2>1 DEF Known
    <2>. QED BY <2>2 DEF Deltas
  <1>. QED BY <1>1, <1>2, <1>3, Orders, PTL DEF Spec, DeltaBase
=============================================================================
