------------------------- MODULE ScreenStreamProofs -------------------------
(***************************************************************************)
(* Proofs about the screen of the host at one client: a client that has    *)
(* missed nothing since a full frame shows the host's screen, and one that *)
(* has is whole again after KEYFRAME_INTERVAL frames without a loss.       *)
(***************************************************************************)
EXTENDS ScreenStream, TilesProofs, SequenceTheorems

-----------------------------------------------------------------------------
(* Pictures. *)

\* A picture of the size of some screen.
Picture(p) ==
    \E s \in Screens : /\ p = [width |-> s.width, height |-> s.height, pixels |-> p.pixels]
                       /\ DOMAIN p.pixels = DOMAIN s.pixels

\* A full frame makes a picture of its own: the screen it was encoded from.
LEMMA FullPicture ==
  ASSUME NEW f \in Frames, f.kind = "full"
  PROVE  /\ [width |-> f.size[1], height |-> f.size[2], pixels |-> f.payload] = f.shows
         /\ Picture(f.shows)
  <1> DEFINE s == f.shows
  <1>1. s \in Screens /\ f.payload = s.pixels /\ f.size = Size(s)
    <2>1. IsFrame(f)
      BY FramesAreFrames
    <2>. QED BY <2>1 DEF IsFrame, Frame
  <1>2. s = [width |-> s.width, height |-> s.height, pixels |-> s.pixels]
    BY <1>1, ScreensAssumption
  <1> HIDE DEF s
  <1>. QED BY <1>1, <1>2 DEF Size, Picture, s

\* A delta keeps the size of the picture.
LEMMA DeltaPicture ==
  ASSUME NEW p, Picture(p), NEW regions
  PROVE  Picture(apply_regions(p, regions))
  <1>1. PICK s \in Screens : /\ p = [width |-> s.width, height |-> s.height, pixels |-> p.pixels]
                             /\ DOMAIN p.pixels = DOMAIN s.pixels
    BY DEF Picture
  <1> DEFINE pixels == ApplyRegions(p.pixels, p.width, p.height, regions)
  <1>2. apply_regions(p, regions) = [width |-> s.width, height |-> s.height, pixels |-> pixels]
    BY <1>1 DEF apply_regions
  <1>3. DOMAIN pixels = DOMAIN s.pixels
    <2>1. DOMAIN pixels = 0 .. s.width * s.height - 1
      BY <1>1 DEF ApplyRegions
    <2>2. DOMAIN s.pixels = 0 .. s.width * s.height - 1
      BY ScreensAssumption
    <2>. QED BY <2>1, <2>2
  <1> HIDE DEF pixels
  <1>. QED BY <1>2, <1>3 DEF Picture
-----------------------------------------------------------------------------
(* Types. *)

Typing ==
    /\ requested \in BOOLEAN /\ seq \in 0 .. SeqMod - 1
    /\ base \in Checksums \cup {None} /\ extent \in {Size(s) : s \in Screens} \cup {None}
    /\ queue \in Seq(Frames) /\ Len(queue) <= QueueCap
    /\ net \in Seq(Frames) /\ Len(net) <= NetCap
    /\ last_sent \in [Addrs -> Frames \cup {None}]
    /\ joined \in BOOLEAN /\ requests \in Nat /\ losses \in 0 .. MaxLoss
    /\ persistent_bgra # None => Picture(persistent_bgra)
    /\ last_applied_msg_id \in 0 .. SeqMod - 1 /\ last_seen \in 0 .. SeqMod - 1
    /\ kf_recent \in BOOLEAN /\ clean \in BOOLEAN /\ unreported \in BOOLEAN
    /\ truth \in Screens \cup {None} /\ dirty \in Nat

\* Sequences of frames.
LEMMA FrameSeq ==
  ASSUME NEW q \in Seq(Frames)
  PROVE  /\ Len(q) \in Nat /\ (q = <<>> <=> Len(q) = 0)
         /\ \A k \in 1 .. Len(q) : q[k] \in Frames /\ IsFrame(q[k])
         /\ q # <<>> => /\ Len(q) > 0 /\ Head(q) = q[1] /\ Head(q) \in Frames
                        /\ Tail(q) \in Seq(Frames) /\ Len(Tail(q)) = Len(q) - 1
                        /\ \A k \in 1 .. Len(q) - 1 : Tail(q)[k] = q[k + 1]
         /\ \A f \in Frames :
               /\ Append(q, f) \in Seq(Frames) /\ Len(Append(q, f)) = Len(q) + 1
               /\ Append(q, f)[Len(q) + 1] = f /\ \A k \in 1 .. Len(q) : Append(q, f)[k] = q[k]
  <1>1. Len(q) \in Nat /\ \A k \in 1 .. Len(q) : q[k] \in Frames /\ IsFrame(q[k])
    BY LenProperties, ElementOfSeq, FramesAreFrames
  <1>2. q # <<>> => /\ Len(q) > 0 /\ Head(q) = q[1] /\ Head(q) \in Frames
                    /\ Tail(q) \in Seq(Frames) /\ Len(Tail(q)) = Len(q) - 1
                    /\ \A k \in 1 .. Len(q) - 1 : Tail(q)[k] = q[k + 1]
    BY HeadTailProperties, EmptySeq, LenProperties
  <1>3. ASSUME NEW f \in Frames
        PROVE  /\ Append(q, f) \in Seq(Frames) /\ Len(Append(q, f)) = Len(q) + 1
               /\ Append(q, f)[Len(q) + 1] = f /\ \A k \in 1 .. Len(q) : Append(q, f)[k] = q[k]
    BY AppendProperties
  <1>4. q = <<>> <=> Len(q) = 0
    BY EmptySeq
  <1>. QED BY <1>1, <1>2, <1>3, <1>4

\* A screen is encoded: a frame is put on the queue.  A delta is relative to the
\* base, and no keyframe was due.
LEMMA Encodes ==
  ASSUME Typing, NEW s \in Screens, Encode(s) \/ EncodeFallback(s)
  PROVE  \E f \in Frames :
            /\ f.shows = s /\ f.msg_id = next_seq(seq) /\ queue' = Append(queue, f)
            /\ Len(queue) < QueueCap /\ extent \in {None, Size(s)}
            /\ requested' = FALSE /\ seq' = next_seq(seq) /\ next_seq(seq) \in 0 .. SeqMod - 1
            /\ base' = compute_tile_checksums[s] /\ extent' = Size(s)
            /\ UNCHANGED last_sent
            /\ f.kind = "delta" =>
                  /\ base # None /\ f.payload = delta_regions[s][changed(base, s)]
                  /\ ~ force_full(requested, seq)
  <1>1. seq \in 0 .. SeqMod - 1
    BY DEF Typing
  <1>2. next_seq(seq) \in 0 .. SeqMod - 1
    BY <1>1, NextSeq
  <1>3. CASE queue' = Append(queue, FullFrame(seq, s))
    BY <1>1, <1>2, <1>3, FramesMade DEF Encode, EncodeFallback, MayEncode
  <1>4. CASE queue' = Append(queue, DeltaFrame(seq, base, s)) /\ ~ WantsFull(requested, seq, base, s)
    BY <1>1, <1>2, <1>4, FramesMade DEF Encode, EncodeFallback, MayEncode, WantsFull
  <1>. QED BY <1>3, <1>4 DEF Encode, EncodeFallback

LEMMA InitTyping == Init => Typing
  <1> SUFFICES ASSUME Init PROVE Typing
    OBVIOUS
  <1>1. /\ Len(queue) = 0 /\ Len(net) = 0 /\ queue \in Seq(Frames) /\ net \in Seq(Frames)
    BY DEF Init, FeedInit
  <1>2. 0 \in 0 .. SeqMod - 1 /\ 0 \in 0 .. MaxLoss /\ 0 <= QueueCap /\ 0 <= NetCap
    BY EncoderAssumption, StreamAssumption
  <1>3. last_sent \in [Addrs -> Frames \cup {None}]
    BY DEF Init, FeedInit
  <1>. QED BY <1>1, <1>2, <1>3 DEF Init, FeedInit, Typing

\* The steps of the host keep the types.
LEMMA HostTyping ==
  ASSUME Typing,
         \/ HostEncode \/ HostEncodeFails \/ HostLosesDevice \/ Join
         \/ HostTransmit \/ HostRetire \/ HostAbandon \/ HostReceiveRequest
  PROVE  Typing'
  <1> USE DEF Typing
  <1>1. CASE HostEncode
    <2>1. PICK s \in Screens : Encode(s) \/ EncodeFallback(s)
      BY <1>1 DEF HostEncode
    <2>2. PICK f \in Frames :
            /\ queue' = Append(queue, f) /\ Len(queue) < QueueCap
            /\ requested' = FALSE /\ seq' \in 0 .. SeqMod - 1
            /\ base' = compute_tile_checksums[s] /\ extent' = Size(s)
            /\ UNCHANGED last_sent
      BY <2>1, Encodes
    <2>3. queue' \in Seq(Frames) /\ Len(queue') <= QueueCap
      BY <2>2, FrameSeq, StreamAssumption
    <2>4. base' \in Checksums
      BY <2>2 DEF Checksums
    <2>. QED BY <1>1, <2>2, <2>3, <2>4 DEF HostEncode, link, receiver
  <1>2. CASE HostEncodeFails
    <2>1. losses' \in 0 .. MaxLoss
      BY <1>2, StreamAssumption DEF HostEncodeFails, Lost
    <2>. QED BY <1>2, <2>1 DEF HostEncodeFails, EncodeFailed, receiver
  <1>3. CASE HostLosesDevice
    BY <1>3 DEF HostLosesDevice, LoseBase, link, receiver
  <1>4. CASE Join
    BY <1>4 DEF Join, feedVars, receiver
  <1>5. CASE HostTransmit
    <2>1. /\ queue # <<>> /\ Len(net) < NetCap /\ net' = Append(net, Head(queue))
          /\ last_sent' = [last_sent EXCEPT ![Client] = Head(queue)]
          /\ queue' = queue \/ queue' = Tail(queue)
          /\ UNCHANGED <<requested, base, extent, seq, joined, requests, losses, receiver>>
      BY <1>5 DEF HostTransmit, Transmit
    <2>2. queue' \in Seq(Frames) /\ Len(queue') <= QueueCap
      <3>1. /\ Tail(queue) \in Seq(Frames) /\ Len(Tail(queue)) = Len(queue) - 1 /\ Len(queue) \in Nat
        BY <2>1, FrameSeq
      <3>2. Len(Tail(queue)) <= QueueCap
        BY <3>1, StreamAssumption
      <3>. QED BY <2>1, <3>1, <3>2
    <2>3. net' \in Seq(Frames) /\ Len(net') <= NetCap
      BY <2>1, FrameSeq, StreamAssumption
    <2>4. last_sent' \in [Addrs -> Frames \cup {None}]
      BY <2>1, FrameSeq
    <2>. QED BY <2>1, <2>2, <2>3, <2>4 DEF receiver
  <1>6. CASE HostRetire \/ HostAbandon
    <2>1. /\ queue # <<>> /\ queue' = Tail(queue)
          /\ UNCHANGED <<requested, base, extent, seq, last_sent, joined, net, requests, persistent_bgra,
                         last_applied_msg_id, kf_recent, truth, clean, last_seen, dirty>>
          /\ losses' = losses \/ (losses < MaxLoss /\ losses' = losses + 1)
          /\ unreported' \in BOOLEAN
      BY <1>6 DEF HostRetire, HostAbandon, Retire, Lost, link, receiver
    <2>2. queue' \in Seq(Frames) /\ Len(queue') <= QueueCap
      BY <2>1, FrameSeq, StreamAssumption
    <2>. QED BY <2>1, <2>2, StreamAssumption
  <1>7. CASE HostReceiveRequest
    BY <1>7 DEF HostReceiveRequest, Request, receiver
  <1>. QED BY <1>1, <1>2, <1>3, <1>4, <1>5, <1>6, <1>7

\* So do those of the receiver and the network.
LEMMA ClientTyping ==
  ASSUME Typing, Receive \/ ReceivePart \/ ReceiveGarbled \/ KeyframeTimer \/ LoseFrame \/ LoseRequest
  PROVE  Typing'
  <1> USE DEF Typing
  <1>1. ASSUME net # <<>>
        PROVE  /\ Tail(net) \in Seq(Frames) /\ Len(Tail(net)) <= NetCap /\ Head(net) \in Frames
               /\ Head(net).msg_id \in 0 .. SeqMod - 1 /\ Head(net).shows \in Screens
    <2>1. /\ Tail(net) \in Seq(Frames) /\ Len(Tail(net)) = Len(net) - 1 /\ Head(net) \in Frames
          /\ Len(net) \in Nat
      BY <1>1, FrameSeq
    <2>. QED BY <2>1, StreamAssumption DEF Frames
  <1>2. ASSUME NEW f, UNCHANGED <<requests, kf_recent>> \/ request_keyframe \/ GapDetection(f)
        PROVE  requests' \in Nat /\ kf_recent' \in BOOLEAN
    <2>1. CASE UNCHANGED <<requests, kf_recent>>
      BY <2>1
    <2>2. CASE requests' = requests + 1 /\ kf_recent' = TRUE
      BY <2>2
    <2>. QED BY <1>2, <2>1, <2>2 DEF GapDetection, request_keyframe
  <1>3. ASSUME NEW repaired \in BOOLEAN, Reported(repaired)
        PROVE  unreported' \in BOOLEAN
    BY <1>3 DEF Reported
  <1>4. ASSUME NEW f, f.msg_id \in 0 .. SeqMod - 1, clean' \in BOOLEAN, Counted(f)
        PROVE  last_seen' \in 0 .. SeqMod - 1 /\ dirty' \in Nat
    BY <1>4 DEF Counted
  <1>5. Lost => losses' \in 0 .. MaxLoss
    BY StreamAssumption DEF Lost
  <1>6. CASE ReceiveFull
    <2> DEFINE f == Head(net)
    <2>1. /\ net # <<>> /\ net' = Tail(net) /\ f.kind = "full" /\ GapDetection(f) /\ Reported(TRUE)
          /\ persistent_bgra' = [width |-> f.size[1], height |-> f.size[2], pixels |-> f.payload]
          /\ last_applied_msg_id' = f.msg_id /\ truth' = f.shows /\ clean' = TRUE /\ Counted(f)
          /\ UNCHANGED <<requested, base, extent, seq, queue, last_sent, joined, losses>>
      BY <1>6 DEF ReceiveFull, Arrival, feedVars
    <2>2. Picture(persistent_bgra')
      BY <1>1, <2>1, FullPicture
    <2>3. /\ requests' \in Nat /\ kf_recent' \in BOOLEAN /\ unreported' \in BOOLEAN
          /\ last_seen' \in 0 .. SeqMod - 1 /\ dirty' \in Nat
      BY <1>1, <1>2, <1>3, <1>4, <2>1
    <2>. QED BY <1>1, <2>1, <2>2, <2>3
  <1>7. CASE ReceiveDelta
    <2> DEFINE f == Head(net)
    <2>1. /\ net # <<>> /\ net' = Tail(net) /\ persistent_bgra # None /\ GapDetection(f) /\ Reported(FALSE)
          /\ persistent_bgra' = apply_regions(persistent_bgra, f.payload)
          /\ last_applied_msg_id' = f.msg_id /\ truth' = f.shows /\ clean' \in BOOLEAN /\ Counted(f)
          /\ UNCHANGED <<requested, base, extent, seq, queue, last_sent, joined, losses>>
      BY <1>7 DEF ReceiveDelta, Arrival, feedVars
    <2>2. Picture(persistent_bgra')
      BY <2>1, DeltaPicture
    <2>3. /\ requests' \in Nat /\ kf_recent' \in BOOLEAN /\ unreported' \in BOOLEAN
          /\ last_seen' \in 0 .. SeqMod - 1 /\ dirty' \in Nat
      BY <1>1, <1>2, <1>3, <1>4, <2>1
    <2>. QED BY <1>1, <2>1, <2>2, <2>3
  <1>8. CASE SkipDelta
    <2>1. /\ net # <<>> /\ net' = Tail(net) /\ GapDetection(Head(net)) /\ Reported(FALSE) /\ Counted(Head(net))
          /\ UNCHANGED <<requested, base, extent, seq, queue, last_sent, joined, losses,
                         persistent_bgra, last_applied_msg_id, truth, clean>>
      BY <1>8 DEF SkipDelta, Arrival, feedVars
    <2>2. /\ requests' \in Nat /\ kf_recent' \in BOOLEAN /\ unreported' \in BOOLEAN
          /\ last_seen' \in 0 .. SeqMod - 1 /\ dirty' \in Nat
      BY <1>1, <1>2, <1>3, <1>4, <2>1
    <2>. QED BY <1>1, <2>1, <2>2
  <1>9. CASE ReceivePart \/ ReceiveGarbled
    <2>1. /\ net # <<>> /\ net' = Tail(net) /\ Lost /\ Reported(FALSE)
          /\ GapDetection(Head(net)) \/ request_keyframe
          /\ UNCHANGED <<requested, base, extent, seq, queue, last_sent, joined,
                         persistent_bgra, last_applied_msg_id, truth, clean, last_seen, dirty>>
      BY <1>9 DEF ReceivePart, ReceiveGarbled, Arrival, feedVars
    <2>2. requests' \in Nat /\ kf_recent' \in BOOLEAN /\ unreported' \in BOOLEAN
      BY <1>2, <1>3, <2>1
    <2>. QED BY <1>1, <1>5, <2>1, <2>2
  <1>10. CASE KeyframeTimer
    BY <1>10 DEF KeyframeTimer, feedVars, link
  <1>11. CASE LoseFrame
    BY <1>1, <1>5, <1>11 DEF LoseFrame, Arrival, feedVars, receiver
  <1>12. CASE LoseRequest
    BY <1>5, <1>12 DEF LoseRequest, feedVars, receiver
  <1>. QED BY <1>6, <1>7, <1>8, <1>9, <1>10, <1>11, <1>12 DEF Receive

LEMMA StepTyping ==
  ASSUME Typing, [Next]_vars
  PROVE  Typing'
  <1>1. CASE UNCHANGED vars
    BY <1>1 DEF vars, Typing
  <1>. QED BY <1>1, HostTyping, ClientTyping DEF Next

LEMMA Types == Spec => []Typing
  BY InitTyping, StepTyping, PTL DEF Spec

\* The type invariant: the queue and the network keep to their bounds, and the
\* receiver's picture has the size of a screen, whatever is lost.
THEOREM StreamTypes == Spec => []TypeOK
  <1>1. Typing => TypeOK
    <2> SUFFICES ASSUME Typing PROVE TypeOK
      OBVIOUS
    <2>1. /\ \A k \in 1 .. Len(queue) : IsFrame(queue[k])
          /\ \A k \in 1 .. Len(net) : IsFrame(net[k])
      BY FrameSeq DEF Typing
    <2>2. last_sent[Client] # None => IsFrame(last_sent[Client])
      BY StreamAssumption, FramesAreFrames DEF Typing
    <2>3. persistent_bgra # None =>
            \E s \in Screens : /\ Size(persistent_bgra) = Size(s)
                               /\ DOMAIN persistent_bgra.pixels = DOMAIN s.pixels
      BY DEF Typing, Picture, Size
    <2>. QED BY <2>1, <2>2, <2>3 DEF Typing, TypeOK
  <1>. QED BY <1>1, Types, PTL
-----------------------------------------------------------------------------
(* The cadence of full frames. *)

\* Where full frames are due at the numbers 1 + KEYFRAME_INTERVAL, 1 + 2 *
\* KEYFRAME_INTERVAL and so on, one is due at the wrap too: 2^32 leaves the remainder
\* 1 when divided by 15.
EvenWrap == SeqMod % KEYFRAME_INTERVAL = 1 % KEYFRAME_INTERVAL

\* The remainder of the next number is the next one, or zero.
LEMMA NextRemainder ==
  ASSUME NEW x \in Nat, NEW k \in Nat \ {0}
  PROVE  (x + 1) % k = IF (x % k) + 1 = k THEN 0 ELSE (x % k) + 1
  <1> DEFINE q == x \div k
             r == x % k
  <1>1. q \in Nat /\ r \in 0 .. k - 1 /\ x = q * k + r
    BY Division
  <1> HIDE DEF q, r
  <1>2. CASE r + 1 = k
    <2>1. x + 1 = (q + 1) * k + 0
      <3>1. (q + 1) * k = q * k + k
        BY <1>1, SMTT(20)
      <3>2. q * k \in Int
        BY <1>1, SMTT(20)
      <3>. QED BY <1>1, <1>2, <3>1, <3>2
    <2>2. q + 1 \in Nat /\ 0 \in 0 .. k - 1
      BY <1>1
    <2>. QED BY <1>2, <2>1, <2>2, DivisionOf DEF r
  <1>3. CASE r + 1 # k
    <2>1. x + 1 = q * k + (r + 1) /\ r + 1 \in 0 .. k - 1
      <3>1. q * k \in Int
        BY <1>1, SMTT(20)
      <3>. QED BY <1>1, <1>3, <3>1
    <2>2. (q * k + (r + 1)) % k = r + 1
      BY <1>1, <2>1, DivisionOf
    <2>3. (x + 1) % k = r + 1
      BY <2>1, <2>2
    <2>. QED BY <1>3, <2>3 DEF r
  <1>. QED BY <1>2, <1>3

\* How many frames ago one was due in full.
SinceDue(n) == (n - 1) % KEYFRAME_INTERVAL

LEMMA SinceDueNext ==
  ASSUME NEW n \in Nat \ {0}
  PROVE  /\ SinceDue(n) \in 0 .. KEYFRAME_INTERVAL - 1
         /\ SinceDue(n + 1) = IF SinceDue(n) + 1 = KEYFRAME_INTERVAL THEN 0 ELSE SinceDue(n) + 1
  <1>1. n - 1 \in Nat /\ n + 1 - 1 = (n - 1) + 1 /\ KEYFRAME_INTERVAL \in Nat \ {0}
    BY EncoderAssumption
  <1>2. (n - 1) % KEYFRAME_INTERVAL \in 0 .. KEYFRAME_INTERVAL - 1
    BY <1>1, Division
  <1>3. ((n - 1) + 1) % KEYFRAME_INTERVAL =
           IF ((n - 1) % KEYFRAME_INTERVAL) + 1 = KEYFRAME_INTERVAL THEN 0
           ELSE ((n - 1) % KEYFRAME_INTERVAL) + 1
    BY <1>1, NextRemainder
  <1>. QED BY <1>1, <1>2, <1>3 DEF SinceDue

\* The numbers a delta may have.
OffCadence(n) == n >= 1 /\ (n = 1 \/ SinceDue(n) # 0)

\* The deltas on their way have such numbers, and as many frames in a row have been
\* received since the last one that was due in full.
Cadence ==
    /\ \A k \in 1 .. Len(queue) : queue[k].kind = "delta" => OffCadence(queue[k].msg_id)
    /\ \A k \in 1 .. Len(net) : net[k].kind = "delta" => OffCadence(net[k].msg_id)
    /\ dirty > 0 => last_seen >= 1 /\ dirty <= 1 + SinceDue(last_seen)

\* No delta is made where a full frame is due.
LEMMA DueInFull ==
  ASSUME EvenWrap, seq \in 0 .. SeqMod - 1, ~ force_full(requested, seq)
  PROVE  OffCadence(next_seq(seq))
  <1>1. SeqMod \in Nat /\ SeqMod >= 2 /\ KEYFRAME_INTERVAL \in Nat \ {0}
    BY StreamAssumption, EncoderAssumption
  <1>2. ~ (seq > 0 /\ seq % KEYFRAME_INTERVAL = 0)
    BY DEF force_full
  <1>3. CASE seq + 1 < SeqMod
    <2>1. next_seq(seq) = seq + 1
      BY <1>1, <1>3, NextSeq
    <2>2. seq + 1 - 1 = seq
      BY <1>1
    <2>. QED BY <1>1, <1>2, <2>1, <2>2 DEF OffCadence, SinceDue
  <1>4. CASE seq + 1 = SeqMod
    <2>1. seq \in Nat /\ seq > 0 /\ seq + 1 = SeqMod
      BY <1>1, <1>4
    <2>2. (seq + 1) % KEYFRAME_INTERVAL =
             IF (seq % KEYFRAME_INTERVAL) + 1 = KEYFRAME_INTERVAL THEN 0 ELSE (seq % KEYFRAME_INTERVAL) + 1
      BY <1>1, <2>1, NextRemainder
    <2>3. (0 + 1) % KEYFRAME_INTERVAL =
             IF (0 % KEYFRAME_INTERVAL) + 1 = KEYFRAME_INTERVAL THEN 0 ELSE (0 % KEYFRAME_INTERVAL) + 1
      BY <1>1, NextRemainder
    <2>4. 0 % KEYFRAME_INTERVAL = 0
      <3>1. 0 * KEYFRAME_INTERVAL + 0 = 0
        BY <1>1, SMTT(20)
      <3>. QED BY <1>1, <3>1, DivisionOf
    <2>5. seq % KEYFRAME_INTERVAL \in 0 .. KEYFRAME_INTERVAL - 1
      BY <1>1, <2>1, Division
    <2>6. seq % KEYFRAME_INTERVAL = 0
      <3> DEFINE r == seq % KEYFRAME_INTERVAL
      <3>1. /\ r \in 0 .. KEYFRAME_INTERVAL - 1
            /\ (IF r + 1 = KEYFRAME_INTERVAL THEN 0 ELSE r + 1)
                 = IF 0 + 1 = KEYFRAME_INTERVAL THEN 0 ELSE 0 + 1
        BY <2>1, <2>2, <2>3, <2>4, <2>5 DEF EvenWrap
      <3> HIDE DEF r
      <3>2. r = 0
        BY <1>1, <3>1
      <3>. QED BY <3>2 DEF r
    <2>. QED BY <1>2, <2>1, <2>6
  <1>. QED BY <1>1, <1>3, <1>4

\* A frame is received whole.
LEMMA CountedCadence ==
  ASSUME Typing, Cadence, NEW f \in Frames, f.kind = "delta" => OffCadence(f.msg_id),
         f.kind = "full" => clean', clean' \in BOOLEAN, Counted(f)
  PROVE  dirty' > 0 => last_seen' >= 1 /\ dirty' <= 1 + SinceDue(last_seen')
  <1> DEFINE K == KEYFRAME_INTERVAL
             n == f.msg_id
  <1>1. /\ n \in 0 .. SeqMod - 1 /\ f.kind \in {"full", "delta"} /\ K \in Nat \ {0} /\ SeqMod \in Nat
        /\ last_seen \in 0 .. SeqMod - 1 /\ dirty \in Nat
    BY EncoderAssumption DEF Frames, Typing
  <1>2. CASE clean'
    <2>1. dirty' = 0
      BY <1>2 DEF Counted
    <2>. QED BY <2>1
  <1>3. CASE ~ clean'
    <2>1. last_seen' = n /\ OffCadence(n)
      BY <1>1, <1>3 DEF Counted
    <2>2. n \in Nat \ {0} /\ SinceDue(n) \in 0 .. K - 1
      <3>1. n \in Nat \ {0}
        BY <1>1, <2>1 DEF OffCadence
      <3>. QED BY <3>1, SinceDueNext
    <2>3. CASE dirty' = 1
      BY <2>1, <2>2, <2>3
    <2>4. CASE n = next_seq(last_seen) /\ dirty > 0 /\ (dirty' = dirty + 1 \/ dirty' = dirty)
      <3>1. last_seen >= 1 /\ dirty <= 1 + SinceDue(last_seen)
        BY <2>4 DEF Cadence
      <3>2. n = last_seen + 1
        <4>1. last_seen + 1 = SeqMod => next_seq(last_seen) = 0
          <5>1. SeqMod = 1 * SeqMod + 0 /\ 0 \in 0 .. SeqMod - 1 /\ SeqMod \in Nat \ {0}
            BY EncoderAssumption
          <5>2. SeqMod % SeqMod = 0
            BY <5>1, DivisionOf
          <5>. QED BY <5>2 DEF next_seq
        <4>2. last_seen + 1 < SeqMod
          BY <1>1, <2>2, <2>4, <4>1
        <4>. QED BY <2>4, <4>2, NextSeq, <1>1
      <3>3. SinceDue(n) # 0
        BY <1>1, <2>1, <3>1, <3>2 DEF OffCadence
      <3>4. /\ SinceDue(last_seen) \in 0 .. K - 1
            /\ SinceDue(n) = IF SinceDue(last_seen) + 1 = K THEN 0 ELSE SinceDue(last_seen) + 1
        BY <1>1, <3>1, <3>2, SinceDueNext
      <3>5. dirty' <= 1 + SinceDue(n)
        BY <1>1, <2>4, <3>1, <3>3, <3>4
      <3>. QED BY <2>1, <2>2, <3>5
    <2>5. \/ dirty' = 1
          \/ n = next_seq(last_seen) /\ dirty > 0 /\ (dirty' = dirty + 1 \/ dirty' = dirty)
      BY <1>1, <1>3 DEF Counted
    <2>. QED BY <2>3, <2>4, <2>5
  <1>. QED BY <1>2, <1>3

LEMMA StepCadence ==
  ASSUME Typing, Cadence, [Next]_vars, EvenWrap
  PROVE  Cadence'
  <1>1. queue \in Seq(Frames) /\ net \in Seq(Frames)
    BY DEF Typing
  <1>2. ASSUME net # <<>>, net' = Tail(net)
        PROVE  /\ \A k \in 1 .. Len(net') : net'[k].kind = "delta" => OffCadence(net'[k].msg_id)
               /\ Head(net) \in Frames /\ (Head(net).kind = "delta" => OffCadence(Head(net).msg_id))
    <2>1. /\ Len(net) \in Nat /\ Len(net) > 0 /\ Head(net) = net[1] /\ Head(net) \in Frames
          /\ Len(net') = Len(net) - 1
          /\ \A k \in 1 .. Len(net) - 1 : net'[k] = net[k + 1]
      BY <1>1, <1>2, FrameSeq
    <2>2. \A k \in 1 .. Len(net) - 1 : k + 1 \in 1 .. Len(net)
      BY <2>1
    <2>3. 1 \in 1 .. Len(net)
      BY <2>1
    <2>. QED BY <2>1, <2>2, <2>3 DEF Cadence
  <1>3. ASSUME queue # <<>>, queue' = Tail(queue)
        PROVE  \A k \in 1 .. Len(queue') : queue'[k].kind = "delta" => OffCadence(queue'[k].msg_id)
    <2>1. /\ Len(queue) \in Nat /\ Len(queue') = Len(queue) - 1
          /\ \A k \in 1 .. Len(queue) - 1 : queue'[k] = queue[k + 1]
      BY <1>1, <1>3, FrameSeq
    <2>2. \A k \in 1 .. Len(queue) - 1 : k + 1 \in 1 .. Len(queue)
      BY <2>1
    <2>. QED BY <2>1, <2>2 DEF Cadence
  <1>4. CASE HostEncode
    <2>1. PICK s \in Screens : Encode(s) \/ EncodeFallback(s)
      BY <1>4 DEF HostEncode
    <2>2. PICK f \in Frames :
            /\ f.msg_id = next_seq(seq) /\ queue' = Append(queue, f)
            /\ f.kind = "delta" => ~ force_full(requested, seq)
      BY <2>1, Encodes
    <2>3. f.kind = "delta" => OffCadence(f.msg_id)
      BY <2>2, DueInFull DEF Typing
    <2>4. \A k \in 1 .. Len(queue') : queue'[k] = f \/ (k \in 1 .. Len(queue) /\ queue'[k] = queue[k])
      <3>1. /\ Len(queue) \in Nat /\ Len(queue') = Len(queue) + 1
            /\ queue'[Len(queue) + 1] = f /\ \A k \in 1 .. Len(queue) : queue'[k] = queue[k]
        BY <1>1, <2>2, FrameSeq
      <3>. QED BY <3>1
    <2>5. UNCHANGED <<net, dirty, last_seen>>
      BY <1>4 DEF HostEncode, link, receiver
    <2>. QED BY <2>3, <2>4, <2>5 DEF Cadence
  <1>5. CASE HostTransmit
    <2>1. /\ queue # <<>> /\ net' = Append(net, Head(queue)) /\ queue' \in {queue, Tail(queue)}
          /\ UNCHANGED <<dirty, last_seen>>
      BY <1>5 DEF HostTransmit, Transmit, receiver
    <2>2. \A k \in 1 .. Len(queue') : queue'[k].kind = "delta" => OffCadence(queue'[k].msg_id)
      BY <1>3, <2>1 DEF Cadence
    <2>3. Head(queue) \in Frames /\ (Head(queue).kind = "delta" => OffCadence(Head(queue).msg_id))
      <3>1. Len(queue) \in Nat /\ Len(queue) > 0 /\ Head(queue) = queue[1] /\ Head(queue) \in Frames
        BY <1>1, <2>1, FrameSeq
      <3>2. 1 \in 1 .. Len(queue)
        BY <3>1
      <3>. QED BY <3>1, <3>2 DEF Cadence
    <2>4. \A k \in 1 .. Len(net') : net'[k] = Head(queue) \/ (k \in 1 .. Len(net) /\ net'[k] = net[k])
      <3>1. /\ Len(net) \in Nat /\ Len(net') = Len(net) + 1
            /\ net'[Len(net) + 1] = Head(queue) /\ \A k \in 1 .. Len(net) : net'[k] = net[k]
        BY <1>1, <2>1, <2>3, FrameSeq
      <3>. QED BY <3>1
    <2>. QED BY <2>1, <2>2, <2>3, <2>4 DEF Cadence
  <1>6. CASE HostRetire \/ HostAbandon
    <2>1. queue # <<>> /\ queue' = Tail(queue) /\ UNCHANGED <<net, dirty, last_seen>>
      BY <1>6 DEF HostRetire, HostAbandon, Retire, link, receiver
    <2>. QED BY <1>3, <2>1 DEF Cadence
  <1>7. CASE Receive
    <2>1. /\ net # <<>> /\ net' = Tail(net) /\ queue' = queue /\ Counted(Head(net))
          /\ Head(net).kind = "full" => clean'
      BY <1>7 DEF Receive, ReceiveFull, ReceiveDelta, SkipDelta, Arrival, feedVars
    <2>2. clean' \in BOOLEAN
      BY <1>7, ClientTyping DEF Typing
    <2>. QED BY <1>2, <2>1, <2>2, CountedCadence DEF Cadence
  <1>8. CASE ReceivePart \/ ReceiveGarbled \/ LoseFrame
    <2>1. net # <<>> /\ net' = Tail(net) /\ UNCHANGED <<queue, dirty, last_seen>>
      BY <1>8 DEF ReceivePart, ReceiveGarbled, LoseFrame, Arrival, feedVars, receiver
    <2>. QED BY <1>2, <2>1 DEF Cadence
  <1>9. CASE \/ HostEncodeFails \/ HostLosesDevice \/ Join \/ HostReceiveRequest
             \/ KeyframeTimer \/ LoseRequest \/ UNCHANGED vars
    <2>1. UNCHANGED <<queue, net, dirty, last_seen>>
      BY <1>9 DEF HostEncodeFails, EncodeFailed, HostLosesDevice, LoseBase, Join, HostReceiveRequest, Request,
                  KeyframeTimer, LoseRequest, vars, feedVars, link, receiver
    <2>. QED BY <2>1 DEF Cadence
  <1>. QED BY <1>4, <1>5, <1>6, <1>7, <1>8, <1>9 DEF Next

\* A client that loses frames, or joins late, is whole again after at most
\* KEYFRAME_INTERVAL frames received without a loss, also where the numbers wrap.
THEOREM StreamRecovers ==
  ASSUME EvenWrap
  PROVE  Spec => []RecoveryBound
  <1>1. Init => Typing /\ Cadence
    <2> SUFFICES ASSUME Init PROVE Cadence
      BY InitTyping
    <2>1. Len(queue) = 0 /\ Len(net) = 0 /\ dirty = 0
      BY DEF Init, FeedInit
    <2>. QED BY <2>1 DEF Cadence
  <1>2. Typing /\ Cadence /\ [Next]_vars => (Typing /\ Cadence)'
    BY StepTyping, StepCadence
  <1>3. Typing /\ Cadence => RecoveryBound
    <2> SUFFICES ASSUME Typing, Cadence PROVE dirty <= KEYFRAME_INTERVAL
      BY DEF RecoveryBound
    <2>1. dirty \in Nat /\ KEYFRAME_INTERVAL \in Nat \ {0} /\ last_seen \in Nat
      BY EncoderAssumption DEF Typing
    <2>2. CASE dirty > 0
      <3>1. last_seen \in Nat \ {0} /\ dirty <= 1 + SinceDue(last_seen)
        BY <2>1, <2>2 DEF Cadence
      <3>2. SinceDue(last_seen) \in 0 .. KEYFRAME_INTERVAL - 1
        BY <3>1, SinceDueNext
      <3>. QED BY <2>1, <3>1, <3>2
    <2>. QED BY <2>1, <2>2
  <1>. QED BY <1>1, <1>2, <1>3, PTL DEF Spec
-----------------------------------------------------------------------------
(* What the client shows.  The frames are counted here without wrapping: T were  *)
(* encoded, the u-th was sent to the client last, and v gives the places of what *)
(* it has applied last (v[0]) and of the frames in flight.                       *)

\* The number the n-th frame carries.
Number(n) == n % SeqMod

LEMMA NumberNext ==
  ASSUME NEW n \in Nat
  PROVE  Number(n) \in 0 .. SeqMod - 1 /\ Number(n + 1) = next_seq(Number(n))
  <1>1. SeqMod \in Nat \ {0} /\ n + 1 \in Nat
    BY EncoderAssumption
  <1>2. Number(n) \in 0 .. SeqMod - 1
    BY <1>1, Division DEF Number
  <1>3. (n + 1) % SeqMod = IF (n % SeqMod) + 1 = SeqMod THEN 0 ELSE (n % SeqMod) + 1
    BY <1>1, NextRemainder
  <1>4. CASE Number(n) + 1 = SeqMod
    <2>1. SeqMod = 1 * SeqMod + 0 /\ 0 \in 0 .. SeqMod - 1
      BY <1>1
    <2>2. SeqMod % SeqMod = 0
      BY <1>1, <2>1, DivisionOf
    <2>. QED BY <1>2, <1>3, <1>4, <2>2 DEF Number, next_seq
  <1>5. CASE Number(n) + 1 # SeqMod
    <2>1. Number(n) + 1 < SeqMod
      BY <1>1, <1>2, <1>5
    <2>2. next_seq(Number(n)) = Number(n) + 1
      BY <1>2, <2>1, NextSeq
    <2>. QED BY <1>2, <1>3, <1>5, <2>2 DEF Number
  <1>. QED BY <1>2, <1>4, <1>5

\* Frames that are not too far apart have the same number only if they are the same.
LEMMA NumberUnique ==
  ASSUME NEW n \in Nat, NEW p \in Nat, n <= p, p - n < SeqMod, Number(n) = Number(p)
  PROVE  n = p
  <1> DEFINE q == n \div SeqMod
             r == n % SeqMod
             t == p \div SeqMod
  <1>1. SeqMod \in Nat \ {0}
    BY EncoderAssumption
  <1>2. q \in Nat /\ r \in 0 .. SeqMod - 1 /\ n = q * SeqMod + r
    BY <1>1, Division
  <1>3. t \in Nat /\ p = t * SeqMod + r
    BY <1>1, Division DEF Number
  <1> HIDE DEF q, r, t
  <1> DEFINE d == p - n
  <1>4. d \in 0 .. SeqMod - 1 /\ p = n + d
    BY <1>1
  <1> HIDE DEF d
  <1>5. q * SeqMod \in Nat /\ t * SeqMod \in Nat
    BY <1>1, <1>2, <1>3, SMTT(20)
  <1>6. t * SeqMod + 0 = q * SeqMod + d
    BY <1>1, <1>2, <1>3, <1>4, <1>5
  <1>7. 0 \in 0 .. SeqMod - 1
    BY <1>1
  <1>8. d = 0
    BY <1>1, <1>2, <1>3, <1>4, <1>6, <1>7, DivisionUnique
  <1>. QED BY <1>4, <1>8

\* The place of the oldest frame of the queue.
Oldest(T) == T - Len(queue) + 1

\* The base is that of screen s.
BaseOf(s) == base # None => base = compute_tile_checksums[s] /\ extent = Size(s)

\* Frame g may come after a frame that shows s: if it is a delta, it was made on s.
Follows(s, g) == g.kind = "delta" => apply_regions(s, g.payload) = g.shows

Encoded(T) ==
    /\ Number(T) = seq /\ Len(queue) <= T
    /\ \A k \in 1 .. Len(queue) : queue[k].msg_id = Number(Oldest(T) + k - 1)
    /\ \A k \in 2 .. Len(queue) : Follows(queue[k - 1].shows, queue[k])
    /\ queue # <<>> => BaseOf(queue[Len(queue)].shows)

\* Between the frame sent last and the oldest of the queue, frames were lost.
Sent(T, u) ==
    LET f == last_sent[Client] IN
    /\ f.msg_id = Number(u)
    /\ u <= Oldest(T) /\ Oldest(T) - u <= losses + 1
    /\ u = Oldest(T) => queue # <<>> /\ f = queue[1]
    /\ u = Oldest(T) - 1 => IF queue = <<>> THEN BaseOf(f.shows) ELSE Follows(f.shows, queue[1])

\* The first of the places that matter: a client that is not clean has none.
From == IF clean THEN 0 ELSE 1

ShownAt(k) == IF k = 0 THEN truth ELSE net[k].shows

\* Between what was applied last, what is in flight and what was sent last, frames
\* were lost; and a delta that is in place follows the frame before.
Flying(T, u, v) ==
    LET m == Len(net) IN
    /\ clean => last_applied_msg_id = Number(v[0])
    /\ \A k \in 1 .. m : net[k].msg_id = Number(v[k])
    /\ \A k \in From .. m : /\ u - v[k] >= m - k
                            /\ u - v[k] - (m - k) <= losses
                            /\ Oldest(T) - 1 - v[k] - (m - k) <= losses
    /\ \A k \in From + 1 .. m : /\ v[k] > v[k - 1]
                                /\ v[k] = v[k - 1] + 1 => Follows(ShownAt(k - 1), net[k])
    /\ \A k \in From .. m : v[k] = u => k = m /\ ShownAt(k) = last_sent[Client].shows
    /\ m > 0 => v[m] = u /\ net[m] = last_sent[Client]

Places(T) ==
    IF last_sent[Client] = None
      THEN net = <<>> /\ ~ clean
      ELSE \E u \in Nat : \E v \in [0 .. Len(net) -> Nat] : Sent(T, u) /\ Flying(T, u, v)

Coherence ==
    /\ clean => truth \in Screens /\ persistent_bgra = truth
    /\ ~ joined => last_sent[Client] = None
    /\ \E T \in Nat : Encoded(T) /\ Places(T)

\* What the base is of may be applied to.
LEMMA NewFollows ==
  ASSUME NEW r \in Screens, BaseOf(r), NEW s \in Screens, NEW f \in Frames, f.shows = s,
         extent \in {None, Size(s)},
         f.kind = "delta" => base # None /\ f.payload = delta_regions[s][changed(base, s)]
  PROVE  Follows(r, f)
  <1> SUFFICES ASSUME f.kind = "delta" PROVE apply_regions(r, f.payload) = f.shows
    BY DEF Follows
  <1>1. base = compute_tile_checksums[r] /\ Size(r) = Size(s)
    BY NoneAssumption DEF BaseOf
  <1>. QED BY <1>1, DeltaApplies

\* A screen is encoded.
LEMMA EncodeCoherence ==
  ASSUME Typing, Coherence, HostEncode
  PROVE  Coherence'
  <1>1. PICK T \in Nat : Encoded(T) /\ Places(T)
    BY DEF Coherence
  <1>2. PICK s \in Screens : Encode(s) \/ EncodeFallback(s)
    BY DEF HostEncode
  <1>3. PICK f \in Frames :
            /\ f.shows = s /\ f.msg_id = next_seq(seq) /\ queue' = Append(queue, f)
            /\ extent \in {None, Size(s)} /\ seq' = next_seq(seq)
            /\ base' = compute_tile_checksums[s] /\ extent' = Size(s)
            /\ UNCHANGED last_sent
            /\ f.kind = "delta" => base # None /\ f.payload = delta_regions[s][changed(base, s)]
    BY <1>2, Encodes
  <1>4. UNCHANGED <<joined, net, losses, truth, clean, persistent_bgra, last_applied_msg_id>>
    BY DEF HostEncode, link, receiver
  <1> DEFINE n == Len(queue)
  <1>5. /\ n \in Nat /\ Len(queue') = n + 1 /\ queue'[n + 1] = f /\ queue' # <<>>
        /\ \A k \in 1 .. n : queue'[k] = queue[k] /\ queue[k] \in Frames
        /\ queue = <<>> <=> n = 0
    BY <1>3, FrameSeq, EmptySeq DEF Typing
  <1>6. Oldest(T + 1)' = Oldest(T) /\ Oldest(T) = T - n + 1
    BY <1>1, <1>5 DEF Oldest
  <1>7. /\ Number(T) = seq /\ n <= T
        /\ \A k \in 1 .. n : queue[k].msg_id = Number(T - n + k)
        /\ \A k \in 2 .. n : Follows(queue[k - 1].shows, queue[k])
        /\ n > 0 => BaseOf(queue[n].shows)
    BY <1>1, <1>5, <1>6 DEF Encoded
  <1> HIDE DEF n
  <1>8. Encoded(T + 1)'
    <2>1. Number(T + 1) = seq'
      BY <1>3, <1>7, NumberNext
    <2>2. ASSUME NEW k \in 1 .. n + 1
          PROVE  queue'[k].msg_id = Number(Oldest(T) + k - 1)
      <3>1. CASE k = n + 1
        <4>1. Oldest(T) + k - 1 = T + 1
          BY <1>5, <1>6, <3>1
        <4>. QED BY <1>3, <1>5, <2>1, <3>1, <4>1
      <3>2. CASE k \in 1 .. n
        <4>1. Oldest(T) + k - 1 = T - n + k
          BY <1>5, <1>6
        <4>. QED BY <1>5, <1>7, <3>2, <4>1
      <3>. QED BY <1>5, <3>1, <3>2
    <2>3. ASSUME NEW k \in 2 .. n + 1
          PROVE  Follows(queue'[k - 1].shows, queue'[k])
      <3>1. CASE k = n + 1
        <4>1. n > 0 /\ n \in 1 .. n /\ k - 1 = n
          BY <1>5, <3>1
        <4>2. queue[n].shows \in Screens
          BY <1>5, <4>1 DEF Frames
        <4>. QED BY <1>3, <1>5, <1>7, <3>1, <4>1, <4>2, NewFollows
      <3>2. CASE k \in 2 .. n
        <4>1. k \in 1 .. n /\ k - 1 \in 1 .. n
          BY <1>5, <3>2
        <4>. QED BY <1>5, <1>7, <3>2, <4>1
      <3>. QED BY <1>5, <3>1, <3>2
    <2>4. BaseOf(f.shows)' /\ queue'[Len(queue')] = f
      BY <1>3, <1>5 DEF BaseOf
    <2>5. n + 1 <= T + 1
      BY <1>1, <1>5, <1>7
    <2>. QED BY <1>5, <1>6, <2>1, <2>2, <2>3, <2>4, <2>5 DEF Encoded
  <1>9. Places(T + 1)'
    <2>1. CASE last_sent[Client] = None
      BY <1>1, <1>3, <1>4, <2>1 DEF Places
    <2>2. CASE last_sent[Client] # None
      <3>1. PICK u \in Nat, v \in [0 .. Len(net) -> Nat] : Sent(T, u) /\ Flying(T, u, v)
        BY <1>1, <2>2 DEF Places
      <3>2. Sent(T + 1, u)'
        <4> DEFINE g == last_sent[Client]
        <4>1. g.shows \in Screens
          BY <2>2, StreamAssumption DEF Typing, Frames
        <4>2. /\ g.msg_id = Number(u)
              /\ u <= Oldest(T) /\ Oldest(T) - u <= losses + 1
              /\ u = Oldest(T) => n > 0 /\ g = queue[1]
              /\ u = Oldest(T) - 1 => IF n = 0 THEN BaseOf(g.shows) ELSE Follows(g.shows, queue[1])
          BY <1>5, <3>1 DEF Sent
        <4>3. n > 0 => queue'[1] = queue[1]
          BY <1>5
        <4>4. n = 0 => queue'[1] = f
          BY <1>5
        <4>5. u = Oldest(T) - 1 => Follows(g.shows, queue'[1])
          BY <1>3, <1>5, <4>1, <4>2, <4>3, <4>4, NewFollows
        <4> HIDE DEF g
        <4>6. g = last_sent[Client]'
          BY <1>3 DEF g
        <4>. QED BY <1>4, <1>5, <1>6, <4>2, <4>3, <4>5, <4>6 DEF Sent
      <3>3. Flying(T + 1, u, v)'
        BY <1>3, <1>4, <1>6, <3>1 DEF Flying, From, ShownAt
      <3>. QED BY <1>3, <1>4, <2>2, <3>2, <3>3 DEF Places
    <2>. QED BY <2>1, <2>2
  <1>10. T + 1 \in Nat
    OBVIOUS
  <1>. QED BY <1>3, <1>4, <1>8, <1>9, <1>10 DEF Coherence

\* The oldest frame leaves the queue.
LEMMA TailEncoded ==
  ASSUME Typing, NEW T \in Nat, Encoded(T), queue # <<>>, queue' = Tail(queue),
         UNCHANGED <<seq, base, extent>>
  PROVE  /\ Encoded(T)' /\ Oldest(T)' = Oldest(T) + 1 /\ Oldest(T) \in Nat
         /\ queue[1] \in Frames /\ Head(queue) = queue[1] /\ queue[1].msg_id = Number(Oldest(T))
         /\ IF queue' = <<>> THEN Oldest(T) = T /\ BaseOf(queue[1].shows)
                             ELSE Follows(queue[1].shows, queue'[1])
  <1> DEFINE n == Len(queue)
  <1>1. /\ n \in Nat /\ n > 0 /\ Len(queue') = n - 1 /\ Head(queue) = queue[1]
        /\ \A k \in 1 .. n - 1 : queue'[k] = queue[k + 1]
        /\ \A k \in 1 .. n : queue[k] \in Frames
    BY FrameSeq DEF Typing
  <1>2. queue' = <<>> <=> n = 1
    <2>1. queue' \in Seq(Frames)
      BY FrameSeq DEF Typing
    <2>2. queue' = <<>> <=> Len(queue') = 0
      BY <2>1, FrameSeq
    <2>. QED BY <1>1, <2>2
  <1>3. Oldest(T) = T - n + 1 /\ Oldest(T)' = T - (n - 1) + 1
    BY <1>1 DEF Oldest
  <1>4. /\ Number(T) = seq /\ n <= T
        /\ \A k \in 1 .. n : queue[k].msg_id = Number(T - n + 1 + k - 1)
        /\ \A k \in 2 .. n : Follows(queue[k - 1].shows, queue[k])
        /\ BaseOf(queue[n].shows)
    BY <1>1, <1>3 DEF Encoded
  <1> HIDE DEF n
  <1>5. \A k \in 1 .. n - 1 : queue'[k].msg_id = Number(Oldest(T)' + k - 1)
    <2> TAKE k \in 1 .. n - 1
    <2>1. k + 1 \in 1 .. n /\ Oldest(T)' + k - 1 = T - n + 1 + (k + 1) - 1
      BY <1>1, <1>3
    <2>. QED BY <1>1, <1>4, <2>1
  <1>6. \A k \in 2 .. n - 1 : Follows(queue'[k - 1].shows, queue'[k])
    <2> TAKE k \in 2 .. n - 1
    <2>1. k + 1 \in 2 .. n /\ k \in 1 .. n - 1 /\ k - 1 \in 1 .. n - 1 /\ k + 1 - 1 = k /\ k - 1 + 1 = k
      BY <1>1
    <2>2. Follows(queue[k + 1 - 1].shows, queue[k + 1])
      BY <1>4, <2>1
    <2>. QED BY <1>1, <2>1, <2>2
  <1>7. queue' # <<>> => queue'[Len(queue')] = queue[n]
    BY <1>1, <1>2
  <1>8. Encoded(T)'
    BY <1>1, <1>3, <1>4, <1>5, <1>6, <1>7 DEF Encoded, BaseOf
  <1>9. queue[1].msg_id = Number(Oldest(T))
    <2>1. 1 \in 1 .. n /\ T - n + 1 + 1 - 1 = Oldest(T)
      BY <1>1, <1>3
    <2>. QED BY <1>4, <2>1
  <1>10. IF queue' = <<>> THEN Oldest(T) = T /\ BaseOf(queue[1].shows)
                          ELSE Follows(queue[1].shows, queue'[1])
    <2>1. CASE n = 1
      BY <1>1, <1>2, <1>3, <1>4, <2>1
    <2>2. CASE n # 1
      <3>1. 2 \in 2 .. n /\ 1 \in 1 .. n - 1 /\ 2 - 1 = 1 /\ 1 + 1 = 2
        BY <1>1, <2>2
      <3>2. Follows(queue[2 - 1].shows, queue[2])
        BY <1>4, <3>1
      <3>. QED BY <1>1, <1>2, <2>2, <3>1, <3>2
    <2>. QED BY <2>1, <2>2
  <1>. QED BY <1>1, <1>3, <1>4, <1>8, <1>9, <1>10

\* It was the one sent last.
LEMMA TailSent ==
  ASSUME Typing, NEW T \in Nat, Encoded(T), queue # <<>>, queue' = Tail(queue),
         UNCHANGED <<seq, base, extent>>,
         NEW u \in Nat, u = Oldest(T), last_sent'[Client] = queue[1], losses' \in Nat
  PROVE  Sent(T, u)'
  <1>1. /\ Oldest(T)' = Oldest(T) + 1 /\ queue[1].msg_id = Number(u)
        /\ IF queue' = <<>> THEN BaseOf(queue[1].shows) ELSE Follows(queue[1].shows, queue'[1])
    BY TailEncoded
  <1>2. /\ u <= Oldest(T)' /\ Oldest(T)' - u <= losses' + 1 /\ u # Oldest(T)'
    BY <1>1
  <1> DEFINE f == queue[1]
  <1>3. last_sent'[Client] = f /\ f.msg_id = Number(u)
        /\ IF queue' = <<>> THEN BaseOf(f.shows) ELSE Follows(f.shows, queue'[1])
    BY <1>1
  <1> HIDE DEF f
  <1>. QED BY <1>2, <1>3 DEF Sent, BaseOf

\* The send thread is done with a frame, or abandons it, or need not send it.
LEMMA RetireCoherence ==
  ASSUME Typing, Coherence, HostRetire \/ HostAbandon
  PROVE  Coherence'
  <1>1. PICK T \in Nat : Encoded(T) /\ Places(T)
    BY DEF Coherence
  <1>2. /\ queue # <<>> /\ queue' = Tail(queue)
        /\ UNCHANGED <<seq, base, extent, last_sent, joined, net, truth, clean, persistent_bgra,
                       last_applied_msg_id>>
        /\ \/ losses' = losses /\ (~ joined \/ last_sent[Client] = Head(queue))
           \/ losses' = losses + 1 /\ joined /\ last_sent[Client] # Head(queue)
    BY DEF HostRetire, HostAbandon, Retire, Lost, link, receiver
  <1>3. /\ Encoded(T)' /\ Oldest(T)' = Oldest(T) + 1 /\ Oldest(T) \in Nat
        /\ Head(queue) = queue[1] /\ queue[1].msg_id = Number(Oldest(T))
        /\ queue' = <<>> => Oldest(T) = T
    BY <1>1, <1>2, TailEncoded
  <1>4. losses \in Nat /\ losses <= MaxLoss /\ MaxLoss \in Nat /\ MaxLoss + 1 < SeqMod /\ SeqMod \in Nat
    BY StreamAssumption, EncoderAssumption DEF Typing
  <1>5. CASE last_sent[Client] = None
    <2>1. Places(T)'
      BY <1>1, <1>2, <1>5 DEF Places
    <2>. QED BY <1>2, <1>3, <2>1 DEF Coherence
  <1>6. CASE last_sent[Client] # None
    <2>1. joined
      BY <1>6 DEF Coherence
    <2>2. PICK u \in Nat, v \in [0 .. Len(net) -> Nat] : Sent(T, u) /\ Flying(T, u, v)
      BY <1>1, <1>6 DEF Places
    <2>3. /\ last_sent[Client].msg_id = Number(u) /\ u <= Oldest(T) /\ Oldest(T) - u <= losses + 1
          /\ u = Oldest(T) => last_sent[Client] = queue[1]
      BY <2>2 DEF Sent
    <2>4. Len(net) \in Nat
      BY FrameSeq DEF Typing
    <2>5. CASE last_sent[Client] = Head(queue) /\ losses' = losses
      <3>1. u = Oldest(T)
        BY <1>3, <1>4, <2>3, <2>5, NumberUnique
      <3>2. Sent(T, u)'
        BY <1>1, <1>2, <1>3, <1>4, <2>5, <3>1, TailSent
      <3>3. Flying(T, u, v)'
        <4>1. \A k \in From .. Len(net) : Oldest(T)' - 1 - v[k] - (Len(net) - k) <= losses'
          <5> TAKE k \in From .. Len(net)
          <5>1. u - v[k] - (Len(net) - k) <= losses /\ k \in 0 .. Len(net)
            BY <2>2, <2>4 DEF Flying, From
          <5>2. v[k] \in Nat
            BY <5>1
          <5>. QED BY <1>3, <2>4, <2>5, <3>1, <5>1, <5>2
        <4>. QED BY <1>2, <2>2, <2>5, <4>1 DEF Flying, From, ShownAt
      <3>. QED BY <1>2, <1>3, <1>6, <3>2, <3>3 DEF Coherence, Places
    <2>6. CASE last_sent[Client] # Head(queue) /\ losses' = losses + 1
      <3>1. u < Oldest(T)
        BY <1>3, <2>3, <2>6
      <3>2. Sent(T, u)'
        <4>1. /\ u <= Oldest(T)' /\ Oldest(T)' - u <= losses' + 1
              /\ u # Oldest(T)' /\ u # Oldest(T)' - 1
          BY <1>3, <1>4, <2>3, <2>6, <3>1
        <4>. QED BY <1>2, <2>3, <4>1 DEF Sent
      <3>3. Flying(T, u, v)'
        <4>1. \A k \in From .. Len(net) :
                 /\ u - v[k] - (Len(net) - k) <= losses'
                 /\ Oldest(T)' - 1 - v[k] - (Len(net) - k) <= losses'
          <5> TAKE k \in From .. Len(net)
          <5>1. /\ u - v[k] - (Len(net) - k) <= losses
                /\ Oldest(T) - 1 - v[k] - (Len(net) - k) <= losses
            BY <2>2 DEF Flying
          <5>2. k \in 0 .. Len(net) /\ v[k] \in Nat
            BY <2>4 DEF From
          <5>. QED BY <1>3, <1>4, <2>4, <2>6, <5>1, <5>2
        <4>. QED BY <1>2, <2>2, <4>1 DEF Flying, From, ShownAt
      <3>. QED BY <1>2, <1>3, <1>6, <3>2, <3>3 DEF Coherence, Places
    <2>. QED BY <1>2, <2>1, <2>5, <2>6
  <1>. QED BY <1>5, <1>6

\* Frame queue[1] is sent, and is the last of those in flight.
LEMMA TransmitCoherence ==
  ASSUME Typing, Coherence, HostTransmit
  PROVE  Coherence'
  <1>1. PICK T \in Nat : Encoded(T) /\ Places(T)
    BY DEF Coherence
  <1>2. /\ queue # <<>> /\ last_sent[Client] # Head(queue) /\ joined
        /\ net' = Append(net, Head(queue))
        /\ last_sent' = [last_sent EXCEPT ![Client] = Head(queue)]
        /\ queue' = queue \/ queue' = Tail(queue)
        /\ UNCHANGED <<seq, base, extent, joined, losses, truth, clean, persistent_bgra, last_applied_msg_id>>
    BY DEF HostTransmit, Transmit, receiver
  <1>m. PICK m \in Nat : m = Len(net)
    BY FrameSeq DEF Typing
  <1> DEFINE g == queue[1]
  <1>3. /\ m \in Nat /\ g \in Frames /\ Head(queue) = g /\ last_sent'[Client] = g /\ g # None
        /\ Len(net') = m + 1 /\ net'[m + 1] = g /\ \A k \in 1 .. m : net'[k] = net[k]
        /\ losses \in Nat /\ Len(queue) > 0 /\ Len(queue) \in Nat
    <2>1. g \in Frames /\ Head(queue) = g /\ Len(queue) > 0 /\ Len(queue) \in Nat
      BY <1>2, FrameSeq DEF Typing
    <2>2. /\ m \in Nat /\ Len(net') = m + 1 /\ net'[m + 1] = g /\ \A k \in 1 .. m : net'[k] = net[k]
      BY <1>m, <1>2, <2>1, FrameSeq DEF Typing
    <2>3. last_sent'[Client] = g
      BY <1>2, <2>1, StreamAssumption DEF Typing
    <2>. QED BY <2>1, <2>2, <2>3, NoneIsNoFrame DEF Typing
  <1>4. g.msg_id = Number(Oldest(T)) /\ Oldest(T) \in Nat
    <2>1. 1 \in 1 .. Len(queue) /\ Len(queue) <= T
      BY <1>1, <1>3 DEF Encoded
    <2>2. Oldest(T) \in Nat /\ Oldest(T) + 1 - 1 = Oldest(T)
      BY <1>3, <2>1 DEF Oldest
    <2>3. g.msg_id = Number(Oldest(T) + 1 - 1)
      BY <1>1, <2>1 DEF Encoded
    <2>. QED BY <2>2, <2>3
  <1>5. PICK h \in Nat : h = Oldest(T)
    BY <1>4
  <1> HIDE DEF g
  <1>6. Encoded(T)' /\ Sent(T, h)' /\ Oldest(T)' \in {h, h + 1}
    <2>1. CASE queue' = queue
      <3>1. Encoded(T)' /\ Oldest(T)' = Oldest(T)
        BY <1>1, <1>2, <2>1 DEF Encoded, Oldest, BaseOf
      <3>2. Sent(T, h)'
        BY <1>2, <1>3, <1>4, <1>5, <2>1, <3>1 DEF Sent, g
      <3>. QED BY <1>5, <3>1, <3>2
    <2>2. CASE queue' = Tail(queue)
      <3>1. Encoded(T)' /\ Oldest(T)' = Oldest(T) + 1
        BY <1>1, <1>2, <2>2, TailEncoded
      <3>2. Sent(T, h)'
        BY <1>1, <1>2, <1>3, <1>5, <2>2, TailSent DEF g
      <3>. QED BY <1>5, <3>1, <3>2
    <2>. QED BY <1>2, <2>1, <2>2
  <1>7. PICK v \in [0 .. m -> Nat] :
          /\ clean => last_applied_msg_id = Number(v[0])
          /\ \A k \in 1 .. m : net[k].msg_id = Number(v[k])
          /\ \A k \in From .. m : h - v[k] >= m + 1 - k /\ h - v[k] - (m + 1 - k) <= losses
          /\ \A k \in From + 1 .. m : /\ v[k] > v[k - 1]
                                      /\ v[k] = v[k - 1] + 1 => Follows(ShownAt(k - 1), net[k])
          /\ From <= m /\ h = v[m] + 1 => Follows(ShownAt(m), g)
    <2>1. CASE last_sent[Client] = None
      <3>1. m = 0 /\ ~ clean /\ From = 1
        <4>1. net = <<>> /\ ~ clean
          BY <1>1, <2>1 DEF Places
        <4>. QED BY <4>1, <1>m, FrameSeq DEF Typing, From
      <3>2. /\ [k \in 0 .. m |-> 0] \in [0 .. m -> Nat]
            /\ ~ \E k \in 1 .. m : TRUE
            /\ ~ \E k \in From .. m : TRUE
            /\ ~ \E k \in From + 1 .. m : TRUE
            /\ ~ (From <= m)
        BY <3>1
      <3>. QED BY <3>1, <3>2, Zenon
    <2>2. CASE last_sent[Client] # None
      <3>1. PICK u \in Nat, v \in [0 .. m -> Nat] : Sent(T, u) /\ Flying(T, u, v)
        BY <1>m, <1>1, <2>2 DEF Places
      <3>2. u < h /\ (h = u + 1 => Follows(last_sent[Client].shows, g))
        <4>1. u <= h /\ u # h
          BY <1>2, <1>3, <1>5, <3>1 DEF Sent, g
        <4>2. u = h - 1 => Follows(last_sent[Client].shows, g)
          BY <1>2, <1>5, <3>1 DEF Sent, g
        <4>. QED BY <4>1, <4>2
      <3>3. ASSUME NEW k \in From .. m
            PROVE  h - v[k] >= m + 1 - k /\ h - v[k] - (m + 1 - k) <= losses
        <4>1. u - v[k] >= m - k /\ h - 1 - v[k] - (m - k) <= losses
          BY <1>m, <1>5, <3>1 DEF Flying
        <4>2. k \in 0 .. m /\ v[k] \in Nat /\ m \in Nat /\ losses \in Nat
          BY <1>3 DEF From
        <4>3. u < h
          BY <3>2
        <4>. QED BY <4>1, <4>2, <4>3
      <3>4. ASSUME From <= m, h = v[m] + 1
            PROVE  Follows(ShownAt(m), g)
        <4>1. m \in From .. m /\ v[m] \in Nat
          BY <1>3, <3>4 DEF From
        <4>2. u - v[m] >= m - m
          BY <1>m, <3>1, <4>1 DEF Flying
        <4>3. v[m] = u
          BY <1>3, <3>2, <3>4, <4>1, <4>2
        <4>4. ShownAt(m) = last_sent[Client].shows
          BY <1>m, <3>1, <4>1, <4>3 DEF Flying
        <4>. QED BY <3>2, <3>4, <4>3, <4>4
      <3>5. /\ clean => last_applied_msg_id = Number(v[0])
            /\ \A k \in 1 .. m : net[k].msg_id = Number(v[k])
            /\ \A k \in From + 1 .. m : /\ v[k] > v[k - 1]
                                        /\ v[k] = v[k - 1] + 1 => Follows(ShownAt(k - 1), net[k])
        BY <1>m, <3>1 DEF Flying
      <3>. QED BY <3>3, <3>4, <3>5
    <2>. QED BY <2>1, <2>2
  <1> DEFINE w == [k \in 0 .. m + 1 |-> IF k = m + 1 THEN h ELSE v[k]]
  <1>8. /\ w \in [0 .. m + 1 -> Nat] /\ w[m + 1] = h
        /\ \A k \in 0 .. m : w[k] = v[k] /\ v[k] \in Nat
    BY <1>3
  <1> HIDE DEF w
  <1>9. /\ From' = From /\ From \in {0, 1}
        /\ \A k \in 0 .. m : ShownAt(k)' = ShownAt(k)
        /\ ShownAt(m + 1)' = g.shows
    <2>1. From' = From /\ From \in {0, 1} /\ ShownAt(m + 1)' = g.shows
      BY <1>2, <1>3 DEF From, ShownAt
    <2>2. ASSUME NEW k \in 0 .. m PROVE ShownAt(k)' = ShownAt(k)
      <3>1. k = 0 \/ k \in 1 .. m
        BY <1>3
      <3>. QED BY <1>2, <1>3, <3>1 DEF ShownAt
    <2>. QED BY <2>1, <2>2
  <1>10. Flying(T, h, w)'
    <2>1. clean => last_applied_msg_id = Number(w[0])
      BY <1>3, <1>7, <1>8
    <2>2. \A k \in 1 .. m + 1 : net'[k].msg_id = Number(w[k])
      <3> TAKE k \in 1 .. m + 1
      <3>1. CASE k = m + 1
        BY <1>3, <1>4, <1>5, <1>8, <3>1
      <3>2. CASE k \in 1 .. m
        <4>1. net[k].msg_id = Number(v[k]) /\ k \in 0 .. m
          BY <1>3, <1>7, <3>2
        <4>. QED BY <1>3, <1>8, <3>2, <4>1
      <3>. QED BY <1>3, <3>1, <3>2
    <2>3. \A k \in From .. m + 1 : /\ h - w[k] >= m + 1 - k
                                   /\ h - w[k] - (m + 1 - k) <= losses
                                   /\ Oldest(T)' - 1 - w[k] - (m + 1 - k) <= losses
      <3> TAKE k \in From .. m + 1
      <3>1. CASE k = m + 1
        BY <1>3, <1>6, <1>8, <3>1
      <3>2. CASE k \in From .. m
        <4>1. h - v[k] >= m + 1 - k /\ h - v[k] - (m + 1 - k) <= losses
          BY <1>7, <3>2
        <4>2. k \in 0 .. m /\ w[k] = v[k] /\ v[k] \in Nat
          BY <1>3, <1>8, <1>9, <3>2
        <4>. QED BY <1>3, <1>6, <4>1, <4>2
      <3>. QED BY <1>3, <1>9, <3>1, <3>2
    <2>4. \A k \in From + 1 .. m + 1 : /\ w[k] > w[k - 1]
                                       /\ w[k] = w[k - 1] + 1 => Follows(ShownAt(k - 1)', net'[k])
      <3> TAKE k \in From + 1 .. m + 1
      <3>1. CASE k = m + 1
        <4>1. m \in From .. m /\ From <= m /\ k - 1 = m /\ m \in 0 .. m
          <5>1. From + 1 <= k /\ k = m + 1 /\ m \in Nat /\ (From = 0 \/ From = 1)
            BY <1>9, <3>1
          <5>. QED BY ONLY <5>1
        <4>2. h - v[m] >= m + 1 - m
          BY <1>7, <4>1
        <4>3. w[k] = h /\ w[k - 1] = v[m] /\ v[m] \in Nat /\ net'[k] = g /\ ShownAt(k - 1)' = ShownAt(m)
          BY <1>3, <1>8, <1>9, <3>1, <4>1
        <4>4. h > v[m]
          BY <4>2, <4>3
        <4>5. h = v[m] + 1 => Follows(ShownAt(m), g)
          BY <1>7, <4>1
        <4>. QED BY <4>3, <4>4, <4>5
      <3>2. CASE k \in From + 1 .. m
        <4>1. k \in 1 .. m /\ k \in 0 .. m /\ k - 1 \in 0 .. m
          BY <1>3, <1>9, <3>2
        <4>2. /\ v[k] > v[k - 1]
              /\ v[k] = v[k - 1] + 1 => Follows(ShownAt(k - 1), net[k])
          BY <1>7, <3>2
        <4>. QED BY <1>3, <1>8, <1>9, <4>1, <4>2
      <3>. QED BY <1>3, <1>9, <3>1, <3>2
    <2>5. \A k \in From .. m + 1 : w[k] = h => k = m + 1 /\ ShownAt(k)' = g.shows
      <3> TAKE k \in From .. m + 1
      <3>1. CASE k \in From .. m
        <4>1. h - v[k] >= m + 1 - k
          BY <1>7, <3>1
        <4>2. k \in 0 .. m /\ w[k] = v[k] /\ v[k] \in Nat /\ m \in Nat
          BY <1>3, <1>8, <1>9, <3>1
        <4>3. w[k] # h
          BY <4>1, <4>2
        <4>. QED BY <4>3
      <3>2. CASE k = m + 1
        BY <1>9, <3>2
      <3>. QED BY <1>3, <1>9, <3>1, <3>2
    <2>. QED BY <1>m, <1>2, <1>3, <1>8, <1>9, <2>1, <2>2, <2>3, <2>4, <2>5 DEF Flying
  <1>11. Places(T)'
    BY <1>3, <1>6, <1>8, <1>10 DEF Places
  <1>. QED BY <1>2, <1>6, <1>11 DEF Coherence

\* The oldest frame in flight arrives or is lost, and x is now the place of what the
\* receiver has applied last, if that matters.
LEMMA FlyingTail ==
  ASSUME Typing, net # <<>>, net' = Tail(net), UNCHANGED <<queue, last_sent>>, losses' >= losses,
         losses' \in Nat, clean' \in BOOLEAN, NEW m \in Nat, m = Len(net),
         NEW T \in Nat, NEW u \in Nat, NEW v \in [0 .. m -> Nat], Flying(T, u, v), NEW x \in Nat,
         clean' => /\ last_applied_msg_id' = Number(x)
                   /\ u - x >= m - 1 /\ u - x - (m - 1) <= losses'
                   /\ Oldest(T) - 1 - x - (m - 1) <= losses'
                   /\ m > 1 => v[2] > x /\ (v[2] = x + 1 => Follows(truth', net[2]))
                   /\ x = u => m = 1 /\ truth' = last_sent[Client].shows
  PROVE  \E w \in [0 .. m - 1 -> Nat] : Flying(T, u, w)'
  <1>1. /\ m > 0 /\ Len(net') = m - 1 /\ \A k \in 1 .. m - 1 : net'[k] = net[k + 1]
        /\ Oldest(T)' = Oldest(T) /\ losses \in Nat
    <2>1. Oldest(T)' = Oldest(T)
      BY DEF Oldest
    <2>2. m > 0 /\ Len(net') = m - 1 /\ \A k \in 1 .. m - 1 : net'[k] = net[k + 1]
      BY FrameSeq DEF Typing
    <2>. QED BY <2>1, <2>2 DEF Typing
  <1>2. /\ \A k \in 1 .. m : net[k].msg_id = Number(v[k])
        /\ v[m] = u /\ net[m] = last_sent[Client]
    BY <1>1 DEF Flying
  <1>3. ASSUME NEW k \in 1 .. m
        PROVE  /\ u - v[k] >= m - k /\ u - v[k] - (m - k) <= losses
               /\ Oldest(T) - 1 - v[k] - (m - k) <= losses
               /\ v[k] = u => k = m /\ net[k].shows = last_sent[Client].shows
    <2>1. k \in From .. m /\ ShownAt(k) = net[k].shows
      BY DEF From, ShownAt
    <2>. QED BY <2>1 DEF Flying
  <1>4. ASSUME NEW k \in 2 .. m
        PROVE  v[k] > v[k - 1] /\ (v[k] = v[k - 1] + 1 => Follows(net[k - 1].shows, net[k]))
    <2>1. k \in From + 1 .. m /\ ShownAt(k - 1) = net[k - 1].shows
      BY DEF From, ShownAt
    <2>. QED BY <2>1 DEF Flying
  <1> DEFINE w == [k \in 0 .. m - 1 |-> IF k = 0 THEN x ELSE v[k + 1]]
  <1>5. w \in [0 .. m - 1 -> Nat] /\ w[0] = x /\ \A k \in 1 .. m - 1 : w[k] = v[k + 1]
    BY <1>1
  <1> HIDE DEF w
  <1>6. Oldest(T) \in Int
    BY FrameSeq DEF Oldest, Typing
  <1>7. /\ From' = IF clean' THEN 0 ELSE 1
        /\ ShownAt(0)' = truth' /\ \A k \in 1 .. m - 1 : ShownAt(k)' = net[k + 1].shows
    <2>1. From' = IF clean' THEN 0 ELSE 1
      BY DEF From
    <2>2. ShownAt(0)' = truth'
      BY DEF ShownAt
    <2>3. ASSUME NEW k \in 1 .. m - 1 PROVE ShownAt(k)' = net[k + 1].shows
      BY <1>1 DEF ShownAt
    <2>. QED BY <2>1, <2>2, <2>3
  <1>8. clean' => last_applied_msg_id' = Number(w[0])
    BY <1>5
  <1>9. \A k \in 1 .. m - 1 : net'[k].msg_id = Number(w[k])
    <2> TAKE k \in 1 .. m - 1
    <2>1. k + 1 \in 1 .. m
      OBVIOUS
    <2>. QED BY <1>1, <1>2, <1>5, <2>1
  <1>10. \A k \in From' .. m - 1 : /\ u - w[k] >= m - 1 - k
                                   /\ u - w[k] - (m - 1 - k) <= losses'
                                   /\ Oldest(T)' - 1 - w[k] - (m - 1 - k) <= losses'
                                   /\ w[k] = u => k = m - 1 /\ ShownAt(k)' = last_sent'[Client].shows
    <2> TAKE k \in From' .. m - 1
    <2>1. CASE k = 0
      <3>1. clean'
        BY <1>7, <2>1
      <3>. QED BY <1>1, <1>5, <1>7, <2>1, <3>1
    <2>2. CASE k \in 1 .. m - 1
      <3>1. k + 1 \in 1 .. m /\ v[k + 1] \in Nat /\ w[k] = v[k + 1]
        <4>1. k + 1 \in 1 .. m /\ k + 1 \in 0 .. m
          BY <2>2
        <4>. QED BY <1>5, <2>2, <4>1
      <3>2. /\ u - v[k + 1] >= m - (k + 1) /\ u - v[k + 1] - (m - (k + 1)) <= losses
            /\ Oldest(T) - 1 - v[k + 1] - (m - (k + 1)) <= losses
            /\ v[k + 1] = u => k + 1 = m /\ net[k + 1].shows = last_sent[Client].shows
        BY <1>3, <3>1
      <3>3. ShownAt(k)' = net[k + 1].shows
        BY <1>7, <2>2
      <3>. QED BY <1>1, <1>6, <2>2, <3>1, <3>2, <3>3
    <2>3. k = 0 \/ k \in 1 .. m - 1
      BY <1>7
    <2>. QED BY <2>1, <2>2, <2>3
  <1>11. \A k \in From' + 1 .. m - 1 : /\ w[k] > w[k - 1]
                                       /\ w[k] = w[k - 1] + 1 => Follows(ShownAt(k - 1)', net'[k])
    <2> TAKE k \in From' + 1 .. m - 1
    <2>1. CASE k = 1
      <3>1. clean' /\ m > 1 /\ 1 \in 1 .. m - 1
        BY <1>7, <2>1
      <3>2. w[1] = v[2] /\ w[0] = x /\ net'[1] = net[2] /\ k - 1 = 0
        BY <1>1, <1>5, <2>1, <3>1
      <3>. QED BY <1>7, <2>1, <3>1, <3>2
    <2>2. CASE k \in 2 .. m - 1
      <3>1. k + 1 \in 2 .. m /\ k \in 1 .. m - 1 /\ k - 1 \in 1 .. m - 1 /\ k + 1 - 1 = k /\ k - 1 + 1 = k
        BY <2>2
      <3>2. v[k + 1] > v[k] /\ (v[k + 1] = v[k] + 1 => Follows(net[k].shows, net[k + 1]))
        BY <1>4, <3>1
      <3>3. w[k] = v[k + 1] /\ w[k - 1] = v[k] /\ net'[k] = net[k + 1] /\ ShownAt(k - 1)' = net[k].shows
        BY <1>1, <1>5, <1>7, <3>1
      <3>. QED BY <3>2, <3>3
    <2>3. k = 1 \/ k \in 2 .. m - 1
      BY <1>7
    <2>. QED BY <2>1, <2>2, <2>3
  <1>12. m - 1 > 0 => w[m - 1] = u /\ net'[m - 1] = last_sent'[Client]
    <2> SUFFICES ASSUME m - 1 > 0 PROVE w[m - 1] = u /\ net'[m - 1] = last_sent'[Client]
      OBVIOUS
    <2>1. m - 1 \in 1 .. m - 1 /\ m - 1 + 1 = m
      OBVIOUS
    <2>. QED BY <1>1, <1>2, <1>5, <2>1
  <1>13. Flying(T, u, w)'
    BY <1>1, <1>8, <1>9, <1>10, <1>11, <1>12 DEF Flying
  <1>. QED BY <1>5, <1>13

\* The oldest frame in flight is applied, or it is lost, or the client is not clean.
LEMMA ArrivalPlaces ==
  ASSUME Typing, NEW T \in Nat, Places(T), Oldest(T) \in Nat,
         net # <<>>, net' = Tail(net), UNCHANGED <<queue, base, extent, last_sent>>,
         clean' \in BOOLEAN,
         \/ /\ last_applied_msg_id' = Head(net).msg_id /\ truth' = Head(net).shows /\ losses' = losses
         \/ clean' = clean /\ UNCHANGED <<last_applied_msg_id, truth>> /\ losses' = losses + 1
         \/ ~ clean' /\ losses' = losses
  PROVE  Places(T)'
  <1>1. last_sent[Client] # None
    BY DEF Places
  <1>2. PICK m \in Nat : m = Len(net)
    BY FrameSeq DEF Typing
  <1>3. PICK u \in Nat, v \in [0 .. m -> Nat] : Sent(T, u) /\ Flying(T, u, v)
    BY <1>1, <1>2 DEF Places
  <1>4. m > 0 /\ Head(net) = net[1] /\ Len(net') = m - 1 /\ losses \in Nat /\ clean \in BOOLEAN
    BY <1>2, FrameSeq DEF Typing
  <1>5. losses' \in Nat /\ losses' >= losses
    BY <1>4
  <1>6. Sent(T, u)'
    <2>1. Oldest(T)' = Oldest(T)
      BY DEF Oldest
    <2>2. Oldest(T) - u <= losses' + 1
      BY <1>3, <1>4, <1>5 DEF Sent
    <2>. QED BY <1>3, <2>1, <2>2 DEF Sent, BaseOf
  <1>7. /\ net[1].msg_id = Number(v[1]) /\ v[1] \in Nat /\ v[0] \in Nat
        /\ u - v[1] >= m - 1 /\ u - v[1] - (m - 1) <= losses /\ Oldest(T) - 1 - v[1] - (m - 1) <= losses
        /\ v[1] = u => m = 1 /\ net[1].shows = last_sent[Client].shows
    <2>1. 1 \in 1 .. m /\ 1 \in From .. m /\ ShownAt(1) = net[1].shows
      BY <1>4 DEF From, ShownAt
    <2>2. net[1].msg_id = Number(v[1])
      BY <1>2, <1>3, <2>1 DEF Flying
    <2>3. v[1] \in Nat /\ v[0] \in Nat
      BY <1>4
    <2>4. /\ u - v[1] >= m - 1 /\ u - v[1] - (m - 1) <= losses /\ Oldest(T) - 1 - v[1] - (m - 1) <= losses
          /\ v[1] = u => m = 1 /\ ShownAt(1) = last_sent[Client].shows
      BY <1>2, <1>3, <2>1 DEF Flying
    <2>. QED BY <2>1, <2>2, <2>3, <2>4
  <1>8. m > 1 => v[2] \in Nat /\ v[2] > v[1] /\ (v[2] = v[1] + 1 => Follows(net[1].shows, net[2]))
    <2> SUFFICES ASSUME m > 1
                 PROVE  v[2] \in Nat /\ v[2] > v[1] /\ (v[2] = v[1] + 1 => Follows(net[1].shows, net[2]))
      OBVIOUS
    <2>1. 2 \in From + 1 .. m /\ 2 - 1 = 1 /\ ShownAt(1) = net[1].shows
      BY <1>4 DEF From, ShownAt
    <2>2. v[2] > v[2 - 1] /\ (v[2] = v[2 - 1] + 1 => Follows(ShownAt(2 - 1), net[2]))
      BY <1>2, <1>3, <2>1 DEF Flying
    <2>3. v[2] \in Nat
      OBVIOUS
    <2>. QED BY <2>1, <2>2, <2>3
  <1>9. \E w \in [0 .. m - 1 -> Nat] : Flying(T, u, w)'
    <2>1. CASE last_applied_msg_id' = Head(net).msg_id /\ truth' = Head(net).shows /\ losses' = losses
      <3> DEFINE x == v[1]
      <3>1. /\ x \in Nat /\ last_applied_msg_id' = Number(x)
            /\ u - x >= m - 1 /\ u - x - (m - 1) <= losses'
            /\ Oldest(T) - 1 - x - (m - 1) <= losses'
            /\ x = u => m = 1 /\ truth' = last_sent[Client].shows
        BY <1>4, <1>7, <2>1
      <3>2. m > 1 => v[2] > x /\ (v[2] = x + 1 => Follows(truth', net[2]))
        BY <1>4, <1>8, <2>1
      <3> HIDE DEF x
      <3>. QED BY <1>2, <1>3, <1>5, <3>1, <3>2, FlyingTail
    <2>2. CASE clean' = clean /\ UNCHANGED <<last_applied_msg_id, truth>> /\ losses' = losses + 1
      <3> DEFINE x == v[0]
      <3>1. ASSUME clean
            PROVE  /\ last_applied_msg_id = Number(x)
                   /\ u - x >= m - 0 /\ u - x - (m - 0) <= losses
                   /\ Oldest(T) - 1 - x - (m - 0) <= losses
                   /\ v[1] > x
        <4>1. From = 0 /\ 0 \in From .. m /\ 1 \in From + 1 .. m /\ 1 - 1 = 0
          BY <1>4, <3>1 DEF From
        <4>2. v[1] > v[1 - 1]
          BY <1>2, <1>3, <4>1 DEF Flying
        <4>. QED BY <1>2, <1>3, <3>1, <4>1, <4>2 DEF Flying
      <3>2. x \in Nat
        BY <1>7
      <3> HIDE DEF x
      <3>3. ASSUME clean
            PROVE  /\ u - x >= m - 1 /\ u - x - (m - 1) <= losses'
                   /\ Oldest(T) - 1 - x - (m - 1) <= losses'
                   /\ x # u
                   /\ m > 1 => v[2] > x /\ v[2] # x + 1
        <4>1. /\ u - x >= m - 0 /\ u - x - (m - 0) <= losses
              /\ Oldest(T) - 1 - x - (m - 0) <= losses /\ v[1] > x
          BY <3>1, <3>3
        <4>2. m > 1 => v[2] > x /\ v[2] # x + 1
          <5> SUFFICES ASSUME m > 1 PROVE v[2] > x /\ v[2] # x + 1
            OBVIOUS
          <5>1. v[1] \in Nat /\ v[2] \in Nat /\ v[2] > v[1]
            BY <1>7, <1>8
          <5>2. v[1] > x
            BY <4>1
          <5>. QED BY <3>2, <5>1, <5>2
        <4>3. /\ u - x >= m - 1 /\ u - x - (m - 1) <= losses'
              /\ Oldest(T) - 1 - x - (m - 1) <= losses' /\ x # u
          BY <1>4, <2>2, <3>2, <4>1
        <4>. QED BY <4>2, <4>3
      <3>. QED BY <1>2, <1>3, <1>5, <2>2, <3>1, <3>2, <3>3, FlyingTail
    <2>3. CASE ~ clean' /\ losses' = losses
      BY <1>2, <1>3, <1>5, <1>7, <2>3, FlyingTail
    <2>. QED BY <2>1, <2>2, <2>3
  <1>. QED BY <1>1, <1>4, <1>6, <1>9 DEF Places

\* What is received and what is lost.
LEMMA ArrivalCoherence ==
  ASSUME Typing, Coherence, Receive \/ ReceivePart \/ ReceiveGarbled \/ LoseFrame
  PROVE  Coherence'
  <1>1. PICK T \in Nat : Encoded(T) /\ Places(T)
    BY DEF Coherence
  <1>2. net # <<>> /\ net' = Tail(net) /\ UNCHANGED <<requested, base, extent, seq, queue, last_sent, joined>>
    BY DEF Receive, ReceiveFull, ReceiveDelta, SkipDelta, ReceivePart, ReceiveGarbled, LoseFrame, Arrival, feedVars
  <1> DEFINE f == Head(net)
  <1>3. f \in Frames /\ f = net[1] /\ Len(net) \in Nat /\ Len(net) > 0 /\ f.shows \in Screens
        /\ losses \in Nat /\ losses + 1 < SeqMod /\ SeqMod \in Nat /\ clean \in BOOLEAN
    <2>1. f \in Frames /\ f = net[1] /\ Len(net) \in Nat /\ Len(net) > 0
      BY <1>2, FrameSeq DEF Typing
    <2>2. losses \in Nat /\ losses + 1 < SeqMod /\ SeqMod \in Nat /\ clean \in BOOLEAN
      BY StreamAssumption, EncoderAssumption DEF Typing
    <2>. QED BY <2>1, <2>2 DEF Frames
  <1>4. clean' \in BOOLEAN
    BY ClientTyping DEF Typing
  <1>5. Encoded(T)' /\ Oldest(T) \in Nat
    <2>1. Encoded(T)'
      BY <1>1, <1>2 DEF Encoded, Oldest, BaseOf
    <2>2. Len(queue) \in Nat /\ Len(queue) <= T
      BY <1>1, FrameSeq DEF Encoded, Typing
    <2>. QED BY <2>1, <2>2 DEF Oldest
  <1>6. clean => truth \in Screens /\ persistent_bgra = truth /\ persistent_bgra # None
    BY NoneAssumption DEF Coherence
  <1> HIDE DEF f
  <1>7. CASE ReceiveFull
    <2>1. /\ f.kind = "full" /\ last_applied_msg_id' = f.msg_id /\ truth' = f.shows /\ clean' = TRUE
          /\ persistent_bgra' = [width |-> f.size[1], height |-> f.size[2], pixels |-> f.payload]
          /\ losses' = losses
      BY <1>7 DEF ReceiveFull, f
    <2>2. truth' \in Screens /\ persistent_bgra' = truth'
      BY <1>3, <2>1, FullPicture
    <2>3. Places(T)'
      BY <1>1, <1>2, <1>4, <1>5, <2>1, ArrivalPlaces DEF f
    <2>. QED BY <1>2, <1>5, <2>2, <2>3 DEF Coherence
  <1>8. CASE ReceiveDelta
    <2>1. /\ f.kind = "delta" /\ last_applied_msg_id' = f.msg_id /\ truth' = f.shows /\ losses' = losses
          /\ persistent_bgra' = apply_regions(persistent_bgra, f.payload)
          /\ clean' = (clean /\ f.msg_id = next_seq(last_applied_msg_id))
      BY <1>8 DEF ReceiveDelta, f
    <2>2. ASSUME clean'
          PROVE  persistent_bgra' = truth'
      <3>1. clean /\ f.msg_id = next_seq(last_applied_msg_id)
        BY <2>1, <2>2
      <3>2. PICK u \in Nat, v \in [0 .. Len(net) -> Nat] : Flying(T, u, v)
        BY <1>1, <1>2, <3>1 DEF Places
      <3> DEFINE x == v[0]
                 y == v[1]
                 m == Len(net)
      <3>3. From = 0 /\ 0 \in From .. m /\ 1 \in From .. m /\ 1 \in From + 1 .. m /\ 1 \in 1 .. m /\ 1 - 1 = 0
            /\ ShownAt(0) = truth
        BY <1>3, <3>1 DEF From, ShownAt
      <3>4. x \in Nat /\ y \in Nat
        BY <1>3
      <3>5. /\ last_applied_msg_id = Number(x) /\ f.msg_id = Number(y)
            /\ u - x - (m - 0) <= losses /\ u - y >= m - 1
        BY <1>3, <3>1, <3>2, <3>3 DEF Flying
      <3>6. v[1] > v[1 - 1] /\ (v[1] = v[1 - 1] + 1 => Follows(ShownAt(1 - 1), net[1]))
        BY <3>2, <3>3 DEF Flying
      <3>7. y > x /\ (y = x + 1 => Follows(truth, f))
        BY <1>3, <3>3, <3>6
      <3> HIDE DEF x, y, m
      <3>8. m \in Nat
        BY <1>3 DEF m
      <3>9. x + 1 <= y /\ y - (x + 1) < SeqMod
        BY <1>3, <3>4, <3>5, <3>7, <3>8
      <3>10. Number(x + 1) = Number(y)
        BY <3>1, <3>4, <3>5, NumberNext
      <3>11. y = x + 1
        BY <3>4, <3>9, <3>10, NumberUnique
      <3>. QED BY <1>6, <2>1, <3>1, <3>7, <3>11 DEF Follows
    <2>3. truth' \in Screens
      BY <1>3, <2>1
    <2>4. Places(T)'
      BY <1>1, <1>2, <1>4, <1>5, <2>1, ArrivalPlaces DEF f
    <2>. QED BY <1>2, <1>5, <2>2, <2>3, <2>4 DEF Coherence
  <1>9. CASE SkipDelta
    <2>1. persistent_bgra = None /\ UNCHANGED <<last_applied_msg_id, truth, clean, persistent_bgra, losses>>
      BY <1>9 DEF SkipDelta
    <2>2. ~ clean'
      BY <1>6, <2>1
    <2>3. Places(T)'
      BY <1>1, <1>2, <1>4, <1>5, <2>1, <2>2, ArrivalPlaces
    <2>. QED BY <1>2, <1>5, <2>2, <2>3 DEF Coherence
  <1>10. CASE ReceivePart \/ ReceiveGarbled \/ LoseFrame
    <2>1. UNCHANGED <<last_applied_msg_id, truth, clean, persistent_bgra>> /\ losses' = losses + 1
      BY <1>10 DEF ReceivePart, ReceiveGarbled, LoseFrame, Lost, receiver
    <2>2. Places(T)'
      BY <1>1, <1>2, <1>4, <1>5, <2>1, ArrivalPlaces
    <2>. QED BY <1>2, <1>5, <2>1, <2>2 DEF Coherence
  <1>. QED BY <1>7, <1>8, <1>9, <1>10 DEF Receive

\* The other steps change no frame; some lose the base, or count a loss.
LEMMA OtherCoherence ==
  ASSUME Typing, Coherence,
         \/ HostEncodeFails \/ HostLosesDevice \/ Join \/ HostReceiveRequest
         \/ KeyframeTimer \/ LoseRequest \/ UNCHANGED vars
  PROVE  Coherence'
  <1>1. PICK T \in Nat : Encoded(T) /\ Places(T)
    BY DEF Coherence
  <1>2. /\ UNCHANGED <<seq, queue, last_sent, net, truth, clean, persistent_bgra, last_applied_msg_id>>
        /\ joined' = joined \/ joined'
        /\ losses' = losses \/ losses' = losses + 1
        /\ (base' = base /\ extent' = extent) \/ base' = None
    BY DEF HostEncodeFails, EncodeFailed, HostLosesDevice, LoseBase, Join, HostReceiveRequest, Request,
           KeyframeTimer, LoseRequest, Lost, vars, feedVars, link, receiver
  <1>3. losses \in Nat /\ losses' \in Nat /\ losses' >= losses /\ Len(net) \in Nat /\ Len(queue) \in Nat
    BY <1>2, FrameSeq DEF Typing
  <1>4. ASSUME NEW s, BaseOf(s) PROVE base' # None => base' = compute_tile_checksums[s] /\ extent' = Size(s)
    BY <1>2, <1>4 DEF BaseOf
  <1>5. Encoded(T)' /\ Oldest(T)' = Oldest(T) /\ Oldest(T) \in Int
    BY <1>1, <1>2, <1>3 DEF Encoded, Oldest, BaseOf
  <1>6. Places(T)'
    <2>1. CASE last_sent[Client] = None
      BY <1>1, <1>2, <2>1 DEF Places
    <2>2. CASE last_sent[Client] # None
      <3>1. PICK u \in Nat, v \in [0 .. Len(net) -> Nat] : Sent(T, u) /\ Flying(T, u, v)
        BY <1>1, <2>2 DEF Places
      <3>2. Sent(T, u)'
        <4>1. Oldest(T) - u <= losses' + 1
          BY <1>3, <1>5, <3>1 DEF Sent
        <4>. QED BY <1>2, <1>5, <3>1, <4>1 DEF Sent, BaseOf
      <3>3. Flying(T, u, v)'
        <4>1. \A k \in From .. Len(net) : /\ u - v[k] - (Len(net) - k) <= losses'
                                          /\ Oldest(T) - 1 - v[k] - (Len(net) - k) <= losses'
          <5> TAKE k \in From .. Len(net)
          <5>1. /\ u - v[k] - (Len(net) - k) <= losses
                /\ Oldest(T) - 1 - v[k] - (Len(net) - k) <= losses
            BY <3>1 DEF Flying
          <5>2. k \in 0 .. Len(net) /\ v[k] \in Nat
            BY <1>3 DEF From
          <5>. QED BY <1>3, <1>5, <5>1, <5>2
        <4>. QED BY <1>2, <1>5, <3>1, <4>1 DEF Flying, From, ShownAt
      <3>. QED BY <1>2, <2>2, <3>2, <3>3 DEF Places
    <2>. QED BY <2>1, <2>2
  <1>. QED BY <1>2, <1>5, <1>6 DEF Coherence

LEMMA InitCoherence == Init => Coherence
  <1> SUFFICES ASSUME Init PROVE Coherence
    OBVIOUS
  <1>1. queue = <<>> /\ Len(queue) = 0 /\ net = <<>> /\ seq = 0 /\ ~ clean /\ last_sent[Client] = None
    BY StreamAssumption DEF Init, FeedInit
  <1>2. Number(0) = 0
    <2>1. SeqMod \in Nat \ {0} /\ 0 \in 0 .. SeqMod - 1 /\ 0 * SeqMod + 0 = 0
      BY EncoderAssumption, SMTT(20)
    <2>. QED BY <2>1, DivisionOf DEF Number
  <1>3. Encoded(0)
    BY <1>1, <1>2 DEF Encoded
  <1>4. Places(0)
    BY <1>1 DEF Places
  <1>. QED BY <1>1, <1>3, <1>4 DEF Coherence

\* A client that has missed nothing since its last full frame shows exactly the
\* screen the host encoded last for it, whatever else was lost, as long as fewer
\* frames are lost than there are numbers.
THEOREM StreamCoherent == Spec => []Coherent
  <1>1. Init => Typing /\ Coherence
    BY InitTyping, InitCoherence
  <1>2. Typing /\ Coherence /\ [Next]_vars => (Typing /\ Coherence)'
    BY StepTyping, EncodeCoherence, RetireCoherence, TransmitCoherence, ArrivalCoherence, OtherCoherence DEF Next
  <1>3. Coherence => Coherent
    BY DEF Coherence, Coherent
  <1>. QED BY <1>1, <1>2, <1>3, PTL DEF Spec
=============================================================================
