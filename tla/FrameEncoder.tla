---------------------------- MODULE FrameEncoder ----------------------------
(***************************************************************************)
(* What capture_loop makes of one captured screen (host/src/main.rs): a    *)
(* full frame, a delta against the frame encoded before, or nothing.       *)
(***************************************************************************)
EXTENDS DeltaEncoding

CONSTANTS
    KEYFRAME_INTERVAL,  \* every how many frames a full one is forced
    SeqMod,             \* frame_seq is counted modulo SeqMod (2^32)
    None                \* Option::None

ASSUME EncoderAssumption ==
    KEYFRAME_INTERVAL \in Nat \ {0} /\ SeqMod \in Nat \ {0} /\ TileSize \in Nat \ {0}

\* Mutant of next_seq: no wrap-around.
next_seqUnwrapped(seq) == seq + 1

next_seq(seq) == (seq + 1) % SeqMod

\* Mutants of force_full: no cadence, and no requests.
force_fullOnRequest(requested, seq) == requested
force_fullOnCadence(requested, seq) == seq > 0 /\ seq % KEYFRAME_INTERVAL = 0

force_full(requested, seq) == requested \/ (seq > 0 /\ seq % KEYFRAME_INTERVAL = 0)

\* The tiles of screen s to encode; base is the checksums of the frame before, or
\* None, and then they are all of them.
changed(base, s) ==
    LET current == compute_tile_checksums[s]
    IN  IF base = None THEN DOMAIN current ELSE detect_delta_tiles(base, current)

\* Nothing is sent for a screen that has not changed, unless it is forced.
Unchanged(requested, seq, base, s) == ~ force_full(requested, seq) /\ changed(base, s) = {}

WantsFull(requested, seq, base, s) ==
    \/ force_full(requested, seq)
    \/ base = None
    \/ should_send_full_frame(Cardinality(changed(base, s)),
                              total_tile_count(s.width, s.height, TileSize))

\* FrameToSend: a full frame carries every pixel, a delta the regions changed.
\* "shows" is history: the screen the frame was encoded from.
Frame(id, kind, payload, s) ==
    [msg_id |-> id, kind |-> kind, size |-> Size(s), payload |-> payload, shows |-> s]

\* Mutant of FullFrame: the number of the frame before.
FullFrameSameNumber(seq, s) == Frame(seq, "full", s.pixels, s)

FullFrame(seq, s) == Frame(next_seq(seq), "full", s.pixels, s)

DeltaFrame(seq, base, s) ==
    Frame(next_seq(seq), "delta", delta_regions[s][changed(base, s)], s)

\* A frame the encoder may make: the pixels of a screen, or regions of it.
IsFrame(f) ==
    /\ f = Frame(f.msg_id, f.kind, f.payload, f.shows)
    /\ f.msg_id \in 0 .. SeqMod - 1 /\ f.shows \in Screens
    /\ \/ f.kind = "full" /\ f.payload = f.shows.pixels
       \/ f.kind = "delta" /\ \E T \in SUBSET DOMAIN compute_tile_checksums[f.shows] :
                                 f.payload = delta_regions[f.shows][T]

\* None is no screen, size, frame or checksums.
ASSUME NoneAssumption ==
    \A s \in Screens :
        /\ None # s /\ None # Size(s) /\ None # compute_tile_checksums[s]
        /\ \A id \in 0 .. SeqMod - 1 :
              /\ None # Frame(id, "full", s.pixels, s)
              /\ \A T \in SUBSET DOMAIN compute_tile_checksums[s] :
                    None # Frame(id, "delta", delta_regions[s][T], s)
=============================================================================
