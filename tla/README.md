# LANRemoteControl: TLA+ models and proofs

LANRemoteControl shares a Windows desktop with clients on the same LAN: a *host
service* captures the screen, encodes what changed and sends it over UDP; a
*client* shows the picture and sends keyboard and mouse back.  This directory
models the parts of it that are hard to test: threads, datagrams, errors and
sessions.  Source paths below are relative to `src/lanremotecontrol/`.

## 1. Inventory

| Component | State | Operations | What makes it correct |
|---|---|---|---|
| **Message encoding**: `common/src/lib.rs` 85-265 | none (bincode) | write and read messages | every datagram fits the packet size and the receive buffer |
| **Fragmentation and reassembly**: `common/src/lib.rs` 264-390, `host/src/net.rs` 90-162, `client/src/net.rs` 488-533 | host: the chunk being sent, its retries; client: map `msg_id -> FrameAssemblyState` | `split_into_chunks`, `send_fragmented`, `feed_frame_chunk_typed`, the clean-up every 2 s | only whole frames come out, each once, in order, with its dimensions; nothing stays in the map |
| **Tile-delta encoding**: `common/src/encoding.rs`, `client/src/net.rs` 385-418 | none (pure) | checksums, changed tiles, threshold, regions, their bytes, LZ4, the client's copy loop | a delta applied to its base gives the screen, at every size and tile size |
| **Host service threads**: `host/src/main.rs` | `running`, `force_full_next`, the `ConnectionManager` behind a mutex, a channel of 4 frames; `prev_checksums`, `frame_seq`, capture device | capture loop, send loop, main loop, Ctrl+C | frames in order; each delta against the frame before it; requests answered; shutdown ends |
| **Client receiver**: `client/src/net.rs` 283-505 | picture, `last_applied_msg_id`, time of the last keyframe request, assembly map | apply full frame, apply or skip delta, gap detection, keyframe request | a client that lost something becomes whole again |
| **Sessions**: `client/src/ui.rs` 106-155, 592-658, `client/src/net.rs` 158-212, `host/src/net.rs` 164-307 | window: `AppState`, socket, handshake result, shared frame buffer; host: pending and active addresses | connect, handshake thread, result, disconnect, receiver threads; Request / Confirm / Teardown | one handshake at a time; both sides agree; a session shows its own picture |
| **Heartbeats**: `host/src/net.rs` 309-389, `host/src/main.rs` 104-195, `client/src/net.rs` 466-470 | `send_seq`, `last_acked_seq` | tick, acknowledge, check | missed heartbeats are counted exactly, also at the wrap |
| **Input**: `client/src/ui.rs` 410-562, `host/src/input.rs` | modifiers and position sent last; the host's keys, cursor and wheels | forward events once per repaint, inject | the host's keys are those reported to the window, and none the user has let go; clicks land where they were made; wheels turn as far |
| **Coordinates**: `client/src/ui.rs` 779-804, `client/src/net.rs` 539-545 | none (pure) | scale a window position to the screen and to 0..65535 | the cursor lands on the pixel aimed at, or next to it |
| **DXGI capture**: `host/src/capture.rs` | device, duplication, a frame held, staging texture | open, capture a frame | what is copied is what was acquired; no change of the desktop is forgotten; its failures are those the loop knows |
| not modelled: HEVC (`common/src/hevc.rs`, `host/src/encoder.rs`) and `client/src/input.rs`, which nothing calls; window layout and start-up; the key-code table | | | |

Interactions.  The capture thread hands frames to the send thread through the
bounded channel; both read the active addresses that the main thread changes;
the main thread sets the keyframe flag the capture thread swaps.  The client's
window starts a handshake thread that leaves a result in a shared slot, and a
receiver thread that leaves pictures in a shared buffer.  Host and client
exchange datagrams that may be lost, and on some networks reordered or
duplicated.

Hard behaviours: interleavings of the host's threads at each lock, atomic and
channel operation; encoder and device errors in the middle of a frame; frames
abandoned, lost or partial; keyframe requests lost, rate-limited or swallowed;
numbers that wrap at 2^32; handshakes that lose a message or meet a stale one;
threads that outlive their session; key events that are batched, lost or cut
off by a disconnect.  `PROJECT.json` lists each at its line with the property
that watches it.

## 2. Modules

| Module | Models | State and actions |
|---|---|---|
| `FrameChunks` | chunks and assemblies as operators | `split_into_chunks`, `add_chunk`, `Fed` (`feed_frame_chunk_typed`), `Retained` (the clean-up's condition) |
| `FrameAssembly` | one host, one client, a lossy network | `SendChunk`, `SendRetry`, `SendAbandon`; `ReceiveChunk`; `Cleanup`.  Reordering, duplicates and loss are CONSTANTS |
| `FrameAssemblyProofs` | theorems about it and `WireFormat` | section 5 |
| `WireFormat` | how long messages are, where payloads are cut | `MessageSize`, `ChunkSize`, `Start`, `End`, `chunk_count`, ... |
| `Tiles`, `TilesProofs` | the tiles of a frame and the client's copy loop, on buffers of pixels | `extract_tile_data`, `tile_checksums`, `detect_delta_tiles`, `build_delta_regions`, `ApplyRegions` |
| `DeltaBlob` | the bytes of a delta | `compress_delta`, `decompress_delta` |
| `DeltaEncoding`, `FrameEncoder` | what becomes of a captured screen | `force_full`, `WantsFull`, `FullFrame`, `DeltaFrame`, ... |
| `CaptureDevice` | **abstract**: what the capture thread expects of its device | `Deliver`, `Wedge`, `Reopen` |
| `DxgiCapture`, `DxgiCaptureProofs` | `capture_frame` call by call; implements `CaptureDevice` | `AcquireNextFrame`, `CastTexture`, `get_or_create_staging`, `CopyAndMap`, `CopyRows`, `create_d3d11_device`, `OpenOutput` |
| `HostPipeline` | the three threads of the host, on a `CaptureDevice` | `cap_pc`, `send_pc`, `main_pc`: one step per access to shared state |
| `HostFeed` | **abstract**: what the threads promise together | a queue of encoded frames, each made against the one before (`base`, `extent`: its checksums and size), sent in order, each at most once |
| `HostPipelineFeed` | `HostPipeline` implements `HostFeed` | the queue is the frame with the send thread, the channel, the frame with the capture thread |
| `ScreenStream` | `HostFeed`, a lossy network, the client's receiver and its requests | `ReceiveFull`, `ReceiveDelta`, `SkipDelta`, `ReceivePart`, `ReceiveGarbled`, `HostReceiveRequest`, ... |
| `Session` | windows, threads, hosts | `start_connect`, `Handshake`, `TakeResult`, `disconnect`, `HostRequest`, `HostConfirm`, `ReceiveDatagram`, restarts |
| `HostPipelineProofs`, `ScreenStreamProofs`, `SessionProofs`, `HeartbeatProofs` | theorems about them | section 5 |
| `Heartbeat` | `HeartbeatManager` with many clients | `Tick`, `Acknowledge`, `received_ack` |
| `InputForwarding`, `InputForwardingProofs` | user, GUI library (external: `keys_down`, `KeyInput`, `Wheel`), window, commands, host | `Repaint`, `Inject`, `Lose`; of the user: `Toggle...`, `RepeatKey`, `MovePointer`, `TurnWheel` |
| `Coordinates` (theorem in `InputForwardingProofs`) | one axis of a position, from the window to the host's pixel | `map_pos_to_remote`, `normalize_abs_coord` |
| `MC...` | instances for TLC | |

Abstractions.  A chunk's bytes are `<<msg_id, chunk_idx>>` in `FrameAssembly`
and an interval of the payload in `WireFormat`.  A screen has a width, a height
and pixels; a tile's checksum is the tile (no hash collisions); LZ4 is an
external function that its inverse undoes, and its failures are actions.  A
desktop changes its size only when its capture device is opened anew, because
the duplication is lost then (`DxgiCapture` itself lets it change at any time).
A key is named by what it types, so a key in `Renamed` has another name under
Shift; the codes themselves are left out.  Turns of a wheel are rounded by each
event on its own, as in the code (under Shift the model rounds before it adds).  Coordinates are exact numbers, not floating-point ones.  Time is left out:
a timeout is an action that may happen at any moment (the handshake's 300 ms,
the 500 ms between keyframe requests, the 2 s of the clean-up); the capture
throttle of 16 ms is no step.  `capture = "wedged"` stands for a device whose
every further acquire fails.  `ScreenStream` treats a frame as arriving whole,
in part or not at all, which is what `FrameAssembly` shows of a network that
keeps order.  In `Session` a host knows only the port of a client, and the
client's sockets are numbered, so that a stale datagram and a session on the
same port can meet.

egui is external.  What is assumed of it is what version 0.27, which
`client/Cargo.toml` asks for, does on Windows:

- a modifier produces no event, and its state is that of the repaint;
- an event names a key by what it types now, or by its place on the keyboard if
  that has no name, so only a few keys change their names with Shift (`;` and
  `:`, `/` and `?`, `+` and `=`);
- a press is a repetition when that *name* is in `keys_down`, from which only a
  release under the same name takes it.  So the first repetition after Shift
  changed is no repetition for egui, and a name whose key was released under
  another one makes the next press of it a repetition;
- the press of a shortcut (Ctrl+X, C, V, Shift+Delete, Shift and Ctrl+Insert) is a
  cut, copy or paste instead, which `client/src/ui.rs` 531 leaves out; its release is
  an ordinary one;
- a wheel turned under Ctrl is a zoom, left out too, and one turned under Shift
  turns sideways by the sum of both turns;
- a click needs a press and a release on the cross.

Another assumption is that the window keeps the keyboard focus.  A key let go
while another window has the focus makes no event, `ui.rs` handles no change of
focus, and the key stays down at the host.

Operators whose comment begins "Mutant of" are deliberately wrong versions of
the definition after them; the checks substitute them to see that a property
notices.

## 3. Runs

Runs that must hold:

| Run | Shows | Bounds, and why they are enough |
|---|---|---|
| `AssemblyUdp` | under loss, reordering and duplicates: assemblies consistent and in progress, only exact frames come out, a frame again only when as many datagrams were duplicated as it has chunks; with nothing lost every frame completes | frames of 3 and 2 chunks, 3 duplicates: either frame can be duplicated whole, and come out twice |
| `AssemblyFifo` | frames complete in order, once, with their dimensions, and leave nothing behind | frames of 3, 1, 2 chunks with a change of resolution; the theorems cover every size, and `CompletedOnce` and `NoResidue` with reordering |
| `Capture` | what is copied is what was acquired; no change is forgotten by a device in good order; `DxgiCapture` implements `CaptureDevice` | two sizes and two contents, every call failing at every time, unbounded runs; the theorems cover every set of screens |
| `PipelineSafety` | order on the way and at each client, each delta against the frame before, `HostPipeline` implements `HostFeed` | one client; 3 by 3 pixels in tiles of 2, three of which are smaller, with one pixel changed (a delta), and 2 by 3 (another size); channel of 1, 3 captures, all errors |
| `PipelineLive` | all threads end after Ctrl+C; a request is answered by a full frame on a changing desktop | channel of 1, one client, so both a full and an empty channel occur; numbers modulo 3, so the counter wraps and capture never stops; no errors, because encoding could fail for ever |
| `Stream` | a client without losses since a full frame shows the host's screen, pixel by pixel, also where the resolution changes; every client is whole after `KEYFRAME_INTERVAL` frames without a loss, and for good once losses stop on a changing desktop | interval 2, numbers modulo 5: like 2^32 modulo 15, 5 leaves 1 modulo the interval; 2 losses, one frame in flight and one queued behind it, so a delta can follow a loss before the request arrives; two screens at each of two sizes, differing in a pixel of a tile at the edge |
| `Session` | one handshake at a time on the window's socket; the window leaves "connecting"; no port both pending and active; a connected window has an entry at its host | 3 sessions, 2 ports, a restart, port reuse, loss |
| `HeartbeatAcks` | missed heartbeats counted exactly, a single client's silence noticed | numbers modulo 8, 18 ticks: two wraps |
| `InputSync` | in the first session the host holds the user's modifiers and what was reported as pressed and not as released, nothing the user has let go, and its wheels have turned as far as reported; a lost command harms its own key or the wheels only; clicks land where made once the pointer moved; what the host does to a key is always a subsequence of what was reported of it | 4 inputs in 2 sessions: enough for Shift to change between the press of a key and its release or repetition, for a shortcut, for a click between two moves, and for a session that ends with a button down; Shift and Ctrl, one key with two names, the left button and one without a code, turns of both wheels that are none, or another one, under Shift. A press that the window drops as a repetition needs a fifth input (press, Shift, release, Shift, press): it is in the theorems only, which cover any number of inputs and sessions |

Three pure algorithms are checked against a reference over bounded inputs by
assumptions of the `MC` modules, which TLC evaluates before the runs:
`ChunksInOrder` (`MCFrameAssembly`: the chunks of `WireFormat` put together are
the payload), `DeltaBytes` (`MCScreenStream`: a delta is read back as it was
written, and refused as a whole if cut off anywhere) and `PointsStayApart`
(`MCInputForwarding`: positions keep their order at the host).

| Run | Distinct states | | Run | Distinct states |
|---|---|---|---|---|
| `Capture` | 4,548 | | `Session` | 119,062 |
| `PipelineSafety` | 763,716 | | `InputSync` | 877,965 |
| `Stream` | 371,940 | | | |

Runs that find a disagreement between the code and what a document or comment
says (each is quoted in `PROJECT.json` under `findings`):

| Run | Found |
|---|---|
| `AssemblyStale` | the clean-up of stale assemblies cannot remove one: its condition holds of every entry.  The map grows with every partial frame, and its keyframe request is never sent |
| `StreamStaticDesktop` | the gap left by an abandoned frame shows only when another frame follows |
| `SessionForeignPicture` | the receiver of a closed session writes into the next session's window |

Other disagreements, met while modelling.  The models contain the behaviour; a
property stating the sentence would fail, and no run states it:

| Code | What it does | What is said of it |
|---|---|---|
| `common/src/lib.rs` 376 | the dimensions of a frame come from the chunk that arrives first, and only chunk 0 has them: `DimsIntact` fails if chunks are reordered | "Returns `Some((complete_data, width, height))` when the last chunk arrives" (370) |
| `client/src/net.rs` 422 | a delta after a lost one is applied, and the tiles of the lost one stay old until they change again or a full frame comes: `Coherent` speaks only of a client that missed nothing | "lost packets are generally not retransmitted to maintain low latency; instead, the next delta frame will compensate" (`docs/NETWORK_PROTOCOL.md` 73) |
| `client/src/net.rs` 409 | a row of a region that leaves the buffer is left out, and one that leaves the picture goes on in the next line (`Copies` in `Tiles`); the host's own regions do neither (`DeltaRestores`) | "Clamp to buffer bounds" (405) |
| `common/src/lib.rs` 127 | an empty message takes 22 bytes and its type 4 (`MessageSize` in `WireFormat`); the constants leave room for it | `header_size()` is 11; "Message type identifier (1 byte on the wire)" (90) |
| `host/src/capture.rs` 123 | loss of access to the desktop is an ordinary failure to acquire, for ever: only a removed device is opened anew (`Wedge` in `CaptureDevice`) | "The D3D/GPU device was lost and must be re-created." (`common/src/capture.rs` 54), which ACCESS_LOST demands too |
| `host/src/main.rs` 254 | a keyframe request waits for the next change of the desktop | "Client-to-host request for an immediate full keyframe" (`common/src/lib.rs` 61) |
| `host/src/main.rs` 257 | a lost device is re-opened once; if that fails, never again | "The D3D/GPU device was lost and must be re-created." (`common/src/capture.rs` 54) |
| `client/src/net.rs` 205 | the Confirm is sent once: if it is lost, the window says it is connected and the host keeps it pending and sends nothing (`KnownToHost`: pending, never forgotten) | "Client confirms capabilities and session begins" (`docs/NETWORK_PROTOCOL.md` 95) |
| `client/src/ui.rs` 141 | disconnecting sends nothing, and the host keeps the connection | "Client sends a teardown message (Type 0x05 with teardown flag) to the host" (`docs/HOST_CLIENT_FLOW.md` 66) |
| `host/src/main.rs` 191 | heartbeats are counted and checked without clients too: a host nobody is connected to warns of missed heartbeats | "more than `max_missed` consecutive heartbeats have been sent without receiving an ACK" (`host/src/net.rs` 372) |
| `host/src/main.rs` 105 | one manager serves all clients: one that answers hides the silence of another | "Tracks heartbeat state for a single connection" (`host/src/net.rs` 313) |
| `client/src/ui.rs` 549 | a lost control command is not sent again | "For control commands and critical data, retransmission is implemented" (`docs/NETWORK_PROTOCOL.md` 74) |
| `client/src/ui.rs` 434 | a modifier changed after a key within one repaint is sent before it | "in the exact order they were captured on the client side" (`docs/INPUT_FORWARDING.md` 62) |
| `host/src/input.rs` 187 | the coordinates of a click are passed without the flags that make them count | "Absolute cursor X at the time of the event." (`common/src/lib.rs` 170) |
| `client/src/ui.rs` 455 | repetitions are left out as egui finds them, by name: after `;`, Shift, a release as `:` and Shift again the next press of `;` is dropped, and the key is up at the host while the user holds it (`InSync` speaks of the presses reported); and a key held while Shift changes is pressed at the host a second time | "Event Data: Key code (scan code or virtual key code), key state (down/up/repeat)" (`docs/INPUT_FORWARDING.md` 13) |
| `client/src/ui.rs` 531 | copy, cut and paste events and zooms are left out: Ctrl and C sends no press of C, only its release, and a wheel turned under Ctrl does not turn at the host (under Shift both wheels turn sideways) | "captures local keyboard/mouse events and forwards them to the host" (`docs/HOST_CLIENT_FLOW.md` 54) |
| `client/src/ui.rs` 426 | the press on the disconnect cross is forwarded and its release is not: the button stays down at the host | "captures local keyboard/mouse events and forwards them to the host" (`docs/HOST_CLIENT_FLOW.md` 54) |

`MaxFrame`, `MaxSeq`, `MaxLoss`, `NetCap`, `MaxSessions`, `MaxFaults`,
`MaxDuplicates`, `MaxTicks`, `Lifetime` and `MaxInputs` are bounds of the
models, not of the code.  `Lifetime` says that no datagram and no silence lasts
for half the sequence space, 68 years at a heartbeat a second.  Deadlock is not
checked where a service that has shut down, a bound that is used up or a user
who does nothing ends a behaviour.

## 4. Fairness

*FrameAssembly*: the sender goes on, a datagram in flight arrives (used only by
`AllComplete`, whose premise is that nothing is lost, and `StaleCleaned`), the
receiver's loop reaches its clean-up on every turn.
*HostPipeline*: weak fairness of each of the three threads as a whole, which is
what the operating system gives to a thread that is not blocked; nothing of the
user, the clients or the capture device.  `RequestServed` has the fairness of a
desktop that goes on changing as its premise, `Shutdown` has not.
*ScreenStream*: the send loop and the receiver run, a frame in flight arrives,
whole, in part or not at all (`Arrival`), a timer ends, a request that is not
lost arrives; `LiveDesktopSpec` adds that the desktop goes on
changing, without which `Recovers` fails, as `StreamStaticDesktop` shows.
*Session*: the window repaints while it is connecting
(`ctx.request_repaint`, `client/src/ui.rs` 653-656), the handshake thread runs
(its receive has a timeout), a host reads its socket; no fairness of hosts
sending frames or of the user.

## 5. Proofs

TLAPS proves, for every value of the constants:

| Theorem | Says | Under |
|---|---|---|
| `Typing`, `Progress`, `Exactness` (`FrameAssemblyProofs`) | `TypeOK`, `AssemblyProgress`, `CompletedExact` | any loss, reordering and duplication |
| `Once`, `Residue` (`FrameAssemblyProofs`) | `CompletedOnce`, `NoResidue` | `MaxDuplicates = 0` |
| `Order`, `Dimensions` (`FrameAssemblyProofs`) | `InOrder`, `DimsIntact` | `MaxDuplicates = 0` and no reordering |
| `ChunksAreThePayload`, `DatagramsFit` (`FrameAssemblyProofs`) | the chunks are the payload cut up; every datagram fits | texts no longer than `MAX_PACKET_SIZE - 46` |
| `DeltaRestores`, `DeltaApplies` (`TilesProofs`) | the regions of the changed tiles, in any order, make the new frame of the old one; so does the delta of two screens, applied to the client's picture | both of one size |
| `PipelineTypes` (`HostPipelineProofs`) | `TypeOK` | any number of clients, any screens, all errors |
| `PipelineImplementsFeed` (`HostPipelineProofs`) | `ImplementsFeed`: the three threads implement `HostFeed` | the same |
| `PipelineOrdered`, `PipelineWireOrder`, `PipelineDeltaBase` (`HostPipelineProofs`) | `PipelineOrder`, `WireOrder`, `DeltaBase` | `frame_seq` has not wrapped (`MaxSeq < SeqMod`) |
| `StreamTypes`, `StreamCoherent` (`ScreenStreamProofs`) | `TypeOK`, `Coherent` | any losses, fewer than there are numbers; the numbers may wrap |
| `StreamRecovers` (`ScreenStreamProofs`) | `RecoveryBound` | `EvenWrap`: `SeqMod` leaves 1 modulo `KEYFRAME_INTERVAL`, as 2^32 does modulo 15 |
| `CaptureTypeOK`, `RowsFit`, `ChangesKept` (`DxgiCaptureProofs`) | `TypeOK`, `StagingFits`, `NothingForgotten` | any call failing at any time |
| `CaptureRefinement` (`DxgiCaptureProofs`) | `DxgiCapture` implements `CaptureDevice` | the same |
| `InputTypes`, `ClicksLand`, `HostInSync`, `KeysInOrder` (`InputForwardingProofs`) | `TypeOK`, `ClickAfterMove`, `InSync`, `OrderOfKey` | any keys, names, shortcuts, points, inputs, sessions and losses; finitely many modifiers; egui as in section 2 |
| `CursorLands` (`InputForwardingProofs`) | the coordinate is in range, the cursor on the screen and within a pixel of the one aimed at | exact arithmetic, at most 32768 pixels |
| `SessionTyping`, `SingleHandshake`, `SocketInUse`, `PendingXorActive`, `HostKnows` (`SessionProofs`) | `TypeOK`, `OneHandshake`, `ClientSocket`, `PendingOrActive`, `KnownToHost` | any number of hosts, ports, sessions and restarts |
| `HeartbeatTyping`, `LatestAcked` (`HeartbeatProofs`) | `TypeOK`, `AckedIsLatest` | any number of clients; `Lifetime` below half of `SeqMod` |
| `SilenceIsNoticed` (`HeartbeatProofs`) | `SilenceNoticed` | one client |

Assumptions: each module's own, stated at its constants: their types, that no
data is not data, that a silence and a datagram's life are shorter than half the
sequence space (`HeartbeatAssumption`), that a chunk with 54 bytes of headers is
no longer than a packet (`WireAssumption`), that a screen has at least one pixel
and is its size and its pixels (`ScreensAssumption`), that `Option::None` is no
screen, frame or checksums (`NoneAssumption`), nor a point or a key, that
modifiers, keys and buttons are different and there are finitely many modifiers
(`InputAssumption`), and that a client does not lose
2^32 frames in a row (`StreamAssumption`).

The two hypotheses are about the 32 bits of `frame_seq`.  `PipelineOrder`,
`WireOrder` and `DeltaBase` compare numbers with `<`, as a reader of the log
would, which means something only until the counter wraps: two years and more
at 60 frames a second.  What must survive the wrap is stated without comparing:
`Coherent`, which has no such hypothesis, and `RecoveryBound`.  This one does
depend on the modulus.  A full frame is forced at the multiples of 15, so the
number that follows is 1 modulo 15, and after 2^32 - 1, a multiple of 15, comes
0, which forces none, and then 1: the intervals go on as they were.  With
another modulus a client could have to wait for nearly two of them.

*FrameAssembly.*  `AssemblyProgress` is inductive only with the types and with
"slot i holds chunk i or nothing and the counter is the number of filled
slots" (`IInv`): then a chunk that is fresh and brings the counter to
`chunk_count` has filled every slot, which is a fact about cardinalities, and
what comes out is the whole frame.  (That an entry has between 1 and
`chunk_count - 1` chunks is the very condition under which the clean-up keeps it:
this is the defect that `AssemblyStale` shows.)  `CompletedOnce` needs to say where a chunk
of a frame can be: what is in flight was sent before, and a chunk in a slot of
the assembly map or in a completed frame was sent before and is no longer in
flight (`OnceInv`).  `InOrder` needs, in
addition, that on a network that keeps order whatever is in the assembly map or
was completed is older than whatever is in flight (`FifoInv`); the dimensions
follow because then a frame of which chunk 0 was lost can never be completed,
and otherwise chunk 0 is the first to come.

*Tiles.*  Each place of the buffer lies in exactly one tile.  If that tile
changed, the row of its region that covers the place is copied, since it fits,
and no region of another tile covers it; if it did not change, no region covers
it and the old pixel is the new one.  So the order of the regions, which is that
of a hash map, does not matter.

*HostPipeline.*  `Typing` says, besides the types, that what a thread holds fits
its program counter: the frame grabbed in `send` is one the encoder may make,
the one the send thread works on too, and a capture thread that is encoding has
a screen.  The refinement maps the feed's queue to the frame with the send
thread, the channel and the frame with the capture thread, put together.  A
frame that moves from one to the next is no step of the feed; the capture thread
encoding is `Encode`, `EncodeFallback` or `EncodeFailed`, a device lost or
wedged is `LoseBase`, a send is `Transmit`, the end of one is `Retire`, and a
receiver that has gone is `Discard`.  The queue's bound is the channel's and two.
`Order` adds that the queue's numbers follow each other up to `frame_seq`, or up
to the one before when the frame in hand was thrown away by a capture thread
about to exit.  `DeltaBase` needs to know of every frame that is under way or was
sent (`Known`) that two with neighbouring numbers fit together (`Deltas`): the
younger, if it is a delta, applied to the screen of the older gives its own
screen.  That is `DeltaApplies`, at the step that encodes.

*ScreenStream.*  `RecoveryBound` counts frames from the last that was due in full
(`Cadence`): whatever is in flight is numbered as if it had just been encoded, a
delta never has a number that is due, and so a client that receives
`KEYFRAME_INTERVAL` frames without a gap has received a full one.  `Coherent`
must say where a frame stands among all frames encoded, because its number alone
does not once it wraps.  `Coherence` says that there are places: frame number n
is the T-th encoded with T modulo `SeqMod` its number, the queue holds the last
ones up to T, the client was sent the u-th last, and the frames in flight, after
what it has applied last, have places v[0] < v[1] < ... up to u.  Two places that
are neighbours carry frames that follow each other, and two that are not are
fewer than `SeqMod` apart, since each between them is a loss: so a delta that has
the number expected is in place, and the client applies it to the very screen it
was made on.  The places are history no variable keeps, and are hidden behind an
existential quantifier; each step names the new ones.

*DxgiCapture.*  The invariant says that a texture is mapped only while its rows
are copied, that a held frame is the one acquired, and, from `copy` on, that the
staging texture has the size of the frame: a failure at any step keeps it, since
the next capture is refused before it gets to the texture, or finds or makes one
that fits.  The refinement maps the moment of acquiring to the device's
desktop: all of `capture_frame` is one step of the device, taken where it
returns (`Deliver`, or `Wedge` when it leaves with the frame held).

*Session.*  What is inductive is the three situations of the window (`Phases`):
a thread works on the window's socket; or its result is there and no thread; or
the window is not connecting and there is neither.  The handshake result names
no session, so this is what rules out that the window takes an older one's.
A host's `pending` and `active` are disjoint because a Request leaves `active`
and a Confirm leaves `pending`.  `KnownToHost` needs the chain that leads to a
connected window (`Offered`): the Capabilities on their way, the thread about to
confirm and the result not yet taken all name a port with an entry, since a host
answers a Request only after it made one, and only a restart takes one away.

*InputForwarding.*  The window is a fold over the events of a repaint, and the
host's inputs are folds too.  `FoldIsRun` unrolls a fold into the results of its
steps one by one (`Run`), which can be reasoned about for sequences of any length
by looking at the shortest counterexample (`Least`, `Induct`, `SeqInduct`); so
`ForwardIsRun` and `TurnsIsRun` say what the window makes of any events.  The
invariants speak of what is still under way, as if it were carried out.
`AimInv`: once the commands in flight are, the host's cursor is where the window
last sent it, and once the events are too it is where the user's pointer is
(when it moved in this session), and no click among either misses; leaving out a
move to the position sent last changes nothing in that.  `SyncInv`: once the
commands in flight are carried out, the modifiers down are `last_modifiers`, and
once the events are too the other keys down are `fresh`, what was reported as
pressed and not as released, and the wheels have turned as far as `turned`.  A
repaint sends the modifiers first and the events after them, and the two touch
different keys, so what is down after both is down after either order;
`DoForwarded` says that a command does what its event did.  With nothing under
way, both are the properties themselves.  A loss does not end what `SyncInv`
says: two states of the host are `Close` when they differ in the keys lost, and
in the wheels if a turn was, only, and `CloseRun` shows that they stay so whatever
is carried out in both.  That nothing is down that the user has let go needs that
`fresh` is within `held`, for which the types say that of the events too: a
release under any name is no repetition and ends the press of its key.

`OrderOfKey` is about subsequences: the greedy `Unmatched` must find all that the
host did to a key in what the window was told.  `OrderInv` speaks of places in
`told` instead.  `Found(s, told)` is the set of places by which all of `s` can have
been found, and `KeySent`, `KeySeen` and `KeyNext` are what is left of it when the
commands in flight, the events and the modifier that the next repaint will send
are looked for as well; the invariant is that the end of `told` is still in the
last of them.  Whatever is told goes to the end of `told` and to the end
of what is looked for (`SeekLast`), and a repaint only moves it from one set to
the next: the modifiers overtake the events, but events are not about modifiers,
and a modifier that was pressed and released between two repaints is not sent.
A loss leaves less to look for, and so more places (`SeekGrows`).  `SearchFinds`
says that the greedy search is never behind: when all of `s` can be found it is.

*Heartbeat.*  `Inv` says that each number on the wire is its tick modulo
`SeqMod` and not older than `Lifetime`; then the sign of a wrapped difference is
that of the real one, and the acknowledged number moves only forward.  The
arithmetic is in lemmas about remainders.  `SilenceNoticed` needs that the last
check still holds (`AliveCounted`), and that what one client has not heard lies
after its own last acknowledgement.

Only model-checked: all liveness properties (outside the prover's reach),
`RepeatsAreDuplicates`, and the
bytes of a delta (`DeltaBytes`), which are a concatenation over the regions.

## 6. What is left

1. `ScreenStream` and `HostPipeline` with two clients (`HostPipeline` has them as
   a constant, but its errors, screens and two clients together are too many
   states for one run).
2. `RepeatsAreDuplicates` proved: it needs the number of copies of each chunk,
   which no variable keeps.
3. `InputForwarding` with the focus of the window.
4. Runs for the disagreements of section 3 that have none, the most serious
   first: the device that is re-opened once, the half-open connection, the
   button left down.

Not modelled and why: HEVC encoding and the Media Foundation encoder, and the
prototype of input capture (nothing calls them); window layout and start-up (no
protocol state); LZ4, xxHash and bincode themselves (libraries; the length of
what bincode writes is modelled); the values of the key-code table; rounding
errors of floating-point numbers; real time (timeouts are nondeterministic).
