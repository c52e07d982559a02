----------------------------- MODULE DxgiCapture -----------------------------
(***************************************************************************)
(* Screen capture with DXGI desktop duplication (host/src/capture.rs): the *)
(* steps of DxgiCapture::capture_frame and DxgiCapture::new, each of which *)
(* may fail, and the desktop that changes between them.  The caller is the *)
(* loop of capture_loop (host/src/main.rs 244-269).                        *)
(*                                                                         *)
(* Any call into Direct3D may fail at any time (the device is removed, the *)
(* memory runs out).  Loss of access to the desktop (a change of mode, the *)
(* lock screen) shows at the next AcquireNextFrame.                        *)
(***************************************************************************)
CONSTANTS
    Screens,   \* contents the desktop may have
    Size(_),   \* the width and height of a screen
    None       \* Option::None

\* A staging texture: its size, the screen copied into it, and whether it is mapped.
Textures == [size : {Size(s) : s \in Screens}, shows : Screens \cup {None}, mapped : BOOLEAN]

\* DxgiCapture: whether its duplication still has access to the desktop, whether a
\* frame was acquired and not released, and the staging texture.
DxgiCaptures == [access : BOOLEAN, held : BOOLEAN, staging : Textures \cup {None}]

ASSUME CaptureAssumption ==
    /\ None \notin Screens \cup Textures \cup DxgiCaptures
    /\ None \notin {"ready", "wedged"}

VARIABLES
    \* the desktop
    screen, updated,
    \* the capture thread
    pc,
    driver,     \* the driver type create_d3d11_device tries
    capture,    \* DxgiCapture, or None
    texture,    \* the desktop's image acquired by this capture_frame, or None
    result,     \* what capture_frame returned
    delivered   \* the data of the last frame returned, or None

local == <<pc, driver, capture, texture, result, delivered>>
vars == <<screen, updated, pc, driver, capture, texture, result, delivered>>

\* A new duplication: no frame is held and there is no staging texture.
Opened == [access |-> TRUE, held |-> FALSE, staging |-> None]

\* The loop starts after its first DxgiCapture::new, which may have failed.
Init ==
    /\ screen \in Screens /\ updated = TRUE
    /\ pc = "loop" /\ driver = "hardware"
    /\ capture \in {Opened, None}
    /\ texture = None /\ result = "none" /\ delivered = None

\* The desktop is drawn to, perhaps with what it shows already.
Draw ==
    /\ screen' \in Screens
    /\ updated' = TRUE
    /\ UNCHANGED local
-----------------------------------------------------------------------------
(* capture_frame *)

\* Mutant of Fails: the frame is released on the error path.
FailsReleases(error) ==
    /\ pc' = "return" /\ result' = error
    /\ capture' = [capture EXCEPT !.held = FALSE]
    /\ UNCHANGED <<driver, texture, delivered>>

\* The ? operator: capture_frame returns as it is, whatever it has acquired.
Fails(error) ==
    /\ pc' = "return" /\ result' = error
    /\ UNCHANGED <<driver, capture, texture, delivered>>

\* AcquireNextFrame delivers the desktop if it was drawn to since the last time.
Acquired ==
    /\ ~ capture.held /\ capture.access /\ updated
    /\ capture' = [capture EXCEPT !.held = TRUE]
    /\ texture' = screen /\ updated' = FALSE
    /\ pc' = "cast"
    /\ UNCHANGED <<driver, result, delivered>>

\* DXGI_ERROR_WAIT_TIMEOUT; DXGI_ERROR_INVALID_CALL, as a frame is held; or
\* DXGI_ERROR_ACCESS_LOST, again.
Refused ==
    /\ capture.held \/ ~ capture.access \/ ~ updated
    /\ Fails("FrameAcquireFailed")
    /\ UNCHANGED updated

AccessLost ==
    /\ capture' = [capture EXCEPT !.access = FALSE]
    /\ pc' = "return" /\ result' = "FrameAcquireFailed"
    /\ UNCHANGED <<updated, driver, texture, delivered>>

\* DXGI_ERROR_DEVICE_RESET or DXGI_ERROR_DEVICE_REMOVED.
DeviceRemoved == Fails("DeviceLost") /\ UNCHANGED updated

AcquireNextFrame ==
    /\ pc = "loop" /\ capture # None
    /\ Acquired \/ Refused \/ AccessLost \/ DeviceRemoved
    /\ UNCHANGED screen

\* The resource there should be, as a texture.
CastTexture ==
    /\ pc = "cast"
    /\ \/ Fails("FrameAcquireFailed")
       \/ pc' = "staging" /\ UNCHANGED <<driver, capture, texture, result, delivered>>
    /\ UNCHANGED <<screen, updated>>

Texture(size, shows, mapped) == [size |-> size, shows |-> shows, mapped |-> mapped]

\* Mutant of Fitting: any staging texture will do.
FittingAny(size) == capture.staging # None

\* There is a staging texture of this size already.
Fitting(size) == capture.staging # None /\ capture.staging.size = size

get_or_create_staging ==
    /\ pc = "staging"
    /\ \/ /\ Fitting(Size(texture))
          /\ pc' = "copy" /\ UNCHANGED capture
          /\ UNCHANGED <<driver, texture, result, delivered>>
       \/ /\ ~ Fitting(Size(texture))
          /\ capture' = [capture EXCEPT !.staging = Texture(Size(texture), None, FALSE)]
          /\ pc' = "copy"
          /\ UNCHANGED <<driver, texture, result, delivered>>
       \/ ~ Fitting(Size(texture)) /\ Fails("InitFailed")
    /\ UNCHANGED <<screen, updated>>

\* CopyResource tells of no error: between textures of different sizes, or into
\* one that is mapped, nothing is copied.
Copied ==
    IF capture.staging.size = Size(texture) /\ ~ capture.staging.mapped
      THEN texture ELSE capture.staging.shows

\* CopyResource, then Map.
CopyAndMap ==
    /\ pc = "copy"
    /\ \/ /\ capture' = [capture EXCEPT !.staging = Texture(@.size, Copied, TRUE)]
          /\ pc' = "rows" /\ UNCHANGED result
       \/ /\ capture' = [capture EXCEPT !.staging = Texture(@.size, Copied, @.mapped)]
          /\ pc' = "return" /\ result' = "FrameAcquireFailed"
    /\ UNCHANGED <<screen, updated, driver, texture, delivered>>

\* Mutant of CopyRows: ReleaseFrame is forgotten.
CopyRowsKeepsFrame ==
    /\ pc = "rows"
    /\ delivered' = capture.staging.shows
    /\ capture' = [capture EXCEPT !.staging = Texture(@.size, @.shows, FALSE)]
    /\ pc' = "return" /\ result' = "Ok"
    /\ UNCHANGED <<screen, updated, driver, texture>>

\* Mutant of CopyRows: Unmap is forgotten.
CopyRowsKeepsMap ==
    /\ pc = "rows"
    /\ delivered' = capture.staging.shows
    /\ capture' = [capture EXCEPT !.held = FALSE]
    /\ pc' = "return" /\ result' = "Ok"
    /\ UNCHANGED <<screen, updated, driver, texture>>

\* The rows of the mapped texture are copied, then Unmap and ReleaseFrame.
CopyRows ==
    /\ pc = "rows"
    /\ delivered' = capture.staging.shows
    /\ capture' = [capture EXCEPT !.staging = Texture(@.size, @.shows, FALSE), !.held = FALSE]
    /\ pc' = "return" /\ result' = "Ok"
    /\ UNCHANGED <<screen, updated, driver, texture>>

capture_frame ==
    AcquireNextFrame \/ CastTexture \/ get_or_create_staging \/ CopyAndMap \/ CopyRows
-----------------------------------------------------------------------------
(* The caller, and DxgiCapture::new. *)

\* The loop uses the frame or goes on without one; after DeviceLost it opens a
\* new device, while the old one still exists.
Return ==
    /\ pc = "return"
    /\ pc' = IF result = "DeviceLost" THEN "create" ELSE "loop"
    /\ driver' = "hardware" /\ texture' = None /\ result' = "none"
    /\ UNCHANGED <<screen, updated, capture, delivered>>

\* new().ok() is None, and stays so: the loop never tries again.
NoCapture ==
    /\ pc' = "loop" /\ capture' = None
    /\ UNCHANGED <<updated, driver>>

\* D3D11CreateDevice, for the hardware and then for the software driver.
create_d3d11_device ==
    /\ pc = "create"
    /\ \/ pc' = "open" /\ UNCHANGED <<updated, driver, capture>>
       \/ driver = "hardware" /\ driver' = "warp" /\ UNCHANGED <<pc, updated, capture>>
       \/ driver = "warp" /\ NoCapture
    /\ UNCHANGED <<screen, texture, result, delivered>>

\* Adapter, output, duplication and context; the old DxgiCapture is dropped.
OpenOutput ==
    /\ pc = "open"
    /\ \/ pc' = "loop" /\ capture' = Opened /\ updated' = TRUE /\ UNCHANGED driver
       \/ NoCapture
    /\ UNCHANGED <<screen, texture, result, delivered>>
-----------------------------------------------------------------------------
Next == Draw \/ capture_frame \/ Return \/ create_d3d11_device \/ OpenOutput

Spec == Init /\ [][Next]_vars
-----------------------------------------------------------------------------
(* Properties. *)

Capturing == {"cast", "staging", "copy", "rows"}

\* Type invariant: a frame is held all through capture_frame, and a texture is
\* mapped only while its rows are copied.
TypeOK ==
    /\ screen \in Screens /\ updated \in BOOLEAN
    /\ pc \in Capturing \cup {"loop", "return", "create", "open"}
    /\ driver \in {"hardware", "warp"}
    /\ capture \in DxgiCaptures \cup {None}
    /\ texture \in Screens \cup {None}
    /\ result \in {"none", "Ok", "FrameAcquireFailed", "InitFailed", "DeviceLost"}
    /\ delivered \in Screens \cup {None}
    /\ pc # "loop" => capture # None
    /\ pc \in Capturing => texture # None /\ capture.held /\ capture.access
    /\ capture # None /\ capture.staging # None /\ capture.staging.mapped => pc = "rows"

\* The rows copied out of the staging texture lie within it and are the desktop's
\* as it was acquired, whatever sizes the desktop had before and whichever
\* earlier step failed (a staging texture kept from another size would be read
\* beyond its end, or show an older desktop).
StagingFits ==
    pc = "rows" =>
        /\ capture.staging # None /\ capture.staging.mapped
        /\ capture.staging.size = Size(texture)
        /\ capture.staging.shows = texture

\* As long as the duplication works, what the desktop shows has been delivered or
\* will be: a capture that fails after it consumed an update never leaves the
\* device waiting, in good order, for a desktop that changed already.
NothingForgotten ==
    pc = "loop" /\ capture # None /\ capture.access /\ ~ capture.held
        => updated \/ delivered = screen

\* DxgiCapture as a CaptureDevice: while a texture is acquired the device's
\* desktop is the one acquired, and it is up to date with the last step of
\* capture_frame; outside capture_frame a frame held wedges it.
Device == INSTANCE CaptureDevice WITH
    screen  <- IF texture = None THEN screen ELSE texture,
    updated <- IF texture = None THEN updated ELSE pc # "return",
    capture <- IF capture = None THEN None
               ELSE IF capture.access /\ (capture.held => pc \in Capturing)
               THEN "ready" ELSE "wedged"

\* Each frame capture_frame returns is what the desktop showed at one moment, and
\* each change is delivered once; a failure costs no more than CaptureDevice says.
ImplementsDevice == Device!DeviceSpec
=============================================================================
