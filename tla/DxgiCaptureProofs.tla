-------------------------- MODULE DxgiCaptureProofs --------------------------
(***************************************************************************)
(* Proofs about DxgiCapture, for every desktop: its invariants, and that   *)
(* it implements CaptureDevice.                                            *)
(***************************************************************************)
EXTENDS DxgiCapture, TLAPS

-----------------------------------------------------------------------------
(* The values of capture. *)

\* The fields of a DxgiCapture.
LEMMA CaptureFields ==
  ASSUME NEW c \in DxgiCaptures
  PROVE  /\ c # None
         /\ c.access \in BOOLEAN /\ c.held \in BOOLEAN
         /\ c.staging \in Textures \cup {None}
  BY CaptureAssumption DEF DxgiCaptures

\* A staging texture is one of some screen's size, or there is none.
LEMMA TextureFields ==
  ASSUME NEW t \in Textures
  PROVE  /\ t # None
         /\ t.shows \in Screens \cup {None} /\ t.mapped \in BOOLEAN
  BY CaptureAssumption DEF Textures

\* A new device has neither frame nor staging texture.
LEMMA OpenedFields ==
  Opened \in DxgiCaptures /\ Opened.access /\ ~ Opened.held /\ Opened.staging = None
  BY DEF Opened, DxgiCaptures

\* Acquiring or releasing a frame changes nothing else.
LEMMA HeldUpdate ==
  ASSUME NEW c \in DxgiCaptures, NEW b \in BOOLEAN
  PROVE  LET d == [c EXCEPT !.held = b] IN
         /\ d \in DxgiCaptures
         /\ d.access = c.access /\ d.held = b /\ d.staging = c.staging
  BY DEF DxgiCaptures

\* Nor does the loss of access.
LEMMA AccessUpdate ==
  ASSUME NEW c \in DxgiCaptures, NEW b \in BOOLEAN
  PROVE  LET d == [c EXCEPT !.access = b] IN
         /\ d \in DxgiCaptures
         /\ d.access = b /\ d.held = c.held /\ d.staging = c.staging
  BY DEF DxgiCaptures

\* Another staging texture, or another content of it, changes nothing else.
LEMMA StagingUpdate ==
  ASSUME NEW c \in DxgiCaptures, NEW t \in Textures
  PROVE  LET d == [c EXCEPT !.staging = t] IN
         /\ d \in DxgiCaptures
         /\ d.access = c.access /\ d.held = c.held /\ d.staging = t
  BY DEF DxgiCaptures

\* The staging texture unmapped and the frame released, in one.
LEMMA StagingHeldUpdate ==
  ASSUME NEW c \in DxgiCaptures, NEW t \in Textures
  PROVE  LET d == [c EXCEPT !.staging = t, !.held = FALSE] IN
         /\ d \in DxgiCaptures
         /\ d.access = c.access /\ d.held = FALSE /\ d.staging = t
  BY DEF DxgiCaptures

\* A texture of a screen's size, or of the size of another texture, is one.
LEMMA TextureUpdate ==
  ASSUME NEW x \in Screens \cup {None}, NEW b \in BOOLEAN
  PROVE  /\ \A s \in Screens : Texture(Size(s), x, b) \in Textures
         /\ \A t \in Textures : Texture(t.size, x, b) \in Textures
         /\ \A size : /\ Texture(size, x, b).size = size
                      /\ Texture(size, x, b).shows = x
                      /\ Texture(size, x, b).mapped = b
  BY DEF Texture, Textures
-----------------------------------------------------------------------------
(* The inductive invariant. *)

\* The staging texture to copy into has the size of the frame.
StagingReady ==
    pc = "copy" => capture.staging # None /\ capture.staging.size = Size(texture)

\* A texture is acquired within capture_frame only.
TextureScope == pc \in {"loop", "create", "open"} => texture = None

\* What was acquired is what the desktop shows, unless it was drawn to again.
TextureFresh == texture # None => updated \/ texture = screen

\* NothingForgotten, from the moment capture_frame returns.
Kept ==
    pc \in {"loop", "return"} /\ capture # None /\ capture.access /\ ~ capture.held
        => updated \/ delivered = screen

IInv == TypeOK /\ StagingFits /\ StagingReady /\ TextureScope /\ TextureFresh /\ Kept

\* The loop starts with a new device, to which the whole desktop is an update.
LEMMA InitInvariant == Init => IInv
  BY CaptureAssumption, OpenedFields, CaptureFields DEF Init, IInv, TypeOK, StagingFits,
     StagingReady, TextureScope, TextureFresh, Kept, Capturing

\* A drawing touches nothing of the capture thread.
LEMMA DrawInvariant == IInv /\ Draw => IInv'
  BY DEF IInv, Draw, local, TypeOK, StagingFits, StagingReady, TextureScope, TextureFresh,
     Kept, Capturing

\* AcquireNextFrame, whichever way it ends.
LEMMA AcquireInvariant == IInv /\ AcquireNextFrame => IInv'
  <1> SUFFICES ASSUME IInv, AcquireNextFrame PROVE IInv'
    OBVIOUS
  <1>1. CASE Acquired
    BY <1>1, CaptureAssumption, CaptureFields, HeldUpdate DEF IInv, AcquireNextFrame, Acquired, TypeOK, StagingFits,
       StagingReady, TextureScope, TextureFresh, Kept, Capturing
  <1>2. CASE Refused
    BY <1>2, CaptureFields DEF IInv, AcquireNextFrame, Refused, Fails, TypeOK, StagingFits, StagingReady,
       TextureScope, TextureFresh, Kept, Capturing
  <1>3. CASE AccessLost
    BY <1>3, CaptureFields, AccessUpdate DEF IInv, AcquireNextFrame, AccessLost, TypeOK, StagingFits, StagingReady,
       TextureScope, TextureFresh, Kept, Capturing
  <1>4. CASE DeviceRemoved
    BY <1>4 DEF IInv, AcquireNextFrame, DeviceRemoved, Fails, TypeOK, StagingFits,
       StagingReady, TextureScope, TextureFresh, Kept, Capturing
  <1>. QED BY <1>1, <1>2, <1>3, <1>4 DEF AcquireNextFrame

\* What get_or_create_staging does to the device.
LEMMA StagingEffect ==
  ASSUME TypeOK, get_or_create_staging
  PROVE  \/ /\ pc' = "copy" /\ result' = result
            /\ capture' \in DxgiCaptures
            /\ capture'.access = capture.access /\ capture'.held = capture.held
            /\ capture'.staging # None /\ capture'.staging.size = Size(texture)
            /\ ~ capture'.staging.mapped
         \/ pc' = "return" /\ result' = "InitFailed" /\ capture' = capture
  <1>1. pc = "staging" /\ capture \in DxgiCaptures /\ texture \in Screens
    BY DEF TypeOK, get_or_create_staging, Capturing
  <1>2. CASE Fitting(Size(texture))
    BY <1>1, <1>2 DEF TypeOK, get_or_create_staging, Fitting
  <1>3. CASE ~ Fitting(Size(texture)) /\ pc' = "copy"
    <2> DEFINE t == Texture(Size(texture), None, FALSE)
    <2>1. capture' = [capture EXCEPT !.staging = t] /\ result' = result
      BY <1>3 DEF get_or_create_staging, Fails
    <2>2. t \in Textures
      BY <1>1 DEF Texture, Textures
    <2>3. t # None /\ t.size = Size(texture) /\ ~ t.mapped
      BY <2>2, CaptureAssumption DEF Texture
    <2> HIDE DEF t
    <2>. QED BY <1>1, <1>3, <2>1, <2>2, <2>3, StagingUpdate
  <1>4. CASE ~ Fitting(Size(texture)) /\ pc' # "copy"
    BY <1>4 DEF get_or_create_staging, Fails
  <1>. QED BY <1>2, <1>3, <1>4

\* What CopyResource and Map do to it.
LEMMA CopyEffect ==
  ASSUME TypeOK, StagingReady, CopyAndMap
  PROVE  /\ capture' \in DxgiCaptures
         /\ capture'.access = capture.access /\ capture'.held = capture.held
         /\ capture'.staging # None /\ capture'.staging.size = Size(texture)
         /\ \/ /\ pc' = "rows" /\ result' = result
               /\ capture'.staging.shows = texture /\ capture'.staging.mapped
            \/ /\ pc' = "return" /\ result' = "FrameAcquireFailed"
               /\ ~ capture'.staging.mapped
  <1>1. /\ pc = "copy" /\ capture \in DxgiCaptures /\ texture \in Screens
        /\ capture.staging \in Textures /\ capture.staging.size = Size(texture)
        /\ capture.staging.mapped = FALSE /\ Copied = texture
    BY CaptureFields, TextureFields DEF TypeOK, StagingReady, CopyAndMap, Capturing, Copied
  <1> DEFINE t(b) == Texture(capture.staging.size, texture, b)
  <1>2. ASSUME NEW b \in BOOLEAN
        PROVE  /\ t(b) \in Textures /\ t(b) # None /\ t(b).size = Size(texture)
               /\ t(b).shows = texture /\ t(b).mapped = b
    <2>1. t(b) \in Textures
      BY <1>1 DEF Texture, Textures
    <2>. QED BY <1>1, <2>1, CaptureAssumption DEF Texture
  <1>3. \/ capture' = [capture EXCEPT !.staging = t(TRUE)] /\ pc' = "rows" /\ result' = result
        \/ /\ capture' = [capture EXCEPT !.staging = t(FALSE)]
           /\ pc' = "return" /\ result' = "FrameAcquireFailed"
    BY <1>1 DEF CopyAndMap
  <1> HIDE DEF t
  <1>4. CASE pc' = "rows"
    <2>1. capture' = [capture EXCEPT !.staging = t(TRUE)] /\ result' = result
      BY <1>3, <1>4
    <2>2. /\ t(TRUE) \in Textures /\ t(TRUE) # None /\ t(TRUE).size = Size(texture)
          /\ t(TRUE).shows = texture /\ t(TRUE).mapped = TRUE
      BY <1>2
    <2>. QED BY <1>1, <1>4, <2>1, <2>2, StagingUpdate
  <1>5. CASE pc' # "rows"
    <2>1. /\ capture' = [capture EXCEPT !.staging = t(FALSE)]
          /\ pc' = "return" /\ result' = "FrameAcquireFailed"
      BY <1>3, <1>5
    <2>2. /\ t(FALSE) \in Textures /\ t(FALSE) # None /\ t(FALSE).size = Size(texture)
          /\ t(FALSE).mapped = FALSE
      BY <1>2
    <2>. QED BY <1>1, <2>1, <2>2, StagingUpdate
  <1>. QED BY <1>4, <1>5

\* What the copy of the rows, Unmap and ReleaseFrame do to it.
LEMMA RowsEffect ==
  ASSUME TypeOK, StagingFits, CopyRows
  PROVE  /\ capture' \in DxgiCaptures
         /\ capture'.access = capture.access /\ ~ capture'.held
         /\ ~ capture'.staging.mapped
         /\ delivered' = texture
  <1>1. /\ capture \in DxgiCaptures /\ texture \in Screens
        /\ capture.staging \in Textures /\ capture.staging.shows = texture
    BY CaptureFields DEF TypeOK, StagingFits, CopyRows, Capturing
  <1> DEFINE t == Texture(capture.staging.size, capture.staging.shows, FALSE)
  <1>2. capture' = [capture EXCEPT !.staging = t, !.held = FALSE]
    BY DEF CopyRows
  <1>3. t \in Textures /\ ~ t.mapped
    BY <1>1, TextureUpdate
  <1> HIDE DEF t
  <1>4. /\ capture' \in DxgiCaptures /\ capture'.access = capture.access
        /\ ~ capture'.held /\ ~ capture'.staging.mapped
    BY <1>1, <1>2, <1>3, StagingHeldUpdate
  <1>. QED BY <1>1, <1>4 DEF CopyRows

\* The steps between the acquired texture and the rows.
LEMMA CaptureInvariant ==
    IInv /\ (CastTexture \/ get_or_create_staging \/ CopyAndMap \/ CopyRows) => IInv'
  <1> SUFFICES ASSUME IInv, CastTexture \/ get_or_create_staging \/ CopyAndMap \/ CopyRows
               PROVE  IInv'
    OBVIOUS
  <1> USE CaptureAssumption DEF IInv, TypeOK, StagingFits, StagingReady, TextureScope,
          TextureFresh, Kept, Capturing
  <1>1. CASE CastTexture
    BY <1>1 DEF CastTexture, Fails
  <1>2. CASE get_or_create_staging
    <2>1. UNCHANGED <<screen, updated, driver, texture, delivered>> /\ pc = "staging"
      BY <1>2 DEF get_or_create_staging, Fails
    <2>. QED BY <1>2, <2>1, StagingEffect
  <1>3. CASE CopyAndMap
    <2>1. UNCHANGED <<screen, updated, driver, texture, delivered>> /\ pc = "copy"
      BY <1>3 DEF CopyAndMap
    <2>. QED BY <1>3, <2>1, CopyEffect
  <1>4. CASE CopyRows
    <2>1. /\ UNCHANGED <<screen, updated, driver, texture>> /\ pc = "rows"
          /\ pc' = "return" /\ result' = "Ok"
      BY <1>4 DEF CopyRows
    <2>. QED BY <1>4, <2>1, RowsEffect, CaptureFields
  <1>. QED BY <1>1, <1>2, <1>3, <1>4

\* The caller, and the opening of a new device.
LEMMA CallerInvariant == IInv /\ (Return \/ create_d3d11_device \/ OpenOutput) => IInv'
  <1> SUFFICES ASSUME IInv, Return \/ create_d3d11_device \/ OpenOutput PROVE IInv'
    OBVIOUS
  <1> USE CaptureAssumption DEF IInv, TypeOK, StagingFits, StagingReady, TextureScope,
          TextureFresh, Kept, Capturing
  <1>1. CASE Return
    BY <1>1 DEF Return
  <1>2. CASE create_d3d11_device
    BY <1>2 DEF create_d3d11_device, NoCapture
  <1>3. CASE OpenOutput
    BY <1>3, OpenedFields, CaptureFields DEF OpenOutput, NoCapture
  <1>. QED BY <1>1, <1>2, <1>3

\* The invariant holds throughout.
LEMMA Invariant == Spec => []IInv
  <1>1. IInv /\ [Next]_vars => IInv'
    <2> SUFFICES ASSUME IInv, [Next]_vars PROVE IInv'
      OBVIOUS
    <2>1. CASE UNCHANGED vars
      BY <2>1 DEF vars, IInv, TypeOK, StagingFits, StagingReady, TextureScope, TextureFresh,
         Kept, Capturing
    <2>. QED BY <2>1, DrawInvariant, AcquireInvariant, CaptureInvariant, CallerInvariant
             DEF Next, capture_frame
  <1>. QED BY InitInvariant, <1>1, PTL DEF Spec

\* Type correctness of the capture device.
THEOREM CaptureTypeOK == Spec => []TypeOK
  <1>1. IInv => TypeOK
    BY DEF IInv
  <1>. QED BY Invariant, <1>1, PTL

\* The rows are read from a mapped texture of the frame's size that holds the
\* frame: for every set of screens and every way the steps may fail.
THEOREM RowsFit == Spec => []StagingFits
  <1>1. IInv => StagingFits
    BY DEF IInv
  <1>. QED BY Invariant, <1>1, PTL

\* No change of the desktop is forgotten by a device in good order.
THEOREM ChangesKept == Spec => []NothingForgotten
  <1>1. IInv => NothingForgotten
    BY DEF IInv, Kept, NothingForgotten
  <1>. QED BY Invariant, <1>1, PTL
-----------------------------------------------------------------------------
(* The refinement. *)

\* The starting device is a device's start.
LEMMA DeviceStarts == Init => Device!DeviceInit
  BY CaptureAssumption, OpenedFields, CaptureFields DEF Init, Device!DeviceInit, Capturing

\* Acquiring a frame, or failing to, is no step of the device, or wedges it.
LEMMA AcquireStep ==
    IInv /\ AcquireNextFrame => [Device!DeviceNext]_Device!deviceVars
  <1> SUFFICES ASSUME IInv, AcquireNextFrame PROVE [Device!DeviceNext]_Device!deviceVars
    OBVIOUS
  <1> USE CaptureAssumption DEF IInv, TypeOK, TextureScope, AcquireNextFrame, Capturing,
          Device!deviceVars
  <1>1. CASE Acquired
    BY <1>1, CaptureFields, HeldUpdate DEF Acquired
  <1>2. CASE Refused
    BY <1>2 DEF Refused, Fails
  <1>3. CASE AccessLost
    BY <1>3, CaptureFields, AccessUpdate DEF AccessLost, Device!DeviceNext, Device!Wedge
  <1>4. CASE DeviceRemoved
    BY <1>4 DEF DeviceRemoved, Fails
  <1>. QED BY <1>1, <1>2, <1>3, <1>4

\* The steps after it are none, or wedge the device, or deliver the desktop.
LEMMA CaptureStep ==
    IInv /\ (CastTexture \/ get_or_create_staging \/ CopyAndMap \/ CopyRows)
        => [Device!DeviceNext]_Device!deviceVars
  <1> SUFFICES ASSUME IInv, CastTexture \/ get_or_create_staging \/ CopyAndMap \/ CopyRows
               PROVE  [Device!DeviceNext]_Device!deviceVars
    OBVIOUS
  <1> USE CaptureAssumption DEF IInv, TypeOK, Capturing, Device!deviceVars
  <1>1. CASE CastTexture
    BY <1>1 DEF CastTexture, Fails, Device!DeviceNext, Device!Wedge
  <1>2. CASE get_or_create_staging
    <2>1. UNCHANGED <<screen, updated, texture, delivered>> /\ pc = "staging"
      BY <1>2 DEF get_or_create_staging, Fails
    <2>. QED BY <1>2, <2>1, StagingEffect, CaptureFields DEF Device!DeviceNext, Device!Wedge
  <1>3. CASE CopyAndMap
    <2>1. UNCHANGED <<screen, updated, texture, delivered>> /\ pc = "copy"
      BY <1>3 DEF CopyAndMap
    <2>. QED BY <1>3, <2>1, CopyEffect, CaptureFields DEF Device!DeviceNext, Device!Wedge
  <1>4. CASE CopyRows
    <2>1. UNCHANGED <<screen, updated, texture>> /\ pc = "rows" /\ pc' = "return"
      BY <1>4 DEF CopyRows
    <2>. QED BY <1>4, <2>1, RowsEffect, CaptureFields DEF Device!DeviceNext, Device!Deliver
  <1>. QED BY <1>1, <1>2, <1>3, <1>4

\* With its return the device catches up with the drawings in the meantime; a new
\* device, or none, takes the place of the one lost.
LEMMA CallerStep ==
    IInv /\ (Return \/ create_d3d11_device \/ OpenOutput)
        => [Device!DeviceNext]_Device!deviceVars
  <1> SUFFICES ASSUME IInv, Return \/ create_d3d11_device \/ OpenOutput
               PROVE  [Device!DeviceNext]_Device!deviceVars
    OBVIOUS
  <1> USE CaptureAssumption DEF IInv, TypeOK, TextureScope, Capturing, Device!deviceVars
  <1>1. CASE Return
    BY <1>1 DEF Return, TextureFresh, Device!DeviceNext, Device!Draw
  <1>2. CASE create_d3d11_device
    BY <1>2 DEF create_d3d11_device, NoCapture, Device!DeviceNext, Device!Reopen
  <1>3. CASE OpenOutput
    <2>1. texture = None /\ texture' = None /\ pc' = "loop"
      BY <1>3 DEF OpenOutput, NoCapture
    <2>2. /\ screen' = screen /\ delivered' = delivered /\ capture # None
          /\ \/ capture' = Opened /\ updated' = TRUE
             \/ capture' = None /\ updated' = updated
      BY <1>3 DEF OpenOutput, NoCapture
    <2>3. CASE capture' = Opened /\ updated' = TRUE
      <3>1. capture' # None /\ capture'.access /\ ~ capture'.held
        BY <2>3, OpenedFields, CaptureFields
      <3>. QED BY <2>1, <2>2, <2>3, <3>1 DEF Device!DeviceNext, Device!Reopen
    <2>4. CASE capture' = None /\ updated' = updated
      BY <2>1, <2>2, <2>4 DEF Device!DeviceNext, Device!Reopen
    <2>. QED BY <2>2, <2>3, <2>4
  <1>. QED BY <1>1, <1>2, <1>3

\* DxgiCapture implements CaptureDevice: the host's threads may be understood, and
\* are checked, against the four steps of the device.
THEOREM CaptureRefinement == Spec => ImplementsDevice
  <1>1. IInv /\ [Next]_vars => [Device!DeviceNext]_Device!deviceVars
    <2> SUFFICES ASSUME IInv, [Next]_vars PROVE [Device!DeviceNext]_Device!deviceVars
      OBVIOUS
    <2>1. CASE UNCHANGED vars
      BY <2>1 DEF vars, Device!deviceVars
    <2>2. CASE Draw
      BY <2>2 DEF Draw, local, Device!DeviceNext, Device!Draw, Device!deviceVars
    <2>. QED BY <2>1, <2>2, AcquireStep, CaptureStep, CallerStep DEF Next, capture_frame
  <1>. QED BY DeviceStarts, Invariant, <1>1, PTL DEF Spec, ImplementsDevice, Device!DeviceSpec
=============================================================================
