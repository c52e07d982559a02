---------------------------- MODULE CaptureDevice ----------------------------
(***************************************************************************)
(* What the capture thread may expect of its capture device: the desktop   *)
(* is delivered, as it is, each time it has changed; or every capture      *)
(* fails from some time on; or the device is lost and opened again, once.  *)
(* HostPipeline is built on this device, DxgiCapture implements it.        *)
(***************************************************************************)
CONSTANTS
    Screens,   \* contents the desktop may have
    None       \* Option::None

VARIABLES
    screen,    \* what the desktop shows
    updated,   \* it was drawn to since the device last delivered it
    capture,   \* "ready", "wedged" (every capture fails) or None
    delivered  \* the screen delivered last, or None

deviceVars == <<screen, updated, capture, delivered>>

DeviceInit ==
    /\ screen \in Screens /\ updated = TRUE
    /\ capture \in {"ready", None}
    /\ delivered = None

\* The desktop is drawn to, perhaps with what it shows already.
Draw ==
    /\ screen' \in Screens
    /\ updated' = TRUE
    /\ UNCHANGED <<capture, delivered>>

\* Ok(frame).
Deliver ==
    /\ capture = "ready" /\ updated
    /\ delivered' = screen
    /\ updated' = FALSE
    /\ UNCHANGED <<screen, capture>>

\* A frame is acquired and not released, so that every later acquire is refused;
\* or access to the desktop is lost, which is reported as FrameAcquireFailed
\* although the duplication is gone for good.
Wedge ==
    /\ capture = "ready" /\ capture' = "wedged"
    /\ updated' \in {updated, FALSE}
    /\ UNCHANGED <<screen, delivered>>

\* DeviceLost, and the attempt to open another one.  A new duplication delivers
\* the desktop at once.
Reopen ==
    /\ capture # None
    /\ \/ capture' = "ready" /\ updated' = TRUE
       \/ capture' = None    /\ updated' = updated
    /\ UNCHANGED <<screen, delivered>>

DeviceNext == Draw \/ Deliver \/ Wedge \/ Reopen

DeviceSpec == DeviceInit /\ [][DeviceNext]_deviceVars
=============================================================================
