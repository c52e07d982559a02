--------------------------- MODULE InputForwarding ---------------------------
(***************************************************************************)
(* The user's keyboard and mouse at the client forwarded to the host: the  *)
(* remote window (capture_and_send_input in client/src/ui.rs), the control *)
(* commands on their way, and their injection (host/src/input.rs).         *)
(*                                                                         *)
(* The window works through the events of the GUI library (egui) once per  *)
(* repaint.  Modifier keys make no events there: only their state at the   *)
(* time of the repaint can be asked for.  An event names a key by what it  *)
(* types, which depends on Shift; a virtual key code is the key itself.  A *)
(* mouse button is a key with a position.                                  *)
(*                                                                         *)
(* What egui makes of the user's inputs is external, assumed from the      *)
(* version in Cargo.lock (0.27): it calls a press a repetition when the    *)
(* key's name is down already, makes copy, cut and paste of shortcuts, and *)
(* zooms or turns sideways when the wheel turns under Ctrl or Shift.       *)
(***************************************************************************)
EXTENDS Integers, Sequences, SequencesExt

CONSTANTS
    Modifiers,    \* Shift, Ctrl, Alt
    Shift,        \* the modifier that changes what a key types
    Ctrl,         \* the modifier that makes a turn of the wheel a zoom
    Keys,         \* other keys
    Renamed,      \* keys with another name under Shift: ; and :, / and ?, + and =
    Shortcuts,    \* pairs <<modifier, key>> that copy, cut or paste: Ctrl and C
    Buttons,      \* mouse buttons
    Primary,      \* the left one
    Unmapped,     \* keys and buttons without a code: F21, the thumb buttons
    Scrolls,      \* turns of the wheels <<x, y>>, as rounded by the window
    Points,       \* where the pointer can be
    Cross,        \* the point where the window draws its disconnect button
    MaxInputs,    \* bound: what the user does in all
    MaxSessions,  \* bound: how often the window is connected
    None

ASSUME InputAssumption ==
    /\ Cross \in Points /\ None \notin Points \cup Keys
    /\ MaxInputs \in Nat /\ MaxSessions \in Nat
    /\ IsFiniteSet(Modifiers) /\ Shift \in Modifiers /\ Primary \in Buttons \ Unmapped
    /\ Ctrl \in Modifiers \ {Shift} /\ Renamed \subseteq Keys /\ Shortcuts \subseteq Modifiers \X Keys
    /\ Buttons \cap (Modifiers \cup Keys) = {} /\ Modifiers \cap (Keys \cup Unmapped) = {}
    /\ Scrolls \subseteq Int \X Int

VARIABLES
    \* the user and the GUI library
    held,                   \* keys, modifiers and buttons held down
    pointer,                \* where the pointer is
    keys_down,              \* the names of keys that the GUI library takes to be down
    events,                 \* events since the last repaint
    armed,                  \* the button was pressed on the cross
    inputs,                 \* bound: how much the user has done
    \* the window
    connected,              \* it has a socket and a picture
    last_modifiers,
    last_mouse_remote_pos,  \* the position sent last, or None
    sessions,
    \* the network
    commands,               \* control commands in flight, oldest first
    \* the host
    down,                   \* keys and buttons down in the host's system
    cursor,                 \* where its cursor is
    wheels,                 \* how far its wheels have turned
    \* history
    told,                   \* key transitions that the connected window could learn of
    fresh,                  \* keys and buttons pressed, as far as it was told in this session
    turned,                 \* how far it was told that the wheels turned while connected
    moved,                  \* the pointer has moved in this session
    injected,               \* key transitions made at the host
    clicks,                 \* button presses injected: [at, wanted, moved]
    lost                    \* the keys of the commands lost, "move" and "scroll" for others

user == <<held, pointer, keys_down, events, armed, inputs, told, moved, turned, fresh>>
window == <<connected, last_modifiers, last_mouse_remote_pos, sessions>>
host == <<down, cursor, wheels, injected, clicks, lost>>
vars == <<held, pointer, keys_down, events, armed, inputs, told, moved, turned, fresh,
          connected, last_modifiers, last_mouse_remote_pos, sessions,
          commands, down, cursor, wheels, injected, clicks, lost>>

\* Events of the GUI library, and the commands made of them.
Key(name, pressed, repeat) ==
    [type |-> "name", key |-> name[1], shifted |-> name[2], pressed |-> pressed, repeat |-> repeat]
KeyEvent(k, pressed) == [type |-> "key", key |-> k, pressed |-> pressed]
MouseButtonEvent(b, pressed, p, m) ==
    [type |-> "button", key |-> b, pressed |-> pressed, pos |-> p, moved |-> m]
MouseMoveEvent(p) == [type |-> "move", pos |-> p]
ScrollEvent(delta) == [type |-> "scroll", delta |-> delta]
OtherEvent == [type |-> "other"]  \* a zoom, a copy, a cut, a paste

Plus(d, e) == <<d[1] + e[1], d[2] + e[2]>>

Init ==
    /\ held = {} /\ pointer \in Points /\ keys_down = {} /\ events = <<>> /\ armed = FALSE /\ inputs = 0
    /\ connected = FALSE /\ last_modifiers = {} /\ last_mouse_remote_pos = None /\ sessions = 0
    /\ commands = <<>>
    /\ down = {} /\ cursor \in Points /\ wheels = <<0, 0>>
    /\ told = <<>> /\ injected = <<>> /\ clicks = {} /\ moved = FALSE /\ turned = <<0, 0>>
    /\ fresh = {} /\ lost = {}
-----------------------------------------------------------------------------
(* The user and the GUI library. *)

\* One more input.
Input == inputs < MaxInputs /\ inputs' = inputs + 1 /\ UNCHANGED <<window, commands, host>>

\* What the window takes for a transition of a key, and the keys pressed after it.
IsTransition(e) ==
    \/ e.type = "name" /\ ~ e.repeat /\ e.key \notin Unmapped
    \/ e.type = "button" /\ e.key \notin Unmapped
Pressed(keys, e) ==
    IF ~ IsTransition(e) THEN keys ELSE IF e.pressed THEN keys \cup {e.key} ELSE keys \ {e.key}

\* History: the transitions, the keys pressed and the turns of the wheels among some
\* events.
Transitions(es) ==
    FoldLeft(LAMBDA s, e : IF IsTransition(e) THEN Append(s, <<e.key, e.pressed>>) ELSE s, <<>>, es)
PressedIn(es) == FoldLeft(Pressed, {}, es)
Turned(d, e) == IF e.type = "scroll" THEN Plus(d, e.delta) ELSE d
Turns(es) == FoldLeft(Turned, <<0, 0>>, es)

\* The window's next event.
Told(e) ==
    /\ events' = Append(events, e)
    /\ IF connected
         THEN /\ told' = IF IsTransition(e) THEN Append(told, <<e.key, e.pressed>>) ELSE told
              /\ fresh' = Pressed(fresh, e)
              /\ turned' = Turned(turned, e)
         ELSE UNCHANGED <<told, fresh, turned>>

\* A modifier is pressed or released: no event.
ToggleModifier(k) ==
    /\ Input
    /\ held' = SymDiff(held, {k})
    /\ told' = IF connected THEN Append(told, <<k, k \notin held>>) ELSE told
    /\ UNCHANGED <<pointer, keys_down, events, armed, moved, turned, fresh>>

\* Some keys have two names, by what they type now.
Name(k) == <<k, k \in Renamed /\ Shift \in held>>

\* A press is a shortcut, or one of a name that may be down already; a release under
\* another name leaves the first one down.
KeyInput(k, pressed) ==
    IF pressed /\ \E m \in held : <<m, k>> \in Shortcuts
      THEN Told(OtherEvent) /\ UNCHANGED keys_down
      ELSE /\ Told(Key(Name(k), pressed, pressed /\ Name(k) \in keys_down))
           /\ keys_down' = IF pressed THEN keys_down \cup {Name(k)} ELSE keys_down \ {Name(k)}

ToggleKey(k) ==
    /\ Input
    /\ held' = SymDiff(held, {k})
    /\ KeyInput(k, k \notin held)
    /\ UNCHANGED <<pointer, armed, moved>>

\* A key held down for some time is pressed again and again.
RepeatKey(k) ==
    /\ Input
    /\ k \in held
    /\ KeyInput(k, TRUE)
    /\ UNCHANGED <<held, pointer, armed, moved>>

ToggleButton(b) ==
    /\ Input
    /\ held' = SymDiff(held, {b})
    /\ Told(MouseButtonEvent(b, b \notin held, pointer, moved /\ connected))
    /\ UNCHANGED <<pointer, keys_down, armed, moved>>

MovePointer(p) ==
    /\ Input
    /\ p # pointer /\ pointer' = p
    /\ Told(MouseMoveEvent(p))
    /\ moved' = connected
    /\ UNCHANGED <<held, keys_down, armed>>

\* A wheel zooms under Ctrl, and turns sideways under Shift.
Wheel(delta) ==
    IF Ctrl \in held THEN OtherEvent
    ELSE ScrollEvent(IF Shift \in held THEN <<delta[1] + delta[2], 0>> ELSE delta)

TurnWheel(delta) ==
    /\ Input
    /\ Told(Wheel(delta))
    /\ UNCHANGED <<held, pointer, keys_down, armed, moved>>
-----------------------------------------------------------------------------
(* The window. *)

\* A session begins, and its first picture arrives: the repaint that follows
\* handles the events there are.
Connect ==
    /\ ~ connected /\ sessions < MaxSessions
    /\ connected' = TRUE /\ sessions' = sessions + 1
    /\ last_mouse_remote_pos' = None
    /\ moved' = (\E e \in Range(events) : e.type = "move")
    /\ turned' = Plus(turned, Turns(events))
    /\ fresh' = PressedIn(events)
    /\ told' = SetToSeq({<<k, TRUE>> : k \in held \cap Modifiers}) \o Transitions(events)
    /\ UNCHANGED <<held, pointer, keys_down, events, armed, inputs, last_modifiers, commands, host>>

\* A repaint without a picture throws the events away.
RepaintPanel ==
    /\ ~ connected /\ events # <<>>
    /\ events' = <<>> /\ armed' = FALSE
    /\ UNCHANGED <<held, pointer, keys_down, inputs, told, moved, turned, fresh, window, commands, host>>

\* The left button is pressed, or released, on the cross.
PrimaryEvent(e) == e.type = "button" /\ e.key = Primary
PressesCross(e) == PrimaryEvent(e) /\ e.pressed /\ e.pos = Cross
ReleasesCross(e) == PrimaryEvent(e) /\ ~ e.pressed /\ e.pos = Cross

\* egui: is the press on the cross still waiting for its release after these
\* events, and was there a release that completes a click?
ArmedAfter(es, a) ==
    LET buttons == SelectSeq(es, PrimaryEvent)
    IN  IF buttons = <<>> THEN a ELSE PressesCross(Last(buttons))
Clicked(es, a) ==
    \E i \in 1 .. Len(es) : ReleasesCross(es[i]) /\ ArmedAfter(SubSeq(es, 1, i - 1), a)

\* The modifiers that differ from the last repaint, each as a command.
ModifierCommands ==
    SetToSeq({KeyEvent(k, k \in held) : k \in SymDiff(last_modifiers, held \cap Modifiers)})

\* Mutant of egui_key_to_vk: the table knows each key by one name.
egui_key_to_vkPlain(name) == IF name[1] \in Unmapped \/ name[2] THEN None ELSE name[1]

\* The table has both names of a key, with one code.
egui_key_to_vk(name) == IF name[1] \in Unmapped THEN None ELSE name[1]

\* What becomes of an event, given the position sent last: a command, or nothing
\* for repetitions, for what has no code, for moves to that very position, for
\* turns too small and for other events.
Forwarded(e, pos) ==
    CASE e.type = "name"   -> IF e.repeat \/ egui_key_to_vk(<<e.key, e.shifted>>) = None THEN <<>>
                              ELSE <<KeyEvent(egui_key_to_vk(<<e.key, e.shifted>>), e.pressed)>>
      [] e.type = "button" -> IF e.key \in Unmapped THEN <<>> ELSE <<e>>
      [] e.type = "move"   -> IF e.pos = pos THEN <<>> ELSE <<e>>
      [] e.type = "scroll" -> IF e.delta = <<0, 0>> THEN <<>> ELSE <<e>>
      [] e.type = "other"  -> <<>>

\* Mutant of Forward: the position is remembered for good.
ForwardMovesOnce(acc, e) ==
    IF e.type = "move" /\ acc.pos # None THEN acc
    ELSE [out |-> acc.out \o Forwarded(e, acc.pos), pos |-> IF e.type = "move" THEN e.pos ELSE acc.pos]

\* The commands so far and the position sent last.
Forward(acc, e) ==
    [out |-> acc.out \o Forwarded(e, acc.pos), pos |-> IF e.type = "move" THEN e.pos ELSE acc.pos]

\* Mutant of capture_and_send_input: all the keys held are remembered.
capture_and_send_inputAllKeys(pos) ==
    LET acc == FoldLeft(Forward, [out |-> <<>>, pos |-> pos], events)
    IN  /\ commands' = commands \o ModifierCommands \o acc.out
        /\ last_modifiers' = held
        /\ last_mouse_remote_pos' = acc.pos

\* Mutant of capture_and_send_input: the modifiers sent are not remembered.
capture_and_send_inputForgets(pos) ==
    LET acc == FoldLeft(Forward, [out |-> <<>>, pos |-> pos], events)
    IN  /\ commands' = commands \o ModifierCommands \o acc.out
        /\ last_modifiers' = last_modifiers
        /\ last_mouse_remote_pos' = acc.pos

\* capture_and_send_input: first the modifiers, then the events in order.
capture_and_send_input(pos) ==
    LET acc == FoldLeft(Forward, [out |-> <<>>, pos |-> pos], events)
    IN  /\ commands' = commands \o ModifierCommands \o acc.out
        /\ last_modifiers' = held \cap Modifiers
        /\ last_mouse_remote_pos' = acc.pos

\* A repaint of the remote window.  A click on the cross disconnects first, and
\* then there is no client left to send the events to.  A new picture makes the
\* window forget the position it sent last.
Repaint ==
    /\ connected
    /\ events # <<>> \/ last_modifiers # held \cap Modifiers
    /\ events' = <<>>
    /\ armed' = ArmedAfter(events, armed)
    /\ IF Clicked(events, armed)
         THEN /\ connected' = FALSE
              /\ UNCHANGED <<last_modifiers, last_mouse_remote_pos, commands>>
         ELSE /\ \E pos \in {last_mouse_remote_pos, None} : capture_and_send_input(pos)
              /\ connected' = connected
    /\ UNCHANGED <<held, pointer, keys_down, inputs, told, moved, turned, fresh, sessions, host>>
-----------------------------------------------------------------------------
(* The host. *)

\* A turn of both wheels is two inputs.  The x and y of a button are not used,
\* because its flags have no MOUSEEVENTF_MOVE.
payload_to_inputs(c) ==
    IF c.type = "scroll"
      THEN (IF c.delta[2] # 0 THEN <<ScrollEvent(<<0, c.delta[2]>>)>> ELSE <<>>)
           \o (IF c.delta[1] # 0 THEN <<ScrollEvent(<<c.delta[1], 0>>)>> ELSE <<>>)
      ELSE <<c>>

\* The inputs in the host's system: turns of its wheels, or a single other one.
SendInput(inps) ==
    /\ wheels' = Plus(wheels, Turns(inps))
    /\ IF inps = <<>> \/ Turns(inps) # <<0, 0>> THEN UNCHANGED <<cursor, down, injected, clicks>>
       ELSE LET inp == Head(inps) IN
            CASE inp.type = "move" -> cursor' = inp.pos /\ UNCHANGED <<down, injected, clicks>>
              [] OTHER ->
                   /\ down' = IF inp.pressed THEN down \cup {inp.key} ELSE down \ {inp.key}
                   /\ injected' = Append(injected, <<inp.key, inp.pressed>>)
                   /\ clicks' = IF inp.type = "button" /\ inp.pressed
                                  THEN clicks \cup {[at |-> cursor, wanted |-> inp.pos, moved |-> inp.moved]}
                                  ELSE clicks
                   /\ UNCHANGED cursor

\* The main thread receives a ControlCommand, injects it and acknowledges it.
\* (The client ignores the acknowledgement.)
Inject ==
    /\ commands # <<>>
    /\ SendInput(payload_to_inputs(Head(commands)))
    /\ commands' = Tail(commands)
    /\ UNCHANGED <<user, window, lost>>

\* What a command is about: a key, the cursor or the wheels.
Subject(c) == IF c.type \in {"key", "button"} THEN c.key ELSE c.type

\* A command is lost on its way, or the system refuses all its inputs or the last
\* ones, which the host acknowledges all the same.
Lose ==
    /\ commands # <<>>
    /\ LET inps == payload_to_inputs(Head(commands))
       IN  \E n \in 0 .. Len(inps) - 1 : SendInput(SubSeq(inps, 1, n))
    /\ commands' = Tail(commands)
    /\ lost' = lost \cup {Subject(Head(commands))}
    /\ UNCHANGED <<user, window>>
-----------------------------------------------------------------------------
Next ==
    \/ \E k \in Modifiers : ToggleModifier(k)
    \/ \E k \in Keys : ToggleKey(k) \/ RepeatKey(k)
    \/ \E b \in Buttons : ToggleButton(b)
    \/ \E p \in Points : MovePointer(p)
    \/ \E d \in Scrolls : TurnWheel(d)
    \/ Connect \/ Repaint \/ RepaintPanel
    \/ Inject \/ Lose

Spec == Init /\ [][Next]_vars
-----------------------------------------------------------------------------
(* Properties. *)

\* Type invariant.  No key is pressed for the window that the user does not hold.
TypeOK ==
    /\ held \subseteq Modifiers \cup Keys \cup Buttons /\ pointer \in Points
    /\ keys_down \subseteq Keys \X BOOLEAN
    /\ Len(events) <= MaxInputs /\ armed \in BOOLEAN /\ inputs \in 0 .. MaxInputs
    /\ connected \in BOOLEAN /\ last_modifiers \subseteq Modifiers
    /\ last_mouse_remote_pos \in Points \cup {None} /\ sessions \in 0 .. MaxSessions
    /\ down \subseteq (Modifiers \cup Keys \cup Buttons) \ Unmapped /\ cursor \in Points
    /\ clicks \subseteq [at : Points, wanted : Points, moved : BOOLEAN]
    /\ wheels \in Int \X Int /\ turned \in Int \X Int /\ moved \in BOOLEAN
    /\ fresh \subseteq (Keys \cup Buttons) \ Unmapped /\ (connected => fresh \subseteq held)
    /\ lost \subseteq Modifiers \cup Keys \cup Buttons \cup {"move", "scroll"}

\* The window has handled everything and the network is empty.
Settled == /\ events = <<>> /\ commands = <<>>
           /\ connected => last_modifiers = held \cap Modifiers

\* When everything has settled in the first session, the host holds down exactly
\* the user's modifiers and the keys and buttons whose presses the GUI library
\* reported and whose releases, under whatever name, it did not; and its wheels have
\* turned as far as it reported.  So nothing is down that the user has let go.  A lost
\* command leaves wrong its own key, or the wheels, and nothing else.  (Commands are
\* not sent again, and the end of a session may leave a key down: see README.)
InSync ==
    connected /\ sessions = 1 /\ Settled =>
        /\ down \ lost = (fresh \cup (held \cap Modifiers)) \ lost
        /\ down \ lost \subseteq held
        /\ "scroll" \notin lost => wheels = turned

\* A button press takes effect where the user's pointer was, once the pointer has
\* moved in the session and as long as no move is lost: leaving out moves to the
\* position sent last loses none.
ClickAfterMove == "move" \notin lost => \A c \in clicks : c.moved => c.at = c.wanted

\* The transitions of key k.
OfKey(k, s) == FoldLeft(LAMBDA r, x : IF x[1] = k THEN Append(r, x) ELSE r, <<>>, s)

\* What remains of s when its elements are looked for in t, one after the other.
Unmatched(s, t) ==
    FoldLeft(LAMBDA rest, x : IF rest # <<>> /\ Head(rest) = x THEN Tail(rest) ELSE rest, s, t)

\* Whatever is lost or left out, what the host does to one key is, in that order,
\* among what the window could learn of it: no report is made up, carried out twice
\* or overtaken by another one.  (The GUI library may report two presses in a row,
\* under two names.)
OrderOfKey ==
    sessions = 1 =>
        \A k \in Modifiers \cup Keys \cup Buttons : Unmatched(OfKey(k, injected), told) = <<>>
=============================================================================
