------------------------------- MODULE Lights -------------------------------
(***************************************************************************)
(* liblights/lights.c behind lights/Light.cpp.  Battery and notifications   *)
(* share one light emitting diode of three colours.  The library remembers  *)
(* what it last asked of each colour and skips what it takes for a          *)
(* repetition, while the kernel's node may have refused a write.  Every     *)
(* call holds g_lock from beginning to end and is one step.                 *)
(***************************************************************************)
EXTENDS Naturals

CONSTANTS
    Colors,
    MaxRate,        \* a rate is a pair of on and off times; 0 is steady light
    MaxFailures     \* calls in which the kernel refuses a write

VARIABLES
    nodes,          \* the device nodes that exist
    g_battery, g_notification, g_backlight, g_attention,
    preStatus,      \* of blink_red, blink_green and blink_blue
    led,            \* what each colour does
    doubt,          \* the colours whose last change was refused
    lcd, ball,      \* the brightness of the backlight, the trackball's mode
    failures

vars == <<nodes, g_battery, g_notification, g_backlight, g_attention, preStatus,
          led, doubt, lcd, ball, failures>>

Breathing == 7
Modes == {0, 1, Breathing}
Statuses == {"off", "blink", "steady"}

\* What set_light is given.  A colour without alpha counts as lit for is_lit
\* and as dark for set_speaker_light_locked.
Unlit == [lit |-> FALSE, color |-> CHOOSE c \in Colors : TRUE, alpha |-> FALSE, rate |-> 0]
LightStates == {Unlit} \cup [lit : {TRUE}, color : Colors, alpha : BOOLEAN, rate : 0..MaxRate]

LedStates == {[status |-> "off", rate |-> 0], [status |-> "steady", rate |-> 0]}
             \cup [status : {"blink"}, rate : 1..MaxRate]

TypeOK ==
    /\ nodes \subseteq {"lcd", "leds", "trackball"}
    /\ g_battery \in LightStates /\ g_notification \in LightStates
    /\ g_backlight \in {0, 1} /\ lcd \in {0, 1}
    /\ g_attention \in Modes /\ ball \in Modes
    /\ preStatus \in [Colors -> Statuses]
    /\ led \in [Colors -> LedStates]
    /\ doubt \subseteq Colors
    /\ failures \in 0..MaxFailures

\* HIDL_FETCH_ILight opens the lights whose nodes exist, init_globals looks for
\* the trackball.
Init ==
    /\ nodes \in SUBSET {"lcd", "leds", "trackball"}
    /\ g_battery = Unlit /\ g_notification = Unlit
    /\ g_backlight = 1 /\ lcd = 1 /\ g_attention = 0 /\ ball = 0
    /\ preStatus = [c \in Colors |-> "off"]
    /\ led = [c \in Colors |-> [status |-> "off", rate |-> 0]]
    /\ doubt = {} /\ failures = 0

-----------------------------------------------------------------------------
nowStatus(s, c) ==
    CASE ~s.lit \/ ~s.alpha \/ s.color # c -> "off"
      [] OTHER -> IF s.rate = 0 THEN "steady" ELSE "blink"

\* What the kernel does for such a request (external): darkness ends a trigger.
Shine(s, c) == [status |-> nowStatus(s, c), rate |-> IF nowStatus(s, c) = "blink" THEN s.rate ELSE 0]

\* The three colours before or after calls of blink_red, _green and _blue.
Now == [c \in Colors |-> [pre |-> preStatus[c], led |-> led[c], written |-> FALSE]]

blink(x, s, c) ==
    IF x.pre = nowStatus(s, c) THEN x
    ELSE [pre |-> nowStatus(s, c), led |-> Shine(s, c), written |-> TRUE]

\* Mutant: the other colours are left as they are.
set_speaker_light_locked_alone(xs, s) ==
    [c \in Colors |-> IF s.lit /\ c # s.color THEN xs[c] ELSE blink(xs[c], s, c)]

set_speaker_light_locked(xs, s) == [c \in Colors |-> blink(xs[c], s, c)]

handle_speaker_battery_locked(xs, battery, notification) ==
    LET first == set_speaker_light_locked(xs, battery) IN
    IF battery.lit THEN first ELSE set_speaker_light_locked(first, notification)

\* The colours become what xs says; a refused write leaves the colour in any
\* state, and the library none the wiser.
Write(xs) ==
    LET written == {c \in Colors : xs[c].written} IN
    \E bad \in SUBSET written :
        /\ bad # {} => failures < MaxFailures
        /\ failures' = IF bad = {} THEN failures ELSE failures + 1
        /\ preStatus' = [c \in Colors |-> xs[c].pre]
        /\ \E wrong \in [bad -> LedStates] :
               led' = [c \in Colors |-> IF c \in bad THEN wrong[c] ELSE xs[c].led]
        /\ doubt' = (doubt \ written) \cup bad

\* g_trackball stays -1, so the mode is written every time.
handle_trackball_light_locked(backlight, attention) ==
    IF attention = Breathing /\ backlight # 0 THEN 0 ELSE attention

Trackball(backlight, attention) ==
    ball' = IF "trackball" \in nodes THEN handle_trackball_light_locked(backlight, attention)
            ELSE ball

set_light_backlight(b) ==
    /\ "lcd" \in nodes
    /\ g_backlight' = b
    /\ \/ lcd' = b /\ UNCHANGED failures
       \/ failures < MaxFailures /\ failures' = failures + 1 /\ UNCHANGED lcd
    /\ Trackball(b, g_attention)
    /\ UNCHANGED <<nodes, g_battery, g_notification, g_attention, preStatus, led, doubt>>

set_light_battery(s) ==
    /\ "leds" \in nodes
    /\ g_battery' = s
    /\ LET first == IF "trackball" \in nodes THEN set_speaker_light_locked(Now, s) ELSE Now
       IN  Write(handle_speaker_battery_locked(first, s, g_notification))
    /\ UNCHANGED <<nodes, g_notification, g_backlight, g_attention, lcd, ball>>

set_light_notifications(s) ==
    /\ "leds" \in nodes
    /\ g_notification' = s
    /\ Trackball(g_backlight, g_attention)
    /\ Write(handle_speaker_battery_locked(Now, g_battery, s))
    /\ UNCHANGED <<nodes, g_battery, g_backlight, g_attention, lcd>>

\* A timed flash (which is neither HARDWARE nor NONE) changes nothing.
set_light_attention(mode) ==
    /\ "leds" \in nodes
    /\ g_attention' \in {mode, g_attention}
    /\ Trackball(g_backlight, g_attention')
    /\ UNCHANGED <<nodes, g_battery, g_notification, g_backlight, preStatus, led, doubt, lcd, failures>>

Next ==
    \/ \E b \in {0, 1} : set_light_backlight(b)
    \/ \E s \in LightStates : set_light_battery(s) \/ set_light_notifications(s)
    \/ \E mode \in Modes : set_light_attention(mode)

Spec == Init /\ [][Next]_vars

-----------------------------------------------------------------------------
\* What the diode is for: the battery's state if it is lit, else that of the
\* notifications.
Shown == IF g_battery.lit THEN g_battery ELSE g_notification

\* After any sequence of calls every colour the kernel obeyed does what the
\* state with the higher priority asks, and the other colours are dark
\* (set_speaker_light_locked skips what preStatus takes for done).
RightLightShines == \A c \in Colors \ doubt : led[c].status = nowStatus(Shown, c)

\* A notification blinks at its own rate, not at that of a notification or a
\* battery warning before it, although blink_red and the others ignore a new
\* rate for a colour that blinks already: handle_speaker_battery_locked turns
\* the diode off in between.
NotificationRate ==
    ~g_battery.lit => \A c \in Colors \ doubt : led[c] = Shine(g_notification, c)

\* The trackball breathes only while the backlight is off
\* (handle_trackball_light_locked, over changes of either).
BreathesInTheDark == ball = Breathing => g_backlight = 0 /\ g_attention = Breathing

-----------------------------------------------------------------------------
(* The inductive invariant.                                                *)

\* What the library remembers is what it should show, refused writes included,
\* and a trackball that is not there does nothing.
Remembered == \A c \in Colors : preStatus[c] = nowStatus(Shown, c)
NoBall == "trackball" \notin nodes => ball = 0

LightInv ==
    /\ TypeOK /\ Remembered /\ NoBall
    /\ RightLightShines /\ NotificationRate /\ BreathesInTheDark
=============================================================================
