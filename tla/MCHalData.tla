----------------------------- MODULE MCHalData ------------------------------
(***************************************************************************)
(* What HALs keep of data that comes and goes, checked in one run: the      *)
(* orbit files the GPS HAL downloads (GpsEpo), the NMEA sentences it reads  *)
(* (NmeaReader) and what the lights were asked to show (Lights).  The       *)
(* models share no variable, so the behaviours of each are explored while   *)
(* the others rest.                                                         *)
(***************************************************************************)
EXTENDS GpsEpo

CONSTANTS
    GNSS_MAX_SVS, MaxEpochs, MaxUpsets,     \* NmeaReader
    Colors, MaxRate, MaxFailures            \* Lights

ASSUME NmeaAssumption == GNSS_MAX_SVS \in Nat /\ GNSS_MAX_SVS >= 3 /\ MaxEpochs \in Nat \ {0}
ASSUME LightAssumption == MaxRate \in Nat /\ MaxFailures \in Nat

VARIABLES
    part,
    n, at, fixed, used, overflow, r, reported, upsets, clean,
    nodes, g_battery, g_notification, g_backlight, g_attention, preStatus,
    led, doubt, lcd, ball, failures

Nmea == INSTANCE NmeaReader
Light == INSTANCE Lights

nmeaVars == <<n, at, fixed, used, overflow, r, reported, upsets, clean>>
lightVars == <<nodes, g_battery, g_notification, g_backlight, g_attention, preStatus,
               led, doubt, lcd, ball, failures>>
allVars == <<part, vars, nmeaVars, lightVars>>

\* A part that rests has one initial state.
AllInit ==
    /\ part \in {"epo", "nmea", "light"}
    /\ Init /\ Nmea!Init /\ Light!Init
    /\ part # "nmea" => ~fixed /\ used = {}
    /\ part # "light" => nodes = {}

InEpo(A) == part = "epo" /\ A /\ UNCHANGED <<part, nmeaVars, lightVars>>
InNmea(A) == part = "nmea" /\ A /\ UNCHANGED <<part, vars, lightVars>>
InLight(A) == part = "light" /\ A /\ UNCHANGED <<part, vars, nmeaVars>>

AllNext == InEpo(Next) \/ InNmea(Nmea!Next) \/ InLight(Light!Next)

\* The fairness is that of GpsEpo, while that part runs.
AllSpec ==
    /\ AllInit /\ [][AllNext]_allVars
    /\ WF_allVars(InEpo(EpoStep)) /\ WF_allVars(InEpo(retry_alarm_handler))

-----------------------------------------------------------------------------
(* The properties of the parts; FailureEnds is that of GpsEpo.              *)

\* The orbit file holds its pieces from the first on and without a gap, and as many
\* as the EPO thread has counted (gps_epo_file_count, EPOHAL).
DownloadIsExact == TypeOK /\ PiecesInOrder /\ CountMatchesFile

\* nmea_reader_parse reports the satellites and the position of the epoch, once
\* and at its time, whatever was lost before.
ReportsAreExact == Nmea!TypeOK /\ Nmea!ViewIsExact /\ Nmea!FixIsExact

\* The diode does what the battery, or else the notifications, ask of it, at the
\* rate asked for, and the trackball breathes while the backlight is off only
\* (set_speaker_light_locked, handle_trackball_light_locked).
LightsAreRight ==
    /\ Light!TypeOK /\ Light!RightLightShines
    /\ Light!NotificationRate /\ Light!BreathesInTheDark
=============================================================================
