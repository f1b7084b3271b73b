----------------------------- MODULE MCDevices ------------------------------
(***************************************************************************)
(* Threads beside a device or a library, checked in one run: a session of   *)
(* the GPS HAL with mnld, the set-up of the bluetooth controller and the    *)
(* watchdog of GuiExt.  The models share no variable, so the behaviours of  *)
(* each are explored while the others rest.                                 *)
(***************************************************************************)
EXTENDS Naturals, Sequences

CONSTANTS
    MaxQueue, MaxTroubles,                  \* GpsSession
    MaxSessions, Chips, MaxRandom,          \* BtRadio
    Threads, Nobody, Ids, MaxSuspends       \* SWWatchDog

ASSUME GpsAssumption == MaxQueue \in Nat
ASSUME BtAssumption ==
    Chips \subseteq {"combo", "consys", "none"} /\ MaxRandom \in Nat /\ MaxSessions \in Nat

VARIABLES
    part,
    fw, navigating, init, start_flag, cond, flag_unlock, started, sta, told, wakelock,
    control, hal, report, filled, mnl, toMnld, toHal, nmea, epo, exit_flag, troubles,
    chip, debug, efuse, nvram, stack, rx, cmd_status, fgGetEFUSE, addr, running,
    wpc, cur, sent, acked, result, unread, sessions,
    mAnchorTable, mTid, overdue, calling, wdt, late, index, wdtTold, mSuspend, suspends

Gps == INSTANCE GpsSession
Bt == INSTANCE BtRadio
Wdt == INSTANCE SWWatchDog WITH told <- wdtTold

gpsVars == <<fw, navigating, init, start_flag, cond, flag_unlock, started, sta, told, wakelock,
             control, hal, report, filled, mnl, toMnld, toHal, nmea, epo, exit_flag, troubles>>
btVars == <<chip, debug, efuse, nvram, stack, rx, cmd_status, fgGetEFUSE, addr, running,
            wpc, cur, sent, acked, result, unread, sessions>>
wdtVars == <<mAnchorTable, mTid, overdue, calling, wdt, late, index, wdtTold, mSuspend, suspends>>
vars == <<part, gpsVars, btVars, wdtVars>>

\* A part that rests has one initial state.
Init ==
    /\ part \in {"gps", "bt", "wdt"}
    /\ Gps!Init /\ Bt!Init /\ Wdt!Init
    /\ part # "bt" => chip = "none" /\ ~debug /\ efuse = Bt!NotSet

InGps(A) == part = "gps" /\ A /\ UNCHANGED <<part, btVars, wdtVars>>
InBt(A) == part = "bt" /\ A /\ UNCHANGED <<part, gpsVars, wdtVars>>
InWdt(A) == part = "wdt" /\ A /\ UNCHANGED <<part, gpsVars, btVars>>

Next == InGps(Gps!Next) \/ InBt(Bt!Next) \/ InWdt(Wdt!Next)

\* The fairness of the parts, each while it runs.
Spec ==
    /\ Init /\ [][Next]_vars
    /\ WF_vars(InGps(Gps!FwStep)) /\ WF_vars(InGps(Gps!HalStep))
    /\ SF_vars(InGps(Gps!HalControl)) /\ SF_vars(InGps(Gps!HalNmea))
    /\ SF_vars(InGps(Gps!HalMnlDie \/ Gps!HalIcon))
    /\ WF_vars(InGps(Gps!EpoExit)) /\ WF_vars(InGps(Gps!MnldReceives))
    /\ WF_vars(InGps(Gps!MnldNmea))
    /\ WF_vars(InBt(Bt!Worker)) /\ WF_vars(InBt(Bt!Closing))
    /\ WF_vars(InWdt(Wdt!threadLoop))

-----------------------------------------------------------------------------
(* The properties of the parts.                                             *)

\* A start that waits is released by the next NMEA sentence; once settled, and
\* with nothing failed, start_flag, the status told, the wake lock and the engine
\* agree; a cleanup leaves no thread, wake lock or session behind (mtk_gps_start,
\* mtk_gps_stop, mtk_gps_cleanup and the HAL thread).
SessionAgrees ==
    Gps!TypeOK /\ Gps!FirstNmeaReleases /\ Gps!SettledAgrees /\ Gps!CleanupIsComplete

\* Every call of the GPS interface returns while nothing fails.
CallsReturn == Gps!CallsReturn

\* GORM_FW_Init_Thread reports success when every command was accepted.
SuccessMeansAll == Bt!TypeOK /\ Bt!SuccessMeansAll

\* A bluetooth address in NVRAM is not replaced (GORMcmd_HCC_Set_Local_BD_Addr).
AddressKept == Bt!AddressKept

\* mtk_bt_cleanup returns whatever the controller does.
CleanupReturns == Bt!CleanupReturns

\* SWWatchDog::threadLoop skips no late anchor in a walk, and reports each one that
\* stays in the end, resumes included.
OverdueReported == [](Wdt!TypeOK /\ Wdt!NoneSkipped) /\ Wdt!OverdueReported
=============================================================================
