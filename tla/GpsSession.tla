----------------------------- MODULE GpsSession -----------------------------
(***************************************************************************)
(* The life of a GPS session in hal/gps/hal/gps_mtk_aosp.c: the framework   *)
(* thread that calls init, start, stop and cleanup, the HAL thread that     *)
(* serves the control socket, the NMEA device and the messages of the mnld  *)
(* daemon, and the EPO thread as far as its life is concerned.              *)
(*                                                                          *)
(* The threads meet in the conditions of lock_for_sync (get_condition waits *)
(* for one and resets it, release_condition sets it), in start_flag, which  *)
(* both sides poll without a lock, and in the GpsStatus sta, which both     *)
(* sides fill in and pass to the framework.  One step is one access to      *)
(* what the threads share.                                                  *)
(***************************************************************************)
EXTENDS Integers, Sequences

CONSTANTS
    MaxQueue,       \* bound: commands waiting on the control socket, or at mnld
    MaxTroubles     \* bound: daemon deaths, failed sends, hang-ups, failed
                    \* set-up, and other users of the engine

VARIABLES
    fw,             \* where the framework thread is
    navigating,     \* the last of start and stop that returned 0 was start
    init,           \* s->init
    start_flag,     \* s->start_flag
    cond,           \* the conditions of lock_for_sync that are set
    flag_unlock,    \* the first NMEA of this session was seen
    started,        \* the HAL thread has taken CMD_START
    sta,            \* the shared GpsStatus
    told,           \* the last status the framework was told
    wakelock,       \* acquire_wakelock_cb without release_wakelock_cb
    control,        \* commands in the control socket pair
    hal,            \* where the HAL thread is
    report,         \* thread -> statuses it still has to tell
    filled,         \* thread -> it has filled in sta and not yet told it
    mnl,            \* the positioning engine of mnld: "off" or "on"
    toMnld, toHal,  \* datagrams between the HAL and mnld
    nmea,           \* the NMEA device is readable
    epo,            \* where the EPO thread is
    exit_flag,      \* s->thread_epo_exit_flag
    troubles        \* how many of those there were

fwVars == <<fw, navigating, init>>
tellVars == <<sta, told, report, filled>>
mnlVars == <<mnl, toMnld, nmea>>
epoVars == <<epo, exit_flag>>
vars == <<fwVars, start_flag, cond, flag_unlock, started, tellVars, wakelock,
          control, hal, mnlVars, toHal, epoVars, troubles>>

Conditions == {"M_START", "M_STOP", "M_CLEANUP", "M_INIT", "M_THREAD_EXIT"}
Status == {"NONE", "ENGINE_ON", "SESSION_BEGIN", "SESSION_END", "ENGINE_OFF"}
Fw == {"idle", "init_wait", "xtra", "start", "mtk_start", "start_wait", "begin",
       "tell_begin", "check_stop", "reset_stop", "set_flag", "stop", "cleanup",
       "cleanup_stop", "cleanup_reset", "done", "done_wait", "exit_wait"}

Init ==
    /\ fw = "idle" /\ navigating = FALSE /\ init = FALSE
    /\ start_flag = FALSE /\ cond = {} /\ flag_unlock = FALSE
    /\ started = FALSE /\ sta = "NONE" /\ told = "NONE" /\ wakelock = FALSE
    /\ control = <<>> /\ hal = "none"
    /\ report = [t \in {"fw", "hal"} |-> <<>>]
    /\ filled = [t \in {"fw", "hal"} |-> FALSE]
    /\ mnl = "off" /\ toMnld = <<>> /\ toHal = <<>> /\ nmea = FALSE
    /\ epo = "none" /\ exit_flag = FALSE
    /\ troubles = 0

-----------------------------------------------------------------------------
(* What the threads share.                                                 *)

Go(from, to) == fw = from /\ fw' = to
Trouble == troubles < MaxTroubles /\ troubles' = troubles + 1

\* Mutant: the condition stays set for the next one who waits.
get_condition_sticky(c) == c \in cond /\ UNCHANGED cond

get_condition(c) == c \in cond /\ cond' = cond \ {c}
release_condition(c) == cond' = cond \cup {c}

\* sta.status = ...; the first of the statuses still to be told.
FillIn(t) ==
    /\ report[t] # <<>> /\ ~filled[t]
    /\ sta' = Head(report[t])
    /\ filled' = [filled EXCEPT ![t] = TRUE]
    /\ UNCHANGED <<fwVars, start_flag, cond, flag_unlock, started, told, report,
                   wakelock, control, hal, mnlVars, toHal, epoVars, troubles>>

\* callback_backup_mtk.base.status_cb(&sta): whatever sta holds by now.
Tell(t) ==
    /\ filled[t]
    /\ told' = sta
    /\ filled' = [filled EXCEPT ![t] = FALSE]
    /\ report' = [report EXCEPT ![t] = Tail(@)]
    /\ UNCHANGED <<fwVars, start_flag, cond, flag_unlock, started, sta, wakelock,
                   control, hal, mnlVars, toHal, epoVars, troubles>>

-----------------------------------------------------------------------------
(* The framework thread.                                                   *)

\* mtk_gps_init: gps_state_init opens the device and creates the thread ...
mtk_gps_init ==
    /\ ~init /\ Go("idle", "init_wait")
    /\ hal = "none" /\ hal' = "starting"
    /\ control' = <<>>
    /\ UNCHANGED <<navigating, init, start_flag, cond, flag_unlock, started,
                   tellVars, wakelock, mnlVars, toHal, epoVars, troubles>>

\* ... or has no device and creates no thread (the wait for M_INIT goes on),
\* or fails later and ends in gps_state_done.
mtk_gps_init_fails ==
    /\ ~init /\ fw = "idle" /\ fw' \in {"init_wait", "done_wait"}
    /\ hal = "none"
    /\ Trouble
    /\ UNCHANGED <<navigating, init, start_flag, cond, flag_unlock, started,
                   tellVars, wakelock, control, hal, mnlVars, toHal, epoVars>>

mtk_gps_init_done ==
    /\ Go("init_wait", "xtra")
    /\ get_condition("M_INIT")
    /\ init' = TRUE
    /\ UNCHANGED <<navigating, start_flag, flag_unlock, started, tellVars,
                   wakelock, control, hal, mnlVars, toHal, epoVars, troubles>>

\* mtk_gps_epo_interface_init creates the EPO thread before it resets the
\* flag that tells the thread to leave.
mtk_gps_epo_interface_init ==
    \/ /\ fw = "xtra" /\ epo = "none"
       /\ epo' = "running"
       /\ UNCHANGED <<fwVars, start_flag, cond, flag_unlock, started, tellVars, wakelock,
                      control, hal, mnlVars, toHal, exit_flag, troubles>>
    \/ /\ Go("xtra", "idle") /\ epo # "none"
       /\ exit_flag' = FALSE
       /\ UNCHANGED <<navigating, init, start_flag, cond, flag_unlock, started, tellVars,
                      wakelock, control, hal, mnlVars, toHal, epo, troubles>>

Call(from, to) ==
    /\ init /\ Go(from, to)
    /\ UNCHANGED <<navigating, init, start_flag, cond, flag_unlock, started, tellVars,
                   wakelock, control, hal, mnlVars, toHal, epoVars, troubles>>

\* mtk_gps_start polls start_flag until the last session is over ...
mtk_gps_start ==
    \/ ~navigating /\ Call("idle", "start")
    \/ ~start_flag /\ Call("start", "mtk_start")

\* ... asks mnld (mtk_start retries while mnld restarts) ...
mtk_start ==
    /\ Go("mtk_start", "start_wait")
    /\ Len(toMnld) < MaxQueue
    /\ toMnld' = Append(toMnld, "START")
    /\ UNCHANGED <<navigating, init, start_flag, cond, flag_unlock, started, tellVars,
                   wakelock, control, hal, mnl, nmea, toHal, epoVars, troubles>>

mtk_start_fails ==
    /\ Go("mtk_start", "idle")
    /\ Trouble
    /\ UNCHANGED <<navigating, init, start_flag, cond, flag_unlock, started, tellVars,
                   wakelock, control, hal, mnlVars, toHal, epoVars>>

\* ... waits for the first NMEA sentence ...
mtk_gps_start_wait ==
    /\ Go("start_wait", "begin")
    /\ get_condition("M_START")
    /\ UNCHANGED <<navigating, init, start_flag, flag_unlock, started, tellVars,
                   wakelock, control, hal, mnlVars, toHal, epoVars, troubles>>

\* ... gps_state_start, and the two statuses ...
gps_state_start ==
    /\ Go("begin", "tell_begin")
    /\ Len(control) < MaxQueue
    /\ control' = Append(control, "CMD_START")
    /\ report' = [report EXCEPT !["fw"] = <<"ENGINE_ON", "SESSION_BEGIN">>]
    /\ UNCHANGED <<navigating, init, start_flag, cond, flag_unlock, started, sta, told,
                   filled, wakelock, hal, mnlVars, toHal, epoVars, troubles>>

acquire_wakelock_cb ==
    /\ Go("tell_begin", "check_stop") /\ report["fw"] = <<>>
    /\ wakelock' = TRUE
    /\ UNCHANGED <<navigating, init, start_flag, cond, flag_unlock, started, tellVars,
                   control, hal, mnlVars, toHal, epoVars, troubles>>

\* ... and resets a left over M_STOP, which it tests without the mutex ...
check_stop ==
    /\ \/ "M_STOP" \in cond /\ Go("check_stop", "reset_stop")
       \/ "M_STOP" \notin cond /\ Go("check_stop", "set_flag")
    /\ UNCHANGED <<navigating, init, start_flag, cond, flag_unlock, started, tellVars,
                   wakelock, control, hal, mnlVars, toHal, epoVars, troubles>>

reset_stop(from, to) ==
    /\ Go(from, to)
    /\ cond' = cond \ {"M_STOP"}
    /\ UNCHANGED <<navigating, init, start_flag, flag_unlock, started, tellVars,
                   wakelock, control, hal, mnlVars, toHal, epoVars, troubles>>

set_start_flag ==
    /\ Go("set_flag", "idle")
    /\ start_flag' = TRUE /\ navigating' = TRUE
    /\ UNCHANGED <<init, cond, flag_unlock, started, tellVars, wakelock, control,
                   hal, mnlVars, toHal, epoVars, troubles>>

\* mtk_gps_stop polls start_flag until the session has begun, sends the stop
\* to mnld and then to the HAL thread.
mtk_gps_stop ==
    \/ navigating /\ Call("idle", "stop")
    \/ /\ start_flag /\ Go("stop", "idle")
       /\ Len(control) < MaxQueue /\ Len(toMnld) < MaxQueue
       /\ toMnld' = Append(toMnld, "STOP")
       /\ control' = Append(control, "CMD_STOP")
       /\ navigating' = FALSE
       /\ UNCHANGED <<init, start_flag, cond, flag_unlock, started, tellVars, wakelock,
                      hal, mnl, nmea, toHal, epoVars, troubles>>

mtk_gps_stop_fails ==
    /\ start_flag /\ Go("stop", "idle")
    /\ Trouble
    /\ navigating' = FALSE
    /\ UNCHANGED <<init, start_flag, cond, flag_unlock, started, tellVars, wakelock,
                   control, hal, mnlVars, toHal, epoVars>>

\* mtk_gps_delete_aiding_data: the engine is restarted, the session goes on.
mtk_gps_delete_aiding_data ==
    /\ init /\ fw = "idle"
    /\ Len(control) < MaxQueue
    /\ control' = Append(control, "CMD_RESTART")
    /\ UNCHANGED <<fwVars, start_flag, cond, flag_unlock, started, tellVars, wakelock,
                   hal, mnlVars, toHal, epoVars, troubles>>

\* mtk_gps_cleanup: "let MNLD die" ...
mtk_gps_cleanup ==
    /\ init /\ Go("idle", "cleanup")
    /\ Len(toMnld) < MaxQueue
    /\ toMnld' = Append(toMnld, "CLEANUP")
    /\ UNCHANGED <<navigating, init, start_flag, cond, flag_unlock, started, tellVars,
                   wakelock, control, hal, mnl, nmea, toHal, epoVars, troubles>>

\* ... wait until it has, if a session is on, reset M_STOP ...
cleanup_stop ==
    \/ start_flag /\ Call("cleanup", "cleanup_stop")
    \/ ~start_flag /\ Call("cleanup", "cleanup_reset")
    \/ /\ Go("cleanup_stop", "cleanup_reset")
       /\ get_condition("M_STOP")
       /\ UNCHANGED <<navigating, init, start_flag, flag_unlock, started, tellVars,
                      wakelock, control, hal, mnlVars, toHal, epoVars, troubles>>

cleanup_reset ==
    \/ "M_STOP" \notin cond /\ Call("cleanup_reset", "done")
    \/ "M_STOP" \in cond /\ reset_stop("cleanup_reset", "done")

\* ... gps_state_done: make the HAL thread leave and wait until it has ...
gps_state_done ==
    \/ /\ Go("done", "done_wait")
       /\ Len(control) < MaxQueue
       /\ control' = Append(control, "CMD_QUIT")
       /\ UNCHANGED <<navigating, init, start_flag, cond, flag_unlock, started, tellVars,
                      wakelock, hal, mnlVars, toHal, epoVars, troubles>>
    \/ /\ Go("done_wait", "exit_wait")
       /\ get_condition("M_CLEANUP")
       /\ init' = FALSE /\ navigating' = FALSE
       /\ exit_flag' = TRUE
       /\ UNCHANGED <<start_flag, flag_unlock, started, tellVars, wakelock, control,
                      hal, mnlVars, toHal, epo, troubles>>

\* ... and the same for the EPO thread.
cleanup_exit ==
    /\ Go("exit_wait", "idle")
    /\ get_condition("M_THREAD_EXIT")
    /\ epo' = "none"
    /\ UNCHANGED <<navigating, init, start_flag, flag_unlock, started, tellVars,
                   wakelock, control, hal, mnlVars, toHal, exit_flag, troubles>>

-----------------------------------------------------------------------------
(* The HAL thread: gps_state_thread and mnld_to_gps_handler.               *)

HalReady ==
    /\ hal = "starting" /\ hal' = "loop"
    /\ release_condition("M_INIT")
    /\ toHal' = <<>>                    \* the socket is bound anew
    /\ UNCHANGED <<fwVars, start_flag, flag_unlock, started, tellVars, wakelock,
                   control, mnlVars, epoVars, troubles>>

\* Exit: the thread is gone once M_CLEANUP is released.
HalExit ==
    /\ hal' = "none"
    /\ release_condition("M_CLEANUP")
    /\ UNCHANGED <<fwVars, start_flag, flag_unlock, started, tellVars, wakelock,
                   mnlVars, toHal, epoVars>>

HalControl ==
    /\ hal = "loop" /\ control # <<>>
    /\ control' = Tail(control)
    /\ \/ Head(control) = "CMD_QUIT" /\ HalExit /\ UNCHANGED troubles
       \/ /\ Head(control) # "CMD_QUIT"
          /\ started' = IF Head(control) = "CMD_RESTART" THEN started
                        ELSE Head(control) = "CMD_START"
          /\ UNCHANGED <<fwVars, start_flag, cond, flag_unlock, tellVars, wakelock, hal,
                         mnlVars, toHal, epoVars, troubles>>

\* gps_fd: the first sentence lets mtk_gps_start go on.
HalNmea ==
    /\ hal = "loop" /\ nmea
    /\ nmea' = FALSE
    /\ \/ flag_unlock /\ UNCHANGED cond
       \/ ~flag_unlock /\ release_condition("M_START")
    /\ flag_unlock' = TRUE
    /\ UNCHANGED <<fwVars, start_flag, started, tellVars, wakelock, control, hal,
                   mnl, toMnld, toHal, epoVars, troubles>>

\* Mutant: the flag is set for good by the first session.
HalMnlDie_keepsUnlock ==
    /\ hal = "loop" /\ toHal # <<>> /\ Head(toHal) = "MNL_DIE"
    /\ toHal' = Tail(toHal)
    /\ report' = [report EXCEPT !["hal"] = <<"SESSION_END", "ENGINE_OFF">>]
    /\ hal' = "die_stop"
    /\ UNCHANGED <<fwVars, start_flag, cond, flag_unlock, started, sta, told, filled,
                   wakelock, control, mnlVars, epoVars, troubles>>

\* HAL_CMD_MNL_DIE: the session is over ...
HalMnlDie ==
    /\ hal = "loop" /\ toHal # <<>> /\ Head(toHal) = "MNL_DIE"
    /\ toHal' = Tail(toHal)
    /\ flag_unlock' = FALSE
    /\ report' = [report EXCEPT !["hal"] = <<"SESSION_END", "ENGINE_OFF">>]
    /\ hal' = "die_stop"
    /\ UNCHANGED <<fwVars, start_flag, cond, started, sta, told, filled, wakelock,
                   control, mnlVars, epoVars, troubles>>

\* ... and, both statuses told, whoever waits for its end is let go.
HalDied ==
    /\ report["hal"] = <<>>
    /\ \/ /\ hal = "die_stop" /\ hal' = "die_wakelock"
          /\ release_condition("M_STOP")
          /\ UNCHANGED <<wakelock, start_flag>>
       \/ /\ hal = "die_wakelock" /\ hal' = "die_flag"
          /\ wakelock' = FALSE
          /\ UNCHANGED <<cond, start_flag>>
       \/ /\ hal = "die_flag" /\ hal' = "loop"
          /\ start_flag' = FALSE
          /\ UNCHANGED <<cond, wakelock>>
    /\ UNCHANGED <<fwVars, flag_unlock, started, tellVars, control, mnlVars, toHal,
                   epoVars, troubles>>

\* HAL_CMD_GPS_ICON: another user of the engine, shown while no session of
\* the framework has started.
HalIcon ==
    \/ /\ hal = "loop" /\ toHal # <<>> /\ Head(toHal) \in {"ICON_ON", "ICON_OFF"}
       /\ toHal' = Tail(toHal)
       /\ \/ started /\ UNCHANGED <<report, hal>>
          \/ /\ ~started
             /\ report' = [report EXCEPT !["hal"] =
                   IF Head(toHal) = "ICON_ON" THEN <<"ENGINE_ON", "SESSION_BEGIN">>
                   ELSE <<"ENGINE_OFF", "SESSION_END">>]
             /\ hal' = "icon"
       /\ UNCHANGED <<fwVars, start_flag, cond, flag_unlock, started, sta, told, filled,
                      wakelock, control, mnlVars, epoVars, troubles>>
    \/ /\ hal = "icon" /\ report["hal"] = <<>> /\ hal' = "loop"
       /\ UNCHANGED <<fwVars, start_flag, cond, flag_unlock, started, tellVars, wakelock,
                      control, mnlVars, toHal, epoVars, troubles>>

\* EPOLLERR or EPOLLHUP on any descriptor: the thread leaves unasked.
HalHangup ==
    /\ hal = "loop"
    /\ Trouble
    /\ HalExit
    /\ UNCHANGED control

-----------------------------------------------------------------------------
(* The EPO thread looks at its flag between two downloads.                 *)

EpoExit ==
    /\ epo = "running" /\ exit_flag
    /\ epo' = "left"
    /\ release_condition("M_THREAD_EXIT")
    /\ UNCHANGED <<fwVars, start_flag, flag_unlock, started, tellVars, wakelock,
                   control, hal, mnlVars, toHal, exit_flag, troubles>>

-----------------------------------------------------------------------------
(* mnld, outside the repository: it starts the engine, stops it and then   *)
(* says MNL_DIE, writes NMEA sentences while the engine is on, and tells   *)
(* of other users of the engine.                                           *)

MnldReceives ==
    /\ toMnld # <<>> /\ toMnld' = Tail(toMnld)
    /\ mnl' = IF Head(toMnld) = "START" THEN "on" ELSE "off"
    /\ toHal' = IF Head(toMnld) # "START" /\ mnl = "on" THEN Append(toHal, "MNL_DIE")
                ELSE toHal
    /\ UNCHANGED <<fwVars, start_flag, cond, flag_unlock, started, tellVars, wakelock,
                   control, hal, nmea, epoVars, troubles>>

MnldNmea ==
    /\ mnl = "on" /\ ~nmea /\ nmea' = TRUE
    /\ UNCHANGED <<fwVars, start_flag, cond, flag_unlock, started, tellVars, wakelock,
                   control, hal, mnl, toMnld, toHal, epoVars, troubles>>

MnldIcon ==
    /\ Trouble
    /\ \E m \in {"ICON_ON", "ICON_OFF"} : toHal' = Append(toHal, m)
    /\ UNCHANGED <<fwVars, start_flag, cond, flag_unlock, started, tellVars, wakelock,
                   control, hal, mnlVars, epoVars>>

MnlDies ==
    /\ mnl = "on" /\ mnl' = "off"
    /\ Trouble
    /\ toHal' = Append(toHal, "MNL_DIE")
    /\ UNCHANGED <<fwVars, start_flag, cond, flag_unlock, started, tellVars, wakelock,
                   control, hal, toMnld, nmea, epoVars>>

-----------------------------------------------------------------------------

FwStep ==
    \/ mtk_gps_init_done \/ mtk_gps_epo_interface_init \/ mtk_start
    \/ mtk_gps_start_wait \/ gps_state_start \/ FillIn("fw") \/ Tell("fw")
    \/ acquire_wakelock_cb \/ check_stop \/ reset_stop("reset_stop", "set_flag")
    \/ set_start_flag \/ cleanup_stop \/ cleanup_reset \/ gps_state_done \/ cleanup_exit
    \/ (fw # "idle" /\ mtk_gps_start) \/ (fw # "idle" /\ mtk_gps_stop)
HalStep == HalReady \/ FillIn("hal") \/ Tell("hal") \/ HalMnlDie \/ HalDied \/ HalIcon
Calls ==
    \/ mtk_gps_init \/ mtk_gps_delete_aiding_data \/ mtk_gps_cleanup
    \/ (fw = "idle" /\ mtk_gps_start) \/ (fw = "idle" /\ mtk_gps_stop)
Faults ==
    mtk_gps_init_fails \/ mtk_start_fails \/ mtk_gps_stop_fails \/ HalHangup \/ MnlDies

Next ==
    \/ Calls \/ FwStep \/ HalStep \/ HalControl \/ HalNmea \/ EpoExit
    \/ MnldReceives \/ MnldNmea \/ MnldIcon \/ Faults

Spec == Init /\ [][Next]_vars

\* Fairness: the threads run, epoll_wait serves each descriptor in turn, mnld
\* reads its socket and an engine that is on writes NMEA.  No call is promised.
FairSpec ==
    /\ Spec
    /\ WF_vars(FwStep) /\ WF_vars(HalStep) /\ SF_vars(HalControl) /\ SF_vars(HalNmea)
    /\ SF_vars(HalMnlDie \/ HalIcon)
    /\ WF_vars(EpoExit) /\ WF_vars(MnldReceives) /\ WF_vars(MnldNmea)

-----------------------------------------------------------------------------
(* Properties.                                                             *)

\* Type correctness.
TypeOK ==
    /\ fw \in Fw /\ navigating \in BOOLEAN /\ init \in BOOLEAN
    /\ start_flag \in BOOLEAN /\ cond \subseteq Conditions
    /\ flag_unlock \in BOOLEAN /\ started \in BOOLEAN
    /\ sta \in Status /\ told \in Status /\ wakelock \in BOOLEAN
    /\ hal \in {"none", "starting", "loop", "die_stop", "die_wakelock", "die_flag", "icon"}
    /\ control \in Seq({"CMD_START", "CMD_STOP", "CMD_RESTART", "CMD_QUIT"})
    /\ Len(control) <= MaxQueue
    /\ report \in [{"fw", "hal"} -> Seq(Status)] /\ filled \in [{"fw", "hal"} -> BOOLEAN]
    /\ \A t \in {"fw", "hal"} : filled[t] => report[t] # <<>>
    /\ mnl \in {"off", "on"} /\ nmea \in BOOLEAN
    /\ toMnld \in Seq({"START", "STOP", "CLEANUP"})
    /\ toHal \in Seq({"MNL_DIE", "ICON_ON", "ICON_OFF"})
    /\ epo \in {"none", "running", "left"} /\ exit_flag \in BOOLEAN
    /\ troubles \in Nat

\* A start that waits for its first NMEA sentence will be let go by it: the
\* signal is set, or the HAL thread will set it with the next sentence, or it
\* is about to handle the end of the last session.  Whatever dies or fails.
FirstNmeaReleases ==
    fw = "start_wait" /\ "M_START" \notin cond => ~flag_unlock

Calm == troubles = 0
Quiet ==
    /\ fw = "idle" /\ hal \in {"none", "loop"}
    /\ toMnld = <<>> /\ toHal = <<>> /\ control = <<>>

\* When everything has settled and nothing failed, the flag the next start
\* and stop poll, what the framework was told, the CPU's wake lock and the
\* engine itself agree.
SettledAgrees ==
    Calm /\ Quiet =>
        /\ start_flag = navigating /\ wakelock = navigating
        /\ (mnl = "on") = navigating
        /\ told = IF navigating THEN "SESSION_BEGIN"
                  ELSE IF told = "NONE" THEN "NONE" ELSE "ENGINE_OFF"

\* mtk_gps_cleanup "make sure gps_stop has set state to
\* GPS_STATUS_ENGINE_OFF by callback function": once it has returned the
\* framework was told, the wake lock is released and both threads have left.
CleanupIsComplete ==
    Calm /\ ~init /\ fw = "idle" =>
        /\ told \in {"NONE", "ENGINE_OFF"} /\ ~wakelock /\ ~start_flag
        /\ hal = "none" /\ epo = "none"

\* While nothing fails every call returns: start finds its first sentence,
\* stop and start find the flag they poll, cleanup finds both threads gone.
CallsReturn == [](Calm /\ fw # "idle" => <>(fw = "idle" \/ ~Calm))

-----------------------------------------------------------------------------
(* The inductive invariant of FirstNmeaReleases, SettledAgrees and          *)
(* CleanupIsComplete.                                                       *)

Dying == {"die_stop", "die_wakelock", "die_flag"}
Beginning == {"begin", "tell_begin", "check_stop", "reset_stop", "set_flag"}

\* A sentence that was the first of its session let a start go on, and that
\* session is not over before the flag is reset.
NmeaSound ==
    /\ flag_unlock /\ "M_START" \notin cond => start_flag \/ fw \in Beginning
    /\ hal \in Dying => ~flag_unlock
    /\ fw \in {"mtk_start", "start_wait"} => ~start_flag

\* The HAL thread lives from init to the end of cleanup, and so does what is
\* said about its life.
LifeSound ==
    /\ fw # "idle" => (init <=> fw \notin {"init_wait", "exit_wait"})
    /\ ~init \/ fw = "xtra" => ~navigating
    /\ hal # "icon" /\ (hal = "starting" => fw = "init_wait")
    /\ fw = "init_wait" => hal \in {"starting", "loop"}
    /\ init /\ fw # "done_wait" => hal \in {"loop"} \cup Dying
    /\ ~init /\ fw # "init_wait" => hal = "none"
    /\ "M_INIT" \in cond => fw = "init_wait" /\ hal = "loop"
    /\ "M_CLEANUP" \in cond => fw = "done_wait" /\ hal = "none"
    /\ \A i \in DOMAIN control : control[i] = "CMD_QUIT" =>
         i = Len(control) /\ fw = "done_wait" /\ hal # "none"
    /\ fw = "idle" /\ ~init => epo = "none"

\* The engine is off, or on, or will be stopped, once mnld has read its messages;
\* it then dies once.
StartIs(p) == \A i \in DOMAIN toMnld : toMnld[i] = "START" <=> i = p
EngineOff == mnl = "off" /\ StartIs(0) /\ toHal = <<>>
EngineOn ==
    /\ toHal = <<>>
    /\ \/ mnl = "on" /\ toMnld = <<>>
       \/ mnl = "off" /\ toMnld # <<>> /\ StartIs(Len(toMnld))
EngineStops ==
    \/ toHal = <<>> /\ mnl = "on" /\ toMnld # <<>> /\ StartIs(0)
    \/ toHal = <<>> /\ mnl = "off" /\ \E p \in 1 .. Len(toMnld) - 1 : StartIs(p)
    \/ toHal = <<"MNL_DIE">> /\ mnl = "off" /\ StartIs(0)

\* Only one thread has statuses to tell, and fills in its own.
Silent(t) == report[t] = <<>>
Tells(t, first, last) ==
    /\ report[t] \in {<<first, last>>, <<last>>, <<>>}
    /\ filled[t] => sta = Head(report[t])
    /\ report[t] = <<>> => told = last

\* There is no session ...
Over ==
    /\ ~start_flag /\ hal \notin Dying /\ EngineOff /\ ~wakelock
    /\ Silent("fw") /\ Silent("hal") /\ told \in {"NONE", "ENGINE_OFF"}

\* ... one begins, ...
Begins ==
    /\ ~start_flag /\ hal = "loop" /\ EngineOn /\ Silent("hal")
    /\ fw \in {"start_wait", "begin"} => Silent("fw") /\ ~wakelock
    /\ fw = "tell_begin" => Tells("fw", "ENGINE_ON", "SESSION_BEGIN")
    /\ fw \in {"check_stop", "reset_stop", "set_flag"} =>
         wakelock /\ Silent("fw") /\ told = "SESSION_BEGIN"
    /\ fw = "set_flag" => "M_STOP" \notin cond

\* ... it runs, ...
Runs ==
    /\ start_flag /\ hal = "loop" /\ EngineOn /\ wakelock
    /\ Silent("fw") /\ Silent("hal") /\ told = "SESSION_BEGIN" /\ "M_STOP" \notin cond

\* ... mnld was asked to stop, ...
Stops ==
    /\ start_flag /\ hal = "loop" /\ EngineStops /\ wakelock
    /\ Silent("fw") /\ Silent("hal") /\ told = "SESSION_BEGIN" /\ "M_STOP" \notin cond

\* ... and the HAL thread has heard that it did.
Dies ==
    /\ start_flag /\ hal \in Dying /\ EngineOff /\ Silent("fw")
    /\ Tells("hal", "SESSION_END", "ENGINE_OFF")
    /\ hal = "die_stop" => wakelock /\ "M_STOP" \notin cond
    /\ hal # "die_stop" => Silent("hal")
    /\ hal = "die_flag" => ~wakelock

\* Where the framework thread is says which of these it is.
SessionSound ==
    /\ fw \in {"init_wait", "xtra", "mtk_start", "exit_wait"} => Over
    /\ fw \in {"start_wait"} \cup Beginning => Begins
    /\ fw = "stop" \/ (fw = "idle" /\ navigating) => Runs
    /\ fw \in {"start", "cleanup", "cleanup_stop"} \/ (fw = "idle" /\ ~navigating) =>
         Over \/ Stops \/ Dies
    /\ fw \in {"cleanup_reset", "done", "done_wait"} => Over \/ (Dies /\ hal # "die_stop")

SessionInv ==
    /\ TypeOK /\ NmeaSound
    /\ Calm => LifeSound /\ SessionSound
=============================================================================
