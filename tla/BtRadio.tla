------------------------------ MODULE BtRadio -------------------------------
(***************************************************************************)
(* The set-up of the bluetooth controller in hal/bluedroid (mtk.c,          *)
(* radiomgr.c, radiomod.c).  BT_VND_OP_FW_CFG reads the settings from NVRAM *)
(* and starts a worker thread, which sends a script of HCI commands, one at *)
(* a time, and waits for the event of each; mtk_bt_cleanup may come at any  *)
(* point of it.  The stack opens and closes the library again and again,    *)
(* and cmd_status and fgGetEFUSE outlive a session.                         *)
(*                                                                          *)
(* The commands that only write settings are one kind, "set"; an address is *)
(* not set, the one of the chip's eFUSE, or a generated number.             *)
(***************************************************************************)
EXTENDS Naturals, Sequences

CONSTANTS
    MaxSessions,    \* bound: sessions of the stack
    Chips,          \* the kinds of chips: a subset of {"combo", "consys", "none"}
    MaxRandom       \* bound: addresses GetRandomValue makes up

Scripts == [combo  |-> <<"get", "addr", "set", "debug">>,
            consys |-> <<"addr", "set", "debug">>,
            none   |-> <<>>]                    \* an unknown chip has none

VARIABLES
    chip,           \* which script the chip id selects
    debug,          \* the properties that ask for the debug commands
    efuse,          \* the address in the chip
    nvram,          \* the address in NVRAM
    stack,          \* the caller of the vendor interface
    rx,             \* the stack's receive thread runs
    cmd_status, fgGetEFUSE, addr,   \* globals of radiomod.c
    running,        \* btinit_ctrl.worker_thread_running
    wpc, cur,       \* the worker thread and its index into the script
    sent,           \* the command waits for its event
    acked,          \* commands the controller accepted in this session
    result,         \* what fwcfg_cb said in this session
    unread,         \* NVRAM could once not be read
    sessions

stackVars == <<stack, rx, sessions>>
workVars == <<wpc, cur, sent, acked, result>>
addrVars == <<fgGetEFUSE, addr, nvram>>
btVars == <<chip, debug, efuse, nvram, stack, rx, cmd_status, fgGetEFUSE, addr, running,
          wpc, cur, sent, acked, result, unread, sessions>>
setting == <<chip, debug, efuse>>

NotSet == 0                     \* the default address, or zero
OfChip == MaxRandom + 1         \* the address in the eFUSE
Addresses == NotSet..OfChip

Init ==
    /\ chip \in Chips /\ debug \in BOOLEAN /\ efuse \in {NotSet, OfChip}
    /\ nvram = NotSet /\ addr = NotSet /\ fgGetEFUSE = FALSE
    /\ stack = "closed" /\ rx = FALSE /\ sessions = 0
    /\ cmd_status = "success" /\ running = FALSE /\ unread = FALSE
    /\ wpc = "none" /\ cur = 1 /\ sent = FALSE /\ acked = {} /\ result = "none"

Script == Scripts[chip]

-----------------------------------------------------------------------------
(* The stack's thread.                                                      *)

\* The stack opens the library; what it had not yet sent or heard is forgotten.
mtk_bt_init ==
    /\ stack = "closed" /\ sessions < MaxSessions
    /\ stack' = "open" /\ rx' = TRUE /\ sessions' = sessions + 1
    /\ sent' = FALSE /\ acked' = {} /\ result' = "none"
    /\ UNCHANGED <<setting, cmd_status, addrVars, running, wpc, cur, unread>>

\* The chip id or the thread is not to be had.
mtk_fw_cfg_fails ==
    /\ stack = "open" /\ stack' = "failed"
    /\ running' \in {running, FALSE}
    /\ UNCHANGED <<setting, rx, sessions, cmd_status, addrVars, workVars, unread>>

\* Settings from NVRAM, or the chip's defaults where it cannot be read (an
\* unknown chip has none, and an error is returned); BT_InitDevice.
mtk_fw_cfg ==
    /\ stack = "open"
    /\ \E ok \in BOOLEAN :
          /\ ok \/ chip # "none"
          /\ addr' = IF ok THEN nvram ELSE NotSet
          /\ unread' = (unread \/ ~ok)
    /\ running' = FALSE
    /\ wpc' = "start" /\ stack' = "creating"
    /\ UNCHANGED <<setting, rx, sessions, cmd_status, fgGetEFUSE, nvram,
                   cur, sent, acked, result>>

\* pthread_create has returned; the thread may be far ahead already.
ThreadCreated ==
    /\ stack = "creating" /\ stack' = "busy"
    /\ running' = TRUE
    /\ UNCHANGED <<setting, rx, sessions, cmd_status, addrVars, workVars, unread>>

\* The stack stops receiving before it closes the library.
RxExit ==
    /\ stack \in {"open", "failed", "busy"} /\ rx
    /\ rx' = FALSE
    /\ UNCHANGED <<setting, stack, sessions, cmd_status, addrVars, running, workVars, unread>>

\* BT_Cleanup looks at worker_thread_running, ...
mtk_bt_cleanup ==
    /\ stack \in {"open", "failed", "busy"} /\ ~rx
    /\ stack' = IF running THEN "notify" ELSE "join"
    /\ UNCHANGED <<setting, rx, sessions, cmd_status, addrVars, running, workVars, unread>>

\* ... tells the thread to end, which may just have ended, ...
notify_thread_exit ==
    /\ stack = "notify" /\ stack' = "join"
    /\ cmd_status' = "terminate"
    /\ UNCHANGED <<setting, rx, sessions, addrVars, running, workVars, unread>>

\* ... and joins it.
ThreadJoined ==
    /\ stack = "join" /\ wpc \in {"none", "exited"}
    /\ stack' = "closed" /\ wpc' = "none"
    /\ UNCHANGED <<setting, rx, sessions, cmd_status, addrVars, running, cur, sent, acked,
                   result, unread>>

-----------------------------------------------------------------------------
(* The worker thread, GORM_FW_Init_Thread.                                  *)

\* The script; the chip's own address is fetched if NVRAM has none.
BeginScript ==
    /\ wpc = "start"
    /\ IF chip = "none" THEN wpc' = "finish" ELSE wpc' = "loop"
    /\ fgGetEFUSE' = IF chip = "combo" THEN (fgGetEFUSE \/ addr = NotSet) ELSE fgGetEFUSE
    /\ cur' = IF chip = "combo" /\ ~fgGetEFUSE' THEN 2 ELSE 1
    /\ UNCHANGED <<setting, stackVars, cmd_status, addr, nvram, running, sent,
                   acked, result, unread>>

Work(pc) == wpc' = pc /\ UNCHANGED <<setting, stackVars, running, unread, sent, acked, result>>

\* The end of the script, or of the session.
EndOfLoop ==
    /\ wpc = "loop" /\ (cur > Len(Script) \/ cmd_status = "terminate")
    /\ Work("finish") /\ UNCHANGED <<cmd_status, addrVars, cur>>

SkipDebug ==
    /\ wpc = "loop" /\ cur <= Len(Script) /\ cmd_status # "terminate"
    /\ Script[cur] = "debug" /\ ~debug
    /\ cur' = cur + 1
    /\ Work("loop") /\ UNCHANGED <<cmd_status, addrVars>>

\* A buffer for the next command, or none.
AllocCommand ==
    /\ wpc = "loop" /\ cur <= Len(Script) /\ cmd_status # "terminate"
    /\ Script[cur] = "debug" => debug
    /\ \E pc \in {"arm", "finish"} : Work(pc)
    /\ UNCHANGED <<cmd_status, addrVars, cur>>

\* Mutant: the end of the session is not looked at again.
MarkPending_blind ==
    /\ wpc = "arm"
    /\ cmd_status' = "pending" /\ Work("send")
    /\ UNCHANGED <<addrVars, cur>>

\* Under the mutex: the end of the session is not overwritten.
MarkPending ==
    /\ wpc = "arm"
    /\ IF cmd_status # "terminate"
       THEN cmd_status' = "pending" /\ Work("send")
       ELSE UNCHANGED cmd_status /\ Work("finish")
    /\ UNCHANGED <<addrVars, cur>>

\* Mutant: the flag is left for the next session.
SetLocalAddr_keepsFlag ==
    /\ \/ addr = NotSet /\ addr' \in 1..MaxRandom
       \/ addr # NotSet /\ UNCHANGED addr
    /\ nvram' \in IF addr = NotSet \/ fgGetEFUSE THEN {nvram, addr'} ELSE {nvram}
    /\ UNCHANGED fgGetEFUSE

\* GORMcmd_HCC_Set_Local_BD_Addr: an address that is not set is generated; one
\* that is new is saved, which may fail.
SetLocalAddr ==
    /\ \/ addr = NotSet /\ addr' \in 1..MaxRandom
       \/ addr # NotSet /\ UNCHANGED addr
    /\ nvram' \in IF addr = NotSet \/ fgGetEFUSE THEN {nvram, addr'} ELSE {nvram}
    /\ fgGetEFUSE' = FALSE

\* The command goes out, or cannot be sent.
SendCommand ==
    /\ wpc = "send"
    /\ IF Script[cur] = "addr" THEN SetLocalAddr ELSE UNCHANGED addrVars
    /\ \E ok \in BOOLEAN : sent' = ok /\ wpc' = IF ok THEN "wait" ELSE "finish"
    /\ UNCHANGED <<setting, stackVars, cmd_status, running, cur, acked, result, unread>>

\* The event of the command: GORMevt_HCE_Common_Complete, and for the chip's
\* address GORMevt_HCE_Get_Local_BD_Addr, which stores what it finds either way.
CommandEvent ==
    /\ sent /\ rx /\ sent' = FALSE
    /\ \E ok \in BOOLEAN :
          /\ cmd_status' = IF ok THEN "success" ELSE "fail"
          /\ acked' = IF ok THEN acked \cup {cur} ELSE acked
    /\ addr' = IF Script[cur] = "get" THEN efuse ELSE addr
    /\ UNCHANGED <<setting, stackVars, fgGetEFUSE, nvram, running, wpc, cur,
                   result, unread>>

\* Mutant: an event that reports an error is taken for one that does not.
CommandDone_anyEvent ==
    /\ wpc = "wait" /\ cmd_status # "pending"
    /\ CASE cmd_status \in {"success", "fail"} ->
              cur' = cur + 1 /\ UNCHANGED cmd_status /\ Work("loop")
         [] OTHER -> cmd_status' = "success" /\ UNCHANGED cur /\ Work("finish")
    /\ UNCHANGED addrVars

\* pthread_cond_wait is over: the next command, or the end.
CommandDone ==
    /\ wpc = "wait" /\ cmd_status # "pending"
    /\ CASE cmd_status = "success" -> cur' = cur + 1 /\ UNCHANGED cmd_status /\ Work("loop")
         [] cmd_status = "fail" -> UNCHANGED <<cur, cmd_status>> /\ Work("finish")
         [] OTHER -> cmd_status' = "success" /\ UNCHANGED cur /\ Work("finish")
    /\ UNCHANGED addrVars

\* fwcfg_cb: success if the script was gone through.
ReportResult ==
    /\ wpc = "finish" /\ wpc' = "exiting"
    /\ result' = IF chip # "none" /\ cur > Len(Script) THEN "success" ELSE "fail"
    /\ UNCHANGED <<setting, stackVars, cmd_status, addrVars, running, cur, sent, acked, unread>>

ThreadExit ==
    /\ wpc = "exiting" /\ wpc' = "exited"
    /\ running' = FALSE
    /\ UNCHANGED <<setting, stackVars, cmd_status, addrVars, cur, sent, acked, result, unread>>

-----------------------------------------------------------------------------
Worker ==
    \/ BeginScript \/ EndOfLoop \/ SkipDebug \/ AllocCommand \/ MarkPending
    \/ SendCommand \/ CommandDone \/ ReportResult \/ ThreadExit

Closing == ThreadCreated \/ mtk_bt_cleanup \/ notify_thread_exit \/ ThreadJoined

Next ==
    \/ mtk_bt_init \/ mtk_fw_cfg \/ mtk_fw_cfg_fails \/ RxExit \/ Closing
    \/ Worker \/ CommandEvent

Spec == Init /\ [][Next]_btVars

\* The two threads run; nothing is asked of the controller.
Fairness == WF_btVars(Worker) /\ WF_btVars(Closing)

FairSpec == Spec /\ Fairness

-----------------------------------------------------------------------------
(* Properties.                                                             *)

TypeOK ==
    /\ chip \in DOMAIN Scripts /\ efuse \in Addresses
    /\ nvram \in Addresses /\ addr \in Addresses
    /\ cmd_status \in {"success", "fail", "pending", "terminate"}
    /\ stack \in {"closed", "open", "failed", "creating", "busy", "notify", "join"}
    /\ wpc \in {"none", "start", "loop", "arm", "send", "wait", "finish", "exiting", "exited"}
    /\ cur \in 1..5 /\ acked \subseteq 1..4 /\ result \in {"none", "success", "fail"}
    /\ fgGetEFUSE \in BOOLEAN /\ running \in BOOLEAN /\ rx \in BOOLEAN /\ sent \in BOOLEAN
    /\ unread \in BOOLEAN /\ debug \in BOOLEAN

\* The command was accepted in this session, or is one that may be left out: the
\* chip's address is only fetched where NVRAM has none (which is not remembered
\* once SetLocalAddr has saved one), debug commands only where they are asked for.
Settled(i) == i \in acked \/ Script[i] = "get" \/ (Script[i] = "debug" /\ ~debug)

\* The stack is told that the controller is set up only when every command of
\* the script that applies was accepted in this very session: not after an
\* error, an early end, or on the strength of an event of an earlier session.
SuccessMeansAll == result = "success" => \A i \in DOMAIN Script : Settled(i)

\* An address that NVRAM holds is never replaced, whatever sessions were broken
\* off before, as long as NVRAM can be read: one that cannot is taken for empty,
\* in this session and, through fgGetEFUSE, in a later one.
AddressKept ==
    [][nvram' # nvram /\ nvram # NotSet => unread]_btVars

\* mtk_bt_cleanup returns although the controller may never answer again: the
\* request to end is not lost between the worker's checks.
CleanupReturns == (stack = "join") ~> (stack = "closed")

\* "restore the global variable for next time": a session does not start with
\* the request to end of the one before.
NextTimeStarts == wpc = "start" /\ stack # "notify" /\ stack # "join" => cmd_status # "terminate"

-----------------------------------------------------------------------------
(* The inductive invariants.                                               *)

Busy == {"loop", "arm", "send", "wait"}

\* A worker runs only between set-up and join, and a stack that closes does
\* not receive.
StackSound ==
    /\ stack \in {"closed", "open", "failed"} => wpc = "none"
    /\ stack \in {"closed", "notify", "join"} => ~rx

\* A command waits for its event while the worker does, or after it gave up.
SentSound ==
    /\ sent => /\ cur \in DOMAIN Script /\ wpc \notin {"start", "loop", "arm", "send"}
               /\ stack \notin {"open", "failed"}
    /\ wpc = "send" => cmd_status \in {"pending", "terminate"}
    /\ wpc = "wait" /\ sent => cmd_status \in {"pending", "terminate"}

\* The worker goes on only after what was accepted.
WorkSound ==
    /\ wpc \in {"arm", "send", "wait"} => cur \in DOMAIN Script
    /\ wpc \in Busy \cup {"finish"} => \A i \in DOMAIN Script : i < cur => Settled(i)
    /\ wpc = "wait" /\ cmd_status = "success" => cur \in acked

\* With an address in NVRAM that could always be read, neither the flag nor the
\* working copy says otherwise, and the chip is not asked for its own.
AddressSound ==
    ~unread /\ nvram # NotSet =>
        /\ ~fgGetEFUSE
        /\ wpc \in Busy \cup {"start"} => addr # NotSet
        /\ (sent \/ wpc \in Busy) /\ cur \in DOMAIN Script => Script[cur] # "get"

BtInv ==
    TypeOK /\ StackSound /\ SentSound /\ WorkSound /\ SuccessMeansAll /\ AddressSound

=============================================================================
