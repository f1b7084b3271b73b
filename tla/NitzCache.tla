----------------------------- MODULE NitzCache ------------------------------
(***************************************************************************)
(* The network time (NITZ) messages of the modem: send_unsolResponse of    *)
(* hal/ril/libril/ril.cpp keeps the last one that could not be delivered   *)
(* in s_lastNITZTimeData, and resendLastNITZTimeData delivers it to the    *)
(* next client.  One vendor thread reports NITZ messages, the binder       *)
(* thread connects clients; nothing but the rwlock of the callbacks is     *)
(* between them, and all slots share the one cache.                        *)
(*                                                                         *)
(* The locking of the callbacks is the subject of RadioService; here a     *)
(* callback is one step.                                                   *)
(***************************************************************************)
EXTENDS Integers, Sequences

CONSTANTS
    Slots,
    Settings,       \* the settings to look at, see setting: a subset of
                    \* {"single", "dual", "dying", "faulty"}
    MaxNitz,        \* bound: NITZ messages the modem sends
    MaxConnects     \* bound: calls of setResponseFunctions

None == 0           \* NULL; a NITZ message is its number

VARIABLES
    setting,        \* what may happen, see below
    client,         \* per slot: "null", "alive" or "dead" callbacks
    cache,          \* s_lastNITZTimeData
    received,       \* messages that have arrived
    unsol,          \* the vendor thread: [pc, slot, ret]
    binder,         \* the binder thread: [pc, slot]
    log,            \* the messages clients were told, in order
    connects

vars == <<setting, client, cache, received, unsol, binder, log, connects>>

\* The slots with a SIM.
InUse == IF setting \in {"dual", "faulty"} THEN Slots ELSE {CHOOSE s \in Slots : TRUE}

\* The framework process may die.
MayDie == setting \in {"dying", "faulty"}

\* calloc may fail.
MayFail == setting = "faulty"

\* A delivery takes less than the sleep(1) of onNewCommandConnect.
Prompt == setting # "faulty"

Init ==
    /\ setting \in Settings
    /\ client = [s \in Slots |-> "null"]
    /\ cache = None
    /\ received = 0
    /\ \E s \in InUse : unsol = [pc |-> "idle", slot |-> s, ret |-> 0]
                        /\ binder = [pc |-> "idle", slot |-> s]
    /\ log = <<>>
    /\ connects = 0

-----------------------------------------------------------------------------
(* nitzTimeReceivedInd(slot, message): -1 when there are no callbacks.  A    *)
(* call to a dead process resets the callbacks (checkReturnStatus) and       *)
(* still returns 0.  The time told with the message is left out.             *)

nitzTimeReceivedInd(s) == IF client[s] = "null" THEN -1 ELSE 0

Deliver(s, n) ==
    /\ log' = IF client[s] = "alive" THEN Append(log, n) ELSE log
    /\ client' = IF client[s] = "dead" THEN [client EXCEPT ![s] = "null"] ELSE client

-----------------------------------------------------------------------------
(* The vendor thread: send_unsolResponse for RIL_UNSOL_NITZ_TIME_RECEIVED.  *)

sendUnsol(s) ==
    /\ received < MaxNitz                                         \* bound
    /\ unsol.pc = "idle"
    /\ received' = received + 1
    /\ unsol' = [pc |-> "call", slot |-> s, ret |-> 0]
    /\ UNCHANGED <<setting, client, cache, binder, log, connects>>

sendUnsolCall ==
    /\ unsol.pc = "call"
    /\ Deliver(unsol.slot, received)
    /\ unsol' = [unsol EXCEPT !.pc = "check", !.ret = nitzTimeReceivedInd(unsol.slot)]
    /\ UNCHANGED <<setting, cache, received, binder, connects>>

\* ret != 0: "keep a copy of the last NITZ response"; the old copy is freed
\* first.
sendUnsolDrop ==
    /\ unsol.pc = "check"
    /\ unsol' = [unsol EXCEPT !.pc = IF unsol.ret = 0 THEN "idle" ELSE "keep"]
    /\ cache' = IF unsol.ret = 0 THEN cache ELSE None
    /\ UNCHANGED <<setting, client, received, binder, log, connects>>

\* With no memory for the new copy there is none.
sendUnsolKeep ==
    /\ unsol.pc = "keep"
    /\ unsol' = [unsol EXCEPT !.pc = "idle"]
    /\ cache' \in {received} \cup (IF MayFail THEN {None} ELSE {})
    /\ UNCHANGED <<setting, client, received, binder, log, connects>>

-----------------------------------------------------------------------------
(* The binder thread: setResponseFunctions, onNewCommandConnect.            *)

setResponseFunctions(s) ==
    /\ connects < MaxConnects                                   \* bound
    /\ binder.pc = "idle" /\ client[s] # "alive"
    /\ connects' = connects + 1
    /\ client' = [client EXCEPT ![s] = "alive"]
    /\ binder' = [pc |-> "sleep", slot |-> s]
    /\ UNCHANGED <<setting, cache, received, unsol, log>>

\* sleep(1), until gsm.ril.init is "1"; RIL_CONNECTED and
\* RADIO_STATE_CHANGED follow.
onNewCommandConnect ==
    /\ binder.pc = "sleep"
    /\ Prompt => unsol.pc = "idle"
    /\ binder' = [binder EXCEPT !.pc = "resend"]
    /\ UNCHANGED <<setting, client, cache, received, unsol, log, connects>>

resendLastNITZTimeData ==
    /\ binder.pc = "resend"
    /\ IF cache = None
         THEN /\ binder' = [binder EXCEPT !.pc = "idle"]
              /\ UNCHANGED <<log, client>>
         ELSE /\ Deliver(binder.slot, cache)
              /\ binder' = [binder EXCEPT !.pc =
                              IF nitzTimeReceivedInd(binder.slot) = 0 THEN "free" ELSE "idle"]
    /\ UNCHANGED <<setting, cache, received, unsol, connects>>

\* Mutant: the copy is freed only when the next message replaces it.
resendFree_kept ==
    /\ binder.pc = "free"
    /\ binder' = [binder EXCEPT !.pc = "idle"]
    /\ UNCHANGED <<setting, client, cache, received, unsol, log, connects>>

\* ret == 0: the copy is freed, which may be a newer one by now.
resendFree ==
    /\ binder.pc = "free"
    /\ binder' = [binder EXCEPT !.pc = "idle"]
    /\ cache' = None
    /\ UNCHANGED <<setting, client, received, unsol, log, connects>>

-----------------------------------------------------------------------------

\* The framework process dies.
ClientDies ==
    /\ MayDie
    /\ \E s \in Slots : client[s] = "alive"
    /\ client' = [s \in Slots |-> IF client[s] = "alive" THEN "dead" ELSE client[s]]
    /\ UNCHANGED <<setting, cache, received, unsol, binder, log, connects>>

UnsolStep == sendUnsolCall \/ sendUnsolDrop \/ sendUnsolKeep
BinderStep == onNewCommandConnect \/ resendLastNITZTimeData \/ resendFree

Next ==
    \/ \E s \in InUse : sendUnsol(s) \/ setResponseFunctions(s)
    \/ UnsolStep \/ BinderStep
    \/ ClientDies

Spec == Init /\ [][Next]_vars

\* Fairness: both threads run, and a client that is not connected connects.
FairSpec ==
    /\ Spec
    /\ WF_vars(UnsolStep) /\ WF_vars(BinderStep)
    /\ \A s \in Slots : WF_vars(s \in InUse /\ setResponseFunctions(s))

-----------------------------------------------------------------------------
(* Properties.                                                             *)

Messages == 1 .. MaxNitz
Delivered(n) == \E i \in 1 .. Len(log) : log[i] = n

\* Type correctness; what is kept or told is a message that arrived.
TypeOK ==
    /\ setting \in Settings
    /\ client \in [Slots -> {"null", "alive", "dead"}]
    /\ received \in 0 .. MaxNitz
    /\ cache \in 0 .. received
    /\ unsol \in [pc : {"idle", "call", "check", "keep"}, slot : Slots, ret : {0, -1}]
    /\ binder \in [pc : {"idle", "sleep", "resend", "free"}, slot : Slots]
    /\ log \in Seq(1 .. received)
    /\ connects \in 0 .. MaxConnects

\* A message is told once: what was delivered directly is not kept, and what
\* was resent is forgotten (resendLastNITZTimeData), in any interleaving of
\* the two threads and whichever slots are involved.
DeliveredOnce ==
    \A i, j \in 1 .. Len(log) : log[i] = log[j] => i = j

\* A message that found no client is told to the next one, unless a newer
\* one is (send_unsolResponse: "keep a copy of the last NITZ response ...
\* around so we can deliver it when it is connected"), where deliveries are
\* prompt and nothing fails.
MissedIsDelivered ==
    \A n \in Messages :
        (setting \in {"single", "dual"} /\ received = n /\ unsol.pc = "keep")
            ~> \E m \in n .. MaxNitz : Delivered(m)

-----------------------------------------------------------------------------
(* The inductive invariant of DeliveredOnce.                               *)

\* A message on its way through the vendor thread is newer than what is kept
\* and what was told.
OnItsWay == unsol.pc = "call" \/ (unsol.pc = "check" /\ unsol.ret = -1) \/ unsol.pc = "keep"
NewestIsNew == OnItsWay => cache < received /\ ~Delivered(received)

\* What is kept has not been told, unless it is just about to be freed.
KeptIsUntold == binder.pc # "free" => ~Delivered(cache)

NitzInv == TypeOK /\ DeliveredOnce /\ NewestIsNew /\ KeptIsUntold
=============================================================================
