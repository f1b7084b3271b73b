---------------------------- MODULE RilWakeLock -----------------------------
(***************************************************************************)
(* The partial wake lock of libril (hal/ril/libril/ril.cpp): taken for a   *)
(* message the framework has to acknowledge (grabPartialWakeLock), given   *)
(* up by the acknowledgement (releaseWakeLock) or by a timer that runs on  *)
(* the event loop thread (wakeTimeoutCallback), where a timer is cancelled *)
(* by a mark in its UserCallbackInfo.                                      *)
(*                                                                         *)
(* Vendor libraries of version 13 and later count the messages under       *)
(* s_wakeLockCountMutex; for older ones every message just takes the lock  *)
(* and arms a timer, without a mutex.  A UserCallbackInfo is identified    *)
(* with its address: once freed it may be handed out again.                *)
(***************************************************************************)
EXTENDS Integers, FiniteSets

CONSTANTS
    Threads,        \* threads that deliver messages or acknowledge them
    Loop,           \* the event loop thread
    Infos,          \* addresses a UserCallbackInfo can have
    NoInfo,         \* NULL
    NoThread,
    Reporter,       \* the one thread that reports events to an older library
    Builds,         \* the settings to look at, see build
    MaxGrabs        \* bound: messages that take the lock

ASSUME WakeLockAssumption ==
    /\ Loop \notin Threads /\ NoThread \notin Threads \cup {Loop}
    /\ NoInfo \notin Infos /\ Reporter \in Threads
    /\ Builds \subseteq {"usual", "noMemory", "unsigned", "legacy"}
    /\ MaxGrabs \in Nat

VARIABLES
    build,          \* the setting
    held,           \* the kernel's wake lock, which does not count
    count,          \* s_wakelock_count
    mutex,          \* owner of s_wakeLockCountMutex
    last,           \* s_last_wake_timeout_info
    live,           \* the UserCallbackInfos allocated
    cancelled,      \* those with userParam = 1
    armed,          \* those whose timer the event loop has not fired
    proxied,        \* those handed to the vendor's proxy thread
    pc, mine, seen, \* per thread: position, its new info, what it read from last
    loopPc, cur,    \* the thread that runs the callbacks, and its info
    stop,           \* userParam as wakeTimeoutCallback received it
    grabs           \* messages so far

infoVars == <<last, live, cancelled, armed, proxied>>
threadVars == <<pc, mine, seen>>
loopVars == <<loopPc, cur, stop>>
vars == <<build, held, count, mutex, infoVars, threadVars, loopVars, grabs>>

\* s_callbacksSocket.version >= 13
Version13 == build # "legacy"

\* calloc may fail.
MayFail == build \in {"noMemory", "legacy"}

\* The compiler made RILChannelId, which has no negative member, unsigned:
\* then -1 >= RIL_URC.
CidUnsigned == build = "unsigned"

Init ==
    /\ build \in Builds
    /\ held = FALSE /\ count = 0 /\ mutex = NoThread
    /\ last = NoInfo /\ live = {} /\ cancelled = {} /\ armed = {} /\ proxied = {}
    /\ pc = [t \in Threads |-> "idle"]
    /\ mine = [t \in Threads |-> NoInfo]
    /\ seen = [t \in Threads |-> NoInfo]
    /\ loopPc = "idle" /\ cur = NoInfo /\ stop = FALSE
    /\ grabs = 0

-----------------------------------------------------------------------------
(* s_wakeLockCountMutex, used from version 13 on.                          *)

Lock(t) == mutex = NoThread /\ mutex' = IF Version13 THEN t ELSE NoThread
Unlock == mutex' = NoThread

Go(t, from, to) == pc[t] = from /\ pc' = [pc EXCEPT ![t] = to]

-----------------------------------------------------------------------------
(* A message that takes the lock.                                          *)

\* grabPartialWakeLock up to acquire_wake_lock.
grabPartialWakeLock(t) ==
    /\ Version13 \/ t = Reporter
    /\ grabs < MaxGrabs                             \* bound
    /\ Cardinality(live) + Cardinality({u \in Threads : pc[u] = "arm"})
         < Cardinality(Infos)                       \* bound
    /\ grabs' = grabs + 1
    /\ Go(t, "idle", "arm")
    /\ Lock(t)
    /\ held' = TRUE
    /\ UNCHANGED <<count, infoVars, mine, seen, loopVars, build>>

\* internalRequestTimedCallback; then the previous timer is looked up.  An
\* older vendor library gets here after the message is delivered.
armTimeout(t) ==
    \E i \in Infos \ live :
        /\ Go(t, "arm", "cancel")
        /\ live' = live \cup {i} /\ armed' = armed \cup {i}
        /\ cancelled' = cancelled \ {i}
        /\ mine' = [mine EXCEPT ![t] = i]
        /\ seen' = [seen EXCEPT ![t] = last]
        /\ count' = IF Version13 THEN count + 1 ELSE count
        /\ UNCHANGED <<held, mutex, last, proxied, loopVars, grabs, build>>

\* calloc fails: the lock is released again.
armTimeoutFails(t) ==
    /\ MayFail
    /\ Go(t, "arm", "idle")
    /\ held' = FALSE
    /\ Unlock
    /\ UNCHANGED <<count, infoVars, mine, seen, loopVars, grabs, build>>

\* Mutant: the new info is published before the old one is cancelled.
replaceTimeout_swapped(t) ==
    /\ Go(t, "cancel", "idle")
    /\ cancelled' = cancelled \cup {mine[t]}
    /\ last' = mine[t]
    /\ Unlock
    /\ UNCHANGED <<held, count, live, armed, proxied, mine, seen, loopVars, grabs, build>>

\* "Cancel the previous request", which the loop thread may have freed.
replaceTimeout(t) ==
    /\ Go(t, "cancel", "idle")
    /\ cancelled' = cancelled \cup ({seen[t]} \ {NoInfo})
    /\ last' = mine[t]
    /\ Unlock
    /\ UNCHANGED <<held, count, live, armed, proxied, mine, seen, loopVars, grabs, build>>

-----------------------------------------------------------------------------
(* The framework acknowledges a message: responseAcknowledgement.          *)

\* releaseWakeLock for one of several messages: only the count goes down.
releaseOne(t) ==
    /\ Version13 /\ pc[t] = "idle" /\ mutex = NoThread
    /\ count > 1
    /\ count' = count - 1
    /\ UNCHANGED <<held, mutex, infoVars, threadVars, loopVars, grabs, build>>

\* releaseWakeLock for the last message: the lock goes, and its timer is
\* looked up to be cancelled.
releaseLast(t) ==
    /\ Version13 /\ count <= 1
    /\ Go(t, "idle", "release")
    /\ Lock(t)
    /\ count' = 0
    /\ held' = FALSE
    /\ seen' = [seen EXCEPT ![t] = last]
    /\ UNCHANGED <<infoVars, mine, loopVars, grabs, build>>

cancelLast(t) ==
    /\ Go(t, "release", "idle")
    /\ cancelled' = cancelled \cup ({seen[t]} \ {NoInfo})
    /\ Unlock
    /\ UNCHANGED <<held, count, last, live, armed, proxied, mine, seen, loopVars, grabs, build>>

\* releaseWakeLock for an older vendor library.
releaseUncounted(t) ==
    /\ ~Version13 /\ pc[t] = "idle"
    /\ held' = FALSE
    /\ UNCHANGED <<count, mutex, infoVars, threadVars, loopVars, grabs, build>>

-----------------------------------------------------------------------------
(* The timer's callback: userTimerCallback.  Where RILChannelId is signed   *)
(* the loop thread calls wakeTimeoutCallback, clears and frees; where it is *)
(* unsigned it hands the info to the vendor's enqueue and returns, and the  *)
(* vendor's proxy thread calls back and frees.                              *)

LoopGo(from, to) == loopPc = from /\ loopPc' = to

\* An older library's reporter, which has no mutex to keep the loop out,
\* stores its info within the TIMEVAL_WAKE_TIMEOUT of its timer.
Expire(i) ==
    /\ i \in armed
    /\ ~Version13 => ~\E t \in Threads : pc[t] = "cancel" /\ mine[t] = i
    /\ armed' = armed \ {i}

\* userParam is read as the callback's argument.
Call(i) ==
    /\ LoopGo("idle", "callback")
    /\ cur' = i
    /\ stop' = (i \in cancelled)

fireTimeout(i) ==
    /\ ~CidUnsigned
    /\ Expire(i) /\ Call(i)
    /\ UNCHANGED <<held, count, mutex, last, live, cancelled, proxied, threadVars, grabs, build>>

enqueueTimeout(i) ==
    /\ CidUnsigned
    /\ Expire(i)
    /\ proxied' = proxied \cup {i}
    /\ UNCHANGED <<held, count, mutex, last, live, cancelled, threadVars, loopVars, grabs, build>>

\* The vendor's proxy thread takes it.
proxyTimeout(i) ==
    /\ i \in proxied
    /\ proxied' = proxied \ {i}
    /\ Call(i)
    /\ UNCHANGED <<held, count, mutex, last, live, cancelled, armed, threadVars, grabs, build>>

\* Mutant: the lock is released and the count kept.
wakeTimeoutCallback_keepCount ==
    /\ LoopGo("callback", "check")
    /\ \/ stop /\ UNCHANGED held
       \/ ~stop /\ mutex = NoThread /\ held' = FALSE
    /\ UNCHANGED <<count, mutex, infoVars, threadVars, cur, stop, grabs, build>>

\* wakeTimeoutCallback: release, unless cancelled.
wakeTimeoutCallback ==
    /\ LoopGo("callback", "check")
    /\ \/ stop /\ UNCHANGED <<held, count>>
       \/ ~stop /\ mutex = NoThread /\ held' = FALSE
          /\ count' = IF Version13 THEN 0 ELSE count
    /\ UNCHANGED <<mutex, infoVars, threadVars, cur, stop, grabs, build>>

\* s_last_wake_timeout_info is compared and cleared without the mutex, and
\* not at all on the proxy thread.
checkLast ==
    /\ \/ CidUnsigned /\ LoopGo("check", "free")
       \/ ~CidUnsigned /\ last = cur /\ LoopGo("check", "clear")
       \/ ~CidUnsigned /\ last # cur /\ LoopGo("check", "free")
    /\ UNCHANGED <<held, count, mutex, infoVars, threadVars, cur, stop, grabs, build>>

\* Mutant: the info is freed and s_last_wake_timeout_info still points to it.
clearLast_forgotten ==
    /\ LoopGo("clear", "free")
    /\ UNCHANGED <<held, count, mutex, infoVars, threadVars, cur, stop, grabs, build>>

clearLast ==
    /\ LoopGo("clear", "free")
    /\ last' = NoInfo
    /\ UNCHANGED <<held, count, mutex, live, cancelled, armed, proxied, threadVars, cur, stop, grabs, build>>

freeInfo ==
    /\ LoopGo("free", "idle")
    /\ live' = live \ {cur}
    /\ cur' = NoInfo
    /\ UNCHANGED <<held, count, mutex, last, cancelled, armed, proxied, threadVars, stop, grabs, build>>

-----------------------------------------------------------------------------

ThreadStep(t) == armTimeout(t) \/ replaceTimeout(t) \/ cancelLast(t)
LoopStep ==
    \/ \E i \in Infos : fireTimeout(i) \/ enqueueTimeout(i) \/ proxyTimeout(i)
    \/ wakeTimeoutCallback \/ checkLast \/ clearLast \/ freeInfo

Next ==
    \/ \E t \in Threads :
         \/ ThreadStep(t)
         \/ grabPartialWakeLock(t)
         \/ armTimeoutFails(t)
         \/ releaseOne(t) \/ releaseLast(t) \/ releaseUncounted(t)
    \/ LoopStep

Spec == Init /\ [][Next]_vars

\* Fairness: a thread inside grab or release goes on, the mutex is handed
\* out, and the event loop fires its timers and runs their callbacks.  No
\* acknowledgement is ever promised.
FairSpec ==
    /\ Spec
    /\ \A t \in Threads : WF_vars(ThreadStep(t))
    /\ SF_vars(LoopStep)

-----------------------------------------------------------------------------
(* Properties.                                                             *)

\* Type correctness.
TypeOK ==
    /\ build \in Builds
    /\ held \in BOOLEAN /\ count \in Nat
    /\ mutex \in Threads \cup {NoThread}
    /\ last \in Infos \cup {NoInfo}
    /\ armed \cup proxied \subseteq live /\ live \subseteq Infos /\ cancelled \subseteq Infos
    /\ pc \in [Threads -> {"idle", "arm", "cancel", "release"}]
    /\ mine \in [Threads -> Infos \cup {NoInfo}]
    /\ seen \in [Threads -> Infos \cup {NoInfo}]
    /\ loopPc \in {"idle", "callback", "check", "clear", "free"}
    /\ cur \in Infos \cup {NoInfo} /\ stop \in BOOLEAN
    /\ grabs \in Nat

WillRelease(i) == (i \in armed \cup proxied /\ i \notin cancelled)
                  \/ (cur = i /\ loopPc = "callback" /\ ~stop)

\* The comment of send_unsolResponse: "as we exit we'll either release it
\* immediately or set a timer to release it later".
TimerSet ==
    held => \/ \E t \in Threads : pc[t] = "arm"
            \/ \E i \in Infos : WillRelease(i)

\* The phone is never kept awake for good: whenever the wake lock is held
\* and nobody is inside grabPartialWakeLock, a timer that was not cancelled
\* is still going to release it, whatever acknowledgements are lost and
\* allocations fail, where the timers run on the loop thread.
HeldHasTimeout == ~CidUnsigned => TimerSet

\* While messages are counted the wake lock is held: an acknowledgement or a
\* timeout of one message never puts the phone to sleep under another
\* (releaseWakeLock, wakeTimeoutCallback).  Only a failed allocation does
\* (grabPartialWakeLock).
CountedMeansHeld == count > 0 /\ ~MayFail => held

\* Once messages stop (the bound ends them) the lock is released for good,
\* although no acknowledgement need ever come: the timers see to it.
EventuallyReleased == <>[](held => CidUnsigned)

\* The pointer to the last timer never outlives its UserCallbackInfo, whose
\* address the next one may get: "if you track UserCAllbackInfo, clear it
\* when the callback occurs" (internalRequestTimedCallback).  A cancellation
\* through a stale pointer would cancel somebody else's timer.
LastIsLive == last # NoInfo /\ ~CidUnsigned => last \in live

\* The variables have their types, and s_last_wake_timeout_info is NULL or alive.
NothingDangles == TypeOK /\ LastIsLive

-----------------------------------------------------------------------------
(* What the safety properties rest on.                                     *)

\* The mutex belongs to the thread inside grab or release; an older library
\* has no mutex, and one thread that grabs.
OneInside ==
    \/ Version13 /\ \A t \in Threads : pc[t] # "idle" <=> mutex = t
    \/ /\ ~Version13 /\ mutex = NoThread
       /\ \A t \in Threads : pc[t] # "idle" => t = Reporter /\ pc[t] # "release"

\* The callback being run has an info of its own.
CallbackOwns ==
    /\ loopPc = "idle" <=> cur = NoInfo
    /\ cur # NoInfo => cur \in live /\ cur \notin armed \cup proxied
    /\ armed \cap proxied = {}
    /\ ~CidUnsigned => proxied = {}

\* A thread that has armed a timer and not published it: the timer is going
\* to release the lock, and it is not the one about to be cancelled.
NewTimerArmed ==
    \A t \in Threads : pc[t] = "cancel" =>
        /\ mine[t] \in Infos
        /\ ~CidUnsigned => WillRelease(mine[t]) /\ seen[t] # mine[t]
        /\ ~Version13 => mine[t] \in armed

\* The last timer is not the one about to be freed.
LastNotFreed == loopPc = "free" /\ ~CidUnsigned => last # cur

\* Inside grab the lock is held, inside release it is not.
HeldInside ==
    Version13 => \A t \in Threads :
        /\ pc[t] \in {"arm", "cancel"} => held
        /\ pc[t] = "release" => ~held

WakeInv ==
    /\ TypeOK /\ OneInside /\ CallbackOwns /\ NewTimerArmed
    /\ LastIsLive /\ LastNotFreed /\ HeldInside
    /\ HeldHasTimeout /\ CountedMeansHeld
=============================================================================
