---------------------------- MODULE RadioService ----------------------------
(***************************************************************************)
(* How rild calls back the telephony framework (hal/ril/libril, the        *)
(* callbacks of ril_service.cpp as ril.cpp uses them): modem threads       *)
(* deliver responses and indications through the registered callbacks      *)
(* under a reader lock; a failed call makes the caller forget the          *)
(* callbacks (checkReturnStatus) under the writer lock, guarded by a       *)
(* counter; the binder thread registers the callbacks of a new framework   *)
(* process (setResponseFunctions).                                         *)
(*                                                                         *)
(* All slots share one lock (getRadioServiceRwlock).  As in bionic it      *)
(* prefers readers and does not know them: an unlock takes off one reader, *)
(* whoever it was, and with no reader it fails, which an assert checks.    *)
(***************************************************************************)
EXTENDS Integers, Sequences, FiniteSets

CONSTANTS
    Modem,          \* vendor threads that complete requests or report events
    Binder,         \* the one binder thread (configureRpcThreadpool(1))
    NoThread,
    Slots,
    Asserts,        \* whether assert is compiled in (it is not with NDEBUG)
    MaxCalls,       \* bound: deliveries started by modem or binder threads
    MaxProcs        \* bound: incarnations of the framework process

Threads == Modem \cup {Binder}
AnySlot == CHOOSE s \in Slots : TRUE    \* of a thread that is idle
None == 0           \* mRadioResponse == NULL; a client is its incarnation

ASSUME RadioAssumption ==
    /\ Binder \notin Modem /\ NoThread \notin Threads
    /\ IsFiniteSet(Modem) /\ Slots # {}
    /\ Asserts \in BOOLEAN
    /\ MaxCalls \in Nat /\ MaxProcs \in Nat \ {0}

VARIABLES
    proc, up,       \* the framework: its incarnation, and whether it lives
    client,         \* per slot, the incarnation mRadioResponse belongs to
    counter,        \* mCounterRadio
    readers, writer,\* radioServiceRwlock
    pc,             \* where each thread is
    slot,           \* the slot it works for
    calls,          \* its callbacks to come; TRUE: called under rdlock
    note,           \* the counter checkReturnStatus noted
    caller,         \* the process that called setResponseFunctions
    aborted,        \* an assert has ended rild
    misused,        \* history: checkReturnStatus was called without the rdlock
    work            \* deliveries so far

lockVars == <<readers, writer>>
clientVars == <<proc, up>>
vars == <<clientVars, client, counter, lockVars, pc, slot, calls, note, caller, aborted, misused, work>>

Init ==
    /\ proc = 1 /\ up = TRUE
    /\ client = [s \in Slots |-> None]
    /\ counter = [s \in Slots |-> 0]
    /\ readers = 0 /\ writer = NoThread
    /\ pc = [t \in Threads |-> "idle"]
    /\ slot = [t \in Threads |-> AnySlot]
    /\ calls = [t \in Threads |-> <<>>]
    /\ note = [t \in Threads |-> 0] /\ caller = None
    /\ aborted = FALSE /\ misused = FALSE /\ work = 0

Alive(c) == up /\ c = proc
Go(t, from, to) == ~aborted /\ pc[t] = from /\ pc' = [pc EXCEPT ![t] = to]

-----------------------------------------------------------------------------
(* The framework process.                                                  *)

Dies ==
    /\ up
    /\ up' = FALSE
    /\ UNCHANGED <<proc, client, counter, lockVars, pc, slot, calls, note, caller, aborted, misused, work>>

Restarts ==
    /\ ~up /\ proc < MaxProcs
    /\ proc' = proc + 1 /\ up' = TRUE
    /\ UNCHANGED <<client, counter, lockVars, pc, slot, calls, note, caller, aborted, misused, work>>

-----------------------------------------------------------------------------
(* What starts a delivery.                                                 *)

Begin(t, s, cs) ==
    /\ slot' = [slot EXCEPT ![t] = s]
    /\ calls' = [calls EXCEPT ![t] = cs]

\* RIL_onRequestComplete, RIL_onRequestAck or send_unsolResponse, on a vendor
\* thread.
deliver(t, s) ==
    /\ work < MaxCalls                                          \* bound
    /\ work' = work + 1
    /\ Go(t, "idle", "begin")
    /\ Begin(t, s, <<TRUE>>)
    /\ UNCHANGED <<clientVars, client, counter, lockVars, note, caller, aborted, misused>>

\* A RadioImpl method cannot dispatch its request: the response function is
\* called on the binder thread, without the lock.
sendErrorResponse(s) ==
    /\ up
    /\ work < MaxCalls                                          \* bound
    /\ work' = work + 1
    /\ Go(Binder, "idle", "begin")
    /\ Begin(Binder, s, <<FALSE>>)
    /\ UNCHANGED <<clientVars, client, counter, lockVars, note, caller, aborted, misused>>

\* What onNewCommandConnect sends: RIL_CONNECTED and RADIO_STATE_CHANGED, and
\* the cached NITZ data (resendLastNITZTimeData), which takes no lock.
connectCalls == {<<TRUE, TRUE>>, <<TRUE, TRUE, FALSE>>}

\* The new framework process calls setResponseFunctions.
setResponseFunctions(s) ==
    /\ up /\ client[s] # proc
    /\ Go(Binder, "idle", "register")
    /\ \E cs \in connectCalls : Begin(Binder, s, cs)
    /\ caller' = proc
    /\ UNCHANGED <<clientVars, client, counter, lockVars, note, aborted, misused, work>>

\* pthread_rwlock_wrlock; a dead caller's transaction still runs.
registerLock ==
    /\ Go(Binder, "register", "store")
    /\ writer = NoThread /\ readers = 0
    /\ writer' = Binder
    /\ UNCHANGED <<clientVars, client, counter, readers, slot, calls, note, caller, aborted, misused, work>>

storeCallbacks ==
    /\ Go(Binder, "store", "count")
    /\ client' = [client EXCEPT ![slot[Binder]] = caller]
    /\ caller' = None
    /\ UNCHANGED <<clientVars, counter, lockVars, slot, calls, note, aborted, misused, work>>

\* mCounterRadio++, unlock; then the initial indications.
countUpdate ==
    /\ Go(Binder, "count", "begin")
    /\ counter' = [counter EXCEPT ![slot[Binder]] = @ + 1]
    /\ writer' = NoThread
    /\ UNCHANGED <<clientVars, client, readers, slot, calls, note, caller, aborted, misused, work>>

-----------------------------------------------------------------------------
(* One callback.                                                           *)

rdlock(t) ==
    /\ Go(t, "begin", "call")
    /\ Head(calls[t]) => writer = NoThread
    /\ readers' = IF Head(calls[t]) THEN readers + 1 ELSE readers
    /\ UNCHANGED <<clientVars, client, counter, writer, slot, calls, note, caller, aborted, misused, work>>

\* The response or indication function: nothing to call, or a call that
\* arrives.
callback(t) ==
    /\ Go(t, "call", "end")
    /\ client[slot[t]] = None \/ Alive(client[slot[t]])
    /\ UNCHANGED <<clientVars, client, counter, lockVars, slot, calls, note, caller, aborted, misused, work>>

callbackFails(t) ==
    /\ Go(t, "call", "failed")
    /\ client[slot[t]] # None /\ ~Alive(client[slot[t]])
    /\ UNCHANGED <<clientVars, client, counter, lockVars, slot, calls, note, caller, aborted, misused, work>>

\* checkReturnStatus: the counter is noted, then "Caller should already hold
\* rdlock, release that first".
releaseFirst(t) ==
    /\ Go(t, "failed", "reset")
    /\ note' = [note EXCEPT ![t] = counter[slot[t]]]
    /\ readers' = IF readers > 0 THEN readers - 1 ELSE 0
    /\ aborted' = (Asserts /\ readers = 0)
    /\ misused' = (misused \/ ~Head(calls[t]))
    /\ UNCHANGED <<clientVars, client, counter, writer, slot, calls, caller, work>>

resetLock(t) ==
    /\ Go(t, "reset", "resetLocked")
    /\ writer = NoThread /\ readers = 0
    /\ writer' = t
    /\ UNCHANGED <<clientVars, client, counter, readers, slot, calls, note, caller, aborted, misused, work>>

\* Mutant: the counter is not looked at.
resetCallbacks_always(t) ==
    LET s == slot[t] IN
    /\ Go(t, "resetLocked", "reacquire")
    /\ client' = [client EXCEPT ![s] = None]
    /\ counter' = [counter EXCEPT ![s] = @ + 1]
    /\ writer' = NoThread /\ note' = [note EXCEPT ![t] = 0]
    /\ UNCHANGED <<clientVars, readers, slot, calls, caller, aborted, misused, work>>

\* Reset unless the counter changed; unlock.
resetCallbacks(t) ==
    LET s == slot[t] IN
    /\ Go(t, "resetLocked", "reacquire")
    /\ IF note[t] = counter[s]
         THEN /\ client' = [client EXCEPT ![s] = None]
              /\ counter' = [counter EXCEPT ![s] = @ + 1]
         ELSE UNCHANGED <<client, counter>>
    /\ writer' = NoThread /\ note' = [note EXCEPT ![t] = 0]
    /\ UNCHANGED <<clientVars, readers, slot, calls, caller, aborted, misused, work>>

\* Mutant: the rdlock is not taken again for the caller to release.
reacquire_forgotten(t) ==
    /\ Go(t, "reacquire", "end")
    /\ writer = NoThread
    /\ UNCHANGED <<clientVars, client, counter, lockVars, slot, calls, note, caller, aborted, misused, work>>

\* "Reacquire rdlock".
reacquire(t) ==
    /\ Go(t, "reacquire", "end")
    /\ writer = NoThread
    /\ readers' = readers + 1
    /\ UNCHANGED <<clientVars, client, counter, writer, slot, calls, note, caller, aborted, misused, work>>

\* Mutant: one callback too many.
NextCall_offByOne(t) ==
    /\ Go(t, "end", IF Len(calls[t]) > 0 THEN "begin" ELSE "idle")
    /\ calls' = [calls EXCEPT ![t] = Tail(@)]
    /\ slot' = slot

\* The next initial indication, or the thread is done.
NextCall(t) ==
    /\ Go(t, "end", IF Len(calls[t]) > 1 THEN "begin" ELSE "idle")
    /\ calls' = [calls EXCEPT ![t] = Tail(@)]
    /\ slot' = [slot EXCEPT ![t] = IF Len(calls[t]) > 1 THEN @ ELSE AnySlot]

\* Mutant: the reader lock is kept after the last callback.
finish_keepsLock(t) ==
    /\ NextCall(t)
    /\ UNCHANGED <<clientVars, client, counter, lockVars, note, caller, aborted, misused, work>>

\* The caller of the response function unlocks, if it locked.
finish(t) ==
    /\ NextCall(t)
    /\ IF Head(calls[t])
         THEN /\ readers' = IF readers > 0 THEN readers - 1 ELSE 0
              /\ aborted' = (Asserts /\ readers = 0)
         ELSE UNCHANGED <<readers, aborted>>
    /\ UNCHANGED <<clientVars, client, counter, writer, note, caller, misused, work>>

-----------------------------------------------------------------------------

Step(t) ==
    \/ rdlock(t) \/ callback(t) \/ callbackFails(t)
    \/ releaseFirst(t) \/ resetLock(t) \/ resetCallbacks(t) \/ reacquire(t)
    \/ finish(t)

BinderStep == registerLock \/ storeCallbacks \/ countUpdate

Next ==
    \/ Dies \/ Restarts
    \/ \E t \in Modem, s \in Slots : deliver(t, s)
    \/ \E s \in Slots : sendErrorResponse(s) \/ setResponseFunctions(s)
    \/ BinderStep
    \/ \E t \in Threads : Step(t)

Spec == Init /\ [][Next]_vars

\* Fairness: threads run, and a new framework process registers.  Deliveries
\* and deaths of the framework are never owed.
FairSpec ==
    /\ Spec
    /\ \A t \in Threads : WF_vars(Step(t))
    /\ WF_vars(BinderStep)
    /\ \A s \in Slots : SF_vars(setResponseFunctions(s))

-----------------------------------------------------------------------------
(* Properties.                                                             *)

Holding == {t \in Threads : pc[t] \in {"call", "failed", "end"} /\ Head(calls[t])}
Writing == {t \in Threads : pc[t] \in {"store", "count", "resetLocked"}}

Places == {"idle", "register", "store", "count", "begin", "call",
           "failed", "reset", "resetLocked", "reacquire", "end"}

\* Type correctness.
TypeOK ==
    /\ proc \in 1 .. MaxProcs /\ up \in BOOLEAN
    /\ client \in [Slots -> 0 .. MaxProcs] /\ counter \in [Slots -> Nat]
    /\ readers \in Nat /\ writer \in Threads \cup {NoThread}
    /\ pc \in [Threads -> Places]
    /\ slot \in [Threads -> Slots] /\ calls \in [Threads -> Seq(BOOLEAN)]
    /\ \A t \in Threads : calls[t] = <<>> <=> pc[t] = "idle"
    /\ note \in [Threads -> Nat] /\ caller \in 0 .. MaxProcs
    /\ aborted \in BOOLEAN /\ misused \in BOOLEAN /\ work \in Nat

\* checkReturnStatus has given back a rdlock that its caller never took.
Overdrawn ==
    /\ pc[Binder] \in {"reset", "resetLocked", "reacquire"}
    /\ ~Head(calls[Binder])

\* The hand-over of the lock between a caller and checkReturnStatus balances
\* as long as every caller holds the rdlock: the lock counts exactly the
\* threads that are inside a callback, and no assert of an unlock fails.
\* When a caller did not hold it, the lock misses at most one reader, and
\* only until checkReturnStatus has taken it again; no two threads ever
\* change the callbacks at once, nor does a counted reader use them then.
LockBalanced ==
    /\ Writing = {t \in Threads : writer = t}
    /\ writer # NoThread => readers = 0
    /\ Cardinality(Holding) <= readers + 1
    /\ ~Overdrawn => Cardinality(Holding) <= readers
    /\ ~misused => readers = Cardinality(Holding) /\ ~Overdrawn /\ ~aborted

\* checkReturnStatus forgets only dead clients: a failed call to the previous
\* process never takes the callbacks of the next one away, however long its
\* thread waited for the writer lock, and even where the lock was not held
\* ("note the current counter to avoid overwriting updates made by another
\* thread before write lock is acquired").
FreshClientKept ==
    [][\A s \in Slots : client[s] # None /\ client'[s] = None => ~Alive(client[s])]_vars

\* Only the binder thread makes calls without the rdlock: error responses and
\* the cached NITZ data.
ModemLocks == \A t \in Modem : calls[t] \in {<<>>, <<TRUE>>}

\* What FreshClientKept rests on: a thread that is going to reset a client it
\* has noted the counter of, and that no registration has passed since, finds
\* the client it failed to call or none; a registration that has stored its
\* callbacks but not counted them yet still holds the writer lock.
CalleeGone(t) == client[slot[t]] = None \/ ~Alive(client[slot[t]])
OnlyTheDeadNoted ==
    /\ \A s \in Slots : client[s] <= proc
    /\ caller <= proc
    /\ pc[Binder] \in {"register", "store"} => caller # None
    /\ \A t \in Threads : pc[t] = "failed" => CalleeGone(t)
    /\ \A t \in Threads : pc[t] \in {"reset", "resetLocked"} =>
         /\ note[t] <= counter[slot[t]]
         /\ \/ note[t] # counter[slot[t]]
            \/ pc[Binder] = "count" /\ slot[Binder] = slot[t]
            \/ CalleeGone(t)

\* The framework, once it stops dying, is connected in every slot and stays
\* so, as long as every caller of checkReturnStatus holds the rdlock.
EventuallyConnected ==
    <>[](up /\ ~misused => \A s \in Slots : client[s] = proc)

\* "When the client process is back up, it will call setResponseFunctions()"
\* (checkReturnStatus), and then it is served: every registration that
\* reaches rild ends with the callbacks stored, unless rild aborts.
Reconnects == (pc[Binder] = "register") ~> (pc[Binder] # "register" \/ aborted)
=============================================================================
