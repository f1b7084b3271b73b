------------------------------ MODULE RilEvent ------------------------------
(***************************************************************************)
(* The event loop of libril (hal/ril/libril/ril_event.cpp) and the parts   *)
(* of ril.cpp that start it and wake it up: a table of watched file        *)
(* descriptors, a sorted list of timers, a list of events about to be      *)
(* fired, one loop thread and any number of client threads.                *)
(*                                                                         *)
(* A critical section of listMutex that does one thing is one step; the    *)
(* two walks the loop makes under the mutex (processTimeouts and           *)
(* processReadReadies) are one step per list element, during which the     *)
(* clients wait (see Locked).  What the loop reads without the mutex is    *)
(* read in steps of its own, and a racing read may see any of the values   *)
(* the writer leaves on the way.                                           *)
(***************************************************************************)
EXTENDS Integers, Sequences, FiniteSets

CONSTANTS
    Clients,        \* threads that call the library, other than the loop
    Loop,           \* the thread s_tid_dispatch
    Timers,         \* struct ril_event objects used as timers
    Watches,        \* struct ril_event objects with a file descriptor
    Wake,           \* s_wakeupfd_event, one of the Watches
    Fd,             \* the descriptor of a watch
    Persist,        \* the watches set up with persist = true
    NoEvent,        \* NULL
    MAX_FD_EVENTS,  \* slots of watch_table
    Delays,         \* relative times clients pass to ril_timer_add
    MaxNow          \* bound: the clock stops here

Events == Timers \cup Watches
Slots == 0 .. MAX_FD_EVENTS - 1
Threads == Clients \cup {Loop}
NoTimeout == -1     \* ptv == NULL: select blocks indefinitely

ASSUME ThreadsAssumption == Loop \notin Clients
ASSUME EventsAssumption ==
    /\ NoEvent \notin Events
    /\ Timers \cap Watches = {}
    /\ Wake \in Watches
    /\ Wake \in Persist
    /\ Persist \subseteq Watches
ASSUME FdAssumption ==
    /\ Fd \in [Watches -> Nat]
    /\ \A v, w \in Watches : Fd[v] = Fd[w] => v = w
ASSUME BoundsAssumption ==
    /\ MAX_FD_EVENTS \in Nat \ {0}
    /\ MaxNow \in Nat
    /\ Delays \subseteq Nat

VARIABLES
    loop,           \* where the loop thread is
    now,            \* CLOCK_MONOTONIC
    watch_table,    \* slot -> event or NoEvent
    index,          \* ev->index
    readFds,        \* the shared fd_set
    nfds,
    timer_list,     \* the sorted timers, as a sequence
    timeout,        \* ev->timeout
    pending_list,   \* the events firePending will run, as a sequence
    rfds,           \* the loop's copy of readFds, then select's answer
    deadline,       \* when the select in progress times out
    walkNow,        \* the clock value processTimeouts sampled
    scan,           \* the slot processReadReadies looks at
    cur,            \* the event whose callback is running
    ready,          \* descriptors with something to read
    adding          \* what a client has added and not yet triggered

tableVars == <<watch_table, index, readFds, nfds>>
timerVars == <<timer_list, timeout>>
loopVars == <<rfds, deadline, walkNow, scan, cur>>
vars == <<loop, now, tableVars, timerVars, pending_list, loopVars, ready, adding>>

LoopStates ==
    {"unstarted", "pipe", "copy", "calc", "select", "returned", "timeouts",
     "walked", "readies", "fire", "callback", "killed", "ended"}

OnList(e, list) == \E i \in 1 .. Len(list) : list[i] = e

\* The mutex is held by the loop thread during its two walks.
Locked == loop \in {"timeouts", "readies"}

Running == loop \notin {"unstarted", "killed"}
PipeOpen == loop \notin {"unstarted", "pipe", "killed", "ended"}

-----------------------------------------------------------------------------

\* The process before eventLoop runs: static storage is zero.
Init ==
    /\ loop = "unstarted"
    /\ now = 0
    /\ watch_table = [i \in Slots |-> NoEvent]
    /\ index = [e \in Events |-> -1]
    /\ readFds = {}
    /\ nfds = 0
    /\ timer_list = <<>>
    /\ timeout = [t \in Timers |-> 0]
    /\ pending_list = <<>>
    /\ rfds = {}
    /\ deadline = NoTimeout
    /\ walkNow = 0
    /\ scan = 0
    /\ cur = NoEvent
    /\ ready = {}
    /\ adding = [c \in Clients |-> NoEvent]

-----------------------------------------------------------------------------
(* The watch table and the timer list, changed under listMutex.            *)

\* Mutant: the top descriptor itself, and -1 with none left.
recomputeNfds_noPlus(fds) ==
    \E n \in fds \cup {-1} : (\A m \in fds : m <= n) /\ nfds' = n

\* nfds is recomputed, from 0, when the top descriptor goes.
recomputeNfds(fds) ==
    \E n \in fds \cup {0} : (\A m \in fds : m <= n) /\ nfds' = n + 1

removeWatch(w, i) ==
    /\ watch_table' = [watch_table EXCEPT ![i] = NoEvent]
    /\ index' = [index EXCEPT ![w] = -1]
    /\ readFds' = readFds \ {Fd[w]}
    /\ \/ /\ Fd[w] + 1 # nfds
          /\ UNCHANGED nfds
       \/ /\ Fd[w] + 1 = nfds
          /\ LET left == {j \in Slots \ {i} : watch_table[j] # NoEvent}
             IN  recomputeNfds({Fd[watch_table[j]] : j \in left})

\* ril_event_add takes the first free slot; with none the event is dropped.
addWatch(w) ==
    LET free == {i \in Slots : watch_table[i] = NoEvent}
    IN  \/ /\ free = {}
           /\ UNCHANGED tableVars
        \/ \E i \in free :
             /\ \A j \in free : i <= j
             /\ watch_table' = [watch_table EXCEPT ![i] = w]
             /\ index' = [index EXCEPT ![w] = i]
             /\ readFds' = readFds \cup {Fd[w]}
             /\ nfds' = IF Fd[w] >= nfds THEN Fd[w] + 1 ELSE nfds

\* Insert t behind the first k timers.
insertTimer(list, k, t) ==
    [i \in 1 .. Len(list) + 1 |->
        IF i <= k THEN list[i] ELSE IF i = k + 1 THEN t ELSE list[i - 1]]

\* Mutant: new timers go to the end.
insertionPoint_append(list, k, when) == k = Len(list)

\* The walk of ril_timer_add stops at the first timer that is not earlier.
insertionPoint(list, k, when) ==
    /\ \A i \in 1 .. k : timeout[list[i]] < when
    /\ k < Len(list) => timeout[list[k + 1]] >= when

-----------------------------------------------------------------------------
(* Calls of the library.  The loop thread calls it from a callback, where  *)
(* triggerEvLoop does nothing; any other thread triggers the loop in a     *)
(* step of its own.                                                        *)

MayCall(a) ==
    \/ a = Loop /\ loop = "callback"
    \/ a \in Clients /\ Running /\ ~Locked /\ adding[a] = NoEvent

\* Mutant: nobody wakes the loop.
ThenTrigger_forgotten(a, e) == UNCHANGED adding

ThenTrigger(a, e) ==
    adding' = IF a = Loop THEN adding ELSE [adding EXCEPT ![a] = e]

\* ril_timer_add of a fresh UserCallbackInfo (internalRequestTimedCallback).
ril_timer_add(a, t, tv) ==
    /\ MayCall(a)
    /\ ~OnList(t, timer_list) /\ ~OnList(t, pending_list) /\ cur # t
    /\ now + tv < MaxNow                            \* bound
    /\ timeout' = [timeout EXCEPT ![t] = now + tv]
    /\ \E k \in 0 .. Len(timer_list) :
         /\ insertionPoint(timer_list, k, now + tv)
         /\ timer_list' = insertTimer(timer_list, k, t)
    /\ ThenTrigger(a, t)
    /\ UNCHANGED <<loop, now, tableVars, pending_list, loopVars, ready>>

\* ril_event_add of an event just prepared by ril_event_set.
ril_event_add(a, w) ==
    /\ MayCall(a)
    /\ w # Wake /\ index[w] = -1 /\ ~OnList(w, pending_list)
    /\ addWatch(w)
    /\ ThenTrigger(a, w)
    /\ UNCHANGED <<loop, now, timerVars, pending_list, loopVars, ready>>

\* ril_event_del returns at once for an event that has no slot.
ril_event_del(a, e) ==
    /\ MayCall(a)
    /\ e # Wake
    /\ \/ index[e] = -1 /\ UNCHANGED tableVars
       \/ index[e] # -1 /\ removeWatch(e, index[e])
    /\ UNCHANGED <<loop, now, timerVars, pending_list, loopVars, ready, adding>>

\* triggerEvLoop: one byte into the wakeup pipe.  Before eventLoop has
\* stored the pipe's descriptor the byte goes elsewhere.
triggerEvLoop(c) ==
    /\ Running
    /\ adding[c] # NoEvent
    /\ adding' = [adding EXCEPT ![c] = NoEvent]
    /\ ready' = IF PipeOpen THEN ready \cup {Fd[Wake]} ELSE ready
    /\ UNCHANGED <<loop, now, tableVars, timerVars, pending_list, loopVars>>

-----------------------------------------------------------------------------
(* The loop thread.                                                        *)

Goto(from, to) == loop = from /\ loop' = to

\* ril_event_init, then s_started = 1: from here on clients run.
StartLoop ==
    /\ Goto("unstarted", "pipe")
    /\ UNCHANGED <<now, tableVars, timerVars, pending_list, loopVars, ready, adding>>

\* pipe() and rilEventAddWakeup, from the loop thread itself.
OpenPipe ==
    /\ Goto("pipe", "copy")
    /\ addWatch(Wake)
    /\ UNCHANGED <<now, timerVars, pending_list, loopVars, ready, adding>>

\* pipe() fails: the thread returns and nothing restarts it.
PipeFails ==
    /\ Goto("pipe", "ended")
    /\ UNCHANGED <<now, tableVars, timerVars, pending_list, loopVars, ready, adding>>

\* memcpy of readFds, without the mutex.
CopyReadFds ==
    /\ Goto("copy", "calc")
    /\ rfds' = readFds
    /\ UNCHANGED <<now, tableVars, timerVars, pending_list, deadline, walkNow,
                   scan, cur, ready, adding>>

\* The relative timeout for select: zero for a timer already expired.
remaining(when) == IF when > now THEN when - now ELSE 0

\* calcNextTimeout, without the mutex: timers a client is adding may be
\* missed, or be seen before their timeout is stored in full.
calcNextTimeout ==
    /\ Goto("calc", "select")
    /\ \E unseen \in SUBSET {t \in Timers : \E c \in Clients : adding[c] = t} :
         \/ /\ \A i \in 1 .. Len(timer_list) : timer_list[i] \in unseen
            /\ deadline' = NoTimeout
         \/ \E i \in 1 .. Len(timer_list) :
              /\ \A j \in 1 .. i - 1 : timer_list[j] \in unseen
              /\ \/ /\ timer_list[i] \notin unseen
                    /\ deadline' = now + remaining(timeout[timer_list[i]])
                 \/ /\ timer_list[i] \in unseen
                    /\ \E seen \in 0 .. timeout[timer_list[i]] :
                         deadline' = now + remaining(seen)
    /\ UNCHANGED <<now, tableVars, timerVars, pending_list, rfds, walkNow,
                   scan, cur, ready, adding>>

\* select returns: with the descriptors that are ready, or none on timeout.
SelectReturns ==
    /\ Goto("select", "returned")
    /\ LET readable == {f \in rfds \cap ready : f < nfds}
       IN  /\ rfds' = readable
           /\ \/ readable # {}
              \/ deadline # NoTimeout /\ now >= deadline
    /\ UNCHANGED <<now, tableVars, timerVars, pending_list, deadline, walkNow,
                   scan, cur, ready, adding>>

\* errno == EINTR: continue.
SelectInterrupted ==
    /\ Goto("select", "copy")
    /\ UNCHANGED <<now, tableVars, timerVars, pending_list, loopVars, ready, adding>>

\* Any other error: ril_event_loop returns and eventLoop kills the process.
SelectFails ==
    /\ Goto("select", "killed")
    /\ UNCHANGED <<now, tableVars, timerVars, pending_list, loopVars, ready, adding>>

\* processTimeouts takes the mutex and samples the clock ...
BeginTimeouts ==
    /\ Goto("returned", "timeouts")
    /\ walkNow' = now
    /\ UNCHANGED <<now, tableVars, timerVars, pending_list, rfds, deadline,
                   scan, cur, ready, adding>>

\* Mutant: the comparison the wrong way round.
Expired_swapped(t) == walkNow < timeout[t]

Expired(t) == walkNow > timeout[t]

\* Mutant: the timer is not unlinked.
ExpireTimer_stillLinked ==
    /\ loop = "timeouts"
    /\ timer_list # <<>>
    /\ Expired(Head(timer_list))
    /\ pending_list' = Append(pending_list, Head(timer_list))
    /\ UNCHANGED <<loop, now, tableVars, timerVars, loopVars, ready, adding>>
\* ... moves the first timer while it has expired ...
ExpireTimer ==
    /\ loop = "timeouts"
    /\ timer_list # <<>>
    /\ Expired(Head(timer_list))
    /\ timer_list' = Tail(timer_list)
    /\ pending_list' = Append(pending_list, Head(timer_list))
    /\ UNCHANGED <<loop, now, tableVars, timeout, loopVars, ready, adding>>

\* ... and stops at the first one that has not.
EndTimeouts ==
    /\ Goto("timeouts", "walked")
    /\ \/ timer_list = <<>>
       \/ timer_list # <<>> /\ ~Expired(Head(timer_list))
    /\ UNCHANGED <<now, tableVars, timerVars, pending_list, loopVars, ready, adding>>

\* processReadReadies takes the mutex again ...
BeginReadReadies ==
    /\ Goto("walked", "readies")
    /\ scan' = 0
    /\ UNCHANGED <<now, tableVars, timerVars, pending_list, rfds, deadline,
                   walkNow, cur, ready, adding>>

\* ... looks at every slot (the early exit on n == 0 skips no ready slot) ...
ScanSlot ==
    /\ loop = "readies"
    /\ scan < MAX_FD_EVENTS
    /\ scan' = scan + 1
    /\ LET w == watch_table[scan]
       IN  \/ /\ w # NoEvent /\ Fd[w] \in rfds
              /\ pending_list' = Append(pending_list, w)
              /\ \/ w \in Persist /\ UNCHANGED tableVars
                 \/ w \notin Persist /\ removeWatch(w, scan)
           \/ /\ w = NoEvent \/ (w # NoEvent /\ Fd[w] \notin rfds)
              /\ UNCHANGED <<pending_list, tableVars>>
    /\ UNCHANGED <<loop, now, timerVars, rfds, deadline, walkNow, cur, ready, adding>>

EndReadReadies ==
    /\ Goto("readies", "fire")
    /\ scan = MAX_FD_EVENTS
    /\ UNCHANGED <<now, tableVars, timerVars, pending_list, loopVars, ready, adding>>

\* firePending unlinks the first event and calls it, without the mutex.
FireEvent ==
    /\ Goto("fire", "callback")
    /\ pending_list # <<>>
    /\ cur' = Head(pending_list)
    /\ pending_list' = Tail(pending_list)
    /\ UNCHANGED <<now, tableVars, timerVars, rfds, deadline, walkNow, scan,
                   ready, adding>>

\* The callback returns: processWakeupCallback has drained the pipe,
\* another watch has read its descriptor, a timer is freed.
CallbackReturns ==
    /\ Goto("callback", "fire")
    /\ cur' = NoEvent
    /\ ready' = IF cur \in Watches THEN ready \ {Fd[cur]} ELSE ready
    /\ UNCHANGED <<now, tableVars, timerVars, pending_list, rfds, deadline,
                   walkNow, scan, adding>>

EndFirePending ==
    /\ Goto("fire", "copy")
    /\ pending_list = <<>>
    /\ UNCHANGED <<now, tableVars, timerVars, pending_list, loopVars, ready, adding>>

-----------------------------------------------------------------------------
(* The environment.                                                        *)

Tick ==
    /\ now < MaxNow                                 \* bound
    /\ now' = now + 1
    /\ UNCHANGED <<loop, tableVars, timerVars, pending_list, loopVars, ready, adding>>

\* Something arrives on the descriptor of a watch other than the pipe's.
DataArrives(w) ==
    /\ w # Wake /\ Fd[w] \notin ready
    /\ ready' = ready \cup {Fd[w]}
    /\ UNCHANGED <<loop, now, tableVars, timerVars, pending_list, loopVars, adding>>

LoopReturnsFromSelect == BeginTimeouts \/ ExpireTimer \/ EndTimeouts
                         \/ BeginReadReadies \/ ScanSlot \/ EndReadReadies
                         \/ FireEvent \/ CallbackReturns \/ EndFirePending
LoopEntersSelect == StartLoop \/ OpenPipe \/ CopyReadFds \/ calcNextTimeout
LoopStep == LoopEntersSelect \/ SelectReturns \/ LoopReturnsFromSelect

LibraryCall(a) ==
    \/ \E t \in Timers, tv \in Delays : ril_timer_add(a, t, tv)
    \/ \E w \in Watches : ril_event_add(a, w)
    \/ \E e \in Events : ril_event_del(a, e)

Next ==
    \/ LoopStep
    \/ PipeFails
    \/ SelectInterrupted
    \/ SelectFails
    \/ \E a \in Threads : LibraryCall(a)
    \/ \E c \in Clients : triggerEvLoop(c)
    \/ Tick
    \/ \E w \in Watches : DataArrives(w)

Spec == Init /\ [][Next]_vars

\* Fairness: the loop and the clients are scheduled, callbacks return, time
\* passes, and signals do not interrupt every select.
FairSpec ==
    /\ Spec
    /\ WF_vars(LoopEntersSelect)
    /\ WF_vars(LoopReturnsFromSelect)
    /\ SF_vars(SelectReturns)
    /\ \A c \in Clients : WF_vars(triggerEvLoop(c))
    /\ WF_vars(Tick)

-----------------------------------------------------------------------------
(* Properties.                                                             *)

TableTypeOK ==
    /\ watch_table \in [Slots -> Watches \cup {NoEvent}]
    /\ index \in [Events -> Slots \cup {-1}]
    /\ \A t \in Timers : index[t] = -1
    /\ readFds \subseteq Nat
    /\ nfds \in Nat

\* Type correctness: in particular no timer ever has a slot of the table.
TypeOK ==
    /\ loop \in LoopStates
    /\ now \in Nat
    /\ TableTypeOK
    /\ timer_list \in Seq(Timers)
    /\ timeout \in [Timers -> Nat]
    /\ pending_list \in Seq(Events)
    /\ rfds \subseteq Nat
    /\ deadline \in Nat \cup {NoTimeout}
    /\ walkNow \in Nat
    /\ scan \in Nat
    /\ cur \in Events \cup {NoEvent}
    /\ ready \subseteq Nat
    /\ adding \in [Clients -> Events \cup {NoEvent}]

\* Every slot in use knows its event and the event its slot, the fd_set
\* handed to select holds exactly the watched descriptors, and nfds exceeds
\* each of them, whatever order events are added, deleted and fired in
\* (ril_event_add, removeWatch, processReadReadies).
WatchTableConsistent ==
    /\ \A i \in Slots : watch_table[i] # NoEvent => index[watch_table[i]] = i
    /\ \A w \in Watches : index[w] # -1 => watch_table[index[w]] = w
    /\ \A w \in Watches : Fd[w] \in readFds <=> index[w] # -1
    /\ \A w \in Watches : index[w] # -1 => Fd[w] < nfds

\* The timer list is sorted by timeout, which processTimeouts and
\* calcNextTimeout rely on when they look at the first timer only.
TimerListSorted ==
    \A i, j \in 1 .. Len(timer_list) :
        i < j => timeout[timer_list[i]] <= timeout[timer_list[j]]

\* No event is linked twice: the lists are intrusive, so an event that was
\* put on a list while it is on one would corrupt both.
LinkedOnce ==
    /\ \A i, j \in 1 .. Len(timer_list) : timer_list[i] = timer_list[j] => i = j
    /\ \A i, j \in 1 .. Len(pending_list) : pending_list[i] = pending_list[j] => i = j
    /\ \A i \in 1 .. Len(timer_list), j \in 1 .. Len(pending_list) :
          timer_list[i] # pending_list[j]

\* A timer is never fired before its time (processTimeouts).
NeverEarly ==
    /\ \A i \in 1 .. Len(pending_list) :
          pending_list[i] \in Timers => timeout[pending_list[i]] <= now
    /\ cur \in Timers => timeout[cur] <= now

\* What ril_timer_add, processTimeouts and firePending keep true of the timers
\* at every step of every thread: in order, linked once, never early.
TimersSafe == TimerListSorted /\ LinkedOnce /\ NeverEarly

\* While the loop blocks in select, a timer that is due before select's own
\* deadline has a byte in the wakeup pipe, or its adder is about to write
\* one: the timers the loop read without the mutex are never stale for good
\* (calcNextTimeout, internalRequestTimedCallback, triggerEvLoop).
WakeupNotLost ==
    loop = "select" =>
        \A i \in 1 .. Len(timer_list) :
            \/ deadline # NoTimeout /\ deadline <= timeout[timer_list[i]]
            \/ deadline # NoTimeout /\ deadline <= now
            \/ Fd[Wake] \in ready
            \/ \E c \in Clients : adding[c] = timer_list[i]

\* processTimeouts leaves no timer behind that had expired when it sampled
\* the clock, although it stops at the first one that has not.
NoExpiredTimerLeft ==
    [][loop = "timeouts" /\ loop' = "walked" =>
         \A i \in 1 .. Len(timer_list') : timeout'[timer_list'[i]] >= walkNow]_vars

Stopped == loop \in {"killed", "ended"}

\* Every timer added is fired, unless the process dies.
TimerFires == \A t \in Timers : OnList(t, timer_list) ~> (cur = t \/ Stopped)

\* A watched descriptor with data gets its callback, also when it was added
\* while the loop was blocked on an older fd_set, unless it is deleted.
WatchServed ==
    \A w \in Watches :
        (index[w] # -1 /\ Fd[w] \in ready) ~> (cur = w \/ index[w] = -1 \/ Stopped)

\* ril_event_loop serves whatever it was given while it was anywhere.
AllServed == TimerFires /\ WatchServed

\* What the loop's position says of the lists: the pipe's event is added
\* once, pending_list is built up by the two walks and emptied before the
\* next select, and during the second walk it holds watches of slots already
\* scanned only.
PhaseInv ==
    /\ loop \in {"unstarted", "pipe"} => index[Wake] = -1
    /\ loop \notin {"timeouts", "walked", "readies", "fire", "callback"} =>
         pending_list = <<>>
    /\ loop \in {"timeouts", "walked"} =>
         \A i \in 1 .. Len(pending_list) : pending_list[i] \in Timers
    /\ loop = "readies" =>
         \A i \in 1 .. Len(pending_list) :
            pending_list[i] \in Watches => index[pending_list[i]] < scan
    /\ walkNow <= now

\* Timers wait in pending_list in the order of their times, all of them due
\* before the clock value of the walk that put them there and none later than
\* a timer still on timer_list; only a callback has a current event.
DueInOrder ==
    /\ cur # NoEvent => loop = "callback"
    /\ \A i, j \in 1 .. Len(pending_list) :
          i < j /\ pending_list[i] \in Timers /\ pending_list[j] \in Timers =>
            timeout[pending_list[i]] <= timeout[pending_list[j]]
    /\ \A i \in 1 .. Len(pending_list) :
          pending_list[i] \in Timers =>
            /\ timeout[pending_list[i]] < walkNow
            /\ \A j \in 1 .. Len(timer_list) :
                  timeout[pending_list[i]] <= timeout[timer_list[j]]

\* The timers that are set: linked into either list.
Armed == {t \in Timers : OnList(t, timer_list) \/ OnList(t, pending_list)}

T == INSTANCE RilTimer WITH
         armed <- Armed,
         due <- timeout,
         running <- IF cur \in Timers THEN cur ELSE NoEvent,
         stopped <- Stopped

\* The event loop implements RilTimer: seen from outside, timers are called
\* once each, after their time, in the order of their times and without
\* overlap, although the lists are walked in batches while other threads and
\* the callbacks themselves insert timers (ril_timer_add, processTimeouts,
\* firePending).
ImplementsTimers == T!Spec
=============================================================================
