----------------------------- MODULE SWWatchDog -----------------------------
(***************************************************************************)
(* The software watchdog of libgem (SWWatchDog.cpp): threads set an anchor  *)
(* when they begin something and delete it when they are done; the watchdog *)
(* thread walks over the table of anchors and reports those that are older  *)
(* than their threshold.  The table has a read-write lock of its own;       *)
(* suspend and resume go through mLock and mCondition.                      *)
(*                                                                          *)
(* An anchor's id is its address, which a later anchor may get again.  Time *)
(* is reduced to which anchors have passed their threshold.                 *)
(***************************************************************************)
EXTENDS Naturals, Sequences, SequencesExt, FiniteSets

CONSTANTS
    Threads,        \* threads that set and delete anchors
    Nobody,         \* no thread
    Ids,            \* addresses of anchors, ordered: a set of numbers
    MaxSuspends     \* bound: calls of suspend

VARIABLES
    mAnchorTable,   \* ids in order
    mTid,           \* id -> thread that set it
    overdue,        \* anchors past their threshold
    calling,        \* thread -> [op, id] it is about to do under the write lock
    wdt,            \* the watchdog thread: "begin", "suspended", "look", "walk", "tick", "sleep"
    late,           \* anchors past their threshold when the watchdog looked at the clock
    index,          \* position of the walk
    told,           \* anchors reported by this walk
    mSuspend, suspends

wdtVars == <<mAnchorTable, mTid, overdue, calling, wdt, late, index, told, mSuspend, suspends>>

NoCall == [op |-> "none", id |-> 0]

Init ==
    /\ mAnchorTable = <<>> /\ mTid = [i \in Ids |-> Nobody] /\ overdue = {}
    /\ calling = [t \in Threads |-> NoCall]
    /\ wdt = "begin" /\ late = {} /\ index = 0 /\ told = {}
    /\ mSuspend = FALSE /\ suspends = 0

Set == ToSet(mAnchorTable)

\* The walk holds the lock for reading.
Writable == wdt # "walk"

loopVars == <<wdt, late, index, told>>
suspendVars == <<mSuspend, suspends>>

-----------------------------------------------------------------------------
(* The threads.                                                             *)

\* setAnchor makes the anchor and notes the time ...
setAnchor(t) ==
    /\ calling[t] = NoCall
    /\ \E i \in Ids :
          /\ mTid[i] = Nobody
          /\ mTid' = [mTid EXCEPT ![i] = t]
          /\ calling' = [calling EXCEPT ![t] = [op |-> "set", id |-> i]]
    /\ UNCHANGED <<mAnchorTable, overdue, loopVars, suspendVars>>

\* ... and adds it to the table.
Add(t) ==
    /\ calling[t].op = "set" /\ Writable
    /\ LET i == calling[t].id
       IN mAnchorTable' = SelectSeq(mAnchorTable, LAMBDA x : x < i) \o <<i>>
                          \o SelectSeq(mAnchorTable, LAMBDA x : x > i)
    /\ calling' = [calling EXCEPT ![t] = NoCall]
    /\ UNCHANGED <<mTid, overdue, loopVars, suspendVars>>

\* delAnchor finds its own anchor under the lock for reading, ...
delAnchor(t) ==
    /\ calling[t] = NoCall
    /\ \E i \in Set :
          /\ mTid[i] = t
          /\ calling' = [calling EXCEPT ![t] = [op |-> "del", id |-> i]]
    /\ UNCHANGED <<mAnchorTable, mTid, overdue, loopVars, suspendVars>>

\* ... takes the lock for writing and removes it; its memory is free again.
RemoveItem(t) ==
    /\ calling[t].op = "del" /\ Writable
    /\ LET i == calling[t].id
       IN /\ mAnchorTable' = SelectSeq(mAnchorTable, LAMBDA x : x # i)
          /\ mTid' = [mTid EXCEPT ![i] = Nobody]
          /\ overdue' = overdue \ {i} /\ late' = late \ {i}
    /\ calling' = [calling EXCEPT ![t] = NoCall]
    /\ UNCHANGED <<wdt, index, told, suspendVars>>

\* The threshold of an anchor passes.
TimePasses(i) ==
    /\ mTid[i] # Nobody /\ overdue' = overdue \cup {i}
    /\ UNCHANGED <<mAnchorTable, mTid, calling, loopVars, suspendVars>>

suspend ==
    /\ suspends < MaxSuspends /\ suspends' = suspends + 1 /\ mSuspend' = TRUE
    /\ UNCHANGED <<mAnchorTable, mTid, overdue, calling, loopVars>>

\* Mutant: the watchdog is not signalled.
resume_unsignalled ==
    /\ mSuspend /\ mSuspend' = FALSE
    /\ UNCHANGED <<mAnchorTable, mTid, overdue, calling, loopVars, suspends>>

\* resume signals mCondition, which ends either wait.
resume ==
    /\ mSuspend /\ mSuspend' = FALSE
    /\ wdt' = CASE wdt = "suspended" -> "look" [] wdt = "sleep" -> "begin" [] OTHER -> wdt
    /\ UNCHANGED <<mAnchorTable, mTid, overdue, calling, late, index, told, suspends>>

-----------------------------------------------------------------------------
(* threadLoop.                                                              *)

Begin ==
    /\ wdt = "begin" /\ wdt' = IF mSuspend THEN "suspended" ELSE "look"
    /\ UNCHANGED <<mAnchorTable, mTid, overdue, calling, late, index, told, suspendVars>>

\* The clock is read before the lock is taken: isTimeout(now) of each anchor is
\* settled here.
LookAtClock ==
    /\ wdt = "look" /\ wdt' = "locking" /\ late' = overdue /\ told' = {}
    /\ UNCHANGED <<mAnchorTable, mTid, overdue, calling, index, suspendVars>>

LockTable ==
    /\ wdt = "locking" /\ wdt' = "walk" /\ index' = 1
    /\ UNCHANGED <<mAnchorTable, mTid, overdue, calling, late, told, suspendVars>>

\* One anchor: onTimeout is called if its time is up.
Report ==
    /\ wdt = "walk" /\ index <= Len(mAnchorTable)
    /\ told' = told \cup (late \cap {mAnchorTable[index]}) /\ index' = index + 1
    /\ UNCHANGED <<mAnchorTable, mTid, overdue, calling, wdt, late, suspendVars>>

WalkEnds ==
    /\ wdt = "walk" /\ index > Len(mAnchorTable) /\ wdt' = "sleep"
    /\ late' = {} /\ index' = 0
    /\ UNCHANGED <<mAnchorTable, mTid, overdue, calling, told, suspendVars>>

\* The period is over.
WakesUp ==
    /\ wdt = "sleep" /\ wdt' = "begin"
    /\ UNCHANGED <<mAnchorTable, mTid, overdue, calling, late, index, told, suspendVars>>

threadLoop == Begin \/ LookAtClock \/ LockTable \/ Report \/ WalkEnds \/ WakesUp

Next ==
    \/ \E t \in Threads : setAnchor(t) \/ Add(t) \/ delAnchor(t) \/ RemoveItem(t)
    \/ \E i \in Ids : TimePasses(i)
    \/ suspend \/ resume
    \/ Begin \/ LookAtClock \/ LockTable \/ Report \/ WalkEnds \/ WakesUp

Spec == Init /\ [][Next]_wdtVars

\* The watchdog thread runs; its sleep has a limit.
Fairness == WF_wdtVars(threadLoop)
FairSpec == Spec /\ Fairness

-----------------------------------------------------------------------------
(* Properties.                                                             *)

TypeOK ==
    /\ Set \subseteq Ids /\ mTid \in [Ids -> Threads \cup {Nobody}]
    /\ overdue \subseteq Ids /\ late \subseteq Ids /\ told \subseteq Ids
    /\ wdt \in {"begin", "suspended", "look", "locking", "walk", "sleep"}
    /\ index \in 0..(Cardinality(Ids) + 1) /\ mSuspend \in BOOLEAN

\* A walk at its end has reported every anchor in the table that was past its
\* threshold when the clock was read, although others came and went.
NoneSkipped ==
    (wdt = "walk" /\ index > Len(mAnchorTable)) => late \cap Set \subseteq told

\* An anchor that stays is reported once its threshold has passed, unless the
\* watchdog is suspended again and again or for good: no resume is lost.
OverdueReported ==
    <>[](~mSuspend) => \A i \in Ids : (i \in overdue /\ i \in Set) ~> (i \in told \/ i \notin Set)

=============================================================================
