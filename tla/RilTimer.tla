------------------------------ MODULE RilTimer ------------------------------
(***************************************************************************)
(* What RIL_requestTimedCallback promises its callers, without lists,      *)
(* locks, pipes or threads: a timer that was set is called once, after its *)
(* time has come and in the order of the times, one callback at a time,    *)
(* unless the loop has stopped.                                            *)
(***************************************************************************)
EXTENDS Integers

CONSTANTS Timers, Delays, NoEvent

VARIABLES
    now,
    armed,          \* the timers that are set
    due,            \* when, for each of them
    running,        \* the timer being called, or NoEvent
    stopped         \* the loop has ended

vars == <<now, armed, due, running, stopped>>

Init ==
    /\ now = 0
    /\ armed = {} /\ due = [t \in Timers |-> 0]
    /\ running = NoEvent /\ stopped = FALSE

Arm(t, d) ==
    /\ t \notin armed /\ t # running
    /\ armed' = armed \cup {t}
    /\ due' = [due EXCEPT ![t] = now + d]
    /\ UNCHANGED <<now, running, stopped>>

Fire(t) ==
    /\ ~stopped /\ running = NoEvent
    /\ t \in armed /\ due[t] < now
    /\ \A u \in armed : due[t] <= due[u]
    /\ armed' = armed \ {t}
    /\ running' = t
    /\ UNCHANGED <<now, due, stopped>>

Return ==
    /\ running # NoEvent
    /\ running' = NoEvent
    /\ UNCHANGED <<now, armed, due, stopped>>

Tick ==
    /\ now' = now + 1
    /\ UNCHANGED <<armed, due, running, stopped>>

Stop ==
    /\ stopped' = TRUE
    /\ UNCHANGED <<now, armed, due, running>>

Next ==
    \/ \E t \in Timers : Fire(t) \/ \E d \in Delays : Arm(t, d)
    \/ Return \/ Tick \/ Stop

Spec == Init /\ [][Next]_vars
=============================================================================
