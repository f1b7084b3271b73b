--------------------------- MODULE RilEventProofs ---------------------------
(***************************************************************************)
(* Proofs about the event loop, for any number of clients, timers and      *)
(* watches and any table size.                                             *)
(***************************************************************************)
EXTENDS RilEvent, TLAPS

\* Inserting a timer yields a sequence of timers one longer.
LEMMA InsertTimerType ==
    ASSUME NEW list \in Seq(Timers), NEW k \in 0 .. Len(list), NEW t \in Timers
    PROVE  /\ insertTimer(list, k, t) \in Seq(Timers)
           /\ Len(insertTimer(list, k, t)) = Len(list) + 1
           /\ \A i \in 1 .. Len(list) + 1 :
                insertTimer(list, k, t)[i] =
                  IF i <= k THEN list[i] ELSE IF i = k + 1 THEN t ELSE list[i - 1]
<1> DEFINE ins == insertTimer(list, k, t)
<1>1. ins = [i \in 1 .. Len(list) + 1 |->
               IF i <= k THEN list[i] ELSE IF i = k + 1 THEN t ELSE list[i - 1]]
  BY DEF insertTimer
<1>2. Len(list) \in Nat /\ \A i \in 1 .. Len(list) : list[i] \in Timers
  OBVIOUS
<1>3. \A i \in 1 .. Len(list) + 1 : ins[i] \in Timers
  BY <1>1, <1>2
<1>4. ins \in [1 .. Len(list) + 1 -> Timers]
  BY <1>1, <1>3
<1>5. ins \in Seq(Timers) /\ Len(ins) = Len(list) + 1
  BY <1>2, <1>4
<1> QED
  BY <1>1, <1>5

\* A table update keeps the types.
LEMMA AddWatchType ==
    ASSUME TypeOK, NEW w \in Watches, addWatch(w)
    PROVE  TableTypeOK'
<1>1. CASE UNCHANGED tableVars
  BY <1>1 DEF TypeOK, TableTypeOK, tableVars
<1>2. ASSUME NEW i \in Slots,
             watch_table' = [watch_table EXCEPT ![i] = w],
             index' = [index EXCEPT ![w] = i],
             readFds' = readFds \cup {Fd[w]},
             nfds' = IF Fd[w] >= nfds THEN Fd[w] + 1 ELSE nfds
      PROVE  TableTypeOK'
  <2>1. Fd[w] \in Nat
    BY FdAssumption
  <2>2. watch_table' \in [Slots -> Watches \cup {NoEvent}]
    BY <1>2 DEF TypeOK, TableTypeOK
  <2>3. index' \in [Events -> Slots \cup {-1}]
    BY <1>2 DEF TypeOK, TableTypeOK, Events
  <2>4. readFds' \subseteq Nat
    BY <1>2, <2>1 DEF TypeOK, TableTypeOK
  <2>5. nfds' \in Nat
    BY <1>2, <2>1 DEF TypeOK, TableTypeOK
  <2>6. \A t \in Timers : index'[t] = -1
    BY <1>2, EventsAssumption DEF TypeOK, TableTypeOK, Events
  <2> QED
    BY <2>2, <2>3, <2>4, <2>5, <2>6 DEF TableTypeOK
<1> QED
  BY <1>1, <1>2 DEF addWatch, tableVars

LEMMA RemoveWatchType ==
    ASSUME TypeOK, NEW w \in Events, NEW i \in Slots, removeWatch(w, i), w \in Watches
    PROVE  TableTypeOK'
<1>1. watch_table' \in [Slots -> Watches \cup {NoEvent}]
  BY DEF TypeOK, TableTypeOK, removeWatch
<1>2. index' \in [Events -> Slots \cup {-1}]
  BY DEF TypeOK, TableTypeOK, removeWatch, Events
<1>3. readFds' \subseteq Nat
  BY DEF TypeOK, TableTypeOK, removeWatch
<1>4. nfds' \in Nat
  <2> DEFINE fds == {Fd[watch_table[j]] :
                       j \in {j \in Slots \ {i} : watch_table[j] # NoEvent}}
  <2>1. fds \subseteq Nat
    BY FdAssumption DEF TypeOK, TableTypeOK
  <2>2. CASE nfds' = nfds
    BY <2>2 DEF TypeOK, TableTypeOK
  <2>3. CASE recomputeNfds(fds)
    BY <2>1, <2>3 DEF recomputeNfds
  <2> QED
    BY <2>2, <2>3 DEF removeWatch
<1>5. \A t \in Timers : index'[t] = -1
  BY EventsAssumption DEF TypeOK, TableTypeOK, removeWatch, Events
<1> QED
  BY <1>1, <1>2, <1>3, <1>4, <1>5 DEF TableTypeOK

\* Every step preserves the types.
LEMMA TypeStep == TypeOK /\ [Next]_vars => TypeOK'
<1> SUFFICES ASSUME TypeOK, [Next]_vars PROVE TypeOK'
  OBVIOUS
<1> USE DEF tableVars, timerVars, loopVars, Goto
<1>1. ASSUME NEW a \in Threads, NEW t \in Timers, NEW tv \in Delays, ril_timer_add(a, t, tv)
      PROVE  TypeOK'
  <2>1. timer_list' \in Seq(Timers)
    BY <1>1, InsertTimerType DEF TypeOK, TableTypeOK, ril_timer_add
  <2>2. timeout' \in [Timers -> Nat]
    BY <1>1, BoundsAssumption DEF TypeOK, TableTypeOK, ril_timer_add
  <2>3. adding' \in [Clients -> Events \cup {NoEvent}]
    BY <1>1 DEF TypeOK, TableTypeOK, ril_timer_add, ThenTrigger, Events, Threads
  <2> QED
    BY <1>1, <2>1, <2>2, <2>3 DEF TypeOK, TableTypeOK, ril_timer_add
<1>2. ASSUME NEW a \in Threads, NEW w \in Watches, ril_event_add(a, w)
      PROVE  TypeOK'
  <2>1. adding' \in [Clients -> Events \cup {NoEvent}]
    BY <1>2 DEF TypeOK, TableTypeOK, ril_event_add, ThenTrigger, Events, Threads
  <2> QED
    BY <1>2, <2>1, AddWatchType DEF TypeOK, TableTypeOK, ril_event_add
<1>3. ASSUME NEW a \in Threads, NEW e \in Events, ril_event_del(a, e)
      PROVE  TypeOK'
  <2>1. CASE UNCHANGED tableVars
    BY <1>3, <2>1 DEF TypeOK, TableTypeOK, ril_event_del
  <2>2. CASE index[e] # -1 /\ removeWatch(e, index[e])
    <3>1. index[e] \in Slots
      BY <2>2 DEF TypeOK, TableTypeOK
    <3>2. e \in Watches
      BY <2>2 DEF TypeOK, TableTypeOK, Events
    <3> QED
      BY <1>3, <2>2, <3>1, <3>2, RemoveWatchType DEF TypeOK, TableTypeOK, ril_event_del
  <2> QED
    BY <1>3, <2>1, <2>2 DEF ril_event_del
<1>4. ASSUME NEW c \in Clients, triggerEvLoop(c)
      PROVE  TypeOK'
  <2>1. Fd[Wake] \in Nat
    BY FdAssumption, EventsAssumption
  <2>2. ready' \subseteq Nat
    BY <1>4, <2>1 DEF TypeOK, TableTypeOK, triggerEvLoop
  <2>3. adding' \in [Clients -> Events \cup {NoEvent}]
    BY <1>4 DEF TypeOK, TableTypeOK, triggerEvLoop
  <2> QED
    BY <1>4, <2>2, <2>3 DEF TypeOK, TableTypeOK, triggerEvLoop
<1>5. CASE StartLoop
  BY <1>5 DEF TypeOK, TableTypeOK, StartLoop, LoopStates
<1>6. CASE OpenPipe
  BY <1>6, AddWatchType, EventsAssumption DEF TypeOK, TableTypeOK, OpenPipe, LoopStates
<1>7. CASE PipeFails
  BY <1>7 DEF TypeOK, TableTypeOK, PipeFails, LoopStates
<1>8. CASE CopyReadFds
  BY <1>8 DEF TypeOK, TableTypeOK, CopyReadFds, LoopStates
<1>9. CASE calcNextTimeout
  <2>1. \A i \in 1 .. Len(timer_list) : timeout[timer_list[i]] \in Nat
    BY DEF TypeOK, TableTypeOK
  <2>2. deadline' \in Nat \cup {NoTimeout}
    BY <1>9, <2>1 DEF TypeOK, TableTypeOK, calcNextTimeout, remaining
  <2> QED
    BY <1>9, <2>2 DEF TypeOK, TableTypeOK, calcNextTimeout, LoopStates
<1>10. CASE SelectReturns
  BY <1>10 DEF TypeOK, TableTypeOK, SelectReturns, LoopStates
<1>11. CASE SelectInterrupted
  BY <1>11 DEF TypeOK, TableTypeOK, SelectInterrupted, LoopStates
<1>12. CASE SelectFails
  BY <1>12 DEF TypeOK, TableTypeOK, SelectFails, LoopStates
<1>13. CASE BeginTimeouts
  BY <1>13 DEF TypeOK, TableTypeOK, BeginTimeouts, LoopStates
<1>14. CASE ExpireTimer
  <2>1. timer_list' \in Seq(Timers)
    BY <1>14 DEF TypeOK, TableTypeOK, ExpireTimer
  <2>2. pending_list' \in Seq(Events)
    BY <1>14 DEF TypeOK, TableTypeOK, ExpireTimer, Events
  <2> QED
    BY <1>14, <2>1, <2>2 DEF TypeOK, TableTypeOK, ExpireTimer
<1>15. CASE EndTimeouts
  BY <1>15 DEF TypeOK, TableTypeOK, EndTimeouts, LoopStates
<1>16. CASE BeginReadReadies
  BY <1>16 DEF TypeOK, TableTypeOK, BeginReadReadies, LoopStates
<1>17. CASE ScanSlot
  <2>1. scan \in Slots
    BY <1>17, BoundsAssumption DEF TypeOK, TableTypeOK, ScanSlot, Slots
  <2>2. watch_table[scan] \in Watches \cup {NoEvent}
    BY <2>1 DEF TypeOK, TableTypeOK
  <2>3. pending_list' \in Seq(Events)
    <3>1. CASE pending_list' = pending_list
      BY <3>1 DEF TypeOK, TableTypeOK
    <3>2. CASE watch_table[scan] # NoEvent
               /\ pending_list' = Append(pending_list, watch_table[scan])
      BY <2>2, <3>2 DEF TypeOK, TableTypeOK, Events
    <3> QED
      BY <1>17, <3>1, <3>2 DEF ScanSlot
  <2>4. CASE UNCHANGED tableVars
    BY <1>17, <2>3, <2>4 DEF TypeOK, TableTypeOK, ScanSlot
  <2>5. CASE watch_table[scan] # NoEvent /\ removeWatch(watch_table[scan], scan)
    <3>1. watch_table[scan] \in Watches /\ watch_table[scan] \in Events
      BY <2>2, <2>5 DEF Events
    <3>2. TableTypeOK'
      BY <2>1, <2>5, <3>1, RemoveWatchType
    <3>3. scan' \in Nat
      BY <1>17 DEF TypeOK, TableTypeOK, ScanSlot
    <3> QED
      BY <1>17, <2>3, <3>2, <3>3 DEF TypeOK, TableTypeOK, ScanSlot
  <2> QED
    BY <1>17, <2>4, <2>5 DEF ScanSlot
<1>18. CASE EndReadReadies
  BY <1>18 DEF TypeOK, TableTypeOK, EndReadReadies, LoopStates
<1>19. CASE FireEvent
  BY <1>19 DEF TypeOK, TableTypeOK, FireEvent, LoopStates
<1>20. CASE CallbackReturns
  BY <1>20 DEF TypeOK, TableTypeOK, CallbackReturns, LoopStates
<1>21. CASE EndFirePending
  BY <1>21 DEF TypeOK, TableTypeOK, EndFirePending, LoopStates
<1>22. CASE Tick
  BY <1>22 DEF TypeOK, TableTypeOK, Tick
<1>23. ASSUME NEW w \in Watches, DataArrives(w)
       PROVE  TypeOK'
  <2>1. Fd[w] \in Nat
    BY FdAssumption
  <2>2. ready' \subseteq Nat
    BY <1>23, <2>1 DEF TypeOK, TableTypeOK, DataArrives
  <2> QED
    BY <1>23, <2>2 DEF TypeOK, TableTypeOK, DataArrives
<1>24. CASE UNCHANGED vars
  BY <1>24 DEF TypeOK, TableTypeOK, vars
<1> QED
  BY <1>1, <1>2, <1>3, <1>4, <1>5, <1>6, <1>7, <1>8, <1>9, <1>10, <1>11, <1>12,
     <1>13, <1>14, <1>15, <1>16, <1>17, <1>18, <1>19, <1>20, <1>21, <1>22, <1>23, <1>24
     DEF Next, LoopStep, LoopEntersSelect, LoopReturnsFromSelect, LibraryCall

\* How a step may change the table: not at all, by adding a watch that has
\* no slot, or by clearing the slot of a watch.
LEMMA TableStep ==
    ASSUME TypeOK, WatchTableConsistent, PhaseInv, [Next]_vars
    PROVE  \/ UNCHANGED tableVars
           \/ \E w \in Watches : index[w] = -1 /\ addWatch(w)
           \/ \E w \in Watches : /\ index[w] # -1
                                 /\ removeWatch(w, index[w])
<1> USE DEF vars, tableVars, timerVars, loopVars, Goto
<1>1. ASSUME NEW a \in Threads, NEW e \in Events, ril_event_del(a, e)
      PROVE  \/ UNCHANGED tableVars
             \/ \E w \in Watches : index[w] # -1 /\ removeWatch(w, index[w])
  BY <1>1 DEF TypeOK, TableTypeOK, ril_event_del, Events
<1>2. ASSUME ScanSlot
      PROVE  \/ UNCHANGED tableVars
             \/ \E w \in Watches : index[w] # -1 /\ removeWatch(w, index[w])
  <2>1. scan \in Slots /\ scan # -1
    BY <1>2, BoundsAssumption DEF TypeOK, ScanSlot, Slots
  <2>2. CASE watch_table[scan] # NoEvent /\ removeWatch(watch_table[scan], scan)
    <3>1. watch_table[scan] \in Watches
      BY <2>1, <2>2 DEF TypeOK, TableTypeOK
    <3>2. index[watch_table[scan]] = scan
      BY <2>1, <2>2 DEF WatchTableConsistent
    <3> QED
      BY <2>1, <2>2, <3>1, <3>2
  <2> QED
    BY <1>2, <2>2 DEF ScanSlot
<1>3. ASSUME OpenPipe
      PROVE  \E w \in Watches : index[w] = -1 /\ addWatch(w)
  BY <1>3, EventsAssumption DEF OpenPipe, PhaseInv
<1>4. ASSUME NEW a \in Threads, NEW w \in Watches, ril_event_add(a, w)
      PROVE  index[w] = -1 /\ addWatch(w)
  BY <1>4 DEF ril_event_add
<1>5. ASSUME Next,
             ~OpenPipe, ~ScanSlot,
             ~\E a \in Threads, w \in Watches : ril_event_add(a, w),
             ~\E a \in Threads, e \in Events : ril_event_del(a, e)
      PROVE  UNCHANGED tableVars
  BY <1>5 DEF Next, LoopStep, LoopEntersSelect, LoopReturnsFromSelect, LibraryCall,
       StartLoop, CopyReadFds, calcNextTimeout, SelectReturns, BeginTimeouts,
       ExpireTimer, EndTimeouts, BeginReadReadies, EndReadReadies, FireEvent,
       CallbackReturns, EndFirePending, PipeFails, SelectInterrupted, SelectFails,
       ril_timer_add, triggerEvLoop, Tick, DataArrives
<1> QED
  BY <1>1, <1>2, <1>3, <1>4, <1>5

\* Adding a watch that has no slot keeps the table consistent.
LEMMA AddWatchConsistent ==
    ASSUME TypeOK, WatchTableConsistent, NEW w \in Watches, index[w] = -1, addWatch(w)
    PROVE  WatchTableConsistent'
<1>1. CASE UNCHANGED tableVars
  BY <1>1 DEF WatchTableConsistent, tableVars
<1>2. ASSUME NEW i \in Slots, watch_table[i] = NoEvent,
             watch_table' = [watch_table EXCEPT ![i] = w],
             index' = [index EXCEPT ![w] = i],
             readFds' = readFds \cup {Fd[w]},
             nfds' = IF Fd[w] >= nfds THEN Fd[w] + 1 ELSE nfds
      PROVE  WatchTableConsistent'
  <2>1. \A v \in Watches : v \in Events /\ Fd[v] \in Nat
    BY FdAssumption DEF Events
  <2>2. \A v \in Watches : v # w => index'[v] = index[v]
    BY <1>2, <2>1 DEF TypeOK, TableTypeOK
  <2>3. index'[w] = i /\ i # -1
    BY <1>2, <2>1 DEF TypeOK, TableTypeOK, Slots
  <2>4. watch_table'[i] = w /\ \A j \in Slots : j # i => watch_table'[j] = watch_table[j]
    BY <1>2 DEF TypeOK, TableTypeOK
  <2>5. \A j \in Slots : watch_table'[j] # NoEvent => index'[watch_table'[j]] = j
    <3> SUFFICES ASSUME NEW j \in Slots, watch_table'[j] # NoEvent
                 PROVE  index'[watch_table'[j]] = j
      OBVIOUS
    <3>1. CASE j = i
      BY <2>3, <2>4, <3>1
    <3>2. CASE j # i
      <4>1. watch_table[j] \in Watches /\ index[watch_table[j]] = j /\ j # -1
        BY <2>4, <3>2, SMTT(30) DEF TypeOK, TableTypeOK, WatchTableConsistent, Slots
      <4>2. watch_table[j] # w
        BY <4>1
      <4> QED
        BY <2>2, <2>4, <3>2, <4>1, <4>2
    <3> QED
      BY <3>1, <3>2
  <2>6. \A v \in Watches : index'[v] # -1 => watch_table'[index'[v]] = v
    <3> SUFFICES ASSUME NEW v \in Watches, index'[v] # -1
                 PROVE  watch_table'[index'[v]] = v
      OBVIOUS
    <3>1. CASE v = w
      BY <2>3, <2>4, <3>1
    <3>2. CASE v # w
      <4>1. index'[v] = index[v] /\ index[v] \in Slots /\ watch_table[index[v]] = v
        BY <2>1, <2>2, <3>2 DEF TypeOK, TableTypeOK, WatchTableConsistent
      <4>2. index[v] # i
        BY <1>2, <4>1, EventsAssumption, <2>1
      <4> QED
        BY <2>4, <4>1, <4>2
    <3> QED
      BY <3>1, <3>2
  <2>7. \A v \in Watches : Fd[v] \in readFds' <=> index'[v] # -1
    BY <1>2, <2>2, <2>3, FdAssumption DEF WatchTableConsistent
  <2>8. nfds' \in Nat /\ nfds <= nfds' /\ Fd[w] < nfds' /\ nfds \in Nat
    BY <1>2, <2>1 DEF TypeOK, TableTypeOK
  <2>9. \A v \in Watches : index'[v] # -1 => Fd[v] < nfds'
    BY <2>1, <2>2, <2>8 DEF WatchTableConsistent
  <2> QED
    BY <2>5, <2>6, <2>7, <2>9 DEF WatchTableConsistent
<1> QED
  BY <1>1, <1>2 DEF addWatch, tableVars

\* Clearing the slot of a watch keeps the table consistent: the new nfds
\* still exceeds every descriptor that is left.
LEMMA RemoveWatchConsistent ==
    ASSUME TypeOK, WatchTableConsistent, NEW w \in Watches, index[w] # -1,
           removeWatch(w, index[w])
    PROVE  WatchTableConsistent'
<1> DEFINE i == index[w]
           fds == {Fd[watch_table[j]] :
                     j \in {j \in Slots \ {i} : watch_table[j] # NoEvent}}
<1>1. \A v \in Watches : v \in Events /\ Fd[v] \in Nat
  BY FdAssumption DEF Events
<1>2. i \in Slots /\ watch_table[i] = w
  BY <1>1 DEF TypeOK, TableTypeOK, WatchTableConsistent
<1>3. index'[w] = -1 /\ \A v \in Watches : v # w => index'[v] = index[v]
  BY <1>1 DEF TypeOK, TableTypeOK, removeWatch
<1>4. watch_table'[i] = NoEvent
      /\ \A j \in Slots : j # i => watch_table'[j] = watch_table[j]
  BY <1>2 DEF TypeOK, TableTypeOK, removeWatch
<1>5. readFds' = readFds \ {Fd[w]}
  BY DEF removeWatch
<1>6. \A j \in Slots : watch_table'[j] # NoEvent => index'[watch_table'[j]] = j
  <2> SUFFICES ASSUME NEW j \in Slots, watch_table'[j] # NoEvent
               PROVE  index'[watch_table'[j]] = j
    OBVIOUS
  <2>1. j # i /\ watch_table'[j] = watch_table[j]
    BY <1>4
  <2>2. watch_table[j] \in Watches /\ index[watch_table[j]] = j
    BY <2>1 DEF TypeOK, TableTypeOK, WatchTableConsistent
  <2>3. watch_table[j] # w
    BY <2>1, <2>2
  <2> QED
    BY <1>3, <2>1, <2>2, <2>3
<1>7. \A v \in Watches : index'[v] # -1 => watch_table'[index'[v]] = v
  <2> SUFFICES ASSUME NEW v \in Watches, index'[v] # -1
               PROVE  watch_table'[index'[v]] = v
    OBVIOUS
  <2>1. v # w /\ index'[v] = index[v]
    BY <1>3
  <2>2. index[v] \in Slots /\ watch_table[index[v]] = v
    BY <1>1, <2>1 DEF TypeOK, TableTypeOK, WatchTableConsistent
  <2>3. index[v] # i
    BY <1>2, <2>1, <2>2
  <2> QED
    BY <1>4, <2>1, <2>2, <2>3
<1>8. \A v \in Watches : Fd[v] \in readFds' <=> index'[v] # -1
  BY <1>3, <1>5, FdAssumption DEF WatchTableConsistent
<1>9. ASSUME NEW v \in Watches, index'[v] # -1
      PROVE  Fd[v] < nfds'
  <2>1. v # w /\ index'[v] = index[v]
    BY <1>3, <1>9
  <2>2. index[v] \in Slots /\ watch_table[index[v]] = v /\ Fd[v] < nfds
    BY <1>1, <1>9, <2>1 DEF TypeOK, TableTypeOK, WatchTableConsistent
  <2>3. index[v] # i
    BY <1>2, <2>1, <2>2
  <2>4. Fd[v] \in fds
    <3>1. v # NoEvent
      BY <1>1, EventsAssumption
    <3> QED
      BY <2>2, <2>3, <3>1
  <2>5. fds \subseteq Nat
    BY FdAssumption DEF TypeOK, TableTypeOK
  <2>6. CASE recomputeNfds(fds)
    <3> HIDE DEF fds
    <3>1. PICK n \in fds \cup {0} : (\A m \in fds : m <= n) /\ nfds' = n + 1
      BY <2>6 DEF recomputeNfds
    <3>2. n \in Nat /\ Fd[v] \in Nat /\ Fd[v] <= n
      BY <1>1, <2>4, <2>5, <3>1
    <3> QED
      BY <3>1, <3>2
  <2>7. CASE nfds' = nfds
    BY <2>2, <2>7
  <2>8. nfds' = nfds \/ recomputeNfds(fds)
    BY Zenon DEF removeWatch
  <2> QED
    BY <2>6, <2>7, <2>8
<1> QED
  BY <1>6, <1>7, <1>8, <1>9 DEF WatchTableConsistent

LEMMA WatchTableStep ==
    ASSUME TypeOK, WatchTableConsistent, PhaseInv, [Next]_vars
    PROVE  WatchTableConsistent'
<1>1. CASE UNCHANGED tableVars
  BY <1>1 DEF WatchTableConsistent, tableVars
<1> QED
  BY <1>1, TableStep, AddWatchConsistent, RemoveWatchConsistent

-----------------------------------------------------------------------------
(* The timer list.                                                         *)

\* Timers and their timeouts change only when one is added or expires.
LEMMA TimerStep ==
    ASSUME [Next]_vars
    PROVE  \/ UNCHANGED timerVars
           \/ ExpireTimer
           \/ \E a \in Threads, t \in Timers, tv \in Delays : ril_timer_add(a, t, tv)
BY DEF vars, tableVars, timerVars, loopVars, Goto,
       Next, LoopStep, LoopEntersSelect, LoopReturnsFromSelect, LibraryCall,
       StartLoop, OpenPipe, CopyReadFds, calcNextTimeout, SelectReturns, BeginTimeouts,
       EndTimeouts, BeginReadReadies, ScanSlot, EndReadReadies, FireEvent,
       CallbackReturns, EndFirePending, PipeFails, SelectInterrupted, SelectFails,
       ril_event_add, ril_event_del, triggerEvLoop, Tick, DataArrives

\* Removing the first element of a list shifts the others.
LEMMA TailFacts ==
    ASSUME NEW S, NEW list \in Seq(S), list # <<>>
    PROVE  /\ Len(Tail(list)) = Len(list) - 1
           /\ Len(list) \in Nat \ {0}
           /\ Head(list) = list[1]
           /\ \A i \in 1 .. Len(Tail(list)) :
                /\ Tail(list)[i] = list[i + 1]
                /\ i + 1 \in 1 .. Len(list)
OBVIOUS

\* Appending an element puts it last.
LEMMA AppendFacts ==
    ASSUME NEW S, NEW list \in Seq(S), NEW e \in S
    PROVE  /\ Len(Append(list, e)) = Len(list) + 1
           /\ Len(list) \in Nat
           /\ Append(list, e)[Len(list) + 1] = e
           /\ \A i \in 1 .. Len(list) : Append(list, e)[i] = list[i]
OBVIOUS

\* Adding a timer where ril_timer_add's walk stops keeps the list sorted,
\* and the timeouts of the timers already on it.
LEMMA TimerAddFacts ==
    ASSUME TypeOK, TimerListSorted,
           NEW a \in Threads, NEW t \in Timers, NEW tv \in Delays, ril_timer_add(a, t, tv)
    PROVE  /\ TimerListSorted'
           /\ Len(timer_list') = Len(timer_list) + 1
           /\ \A u \in Timers : u # t => timeout'[u] = timeout[u]
           /\ \E k \in 0 .. Len(timer_list) :
                \A i \in 1 .. Len(timer_list') :
                  timer_list'[i] = IF i <= k THEN timer_list[i]
                                   ELSE IF i = k + 1 THEN t ELSE timer_list[i - 1]
<1> DEFINE when == now + tv
<1>1. PICK k \in 0 .. Len(timer_list) :
        /\ insertionPoint(timer_list, k, when)
        /\ timer_list' = insertTimer(timer_list, k, t)
  BY DEF ril_timer_add
<1>2. Len(timer_list) \in Nat /\ \A i \in 1 .. Len(timer_list) : timer_list[i] \in Timers
  BY DEF TypeOK
<1>3. /\ Len(timer_list') = Len(timer_list) + 1
      /\ \A i \in 1 .. Len(timer_list') :
           timer_list'[i] = IF i <= k THEN timer_list[i]
                            ELSE IF i = k + 1 THEN t ELSE timer_list[i - 1]
  <2>1. timer_list \in Seq(Timers)
    BY DEF TypeOK
  <2>2. /\ Len(insertTimer(timer_list, k, t)) = Len(timer_list) + 1
        /\ \A i \in 1 .. Len(timer_list) + 1 :
             insertTimer(timer_list, k, t)[i] =
               IF i <= k THEN timer_list[i]
               ELSE IF i = k + 1 THEN t ELSE timer_list[i - 1]
    BY <2>1, InsertTimerType
  <2> QED
    BY <1>1, <2>2
<1>4. when \in Nat
  BY BoundsAssumption DEF TypeOK
<1>5. timeout'[t] = when /\ \A u \in Timers : u # t => timeout'[u] = timeout[u]
  <2>1. timeout' = [timeout EXCEPT ![t] = now + tv]
    BY DEF ril_timer_add
  <2> QED
    BY <2>1 DEF TypeOK
<1>6. \A i \in 1 .. Len(timer_list) : timer_list[i] # t
  BY DEF ril_timer_add, OnList
<1>7. \A i \in 1 .. Len(timer_list) :
         /\ timeout[timer_list[i]] \in Nat
         /\ timeout'[timer_list[i]] = timeout[timer_list[i]]
  BY <1>2, <1>5, <1>6 DEF TypeOK
<1>8. \A i \in 1 .. k : timeout[timer_list[i]] < when
  BY <1>1 DEF insertionPoint
<1>9. \A i \in k + 1 .. Len(timer_list) : when <= timeout[timer_list[i]]
  <2> SUFFICES ASSUME NEW i \in k + 1 .. Len(timer_list)
               PROVE  when <= timeout[timer_list[i]]
    OBVIOUS
  <2>1. k + 1 \in 1 .. Len(timer_list) /\ i \in 1 .. Len(timer_list)
    BY <1>2
  <2>2. when <= timeout[timer_list[k + 1]]
    BY <1>1, <1>2, <1>4, <1>7, <2>1 DEF insertionPoint
  <2>3. timeout[timer_list[k + 1]] <= timeout[timer_list[i]]
    BY <1>7, <2>1 DEF TimerListSorted
  <2> QED
    BY <1>4, <1>7, <2>1, <2>2, <2>3
<1>10. TimerListSorted'
  <2> SUFFICES ASSUME NEW i \in 1 .. Len(timer_list'), NEW j \in 1 .. Len(timer_list'),
                      i < j
               PROVE  timeout'[timer_list'[i]] <= timeout'[timer_list'[j]]
    BY DEF TimerListSorted
  <2>0. k \in Nat /\ i \in Nat /\ j \in Nat
    BY <1>2, <1>3
  <2>1. CASE j <= k
    <3>1. i \in 1 .. Len(timer_list) /\ j \in 1 .. Len(timer_list)
      BY <1>2, <1>3, <2>0, <2>1
    <3>2. timer_list'[i] = timer_list[i] /\ timer_list'[j] = timer_list[j]
      BY <1>3, <2>0, <2>1
    <3> QED
      BY <1>7, <3>1, <3>2 DEF TimerListSorted
  <2>2. CASE j = k + 1
    <3>1. i \in 1 .. k /\ i \in 1 .. Len(timer_list)
      BY <1>2, <2>0, <2>2
    <3>2. timer_list'[i] = timer_list[i] /\ timer_list'[j] = t
      BY <1>3, <2>0, <2>2, <3>1
    <3> QED
      BY <1>4, <1>5, <1>7, <1>8, <3>1, <3>2
  <2>3. CASE j > k + 1
    <3>1. j - 1 \in k + 1 .. Len(timer_list) /\ j - 1 \in 1 .. Len(timer_list)
      BY <1>2, <1>3, <2>0, <2>3
    <3>2. timer_list'[j] = timer_list[j - 1]
      BY <1>3, <2>0, <2>3
    <3>3. CASE i <= k
      <4>1. i \in 1 .. k /\ i \in 1 .. Len(timer_list) /\ timer_list'[i] = timer_list[i]
        BY <1>2, <1>3, <2>0, <3>3
      <4> QED
        BY <1>4, <1>7, <1>8, <1>9, <3>1, <3>2, <4>1, SMTT(30)
    <3>4. CASE i = k + 1
      <4>1. timer_list'[i] = t
        BY <1>3, <2>0, <3>4
      <4> QED
        BY <1>4, <1>5, <1>7, <1>9, <3>1, <3>2, <4>1
    <3>5. CASE i > k + 1
      <4>1. i - 1 \in 1 .. Len(timer_list) /\ timer_list'[i] = timer_list[i - 1]
            /\ i - 1 < j - 1
        BY <1>2, <1>3, <2>0, <3>5
      <4> QED
        BY <1>7, <3>1, <3>2, <4>1 DEF TimerListSorted
    <3> QED
      BY <2>0, <3>3, <3>4, <3>5
  <2> QED
    BY <2>0, <2>1, <2>2, <2>3
<1> QED
  BY <1>3, <1>5, <1>10

LEMMA TimerListStep ==
    ASSUME TypeOK, TimerListSorted, [Next]_vars
    PROVE  TimerListSorted'
<1>1. CASE UNCHANGED timerVars
  BY <1>1 DEF TimerListSorted, timerVars
<1>2. CASE ExpireTimer
  <2>1. timer_list \in Seq(Timers) /\ timer_list # <<>> /\ timer_list' = Tail(timer_list)
        /\ timeout' = timeout
    BY <1>2 DEF TypeOK, ExpireTimer
  <2>2. \A i \in 1 .. Len(timer_list') :
          timer_list'[i] = timer_list[i + 1] /\ i + 1 \in 1 .. Len(timer_list)
    BY <2>1, TailFacts
  <2> SUFFICES ASSUME NEW i \in 1 .. Len(timer_list'), NEW j \in 1 .. Len(timer_list'),
                      i < j
               PROVE  timeout'[timer_list'[i]] <= timeout'[timer_list'[j]]
    BY DEF TimerListSorted
  <2>3. i + 1 < j + 1
    OBVIOUS
  <2> QED
    BY <2>1, <2>2, <2>3 DEF TimerListSorted
<1> QED
  BY <1>1, <1>2, TimerStep, TimerAddFacts

-----------------------------------------------------------------------------
(* The pending list.                                                       *)

\* A call of the library leaves the loop and its lists of events to fire
\* alone, is not made during a walk, and keeps the pipe's event.
LEMMA CallFacts ==
    ASSUME TypeOK, NEW a \in Threads, LibraryCall(a)
    PROVE  /\ UNCHANGED <<loop, now, pending_list, loopVars, ready>>
           /\ loop \notin {"timeouts", "readies"}
           /\ index'[Wake] = index[Wake]
<1>1. Wake \in Watches /\ Wake \in Events /\ Wake \notin Timers
  BY EventsAssumption DEF Events
<1>2. loop \notin {"timeouts", "readies"}
  BY DEF LibraryCall, ril_timer_add, ril_event_add, ril_event_del, MayCall, Locked
<1>3. ASSUME NEW w \in Watches, ril_event_add(a, w)
      PROVE  index'[Wake] = index[Wake]
  BY <1>1, <1>3 DEF TypeOK, TableTypeOK, ril_event_add, addWatch, tableVars
<1>4. ASSUME NEW e \in Events, ril_event_del(a, e)
      PROVE  index'[Wake] = index[Wake]
  BY <1>1, <1>4 DEF TypeOK, TableTypeOK, ril_event_del, removeWatch, tableVars
<1>5. ASSUME NEW t \in Timers, NEW tv \in Delays, ril_timer_add(a, t, tv)
      PROVE  index'[Wake] = index[Wake]
  BY <1>5 DEF ril_timer_add, tableVars
<1>6. index'[Wake] = index[Wake]
  BY <1>3, <1>4, <1>5 DEF LibraryCall
<1>7. UNCHANGED <<loop, now, pending_list, loopVars, ready>>
  BY DEF LibraryCall, ril_timer_add, ril_event_add, ril_event_del
<1> QED
  BY <1>2, <1>6, <1>7

LEMMA PhaseStep ==
    ASSUME TypeOK, WatchTableConsistent, PhaseInv, [Next]_vars
    PROVE  PhaseInv'
<1> USE DEF tableVars, timerVars, loopVars, Goto
<1>1. ASSUME NEW a \in Threads, LibraryCall(a)
      PROVE  PhaseInv'
  BY <1>1, CallFacts DEF PhaseInv
<1>2. CASE \E c \in Clients : triggerEvLoop(c)
  BY <1>2 DEF PhaseInv, triggerEvLoop
<1>3. CASE StartLoop
  BY <1>3 DEF PhaseInv, StartLoop
<1>4. CASE OpenPipe \/ PipeFails
  BY <1>4 DEF PhaseInv, OpenPipe, PipeFails
<1>5. CASE CopyReadFds \/ SelectReturns \/ SelectInterrupted \/ SelectFails
  BY <1>5 DEF PhaseInv, CopyReadFds, SelectReturns, SelectInterrupted, SelectFails
<1>6. CASE calcNextTimeout
  BY <1>6 DEF PhaseInv, calcNextTimeout
<1>7. CASE BeginTimeouts
  <2>1. pending_list' = <<>>
    BY <1>7 DEF PhaseInv, BeginTimeouts
  <2>2. walkNow' <= now'
    BY <1>7 DEF BeginTimeouts, TypeOK
  <2> QED
    BY <1>7, <2>1, <2>2 DEF PhaseInv, BeginTimeouts
<1>8. CASE ExpireTimer
  <2>1. Head(timer_list) \in Timers
    BY <1>8 DEF TypeOK, ExpireTimer
  <2>2. pending_list \in Seq(Events) /\ Head(timer_list) \in Events
    BY <2>1 DEF TypeOK, Events
  <2>3. \A i \in 1 .. Len(pending_list) : pending_list[i] \in Timers
    BY <1>8 DEF PhaseInv, ExpireTimer
  <2>4. \A i \in 1 .. Len(pending_list') : pending_list'[i] \in Timers
    BY <1>8, <2>1, <2>2, <2>3, AppendFacts DEF ExpireTimer
  <2> QED
    BY <1>8, <2>4 DEF PhaseInv, ExpireTimer
<1>9. CASE EndTimeouts
  BY <1>9 DEF PhaseInv, EndTimeouts
<1>10. CASE BeginReadReadies
  BY <1>10, EventsAssumption DEF PhaseInv, BeginReadReadies
<1>11. CASE ScanSlot
  <2>1. scan \in Slots /\ scan \in Nat /\ scan' = scan + 1
    BY <1>11, BoundsAssumption DEF TypeOK, ScanSlot, Slots
  <2>2. \A i \in 1 .. Len(pending_list) :
          pending_list[i] \in Watches => index[pending_list[i]] < scan
    BY <1>11 DEF PhaseInv, ScanSlot
  <2>3. \A w \in Watches : index[w] \in Int /\ w \in Events
    BY BoundsAssumption DEF TypeOK, TableTypeOK, Events, Slots
  <2>4. CASE UNCHANGED <<pending_list, tableVars>>
    BY <1>11, <2>1, <2>2, <2>3, <2>4 DEF PhaseInv, ScanSlot
  <2>5. CASE /\ watch_table[scan] # NoEvent
             /\ pending_list' = Append(pending_list, watch_table[scan])
             /\ UNCHANGED tableVars \/ removeWatch(watch_table[scan], scan)
    <3> DEFINE w == watch_table[scan]
    <3>1. w \in Watches /\ w \in Events /\ index[w] = scan
      BY <2>1, <2>3, <2>5 DEF TypeOK, TableTypeOK, WatchTableConsistent
    <3>2. \A v \in Watches : index'[v] = index[v] \/ (v = w /\ index'[v] = -1)
      BY <2>3, <2>5, <3>1 DEF removeWatch, TypeOK, TableTypeOK
    <3>3. pending_list \in Seq(Events)
      BY DEF TypeOK
    <3>4. \A i \in 1 .. Len(pending_list') :
             pending_list'[i] = w \/ (i \in 1 .. Len(pending_list)
                                        /\ pending_list'[i] = pending_list[i])
      BY <2>5, <3>1, <3>3, AppendFacts
    <3>5. \A i \in 1 .. Len(pending_list') :
             pending_list'[i] \in Watches => index'[pending_list'[i]] < scan'
      BY <2>1, <2>2, <2>3, <3>1, <3>2, <3>4
    <3> QED
      BY <1>11, <3>5 DEF PhaseInv, ScanSlot
  <2> QED
    BY <1>11, <2>4, <2>5 DEF ScanSlot
<1>12. CASE EndReadReadies \/ FireEvent \/ CallbackReturns \/ EndFirePending
  BY <1>12 DEF PhaseInv, EndReadReadies, FireEvent, CallbackReturns, EndFirePending
<1>13. CASE Tick
  BY <1>13 DEF PhaseInv, Tick, TypeOK
<1>14. CASE \E w \in Watches : DataArrives(w)
  BY <1>14 DEF PhaseInv, DataArrives
<1>15. CASE UNCHANGED vars
  BY <1>15 DEF PhaseInv, vars
<1> QED
  BY <1>1, <1>2, <1>3, <1>4, <1>5, <1>6, <1>7, <1>8, <1>9, <1>10, <1>11, <1>12,
     <1>13, <1>14, <1>15 DEF Next, LoopStep, LoopEntersSelect, LoopReturnsFromSelect

\* The pending list grows in the two walks and shrinks in firePending.
LEMMA PendingStep ==
    ASSUME [Next]_vars
    PROVE  \/ UNCHANGED pending_list
           \/ ExpireTimer
           \/ FireEvent
           \/ /\ ScanSlot
              /\ watch_table[scan] # NoEvent
              /\ pending_list' = Append(pending_list, watch_table[scan])
BY DEF vars, tableVars, timerVars, loopVars, Goto,
       Next, LoopStep, LoopEntersSelect, LoopReturnsFromSelect, LibraryCall,
       StartLoop, OpenPipe, CopyReadFds, calcNextTimeout, SelectReturns, BeginTimeouts,
       EndTimeouts, BeginReadReadies, ScanSlot, EndReadReadies,
       CallbackReturns, EndFirePending, PipeFails, SelectInterrupted, SelectFails,
       ril_timer_add, ril_event_add, ril_event_del, triggerEvLoop, Tick, DataArrives

LEMMA LinkedOnceStep ==
    ASSUME TypeOK, WatchTableConsistent, TimerListSorted, LinkedOnce, PhaseInv, [Next]_vars
    PROVE  LinkedOnce'
<1> USE DEF tableVars, timerVars, loopVars, Goto
<1>0. /\ timer_list \in Seq(Timers) /\ pending_list \in Seq(Events)
      /\ Len(timer_list) \in Nat /\ Len(pending_list) \in Nat
  BY DEF TypeOK
<1>1. ASSUME NEW a \in Threads, NEW t \in Timers, NEW tv \in Delays, ril_timer_add(a, t, tv)
      PROVE  LinkedOnce'
  <2>1. pending_list' = pending_list /\ ~OnList(t, timer_list) /\ ~OnList(t, pending_list)
    BY <1>1 DEF ril_timer_add
  <2>2. Len(timer_list') = Len(timer_list) + 1
    BY <1>1, TimerAddFacts
  <2>3. PICK k \in 0 .. Len(timer_list) :
          \A i \in 1 .. Len(timer_list') :
            timer_list'[i] = IF i <= k THEN timer_list[i]
                             ELSE IF i = k + 1 THEN t ELSE timer_list[i - 1]
    BY <1>1, TimerAddFacts
  <2>4. \A i \in 1 .. Len(timer_list') :
          \/ i <= k /\ i \in 1 .. Len(timer_list) /\ timer_list'[i] = timer_list[i]
          \/ i = k + 1 /\ timer_list'[i] = t
          \/ i > k + 1 /\ i - 1 \in 1 .. Len(timer_list) /\ timer_list'[i] = timer_list[i - 1]
    BY <1>0, <2>2, <2>3
  <2>5. ASSUME NEW i \in 1 .. Len(timer_list'), NEW j \in 1 .. Len(timer_list'),
               timer_list'[i] = timer_list'[j]
        PROVE  i = j
    BY <1>0, <2>1, <2>2, <2>4, <2>5, SMTT(30) DEF LinkedOnce, OnList
  <2>6. ASSUME NEW i \in 1 .. Len(timer_list'), NEW j \in 1 .. Len(pending_list')
        PROVE  timer_list'[i] # pending_list'[j]
    <3>1. j \in 1 .. Len(pending_list) /\ pending_list'[j] = pending_list[j]
      BY <2>1
    <3>2. timer_list'[i] = t \/ \E m \in 1 .. Len(timer_list) : timer_list'[i] = timer_list[m]
      BY <2>4
    <3>3. pending_list[j] # t
      BY <2>1, <3>1 DEF OnList
    <3> QED
      BY <3>1, <3>2, <3>3 DEF LinkedOnce
  <2> QED
    BY <2>1, <2>5, <2>6 DEF LinkedOnce
<1>2. CASE ExpireTimer
  <2>1. timer_list # <<>> /\ timer_list' = Tail(timer_list)
        /\ pending_list' = Append(pending_list, Head(timer_list))
    BY <1>2 DEF ExpireTimer
  <2>2. Head(timer_list) \in Timers /\ Head(timer_list) \in Events
        /\ Head(timer_list) = timer_list[1] /\ 1 \in 1 .. Len(timer_list)
    BY <1>0, <2>1 DEF Events
  <2>3. \A i \in 1 .. Len(timer_list') :
          timer_list'[i] = timer_list[i + 1] /\ i + 1 \in 1 .. Len(timer_list)
    BY <1>0, <2>1, TailFacts
  <2>4. \A i \in 1 .. Len(pending_list') :
          \/ i \in 1 .. Len(pending_list) /\ pending_list'[i] = pending_list[i]
          \/ i = Len(pending_list) + 1 /\ pending_list'[i] = timer_list[1]
    BY <1>0, <2>1, <2>2, AppendFacts
  <2>5. ASSUME NEW i \in 1 .. Len(timer_list'), NEW j \in 1 .. Len(timer_list'),
               timer_list'[i] = timer_list'[j]
        PROVE  i = j
    <3>1. i + 1 = j + 1
      BY <2>3, <2>5 DEF LinkedOnce
    <3> QED
      BY <3>1
  <2>6. ASSUME NEW i \in 1 .. Len(pending_list'), NEW j \in 1 .. Len(pending_list'),
               pending_list'[i] = pending_list'[j]
        PROVE  i = j
    BY <2>2, <2>4, <2>6 DEF LinkedOnce
  <2>7. ASSUME NEW i \in 1 .. Len(timer_list'), NEW j \in 1 .. Len(pending_list')
        PROVE  timer_list'[i] # pending_list'[j]
    <3>1. i + 1 # 1
      OBVIOUS
    <3> QED
      BY <2>2, <2>3, <2>4, <3>1 DEF LinkedOnce
  <2> QED
    BY <2>5, <2>6, <2>7 DEF LinkedOnce
<1>3. CASE /\ ScanSlot
           /\ watch_table[scan] # NoEvent
           /\ pending_list' = Append(pending_list, watch_table[scan])
  <2> DEFINE w == watch_table[scan]
  <2>1. scan \in Slots /\ scan \in Nat
    BY <1>3, BoundsAssumption DEF TypeOK, ScanSlot, Slots
  <2>2. w \in Watches /\ w \in Events /\ index[w] = scan
    BY <1>3, <2>1 DEF TypeOK, TableTypeOK, WatchTableConsistent, Events
  <2>3. \A i \in 1 .. Len(pending_list) : pending_list[i] # w
    BY <1>3, <2>1, <2>2 DEF PhaseInv, ScanSlot
  <2>4. \A i \in 1 .. Len(timer_list) : timer_list[i] # w
    BY <1>0, <2>2, EventsAssumption
  <2>5. \A i \in 1 .. Len(pending_list') :
          \/ i \in 1 .. Len(pending_list) /\ pending_list'[i] = pending_list[i]
          \/ i = Len(pending_list) + 1 /\ pending_list'[i] = w
    BY <1>0, <1>3, <2>2, AppendFacts
  <2>6. timer_list' = timer_list
    BY <1>3 DEF ScanSlot
  <2> HIDE DEF w
  <2>7. ASSUME NEW i \in 1 .. Len(pending_list'), NEW j \in 1 .. Len(pending_list'),
               pending_list'[i] = pending_list'[j]
        PROVE  i = j
    BY <2>3, <2>5, <2>7 DEF LinkedOnce
  <2>8. ASSUME NEW i \in 1 .. Len(timer_list'), NEW j \in 1 .. Len(pending_list')
        PROVE  timer_list'[i] # pending_list'[j]
    BY <2>4, <2>5, <2>6 DEF LinkedOnce
  <2> QED
    BY <2>6, <2>7, <2>8 DEF LinkedOnce
<1>4. CASE FireEvent
  <2>1. pending_list # <<>> /\ pending_list' = Tail(pending_list) /\ timer_list' = timer_list
    BY <1>4 DEF FireEvent
  <2>2. \A i \in 1 .. Len(pending_list') :
          pending_list'[i] = pending_list[i + 1] /\ i + 1 \in 1 .. Len(pending_list)
    BY <1>0, <2>1, TailFacts
  <2>3. ASSUME NEW i \in 1 .. Len(pending_list'), NEW j \in 1 .. Len(pending_list'),
               pending_list'[i] = pending_list'[j]
        PROVE  i = j
    <3>1. i + 1 = j + 1
      BY <2>2, <2>3 DEF LinkedOnce
    <3> QED
      BY <3>1
  <2> QED
    BY <2>1, <2>2, <2>3 DEF LinkedOnce
<1>5. CASE UNCHANGED timerVars /\ UNCHANGED pending_list
  BY <1>5 DEF LinkedOnce
<1>6. CASE UNCHANGED timerVars
  BY <1>2, <1>3, <1>4, <1>5, <1>6, PendingStep
<1> QED
  BY <1>1, <1>2, <1>6, TimerStep

LEMMA NeverEarlyStep ==
    ASSUME TypeOK, LinkedOnce, NeverEarly, PhaseInv, [Next]_vars
    PROVE  NeverEarly'
<1> USE DEF tableVars, timerVars, loopVars, Goto
<1>0. timer_list \in Seq(Timers) /\ pending_list \in Seq(Events)
      /\ now \in Nat /\ walkNow \in Nat /\ timeout \in [Timers -> Nat]
  BY DEF TypeOK
<1>1. now' \in Nat /\ now <= now'
  BY <1>0, TypeStep DEF vars,
       Next, LoopStep, LoopEntersSelect, LoopReturnsFromSelect, LibraryCall,
       StartLoop, OpenPipe, CopyReadFds, calcNextTimeout, SelectReturns, BeginTimeouts,
       ExpireTimer, EndTimeouts, BeginReadReadies, ScanSlot, EndReadReadies, FireEvent,
       CallbackReturns, EndFirePending, PipeFails, SelectInterrupted, SelectFails,
       ril_timer_add, ril_event_add, ril_event_del, triggerEvLoop, Tick, DataArrives
<1>2. ASSUME NEW a \in Threads, NEW t \in Timers, NEW tv \in Delays, ril_timer_add(a, t, tv)
      PROVE  NeverEarly'
  <2>1. ~OnList(t, pending_list) /\ cur # t /\ timeout' = [timeout EXCEPT ![t] = now + tv]
        /\ pending_list' = pending_list /\ cur' = cur /\ now' = now
    BY <1>2 DEF ril_timer_add
  <2> QED
    BY <1>0, <2>1 DEF NeverEarly, OnList
<1>3. CASE ExpireTimer
  <2>1. Head(timer_list) \in Timers /\ Head(timer_list) \in Events
        /\ timeout[Head(timer_list)] <= now
    BY <1>0, <1>3 DEF ExpireTimer, Expired, PhaseInv, Events
  <2>2. \A i \in 1 .. Len(pending_list') :
          \/ i \in 1 .. Len(pending_list) /\ pending_list'[i] = pending_list[i]
          \/ pending_list'[i] = Head(timer_list)
    BY <1>0, <1>3, <2>1, AppendFacts DEF ExpireTimer
  <2>3. timeout' = timeout /\ cur' = cur /\ now' = now
    BY <1>3 DEF ExpireTimer
  <2> QED
    BY <2>1, <2>2, <2>3 DEF NeverEarly
<1>4. CASE FireEvent
  <2>1. pending_list # <<>> /\ pending_list' = Tail(pending_list)
        /\ cur' = Head(pending_list) /\ timeout' = timeout /\ now' = now
    BY <1>4 DEF FireEvent
  <2>2. Head(pending_list) = pending_list[1] /\ 1 \in 1 .. Len(pending_list)
    BY <1>0, <2>1
  <2>3. \A i \in 1 .. Len(pending_list') :
          pending_list'[i] = pending_list[i + 1] /\ i + 1 \in 1 .. Len(pending_list)
    BY <1>0, <2>1, TailFacts
  <2> QED
    BY <2>1, <2>2, <2>3 DEF NeverEarly
<1>5. CASE UNCHANGED timerVars
  <2>1. CASE UNCHANGED pending_list
    <3>1. cur' = cur \/ cur' = NoEvent
      BY <2>1, <1>4 DEF vars,
       Next, LoopStep, LoopEntersSelect, LoopReturnsFromSelect, LibraryCall,
       StartLoop, OpenPipe, CopyReadFds, calcNextTimeout, SelectReturns, BeginTimeouts,
       ExpireTimer, EndTimeouts, BeginReadReadies, ScanSlot, EndReadReadies, FireEvent,
       CallbackReturns, EndFirePending, PipeFails, SelectInterrupted, SelectFails,
       ril_timer_add, ril_event_add, ril_event_del, triggerEvLoop, Tick, DataArrives
    <3>2. NoEvent \notin Timers
      BY EventsAssumption DEF Events
    <3> QED
      BY <1>0, <1>1, <1>5, <2>1, <3>1, <3>2 DEF NeverEarly
  <2>2. CASE ScanSlot /\ watch_table[scan] # NoEvent
             /\ pending_list' = Append(pending_list, watch_table[scan])
    <3>1. scan \in Slots
      BY <2>2, BoundsAssumption DEF TypeOK, ScanSlot, Slots
    <3>2. watch_table[scan] \in Watches /\ watch_table[scan] \in Events
          /\ watch_table[scan] \notin Timers
      BY <2>2, <3>1, EventsAssumption DEF TypeOK, TableTypeOK, Events
    <3>3. \A i \in 1 .. Len(pending_list') :
            \/ i \in 1 .. Len(pending_list) /\ pending_list'[i] = pending_list[i]
            \/ pending_list'[i] \notin Timers
      BY <1>0, <2>2, <3>2, AppendFacts
    <3>4. timeout' = timeout /\ cur' = cur /\ now' = now
      BY <2>2 DEF ScanSlot
    <3> QED
      BY <3>3, <3>4 DEF NeverEarly
  <2> QED
    BY <1>3, <1>4, <2>1, <2>2, PendingStep
<1> QED
  BY <1>2, <1>3, <1>5, TimerStep

-----------------------------------------------------------------------------
(* No wakeup is lost.                                                      *)

LEMMA WakeupStep ==
    ASSUME TypeOK, TimerListSorted, WakeupNotLost, PhaseInv, [Next]_vars
    PROVE  WakeupNotLost'
<1> USE DEF tableVars, timerVars, loopVars, Goto
<1>0. timer_list \in Seq(Timers) /\ now \in Nat /\ timeout \in [Timers -> Nat]
      /\ Len(timer_list) \in Nat
      /\ \A i \in 1 .. Len(timer_list) :
           timer_list[i] \in Timers /\ timeout[timer_list[i]] \in Nat
  BY DEF TypeOK
<1> SUFFICES ASSUME loop' = "select", NEW i \in 1 .. Len(timer_list')
             PROVE  \/ deadline' # NoTimeout /\ deadline' <= timeout'[timer_list'[i]]
                    \/ deadline' # NoTimeout /\ deadline' <= now'
                    \/ Fd[Wake] \in ready'
                    \/ \E c \in Clients : adding'[c] = timer_list'[i]
  BY DEF WakeupNotLost
<1> DEFINE Goal == \/ deadline' # NoTimeout /\ deadline' <= timeout'[timer_list'[i]]
                   \/ deadline' # NoTimeout /\ deadline' <= now'
                   \/ Fd[Wake] \in ready'
                   \/ \E c \in Clients : adding'[c] = timer_list'[i]
\* Entering select: the loop saw the first timer that is not being added.
<1>1. CASE calcNextTimeout
  <2>1. UNCHANGED <<now, timer_list, timeout, ready, adding>>
    BY <1>1 DEF calcNextTimeout
  <2>2. PICK unseen \in SUBSET {t \in Timers : \E c \in Clients : adding[c] = t} :
         \/ /\ \A j \in 1 .. Len(timer_list) : timer_list[j] \in unseen
            /\ deadline' = NoTimeout
         \/ \E h \in 1 .. Len(timer_list) :
              /\ \A j \in 1 .. h - 1 : timer_list[j] \in unseen
              /\ \/ /\ timer_list[h] \notin unseen
                    /\ deadline' = now + remaining(timeout[timer_list[h]])
                 \/ /\ timer_list[h] \in unseen
                    /\ \E seen \in 0 .. timeout[timer_list[h]] :
                         deadline' = now + remaining(seen)
    BY <1>1 DEF calcNextTimeout
  <2>3. CASE timer_list[i] \in unseen
    BY <2>1, <2>2, <2>3
  <2>4. CASE timer_list[i] \notin unseen
    <3>1. PICK h \in 1 .. Len(timer_list) :
              /\ \A j \in 1 .. h - 1 : timer_list[j] \in unseen
              /\ \E seen \in 0 .. timeout[timer_list[h]] :
                    deadline' = now + remaining(seen)
      <4>1. i \in 1 .. Len(timer_list)
        BY <2>1
      <4>2. PICK h \in 1 .. Len(timer_list) :
              /\ \A j \in 1 .. h - 1 : timer_list[j] \in unseen
              /\ \/ deadline' = now + remaining(timeout[timer_list[h]])
                 \/ \E seen \in 0 .. timeout[timer_list[h]] :
                      deadline' = now + remaining(seen)
        BY <2>2, <2>4, <4>1
      <4>3. timeout[timer_list[h]] \in 0 .. timeout[timer_list[h]]
        <5>1. timer_list[h] \in Timers
          BY <4>2 DEF TypeOK
        <5>2. timeout[timer_list[h]] \in Nat
          BY <5>1 DEF TypeOK
        <5> QED
          BY <5>2
      <4> QED
        BY <4>2, <4>3
    <3>2. PICK seen \in 0 .. timeout[timer_list[h]] : deadline' = now + remaining(seen)
      BY <3>1
    <3>3. seen \in Nat /\ seen <= timeout[timer_list[h]]
      BY <1>0, <3>2
    <3>4. i \in 1 .. Len(timer_list) /\ h <= i
      BY <1>0, <2>1, <2>4, <3>1
    <3>5. timeout[timer_list[h]] <= timeout[timer_list[i]]
      <4>1. CASE h = i
        BY <1>0, <3>4, <4>1
      <4>2. CASE h < i
        BY <3>4, <4>2 DEF TimerListSorted
      <4> QED
        BY <3>4, <4>1, <4>2
    <3>6. deadline' # NoTimeout /\ (deadline' <= seen \/ deadline' <= now)
      BY <1>0, <3>2, <3>3 DEF remaining, NoTimeout
    <3>7. deadline' \in Nat
      BY <1>0, <3>2, <3>3 DEF remaining
    <3> QED
      BY <1>0, <2>1, <3>3, <3>4, <3>5, <3>6, <3>7
  <2> QED
    BY <2>3, <2>4
\* A client adds a timer: it is about to trigger the loop.
<1>2. ASSUME NEW a \in Threads, NEW t \in Timers, NEW tv \in Delays, ril_timer_add(a, t, tv)
      PROVE  Goal
  <2>1. loop = "select" /\ a \in Clients /\ a # Loop
    BY <1>2, ThreadsAssumption DEF ril_timer_add, MayCall
  <2>2. adding' = [adding EXCEPT ![a] = t] /\ adding[a] = NoEvent
        /\ UNCHANGED <<deadline, now, ready>> /\ adding \in [Clients -> Events \cup {NoEvent}]
    BY <1>2, <2>1 DEF ril_timer_add, ThenTrigger, MayCall, TypeOK
  <2>3. /\ Len(timer_list') = Len(timer_list) + 1
        /\ \A u \in Timers : u # t => timeout'[u] = timeout[u]
    BY <1>2, TimerAddFacts
  <2>4. PICK k \in 0 .. Len(timer_list) :
          \A j \in 1 .. Len(timer_list') :
            timer_list'[j] = IF j <= k THEN timer_list[j]
                             ELSE IF j = k + 1 THEN t ELSE timer_list[j - 1]
    BY <1>2, TimerAddFacts
  <2>5. CASE timer_list'[i] = t
    BY <2>1, <2>2, <2>5
  <2>6. CASE timer_list'[i] # t
    <3>1. PICK m \in 1 .. Len(timer_list) : timer_list'[i] = timer_list[m]
      <4>1. \/ i <= k /\ i \in 1 .. Len(timer_list) /\ timer_list'[i] = timer_list[i]
            \/ i > k + 1 /\ i - 1 \in 1 .. Len(timer_list) /\ timer_list'[i] = timer_list[i - 1]
        <5>1. timer_list'[i] = IF i <= k THEN timer_list[i]
                               ELSE IF i = k + 1 THEN t ELSE timer_list[i - 1]
          BY <2>4
        <5>2. /\ Len(timer_list) \in Nat
              /\ i \in Nat /\ 1 <= i /\ i <= Len(timer_list) + 1
          BY <1>0, <2>3
        <5>3. CASE i <= k
          BY <5>1, <5>2, <5>3
        <5>4. CASE i > k
          <6>1. i # k + 1
            BY <2>6, <5>1, <5>2, <5>4
          <6> QED
            BY <5>1, <5>2, <5>4, <6>1
        <5> QED
          BY <5>2, <5>3, <5>4
      <4> QED
        BY <4>1
    <3>2. timeout'[timer_list'[i]] = timeout[timer_list[m]]
      BY <1>0, <2>3, <2>6, <3>1
    <3>3. \A c \in Clients : adding[c] = timer_list[m] => adding'[c] = timer_list[m]
      <4>1. timer_list[m] # NoEvent
        BY <1>0, EventsAssumption DEF Events
      <4> QED
        BY <2>1, <2>2, <4>1
    <3> QED
      BY <2>1, <2>2, <3>1, <3>2, <3>3 DEF WakeupNotLost
  <2> QED
    BY <2>5, <2>6
\* A client triggers the loop: the pipe is open.
<1>3. ASSUME NEW c \in Clients, triggerEvLoop(c)
      PROVE  Goal
  BY <1>3 DEF triggerEvLoop, PipeOpen
<1>4. ASSUME NEW a \in Threads, NEW w \in Watches, ril_event_add(a, w)
      PROVE  Goal
  <2>1. loop = "select" /\ a \in Clients /\ a # Loop
    BY <1>4, ThreadsAssumption DEF ril_event_add, MayCall
  <2>2. adding' = [adding EXCEPT ![a] = w] /\ adding[a] = NoEvent
        /\ UNCHANGED <<deadline, now, ready, timer_list, timeout>>
        /\ adding \in [Clients -> Events \cup {NoEvent}]
    BY <1>4, <2>1 DEF ril_event_add, ThenTrigger, MayCall, TypeOK
  <2>3. timer_list[i] # NoEvent
    BY <1>0, <2>2, EventsAssumption DEF Events
  <2> QED
    BY <2>1, <2>2, <2>3 DEF WakeupNotLost
<1>5. ASSUME NEW a \in Threads, NEW e \in Events, ril_event_del(a, e)
      PROVE  Goal
  BY <1>5 DEF ril_event_del, WakeupNotLost
<1>6. CASE Tick
  <2>1. UNCHANGED <<loop, deadline, ready, timer_list, timeout, adding>> /\ now <= now'
        /\ now' \in Nat
    BY <1>0, <1>6 DEF Tick
  <2>2. deadline \in Int
    BY DEF TypeOK, NoTimeout
  <2> QED
    BY <1>0, <2>1, <2>2 DEF WakeupNotLost
<1>7. CASE \E w \in Watches : DataArrives(w)
  BY <1>7 DEF DataArrives, WakeupNotLost
<1>8. CASE UNCHANGED vars
  BY <1>8 DEF vars, WakeupNotLost
<1>9. ASSUME \/ LoopReturnsFromSelect \/ StartLoop \/ OpenPipe \/ CopyReadFds
             \/ SelectReturns \/ PipeFails \/ SelectInterrupted \/ SelectFails
      PROVE  FALSE
  BY <1>9 DEF LoopReturnsFromSelect, StartLoop, OpenPipe, CopyReadFds, SelectReturns,
       PipeFails, SelectInterrupted, SelectFails, BeginTimeouts, ExpireTimer, EndTimeouts,
       BeginReadReadies, ScanSlot, EndReadReadies, FireEvent, CallbackReturns, EndFirePending
<1> QED
  BY <1>1, <1>2, <1>3, <1>4, <1>5, <1>6, <1>7, <1>8, <1>9
     DEF Next, LoopStep, LoopEntersSelect, LibraryCall

-----------------------------------------------------------------------------

\* The inductive invariant.
Inv ==
    /\ TypeOK
    /\ WatchTableConsistent
    /\ TimerListSorted
    /\ LinkedOnce
    /\ NeverEarly
    /\ WakeupNotLost
    /\ PhaseInv

LEMMA InitInv == Init => Inv
<1> SUFFICES ASSUME Init PROVE Inv
  OBVIOUS
<1>1. TypeOK
  BY FdAssumption, BoundsAssumption
     DEF Init, TypeOK, TableTypeOK, LoopStates, NoTimeout, Events
<1>2. WatchTableConsistent
  BY DEF Init, WatchTableConsistent, Events
<1>3. TimerListSorted /\ LinkedOnce /\ NeverEarly /\ WakeupNotLost
  BY EventsAssumption DEF Init, TimerListSorted, LinkedOnce, NeverEarly, WakeupNotLost, Events
<1>4. PhaseInv
  BY EventsAssumption DEF Init, PhaseInv, Events
<1> QED
  BY <1>1, <1>2, <1>3, <1>4 DEF Inv

LEMMA StepInv == Inv /\ [Next]_vars => Inv'
BY TypeStep, WatchTableStep, TimerListStep, LinkedOnceStep, NeverEarlyStep, WakeupStep,
   PhaseStep DEF Inv

\* Every reachable state of the event loop satisfies the inductive invariant.
THEOREM Invariance == Spec => []Inv
BY InitInv, StepInv, PTL DEF Spec

\* The types hold, for any number of clients, timers and slots.
THEOREM TypeCorrect == Spec => []TypeOK
BY Invariance, PTL DEF Inv

\* ril_event_add, ril_event_del and processReadReadies keep watch_table,
\* readFds and nfds consistent.
THEOREM WatchTable == Spec => []WatchTableConsistent
BY Invariance, PTL DEF Inv

\* The timer list stays sorted, no event is linked twice, and no timer fires
\* early, whoever adds timers while the loop takes them off.
THEOREM TimerSafety == Spec => []TimersSafe
BY Invariance, PTL DEF Inv, TimersSafe

\* The unlocked read of the timer list never makes select sleep past a timer
\* without a wakeup on its way.
THEOREM NoLostWakeup == Spec => []WakeupNotLost
BY Invariance, PTL DEF Inv

\* processTimeouts leaves no expired timer behind.
THEOREM AllExpiredFire == Spec => NoExpiredTimerLeft
<1>1. Inv /\ [Next]_vars =>
        [loop = "timeouts" /\ loop' = "walked" =>
           \A i \in 1 .. Len(timer_list') : timeout'[timer_list'[i]] >= walkNow]_vars
  <2> SUFFICES ASSUME Inv, [Next]_vars, loop = "timeouts", loop' = "walked",
                      NEW i \in 1 .. Len(timer_list')
               PROVE  timeout'[timer_list'[i]] >= walkNow
    OBVIOUS
  <2> USE DEF tableVars, timerVars, loopVars, Goto
  <2>1. ASSUME NEW a \in Threads, LibraryCall(a) PROVE FALSE
    BY <2>1, CallFacts DEF Inv
  <2>2. EndTimeouts
    BY <2>1 DEF vars, Next, LoopStep, LoopEntersSelect, LoopReturnsFromSelect,
       StartLoop, OpenPipe, CopyReadFds, calcNextTimeout, SelectReturns, BeginTimeouts,
       ExpireTimer, BeginReadReadies, ScanSlot, EndReadReadies, FireEvent,
       CallbackReturns, EndFirePending, PipeFails, SelectInterrupted, SelectFails,
       triggerEvLoop, Tick, DataArrives
  <2>3. timer_list' = timer_list /\ timeout' = timeout /\ timer_list \in Seq(Timers)
    BY <2>2 DEF EndTimeouts, Inv, TypeOK
  <2>4. timer_list # <<>> /\ 1 \in 1 .. Len(timer_list) /\ i \in 1 .. Len(timer_list)
        /\ 1 <= i /\ Head(timer_list) = timer_list[1]
    BY <2>3
  <2>5. timeout[timer_list[1]] \in Nat /\ timeout[timer_list[i]] \in Nat /\ walkNow \in Nat
    BY <2>3, <2>4 DEF Inv, TypeOK
  <2>6. timeout[timer_list[1]] >= walkNow
    BY <2>2, <2>4, <2>5 DEF EndTimeouts, Expired
  <2>7. timeout[timer_list[1]] <= timeout[timer_list[i]]
    BY <2>4, <2>5 DEF Inv, TimerListSorted
  <2> QED
    BY <2>3, <2>5, <2>6, <2>7
<1> QED
  BY <1>1, Invariance, PTL DEF Spec, NoExpiredTimerLeft

-----------------------------------------------------------------------------
(* The event loop implements RilTimer: every step of RilEvent is, seen     *)
(* through the refinement mapping T, a step of RilTimer or no step.        *)

\* After ril_timer_add the list holds the new timer and the timers it held.
LEMMA AddedTimers ==
    ASSUME TypeOK, TimerListSorted,
           NEW a \in Threads, NEW t \in Timers, NEW tv \in Delays, ril_timer_add(a, t, tv)
    PROVE  /\ timeout'[t] = now + tv
           /\ \A u \in Timers : u # t => timeout'[u] = timeout[u]
           /\ \A i \in 1 .. Len(timer_list') :
                \/ timer_list'[i] = t
                \/ \E m \in 1 .. Len(timer_list) : timer_list'[i] = timer_list[m]
           /\ \A u \in Timers :
                OnList(u, timer_list') <=> u = t \/ OnList(u, timer_list)
<1>0. Len(timer_list) \in Nat /\ timeout \in [Timers -> Nat]
  BY DEF TypeOK
<1>1. timeout'[t] = now + tv
  BY <1>0 DEF ril_timer_add
<1>2. /\ Len(timer_list') = Len(timer_list) + 1
      /\ \A u \in Timers : u # t => timeout'[u] = timeout[u]
  BY TimerAddFacts
<1>3. PICK k \in 0 .. Len(timer_list) :
        \A i \in 1 .. Len(timer_list') :
          timer_list'[i] = IF i <= k THEN timer_list[i]
                           ELSE IF i = k + 1 THEN t ELSE timer_list[i - 1]
  BY TimerAddFacts
<1>4. \A i \in 1 .. Len(timer_list') :
        \/ timer_list'[i] = t
        \/ \E m \in 1 .. Len(timer_list) : timer_list'[i] = timer_list[m]
  <2> SUFFICES ASSUME NEW i \in 1 .. Len(timer_list'), timer_list'[i] # t
               PROVE  \E m \in 1 .. Len(timer_list) : timer_list'[i] = timer_list[m]
    OBVIOUS
  <2>1. i \in Nat /\ 1 <= i /\ i <= Len(timer_list) + 1 /\ k \in Nat /\ k <= Len(timer_list)
    BY <1>0, <1>2
  <2>2. i # k + 1
    BY <1>3, <2>1
  <2>3. CASE i <= k
    <3>1. i \in 1 .. Len(timer_list) /\ timer_list'[i] = timer_list[i]
      BY <1>0, <1>3, <2>1, <2>3
    <3> QED
      BY <3>1
  <2>4. CASE i > k + 1
    <3>1. i - 1 \in 1 .. Len(timer_list) /\ timer_list'[i] = timer_list[i - 1]
      BY <1>0, <1>3, <2>1, <2>4
    <3> QED
      BY <3>1
  <2> QED
    BY <2>1, <2>2, <2>3, <2>4
<1>5. OnList(t, timer_list')
  <2>1. k + 1 \in 1 .. Len(timer_list') /\ ~(k + 1 <= k)
    BY <1>0, <1>2
  <2> QED
    BY <1>3, <2>1 DEF OnList
<1>6. ASSUME NEW m \in 1 .. Len(timer_list)
      PROVE  OnList(timer_list[m], timer_list')
  <2>1. CASE m <= k
    <3>1. m \in 1 .. Len(timer_list')
      BY <1>0, <1>2
    <3>2. timer_list'[m] = timer_list[m]
      BY <1>3, <2>1, <3>1
    <3> QED
      BY <3>1, <3>2 DEF OnList
  <2>2. CASE m > k
    <3>1. m + 1 \in 1 .. Len(timer_list') /\ ~(m + 1 <= k) /\ m + 1 # k + 1 /\ (m + 1) - 1 = m
      BY <1>0, <1>2, <2>2
    <3>2. timer_list'[m + 1] = timer_list[m]
      BY <1>3, <3>1
    <3> QED
      BY <3>1, <3>2 DEF OnList
  <2> QED
    BY <1>0, <2>1, <2>2
<1>7. \A u \in Timers : OnList(u, timer_list') <=> u = t \/ OnList(u, timer_list)
  BY <1>4, <1>5, <1>6 DEF OnList
<1> QED
  BY <1>1, <1>2, <1>4, <1>7

-----------------------------------------------------------------------------

\* Whoever adds timers while the loop takes them off, those taken off are due
\* before those still on the list, and in order.
LEMMA DueInOrderStep ==
    ASSUME Inv, DueInOrder, [Next]_vars
    PROVE  DueInOrder'
<1> USE DEF tableVars, timerVars, loopVars, Goto
<1>0. /\ timer_list \in Seq(Timers) /\ pending_list \in Seq(Events)
      /\ Len(timer_list) \in Nat /\ Len(pending_list) \in Nat
      /\ now \in Nat /\ walkNow \in Nat /\ walkNow <= now
      /\ timeout \in [Timers -> Nat]
      /\ \A i \in 1 .. Len(timer_list) : timer_list[i] \in Timers
  BY DEF Inv, TypeOK, PhaseInv
<1>1. cur' # NoEvent => loop' = "callback"
  <2>1. ASSUME NEW a \in Threads, LibraryCall(a) PROVE UNCHANGED <<loop, cur>>
    BY <2>1, CallFacts DEF Inv
  <2> QED
    BY <2>1 DEF DueInOrder, vars, Next, LoopStep, LoopEntersSelect, LoopReturnsFromSelect,
       StartLoop, OpenPipe, CopyReadFds, calcNextTimeout, SelectReturns, BeginTimeouts,
       ExpireTimer, EndTimeouts, BeginReadReadies, ScanSlot, EndReadReadies, FireEvent,
       CallbackReturns, EndFirePending, PipeFails, SelectInterrupted, SelectFails,
       triggerEvLoop, Tick, DataArrives
<1> DEFINE Ordered ==
             /\ \A i, j \in 1 .. Len(pending_list) :
                  i < j /\ pending_list[i] \in Timers /\ pending_list[j] \in Timers =>
                    timeout[pending_list[i]] <= timeout[pending_list[j]]
             /\ \A i \in 1 .. Len(pending_list) :
                  pending_list[i] \in Timers =>
                    /\ timeout[pending_list[i]] < walkNow
                    /\ \A j \in 1 .. Len(timer_list) :
                         timeout[pending_list[i]] <= timeout[timer_list[j]]
<1> SUFFICES Ordered'
  BY <1>1 DEF DueInOrder
<1>2. Ordered
  BY DEF DueInOrder
<1>3. ASSUME NEW a \in Threads, NEW t \in Timers, NEW tv \in Delays, ril_timer_add(a, t, tv)
      PROVE  Ordered'
  <2>1. pending_list' = pending_list /\ walkNow' = walkNow /\ ~OnList(t, pending_list)
    BY <1>3 DEF ril_timer_add
  <2>2. /\ timeout'[t] = now + tv
        /\ \A u \in Timers : u # t => timeout'[u] = timeout[u]
        /\ \A i \in 1 .. Len(timer_list') :
             \/ timer_list'[i] = t
             \/ \E m \in 1 .. Len(timer_list) : timer_list'[i] = timer_list[m]
    BY <1>3, AddedTimers DEF Inv
  <2>3. \A i \in 1 .. Len(pending_list) :
          pending_list[i] \in Timers => timeout'[pending_list[i]] = timeout[pending_list[i]]
    BY <2>1, <2>2 DEF OnList
  <2>4. tv \in Nat /\ now + tv >= walkNow
    BY <1>0, BoundsAssumption
  <2>5. ASSUME NEW i \in 1 .. Len(pending_list), pending_list[i] \in Timers,
               NEW j \in 1 .. Len(timer_list')
        PROVE  timeout[pending_list[i]] <= timeout'[timer_list'[j]]
    <3>1. timeout[pending_list[i]] \in Nat /\ timeout[pending_list[i]] < walkNow
      BY <1>0, <1>2, <2>5
    <3>2. CASE timer_list'[j] = t
      BY <1>0, <2>2, <2>4, <3>1, <3>2
    <3>3. CASE timer_list'[j] # t
      <4>1. PICK m \in 1 .. Len(timer_list) : timer_list'[j] = timer_list[m]
        BY <2>2, <3>3
      <4>2. timeout'[timer_list'[j]] = timeout[timer_list[m]]
        BY <1>0, <2>2, <3>3, <4>1
      <4> QED
        BY <1>2, <2>5, <4>2
    <3> QED
      BY <3>2, <3>3
  <2> QED
    BY <1>2, <2>1, <2>3, <2>5
<1>4. CASE ExpireTimer
  <2> DEFINE h == timer_list[1]
  <2>1. /\ timer_list # <<>> /\ timer_list' = Tail(timer_list)
        /\ pending_list' = Append(pending_list, Head(timer_list))
        /\ timeout' = timeout /\ walkNow' = walkNow
    BY <1>4 DEF ExpireTimer
  <2>2. /\ Head(timer_list) = h /\ h \in Timers /\ h \in Events /\ 1 \in 1 .. Len(timer_list)
    BY <1>0, <2>1 DEF Events
  <2>3. timeout[h] < walkNow /\ timeout[h] \in Nat
    BY <1>0, <1>4, <2>2 DEF ExpireTimer, Expired
  <2>4. \A i \in 1 .. Len(timer_list') :
          timer_list'[i] = timer_list[i + 1] /\ i + 1 \in 1 .. Len(timer_list)
    BY <1>0, <2>1, TailFacts
  <2>5. \A i \in 1 .. Len(pending_list') :
          \/ i \in 1 .. Len(pending_list) /\ pending_list'[i] = pending_list[i]
          \/ i = Len(pending_list) + 1 /\ pending_list'[i] = h
    BY <1>0, <2>1, <2>2, AppendFacts
  <2>6. \A m \in 1 .. Len(timer_list) : timeout[h] <= timeout[timer_list[m]]
    <3> SUFFICES ASSUME NEW m \in 1 .. Len(timer_list)
                 PROVE  timeout[h] <= timeout[timer_list[m]]
      OBVIOUS
    <3>1. CASE m = 1
      BY <2>3, <3>1
    <3>2. CASE 1 < m
      BY <2>2, <3>2 DEF Inv, TimerListSorted
    <3> QED
      BY <3>1, <3>2
  <2> HIDE DEF h
  <2>7. ASSUME NEW i \in 1 .. Len(pending_list'), NEW j \in 1 .. Len(pending_list'), i < j,
               pending_list'[i] \in Timers, pending_list'[j] \in Timers
        PROVE  timeout[pending_list'[i]] <= timeout[pending_list'[j]]
    <3>1. i \in 1 .. Len(pending_list) /\ pending_list'[i] = pending_list[i]
      BY <1>0, <2>5, <2>7
    <3>2. CASE j \in 1 .. Len(pending_list) /\ pending_list'[j] = pending_list[j]
      BY <1>2, <2>7, <3>1, <3>2
    <3>3. CASE pending_list'[j] = h
      BY <1>2, <2>2, <2>7, <3>1, <3>3 DEF h
    <3> QED
      BY <2>5, <3>2, <3>3
  <2>8. ASSUME NEW i \in 1 .. Len(pending_list'), pending_list'[i] \in Timers
        PROVE  /\ timeout[pending_list'[i]] < walkNow
               /\ \A j \in 1 .. Len(timer_list') :
                    timeout[pending_list'[i]] <= timeout[timer_list'[j]]
    BY <1>2, <2>3, <2>4, <2>5, <2>6, <2>8
  <2> QED
    BY <2>1, <2>7, <2>8
<1>5. CASE FireEvent
  <2>1. /\ pending_list # <<>> /\ pending_list' = Tail(pending_list)
        /\ UNCHANGED <<timer_list, timeout, walkNow>>
    BY <1>5 DEF FireEvent
  <2>2. \A i \in 1 .. Len(pending_list') :
          pending_list'[i] = pending_list[i + 1] /\ i + 1 \in 1 .. Len(pending_list)
    BY <1>0, <2>1, TailFacts
  <2>3. ASSUME NEW i \in 1 .. Len(pending_list'), NEW j \in 1 .. Len(pending_list'), i < j
        PROVE  i + 1 < j + 1
    BY <2>3
  <2> QED
    BY <1>2, <2>1, <2>2, <2>3
<1>6. CASE /\ ScanSlot /\ watch_table[scan] # NoEvent
           /\ pending_list' = Append(pending_list, watch_table[scan])
  <2>1. scan \in Slots
    BY <1>6, BoundsAssumption DEF Inv, TypeOK, ScanSlot, Slots
  <2>2. /\ watch_table[scan] \in Events /\ watch_table[scan] \notin Timers
    BY <1>6, <2>1, EventsAssumption DEF Inv, TypeOK, TableTypeOK, Events
  <2>3. \A i \in 1 .. Len(pending_list') :
          \/ i \in 1 .. Len(pending_list) /\ pending_list'[i] = pending_list[i]
          \/ pending_list'[i] \notin Timers
    BY <1>0, <1>6, <2>2, AppendFacts
  <2>4. UNCHANGED <<timer_list, timeout, walkNow>>
    BY <1>6 DEF ScanSlot
  <2> QED
    BY <1>2, <2>3, <2>4
<1>7. CASE BeginTimeouts
  <2>1. pending_list' = <<>>
    BY <1>7 DEF Inv, PhaseInv, BeginTimeouts
  <2> QED
    BY <2>1
<1>8. CASE UNCHANGED <<timerVars, pending_list, walkNow>>
  BY <1>2, <1>8
<1>9. \/ BeginTimeouts \/ UNCHANGED walkNow
  BY DEF vars, Next, LoopStep, LoopEntersSelect, LoopReturnsFromSelect, LibraryCall,
       StartLoop, OpenPipe, CopyReadFds, calcNextTimeout, SelectReturns,
       ExpireTimer, EndTimeouts, BeginReadReadies, ScanSlot, EndReadReadies, FireEvent,
       CallbackReturns, EndFirePending, PipeFails, SelectInterrupted, SelectFails,
       ril_timer_add, ril_event_add, ril_event_del, triggerEvLoop, Tick, DataArrives
<1>10. CASE UNCHANGED timerVars
  BY <1>4, <1>5, <1>6, <1>7, <1>8, <1>9, <1>10, PendingStep
<1> QED
  BY <1>3, <1>4, <1>10, TimerStep

\* Together with Inv, what the refinement rests on.
LEMMA OrderInvariance == Spec => [](Inv /\ DueInOrder)
<1>1. Init => DueInOrder
  BY DEF Init, DueInOrder
<1> QED
  BY <1>1, InitInv, StepInv, DueInOrderStep, PTL DEF Spec

-----------------------------------------------------------------------------
(* The step simulation.                                                    *)

\* The timer being called, as RilTimer sees it.
runningTimer == IF cur \in Timers THEN cur ELSE NoEvent

\* A step that keeps both lists, the timeouts, the current event and the clock,
\* and does not end the loop, is invisible.
LEMMA Invisible ==
    ASSUME UNCHANGED <<timer_list, pending_list, timeout, cur, now>>, Stopped' = Stopped
    PROVE  UNCHANGED T!vars
BY DEF T!vars, Armed, OnList

\* ril_timer_add sets a timer.
LEMMA AddIsArm ==
    ASSUME Inv, DueInOrder,
           NEW a \in Threads, NEW t \in Timers, NEW tv \in Delays, ril_timer_add(a, t, tv)
    PROVE  T!Next
<1>1. UNCHANGED <<loop, now, cur, pending_list>> /\ cur # t
      /\ ~OnList(t, timer_list) /\ ~OnList(t, pending_list)
      /\ timeout' = [timeout EXCEPT ![t] = now + tv]
  BY DEF ril_timer_add, loopVars
<1>2. \A u \in Timers : OnList(u, timer_list') <=> u = t \/ OnList(u, timer_list)
  BY AddedTimers DEF Inv
<1>3. \A u \in Timers : OnList(u, pending_list') <=> OnList(u, pending_list)
  BY <1>1
<1>4. Armed' = Armed \cup {t} /\ t \notin Armed
  BY <1>1, <1>2, <1>3 DEF Armed
<1>5. runningTimer' = runningTimer /\ t # runningTimer /\ Stopped' = Stopped
  BY <1>1, EventsAssumption DEF runningTimer, Stopped, Events
<1>6. T!Arm(t, tv)
  BY <1>1, <1>4, <1>5 DEF T!Arm, runningTimer
<1> QED
  BY <1>6 DEF T!Next

\* processTimeouts moves a timer from one list to the other: nothing is seen.
LEMMA ExpireIsInvisible ==
    ASSUME Inv, ExpireTimer
    PROVE  UNCHANGED T!vars
<1>0. timer_list \in Seq(Timers) /\ pending_list \in Seq(Events)
      /\ Len(timer_list) \in Nat /\ Len(pending_list) \in Nat
  BY DEF Inv, TypeOK
<1>1. /\ timer_list # <<>> /\ timer_list' = Tail(timer_list)
      /\ pending_list' = Append(pending_list, Head(timer_list))
      /\ UNCHANGED <<loop, now, timeout, cur>>
  BY DEF ExpireTimer, loopVars
<1> DEFINE h == timer_list[1]
<1>2. Head(timer_list) = h /\ h \in Timers /\ h \in Events /\ 1 \in 1 .. Len(timer_list)
  BY <1>0, <1>1 DEF Events
<1>3. /\ Len(timer_list') = Len(timer_list) - 1
      /\ \A i \in 1 .. Len(timer_list') :
           timer_list'[i] = timer_list[i + 1] /\ i + 1 \in 1 .. Len(timer_list)
  BY <1>0, <1>1, TailFacts
<1>4. /\ Len(pending_list') = Len(pending_list) + 1
      /\ pending_list'[Len(pending_list) + 1] = h
      /\ \A i \in 1 .. Len(pending_list) : pending_list'[i] = pending_list[i]
  BY <1>0, <1>1, <1>2, AppendFacts
<1> HIDE DEF h
<1>5. \A u : OnList(u, pending_list') <=> u = h \/ OnList(u, pending_list)
  BY <1>0, <1>4 DEF OnList
<1>6. \A u : OnList(u, timer_list) <=> u = h \/ OnList(u, timer_list')
  <2>1. ASSUME NEW m \in 1 .. Len(timer_list), m # 1
        PROVE  OnList(timer_list[m], timer_list')
    <3>1. m - 1 \in 1 .. Len(timer_list') /\ (m - 1) + 1 = m
      BY <1>0, <1>3, <2>1
    <3>2. timer_list'[m - 1] = timer_list[m]
      BY <1>3, <3>1
    <3> QED
      BY <3>1, <3>2 DEF OnList
  <2>2. OnList(h, timer_list)
    BY <1>2 DEF OnList, h
  <2>3. \A u : OnList(u, timer_list') => OnList(u, timer_list)
    BY <1>3 DEF OnList
  <2>4. \A u : OnList(u, timer_list) => u = h \/ OnList(u, timer_list')
    BY <2>1 DEF OnList, h
  <2> QED
    BY <2>2, <2>3, <2>4
<1>7. Armed' = Armed
  BY <1>5, <1>6 DEF Armed
<1> QED
  BY <1>1, <1>7 DEF T!vars, Stopped

\* firePending calls the timer that is due first, or a watch.
LEMMA FireIsFire ==
    ASSUME Inv, DueInOrder, FireEvent
    PROVE  T!Next \/ UNCHANGED T!vars
<1>0. timer_list \in Seq(Timers) /\ pending_list \in Seq(Events)
      /\ Len(timer_list) \in Nat /\ Len(pending_list) \in Nat
      /\ now \in Nat /\ walkNow \in Nat /\ walkNow <= now /\ timeout \in [Timers -> Nat]
  BY DEF Inv, TypeOK, PhaseInv
<1> DEFINE t == pending_list[1]
<1>1. /\ loop = "fire" /\ loop' = "callback"
      /\ pending_list # <<>> /\ pending_list' = Tail(pending_list) /\ cur' = Head(pending_list)
      /\ UNCHANGED <<now, timer_list, timeout>>
  BY DEF FireEvent, Goto, timerVars
<1>2. Head(pending_list) = t /\ t \in Events /\ 1 \in 1 .. Len(pending_list)
  BY <1>0, <1>1
<1>3. cur = NoEvent /\ runningTimer = NoEvent
  BY <1>1 DEF DueInOrder, runningTimer
<1>4. /\ Len(pending_list') = Len(pending_list) - 1
      /\ \A i \in 1 .. Len(pending_list') :
           pending_list'[i] = pending_list[i + 1] /\ i + 1 \in 1 .. Len(pending_list)
  BY <1>0, <1>1, TailFacts
<1>5. \A m \in 1 .. Len(pending_list) : m # 1 => OnList(pending_list[m], pending_list')
  <2> SUFFICES ASSUME NEW m \in 1 .. Len(pending_list), m # 1
               PROVE  OnList(pending_list[m], pending_list')
    OBVIOUS
  <2>1. m - 1 \in 1 .. Len(pending_list') /\ (m - 1) + 1 = m
    BY <1>0, <1>4
  <2>2. pending_list'[m - 1] = pending_list[m]
    BY <1>4, <2>1
  <2> QED
    BY <2>1, <2>2 DEF OnList
<1>6. /\ OnList(t, pending_list) /\ ~OnList(t, pending_list')
      /\ \A u : u # t => (OnList(u, pending_list') <=> OnList(u, pending_list))
  <2>1. OnList(t, pending_list)
    BY <1>2 DEF OnList
  <2>2. ~OnList(t, pending_list')
    <3> SUFFICES ASSUME NEW i \in 1 .. Len(pending_list'), pending_list'[i] = t
                 PROVE  FALSE
      BY DEF OnList
    <3>1. i + 1 = 1
      BY <1>2, <1>4 DEF Inv, LinkedOnce
    <3> QED
      BY <3>1
  <2>3. \A u : OnList(u, pending_list') => OnList(u, pending_list)
    BY <1>4 DEF OnList
  <2>4. \A u : u # t /\ OnList(u, pending_list) => OnList(u, pending_list')
    BY <1>5 DEF OnList
  <2> QED
    BY <2>1, <2>2, <2>3, <2>4
<1>7. ~Stopped /\ Stopped' = Stopped
  BY <1>1 DEF Stopped
<1>8. CASE t \notin Timers
  <2>1. Armed' = Armed
    BY <1>1, <1>6, <1>8 DEF Armed
  <2>2. runningTimer' = runningTimer
    BY <1>1, <1>2, <1>3, <1>8 DEF runningTimer
  <2> QED
    BY <1>1, <1>7, <2>1, <2>2 DEF T!vars, runningTimer
<1>9. CASE t \in Timers
  <2>1. ~OnList(t, timer_list)
    BY <1>2 DEF Inv, LinkedOnce, OnList
  <2>2. Armed' = Armed \ {t} /\ t \in Armed
    BY <1>1, <1>6, <1>9, <2>1 DEF Armed
  <2>3. runningTimer' = t
    BY <1>1, <1>2, <1>9 DEF runningTimer
  <2>4. timeout[t] < now
    BY <1>0, <1>2, <1>9 DEF DueInOrder
  <2>5. ASSUME NEW u \in Armed
        PROVE  timeout[t] <= timeout[u]
    <3>1. CASE OnList(u, timer_list)
      BY <1>2, <1>9, <3>1 DEF DueInOrder, OnList
    <3>2. CASE OnList(u, pending_list)
      <4>1. PICK m \in 1 .. Len(pending_list) : pending_list[m] = u
        BY <3>2 DEF OnList
      <4>2. CASE m = 1
        BY <1>0, <1>9, <4>1, <4>2
      <4>3. CASE 1 < m
        BY <1>2, <1>9, <4>1, <4>3 DEF DueInOrder, Armed
      <4> QED
        BY <4>2, <4>3
    <3> QED
      BY <3>1, <3>2 DEF Armed
  <2>6. T!Fire(t)
    BY <1>1, <1>3, <1>7, <2>2, <2>3, <2>4, <2>5 DEF T!Fire, runningTimer
  <2> QED
    BY <1>9, <2>6 DEF T!Next
<1> QED
  BY <1>8, <1>9

\* A callback returns: RilTimer sees the return of a timer's.
LEMMA ReturnIsReturn ==
    ASSUME CallbackReturns
    PROVE  T!Next \/ UNCHANGED T!vars
<1>1. /\ cur' = NoEvent /\ loop = "callback" /\ loop' = "fire"
      /\ UNCHANGED <<now, timer_list, timeout, pending_list>>
  BY DEF CallbackReturns, Goto, timerVars
<1>2. UNCHANGED <<Armed, Stopped>>
  BY <1>1 DEF Armed, OnList, Stopped
<1>3. runningTimer' = NoEvent
  BY <1>1 DEF runningTimer
<1>4. CASE runningTimer # NoEvent
  <2>1. T!Return
    BY <1>1, <1>2, <1>3, <1>4 DEF T!Return, runningTimer
  <2> QED
    BY <2>1 DEF T!Next
<1>5. CASE runningTimer = NoEvent
  BY <1>1, <1>2, <1>3, <1>5 DEF T!vars, runningTimer
<1> QED
  BY <1>4, <1>5

\* Every step of the event loop, its clients and its environment.
LEMMA StepRefines ==
    ASSUME Inv, DueInOrder, [Next]_vars
    PROVE  [T!Next]_(T!vars)
<1> USE DEF tableVars, timerVars, loopVars, Goto
<1>1. ASSUME NEW a \in Threads, LibraryCall(a)
      PROVE  T!Next \/ UNCHANGED T!vars
  <2>1. CASE \E t \in Timers, tv \in Delays : ril_timer_add(a, t, tv)
    BY <2>1, AddIsArm
  <2>2. CASE \/ \E w \in Watches : ril_event_add(a, w)
             \/ \E e \in Events : ril_event_del(a, e)
    <3>1. UNCHANGED <<loop, timer_list, pending_list, timeout, cur, now>>
      BY <2>2 DEF ril_event_add, ril_event_del
    <3> QED
      BY <3>1, Invisible DEF Stopped
  <2> QED
    BY <1>1, <2>1, <2>2 DEF LibraryCall
<1>2. CASE ExpireTimer
  BY <1>2, ExpireIsInvisible
<1>3. CASE FireEvent
  BY <1>3, FireIsFire
<1>4. CASE CallbackReturns
  BY <1>4, ReturnIsReturn
<1>5. CASE PipeFails \/ SelectFails
  <2>1. UNCHANGED <<timer_list, pending_list, timeout, cur, now>> /\ Stopped' = TRUE
    BY <1>5 DEF PipeFails, SelectFails, Stopped
  <2>2. T!Stop
    BY <2>1 DEF T!Stop, Armed, OnList
  <2> QED
    BY <2>2 DEF T!Next
<1>6. CASE Tick
  <2>1. UNCHANGED <<loop, timer_list, pending_list, timeout, cur>> /\ now' = now + 1
    BY <1>6 DEF Tick
  <2>2. T!Tick
    BY <2>1 DEF T!Tick, Armed, OnList, Stopped
  <2> QED
    BY <2>2 DEF T!Next
<1>7. CASE \/ StartLoop \/ OpenPipe \/ CopyReadFds \/ calcNextTimeout
           \/ SelectReturns \/ SelectInterrupted \/ BeginTimeouts \/ EndTimeouts
           \/ BeginReadReadies \/ EndReadReadies \/ EndFirePending
           \/ (\E c \in Clients : triggerEvLoop(c))
           \/ (\E w \in Watches : DataArrives(w))
           \/ UNCHANGED vars
  <2>1. UNCHANGED <<timer_list, pending_list, timeout, cur, now>> /\ Stopped' = Stopped
    BY <1>7 DEF StartLoop, OpenPipe, CopyReadFds, calcNextTimeout, SelectReturns,
       SelectInterrupted, BeginTimeouts, EndTimeouts, BeginReadReadies, EndReadReadies,
       EndFirePending, triggerEvLoop, DataArrives, vars, Stopped
  <2> QED
    BY <2>1, Invisible
<1>8. CASE ScanSlot
  <2>1. UNCHANGED <<loop, timer_list, timeout, cur, now>>
    BY <1>8 DEF ScanSlot
  <2>2. CASE UNCHANGED pending_list
    BY <2>1, <2>2, Invisible DEF Stopped
  <2>3. CASE /\ watch_table[scan] # NoEvent
             /\ pending_list' = Append(pending_list, watch_table[scan])
    <3>1. scan \in Slots
      BY <1>8, BoundsAssumption DEF Inv, TypeOK, ScanSlot, Slots
    <3>2. /\ watch_table[scan] \in Events /\ watch_table[scan] \notin Timers
          /\ pending_list \in Seq(Events)
      BY <2>3, <3>1, EventsAssumption DEF Inv, TypeOK, TableTypeOK, Events
    <3>3. /\ Len(pending_list') = Len(pending_list) + 1 /\ Len(pending_list) \in Nat
          /\ pending_list'[Len(pending_list) + 1] = watch_table[scan]
          /\ \A i \in 1 .. Len(pending_list) : pending_list'[i] = pending_list[i]
      BY <2>3, <3>2, AppendFacts
    <3>4. \A u \in Timers : OnList(u, pending_list') <=> OnList(u, pending_list)
      BY <3>2, <3>3 DEF OnList
    <3>5. Armed' = Armed
      BY <2>1, <3>4 DEF Armed
    <3> QED
      BY <2>1, <3>5 DEF T!vars, Stopped
  <2> QED
    BY <1>8, <2>2, <2>3 DEF ScanSlot
<1> QED
  BY <1>1, <1>2, <1>3, <1>4, <1>5, <1>6, <1>7, <1>8
     DEF Next, LoopStep, LoopEntersSelect, LoopReturnsFromSelect

\* What the event loop does is what RilTimer allows: every timer set is
\* called once, after its time, in the order of the times and alone, for any
\* number of timers, watches and client threads (ril_timer_add,
\* processTimeouts, firePending).
THEOREM EventLoopImplementsTimers == Spec => ImplementsTimers
<1>1. Init => T!Init
  BY EventsAssumption DEF Init, T!Init, Armed, OnList, Stopped, Events
<1>2. Inv /\ DueInOrder /\ [Next]_vars => [T!Next]_(T!vars)
  BY StepRefines
<1> QED
  BY <1>1, <1>2, OrderInvariance, PTL DEF Spec, ImplementsTimers, T!Spec
=============================================================================
