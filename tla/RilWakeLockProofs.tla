------------------------- MODULE RilWakeLockProofs --------------------------
(***************************************************************************)
(* Proofs about the wake lock of libril, for any number of threads and     *)
(* UserCallbackInfos, in every setting of build.                           *)
(***************************************************************************)
EXTENDS RilWakeLock, TLAPS

USE DEF infoVars, threadVars, loopVars

\* The threads that are inside grab or release exclude each other.
LEMMA Alone ==
    ASSUME TypeOK, OneInside, NEW t \in Threads, NEW u \in Threads,
           pc[t] # "idle", pc[u] # "idle"
    PROVE  t = u
BY DEF OneInside

\* Nobody is inside when a thread of a library of version 13 finds the mutex
\* free.
LEMMA NobodyInside ==
    ASSUME OneInside, Version13, mutex = NoThread, NEW u \in Threads
    PROVE  pc[u] = "idle"
BY WakeLockAssumption DEF OneInside

\* The thread steps change one thread's place only.
LEMMA InsideStep ==
    ASSUME TypeOK, OneInside, [Next]_vars
    PROVE  OneInside'
<1> USE WakeLockAssumption DEF Go, Lock, Unlock, Version13
<1>0. pc \in [Threads -> {"idle", "arm", "cancel", "release"}] /\ mutex \in Threads \cup {NoThread}
  BY DEF TypeOK
<1>1. ASSUME NEW t \in Threads, grabPartialWakeLock(t) PROVE OneInside'
  BY <1>0, <1>1 DEF grabPartialWakeLock, OneInside
<1>2. ASSUME NEW t \in Threads, armTimeout(t) PROVE OneInside'
  BY <1>0, <1>2 DEF armTimeout, OneInside
<1>3. ASSUME NEW t \in Threads, armTimeoutFails(t) PROVE OneInside'
  BY <1>0, <1>3 DEF armTimeoutFails, OneInside
<1>4. ASSUME NEW t \in Threads, replaceTimeout(t) PROVE OneInside'
  BY <1>0, <1>4 DEF replaceTimeout, OneInside
<1>5. ASSUME NEW t \in Threads, releaseLast(t) PROVE OneInside'
  BY <1>0, <1>5 DEF releaseLast, OneInside
<1>6. ASSUME NEW t \in Threads, cancelLast(t) PROVE OneInside'
  BY <1>0, <1>6 DEF cancelLast, OneInside
<1>7. CASE UNCHANGED <<build, pc, mutex>>
  BY <1>7 DEF OneInside
<1> QED
  BY <1>1, <1>2, <1>3, <1>4, <1>5, <1>6, <1>7 DEF Next, ThreadStep, LoopStep, vars,
     releaseOne, releaseUncounted, fireTimeout, enqueueTimeout, proxyTimeout,
     wakeTimeoutCallback, checkLast, clearLast, freeInfo

\* The types, given that a callback's info is not armed.
LEMMA TypeStep ==
    ASSUME TypeOK, CallbackOwns, NewTimerArmed, [Next]_vars
    PROVE  TypeOK'
<1> USE WakeLockAssumption DEF Go, LoopGo, Lock, Unlock, Call, Expire
<1>1. ASSUME NEW t \in Threads, grabPartialWakeLock(t) PROVE TypeOK'
  BY <1>1 DEF grabPartialWakeLock, TypeOK
<1>2. ASSUME NEW t \in Threads, armTimeout(t) PROVE TypeOK'
  BY <1>2 DEF armTimeout, TypeOK
<1>3. ASSUME NEW t \in Threads, armTimeoutFails(t) PROVE TypeOK'
  BY <1>3 DEF armTimeoutFails, TypeOK
<1>4. ASSUME NEW t \in Threads, replaceTimeout(t) PROVE TypeOK'
  BY <1>4 DEF replaceTimeout, TypeOK
<1>5. ASSUME NEW t \in Threads, releaseOne(t) \/ releaseUncounted(t) PROVE TypeOK'
  <2>1. held' \in BOOLEAN
    BY <1>5 DEF releaseOne, releaseUncounted, TypeOK
  <2>2. count' \in Nat
    BY <1>5 DEF releaseOne, releaseUncounted, TypeOK
  <2>3. UNCHANGED <<build, mutex, infoVars, threadVars, loopVars, grabs>>
    BY <1>5 DEF releaseOne, releaseUncounted
  <2> QED
    BY <2>1, <2>2, <2>3 DEF TypeOK
<1>6. ASSUME NEW t \in Threads, releaseLast(t) PROVE TypeOK'
  BY <1>6 DEF releaseLast, TypeOK
<1>7. ASSUME NEW t \in Threads, cancelLast(t) PROVE TypeOK'
  BY <1>7 DEF cancelLast, TypeOK
<1>8. ASSUME NEW i \in Infos, fireTimeout(i) PROVE TypeOK'
  BY <1>8 DEF fireTimeout, TypeOK
<1>9. ASSUME NEW i \in Infos, enqueueTimeout(i) PROVE TypeOK'
  BY <1>9 DEF enqueueTimeout, TypeOK
<1>10. ASSUME NEW i \in Infos, proxyTimeout(i) PROVE TypeOK'
  BY <1>10 DEF proxyTimeout, TypeOK
<1>11. CASE wakeTimeoutCallback
  <2>0. (held' = held \/ held' = FALSE) /\ (count' = count \/ count' = 0)
    BY <1>11, Zenon DEF wakeTimeoutCallback
  <2>1. held' \in BOOLEAN
    BY <2>0, Zenon DEF TypeOK
  <2>3. count' \in Nat
    BY <2>0 DEF TypeOK
  <2>2. loopPc' = "check" /\ UNCHANGED <<build, mutex, infoVars, threadVars, cur, stop, grabs>>
    BY <1>11 DEF wakeTimeoutCallback
  <2> QED
    BY <2>1, <2>2, <2>3 DEF TypeOK
<1>12. CASE checkLast \/ clearLast
  BY <1>12 DEF checkLast, clearLast, TypeOK
<1>13. CASE freeInfo
  BY <1>13 DEF freeInfo, TypeOK, CallbackOwns
<1>14. CASE UNCHANGED vars
  BY <1>14 DEF vars, TypeOK
<1> QED
  BY <1>1, <1>2, <1>3, <1>4, <1>5, <1>6, <1>7, <1>8, <1>9, <1>10, <1>11, <1>12, <1>13, <1>14
     DEF Next, ThreadStep, LoopStep

LEMMA CallbackStep ==
    ASSUME TypeOK, CallbackOwns, [Next]_vars
    PROVE  CallbackOwns'
<1> USE WakeLockAssumption DEF Go, LoopGo, Call, Expire, CidUnsigned
<1>0. armed \cup proxied \subseteq live /\ live \subseteq Infos /\ cur \in Infos \cup {NoInfo}
  BY DEF TypeOK
<1>1. ASSUME NEW t \in Threads, armTimeout(t) PROVE CallbackOwns'
  BY <1>0, <1>1 DEF armTimeout, CallbackOwns
<1>2. ASSUME NEW i \in Infos, fireTimeout(i) PROVE CallbackOwns'
  BY <1>0, <1>2 DEF fireTimeout, CallbackOwns
<1>3. ASSUME NEW i \in Infos, enqueueTimeout(i) PROVE CallbackOwns'
  BY <1>0, <1>3 DEF enqueueTimeout, CallbackOwns
<1>4. ASSUME NEW i \in Infos, proxyTimeout(i) PROVE CallbackOwns'
  BY <1>0, <1>4 DEF proxyTimeout, CallbackOwns
<1>5. CASE wakeTimeoutCallback \/ checkLast \/ clearLast
  BY <1>5 DEF wakeTimeoutCallback, checkLast, clearLast, CallbackOwns
<1>6. CASE freeInfo
  BY <1>0, <1>6 DEF freeInfo, CallbackOwns
<1>7. CASE UNCHANGED <<build, live, armed, proxied, loopPc, cur>>
  BY <1>7 DEF CallbackOwns
<1> QED
  BY <1>1, <1>2, <1>3, <1>4, <1>5, <1>6, <1>7 DEF Next, ThreadStep, LoopStep, vars,
     grabPartialWakeLock, armTimeoutFails, replaceTimeout, releaseOne, releaseLast, cancelLast,
     releaseUncounted

-----------------------------------------------------------------------------
(* The timers.                                                             *)

\* A timer that is going to release the lock goes on so, until it does or a
\* thread cancels it.
LEMMA WillReleaseStep ==
    ASSUME TypeOK, CallbackOwns, ~CidUnsigned, NEW i \in Infos, WillRelease(i), [Next]_vars
    PROVE  \/ WillRelease(i)'
           \/ \E t \in Threads : (replaceTimeout(t) \/ cancelLast(t)) /\ seen[t] = i
           \/ wakeTimeoutCallback /\ ~stop /\ cur = i
<1> USE DEF Go, LoopGo, Call, Expire
<1>0. proxied = {} /\ armed \subseteq live /\ (cur # NoInfo => cur \notin armed) /\ i # NoInfo
      /\ (loopPc = "idle" <=> cur = NoInfo) /\ stop \in BOOLEAN
  BY WakeLockAssumption DEF CallbackOwns, TypeOK
<1>1. CASE i \in armed /\ i \notin cancelled
  <2>1. ASSUME NEW j \in Infos, fireTimeout(j) PROVE WillRelease(i)'
    BY <1>0, <1>1, <2>1 DEF fireTimeout, WillRelease
  <2>2. ASSUME NEW j \in Infos, enqueueTimeout(j) \/ proxyTimeout(j) PROVE FALSE
    BY <1>0, <2>2 DEF enqueueTimeout, proxyTimeout
  <2>3. ASSUME NEW t \in Threads, armTimeout(t) PROVE WillRelease(i)'
    BY <1>1, <2>3 DEF armTimeout, WillRelease
  <2>4. ASSUME NEW t \in Threads, replaceTimeout(t) \/ cancelLast(t), seen[t] # i
        PROVE  WillRelease(i)'
    BY <1>1, <2>4 DEF replaceTimeout, cancelLast, WillRelease
  <2>5. CASE UNCHANGED <<armed, cancelled, proxied>>
    BY <1>1, <2>5 DEF WillRelease
  <2> QED
    BY <2>1, <2>2, <2>3, <2>4, <2>5 DEF Next, ThreadStep, LoopStep, vars,
       grabPartialWakeLock, armTimeoutFails, releaseOne, releaseLast, releaseUncounted,
       wakeTimeoutCallback, checkLast, clearLast, freeInfo
<1>2. CASE cur = i /\ loopPc = "callback" /\ ~stop
  <2>1. ASSUME NEW j \in Infos, fireTimeout(j) \/ enqueueTimeout(j) \/ proxyTimeout(j)
        PROVE  FALSE
    BY <1>0, <1>2, <2>1 DEF fireTimeout, enqueueTimeout, proxyTimeout
  <2>2. CASE checkLast \/ clearLast \/ freeInfo
    BY <1>2, <2>2 DEF checkLast, clearLast, freeInfo
  <2>3. CASE UNCHANGED <<cur, loopPc, stop>>
    BY <1>2, <2>3 DEF WillRelease
  <2> QED
    BY <1>2, <2>1, <2>2, <2>3 DEF Next, ThreadStep, LoopStep, vars,
       grabPartialWakeLock, armTimeout, armTimeoutFails, replaceTimeout, releaseOne, releaseLast,
       cancelLast, releaseUncounted
<1> QED
  BY <1>0, <1>1, <1>2 DEF WillRelease

\* The new timer of a thread inside grab stays armed until it is published.
LEMMA NewTimerStep ==
    ASSUME TypeOK, OneInside, CallbackOwns, NewTimerArmed, LastIsLive, [Next]_vars
    PROVE  NewTimerArmed'
<1> USE WakeLockAssumption DEF Go, LoopGo, Lock, Unlock, Call, Expire
<1>0. /\ pc \in [Threads -> {"idle", "arm", "cancel", "release"}]
      /\ mine \in [Threads -> Infos \cup {NoInfo}] /\ seen \in [Threads -> Infos \cup {NoInfo}]
      /\ armed \subseteq live /\ live \subseteq Infos
  BY DEF TypeOK
<1>1. build' = build /\ (CidUnsigned' <=> CidUnsigned) /\ (Version13' <=> Version13)
  <2>1. build' = build
    BY DEF Next, ThreadStep, LoopStep, vars, grabPartialWakeLock, armTimeout,
     armTimeoutFails, replaceTimeout, releaseOne, releaseLast, cancelLast, releaseUncounted,
     fireTimeout, enqueueTimeout, proxyTimeout, wakeTimeoutCallback, checkLast, clearLast, freeInfo
  <2> QED
    BY <2>1 DEF CidUnsigned, Version13
<1> SUFFICES ASSUME NEW u \in Threads, pc'[u] = "cancel"
             PROVE  /\ mine'[u] \in Infos
                    /\ ~CidUnsigned => WillRelease(mine[u])' /\ seen'[u] # mine'[u]
                    /\ ~Version13 => mine'[u] \in armed'
  BY <1>1 DEF NewTimerArmed
\* u has just armed it.
<1>2. CASE pc[u] # "cancel"
  <2>1. armTimeout(u)
    <3>1. pc' # pc /\ pc' # [pc EXCEPT ![u] = "idle"]
      BY <1>0, <1>2
    <3>2. ASSUME NEW j \in Infos, fireTimeout(j) \/ enqueueTimeout(j)
          PROVE  pc' = pc
      BY <3>2 DEF fireTimeout, enqueueTimeout
    <3>3. ASSUME LoopStep
          PROVE  pc' = pc
      BY <3>2, <3>3 DEF LoopStep, proxyTimeout, wakeTimeoutCallback, checkLast, clearLast, freeInfo
    <3>4. PICK t \in Threads :
            \/ ThreadStep(t) \/ grabPartialWakeLock(t) \/ armTimeoutFails(t)
            \/ releaseOne(t) \/ releaseLast(t) \/ releaseUncounted(t)
      BY <3>1, <3>2, <3>3 DEF Next, vars
    <3>5. CASE armTimeout(t)
      BY <1>0, <1>2, <3>5 DEF armTimeout
    <3>6. CASE ~armTimeout(t)
      <4>1. \/ pc' = pc \/ pc' = [pc EXCEPT ![t] = "idle"] \/ pc' = [pc EXCEPT ![t] = "arm"]
            \/ pc' = [pc EXCEPT ![t] = "release"]
        BY <3>4, <3>6 DEF ThreadStep, grabPartialWakeLock, armTimeoutFails, replaceTimeout,
           releaseOne, releaseLast, cancelLast, releaseUncounted
      <4> QED
        BY <1>0, <1>2, <4>1
    <3> QED
      BY <3>5, <3>6
  <2>2. PICK i \in Infos \ live :
          /\ live' = live \cup {i} /\ armed' = armed \cup {i} /\ cancelled' = cancelled \ {i}
          /\ mine' = [mine EXCEPT ![u] = i] /\ seen' = [seen EXCEPT ![u] = last]
    BY <2>1 DEF armTimeout
  <2>3. mine'[u] = i /\ seen'[u] = last
    BY <1>0, <2>2
  <2>4. WillRelease(mine[u])'
    BY <2>2, <2>3 DEF WillRelease
  <2>5. ~CidUnsigned => last # i
    BY <2>2 DEF LastIsLive
  <2> QED
    BY <2>2, <2>3, <2>4, <2>5
<1>3. CASE pc[u] = "cancel"
  <2>1. /\ mine[u] \in Infos
        /\ ~CidUnsigned => WillRelease(mine[u]) /\ seen[u] # mine[u]
        /\ ~Version13 => mine[u] \in armed
    BY <1>3 DEF NewTimerArmed
  <2>2. ASSUME NEW t \in Threads, replaceTimeout(t) \/ cancelLast(t) \/ armTimeout(t)
        PROVE  FALSE
    <3>1. pc[t] # "idle"
      BY <2>2 DEF replaceTimeout, cancelLast, armTimeout
    <3>2. t = u
      BY <1>3, <3>1, Alone
    <3> QED
      BY <1>0, <1>3, <2>2, <3>2 DEF replaceTimeout, cancelLast, armTimeout
  <2>3. mine'[u] = mine[u] /\ seen'[u] = seen[u]
    <3>1. ASSUME NEW t \in Threads, releaseLast(t) PROVE t # u
      BY <1>3, <3>1 DEF releaseLast
    <3> QED
      BY <1>0, <2>2, <3>1 DEF Next, ThreadStep, LoopStep, vars, grabPartialWakeLock,
        armTimeoutFails, releaseOne, releaseLast, releaseUncounted,
        fireTimeout, enqueueTimeout, proxyTimeout, wakeTimeoutCallback, checkLast, clearLast, freeInfo
  <2>4. ~Version13 => mine[u] \in armed'
    <3>1. ASSUME ~Version13, NEW j \in Infos, fireTimeout(j) \/ enqueueTimeout(j)
          PROVE  j # mine[u]
      BY <1>3, <3>1 DEF fireTimeout, enqueueTimeout
    <3>2. ASSUME NEW j \in Infos, fireTimeout(j) \/ enqueueTimeout(j)
          PROVE  armed' = armed \ {j}
      BY <3>2 DEF fireTimeout, enqueueTimeout
    <3>3. \/ UNCHANGED armed
          \/ \E j \in Infos : fireTimeout(j) \/ enqueueTimeout(j)
      BY <2>2 DEF Next, ThreadStep, LoopStep, vars, grabPartialWakeLock,
        armTimeoutFails, releaseOne, releaseLast, releaseUncounted,
        proxyTimeout, wakeTimeoutCallback, checkLast, clearLast, freeInfo
    <3> QED
      BY <2>1, <3>1, <3>2, <3>3
  <2>5. ASSUME ~CidUnsigned PROVE WillRelease(mine[u])'
    <3>1. ~(wakeTimeoutCallback /\ ~stop /\ cur = mine[u])
      <4> SUFFICES ASSUME wakeTimeoutCallback, ~stop, cur = mine[u] PROVE FALSE
        OBVIOUS
      <4>1. mutex = NoThread
        BY DEF wakeTimeoutCallback
      <4>2. ~Version13
        BY <1>3, <4>1, NobodyInside
      <4>3. cur \in armed /\ cur # NoInfo
        BY <2>1, <4>2
      <4> QED
        BY <4>3 DEF CallbackOwns
    <3>2. mine'[u] = mine[u]
      BY <2>3
    <3>3. WillRelease(mine[u]) /\ mine[u] \in Infos
      BY <2>1, <2>5
    <3>4. \A i \in Infos : i = mine[u] => (WillRelease(i)' <=> WillRelease(mine[u])')
      BY <3>2 DEF WillRelease
    <3>5. PICK i \in Infos : i = mine[u]
      BY <3>3
    <3>6. WillRelease(i)'
      BY <2>2, <2>5, <3>1, <3>3, <3>5, WillReleaseStep
    <3> QED
      BY <3>4, <3>5, <3>6
  <2> QED
    BY <2>1, <2>3, <2>4, <2>5
<1> QED
  BY <1>2, <1>3

-----------------------------------------------------------------------------
(* The pointer to the last timer.                                          *)

LEMMA LastStep ==
    ASSUME TypeOK, OneInside, CallbackOwns, NewTimerArmed, LastIsLive, LastNotFreed, [Next]_vars
    PROVE  LastIsLive' /\ LastNotFreed'
<1> USE WakeLockAssumption DEF Go, LoopGo, Lock, Unlock, Call, Expire, CidUnsigned
<1>0. armed \subseteq live /\ live \subseteq Infos /\ cur \in Infos \cup {NoInfo}
      /\ (loopPc = "idle" <=> cur = NoInfo)
      /\ (cur # NoInfo => cur \in live /\ cur \notin armed \cup proxied)
  BY DEF TypeOK, CallbackOwns
<1>1. ASSUME NEW t \in Threads, replaceTimeout(t) PROVE LastIsLive' /\ LastNotFreed'
  <2>1. /\ pc[t] = "cancel" /\ last' = mine[t]
        /\ UNCHANGED <<build, live, loopPc, cur>>
    BY <1>1 DEF replaceTimeout
  <2>2. mine[t] \in Infos /\ (~CidUnsigned => WillRelease(mine[t]))
    BY <2>1 DEF NewTimerArmed
  <2>3. ~CidUnsigned => proxied = {}
    BY DEF CallbackOwns
  <2>4. ~CidUnsigned => mine[t] \in armed \/ (cur = mine[t] /\ loopPc = "callback")
    BY <2>2, <2>3 DEF WillRelease
  <2>5. ~CidUnsigned => mine[t] \in live
    BY <1>0, <2>4
  <2>6. ~CidUnsigned /\ loopPc = "free" => mine[t] # cur
    BY <1>0, <2>4
  <2> QED
    BY <2>1, <2>5, <2>6 DEF LastIsLive, LastNotFreed
<1>2. ASSUME NEW t \in Threads, armTimeout(t) PROVE LastIsLive' /\ LastNotFreed'
  BY <1>2 DEF armTimeout, LastIsLive, LastNotFreed
<1>3. ASSUME NEW i \in Infos, fireTimeout(i) \/ proxyTimeout(i)
      PROVE  LastIsLive' /\ LastNotFreed'
  BY <1>3 DEF fireTimeout, proxyTimeout, LastIsLive, LastNotFreed
<1>4. CASE wakeTimeoutCallback
  BY <1>4 DEF wakeTimeoutCallback, LastIsLive, LastNotFreed
<1>5. CASE checkLast
  BY <1>5 DEF checkLast, LastIsLive, LastNotFreed
<1>6. CASE clearLast
  BY <1>0, <1>6 DEF clearLast, LastIsLive, LastNotFreed
<1>7. CASE freeInfo
  BY <1>7 DEF freeInfo, LastIsLive, LastNotFreed
<1>8. CASE UNCHANGED <<build, last, live, loopPc, cur>>
  BY <1>8 DEF LastIsLive, LastNotFreed
<1> QED
  BY <1>1, <1>2, <1>3, <1>4, <1>5, <1>6, <1>7, <1>8 DEF Next, ThreadStep, LoopStep, vars,
     grabPartialWakeLock, armTimeoutFails, releaseOne, releaseLast, cancelLast,
     releaseUncounted, enqueueTimeout

-----------------------------------------------------------------------------
(* The lock and the count.                                                 *)

\* What a step does to the lock.
LEMMA HeldStep ==
    ASSUME [Next]_vars
    PROVE  \/ UNCHANGED held
           \/ \E t \in Threads : grabPartialWakeLock(t)
           \/ held' = FALSE
BY DEF Next, ThreadStep, LoopStep, vars, grabPartialWakeLock, armTimeout,
     armTimeoutFails, replaceTimeout, releaseOne, releaseLast, cancelLast, releaseUncounted,
     fireTimeout, enqueueTimeout, proxyTimeout, wakeTimeoutCallback, checkLast, clearLast, freeInfo

LEMMA HeldInsideStep ==
    ASSUME TypeOK, OneInside, HeldInside, [Next]_vars
    PROVE  HeldInside'
<1> USE WakeLockAssumption DEF Go, LoopGo, Lock, Unlock, Version13
<1>0. pc \in [Threads -> {"idle", "arm", "cancel", "release"}]
  BY DEF TypeOK
<1>1. ASSUME NEW t \in Threads, grabPartialWakeLock(t) PROVE HeldInside'
  <2>1. pc[t] = "idle" /\ pc' = [pc EXCEPT ![t] = "arm"] /\ held' = TRUE /\ mutex = NoThread
        /\ build' = build
    BY <1>1 DEF grabPartialWakeLock
  <2>2. Version13 => \A u \in Threads : u # t => pc'[u] = "idle"
    BY <1>0, <2>1, NobodyInside
  <2>3. pc'[t] = "arm"
    BY <1>0, <2>1
  <2> QED
    BY <2>1, <2>2, <2>3 DEF HeldInside
<1>2. ASSUME NEW t \in Threads, armTimeout(t) \/ replaceTimeout(t) \/ cancelLast(t)
      PROVE  HeldInside'
  BY <1>0, <1>2 DEF armTimeout, replaceTimeout, cancelLast, HeldInside
<1>3. ASSUME NEW t \in Threads, armTimeoutFails(t) \/ releaseLast(t)
      PROVE  HeldInside'
  <2>1. PICK to \in {"idle", "release"} :
          pc' = [pc EXCEPT ![t] = to] /\ held' = FALSE /\ build' = build
    BY <1>3 DEF armTimeoutFails, releaseLast
  <2>2. Version13 => \A u \in Threads : u # t => pc[u] = "idle"
    <3>1. CASE releaseLast(t)
      <4>1. mutex = NoThread
        BY <3>1 DEF releaseLast
      <4> QED
        BY <4>1, NobodyInside
    <3>2. CASE armTimeoutFails(t)
      <4>1. pc[t] # "idle"
        BY <3>2 DEF armTimeoutFails
      <4> QED
        BY <4>1, Alone
    <3> QED
      BY <1>3, <3>1, <3>2
  <2> QED
    BY <1>0, <2>1, <2>2 DEF HeldInside
<1>4. CASE wakeTimeoutCallback
  <2>1. UNCHANGED <<build, pc>> /\ (held' = held \/ (mutex = NoThread /\ held' = FALSE))
    BY <1>4, Zenon DEF wakeTimeoutCallback
  <2>2. CASE held' = held
    BY <2>1, <2>2 DEF HeldInside
  <2>3. CASE mutex = NoThread
    <3>1. Version13 => \A u \in Threads : pc[u] = "idle"
      BY <2>3, NobodyInside
    <3> QED
      BY <2>1, <3>1 DEF HeldInside
  <2> QED
    BY <2>1, <2>2, <2>3
<1>5. ASSUME NEW t \in Threads, releaseUncounted(t) PROVE HeldInside'
  BY <1>5 DEF releaseUncounted, HeldInside
<1>6. CASE UNCHANGED <<build, pc, held>>
  BY <1>6 DEF HeldInside
<1> QED
  BY <1>1, <1>2, <1>3, <1>4, <1>5, <1>6 DEF Next, ThreadStep, LoopStep, vars,
     releaseOne, fireTimeout, enqueueTimeout, proxyTimeout, checkLast, clearLast, freeInfo

\* A count above zero goes with the lock.
LEMMA CountedStep ==
    ASSUME TypeOK, OneInside, HeldInside, CountedMeansHeld, [Next]_vars
    PROVE  CountedMeansHeld'
<1> USE DEF Go, LoopGo, Version13, MayFail
<1>0. count \in Nat /\ held \in BOOLEAN
  BY DEF TypeOK
<1>1. ASSUME NEW t \in Threads, grabPartialWakeLock(t) PROVE CountedMeansHeld'
  BY <1>1 DEF grabPartialWakeLock, CountedMeansHeld
<1>2. ASSUME NEW t \in Threads, armTimeout(t) PROVE CountedMeansHeld'
  <2>1. pc[t] = "arm" /\ UNCHANGED <<build, held>>
    BY <1>2 DEF armTimeout
  <2>2. ~MayFail => held
    BY <2>1 DEF HeldInside
  <2> QED
    BY <2>1, <2>2 DEF CountedMeansHeld
<1>3. ASSUME NEW t \in Threads, armTimeoutFails(t) PROVE CountedMeansHeld'
  BY <1>3 DEF armTimeoutFails, CountedMeansHeld
<1>4. ASSUME NEW t \in Threads, releaseOne(t) PROVE CountedMeansHeld'
  BY <1>0, <1>4 DEF releaseOne, CountedMeansHeld
<1>5. ASSUME NEW t \in Threads, releaseLast(t) PROVE CountedMeansHeld'
  BY <1>5 DEF releaseLast, CountedMeansHeld
<1>6. ASSUME NEW t \in Threads, releaseUncounted(t) PROVE CountedMeansHeld'
  BY <1>6 DEF releaseUncounted, CountedMeansHeld
<1>7. CASE wakeTimeoutCallback
  <2>1. build' = build /\ (UNCHANGED <<held, count>> \/ (held' = FALSE /\ (Version13 => count' = 0)))
    BY <1>7, Zenon DEF wakeTimeoutCallback
  <2> QED
    BY <1>0, <2>1 DEF CountedMeansHeld
<1>8. CASE UNCHANGED <<build, count, held>>
  BY <1>8 DEF CountedMeansHeld
<1> QED
  BY <1>1, <1>2, <1>3, <1>4, <1>5, <1>6, <1>7, <1>8 DEF Next, ThreadStep, LoopStep, vars,
     replaceTimeout, cancelLast, fireTimeout, enqueueTimeout, proxyTimeout, checkLast,
     clearLast, freeInfo

\* Whoever cancels a timer has armed another one, or has released the lock.
LEMMA TimeoutStep ==
    ASSUME TypeOK, OneInside, CallbackOwns, NewTimerArmed, HeldInside, HeldHasTimeout, [Next]_vars
    PROVE  HeldHasTimeout'
<1> USE DEF Go, LoopGo
<1>0. pc \in [Threads -> {"idle", "arm", "cancel", "release"}]
      /\ mine \in [Threads -> Infos \cup {NoInfo}]
  BY DEF TypeOK
<1>1. build' = build
  BY DEF Next, ThreadStep, LoopStep, vars, grabPartialWakeLock, armTimeout,
     armTimeoutFails, replaceTimeout, releaseOne, releaseLast, cancelLast, releaseUncounted,
     fireTimeout, enqueueTimeout, proxyTimeout, wakeTimeoutCallback, checkLast, clearLast, freeInfo
<1> SUFFICES ASSUME ~CidUnsigned, held' PROVE TimerSet'
  <2>1. CidUnsigned' = CidUnsigned
    BY <1>1 DEF CidUnsigned
  <2>2. ~held' => TimerSet'
    BY Zenon DEF TimerSet
  <2> QED
    BY <2>1, <2>2, Zenon DEF HeldHasTimeout
<1>2. ASSUME NEW t \in Threads, grabPartialWakeLock(t) PROVE TimerSet'
  <2>1. pc'[t] = "arm"
    BY <1>0, <1>2 DEF grabPartialWakeLock
  <2> QED
    BY <2>1 DEF TimerSet
<1>3. ASSUME NEW t \in Threads, armTimeout(t) PROVE TimerSet'
  <2>1. PICK i \in Infos \ live : armed' = armed \cup {i} /\ cancelled' = cancelled \ {i}
    BY <1>3 DEF armTimeout
  <2>2. WillRelease(i)'
    BY <2>1 DEF WillRelease
  <2> QED
    BY <2>2 DEF TimerSet
<1>4. ASSUME NEW t \in Threads, replaceTimeout(t) PROVE TimerSet'
  <2>1. pc[t] = "cancel" /\ cancelled' = cancelled \cup ({seen[t]} \ {NoInfo})
        /\ UNCHANGED <<armed, proxied, cur, loopPc, stop, mine>>
    BY <1>4 DEF replaceTimeout
  <2>2. mine[t] \in Infos /\ WillRelease(mine[t]) /\ seen[t] # mine[t]
    BY <2>1 DEF NewTimerArmed
  <2>3. PICK i \in Infos : i = mine[t]
    BY <2>2
  <2>4. WillRelease(i)'
    BY <2>1, <2>2, <2>3 DEF WillRelease
  <2> QED
    BY <2>4 DEF TimerSet
<1>5. ASSUME NEW t \in Threads, cancelLast(t) PROVE FALSE
  <2>1. pc[t] = "release" /\ held' = held
    BY <1>5 DEF cancelLast
  <2>2. Version13
    BY <2>1 DEF OneInside
  <2> QED
    BY <2>1, <2>2 DEF HeldInside
<1>6. ASSUME NEW t \in Threads, armTimeoutFails(t) PROVE FALSE
  BY <1>6 DEF armTimeoutFails
<1>7. ASSUME ~\E t \in Threads : \/ grabPartialWakeLock(t) \/ armTimeout(t)
                                \/ replaceTimeout(t) \/ cancelLast(t) \/ armTimeoutFails(t)
      PROVE  TimerSet'
  <2>1. held
    BY <1>7, HeldStep
  <2>2. TimerSet
    BY DEF HeldHasTimeout
  <2>3. CASE \E t \in Threads : pc[t] = "arm"
    <3>1. PICK t \in Threads : pc[t] = "arm"
      BY <2>3
    <3>2. pc'[t] = "arm"
      BY <1>0, <1>7, <3>1 DEF Next, ThreadStep, LoopStep, vars, releaseOne, releaseLast,
        releaseUncounted, fireTimeout, enqueueTimeout, proxyTimeout, wakeTimeoutCallback,
        checkLast, clearLast, freeInfo
    <3> QED
      BY <3>2 DEF TimerSet
  <2>4. CASE \E i \in Infos : WillRelease(i)
    <3>1. PICK i \in Infos : WillRelease(i)
      BY <2>4
    <3>2. ~(wakeTimeoutCallback /\ ~stop)
      BY DEF wakeTimeoutCallback
    <3>3. WillRelease(i)'
      BY <1>7, <3>1, <3>2, WillReleaseStep
    <3> QED
      BY <3>3 DEF TimerSet
  <2> QED
    BY <2>1, <2>2, <2>3, <2>4 DEF TimerSet
<1> QED
  BY <1>2, <1>3, <1>4, <1>5, <1>6, <1>7

-----------------------------------------------------------------------------

LEMMA InitInv == Init => WakeInv
<1> SUFFICES ASSUME Init PROVE WakeInv
  OBVIOUS
<1>1. TypeOK
  BY WakeLockAssumption DEF Init, TypeOK
<1>2. OneInside /\ CallbackOwns /\ NewTimerArmed
  BY WakeLockAssumption DEF Init, OneInside, CallbackOwns, NewTimerArmed
<1>3. LastIsLive /\ LastNotFreed /\ HeldInside
  BY DEF Init, LastIsLive, LastNotFreed, HeldInside
<1>4. HeldHasTimeout /\ CountedMeansHeld
  BY DEF Init, HeldHasTimeout, TimerSet, CountedMeansHeld
<1> QED
  BY <1>1, <1>2, <1>3, <1>4 DEF WakeInv

LEMMA StepInv == WakeInv /\ [Next]_vars => WakeInv'
BY TypeStep, InsideStep, CallbackStep, NewTimerStep, LastStep, HeldInsideStep, CountedStep,
   TimeoutStep DEF WakeInv

\* Every reachable state satisfies the inductive invariant.
THEOREM Invariance == Spec => []WakeInv
BY InitInv, StepInv, PTL DEF Spec

\* The types hold and s_last_wake_timeout_info never outlives its info.
THEOREM NoDanglingPointer == Spec => []NothingDangles
<1>1. WakeInv => NothingDangles
  BY DEF WakeInv, NothingDangles
<1> QED
  BY <1>1, Invariance, PTL

\* A held wake lock always has a timer that is going to release it, although
\* timers are cancelled, freed and handed out again while they run.
THEOREM HeldIsReleased == Spec => []HeldHasTimeout
BY Invariance, PTL DEF WakeInv

\* Counted messages keep the phone awake.
THEOREM CountKeepsAwake == Spec => []CountedMeansHeld
BY Invariance, PTL DEF WakeInv
=============================================================================
