------------------------- MODULE RadioServiceProofs -------------------------
(***************************************************************************)
(* Proofs about the callbacks of the radio service, for any number of      *)
(* modem threads and slots, with and without asserts.                      *)
(***************************************************************************)
EXTENDS RadioService, FiniteSetTheorems, TLAPS

\* A non-empty list has a first element, and a tail.
LEMMA ListFacts ==
    ASSUME NEW S, NEW cs \in Seq(S), cs # <<>>
    PROVE  /\ Head(cs) \in S
           /\ Tail(cs) \in Seq(S)
           /\ Len(cs) \in Nat
           /\ Len(cs) > 1 <=> Tail(cs) # <<>>
<1>1. Head(cs) \in S /\ Tail(cs) \in Seq(S) /\ Len(cs) \in Nat /\ Len(cs) # 0
  OBVIOUS
<1>2. Len(Tail(cs)) = Len(cs) - 1
  OBVIOUS
<1>3. \A list \in Seq(S) : list # <<>> <=> Len(list) # 0
  OBVIOUS
<1>4. Tail(cs) # <<>> <=> Len(Tail(cs)) # 0
  BY <1>1, <1>3, Zenon
<1>5. Len(cs) > 1 <=> Len(Tail(cs)) # 0
  BY <1>1, <1>2
<1> QED
  BY <1>1, <1>4, <1>5, Zenon

LEMMA HeadOfOne == ASSUME NEW S, NEW x \in S PROVE Head(<<x>>) = x
OBVIOUS

\* Every step preserves the types: a thread has callbacks left exactly while
\* it is not idle.
LEMMA TypeStep == TypeOK /\ [Next]_vars => TypeOK'
<1> SUFFICES ASSUME TypeOK, [Next]_vars PROVE TypeOK'
  OBVIOUS
<1> USE RadioAssumption DEF clientVars, lockVars, Go, Begin, None, Places
<1>0. Binder \in Threads /\ AnySlot \in Slots
  BY DEF Threads, AnySlot
<1>1. CASE Dies
  BY <1>1 DEF Dies, TypeOK
<1>2. CASE Restarts
  BY <1>2 DEF Restarts, TypeOK
<1>3. ASSUME NEW t \in Modem, NEW s \in Slots, deliver(t, s) PROVE TypeOK'
  <2>1. t \in Threads /\ <<TRUE>> \in Seq(BOOLEAN) /\ <<TRUE>> # <<>>
    BY DEF Threads
  <2> QED
    BY <1>3, <2>1 DEF deliver, TypeOK
<1>4. ASSUME NEW s \in Slots, sendErrorResponse(s) PROVE TypeOK'
  <2>1. <<FALSE>> \in Seq(BOOLEAN) /\ <<FALSE>> # <<>>
    OBVIOUS
  <2>2. /\ pc[Binder] = "idle" /\ pc' = [pc EXCEPT ![Binder] = "begin"]
        /\ slot' = [slot EXCEPT ![Binder] = s] /\ calls' = [calls EXCEPT ![Binder] = <<FALSE>>]
        /\ work' = work + 1
        /\ UNCHANGED <<proc, up, client, counter, readers, writer, note, caller, aborted, misused>>
    BY <1>4 DEF sendErrorResponse
  <2>3. calls' \in [Threads -> Seq(BOOLEAN)]
        /\ \A t \in Threads : calls'[t] = <<>> <=> pc'[t] = "idle"
    BY <1>0, <2>1, <2>2 DEF TypeOK
  <2>4. pc' \in [Threads -> Places] /\ slot' \in [Threads -> Slots] /\ work' \in Nat
    BY <1>0, <2>2 DEF TypeOK
  <2> QED
    BY <2>2, <2>3, <2>4 DEF TypeOK
<1>5. ASSUME NEW s \in Slots, setResponseFunctions(s) PROVE TypeOK'
  <2>1. \A cs \in connectCalls : cs \in Seq(BOOLEAN) /\ cs # <<>>
    <3>1. <<TRUE, TRUE>> \in Seq(BOOLEAN) /\ <<TRUE, TRUE>> # <<>>
      OBVIOUS
    <3>2. <<TRUE, TRUE, FALSE>> \in Seq(BOOLEAN) /\ <<TRUE, TRUE, FALSE>> # <<>>
      OBVIOUS
    <3> QED
      BY <3>1, <3>2 DEF connectCalls
  <2>2. PICK cs \in connectCalls : Begin(Binder, s, cs)
    BY <1>5 DEF setResponseFunctions
  <2>3. cs \in Seq(BOOLEAN) /\ cs # <<>>
    BY <2>1, <2>2
  <2>4. slot' \in [Threads -> Slots] /\ calls' \in [Threads -> Seq(BOOLEAN)]
    BY <1>0, <2>2, <2>3 DEF TypeOK
  <2>5. \A t \in Threads : calls'[t] = <<>> <=> pc'[t] = "idle"
    BY <1>0, <1>5, <2>2, <2>3 DEF setResponseFunctions, TypeOK
  <2>6. caller' \in 0 .. MaxProcs
    BY <1>5 DEF setResponseFunctions, TypeOK
  <2>7. pc' = [pc EXCEPT ![Binder] = "register"]
        /\ UNCHANGED <<proc, up, client, counter, readers, writer, note, aborted, misused, work>>
    BY <1>5 DEF setResponseFunctions
  <2> QED
    BY <1>0, <2>4, <2>5, <2>6, <2>7 DEF TypeOK
<1>6. CASE registerLock
  BY <1>0, <1>6 DEF registerLock, TypeOK
<1>7. CASE storeCallbacks
  <2>1. /\ pc[Binder] = "store" /\ pc' = [pc EXCEPT ![Binder] = "count"]
        /\ client' = [client EXCEPT ![slot[Binder]] = caller] /\ caller' = None
        /\ UNCHANGED <<proc, up, counter, readers, writer, slot, calls, note, aborted, misused, work>>
    BY <1>7 DEF storeCallbacks
  <2>2. client' \in [Slots -> 0 .. MaxProcs] /\ caller' \in 0 .. MaxProcs
    BY <1>0, <2>1 DEF TypeOK
  <2> QED
    BY <1>0, <2>1, <2>2 DEF TypeOK
<1>8. CASE countUpdate
  BY <1>0, <1>8 DEF countUpdate, TypeOK
<1>9. ASSUME NEW t \in Threads, rdlock(t) PROVE TypeOK'
  <2>0. readers' = readers \/ readers' = readers + 1
    BY <1>9, Zenon DEF rdlock
  <2>1. readers' \in Nat
    BY <2>0 DEF TypeOK
  <2>2. pc' = [pc EXCEPT ![t] = "call"] /\ pc[t] = "begin"
        /\ UNCHANGED <<proc, up, client, counter, writer, slot, calls, note, caller, aborted,
                       misused, work>>
    BY <1>9 DEF rdlock
  <2> QED
    BY <2>1, <2>2 DEF TypeOK
<1>10. ASSUME NEW t \in Threads, callback(t) \/ callbackFails(t) PROVE TypeOK'
  BY <1>10 DEF callback, callbackFails, TypeOK
<1>11. ASSUME NEW t \in Threads, releaseFirst(t) PROVE TypeOK'
  <2>1. Head(calls[t]) \in BOOLEAN
    BY <1>11, ListFacts DEF releaseFirst, TypeOK
  <2>0. readers' = (IF readers > 0 THEN readers - 1 ELSE 0)
    BY <1>11 DEF releaseFirst
  <2>2. readers' \in Nat
    BY <2>0 DEF TypeOK
  <2>4. aborted' \in BOOLEAN /\ misused' \in BOOLEAN
    BY <1>11, Zenon DEF releaseFirst
  <2>3. note' \in [Threads -> Nat]
    BY <1>11 DEF releaseFirst, TypeOK
  <2> QED
    BY <1>11, <2>2, <2>3, <2>4 DEF releaseFirst, TypeOK
<1>12. ASSUME NEW t \in Threads, resetLock(t) PROVE TypeOK'
  BY <1>12 DEF resetLock, TypeOK
<1>13. ASSUME NEW t \in Threads, resetCallbacks(t) PROVE TypeOK'
  <2>0. slot[t] \in Slots /\ counter[slot[t]] + 1 \in Nat /\ 0 \in 0 .. MaxProcs
    BY DEF TypeOK
  <2>1. client' \in [Slots -> 0 .. MaxProcs] /\ counter' \in [Slots -> Nat]
    <3>1. CASE UNCHANGED <<client, counter>>
      BY <3>1 DEF TypeOK
    <3>2. CASE /\ client' = [client EXCEPT ![slot[t]] = None]
               /\ counter' = [counter EXCEPT ![slot[t]] = @ + 1]
      BY <2>0, <3>2 DEF TypeOK
    <3> QED
      BY <1>13, <3>1, <3>2 DEF resetCallbacks
  <2> QED
    BY <1>13, <2>1 DEF resetCallbacks, TypeOK
<1>14. ASSUME NEW t \in Threads, reacquire(t) PROVE TypeOK'
  BY <1>14 DEF reacquire, TypeOK
<1>15. ASSUME NEW t \in Threads, finish(t) PROVE TypeOK'
  <2>1. /\ Head(calls[t]) \in BOOLEAN /\ Tail(calls[t]) \in Seq(BOOLEAN)
        /\ Len(calls[t]) > 1 <=> Tail(calls[t]) # <<>>
    BY <1>15, ListFacts DEF finish, NextCall, TypeOK
  <2>0. readers' = readers \/ readers' = (IF readers > 0 THEN readers - 1 ELSE 0)
    BY <1>15, Zenon DEF finish
  <2>2. readers' \in Nat
    BY <2>0 DEF TypeOK
  <2>6. aborted' \in BOOLEAN
    BY <1>15, Zenon DEF finish, TypeOK
  <2>3. slot' \in [Threads -> Slots] /\ calls' \in [Threads -> Seq(BOOLEAN)]
    BY <1>0, <1>15, <2>1 DEF finish, NextCall, TypeOK
  <2>4. \A u \in Threads : calls'[u] = <<>> <=> pc'[u] = "idle"
    BY <1>15, <2>1 DEF finish, NextCall, TypeOK
  <2>5. pc' \in [Threads -> Places]
    BY <1>15 DEF finish, NextCall, TypeOK
  <2> QED
    BY <1>15, <2>2, <2>3, <2>4, <2>5, <2>6 DEF finish, TypeOK
<1>16. CASE UNCHANGED vars
  BY <1>16 DEF vars, TypeOK
<1> QED
  BY <1>1, <1>2, <1>3, <1>4, <1>5, <1>6, <1>7, <1>8, <1>9, <1>10, <1>11, <1>12, <1>13,
     <1>14, <1>15, <1>16 DEF Next, BinderStep, Step

-----------------------------------------------------------------------------
(* The reader-writer lock.                                                 *)

LEMMA ThreadsFinite == IsFiniteSet(Threads)
BY RadioAssumption, FS_AddElement DEF Threads

\* One thread more, or one less, holds the lock for reading.
LEMMA HoldingFacts ==
    /\ IsFiniteSet(Holding) /\ Cardinality(Holding) \in Nat
    /\ \A t \in Threads :
         /\ t \notin Holding => Cardinality(Holding \cup {t}) = Cardinality(Holding) + 1
         /\ t \in Holding => /\ Cardinality(Holding \ {t}) = Cardinality(Holding) - 1
                            /\ Cardinality(Holding) > 0
<1>1. Holding \subseteq Threads
  BY DEF Holding
<1>2. IsFiniteSet(Holding) /\ Cardinality(Holding) \in Nat
  BY <1>1, ThreadsFinite, FS_Subset, FS_CardinalityType
<1>3. ASSUME NEW t \in Threads, t \notin Holding
      PROVE  Cardinality(Holding \cup {t}) = Cardinality(Holding) + 1
  BY <1>2, <1>3, FS_AddElement
<1>4. ASSUME NEW t \in Threads, t \in Holding
      PROVE  /\ Cardinality(Holding \ {t}) = Cardinality(Holding) - 1
             /\ Cardinality(Holding) > 0
  <2>1. Cardinality(Holding) # 0
    BY <1>2, <1>4, FS_EmptySet
  <2>2. Cardinality(Holding \ {t}) = Cardinality(Holding) - 1
    BY <1>2, <1>4, FS_RemoveElement
  <2> QED
    BY <1>2, <2>1, <2>2
<1> QED
  BY <1>2, <1>3, <1>4

\* No two threads change the callbacks at once, and no reader is counted then.
WriterExclusive ==
    /\ Writing = {t \in Threads : writer = t}
    /\ writer # NoThread => readers = 0

LEMMA WriterStep ==
    ASSUME TypeOK, WriterExclusive, [Next]_vars
    PROVE  WriterExclusive'
<1> USE RadioAssumption DEF clientVars, lockVars, Go, Begin, Places
<1>0. Binder \in Threads /\ pc \in [Threads -> Places] /\ readers \in Nat
      /\ writer \in Threads \cup {NoThread}
  BY DEF Threads, TypeOK
<1> DEFINE W == {"store", "count", "resetLocked"}
<1>1. \A t \in Threads : pc[t] \in W <=> writer = t
  BY DEF WriterExclusive, Writing
<1> SUFFICES /\ \A t \in Threads : pc'[t] \in W <=> writer' = t
             /\ writer' # NoThread => readers' = 0
  BY DEF WriterExclusive, Writing
<1>2. writer # NoThread => readers = 0
  BY DEF WriterExclusive
<1>3. CASE UNCHANGED <<pc, writer, readers>>
  BY <1>1, <1>2, <1>3
<1>4. ASSUME NEW t \in Threads, registerLock \/ resetLock(t)
      PROVE  /\ \A u \in Threads : pc'[u] \in W <=> writer' = u
             /\ writer' # NoThread => readers' = 0
  BY <1>0, <1>1, <1>4 DEF registerLock, resetLock
<1>5. CASE storeCallbacks
  BY <1>0, <1>1, <1>2, <1>5 DEF storeCallbacks
<1>6. ASSUME NEW t \in Threads, countUpdate \/ resetCallbacks(t)
      PROVE  /\ \A u \in Threads : pc'[u] \in W <=> writer' = u
             /\ writer' # NoThread => readers' = 0
  BY <1>0, <1>1, <1>6 DEF countUpdate, resetCallbacks
\* Between the critical sections of the writers.
<1>7. ASSUME NEW t \in Threads, pc[t] \notin W, NEW to \in Places, to \notin W,
             pc' = [pc EXCEPT ![t] = to], writer' = writer,
             writer # NoThread => readers' = 0
      PROVE  /\ \A u \in Threads : pc'[u] \in W <=> writer' = u
             /\ writer' # NoThread => readers' = 0
  BY <1>0, <1>1, <1>7
<1>8. ASSUME NEW t \in Modem, NEW s \in Slots, deliver(t, s)
      PROVE  t \in Threads /\ pc[t] = "idle" /\ pc' = [pc EXCEPT ![t] = "begin"]
             /\ UNCHANGED <<writer, readers>>
  BY <1>8 DEF deliver, Threads
<1>9. ASSUME NEW s \in Slots, sendErrorResponse(s)
      PROVE  pc[Binder] = "idle" /\ pc' = [pc EXCEPT ![Binder] = "begin"]
             /\ UNCHANGED <<writer, readers>>
  BY <1>9 DEF sendErrorResponse
<1>10. ASSUME NEW s \in Slots, setResponseFunctions(s)
      PROVE  pc[Binder] = "idle" /\ pc' = [pc EXCEPT ![Binder] = "register"]
             /\ UNCHANGED <<writer, readers>>
  BY <1>10 DEF setResponseFunctions
<1>11. ASSUME NEW t \in Threads, rdlock(t)
       PROVE  pc[t] = "begin" /\ pc' = [pc EXCEPT ![t] = "call"] /\ writer' = writer
              /\ (writer # NoThread => readers' = readers)
  BY <1>11, Zenon DEF rdlock
<1>12. ASSUME NEW t \in Threads, callback(t) \/ callbackFails(t) \/ reacquire(t)
       PROVE  \E to \in {"end", "failed"} :
                pc[t] \notin W /\ pc' = [pc EXCEPT ![t] = to] /\ writer' = writer
                /\ (writer # NoThread => readers' = readers)
  BY <1>12 DEF callback, callbackFails, reacquire
<1>13. ASSUME NEW t \in Threads, releaseFirst(t)
       PROVE  pc[t] = "failed" /\ pc' = [pc EXCEPT ![t] = "reset"] /\ writer' = writer
              /\ readers' = IF readers > 0 THEN readers - 1 ELSE 0
  BY <1>13 DEF releaseFirst
<1>14. ASSUME NEW t \in Threads, finish(t)
       PROVE  \E to \in {"begin", "idle"} :
                pc[t] = "end" /\ pc' = [pc EXCEPT ![t] = to] /\ writer' = writer
                /\ (readers' = readers \/ readers' = IF readers > 0 THEN readers - 1 ELSE 0)
  BY <1>14, Zenon DEF finish, NextCall
<1>15. CASE \E t \in Modem, s \in Slots : deliver(t, s)
  BY <1>2, <1>7, <1>8, <1>15
<1>16. CASE \E s \in Slots : sendErrorResponse(s) \/ setResponseFunctions(s)
  BY <1>0, <1>2, <1>7, <1>9, <1>10, <1>16
<1>17. ASSUME NEW t \in Threads, rdlock(t)
       PROVE  /\ \A u \in Threads : pc'[u] \in W <=> writer' = u
              /\ writer' # NoThread => readers' = 0
  BY <1>2, <1>7, <1>11, <1>17
<1>18. ASSUME NEW t \in Threads, callback(t) \/ callbackFails(t) \/ reacquire(t)
       PROVE  /\ \A u \in Threads : pc'[u] \in W <=> writer' = u
              /\ writer' # NoThread => readers' = 0
  BY <1>2, <1>7, <1>12, <1>18
<1>19. ASSUME NEW t \in Threads, releaseFirst(t)
       PROVE  /\ \A u \in Threads : pc'[u] \in W <=> writer' = u
              /\ writer' # NoThread => readers' = 0
  BY <1>2, <1>7, <1>13, <1>19
<1>3a. ASSUME NEW t \in Threads, finish(t)
       PROVE  /\ \A u \in Threads : pc'[u] \in W <=> writer' = u
              /\ writer' # NoThread => readers' = 0
  BY <1>2, <1>7, <1>14, <1>3a
<1>21. CASE Dies \/ Restarts \/ UNCHANGED vars
  BY <1>3, <1>21 DEF Dies, Restarts, vars
<1> QED
  BY <1>0, <1>4, <1>5, <1>6, <1>15, <1>16, <1>17, <1>18, <1>19, <1>3a, <1>21
     DEF Next, BinderStep, Step

LEMMA ModemStep ==
    ASSUME TypeOK, ModemLocks, [Next]_vars
    PROVE  ModemLocks'
<1> USE RadioAssumption DEF clientVars, lockVars, Go, Begin
<1>0. calls \in [Threads -> Seq(BOOLEAN)] /\ \A t \in Modem : t \in Threads /\ t # Binder
  BY DEF Threads, TypeOK
<1>1. ASSUME NEW t \in Modem, NEW s \in Slots, deliver(t, s) PROVE ModemLocks'
  BY <1>0, <1>1 DEF deliver, ModemLocks
<1>2. ASSUME NEW t \in Threads, finish(t) PROVE ModemLocks'
  <2>1. calls' = [calls EXCEPT ![t] = Tail(@)]
    BY <1>2 DEF finish, NextCall
  <2>2. pc[t] = "end" /\ calls[t] # <<>>
    BY <1>2 DEF finish, NextCall, TypeOK
  <2>3. Tail(<<TRUE>>) = <<>>
    OBVIOUS
  <2> QED
    BY <1>0, <2>1, <2>2, <2>3 DEF ModemLocks
<1>3. ASSUME NEW s \in Slots, sendErrorResponse(s) \/ setResponseFunctions(s)
      PROVE  ModemLocks'
  BY <1>0, <1>3 DEF sendErrorResponse, setResponseFunctions, ModemLocks
<1>4. CASE UNCHANGED calls
  BY <1>4 DEF ModemLocks
<1> QED
  BY <1>1, <1>2, <1>3, <1>4 DEF Next, BinderStep, Step, vars, Dies, Restarts, registerLock,
     storeCallbacks, countUpdate, rdlock, callback, callbackFails, releaseFirst, resetLock,
     resetCallbacks, reacquire

\* A modem thread that is not idle makes its call under the rdlock.
LEMMA ModemHead ==
    ASSUME ModemLocks, NEW t \in Threads, calls[t] # <<>>, ~Head(calls[t])
    PROVE  t = Binder
<1>1. TRUE \in BOOLEAN
  OBVIOUS
<1>2. Head(<<TRUE>>) = TRUE
  BY <1>1, HeadOfOne, Zenon
<1> QED
  BY <1>2, Zenon DEF ModemLocks, Threads

\* A thread that moves joins or leaves the readers, and nobody else does.
LEMMA MoveFacts ==
    ASSUME TypeOK, NEW t \in Threads, NEW to \in Places,
           pc' = [pc EXCEPT ![t] = to],
           \A u \in Threads : u # t => calls'[u] = calls[u]
    PROVE  /\ to \in {"call", "failed", "end"} /\ Head(calls'[t])
                => Holding' = Holding \cup {t}
           /\ to \notin {"call", "failed", "end"} \/ ~Head(calls'[t])
                => Holding' = Holding \ {t}
           /\ t # Binder => Overdrawn' = Overdrawn
           /\ t = Binder =>
                Overdrawn' = (to \in {"reset", "resetLocked", "reacquire"} /\ ~Head(calls'[t]))
<1>0. Binder \in Threads
  BY DEF Threads
<1>1. pc'[t] = to /\ \A u \in Threads : u # t => pc'[u] = pc[u]
  BY DEF TypeOK
<1>2. \A u \in Threads : u # t => (u \in Holding' <=> u \in Holding)
  BY <1>1 DEF Holding
<1>3. t \in Holding' <=> to \in {"call", "failed", "end"} /\ Head(calls'[t])
  BY <1>1 DEF Holding
<1>4. Holding' \subseteq Threads /\ Holding \subseteq Threads
  BY DEF Holding
<1>5. t # Binder => Overdrawn' = Overdrawn
  BY <1>0, <1>1, Zenon DEF Overdrawn
<1>6. t = Binder =>
        Overdrawn' = (to \in {"reset", "resetLocked", "reacquire"} /\ ~Head(calls'[t]))
  BY <1>1, Zenon DEF Overdrawn
<1> QED
  BY <1>2, <1>3, <1>4, <1>5, <1>6

\* How many readers the lock counts.
ReadersCounted ==
    /\ Cardinality(Holding) <= readers + 1
    /\ ~Overdrawn => Cardinality(Holding) <= readers
    /\ ~misused => readers = Cardinality(Holding) /\ ~Overdrawn /\ ~aborted

LEMMA ReadersStep ==
    ASSUME TypeOK, ModemLocks, ReadersCounted, [Next]_vars
    PROVE  ReadersCounted'
<1> USE DEF clientVars, lockVars, Go, Begin
<1>0. Binder \in Threads /\ readers \in Nat /\ Cardinality(Holding) \in Nat
      /\ calls \in [Threads -> Seq(BOOLEAN)] /\ pc \in [Threads -> Places]
  BY HoldingFacts DEF Threads, TypeOK
<1>1. CASE Holding' = Holding /\ Overdrawn' = Overdrawn
           /\ UNCHANGED <<readers, misused, aborted>>
  BY <1>1, Zenon DEF ReadersCounted
\* A thread starts a delivery, or moves outside the callbacks.
<1>2. ASSUME NEW t \in Threads, NEW to \in Places, to \notin {"call", "failed", "end"},
             pc[t] \notin {"call", "failed", "end", "reset", "resetLocked", "reacquire"},
             to \notin {"reset", "resetLocked", "reacquire"},
             pc' = [pc EXCEPT ![t] = to],
             \A u \in Threads : u # t => calls'[u] = calls[u],
             UNCHANGED <<readers, misused, aborted>>
      PROVE  ReadersCounted'
  <2>1. Holding' = Holding
    <3>1. Holding' = Holding \ {t}
      BY <1>2, MoveFacts
    <3>2. t \notin Holding
      BY <1>2 DEF Holding
    <3> QED
      BY <3>1, <3>2
  <2>2. Overdrawn' = Overdrawn
    <3>1. CASE t # Binder
      BY <1>2, <3>1, MoveFacts
    <3>2. CASE t = Binder
      BY <1>0, <1>2, <3>2 DEF Overdrawn
    <3> QED
      BY <3>1, <3>2
  <2> QED
    BY <1>1, <1>2, <2>1, <2>2
<1>3. ASSUME NEW t \in Modem, NEW s \in Slots, deliver(t, s)
      PROVE  ReadersCounted'
  <2>1. t \in Threads /\ "begin" \in Places /\ pc[t] = "idle" /\ pc' = [pc EXCEPT ![t] = "begin"]
        /\ (\A u \in Threads : u # t => calls'[u] = calls[u])
        /\ UNCHANGED <<readers, misused, aborted>>
    BY <1>0, <1>3 DEF deliver, Threads, Places
  <2> QED
    BY <1>2, <2>1
<1>4. ASSUME NEW s \in Slots, sendErrorResponse(s) \/ setResponseFunctions(s)
      PROVE  ReadersCounted'
  <2>1. PICK to \in {"begin", "register"} :
          /\ pc[Binder] = "idle" /\ pc' = [pc EXCEPT ![Binder] = to] /\ to \in Places
          /\ \A u \in Threads : u # Binder => calls'[u] = calls[u]
          /\ UNCHANGED <<readers, misused, aborted>>
    BY <1>0, <1>4 DEF sendErrorResponse, setResponseFunctions, Places
  <2> QED
    BY <1>0, <1>2, <2>1
<1>5. CASE registerLock \/ storeCallbacks \/ countUpdate
  <2>1. PICK to \in {"store", "count", "begin"} :
          /\ pc[Binder] \in {"register", "store", "count"}
          /\ pc' = [pc EXCEPT ![Binder] = to] /\ to \in Places
          /\ UNCHANGED <<calls, readers, misused, aborted>>
    BY <1>5 DEF registerLock, storeCallbacks, countUpdate, Places
  <2> QED
    BY <1>0, <1>2, <2>1
\* A thread moves inside a callback, or inside checkReturnStatus.
<1>6. ASSUME NEW t \in Threads,
             \/ callback(t) \/ callbackFails(t)
             \/ resetLock(t) \/ resetCallbacks(t)
      PROVE  ReadersCounted'
  <2>1. PICK to \in Places :
          /\ \/ pc[t] = "call" /\ to \in {"end", "failed"}
             \/ pc[t] \in {"reset", "resetLocked"} /\ to \in {"resetLocked", "reacquire"}
          /\ pc' = [pc EXCEPT ![t] = to] /\ UNCHANGED <<calls, readers, misused, aborted>>
    BY <1>6 DEF callback, callbackFails, resetLock, resetCallbacks, Places
  <2>2. Holding' = Holding /\ Overdrawn' = Overdrawn
    BY <1>0, <2>1 DEF Holding, Overdrawn
  <2> QED
    BY <1>1, <2>1, <2>2
<1>7. ASSUME NEW t \in Threads, rdlock(t)
      PROVE  ReadersCounted'
  <2>1. /\ pc[t] = "begin" /\ pc' = [pc EXCEPT ![t] = "call"] /\ "call" \in Places
        /\ readers' = (IF Head(calls[t]) THEN readers + 1 ELSE readers)
        /\ UNCHANGED <<calls, misused, aborted>>
    BY <1>7 DEF rdlock, Places
  <2>2. Overdrawn' = Overdrawn /\ t \notin Holding
    BY <1>0, <2>1 DEF Overdrawn, Holding
  <2>3. CASE Head(calls[t])
    <3>1. readers' = readers + 1 /\ Holding' = Holding \cup {t}
      BY <2>1, <2>3, MoveFacts
    <3>2. Cardinality(Holding') = Cardinality(Holding) + 1
      BY <2>2, <3>1, HoldingFacts
    <3>3. ~misused' => readers' = Cardinality(Holding') /\ ~Overdrawn' /\ ~aborted'
      BY <2>1, <2>2, <3>1, <3>2, Zenon DEF ReadersCounted
    <3>4. Cardinality(Holding') <= readers' + 1
      BY <1>0, <3>1, <3>2 DEF ReadersCounted
    <3>5. ~Overdrawn' => Cardinality(Holding') <= readers'
      BY <1>0, <2>2, <3>1, <3>2 DEF ReadersCounted
    <3> QED
      BY <3>3, <3>4, <3>5 DEF ReadersCounted
  <2>4. CASE ~Head(calls[t])
    <3>0. Holding' = Holding \ {t}
      BY <2>1, <2>4, MoveFacts
    <3>1. readers' = readers /\ Holding' = Holding
      BY <2>1, <2>2, <2>4, <3>0
    <3> QED
      BY <1>1, <2>1, <2>2, <3>1
  <2> QED
    BY <2>3, <2>4
\* One reader less: a caller gives the lock back, or checkReturnStatus does.
<1>8. ASSUME NEW t \in Threads, t \in Holding,
             readers' = (IF readers > 0 THEN readers - 1 ELSE 0),
             aborted' = (Asserts /\ readers = 0), misused' = misused,
             Holding' = Holding \ {t}, Overdrawn' = Overdrawn
      PROVE  ReadersCounted'
  <2>1. Cardinality(Holding') = Cardinality(Holding) - 1 /\ Cardinality(Holding) > 0
    BY <1>8, HoldingFacts
  <2>2. ~misused => readers = Cardinality(Holding) /\ ~Overdrawn /\ ~aborted
    BY DEF ReadersCounted
  <2>3. ~misused' => readers' = Cardinality(Holding') /\ ~Overdrawn' /\ ~aborted'
    <3> SUFFICES ASSUME ~misused
                 PROVE  readers' = Cardinality(Holding') /\ ~Overdrawn' /\ ~aborted'
      BY <1>8
    <3>1. readers = Cardinality(Holding) /\ ~Overdrawn
      BY <2>2
    <3>2. readers > 0 /\ readers # 0
      BY <1>0, <2>1, <3>1
    <3>3. readers' = Cardinality(Holding')
      BY <1>0, <1>8, <2>1, <3>1, <3>2
    <3>4. ~aborted'
      BY <1>8, <3>2, Zenon
    <3> QED
      BY <1>8, <3>1, <3>3, <3>4, Zenon
  <2>4. Cardinality(Holding') <= readers' + 1
    BY <1>0, <1>8, <2>1 DEF ReadersCounted
  <2>5. ~Overdrawn' => Cardinality(Holding') <= readers'
    BY <1>0, <1>8, <2>1 DEF ReadersCounted
  <2> QED
    BY <2>3, <2>4, <2>5 DEF ReadersCounted
<1>9. ASSUME NEW t \in Threads, releaseFirst(t)
      PROVE  ReadersCounted'
  <2>1. /\ pc[t] = "failed" /\ pc' = [pc EXCEPT ![t] = "reset"] /\ "reset" \in Places
        /\ readers' = (IF readers > 0 THEN readers - 1 ELSE 0)
        /\ aborted' = (Asserts /\ readers = 0)
        /\ misused' = (misused \/ ~Head(calls[t]))
        /\ UNCHANGED calls
    BY <1>9 DEF releaseFirst, Places
  <2>2. Holding' = Holding \ {t}
    BY <2>1, MoveFacts
  <2>3. calls[t] # <<>>
    BY <2>1 DEF TypeOK
  <2>4. CASE Head(calls[t])
    <3>1. misused' = misused
      BY <2>1, <2>4 DEF TypeOK
    <3>2. t \in Holding
      BY <2>1, <2>4 DEF Holding
    <3>3. Overdrawn' = Overdrawn
      <4>1. CASE t # Binder
        BY <2>1, <4>1, MoveFacts
      <4>2. CASE t = Binder
        BY <1>0, <2>1, <2>4, <4>2 DEF Overdrawn
      <4> QED
        BY <4>1, <4>2
    <3> QED
      BY <1>8, <2>1, <2>2, <3>1, <3>2, <3>3
  <2>5. CASE ~Head(calls[t])
    <3>1. t = Binder
      BY <2>3, <2>5, ModemHead
    <3>2. misused' /\ t \notin Holding /\ ~Overdrawn /\ Overdrawn'
      <4>1. misused'
        BY <2>1, <2>5, Zenon
      <4>2. t \notin Holding
        BY <2>5 DEF Holding
      <4>3. ~Overdrawn
        BY <2>1, <3>1 DEF Overdrawn
      <4>4. Overdrawn'
        BY <2>1, <2>5, <3>1, MoveFacts
      <4> QED
        BY <4>1, <4>2, <4>3, <4>4
    <3>3. Holding' = Holding
      BY <2>2, <3>2
    <3>4. Cardinality(Holding) <= readers
      BY <3>2, Zenon DEF ReadersCounted
    <3>5. readers' = (IF readers > 0 THEN readers - 1 ELSE 0)
      BY <2>1
    <3>6. Cardinality(Holding') <= readers' + 1
      BY <1>0, <3>3, <3>4, <3>5
    <3> QED
      BY <3>2, <3>6, Zenon DEF ReadersCounted
  <2> QED
    BY <2>4, <2>5
<1>10. ASSUME NEW t \in Threads, reacquire(t)
       PROVE  ReadersCounted'
  <2>1. /\ pc[t] = "reacquire" /\ pc' = [pc EXCEPT ![t] = "end"] /\ "end" \in Places
        /\ readers' = readers + 1 /\ UNCHANGED <<calls, misused, aborted>>
    BY <1>10 DEF reacquire, Places
  <2>2. t \notin Holding
    BY <2>1 DEF Holding
  <2>3. calls[t] # <<>>
    BY <2>1 DEF TypeOK
  <2>4. CASE Head(calls[t])
    <3>1. Holding' = Holding \cup {t}
      BY <2>1, <2>4, MoveFacts
    <3>2. Cardinality(Holding') = Cardinality(Holding) + 1
      BY <2>2, <3>1, HoldingFacts
    <3>3. Overdrawn' = Overdrawn
      <4>1. CASE t # Binder
        BY <2>1, <4>1, MoveFacts
      <4>2. CASE t = Binder
        BY <1>0, <2>1, <2>4, <4>2 DEF Overdrawn
      <4> QED
        BY <4>1, <4>2
    <3>4. ~misused' => readers' = Cardinality(Holding') /\ ~Overdrawn' /\ ~aborted'
      BY <2>1, <3>2, <3>3, Zenon DEF ReadersCounted
    <3>5. Cardinality(Holding') <= readers' + 1
      BY <1>0, <2>1, <3>2 DEF ReadersCounted
    <3>6. ~Overdrawn' => Cardinality(Holding') <= readers'
      BY <1>0, <2>1, <3>2, <3>3 DEF ReadersCounted
    <3> QED
      BY <3>4, <3>5, <3>6 DEF ReadersCounted
  <2>5. CASE ~Head(calls[t])
    <3>1. t = Binder
      BY <2>3, <2>5, ModemHead
    <3>2. Overdrawn /\ Holding' = Holding
      BY <2>1, <2>2, <2>5, <3>1, MoveFacts DEF Overdrawn
    <3>3. misused
      BY <3>2 DEF ReadersCounted
    <3>4. Cardinality(Holding') <= readers'
      BY <1>0, <2>1, <3>2 DEF ReadersCounted
    <3>5. Cardinality(Holding') <= readers' + 1
      BY <1>0, <2>1, <3>2 DEF ReadersCounted
    <3> QED
      BY <2>1, <3>3, <3>4, <3>5, Zenon DEF ReadersCounted
  <2> QED
    BY <2>4, <2>5
<1>11. ASSUME NEW t \in Threads, finish(t)
       PROVE  ReadersCounted'
  <2>1. PICK to \in {"begin", "idle"} :
          /\ pc[t] = "end" /\ pc' = [pc EXCEPT ![t] = to] /\ to \in Places
          /\ misused' = misused
          /\ \A u \in Threads : u # t => calls'[u] = calls[u]
    BY <1>0, <1>11 DEF finish, NextCall, Places
  <2>2. Holding' = Holding \ {t}
    BY <2>1, MoveFacts
  <2>3. Overdrawn' = Overdrawn
    <3>1. CASE t # Binder
      BY <2>1, <3>1, MoveFacts
    <3>2. CASE t = Binder
      BY <1>0, <2>1, <3>2 DEF Overdrawn
    <3> QED
      BY <3>1, <3>2
  <2>4. CASE Head(calls[t])
    <3>1. readers' = (IF readers > 0 THEN readers - 1 ELSE 0) /\ aborted' = (Asserts /\ readers = 0)
      BY <1>11, <2>4, Zenon DEF finish
    <3>2. t \in Holding
      BY <2>1, <2>4 DEF Holding
    <3> QED
      BY <1>8, <2>1, <2>2, <2>3, <3>1, <3>2
  <2>5. CASE ~Head(calls[t])
    <3>1. UNCHANGED <<readers, aborted>>
      BY <1>11, <2>5, Zenon DEF finish
    <3>2. Holding' = Holding
      BY <2>2, <2>5 DEF Holding
    <3> QED
      BY <1>1, <2>1, <2>3, <3>1, <3>2
  <2> QED
    BY <2>4, <2>5
<1>12. CASE Dies \/ Restarts \/ UNCHANGED vars
  <2>1. UNCHANGED <<pc, calls, readers, misused, aborted>>
    BY <1>12 DEF Dies, Restarts, vars
  <2>2. Holding' = Holding /\ Overdrawn' = Overdrawn
    BY <2>1 DEF Holding, Overdrawn
  <2> QED
    BY <1>1, <2>1, <2>2
<1> QED
  BY <1>3, <1>4, <1>5, <1>6, <1>7, <1>9, <1>10, <1>11, <1>12 DEF Next, BinderStep, Step

-----------------------------------------------------------------------------
(* A client is forgotten only when it is dead.                             *)

\* Processes that are gone stay gone.
LEMMA GoneStep ==
    ASSUME TypeOK, OnlyTheDeadNoted, [Next]_vars
    PROVE  \A c \in Nat : c <= proc /\ ~Alive(c) => ~Alive(c)'
<1> USE DEF clientVars
<1>0. proc \in Nat
  BY RadioAssumption DEF TypeOK
<1>1. CASE UNCHANGED <<proc, up>>
  BY <1>1 DEF Alive
<1>2. CASE Dies
  BY <1>2 DEF Dies, Alive
<1>3. CASE Restarts
  BY <1>0, <1>3 DEF Restarts, Alive
<1> QED
  BY <1>1, <1>2, <1>3 DEF Next, BinderStep, Step, vars, deliver, sendErrorResponse,
     setResponseFunctions, registerLock, storeCallbacks, countUpdate, rdlock, callback,
     callbackFails, releaseFirst, resetLock, resetCallbacks, reacquire, finish

\* While a registration stores its callbacks nobody has failed a call and not
\* yet noted the counter.
LEMMA NobodyFailed ==
    ASSUME TypeOK, WriterExclusive, ModemLocks, ReadersCounted, pc[Binder] = "store",
           NEW t \in Threads
    PROVE  pc[t] # "failed"
<1> SUFFICES ASSUME pc[t] = "failed" PROVE FALSE
  OBVIOUS
<1>0. Binder \in Threads
  BY DEF Threads
<1>1. writer = Binder /\ readers = 0
  BY <1>0, RadioAssumption DEF WriterExclusive, Writing
<1>2. Cardinality(Holding) <= 0
  BY <1>1 DEF ReadersCounted, Overdrawn
<1>3. t \notin Holding
  <2>1. Cardinality(Holding) \in Nat /\ (t \in Holding => Cardinality(Holding) > 0)
    BY HoldingFacts
  <2> QED
    BY <1>2, <2>1
<1>4. ~Head(calls[t])
  BY <1>3 DEF Holding
<1>5. t = Binder
  BY <1>4, ModemHead DEF TypeOK
<1> QED
  BY <1>5

LEMMA NotedStep ==
    ASSUME TypeOK, WriterExclusive, ModemLocks, ReadersCounted, OnlyTheDeadNoted, [Next]_vars
    PROVE  OnlyTheDeadNoted'
<1> USE DEF clientVars, lockVars, Go, Begin
<1>0. /\ Binder \in Threads /\ proc \in Nat /\ caller \in Nat
      /\ client \in [Slots -> Nat] /\ counter \in [Slots -> Nat] /\ note \in [Threads -> Nat]
      /\ slot \in [Threads -> Slots] /\ pc \in [Threads -> Places]
  BY RadioAssumption DEF Threads, TypeOK
<1>1. \A c \in Nat : c <= proc /\ ~Alive(c) => ~Alive(c)'
  BY GoneStep
<1>2. /\ \A s \in Slots : client[s] <= proc
      /\ caller <= proc
  BY DEF OnlyTheDeadNoted
<1>3. (\A s \in Slots : client'[s] <= proc') /\ caller' <= proc'
  <2>0. proc' = proc \/ proc' = proc + 1
    BY DEF Next, BinderStep, Step, vars, deliver, sendErrorResponse,
     setResponseFunctions, registerLock, storeCallbacks, countUpdate, rdlock, callback,
     callbackFails, releaseFirst, resetLock, resetCallbacks, reacquire, finish, Dies, Restarts
  <2>1. proc' \in Nat /\ proc <= proc'
    BY <1>0, <2>0
  <2>2. \A s \in Slots : client'[s] \in {client[s], caller, None}
    <3>1. CASE UNCHANGED client
      BY <3>1
    <3>2. CASE storeCallbacks
      BY <1>0, <3>2 DEF storeCallbacks
    <3>3. ASSUME NEW t \in Threads, resetCallbacks(t)
          PROVE  \A s \in Slots : client'[s] \in {client[s], caller, None}
      BY <1>0, <3>3 DEF resetCallbacks
    <3> QED
      BY <3>1, <3>2, <3>3 DEF Next, BinderStep, Step, vars, deliver, sendErrorResponse,
       setResponseFunctions, registerLock, countUpdate, rdlock, callback, callbackFails,
       releaseFirst, resetLock, reacquire, finish, Dies, Restarts
  <2>3. caller' \in {caller, proc, None}
    BY DEF Next, BinderStep, Step, vars, deliver, sendErrorResponse,
     setResponseFunctions, registerLock, storeCallbacks, countUpdate, rdlock, callback,
     callbackFails, releaseFirst, resetLock, resetCallbacks, reacquire, finish, Dies, Restarts
  <2> QED
    BY <1>0, <1>2, <2>1, <2>2, <2>3 DEF None
<1>3a. pc'[Binder] \in {"register", "store"} => caller' # None
  <2>1. CASE pc'[Binder] = pc[Binder] /\ caller' = caller
    BY <2>1 DEF OnlyTheDeadNoted
  <2>2. ASSUME NEW s \in Slots, setResponseFunctions(s)
        PROVE  caller' # None
    BY <2>2, RadioAssumption DEF setResponseFunctions, None, TypeOK
  <2>3. CASE registerLock \/ storeCallbacks \/ countUpdate
    BY <1>0, <2>3 DEF registerLock, storeCallbacks, countUpdate, OnlyTheDeadNoted
  <2>4. ASSUME NEW t \in Threads, Step(t)
        PROVE  /\ pc'[Binder] \in {"register", "store"} => pc'[Binder] = pc[Binder]
               /\ caller' = caller
    BY <1>0, <2>4 DEF Step, rdlock, callback,
       callbackFails, releaseFirst, resetLock, resetCallbacks, reacquire, finish, NextCall
  <2>5. ASSUME NEW s \in Slots, sendErrorResponse(s)
        PROVE  pc'[Binder] = "begin"
    BY <1>0, <2>5 DEF sendErrorResponse
  <2>6. ASSUME NEW t \in Modem, NEW s \in Slots, deliver(t, s)
        PROVE  pc'[Binder] = pc[Binder] /\ caller' = caller
    BY <1>0, <2>6, RadioAssumption DEF deliver
  <2> QED
    BY <2>1, <2>2, <2>3, <2>4, <2>5, <2>6
       DEF Next, BinderStep, vars, Dies, Restarts, OnlyTheDeadNoted
<1> DEFINE Failed(t) == pc[t] = "failed" => CalleeGone(t)
           Noted(t) == pc[t] \in {"reset", "resetLocked"} =>
                         /\ note[t] <= counter[slot[t]]
                         /\ \/ note[t] # counter[slot[t]]
                            \/ pc[Binder] = "count" /\ slot[Binder] = slot[t]
                            \/ CalleeGone(t)
<1>4. \A t \in Threads : Failed(t) /\ Noted(t)
  BY DEF OnlyTheDeadNoted
<1> SUFFICES ASSUME NEW u \in Threads PROVE Failed(u)' /\ Noted(u)'
  BY <1>3, <1>3a DEF OnlyTheDeadNoted
<1>5. ASSUME CalleeGone(u), client'[slot[u]] \in {client[slot[u]], None}, slot'[u] = slot[u]
      PROVE  CalleeGone(u)'
  BY <1>0, <1>1, <1>2, <1>5 DEF CalleeGone
\* A step that leaves the callbacks, the counters and u alone, and does not
\* count a registration.
<1>6. ASSUME UNCHANGED <<client, counter>>,
             pc'[u] = pc[u], slot'[u] = slot[u], note'[u] = note[u],
             pc[Binder] = "count" => pc'[Binder] = "count" /\ slot'[Binder] = slot[Binder]
      PROVE  Failed(u)' /\ Noted(u)'
  <2>1. CalleeGone(u) => CalleeGone(u)'
    BY <1>5, <1>6
  <2> QED
    BY <1>4, <1>6, <2>1
\* u itself moves to where nothing is said of it.
<1>7. ASSUME pc'[u] \notin {"failed", "reset", "resetLocked"}
      PROVE  Failed(u)' /\ Noted(u)'
  BY <1>7
<1> HIDE DEF Failed, Noted
<1>8. CASE Dies \/ Restarts \/ UNCHANGED vars
  BY <1>6, <1>8 DEF Dies, Restarts, vars
<1>9. ASSUME NEW t \in Modem, NEW s \in Slots, deliver(t, s)
      PROVE  Failed(u)' /\ Noted(u)'
  <2>1. t \in Threads /\ t # Binder
    BY RadioAssumption DEF Threads
  <2>2. pc' = [pc EXCEPT ![t] = "begin"] /\ slot' = [slot EXCEPT ![t] = s]
        /\ UNCHANGED <<client, counter, note>>
    BY <1>9 DEF deliver
  <2>3. CASE u = t
    BY <1>0, <1>7, <2>2, <2>3
  <2>4. CASE u # t
    BY <1>0, <1>6, <2>1, <2>2, <2>4
  <2> QED
    BY <2>3, <2>4
<1>10. ASSUME NEW s \in Slots, sendErrorResponse(s) \/ setResponseFunctions(s)
       PROVE  Failed(u)' /\ Noted(u)'
  <2>1. PICK to \in {"begin", "register"} :
          /\ pc[Binder] = "idle" /\ pc' = [pc EXCEPT ![Binder] = to]
          /\ slot' = [slot EXCEPT ![Binder] = s]
          /\ UNCHANGED <<client, counter, note>>
    BY <1>10 DEF sendErrorResponse, setResponseFunctions
  <2>2. CASE u = Binder
    BY <1>0, <1>7, <2>1, <2>2
  <2>3. CASE u # Binder
    BY <1>0, <1>6, <2>1, <2>3
  <2> QED
    BY <2>2, <2>3
<1>11. CASE registerLock
  <2>1. pc[Binder] = "register" /\ pc' = [pc EXCEPT ![Binder] = "store"]
        /\ UNCHANGED <<client, counter, note, slot>>
    BY <1>11 DEF registerLock
  <2>2. CASE u = Binder
    BY <1>0, <1>7, <2>1, <2>2
  <2>3. CASE u # Binder
    BY <1>0, <1>6, <2>1, <2>3
  <2> QED
    BY <2>2, <2>3
\* The callbacks are stored: whoever has noted this slot's counter is told
\* apart by the Binder's place until the registration is counted.
<1>12. CASE storeCallbacks
  <2>1. /\ pc[Binder] = "store" /\ pc' = [pc EXCEPT ![Binder] = "count"]
        /\ client' = [client EXCEPT ![slot[Binder]] = caller]
        /\ UNCHANGED <<counter, note, slot>>
    BY <1>12 DEF storeCallbacks
  <2>2. CASE u = Binder
    BY <1>0, <1>7, <2>1, <2>2
  <2>3. CASE u # Binder
    <3>1. pc'[u] = pc[u] /\ pc[u] # "failed" /\ pc'[Binder] = "count"
      BY <1>0, <2>1, <2>3, NobodyFailed
    <3>2. Failed(u)'
      BY <3>1 DEF Failed
    <3>3. CASE slot[u] = slot[Binder]
      BY <1>4, <2>1, <3>1, <3>2, <3>3 DEF Noted
    <3>4. CASE slot[u] # slot[Binder]
      <4>1. client'[slot[u]] = client[slot[u]]
        BY <1>0, <2>1, <3>4
      <4>2. CalleeGone(u) => CalleeGone(u)'
        BY <1>5, <2>1, <4>1
      <4> QED
        BY <1>4, <2>1, <3>1, <3>2, <4>2 DEF Noted
    <3> QED
      BY <3>3, <3>4
  <2> QED
    BY <2>2, <2>3
\* The registration is counted: no note of this slot is current any more.
<1>13. CASE countUpdate
  <2>1. /\ pc[Binder] = "count" /\ pc' = [pc EXCEPT ![Binder] = "begin"]
        /\ counter' = [counter EXCEPT ![slot[Binder]] = @ + 1]
        /\ UNCHANGED <<client, note, slot>>
    BY <1>13 DEF countUpdate
  <2>2. CASE u = Binder
    BY <1>0, <1>7, <2>1, <2>2
  <2>3. CASE u # Binder
    <3>1. pc'[u] = pc[u] /\ pc'[Binder] # "count"
      BY <1>0, <2>1, <2>3
    <3>2. CalleeGone(u) => CalleeGone(u)'
      BY <1>5, <2>1
    <3>3. Failed(u)'
      BY <1>4, <3>1, <3>2 DEF Failed
    <3>4. CASE slot[u] = slot[Binder]
      <4>1. counter'[slot'[u]] = counter[slot[u]] + 1 /\ counter[slot[u]] \in Nat
            /\ note[u] \in Nat /\ note'[u] = note[u]
        BY <1>0, <2>1, <3>4
      <4>2. pc[u] \in {"reset", "resetLocked"} => note[u] <= counter[slot[u]]
        BY <1>4 DEF Noted
      <4>3. Noted(u)'
        BY <3>1, <4>1, <4>2 DEF Noted
      <4> QED
        BY <3>3, <4>3
    <3>5. CASE slot[u] # slot[Binder]
      <4>1. counter'[slot'[u]] = counter[slot[u]] /\ note'[u] = note[u]
        BY <1>0, <2>1, <3>5
      <4>2. Noted(u)'
        BY <1>4, <3>1, <3>2, <3>5, <4>1 DEF Noted
      <4> QED
        BY <3>3, <4>2
    <3> QED
      BY <3>4, <3>5
  <2> QED
    BY <2>2, <2>3
<1>14. ASSUME NEW t \in Threads, rdlock(t) \/ callback(t) \/ reacquire(t)
       PROVE  Failed(u)' /\ Noted(u)'
  <2>1. PICK to \in {"call", "end"} :
          /\ pc[t] # "count" /\ pc' = [pc EXCEPT ![t] = to]
          /\ UNCHANGED <<client, counter, note, slot>>
    BY <1>14 DEF rdlock, callback, reacquire
  <2>2. CASE u = t
    BY <1>0, <1>7, <2>1, <2>2
  <2>3. CASE u # t
    BY <1>0, <1>6, <2>1, <2>3
  <2> QED
    BY <2>2, <2>3
<1>15. ASSUME NEW t \in Threads, callbackFails(t)
       PROVE  Failed(u)' /\ Noted(u)'
  <2>1. /\ pc[t] = "call" /\ pc' = [pc EXCEPT ![t] = "failed"] /\ CalleeGone(t)
        /\ UNCHANGED <<client, counter, note, slot>>
    BY <1>15 DEF callbackFails, CalleeGone
  <2>2. CASE u = t
    <3>1. CalleeGone(u)' /\ pc'[u] = "failed"
      BY <1>0, <1>5, <2>1, <2>2
    <3> QED
      BY <3>1 DEF Failed, Noted
  <2>3. CASE u # t
    BY <1>0, <1>6, <2>1, <2>3
  <2> QED
    BY <2>2, <2>3
<1>16. ASSUME NEW t \in Threads, releaseFirst(t)
       PROVE  Failed(u)' /\ Noted(u)'
  <2>1. /\ pc[t] = "failed" /\ pc' = [pc EXCEPT ![t] = "reset"]
        /\ note' = [note EXCEPT ![t] = counter[slot[t]]]
        /\ UNCHANGED <<client, counter, slot>>
    BY <1>16 DEF releaseFirst
  <2>2. CASE u = t
    <3>1. CalleeGone(u)' /\ pc'[u] = "reset"
      BY <1>0, <1>4, <1>5, <2>1, <2>2 DEF Failed
    <3>2. note'[u] = counter'[slot'[u]] /\ counter'[slot'[u]] \in Nat
      BY <1>0, <2>1, <2>2
    <3> QED
      BY <3>1, <3>2 DEF Failed, Noted
  <2>3. CASE u # t
    BY <1>0, <1>6, <2>1, <2>3
  <2> QED
    BY <2>2, <2>3
<1>17. ASSUME NEW t \in Threads, resetLock(t)
       PROVE  Failed(u)' /\ Noted(u)'
  <2>1. /\ pc[t] = "reset" /\ pc' = [pc EXCEPT ![t] = "resetLocked"]
        /\ UNCHANGED <<client, counter, slot, note>>
    BY <1>17 DEF resetLock
  <2>2. CASE u = t
    <3>1. CalleeGone(u) => CalleeGone(u)'
      BY <1>5, <2>1
    <3>2. pc[u] = "reset" /\ pc'[u] = "resetLocked" /\ pc[Binder] = "count" => pc'[Binder] = "count"
      BY <1>0, <2>1, <2>2
    <3> QED
      BY <1>0, <1>4, <2>1, <2>2, <3>1, <3>2 DEF Failed, Noted
  <2>3. CASE u # t
    BY <1>0, <1>6, <2>1, <2>3
  <2> QED
    BY <2>2, <2>3
<1>18. ASSUME NEW t \in Threads, resetCallbacks(t)
       PROVE  Failed(u)' /\ Noted(u)'
  <2>1. /\ pc[t] = "resetLocked" /\ pc' = [pc EXCEPT ![t] = "reacquire"]
        /\ note' = [note EXCEPT ![t] = 0] /\ slot' = slot
        /\ \/ /\ client' = [client EXCEPT ![slot[t]] = None]
              /\ counter' = [counter EXCEPT ![slot[t]] = @ + 1]
           \/ UNCHANGED <<client, counter>>
    BY <1>18 DEF resetCallbacks
  <2>2. CASE u = t
    BY <1>0, <1>7, <2>1, <2>2
  <2>3. CASE u # t /\ UNCHANGED <<client, counter>>
    BY <1>0, <1>6, <2>1, <2>3
  <2>4. CASE /\ u # t
             /\ client' = [client EXCEPT ![slot[t]] = None]
             /\ counter' = [counter EXCEPT ![slot[t]] = @ + 1]
    <3>1. /\ pc'[u] = pc[u] /\ note'[u] = note[u] /\ slot'[u] = slot[u]
          /\ pc[Binder] = "count" => pc'[Binder] = "count" /\ slot'[Binder] = slot[Binder]
      BY <1>0, <2>1, <2>4
    <3>2. client'[slot[u]] \in {client[slot[u]], None}
      BY <1>0, <2>4
    <3>3. CalleeGone(u) => CalleeGone(u)'
      BY <1>5, <3>1, <3>2
    <3>4. Failed(u)'
      BY <1>4, <3>1, <3>3 DEF Failed
    <3>5. CASE slot[u] = slot[t]
      <4>1. CalleeGone(u)'
        BY <1>0, <2>1, <2>4, <3>5 DEF CalleeGone
      <4>2. counter'[slot'[u]] = counter[slot[u]] + 1 /\ counter[slot[u]] \in Nat
            /\ note[u] \in Nat
        BY <1>0, <2>1, <2>4, <3>5
      <4>3. pc[u] \in {"reset", "resetLocked"} => note[u] <= counter[slot[u]]
        BY <1>4 DEF Noted
      <4>4. Noted(u)'
        BY <3>1, <4>1, <4>2, <4>3 DEF Noted
      <4> QED
        BY <3>4, <4>4
    <3>6. CASE slot[u] # slot[t]
      <4>1. counter'[slot'[u]] = counter[slot[u]]
        BY <1>0, <2>1, <2>4, <3>6
      <4>2. Noted(u)'
        BY <1>4, <3>1, <3>3, <4>1 DEF Noted
      <4> QED
        BY <3>4, <4>2
    <3> QED
      BY <3>5, <3>6
  <2> QED
    BY <2>1, <2>2, <2>3, <2>4
<1>19. ASSUME NEW t \in Threads, finish(t)
       PROVE  Failed(u)' /\ Noted(u)'
  <2>1. PICK to \in {"begin", "idle"} :
          /\ pc[t] = "end" /\ pc' = [pc EXCEPT ![t] = to]
          /\ \A v \in Threads : v # t => slot'[v] = slot[v]
          /\ UNCHANGED <<client, counter, note>>
    BY <1>0, <1>19 DEF finish, NextCall
  <2>2. CASE u = t
    BY <1>0, <1>7, <2>1, <2>2
  <2>3. CASE u # t
    BY <1>0, <1>6, <2>1, <2>3
  <2> QED
    BY <2>2, <2>3
<1> QED
  BY <1>8, <1>9, <1>10, <1>11, <1>12, <1>13, <1>14, <1>15, <1>16, <1>17, <1>18, <1>19
     DEF Next, BinderStep, Step

-----------------------------------------------------------------------------

\* The inductive invariant.
Inv ==
    /\ TypeOK
    /\ ModemLocks
    /\ WriterExclusive
    /\ ReadersCounted
    /\ OnlyTheDeadNoted

LEMMA InitInv == Init => Inv
<1> SUFFICES ASSUME Init PROVE Inv
  OBVIOUS
<1>0. Binder \in Threads /\ AnySlot \in Slots
  BY RadioAssumption DEF Threads, AnySlot
<1>1. TypeOK
  <2>1. proc \in 1 .. MaxProcs /\ caller \in 0 .. MaxProcs
        /\ client \in [Slots -> 0 .. MaxProcs] /\ counter \in [Slots -> Nat]
    BY RadioAssumption DEF Init, None
  <2>2. readers \in Nat /\ writer \in Threads \cup {NoThread} /\ pc \in [Threads -> Places]
        /\ note \in [Threads -> Nat] /\ work \in Nat
    BY DEF Init, Places
  <2>3. slot \in [Threads -> Slots] /\ calls \in [Threads -> Seq(BOOLEAN)]
        /\ \A t \in Threads : calls[t] = <<>> <=> pc[t] = "idle"
    BY <1>0 DEF Init
  <2>4. up \in BOOLEAN /\ aborted \in BOOLEAN /\ misused \in BOOLEAN
    BY DEF Init
  <2> QED
    BY <2>1, <2>2, <2>3, <2>4 DEF TypeOK
<1>2. ModemLocks
  BY DEF Init, ModemLocks, Threads
<1>3. WriterExclusive
  BY RadioAssumption DEF Init, WriterExclusive, Writing
<1>4. Holding = {} /\ ~Overdrawn
  BY <1>0 DEF Init, Holding, Overdrawn
<1>5. Cardinality(Holding) = 0
  BY <1>4, FS_EmptySet
<1>6. ReadersCounted
  BY <1>4, <1>5 DEF Init, ReadersCounted
<1>7. OnlyTheDeadNoted
  BY <1>0 DEF Init, OnlyTheDeadNoted, None
<1> QED
  BY <1>1, <1>2, <1>3, <1>6, <1>7 DEF Inv

LEMMA StepInv == Inv /\ [Next]_vars => Inv'
BY TypeStep, ModemStep, WriterStep, ReadersStep, NotedStep DEF Inv

\* Every reachable state satisfies the inductive invariant.
THEOREM Invariance == Spec => []Inv
BY InitInv, StepInv, PTL DEF Spec

\* The types hold: a thread has callbacks to make exactly while it is busy.
THEOREM TypeCorrect == Spec => []TypeOK
BY Invariance, PTL DEF Inv

\* The rwlock counts the threads inside callbacks, but for the one reader
\* that a misuse of checkReturnStatus may take off for a while.
THEOREM LockCounts == Spec => []LockBalanced
<1>1. Inv => LockBalanced
  BY DEF Inv, WriterExclusive, ReadersCounted, LockBalanced
<1> QED
  BY <1>1, Invariance, PTL

\* checkReturnStatus never takes the callbacks of a live process away, with
\* or without asserts, whether or not its callers held the rdlock.
THEOREM NoFreshClientForgotten == Spec => FreshClientKept
<1>1. ASSUME Inv, [Next]_vars, NEW s \in Slots, client[s] # None, client'[s] = None
      PROVE  ~Alive(client[s])
  <2> USE DEF clientVars, lockVars, Go
  <2>0. Binder \in Threads /\ slot \in [Threads -> Slots] /\ client \in [Slots -> 0 .. MaxProcs]
    BY <1>1 DEF Threads, Inv, TypeOK
  <2>1. CASE UNCHANGED client
    BY <1>1, <2>1
  <2>2. CASE storeCallbacks
    BY <1>1, <2>0, <2>2 DEF storeCallbacks, Inv, OnlyTheDeadNoted
  <2>3. ASSUME NEW t \in Threads, resetCallbacks(t) PROVE ~Alive(client[s])
    <3>1. pc[t] = "resetLocked" /\ slot[t] = s /\ note[t] = counter[s]
      BY <1>1, <2>0, <2>3 DEF resetCallbacks
    <3>2. writer = t
      BY <1>1, <3>1 DEF Inv, WriterExclusive, Writing
    <3>3. pc[Binder] # "count"
      BY <1>1, <2>0, <3>1, <3>2 DEF Inv, WriterExclusive, Writing
    <3> QED
      BY <1>1, <3>1, <3>3 DEF Inv, OnlyTheDeadNoted, CalleeGone
  <2> QED
    BY <1>1, <2>1, <2>2, <2>3 DEF Next, BinderStep, Step, vars, Dies, Restarts, deliver,
       sendErrorResponse, setResponseFunctions, registerLock, countUpdate, rdlock, callback,
       callbackFails, releaseFirst, resetLock, reacquire, finish
<1>2. Inv /\ [Next]_vars =>
        [\A s \in Slots : client[s] # None /\ client'[s] = None => ~Alive(client[s])]_vars
  BY <1>1
<1> QED
  BY <1>2, Invariance, PTL DEF Spec, FreshClientKept
=============================================================================
