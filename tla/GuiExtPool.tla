----------------------------- MODULE GuiExtPool -----------------------------
(***************************************************************************)
(* The pool of the GuiExt service (libgem/lib/GuiExtImpl.cpp): producers    *)
(* (video players) allocate pool items, consumers (the composer) acquire    *)
(* their buffers, and an item goes when its producer has freed it and no    *)
(* consumer is connected.  The calls hold mLock; the death of a client is   *)
(* noticed on another binder thread, which walks the lists without it.      *)
(*                                                                          *)
(* An item is an object of its own, its pool id a number that is given out  *)
(* again.  Only buffers of the hardware composer exist (the queue for the   *)
(* GPU is never created, and every use of it fails), for one display.       *)
(***************************************************************************)
EXTENDS Naturals, Sequences, SequencesExt, FiniteSets, FiniteSetsExt

CONSTANTS
    Producers, Consumers,   \* tokens of client processes; a process that comes back has a new one
    Nobody,                 \* no token
    Bufs,                   \* buffers of an item
    MAX_ALLOC_SIZE,
    MaxItems                \* bound: items allocated in all

VARIABLES
    mPoolList,      \* items in the order of their ids
    item,           \* item -> [mId, mProducerToken, slots, connected]
    mPoolId,        \* the last id given out
    owned,          \* producer -> ids it allocated and has not freed
    dead,           \* clients that died
    walk,           \* a producer's death being handled: [who, i, found], or <<>>
    forget,         \* a consumer's death being handled: [o, counted], or <<>>
    raced           \* a death was handled while the lists changed under it

poolVars == <<mPoolList, item, mPoolId, owned, dead, walk, forget, raced>>

Items == 1..MaxItems
Gone == [mId |-> 0, mProducerToken |-> Nobody,
         slots |-> [b \in Bufs |-> Nobody], connected |-> FALSE]

Init ==
    /\ mPoolList = <<>> /\ item = [o \in Items |-> Gone] /\ mPoolId = 0
    /\ owned = [p \in Producers |-> {}] /\ dead = {}
    /\ walk = <<>> /\ forget = <<>> /\ raced = FALSE

Listed(o) == o \in ToSet(mPoolList)
ItemOf(id) == {o \in ToSet(mPoolList) : item[o].mId = id}

\* The id k steps after the last one, round and round.
IdAfter(k) == LET m == (mPoolId + k) % MAX_ALLOC_SIZE IN IF m = 0 THEN MAX_ALLOC_SIZE ELSE m

\* Mutant: the id after the last one, taken or not.
getPoolId_next == IdAfter(1)

\* The next id nobody uses.
getPoolId ==
    LET steps == {k \in 1..MAX_ALLOC_SIZE : ItemOf(IdAfter(k)) = {}} IN IdAfter(Min(steps))

\* A change of the list while a producer's death is handled.
Race == raced' = (raced \/ walk # <<>>)

\* mPoolList.add: in the place of its id, or over the item that has it.
Insert(o, id) ==
    LET lower == {i \in DOMAIN mPoolList : item[mPoolList[i]].mId < id}
        place == Cardinality(lower) + 1
    IN IF ItemOf(id) = {} THEN InsertAt(mPoolList, place, o) ELSE ReplaceAt(mPoolList, place, o)

Unused(o) == item[o].mId = 0 /\ ~Listed(o)

Room == Len(mPoolList) < MAX_ALLOC_SIZE

alloc(p) ==
    /\ p \notin dead /\ Room
    /\ \E o \in Items :
          /\ Unused(o) /\ \A x \in Items : Unused(x) => o <= x
          /\ mPoolList' = Insert(o, getPoolId)
          /\ item' = [item EXCEPT ![o] = [mId |-> getPoolId, mProducerToken |-> p,
                          slots |-> [b \in Bufs |-> Nobody], connected |-> FALSE]]
    /\ mPoolId' = getPoolId
    /\ owned' = [owned EXCEPT ![p] = @ \cup {getPoolId}]
    /\ Race /\ UNCHANGED <<dead, walk, forget>>

\* prepareBuffer fails: the id is passed over.
allocFails(p) ==
    /\ p \notin dead /\ Room
    /\ mPoolId' = getPoolId
    /\ UNCHANGED <<mPoolList, item, owned, dead, walk, forget, raced>>

\* removePoolItemLocked: the item goes when nobody uses it any more.
Unwanted(list, items, id) ==
    {i \in DOMAIN list : /\ items[list[i]].mId = id
                         /\ items[list[i]].mProducerToken = Nobody /\ ~items[list[i]].connected}
Remaining(list, items, id) ==
    IF Unwanted(list, items, id) = {} THEN list
    ELSE RemoveAt(list, Min(Unwanted(list, items, id)))

free(p, id) ==
    /\ p \notin dead /\ id \in owned[p]
    /\ owned' = [owned EXCEPT ![p] = @ \ {id}]
    /\ item' = [o \in Items |-> IF o \in ItemOf(id) THEN [item[o] EXCEPT !.mProducerToken = Nobody]
                                ELSE item[o]]
    /\ mPoolList' = Remaining(mPoolList, item', id)
    /\ Race /\ UNCHANGED <<mPoolId, dead, walk, forget>>

\* acquire: the consumer takes the buffer if it is free.  Its observer is kept by
\* the buffer's slot, so it lives until the buffer is released.  The index is not
\* set by anyone since dequeueBuffer was taken out: it may be none.
acquire(c, o) ==
    /\ c \notin dead /\ Listed(o)
    /\ \E b \in Bufs :
          item' = [item EXCEPT ![o].slots[b] = IF @ = Nobody THEN c ELSE @,
                               ![o].connected = TRUE]
    /\ UNCHANGED <<mPoolList, mPoolId, owned, dead, walk, forget, raced>>

release(o, b) ==
    /\ Listed(o) /\ item[o].slots[b] # Nobody
    /\ item' = [item EXCEPT ![o].slots[b] = Nobody]
    /\ UNCHANGED <<mPoolList, mPoolId, owned, dead, walk, forget, raced>>

disconnect(o) ==
    /\ Listed(o) /\ item[o].connected
    /\ item' = [item EXCEPT ![o].connected = FALSE]
    /\ mPoolList' = Remaining(mPoolList, item', item[o].mId)
    /\ Race /\ UNCHANGED <<mPoolId, owned, dead, walk, forget>>

-----------------------------------------------------------------------------
(* Deaths.                                                                  *)

ClientDies(t) ==
    /\ t \notin dead /\ dead' = dead \cup {t}
    /\ UNCHANGED <<mPoolList, item, mPoolId, owned, walk, forget, raced>>

\* ProducerDeathObserver: from the last item of the list down to the first.
ProducerDied(p) ==
    /\ p \in dead /\ owned[p] # {} /\ walk = <<>>
    /\ owned' = [owned EXCEPT ![p] = {}]
    /\ walk' = IF mPoolList = <<>> THEN <<>>
               ELSE [who |-> p, i |-> Len(mPoolList), found |-> 0]
    /\ UNCHANGED <<mPoolList, item, mPoolId, dead, forget, raced>>

Step(i) == i - 1
Onward == walk' = IF Step(walk.i) = 0 THEN <<>> ELSE [walk EXCEPT !.i = Step(walk.i), !.found = 0]

\* The token of the i-th item is compared, and cleared if it is the one, ...
CompareProducer ==
    /\ walk # <<>> /\ walk.found = 0
    /\ IF walk.i <= Len(mPoolList) /\ item[mPoolList[walk.i]].mProducerToken = walk.who
       THEN /\ item' = [item EXCEPT ![mPoolList[walk.i]].mProducerToken = Nobody]
            /\ walk' = [walk EXCEPT !.found = item[mPoolList[walk.i]].mId]
       ELSE Onward /\ UNCHANGED item
    /\ UNCHANGED <<mPoolList, mPoolId, owned, dead, forget, raced>>

\* ... and removePoolItem takes the lock for it.
RemoveFound ==
    /\ walk # <<>> /\ walk.found # 0
    /\ mPoolList' = Remaining(mPoolList, item, walk.found)
    /\ Onward
    /\ UNCHANGED <<item, mPoolId, owned, dead, forget, raced>>

\* ConsumerDeathObserver of an item, if a slot still keeps it: the buffers are
\* released and the item taken for disconnected, ...
ConsumerDied(c, o) ==
    /\ c \in dead /\ Listed(o) /\ forget = <<>> /\ \E b \in Bufs : item[o].slots[b] = c
    /\ item' = [item EXCEPT ![o].slots = [b \in Bufs |-> IF @[b] = c THEN Nobody ELSE @[b]],
                            ![o].connected = FALSE]
    /\ forget' = [o |-> o, counted |-> FALSE]
    /\ UNCHANGED <<mPoolList, mPoolId, owned, dead, walk, raced>>

\* ... then those that still have a buffer are counted, ...
CountConsumers ==
    /\ forget # <<>> /\ ~forget.counted
    /\ LET left == \E b \in Bufs : item[forget.o].slots[b] # Nobody
       IN /\ item' = [item EXCEPT ![forget.o].connected = left]
          /\ forget' = IF left THEN <<>> ELSE [forget EXCEPT !.counted = TRUE]
    /\ UNCHANGED <<mPoolList, mPoolId, owned, dead, walk, raced>>

\* ... and BinderDiedListenerImpl removes the item if there are none.
RemoveForgotten ==
    /\ forget # <<>> /\ forget.counted /\ forget' = <<>>
    /\ mPoolList' = Remaining(mPoolList, item, item[forget.o].mId)
    /\ Race /\ UNCHANGED <<item, mPoolId, owned, dead, walk>>

Next ==
    \/ \E p \in Producers :
          \/ alloc(p) \/ allocFails(p) \/ ProducerDied(p)
          \/ \E id \in 1..MAX_ALLOC_SIZE : free(p, id)
    \/ \E o \in Items :
          \/ \E c \in Consumers : acquire(c, o) \/ ConsumerDied(c, o)
          \/ \E b \in Bufs : release(o, b)
          \/ disconnect(o)
    \/ \E t \in Producers \cup Consumers : ClientDies(t)
    \/ CompareProducer \/ RemoveFound \/ CountConsumers \/ RemoveForgotten

Spec == Init /\ [][Next]_poolVars

-----------------------------------------------------------------------------
(* Properties.                                                             *)

TypeOK ==
    /\ ToSet(mPoolList) \subseteq Items /\ Len(mPoolList) <= MAX_ALLOC_SIZE
    /\ mPoolId \in 0..MAX_ALLOC_SIZE
    /\ \A o \in Items : item[o].mId \in 0..MAX_ALLOC_SIZE
    /\ owned \in [Producers -> SUBSET (1..MAX_ALLOC_SIZE)]
    /\ forget # <<>> => forget.o \in Items
    /\ raced \in BOOLEAN

\* A producer that lives finds its own pool under the id it was given, although
\* ids are given out again and other clients free, disconnect and die; as long
\* as no death was handled while the lists changed.
OwnPoolKept ==
    ~raced => \A p \in Producers \ dead : \A id \in owned[p] :
        \E o \in Items : Listed(o) /\ item[o].mId = id /\ item[o].mProducerToken = p

\* When every death has been dealt with no pool is left over that nobody can
\* free: each has a living producer or a consumer connected.
NothingLeftOver ==
    (~raced /\ walk = <<>> /\ forget = <<>> /\ \A p \in dead \cap Producers : owned[p] = {}) =>
        \A o \in ToSet(mPoolList) :
            \/ item[o].mProducerToken \in Producers \ dead
            \/ item[o].connected

-----------------------------------------------------------------------------
(* The inductive invariant of these properties.                            *)

Types ==
    /\ TypeOK
    /\ mPoolList \in Seq(Items)
    /\ item \in [Items -> [mId : 0..MAX_ALLOC_SIZE, mProducerToken : Producers \cup {Nobody},
                           slots : [Bufs -> Consumers \cup {Nobody}],
                           connected : BOOLEAN]]
    /\ walk # <<>> => walk \in [who : Producers, i : Nat \ {0}, found : 0..MAX_ALLOC_SIZE]
    /\ forget # <<>> => forget \in [o : Items, counted : BOOLEAN]

\* The items of the list have different ids.
IdsDiffer ==
    /\ \A i \in DOMAIN mPoolList : item[mPoolList[i]].mId # 0
    /\ \A i, j \in DOMAIN mPoolList : item[mPoolList[i]].mId = item[mPoolList[j]].mId => i = j

\* The death of a producer is dealt with from its pools down; what it has found
\* is at its place still.
WalkSound ==
    walk # <<>> =>
        /\ walk.who \in dead /\ owned[walk.who] = {}
        /\ ~raced => /\ walk.i \in DOMAIN mPoolList
                     /\ walk.found # 0 => item[mPoolList[walk.i]].mId = walk.found

\* A pool whose producer does not own it any more is one the walk has yet to come to.
OwnersKnown ==
    ~raced => \A i \in DOMAIN mPoolList : LET o == mPoolList[i] IN
        item[o].mProducerToken # Nobody =>
            \/ item[o].mId \in owned[item[o].mProducerToken]
            \/ /\ walk # <<>> /\ item[o].mProducerToken = walk.who
               /\ i <= walk.i /\ (walk.found # 0 => i < walk.i)

\* An item nobody wants is one that is about to be removed.
UnwantedGoes ==
    ~raced => \A i \in DOMAIN mPoolList : LET o == mPoolList[i] IN
        item[o].mProducerToken = Nobody /\ ~item[o].connected =>
            \/ walk # <<>> /\ walk.found = item[o].mId
            \/ forget # <<>> /\ forget.o = o

\* What a producer has been given and has not freed is there, and its own.
OwnedListed ==
    ~raced => \A p \in Producers : \A id \in owned[p] :
        \E i \in DOMAIN mPoolList :
            item[mPoolList[i]].mId = id /\ item[mPoolList[i]].mProducerToken = p

PoolInv == Types /\ IdsDiffer /\ WalkSound /\ OwnersKnown /\ UnwantedGoes /\ OwnedListed

=============================================================================
