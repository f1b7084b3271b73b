----------------------------- MODULE MCServices -----------------------------
(***************************************************************************)
(* Services that keep state for client processes, checked in one run: the   *)
(* NITZ cache, the SIM access service, the interfaces of data calls and the *)
(* arguments of radio requests (libril), and the buffer pool of GuiExt      *)
(* (libgem).  They share no variable, so the behaviours of each are         *)
(* explored while the others rest.                                          *)
(***************************************************************************)
EXTENDS Naturals, Sequences

CONSTANTS
    Slots, Settings, MaxNitz, MaxConnects,                          \* NitzCache
    Keys, MaxRequests, MaxClients, MaxTroubles,                     \* SapSocket
    Cids, MaxSetups, MaxAsked,                                      \* DataCall
    Kinds, MaxStrings, MaxProfiles,                                 \* Dispatch
    Producers, Consumers, Nobody, Bufs, MAX_ALLOC_SIZE, MaxItems    \* GuiExtPool

\* There is a slot and something to ask for; no call id of the modem is the mark of a free entry; the bounds are numbers.
ASSUME NitzAssumption == Slots # {} /\ MaxNitz \in Nat /\ MaxConnects \in Nat
ASSUME SapAssumption ==
    Keys # {} /\ MaxRequests \in Nat /\ MaxClients \in Nat /\ MaxTroubles \in Nat
ASSUME DataAssumption == Cids \subseteq Nat /\ MaxSetups \in Nat /\ MaxAsked \in Nat

VARIABLES
    part,
    setting, nitzClient, cache, received, unsol, binder, log, connects,
    client, up, sapCallback, made, key, mem, queue, vendor, api, areq,
    comp, creq, cto, clash, crashed, troubles,
    dataCallCids, asked, live, setups, calm,
    kind, count, proxied, step, ptrs, heap, badFree, sent, answers, phase,
    mPoolList, item, mPoolId, owned, dead, walk, forget, raced

Nitz == INSTANCE NitzCache WITH client <- nitzClient
Sap == INSTANCE SapSocket
Data == INSTANCE DataCall
Args == INSTANCE Dispatch
Pool == INSTANCE GuiExtPool

\* The dispatch functions make no other requests, and no client is no client; the pool has room.
ASSUME ArgsAssumption ==
    Kinds \subseteq Args!AllKinds /\ MaxStrings \in Nat /\ MaxProfiles \in Nat
ASSUME PoolAssumption ==
    Nobody \notin Producers \cup Consumers /\ MAX_ALLOC_SIZE \in Nat \ {0} /\ MaxItems \in Nat

nitzVars == <<setting, nitzClient, cache, received, unsol, binder, log, connects>>
sapVars == <<client, up, sapCallback, made, key, mem, queue, vendor, api, areq,
             comp, creq, cto, clash, crashed, troubles>>
dataVars == <<dataCallCids, asked, live, setups, calm>>
argsVars == <<kind, count, proxied, step, ptrs, heap, badFree, sent, answers, phase>>
poolVars == <<mPoolList, item, mPoolId, owned, dead, walk, forget, raced>>
vars == <<part, nitzVars, sapVars, dataVars, argsVars, poolVars>>

\* A part that rests has one initial state.
Init ==
    /\ part \in {"nitz", "sap", "data", "args", "pool"}
    /\ Nitz!Init /\ Sap!Init /\ Data!Init /\ Args!Init /\ Pool!Init
    /\ part # "nitz" => /\ setting = CHOOSE x \in Settings : TRUE
                        /\ binder.slot = CHOOSE x \in Slots : TRUE

InNitz(A) == part = "nitz" /\ A /\ UNCHANGED <<part, sapVars, dataVars, argsVars, poolVars>>

Next ==
    \/ InNitz(Nitz!Next)
    \/ part = "sap" /\ Sap!Next /\ UNCHANGED <<part, nitzVars, dataVars, argsVars, poolVars>>
    \/ part = "data" /\ Data!Next /\ UNCHANGED <<part, nitzVars, sapVars, argsVars, poolVars>>
    \/ part = "args" /\ Args!Next /\ UNCHANGED <<part, nitzVars, sapVars, dataVars, poolVars>>
    \/ part = "pool" /\ Pool!Next /\ UNCHANGED <<part, nitzVars, sapVars, dataVars, argsVars>>

\* The fairness is that of NitzCache, while that part runs.
Spec ==
    /\ Init /\ [][Next]_vars
    /\ WF_vars(InNitz(Nitz!UnsolStep)) /\ WF_vars(InNitz(Nitz!BinderStep))
    /\ \A s \in Slots : WF_vars(InNitz(s \in Nitz!InUse /\ Nitz!setResponseFunctions(s)))

-----------------------------------------------------------------------------
(* The properties of the parts.                                             *)

\* A NITZ message is told once, and one that found no client is told to the next
\* (send_unsolResponse, resendLastNITZTimeData).
NitzToldOnce == [](Nitz!TypeOK /\ Nitz!DeliveredOnce) /\ Nitz!MissedIsDelivered

\* RilSapSocket::onRequestComplete frees the request it completes and no other.
OwnRequestFreed == Sap!TypeOK /\ Sap!OwnRequestFreed

\* setupDataCall, its response and deactivateDataCall agree on the interface.
InterfacesExact == Data!TypeOK /\ Data!InterfacesExact

\* Whichever allocation of a request's arguments fails: only what is allocated is
\* freed, nothing is kept but the arrays that clearPendingBuffer forgets, and the
\* request is handed to the vendor or refused (the dispatch functions of
\* ril_service.cpp, clearPendingBuffer).
ArgumentsFreed ==
    Args!TypeOK /\ Args!NoBadFree /\ Args!OnlyArraysKept /\ Args!SentOrRefused

\* An item of the pool stays until its producer frees it or dies, and not longer
\* than somebody can free it (GuiExtPool::alloc, free and the death observers).
PoolsKept == Pool!TypeOK /\ Pool!OwnPoolKept /\ Pool!NothingLeftOver
=============================================================================
