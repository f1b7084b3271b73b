------------------------------ MODULE DataCall ------------------------------
(***************************************************************************)
(* The interface ids of data calls in libril/ril_service.cpp, for vendors   *)
(* that want one (MTK_HARDWARE, RIL version 4 to 14).  setupDataCall looks  *)
(* for a free entry of dataCallCids and sends its number; the entry is      *)
(* taken only when the response arrives, by the first one that is free      *)
(* then; deactivateDataCall frees it.                                       *)
(***************************************************************************)
EXTENDS Integers, Sequences, FiniteSets, FiniteSetsExt

CONSTANTS
    Cids,           \* the call ids of the modem
    MaxSetups,      \* bound: setups asked for
    MaxAsked        \* bound: setups on their way at the same time

NoCid == -1
Entries == 1..5         \* dataCallCids[5]; only the first four are looked at

VARIABLES
    dataCallCids,   \* entry -> the call id in it, or NoCid
    asked,          \* interface ids of the setups on their way to the modem
    live,           \* cid -> the interface id it was given, for calls that are up
    setups,         \* setups asked for so far
    calm            \* no setup met another one or a deactivation on its way

vars == <<dataCallCids, asked, live, setups, calm>>

Init ==
    /\ dataCallCids = [i \in Entries |-> NoCid]
    /\ asked = <<>>
    /\ live = <<>>
    /\ setups = 0
    /\ calm = TRUE

Free == {i \in 1..4 : dataCallCids[i] = NoCid}

\* The first free entry counted from one, or 0 without one.
InterfaceId == IF Free = {} THEN 0 ELSE Min(Free)

setupDataCall ==
    /\ setups < MaxSetups /\ setups' = setups + 1
    /\ Len(asked) < MaxAsked
    /\ asked' = Append(asked, InterfaceId)
    /\ calm' = (calm /\ asked = <<>>)
    /\ UNCHANGED <<dataCallCids, live>>

\* Mutant: with the four entries taken the first one is written over.
Slot_wraps == IF Free = {} THEN 1 ELSE Min(Free)

\* The entry a response is written to: the first free one of four, or the fifth.
Slot == IF Free = {} THEN 5 ELSE Min(Free)

\* setupDataCallResponse: the call is up under a cid of its own, ...
setupDataCallResponse(cid) ==
    /\ asked # <<>> /\ cid \notin DOMAIN live
    /\ asked' = Tail(asked)
    /\ dataCallCids' = [dataCallCids EXCEPT ![Slot] = cid]
    /\ live' = [c \in DOMAIN live \cup {cid} |-> IF c = cid THEN Head(asked) ELSE live[c]]
    /\ UNCHANGED <<setups, calm>>

\* ... or it failed, or nobody listens: the table stays as it is.
setupDataCallFails ==
    /\ asked # <<>> /\ asked' = Tail(asked)
    /\ UNCHANGED <<dataCallCids, live, setups, calm>>

\* The first of the four entries with this cid, if there is one.
Clear(cid) ==
    LET found == {i \in 1..4 : dataCallCids[i] = cid}
    IN IF found = {} THEN dataCallCids
       ELSE [dataCallCids EXCEPT ![Min(found)] = NoCid]

deactivateDataCall(cid) ==
    /\ cid \in DOMAIN live
    /\ dataCallCids' = Clear(cid)
    /\ live' = [c \in DOMAIN live \ {cid} |-> live[c]]
    /\ calm' = (calm /\ asked = <<>>)
    /\ UNCHANGED <<asked, setups>>

Next ==
    \/ setupDataCall \/ setupDataCallFails
    \/ \E cid \in Cids : setupDataCallResponse(cid) \/ deactivateDataCall(cid)

Spec == Init /\ [][Next]_vars

-----------------------------------------------------------------------------
(* Properties.                                                             *)

TypeOK ==
    /\ dataCallCids \in [Entries -> Cids \cup {NoCid}]
    /\ asked \in Seq(0..4) /\ Len(asked) <= MaxAsked
    /\ DOMAIN live \subseteq Cids /\ \A c \in DOMAIN live : live[c] \in 0..4
    /\ setups \in 0..MaxSetups /\ calm \in BOOLEAN

\* As long as no setup meets another setup or a deactivation on its way, the
\* table says who has which interface: two calls that are up never share one,
\* and an entry is occupied exactly by the call that was given its number.
InterfacesExact ==
    calm => /\ \A i \in 1..4 : dataCallCids[i] # NoCid =>
                  /\ dataCallCids[i] \in DOMAIN live
                  /\ live[dataCallCids[i]] = i
            /\ \A c \in DOMAIN live : live[c] # 0 => dataCallCids[live[c]] = c

-----------------------------------------------------------------------------
(* The inductive invariant.                                                *)

\* The setup on its way was sent the number that its response will find free.
AskedIsFree == calm => asked = <<>> \/ asked = <<InterfaceId>>

InterfaceInv == TypeOK /\ InterfacesExact /\ AskedIsFree

=============================================================================
