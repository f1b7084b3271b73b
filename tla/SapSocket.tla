----------------------------- MODULE SapSocket ------------------------------
(***************************************************************************)
(* The SIM access profile of one slot (libril/sap_service.cpp,              *)
(* RilSapSocket.cpp, rilSocketQueue.h).  The HIDL thread turns a call of    *)
(* the SAP client into a MsgHeader and a SapSocketRequest, queues the       *)
(* request and hands it to the vendor; a thread of the vendor completes it, *)
(* answers over the client's callback and frees what it finds in the queue  *)
(* under the same message id and token.                                     *)
(***************************************************************************)
EXTENDS Integers, Sequences, SequencesExt

CONSTANTS
    Keys,           \* pairs of a message id and a token
    MaxRequests,    \* bound: requests made
    MaxClients,     \* bound: lives of the client process
    MaxTroubles     \* bound: allocations and encodings that fail, and
                    \* indications of the vendor

Requests == 1..MaxRequests
None == 0

VARIABLES
    client, up,     \* the number of the client process, and it is alive
    sapCallback,    \* the client whose callback is set, or None
    made,           \* requests made so far
    key,            \* request -> its message id and token
    mem,            \* request -> which of its blocks are allocated
    queue,          \* pendingResponseQueue, front first
    vendor,         \* requests the vendor has not completed
    api, areq,      \* where the HIDL thread is, and with which request
    comp, creq, cto,\* where the vendor's thread is, the request it completes
                    \* (or None: an indication) and the client it calls
    clash,          \* two requests in flight had the same key
    crashed,        \* freed memory or a null callback was used
    troubles        \* how many of those there were

clientVars == <<client, up>>
reqVars == <<made, key, mem, queue, vendor>>
apiVars == <<api, areq>>
compVars == <<comp, creq, cto>>
vars == <<clientVars, sapCallback, reqVars, apiVars, compVars, clash, crashed, troubles>>

Init ==
    /\ client = 0 /\ up = FALSE /\ sapCallback = None
    /\ made = 0 /\ key = [r \in Requests |-> CHOOSE k \in Keys : TRUE]
    /\ mem = [r \in Requests |-> {}]
    /\ queue = <<>> /\ vendor = {}
    /\ api = "idle" /\ areq = None
    /\ comp = "idle" /\ creq = None /\ cto = None
    /\ clash = FALSE /\ crashed = FALSE /\ troubles = 0

Trouble == troubles < MaxTroubles /\ troubles' = troubles + 1

-----------------------------------------------------------------------------
(* The client and the HIDL thread.                                         *)

\* A client process starts and sets its callback.
setCallback ==
    /\ ~up /\ client < MaxClients /\ api = "idle"
    /\ client' = client + 1 /\ up' = TRUE
    /\ sapCallback' = client'
    /\ UNCHANGED <<reqVars, apiVars, compVars, clash, crashed, troubles>>

ClientDies ==
    /\ up /\ up' = FALSE
    /\ UNCHANGED <<client, sapCallback, reqVars, apiVars, compVars, clash, crashed,
                   troubles>>

\* connectReq, apduReq, ... up to addPayloadAndDispatchRequest.
Request(k) ==
    /\ up /\ api = "idle" /\ made < MaxRequests
    /\ made' = made + 1 /\ areq' = made + 1
    /\ key' = [key EXCEPT ![made + 1] = k]
    /\ mem' = [mem EXCEPT ![made + 1] = {"hdr"}]
    /\ api' = "dispatch"
    /\ UNCHANGED <<clientVars, sapCallback, queue, vendor, compVars, clash, crashed,
                   troubles>>

\* Something cannot be allocated or encoded: sendFailedResponse frees what
\* there is and calls the callback without looking whether there is one; a
\* client that dies meanwhile loses it.
RequestFails ==
    /\ up /\ api = "idle" /\ Trouble
    /\ crashed' = (sapCallback = None)
    /\ \/ UNCHANGED <<up, sapCallback>>
       \/ up' = FALSE /\ sapCallback' = None
    /\ UNCHANGED <<client, reqVars, apiVars, compVars, clash>>

InFlight == (vendor \cup {creq, areq}) \ {None}

\* Mutant: the request is handed over and not queued.
enqueue_not(r) == queue

\* A new request goes to the front.
enqueue(r) == <<r>> \o queue

\* dispatchRequest puts the request into the queue, or has no memory for it
\* and frees the header.
dispatchRequest ==
    /\ api = "dispatch"
    /\ \/ /\ queue' = enqueue(areq)
          /\ mem' = [mem EXCEPT ![areq] = @ \cup {"req"}]
          /\ clash' = (clash \/ \E r \in InFlight \ {areq} : key[r] = key[areq])
          /\ api' = "onRequest"
          /\ UNCHANGED troubles
       \/ /\ Trouble
          /\ mem' = [mem EXCEPT ![areq] = {}]
          /\ api' = "payload"
          /\ UNCHANGED <<queue, clash>>
    /\ UNCHANGED <<clientVars, sapCallback, made, key, vendor, areq, compVars, crashed>>

onRequest ==
    /\ api = "onRequest" /\ api' = "payload"
    /\ vendor' = vendor \cup {areq}
    /\ UNCHANGED <<clientVars, sapCallback, made, key, mem, queue, areq, compVars,
                   clash, crashed, troubles>>

\* free(msg->payload): the header may be gone by now, and what is read from
\* it may still be the payload or not.
FreePayload ==
    /\ api = "payload" /\ api' = "idle" /\ areq' = None
    /\ crashed' \in IF "hdr" \in mem[areq] THEN {FALSE} ELSE BOOLEAN
    /\ UNCHANGED <<clientVars, sapCallback, reqVars, compVars, clash, troubles>>

-----------------------------------------------------------------------------
(* The vendor's thread.                                                    *)

Deliver(next) ==
    IF sapCallback = None THEN comp' = next /\ cto' = None
                          ELSE comp' = "call" /\ cto' = sapCallback

\* onRequestComplete, and processResponse as far as the call; without memory
\* for the payload there is no call.
onRequestComplete(r) ==
    /\ comp = "idle" /\ r \in vendor
    /\ vendor' = vendor \ {r} /\ creq' = r
    /\ \/ Deliver("dequeue") /\ UNCHANGED troubles
       \/ Trouble /\ comp' = "dequeue" /\ cto' = None
    /\ crashed' \in IF "req" \in mem[r] THEN {FALSE} ELSE BOOLEAN
    /\ UNCHANGED <<clientVars, sapCallback, made, key, mem, queue, apiVars, clash>>

onUnsolicitedResponse ==
    /\ comp = "idle" /\ Trouble
    /\ creq' = None
    /\ Deliver("idle")
    /\ UNCHANGED <<clientVars, sapCallback, reqVars, apiVars, clash, crashed>>

AfterCall == IF creq = None THEN "idle" ELSE "dequeue"

\* The callee is a process that has died.
Failed == ~(up /\ cto = client)

\* The call to the callback returns ...
CallReturns ==
    /\ comp = "call"
    /\ comp' = IF Failed THEN "reset" ELSE AfterCall
    /\ UNCHANGED <<clientVars, sapCallback, reqVars, apiVars, creq, cto, clash, crashed,
                   troubles>>

\* ... and checkReturnStatus resets whatever callback is set by now.
checkReturnStatus ==
    /\ comp = "reset"
    /\ comp' = AfterCall
    /\ sapCallback' = None
    /\ UNCHANGED <<clientVars, reqVars, apiVars, creq, cto, clash, crashed, troubles>>

Matches(r) == {i \in DOMAIN queue : key[queue[i]] = key[r]}

\* checkAndDequeue frees the first request with this id and token, then the
\* header of the completed one goes.
checkAndDequeue ==
    LET i == CHOOSE j \in Matches(creq) : \A l \in Matches(creq) : j <= l
        found == Matches(creq) # {}
        freed == [mem EXCEPT ![creq] = @ \ {"hdr"}]
    IN
    /\ comp = "dequeue" /\ comp' = "idle" /\ creq' = None /\ cto' = None
    /\ queue' = IF found THEN RemoveAt(queue, i) ELSE queue
    /\ mem' = IF found THEN [freed EXCEPT ![queue[i]] = @ \ {"req"}] ELSE freed
    /\ UNCHANGED <<clientVars, sapCallback, made, key, vendor, apiVars, clash, crashed,
                   troubles>>

Next ==
    /\ ~crashed
    /\ \/ setCallback \/ ClientDies
       \/ \E k \in Keys : Request(k)
       \/ RequestFails \/ dispatchRequest \/ onRequest \/ FreePayload
       \/ \E r \in Requests : onRequestComplete(r)
       \/ onUnsolicitedResponse \/ CallReturns \/ checkReturnStatus \/ checkAndDequeue

Spec == Init /\ [][Next]_vars

-----------------------------------------------------------------------------
(* Properties.                                                             *)

TypeOK ==
    /\ client \in 0..MaxClients /\ up \in BOOLEAN
    /\ sapCallback \in {None, client}
    /\ made \in 0..MaxRequests /\ key \in [Requests -> Keys]
    /\ mem \in [Requests -> SUBSET {"hdr", "req"}]
    /\ queue \in Seq(1..made) /\ vendor \subseteq 1..made
    /\ api \in {"idle", "dispatch", "onRequest", "payload"}
    /\ areq \in 0..made
    /\ comp \in {"idle", "call", "reset", "dequeue"}
    /\ creq \in 0..made /\ cto \in 0..client
    /\ clash \in BOOLEAN /\ crashed \in BOOLEAN /\ troubles \in 0..MaxTroubles

\* The requests that are queued and not completed.
Held ==
    vendor \cup ({creq} \ {None}) \cup (IF api = "onRequest" THEN {areq} ELSE {})

\* A request is freed by its own completion and by nothing else, as long as
\* no two requests in flight have the same id and token: what the vendor
\* still has is allocated and queued once, and nothing else is.
OwnRequestFreed ==
    (~clash /\ ~crashed) =>
        /\ IsInjective(queue) /\ Range(queue) = Held
        /\ \A r \in Requests : "req" \in mem[r] <=> r \in Held
        /\ \A r \in Held : "hdr" \in mem[r]

-----------------------------------------------------------------------------
(* The inductive invariant.                                                *)

\* The HIDL thread has a request of its own until it has handed it over.
ApiSound ==
    /\ api = "idle" <=> areq = None
    /\ api # "idle" => areq = made
    /\ api \in {"dispatch", "onRequest"} => areq \notin vendor \cup {creq}
    /\ api = "dispatch" => mem[areq] = {"hdr"}

\* The vendor's thread completes a request that it no longer has.
CompSound ==
    /\ comp = "idle" => creq = None
    /\ comp = "dequeue" => creq # None
    /\ creq \notin vendor

\* The history variable does its work: a completion finds its own request.
KeysApart == ~clash => \A r, s \in Held : key[r] = key[s] => r = s

SapInv == TypeOK /\ ApiSound /\ CompSound /\ KeysApart /\ OwnRequestFreed

=============================================================================
