----------------------------- MODULE RilRequest -----------------------------
(***************************************************************************)
(* The life of a request in libril (hal/ril/libril): a RadioImpl method    *)
(* or an indication handler links a RequestInfo into its socket's pending  *)
(* list (addRequestToList) and hands it to the vendor library as a token   *)
(* (my_enqueue); the vendor's channel threads acknowledge it               *)
(* (RIL_onRequestAck) and complete it (RIL_onRequestComplete), which       *)
(* answers the framework and frees the RequestInfo.                        *)
(*                                                                         *)
(* A RequestInfo is identified with its address, which is handed out again *)
(* once it is freed.  The vendor library is modelled from its use: one     *)
(* thread per channel that takes its tokens in order; if "stale" it may    *)
(* also use a token it has completed before.  The wake lock, the callbacks *)
(* and the queuing of busy channels (off in the build) are other modules.  *)
(***************************************************************************)
EXTENDS Integers, Sequences, FiniteSets, SequencesExt

CONSTANTS
    Sockets,
    Cids,           \* RILChannelId: a socket and a channel of the vendor's for it
    IdProxy,        \* RIL_CMD_PROXY_3, the channel of the identity requests
    Binder, Unsol,  \* the threads that issue requests
    Infos,          \* addresses a RequestInfo can have
    Settings,       \* the settings to look at, see setting
    NoAddr,         \* NULL
    MaxReqs,        \* bound: requests of the framework
    MaxLocals       \* bound: requests of libril itself

Dispatchers == {Binder, Unsol}
Local == 0                          \* serial -1: issued by libril itself
Serials == 1 .. MaxReqs
NoInfo == [serial |-> -1]

ASSUME RequestAssumption ==
    /\ Cids # {} /\ \A c \in Cids : c[1] \in Sockets
    /\ Binder # Unsol
    /\ Settings \subseteq {"calm", "noMemory", "stale"}
    /\ MaxReqs \in Nat /\ MaxLocals \in Nat
    /\ NoAddr \notin Infos

VARIABLES
    setting,        \* what may go wrong
    mem,            \* what is at each address
    pendingRequests,\* s_pendingRequests of each socket, first element first
    issue,          \* per dispatcher: [pc, cid, todo, a]
    queue,          \* the vendor: tokens of each channel, in order
    old,            \* the vendor: tokens it has completed
    vendor,         \* the vendor: per channel thread [pc, a]
    Device_ID,      \* sockets whose IMEI is known
    acked,          \* serials acknowledgeRequest was called for
    answers,        \* the responses the framework got, in order
    serial, locals  \* requests so far

memVars == <<mem, pendingRequests>>
vendorVars == <<queue, old, vendor>>
outVars == <<Device_ID, acked, answers>>
vars == <<setting, memVars, issue, vendorVars, outVars, serial, locals>>

AnyCid == CHOOSE c \in Cids : TRUE
IdleIssue == [pc |-> "idle", cid |-> AnyCid, todo |-> <<>>, a |-> NoAddr]
IdleVendor == [pc |-> "idle", a |-> NoAddr]

\* calloc may fail.
MayFail == setting = "noMemory"

\* The vendor uses tokens again that it has completed.
Stale == setting = "stale"

Init ==
    /\ setting \in Settings
    /\ mem = [a \in Infos |-> NoInfo]
    /\ pendingRequests = [s \in Sockets |-> <<>>]
    /\ issue = [d \in Dispatchers |-> IdleIssue]
    /\ queue = [c \in Cids |-> <<>>] /\ old = {}
    /\ vendor = [c \in Cids |-> IdleVendor]
    /\ Device_ID = {} /\ acked = {} /\ answers = <<>>
    /\ serial = 0 /\ locals = 0

Free == {a \in Infos : mem[a] = NoInfo}
Socket(a) == mem[a].cid[1]
Answer(n, exp, id) ==
    answers' = Append(answers, [serial |-> n, ackExp |-> exp, id |-> id])

-----------------------------------------------------------------------------
(* Issuing a request.                                                      *)

\* Mutant: the IMEI is asked for after the identity.
identityKinds_swapped == <<"identity", "imei">>

\* getDeviceIdentity; "imei" stands for the IMEI and the IMEISV request.
identityKinds == <<"imei", "identity">>

\* A RadioImpl method: one request, or getDeviceIdentity, which issues the
\* IMEI requests first ("prepare for not supported").
request(c) ==
    /\ serial < MaxReqs                                         \* bound
    /\ issue[Binder].pc = "idle"
    /\ serial' = serial + 1
    /\ \E kinds \in {<<"plain">>} \cup
                    (IF c[2] = IdProxy THEN {identityKinds} ELSE {}) :
         issue' = [issue EXCEPT ![Binder] = [@ EXCEPT !.pc = "add", !.cid = c, !.todo = kinds]]
    /\ UNCHANGED <<memVars, vendorVars, outVars, locals, setting>>

\* registrationSuspendInd, incomingCallInd or setAttachApnInd, on a vendor
\* thread that reports an event.
localRequest(c) ==
    /\ locals < MaxLocals /\ ~Stale                               \* bound
    /\ issue[Unsol].pc = "idle"
    /\ locals' = locals + 1
    /\ issue' = [issue EXCEPT ![Unsol] = [@ EXCEPT !.pc = "add", !.cid = c, !.todo = <<"local">>]]
    /\ UNCHANGED <<memVars, vendorVars, outVars, serial, setting>>

\* What the dispatcher does when the request at hand is dealt with.
NextIssue(d) ==
    LET todo == issue[d].todo IN
    issue' = [issue EXCEPT ![d] = IF Len(todo) = 1 THEN IdleIssue
                                  ELSE [@ EXCEPT !.pc = "add", !.todo = Tail(todo)]]

Kind(d) == Head(issue[d].todo)

addRequestToList(d) ==
    \E a \in Free :
        LET c == issue[d].cid
        IN  /\ issue[d].pc = "add"
            /\ mem' = [mem EXCEPT ![a] =
                 [serial |-> IF Kind(d) \in {"plain", "identity"} THEN serial ELSE Local,
                  cid |-> c, kind |-> Kind(d), wasAckSent |-> FALSE]]
            /\ pendingRequests' = [pendingRequests EXCEPT ![c[1]] = <<a>> \o @]
            /\ issue' = [issue EXCEPT ![d] = [@ EXCEPT !.pc = "send", !.a = a]]
            /\ UNCHANGED <<vendorVars, outVars, serial, locals, setting>>

\* calloc fails: the request is dropped, and nobody is told.
addRequestFails(d) ==
    /\ MayFail
    /\ issue[d].pc = "add"
    /\ NextIssue(d)
    /\ UNCHANGED <<memVars, vendorVars, outVars, serial, locals, setting>>

\* my_enqueue: s_callbacksSocket.onRequest.
my_enqueue(d) ==
    /\ issue[d].pc = "send"
    /\ queue' = [queue EXCEPT ![issue[d].cid] = Append(@, issue[d].a)]
    /\ NextIssue(d)
    /\ UNCHANGED <<memVars, old, vendor, outVars, serial, locals, setting>>

\* Mutant: after the error the request is dispatched all the same.
sendErrorResponse_thenSent(d) ==
    /\ MayFail
    /\ issue[d].pc = "send" /\ Kind(d) = "plain"
    /\ Answer(mem[issue[d].a].serial, FALSE, TRUE)
    /\ queue' = [queue EXCEPT ![issue[d].cid] = Append(@, issue[d].a)]
    /\ NextIssue(d)
    /\ UNCHANGED <<memVars, old, vendor, Device_ID, acked, serial, locals, setting>>

\* The arguments cannot be copied (dispatchString and others): the framework
\* is answered at once, and the RequestInfo stays in the pending list.  (The
\* requests of libril have no response function: there it would end rild.)
sendErrorResponse(d) ==
    /\ MayFail
    /\ issue[d].pc = "send" /\ Kind(d) = "plain"
    /\ Answer(mem[issue[d].a].serial, FALSE, TRUE)
    /\ NextIssue(d)
    /\ UNCHANGED <<memVars, vendorVars, Device_ID, acked, serial, locals, setting>>

-----------------------------------------------------------------------------
(* The vendor's thread of channel c calls back with token a.               *)

Token(c, a) ==
    \/ queue[c] # <<>> /\ a = Head(queue[c])
    \/ Stale /\ a \in old

\* The vendor completes a token: it will not use it again, unless "stale".
Forget(c, a) ==
    IF queue[c] # <<>> /\ a = Head(queue[c])
      THEN queue' = [queue EXCEPT ![c] = Tail(@)] /\ UNCHANGED old
      ELSE old' = old \ {a} /\ UNCHANGED queue

\* Mutant: the walk stops at the head of the list.
Found_headOnly(a) ==
    /\ mem[a] # NoInfo
    /\ pendingRequests[Socket(a)] # <<>> /\ a = Head(pendingRequests[Socket(a)])

\* checkAndDequeueRequestInfoIfAck finds the token in its socket's list.
Found(a) == mem[a] # NoInfo /\ Contains(pendingRequests[Socket(a)], a)

\* "invalid RIL_Token": no effect.
invalidToken(c, a) ==
    /\ vendor[c].pc = "idle" /\ Token(c, a)
    /\ ~Found(a)
    /\ Forget(c, a)
    /\ UNCHANGED <<memVars, issue, vendor, outVars, serial, locals, setting>>

RIL_onRequestAck(c, a) ==
    /\ vendor[c].pc = "idle" /\ Token(c, a)
    /\ Found(a)
    /\ mem' = [mem EXCEPT ![a].wasAckSent = TRUE]
    /\ vendor' = [vendor EXCEPT ![c] = [pc |-> "ack", a |-> a]]
    /\ UNCHANGED <<pendingRequests, issue, queue, old, outVars, serial, locals, setting>>

\* acknowledgeRequest, from what is at the address by now; what is read from
\* a freed RequestInfo is arbitrary.
acknowledgeRequest(c) ==
    LET a == vendor[c].a IN
    /\ vendor[c].pc = "ack"
    /\ \E n \in IF mem[a] = NoInfo THEN Serials ELSE {mem[a].serial} :
         acked' = acked \cup {n}
    /\ vendor' = [vendor EXCEPT ![c] = IdleVendor]
    /\ UNCHANGED <<memVars, issue, queue, old, Device_ID, answers, serial, locals, setting>>

\* Mutant: a completion leaves the request in the list, as an ack does.
RIL_onRequestComplete_stillPending(c, a) ==
    /\ vendor[c].pc = "idle" /\ Token(c, a)
    /\ Found(a)
    /\ Forget(c, a)
    /\ vendor' = [vendor EXCEPT ![c] = [pc |-> "respond", a |-> a]]
    /\ UNCHANGED <<memVars, issue, outVars, serial, locals, setting>>

\* RIL_onRequestComplete up to the removal from the list.
RIL_onRequestComplete(c, a) ==
    /\ vendor[c].pc = "idle" /\ Token(c, a)
    /\ Found(a)
    /\ Forget(c, a)
    /\ pendingRequests' = [pendingRequests EXCEPT
                             ![Socket(a)] = RemoveFirst(@, a)]
    /\ vendor' = [vendor EXCEPT ![c] = [pc |-> "respond", a |-> a]]
    /\ UNCHANGED <<mem, issue, outVars, serial, locals, setting>>

\* A request of libril: nothing goes up; the IMEI is remembered.
localResponse(c) ==
    LET r == mem[vendor[c].a] IN
    /\ vendor[c].pc = "respond" /\ r.serial = Local
    /\ Device_ID' = IF r.kind = "imei" THEN Device_ID \cup {r.cid[1]} ELSE Device_ID
    /\ vendor' = [vendor EXCEPT ![c].pc = "free"]
    /\ UNCHANGED <<memVars, issue, queue, old, acked, answers, serial, locals, setting>>

\* The response goes up: RESPONSE_SOLICITED_ACK_EXP when the request was
\* acknowledged; DEVICE_IDENTITY is unsupported and answered from Device_ID.
responseFunction(c) ==
    LET r == mem[vendor[c].a] IN
    /\ vendor[c].pc = "respond" /\ r.serial # Local
    /\ Answer(r.serial, r.wasAckSent, r.kind = "identity" => r.cid[1] \in Device_ID)
    /\ vendor' = [vendor EXCEPT ![c].pc = "free"]
    /\ UNCHANGED <<memVars, issue, queue, old, Device_ID, acked, serial, locals, setting>>

freeRequest(c) ==
    /\ vendor[c].pc = "free"
    /\ mem' = [mem EXCEPT ![vendor[c].a] = NoInfo]
    /\ old' = IF Stale THEN old \cup {vendor[c].a} ELSE old
    /\ vendor' = [vendor EXCEPT ![c] = IdleVendor]
    /\ UNCHANGED <<pendingRequests, issue, queue, outVars, serial, locals, setting>>

-----------------------------------------------------------------------------

IssueStep(d) == addRequestToList(d) \/ my_enqueue(d)
VendorStep(c) == acknowledgeRequest(c) \/ localResponse(c) \/ responseFunction(c)
                 \/ freeRequest(c)
Complete(c) == \E a \in Infos : RIL_onRequestComplete(c, a) \/ invalidToken(c, a)

Next ==
    \/ \E c \in Cids : request(c) \/ localRequest(c)
    \/ \E d \in Dispatchers : IssueStep(d) \/ addRequestFails(d) \/ sendErrorResponse(d)
    \/ \E c \in Cids : VendorStep(c) \/ Complete(c)
    \/ \E c \in Cids, a \in Infos : RIL_onRequestAck(c, a)

Spec == Init /\ [][Next]_vars

\* Fairness: threads run, and the vendor completes what it is given.
FairSpec ==
    /\ Spec
    /\ \A d \in Dispatchers : WF_vars(IssueStep(d))
    /\ \A c \in Cids : WF_vars(VendorStep(c)) /\ SF_vars(Complete(c))

-----------------------------------------------------------------------------
(* Properties.                                                             *)

Kinds == {"plain", "identity", "imei", "local"}
InfoType == {NoInfo} \cup
    [serial : Serials \cup {Local}, cid : Cids, kind : Kinds, wasAckSent : BOOLEAN]
IssueType ==
    [pc : {"idle", "add", "send"}, cid : Cids, todo : Seq(Kinds), a : Infos \cup {NoAddr}]

\* Type correctness.
TypeOK ==
    /\ setting \in Settings
    /\ mem \in [Infos -> InfoType]
    /\ pendingRequests \in [Sockets -> Seq(Infos)]
    /\ issue \in [Dispatchers -> IssueType]
    /\ queue \in [Cids -> Seq(Infos)] /\ old \subseteq Infos
    /\ vendor \in [Cids -> [pc : {"idle", "ack", "respond", "free"}, a : Infos \cup {NoAddr}]]
    /\ Device_ID \subseteq Sockets /\ acked \subseteq Serials \cup {Local}
    /\ answers \in Seq([serial : Serials, ackExp : BOOLEAN, id : BOOLEAN])
    /\ serial \in 0 .. MaxReqs /\ locals \in 0 .. MaxLocals

Completing == {vendor[c].a : c \in {c \in Cids : vendor[c].pc \in {"respond", "free"}}}
Linked(s) == Range(pendingRequests[s])
AllLinked == UNION {Linked(s) : s \in Sockets}

\* The pending lists hold every RequestInfo that is not being completed,
\* once, in the list of its own socket: completions on other channels,
\* duplicated ones included, unlink nothing else and free nothing linked.
ListsConsistent ==
    /\ \A s \in Sockets :
         /\ IsInjective(pendingRequests[s])
         /\ \A a \in Linked(s) : mem[a] # NoInfo /\ Socket(a) = s
    /\ Infos \ Free = Completing \cup AllLinked
    /\ \A s \in Sockets : Completing \cap Linked(s) = {}

\* The variables have their types, and the pending lists are those of the
\* requests that live (addRequestToList, checkAndDequeueRequestInfoIfAck).
ListsSound == TypeOK /\ ListsConsistent

\* No request is answered twice, even when the vendor completes a token
\* twice, on two threads, or after its address was handed out again.
AnsweredOnce ==
    \A i, j \in 1 .. Len(answers) : answers[i].serial = answers[j].serial => i = j

\* The framework is asked to acknowledge a response exactly when the request
\* was acknowledged to it before (wasAckSent), unless tokens are used again:
\* otherwise it would release a wake lock nobody took, or keep one.
AckExpected ==
    \A i \in 1 .. Len(answers) :
        ~Stale => (answers[i].ackExp <=> answers[i].serial \in acked)

\* What the framework hears of a request: one answer, and no demand for an
\* acknowledgement it does not expect (RIL_onRequestComplete).
AnsweredRight == AnsweredOnce /\ AckExpected

\* The device identity is answered with the IMEI the two requests issued
\* before it fetch (getDeviceIdentity, Device_ID), unless memory is short or
\* tokens are used again.
IdentityHasImei == setting = "calm" => \A i \in 1 .. Len(answers) : answers[i].id

\* Every request the framework makes is answered, unless memory is short or
\* tokens are used again.
EveryRequestAnswered ==
    \A n \in Serials : setting = "calm" /\ serial = n ~> \E i \in 1 .. Len(answers) : answers[i].serial = n

-----------------------------------------------------------------------------
(* The inductive invariant: why requests keep apart.                       *)

Answered == {answers[i].serial : i \in DOMAIN answers}
FromFramework(a) == mem[a] # NoInfo /\ mem[a].serial # Local
Sending(d, a) == issue[d].pc = "send" /\ issue[d].a = a
Responding(c, a) == vendor[c] = [pc |-> "respond", a |-> a]
Acking(c, a) == vendor[c] = [pc |-> "ack", a |-> a]

\* What is left to issue: the Binder thread's serial is the current one, and
\* only the requests of libril itself come from a vendor thread.
IssueSound ==
    /\ issue[Unsol].pc # "idle" => issue[Unsol].todo = <<"local">>
    /\ issue[Binder].pc # "idle" =>
         issue[Binder].todo \in {<<"plain">>, <<"imei", "identity">>, <<"identity">>} /\ serial > 0
    /\ \A d \in Dispatchers : issue[d].pc = "send" => issue[d].a \in Infos

\* The serial of a RequestInfo is one that was handed out, or Local.
InfoSound ==
    \A a \in Infos : mem[a] # NoInfo =>
        mem[a].serial <= serial /\ (mem[a].serial = Local <=> mem[a].kind \in {"imei", "local"})

\* No two threads complete the same RequestInfo.
CompletedOnce ==
    /\ \A c \in Cids : vendor[c].pc # "idle" => vendor[c].a \in Infos
    /\ \A c, e \in Cids : /\ vendor[c].pc \in {"respond", "free"}
                          /\ vendor[e].pc \in {"respond", "free"}
                          /\ vendor[c].a = vendor[e].a
                          => c = e

\* The serial the Binder thread is about to write into a RequestInfo is new.
NewSerial ==
    /\ \A n \in Answered : n <= serial
    /\ ~Stale => \A n \in acked : n <= serial
    /\ issue[Binder].pc # "idle" /\ ~(issue[Binder].pc = "send" /\ Kind(Binder) # "imei") =>
         /\ \A a \in Infos : FromFramework(a) => mem[a].serial # serial
         /\ serial \notin Answered
         /\ ~Stale => serial \notin acked

OnePerSerial ==
    \A a, b \in Infos : /\ FromFramework(a) /\ FromFramework(b)
                        /\ mem[a].serial = mem[b].serial
                        => a = b

\* Each token is in one hand: of the thread that sends it, of one channel's
\* queue, or of the thread that completes it.
TokensOwned ==
    /\ \A d \in Dispatchers : issue[d].pc = "send" =>
         /\ Found(issue[d].a)
         /\ mem[issue[d].a].cid = issue[d].cid /\ mem[issue[d].a].kind = Kind(d)
         /\ ~mem[issue[d].a].wasAckSent
         /\ \A c \in Cids : issue[d].a \notin Range(queue[c])
    /\ \A d, e \in Dispatchers : issue[d].pc = "send" /\ Sending(e, issue[d].a) => d = e
    /\ \A c \in Cids : \A a \in Range(queue[c]) : Found(a) /\ mem[a].cid = c
    /\ \A c \in Cids : IsInjective(queue[c])
    /\ \A c \in Cids : vendor[c].pc = "ack" => queue[c] # <<>> /\ vendor[c].a = Head(queue[c])
    /\ \A c \in Cids : vendor[c].pc \in {"respond", "free"} => mem[vendor[c].a].cid = c

\* A token that can still be completed belongs to no answered request.
InHandUnanswered ==
    /\ \A c \in Cids, a \in Infos : Responding(c, a) => mem[a].serial \notin Answered
    /\ \A a \in Infos :
         Found(a) /\ (Stale \/ (\E d \in Dispatchers : Sending(d, a))
                           \/ (\E c \in Cids : a \in Range(queue[c])))
         => mem[a].serial \notin Answered

\* wasAckSent says that the framework has got, or is about to get, the ack.
AckTracked ==
    \A a \in Infos : FromFramework(a) =>
        (mem[a].wasAckSent <=> mem[a].serial \in acked \/ \E c \in Cids : Acking(c, a))

ImeiKnown(c) ==
    c[1] \in Device_ID \/ (vendor[c].pc = "respond" /\ mem[vendor[c].a].kind = "imei")

\* The IMEI request is ahead of the identity request, on the same channel.
ImeiAhead ==
    /\ \A c \in Cids : \A k \in DOMAIN queue[c] :
         mem[queue[c][k]].kind = "identity" =>
           ImeiKnown(c) \/ \E j \in 1 .. k - 1 : mem[queue[c][j]].kind = "imei"
    /\ issue[Binder].pc # "idle" /\ Kind(Binder) = "identity" =>
         LET c == issue[Binder].cid
         IN  ImeiKnown(c) \/ \E j \in DOMAIN queue[c] : mem[queue[c][j]].kind = "imei"
    /\ \A c \in Cids : vendor[c].pc = "respond" /\ mem[vendor[c].a].kind = "identity" =>
         c[1] \in Device_ID

RequestInv ==
    /\ ListsSound /\ IssueSound /\ InfoSound /\ CompletedOnce /\ NewSerial /\ OnePerSerial
    /\ InHandUnanswered /\ AnsweredRight /\ IdentityHasImei
    /\ ~Stale => TokensOwned /\ AckTracked
    /\ setting = "calm" => ImeiAhead
=============================================================================
