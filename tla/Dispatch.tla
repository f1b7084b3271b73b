------------------------------ MODULE Dispatch ------------------------------
(***************************************************************************)
(* The memory of a request's arguments (ril_service.cpp, ril.cpp).  A       *)
(* dispatch function copies the strings and arrays of a HIDL request, one   *)
(* allocation at a time, hands them to the vendor library with my_enqueue,  *)
(* and either it or clearPendingBuffer frees them, depending on the format  *)
(* my_enqueue was told.  Any allocation may fail, and then what was copied  *)
(* so far is freed and the framework is answered.                           *)
(*                                                                          *)
(* The requests of one shape are one kind.  A pointer is <<field, index>>.  *)
(* Requests come one after another, on the one binder thread.               *)
(***************************************************************************)
EXTENDS Naturals, Sequences, SequencesExt, FiniteSets

CONSTANTS
    Kinds,          \* the kinds of requests that are made
    MaxStrings,     \* bound: strings of a request
    MaxProfiles     \* bound: data profiles, carriers of a request

VARIABLES
    kind, count, proxied,   \* the request, its number of elements, and whether
                            \* its proxyId is RIL_CMD_PROXY_1 or RIL_CMD_PROXY_3
    step,                   \* steps of the construction that were taken
    ptrs,                   \* pointers that were set
    heap,                   \* blocks that are allocated
    badFree,                \* something else was freed, or read when it was freed
    sent, answers,          \* handed to the vendor; error responses sent
    phase                   \* "idle", "build", "sent", "done", "crashed"

dispatchVars == <<kind, count, proxied, step, ptrs, heap, badFree, sent, answers, phase>>

AllKinds == {"void", "string", "strings", "ints", "callForward", "raw", "iccApdu", "dial",
             "iccIO", "writeSms", "attachApn", "attachApn15", "imsGsmSms", "imsCdmaSms",
             "nvWriteItem", "simAuth", "dataProfile", "dataProfile15", "carriers", "unsupported",
             "deviceState"}

Init ==
    /\ kind = "void" /\ count = 0 /\ proxied = FALSE /\ step = 0
    /\ ptrs = {} /\ heap = {} /\ badFree = FALSE
    /\ sent = FALSE /\ answers = 0 /\ phase = "idle"

Array(f) == <<[what |-> "array", p |-> <<f, 0>>]>>
Text(f, i) == <<[what |-> "string", p |-> <<f, i>>]>>
Check == <<[what |-> "check", p |-> <<"none", 0>>]>>

Texts(fs, i) == [j \in DOMAIN fs |-> Text(fs[j], i)[1]]
PerProfile(fs, tail) == FlattenSeq([i \in 1..count |-> Texts(fs, i) \o tail])

profileFields == <<"apn", "protocol", "user", "password">>
profileFields15 == <<"apn", "protocol", "roamingProtocol", "user", "password", "mvnoMatchData">>
ofStrings == Array("pStrings") \o [i \in 1..count |-> Text("pStrings", i)[1]]
ofIccIO == Texts(<<"path", "data", "pin2", "aidPtr">>, 0)
ofWriteSms == Texts(<<"pdu", "smsc">>, 0)
ofAttachApn == Texts(<<"apn", "protocol", "username", "password">>, 0)
ofAttachApn15 ==
    Texts(<<"apn", "protocol", "roamingProtocol", "username", "password">>, 0)
    \o Check \o Text("mvnoMatchData", 0)
ofImsGsmSms == Check \o Array("pStrings") \o Text("pStrings", 1) \o Text("pStrings", 2)
ofSimAuth == Texts(<<"authData", "aid">>, 0)
ofDataProfile ==
    Array("dataProfiles") \o Array("dataProfilePtrs") \o PerProfile(profileFields, <<>>)
ofDataProfile15 ==
    Array("dataProfiles") \o Array("dataProfilePtrs") \o PerProfile(profileFields15, Check)
ofDial == Texts(<<"address", "uusData">>, 0)
ofCarriers == Array("allowedCarriers") \o Array("excludedCarriers")

\* The steps that build the request's arguments, in the code's order.
Steps ==
    CASE kind = "string" -> Text("pString", 0)
      [] kind = "strings" -> ofStrings
      [] kind = "ints" -> Array("pInts")
      [] kind = "callForward" -> Text("number", 0)
      [] kind = "iccApdu" -> Text("data", 0)
      [] kind = "dial" -> ofDial
      [] kind = "iccIO" -> ofIccIO
      [] kind = "writeSms" -> ofWriteSms
      [] kind = "attachApn" -> ofAttachApn
      [] kind = "attachApn15" -> ofAttachApn15
      [] kind = "imsGsmSms" -> ofImsGsmSms
      [] kind = "imsCdmaSms" -> Check
      [] kind = "nvWriteItem" -> Text("value", 0)
      [] kind = "simAuth" -> ofSimAuth
      [] kind = "dataProfile" -> ofDataProfile
      [] kind = "dataProfile15" -> ofDataProfile15
      [] kind = "carriers" -> ofCarriers
      [] OTHER -> <<>>                  \* "void", "raw" and structures of numbers

Pointers == {Steps[i].p : i \in DOMAIN Steps}

\* The format told to my_enqueue; with FMT_IGNORE the caller frees.
Format ==
    CASE kind = "void" -> "VOID"
      [] kind \in {"string", "strings", "ints", "callForward"} /\ ~proxied -> "IGNORE"
      [] kind = "string" -> "STR"
      [] kind = "strings" -> "STRS"
      [] kind = "ints" -> "INTS"
      [] kind = "callForward" -> "CallFWST"
      [] kind = "iccApdu" -> "IccAPDU"
      [] kind = "iccIO" -> "SIMIO"
      [] kind = "writeSms" -> "WrSMSSIM"
      [] kind = "attachApn" -> "AttchAPN"
      [] kind = "imsGsmSms" -> "ImsSms"
      [] kind = "simAuth" -> "SIMAUTH"
      [] kind = "dataProfile" -> "DATAPROF"
      [] OTHER -> "IGNORE"

-----------------------------------------------------------------------------
(* Freeing.                                                                 *)

\* dataProfilePtrs[i]: the address of a profile, a block for the first one only.
ProfileAddress(i) == <<"dataProfiles", i - 1>>

\* A pointer that is not NULL and points to no block (any more).
Wild(p) == p \notin heap /\ (p \in ptrs \/ p[1] = "dataProfiles")

\* What clearPendingBuffer frees for each format: the strings, not the array they
\* are in; the profiles one by one, not the array of pointers to them.
clearPendingBuffer ==
    CASE Format = "STR" -> {<<"pString", 0>>}
      [] Format = "STRS" -> {<<"pStrings", i>> : i \in 1..count}
      [] Format = "CallFWST" -> {<<"number", 0>>}
      [] Format = "IccAPDU" -> {<<"data", 0>>}
      [] Format = "SIMIO" -> {<<f, 0>> : f \in {"path", "data", "pin2", "aidPtr"}}
      [] Format = "WrSMSSIM" -> {<<"smsc", 0>>, <<"pdu", 0>>}
      [] Format = "AttchAPN" -> {<<f, 0>> : f \in {"apn", "protocol", "username", "password",
                                                   "operatorNumeric"}}
      [] Format = "ImsSms" -> {<<"pStrings", 0>>, <<"pStrings", 1>>, <<"pStrings", 2>>}
      [] Format = "SIMAUTH" -> {<<"authData", 0>>, <<"aid", 0>>}
      [] Format = "DATAPROF" -> {<<f, i>> : f \in ToSet(profileFields), i \in 1..count}
                                \cup {ProfileAddress(i) : i \in 1..count}
      [] OTHER -> {}                    \* FMT_INTS and FMT_RAW

\* What the dispatch function frees itself after my_enqueue.
OwnCleanup == IF Format = "IGNORE" THEN Pointers ELSE {}

\* Mutant: the last string before the one that failed is forgotten.
undo_allButLast == {Steps[j].p : j \in 1..(step - 1)}

\* What is freed when a step fails: what the steps before it have set.
undo == {Steps[j].p : j \in 1..step}

-----------------------------------------------------------------------------
(* The dispatch functions.                                                  *)

Takes(k) == IF k \in {"strings"} THEN 1..MaxStrings
            ELSE IF k \in {"dataProfile", "dataProfile15"} THEN 0..MaxProfiles ELSE {0}

\* addRequestToList gives the request its RequestInfo ...
Begin(k) ==
    /\ phase \in {"idle", "done"} /\ kind' = k /\ count' \in Takes(k)
    /\ proxied' \in IF k \in {"string", "strings", "ints", "callForward"} THEN BOOLEAN ELSE {FALSE}
    /\ step' = 0 /\ ptrs' = {} /\ heap' = {} /\ sent' = FALSE /\ answers' = 0
    /\ phase' = "build"
    /\ UNCHANGED badFree

\* ... or fails: the request is dropped, except that sendDeviceState and
\* setIndicationFilter answer it all the same, through the NULL pointer.
BeginFails(k) ==
    /\ phase \in {"idle", "done"} /\ kind' = k /\ count' = 0 /\ proxied' = FALSE
    /\ step' = 0 /\ ptrs' = {} /\ heap' = {} /\ sent' = FALSE /\ answers' = 0
    /\ phase' = IF k = "deviceState" THEN "crashed" ELSE "idle"
    /\ UNCHANGED badFree

Building == phase = "build" /\ step < Len(Steps)
Now == Steps[step + 1]

\* calloc: a string is copied, an array is made.
Allocate ==
    /\ Building /\ Now.what \in {"string", "array"}
    /\ ptrs' = ptrs \cup {Now.p} /\ heap' = heap \cup {Now.p} /\ step' = step + 1
    /\ UNCHANGED <<kind, count, proxied, badFree, sent, answers, phase>>

\* An empty string stays NULL, a check is passed.
Pass ==
    /\ Building /\ Now.what \in {"string", "check"}
    /\ step' = step + 1
    /\ UNCHANGED <<kind, count, proxied, ptrs, heap, badFree, sent, answers, phase>>

sendErrorResponse == answers' = answers + 1

\* No memory, or an argument that is refused.
StepFails ==
    /\ Building
    /\ sendErrorResponse /\ phase' = "done"
    /\ badFree' = (badFree \/ \E p \in undo : Wild(p)) /\ heap' = heap \ undo
    /\ UNCHANGED <<kind, count, proxied, step, ptrs, sent>>

Refuse ==
    /\ phase = "build" /\ kind \in {"unsupported", "deviceState"}
    /\ sendErrorResponse /\ phase' = "done"
    /\ UNCHANGED <<kind, count, proxied, step, ptrs, heap, badFree, sent>>

\* setInitialAttachApn: empty strings are made of those that are NULL, as far as
\* there is memory, and the operator's number; no check follows.
FillIn ==
    /\ phase = "build" /\ kind = "attachApn" /\ step = Len(Steps)
    /\ \E made \in SUBSET (Pointers \ ptrs) :
          LET new == made \cup {<<"operatorNumeric", 0>>}
          IN ptrs' = ptrs \cup new /\ heap' = heap \cup new
    /\ step' = step + 1
    /\ UNCHANGED <<kind, count, proxied, badFree, sent, answers, phase>>

\* ... without memory for the number strncpy writes through NULL.
FillInFails ==
    /\ phase = "build" /\ kind = "attachApn" /\ step = Len(Steps)
    /\ phase' = "crashed"
    /\ UNCHANGED <<kind, count, proxied, step, ptrs, heap, badFree, sent, answers>>

Ready ==
    /\ phase = "build" /\ kind \notin {"unsupported", "deviceState"}
    /\ step = IF kind = "attachApn" THEN Len(Steps) + 1 ELSE Len(Steps)

\* my_enqueue calls the vendor's onRequest, ...
my_enqueue ==
    /\ Ready /\ sent' = TRUE /\ phase' = "sent"
    /\ UNCHANGED <<kind, count, proxied, step, ptrs, heap, badFree, answers>>

\* ... then clearPendingBuffer and after it the dispatch function free.
CleanUp ==
    /\ phase = "sent" /\ phase' = "done"
    /\ badFree' = \/ badFree
                  \/ \E p \in clearPendingBuffer \cup OwnCleanup : Wild(p)
                  \/ clearPendingBuffer \cap OwnCleanup \cap ptrs # {}
    /\ heap' = heap \ (clearPendingBuffer \cup OwnCleanup)
    /\ UNCHANGED <<kind, count, proxied, step, ptrs, sent, answers>>

Next ==
    \/ \E k \in Kinds : Begin(k) \/ BeginFails(k)
    \/ Allocate \/ Pass \/ StepFails \/ Refuse \/ FillIn \/ FillInFails
    \/ my_enqueue \/ CleanUp

Spec == Init /\ [][Next]_dispatchVars

-----------------------------------------------------------------------------
(* Properties.                                                             *)

TypeOK ==
    /\ kind \in AllKinds /\ count \in 0..(MaxStrings + MaxProfiles) /\ proxied \in BOOLEAN
    /\ step \in 0..(Len(Steps) + 1) /\ heap \subseteq ptrs
    /\ badFree \in BOOLEAN /\ sent \in BOOLEAN /\ answers \in Nat
    /\ phase \in {"idle", "build", "sent", "done", "crashed"}

\* Whatever allocation fails, nothing is freed twice or that is no block: what a
\* dispatch function gives up, what clearPendingBuffer frees and what the function
\* frees after it never overlap.
NoBadFree == ~badFree

\* A request that is over has left nothing in memory but the arrays clearPendingBuffer
\* does not free: those of ints, strings and profile pointers.
OnlyArraysKept ==
    phase = "done" =>
        heap \subseteq {<<"pInts", 0>>, <<"pStrings", 0>>, <<"dataProfilePtrs", 0>>}
                       \cup IF count = 0 THEN {<<"dataProfiles", 0>>} ELSE {}

\* A request that got its RequestInfo is either handed to the vendor or answered
\* with an error, and answered once only, at whatever step it failed.
SentOrRefused == phase = "done" => answers = IF sent THEN 0 ELSE 1

-----------------------------------------------------------------------------
(* The inductive invariant of these properties, where a request has one     *)
(* profile at most.                                                         *)

\* The pointers the steps so far may have set.
Reached(what) == {Steps[j].p : j \in {j \in DOMAIN Steps : j <= step /\ Steps[j].what \in what}}
Filled == IF kind = "attachApn" /\ step > Len(Steps) THEN {<<"operatorNumeric", 0>>} ELSE {}

\* Until something is freed there is a block for each pointer that was set, and
\* an array was allocated if its step was taken.
BlocksSound ==
    /\ phase \in {"build", "sent"} =>
         /\ heap = ptrs
         /\ ptrs \subseteq Reached({"string", "array"}) \cup Filled
         /\ Reached({"array"}) \subseteq ptrs
    /\ phase = "sent" => step >= Len(Steps)

ArgsInv ==
    /\ TypeOK /\ BlocksSound
    /\ phase \in {"build", "sent"} => count \in Takes(kind)
    /\ NoBadFree /\ OnlyArraysKept /\ SentOrRefused
    /\ phase = "build" => ~sent
    /\ phase \in {"build", "sent"} => answers = 0
    /\ phase = "sent" => sent

=============================================================================
