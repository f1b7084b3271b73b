------------------------------ MODULE WifiHal -------------------------------
(***************************************************************************)
(* The commands of the wifi HAL (hal/wifi_hal): a thread of the wifi        *)
(* service calls the API one call at a time, the event thread runs          *)
(* wifi_event_loop and hands the driver's events to the commands.           *)
(*                                                                          *)
(* A command is a counted object.  The reference of its maker goes to the   *)
(* table info->cmd, which is changed without a lock by both threads (an     *)
(* RTT command takes itself out when its results are complete); event_cb,   *)
(* under cb_lock, says who hears which event and holds no reference; the    *)
(* event thread takes one while it runs a handler.  wifi_cleanup stops the  *)
(* event thread over a socket pair and then cancels what the table holds.   *)
(*                                                                          *)
(* A call is a script of steps, each of which touches shared state once.    *)
(* Requests have ids of their own, so that a command stands for its id.     *)
(***************************************************************************)
EXTENDS Integers, Sequences, FiniteSets, SequencesExt

CONSTANTS
    Kinds,          \* the kinds of commands that are used
    MaxCommands,    \* bound: commands made
    AllocCmds,      \* the numbers of entries info->cmd may have
    MaxEvents,      \* bound: events of the driver
    Overlap         \* two threads may be inside info->cmd at the same time

Subs == [scan |-> <<"available", "complete", "full">>, full |-> <<"full">>,
         hotlist |-> <<"found", "lost">>, epno |-> <<"epno">>,
         change |-> <<"change">>, rssi |-> <<"rssi">>, rtt |-> <<"rtt">>,
         anqpo |-> <<"match">>]

ASSUME WifiAssumption ==
    /\ Kinds \subseteq DOMAIN Subs
    /\ MaxCommands \in Nat /\ AllocCmds \subseteq Nat \ {0} /\ MaxEvents \in Nat
    /\ Overlap \in BOOLEAN

Commands == 1..MaxCommands
None == 0
Threads == {"api", "loop"}

VARIABLES
    hal,            \* "down", "up" or "cleaning"
    todo,           \* what the API call still has to do
    cur,            \* the command the API call is about, or None
    made, kind, refs,   \* the commands: how many, of which kind, mRefs
    active,         \* commands the caller has started and not seen ended
    cmd, num_cmd,   \* the table of commands and its length
    seen,           \* thread -> num_cmd as it read it, -1 outside the table
    event_cb,       \* the handlers [sub, cmd]
    cb_lock,        \* its holder between two steps, or "free"
    bad_commands,   \* how far wifi_cleanup is
    socks,          \* what is in the cleanup sockets
    loop, lcmd,     \* where the event thread is, and the command it runs
    ldone,          \* the event it handles completes an RTT
    events, sent,   \* events of the driver: waiting, and how many ever
    told            \* command -> how often it reported its RTT results

callVars == <<hal, cur, made, kind>>
tableVars == <<cmd, num_cmd, seen>>
loopVars == <<loop, lcmd, ldone>>
driverVars == <<events, sent>>
vars == <<callVars, todo, refs, active, tableVars, event_cb, cb_lock,
          bad_commands, socks, loopVars, driverVars, told>>

Init ==
    /\ hal = "down" /\ todo = <<>> /\ cur = None
    /\ made = 0 /\ kind = [c \in Commands |-> "none"]
    /\ refs = [c \in Commands |-> 0]
    /\ active = {}
    /\ \E n \in AllocCmds : cmd = [i \in 1..n |-> None]
    /\ num_cmd = 0
    /\ seen = [t \in Threads |-> -1]
    /\ event_cb = <<>> /\ cb_lock = "free" /\ bad_commands = 0
    /\ socks = "empty"
    /\ loop = "none" /\ lcmd = None /\ ldone = FALSE
    /\ events = <<>> /\ sent = 0
    /\ told = [c \in Commands |-> 0]

-----------------------------------------------------------------------------
(* The scripts of the calls.                                               *)

Op(o) == [op |-> o, sub |-> "-"]
Request == <<Op("request")>>        \* its failure ends start()
StopRequest == <<Op("stop")>>       \* its failure changes nothing
Each(o, k) == [i \in DOMAIN Subs[k] |-> [op |-> o, sub |-> Subs[k][i]]]
Register(k) == Each("register", k)
Unregister(k) == Each("unregister", k)

\* start(): scans, hotlists and the like have their handlers before the last
\* request, RTT, RSSI and ePNO after the only one.
start(k) ==
    CASE k = "scan"                    -> Request \o Request \o Register(k) \o Request
      [] k \in {"full", "anqpo"}       -> Register(k) \o Request
      [] k \in {"hotlist", "change"}   -> Request \o Register(k) \o Request
      [] k \in {"epno", "rssi", "rtt"} -> Request \o Register(k)

\* Mutant: a failed start keeps its handlers.
undo_nothing(k, rest) == <<>>

\* What a failed request of start() takes back, rest being what would follow.
undo(k, rest) ==
    IF rest = <<>> \/ k \in {"hotlist", "epno"} THEN Unregister(k) ELSE <<>>

\* Mutant: a cancelled command keeps its handlers.
cancel_keeps(k) == StopRequest

cancel(k) ==
    IF k \in {"hotlist", "epno", "change"} THEN Unregister(k) \o StopRequest
                                           ELSE StopRequest \o Unregister(k)

-----------------------------------------------------------------------------
(* The table of commands.                                                  *)

alloc_cmd == Len(cmd)
MayEnter(t) == seen[t] = -1 /\ (Overlap \/ \A u \in Threads : seen[u] = -1)

\* The first half of wifi_register_cmd: the entry after the last one.
Enter(t, c) ==
    /\ cmd' = [cmd EXCEPT ![num_cmd + 1] = c]
    /\ seen' = [seen EXCEPT ![t] = num_cmd]
    /\ UNCHANGED num_cmd

Position(c) == {i \in 1..num_cmd : cmd[i] = c}

\* The first half of wifi_unregister_cmd: the memmove over the first entry.
Withdraw(t, c) ==
    LET i == CHOOSE j \in Position(c) : \A l \in Position(c) : j <= l IN
    /\ cmd' = [j \in DOMAIN cmd |->
                 IF j \in i..(num_cmd - 1) THEN cmd[j + 1] ELSE cmd[j]]
    /\ seen' = [seen EXCEPT ![t] = num_cmd]
    /\ UNCHANGED num_cmd

\* The second half of both: num_cmd++ or num_cmd--, with the value read
\* before or with the one there is now.
Count(t, d) ==
    /\ num_cmd' \in {seen[t] + d, num_cmd + d}
    /\ seen' = [seen EXCEPT ![t] = -1]
    /\ UNCHANGED cmd

-----------------------------------------------------------------------------
(* The handlers.                                                           *)

HandlersOf(s) == {i \in DOMAIN event_cb : event_cb[i].sub = s}
First(S) == CHOOSE i \in S : \A j \in S : i <= j

wifi_register_vendor_handler(s, c) ==
    /\ cb_lock = "free"
    /\ event_cb' = Append(event_cb, [sub |-> s, cmd |-> c])

\* The first handler of the event, whoever's it is.
wifi_unregister_vendor_handler(s) ==
    /\ cb_lock = "free"
    /\ event_cb' = IF HandlersOf(s) = {} THEN event_cb
                   ELSE RemoveAt(event_cb, First(HandlersOf(s)))

releaseRef(c) == refs' = [refs EXCEPT ![c] = @ - 1]

-----------------------------------------------------------------------------
(* The thread that calls the API.                                          *)

Idle == hal = "up" /\ todo = <<>>

wifi_initialize ==
    /\ hal = "down" /\ hal' = "up"
    /\ cmd' = [i \in DOMAIN cmd |-> None] /\ num_cmd' = 0
    /\ loop' = "none" /\ socks' = "empty"
    /\ events' = <<>>
    /\ UNCHANGED <<todo, cur, made, kind, refs, active, seen, event_cb, cb_lock,
                   bad_commands, lcmd, ldone, sent, told>>

\* The caller has at most one command at a time that hears an event.
MayStart(k) ==
    \A c \in active : Range(Subs[kind[c]]) \cap Range(Subs[k]) = {}

\* wifi_start_gscan, wifi_rtt_range_request and the others that make a command.
Start(k) ==
    /\ Idle /\ made < MaxCommands /\ MayStart(k)
    /\ made' = made + 1 /\ cur' = made + 1
    /\ kind' = [kind EXCEPT ![made + 1] = k]
    /\ refs' = [refs EXCEPT ![made + 1] = 1]
    /\ todo' = <<Op("save"), Op("saved")>> \o start(k) \o <<Op("started")>>
    /\ UNCHANGED <<hal, active, tableVars, event_cb, cb_lock, bad_commands,
                   socks, loopVars, driverVars, told>>

\* wifi_cancel_cmd, of a command that is in the table or not any more.
wifi_cancel_cmd(c) ==
    /\ Idle /\ c \in 1..made /\ kind[c] # "rtt"
    /\ cur' = c
    /\ todo' = IF Position(c) # {} THEN <<Op("take"), Op("taken")>> \o cancel(kind[c])
                                          \o <<Op("ended"), Op("release")>>
                                   ELSE <<>>
    /\ UNCHANGED <<hal, made, kind, refs, active, tableVars, event_cb, cb_lock,
                   bad_commands, socks, loopVars, driverVars, told>>

\* wifi_rtt_range_cancel, and the stop of everything of a kind (id -1) that is
\* used while nobody hears its events: a command of its own, in no table.
CancelAnonymous(k) ==
    /\ Idle /\ k \in {"rtt", "scan", "epno", "rssi"}
    /\ k = "rtt" \/ MayStart(k)
    /\ cur' = None
    /\ todo' = cancel(k) \o IF k = "rtt" THEN <<Op("forget")>> ELSE <<>>
    /\ UNCHANGED <<hal, made, kind, refs, active, tableVars, event_cb, cb_lock,
                   bad_commands, socks, loopVars, driverVars, told>>

\* wifi_cleanup asks the event thread to leave ...
wifi_cleanup ==
    /\ Idle /\ hal' = "cleaning"
    /\ socks' = "Exit"
    /\ bad_commands' = 0
    /\ todo' = <<Op("wait"), Op("sweep")>>
    /\ UNCHANGED <<cur, made, kind, refs, active, tableVars, event_cb, cb_lock,
                   loopVars, driverVars, told>>

Doing(o) == todo # <<>> /\ Head(todo).op = o

\* Mutant: the start fails and the command stays in the table.
Fail_keepsEntry(rest) == <<Op("release")>>

\* What a start that failed does in the end.
Fail(rest) == <<Op("take"), Op("taken"), Op("release")>>

\* Mutant: the table takes one command too many.
Save_pastTheEnd ==
    /\ Doing("save") /\ MayEnter("api")
    /\ IF num_cmd <= alloc_cmd
         THEN Enter("api", cur) /\ todo' = Tail(todo)
         ELSE UNCHANGED tableVars /\ todo' = <<Op("release")>>
    /\ UNCHANGED <<callVars, refs, active, event_cb, cb_lock, bad_commands, socks,
                   loopVars, driverVars, told>>

Save ==
    /\ Doing("save") /\ MayEnter("api")
    /\ IF num_cmd < alloc_cmd
         THEN Enter("api", cur) /\ todo' = Tail(todo)
         ELSE UNCHANGED tableVars /\ todo' = <<Op("release")>>
    /\ UNCHANGED <<callVars, refs, active, event_cb, cb_lock, bad_commands, socks,
                   loopVars, driverVars, told>>

Counted ==
    /\ \/ Doing("saved") /\ Count("api", 1)
       \/ Doing("taken") /\ Count("api", -1)
    /\ todo' = Tail(todo)
    /\ UNCHANGED <<callVars, refs, active, event_cb, cb_lock, bad_commands, socks,
                   loopVars, driverVars, told>>

Take ==
    /\ Doing("take") /\ MayEnter("api")
    /\ IF Position(cur) # {}
         THEN Withdraw("api", cur) /\ todo' = Tail(todo)
         ELSE UNCHANGED tableVars /\ todo' = Tail(Tail(todo))
    /\ UNCHANGED <<callVars, refs, active, event_cb, cb_lock, bad_commands, socks,
                   loopVars, driverVars, told>>

\* requestResponse: the driver answers, and a failure ends start().
requestResponse ==
    /\ \/ Doing("stop") /\ todo' = Tail(todo)
       \/ /\ Doing("request")
          /\ \/ todo' = Tail(todo)
             \/ LET rest == Front(Tail(todo))      \* all but Op("started")
                IN todo' = undo(kind[cur], rest) \o Fail(rest)
    /\ UNCHANGED <<callVars, refs, active, tableVars, event_cb, cb_lock,
                   bad_commands, socks, loopVars, driverVars, told>>

Handlers ==
    /\ \/ Doing("register") /\ wifi_register_vendor_handler(Head(todo).sub, cur)
       \/ Doing("unregister") /\ wifi_unregister_vendor_handler(Head(todo).sub)
    /\ todo' = Tail(todo)
    /\ UNCHANGED <<callVars, refs, active, tableVars, cb_lock, bad_commands, socks,
                   loopVars, driverVars, told>>

\* What the caller knows after the call.
Returned ==
    /\ \/ /\ Doing("started")
          /\ active' = IF told[cur] = 0 THEN active \cup {cur} ELSE active
       \/ Doing("ended") /\ active' = active \ {cur}
       \/ Doing("forget") /\ active' = {c \in active : kind[c] # "rtt"}
    /\ todo' = Tail(todo)
    /\ UNCHANGED <<callVars, refs, tableVars, event_cb, cb_lock, bad_commands, socks,
                   loopVars, driverVars, told>>

Release ==
    /\ Doing("release")
    /\ releaseRef(cur)
    /\ todo' = Tail(todo)
    /\ UNCHANGED <<callVars, active, tableVars, event_cb, cb_lock, bad_commands, socks,
                   loopVars, driverVars, told>>

\* Mutant: cleanup does not wait for the event thread.
WaitDone_not ==
    /\ Doing("wait")
    /\ todo' = Tail(todo)
    /\ cb_lock = "free" /\ cb_lock' = "api"
    /\ UNCHANGED <<callVars, refs, active, tableVars, event_cb, bad_commands, socks,
                   loopVars, driverVars, told>>

\* ... waits for "Done" and takes cb_lock ...
WaitDone ==
    /\ Doing("wait") /\ socks = "Done" /\ socks' = "empty"
    /\ todo' = Tail(todo)
    /\ cb_lock = "free" /\ cb_lock' = "api"
    /\ UNCHANGED <<callVars, refs, active, tableVars, event_cb, bad_commands,
                   loopVars, driverVars, told>>

\* Mutant: cb_lock is kept while a command is cancelled.
Sweep_locked ==
    /\ Doing("sweep") /\ bad_commands < num_cmd
    /\ cur' = cmd[bad_commands + 1]
    /\ todo' = cancel(kind[cur']) \o <<Op("swept")>> \o todo
    /\ UNCHANGED <<hal, made, kind, refs, active, tableVars, event_cb, cb_lock,
                   bad_commands, socks, loopVars, driverVars, told>>

\* ... cancels the next command of the table without the lock ...
Sweep ==
    /\ Doing("sweep") /\ bad_commands < num_cmd
    /\ cur' = cmd[bad_commands + 1]
    /\ todo' = cancel(kind[cur']) \o <<Op("swept")>> \o todo
    /\ cb_lock' = "free"
    /\ UNCHANGED <<hal, made, kind, refs, active, tableVars, event_cb,
                   bad_commands, socks, loopVars, driverVars, told>>

\* ... and releases it.  No cancel() takes its command out of the table, so
\* that every command counts as a bad one.
Swept ==
    /\ Doing("swept")
    /\ cb_lock = "free" /\ cb_lock' = "api"
    /\ bad_commands' = bad_commands + 1
    /\ releaseRef(cur)
    /\ todo' = Tail(todo)
    /\ UNCHANGED <<callVars, active, tableVars, event_cb, socks, loopVars,
                   driverVars, told>>

\* internal_cleaned_up_handler: hal_info is gone.
CleanedUp ==
    /\ Doing("sweep") /\ bad_commands = num_cmd
    /\ hal' = "down" /\ todo' = <<>> /\ cur' = None
    /\ num_cmd' = 0 /\ event_cb' = <<>> /\ cb_lock' = "free"
    /\ active' = {}
    /\ UNCHANGED <<made, kind, refs, cmd, seen, bad_commands, socks, loopVars,
                   driverVars, told>>

-----------------------------------------------------------------------------
(* The event thread.                                                       *)

wifi_event_loop ==
    /\ hal # "down" /\ loop = "none" /\ loop' = "poll"
    /\ UNCHANGED <<callVars, todo, refs, active, tableVars, event_cb, cb_lock,
                   bad_commands, socks, lcmd, ldone, driverVars, told>>

\* The first handler of the event runs, with a reference and without the lock.
internal_valid_message_handler ==
    LET e == Head(events) IN
    /\ loop = "poll" /\ events # <<>> /\ events' = Tail(events)
    /\ cb_lock = "free"
    /\ IF HandlersOf(e.sub) = {}
         THEN UNCHANGED <<refs, loopVars>>
         ELSE /\ lcmd' = event_cb[First(HandlersOf(e.sub))].cmd
              /\ ldone' = e.done
              /\ loop' = "handle"
              /\ refs' = [refs EXCEPT ![lcmd'] = @ + 1]
    /\ UNCHANGED <<callVars, todo, active, tableVars, event_cb, cb_lock,
                   bad_commands, socks, sent, told>>

\* handleEvent tells the caller; the last event of an RTT first takes the
\* handler of that event away.
handleEvent ==
    /\ loop = "handle"
    /\ IF kind[lcmd] = "rtt" /\ ldone
         THEN wifi_unregister_vendor_handler("rtt") /\ loop' = "report"
         ELSE UNCHANGED event_cb /\ loop' = "release"
    /\ UNCHANGED <<callVars, todo, refs, active, tableVars, cb_lock, bad_commands,
                   socks, lcmd, ldone, driverVars, told>>

on_rtt_results ==
    /\ loop = "report" /\ loop' = "take"
    /\ told' = [told EXCEPT ![lcmd] = @ + 1]
    /\ active' = active \ {lcmd}
    /\ UNCHANGED <<callVars, todo, refs, tableVars, event_cb, cb_lock, bad_commands,
                   socks, lcmd, ldone, driverVars>>

\* wifi_unregister_cmd(wifiHandle(), id()), and the reference of the table.
LoopTake ==
    /\ \/ /\ loop = "take" /\ MayEnter("loop")
          /\ IF Position(lcmd) # {}
               THEN Withdraw("loop", lcmd) /\ loop' = "taken"
               ELSE UNCHANGED tableVars /\ loop' = "release"
          /\ UNCHANGED refs
       \/ /\ loop = "taken" /\ loop' = "release"
          /\ Count("loop", -1)
          /\ releaseRef(lcmd)
    /\ UNCHANGED <<callVars, todo, active, event_cb, cb_lock, bad_commands, socks,
                   lcmd, ldone, driverVars, told>>

LoopRelease ==
    /\ loop = "release" /\ loop' = "poll"
    /\ releaseRef(lcmd) /\ lcmd' = None /\ ldone' = FALSE
    /\ UNCHANGED <<callVars, todo, active, tableVars, event_cb, cb_lock,
                   bad_commands, socks, driverVars, told>>

\* Only when no event waits does the loop look at the cleanup socket.
LoopExit ==
    /\ loop = "poll" /\ events = <<>>
    /\ socks = "Exit" /\ socks' = "Done"
    /\ loop' = "exited"
    /\ UNCHANGED <<callVars, todo, refs, active, tableVars, event_cb, cb_lock,
                   bad_commands, lcmd, ldone, driverVars, told>>

\* The driver sends an event of a feature that was asked for at some time.
DriverEvent(s, d) ==
    /\ hal # "down" /\ sent < MaxEvents /\ sent' = sent + 1
    /\ \E c \in 1..made : s \in Range(Subs[kind[c]])
    /\ d => s = "rtt"
    /\ events' = Append(events, [sub |-> s, done |-> d])
    /\ UNCHANGED <<callVars, todo, refs, active, tableVars, event_cb, cb_lock,
                   bad_commands, socks, loopVars, told>>

AllSubs == UNION {Range(Subs[k]) : k \in Kinds}

ApiStep ==
    \/ Save \/ Counted \/ Take \/ requestResponse \/ Handlers \/ Returned
    \/ Release \/ WaitDone \/ Sweep \/ Swept \/ CleanedUp

LoopStep ==
    \/ wifi_event_loop \/ internal_valid_message_handler \/ handleEvent
    \/ on_rtt_results \/ LoopTake \/ LoopRelease \/ LoopExit

Next ==
    \/ wifi_initialize \/ wifi_cleanup
    \/ \E k \in Kinds : Start(k) \/ CancelAnonymous(k)
    \/ \E c \in Commands : wifi_cancel_cmd(c)
    \/ ApiStep \/ LoopStep
    \/ \E s \in AllSubs, d \in BOOLEAN : DriverEvent(s, d)

Spec == Init /\ [][Next]_vars

\* Both threads run and the driver answers; nobody has to call anything.
FairSpec == Spec /\ WF_vars(ApiStep) /\ WF_vars(LoopStep)

-----------------------------------------------------------------------------
(* Properties.                                                             *)

\* The variables have their types; no reference count goes below zero and
\* the table never counts more entries than it has.
TypeOK ==
    /\ hal \in {"down", "up", "cleaning"}
    /\ cur \in 0..MaxCommands /\ made \in 0..MaxCommands
    /\ kind \in [Commands -> Kinds \cup {"none"}]
    /\ refs \in [Commands -> 0..3] /\ active \subseteq Commands
    /\ cmd \in [1..alloc_cmd -> 0..MaxCommands] /\ num_cmd \in 0..alloc_cmd
    /\ seen \in [Threads -> -1..alloc_cmd]
    /\ \A i \in DOMAIN event_cb : event_cb[i] \in [sub : AllSubs, cmd : Commands]
    /\ cb_lock \in {"free", "api"} /\ bad_commands \in 0..alloc_cmd
    /\ socks \in {"empty", "Exit", "Done"}
    /\ loop \in {"none", "poll", "handle", "report", "take", "taken", "release", "exited"}
    /\ lcmd \in 0..MaxCommands /\ ldone \in BOOLEAN
    /\ sent \in 0..MaxEvents
    /\ told \in [Commands -> Nat]

\* While the HAL is up, every entry of the table is a different command that
\* still has the reference it was saved with, except the one a thread is
\* about to take out.
SavedIsAlive ==
    (hal = "up" /\ \A t \in Threads : seen[t] = -1) =>
      \A i \in 1..num_cmd :
         /\ cmd[i] # None /\ refs[cmd[i]] > 0
         /\ \A j \in 1..num_cmd : cmd[i] = cmd[j] => i = j

\* A handler the event thread may still call, and the command it is running,
\* have not been freed: handlers hold no reference, so this rests on every
\* path taking them away before the last reference goes.
HandlersAlive ==
    /\ loop # "exited" => \A i \in DOMAIN event_cb : refs[event_cb[i].cmd] > 0
    /\ lcmd # None => refs[lcmd] > 0

\* Between two calls, every command the caller has running hears each of its
\* events through one handler (an RTT may have lost its own to the end of an
\* earlier one), and there are no other handlers.
ActiveHears ==
    Idle =>
      /\ \A i \in DOMAIN event_cb : event_cb[i].cmd \in active \cup {lcmd}
      /\ \A c \in active : kind[c] # "rtt" =>
           \A s \in Range(Subs[kind[c]]) :
              Cardinality({i \in DOMAIN event_cb : event_cb[i] = [sub |-> s, cmd |-> c]}) = 1

\* The results of an RTT are reported at most once, although the event thread
\* removes handlers by event and not by command.
ResultsOnce == \A c \in Commands : told[c] <= 1

\* What the driver tells reaches the command it is for, and no command twice
\* (wifi_register_vendor_handler, internal_valid_message_handler).
EventsHeard == ActiveHears /\ ResultsOnce

\* When cleanup has ended, every command ever made has been freed: the sweep
\* misses none and the event thread keeps none.
CleanupFrees == hal = "down" => \A c \in Commands : refs[c] = 0

\* wifi_cleanup returns: the event thread leaves when the events are handled,
\* and cancel() never waits for the lock its caller holds.
CleanupEnds == (hal = "cleaning") ~> (hal = "down")

-----------------------------------------------------------------------------
(* The inductive invariant of the safety properties, where two threads are  *)
(* not inside the table at the same time.                                   *)

\* The steps a script may still have after each of its steps.
Follow ==
    [save |-> {"saved", "request", "register", "started"},
     saved |-> {"request", "register", "started"},
     request |-> {"request", "register", "started"},
     register |-> {"request", "register", "started"},
     started |-> {},
     take |-> {"taken", "unregister", "stop", "ended", "release"},
     taken |-> {"unregister", "stop", "ended", "release"},
     unregister |-> {"unregister", "stop", "take", "taken", "ended", "release", "forget",
                     "swept", "sweep"},
     stop |-> {"unregister", "ended", "release", "forget", "swept", "sweep"},
     ended |-> {"release"}, release |-> {}, forget |-> {},
     wait |-> {"sweep"}, swept |-> {"sweep"}, sweep |-> {}]

Has(q, o) == \E i \in DOMAIN q : q[i].op = o
HasFor(q, o, s) == \E i \in DOMAIN q : q[i].op = o /\ q[i].sub = s
Hears(k) == Range(Subs[k])

\* The order of the steps of q, a script or what is left of it.
Ordered(q) ==
    /\ \A i \in DOMAIN q : q[i].op \in DOMAIN Follow
    /\ \A i, j \in DOMAIN q : i < j => q[j].op \in Follow[q[i].op]
    /\ \A i \in DOMAIN q : q[i].op \in {"save", "take"} =>
         i + 1 \in DOMAIN q /\ q[i + 1].op = IF q[i].op = "save" THEN "saved" ELSE "taken"
    /\ \A i \in DOMAIN q : q[i].op = "taken" /\ i > 1 => q[i - 1].op = "take"

\* The start of a command of kind k registers each handler once, after the
\* requests that may fail while it has none.
Starts(q, k) ==
    /\ \A i \in DOMAIN q : q[i].op = "register" => q[i].sub \in Hears(k)
    /\ \A i, j \in DOMAIN q :
         i < j /\ q[i].op = "register" =>
           /\ q[j].op = "register" => q[j].sub # q[i].sub
           /\ k = "rtt" => q[j].op = "started"
    /\ \A i \in DOMAIN q : q[i].op = "request" /\ i + 1 < Len(q) =>
         \A s \in Hears(k) : \E j \in DOMAIN q :
           i < j /\ q[j].op = "register" /\ q[j].sub = s

ScriptSound ==
    /\ Ordered(todo)
    /\ Has(todo, "started") => Starts(todo, kind[cur])
    /\ \A o \in {"save", "saved", "request", "register"} :
         Has(todo, o) => Has(todo, "started")
    /\ \A o \in {"take", "taken", "ended"} : Has(todo, o) => Has(todo, "release")
    /\ Has(todo, "started") \/ Has(todo, "release") => cur # None
    /\ Has(todo, "forget") => cur = None
    /\ hal = "down" => todo = <<>>
    /\ hal = "up" => \A o \in {"wait", "sweep", "swept"} : ~Has(todo, o)
    /\ hal = "cleaning" => Has(todo, "sweep")

\* The entries that hold the reference of their command.
Inside == todo # <<>> /\ Head(todo).op \in {"saved", "taken"}
Size == IF Doing("saved") THEN num_cmd + 1
        ELSE IF Doing("taken") \/ loop = "taken" THEN num_cmd - 1 ELSE num_cmd
Freed == IF hal = "cleaning" THEN bad_commands ELSE 0
Saved == {cmd[i] : i \in Freed + 1 .. Size}

TableSound ==
    /\ num_cmd \in 0..alloc_cmd /\ Size \in 0..alloc_cmd
    /\ \A t \in Threads : seen[t] # -1 => seen[t] = num_cmd
    /\ seen["api"] # -1 <=> Inside
    /\ seen["loop"] # -1 <=> loop = "taken"
    /\ ~(Inside /\ loop = "taken")
    /\ \A i \in 1..Size : cmd[i] \in 1..made
    /\ \A i, j \in 1..Size : cmd[i] = cmd[j] => i = j
    /\ loop = "taken" => cmd[num_cmd] \in Saved \cup {lcmd}
    /\ hal = "down" => num_cmd = 0

\* A command has a reference in the table, one of the event thread while that
\* runs it, and one of the call that makes it or has taken it out.
Owns(c) == c = cur /\ (Has(todo, "save") \/ (Has(todo, "release") /\ ~Has(todo, "take")))
Ref(held) == IF held THEN 1 ELSE 0
RefsSound ==
    \A c \in Commands :
      refs[c] = Ref(c \in Saved) + Ref(c = lcmd) + Ref(c = lcmd /\ loop = "taken") + Ref(Owns(c))

\* The event thread and its command; an RTT it runs is in the table until the
\* thread takes it out, and has no handler once its results are complete.
Heard == {event_cb[i] : i \in DOMAIN event_cb}
Reported(c) == told[c] > 0 \/ (c = lcmd /\ loop \in {"report", "take"})
LoopSound ==
    /\ lcmd # None <=> loop \in {"handle", "report", "take", "taken", "release"}
    /\ lcmd \in 0..made
    /\ loop \in {"report", "take", "taken"} => kind[lcmd] = "rtt"
    /\ loop \in {"handle", "report", "take"} /\ kind[lcmd] = "rtt" => lcmd \in Saved
    /\ loop \in {"handle", "report"} => told[lcmd] = 0
    /\ \A c \in Commands : told[c] <= 1
    /\ \A c \in Commands : Reported(c) =>
         /\ c \in 1..made /\ kind[c] = "rtt"
         /\ \A h \in Heard : h.cmd # c
         /\ c = cur => ~Has(todo, "register")

\* The handlers: one for each event, of a command that is in use or about to
\* lose it.
HandlersSound ==
    \A h \in Heard :
      /\ h.sub \in Hears(kind[h.cmd])
      /\ \/ h.cmd \in active
         \/ h.cmd = cur /\ (Has(todo, "started") \/ HasFor(todo, "unregister", h.sub))
      /\ h.cmd = cur /\ Has(todo, "ended") => HasFor(todo, "unregister", h.sub)
      /\ Has(todo, "forget") /\ h.sub = "rtt" => HasFor(todo, "unregister", h.sub)
      /\ \/ h.cmd \in Saved
         \/ h.cmd = cur /\ Has(todo, "release") /\ HasFor(todo, "unregister", h.sub)

\* The commands the caller has running.
ActiveSound ==
    /\ active \subseteq 1..made
    /\ \A c, d \in active : c # d => Hears(kind[c]) \cap Hears(kind[d]) = {}
    /\ \A c \in active : kind[c] # "rtt" => \A s \in Hears(kind[c]) :
         [sub |-> s, cmd |-> c] \in Heard \/ (c = cur /\ Has(todo, "ended"))
    /\ \A c \in Saved : kind[c] # "rtt" =>
         c \in active \/ (c = cur /\ (Has(todo, "started") \/ Has(todo, "take")))
    /\ \A c \in active, s \in AllSubs :
         HasFor(todo, "unregister", s) =>
           (c = cur /\ Has(todo, "ended")) \/ kind[c] = "rtt" \/ s \notin Hears(kind[c])

\* The command the call is about.
CallSound ==
    /\ Has(todo, "started") =>
         /\ cur \notin active
         /\ \A c \in active : Hears(kind[c]) \cap Hears(kind[cur]) = {}
         /\ \A s \in Hears(kind[cur]) :
              \/ HasFor(todo, "register", s) /\ \A h \in Heard : h.sub # s
              \/ ~HasFor(todo, "register", s)
                   /\ (kind[cur] = "rtt" \/ [sub |-> s, cmd |-> cur] \in Heard)
         /\ Has(todo, "request") \/ Has(todo, "register") => Has(todo, "save") \/ cur \in Saved
    /\ Has(todo, "take") => cur \in Saved
    /\ Owns(cur) => cur \notin Saved
    /\ Has(todo, "release") => (cur \in active <=> Has(todo, "ended"))
    /\ Has(todo, "ended") => kind[cur] # "rtt"
    /\ cur # None /\ kind[cur] = "rtt"
         /\ (\E o \in {"save", "request", "register", "release"} : Has(todo, o)) =>
           lcmd # cur /\ \A h \in Heard : h.cmd # cur

\* Cleanup waits for the event thread and then sweeps the table.
CleanupSound ==
    /\ hal = "down" => /\ loop \in {"none", "exited"} /\ active = {} /\ event_cb = <<>>
    /\ hal = "up" => loop # "exited" /\ socks = "empty"
    /\ socks = "Done" => loop = "exited"
    /\ hal = "cleaning" =>
         /\ bad_commands <= num_cmd
         /\ Has(todo, "wait") => bad_commands = 0 /\ Len(todo) = 2
         /\ loop # "exited" => Has(todo, "wait")
         /\ Has(todo, "swept") =>
              bad_commands < num_cmd /\ cur = cmd[bad_commands + 1]

Types ==
    /\ TypeOK
    /\ cur \in 0..made /\ cmd \in Seq(0..MaxCommands)
    /\ \A c \in 1..made : kind[c] \in Kinds
    /\ todo \in Seq([op : DOMAIN Follow, sub : AllSubs \cup {"-"}])
    /\ event_cb \in Seq([sub : AllSubs, cmd : 1..made])
    /\ \A i, j \in DOMAIN event_cb : event_cb[i].sub = event_cb[j].sub => i = j
    /\ events \in Seq([sub : AllSubs, done : BOOLEAN])

WifiInv ==
    /\ Types /\ ScriptSound /\ TableSound /\ RefsSound /\ LoopSound /\ CleanupSound
    /\ loop # "exited" => HandlersSound /\ ActiveSound /\ CallSound

=============================================================================
