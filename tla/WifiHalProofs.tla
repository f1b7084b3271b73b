---------------------------- MODULE WifiHalProofs ----------------------------
(***************************************************************************)
(* Proofs about the commands of the wifi HAL, for any number of commands,   *)
(* entries and events, where two threads are not inside the table at once.  *)
(***************************************************************************)
EXTENDS WifiHal, SequenceTheorems, FiniteSetTheorems, TLAPS

\* A step of a script.
Ops == DOMAIN Follow
Steps == [op : Ops, sub : AllSubs \cup {"-"}]

-----------------------------------------------------------------------------
(* Scripts.                                                                *)

\* The steps that may follow each step.
LEMMA FollowFacts ==
    /\ Ops = {"save", "saved", "request", "register", "started", "take", "taken", "unregister",
              "stop", "ended", "release", "forget", "wait", "swept", "sweep"}
    /\ Follow["save"] = {"saved", "request", "register", "started"}
    /\ Follow["saved"] = {"request", "register", "started"}
    /\ Follow["request"] = {"request", "register", "started"}
    /\ Follow["register"] = {"request", "register", "started"}
    /\ Follow["started"] = {}
    /\ Follow["take"] = {"taken", "unregister", "stop", "ended", "release"}
    /\ Follow["taken"] = {"unregister", "stop", "ended", "release"}
    /\ Follow["unregister"] = {"unregister", "stop", "take", "taken", "ended", "release",
                               "forget", "swept", "sweep"}
    /\ Follow["stop"] = {"unregister", "ended", "release", "forget", "swept", "sweep"}
    /\ Follow["ended"] = {"release"} /\ Follow["release"] = {} /\ Follow["forget"] = {}
    /\ Follow["wait"] = {"sweep"} /\ Follow["swept"] = {"sweep"} /\ Follow["sweep"] = {}
BY DEF Ops, Follow

\* What is left of a script after its first step.
LEMMA TailFacts ==
    ASSUME NEW S, NEW q \in Seq(S), q # <<>>
    PROVE  /\ Len(q) \in Nat \ {0} /\ DOMAIN q = 1 .. Len(q) /\ Head(q) = q[1] /\ Head(q) \in S
           /\ Tail(q) \in Seq(S) /\ Len(Tail(q)) = Len(q) - 1 /\ DOMAIN Tail(q) = 1 .. Len(q) - 1
           /\ \A i \in 1 .. Len(q) - 1 : Tail(q)[i] = q[i + 1]
           /\ \A i \in 2 .. Len(q) : i - 1 \in DOMAIN Tail(q) /\ Tail(q)[i - 1] = q[i]
<1>1. /\ Len(q) \in Nat \ {0} /\ DOMAIN q = 1 .. Len(q) /\ Head(q) = q[1] /\ Head(q) \in S
      /\ Tail(q) \in Seq(S) /\ Len(Tail(q)) = Len(q) - 1 /\ DOMAIN Tail(q) = 1 .. Len(q) - 1
  OBVIOUS
<1>2. \A i \in 1 .. Len(q) - 1 : Tail(q)[i] = q[i + 1]
  BY <1>1
<1>3. \A i \in 2 .. Len(q) : i - 1 \in 1 .. Len(q) - 1 /\ (i - 1) + 1 = i
  BY <1>1
<1> QED
  BY <1>1, <1>2, <1>3

\* The steps of a script are its first one and those of the rest.
LEMMA TailHas ==
    ASSUME NEW q \in Seq(Steps), q # <<>>
    PROVE  /\ \A o : Has(q, o) <=> Head(q).op = o \/ Has(Tail(q), o)
           /\ \A o, s : HasFor(q, o, s) <=>
                          (Head(q).op = o /\ Head(q).sub = s) \/ HasFor(Tail(q), o, s)
<1>1. /\ DOMAIN q = 1 .. Len(q) /\ Head(q) = q[1] /\ Len(q) \in Nat \ {0}
      /\ DOMAIN Tail(q) = 1 .. Len(q) - 1
      /\ \A i \in 1 .. Len(q) - 1 : Tail(q)[i] = q[i + 1]
      /\ \A i \in 2 .. Len(q) : i - 1 \in DOMAIN Tail(q) /\ Tail(q)[i - 1] = q[i]
  BY TailFacts
<1>2. /\ \A i \in DOMAIN q : i = 1 \/ i \in 2 .. Len(q)
      /\ \A i \in 1 .. Len(q) - 1 : i + 1 \in DOMAIN q
      /\ 1 \in DOMAIN q
  BY <1>1
<1>3. \A o : Has(q, o) <=> Head(q).op = o \/ Has(Tail(q), o)
  BY <1>1, <1>2 DEF Has
<1>4. ASSUME NEW o, NEW s
      PROVE  HasFor(q, o, s) <=>
               (Head(q).op = o /\ Head(q).sub = s) \/ HasFor(Tail(q), o, s)
  <2>1. ASSUME NEW i \in DOMAIN q, q[i].op = o, q[i].sub = s, i # 1
        PROVE  HasFor(Tail(q), o, s)
    BY <1>1, <1>2, <2>1 DEF HasFor
  <2>2. ASSUME NEW i \in DOMAIN Tail(q), Tail(q)[i].op = o, Tail(q)[i].sub = s
        PROVE  HasFor(q, o, s)
    BY <1>1, <1>2, <2>2 DEF HasFor
  <2> QED
    BY <1>1, <1>2, <2>1, <2>2 DEF HasFor
<1> QED
  BY <1>3, <1>4

\* The rest of an ordered script is one, of steps that may follow the first.
LEMMA TailOrdered ==
    ASSUME NEW q \in Seq(Steps), q # <<>>, Ordered(q)
    PROVE  /\ Ordered(Tail(q)) /\ Head(q).op \in Ops
           /\ \A o : Has(Tail(q), o) => o \in Follow[Head(q).op]
           /\ Head(q).op = "save" => Tail(q) # <<>> /\ Head(Tail(q)).op = "saved"
           /\ Head(q).op = "take" => Tail(q) # <<>> /\ Head(Tail(q)).op = "taken"
           /\ Tail(q) # <<>> /\ Head(Tail(q)).op = "saved" => Head(q).op = "save"
           /\ Tail(q) # <<>> /\ Head(Tail(q)).op = "taken" => Head(q).op = "take"
<1>1. /\ DOMAIN q = 1 .. Len(q) /\ Head(q) = q[1] /\ Len(q) \in Nat \ {0}
      /\ Tail(q) \in Seq(Steps) /\ Len(Tail(q)) = Len(q) - 1 /\ DOMAIN Tail(q) = 1 .. Len(q) - 1
      /\ \A i \in 1 .. Len(q) - 1 : Tail(q)[i] = q[i + 1]
  BY TailFacts
<1>2. \A i \in DOMAIN Tail(q) : i + 1 \in DOMAIN q /\ i + 1 > 1 /\ i \in Nat /\ i \in DOMAIN q
  BY <1>1
<1>3. Ordered(Tail(q))
  <2>1. \A i \in DOMAIN Tail(q) : Tail(q)[i].op \in DOMAIN Follow
    BY <1>1, <1>2 DEF Ordered
  <2>2. \A i, j \in DOMAIN Tail(q) : i < j => Tail(q)[j].op \in Follow[Tail(q)[i].op]
    BY <1>1, <1>2 DEF Ordered
  <2>3. \A i \in DOMAIN Tail(q) : Tail(q)[i].op \in {"save", "take"} =>
          i + 1 \in DOMAIN Tail(q)
            /\ Tail(q)[i + 1].op = IF Tail(q)[i].op = "save" THEN "saved" ELSE "taken"
    <3> SUFFICES ASSUME NEW i \in DOMAIN Tail(q), Tail(q)[i].op \in {"save", "take"}
                 PROVE  i + 1 \in DOMAIN Tail(q)
                   /\ Tail(q)[i + 1].op = IF Tail(q)[i].op = "save" THEN "saved" ELSE "taken"
      OBVIOUS
    <3>1. /\ (i + 1) + 1 \in DOMAIN q
          /\ q[(i + 1) + 1].op = IF q[i + 1].op = "save" THEN "saved" ELSE "taken"
      BY <1>1, <1>2 DEF Ordered
    <3>2. i + 1 \in 1 .. Len(q) - 1
      BY <1>1, <3>1
    <3> QED
      BY <1>1, <3>1, <3>2
  <2>4. \A i \in DOMAIN Tail(q) : Tail(q)[i].op = "taken" /\ i > 1 => Tail(q)[i - 1].op = "take"
    <3> SUFFICES ASSUME NEW i \in DOMAIN Tail(q), Tail(q)[i].op = "taken", i > 1
                 PROVE  Tail(q)[i - 1].op = "take"
      OBVIOUS
    <3>1. i - 1 \in 1 .. Len(q) - 1 /\ (i + 1) - 1 = (i - 1) + 1
      BY <1>1
    <3>2. q[(i + 1) - 1].op = "take"
      BY <1>1, <1>2 DEF Ordered
    <3> QED
      BY <1>1, <3>1, <3>2
  <2> QED
    BY <2>1, <2>2, <2>3, <2>4 DEF Ordered
<1>4. \A o : Has(Tail(q), o) => o \in Follow[Head(q).op]
  <2>1. 1 \in DOMAIN q /\ \A i \in DOMAIN Tail(q) : 1 < i + 1 /\ i + 1 \in DOMAIN q
    BY <1>1, <1>2
  <2>2. \A i \in DOMAIN Tail(q) : Tail(q)[i].op \in Follow[Head(q).op]
    BY <1>1, <2>1 DEF Ordered
  <2> QED
    BY <2>2 DEF Has
<1>5. Head(q).op \in Ops
  BY <1>1 DEF Ordered, Ops
<1>6. /\ Head(q).op = "save" => Tail(q) # <<>> /\ Head(Tail(q)).op = "saved"
      /\ Head(q).op = "take" => Tail(q) # <<>> /\ Head(Tail(q)).op = "taken"
  <2> SUFFICES ASSUME Head(q).op \in {"save", "take"}
               PROVE  Tail(q) # <<>>
                 /\ Head(Tail(q)).op = IF Head(q).op = "save" THEN "saved" ELSE "taken"
    OBVIOUS
  <2>1. 1 + 1 \in DOMAIN q /\ q[1 + 1].op = IF q[1].op = "save" THEN "saved" ELSE "taken"
    BY <1>1 DEF Ordered
  <2>2. 1 \in DOMAIN Tail(q) /\ Tail(q)[1] = q[1 + 1]
    BY <1>1, <2>1
  <2> QED
    BY <1>1, <2>1, <2>2
<1>7. ASSUME Tail(q) # <<>>
      PROVE  /\ Head(Tail(q)).op = "saved" => Head(q).op = "save"
             /\ Head(Tail(q)).op = "taken" => Head(q).op = "take"
  <2>1. /\ 1 \in DOMAIN Tail(q) /\ Head(Tail(q)) = Tail(q)[1]
        /\ Tail(q)[1] = q[1 + 1] /\ 2 \in DOMAIN q
    BY <1>1, <1>7
  <2>2. Head(Tail(q)).op = "taken" => Head(q).op = "take"
    BY <1>1, <2>1 DEF Ordered
  <2>3. Head(Tail(q)).op \in Follow[Head(q).op]
    BY <1>4, <2>1 DEF Has
  <2>4. Head(Tail(q)).op = "saved" => Head(q).op = "save"
    BY <1>5, <2>3, FollowFacts
  <2> QED
    BY <2>2, <2>4
<1> QED
  BY <1>3, <1>4, <1>5, <1>6, <1>7

\* The rest of a start, whose first step registers or requests.
LEMMA TailStarts ==
    ASSUME NEW q \in Seq(Steps), q # <<>>, NEW k, Starts(q, k)
    PROVE  /\ Starts(Tail(q), k)
           /\ Head(q).op = "register" =>
                /\ Head(q).sub \in Hears(k) /\ ~HasFor(Tail(q), "register", Head(q).sub)
                /\ k = "rtt" => \A o : Has(Tail(q), o) => o = "started"
           /\ Head(q).op = "request" /\ 2 < Len(q) =>
                \A s \in Hears(k) : HasFor(Tail(q), "register", s)
<1>1. /\ DOMAIN q = 1 .. Len(q) /\ Head(q) = q[1] /\ Len(q) \in Nat \ {0}
      /\ Len(Tail(q)) = Len(q) - 1 /\ DOMAIN Tail(q) = 1 .. Len(q) - 1
      /\ \A i \in 1 .. Len(q) - 1 : Tail(q)[i] = q[i + 1]
      /\ \A i \in 2 .. Len(q) : i - 1 \in DOMAIN Tail(q) /\ Tail(q)[i - 1] = q[i]
  BY TailFacts
<1>2. /\ \A i \in DOMAIN Tail(q) : i + 1 \in DOMAIN q /\ 1 < i + 1 /\ i \in Nat
      /\ 1 \in DOMAIN q
  BY <1>1
<1>3. Starts(Tail(q), k)
  <2>1. \A i \in DOMAIN Tail(q) : Tail(q)[i].op = "register" => Tail(q)[i].sub \in Hears(k)
    BY <1>1, <1>2 DEF Starts
  <2>2. \A i, j \in DOMAIN Tail(q) :
          i < j /\ Tail(q)[i].op = "register" =>
            /\ Tail(q)[j].op = "register" => Tail(q)[j].sub # Tail(q)[i].sub
            /\ k = "rtt" => Tail(q)[j].op = "started"
    <3>1. \A i, j \in DOMAIN Tail(q) : i < j => i + 1 < j + 1
      BY <1>2
    <3> QED
      BY <1>1, <1>2, <3>1 DEF Starts
  <2>3. ASSUME NEW i \in DOMAIN Tail(q), Tail(q)[i].op = "request", i + 1 < Len(Tail(q)),
               NEW s \in Hears(k)
        PROVE  \E j \in DOMAIN Tail(q) : i < j /\ Tail(q)[j].op = "register" /\ Tail(q)[j].sub = s
    <3>1. PICK j \in DOMAIN q : i + 1 < j /\ q[j].op = "register" /\ q[j].sub = s
      BY <1>1, <1>2, <2>3 DEF Starts
    <3>2. j \in 2 .. Len(q) /\ i < j - 1
      BY <1>1, <1>2, <3>1
    <3> QED
      BY <1>1, <3>1, <3>2
  <2> QED
    BY <2>1, <2>2, <2>3 DEF Starts
<1>4. ASSUME Head(q).op = "register"
      PROVE  /\ Head(q).sub \in Hears(k) /\ ~HasFor(Tail(q), "register", Head(q).sub)
             /\ k = "rtt" => \A o : Has(Tail(q), o) => o = "started"
  <2>1. \A i \in DOMAIN Tail(q) :
          /\ Tail(q)[i].op = "register" => Tail(q)[i].sub # Head(q).sub
          /\ k = "rtt" => Tail(q)[i].op = "started"
    BY <1>1, <1>2, <1>4 DEF Starts
  <2> QED
    BY <1>1, <1>2, <1>4, <2>1 DEF Starts, HasFor, Has
<1>5. ASSUME Head(q).op = "request", 2 < Len(q), NEW s \in Hears(k)
      PROVE  HasFor(Tail(q), "register", s)
  <2>1. PICK j \in DOMAIN q : 1 < j /\ q[j].op = "register" /\ q[j].sub = s
    BY <1>1, <1>2, <1>5 DEF Starts
  <2>2. j \in 2 .. Len(q)
    BY <1>1, <2>1
  <2> QED
    BY <1>1, <2>1, <2>2 DEF HasFor
<1> QED
  BY <1>3, <1>4, <1>5

\* A call goes on with what is left of its script.
LEMMA StepTail ==
    ASSUME todo \in Seq(Steps), Ordered(todo), NEW o, Doing(o), todo' = Tail(todo)
    PROVE  /\ todo' \in Seq(Steps) /\ Ordered(todo') /\ Head(todo) \in Steps /\ o \in Ops
           /\ \A p : Has(todo, p) <=> p = o \/ Has(todo', p)
           /\ \A p, s : HasFor(todo, p, s) <=>
                          (p = o /\ s = Head(todo).sub) \/ HasFor(todo', p, s)
           /\ \A p : Has(todo', p) => p \in Follow[o]
           /\ Doing("saved")' <=> o = "save"
           /\ Doing("taken")' <=> o = "take"
           /\ Inside' <=> o \in {"save", "take"}
           /\ ~Has(todo', "wait")
<1>1. /\ todo # <<>> /\ Head(todo).op = o
      /\ todo' \in Seq(Steps) /\ Head(todo) \in Steps
  BY TailFacts DEF Doing
<1>2. /\ \A p : Has(todo, p) <=> p = o \/ Has(todo', p)
      /\ \A p, s : HasFor(todo, p, s) <=> (p = o /\ s = Head(todo).sub) \/ HasFor(todo', p, s)
  BY <1>1, TailHas
<1>3. /\ Ordered(todo') /\ o \in Ops
      /\ \A p : Has(todo', p) => p \in Follow[o]
  BY <1>1, TailOrdered
<1>4. /\ o = "save" => todo' # <<>> /\ Head(todo').op = "saved"
      /\ o = "take" => todo' # <<>> /\ Head(todo').op = "taken"
      /\ todo' # <<>> /\ Head(todo').op = "saved" => o = "save"
      /\ todo' # <<>> /\ Head(todo').op = "taken" => o = "take"
  BY <1>1, TailOrdered
<1>5. /\ Doing("saved")' <=> o = "save"
      /\ Doing("taken")' <=> o = "take"
      /\ Inside' <=> o \in {"save", "take"}
  BY <1>4 DEF Doing, Inside
<1>6. ~Has(todo', "wait")
  BY <1>3, FollowFacts
<1> QED
  BY <1>1, <1>2, <1>3, <1>5, <1>6

\* The first step of a script is one of it, and an empty one has none.
LEMMA DoingHas ==
    ASSUME todo \in Seq(Steps)
    PROVE  /\ \A o : Doing(o) => Has(todo, o)
           /\ \A o, p : Doing(o) /\ Doing(p) => o = p
           /\ Inside <=> Doing("saved") \/ Doing("taken")
           /\ todo = <<>> => \A o, s : ~Has(todo, o) /\ ~HasFor(todo, o, s) /\ ~Doing(o)
           /\ \A o, s : HasFor(todo, o, s) => Has(todo, o)
<1>1. \A o : Doing(o) => Has(todo, o)
  BY TailHas DEF Doing
<1>2. todo = <<>> => DOMAIN todo = {}
  OBVIOUS
<1> QED
  BY <1>1, <1>2 DEF Doing, Has, HasFor, Inside

\* A script that has a step for an event has that step.
LEMMA HasFacts ==
    /\ \A q, o, s : HasFor(q, o, s) => Has(q, o)
    /\ \A o, s : ~Has(<<>>, o) /\ ~HasFor(<<>>, o, s)
    /\ Ordered(<<>>)
<1>1. DOMAIN <<>> = {}
  OBVIOUS
<1> QED
  BY <1>1 DEF Has, HasFor, Ordered

\* A call that goes on keeps its script in order.
LEMMA ScriptTail ==
    ASSUME todo \in Seq(Steps), ScriptSound, NEW o, Doing(o), o # "sweep", todo' = Tail(todo),
           UNCHANGED <<hal, cur, kind>>
    PROVE  ScriptSound'
<1>1. /\ todo' \in Seq(Steps) /\ Ordered(todo') /\ o \in Ops
      /\ \A p : Has(todo, p) <=> p = o \/ Has(todo', p)
      /\ \A p : Has(todo', p) => p \in Follow[o]
  BY StepTail DEF ScriptSound
<1>2. Has(todo', "started") => Starts(todo', kind[cur])
  BY <1>1, TailStarts DEF ScriptSound, Doing
<1>3. \A p \in {"save", "saved", "request", "register"} :
         Has(todo', p) => Has(todo', "started")
  BY <1>1, FollowFacts DEF ScriptSound
<1>4. \A p \in {"take", "taken", "ended"} : Has(todo', p) => Has(todo', "release")
  BY <1>1, FollowFacts DEF ScriptSound
<1>5. hal = "cleaning" => Has(todo', "sweep")
  BY <1>1 DEF ScriptSound
<1>6. hal # "down"
  BY DEF ScriptSound, Doing
<1> QED
  BY <1>1, <1>2, <1>3, <1>4, <1>5, <1>6 DEF ScriptSound

\* The events of each kind of command: a sequence without repetitions.
LEMMA SubsFacts ==
    ASSUME NEW k \in Kinds
    PROVE  /\ Subs[k] \in Seq(AllSubs) /\ DOMAIN Subs[k] = 1 .. Len(Subs[k])
           /\ Hears(k) \subseteq AllSubs /\ Hears(k) = {Subs[k][i] : i \in DOMAIN Subs[k]}
           /\ \A i, j \in DOMAIN Subs[k] : Subs[k][i] = Subs[k][j] => i = j
           /\ "rtt" \in Hears(k) <=> k = "rtt"
           /\ k = "rtt" => Hears(k) = {"rtt"} /\ Len(Subs[k]) = 1
           /\ Len(Subs[k]) > 0 /\ Hears(k) # {}
<1>1. k \in {"scan", "full", "hotlist", "epno", "change", "rssi", "rtt", "anqpo"}
  BY WifiAssumption DEF Subs
<1>2. /\ Subs["scan"] = <<"available", "complete", "full">> /\ Subs["full"] = <<"full">>
      /\ Subs["hotlist"] = <<"found", "lost">> /\ Subs["epno"] = <<"epno">>
      /\ Subs["change"] = <<"change">> /\ Subs["rssi"] = <<"rssi">> /\ Subs["rtt"] = <<"rtt">>
      /\ Subs["anqpo"] = <<"match">>
  BY DEF Subs
<1>3. /\ \E S : Subs[k] \in Seq(S)
      /\ DOMAIN Subs[k] = 1 .. Len(Subs[k]) /\ Len(Subs[k]) \in 1 .. 3
      /\ \A i, j \in DOMAIN Subs[k] : Subs[k][i] = Subs[k][j] => i = j
      /\ (\E i \in DOMAIN Subs[k] : Subs[k][i] = "rtt") <=> k = "rtt"
  <2>1. CASE k = "scan"
    <3>1. Subs[k] = <<"available", "complete", "full">>
      BY <1>2, <2>1
    <3>2. /\ Len(Subs[k]) = 3 /\ DOMAIN Subs[k] = 1 .. 3
          /\ Subs[k] \in Seq({"available", "complete", "full"})
          /\ Subs[k][1] = "available" /\ Subs[k][2] = "complete" /\ Subs[k][3] = "full"
      BY <3>1
    <3>3. \A i \in 1 .. 3 : i = 1 \/ i = 2 \/ i = 3
      OBVIOUS
    <3> QED
      BY <2>1, <3>2, <3>3
  <2>2. CASE k = "hotlist"
    <3>1. Subs[k] = <<"found", "lost">>
      BY <1>2, <2>2
    <3>2. /\ Len(Subs[k]) = 2 /\ DOMAIN Subs[k] = 1 .. 2 /\ Subs[k] \in Seq({"found", "lost"})
          /\ Subs[k][1] = "found" /\ Subs[k][2] = "lost"
      BY <3>1
    <3>3. \A i \in 1 .. 2 : i = 1 \/ i = 2
      OBVIOUS
    <3> QED
      BY <2>2, <3>2, <3>3
  <2>3. CASE k \in {"full", "epno", "change", "rssi", "rtt", "anqpo"}
    <3>1. PICK s : Subs[k] = <<s>> /\ (s = "rtt" <=> k = "rtt")
      BY <1>2, <2>3
    <3>2. /\ Len(Subs[k]) = 1 /\ DOMAIN Subs[k] = 1 .. 1 /\ Subs[k] \in Seq({s})
          /\ Subs[k][1] = s
      BY <3>1
    <3>3. \A i \in DOMAIN Subs[k] : i = 1
      BY <3>2
    <3>4. 1 \in DOMAIN Subs[k] /\ Len(Subs[k]) \in 1 .. 3
      BY <3>2
    <3>5. (\E i \in DOMAIN Subs[k] : Subs[k][i] = "rtt") <=> k = "rtt"
      BY <3>1, <3>2, <3>3, <3>4
    <3>6. DOMAIN Subs[k] = 1 .. Len(Subs[k]) /\ \E S : Subs[k] \in Seq(S)
      BY <3>2
    <3> QED
      BY <3>3, <3>4, <3>5, <3>6
  <2> QED
    BY <1>1, <2>1, <2>2, <2>3
<1>4. Hears(k) = {Subs[k][i] : i \in DOMAIN Subs[k]}
  BY DEF Hears, Range
<1>5. Hears(k) \subseteq AllSubs
  BY DEF AllSubs, Hears
<1>6. \A i \in DOMAIN Subs[k] : Subs[k][i] \in AllSubs
  BY <1>4, <1>5
<1>7. Subs[k] \in Seq(AllSubs)
  BY <1>3, <1>6
<1>8. k = "rtt" => Hears(k) = {"rtt"} /\ Len(Subs[k]) = 1
  BY <1>2, <1>4
<1>9. Len(Subs[k]) > 0 /\ Hears(k) # {}
  <2>1. 1 \in DOMAIN Subs[k]
    <3>1. DOMAIN Subs[k] = 1 .. Len(Subs[k]) /\ Len(Subs[k]) \in 1 .. 3
      BY <1>3
    <3> QED
      BY <3>1
  <2>2. Subs[k][1] \in Hears(k)
    BY <1>4, <2>1
  <2> QED
    BY <1>3, <2>2
<1> QED
  BY <1>3, <1>4, <1>5, <1>7, <1>8, <1>9

\* One step for each event of a kind.
LEMMA EachFacts ==
    ASSUME NEW k \in Kinds, NEW o \in Ops
    PROVE  /\ Each(o, k) \in Seq(Steps) /\ Each(o, k) # <<>>
           /\ DOMAIN Each(o, k) = 1 .. Len(Each(o, k)) /\ Len(Each(o, k)) = Len(Subs[k])
           /\ \A i \in DOMAIN Each(o, k) : Each(o, k)[i] = [op |-> o, sub |-> Subs[k][i]]
           /\ \A i \in DOMAIN Each(o, k) : Each(o, k)[i].op = o /\ Each(o, k)[i].sub \in Hears(k)
           /\ \A p : Has(Each(o, k), p) <=> p = o
           /\ \A p, s : HasFor(Each(o, k), p, s) <=> p = o /\ s \in Hears(k)
<1>1. /\ Subs[k] \in Seq(AllSubs) /\ DOMAIN Subs[k] = 1 .. Len(Subs[k]) /\ Len(Subs[k]) > 0
      /\ Hears(k) = {Subs[k][i] : i \in DOMAIN Subs[k]} /\ Len(Subs[k]) \in Nat
      /\ Hears(k) \subseteq AllSubs
  BY SubsFacts
<1>2. /\ Each(o, k) \in [1 .. Len(Subs[k]) -> Steps]
      /\ \A i \in 1 .. Len(Subs[k]) : Each(o, k)[i] = [op |-> o, sub |-> Subs[k][i]]
  BY <1>1 DEF Each, Steps
<1>3. Each(o, k) \in Seq(Steps)
  BY <1>1, <1>2
<1>4. /\ DOMAIN Each(o, k) = 1 .. Len(Subs[k]) /\ Len(Each(o, k)) = Len(Subs[k])
      /\ Each(o, k) # <<>>
  BY <1>1, <1>2, <1>3
<1>5. \A i \in DOMAIN Each(o, k) : Each(o, k)[i].op = o /\ Each(o, k)[i].sub = Subs[k][i]
  <2> TAKE i \in DOMAIN Each(o, k)
  <2>1. Each(o, k)[i] = [op |-> o, sub |-> Subs[k][i]]
    BY <1>2, <1>4
  <2> QED
    BY <2>1
<1>6. \A p : Has(Each(o, k), p) <=> p = o
  BY <1>1, <1>4, <1>5 DEF Has
<1>7. \A p, s : HasFor(Each(o, k), p, s) <=> p = o /\ s \in Hears(k)
  BY <1>1, <1>4, <1>5 DEF HasFor
<1> QED
  BY <1>1, <1>2, <1>3, <1>4, <1>5, <1>6, <1>7

\* The steps of two scripts, one after the other.
LEMMA Joined ==
    ASSUME NEW a \in Seq(Steps), NEW b \in Seq(Steps)
    PROVE  /\ a \o b \in Seq(Steps) /\ Len(a \o b) = Len(a) + Len(b)
           /\ DOMAIN (a \o b) = 1 .. Len(a) + Len(b)
           /\ \A i \in DOMAIN a : i \in DOMAIN (a \o b) /\ (a \o b)[i] = a[i]
           /\ \A i \in DOMAIN b : Len(a) + i \in DOMAIN (a \o b) /\ (a \o b)[Len(a) + i] = b[i]
           /\ \A i \in DOMAIN (a \o b) :
                i \in DOMAIN a \/ (i - Len(a) \in DOMAIN b /\ (a \o b)[i] = b[i - Len(a)])
           /\ \A o : Has(a \o b, o) <=> Has(a, o) \/ Has(b, o)
           /\ \A o, s : HasFor(a \o b, o, s) <=> HasFor(a, o, s) \/ HasFor(b, o, s)
<1>1. /\ a \o b \in Seq(Steps) /\ Len(a \o b) = Len(a) + Len(b)
      /\ DOMAIN a = 1 .. Len(a) /\ DOMAIN b = 1 .. Len(b) /\ Len(a) \in Nat /\ Len(b) \in Nat
      /\ DOMAIN (a \o b) = 1 .. Len(a) + Len(b)
  OBVIOUS
<1>2. \A i \in DOMAIN a : i \in DOMAIN (a \o b) /\ (a \o b)[i] = a[i]
  BY <1>1
<1>3. \A i \in DOMAIN b : Len(a) + i \in DOMAIN (a \o b) /\ (a \o b)[Len(a) + i] = b[i]
  BY <1>1
<1>4. \A i \in DOMAIN (a \o b) :
         i \in DOMAIN a \/ (i - Len(a) \in DOMAIN b /\ (a \o b)[i] = b[i - Len(a)])
  BY <1>1
<1>5. \A o : Has(a \o b, o) <=> Has(a, o) \/ Has(b, o)
  BY <1>2, <1>3, <1>4 DEF Has
<1>6. \A o, s : HasFor(a \o b, o, s) <=> HasFor(a, o, s) \/ HasFor(b, o, s)
  <2>1. ASSUME NEW o, NEW s, HasFor(a \o b, o, s) PROVE HasFor(a, o, s) \/ HasFor(b, o, s)
    <3>1. PICK i \in DOMAIN (a \o b) : (a \o b)[i].op = o /\ (a \o b)[i].sub = s
      BY <2>1 DEF HasFor
    <3> QED
      BY <1>2, <1>4, <3>1 DEF HasFor
  <2>2. ASSUME NEW o, NEW s, HasFor(a, o, s) \/ HasFor(b, o, s) PROVE HasFor(a \o b, o, s)
    BY <1>2, <1>3, <2>2 DEF HasFor
  <2> QED
    BY <2>1, <2>2
<1> QED
  BY <1>1, <1>2, <1>3, <1>4, <1>5, <1>6

\* Two ordered scripts make one where the steps of the second may follow those
\* of the first.
LEMMA JoinedOrdered ==
    ASSUME NEW a \in Seq(Steps), NEW b \in Seq(Steps), Ordered(a), Ordered(b),
           \A o, p : Has(a, o) /\ Has(b, p) => p \in Follow[o],
           b # <<>> => Head(b).op # "taken"
    PROVE  Ordered(a \o b)
<1>1. /\ DOMAIN a = 1 .. Len(a) /\ DOMAIN b = 1 .. Len(b) /\ Len(a) \in Nat /\ Len(b) \in Nat
      /\ DOMAIN (a \o b) = 1 .. Len(a) + Len(b)
      /\ \A i \in DOMAIN a : i \in DOMAIN (a \o b) /\ (a \o b)[i] = a[i]
      /\ \A i \in DOMAIN b : Len(a) + i \in DOMAIN (a \o b) /\ (a \o b)[Len(a) + i] = b[i]
      /\ \A i \in DOMAIN (a \o b) :
           i \in DOMAIN a \/ (i - Len(a) \in DOMAIN b /\ (a \o b)[i] = b[i - Len(a)])
  BY Joined
<1>2. \A i \in DOMAIN (a \o b) : (a \o b)[i].op \in DOMAIN Follow
  BY <1>1 DEF Ordered
<1>3. ASSUME NEW i \in DOMAIN (a \o b), NEW j \in DOMAIN (a \o b), i < j
      PROVE  (a \o b)[j].op \in Follow[(a \o b)[i].op]
  <2>1. CASE i \in DOMAIN a /\ j \in DOMAIN a
    BY <1>1, <1>3, <2>1 DEF Ordered
  <2>2. CASE i \in DOMAIN a /\ j \notin DOMAIN a
    BY <1>1, <2>2 DEF Has
  <2>3. CASE i \notin DOMAIN a
    <3>1. j \notin DOMAIN a /\ i - Len(a) < j - Len(a)
      BY <1>1, <1>3, <2>3
    <3> QED
      BY <1>1, <2>3, <3>1 DEF Ordered
  <2> QED
    BY <2>1, <2>2, <2>3
<1>4. ASSUME NEW i \in DOMAIN (a \o b), (a \o b)[i].op \in {"save", "take"}
      PROVE  /\ i + 1 \in DOMAIN (a \o b)
             /\ (a \o b)[i + 1].op = IF (a \o b)[i].op = "save" THEN "saved" ELSE "taken"
  <2>1. CASE i \in DOMAIN a
    <3>1. i + 1 \in DOMAIN a /\ a[i + 1].op = IF a[i].op = "save" THEN "saved" ELSE "taken"
      BY <1>1, <1>4, <2>1 DEF Ordered
    <3> QED
      BY <1>1, <2>1, <3>1
  <2>2. CASE i \notin DOMAIN a
    <3>1. i - Len(a) \in DOMAIN b /\ (a \o b)[i] = b[i - Len(a)]
      BY <1>1, <2>2
    <3>2. /\ (i - Len(a)) + 1 \in DOMAIN b
          /\ b[(i - Len(a)) + 1].op = IF b[i - Len(a)].op = "save" THEN "saved" ELSE "taken"
      BY <1>4, <3>1 DEF Ordered
    <3>3. Len(a) + ((i - Len(a)) + 1) = i + 1
      BY <1>1
    <3> QED
      BY <1>1, <3>1, <3>2, <3>3
  <2> QED
    BY <2>1, <2>2
<1>5. ASSUME NEW i \in DOMAIN (a \o b), (a \o b)[i].op = "taken", i > 1
      PROVE  (a \o b)[i - 1].op = "take"
  <2>1. CASE i \in DOMAIN a
    <3>1. i - 1 \in DOMAIN a
      BY <1>1, <1>5, <2>1
    <3> QED
      BY <1>1, <1>5, <2>1, <3>1 DEF Ordered
  <2>2. CASE i \notin DOMAIN a
    <3>1. i - Len(a) \in DOMAIN b /\ (a \o b)[i] = b[i - Len(a)]
      BY <1>1, <2>2
    <3>2. i - Len(a) > 1
      <4> SUFFICES ASSUME i - Len(a) = 1 PROVE FALSE
        BY <1>1, <3>1
      <4>1. b # <<>> /\ Head(b) = b[1]
        BY <1>1, <3>1
      <4> QED
        BY <1>5, <3>1, <4>1
    <3>3. b[(i - Len(a)) - 1].op = "take" /\ (i - Len(a)) - 1 \in DOMAIN b
      BY <1>1, <1>5, <3>1, <3>2 DEF Ordered
    <3>4. Len(a) + ((i - Len(a)) - 1) = i - 1
      BY <1>1
    <3> QED
      BY <1>1, <3>3, <3>4
  <2> QED
    BY <2>1, <2>2
<1> QED
  BY <1>2, <1>3, <1>4, <1>5 DEF Ordered

\* A script of one step.
LEMMA OneStep ==
    ASSUME NEW o \in Ops \ {"save", "take"}
    PROVE  /\ <<Op(o)>> \in Seq(Steps) /\ Ordered(<<Op(o)>>)
           /\ <<Op(o)>> # <<>> /\ Head(<<Op(o)>>).op = o
           /\ \A p : Has(<<Op(o)>>, p) <=> p = o
           /\ \A p, s : HasFor(<<Op(o)>>, p, s) <=> p = o /\ s = "-"
<1> DEFINE q == <<Op(o)>>
<1>1. /\ Op(o) \in Steps /\ Op(o).op = o /\ Op(o).sub = "-"
  BY DEF Op, Steps
<1>2. /\ q \in Seq(Steps) /\ DOMAIN q = {1} /\ q[1] = Op(o) /\ q # <<>> /\ Head(q) = Op(o)
  BY <1>1
<1> HIDE DEF q
<1>3. Ordered(q)
  BY <1>1, <1>2 DEF Ordered, Ops
<1>4. /\ \A p : Has(q, p) <=> p = o
      /\ \A p, s : HasFor(q, p, s) <=> p = o /\ s = "-"
  BY <1>1, <1>2 DEF Has, HasFor
<1> QED
  BY <1>1, <1>2, <1>3, <1>4 DEF q

\* The two halves of a change of the table.
LEMMA TwoSteps ==
    ASSUME NEW o, NEW u, <<o, u>> \in {<<"save", "saved">>, <<"take", "taken">>}
    PROVE  /\ <<Op(o), Op(u)>> \in Seq(Steps) /\ Ordered(<<Op(o), Op(u)>>)
           /\ <<Op(o), Op(u)>> # <<>> /\ Head(<<Op(o), Op(u)>>).op = o
           /\ \A p : Has(<<Op(o), Op(u)>>, p) <=> p \in {o, u}
           /\ \A p, s : HasFor(<<Op(o), Op(u)>>, p, s) <=> p \in {o, u} /\ s = "-"
<1> DEFINE q == <<Op(o), Op(u)>>
<1>0. (o = "save" /\ u = "saved") \/ (o = "take" /\ u = "taken")
  OBVIOUS
<1>1. /\ Op(o) \in Steps /\ Op(o).op = o /\ Op(o).sub = "-"
      /\ Op(u) \in Steps /\ Op(u).op = u /\ Op(u).sub = "-"
  BY <1>0, FollowFacts DEF Op, Steps
<1>2. /\ q \in Seq(Steps) /\ DOMAIN q = {1, 2} /\ q[1] = Op(o) /\ q[2] = Op(u)
      /\ q # <<>> /\ Head(q) = Op(o)
  BY <1>1
<1> HIDE DEF q
<1>3. Ordered(q)
  <2>1. u \in Follow[o]
    BY <1>0, FollowFacts
  <2>2. \A i \in DOMAIN q : q[i].op \in DOMAIN Follow
    BY <1>0, <1>1, <1>2, FollowFacts DEF Ops
  <2>3. \A i, j \in DOMAIN q : i < j => q[j].op \in Follow[q[i].op]
    BY <1>1, <1>2, <2>1
  <2>4. \A i \in DOMAIN q : q[i].op \in {"save", "take"} =>
          i + 1 \in DOMAIN q /\ q[i + 1].op = IF q[i].op = "save" THEN "saved" ELSE "taken"
    BY <1>0, <1>1, <1>2
  <2>5. \A i \in DOMAIN q : q[i].op = "taken" /\ i > 1 => q[i - 1].op = "take"
    BY <1>0, <1>1, <1>2
  <2> QED
    BY <2>2, <2>3, <2>4, <2>5 DEF Ordered
<1>4. /\ \A p : Has(q, p) <=> p \in {o, u}
      /\ \A p, s : HasFor(q, p, s) <=> p \in {o, u} /\ s = "-"
  BY <1>1, <1>2 DEF Has, HasFor
<1> QED
  BY <1>1, <1>2, <1>3, <1>4 DEF q

\* Steps for each event of a kind are in order.
LEMMA EachOrdered ==
    ASSUME NEW k \in Kinds, NEW o \in {"register", "unregister"}
    PROVE  /\ Each(o, k) \in Seq(Steps) /\ Ordered(Each(o, k))
           /\ Each(o, k) # <<>> /\ Head(Each(o, k)).op = o
<1>1. /\ o \in Ops /\ o \in Follow[o]
  BY FollowFacts
<1>2. /\ Each(o, k) \in Seq(Steps) /\ Each(o, k) # <<>>
      /\ \A i \in DOMAIN Each(o, k) : Each(o, k)[i].op = o
  BY <1>1, EachFacts
<1>3. Head(Each(o, k)).op = o
  BY <1>2
<1> QED
  BY <1>1, <1>2, <1>3 DEF Ordered, Ops

\* The end of a start: the handlers, perhaps a request, and its return.
LEMMA StartsLast ==
    ASSUME NEW k \in Kinds, NEW d \in Seq(Steps),
           \A i \in DOMAIN d : \/ d[i].op = "started"
                               \/ d[i].op = "request" /\ i + 1 >= Len(d) /\ k # "rtt"
    PROVE  Starts(Register(k) \o d, k)
<1> DEFINE a == Register(k)
           q == a \o d
<1>1. /\ a \in Seq(Steps) /\ DOMAIN a = 1 .. Len(a) /\ Len(a) \in Nat /\ Len(d) \in Nat
      /\ Len(a) = Len(Subs[k])
      /\ \A i \in DOMAIN a : a[i].op = "register" /\ a[i].sub = Subs[k][i] /\ a[i].sub \in Hears(k)
      /\ \A s \in Hears(k) : HasFor(a, "register", s)
  <2>1. "register" \in Ops
    BY FollowFacts
  <2>2. a = Each("register", k)
    BY DEF Register
  <2> HIDE DEF a
  <2>3. /\ a \in Seq(Steps) /\ DOMAIN a = 1 .. Len(a) /\ Len(a) = Len(Subs[k])
        /\ \A i \in DOMAIN a : a[i] = [op |-> "register", sub |-> Subs[k][i]]
        /\ \A i \in DOMAIN a : a[i].op = "register" /\ a[i].sub \in Hears(k)
        /\ \A s \in Hears(k) : HasFor(a, "register", s)
    BY <2>1, <2>2, EachFacts
  <2>4. Len(a) \in Nat /\ Len(d) \in Nat
    BY <2>3
  <2>5. ASSUME NEW i \in DOMAIN a PROVE a[i].sub = Subs[k][i]
    <3>1. a[i] = [op |-> "register", sub |-> Subs[k][i]]
      BY <2>3
    <3> QED
      BY <3>1
  <2> QED
    BY <2>3, <2>4, <2>5
<1>2. /\ \A i, j \in DOMAIN Subs[k] : Subs[k][i] = Subs[k][j] => i = j
      /\ DOMAIN Subs[k] = 1 .. Len(Subs[k])
      /\ k = "rtt" => Len(Subs[k]) = 1
  BY SubsFacts
<1> HIDE DEF a
<1>3. /\ Len(q) = Len(a) + Len(d) /\ DOMAIN q = 1 .. Len(a) + Len(d)
      /\ \A i \in DOMAIN a : q[i] = a[i]
      /\ \A i \in DOMAIN q : i \in DOMAIN a \/ (i - Len(a) \in DOMAIN d /\ q[i] = d[i - Len(a)])
  BY <1>1, Joined
<1> HIDE DEF q
<1>4. \A i \in DOMAIN q : q[i].op = "register" => i \in DOMAIN a /\ q[i].sub = Subs[k][i]
  BY <1>1, <1>3
<1>5. \A i \in DOMAIN q : q[i].op = "register" => q[i].sub \in Hears(k)
  BY <1>1, <1>3, <1>4
<1>6. ASSUME NEW i \in DOMAIN q, NEW j \in DOMAIN q, i < j, q[i].op = "register"
      PROVE  /\ q[j].op = "register" => q[j].sub # q[i].sub
             /\ k = "rtt" => q[j].op = "started"
  <2>1. i \in DOMAIN a /\ i # j
    BY <1>3, <1>4, <1>6
  <2>2. q[j].op = "register" => q[j].sub # q[i].sub
    BY <1>1, <1>2, <1>4, <1>6, <2>1
  <2>3. k = "rtt" => j \notin DOMAIN a
    BY <1>1, <1>2, <1>6, <2>1
  <2> QED
    BY <1>3, <2>2, <2>3
<1>7. \A i \in DOMAIN q : q[i].op = "request" => i + 1 >= Len(q)
  <2> SUFFICES ASSUME NEW i \in DOMAIN q, q[i].op = "request" PROVE i + 1 >= Len(q)
    OBVIOUS
  <2>1. i - Len(a) \in DOMAIN d /\ d[i - Len(a)].op = "request"
    BY <1>1, <1>3
  <2>2. (i - Len(a)) + 1 >= Len(d)
    BY <2>1
  <2> QED
    BY <1>1, <1>3, <2>2
<1>8. Starts(q, k)
  BY <1>3, <1>5, <1>6, <1>7 DEF Starts
<1> QED
  BY <1>8 DEF q, a

\* What comes before the handlers.
LEMMA StartsFirst ==
    ASSUME NEW k \in Kinds, NEW a \in Seq(Steps), NEW b \in Seq(Steps), Starts(b, k),
           ~Has(a, "register"), \A s \in Hears(k) : HasFor(b, "register", s)
    PROVE  Starts(a \o b, k)
<1> DEFINE q == a \o b
<1>1. /\ Len(a) \in Nat /\ Len(b) \in Nat /\ DOMAIN a = 1 .. Len(a) /\ DOMAIN b = 1 .. Len(b)
      /\ Len(q) = Len(a) + Len(b) /\ DOMAIN q = 1 .. Len(a) + Len(b)
      /\ \A i \in DOMAIN a : q[i] = a[i]
      /\ \A i \in DOMAIN b : Len(a) + i \in DOMAIN q /\ q[Len(a) + i] = b[i]
      /\ \A i \in DOMAIN q : i \in DOMAIN a \/ (i - Len(a) \in DOMAIN b /\ q[i] = b[i - Len(a)])
  BY Joined
<1> HIDE DEF q
<1>2. \A i \in DOMAIN q : q[i].op = "register" => i - Len(a) \in DOMAIN b /\ q[i] = b[i - Len(a)]
  BY <1>1 DEF Has
<1>3. \A i \in DOMAIN q : q[i].op = "register" => q[i].sub \in Hears(k)
  BY <1>2 DEF Starts
<1>4. ASSUME NEW i \in DOMAIN q, NEW j \in DOMAIN q, i < j, q[i].op = "register"
      PROVE  /\ q[j].op = "register" => q[j].sub # q[i].sub
             /\ k = "rtt" => q[j].op = "started"
  <2>1. /\ i - Len(a) \in DOMAIN b /\ q[i] = b[i - Len(a)]
        /\ j - Len(a) \in DOMAIN b /\ q[j] = b[j - Len(a)]
        /\ i - Len(a) < j - Len(a)
    BY <1>1, <1>2, <1>4
  <2> QED
    BY <1>4, <2>1 DEF Starts
<1>5. ASSUME NEW i \in DOMAIN q, q[i].op = "request", i + 1 < Len(q), NEW s \in Hears(k)
      PROVE  \E j \in DOMAIN q : i < j /\ q[j].op = "register" /\ q[j].sub = s
  <2>1. CASE i \in DOMAIN a
    <3>1. PICK j \in DOMAIN b : b[j].op = "register" /\ b[j].sub = s
      BY DEF HasFor
    <3>2. Len(a) + j \in DOMAIN q /\ i < Len(a) + j
      BY <1>1, <2>1
    <3> QED
      BY <1>1, <3>1, <3>2
  <2>2. CASE i \notin DOMAIN a
    <3>1. /\ i - Len(a) \in DOMAIN b /\ q[i] = b[i - Len(a)]
          /\ (i - Len(a)) + 1 < Len(b)
      BY <1>1, <1>5, <2>2
    <3>2. PICK j \in DOMAIN b : i - Len(a) < j /\ b[j].op = "register" /\ b[j].sub = s
      BY <1>5, <3>1 DEF Starts
    <3>3. Len(a) + j \in DOMAIN q /\ i < Len(a) + j
      BY <1>1, <3>1, <3>2
    <3> QED
      BY <1>1, <3>2, <3>3
  <2> QED
    BY <2>1, <2>2
<1>6. Starts(q, k)
  BY <1>3, <1>4, <1>5 DEF Starts
<1> QED
  BY <1>6 DEF q

\* Pairs and triples as joined scripts.
LEMMA Tuples ==
    ASSUME NEW S, NEW a \in S, NEW b \in S, NEW c \in S
    PROVE  <<a, b>> = <<a>> \o <<b>> /\ <<a, b, c>> = <<a, b>> \o <<c>>
<1>1. <<a, b>> = <<a>> \o <<b>>
  <2> DEFINE l == <<a>> \o <<b>>
  <2>1. l \in Seq(S) /\ Len(l) = 2 /\ l[1] = a /\ l[2] = b
    OBVIOUS
  <2> HIDE DEF l
  <2>2. l = <<a, b>>
    BY <2>1
  <2> QED
    BY <2>2 DEF l
<1>2. <<a, b, c>> = <<a, b>> \o <<c>>
  OBVIOUS
<1> QED
  BY <1>1, <1>2

\* Joining scripts is associative.
LEMMA Regrouped ==
    ASSUME NEW a \in Seq(Steps), NEW b \in Seq(Steps), NEW c \in Seq(Steps)
    PROVE  (a \o b) \o c = a \o (b \o c)
BY ConcatAssociative

\* The script of a call that makes a command.
LEMMA StartScript ==
    ASSUME NEW k \in Kinds, NEW q, q = <<Op("save"), Op("saved")>> \o start(k) \o <<Op("started")>>
    PROVE  /\ q \in Seq(Steps) /\ Ordered(q) /\ Starts(q, k) /\ Head(q).op = "save" /\ q # <<>>
           /\ \A p : Has(q, p) => p \in {"save", "saved", "request", "register", "started"}
           /\ \A p \in {"save", "saved", "register", "started"} : Has(q, p)
           /\ \A s \in Hears(k) : HasFor(q, "register", s)
<1> DEFINE a == <<Op("save"), Op("saved")>>
           c == <<Op("started")>>
<1>1. /\ a \in Seq(Steps) /\ Ordered(a) /\ a # <<>> /\ Head(a).op = "save"
      /\ \A p : Has(a, p) <=> p \in {"save", "saved"}
  BY TwoSteps
<1>2. /\ c \in Seq(Steps) /\ Ordered(c) /\ c # <<>> /\ Head(c).op = "started" /\ Len(c) = 1
      /\ \A p : Has(c, p) <=> p = "started"
  BY OneStep, FollowFacts
<1>3. /\ Request \in Seq(Steps) /\ Ordered(Request) /\ Request # <<>>
      /\ Head(Request).op = "request"
      /\ \A p : Has(Request, p) <=> p = "request"
      /\ Len(Request) = 1
  BY OneStep, FollowFacts DEF Request
<1>4. /\ Register(k) \in Seq(Steps) /\ Ordered(Register(k)) /\ Register(k) # <<>>
      /\ Head(Register(k)).op = "register"
      /\ \A p : Has(Register(k), p) <=> p = "register"
      /\ \A s \in Hears(k) : HasFor(Register(k), "register", s)
  BY EachOrdered, EachFacts, FollowFacts DEF Register
<1>5. /\ <<>> \in Seq(Steps) /\ Ordered(<<>>) /\ \A p : ~Has(<<>>, p)
  BY HasFacts
<1> DEFINE before == {<<>>, Request, Request \o Request}
           after  == {<<>>, Request}
<1>6. \E b \in before, e \in after : start(k) = b \o Register(k) \o e /\ (k = "rtt" => e = <<>>)
  <2>1. k \in {"scan", "full", "hotlist", "epno", "change", "rssi", "rtt", "anqpo"}
    BY WifiAssumption DEF Subs
  <2>2. /\ <<>> \o Register(k) = Register(k)
        /\ Request \o Register(k) \in Seq(Steps)
        /\ Request \o Register(k) \o <<>> = Request \o Register(k)
    BY <1>3, <1>4, ConcatEmptySeq
  <2>3. CASE k = "scan"
    BY <2>3 DEF start
  <2>4. CASE k \in {"full", "anqpo"}
    BY <2>2, <2>4 DEF start
  <2>5. CASE k \in {"hotlist", "change"}
    BY <2>5 DEF start
  <2>6. CASE k \in {"epno", "rssi", "rtt"}
    BY <2>2, <2>6 DEF start
  <2> QED
    BY <2>1, <2>3, <2>4, <2>5, <2>6
<1>7. PICK b \in before, e \in after :
        start(k) = b \o Register(k) \o e /\ (k = "rtt" => e = <<>>)
  BY <1>6
<1>8. /\ b \in Seq(Steps) /\ Ordered(b) /\ \A p : Has(b, p) => p = "request"
      /\ b # <<>> => Head(b).op = "request"
  <2>1. CASE b \in {<<>>, Request}
    BY <1>3, <1>5, <2>1
  <2>2. CASE b = Request \o Request
    <3>1. Request \o Request \in Seq(Steps) /\ \A p : Has(Request \o Request, p) => p = "request"
      BY <1>3, Joined
    <3>2. Ordered(Request \o Request)
      BY <1>3, JoinedOrdered, FollowFacts
    <3>3. Request \o Request # <<>> => Head(Request \o Request).op = "request"
      BY <1>3, <3>1
    <3> QED
      BY <2>2, <3>1, <3>2, <3>3
  <2> QED
    BY <2>1, <2>2
<1>9. /\ e \in Seq(Steps) /\ Ordered(e) /\ \A p : Has(e, p) => p = "request"
      /\ e # <<>> => Head(e).op = "request" /\ Len(e) = 1 /\ k # "rtt"
  BY <1>3, <1>5, <1>7
<1> DEFINE r == Register(k)
<1> HIDE DEF a, c, r, before, after
<1> DEFINE d == e \o c
<1>10. /\ d \in Seq(Steps) /\ Ordered(d) /\ Has(d, "started")
       /\ \A p : Has(d, p) => p \in {"request", "started"}
       /\ \A i \in DOMAIN d : \/ d[i].op = "started"
                              \/ d[i].op = "request" /\ i + 1 >= Len(d) /\ k # "rtt"
  <2> HIDE DEF d
  <2>0. d = e \o c
    BY DEF d
  <2>1. /\ d \in Seq(Steps) /\ Len(d) = Len(e) + Len(c)
        /\ \A p : Has(d, p) <=> Has(e, p) \/ Has(c, p)
        /\ \A i \in DOMAIN d :
             i \in DOMAIN e \/ (i - Len(e) \in DOMAIN c /\ d[i] = c[i - Len(e)])
        /\ \A i \in DOMAIN e : d[i] = e[i]
    <3>1. e \in Seq(Steps) /\ c \in Seq(Steps)
      BY <1>2, <1>9
    <3> QED
      BY <2>0, <3>1, Joined
  <2>2. Ordered(d)
    BY <1>2, <1>9, <2>0, JoinedOrdered, FollowFacts
  <2>3. ASSUME NEW i \in DOMAIN d
        PROVE  \/ d[i].op = "started"
               \/ d[i].op = "request" /\ i + 1 >= Len(d) /\ k # "rtt"
    <3>1. CASE i \in DOMAIN e
      <4>1. e # <<>>
        BY <3>1
      <4>2. i = 1 /\ Len(d) = 2
        <5>1. Len(e) = 1 /\ Len(c) = 1 /\ e \in Seq(Steps)
          BY <1>2, <1>9, <4>1
        <5>2. Len(d) = Len(e) + Len(c)
          BY <2>1
        <5> QED
          BY <3>1, <5>1, <5>2
      <4>3. d[i] = e[i] /\ Has(e, e[i].op)
        BY <2>1, <3>1 DEF Has
      <4> QED
        BY <1>9, <4>1, <4>2, <4>3
    <3>2. CASE i \notin DOMAIN e
      <4>1. d[i] = c[i - Len(e)] /\ Has(c, c[i - Len(e)].op)
        BY <2>1, <3>2 DEF Has
      <4> QED
        BY <1>2, <4>1
    <3> QED
      BY <3>1, <3>2
  <2> QED
    BY <1>2, <1>9, <2>1, <2>2, <2>3
<1> HIDE DEF d
<1>11. d # <<>> => Head(d).op # "taken"
  <2>1. d # <<>> => Has(d, Head(d).op)
    BY <1>10, TailHas
  <2> QED
    BY <1>10, <2>1
<1>12. /\ r \o d \in Seq(Steps) /\ Ordered(r \o d) /\ Starts(r \o d, k)
       /\ \A p : Has(r \o d, p) <=> Has(d, p) \/ p = "register"
       /\ \A s \in Hears(k) : HasFor(r \o d, "register", s)
       /\ Head(r \o d).op = "register"
  <2>1. Ordered(r \o d)
    <3>1. r \in Seq(Steps) /\ Ordered(r) /\ \A p : Has(r, p) <=> p = "register"
      BY <1>4 DEF r
    <3>2. \A o, p : Has(r, o) /\ Has(d, p) => p \in Follow[o]
      BY <1>10, <3>1, FollowFacts
    <3> QED
      BY <1>10, <1>11, <3>1, <3>2, JoinedOrdered
  <2>2. Starts(r \o d, k)
    BY <1>10, StartsLast DEF r
  <2>3. Head(r \o d) = Head(r)
    BY <1>4, <1>10 DEF r
  <2> QED
    BY <1>4, <1>10, <2>1, <2>2, <2>3, Joined DEF r
<1>13. /\ b \o (r \o d) \in Seq(Steps) /\ Ordered(b \o (r \o d)) /\ Starts(b \o (r \o d), k)
       /\ \A p : Has(b \o (r \o d), p) <=> Has(b, p) \/ Has(d, p) \/ p = "register"
       /\ \A s \in Hears(k) : HasFor(b \o (r \o d), "register", s)
  <2>1. Ordered(b \o (r \o d))
    <3>1. \A o, p : Has(b, o) /\ Has(r \o d, p) => p \in Follow[o]
      BY <1>8, <1>10, <1>12, FollowFacts
    <3>2. r \o d # <<>> => Head(r \o d).op # "taken"
      BY <1>12
    <3> QED
      BY <1>8, <1>12, <3>1, <3>2, JoinedOrdered
  <2>2. Starts(b \o (r \o d), k)
    BY <1>8, <1>12, StartsFirst
  <2> QED
    BY <1>8, <1>12, <2>1, <2>2, Joined
<1> DEFINE w == b \o (r \o d)
<1>14. q = a \o w
  <2>1. q = (a \o ((b \o r) \o e)) \o c
    BY <1>7 DEF a, c, r
  <2>2. r \in Seq(Steps) /\ b \o r \in Seq(Steps) /\ (b \o r) \o e \in Seq(Steps)
    BY <1>4, <1>8, <1>9, ConcatProperties DEF r
  <2>3. (a \o ((b \o r) \o e)) \o c = a \o (((b \o r) \o e) \o c)
    BY <1>1, <1>2, <2>2, Regrouped
  <2>4. ((b \o r) \o e) \o c = (b \o r) \o d
    BY <1>2, <1>9, <2>2, Regrouped DEF d
  <2>5. (b \o r) \o d = w
    BY <1>8, <1>10, <2>2, Regrouped
  <2> QED
    BY <2>1, <2>3, <2>4, <2>5
<1> HIDE DEF w
<1>15. /\ w \in Seq(Steps) /\ Ordered(w) /\ Starts(w, k)
       /\ \A p : Has(w, p) <=> Has(b, p) \/ Has(d, p) \/ p = "register"
       /\ \A s \in Hears(k) : HasFor(w, "register", s)
  BY <1>13 DEF w
<1>16. \A p : Has(w, p) => p \in {"request", "register", "started"}
  BY <1>8, <1>10, <1>15
<1>17. w # <<>> => Head(w).op # "taken"
  <2>1. w # <<>> => Has(w, Head(w).op)
    BY <1>15, TailHas
  <2> QED
    BY <1>16, <2>1
<1>18. /\ a \o w \in Seq(Steps)
       /\ \A p : Has(a \o w, p) <=> p \in {"save", "saved"} \/ Has(w, p)
       /\ \A s \in Hears(k) : HasFor(a \o w, "register", s)
  BY <1>1, <1>15, Joined DEF a
<1>19. Ordered(a \o w)
  <2>1. \A o, p : Has(a, o) /\ Has(w, p) => p \in Follow[o]
    BY <1>1, <1>16, FollowFacts DEF a
  <2> QED
    BY <1>1, <1>15, <1>17, <2>1, JoinedOrdered DEF a
<1>20. Starts(a \o w, k)
  BY <1>1, <1>15, StartsFirst
<1>21. a \o w # <<>> /\ Head(a \o w) = Head(a)
  BY <1>1, <1>15 DEF a
<1> QED
  BY <1>1, <1>10, <1>14, <1>15, <1>16, <1>18, <1>19, <1>20, <1>21

\* cancel() stops the feature and takes every handler away.
LEMMA CancelScript ==
    ASSUME NEW k \in Kinds
    PROVE  /\ cancel(k) \in Seq(Steps) /\ Ordered(cancel(k)) /\ cancel(k) # <<>>
           /\ Head(cancel(k)).op \in {"unregister", "stop"}
           /\ \A p : Has(cancel(k), p) <=> p \in {"unregister", "stop"}
           /\ \A p, s : HasFor(cancel(k), p, s) <=>
                          (p = "unregister" /\ s \in Hears(k)) \/ (p = "stop" /\ s = "-")
<1>1. /\ StopRequest \in Seq(Steps) /\ Ordered(StopRequest)
      /\ StopRequest # <<>> /\ Head(StopRequest).op = "stop"
      /\ \A p : Has(StopRequest, p) <=> p = "stop"
      /\ \A p, s : HasFor(StopRequest, p, s) <=> p = "stop" /\ s = "-"
  BY OneStep, FollowFacts DEF StopRequest
<1>2. /\ Unregister(k) \in Seq(Steps) /\ Ordered(Unregister(k)) /\ Unregister(k) # <<>>
      /\ Head(Unregister(k)).op = "unregister"
      /\ \A p : Has(Unregister(k), p) <=> p = "unregister"
      /\ \A p, s : HasFor(Unregister(k), p, s) <=> p = "unregister" /\ s \in Hears(k)
  BY EachOrdered, EachFacts, FollowFacts DEF Unregister
<1>3. CASE cancel(k) = Unregister(k) \o StopRequest
  <2>1. Ordered(Unregister(k) \o StopRequest)
    BY <1>1, <1>2, JoinedOrdered, FollowFacts
  <2>2. /\ Unregister(k) \o StopRequest # <<>>
        /\ Head(Unregister(k) \o StopRequest) = Head(Unregister(k))
    BY <1>1, <1>2
  <2>3. Unregister(k) \in Seq(Steps) /\ StopRequest \in Seq(Steps)
    BY <1>1, <1>2
  <2>4. /\ Unregister(k) \o StopRequest \in Seq(Steps)
        /\ \A p : Has(Unregister(k) \o StopRequest, p) <=>
                    Has(Unregister(k), p) \/ Has(StopRequest, p)
        /\ \A p, s : HasFor(Unregister(k) \o StopRequest, p, s) <=>
                       HasFor(Unregister(k), p, s) \/ HasFor(StopRequest, p, s)
    BY <2>3, Joined
  <2> QED
    <3>1. /\ cancel(k) \in Seq(Steps) /\ Ordered(cancel(k)) /\ cancel(k) # <<>>
          /\ Head(cancel(k)).op \in {"unregister", "stop"}
      BY <1>1, <1>2, <1>3, <2>1, <2>2, <2>4
    <3>2. \A p : Has(cancel(k), p) <=> p \in {"unregister", "stop"}
      BY <1>1, <1>2, <1>3, <2>4
    <3>3. \A p, s : HasFor(cancel(k), p, s) <=>
                      (p = "unregister" /\ s \in Hears(k)) \/ (p = "stop" /\ s = "-")
      BY <1>1, <1>2, <1>3, <2>4
    <3> QED
      BY <3>1, <3>2, <3>3
<1>4. CASE cancel(k) = StopRequest \o Unregister(k)
  <2>1. Ordered(StopRequest \o Unregister(k))
    BY <1>1, <1>2, JoinedOrdered, FollowFacts
  <2>2. /\ StopRequest \o Unregister(k) # <<>>
        /\ Head(StopRequest \o Unregister(k)) = Head(StopRequest)
    BY <1>1, <1>2
  <2>3. Unregister(k) \in Seq(Steps) /\ StopRequest \in Seq(Steps)
    BY <1>1, <1>2
  <2>4. /\ StopRequest \o Unregister(k) \in Seq(Steps)
        /\ \A p : Has(StopRequest \o Unregister(k), p) <=>
                    Has(StopRequest, p) \/ Has(Unregister(k), p)
        /\ \A p, s : HasFor(StopRequest \o Unregister(k), p, s) <=>
                       HasFor(StopRequest, p, s) \/ HasFor(Unregister(k), p, s)
    BY <2>3, Joined
  <2> QED
    <3>1. /\ cancel(k) \in Seq(Steps) /\ Ordered(cancel(k)) /\ cancel(k) # <<>>
          /\ Head(cancel(k)).op \in {"unregister", "stop"}
      BY <1>1, <1>2, <1>4, <2>1, <2>2, <2>4
    <3>2. \A p : Has(cancel(k), p) <=> p \in {"unregister", "stop"}
      BY <1>1, <1>2, <1>4, <2>4
    <3>3. \A p, s : HasFor(cancel(k), p, s) <=>
                      (p = "unregister" /\ s \in Hears(k)) \/ (p = "stop" /\ s = "-")
      BY <1>1, <1>2, <1>4, <2>4
    <3> QED
      BY <3>1, <3>2, <3>3
<1> QED
  BY <1>3, <1>4 DEF cancel

\* The script of wifi_cancel_cmd.
LEMMA CancelCmdScript ==
    ASSUME NEW k \in Kinds, NEW q,
           q = <<Op("take"), Op("taken")>> \o cancel(k) \o <<Op("ended"), Op("release")>>
    PROVE  /\ q \in Seq(Steps) /\ Ordered(q) /\ q # <<>> /\ Head(q).op = "take"
           /\ \A p : Has(q, p) <=> p \in {"take", "taken", "unregister", "stop", "ended", "release"}
           /\ \A s : HasFor(q, "unregister", s) <=> s \in Hears(k)
<1> DEFINE a == <<Op("take"), Op("taken")>>
           e == <<Op("ended"), Op("release")>>
<1>1. /\ a \in Seq(Steps) /\ Ordered(a) /\ a # <<>> /\ Head(a).op = "take"
      /\ \A p : Has(a, p) <=> p \in {"take", "taken"}
      /\ \A s : ~HasFor(a, "unregister", s)
  BY TwoSteps
<1>2. /\ e \in Seq(Steps) /\ Ordered(e) /\ e # <<>> /\ Head(e).op = "ended"
      /\ \A p : Has(e, p) <=> p \in {"ended", "release"}
      /\ \A s : ~HasFor(e, "unregister", s)
  <2>1. /\ <<Op("ended")>> \in Seq(Steps) /\ Ordered(<<Op("ended")>>)
        /\ \A p : Has(<<Op("ended")>>, p) <=> p = "ended"
        /\ Op("ended").op = "ended" /\ Op("ended") \in Steps
    BY OneStep, FollowFacts DEF Op, Steps
  <2>2. /\ <<Op("release")>> \in Seq(Steps) /\ Ordered(<<Op("release")>>)
        /\ <<Op("release")>> # <<>> /\ Head(<<Op("release")>>).op = "release"
        /\ \A p : Has(<<Op("release")>>, p) <=> p = "release"
        /\ Op("release") \in Steps
    BY OneStep, FollowFacts DEF Op, Steps
  <2>3. e = <<Op("ended")>> \o <<Op("release")>>
    BY <2>1, <2>2, Tuples
  <2>4. e # <<>> /\ Head(e).op = "ended"
    BY <2>1
  <2> HIDE DEF e
  <2>5. /\ e \in Seq(Steps) /\ \A p : Has(e, p) <=> p \in {"ended", "release"}
    BY <2>1, <2>2, <2>3, Joined
  <2>6. Ordered(e)
    BY <2>1, <2>2, <2>3, JoinedOrdered, FollowFacts
  <2> QED
    BY <2>4, <2>5, <2>6, HasFacts
<1>3. /\ cancel(k) \in Seq(Steps) /\ Ordered(cancel(k)) /\ cancel(k) # <<>>
      /\ Head(cancel(k)).op \in {"unregister", "stop"}
      /\ \A p : Has(cancel(k), p) <=> p \in {"unregister", "stop"}
      /\ \A s : HasFor(cancel(k), "unregister", s) <=> s \in Hears(k)
  BY CancelScript
<1> HIDE DEF a, e
<1>4. /\ a \o cancel(k) \in Seq(Steps)
      /\ \A p : Has(a \o cancel(k), p) <=> p \in {"take", "taken", "unregister", "stop"}
      /\ \A s : HasFor(a \o cancel(k), "unregister", s) <=> s \in Hears(k)
  BY <1>1, <1>3, Joined
<1>5. Ordered(a \o cancel(k))
  BY <1>1, <1>3, JoinedOrdered, FollowFacts
<1>6. a \o cancel(k) # <<>> /\ Head(a \o cancel(k)) = Head(a)
  BY <1>1, <1>3
<1> DEFINE b == a \o cancel(k)
<1>7. /\ b \in Seq(Steps) /\ b # <<>> /\ Head(b).op = "take" /\ Ordered(b)
      /\ \A p : Has(b, p) <=> p \in {"take", "taken", "unregister", "stop"}
      /\ \A s : HasFor(b, "unregister", s) <=> s \in Hears(k)
  BY <1>1, <1>4, <1>5, <1>6
<1>8. q = b \o e
  BY DEF a, e
<1> HIDE DEF b
<1>9. /\ b \in Seq(Steps) /\ e \in Seq(Steps) /\ Ordered(b) /\ Ordered(e)
      /\ Head(e).op # "taken"
  BY <1>2, <1>7
<1>10. Ordered(b \o e)
  <2>1. \A o, p : Has(b, o) /\ Has(e, p) => p \in Follow[o]
    BY <1>2, <1>7, FollowFacts
  <2> QED
    BY <1>9, <2>1, JoinedOrdered
<1>11. b \o e # <<>> /\ Head(b \o e) = Head(b)
  BY <1>2, <1>7
<1>12. /\ b \o e \in Seq(Steps)
       /\ \A p : Has(b \o e, p) <=> Has(b, p) \/ Has(e, p)
       /\ \A s : HasFor(b \o e, "unregister", s) <=>
                   HasFor(b, "unregister", s) \/ HasFor(e, "unregister", s)
  BY <1>9, Joined
<1>13. \A p : Has(b \o e, p) <=>
                p \in {"take", "taken", "unregister", "stop", "ended", "release"}
  BY <1>2, <1>7, <1>12
<1>14. \A s : HasFor(b \o e, "unregister", s) <=> s \in Hears(k)
  BY <1>2, <1>7, <1>12
<1> QED
  BY <1>7, <1>8, <1>10, <1>11, <1>12, <1>13, <1>14

\* What is left of a start that failed: the handlers there are go, then the
\* entry of the table and the reference.
Undone(q, k) ==
    /\ q \in Seq(Steps) /\ Ordered(q) /\ q # <<>> /\ Head(q).op \in {"unregister", "take"}
    /\ \A p : Has(q, p) => p \in {"unregister", "take", "taken", "release"}
    /\ \A p \in {"take", "taken", "release"} : Has(q, p)
    /\ \A s : HasFor(q, "unregister", s) => s \in Hears(k)

\* The script takes away the handlers of every event of k.
UndoneAll(q, k) == \A s \in Hears(k) : HasFor(q, "unregister", s)

\* The script of a start that failed: back, or not, go the handlers, then the
\* entry of the table and the reference.
LEMMA FailScript ==
    ASSUME NEW k \in Kinds, NEW u, u \in {<<>>, Unregister(k)}, NEW rest
    PROVE  /\ Undone(u \o Fail(rest), k)
           /\ u = Unregister(k) => UndoneAll(u \o Fail(rest), k)
<1> SUFFICES ASSUME NEW q, q = u \o Fail(rest)
             PROVE  /\ q \in Seq(Steps) /\ Ordered(q) /\ q # <<>>
                    /\ Head(q).op \in {"unregister", "take"}
                    /\ \A p : Has(q, p) => p \in {"unregister", "take", "taken", "release"}
                    /\ \A p \in {"take", "taken", "release"} : Has(q, p)
                    /\ \A s : HasFor(q, "unregister", s) => s \in Hears(k)
                    /\ u = Unregister(k) => \A s \in Hears(k) : HasFor(q, "unregister", s)
  BY DEF Undone, UndoneAll
<1> DEFINE a == <<Op("take"), Op("taken")>>
           r == <<Op("release")>>
<1>1. /\ a \in Seq(Steps) /\ Ordered(a) /\ a # <<>> /\ Head(a).op = "take"
      /\ \A p : Has(a, p) <=> p \in {"take", "taken"}
      /\ \A s : ~HasFor(a, "unregister", s)
  BY TwoSteps
<1>2. /\ r \in Seq(Steps) /\ Ordered(r) /\ r # <<>> /\ Head(r).op = "release"
      /\ \A p : Has(r, p) <=> p = "release"
      /\ \A s : ~HasFor(r, "unregister", s)
  BY OneStep, FollowFacts
<1>3. Fail(rest) = a \o r
  <2>1. Op("take") \in Steps /\ Op("taken") \in Steps /\ Op("release") \in Steps
    BY FollowFacts DEF Op, Steps
  <2> QED
    <3>1. Fail(rest) = <<Op("take"), Op("taken"), Op("release")>>
      BY Zenon DEF Fail
    <3>2. <<Op("take"), Op("taken"), Op("release")>>
            = <<Op("take"), Op("taken")>> \o <<Op("release")>>
      BY <2>1, Tuples, SMTT(20)
    <3> QED
      BY <3>1, <3>2, Zenon
<1> HIDE DEF a, r
<1> DEFINE f == a \o r
<1>4. /\ f \in Seq(Steps) /\ \A p : Has(f, p) <=> p \in {"take", "taken", "release"}
      /\ \A s : ~HasFor(f, "unregister", s)
  BY <1>1, <1>2, Joined
<1>5. Ordered(f)
  BY <1>1, <1>2, JoinedOrdered, FollowFacts
<1>6. f # <<>> /\ Head(f) = Head(a)
  BY <1>1, <1>2
<1>7. Head(f).op = "take"
  BY <1>1, <1>6
<1>8. /\ Unregister(k) \in Seq(Steps) /\ Ordered(Unregister(k)) /\ Unregister(k) # <<>>
      /\ Head(Unregister(k)).op = "unregister"
      /\ \A p : Has(Unregister(k), p) <=> p = "unregister"
      /\ \A s : HasFor(Unregister(k), "unregister", s) <=> s \in Hears(k)
  BY EachOrdered, EachFacts, FollowFacts DEF Unregister
<1>9. q = u \o f
  BY <1>3
<1> HIDE DEF f
<1>10. CASE u = <<>>
  <2>1. q = f
    BY <1>4, <1>9, <1>10, ConcatEmptySeq
  <2> QED
    BY <1>4, <1>5, <1>6, <1>7, <1>8, <1>10, <2>1
<1>11. CASE u = Unregister(k)
  <2>1. Ordered(q)
    BY <1>4, <1>5, <1>7, <1>8, <1>9, <1>11, JoinedOrdered, FollowFacts
  <2>2. q # <<>> /\ Head(q) = Head(Unregister(k))
    BY <1>4, <1>6, <1>8, <1>9, <1>11
  <2>3. /\ q \in Seq(Steps)
        /\ \A p : Has(q, p) <=> Has(Unregister(k), p) \/ Has(f, p)
        /\ \A s : HasFor(q, "unregister", s) <=>
                    HasFor(Unregister(k), "unregister", s) \/ HasFor(f, "unregister", s)
    BY <1>4, <1>8, <1>9, <1>11, Joined
  <2> QED
    BY <1>4, <1>8, <2>1, <2>2, <2>3
<1> QED
  BY <1>10, <1>11

\* What cleanup does with a command of kind k, and the rest of its sweep.
Cancelling(q, k) ==
    /\ q \in Seq(Steps) /\ Ordered(q) /\ q # <<>>
    /\ Head(q).op \in {"unregister", "stop"}
    /\ \A p : Has(q, p) <=> p \in {"unregister", "stop", "swept", "sweep"}
    /\ \A s : HasFor(q, "unregister", s) <=> s \in Hears(k)

\* The cancellation of a command in wifi_cleanup, before the rest of the sweep.
LEMMA SweepScript ==
    ASSUME NEW k \in Kinds, NEW d \in Seq(Steps), Ordered(d), d # <<>>, Head(d).op = "sweep"
    PROVE  Cancelling(cancel(k) \o <<Op("swept")>> \o d, k)
<1> SUFFICES ASSUME NEW q, q = cancel(k) \o <<Op("swept")>> \o d
             PROVE  /\ q \in Seq(Steps) /\ Ordered(q) /\ q # <<>>
                    /\ Head(q).op \in {"unregister", "stop"}
                    /\ \A p : Has(q, p) <=> p \in {"unregister", "stop", "swept", "sweep"}
                    /\ \A s : HasFor(q, "unregister", s) <=> s \in Hears(k)
  BY DEF Cancelling
<1> DEFINE a == cancel(k)
           w == <<Op("swept")>>
<1>1. /\ a \in Seq(Steps) /\ Ordered(a) /\ a # <<>> /\ Head(a).op \in {"unregister", "stop"}
      /\ \A p : Has(a, p) <=> p \in {"unregister", "stop"}
      /\ \A s : HasFor(a, "unregister", s) <=> s \in Hears(k)
  BY CancelScript
<1>2. /\ w \in Seq(Steps) /\ Ordered(w) /\ w # <<>> /\ Head(w).op = "swept"
      /\ \A p : Has(w, p) <=> p = "swept"
      /\ \A s : ~HasFor(w, "unregister", s)
  BY OneStep, FollowFacts
<1>3. /\ \A p : Has(d, p) <=> p = "sweep"
      /\ \A s : ~HasFor(d, "unregister", s)
  <2>1. \A p : Has(Tail(d), p) => p \in Follow["sweep"]
    BY TailOrdered
  <2>2. \A p : Has(d, p) <=> p = "sweep"
    BY <2>1, TailHas, FollowFacts
  <2> QED
    BY <2>2, HasFacts
<1> HIDE DEF a, w
<1> DEFINE v == w \o d
<1>4. /\ w \o d \in Seq(Steps) /\ \A p : Has(w \o d, p) <=> Has(w, p) \/ Has(d, p)
      /\ \A s : HasFor(w \o d, "unregister", s) <=>
                  HasFor(w, "unregister", s) \/ HasFor(d, "unregister", s)
  BY <1>2, Joined
<1>5. Ordered(w \o d)
  <2>1. \A o, p : Has(w, o) /\ Has(d, p) => p \in Follow[o]
    BY <1>2, <1>3, FollowFacts
  <2> QED
    BY <1>2, <2>1, JoinedOrdered
<1>6. w \o d # <<>> /\ Head(w \o d) = Head(w)
  BY <1>2
<1>7. /\ v \in Seq(Steps) /\ Ordered(v) /\ v # <<>> /\ Head(v).op = "swept"
      /\ \A p : Has(v, p) <=> p \in {"swept", "sweep"}
      /\ \A s : ~HasFor(v, "unregister", s)
  BY <1>2, <1>3, <1>4, <1>5, <1>6
<1>8. q = a \o v
  <2>1. q = (a \o w) \o d
    BY DEF a, w
  <2> QED
    BY <1>1, <1>2, <2>1, Regrouped
<1> HIDE DEF v
<1>9. /\ a \o v \in Seq(Steps) /\ \A p : Has(a \o v, p) <=> Has(a, p) \/ Has(v, p)
      /\ \A s : HasFor(a \o v, "unregister", s) <=>
                  HasFor(a, "unregister", s) \/ HasFor(v, "unregister", s)
  BY <1>1, <1>7, Joined
<1>10. Ordered(a \o v)
  <2>1. \A o, p : Has(a, o) /\ Has(v, p) => p \in Follow[o]
    BY <1>1, <1>7, FollowFacts
  <2> QED
    BY <1>1, <1>7, <2>1, JoinedOrdered
<1>11. a \o v # <<>> /\ Head(a \o v) = Head(a)
  BY <1>1, <1>7
<1>12. \A p : Has(a \o v, p) <=> p \in {"unregister", "stop", "swept", "sweep"}
  BY <1>1, <1>7, <1>9
<1>13. \A s : HasFor(a \o v, "unregister", s) <=> s \in Hears(k)
  BY <1>1, <1>7, <1>9
<1> QED
  BY <1>1, <1>8, <1>9, <1>10, <1>11, <1>12, <1>13

\* The script of a command of its own that stops a feature.
LEMMA AnonymousScript ==
    ASSUME NEW k \in Kinds, NEW q,
           q = cancel(k) \o IF k = "rtt" THEN <<Op("forget")>> ELSE <<>>
    PROVE  /\ q \in Seq(Steps) /\ Ordered(q) /\ q # <<>>
           /\ Head(q).op \in {"unregister", "stop"}
           /\ \A p : Has(q, p) <=> p \in {"unregister", "stop"} \/ (p = "forget" /\ k = "rtt")
           /\ \A s : HasFor(q, "unregister", s) <=> s \in Hears(k)
<1> DEFINE a == cancel(k)
           w == <<Op("forget")>>
<1>1. /\ a \in Seq(Steps) /\ Ordered(a) /\ a # <<>> /\ Head(a).op \in {"unregister", "stop"}
      /\ \A p : Has(a, p) <=> p \in {"unregister", "stop"}
      /\ \A s : HasFor(a, "unregister", s) <=> s \in Hears(k)
  BY CancelScript
<1>2. /\ w \in Seq(Steps) /\ Ordered(w) /\ w # <<>> /\ Head(w).op = "forget"
      /\ \A p : Has(w, p) <=> p = "forget"
      /\ \A s : ~HasFor(w, "unregister", s)
  BY OneStep, FollowFacts
<1>3. CASE k # "rtt"
  <2>1. q = a
    BY <1>1, <1>3, ConcatEmptySeq
  <2> QED
    BY <1>1, <1>3, <2>1
<1>4. CASE k = "rtt"
  <2>1. q = a \o w
    BY <1>4
  <2> HIDE DEF a, w
  <2>2. /\ a \o w \in Seq(Steps) /\ \A p : Has(a \o w, p) <=> Has(a, p) \/ Has(w, p)
        /\ \A s : HasFor(a \o w, "unregister", s) <=>
                    HasFor(a, "unregister", s) \/ HasFor(w, "unregister", s)
    BY <1>1, <1>2, Joined
  <2>3. Ordered(a \o w)
    <3>1. \A o, p : Has(a, o) /\ Has(w, p) => p \in Follow[o]
      BY <1>1, <1>2, FollowFacts
    <3> QED
      BY <1>1, <1>2, <3>1, JoinedOrdered
  <2>4. a \o w # <<>> /\ Head(a \o w) = Head(a)
    BY <1>1, <1>2
  <2>5. \A p : Has(a \o w, p) <=> p \in {"unregister", "stop"} \/ (p = "forget" /\ k = "rtt")
    BY <1>1, <1>2, <1>4, <2>2
  <2>6. \A s : HasFor(a \o w, "unregister", s) <=> s \in Hears(k)
    BY <1>1, <1>2, <2>2
  <2> QED
    BY <1>1, <2>1, <2>2, <2>3, <2>4, <2>5, <2>6
<1> QED
  BY <1>3, <1>4

\* The script of wifi_cleanup.
LEMMA CleanupScript ==
    ASSUME NEW q, q = <<Op("wait"), Op("sweep")>>
    PROVE  /\ q \in Seq(Steps) /\ Ordered(q) /\ q # <<>> /\ Head(q).op = "wait" /\ Len(q) = 2
           /\ \A p : Has(q, p) <=> p \in {"wait", "sweep"}
           /\ \A s : ~HasFor(q, "unregister", s)
<1> DEFINE a == <<Op("wait")>>
           w == <<Op("sweep")>>
<1>1. /\ a \in Seq(Steps) /\ Ordered(a) /\ a # <<>> /\ Head(a).op = "wait"
      /\ \A p : Has(a, p) <=> p = "wait"
  BY OneStep, FollowFacts
<1>2. /\ w \in Seq(Steps) /\ Ordered(w) /\ w # <<>> /\ Head(w).op = "sweep"
      /\ \A p : Has(w, p) <=> p = "sweep"
  BY OneStep, FollowFacts
<1>3. q = a \o w /\ Len(q) = 2
  <2>1. Op("wait") \in Steps /\ Op("sweep") \in Steps
    BY FollowFacts DEF Op, Steps
  <2> QED
    BY <2>1, Tuples
<1> HIDE DEF a, w
<1>4. a \o w \in Seq(Steps) /\ \A p : Has(a \o w, p) <=> p \in {"wait", "sweep"}
  BY <1>1, <1>2, Joined
<1>5. Ordered(a \o w)
  <2>1. \A o, p : Has(a, o) /\ Has(w, p) => p \in Follow[o]
    BY <1>1, <1>2, FollowFacts
  <2> QED
    BY <1>1, <1>2, <2>1, JoinedOrdered
<1>6. a \o w # <<>> /\ Head(a \o w) = Head(a)
  BY <1>1, <1>2
<1>7. \A s : ~HasFor(a \o w, "unregister", s)
  BY <1>4, HasFacts
<1> QED
  BY <1>1, <1>3, <1>4, <1>5, <1>6, <1>7

-----------------------------------------------------------------------------
(* The handlers.                                                           *)

\* The handlers of some commands, one for each event.
HandlerLists(n) == Seq([sub : AllSubs, cmd : 1..n])
OneEach(f) == \A i, j \in DOMAIN f : f[i].sub = f[j].sub => i = j

\* wifi_register_vendor_handler of an event nobody hears.
LEMMA RegisterHandler ==
    ASSUME NEW n, event_cb \in HandlerLists(n), OneEach(event_cb), NEW s \in AllSubs,
           NEW c \in 1..n, \A h \in Heard : h.sub # s, wifi_register_vendor_handler(s, c)
    PROVE  /\ event_cb' \in HandlerLists(n) /\ OneEach(event_cb')
           /\ Heard' = Heard \cup {[sub |-> s, cmd |-> c]}
<1> DEFINE H == [sub : AllSubs, cmd : 1..n]
           x == [sub |-> s, cmd |-> c]
<1>1. x \in H /\ x.sub = s
  OBVIOUS
<1>2. event_cb \in Seq(H) /\ event_cb' = Append(event_cb, x)
  BY DEF HandlerLists, wifi_register_vendor_handler
<1> HIDE DEF H, x
<1>3. /\ event_cb' \in Seq(H) /\ Len(event_cb) \in Nat /\ DOMAIN event_cb = 1 .. Len(event_cb)
      /\ DOMAIN event_cb' = 1 .. Len(event_cb) + 1
      /\ \A i \in DOMAIN event_cb : event_cb'[i] = event_cb[i]
      /\ event_cb'[Len(event_cb) + 1] = x
  BY <1>1, <1>2
<1>4. \A i \in DOMAIN event_cb' : i \in DOMAIN event_cb \/ i = Len(event_cb) + 1
  BY <1>3
<1>5. \A i \in DOMAIN event_cb : event_cb[i].sub # s
  BY DEF Heard
<1>6. OneEach(event_cb')
  BY <1>1, <1>3, <1>4, <1>5 DEF OneEach
<1>7. Heard' = Heard \cup {x}
  <2>1. \A h \in Heard' : h \in Heard \cup {x}
    BY <1>3, <1>4 DEF Heard
  <2>2. \A h \in Heard : h \in Heard'
    BY <1>3 DEF Heard
  <2>3. x \in Heard'
    BY <1>3 DEF Heard
  <2> QED
    BY <2>1, <2>2, <2>3
<1> QED
  BY <1>3, <1>6, <1>7 DEF HandlerLists, H, x

\* wifi_unregister_vendor_handler: the event has at most one handler.
LEMMA UnregisterHandler ==
    ASSUME NEW n, event_cb \in HandlerLists(n), OneEach(event_cb), NEW s,
           wifi_unregister_vendor_handler(s)
    PROVE  /\ event_cb' \in HandlerLists(n) /\ OneEach(event_cb')
           /\ Heard' = {h \in Heard : h.sub # s}
<1> DEFINE H == [sub : AllSubs, cmd : 1..n]
<1>1. event_cb \in Seq(H) /\ Len(event_cb) \in Nat /\ DOMAIN event_cb = 1 .. Len(event_cb)
  BY DEF HandlerLists
<1> HIDE DEF H
<1>2. CASE HandlersOf(s) = {}
  <2>1. event_cb' = event_cb
    BY <1>2 DEF wifi_unregister_vendor_handler
  <2>2. \A h \in Heard : h.sub # s
    BY <1>2 DEF Heard, HandlersOf
  <2> QED
    BY <2>1, <2>2 DEF Heard
<1>3. CASE HandlersOf(s) # {}
  <2>1. PICK p : p \in HandlersOf(s)
    BY <1>3
  <2>2. p \in 1 .. Len(event_cb) /\ event_cb[p].sub = s
    BY <1>1, <2>1 DEF HandlersOf
  <2>3. \A j \in HandlersOf(s) : j = p
    BY <2>1 DEF HandlersOf, OneEach
  <2>4. First(HandlersOf(s)) = p
    <3>1. \A j \in HandlersOf(s) : p <= j
      BY <2>2, <2>3
    <3> QED
      BY <2>1, <2>3, <3>1 DEF First
  <2>5. event_cb' = SubSeq(event_cb, 1, p - 1) \o SubSeq(event_cb, p + 1, Len(event_cb))
    BY <1>3, <2>4 DEF wifi_unregister_vendor_handler, RemoveAt
  <2>6. /\ SubSeq(event_cb, 1, p - 1) \in Seq(H) /\ Len(SubSeq(event_cb, 1, p - 1)) = p - 1
        /\ \A i \in 1 .. p - 1 : SubSeq(event_cb, 1, p - 1)[i] = event_cb[i]
    BY <1>1, <2>2
  <2>7. /\ SubSeq(event_cb, p + 1, Len(event_cb)) \in Seq(H)
        /\ Len(SubSeq(event_cb, p + 1, Len(event_cb))) = Len(event_cb) - p
        /\ \A i \in 1 .. Len(event_cb) - p :
             SubSeq(event_cb, p + 1, Len(event_cb))[i] = event_cb[p + i]
    <3> DEFINE l == Len(event_cb)
               m == p + 1
    <3>1. l \in Nat /\ m \in 1 .. l + 1 /\ \A i \in m .. l : i \in DOMAIN event_cb
      BY <1>1, <2>2
    <3> HIDE DEF l, m
    <3>3. /\ SubSeq(event_cb, m, l) \in Seq(H)
          /\ Len(SubSeq(event_cb, m, l)) = IF m <= l THEN l - m + 1 ELSE 0
          /\ \A i \in 1 .. l - m + 1 : SubSeq(event_cb, m, l)[i] = event_cb[m + i - 1]
      BY <1>1, <3>1, SubSeqProperties
    <3> QED
      BY <2>2, <3>1, <3>3 DEF l, m
  <2>8. /\ event_cb' \in Seq(H) /\ DOMAIN event_cb' = 1 .. Len(event_cb) - 1
        /\ \A i \in 1 .. p - 1 : event_cb'[i] = event_cb[i]
        /\ \A i \in p .. Len(event_cb) - 1 : event_cb'[i] = event_cb[i + 1]
    <3> DEFINE a == SubSeq(event_cb, 1, p - 1)
               b == SubSeq(event_cb, p + 1, Len(event_cb))
    <3>1. /\ a \in Seq(H) /\ Len(a) = p - 1 /\ b \in Seq(H) /\ Len(b) = Len(event_cb) - p
          /\ \A i \in 1 .. p - 1 : a[i] = event_cb[i]
          /\ \A i \in 1 .. Len(event_cb) - p : b[i] = event_cb[p + i]
          /\ event_cb' = a \o b
      BY <2>5, <2>6, <2>7
    <3> HIDE DEF a, b
    <3>2. /\ event_cb' \in Seq(H) /\ Len(event_cb') = Len(a) + Len(b)
          /\ \A i \in 1 .. Len(a) : event_cb'[i] = a[i]
          /\ \A i \in 1 .. Len(b) : event_cb'[Len(a) + i] = b[i]
      <4>1. /\ event_cb' \in Seq(H) /\ Len(event_cb') = Len(a) + Len(b)
            /\ Len(a) \in Nat /\ Len(b) \in Nat
        <5>1. a \in Seq(H) /\ b \in Seq(H)
          BY <3>1
        <5>2. a \o b \in Seq(H) /\ Len(a \o b) = Len(a) + Len(b)
          BY <5>1, ConcatProperties
        <5> QED
          BY <3>1, <5>1, <5>2
      <4>2. \A i \in 1 .. Len(a) + Len(b) :
              event_cb'[i] = IF i <= Len(a) THEN a[i] ELSE b[i - Len(a)]
        <5>1. a \in Seq(H) /\ b \in Seq(H)
          BY <3>1
        <5>2. \A i \in 1 .. Len(a) + Len(b) :
                (a \o b)[i] = IF i <= Len(a) THEN a[i] ELSE b[i - Len(a)]
          BY <5>1, ConcatProperties
        <5> QED
          BY <3>1, <5>2
      <4>3. \A i \in 1 .. Len(b) : /\ Len(a) + i \in 1 .. Len(a) + Len(b)
                                   /\ ~(Len(a) + i <= Len(a)) /\ (Len(a) + i) - Len(a) = i
        BY <4>1
      <4> QED
        BY <4>1, <4>2, <4>3
    <3>3. DOMAIN event_cb' = 1 .. Len(event_cb) - 1
      <4>1. DOMAIN event_cb' = 1 .. Len(event_cb') /\ Len(a) + Len(b) = Len(event_cb) - 1
        BY <1>1, <2>2, <3>1, <3>2
      <4> QED
        BY <3>2, <4>1
    <3>4. ASSUME NEW i \in p .. Len(event_cb) - 1 PROVE event_cb'[i] = event_cb[i + 1]
      <4>1. i - (p - 1) \in 1 .. Len(b) /\ Len(a) + (i - (p - 1)) = i /\ p + (i - (p - 1)) = i + 1
        BY <1>1, <2>2, <3>1
      <4> QED
        BY <3>1, <3>2, <4>1
    <3> QED
      BY <3>1, <3>2, <3>3, <3>4
  <2> DEFINE from(i) == IF i < p THEN i ELSE i + 1
  <2>9. \A i \in DOMAIN event_cb' : /\ from(i) \in DOMAIN event_cb /\ from(i) # p
                                    /\ event_cb'[i] = event_cb[from(i)]
    BY <1>1, <2>2, <2>8
  <2>10. OneEach(event_cb')
    <3>1. \A i, j \in DOMAIN event_cb' : from(i) = from(j) => i = j
      BY <1>1, <2>2, <2>8
    <3> HIDE DEF from
    <3> QED
      BY <2>9, <3>1 DEF OneEach
  <2>11. \A h \in Heard' : h \in Heard /\ h.sub # s
    <3> SUFFICES ASSUME NEW i \in DOMAIN event_cb'
                 PROVE  event_cb'[i] \in Heard /\ event_cb'[i].sub # s
      BY DEF Heard
    <3> HIDE DEF from
    <3> QED
      BY <1>1, <2>2, <2>9 DEF Heard, OneEach
  <2>12. \A h \in Heard : h.sub # s => h \in Heard'
    <3> SUFFICES ASSUME NEW i \in DOMAIN event_cb, i # p PROVE event_cb[i] \in Heard'
      BY <2>2 DEF Heard
    <3>1. i < p => i \in DOMAIN event_cb' /\ event_cb'[i] = event_cb[i]
      BY <1>1, <2>2, <2>8
    <3>2. i > p => i - 1 \in DOMAIN event_cb' /\ event_cb'[i - 1] = event_cb[i]
      BY <1>1, <2>2, <2>8
    <3> QED
      BY <1>1, <2>2, <3>1, <3>2 DEF Heard
  <2> QED
    BY <2>8, <2>10, <2>11, <2>12 DEF HandlerLists, H
<1> QED
  BY <1>2, <1>3

-----------------------------------------------------------------------------
(* The table of commands.                                                  *)

\* A function's values over a range, each of them once.
Values(f, lo, hi) == {f[i] : i \in lo .. hi}
Distinct(f, n) == \A i, j \in 1 .. n : f[i] = f[j] => i = j

\* A sequence is a function on its positions.
LEMMA SequenceIsFunction ==
    ASSUME NEW S, NEW q \in Seq(S)
    PROVE  q \in [1 .. Len(q) -> S] /\ Len(q) \in Nat
OBVIOUS

\* The first half of wifi_register_cmd writes behind the entries.
LEMMA EnterTable ==
    ASSUME NEW S, cmd \in Seq(S), num_cmd \in Nat, num_cmd < alloc_cmd,
           NEW t, NEW c \in S, c \notin Values(cmd, 1, num_cmd), Enter(t, c),
           Distinct(cmd, num_cmd)
    PROVE  /\ cmd' \in Seq(S) /\ alloc_cmd' = alloc_cmd /\ num_cmd' = num_cmd
           /\ \A i \in 1..num_cmd : cmd'[i] = cmd[i]
           /\ cmd'[num_cmd + 1] = c
           /\ Distinct(cmd', num_cmd + 1)
           /\ Values(cmd', 1, num_cmd + 1) = Values(cmd, 1, num_cmd) \cup {c}
<1>1. num_cmd + 1 \in 1 .. Len(cmd) /\ Len(cmd) \in Nat
  BY DEF alloc_cmd
<1>2. /\ cmd' \in Seq(S) /\ Len(cmd') = Len(cmd)
      /\ \A i \in 1..Len(cmd) : cmd'[i] = IF i = num_cmd + 1 THEN c ELSE cmd[i]
  BY <1>1, ExceptSeq DEF Enter
<1>3. /\ \A i \in 1..num_cmd : cmd'[i] = cmd[i]
      /\ cmd'[num_cmd + 1] = c
      /\ \A i \in 1..num_cmd : cmd[i] # c
      /\ \A i \in 1 .. num_cmd + 1 : i \in 1..num_cmd \/ i = num_cmd + 1
      /\ \A i \in 1..num_cmd : i \in 1 .. num_cmd + 1
      /\ num_cmd + 1 \in 1 .. num_cmd + 1
  BY <1>1, <1>2 DEF Values
<1>4. Distinct(cmd', num_cmd + 1)
  BY <1>3 DEF Distinct
<1>5. Values(cmd', 1, num_cmd + 1) = Values(cmd, 1, num_cmd) \cup {c}
  BY <1>3 DEF Values
<1> QED
  BY <1>2, <1>3, <1>4, <1>5 DEF Enter, alloc_cmd

\* The first half of wifi_unregister_cmd closes the gap and leaves the last
\* entry as it is.
LEMMA WithdrawTable ==
    ASSUME NEW S, cmd \in Seq(S), num_cmd \in Nat, num_cmd <= alloc_cmd,
           Distinct(cmd, num_cmd), NEW t, NEW c, c \in Values(cmd, 1, num_cmd)
    PROVE  /\ Position(c) # {}
           /\ Withdraw(t, c) =>
                /\ cmd' \in Seq(S) /\ alloc_cmd' = alloc_cmd /\ num_cmd' = num_cmd
                /\ num_cmd > 0 /\ cmd'[num_cmd] = cmd[num_cmd]
                /\ Distinct(cmd', num_cmd - 1)
                /\ Values(cmd', 1, num_cmd - 1) = Values(cmd, 1, num_cmd) \ {c}
<1>1. Len(cmd) \in Nat /\ DOMAIN cmd = 1 .. Len(cmd)
  OBVIOUS
<1>2. PICK p \in 1..num_cmd : cmd[p] = c
  BY DEF Values
<1>3. p \in Position(c) /\ \A j \in Position(c) : j = p
  BY <1>2 DEF Position, Distinct
<1>4. SUFFICES ASSUME Withdraw(t, c)
               PROVE  /\ cmd' \in Seq(S) /\ alloc_cmd' = alloc_cmd
                      /\ num_cmd > 0 /\ cmd'[num_cmd] = cmd[num_cmd]
                      /\ Distinct(cmd', num_cmd - 1)
                      /\ Values(cmd', 1, num_cmd - 1) = Values(cmd, 1, num_cmd) \ {c}
  BY <1>3, <1>4 DEF Withdraw
<1>5. (CHOOSE j \in Position(c) : \A l \in Position(c) : j <= l) = p
  <2>1. \A l \in Position(c) : p <= l
    BY <1>2, <1>3
  <2> QED
    BY <1>3, <2>1
<1>6. cmd' = [j \in DOMAIN cmd |-> IF j \in p..(num_cmd - 1) THEN cmd[j + 1] ELSE cmd[j]]
  <2> DEFINE first == CHOOSE j \in Position(c) : \A l \in Position(c) : j <= l
  <2>1. cmd' = [j \in DOMAIN cmd |-> IF j \in first..(num_cmd - 1) THEN cmd[j + 1] ELSE cmd[j]]
    BY <1>4 DEF Withdraw
  <2>2. first = p
    BY <1>5
  <2> HIDE DEF first
  <2> QED
    BY <2>1, <2>2
<1>7. /\ num_cmd \in 1 .. Len(cmd)
      /\ \A j \in 1 .. Len(cmd) : cmd[j] \in S
      /\ \A j \in p..(num_cmd - 1) : j + 1 \in 1 .. Len(cmd)
  <2>1. num_cmd \in 1 .. Len(cmd) /\ p \in 1 .. Len(cmd)
    BY <1>1, <1>2 DEF alloc_cmd
  <2>2. \A j \in p..(num_cmd - 1) : j + 1 \in 1 .. Len(cmd)
    BY <1>1, <2>1
  <2> QED
    BY <1>1, <2>1, <2>2
<1>8. /\ cmd' \in [1 .. Len(cmd) -> S]
      /\ \A j \in 1 .. Len(cmd) : cmd'[j] = IF j \in p..(num_cmd - 1) THEN cmd[j + 1] ELSE cmd[j]
  BY <1>1, <1>6, <1>7
<1>9. cmd' \in Seq(S) /\ Len(cmd') = Len(cmd)
  <2> DEFINE l == Len(cmd)
  <2>1. l \in Nat /\ cmd' \in [1 .. l -> S]
    BY <1>1, <1>8
  <2> HIDE DEF l
  <2>2. cmd' \in Seq(S) /\ Len(cmd') = l
    BY <2>1
  <2> QED
    BY <2>2 DEF l
<1> DEFINE from(i) == IF i < p THEN i ELSE i + 1
<1>10. \A i \in 1 .. num_cmd - 1 :
          from(i) \in 1..num_cmd /\ from(i) # p /\ cmd'[i] = cmd[from(i)]
  BY <1>1, <1>2, <1>7, <1>8
<1>11. /\ \A i, j \in 1 .. num_cmd - 1 : from(i) = from(j) => i = j
       /\ \A l \in 1..num_cmd : l # p => \E i \in 1 .. num_cmd - 1 : from(i) = l
  <2>1. ASSUME NEW l \in 1..num_cmd, l # p PROVE \E i \in 1 .. num_cmd - 1 : from(i) = l
    <3>1. CASE l < p
      <4>1. l \in 1 .. num_cmd - 1 /\ from(l) = l
        BY <1>2, <3>1
      <4> QED
        BY <4>1
    <3>2. CASE l > p
      <4>1. l - 1 \in 1 .. num_cmd - 1 /\ from(l - 1) = l
        BY <1>2, <3>2
      <4> QED
        BY <4>1
    <3> QED
      BY <1>2, <2>1, <3>1, <3>2
  <2> QED
    BY <1>2, <2>1
<1> HIDE DEF from
<1>12. Distinct(cmd', num_cmd - 1)
  BY <1>10, <1>11 DEF Distinct
<1>13. Values(cmd', 1, num_cmd - 1) = Values(cmd, 1, num_cmd) \ {c}
  <2>1. \A i \in 1 .. num_cmd - 1 : cmd'[i] \in Values(cmd, 1, num_cmd) /\ cmd'[i] # c
    BY <1>2, <1>10 DEF Values, Distinct
  <2>2. \A l \in 1..num_cmd : cmd[l] # c => \E i \in 1 .. num_cmd - 1 : cmd'[i] = cmd[l]
    BY <1>2, <1>10, <1>11
  <2> QED
    BY <2>1, <2>2 DEF Values
<1>14. cmd'[num_cmd] = cmd[num_cmd]
  BY <1>7, <1>8
<1> QED
  BY <1>7, <1>9, <1>12, <1>13, <1>14 DEF alloc_cmd

-----------------------------------------------------------------------------
(* The parts of the invariant.                                             *)

\* What the parts say of the script that is left.
LEMMA ScriptFacts ==
    ASSUME Types
    PROVE  /\ todo \in Seq(Steps)
           /\ event_cb \in HandlerLists(made) /\ OneEach(event_cb)
           /\ \A h \in Heard : h.sub \in AllSubs /\ h.cmd \in 1..made
           /\ made \in 0..MaxCommands /\ 1..made \subseteq Commands
           /\ MaxCommands \in Nat /\ cur \in 0..made
           /\ cmd \in Seq(0..MaxCommands) /\ alloc_cmd \in Nat
           /\ \A c \in 1..made : kind[c] \in Kinds
<1>1. todo \in Seq(Steps)
  BY DEF Types, Steps, Ops
<1>2. event_cb \in HandlerLists(made) /\ OneEach(event_cb)
  BY DEF Types, HandlerLists, OneEach
<1>3. \A i \in DOMAIN event_cb : event_cb[i] \in [sub : AllSubs, cmd : 1..made]
  <2> DEFINE H == [sub : AllSubs, cmd : 1..made]
  <2>1. event_cb \in Seq(H)
    BY <1>2 DEF HandlerLists
  <2> HIDE DEF H
  <2>2. \A i \in DOMAIN event_cb : event_cb[i] \in H
    BY <2>1
  <2> QED
    BY <2>2 DEF H
<1>4. \A h \in Heard : h.sub \in AllSubs /\ h.cmd \in 1..made
  BY <1>3 DEF Heard
<1>5. made \in 0..MaxCommands /\ MaxCommands \in Nat /\ 1..made \subseteq Commands
  BY WifiAssumption DEF Types, TypeOK, Commands
<1>6. cmd \in Seq(0..MaxCommands) /\ alloc_cmd \in Nat
  BY DEF Types, alloc_cmd
<1> QED
  BY <1>1, <1>2, <1>4, <1>5, <1>6 DEF Types

\* A step that leaves the table alone.
LEMMA TableFrame ==
    ASSUME TableSound, UNCHANGED <<cmd, num_cmd, seen>>,
           made \in Nat, made' \in {made, made + 1},
           Doing("saved")' <=> Doing("saved"), Doing("taken")' <=> Doing("taken"),
           loop' = "taken" <=> loop = "taken", loop = "taken" => lcmd' = lcmd,
           Freed' = Freed, hal' = "down" => num_cmd = 0
    PROVE  TableSound' /\ Saved' = Saved /\ Size' = Size
<1>1. Size' = Size
  BY DEF Size
<1>2. Saved' = Saved
  BY <1>1 DEF Saved
<1>3. (Inside' <=> Inside) /\ alloc_cmd' = alloc_cmd
  BY DEF Inside, Doing, alloc_cmd
<1>4. 1..made \subseteq 1..made'
  OBVIOUS
<1> QED
  BY <1>1, <1>2, <1>3, <1>4 DEF TableSound

\* No command has more than three references.
LEMMA RefsTyped ==
    ASSUME refs' \in [Commands -> Int], RefsSound', LoopSound', loop' # "exited" => CallSound'
    PROVE  refs' \in [Commands -> 0..3]
<1> SUFFICES ASSUME NEW c \in Commands PROVE refs'[c] \in 0..3
  OBVIOUS
<1>1. c # None
  BY WifiAssumption DEF Commands, None
<1>2. ~(c = lcmd' /\ loop' = "taken" /\ Owns(c)')
  <2> SUFFICES ASSUME c = lcmd', loop' = "taken", Owns(c)' PROVE FALSE
    OBVIOUS
  <2>1. c = cur' /\ (Has(todo', "save") \/ Has(todo', "release"))
    BY DEF Owns
  <2>2. kind'[c] = "rtt" /\ CallSound'
    BY DEF LoopSound
  <2> QED
    BY <1>1, <2>1, <2>2 DEF CallSound
<1>3. refs'[c] = (Ref(c \in Saved) + Ref(c = lcmd) + Ref(c = lcmd /\ loop = "taken")
                    + Ref(Owns(c)))'
  BY DEF RefsSound
<1> QED
  BY <1>2, <1>3 DEF Ref

\* The references of the table are to commands that were made.
LEMMA SavedMade ==
    ASSUME TableSound, Types
    PROVE  /\ Saved \subseteq 1..made /\ Freed \in Nat /\ Size \in Nat
           /\ \A i \in 1..Size : cmd[i] \in 1..made
<1>1. Freed \in Nat
  BY DEF Freed, Types, TypeOK, alloc_cmd
<1>2. Size \in Nat
  BY DEF TableSound, alloc_cmd, Types
<1> QED
  BY <1>1, <1>2 DEF Saved, TableSound

\* A step of a call that only the driver sees.
LEMMA QuietKeeps ==
    ASSUME WifiInv, NEW o \in {"stop", "request"}, Doing(o), todo' = Tail(todo),
           UNCHANGED <<callVars, refs, active, tableVars, event_cb, cb_lock,
                       bad_commands, socks, loopVars, driverVars, told>>
    PROVE  WifiInv'
<1> USE DEF callVars, tableVars, loopVars, driverVars
<1>1. /\ Types /\ ScriptSound /\ TableSound /\ RefsSound /\ LoopSound /\ CleanupSound
      /\ loop # "exited" => HandlersSound /\ ActiveSound /\ CallSound
      /\ todo \in Seq(Steps) /\ Ordered(todo) /\ made \in Nat
  BY ScriptFacts DEF WifiInv, ScriptSound
<1>2. /\ todo' \in Seq(Steps)
      /\ \A p : Has(todo, p) <=> p = o \/ Has(todo', p)
      /\ \A p, s : HasFor(todo, p, s) <=> (p = o /\ s = Head(todo).sub) \/ HasFor(todo', p, s)
      /\ ~Doing("saved")' /\ ~Doing("taken")' /\ ~Doing("saved") /\ ~Doing("taken")
      /\ ~Has(todo', "wait")
  BY <1>1, StepTail DEF Doing
<1>3. ScriptSound'
  BY <1>1, ScriptTail
<1>4. TableSound' /\ Saved' = Saved
  <2>1. Freed' = Freed /\ (hal = "down" => num_cmd = 0)
    BY <1>1 DEF Freed, TableSound
  <2> QED
    BY <1>1, <1>2, <2>1, TableFrame
<1>5. Heard' = Heard
  BY DEF Heard
<1>6. RefsSound'
  BY <1>1, <1>2, <1>4 DEF RefsSound, Owns
<1>7. LoopSound'
  BY <1>1, <1>2, <1>4, <1>5 DEF LoopSound, Reported
<1>8. CleanupSound'
  BY <1>1, <1>2, <1>4 DEF CleanupSound, Doing
<1>9. Types'
  BY <1>1, <1>2 DEF Types, TypeOK, alloc_cmd, Steps, Ops
<1>10. ASSUME loop' # "exited" PROVE HandlersSound' /\ ActiveSound' /\ CallSound'
  <2>1. HandlersSound'
    BY <1>1, <1>2, <1>4, <1>5, <1>10 DEF HandlersSound
  <2>2. ActiveSound'
    BY <1>1, <1>2, <1>4, <1>5, <1>10 DEF ActiveSound
  <2>3. CallSound'
    BY <1>1, <1>2, <1>4, <1>5, <1>10 DEF CallSound, Owns
  <2> QED
    BY <2>1, <2>2, <2>3
<1> QED
  BY <1>3, <1>4, <1>6, <1>7, <1>8, <1>9, <1>10 DEF WifiInv

\* The steps that belong to a call about one command, while the HAL is up.
LEMMA UpScript ==
    ASSUME Types, ScriptSound, CleanupSound,
           NEW o \in {"save", "saved", "take", "taken", "request", "register", "started",
                      "ended", "release", "forget"},
           Doing(o)
    PROVE  hal = "up" /\ loop # "exited" /\ Freed = 0
<1>1. todo \in Seq(Steps) /\ todo # <<>> /\ Head(todo).op = o
  BY ScriptFacts DEF Doing
<1>2. ~Has(todo, "sweep")
  <2>1. Has(Tail(todo), "sweep") => "sweep" \in Follow[o]
    BY <1>1, TailOrdered DEF ScriptSound
  <2> QED
    BY <1>1, <2>1, TailHas, FollowFacts
<1>3. hal = "up"
  BY <1>1, <1>2 DEF ScriptSound, Types, TypeOK
<1> QED
  BY <1>3 DEF CleanupSound, Freed

\* The sweep of wifi_cleanup, after the event thread has left.
LEMMA SweepingScript ==
    ASSUME Types, ScriptSound, CleanupSound, NEW o \in {"swept", "sweep"}, Doing(o)
    PROVE  /\ hal = "cleaning" /\ loop = "exited" /\ Freed = bad_commands
           /\ \A p : Has(todo, p) => p \in {"swept", "sweep"}
           /\ Doing("sweep") => \A p : Has(todo, p) <=> p = "sweep"
<1>1. todo \in Seq(Steps) /\ todo # <<>> /\ Head(todo).op = o
  BY ScriptFacts DEF Doing
<1>2. \A p : Has(todo, p) <=> p = o \/ Has(Tail(todo), p)
  BY <1>1, TailHas
<1>3. \A p : Has(Tail(todo), p) => p \in Follow[o]
  BY <1>1, TailOrdered DEF ScriptSound
<1>4. \A p : Has(todo, p) => p = o \/ p = "sweep"
  BY <1>2, <1>3, FollowFacts
<1>5. hal = "cleaning"
  BY <1>1, <1>2 DEF ScriptSound, Types, TypeOK
<1>6. ~Has(todo, "wait")
  BY <1>4
<1>7. Doing("sweep") => o = "sweep"
  BY <1>1 DEF Doing
<1> QED
  BY <1>2, <1>4, <1>5, <1>6, <1>7 DEF CleanupSound, Freed

\* A call makes an entry.
LEMMA SaveKeeps ==
    ASSUME WifiInv, ~Overlap, Save
    PROVE  WifiInv'
<1> USE DEF callVars, tableVars, loopVars, driverVars
<1>1. /\ Types /\ ScriptSound /\ TableSound /\ RefsSound /\ LoopSound /\ CleanupSound
      /\ loop # "exited" => HandlersSound /\ ActiveSound /\ CallSound
      /\ todo \in Seq(Steps) /\ Ordered(todo) /\ made \in Nat
      /\ MaxCommands \in Nat /\ made \in 0..MaxCommands /\ cur \in 0..made
      /\ cmd \in Seq(0..MaxCommands) /\ alloc_cmd \in Nat
      /\ \A h \in Heard : h.cmd \in 1..made
  BY ScriptFacts DEF WifiInv, ScriptSound
<1>2. Doing("save") /\ todo # <<>> /\ Head(todo).op = "save" /\ Has(todo, "save")
  BY <1>1, DoingHas DEF Save, Doing
<1>3. hal = "up" /\ loop # "exited" /\ Freed = 0 /\ Freed' = 0
  BY <1>1, <1>2, UpScript DEF Freed, Save
<1>4. HandlersSound /\ ActiveSound /\ CallSound
  BY <1>1, <1>3
<1>5. Has(todo, "started") /\ cur # None /\ cur \in 1..made
  BY <1>1, <1>2 DEF ScriptSound, None
<1>6. /\ \A p : Has(todo, p) => p \in {"save", "saved", "request", "register", "started"}
      /\ ~Has(todo, "release")
  <2>1. \A p : Has(Tail(todo), p) => p \in Follow["save"]
    BY <1>1, <1>2, TailOrdered
  <2> QED
    BY <1>1, <1>2, <2>1, TailHas, FollowFacts
<1>7. Owns(cur) /\ cur \notin Saved /\ cur \notin active
  BY <1>2, <1>4, <1>5 DEF Owns, CallSound
<1>8. /\ loop # "taken" /\ ~Doing("saved") /\ ~Doing("taken") /\ Size = num_cmd
      /\ num_cmd \in 0..alloc_cmd /\ seen["api"] = -1 /\ seen["loop"] = -1
  <2>1. seen["api"] = -1 /\ seen["loop"] = -1
    BY DEF Save, MayEnter, Threads
  <2>2. num_cmd \in 0..alloc_cmd /\ loop # "taken"
    BY <1>1, <2>1 DEF TableSound
  <2> QED
    BY <1>2, <2>1, <2>2 DEF Doing, Size
<1>9. Saved = Values(cmd, 1, num_cmd) /\ Distinct(cmd, num_cmd)
  BY <1>1, <1>3, <1>8 DEF Saved, Values, Distinct, TableSound
<1>10. \A h \in Heard : h.cmd # cur
  BY <1>4, <1>6, <1>7 DEF HandlersSound
<1>11. CASE num_cmd < alloc_cmd
  <2>1. Enter("api", cur) /\ todo' = Tail(todo)
    BY <1>11 DEF Save
  <2>2. /\ todo' \in Seq(Steps)
        /\ \A p : Has(todo, p) <=> p = "save" \/ Has(todo', p)
        /\ \A p, s : HasFor(todo, p, s) <=>
                       (p = "save" /\ s = Head(todo).sub) \/ HasFor(todo', p, s)
        /\ \A p : Has(todo', p) => p \in Follow["save"]
        /\ Doing("saved")' /\ ~Doing("taken")' /\ Inside' /\ ~Has(todo', "wait")
    BY <1>1, <1>2, <2>1, StepTail
  <2>3. ~Has(todo', "save") /\ ~Has(todo', "release") /\ ~Has(todo', "take")
    BY <2>2, FollowFacts
  <2>4. ScriptSound'
    BY <1>1, <1>2, <2>1, ScriptTail DEF Save
  <2>5. /\ cmd' \in Seq(0..MaxCommands) /\ alloc_cmd' = alloc_cmd /\ num_cmd' = num_cmd
        /\ Distinct(cmd', num_cmd + 1) /\ cmd'[num_cmd + 1] = cur
        /\ \A i \in 1..num_cmd : cmd'[i] = cmd[i]
        /\ Values(cmd', 1, num_cmd + 1) = Saved \cup {cur}
    <3>1. cur \in 0..MaxCommands /\ num_cmd \in Nat
      BY <1>1, <1>8
    <3> QED
      BY <1>1, <1>7, <1>9, <1>11, <2>1, <3>1, EnterTable
  <2>6. Size' = num_cmd + 1
    BY <2>2, <2>5 DEF Size
  <2>7. Saved' = Saved \cup {cur}
    <3>1. Freed' + 1 = 1
      BY <1>3
    <3>2. Saved' = Values(cmd', 1, num_cmd + 1)
      BY <2>6, <3>1 DEF Saved, Values
    <3> QED
      BY <2>5, <3>2
  <2>8. TableSound'
    <3>1. \A i \in 1 .. num_cmd + 1 : cmd'[i] \in 1..made
      <4>1. \A i \in 1..num_cmd : cmd[i] \in 1..made
        BY <1>1, <1>8 DEF TableSound
      <4>2. \A i \in 1 .. num_cmd + 1 : i \in 1..num_cmd \/ i = num_cmd + 1
        BY <1>8
      <4> QED
        BY <1>5, <2>5, <4>1, <4>2
    <3>2. seen' = [seen EXCEPT !["api"] = num_cmd] /\ seen \in [Threads -> -1..alloc_cmd]
      BY <1>1, <2>1 DEF Enter, Types, TypeOK
    <3>3. /\ seen'["api"] = num_cmd /\ seen'["loop"] = -1 /\ num_cmd # -1
          /\ \A t \in Threads : seen'[t] # -1 => seen'[t] = num_cmd
      BY <1>8, <3>2 DEF Threads
    <3> QED
      <4>1. loop' = loop /\ hal' = hal /\ made' = made
        BY DEF Save
      <4>2. \A i \in 1 .. num_cmd + 1, j \in 1 .. num_cmd + 1 : cmd'[i] = cmd'[j] => i = j
        BY <2>5 DEF Distinct
      <4>3. num_cmd' \in 0..alloc_cmd' /\ Size' \in 0..alloc_cmd'
        BY <1>1, <1>8, <1>11, <2>5, <2>6
      <4> QED
        BY <1>3, <1>8, <2>2, <2>5, <2>6, <3>1, <3>3, <4>1, <4>2, <4>3 DEF TableSound
  <2>9. Heard' = Heard
    BY DEF Heard, Save
  <2>10. RefsSound'
    <3>1. \A c \in Commands : Owns(c) <=> c = cur
      BY <1>2 DEF Owns
    <3>2. \A c : ~Owns(c)'
      BY <2>3 DEF Owns
    <3> QED
      BY <1>1, <1>7, <2>7, <3>1, <3>2 DEF RefsSound, Save, Ref
  <2>11. LoopSound'
    BY <1>1, <2>2, <2>7, <2>9 DEF LoopSound, Reported, Save
  <2>12. CleanupSound'
    BY <1>1, <1>3, <2>5 DEF CleanupSound, Save
  <2>13. Types'
    <3>1. seen' \in [Threads -> -1..alloc_cmd]
      BY <1>1, <1>8, <2>1 DEF Enter, Types, TypeOK, Threads
    <3>2. cmd' \in [1..alloc_cmd' -> 0..MaxCommands]
      BY <2>5, SequenceIsFunction DEF alloc_cmd
    <3> QED
      BY <1>1, <2>2, <2>5, <3>1, <3>2 DEF Types, TypeOK, Steps, Ops, Save
  <2>14. HandlersSound'
    BY <1>4, <2>2, <2>7, <2>9 DEF HandlersSound, Save
  <2>15. ActiveSound'
    BY <1>4, <1>5, <2>2, <2>7, <2>9 DEF ActiveSound, Save
  <2>16. CallSound'
    BY <1>4, <2>2, <2>3, <2>7, <2>9 DEF CallSound, Owns, Save
  <2> QED
    BY <2>4, <2>8, <2>10, <2>11, <2>12, <2>13, <2>14, <2>15, <2>16 DEF WifiInv
<1>12. CASE ~(num_cmd < alloc_cmd)
  <2>1. UNCHANGED tableVars /\ todo' = <<Op("release")>>
    BY <1>12 DEF Save
  <2>2. /\ todo' \in Seq(Steps) /\ Ordered(todo') /\ todo' # <<>> /\ Head(todo').op = "release"
        /\ \A p : Has(todo', p) <=> p = "release"
        /\ \A p, s : HasFor(todo', p, s) => p = "release"
    BY <2>1, OneStep, FollowFacts
  <2>3. ~Doing("saved")' /\ ~Doing("taken")'
    BY <2>2 DEF Doing
  <2>4. ScriptSound'
    BY <1>3, <1>5, <2>2 DEF ScriptSound, Save
  <2>5. TableSound' /\ Saved' = Saved
    BY <1>1, <1>3, <1>8, <2>1, <2>3, TableFrame DEF Save
  <2>6. Heard' = Heard
    BY DEF Heard, Save
  <2>7. RefsSound'
    BY <1>1, <1>2, <2>2, <2>5 DEF RefsSound, Owns, Save
  <2>8. LoopSound'
    BY <1>1, <2>2, <2>5, <2>6 DEF LoopSound, Reported, Save
  <2>9. CleanupSound'
    BY <1>1, <1>3, <2>1 DEF CleanupSound, Save
  <2>10. Types'
    BY <1>1, <2>1, <2>2 DEF Types, TypeOK, Steps, Ops, Save, alloc_cmd
  <2>11. HandlersSound'
    BY <1>4, <1>10, <2>2, <2>5, <2>6 DEF HandlersSound, Save
  <2>12. ActiveSound'
    BY <1>4, <1>6, <1>7, <2>2, <2>5, <2>6 DEF ActiveSound, Save
  <2>13. CallSound'
    BY <1>2, <1>4, <1>7, <1>10, <2>2, <2>5, <2>6 DEF CallSound, Save
  <2> QED
    BY <2>4, <2>5, <2>7, <2>8, <2>9, <2>10, <2>11, <2>12, <2>13 DEF WifiInv
<1> QED
  BY <1>11, <1>12

\* The second half of a change of the table counts it.
LEMMA CountTable ==
    ASSUME Types, TableSound, NEW t \in Threads, NEW d \in {1, -1}, seen[t] # -1, Count(t, d)
    PROVE  num_cmd' = num_cmd + d /\ cmd' = cmd /\ seen' = [seen EXCEPT ![t] = -1]
           /\ seen' \in [Threads -> -1..alloc_cmd]
<1>1. seen[t] = num_cmd
  BY DEF TableSound
<1>2. seen' = [seen EXCEPT ![t] = -1] /\ seen \in [Threads -> -1..alloc_cmd]
  BY DEF Count, Types, TypeOK
<1>3. alloc_cmd \in Nat
  BY ScriptFacts
<1> QED
  BY <1>1, <1>2, <1>3 DEF Count

\* A call counts the entry it has made or taken out.
LEMMA CountedKeeps ==
    ASSUME WifiInv, ~Overlap, Counted
    PROVE  WifiInv'
<1> USE DEF callVars, tableVars, loopVars, driverVars
<1>1. /\ Types /\ ScriptSound /\ TableSound /\ RefsSound /\ LoopSound /\ CleanupSound
      /\ loop # "exited" => HandlersSound /\ ActiveSound /\ CallSound
      /\ todo \in Seq(Steps) /\ Ordered(todo) /\ made \in Nat
      /\ MaxCommands \in Nat /\ cmd \in Seq(0..MaxCommands) /\ alloc_cmd \in Nat
  BY ScriptFacts DEF WifiInv, ScriptSound
<1>2. PICK o \in {"saved", "taken"} :
         Doing(o) /\ Count("api", IF o = "saved" THEN 1 ELSE -1)
  BY DEF Counted
<1>3. /\ todo' \in Seq(Steps)
      /\ \A p : Has(todo, p) <=> p = o \/ Has(todo', p)
      /\ \A p, s : HasFor(todo, p, s) <=> (p = o /\ s = Head(todo).sub) \/ HasFor(todo', p, s)
      /\ \A p : Has(todo', p) => p \in Follow[o]
      /\ ~Doing("saved")' /\ ~Doing("taken")' /\ ~Inside' /\ ~Has(todo', "wait")
  BY <1>1, <1>2, StepTail DEF Counted
<1>4. hal = "up" /\ loop # "exited" /\ Freed = 0 /\ Freed' = 0
  BY <1>1, <1>2, UpScript DEF Freed, Counted
<1>5. ScriptSound'
  BY <1>1, <1>2, ScriptTail DEF Counted
<1>6. /\ Inside /\ seen["api"] # -1 /\ loop # "taken" /\ seen["loop"] = -1
      /\ Size = num_cmd + (IF o = "saved" THEN 1 ELSE -1)
  <2>1. Inside /\ (Doing("saved") <=> o = "saved") /\ (Doing("taken") <=> o = "taken")
    BY <1>2 DEF Inside, Doing
  <2> QED
    BY <1>1, <2>1 DEF TableSound, Size
<1>7. /\ cmd' = cmd /\ num_cmd' = Size /\ seen' \in [Threads -> -1..alloc_cmd]
      /\ seen' = [seen EXCEPT !["api"] = -1]
  <2>1. num_cmd' = num_cmd + (IF o = "saved" THEN 1 ELSE -1)
        /\ cmd' = cmd /\ seen' = [seen EXCEPT !["api"] = -1] /\ seen' \in [Threads -> -1..alloc_cmd]
    BY <1>1, <1>2, <1>6, CountTable DEF Threads
  <2> QED
    BY <1>6, <2>1
<1>8. Size' = Size
  BY <1>3, <1>6, <1>7 DEF Size, Counted
<1>9. Saved' = Saved
  BY <1>4, <1>7, <1>8 DEF Saved
<1>10. TableSound'
  <2>1. \A t \in Threads : seen'[t] = -1
    BY <1>1, <1>6, <1>7 DEF Threads, Types, TypeOK
  <2> QED
    BY <1>1, <1>3, <1>4, <1>6, <1>7, <1>8, <2>1 DEF TableSound, alloc_cmd, Counted, Threads
<1>11. Heard' = Heard
  BY DEF Heard, Counted
<1>12. RefsSound'
  BY <1>1, <1>2, <1>3, <1>9 DEF RefsSound, Owns, Counted
<1>13. LoopSound'
  BY <1>1, <1>3, <1>9, <1>11 DEF LoopSound, Reported, Counted
<1>14. CleanupSound'
  BY <1>1, <1>4 DEF CleanupSound, Counted
<1>15. Types'
  <2>1. num_cmd' \in 0..alloc_cmd' /\ alloc_cmd' = alloc_cmd
    BY <1>1, <1>7 DEF TableSound, alloc_cmd
  <2> QED
    BY <1>1, <1>3, <1>7, <2>1 DEF Types, TypeOK, Steps, Ops, Counted
<1>16. HandlersSound'
  BY <1>1, <1>3, <1>4, <1>9, <1>11 DEF HandlersSound, Counted
<1>17. ActiveSound'
  BY <1>1, <1>3, <1>4, <1>9, <1>11 DEF ActiveSound, Counted
<1>18. CallSound'
  BY <1>1, <1>3, <1>4, <1>9, <1>11 DEF CallSound, Owns, Counted
<1> QED
  BY <1>5, <1>10, <1>12, <1>13, <1>14, <1>15, <1>16, <1>17, <1>18 DEF WifiInv

\* A call takes the entry of its command out.
LEMMA TakeKeeps ==
    ASSUME WifiInv, ~Overlap, Take
    PROVE  WifiInv'
<1> USE DEF callVars, tableVars, loopVars, driverVars
<1>1. /\ Types /\ ScriptSound /\ TableSound /\ RefsSound /\ LoopSound /\ CleanupSound
      /\ loop # "exited" => HandlersSound /\ ActiveSound /\ CallSound
      /\ todo \in Seq(Steps) /\ Ordered(todo) /\ made \in Nat
      /\ MaxCommands \in Nat /\ cmd \in Seq(0..MaxCommands) /\ alloc_cmd \in Nat
      /\ \A h \in Heard : h.cmd \in 1..made
  BY ScriptFacts DEF WifiInv, ScriptSound
<1>2. Doing("take") /\ todo # <<>> /\ Head(todo).op = "take" /\ Has(todo, "take")
  BY <1>1, DoingHas DEF Take, Doing
<1>3. hal = "up" /\ loop # "exited" /\ Freed = 0 /\ Freed' = 0
  BY <1>1, <1>2, UpScript DEF Freed, Take
<1>4. HandlersSound /\ ActiveSound /\ CallSound
  BY <1>1, <1>3
<1>5. cur \in Saved /\ Has(todo, "release")
  BY <1>1, <1>2, <1>4 DEF CallSound, ScriptSound
<1>6. /\ loop # "taken" /\ ~Doing("saved") /\ ~Doing("taken") /\ Size = num_cmd
      /\ num_cmd \in 0..alloc_cmd /\ seen["api"] = -1 /\ seen["loop"] = -1
  <2>1. seen["api"] = -1 /\ seen["loop"] = -1
    BY DEF Take, MayEnter, Threads
  <2>2. num_cmd \in 0..alloc_cmd /\ loop # "taken"
    BY <1>1, <2>1 DEF TableSound
  <2> QED
    BY <1>2, <2>1, <2>2 DEF Doing, Size
<1>7. Saved = Values(cmd, 1, num_cmd) /\ Distinct(cmd, num_cmd)
  BY <1>1, <1>3, <1>6 DEF Saved, Values, Distinct, TableSound
<1>8. cur \in Values(cmd, 1, num_cmd) /\ num_cmd \in Nat /\ num_cmd <= alloc_cmd
  BY <1>1, <1>5, <1>6, <1>7
<1>9. Withdraw("api", cur) /\ todo' = Tail(todo)
  BY <1>1, <1>7, <1>8, WithdrawTable DEF Take
<1>10. /\ cmd' \in Seq(0..MaxCommands) /\ alloc_cmd' = alloc_cmd
       /\ num_cmd' = num_cmd /\ num_cmd > 0
       /\ Distinct(cmd', num_cmd - 1)
       /\ Values(cmd', 1, num_cmd - 1) = Saved \ {cur}
  BY <1>1, <1>7, <1>8, <1>9, WithdrawTable
<1>11. /\ todo' \in Seq(Steps)
       /\ \A p : Has(todo, p) <=> p = "take" \/ Has(todo', p)
       /\ \A p, s : HasFor(todo, p, s) <=> (p = "take" /\ s = Head(todo).sub) \/ HasFor(todo', p, s)
       /\ \A p : Has(todo', p) => p \in Follow["take"]
       /\ Doing("taken")' /\ ~Doing("saved")' /\ Inside' /\ ~Has(todo', "wait")
  BY <1>1, <1>2, <1>9, StepTail
<1>12. /\ ~Has(todo', "take") /\ ~Has(todo', "started") /\ ~Has(todo', "save")
       /\ ~Has(todo', "request") /\ ~Has(todo', "register") /\ ~Has(todo', "forget")
  BY <1>11, FollowFacts
<1>13. ScriptSound'
  BY <1>1, <1>2, <1>9, ScriptTail DEF Take
<1>14. Size' = num_cmd - 1
  BY <1>10, <1>11 DEF Size
<1>15. Saved' = Saved \ {cur}
  <2>1. Freed' + 1 = 1
    BY <1>3
  <2>2. Saved' = Values(cmd', 1, num_cmd - 1)
    BY <1>14, <2>1 DEF Saved, Values
  <2> QED
    BY <1>10, <2>2
<1>16. TableSound'
  <2>1. \A i \in 1 .. num_cmd - 1 : cmd'[i] \in 1..made
    <3>1. \A c \in Saved : c \in 1..made
      BY <1>1, SavedMade
    <3> QED
      BY <1>10, <3>1 DEF Values
  <2>2. seen' = [seen EXCEPT !["api"] = num_cmd] /\ seen \in [Threads -> -1..alloc_cmd]
    BY <1>1, <1>9 DEF Withdraw, Types, TypeOK
  <2>3. /\ seen'["api"] = num_cmd /\ seen'["loop"] = -1 /\ num_cmd # -1
        /\ \A t \in Threads : seen'[t] # -1 => seen'[t] = num_cmd
    BY <1>6, <2>2 DEF Threads
  <2>4. loop' = loop /\ hal' = hal /\ made' = made
    BY DEF Take
  <2>5. \A i \in 1 .. num_cmd - 1, j \in 1 .. num_cmd - 1 : cmd'[i] = cmd'[j] => i = j
    BY <1>10 DEF Distinct
  <2>6. num_cmd' \in 0..alloc_cmd' /\ Size' \in 0..alloc_cmd'
    BY <1>1, <1>6, <1>10, <1>14
  <2> QED
    BY <1>3, <1>6, <1>10, <1>11, <1>14, <2>1, <2>3, <2>4, <2>5, <2>6 DEF TableSound
<1>17. Heard' = Heard
  BY DEF Heard, Take
<1>18. kind[cur] = "rtt" => lcmd # cur /\ \A h \in Heard : h.cmd # cur
  BY <1>1, <1>4, <1>5 DEF CallSound, ScriptSound
<1>19. RefsSound'
  <2>1. \A c \in Commands : ~Owns(c)
    <3>1. ~Has(todo, "save")
      BY <1>11, <1>12
    <3> QED
      BY <1>2, <3>1 DEF Owns
  <2>2. \A c \in Commands : Owns(c)' <=> c = cur
    BY <1>5, <1>11, <1>12 DEF Owns, Take
  <2> QED
    BY <1>1, <1>5, <1>15, <2>1, <2>2 DEF RefsSound, Take, Ref
<1>20. LoopSound'
  BY <1>1, <1>11, <1>15, <1>17, <1>18 DEF LoopSound, Reported, Take
<1>21. CleanupSound'
  BY <1>1, <1>3, <1>10 DEF CleanupSound, Take
<1>22. Types'
  <2>1. seen' \in [Threads -> -1..alloc_cmd]
    BY <1>1, <1>6, <1>9 DEF Withdraw, Types, TypeOK, Threads
  <2>2. cmd' \in [1..alloc_cmd' -> 0..MaxCommands]
    BY <1>10, SequenceIsFunction DEF alloc_cmd
  <2> QED
    BY <1>1, <1>10, <1>11, <2>1, <2>2 DEF Types, TypeOK, Steps, Ops, Take
<1>23. HandlersSound'
  <2>1. \A h \in Heard : h.cmd = cur => HasFor(todo', "unregister", h.sub)
    BY <1>4, <1>5, <1>11, <1>12 DEF HandlersSound, CallSound
  <2> QED
    BY <1>4, <1>5, <1>11, <1>12, <1>15, <1>17, <2>1 DEF HandlersSound, Take
<1>24. ActiveSound'
  BY <1>4, <1>11, <1>12, <1>15, <1>17 DEF ActiveSound, Take
<1>25. CallSound'
  BY <1>4, <1>11, <1>12, <1>15, <1>17 DEF CallSound, Owns, Take
<1> QED
  BY <1>13, <1>16, <1>19, <1>20, <1>21, <1>22, <1>23, <1>24, <1>25 DEF WifiInv

\* The state in which a request of a start fails.
LEMMA RequestState ==
    ASSUME WifiInv, Doing("request")
    PROVE  /\ hal = "up" /\ loop # "exited" /\ HandlersSound /\ ActiveSound /\ CallSound
           /\ todo # <<>> /\ Head(todo).op = "request" /\ Has(todo, "request")
           /\ Has(todo, "started") /\ cur # None /\ cur \in 1..made
           /\ kind[cur] \in Kinds /\ Starts(todo, kind[cur])
           /\ \A p : Has(todo, p) => p \in {"request", "register", "started"}
           /\ \A s : HasFor(Tail(todo), "register", s) => HasFor(todo, "register", s)
           /\ cur \in Saved /\ cur \notin active
<1>1. /\ Types /\ ScriptSound /\ TableSound /\ RefsSound /\ LoopSound /\ CleanupSound
      /\ loop # "exited" => HandlersSound /\ ActiveSound /\ CallSound
      /\ todo \in Seq(Steps) /\ Ordered(todo) /\ made \in Nat /\ cur \in 0..made
      /\ \A c \in 1..made : kind[c] \in Kinds
  BY ScriptFacts DEF WifiInv, ScriptSound
<1>2. todo # <<>> /\ Head(todo).op = "request" /\ Has(todo, "request")
  BY <1>1, DoingHas DEF Doing
<1>3. hal = "up" /\ loop # "exited"
  BY <1>1, UpScript
<1>4. HandlersSound /\ ActiveSound /\ CallSound
  BY <1>1, <1>3
<1>5. /\ Has(todo, "started") /\ cur # None /\ cur \in 1..made /\ Starts(todo, kind[cur])
      /\ kind[cur] \in Kinds
  BY <1>1, <1>2 DEF ScriptSound, None
<1>6. /\ \A p : Has(todo, p) => p \in {"request", "register", "started"}
      /\ \A s : HasFor(Tail(todo), "register", s) => HasFor(todo, "register", s)
  <2>1. \A p : Has(Tail(todo), p) => p \in Follow["request"]
    BY <1>1, <1>2, TailOrdered
  <2> QED
    BY <1>1, <1>2, <2>1, TailHas, FollowFacts
<1>7. cur \in Saved /\ cur \notin active
  BY <1>2, <1>4, <1>5, <1>6 DEF CallSound
<1> QED
  BY <1>2, <1>3, <1>4, <1>5, <1>6, <1>7

\* A request that fails takes back the handlers that are registered.
LEMMA FailedScript ==
    ASSUME WifiInv, Doing("request"),
           todo' = undo(kind[cur], Front(Tail(todo))) \o Fail(Front(Tail(todo)))
    PROVE  /\ Undone(todo', kind[cur])
           /\ \A h \in Heard : h.cmd = cur => HasFor(todo', "unregister", h.sub)
<1>0. /\ HandlersSound /\ ActiveSound /\ CallSound
      /\ todo # <<>> /\ Head(todo).op = "request" /\ Has(todo, "started")
      /\ kind[cur] \in Kinds /\ Starts(todo, kind[cur])
      /\ \A s : HasFor(Tail(todo), "register", s) => HasFor(todo, "register", s)
  BY RequestState
<1>1. todo \in Seq(Steps)
  BY ScriptFacts DEF WifiInv
<1> DEFINE rest == Front(Tail(todo))
           u == undo(kind[cur], rest)
<1>2. u \in {<<>>, Unregister(kind[cur])}
  BY DEF undo
<1>3. u # Unregister(kind[cur]) => \A h \in Heard : h.cmd # cur
  <2> SUFFICES ASSUME u # Unregister(kind[cur]), NEW h \in Heard, h.cmd = cur PROVE FALSE
    OBVIOUS
  <2>1. rest # <<>>
    BY DEF undo
  <2>2. 2 < Len(todo)
    <3> SUFFICES ASSUME ~(2 < Len(todo)) PROVE rest = <<>>
      BY <2>1
    <3>1. Len(Tail(todo)) \in Nat /\ Len(Tail(todo)) - 1 < 1
      BY <1>0, <1>1, TailFacts
    <3> QED
      BY <3>1, SubSeqEmpty DEF Front
  <2>3. HasFor(Tail(todo), "register", h.sub)
    <3>1. h.sub \in Hears(kind[cur])
      BY <1>0 DEF HandlersSound
    <3> QED
      BY <1>0, <1>1, <2>2, <3>1, TailStarts
  <2> QED
    BY <1>0, <2>3 DEF CallSound, HandlersSound
<1>4. /\ Undone(u \o Fail(rest), kind[cur])
      /\ u = Unregister(kind[cur]) => UndoneAll(u \o Fail(rest), kind[cur])
  <2> HIDE DEF u, rest
  <2> QED
    BY <1>0, <1>2, FailScript
<1>5. Undone(todo', kind[cur]) /\ (u = Unregister(kind[cur]) => UndoneAll(todo', kind[cur]))
  BY <1>4
<1> HIDE DEF u, rest
<1>6. \A h \in Heard : h.sub \in Hears(kind[h.cmd])
  BY <1>0 DEF HandlersSound
<1> QED
  BY <1>3, <1>5, <1>6 DEF UndoneAll

\* A start whose request has failed goes on to undo what it did.
LEMMA UndoneKeeps ==
    ASSUME WifiInv, Doing("request"), Undone(todo', kind[cur]),
           \A h \in Heard : h.cmd = cur => HasFor(todo', "unregister", h.sub),
           UNCHANGED <<callVars, refs, active, tableVars, event_cb, cb_lock,
                       bad_commands, socks, loopVars, driverVars, told>>
    PROVE  WifiInv'
<1> USE DEF callVars, tableVars, loopVars, driverVars
<1>1. /\ Types /\ ScriptSound /\ TableSound /\ RefsSound /\ LoopSound /\ CleanupSound
      /\ made \in Nat
  BY ScriptFacts DEF WifiInv
<1>2. /\ hal = "up" /\ loop # "exited" /\ HandlersSound /\ ActiveSound /\ CallSound
      /\ Has(todo, "request") /\ Has(todo, "started") /\ cur # None /\ cur \in 1..made
      /\ \A p : Has(todo, p) => p \in {"request", "register", "started"}
      /\ cur \in Saved /\ cur \notin active
  BY RequestState
<1>3. /\ todo' \in Seq(Steps) /\ Ordered(todo') /\ todo' # <<>>
      /\ Head(todo').op \in {"unregister", "take"}
      /\ \A p : Has(todo', p) => p \in {"unregister", "take", "taken", "release"}
      /\ \A p \in {"take", "taken", "release"} : Has(todo', p)
      /\ \A s : HasFor(todo', "unregister", s) => s \in Hears(kind[cur])
  BY DEF Undone
<1>4. ~Doing("saved") /\ ~Doing("taken") /\ ~Doing("saved")' /\ ~Doing("taken")'
  BY <1>3 DEF Doing
<1>5. ScriptSound'
  BY <1>2, <1>3 DEF ScriptSound
<1>6. TableSound' /\ Saved' = Saved
  <2>1. Freed' = Freed /\ hal' # "down"
    BY <1>2 DEF Freed
  <2> QED
    BY <1>1, <1>4, <2>1, TableFrame
<1>7. Heard' = Heard
  BY DEF Heard
<1>8. RefsSound'
  <2>1. \A c \in Commands : ~Owns(c) /\ ~Owns(c)'
    BY <1>2, <1>3 DEF Owns
  <2> QED
    BY <1>1, <1>6, <2>1 DEF RefsSound, Ref
<1>9. LoopSound'
  BY <1>1, <1>3, <1>6, <1>7 DEF LoopSound, Reported
<1>10. CleanupSound'
  BY <1>1, <1>2 DEF CleanupSound
<1>11. Types'
  BY <1>1, <1>3 DEF Types, TypeOK, alloc_cmd, Steps, Ops
<1>12. HandlersSound'
  <2>1. \A h \in Heard : h.cmd # cur => h.cmd \in active /\ h.cmd \in Saved
    BY <1>2 DEF HandlersSound
  <2> QED
    BY <1>2, <1>3, <1>6, <1>7, <2>1 DEF HandlersSound
<1>13. ActiveSound'
  <2>1. \A c \in active, s \in Hears(kind[cur]) : s \notin Hears(kind[c])
    BY <1>2 DEF CallSound
  <2>2. \A p : Has(todo', p) => p \in {"unregister", "take", "taken", "release"}
    BY <1>3
  <2>3. \A p : Has(todo, p) => p \in {"request", "register", "started"}
    BY <1>2
  <2>4. Has(todo', "take")
    BY <1>3
  <2>5. ~Has(todo', "ended") /\ ~Has(todo, "ended") /\ ~Has(todo, "take")
    BY <2>2, <2>3
  <2>6. \A s : HasFor(todo', "unregister", s) => s \in Hears(kind[cur])
    BY <1>3
  <2>7. \A c \in active, s \in AllSubs :
          HasFor(todo', "unregister", s) => s \notin Hears(kind[c])
    BY <2>1, <2>6
  <2> QED
    BY <1>2, <1>6, <1>7, <2>4, <2>5, <2>7 DEF ActiveSound
<1>14. CallSound'
  BY <1>2, <1>3, <1>6, <1>7 DEF CallSound, Owns
<1> QED
  BY <1>5, <1>6, <1>8, <1>9, <1>10, <1>11, <1>12, <1>13, <1>14 DEF WifiInv

\* The driver answers a request.
LEMMA ResponseKeeps ==
    ASSUME WifiInv, requestResponse
    PROVE  WifiInv'
<1>1. CASE Doing("stop") /\ todo' = Tail(todo)
  BY <1>1, QuietKeeps DEF requestResponse
<1>2. CASE Doing("request") /\ todo' = Tail(todo)
  BY <1>2, QuietKeeps DEF requestResponse
<1>3. CASE /\ Doing("request")
           /\ todo' = undo(kind[cur], Front(Tail(todo))) \o Fail(Front(Tail(todo)))
  <2>1. /\ Undone(todo', kind[cur])
        /\ \A h \in Heard : h.cmd = cur => HasFor(todo', "unregister", h.sub)
    BY <1>3, FailedScript
  <2> QED
    BY <1>3, <2>1, UndoneKeeps DEF requestResponse
<1> QED
  BY <1>1, <1>2, <1>3 DEF requestResponse

\* A start registers a handler.
LEMMA RegisterKeeps ==
    ASSUME WifiInv, Handlers, Doing("register")
    PROVE  WifiInv'
<1> USE DEF callVars, tableVars, loopVars, driverVars
<1>1. /\ Types /\ ScriptSound /\ TableSound /\ RefsSound /\ LoopSound /\ CleanupSound
      /\ loop # "exited" => HandlersSound /\ ActiveSound /\ CallSound
      /\ todo \in Seq(Steps) /\ Ordered(todo) /\ made \in Nat /\ cur \in 0..made
      /\ event_cb \in HandlerLists(made) /\ OneEach(event_cb)
      /\ \A h \in Heard : h.cmd \in 1..made
      /\ \A c \in 1..made : kind[c] \in Kinds
  BY ScriptFacts DEF WifiInv, ScriptSound
<1>2. todo # <<>> /\ Head(todo).op = "register" /\ Has(todo, "register")
  BY <1>1, DoingHas DEF Doing
<1>3. hal = "up" /\ loop # "exited"
  BY <1>1, UpScript
<1>4. HandlersSound /\ ActiveSound /\ CallSound
  BY <1>1, <1>3
<1>5. /\ Has(todo, "started") /\ cur # None /\ cur \in 1..made /\ Starts(todo, kind[cur])
      /\ kind[cur] \in Kinds
  BY <1>1, <1>2 DEF ScriptSound, None
<1> DEFINE s == Head(todo).sub
           x == [sub |-> s, cmd |-> cur]
<1>6. wifi_register_vendor_handler(s, cur) /\ todo' = Tail(todo)
  BY <1>2 DEF Handlers, Doing
<1>7. /\ todo' \in Seq(Steps)
      /\ \A p : Has(todo, p) <=> p = "register" \/ Has(todo', p)
      /\ \A p, t : HasFor(todo, p, t) <=> (p = "register" /\ t = s) \/ HasFor(todo', p, t)
      /\ \A p : Has(todo', p) => p \in Follow["register"]
      /\ ~Doing("saved")' /\ ~Doing("taken")' /\ ~Doing("saved") /\ ~Doing("taken")
  BY <1>1, <1>2, <1>6, StepTail DEF Doing
<1>8. \A p : Has(todo', p) => p \in {"request", "register", "started"}
  BY <1>7, FollowFacts
<1>9. /\ s \in Hears(kind[cur]) /\ ~HasFor(todo', "register", s)
      /\ kind[cur] = "rtt" => \A o : Has(todo', o) => o = "started"
  BY <1>1, <1>2, <1>5, <1>6, TailStarts
<1>10. s \in AllSubs
  BY <1>5, <1>9, SubsFacts
<1>11. \A h \in Heard : h.sub # s
  BY <1>4, <1>5, <1>7, <1>9 DEF CallSound
<1>12. cur \in Saved /\ cur \notin active
  BY <1>2, <1>4, <1>5, <1>7, <1>8 DEF CallSound
<1> HIDE DEF s
<1>13. /\ event_cb' \in HandlerLists(made) /\ OneEach(event_cb') /\ Heard' = Heard \cup {x}
  BY <1>1, <1>5, <1>6, <1>10, <1>11, RegisterHandler
<1>14. x.sub = s /\ x.cmd = cur
  OBVIOUS
<1> HIDE DEF x
<1>15. ScriptSound'
  BY <1>1, <1>6, ScriptTail DEF Handlers
<1>16. TableSound' /\ Saved' = Saved
  <2>1. Freed' = Freed /\ hal' # "down"
    BY <1>3 DEF Freed, Handlers
  <2> QED
    BY <1>1, <1>7, <2>1, TableFrame DEF Handlers
<1>17. RefsSound'
  BY <1>1, <1>7, <1>16 DEF RefsSound, Owns, Handlers
<1>18. LoopSound'
  <2>1. ~Reported(cur)
    BY <1>1, <1>2, <1>5, WifiAssumption DEF LoopSound, Types, TypeOK, Commands
  <2>2. \A c : Reported(c)' <=> Reported(c)
    BY DEF Reported, Handlers
  <2> QED
    BY <1>1, <1>7, <1>13, <1>14, <1>16, <2>1, <2>2 DEF LoopSound, Handlers
<1>19. CleanupSound'
  BY <1>1, <1>3 DEF CleanupSound, Handlers
<1>20. Types'
  <2>1. \A i \in DOMAIN event_cb' : event_cb'[i] \in [sub : AllSubs, cmd : Commands]
    <3> DEFINE H == [sub : AllSubs, cmd : 1..made]
    <3>1. event_cb' \in Seq(H)
      BY <1>13 DEF HandlerLists
    <3> HIDE DEF H
    <3>2. \A i \in DOMAIN event_cb' : event_cb'[i] \in H
      BY <3>1
    <3>3. 1..made \subseteq Commands
      BY <1>1, ScriptFacts
    <3> QED
      BY <3>2, <3>3 DEF H
  <2> QED
    BY <1>1, <1>7, <1>13, <2>1
       DEF Types, TypeOK, alloc_cmd, Steps, Ops, Handlers, HandlerLists, OneEach
<1>21. HandlersSound'
  BY <1>4, <1>7, <1>8, <1>9, <1>12, <1>13, <1>14, <1>16, <1>5 DEF HandlersSound, Handlers
<1>22. ActiveSound'
  BY <1>4, <1>7, <1>13, <1>16 DEF ActiveSound, Handlers
<1>23. CallSound'
  <2>1. \A t \in Hears(kind[cur]) :
          \/ HasFor(todo', "register", t) /\ \A h \in Heard' : h.sub # t
          \/ ~HasFor(todo', "register", t)
               /\ (kind[cur] = "rtt" \/ [sub |-> t, cmd |-> cur] \in Heard')
    BY <1>4, <1>5, <1>7, <1>9, <1>13, <1>14 DEF CallSound, x
  <2> QED
    BY <1>4, <1>7, <1>8, <1>9, <1>12, <1>16, <2>1 DEF CallSound, Owns, Handlers
<1> QED
  BY <1>15, <1>16, <1>17, <1>18, <1>19, <1>20, <1>21, <1>22, <1>23 DEF WifiInv

\* A call takes a handler away.
LEMMA UnregisterKeeps ==
    ASSUME WifiInv, Handlers, Doing("unregister")
    PROVE  WifiInv'
<1> USE DEF callVars, tableVars, loopVars, driverVars
<1>1. /\ Types /\ ScriptSound /\ TableSound /\ RefsSound /\ LoopSound /\ CleanupSound
      /\ loop # "exited" => HandlersSound /\ ActiveSound /\ CallSound
      /\ todo \in Seq(Steps) /\ Ordered(todo) /\ made \in Nat
      /\ event_cb \in HandlerLists(made) /\ OneEach(event_cb)
      /\ \A h \in Heard : h.sub \in AllSubs /\ h.cmd \in 1..made
  BY ScriptFacts DEF WifiInv, ScriptSound
<1>2. todo # <<>> /\ Head(todo).op = "unregister" /\ Has(todo, "unregister")
  BY <1>1, DoingHas DEF Doing
<1> DEFINE s == Head(todo).sub
<1>3. wifi_unregister_vendor_handler(s) /\ todo' = Tail(todo)
  BY <1>2 DEF Handlers, Doing
<1>4. /\ todo' \in Seq(Steps)
      /\ \A p : Has(todo, p) <=> p = "unregister" \/ Has(todo', p)
      /\ \A p, t : HasFor(todo, p, t) <=> (p = "unregister" /\ t = s) \/ HasFor(todo', p, t)
      /\ \A p : Has(todo', p) => p \in Follow["unregister"]
      /\ ~Doing("saved")' /\ ~Doing("taken")' /\ ~Doing("saved") /\ ~Doing("taken")
      /\ ~Has(todo', "wait")
  BY <1>1, <1>2, <1>3, StepTail DEF Doing
<1>5. /\ ~Has(todo', "started") /\ ~Has(todo', "save") /\ ~Has(todo', "request")
      /\ ~Has(todo', "register")
  BY <1>4, FollowFacts
<1> HIDE DEF s
<1>6. /\ event_cb' \in HandlerLists(made) /\ OneEach(event_cb')
      /\ Heard' = {h \in Heard : h.sub # s}
  BY <1>1, <1>3, UnregisterHandler
<1>7. ScriptSound'
  BY <1>1, <1>3, ScriptTail DEF Handlers
<1>8. TableSound' /\ Saved' = Saved
  <2>1. Freed' = Freed /\ (hal = "down" => num_cmd = 0)
    BY <1>1 DEF Freed, Handlers, TableSound
  <2> QED
    BY <1>1, <1>4, <2>1, TableFrame DEF Handlers
<1>9. RefsSound'
  BY <1>1, <1>4, <1>8 DEF RefsSound, Owns, Handlers
<1>10. LoopSound'
  <2>1. \A c : Reported(c)' <=> Reported(c)
    BY DEF Reported, Handlers
  <2> QED
    BY <1>1, <1>4, <1>6, <1>8, <2>1 DEF LoopSound, Handlers
<1>11. CleanupSound'
  <2>1. Has(todo, "wait") <=> Has(todo', "wait")
    BY <1>4
  <2>2. Has(todo, "swept") <=> Has(todo', "swept")
    BY <1>4
  <2>3. hal # "down"
    BY <1>1, <1>2 DEF ScriptSound
  <2> QED
    BY <1>1, <1>4, <2>1, <2>2, <2>3 DEF CleanupSound, Handlers
<1>12. Types'
  <2>1. \A i \in DOMAIN event_cb' : event_cb'[i] \in [sub : AllSubs, cmd : Commands]
    <3> DEFINE H == [sub : AllSubs, cmd : 1..made]
    <3>1. event_cb' \in Seq(H)
      BY <1>6 DEF HandlerLists
    <3> HIDE DEF H
    <3>2. \A i \in DOMAIN event_cb' : event_cb'[i] \in H
      BY <3>1
    <3>3. 1..made \subseteq Commands
      BY <1>1, ScriptFacts
    <3> QED
      BY <3>2, <3>3 DEF H
  <2> QED
    BY <1>1, <1>4, <1>6, <2>1
       DEF Types, TypeOK, alloc_cmd, Steps, Ops, Handlers, HandlerLists, OneEach
<1>13. ASSUME loop' # "exited" PROVE HandlersSound' /\ ActiveSound' /\ CallSound'
  <2>0. HandlersSound /\ ActiveSound /\ CallSound
    BY <1>1, <1>13 DEF Handlers
  <2>1. HandlersSound'
    BY <2>0, <1>4, <1>5, <1>6, <1>8 DEF HandlersSound, Handlers
  <2>2. ActiveSound'
    <3>1. ASSUME NEW c \in active, kind[c] # "rtt", NEW t \in Hears(kind[c])
          PROVE  [sub |-> t, cmd |-> c] \in Heard' \/ (c = cur /\ Has(todo', "ended"))
      <4>1. CASE t # s
        BY <1>4, <1>6, <2>0, <3>1, <4>1 DEF ActiveSound
      <4>2. CASE t = s
        <5>1. HasFor(todo, "unregister", t)
          BY <1>4, <4>2
        <5>2. t \in AllSubs
          <6>1. kind[c] \in Kinds
            BY <1>1, <2>0, ScriptFacts DEF ActiveSound
          <6> QED
            BY <3>1, <6>1, SubsFacts
        <5> QED
          BY <1>4, <2>0, <3>1, <5>1, <5>2 DEF ActiveSound
      <4> QED
        BY <4>1, <4>2
    <3> QED
      BY <2>0, <1>4, <1>8, <3>1 DEF ActiveSound, Handlers
  <2>3. CallSound'
    BY <2>0, <1>4, <1>5, <1>6, <1>8 DEF CallSound, Owns, Handlers
  <2> QED
    BY <2>1, <2>2, <2>3
<1> QED
  BY <1>7, <1>8, <1>9, <1>10, <1>11, <1>12, <1>13 DEF WifiInv

\* A start has succeeded, a cancellation has ended, and after
\* wifi_rtt_range_cancel the caller forgets every RTT.
LEMMA ReturnedKeeps ==
    ASSUME WifiInv, Returned
    PROVE  WifiInv'
<1> USE DEF callVars, tableVars, loopVars, driverVars
<1>1. /\ Types /\ ScriptSound /\ TableSound /\ RefsSound /\ LoopSound /\ CleanupSound
      /\ loop # "exited" => HandlersSound /\ ActiveSound /\ CallSound
      /\ todo \in Seq(Steps) /\ Ordered(todo) /\ made \in Nat /\ cur \in 0..made
      /\ \A h \in Heard : h.sub \in AllSubs /\ h.cmd \in 1..made
      /\ \A c \in 1..made : kind[c] \in Kinds
      /\ 1..made \subseteq Commands
  BY ScriptFacts DEF WifiInv, ScriptSound
<1>2. PICK o \in {"started", "ended", "forget"} : Doing(o)
  BY DEF Returned
<1>3. /\ todo' \in Seq(Steps) /\ Has(todo, o)
      /\ \A p : Has(todo, p) <=> p = o \/ Has(todo', p)
      /\ \A p, s : HasFor(todo, p, s) <=> (p = o /\ s = Head(todo).sub) \/ HasFor(todo', p, s)
      /\ \A p : Has(todo', p) => p \in Follow[o]
      /\ ~Doing("saved")' /\ ~Doing("taken")' /\ ~Doing("saved") /\ ~Doing("taken")
      /\ \A p : Doing(p) => p = o
  BY <1>1, <1>2, StepTail DEF Doing, Returned
<1>4. /\ hal = "up" /\ loop # "exited" /\ HandlersSound /\ ActiveSound /\ CallSound
  BY <1>1, <1>2, UpScript
<1>5. /\ \A p : Has(todo', p) => p = "release" /\ o = "ended"
      /\ \A p : Has(todo, p) => p = o \/ (p = "release" /\ o = "ended")
      /\ \A p, s : ~HasFor(todo', "unregister", s) /\ ~HasFor(todo, "unregister", s)
      /\ \A s : ~HasFor(todo, "register", s)
  <2>1. \A p : Has(todo', p) => p = "release" /\ o = "ended"
    BY <1>3, FollowFacts
  <2> QED
    BY <1>3, <2>1, HasFacts
<1>6. ScriptSound'
  BY <1>1, <1>2, ScriptTail DEF Returned
<1>7. TableSound' /\ Saved' = Saved
  <2>1. Freed' = Freed /\ hal' # "down"
    BY <1>4 DEF Freed, Returned
  <2> QED
    BY <1>1, <1>3, <2>1, TableFrame DEF Returned
<1>8. Heard' = Heard
  BY DEF Heard, Returned
<1>9. RefsSound'
  BY <1>1, <1>2, <1>3, <1>7 DEF RefsSound, Owns, Returned
<1>10. LoopSound'
  BY <1>1, <1>3, <1>7, <1>8 DEF LoopSound, Reported, Returned
<1>11. CleanupSound'
  BY <1>1, <1>4 DEF CleanupSound, Returned
<1>12. o # "forget" => cur # None /\ cur \in 1..made
  BY <1>1, <1>3 DEF ScriptSound, None
<1>13. active' \subseteq 1..made
  BY <1>1, <1>2, <1>3, <1>4, <1>12 DEF Returned, ActiveSound
<1>14. Types'
  BY <1>1, <1>3, <1>13 DEF Types, TypeOK, alloc_cmd, Steps, Ops, Returned
<1>15. CASE o = "started"
  <2>1. /\ active' = IF told[cur] = 0 THEN active \cup {cur} ELSE active
        /\ cur \notin active /\ \A p : ~Has(todo', p)
    BY <1>3, <1>4, <1>5, <1>15 DEF Returned, CallSound
  <2>2. told[cur] # 0 => Reported(cur)
    BY <1>1, <1>12, <1>15 DEF Reported, Types, TypeOK
  <2>3. /\ told[cur] # 0 => kind[cur] = "rtt" /\ \A h \in Heard : h.cmd # cur
    BY <1>1, <1>12, <1>15, <2>2 DEF LoopSound
  <2>4. HandlersSound'
    BY <1>3, <1>4, <1>5, <1>7, <1>8, <1>15, <2>1, <2>3 DEF HandlersSound, Returned
  <2>5. /\ \A c \in active : Hears(kind[c]) \cap Hears(kind[cur]) = {}
        /\ kind[cur] # "rtt" => \A s \in Hears(kind[cur]) : [sub |-> s, cmd |-> cur] \in Heard
    BY <1>3, <1>4, <1>5, <1>15 DEF CallSound
  <2>6. ActiveSound'
    <3>1. \A c, d \in active' : c # d => Hears(kind[c]) \cap Hears(kind[d]) = {}
      BY <1>4, <2>1, <2>5 DEF ActiveSound
    <3>2. \A c \in active' : kind[c] # "rtt" => \A s \in Hears(kind[c]) :
            [sub |-> s, cmd |-> c] \in Heard
      BY <1>4, <1>5, <1>15, <2>1, <2>5 DEF ActiveSound
    <3>3. \A c \in Saved : kind[c] # "rtt" => c \in active'
      BY <1>4, <1>5, <1>15, <2>1, <2>3 DEF ActiveSound
    <3> QED
      BY <1>5, <1>7, <1>8, <1>13, <3>1, <3>2, <3>3 DEF ActiveSound, Returned
  <2>7. CallSound'
    BY <2>1 DEF CallSound, Owns
  <2> QED
    BY <1>6, <1>7, <1>9, <1>10, <1>11, <1>14, <2>4, <2>6, <2>7 DEF WifiInv
<1>16. CASE o = "ended"
  <2>1. /\ active' = active \ {cur} /\ Has(todo, "release") /\ Has(todo', "release")
        /\ ~Has(todo, "take") /\ ~Has(todo', "take") /\ ~Has(todo', "ended")
        /\ ~Has(todo', "started")
    BY <1>1, <1>3, <1>5, <1>16 DEF Returned, ScriptSound
  <2>2. \A h \in Heard : h.cmd # cur
    BY <1>3, <1>4, <1>5, <1>16 DEF HandlersSound
  <2>3. cur \notin Saved /\ kind[cur] # "rtt"
    BY <1>3, <1>4, <1>16, <2>1 DEF CallSound, Owns
  <2>4. HandlersSound'
    BY <1>3, <1>4, <1>5, <1>7, <1>8, <2>1, <2>2 DEF HandlersSound, Returned
  <2>5. ActiveSound'
    BY <1>3, <1>4, <1>5, <1>7, <1>8, <1>13, <2>1, <2>3 DEF ActiveSound, Returned
  <2>6. CallSound'
    BY <1>5, <1>7, <2>1, <2>3 DEF CallSound, Owns, Returned
  <2> QED
    BY <1>6, <1>7, <1>9, <1>10, <1>11, <1>14, <2>4, <2>5, <2>6 DEF WifiInv
<1>17. CASE o = "forget"
  <2>1. /\ active' = {c \in active : kind[c] # "rtt"} /\ cur = None
        /\ \A p : ~Has(todo', p)
    BY <1>1, <1>3, <1>5, <1>17 DEF Returned, ScriptSound
  <2>2. \A h \in Heard : kind[h.cmd] # "rtt"
    <3> SUFFICES ASSUME NEW h \in Heard, kind[h.cmd] = "rtt" PROVE FALSE
      OBVIOUS
    <3>1. h.sub \in Hears("rtt") /\ "rtt" \in Kinds
      BY <1>1, <1>4 DEF HandlersSound
    <3>2. h.sub = "rtt"
      BY <3>1, SubsFacts
    <3> QED
      BY <1>3, <1>4, <1>5, <1>17, <3>2 DEF HandlersSound
  <2>3. \A h \in Heard : h.cmd \in active /\ h.cmd \in Saved
    BY <1>4, <1>5, <1>17 DEF HandlersSound
  <2>4. HandlersSound'
    BY <1>4, <1>7, <1>8, <2>1, <2>2, <2>3, HasFacts DEF HandlersSound, Returned
  <2>5. ActiveSound'
    BY <1>4, <1>5, <1>7, <1>8, <1>13, <1>17, <2>1 DEF ActiveSound, Returned
  <2>6. CallSound'
    BY <2>1 DEF CallSound, Owns
  <2> QED
    BY <1>6, <1>7, <1>9, <1>10, <1>11, <1>14, <2>4, <2>5, <2>6 DEF WifiInv
<1> QED
  BY <1>15, <1>16, <1>17

\* A call drops its reference of the command.
LEMMA ReleaseKeeps ==
    ASSUME WifiInv, Release
    PROVE  WifiInv'
<1> USE DEF callVars, tableVars, loopVars, driverVars
<1>1. /\ Types /\ ScriptSound /\ TableSound /\ RefsSound /\ LoopSound /\ CleanupSound
      /\ loop # "exited" => HandlersSound /\ ActiveSound /\ CallSound
      /\ todo \in Seq(Steps) /\ Ordered(todo) /\ made \in Nat /\ cur \in 0..made
      /\ 1..made \subseteq Commands
  BY ScriptFacts DEF WifiInv, ScriptSound
<1>2. Doing("release") /\ Has(todo, "release")
  BY <1>1, DoingHas DEF Release
<1>3. /\ todo' \in Seq(Steps)
      /\ \A p : Has(todo, p) <=> p = "release" \/ Has(todo', p)
      /\ \A p, s : HasFor(todo, p, s) <=>
                     (p = "release" /\ s = Head(todo).sub) \/ HasFor(todo', p, s)
      /\ \A p : Has(todo', p) => p \in Follow["release"]
      /\ ~Doing("saved")' /\ ~Doing("taken")' /\ ~Doing("saved") /\ ~Doing("taken")
  BY <1>1, <1>2, StepTail DEF Doing, Release
<1>4. /\ hal = "up" /\ loop # "exited" /\ HandlersSound /\ ActiveSound /\ CallSound
  BY <1>1, <1>2, UpScript
<1>5. /\ \A p : ~Has(todo', p)
      /\ \A p, s : ~HasFor(todo', p, s)
      /\ ~Has(todo, "take") /\ ~Has(todo, "save")
  <2>1. \A p : ~Has(todo', p)
    BY <1>3, FollowFacts
  <2> QED
    BY <1>3, <2>1, HasFacts
<1>6. cur # None /\ cur \in 1..made /\ cur \in Commands
  BY <1>1, <1>2 DEF ScriptSound, None
<1>7. ScriptSound'
  BY <1>1, <1>2, ScriptTail DEF Release
<1>8. TableSound' /\ Saved' = Saved
  <2>1. Freed' = Freed /\ hal' # "down"
    BY <1>4 DEF Freed, Release
  <2> QED
    BY <1>1, <1>3, <2>1, TableFrame DEF Release
<1>9. Heard' = Heard
  BY DEF Heard, Release
<1>10. RefsSound'
  <2>1. \A c \in Commands : Owns(c) <=> c = cur
    BY <1>2, <1>5 DEF Owns
  <2>2. \A c \in Commands : ~Owns(c)'
    BY <1>5 DEF Owns
  <2>3. refs' = [refs EXCEPT ![cur] = @ - 1] /\ refs \in [Commands -> 0..3]
    BY <1>1 DEF Release, releaseRef, Types, TypeOK
  <2> QED
    BY <1>1, <1>6, <1>8, <2>1, <2>2, <2>3 DEF RefsSound, Release, Ref
<1>11. LoopSound'
  BY <1>1, <1>3, <1>8, <1>9 DEF LoopSound, Reported, Release
<1>12. CleanupSound'
  BY <1>1, <1>4 DEF CleanupSound, Release
<1>13. HandlersSound'
  BY <1>3, <1>4, <1>5, <1>8, <1>9 DEF HandlersSound, Release
<1>14. ActiveSound'
  BY <1>1, <1>2, <1>3, <1>4, <1>5, <1>8, <1>9 DEF ActiveSound, Release
<1>15. CallSound'
  BY <1>5 DEF CallSound, Owns
<1>16. Types'
  <2>0. refs' = [refs EXCEPT ![cur] = @ - 1] /\ refs \in [Commands -> 0..3]
    BY <1>1 DEF Release, releaseRef, Types, TypeOK
  <2>1. refs' \in [Commands -> Int]
    BY <1>6, <2>0
  <2>2. refs' \in [Commands -> 0..3]
    BY <1>10, <1>11, <1>15, <2>1, RefsTyped
  <2> QED
    BY <1>1, <1>3, <2>2 DEF Types, TypeOK, alloc_cmd, Steps, Ops, Release
<1> QED
  BY <1>7, <1>8, <1>10, <1>11, <1>12, <1>13, <1>14, <1>15, <1>16 DEF WifiInv

\* Cleanup goes on when the event thread has left.
LEMMA WaitDoneKeeps ==
    ASSUME WifiInv, WaitDone
    PROVE  WifiInv'
<1> USE DEF callVars, tableVars, loopVars, driverVars
<1>1. /\ Types /\ ScriptSound /\ TableSound /\ RefsSound /\ LoopSound /\ CleanupSound
      /\ todo \in Seq(Steps) /\ Ordered(todo) /\ made \in Nat
  BY ScriptFacts DEF WifiInv, ScriptSound
<1>2. Doing("wait") /\ Has(todo, "wait") /\ todo # <<>> /\ Head(todo).op = "wait"
  BY <1>1, DoingHas DEF WaitDone, Doing
<1>3. /\ todo' \in Seq(Steps)
      /\ \A p : Has(todo, p) <=> p = "wait" \/ Has(todo', p)
      /\ \A p : Has(todo', p) => p \in Follow["wait"]
      /\ ~Doing("saved")' /\ ~Doing("taken")' /\ ~Doing("saved") /\ ~Doing("taken")
      /\ ~Has(todo', "wait")
  BY <1>1, <1>2, StepTail DEF Doing, WaitDone
<1>4. loop = "exited" /\ hal = "cleaning" /\ ~Has(todo', "swept")
  BY <1>1, <1>2, <1>3, FollowFacts DEF WaitDone, CleanupSound, ScriptSound, Types, TypeOK
<1>5. ScriptSound'
  BY <1>1, <1>2, ScriptTail DEF WaitDone
<1>6. TableSound' /\ Saved' = Saved
  <2>1. Freed' = Freed /\ hal' # "down"
    BY <1>4 DEF Freed, WaitDone
  <2> QED
    BY <1>1, <1>3, <2>1, TableFrame DEF WaitDone
<1>7. Heard' = Heard
  BY DEF Heard, WaitDone
<1>8. RefsSound'
  BY <1>1, <1>3, <1>6 DEF RefsSound, Owns, WaitDone
<1>9. LoopSound'
  BY <1>1, <1>3, <1>6, <1>7 DEF LoopSound, Reported, WaitDone
<1>10. CleanupSound'
  BY <1>1, <1>3, <1>4 DEF CleanupSound, WaitDone
<1>11. Types'
  BY <1>1, <1>3 DEF Types, TypeOK, alloc_cmd, Steps, Ops, WaitDone
<1> QED
  BY <1>4, <1>5, <1>6, <1>8, <1>9, <1>10, <1>11 DEF WifiInv, WaitDone

\* Cleanup cancels the next command.
LEMMA SweepKeeps ==
    ASSUME WifiInv, Sweep
    PROVE  WifiInv'
<1> USE DEF callVars, tableVars, loopVars, driverVars
<1>1. /\ Types /\ ScriptSound /\ TableSound /\ RefsSound /\ LoopSound /\ CleanupSound
      /\ todo \in Seq(Steps) /\ Ordered(todo) /\ made \in Nat /\ alloc_cmd \in Nat
      /\ \A c \in 1..made : kind[c] \in Kinds
  BY ScriptFacts DEF WifiInv, ScriptSound
<1>2. Doing("sweep") /\ todo # <<>> /\ Head(todo).op = "sweep"
  BY DEF Sweep, Doing
<1>3. /\ hal = "cleaning" /\ loop = "exited"
      /\ \A p : Has(todo, p) <=> p = "sweep"
  BY <1>1, <1>2, SweepingScript
<1>4. ~Doing("saved") /\ ~Doing("taken") /\ Size = num_cmd
  BY <1>2, <1>3 DEF Doing, Size
<1>5. /\ bad_commands + 1 \in 1..Size /\ cur' = cmd[bad_commands + 1]
      /\ bad_commands < num_cmd
  <2>1. bad_commands \in Nat /\ num_cmd \in Nat
    BY <1>1 DEF Types, TypeOK
  <2> QED
    BY <1>4, <2>1 DEF Sweep
<1>6. cur' \in 1..made /\ kind[cur'] \in Kinds
  BY <1>1, <1>5, SavedMade
<1>7. /\ todo' \in Seq(Steps) /\ Ordered(todo') /\ todo' # <<>>
      /\ Head(todo').op \in {"unregister", "stop"}
      /\ \A p : Has(todo', p) <=> p \in {"unregister", "stop", "swept", "sweep"}
  <2>1. Cancelling(cancel(kind[cur']) \o <<Op("swept")>> \o todo, kind[cur'])
    BY <1>1, <1>2, <1>6, SweepScript
  <2>2. Cancelling(todo', kind[cur'])
    BY <2>1 DEF Sweep
  <2> QED
    BY <2>2 DEF Cancelling
<1>0. UNCHANGED <<hal, made, kind, refs, active, tableVars, event_cb, bad_commands, socks,
                  loopVars, driverVars, told>>
  BY DEF Sweep
<1>8. ~Doing("saved")' /\ ~Doing("taken")'
  BY <1>7 DEF Doing
<1>9. cur' # None
  BY <1>6, <1>1 DEF None
<1>10. ScriptSound'
  BY <1>0, <1>3, <1>7, <1>9 DEF ScriptSound
<1>11. TableSound' /\ Saved' = Saved
  <2>1. Freed' = Freed /\ hal' # "down"
    BY <1>0, <1>3 DEF Freed
  <2> QED
    BY <1>0, <1>1, <1>4, <1>8, <2>1, TableFrame
<1>12. Heard' = Heard
  BY <1>0 DEF Heard
<1>13. RefsSound'
  <2>1. \A c \in Commands : ~Owns(c) /\ ~Owns(c)'
    BY <1>3, <1>7 DEF Owns
  <2> QED
    BY <1>0, <1>1, <1>11, <2>1 DEF RefsSound, Ref
<1>14. LoopSound'
  BY <1>0, <1>1, <1>7, <1>11, <1>12 DEF LoopSound, Reported
<1>15. CleanupSound'
  BY <1>0, <1>1, <1>3, <1>5, <1>7 DEF CleanupSound
<1>16. Types'
  <2>1. cur' \in 0..MaxCommands /\ cur' \in 0..made
    BY <1>1, <1>6, ScriptFacts
  <2>2. cb_lock' \in {"free", "api"}
    BY DEF Sweep
  <2> QED
    BY <1>0, <1>1, <1>7, <2>1, <2>2 DEF Types, TypeOK, alloc_cmd, Steps, Ops
<1> QED
  BY <1>3, <1>10, <1>11, <1>13, <1>14, <1>15, <1>16, <1>0 DEF WifiInv

\* Cleanup drops the reference of the table.
LEMMA SweptKeeps ==
    ASSUME WifiInv, Swept
    PROVE  WifiInv'
<1> USE DEF callVars, tableVars, loopVars, driverVars
<1>1. /\ Types /\ ScriptSound /\ TableSound /\ RefsSound /\ LoopSound /\ CleanupSound
      /\ todo \in Seq(Steps) /\ Ordered(todo) /\ made \in Nat /\ alloc_cmd \in Nat
      /\ 1..made \subseteq Commands
  BY ScriptFacts DEF WifiInv, ScriptSound
<1>2. Doing("swept") /\ todo # <<>> /\ Head(todo).op = "swept" /\ Has(todo, "swept")
  BY <1>1, DoingHas DEF Swept, Doing
<1>3. /\ hal = "cleaning" /\ loop = "exited" /\ Freed = bad_commands
      /\ \A p : Has(todo, p) => p \in {"swept", "sweep"}
  BY <1>1, <1>2, SweepingScript
<1>4. /\ todo' \in Seq(Steps)
      /\ \A p : Has(todo, p) <=> p = "swept" \/ Has(todo', p)
      /\ \A p : Has(todo', p) => p \in Follow["swept"]
      /\ ~Doing("saved")' /\ ~Doing("taken")' /\ ~Inside' /\ ~Has(todo', "wait")
  BY <1>1, <1>2, StepTail DEF Swept
<1>5. /\ ~Doing("saved") /\ ~Doing("taken") /\ Size = num_cmd /\ Size' = num_cmd /\ ~Inside
  BY <1>2, <1>3, <1>4 DEF Doing, Size, Swept, Inside
<1>6. /\ bad_commands \in Nat /\ num_cmd \in Nat /\ bad_commands < num_cmd
      /\ cur = cmd[bad_commands + 1]
  BY <1>1, <1>2, <1>3 DEF CleanupSound, Types, TypeOK
<1>7. ~Has(todo', "swept")
  BY <1>4, FollowFacts
<1>8. ScriptSound'
  BY <1>1, <1>2, ScriptTail DEF Swept
<1>9. Freed' = bad_commands + 1
  BY <1>3 DEF Freed, Swept
<1>10. /\ cur \in Saved /\ Saved' = Saved \ {cur} /\ cur \in Commands
  <2>1. /\ Saved = {cmd[i] : i \in bad_commands + 1 .. num_cmd}
        /\ Saved' = {cmd[i] : i \in bad_commands + 1 + 1 .. num_cmd}
    BY <1>3, <1>5, <1>9 DEF Saved, Swept
  <2>2. \A i, j \in 1 .. num_cmd : cmd[i] = cmd[j] => i = j
    BY <1>1, <1>5 DEF TableSound
  <2>3. bad_commands + 1 \in bad_commands + 1 .. num_cmd
    BY <1>6
  <2>4. \A i \in bad_commands + 1 .. num_cmd :
          /\ i \in 1 .. num_cmd
          /\ i = bad_commands + 1 \/ i \in bad_commands + 1 + 1 .. num_cmd
    BY <1>6
  <2>5. \A i \in bad_commands + 1 + 1 .. num_cmd :
          i \in bad_commands + 1 .. num_cmd /\ i # bad_commands + 1
    BY <1>6
  <2>6. cur \in Saved
    BY <1>6, <2>1, <2>3
  <2>7. Saved' = Saved \ {cur}
    BY <1>6, <2>1, <2>2, <2>3, <2>4, <2>5
  <2> QED
    BY <1>1, <2>6, <2>7, SavedMade
<1>11. TableSound'
  <2>1. alloc_cmd' = alloc_cmd /\ loop' = "exited" /\ hal' = "cleaning"
    BY <1>3 DEF alloc_cmd, Swept
  <2> QED
    BY <1>1, <1>3, <1>4, <1>5, <2>1 DEF TableSound, Swept
<1>12. Heard' = Heard
  BY DEF Heard, Swept
<1>13. RefsSound'
  <2>1. \A c \in Commands : ~Owns(c) /\ ~Owns(c)'
    BY <1>3, <1>4 DEF Owns
  <2>2. refs' = [refs EXCEPT ![cur] = @ - 1] /\ refs \in [Commands -> 0..3]
    BY <1>1 DEF Swept, releaseRef, Types, TypeOK
  <2> QED
    BY <1>1, <1>10, <2>1, <2>2 DEF RefsSound, Ref, Swept
<1>14. LoopSound'
  BY <1>1, <1>3, <1>4, <1>12 DEF LoopSound, Reported, Swept
<1>15. CleanupSound'
  BY <1>1, <1>3, <1>4, <1>6, <1>7 DEF CleanupSound, Swept
<1>16. Types'
  <2>0. refs' = [refs EXCEPT ![cur] = @ - 1] /\ refs \in [Commands -> 0..3]
    BY <1>1 DEF Swept, releaseRef, Types, TypeOK
  <2>1. refs' \in [Commands -> Int]
    BY <1>10, <2>0
  <2>2. refs' \in [Commands -> 0..3]
    BY <1>3, <1>13, <1>14, <2>1, RefsTyped DEF Swept
  <2>3. bad_commands' \in 0..alloc_cmd
    BY <1>1, <1>6 DEF Swept, Types, TypeOK
  <2> QED
    BY <1>1, <1>4, <2>2, <2>3 DEF Types, TypeOK, alloc_cmd, Steps, Ops, Swept
<1> QED
  BY <1>3, <1>8, <1>11, <1>13, <1>14, <1>15, <1>16 DEF WifiInv, Swept

\* The table is empty at the end of a cleanup, and so is everything else.
LEMMA CleanedUpKeeps ==
    ASSUME WifiInv, CleanedUp
    PROVE  WifiInv'
<1> USE DEF callVars, tableVars, loopVars, driverVars
<1>1. /\ Types /\ ScriptSound /\ TableSound /\ RefsSound /\ LoopSound /\ CleanupSound
      /\ todo \in Seq(Steps) /\ Ordered(todo) /\ made \in Nat /\ alloc_cmd \in Nat
  BY ScriptFacts DEF WifiInv, ScriptSound
<1>2. Doing("sweep") /\ todo # <<>> /\ Head(todo).op = "sweep"
  BY DEF CleanedUp, Doing
<1>3. /\ hal = "cleaning" /\ loop = "exited" /\ Freed = bad_commands
      /\ \A p : Has(todo, p) <=> p = "sweep"
  BY <1>1, <1>2, SweepingScript
<1>4. ~Doing("saved") /\ ~Doing("taken") /\ Size = num_cmd /\ ~Inside
  BY <1>2, <1>3 DEF Doing, Size, Inside
<1>5. Saved = {}
  <2>1. bad_commands + 1 .. num_cmd = {}
    BY <1>1 DEF Types, TypeOK, CleanedUp
  <2> QED
    BY <1>3, <1>4, <2>1 DEF Saved
<1>6. /\ todo' = <<>> /\ ~Doing("saved")' /\ ~Doing("taken")' /\ ~Inside'
      /\ \A p : ~Has(todo', p)
      /\ Ordered(todo') /\ todo' \in Seq(Steps)
  BY HasFacts DEF CleanedUp, Doing, Inside
<1>7. Size' = 0 /\ Freed' = 0
  BY <1>3, <1>6 DEF Size, Freed, CleanedUp
<1>8. Saved' = {}
  <2>1. 0 + 1 .. 0 = {}
    OBVIOUS
  <2> QED
    BY <1>7, <2>1 DEF Saved
<1>9. ScriptSound'
  BY <1>6 DEF ScriptSound, CleanedUp
<1>10. TableSound'
  <2>1. alloc_cmd' = alloc_cmd /\ loop' = "exited" /\ num_cmd' = 0
    BY <1>3 DEF alloc_cmd, CleanedUp
  <2>2. \A t \in Threads : seen'[t] = -1
    BY <1>1, <1>3, <1>4 DEF TableSound, Threads, CleanedUp
  <2>3. 1..0 = {}
    OBVIOUS
  <2> QED
    BY <1>1, <1>6, <1>7, <2>1, <2>2, <2>3 DEF TableSound, Threads
<1>11. RefsSound'
  <2>1. \A c \in Commands : ~Owns(c) /\ ~Owns(c)'
    BY <1>3, <1>6 DEF Owns
  <2> QED
    BY <1>1, <1>5, <1>8, <2>1 DEF RefsSound, Ref, CleanedUp
<1>12. Heard' = {}
  <2>1. DOMAIN event_cb' = {}
    BY DEF CleanedUp
  <2> QED
    BY <2>1 DEF Heard
<1>13. LoopSound'
  BY <1>1, <1>3, <1>6, <1>12 DEF LoopSound, Reported, CleanedUp
<1>14. CleanupSound'
  BY <1>1, <1>3, <1>6 DEF CleanupSound, CleanedUp
<1>15. Types'
  <2>1. event_cb' = <<>> /\ DOMAIN event_cb' = {}
    BY DEF CleanedUp
  <2>2. /\ event_cb' \in Seq([sub : AllSubs, cmd : 1..made'])
        /\ \A i, j \in DOMAIN event_cb' : event_cb'[i].sub = event_cb'[j].sub => i = j
        /\ \A i \in DOMAIN event_cb' : event_cb'[i] \in [sub : AllSubs, cmd : Commands]
    BY <2>1
  <2>3. cur' \in 0..made' /\ cur' \in 0..MaxCommands /\ num_cmd' \in 0..alloc_cmd'
        /\ active' \subseteq Commands
    <3>1. alloc_cmd' = alloc_cmd /\ made' = made /\ cur' = 0 /\ num_cmd' = 0 /\ active' = {}
      BY DEF CleanedUp, None, alloc_cmd
    <3> QED
      BY <1>1, <3>1, WifiAssumption
  <2> QED
    BY <1>1, <1>6, <2>2, <2>3 DEF Types, TypeOK, alloc_cmd, Steps, Ops, CleanedUp
<1> QED
  BY <1>3, <1>9, <1>10, <1>11, <1>13, <1>14, <1>15 DEF WifiInv, CleanedUp

-----------------------------------------------------------------------------
(* The calls begin.                                                        *)

\* Between two calls a script has no steps, every handler is of a command the
\* caller has running and every command of the table is one of these or an RTT.
LEMMA IdleFacts ==
    ASSUME WifiInv, Idle
    PROVE  /\ Types /\ ScriptSound /\ TableSound /\ RefsSound /\ LoopSound /\ CleanupSound
           /\ HandlersSound /\ ActiveSound /\ CallSound
           /\ hal = "up" /\ loop # "exited" /\ todo = <<>> /\ Freed = 0
           /\ ~Doing("saved") /\ ~Doing("taken")
           /\ \A o, s : ~Has(todo, o) /\ ~HasFor(todo, o, s)
           /\ \A c : ~Owns(c)
           /\ \A h \in Heard : /\ h.cmd \in active /\ h.cmd \in Saved /\ h.cmd \in 1..made
                               /\ h.sub \in Hears(kind[h.cmd])
           /\ \A c \in Saved : kind[c] # "rtt" => c \in active
           /\ Saved \subseteq 1..made /\ active \subseteq 1..made /\ 1..made \subseteq Commands
           /\ made \in Nat /\ lcmd \in 0..made
           /\ \A c \in 1..made : kind[c] \in Kinds
<1>1. /\ Types /\ ScriptSound /\ TableSound /\ RefsSound /\ LoopSound /\ CleanupSound
      /\ loop # "exited" => HandlersSound /\ ActiveSound /\ CallSound
      /\ hal = "up" /\ todo = <<>> /\ Freed = 0
  BY DEF WifiInv, Idle, Freed
<1>2. loop # "exited" /\ HandlersSound /\ ActiveSound /\ CallSound
  BY <1>1 DEF CleanupSound
<1>3. /\ ~Doing("saved") /\ ~Doing("taken")
      /\ \A o, s : ~Has(todo, o) /\ ~HasFor(todo, o, s)
  BY <1>1, HasFacts DEF Doing
<1>4. \A c : ~Owns(c)
  BY <1>3 DEF Owns
<1>5. /\ Saved \subseteq 1..made /\ active \subseteq 1..made /\ 1..made \subseteq Commands
      /\ made \in Nat /\ lcmd \in 0..made
      /\ \A c \in 1..made : kind[c] \in Kinds
      /\ \A h \in Heard : h.cmd \in 1..made
  BY <1>1, <1>2, SavedMade, ScriptFacts DEF ActiveSound, LoopSound
<1>6. \A h \in Heard : h.cmd \in active /\ h.cmd \in Saved /\ h.sub \in Hears(kind[h.cmd])
  BY <1>2, <1>3 DEF HandlersSound
<1>7. \A c \in Saved : kind[c] # "rtt" => c \in active
  BY <1>2, <1>3 DEF ActiveSound
<1> QED
  BY <1>1, <1>2, <1>3, <1>4, <1>5, <1>6, <1>7

\* wifi_cleanup begins.
LEMMA CleanupKeeps ==
    ASSUME WifiInv, wifi_cleanup
    PROVE  WifiInv'
<1> USE DEF callVars, tableVars, loopVars, driverVars
<1>1. /\ Types /\ ScriptSound /\ TableSound /\ RefsSound /\ LoopSound /\ CleanupSound
      /\ HandlersSound /\ ActiveSound /\ CallSound
      /\ hal = "up" /\ loop # "exited" /\ todo = <<>> /\ Freed = 0
      /\ ~Doing("saved") /\ ~Doing("taken")
      /\ \A o, s : ~Has(todo, o) /\ ~HasFor(todo, o, s)
      /\ \A c : ~Owns(c)
      /\ made \in Nat /\ alloc_cmd \in Nat
  BY IdleFacts, ScriptFacts DEF wifi_cleanup
<1>2. /\ UNCHANGED <<cur, made, kind, refs, active, tableVars, event_cb, cb_lock,
                     loopVars, driverVars, told>>
      /\ hal' = "cleaning" /\ socks' = "Exit" /\ bad_commands' = 0
  BY DEF wifi_cleanup
<1>3. /\ todo' \in Seq(Steps) /\ Ordered(todo') /\ todo' # <<>> /\ Head(todo').op = "wait"
      /\ Len(todo') = 2
      /\ \A p : Has(todo', p) <=> p \in {"wait", "sweep"}
      /\ \A s : ~HasFor(todo', "unregister", s)
  <2>1. todo' = <<Op("wait"), Op("sweep")>>
    BY DEF wifi_cleanup
  <2> QED
    BY <2>1, CleanupScript
<1>4. ~Doing("saved")' /\ ~Doing("taken")'
  BY <1>3 DEF Doing
<1>5. \A c : ~Owns(c)'
  BY <1>3 DEF Owns
<1>6. ScriptSound'
  BY <1>2, <1>3 DEF ScriptSound
<1>7. TableSound' /\ Saved' = Saved
  <2>1. Freed' = Freed
    BY <1>1, <1>2 DEF Freed
  <2> QED
    BY <1>1, <1>2, <1>4, <2>1, TableFrame
<1>8. Heard' = Heard
  BY <1>2 DEF Heard
<1>9. RefsSound'
  BY <1>1, <1>2, <1>5, <1>7 DEF RefsSound, Ref
<1>10. LoopSound'
  BY <1>1, <1>2, <1>3, <1>7, <1>8 DEF LoopSound, Reported
<1>11. CleanupSound'
  BY <1>1, <1>2, <1>3 DEF CleanupSound, TableSound
<1>12. Types'
  <2>1. alloc_cmd' = alloc_cmd /\ bad_commands' \in 0..alloc_cmd
    BY <1>1, <1>2 DEF alloc_cmd
  <2> QED
    BY <1>1, <1>2, <1>3, <2>1 DEF Types, TypeOK, Steps, Ops
<1>13. HandlersSound'
  BY <1>1, <1>2, <1>3, <1>7, <1>8 DEF HandlersSound
<1>14. ActiveSound'
  BY <1>1, <1>2, <1>3, <1>7, <1>8 DEF ActiveSound
<1>15. CallSound'
  BY <1>2, <1>3, <1>5 DEF CallSound
<1> QED
  BY <1>6, <1>7, <1>9, <1>10, <1>11, <1>12, <1>13, <1>14, <1>15 DEF WifiInv

\* wifi_initialize makes an empty table.
LEMMA InitializeKeeps ==
    ASSUME WifiInv, wifi_initialize
    PROVE  WifiInv'
<1> USE DEF callVars, tableVars, loopVars, driverVars
<1>1. /\ Types /\ ScriptSound /\ TableSound /\ RefsSound /\ LoopSound /\ CleanupSound
      /\ hal = "down" /\ todo = <<>> /\ loop \in {"none", "exited"} /\ active = {}
      /\ event_cb = <<>> /\ num_cmd = 0 /\ lcmd = None
      /\ made \in Nat /\ alloc_cmd \in Nat /\ cmd \in Seq(0..MaxCommands) /\ MaxCommands \in Nat
  BY ScriptFacts DEF wifi_initialize, WifiInv, ScriptSound, CleanupSound, TableSound, LoopSound
<1>2. /\ UNCHANGED <<todo, cur, made, kind, refs, active, seen, event_cb, cb_lock,
                     bad_commands, lcmd, ldone, sent, told>>
      /\ hal' = "up" /\ num_cmd' = 0 /\ loop' = "none" /\ socks' = "empty" /\ events' = <<>>
  BY DEF wifi_initialize
<1>3. cmd' \in Seq(0..MaxCommands) /\ alloc_cmd' = alloc_cmd
  <2> DEFINE S == 0..MaxCommands
             l == Len(cmd)
  <2>1. cmd' = [i \in 1..l |-> 0] /\ l \in Nat /\ 0 \in S /\ l = alloc_cmd
    BY <1>1 DEF wifi_initialize, None, alloc_cmd
  <2> HIDE DEF S, l
  <2>2. cmd' \in Seq(S) /\ Len(cmd') = l
    BY <2>1
  <2> QED
    BY <2>1, <2>2 DEF S, alloc_cmd
<1>4. /\ ~Doing("saved") /\ ~Doing("taken") /\ ~Inside
      /\ ~Doing("saved")' /\ ~Doing("taken")' /\ ~Inside'
      /\ \A o, s : ~Has(todo, o) /\ ~HasFor(todo, o, s)
      /\ \A c : ~Owns(c) /\ ~Owns(c)'
  <2>1. \A o, s : ~Has(todo, o) /\ ~HasFor(todo, o, s)
    BY <1>1, HasFacts
  <2> QED
    BY <1>1, <1>2, <2>1 DEF Doing, Inside, Owns
<1>5. Size = 0 /\ Freed = 0 /\ Size' = 0 /\ Freed' = 0
  BY <1>1, <1>2, <1>4 DEF Size, Freed
<1>6. Saved = {} /\ Saved' = {}
  <2>1. 0 + 1 .. 0 = {}
    OBVIOUS
  <2> QED
    BY <1>5, <2>1 DEF Saved
<1>7. Heard = {} /\ Heard' = {}
  <2>1. DOMAIN event_cb = {}
    BY <1>1
  <2> QED
    BY <1>2, <2>1 DEF Heard
<1>8. ScriptSound'
  BY <1>1, <1>2, <1>4, HasFacts DEF ScriptSound
<1>9. TableSound'
  <2>1. 1..0 = {}
    OBVIOUS
  <2>2. \A t \in Threads : seen'[t] = -1
    BY <1>1, <1>2, <1>4 DEF TableSound, Threads
  <2> QED
    BY <1>1, <1>2, <1>3, <1>4, <1>5, <2>1, <2>2 DEF TableSound, Threads
<1>10. RefsSound'
  BY <1>1, <1>2, <1>4, <1>6 DEF RefsSound, Ref
<1>11. LoopSound'
  BY <1>1, <1>2, <1>4, <1>7 DEF LoopSound, Reported
<1>12. CleanupSound'
  BY <1>2 DEF CleanupSound
<1>13. Types'
  <2>1. cmd' \in [1..alloc_cmd' -> 0..MaxCommands] /\ num_cmd' \in 0..alloc_cmd'
    BY <1>1, <1>2, <1>3, SequenceIsFunction DEF alloc_cmd
  <2> QED
    BY <1>1, <1>2, <1>3, <2>1 DEF Types, TypeOK
<1>14. HandlersSound' /\ CallSound'
  BY <1>2, <1>4, <1>7 DEF HandlersSound, CallSound
<1>15. ActiveSound'
  BY <1>1, <1>2, <1>6 DEF ActiveSound
<1> QED
  BY <1>8, <1>9, <1>10, <1>11, <1>12, <1>13, <1>14, <1>15 DEF WifiInv

\* A sequence over a set is one over a larger set.
LEMMA LargerSet ==
    ASSUME NEW S, NEW T, S \subseteq T, NEW q \in Seq(S)
    PROVE  q \in Seq(T)
<1> DEFINE l == Len(q)
<1>1. l \in Nat /\ q \in [1..l -> T]
  OBVIOUS
<1> HIDE DEF l
<1> QED
  BY <1>1

\* A call makes a command.
LEMMA StartKeeps ==
    ASSUME WifiInv, NEW k \in Kinds, Start(k)
    PROVE  WifiInv'
<1> USE DEF callVars, tableVars, loopVars, driverVars
<1> DEFINE n == made + 1
<1>1. /\ Types /\ ScriptSound /\ TableSound /\ RefsSound /\ LoopSound /\ CleanupSound
      /\ HandlersSound /\ ActiveSound /\ CallSound
      /\ hal = "up" /\ loop # "exited" /\ todo = <<>> /\ Freed = 0
      /\ ~Doing("saved") /\ ~Doing("taken")
      /\ \A o, s : ~Has(todo, o) /\ ~HasFor(todo, o, s)
      /\ \A c : ~Owns(c)
      /\ \A h \in Heard : /\ h.cmd \in active /\ h.cmd \in Saved /\ h.cmd \in 1..made
                          /\ h.sub \in Hears(kind[h.cmd])
      /\ \A c \in Saved : kind[c] # "rtt" => c \in active
      /\ Saved \subseteq 1..made /\ active \subseteq 1..made /\ 1..made \subseteq Commands
      /\ made \in Nat /\ lcmd \in 0..made
      /\ \A c \in 1..made : kind[c] \in Kinds
  BY IdleFacts DEF Start
<1>2. /\ UNCHANGED <<hal, active, tableVars, event_cb, cb_lock, bad_commands,
                     socks, loopVars, driverVars, told>>
      /\ made' = n /\ cur' = n
      /\ kind' = [kind EXCEPT ![n] = k] /\ refs' = [refs EXCEPT ![n] = 1]
      /\ made < MaxCommands /\ MayStart(k)
  BY DEF Start
<1>3. /\ todo' \in Seq(Steps) /\ Ordered(todo') /\ Starts(todo', k)
      /\ Head(todo').op = "save" /\ todo' # <<>>
      /\ \A p : Has(todo', p) => p \in {"save", "saved", "request", "register", "started"}
      /\ \A p \in {"save", "saved", "register", "started"} : Has(todo', p)
      /\ \A s \in Hears(k) : HasFor(todo', "register", s)
  <2>1. todo' = <<Op("save"), Op("saved")>> \o start(k) \o <<Op("started")>>
    BY DEF Start
  <2> QED
    BY <2>1, StartScript
<1>4. /\ n \in Commands /\ n \in 1..n /\ n # None /\ n \notin 1..made /\ n \notin 0..made
      /\ 1..made \subseteq 1..n /\ n \in 0..MaxCommands
  BY <1>1, <1>2, WifiAssumption DEF Commands, None
<1>5. /\ kind \in [Commands -> Kinds \cup {"none"}] /\ refs \in [Commands -> 0..3]
      /\ told \in [Commands -> Nat]
  BY <1>1 DEF Types, TypeOK
<1> HIDE DEF n
<1>6. /\ kind'[n] = k /\ \A c \in 1..made : kind'[c] = kind[c]
      /\ kind' \in [Commands -> Kinds \cup {"none"}] /\ refs' \in [Commands -> 0..3]
      /\ refs'[n] = 1 /\ \A c \in Commands : c # n => refs'[c] = refs[c]
  BY <1>1, <1>2, <1>4, <1>5
<1>7. /\ n \notin Saved /\ n \notin active /\ lcmd # n /\ \A h \in Heard : h.cmd # n
  BY <1>1, <1>4
<1>8. ~Doing("saved")' /\ ~Doing("taken")'
  BY <1>3 DEF Doing
<1>9. ScriptSound'
  BY <1>1, <1>2, <1>3, <1>4, <1>6 DEF ScriptSound
<1>10. TableSound' /\ Saved' = Saved
  <2>1. Freed' = Freed
    BY <1>1, <1>2 DEF Freed
  <2>2. made' = made + 1
    BY <1>2 DEF n
  <2> QED
    BY <1>1, <1>2, <1>8, <2>1, <2>2, TableFrame
<1>11. Heard' = Heard
  BY <1>2 DEF Heard
<1>12. refs[n] = 0 /\ told[n] = 0
  <2>1. ~Reported(n)
    BY <1>1, <1>4 DEF LoopSound
  <2>2. refs[n] = 0
    BY <1>1, <1>4, <1>7 DEF RefsSound, Ref
  <2> QED
    BY <1>4, <1>5, <2>1, <2>2 DEF Reported
<1>13. RefsSound'
  <2>1. \A c \in Commands : Owns(c)' <=> c = n
    BY <1>2, <1>3 DEF Owns
  <2> QED
    BY <1>1, <1>2, <1>6, <1>7, <1>10, <2>1 DEF RefsSound, Ref
<1>14. LoopSound'
  <2>1. \A c : Reported(c)' <=> Reported(c)
    BY <1>2 DEF Reported
  <2>2. lcmd # None => kind'[lcmd] = kind[lcmd]
    BY <1>1, <1>6 DEF None
  <2>3. \A c \in Commands : Reported(c) => /\ c \in 1..made' /\ kind'[c] = "rtt"
                                           /\ \A h \in Heard : h.cmd # c
                                           /\ c # cur'
    BY <1>1, <1>2, <1>4, <1>6 DEF LoopSound
  <2>4. lcmd' \in 0..made'
    BY <1>1, <1>2, <1>4
  <2> QED
    BY <1>1, <1>2, <1>10, <1>11, <2>1, <2>2, <2>3, <2>4 DEF LoopSound
<1>15. CleanupSound'
  BY <1>1, <1>2 DEF CleanupSound
<1>16. Types'
  <2>1. event_cb \in Seq([sub : AllSubs, cmd : 1..n])
    <3> DEFINE S == [sub : AllSubs, cmd : 1..made]
               T == [sub : AllSubs, cmd : 1..n]
    <3>1. event_cb \in Seq(S) /\ S \subseteq T
      BY <1>1, <1>4 DEF Types
    <3> HIDE DEF S, T
    <3>2. event_cb \in Seq(T)
      BY <3>1, LargerSet
    <3> QED
      BY <3>2 DEF T
  <2>2. \A c \in 1..n : kind'[c] \in Kinds
    BY <1>1, <1>6, <1>4 DEF n
  <2>3. cur' \in 0..made' /\ cur' \in 0..MaxCommands /\ made' \in 0..MaxCommands
    BY <1>1, <1>2, <1>4 DEF n
  <2> QED
    BY <1>1, <1>2, <1>3, <1>6, <2>1, <2>2, <2>3 DEF Types, TypeOK, alloc_cmd, Steps, Ops
<1>17. HandlersSound'
  BY <1>1, <1>2, <1>3, <1>6, <1>10, <1>11 DEF HandlersSound
<1>18. ActiveSound'
  <2>1. \A s : ~HasFor(todo', "unregister", s)
    BY <1>3, HasFacts
  <2>2. active' \subseteq 1..made'
    BY <1>1, <1>2, <1>4
  <2>3. \A c \in active : kind'[c] = kind[c]
    BY <1>1, <1>6
  <2>4. \A c \in Saved : kind'[c] = kind[c]
    BY <1>1, <1>6
  <2> QED
    BY <1>1, <1>2, <1>10, <1>11, <2>1, <2>2, <2>3, <2>4 DEF ActiveSound
<1>19. CallSound'
  <2>1. \A c \in active : Hears(kind'[c]) \cap Hears(k) = {}
    BY <1>1, <1>2, <1>6 DEF MayStart, Hears
  <2>2. \A s \in Hears(k) : \A h \in Heard : h.sub # s
    BY <1>1, <1>6, <2>1
  <2> QED
    BY <1>2, <1>3, <1>6, <1>7, <1>10, <1>11, <2>1, <2>2 DEF CallSound
<1> QED
  BY <1>9, <1>10, <1>13, <1>14, <1>15, <1>16, <1>17, <1>18, <1>19 DEF WifiInv

\* wifi_cancel_cmd begins: the table knows every command the caller has
\* running, except RTTs.
LEMMA CancelCmdKeeps ==
    ASSUME WifiInv, NEW c, wifi_cancel_cmd(c)
    PROVE  WifiInv'
<1> USE DEF callVars, tableVars, loopVars, driverVars
<1>1. /\ Types /\ ScriptSound /\ TableSound /\ RefsSound /\ LoopSound /\ CleanupSound
      /\ HandlersSound /\ ActiveSound /\ CallSound
      /\ hal = "up" /\ loop # "exited" /\ todo = <<>> /\ Freed = 0
      /\ ~Doing("saved") /\ ~Doing("taken")
      /\ \A o, s : ~Has(todo, o) /\ ~HasFor(todo, o, s)
      /\ \A d : ~Owns(d)
      /\ \A h \in Heard : /\ h.cmd \in active /\ h.cmd \in Saved /\ h.cmd \in 1..made
                          /\ h.sub \in Hears(kind[h.cmd])
      /\ \A d \in Saved : kind[d] # "rtt" => d \in active
      /\ made \in Nat /\ 1..made \subseteq Commands
      /\ \A d \in 1..made : kind[d] \in Kinds
  BY IdleFacts DEF wifi_cancel_cmd
<1>2. /\ UNCHANGED <<hal, made, kind, refs, active, tableVars, event_cb, cb_lock,
                     bad_commands, socks, loopVars, driverVars, told>>
      /\ cur' = c /\ c \in 1..made /\ kind[c] # "rtt"
  BY DEF wifi_cancel_cmd
<1>3. /\ kind[c] \in Kinds /\ c # None /\ c \in 0..made /\ c \in 0..MaxCommands
      /\ made \in 0..MaxCommands
  BY <1>1, <1>2, ScriptFacts DEF None
<1>4. Heard' = Heard
  BY <1>2 DEF Heard
<1>5. CASE Position(c) = {}
  <2>1. todo' = <<>>
    BY <1>5 DEF wifi_cancel_cmd
  <2>2. /\ todo' \in Seq(Steps) /\ todo' = todo /\ ~Doing("saved")' /\ ~Doing("taken")'
        /\ \A o, s : ~Has(todo', o) /\ ~HasFor(todo', o, s)
    BY <1>1, <2>1 DEF Doing
  <2>3. \A d : ~Owns(d)'
    BY <2>2 DEF Owns
  <2>4. TableSound' /\ Saved' = Saved
    <3>1. Freed' = Freed
      BY <1>2 DEF Freed
    <3> QED
      BY <1>1, <1>2, <2>2, <3>1, TableFrame
  <2>5. ScriptSound'
    BY <1>1, <1>2, <2>2 DEF ScriptSound
  <2>6. RefsSound'
    BY <1>1, <1>2, <2>3, <2>4 DEF RefsSound, Ref
  <2>7. LoopSound'
    BY <1>1, <1>2, <1>4, <2>2, <2>4 DEF LoopSound, Reported
  <2>8. CleanupSound'
    BY <1>1, <1>2 DEF CleanupSound
  <2>9. Types'
    BY <1>1, <1>2, <1>3, <2>2 DEF Types, TypeOK, alloc_cmd, Steps, Ops
  <2>10. HandlersSound'
    BY <1>1, <1>2, <1>4, <2>2, <2>4 DEF HandlersSound
  <2>11. ActiveSound'
    BY <1>1, <1>2, <1>4, <2>2, <2>4 DEF ActiveSound
  <2>12. CallSound'
    BY <2>2, <2>3 DEF CallSound
  <2> QED
    BY <2>4, <2>5, <2>6, <2>7, <2>8, <2>9, <2>10, <2>11, <2>12 DEF WifiInv
<1>6. CASE Position(c) # {}
  <2>1. c \in Saved
    <3>1. PICK i \in 1..num_cmd : cmd[i] = c
      BY <1>6 DEF Position
    <3>2. num_cmd \in Nat
      BY <1>1, ScriptFacts DEF TableSound
    <3>3. CASE loop = "taken"
      <4>1. Size = num_cmd - 1 /\ (i = num_cmd \/ i \in 1..num_cmd - 1)
        BY <1>1, <3>2, <3>3 DEF Size
      <4>2. kind[lcmd] = "rtt"
        BY <1>1, <3>3 DEF LoopSound
      <4>3. i = num_cmd => c \in Saved
        BY <1>1, <1>2, <3>1, <3>3, <4>2 DEF TableSound
      <4>4. i # num_cmd => i \in Freed + 1 .. Size
        BY <1>1, <3>1, <3>2, <4>1
      <4> QED
        BY <3>1, <4>3, <4>4 DEF Saved
    <3>4. CASE loop # "taken"
      <4>1. Size = num_cmd
        BY <1>1, <3>4 DEF Size
      <4> QED
        BY <1>1, <3>1, <4>1 DEF Saved
    <3> QED
      BY <3>3, <3>4
  <2>2. c \in active
    BY <1>1, <1>2, <2>1
  <2>3. /\ todo' \in Seq(Steps) /\ Ordered(todo') /\ todo' # <<>> /\ Head(todo').op = "take"
        /\ \A p : Has(todo', p) <=>
                    p \in {"take", "taken", "unregister", "stop", "ended", "release"}
        /\ \A s : HasFor(todo', "unregister", s) <=> s \in Hears(kind[c])
    <3>1. todo' = <<Op("take"), Op("taken")>> \o cancel(kind[c]) \o <<Op("ended"), Op("release")>>
      BY <1>6 DEF wifi_cancel_cmd
    <3> QED
      BY <1>3, <3>1, CancelCmdScript
  <2>4. ~Doing("saved")' /\ ~Doing("taken")' /\ \A d : ~Owns(d)'
    BY <2>3 DEF Doing, Owns
  <2>5. TableSound' /\ Saved' = Saved
    <3>1. Freed' = Freed
      BY <1>2 DEF Freed
    <3> QED
      BY <1>1, <1>2, <2>4, <3>1, TableFrame
  <2>6. ScriptSound'
    BY <1>1, <1>2, <1>3, <2>3 DEF ScriptSound
  <2>7. RefsSound'
    BY <1>1, <1>2, <2>4, <2>5 DEF RefsSound, Ref
  <2>8. LoopSound'
    BY <1>1, <1>2, <1>4, <2>3, <2>5 DEF LoopSound, Reported
  <2>9. CleanupSound'
    BY <1>1, <1>2 DEF CleanupSound
  <2>10. Types'
    BY <1>1, <1>2, <1>3, <2>3 DEF Types, TypeOK, alloc_cmd, Steps, Ops
  <2>11. HandlersSound'
    BY <1>1, <1>2, <1>4, <2>3, <2>5 DEF HandlersSound
  <2>12. ActiveSound'
    <3>1. \A d \in active, s \in AllSubs :
            HasFor(todo', "unregister", s) => d = c \/ s \notin Hears(kind[d])
      BY <1>1, <2>2, <2>3 DEF ActiveSound
    <3> QED
      BY <1>1, <1>2, <1>4, <2>3, <2>5, <3>1 DEF ActiveSound
  <2>13. CallSound'
    BY <1>2, <2>1, <2>2, <2>3, <2>4, <2>5 DEF CallSound
  <2> QED
    BY <2>5, <2>6, <2>7, <2>8, <2>9, <2>10, <2>11, <2>12, <2>13 DEF WifiInv
<1> QED
  BY <1>5, <1>6

\* A call that stops a feature has a command of its own, which is in no table.
LEMMA AnonymousKeeps ==
    ASSUME WifiInv, NEW k \in Kinds, CancelAnonymous(k)
    PROVE  WifiInv'
<1> USE DEF callVars, tableVars, loopVars, driverVars
<1>1. /\ Types /\ ScriptSound /\ TableSound /\ RefsSound /\ LoopSound /\ CleanupSound
      /\ HandlersSound /\ ActiveSound /\ CallSound
      /\ hal = "up" /\ loop # "exited" /\ todo = <<>> /\ Freed = 0
      /\ ~Doing("saved") /\ ~Doing("taken")
      /\ \A o, s : ~Has(todo, o) /\ ~HasFor(todo, o, s)
      /\ \A d : ~Owns(d)
      /\ \A h \in Heard : /\ h.cmd \in active /\ h.cmd \in Saved /\ h.cmd \in 1..made
                          /\ h.sub \in Hears(kind[h.cmd])
      /\ \A d \in Saved : kind[d] # "rtt" => d \in active
      /\ made \in Nat /\ active \subseteq 1..made
      /\ \A d \in 1..made : kind[d] \in Kinds
  BY IdleFacts DEF CancelAnonymous
<1>2. /\ UNCHANGED <<hal, made, kind, refs, active, tableVars, event_cb, cb_lock,
                     bad_commands, socks, loopVars, driverVars, told>>
      /\ cur' = None /\ (k = "rtt" \/ MayStart(k))
  BY DEF CancelAnonymous
<1>3. /\ todo' \in Seq(Steps) /\ Ordered(todo') /\ todo' # <<>>
      /\ Head(todo').op \in {"unregister", "stop"}
      /\ \A p : Has(todo', p) <=> p \in {"unregister", "stop"} \/ (p = "forget" /\ k = "rtt")
      /\ \A s : HasFor(todo', "unregister", s) <=> s \in Hears(k)
  <2>1. todo' = cancel(k) \o IF k = "rtt" THEN <<Op("forget")>> ELSE <<>>
    BY DEF CancelAnonymous
  <2> QED
    BY <2>1, AnonymousScript
<1>4. Heard' = Heard
  BY <1>2 DEF Heard
<1>5. ~Doing("saved")' /\ ~Doing("taken")' /\ \A d : ~Owns(d)'
  BY <1>3 DEF Doing, Owns
<1>6. TableSound' /\ Saved' = Saved
  <2>1. Freed' = Freed
    BY <1>2 DEF Freed
  <2> QED
    BY <1>1, <1>2, <1>5, <2>1, TableFrame
<1>7. ScriptSound'
  BY <1>1, <1>2, <1>3 DEF ScriptSound
<1>8. RefsSound'
  BY <1>1, <1>2, <1>5, <1>6 DEF RefsSound, Ref
<1>9. LoopSound'
  BY <1>1, <1>2, <1>3, <1>4, <1>6 DEF LoopSound, Reported
<1>10. CleanupSound'
  BY <1>1, <1>2 DEF CleanupSound
<1>11. Types'
  <2>1. cur' \in 0..made /\ cur' \in 0..MaxCommands
    BY <1>1, <1>2, ScriptFacts DEF None
  <2> QED
    BY <1>1, <1>2, <1>3, <2>1 DEF Types, TypeOK, alloc_cmd, Steps, Ops
<1>12. HandlersSound'
  <2>1. k = "rtt" => "rtt" \in Hears(k)
    BY SubsFacts
  <2> QED
    BY <1>1, <1>2, <1>3, <1>4, <1>6, <2>1 DEF HandlersSound
<1>13. ActiveSound'
  <2>1. ASSUME NEW d \in active, NEW s \in Hears(k), s \in Hears(kind[d]) PROVE kind[d] = "rtt"
    <3>1. k = "rtt"
      BY <1>2, <2>1 DEF MayStart, Hears
    <3>2. s = "rtt" /\ kind[d] \in Kinds
      BY <1>1, <2>1, <3>1, SubsFacts
    <3> QED
      BY <2>1, <3>2, SubsFacts
  <2> QED
    BY <1>1, <1>2, <1>3, <1>4, <1>6, <2>1 DEF ActiveSound
<1>14. CallSound'
  BY <1>2, <1>3, <1>5 DEF CallSound
<1> QED
  BY <1>6, <1>7, <1>8, <1>9, <1>10, <1>11, <1>12, <1>13, <1>14 DEF WifiInv

-----------------------------------------------------------------------------
(* The event thread.                                                       *)

\* While the event thread runs, cleanup waits for it.
LEMMA LoopFacts ==
    ASSUME WifiInv, loop \notin {"none", "exited"}
    PROVE  /\ Types /\ ScriptSound /\ TableSound /\ RefsSound /\ LoopSound /\ CleanupSound
           /\ HandlersSound /\ ActiveSound /\ CallSound
           /\ hal # "down" /\ Freed = 0 /\ ~Has(todo, "swept")
           /\ hal = "cleaning" => bad_commands = 0 /\ Has(todo, "wait")
           /\ todo \in Seq(Steps) /\ made \in Nat /\ 1..made \subseteq Commands
           /\ lcmd # None => lcmd \in 1..made /\ lcmd \in Commands
           /\ \A h \in Heard : h.sub \in AllSubs /\ h.cmd \in 1..made
           /\ \A c \in 1..made : kind[c] \in Kinds
           /\ Saved \subseteq 1..made /\ Size \in Nat
<1>1. /\ Types /\ ScriptSound /\ TableSound /\ RefsSound /\ LoopSound /\ CleanupSound
      /\ HandlersSound /\ ActiveSound /\ CallSound
  BY DEF WifiInv
<1>2. hal # "down"
  BY <1>1 DEF CleanupSound
<1>3. hal = "cleaning" => bad_commands = 0 /\ Has(todo, "wait")
  BY <1>1 DEF CleanupSound
<1>4. Freed = 0
  BY <1>3 DEF Freed
<1>5. /\ todo \in Seq(Steps) /\ made \in Nat /\ 1..made \subseteq Commands
      /\ \A h \in Heard : h.sub \in AllSubs /\ h.cmd \in 1..made
      /\ \A c \in 1..made : kind[c] \in Kinds
      /\ Saved \subseteq 1..made /\ Size \in Nat
  BY <1>1, ScriptFacts, SavedMade
<1>6. ~Has(todo, "swept")
  <2> SUFFICES ASSUME Has(todo, "swept") PROVE FALSE
    OBVIOUS
  <2>1. Has(todo, "wait") /\ Ordered(todo)
    BY <1>1, <1>2, <1>3 DEF ScriptSound, Types, TypeOK
  <2>2. PICK i \in DOMAIN todo : todo[i].op = "wait"
    BY <2>1 DEF Has
  <2>3. PICK j \in DOMAIN todo : todo[j].op = "swept"
    BY DEF Has
  <2>4. i \in Nat /\ j \in Nat /\ i # j
    BY <1>5, <2>2, <2>3
  <2>5. ~(i < j) /\ ~(j < i)
    BY <2>1, <2>2, <2>3, FollowFacts DEF Ordered
  <2> QED
    BY <2>4, <2>5
<1>7. lcmd # None => lcmd \in 1..made
  BY <1>1, <1>5 DEF LoopSound, None
<1> QED
  BY <1>1, <1>2, <1>3, <1>4, <1>5, <1>6, <1>7

\* A step of the event thread that the call does not notice.
LEMMA LoopFrame ==
    ASSUME WifiInv, loop \notin {"none", "exited"}, loop' \notin {"none", "exited"},
           UNCHANGED <<callVars, todo, event_cb, bad_commands, socks, active>>,
           num_cmd' \in Nat, Freed' = Freed, Saved' \subseteq Saved,
           \A c \in Saved \ Saved' : kind[c] = "rtt" /\ Reported(c),
           cur # None /\ kind[cur] = "rtt"
             /\ (\E o \in {"save", "request", "register", "release"} : Has(todo, o)) =>
               lcmd' # cur /\ cur \notin Saved \ Saved'
    PROVE  ScriptSound' /\ CleanupSound' /\ HandlersSound' /\ ActiveSound' /\ CallSound'
<1> USE DEF callVars
<1>1. /\ Types /\ ScriptSound /\ LoopSound /\ CleanupSound
      /\ HandlersSound /\ ActiveSound /\ CallSound
      /\ hal # "down" /\ Freed = 0 /\ ~Has(todo, "swept")
      /\ hal = "cleaning" => bad_commands = 0 /\ Has(todo, "wait")
      /\ made \in Nat /\ 1..made \subseteq Commands
      /\ \A h \in Heard : h.sub \in AllSubs /\ h.cmd \in 1..made
      /\ Saved \subseteq 1..made
  BY LoopFacts
<1>2. Heard' = Heard
  BY DEF Heard
<1>3. ScriptSound'
  BY <1>1 DEF ScriptSound
<1>4. CleanupSound'
  <2>1. bad_commands = 0 => bad_commands <= num_cmd'
    OBVIOUS
  <2>2. socks # "Done"
    BY <1>1 DEF CleanupSound
  <2> QED
    BY <1>1, <2>1, <2>2 DEF CleanupSound
<1>5. HandlersSound'
  <2>1. \A h \in Heard : h.cmd \in Saved => h.cmd \in Saved'
    BY <1>1 DEF LoopSound
  <2> QED
    BY <1>1, <1>2, <2>1 DEF HandlersSound
<1>6. ActiveSound'
  BY <1>1, <1>2 DEF ActiveSound
<1>7. CallSound'
  <2>1. Has(todo, "started") /\ (Has(todo, "request") \/ Has(todo, "register")) =>
          Has(todo, "save") \/ cur \in Saved'
    <3> SUFFICES ASSUME Has(todo, "started"), Has(todo, "request") \/ Has(todo, "register"),
                        cur \in Saved, cur \notin Saved'
                 PROVE  FALSE
      BY <1>1 DEF CallSound
    <3> QED
      BY <1>1 DEF ScriptSound
  <2>2. Has(todo, "take") => cur \in Saved'
    <3> SUFFICES ASSUME Has(todo, "take"), cur \in Saved, cur \notin Saved'
                 PROVE  FALSE
      BY <1>1 DEF CallSound
    <3> QED
      BY <1>1 DEF ScriptSound
  <2>3. Owns(cur)' => cur \notin Saved'
    BY <1>1 DEF CallSound, Owns
  <2>4. cur # None /\ kind[cur] = "rtt"
          /\ (\E o \in {"save", "request", "register", "release"} : Has(todo, o)) =>
            lcmd' # cur /\ \A h \in Heard : h.cmd # cur
    BY <1>1 DEF CallSound
  <2>5. Has(todo, "started") =>
          /\ cur \notin active
          /\ \A c \in active : Hears(kind[c]) \cap Hears(kind[cur]) = {}
          /\ \A s \in Hears(kind[cur]) :
               \/ HasFor(todo, "register", s) /\ \A h \in Heard : h.sub # s
               \/ ~HasFor(todo, "register", s)
                    /\ (kind[cur] = "rtt" \/ [sub |-> s, cmd |-> cur] \in Heard)
    BY <1>1 DEF CallSound
  <2>6. /\ Has(todo, "release") => (cur \in active <=> Has(todo, "ended"))
        /\ Has(todo, "ended") => kind[cur] # "rtt"
    BY <1>1 DEF CallSound
  <2> QED
    BY <1>2, <2>1, <2>2, <2>3, <2>4, <2>5, <2>6 DEF CallSound
<1> QED
  BY <1>3, <1>4, <1>5, <1>6, <1>7

\* The driver's events: nothing else changes.
LEMMA EventsKeep ==
    ASSUME WifiInv, UNCHANGED <<callVars, todo, refs, active, tableVars, event_cb, cb_lock,
                                bad_commands, socks, loopVars, told>>,
           events' \in Seq([sub : AllSubs, done : BOOLEAN]), sent' \in 0..MaxEvents
    PROVE  WifiInv'
<1> USE DEF callVars, tableVars, loopVars
<1>1. Types'
  BY DEF WifiInv, Types, TypeOK, alloc_cmd
<1>2. Freed' = Freed /\ Size' = Size /\ Heard' = Heard
  BY DEF Freed, Size, Doing, Heard
<1>3. Saved' = Saved /\ (Inside' <=> Inside) /\ alloc_cmd' = alloc_cmd
  BY <1>2 DEF Saved, Inside, alloc_cmd
<1>4. ScriptSound' /\ CleanupSound'
  BY DEF WifiInv, ScriptSound, CleanupSound
<1>5. TableSound'
  BY <1>2, <1>3 DEF WifiInv, TableSound
<1>6. RefsSound'
  BY <1>3 DEF WifiInv, RefsSound, Owns
<1>7. LoopSound'
  BY <1>2, <1>3 DEF WifiInv, LoopSound, Reported
<1>8. ASSUME loop' # "exited" PROVE HandlersSound' /\ ActiveSound' /\ CallSound'
  <2>1. HandlersSound'
    BY <1>2, <1>3, <1>8 DEF WifiInv, HandlersSound
  <2>2. ActiveSound'
    BY <1>2, <1>3, <1>8 DEF WifiInv, ActiveSound
  <2>3. CallSound'
    BY <1>2, <1>3, <1>8 DEF WifiInv, CallSound, Owns
  <2> QED
    BY <2>1, <2>2, <2>3
<1> QED
  BY <1>1, <1>4, <1>5, <1>6, <1>7, <1>8 DEF WifiInv

\* The driver sends an event.
LEMMA DriverKeeps ==
    ASSUME WifiInv, NEW s \in AllSubs, NEW d \in BOOLEAN, DriverEvent(s, d)
    PROVE  WifiInv'
<1> DEFINE e == [sub |-> s, done |-> d]
           E == [sub : AllSubs, done : BOOLEAN]
<1>1. events \in Seq(E) /\ e \in E /\ sent \in 0..MaxEvents
  BY DEF WifiInv, Types, TypeOK
<1>2. events' = Append(events, e) /\ sent' = sent + 1 /\ sent < MaxEvents
  BY DEF DriverEvent
<1>3. sent' \in 0..MaxEvents
  BY <1>1, <1>2, WifiAssumption
<1> HIDE DEF e, E
<1>4. events' \in Seq(E)
  BY <1>1, <1>2
<1>5. events' \in Seq([sub : AllSubs, done : BOOLEAN])
  BY <1>4 DEF E
<1> QED
  BY <1>3, <1>5, EventsKeep DEF DriverEvent

\* The event thread starts.
LEMMA EventLoopKeeps ==
    ASSUME WifiInv, wifi_event_loop
    PROVE  WifiInv'
<1> USE DEF callVars, tableVars, loopVars, driverVars
<1>1. /\ Types /\ ScriptSound /\ TableSound /\ RefsSound /\ LoopSound /\ CleanupSound
      /\ HandlersSound /\ ActiveSound /\ CallSound
      /\ hal # "down" /\ loop = "none" /\ lcmd = None /\ made \in Nat
  BY ScriptFacts DEF WifiInv, wifi_event_loop, LoopSound
<1>2. /\ UNCHANGED <<callVars, todo, refs, active, tableVars, event_cb, cb_lock,
                     bad_commands, socks, lcmd, ldone, driverVars, told>>
      /\ loop' = "poll"
  BY DEF wifi_event_loop
<1>3. Heard' = Heard
  BY <1>2 DEF Heard
<1>4. TableSound' /\ Saved' = Saved
  <2>1. Freed' = Freed /\ (Doing("saved")' <=> Doing("saved"))
        /\ (Doing("taken")' <=> Doing("taken"))
    BY <1>2 DEF Freed, Doing
  <2> QED
    BY <1>1, <1>2, <2>1, TableFrame
<1>5. Types' /\ ScriptSound'
  BY <1>1, <1>2 DEF Types, TypeOK, alloc_cmd, ScriptSound
<1>6. RefsSound'
  BY <1>1, <1>2, <1>4 DEF RefsSound, Ref, Owns
<1>7. LoopSound'
  BY <1>1, <1>2, <1>3, <1>4 DEF LoopSound, Reported
<1>8. CleanupSound'
  BY <1>1, <1>2 DEF CleanupSound
<1>9. HandlersSound'
  BY <1>1, <1>2, <1>3, <1>4 DEF HandlersSound
<1>10. ActiveSound'
  BY <1>1, <1>2, <1>3, <1>4 DEF ActiveSound
<1>11. CallSound'
  BY <1>1, <1>2, <1>3, <1>4 DEF CallSound, Owns
<1> QED
  BY <1>4, <1>5, <1>6, <1>7, <1>8, <1>9, <1>10, <1>11 DEF WifiInv

\* The event thread leaves.
LEMMA ExitKeeps ==
    ASSUME WifiInv, LoopExit
    PROVE  WifiInv'
<1> USE DEF callVars, tableVars, loopVars, driverVars
<1>1. /\ UNCHANGED <<callVars, todo, refs, active, tableVars, event_cb, cb_lock,
                     bad_commands, lcmd, ldone, driverVars, told>>
      /\ loop = "poll" /\ loop' = "exited" /\ socks = "Exit" /\ socks' = "Done"
  BY DEF LoopExit
<1>2. /\ Types /\ ScriptSound /\ TableSound /\ RefsSound /\ LoopSound /\ CleanupSound
      /\ hal # "down" /\ made \in Nat
  BY <1>1, LoopFacts
<1>3. hal = "cleaning"
  BY <1>1, <1>2 DEF CleanupSound, Types, TypeOK
<1>4. Heard' = Heard
  BY <1>1 DEF Heard
<1>5. TableSound' /\ Saved' = Saved
  <2>1. Freed' = Freed /\ (Doing("saved")' <=> Doing("saved"))
        /\ (Doing("taken")' <=> Doing("taken"))
    BY <1>1 DEF Freed, Doing
  <2> QED
    BY <1>1, <1>2, <2>1, TableFrame
<1>6. Types' /\ ScriptSound'
  BY <1>1, <1>2 DEF Types, TypeOK, alloc_cmd, ScriptSound
<1>7. RefsSound'
  BY <1>1, <1>2, <1>5 DEF RefsSound, Ref, Owns
<1>8. LoopSound'
  BY <1>1, <1>2, <1>4, <1>5 DEF LoopSound, Reported
<1>9. CleanupSound'
  BY <1>1, <1>2, <1>3 DEF CleanupSound
<1> QED
  BY <1>1, <1>5, <1>6, <1>7, <1>8, <1>9 DEF WifiInv

\* The event thread hands an event to its handler, with a reference.
LEMMA HandlerKeeps ==
    ASSUME WifiInv, internal_valid_message_handler
    PROVE  WifiInv'
<1> USE DEF callVars, tableVars, loopVars, driverVars
<1> DEFINE e == Head(events)
<1>1. /\ Types /\ ScriptSound /\ TableSound /\ RefsSound /\ LoopSound /\ CleanupSound
      /\ HandlersSound /\ ActiveSound /\ CallSound
      /\ hal # "down" /\ Freed = 0 /\ made \in Nat /\ 1..made \subseteq Commands
      /\ \A h \in Heard : h.sub \in AllSubs /\ h.cmd \in 1..made
      /\ loop = "poll" /\ lcmd = None
  BY LoopFacts DEF internal_valid_message_handler, LoopSound
<1>2. /\ events' \in Seq([sub : AllSubs, done : BOOLEAN]) /\ e.done \in BOOLEAN
      /\ sent' = sent /\ sent \in 0..MaxEvents
  <2> DEFINE E == [sub : AllSubs, done : BOOLEAN]
  <2>1. events \in Seq(E) /\ events # <<>> /\ events' = Tail(events)
        /\ sent' = sent /\ sent \in 0..MaxEvents
    BY <1>1 DEF internal_valid_message_handler, Types, TypeOK
  <2> HIDE DEF E
  <2>2. events' \in Seq(E) /\ e \in E
    BY <2>1
  <2> QED
    BY <2>1, <2>2 DEF E
<1>3. UNCHANGED <<callVars, todo, active, tableVars, event_cb, cb_lock,
                  bad_commands, socks, told>>
  BY DEF internal_valid_message_handler
<1>4. CASE HandlersOf(e.sub) = {}
  <2>1. UNCHANGED <<refs, loopVars>>
    BY <1>4 DEF internal_valid_message_handler
  <2> QED
    BY <1>2, <1>3, <2>1, EventsKeep
<1>5. CASE HandlersOf(e.sub) # {}
  <2>1. PICK i \in DOMAIN event_cb : i = First(HandlersOf(e.sub))
    <3>1. HandlersOf(e.sub) \subseteq Nat
      BY <1>1, ScriptFacts DEF HandlersOf, HandlerLists
    <3>2. PICK p \in HandlersOf(e.sub) : TRUE
      BY <1>5
    <3>3. \A j \in HandlersOf(e.sub) : j = p
      BY <1>1, <3>2, ScriptFacts DEF HandlersOf, OneEach
    <3>4. First(HandlersOf(e.sub)) = p
      BY <3>1, <3>2, <3>3 DEF First
    <3> QED
      BY <3>2, <3>4 DEF HandlersOf
  <2> DEFINE h == event_cb[i]
             c == h.cmd
  <2>2. /\ lcmd' = c /\ ldone' = e.done /\ loop' = "handle"
        /\ refs' = [refs EXCEPT ![c] = @ + 1]
    BY <1>5, <2>1 DEF internal_valid_message_handler
  <2>3. h \in Heard /\ c \in 1..made /\ c \in Commands /\ c # None
    BY <1>1 DEF Heard, None
  <2> HIDE DEF h
  <2>4. cur # None /\ kind[cur] = "rtt"
          /\ (\E o \in {"save", "request", "register", "release"} : Has(todo, o)) => c # cur
    BY <1>1, <2>3 DEF CallSound
  <2>5. kind[c] = "rtt" => c \in Saved
    BY <1>1, <2>3, <2>4 DEF HandlersSound
  <2>6. ~Reported(c)
    BY <1>1, <2>3 DEF LoopSound
  <2>7. Heard' = Heard
    BY <1>3 DEF Heard
  <2>8. TableSound' /\ Saved' = Saved /\ Freed' = Freed
    <3>1. Freed' = Freed /\ (Doing("saved")' <=> Doing("saved"))
          /\ (Doing("taken")' <=> Doing("taken"))
      BY <1>3 DEF Freed, Doing
    <3> QED
      BY <1>1, <1>3, <2>2, <3>1, TableFrame
  <2>9. refs \in [Commands -> 0..3] /\ told \in [Commands -> Nat]
    BY <1>1 DEF Types, TypeOK
  <2>10. /\ refs' \in [Commands -> Int] /\ refs'[c] = refs[c] + 1
         /\ \A d \in Commands : d # c => refs'[d] = refs[d]
    BY <2>2, <2>3, <2>9
  <2>11. RefsSound'
    <3>1. \A d : Owns(d)' <=> Owns(d)
      BY <1>3 DEF Owns
    <3>2. \A d \in Commands : d # lcmd
      BY <1>1, WifiAssumption DEF Commands, None
    <3> QED
      BY <1>1, <2>2, <2>3, <2>8, <2>10, <3>1, <3>2 DEF RefsSound, Ref
  <2>12. told[c] = 0
    BY <2>3, <2>6, <2>9 DEF Reported
  <2>13. LoopSound'
    <3>1. \A d : Reported(d)' <=> Reported(d)
      BY <1>1, <1>3, <2>2 DEF Reported
    <3>2. lcmd' \in 0..made'
      BY <1>1, <1>3, <2>2, <2>3
    <3> QED
      BY <1>1, <1>3, <2>2, <2>3, <2>5, <2>7, <2>8, <2>12, <3>1, <3>2 DEF LoopSound
  <2>14. ScriptSound' /\ CleanupSound' /\ HandlersSound' /\ ActiveSound' /\ CallSound'
    <3>1. num_cmd' \in Nat
      BY <1>1, <1>3, ScriptFacts DEF TableSound
    <3> QED
      BY <1>1, <1>3, <2>2, <2>4, <2>8, <3>1, LoopFrame
  <2>15. Types'
    <3>1. refs' \in [Commands -> 0..3]
      BY <2>10, <2>11, <2>13, <2>14, RefsTyped
    <3>2. lcmd' \in 0..MaxCommands /\ ldone' \in BOOLEAN
      BY <1>1, <1>2, <2>2, <2>3, ScriptFacts
    <3> QED
      BY <1>1, <1>2, <1>3, <2>2, <3>1, <3>2 DEF Types, TypeOK, alloc_cmd
  <2> QED
    BY <2>8, <2>11, <2>13, <2>14, <2>15 DEF WifiInv
<1> QED
  BY <1>4, <1>5

\* The command has been told of the event; when its results are complete its
\* handler is gone first.
LEMMA HandleKeeps ==
    ASSUME WifiInv, handleEvent
    PROVE  WifiInv'
<1> USE DEF callVars, tableVars, loopVars, driverVars
<1>1. /\ Types /\ ScriptSound /\ TableSound /\ RefsSound /\ LoopSound /\ CleanupSound
      /\ HandlersSound /\ ActiveSound /\ CallSound
      /\ hal # "down" /\ Freed = 0 /\ made \in Nat /\ 1..made \subseteq Commands
      /\ \A h \in Heard : h.sub \in AllSubs /\ h.cmd \in 1..made
      /\ \A c \in 1..made : kind[c] \in Kinds
      /\ loop = "handle" /\ lcmd # None /\ lcmd \in 1..made /\ lcmd \in Commands
      /\ num_cmd \in Nat
  BY LoopFacts, ScriptFacts DEF handleEvent, LoopSound, TableSound
<1>2. UNCHANGED <<callVars, todo, refs, active, tableVars, cb_lock, bad_commands,
                  socks, lcmd, ldone, driverVars, told>>
  BY DEF handleEvent
<1>3. loop' \in {"report", "release"}
  BY DEF handleEvent
<1>4. TableSound' /\ Saved' = Saved /\ Freed' = Freed
  <2>1. Freed' = Freed /\ (Doing("saved")' <=> Doing("saved"))
        /\ (Doing("taken")' <=> Doing("taken"))
    BY <1>2 DEF Freed, Doing
  <2> QED
    BY <1>1, <1>2, <1>3, <2>1, TableFrame
<1>5. RefsSound'
  BY <1>1, <1>2, <1>3, <1>4 DEF RefsSound, Ref, Owns
<1>6. CASE ~(kind[lcmd] = "rtt" /\ ldone)
  <2>1. loop' = "release" /\ event_cb' = event_cb
    BY <1>6 DEF handleEvent
  <2>2. Heard' = Heard
    BY <2>1 DEF Heard
  <2>3. Types'
    BY <1>1, <1>2, <2>1 DEF Types, TypeOK, alloc_cmd
  <2>4. LoopSound'
    <3>1. \A d : Reported(d)' <=> Reported(d)
      BY <1>1, <1>2, <2>1 DEF Reported
    <3> QED
      BY <1>1, <1>2, <1>4, <2>1, <2>2, <3>1 DEF LoopSound
  <2>5. ScriptSound' /\ CleanupSound' /\ HandlersSound' /\ ActiveSound' /\ CallSound'
    <3>1. cur # None /\ kind[cur] = "rtt"
            /\ (\E o \in {"save", "request", "register", "release"} : Has(todo, o)) => lcmd' # cur
      BY <1>1, <1>2 DEF CallSound
    <3> QED
      BY <1>1, <1>2, <1>4, <2>1, <3>1, LoopFrame
  <2> QED
    BY <1>4, <1>5, <2>3, <2>4, <2>5 DEF WifiInv
<1>7. CASE kind[lcmd] = "rtt" /\ ldone
  <2>1. loop' = "report" /\ wifi_unregister_vendor_handler("rtt")
    BY <1>7 DEF handleEvent
  <2>2. /\ event_cb' \in HandlerLists(made) /\ OneEach(event_cb')
        /\ Heard' = {h \in Heard : h.sub # "rtt"}
    BY <1>1, <2>1, ScriptFacts, UnregisterHandler
  <2>3. \A k \in Kinds : "rtt" \in Hears(k) <=> k = "rtt"
    BY SubsFacts
  <2>4. \A h \in Heard' : h.cmd # lcmd
    <3>1. \A h \in Heard : h.cmd = lcmd => h.sub = "rtt"
      <4> SUFFICES ASSUME NEW h \in Heard, h.cmd = lcmd PROVE h.sub = "rtt"
        OBVIOUS
      <4>1. h.sub \in Hears("rtt") /\ "rtt" \in Kinds
        BY <1>1, <1>7 DEF HandlersSound
      <4> QED
        BY <4>1, SubsFacts
    <3> QED
      BY <2>2, <3>1
  <2>5. lcmd = cur => ~Has(todo, "register")
    BY <1>1, <1>7 DEF CallSound
  <2>6. Types'
    <3>1. \A i \in DOMAIN event_cb' : event_cb'[i] \in [sub : AllSubs, cmd : Commands]
      <4> DEFINE H == [sub : AllSubs, cmd : 1..made]
      <4>1. event_cb' \in Seq(H)
        BY <2>2 DEF HandlerLists
      <4> HIDE DEF H
      <4>2. \A i \in DOMAIN event_cb' : event_cb'[i] \in H
        BY <4>1
      <4> QED
        BY <1>1, <4>2 DEF H
    <3> QED
      BY <1>1, <1>2, <2>1, <2>2, <3>1 DEF Types, TypeOK, alloc_cmd, HandlerLists, OneEach
  <2>7. LoopSound'
    <3>1. \A d : Reported(d)' <=> Reported(d) \/ d = lcmd
      BY <1>1, <1>2, <2>1 DEF Reported
    <3>2. lcmd \in Saved /\ told[lcmd] = 0
      BY <1>1, <1>7 DEF LoopSound
    <3>3. \A d \in Commands : Reported(d)' =>
            /\ d \in 1..made /\ kind[d] = "rtt"
            /\ \A h \in Heard' : h.cmd # d
            /\ d = cur => ~Has(todo, "register")
      BY <1>1, <1>7, <2>2, <2>4, <2>5, <3>1 DEF LoopSound
    <3> QED
      BY <1>1, <1>2, <1>4, <1>7, <2>1, <3>2, <3>3 DEF LoopSound
  <2>8. ScriptSound' /\ CleanupSound'
    BY <1>1, <1>2, <2>1 DEF ScriptSound, CleanupSound
  <2>9. HandlersSound'
    BY <1>1, <1>2, <1>4, <2>2 DEF HandlersSound
  <2>10. ActiveSound'
    <3>1. \A c \in active : kind[c] # "rtt" => \A s \in Hears(kind[c]) : s # "rtt"
      BY <1>1, <2>3 DEF ActiveSound
    <3> QED
      BY <1>1, <1>2, <1>4, <2>2, <3>1 DEF ActiveSound
  <2>11. CallSound'
    <3>1. Has(todo, "started") /\ kind[cur] # "rtt" => \A s \in Hears(kind[cur]) : s # "rtt"
      BY <1>1, <2>3, ScriptFacts DEF ScriptSound, None
    <3> QED
      BY <1>1, <1>2, <1>4, <2>2, <3>1 DEF CallSound, Owns
  <2> QED
    BY <1>4, <1>5, <2>6, <2>7, <2>8, <2>9, <2>10, <2>11 DEF WifiInv
<1> QED
  BY <1>6, <1>7

\* The caller is told the results of an RTT.
LEMMA ResultsKeep ==
    ASSUME WifiInv, on_rtt_results
    PROVE  WifiInv'
<1> USE DEF callVars, tableVars, loopVars, driverVars
<1>1. /\ Types /\ ScriptSound /\ TableSound /\ RefsSound /\ LoopSound /\ CleanupSound
      /\ HandlersSound /\ ActiveSound /\ CallSound
      /\ hal # "down" /\ Freed = 0 /\ made \in Nat /\ 1..made \subseteq Commands
      /\ loop = "report" /\ lcmd # None /\ lcmd \in 1..made /\ lcmd \in Commands
  BY LoopFacts DEF on_rtt_results, LoopSound
<1>2. /\ UNCHANGED <<callVars, todo, refs, tableVars, event_cb, cb_lock, bad_commands,
                     socks, lcmd, ldone, driverVars>>
      /\ loop' = "take" /\ told' = [told EXCEPT ![lcmd] = @ + 1]
      /\ active' = active \ {lcmd}
  BY DEF on_rtt_results
<1>3. told \in [Commands -> Nat] /\ told[lcmd] = 0 /\ kind[lcmd] = "rtt" /\ lcmd \in Saved
  BY <1>1 DEF Types, TypeOK, LoopSound
<1>4. /\ told' \in [Commands -> Nat] /\ told'[lcmd] = 1
      /\ \A c \in Commands : c # lcmd => told'[c] = told[c]
  BY <1>1, <1>2, <1>3
<1>5. \A c \in Commands : Reported(c)' <=> Reported(c)
  BY <1>1, <1>2, <1>4 DEF Reported
<1>6. Reported(lcmd) /\ \A h \in Heard : h.cmd # lcmd
  BY <1>1 DEF LoopSound, Reported
<1>7. Heard' = Heard
  BY <1>2 DEF Heard
<1>8. TableSound' /\ Saved' = Saved /\ Freed' = Freed
  <2>1. Freed' = Freed /\ (Doing("saved")' <=> Doing("saved"))
        /\ (Doing("taken")' <=> Doing("taken"))
    BY <1>2 DEF Freed, Doing
  <2> QED
    BY <1>1, <1>2, <2>1, TableFrame
<1>9. RefsSound'
  BY <1>1, <1>2, <1>8 DEF RefsSound, Ref, Owns
<1>10. LoopSound'
  BY <1>1, <1>2, <1>3, <1>4, <1>5, <1>7, <1>8 DEF LoopSound
<1>11. ScriptSound' /\ CleanupSound'
  BY <1>1, <1>2 DEF ScriptSound, CleanupSound
<1>12. Types'
  BY <1>1, <1>2, <1>4 DEF Types, TypeOK, alloc_cmd
<1>13. HandlersSound'
  BY <1>1, <1>2, <1>6, <1>7, <1>8 DEF HandlersSound
<1>14. ActiveSound'
  BY <1>1, <1>2, <1>3, <1>7, <1>8 DEF ActiveSound
<1>15. CallSound'
  BY <1>1, <1>2, <1>3, <1>7, <1>8 DEF CallSound, Owns
<1> QED
  BY <1>8, <1>9, <1>10, <1>11, <1>12, <1>13, <1>14, <1>15 DEF WifiInv

\* The event thread takes the entry of its RTT out: first the entry goes ...
LEMMA LoopWithdrawKeeps ==
    ASSUME WifiInv, ~Overlap, LoopTake, loop = "take"
    PROVE  WifiInv'
<1> USE DEF callVars, tableVars, loopVars, driverVars
<1>1. /\ Types /\ ScriptSound /\ TableSound /\ RefsSound /\ LoopSound /\ CleanupSound
      /\ HandlersSound /\ ActiveSound /\ CallSound
      /\ hal # "down" /\ Freed = 0 /\ made \in Nat /\ 1..made \subseteq Commands
      /\ lcmd # None /\ lcmd \in 1..made /\ lcmd \in Commands /\ Saved \subseteq 1..made
      /\ MaxCommands \in Nat /\ cmd \in Seq(0..MaxCommands) /\ alloc_cmd \in Nat
      /\ num_cmd \in 0..alloc_cmd
  BY LoopFacts, ScriptFacts DEF LoopSound, TableSound
<1>2. UNCHANGED <<callVars, todo, active, event_cb, cb_lock, bad_commands, socks,
                  lcmd, ldone, driverVars, told>>
  BY DEF LoopTake
<1>3. seen["api"] = -1 /\ seen["loop"] = -1 /\ refs' = refs
  BY DEF LoopTake, MayEnter, Threads
<1>4. /\ ~Inside /\ ~Doing("saved") /\ ~Doing("taken") /\ Size = num_cmd
      /\ ~Inside' /\ ~Doing("saved")' /\ ~Doing("taken")'
  <2>1. ~Inside /\ ~Doing("saved") /\ ~Doing("taken")
    BY <1>1, <1>3, ScriptFacts, DoingHas DEF TableSound
  <2> QED
    BY <1>2, <2>1 DEF Size, Doing, Inside
<1>5. lcmd \in Saved /\ kind[lcmd] = "rtt" /\ Reported(lcmd)
  BY <1>1 DEF LoopSound, Reported
<1>6. Saved = Values(cmd, 1, num_cmd) /\ Distinct(cmd, num_cmd)
  BY <1>1, <1>4 DEF Saved, Values, Distinct, TableSound
<1>7. lcmd \in Values(cmd, 1, num_cmd) /\ num_cmd \in Nat /\ num_cmd <= alloc_cmd
  BY <1>1, <1>5, <1>6
<1>8. Withdraw("loop", lcmd) /\ loop' = "taken"
  BY <1>1, <1>6, <1>7, WithdrawTable DEF LoopTake
<1>9. /\ cmd' \in Seq(0..MaxCommands) /\ alloc_cmd' = alloc_cmd /\ num_cmd' = num_cmd /\ num_cmd > 0
      /\ Distinct(cmd', num_cmd - 1) /\ cmd'[num_cmd] = cmd[num_cmd]
      /\ Values(cmd', 1, num_cmd - 1) = Saved \ {lcmd}
  BY <1>1, <1>6, <1>7, <1>8, WithdrawTable
<1>10. Size' = num_cmd - 1 /\ Freed' = 0
  BY <1>1, <1>2, <1>4, <1>8, <1>9 DEF Size, Freed
<1>11. Saved' = Saved \ {lcmd}
  <2>1. Freed' + 1 = 1
    BY <1>10
  <2>2. Saved' = Values(cmd', 1, num_cmd - 1)
    BY <1>10, <2>1 DEF Saved, Values
  <2> QED
    BY <1>9, <2>2
<1>12. TableSound'
  <2>1. \A i \in 1 .. num_cmd - 1 : cmd'[i] \in 1..made
    BY <1>1, <1>9 DEF Values
  <2>2. seen' = [seen EXCEPT !["loop"] = num_cmd] /\ seen \in [Threads -> -1..alloc_cmd]
    BY <1>1, <1>8 DEF Withdraw, Types, TypeOK
  <2>3. /\ seen'["loop"] = num_cmd /\ seen'["api"] = -1 /\ num_cmd # -1
        /\ \A t \in Threads : seen'[t] # -1 => seen'[t] = num_cmd
    BY <1>1, <1>3, <2>2 DEF Threads
  <2>4. cmd'[num_cmd] \in Saved' \cup {lcmd}
    <3>1. num_cmd \in 1..num_cmd
      BY <1>1, <1>9
    <3>2. cmd[num_cmd] \in Saved
      BY <1>6, <3>1 DEF Values
    <3> QED
      BY <1>9, <1>11, <3>2
  <2>5. \A i \in 1 .. num_cmd - 1, j \in 1 .. num_cmd - 1 : cmd'[i] = cmd'[j] => i = j
    BY <1>9 DEF Distinct
  <2>6. num_cmd' \in 0..alloc_cmd' /\ Size' \in 0..alloc_cmd'
    BY <1>1, <1>9, <1>10
  <2> QED
    BY <1>1, <1>2, <1>4, <1>8, <1>9, <1>10, <2>1, <2>3, <2>4, <2>5, <2>6 DEF TableSound
<1>13. RefsSound'
  <2>1. \A d : Owns(d)' <=> Owns(d)
    BY <1>2 DEF Owns
  <2> QED
    BY <1>1, <1>2, <1>3, <1>5, <1>8, <1>11, <2>1 DEF RefsSound, Ref
<1>14. Heard' = Heard
  BY <1>2 DEF Heard
<1>15. LoopSound'
  <2>1. \A d : Reported(d)' => Reported(d)
    BY <1>2, <1>8 DEF Reported
  <2> QED
    BY <1>1, <1>2, <1>8, <1>14, <2>1 DEF LoopSound
<1>16. ScriptSound' /\ CleanupSound' /\ HandlersSound' /\ ActiveSound' /\ CallSound'
  <2>1. cur # None /\ kind[cur] = "rtt"
          /\ (\E o \in {"save", "request", "register", "release"} : Has(todo, o)) =>
            lcmd' # cur /\ cur \notin Saved \ Saved'
    BY <1>1, <1>2, <1>11 DEF CallSound
  <2> QED
    BY <1>1, <1>2, <1>5, <1>8, <1>9, <1>10, <1>11, <2>1, LoopFrame
<1>17. Types'
  <2>1. seen' \in [Threads -> -1..alloc_cmd]
    BY <1>1, <1>8 DEF Withdraw, Types, TypeOK, Threads
  <2>2. cmd' \in [1..alloc_cmd' -> 0..MaxCommands]
    BY <1>9, SequenceIsFunction DEF alloc_cmd
  <2> QED
    BY <1>1, <1>2, <1>3, <1>8, <1>9, <2>1, <2>2 DEF Types, TypeOK
<1> QED
  BY <1>12, <1>13, <1>15, <1>16, <1>17 DEF WifiInv

\* ... then it is counted, and the reference of the table dropped.
LEMMA LoopCountKeeps ==
    ASSUME WifiInv, LoopTake, loop = "taken"
    PROVE  WifiInv'
<1> USE DEF callVars, tableVars, loopVars, driverVars
<1>1. /\ Types /\ ScriptSound /\ TableSound /\ RefsSound /\ LoopSound /\ CleanupSound
      /\ HandlersSound /\ ActiveSound /\ CallSound
      /\ hal # "down" /\ Freed = 0 /\ made \in Nat /\ 1..made \subseteq Commands
      /\ lcmd # None /\ lcmd \in 1..made /\ lcmd \in Commands
      /\ alloc_cmd \in Nat /\ num_cmd \in 0..alloc_cmd /\ Size \in 0..alloc_cmd
  BY LoopFacts, ScriptFacts DEF LoopSound, TableSound
<1>2. /\ UNCHANGED <<callVars, todo, active, event_cb, cb_lock, bad_commands, socks,
                     lcmd, ldone, driverVars, told>>
      /\ loop' = "release" /\ Count("loop", -1) /\ releaseRef(lcmd)
  BY DEF LoopTake
<1>3. /\ ~Inside /\ ~Doing("saved") /\ ~Doing("taken") /\ Size = num_cmd - 1
      /\ ~Inside' /\ ~Doing("saved")' /\ ~Doing("taken")'
      /\ seen["api"] = -1 /\ seen["loop"] # -1
  <2>1. ~Inside /\ ~Doing("saved") /\ ~Doing("taken")
    BY <1>1, ScriptFacts, DoingHas DEF TableSound
  <2> QED
    BY <1>1, <1>2, <2>1 DEF Size, Doing, Inside, TableSound
<1>4. /\ cmd' = cmd /\ num_cmd' = Size /\ seen' \in [Threads -> -1..alloc_cmd]
      /\ seen' = [seen EXCEPT !["loop"] = -1]
  <2>1. /\ num_cmd' = num_cmd + -1 /\ cmd' = cmd /\ seen' = [seen EXCEPT !["loop"] = -1]
        /\ seen' \in [Threads -> -1..alloc_cmd]
    BY <1>1, <1>2, <1>3, CountTable DEF Threads
  <2> QED
    BY <1>1, <1>3, <2>1
<1>5. Size' = Size /\ Freed' = 0
  BY <1>1, <1>2, <1>3, <1>4 DEF Size, Freed
<1>6. Saved' = Saved
  BY <1>1, <1>4, <1>5 DEF Saved
<1>7. TableSound'
  <2>1. \A t \in Threads : seen'[t] = -1
    BY <1>1, <1>3, <1>4 DEF Threads, Types, TypeOK
  <2>2. alloc_cmd' = alloc_cmd
    BY <1>4 DEF alloc_cmd
  <2> QED
    BY <1>1, <1>2, <1>3, <1>4, <1>5, <2>1, <2>2 DEF TableSound, Threads
<1>8. refs' = [refs EXCEPT ![lcmd] = @ - 1] /\ refs \in [Commands -> 0..3]
  BY <1>1, <1>2 DEF releaseRef, Types, TypeOK
<1>9. /\ refs' \in [Commands -> Int] /\ refs'[lcmd] = refs[lcmd] - 1
      /\ \A d \in Commands : d # lcmd => refs'[d] = refs[d]
  BY <1>1, <1>8
<1>10. RefsSound'
  <2>1. \A d : Owns(d)' <=> Owns(d)
    BY <1>2 DEF Owns
  <2> QED
    BY <1>1, <1>2, <1>6, <1>9, <2>1 DEF RefsSound, Ref
<1>11. Heard' = Heard
  BY <1>2 DEF Heard
<1>12. LoopSound'
  <2>1. \A d : Reported(d)' <=> Reported(d)
    BY <1>2 DEF Reported
  <2> QED
    BY <1>1, <1>2, <1>11, <2>1 DEF LoopSound
<1>13. ScriptSound' /\ CleanupSound' /\ HandlersSound' /\ ActiveSound' /\ CallSound'
  <2>1. cur # None /\ kind[cur] = "rtt"
          /\ (\E o \in {"save", "request", "register", "release"} : Has(todo, o)) => lcmd' # cur
    BY <1>1, <1>2 DEF CallSound
  <2>2. num_cmd' \in Nat
    BY <1>1, <1>4
  <2> QED
    BY <1>1, <1>2, <1>5, <1>6, <2>1, <2>2, LoopFrame
<1>14. Types'
  <2>1. refs' \in [Commands -> 0..3]
    BY <1>9, <1>10, <1>12, <1>13, RefsTyped
  <2>2. num_cmd' \in 0..alloc_cmd' /\ alloc_cmd' = alloc_cmd
    BY <1>1, <1>4 DEF alloc_cmd
  <2> QED
    BY <1>1, <1>2, <1>4, <2>1, <2>2 DEF Types, TypeOK
<1> QED
  BY <1>7, <1>10, <1>12, <1>13, <1>14 DEF WifiInv

\* The event thread drops its reference.
LEMMA LoopReleaseKeeps ==
    ASSUME WifiInv, LoopRelease
    PROVE  WifiInv'
<1> USE DEF callVars, tableVars, loopVars, driverVars
<1>1. /\ Types /\ ScriptSound /\ TableSound /\ RefsSound /\ LoopSound /\ CleanupSound
      /\ HandlersSound /\ ActiveSound /\ CallSound
      /\ hal # "down" /\ Freed = 0 /\ made \in Nat /\ 1..made \subseteq Commands
      /\ loop = "release" /\ lcmd # None /\ lcmd \in Commands
      /\ num_cmd \in Nat /\ MaxCommands \in Nat
  BY LoopFacts, ScriptFacts DEF LoopRelease, LoopSound, TableSound
<1>2. /\ UNCHANGED <<callVars, todo, active, tableVars, event_cb, cb_lock,
                     bad_commands, socks, driverVars, told>>
      /\ loop' = "poll" /\ lcmd' = None /\ ldone' = FALSE
      /\ refs' = [refs EXCEPT ![lcmd] = @ - 1]
  BY DEF LoopRelease, releaseRef
<1>3. TableSound' /\ Saved' = Saved /\ Freed' = Freed
  <2>1. Freed' = Freed /\ (Doing("saved")' <=> Doing("saved"))
        /\ (Doing("taken")' <=> Doing("taken"))
    BY <1>2 DEF Freed, Doing
  <2> QED
    BY <1>1, <1>2, <2>1, TableFrame
<1>4. refs \in [Commands -> 0..3]
  BY <1>1 DEF Types, TypeOK
<1>5. /\ refs' \in [Commands -> Int] /\ refs'[lcmd] = refs[lcmd] - 1
      /\ \A d \in Commands : d # lcmd => refs'[d] = refs[d]
  BY <1>1, <1>2, <1>4
<1>6. RefsSound'
  <2>1. \A d : Owns(d)' <=> Owns(d)
    BY <1>2 DEF Owns
  <2>2. \A d \in Commands : d # None
    BY WifiAssumption DEF Commands, None
  <2> QED
    BY <1>1, <1>2, <1>3, <1>5, <2>1, <2>2 DEF RefsSound, Ref
<1>7. Heard' = Heard
  BY <1>2 DEF Heard
<1>8. LoopSound'
  <2>1. \A d : Reported(d)' <=> Reported(d)
    BY <1>1, <1>2 DEF Reported
  <2>2. lcmd' \in 0..made'
    BY <1>1, <1>2 DEF None
  <2> QED
    BY <1>1, <1>2, <1>7, <2>1, <2>2 DEF LoopSound
<1>9. ScriptSound' /\ CleanupSound' /\ HandlersSound' /\ ActiveSound' /\ CallSound'
  BY <1>1, <1>2, <1>3, LoopFrame
<1>10. Types'
  <2>1. refs' \in [Commands -> 0..3]
    BY <1>5, <1>6, <1>8, <1>9, RefsTyped
  <2>2. lcmd' \in 0..MaxCommands
    BY <1>1, <1>2 DEF None
  <2> QED
    BY <1>1, <1>2, <2>1, <2>2 DEF Types, TypeOK, alloc_cmd
<1> QED
  BY <1>3, <1>6, <1>8, <1>9, <1>10 DEF WifiInv

-----------------------------------------------------------------------------
(* The invariant, and what it says of the properties.                      *)

\* Nothing has been called yet.
LEMMA InitInv ==
    ASSUME Init
    PROVE  WifiInv
<1>1. /\ hal = "down" /\ todo = <<>> /\ cur = 0 /\ made = 0 /\ active = {} /\ num_cmd = 0
      /\ kind = [c \in Commands |-> "none"] /\ refs = [c \in Commands |-> 0]
      /\ seen = [t \in Threads |-> -1] /\ event_cb = <<>> /\ cb_lock = "free"
      /\ bad_commands = 0 /\ socks = "empty" /\ loop = "none" /\ lcmd = 0 /\ ldone = FALSE
      /\ events = <<>> /\ sent = 0 /\ told = [c \in Commands |-> 0]
  BY DEF Init, None
<1>2. MaxCommands \in Nat /\ MaxEvents \in Nat
  BY WifiAssumption
<1>3. cmd \in Seq(0..MaxCommands) /\ alloc_cmd \in Nat
  <2> DEFINE S == 0..MaxCommands
  <2>1. PICK n \in Nat : cmd = [i \in 1..n |-> 0]
    BY WifiAssumption DEF Init, None
  <2>2. 0 \in S
    BY <1>2
  <2> HIDE DEF S
  <2>3. cmd \in Seq(S) /\ Len(cmd) = n
    BY <2>1, <2>2
  <2> QED
    BY <2>3 DEF S, alloc_cmd
<1>4. /\ \A o, s : ~Has(todo, o) /\ ~HasFor(todo, o, s)
      /\ ~Doing("saved") /\ ~Doing("taken") /\ ~Inside /\ Ordered(todo)
      /\ \A c : ~Owns(c)
  <2>1. \A o, s : ~Has(todo, o) /\ ~HasFor(todo, o, s)
    BY <1>1, HasFacts
  <2> QED
    BY <1>1, <2>1, HasFacts DEF Doing, Inside, Owns
<1>5. Size = 0 /\ Freed = 0
  BY <1>1, <1>4 DEF Size, Freed
<1>6. Saved = {}
  <2>1. 0 + 1 .. 0 = {}
    OBVIOUS
  <2> QED
    BY <1>5, <2>1 DEF Saved
<1>7. Heard = {} /\ DOMAIN event_cb = {}
  <2>1. DOMAIN event_cb = {}
    BY <1>1
  <2> QED
    BY <2>1 DEF Heard
<1>8. ScriptSound
  BY <1>1, <1>4 DEF ScriptSound
<1>9. TableSound
  <2>1. 1..0 = {}
    OBVIOUS
  <2> QED
    BY <1>1, <1>3, <1>4, <1>5, <2>1 DEF TableSound, Threads
<1>10. RefsSound
  <2>1. \A c \in Commands : c # lcmd
    BY <1>1 DEF Commands
  <2> QED
    BY <1>1, <1>4, <1>6, <2>1 DEF RefsSound, Ref
<1>11. LoopSound
  <2>1. \A c \in Commands : told[c] = 0 /\ ~Reported(c)
    BY <1>1 DEF Reported
  <2> QED
    BY <1>1, <2>1 DEF LoopSound, None
<1>12. CleanupSound
  BY <1>1 DEF CleanupSound
<1>13. Types
  <2>1. cmd \in [1..alloc_cmd -> 0..MaxCommands]
    BY <1>3, SequenceIsFunction DEF alloc_cmd
  <2>2. /\ todo \in Seq([op : DOMAIN Follow, sub : AllSubs \cup {"-"}])
        /\ event_cb \in Seq([sub : AllSubs, cmd : 1..made])
        /\ events \in Seq([sub : AllSubs, done : BOOLEAN])
    BY <1>1
  <2>3. \A c \in 1..made : kind[c] \in Kinds
    BY <1>1
  <2>4. /\ kind \in [Commands -> Kinds \cup {"none"}] /\ refs \in [Commands -> 0..3]
        /\ told \in [Commands -> Nat] /\ seen \in [Threads -> -1..alloc_cmd]
    BY <1>1, <1>3
  <2>5. TypeOK
    <3>1. \A i \in DOMAIN event_cb : event_cb[i] \in [sub : AllSubs, cmd : Commands]
      BY <1>7
    <3>2. /\ cur \in 0..MaxCommands /\ made \in 0..MaxCommands /\ active \subseteq Commands
          /\ num_cmd \in 0..alloc_cmd /\ bad_commands \in 0..alloc_cmd
          /\ lcmd \in 0..MaxCommands /\ sent \in 0..MaxEvents
      BY <1>1, <1>2, <1>3
    <3>3. /\ hal \in {"down", "up", "cleaning"} /\ cb_lock \in {"free", "api"}
          /\ socks \in {"empty", "Exit", "Done"} /\ ldone \in BOOLEAN
          /\ loop \in {"none", "poll", "handle", "report", "take", "taken", "release", "exited"}
      BY <1>1
    <3> QED
      BY <2>1, <2>4, <3>1, <3>2, <3>3 DEF TypeOK
  <2>6. cur \in 0..made /\ \A i, j \in DOMAIN event_cb : event_cb[i].sub = event_cb[j].sub => i = j
    BY <1>1, <1>7
  <2> QED
    BY <1>3, <2>2, <2>3, <2>5, <2>6 DEF Types
<1>14. HandlersSound /\ CallSound
  BY <1>4, <1>7 DEF HandlersSound, CallSound
<1>15. ActiveSound
  BY <1>1, <1>6 DEF ActiveSound
<1> QED
  BY <1>8, <1>9, <1>10, <1>11, <1>12, <1>13, <1>14, <1>15 DEF WifiInv

\* Every step keeps the invariant, where the threads are not inside the table
\* at the same time.
LEMMA NextInv ==
    ASSUME WifiInv, ~Overlap, [Next]_vars
    PROVE  WifiInv'
<1>1. CASE wifi_initialize
  BY <1>1, InitializeKeeps
<1>2. CASE wifi_cleanup
  BY <1>2, CleanupKeeps
<1>3. ASSUME NEW k \in Kinds, Start(k) \/ CancelAnonymous(k) PROVE WifiInv'
  BY <1>3, StartKeeps, AnonymousKeeps
<1>4. ASSUME NEW c \in Commands, wifi_cancel_cmd(c) PROVE WifiInv'
  BY <1>4, CancelCmdKeeps
<1>5. CASE ApiStep
  <2>1. CASE Handlers
    <3>1. Doing("register") \/ Doing("unregister")
      BY <2>1 DEF Handlers
    <3> QED
      BY <2>1, <3>1, RegisterKeeps, UnregisterKeeps
  <2>2. CASE Save \/ Counted \/ Take \/ requestResponse \/ Returned
    BY <2>2, SaveKeeps, CountedKeeps, TakeKeeps, ResponseKeeps, ReturnedKeeps
  <2>3. CASE Release \/ WaitDone \/ Sweep \/ Swept \/ CleanedUp
    BY <2>3, ReleaseKeeps, WaitDoneKeeps, SweepKeeps, SweptKeeps, CleanedUpKeeps
  <2> QED
    BY <1>5, <2>1, <2>2, <2>3 DEF ApiStep
<1>6. CASE LoopStep
  <2>1. CASE LoopTake
    <3>1. loop = "take" \/ loop = "taken"
      BY <2>1 DEF LoopTake
    <3> QED
      BY <2>1, <3>1, LoopWithdrawKeeps, LoopCountKeeps
  <2>2. CASE wifi_event_loop \/ internal_valid_message_handler \/ handleEvent
    BY <2>2, EventLoopKeeps, HandlerKeeps, HandleKeeps
  <2>3. CASE on_rtt_results \/ LoopRelease \/ LoopExit
    BY <2>3, ResultsKeep, LoopReleaseKeeps, ExitKeeps
  <2> QED
    BY <1>6, <2>1, <2>2, <2>3 DEF LoopStep
<1>7. ASSUME NEW s \in AllSubs, NEW d \in BOOLEAN, DriverEvent(s, d) PROVE WifiInv'
  BY <1>7, DriverKeeps
<1>8. CASE UNCHANGED vars
  <2>1. /\ UNCHANGED <<callVars, todo, refs, active, tableVars, event_cb, cb_lock,
                       bad_commands, socks, loopVars, told>>
        /\ events' = events /\ sent' = sent
    BY <1>8 DEF vars, callVars, tableVars, loopVars, driverVars
  <2>2. events \in Seq([sub : AllSubs, done : BOOLEAN]) /\ sent \in 0..MaxEvents
    BY DEF WifiInv, Types, TypeOK
  <2> QED
    BY <2>1, <2>2, EventsKeep
<1> QED
  BY <1>1, <1>2, <1>3, <1>4, <1>5, <1>6, <1>7, <1>8 DEF Next

\* The entries of the table while no thread changes it.
LEMMA InvSaved ==
    ASSUME WifiInv
    PROVE  SavedIsAlive
<1> SUFFICES ASSUME hal = "up", \A t \in Threads : seen[t] = -1, NEW i \in 1..num_cmd
             PROVE  /\ cmd[i] # None /\ refs[cmd[i]] > 0
                    /\ \A j \in 1..num_cmd : cmd[i] = cmd[j] => i = j
  BY DEF SavedIsAlive
<1>1. Types /\ TableSound /\ RefsSound
  BY DEF WifiInv
<1>2. ~Inside /\ loop # "taken"
  BY <1>1 DEF TableSound, Threads
<1>3. Size = num_cmd /\ Freed = 0
  BY <1>2 DEF Size, Freed, Inside, Doing
<1>4. cmd[i] \in Saved /\ cmd[i] \in 1..made /\ \A j \in 1..num_cmd : cmd[i] = cmd[j] => i = j
  BY <1>1, <1>3 DEF Saved, TableSound
<1>5. cmd[i] \in Commands /\ cmd[i] # None
  BY <1>1, <1>4, ScriptFacts DEF None
<1> QED
  BY <1>1, <1>4, <1>5 DEF RefsSound, Ref

\* A handler's command is in the table, or about to lose the handler.
LEMMA InvAlive ==
    ASSUME WifiInv
    PROVE  HandlersAlive
<1>1. Types /\ RefsSound /\ LoopSound
  BY DEF WifiInv
<1>2. ASSUME loop # "exited", NEW i \in DOMAIN event_cb PROVE refs[event_cb[i].cmd] > 0
  <2> DEFINE h == event_cb[i]
  <2>1. HandlersSound /\ CallSound
    BY <1>2 DEF WifiInv
  <2>2. h \in Heard
    BY DEF Heard
  <2> HIDE DEF h
  <2>3. h.cmd \in Commands
    BY <1>1, <2>2, ScriptFacts
  <2>4. h.cmd \in Saved \/ Owns(h.cmd)
    BY <2>1, <2>2 DEF HandlersSound, CallSound, Owns
  <2>5. refs[h.cmd] > 0
    <3>1. refs[h.cmd] = Ref(h.cmd \in Saved) + Ref(h.cmd = lcmd)
                          + Ref(h.cmd = lcmd /\ loop = "taken") + Ref(Owns(h.cmd))
      BY <1>1, <2>3 DEF RefsSound
    <3>2. /\ Ref(h.cmd \in Saved) \in 0 .. 1 /\ Ref(h.cmd = lcmd) \in 0 .. 1
          /\ Ref(h.cmd = lcmd /\ loop = "taken") \in 0 .. 1 /\ Ref(Owns(h.cmd)) \in 0 .. 1
          /\ Ref(h.cmd \in Saved) = 1 \/ Ref(Owns(h.cmd)) = 1
      BY <2>4 DEF Ref
    <3> QED
      BY <3>1, <3>2
  <2> QED
    BY <2>5 DEF h
<1>3. lcmd # None => refs[lcmd] > 0
  <2>1. lcmd # None => lcmd \in Commands
    BY <1>1, ScriptFacts DEF LoopSound, None
  <2> QED
    BY <1>1, <2>1 DEF RefsSound, Ref
<1> QED
  BY <1>2, <1>3 DEF HandlersAlive

\* Between two calls every command has its handlers, and no event has two.
LEMMA InvHeard ==
    ASSUME WifiInv
    PROVE  EventsHeard
<1>1. ResultsOnce
  BY DEF WifiInv, LoopSound, ResultsOnce
<1>2. ASSUME Idle PROVE ActiveHears
  <2>1. /\ Types /\ ActiveSound
        /\ \A h \in Heard : h.cmd \in active
        /\ \A o, s : ~Has(todo, o)
    BY <1>2, IdleFacts
  <2>2. \A i \in DOMAIN event_cb : event_cb[i].cmd \in active \cup {lcmd}
    BY <2>1 DEF Heard
  <2>3. ASSUME NEW c \in active, kind[c] # "rtt", NEW s \in Range(Subs[kind[c]])
        PROVE  Cardinality({i \in DOMAIN event_cb : event_cb[i] = [sub |-> s, cmd |-> c]}) = 1
    <3> DEFINE x == [sub |-> s, cmd |-> c]
    <3>1. x \in Heard /\ x.sub = s
      BY <2>1, <2>3 DEF ActiveSound, Hears
    <3> HIDE DEF x
    <3>2. PICK p \in DOMAIN event_cb : event_cb[p] = x
      BY <3>1 DEF Heard
    <3>3. \A i \in DOMAIN event_cb : event_cb[i] = x => i = p
      BY <2>1, <3>1, <3>2, ScriptFacts DEF OneEach
    <3>4. {i \in DOMAIN event_cb : event_cb[i] = x} = {p}
      BY <3>2, <3>3
    <3>5. Cardinality({i \in DOMAIN event_cb : event_cb[i] = x}) = 1
      BY <3>4, FS_Singleton
    <3> QED
      BY <3>5 DEF x
  <2> QED
    BY <2>2, <2>3 DEF ActiveHears
<1>3. ~Idle => ActiveHears
  BY DEF ActiveHears
<1> QED
  BY <1>1, <1>2, <1>3 DEF EventsHeard

\* Nobody is left with a reference when the HAL is down.
LEMMA InvFrees ==
    ASSUME WifiInv
    PROVE  CleanupFrees
<1> SUFFICES ASSUME hal = "down", NEW c \in Commands PROVE refs[c] = 0
  BY DEF CleanupFrees
<1>1. /\ Types /\ ScriptSound /\ TableSound /\ RefsSound /\ LoopSound /\ CleanupSound
  BY DEF WifiInv
<1>2. todo = <<>> /\ num_cmd = 0 /\ lcmd = None /\ loop # "taken"
  BY <1>1 DEF ScriptSound, TableSound, LoopSound, CleanupSound
<1>3. Size = 0 /\ Freed = 0 /\ ~Owns(c)
  BY <1>2, HasFacts DEF Size, Freed, Doing, Owns
<1>4. Saved = {}
  <2>1. 0 + 1 .. 0 = {}
    OBVIOUS
  <2> QED
    BY <1>3, <2>1 DEF Saved
<1>5. c # None
  BY WifiAssumption DEF Commands, None
<1> QED
  BY <1>1, <1>2, <1>3, <1>4, <1>5 DEF RefsSound, Ref

\* The invariant holds in every state, where the threads are not inside
\* info->cmd at the same time (the run WifiHalOverlap shows what happens else).
THEOREM WifiInvariant == ~Overlap => (Spec => []WifiInv)
<1> SUFFICES ASSUME ~Overlap PROVE Spec => []WifiInv
  OBVIOUS
<1>1. Init => WifiInv
  BY InitInv
<1>2. WifiInv /\ [Next]_vars => WifiInv'
  BY NextInv
<1> QED
  BY <1>1, <1>2, PTL DEF Spec

\* Type correctness: among it that no reference count goes below zero and that
\* num_cmd stays within the table.
THEOREM TypesHold == ~Overlap => (Spec => []TypeOK)
<1> SUFFICES ASSUME ~Overlap PROVE Spec => []TypeOK
  OBVIOUS
<1>1. Spec => []WifiInv
  BY WifiInvariant
<1>2. WifiInv => TypeOK
  BY DEF WifiInv, Types
<1> QED
  BY <1>1, <1>2, PTL

\* While the HAL is up, the entries of info->cmd are different commands that
\* have not been freed (wifi_register_cmd, wifi_unregister_cmd).
THEOREM TableHoldsReferences == ~Overlap => (Spec => []SavedIsAlive)
<1> SUFFICES ASSUME ~Overlap PROVE Spec => []SavedIsAlive
  OBVIOUS
<1>1. Spec => []WifiInv
  BY WifiInvariant
<1>2. WifiInv => SavedIsAlive
  BY InvSaved
<1> QED
  BY <1>1, <1>2, PTL

\* No command is freed while a handler of event_cb names it or the event
\* thread runs it (wifi_register_vendor_handler holds no reference).
THEOREM HandlersOutliveNoCommand == ~Overlap => (Spec => []HandlersAlive)
<1> SUFFICES ASSUME ~Overlap PROVE Spec => []HandlersAlive
  OBVIOUS
<1>1. Spec => []WifiInv
  BY WifiInvariant
<1>2. WifiInv => HandlersAlive
  BY InvAlive
<1> QED
  BY <1>1, <1>2, PTL

\* Between two calls each command the caller has running has one handler for
\* each of its events, and the results of an RTT are reported at most once.
THEOREM HandlersComplete == ~Overlap => (Spec => []EventsHeard)
<1> SUFFICES ASSUME ~Overlap PROVE Spec => []EventsHeard
  OBVIOUS
<1>1. Spec => []WifiInv
  BY WifiInvariant
<1>2. WifiInv => EventsHeard
  BY InvHeard
<1> QED
  BY <1>1, <1>2, PTL

\* wifi_cleanup leaves no command behind: the sweep over info->cmd and the end
\* of the event thread have released every one (internal_cleaned_up_handler).
THEOREM CleanupLeavesNothing == ~Overlap => (Spec => []CleanupFrees)
<1> SUFFICES ASSUME ~Overlap PROVE Spec => []CleanupFrees
  OBVIOUS
<1>1. Spec => []WifiInv
  BY WifiInvariant
<1>2. WifiInv => CleanupFrees
  BY InvFrees
<1> QED
  BY <1>1, <1>2, PTL

=============================================================================
