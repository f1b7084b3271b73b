-------------------------- MODULE RilRequestProofs --------------------------
(***************************************************************************)
(* Proofs about the life of requests, for any number of sockets, channels, *)
(* addresses and requests, whatever goes wrong.                            *)
(***************************************************************************)
EXTENDS RilRequest, SequenceTheorems, TLAPS

-----------------------------------------------------------------------------
(* Lists and queues.                                                       *)

\* A list that starts with a new element (addRequestToList).
LEMMA PushFacts ==
    ASSUME NEW S, NEW s \in Seq(S), NEW a \in S
    PROVE  /\ <<a>> \o s \in Seq(S)
           /\ Range(<<a>> \o s) = Range(s) \cup {a}
           /\ IsInjective(s) /\ a \notin Range(s) => IsInjective(<<a>> \o s)
<1> DEFINE t == <<a>> \o s
<1>1. /\ t \in Seq(S) /\ Len(t) = Len(s) + 1 /\ Len(s) \in Nat
      /\ t[1] = a /\ \A i \in 1 .. Len(s) : t[i + 1] = s[i]
  OBVIOUS
<1>2. DOMAIN t = 1 .. Len(s) + 1 /\ DOMAIN s = 1 .. Len(s)
  OBVIOUS
<1>3. \A i \in DOMAIN t : i = 1 \/ (i - 1 \in DOMAIN s /\ t[i] = s[i - 1])
  BY <1>1, <1>2
<1>4. \A i \in DOMAIN s : i + 1 \in DOMAIN t /\ t[i + 1] = s[i]
  BY <1>1, <1>2
<1>5. 1 \in DOMAIN t
  BY <1>1, <1>2
<1> HIDE DEF t
<1>6. Range(t) = Range(s) \cup {a}
  <2>1. \A x : x \in Range(t) => x \in Range(s) \cup {a}
    BY <1>1, <1>3 DEF Range
  <2>2. \A x : x \in Range(s) \cup {a} => x \in Range(t)
    BY <1>1, <1>4, <1>5 DEF Range
  <2> QED
    BY <2>1, <2>2
<1>7. IsInjective(s) /\ a \notin Range(s) => IsInjective(t)
  <2> SUFFICES ASSUME IsInjective(s), a \notin Range(s), NEW i \in DOMAIN t, NEW j \in DOMAIN t,
                      t[i] = t[j]
               PROVE  i = j
    BY DEF IsInjective
  <2>1. i = 1 => j = 1
    BY <1>1, <1>3 DEF Range
  <2>2. j = 1 => i = 1
    BY <1>1, <1>3 DEF Range
  <2>3. i # 1 /\ j # 1 => i - 1 = j - 1
    BY <1>3 DEF IsInjective
  <2> QED
    BY <1>2, <1>1, <2>1, <2>2, <2>3
<1> QED
  BY <1>1, <1>6, <1>7 DEF t

\* A queue with a new last element (my_enqueue), and answers with a new one.
LEMMA AppendFacts ==
    ASSUME NEW S, NEW s \in Seq(S), NEW a \in S
    PROVE  /\ Append(s, a) \in Seq(S)
           /\ Range(Append(s, a)) = Range(s) \cup {a}
           /\ IsInjective(s) /\ a \notin Range(s) => IsInjective(Append(s, a))
           /\ Len(s) \in Nat /\ DOMAIN s = 1 .. Len(s)
           /\ DOMAIN Append(s, a) = 1 .. Len(s) + 1
           /\ Append(s, a)[Len(s) + 1] = a
           /\ \A i \in 1 .. Len(s) : Append(s, a)[i] = s[i]
<1> DEFINE t == Append(s, a)
<1>1. /\ t \in Seq(S) /\ Len(s) \in Nat /\ DOMAIN t = 1 .. Len(s) + 1 /\ DOMAIN s = 1 .. Len(s)
      /\ t[Len(s) + 1] = a /\ \A i \in 1 .. Len(s) : t[i] = s[i]
  OBVIOUS
<1> HIDE DEF t
<1>2. \A i \in DOMAIN t : (i = Len(s) + 1 /\ t[i] = a) \/ (i \in DOMAIN s /\ t[i] = s[i])
  BY <1>1
<1>3. Range(t) = Range(s) \cup {a}
  <2>1. \A x : x \in Range(t) => x \in Range(s) \cup {a}
    BY <1>2 DEF Range
  <2>2. \A x : x \in Range(s) => x \in Range(t)
    BY <1>1 DEF Range
  <2>3. a \in Range(t)
    BY <1>1 DEF Range
  <2> QED
    BY <2>1, <2>2, <2>3
<1>4. IsInjective(s) /\ a \notin Range(s) => IsInjective(t)
  BY <1>1, <1>2 DEF IsInjective, Range
<1> QED
  BY <1>1, <1>3, <1>4 DEF t

\* A queue without its first element (Forget).
LEMMA TailFacts ==
    ASSUME NEW S, NEW s \in Seq(S), s # <<>>
    PROVE  /\ Tail(s) \in Seq(S) /\ Head(s) \in S
           /\ Range(s) = Range(Tail(s)) \cup {Head(s)}
           /\ IsInjective(s) => IsInjective(Tail(s)) /\ Head(s) \notin Range(Tail(s))
           /\ Len(s) \in Nat /\ DOMAIN s = 1 .. Len(s) /\ Len(s) > 0 /\ Head(s) = s[1]
           /\ DOMAIN Tail(s) = 1 .. Len(s) - 1
           /\ \A i \in 1 .. Len(s) - 1 : Tail(s)[i] = s[i + 1]
<1> DEFINE t == Tail(s)
<1>1. /\ t \in Seq(S) /\ Len(s) \in Nat /\ Len(s) > 0 /\ DOMAIN t = 1 .. Len(s) - 1
      /\ DOMAIN s = 1 .. Len(s) /\ Head(s) = s[1] /\ \A i \in 1 .. Len(s) - 1 : t[i] = s[i + 1]
  OBVIOUS
<1>0. Head(s) \in S
  OBVIOUS
<1> HIDE DEF t
<1>2. \A i \in DOMAIN t : i + 1 \in DOMAIN s /\ t[i] = s[i + 1]
  BY <1>1
<1>3. \A i \in DOMAIN s : i = 1 \/ (i - 1 \in DOMAIN t /\ s[i] = t[i - 1])
  BY <1>1
<1>4. Range(s) = Range(t) \cup {Head(s)}
  <2>1. \A x : x \in Range(s) => x \in Range(t) \cup {Head(s)}
    BY <1>1, <1>3 DEF Range
  <2>2. \A x : x \in Range(t) => x \in Range(s)
    BY <1>2 DEF Range
  <2>3. Head(s) \in Range(s)
    BY <1>1 DEF Range
  <2> QED
    BY <2>1, <2>2, <2>3
<1>5. ASSUME IsInjective(s) PROVE IsInjective(t) /\ Head(s) \notin Range(t)
  <2>1. \A i, j \in DOMAIN t : t[i] = t[j] => i + 1 = j + 1
    BY <1>2, <1>5 DEF IsInjective
  <2>2. \A i \in DOMAIN t : t[i] # s[1]
    BY <1>1, <1>2, <1>5 DEF IsInjective
  <2> QED
    BY <1>1, <2>1, <2>2 DEF IsInjective, Range
<1> QED
  BY <1>0, <1>1, <1>4, <1>5 DEF t

\* A list one of whose elements is unlinked (RIL_onRequestComplete).
LEMMA RemoveFacts ==
    ASSUME NEW S, NEW s \in Seq(S), NEW a \in Range(s), IsInjective(s)
    PROVE  /\ RemoveFirst(s, a) \in Seq(S)
           /\ Range(RemoveFirst(s, a)) = Range(s) \ {a}
           /\ IsInjective(RemoveFirst(s, a))
<1>1. Len(s) \in Nat /\ DOMAIN s = 1 .. Len(s)
  OBVIOUS
<1>2. PICK i \in 1 .. Len(s) : s[i] = a
  BY <1>1 DEF Range
<1> DEFINE m == SelectInSeq(s, LAMBDA v : v = a)
<1>3. m = i
  <2>1. {k \in 1 .. Len(s) : s[k] = a} = {i}
    BY <1>1, <1>2 DEF IsInjective
  <2>2. Min({i}) = i
    BY <1>1 DEF Min
  <2> QED
    BY <2>1, <2>2 DEF SelectInSeq
<1> HIDE DEF m
<1>4. RemoveFirst(s, a) = SubSeq(s, 1, i - 1) \o SubSeq(s, i + 1, Len(s))
  BY <1>2, <1>3 DEF RemoveFirst, RemoveAt, m
<1> DEFINE p == SubSeq(s, 1, i - 1)
           q == SubSeq(s, i + 1, Len(s))
           t == p \o q
<1>5. /\ t \in Seq(S) /\ DOMAIN t = 1 .. Len(s) - 1
      /\ (\A k \in 1 .. i - 1 : t[k] = s[k]) /\ (\A k \in i .. Len(s) - 1 : t[k] = s[k + 1])
  <2>1. p \in Seq(S) /\ Len(p) = i - 1 /\ \A k \in 1 .. i - 1 : p[k] = s[k]
    <3>1. /\ p \in Seq(S) /\ Len(p) = IF 1 <= i - 1 THEN (i - 1) - 1 + 1 ELSE 0
          /\ \A k \in 1 .. (i - 1) - 1 + 1 : p[k] = s[1 + k - 1]
      BY <1>1, SubSeqProperties
    <3> HIDE DEF p
    <3> QED
      BY <1>1, <3>1
  <2>2. q \in Seq(S) /\ Len(q) = Len(s) - i /\ \A k \in 1 .. Len(s) - i : q[k] = s[k + i]
    <3>1. /\ q \in Seq(S) /\ Len(q) = IF i + 1 <= Len(s) THEN Len(s) - (i + 1) + 1 ELSE 0
          /\ \A k \in 1 .. Len(s) - (i + 1) + 1 : q[k] = s[(i + 1) + k - 1]
      BY <1>1, SubSeqProperties
    <3> HIDE DEF q
    <3>2. Len(s) - (i + 1) + 1 = Len(s) - i /\ \A k \in 1 .. Len(s) - i : (i + 1) + k - 1 = k + i
      BY <1>1
    <3>3. Len(q) = Len(s) - i
      <4>1. CASE i = Len(s)
        <5>1. ~(i + 1 <= Len(s)) /\ Len(s) - i = 0
          BY <1>1, <4>1
        <5> QED
          BY <3>1, <5>1
      <4>2. CASE i # Len(s)
        <5>0. \A n \in Nat : \A k \in 1 .. n : k # n => k + 1 <= n
          OBVIOUS
        <5>1. i + 1 <= Len(s)
          BY <1>1, <4>2, <5>0
        <5> QED
          BY <3>1, <3>2, <5>1
      <4> QED
        BY <4>1, <4>2
    <3> QED
      BY <3>1, <3>2, <3>3
  <2> HIDE DEF p, q
  <2>3. /\ t \in Seq(S) /\ Len(t) = Len(p) + Len(q)
        /\ \A k \in 1 .. Len(p) + Len(q) : t[k] = IF k <= Len(p) THEN p[k] ELSE q[k - Len(p)]
    BY <2>1, <2>2, ConcatProperties
  <2> HIDE DEF t
  <2>4. DOMAIN t = 1 .. Len(s) - 1
    BY <1>1, <2>1, <2>2, <2>3
  <2>5. ASSUME NEW k \in 1 .. i - 1 PROVE t[k] = s[k]
    <3>1. k <= i - 1 /\ k \in 1 .. Len(s) - 1 /\ (i - 1) + (Len(s) - i) = Len(s) - 1
      BY <1>1
    <3>2. t[k] = p[k]
      BY <2>1, <2>2, <2>3, <3>1
    <3> QED
      BY <2>1, <3>2
  <2>6. ASSUME NEW k \in i .. Len(s) - 1 PROVE t[k] = s[k + 1]
    <3>1. k - (i - 1) \in 1 .. Len(s) - i /\ k \in 1 .. Len(s) - 1 /\ ~(k <= i - 1)
          /\ (k - (i - 1)) + i = k + 1 /\ (i - 1) + (Len(s) - i) = Len(s) - 1
      BY <1>1
    <3>2. t[k] = q[k - (i - 1)]
      BY <2>1, <2>2, <2>3, <3>1
    <3> QED
      BY <2>2, <3>1, <3>2
  <2> QED
    BY <1>1, <2>3, <2>4, <2>5, <2>6
<1> HIDE DEF p, q, t
<1>6. \A k \in DOMAIN t :
        \/ k < i /\ k \in DOMAIN s /\ t[k] = s[k]
        \/ k >= i /\ k + 1 \in DOMAIN s /\ t[k] = s[k + 1]
  <2> TAKE k \in DOMAIN t
  <2>1. k < i => k \in 1 .. i - 1 /\ k \in 1 .. Len(s)
    BY <1>1, <1>5
  <2>2. k >= i => k \in i .. Len(s) - 1 /\ k + 1 \in 1 .. Len(s)
    BY <1>1, <1>5
  <2>3. k < i \/ k >= i
    BY <1>5
  <2> QED
    BY <1>1, <1>5, <2>1, <2>2, <2>3
<1>7. \A k \in DOMAIN s :
        \/ k < i /\ k \in DOMAIN t /\ t[k] = s[k]
        \/ k = i
        \/ k > i /\ k - 1 \in DOMAIN t /\ t[k - 1] = s[k]
  <2> TAKE k \in DOMAIN s
  <2>1. k < i => k \in 1 .. i - 1 /\ k \in 1 .. Len(s) - 1
    BY <1>1
  <2>2. k > i => k - 1 \in i .. Len(s) - 1 /\ k - 1 \in 1 .. Len(s) - 1 /\ (k - 1) + 1 = k
    BY <1>1
  <2>3. k < i \/ k = i \/ k > i
    BY <1>1
  <2> QED
    BY <1>5, <2>1, <2>2, <2>3
<1>8. Range(t) = Range(s) \ {a}
  <2>1. \A x : x \in Range(t) => x \in Range(s) /\ x # a
    <3>1. \A k \in DOMAIN t : t[k] \in Range(s)
      BY <1>6 DEF Range
    <3>2. \A k \in DOMAIN s : s[k] = s[i] => k = i
      BY <1>1 DEF IsInjective
    <3>3. \A k \in DOMAIN t : t[k] # s[i]
      BY <1>1, <1>5, <1>6, <3>2
    <3> QED
      BY <1>2, <3>1, <3>3 DEF Range
  <2>2. \A x : x \in Range(s) /\ x # a => x \in Range(t)
    BY <1>1, <1>2, <1>7 DEF Range
  <2> QED
    BY <2>1, <2>2
<1>9. IsInjective(t)
  <2> SUFFICES ASSUME NEW k \in DOMAIN t, NEW l \in DOMAIN t, t[k] = t[l] PROVE k = l
    BY DEF IsInjective
  <2> QED
    BY <1>1, <1>5, <1>6 DEF IsInjective
<1> QED
  BY <1>4, <1>5, <1>8, <1>9 DEF p, q, t

-----------------------------------------------------------------------------
(* What the parts of the invariant depend on.                              *)

LEMMA Frames ==
    ASSUME RequestInv, setting' = setting
    PROVE  /\ UNCHANGED <<mem, pendingRequests, vendor>> => ListsConsistent'
           /\ UNCHANGED <<issue, serial>> => IssueSound'
           /\ UNCHANGED <<mem, serial>> => InfoSound'
           /\ UNCHANGED vendor => CompletedOnce'
           /\ UNCHANGED <<mem, answers, acked, issue, serial>> => NewSerial'
           /\ UNCHANGED mem => OnePerSerial'
           /\ UNCHANGED <<mem, pendingRequests, issue, queue, vendor, answers>> => InHandUnanswered'
           /\ UNCHANGED <<answers, acked>> => AnsweredRight'
           /\ UNCHANGED answers => IdentityHasImei'
           /\ UNCHANGED <<mem, pendingRequests, issue, queue, vendor>> => (~Stale => TokensOwned')
           /\ UNCHANGED <<mem, acked, vendor>> => (~Stale => AckTracked')
           /\ UNCHANGED <<mem, issue, queue, vendor, Device_ID>> =>
                (setting = "calm" => ImeiAhead')
<1> USE DEF RequestInv
<1>1. UNCHANGED <<mem, pendingRequests, vendor>> => ListsConsistent'
  BY DEF ListsSound, ListsConsistent, AllLinked, Linked, Completing, Free, Socket
<1>2. UNCHANGED <<issue, serial>> => IssueSound'
  BY DEF IssueSound
<1>3. UNCHANGED <<mem, serial>> => InfoSound'
  BY DEF InfoSound
<1>4. UNCHANGED vendor => CompletedOnce'
  BY DEF CompletedOnce
<1>5. UNCHANGED <<mem, answers, acked, issue, serial>> => NewSerial'
  BY DEF NewSerial, Answered, Stale, Kind, FromFramework
<1>6. UNCHANGED mem => OnePerSerial'
  BY DEF OnePerSerial, FromFramework
<1>7. UNCHANGED <<mem, pendingRequests, issue, queue, vendor, answers>> => InHandUnanswered'
  BY DEF InHandUnanswered, Responding, Found, Socket, Sending, Answered, Stale
<1>8. UNCHANGED <<answers, acked>> => AnsweredRight'
  BY DEF AnsweredRight, AnsweredOnce, AckExpected, Stale
<1>9. UNCHANGED answers => IdentityHasImei'
  BY DEF IdentityHasImei
<1>10. UNCHANGED <<mem, pendingRequests, issue, queue, vendor>> => (~Stale => TokensOwned')
  BY DEF TokensOwned, Found, Socket, Kind, Sending
<1>11. UNCHANGED <<mem, acked, vendor>> => (~Stale => AckTracked')
  BY DEF AckTracked, FromFramework, Acking
<1>12. UNCHANGED <<mem, issue, queue, vendor, Device_ID>> => (setting = "calm" => ImeiAhead')
  BY DEF ImeiAhead, ImeiKnown, Kind
<1> QED
  BY <1>1, <1>2, <1>3, <1>4, <1>5, <1>6, <1>7, <1>8, <1>9, <1>10, <1>11, <1>12

LEMMA Assemble ==
    ASSUME setting' = setting, TypeOK', ListsConsistent', IssueSound', InfoSound', CompletedOnce',
           NewSerial', OnePerSerial', InHandUnanswered', AnsweredRight', IdentityHasImei',
           ~Stale => TokensOwned' /\ AckTracked', setting = "calm" => ImeiAhead'
    PROVE  RequestInv'
BY DEF RequestInv, ListsSound, Stale

\* The lists of kinds a dispatcher works through.
LEMMA KindFacts ==
    /\ Head(<<"plain">>) = "plain" /\ Len(<<"plain">>) = 1
    /\ Head(<<"identity">>) = "identity" /\ Len(<<"identity">>) = 1
    /\ Head(<<"local">>) = "local" /\ Len(<<"local">>) = 1
    /\ Head(<<"imei", "identity">>) = "imei" /\ Len(<<"imei", "identity">>) = 2
    /\ Tail(<<"imei", "identity">>) = <<"identity">>
    /\ \A t \in {<<"plain">>, <<"imei", "identity">>, <<"identity">>, <<"local">>} :
         t \in Seq(Kinds)
<1>1. Tail(<<"imei", "identity">>) = <<"identity">>
  <2>1. Tail(<<"imei", "identity">>) \in Seq(Kinds) /\ <<"identity">> \in Seq(Kinds)
    BY DEF Kinds
  <2>2. Len(Tail(<<"imei", "identity">>)) = 1 /\ Tail(<<"imei", "identity">>)[1] = "identity"
    BY DEF Kinds
  <2> QED
    BY <2>1, <2>2, SeqEqual
<1> QED
  BY <1>1 DEF Kinds

LEMMA AnsweredSerials == TypeOK => Answered \subseteq Serials
<1> SUFFICES ASSUME TypeOK, NEW i \in DOMAIN answers PROVE answers[i].serial \in Serials
  BY DEF Answered
<1> DEFINE R == [serial : Serials, ackExp : BOOLEAN, id : BOOLEAN]
<1>1. answers \in Seq(R)
  BY DEF TypeOK
<1>2. \A r \in R : r.serial \in Serials
  OBVIOUS
<1> HIDE DEF R
<1>3. answers[i] \in R
  BY <1>1
<1> QED
  BY <1>2, <1>3

\* An answer goes up (sendErrorResponse, responseFunction).
LEMMA AnswerFacts ==
    ASSUME TypeOK, NEW n \in Serials, NEW exp \in BOOLEAN, NEW id \in BOOLEAN, Answer(n, exp, id)
    PROVE  /\ answers' \in Seq([serial : Serials, ackExp : BOOLEAN, id : BOOLEAN])
           /\ Answered' = Answered \cup {n}
           /\ AnsweredOnce /\ n \notin Answered => AnsweredOnce'
           /\ \A i \in 1 .. Len(answers') :
                \/ answers'[i].serial = n /\ answers'[i].ackExp = exp /\ answers'[i].id = id
                \/ i \in 1 .. Len(answers) /\ answers'[i] = answers[i]
<1> DEFINE R == [serial : Serials, ackExp : BOOLEAN, id : BOOLEAN]
           r == [serial |-> n, ackExp |-> exp, id |-> id]
<1>1. answers \in Seq(R) /\ answers' = Append(answers, r) /\ r \in R
  BY DEF TypeOK, Answer
<1>2. r.serial = n /\ r.ackExp = exp /\ r.id = id
  OBVIOUS
<1> HIDE DEF R, r
<1>3. /\ answers' \in Seq(R) /\ Len(answers) \in Nat /\ Len(answers') = Len(answers) + 1
      /\ answers'[Len(answers) + 1] = r /\ \A i \in 1 .. Len(answers) : answers'[i] = answers[i]
      /\ DOMAIN answers = 1 .. Len(answers) /\ DOMAIN answers' = 1 .. Len(answers')
  BY <1>1
<1>4. \A i \in 1 .. Len(answers') :
        (i = Len(answers) + 1 /\ answers'[i] = r) \/ (i \in 1 .. Len(answers) /\ answers'[i] = answers[i])
  BY <1>3
<1>5. Answered' = Answered \cup {n}
  <2>1. \A x \in Answered' : x \in Answered \cup {n}
    BY <1>2, <1>3, <1>4 DEF Answered
  <2>2. \A x \in Answered : x \in Answered'
    BY <1>3 DEF Answered
  <2>3. n \in Answered'
    BY <1>2, <1>3 DEF Answered
  <2> QED
    BY <2>1, <2>2, <2>3
<1>6. ASSUME AnsweredOnce, n \notin Answered PROVE AnsweredOnce'
  <2>1. \A i \in 1 .. Len(answers) : answers[i].serial # n
    BY <1>3, <1>6 DEF Answered
  <2> QED
    BY <1>2, <1>4, <1>6, <2>1 DEF AnsweredOnce
<1>7. answers' \in Seq([serial : Serials, ackExp : BOOLEAN, id : BOOLEAN])
  BY <1>3 DEF R
<1> QED
  BY <1>2, <1>4, <1>5, <1>6, <1>7

\* A RequestInfo is found when it is in the list of its socket.
LEMMA FoundFacts ==
    ASSUME TypeOK, NEW a \in Infos, mem[a] # NoInfo
    PROVE  /\ mem[a].cid \in Cids /\ Socket(a) \in Sockets
           /\ Found(a) <=> a \in Linked(Socket(a))
<1>1. mem[a].cid \in Cids /\ Socket(a) \in Sockets
  BY RequestAssumption DEF TypeOK, InfoType, Socket
<1>2. pendingRequests[Socket(a)] \in Seq(Infos)
  BY <1>1 DEF TypeOK
<1>3. DOMAIN pendingRequests[Socket(a)] = 1 .. Len(pendingRequests[Socket(a)])
  BY <1>2
<1> QED
  BY <1>1, <1>3 DEF Found, Linked, Contains, Range

\* A dispatcher goes on with the rest of its list.
LEMMA NextIssueFacts ==
    ASSUME RequestInv, serial' = serial, NEW d \in Dispatchers, issue[d].pc # "idle", NextIssue(d)
    PROVE  /\ issue' \in [Dispatchers -> IssueType] /\ IssueSound'
           /\ \A e \in Dispatchers : e # d => issue'[e] = issue[e]
           /\ issue'[d].pc # "send"
           /\ issue'[d].pc # "idle" =>
                /\ d = Binder /\ Kind(d) = "imei" /\ issue'[d].todo = <<"identity">>
                /\ issue'[d].pc = "add" /\ issue'[d].cid = issue[d].cid
<1> USE RequestAssumption DEF Dispatchers
<1>1. issue \in [Dispatchers -> IssueType] /\ IssueSound
  BY DEF RequestInv, ListsSound, TypeOK
<1>2. IdleIssue \in IssueType /\ IdleIssue.pc = "idle"
  <2>1. AnyCid \in Cids /\ <<>> \in Seq(Kinds)
    BY DEF AnyCid
  <2> QED
    BY <2>1 DEF IdleIssue, IssueType
<1>3. issue[d].todo \in {<<"plain">>, <<"imei", "identity">>, <<"identity">>, <<"local">>}
  BY <1>1 DEF IssueSound
<1>4. CASE Len(issue[d].todo) = 1
  <2>1. issue' = [issue EXCEPT ![d] = IdleIssue]
    BY <1>4 DEF NextIssue
  <2> QED
    BY <1>1, <1>2, <2>1 DEF IssueSound
<1>5. CASE Len(issue[d].todo) # 1
  <2>1. d = Binder /\ issue[d].todo = <<"imei", "identity">>
    BY <1>1, <1>3, <1>5, KindFacts DEF IssueSound
  <2> DEFINE r == [issue[d] EXCEPT !.pc = "add", !.todo = <<"identity">>]
  <2>2. issue' = [issue EXCEPT ![d] = r]
    <3>1. issue' = [issue EXCEPT ![d] = [issue[d] EXCEPT !.pc = "add", !.todo = Tail(issue[d].todo)]]
      BY <1>5 DEF NextIssue
    <3>2. Tail(issue[d].todo) = <<"identity">>
      BY <2>1, KindFacts
    <3> QED
      BY <3>1, <3>2
  <2>3. r \in IssueType /\ r.pc = "add" /\ r.todo = <<"identity">> /\ r.cid = issue[d].cid
    <3>1. issue[d] \in IssueType /\ <<"identity">> \in Seq(Kinds)
      BY <1>1, KindFacts
    <3> QED
      BY <3>1 DEF IssueType
  <2>4. Kind(d) = "imei"
    BY <2>1, KindFacts DEF Kind
  <2> HIDE DEF r
  <2> QED
    BY <1>1, <2>1, <2>2, <2>3, <2>4 DEF IssueSound
<1> QED
  BY <1>4, <1>5

-----------------------------------------------------------------------------
(* One lemma per action: a new request, ...                                *)

LEMMA RequestStep ==
    ASSUME RequestInv, NEW c \in Cids, request(c)
    PROVE  RequestInv'
<1> USE RequestAssumption DEF Dispatchers
<1>0. /\ UNCHANGED <<setting, mem, pendingRequests, queue, old, vendor, Device_ID, acked, answers, locals>>
      /\ serial' = serial + 1 /\ serial < MaxReqs /\ TypeOK /\ InfoSound /\ IssueSound /\ NewSerial
  BY DEF RequestInv, ListsSound, request, memVars, vendorVars, outVars
<1>1. PICK kinds \in {<<"plain">>, <<"imei", "identity">>} :
        issue' = [issue EXCEPT ![Binder] = [@ EXCEPT !.pc = "add", !.cid = c, !.todo = kinds]]
  BY DEF request, identityKinds
<1>2. /\ issue'[Binder].pc = "add" /\ issue'[Binder].todo = kinds /\ issue'[Binder].cid = c
      /\ issue'[Unsol] = issue[Unsol]
  BY <1>0, <1>1 DEF TypeOK, IssueType
<1>3. TypeOK'
  <2>1. kinds \in Seq(Kinds)
    BY <1>1, KindFacts
  <2>2. issue' \in [Dispatchers -> IssueType]
    <3>1. [issue[Binder] EXCEPT !.pc = "add", !.cid = c, !.todo = kinds] \in IssueType
      <4>1. issue[Binder] \in IssueType
        BY <1>0 DEF TypeOK
      <4> QED
        BY <2>1, <4>1 DEF IssueType
    <3> QED
      BY <1>0, <1>1, <3>1 DEF TypeOK
  <2>3. serial' \in 0 .. MaxReqs
    BY <1>0 DEF TypeOK
  <2> QED
    BY <1>0, <2>2, <2>3 DEF TypeOK
<1>4. IssueSound'
  BY <1>0, <1>1, <1>2 DEF IssueSound, TypeOK
<1>5. InfoSound'
  BY <1>0 DEF InfoSound, TypeOK, InfoType, NoInfo, Serials, Local
<1>6. NewSerial'
  <2>1. \A n \in Answered' : n <= serial' /\ n # serial'
    <3>1. Answered' = Answered /\ Answered \subseteq Serials /\ \A n \in Answered : n <= serial
      BY <1>0, AnsweredSerials DEF Answered, NewSerial
    <3> QED
      BY <1>0, <3>1 DEF TypeOK, Serials
  <2>2. ~Stale' => \A n \in acked' : n <= serial' /\ n # serial'
    <3>1. ~Stale' => \A n \in acked' : n \in Serials \cup {Local} /\ n <= serial
      BY <1>0 DEF NewSerial, TypeOK, Stale
    <3> QED
      BY <1>0, <3>1 DEF TypeOK, Serials, Local
  <2>3. \A a \in Infos : FromFramework(a)' => mem'[a].serial # serial'
    BY <1>0 DEF InfoSound, TypeOK, InfoType, NoInfo, Serials, Local, FromFramework
  <2> QED
    BY <2>1, <2>2, <2>3 DEF NewSerial
<1>7. \A a : \A d \in Dispatchers : Sending(d, a)' => Sending(d, a)
  BY <1>2 DEF Sending
<1>8. InHandUnanswered'
  BY <1>0, <1>7 DEF RequestInv, InHandUnanswered, Responding, Found, Socket, Answered, Stale
<1>9. ~Stale => TokensOwned'
  BY <1>0, <1>2 DEF RequestInv, TokensOwned, Found, Socket, Kind, Sending
<1>10. setting = "calm" => ImeiAhead'
  <2>1. Kind(Binder)' # "identity"
    BY <1>1, <1>2, KindFacts DEF Kind
  <2> QED
    BY <1>0, <2>1 DEF RequestInv, ImeiAhead, ImeiKnown, Kind
<1> QED
  BY <1>0, <1>3, <1>4, <1>5, <1>6, <1>8, <1>9, <1>10, Frames, Assemble

LEMMA LocalRequestStep ==
    ASSUME RequestInv, NEW c \in Cids, localRequest(c)
    PROVE  RequestInv'
<1> USE RequestAssumption DEF Dispatchers
<1>0. /\ UNCHANGED <<setting, mem, pendingRequests, queue, old, vendor, Device_ID, acked, answers, serial>>
      /\ issue' = [issue EXCEPT ![Unsol] = [@ EXCEPT !.pc = "add", !.cid = c, !.todo = <<"local">>]]
      /\ TypeOK /\ locals' = locals + 1 /\ locals < MaxLocals
  BY DEF RequestInv, ListsSound, localRequest, memVars, vendorVars, outVars
<1>2. /\ issue'[Unsol].pc = "add" /\ issue'[Unsol].todo = <<"local">> /\ issue'[Binder] = issue[Binder]
  BY <1>0 DEF TypeOK, IssueType
<1>3. TypeOK'
  <2>2. issue' \in [Dispatchers -> IssueType]
    <3>1. [issue[Unsol] EXCEPT !.pc = "add", !.cid = c, !.todo = <<"local">>] \in IssueType
      <4>1. issue[Unsol] \in IssueType
        BY <1>0 DEF TypeOK
      <4> QED
        BY <4>1, KindFacts DEF IssueType
    <3> QED
      BY <1>0, <3>1 DEF TypeOK
  <2>3. locals' \in 0 .. MaxLocals
    BY <1>0 DEF TypeOK
  <2> QED
    BY <1>0, <2>2, <2>3 DEF TypeOK
<1>4. IssueSound'
  BY <1>0, <1>2 DEF IssueSound, RequestInv
<1>6. NewSerial'
  BY <1>0, <1>2 DEF NewSerial, RequestInv, Answered, Stale, Kind, FromFramework
<1>7. \A a : \A d \in Dispatchers : Sending(d, a)' => Sending(d, a)
  BY <1>2 DEF Sending
<1>8. InHandUnanswered'
  BY <1>0, <1>7 DEF RequestInv, InHandUnanswered, Responding, Found, Socket, Answered, Stale
<1>9. ~Stale => TokensOwned'
  BY <1>0, <1>2 DEF RequestInv, TokensOwned, Found, Socket, Kind, Sending
<1>10. setting = "calm" => ImeiAhead'
  BY <1>0, <1>2 DEF RequestInv, ImeiAhead, ImeiKnown, Kind
<1> QED
  BY <1>0, <1>3, <1>4, <1>6, <1>8, <1>9, <1>10, Frames, Assemble

LEMMA AddFailsStep ==
    ASSUME RequestInv, NEW d \in Dispatchers, addRequestFails(d)
    PROVE  RequestInv'
<1>0. /\ UNCHANGED <<setting, mem, pendingRequests, queue, old, vendor, Device_ID, acked, answers,
                     serial, locals>>
      /\ issue[d].pc = "add" /\ NextIssue(d) /\ setting = "noMemory"
  BY DEF addRequestFails, memVars, vendorVars, outVars, MayFail
<1>1. /\ issue' \in [Dispatchers -> IssueType] /\ IssueSound'
      /\ \A e \in Dispatchers : e # d => issue'[e] = issue[e]
      /\ issue'[d].pc # "send" /\ (issue'[d].pc # "idle" => issue'[d].pc = "add" /\ d = Binder)
  BY <1>0, NextIssueFacts
<1>2. TypeOK'
  BY <1>0, <1>1 DEF RequestInv, ListsSound, TypeOK
<1>3. NewSerial'
  <2>1. issue'[Binder].pc # "idle" /\ d # Binder => issue'[Binder] = issue[Binder]
    BY <1>1 DEF Dispatchers
  <2> QED
    BY <1>0, <1>1, <2>1 DEF RequestInv, NewSerial, Answered, Stale, Kind, FromFramework
<1>4. \A a : \A e \in Dispatchers : Sending(e, a)' => Sending(e, a)
  BY <1>1 DEF Sending
<1>5. InHandUnanswered'
  BY <1>0, <1>4 DEF RequestInv, InHandUnanswered, Responding, Found, Socket, Answered, Stale
<1>6. ~Stale => TokensOwned'
  BY <1>0, <1>1 DEF RequestInv, TokensOwned, Found, Socket, Kind, Sending
<1> QED
  BY <1>0, <1>1, <1>2, <1>3, <1>5, <1>6, Frames, Assemble

LEMMA EnqueueStep ==
    ASSUME RequestInv, NEW d \in Dispatchers, my_enqueue(d)
    PROVE  RequestInv'
<1> DEFINE a == issue[d].a
           q == issue[d].cid
<1>0. /\ UNCHANGED <<setting, mem, pendingRequests, old, vendor, Device_ID, acked, answers,
                     serial, locals>>
      /\ issue[d].pc = "send" /\ NextIssue(d)
      /\ queue' = [queue EXCEPT ![q] = Append(queue[q], a)]
  BY DEF my_enqueue, memVars, outVars
<1>1. /\ issue' \in [Dispatchers -> IssueType] /\ IssueSound'
      /\ \A e \in Dispatchers : e # d => issue'[e] = issue[e]
      /\ issue'[d].pc # "send"
      /\ issue'[d].pc # "idle" =>
           /\ d = Binder /\ Kind(d) = "imei" /\ issue'[d].todo = <<"identity">>
           /\ issue'[d].pc = "add" /\ issue'[d].cid = issue[d].cid
  BY <1>0, NextIssueFacts
<1>2. TypeOK /\ IssueSound /\ NewSerial /\ InHandUnanswered /\ (~Stale => TokensOwned)
  BY DEF RequestInv, ListsSound
<1>3. a \in Infos /\ q \in Cids /\ queue \in [Cids -> Seq(Infos)]
  BY <1>0, <1>2 DEF IssueSound, TypeOK, IssueType
<1> HIDE DEF a, q
<1>4. /\ queue' \in [Cids -> Seq(Infos)] /\ \A c \in Cids : c # q => queue'[c] = queue[c]
      /\ queue'[q] = Append(queue[q], a) /\ queue[q] \in Seq(Infos)
  <2>1. Append(queue[q], a) \in Seq(Infos) /\ queue[q] \in Seq(Infos)
    BY <1>3
  <2> QED
    BY <1>0, <1>3, <2>1
<1>5. /\ Range(queue'[q]) = Range(queue[q]) \cup {a}
      /\ IsInjective(queue[q]) /\ a \notin Range(queue[q]) => IsInjective(queue'[q])
  BY <1>3, <1>4, AppendFacts
<1>6. TypeOK'
  BY <1>0, <1>1, <1>2, <1>4 DEF TypeOK
<1>7. NewSerial'
  <2>1. d # Binder => issue'[Binder] = issue[Binder]
    BY <1>1 DEF Dispatchers
  <2> QED
    BY <1>0, <1>1, <1>2, <2>1 DEF NewSerial, Answered, Stale, Kind, FromFramework
<1>8. InHandUnanswered'
  <2>1. ASSUME NEW b \in Infos, \/ \E e \in Dispatchers : Sending(e, b)'
                                \/ \E c \in Cids : b \in Range(queue'[c])
        PROVE  \/ \E e \in Dispatchers : Sending(e, b)
               \/ \E c \in Cids : b \in Range(queue[c])
    <3>1. \A e \in Dispatchers : Sending(e, b)' => Sending(e, b)
      BY <1>1 DEF Sending
    <3>2. Sending(d, a)
      BY <1>0 DEF Sending, a
    <3>3. ASSUME NEW c \in Cids, b \in Range(queue'[c]) PROVE b \in Range(queue[c]) \/ b = a
      BY <1>4, <1>5, <3>3
    <3> QED
      BY <2>1, <3>1, <3>2, <3>3
  <2>2. \A b \in Infos : (Found(b)' <=> Found(b))
    BY <1>0 DEF Found, Socket
  <2>3. Answered' = Answered /\ (Stale' <=> Stale)
    BY <1>0 DEF Answered, Stale
  <2> QED
    BY <1>0, <1>2, <2>1, <2>2, <2>3 DEF InHandUnanswered, Responding
<1>9. ASSUME ~Stale PROVE TokensOwned'
  <2>0. TokensOwned
    BY <1>2, <1>9
  <2>1. \A b : Found(b)' <=> Found(b)
    BY <1>0 DEF Found, Socket
  <2>2. ASSUME NEW e \in Dispatchers, issue'[e].pc = "send"
        PROVE  /\ e # d /\ issue'[e] = issue[e] /\ issue[e].a # a
               /\ Kind(e)' = Kind(e)
    BY <1>0, <1>1, <2>0, <2>2 DEF TokensOwned, Sending, a, Kind
  <2>3. ASSUME NEW e \in Dispatchers, issue'[e].pc = "send"
        PROVE  /\ Found(issue[e].a)'
               /\ mem'[issue'[e].a].cid = issue'[e].cid /\ mem'[issue'[e].a].kind = Kind(e)'
               /\ ~mem'[issue'[e].a].wasAckSent
               /\ \A c \in Cids : issue'[e].a \notin Range(queue'[c])
    BY <1>0, <1>4, <1>5, <2>0, <2>1, <2>2, <2>3 DEF TokensOwned
  <2>4. \A e, f \in Dispatchers : issue'[e].pc = "send" /\ Sending(f, issue[e].a)' => e = f
    BY <2>0, <2>2 DEF TokensOwned, Sending
  <2>5. Found(a) /\ mem[a].cid = q /\ a \notin Range(queue[q])
    BY <1>0, <1>3, <2>0 DEF TokensOwned, a, q
  <2>6. \A c \in Cids : \A b \in Range(queue'[c]) : Found(b)' /\ mem'[b].cid = c
    BY <1>0, <1>4, <1>5, <2>0, <2>1, <2>5 DEF TokensOwned
  <2>7. \A c \in Cids : IsInjective(queue'[c])
    BY <1>4, <1>5, <2>0, <2>5 DEF TokensOwned
  <2>8. ASSUME NEW c \in Cids, vendor'[c].pc = "ack"
        PROVE  queue'[c] # <<>> /\ vendor'[c].a = Head(queue'[c])
    <3>1. queue[c] # <<>> /\ vendor'[c].a = Head(queue[c])
      BY <1>0, <2>0, <2>8 DEF TokensOwned
    <3>2. ASSUME NEW s \in Seq(Infos), s # <<>>
          PROVE  Append(s, a) # <<>> /\ Head(Append(s, a)) = Head(s)
      BY <1>3, <3>2
    <3> QED
      BY <1>4, <3>1, <3>2
  <2>9. \A c \in Cids : vendor'[c].pc \in {"respond", "free"} => mem'[vendor'[c].a].cid = c
    BY <1>0, <2>0 DEF TokensOwned
  <2> QED
    BY <2>3, <2>4, <2>6, <2>7, <2>8, <2>9 DEF TokensOwned
<1>10. ASSUME setting = "calm" PROVE ImeiAhead'
  <2>0. ImeiAhead /\ ~Stale /\ TokensOwned
    BY <1>2, <1>10 DEF RequestInv, Stale
  <2>1. \A c \in Cids : ImeiKnown(c)' <=> ImeiKnown(c)
    BY <1>0 DEF ImeiKnown
  <2>2. /\ Len(queue[q]) \in Nat /\ DOMAIN queue[q] = 1 .. Len(queue[q])
        /\ DOMAIN queue'[q] = 1 .. Len(queue[q]) + 1
        /\ queue'[q][Len(queue[q]) + 1] = a
        /\ \A k \in 1 .. Len(queue[q]) : queue'[q][k] = queue[q][k]
    BY <1>3, <1>4, AppendFacts
  <2>3. mem[a].kind = Kind(d)
    BY <1>0, <2>0 DEF TokensOwned, a
  <2>4. Kind(d) = "identity" => d = Binder
    BY <1>0, <1>2, KindFacts DEF IssueSound, Kind, Dispatchers
  <2>5. ASSUME NEW c \in Cids, NEW k \in DOMAIN queue'[c], mem'[queue'[c][k]].kind = "identity"
        PROVE  ImeiKnown(c)' \/ \E j \in 1 .. k - 1 : mem'[queue'[c][j]].kind = "imei"
    <3>1. CASE c # q
      BY <1>0, <1>4, <2>0, <2>1, <2>5, <3>1 DEF ImeiAhead
    <3>2. CASE c = q /\ k = Len(queue[q]) + 1
      <4>1. d = Binder
        BY <1>0, <2>2, <2>3, <2>4, <2>5, <3>2
      <4>2. ImeiKnown(q) \/ \E j \in DOMAIN queue[q] : mem[queue[q][j]].kind = "imei"
        <5>1. Kind(Binder) = "identity" /\ issue[Binder].pc # "idle" /\ q = issue[Binder].cid
          BY <1>0, <2>2, <2>3, <2>5, <3>2, <4>1 DEF q
        <5> QED
          BY <2>0, <5>1 DEF ImeiAhead
      <4>3. k - 1 = Len(queue[q])
        BY <2>2, <3>2
      <4> QED
        BY <1>0, <2>1, <2>2, <3>2, <4>2, <4>3
    <3>3. CASE c = q /\ k \in 1 .. Len(queue[q])
      <4>1. ImeiKnown(q) \/ \E j \in 1 .. k - 1 : mem[queue[q][j]].kind = "imei"
        BY <1>0, <2>0, <2>2, <2>5, <3>3 DEF ImeiAhead
      <4>2. \A j \in 1 .. k - 1 : j \in 1 .. Len(queue[q])
        BY <2>2, <3>3
      <4> QED
        BY <1>0, <2>1, <2>2, <3>3, <4>1, <4>2
    <3> QED
      BY <2>2, <2>5, <3>1, <3>2, <3>3
  <2>6. ASSUME issue'[Binder].pc # "idle", Kind(Binder)' = "identity", NEW c, c = issue'[Binder].cid
        PROVE  ImeiKnown(c)' \/ \E j \in DOMAIN queue'[c] : mem'[queue'[c][j]].kind = "imei"
    <3>0. c \in Cids
      BY <1>1, <2>6 DEF IssueType, Dispatchers
    <3>1. CASE d = Binder
      <4>1. c = q /\ mem[a].kind = "imei"
        BY <1>1, <2>3, <2>6, <3>1 DEF q
      <4> QED
        BY <1>0, <2>2, <4>1
    <3>2. CASE d # Binder
      <4>1. issue'[Binder] = issue[Binder]
        BY <1>1, <3>2 DEF Dispatchers
      <4>2. ImeiKnown(c) \/ \E j \in DOMAIN queue[c] : mem[queue[c][j]].kind = "imei"
        BY <2>0, <2>6, <4>1 DEF ImeiAhead, Kind
      <4>3. \A j \in DOMAIN queue[c] : j \in DOMAIN queue'[c] /\ queue'[c][j] = queue[c][j]
        <5>1. CASE c = q
          <6>1. \A j \in 1 .. Len(queue[q]) : j \in 1 .. Len(queue[q]) + 1
            BY <2>2
          <6> QED
            BY <2>2, <5>1, <6>1
        <5>2. CASE c # q
          BY <1>4, <3>0, <5>2
        <5> QED
          BY <5>1, <5>2
      <4> QED
        BY <1>0, <2>1, <3>0, <4>2, <4>3
    <3> QED
      BY <3>1, <3>2
  <2>7. \A c \in Cids : vendor'[c].pc = "respond" /\ mem'[vendor'[c].a].kind = "identity" =>
          c[1] \in Device_ID'
    BY <1>0, <2>0 DEF ImeiAhead
  <2> QED
    BY <2>5, <2>6, <2>7 DEF ImeiAhead
<1> QED
  BY <1>0, <1>1, <1>6, <1>7, <1>8, <1>9, <1>10, Frames, Assemble

\* The serial of a RequestInfo with a request of the framework.
LEMMA SerialFacts ==
    ASSUME TypeOK, NEW a \in Infos, mem[a] # NoInfo
    PROVE  /\ mem[a].serial \in Serials \cup {Local} /\ mem[a].serial \in Nat
           /\ mem[a].serial # Local => mem[a].serial \in Serials /\ FromFramework(a)
           /\ mem[a].kind \in Kinds /\ mem[a].wasAckSent \in BOOLEAN
<1>1. mem[a] \in [serial : Serials \cup {Local}, cid : Cids, kind : Kinds, wasAckSent : BOOLEAN]
  BY DEF TypeOK, InfoType
<1> QED
  BY <1>1 DEF Serials, Local, FromFramework

\* One more answer, to a request that has none, that demands an
\* acknowledgement when one was sent, keeps the answers right.
LEMMA AnswerStep ==
    ASSUME TypeOK, AnsweredRight, setting' = setting, acked' = acked,
           NEW n \in Serials, NEW exp \in BOOLEAN, NEW id \in BOOLEAN, Answer(n, exp, id),
           n \notin Answered, ~Stale => (exp <=> n \in acked)
    PROVE  AnsweredRight'
<1>1. AnsweredOnce'
  BY AnswerFacts DEF AnsweredRight
<1>2. ASSUME NEW i \in 1 .. Len(answers'), ~Stale
      PROVE  answers'[i].ackExp <=> answers'[i].serial \in acked'
  <2>1. CASE answers'[i].serial = n /\ answers'[i].ackExp = exp
    BY <1>2, <2>1
  <2>2. CASE i \in 1 .. Len(answers) /\ answers'[i] = answers[i]
    BY <1>2, <2>2 DEF AnsweredRight, AckExpected
  <2> QED
    BY <2>1, <2>2, AnswerFacts
<1> QED
  BY <1>1, <1>2 DEF AnsweredRight, AckExpected, Stale

LEMMA SendErrorStep ==
    ASSUME RequestInv, NEW d \in Dispatchers, sendErrorResponse(d)
    PROVE  RequestInv'
<1> DEFINE a == issue[d].a
           n == mem[issue[d].a].serial
<1>0. /\ UNCHANGED <<setting, mem, pendingRequests, queue, old, vendor, Device_ID, acked,
                     serial, locals>>
      /\ issue[d].pc = "send" /\ NextIssue(d) /\ Kind(d) = "plain" /\ setting = "noMemory"
      /\ Answer(n, FALSE, TRUE)
  BY DEF sendErrorResponse, memVars, vendorVars, MayFail
<1>1. /\ issue' \in [Dispatchers -> IssueType] /\ IssueSound'
      /\ \A e \in Dispatchers : e # d => issue'[e] = issue[e]
      /\ issue'[d].pc = "idle"
  BY <1>0, NextIssueFacts
<1>2. TypeOK /\ IssueSound /\ NewSerial /\ InHandUnanswered /\ ~Stale /\ TokensOwned /\ AckTracked
      /\ OnePerSerial /\ ListsConsistent /\ InfoSound /\ AnsweredRight /\ CompletedOnce
  BY <1>0 DEF RequestInv, ListsSound, Stale
<1>3. d = Binder
  BY <1>0, <1>2, KindFacts DEF IssueSound, Kind, Dispatchers
<1>4. /\ a \in Infos /\ Found(a) /\ mem[a] # NoInfo /\ mem[a].kind = "plain" /\ ~mem[a].wasAckSent
      /\ \A c \in Cids : a \notin Range(queue[c])
      /\ \A e \in Dispatchers : Sending(e, a) => e = d
  BY <1>0, <1>2 DEF IssueSound, TokensOwned, Found
<1>5. n \in Serials /\ FromFramework(a) /\ n <= serial
  BY <1>2, <1>4, SerialFacts DEF InfoSound
<1>6. n \notin Answered
  BY <1>0, <1>2, <1>4 DEF InHandUnanswered, Sending
<1> HIDE DEF a, n
<1>7. /\ answers' \in Seq([serial : Serials, ackExp : BOOLEAN, id : BOOLEAN])
      /\ Answered' = Answered \cup {n}
  BY <1>0, <1>2, <1>5, AnswerFacts
<1>8. TypeOK'
  BY <1>0, <1>1, <1>2, <1>7 DEF TypeOK
<1>9. AnsweredRight'
  <2>1. \A c \in Cids : ~Acking(c, a)
    <3> SUFFICES ASSUME NEW c \in Cids, Acking(c, a) PROVE FALSE
      OBVIOUS
    <3>1. queue[c] # <<>> /\ a = Head(queue[c]) /\ queue[c] \in Seq(Infos)
      BY <1>2 DEF TokensOwned, Acking, TypeOK
    <3>2. a \in Range(queue[c])
      BY <3>1, TailFacts
    <3> QED
      BY <1>4, <3>2
  <2>2. n \notin acked
    BY <1>2, <1>4, <1>5, <2>1 DEF AckTracked, a, n
  <2> QED
    BY <1>0, <1>2, <1>5, <1>6, <2>2, AnswerStep
<1>10. IdentityHasImei'
  BY <1>0 DEF IdentityHasImei
<1>11. NewSerial'
  BY <1>0, <1>1, <1>2, <1>3, <1>5, <1>7 DEF NewSerial, Stale
<1>12. InHandUnanswered'
  <2>1. \A b \in Infos : /\ Found(b)' <=> Found(b)
                         /\ \A c \in Cids : Responding(c, b)' <=> Responding(c, b)
    BY <1>0 DEF Found, Socket, Responding
  <2>2. \A b \in Infos : b # a /\ mem[b] # NoInfo => mem[b].serial # n
    BY <1>2, <1>4, <1>5, SerialFacts DEF OnePerSerial, FromFramework, n, a, Serials, Local
  <2>3. ASSUME NEW c \in Cids, NEW b \in Infos, Responding(c, b)
        PROVE  mem[b].serial \notin Answered /\ b # a /\ mem[b] # NoInfo
    <3>1. b \in Completing
      BY <2>3 DEF Completing, Responding
    <3>2. b \notin Free
      BY <1>2, <3>1 DEF ListsConsistent
    <3>3. a \notin Completing
      BY <1>2, <1>4, FoundFacts DEF ListsConsistent
    <3> QED
      BY <1>2, <2>3, <3>1, <3>2, <3>3 DEF InHandUnanswered, Free
  <2>4. ASSUME NEW b \in Infos, Found(b), \/ \E e \in Dispatchers : Sending(e, b)'
                                          \/ \E c \in Cids : b \in Range(queue[c])
        PROVE  mem[b].serial \notin Answered /\ b # a /\ mem[b] # NoInfo
    <3>1. \A e \in Dispatchers : Sending(e, b)' => Sending(e, b) /\ e # d
      BY <1>1 DEF Sending
    <3> QED
      BY <1>2, <1>4, <2>4, <3>1 DEF InHandUnanswered, Found
  <2>5. ~Stale'
    BY <1>0, <1>2 DEF Stale
  <2>6. ASSUME NEW c \in Cids, NEW b \in Infos, Responding(c, b)'
        PROVE  mem'[b].serial \notin Answered'
    BY <1>0, <1>7, <2>1, <2>2, <2>3, <2>6
  <2>7. ASSUME NEW b \in Infos, Found(b)', \/ \E e \in Dispatchers : Sending(e, b)'
                                           \/ \E c \in Cids : b \in Range(queue'[c])
        PROVE  mem'[b].serial \notin Answered'
    <3>1. mem[b].serial \notin Answered /\ b # a /\ mem[b] # NoInfo
      BY <1>0, <2>1, <2>4, <2>7
    <3> QED
      BY <1>0, <1>7, <2>2, <3>1
  <2> QED
    BY <2>5, <2>6, <2>7 DEF InHandUnanswered
<1>13. TokensOwned'
  BY <1>0, <1>1, <1>2 DEF TokensOwned, Found, Socket, Kind, Sending
<1> QED
  BY <1>0, <1>1, <1>8, <1>9, <1>10, <1>11, <1>12, <1>13, Frames, Assemble

LEMMA AddStep ==
    ASSUME RequestInv, NEW d \in Dispatchers, addRequestToList(d)
    PROVE  RequestInv'
<1> DEFINE q == issue[d].cid
           n == IF Kind(d) \in {"plain", "identity"} THEN serial ELSE Local
<1>0. PICK a \in Free :
        /\ UNCHANGED <<setting, queue, old, vendor, Device_ID, acked, answers, serial, locals>>
        /\ issue[d].pc = "add"
        /\ mem' = [mem EXCEPT ![a] = [serial |-> n, cid |-> q, kind |-> Kind(d), wasAckSent |-> FALSE]]
        /\ pendingRequests' = [pendingRequests EXCEPT ![q[1]] = <<a>> \o pendingRequests[q[1]]]
        /\ issue' = [issue EXCEPT ![d] = [issue[d] EXCEPT !.pc = "send", !.a = a]]
  BY DEF addRequestToList, vendorVars, outVars
<1>1. TypeOK /\ IssueSound /\ NewSerial /\ InHandUnanswered /\ OnePerSerial /\ ListsConsistent
      /\ InfoSound /\ CompletedOnce
  BY DEF RequestInv, ListsSound
<1>2. a \in Infos /\ mem[a] = NoInfo /\ q \in Cids /\ q[1] \in Sockets /\ issue[d] \in IssueType
  BY <1>0, <1>1, RequestAssumption DEF Free, TypeOK, IssueType
\* What is issued.
<1>3. /\ Kind(d) \in Kinds /\ n \in Serials \cup {Local}
      /\ Kind(d) \in {"plain", "identity"} => d = Binder /\ n = serial /\ serial \in Serials
      /\ Kind(d) \notin {"plain", "identity"} => n = Local /\ Kind(d) \in {"imei", "local"}
  <2>1. issue[d].todo \in {<<"plain">>, <<"imei", "identity">>, <<"identity">>, <<"local">>}
        /\ (d # Binder => issue[d].todo = <<"local">>)
    BY <1>0, <1>1 DEF IssueSound, Dispatchers
  <2>2. Kind(d) \in Kinds /\ (Kind(d) \in {"plain", "identity"} => d = Binder)
    BY <2>1, KindFacts DEF Kind, Kinds
  <2>3. d = Binder => serial \in Serials
    BY <1>0, <1>1 DEF IssueSound, TypeOK, Serials
  <2> QED
    BY <2>2, <2>3 DEF Kinds
<1>4. /\ issue'[d].pc = "send" /\ issue'[d].a = a /\ issue'[d].cid = q /\ Kind(d)' = Kind(d)
      /\ issue'[d].todo = issue[d].todo
      /\ \A e \in Dispatchers : e # d => issue'[e] = issue[e]
  BY <1>0, <1>1, <1>2 DEF TypeOK, Kind, IssueType
<1> HIDE DEF q, n
<1>5. /\ mem'[a].serial = n /\ mem'[a].cid = q /\ mem'[a].kind = Kind(d) /\ mem'[a].wasAckSent = FALSE
      /\ mem'[a] # NoInfo /\ \A b \in Infos : b # a => mem'[b] = mem[b]
  <2>1. mem \in [Infos -> InfoType]
    BY <1>1 DEF TypeOK
  <2>2. mem'[a] = [serial |-> n, cid |-> q, kind |-> Kind(d), wasAckSent |-> FALSE]
        /\ \A b \in Infos : b # a => mem'[b] = mem[b]
    BY <1>0, <1>2, <2>1
  <2>3. n # -1
    BY <1>3 DEF Serials, Local
  <2> QED
    BY <2>2, <2>3 DEF NoInfo
<1>6. TypeOK'
  <2>1. mem' \in [Infos -> InfoType]
    <3>1. [serial |-> n, cid |-> q, kind |-> Kind(d), wasAckSent |-> FALSE] \in InfoType
      BY <1>2, <1>3 DEF InfoType
    <3> QED
      BY <1>0, <1>1, <1>2, <3>1 DEF TypeOK
  <2>2. pendingRequests' \in [Sockets -> Seq(Infos)]
    <3>1. pendingRequests \in [Sockets -> Seq(Infos)]
      BY <1>1 DEF TypeOK
    <3>2. <<a>> \o pendingRequests[q[1]] \in Seq(Infos)
      BY <1>2, <3>1, PushFacts
    <3> QED
      BY <1>0, <3>1, <3>2
  <2>3. issue' \in [Dispatchers -> IssueType]
    <3>1. [issue[d] EXCEPT !.pc = "send", !.a = a] \in IssueType
      BY <1>2 DEF IssueType
    <3> QED
      BY <1>0, <1>1, <3>1 DEF TypeOK
  <2> QED
    BY <1>0, <1>1, <2>1, <2>2, <2>3 DEF TypeOK
<1>7. IssueSound'
  BY <1>0, <1>1, <1>2, <1>4 DEF IssueSound, Dispatchers
\* The lists.
<1>8. ASSUME NEW s \in Sockets
      PROVE  /\ Linked(s) \subseteq Linked(s)' /\ (s = q[1] => a \in Linked(s)')
             /\ \A b \in Linked(s)' : b \in Linked(s) \/ (b = a /\ s = q[1])
             /\ a \notin Linked(s) /\ IsInjective(pendingRequests'[s])
  <2>0. pendingRequests \in [Sockets -> Seq(Infos)] /\ IsInjective(pendingRequests[s])
    BY <1>1 DEF TypeOK, ListsConsistent
  <2>1. a \notin Linked(s)
    BY <1>1, <1>2 DEF ListsConsistent
  <2>2. CASE s # q[1]
    BY <1>0, <2>0, <2>1, <2>2 DEF Linked
  <2>3. CASE s = q[1]
    <3>1. pendingRequests'[s] = <<a>> \o pendingRequests[s] /\ pendingRequests[s] \in Seq(Infos)
      BY <1>0, <2>0, <2>3
    <3> QED
      <4>1. Linked(s)' = Linked(s) \cup {a} /\ IsInjective(pendingRequests'[s])
        BY <1>2, <2>0, <2>1, <3>1, PushFacts DEF Linked
      <4> QED
        BY <2>1, <2>3, <4>1
  <2> QED
    BY <2>2, <2>3
<1>9. a \notin Completing /\ Completing' = Completing
  BY <1>0, <1>1 DEF ListsConsistent, Completing
<1>10. ListsConsistent'
  <2>1. ASSUME NEW s \in Sockets, NEW b \in Linked(s)' PROVE mem'[b] # NoInfo /\ Socket(b)' = s
    <3>1. CASE b = a
      BY <1>5, <1>8, <2>1, <3>1 DEF Socket
    <3>2. CASE b # a
      <4>1. b \in Linked(s)
        BY <1>8, <2>1, <3>2
      <4>2. b \in Infos /\ mem[b] # NoInfo /\ Socket(b) = s
        BY <1>1, <4>1 DEF ListsConsistent, AllLinked, Free
      <4> QED
        BY <1>5, <3>2, <4>2 DEF Socket
    <3> QED
      BY <3>1, <3>2
  <2>2. Infos \ Free' = (Infos \ Free) \cup {a}
    BY <1>2, <1>5 DEF Free
  <2>3. AllLinked' = AllLinked \cup {a}
    <3>1. \A x \in AllLinked' : x \in AllLinked \cup {a}
      BY <1>8 DEF AllLinked
    <3>2. \A x \in AllLinked : x \in AllLinked'
      BY <1>8 DEF AllLinked
    <3>3. a \in AllLinked'
      BY <1>2, <1>8 DEF AllLinked
    <3> QED
      BY <3>1, <3>2, <3>3
  <2>4. \A s \in Sockets : Completing' \cap Linked(s)' = {}
    BY <1>1, <1>8, <1>9 DEF ListsConsistent
  <2>5. Infos \ Free' = Completing' \cup AllLinked'
    BY <1>1, <1>9, <2>2, <2>3 DEF ListsConsistent
  <2> QED
    BY <1>8, <2>1, <2>4, <2>5 DEF ListsConsistent
\* The serial.
<1>11. /\ n = Local \/ (n \in Serials /\ \A b \in Infos : FromFramework(b) => mem[b].serial # n)
       /\ n \notin Answered
       /\ n # Local /\ ~Stale => n \notin acked
  <2>1. CASE Kind(d) \in {"plain", "identity"}
    BY <1>0, <1>1, <1>3, <2>1 DEF NewSerial
  <2>2. CASE Kind(d) \notin {"plain", "identity"}
    BY <1>1, <1>3, <2>2, AnsweredSerials DEF Serials, Local
  <2> QED
    BY <2>1, <2>2
<1>12. \A b \in Infos : FromFramework(b)' <=> IF b = a THEN n # Local ELSE FromFramework(b)
  BY <1>5 DEF FromFramework
<1>13. InfoSound'
  <2>1. n <= serial /\ (n = Local <=> Kind(d) \in {"imei", "local"})
    BY <1>1, <1>3 DEF TypeOK, Serials, Local
  <2> QED
    BY <1>0, <1>1, <1>5, <2>1 DEF InfoSound
<1>14. OnePerSerial'
  <2> SUFFICES ASSUME NEW b \in Infos, NEW e \in Infos, FromFramework(b)', FromFramework(e)',
                      mem'[b].serial = mem'[e].serial, b # e
               PROVE  FALSE
    BY DEF OnePerSerial
  <2>1. CASE b # a /\ e # a
    BY <1>1, <1>5, <1>12, <2>1 DEF OnePerSerial
  <2>2. CASE b = a \/ e = a
    BY <1>5, <1>11, <1>12, <2>2
  <2> QED
    BY <2>1, <2>2
<1>15. NewSerial'
  <2>0. Answered' = Answered /\ (Stale' <=> Stale)
    BY <1>0 DEF Answered, Stale
  <2>1. CASE issue'[Binder].pc # "idle" /\ ~(issue'[Binder].pc = "send" /\ Kind(Binder)' # "imei")
    <3>1. issue[Binder].pc # "idle" /\ ~(issue[Binder].pc = "send" /\ Kind(Binder) # "imei")
      BY <1>0, <1>4, <2>1 DEF Dispatchers, Kind
    <3>2. n = Local
      BY <1>3, <1>4, <2>1
    <3> QED
      BY <1>0, <1>1, <1>5, <1>12, <2>0, <3>1, <3>2 DEF NewSerial
  <2>2. CASE ~(issue'[Binder].pc # "idle" /\ ~(issue'[Binder].pc = "send" /\ Kind(Binder)' # "imei"))
    BY <1>0, <1>1, <2>0, <2>2 DEF NewSerial
  <2> QED
    BY <2>1, <2>2
<1>16. \A b \in Infos : b # a => (Found(b)' <=> Found(b))
  <2> SUFFICES ASSUME NEW b \in Infos, b # a, mem[b] # NoInfo PROVE Found(b)' <=> Found(b)
    BY <1>5 DEF Found
  <2>1. Socket(b)' = Socket(b) /\ Socket(b) \in Sockets /\ mem'[b] # NoInfo
    BY <1>1, <1>5, FoundFacts DEF Socket
  <2>2. b \in Linked(Socket(b))' <=> b \in Linked(Socket(b))
    BY <1>8, <2>1 DEF Linked
  <2>3. Found(b) <=> b \in Linked(Socket(b))
    BY <1>1, FoundFacts
  <2>4. Found(b)' <=> b \in Linked(Socket(b))'
    <3>1. pendingRequests'[Socket(b)'] \in Seq(Infos)
      BY <1>6, <2>1 DEF TypeOK
    <3>2. DOMAIN pendingRequests'[Socket(b)'] = 1 .. Len(pendingRequests'[Socket(b)'])
      BY <3>1
    <3> QED
      BY <2>1, <3>2 DEF Found, Linked, Contains, Range
  <2> QED
    BY <2>2, <2>3, <2>4
<1>17. ~Found(a)
  BY <1>2 DEF Found
<1>18. InHandUnanswered'
  <2>0. Answered' = Answered /\ (Stale' <=> Stale)
    BY <1>0 DEF Answered, Stale
  <2>1. ASSUME NEW c \in Cids, NEW b \in Infos, Responding(c, b)'
        PROVE  mem'[b].serial \notin Answered'
    <3>1. Responding(c, b) /\ b # a
      BY <1>0, <1>9, <2>1 DEF Responding, Completing
    <3> QED
      BY <1>1, <1>5, <2>0, <3>1 DEF InHandUnanswered
  <2>2. ASSUME NEW b \in Infos, b # a,
               Found(b)' /\ (Stale' \/ (\E e \in Dispatchers : Sending(e, b)')
                                    \/ (\E c \in Cids : b \in Range(queue'[c])))
        PROVE  mem'[b].serial \notin Answered'
    <3>1. \A e \in Dispatchers : Sending(e, b)' => Sending(e, b)
      BY <1>4, <2>2 DEF Sending
    <3> QED
      BY <1>0, <1>1, <1>5, <1>16, <2>0, <2>2, <3>1 DEF InHandUnanswered
  <2>3. mem'[a].serial \notin Answered'
    BY <1>5, <1>11, <2>0
  <2>4. ASSUME NEW b \in Infos,
               Found(b)' /\ (Stale' \/ (\E e \in Dispatchers : Sending(e, b)')
                                    \/ (\E c \in Cids : b \in Range(queue'[c])))
        PROVE  mem'[b].serial \notin Answered'
    BY <2>2, <2>3, <2>4
  <2> QED
    BY <2>1, <2>4 DEF InHandUnanswered
\* The tokens: the new one is in nobody's hand but the dispatcher's.
<1>19. ASSUME ~Stale
       PROVE  /\ TokensOwned
              /\ \A c \in Cids : a \notin Range(queue[c]) /\ ~Acking(c, a)
              /\ \A e \in Dispatchers : issue[e].pc = "send" => issue[e].a # a
              /\ \A c \in Cids : vendor[c].pc \in {"respond", "free"} => vendor[c].a # a
  <2>0. TokensOwned
    BY <1>19 DEF RequestInv
  <2>1. \A c \in Cids : a \notin Range(queue[c])
    BY <1>17, <2>0 DEF TokensOwned
  <2>2. ASSUME NEW c \in Cids, Acking(c, a) PROVE FALSE
    <3>1. queue[c] # <<>> /\ a = Head(queue[c]) /\ queue[c] \in Seq(Infos)
      BY <1>1, <2>0, <2>2 DEF TokensOwned, Acking, TypeOK
    <3>2. a \in Range(queue[c])
      BY <3>1, TailFacts
    <3> QED
      BY <2>1, <3>2
  <2>3. \A e \in Dispatchers : issue[e].pc = "send" => issue[e].a # a
    BY <1>17, <2>0 DEF TokensOwned
  <2>4. \A c \in Cids : vendor[c].pc \in {"respond", "free"} => vendor[c].a # a
    BY <1>9 DEF Completing
  <2> QED
    BY <2>0, <2>1, <2>2, <2>3, <2>4
<1>20. Found(a)'
  <2>0. PICK s \in Sockets : s = q[1]
    BY <1>2
  <2>1. a \in Linked(s)' /\ Socket(a)' = s
    BY <1>5, <1>8, <2>0 DEF Socket
  <2>2. pendingRequests'[s] \in Seq(Infos)
    BY <1>6 DEF TypeOK
  <2>3. DOMAIN pendingRequests'[s] = 1 .. Len(pendingRequests'[s])
    BY <2>2
  <2> QED
    BY <1>5, <2>1, <2>3 DEF Found, Linked, Contains, Range
<1>21. ASSUME ~Stale PROVE TokensOwned'
  <2>0. queue \in [Cids -> Seq(Infos)] /\ \A c \in Cids : Range(queue[c]) \subseteq Infos
    BY <1>1 DEF TypeOK, Range
  <2>1. ASSUME NEW e \in Dispatchers, issue'[e].pc = "send"
        PROVE  /\ Found(issue[e].a)'
               /\ mem'[issue'[e].a].cid = issue'[e].cid /\ mem'[issue'[e].a].kind = Kind(e)'
               /\ ~mem'[issue'[e].a].wasAckSent
               /\ \A c \in Cids : issue'[e].a \notin Range(queue'[c])
    <3>1. CASE e = d
      BY <1>0, <1>4, <1>5, <1>19, <1>20, <1>21, <3>1
    <3>2. CASE e # d
      <4>1. issue'[e] = issue[e] /\ issue[e].a # a /\ issue[e].a \in Infos /\ Kind(e)' = Kind(e)
        BY <1>1, <1>4, <1>19, <1>21, <2>1, <3>2 DEF IssueSound, Kind
      <4>2. Found(issue[e].a)'
        BY <1>16, <1>19, <1>21, <2>1, <4>1 DEF TokensOwned
      <4> QED
        <5>1. mem'[issue[e].a] = mem[issue[e].a]
          BY <1>5, <4>1
        <5>2. /\ mem[issue[e].a].cid = issue[e].cid /\ mem[issue[e].a].kind = Kind(e)
              /\ ~mem[issue[e].a].wasAckSent /\ \A c \in Cids : issue[e].a \notin Range(queue[c])
          BY <1>19, <1>21, <2>1, <4>1 DEF TokensOwned
        <5> QED
          BY <1>0, <4>1, <4>2, <5>1, <5>2
    <3> QED
      BY <3>1, <3>2
  <2>2. ASSUME NEW e \in Dispatchers, NEW f \in Dispatchers, issue'[e].pc = "send",
               Sending(f, issue[e].a)'
        PROVE  e = f
    BY <1>4, <1>19, <1>21, <2>2 DEF TokensOwned, Sending
  <2>3. ASSUME NEW c \in Cids, NEW b \in Range(queue'[c]) PROVE Found(b)' /\ mem'[b].cid = c
    <3>1. b \in Range(queue[c]) /\ b # a /\ b \in Infos
      BY <1>0, <1>19, <1>21, <2>0, <2>3
    <3> QED
      BY <1>5, <1>16, <1>19, <1>21, <3>1 DEF TokensOwned
  <2>4. ASSUME NEW c \in Cids, vendor'[c].pc \in {"respond", "free"}
        PROVE  mem'[vendor'[c].a].cid = c
    BY <1>0, <1>1, <1>5, <1>19, <1>21, <2>4 DEF TokensOwned, CompletedOnce
  <2> QED
    BY <1>0, <1>19, <1>21, <2>1, <2>2, <2>3, <2>4 DEF TokensOwned
<1>22. ASSUME ~Stale PROVE AckTracked'
  <2>0. AckTracked
    BY <1>22 DEF RequestInv
  <2> SUFFICES ASSUME NEW b \in Infos, FromFramework(b)'
               PROVE  mem'[b].wasAckSent <=>
                        (mem'[b].serial \in acked' \/ \E c \in Cids : Acking(c, b)')
    BY DEF AckTracked
  <2>1. CASE b = a
    <3>1. \A c \in Cids : ~Acking(c, a)'
      BY <1>0, <1>19, <1>22 DEF Acking
    <3>2. mem'[a].serial \notin acked'
      BY <1>0, <1>5, <1>11, <1>12, <1>22, <2>1
    <3> QED
      BY <1>5, <2>1, <3>1, <3>2
  <2>2. CASE b # a
    BY <1>0, <1>5, <1>12, <2>0, <2>2 DEF AckTracked, Acking
  <2> QED
    BY <2>1, <2>2
<1>23. ASSUME setting = "calm" PROVE ImeiAhead'
  <2>0. ImeiAhead /\ ~Stale
    BY <1>23 DEF RequestInv, Stale
  <2>1. ASSUME NEW c \in Cids, NEW k \in DOMAIN queue[c]
        PROVE  queue[c][k] # a /\ queue[c][k] \in Infos /\ mem'[queue[c][k]] = mem[queue[c][k]]
    <3>1. queue[c] \in Seq(Infos)
      BY <1>1 DEF TypeOK
    <3>2. queue[c][k] \in Infos /\ queue[c][k] \in Range(queue[c])
      BY <3>1 DEF Range
    <3> QED
      BY <1>5, <1>19, <2>0, <3>2
  <2>2. ASSUME NEW c \in Cids, vendor[c].pc = "respond" PROVE mem'[vendor[c].a] = mem[vendor[c].a]
    BY <1>1, <1>5, <1>19, <2>0, <2>2 DEF CompletedOnce
  <2>3. \A c \in Cids : ImeiKnown(c)' <=> ImeiKnown(c)
    BY <1>0, <2>2 DEF ImeiKnown
  <2>4. ASSUME NEW c \in Cids, NEW k \in DOMAIN queue'[c], mem'[queue'[c][k]].kind = "identity"
        PROVE  ImeiKnown(c)' \/ \E j \in 1 .. k - 1 : mem'[queue'[c][j]].kind = "imei"
    <3>1. ImeiKnown(c) \/ \E j \in 1 .. k - 1 : mem[queue[c][j]].kind = "imei"
      BY <1>0, <2>0, <2>1, <2>4 DEF ImeiAhead
    <3>2. \A j \in 1 .. k - 1 : j \in DOMAIN queue[c]
      <4>1. queue[c] \in Seq(Infos)
        BY <1>1 DEF TypeOK
      <4>2. DOMAIN queue[c] = 1 .. Len(queue[c]) /\ Len(queue[c]) \in Nat
        BY <4>1
      <4> QED
        BY <1>0, <2>4, <4>2
    <3> QED
      BY <1>0, <2>1, <2>3, <3>1, <3>2
  <2>5. ASSUME issue'[Binder].pc # "idle", Kind(Binder)' = "identity", NEW c, c = issue'[Binder].cid
        PROVE  ImeiKnown(c)' \/ \E j \in DOMAIN queue'[c] : mem'[queue'[c][j]].kind = "imei"
    <3>1. /\ issue[Binder].pc # "idle" /\ Kind(Binder) = "identity" /\ c = issue[Binder].cid
          /\ issue[Binder] \in IssueType
      BY <1>0, <1>1, <1>4, <2>5 DEF Dispatchers, Kind, TypeOK, q
    <3>2. ImeiKnown(c) \/ \E j \in DOMAIN queue[c] : mem[queue[c][j]].kind = "imei"
      BY <2>0, <3>1 DEF ImeiAhead
    <3>3. c \in Cids
      BY <3>1 DEF IssueType
    <3> QED
      BY <1>0, <2>1, <2>3, <3>2, <3>3
  <2>6. \A c \in Cids : vendor'[c].pc = "respond" /\ mem'[vendor'[c].a].kind = "identity" =>
          c[1] \in Device_ID'
    BY <1>0, <2>0, <2>2 DEF ImeiAhead
  <2> QED
    BY <2>4, <2>5, <2>6 DEF ImeiAhead
<1> QED
  BY <1>0, <1>6, <1>7, <1>10, <1>13, <1>14, <1>15, <1>18, <1>21, <1>22, <1>23, Frames, Assemble

-----------------------------------------------------------------------------
(* ... and the vendor's callbacks.                                         *)

LEMMA ForgetFacts ==
    ASSUME TypeOK, NEW c \in Cids, NEW a \in Infos, Token(c, a), Forget(c, a)
    PROVE  /\ queue' \in [Cids -> Seq(Infos)] /\ old' \subseteq Infos
           /\ \A e \in Cids : e # c => queue'[e] = queue[e]
           /\ \A e \in Cids : Range(queue'[e]) \subseteq Range(queue[e])
           /\ ~Stale => /\ queue[c] # <<>> /\ a = Head(queue[c]) /\ queue'[c] = Tail(queue[c])
                        /\ a \in Range(queue[c])
<1>0. queue \in [Cids -> Seq(Infos)] /\ old \subseteq Infos
  BY DEF TypeOK
<1>1. CASE queue[c] # <<>> /\ a = Head(queue[c])
  <2>1. queue' = [queue EXCEPT ![c] = Tail(queue[c])] /\ old' = old /\ queue[c] \in Seq(Infos)
    BY <1>0, <1>1 DEF Forget
  <2>2. Tail(queue[c]) \in Seq(Infos) /\ Range(queue[c]) = Range(Tail(queue[c])) \cup {a}
    BY <1>1, <2>1, TailFacts
  <2>3. /\ queue' \in [Cids -> Seq(Infos)] /\ queue'[c] = Tail(queue[c])
        /\ \A e \in Cids : e # c => queue'[e] = queue[e]
    BY <1>0, <2>1, <2>2
  <2> QED
    BY <1>0, <1>1, <2>1, <2>2, <2>3
<1>2. CASE ~(queue[c] # <<>> /\ a = Head(queue[c]))
  BY <1>0, <1>2 DEF Forget, Token
<1> QED
  BY <1>1, <1>2

\* Outside "stale" the token a channel's thread acknowledges is linked and
\* is the first of its queue, and nobody completes it.
LEMMA AckingFacts ==
    ASSUME RequestInv, ~Stale, NEW c \in Cids, NEW a \in Infos,
           queue[c] # <<>>, a = Head(queue[c])
    PROVE  /\ a \in Range(queue[c]) /\ Found(a) /\ mem[a].cid = c
           /\ mem[a].serial \notin Answered /\ a \notin Completing
           /\ \A d \in Dispatchers : ~Sending(d, a)
<1>1. queue[c] \in Seq(Infos) /\ TypeOK /\ TokensOwned
  BY DEF RequestInv, ListsSound, TypeOK
<1>2. a \in Range(queue[c])
  BY <1>1, TailFacts
<1>3. Found(a) /\ mem[a].cid = c
  BY <1>1, <1>2 DEF TokensOwned
<1>4. mem[a].serial \notin Answered
  BY <1>2, <1>3 DEF RequestInv, InHandUnanswered
<1>5. a \notin Completing
  BY <1>1, <1>3, FoundFacts DEF RequestInv, ListsSound, ListsConsistent, Found
<1>6. \A d \in Dispatchers : ~Sending(d, a)
  BY <1>1, <1>2 DEF TokensOwned, Sending
<1> QED
  BY <1>2, <1>3, <1>4, <1>5, <1>6

LEMMA InvalidTokenStep ==
    ASSUME RequestInv, NEW c \in Cids, NEW a \in Infos, invalidToken(c, a)
    PROVE  RequestInv'
<1>0. /\ UNCHANGED <<setting, mem, pendingRequests, issue, vendor, Device_ID, acked, answers,
                     serial, locals>>
      /\ Token(c, a) /\ Forget(c, a) /\ ~Found(a)
  BY DEF invalidToken, memVars, outVars
<1>1. TypeOK /\ InHandUnanswered
  BY DEF RequestInv, ListsSound
<1>2. Stale
  BY <1>0, <1>1, ForgetFacts, AckingFacts
<1>3. TypeOK'
  BY <1>0, <1>1, ForgetFacts DEF TypeOK
<1>4. InHandUnanswered'
  BY <1>0, <1>1, <1>2 DEF InHandUnanswered, Stale, Found, Socket, Answered, Responding
<1>5. setting # "calm"
  BY <1>2 DEF Stale
<1> QED
  BY <1>0, <1>2, <1>3, <1>4, <1>5, Frames, Assemble

\* The IMEI stays ahead while the queues and the dispatchers rest.
LEMMA ImeiKept ==
    ASSUME TypeOK, ImeiAhead, UNCHANGED <<queue, issue>>,
           \A e \in Cids : \A b \in Range(queue[e]) : mem'[b].kind = mem[b].kind,
           \A e \in Cids : ImeiKnown(e) => ImeiKnown(e)',
           \A e \in Cids : vendor'[e].pc = "respond" /\ mem'[vendor'[e].a].kind = "identity" =>
             e[1] \in Device_ID'
    PROVE  ImeiAhead'
<1>1. \A e \in Cids : \A k \in DOMAIN queue[e] : mem'[queue[e][k]].kind = mem[queue[e][k]].kind
  BY DEF Range
<1>2. ASSUME NEW e \in Cids, NEW k \in DOMAIN queue'[e], mem'[queue'[e][k]].kind = "identity"
      PROVE  ImeiKnown(e)' \/ \E j \in 1 .. k - 1 : mem'[queue'[e][j]].kind = "imei"
  <2>1. ImeiKnown(e) \/ \E j \in 1 .. k - 1 : mem[queue[e][j]].kind = "imei"
    BY <1>1, <1>2 DEF ImeiAhead
  <2>2. \A j \in 1 .. k - 1 : j \in DOMAIN queue[e]
    <3>1. queue[e] \in Seq(Infos)
      BY DEF TypeOK
    <3>2. DOMAIN queue[e] = 1 .. Len(queue[e]) /\ Len(queue[e]) \in Nat
      BY <3>1
    <3> QED
      BY <1>2, <3>2
  <2> QED
    BY <1>1, <2>1, <2>2
<1>3. ASSUME issue'[Binder].pc # "idle", Kind(Binder)' = "identity", NEW e, e = issue'[Binder].cid
      PROVE  ImeiKnown(e)' \/ \E j \in DOMAIN queue'[e] : mem'[queue'[e][j]].kind = "imei"
  <2>1. e \in Cids
    BY <1>3 DEF TypeOK, IssueType, Dispatchers
  <2>2. ImeiKnown(e) \/ \E j \in DOMAIN queue[e] : mem[queue[e][j]].kind = "imei"
    BY <1>3 DEF ImeiAhead, Kind
  <2> QED
    BY <1>1, <2>1, <2>2
<1> QED
  BY <1>2, <1>3 DEF ImeiAhead

LEMMA AckStep ==
    ASSUME RequestInv, NEW c \in Cids, NEW a \in Infos, RIL_onRequestAck(c, a)
    PROVE  RequestInv'
<1>0. /\ UNCHANGED <<setting, pendingRequests, issue, queue, old, Device_ID, acked, answers, serial,
                     locals>>
      /\ vendor[c].pc = "idle" /\ Token(c, a) /\ Found(a)
      /\ mem' = [mem EXCEPT ![a] = [mem[a] EXCEPT !.wasAckSent = TRUE]]
      /\ vendor' = [vendor EXCEPT ![c] = [pc |-> "ack", a |-> a]]
  BY DEF RIL_onRequestAck, outVars
<1>1. TypeOK /\ IssueSound /\ NewSerial /\ InHandUnanswered /\ OnePerSerial /\ ListsConsistent
      /\ InfoSound /\ CompletedOnce
  BY DEF RequestInv, ListsSound
<1>2. /\ vendor'[c] = [pc |-> "ack", a |-> a] /\ \A e \in Cids : e # c => vendor'[e] = vendor[e]
      /\ vendor'[c].pc = "ack" /\ vendor'[c].a = a
  BY <1>0, <1>1 DEF TypeOK
<1>3. /\ mem[a] # NoInfo /\ mem'[a] # NoInfo /\ mem'[a].wasAckSent = TRUE
      /\ mem'[a].serial = mem[a].serial /\ mem'[a].cid = mem[a].cid /\ mem'[a].kind = mem[a].kind
      /\ \A b \in Infos : b # a => mem'[b] = mem[b]
      /\ mem' \in [Infos -> InfoType]
  <2>1. mem \in [Infos -> InfoType] /\ mem[a] # NoInfo
    BY <1>0, <1>1 DEF TypeOK, Found
  <2>2. mem[a] \in [serial : Serials \cup {Local}, cid : Cids, kind : Kinds, wasAckSent : BOOLEAN]
    BY <2>1 DEF InfoType
  <2> DEFINE r == [mem[a] EXCEPT !.wasAckSent = TRUE]
  <2>3. /\ r \in [serial : Serials \cup {Local}, cid : Cids, kind : Kinds, wasAckSent : BOOLEAN]
        /\ r.serial = mem[a].serial /\ r.cid = mem[a].cid /\ r.kind = mem[a].kind
        /\ r.wasAckSent = TRUE
    BY <2>2
  <2>4. r # NoInfo
    BY <2>3 DEF NoInfo, Serials, Local
  <2>5. r \in InfoType
    BY <2>3 DEF InfoType
  <2> HIDE DEF r
  <2>6. mem' = [mem EXCEPT ![a] = r]
    BY <1>0 DEF r
  <2> QED
    BY <2>1, <2>3, <2>4, <2>5, <2>6
<1>4. \A b \in Infos : /\ mem'[b].serial = mem[b].serial /\ mem'[b].cid = mem[b].cid
                       /\ mem'[b].kind = mem[b].kind /\ (mem'[b] = NoInfo <=> mem[b] = NoInfo)
  BY <1>3
<1>5. TypeOK'
  <2>1. vendor' \in [Cids -> [pc : {"idle", "ack", "respond", "free"}, a : Infos \cup {NoAddr}]]
    BY <1>0, <1>1 DEF TypeOK
  <2> QED
    BY <1>0, <1>1, <1>3, <2>1 DEF TypeOK
<1>6. Completing' = Completing
  BY <1>0, <1>2 DEF Completing
<1>7. \A b \in Infos : (Found(b)' <=> Found(b)) /\ (FromFramework(b)' <=> FromFramework(b))
  BY <1>0, <1>4 DEF Found, Socket, FromFramework
<1>8. ListsConsistent'
  <2>1. Free' = Free /\ \A s : Linked(s)' = Linked(s)
    BY <1>0, <1>4 DEF Free, Linked
  <2>2. AllLinked' = AllLinked
    BY <2>1 DEF AllLinked
  <2>3. \A s \in Sockets : \A b \in Linked(s) : b \in Infos
    BY <1>1 DEF ListsConsistent, AllLinked
  <2>4. \A s \in Sockets : \A b \in Linked(s)' : mem'[b] # NoInfo /\ Socket(b)' = s
    BY <1>1, <1>4, <2>1, <2>3 DEF ListsConsistent, Socket
  <2> QED
    BY <1>0, <1>1, <1>6, <2>1, <2>2, <2>4 DEF ListsConsistent
<1>9. InfoSound' /\ OnePerSerial'
  BY <1>0, <1>1, <1>4, <1>7 DEF InfoSound, OnePerSerial
<1>10. CompletedOnce'
  BY <1>0, <1>1, <1>2 DEF CompletedOnce
<1>11. NewSerial'
  BY <1>0, <1>1, <1>4, <1>7 DEF NewSerial, Answered, Stale, Kind
<1>12. InHandUnanswered'
  <2>1. \A e \in Cids, b \in Infos : Responding(e, b)' => Responding(e, b)
    BY <1>2 DEF Responding
  <2>2. Answered' = Answered /\ (Stale' <=> Stale)
    BY <1>0 DEF Answered, Stale
  <2>3. \A d \in Dispatchers, b \in Infos : Sending(d, b)' <=> Sending(d, b)
    BY <1>0 DEF Sending
  <2> QED
    BY <1>0, <1>1, <1>4, <1>7, <2>1, <2>2, <2>3 DEF InHandUnanswered
<1>13. ASSUME ~Stale
       PROVE  /\ TokensOwned /\ AckTracked /\ queue[c] # <<>> /\ a = Head(queue[c])
              /\ \A d \in Dispatchers : issue[d].pc = "send" => issue[d].a # a /\ issue[d].a \in Infos
              /\ \A e \in Cids : Range(queue[e]) \subseteq Infos
  <2>1. TokensOwned /\ AckTracked
    BY <1>13 DEF RequestInv
  <2>2. queue[c] # <<>> /\ a = Head(queue[c])
    BY <1>0, <1>13 DEF Token
  <2>3. \A d \in Dispatchers : ~Sending(d, a)
    BY <1>13, <2>2, AckingFacts
  <2> QED
    BY <1>1, <2>1, <2>2, <2>3 DEF Sending, IssueSound, TypeOK, Range
<1>14. ASSUME ~Stale PROVE TokensOwned'
  <2>1. ASSUME NEW d \in Dispatchers, issue'[d].pc = "send"
        PROVE  /\ Found(issue[d].a)'
               /\ mem'[issue'[d].a].cid = issue'[d].cid /\ mem'[issue'[d].a].kind = Kind(d)'
               /\ ~mem'[issue'[d].a].wasAckSent
               /\ \A e \in Cids : issue'[d].a \notin Range(queue'[e])
    <3>1. issue' = issue /\ issue[d].a # a /\ issue[d].a \in Infos /\ Kind(d)' = Kind(d)
      BY <1>0, <1>13, <1>14, <2>1 DEF Kind
    <3>2. mem'[issue[d].a] = mem[issue[d].a] /\ Found(issue[d].a)'
      BY <1>3, <1>7, <1>13, <1>14, <2>1, <3>1 DEF TokensOwned
    <3> QED
      BY <1>0, <1>13, <1>14, <2>1, <3>1, <3>2 DEF TokensOwned
  <2>2. \A d, e \in Dispatchers : issue'[d].pc = "send" /\ Sending(e, issue[d].a)' => d = e
    BY <1>0, <1>13, <1>14 DEF TokensOwned, Sending
  <2>3. \A e \in Cids : \A b \in Range(queue'[e]) : Found(b)' /\ mem'[b].cid = e
    BY <1>0, <1>4, <1>7, <1>13, <1>14 DEF TokensOwned
  <2>4. \A e \in Cids : vendor'[e].pc = "ack" => queue'[e] # <<>> /\ vendor'[e].a = Head(queue'[e])
    BY <1>0, <1>2, <1>13, <1>14 DEF TokensOwned
  <2>5. \A e \in Cids : vendor'[e].pc \in {"respond", "free"} => mem'[vendor'[e].a].cid = e
    BY <1>1, <1>2, <1>4, <1>13, <1>14 DEF TokensOwned, CompletedOnce
  <2> QED
    BY <1>0, <1>13, <1>14, <2>1, <2>2, <2>3, <2>4, <2>5 DEF TokensOwned
<1>15. ASSUME ~Stale PROVE AckTracked'
  <2>1. ASSUME NEW b \in Infos, b # a, NEW e \in Cids PROVE Acking(e, b)' <=> Acking(e, b)
    <3>1. CASE e = c
      BY <1>0, <1>2, <2>1, <3>1 DEF Acking
    <3>2. CASE e # c
      BY <1>2, <3>2 DEF Acking
    <3> QED
      BY <3>1, <3>2
  <2>2. Acking(c, a)'
    BY <1>2 DEF Acking
  <2>3. ASSUME NEW b \in Infos, FromFramework(b)'
        PROVE  mem'[b].wasAckSent <=> (mem'[b].serial \in acked' \/ \E e \in Cids : Acking(e, b)')
    <3>1. CASE b = a
      BY <1>3, <2>2, <3>1
    <3>2. CASE b # a
      BY <1>0, <1>3, <1>7, <1>13, <1>15, <2>1, <2>3, <3>2 DEF AckTracked
    <3> QED
      BY <3>1, <3>2
  <2> QED
    BY <2>3 DEF AckTracked
<1>16. ASSUME setting = "calm" PROVE ImeiAhead'
  <2>0. ImeiAhead
    BY <1>16 DEF RequestInv
  <2>1. \A e \in Cids : \A b \in Range(queue[e]) : mem'[b].kind = mem[b].kind
    BY <1>1, <1>4 DEF TypeOK, Range
  <2>2. \A e \in Cids : vendor'[e].pc = "respond" =>
          vendor'[e] = vendor[e] /\ mem'[vendor[e].a].kind = mem[vendor[e].a].kind
    BY <1>1, <1>2, <1>4 DEF CompletedOnce
  <2>3. \A e \in Cids : ImeiKnown(e) => ImeiKnown(e)'
    <3> SUFFICES ASSUME NEW e \in Cids, ImeiKnown(e) PROVE ImeiKnown(e)'
      OBVIOUS
    <3>1. vendor[e].pc = "respond" => vendor'[e] = vendor[e]
      BY <1>0, <1>2
    <3> QED
      BY <1>0, <2>2, <3>1 DEF ImeiKnown
  <2>4. \A e \in Cids : vendor'[e].pc = "respond" /\ mem'[vendor'[e].a].kind = "identity" =>
          e[1] \in Device_ID'
    BY <1>0, <2>0, <2>2 DEF ImeiAhead
  <2> QED
    BY <1>0, <1>1, <2>0, <2>1, <2>3, <2>4, ImeiKept
<1> QED
  BY <1>0, <1>5, <1>8, <1>9, <1>10, <1>11, <1>12, <1>14, <1>15, <1>16, Frames, Assemble

LEMMA AcknowledgeStep ==
    ASSUME RequestInv, NEW c \in Cids, acknowledgeRequest(c)
    PROVE  RequestInv'
<1> DEFINE a == vendor[c].a
<1>0. /\ UNCHANGED <<setting, mem, pendingRequests, issue, queue, old, Device_ID, answers, serial,
                     locals>>
      /\ vendor[c].pc = "ack" /\ vendor' = [vendor EXCEPT ![c] = IdleVendor]
  BY DEF acknowledgeRequest, memVars
<1>1. TypeOK /\ IssueSound /\ NewSerial /\ InHandUnanswered /\ OnePerSerial /\ ListsConsistent
      /\ InfoSound /\ CompletedOnce /\ AnsweredRight
  BY DEF RequestInv, ListsSound
<1>2. a \in Infos
  BY <1>0, <1>1 DEF CompletedOnce
<1>3. PICK n \in Serials \cup {Local} :
        acked' = acked \cup {n} /\ (mem[a] # NoInfo => n = mem[a].serial)
  BY <1>1, <1>2, SerialFacts DEF acknowledgeRequest
<1>4. /\ \A e \in Cids : e # c => vendor'[e] = vendor[e]
      /\ vendor'[c] = [pc |-> "idle", a |-> NoAddr] /\ vendor'[c].pc = "idle"
  BY <1>0, <1>1 DEF TypeOK, IdleVendor
<1>5. TypeOK'
  <2>1. vendor' \in [Cids -> [pc : {"idle", "ack", "respond", "free"}, a : Infos \cup {NoAddr}]]
    BY <1>0, <1>1 DEF TypeOK, IdleVendor
  <2> QED
    BY <1>0, <1>1, <1>3, <2>1 DEF TypeOK
<1>6. ListsConsistent'
  <2>1. Completing' = Completing
    BY <1>0, <1>4 DEF Completing
  <2> QED
    BY <1>0, <1>1, <2>1 DEF ListsConsistent, AllLinked, Linked, Free, Socket
<1>7. CompletedOnce'
  BY <1>1, <1>4 DEF CompletedOnce
<1>8. InHandUnanswered'
  <2>1. \A e \in Cids, b \in Infos : Responding(e, b)' => Responding(e, b)
    BY <1>4 DEF Responding
  <2> QED
    BY <1>0, <1>1, <2>1 DEF InHandUnanswered, Answered, Stale, Found, Socket, Sending
<1>9. ASSUME ~Stale
      PROVE  /\ TokensOwned /\ AckTracked /\ Found(a) /\ mem[a] # NoInfo /\ n = mem[a].serial
             /\ n \notin Answered /\ Acking(c, a)
  <2>1. TokensOwned /\ AckTracked
    BY <1>9 DEF RequestInv
  <2>2. queue[c] # <<>> /\ a = Head(queue[c])
    BY <1>0, <2>1 DEF TokensOwned
  <2>3. Acking(c, a)
    <3>1. vendor[c] \in [pc : {"idle", "ack", "respond", "free"}, a : Infos \cup {NoAddr}]
      BY <1>1 DEF TypeOK
    <3> QED
      BY <1>0, <3>1 DEF Acking
  <2> QED
    BY <1>2, <1>3, <1>9, <2>1, <2>2, <2>3, AckingFacts DEF Found
<1> HIDE DEF a
<1>10. NewSerial'
  <2>0. (Stale' <=> Stale) /\ Answered' = Answered
    BY <1>0 DEF Stale, Answered
  <2>1. ~Stale => n <= serial
    BY <1>1, <1>2, <1>9 DEF InfoSound
  <2>2. ASSUME ~Stale, serial > 0, \A b \in Infos : FromFramework(b) => mem[b].serial # serial
        PROVE  n # serial
    <3>1. n # Local => FromFramework(a)
      BY <1>2, <1>9, <2>2 DEF FromFramework
    <3> QED
      BY <1>1, <1>2, <1>9, <2>2, <3>1 DEF Local, TypeOK
  <2> QED
    BY <1>0, <1>1, <1>3, <2>0, <2>1, <2>2 DEF NewSerial, IssueSound, Kind, FromFramework
<1>11. AnsweredRight'
  <2>1. AnsweredOnce'
    BY <1>0, <1>1 DEF AnsweredRight, AnsweredOnce
  <2>2. ASSUME NEW i \in 1 .. Len(answers), ~Stale
        PROVE  answers[i].ackExp <=> answers[i].serial \in acked'
    <3>1. answers[i].serial # n
      <4>1. i \in DOMAIN answers
        <5>1. answers \in Seq([serial : Serials, ackExp : BOOLEAN, id : BOOLEAN])
          BY <1>1 DEF TypeOK
        <5> QED
          BY <5>1
      <4> QED
        BY <1>9, <2>2, <4>1 DEF Answered
    <3>2. answers[i].ackExp <=> answers[i].serial \in acked
      BY <1>1, <2>2 DEF AnsweredRight, AckExpected
    <3> QED
      BY <1>3, <3>1, <3>2
  <2> QED
    BY <1>0, <2>1, <2>2 DEF AnsweredRight, AckExpected, Stale
<1>12. ASSUME ~Stale PROVE TokensOwned'
  BY <1>0, <1>4, <1>9, <1>12 DEF TokensOwned, Found, Socket, Kind, Sending
<1>13. ASSUME ~Stale PROVE AckTracked'
  <2>1. ASSUME NEW b \in Infos, b # a, NEW e \in Cids PROVE Acking(e, b)' <=> Acking(e, b)
    <3>1. CASE e = c
      BY <1>4, <1>9, <1>13, <2>1, <3>1 DEF Acking
    <3>2. CASE e # c
      BY <1>4, <3>2 DEF Acking
    <3> QED
      BY <3>1, <3>2
  <2>2. ASSUME NEW b \in Infos, FromFramework(b)'
        PROVE  mem'[b].wasAckSent <=> (mem'[b].serial \in acked' \/ \E e \in Cids : Acking(e, b)')
    <3>0. FromFramework(b)
      BY <1>0, <2>2 DEF FromFramework
    <3>1. CASE b = a
      BY <1>0, <1>2, <1>3, <1>9, <1>13, <3>0, <3>1 DEF AckTracked
    <3>2. CASE b # a
      <4>1. mem[b].serial # n
        BY <1>1, <1>2, <1>9, <1>13, <3>0, <3>2 DEF OnePerSerial, FromFramework
      <4> QED
        BY <1>0, <1>3, <1>9, <1>13, <2>1, <3>0, <3>2, <4>1 DEF AckTracked
    <3> QED
      BY <3>1, <3>2
  <2> QED
    BY <2>2 DEF AckTracked
<1>14. ASSUME setting = "calm" PROVE ImeiAhead'
  <2>0. ImeiAhead
    BY <1>14 DEF RequestInv
  <2>1. \A e \in Cids : ImeiKnown(e) => ImeiKnown(e)'
    BY <1>0, <1>4 DEF ImeiKnown
  <2>2. \A e \in Cids : vendor'[e].pc = "respond" /\ mem'[vendor'[e].a].kind = "identity" =>
          e[1] \in Device_ID'
    BY <1>0, <1>4, <2>0 DEF ImeiAhead
  <2> QED
    BY <1>0, <1>1, <2>0, <2>1, <2>2, ImeiKept
<1> QED
  BY <1>0, <1>5, <1>6, <1>7, <1>8, <1>10, <1>11, <1>12, <1>13, <1>14, Frames, Assemble

LEMMA CompleteStep ==
    ASSUME RequestInv, NEW c \in Cids, NEW a \in Infos, RIL_onRequestComplete(c, a)
    PROVE  RequestInv'
<1>0. /\ UNCHANGED <<setting, mem, issue, Device_ID, acked, answers, serial, locals>>
      /\ vendor[c].pc = "idle" /\ Token(c, a) /\ Found(a) /\ Forget(c, a)
      /\ pendingRequests' = [pendingRequests EXCEPT
                               ![Socket(a)] = RemoveFirst(pendingRequests[Socket(a)], a)]
      /\ vendor' = [vendor EXCEPT ![c] = [pc |-> "respond", a |-> a]]
  BY DEF RIL_onRequestComplete, outVars
<1>1. TypeOK /\ IssueSound /\ NewSerial /\ InHandUnanswered /\ OnePerSerial /\ ListsConsistent
      /\ InfoSound /\ CompletedOnce
  BY DEF RequestInv, ListsSound
<1>2. /\ vendor'[c] = [pc |-> "respond", a |-> a] /\ \A e \in Cids : e # c => vendor'[e] = vendor[e]
      /\ vendor'[c].pc = "respond" /\ vendor'[c].a = a
  BY <1>0, <1>1 DEF TypeOK
<1>3. mem[a] # NoInfo /\ Socket(a) \in Sockets /\ a \in Linked(Socket(a)) /\ a \notin Completing
  BY <1>0, <1>1, FoundFacts DEF Found, ListsConsistent
<1>4. /\ queue' \in [Cids -> Seq(Infos)] /\ old' \subseteq Infos
      /\ \A e \in Cids : e # c => queue'[e] = queue[e]
      /\ \A e \in Cids : Range(queue'[e]) \subseteq Range(queue[e])
      /\ ~Stale => /\ queue[c] # <<>> /\ a = Head(queue[c]) /\ queue'[c] = Tail(queue[c])
                   /\ a \in Range(queue[c])
  BY <1>0, <1>1, ForgetFacts
\* The lists.
<1>5. /\ pendingRequests' \in [Sockets -> Seq(Infos)]
      /\ \A s \in Sockets : IsInjective(pendingRequests'[s]) /\ Linked(s)' = Linked(s) \ {a}
  <2>0. pendingRequests \in [Sockets -> Seq(Infos)]
    BY <1>1 DEF TypeOK
  <2> DEFINE l == pendingRequests[Socket(a)]
  <2>1. l \in Seq(Infos) /\ IsInjective(l) /\ a \in Range(l)
    BY <1>1, <1>3, <2>0 DEF ListsConsistent, Linked
  <2> HIDE DEF l
  <2>2. /\ RemoveFirst(l, a) \in Seq(Infos) /\ IsInjective(RemoveFirst(l, a))
        /\ Range(RemoveFirst(l, a)) = Range(l) \ {a}
    BY <2>1, RemoveFacts
  <2>3. pendingRequests' = [pendingRequests EXCEPT ![Socket(a)] = RemoveFirst(l, a)]
    BY <1>0 DEF l
  <2>4. pendingRequests' \in [Sockets -> Seq(Infos)]
    BY <2>0, <2>2, <2>3
  <2>5. ASSUME NEW s \in Sockets
        PROVE  IsInjective(pendingRequests'[s]) /\ Linked(s)' = Linked(s) \ {a}
    <3>1. CASE s = Socket(a)
      BY <1>3, <2>0, <2>2, <2>3, <3>1 DEF Linked, l
    <3>2. CASE s # Socket(a)
      <4>1. pendingRequests'[s] = pendingRequests[s]
        BY <2>0, <2>3, <3>2
      <4>2. a \notin Linked(s)
        BY <1>1, <3>2 DEF ListsConsistent
      <4> QED
        BY <1>1, <4>1, <4>2 DEF ListsConsistent, Linked
    <3> QED
      BY <3>1, <3>2
  <2> QED
    BY <2>4, <2>5
<1>6. TypeOK'
  <2>1. vendor' \in [Cids -> [pc : {"idle", "ack", "respond", "free"}, a : Infos \cup {NoAddr}]]
    BY <1>0, <1>1 DEF TypeOK
  <2> QED
    BY <1>0, <1>1, <1>4, <1>5, <2>1 DEF TypeOK
<1>7. Completing' = Completing \cup {a}
  <2>1. \A x \in Completing' : x \in Completing \cup {a}
    BY <1>2 DEF Completing
  <2>2. \A x \in Completing : x \in Completing'
    BY <1>0, <1>2 DEF Completing
  <2>3. a \in Completing'
    BY <1>2 DEF Completing
  <2> QED
    BY <2>1, <2>2, <2>3
<1>8. ListsConsistent'
  <2>1. AllLinked' = AllLinked \ {a}
    <3>1. \A x \in AllLinked' : x \in AllLinked \ {a}
      BY <1>5 DEF AllLinked
    <3>2. \A x \in AllLinked \ {a} : x \in AllLinked'
      BY <1>5 DEF AllLinked
    <3> QED
      BY <3>1, <3>2
  <2>2. Free' = Free /\ \A b : Socket(b)' = Socket(b)
    BY <1>0 DEF Free, Socket
  <2>3. a \in AllLinked
    BY <1>3 DEF AllLinked
  <2>4. Infos \ Free' = Completing' \cup AllLinked'
    BY <1>1, <1>7, <2>1, <2>2, <2>3 DEF ListsConsistent
  <2>5. \A s \in Sockets : Completing' \cap Linked(s)' = {}
    BY <1>1, <1>5, <1>7 DEF ListsConsistent
  <2>6. \A s \in Sockets : \A b \in Linked(s)' : mem'[b] # NoInfo /\ Socket(b)' = s
    BY <1>0, <1>1, <1>5, <2>2 DEF ListsConsistent
  <2> QED
    BY <1>5, <2>4, <2>5, <2>6 DEF ListsConsistent
<1>9. CompletedOnce'
  <2>1. \A e \in Cids : vendor[e].pc \in {"respond", "free"} => vendor[e].a # a
    BY <1>3 DEF Completing
  <2> QED
    BY <1>1, <1>2, <2>1 DEF CompletedOnce
<1>10. \A b \in Infos : /\ Found(b)' => Found(b)
                        /\ Found(b) /\ b # a => Found(b)'
                        /\ ~Found(a)'
  <2>1. ASSUME NEW b \in Infos, mem[b] # NoInfo
        PROVE  (Found(b) <=> b \in Linked(Socket(b))) /\ (Found(b)' <=> b \in Linked(Socket(b))')
               /\ Socket(b)' = Socket(b) /\ Socket(b) \in Sockets
    <3>1. (Found(b) <=> b \in Linked(Socket(b))) /\ Socket(b) \in Sockets
      BY <1>1, <2>1, FoundFacts
    <3>2. Socket(b)' = Socket(b)
      BY <1>0 DEF Socket
    <3>3. pendingRequests'[Socket(b)'] \in Seq(Infos)
      BY <1>5, <3>1, <3>2
    <3>4. DOMAIN pendingRequests'[Socket(b)'] = 1 .. Len(pendingRequests'[Socket(b)'])
      BY <3>3
    <3>5. Found(b)' <=> b \in Linked(Socket(b))'
      BY <1>0, <2>1, <3>4 DEF Found, Linked, Contains, Range
    <3> QED
      BY <3>1, <3>2, <3>5
  <2>2. ASSUME NEW b \in Infos, mem[b] # NoInfo
        PROVE  b \in Linked(Socket(b))' <=> b \in Linked(Socket(b)) /\ b # a
    <3>1. PICK s \in Sockets : s = Socket(b) /\ s = Socket(b)'
      BY <2>1, <2>2
    <3>2. b \in Linked(s)' <=> b \in Linked(s) /\ b # a
      BY <1>5
    <3> QED
      BY <3>1, <3>2 DEF Linked
  <2>3. \A b \in Infos : mem[b] = NoInfo => ~Found(b) /\ ~Found(b)'
    BY <1>0 DEF Found
  <2> QED
    BY <2>1, <2>2, <2>3
<1>11. InHandUnanswered'
  <2>1. mem[a].serial \notin Answered
    BY <1>0, <1>1, <1>4 DEF InHandUnanswered
  <2>2. Answered' = Answered /\ (Stale' <=> Stale)
    BY <1>0 DEF Answered, Stale
  <2>3. \A d \in Dispatchers, b \in Infos : Sending(d, b)' <=> Sending(d, b)
    BY <1>0 DEF Sending
  <2>4. \A e \in Cids, b \in Infos : Responding(e, b)' => b = a \/ Responding(e, b)
    BY <1>2 DEF Responding
  <2>5. ASSUME NEW e \in Cids, NEW b \in Infos, Responding(e, b)'
        PROVE  mem'[b].serial \notin Answered'
    BY <1>0, <1>1, <2>1, <2>2, <2>4, <2>5 DEF InHandUnanswered
  <2>6. ASSUME NEW b \in Infos,
               Found(b)' /\ (Stale' \/ (\E d \in Dispatchers : Sending(d, b)')
                                    \/ (\E e \in Cids : b \in Range(queue'[e])))
        PROVE  mem'[b].serial \notin Answered'
    BY <1>0, <1>1, <1>4, <1>10, <2>2, <2>3, <2>6 DEF InHandUnanswered
  <2> QED
    BY <2>5, <2>6 DEF InHandUnanswered
<1>12. ASSUME ~Stale
       PROVE  /\ TokensOwned /\ AckTracked /\ mem[a].cid = c
              /\ \A e \in Cids : a \notin Range(queue'[e]) /\ ~Acking(e, a)
              /\ \A d \in Dispatchers : ~Sending(d, a)
  <2>1. TokensOwned /\ AckTracked
    BY <1>12 DEF RequestInv
  <2>2. mem[a].cid = c /\ \A d \in Dispatchers : ~Sending(d, a)
    BY <1>4, <1>12, AckingFacts
  <2>3. a \notin Range(queue'[c])
    <3>1. queue[c] \in Seq(Infos)
      BY <1>1 DEF TypeOK
    <3> QED
      <4>1. /\ queue[c] # <<>> /\ a = Head(queue[c]) /\ queue'[c] = Tail(queue[c])
            /\ IsInjective(queue[c])
        BY <1>4, <1>12, <2>1 DEF TokensOwned
      <4>2. Head(queue[c]) \notin Range(Tail(queue[c]))
        BY <3>1, <4>1, TailFacts
      <4> QED
        BY <4>1, <4>2
  <2>4. \A e \in Cids : e # c => a \notin Range(queue'[e])
    BY <1>4, <2>1, <2>2 DEF TokensOwned
  <2>5. ASSUME NEW e \in Cids, Acking(e, a) PROVE FALSE
    <3>1. queue[e] # <<>> /\ a = Head(queue[e]) /\ vendor[e].pc = "ack"
      BY <2>1, <2>5 DEF TokensOwned, Acking
    <3>2. mem[a].cid = e
      BY <1>12, <3>1, AckingFacts
    <3> QED
      BY <1>0, <2>2, <3>1, <3>2
  <2> QED
    BY <2>1, <2>2, <2>3, <2>4, <2>5
<1>13. ASSUME ~Stale PROVE TokensOwned'
  <2>1. ASSUME NEW d \in Dispatchers, issue'[d].pc = "send"
        PROVE  /\ Found(issue[d].a)'
               /\ mem'[issue'[d].a].cid = issue'[d].cid /\ mem'[issue'[d].a].kind = Kind(d)'
               /\ ~mem'[issue'[d].a].wasAckSent
               /\ \A e \in Cids : issue'[d].a \notin Range(queue'[e])
    <3>1. issue' = issue /\ issue[d].a # a /\ issue[d].a \in Infos /\ Kind(d)' = Kind(d)
      BY <1>0, <1>1, <1>12, <1>13, <2>1 DEF Kind, Sending, IssueSound
    <3>2. Found(issue[d].a)'
      BY <1>10, <1>12, <1>13, <2>1, <3>1 DEF TokensOwned
    <3> QED
      BY <1>0, <1>4, <1>12, <1>13, <2>1, <3>1, <3>2 DEF TokensOwned
  <2>2. \A d, e \in Dispatchers : issue'[d].pc = "send" /\ Sending(e, issue[d].a)' => d = e
    BY <1>0, <1>12, <1>13 DEF TokensOwned, Sending
  <2>3. ASSUME NEW e \in Cids, NEW b \in Range(queue'[e]) PROVE Found(b)' /\ mem'[b].cid = e
    <3>1. b \in Range(queue[e]) /\ b # a
      BY <1>4, <1>12, <1>13, <2>3
    <3>2. b \in Infos
      BY <1>1, <3>1 DEF TypeOK, Range
    <3> QED
      BY <1>0, <1>10, <1>12, <1>13, <3>1, <3>2 DEF TokensOwned
  <2>4. \A e \in Cids : IsInjective(queue'[e])
    <3>1. queue[c] \in Seq(Infos)
      BY <1>1 DEF TypeOK
    <3>2. IsInjective(queue'[c])
      <4>1. queue[c] # <<>> /\ queue'[c] = Tail(queue[c]) /\ IsInjective(queue[c])
        BY <1>4, <1>12, <1>13 DEF TokensOwned
      <4>2. IsInjective(Tail(queue[c]))
        BY <3>1, <4>1, TailFacts
      <4> QED
        BY <4>1, <4>2
    <3> QED
      BY <1>4, <1>12, <1>13, <3>2 DEF TokensOwned
  <2>5. \A e \in Cids : vendor'[e].pc = "ack" => queue'[e] # <<>> /\ vendor'[e].a = Head(queue'[e])
    BY <1>2, <1>4, <1>12, <1>13 DEF TokensOwned
  <2>6. \A e \in Cids : vendor'[e].pc \in {"respond", "free"} => mem'[vendor'[e].a].cid = e
    BY <1>0, <1>2, <1>12, <1>13 DEF TokensOwned
  <2> QED
    BY <2>1, <2>2, <2>3, <2>4, <2>5, <2>6 DEF TokensOwned
<1>14. ASSUME ~Stale PROVE AckTracked'
  <2>1. \A b \in Infos : \A e \in Cids : Acking(e, b)' <=> Acking(e, b)
    <3>1. \A e \in Cids : e # c => \A b \in Infos : Acking(e, b)' <=> Acking(e, b)
      BY <1>2 DEF Acking
    <3>2. \A b \in Infos : ~Acking(c, b) /\ ~Acking(c, b)'
      BY <1>0, <1>2 DEF Acking
    <3> QED
      BY <3>1, <3>2
  <2> QED
    BY <1>0, <1>12, <1>14, <2>1 DEF AckTracked, FromFramework
<1>15. ASSUME setting = "calm" PROVE ImeiAhead'
  <2>0. ImeiAhead /\ ~Stale /\ queue[c] \in Seq(Infos)
    BY <1>1, <1>15 DEF RequestInv, Stale, TypeOK
  <2>1. \A e \in Cids : e # c => (ImeiKnown(e)' <=> ImeiKnown(e)) /\ queue'[e] = queue[e]
    BY <1>0, <1>2, <1>4 DEF ImeiKnown
  <2>2. /\ ImeiKnown(c) => c[1] \in Device_ID
        /\ c[1] \in Device_ID \/ mem[a].kind = "imei" => ImeiKnown(c)'
    BY <1>0, <1>2 DEF ImeiKnown
  <2>3. /\ Len(queue[c]) \in Nat /\ DOMAIN queue[c] = 1 .. Len(queue[c]) /\ Len(queue[c]) > 0
        /\ a = queue[c][1] /\ DOMAIN queue'[c] = 1 .. Len(queue[c]) - 1
        /\ \A i \in 1 .. Len(queue[c]) - 1 : queue'[c][i] = queue[c][i + 1]
    <3>1. queue[c] # <<>> /\ a = Head(queue[c]) /\ queue'[c] = Tail(queue[c])
      BY <1>4, <2>0
    <3>2. /\ Len(queue[c]) \in Nat /\ DOMAIN queue[c] = 1 .. Len(queue[c]) /\ Len(queue[c]) > 0
          /\ Head(queue[c]) = queue[c][1] /\ DOMAIN Tail(queue[c]) = 1 .. Len(queue[c]) - 1
          /\ \A i \in 1 .. Len(queue[c]) - 1 : Tail(queue[c])[i] = queue[c][i + 1]
      BY <2>0, <3>1, TailFacts
    <3> QED
      BY <3>1, <3>2
  \* The element behind the head is one place further on.
  <2>4. ASSUME NEW j \in DOMAIN queue[c], mem[queue[c][j]].kind = "imei"
        PROVE  ImeiKnown(c)' \/ (j - 1 \in DOMAIN queue'[c] /\ mem[queue'[c][j - 1]].kind = "imei")
    <3>1. CASE j = 1
      BY <2>2, <2>3, <2>4, <3>1
    <3>2. CASE j # 1
      <4>1. j - 1 \in 1 .. Len(queue[c]) - 1 /\ (j - 1) + 1 = j
        BY <2>3, <3>2
      <4> QED
        BY <2>3, <2>4, <4>1
    <3> QED
      BY <3>1, <3>2
  <2>5. ASSUME NEW e \in Cids, NEW k \in DOMAIN queue'[e], mem'[queue'[e][k]].kind = "identity"
        PROVE  ImeiKnown(e)' \/ \E j \in 1 .. k - 1 : mem'[queue'[e][j]].kind = "imei"
    <3>1. CASE e # c
      BY <1>0, <2>0, <2>1, <2>5, <3>1 DEF ImeiAhead
    <3>2. CASE e = c
      <4>1. /\ k \in 1 .. Len(queue[c]) - 1 /\ k + 1 \in DOMAIN queue[c] /\ (k + 1) - 1 = k
            /\ \A j \in 1 .. k : j \in DOMAIN queue[c] /\ (j # 1 => j - 1 \in 1 .. k - 1)
            /\ 0 \notin DOMAIN queue'[c]
        BY <2>3, <2>5, <3>2
      <4>2. mem[queue[c][k + 1]].kind = "identity"
        BY <1>0, <2>3, <2>5, <3>2, <4>1
      <4>3. ImeiKnown(c) \/ \E j \in 1 .. k : mem[queue[c][j]].kind = "imei"
        BY <2>0, <4>1, <4>2 DEF ImeiAhead
      <4>4. CASE ImeiKnown(c)
        BY <2>2, <3>2, <4>4
      <4>5. ASSUME NEW j \in 1 .. k, mem[queue[c][j]].kind = "imei"
            PROVE  ImeiKnown(c)' \/ \E i \in 1 .. k - 1 : mem'[queue'[c][i]].kind = "imei"
        <5>1. ImeiKnown(c)' \/ (j - 1 \in DOMAIN queue'[c] /\ mem[queue'[c][j - 1]].kind = "imei")
          BY <2>4, <4>1, <4>5
        <5>2. j - 1 \in DOMAIN queue'[c] => j - 1 \in 1 .. k - 1
          <6>1. j = 1 => j - 1 = 0
            OBVIOUS
          <6> QED
            BY <4>1, <6>1
        <5> QED
          BY <1>0, <5>1, <5>2
      <4> QED
        BY <3>2, <4>3, <4>4, <4>5
    <3> QED
      BY <3>1, <3>2
  <2>6. ASSUME issue'[Binder].pc # "idle", Kind(Binder)' = "identity", NEW e, e = issue'[Binder].cid
        PROVE  ImeiKnown(e)' \/ \E j \in DOMAIN queue'[e] : mem'[queue'[e][j]].kind = "imei"
    <3>0. e \in Cids
      BY <1>6, <2>6 DEF TypeOK, IssueType, Dispatchers
    <3>1. ImeiKnown(e) \/ \E j \in DOMAIN queue[e] : mem[queue[e][j]].kind = "imei"
      BY <1>0, <2>0, <2>6 DEF ImeiAhead, Kind
    <3>2. CASE e # c
      BY <1>0, <2>1, <3>0, <3>1, <3>2
    <3>3. CASE e = c
      BY <1>0, <2>2, <2>4, <3>1, <3>3
    <3> QED
      BY <3>2, <3>3
  <2>7. ASSUME NEW e \in Cids, vendor'[e].pc = "respond", mem'[vendor'[e].a].kind = "identity"
        PROVE  e[1] \in Device_ID'
    <3>1. CASE e # c
      BY <1>0, <1>2, <2>0, <2>7, <3>1 DEF ImeiAhead
    <3>2. CASE e = c
      <4>1. 1 \in DOMAIN queue[c] /\ mem[queue[c][1]].kind = "identity"
        BY <1>0, <1>2, <2>3, <2>7, <3>2
      <4>2. ImeiKnown(c) \/ \E j \in 1 .. 1 - 1 : mem[queue[c][j]].kind = "imei"
        BY <2>0, <4>1 DEF ImeiAhead
      <4> QED
        BY <1>0, <2>2, <3>2, <4>2
    <3> QED
      BY <3>1, <3>2
  <2> QED
    BY <2>5, <2>6, <2>7 DEF ImeiAhead
<1> QED
  BY <1>0, <1>6, <1>8, <1>9, <1>11, <1>13, <1>14, <1>15, Frames, Assemble

\* A thread that has told the framework, or need not, goes on to free the
\* RequestInfo.
LEMMA RespondedFacts ==
    ASSUME RequestInv, NEW c \in Cids, vendor[c].pc = "respond",
           UNCHANGED <<setting, mem, pendingRequests, issue, queue, acked, serial>>,
           vendor' = [vendor EXCEPT ![c].pc = "free"]
    PROVE  /\ vendor[c].a \in Infos /\ mem[vendor[c].a] # NoInfo /\ ~Found(vendor[c].a)
           /\ Responding(c, vendor[c].a)
           /\ vendor' \in [Cids -> [pc : {"idle", "ack", "respond", "free"}, a : Infos \cup {NoAddr}]]
           /\ vendor'[c].pc = "free" /\ vendor'[c].a = vendor[c].a
           /\ \A e \in Cids : e # c => vendor'[e] = vendor[e]
           /\ ListsConsistent' /\ CompletedOnce' /\ (~Stale => TokensOwned' /\ AckTracked')
<1>0. TypeOK /\ CompletedOnce /\ ListsConsistent
  BY DEF RequestInv, ListsSound
<1>1. vendor \in [Cids -> [pc : {"idle", "ack", "respond", "free"}, a : Infos \cup {NoAddr}]]
  BY <1>0 DEF TypeOK
<1>2. /\ vendor' \in [Cids -> [pc : {"idle", "ack", "respond", "free"}, a : Infos \cup {NoAddr}]]
      /\ vendor'[c].pc = "free" /\ vendor'[c].a = vendor[c].a
      /\ \A e \in Cids : e # c => vendor'[e] = vendor[e]
  BY <1>1
<1>3. vendor[c].a \in Infos /\ Responding(c, vendor[c].a)
  BY <1>0, <1>1 DEF CompletedOnce, Responding
<1>4. vendor[c].a \in Completing
  BY DEF Completing
<1>5. mem[vendor[c].a] # NoInfo
  BY <1>0, <1>3, <1>4 DEF ListsConsistent, Free
<1>6. ~Found(vendor[c].a)
  BY <1>0, <1>3, <1>4, <1>5, FoundFacts DEF ListsConsistent
<1>7. Completing' = Completing
  <2>1. \A e \in Cids : /\ vendor'[e].pc \in {"respond", "free"} <=> vendor[e].pc \in {"respond", "free"}
                        /\ vendor'[e].a = vendor[e].a
    BY <1>2
  <2> QED
    BY <2>1 DEF Completing
<1>8. ListsConsistent'
  BY <1>0, <1>7 DEF ListsConsistent, AllLinked, Linked, Free, Socket
<1>9. CompletedOnce'
  <2>1. \A e \in Cids : /\ vendor'[e].pc \in {"respond", "free"} <=> vendor[e].pc \in {"respond", "free"}
                        /\ vendor'[e].pc # "idle" <=> vendor[e].pc # "idle"
                        /\ vendor'[e].a = vendor[e].a
    BY <1>2
  <2> QED
    BY <1>0, <2>1 DEF CompletedOnce
<1>10. ASSUME ~Stale PROVE TokensOwned' /\ AckTracked'
  <2>0. TokensOwned /\ AckTracked
    BY <1>10 DEF RequestInv
  <2>1. \A e \in Cids, b \in Infos : Acking(e, b)' <=> Acking(e, b)
    <3>1. \A b \in Infos : ~Acking(c, b) /\ ~Acking(c, b)'
      BY <1>2 DEF Acking
    <3>2. \A e \in Cids : e # c => \A b \in Infos : Acking(e, b)' <=> Acking(e, b)
      BY <1>2 DEF Acking
    <3> QED
      BY <3>1, <3>2
  <2>2. AckTracked'
    BY <2>0, <2>1 DEF AckTracked, FromFramework
  <2>3. TokensOwned'
    <3>1. \A e \in Cids : vendor'[e].pc = "ack" => queue'[e] # <<>> /\ vendor'[e].a = Head(queue'[e])
      BY <1>2, <2>0 DEF TokensOwned
    <3>2. \A e \in Cids : vendor'[e].pc \in {"respond", "free"} => mem'[vendor'[e].a].cid = e
      BY <1>2, <2>0 DEF TokensOwned
    <3> QED
      BY <2>0, <3>1, <3>2 DEF TokensOwned, Found, Socket, Kind, Sending
  <2> QED
    BY <2>2, <2>3
<1> QED
  BY <1>2, <1>3, <1>5, <1>6, <1>8, <1>9, <1>10

LEMMA LocalResponseStep ==
    ASSUME RequestInv, NEW c \in Cids, localResponse(c)
    PROVE  RequestInv'
<1> DEFINE a == vendor[c].a
<1>0. /\ UNCHANGED <<setting, mem, pendingRequests, issue, queue, old, acked, answers, serial, locals>>
      /\ vendor[c].pc = "respond" /\ mem[a].serial = Local
      /\ vendor' = [vendor EXCEPT ![c].pc = "free"]
      /\ Device_ID' = IF mem[a].kind = "imei" THEN Device_ID \cup {mem[a].cid[1]} ELSE Device_ID
  BY DEF localResponse, memVars
<1>1. TypeOK /\ InHandUnanswered /\ CompletedOnce /\ InfoSound
  BY DEF RequestInv, ListsSound
<1>2. /\ a \in Infos /\ mem[a] # NoInfo /\ Responding(c, a)
      /\ vendor' \in [Cids -> [pc : {"idle", "ack", "respond", "free"}, a : Infos \cup {NoAddr}]]
      /\ vendor'[c].pc = "free" /\ vendor'[c].a = a
      /\ \A e \in Cids : e # c => vendor'[e] = vendor[e]
      /\ ListsConsistent' /\ CompletedOnce' /\ (~Stale => TokensOwned' /\ AckTracked')
  BY <1>0, RespondedFacts
<1>3. TypeOK'
  <2>1. mem[a].cid[1] \in Sockets
    BY <1>1, <1>2, FoundFacts DEF Socket
  <2>2. Device_ID' \subseteq Sockets
    BY <1>0, <1>1, <2>1 DEF TypeOK
  <2> QED
    BY <1>0, <1>1, <1>2, <2>2 DEF TypeOK
<1>4. InHandUnanswered'
  <2>1. \A e \in Cids, b \in Infos : Responding(e, b)' => Responding(e, b)
    BY <1>2 DEF Responding
  <2> QED
    BY <1>0, <1>1, <2>1 DEF InHandUnanswered, Answered, Stale, Found, Socket, Sending
<1>5. ASSUME setting = "calm" PROVE ImeiAhead'
  <2>0. ImeiAhead /\ TokensOwned
    BY <1>5 DEF RequestInv, Stale
  <2>1. mem[a].cid = c
    BY <1>0, <2>0 DEF TokensOwned
  <2>2. \A e \in Cids : ImeiKnown(e) => ImeiKnown(e)'
    <3> SUFFICES ASSUME NEW e \in Cids, ImeiKnown(e) PROVE ImeiKnown(e)'
      OBVIOUS
    <3>1. Device_ID \subseteq Device_ID'
      BY <1>0
    <3>2. CASE e[1] \in Device_ID
      BY <3>1, <3>2 DEF ImeiKnown
    <3>3. CASE vendor[e].pc = "respond" /\ mem[vendor[e].a].kind = "imei"
      BY <1>0, <1>2, <2>1, <3>3 DEF ImeiKnown
    <3> QED
      BY <3>2, <3>3 DEF ImeiKnown
  <2>3. \A e \in Cids : vendor'[e].pc = "respond" /\ mem'[vendor'[e].a].kind = "identity" =>
          e[1] \in Device_ID'
    BY <1>0, <1>2, <2>0 DEF ImeiAhead
  <2> QED
    BY <1>0, <1>1, <2>0, <2>2, <2>3, ImeiKept
<1> QED
  BY <1>0, <1>2, <1>3, <1>4, <1>5, Frames, Assemble

LEMMA ResponseStep ==
    ASSUME RequestInv, NEW c \in Cids, responseFunction(c)
    PROVE  RequestInv'
<1> DEFINE a == vendor[c].a
           n == mem[vendor[c].a].serial
           exp == mem[vendor[c].a].wasAckSent
           id == (mem[vendor[c].a].kind = "identity" => mem[vendor[c].a].cid[1] \in Device_ID)
<1>0. /\ UNCHANGED <<setting, mem, pendingRequests, issue, queue, old, Device_ID, acked, serial, locals>>
      /\ vendor[c].pc = "respond" /\ n # Local
      /\ vendor' = [vendor EXCEPT ![c].pc = "free"]
      /\ Answer(n, exp, id)
  BY DEF responseFunction, memVars
<1>1. TypeOK /\ InHandUnanswered /\ CompletedOnce /\ InfoSound /\ OnePerSerial /\ NewSerial
      /\ ListsConsistent /\ AnsweredRight /\ IdentityHasImei
  BY DEF RequestInv, ListsSound
<1>2. /\ a \in Infos /\ mem[a] # NoInfo /\ Responding(c, a) /\ ~Found(a)
      /\ vendor' \in [Cids -> [pc : {"idle", "ack", "respond", "free"}, a : Infos \cup {NoAddr}]]
      /\ vendor'[c].pc = "free" /\ vendor'[c].a = a
      /\ \A e \in Cids : e # c => vendor'[e] = vendor[e]
      /\ ListsConsistent' /\ CompletedOnce' /\ (~Stale => TokensOwned' /\ AckTracked')
  BY <1>0, RespondedFacts
<1>3. n \in Serials /\ FromFramework(a) /\ n <= serial /\ exp \in BOOLEAN /\ id \in BOOLEAN
  BY <1>0, <1>1, <1>2, SerialFacts DEF InfoSound
<1>4. n \notin Answered
  BY <1>1, <1>2 DEF InHandUnanswered
<1>5. ~Stale => (exp <=> n \in acked)
  <2> SUFFICES ASSUME ~Stale PROVE exp <=> n \in acked
    OBVIOUS
  <2>0. TokensOwned /\ AckTracked
    BY DEF RequestInv
  <2>1. ASSUME NEW e \in Cids, Acking(e, a) PROVE FALSE
    <3>1. queue[e] # <<>> /\ a = Head(queue[e])
      BY <2>0, <2>1 DEF TokensOwned, Acking
    <3> QED
      BY <1>2, <3>1, AckingFacts
  <2> QED
    BY <1>2, <1>3, <2>0, <2>1 DEF AckTracked
<1>6. ASSUME setting = "calm" PROVE id = TRUE
  <2>1. ImeiAhead /\ TokensOwned
    BY <1>6 DEF RequestInv, Stale
  <2>2. mem[a].cid = c
    BY <1>0, <2>1 DEF TokensOwned
  <2> QED
    BY <1>0, <2>1, <2>2 DEF ImeiAhead
<1> HIDE DEF n, exp, id
<1>7. /\ answers' \in Seq([serial : Serials, ackExp : BOOLEAN, id : BOOLEAN])
      /\ Answered' = Answered \cup {n}
      /\ \A i \in 1 .. Len(answers') :
           \/ answers'[i].serial = n /\ answers'[i].ackExp = exp /\ answers'[i].id = id
           \/ i \in 1 .. Len(answers) /\ answers'[i] = answers[i]
  BY <1>0, <1>1, <1>3, AnswerFacts
<1>8. TypeOK'
  BY <1>0, <1>1, <1>2, <1>7 DEF TypeOK
<1>9. AnsweredRight'
  BY <1>0, <1>1, <1>3, <1>4, <1>5, AnswerStep
<1>10. IdentityHasImei'
  <2> SUFFICES ASSUME setting = "calm", NEW i \in 1 .. Len(answers') PROVE answers'[i].id
    BY <1>0 DEF IdentityHasImei
  <2>1. id = TRUE /\ \A j \in 1 .. Len(answers) : answers[j].id
    BY <1>1, <1>6 DEF IdentityHasImei
  <2> QED
    BY <1>7, <2>1
<1>11. NewSerial'
  <2>1. (Stale' <=> Stale) /\ serial' = serial /\ Kind(Binder)' = Kind(Binder)
    BY <1>0 DEF Stale, Kind
  <2>2. \A x \in Answered' : x <= serial
    BY <1>1, <1>3, <1>7 DEF NewSerial
  <2>3. (\A b \in Infos : FromFramework(b) => mem[b].serial # serial) => n # serial
    BY <1>2, <1>3 DEF n
  <2> QED
    BY <1>0, <1>1, <1>7, <2>1, <2>2, <2>3 DEF NewSerial, FromFramework
<1>12. InHandUnanswered'
  <2>1. \A b \in Infos : b # a /\ mem[b] # NoInfo => mem[b].serial # n
    BY <1>1, <1>2, <1>3, SerialFacts DEF OnePerSerial, FromFramework, n, Serials, Local
  <2>2. ASSUME NEW e \in Cids, NEW b \in Infos, Responding(e, b)'
        PROVE  mem'[b].serial \notin Answered'
    <3>1. Responding(e, b) /\ e # c
      BY <1>2, <2>2 DEF Responding
    <3>2. b # a
      BY <1>0, <1>1, <3>1 DEF CompletedOnce, Responding
    <3>3. mem[b] # NoInfo
      BY <1>1, <3>1 DEF ListsConsistent, Free, Completing, Responding
    <3>4. mem[b].serial \notin Answered
      BY <1>1, <3>1 DEF InHandUnanswered
    <3> QED
      BY <1>0, <1>7, <2>1, <3>2, <3>3, <3>4
  <2>3. ASSUME NEW b \in Infos,
               Found(b)' /\ (Stale' \/ (\E d \in Dispatchers : Sending(d, b)')
                                    \/ (\E e \in Cids : b \in Range(queue'[e])))
        PROVE  mem'[b].serial \notin Answered'
    <3>1. /\ Found(b) /\ (Stale \/ (\E d \in Dispatchers : Sending(d, b))
                                \/ (\E e \in Cids : b \in Range(queue[e])))
      BY <1>0, <2>3 DEF Found, Socket, Sending, Stale
    <3>2. b # a /\ mem[b] # NoInfo /\ mem[b].serial \notin Answered
      BY <1>1, <1>2, <3>1 DEF InHandUnanswered, Found
    <3> QED
      BY <1>0, <1>7, <2>1, <3>2
  <2> QED
    BY <2>2, <2>3 DEF InHandUnanswered
<1>13. ASSUME setting = "calm" PROVE ImeiAhead'
  <2>0. ImeiAhead
    BY <1>13 DEF RequestInv
  <2>1. \A e \in Cids : ImeiKnown(e) => ImeiKnown(e)'
    <3>1. mem[a].kind # "imei"
      BY <1>1, <1>2, <1>3 DEF InfoSound, FromFramework
    <3> QED
      BY <1>0, <1>2, <3>1 DEF ImeiKnown
  <2>2. \A e \in Cids : vendor'[e].pc = "respond" /\ mem'[vendor'[e].a].kind = "identity" =>
          e[1] \in Device_ID'
    BY <1>0, <1>2, <2>0 DEF ImeiAhead
  <2> QED
    BY <1>0, <1>1, <2>0, <2>1, <2>2, ImeiKept
<1> QED
  BY <1>0, <1>2, <1>8, <1>9, <1>10, <1>11, <1>12, <1>13, Frames, Assemble

LEMMA FreeStep ==
    ASSUME RequestInv, NEW c \in Cids, freeRequest(c)
    PROVE  RequestInv'
<1>0. PICK a \in Infos :
        /\ a = vendor[c].a /\ vendor[c].pc = "free"
        /\ UNCHANGED <<setting, pendingRequests, issue, queue, Device_ID, acked, answers, serial, locals>>
        /\ mem' = [mem EXCEPT ![a] = NoInfo] /\ (old' = old \/ old' = old \cup {a})
        /\ vendor' = [vendor EXCEPT ![c] = IdleVendor]
  BY DEF RequestInv, CompletedOnce, freeRequest, outVars
<1>1. TypeOK /\ IssueSound /\ InHandUnanswered /\ CompletedOnce /\ InfoSound /\ OnePerSerial
      /\ NewSerial /\ ListsConsistent
  BY DEF RequestInv, ListsSound
<1>2. /\ vendor'[c] = [pc |-> "idle", a |-> NoAddr] /\ vendor'[c].pc = "idle"
      /\ \A e \in Cids : e # c => vendor'[e] = vendor[e]
  BY <1>0, <1>1 DEF TypeOK, IdleVendor
<1>3. mem'[a] = NoInfo /\ \A b \in Infos : b # a => mem'[b] = mem[b]
  BY <1>0, <1>1 DEF TypeOK
<1>4. TypeOK'
  <2>1. mem' \in [Infos -> InfoType]
    BY <1>0, <1>1 DEF TypeOK, InfoType
  <2>2. vendor' \in [Cids -> [pc : {"idle", "ack", "respond", "free"}, a : Infos \cup {NoAddr}]]
    BY <1>0, <1>1 DEF TypeOK, IdleVendor
  <2> QED
    BY <1>0, <1>1, <2>1, <2>2 DEF TypeOK
\* Nobody else has the RequestInfo.
<1>5. /\ a \in Completing /\ mem[a] # NoInfo /\ ~Found(a)
      /\ \A s \in Sockets : a \notin Linked(s)
      /\ \A e \in Cids : e # c /\ vendor[e].pc \in {"respond", "free"} => vendor[e].a # a
  <2>1. a \in Completing
    BY <1>0 DEF Completing
  <2>2. mem[a] # NoInfo /\ \A s \in Sockets : a \notin Linked(s)
    BY <1>1, <2>1 DEF ListsConsistent, Free
  <2>3. ~Found(a)
    BY <1>1, <2>2, FoundFacts
  <2>4. \A e \in Cids : e # c /\ vendor[e].pc \in {"respond", "free"} => vendor[e].a # a
    BY <1>0, <1>1 DEF CompletedOnce
  <2> QED
    BY <2>1, <2>2, <2>3, <2>4
<1>6. Completing' = Completing \ {a}
  <2>1. \A x \in Completing' : x \in Completing \ {a}
    BY <1>2, <1>5 DEF Completing
  <2>2. \A x \in Completing \ {a} : x \in Completing'
    BY <1>0, <1>2 DEF Completing
  <2> QED
    BY <2>1, <2>2
<1>7. ListsConsistent'
  <2>1. \A s \in Sockets : Linked(s)' = Linked(s)
    BY <1>0 DEF Linked
  <2>2. AllLinked' = AllLinked /\ a \notin AllLinked
    BY <1>5, <2>1 DEF AllLinked
  <2>3. Infos \ Free' = (Infos \ Free) \ {a}
    BY <1>3 DEF Free
  <2>4. Infos \ Free' = Completing' \cup AllLinked'
    BY <1>1, <1>6, <2>2, <2>3 DEF ListsConsistent
  <2>5. \A s \in Sockets : \A b \in Linked(s) : b \in Infos /\ b # a
    BY <1>1, <1>5 DEF ListsConsistent, AllLinked
  <2>6. \A s \in Sockets : \A b \in Linked(s)' : mem'[b] # NoInfo /\ Socket(b)' = s
    BY <1>1, <1>3, <2>1, <2>5 DEF ListsConsistent, Socket
  <2>7. \A s \in Sockets : IsInjective(pendingRequests'[s]) /\ Completing' \cap Linked(s)' = {}
    BY <1>0, <1>1, <1>6, <2>1 DEF ListsConsistent
  <2> QED
    BY <2>4, <2>6, <2>7 DEF ListsConsistent
<1>8. \A b \in Infos : /\ FromFramework(b)' => FromFramework(b) /\ b # a
                       /\ Found(b)' <=> Found(b)
                       /\ Found(b) => b # a
  <2>1. \A b \in Infos : FromFramework(b)' => FromFramework(b) /\ b # a
    BY <1>3 DEF FromFramework
  <2>2. \A b \in Infos : b # a => (Found(b)' <=> Found(b))
    BY <1>0, <1>3 DEF Found, Socket
  <2>3. ~Found(a)'
    BY <1>3 DEF Found
  <2> QED
    BY <1>5, <2>1, <2>2, <2>3
<1>9. InfoSound' /\ OnePerSerial'
  <2>1. InfoSound'
    BY <1>0, <1>1, <1>3 DEF InfoSound
  <2>2. OnePerSerial'
    BY <1>1, <1>3, <1>8 DEF OnePerSerial
  <2> QED
    BY <2>1, <2>2
<1>10. CompletedOnce'
  BY <1>1, <1>2 DEF CompletedOnce
<1>11. NewSerial'
  BY <1>0, <1>1, <1>3, <1>8 DEF NewSerial, Answered, Stale, Kind
<1>12. InHandUnanswered'
  <2>1. \A e \in Cids, b \in Infos : Responding(e, b)' => Responding(e, b) /\ b # a
    <3> SUFFICES ASSUME NEW e \in Cids, NEW b \in Infos, Responding(e, b)'
                 PROVE  Responding(e, b) /\ b # a
      OBVIOUS
    <3>1. e # c
      BY <1>2 DEF Responding
    <3> QED
      BY <1>2, <1>5, <3>1 DEF Responding
  <2>2. Answered' = Answered /\ (Stale' <=> Stale)
    BY <1>0 DEF Answered, Stale
  <2>3. \A d \in Dispatchers, b \in Infos : Sending(d, b)' <=> Sending(d, b)
    BY <1>0 DEF Sending
  <2>4. ASSUME NEW e \in Cids, NEW b \in Infos, Responding(e, b)'
        PROVE  mem'[b].serial \notin Answered'
    BY <1>1, <1>3, <2>1, <2>2, <2>4 DEF InHandUnanswered
  <2>5. ASSUME NEW b \in Infos,
               Found(b)' /\ (Stale' \/ (\E d \in Dispatchers : Sending(d, b)')
                                    \/ (\E e \in Cids : b \in Range(queue'[e])))
        PROVE  mem'[b].serial \notin Answered'
    BY <1>0, <1>1, <1>3, <1>8, <2>2, <2>3, <2>5 DEF InHandUnanswered
  <2> QED
    BY <2>4, <2>5 DEF InHandUnanswered
<1>13. ASSUME ~Stale
       PROVE  TokensOwned /\ AckTracked /\ \A e \in Cids : Range(queue[e]) \subseteq Infos \ {a}
  <2>1. TokensOwned /\ AckTracked
    BY <1>13 DEF RequestInv
  <2>2. \A e \in Cids : Range(queue[e]) \subseteq Infos
    BY <1>1 DEF TypeOK, Range
  <2> QED
    BY <1>5, <2>1, <2>2 DEF TokensOwned
<1>14. ASSUME ~Stale PROVE TokensOwned'
  <2>1. ASSUME NEW d \in Dispatchers, issue'[d].pc = "send"
        PROVE  /\ Found(issue[d].a)'
               /\ mem'[issue'[d].a].cid = issue'[d].cid /\ mem'[issue'[d].a].kind = Kind(d)'
               /\ ~mem'[issue'[d].a].wasAckSent
               /\ \A e \in Cids : issue'[d].a \notin Range(queue'[e])
    <3>1. issue' = issue /\ issue[d].a \in Infos /\ Kind(d)' = Kind(d) /\ Found(issue[d].a)
      BY <1>0, <1>1, <1>13, <1>14, <2>1 DEF Kind, IssueSound, TokensOwned
    <3>2. mem'[issue[d].a] = mem[issue[d].a] /\ Found(issue[d].a)'
      BY <1>3, <1>8, <3>1
    <3> QED
      BY <1>0, <1>13, <1>14, <2>1, <3>1, <3>2 DEF TokensOwned
  <2>2. \A d, e \in Dispatchers : issue'[d].pc = "send" /\ Sending(e, issue[d].a)' => d = e
    BY <1>0, <1>13, <1>14 DEF TokensOwned, Sending
  <2>3. \A e \in Cids : \A b \in Range(queue'[e]) : Found(b)' /\ mem'[b].cid = e
    BY <1>0, <1>3, <1>8, <1>13, <1>14 DEF TokensOwned
  <2>4. \A e \in Cids : vendor'[e].pc = "ack" => queue'[e] # <<>> /\ vendor'[e].a = Head(queue'[e])
    BY <1>0, <1>2, <1>13, <1>14 DEF TokensOwned
  <2>5. ASSUME NEW e \in Cids, vendor'[e].pc \in {"respond", "free"} PROVE mem'[vendor'[e].a].cid = e
    <3>1. e # c /\ vendor'[e] = vendor[e]
      BY <1>2, <2>5
    <3>2. vendor[e].a # a /\ vendor[e].a \in Infos
      BY <1>1, <1>5, <2>5, <3>1 DEF CompletedOnce
    <3> QED
      BY <1>3, <1>13, <1>14, <2>5, <3>1, <3>2 DEF TokensOwned
  <2> QED
    BY <1>0, <1>13, <1>14, <2>1, <2>2, <2>3, <2>4, <2>5 DEF TokensOwned
<1>15. ASSUME ~Stale PROVE AckTracked'
  <2>1. \A e \in Cids, b \in Infos : Acking(e, b)' <=> Acking(e, b)
    <3>1. \A b \in Infos : ~Acking(c, b) /\ ~Acking(c, b)'
      BY <1>0, <1>2 DEF Acking
    <3>2. \A e \in Cids : e # c => \A b \in Infos : Acking(e, b)' <=> Acking(e, b)
      BY <1>2 DEF Acking
    <3> QED
      BY <3>1, <3>2
  <2> QED
    BY <1>0, <1>3, <1>8, <1>13, <1>15, <2>1 DEF AckTracked
<1>16. ASSUME setting = "calm" PROVE ImeiAhead'
  <2>0. ImeiAhead /\ ~Stale
    BY <1>16 DEF RequestInv, Stale
  <2>1. \A e \in Cids : \A b \in Range(queue[e]) : mem'[b].kind = mem[b].kind
    BY <1>3, <1>13, <2>0
  <2>2. ASSUME NEW e \in Cids, vendor[e].pc = "respond" \/ vendor'[e].pc = "respond"
        PROVE  vendor'[e] = vendor[e] /\ mem'[vendor[e].a] = mem[vendor[e].a]
    <3>1. e # c /\ vendor'[e] = vendor[e]
      BY <1>0, <1>2, <2>2
    <3>2. vendor[e].a # a /\ vendor[e].a \in Infos
      BY <1>1, <1>5, <2>2, <3>1 DEF CompletedOnce
    <3> QED
      BY <1>3, <3>1, <3>2
  <2>3. \A e \in Cids : ImeiKnown(e) => ImeiKnown(e)'
    BY <1>0, <2>2 DEF ImeiKnown
  <2>4. \A e \in Cids : vendor'[e].pc = "respond" /\ mem'[vendor'[e].a].kind = "identity" =>
          e[1] \in Device_ID'
    BY <1>0, <2>0, <2>2 DEF ImeiAhead
  <2> QED
    BY <1>0, <1>1, <2>0, <2>1, <2>3, <2>4, ImeiKept
<1> QED
  BY <1>0, <1>4, <1>7, <1>9, <1>10, <1>11, <1>12, <1>14, <1>15, <1>16, Frames, Assemble

-----------------------------------------------------------------------------
(* The theorems.                                                           *)

LEMMA InitInv == Init => RequestInv
<1> SUFFICES ASSUME Init PROVE RequestInv
  OBVIOUS
<1> USE RequestAssumption DEF Init, Dispatchers
<1>0. /\ AnyCid \in Cids /\ <<>> \in Seq(Kinds) /\ <<>> \in Seq(Infos)
      /\ <<>> \in Seq([serial : Serials, ackExp : BOOLEAN, id : BOOLEAN])
  BY DEF AnyCid
<1>1. /\ \A d \in Dispatchers : issue[d].pc = "idle"
      /\ \A c \in Cids : vendor[c].pc = "idle" /\ queue[c] = <<>> /\ Range(queue[c]) = {}
      /\ \A a \in Infos : mem[a] = NoInfo /\ ~FromFramework(a)
      /\ \A s \in Sockets : Linked(s) = {}
      /\ Answered = {} /\ Len(answers) = 0
  BY DEF IdleIssue, IdleVendor, FromFramework, Linked, Range, Answered
<1>2. TypeOK
  <2>1. IdleIssue \in IssueType
    BY <1>0 DEF IdleIssue, IssueType
  <2>2. vendor \in [Cids -> [pc : {"idle", "ack", "respond", "free"}, a : Infos \cup {NoAddr}]]
    BY DEF IdleVendor
  <2> QED
    BY <1>0, <2>1, <2>2 DEF TypeOK, InfoType
<1>3. ListsConsistent
  <2>1. Completing = {} /\ AllLinked = {} /\ Infos \ Free = {}
    BY <1>1 DEF Completing, AllLinked, Free
  <2> QED
    BY <1>1, <2>1 DEF ListsConsistent, IsInjective
<1>4. IssueSound /\ InfoSound /\ CompletedOnce /\ NewSerial /\ OnePerSerial
  BY <1>1 DEF IssueSound, InfoSound, CompletedOnce, NewSerial, OnePerSerial
<1>5. InHandUnanswered /\ AnsweredRight /\ IdentityHasImei
  BY <1>1 DEF InHandUnanswered, AnsweredRight, AnsweredOnce, AckExpected, IdentityHasImei
<1>6. TokensOwned /\ AckTracked
  BY <1>1 DEF TokensOwned, AckTracked, IsInjective
<1>7. ImeiAhead
  BY <1>1 DEF ImeiAhead
<1> QED
  BY <1>2, <1>3, <1>4, <1>5, <1>6, <1>7 DEF RequestInv, ListsSound

\* Every step keeps the requests apart: the invariant is inductive, in every
\* setting, for any number of sockets, channels, addresses and requests.
LEMMA Invariance == Spec => []RequestInv
<1>1. RequestInv /\ [Next]_vars => RequestInv'
  <2> SUFFICES ASSUME RequestInv, [Next]_vars PROVE RequestInv'
    OBVIOUS
  <2>1. CASE UNCHANGED vars
    <3>1. UNCHANGED <<setting, mem, pendingRequests, issue, queue, old, vendor, Device_ID, acked,
                      answers, serial, locals>>
      BY <2>1 DEF vars, memVars, vendorVars, outVars
    <3>2. TypeOK'
      BY <3>1 DEF RequestInv, ListsSound, TypeOK
    <3> QED
      BY <3>1, <3>2, Frames, Assemble
  <2>2. ASSUME NEW c \in Cids, request(c) \/ localRequest(c) PROVE RequestInv'
    BY <2>2, RequestStep, LocalRequestStep
  <2>3. ASSUME NEW d \in Dispatchers,
               IssueStep(d) \/ addRequestFails(d) \/ sendErrorResponse(d)
        PROVE  RequestInv'
    BY <2>3, AddStep, EnqueueStep, AddFailsStep, SendErrorStep DEF IssueStep
  <2>4. ASSUME NEW c \in Cids, VendorStep(c) PROVE RequestInv'
    BY <2>4, AcknowledgeStep, LocalResponseStep, ResponseStep, FreeStep DEF VendorStep
  <2>5. ASSUME NEW c \in Cids, Complete(c) PROVE RequestInv'
    BY <2>5, CompleteStep, InvalidTokenStep DEF Complete
  <2>6. ASSUME NEW c \in Cids, NEW a \in Infos, RIL_onRequestAck(c, a) PROVE RequestInv'
    BY <2>6, AckStep
  <2> QED
    BY <2>1, <2>2, <2>3, <2>4, <2>5, <2>6 DEF Next
<1> QED
  BY <1>1, InitInv, PTL DEF Spec

\* Each pending list holds exactly the live requests of its socket that no
\* thread completes, each once, whatever tokens the vendor uses again
\* (addRequestToList, checkAndDequeueRequestInfoIfAck).
THEOREM ListsStaySound == Spec => []ListsSound
<1>1. RequestInv => ListsSound
  BY DEF RequestInv
<1> QED
  BY <1>1, Invariance, PTL

\* No request is answered twice, and the framework is asked to acknowledge
\* an answer exactly when it got an acknowledgement (RIL_onRequestComplete,
\* RIL_onRequestAck, sendErrorResponse).
THEOREM AnswersStayRight == Spec => []AnsweredRight
<1>1. RequestInv => AnsweredRight
  BY DEF RequestInv
<1> QED
  BY <1>1, Invariance, PTL

\* The device identity is never answered before the IMEI is known, since its
\* request follows the IMEI request on the same channel (getDeviceIdentity).
THEOREM IdentityAfterImei == Spec => []IdentityHasImei
<1>1. RequestInv => IdentityHasImei
  BY DEF RequestInv
<1> QED
  BY <1>1, Invariance, PTL
=============================================================================
