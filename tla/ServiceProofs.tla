--------------------------- MODULE ServiceProofs ----------------------------
(***************************************************************************)
(* Proofs about the services that keep state for client processes: the      *)
(* interfaces of data calls, the requests of the SIM access service, the    *)
(* NITZ cache, the arguments of a radio request and the pool of GuiExt, for *)
(* any number of calls, requests, clients, keys, arguments and pool items.  *)
(***************************************************************************)
EXTENDS MCServices, SequenceTheorems, FiniteSetTheorems, WellFoundedInduction, TLAPS

-----------------------------------------------------------------------------
(* Data calls.                                                             *)

\* The first of some entries is one of them.
LEMMA FirstEntry ==
    ASSUME NEW S \in SUBSET (1..4), S # {}
    PROVE  Data!Min(S) \in S
<1>1. \E x \in S : \A y \in S : x <= y
  <2>1. CASE 1 \in S
    BY <2>1
  <2>2. CASE 1 \notin S /\ 2 \in S
    BY <2>2
  <2>3. CASE 1 \notin S /\ 2 \notin S /\ 3 \in S
    BY <2>3
  <2>4. CASE 1 \notin S /\ 2 \notin S /\ 3 \notin S
    <3>1. PICK x \in S : TRUE
      OBVIOUS
    <3>2. \A y \in S : y \in 1..4 /\ y # 1 /\ y # 2 /\ y # 3
      BY <2>4
    <3>3. \A y \in S : y = 4
      BY <3>2
    <3> QED
      BY <3>1, <3>3
  <2> QED
    BY <2>1, <2>2, <2>3, <2>4
<1> QED
  BY <1>1 DEF Data!Min

\* Whatever happens to data calls, the table, the calls that are up and the one
\* on its way agree as long as the setups do not meet.
LEMMA DataStep ==
    ASSUME Data!InterfaceInv, Data!Next
    PROVE  Data!InterfaceInv'
<1> USE DataAssumption DEF Data!InterfaceInv, Data!TypeOK, Data!NoCid, Data!Entries
<1>0. /\ Data!Free \in SUBSET (1..4)
      /\ Data!Free # {} => Data!Min(Data!Free) \in Data!Free
  BY FirstEntry DEF Data!Free
<1>1. /\ Data!Free = {} => Data!InterfaceId = 0 /\ Data!Slot = 5
      /\ Data!Free # {} => Data!InterfaceId \in Data!Free /\ Data!Slot = Data!InterfaceId
      /\ \A i \in 1..4 : i \in Data!Free <=> dataCallCids[i] = -1
  BY <1>0 DEF Data!InterfaceId, Data!Slot, Data!Free
<1>2. Data!InterfaceId \in 0..4 /\ Data!Slot \in 1..5
  <2>1. CASE Data!Free = {}
    BY <1>1, <2>1
  <2>2. CASE Data!Free # {}
    <3>1. Data!InterfaceId \in 1..4
      BY <1>0, <1>1, <2>2
    <3> QED
      BY <1>1, <2>2, <3>1
  <2> QED
    BY <2>1, <2>2
<1>3. CASE Data!setupDataCall
  <2>1. dataCallCids' = dataCallCids /\ live' = live
    BY <1>3 DEF Data!setupDataCall
  <2>2. Data!InterfaceId' = Data!InterfaceId
    BY <2>1 DEF Data!InterfaceId, Data!Free
  <2>3. asked' = Append(asked, Data!InterfaceId) /\ asked' \in Seq(0..4) /\ Len(asked') = Len(asked) + 1
    BY <1>2, <1>3 DEF Data!setupDataCall
  <2>4. Data!TypeOK'
    BY <1>3, <2>1, <2>3 DEF Data!setupDataCall
  <2>5. calm' => calm /\ asked' = <<Data!InterfaceId>>
    <3>1. calm' => calm /\ asked = <<>>
      BY <1>3 DEF Data!setupDataCall
    <3>2. Append(<<>>, Data!InterfaceId) = <<Data!InterfaceId>>
      OBVIOUS
    <3> QED
      BY <2>3, <3>1, <3>2
  <2> QED
    BY <2>1, <2>2, <2>4, <2>5 DEF Data!AskedIsFree, Data!InterfacesExact
<1>4. CASE Data!setupDataCallFails
  <2>1. dataCallCids' = dataCallCids /\ live' = live /\ calm' = calm /\ setups' = setups
    BY <1>4 DEF Data!setupDataCallFails
  <2>2. asked' = Tail(asked) /\ asked # <<>>
    BY <1>4 DEF Data!setupDataCallFails
  <2>3. asked' \in Seq(0..4) /\ Len(asked') <= MaxAsked
    BY <2>2
  <2>4. calm' => asked' = <<>>
    BY <2>1, <2>2 DEF Data!AskedIsFree
  <2> QED
    BY <2>1, <2>3, <2>4 DEF Data!AskedIsFree, Data!InterfacesExact
<1>5. ASSUME NEW cid \in Cids, Data!setupDataCallResponse(cid)
      PROVE  Data!InterfaceInv'
  <2>1. /\ asked' = Tail(asked) /\ asked # <<>> /\ cid \notin DOMAIN live
        /\ dataCallCids' = [dataCallCids EXCEPT ![Data!Slot] = cid]
        /\ live' = [c \in DOMAIN live \cup {cid} |-> IF c = cid THEN Head(asked) ELSE live[c]]
        /\ setups' = setups /\ calm' = calm
    BY <1>5 DEF Data!setupDataCallResponse
  <2>2. asked' \in Seq(0..4) /\ Len(asked') <= MaxAsked /\ Head(asked) \in 0..4
    BY <2>1
  <2>3. /\ DOMAIN live' = DOMAIN live \cup {cid} /\ live'[cid] = Head(asked)
        /\ \A c \in DOMAIN live : live'[c] = live[c]
    BY <2>1
  <2>4. /\ dataCallCids' \in [1..5 -> Cids \cup {-1}] /\ dataCallCids'[Data!Slot] = cid
        /\ \A i \in 1..5 : i # Data!Slot => dataCallCids'[i] = dataCallCids[i]
    BY <1>2, <2>1
  <2>5. Data!TypeOK'
    BY <2>1, <2>2, <2>3, <2>4
  <2>6. ASSUME calm
        PROVE  asked' = <<>> /\ Head(asked) = Data!InterfaceId
    BY <2>1, <2>6 DEF Data!AskedIsFree
  <2>7. ASSUME calm, NEW i \in 1..4, dataCallCids'[i] # -1
        PROVE  dataCallCids'[i] \in DOMAIN live' /\ live'[dataCallCids'[i]] = i
    <3>1. CASE i = Data!Slot
      BY <1>1, <2>3, <2>4, <2>6, <2>7, <3>1
    <3>2. CASE i # Data!Slot
      BY <2>1, <2>3, <2>4, <2>7, <3>2 DEF Data!InterfacesExact
    <3> QED
      BY <3>1, <3>2
  <2>8. ASSUME calm, NEW c \in DOMAIN live', live'[c] # 0
        PROVE  dataCallCids'[live'[c]] = c
    <3>1. CASE c = cid
      BY <1>1, <2>3, <2>4, <2>6, <2>8, <3>1
    <3>2. CASE c # cid
      <4>1. c \in DOMAIN live /\ live'[c] = live[c] /\ live[c] \in 1..4 /\ dataCallCids[live[c]] = c
        BY <2>3, <2>8, <3>2 DEF Data!InterfacesExact
      <4>2. live[c] # Data!Slot
        BY <1>1, <4>1
      <4> QED
        BY <2>4, <4>1, <4>2
    <3> QED
      BY <3>1, <3>2
  <2> QED
    BY <2>1, <2>5, <2>6, <2>7, <2>8 DEF Data!AskedIsFree, Data!InterfacesExact
<1>6. ASSUME NEW cid \in Cids, Data!deactivateDataCall(cid)
      PROVE  Data!InterfaceInv'
  <2>1. /\ cid \in DOMAIN live /\ dataCallCids' = Data!Clear(cid)
        /\ live' = [c \in DOMAIN live \ {cid} |-> live[c]]
        /\ calm' = (calm /\ asked = <<>>) /\ asked' = asked /\ setups' = setups
    BY <1>6 DEF Data!deactivateDataCall
  <2> DEFINE found == {i \in 1..4 : dataCallCids[i] = cid}
  <2>2. /\ found = {} => dataCallCids' = dataCallCids
        /\ found # {} => Data!Min(found) \in found /\ dataCallCids' = [dataCallCids EXCEPT ![Data!Min(found)] = -1]
    BY <2>1, FirstEntry DEF Data!Clear
  <2>3. /\ dataCallCids' \in [1..5 -> Cids \cup {-1}]
        /\ \A i \in 1..5 : dataCallCids'[i] \in {dataCallCids[i], -1}
        /\ \A i \in 1..5 : dataCallCids[i] # cid => dataCallCids'[i] = dataCallCids[i]
    BY <2>2
  <2>4. /\ DOMAIN live' = DOMAIN live \ {cid}
        /\ \A c \in DOMAIN live' : live'[c] = live[c]
    BY <2>1
  <2>5. Data!TypeOK'
    BY <2>1, <2>3, <2>4
  <2>6. ASSUME calm, NEW i \in 1..4, dataCallCids'[i] # -1
        PROVE  dataCallCids'[i] \in DOMAIN live' /\ live'[dataCallCids'[i]] = i
    <3>1. dataCallCids'[i] = dataCallCids[i]
      BY <2>3, <2>6
    <3>2. dataCallCids[i] # cid
      <4> SUFFICES ASSUME dataCallCids[i] = cid
                   PROVE  FALSE
        OBVIOUS
      <4>1. \A j \in found : j = i
        BY <2>6, <3>1 DEF Data!InterfacesExact
      <4> QED
        BY <2>2, <2>6, <4>1
    <3> QED
      BY <2>4, <2>6, <3>1, <3>2 DEF Data!InterfacesExact
  <2>7. ASSUME calm, NEW c \in DOMAIN live', live'[c] # 0
        PROVE  dataCallCids'[live'[c]] = c
    BY <2>3, <2>4, <2>7 DEF Data!InterfacesExact
  <2>8. calm' => calm /\ asked' = <<>>
    BY <2>1
  <2> QED
    BY <2>5, <2>6, <2>7, <2>8 DEF Data!AskedIsFree, Data!InterfacesExact
<1> QED
  BY <1>3, <1>4, <1>5, <1>6 DEF Data!Next

\* setupDataCall, setupDataCallResponse and deactivateDataCall: as long as no setup
\* meets another or a deactivation on its way, an entry of dataCallCids is occupied
\* by the call that was given its number, and no two calls have one interface.
THEOREM InterfacesAgree == Spec => []InterfacesExact
<1>1. Init => Data!InterfaceInv
  BY DataAssumption DEF Init, Data!Init, Data!InterfaceInv, Data!TypeOK, Data!InterfacesExact,
     Data!AskedIsFree, Data!NoCid, Data!Entries
<1>2. Data!InterfaceInv /\ [Next]_vars => Data!InterfaceInv'
  <2> SUFFICES ASSUME Data!InterfaceInv, [Next]_vars
               PROVE  Data!InterfaceInv'
    OBVIOUS
  <2>1. CASE Data!Next
    BY <2>1, DataStep
  <2>2. CASE UNCHANGED dataVars
    BY <2>2 DEF dataVars, Data!InterfaceInv, Data!TypeOK, Data!InterfacesExact, Data!AskedIsFree,
       Data!InterfaceId, Data!Free
  <2>3. Data!Next \/ UNCHANGED dataVars
    BY DEF Next, vars, InNitz
  <2> QED
    BY <2>1, <2>2, <2>3
<1>3. Data!InterfaceInv => InterfacesExact
  BY DEF Data!InterfaceInv, InterfacesExact
<1> QED
  BY <1>1, <1>2, <1>3, PTL DEF Spec

-----------------------------------------------------------------------------
(* The SIM access service.                                                 *)

\* A queue with a new request at its front (enqueue).
LEMMA FrontFacts ==
    ASSUME NEW S, NEW s \in Seq(S), NEW a \in S
    PROVE  /\ <<a>> \o s \in Seq(S)
           /\ Sap!Range(<<a>> \o s) = Sap!Range(s) \cup {a}
           /\ Sap!IsInjective(s) /\ a \notin Sap!Range(s) => Sap!IsInjective(<<a>> \o s)
<1> DEFINE t == <<a>> \o s
<1>1. /\ t \in Seq(S) /\ Len(t) = Len(s) + 1 /\ Len(s) \in Nat
      /\ t[1] = a /\ \A i \in 1 .. Len(s) : t[i + 1] = s[i]
  OBVIOUS
<1>2. DOMAIN t = 1 .. Len(s) + 1 /\ DOMAIN s = 1 .. Len(s)
  OBVIOUS
<1>3. \A i \in DOMAIN t : i = 1 \/ (i - 1 \in DOMAIN s /\ t[i] = s[i - 1])
  BY <1>1, <1>2
<1>4. \A i \in DOMAIN s : i + 1 \in DOMAIN t /\ t[i + 1] = s[i]
  BY <1>1, <1>2
<1>5. 1 \in DOMAIN t
  BY <1>1, <1>2
<1> HIDE DEF t
<1>6. Sap!Range(t) = Sap!Range(s) \cup {a}
  <2>1. \A x : x \in Sap!Range(t) => x \in Sap!Range(s) \cup {a}
    BY <1>1, <1>3 DEF Sap!Range
  <2>2. \A x : x \in Sap!Range(s) \cup {a} => x \in Sap!Range(t)
    BY <1>1, <1>4, <1>5 DEF Sap!Range
  <2> QED
    BY <2>1, <2>2
<1>7. Sap!IsInjective(s) /\ a \notin Sap!Range(s) => Sap!IsInjective(t)
  <2> SUFFICES ASSUME Sap!IsInjective(s), a \notin Sap!Range(s),
                      NEW i \in DOMAIN t, NEW j \in DOMAIN t, t[i] = t[j]
               PROVE  i = j
    BY DEF Sap!IsInjective
  <2>1. i = 1 => j = 1
    BY <1>1, <1>3 DEF Sap!Range
  <2>2. j = 1 => i = 1
    BY <1>1, <1>3 DEF Sap!Range
  <2>3. i # 1 /\ j # 1 => i - 1 = j - 1
    BY <1>3 DEF Sap!IsInjective
  <2> QED
    BY <1>2, <1>1, <2>1, <2>2, <2>3
<1> QED
  BY <1>1, <1>6, <1>7 DEF t

\* A sequence without the entry at one place of it.
LEMMA CutPlaces ==
    ASSUME NEW S, NEW s \in Seq(S), NEW k \in DOMAIN s
    PROVE  LET t == Sap!RemoveAt(s, k)
           IN  /\ t \in Seq(S) /\ Len(t) = Len(s) - 1 /\ DOMAIN t = 1 .. Len(s) - 1
               /\ \A i \in 1 .. Len(s) - 1 : t[i] = IF i < k THEN s[i] ELSE s[i + 1]
<1> DEFINE t == Sap!RemoveAt(s, k)
           u == SubSeq(s, 1, k - 1)
           v == SubSeq(s, k + 1, Len(s))
<1>1. Len(s) \in Nat /\ DOMAIN s = 1 .. Len(s) /\ k \in 1 .. Len(s)
  OBVIOUS
<1>2. u \in Seq(S) /\ Len(u) = k - 1 /\ \A i \in 1 .. k - 1 : u[i] = s[i]
  BY <1>1
<1>3. v \in Seq(S) /\ Len(v) = Len(s) - k /\ \A i \in 1 .. Len(s) - k : v[i] = s[k + i]
  BY <1>1
<1> HIDE DEF u, v
<1>4. t = u \o v
  BY DEF Sap!RemoveAt, u, v
<1>5. /\ t \in Seq(S) /\ Len(t) = Len(u) + Len(v) /\ DOMAIN t = 1 .. Len(t)
      /\ \A i \in 1 .. Len(u) + Len(v) : t[i] = IF i <= Len(u) THEN u[i] ELSE v[i - Len(u)]
  BY <1>2, <1>3, <1>4, ConcatProperties
<1> HIDE DEF t
<1>6. (k - 1) + (Len(s) - k) = Len(s) - 1
  BY <1>1
<1>7. ASSUME NEW i \in 1 .. Len(s) - 1
      PROVE  t[i] = IF i < k THEN s[i] ELSE s[i + 1]
  <2>1. t[i] = IF i <= k - 1 THEN u[i] ELSE v[i - (k - 1)]
    BY <1>2, <1>3, <1>5, <1>6
  <2>2. CASE i < k
    <3>1. i <= k - 1 /\ i \in 1 .. k - 1
      BY <1>1, <2>2
    <3> QED
      BY <1>2, <2>1, <2>2, <3>1
  <2>3. CASE ~(i < k)
    <3>1. ~(i <= k - 1) /\ i - (k - 1) \in 1 .. Len(s) - k /\ k + (i - (k - 1)) = i + 1
      BY <1>1, <2>3
    <3> QED
      BY <1>3, <2>1, <2>3, <3>1
  <2> QED
    BY <2>2, <2>3
<1> QED
  BY <1>2, <1>3, <1>5, <1>6, <1>7 DEF t

\* A queue without the request at one place of it (checkAndDequeue).
LEMMA CutFacts ==
    ASSUME NEW S, NEW s \in Seq(S), NEW k \in DOMAIN s
    PROVE  /\ Sap!RemoveAt(s, k) \in Seq(S)
           /\ Sap!IsInjective(s) => /\ Sap!Range(Sap!RemoveAt(s, k)) = Sap!Range(s) \ {s[k]}
                                    /\ Sap!IsInjective(Sap!RemoveAt(s, k))
<1> DEFINE t == Sap!RemoveAt(s, k)
<1>1. Len(s) \in Nat /\ DOMAIN s = 1 .. Len(s) /\ k \in 1 .. Len(s)
  OBVIOUS
<1>2. /\ t \in Seq(S) /\ Len(t) = Len(s) - 1 /\ DOMAIN t = 1 .. Len(s) - 1
      /\ \A i \in 1 .. Len(s) - 1 : t[i] = IF i < k THEN s[i] ELSE s[i + 1]
  BY CutPlaces
<1> HIDE DEF t
<1>3. \A i \in DOMAIN t : \E j \in DOMAIN s : j # k /\ t[i] = s[j] /\ j = IF i < k THEN i ELSE i + 1
  <2> SUFFICES ASSUME NEW i \in DOMAIN t
               PROVE  \E j \in DOMAIN s : j # k /\ t[i] = s[j] /\ j = IF i < k THEN i ELSE i + 1
    OBVIOUS
  <2>1. CASE i < k
    BY <1>1, <1>2, <2>1
  <2>2. CASE ~(i < k)
    BY <1>1, <1>2, <2>2
  <2> QED
    BY <2>1, <2>2
<1>4. \A j \in DOMAIN s : j # k => \E i \in DOMAIN t : t[i] = s[j]
  <2> SUFFICES ASSUME NEW j \in DOMAIN s, j # k
               PROVE  \E i \in DOMAIN t : t[i] = s[j]
    OBVIOUS
  <2>1. CASE j < k
    BY <1>1, <1>2, <2>1
  <2>2. CASE j > k
    <3>1. j - 1 \in DOMAIN t /\ ~(j - 1 < k) /\ (j - 1) + 1 = j
      BY <1>1, <1>2, <2>2
    <3> QED
      BY <1>2, <3>1
  <2> QED
    BY <1>1, <2>1, <2>2
<1>5. ASSUME Sap!IsInjective(s)
      PROVE  Sap!Range(t) = Sap!Range(s) \ {s[k]} /\ Sap!IsInjective(t)
  <2>1. \A x \in Sap!Range(t) : x \in Sap!Range(s) /\ x # s[k]
    BY <1>3, <1>5 DEF Sap!Range, Sap!IsInjective
  <2>2. \A x \in Sap!Range(s) : x # s[k] => x \in Sap!Range(t)
    BY <1>4 DEF Sap!Range
  <2>3. ASSUME NEW i \in DOMAIN t, NEW j \in DOMAIN t, t[i] = t[j]
        PROVE  i = j
    <3>1. (IF i < k THEN i ELSE i + 1) = (IF j < k THEN j ELSE j + 1)
      BY <1>3, <1>5, <2>3 DEF Sap!IsInjective
    <3> QED
      BY <1>1, <1>2, <3>1
  <2> QED
    BY <2>1, <2>2, <2>3 DEF Sap!IsInjective
<1> QED
  BY <1>2, <1>5 DEF t

\* A step that leaves the requests alone, and what the two threads do with them.
LEMMA SapFrame ==
    ASSUME Sap!SapInv, Sap!TypeOK', UNCHANGED <<Sap!reqVars, Sap!apiVars, creq, clash>>,
           Sap!CompSound', ~crashed
    PROVE  Sap!SapInv'
<1> USE DEF Sap!SapInv
<1>1. UNCHANGED <<made, key, mem, queue, vendor, api, areq>>
  BY DEF Sap!reqVars, Sap!apiVars
<1>2. Sap!Held' = Sap!Held
  BY <1>1 DEF Sap!Held
<1>3. Sap!ApiSound'
  BY <1>1 DEF Sap!ApiSound
<1>4. Sap!KeysApart'
  BY <1>1, <1>2 DEF Sap!KeysApart
<1>5. Sap!OwnRequestFreed'
  BY <1>1, <1>2 DEF Sap!OwnRequestFreed, Sap!Range, Sap!IsInjective
<1> QED
  BY <1>3, <1>4, <1>5

\* Clients come and go.
LEMMA SapClient ==
    ASSUME Sap!SapInv, ~crashed, Sap!setCallback \/ Sap!ClientDies \/ Sap!RequestFails
    PROVE  Sap!SapInv'
<1> USE SapAssumption DEF Sap!clientVars, Sap!reqVars, Sap!apiVars, Sap!compVars, Sap!None
<1>1. UNCHANGED <<Sap!reqVars, Sap!apiVars, comp, creq, cto, clash>>
  BY DEF Sap!setCallback, Sap!ClientDies, Sap!RequestFails
<1>2. /\ client' \in 0..MaxClients /\ up' \in BOOLEAN /\ sapCallback' \in {0, client'}
      /\ crashed' \in BOOLEAN /\ troubles' \in 0..MaxTroubles
      /\ cto \in 0..client'
  <2>1. CASE Sap!setCallback
    BY <2>1 DEF Sap!setCallback, Sap!SapInv, Sap!TypeOK
  <2>2. CASE Sap!ClientDies
    BY <2>2 DEF Sap!ClientDies, Sap!SapInv, Sap!TypeOK
  <2>3. CASE Sap!RequestFails
    <3>1. crashed' \in BOOLEAN
      BY <2>3 DEF Sap!RequestFails
    <3>2. client' = client /\ cto' = cto /\ up' \in {up, FALSE} /\ sapCallback' \in {sapCallback, 0}
      BY <2>3 DEF Sap!RequestFails
    <3>3. troubles < MaxTroubles /\ troubles' = troubles + 1
      BY <2>3 DEF Sap!RequestFails, Sap!Trouble
    <3>4. up' \in BOOLEAN
      BY <3>2 DEF Sap!SapInv, Sap!TypeOK
    <3>5. troubles' \in 0..MaxTroubles
      BY <3>3 DEF Sap!SapInv, Sap!TypeOK
    <3> QED
      BY <3>1, <3>2, <3>4, <3>5 DEF Sap!SapInv, Sap!TypeOK
  <2> QED
    BY <2>1, <2>2, <2>3
<1>3. Sap!TypeOK' /\ Sap!CompSound'
  BY <1>1, <1>2 DEF Sap!SapInv, Sap!TypeOK, Sap!CompSound
<1> QED
  BY <1>1, <1>3, SapFrame

\* The client is called, and the callback reset when it does not answer.
LEMMA SapCall ==
    ASSUME Sap!SapInv, ~crashed,
           Sap!onUnsolicitedResponse \/ Sap!CallReturns \/ Sap!checkReturnStatus
    PROVE  Sap!SapInv'
<1> USE SapAssumption DEF Sap!clientVars, Sap!reqVars, Sap!apiVars, Sap!compVars, Sap!None
<1>1. UNCHANGED <<Sap!clientVars, Sap!reqVars, Sap!apiVars, creq, clash, crashed>>
  BY DEF Sap!onUnsolicitedResponse, Sap!CallReturns, Sap!checkReturnStatus, Sap!Deliver,
     Sap!SapInv, Sap!CompSound
<1>2. /\ comp' \in {"idle", "call", "reset", "dequeue"} /\ cto' \in 0..client
      /\ sapCallback' \in {0, client} /\ troubles' \in 0..MaxTroubles
      /\ comp' = "idle" => creq = 0
      /\ comp' = "dequeue" => creq # 0
  <2>1. CASE Sap!onUnsolicitedResponse
    BY <2>1 DEF Sap!onUnsolicitedResponse, Sap!Deliver, Sap!Trouble, Sap!SapInv, Sap!TypeOK,
       Sap!CompSound
  <2>2. CASE Sap!CallReturns
    BY <2>2 DEF Sap!CallReturns, Sap!AfterCall, Sap!SapInv, Sap!TypeOK
  <2>3. CASE Sap!checkReturnStatus
    BY <2>3 DEF Sap!checkReturnStatus, Sap!AfterCall, Sap!SapInv, Sap!TypeOK
  <2> QED
    BY <2>1, <2>2, <2>3
<1>3. Sap!TypeOK' /\ Sap!CompSound'
  BY <1>1, <1>2 DEF Sap!SapInv, Sap!TypeOK, Sap!CompSound
<1> QED
  BY <1>1, <1>3, SapFrame

\* A request is made: nobody else knows its number.
LEMMA SapRequest ==
    ASSUME Sap!SapInv, ~crashed, NEW k \in Keys, Sap!Request(k)
    PROVE  Sap!SapInv'
<1> USE SapAssumption DEF Sap!SapInv, Sap!TypeOK, Sap!clientVars, Sap!compVars, Sap!None,
        Sap!Requests
<1>1. /\ api = "idle" /\ made < MaxRequests /\ api' = "dispatch"
      /\ made' = made + 1 /\ areq' = made + 1
      /\ key' = [key EXCEPT ![made + 1] = k] /\ mem' = [mem EXCEPT ![made + 1] = {"hdr"}]
      /\ UNCHANGED <<client, up, sapCallback, queue, vendor, comp, creq, cto, clash, crashed,
                     troubles>>
  BY DEF Sap!Request
<1>2. made \in Nat /\ made + 1 \in 1..MaxRequests /\ 1..made \subseteq 1..made + 1
      /\ made + 1 \notin 1..made
  BY <1>1
<1>3. queue \in Seq(1..made + 1)
  BY <1>2
<1>4. Sap!TypeOK'
  BY <1>1, <1>2, <1>3
<1>5. Sap!Held' = Sap!Held /\ Sap!Held \subseteq 1..made
  BY <1>1 DEF Sap!Held
<1>6. \A r \in 1..MaxRequests : r # made + 1 => key'[r] = key[r] /\ mem'[r] = mem[r]
  BY <1>1
<1>7. mem'[made + 1] = {"hdr"}
  BY <1>1, <1>2
<1>8. 1..made \subseteq 1..MaxRequests
  BY <1>2
<1>9. Sap!ApiSound'
  BY <1>1, <1>2, <1>7 DEF Sap!ApiSound
<1>10. Sap!CompSound'
  BY <1>1 DEF Sap!CompSound
<1>11. Sap!KeysApart'
  BY <1>1, <1>2, <1>5, <1>6, <1>8 DEF Sap!KeysApart
<1>12. Sap!OwnRequestFreed'
  <2> SUFFICES ASSUME ~clash, ~crashed
               PROVE  /\ Sap!IsInjective(queue)' /\ Sap!Range(queue)' = Sap!Held'
                      /\ \A r \in 1..MaxRequests : "req" \in mem'[r] <=> r \in Sap!Held'
                      /\ \A r \in Sap!Held' : "hdr" \in mem'[r]
    BY <1>1 DEF Sap!OwnRequestFreed
  <2>1. Sap!IsInjective(queue)' /\ Sap!Range(queue)' = Sap!Held'
    BY <1>1, <1>5 DEF Sap!OwnRequestFreed, Sap!Range, Sap!IsInjective
  <2>2. \A r \in 1..MaxRequests : "req" \in mem'[r] <=> r \in Sap!Held'
    BY <1>2, <1>5, <1>6, <1>7 DEF Sap!OwnRequestFreed
  <2>3. \A r \in Sap!Held' : "hdr" \in mem'[r]
    BY <1>2, <1>5, <1>6, <1>8 DEF Sap!OwnRequestFreed
  <2> QED
    BY <2>1, <2>2, <2>3
<1> QED
  BY <1>4, <1>9, <1>10, <1>11, <1>12

\* It is queued, or given up.
LEMMA SapDispatch ==
    ASSUME Sap!SapInv, ~crashed, Sap!dispatchRequest
    PROVE  Sap!SapInv'
<1> USE SapAssumption DEF Sap!SapInv, Sap!TypeOK, Sap!clientVars, Sap!compVars, Sap!None,
        Sap!Requests
<1>1. /\ api = "dispatch"
      /\ UNCHANGED <<client, up, sapCallback, made, key, vendor, areq, comp, creq, cto, crashed>>
  BY DEF Sap!dispatchRequest
<1>2. /\ areq = made /\ areq # 0 /\ areq \in 1..made /\ areq \in 1..MaxRequests
      /\ areq \notin vendor \cup {creq} /\ mem[areq] = {"hdr"}
  BY <1>1 DEF Sap!ApiSound
<1>3. areq \notin Sap!Held /\ Sap!Held \subseteq 1..made /\ 1..made \subseteq 1..MaxRequests
  BY <1>1, <1>2 DEF Sap!Held
<1>4. CASE /\ queue' = Sap!enqueue(areq) /\ mem' = [mem EXCEPT ![areq] = @ \cup {"req"}]
           /\ clash' = (clash \/ \E r \in Sap!InFlight \ {areq} : key[r] = key[areq])
           /\ api' = "onRequest" /\ UNCHANGED troubles
  <2>1. queue' = <<areq>> \o queue /\ queue' \in Seq(1..made)
    BY <1>2, <1>4, FrontFacts DEF Sap!enqueue
  <2>2. Sap!TypeOK'
    <3>1. clash' \in BOOLEAN
      BY <1>4
    <3>2. mem' \in [1..MaxRequests -> SUBSET {"hdr", "req"}]
      BY <1>2, <1>4
    <3> QED
      BY <1>1, <1>4, <2>1, <3>1, <3>2
  <2>3. Sap!ApiSound' /\ Sap!CompSound'
    BY <1>1, <1>2, <1>4 DEF Sap!ApiSound, Sap!CompSound
  <2>4. Sap!Held' = Sap!Held \cup {areq}
    BY <1>1, <1>4 DEF Sap!Held
  <2>5. Sap!KeysApart'
    <3>1. Sap!Held \subseteq Sap!InFlight \ {areq}
      BY <1>1, <1>3 DEF Sap!InFlight, Sap!Held
    <3>2. ~clash' => ~clash /\ \A r \in Sap!Held : key[r] # key[areq]
      BY <1>4, <3>1
    <3> QED
      BY <1>1, <2>4, <3>2 DEF Sap!KeysApart
  <2>6. ASSUME ~clash'
        PROVE  Sap!IsInjective(queue') /\ Sap!Range(queue') = Sap!Held'
    <3>1. Sap!IsInjective(queue) /\ Sap!Range(queue) = Sap!Held
      BY <1>4, <2>6 DEF Sap!OwnRequestFreed
    <3> QED
      BY <1>2, <1>3, <2>1, <2>4, <3>1, FrontFacts
  <2>7. /\ mem'[areq] = {"hdr", "req"}
        /\ \A r \in 1..MaxRequests : r # areq => mem'[r] = mem[r]
    BY <1>2, <1>4
  <2>8. ASSUME ~clash'
        PROVE  /\ \A r \in 1..MaxRequests : "req" \in mem'[r] <=> r \in Sap!Held'
               /\ \A r \in Sap!Held' : "hdr" \in mem'[r]
    <3>1. /\ \A r \in 1..MaxRequests : "req" \in mem[r] <=> r \in Sap!Held
          /\ \A r \in Sap!Held : "hdr" \in mem[r]
      BY <1>4, <2>8 DEF Sap!OwnRequestFreed
    <3> QED
      BY <1>2, <1>3, <2>4, <2>7, <3>1
  <2>9. Sap!OwnRequestFreed'
    BY <1>1, <2>2, <2>6, <2>8 DEF Sap!OwnRequestFreed, Sap!IsInjective, Sap!Range
  <2> QED
    BY <2>2, <2>3, <2>5, <2>9
<1>5. CASE /\ Sap!Trouble /\ mem' = [mem EXCEPT ![areq] = {}]
           /\ api' = "payload" /\ UNCHANGED <<queue, clash>>
  <2>1. Sap!TypeOK'
    BY <1>1, <1>2, <1>5 DEF Sap!Trouble
  <2>2. Sap!ApiSound' /\ Sap!CompSound'
    BY <1>1, <1>2, <1>5 DEF Sap!ApiSound, Sap!CompSound
  <2>3. Sap!Held' = Sap!Held
    BY <1>1, <1>5 DEF Sap!Held
  <2>4. Sap!KeysApart'
    BY <1>1, <1>5, <2>3 DEF Sap!KeysApart
  <2>5. /\ mem'[areq] = {}
        /\ \A r \in 1..MaxRequests : r # areq => mem'[r] = mem[r]
    BY <1>2, <1>5
  <2>6. ASSUME ~clash
        PROVE  /\ \A r \in 1..MaxRequests : "req" \in mem'[r] <=> r \in Sap!Held'
               /\ \A r \in Sap!Held' : "hdr" \in mem'[r]
    <3>1. /\ \A r \in 1..MaxRequests : "req" \in mem[r] <=> r \in Sap!Held
          /\ \A r \in Sap!Held : "hdr" \in mem[r]
      BY <2>6 DEF Sap!OwnRequestFreed
    <3> QED
      BY <1>2, <1>3, <2>3, <2>5, <3>1
  <2>7. Sap!OwnRequestFreed'
    BY <1>1, <1>5, <2>3, <2>6 DEF Sap!OwnRequestFreed, Sap!IsInjective, Sap!Range
  <2> QED
    BY <2>1, <2>2, <2>4, <2>7
<1> QED
  BY <1>4, <1>5 DEF Sap!dispatchRequest

\* It is handed over, and the payload freed: the queue does not notice.
LEMMA SapHandOver ==
    ASSUME Sap!SapInv, ~crashed, Sap!onRequest \/ Sap!FreePayload
    PROVE  Sap!SapInv'
<1> USE DEF Sap!SapInv, Sap!TypeOK, Sap!clientVars, Sap!reqVars, Sap!compVars, Sap!None
<1>1. /\ api \in {"onRequest", "payload"} /\ api' \in {"payload", "idle"}
      /\ UNCHANGED <<client, up, sapCallback, made, key, mem, queue, comp, creq, cto, clash,
                     troubles>>
  BY DEF Sap!onRequest, Sap!FreePayload
<1>2. Sap!TypeOK' /\ Sap!ApiSound' /\ Sap!CompSound' /\ Sap!Held' = Sap!Held
  <2>1. CASE Sap!onRequest
    <3>1. /\ vendor' = vendor \cup {areq} /\ areq' = areq /\ crashed' = crashed
          /\ api = "onRequest" /\ api' = "payload"
      BY <2>1 DEF Sap!onRequest
    <3>2. areq \in 1..made /\ areq # creq
      BY <3>1 DEF Sap!ApiSound
    <3>3. Sap!TypeOK'
      BY <1>1, <3>1, <3>2
    <3>4. Sap!ApiSound' /\ Sap!CompSound' /\ Sap!Held' = Sap!Held
      BY <1>1, <3>1, <3>2 DEF Sap!ApiSound, Sap!CompSound, Sap!Held
    <3> QED
      BY <3>3, <3>4
  <2>2. CASE Sap!FreePayload
    <3>1. vendor' = vendor /\ areq' = 0 /\ api = "payload" /\ api' = "idle"
      BY <2>2 DEF Sap!FreePayload
    <3>2. crashed' \in BOOLEAN
      BY <2>2 DEF Sap!FreePayload
    <3>3. Sap!TypeOK'
      BY <1>1, <3>1, <3>2
    <3>4. Sap!ApiSound' /\ Sap!CompSound' /\ Sap!Held' = Sap!Held
      BY <1>1, <3>1 DEF Sap!ApiSound, Sap!CompSound, Sap!Held
    <3> QED
      BY <3>3, <3>4
  <2> QED
    BY <2>1, <2>2
<1>3. Sap!KeysApart'
  BY <1>1, <1>2 DEF Sap!KeysApart
<1>4. Sap!OwnRequestFreed'
  BY <1>1, <1>2 DEF Sap!OwnRequestFreed, Sap!Range, Sap!IsInjective
<1> QED
  BY <1>2, <1>3, <1>4

\* The vendor completes a request it has.
LEMMA SapComplete ==
    ASSUME Sap!SapInv, ~crashed, NEW r \in Sap!Requests, Sap!onRequestComplete(r)
    PROVE  Sap!SapInv'
<1> USE DEF Sap!SapInv, Sap!TypeOK, Sap!clientVars, Sap!apiVars, Sap!None
<1>1. /\ comp = "idle" /\ r \in vendor /\ vendor' = vendor \ {r} /\ creq' = r
      /\ UNCHANGED <<client, up, sapCallback, made, key, mem, queue, api, areq, clash>>
  BY DEF Sap!onRequestComplete
<1>2. creq = 0 /\ r \in 1..made /\ r # 0
  BY <1>1 DEF Sap!CompSound
<1>3. Sap!TypeOK' /\ comp' # "idle"
  <2>1. crashed' \in BOOLEAN
    BY DEF Sap!onRequestComplete
  <2>2. comp' \in {"call", "dequeue"} /\ cto' \in {0, sapCallback}
    BY DEF Sap!onRequestComplete, Sap!Deliver
  <2>3. troubles' \in 0..MaxTroubles
    BY SapAssumption DEF Sap!onRequestComplete, Sap!Trouble
  <2>4. cto' \in 0..client
    BY <2>2
  <2> QED
    BY <1>1, <1>2, <2>1, <2>2, <2>3, <2>4
<1>4. Sap!Held' = Sap!Held
  BY <1>1, <1>2 DEF Sap!Held
<1>5. Sap!ApiSound' /\ Sap!CompSound'
  BY <1>1, <1>2, <1>3 DEF Sap!ApiSound, Sap!CompSound
<1>6. Sap!KeysApart'
  BY <1>1, <1>4 DEF Sap!KeysApart
<1>7. Sap!OwnRequestFreed'
  BY <1>1, <1>4 DEF Sap!OwnRequestFreed, Sap!Range, Sap!IsInjective
<1> QED
  BY <1>3, <1>5, <1>6, <1>7

\* The first of some places in a queue is one of them.
LEMMA FirstPlace ==
    ASSUME NEW T \in SUBSET Nat, T # {}
    PROVE  \E x \in T : \A y \in T : x <= y
<1> DEFINE R == {ss \in Nat \X Nat : ss[1] < ss[2]}
<1>1. IsWellFoundedOn(R, Nat)
  BY NatLessThanWellFounded, Zenon DEF OpToRel
<1>2. PICK x \in T : \A y \in T : ~ (<<y, x>> \in R)
  BY <1>1, WFMin
<1>3. \A y \in T : ~ (y < x)
  BY <1>2
<1> QED
  BY <1>3

\* checkAndDequeue frees what it finds first: with keys that differ, its own request.
LEMMA SapDequeue ==
    ASSUME Sap!SapInv, ~crashed, Sap!checkAndDequeue
    PROVE  Sap!SapInv'
<1> USE DEF Sap!SapInv, Sap!TypeOK, Sap!clientVars, Sap!apiVars, Sap!None, Sap!Requests
<1> DEFINE i == CHOOSE j \in Sap!Matches(creq) : \A l \in Sap!Matches(creq) : j <= l
           freed == [mem EXCEPT ![creq] = @ \ {"hdr"}]
<1>1. /\ comp = "dequeue" /\ comp' = "idle" /\ creq' = 0 /\ cto' = 0
      /\ queue' = IF Sap!Matches(creq) # {} THEN Sap!RemoveAt(queue, i) ELSE queue
      /\ mem' = IF Sap!Matches(creq) # {} THEN [freed EXCEPT ![queue[i]] = @ \ {"req"}] ELSE freed
      /\ UNCHANGED <<client, up, sapCallback, made, key, vendor, api, areq, clash, crashed,
                     troubles>>
  BY DEF Sap!checkAndDequeue
<1>0. 1..made \subseteq 1..MaxRequests
  BY SapAssumption
<1>2. creq # 0 /\ creq \in 1..made /\ creq \in 1..MaxRequests
  BY <1>0, <1>1 DEF Sap!CompSound
<1>3. /\ DOMAIN queue = 1..Len(queue) /\ Len(queue) \in Nat
      /\ \A j \in DOMAIN queue : queue[j] \in 1..made /\ queue[j] \in 1..MaxRequests
  BY <1>0
<1>4. Sap!Matches(creq) # {} => i \in Sap!Matches(creq)
  <2> SUFFICES ASSUME Sap!Matches(creq) # {}
               PROVE  \E j \in Sap!Matches(creq) : \A l \in Sap!Matches(creq) : j <= l
    OBVIOUS
  <2>1. Sap!Matches(creq) \subseteq Nat
    BY <1>3 DEF Sap!Matches
  <2> QED
    BY <2>1, FirstPlace
<1>5. Sap!Matches(creq) # {} => i \in DOMAIN queue /\ key[queue[i]] = key[creq]
  BY <1>4 DEF Sap!Matches
<1> HIDE DEF i
<1>6. /\ freed \in [1..MaxRequests -> SUBSET {"hdr", "req"}]
      /\ freed[creq] = mem[creq] \ {"hdr"}
      /\ \A r \in 1..MaxRequests : r # creq => freed[r] = mem[r]
  BY <1>2
<1> HIDE DEF freed
<1>7. Sap!TypeOK'
  <2>1. queue' \in Seq(1..made)
    BY <1>1, <1>5, CutFacts
  <2>2. mem' \in [1..MaxRequests -> SUBSET {"hdr", "req"}]
    BY <1>1, <1>3, <1>5, <1>6
  <2> QED
    BY <1>1, <2>1, <2>2
<1>8. Sap!Held' = Sap!Held \ {creq} /\ creq \in Sap!Held
  BY <1>1, <1>2 DEF Sap!Held, Sap!CompSound, Sap!ApiSound
<1>9. Sap!ApiSound' /\ Sap!CompSound'
  <2>1. Sap!CompSound'
    BY <1>1 DEF Sap!CompSound
  <2>2. api = "dispatch" => mem'[areq] = {"hdr"}
    <3> SUFFICES ASSUME api = "dispatch"
                 PROVE  mem'[areq] = {"hdr"}
      OBVIOUS
    <3>1. areq # creq /\ mem[areq] = {"hdr"} /\ areq \in 1..made /\ areq \in 1..MaxRequests
      BY DEF Sap!ApiSound
    <3>2. freed[areq] = {"hdr"}
      BY <1>6, <3>1
    <3> QED
      BY <1>1, <1>3, <1>5, <1>6, <3>1, <3>2
  <2> QED
    BY <1>1, <2>1, <2>2 DEF Sap!ApiSound
<1>10. Sap!KeysApart'
  BY <1>1, <1>8 DEF Sap!KeysApart
<1>11. ASSUME ~clash
       PROVE  /\ Sap!IsInjective(queue') /\ Sap!Range(queue') = Sap!Held'
              /\ \A r \in 1..MaxRequests : "req" \in mem'[r] <=> r \in Sap!Held'
              /\ \A r \in Sap!Held' : "hdr" \in mem'[r]
  <2>1. /\ Sap!IsInjective(queue) /\ Sap!Range(queue) = Sap!Held
        /\ \A r \in 1..MaxRequests : "req" \in mem[r] <=> r \in Sap!Held
        /\ \A r \in Sap!Held : "hdr" \in mem[r]
    BY <1>11 DEF Sap!OwnRequestFreed
  <2>2. Sap!Matches(creq) # {}
    <3>1. PICK j \in DOMAIN queue : queue[j] = creq
      BY <1>8, <2>1 DEF Sap!Range
    <3> QED
      BY <3>1 DEF Sap!Matches
  <2>3. i \in DOMAIN queue /\ queue[i] = creq
    <3>1. i \in DOMAIN queue /\ key[queue[i]] = key[creq]
      BY <1>5, <2>2
    <3>2. queue[i] \in Sap!Held
      BY <2>1, <3>1 DEF Sap!Range
    <3> QED
      BY <1>8, <1>11, <3>1, <3>2 DEF Sap!KeysApart
  <2>4. Sap!IsInjective(queue') /\ Sap!Range(queue') = Sap!Held'
    BY <1>1, <1>8, <2>1, <2>2, <2>3, CutFacts
  <2>5. mem'[creq] = {} /\ \A r \in 1..MaxRequests : r # creq => mem'[r] = mem[r]
    BY <1>1, <1>2, <1>6, <2>2, <2>3
  <2>6. Sap!Held \subseteq 1..MaxRequests
    BY <1>0, <1>3, <2>1 DEF Sap!Range
  <2> QED
    BY <1>8, <2>1, <2>4, <2>5, <2>6
<1>12. Sap!OwnRequestFreed'
  BY <1>1, <1>11 DEF Sap!OwnRequestFreed, Sap!IsInjective, Sap!Range
<1> QED
  BY <1>7, <1>9, <1>10, <1>12

\* RilSapSocket::dispatchRequest, onRequestComplete and checkAndDequeue: as long as
\* no two requests in flight have one id and token, the queue holds what the vendor
\* has and nothing else, each once, and a completion frees its own request.
THEOREM CompletionFreesItsOwn == Spec => []OwnRequestFreed
<1>1. Init => Sap!SapInv
  <2> SUFFICES ASSUME Sap!Init
               PROVE  Sap!SapInv
    BY DEF Init
  <2> USE SapAssumption DEF Sap!Init, Sap!Requests, Sap!None
  <2>1. Sap!Held = {}
    BY DEF Sap!Held
  <2>2. Sap!TypeOK
    <3>1. (CHOOSE k \in Keys : TRUE) \in Keys
      OBVIOUS
    <3>2. key \in [1..MaxRequests -> Keys]
      BY <3>1
    <3>3. clash \in BOOLEAN /\ crashed \in BOOLEAN /\ up \in BOOLEAN
      OBVIOUS
    <3>4. mem \in [1..MaxRequests -> SUBSET {"hdr", "req"}] /\ queue \in Seq(1..made)
      OBVIOUS
    <3> QED
      BY <3>2, <3>3, <3>4 DEF Sap!TypeOK
  <2>3. Sap!ApiSound /\ Sap!CompSound /\ Sap!KeysApart
    BY <2>1 DEF Sap!ApiSound, Sap!CompSound, Sap!KeysApart
  <2>4. Sap!OwnRequestFreed
    BY <2>1 DEF Sap!OwnRequestFreed, Sap!Range, Sap!IsInjective
  <2> QED
    BY <2>2, <2>3, <2>4 DEF Sap!SapInv
<1>2. Sap!SapInv /\ [Next]_vars => Sap!SapInv'
  <2> SUFFICES ASSUME Sap!SapInv, [Next]_vars
               PROVE  Sap!SapInv'
    OBVIOUS
  <2>1. CASE Sap!Next
    BY <2>1, SapClient, SapCall, SapRequest, SapDispatch, SapHandOver, SapComplete, SapDequeue
       DEF Sap!Next
  <2>2. CASE UNCHANGED sapVars
    <3>1. Sap!Held' = Sap!Held
      BY <2>2 DEF sapVars, Sap!Held
    <3>2. Sap!TypeOK' /\ Sap!ApiSound' /\ Sap!CompSound'
      BY <2>2 DEF sapVars, Sap!SapInv, Sap!TypeOK, Sap!ApiSound, Sap!CompSound
    <3>3. Sap!KeysApart' /\ Sap!OwnRequestFreed'
      BY <2>2, <3>1 DEF sapVars, Sap!SapInv, Sap!KeysApart, Sap!OwnRequestFreed, Sap!Range,
         Sap!IsInjective
    <3> QED
      BY <3>2, <3>3 DEF Sap!SapInv
  <2>3. Sap!Next \/ UNCHANGED sapVars
    BY DEF Next, vars, InNitz
  <2> QED
    BY <2>1, <2>2, <2>3
<1>3. Sap!SapInv => OwnRequestFreed
  BY DEF Sap!SapInv, OwnRequestFreed
<1> QED
  BY <1>1, <1>2, <1>3, PTL DEF Spec

-----------------------------------------------------------------------------
(* The kept NITZ message.                                                  *)

\* A step that tells nobody anything.
LEMMA NitzSilent ==
    ASSUME Nitz!NitzInv, Nitz!TypeOK', log' = log, Nitz!NewestIsNew', Nitz!KeptIsUntold'
    PROVE  Nitz!NitzInv'
  BY DEF Nitz!NitzInv, Nitz!DeliveredOnce

\* A message n that was not told before is told to the client of slot s, or lost.
LEMMA NitzTold ==
    ASSUME Nitz!NitzInv, NEW s \in Slots, NEW n \in 1..received, ~Nitz!Delivered(n), Nitz!Deliver(s, n)
    PROVE  /\ log' \in Seq(1..received) /\ nitzClient' \in [Slots -> {"null", "alive", "dead"}]
           /\ \A i, j \in 1..Len(log') : log'[i] = log'[j] => i = j
           /\ \A m : (\E i \in 1..Len(log') : log'[i] = m) => m = n \/ Nitz!Delivered(m)
           /\ nitzClient[s] = "null" => log' = log
<1> USE DEF Nitz!NitzInv, Nitz!TypeOK
<1>1. nitzClient' \in [Slots -> {"null", "alive", "dead"}]
  BY DEF Nitz!Deliver
<1>2. nitzClient[s] = "null" => log' = log
  BY DEF Nitz!Deliver
<1>3. CASE log' = log
  BY <1>1, <1>2, <1>3 DEF Nitz!DeliveredOnce, Nitz!Delivered
<1>4. CASE nitzClient[s] # "null" /\ log' = Append(log, n)
  <2>1. /\ log' \in Seq(1..received) /\ Len(log) \in Nat /\ Len(log') = Len(log) + 1
        /\ log'[Len(log) + 1] = n /\ \A i \in 1..Len(log) : log'[i] = log[i]
    BY <1>4
  <2>2. \A i \in 1..Len(log') : i \in 1..Len(log) \/ i = Len(log) + 1
    BY <2>1
  <2>3. \A i, j \in 1..Len(log') : log'[i] = log'[j] => i = j
    <3>1. \A i \in 1..Len(log) : log'[i] # n
      BY <2>1 DEF Nitz!Delivered
    <3>2. \A i, j \in 1..Len(log) : log'[i] = log'[j] => i = j
      BY <2>1 DEF Nitz!DeliveredOnce
    <3> QED
      BY <2>1, <2>2, <3>1, <3>2
  <2>4. \A m : (\E i \in 1..Len(log') : log'[i] = m) => m = n \/ Nitz!Delivered(m)
    BY <2>1, <2>2 DEF Nitz!Delivered
  <2> QED
    BY <1>1, <1>4, <2>1, <2>3, <2>4
<1> QED
  BY <1>3, <1>4 DEF Nitz!Deliver

\* Whatever the two threads and the framework do, a message is told once.
LEMMA NitzStep ==
    ASSUME Nitz!NitzInv, Nitz!Next
    PROVE  Nitz!NitzInv'
<1> USE NitzAssumption DEF Nitz!NitzInv, Nitz!TypeOK, Nitz!None
<1>0. Nitz!InUse \subseteq Slots
  BY DEF Nitz!InUse
<1>1. ASSUME NEW s \in Nitz!InUse, Nitz!sendUnsol(s)
      PROVE  Nitz!NitzInv'
  <2>1. /\ received' = received + 1 /\ received < MaxNitz
        /\ unsol' = [pc |-> "call", slot |-> s, ret |-> 0]
        /\ UNCHANGED <<setting, nitzClient, cache, binder, log, connects>>
    BY <1>1 DEF Nitz!sendUnsol
  <2>2. log \in Seq(1..received + 1)
    BY SMTT(20)
  <2>3. Nitz!TypeOK'
    BY <1>0, <2>1, <2>2
  <2>4. ~Nitz!Delivered(received + 1)
    BY DEF Nitz!Delivered
  <2>5. Nitz!NewestIsNew' /\ Nitz!KeptIsUntold'
    BY <2>1, <2>4 DEF Nitz!NewestIsNew, Nitz!KeptIsUntold, Nitz!Delivered
  <2> QED
    BY <2>1, <2>3, <2>5, NitzSilent
<1>2. ASSUME NEW s \in Nitz!InUse, Nitz!setResponseFunctions(s)
      PROVE  Nitz!NitzInv'
  <2>1. /\ connects' = connects + 1 /\ connects < MaxConnects
        /\ nitzClient' = [nitzClient EXCEPT ![s] = "alive"]
        /\ binder' = [pc |-> "sleep", slot |-> s] /\ binder.pc = "idle"
        /\ UNCHANGED <<setting, cache, received, unsol, log>>
    BY <1>2 DEF Nitz!setResponseFunctions
  <2>2. Nitz!TypeOK'
    BY <1>0, <2>1
  <2>3. Nitz!NewestIsNew' /\ Nitz!KeptIsUntold'
    BY <2>1 DEF Nitz!NewestIsNew, Nitz!KeptIsUntold, Nitz!Delivered, Nitz!OnItsWay
  <2> QED
    BY <2>1, <2>2, <2>3, NitzSilent
<1>3. CASE Nitz!sendUnsolCall
  <2>1. /\ unsol.pc = "call" /\ Nitz!Deliver(unsol.slot, received)
        /\ unsol' = [unsol EXCEPT !.pc = "check", !.ret = Nitz!nitzTimeReceivedInd(unsol.slot)]
        /\ UNCHANGED <<setting, cache, received, binder, connects>>
    BY <1>3 DEF Nitz!sendUnsolCall
  <2>2. unsol.slot \in Slots /\ received \in 1..received /\ ~Nitz!Delivered(received) /\ cache < received
    BY <2>1 DEF Nitz!NewestIsNew, Nitz!OnItsWay
  <2>3. /\ unsol'.pc = "check" /\ unsol'.slot = unsol.slot
        /\ unsol'.ret = IF nitzClient[unsol.slot] = "null" THEN -1 ELSE 0
        /\ unsol' \in [pc : {"idle", "call", "check", "keep"}, slot : Slots, ret : {0, -1}]
    BY <2>1 DEF Nitz!nitzTimeReceivedInd
  <2>4. /\ log' \in Seq(1..received) /\ nitzClient' \in [Slots -> {"null", "alive", "dead"}]
        /\ \A i, j \in 1..Len(log') : log'[i] = log'[j] => i = j
        /\ \A m : (\E i \in 1..Len(log') : log'[i] = m) => m = received \/ Nitz!Delivered(m)
        /\ nitzClient[unsol.slot] = "null" => log' = log
    BY <2>1, <2>2, NitzTold
  <2>5. Nitz!TypeOK'
    BY <2>1, <2>3, <2>4
  <2>6. Nitz!DeliveredOnce'
    BY <2>4 DEF Nitz!DeliveredOnce
  <2>7. Nitz!NewestIsNew'
    BY <2>1, <2>2, <2>3, <2>4 DEF Nitz!NewestIsNew, Nitz!OnItsWay, Nitz!Delivered
  <2>8. Nitz!KeptIsUntold'
    <3>1. cache # received
      BY <2>2
    <3>2. (\E i \in 1..Len(log') : log'[i] = cache) => Nitz!Delivered(cache)
      BY <2>4, <3>1
    <3> QED
      BY <2>1, <3>2 DEF Nitz!KeptIsUntold, Nitz!Delivered
  <2> QED
    BY <2>5, <2>6, <2>7, <2>8
<1>4. CASE Nitz!sendUnsolDrop \/ Nitz!sendUnsolKeep
  <2>1. /\ UNCHANGED <<setting, nitzClient, received, binder, log, connects>>
        /\ unsol' = [unsol EXCEPT !.pc = unsol'.pc] /\ unsol'.pc \in {"idle", "keep"}
        /\ cache' \in {cache, 0, received}
        /\ cache' = received => cache = received \/ (unsol.pc = "keep" /\ unsol'.pc = "idle") \/ received = 0
        /\ unsol'.pc = "keep" => unsol.pc = "check" /\ unsol.ret = -1 /\ cache' = 0
    BY <1>4 DEF Nitz!sendUnsolDrop, Nitz!sendUnsolKeep
  <2>2. Nitz!TypeOK'
    BY <2>1
  <2>3. Nitz!NewestIsNew'
    BY <2>1 DEF Nitz!NewestIsNew, Nitz!OnItsWay, Nitz!Delivered
  <2>4. ~Nitz!Delivered(0)
    BY DEF Nitz!Delivered
  <2>5. Nitz!KeptIsUntold'
    BY <2>1, <2>4 DEF Nitz!NewestIsNew, Nitz!OnItsWay, Nitz!KeptIsUntold, Nitz!Delivered
  <2> QED
    BY <2>1, <2>2, <2>3, <2>5, NitzSilent
<1>5. CASE Nitz!onNewCommandConnect \/ Nitz!resendFree \/ Nitz!ClientDies
  <2>1. /\ UNCHANGED <<setting, received, unsol, log, connects>>
        /\ nitzClient' \in [Slots -> {"null", "alive", "dead"}]
        /\ cache' \in {cache, 0} /\ binder' \in [pc : {"idle", "sleep", "resend", "free"}, slot : Slots]
        /\ binder'.pc # "free" => binder.pc # "free" \/ cache' = 0
    BY <1>5 DEF Nitz!onNewCommandConnect, Nitz!resendFree, Nitz!ClientDies
  <2>2. Nitz!TypeOK'
    BY <2>1
  <2>3. Nitz!NewestIsNew'
    BY <2>1 DEF Nitz!NewestIsNew, Nitz!OnItsWay, Nitz!Delivered
  <2>4. ~Nitz!Delivered(0)
    BY DEF Nitz!Delivered
  <2>5. Nitz!KeptIsUntold'
    BY <2>1, <2>4 DEF Nitz!KeptIsUntold, Nitz!Delivered
  <2> QED
    BY <2>1, <2>2, <2>3, <2>5, NitzSilent
<1>6. CASE Nitz!resendLastNITZTimeData
  <2>1. /\ binder.pc = "resend" /\ UNCHANGED <<setting, cache, received, unsol, connects>>
        /\ binder' = [binder EXCEPT !.pc = binder'.pc] /\ binder'.pc \in {"idle", "free"}
    BY <1>6 DEF Nitz!resendLastNITZTimeData
  <2>2. CASE log' = log /\ nitzClient' \in [Slots -> {"null", "alive", "dead"}]
    <3>1. Nitz!TypeOK'
      BY <2>1, <2>2
    <3>2. Nitz!NewestIsNew' /\ Nitz!KeptIsUntold'
      BY <2>1, <2>2 DEF Nitz!NewestIsNew, Nitz!OnItsWay, Nitz!KeptIsUntold, Nitz!Delivered
    <3> QED
      BY <2>2, <3>1, <3>2, NitzSilent
  <2>3. CASE cache # 0
    <3>1. /\ Nitz!Deliver(binder.slot, cache) /\ binder.slot \in Slots /\ cache \in 1..received
          /\ ~Nitz!Delivered(cache)
          /\ nitzClient[binder.slot] # "null" => binder'.pc = "free"
      BY <1>6, <2>1, <2>3 DEF Nitz!resendLastNITZTimeData, Nitz!nitzTimeReceivedInd, Nitz!KeptIsUntold
    <3>2. /\ log' \in Seq(1..received) /\ nitzClient' \in [Slots -> {"null", "alive", "dead"}]
          /\ \A i, j \in 1..Len(log') : log'[i] = log'[j] => i = j
          /\ \A m : (\E i \in 1..Len(log') : log'[i] = m) => m = cache \/ Nitz!Delivered(m)
          /\ nitzClient[binder.slot] = "null" => log' = log
      BY <3>1, NitzTold
    <3>3. CASE nitzClient[binder.slot] = "null"
      BY <2>2, <3>2, <3>3
    <3>4. CASE nitzClient[binder.slot] # "null"
      <4>1. Nitz!TypeOK' /\ Nitz!DeliveredOnce'
        BY <2>1, <3>2 DEF Nitz!DeliveredOnce
      <4>2. Nitz!NewestIsNew' /\ Nitz!KeptIsUntold'
        <5>1. cache # received => ((\E i \in 1..Len(log') : log'[i] = received) => Nitz!Delivered(received))
          BY <3>2
        <5>2. Nitz!NewestIsNew'
          BY <2>1, <5>1 DEF Nitz!NewestIsNew, Nitz!OnItsWay, Nitz!Delivered
        <5>3. Nitz!KeptIsUntold'
          BY <3>1, <3>4 DEF Nitz!KeptIsUntold
        <5> QED
          BY <5>2, <5>3
      <4> QED
        BY <4>1, <4>2
    <3> QED
      BY <3>3, <3>4
  <2>4. CASE cache = 0
    <3>1. log' = log /\ nitzClient' = nitzClient
      BY <1>6, <2>4 DEF Nitz!resendLastNITZTimeData
    <3> QED
      BY <2>2, <3>1
  <2> QED
    BY <2>3, <2>4
<1> QED
  BY <1>1, <1>2, <1>3, <1>4, <1>5, <1>6 DEF Nitz!Next, Nitz!UnsolStep, Nitz!BinderStep

\* send_unsolResponse and resendLastNITZTimeData: what is kept or told is a message
\* that arrived, and none is told twice, whichever slots, clients and interleaving.
THEOREM NitzOnce == Spec => [](Nitz!TypeOK /\ Nitz!DeliveredOnce)
<1>1. Init => Nitz!NitzInv
  <2> SUFFICES ASSUME Nitz!Init
               PROVE  Nitz!NitzInv
    BY DEF Init
  <2>1. Nitz!InUse \subseteq Slots
    BY NitzAssumption DEF Nitz!InUse
  <2>2. Nitz!TypeOK
    BY <2>1, NitzAssumption DEF Nitz!Init, Nitz!TypeOK, Nitz!None
  <2>3. Nitz!DeliveredOnce /\ Nitz!NewestIsNew /\ Nitz!KeptIsUntold
    BY DEF Nitz!Init, Nitz!DeliveredOnce, Nitz!NewestIsNew, Nitz!KeptIsUntold, Nitz!Delivered,
       Nitz!OnItsWay
  <2> QED
    BY <2>2, <2>3 DEF Nitz!NitzInv
<1>2. Nitz!NitzInv /\ [Next]_vars => Nitz!NitzInv'
  <2> SUFFICES ASSUME Nitz!NitzInv, [Next]_vars
               PROVE  Nitz!NitzInv'
    OBVIOUS
  <2>1. CASE Nitz!Next
    BY <2>1, NitzStep
  <2>2. CASE UNCHANGED nitzVars
    BY <2>2 DEF nitzVars, Nitz!NitzInv, Nitz!TypeOK, Nitz!DeliveredOnce, Nitz!NewestIsNew,
       Nitz!KeptIsUntold, Nitz!Delivered, Nitz!OnItsWay
  <2>3. Nitz!Next \/ UNCHANGED nitzVars
    BY DEF Next, vars, InNitz
  <2> QED
    BY <2>1, <2>2, <2>3
<1>3. Nitz!NitzInv => Nitz!TypeOK /\ Nitz!DeliveredOnce
  BY DEF Nitz!NitzInv
<1> QED
  BY <1>1, <1>2, <1>3, PTL DEF Spec

-----------------------------------------------------------------------------
(* The arguments of a request.                                             *)

\* What is joined of sequences of steps is a sequence of them: the definition of
\* FlattenSeq by recursion has a solution, and each of its values is one.
LEMMA Flattened ==
    ASSUME NEW S, NEW ss \in Seq(Seq(S))
    PROVE  Args!FlattenSeq(ss) \in Seq(S)
<1> DEFINE n == Len(ss)
           Joins(f, m) == f = [i \in 1 .. m |-> IF i = 1 THEN ss[i] ELSE f[i - 1] \o ss[i]]
           flatten[i \in 1 .. Len(ss)] == IF i = 1 THEN ss[i] ELSE flatten[i - 1] \o ss[i]
<1>1. n \in Nat /\ DOMAIN ss = 1 .. n /\ \A i \in 1 .. n : ss[i] \in Seq(S)
  OBVIOUS
<1> HIDE DEF Joins, flatten
<1>2. CASE n = 0
  <2>1. ss = <<>> /\ ss \in Seq(S)
    BY <1>1, <1>2
  <2>2. Args!FlattenSeq(ss) = ss
    BY <1>2, Zenon DEF Args!FlattenSeq
  <2> QED
    BY <2>1, <2>2
<1>3. CASE n # 0
  <2> HIDE DEF n
  <2> DEFINE Bad == {m \in Nat : m <= n /\ ~\E f : Joins(f, m)}
  <2>1. Bad = {}
    <3> SUFFICES ASSUME Bad # {} PROVE FALSE
      OBVIOUS
    <3>1. PICK m \in Bad : \A k \in Bad : m <= k
      BY FirstPlace
    <3>2. CASE m = 0
      <4>1. Joins([i \in 1 .. m |-> 0], m)
        BY <3>2 DEF Joins
      <4> QED
        BY <3>1, <4>1
    <3>3. CASE m # 0
      <4>1. m - 1 \in Nat /\ m - 1 <= n /\ m \in Nat /\ ~(m <= m - 1)
        BY <1>1, <3>1, <3>3
      <4>2. PICK f : Joins(f, m - 1)
        BY <3>1, <4>1
      <4> DEFINE g == [i \in 1 .. m |-> IF i < m THEN f[i]
                         ELSE IF m = 1 THEN ss[m] ELSE f[m - 1] \o ss[m]]
      <4>3. ASSUME NEW i \in 1 .. m
            PROVE  g[i] = IF i = 1 THEN ss[i] ELSE g[i - 1] \o ss[i]
        <5>1. CASE i < m
          <6>1. i \in 1 .. m - 1 /\ g[i] = f[i]
            BY <4>1, <5>1
          <6>2. f[i] = IF i = 1 THEN ss[i] ELSE f[i - 1] \o ss[i]
            BY <4>2, <6>1 DEF Joins
          <6>3. i # 1 => i - 1 \in 1 .. m /\ i - 1 < m /\ g[i - 1] = f[i - 1]
            BY <4>1, <5>1
          <6> QED
            BY <6>1, <6>2, <6>3
        <5>2. CASE i = m
          <6>1. i # 1 => i - 1 \in 1 .. m /\ i - 1 < m /\ g[i - 1] = f[i - 1]
            BY <4>1, <5>2
          <6> QED
            BY <4>1, <5>2, <6>1
        <5> QED
          BY <4>1, <5>1, <5>2
      <4>4. g = [i \in 1 .. m |-> g[i]]
        OBVIOUS
      <4> HIDE DEF g
      <4>5. Joins(g, m)
        BY <4>3, <4>4 DEF Joins
      <4> QED
        BY <3>1, <4>5
    <3> QED
      BY <3>2, <3>3
  <2>2. PICK f : Joins(f, n)
    <3>1. n \in Nat /\ n <= n
      BY <1>1
    <3>2. \A m \in Nat : m <= n => \E f : Joins(f, m)
      BY <2>1, Zenon
    <3> QED
      BY <3>1, <3>2
  <2>3. flatten = [i \in 1 .. Len(ss) |-> IF i = 1 THEN ss[i] ELSE flatten[i - 1] \o ss[i]]
    BY <2>2, Zenon DEF flatten, Joins, n
  <2>4. Args!FlattenSeq(ss) = flatten[Len(ss)]
    BY <1>3, Zenon DEF Args!FlattenSeq, flatten, n
  <2> HIDE DEF flatten
  <2> DEFINE Off == {i \in Nat : i \in 1 .. n /\ flatten[i] \notin Seq(S)}
  <2>5. Off = {}
    <3> SUFFICES ASSUME Off # {} PROVE FALSE
      OBVIOUS
    <3>1. PICK i \in Off : \A k \in Off : i <= k
      BY FirstPlace
    <3>2. i \in 1 .. n /\ flatten[i] = IF i = 1 THEN ss[i] ELSE flatten[i - 1] \o ss[i]
      BY <2>3 DEF n
    <3>3. i # 1 => flatten[i - 1] \in Seq(S)
      <4>1. i # 1 => i - 1 \in Nat /\ i - 1 \in 1 .. n /\ ~(i <= i - 1)
        BY <1>1, <3>2
      <4> QED
        BY <3>1, <4>1
    <3>4. flatten[i] \in Seq(S)
      <4>1. ss[i] \in Seq(S)
        BY <1>1, <3>2
      <4>2. CASE i = 1
        BY <3>2, <4>1, <4>2
      <4>3. CASE i # 1
        BY <3>2, <3>3, <4>1, <4>3, ConcatProperties
      <4> QED
        BY <4>2, <4>3
    <3> QED
      BY <3>4
  <2>6. n \in 1 .. n
    BY <1>1, <1>3
  <2> QED
    BY <1>1, <2>4, <2>5, <2>6 DEF n
<1> QED
  BY <1>2, <1>3

\* The arrays clearPendingBuffer leaves allocated.
Kept == {<<"pInts", 0>>, <<"pStrings", 0>>, <<"dataProfilePtrs", 0>>}
          \cup IF count = 0 THEN {<<"dataProfiles", 0>>} ELSE {}
Profiled == kind \in {"dataProfile", "dataProfile15"}
StepKinds == {"array", "string", "check"}
Fields == {"none", "pString", "pStrings", "pInts", "number", "data", "address", "uusData",
           "path", "pin2", "aidPtr", "pdu", "smsc", "apn", "protocol", "username", "password",
           "roamingProtocol", "mvnoMatchData", "value", "authData", "aid", "user",
           "dataProfiles", "dataProfilePtrs", "allowedCarriers", "excludedCarriers"}
AllSteps == [what : StepKinds, p : Fields \X Nat]

AnArray(f) == [what |-> "array", p |-> <<f, 0>>]
AText(f, i) == [what |-> "string", p |-> <<f, i>>]
ACheck == [what |-> "check", p |-> <<"none", 0>>]

\* What a step of a request may be about: what the request is later freed of.
Fits(s) ==
    /\ s \in AllSteps
    /\ s.p[1] = "dataProfiles" => Profiled /\ s = AnArray("dataProfiles")
    /\ Args!Format # "IGNORE" /\ s.what # "check" => s.p \in Args!clearPendingBuffer \cup Kept
Fitting == {s \in AllSteps : Fits(s)}

\* The pieces that requests are built from.
LEMMA Pieces ==
    ASSUME NEW T
    PROVE  /\ \A f : AnArray(f) \in T => Args!Array(f) \in Seq(T)
           /\ \A f, i : AText(f, i) \in T =>
                Args!Text(f, i) \in Seq(T) /\ Args!Text(f, i)[1] \in T
           /\ ACheck \in T => Args!Check \in Seq(T)
BY DEF Args!Array, Args!Text, Args!Check, AnArray, AText, ACheck

LEMMA CheckFits == ACheck \in Fitting /\ Args!Check \in Seq(Fitting)
<1>1. ACheck \in AllSteps /\ ACheck.p[1] = "none" /\ ACheck.what = "check"
  BY DEF ACheck, AllSteps, StepKinds, Fields
<1>2. ACheck \in Fitting
  BY <1>1 DEF Fitting, Fits
<1> QED
  BY <1>2, Pieces

LEMMA ArrayFits ==
    ASSUME NEW f \in Fields, f = "dataProfiles" => Profiled,
           Args!Format = "IGNORE" \/ <<f, 0>> \in Args!clearPendingBuffer \cup Kept
    PROVE  Args!Array(f) \in Seq(Fitting)
<1>1. AnArray(f) \in AllSteps /\ AnArray(f).p[1] = f /\ AnArray(f).p = <<f, 0>>
  BY DEF AnArray, AllSteps, StepKinds
<1>2. AnArray(f) \in Fitting
  BY <1>1 DEF Fitting, Fits
<1> QED
  BY <1>2, Pieces

LEMMA TextFits ==
    ASSUME NEW f \in Fields, NEW i \in Nat, f # "dataProfiles",
           Args!Format = "IGNORE" \/ <<f, i>> \in Args!clearPendingBuffer
    PROVE  /\ AText(f, i) \in Fitting
           /\ Args!Text(f, i) \in Seq(Fitting) /\ Args!Text(f, i)[1] \in Fitting
<1>1. AText(f, i) \in AllSteps /\ AText(f, i).p[1] = f /\ AText(f, i).p = <<f, i>>
  BY DEF AText, AllSteps, StepKinds
<1>2. AText(f, i) \in Fitting
  BY <1>1 DEF Fitting, Fits
<1> QED
  BY <1>2, Pieces

LEMMA TextsFit ==
    ASSUME NEW T, NEW F, NEW fs \in Seq(F), NEW i,
           \A f \in F : AText(f, i) \in T
    PROVE  Args!Texts(fs, i) \in Seq(T)
<1>1. Len(fs) \in Nat /\ DOMAIN fs = 1 .. Len(fs) /\ \A j \in DOMAIN fs : fs[j] \in F
  OBVIOUS
<1>2. \A j \in DOMAIN fs : Args!Text(fs[j], i)[1] \in T
  BY <1>1, Pieces
<1>3. Args!Texts(fs, i) \in [1 .. Len(fs) -> T]
  BY <1>1, <1>2 DEF Args!Texts
<1> QED
  BY <1>1, <1>3

\* The rows of a data profile request.
LEMMA ProfilesFit ==
    ASSUME NEW T, NEW F, NEW fs \in Seq(F), NEW tail \in Seq(T), count \in Nat,
           \A f \in F, i \in 1 .. count : AText(f, i) \in T
    PROVE  Args!PerProfile(fs, tail) \in Seq(T)
<1> DEFINE rows == [i \in 1 .. count |-> Args!Texts(fs, i) \o tail]
<1>1. \A i \in 1 .. count : Args!Texts(fs, i) \in Seq(T)
  BY TextsFit
<1>2. \A i \in 1 .. count : Args!Texts(fs, i) \o tail \in Seq(T)
  BY <1>1, ConcatProperties
<1>3. rows \in [1 .. count -> Seq(T)]
  BY <1>2
<1>4. rows \in Seq(Seq(T))
  BY <1>3
<1> QED
  BY <1>4, Flattened DEF Args!PerProfile

\* Texts that fit a request.
LEMMA AllTextsFit ==
    ASSUME NEW F \in SUBSET Fields, NEW fs \in Seq(F), "dataProfiles" \notin F,
           \A f \in F : Args!Format = "IGNORE" \/ <<f, 0>> \in Args!clearPendingBuffer
    PROVE  Args!Texts(fs, 0) \in Seq(Fitting)
<1>1. \A f \in F : AText(f, 0) \in Fitting
  BY TextFits
<1> QED
  BY <1>1, TextsFit

\* The steps of every request fit it, and the block of the profiles is the first.
LEMMA StepsFit ==
    ASSUME kind \in Args!AllKinds, count \in Nat
    PROVE  /\ Args!Steps \in Seq(Fitting)
           /\ Profiled => Args!Steps # <<>> /\ Args!Steps[1] = AnArray("dataProfiles")
<1>1. CASE kind = "string"
  <2>1. Args!Format \in {"IGNORE", "STR"}
    BY <1>1 DEF Args!Format
  <2>2. Args!Format = "STR" => <<"pString", 0>> \in Args!clearPendingBuffer
    BY DEF Args!clearPendingBuffer
  <2>3. Args!Text("pString", 0) \in Seq(Fitting)
    BY <2>1, <2>2, TextFits DEF Fields
  <2> QED
    BY <1>1, <2>3 DEF Args!Steps, Profiled
<1>2. CASE kind = "strings"
  <2>1. Args!Format \in {"IGNORE", "STRS"}
    BY <1>2 DEF Args!Format
  <2>2. Args!Array("pStrings") \in Seq(Fitting)
    BY ArrayFits DEF Fields, Kept
  <2>3. ASSUME NEW i \in 1 .. count
        PROVE  Args!Text("pStrings", i)[1] \in Fitting
    <3>1. Args!Format = "STRS" => <<"pStrings", i>> \in Args!clearPendingBuffer
      BY DEF Args!clearPendingBuffer
    <3> QED
      BY <2>1, <3>1, TextFits DEF Fields
  <2>4. [i \in 1 .. count |-> Args!Text("pStrings", i)[1]] \in [1 .. count -> Fitting]
    BY <2>3
  <2>5. [i \in 1 .. count |-> Args!Text("pStrings", i)[1]] \in Seq(Fitting)
    BY <2>4
  <2>6. Args!ofStrings \in Seq(Fitting)
    BY <2>2, <2>5, ConcatProperties DEF Args!ofStrings
  <2> QED
    BY <1>2, <2>6 DEF Args!Steps, Profiled
<1>3. CASE kind = "ints"
  <2>1. Args!Array("pInts") \in Seq(Fitting)
    BY ArrayFits DEF Fields, Kept
  <2> QED
    BY <1>3, <2>1 DEF Args!Steps, Profiled
<1>4. CASE kind = "callForward"
  <2>1. Args!Format \in {"IGNORE", "CallFWST"}
    BY <1>4 DEF Args!Format
  <2>2. Args!Format = "CallFWST" => <<"number", 0>> \in Args!clearPendingBuffer
    BY DEF Args!clearPendingBuffer
  <2>3. Args!Text("number", 0) \in Seq(Fitting)
    BY <2>1, <2>2, TextFits DEF Fields
  <2> QED
    BY <1>4, <2>3 DEF Args!Steps, Profiled
<1>5. CASE kind = "iccApdu"
  <2>1. Args!Format \in {"IGNORE", "IccAPDU"}
    BY <1>5 DEF Args!Format
  <2>2. Args!Format = "IccAPDU" => <<"data", 0>> \in Args!clearPendingBuffer
    BY DEF Args!clearPendingBuffer
  <2>3. Args!Text("data", 0) \in Seq(Fitting)
    BY <2>1, <2>2, TextFits DEF Fields
  <2> QED
    BY <1>5, <2>3 DEF Args!Steps, Profiled
<1>6. CASE kind = "dial"
  <2> DEFINE F == {"address", "uusData"}
  <2>1. Args!Format = "IGNORE"
    BY <1>6 DEF Args!Format
  <2>2. <<"address", "uusData">> \in Seq(F)
    OBVIOUS
  <2>3. Args!ofDial \in Seq(Fitting)
    BY <2>1, <2>2, AllTextsFit DEF Fields, Args!ofDial
  <2> QED
    BY <1>6, <2>3 DEF Args!Steps, Profiled
<1>7. CASE kind = "iccIO"
  <2> DEFINE F == {"path", "data", "pin2", "aidPtr"}
  <2>1. Args!Format = "SIMIO"
    BY <1>7 DEF Args!Format
  <2>2. \A f \in F : <<f, 0>> \in Args!clearPendingBuffer
    BY <2>1 DEF Args!clearPendingBuffer
  <2>3. <<"path", "data", "pin2", "aidPtr">> \in Seq(F)
    OBVIOUS
  <2>4. Args!ofIccIO \in Seq(Fitting)
    BY <2>2, <2>3, AllTextsFit DEF Fields, Args!ofIccIO
  <2> QED
    BY <1>7, <2>4 DEF Args!Steps, Profiled
<1>8. CASE kind = "writeSms"
  <2> DEFINE F == {"pdu", "smsc"}
  <2>1. Args!Format = "WrSMSSIM"
    BY <1>8 DEF Args!Format
  <2>2. \A f \in F : <<f, 0>> \in Args!clearPendingBuffer
    BY <2>1 DEF Args!clearPendingBuffer
  <2>3. <<"pdu", "smsc">> \in Seq(F)
    OBVIOUS
  <2>4. Args!ofWriteSms \in Seq(Fitting)
    BY <2>2, <2>3, AllTextsFit DEF Fields, Args!ofWriteSms
  <2> QED
    BY <1>8, <2>4 DEF Args!Steps, Profiled
<1>9. CASE kind = "attachApn"
  <2> DEFINE F == {"apn", "protocol", "username", "password"}
  <2>1. Args!Format = "AttchAPN"
    BY <1>9 DEF Args!Format
  <2>2. \A f \in F : <<f, 0>> \in Args!clearPendingBuffer
    BY <2>1 DEF Args!clearPendingBuffer
  <2>3. <<"apn", "protocol", "username", "password">> \in Seq(F)
    OBVIOUS
  <2>4. Args!ofAttachApn \in Seq(Fitting)
    BY <2>2, <2>3, AllTextsFit DEF Fields, Args!ofAttachApn
  <2> QED
    BY <1>9, <2>4 DEF Args!Steps, Profiled
<1>10. CASE kind = "attachApn15"
  <2> DEFINE F == {"apn", "protocol", "roamingProtocol", "username", "password"}
             fs == <<"apn", "protocol", "roamingProtocol", "username", "password">>
  <2>1. Args!Format = "IGNORE"
    BY <1>10 DEF Args!Format
  <2>2. fs \in Seq(F)
    OBVIOUS
  <2>3. Args!Texts(fs, 0) \in Seq(Fitting)
    BY <2>1, <2>2, AllTextsFit DEF Fields
  <2>4. Args!Text("mvnoMatchData", 0) \in Seq(Fitting)
    BY <2>1, TextFits DEF Fields
  <2>5. Args!ofAttachApn15 \in Seq(Fitting)
    BY <2>3, <2>4, CheckFits, ConcatProperties DEF Args!ofAttachApn15
  <2> QED
    BY <1>10, <2>5 DEF Args!Steps, Profiled
<1>11. CASE kind = "imsGsmSms"
  <2>1. Args!Format = "ImsSms"
    BY <1>11 DEF Args!Format
  <2>2. Args!Array("pStrings") \in Seq(Fitting)
    BY ArrayFits DEF Fields, Kept
  <2>3. <<"pStrings", 1>> \in Args!clearPendingBuffer /\ <<"pStrings", 2>> \in Args!clearPendingBuffer
    BY <2>1 DEF Args!clearPendingBuffer
  <2>4. Args!Text("pStrings", 1) \in Seq(Fitting) /\ Args!Text("pStrings", 2) \in Seq(Fitting)
    BY <2>3, TextFits DEF Fields
  <2>5. Args!ofImsGsmSms \in Seq(Fitting)
    BY <2>2, <2>4, CheckFits, ConcatProperties DEF Args!ofImsGsmSms
  <2> QED
    BY <1>11, <2>5 DEF Args!Steps, Profiled
<1>12. CASE kind = "imsCdmaSms"
  BY <1>12, CheckFits DEF Args!Steps, Profiled
<1>13. CASE kind = "nvWriteItem"
  <2>1. Args!Format = "IGNORE"
    BY <1>13 DEF Args!Format
  <2>2. Args!Text("value", 0) \in Seq(Fitting)
    BY <2>1, TextFits DEF Fields
  <2> QED
    BY <1>13, <2>2 DEF Args!Steps, Profiled
<1>14. CASE kind = "simAuth"
  <2> DEFINE F == {"authData", "aid"}
  <2>1. Args!Format = "SIMAUTH"
    BY <1>14 DEF Args!Format
  <2>2. \A f \in F : <<f, 0>> \in Args!clearPendingBuffer
    BY <2>1 DEF Args!clearPendingBuffer
  <2>3. <<"authData", "aid">> \in Seq(F)
    OBVIOUS
  <2>4. Args!ofSimAuth \in Seq(Fitting)
    BY <2>2, <2>3, AllTextsFit DEF Fields, Args!ofSimAuth
  <2> QED
    BY <1>14, <2>4 DEF Args!Steps, Profiled
<1>15. CASE Profiled
  <2>1. Args!Array("dataProfilePtrs") \in Seq(Fitting)
    BY ArrayFits DEF Fields, Kept
  <2>2. Args!Array("dataProfiles") \in Seq(Fitting)
    <3>1. CASE Args!Format = "IGNORE"
      BY <1>15, <3>1, ArrayFits DEF Fields
    <3>2. CASE count = 0
      BY <1>15, <3>2, ArrayFits DEF Fields, Kept
    <3>3. CASE Args!Format # "IGNORE" /\ count # 0
      <4>1. Args!Format = "DATAPROF"
        BY <1>15, <3>3 DEF Profiled, Args!Format
      <4>2. 1 \in 1 .. count /\ Args!ProfileAddress(1) = <<"dataProfiles", 0>>
        BY <3>3 DEF Args!ProfileAddress
      <4>3. <<"dataProfiles", 0>> \in Args!clearPendingBuffer
        BY <4>1, <4>2 DEF Args!clearPendingBuffer
      <4> QED
        BY <1>15, <4>3, ArrayFits DEF Fields
    <3> QED
      BY <3>1, <3>2, <3>3
  <2> DEFINE both == Args!Array("dataProfiles") \o Args!Array("dataProfilePtrs")
  <2>3. both \in Seq(Fitting)
    BY <2>1, <2>2, ConcatProperties
  <2>4. Len(both) = 2 /\ both[1] = AnArray("dataProfiles")
    BY DEF Args!Array, AnArray
  <2> HIDE DEF both
  <2>5. ASSUME NEW rows \in Seq(Fitting)
        PROVE  /\ both \o rows \in Seq(Fitting) /\ both \o rows # <<>>
               /\ (both \o rows)[1] = AnArray("dataProfiles")
    <3>1. both \o rows \in Seq(Fitting) /\ Len(both \o rows) = Len(both) + Len(rows)
      BY <2>3, ConcatProperties
    <3>2. 1 \in 1 .. Len(both) + Len(rows) /\ 1 <= Len(both) /\ Len(rows) \in Nat
      BY <2>4
    <3>3. (both \o rows)[1] = both[1]
      BY <2>3, <3>2, ConcatProperties
    <3> QED
      BY <2>4, <3>1, <3>2, <3>3
  <2>6. CASE kind = "dataProfile"
    <3> DEFINE F == {"apn", "protocol", "user", "password"}
    <3>1. Args!profileFields \in Seq(F) /\ Args!ToSet(Args!profileFields) = F
      BY DEF Args!profileFields, Args!ToSet
    <3>2. Args!Format = "DATAPROF"
      BY <2>6 DEF Args!Format
    <3>3. ASSUME NEW f \in F, NEW i \in 1 .. count PROVE AText(f, i) \in Fitting
      <4>1. <<f, i>> \in Args!clearPendingBuffer
        BY <3>1, <3>2 DEF Args!clearPendingBuffer
      <4>2. f \in Fields /\ f # "dataProfiles" /\ i \in Nat
        BY DEF Fields
      <4> QED
        BY <4>1, <4>2, TextFits
    <3>4. Args!PerProfile(Args!profileFields, <<>>) \in Seq(Fitting)
      <4>1. <<>> \in Seq(Fitting)
        OBVIOUS
      <4> HIDE DEF F
      <4> QED
        BY <3>1, <3>3, <4>1, ProfilesFit
    <3>5. Args!Steps = both \o Args!PerProfile(Args!profileFields, <<>>)
      BY <2>6 DEF Args!Steps, Args!ofDataProfile, both
    <3> QED
      BY <2>5, <3>4, <3>5
  <2>7. CASE kind = "dataProfile15"
    <3> DEFINE F == {"apn", "protocol", "roamingProtocol", "user", "password", "mvnoMatchData"}
    <3>1. Args!profileFields15 \in Seq(F)
      BY DEF Args!profileFields15
    <3>2. Args!Format = "IGNORE"
      BY <2>7 DEF Args!Format
    <3>3. ASSUME NEW f \in F, NEW i \in 1 .. count PROVE AText(f, i) \in Fitting
      <4>1. f \in Fields /\ f # "dataProfiles" /\ i \in Nat
        BY DEF Fields
      <4> QED
        BY <3>2, <4>1, TextFits
    <3>4. Args!PerProfile(Args!profileFields15, Args!Check) \in Seq(Fitting)
      BY <3>1, <3>3, CheckFits, ProfilesFit
    <3>5. Args!Steps = both \o Args!PerProfile(Args!profileFields15, Args!Check)
      BY <2>7 DEF Args!Steps, Args!ofDataProfile15, both
    <3> QED
      BY <2>5, <3>4, <3>5
  <2> QED
    BY <1>15, <2>6, <2>7 DEF Profiled
<1>16. CASE kind = "carriers"
  <2>1. Args!Format = "IGNORE"
    BY <1>16 DEF Args!Format
  <2>2. /\ Args!Array("allowedCarriers") \in Seq(Fitting)
        /\ Args!Array("excludedCarriers") \in Seq(Fitting)
    BY <2>1, ArrayFits DEF Fields
  <2>3. Args!ofCarriers \in Seq(Fitting)
    BY <2>2, ConcatProperties DEF Args!ofCarriers
  <2> QED
    BY <1>16, <2>3 DEF Args!Steps, Profiled
<1>17. CASE kind \in {"void", "raw", "unsupported", "deviceState"}
  <2>1. Args!Steps = <<>>
    BY <1>17 DEF Args!Steps
  <2> QED
    BY <1>17, <2>1 DEF Profiled
<1> QED
  BY <1>1, <1>2, <1>3, <1>4, <1>5, <1>6, <1>7, <1>8, <1>9, <1>10, <1>11, <1>12, <1>13, <1>14,
     <1>15, <1>16, <1>17 DEF Args!AllKinds, Profiled

\* The request stays the one it is.
LEMMA SameRequest ==
    ASSUME UNCHANGED <<kind, count, proxied>>
    PROVE  /\ Args!Steps' = Args!Steps /\ Args!Format' = Args!Format
           /\ Args!clearPendingBuffer' = Args!clearPendingBuffer
<1>1. Args!Steps' = Args!Steps
  BY DEF Args!Steps, Args!ofStrings, Args!ofDataProfile, Args!ofDataProfile15, Args!PerProfile
<1>2. Args!Format' = Args!Format
  BY DEF Args!Format
<1>3. Args!clearPendingBuffer' = Args!clearPendingBuffer
  BY <1>2 DEF Args!clearPendingBuffer
<1> QED
  BY <1>1, <1>2, <1>3

LEMMA StepsTyped ==
    kind \in Args!AllKinds /\ count \in Nat =>
        Args!Steps \in Seq(AllSteps) /\ Len(Args!Steps) \in Nat
        /\ DOMAIN Args!Steps = 1 .. Len(Args!Steps)
<1> SUFFICES ASSUME kind \in Args!AllKinds, count \in Nat
             PROVE  Args!Steps \in Seq(AllSteps) /\ Len(Args!Steps) \in Nat
                    /\ DOMAIN Args!Steps = 1 .. Len(Args!Steps)
  OBVIOUS
<1>1. Args!Steps \in Seq(Fitting)
  BY StepsFit
<1>2. Fitting \subseteq AllSteps
  BY DEF Fitting
<1>3. Args!Steps \in Seq(AllSteps)
  BY <1>1, <1>2, SeqMonotonic
<1> QED
  BY <1>3

\* A request begins, or finds no memory for its RequestInfo.
LEMMA ArgsBegin ==
    ASSUME Args!ArgsInv, NEW k \in Kinds, Args!Begin(k) \/ Args!BeginFails(k)
    PROVE  Args!ArgsInv'
<1> USE ArgsAssumption
<1>1. kind' \in Args!AllKinds /\ count' \in Nat /\ count' \in 0 .. (MaxStrings + MaxProfiles)
  <2>1. Args!Takes(k) \subseteq 0 .. (MaxStrings + MaxProfiles)
    BY DEF Args!Takes
  <2>2. count' \in Args!Takes(k) \/ count' = 0
    BY DEF Args!Begin, Args!BeginFails
  <2>3. kind' \in Args!AllKinds
    BY DEF Args!Begin, Args!BeginFails
  <2>4. 0 \in 0 .. (MaxStrings + MaxProfiles)
    OBVIOUS
  <2> QED
    BY <2>1, <2>2, <2>3, <2>4
<1>2. (kind \in Args!AllKinds /\ count \in Nat =>
        Args!Steps \in Seq(AllSteps) /\ Len(Args!Steps) \in Nat
        /\ DOMAIN Args!Steps = 1 .. Len(Args!Steps))'
  BY StepsTyped, PTL
<1>3. Len(Args!Steps') \in Nat /\ DOMAIN Args!Steps' = 1 .. Len(Args!Steps')
  BY <1>1, <1>2
<1>4. /\ step' = 0 /\ ptrs' = {} /\ heap' = {} /\ sent' = FALSE /\ answers' = 0
      /\ proxied' \in BOOLEAN /\ badFree' = badFree /\ phase' \in {"build", "crashed", "idle"}
      /\ phase' = "build" => count' \in Args!Takes(k) /\ kind' = k
  BY DEF Args!Begin, Args!BeginFails
<1>5. Args!TypeOK'
  <2>1. step' \in 0 .. (Len(Args!Steps') + 1)
    BY <1>3, <1>4
  <2>2. badFree \in BOOLEAN
    BY DEF Args!ArgsInv, Args!TypeOK
  <2> QED
    BY <1>1, <1>4, <2>1, <2>2 DEF Args!TypeOK
<1>6. Args!BlocksSound'
  BY <1>3, <1>4 DEF Args!BlocksSound, Args!Reached
<1> QED
  BY <1>4, <1>5, <1>6 DEF Args!ArgsInv, Args!NoBadFree, Args!OnlyArraysKept, Args!SentOrRefused,
     Args!Takes

\* What the steps so far may have set, after one more.
LEMMA ReachedNext ==
    ASSUME NEW CONSTANT W, Args!Steps \in Seq(AllSteps), step \in Nat, step < Len(Args!Steps),
           UNCHANGED <<kind, count, proxied>>, step' = step + 1
    PROVE  Args!Reached(W)' = Args!Reached(W)
             \cup (IF Args!Now.what \in W THEN {Args!Now.p} ELSE {})
<1> DEFINE q == Args!Steps
<1>1. Args!Steps' = q
  BY SameRequest
<1>2. DOMAIN q = 1 .. Len(q) /\ Len(q) \in Nat /\ step + 1 \in DOMAIN q
  OBVIOUS
<1> HIDE DEF q
<1>3. {j \in DOMAIN q : j <= step + 1 /\ q[j].what \in W}
        = {j \in DOMAIN q : j <= step /\ q[j].what \in W}
            \cup {j \in {step + 1} : q[j].what \in W}
  BY <1>2
<1>4. Args!Reached(W)' = {q[j].p : j \in {j \in DOMAIN q : j <= step + 1 /\ q[j].what \in W}}
  BY <1>1 DEF Args!Reached
<1>5. Args!Reached(W) = {q[j].p : j \in {j \in DOMAIN q : j <= step /\ q[j].what \in W}}
  BY DEF Args!Reached, q
<1>6. {q[j].p : j \in {j \in {step + 1} : q[j].what \in W}}
        = IF q[step + 1].what \in W THEN {q[step + 1].p} ELSE {}
  OBVIOUS
<1>7. Args!Now = q[step + 1]
  BY DEF Args!Now, q
<1> QED
  BY <1>3, <1>4, <1>5, <1>6, <1>7

\* While a request is built and a step is left nothing has been filled in.
LEMMA BuildFacts ==
    ASSUME Args!ArgsInv, phase = "build"
    PROVE  /\ Args!Steps \in Seq(AllSteps) /\ Args!Steps \in Seq(Fitting)
           /\ Len(Args!Steps) \in Nat /\ DOMAIN Args!Steps = 1 .. Len(Args!Steps)
           /\ step \in 0 .. (Len(Args!Steps) + 1) /\ step \in Nat
           /\ step <= Len(Args!Steps) => Args!Filled = {}
           /\ Args!TypeOK /\ Args!BlocksSound
<1>1. kind \in Args!AllKinds /\ count \in Nat
  BY ArgsAssumption DEF Args!ArgsInv, Args!TypeOK
<1>2. /\ Args!Steps \in Seq(AllSteps) /\ Len(Args!Steps) \in Nat
      /\ DOMAIN Args!Steps = 1 .. Len(Args!Steps) /\ Args!Steps \in Seq(Fitting)
  BY <1>1, StepsTyped, StepsFit
<1>3. step \in 0 .. (Len(Args!Steps) + 1) /\ Args!TypeOK /\ Args!BlocksSound
  BY DEF Args!ArgsInv, Args!TypeOK
<1>4. step \in Nat
  BY <1>2, <1>3
<1>5. step <= Len(Args!Steps) => Args!Filled = {}
  BY <1>2, <1>4 DEF Args!Filled
<1> QED
  BY <1>2, <1>3, <1>4, <1>5

\* A string or an array is allocated, or a step passed without.
LEMMA ArgsBuild ==
    ASSUME Args!ArgsInv, Args!Allocate \/ Args!Pass
    PROVE  Args!ArgsInv'
<1> DEFINE q == Args!Steps
           s == Args!Now
<1>1. /\ phase = "build" /\ step < Len(q) /\ step' = step + 1 /\ phase' = phase
      /\ UNCHANGED <<kind, count, proxied, badFree, sent, answers>>
      /\ \/ s.what \in {"string", "array"} /\ ptrs' = ptrs \cup {s.p} /\ heap' = heap \cup {s.p}
         \/ s.what \in {"string", "check"} /\ ptrs' = ptrs /\ heap' = heap
  BY DEF Args!Allocate, Args!Pass, Args!Building
<1>2. /\ q \in Seq(AllSteps) /\ Len(q) \in Nat /\ step \in Nat /\ Args!TypeOK /\ Args!BlocksSound
      /\ Args!Filled = {}
  BY <1>1, BuildFacts
<1>3. Args!Steps' = q
  BY <1>1, SameRequest
<1>4. /\ Args!Reached({"string", "array"})' = Args!Reached({"string", "array"})
           \cup (IF s.what \in {"string", "array"} THEN {s.p} ELSE {})
      /\ Args!Reached({"array"})' = Args!Reached({"array"})
           \cup (IF s.what \in {"array"} THEN {s.p} ELSE {})
  BY <1>1, <1>2, ReachedNext
<1> HIDE DEF q, s
<1>5. Args!BlocksSound'
  <2>1. /\ heap = ptrs /\ ptrs \subseteq Args!Reached({"string", "array"})
        /\ Args!Reached({"array"}) \subseteq ptrs
    BY <1>1, <1>2 DEF Args!BlocksSound
  <2>2. /\ heap' = ptrs' /\ ptrs' \subseteq Args!Reached({"string", "array"})'
        /\ Args!Reached({"array"})' \subseteq ptrs'
    BY <1>1, <1>4, <2>1
  <2> QED
    BY <1>1, <2>2 DEF Args!BlocksSound
<1>6. Args!TypeOK'
  <2>1. step' \in 0 .. (Len(Args!Steps') + 1)
    BY <1>1, <1>2, <1>3
  <2>2. heap' \subseteq ptrs'
    BY <1>1, <1>2 DEF Args!TypeOK
  <2> QED
    BY <1>1, <1>2, <2>1, <2>2 DEF Args!TypeOK
<1> QED
  BY <1>1, <1>5, <1>6 DEF Args!ArgsInv, Args!NoBadFree, Args!OnlyArraysKept, Args!SentOrRefused,
     Args!Takes

\* Whatever points to the block of the profiles was allocated.
LEMMA ProfilesAllocated ==
    ASSUME Args!ArgsInv, phase \in {"build", "sent"}, NEW j \in DOMAIN Args!Steps, j <= step,
           Args!Steps[j].p[1] = "dataProfiles"
    PROVE  Args!Steps[j].p \in heap
<1>1. kind \in Args!AllKinds /\ count \in Nat /\ Args!BlocksSound
  BY ArgsAssumption DEF Args!ArgsInv, Args!TypeOK
<1>2. Args!Steps[j] \in Fitting
  BY <1>1, StepsFit
<1>3. Args!Steps[j].what \in {"array"}
  BY <1>2 DEF Fitting, Fits, AnArray
<1>4. Args!Steps[j].p \in Args!Reached({"array"})
  BY <1>3 DEF Args!Reached
<1> QED
  BY <1>1, <1>4 DEF Args!BlocksSound

\* A step fails: what the steps so far have set is freed and the request refused.
LEMMA ArgsFails ==
    ASSUME Args!ArgsInv, Args!StepFails \/ Args!Refuse
    PROVE  Args!ArgsInv'
<1>1. /\ phase = "build" /\ phase' = "done" /\ answers' = answers + 1
      /\ UNCHANGED <<kind, count, proxied, step, ptrs, sent>>
  BY DEF Args!StepFails, Args!Refuse, Args!Building, Args!sendErrorResponse
<1>2. /\ Len(Args!Steps) \in Nat /\ DOMAIN Args!Steps = 1 .. Len(Args!Steps) /\ step \in Nat
      /\ Args!TypeOK /\ Args!BlocksSound /\ ~sent /\ answers = 0 /\ badFree = FALSE
  BY <1>1, BuildFacts DEF Args!ArgsInv, Args!NoBadFree, Args!TypeOK
<1>3. heap' = {} /\ badFree' = FALSE
  <2>1. CASE Args!Refuse
    <3>1. Args!Steps = <<>> /\ kind # "attachApn"
      BY <2>1 DEF Args!Refuse, Args!Steps
    <3>2. Args!Reached({"string", "array"}) = {} /\ Args!Filled = {}
      BY <3>1 DEF Args!Reached, Args!Filled
    <3>3. heap = {}
      BY <1>1, <1>2, <3>2 DEF Args!BlocksSound
    <3> QED
      BY <1>2, <2>1, <3>3 DEF Args!Refuse
  <2>2. CASE Args!StepFails
    <3>1. step < Len(Args!Steps)
      BY <2>2 DEF Args!StepFails, Args!Building
    <3>2. Args!Filled = {}
      BY <1>1, <1>2, <3>1, BuildFacts
    <3>3. Args!Reached({"string", "array"}) \subseteq Args!undo
      BY <1>2 DEF Args!Reached, Args!undo
    <3>4. heap \subseteq Args!undo /\ heap = ptrs
      BY <1>1, <1>2, <3>2, <3>3 DEF Args!BlocksSound
    <3>5. ASSUME NEW p \in Args!undo PROVE ~Args!Wild(p)
      <4>1. PICK j \in 1 .. step : p = Args!Steps[j].p
        BY DEF Args!undo
      <4>2. j \in DOMAIN Args!Steps /\ j <= step
        BY <1>2, <3>1, <4>1
      <4>3. p[1] = "dataProfiles" => p \in heap
        BY <1>1, <4>1, <4>2, ProfilesAllocated
      <4> QED
        BY <3>4, <4>3 DEF Args!Wild
    <3> QED
      BY <1>2, <2>2, <3>4, <3>5 DEF Args!StepFails
  <2> QED
    BY <2>1, <2>2
<1>4. Args!Steps' = Args!Steps
  BY <1>1, SameRequest
<1>5. Args!TypeOK'
  <2>1. answers' \in Nat
    BY <1>1, <1>2
  <2>2. badFree' \in BOOLEAN
    BY <1>3
  <2>3. heap' \subseteq ptrs'
    BY <1>3
  <2> QED
    BY <1>1, <1>2, <1>4, <2>1, <2>2, <2>3 DEF Args!TypeOK
<1> QED
  BY <1>1, <1>2, <1>3, <1>5 DEF Args!ArgsInv, Args!NoBadFree, Args!OnlyArraysKept,
     Args!SentOrRefused, Args!BlocksSound

\* Empty strings are filled in for the initial attach APN, or there is no memory.
LEMMA ArgsFillIn ==
    ASSUME Args!ArgsInv, Args!FillIn \/ Args!FillInFails \/ Args!my_enqueue
    PROVE  Args!ArgsInv'
<1>1. /\ phase = "build" /\ UNCHANGED <<kind, count, proxied, badFree, answers>>
      /\ phase' \in {"build", "crashed", "sent"}
  BY DEF Args!FillIn, Args!FillInFails, Args!my_enqueue, Args!Ready
<1>2. /\ Len(Args!Steps) \in Nat /\ DOMAIN Args!Steps = 1 .. Len(Args!Steps) /\ step \in Nat
      /\ step <= Len(Args!Steps) => Args!Filled = {}
      /\ Args!TypeOK /\ Args!BlocksSound /\ ~sent /\ answers = 0
  BY <1>1, BuildFacts DEF Args!ArgsInv
<1>3. Args!Steps' = Args!Steps
  BY <1>1, SameRequest
<1>4. CASE Args!FillIn
  <2>1. kind = "attachApn" /\ step = Len(Args!Steps) /\ step' = step + 1 /\ UNCHANGED sent
    BY <1>4 DEF Args!FillIn
  <2>2. PICK filled \in SUBSET (Args!Pointers \ ptrs) :
          LET new == filled \cup {<<"operatorNumeric", 0>>}
          IN ptrs' = ptrs \cup new /\ heap' = heap \cup new
    BY <1>4 DEF Args!FillIn
  <2>3. \A j \in DOMAIN Args!Steps : Args!Steps[j].what = "string"
    BY <2>1 DEF Args!Steps, Args!ofAttachApn, Args!Texts, Args!Text
  <2>4. /\ Args!Reached({"string", "array"}) = Args!Pointers
        /\ Args!Reached({"string", "array"})' = Args!Pointers
        /\ Args!Reached({"array"})' = {}
    BY <1>2, <1>3, <2>1, <2>3 DEF Args!Reached, Args!Pointers
  <2>5. Args!Filled' = {<<"operatorNumeric", 0>>} /\ Args!Filled = {}
    BY <1>1, <1>2, <1>3, <2>1 DEF Args!Filled
  <2>6. heap' = ptrs' /\ ptrs' \subseteq Args!Pointers \cup {<<"operatorNumeric", 0>>}
    BY <1>1, <1>2, <2>2, <2>4, <2>5 DEF Args!BlocksSound
  <2>7. phase' = "build"
    BY <1>1, <1>4 DEF Args!FillIn
  <2>8. Args!BlocksSound'
    BY <2>4, <2>5, <2>6, <2>7 DEF Args!BlocksSound
  <2>9. Args!TypeOK'
    BY <1>1, <1>2, <1>3, <2>1, <2>6, <2>7 DEF Args!TypeOK
  <2> QED
    BY <1>1, <1>2, <2>1, <2>7, <2>8, <2>9 DEF Args!ArgsInv, Args!NoBadFree, Args!OnlyArraysKept,
       Args!SentOrRefused, Args!Takes
<1>5. CASE Args!FillInFails
  <2>1. phase' = "crashed" /\ UNCHANGED <<step, ptrs, heap, sent>>
    BY <1>5 DEF Args!FillInFails
  <2>2. Args!TypeOK'
    BY <1>1, <1>2, <1>3, <2>1 DEF Args!TypeOK
  <2> QED
    BY <1>1, <2>1, <2>2 DEF Args!ArgsInv, Args!NoBadFree, Args!OnlyArraysKept,
       Args!SentOrRefused, Args!BlocksSound
<1>6. CASE Args!my_enqueue
  <2>1. /\ phase' = "sent" /\ sent' = TRUE /\ UNCHANGED <<step, ptrs, heap>>
        /\ step >= Len(Args!Steps)
    <3>1. step = Len(Args!Steps) \/ step = Len(Args!Steps) + 1
      BY <1>6 DEF Args!my_enqueue, Args!Ready
    <3>2. \A l \in Nat : step = l \/ step = l + 1 => step >= l
      BY <1>2
    <3>3. step >= Len(Args!Steps)
      BY <1>2, <3>1, <3>2
    <3> QED
      BY <1>6, <3>3 DEF Args!my_enqueue
  <2>2. /\ Args!Reached({"string", "array"})' = Args!Reached({"string", "array"})
        /\ Args!Reached({"array"})' = Args!Reached({"array"}) /\ Args!Filled' = Args!Filled
    BY <1>1, <1>3, <2>1 DEF Args!Reached, Args!Filled
  <2>3. Args!BlocksSound'
    BY <1>1, <1>2, <1>3, <2>1, <2>2 DEF Args!BlocksSound
  <2>4. Args!TypeOK'
    BY <1>1, <1>2, <1>3, <2>1 DEF Args!TypeOK
  <2> QED
    BY <1>1, <1>2, <2>1, <2>3, <2>4 DEF Args!ArgsInv, Args!NoBadFree, Args!OnlyArraysKept,
       Args!SentOrRefused, Args!Takes
<1> QED
  BY <1>4, <1>5, <1>6

\* The request is over: clearPendingBuffer and the dispatch function free what
\* was allocated, once, but for the arrays.
LEMMA ArgsCleanUp ==
    ASSUME MaxProfiles <= 1, Args!ArgsInv, Args!CleanUp
    PROVE  Args!ArgsInv'
<1> DEFINE q == Args!Steps
           freed == Args!clearPendingBuffer \cup Args!OwnCleanup
<1>1. /\ phase = "sent" /\ phase' = "done" /\ heap' = heap \ freed
      /\ UNCHANGED <<kind, count, proxied, step, ptrs, sent, answers>>
  BY DEF Args!CleanUp
<1>2. /\ kind \in Args!AllKinds /\ count \in Nat /\ Args!TypeOK /\ Args!BlocksSound
      /\ sent /\ answers = 0 /\ badFree = FALSE /\ count \in Args!Takes(kind)
  BY <1>1, ArgsAssumption DEF Args!ArgsInv, Args!NoBadFree, Args!TypeOK
<1>3. /\ q \in Seq(Fitting) /\ q \in Seq(AllSteps) /\ Len(q) \in Nat /\ DOMAIN q = 1 .. Len(q)
      /\ Profiled => q # <<>> /\ q[1] = AnArray("dataProfiles")
  BY <1>2, StepsFit, StepsTyped
<1>4. heap = ptrs /\ ptrs \subseteq Args!Reached({"string", "array"}) \cup Args!Filled
      /\ step \in Nat /\ step >= Len(q)
  BY <1>1, <1>2, <1>3 DEF Args!BlocksSound, Args!TypeOK
<1>5. \A j \in DOMAIN q : j <= step
  BY <1>3, <1>4
<1> HIDE DEF q
<1>6. ASSUME NEW p \in Args!OwnCleanup PROVE ~Args!Wild(p)
  <2>1. PICK j \in DOMAIN q : p = q[j].p
    BY DEF Args!OwnCleanup, Args!Pointers, q
  <2>2. p[1] = "dataProfiles" => p \in heap
    BY <1>1, <1>5, <2>1, ProfilesAllocated DEF q
  <2> QED
    BY <1>4, <2>2 DEF Args!Wild
<1>7. ASSUME NEW p \in Args!clearPendingBuffer PROVE ~Args!Wild(p)
  <2>1. p[1] = "dataProfiles" =>
          Args!Format = "DATAPROF" /\ \E i \in 1 .. count : p = Args!ProfileAddress(i)
    BY DEF Args!clearPendingBuffer, Args!ToSet, Args!profileFields
  <2>2. ASSUME p[1] = "dataProfiles" PROVE p \in heap
    <3>1. kind = "dataProfile" /\ Profiled
      BY <2>1, <2>2 DEF Args!Format, Profiled
    <3>2. count \in 0 .. 1
      BY <1>2, <3>1, ArgsAssumption DEF Args!Takes
    <3>3. p = <<"dataProfiles", 0>>
      BY <2>1, <2>2, <3>2 DEF Args!ProfileAddress
    <3>4. 1 \in DOMAIN q /\ q[1].p = <<"dataProfiles", 0>>
      BY <1>3, <3>1 DEF AnArray
    <3> QED
      BY <1>1, <1>5, <3>3, <3>4, ProfilesAllocated DEF q
  <2> QED
    BY <1>4, <2>2 DEF Args!Wild
<1>8. Args!clearPendingBuffer \cap Args!OwnCleanup = {}
  BY DEF Args!clearPendingBuffer, Args!OwnCleanup
<1>9. badFree' = FALSE
  BY <1>2, <1>6, <1>7, <1>8 DEF Args!CleanUp
<1>10. heap' \subseteq Kept
  <2> SUFFICES ASSUME NEW p \in ptrs, p \notin freed PROVE p \in Kept
    BY <1>1, <1>4
  <2>1. CASE p \in Args!Filled
    <3>1. kind = "attachApn" /\ p = <<"operatorNumeric", 0>>
      BY <2>1 DEF Args!Filled
    <3>2. Args!Format = "AttchAPN"
      BY <3>1 DEF Args!Format
    <3>3. p \in Args!clearPendingBuffer
      BY <3>1, <3>2 DEF Args!clearPendingBuffer
    <3> QED
      BY <3>3
  <2>2. CASE p \in Args!Reached({"string", "array"})
    <3>1. PICK j \in DOMAIN q : q[j].what \in {"string", "array"} /\ p = q[j].p
      BY <2>2 DEF Args!Reached, q
    <3>2. Fits(q[j])
      BY <1>3 DEF Fitting
    <3>3. CASE Args!Format = "IGNORE"
      BY <3>1, <3>3 DEF Args!OwnCleanup, Args!Pointers, q
    <3>4. CASE Args!Format # "IGNORE"
      BY <3>1, <3>2, <3>4 DEF Fits
    <3> QED
      BY <3>3, <3>4
  <2> QED
    BY <1>4, <2>1, <2>2
<1>11. Args!Steps' = Args!Steps
  BY <1>1, SameRequest
<1>12. Args!TypeOK'
  <2>1. badFree' \in BOOLEAN /\ heap' \subseteq ptrs'
    BY <1>1, <1>4, <1>9
  <2> QED
    BY <1>1, <1>2, <1>11, <2>1 DEF Args!TypeOK
<1> QED
  BY <1>1, <1>2, <1>9, <1>10, <1>12 DEF Args!ArgsInv, Args!NoBadFree, Args!OnlyArraysKept,
     Args!SentOrRefused, Args!BlocksSound, Kept

\* Whichever allocation of a request's arguments fails, only what is allocated is
\* freed, nothing is kept but the arrays clearPendingBuffer forgets, and the request
\* is handed to the vendor or refused, where a request has one profile at most (the
\* dispatch functions of ril_service.cpp, clearPendingBuffer).
THEOREM ArgumentsFreedOnce == MaxProfiles <= 1 => (Spec => []ArgumentsFreed)
<1> SUFFICES ASSUME MaxProfiles <= 1 PROVE Spec => []ArgumentsFreed
  OBVIOUS
<1>1. Init => Args!ArgsInv
  <2> SUFFICES ASSUME Args!Init PROVE Args!ArgsInv
    BY DEF Init
  <2>1. /\ kind = "void" /\ count = 0 /\ proxied = FALSE /\ step = 0 /\ phase = "idle"
        /\ ptrs = {} /\ heap = {} /\ badFree = FALSE /\ sent = FALSE /\ answers = 0
    BY DEF Args!Init
  <2>2. Args!Steps = <<>>
    BY <2>1 DEF Args!Steps
  <2>3. step \in 0 .. (Len(Args!Steps) + 1) /\ count \in 0 .. (MaxStrings + MaxProfiles)
    BY <2>1, <2>2, ArgsAssumption
  <2>4. Args!TypeOK
    BY <2>1, <2>3 DEF Args!TypeOK, Args!AllKinds
  <2> QED
    BY <2>1, <2>4 DEF Args!ArgsInv, Args!NoBadFree, Args!OnlyArraysKept, Args!SentOrRefused,
       Args!BlocksSound
<1>2. Args!ArgsInv /\ [Next]_vars => Args!ArgsInv'
  <2> SUFFICES ASSUME Args!ArgsInv, [Next]_vars
               PROVE  Args!ArgsInv'
    OBVIOUS
  <2>1. CASE Args!Next
    BY <2>1, ArgsBegin, ArgsBuild, ArgsFails, ArgsFillIn, ArgsCleanUp DEF Args!Next
  <2>2. CASE UNCHANGED argsVars
    <3>1. UNCHANGED <<kind, count, proxied, step, ptrs, heap, badFree, sent, answers, phase>>
      BY <2>2 DEF argsVars
    <3>2. Args!Steps' = Args!Steps
      BY <3>1, SameRequest
    <3>3. Args!TypeOK' /\ Args!BlocksSound'
      BY <3>1, <3>2 DEF Args!ArgsInv, Args!TypeOK, Args!BlocksSound, Args!Reached, Args!Filled
    <3> QED
      BY <3>1, <3>3 DEF Args!ArgsInv, Args!NoBadFree, Args!OnlyArraysKept, Args!SentOrRefused,
         Args!Takes
  <2>3. Args!Next \/ UNCHANGED argsVars
    BY DEF Next, vars, InNitz
  <2> QED
    BY <2>1, <2>2, <2>3
<1>3. Args!ArgsInv => ArgumentsFreed
  BY DEF Args!ArgsInv, ArgumentsFreed
<1> QED
  BY <1>1, <1>2, <1>3, PTL DEF Spec

-----------------------------------------------------------------------------
(* The buffer pool.                                                        *)

\* A sequence with an entry put in at one place of it.
LEMMA InsertPlaces ==
    ASSUME NEW S, NEW s \in Seq(S), NEW a \in S, NEW k \in 1 .. Len(s) + 1
    PROVE  LET t == Pool!InsertAt(s, k, a)
           IN  /\ t \in Seq(S) /\ Len(t) = Len(s) + 1 /\ DOMAIN t = 1 .. Len(s) + 1
               /\ \A i \in 1 .. Len(s) + 1 :
                     t[i] = IF i < k THEN s[i] ELSE IF i = k THEN a ELSE s[i - 1]
<1> DEFINE t == Pool!InsertAt(s, k, a)
           u == SubSeq(s, 1, k - 1)
           v == SubSeq(s, k, Len(s))
           w == u \o <<a>>
<1>1. Len(s) \in Nat /\ DOMAIN s = 1 .. Len(s) /\ k \in Nat /\ 1 <= k /\ k <= Len(s) + 1
  OBVIOUS
<1>2. u \in Seq(S) /\ Len(u) = k - 1 /\ \A i \in 1 .. k - 1 : u[i] = s[i]
  BY <1>1
<1>3. /\ v \in Seq(S) /\ Len(v) = Len(s) + 1 - k
      /\ \A i \in 1 .. Len(s) + 1 - k : v[i] = s[k + i - 1]
  BY <1>1
<1> HIDE DEF u, v
<1>4. /\ w \in Seq(S) /\ Len(w) = k /\ w[k] = a
      /\ \A i \in 1 .. k - 1 : w[i] = s[i]
  BY <1>1, <1>2
<1>5. t = w \o v
  BY DEF Pool!InsertAt, u, v
<1> HIDE DEF w
<1>6. /\ t \in Seq(S) /\ Len(t) = Len(w) + Len(v) /\ DOMAIN t = 1 .. Len(t)
      /\ \A i \in 1 .. Len(w) + Len(v) : t[i] = IF i <= Len(w) THEN w[i] ELSE v[i - Len(w)]
  <2>1. w \in Seq(S) /\ v \in Seq(S)
    BY <1>3, <1>4
  <2> QED
    BY <1>5, <2>1, ConcatProperties
<1> HIDE DEF t
<1>7. k + (Len(s) + 1 - k) = Len(s) + 1
  BY <1>1
<1>8. ASSUME NEW i \in 1 .. Len(s) + 1
      PROVE  t[i] = IF i < k THEN s[i] ELSE IF i = k THEN a ELSE s[i - 1]
  <2>1. t[i] = IF i <= k THEN w[i] ELSE v[i - k]
    BY <1>3, <1>4, <1>6, <1>7
  <2>2. CASE i < k
    <3>1. i <= k /\ i \in 1 .. k - 1
      BY <1>1, <2>2
    <3> QED
      BY <1>4, <2>1, <2>2, <3>1
  <2>3. CASE i = k
    BY <1>1, <1>4, <2>1, <2>3
  <2>4. CASE i > k
    <3>1. ~(i <= k) /\ ~(i < k) /\ i # k /\ i - k \in 1 .. Len(s) + 1 - k /\ k + (i - k) - 1 = i - 1
      BY <1>1, <2>4
    <3> QED
      BY <1>3, <2>1, <3>1
  <2> QED
    BY <1>1, <2>2, <2>3, <2>4
<1> QED
  BY <1>3, <1>4, <1>6, <1>7, <1>8 DEF t

\* There are n numbers up to n.
LEMMA UpTo ==
    ASSUME NEW n \in Nat
    PROVE  IsFiniteSet(1 .. n) /\ Cardinality(1 .. n) = n
<1>1. IsFiniteSet(1 .. n) /\ Cardinality(1 .. n) = IF 1 > n THEN 0 ELSE n - 1 + 1
  BY FS_Interval
<1> QED
  BY <1>1

\* The ids after the last one are all the ids.
LEMMA IdsAfter ==
    ASSUME Pool!TypeOK
    PROVE  /\ \A k \in 1 .. MAX_ALLOC_SIZE : Pool!IdAfter(k) \in 1 .. MAX_ALLOC_SIZE
           /\ \A id \in 1 .. MAX_ALLOC_SIZE : \E k \in 1 .. MAX_ALLOC_SIZE : Pool!IdAfter(k) = id
<1> DEFINE n == MAX_ALLOC_SIZE
<1>1. n \in Nat /\ n > 0 /\ mPoolId \in Nat /\ mPoolId <= n
  BY PoolAssumption DEF Pool!TypeOK
<1> HIDE DEF n
<1>2. ASSUME NEW x \in Nat, x < n
      PROVE  x % n = x
  BY <1>1, <1>2, Z3
<1>3. ASSUME NEW x \in Nat, n <= x, x < n + n
      PROVE  x % n = x - n
  BY <1>1, <1>3, Z3
<1>4. (n + n) % n = 0
  BY <1>1, Z3
<1>5. \A k \in 1 .. n : Pool!IdAfter(k) = IF mPoolId + k <= n THEN mPoolId + k ELSE mPoolId + k - n
  <2> SUFFICES ASSUME NEW k \in 1 .. n
               PROVE  Pool!IdAfter(k) = IF mPoolId + k <= n THEN mPoolId + k ELSE mPoolId + k - n
    OBVIOUS
  <2>1. PICK x \in Nat : x = mPoolId + k /\ x > 0 /\ x <= n + n
    BY <1>1
  <2>2. Pool!IdAfter(k) = IF x % n = 0 THEN n ELSE x % n
    BY <2>1 DEF Pool!IdAfter, n
  <2>3. Pool!IdAfter(k) = IF x <= n THEN x ELSE x - n
    <3>1. CASE x < n
      BY <1>1, <1>2, <2>1, <2>2, <3>1
    <3>2. CASE x = n
      BY <1>1, <1>3, <2>1, <2>2, <3>2
    <3>3. CASE n < x /\ x < n + n
      BY <1>1, <1>3, <2>1, <2>2, <3>3
    <3>4. CASE x = n + n
      BY <1>1, <1>4, <2>1, <2>2, <3>4
    <3> QED
      BY <1>1, <2>1, <3>1, <3>2, <3>3, <3>4
  <2> QED
    BY <1>1, <2>1, <2>3
<1>6. ASSUME NEW id \in 1 .. n
      PROVE  \E k \in 1 .. n : Pool!IdAfter(k) = id
  <2>1. CASE id > mPoolId
    <3>1. id - mPoolId \in 1 .. n /\ mPoolId + (id - mPoolId) = id
      BY <1>1, <2>1
    <3> QED
      BY <1>1, <1>5, <3>1
  <2>2. CASE id <= mPoolId
    <3> DEFINE k == n + id - mPoolId
    <3>1. k \in 1 .. n /\ mPoolId + k - n = id /\ ~(mPoolId + k <= n)
      BY <1>1, <2>2
    <3> QED
      BY <1>5, <3>1
  <2> QED
    BY <1>1, <2>1, <2>2
<1>7. \A k \in 1 .. n : Pool!IdAfter(k) \in 1 .. n
  BY <1>1, <1>5
<1> QED
  BY <1>6, <1>7 DEF n

\* While there is room an id is free, and getPoolId finds the next one.
LEMMA FreeId ==
    ASSUME Pool!Types, Pool!Room
    PROVE  Pool!getPoolId \in 1 .. MAX_ALLOC_SIZE /\ Pool!ItemOf(Pool!getPoolId) = {}
<1> DEFINE n == Len(mPoolList)
           id == [i \in 1 .. n |-> item[mPoolList[i]].mId]
           used == {x \in 1 .. MAX_ALLOC_SIZE : Pool!ItemOf(x) # {}}
           steps == {k \in 1 .. MAX_ALLOC_SIZE : Pool!ItemOf(Pool!IdAfter(k)) = {}}
<1>1. /\ n \in Nat /\ DOMAIN mPoolList = 1 .. n /\ n < MAX_ALLOC_SIZE /\ MAX_ALLOC_SIZE \in Nat
      /\ Pool!TypeOK
  BY PoolAssumption DEF Pool!Types, Pool!Room
<1>2. \A x \in used : \E i \in 1 .. n : id[i] = x
  BY <1>1 DEF Pool!ItemOf, Pool!ToSet
<1>3. ~(1 .. MAX_ALLOC_SIZE \subseteq used)
  <2> SUFFICES ASSUME 1 .. MAX_ALLOC_SIZE \subseteq used
               PROVE  FALSE
    OBVIOUS
  <2> DEFINE f == [x \in 1 .. MAX_ALLOC_SIZE |-> CHOOSE i \in 1 .. n : id[i] = x]
  <2>1. \A x \in 1 .. MAX_ALLOC_SIZE : f[x] \in 1 .. n /\ id[f[x]] = x
    BY <1>2
  <2>2. /\ IsFiniteSet(1 .. MAX_ALLOC_SIZE) /\ Cardinality(1 .. MAX_ALLOC_SIZE) = MAX_ALLOC_SIZE
        /\ IsFiniteSet(1 .. n) /\ Cardinality(1 .. n) = n
    BY <1>1, UpTo
  <2>3. f \in [1 .. MAX_ALLOC_SIZE -> 1 .. n]
    BY <2>1
  <2> HIDE DEF f, id, n
  <2>4. \E x, y \in 1 .. MAX_ALLOC_SIZE : x # y /\ f[x] = f[y]
    BY <1>1, <2>2, <2>3, FS_PigeonHole
  <2> QED
    BY <2>1, <2>4
<1>4. steps # {}
  <2>1. PICK x \in 1 .. MAX_ALLOC_SIZE : Pool!ItemOf(x) = {}
    BY <1>3
  <2>2. PICK k \in 1 .. MAX_ALLOC_SIZE : Pool!IdAfter(k) = x
    BY <1>1, IdsAfter
  <2> QED
    BY <2>1, <2>2
<1>5. steps \in SUBSET Nat /\ steps \subseteq 1 .. MAX_ALLOC_SIZE
  OBVIOUS
<1>6. Pool!Min(steps) \in steps
  <2> HIDE DEF steps
  <2>1. \E x \in steps : \A y \in steps : x <= y
    BY <1>4, <1>5, FirstPlace
  <2> QED
    BY <2>1 DEF Pool!Min
<1>7. Pool!getPoolId = Pool!IdAfter(Pool!Min(steps))
  BY DEF Pool!getPoolId
<1> QED
  BY <1>1, <1>6, <1>7, IdsAfter

\* A list that is another with an item put in between.
Inserted(t, list, o) ==
    /\ t \in Seq(Pool!Items) /\ Len(t) = Len(list) + 1
    /\ \E place \in DOMAIN t : t[place] = o
    /\ \A i \in DOMAIN t : t[i] = o \/ \E j \in DOMAIN list : t[i] = list[j]
    /\ \A j \in DOMAIN list : \E i \in DOMAIN t : t[i] = list[j]
    /\ \A i, j \in DOMAIN t :
          t[i] = t[j] => \/ i = j
                         \/ \E l \in DOMAIN list : t[i] = o /\ list[l] = o
                         \/ \E l, m \in DOMAIN list : l # m /\ list[l] = list[m]

\* Insert puts a new item between the others, wherever its id belongs.
LEMMA InsertFacts ==
    ASSUME Pool!Types, NEW o \in Pool!Items, NEW id, Pool!ItemOf(id) = {}
    PROVE  Inserted(Pool!Insert(o, id), mPoolList, o)
<1> DEFINE n == Len(mPoolList)
           t == Pool!Insert(o, id)
           lower == {i \in DOMAIN mPoolList : item[mPoolList[i]].mId < id}
           place == Cardinality(lower) + 1
<1>1. n \in Nat /\ DOMAIN mPoolList = 1 .. n /\ mPoolList \in Seq(Pool!Items)
  BY DEF Pool!Types
<1>2. place \in 1 .. n + 1
  <2>1. IsFiniteSet(1 .. n) /\ Cardinality(1 .. n) = n
    BY <1>1, UpTo
  <2>2. lower \in SUBSET (1 .. n)
    BY <1>1
  <2> HIDE DEF lower
  <2>3. IsFiniteSet(lower) /\ Cardinality(lower) <= n
    BY <2>1, <2>2, FS_Subset
  <2>4. Cardinality(lower) \in Nat
    BY <2>3, FS_CardinalityType
  <2> QED
    BY <1>1, <2>3, <2>4
<1>3. t = Pool!InsertAt(mPoolList, place, o)
  <2>1. Pool!Cardinality(lower) = Cardinality(lower)
    BY Zenon DEF Pool!Cardinality, Cardinality
  <2> QED
    BY <2>1, Zenon DEF Pool!Insert
<1> HIDE DEF t, lower, place
<1>4. /\ t \in Seq(Pool!Items) /\ Len(t) = n + 1 /\ DOMAIN t = 1 .. n + 1
      /\ \A i \in 1 .. n + 1 :
            t[i] = IF i < place THEN mPoolList[i] ELSE IF i = place THEN o ELSE mPoolList[i - 1]
  <2>1. place \in 1 .. Len(mPoolList) + 1 /\ mPoolList \in Seq(Pool!Items)
    BY <1>1, <1>2
  <2>2. LET x == Pool!InsertAt(mPoolList, place, o)
        IN  /\ x \in Seq(Pool!Items) /\ Len(x) = n + 1 /\ DOMAIN x = 1 .. n + 1
            /\ \A i \in 1 .. n + 1 :
                  x[i] = IF i < place THEN mPoolList[i] ELSE IF i = place THEN o ELSE mPoolList[i - 1]
    BY <2>1, InsertPlaces
  <2> QED
    BY <1>3, <2>2
<1> HIDE DEF n
<1>5. t[place] = o /\ place \in DOMAIN t
  BY <1>1, <1>2, <1>4
<1>6. ASSUME NEW i \in DOMAIN t, i # place
      PROVE  \E j \in DOMAIN mPoolList : t[i] = mPoolList[j] /\ j = IF i < place THEN i ELSE i - 1
  <2>1. CASE i < place
    BY <1>1, <1>2, <1>4, <2>1
  <2>2. CASE i > place
    <3>1. i - 1 \in 1 .. n /\ ~(i < place)
      BY <1>1, <1>2, <1>4, <2>2
    <3> QED
      BY <1>1, <1>4, <1>6, <3>1
  <2> QED
    BY <1>2, <1>4, <1>6, <2>1, <2>2
<1>7. ASSUME NEW j \in DOMAIN mPoolList
      PROVE  \E i \in DOMAIN t : t[i] = mPoolList[j]
  <2>1. CASE j < place
    BY <1>1, <1>2, <1>4, <2>1
  <2>2. CASE ~(j < place)
    <3>1. j + 1 \in 1 .. n + 1 /\ ~(j + 1 < place) /\ j + 1 # place /\ (j + 1) - 1 = j
      BY <1>1, <1>2, <2>2
    <3> QED
      BY <1>4, <3>1
  <2> QED
    BY <2>1, <2>2
<1>8. ASSUME NEW i \in DOMAIN t, NEW j \in DOMAIN t, t[i] = t[j], i # j
      PROVE  \/ \E l \in DOMAIN mPoolList : t[i] = o /\ mPoolList[l] = o
             \/ \E l, m \in DOMAIN mPoolList : l # m /\ mPoolList[l] = mPoolList[m]
  <2>1. CASE i = place \/ j = place
    BY <1>5, <1>6, <1>8, <2>1
  <2>2. CASE i # place /\ j # place
    <3>1. (IF i < place THEN i ELSE i - 1) # (IF j < place THEN j ELSE j - 1)
      BY <1>1, <1>2, <1>4, <1>8, <2>2
    <3> QED
      BY <1>6, <1>8, <2>2, <3>1
  <2> QED
    BY <2>1, <2>2
<1> QED
  BY <1>4, <1>5, <1>6, <1>7, <1>8 DEF Inserted, t, n

\* A list that is another without some entry of those that are to go.
Shortened(t, list, items, gone) ==
    /\ t \in Seq(Pool!Items) /\ Len(t) <= Len(list) /\ Len(list) - 1 <= Len(t)
    /\ \A j \in DOMAIN t : \E i \in DOMAIN list : t[j] = list[i] /\ i \notin gone /\ j <= i
    /\ \A i \in DOMAIN list : i \notin gone => \E j \in DOMAIN t : t[j] = list[i]
    /\ \A j, k \in DOMAIN t : items[t[j]].mId = items[t[k]].mId => j = k

\* The item removed is the one of the id that nobody wants; the others move up.
LEMMA RemainingFacts ==
    ASSUME NEW list \in Seq(Pool!Items), NEW items, NEW id,
           \A i, j \in DOMAIN list : items[list[i]].mId = items[list[j]].mId => i = j
    PROVE  Shortened(Pool!Remaining(list, items, id), list, items, Pool!Unwanted(list, items, id))
<1> DEFINE t == Pool!Remaining(list, items, id)
           gone == Pool!Unwanted(list, items, id)
<1>1. Len(list) \in Nat /\ DOMAIN list = 1 .. Len(list)
  OBVIOUS
<1>2. CASE gone = {}
  <2>1. t = list
    BY <1>2 DEF Pool!Remaining
  <2> HIDE DEF t, gone
  <2>2. Shortened(t, list, items, gone)
    BY <1>1, <1>2, <2>1 DEF Shortened
  <2> QED
    BY <2>2 DEF t, gone
<1>3. CASE gone # {}
  <2>1. PICK u \in gone : TRUE
    BY <1>3
  <2>2. u \in DOMAIN list /\ items[list[u]].mId = id
    BY <2>1 DEF Pool!Unwanted
  <2>3. gone = {u}
    BY <2>1, <2>2 DEF Pool!Unwanted
  <2>4. Pool!Min(gone) = u
    <3>1. u <= u
      BY <1>1, <2>2
    <3> QED
      BY <2>3, <3>1 DEF Pool!Min
  <2>5. t = Pool!RemoveAt(list, u)
    BY <1>3, <2>4 DEF Pool!Remaining
  <2>6. t = Sap!RemoveAt(list, u)
    BY <2>5 DEF Pool!RemoveAt, Sap!RemoveAt
  <2> HIDE DEF t, gone
  <2>7. /\ t \in Seq(Pool!Items) /\ Len(t) = Len(list) - 1 /\ DOMAIN t = 1 .. Len(list) - 1
        /\ \A i \in 1 .. Len(list) - 1 : t[i] = IF i < u THEN list[i] ELSE list[i + 1]
    BY <2>2, <2>6, CutPlaces
  <2>8. ASSUME NEW j \in DOMAIN t
        PROVE  \E i \in DOMAIN list : /\ t[j] = list[i] /\ i # u /\ j <= i
                                      /\ i = IF j < u THEN j ELSE j + 1
    <3>1. CASE j < u
      BY <1>1, <2>2, <2>7, <3>1
    <3>2. CASE ~(j < u)
      <4>1. j + 1 \in DOMAIN list /\ j + 1 # u /\ j <= j + 1
        BY <1>1, <2>2, <2>7, <3>2
      <4> QED
        BY <2>7, <3>2, <4>1
    <3> QED
      BY <3>1, <3>2
  <2>9. ASSUME NEW i \in DOMAIN list, i # u
        PROVE  \E j \in DOMAIN t : t[j] = list[i]
    <3>1. CASE i < u
      BY <1>1, <2>2, <2>7, <3>1
    <3>2. CASE i > u
      <4>1. i - 1 \in DOMAIN t /\ ~(i - 1 < u) /\ (i - 1) + 1 = i
        BY <1>1, <2>2, <2>7, <3>2
      <4> QED
        BY <2>7, <4>1
    <3> QED
      BY <1>1, <2>2, <2>9, <3>1, <3>2
  <2>10. ASSUME NEW j \in DOMAIN t, NEW k \in DOMAIN t, items[t[j]].mId = items[t[k]].mId
         PROVE  j = k
    <3>1. (IF j < u THEN j ELSE j + 1) = (IF k < u THEN k ELSE k + 1)
      BY <2>8, <2>10
    <3> QED
      BY <1>1, <2>2, <2>7, <3>1
  <2>11. Shortened(t, list, items, gone)
    BY <1>1, <2>3, <2>7, <2>8, <2>9, <2>10 DEF Shortened
  <2> QED
    BY <2>11 DEF t, gone
<1> QED
  BY <1>2, <1>3

\* The types of the pool's state, told once each.
ItemShape == [mId : 0 .. MAX_ALLOC_SIZE, mProducerToken : Producers \cup {Nobody},
              slots : [Bufs -> Consumers \cup {Nobody}], connected : BOOLEAN]
PoolShape ==
    /\ mPoolList \in Seq(Pool!Items) /\ Len(mPoolList) <= MAX_ALLOC_SIZE
    /\ mPoolId \in 0 .. MAX_ALLOC_SIZE
    /\ item \in [Pool!Items -> ItemShape]
    /\ owned \in [Producers -> SUBSET (1 .. MAX_ALLOC_SIZE)]
    /\ walk # <<>> => walk \in [who : Producers, i : Nat \ {0}, found : 0 .. MAX_ALLOC_SIZE]
    /\ forget # <<>> => forget \in [o : Pool!Items, counted : BOOLEAN]
    /\ raced \in BOOLEAN

LEMMA PoolTypes == Pool!Types <=> PoolShape
<1>1. ASSUME PoolShape
      PROVE  Pool!Types
  <2>1. Pool!ToSet(mPoolList) \subseteq Pool!Items
    BY <1>1 DEF Pool!ToSet, PoolShape
  <2>2. \A o \in Pool!Items : item[o].mId \in 0 .. MAX_ALLOC_SIZE
    BY <1>1 DEF PoolShape, ItemShape
  <2>3. forget # <<>> => forget.o \in Pool!Items
    BY <1>1 DEF PoolShape
  <2> QED
    BY <1>1, <2>1, <2>2, <2>3 DEF PoolShape, ItemShape, Pool!Types, Pool!TypeOK
<1>2. ASSUME Pool!Types
      PROVE  PoolShape
  BY <1>2 DEF PoolShape, ItemShape, Pool!Types, Pool!TypeOK
<1> QED
  BY <1>1, <1>2

\* What is known of an entry of the list.
LEMMA PoolEntry ==
    ASSUME Pool!PoolInv, NEW i \in DOMAIN mPoolList
    PROVE  /\ mPoolList[i] \in Pool!Items /\ item[mPoolList[i]] \in ItemShape
           /\ item[mPoolList[i]].mId \in 1 .. MAX_ALLOC_SIZE
           /\ \A j \in DOMAIN mPoolList : mPoolList[i] = mPoolList[j] => i = j
           /\ Pool!Listed(mPoolList[i])
<1>1. PoolShape /\ Pool!IdsDiffer
  BY PoolTypes DEF Pool!PoolInv
<1>2. mPoolList[i] \in Pool!Items /\ item[mPoolList[i]] \in ItemShape
  BY <1>1 DEF PoolShape
<1>3. item[mPoolList[i]].mId \in 1 .. MAX_ALLOC_SIZE
  BY <1>1, <1>2, PoolAssumption DEF ItemShape, Pool!IdsDiffer
<1>4. \A j \in DOMAIN mPoolList : mPoolList[i] = mPoolList[j] => i = j
  BY <1>1 DEF Pool!IdsDiffer
<1>5. Pool!Listed(mPoolList[i])
  BY DEF Pool!Listed, Pool!ToSet
<1> QED
  BY <1>2, <1>3, <1>4, <1>5

\* A producer gets a new item under an id that is free.
LEMMA PoolAlloc ==
    ASSUME Pool!PoolInv, NEW p \in Producers, Pool!alloc(p) \/ Pool!allocFails(p)
    PROVE  Pool!PoolInv'
<1> DEFINE id == Pool!getPoolId
<1>1. PoolShape /\ Pool!Types /\ Pool!IdsDiffer
  BY PoolTypes DEF Pool!PoolInv
<1>2. id \in 1 .. MAX_ALLOC_SIZE /\ Pool!ItemOf(id) = {} /\ Pool!Room /\ p \notin dead
  BY <1>1, FreeId DEF Pool!alloc, Pool!allocFails
<1>3. UNCHANGED <<dead, walk, forget>> /\ mPoolId' = id
  BY DEF Pool!alloc, Pool!allocFails
<1> HIDE DEF id
<1>4. mPoolId' \in 0 .. MAX_ALLOC_SIZE
  BY <1>2, <1>3, PoolAssumption
<1>5. CASE Pool!allocFails(p)
  <2>1. UNCHANGED <<mPoolList, item, owned, raced>>
    BY <1>5 DEF Pool!allocFails
  <2>2. PoolShape'
    BY <1>1, <1>3, <1>4, <2>1 DEF PoolShape, ItemShape
  <2>3. Pool!Types'
    BY <2>2, PoolTypes, PTL
  <2> QED
    BY <1>3, <2>1, <2>3 DEF Pool!PoolInv, Pool!IdsDiffer, Pool!WalkSound, Pool!OwnersKnown,
       Pool!UnwantedGoes, Pool!OwnedListed
<1>6. CASE Pool!alloc(p)
  <2>1. PICK o \in Pool!Items :
          /\ ~Pool!Listed(o) /\ mPoolList' = Pool!Insert(o, id)
          /\ item' = [item EXCEPT ![o] = [mId |-> id, mProducerToken |-> p,
                             slots |-> [b \in Bufs |-> Nobody], connected |-> FALSE]]
    BY <1>6 DEF Pool!alloc, Pool!Unused, id
  <2>2. /\ owned' = [owned EXCEPT ![p] = @ \cup {id}]
        /\ raced' = (raced \/ walk # <<>>)
    BY <1>6 DEF Pool!alloc, Pool!Race, id
  <2>3. /\ mPoolList' \in Seq(Pool!Items) /\ Len(mPoolList') = Len(mPoolList) + 1
        /\ \E i \in DOMAIN mPoolList' : mPoolList'[i] = o
        /\ \A i \in DOMAIN mPoolList' :
              mPoolList'[i] = o \/ \E j \in DOMAIN mPoolList : mPoolList'[i] = mPoolList[j]
        /\ \A j \in DOMAIN mPoolList : \E i \in DOMAIN mPoolList' : mPoolList'[i] = mPoolList[j]
        /\ \A i, j \in DOMAIN mPoolList' :
              mPoolList'[i] = mPoolList'[j] =>
                 \/ i = j
                 \/ \E l \in DOMAIN mPoolList : mPoolList'[i] = o /\ mPoolList[l] = o
                 \/ \E l, m \in DOMAIN mPoolList : l # m /\ mPoolList[l] = mPoolList[m]
    <3>1. Inserted(mPoolList', mPoolList, o)
      BY <1>1, <1>2, <2>1, InsertFacts
    <3> QED
      BY <3>1 DEF Inserted
  <2>4. /\ item'[o].mId = id /\ item'[o].mProducerToken = p
        /\ item'[o] \in ItemShape
        /\ \A x \in Pool!Items : x # o => item'[x] = item[x]
        /\ item' \in [Pool!Items -> ItemShape]
    <3>1. item \in [Pool!Items -> ItemShape] /\ id \in 0 .. MAX_ALLOC_SIZE
      BY <1>1, <1>2 DEF PoolShape
    <3>2. [mId |-> id, mProducerToken |-> p, slots |-> [b \in Bufs |-> Nobody],
           connected |-> FALSE] \in ItemShape
      BY <3>1 DEF ItemShape
    <3> QED
      BY <2>1, <3>1, <3>2
  <2>5. \A j \in DOMAIN mPoolList : /\ mPoolList[j] # o /\ mPoolList[j] \in Pool!Items
                                    /\ item'[mPoolList[j]] = item[mPoolList[j]]
                                    /\ item[mPoolList[j]].mId # id
    BY <1>2, <2>1, <2>4, PoolEntry DEF Pool!ItemOf, Pool!Listed, Pool!ToSet
  <2>6. /\ \E i \in DOMAIN mPoolList' : mPoolList'[i] = o
        /\ \A i \in DOMAIN mPoolList' :
             mPoolList'[i] = o \/ \E j \in DOMAIN mPoolList : mPoolList'[i] = mPoolList[j]
    BY <2>3
  <2>7. \A j \in DOMAIN mPoolList : \E i \in DOMAIN mPoolList' :
            mPoolList'[i] = mPoolList[j] /\ item'[mPoolList'[i]] = item[mPoolList[j]]
    <3>1. \A j \in DOMAIN mPoolList : \E i \in DOMAIN mPoolList' : mPoolList'[i] = mPoolList[j]
      BY <2>3
    <3> QED
      BY <2>5, <3>1
  <2>8. PoolShape'
    <3>1. owned' \in [Producers -> SUBSET (1 .. MAX_ALLOC_SIZE)] /\ raced' \in BOOLEAN
      BY <1>1, <1>2, <2>2 DEF PoolShape
    <3>2. Len(mPoolList') <= MAX_ALLOC_SIZE
      BY <1>1, <1>2, <2>3, PoolAssumption DEF Pool!Room, PoolShape
    <3> QED
      BY <1>1, <1>3, <1>4, <2>3, <2>4, <3>1, <3>2 DEF PoolShape, ItemShape
  <2>9. Pool!Types'
    BY <2>8, PoolTypes, PTL
  <2>10. Pool!IdsDiffer'
    <3>1. ASSUME NEW i \in DOMAIN mPoolList'
          PROVE  item'[mPoolList'[i]].mId # 0
      <4>1. CASE mPoolList'[i] = o
        BY <1>2, <2>4, <4>1
      <4>2. CASE mPoolList'[i] # o
        BY <1>1, <2>5, <2>6, <4>2 DEF Pool!IdsDiffer
      <4> QED
        BY <4>1, <4>2
    <3>2. ASSUME NEW i \in DOMAIN mPoolList', NEW j \in DOMAIN mPoolList',
                 item'[mPoolList'[i]].mId = item'[mPoolList'[j]].mId
          PROVE  mPoolList'[i] = mPoolList'[j]
      <4>1. \A l \in DOMAIN mPoolList' : item'[mPoolList'[l]].mId = id => mPoolList'[l] = o
        BY <2>5, <2>6
      <4>2. CASE mPoolList'[i] = o \/ mPoolList'[j] = o
        BY <2>4, <3>2, <4>1, <4>2
      <4>3. CASE mPoolList'[i] # o /\ mPoolList'[j] # o
        BY <1>1, <2>5, <2>6, <3>2, <4>3 DEF Pool!IdsDiffer
      <4> QED
        BY <4>2, <4>3
    <3>3. \A l, m \in DOMAIN mPoolList : mPoolList[l] = mPoolList[m] => l = m
      BY PoolEntry
    <3> QED
      BY <2>3, <2>5, <3>1, <3>2, <3>3 DEF Pool!IdsDiffer
  <2>11. Pool!WalkSound'
    BY <1>1, <1>2, <1>3, <2>2 DEF Pool!WalkSound, Pool!PoolInv, PoolShape
  <2>12. ASSUME ~raced'
         PROVE  ~raced /\ walk = <<>> /\ walk' = <<>>
    BY <1>3, <2>2, <2>12
  <2>13. /\ id \in owned'[p] /\ \A q \in Producers : owned[q] \subseteq owned'[q]
         /\ \A q \in Producers : \A x \in owned'[q] : x \in owned[q] \/ (q = p /\ x = id)
    BY <1>1, <2>2 DEF PoolShape
  <2>14. Pool!OwnersKnown'
    <3> SUFFICES ASSUME ~raced', NEW i \in DOMAIN mPoolList',
                        item'[mPoolList'[i]].mProducerToken # Nobody
                 PROVE  item'[mPoolList'[i]].mId \in owned'[item'[mPoolList'[i]].mProducerToken]
      BY DEF Pool!OwnersKnown
    <3>1. CASE mPoolList'[i] = o
      BY <2>4, <2>13, <3>1
    <3>2. CASE mPoolList'[i] # o
      <4>1. PICK j \in DOMAIN mPoolList : mPoolList'[i] = mPoolList[j]
        BY <2>6, <3>2
      <4>2. item[mPoolList[j]].mId \in owned[item[mPoolList[j]].mProducerToken]
        BY <2>5, <2>12, <4>1 DEF Pool!PoolInv, Pool!OwnersKnown
      <4>3. item[mPoolList[j]].mProducerToken \in Producers
        BY <2>5, <4>1, PoolEntry DEF ItemShape
      <4> QED
        BY <2>5, <2>13, <4>1, <4>2, <4>3
    <3> QED
      BY <3>1, <3>2
  <2>15. Pool!UnwantedGoes'
    <3>1. p # Nobody
      BY PoolAssumption
    <3> QED
      BY <1>3, <2>4, <2>5, <2>12, <2>6, <3>1 DEF Pool!PoolInv, Pool!UnwantedGoes
  <2>16. Pool!OwnedListed'
    <3> SUFFICES ASSUME ~raced', NEW q \in Producers, NEW x \in owned'[q]
                 PROVE  \E i \in DOMAIN mPoolList' :
                          /\ item'[mPoolList'[i]].mId = x
                          /\ item'[mPoolList'[i]].mProducerToken = q
      BY DEF Pool!OwnedListed
    <3>1. CASE q = p /\ x = id
      BY <2>4, <2>6, <3>1
    <3>2. CASE x \in owned[q]
      <4>1. PICK j \in DOMAIN mPoolList :
              item[mPoolList[j]].mId = x /\ item[mPoolList[j]].mProducerToken = q
        BY <2>12, <3>2 DEF Pool!PoolInv, Pool!OwnedListed
      <4> QED
        BY <2>7, <4>1
    <3> QED
      BY <2>13, <3>1, <3>2
  <2> QED
    BY <2>9, <2>10, <2>11, <2>14, <2>15, <2>16 DEF Pool!PoolInv
<1> QED
  BY <1>5, <1>6

\* The item of an id that nobody wants: neither a producer nor a consumer.
Leftover(it, id) == it.mId = id /\ it.mProducerToken = Nobody /\ ~it.connected

\* What a step that removes the item of an id leaves.
LEMMA PoolRemoves ==
    ASSUME Pool!PoolInv, NEW id, mPoolList' = Pool!Remaining(mPoolList, item', id),
           \A o \in Pool!Items : item'[o].mId = item[o].mId
    PROVE  /\ mPoolList' \in Seq(Pool!Items) /\ Len(mPoolList') <= MAX_ALLOC_SIZE
           /\ Len(mPoolList) - 1 <= Len(mPoolList')
           /\ \A j \in DOMAIN mPoolList' : \E i \in DOMAIN mPoolList :
                 mPoolList'[j] = mPoolList[i] /\ j <= i /\ ~Leftover(item'[mPoolList[i]], id)
           /\ \A i \in DOMAIN mPoolList : ~Leftover(item'[mPoolList[i]], id) =>
                 \E j \in DOMAIN mPoolList' : mPoolList'[j] = mPoolList[i]
           /\ Pool!IdsDiffer'
<1> DEFINE gone == Pool!Unwanted(mPoolList, item', id)
<1>1. /\ PoolShape /\ Pool!IdsDiffer /\ mPoolList \in Seq(Pool!Items)
      /\ Len(mPoolList) <= MAX_ALLOC_SIZE
  BY PoolTypes DEF Pool!PoolInv, PoolShape
<1>2. \A i \in DOMAIN mPoolList : /\ mPoolList[i] \in Pool!Items
                                  /\ item'[mPoolList[i]].mId = item[mPoolList[i]].mId
  BY PoolEntry
<1>3. \A i, j \in DOMAIN mPoolList :
         item'[mPoolList[i]].mId = item'[mPoolList[j]].mId => i = j
  BY <1>1, <1>2 DEF Pool!IdsDiffer
<1>4. /\ mPoolList' \in Seq(Pool!Items) /\ Len(mPoolList') <= Len(mPoolList)
      /\ Len(mPoolList) - 1 <= Len(mPoolList')
      /\ \A j \in DOMAIN mPoolList' : \E i \in DOMAIN mPoolList :
            mPoolList'[j] = mPoolList[i] /\ i \notin gone /\ j <= i
      /\ \A i \in DOMAIN mPoolList : i \notin gone =>
            \E j \in DOMAIN mPoolList' : mPoolList'[j] = mPoolList[i]
      /\ \A j, k \in DOMAIN mPoolList' :
            item'[mPoolList'[j]].mId = item'[mPoolList'[k]].mId => j = k
  <2>1. Shortened(mPoolList', mPoolList, item', gone)
    BY <1>1, <1>3, RemainingFacts
  <2> QED
    BY <2>1 DEF Shortened
<1>5. \A i \in DOMAIN mPoolList : i \in gone <=> Leftover(item'[mPoolList[i]], id)
  BY DEF Pool!Unwanted, Leftover
<1> HIDE DEF gone
<1>6. Len(mPoolList') <= MAX_ALLOC_SIZE
  BY <1>1, <1>4, PoolAssumption
<1>7. \A j \in DOMAIN mPoolList' : item'[mPoolList'[j]].mId # 0
  <2> SUFFICES ASSUME NEW j \in DOMAIN mPoolList'
               PROVE  item'[mPoolList'[j]].mId # 0
    OBVIOUS
  <2>1. PICK i \in DOMAIN mPoolList : mPoolList'[j] = mPoolList[i]
    BY <1>4
  <2> QED
    BY <1>1, <1>2, <2>1 DEF Pool!IdsDiffer
<1>8. Pool!IdsDiffer'
  BY <1>4, <1>7 DEF Pool!IdsDiffer
<1>9. \A j \in DOMAIN mPoolList' : \E i \in DOMAIN mPoolList :
         mPoolList'[j] = mPoolList[i] /\ j <= i /\ ~Leftover(item'[mPoolList[i]], id)
  BY <1>4, <1>5
<1>10. \A i \in DOMAIN mPoolList : ~Leftover(item'[mPoolList[i]], id) =>
          \E j \in DOMAIN mPoolList' : mPoolList'[j] = mPoolList[i]
  BY <1>4, <1>5
<1> QED
  BY <1>4, <1>6, <1>8, <1>9, <1>10

\* A producer frees its item: nobody's now, it goes unless a consumer is connected.
LEMMA PoolFree ==
    ASSUME Pool!PoolInv, NEW p \in Producers, NEW id, Pool!free(p, id)
    PROVE  Pool!PoolInv'
<1>1. /\ PoolShape /\ mPoolList \in Seq(Pool!Items) /\ item \in [Pool!Items -> ItemShape]
      /\ owned \in [Producers -> SUBSET (1 .. MAX_ALLOC_SIZE)]
  BY PoolTypes DEF Pool!PoolInv, PoolShape
<1>2. /\ p \notin dead /\ id \in owned[p]
      /\ owned' = [owned EXCEPT ![p] = @ \ {id}]
      /\ item' = [o \in Pool!Items |-> IF o \in Pool!ItemOf(id)
                                       THEN [item[o] EXCEPT !.mProducerToken = Nobody] ELSE item[o]]
      /\ mPoolList' = Pool!Remaining(mPoolList, item', id)
      /\ raced' = (raced \/ walk # <<>>) /\ UNCHANGED <<mPoolId, dead, walk, forget>>
  BY DEF Pool!free, Pool!Race
<1>3. \A o \in Pool!Items : /\ item'[o].mId = item[o].mId /\ item'[o].connected = item[o].connected
                            /\ item'[o] \in ItemShape
                            /\ o \in Pool!ItemOf(id) => item'[o].mProducerToken = Nobody
                            /\ o \notin Pool!ItemOf(id) => item'[o] = item[o]
  BY <1>1, <1>2 DEF ItemShape
<1>4. /\ mPoolList' \in Seq(Pool!Items) /\ Len(mPoolList') <= MAX_ALLOC_SIZE
      /\ \A j \in DOMAIN mPoolList' : \E i \in DOMAIN mPoolList :
            mPoolList'[j] = mPoolList[i] /\ ~Leftover(item'[mPoolList[i]], id)
      /\ \A i \in DOMAIN mPoolList : ~Leftover(item'[mPoolList[i]], id) =>
            \E j \in DOMAIN mPoolList' : mPoolList'[j] = mPoolList[i]
      /\ Pool!IdsDiffer'
  <2>1. mPoolList' = Pool!Remaining(mPoolList, item', id)
    BY <1>2
  <2>2. \A o \in Pool!Items : item'[o].mId = item[o].mId
    BY <1>3
  <2>3. \A j \in DOMAIN mPoolList' : \E i \in DOMAIN mPoolList :
           mPoolList'[j] = mPoolList[i] /\ j <= i /\ ~Leftover(item'[mPoolList[i]], id)
    BY <2>1, <2>2, PoolRemoves
  <2> QED
    BY <2>1, <2>2, <2>3, PoolRemoves
<1>5. \A i \in DOMAIN mPoolList :
         mPoolList[i] \in Pool!ItemOf(id) <=> item[mPoolList[i]].mId = id
  <2>1. \A i \in DOMAIN mPoolList : mPoolList[i] \in Pool!ToSet(mPoolList)
    BY DEF Pool!ToSet
  <2> QED
    BY <2>1 DEF Pool!ItemOf
<1>6. Pool!Types'
  <2>1. item' \in [Pool!Items -> ItemShape]
    BY <1>2, <1>3
  <2>2. owned' \in [Producers -> SUBSET (1 .. MAX_ALLOC_SIZE)] /\ raced' \in BOOLEAN
    BY <1>1, <1>2 DEF PoolShape
  <2>3. PoolShape'
    BY <1>1, <1>2, <1>4, <2>1, <2>2 DEF PoolShape, ItemShape
  <2> QED
    BY <2>3, PoolTypes, PTL
<1>7. Pool!WalkSound'
  BY <1>1, <1>2 DEF Pool!WalkSound, Pool!PoolInv, PoolShape
<1>8. ASSUME ~raced'
      PROVE  ~raced /\ walk = <<>> /\ walk' = <<>>
  BY <1>2, <1>8
<1>9. \A q \in Producers : \A x : x \in owned'[q] <=> x \in owned[q] /\ ~(q = p /\ x = id)
  BY <1>1, <1>2
<1>10. Pool!OwnersKnown'
  <2> SUFFICES ASSUME ~raced', NEW j \in DOMAIN mPoolList',
                      item'[mPoolList'[j]].mProducerToken # Nobody
               PROVE  item'[mPoolList'[j]].mId \in owned'[item'[mPoolList'[j]].mProducerToken]
    BY DEF Pool!OwnersKnown
  <2>1. PICK i \in DOMAIN mPoolList : mPoolList'[j] = mPoolList[i]
    BY <1>4
  <2>2. mPoolList[i] \in Pool!Items /\ item[mPoolList[i]] \in ItemShape
    BY PoolEntry
  <2>3. item[mPoolList[i]].mId # id /\ item'[mPoolList[i]] = item[mPoolList[i]]
    BY <1>3, <1>5, <2>1, <2>2
  <2>4. item[mPoolList[i]].mId \in owned[item[mPoolList[i]].mProducerToken]
    BY <1>8, <2>1, <2>3 DEF Pool!PoolInv, Pool!OwnersKnown
  <2>5. item[mPoolList[i]].mProducerToken \in Producers
    BY <2>1, <2>2, <2>3 DEF ItemShape
  <2> QED
    BY <1>9, <2>1, <2>3, <2>4, <2>5
<1>11. Pool!UnwantedGoes'
  <2> SUFFICES ASSUME ~raced', NEW j \in DOMAIN mPoolList',
                      item'[mPoolList'[j]].mProducerToken = Nobody, ~item'[mPoolList'[j]].connected
               PROVE  forget' # <<>> /\ forget'.o = mPoolList'[j]
    BY DEF Pool!UnwantedGoes
  <2>1. PICK i \in DOMAIN mPoolList : mPoolList'[j] = mPoolList[i] /\ ~Leftover(item'[mPoolList[i]], id)
    BY <1>4
  <2>2. mPoolList[i] \in Pool!Items
    BY PoolEntry
  <2>3. item'[mPoolList[i]].mId # id
    BY <2>1 DEF Leftover
  <2>4. item'[mPoolList[i]] = item[mPoolList[i]]
    BY <1>3, <1>5, <2>2, <2>3
  <2>5. forget # <<>> /\ forget.o = mPoolList[i]
    BY <1>8, <2>1, <2>4 DEF Pool!PoolInv, Pool!UnwantedGoes
  <2> QED
    BY <1>2, <2>1, <2>5
<1>12. Pool!OwnedListed'
  <2> SUFFICES ASSUME ~raced', NEW q \in Producers, NEW x \in owned'[q]
               PROVE  \E j \in DOMAIN mPoolList' :
                        /\ item'[mPoolList'[j]].mId = x
                        /\ item'[mPoolList'[j]].mProducerToken = q
    BY DEF Pool!OwnedListed
  <2>1. PICK i \in DOMAIN mPoolList :
          item[mPoolList[i]].mId = x /\ item[mPoolList[i]].mProducerToken = q
    BY <1>8, <1>9 DEF Pool!PoolInv, Pool!OwnedListed
  <2>2. x # id
    <3>1. PICK k \in DOMAIN mPoolList :
            item[mPoolList[k]].mId = id /\ item[mPoolList[k]].mProducerToken = p
      BY <1>2, <1>8 DEF Pool!PoolInv, Pool!OwnedListed
    <3>2. x = id => i = k
      BY <2>1, <3>1 DEF Pool!PoolInv, Pool!IdsDiffer
    <3> QED
      BY <1>9, <2>1, <3>1, <3>2
  <2>3. item'[mPoolList[i]] = item[mPoolList[i]] /\ mPoolList[i] \in Pool!Items
    BY <1>3, <1>5, <2>1, <2>2, PoolEntry
  <2>4. ~Leftover(item'[mPoolList[i]], id)
    BY <2>1, <2>2, <2>3 DEF Leftover
  <2> QED
    BY <1>4, <2>1, <2>3, <2>4
<1> QED
  BY <1>4, <1>6, <1>7, <1>10, <1>11, <1>12 DEF Pool!PoolInv

\* A consumer takes or gives back a buffer.
LEMMA PoolBuffers ==
    ASSUME Pool!PoolInv, NEW o \in Pool!Items,
           (\E b \in Bufs : Pool!release(o, b)) \/ \E c \in Consumers : Pool!acquire(c, o)
    PROVE  Pool!PoolInv'
<1>1. PoolShape /\ item \in [Pool!Items -> ItemShape] /\ item[o] \in ItemShape
  BY PoolTypes DEF Pool!PoolInv, PoolShape
<1>2. UNCHANGED <<mPoolList, mPoolId, owned, dead, walk, forget, raced>>
  BY DEF Pool!release, Pool!acquire
<1>3. /\ item' \in [Pool!Items -> ItemShape]
      /\ \A x \in Pool!Items : /\ item'[x].mId = item[x].mId
                               /\ item'[x].mProducerToken = item[x].mProducerToken
                               /\ item[x].connected => item'[x].connected
  <2>1. CASE \E b \in Bufs : Pool!release(o, b)
    <3>1. PICK b \in Bufs : item' = [item EXCEPT ![o].slots[b] = Nobody]
      BY <2>1 DEF Pool!release
    <3> QED
      BY <1>1, <3>1 DEF ItemShape
  <2>2. ASSUME NEW c \in Consumers, Pool!acquire(c, o)
        PROVE  /\ item' \in [Pool!Items -> ItemShape]
               /\ \A x \in Pool!Items : /\ item'[x].mId = item[x].mId
                                        /\ item'[x].mProducerToken = item[x].mProducerToken
                                        /\ item[x].connected => item'[x].connected
    <3>1. PICK d \in Bufs :
            item' = [item EXCEPT ![o].slots[d] = IF @ = Nobody THEN c ELSE @, ![o].connected = TRUE]
      BY <2>2 DEF Pool!acquire
    <3> QED
      BY <1>1, <3>1 DEF ItemShape
  <2> QED
    BY <2>1, <2>2
<1>4. Pool!Types'
  <2>1. PoolShape'
    BY <1>1, <1>2, <1>3 DEF PoolShape, ItemShape
  <2> QED
    BY <2>1, PoolTypes, PTL
<1>5. \A i \in DOMAIN mPoolList : mPoolList[i] \in Pool!Items
  BY PoolEntry
<1>6. Pool!IdsDiffer' /\ Pool!WalkSound'
  BY <1>2, <1>3, <1>5 DEF Pool!PoolInv, Pool!IdsDiffer, Pool!WalkSound
<1>7. Pool!OwnersKnown' /\ Pool!OwnedListed'
  BY <1>2, <1>3, <1>5 DEF Pool!PoolInv, Pool!OwnersKnown, Pool!OwnedListed
<1>8. Pool!UnwantedGoes'
  BY <1>2, <1>3, <1>5 DEF Pool!PoolInv, Pool!UnwantedGoes
<1> QED
  BY <1>4, <1>6, <1>7, <1>8 DEF Pool!PoolInv

\* A step after which the items nobody wants are of one id, that is removed, or
\* about to be.
LEMMA PoolLetsGo ==
    ASSUME Pool!PoolInv, NEW id, mPoolList' = Pool!Remaining(mPoolList, item', id),
           item' \in [Pool!Items -> ItemShape],
           \A o \in Pool!Items : /\ item'[o].mId = item[o].mId
                                 /\ item'[o].mProducerToken = item[o].mProducerToken,
           raced' = (raced \/ walk # <<>>), UNCHANGED <<mPoolId, owned, dead, walk>>,
           forget' # <<>> => forget' = forget,
           ~raced' => \A i \in DOMAIN mPoolList :
              Leftover(item'[mPoolList[i]], item'[mPoolList[i]].mId) =>
                 item'[mPoolList[i]].mId = id \/ (forget' # <<>> /\ forget'.o = mPoolList[i])
    PROVE  Pool!PoolInv'
<1>1. /\ PoolShape /\ owned \in [Producers -> SUBSET (1 .. MAX_ALLOC_SIZE)]
  BY PoolTypes DEF Pool!PoolInv, PoolShape
<1>2. \A o \in Pool!Items : item'[o].mId = item[o].mId
  OBVIOUS
<1>3. \A j \in DOMAIN mPoolList' : \E i \in DOMAIN mPoolList :
         mPoolList'[j] = mPoolList[i] /\ j <= i /\ ~Leftover(item'[mPoolList[i]], id)
  BY <1>2, PoolRemoves
<1>4. /\ mPoolList' \in Seq(Pool!Items) /\ Len(mPoolList') <= MAX_ALLOC_SIZE
      /\ \A i \in DOMAIN mPoolList : ~Leftover(item'[mPoolList[i]], id) =>
            \E j \in DOMAIN mPoolList' : mPoolList'[j] = mPoolList[i]
      /\ Pool!IdsDiffer'
  BY <1>2, PoolRemoves
<1>5. Pool!Types'
  <2>1. PoolShape'
    BY <1>1, <1>4 DEF PoolShape, ItemShape
  <2> QED
    BY <2>1, PoolTypes, PTL
<1>6. Pool!WalkSound'
  BY <1>1 DEF Pool!WalkSound, Pool!PoolInv, PoolShape
<1>7. ASSUME ~raced'
      PROVE  ~raced /\ walk = <<>> /\ walk' = <<>>
  BY <1>7
<1>8. \A i \in DOMAIN mPoolList : /\ mPoolList[i] \in Pool!Items
                                  /\ item'[mPoolList[i]].mId = item[mPoolList[i]].mId
                                  /\ item'[mPoolList[i]].mProducerToken = item[mPoolList[i]].mProducerToken
  BY PoolEntry
<1>9. Pool!OwnersKnown'
  <2> SUFFICES ASSUME ~raced', NEW j \in DOMAIN mPoolList',
                      item'[mPoolList'[j]].mProducerToken # Nobody
               PROVE  item'[mPoolList'[j]].mId \in owned'[item'[mPoolList'[j]].mProducerToken]
    BY DEF Pool!OwnersKnown
  <2>1. PICK i \in DOMAIN mPoolList : mPoolList'[j] = mPoolList[i]
    BY <1>3
  <2>2. item[mPoolList[i]].mId \in owned[item[mPoolList[i]].mProducerToken]
    BY <1>7, <1>8, <2>1 DEF Pool!PoolInv, Pool!OwnersKnown
  <2> QED
    BY <1>8, <2>1, <2>2
<1>10. Pool!UnwantedGoes'
  <2> SUFFICES ASSUME ~raced', NEW j \in DOMAIN mPoolList',
                      item'[mPoolList'[j]].mProducerToken = Nobody, ~item'[mPoolList'[j]].connected
               PROVE  forget' # <<>> /\ forget'.o = mPoolList'[j]
    BY DEF Pool!UnwantedGoes
  <2>1. PICK i \in DOMAIN mPoolList : mPoolList'[j] = mPoolList[i] /\ ~Leftover(item'[mPoolList[i]], id)
    BY <1>3
  <2>2. item'[mPoolList[i]].mId # id
    BY <2>1 DEF Leftover
  <2>3. Leftover(item'[mPoolList[i]], item'[mPoolList[i]].mId)
    BY <2>1 DEF Leftover
  <2> QED
    BY <2>1, <2>2, <2>3
<1>11. Pool!OwnedListed'
  <2> SUFFICES ASSUME ~raced', NEW q \in Producers, NEW x \in owned[q]
               PROVE  \E j \in DOMAIN mPoolList' :
                        /\ item'[mPoolList'[j]].mId = x
                        /\ item'[mPoolList'[j]].mProducerToken = q
    BY DEF Pool!OwnedListed
  <2>1. PICK i \in DOMAIN mPoolList :
          item[mPoolList[i]].mId = x /\ item[mPoolList[i]].mProducerToken = q
    BY <1>7 DEF Pool!PoolInv, Pool!OwnedListed
  <2>2. ~Leftover(item'[mPoolList[i]], id)
    BY <1>8, <2>1, PoolAssumption DEF Leftover
  <2> QED
    BY <1>4, <1>8, <2>1, <2>2
<1> QED
  BY <1>4, <1>5, <1>6, <1>9, <1>10, <1>11 DEF Pool!PoolInv

\* A consumer lets go of an item, by itself or because it died.
LEMMA PoolDisconnect ==
    ASSUME Pool!PoolInv,
           Pool!RemoveForgotten \/ \E o \in Pool!Items : Pool!disconnect(o)
    PROVE  Pool!PoolInv'
<1>1. PoolShape /\ item \in [Pool!Items -> ItemShape]
  BY PoolTypes DEF Pool!PoolInv, PoolShape
<1>2. CASE Pool!RemoveForgotten
  <2> DEFINE id == item[forget.o].mId
  <2>1. /\ forget # <<>> /\ forget' = <<>> /\ raced' = (raced \/ walk # <<>>)
        /\ UNCHANGED <<item, mPoolId, owned, dead, walk>>
        /\ mPoolList' = Pool!Remaining(mPoolList, item, id)
    BY <1>2 DEF Pool!RemoveForgotten, Pool!Race
  <2>2. mPoolList' = Pool!Remaining(mPoolList, item', id)
    BY <2>1
  <2>3. ASSUME ~raced', NEW i \in DOMAIN mPoolList,
               Leftover(item'[mPoolList[i]], item'[mPoolList[i]].mId)
        PROVE  item'[mPoolList[i]].mId = id
    <3>1. ~raced /\ walk = <<>>
      BY <2>1, <2>3
    <3>2. item[mPoolList[i]].mProducerToken = Nobody /\ ~item[mPoolList[i]].connected
      BY <2>1, <2>3 DEF Leftover
    <3>3. forget.o = mPoolList[i]
      BY <3>1, <3>2 DEF Pool!PoolInv, Pool!UnwantedGoes
    <3> QED
      BY <2>1, <3>3
  <2> HIDE DEF id
  <2> QED
    BY <1>1, <2>1, <2>2, <2>3, PoolLetsGo
<1>3. ASSUME NEW o \in Pool!Items, Pool!disconnect(o)
      PROVE  Pool!PoolInv'
  <2> DEFINE id == item[o].mId
  <2>1. /\ Pool!Listed(o) /\ item' = [item EXCEPT ![o].connected = FALSE]
        /\ mPoolList' = Pool!Remaining(mPoolList, item', id)
        /\ raced' = (raced \/ walk # <<>>)
        /\ UNCHANGED <<mPoolId, owned, dead, walk, forget>>
    BY <1>3 DEF Pool!disconnect, Pool!Race
  <2>2. /\ item' \in [Pool!Items -> ItemShape]
        /\ \A x \in Pool!Items : /\ item'[x].mId = item[x].mId
                                 /\ item'[x].mProducerToken = item[x].mProducerToken
                                 /\ x # o => item'[x] = item[x]
    BY <1>1, <2>1 DEF ItemShape
  <2>3. ASSUME ~raced', NEW i \in DOMAIN mPoolList,
               Leftover(item'[mPoolList[i]], item'[mPoolList[i]].mId)
        PROVE  item'[mPoolList[i]].mId = id \/ (forget' # <<>> /\ forget'.o = mPoolList[i])
    <3>1. CASE mPoolList[i] = o
      BY <2>2, <3>1
    <3>2. CASE mPoolList[i] # o
      <4>1. ~raced /\ walk = <<>>
        BY <2>1, <2>3
      <4>2. item'[mPoolList[i]] = item[mPoolList[i]]
        BY <2>2, <3>2, PoolEntry
      <4>3. item[mPoolList[i]].mProducerToken = Nobody /\ ~item[mPoolList[i]].connected
        BY <2>3, <4>2 DEF Leftover
      <4> QED
        BY <2>1, <4>1, <4>3 DEF Pool!PoolInv, Pool!UnwantedGoes
    <3> QED
      BY <3>1, <3>2
  <2> HIDE DEF id
  <2>4. forget' # <<>> => forget' = forget
    BY <2>1
  <2> QED
    BY <2>1, <2>2, <2>3, <2>4, PoolLetsGo
<1> QED
  BY <1>2, <1>3

\* The death of a consumer is handled: its buffers are released, the others counted.
LEMMA PoolConsumer ==
    ASSUME Pool!PoolInv,
           \/ Pool!CountConsumers
           \/ \E c \in Consumers, o \in Pool!Items : Pool!ConsumerDied(c, o)
    PROVE  Pool!PoolInv'
<1>1. PoolShape /\ item \in [Pool!Items -> ItemShape]
  BY PoolTypes DEF Pool!PoolInv, PoolShape
<1>2. UNCHANGED <<mPoolList, mPoolId, owned, dead, walk, raced>>
  BY DEF Pool!CountConsumers, Pool!ConsumerDied
<1>3. PICK o \in Pool!Items :
        /\ item' \in [Pool!Items -> ItemShape]
        /\ \A x \in Pool!Items : x # o => item'[x] = item[x]
        /\ item'[o].mId = item[o].mId /\ item'[o].mProducerToken = item[o].mProducerToken
        /\ forget # <<>> => forget.o = o
        /\ ~item'[o].connected => forget' # <<>> /\ forget'.o = o
        /\ forget' # <<>> => forget' \in [o : Pool!Items, counted : BOOLEAN]
  <2>1. ASSUME NEW c \in Consumers, NEW o \in Pool!Items, Pool!ConsumerDied(c, o)
        PROVE  /\ item' \in [Pool!Items -> ItemShape]
               /\ \A x \in Pool!Items : x # o => item'[x] = item[x]
               /\ item'[o].mId = item[o].mId /\ item'[o].mProducerToken = item[o].mProducerToken
               /\ forget = <<>> /\ forget' = [o |-> o, counted |-> FALSE]
    <3>1. /\ item' = [item EXCEPT ![o].slots = [b \in Bufs |-> IF @[b] = c THEN Nobody ELSE @[b]],
                                  ![o].connected = FALSE]
          /\ forget = <<>> /\ forget' = [o |-> o, counted |-> FALSE]
      BY <2>1 DEF Pool!ConsumerDied
    <3> DEFINE kept == [b \in Bufs |-> IF item[o].slots[b] = c THEN Nobody ELSE item[o].slots[b]]
    <3>2. item[o] \in ItemShape /\ kept \in [Bufs -> Consumers \cup {Nobody}]
      BY <1>1 DEF ItemShape
    <3>3. item' = [item EXCEPT ![o] = [item[o] EXCEPT !.slots = kept, !.connected = FALSE]]
      BY <1>1, <3>1, <3>2 DEF ItemShape
    <3> HIDE DEF kept
    <3>4. [item[o] EXCEPT !.slots = kept, !.connected = FALSE] \in ItemShape
      BY <3>2 DEF ItemShape
    <3>5. /\ item'[o] = [item[o] EXCEPT !.slots = kept, !.connected = FALSE]
          /\ item' \in [Pool!Items -> ItemShape]
          /\ \A x \in Pool!Items : x # o => item'[x] = item[x]
      BY <1>1, <3>3, <3>4
    <3>6. item'[o].mId = item[o].mId /\ item'[o].mProducerToken = item[o].mProducerToken
      BY <3>2, <3>5 DEF ItemShape
    <3> QED
      BY <3>1, <3>5, <3>6
  <2>2. ASSUME Pool!CountConsumers
        PROVE  /\ item' \in [Pool!Items -> ItemShape] /\ forget.o \in Pool!Items
               /\ \A x \in Pool!Items : x # forget.o => item'[x] = item[x]
               /\ item'[forget.o].mId = item[forget.o].mId
               /\ item'[forget.o].mProducerToken = item[forget.o].mProducerToken
               /\ ~item'[forget.o].connected => forget' # <<>> /\ forget'.o = forget.o
               /\ forget' # <<>> => forget' \in [o : Pool!Items, counted : BOOLEAN]
    <3> DEFINE left == \E b \in Bufs : item[forget.o].slots[b] # Nobody
    <3>1. /\ forget # <<>> /\ item' = [item EXCEPT ![forget.o].connected = left]
          /\ forget' = IF left THEN <<>> ELSE [forget EXCEPT !.counted = TRUE]
      BY <2>2 DEF Pool!CountConsumers
    <3>2. left \in BOOLEAN
      OBVIOUS
    <3> HIDE DEF left
    <3>3. forget \in [o : Pool!Items, counted : BOOLEAN]
      BY <1>1, <3>1 DEF PoolShape
    <3>4. /\ item' \in [Pool!Items -> ItemShape]
          /\ \A x \in Pool!Items : x # forget.o => item'[x] = item[x]
          /\ item'[forget.o].mId = item[forget.o].mId
          /\ item'[forget.o].mProducerToken = item[forget.o].mProducerToken
          /\ item'[forget.o].connected = left
      BY <1>1, <3>1, <3>2, <3>3 DEF ItemShape
    <3>5. CASE left
      BY <3>1, <3>3, <3>4, <3>5
    <3>6. CASE ~left
      <4>1. [forget EXCEPT !.counted = TRUE] # <<>>
        BY <3>3
      <4> QED
        BY <3>1, <3>3, <3>4, <3>6, <4>1
    <3> QED
      BY <3>5, <3>6
  <2>3. CASE Pool!CountConsumers
    BY <2>2, <2>3
  <2>4. CASE \E c \in Consumers, o \in Pool!Items : Pool!ConsumerDied(c, o)
    <3>1. PICK c \in Consumers, o \in Pool!Items : Pool!ConsumerDied(c, o)
      BY <2>4
    <3>2. /\ item' \in [Pool!Items -> ItemShape]
          /\ \A x \in Pool!Items : x # o => item'[x] = item[x]
          /\ item'[o].mId = item[o].mId /\ item'[o].mProducerToken = item[o].mProducerToken
          /\ forget = <<>> /\ forget' = [o |-> o, counted |-> FALSE]
      BY <2>1, <3>1
    <3>3. /\ forget' # <<>> /\ forget'.o = o
          /\ forget' \in [o : Pool!Items, counted : BOOLEAN]
      BY <3>2
    <3> QED
      BY <3>2, <3>3
  <2> QED
    BY <2>3, <2>4
<1>4. Pool!Types'
  <2>1. PoolShape'
    BY <1>1, <1>2, <1>3 DEF PoolShape, ItemShape
  <2> QED
    BY <2>1, PoolTypes, PTL
<1>5. \A i \in DOMAIN mPoolList :
         /\ mPoolList[i] \in Pool!Items /\ item'[mPoolList[i]].mId = item[mPoolList[i]].mId
         /\ item'[mPoolList[i]].mProducerToken = item[mPoolList[i]].mProducerToken
         /\ mPoolList[i] # o => item'[mPoolList[i]] = item[mPoolList[i]]
  BY <1>3, PoolEntry
<1>6. Pool!IdsDiffer' /\ Pool!WalkSound'
  BY <1>2, <1>5 DEF Pool!PoolInv, Pool!IdsDiffer, Pool!WalkSound
<1>7. Pool!OwnersKnown' /\ Pool!OwnedListed'
  BY <1>2, <1>5 DEF Pool!PoolInv, Pool!OwnersKnown, Pool!OwnedListed
<1>8. Pool!UnwantedGoes'
  <2> SUFFICES ASSUME ~raced', NEW i \in DOMAIN mPoolList,
                      item'[mPoolList[i]].mProducerToken = Nobody, ~item'[mPoolList[i]].connected
               PROVE  \/ walk # <<>> /\ walk.found = item'[mPoolList[i]].mId
                      \/ forget' # <<>> /\ forget'.o = mPoolList[i]
    BY <1>2 DEF Pool!UnwantedGoes
  <2>1. CASE mPoolList[i] = o
    BY <1>3, <2>1
  <2>2. CASE mPoolList[i] # o
    BY <1>2, <1>3, <1>5, <2>2 DEF Pool!PoolInv, Pool!UnwantedGoes
  <2> QED
    BY <2>1, <2>2
<1> QED
  BY <1>4, <1>6, <1>7, <1>8 DEF Pool!PoolInv

\* A client dies, and the walk over the list begins for a producer.
LEMMA PoolDeaths ==
    ASSUME Pool!PoolInv,
           \/ \E t \in Producers \cup Consumers : Pool!ClientDies(t)
           \/ \E p \in Producers : Pool!ProducerDied(p)
    PROVE  Pool!PoolInv'
<1>1. /\ PoolShape /\ mPoolList \in Seq(Pool!Items)
      /\ owned \in [Producers -> SUBSET (1 .. MAX_ALLOC_SIZE)]
  BY PoolTypes DEF Pool!PoolInv, PoolShape
<1>2. UNCHANGED <<mPoolList, item, mPoolId, forget, raced>>
  BY DEF Pool!ClientDies, Pool!ProducerDied
<1>3. ASSUME NEW t \in Producers \cup Consumers, Pool!ClientDies(t)
      PROVE  Pool!PoolInv'
  <2>1. dead \subseteq dead' /\ UNCHANGED <<owned, walk>>
    BY <1>3 DEF Pool!ClientDies
  <2>2. PoolShape'
    BY <1>1, <1>2, <2>1 DEF PoolShape, ItemShape
  <2>3. Pool!Types'
    BY <2>2, PoolTypes, PTL
  <2> QED
    BY <1>2, <2>1, <2>3 DEF Pool!PoolInv, Pool!IdsDiffer, Pool!WalkSound, Pool!OwnersKnown,
       Pool!UnwantedGoes, Pool!OwnedListed
<1>4. ASSUME NEW p \in Producers, Pool!ProducerDied(p)
      PROVE  Pool!PoolInv'
  <2>1. /\ p \in dead /\ walk = <<>> /\ owned' = [owned EXCEPT ![p] = {}] /\ dead' = dead
        /\ walk' = IF mPoolList = <<>> THEN <<>>
                   ELSE [who |-> p, i |-> Len(mPoolList), found |-> 0]
    BY <1>4 DEF Pool!ProducerDied
  <2>2. /\ owned' \in [Producers -> SUBSET (1 .. MAX_ALLOC_SIZE)] /\ owned'[p] = {}
        /\ \A q \in Producers : q # p => owned'[q] = owned[q]
    BY <1>1, <2>1
  <2>3. /\ DOMAIN mPoolList = 1 .. Len(mPoolList) /\ Len(mPoolList) \in Nat
        /\ mPoolList # <<>> => Len(mPoolList) \in 1 .. Len(mPoolList)
    BY <1>1
  <2>4. CASE mPoolList = <<>>
    <3>1. walk' = <<>> /\ DOMAIN mPoolList = {}
      BY <2>1, <2>3, <2>4
    <3>2. PoolShape'
      BY <1>1, <1>2, <2>2, <3>1 DEF PoolShape, ItemShape
    <3>3. Pool!Types'
      BY <3>2, PoolTypes, PTL
    <3>4. Pool!IdsDiffer' /\ Pool!WalkSound' /\ Pool!OwnersKnown' /\ Pool!UnwantedGoes'
      BY <1>2, <3>1 DEF Pool!IdsDiffer, Pool!WalkSound, Pool!OwnersKnown, Pool!UnwantedGoes
    <3>5. Pool!OwnedListed'
      BY <1>2, <2>2, <3>1 DEF Pool!PoolInv, Pool!OwnedListed
    <3> QED
      BY <3>3, <3>4, <3>5 DEF Pool!PoolInv
  <2>5. CASE mPoolList # <<>>
    <3>1. /\ walk' = [who |-> p, i |-> Len(mPoolList), found |-> 0]
          /\ walk'.who = p /\ walk'.i = Len(mPoolList) /\ walk'.found = 0 /\ walk' # <<>>
          /\ walk' \in [who : Producers, i : Nat \ {0}, found : 0 .. MAX_ALLOC_SIZE]
      <4>1. walk' = [who |-> p, i |-> Len(mPoolList), found |-> 0]
        BY <2>1, <2>5
      <4>2. Len(mPoolList) \in Nat \ {0} /\ 0 \in 0 .. MAX_ALLOC_SIZE
        BY <2>3, <2>5, PoolAssumption
      <4> QED
        BY <4>1, <4>2
    <3>2. PoolShape'
      BY <1>1, <1>2, <2>2, <3>1 DEF PoolShape, ItemShape
    <3>3. Pool!Types'
      BY <3>2, PoolTypes, PTL
    <3>4. Pool!IdsDiffer' /\ Pool!WalkSound'
      BY <1>2, <2>1, <2>2, <2>3, <2>5, <3>1 DEF Pool!PoolInv, Pool!IdsDiffer, Pool!WalkSound
    <3>5. Pool!OwnersKnown'
      <4> SUFFICES ASSUME ~raced, NEW i \in DOMAIN mPoolList,
                          item[mPoolList[i]].mProducerToken # Nobody
                   PROVE  \/ item[mPoolList[i]].mId \in owned'[item[mPoolList[i]].mProducerToken]
                          \/ item[mPoolList[i]].mProducerToken = p /\ i <= Len(mPoolList)
        BY <1>2, <3>1 DEF Pool!OwnersKnown
      <4>1. item[mPoolList[i]].mId \in owned[item[mPoolList[i]].mProducerToken]
        BY <2>1 DEF Pool!PoolInv, Pool!OwnersKnown
      <4>2. item[mPoolList[i]].mProducerToken \in Producers
        BY PoolEntry DEF ItemShape
      <4> QED
        BY <2>2, <2>3, <4>1, <4>2
    <3>6. Pool!UnwantedGoes' /\ Pool!OwnedListed'
      BY <1>2, <2>1, <2>2 DEF Pool!PoolInv, Pool!UnwantedGoes, Pool!OwnedListed
    <3> QED
      BY <3>3, <3>4, <3>5, <3>6 DEF Pool!PoolInv
  <2> QED
    BY <2>4, <2>5
<1> QED
  BY <1>3, <1>4

\* The walk goes on to the item before, or is over.
LEMMA WalkOn ==
    ASSUME walk \in [who : Producers, i : Nat \ {0}, found : 0 .. MAX_ALLOC_SIZE],
           walk' = IF walk.i - 1 = 0 THEN <<>> ELSE [walk EXCEPT !.i = walk.i - 1, !.found = 0]
    PROVE  /\ walk' # <<>> =>
                /\ walk' \in [who : Producers, i : Nat \ {0}, found : 0 .. MAX_ALLOC_SIZE]
                /\ walk'.who = walk.who /\ walk'.i = walk.i - 1 /\ walk'.found = 0
           /\ walk' = <<>> => walk.i = 1
<1>1. walk.i \in Nat \ {0} /\ 0 \in 0 .. MAX_ALLOC_SIZE
  BY PoolAssumption
<1>2. CASE walk.i - 1 = 0
  BY <1>1, <1>2
<1>3. CASE walk.i - 1 # 0
  <2>1. walk.i - 1 \in Nat \ {0}
    BY <1>1, <1>3
  <2>2. walk' = [walk EXCEPT !.i = walk.i - 1, !.found = 0]
    BY <1>3
  <2>3. /\ walk' \in [who : Producers, i : Nat \ {0}, found : 0 .. MAX_ALLOC_SIZE]
        /\ walk'.who = walk.who /\ walk'.i = walk.i - 1 /\ walk'.found = 0
    BY <1>1, <2>1, <2>2
  <2>4. walk' # <<>>
    <3>1. "who" \in DOMAIN walk' /\ "who" \notin DOMAIN <<>>
      BY <2>3
    <3> QED
      BY <3>1
  <2> QED
    BY <2>3, <2>4
<1> QED
  BY <1>2, <1>3

\* The walk comes to an item: it is nobody's now if it was the dead producer's.
LEMMA PoolCompare ==
    ASSUME Pool!PoolInv, Pool!CompareProducer
    PROVE  Pool!PoolInv'
<1> DEFINE i == walk.i
           o == mPoolList[i]
<1>1. /\ PoolShape /\ item \in [Pool!Items -> ItemShape]
      /\ walk # <<>> /\ walk.found = 0
      /\ walk \in [who : Producers, i : Nat \ {0}, found : 0 .. MAX_ALLOC_SIZE]
      /\ mPoolList \in Seq(Pool!Items)
      /\ UNCHANGED <<mPoolList, mPoolId, owned, dead, forget, raced>>
  BY PoolTypes DEF Pool!PoolInv, PoolShape, Pool!CompareProducer
<1>2. /\ i \in Nat \ {0} /\ walk.who \in Producers /\ DOMAIN mPoolList = 1 .. Len(mPoolList)
      /\ Len(mPoolList) \in Nat /\ walk.who \in dead /\ owned[walk.who] = {}
      /\ ~raced => i \in DOMAIN mPoolList
  BY <1>1 DEF Pool!PoolInv, Pool!WalkSound
<1> HIDE DEF i
<1>3. walk.who # Nobody
  BY <1>2, PoolAssumption
<1>4. CASE i <= Len(mPoolList) /\ item[o].mProducerToken = walk.who
  <2>1. i \in DOMAIN mPoolList /\ o \in Pool!Items /\ item[o] \in ItemShape
        /\ item[o].mId \in 1 .. MAX_ALLOC_SIZE
    BY <1>2, <1>4, PoolEntry
  <2>2. /\ item' = [item EXCEPT ![o].mProducerToken = Nobody]
        /\ walk' = [walk EXCEPT !.found = item[o].mId]
    BY <1>4 DEF Pool!CompareProducer, i
  <2>3. /\ item' \in [Pool!Items -> ItemShape] /\ item'[o].mProducerToken = Nobody
        /\ \A x \in Pool!Items : /\ item'[x].mId = item[x].mId
                                 /\ item'[x].connected = item[x].connected
                                 /\ x # o => item'[x] = item[x]
    BY <1>1, <2>1, <2>2 DEF ItemShape
  <2>4. /\ walk' \in [who : Producers, i : Nat \ {0}, found : 0 .. MAX_ALLOC_SIZE]
        /\ walk' # <<>> /\ walk'.who = walk.who /\ walk'.i = i /\ walk'.found = item[o].mId
        /\ walk'.found # 0
    <3>1. item[o].mId \in 0 .. MAX_ALLOC_SIZE /\ item[o].mId # 0
      BY <2>1, PoolAssumption
    <3>2. /\ walk' \in [who : Producers, i : Nat \ {0}, found : 0 .. MAX_ALLOC_SIZE]
          /\ walk'.who = walk.who /\ walk'.i = i /\ walk'.found = item[o].mId
      BY <1>1, <2>2, <3>1 DEF i
    <3>3. walk' # <<>>
      BY <3>2
    <3> QED
      BY <3>1, <3>2, <3>3
  <2> HIDE DEF o
  <2>5. Pool!Types'
    <3>1. PoolShape'
      BY <1>1, <2>3, <2>4 DEF PoolShape, ItemShape
    <3> QED
      BY <3>1, PoolTypes, PTL
  <2>6. \A j \in DOMAIN mPoolList : /\ mPoolList[j] \in Pool!Items /\ item[mPoolList[j]] \in ItemShape
                                    /\ mPoolList[j] = o <=> j = i
    BY <2>1, PoolEntry DEF o
  <2>7. Pool!IdsDiffer'
    BY <1>1, <2>3, <2>6 DEF Pool!PoolInv, Pool!IdsDiffer
  <2>8. Pool!WalkSound'
    BY <1>1, <1>2, <2>1, <2>3, <2>4 DEF Pool!WalkSound, o
  <2>9. Pool!OwnersKnown'
    <3> SUFFICES ASSUME ~raced, NEW j \in DOMAIN mPoolList,
                        item'[mPoolList[j]].mProducerToken # Nobody
                 PROVE  \/ item'[mPoolList[j]].mId \in owned[item'[mPoolList[j]].mProducerToken]
                        \/ item'[mPoolList[j]].mProducerToken = walk.who /\ j <= i /\ j < i
      BY <1>1, <2>4 DEF Pool!OwnersKnown
    <3>1. item'[mPoolList[j]] = item[mPoolList[j]] /\ j # i
      BY <2>3, <2>6
    <3>2. \/ item[mPoolList[j]].mId \in owned[item[mPoolList[j]].mProducerToken]
          \/ item[mPoolList[j]].mProducerToken = walk.who /\ j <= i
      BY <3>1 DEF Pool!PoolInv, Pool!OwnersKnown, i
    <3> QED
      BY <1>2, <3>1, <3>2
  <2>10. Pool!UnwantedGoes'
    <3> SUFFICES ASSUME ~raced, NEW j \in DOMAIN mPoolList,
                        item'[mPoolList[j]].mProducerToken = Nobody, ~item'[mPoolList[j]].connected
                 PROVE  walk'.found = item'[mPoolList[j]].mId \/ (forget # <<>> /\ forget.o = mPoolList[j])
      BY <1>1, <2>4 DEF Pool!UnwantedGoes
    <3>1. CASE j = i
      BY <2>1, <2>3, <2>4, <2>6, <3>1
    <3>2. CASE j # i
      <4>1. item'[mPoolList[j]] = item[mPoolList[j]]
        BY <2>3, <2>6, <3>2
      <4>2. item[mPoolList[j]].mId # 0
        BY DEF Pool!PoolInv, Pool!IdsDiffer
      <4> QED
        BY <1>1, <4>1, <4>2 DEF Pool!PoolInv, Pool!UnwantedGoes
    <3> QED
      BY <3>1, <3>2
  <2>11. Pool!OwnedListed'
    <3> SUFFICES ASSUME ~raced, NEW q \in Producers, NEW x \in owned[q]
                 PROVE  \E j \in DOMAIN mPoolList :
                          item'[mPoolList[j]].mId = x /\ item'[mPoolList[j]].mProducerToken = q
      BY <1>1 DEF Pool!OwnedListed
    <3>1. PICK j \in DOMAIN mPoolList :
            item[mPoolList[j]].mId = x /\ item[mPoolList[j]].mProducerToken = q
      BY DEF Pool!PoolInv, Pool!OwnedListed
    <3>2. q # walk.who
      BY <1>2
    <3>3. mPoolList[j] # o
      BY <1>4, <3>1, <3>2 DEF o
    <3> QED
      BY <2>3, <2>6, <3>1, <3>3
  <2> QED
    BY <2>5, <2>7, <2>8, <2>9, <2>10, <2>11 DEF Pool!PoolInv
<1>5. CASE ~(i <= Len(mPoolList) /\ item[o].mProducerToken = walk.who)
  <2>1. item' = item /\ walk' = IF i - 1 = 0 THEN <<>> ELSE [walk EXCEPT !.i = i - 1, !.found = 0]
    BY <1>5 DEF Pool!CompareProducer, Pool!Onward, Pool!Step, i
  <2>2. /\ walk' # <<>> => /\ walk' \in [who : Producers, i : Nat \ {0}, found : 0 .. MAX_ALLOC_SIZE]
                           /\ walk'.who = walk.who /\ walk'.i = i - 1 /\ walk'.found = 0
        /\ walk' = <<>> => i = 1
    BY <1>1, <1>2, <2>1, WalkOn DEF i
  <2>3. Pool!Types'
    <3>1. PoolShape'
      BY <1>1, <2>1, <2>2 DEF PoolShape, ItemShape
    <3> QED
      BY <3>1, PoolTypes, PTL
  <2>4. Pool!IdsDiffer' /\ Pool!OwnedListed'
    BY <1>1, <2>1 DEF Pool!PoolInv, Pool!IdsDiffer, Pool!OwnedListed
  <2>5. Pool!WalkSound'
    <3>1. walk' # <<>> /\ ~raced => walk'.i \in DOMAIN mPoolList
      BY <1>2, <2>2
    <3> QED
      BY <1>1, <1>2, <2>2, <3>1 DEF Pool!WalkSound
  <2>6. Pool!UnwantedGoes'
    <3>1. ASSUME ~raced, NEW j \in DOMAIN mPoolList,
                 item[mPoolList[j]].mProducerToken = Nobody, ~item[mPoolList[j]].connected
          PROVE  forget # <<>> /\ forget.o = mPoolList[j]
      <4>1. item[mPoolList[j]].mId # 0
        BY DEF Pool!PoolInv, Pool!IdsDiffer
      <4> QED
        BY <1>1, <3>1, <4>1 DEF Pool!PoolInv, Pool!UnwantedGoes
    <3> QED
      BY <1>1, <2>1, <3>1 DEF Pool!UnwantedGoes
  <2>7. Pool!OwnersKnown'
    <3> SUFFICES ASSUME ~raced, NEW j \in DOMAIN mPoolList,
                        item[mPoolList[j]].mProducerToken # Nobody,
                        item[mPoolList[j]].mId \notin owned[item[mPoolList[j]].mProducerToken]
                 PROVE  walk' # <<>> /\ item[mPoolList[j]].mProducerToken = walk.who /\ j <= i - 1
      BY <1>1, <2>1, <2>2 DEF Pool!OwnersKnown
    <3>1. item[mPoolList[j]].mProducerToken = walk.who /\ j <= i
      BY DEF Pool!PoolInv, Pool!OwnersKnown, i
    <3>2. j # i
      BY <1>2, <1>5, <3>1
    <3> QED
      BY <1>2, <2>2, <3>1, <3>2
  <2> QED
    BY <2>3, <2>4, <2>5, <2>6, <2>7 DEF Pool!PoolInv
<1> QED
  BY <1>4, <1>5

\* The item the walk has found goes, if no consumer is connected.
LEMMA PoolRemoveFound ==
    ASSUME Pool!PoolInv, Pool!RemoveFound
    PROVE  Pool!PoolInv'
<1> DEFINE i == walk.i
           id == walk.found
<1>1. /\ PoolShape /\ item \in [Pool!Items -> ItemShape]
      /\ walk # <<>> /\ id # 0 /\ mPoolList' = Pool!Remaining(mPoolList, item, id)
      /\ walk \in [who : Producers, i : Nat \ {0}, found : 0 .. MAX_ALLOC_SIZE]
      /\ mPoolList \in Seq(Pool!Items)
      /\ walk' = IF i - 1 = 0 THEN <<>> ELSE [walk EXCEPT !.i = i - 1, !.found = 0]
      /\ UNCHANGED <<item, mPoolId, owned, dead, forget, raced>>
  BY PoolTypes DEF Pool!PoolInv, PoolShape, Pool!RemoveFound, Pool!Onward, Pool!Step
<1>2. /\ walk' # <<>> => /\ walk' \in [who : Producers, i : Nat \ {0}, found : 0 .. MAX_ALLOC_SIZE]
                         /\ walk'.who = walk.who /\ walk'.i = i - 1 /\ walk'.found = 0
      /\ walk' = <<>> => i = 1
  BY <1>1, WalkOn
<1>3. /\ i \in Nat \ {0} /\ walk.who \in Producers /\ DOMAIN mPoolList = 1 .. Len(mPoolList)
      /\ Len(mPoolList) \in Nat /\ walk.who \in dead /\ owned[walk.who] = {}
      /\ ~raced => i \in DOMAIN mPoolList
  BY <1>1 DEF Pool!PoolInv, Pool!WalkSound
<1> HIDE DEF i, id
<1>4. mPoolList' = Pool!Remaining(mPoolList, item', id) /\ \A o \in Pool!Items : item'[o].mId = item[o].mId
  BY <1>1
<1>5. /\ mPoolList' \in Seq(Pool!Items) /\ Len(mPoolList') <= MAX_ALLOC_SIZE
      /\ Len(mPoolList) - 1 <= Len(mPoolList')
      /\ Pool!IdsDiffer'
  BY <1>4, PoolRemoves
<1>6. \A j \in DOMAIN mPoolList' : \E k \in DOMAIN mPoolList :
         mPoolList'[j] = mPoolList[k] /\ j <= k /\ ~Leftover(item[mPoolList[k]], id)
  <2>1. \A j \in DOMAIN mPoolList' : \E k \in DOMAIN mPoolList :
           mPoolList'[j] = mPoolList[k] /\ j <= k /\ ~Leftover(item'[mPoolList[k]], id)
    BY <1>4, PoolRemoves
  <2> QED
    BY <1>1, <2>1
<1>7. \A k \in DOMAIN mPoolList : ~Leftover(item[mPoolList[k]], id) =>
         \E j \in DOMAIN mPoolList' : mPoolList'[j] = mPoolList[k]
  <2>1. \A k \in DOMAIN mPoolList : ~Leftover(item'[mPoolList[k]], id) =>
           \E j \in DOMAIN mPoolList' : mPoolList'[j] = mPoolList[k]
    BY <1>4, PoolRemoves
  <2> QED
    BY <1>1, <2>1
<1>8. Pool!Types'
  <2>1. PoolShape'
    BY <1>1, <1>2, <1>5 DEF PoolShape, ItemShape
  <2> QED
    BY <2>1, PoolTypes, PTL
<1>9. Pool!WalkSound'
  <2>1. ASSUME walk' # <<>>, ~raced
        PROVE  walk'.i \in DOMAIN mPoolList'
    <3>1. DOMAIN mPoolList' = 1 .. Len(mPoolList') /\ Len(mPoolList') \in Nat
      BY <1>5
    <3>2. i - 1 \in Nat \ {0} /\ i <= Len(mPoolList)
      BY <1>2, <1>3, <2>1
    <3> QED
      BY <1>2, <1>3, <1>5, <2>1, <3>1, <3>2
  <2> QED
    BY <1>1, <1>2, <1>3, <2>1 DEF Pool!WalkSound
<1>10. Pool!OwnersKnown'
  <2> SUFFICES ASSUME ~raced, NEW j \in DOMAIN mPoolList',
                      item[mPoolList'[j]].mProducerToken # Nobody,
                      item[mPoolList'[j]].mId \notin owned[item[mPoolList'[j]].mProducerToken]
               PROVE  walk' # <<>> /\ item[mPoolList'[j]].mProducerToken = walk.who /\ j <= i - 1
    BY <1>1, <1>2 DEF Pool!OwnersKnown
  <2>1. PICK k \in DOMAIN mPoolList : mPoolList'[j] = mPoolList[k] /\ j <= k
    BY <1>6
  <2>2. item[mPoolList[k]].mProducerToken = walk.who /\ k < i
    BY <1>1, <2>1 DEF Pool!PoolInv, Pool!OwnersKnown, i, id
  <2>3. j \in Nat \ {0} /\ k \in Nat
    BY <1>3, <1>5
  <2> QED
    BY <1>2, <1>3, <2>1, <2>2, <2>3
<1>11. Pool!UnwantedGoes'
  <2> SUFFICES ASSUME ~raced, NEW j \in DOMAIN mPoolList',
                      item[mPoolList'[j]].mProducerToken = Nobody, ~item[mPoolList'[j]].connected
               PROVE  forget # <<>> /\ forget.o = mPoolList'[j]
    BY <1>1 DEF Pool!UnwantedGoes
  <2>1. PICK k \in DOMAIN mPoolList : mPoolList'[j] = mPoolList[k] /\ ~Leftover(item[mPoolList[k]], id)
    BY <1>6
  <2>2. item[mPoolList[k]].mId # id
    BY <2>1 DEF Leftover
  <2> QED
    BY <2>1, <2>2 DEF Pool!PoolInv, Pool!UnwantedGoes, id
<1>12. Pool!OwnedListed'
  <2> SUFFICES ASSUME ~raced, NEW q \in Producers, NEW x \in owned[q]
               PROVE  \E j \in DOMAIN mPoolList' :
                        item[mPoolList'[j]].mId = x /\ item[mPoolList'[j]].mProducerToken = q
    BY <1>1 DEF Pool!OwnedListed
  <2>1. PICK k \in DOMAIN mPoolList :
          item[mPoolList[k]].mId = x /\ item[mPoolList[k]].mProducerToken = q
    BY DEF Pool!PoolInv, Pool!OwnedListed
  <2>2. ~Leftover(item[mPoolList[k]], id)
    BY <2>1, PoolAssumption DEF Leftover
  <2> QED
    BY <1>7, <2>1, <2>2
<1> QED
  BY <1>5, <1>8, <1>9, <1>10, <1>11, <1>12 DEF Pool!PoolInv

\* GuiExtPool::alloc, free, acquire, disconnect and the death observers: while the
\* list does not change under the death of a producer, a living producer finds its
\* own pool under the id it was given, however ids are given out again, and no pool
\* is left that neither a producer nor a consumer can free.
THEOREM PoolsKeptAlive == Spec => []PoolsKept
<1>1. Init => Pool!PoolInv
  <2> SUFFICES ASSUME Pool!Init
               PROVE  Pool!PoolInv
    BY DEF Init
  <2>1. /\ mPoolList = <<>> /\ item = [o \in Pool!Items |-> Pool!Gone] /\ mPoolId = 0
        /\ owned = [p \in Producers |-> {}] /\ walk = <<>> /\ forget = <<>> /\ raced = FALSE
    BY DEF Pool!Init
  <2>2. Pool!Gone \in ItemShape
    BY PoolAssumption DEF Pool!Gone, ItemShape
  <2>3. mPoolList \in Seq(Pool!Items) /\ Len(mPoolList) = 0 /\ DOMAIN mPoolList = {}
    BY <2>1
  <2>4. Pool!Types
    <3>1. 0 \in 0 .. MAX_ALLOC_SIZE /\ 0 <= MAX_ALLOC_SIZE
      BY PoolAssumption
    <3>2. item \in [Pool!Items -> ItemShape]
      BY <2>1, <2>2
    <3>3. owned \in [Producers -> SUBSET (1 .. MAX_ALLOC_SIZE)]
      BY <2>1
    <3>4. mPoolList \in Seq(Pool!Items) /\ Len(mPoolList) <= MAX_ALLOC_SIZE
      BY <2>3, <3>1
    <3>5. mPoolId \in 0 .. MAX_ALLOC_SIZE /\ walk = <<>> /\ forget = <<>> /\ raced \in BOOLEAN
      BY <2>1, <3>1
    <3>6. PoolShape
      BY <3>2, <3>3, <3>4, <3>5 DEF PoolShape
    <3> QED
      BY <3>6, PoolTypes
  <2> QED
    BY <2>1, <2>3, <2>4 DEF Pool!PoolInv, Pool!IdsDiffer, Pool!WalkSound, Pool!OwnersKnown,
       Pool!UnwantedGoes, Pool!OwnedListed
<1>2. Pool!PoolInv /\ [Next]_vars => Pool!PoolInv'
  <2> SUFFICES ASSUME Pool!PoolInv, [Next]_vars
               PROVE  Pool!PoolInv'
    OBVIOUS
  <2>1. CASE Pool!Next
    <3>1. ASSUME NEW p \in Producers, Pool!alloc(p) \/ Pool!allocFails(p)
          PROVE  Pool!PoolInv'
      BY <3>1, PoolAlloc
    <3>2. ASSUME NEW p \in Producers, NEW id \in 1 .. MAX_ALLOC_SIZE, Pool!free(p, id)
          PROVE  Pool!PoolInv'
      BY <3>2, PoolFree
    <3>3. ASSUME NEW o \in Pool!Items, (\E b \in Bufs : Pool!release(o, b))
                                       \/ \E c \in Consumers : Pool!acquire(c, o)
          PROVE  Pool!PoolInv'
      BY <3>3, PoolBuffers
    <3>4. CASE Pool!RemoveForgotten \/ \E o \in Pool!Items : Pool!disconnect(o)
      BY <3>4, PoolDisconnect
    <3>5. CASE Pool!CountConsumers \/ \E c \in Consumers, o \in Pool!Items : Pool!ConsumerDied(c, o)
      BY <3>5, PoolConsumer
    <3>6. CASE \/ \E t \in Producers \cup Consumers : Pool!ClientDies(t)
               \/ \E p \in Producers : Pool!ProducerDied(p)
      BY <3>6, PoolDeaths
    <3>7. CASE Pool!CompareProducer
      BY <3>7, PoolCompare
    <3>8. CASE Pool!RemoveFound
      BY <3>8, PoolRemoveFound
    <3> QED
      BY <2>1, <3>1, <3>2, <3>3, <3>4, <3>5, <3>6, <3>7, <3>8 DEF Pool!Next
  <2>2. CASE UNCHANGED poolVars
    <3>1. PoolShape'
      BY <2>2, PoolTypes DEF poolVars, Pool!PoolInv, PoolShape, ItemShape
    <3>2. Pool!Types'
      BY <3>1, PoolTypes, PTL
    <3> QED
      BY <2>2, <3>2 DEF poolVars, Pool!PoolInv, Pool!IdsDiffer, Pool!WalkSound, Pool!OwnersKnown,
         Pool!UnwantedGoes, Pool!OwnedListed
  <2>3. Pool!Next \/ UNCHANGED poolVars
    BY DEF Next, vars, InNitz
  <2> QED
    BY <2>1, <2>2, <2>3
<1>3. Pool!PoolInv => PoolsKept
  <2> SUFFICES ASSUME Pool!PoolInv
               PROVE  PoolsKept
    OBVIOUS
  <2>1. Pool!TypeOK
    BY DEF Pool!PoolInv, Pool!Types
  <2>2. Pool!OwnPoolKept
    <3> SUFFICES ASSUME ~raced, NEW p \in Producers, NEW id \in owned[p]
                 PROVE  \E o \in Pool!Items :
                          Pool!Listed(o) /\ item[o].mId = id /\ item[o].mProducerToken = p
      BY DEF Pool!OwnPoolKept
    <3>1. PICK i \in DOMAIN mPoolList :
            item[mPoolList[i]].mId = id /\ item[mPoolList[i]].mProducerToken = p
      BY DEF Pool!PoolInv, Pool!OwnedListed
    <3> QED
      BY <3>1, PoolEntry
  <2>3. Pool!NothingLeftOver
    <3> SUFFICES ASSUME ~raced, walk = <<>>, forget = <<>>,
                        \A p \in dead \cap Producers : owned[p] = {},
                        NEW o \in Pool!ToSet(mPoolList)
                 PROVE  item[o].mProducerToken \in Producers \ dead \/ item[o].connected
      BY DEF Pool!NothingLeftOver
    <3>1. PICK i \in DOMAIN mPoolList : o = mPoolList[i]
      BY DEF Pool!ToSet
    <3>2. item[o] \in ItemShape
      BY <3>1, PoolEntry
    <3>3. CASE item[o].mProducerToken = Nobody
      BY <3>1, <3>2, <3>3 DEF Pool!PoolInv, Pool!UnwantedGoes, ItemShape
    <3>4. CASE item[o].mProducerToken # Nobody
      <4>1. item[o].mId \in owned[item[o].mProducerToken]
        BY <3>1, <3>4 DEF Pool!PoolInv, Pool!OwnersKnown
      <4>2. item[o].mProducerToken \in Producers
        BY <3>2, <3>4 DEF ItemShape
      <4> QED
        BY <4>1, <4>2
    <3> QED
      BY <3>3, <3>4
  <2> QED
    BY <2>1, <2>2, <2>3 DEF PoolsKept
<1> QED
  BY <1>1, <1>2, <1>3, PTL DEF Spec

==============================================================================
