---------------------------- MODULE DeviceProofs ----------------------------
(***************************************************************************)
(* Proofs about the set-up of the bluetooth controller, for any number of   *)
(* sessions, kinds of chips and generated addresses, and about a session of *)
(* the GPS HAL, for any number of waiting messages and of failures.         *)
(***************************************************************************)
EXTENDS MCDevices, SequenceTheorems, TLAPS

\* The scripts: the chip's address is asked for first, if at all.
LEMMA ScriptFacts ==
    ASSUME chip \in DOMAIN Bt!Scripts
    PROVE  /\ Len(Bt!Script) \in 0..4 /\ DOMAIN Bt!Script = 1..Len(Bt!Script)
           /\ \A i \in DOMAIN Bt!Script : Bt!Script[i] = "get" => i = 1 /\ chip = "combo"
           /\ chip = "combo" => Bt!Script[1] = "get"
           /\ chip = "none" => DOMAIN Bt!Script = {}
<1>1. chip \in {"combo", "consys", "none"}
  BY DEF Bt!Scripts
<1>2. CASE chip = "combo"
  <2>1. Bt!Script = <<"get", "addr", "set", "debug">>
    BY <1>2 DEF Bt!Script, Bt!Scripts
  <2> QED
    BY <1>2, <2>1
<1>3. CASE chip = "consys"
  <2>1. Bt!Script = <<"addr", "set", "debug">>
    BY <1>3 DEF Bt!Script, Bt!Scripts
  <2> QED
    BY <1>3, <2>1
<1>4. CASE chip = "none"
  <2>1. Bt!Script = <<>>
    BY <1>4 DEF Bt!Script, Bt!Scripts
  <2> QED
    BY <1>4, <2>1
<1> QED
  BY <1>1, <1>2, <1>3, <1>4

\* What a step that keeps the chip keeps.
LEMMA SameScript ==
    ASSUME UNCHANGED <<chip, debug>>
    PROVE  /\ Bt!Script' = Bt!Script
           /\ acked \subseteq acked' => \A i : Bt!Settled(i) => Bt!Settled(i)'
  BY DEF Bt!Script, Bt!Settled

\* The stack opens the library, or its worker is started.
LEMMA BtOpen ==
    ASSUME Bt!BtInv, Bt!mtk_bt_init \/ Bt!mtk_fw_cfg_fails \/ Bt!mtk_fw_cfg
    PROVE  Bt!BtInv'
<1> USE BtAssumption DEF Bt!BtInv, Bt!TypeOK, Bt!setting, Bt!stackVars, Bt!workVars, Bt!addrVars,
        Bt!Addresses, Bt!NotSet, Bt!OfChip, Bt!Scripts
<1>1. CASE Bt!mtk_bt_init
  <2>1. /\ stack = "closed" /\ stack' = "open" /\ rx' = TRUE /\ sent' = FALSE /\ acked' = {}
        /\ result' = "none"
        /\ UNCHANGED <<chip, debug, efuse, cmd_status, fgGetEFUSE, addr, nvram, running, wpc, cur,
                       unread>>
    BY <1>1 DEF Bt!mtk_bt_init
  <2>2. wpc = "none"
    BY <2>1 DEF Bt!StackSound
  <2>3. Bt!TypeOK'
    BY <2>1
  <2>4. Bt!StackSound' /\ Bt!SentSound' /\ Bt!WorkSound' /\ Bt!SuccessMeansAll'
    BY <2>1, <2>2 DEF Bt!StackSound, Bt!SentSound, Bt!WorkSound, Bt!SuccessMeansAll, Bt!Busy
  <2>5. Bt!AddressSound'
    BY <2>1, <2>2 DEF Bt!AddressSound, Bt!Busy
  <2> QED
    BY <2>3, <2>4, <2>5
<1>2. CASE Bt!mtk_fw_cfg_fails
  <2>1. /\ stack = "open" /\ stack' = "failed" /\ running' \in {running, FALSE}
        /\ UNCHANGED <<chip, debug, efuse, rx, cmd_status, fgGetEFUSE, addr, nvram, wpc, cur, sent,
                       acked, result, unread>>
    BY <1>2 DEF Bt!mtk_fw_cfg_fails
  <2>0. running' \in BOOLEAN
    BY <2>1
  <2>2. Bt!TypeOK'
    BY <2>0, <2>1
  <2>3. Bt!Script' = Bt!Script /\ \A i : Bt!Settled(i) => Bt!Settled(i)'
    BY <2>1, SameScript
  <2>4. Bt!StackSound' /\ Bt!SentSound' /\ Bt!WorkSound' /\ Bt!SuccessMeansAll'
    BY <2>1, <2>3 DEF Bt!StackSound, Bt!SentSound, Bt!WorkSound, Bt!SuccessMeansAll
  <2>5. Bt!AddressSound'
    BY <2>1, <2>3 DEF Bt!AddressSound
  <2> QED
    BY <2>2, <2>4, <2>5
<1>3. CASE Bt!mtk_fw_cfg
  <2>1. /\ stack = "open" /\ stack' = "creating" /\ wpc' = "start" /\ running' = FALSE
        /\ UNCHANGED <<chip, debug, efuse, rx, cmd_status, fgGetEFUSE, nvram, cur, sent, acked,
                       result>>
    BY <1>3 DEF Bt!mtk_fw_cfg
  <2>2. PICK ok \in BOOLEAN : addr' = (IF ok THEN nvram ELSE 0) /\ unread' = (unread \/ ~ok)
    BY <1>3 DEF Bt!mtk_fw_cfg
  <2>3. unread' \in BOOLEAN /\ (~unread' => ~unread /\ ok)
    BY <2>2
  <2>4. addr' \in {nvram, 0} /\ (~unread' => addr' = nvram)
    BY <2>2, <2>3
  <2>5. Bt!TypeOK'
    <3>1. addr' \in 0..MaxRandom + 1
      BY <2>4
    <3> QED
      BY <2>1, <2>3, <3>1
  <2>6. Bt!Script' = Bt!Script /\ \A i : Bt!Settled(i) => Bt!Settled(i)'
    BY <2>1, SameScript
  <2>7. ~sent
    BY <2>1 DEF Bt!SentSound
  <2>8. Bt!StackSound' /\ Bt!SentSound' /\ Bt!WorkSound' /\ Bt!SuccessMeansAll'
    BY <2>1, <2>6, <2>7 DEF Bt!StackSound, Bt!SentSound, Bt!WorkSound, Bt!SuccessMeansAll, Bt!Busy
  <2>9. Bt!AddressSound'
    BY <2>1, <2>3, <2>4, <2>7 DEF Bt!AddressSound, Bt!Busy
  <2> QED
    BY <2>5, <2>8, <2>9
<1> QED
  BY <1>1, <1>2, <1>3

\* The stack closes the library.
LEMMA BtClose ==
    ASSUME Bt!BtInv, Bt!RxExit \/ Bt!Closing \/ Bt!ThreadExit
    PROVE  Bt!BtInv'
<1> USE DEF Bt!BtInv, Bt!TypeOK, Bt!setting, Bt!stackVars, Bt!workVars, Bt!addrVars
<1>1. /\ UNCHANGED <<chip, debug, efuse, fgGetEFUSE, addr, nvram, cur, sent, acked, result, unread>>
      /\ running' \in BOOLEAN /\ rx' \in BOOLEAN
      /\ cmd_status' \in {cmd_status, "terminate"}
      /\ stack' \in {stack, "closed", "busy", "notify", "join"}
      /\ wpc' \in {wpc, "none", "exited"}
      /\ stack' \in {"open", "failed"} => stack' = stack
      /\ stack' \in {"closed", "open", "failed"} => wpc' = "none"
      /\ stack' \in {"closed", "notify", "join"} => ~rx'
  <2>1. CASE Bt!RxExit
    BY <2>1 DEF Bt!RxExit, Bt!StackSound
  <2>2. CASE Bt!ThreadCreated
    BY <2>2 DEF Bt!ThreadCreated, Bt!StackSound
  <2>3. CASE Bt!mtk_bt_cleanup
    BY <2>3 DEF Bt!mtk_bt_cleanup, Bt!StackSound
  <2>4. CASE Bt!notify_thread_exit
    BY <2>4 DEF Bt!notify_thread_exit, Bt!StackSound
  <2>5. CASE Bt!ThreadJoined
    BY <2>5 DEF Bt!ThreadJoined, Bt!StackSound
  <2>6. CASE Bt!ThreadExit
    BY <2>6 DEF Bt!ThreadExit, Bt!StackSound
  <2> QED
    BY <2>1, <2>2, <2>3, <2>4, <2>5, <2>6 DEF Bt!Closing
<1>2. Bt!TypeOK'
  BY <1>1
<1>3. Bt!Script' = Bt!Script /\ \A i : Bt!Settled(i) => Bt!Settled(i)'
  BY <1>1, SameScript
<1>4. Bt!StackSound'
  BY <1>1 DEF Bt!StackSound
<1>5. Bt!SentSound' /\ Bt!WorkSound' /\ Bt!SuccessMeansAll'
  BY <1>1, <1>3 DEF Bt!SentSound, Bt!WorkSound, Bt!SuccessMeansAll, Bt!Busy
<1>6. Bt!AddressSound'
  BY <1>1, <1>3 DEF Bt!AddressSound, Bt!Busy
<1> QED
  BY <1>2, <1>4, <1>5, <1>6

\* The script is begun: where the chip's address is not wanted, at its second command.
LEMMA BtBegin ==
    ASSUME Bt!BtInv, Bt!BeginScript
    PROVE  Bt!BtInv'
<1> USE DEF Bt!BtInv, Bt!TypeOK, Bt!setting, Bt!stackVars, Bt!NotSet
<1>1. /\ wpc = "start" /\ wpc' = (IF chip = "none" THEN "finish" ELSE "loop")
      /\ cur' = (IF chip = "combo" /\ ~fgGetEFUSE' THEN 2 ELSE 1)
      /\ UNCHANGED <<chip, debug, efuse, stack, rx, cmd_status, addr, nvram, running, sent, acked,
                     result, unread>>
  BY DEF Bt!BeginScript
<1>2. /\ fgGetEFUSE' \in BOOLEAN
      /\ fgGetEFUSE' => fgGetEFUSE \/ addr = 0
  BY DEF Bt!BeginScript
<1>3. Bt!TypeOK'
  BY <1>1, <1>2
<1>4. Bt!Script' = Bt!Script /\ \A i : Bt!Settled(i) => Bt!Settled(i)'
  BY <1>1, SameScript
<1>5. Bt!StackSound' /\ Bt!SentSound' /\ Bt!SuccessMeansAll'
  BY <1>1, <1>4 DEF Bt!StackSound, Bt!SentSound, Bt!SuccessMeansAll
<1>6. Bt!WorkSound'
  <2>1. \A i \in DOMAIN Bt!Script : i < cur' => Bt!Settled(i)
    BY <1>1, ScriptFacts DEF Bt!Settled
  <2> QED
    BY <1>1, <1>4, <2>1 DEF Bt!WorkSound
<1>7. Bt!AddressSound'
  <2> SUFFICES ASSUME ~unread, nvram # 0
               PROVE  /\ ~fgGetEFUSE' /\ addr # 0
                      /\ cur' \in DOMAIN Bt!Script => Bt!Script[cur'] # "get"
    BY <1>1, <1>4 DEF Bt!AddressSound
  <2>1. ~fgGetEFUSE' /\ addr # 0
    BY <1>1, <1>2 DEF Bt!AddressSound
  <2>2. cur' = 1 => chip # "combo"
    BY <1>1, <2>1
  <2> QED
    BY <1>1, <2>1, <2>2, ScriptFacts
<1> QED
  BY <1>3, <1>5, <1>6, <1>7

\* Between two commands: nothing is on its way to the controller.
LEMMA BtLoop ==
    ASSUME Bt!BtInv, Bt!EndOfLoop \/ Bt!SkipDebug \/ Bt!AllocCommand \/ Bt!MarkPending
    PROVE  Bt!BtInv'
<1> USE DEF Bt!BtInv, Bt!TypeOK, Bt!setting, Bt!stackVars, Bt!addrVars, Bt!NotSet
<1>1. /\ wpc \in {"loop", "arm"} /\ wpc' \in {"loop", "arm", "send", "finish"}
      /\ UNCHANGED <<chip, debug, efuse, stack, rx, fgGetEFUSE, addr, nvram, running, sent, acked,
                     result, unread>>
  BY DEF Bt!EndOfLoop, Bt!SkipDebug, Bt!AllocCommand, Bt!MarkPending, Bt!Work
<1>2. /\ cmd_status' \in {cmd_status, "pending"}
      /\ wpc' = "send" => cmd_status' = "pending"
  BY DEF Bt!EndOfLoop, Bt!SkipDebug, Bt!AllocCommand, Bt!MarkPending, Bt!Work
<1>3. /\ Len(Bt!Script) \in 0..4 /\ DOMAIN Bt!Script = 1..Len(Bt!Script)
      /\ \A i \in DOMAIN Bt!Script : Bt!Script[i] = "get" => i = 1
  BY ScriptFacts
<1>4. Bt!Script' = Bt!Script /\ \A i : Bt!Settled(i) => Bt!Settled(i)'
  BY <1>1, SameScript
<1>5. /\ cur' = cur \/ (cur' = cur + 1 /\ cur \in DOMAIN Bt!Script /\ Bt!Settled(cur) /\ wpc' = "loop")
      /\ wpc' \in {"arm", "send"} => cur' = cur /\ cur \in DOMAIN Bt!Script
  <2>1. CASE Bt!EndOfLoop
    BY <2>1 DEF Bt!EndOfLoop, Bt!Work
  <2>2. CASE Bt!SkipDebug
    BY <1>3, <2>2 DEF Bt!SkipDebug, Bt!Work, Bt!Settled
  <2>3. CASE Bt!AllocCommand
    BY <1>3, <2>3 DEF Bt!AllocCommand, Bt!Work
  <2>4. CASE Bt!MarkPending
    BY <2>4 DEF Bt!MarkPending, Bt!Work, Bt!WorkSound
  <2> QED
    BY <2>1, <2>2, <2>3, <2>4
<1>6. cur' \in 1..5
  BY <1>3, <1>5
<1>7. Bt!TypeOK'
  BY <1>1, <1>2, <1>6
<1>8. ~sent
  BY <1>1 DEF Bt!SentSound
<1>9. Bt!StackSound' /\ Bt!SentSound' /\ Bt!SuccessMeansAll'
  <2>1. stack \notin {"closed", "open", "failed"}
    BY <1>1 DEF Bt!StackSound
  <2> QED
    BY <1>1, <1>2, <1>4, <1>8, <2>1 DEF Bt!StackSound, Bt!SentSound, Bt!SuccessMeansAll
<1>10. Bt!WorkSound'
  <2>1. \A i \in DOMAIN Bt!Script : i < cur => Bt!Settled(i)
    BY <1>1 DEF Bt!WorkSound, Bt!Busy
  <2>2. \A i \in DOMAIN Bt!Script : i < cur' => Bt!Settled(i)
    BY <1>3, <1>5, <2>1
  <2> QED
    BY <1>1, <1>4, <1>5, <2>2 DEF Bt!WorkSound
<1>11. Bt!AddressSound'
  <2> SUFFICES ASSUME ~unread, nvram # 0
               PROVE  /\ ~fgGetEFUSE /\ addr # 0
                      /\ cur' \in DOMAIN Bt!Script => Bt!Script[cur'] # "get"
    BY <1>1, <1>4 DEF Bt!AddressSound
  <2>1. /\ ~fgGetEFUSE /\ addr # 0
        /\ cur \in DOMAIN Bt!Script => Bt!Script[cur] # "get"
    BY <1>1 DEF Bt!AddressSound, Bt!Busy
  <2> QED
    BY <1>3, <1>5, <2>1
<1> QED
  BY <1>7, <1>9, <1>10, <1>11

\* A command goes out.
LEMMA BtSend ==
    ASSUME Bt!BtInv, Bt!SendCommand
    PROVE  /\ Bt!BtInv'
           /\ nvram' # nvram /\ nvram # 0 => unread
<1> USE BtAssumption DEF Bt!BtInv, Bt!TypeOK, Bt!setting, Bt!stackVars, Bt!addrVars, Bt!NotSet,
        Bt!Addresses, Bt!OfChip
<1>1. /\ wpc = "send" /\ wpc' \in {"wait", "finish"} /\ sent' \in BOOLEAN
      /\ sent' => wpc' = "wait"
      /\ wpc' = "wait" => sent'
      /\ UNCHANGED <<chip, debug, efuse, stack, rx, cmd_status, running, cur, acked, result, unread>>
  BY DEF Bt!SendCommand
<1>2. /\ addr' \in 0..MaxRandom + 1 /\ nvram' \in 0..MaxRandom + 1 /\ fgGetEFUSE' \in BOOLEAN
      /\ nvram' = nvram \/ (Bt!Script[cur] = "addr" /\ (addr = 0 \/ fgGetEFUSE))
      /\ addr' = addr \/ addr' # 0
      /\ nvram' # nvram => addr' # 0
      /\ fgGetEFUSE' => fgGetEFUSE /\ nvram' = nvram
  <2>1. CASE Bt!Script[cur] = "addr" /\ Bt!SetLocalAddr
    <3>1. /\ addr' \in 0..MaxRandom + 1 /\ addr' # 0 /\ nvram' \in {nvram, addr'}
          /\ fgGetEFUSE' = FALSE
      BY <2>1 DEF Bt!SetLocalAddr
    <3>2. nvram' = nvram \/ addr = 0 \/ fgGetEFUSE
      BY <2>1 DEF Bt!SetLocalAddr
    <3>3. nvram' \in 0..MaxRandom + 1 /\ fgGetEFUSE' \in BOOLEAN
      BY <3>1
    <3> QED
      BY <2>1, <3>1, <3>2, <3>3
  <2>2. CASE UNCHANGED Bt!addrVars
    BY <2>2
  <2> QED
    BY <2>1, <2>2 DEF Bt!SendCommand
<1>3. nvram' # nvram /\ nvram # 0 => unread
  BY <1>1, <1>2 DEF Bt!AddressSound, Bt!Busy
<1>4. Bt!TypeOK'
  BY <1>1, <1>2
<1>5. Bt!Script' = Bt!Script /\ \A i : Bt!Settled(i) => Bt!Settled(i)'
  BY <1>1, SameScript
<1>6. cur \in DOMAIN Bt!Script /\ cmd_status \in {"pending", "terminate"}
  BY <1>1 DEF Bt!WorkSound, Bt!SentSound
<1>7. Bt!StackSound' /\ Bt!SentSound' /\ Bt!WorkSound' /\ Bt!SuccessMeansAll'
  BY <1>1, <1>5, <1>6 DEF Bt!StackSound, Bt!SentSound, Bt!WorkSound, Bt!SuccessMeansAll, Bt!Busy
<1>8. Bt!AddressSound'
  <2> SUFFICES ASSUME ~unread, nvram' # 0
               PROVE  ~fgGetEFUSE' /\ addr' # 0 /\ Bt!Script[cur] # "get"
    BY <1>1, <1>5 DEF Bt!AddressSound
  <2>1. CASE nvram' = nvram
    BY <1>1, <1>2, <1>6, <2>1 DEF Bt!AddressSound, Bt!Busy
  <2>2. CASE nvram' # nvram
    BY <1>2, <2>2
  <2> QED
    BY <2>1, <2>2
<1> QED
  BY <1>3, <1>4, <1>7, <1>8

\* The controller answers.
LEMMA BtEvent ==
    ASSUME Bt!BtInv, Bt!CommandEvent
    PROVE  Bt!BtInv'
<1> USE DEF Bt!BtInv, Bt!TypeOK, Bt!setting, Bt!stackVars, Bt!NotSet
<1>1. /\ sent /\ rx /\ sent' = FALSE
      /\ addr' = (IF Bt!Script[cur] = "get" THEN efuse ELSE addr)
      /\ UNCHANGED <<chip, debug, efuse, stack, rx, fgGetEFUSE, nvram, running, wpc, cur, result,
                     unread>>
  BY DEF Bt!CommandEvent
<1>2. /\ cmd_status' \in {"success", "fail"} /\ acked' \in {acked, acked \cup {cur}}
      /\ cmd_status' = "success" => cur \in acked'
  BY DEF Bt!CommandEvent
<1>3. cur \in DOMAIN Bt!Script /\ wpc \notin {"start", "loop", "arm", "send"}
      /\ stack \notin {"open", "failed"}
  BY <1>1 DEF Bt!SentSound
<1>4. cur \in 1..4 /\ acked \subseteq acked'
  BY <1>2, <1>3, ScriptFacts
<1>5. Bt!TypeOK'
  <2>1. chip' \in DOMAIN Bt!Scripts /\ efuse' \in Bt!Addresses /\ nvram' \in Bt!Addresses
    BY <1>1
  <2>2. addr' \in Bt!Addresses
    BY <1>1
  <2>3. acked' \subseteq 1..4 /\ sent' \in BOOLEAN
    BY <1>1, <1>2, <1>4
  <2> QED
    BY <1>1, <1>2, <2>1, <2>2, <2>3
<1>6. Bt!Script' = Bt!Script /\ \A i : Bt!Settled(i) => Bt!Settled(i)'
  BY <1>1, <1>4, SameScript
<1>7. Bt!StackSound' /\ Bt!SentSound' /\ Bt!WorkSound' /\ Bt!SuccessMeansAll'
  BY <1>1, <1>2, <1>3, <1>6 DEF Bt!StackSound, Bt!SentSound, Bt!WorkSound, Bt!SuccessMeansAll
<1>8. Bt!AddressSound'
  BY <1>1, <1>3, <1>6 DEF Bt!AddressSound
<1> QED
  BY <1>5, <1>7, <1>8

\* The wait is over: on to the next command if this one was accepted.
LEMMA BtDone ==
    ASSUME Bt!BtInv, Bt!CommandDone
    PROVE  Bt!BtInv'
<1> USE DEF Bt!BtInv, Bt!TypeOK, Bt!setting, Bt!stackVars, Bt!addrVars, Bt!NotSet
<1>1. /\ wpc = "wait" /\ cmd_status # "pending" /\ wpc' \in {"loop", "finish"}
      /\ UNCHANGED <<chip, debug, efuse, stack, rx, fgGetEFUSE, addr, nvram, running, sent, acked,
                     result, unread>>
  BY DEF Bt!CommandDone, Bt!Work
<1>2. /\ cmd_status' \in {cmd_status, "success"}
      /\ wpc' = "loop" => cmd_status = "success" /\ cur' = cur + 1
      /\ wpc' = "finish" => cur' = cur
  BY DEF Bt!CommandDone, Bt!Work
<1>3. /\ Len(Bt!Script) \in 0..4 /\ DOMAIN Bt!Script = 1..Len(Bt!Script)
      /\ \A i \in DOMAIN Bt!Script : Bt!Script[i] = "get" => i = 1
  BY ScriptFacts
<1>4. /\ cur \in DOMAIN Bt!Script
      /\ \A i \in DOMAIN Bt!Script : i < cur => Bt!Settled(i)
      /\ cmd_status = "success" => Bt!Settled(cur) /\ ~sent
  BY <1>1 DEF Bt!WorkSound, Bt!SentSound, Bt!Settled, Bt!Busy
<1>5. Bt!Script' = Bt!Script /\ \A i : Bt!Settled(i) => Bt!Settled(i)'
  BY <1>1, SameScript
<1>6. cur' \in 1..5
  BY <1>1, <1>2, <1>3, <1>4
<1>7. Bt!TypeOK'
  BY <1>1, <1>2, <1>6
<1>8. stack \notin {"closed", "open", "failed"}
  BY <1>1 DEF Bt!StackSound
<1>9. Bt!StackSound' /\ Bt!SuccessMeansAll'
  BY <1>1, <1>5, <1>8 DEF Bt!StackSound, Bt!SuccessMeansAll
<1>10. Bt!SentSound'
  <2>1. sent => wpc' = "finish" /\ cur' = cur
    BY <1>1, <1>2, <1>4
  <2> QED
    BY <1>1, <1>4, <1>5, <1>8, <2>1 DEF Bt!SentSound
<1>11. Bt!WorkSound'
  <2>1. \A i \in DOMAIN Bt!Script : i < cur' => Bt!Settled(i)
    <3>1. CASE wpc' = "loop"
      <4>1. \A i \in DOMAIN Bt!Script : i < cur' => i < cur \/ i = cur
        BY <1>2, <1>3, <1>4, <3>1
      <4> QED
        BY <1>2, <1>4, <3>1, <4>1
    <3>2. CASE wpc' = "finish"
      BY <1>2, <1>4, <3>2
    <3> QED
      BY <1>1, <3>1, <3>2
  <2> QED
    BY <1>1, <1>5, <2>1 DEF Bt!WorkSound
<1>12. Bt!AddressSound'
  <2> SUFFICES ASSUME ~unread, nvram # 0
               PROVE  /\ ~fgGetEFUSE /\ addr # 0
                      /\ cur' \in DOMAIN Bt!Script => Bt!Script[cur'] # "get"
    BY <1>1, <1>5 DEF Bt!AddressSound
  <2>1. /\ ~fgGetEFUSE /\ addr # 0 /\ Bt!Script[cur] # "get"
    BY <1>1, <1>4 DEF Bt!AddressSound, Bt!Busy
  <2>2. cur' = cur + 1 => cur' # 1
    BY <1>3, <1>4
  <2> QED
    BY <1>1, <1>2, <1>3, <2>1, <2>2
<1> QED
  BY <1>7, <1>9, <1>10, <1>11, <1>12

\* The result is told.
LEMMA BtReport ==
    ASSUME Bt!BtInv, Bt!ReportResult
    PROVE  Bt!BtInv'
<1> USE DEF Bt!BtInv, Bt!TypeOK, Bt!setting, Bt!stackVars, Bt!addrVars
<1>1. /\ wpc = "finish" /\ wpc' = "exiting" /\ result' \in {"success", "fail"}
      /\ result' = "success" => cur > Len(Bt!Script)
      /\ UNCHANGED <<chip, debug, efuse, stack, rx, cmd_status, fgGetEFUSE, addr, nvram, running, cur,
                     sent, acked, unread>>
  BY DEF Bt!ReportResult
<1>2. Bt!TypeOK'
  BY <1>1
<1>3. Bt!Script' = Bt!Script /\ \A i : Bt!Settled(i) => Bt!Settled(i)'
  BY <1>1, SameScript
<1>4. Bt!StackSound' /\ Bt!SentSound' /\ Bt!WorkSound'
  BY <1>1, <1>3 DEF Bt!StackSound, Bt!SentSound, Bt!WorkSound, Bt!Busy
<1>5. Bt!SuccessMeansAll'
  <2>1. result' = "success" => \A i \in DOMAIN Bt!Script : i < cur
    BY <1>1, ScriptFacts
  <2> QED
    BY <1>1, <1>3, <2>1 DEF Bt!SuccessMeansAll, Bt!WorkSound
<1>6. Bt!AddressSound'
  BY <1>1, <1>3 DEF Bt!AddressSound, Bt!Busy
<1> QED
  BY <1>2, <1>4, <1>5, <1>6

\* Every behaviour keeps the invariant.
LEMMA BtInvariance == Spec => []Bt!BtInv
<1>1. Init => Bt!BtInv
  <2> SUFFICES ASSUME Bt!Init
               PROVE  Bt!BtInv
    BY DEF Init
  <2>1. Bt!TypeOK
    <3>1. chip \in DOMAIN Bt!Scripts
      BY BtAssumption DEF Bt!Init, Bt!Scripts
    <3>2. efuse \in Bt!Addresses /\ nvram \in Bt!Addresses /\ addr \in Bt!Addresses
      BY BtAssumption DEF Bt!Init, Bt!Addresses, Bt!NotSet, Bt!OfChip
    <3>3. cur \in 1..5 /\ acked \subseteq 1..4
      BY DEF Bt!Init
    <3> QED
      BY <3>1, <3>2, <3>3 DEF Bt!Init, Bt!TypeOK
  <2>2. Bt!StackSound /\ Bt!SentSound /\ Bt!WorkSound /\ Bt!SuccessMeansAll
    BY DEF Bt!Init, Bt!StackSound, Bt!SentSound, Bt!WorkSound, Bt!SuccessMeansAll, Bt!Busy
  <2>3. Bt!AddressSound
    BY DEF Bt!Init, Bt!AddressSound
  <2> QED
    BY <2>1, <2>2, <2>3 DEF Bt!BtInv
<1>2. Bt!BtInv /\ [Next]_vars => Bt!BtInv'
  <2> SUFFICES ASSUME Bt!BtInv, [Next]_vars
               PROVE  Bt!BtInv'
    OBVIOUS
  <2>1. CASE Bt!Next
    BY <2>1, BtOpen, BtClose, BtBegin, BtLoop, BtSend, BtEvent, BtDone, BtReport
       DEF Bt!Next, Bt!Worker
  <2>2. CASE UNCHANGED btVars
    <3>1. UNCHANGED <<chip, debug, efuse, nvram, stack, rx, cmd_status, fgGetEFUSE, addr, running,
                      wpc, cur, sent, acked, result, unread>>
      BY <2>2 DEF btVars
    <3>2. Bt!Script' = Bt!Script /\ \A i : Bt!Settled(i) => Bt!Settled(i)'
      BY <3>1, SameScript
    <3>3. Bt!TypeOK' /\ Bt!StackSound' /\ Bt!SentSound'
      BY <3>1, <3>2 DEF Bt!BtInv, Bt!TypeOK, Bt!StackSound, Bt!SentSound
    <3>4. Bt!WorkSound' /\ Bt!SuccessMeansAll' /\ Bt!AddressSound'
      BY <3>1, <3>2 DEF Bt!BtInv, Bt!WorkSound, Bt!SuccessMeansAll, Bt!AddressSound
    <3> QED
      BY <3>3, <3>4 DEF Bt!BtInv
  <2>3. Bt!Next \/ UNCHANGED btVars
    BY DEF Next, vars, InGps, InBt, InWdt
  <2> QED
    BY <2>1, <2>2, <2>3
<1> QED
  BY <1>1, <1>2, PTL DEF Spec

\* GORM_FW_Init_Thread: fwcfg_cb is told of success only when every command of the
\* script that applies was accepted in this session.
THEOREM SuccessIsEarned == Spec => []SuccessMeansAll
<1>1. Bt!BtInv => SuccessMeansAll
  BY DEF Bt!BtInv, SuccessMeansAll
<1> QED
  BY <1>1, BtInvariance, PTL

\* GORMcmd_HCC_Set_Local_BD_Addr: an address in NVRAM is not replaced, unless NVRAM
\* could once not be read.
THEOREM AddressStays == Spec => AddressKept
<1>1. Bt!BtInv /\ [Next]_vars => [nvram' # nvram /\ nvram # Bt!NotSet => unread]_(Bt!btVars)
  <2> SUFFICES ASSUME Bt!BtInv, [Next]_vars, nvram' # nvram, nvram # Bt!NotSet
               PROVE  unread
    OBVIOUS
  <2>1. Bt!Next
    BY DEF Next, vars, InGps, InBt, InWdt, btVars
  <2>2. Bt!SendCommand
    BY <2>1 DEF Bt!Next, Bt!mtk_bt_init, Bt!mtk_fw_cfg, Bt!mtk_fw_cfg_fails, Bt!RxExit, Bt!Closing,
       Bt!ThreadCreated, Bt!mtk_bt_cleanup, Bt!notify_thread_exit, Bt!ThreadJoined, Bt!Worker,
       Bt!BeginScript, Bt!EndOfLoop, Bt!SkipDebug, Bt!AllocCommand, Bt!MarkPending, Bt!CommandDone,
       Bt!ReportResult, Bt!ThreadExit, Bt!CommandEvent, Bt!addrVars
  <2> QED
    BY <2>2, BtSend DEF Bt!NotSet
<1> QED
  BY <1>1, BtInvariance, PTL DEF Spec, AddressKept, Bt!AddressKept

-----------------------------------------------------------------------------
(* A session of the GPS HAL.                                               *)

\* The variables of the threads, the messages between them, and what is told.
GpsPlaces ==
    /\ fw \in Gps!Fw
    /\ hal \in {"none", "starting", "loop", "die_stop", "die_wakelock", "die_flag", "icon"}
    /\ mnl \in {"off", "on"} /\ epo \in {"none", "running", "left"} /\ troubles \in Nat
GpsConds == cond \subseteq Gps!Conditions
GpsFlags ==
    /\ navigating \in BOOLEAN /\ init \in BOOLEAN /\ start_flag \in BOOLEAN
    /\ flag_unlock \in BOOLEAN /\ started \in BOOLEAN /\ wakelock \in BOOLEAN
    /\ nmea \in BOOLEAN /\ exit_flag \in BOOLEAN
GpsQueues ==
    /\ control \in Seq({"CMD_START", "CMD_STOP", "CMD_RESTART", "CMD_QUIT"})
    /\ Len(control) <= MaxQueue
    /\ toMnld \in Seq({"START", "STOP", "CLEANUP"})
    /\ toHal \in Seq({"MNL_DIE", "ICON_ON", "ICON_OFF"})
GpsTelling ==
    /\ sta \in Gps!Status /\ told \in Gps!Status
    /\ report \in [{"fw", "hal"} -> Seq(Gps!Status)] /\ filled \in [{"fw", "hal"} -> BOOLEAN]
    /\ \A t \in {"fw", "hal"} : filled[t] => report[t] # <<>>

\* Together they are the types of the session.
LEMMA GpsTypeParts == Gps!TypeOK <=> GpsPlaces /\ GpsConds /\ GpsFlags /\ GpsQueues /\ GpsTelling
BY DEF Gps!TypeOK, GpsPlaces, GpsConds, GpsFlags, GpsQueues, GpsTelling

\* The steps: init and the EPO thread, start, stop and cleanup, the HAL thread, what is
\* told, mnld.
GpsOpens ==
    \/ Gps!mtk_gps_init \/ Gps!mtk_gps_init_fails \/ Gps!mtk_gps_init_done
    \/ Gps!mtk_gps_epo_interface_init \/ Gps!EpoExit
GpsStarts ==
    \/ Gps!mtk_gps_start \/ Gps!mtk_start \/ Gps!mtk_start_fails \/ Gps!mtk_gps_start_wait
    \/ Gps!gps_state_start \/ Gps!acquire_wakelock_cb \/ Gps!check_stop
    \/ Gps!reset_stop("reset_stop", "set_flag") \/ Gps!set_start_flag
GpsEnds ==
    \/ Gps!mtk_gps_stop \/ Gps!mtk_gps_stop_fails \/ Gps!mtk_gps_delete_aiding_data
    \/ Gps!mtk_gps_cleanup \/ Gps!cleanup_stop \/ Gps!cleanup_reset \/ Gps!gps_state_done
    \/ Gps!cleanup_exit
GpsHal ==
    \/ Gps!HalReady \/ Gps!HalControl \/ Gps!HalNmea \/ Gps!HalMnlDie \/ Gps!HalDied
    \/ Gps!HalIcon \/ Gps!HalHangup
GpsTells ==
    \/ Gps!FillIn("fw") \/ Gps!Tell("fw") \/ Gps!FillIn("hal") \/ Gps!Tell("hal")
GpsMnld ==
    \/ Gps!MnldReceives \/ Gps!MnldNmea \/ Gps!MnldIcon \/ Gps!MnlDies

\* Every step of the session is one of these.
LEMMA GpsSteps ==
    ASSUME Gps!Next
    PROVE  GpsOpens \/ GpsStarts \/ GpsEnds \/ GpsHal \/ GpsTells \/ GpsMnld
BY DEF Gps!Next, Gps!Calls, Gps!FwStep, Gps!HalStep, Gps!Faults, GpsOpens, GpsStarts, GpsEnds,
       GpsHal, GpsTells, GpsMnld

\* The threads go from one place to another.
LEMMA GpsPlacesKept ==
    ASSUME GpsPlaces, Gps!Next
    PROVE  GpsPlaces'
<1> USE GpsAssumption DEF Gps!Go, Gps!Trouble, Gps!fwVars, Gps!tellVars, Gps!mnlVars,
        Gps!epoVars, Gps!get_condition, Gps!release_condition, Gps!Call, Gps!reset_stop,
        Gps!HalExit, GpsPlaces, Gps!Fw
<1>1. CASE GpsOpens
  BY <1>1 DEF GpsOpens, Gps!mtk_gps_init, Gps!mtk_gps_init_fails, Gps!mtk_gps_init_done,
    Gps!mtk_gps_epo_interface_init, Gps!EpoExit
<1>2. CASE GpsStarts
  BY <1>2 DEF GpsStarts, Gps!mtk_gps_start, Gps!mtk_start, Gps!mtk_start_fails,
    Gps!mtk_gps_start_wait, Gps!gps_state_start, Gps!acquire_wakelock_cb, Gps!check_stop,
    Gps!reset_stop, Gps!set_start_flag
<1>3. CASE GpsEnds
  BY <1>3 DEF GpsEnds, Gps!mtk_gps_stop, Gps!mtk_gps_stop_fails,
    Gps!mtk_gps_delete_aiding_data, Gps!mtk_gps_cleanup, Gps!cleanup_stop,
    Gps!cleanup_reset, Gps!gps_state_done, Gps!cleanup_exit
<1>4. CASE GpsHal
  BY <1>4 DEF GpsHal, Gps!HalReady, Gps!HalControl, Gps!HalNmea, Gps!HalMnlDie, Gps!HalDied,
    Gps!HalIcon, Gps!HalHangup
<1>5. CASE GpsTells
  BY <1>5 DEF GpsTells, Gps!FillIn, Gps!Tell
<1>6. CASE GpsMnld
  BY <1>6 DEF GpsMnld, Gps!MnldReceives, Gps!MnldNmea, Gps!MnldIcon, Gps!MnlDies
<1> QED
  BY <1>1, <1>2, <1>3, <1>4, <1>5, <1>6, GpsSteps

\* Only the conditions of lock_for_sync are released.
LEMMA GpsCondsKept ==
    ASSUME GpsConds, Gps!Next
    PROVE  GpsConds'
<1> USE GpsAssumption DEF Gps!Go, Gps!Trouble, Gps!fwVars, Gps!tellVars, Gps!mnlVars,
        Gps!epoVars, Gps!get_condition, Gps!release_condition, Gps!Call, Gps!reset_stop,
        Gps!HalExit, GpsConds, Gps!Conditions
<1>1. CASE GpsOpens
  BY <1>1 DEF GpsOpens, Gps!mtk_gps_init, Gps!mtk_gps_init_fails, Gps!mtk_gps_init_done,
    Gps!mtk_gps_epo_interface_init, Gps!EpoExit
<1>2. CASE GpsStarts
  BY <1>2 DEF GpsStarts, Gps!mtk_gps_start, Gps!mtk_start, Gps!mtk_start_fails,
    Gps!mtk_gps_start_wait, Gps!gps_state_start, Gps!acquire_wakelock_cb, Gps!check_stop,
    Gps!reset_stop, Gps!set_start_flag
<1>3. CASE GpsEnds
  BY <1>3 DEF GpsEnds, Gps!mtk_gps_stop, Gps!mtk_gps_stop_fails,
    Gps!mtk_gps_delete_aiding_data, Gps!mtk_gps_cleanup, Gps!cleanup_stop,
    Gps!cleanup_reset, Gps!gps_state_done, Gps!cleanup_exit
<1>4. CASE GpsHal
  BY <1>4 DEF GpsHal, Gps!HalReady, Gps!HalControl, Gps!HalNmea, Gps!HalMnlDie, Gps!HalDied,
    Gps!HalIcon, Gps!HalHangup
<1>5. CASE GpsTells
  BY <1>5 DEF GpsTells, Gps!FillIn, Gps!Tell
<1>6. CASE GpsMnld
  BY <1>6 DEF GpsMnld, Gps!MnldReceives, Gps!MnldNmea, Gps!MnldIcon, Gps!MnlDies
<1> QED
  BY <1>1, <1>2, <1>3, <1>4, <1>5, <1>6, GpsSteps

\* The flags stay flags.
LEMMA GpsFlagsKept ==
    ASSUME GpsFlags, Gps!Next
    PROVE  GpsFlags'
<1> DEFINE Rest == UNCHANGED <<navigating, init, start_flag, flag_unlock, started, wakelock, nmea, exit_flag>>
<1> USE DEF Gps!fwVars, Gps!mnlVars, Gps!epoVars, Gps!Call, Gps!HalExit
<1>1. CASE Rest
  BY <1>1 DEF GpsFlags
<1>2. CASE GpsOpens
  <2>1. CASE Gps!mtk_gps_init_done \/ Gps!mtk_gps_epo_interface_init
    BY <2>1 DEF Gps!mtk_gps_init_done, Gps!mtk_gps_epo_interface_init, GpsFlags
  <2>2. CASE Gps!mtk_gps_init \/ Gps!mtk_gps_init_fails \/ Gps!EpoExit
    <3>1. Rest
      BY <2>2 DEF Gps!mtk_gps_init, Gps!mtk_gps_init_fails, Gps!EpoExit
    <3> QED
      BY <1>1, <3>1
  <2> QED
    BY <1>2, <2>1, <2>2 DEF GpsOpens
<1>3. CASE GpsStarts
  <2>1. CASE Gps!acquire_wakelock_cb \/ Gps!set_start_flag
    BY <2>1 DEF Gps!acquire_wakelock_cb, Gps!set_start_flag, GpsFlags
  <2>2. CASE ~Gps!acquire_wakelock_cb /\ ~Gps!set_start_flag
    <3>1. Rest
      BY <1>3, <2>2 DEF GpsStarts, Gps!mtk_gps_start, Gps!mtk_start, Gps!mtk_start_fails,
        Gps!mtk_gps_start_wait, Gps!gps_state_start, Gps!check_stop, Gps!reset_stop
    <3> QED
      BY <1>1, <3>1
  <2> QED
    BY <2>1, <2>2
<1>4. CASE GpsEnds
  <2>1. CASE Gps!mtk_gps_stop \/ Gps!mtk_gps_stop_fails
    BY <2>1 DEF Gps!mtk_gps_stop, Gps!mtk_gps_stop_fails, GpsFlags
  <2>2. CASE Gps!gps_state_done
    BY <2>2 DEF Gps!gps_state_done, GpsFlags
  <2>3. CASE \/ Gps!mtk_gps_delete_aiding_data \/ Gps!mtk_gps_cleanup \/ Gps!cleanup_stop
             \/ Gps!cleanup_reset \/ Gps!cleanup_exit
    <3>1. Rest
      BY <2>3 DEF Gps!mtk_gps_delete_aiding_data, Gps!mtk_gps_cleanup, Gps!cleanup_stop,
        Gps!cleanup_reset, Gps!reset_stop, Gps!cleanup_exit
    <3> QED
      BY <1>1, <3>1
  <2> QED
    BY <1>4, <2>1, <2>2, <2>3 DEF GpsEnds
<1>5. CASE GpsHal
  <2>1. CASE Gps!HalControl
    BY <2>1 DEF Gps!HalControl, GpsFlags
  <2>2. CASE Gps!HalNmea \/ Gps!HalMnlDie
    BY <2>2 DEF Gps!HalNmea, Gps!HalMnlDie, GpsFlags
  <2>3. CASE Gps!HalDied
    BY <2>3 DEF Gps!HalDied, GpsFlags
  <2>4. CASE Gps!HalReady \/ Gps!HalIcon \/ Gps!HalHangup
    <3>1. Rest
      BY <2>4 DEF Gps!HalReady, Gps!HalIcon, Gps!HalHangup
    <3> QED
      BY <1>1, <3>1
  <2> QED
    BY <1>5, <2>1, <2>2, <2>3, <2>4 DEF GpsHal
<1>6. CASE GpsTells
  BY <1>1, <1>6 DEF GpsTells, Gps!FillIn, Gps!Tell
<1>7. CASE GpsMnld
  BY <1>7 DEF GpsMnld, Gps!MnldReceives, Gps!MnldNmea, Gps!MnldIcon, Gps!MnlDies, GpsFlags
<1> QED
  BY <1>2, <1>3, <1>4, <1>5, <1>6, <1>7, GpsSteps

\* The queues hold commands and messages, the control socket not too many.
LEMMA GpsQueuesKept ==
    ASSUME GpsQueues, Gps!Next
    PROVE  GpsQueues'
<1> USE GpsAssumption DEF Gps!Go, Gps!Trouble, Gps!fwVars, Gps!tellVars, Gps!mnlVars,
        Gps!epoVars, Gps!get_condition, Gps!release_condition, Gps!Call, Gps!reset_stop,
        Gps!HalExit, GpsQueues
<1>1. CASE UNCHANGED <<control, toMnld, toHal>>
  BY <1>1
<1>2. CASE Gps!mtk_gps_init
  BY <1>2 DEF Gps!mtk_gps_init
<1>3. CASE Gps!mtk_start
  BY <1>3 DEF Gps!mtk_start
<1>4. CASE Gps!gps_state_start
  BY <1>4 DEF Gps!gps_state_start
<1>5. CASE Gps!mtk_gps_stop
  <2>1. CASE UNCHANGED <<control, toMnld, toHal>>
    BY <2>1
  <2>2. CASE /\ Len(control) < MaxQueue /\ control' = Append(control, "CMD_STOP")
             /\ toMnld' = Append(toMnld, "STOP") /\ UNCHANGED toHal
    BY <2>2
  <2> QED
    BY <1>5, <2>1, <2>2 DEF Gps!mtk_gps_stop
<1>6. CASE Gps!mtk_gps_delete_aiding_data
  BY <1>6 DEF Gps!mtk_gps_delete_aiding_data
<1>7. CASE Gps!mtk_gps_cleanup
  BY <1>7 DEF Gps!mtk_gps_cleanup
<1>8. CASE Gps!gps_state_done
  BY <1>8 DEF Gps!gps_state_done
<1>9. CASE Gps!HalReady
  BY <1>9 DEF Gps!HalReady
<1>10. CASE Gps!HalControl
  BY <1>10 DEF Gps!HalControl
<1>11. CASE Gps!HalMnlDie
  BY <1>11 DEF Gps!HalMnlDie
<1>12. CASE Gps!HalIcon
  <2>1. CASE UNCHANGED <<control, toMnld, toHal>>
    BY <2>1
  <2>2. CASE UNCHANGED <<control, toMnld>> /\ toHal # <<>> /\ toHal' = Tail(toHal)
    BY <2>2
  <2> QED
    BY <1>12, <2>1, <2>2 DEF Gps!HalIcon
<1>13. CASE Gps!MnldReceives
  BY <1>13 DEF Gps!MnldReceives
<1>14. CASE Gps!MnldIcon
  BY <1>14 DEF Gps!MnldIcon
<1>15. CASE Gps!MnlDies
  BY <1>15 DEF Gps!MnlDies
<1>16. GpsOpens =>
        Gps!mtk_gps_init \/ UNCHANGED <<control, toMnld, toHal>>
  BY DEF GpsOpens, Gps!mtk_gps_init_fails, Gps!mtk_gps_init_done,
    Gps!mtk_gps_epo_interface_init, Gps!EpoExit
<1>17. GpsStarts =>
        Gps!mtk_start \/ Gps!gps_state_start \/ UNCHANGED <<control, toMnld, toHal>>
  BY DEF GpsStarts, Gps!mtk_gps_start, Gps!mtk_start_fails, Gps!mtk_gps_start_wait,
    Gps!acquire_wakelock_cb, Gps!check_stop, Gps!reset_stop, Gps!set_start_flag
<1>18. GpsEnds =>
        Gps!mtk_gps_stop \/ Gps!mtk_gps_delete_aiding_data \/ Gps!mtk_gps_cleanup
          \/ Gps!gps_state_done \/ UNCHANGED <<control, toMnld, toHal>>
  BY DEF GpsEnds, Gps!mtk_gps_stop_fails, Gps!cleanup_stop, Gps!cleanup_reset,
    Gps!cleanup_exit
<1>19. GpsHal =>
        Gps!HalReady \/ Gps!HalControl \/ Gps!HalMnlDie
          \/ Gps!HalIcon \/ UNCHANGED <<control, toMnld, toHal>>
  BY DEF GpsHal, Gps!HalNmea, Gps!HalDied, Gps!HalHangup
<1>20. GpsTells =>
        UNCHANGED <<control, toMnld, toHal>>
  BY DEF GpsTells, Gps!FillIn, Gps!Tell
<1>21. GpsMnld =>
        Gps!MnldReceives \/ Gps!MnldIcon \/ Gps!MnlDies \/ UNCHANGED <<control, toMnld, toHal>>
  BY DEF GpsMnld, Gps!MnldNmea
<1> QED
  BY <1>1, <1>2, <1>3, <1>4, <1>5, <1>6, <1>7, <1>8, <1>9, <1>10, <1>11, <1>12, <1>13,
    <1>14, <1>15, <1>16, <1>17, <1>18, <1>19, <1>20, <1>21, GpsSteps

\* A status that was filled in is still to be told.
LEMMA GpsTellingKept ==
    ASSUME GpsTelling, Gps!Next
    PROVE  GpsTelling'
<1> USE GpsAssumption DEF Gps!Go, Gps!Trouble, Gps!fwVars, Gps!tellVars, Gps!mnlVars,
        Gps!epoVars, Gps!get_condition, Gps!release_condition, Gps!Call, Gps!reset_stop,
        Gps!HalExit, GpsTelling, Gps!Status
<1>1. CASE UNCHANGED <<sta, told, report, filled>>
  BY <1>1
<1>2. CASE Gps!gps_state_start
  BY <1>2 DEF Gps!gps_state_start
<1>3. CASE Gps!HalMnlDie
  BY <1>3 DEF Gps!HalMnlDie
<1>4. CASE Gps!HalIcon
  <2>1. CASE UNCHANGED <<sta, told, report, filled>>
    BY <2>1
  <2>2. \A first, last \in Gps!Status :
          UNCHANGED <<sta, told, filled>> /\ report' = [report EXCEPT !["hal"] = <<first, last>>]
            => GpsTelling'
    OBVIOUS
  <2> QED
    BY <1>4, <2>1, <2>2 DEF Gps!HalIcon
<1>5. CASE Gps!FillIn("fw")
  BY <1>5 DEF Gps!FillIn
<1>6. CASE Gps!Tell("fw")
  BY <1>6 DEF Gps!Tell
<1>7. CASE Gps!FillIn("hal")
  BY <1>7 DEF Gps!FillIn
<1>8. CASE Gps!Tell("hal")
  BY <1>8 DEF Gps!Tell
<1>9. GpsOpens =>
        UNCHANGED <<sta, told, report, filled>>
  BY DEF GpsOpens, Gps!mtk_gps_init, Gps!mtk_gps_init_fails, Gps!mtk_gps_init_done,
    Gps!mtk_gps_epo_interface_init, Gps!EpoExit
<1>10. GpsStarts =>
        Gps!gps_state_start \/ UNCHANGED <<sta, told, report, filled>>
  BY DEF GpsStarts, Gps!mtk_gps_start, Gps!mtk_start, Gps!mtk_start_fails,
    Gps!mtk_gps_start_wait, Gps!acquire_wakelock_cb, Gps!check_stop, Gps!reset_stop,
    Gps!set_start_flag
<1>11. GpsEnds =>
        UNCHANGED <<sta, told, report, filled>>
  BY DEF GpsEnds, Gps!mtk_gps_stop, Gps!mtk_gps_stop_fails, Gps!mtk_gps_delete_aiding_data,
    Gps!mtk_gps_cleanup, Gps!cleanup_stop, Gps!cleanup_reset, Gps!gps_state_done,
    Gps!cleanup_exit
<1>12. GpsHal =>
        Gps!HalMnlDie \/ Gps!HalIcon \/ UNCHANGED <<sta, told, report, filled>>
  BY DEF GpsHal, Gps!HalReady, Gps!HalControl, Gps!HalNmea, Gps!HalDied, Gps!HalHangup
<1>13. GpsTells =>
        Gps!FillIn("fw") \/ Gps!Tell("fw")
          \/ Gps!FillIn("hal") \/ Gps!Tell("hal") \/ UNCHANGED <<sta, told, report, filled>>
  BY DEF GpsTells
<1>14. GpsMnld =>
        UNCHANGED <<sta, told, report, filled>>
  BY DEF GpsMnld, Gps!MnldReceives, Gps!MnldNmea, Gps!MnldIcon, Gps!MnlDies
<1> QED
  BY <1>1, <1>2, <1>3, <1>4, <1>5, <1>6, <1>7, <1>8, <1>9, <1>10, <1>11, <1>12, <1>13,
    <1>14, GpsSteps

\* Whatever fails, the first sentence of a session lets its start go on.
LEMMA GpsNmeaKept ==
    ASSUME GpsPlaces, GpsFlags, Gps!NmeaSound, Gps!Next
    PROVE  Gps!NmeaSound'
<1> USE GpsAssumption DEF Gps!Go, Gps!Trouble, Gps!fwVars, Gps!tellVars, Gps!mnlVars,
        Gps!epoVars, Gps!get_condition, Gps!release_condition, Gps!Call, Gps!reset_stop,
        Gps!HalExit, GpsPlaces, GpsFlags, Gps!NmeaSound, Gps!Dying, Gps!Beginning, Gps!Fw
<1>1. CASE GpsOpens
  BY <1>1 DEF GpsOpens, Gps!mtk_gps_init, Gps!mtk_gps_init_fails, Gps!mtk_gps_init_done,
    Gps!mtk_gps_epo_interface_init, Gps!EpoExit
<1>2. CASE GpsStarts
  BY <1>2 DEF GpsStarts, Gps!mtk_gps_start, Gps!mtk_start, Gps!mtk_start_fails,
    Gps!mtk_gps_start_wait, Gps!gps_state_start, Gps!acquire_wakelock_cb, Gps!check_stop,
    Gps!reset_stop, Gps!set_start_flag
<1>3. CASE GpsEnds
  BY <1>3 DEF GpsEnds, Gps!mtk_gps_stop, Gps!mtk_gps_stop_fails,
    Gps!mtk_gps_delete_aiding_data, Gps!mtk_gps_cleanup, Gps!cleanup_stop,
    Gps!cleanup_reset, Gps!gps_state_done, Gps!cleanup_exit
<1>4. CASE GpsHal
  BY <1>4 DEF GpsHal, Gps!HalReady, Gps!HalControl, Gps!HalNmea, Gps!HalMnlDie, Gps!HalDied,
    Gps!HalIcon, Gps!HalHangup
<1>5. CASE GpsTells
  BY <1>5 DEF GpsTells, Gps!FillIn, Gps!Tell
<1>6. CASE GpsMnld
  BY <1>6 DEF GpsMnld, Gps!MnldReceives, Gps!MnldNmea, Gps!MnldIcon, Gps!MnlDies
<1> QED
  BY <1>1, <1>2, <1>3, <1>4, <1>5, <1>6, GpsSteps

\* The messages to mnld: one is read, one is added.
LEMMA StartRead ==
    ASSUME GpsQueues, toMnld # <<>>, toMnld' = Tail(toMnld), NEW p \in Nat, Gps!StartIs(p)
    PROVE  /\ Len(toMnld) \in Nat \ {0} /\ Len(toMnld') = Len(toMnld) - 1
           /\ Head(toMnld) = "START" <=> p = 1
           /\ p = 0 => Gps!StartIs(0)'
           /\ p > 0 => Gps!StartIs(p - 1)'
<1>1. Len(toMnld) \in Nat \ {0} /\ Len(toMnld') = Len(toMnld) - 1 /\ Head(toMnld) = toMnld[1]
  BY DEF GpsQueues
<1>2. \A i \in DOMAIN toMnld' : i + 1 \in DOMAIN toMnld /\ toMnld'[i] = toMnld[i + 1]
  BY DEF GpsQueues
<1>3. \A i \in DOMAIN toMnld' : i \in Nat \ {0}
  BY DEF GpsQueues
<1>4. 1 \in DOMAIN toMnld
  BY <1>1 DEF GpsQueues
<1> QED
  BY <1>1, <1>2, <1>3, <1>4 DEF Gps!StartIs

\* A message that is added comes last.
LEMMA StartAdded ==
    ASSUME GpsQueues, NEW m, toMnld' = Append(toMnld, m), NEW p \in 0 .. Len(toMnld), Gps!StartIs(p)
    PROVE  /\ Len(toMnld) \in Nat /\ Len(toMnld') = Len(toMnld) + 1
           /\ m # "START" => Gps!StartIs(p)'
           /\ m = "START" /\ p = 0 => Gps!StartIs(Len(toMnld))'
<1>1. Len(toMnld) \in Nat /\ Len(toMnld') = Len(toMnld) + 1
  BY DEF GpsQueues
<1>2. DOMAIN toMnld' = 1 .. Len(toMnld) + 1 /\ toMnld'[Len(toMnld) + 1] = m
  BY DEF GpsQueues
<1>3. \A i \in 1 .. Len(toMnld) : i \in DOMAIN toMnld /\ toMnld'[i] = toMnld[i]
  BY DEF GpsQueues
<1> QED
  BY <1>1, <1>2, <1>3 DEF Gps!StartIs

\* mnld reads a message: the engine ends as it was going to.
LEMMA EngineReads ==
    ASSUME GpsQueues, Gps!MnldReceives
    PROVE  /\ Gps!EngineOff => Gps!EngineOff'
           /\ Gps!EngineOn => Gps!EngineOn'
           /\ Gps!EngineStops => Gps!EngineStops'
<1>1. /\ toMnld # <<>> /\ toMnld' = Tail(toMnld)
      /\ mnl' = IF Head(toMnld) = "START" THEN "on" ELSE "off"
      /\ toHal' = IF Head(toMnld) # "START" /\ mnl = "on" THEN Append(toHal, "MNL_DIE") ELSE toHal
  BY DEF Gps!MnldReceives
<1>2. ASSUME Gps!EngineOff
      PROVE  Gps!EngineOff'
  BY <1>1, <1>2, StartRead DEF Gps!EngineOff
<1>3. ASSUME Gps!EngineOn
      PROVE  Gps!EngineOn'
  <2>1. /\ toHal = <<>> /\ mnl = "off"
        /\ \E p \in Nat \ {0} : p = Len(toMnld) /\ Gps!StartIs(p)
    BY <1>1, <1>3 DEF Gps!EngineOn, GpsQueues
  <2>2. PICK p \in Nat \ {0} : p = Len(toMnld) /\ Gps!StartIs(p)
    BY <2>1
  <2>3. Len(toMnld') = p - 1 /\ Gps!StartIs(p - 1)' /\ (Head(toMnld) = "START" <=> p = 1)
    <3>1. p \in Nat /\ p > 0
      OBVIOUS
    <3>2. /\ Len(toMnld') = Len(toMnld) - 1 /\ Gps!StartIs(p - 1)'
          /\ Head(toMnld) = "START" <=> p = 1
      BY <1>1, <2>2, <3>1, StartRead
    <3> QED
      BY <2>2, <3>2
  <2>4. CASE p = 1
    <3>1. toMnld' = <<>> /\ Head(toMnld) = "START"
      BY <1>1, <2>4, <2>3 DEF GpsQueues
    <3> QED
      BY <1>1, <2>1, <3>1 DEF Gps!EngineOn
  <2>5. CASE p # 1
    <3>1. toMnld' # <<>> /\ Head(toMnld) # "START"
      BY <2>5, <2>3
    <3>2. Gps!StartIs(Len(toMnld))'
      BY <2>3 DEF Gps!StartIs
    <3> QED
      BY <1>1, <2>1, <3>1, <3>2 DEF Gps!EngineOn
  <2> QED
    BY <2>4, <2>5
<1>4. ASSUME Gps!EngineStops
      PROVE  Gps!EngineStops'
  <2>1. CASE toHal = <<>> /\ mnl = "on" /\ Gps!StartIs(0)
    <3>1. Head(toMnld) # "START" /\ Gps!StartIs(0)'
      BY <1>1, <2>1, StartRead
    <3> QED
      BY <1>1, <2>1, <3>1 DEF Gps!EngineStops
  <2>2. ASSUME toHal = <<>>, mnl = "off", NEW p \in 1 .. Len(toMnld) - 1, Gps!StartIs(p)
        PROVE  Gps!EngineStops'
    <3>1. /\ Len(toMnld) \in Nat \ {0} /\ Len(toMnld') = Len(toMnld) - 1
          /\ Head(toMnld) = "START" <=> p = 1
          /\ Gps!StartIs(p - 1)'
      BY <1>1, <2>2, StartRead DEF GpsQueues
    <3>2. toHal' = <<>>
      BY <1>1, <2>2
    <3>3. CASE p = 1
      <4>1. mnl' = "on" /\ toMnld' # <<>> /\ Gps!StartIs(0)'
        BY <1>1, <2>2, <3>1, <3>3 DEF Gps!StartIs
      <4> QED
        BY <3>2, <4>1 DEF Gps!EngineStops
    <3>4. CASE p # 1
      <4>1. mnl' = "off" /\ p - 1 \in 1 .. Len(toMnld') - 1
        BY <1>1, <2>2, <3>1, <3>4
      <4> QED
        BY <3>1, <3>2, <4>1 DEF Gps!EngineStops
    <3> QED
      BY <3>3, <3>4
  <2>3. CASE toHal = <<"MNL_DIE">> /\ mnl = "off" /\ Gps!StartIs(0)
    <3>1. Head(toMnld) # "START" /\ Gps!StartIs(0)'
      BY <1>1, <2>3, StartRead
    <3> QED
      BY <1>1, <2>3, <3>1 DEF Gps!EngineStops
  <2> QED
    BY <1>4, <2>1, <2>2, <2>3 DEF Gps!EngineStops
<1> QED
  BY <1>2, <1>3, <1>4

\* mnld is asked for something.
LEMMA EngineAsked ==
    ASSUME GpsQueues, NEW m, toMnld' = Append(toMnld, m), UNCHANGED <<mnl, toHal>>
    PROVE  /\ m = "START" /\ Gps!EngineOff => Gps!EngineOn'
           /\ m # "START" /\ Gps!EngineOff => Gps!EngineOff'
           /\ m # "START" /\ (Gps!EngineOn \/ Gps!EngineStops) => Gps!EngineStops'
<1>1. Len(toMnld) \in Nat /\ Len(toMnld') = Len(toMnld) + 1 /\ toMnld' # <<>>
  BY DEF GpsQueues
<1>2. ASSUME m = "START", Gps!EngineOff
      PROVE  Gps!EngineOn'
  <2>1. Gps!StartIs(Len(toMnld))'
    BY <1>1, <1>2, StartAdded DEF Gps!EngineOff
  <2> QED
    BY <1>1, <1>2, <2>1 DEF Gps!EngineOff, Gps!EngineOn
<1>3. ASSUME m # "START", Gps!StartIs(0)
      PROVE  Gps!StartIs(0)'
  BY <1>1, <1>3, StartAdded
<1>4. ASSUME m # "START", Gps!EngineOff
      PROVE  Gps!EngineOff'
  BY <1>3, <1>4 DEF Gps!EngineOff
<1>5. ASSUME m # "START", Gps!EngineOn
      PROVE  Gps!EngineStops'
  <2>1. CASE toHal = <<>> /\ mnl = "on" /\ toMnld = <<>>
    <3>1. Gps!StartIs(0)
      BY <2>1 DEF Gps!StartIs
    <3> QED
      BY <1>1, <1>3, <1>5, <2>1, <3>1 DEF Gps!EngineStops
  <2>2. CASE toHal = <<>> /\ mnl = "off" /\ toMnld # <<>> /\ Gps!StartIs(Len(toMnld))
    <3>1. Len(toMnld) # 0
      BY <2>2 DEF GpsQueues
    <3>2. Len(toMnld) \in 1 .. Len(toMnld') - 1 /\ Len(toMnld) \in 0 .. Len(toMnld)
      BY <1>1, <3>1
    <3>3. ASSUME NEW p \in 1 .. Len(toMnld') - 1, p = Len(toMnld)
          PROVE  Gps!StartIs(p)'
      BY <1>5, <2>2, <3>2, <3>3, StartAdded
    <3> QED
      BY <2>2, <3>2, <3>3 DEF Gps!EngineStops
  <2> QED
    BY <1>5, <2>1, <2>2 DEF Gps!EngineOn
<1>6. ASSUME m # "START", Gps!EngineStops
      PROVE  Gps!EngineStops'
  <2>1. ASSUME toHal = <<>>, mnl = "off", NEW p \in 1 .. Len(toMnld) - 1, Gps!StartIs(p)
        PROVE  Gps!EngineStops'
    <3>1. p \in 0 .. Len(toMnld) /\ p \in 1 .. Len(toMnld') - 1
      BY <1>1, <2>1
    <3>2. Gps!StartIs(p)'
      BY <1>6, <2>1, <3>1, StartAdded
    <3> QED
      BY <2>1, <3>1, <3>2 DEF Gps!EngineStops
  <2> QED
    BY <1>1, <1>3, <1>6, <2>1 DEF Gps!EngineStops
<1> QED
  BY <1>2, <1>4, <1>5, <1>6

\* The engine and its messages rest.
LEMMA EngineRests ==
    ASSUME UNCHANGED <<mnl, toMnld, toHal>>
    PROVE  /\ Gps!EngineOff => Gps!EngineOff'
           /\ Gps!EngineOn => Gps!EngineOn'
           /\ Gps!EngineStops => Gps!EngineStops'
BY DEF Gps!EngineOff, Gps!EngineOn, Gps!EngineStops, Gps!StartIs

\* The steps beside the framework thread, and what is so while nothing fails.
GpsBeside == Gps!EpoExit \/ GpsHal \/ GpsTells \/ GpsMnld
GpsCalm == Gps!TypeOK /\ Gps!Calm /\ Gps!Calm' /\ Gps!LifeSound

\* While nothing fails the steps that fail are not taken.
LEMMA GpsNoTrouble ==
    ASSUME GpsCalm
    PROVE  ~Gps!HalHangup /\ ~Gps!MnldIcon /\ ~Gps!MnlDies /\ ~Gps!mtk_gps_init_fails
           /\ ~Gps!mtk_start_fails /\ ~Gps!mtk_gps_stop_fails
BY DEF GpsCalm, Gps!Calm, Gps!HalHangup, Gps!MnldIcon, Gps!MnlDies, Gps!mtk_gps_init_fails,
       Gps!mtk_start_fails, Gps!mtk_gps_stop_fails, Gps!Trouble

\* Nobody tells anything who has nothing to tell.
LEMMA SilentThread ==
    ASSUME GpsCalm, NEW t \in {"fw", "hal"}, Gps!Silent(t)
    PROVE  ~Gps!FillIn(t) /\ ~Gps!Tell(t)
BY DEF GpsCalm, Gps!TypeOK, Gps!Silent, Gps!FillIn, Gps!Tell

\* Without a message from mnld the HAL thread handles none.
LEMMA NoMessage ==
    ASSUME GpsCalm, toHal = <<>>
    PROVE  ~Gps!HalMnlDie /\ ~Gps!HalIcon
BY DEF GpsCalm, Gps!LifeSound, Gps!HalMnlDie, Gps!HalIcon

\* The steps that tell nothing and end nothing.
GpsPlain ==
    \/ Gps!EpoExit \/ Gps!HalReady \/ Gps!HalControl \/ Gps!HalNmea
    \/ Gps!MnldNmea \/ Gps!MnldReceives

\* What those steps leave alone.
LEMMA PlainFrame ==
    ASSUME GpsPlain
    PROVE  /\ UNCHANGED <<fw, navigating, init, start_flag, sta, told, report, filled, wakelock>>
           /\ "M_STOP" \in cond' <=> "M_STOP" \in cond
           /\ \/ hal' = hal
              \/ hal = "starting" /\ hal' = "loop"
              \/ hal = "loop" /\ hal' = "none" /\ control # <<>> /\ Head(control) = "CMD_QUIT"
           /\ \/ UNCHANGED <<mnl, toMnld, toHal>>
              \/ hal = "starting" /\ UNCHANGED <<mnl, toMnld>> /\ toHal' = <<>>
              \/ Gps!MnldReceives
<1> USE DEF Gps!fwVars, Gps!tellVars, Gps!mnlVars, Gps!release_condition, Gps!HalExit
<1>1. CASE Gps!EpoExit
  BY <1>1 DEF Gps!EpoExit
<1>2. CASE Gps!HalReady
  BY <1>2 DEF Gps!HalReady
<1>3. CASE Gps!HalControl
  BY <1>3 DEF Gps!HalControl
<1>4. CASE Gps!HalNmea
  BY <1>4 DEF Gps!HalNmea
<1>5. CASE Gps!MnldNmea
  BY <1>5 DEF Gps!MnldNmea
<1>6. CASE Gps!MnldReceives
  BY <1>6 DEF Gps!MnldReceives
<1> QED
  BY <1>1, <1>2, <1>3, <1>4, <1>5, <1>6 DEF GpsPlain

\* Without trouble the others are these.
LEMMA BesideSteps ==
    ASSUME GpsCalm, GpsBeside
    PROVE  GpsPlain \/ Gps!HalMnlDie \/ Gps!HalDied \/ Gps!HalIcon \/ GpsTells
BY GpsNoTrouble DEF GpsBeside, GpsHal, GpsMnld, GpsPlain

\* They keep the engine on its way.
LEMMA PlainEngine ==
    ASSUME GpsCalm, GpsPlain
    PROVE  /\ Gps!EngineOff => Gps!EngineOff'
           /\ hal # "starting" /\ Gps!EngineOn => Gps!EngineOn'
           /\ hal # "starting" /\ Gps!EngineStops => Gps!EngineStops'
<1>1. CASE Gps!MnldReceives
  BY <1>1, GpsTypeParts, EngineReads DEF GpsCalm
<1>2. CASE UNCHANGED <<mnl, toMnld, toHal>>
  BY <1>2, EngineRests
<1>3. CASE hal = "starting" /\ UNCHANGED <<mnl, toMnld>> /\ toHal' = <<>>
  BY <1>3 DEF Gps!EngineOff, Gps!StartIs
<1> QED
  BY <1>1, <1>2, <1>3, PlainFrame

\* The HAL thread leaves when it is told to only.
LEMMA PlainStays ==
    ASSUME GpsCalm, GpsPlain, fw # "done_wait", hal = "loop"
    PROVE  hal' = "loop"
<1>1. ~(control # <<>> /\ Head(control) = "CMD_QUIT")
  <2> SUFFICES ASSUME control # <<>>, Head(control) = "CMD_QUIT"
               PROVE  FALSE
    OBVIOUS
  <2>1. 1 \in DOMAIN control /\ control[1] = "CMD_QUIT"
    BY DEF GpsCalm, Gps!TypeOK
  <2> QED
    BY <2>1 DEF GpsCalm, Gps!LifeSound
<1> QED
  BY <1>1, PlainFrame

\* The other threads begin no session ...
LEMMA BesideOver ==
    ASSUME GpsCalm, GpsBeside, Gps!Over
    PROVE  Gps!Over'
<1>1. CASE GpsPlain
  BY <1>1, PlainFrame, PlainEngine DEF Gps!Over, Gps!Silent, Gps!Dying
<1>2. ~Gps!HalMnlDie /\ ~Gps!HalIcon /\ ~GpsTells
  BY NoMessage, SilentThread DEF Gps!Over, Gps!EngineOff, GpsTells
<1>3. ~Gps!HalDied
  BY DEF Gps!Over, Gps!Dying, Gps!HalDied
<1> QED
  BY <1>1, <1>2, <1>3, BesideSteps

\* ... end none that runs, ...
LEMMA BesideRuns ==
    ASSUME GpsCalm, GpsBeside, fw # "done_wait", Gps!Runs
    PROVE  Gps!Runs'
<1>1. CASE GpsPlain
  BY <1>1, PlainFrame, PlainEngine, PlainStays DEF Gps!Runs, Gps!Silent
<1>2. ~Gps!HalMnlDie /\ ~Gps!HalIcon /\ ~GpsTells
  BY NoMessage, SilentThread DEF Gps!Runs, Gps!EngineOn, GpsTells
<1>3. ~Gps!HalDied
  BY DEF Gps!Runs, Gps!HalDied
<1> QED
  BY <1>1, <1>2, <1>3, BesideSteps

\* A thread fills in the next status and tells it.
LEMMA Telling ==
    ASSUME GpsCalm, NEW t \in {"fw", "hal"}, NEW first, NEW last, Gps!Tells(t, first, last),
           Gps!FillIn(t) \/ Gps!Tell(t)
    PROVE  /\ Gps!Tells(t, first, last)'
           /\ \A u \in {"fw", "hal"} \ {t} : report'[u] = report[u]
           /\ UNCHANGED <<fw, navigating, init, start_flag, cond, wakelock, hal>>
           /\ UNCHANGED <<mnl, toMnld, toHal>>
<1> USE DEF GpsCalm, Gps!TypeOK
<1>1. CASE Gps!FillIn(t)
  <2>1. /\ report[t] # <<>> /\ ~filled[t] /\ sta' = Head(report[t]) /\ UNCHANGED <<told, report>>
        /\ UNCHANGED <<fw, navigating, init, start_flag, cond, wakelock, hal, mnl, toMnld, toHal>>
    BY <1>1 DEF Gps!FillIn, Gps!fwVars, Gps!mnlVars
  <2> QED
    BY <2>1 DEF Gps!Tells
<1>2. CASE Gps!Tell(t)
  <2>1. /\ filled[t] /\ told' = sta /\ filled' = [filled EXCEPT ![t] = FALSE]
        /\ report' = [report EXCEPT ![t] = Tail(@)]
        /\ UNCHANGED <<fw, navigating, init, start_flag, cond, wakelock, hal, mnl, toMnld, toHal>>
    BY <1>2 DEF Gps!Tell, Gps!fwVars, Gps!mnlVars
  <2>2. ~filled'[t] /\ report'[t] = Tail(report[t])
    BY <2>1
  <2>3. \A u \in {"fw", "hal"} \ {t} : report'[u] = report[u]
    BY <2>1
  <2>4. report[t] # <<>> /\ sta = Head(report[t])
    BY <2>1 DEF Gps!Tells
  <2>5. CASE report[t] = <<first, last>>
    <3>1. report'[t] = <<last>> /\ <<last>> # <<>>
      BY <2>2, <2>5
    <3> QED
      BY <2>1, <2>2, <2>3, <3>1 DEF Gps!Tells
  <2>6. CASE report[t] = <<last>>
    <3>1. report'[t] = <<>> /\ told' = last
      BY <2>1, <2>2, <2>4, <2>6
    <3> QED
      BY <2>1, <2>2, <2>3, <3>1 DEF Gps!Tells
  <2> QED
    BY <2>4, <2>5, <2>6 DEF Gps!Tells
<1> QED
  BY <1>1, <1>2

\* ... let one begin, ...
LEMMA BesideBegins ==
    ASSUME GpsCalm, GpsBeside, fw # "done_wait", Gps!Begins,
           fw \in {"start_wait"} \cup Gps!Beginning
    PROVE  Gps!Begins'
<1>1. CASE GpsPlain
  BY <1>1, PlainFrame, PlainEngine, PlainStays DEF Gps!Begins, Gps!Silent, Gps!Tells
<1>2. ~Gps!HalMnlDie /\ ~Gps!HalIcon /\ ~Gps!FillIn("hal") /\ ~Gps!Tell("hal")
  BY NoMessage, SilentThread DEF Gps!Begins, Gps!EngineOn
<1>3. ~Gps!HalDied
  BY DEF Gps!Begins, Gps!HalDied
<1>4. CASE Gps!FillIn("fw") \/ Gps!Tell("fw")
  <2>1. fw = "tell_begin"
    BY <1>4, SilentThread DEF Gps!Begins, Gps!Beginning
  <2>2. Gps!Tells("fw", "ENGINE_ON", "SESSION_BEGIN")
    BY <2>1 DEF Gps!Begins
  <2>3. /\ Gps!Tells("fw", "ENGINE_ON", "SESSION_BEGIN")' /\ report'["hal"] = report["hal"]
        /\ UNCHANGED <<fw, navigating, init, start_flag, cond, wakelock, hal, mnl, toMnld, toHal>>
    BY <1>4, <2>2, Telling
  <2> QED
    BY <2>1, <2>3, EngineRests DEF Gps!Begins, Gps!Silent
<1> QED
  BY <1>1, <1>2, <1>3, <1>4, BesideSteps DEF GpsTells

\* ... end one that was asked to stop, ...
LEMMA BesideStops ==
    ASSUME GpsCalm, GpsBeside, fw # "done_wait", Gps!Stops
    PROVE  Gps!Stops' \/ Gps!Dies'
<1>1. CASE GpsPlain
  BY <1>1, PlainFrame, PlainEngine, PlainStays DEF Gps!Stops, Gps!Silent
<1>2. CASE Gps!HalMnlDie
  <2>1. /\ toHal # <<>> /\ toHal' = Tail(toHal) /\ hal' = "die_stop"
        /\ report' = [report EXCEPT !["hal"] = <<"SESSION_END", "ENGINE_OFF">>]
        /\ UNCHANGED <<start_flag, cond, filled, wakelock, mnl, toMnld>>
    BY <1>2 DEF Gps!HalMnlDie, Gps!mnlVars
  <2>2. toHal = <<"MNL_DIE">> /\ mnl = "off" /\ Gps!StartIs(0)
    BY <2>1 DEF Gps!Stops, Gps!EngineStops
  <2>3. Gps!EngineOff'
    BY <2>1, <2>2 DEF Gps!EngineOff, Gps!StartIs
  <2>4. report'["hal"] = <<"SESSION_END", "ENGINE_OFF">> /\ report'["fw"] = <<>> /\ ~filled'["hal"]
    BY <2>1 DEF Gps!Stops, Gps!Silent, GpsCalm, Gps!TypeOK
  <2>5. report'["hal"] # <<>>
    BY <2>4
  <2>6. Gps!Tells("hal", "SESSION_END", "ENGINE_OFF")'
    BY <2>4, <2>5 DEF Gps!Tells
  <2> QED
    BY <2>1, <2>3, <2>4, <2>6 DEF Gps!Stops, Gps!Dies, Gps!Dying, Gps!Silent
<1>3. ~Gps!HalIcon /\ ~GpsTells /\ ~Gps!HalDied
  <2>1. toHal # <<>> => Head(toHal) = "MNL_DIE"
    BY DEF Gps!Stops, Gps!EngineStops
  <2> QED
    BY <2>1, SilentThread DEF Gps!Stops, Gps!HalIcon, Gps!HalDied, GpsTells
<1> QED
  BY <1>1, <1>2, <1>3, BesideSteps

\* ... and bring its end to an end.
LEMMA BesideDies ==
    ASSUME GpsCalm, GpsBeside, Gps!Dies
    PROVE  Gps!Over' \/ (Gps!Dies' /\ (hal # "die_stop" => hal' # "die_stop"))
<1>1. CASE GpsPlain
  <2>1. hal' = hal
    BY <1>1, PlainFrame DEF Gps!Dies, Gps!Dying
  <2> QED
    BY <1>1, <2>1, PlainFrame, PlainEngine DEF Gps!Dies, Gps!Silent, Gps!Tells
<1>2. ~Gps!HalMnlDie /\ ~Gps!HalIcon /\ ~Gps!FillIn("fw") /\ ~Gps!Tell("fw")
  BY NoMessage, SilentThread DEF Gps!Dies, Gps!EngineOff
<1>3. CASE Gps!FillIn("hal") \/ Gps!Tell("hal")
  <2>1. hal = "die_stop"
    BY <1>3, SilentThread DEF Gps!Dies
  <2>2. /\ Gps!Tells("hal", "SESSION_END", "ENGINE_OFF")' /\ report'["fw"] = report["fw"]
        /\ UNCHANGED <<fw, navigating, init, start_flag, cond, wakelock, hal, mnl, toMnld, toHal>>
    BY <1>3, Telling DEF Gps!Dies
  <2> QED
    BY <2>1, <2>2, EngineRests DEF Gps!Dies, Gps!Silent
<1>4. CASE Gps!HalDied
  <2>1. /\ report["hal"] = <<>> /\ told = "ENGINE_OFF"
        /\ UNCHANGED <<fw, navigating, init, sta, told, report, filled, mnl, toMnld, toHal>>
    BY <1>4 DEF Gps!HalDied, Gps!Dies, Gps!Tells, Gps!fwVars, Gps!tellVars, Gps!mnlVars
  <2>2. Gps!EngineOff'
    BY <2>1, EngineRests DEF Gps!Dies
  <2>3. Gps!Tells("hal", "SESSION_END", "ENGINE_OFF")' /\ report'["fw"] = <<>>
    BY <2>1 DEF Gps!Dies, Gps!Tells, Gps!Silent
  <2>4. CASE hal = "die_flag"
    <3>1. hal' = "loop" /\ start_flag' = FALSE /\ ~wakelock'
      BY <1>4, <2>4 DEF Gps!HalDied, Gps!Dies
    <3> QED
      BY <2>1, <2>2, <2>3, <3>1 DEF Gps!Over, Gps!Silent, Gps!Dying
  <2>5. CASE hal = "die_wakelock"
    <3>1. hal' = "die_flag" /\ ~wakelock' /\ start_flag'
      BY <1>4, <2>5 DEF Gps!HalDied, Gps!Dies
    <3> QED
      BY <2>1, <2>2, <2>3, <3>1 DEF Gps!Dies, Gps!Silent, Gps!Dying
  <2>6. CASE hal = "die_stop"
    <3>1. hal' = "die_wakelock" /\ start_flag'
      BY <1>4, <2>6 DEF Gps!HalDied, Gps!Dies
    <3> QED
      BY <2>1, <2>2, <2>3, <2>6, <3>1 DEF Gps!Dies, Gps!Silent, Gps!Dying
  <2> QED
    BY <2>4, <2>5, <2>6 DEF Gps!Dies, Gps!Dying
<1> QED
  BY <1>1, <1>2, <1>3, <1>4, BesideSteps DEF GpsTells

\* The steps beside the framework thread leave it where it is.
LEMMA BesideSession ==
    ASSUME GpsCalm, GpsBeside, Gps!SessionSound
    PROVE  Gps!SessionSound'
<1>1. UNCHANGED <<fw, navigating, init>>
  BY DEF GpsBeside, GpsHal, GpsTells, GpsMnld, Gps!EpoExit, Gps!HalReady, Gps!HalControl,
    Gps!HalNmea, Gps!HalMnlDie, Gps!HalDied, Gps!HalIcon, Gps!HalHangup, Gps!HalExit,
    Gps!FillIn, Gps!Tell, Gps!MnldReceives, Gps!MnldNmea, Gps!MnldIcon, Gps!MnlDies, Gps!fwVars
<1>2. Gps!Over => Gps!Over'
  BY BesideOver
<1>3. fw # "done_wait" /\ Gps!Runs => Gps!Runs'
  BY BesideRuns
<1>4. fw \in {"start_wait"} \cup Gps!Beginning /\ Gps!Begins => Gps!Begins'
  BY BesideBegins DEF Gps!Beginning
<1>5. fw # "done_wait" /\ Gps!Stops => Gps!Stops' \/ Gps!Dies'
  BY BesideStops
<1>6. Gps!Dies => Gps!Over' \/ (Gps!Dies' /\ (hal # "die_stop" => hal' # "die_stop"))
  BY BesideDies
<1> QED
  BY <1>1, <1>2, <1>3, <1>4, <1>5, <1>6 DEF Gps!SessionSound, Gps!Beginning

\* What a step of the framework thread does not touch stays as it was.
LEMMA SessionRests ==
    ASSUME UNCHANGED <<start_flag, hal, wakelock, sta, told, report, filled, mnl, toMnld, toHal>>,
           "M_STOP" \in cond' => "M_STOP" \in cond
    PROVE  /\ Gps!Over => Gps!Over'
           /\ Gps!Runs => Gps!Runs'
           /\ Gps!Stops => Gps!Stops'
           /\ Gps!Dies => Gps!Dies'
BY EngineRests DEF Gps!Over, Gps!Runs, Gps!Stops, Gps!Dies, Gps!Silent, Gps!Tells

\* init leaves no session on.
LEMMA OpensSession ==
    ASSUME GpsCalm, GpsOpens, ~Gps!EpoExit, Gps!SessionSound
    PROVE  Gps!SessionSound'
<1> USE DEF Gps!Go, Gps!get_condition, Gps!fwVars, Gps!tellVars, Gps!mnlVars, Gps!epoVars
<1>1. CASE Gps!mtk_gps_init
  <2>1. /\ fw = "idle" /\ fw' = "init_wait" /\ ~init /\ hal = "none" /\ hal' = "starting"
        /\ UNCHANGED <<start_flag, wakelock, told, report, mnl, toMnld, toHal>>
    BY <1>1 DEF Gps!mtk_gps_init
  <2>2. Gps!Over
    BY <2>1 DEF GpsCalm, Gps!LifeSound, Gps!SessionSound, Gps!Stops, Gps!Dies, Gps!Dying
  <2>3. Gps!Over'
    BY <2>1, <2>2, EngineRests DEF Gps!Over, Gps!Silent, Gps!Dying
  <2> QED
    BY <2>1, <2>3 DEF Gps!SessionSound, Gps!Beginning
<1>2. CASE Gps!mtk_gps_init_done
  <2>1. Gps!Over' /\ fw' = "xtra"
    BY <1>2, SessionRests DEF Gps!mtk_gps_init_done, Gps!SessionSound
  <2> QED
    BY <2>1 DEF Gps!SessionSound, Gps!Beginning
<1>3. CASE Gps!mtk_gps_epo_interface_init
  <2>1. fw = "xtra" /\ fw' \in {"xtra", "idle"} /\ Gps!Over' /\ ~navigating'
    BY <1>3, SessionRests DEF Gps!mtk_gps_epo_interface_init, Gps!SessionSound, GpsCalm,
      Gps!LifeSound
  <2> QED
    BY <2>1 DEF Gps!SessionSound, Gps!Beginning
<1> QED
  BY <1>1, <1>2, <1>3, GpsNoTrouble DEF GpsOpens

\* start begins one.
LEMMA StartsSession ==
    ASSUME GpsCalm, GpsStarts, Gps!SessionSound
    PROVE  Gps!SessionSound'
<1> USE DEF Gps!Go, Gps!Call, Gps!get_condition, Gps!fwVars, Gps!tellVars, Gps!mnlVars, Gps!epoVars
<1>1. CASE Gps!mtk_gps_start
  <2>1. /\ UNCHANGED <<start_flag, hal, wakelock, sta, told, report, filled>>
        /\ UNCHANGED <<mnl, toMnld, toHal, cond>>
        /\ \/ fw = "idle" /\ ~navigating /\ fw' = "start"
           \/ fw = "start" /\ ~start_flag /\ fw' = "mtk_start"
    BY <1>1 DEF Gps!mtk_gps_start
  <2>2. CASE fw = "idle"
    <3>1. fw' = "start" /\ (Gps!Over' \/ Gps!Stops' \/ Gps!Dies')
      BY <2>1, <2>2, SessionRests DEF Gps!SessionSound
    <3> QED
      BY <3>1 DEF Gps!SessionSound, Gps!Beginning
  <2>3. CASE fw = "start"
    <3>1. Gps!Over
      BY <2>1, <2>3 DEF Gps!SessionSound, Gps!Stops, Gps!Dies
    <3>2. fw' = "mtk_start" /\ Gps!Over'
      BY <2>1, <2>3, <3>1, SessionRests
    <3> QED
      BY <3>2 DEF Gps!SessionSound, Gps!Beginning
  <2> QED
    BY <2>1, <2>2, <2>3
<1>2. CASE Gps!mtk_start
  <2>1. /\ fw = "mtk_start" /\ fw' = "start_wait" /\ toMnld' = Append(toMnld, "START")
        /\ UNCHANGED <<start_flag, hal, wakelock, report, mnl, toHal>>
    BY <1>2 DEF Gps!mtk_start
  <2>2. Gps!Over
    BY <2>1 DEF Gps!SessionSound
  <2>3. hal = "loop"
    BY <2>1, <2>2 DEF Gps!Over, GpsCalm, Gps!LifeSound
  <2>4. Gps!EngineOn'
    BY <2>1, <2>2, EngineAsked, GpsTypeParts DEF Gps!Over, GpsCalm
  <2>5. Gps!Begins'
    BY <2>1, <2>2, <2>3, <2>4 DEF Gps!Over, Gps!Begins, Gps!Silent
  <2> QED
    BY <2>1, <2>5 DEF Gps!SessionSound, Gps!Beginning
<1>3. CASE Gps!gps_state_start
  <2>1. /\ fw = "begin" /\ fw' = "tell_begin"
        /\ report' = [report EXCEPT !["fw"] = <<"ENGINE_ON", "SESSION_BEGIN">>]
        /\ UNCHANGED <<start_flag, hal, filled, mnl, toMnld, toHal>>
    BY <1>3 DEF Gps!gps_state_start
  <2>2. Gps!Begins
    BY <2>1 DEF Gps!SessionSound, Gps!Beginning
  <2>3. /\ report'["fw"] = <<"ENGINE_ON", "SESSION_BEGIN">> /\ report'["hal"] = report["hal"]
        /\ ~filled'["fw"]
    BY <2>1, <2>2 DEF Gps!Begins, Gps!Silent, GpsCalm, Gps!TypeOK
  <2>4. report'["fw"] # <<>>
    BY <2>3
  <2>5. Gps!Tells("fw", "ENGINE_ON", "SESSION_BEGIN")'
    BY <2>3, <2>4 DEF Gps!Tells
  <2>6. Gps!Begins'
    BY <2>1, <2>2, <2>3, <2>5, EngineRests DEF Gps!Begins, Gps!Silent
  <2> QED
    BY <2>1, <2>6 DEF Gps!SessionSound, Gps!Beginning
<1>4. CASE \/ Gps!mtk_gps_start_wait \/ Gps!acquire_wakelock_cb \/ Gps!check_stop
           \/ Gps!reset_stop("reset_stop", "set_flag")
  <2>1. /\ UNCHANGED <<start_flag, hal, sta, told, report, filled, mnl, toMnld, toHal>>
        /\ \/ fw = "start_wait" /\ fw' = "begin" /\ UNCHANGED wakelock
           \/ fw = "tell_begin" /\ report["fw"] = <<>> /\ fw' = "check_stop" /\ wakelock'
           \/ fw = "check_stop" /\ fw' = "reset_stop" /\ UNCHANGED wakelock
           \/ /\ fw \in {"check_stop", "reset_stop"} /\ fw' = "set_flag" /\ UNCHANGED wakelock
              /\ "M_STOP" \notin cond'
    BY <1>4 DEF Gps!mtk_gps_start_wait, Gps!acquire_wakelock_cb, Gps!check_stop, Gps!reset_stop
  <2>2. Gps!Begins
    BY <2>1 DEF Gps!SessionSound, Gps!Beginning
  <2>3. Gps!Begins'
    BY <2>1, <2>2, EngineRests DEF Gps!Begins, Gps!Silent, Gps!Tells
  <2> QED
    BY <2>1, <2>3 DEF Gps!SessionSound, Gps!Beginning
<1>5. CASE Gps!set_start_flag
  <2>1. /\ fw = "set_flag" /\ fw' = "idle" /\ start_flag' /\ navigating'
        /\ UNCHANGED <<hal, told, report, wakelock, mnl, toMnld, toHal, cond>>
    BY <1>5 DEF Gps!set_start_flag
  <2>2. Gps!Begins
    BY <2>1 DEF Gps!SessionSound, Gps!Beginning
  <2>3. Gps!Runs'
    BY <2>1, <2>2, EngineRests DEF Gps!Begins, Gps!Runs, Gps!Silent
  <2> QED
    BY <2>1, <2>3 DEF Gps!SessionSound, Gps!Beginning
<1> QED
  BY <1>1, <1>2, <1>3, <1>4, <1>5, GpsNoTrouble DEF GpsStarts

\* stop and cleanup end it.
LEMMA EndsSession ==
    ASSUME GpsCalm, GpsEnds, Gps!SessionSound
    PROVE  Gps!SessionSound'
<1> USE DEF Gps!Go, Gps!Call, Gps!get_condition, Gps!fwVars, Gps!tellVars, Gps!mnlVars, Gps!epoVars
<1>1. CASE Gps!mtk_gps_stop
  <2>1. CASE fw = "idle"
    <3>1. /\ UNCHANGED <<start_flag, hal, wakelock, sta, told, report, filled>>
          /\ UNCHANGED <<mnl, toMnld, toHal, cond>>
          /\ navigating /\ fw' = "stop"
      BY <1>1, <2>1 DEF Gps!mtk_gps_stop
    <3>2. Gps!Runs'
      BY <2>1, <3>1, SessionRests DEF Gps!SessionSound
    <3> QED
      BY <3>1, <3>2 DEF Gps!SessionSound, Gps!Beginning
  <2>2. CASE fw # "idle"
    <3>1. /\ fw = "stop" /\ fw' = "idle" /\ ~navigating' /\ toMnld' = Append(toMnld, "STOP")
          /\ UNCHANGED <<start_flag, hal, wakelock, told, report, mnl, toHal, cond>>
      BY <1>1, <2>2 DEF Gps!mtk_gps_stop
    <3>2. Gps!Runs
      BY <3>1 DEF Gps!SessionSound
    <3>3. Gps!EngineStops'
      BY <3>1, <3>2, EngineAsked, GpsTypeParts DEF Gps!Runs, GpsCalm
    <3>4. Gps!Stops'
      BY <3>1, <3>2, <3>3 DEF Gps!Runs, Gps!Stops, Gps!Silent
    <3> QED
      BY <3>1, <3>4 DEF Gps!SessionSound, Gps!Beginning
  <2> QED
    BY <2>1, <2>2
<1>2. CASE Gps!mtk_gps_delete_aiding_data
  <2>1. /\ UNCHANGED <<start_flag, hal, wakelock, sta, told, report, filled>>
        /\ UNCHANGED <<mnl, toMnld, toHal, cond>>
        /\ fw = "idle" /\ UNCHANGED <<fw, navigating>>
    BY <1>2 DEF Gps!mtk_gps_delete_aiding_data
  <2> QED
    BY <2>1, SessionRests DEF Gps!SessionSound, Gps!Beginning
<1>3. CASE Gps!mtk_gps_cleanup
  <2>1. /\ fw = "idle" /\ fw' = "cleanup" /\ toMnld' = Append(toMnld, "CLEANUP")
        /\ UNCHANGED <<start_flag, hal, wakelock, sta, told, report, filled, mnl, toHal, cond>>
    BY <1>3 DEF Gps!mtk_gps_cleanup
  <2>2. /\ Gps!EngineOff => Gps!EngineOff'
        /\ Gps!EngineOn \/ Gps!EngineStops => Gps!EngineStops'
    BY <2>1, EngineAsked, GpsTypeParts DEF GpsCalm
  <2>3. Gps!Over => Gps!Over'
    BY <2>1, <2>2 DEF Gps!Over, Gps!Silent
  <2>4. Gps!Runs \/ Gps!Stops => Gps!Stops'
    BY <2>1, <2>2 DEF Gps!Runs, Gps!Stops, Gps!Silent
  <2>5. Gps!Dies => Gps!Dies'
    BY <2>1, <2>2 DEF Gps!Dies, Gps!Silent, Gps!Tells
  <2>6. Gps!Over \/ Gps!Runs \/ Gps!Stops \/ Gps!Dies
    BY <2>1 DEF Gps!SessionSound
  <2> QED
    BY <2>1, <2>3, <2>4, <2>5, <2>6 DEF Gps!SessionSound, Gps!Beginning
<1>4. CASE Gps!cleanup_stop
  <2>1. /\ UNCHANGED <<start_flag, hal, wakelock, sta, told, report, filled, mnl, toMnld, toHal>>
        /\ "M_STOP" \in cond' => "M_STOP" \in cond
        /\ \/ fw = "cleanup" /\ fw' = "cleanup_stop"
           \/ fw = "cleanup" /\ ~start_flag /\ fw' = "cleanup_reset"
           \/ fw = "cleanup_stop" /\ "M_STOP" \in cond /\ fw' = "cleanup_reset"
    BY <1>4 DEF Gps!cleanup_stop
  <2>2. Gps!Over \/ Gps!Stops \/ Gps!Dies
    BY <2>1 DEF Gps!SessionSound
  <2>3. fw' = "cleanup_reset" => Gps!Over \/ (Gps!Dies /\ hal # "die_stop")
    BY <2>1, <2>2 DEF Gps!Stops, Gps!Dies
  <2>4. fw' = "cleanup_reset" => Gps!Over' \/ (Gps!Dies' /\ hal' # "die_stop")
    BY <2>1, <2>3, SessionRests
  <2>5. Gps!Over' \/ Gps!Stops' \/ Gps!Dies'
    BY <2>1, <2>2, SessionRests
  <2> QED
    BY <2>1, <2>4, <2>5 DEF Gps!SessionSound, Gps!Beginning
<1>5. CASE Gps!cleanup_reset \/ (Gps!gps_state_done /\ fw = "done")
  <2>1. /\ UNCHANGED <<start_flag, hal, wakelock, sta, told, report, filled, mnl, toMnld, toHal>>
        /\ "M_STOP" \in cond' => "M_STOP" \in cond
        /\ fw \in {"cleanup_reset", "done"} /\ fw' \in {"done", "done_wait"}
    BY <1>5 DEF Gps!cleanup_reset, Gps!reset_stop, Gps!gps_state_done
  <2>2. Gps!Over' \/ (Gps!Dies' /\ hal' # "die_stop")
    BY <2>1, SessionRests DEF Gps!SessionSound
  <2> QED
    BY <2>1, <2>2 DEF Gps!SessionSound, Gps!Beginning
<1>6. CASE Gps!gps_state_done /\ fw # "done"
  <2>1. /\ UNCHANGED <<start_flag, hal, wakelock, sta, told, report, filled, mnl, toMnld, toHal>>
        /\ "M_STOP" \in cond' => "M_STOP" \in cond
        /\ fw = "done_wait" /\ fw' = "exit_wait" /\ "M_CLEANUP" \in cond
    BY <1>6 DEF Gps!gps_state_done
  <2>2. Gps!Over
    BY <2>1 DEF Gps!SessionSound, GpsCalm, Gps!LifeSound, Gps!Dies, Gps!Dying
  <2>3. Gps!Over'
    BY <2>1, <2>2, SessionRests
  <2> QED
    BY <2>1, <2>3 DEF Gps!SessionSound, Gps!Beginning
<1>7. CASE Gps!cleanup_exit
  <2>1. /\ UNCHANGED <<start_flag, hal, wakelock, sta, told, report, filled, mnl, toMnld, toHal>>
        /\ "M_STOP" \in cond' => "M_STOP" \in cond
        /\ fw = "exit_wait" /\ fw' = "idle" /\ UNCHANGED navigating
    BY <1>7 DEF Gps!cleanup_exit
  <2>2. Gps!Over' /\ ~navigating'
    BY <2>1, SessionRests DEF Gps!SessionSound, GpsCalm, Gps!LifeSound
  <2> QED
    BY <2>1, <2>2 DEF Gps!SessionSound, Gps!Beginning
<1> QED
  BY <1>1, <1>2, <1>3, <1>4, <1>5, <1>6, <1>7, GpsNoTrouble DEF GpsEnds

\* Where the threads are, and the one CMD_QUIT that ends the HAL thread.
GpsLife ==
    /\ fw # "idle" => (init <=> fw \notin {"init_wait", "exit_wait"})
    /\ ~init \/ fw = "xtra" => ~navigating
    /\ hal # "icon" /\ (hal = "starting" => fw = "init_wait")
    /\ fw = "init_wait" => hal \in {"starting", "loop"}
    /\ init /\ fw # "done_wait" => hal \in {"loop"} \cup Gps!Dying
    /\ ~init /\ fw # "init_wait" => hal = "none"
    /\ "M_INIT" \in cond => fw = "init_wait" /\ hal = "loop"
    /\ "M_CLEANUP" \in cond => fw = "done_wait" /\ hal = "none"
    /\ fw = "idle" /\ ~init => epo = "none"
GpsQuit ==
    \A i \in DOMAIN control : control[i] = "CMD_QUIT" =>
      i = Len(control) /\ fw = "done_wait" /\ hal # "none"

\* Together they are LifeSound.
LEMMA LifeParts == Gps!LifeSound <=> GpsLife /\ GpsQuit
BY DEF Gps!LifeSound, GpsLife, GpsQuit

\* Without another user of the engine mnld tells of a death only, and not to
\* a framework thread that waits for the HAL thread to begin.
LEMMA OnlyDeaths ==
    ASSUME GpsCalm, Gps!SessionSound
    PROVE  ~Gps!HalIcon /\ (fw = "init_wait" => ~Gps!HalMnlDie)
<1>1. Gps!Over \/ Gps!Begins \/ Gps!Runs \/ Gps!Stops \/ Gps!Dies
  BY DEF GpsCalm, Gps!TypeOK, Gps!Fw, Gps!SessionSound, Gps!Beginning
<1>2. toHal \in {<<>>, <<"MNL_DIE">>}
  BY <1>1 DEF Gps!Over, Gps!Begins, Gps!Runs, Gps!Stops, Gps!Dies, Gps!EngineOff, Gps!EngineOn,
    Gps!EngineStops
<1>3. ~Gps!HalIcon
  BY <1>2 DEF Gps!HalIcon, GpsCalm, Gps!LifeSound
<1>4. fw = "init_wait" => ~Gps!HalMnlDie
  BY DEF Gps!SessionSound, Gps!Over, Gps!EngineOff, Gps!HalMnlDie
<1> QED
  BY <1>3, <1>4

\* The HAL thread leaves its loop for a CMD_QUIT, the last command it gets.
LEMMA LastCommand ==
    ASSUME GpsCalm, control # <<>>
    PROVE  /\ Len(control) \in Nat \ {0} /\ Len(Tail(control)) = Len(control) - 1
           /\ Head(control) = "CMD_QUIT" => fw = "done_wait" /\ Len(control) = 1
           /\ \A i \in DOMAIN Tail(control) :
                i \in Nat \ {0} /\ i + 1 \in DOMAIN control /\ Tail(control)[i] = control[i + 1]
<1>1. /\ Len(control) \in Nat \ {0} /\ Len(Tail(control)) = Len(control) - 1
      /\ Head(control) = control[1] /\ 1 \in DOMAIN control
  BY DEF GpsCalm, Gps!TypeOK
<1>2. \A i \in DOMAIN Tail(control) :
        i \in Nat \ {0} /\ i + 1 \in DOMAIN control /\ Tail(control)[i] = control[i + 1]
  BY DEF GpsCalm, Gps!TypeOK
<1>3. Head(control) = "CMD_QUIT" => fw = "done_wait" /\ Len(control) = 1
  BY <1>1 DEF GpsCalm, Gps!LifeSound
<1> QED
  BY <1>1, <1>2, <1>3

\* The threads live and leave as they should.
LEMMA LifeKept ==
    ASSUME GpsCalm, Gps!SessionSound, Gps!Next
    PROVE  GpsLife'
<1> USE DEF Gps!Go, Gps!fwVars, Gps!tellVars, Gps!mnlVars, Gps!epoVars, Gps!get_condition,
        Gps!release_condition, Gps!Call, Gps!reset_stop, Gps!HalExit, GpsLife, Gps!Dying
<1>1. GpsLife
  BY LifeParts DEF GpsCalm
<1>2. CASE GpsOpens
  BY <1>1, <1>2, GpsNoTrouble DEF GpsOpens, Gps!mtk_gps_init, Gps!mtk_gps_init_done,
    Gps!mtk_gps_epo_interface_init, Gps!EpoExit
<1>3. CASE GpsStarts
  BY <1>1, <1>3, GpsNoTrouble DEF GpsStarts, Gps!mtk_gps_start, Gps!mtk_start,
    Gps!mtk_gps_start_wait, Gps!gps_state_start, Gps!acquire_wakelock_cb, Gps!check_stop,
    Gps!set_start_flag
<1>4. CASE GpsEnds
  BY <1>1, <1>4, GpsNoTrouble DEF GpsEnds, Gps!mtk_gps_stop, Gps!mtk_gps_delete_aiding_data,
    Gps!mtk_gps_cleanup, Gps!cleanup_stop, Gps!cleanup_reset, Gps!gps_state_done,
    Gps!cleanup_exit
<1>5. CASE GpsHal
  <2>1. CASE Gps!HalControl
    BY <1>1, <2>1, LastCommand DEF Gps!HalControl
  <2>2. CASE Gps!HalReady \/ Gps!HalNmea
    BY <1>1, <2>2 DEF Gps!HalReady, Gps!HalNmea
  <2>3. CASE Gps!HalMnlDie
    <3>1. fw # "init_wait"
      BY <2>3, OnlyDeaths
    <3> QED
      BY <1>1, <2>3, <3>1 DEF Gps!HalMnlDie
  <2>4. CASE Gps!HalDied
    <3>1. /\ hal \in Gps!Dying /\ hal' \in {"loop"} \cup Gps!Dying
          /\ UNCHANGED <<fw, init, navigating, epo>>
      BY <2>4 DEF Gps!HalDied
    <3>2. cond' \subseteq cond \cup {"M_STOP"}
      BY <2>4 DEF Gps!HalDied
    <3> QED
      BY <1>1, <3>1, <3>2
  <2> QED
    BY <1>5, <2>1, <2>2, <2>3, <2>4, OnlyDeaths, GpsNoTrouble DEF GpsHal
<1>6. CASE GpsTells
  BY <1>1, <1>6 DEF GpsTells, Gps!FillIn, Gps!Tell
<1>7. CASE GpsMnld
  BY <1>1, <1>7, GpsNoTrouble DEF GpsMnld, Gps!MnldReceives, Gps!MnldNmea
<1> QED
  BY <1>2, <1>3, <1>4, <1>5, <1>6, <1>7, GpsSteps

\* A command is added while none is CMD_QUIT, and only the last step adds one.
LEMMA CommandAdded ==
    ASSUME GpsCalm, fw # "done_wait", NEW m, control' = Append(control, m),
           m = "CMD_QUIT" => fw' = "done_wait" /\ hal' # "none"
    PROVE  GpsQuit'
<1>1. Len(control) \in Nat /\ Len(control') = Len(control) + 1
  BY DEF GpsCalm, Gps!TypeOK
<1>2. DOMAIN control' = 1 .. Len(control) + 1 /\ control'[Len(control) + 1] = m
  BY DEF GpsCalm, Gps!TypeOK
<1>3. \A i \in 1 .. Len(control) : i \in DOMAIN control /\ control'[i] = control[i]
  BY DEF GpsCalm, Gps!TypeOK
<1>4. \A i \in DOMAIN control : control[i] # "CMD_QUIT"
  BY DEF GpsCalm, Gps!LifeSound
<1> QED
  BY <1>1, <1>2, <1>3, <1>4 DEF GpsQuit

\* The HAL thread is told to leave once, and last.
LEMMA QuitKept ==
    ASSUME GpsCalm, Gps!SessionSound, Gps!Next
    PROVE  GpsQuit'
<1> USE DEF Gps!Go, Gps!fwVars, Gps!tellVars, Gps!mnlVars, Gps!epoVars, Gps!get_condition,
        Gps!release_condition, Gps!Call, Gps!reset_stop, Gps!HalExit
<1>1. GpsLife /\ GpsQuit
  BY LifeParts DEF GpsCalm
<1>2. CASE /\ UNCHANGED control /\ (hal # "none" => hal' # "none")
           /\ fw = "done_wait" => fw' = "done_wait"
  BY <1>1, <1>2 DEF GpsQuit
<1>3. GpsOpens => control' = <<>> \/
          (UNCHANGED control /\ fw # "done_wait") \/ (UNCHANGED <<control, hal, fw>>)
  BY GpsNoTrouble DEF GpsOpens, Gps!mtk_gps_init, Gps!mtk_gps_init_done,
    Gps!mtk_gps_epo_interface_init, Gps!EpoExit
<1>4. CASE UNCHANGED control /\ (fw # "done_wait" \/ hal = "none")
  BY <1>1, <1>4 DEF GpsQuit
<1>5. CASE control' = <<>>
  BY <1>5 DEF GpsQuit
<1>6. CASE GpsStarts
  <2>1. CASE Gps!gps_state_start
    BY <2>1, CommandAdded DEF Gps!gps_state_start
  <2>2. CASE ~Gps!gps_state_start
    BY <1>4, <1>6, <2>2, GpsNoTrouble DEF GpsStarts, Gps!mtk_gps_start, Gps!mtk_start,
      Gps!mtk_gps_start_wait, Gps!acquire_wakelock_cb, Gps!check_stop, Gps!set_start_flag
  <2> QED
    BY <2>1, <2>2
<1>7. CASE GpsEnds
  <2>1. CASE Gps!mtk_gps_stop
    BY <1>4, <2>1, CommandAdded DEF Gps!mtk_gps_stop
  <2>2. CASE Gps!mtk_gps_delete_aiding_data
    BY <2>2, CommandAdded DEF Gps!mtk_gps_delete_aiding_data
  <2>3. CASE Gps!gps_state_done
    <3>1. CASE fw = "done"
      <4>1. control' = Append(control, "CMD_QUIT") /\ fw' = "done_wait" /\ UNCHANGED hal
        BY <2>3, <3>1 DEF Gps!gps_state_done
      <4>2. hal # "none"
        BY <1>1, <3>1 DEF GpsLife, Gps!Dying
      <4> QED
        BY <3>1, <4>1, <4>2, CommandAdded
    <3>2. CASE fw # "done"
      BY <1>1, <1>4, <2>3, <3>2 DEF Gps!gps_state_done, GpsLife
    <3> QED
      BY <3>1, <3>2
  <2>4. CASE Gps!mtk_gps_cleanup \/ Gps!cleanup_stop \/ Gps!cleanup_reset \/ Gps!cleanup_exit
    BY <1>4, <2>4 DEF Gps!mtk_gps_cleanup, Gps!cleanup_stop, Gps!cleanup_reset, Gps!cleanup_exit
  <2> QED
    BY <1>7, <2>1, <2>2, <2>3, <2>4, GpsNoTrouble DEF GpsEnds
<1>8. CASE GpsHal
  <2>1. CASE Gps!HalControl
    <3>1. /\ hal = "loop" /\ control # <<>> /\ control' = Tail(control) /\ UNCHANGED fw
          /\ Head(control) = "CMD_QUIT" \/ UNCHANGED hal
      BY <2>1 DEF Gps!HalControl
    <3>2. CASE Head(control) = "CMD_QUIT"
      <4>1. DOMAIN Tail(control) = {}
        <5> SUFFICES ASSUME NEW i \in DOMAIN Tail(control)
                     PROVE  FALSE
          OBVIOUS
        <5>1. i \in Nat \ {0} /\ i + 1 \in 1 .. Len(control)
          BY <3>1, LastCommand DEF GpsCalm, Gps!TypeOK
        <5>2. Len(control) = 1
          BY <3>1, <3>2, LastCommand
        <5> QED
          BY <5>1, <5>2
      <4> QED
        BY <3>1, <4>1 DEF GpsQuit
    <3>3. CASE Head(control) # "CMD_QUIT"
      <4>1. /\ UNCHANGED <<fw, hal>> /\ Len(control) \in Nat /\ Len(control') = Len(control) - 1
            /\ \A i \in DOMAIN control' :
                 i \in Nat /\ i + 1 \in DOMAIN control /\ control'[i] = control[i + 1]
        BY <3>1, <3>3, LastCommand
      <4> QED
        BY <1>1, <4>1 DEF GpsQuit
    <3> QED
      BY <3>2, <3>3
  <2>2. CASE Gps!HalReady \/ Gps!HalNmea \/ Gps!HalMnlDie \/ Gps!HalDied
    BY <1>2, <2>2 DEF Gps!HalReady, Gps!HalNmea, Gps!HalMnlDie, Gps!HalDied
  <2> QED
    BY <1>8, <2>1, <2>2, OnlyDeaths, GpsNoTrouble DEF GpsHal
<1>9. CASE GpsTells
  BY <1>2, <1>9 DEF GpsTells, Gps!FillIn, Gps!Tell
<1>10. CASE GpsMnld
  BY <1>2, <1>10, GpsNoTrouble DEF GpsMnld, Gps!MnldReceives, Gps!MnldNmea
<1> QED
  BY <1>2, <1>3, <1>4, <1>5, <1>6, <1>7, <1>8, <1>9, <1>10, GpsSteps

\* SessionInv is inductive.
LEMMA SessionStep ==
    ASSUME Gps!SessionInv, Gps!Next
    PROVE  Gps!SessionInv'
<1>1. Gps!TypeOK' /\ Gps!NmeaSound'
  <2>1. GpsPlaces' /\ GpsConds' /\ GpsFlags' /\ GpsQueues' /\ GpsTelling'
    BY GpsTypeParts, GpsPlacesKept, GpsCondsKept, GpsFlagsKept, GpsQueuesKept, GpsTellingKept
       DEF Gps!SessionInv
  <2>2. Gps!TypeOK'
    BY <2>1 DEF Gps!TypeOK, GpsPlaces, GpsConds, GpsFlags, GpsQueues, GpsTelling
  <2> QED
    BY <2>2, GpsTypeParts, GpsNmeaKept DEF Gps!SessionInv
<1>2. Gps!Calm' => Gps!Calm
  <2>1. UNCHANGED troubles \/ Gps!Trouble
    BY DEF Gps!Next, Gps!Calls, Gps!FwStep, Gps!HalStep, Gps!Faults, Gps!mtk_gps_init,
      Gps!mtk_gps_init_fails, Gps!mtk_gps_init_done, Gps!mtk_gps_epo_interface_init,
      Gps!EpoExit, Gps!mtk_gps_start, Gps!mtk_start, Gps!mtk_start_fails,
      Gps!mtk_gps_start_wait, Gps!gps_state_start, Gps!acquire_wakelock_cb, Gps!check_stop,
      Gps!reset_stop, Gps!set_start_flag, Gps!mtk_gps_stop, Gps!mtk_gps_stop_fails,
      Gps!mtk_gps_delete_aiding_data, Gps!mtk_gps_cleanup, Gps!cleanup_stop,
      Gps!cleanup_reset, Gps!gps_state_done, Gps!cleanup_exit, Gps!HalReady, Gps!HalControl,
      Gps!HalNmea, Gps!HalMnlDie, Gps!HalDied, Gps!HalIcon, Gps!HalHangup, Gps!FillIn,
      Gps!Tell, Gps!MnldReceives, Gps!MnldNmea, Gps!MnldIcon, Gps!MnlDies, Gps!Call,
      Gps!HalExit
  <2> QED
    BY <2>1 DEF Gps!SessionInv, Gps!TypeOK, Gps!Calm, Gps!Trouble
<1>3. ASSUME Gps!Calm'
      PROVE  Gps!LifeSound' /\ Gps!SessionSound'
  <2>1. GpsCalm /\ Gps!SessionSound
    BY <1>2, <1>3 DEF Gps!SessionInv, GpsCalm
  <2>2. Gps!LifeSound'
    BY <2>1, LifeKept, QuitKept DEF Gps!LifeSound, GpsLife, GpsQuit
  <2>3. Gps!SessionSound'
    BY <2>1, BesideSession, OpensSession, StartsSession, EndsSession, GpsSteps DEF GpsBeside
  <2> QED
    BY <2>2, <2>3
<1> QED
  BY <1>1, <1>3 DEF Gps!SessionInv

\* At first there is no session and no thread.
LEMMA SessionBegins ==
    ASSUME Gps!Init
    PROVE  Gps!SessionInv
<1>1. GpsPlaces /\ GpsConds /\ GpsFlags
  BY DEF Gps!Init, GpsPlaces, GpsConds, GpsFlags, Gps!Fw
<1>2. GpsQueues
  BY GpsAssumption DEF Gps!Init, GpsQueues
<1>3. GpsTelling
  BY DEF Gps!Init, GpsTelling, Gps!Status
<1>4. Gps!NmeaSound /\ Gps!LifeSound
  BY DEF Gps!Init, Gps!NmeaSound, Gps!LifeSound, Gps!Dying
<1>5. Gps!Over
  BY DEF Gps!Init, Gps!Over, Gps!EngineOff, Gps!StartIs, Gps!Silent, Gps!Dying
<1>6. Gps!SessionSound
  BY <1>5 DEF Gps!Init, Gps!SessionSound, Gps!Beginning
<1> QED
  BY <1>1, <1>2, <1>3, <1>4, <1>6, GpsTypeParts DEF Gps!SessionInv

\* The session rests while the other parts run.
LEMMA SessionRestsWhole ==
    ASSUME Gps!SessionInv, UNCHANGED gpsVars
    PROVE  Gps!SessionInv'
BY DEF gpsVars, Gps!SessionInv, Gps!TypeOK, Gps!Calm, Gps!NmeaSound, Gps!LifeSound,
       Gps!SessionSound, Gps!Over, Gps!Begins, Gps!Runs, Gps!Stops, Gps!Dies, Gps!EngineOff,
       Gps!EngineOn, Gps!EngineStops, Gps!StartIs, Gps!Silent, Gps!Tells

\* What SessionAgrees says is what SessionInv says of a thread at rest.
LEMMA SessionMeans ==
    ASSUME Gps!SessionInv
    PROVE  SessionAgrees
<1>1. Gps!FirstNmeaReleases
  BY DEF Gps!SessionInv, Gps!FirstNmeaReleases, Gps!NmeaSound, Gps!Beginning
<1>2. Gps!SettledAgrees
  <2> SUFFICES ASSUME Gps!Calm, Gps!Quiet
               PROVE  /\ start_flag = navigating /\ wakelock = navigating
                      /\ (mnl = "on") = navigating
                      /\ told = IF navigating THEN "SESSION_BEGIN"
                                ELSE IF told = "NONE" THEN "NONE" ELSE "ENGINE_OFF"
    BY DEF Gps!SettledAgrees
  <2>1. /\ start_flag \in BOOLEAN /\ navigating \in BOOLEAN /\ wakelock \in BOOLEAN
        /\ Gps!SessionSound /\ fw = "idle"
    BY DEF Gps!SessionInv, Gps!TypeOK, Gps!Quiet
  <2>2. ~Gps!Stops /\ ~Gps!Dies
    BY DEF Gps!Quiet, Gps!Stops, Gps!Dies, Gps!EngineStops, Gps!Dying
  <2>3. CASE navigating
    BY <2>1, <2>3 DEF Gps!SessionSound, Gps!Runs, Gps!EngineOn, Gps!Quiet
  <2>4. CASE ~navigating
    BY <2>1, <2>2, <2>4 DEF Gps!SessionSound, Gps!Over, Gps!EngineOff
  <2> QED
    BY <2>1, <2>3, <2>4
<1>3. Gps!CleanupIsComplete
  <2> SUFFICES ASSUME Gps!Calm, ~init, fw = "idle"
               PROVE  /\ told \in {"NONE", "ENGINE_OFF"} /\ ~wakelock /\ ~start_flag
                      /\ hal = "none" /\ epo = "none"
    BY DEF Gps!CleanupIsComplete
  <2>1. hal = "none" /\ epo = "none" /\ ~navigating /\ Gps!SessionSound
    BY DEF Gps!SessionInv, Gps!LifeSound
  <2>2. Gps!Over
    BY <2>1 DEF Gps!SessionSound, Gps!Stops, Gps!Dies, Gps!Dying
  <2> QED
    BY <2>1, <2>2 DEF Gps!Over
<1> QED
  BY <1>1, <1>2, <1>3 DEF SessionAgrees, Gps!SessionInv

\* mtk_gps_start, mtk_gps_stop, mtk_gps_cleanup and the HAL thread: a start that waits is
\* released by the next NMEA sentence whatever fails; with nothing failed, start_flag, the
\* status told, the wake lock and the engine agree once everything has settled, and a cleanup
\* leaves no thread, wake lock or session behind.
THEOREM SessionStaysSound == Spec => []SessionAgrees
<1>1. Init => Gps!SessionInv
  BY SessionBegins DEF Init
<1>2. Gps!SessionInv /\ [Next]_vars => Gps!SessionInv'
  BY SessionStep, SessionRestsWhole DEF Next, vars, InGps, InBt, InWdt
<1>3. Gps!SessionInv => SessionAgrees
  BY SessionMeans
<1> QED
  BY <1>1, <1>2, <1>3, PTL DEF Spec
=============================================================================
