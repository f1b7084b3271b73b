---------------------------- MODULE HalDataProofs ---------------------------
(***************************************************************************)
(* What comes and goes is kept exactly: the orbit data the GPS HAL         *)
(* downloads in pieces, the diode that battery and notifications share,    *)
(* the trackball, and the sentences an epoch is reported from.             *)
(***************************************************************************)
EXTENDS MCHalData, SequenceTheorems, TLAPS

-----------------------------------------------------------------------------
(* The orbit data.                                                         *)

\* What a file may hold.
Content == Seq((Short .. MaxDay) \X Numbers)

\* A file that is there has one content.
LEMMA OneContent ==
    ASSUME NEW f, IsFile(f), f # {}
    PROVE  Data(f) \in Content /\ f = {Data(f)}
<1>1. Data(f) \in f
  BY DEF Data
<1> QED
  BY <1>1 DEF IsFile, Content

LEMMA NewContent ==
    ASSUME NEW d
    PROVE  Data({d}) = d /\ (d \in Content => IsFile({d}))
BY DEF Data, IsFile, Content

\* What is between the threads, as far as they leave the update alone.
Safe == CountInRange /\ HandleSound /\ (~spoiled => UnlinkAlone /\ UpdateSound)

\* The EPO thread rests, or stays where it is; the other threads touch nothing of
\* the update.
LEMMA EpoFrame ==
    ASSUME EpoInv, UNCHANGED <<epohal, piece, count, name, handle, spoiled>>,
           pc' = pc \/ (pc \in Resting /\ pc' \in Resting),
           fw' = fw \/ fw' # "unlink"
    PROVE  Safe'
<1>1. CountInRange'
  BY DEF EpoInv, CountInRange, Resting
<1>2. ~spoiled => UnlinkAlone'
  BY DEF EpoInv, UnlinkAlone, Updating, Resting
<1>3. ~spoiled => UpdateSound'
  BY DEF EpoInv, UpdateSound, Resting, Holds, Kept, InOrder
<1>4. HandleSound'
  BY DEF EpoInv, HandleSound, Resting
<1> QED
  BY <1>1, <1>2, <1>3, <1>4 DEF Safe

\* A thread that interferes between two updates leaves nothing counted, and the
\* file as it was or no file.
LEMMA EpoInterferes ==
    ASSUME EpoInv, Interferes, epohal' \in {epohal, {}}, count' \in {0, count},
           ~spoiled /\ ~Updating => count' = 0, UNCHANGED <<piece, name, pc>>,
           handle' = FALSE \/ UNCHANGED <<handle, epohal>>
    PROVE  Safe'
<1>1. CountInRange'
  BY EpoAssumption DEF EpoInv, CountInRange
<1>2. ASSUME ~spoiled'
      PROVE  ~spoiled /\ ~Updating /\ count' = 0 /\ pc \in Resting /\ pc' = pc
  BY <1>2 DEF Interferes, EpoInv, TypeOK, Updating, Resting
<1>3. ~spoiled' => UnlinkAlone'
  BY <1>2 DEF UnlinkAlone, Updating, Resting
<1>4. ~spoiled' => UpdateSound'
  BY <1>2 DEF EpoInv, UpdateSound, Resting, InOrder
<1>5. HandleSound'
  BY DEF EpoInv, HandleSound
<1> QED
  BY <1>1, <1>3, <1>4, <1>5 DEF Safe

\* Steps that leave the update alone.
LEMMA EpoQuiet ==
    ASSUME EpoInv,
           \/ NoUpdate \/ NoResume \/ AfterResume \/ retry_alarm_handler \/ StartSession
           \/ SessionBegins \/ SessionEnds \/ MnldCopies
           \/ NetworkChanges \/ DayPasses \/ NewEdition
    PROVE  EpoInv'
<1> USE DEF files, flags, alarms, thread, env, messages
<1>1. /\ UNCHANGED <<epohal, piece, count, name, handle, spoiled>>
      /\ pc' = pc \/ (pc \in Resting /\ pc' \in Resting)
      /\ fw' = fw \/ fw' # "unlink"
  <2>1. CASE NoUpdate \/ NoResume \/ AfterResume
    BY <2>1 DEF NoUpdate, NoResume, AfterResume, Step, Resting
  <2>2. CASE StartSession \/ SessionBegins \/ SessionEnds
    BY <2>2 DEF StartSession, SessionBegins, SessionEnds, Fw
  <2>3. CASE retry_alarm_handler \/ MnldCopies
    BY <2>3 DEF retry_alarm_handler, MnldCopies
  <2>4. CASE NetworkChanges \/ DayPasses \/ NewEdition
    BY <2>4 DEF NetworkChanges, DayPasses, NewEdition
  <2> QED
    BY <2>1, <2>2, <2>3, <2>4
<1>2. now' \in 1 .. MaxDay /\ server' \in 1 .. now'
  <2>1. CASE UNCHANGED <<now, server>>
    BY <2>1 DEF EpoInv, TypeOK
  <2>2. CASE DayPasses \/ NewEdition
    BY <2>2, EpoAssumption DEF DayPasses, NewEdition, EpoInv, TypeOK
  <2> QED
    BY <2>1, <2>2 DEF NoUpdate, NoResume, AfterResume, retry_alarm_handler, StartSession,
                      SessionBegins, SessionEnds, MnldCopies, NetworkChanges
<1>3. IsFile(epodat')
  <2>1. CASE epodat' \in {epodat, epohal}
    BY <2>1 DEF EpoInv, TypeOK
  <2> QED
    BY <2>1 DEF NoUpdate, NoResume, AfterResume, retry_alarm_handler, StartSession, SessionBegins,
                SessionEnds, MnldCopies, NetworkChanges, DayPasses, NewEdition
<1>4. retry_time' \in 0 .. Retries - 1 /\ file_retrying' \in Numbers \cup {NoRetry}
  <2>1. CASE UNCHANGED <<retry_time, file_retrying>>
    BY <2>1 DEF EpoInv, TypeOK
  <2>2. CASE AfterResume /\ CountRetry
    <3>1. count \in Numbers
      BY <2>2, EpoAssumption
         DEF EpoInv, TypeOK, CountInRange, AfterResume, Step, Numbers
    <3>2. PICK k : k = IF file_retrying = count THEN retry_time + 1 ELSE 0
      OBVIOUS
    <3>3. k \in Nat
      BY <3>2 DEF EpoInv, TypeOK
    <3>4. \/ k < Retries /\ retry_time' = k /\ file_retrying' = count
          \/ retry_time' = 0 /\ file_retrying' = NoRetry
      BY <2>2, <3>2 DEF CountRetry
    <3> QED
      BY <3>1, <3>3, <3>4, EpoAssumption
  <2> QED
    BY <2>1, <2>2 DEF NoUpdate, NoResume, AfterResume, retry_alarm_handler, StartSession,
                      SessionBegins, SessionEnds, MnldCopies, NetworkChanges, DayPasses, NewEdition
<1>5. TypeOK'
  BY <1>1, <1>2, <1>3, <1>4 DEF EpoInv, TypeOK, Resting
<1>6. Safe'
  BY <1>1, EpoFrame
<1> QED
  BY <1>5, <1>6 DEF EpoInv, Safe

\* Steps of the other threads that may interfere with an update.
LEMMA EpoOthers ==
    ASSUME EpoInv, CheckAge \/ UnlinkExpired \/ gps_download_epo \/ UpdateDone
    PROVE  EpoInv'
<1> USE DEF files, flags, alarms, thread, env, messages
<1>1. /\ UNCHANGED <<now, server, name, piece, retry_time, file_retrying, pc>>
      /\ epohal' \in {epohal, {}} /\ epodat' \in {epodat, {}} /\ count' \in {0, count}
  BY DEF CheckAge, UnlinkExpired, gps_download_epo, UpdateDone, Fw
<1>2. IsFile(epohal') /\ IsFile(epodat') /\ count' \in 0 .. Pieces
  BY <1>1, EpoAssumption DEF EpoInv, TypeOK, IsFile
<1>3. TypeOK'
  BY <1>1, <1>2 DEF EpoInv, TypeOK
<1>4. Safe'
  <2>1. CASE /\ UNCHANGED <<epohal, count, handle, spoiled>>
             /\ fw' = fw \/ fw' # "unlink"
    BY <1>1, <2>1, EpoFrame
  <2>2. CASE /\ Interferes /\ (~spoiled /\ ~Updating => count' = 0)
             /\ handle' = FALSE \/ UNCHANGED <<handle, epohal>>
    BY <1>1, <2>2, EpoInterferes
  <2>3. CASE CheckAge
    BY <2>1, <2>2, <2>3 DEF CheckAge
  <2>4. CASE UnlinkExpired
    BY <2>2, <2>4 DEF UnlinkExpired, Fw, EpoInv, UnlinkAlone
  <2>5. CASE gps_download_epo
    BY <2>2, <2>5 DEF gps_download_epo
  <2>6. CASE UpdateDone
    BY <2>1, <2>2, <2>6 DEF UpdateDone
  <2> QED
    BY <2>3, <2>4, <2>5, <2>6
<1> QED
  BY <1>3, <1>4 DEF EpoInv, Safe

\* The EPO thread between two updates: with a new request, or after a day, the old
\* file goes and nothing is counted.
LEMMA EpoBegins ==
    ASSUME EpoInv, BeginUpdate \/ Resume \/ WifiTrigger
    PROVE  EpoInv'
<1> USE DEF files, flags, alarms, thread, env, messages
<1>1. pc \in Resting /\ count \in Numbers
  <2>1. pc \in Resting
    BY DEF BeginUpdate, Resume, WifiTrigger, Step, Resting
  <2> QED
    BY <2>1, EpoAssumption DEF Resting, EpoInv, TypeOK, CountInRange, Numbers
<1>2. /\ UNCHANGED <<now, server, piece, retry_time, epodat>>
      /\ file_retrying' \in {file_retrying, count}
      /\ name' \in {count, name, 0}
      /\ spoiled => spoiled'
  <2>1. CASE BeginUpdate
    BY <2>1 DEF BeginUpdate, Overlaps
  <2>2. CASE Resume
    BY <2>2 DEF Resume, Overlaps
  <2>3. CASE WifiTrigger
    BY <2>3 DEF WifiTrigger
  <2> QED
    BY <2>1, <2>2, <2>3
<1>3. \/ epohal' = epohal /\ count' = count
      \/ epohal' = {} /\ count' = 0
  BY DEF BeginUpdate, Resume, WifiTrigger
<1>4. \/ pc' = "download" /\ name' = count /\ count' = count /\ (fw = "unlink" => spoiled')
      \/ pc' \in Resting
  BY DEF BeginUpdate, Resume, WifiTrigger, Step, Resting, Overlaps
<1>5. fw' = fw
  BY DEF BeginUpdate, Resume, WifiTrigger
<1>6. TypeOK'
  <2>1. 0 \in Numbers
    BY EpoAssumption DEF Numbers
  <2>2. IsFile(epohal')
    BY <1>3 DEF EpoInv, TypeOK, IsFile
  <2>3. count' \in 0 .. Pieces /\ pc' \in Resting \cup {"download"}
    BY <1>3, <1>4, EpoAssumption DEF EpoInv, TypeOK
  <2> QED
    BY <1>1, <1>2, <2>1, <2>2, <2>3 DEF EpoInv, TypeOK
<1>7. CountInRange'
  BY <1>1, <1>3, EpoAssumption DEF CountInRange, Numbers
<1>8. ~spoiled' => UnlinkAlone'
  BY <1>2, <1>3, <1>4, <1>5 DEF EpoInv, UnlinkAlone, Updating, Resting
<1>9. ~spoiled' => UpdateSound'
  <2>1. CASE epohal' = epohal /\ count' = count
    BY <1>1, <1>2, <1>4, <2>1 DEF EpoInv, UpdateSound, Resting, Holds, Kept, InOrder
  <2>2. CASE epohal' = {} /\ count' = 0
    BY <1>1, <1>2, <1>4, <2>2 DEF EpoInv, UpdateSound, Resting
  <2> QED
    BY <1>3, <2>1, <2>2
<1>10. HandleSound'
  <2>1. handle' = handle
    BY DEF BeginUpdate, Resume, WifiTrigger
  <2> QED
    BY <1>1, <2>1 DEF EpoInv, HandleSound, Resting
<1> QED
  BY <1>6, <1>7, <1>8, <1>9, <1>10 DEF EpoInv

\* The piece's file is fetched, or not.
LEMMA EpoFetch ==
    ASSUME EpoInv, DownloadFails \/ Download
    PROVE  EpoInv'
<1> USE DEF files, flags, alarms, thread, env, messages
<1>1. /\ pc = "download" /\ pc' \in Resting \cup {"unlink"}
      /\ UNCHANGED <<now, server, retry_time, file_retrying, epodat, epohal, count, name, fw>>
  BY DEF DownloadFails, Download, Step, Resting
<1>2. PICK v \in {Gone, Short, server} :
        /\ piece' = [piece EXCEPT ![name] = v]
        /\ pc' = "unlink" => v = server \/ spoiled'
        /\ spoiled => spoiled'
  <2>1. CASE DownloadFails
    BY <2>1 DEF DownloadFails
  <2>2. CASE Download
    BY <2>2 DEF Download
  <2> QED
    BY <2>1, <2>2
<1>3. v \in Short .. MaxDay /\ (v = server => v > 0)
  BY EpoAssumption DEF EpoInv, TypeOK, Gone, Short
<1>4. piece' \in [Numbers -> Short .. MaxDay] /\ piece'[name] = v
      /\ \A k \in Numbers \ {name} : piece'[k] = piece[k]
  BY <1>2, <1>3 DEF EpoInv, TypeOK
<1>5. TypeOK'
  BY <1>1, <1>4 DEF EpoInv, TypeOK
<1>6. CountInRange'
  BY <1>1 DEF EpoInv, CountInRange
<1>7. ~spoiled' => UnlinkAlone'
  BY <1>1, <1>2 DEF EpoInv, UnlinkAlone, Updating
<1>8. ASSUME ~spoiled'
      PROVE  UpdateSound'
  <2>1. /\ name = count /\ (pc' = "unlink" => piece'[name] > 0)
        /\ epohal # {} => InOrder(Data(epohal))
        /\ count > 0 => Holds(count, count) /\ Kept(count)
    BY <1>1, <1>2, <1>3, <1>4, <1>8 DEF EpoInv, UpdateSound
  <2>2. count > 0 => count - 1 \in Numbers \ {name}
    BY <2>1, EpoAssumption DEF EpoInv, TypeOK, Numbers
  <2>3. count > 0 => piece'[count - 1] = piece[count - 1]
    BY <1>4, <2>2
  <2> QED
    BY <1>1, <2>1, <2>3 DEF UpdateSound, Resting, Holds, Kept, InOrder
<1>9. HandleSound'
  <2>1. handle' = handle
    BY DEF DownloadFails, Download
  <2> QED
    BY <1>1, <2>1 DEF EpoInv, HandleSound
<1> QED
  BY <1>5, <1>6, <1>7, <1>8, <1>9 DEF EpoInv

\* The file is made ready for the piece.
LEMMA EpoOpen ==
    ASSUME EpoInv, UnlinkOld \/ OpenHal
    PROVE  EpoInv'
<1> USE DEF files, flags, alarms, thread, env, messages
<1>1. UNCHANGED <<now, server, retry_time, file_retrying, epodat, count, name, piece, fw, spoiled>>
  BY DEF UnlinkOld, OpenHal
<1>2. IsFile({<<>>}) /\ Data({<<>>}) = <<>> /\ IsFile({})
  <2>1. <<>> \in Content
    BY DEF Content
  <2>2. IsFile({})
    BY DEF IsFile
  <2> QED
    BY <2>1, <2>2, NewContent
<1>3. IsFile(epohal')
  BY <1>2 DEF UnlinkOld, OpenHal, EpoInv, TypeOK
<1>4. TypeOK'
  BY <1>1, <1>3 DEF EpoInv, TypeOK, UnlinkOld, OpenHal, Step
<1>5. CountInRange'
  BY <1>1 DEF EpoInv, CountInRange, UnlinkOld, OpenHal, Step
<1>6. ~spoiled' => UnlinkAlone'
  BY <1>1 DEF EpoInv, UnlinkAlone, Updating, UnlinkOld, OpenHal, Step
<1>7. ASSUME ~spoiled'
      PROVE  UpdateSound'
  <2>1. /\ name = count /\ piece[name] > 0 /\ count \in Nat
        /\ epohal # {} => InOrder(Data(epohal))
    BY <1>1, <1>7 DEF EpoInv, TypeOK, UpdateSound, UnlinkOld, OpenHal, Step
  <2>2. count > 0 => Holds(count, count) /\ Kept(count)
    BY <1>1, <1>7 DEF EpoInv, UpdateSound, UnlinkOld, OpenHal, Step
  <2>3. CASE UnlinkOld
    <3>1. pc' = "open" /\ epohal' = IF count = 0 THEN {} ELSE epohal
      BY <2>3 DEF UnlinkOld, Step
    <3> QED
      BY <1>1, <2>1, <2>2, <3>1 DEF UpdateSound, Resting, Holds, Kept, InOrder
  <2>4. CASE OpenHal
    <3>1. /\ pc = "open" /\ pc' = "write" /\ handle' = TRUE
          /\ epohal' = IF epohal = {} THEN {<<>>} ELSE epohal
      BY <2>4 DEF OpenHal, Step
    <3>2. CASE count = 0
      <4>1. epohal' = {<<>>} /\ Data(epohal') = <<>>
        BY <1>1, <1>2, <1>7, <3>1, <3>2 DEF EpoInv, UpdateSound
      <4> QED
        BY <1>1, <2>1, <3>1, <3>2, <4>1 DEF UpdateSound, Resting, Holds, Kept
    <3>3. CASE count > 0
      <4>1. epohal' = epohal
        BY <2>2, <3>1, <3>3 DEF Holds
      <4> QED
        BY <1>1, <2>1, <2>2, <3>1, <3>3, <4>1 DEF UpdateSound, Resting, Holds, Kept
    <3> QED
      BY <2>1, <3>2, <3>3
  <2> QED
    BY <2>3, <2>4
<1>8. HandleSound'
  BY DEF UnlinkOld, OpenHal, Step, EpoInv, HandleSound
<1> QED
  BY <1>4, <1>5, <1>6, <1>7, <1>8 DEF EpoInv

\* The piece is appended.
LEMMA EpoAppend ==
    ASSUME EpoInv, AppendPiece
    PROVE  EpoInv'
<1> USE DEF files, flags, alarms, thread, env, messages
<1>1. /\ pc = "write" /\ pc' = "check"
      /\ UNCHANGED <<now, server, retry_time, file_retrying, epodat, count, name, piece, fw, spoiled>>
      /\ HandleSound'
  BY DEF AppendPiece, Step, HandleSound
<1> DEFINE d == Data(epohal)
           p == <<piece[name], name>>
<1>2. p \in (Short .. MaxDay) \X Numbers
  BY DEF EpoInv, TypeOK
<1>3. CASE epohal' = epohal /\ spoiled
  <2>1. TypeOK'
    BY <1>1, <1>3 DEF EpoInv, TypeOK
  <2>2. CountInRange'
    BY <1>1 DEF EpoInv, CountInRange
  <2> QED
    BY <1>1, <1>3, <2>1, <2>2 DEF EpoInv
<1>4. CASE epohal' = {Append(d, p)} /\ epohal # {}
  <2>1. d \in Content
    BY <1>4, OneContent DEF EpoInv, TypeOK
  <2>2. Append(d, p) \in Content
    BY <1>2, <2>1 DEF Content
  <2>3. IsFile(epohal') /\ Data(epohal') = Append(d, p)
    BY <1>4, <2>2, NewContent
  <2>4. TypeOK'
    BY <1>1, <2>3 DEF EpoInv, TypeOK
  <2>5. CountInRange'
    BY <1>1 DEF EpoInv, CountInRange
  <2>6. ~spoiled' => UnlinkAlone'
    BY <1>1 DEF EpoInv, UnlinkAlone, Updating
  <2>7. ASSUME ~spoiled'
        PROVE  UpdateSound'
    <3>1. name = count /\ piece[name] > 0 /\ Holds(count, count) /\ Kept(count) /\ count \in Nat
      BY <1>1, <2>7 DEF EpoInv, TypeOK, UpdateSound
    <3>2. /\ Len(d) = count
          /\ \A i \in 1 .. count : d[i][2] = i - 1
          /\ \A i \in 1 .. count - 1 : Begin(d[i + 1]) - End(d[i]) < 1
      <4>1. d \in Seq((Short .. MaxDay) \X Numbers) /\ Len(d) = count
        BY <2>1, <3>1 DEF Holds, Content
      <4>2. DOMAIN d = 1 .. count
        BY <4>1
      <4> QED
        BY <3>1, <4>1, <4>2 DEF Holds
    <3>3. PICK e : e = Append(d, p)
      OBVIOUS
    <3>4. /\ Len(e) = count + 1 /\ DOMAIN e = 1 .. count + 1
          /\ \A i \in 1 .. count : e[i] = d[i]
          /\ e[count + 1] = <<piece[name], name>>
      BY <1>2, <2>1, <3>1, <3>2, <3>3 DEF Content
    <3>5. \A i \in DOMAIN e : e[i][2] = i - 1
      BY <3>1, <3>2, <3>4
    <3>6. \A i \in 1 .. count - 1 : Begin(e[i + 1]) - End(e[i]) < 1
      <4> TAKE i \in 1 .. count - 1
      <4>1. e[i] = d[i] /\ e[i + 1] = d[i + 1]
        BY <3>1, <3>4
      <4> QED
        BY <3>2, <4>1
    <3>7. epohal' # {} /\ Data(epohal') = e
      BY <1>4, <2>3, <3>3
    <3>8. Holds(count + 1, count)'
      BY <1>1, <3>4, <3>5, <3>6, <3>7 DEF Holds, Begin, End
    <3>9. Kept(count)' /\ Kept(count + 1)'
      BY <1>1, <3>1, <3>2, <3>4, <3>7 DEF Kept
    <3> QED
      BY <1>1, <3>1, <3>8, <3>9 DEF UpdateSound, Resting
  <2> QED
    BY <1>1, <2>4, <2>5, <2>6, <2>7 DEF EpoInv
<1>5. \/ epohal' = epohal /\ (spoiled \/ ~handle \/ ~(Len(d) < 2 * Pieces))
      \/ epohal' = {Append(d, p)} /\ epohal # {}
  BY DEF AppendPiece, EpoInv, HandleSound
<1>6. spoiled \/ (handle /\ Len(d) = count)
  BY <1>1 DEF EpoInv, UpdateSound, Holds
<1>7. count < 2 * Pieces
  BY <1>1, EpoAssumption DEF EpoInv, TypeOK, CountInRange
<1> QED
  BY <1>3, <1>4, <1>5, <1>6, <1>7

\* The server has changed its data: everything goes.
LEMMA EpoChanged ==
    ASSUME EpoInv, DataChanged
    PROVE  EpoInv'
<1> USE DEF files, flags, alarms, thread, env, messages
<1>1. /\ pc = "check" /\ pc' \in Resting /\ epohal' = {} /\ count' = 0
      /\ piece' = [k \in Numbers |-> IF k <= count THEN Gone ELSE piece[k]]
      /\ UNCHANGED <<now, server, retry_time, file_retrying, epodat, name, handle, fw, spoiled>>
  BY DEF DataChanged, Resting
<1>2. piece' \in [Numbers -> Short .. MaxDay] /\ IsFile(epohal') /\ count' \in 0 .. Pieces
  BY <1>1, EpoAssumption DEF EpoInv, TypeOK, IsFile, Gone, Short
<1>3. TypeOK'
  BY <1>1, <1>2 DEF EpoInv, TypeOK
<1>4. CountInRange' /\ HandleSound'
  BY <1>1, EpoAssumption DEF EpoInv, CountInRange, HandleSound
<1>5. UnlinkAlone' /\ UpdateSound'
  BY <1>1 DEF UnlinkAlone, Updating, UpdateSound, Resting
<1> QED
  BY <1>3, <1>4, <1>5 DEF EpoInv

\* Without interference no piece is found unreadable here.
LEMMA EpoUnreadable ==
    ASSUME EpoInv, PieceUnreadable
    PROVE  EpoInv'
<1> USE DEF files, flags, alarms, thread, env, messages
<1>1. /\ pc = "check" /\ pc' \in Resting /\ Unreadable
      /\ UNCHANGED <<now, server, retry_time, file_retrying, epohal, epodat, count, name, piece,
                     handle, fw, spoiled>>
  BY DEF PieceUnreadable, Resting
<1>2. spoiled
  BY <1>1 DEF EpoInv, TypeOK, UpdateSound, Unreadable, Kept, Short
<1>3. TypeOK'
  BY <1>1 DEF EpoInv, TypeOK
<1>4. CountInRange' /\ HandleSound'
  BY <1>1 DEF EpoInv, CountInRange, HandleSound
<1> QED
  BY <1>1, <1>2, <1>3, <1>4 DEF EpoInv

\* The piece follows the one before: the file is in order, one piece further.
LEMMA EpoGood ==
    ASSUME EpoInv, PieceGood
    PROVE  EpoInv'
<1> USE DEF files, flags, alarms, thread, env, messages
<1>1. /\ pc = "check" /\ pc' = "store" /\ Follows /\ name' = count
      /\ UNCHANGED <<now, server, retry_time, file_retrying, epohal, epodat, count, piece,
                     handle, fw, spoiled>>
  BY DEF PieceGood, Step
<1>2. count \in Numbers
  BY <1>1, EpoAssumption DEF EpoInv, TypeOK, CountInRange, Numbers
<1>3. TypeOK'
  BY <1>1, <1>2 DEF EpoInv, TypeOK
<1>4. CountInRange' /\ HandleSound'
  BY <1>1 DEF EpoInv, CountInRange, HandleSound
<1>5. ~spoiled' => UnlinkAlone'
  BY <1>1 DEF EpoInv, UnlinkAlone, Updating
<1>6. ASSUME ~spoiled'
      PROVE  UpdateSound'
  <2> DEFINE d == Data(epohal)
  <2>1. /\ name = count /\ piece[name] > 0
        /\ Holds(count + 1, count) /\ Kept(count) /\ Kept(count + 1) /\ count \in Nat
    BY <1>1, <1>6 DEF EpoInv, TypeOK, UpdateSound
  <2>2. count > 0 => Begin(d[count + 1]) - End(d[count]) < 1
    <3> SUFFICES ASSUME count > 0
                 PROVE  Begin(d[count + 1]) - End(d[count]) < 1
      OBVIOUS
    <3>1. piece[count - 1] > 0 /\ d[count] = <<piece[count - 1], count - 1>>
      BY <2>1 DEF Kept
    <3>2. d[count + 1] = <<piece[name], name>>
      BY <2>1 DEF Kept
    <3>3. Begin(<<piece[name], name>>) - End(<<piece[count - 1], count - 1>>) < 1
      BY <1>1, <2>1, <3>1 DEF Follows, PieceEnd
    <3> QED
      BY <3>1, <3>2, <3>3
  <2>3. \A i \in 1 .. count : Begin(d[i + 1]) - End(d[i]) < 1
    <3>1. \A i \in 1 .. count - 1 : Begin(d[i + 1]) - End(d[i]) < 1
      BY <2>1 DEF Holds
    <3> QED
      BY <2>1, <2>2, <3>1
  <2>4. Holds(count + 1, count + 1)
    BY <2>1, <2>3 DEF Holds
  <2> QED
    BY <1>1, <2>1, <2>4 DEF UpdateSound, Resting, Holds, Kept, Begin, End
<1> QED
  BY <1>3, <1>4, <1>5, <1>6 DEF EpoInv

\* The count follows the file; with the last piece the download is complete.
LEMMA EpoStore ==
    ASSUME EpoInv, StoreCount
    PROVE  EpoInv'
<1> USE DEF files, flags, alarms, thread, env, messages
<1>1. /\ pc = "store" /\ count' = name + 1
      /\ (pc' = "finish" /\ count' >= Pieces) \/ (pc' \in Resting /\ count' < Pieces)
      /\ UNCHANGED <<now, server, retry_time, file_retrying, epohal, epodat, name, piece,
                     handle, fw, spoiled>>
  BY EpoAssumption DEF StoreCount, Return, Resting, EpoInv, TypeOK, Numbers
<1>2. name \in 0 .. Pieces - 1 /\ count' \in 0 .. Pieces
  BY <1>1, EpoAssumption DEF EpoInv, TypeOK, Numbers
<1>3. TypeOK'
  BY <1>1, <1>2 DEF EpoInv, TypeOK
<1>4. CountInRange' /\ HandleSound'
  BY <1>1, <1>2, EpoAssumption DEF EpoInv, CountInRange, HandleSound
<1>5. ~spoiled' => UnlinkAlone'
  BY <1>1 DEF EpoInv, UnlinkAlone, Updating
<1>6. ASSUME ~spoiled'
      PROVE  UpdateSound'
  <2>1. name = count /\ Holds(count', count') /\ Kept(count')
    BY <1>1, <1>6 DEF EpoInv, UpdateSound
  <2>2. Data(epohal) \in Content
    BY <2>1, OneContent DEF EpoInv, TypeOK, Holds
  <2>3. InOrder(Data(epohal))
    BY <2>1, <2>2 DEF InOrder, Holds, Content
  <2>4. pc' = "finish" => count' = Pieces
    BY <1>1, <1>2, EpoAssumption DEF Resting
  <2> QED
    BY <1>1, <2>1, <2>3, <2>4 DEF UpdateSound, Resting, Holds, Kept, InOrder, Begin, End
<1> QED
  BY <1>3, <1>4, <1>5, <1>6 DEF EpoInv

\* The complete file is left in order.
LEMMA EpoFinish ==
    ASSUME EpoInv, Finish
    PROVE  EpoInv'
<1> USE DEF files, flags, alarms, thread, env, messages
<1>1. /\ pc = "finish" /\ pc' \in Resting /\ count' = 0
      /\ piece' = [k \in Numbers |-> Gone] /\ epodat' \in {epodat, {}}
      /\ UNCHANGED <<now, server, retry_time, file_retrying, epohal, name, handle, fw, spoiled>>
  BY DEF Finish, Return, Resting
<1>2. piece' \in [Numbers -> Short .. MaxDay] /\ IsFile(epodat') /\ count' \in 0 .. Pieces
  BY <1>1, EpoAssumption DEF EpoInv, TypeOK, IsFile, Gone, Short
<1>3. TypeOK'
  BY <1>1, <1>2 DEF EpoInv, TypeOK
<1>4. CountInRange' /\ HandleSound'
  BY <1>1, EpoAssumption DEF EpoInv, CountInRange, HandleSound
<1>5. UnlinkAlone'
  BY <1>1 DEF UnlinkAlone, Updating, Resting
<1>6. ASSUME ~spoiled'
      PROVE  UpdateSound'
  <2>1. Holds(Pieces, Pieces)
    BY <1>1, <1>6 DEF EpoInv, UpdateSound
  <2>2. Data(epohal) \in Content
    BY <2>1, OneContent DEF EpoInv, TypeOK, Holds
  <2>3. InOrder(Data(epohal))
    BY <2>1, <2>2, EpoAssumption DEF InOrder, Holds, Content
  <2> QED
    BY <1>1, <2>3 DEF UpdateSound, Resting, InOrder, Begin, End
<1> QED
  BY <1>3, <1>4, <1>5, <1>6 DEF EpoInv

\* Every behaviour keeps the invariant.
LEMMA EpoInvariance == AllSpec => []EpoInv
<1>1. AllInit => EpoInv
  <2> SUFFICES ASSUME Init
               PROVE  EpoInv
    BY DEF AllInit
  <2>1. IsFile(epohal) /\ IsFile(epodat) /\ piece \in [Numbers -> Short .. MaxDay]
    BY EpoAssumption DEF Init, IsFile, Gone, Short
  <2>2. TypeOK
    BY <2>1, EpoAssumption DEF Init, TypeOK, Numbers, Resting, NoRetry
  <2>3. CountInRange /\ HandleSound /\ UnlinkAlone /\ UpdateSound
    BY EpoAssumption DEF Init, CountInRange, HandleSound, UnlinkAlone, UpdateSound, Resting
  <2> QED
    BY <2>2, <2>3 DEF EpoInv
<1>2. EpoInv /\ [AllNext]_allVars => EpoInv'
  <2> SUFFICES ASSUME EpoInv, [AllNext]_allVars
               PROVE  EpoInv'
    OBVIOUS
  <2>1. CASE Next
    BY <2>1, EpoQuiet, EpoOthers, EpoBegins, EpoFetch, EpoOpen, EpoAppend, EpoChanged,
       EpoUnreadable, EpoGood, EpoStore, EpoFinish
       DEF Next, EpoStep
  <2>2. CASE UNCHANGED vars
    <3>1. UNCHANGED <<now, server, epohal, epodat, piece, count, name, handle, pc, retry_time,
                      file_retrying, fw, spoiled>>
      BY <2>2 DEF vars, files, flags, alarms, thread, env
    <3>2. TypeOK'
      BY <3>1 DEF EpoInv, TypeOK
    <3>3. Safe'
      BY <3>1, EpoFrame
    <3> QED
      BY <3>2, <3>3 DEF EpoInv, Safe
  <2> QED
    BY <2>1, <2>2 DEF AllNext, InEpo, InNmea, InLight, allVars
<1> QED
  BY <1>1, <1>2, PTL DEF AllSpec

\* Between two updates EPOHAL holds the pieces from the first on, in order and
\* without a day missing, and as many as gps_epo_file_count says, whatever downloads
\* failed, were resumed or given up and whatever the server changed, for any number
\* of pieces, retries and days; unless another thread interfered with an update.
THEOREM DownloadStaysExact == AllSpec => []DownloadIsExact
<1>1. EpoInv => DownloadIsExact
  <2> SUFFICES ASSUME EpoInv
               PROVE  DownloadIsExact
    OBVIOUS
  <2>1. PiecesInOrder
    BY DEF EpoInv, TypeOK, PiecesInOrder, UpdateSound, Updating, Resting
  <2>2. CountMatchesFile
    BY DEF EpoInv, CountMatchesFile, UpdateSound, Holds, Resting
  <2> QED
    BY <2>1, <2>2 DEF EpoInv, DownloadIsExact
<1> QED
  BY <1>1, EpoInvariance, PTL

-----------------------------------------------------------------------------
(* The lights.                                                             *)

\* What the diode is asked to do is something it can do; a state that is not
\* lit asks for darkness.
LEMMA Asked ==
    ASSUME NEW s \in Light!LightStates, NEW c
    PROVE  /\ Light!nowStatus(s, c) \in Light!Statuses
           /\ Light!Shine(s, c) \in Light!LedStates
           /\ Light!Shine(s, c).status = Light!nowStatus(s, c)
           /\ ~s.lit => Light!nowStatus(s, c) = "off"
<1>1. Light!nowStatus(s, c) \in Light!Statuses /\ (~s.lit => Light!nowStatus(s, c) = "off")
  BY DEF Light!nowStatus, Light!Statuses
<1>2. Light!nowStatus(s, c) = "blink" => s.rate \in 1..MaxRate
  <2>1. CASE s = Light!Unlit
    BY <2>1 DEF Light!Unlit, Light!nowStatus
  <2>2. CASE s.rate \in 0..MaxRate
    BY <2>2, LightAssumption DEF Light!nowStatus
  <2> QED
    BY <2>1, <2>2 DEF Light!LightStates
<1>3. Light!Shine(s, c).status = Light!nowStatus(s, c)
  BY DEF Light!Shine
<1>4. Light!Shine(s, c) \in Light!LedStates
  BY <1>1, <1>2 DEF Light!Shine, Light!LedStates, Light!Statuses
<1> QED
  BY <1>1, <1>3, <1>4

\* A colour is in one of its states; dark and steady light have no rate.
LEMMA DarkHasNoRate ==
    ASSUME NEW l \in Light!LedStates, NEW s \in Light!LightStates, NEW c,
           l.status = "off", Light!nowStatus(s, c) = "off"
    PROVE  l = Light!Shine(s, c)
BY DEF Light!LedStates, Light!Shine

\* To ask for the same once more changes nothing: with a trackball
\* set_light_battery does so.
LEMMA BlinkTwice ==
    ASSUME NEW x, NEW s, NEW c
    PROVE  Light!blink(Light!blink(x, s, c), s, c) = Light!blink(x, s, c)
<1>1. CASE x.pre = Light!nowStatus(s, c)
  BY <1>1 DEF Light!blink
<1>2. CASE x.pre # Light!nowStatus(s, c)
  <2>1. Light!blink(x, s, c).pre = Light!nowStatus(s, c)
    BY <1>2 DEF Light!blink
  <2> QED
    BY <2>1 DEF Light!blink
<1> QED
  BY <1>1, <1>2

\* One colour when handle_speaker_battery_locked is through with it.
Handled(x, b, m, c) ==
    IF b.lit THEN Light!blink(x, b, c) ELSE Light!blink(Light!blink(x, b, c), m, c)

\* The state that has the diode.
First(b, m) == IF b.lit THEN b ELSE m

\* The library remembers what it should show.  A colour that was written shows it,
\* one that was not did so before, and is dark if the notifications have the diode.
RightlyHandled(h, b, m, c, p, l) ==
    /\ h.pre = Light!nowStatus(First(b, m), c)
    /\ h.led \in Light!LedStates
    /\ \/ h.written = TRUE /\ h.led = Light!Shine(First(b, m), c)
       \/ h.written = FALSE /\ h.led = l /\ h.pre = p /\ (~b.lit => p = "off")

\* handle_speaker_battery_locked does so.
LEMMA HandledRight ==
    ASSUME NEW b \in Light!LightStates, NEW m \in Light!LightStates, NEW c,
           NEW p \in Light!Statuses, NEW l \in Light!LedStates,
           NEW x, x = [pre |-> p, led |-> l, written |-> FALSE],
           NEW h, h = Handled(x, b, m, c)
    PROVE  RightlyHandled(h, b, m, c, p, l)
<1> USE DEF RightlyHandled
<1>1. PICK y : y = Light!blink(x, b, c)
  OBVIOUS
<1>2. y.pre = Light!nowStatus(b, c)
  BY <1>1 DEF Light!blink
<1>3. CASE b.lit
  <2>1. h = y /\ First(b, m) = b
    BY <1>1, <1>3 DEF Handled, First
  <2>2. CASE p = Light!nowStatus(b, c)
    <3>1. h = [pre |-> p, led |-> l, written |-> FALSE]
      BY <1>1, <2>1, <2>2 DEF Light!blink
    <3> QED
      BY <1>3, <2>1, <2>2, <3>1
  <2>3. CASE p # Light!nowStatus(b, c)
    <3>1. h = [pre |-> Light!nowStatus(b, c), led |-> Light!Shine(b, c), written |-> TRUE]
      BY <1>1, <2>1, <2>3 DEF Light!blink
    <3> QED
      BY <2>1, <3>1, Asked
  <2> QED
    BY <2>2, <2>3
<1>4. CASE ~b.lit
  <2>1. h = Light!blink(y, m, c) /\ First(b, m) = m
    BY <1>1, <1>4 DEF Handled, First
  <2>2. y.pre = "off" /\ Light!nowStatus(b, c) = "off"
    BY <1>2, <1>4, Asked
  <2>3. CASE Light!nowStatus(m, c) = "off"
    <3>1. h = y
      BY <2>1, <2>2, <2>3 DEF Light!blink
    <3>2. CASE p = "off"
      <4>1. h = [pre |-> p, led |-> l, written |-> FALSE]
        BY <1>1, <2>2, <3>1, <3>2 DEF Light!blink
      <4> QED
        BY <2>1, <2>3, <3>2, <4>1
    <3>3. CASE p # "off"
      <4>1. h = [pre |-> "off", led |-> Light!Shine(b, c), written |-> TRUE]
        BY <1>1, <2>2, <3>1, <3>3 DEF Light!blink
      <4>2. Light!Shine(b, c) = Light!Shine(m, c)
        BY <2>2, <2>3 DEF Light!Shine
      <4> QED
        BY <2>1, <2>3, <4>1, <4>2, Asked
    <3> QED
      BY <3>2, <3>3
  <2>4. CASE Light!nowStatus(m, c) # "off"
    <3>1. h = [pre |-> Light!nowStatus(m, c), led |-> Light!Shine(m, c), written |-> TRUE]
      BY <2>1, <2>2, <2>4 DEF Light!blink
    <3> QED
      BY <2>1, <3>1, Asked
  <2> QED
    BY <2>3, <2>4
<1> QED
  BY <1>3, <1>4

\* After the writes the library remembers what it should show, and every colour that
\* is not in doubt shows it; a notification at its own rate.
LEMMA WriteRight ==
    ASSUME Light!LightInv, NEW b \in Light!LightStates, NEW m \in Light!LightStates,
           NEW xs, xs = [c \in Colors |-> Handled(Light!Now[c], b, m, c)], Light!Write(xs)
    PROVE  /\ preStatus' = [c \in Colors |-> Light!nowStatus(First(b, m), c)]
           /\ led' \in [Colors -> Light!LedStates]
           /\ doubt' \subseteq Colors /\ failures' \in 0..MaxFailures
           /\ \A c \in Colors \ doubt' :
                /\ led'[c].status = Light!nowStatus(First(b, m), c)
                /\ ~b.lit => led'[c] = Light!Shine(m, c)
<1>1. /\ led \in [Colors -> Light!LedStates] /\ preStatus \in [Colors -> Light!Statuses]
      /\ doubt \subseteq Colors /\ failures \in 0..MaxFailures
      /\ \A c \in Colors : preStatus[c] = Light!nowStatus(Light!Shown, c)
      /\ \A c \in Colors \ doubt : led[c].status = Light!nowStatus(Light!Shown, c)
  BY DEF Light!LightInv, Light!TypeOK, Light!Remembered, Light!RightLightShines
<1>2. \A c \in Colors :
        /\ xs[c].pre = Light!nowStatus(First(b, m), c)
        /\ xs[c].led \in Light!LedStates
        /\ \/ xs[c].written = TRUE /\ xs[c].led = Light!Shine(First(b, m), c)
           \/ /\ xs[c].written = FALSE /\ xs[c].led = led[c] /\ xs[c].pre = preStatus[c]
              /\ ~b.lit => preStatus[c] = "off"
  <2> TAKE c \in Colors
  <2>1. PICK p \in Light!Statuses, l \in Light!LedStates : p = preStatus[c] /\ l = led[c]
    BY <1>1
  <2>2. PICK x : x = [pre |-> p, led |-> l, written |-> FALSE]
    OBVIOUS
  <2>3. Light!Now[c] = x
    BY <2>1, <2>2 DEF Light!Now
  <2>4. PICK h : h = Handled(x, b, m, c)
    OBVIOUS
  <2>5. xs[c] = h
    BY <2>3, <2>4
  <2>6. RightlyHandled(h, b, m, c, p, l)
    BY <2>2, <2>4, HandledRight
  <2> QED
    BY <2>1, <2>5, <2>6 DEF RightlyHandled
<1> DEFINE W == {c \in Colors : xs[c].written}
<1>3. PICK bad \in SUBSET W :
        /\ bad # {} => failures < MaxFailures
        /\ failures' = IF bad = {} THEN failures ELSE failures + 1
        /\ preStatus' = [c \in Colors |-> xs[c].pre]
        /\ \E wrong \in [bad -> Light!LedStates] :
              led' = [c \in Colors |-> IF c \in bad THEN wrong[c] ELSE xs[c].led]
        /\ doubt' = (doubt \ W) \cup bad
  BY DEF Light!Write
<1>4. led' \in [Colors -> Light!LedStates] /\ \A c \in Colors \ bad : led'[c] = xs[c].led
  BY <1>2, <1>3
<1>5. doubt' \subseteq Colors
  BY <1>1, <1>3
<1>6. failures' \in 0..MaxFailures
  BY <1>1, <1>3, LightAssumption
<1>7. preStatus' = [c \in Colors |-> Light!nowStatus(First(b, m), c)]
  BY <1>2, <1>3
<1>8. ASSUME NEW c \in Colors \ doubt'
      PROVE  /\ led'[c].status = Light!nowStatus(First(b, m), c)
             /\ ~b.lit => led'[c] = Light!Shine(m, c)
  <2>1. c \notin bad /\ (c \in W \/ c \notin doubt) /\ led'[c] = xs[c].led
    BY <1>3, <1>4
  <2>2. First(b, m) \in Light!LightStates /\ (~b.lit => First(b, m) = m)
    BY DEF First
  <2>3. CASE xs[c].written = TRUE
    <3>1. led'[c] = Light!Shine(First(b, m), c)
      BY <1>2, <2>1, <2>3
    <3> QED
      BY <2>2, <3>1, Asked
  <2>4. CASE xs[c].written = FALSE
    <3>1. led'[c] = led[c] /\ xs[c].pre = preStatus[c] /\ (~b.lit => preStatus[c] = "off")
      BY <1>2, <2>1, <2>4
    <3>2. c \notin doubt /\ led[c].status = preStatus[c] /\ led[c] \in Light!LedStates
      BY <1>1, <2>1, <2>4
    <3>3. preStatus[c] = Light!nowStatus(First(b, m), c)
      BY <1>2, <3>1
    <3> QED
      BY <2>2, <3>1, <3>2, <3>3, DarkHasNoRate
  <2> QED
    BY <1>2, <2>3, <2>4
<1> QED
  BY <1>4, <1>5, <1>6, <1>7, <1>8

\* With the pass set_light_battery makes for a trackball and without it, the colours
\* are handled alike.
LEMMA HandledAlike ==
    ASSUME NEW b, NEW m, NEW f,
           f \in {Light!Now, Light!set_speaker_light_locked(Light!Now, b)}
    PROVE  Light!handle_speaker_battery_locked(f, b, m)
             = [c \in Colors |-> Handled(Light!Now[c], b, m, c)]
<1> USE DEF Light!handle_speaker_battery_locked, Light!set_speaker_light_locked
<1>1. Light!set_speaker_light_locked(f, b) = [c \in Colors |-> Light!blink(Light!Now[c], b, c)]
  <2>1. CASE f = Light!Now
    BY <2>1
  <2>2. CASE f = [c \in Colors |-> Light!blink(Light!Now[c], b, c)]
    BY <2>2, BlinkTwice
  <2> QED
    BY <2>1, <2>2
<1>2. CASE b.lit
  BY <1>1, <1>2 DEF Handled
<1>3. CASE ~b.lit
  BY <1>1, <1>3 DEF Handled
<1> QED
  BY <1>2, <1>3

\* The speaker's light of a step: battery or notifications change.
LEMMA SpeakerStep ==
    ASSUME Light!LightInv, NEW f,
           f \in {Light!Now, Light!set_speaker_light_locked(Light!Now, g_battery')},
           g_battery' \in Light!LightStates, g_notification' \in Light!LightStates,
           Light!Write(Light!handle_speaker_battery_locked(f, g_battery', g_notification'))
    PROVE  /\ preStatus' \in [Colors -> Light!Statuses] /\ led' \in [Colors -> Light!LedStates]
           /\ doubt' \subseteq Colors /\ failures' \in 0..MaxFailures
           /\ Light!Remembered' /\ Light!RightLightShines' /\ Light!NotificationRate'
<1>1. PICK b \in Light!LightStates, m \in Light!LightStates :
        b = g_battery' /\ m = g_notification'
  OBVIOUS
<1>2. Light!Write([c \in Colors |-> Handled(Light!Now[c], b, m, c)])
  BY <1>1, HandledAlike
<1>3. /\ preStatus' = [c \in Colors |-> Light!nowStatus(First(b, m), c)]
      /\ led' \in [Colors -> Light!LedStates]
      /\ doubt' \subseteq Colors /\ failures' \in 0..MaxFailures
      /\ \A c \in Colors \ doubt' :
           /\ led'[c].status = Light!nowStatus(First(b, m), c)
           /\ ~b.lit => led'[c] = Light!Shine(m, c)
  BY <1>2, WriteRight
<1>4. Light!Shown' = First(b, m) /\ First(b, m) \in Light!LightStates
  BY <1>1 DEF Light!Shown, First
<1>5. preStatus' \in [Colors -> Light!Statuses]
  BY <1>3, <1>4, Asked
<1>6. Light!Remembered' /\ Light!RightLightShines'
  BY <1>3, <1>4 DEF Light!Remembered, Light!RightLightShines, Light!nowStatus
<1>7. Light!NotificationRate'
  BY <1>1, <1>3 DEF Light!NotificationRate, Light!Shine, Light!nowStatus
<1> QED
  BY <1>3, <1>5, <1>6, <1>7

-----------------------------------------------------------------------------

\* The backlight and the trackball.
LEMMA Backlight ==
    ASSUME Light!LightInv, NEW b \in {0, 1}, Light!set_light_backlight(b)
    PROVE  Light!LightInv'
<1> USE DEF Light!LightInv
<1>1. /\ g_backlight' = b /\ lcd' \in {lcd, b} /\ failures' \in 0..MaxFailures
      /\ Light!Trackball(b, g_attention)
      /\ UNCHANGED <<nodes, g_battery, g_notification, g_attention, preStatus, led, doubt>>
  BY LightAssumption DEF Light!set_light_backlight, Light!TypeOK
<1>2. /\ ball' \in Light!Modes /\ Light!NoBall'
      /\ Light!BreathesInTheDark'
  BY <1>1 DEF Light!Trackball, Light!handle_trackball_light_locked, Light!TypeOK, Light!Modes,
              Light!Breathing, Light!NoBall, Light!BreathesInTheDark
<1>3. Light!TypeOK'
  BY <1>1, <1>2 DEF Light!TypeOK
<1>4. Light!Remembered' /\ Light!RightLightShines' /\ Light!NotificationRate'
  BY <1>1 DEF Light!Remembered, Light!RightLightShines, Light!NotificationRate, Light!Shown,
              Light!Shine, Light!nowStatus
<1> QED
  BY <1>2, <1>3, <1>4

LEMMA Attention ==
    ASSUME Light!LightInv, NEW mode \in Light!Modes, Light!set_light_attention(mode)
    PROVE  Light!LightInv'
<1> USE DEF Light!LightInv
<1>1. /\ g_attention' \in Light!Modes
      /\ Light!Trackball(g_backlight, g_attention')
      /\ UNCHANGED <<nodes, g_battery, g_notification, g_backlight, preStatus, led, doubt, lcd,
                     failures>>
  BY DEF Light!set_light_attention, Light!TypeOK
<1>2. /\ ball' \in Light!Modes /\ Light!NoBall'
      /\ Light!BreathesInTheDark'
  BY <1>1 DEF Light!Trackball, Light!handle_trackball_light_locked, Light!TypeOK, Light!Modes,
              Light!Breathing, Light!NoBall, Light!BreathesInTheDark
<1>3. Light!TypeOK'
  BY <1>1, <1>2 DEF Light!TypeOK
<1>4. Light!Remembered' /\ Light!RightLightShines' /\ Light!NotificationRate'
  BY <1>1 DEF Light!Remembered, Light!RightLightShines, Light!NotificationRate, Light!Shown,
              Light!Shine, Light!nowStatus
<1> QED
  BY <1>2, <1>3, <1>4

\* The diode.
LEMMA Battery ==
    ASSUME Light!LightInv, NEW s \in Light!LightStates, Light!set_light_battery(s)
    PROVE  Light!LightInv'
<1> USE DEF Light!LightInv
<1>1. PICK f \in {Light!Now, Light!set_speaker_light_locked(Light!Now, s)} :
        Light!Write(Light!handle_speaker_battery_locked(f, s, g_notification))
  BY DEF Light!set_light_battery
<1>2. /\ g_battery' = s
      /\ UNCHANGED <<nodes, g_notification, g_backlight, g_attention, lcd, ball>>
  BY DEF Light!set_light_battery
<1>3. g_battery' \in Light!LightStates /\ g_notification' \in Light!LightStates
  BY <1>2 DEF Light!TypeOK
<1>4. /\ preStatus' \in [Colors -> Light!Statuses] /\ led' \in [Colors -> Light!LedStates]
      /\ doubt' \subseteq Colors /\ failures' \in 0..MaxFailures
      /\ Light!Remembered' /\ Light!RightLightShines' /\ Light!NotificationRate'
  BY <1>1, <1>2, <1>3, SpeakerStep
<1>5. Light!TypeOK' /\ Light!NoBall' /\ Light!BreathesInTheDark'
  BY <1>2, <1>3, <1>4 DEF Light!TypeOK, Light!NoBall, Light!BreathesInTheDark
<1> QED
  BY <1>4, <1>5

LEMMA Notifications ==
    ASSUME Light!LightInv, NEW s \in Light!LightStates, Light!set_light_notifications(s)
    PROVE  Light!LightInv'
<1> USE DEF Light!LightInv
<1>1. /\ Light!Write(Light!handle_speaker_battery_locked(Light!Now, g_battery, s))
      /\ g_notification' = s /\ Light!Trackball(g_backlight, g_attention)
      /\ UNCHANGED <<nodes, g_battery, g_backlight, g_attention, lcd>>
  BY DEF Light!set_light_notifications
<1>2. g_battery' \in Light!LightStates /\ g_notification' \in Light!LightStates
  BY <1>1 DEF Light!TypeOK
<1>3. /\ preStatus' \in [Colors -> Light!Statuses] /\ led' \in [Colors -> Light!LedStates]
      /\ doubt' \subseteq Colors /\ failures' \in 0..MaxFailures
      /\ Light!Remembered' /\ Light!RightLightShines' /\ Light!NotificationRate'
  BY <1>1, <1>2, SpeakerStep
<1>4. /\ ball' \in Light!Modes /\ Light!NoBall'
      /\ Light!BreathesInTheDark'
  BY <1>1 DEF Light!Trackball, Light!handle_trackball_light_locked, Light!TypeOK, Light!Modes,
              Light!Breathing, Light!NoBall, Light!BreathesInTheDark
<1>5. Light!TypeOK'
  BY <1>1, <1>2, <1>3, <1>4 DEF Light!TypeOK
<1> QED
  BY <1>3, <1>4, <1>5

\* Every behaviour keeps the invariant.
LEMMA LightInvariance == AllSpec => []Light!LightInv
<1>1. AllInit => Light!LightInv
  <2> SUFFICES ASSUME Light!Init
               PROVE  Light!LightInv
    BY DEF AllInit
  <2>1. /\ g_battery = Light!Unlit /\ g_notification = Light!Unlit /\ Light!Unlit.lit = FALSE
        /\ Light!Unlit \in Light!LightStates
    BY DEF Light!Init, Light!Unlit, Light!LightStates
  <2>2. \A c \in Colors :
          Light!nowStatus(Light!Unlit, c) = "off" /\ preStatus[c] = "off"
          /\ led[c] = [status |-> "off", rate |-> 0]
    BY <2>1 DEF Light!Init, Light!nowStatus
  <2>3. Light!TypeOK
    BY <2>1, LightAssumption
       DEF Light!Init, Light!TypeOK, Light!Statuses, Light!LedStates, Light!Modes
  <2>4. Light!Remembered /\ Light!RightLightShines
    BY <2>1, <2>2 DEF Light!Remembered, Light!RightLightShines, Light!Shown
  <2>5. Light!NotificationRate
    BY <2>1, <2>2 DEF Light!NotificationRate, Light!Shine
  <2>6. Light!NoBall /\ Light!BreathesInTheDark
    BY DEF Light!Init, Light!NoBall, Light!BreathesInTheDark, Light!Breathing
  <2> QED
    BY <2>3, <2>4, <2>5, <2>6 DEF Light!LightInv
<1>2. Light!LightInv /\ [AllNext]_allVars => Light!LightInv'
  <2> SUFFICES ASSUME Light!LightInv, [AllNext]_allVars
               PROVE  Light!LightInv'
    OBVIOUS
  <2>1. CASE Light!Next
    BY <2>1, Backlight, Attention, Battery, Notifications DEF Light!Next
  <2>2. CASE UNCHANGED lightVars
    BY <2>2 DEF lightVars, Light!LightInv, Light!TypeOK, Light!Remembered, Light!RightLightShines,
                Light!NotificationRate, Light!BreathesInTheDark, Light!NoBall, Light!Shown,
                Light!Shine, Light!nowStatus
  <2> QED
    BY <2>1, <2>2 DEF AllNext, InEpo, InNmea, InLight, allVars
<1> QED
  BY <1>1, <1>2, PTL DEF AllSpec

\* After any sequence of calls and refused writes the diode does what the battery, or
\* else the notifications, ask of it, a notification at its own rate, and the
\* trackball breathes in the dark only (set_speaker_light_locked and blink_red with
\* its sisters, handle_trackball_light_locked).
THEOREM LightsStayRight == AllSpec => []LightsAreRight
<1>1. Light!LightInv => LightsAreRight
  BY DEF Light!LightInv, LightsAreRight
<1> QED
  BY <1>1, LightInvariance, PTL

-----------------------------------------------------------------------------
(* The NMEA sentences.                                                     *)

\* The sentences of an epoch, in the order mnld writes them.
LEMMA EpochLines ==
    /\ Len(Nmea!Epoch) = 7
    /\ Nmea!Epoch[1] = [type |-> "GGA"]
    /\ Nmea!Epoch[2] = [type |-> "GSA", svs |-> {1, 2}]
    /\ Nmea!Epoch[3] = [type |-> "GSA", svs |-> {201}]
    /\ Nmea!Epoch[4] = Nmea!Gsv(1, 2, 2, 1)
    /\ Nmea!Epoch[5] = Nmea!Gsv(2, 2, 2, 2)
    /\ Nmea!Epoch[6] = Nmea!Gsv(1, 1, 1, 201)
    /\ Nmea!Epoch[7] = [type |-> "RMC"]
BY DEF Nmea!Epoch

\* What the next sentence does to the reader.
LEMMA NextSentence ==
    /\ at = 1 => Nmea!Sentence(Nmea!Epoch[at]) = Nmea!GGA
    /\ at = 2 => Nmea!Sentence(Nmea!Epoch[at]) = Nmea!GSA({1, 2})
    /\ at = 3 => Nmea!Sentence(Nmea!Epoch[at]) = Nmea!GSA({201})
    /\ at = 4 => Nmea!Sentence(Nmea!Epoch[at]) = Nmea!GSV(Nmea!Gsv(1, 2, 2, 1))
    /\ at = 5 => Nmea!Sentence(Nmea!Epoch[at]) = Nmea!GSV(Nmea!Gsv(2, 2, 2, 2))
    /\ at = 6 => Nmea!Sentence(Nmea!Epoch[at]) = Nmea!GSV(Nmea!Gsv(1, 1, 1, 201))
    /\ at = 7 => Nmea!Sentence(Nmea!Epoch[at]) = Nmea!RMC
<1>1. at = 1 => Nmea!Sentence(Nmea!Epoch[at]) = Nmea!GGA
  BY EpochLines DEF Nmea!Sentence
<1>2. at = 2 => Nmea!Sentence(Nmea!Epoch[at]) = Nmea!GSA({1, 2})
  BY EpochLines DEF Nmea!Sentence
<1>3. at = 3 => Nmea!Sentence(Nmea!Epoch[at]) = Nmea!GSA({201})
  BY EpochLines DEF Nmea!Sentence
<1>4. at = 4 => Nmea!Sentence(Nmea!Epoch[at]) = Nmea!GSV(Nmea!Gsv(1, 2, 2, 1))
  BY EpochLines DEF Nmea!Sentence, Nmea!Gsv
<1>5. at = 5 => Nmea!Sentence(Nmea!Epoch[at]) = Nmea!GSV(Nmea!Gsv(2, 2, 2, 2))
  BY EpochLines DEF Nmea!Sentence, Nmea!Gsv
<1>6. at = 6 => Nmea!Sentence(Nmea!Epoch[at]) = Nmea!GSV(Nmea!Gsv(1, 1, 1, 201))
  BY EpochLines DEF Nmea!Sentence, Nmea!Gsv
<1>7. at = 7 => Nmea!Sentence(Nmea!Epoch[at]) = Nmea!RMC
  BY EpochLines DEF Nmea!Sentence
<1> QED
  BY <1>1, <1>2, <1>3, <1>4, <1>5, <1>6, <1>7

\* A satellite is written within sv_list, at the place counted.
LEMMA StoredType ==
    ASSUME Nmea!TypeOK, NEW sv \in Nmea!InView, NEW k \in {0, r.sv_count}
    PROVE  Nmea!Stored(k, sv) \in Nmea!ReaderType
<1> USE NmeaAssumption
<1>1. Nmea!Entry(sv) \in Nmea!EntryType
  BY DEF Nmea!TypeOK, Nmea!Entry, Nmea!EntryType, Nmea!Days
<1>2. k \in 0 .. GNSS_MAX_SVS /\ r.num_svs \in Nat
  BY DEF Nmea!TypeOK, Nmea!ReaderType
<1>3. CASE k + r.num_svs < GNSS_MAX_SVS
  <2>1. k + r.num_svs \in Nmea!Slots /\ k + 1 \in 0 .. GNSS_MAX_SVS
    BY <1>2, <1>3 DEF Nmea!Slots
  <2> QED
    BY <1>1, <1>3, <2>1 DEF Nmea!TypeOK, Nmea!ReaderType, Nmea!Stored
<1>4. CASE ~(k + r.num_svs < GNSS_MAX_SVS)
  BY <1>2, <1>4 DEF Nmea!TypeOK, Nmea!ReaderType, Nmea!Stored
<1> QED
  BY <1>3, <1>4

LEMMA GsvType ==
    ASSUME Nmea!TypeOK, NEW sv \in Nmea!InView, NEW seq, NEW num, NEW cnt
    PROVE  Nmea!GSV(Nmea!Gsv(seq, num, cnt, sv)) \in Nmea!ReaderType
<1> DEFINE s == Nmea!Gsv(seq, num, cnt, sv)
           t == Nmea!Stored(Nmea!FirstOfSet(s), s.sv)
<1>1. s.sv = sv /\ Nmea!FirstOfSet(s) \in {0, r.sv_count}
  BY DEF Nmea!Gsv, Nmea!FirstOfSet
<1>2. t \in Nmea!ReaderType
  BY <1>1, StoredType
<1> HIDE DEF t, s
<1>3. /\ [t EXCEPT !.num_svs = @ + t.sv_count] \in Nmea!ReaderType
      /\ [t EXCEPT !.sv_count = 0, !.num_svs = 0] \in Nmea!ReaderType
  <2>1. 0 \in 0 .. GNSS_MAX_SVS /\ 0 \in Nat
    BY NmeaAssumption
  <2>2. t.num_svs + t.sv_count \in Nat
    BY <1>2, NmeaAssumption DEF Nmea!ReaderType
  <2>3. [t EXCEPT !.num_svs = @ + t.sv_count] \in Nmea!ReaderType
    BY <1>2, <2>2 DEF Nmea!ReaderType
  <2>4. [t EXCEPT !.sv_count = 0, !.num_svs = 0] \in Nmea!ReaderType
    BY <1>2, <2>1 DEF Nmea!ReaderType
  <2> QED
    BY <2>3, <2>4
<1>4. Nmea!GSV(s) \in {t, [t EXCEPT !.num_svs = @ + t.sv_count],
                       [t EXCEPT !.sv_count = 0, !.num_svs = 0]}
  BY DEF Nmea!GSV, t
<1> QED
  BY <1>2, <1>3, <1>4 DEF s

LEMMA SentenceType ==
    ASSUME Nmea!TypeOK, at <= Len(Nmea!Epoch)
    PROVE  Nmea!Sentence(Nmea!Epoch[at]) \in Nmea!ReaderType
<1> USE NmeaAssumption
<1>1. at \in 1 .. 7
  BY EpochLines DEF Nmea!TypeOK
<1>2. n \in Nmea!Days /\ r \in Nmea!ReaderType /\ fixed \in BOOLEAN
  BY DEF Nmea!TypeOK, Nmea!Days
<1>3. Nmea!GGA \in Nmea!ReaderType
  BY <1>2 DEF Nmea!GGA, Nmea!ReaderType
<1>4. Nmea!RMC \in Nmea!ReaderType
  BY <1>2 DEF Nmea!RMC, Nmea!ReaderType
<1>5. \A svs \in SUBSET Nmea!InView : Nmea!GSA(svs) \in Nmea!ReaderType
  BY <1>2 DEF Nmea!GSA, Nmea!ReaderType
<1>6. {1, 2} \in SUBSET Nmea!InView /\ {201} \in SUBSET Nmea!InView
  BY DEF Nmea!InView
<1>7. 1 \in Nmea!InView /\ 2 \in Nmea!InView /\ 201 \in Nmea!InView
  BY DEF Nmea!InView
<1>8. /\ Nmea!GSV(Nmea!Gsv(1, 2, 2, 1)) \in Nmea!ReaderType
      /\ Nmea!GSV(Nmea!Gsv(2, 2, 2, 2)) \in Nmea!ReaderType
      /\ Nmea!GSV(Nmea!Gsv(1, 1, 1, 201)) \in Nmea!ReaderType
  BY <1>7, GsvType
<1> QED
  BY <1>1, <1>3, <1>4, <1>5, <1>6, <1>8, NextSentence

LEMMA ReportTyped ==
    ASSUME Nmea!TypeOK, at <= Len(Nmea!Epoch), NEW t \in Nmea!ReaderType, NEW tag \in BOOLEAN
    PROVE  Nmea!Forget(t, tag) \in Nmea!ReaderType /\ Nmea!Report(t, tag) \in Nmea!ReportType
<1> USE NmeaAssumption
<1>1. Nmea!Forget(t, tag) \in Nmea!ReaderType
  <2> DEFINE flag == t.flags /\ ~Nmea!HasFix(t, tag)
             total == IF Nmea!HasView(t, tag) THEN 0 ELSE t.sv_count
             num == IF Nmea!HasView(t, tag) THEN 0 ELSE t.num_svs
             noted == IF Nmea!HasView(t, tag) THEN {} ELSE t.sv_used_in_fix
  <2>1. total \in 0 .. GNSS_MAX_SVS /\ num \in Nat
    BY DEF Nmea!ReaderType
  <2>2. noted \in SUBSET Nmea!InView
    BY DEF Nmea!ReaderType
  <2>3. flag \in BOOLEAN
    OBVIOUS
  <2>4. Nmea!Forget(t, tag) = [t EXCEPT !.flags = flag, !.sv_count = total,
                                        !.num_svs = num, !.sv_used_in_fix = noted]
    BY DEF Nmea!Forget, Nmea!ReaderType
  <2> HIDE DEF flag, total, num, noted
  <2> QED
    BY <2>1, <2>2, <2>3, <2>4 DEF Nmea!ReaderType
<1>2. Nmea!View(t) \in Seq(Nmea!EntryType)
  <2>1. Nmea!Nothing \in Nmea!EntryType
    BY DEF Nmea!Nothing, Nmea!EntryType, Nmea!Days
  <2>2. t.num_svs \in Nat /\ t.sv_list \in [Nmea!Slots -> Nmea!EntryType]
    BY DEF Nmea!ReaderType
  <2>3. \A i \in 1 .. t.num_svs : i <= GNSS_MAX_SVS => i - 1 \in Nmea!Slots
    BY <2>2 DEF Nmea!Slots
  <2>4. Nmea!View(t) \in [1 .. t.num_svs -> Nmea!EntryType]
    BY <2>1, <2>2, <2>3 DEF Nmea!View
  <2> QED
    BY <2>2, <2>4
<1>3. at \in 1 .. Len(Nmea!Epoch) /\ reported \in Nmea!ReportType
  BY EpochLines DEF Nmea!TypeOK
<1>4. [at |-> at, svs |-> Nmea!View(t)] \in [at : 1 .. Len(Nmea!Epoch), svs : Seq(Nmea!EntryType)]
  BY <1>2, <1>3
<1>5. <<t.position, t.time>> \in Nmea!Days \X (Nmea!Days \X Nmea!Days)
  BY DEF Nmea!ReaderType
<1>6. Nmea!Report(t, tag) \in Nmea!ReportType
  BY <1>3, <1>4, <1>5, AppendProperties DEF Nmea!Report, Nmea!ReportType
<1> QED
  BY <1>1, <1>6

\* Within an epoch a sentence without the end tag only changes the reader ...
LEMMA NoTag ==
    ASSUME NEW t \in Nmea!ReaderType, reported = Nmea!NoReport
    PROVE  Nmea!Forget(t, FALSE) = t /\ Nmea!Report(t, FALSE) = Nmea!NoReport
<1>1. t.flags \in BOOLEAN
  BY DEF Nmea!ReaderType
<1>2. (t.flags /\ ~Nmea!HasFix(t, FALSE)) = t.flags /\ ~Nmea!HasView(t, FALSE)
  BY <1>1 DEF Nmea!HasFix, Nmea!HasView
<1>3. Nmea!Forget(t, FALSE) = [t EXCEPT !.flags = t.flags, !.sv_count = t.sv_count,
                                        !.num_svs = t.num_svs, !.sv_used_in_fix = t.sv_used_in_fix]
  BY <1>2 DEF Nmea!Forget
<1>4. Nmea!Forget(t, FALSE) = t
  BY <1>3 DEF Nmea!ReaderType
<1> QED
  BY <1>4 DEF Nmea!Report, Nmea!HasFix, Nmea!HasView, Nmea!NoReport

\* A satellite takes the place counted and leaves the others alone.
LEMMA StoredFields ==
    ASSUME NEW k \in Nat, NEW sv, NEW p, r \in Nmea!ReaderType,
           p = k + r.num_svs, p < GNSS_MAX_SVS
    PROVE  /\ Nmea!Stored(k, sv).sv_list[p] = Nmea!Entry(sv)
           /\ \A i \in Nmea!Slots \ {p} : Nmea!Stored(k, sv).sv_list[i] = r.sv_list[i]
           /\ Nmea!Stored(k, sv).sv_count = k + 1
           /\ Nmea!Stored(k, sv).num_svs = r.num_svs
           /\ Nmea!Stored(k, sv).sv_used_in_fix = r.sv_used_in_fix
           /\ Nmea!Stored(k, sv).fix_mode = r.fix_mode
           /\ Nmea!Stored(k, sv).position = r.position
           /\ Nmea!Stored(k, sv).flags = r.flags
<1> DEFINE t == Nmea!Stored(k, sv)
<1>1. t = [r EXCEPT !.sv_list = [r.sv_list EXCEPT ![p] = Nmea!Entry(sv)], !.sv_count = k + 1]
  BY DEF Nmea!Stored
<1>2. r.num_svs \in Nat /\ r.sv_list \in [Nmea!Slots -> Nmea!EntryType]
  BY DEF Nmea!ReaderType
<1>3. p \in Nmea!Slots
  BY <1>2, NmeaAssumption DEF Nmea!Slots
<1> HIDE DEF t
<1>4. t.sv_list = [r.sv_list EXCEPT ![p] = Nmea!Entry(sv)]
  BY <1>1 DEF Nmea!ReaderType
<1>5. t.sv_list[p] = Nmea!Entry(sv) /\ \A i \in Nmea!Slots \ {p} : t.sv_list[i] = r.sv_list[i]
  BY <1>2, <1>3, <1>4
<1>6. /\ t.sv_count = k + 1 /\ t.num_svs = r.num_svs
      /\ t.sv_used_in_fix = r.sv_used_in_fix /\ t.fix_mode = r.fix_mode
      /\ t.position = r.position /\ t.flags = r.flags
  BY <1>1 DEF Nmea!ReaderType
<1> QED
  BY <1>5, <1>6 DEF t

\* ... and brings what is expected of it.
LEMMA Gathers ==
    ASSUME Nmea!TypeOK, at < Len(Nmea!Epoch), Nmea!Gathered(at),
           at' = at + 1, UNCHANGED <<n, fixed, used, overflow, reported>>,
           r' = Nmea!Sentence(Nmea!Epoch[at])
    PROVE  Nmea!Gathered(at)'
<1> USE NmeaAssumption
<1>1. at \in 1 .. 6
  BY EpochLines DEF Nmea!TypeOK
<1>2. r \in Nmea!ReaderType /\ fixed \in BOOLEAN /\ used \in SUBSET Nmea!InView
  BY DEF Nmea!TypeOK
<1>3. ~overflow' /\ reported' = Nmea!NoReport
  BY DEF Nmea!Gathered
<1>4. CASE at = 1
  <2>1. r' = Nmea!GGA /\ Nmea!Cleared
    BY <1>4, NextSentence DEF Nmea!Gathered
  <2>2. r'.num_svs = r.num_svs /\ r'.sv_used_in_fix = r.sv_used_in_fix
    BY <1>2, <2>1 DEF Nmea!GGA, Nmea!ReaderType
  <2>3. fixed => r'.position = n /\ r'.flags
    BY <1>2, <2>1 DEF Nmea!GGA, Nmea!ReaderType
  <2> QED
    BY <1>3, <1>4, <2>1, <2>2, <2>3 DEF Nmea!Gathered, Nmea!Cleared
<1>5. CASE at = 2
  <2>1. /\ r' = Nmea!GSA({1, 2}) /\ Nmea!Cleared
        /\ fixed => r.position = n /\ r.flags
    BY <1>5, NextSentence DEF Nmea!Gathered
  <2>2. r'.fix_mode = fixed /\ r'.num_svs = 0 /\ r'.position = r.position /\ r'.flags = r.flags
    BY <1>2, <2>1 DEF Nmea!GSA, Nmea!Cleared, Nmea!ReaderType
  <2>3. r'.sv_used_in_fix = IF fixed THEN {1, 2} \cap used ELSE {}
    BY <1>2, <2>1 DEF Nmea!GSA, Nmea!Cleared, Nmea!ReaderType
  <2> QED
    BY <1>3, <1>5, <2>1, <2>2, <2>3 DEF Nmea!Gathered, Nmea!Known
<1>6. CASE at = 3
  <2>1. /\ r' = Nmea!GSA({201}) /\ Nmea!Known({1, 2}) /\ r.num_svs = 0
        /\ fixed => r.position = n /\ r.flags
    BY <1>6, NextSentence DEF Nmea!Gathered
  <2>2. r'.fix_mode = fixed /\ r'.num_svs = 0 /\ r'.position = r.position /\ r'.flags = r.flags
    BY <1>2, <2>1 DEF Nmea!GSA, Nmea!ReaderType
  <2>3. r'.sv_used_in_fix = IF fixed THEN r.sv_used_in_fix \cup ({201} \cap used)
                            ELSE r.sv_used_in_fix
    BY <1>2, <2>1 DEF Nmea!GSA, Nmea!ReaderType
  <2>4. r'.sv_used_in_fix = IF fixed THEN Nmea!InView \cap used ELSE {}
    <3>1. ({1, 2} \cap used) \cup ({201} \cap used) = Nmea!InView \cap used
      BY DEF Nmea!InView
    <3>2. CASE fixed
      BY <2>1, <2>3, <3>1, <3>2 DEF Nmea!Known
    <3>3. CASE ~fixed
      BY <2>1, <2>3, <3>3 DEF Nmea!Known
    <3> QED
      BY <3>2, <3>3
  <2> QED
    BY <1>3, <1>6, <2>1, <2>2, <2>4 DEF Nmea!Gathered, Nmea!Known
<1>7. \A sv \in Nmea!InView : Nmea!Known(Nmea!InView) => Nmea!Entry(sv) = Nmea!Here(sv)
  BY <1>2 DEF Nmea!Known, Nmea!Entry, Nmea!Here
<1>8. 1 \in Nmea!InView /\ 2 \in Nmea!InView /\ 201 \in Nmea!InView
  BY DEF Nmea!InView
<1>9. r.sv_list \in [Nmea!Slots -> Nmea!EntryType] /\ 0 \in Nmea!Slots /\ 1 \in Nmea!Slots
      /\ 2 \in Nmea!Slots
  BY <1>2 DEF Nmea!ReaderType, Nmea!Slots
<1>10. CASE at = 4
  <2>1. /\ r' = Nmea!GSV(Nmea!Gsv(1, 2, 2, 1)) /\ Nmea!Known(Nmea!InView) /\ r.num_svs = 0
        /\ r.fix_mode = fixed /\ (fixed => r.position = n /\ r.flags)
    BY <1>10, NextSentence DEF Nmea!Gathered
  <2> DEFINE t == Nmea!Stored(0, 1)
  <2>2. t \in Nmea!ReaderType
    BY <1>8, <2>1, StoredType
  <2>3. t.sv_list[0] = Nmea!Entry(1) /\ t.num_svs = 0 /\ t.sv_count = 1
    BY <1>2, <2>1, StoredFields
  <2>4. \A i \in Nmea!Slots \ {0} : t.sv_list[i] = r.sv_list[i]
    BY <1>2, <2>1, StoredFields
  <2>5. /\ t.sv_used_in_fix = r.sv_used_in_fix /\ t.fix_mode = fixed
        /\ t.position = r.position /\ t.flags = r.flags
    BY <1>2, <2>1, StoredFields
  <2>6. t.sv_list[0] = Nmea!Here(1)
    BY <1>7, <1>8, <1>9, <2>1, <2>3, <2>4
  <2>7. r' = t
    BY <2>1 DEF Nmea!GSV, Nmea!Gsv, Nmea!FirstOfSet
  <2> QED
    BY <1>3, <1>10, <2>1, <2>3, <2>5, <2>6, <2>7 DEF Nmea!Gathered, Nmea!Known, Nmea!Here
<1>11. CASE at = 5
  <2>1. /\ r' = Nmea!GSV(Nmea!Gsv(2, 2, 2, 2)) /\ Nmea!Known(Nmea!InView) /\ r.num_svs = 0
        /\ r.fix_mode = fixed /\ (fixed => r.position = n /\ r.flags)
        /\ r.sv_count = 1 /\ r.sv_list[0] = Nmea!Here(1)
    BY <1>11, NextSentence DEF Nmea!Gathered
  <2> DEFINE t == Nmea!Stored(1, 2)
  <2>2. t \in Nmea!ReaderType
    BY <1>8, <2>1, StoredType
  <2>3. t.sv_list[1] = Nmea!Entry(2) /\ t.num_svs = 0 /\ t.sv_count = 2
    <3>1. 1 = 1 + r.num_svs /\ 1 < GNSS_MAX_SVS /\ 1 + 1 = 2
      BY <2>1
    <3> QED
      BY <1>2, <2>1, <3>1, StoredFields
  <2>4. \A i \in Nmea!Slots \ {1} : t.sv_list[i] = r.sv_list[i]
    <3>1. 1 = 1 + r.num_svs /\ 1 < GNSS_MAX_SVS
      BY <2>1
    <3> QED
      BY <1>2, <3>1, StoredFields
  <2>5. /\ t.sv_used_in_fix = r.sv_used_in_fix /\ t.fix_mode = fixed
        /\ t.position = r.position /\ t.flags = r.flags
    BY <1>2, <2>1, StoredFields
  <2>6. t.sv_list[0] = Nmea!Here(1) /\ t.sv_list[1] = Nmea!Here(2)
    BY <1>7, <1>8, <1>9, <2>1, <2>3, <2>4
  <2>7. r' = [t EXCEPT !.num_svs = 2]
    BY <2>1, <2>3 DEF Nmea!GSV, Nmea!Gsv, Nmea!FirstOfSet
  <2> HIDE DEF t
  <2>8. /\ r'.sv_list = t.sv_list /\ r'.num_svs = 2 /\ r'.fix_mode = t.fix_mode
        /\ r'.sv_used_in_fix = t.sv_used_in_fix /\ r'.position = t.position /\ r'.flags = t.flags
    BY <2>2, <2>7 DEF Nmea!ReaderType
  <2> QED
    BY <1>3, <1>11, <2>1, <2>5, <2>6, <2>8 DEF Nmea!Gathered, Nmea!Known, Nmea!Here
<1>12. CASE at = 6
  <2>1. /\ r' = Nmea!GSV(Nmea!Gsv(1, 1, 1, 201)) /\ Nmea!Known(Nmea!InView) /\ r.num_svs = 2
        /\ r.fix_mode = fixed /\ (fixed => r.position = n /\ r.flags)
        /\ r.sv_list[0] = Nmea!Here(1) /\ r.sv_list[1] = Nmea!Here(2)
    BY <1>12, NextSentence DEF Nmea!Gathered
  <2> DEFINE t == Nmea!Stored(0, 201)
  <2>2. t \in Nmea!ReaderType
    BY <1>8, <2>1, StoredType
  <2>3. t.sv_list[2] = Nmea!Entry(201) /\ t.num_svs = 2 /\ t.sv_count = 1
    <3>1. 2 = 0 + r.num_svs /\ 2 < GNSS_MAX_SVS /\ 0 + 1 = 1
      BY <2>1
    <3> QED
      BY <1>2, <2>1, <3>1, StoredFields
  <2>4. \A i \in Nmea!Slots \ {2} : t.sv_list[i] = r.sv_list[i]
    <3>1. 2 = 0 + r.num_svs /\ 2 < GNSS_MAX_SVS
      BY <2>1
    <3> QED
      BY <1>2, <3>1, StoredFields
  <2>5. /\ t.sv_used_in_fix = r.sv_used_in_fix /\ t.fix_mode = fixed
        /\ t.position = r.position /\ t.flags = r.flags
    BY <1>2, <2>1, StoredFields
  <2>6. t.sv_list[0] = Nmea!Here(1) /\ t.sv_list[1] = Nmea!Here(2) /\ t.sv_list[2] = Nmea!Here(201)
    BY <1>7, <1>8, <1>9, <2>1, <2>3, <2>4
  <2>7. r' = [t EXCEPT !.num_svs = 3]
    BY <2>1, <2>3 DEF Nmea!GSV, Nmea!Gsv, Nmea!FirstOfSet
  <2> HIDE DEF t
  <2>8. /\ r'.sv_list = t.sv_list /\ r'.num_svs = 3 /\ r'.fix_mode = t.fix_mode
        /\ r'.sv_used_in_fix = t.sv_used_in_fix /\ r'.position = t.position /\ r'.flags = t.flags
    BY <2>2, <2>7 DEF Nmea!ReaderType
  <2> QED
    BY <1>3, <1>12, <2>1, <2>5, <2>6, <2>8 DEF Nmea!Gathered, Nmea!Known, Nmea!Here
<1> QED
  BY <1>1, <1>4, <1>5, <1>6, <1>10, <1>11, <1>12

\* With the last sentence, and its end tag, the epoch is reported.
LEMMA Reports ==
    ASSUME Nmea!TypeOK, at = Len(Nmea!Epoch), Nmea!Gathered(at), UNCHANGED <<n, fixed, used>>,
           reported' = Nmea!Report(Nmea!Sentence(Nmea!Epoch[at]), TRUE)
    PROVE  (Nmea!ViewIsExact /\ Nmea!FixIsExact)'
<1> USE NmeaAssumption
<1> DEFINE t == Nmea!Sentence(Nmea!Epoch[at])
<1>1. at = 7
  BY EpochLines
<1>2. r \in Nmea!ReaderType /\ fixed \in BOOLEAN /\ n \in 1 .. MaxEpochs
  BY DEF Nmea!TypeOK
<1>3. /\ r.fix_mode = fixed /\ (fixed => r.position = n /\ r.flags) /\ r.num_svs = 3
      /\ r.sv_list[0] = Nmea!Here(1) /\ r.sv_list[1] = Nmea!Here(2) /\ r.sv_list[2] = Nmea!Here(201)
      /\ reported = Nmea!NoReport
  BY <1>1 DEF Nmea!Gathered
<1>4. t = Nmea!RMC
  BY <1>1, NextSentence
<1>5. t.fix_mode = fixed /\ t.num_svs = 3 /\ t.sv_list = r.sv_list
  BY <1>2, <1>3, <1>4 DEF Nmea!RMC, Nmea!ReaderType
<1>6. fixed => t.flags /\ t.position = n /\ t.time = <<n, n>>
  BY <1>2, <1>4 DEF Nmea!RMC, Nmea!ReaderType
<1> HIDE DEF t
<1>7. Nmea!View(t) = [i \in 1 .. 3 |-> r.sv_list[i - 1]]
  BY <1>5 DEF Nmea!View
<1>8. reported'.views = << [at |-> at, svs |-> Nmea!View(t)] >>
  BY <1>3, <1>5 DEF Nmea!Report, Nmea!HasView, Nmea!NoReport, t
<1>9. reported'.fixes = IF fixed THEN << <<n, <<n, n>>>> >> ELSE <<>>
  BY <1>2, <1>3, <1>5, <1>6 DEF Nmea!Report, Nmea!HasFix, Nmea!NoReport, t
<1>10. Len(Nmea!View(t)) = 3
  BY <1>7
<1>11. /\ Nmea!View(t)[1] = Nmea!Here(1) /\ Nmea!View(t)[2] = Nmea!Here(2)
       /\ Nmea!View(t)[3] = Nmea!Here(201)
  BY <1>3, <1>7
<1>12. {Nmea!View(t)[i] : i \in 1 .. 3} = {Nmea!Here(1), Nmea!Here(2), Nmea!Here(201)}
  <2>1. 1 .. 3 = {1, 2, 3}
    OBVIOUS
  <2> QED
    BY <1>11, <2>1
<1>13. {Nmea!Here(1), Nmea!Here(2), Nmea!Here(201)} = {Nmea!Here(s) : s \in Nmea!InView}
  BY DEF Nmea!InView
<1>14. {Nmea!View(t)[i] : i \in 1 .. 3} =
           {[sv |-> s, epoch |-> n', used |-> fixed' /\ s \in used'] : s \in Nmea!InView}
  BY <1>12, <1>13 DEF Nmea!Here
<1>15. Nmea!ViewIsExact'
  <2> DEFINE v == [at |-> at, svs |-> Nmea!View(t)]
  <2>1. v.svs = Nmea!View(t) /\ reported'.views = <<v>>
    BY <1>8
  <2> HIDE DEF v
  <2>2. Len(<<v>>) = 1 /\ <<v>>[1] = v
    OBVIOUS
  <2>3. Len(reported'.views) = 1 /\ reported'.views[1] = v
    BY <2>1, <2>2
  <2> QED
    BY <1>10, <1>14, <2>1, <2>3 DEF Nmea!ViewIsExact
<1>16. Nmea!FixIsExact'
  BY <1>9 DEF Nmea!FixIsExact
<1> QED
  BY <1>15, <1>16

LEMMA ViewAt ==
    ASSUME NEW rep \in Nmea!ReportType
    PROVE  \A i \in DOMAIN rep.views : rep.views[i].at \in 1 .. 7
<1> DEFINE V == [at : 1 .. 7, svs : Seq(Nmea!EntryType)]
<1>1. rep.views \in Seq(V)
  BY EpochLines DEF Nmea!ReportType
<1>2. \A v \in V : v.at \in 1 .. 7
  OBVIOUS
<1> HIDE DEF V
<1>3. \A i \in DOMAIN rep.views : rep.views[i] \in V
  BY <1>1, ElementOfSeq, LenProperties
<1> QED
  BY <1>2, <1>3

\* A line leaves ReportClears true, whatever it brings.
LEMMA LineClears ==
    ASSUME Nmea!TypeOK, Nmea!ReportClears, NEW tag \in BOOLEAN, Nmea!Line(tag)
    PROVE  Nmea!TypeOK' /\ Nmea!ReportClears'
<1> USE NmeaAssumption
<1>0. Len(Nmea!Epoch) = 7
  BY EpochLines
<1> DEFINE t == Nmea!Sentence(Nmea!Epoch[at])
<1>1. at \in 1 .. 7 /\ at' = at + 1
  BY <1>0 DEF Nmea!TypeOK, Nmea!Line, Nmea!Ahead
<1>2. t \in Nmea!ReaderType
  BY SentenceType DEF Nmea!Line
<1>3. r' = Nmea!Forget(t, tag) /\ reported' = Nmea!Report(t, tag)
  BY DEF Nmea!Line
<1> HIDE DEF t
<1>4. Nmea!TypeOK'
  <2>1. r' \in Nmea!ReaderType /\ reported' \in Nmea!ReportType
    BY <1>0, <1>1, <1>2, <1>3, ReportTyped
  <2>2. clean' \in BOOLEAN
    BY DEF Nmea!TypeOK, Nmea!Line, Nmea!Upset
  <2> QED
    BY <1>0, <1>1, <2>1, <2>2 DEF Nmea!TypeOK, Nmea!Line, Nmea!Ahead
<1>5. reported.views \in Seq([at : 1 .. 7, svs : Seq(Nmea!EntryType)])
  BY <1>0 DEF Nmea!TypeOK, Nmea!ReportType
<1>6. CASE Nmea!HasView(t, tag)
  <2>1. reported'.views = Append(reported.views, [at |-> at, svs |-> Nmea!View(t)])
    BY <1>3, <1>6 DEF Nmea!Report
  <2>2. Nmea!Cleared'
    BY <1>2, <1>3, <1>6 DEF Nmea!Forget, Nmea!Cleared, Nmea!ReaderType
  <2>3. \A i \in DOMAIN reported'.views : reported'.views[i].at <= at
    <3> SUFFICES ASSUME NEW i \in DOMAIN reported'.views
                 PROVE  reported'.views[i].at <= at
      OBVIOUS
    <3>1. \A j \in 1 .. Len(reported.views) : reported.views[j].at < at
      BY <1>5 DEF Nmea!ReportClears
    <3>2. i \in 1 .. Len(reported.views) + 1
      BY <1>5, <2>1, AppendProperties
    <3>3. CASE i \in 1 .. Len(reported.views)
      <4>1. reported'.views[i] = reported.views[i]
        BY <1>5, <2>1, <3>3, AppendProperties
      <4>2. reported'.views[i].at \in 1 .. 7
        BY <1>4, ViewAt DEF Nmea!TypeOK
      <4> QED
        BY <1>1, <3>1, <3>3, <4>1, <4>2
    <3>4. CASE i = Len(reported.views) + 1
      BY <1>1, <1>5, <2>1, <3>4, AppendProperties
    <3>5. Len(reported.views) \in Nat
      BY <1>5, LenProperties
    <3> QED
      BY <3>2, <3>3, <3>4, <3>5
  <2>4. \A i \in DOMAIN reported'.views : reported'.views[i].at \in 1 .. 7
    BY <1>4, ViewAt DEF Nmea!TypeOK
  <2> QED
    BY <1>0, <1>1, <1>4, <2>2, <2>3, <2>4 DEF Nmea!ReportClears, Nmea!Cleared
<1>7. CASE ~Nmea!HasView(t, tag)
  <2>1. reported'.views = reported.views
    BY <1>3, <1>7 DEF Nmea!Report
  <2>2. \A i \in DOMAIN reported.views : reported.views[i].at < at /\ reported.views[i].at \in 1 .. 7
    BY ViewAt DEF Nmea!ReportClears, Nmea!TypeOK
  <2> QED
    BY <1>0, <1>1, <1>4, <2>1, <2>2 DEF Nmea!ReportClears, Nmea!Cleared
<1> QED
  BY <1>4, <1>6, <1>7

\* A line of a clean epoch brings it on, or reports it; an upset ends it.
LEMMA NmeaLine ==
    ASSUME Nmea!NmeaInv, NEW tag \in BOOLEAN, Nmea!Line(tag)
    PROVE  Nmea!NmeaInv'
<1> DEFINE t == Nmea!Sentence(Nmea!Epoch[at])
<1>0. Len(Nmea!Epoch) = 7
  BY EpochLines
<1>1. Nmea!TypeOK' /\ Nmea!ReportClears'
  BY LineClears DEF Nmea!NmeaInv
<1>2. Nmea!TypeOK /\ (clean /\ at <= Len(Nmea!Epoch) => Nmea!Gathered(at))
  BY DEF Nmea!NmeaInv
<1>3. /\ at \in 1 .. 7 /\ at' = at + 1 /\ UNCHANGED <<n, fixed, used, overflow>>
      /\ r' = Nmea!Forget(t, tag) /\ reported' = Nmea!Report(t, tag)
  BY <1>0, <1>2 DEF Nmea!Line, Nmea!Ahead, Nmea!TypeOK
<1>4. clean' => clean /\ (tag <=> at = 7)
  BY <1>0 DEF Nmea!Line, Nmea!Upset, Nmea!Last
<1>5. t \in Nmea!ReaderType
  BY <1>2, <1>3, <1>0, SentenceType
<1> HIDE DEF t
<1>6. CASE ~clean'
  BY <1>1, <1>6 DEF Nmea!NmeaInv, Nmea!ViewIsExact, Nmea!FixIsExact, Nmea!Done
<1>7. CASE clean' /\ at # 7
  <2>1. Nmea!Gathered(at) /\ tag = FALSE
    BY <1>0, <1>2, <1>3, <1>4, <1>7
  <2>2. reported = Nmea!NoReport
    BY <2>1 DEF Nmea!Gathered
  <2>3. r' = t /\ reported' = reported
    BY <1>3, <1>5, <2>1, <2>2, NoTag
  <2>4. Nmea!Gathered(at)'
    BY <1>0, <1>2, <1>3, <1>7, <2>1, <2>3, Gathers DEF t
  <2>5. ~Nmea!Done'
    BY <1>0, <1>3, <1>7 DEF Nmea!Done
  <2> QED
    BY <1>1, <2>4, <2>5 DEF Nmea!NmeaInv, Nmea!ViewIsExact, Nmea!FixIsExact
<1>8. CASE clean' /\ at = 7
  <2>1. Nmea!Gathered(at) /\ tag = TRUE
    BY <1>0, <1>2, <1>4, <1>8
  <2>2. Nmea!ViewIsExact' /\ Nmea!FixIsExact'
    BY <1>0, <1>2, <1>3, <1>8, <2>1, Reports DEF t
  <2>3. ~(at' <= Len(Nmea!Epoch))
    BY <1>0, <1>3, <1>8
  <2> QED
    BY <1>1, <2>2, <2>3 DEF Nmea!NmeaInv
<1> QED
  BY <1>6, <1>7, <1>8

\* A line that is lost ends what is clean.
LEMMA NmeaLost ==
    ASSUME Nmea!NmeaInv, Nmea!LongLine \/ Nmea!SkippedLine \/ Nmea!ShortLine
    PROVE  Nmea!NmeaInv'
<1>0. Len(Nmea!Epoch) = 7
  BY EpochLines
<1>1. /\ at <= 7 /\ at' = at + 1 /\ UNCHANGED <<n, fixed, used, r, reported>>
      /\ overflow' \in BOOLEAN /\ clean' = FALSE
  BY <1>0 DEF Nmea!LongLine, Nmea!SkippedLine, Nmea!ShortLine, Nmea!Ahead, Nmea!Upset,
              Nmea!NmeaInv, Nmea!TypeOK
<1>2. Nmea!TypeOK'
  <2>1. at' \in 1 .. Len(Nmea!Epoch) + 1
    BY <1>0, <1>1 DEF Nmea!NmeaInv, Nmea!TypeOK
  <2>2. clean' \in BOOLEAN
    BY <1>1
  <2> QED
    BY <1>1, <2>1, <2>2 DEF Nmea!NmeaInv, Nmea!TypeOK
<1>3. \A i \in DOMAIN reported.views : reported.views[i].at \in 1 .. 7
  BY ViewAt DEF Nmea!NmeaInv, Nmea!TypeOK
<1>4. at \in 1 .. 7
  BY <1>0, <1>1 DEF Nmea!NmeaInv, Nmea!TypeOK
<1>5. Nmea!ReportClears'
  BY <1>1, <1>3, <1>4 DEF Nmea!NmeaInv, Nmea!ReportClears, Nmea!Cleared
<1> QED
  BY <1>1, <1>2, <1>5 DEF Nmea!NmeaInv, Nmea!ViewIsExact, Nmea!FixIsExact, Nmea!Done

\* An epoch starts clean when the one before was reported with its last sentence.
LEMMA NmeaNext ==
    ASSUME Nmea!NmeaInv, Nmea!NextEpoch
    PROVE  Nmea!NmeaInv'
<1> USE NmeaAssumption
<1>0. Len(Nmea!Epoch) = 7
  BY EpochLines
<1>1. /\ n < MaxEpochs /\ n' = n + 1 /\ at' = 1 /\ reported' = Nmea!NoReport
      /\ fixed' \in BOOLEAN /\ used' \in {{}, {1}, {2, 201}}
      /\ UNCHANGED <<overflow, r, upsets>>
      /\ clean' = (~overflow /\ \E i \in DOMAIN reported.views : reported.views[i].at = Len(Nmea!Epoch))
  BY DEF Nmea!NextEpoch
<1>2. reported'.views = <<>> /\ DOMAIN reported'.views = {} /\ Nmea!NoReport \in Nmea!ReportType
  BY <1>1 DEF Nmea!NoReport, Nmea!ReportType
<1>3. used' \subseteq Nmea!InView
  BY <1>1 DEF Nmea!InView
<1>4. n' \in 1 .. MaxEpochs /\ at' \in 1 .. Len(Nmea!Epoch) + 1
  BY <1>0, <1>1 DEF Nmea!NmeaInv, Nmea!TypeOK
<1>5. clean' \in BOOLEAN
  BY <1>1
<1>6. Nmea!TypeOK'
  BY <1>1, <1>2, <1>3, <1>4, <1>5 DEF Nmea!NmeaInv, Nmea!TypeOK
<1>7. Nmea!ReportClears'
  BY <1>2 DEF Nmea!ReportClears
<1>8. clean' => Nmea!Cleared /\ ~overflow
  BY <1>1 DEF Nmea!NmeaInv, Nmea!ReportClears
<1>9. clean' => Nmea!Gathered(at)'
  BY <1>1, <1>8 DEF Nmea!Gathered, Nmea!Cleared
<1>10. ~Nmea!Done'
  BY <1>0, <1>1 DEF Nmea!Done
<1> QED
  BY <1>6, <1>7, <1>9, <1>10 DEF Nmea!NmeaInv, Nmea!ViewIsExact, Nmea!FixIsExact

\* The callback is set between two epochs.
LEMMA NmeaCallback ==
    ASSUME Nmea!NmeaInv, Nmea!SetCallback
    PROVE  Nmea!NmeaInv'
<1> USE NmeaAssumption
<1>0. Len(Nmea!Epoch) = 7
  BY EpochLines
<1>1. /\ at = 1 /\ UNCHANGED <<n, at, fixed, used, overflow, reported, upsets, clean>>
      /\ r' = [r EXCEPT !.flags = FALSE, !.sv_count = 0, !.num_svs = 0]
  BY DEF Nmea!SetCallback
<1>2. r \in Nmea!ReaderType
  BY DEF Nmea!NmeaInv, Nmea!TypeOK
<1>3. FALSE \in BOOLEAN /\ 0 \in 0 .. GNSS_MAX_SVS /\ 0 \in Nat
  OBVIOUS
<1>4. r' \in Nmea!ReaderType /\ r'.num_svs = 0 /\ r'.sv_used_in_fix = r.sv_used_in_fix
  BY <1>1, <1>2, <1>3 DEF Nmea!ReaderType
<1>5. Nmea!TypeOK'
  BY <1>1, <1>4 DEF Nmea!NmeaInv, Nmea!TypeOK
<1>6. \A i \in DOMAIN reported.views : reported.views[i].at \in 1 .. 7 /\ reported.views[i].at < at
  BY ViewAt DEF Nmea!NmeaInv, Nmea!TypeOK, Nmea!ReportClears
<1>7. Nmea!ReportClears'
  BY <1>1, <1>6 DEF Nmea!ReportClears
<1>8. clean' => Nmea!Gathered(at)'
  BY <1>0, <1>1, <1>4 DEF Nmea!NmeaInv, Nmea!Gathered, Nmea!Cleared
<1>9. ~Nmea!Done'
  BY <1>0, <1>1 DEF Nmea!Done
<1> QED
  BY <1>5, <1>7, <1>8, <1>9 DEF Nmea!NmeaInv, Nmea!ViewIsExact, Nmea!FixIsExact

LEMMA NmeaStarts ==
    ASSUME Nmea!Init
    PROVE  Nmea!NmeaInv
<1> USE NmeaAssumption
<1>0. Len(Nmea!Epoch) = 7
  BY EpochLines
<1>1. /\ n = 1 /\ at = 1 /\ fixed \in BOOLEAN /\ used \in {{}, {1}, {2, 201}}
      /\ overflow = FALSE /\ r = Nmea!NewReader /\ reported = Nmea!NoReport /\ clean = TRUE
  BY DEF Nmea!Init
<1>2. used \subseteq Nmea!InView
  BY <1>1 DEF Nmea!InView
<1>3. Nmea!NewReader \in Nmea!ReaderType
  <2>1. 0 \in Nmea!Days /\ 0 \in 0 .. GNSS_MAX_SVS
    BY DEF Nmea!Days
  <2>2. [i \in Nmea!Slots |-> Nmea!Nothing] \in [Nmea!Slots -> Nmea!EntryType]
    BY <2>1 DEF Nmea!Nothing, Nmea!EntryType
  <2> QED
    BY <2>1, <2>2 DEF Nmea!NewReader, Nmea!ReaderType
<1>4. reported.views = <<>> /\ DOMAIN reported.views = {} /\ Nmea!NoReport \in Nmea!ReportType
  BY <1>1 DEF Nmea!NoReport, Nmea!ReportType
<1>5. Nmea!TypeOK
  <2>1. n \in 1 .. MaxEpochs /\ at \in 1 .. Len(Nmea!Epoch) + 1
    BY <1>0, <1>1
  <2>2. overflow \in BOOLEAN /\ clean \in BOOLEAN
    BY <1>1
  <2> QED
    BY <1>1, <1>2, <1>3, <1>4, <2>1, <2>2 DEF Nmea!TypeOK
<1>6. Nmea!ReportClears
  BY <1>4 DEF Nmea!ReportClears
<1>7. Nmea!Gathered(at)
  BY <1>1 DEF Nmea!Gathered, Nmea!Cleared, Nmea!NewReader
<1>8. ~Nmea!Done
  BY <1>0, <1>1 DEF Nmea!Done
<1> QED
  BY <1>5, <1>6, <1>7, <1>8 DEF Nmea!NmeaInv, Nmea!ViewIsExact, Nmea!FixIsExact

LEMMA NmeaRests ==
    ASSUME Nmea!NmeaInv, UNCHANGED nmeaVars
    PROVE  Nmea!NmeaInv'
BY DEF nmeaVars, Nmea!NmeaInv, Nmea!TypeOK, Nmea!ReportClears, Nmea!Cleared, Nmea!Gathered,
       Nmea!Known, Nmea!Here, Nmea!ViewIsExact, Nmea!FixIsExact, Nmea!Done

\* An epoch of sentences that arrives whole is reported once, with its own satellites,
\* position and date (nmea_reader_parse, gps_nmea_end_tag), whatever was lost before.
THEOREM ReportsStayExact == AllSpec => []ReportsAreExact
<1>1. AllInit => Nmea!NmeaInv
  BY NmeaStarts DEF AllInit
<1>2. Nmea!NmeaInv /\ [AllNext]_allVars => Nmea!NmeaInv'
  <2> SUFFICES ASSUME Nmea!NmeaInv, [AllNext]_allVars
               PROVE  Nmea!NmeaInv'
    OBVIOUS
  <2>1. CASE InNmea(Nmea!Next)
    BY <2>1, NmeaLine, NmeaLost, NmeaNext, NmeaCallback DEF InNmea, Nmea!Next
  <2>2. CASE UNCHANGED nmeaVars
    BY <2>2, NmeaRests
  <2> QED
    BY <2>1, <2>2 DEF AllNext, InEpo, InLight, allVars
<1>3. Nmea!NmeaInv => ReportsAreExact
  BY DEF Nmea!NmeaInv, ReportsAreExact
<1> QED
  BY <1>1, <1>2, <1>3, PTL DEF AllSpec
=============================================================================
