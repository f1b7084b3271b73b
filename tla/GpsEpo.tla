------------------------------- MODULE GpsEpo -------------------------------
(***************************************************************************)
(* The download of satellite orbit predictions (EPO) in gps_mtk_aosp.c.    *)
(* The EPO thread fetches pieces of three days each, appends them to the   *)
(* file EPOHAL, checks that each one follows the last, resumes after a     *)
(* failure, and has mnld copy the file to EPO.DAT.  The framework thread,  *)
(* in mtk_gps_start, and the HAL thread, when mnld is done, change the     *)
(* same variables and files; there is no lock.                             *)
(*                                                                         *)
(* Time is in days, and day 0 is what an unreadable file yields.  A piece  *)
(* is its edition, the day of its first record, and its number.            *)
(***************************************************************************)
EXTENDS Integers, Sequences

CONSTANTS
    Pieces,             \* pieces of gps_epo_download_days days
    gps_epo_period,     \* days: expiry when a session starts
    wifi_epo_period,    \* days: expiry when wifi is there
    Retries,            \* failed attempts at one piece before giving up
    MaxDay,             \* bound: the clock stops here
    MaxStarts           \* bound: sessions started

ASSUME EpoAssumption == Pieces \in Nat \ {0} /\ Retries \in Nat \ {0} /\ MaxDay \in Nat \ {0}

VARIABLES
    now,
    server,             \* the edition the server offers
    epohal, epodat,     \* EPO_FILE_HAL, EPO_FILE: {} or {sequence of pieces}
    piece,              \* piece files: number -> edition, Gone or Short
    count,              \* gps_epo_file_count
    updated,            \* s->epo_data_updated
    failed,             \* epo_download_failed
    retry,              \* epo_download_retry
    alarm,              \* the retry timer is running
    pc, resuming,       \* where the EPO thread is
    name,               \* gps_epo_file_name
    handle,             \* the open EPOHAL is still the one with that name
    before,             \* file_count_temp, or the value count++ has read
    file_retrying, retry_time,
    fw,                 \* where mtk_gps_start is
    started,
    nw,                 \* nw_connected and nw_type: "none", "data" or "wifi"
    update, done,       \* UPDATE_EPO_FILE sent; UPDATE_EPO_FILE_DONE sent
    starts,
    spoiled             \* another thread interfered with an update, or the
                        \* server sent less than a record

files == <<epohal, epodat>>
flags == <<count, updated, failed>>
alarms == <<retry, alarm, file_retrying, retry_time>>
thread == <<pc, resuming, name, handle, before, piece>>
env == <<now, server, started, nw, starts>>
messages == <<update, done>>
vars == <<files, flags, alarms, thread, env, messages, fw, spoiled>>

Gone == 0
Short == -1
NoRetry == 50           \* "50 for first restore"
Numbers == 0 .. Pieces - 1
Begin(p) == p[1] + 3 * p[2]
End(p) == Begin(p) + 3

Data(f) == CHOOSE d \in f : TRUE
Updating == pc \in {"download", "unlink", "open", "write", "check", "store", "finish"}

Init ==
    /\ now = 1 /\ server = 1
    /\ epohal = {} /\ epodat = {}
    /\ piece = [k \in Numbers |-> Gone]
    /\ count = 0 /\ updated = FALSE /\ failed = FALSE
    /\ retry = TRUE /\ alarm = FALSE
    /\ pc = "loop" /\ resuming = FALSE /\ name = 0 /\ handle = FALSE /\ before = 0
    /\ file_retrying = NoRetry /\ retry_time = 0
    /\ fw = "idle" /\ started = FALSE /\ nw = "none"
    /\ update = FALSE /\ done = FALSE /\ starts = 0 /\ spoiled = FALSE

-----------------------------------------------------------------------------
(* The age of the data.                                                    *)

\* mtk_gps_epo_file_time_hal reads EPOHAL, or else EPO.DAT: the days of the
\* first and after the last record, or zeros.
Readable(f) == f # {} /\ Data(f) # <<>> /\ \A i \in DOMAIN Data(f) : Data(f)[i][1] > 0
file_time(f) ==
    IF Readable(f) THEN <<Begin(Head(Data(f))), End(Data(f)[Len(Data(f))])>>
    ELSE <<0, 0>>
Newest == IF epohal # {} THEN epohal ELSE epodat

\* mtk_epo_is_expired: how old the data may be depends on how much there is.
expired_set(days) ==
    IF days >= gps_epo_period THEN gps_epo_period
    ELSE IF days < 3 THEN 0 ELSE IF days < 6 THEN 2 ELSE IF days < 9 THEN 5 ELSE 7
mtk_epo_is_expired(wifi_tragger) ==
    LET t == file_time(Newest)
        allowed == IF wifi_tragger THEN wifi_epo_period ELSE expired_set(t[2] - t[1])
    IN  now >= t[1] + allowed

-----------------------------------------------------------------------------
(* The EPO thread.                                                         *)

Step(from, to) == pc = from /\ pc' = to

\* mtk_gps_start is between its look at EPOHAL and what it does about it.
Overlaps == spoiled' = (spoiled \/ fw \in {"unlink", "request"})

\* thread_epo_file_update: a requested download begins or goes on ...
BeginUpdate ==
    /\ updated /\ Step("loop", "download")
    /\ failed' = FALSE
    /\ name' = count
    /\ resuming' = FALSE
    /\ Overlaps
    /\ UNCHANGED <<files, count, updated, alarms, handle, before, piece, env, messages, fw>>

NoUpdate ==
    /\ ~updated /\ Step("loop", "resume")
    /\ UNCHANGED <<files, flags, alarms, resuming, name, handle, before, piece, env,
                   messages, fw, spoiled>>

\* ... curl_easy_download_epo gets nothing: the piece's file is removed and
\* the request is over, to be resumed ...
DownloadFails ==
    /\ pc = "download" /\ pc' = IF resuming THEN "after" ELSE "resume"
    /\ piece' = [piece EXCEPT ![name] = Gone]
    /\ failed' = TRUE
    /\ updated' = (updated /\ resuming)
    /\ UNCHANGED <<files, count, alarms, resuming, name, handle, before, env, messages,
                   fw, spoiled>>

\* ... or the piece, which may be less than one record ...
Download ==
    /\ nw # "none" /\ Step("download", "unlink")
    /\ \/ piece' = [piece EXCEPT ![name] = server] /\ UNCHANGED spoiled
       \/ piece' = [piece EXCEPT ![name] = Short] /\ spoiled' = TRUE
    /\ UNCHANGED <<files, flags, alarms, resuming, name, handle, before, env, messages, fw>>

\* ... the first piece replaces the old file ...
UnlinkOld ==
    /\ Step("unlink", "open")
    /\ epohal' = IF count = 0 THEN {} ELSE epohal
    /\ UNCHANGED <<epodat, flags, alarms, resuming, name, handle, before, piece, env,
                   messages, fw, spoiled>>

\* ... fopen(EPO_FILE_HAL, "at") ...
OpenHal ==
    /\ Step("open", "write")
    /\ epohal' = IF epohal = {} THEN {<<>>} ELSE epohal
    /\ handle' = TRUE
    /\ UNCHANGED <<epodat, flags, alarms, resuming, name, before, piece, env, messages,
                   fw, spoiled>>

\* ... and the piece is appended, to a file that may have lost its name.
AppendPiece ==
    /\ Step("write", "check")
    /\ epohal' = IF handle /\ Len(Data(epohal)) < 2 * Pieces        \* bound
                 THEN {Append(Data(epohal), <<piece[name], name>>)} ELSE epohal
    /\ handle' = FALSE
    /\ UNCHANGED <<epodat, flags, alarms, resuming, name, before, piece, env, messages,
                   fw, spoiled>>

\* mtk_gps_epo_server_data_is_changed: this piece starts where the one
\* before ends.
PieceEnd(k) == IF piece[k] > 0 THEN End(<<piece[k], k>>) ELSE 0
Unreadable == piece[name] = Short \/ (count > 0 /\ piece[count - 1] = Short)

\* Mutant: a whole piece may be missing.
Follows_loose ==
    piece[name] > 0 /\ count > 0 =>
        Begin(<<piece[name], name>>) - PieceEnd(count - 1) < 4

Follows ==
    piece[name] > 0 /\ count > 0 =>
        Begin(<<piece[name], name>>) - PieceEnd(count - 1) < 1

\* The server has a new edition: "epo data is updated on the server", and
\* all is fetched again.
DataChanged ==
    /\ pc = "check" /\ ~Follows
    /\ piece' = [k \in Numbers |-> IF k <= count THEN Gone ELSE piece[k]]
    /\ epohal' = {} /\ count' = 0
    /\ failed' = (failed \/ Unreadable)
    /\ pc' = IF resuming THEN "after" ELSE "resume"
    /\ updated' = (updated /\ (resuming \/ ~failed'))
    /\ UNCHANGED <<epodat, alarms, resuming, name, handle, before, env, messages, fw, spoiled>>

PieceUnreadable ==
    /\ pc = "check" /\ Follows /\ Unreadable
    /\ failed' = TRUE
    /\ updated' = (updated /\ resuming)
    /\ pc' = IF resuming THEN "after" ELSE "resume"
    /\ UNCHANGED <<files, count, alarms, resuming, name, handle, before, piece, env,
                   messages, fw, spoiled>>

\* gps_epo_file_count++: the read ...
PieceGood ==
    /\ Step("check", "store") /\ Follows /\ ~Unreadable
    /\ name' = count
    /\ UNCHANGED <<files, flags, alarms, resuming, handle, before, piece, env, messages,
                   fw, spoiled>>

Return == IF resuming THEN "after" ELSE "resume"

\* ... and the store; with all pieces there the download is complete.
StoreCount ==
    /\ pc = "store" /\ count' = name + 1
    /\ pc' = IF count' < Pieces THEN Return ELSE "finish"
    /\ UNCHANGED <<files, updated, failed, alarms, resuming, name, handle, before, piece,
                   env, messages, fw, spoiled>>

Finish ==
    /\ pc = "finish" /\ pc' = Return
    /\ piece' = [k \in Numbers |-> Gone]
    /\ count' = 0 /\ updated' = FALSE /\ failed' = FALSE
    /\ update' = (update \/ started)
    /\ epodat' = IF started THEN {} ELSE epodat
    /\ UNCHANGED <<epohal, alarms, resuming, name, handle, before, env, done, fw, spoiled>>

\* A download that failed is resumed where it stopped, or from the start
\* when the data is a day old.
MayResume == (nw = "wifi" \/ (nw = "data" /\ started)) /\ failed /\ retry
Resume ==
    /\ pc = "resume" /\ MayResume
    /\ before' = count
    /\ file_retrying' = IF file_retrying = NoRetry THEN count ELSE file_retrying
    /\ \/ /\ now >= file_time(Newest)[1] + 1
          /\ failed' = FALSE /\ count' = 0 /\ updated' = TRUE /\ epohal' = {}
          /\ pc' = "after"
          /\ UNCHANGED <<resuming, name>>
       \/ /\ now < file_time(Newest)[1] + 1
          /\ resuming' = TRUE /\ name' = count
          /\ pc' = "download"
          /\ UNCHANGED <<flags, epohal>>
    /\ Overlaps
    /\ UNCHANGED <<epodat, retry, alarm, retry_time, handle, piece, env, messages, fw>>

NoResume ==
    /\ ~MayResume /\ Step("resume", "wifi")
    /\ UNCHANGED <<files, flags, alarms, resuming, name, handle, before, piece, env,
                   messages, fw, spoiled>>

\* Mutant: it never gives up.
CountRetry_forever ==
    /\ retry_time' = 0 /\ file_retrying' = count
    /\ retry' = FALSE /\ alarm' = TRUE
    /\ UNCHANGED failed

\* No progress: wait for the retry timer, or give up.
CountRetry ==
    LET n == IF file_retrying = count THEN retry_time + 1 ELSE 0
    IN  \/ /\ n < Retries
           /\ retry_time' = n /\ file_retrying' = count
           /\ retry' = FALSE /\ alarm' = TRUE
           /\ UNCHANGED failed
        \/ /\ n >= Retries
           /\ retry_time' = 0 /\ file_retrying' = NoRetry
           /\ failed' = FALSE
           /\ UNCHANGED <<retry, alarm>>

AfterResume ==
    /\ Step("after", "wifi")
    /\ \/ before = count /\ CountRetry
       \/ before # count /\ UNCHANGED <<alarms, failed>>
    /\ UNCHANGED <<files, count, updated, resuming, name, handle, before, piece, env,
                   messages, fw, spoiled>>

retry_alarm_handler ==
    /\ alarm /\ alarm' = FALSE /\ retry' = TRUE
    /\ UNCHANGED <<files, flags, file_retrying, retry_time, thread, env, messages, fw, spoiled>>

\* With wifi there, data over a day old is replaced.
WifiTrigger ==
    /\ Step("wifi", "loop")
    /\ IF ~updated /\ ~failed /\ nw = "wifi" /\ mtk_epo_is_expired(TRUE)
       THEN updated' = TRUE /\ count' = 0 /\ epohal' = {}
       ELSE UNCHANGED <<updated, count, epohal>>
    /\ name' = 0 /\ before' = 0 /\ resuming' = FALSE         \* dead from here on
    /\ UNCHANGED <<epodat, failed, alarms, handle, piece, env, messages, fw, spoiled>>

EpoStep ==
    \/ BeginUpdate \/ NoUpdate \/ DownloadFails \/ Download \/ UnlinkOld \/ OpenHal
    \/ AppendPiece \/ DataChanged \/ PieceUnreadable \/ PieceGood \/ StoreCount \/ Finish
    \/ Resume \/ NoResume \/ AfterResume \/ WifiTrigger

-----------------------------------------------------------------------------
(* mtk_gps_start, as far as it is about EPO data, and the end of a session. *)

Interferes == spoiled' = (spoiled \/ Updating)
Fw(from, to) == fw = from /\ fw' = to

StartSession ==
    /\ fw = "idle" /\ ~started
    /\ starts < MaxStarts /\ starts' = starts + 1
    /\ \/ epohal = {} /\ epodat = {} /\ fw' = "request"
       \/ epohal = {} /\ epodat # {} /\ fw' = "age"
       \/ epohal # {} /\ ~(failed /\ nw = "wifi") /\ fw' = "halAge"
       \/ epohal # {} /\ failed /\ nw = "wifi" /\ fw' = "go"
    /\ UNCHANGED <<files, flags, alarms, thread, now, server, started, nw,
                   messages, spoiled>>

\* mtk_epo_is_expired resets the count.
CheckAge ==
    /\ fw \in {"age", "halAge"}
    /\ \/ /\ mtk_epo_is_expired(FALSE)
          /\ count' = 0
          /\ fw' = IF fw = "age" THEN "request" ELSE "unlink"
          /\ Interferes
          /\ UNCHANGED <<epodat, update>>
       \/ /\ ~mtk_epo_is_expired(FALSE)
          /\ fw' = "go"
          /\ update' = (update \/ fw = "halAge")
          /\ epodat' = IF fw = "halAge" THEN {} ELSE epodat
          /\ UNCHANGED <<count, spoiled>>
    /\ UNCHANGED <<epohal, updated, failed, alarms, thread, env, done>>

UnlinkExpired ==
    /\ Fw("unlink", "request")
    /\ epohal' = {} /\ handle' = FALSE
    /\ Interferes
    /\ UNCHANGED <<epodat, flags, alarms, pc, resuming, name, before, piece, env, messages>>

gps_download_epo ==
    /\ Fw("request", "go")
    /\ updated' = TRUE /\ count' = 0
    /\ Interferes
    /\ UNCHANGED <<files, failed, alarms, thread, env, messages>>

SessionBegins ==
    /\ Fw("go", "idle") /\ started' = TRUE
    /\ UNCHANGED <<files, flags, alarms, thread, now, server, nw, starts,
                   messages, spoiled>>

SessionEnds ==
    /\ fw = "idle" /\ started /\ started' = FALSE
    /\ UNCHANGED <<files, flags, alarms, thread, now, server, nw, starts,
                   messages, fw, spoiled>>

-----------------------------------------------------------------------------
(* mnld copies EPOHAL to EPO.DAT; HAL_CMD_UPDATE_EPO_FILE_DONE.            *)

MnldCopies ==
    /\ update /\ update' = FALSE
    /\ \/ epohal # {} /\ epodat' = epohal /\ done' = TRUE
       \/ UNCHANGED <<epodat, done>>
    /\ UNCHANGED <<epohal, flags, alarms, thread, env, fw, spoiled>>

UpdateDone ==
    /\ done /\ done' = FALSE
    /\ \/ ~failed /\ count = 0 /\ epohal' = {} /\ handle' = FALSE /\ Interferes
       \/ (failed \/ count # 0) /\ UNCHANGED <<epohal, handle, spoiled>>
    /\ UNCHANGED <<epodat, flags, alarms, pc, resuming, name, before, piece, env, update, fw>>

\* agps_ril_update_network_state, the clock and the server.  Bound: they
\* stand still once an update is spoiled.
NetworkChanges ==
    /\ ~spoiled
    /\ nw' \in {"none", "data", "wifi"} \ {nw}
    /\ UNCHANGED <<files, flags, alarms, thread, now, server, started, starts, messages,
                   fw, spoiled>>
DayPasses ==
    /\ ~spoiled /\ now < MaxDay /\ now' = now + 1
    /\ UNCHANGED <<files, flags, alarms, thread, server, started, nw, starts,
                   messages, fw, spoiled>>
NewEdition ==
    /\ ~spoiled /\ server < now /\ server' = now
    /\ UNCHANGED <<files, flags, alarms, thread, now, started, nw, starts,
                   messages, fw, spoiled>>

Next ==
    \/ EpoStep \/ retry_alarm_handler
    \/ StartSession \/ CheckAge \/ UnlinkExpired \/ gps_download_epo \/ SessionBegins
    \/ SessionEnds \/ MnldCopies \/ UpdateDone
    \/ NetworkChanges \/ DayPasses \/ NewEdition

Spec == Init /\ [][Next]_vars

\* Fairness: the EPO thread runs and its timer goes off.  The network and
\* the server promise nothing.
FairSpec == Spec /\ WF_vars(EpoStep) /\ WF_vars(retry_alarm_handler)

-----------------------------------------------------------------------------
(* Properties.                                                             *)

InOrder(d) ==
    /\ \A i \in DOMAIN d : d[i][2] = i - 1
    /\ \A i \in 1 .. Len(d) - 1 : Begin(d[i + 1]) - End(d[i]) < 1

Resting == {"loop", "resume", "after", "wifi"}
IsFile(f) ==
    f \subseteq Seq((Short .. MaxDay) \X Numbers) /\ \A d, e \in f : d = e

\* Type correctness.
TypeOK ==
    /\ now \in 1 .. MaxDay /\ server \in 1 .. now
    /\ count \in 0 .. Pieces /\ name \in Numbers
    /\ IsFile(epohal) /\ IsFile(epodat)
    /\ piece \in [Numbers -> Short .. MaxDay]
    /\ retry_time \in 0 .. Retries - 1
    /\ file_retrying \in Numbers \cup {NoRetry}
    /\ pc \in Resting \cup {"download", "unlink", "open", "write", "check", "store", "finish"}

\* Between two updates EPOHAL holds the pieces from the first on, in order
\* and without a day missing, whatever downloads failed, were resumed or
\* given up, and whatever the server changed on the way; unless another
\* thread interfered with an update.
PiecesInOrder ==
    ~spoiled /\ ~Updating /\ epohal # {} => InOrder(Data(epohal))

\* A download that is declared complete has all its pieces, and the next
\* piece fetched is the one EPOHAL lacks.
CountMatchesFile ==
    ~spoiled =>
        /\ pc = "finish" => epohal # {} /\ Len(Data(epohal)) = Pieces
        /\ pc = "loop" /\ count > 0 => epohal # {} /\ Len(Data(epohal)) = count

\* A failed download does not stay failed while there is wifi: it is resumed,
\* started again or, after the last retry, given up.
FailureEnds ==
    <>[](nw = "wifi") => [](failed => <>(~failed))

-----------------------------------------------------------------------------
(* The inductive invariant of PiecesInOrder and CountMatchesFile.           *)

\* All pieces are there only until the download is declared complete.
CountInRange == count = Pieces => pc = "finish"

\* mtk_gps_start removes an expired file only while there is no update, and then
\* nothing is counted.
UnlinkAlone == fw = "unlink" => count = 0 /\ ~Updating

\* The k-th piece of EPOHAL is the one in the file of that piece.
Kept(k) == k > 0 => piece[k - 1] > 0 /\ Data(epohal)[k] = <<piece[k - 1], k - 1>>

\* EPOHAL has so many pieces, of which the first k follow each other.
Holds(many, k) ==
    /\ epohal # {} /\ Len(Data(epohal)) = many
    /\ \A i \in DOMAIN Data(epohal) : Data(epohal)[i][2] = i - 1
    /\ \A i \in 1 .. k - 1 : Begin(Data(epohal)[i + 1]) - End(Data(epohal)[i]) < 1

\* The file from the first byte of a piece to the count.
UpdateSound ==
    /\ pc \in {"download", "unlink", "open", "write", "check", "store"} => name = count
    /\ pc \in {"unlink", "open", "write", "check", "store"} => piece[name] > 0
    /\ pc \in Resting \cup {"download", "unlink", "open"} =>
         /\ epohal # {} => InOrder(Data(epohal))
         /\ count > 0 => Holds(count, count) /\ Kept(count)
    /\ pc = "open" /\ count = 0 => epohal = {}
    /\ pc = "write" => handle /\ Holds(count, count) /\ Kept(count)
    /\ pc = "check" => Holds(count + 1, count) /\ Kept(count) /\ Kept(count + 1)
    /\ pc = "store" => Holds(count + 1, count + 1) /\ Kept(count + 1)
    /\ pc = "finish" => Holds(Pieces, Pieces)

\* EPOHAL is open only between fopen and fwrite, and then it has its name.
HandleSound == handle => pc = "write" /\ epohal # {}

EpoInv ==
    /\ TypeOK /\ CountInRange /\ HandleSound
    /\ ~spoiled => UnlinkAlone /\ UpdateSound
=============================================================================
