----------------------------- MODULE NmeaReader -----------------------------
(***************************************************************************)
(* The NMEA reader of gps_mtk_aosp.c in the multi-constellation mode       *)
(* (gps_mode == 0): lines are gathered, each sentence changes the reader,  *)
(* and the fix and the satellites in view are reported with the last       *)
(* sentence of a read (gps_nmea_end_tag).                                  *)
(*                                                                         *)
(* mnld writes one epoch after the other, each with the sentences of Epoch *)
(* in that order.  A line may be too long for the buffer or too short to   *)
(* be a sentence, and a read may end within an epoch.  A satellite's entry *)
(* and a position are tagged with the epoch they were sent in, each epoch  *)
(* is on a day of its own, and one GSV sentence holds one satellite.       *)
(***************************************************************************)
EXTENDS Integers, Sequences

CONSTANTS
    GNSS_MAX_SVS,   \* entries of gnss_sv_list
    MaxEpochs,      \* bound: epochs sent
    MaxUpsets       \* bound: lines damaged, reads that end early

\* Two GPS satellites and one of Beidou, whose numbers get 200 added.
InView == {1, 2, 201}
Gsv(seq, num, cnt, sv) == [type |-> "GSV", seq |-> seq, num |-> num, cnt |-> cnt, sv |-> sv]
Epoch ==
    << [type |-> "GGA"], [type |-> "GSA", svs |-> {1, 2}], [type |-> "GSA", svs |-> {201}],
       Gsv(1, 2, 2, 1), Gsv(2, 2, 2, 2), Gsv(1, 1, 1, 201),
       [type |-> "RMC"] >>

VARIABLES
    n, at,          \* the epoch being sent and its next sentence
    fixed, used,    \* what this epoch says: a fix, the satellites it uses
    overflow,       \* r->overflow
    r,              \* the reader, and sv_used_in_fix
    reported,       \* what this epoch reported: fixes, lists of satellites
    upsets,
    clean           \* no upset since the last report

vars == <<n, at, fixed, used, overflow, r, reported, upsets, clean>>

Slots == 0 .. GNSS_MAX_SVS - 1
Nothing == [sv |-> 0, epoch |-> 0, used |-> FALSE]
NoReport == [fixes |-> <<>>, views |-> <<>>]

\* nmea_reader_init.
NewReader ==
    [fix_mode |-> FALSE, flags |-> FALSE, position |-> 0, day |-> 0, time |-> <<0, 0>>,
     sv_used_in_fix |-> {}, sv_count |-> 0, num_svs |-> 0,
     sv_list |-> [i \in Slots |-> Nothing]]

Init ==
    /\ n = 1 /\ at = 1 /\ fixed \in BOOLEAN /\ used \in {{}, {1}, {2, 201}}
    /\ overflow = FALSE /\ r = NewReader
    /\ reported = NoReport /\ upsets = 0 /\ clean = TRUE

-----------------------------------------------------------------------------
(* nmea_reader_parse: what one sentence does to the reader.                *)

\* GGA: the time, on the last known day, and the position unless empty.
GGA ==
    [r EXCEPT !.time = <<r.day, n>>,
              !.position = IF fixed THEN n ELSE @,
              !.flags = @ \/ fixed]

\* RMC with status A brings the date too, and with it the time again.
RMC ==
    IF ~fixed THEN r
    ELSE [r EXCEPT !.day = n, !.time = <<n, n>>, !.position = n, !.flags = TRUE]

\* GSA: the fix mode, and with a fix the satellites it uses.
GSA(svs) ==
    [r EXCEPT !.fix_mode = fixed,
              !.sv_used_in_fix = IF fixed THEN @ \cup (svs \cap used) ELSE @]

\* nmea_reader_update_sv_status_gnss: behind the sets before and what there
\* is of this one, if there is room.
Entry(sv) == [sv |-> sv, epoch |-> n, used |-> sv \in r.sv_used_in_fix]

Stored(count, sv) ==
    IF count + r.num_svs < GNSS_MAX_SVS
    THEN [r EXCEPT !.sv_list[count + r.num_svs] = Entry(sv), !.sv_count = count + 1]
    ELSE [r EXCEPT !.sv_count = count]

\* GSV: the first sentence of a set starts the count ...
FirstOfSet(s) == IF s.seq = 1 THEN 0 ELSE r.sv_count

\* ... and the last one adds it up, unless there are more than announced.
GSV(s) ==
    LET t == Stored(FirstOfSet(s), s.sv)
    IN  IF s.seq # s.num THEN t
        ELSE IF t.sv_count <= s.cnt THEN [t EXCEPT !.num_svs = @ + t.sv_count]
        ELSE [t EXCEPT !.sv_count = 0, !.num_svs = 0]

Sentence(s) ==
    CASE s.type = "GGA" -> GGA
      [] s.type = "RMC" -> RMC
      [] s.type = "GSA" -> GSA(s.svs)
      [] s.type = "GSV" -> GSV(s)

-----------------------------------------------------------------------------
(* With the end tag the reader reports and forgets what it has reported.   *)

HasFix(t, tag) == tag /\ t.fix_mode /\ t.flags
HasView(t, tag) == tag /\ t.num_svs # 0

\* Mutant: the satellites used stay noted.
Forget_used(t, tag) ==
    [t EXCEPT !.flags = @ /\ ~HasFix(t, tag),
              !.sv_count = IF HasView(t, tag) THEN 0 ELSE @,
              !.num_svs = IF HasView(t, tag) THEN 0 ELSE @]

Forget(t, tag) ==
    [t EXCEPT !.flags = @ /\ ~HasFix(t, tag),
              !.sv_count = IF HasView(t, tag) THEN 0 ELSE @,
              !.num_svs = IF HasView(t, tag) THEN 0 ELSE @,
              !.sv_used_in_fix = IF HasView(t, tag) THEN {} ELSE @]

View(t) == [i \in 1 .. t.num_svs |-> IF i <= GNSS_MAX_SVS THEN t.sv_list[i - 1] ELSE Nothing]
Report(t, tag) ==
    [fixes |-> IF HasFix(t, tag) THEN Append(reported.fixes, <<t.position, t.time>>)
               ELSE reported.fixes,
     views |-> IF HasView(t, tag) THEN Append(reported.views, [at |-> at, svs |-> View(t)])
               ELSE reported.views]

-----------------------------------------------------------------------------
(* nmea_reader_addc: a line.                                               *)

Last == at = Len(Epoch)
Ahead == at' = at + 1 /\ UNCHANGED <<n, fixed, used>>
Upset == upsets < MaxUpsets /\ upsets' = upsets + 1 /\ clean' = FALSE

\* A line that fits is parsed, with the end tag if the read ends with it.
Line(tag) ==
    /\ at <= Len(Epoch) /\ ~overflow
    /\ IF tag = Last THEN UNCHANGED <<upsets, clean>> ELSE Upset
    /\ LET t == Sentence(Epoch[at])
       IN  /\ r' = Forget(t, tag)
           /\ reported' = Report(t, tag)
    /\ Ahead
    /\ UNCHANGED overflow

\* A line that does not fit is dropped up to its newline; when the newline
\* itself finds the buffer full, the next line is dropped as well.
LongLine ==
    /\ at <= Len(Epoch) /\ ~overflow
    /\ Upset
    /\ overflow' \in BOOLEAN
    /\ Ahead
    /\ UNCHANGED <<r, reported>>

SkippedLine ==
    /\ at <= Len(Epoch) /\ overflow
    /\ overflow' = FALSE /\ clean' = FALSE
    /\ Ahead
    /\ UNCHANGED <<r, reported, upsets>>

\* "Too short. discarded."
ShortLine ==
    /\ at <= Len(Epoch) /\ ~overflow
    /\ Upset
    /\ Ahead
    /\ UNCHANGED <<overflow, r, reported>>

\* The next epoch.  When the satellites were reported with the last sentence
\* of this one, nothing that was upset before should matter any more.
NextEpoch ==
    /\ at > Len(Epoch) /\ n < MaxEpochs
    /\ n' = n + 1 /\ at' = 1
    /\ fixed' \in BOOLEAN /\ used' \in {{}, {1}, {2, 201}}
    /\ clean' = (~overflow /\ \E i \in DOMAIN reported.views : reported.views[i].at = Len(Epoch))
    /\ reported' = NoReport
    /\ UNCHANGED <<overflow, r, upsets>>

\* CMD_START: nmea_reader_set_callback.
SetCallback ==
    /\ at = 1
    /\ r' = [r EXCEPT !.flags = FALSE, !.sv_count = 0, !.num_svs = 0]
    /\ UNCHANGED <<n, at, fixed, used, overflow, reported, upsets, clean>>

Next ==
    \/ \E tag \in BOOLEAN : Line(tag)
    \/ LongLine \/ SkippedLine \/ ShortLine \/ NextEpoch \/ SetCallback

Spec == Init /\ [][Next]_vars

-----------------------------------------------------------------------------
(* Properties.                                                             *)

Days == 0 .. MaxEpochs
EntryType == [sv : InView \cup {0}, epoch : Days, used : BOOLEAN]
ReaderType ==
    [fix_mode : BOOLEAN, flags : BOOLEAN, position : Days, day : Days, time : Days \X Days,
     sv_used_in_fix : SUBSET InView, sv_count : 0 .. GNSS_MAX_SVS, num_svs : Nat,
     sv_list : [Slots -> EntryType]]
ReportType ==
    [fixes : Seq(Days \X (Days \X Days)), views : Seq([at : 1 .. Len(Epoch), svs : Seq(EntryType)])]

\* Type correctness: what is written to sv_list is within it.
TypeOK ==
    /\ n \in 1 .. MaxEpochs /\ at \in 1 .. Len(Epoch) + 1
    /\ fixed \in BOOLEAN /\ used \subseteq InView /\ overflow \in BOOLEAN
    /\ r \in ReaderType /\ reported \in ReportType
    /\ clean \in BOOLEAN

Done == clean /\ at > Len(Epoch)

\* An epoch that arrives whole is reported once, with every satellite in
\* view once and marked as the fix uses it, whatever was lost before the
\* last report.
ViewIsExact ==
    Done => /\ Len(reported.views) = 1
            /\ LET v == reported.views[1].svs
               IN  /\ Len(v) = 3
                   /\ {v[i] : i \in 1 .. 3} =
                        {[sv |-> s, epoch |-> n, used |-> fixed /\ s \in used] : s \in InView}

\* ... and its fix once, with its own position, time and date, although GGA
\* knows the day before only; without a fix nothing is reported.
FixIsExact ==
    Done => reported.fixes = IF fixed THEN << <<n, <<n, n>>>> >> ELSE <<>>

-----------------------------------------------------------------------------
(* The inductive invariant of ViewIsExact and FixIsExact.                   *)

\* Satellites are reported with the sentence they were reported with, and then none
\* is left, nor one noted as used.
Cleared == r.num_svs = 0 /\ r.sv_used_in_fix = {}
ReportClears ==
    \A i \in DOMAIN reported.views :
        reported.views[i].at < at /\ (reported.views[i].at = Len(Epoch) => Cleared)

\* What a clean epoch has brought when its sentence k is next.
Here(sv) == [sv |-> sv, epoch |-> n, used |-> fixed /\ sv \in used]
Known(svs) == r.sv_used_in_fix = IF fixed THEN svs \cap used ELSE {}
Gathered(k) ==
    /\ ~overflow /\ reported = NoReport
    /\ k = 1 => Cleared
    /\ k > 1 /\ fixed => r.position = n /\ r.flags
    /\ k > 2 => r.fix_mode = fixed
    /\ k = 2 => Cleared
    /\ k = 3 => Known({1, 2}) /\ r.num_svs = 0
    /\ k > 3 => Known(InView)
    /\ k \in {4, 5} => r.num_svs = 0
    /\ k = 5 => r.sv_count = 1
    /\ k \in {5, 6, 7} => r.sv_list[0] = Here(1)
    /\ k \in {6, 7} => r.sv_list[1] = Here(2)
    /\ k = 6 => r.num_svs = 2
    /\ k = 7 => r.sv_list[2] = Here(201) /\ r.num_svs = 3

NmeaInv ==
    /\ TypeOK /\ ReportClears
    /\ clean /\ at <= Len(Epoch) => Gathered(at)
    /\ ViewIsExact /\ FixIsExact
=============================================================================
