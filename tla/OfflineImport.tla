----------------------------- MODULE OfflineImport -----------------------------
(***************************************************************************)
(* An offline import, on its own thread, against the state it borrows from *)
(* the rest of the program: the one sqlite connection (a transaction on it *)
(* belongs to whoever commits next), the indexes it drops for the time of  *)
(* the import, the bulk transaction of the DuckDB store, and               *)
(* detector.learning_until, which it saves, clears and puts back.  What it  *)
(* stores it gets from the native parser or, where that does not start,    *)
(* from Scapy.  A record of a file is "ip" (TCP, UDP or ICMP), "other" or   *)
(* "bad" (corrupt, or cut off after its header).                           *)
(***************************************************************************)
EXTENDS Integers, SequencesExt, FiniteSetsExt

CONSTANTS
  DeferIndexes, (* offline_defer_secondary_indexes: TRUE in the code         *)
  Interval,   (* commit interval in batches (16 or 64 in the code)           *)
  BatchSize,  (* packets in a batch: 512 to 8192 in the code                 *)
  Files,      (* what may be imported: [format, records]                     *)
  MaxImports, (* bound on the imports                                        *)
  MaxLearns,  (* bound on the learning windows the operator opens            *)
  MaxWrites   (* bound on the operations of the live worker or the UI that   *)
              (* write to the database                                       *)

ASSUME ImportAssumption ==
  /\ DeferIndexes \in BOOLEAN
  /\ Interval \in Nat \ {0}
  /\ BatchSize \in Nat \ {0}
  /\ \A f \in Files : /\ f.format \in {"pcap", "pcapng"}
                       /\ f.records \in Seq({"ip", "other", "bad"})
  /\ MaxImports \in Nat /\ MaxLearns \in Nat /\ MaxWrites \in Nat

VARIABLES
  duck,      (* the DuckDB store is in use, fixed at the start of the program *)
  at,        (* the statement the import thread is at; "idle": no thread      *)
  profile,   (* the import mode: only balanced runs the detector              *)
  imports,   (* imports started                                               *)
  file,      (* the file                                                      *)
  parser,    (* who reads it                                                  *)
  pos,       (* the next record it reads                                      *)
  batch,     (* the records, by number, of the batch it gathers or delivers   *)
  stored,    (* the records stored as packets                                 *)
  frames,    (* the records stored as frames                                  *)
  reader,    (* the reader of frames: the first, or the second if that failed *)
  outcome,   (* how the last import ended                                     *)
  running,   (* offline_progress["running"]                                   *)
  bulkOpen,  (* _offline_write_transaction_open                               *)
  since,     (* _offline_write_batches_since_commit                           *)
  suspended, (* _offline_indexes_suspended                                    *)
  indexes,   (* the kinds of sqlite indexes of which none is missing          *)
  duckBulk,  (* OfflinePacketStore._in_bulk, and its transaction              *)
  inTx,      (* the sqlite connection has a transaction open                  *)
  unsaved,   (* it holds rows of the import                                   *)
  other,     (* another thread is between a statement and its commit          *)
  writes,    (* such operations so far                                        *)
  disturbed, (* history: another thread wrote, or something failed, since the *)
             (* import started                                                *)
  learning,  (* learning_until: 0, or the window (later windows end later)    *)
  backup,    (* learning_until_backup                                         *)
  over,      (* windows up to this one have ended                             *)
  learns,    (* windows opened so far                                         *)
  found,     (* history: learning_until when the import started               *)
  touched,   (* history: the operator has set learning_until since            *)
  halted     (* history: capture was stopped and no window opened since       *)

reading == <<file, parser, pos, batch, stored, frames, reader>>
import == <<duck, at, profile, imports, reading, outcome, running>>
mode == <<bulkOpen, since, suspended, indexes, duckBulk>>
others == <<other, writes, disturbed>>
conn == <<inTx, unsaved, others>>
learn == <<learning, backup, over, learns, found, touched, halted>>
vars == <<import, mode, conn, learn>>

\* get_offline_import_profile knows two modes; both store the packets
Profile == {"extreme", "balanced"}
Detects == profile = "balanced"

\* Of the ten indexes an import drops, three order pages ("paging"), and seven are there
\* for the conditions on addresses, ports, protocols and processes ("filter").
IndexKind == {"paging", "filter"}

\* Those that resume_offline_import_indexes makes again
Resumed == IF DeferIndexes THEN {"paging"} ELSE IndexKind

\* _offline_sqlite_write_enabled
SqliteWrites == Detects \/ ~duck
InLearning == learning > over

Init ==
  /\ duck \in BOOLEAN
  /\ at = "idle" /\ profile \in Profile /\ imports = 0
  /\ file \in Files /\ parser = "none" /\ pos = 1 /\ batch = <<>>
  /\ stored = <<>> /\ frames = <<>> /\ reader = 1
  /\ outcome = "none" /\ running = FALSE
  /\ bulkOpen = FALSE /\ since = 0
  /\ suspended = FALSE /\ indexes = IndexKind /\ duckBulk = FALSE
  /\ inTx = FALSE /\ unsaved = FALSE
  /\ other = FALSE /\ writes = 0 /\ disturbed = FALSE
  /\ learning = 0 /\ backup = 0 /\ over = 0 /\ learns = 0
  /\ found = 0 /\ touched = FALSE /\ halted = TRUE

Goes(to) ==
  /\ at' = to
  /\ UNCHANGED <<duck, profile, imports, reading, outcome, running>>

Committed == inTx' = FALSE /\ unsaved' = FALSE

-------------------------------------------------------------------------------
(* Before the try of import_offline_pcap: what raises here is not cleaned up. *)

Start ==
  /\ at = "idle"
  /\ imports < MaxImports
  /\ at' = "clear"
  /\ profile' \in Profile
  /\ imports' = imports + 1
  /\ file' \in Files
  /\ outcome' = "none"
  /\ found' = learning
  /\ touched' = FALSE
  /\ disturbed' = other
  /\ UNCHANGED <<duck, running, parser, pos, batch, stored, frames, reader, mode, inTx,
                 unsaved, other, writes, learning, backup, over, learns, halted>>

Disturb ==
  /\ disturbed' = TRUE
  /\ UNCHANGED <<other, writes>>

GivesUp ==
  /\ at' = "idle"
  /\ outcome' = "not begun"
  /\ Disturb
  /\ UNCHANGED <<duck, profile, imports, reading, running>>

\* clear_offline_analysis_data; its statements commit at once.
ClearData ==
  /\ at = "clear"
  /\ IF Detects \/ ~duck THEN Committed ELSE UNCHANGED <<inTx, unsaved>>
  /\ at' = "bulk"
  /\ stored' = <<>> /\ frames' = <<>>
  /\ UNCHANGED <<duck, profile, imports, file, parser, pos, batch, reader, outcome, running,
                 mode, others, learn>>

\* The head of _begin_offline_write_mode, then begin_bulk
BeginBulk ==
  /\ at = "bulk"
  /\ since' = 0
  /\ duckBulk' = (duck \/ duckBulk)
  /\ Goes(IF SqliteWrites THEN "suspend" ELSE "prepare")
  /\ suspended' = (suspended /\ SqliteWrites)
  /\ bulkOpen' = (bulkOpen /\ SqliteWrites)
  /\ UNCHANGED <<indexes, conn, learn>>

\* suspend_offline_import_indexes ends with a commit
Suspend ==
  /\ at = "suspend"
  /\ indexes' = {}
  /\ suspended' = TRUE
  /\ Committed
  /\ Goes("begin")
  /\ UNCHANGED <<bulkOpen, since, duckBulk, others, learn>>

\* The database is locked: some indexes are gone, a paging one first, and the flag is
\* not set.
SuspendRaises ==
  /\ at = "suspend"
  /\ indexes' \in {indexes, indexes \ {"paging"}, {}}
  /\ GivesUp
  /\ UNCHANGED <<bulkOpen, since, suspended, duckBulk, inTx, unsaved, learn>>

\* BEGIN IMMEDIATE fails inside a transaction; then each batch commits itself.
BeginImmediate ==
  /\ at = "begin"
  /\ bulkOpen' = ~inTx
  /\ inTx' = TRUE
  /\ Goes("prepare")
  /\ UNCHANGED <<since, suspended, indexes, duckBulk, unsaved, others, learn>>

\* Mutant of Prepare: learning_until is cleared before it is saved.
PrepareSwapped ==
  /\ at = "prepare"
  /\ learning' = IF InLearning THEN 0 ELSE learning
  /\ backup' = learning'
  /\ running' = TRUE
  /\ at' = IF duck THEN "frames" ELSE "open"
  /\ pos' = 1 /\ reader' = 1 /\ parser' = "none" /\ batch' = <<>>
  /\ UNCHANGED <<duck, profile, imports, file, stored, frames, outcome, mode, conn, over,
                 learns, found, touched, halted>>

\* learning_until is saved, and cleared while a window is open
Prepare ==
  /\ at = "prepare"
  /\ backup' = learning
  /\ learning' = IF InLearning THEN 0 ELSE learning
  /\ running' = TRUE
  /\ at' = IF duck THEN "frames" ELSE "open"
  /\ pos' = 1 /\ reader' = 1 /\ parser' = "none" /\ batch' = <<>>
  /\ UNCHANGED <<duck, profile, imports, file, stored, frames, outcome, mode, conn, over,
                 learns, found, touched, halted>>

-------------------------------------------------------------------------------
(* The body of the try *)

Records == DOMAIN file.records
Kind(i) == file.records[i]
FirstBad == SelectInSeq(file.records, LAMBDA k : k = "bad")
Readable == 1 .. IF FirstBad = 0 THEN Len(file.records) ELSE FirstBad - 1

\* Frames are stored in batches; what raises before one is full takes it along.
FullBatches(all) == SubSeq(all, 1, Len(all) - (Len(all) % BatchSize))

\* _import_offline_generic_frames; nothing else looks at the frames meanwhile.
\* A bad record ends a reader or makes it raise: the second reader then begins anew,
\* if it can read the file at all, and what it raises is swallowed.
ImportFrames ==
  /\ at = "frames"
  /\ LET all == frames \o [i \in Readable |-> i]
     IN  \/ frames' = all /\ at' = "open" /\ reader' = reader
         \/ FirstBad # 0 /\ reader = 1 /\ frames' = all /\ reader' = 2 /\ at' = at
         \/ /\ FirstBad # 0 /\ reader = 2
            /\ frames' \in {FullBatches(all), FullBatches(frames)}
            /\ at' = "open" /\ reader' = reader
  /\ UNCHANGED <<duck, profile, imports, file, parser, pos, batch, stored, outcome, running,
                 mode, conn, learn>>

\* iter_offline_batches: a native parser that is not there, or cannot begin, is
\* replaced by Scapy.
OpenParser ==
  /\ at = "open"
  /\ parser' \in {"native", "scapy"}
  /\ at' = "read"
  /\ UNCHANGED <<duck, profile, imports, file, pos, batch, stored, frames, reader, outcome,
                 running, mode, conn, learn>>

\* The native parser takes a frame of a pcap file that is not IP for its end, where
\* in a pcapng file it goes on to the next one, as Scapy does in both.
EndsBatch(i) ==
  \/ Kind(i) = "bad"
  \/ Kind(i) = "other" /\ parser = "native" /\ file.format = "pcap"

\* parse_by_linktype and build_row: TCP, UDP and ICMP over IP become packets.
IsPacket(i) == Kind(i) = "ip"

Left == pos <= Len(file.records)
MeetsBad == Left /\ Kind(pos) = "bad"

\* A batch is delivered when it is full.
ReadRecord ==
  /\ at = "read"
  /\ Left /\ ~EndsBatch(pos)
  /\ batch' = IF IsPacket(pos) THEN Append(batch, pos) ELSE batch
  /\ pos' = pos + 1
  /\ at' = IF Len(batch') = BatchSize THEN "store" ELSE at
  /\ UNCHANGED <<duck, profile, imports, file, parser, stored, frames, reader, outcome,
                 running, mode, conn, learn>>

\* What ends a batch delivers it, and an empty one is the end of the file.  To Scapy a
\* bad record may be the end of the file.
EndBatch ==
  /\ at = "read"
  /\ Left => EndsBatch(pos)
  /\ MeetsBad => parser = "scapy"
  /\ pos' = IF MeetsBad THEN Len(file.records) + 1 ELSE IF Left THEN pos + 1 ELSE pos
  /\ at' = IF batch = <<>> THEN "drain" ELSE "store"
  /\ UNCHANGED <<duck, profile, imports, file, parser, batch, stored, frames, reader, outcome,
                 running, mode, conn, learn>>

\* What the batch, or the rest, writes to sqlite: packets when there is no
\* DuckDB, alerts if the detector finds any.
Writes(any) ==
  IF ~any THEN UNCHANGED <<inTx, unsaved>>
  ELSE IF bulkOpen THEN inTx' = TRUE /\ unsaved' = TRUE
  ELSE Committed

\* _process_offline_batch up to its flush
StoreBatch ==
  /\ at = "store"
  /\ \E alerts \in {FALSE, Detects} : Writes(alerts \/ ~duck)
  /\ stored' = stored \o batch
  /\ batch' = <<>>
  /\ at' = IF bulkOpen THEN "flush" ELSE "read"
  /\ UNCHANGED <<duck, profile, imports, file, parser, pos, frames, reader, outcome, running,
                 mode, others, learn>>

\* Mutant of Flush: there is no commit.
FlushNothing ==
  /\ at = "flush"
  /\ since' = (since + 1) % Interval
  /\ Goes(IF since' = 0 THEN "reopen" ELSE "read")
  /\ UNCHANGED <<bulkOpen, suspended, indexes, duckBulk, conn, learn>>

\* _flush_offline_write_if_needed: the commit, then BEGIN IMMEDIATE again
Flush ==
  /\ at = "flush"
  /\ IF since + 1 < Interval
     THEN /\ since' = since + 1
          /\ Goes("read")
          /\ UNCHANGED <<inTx, unsaved>>
     ELSE /\ since' = 0
          /\ Committed
          /\ Goes("reopen")
  /\ UNCHANGED <<bulkOpen, suspended, indexes, duckBulk, others, learn>>

Fails(why) ==
  /\ at' = "commit"
  /\ outcome' = why
  /\ UNCHANGED <<duck, profile, imports, reading, running>>

\* Mutant of Reopen: wait until the other thread has committed.
ReopenWaits ==
  /\ at = "reopen"
  /\ Goes(IF inTx THEN "reopen" ELSE "read")
  /\ inTx' = TRUE
  /\ UNCHANGED <<mode, unsaved, others, learn>>

\* Another thread may have opened a transaction since the commit: nothing
\* catches this error.
Reopen ==
  /\ at = "reopen"
  /\ IF inTx THEN Fails("conflict") ELSE Goes("read")
  /\ inTx' = TRUE
  /\ UNCHANGED <<mode, unsaved, others, learn>>

\* Mutant of ParserRaises: whatever the native parser raises, Scapy takes over.
ParserReplaced ==
  /\ at = "read" /\ MeetsBad
  /\ parser' = "scapy" /\ pos' = 1 /\ batch' = <<>>
  /\ UNCHANGED <<duck, at, profile, imports, file, stored, frames, reader, outcome, running,
                 mode, inTx, unsaved, learn>>
  /\ Disturb

\* Only what keeps the native parser from beginning is an OfflineParserError: here
\* nothing takes its place, and the batch it gathers is lost.
ParserRaises ==
  /\ at = "read" /\ MeetsBad
  /\ Fails("error")
  /\ Disturb
  /\ UNCHANGED <<mode, inTx, unsaved, learn>>

\* A file that cannot be read at all, a store that fails, or an error of the
\* processing after part of its writes
BodyRaises ==
  /\ at \in {"frames", "open", "store", "drain"}
  /\ \E part \in {FALSE, SqliteWrites /\ (at \in {"store", "drain"})} :
       IF part THEN inTx' = TRUE /\ unsaved' = TRUE ELSE UNCHANGED <<inTx, unsaved>>
  /\ Fails("error")
  /\ Disturb
  /\ UNCHANGED <<mode, learn>>

Drain ==
  /\ at = "drain"
  /\ \E alerts \in {FALSE, Detects} : Writes(alerts)
  /\ at' = "commit"
  /\ outcome' = "ok"
  /\ UNCHANGED <<duck, profile, imports, reading, running, mode, others, learn>>

-------------------------------------------------------------------------------
(* The finally of import_offline_pcap: _end_offline_write_mode, in four steps *)

CommitRest ==
  /\ at = "commit"
  /\ IF bulkOpen THEN since' = 0 /\ Committed
                 ELSE UNCHANGED <<since, inTx, unsaved>>
  /\ bulkOpen' = FALSE
  /\ Goes("resume")
  /\ UNCHANGED <<suspended, indexes, duckBulk, others, learn>>

\* Mutant of Resume: the flag is cleared and the indexes are not made again.
ResumeFlagOnly ==
  /\ at = "resume"
  /\ suspended' = FALSE
  /\ Goes("end_bulk")
  /\ UNCHANGED <<bulkOpen, since, indexes, duckBulk, conn, learn>>

\* resume_offline_import_indexes commits
Resume ==
  /\ at = "resume"
  /\ IF suspended THEN indexes' = indexes \cup Resumed /\ Committed
                  ELSE UNCHANGED <<indexes, inTx, unsaved>>
  /\ suspended' = FALSE
  /\ Goes("end_bulk")
  /\ UNCHANGED <<bulkOpen, since, duckBulk, others, learn>>

\* The database is locked: the rest of the finally is skipped.
ResumeRaises ==
  /\ at = "resume" /\ suspended
  /\ \E some \in SUBSET Resumed : indexes' = indexes \cup some
  /\ at' = "idle"
  /\ outcome' = "not ended"
  /\ Disturb
  /\ UNCHANGED <<duck, profile, imports, reading, running, bulkOpen, since, suspended,
                 duckBulk, inTx, unsaved, learn>>

EndBulk ==
  /\ at = "end_bulk"
  /\ duckBulk' = FALSE
  /\ Goes("restore")
  /\ UNCHANGED <<bulkOpen, since, suspended, indexes, conn, learn>>

Restore ==
  /\ at = "restore"
  /\ learning' = backup
  /\ running' = FALSE
  /\ at' = "idle"
  /\ UNCHANGED <<duck, profile, imports, reading, outcome, mode, conn, backup, over, learns,
                 found, touched, halted>>

-------------------------------------------------------------------------------
(* The other threads *)

OtherWrites ==
  /\ ~other /\ writes < MaxWrites
  /\ other' = TRUE
  /\ writes' = writes + 1
  /\ disturbed' = TRUE
  /\ inTx' = TRUE
  /\ UNCHANGED <<import, mode, unsaved, learn>>

OtherCommits ==
  /\ other
  /\ other' = FALSE
  /\ Committed
  /\ UNCHANGED <<import, mode, writes, disturbed, learn>>

\* AppRuntime.start_learning
StartLearning ==
  /\ learns < MaxLearns
  /\ learns' = learns + 1
  /\ learning' = learns'
  /\ touched' = TRUE
  /\ halted' = FALSE
  /\ UNCHANGED <<import, mode, conn, backup, over, found>>

\* The last statement of AppRuntime.stop_capture
StopCapture ==
  /\ learning' = 0
  /\ touched' = TRUE
  /\ halted' = TRUE
  /\ UNCHANGED <<import, mode, conn, backup, over, learns, found>>

WindowEnds ==
  /\ over < learns
  /\ over' = over + 1
  /\ UNCHANGED <<import, mode, conn, learning, backup, learns, found, touched, halted>>

-------------------------------------------------------------------------------
Begins == ClearData \/ BeginBulk \/ Suspend \/ SuspendRaises \/ BeginImmediate \/ Prepare
Body == \/ ImportFrames \/ OpenParser \/ ReadRecord \/ EndBatch \/ ParserRaises
        \/ StoreBatch \/ Flush \/ Reopen \/ BodyRaises \/ Drain
Ends == CommitRest \/ Resume \/ ResumeRaises \/ EndBulk \/ Restore
Import == Begins \/ Body \/ Ends
Elsewhere == OtherWrites \/ OtherCommits \/ StartLearning \/ StopCapture \/ WindowEnds

Next == Start \/ Import \/ Elsewhere

\* The import thread goes on while it has a statement left.
Spec == Init /\ [][Next]_vars /\ WF_vars(Import)

-------------------------------------------------------------------------------
(* Properties *)

\* An import that reports success has everything it wrote on disk, and has
\* given back the DuckDB transaction, the progress flag and those indexes that its
\* configuration does not put off; so it also repairs what an earlier import that failed
\* to begin or to end left over (indexes and rows only if its own mode writes to sqlite).
SuccessLeavesAtRest ==
  at = "idle" /\ outcome = "ok" =>
    /\ ~bulkOpen /\ ~duckBulk /\ ~suspended /\ ~running
    /\ SqliteWrites => Resumed \subseteq indexes /\ ~unsaved

\* Once an import is over, however its body ended, the learning window is the
\* one it found, unless the operator has set it meanwhile.
LearningRestored ==
  at = "idle" /\ outcome \in {"ok", "conflict", "error"} /\ ~touched => learning = found

\* An import thread ends, whatever it meets.
ImportEnds == (at # "idle") ~> (at = "idle")

\* An import that no other writer and no fault disturbed succeeds, however long
\* its file is and whatever imports before it left behind.
AloneSucceeds == at = "idle" /\ ~disturbed => outcome \in {"none", "ok"}

Packets == {i \in Records : Kind(i) = "ip"}
Ascends(s) == \A i, j \in DOMAIN s : i < j => s[i] < s[j]

\* A successful import has stored the packets of its file in their order, none
\* twice, and none left out of a file without bad records, but for a pcap file with
\* other frames that the native parser has read; and each frame of such a file once.
StoredOnce ==
  at = "idle" /\ outcome = "ok" =>
    /\ Ascends(stored)
    /\ \E n \in 1 .. Len(file.records) + 1 : Range(stored) = {i \in Packets : i < n}
    /\ (\A i \in Records : ~EndsBatch(i)) => Range(stored) = Packets
    /\ FirstBad = 0 /\ duck => frames = [i \in Records |-> i]

\* What the README says of imports, that PCAP and PCAPNG files of any size are
\* parsed: a successful import of a sound file has stored all of its packets.
WholeFileStored == at = "idle" /\ outcome = "ok" /\ FirstBad = 0 => Range(stored) = Packets

\* What stop_capture says of itself: it stops the learning mode, so no window is
\* open once capture was stopped until the operator opens one again.
StopEndsLearning == halted => ~InLearning
===============================================================================
