-------------------------- MODULE OfflineImportProofs -------------------------
(***************************************************************************)
(* Proofs about OfflineImport: for any files, commit interval and number   *)
(* of imports, an import gives back what it borrows, and one that succeeds *)
(* has stored the packets of its file once and in order.  The invariants   *)
(* follow the import thread from statement to statement, past every place  *)
(* where it may raise.                                                     *)
(***************************************************************************)
EXTENDS OfflineImport, TLAPS

\* The statements before learning_until is saved, those of the try, and those of the
\* finally
Before == {"clear", "bulk", "suspend", "begin", "prepare"}
Try == {"frames", "open", "read", "store", "flush", "reopen", "drain"}
Finally == {"commit", "resume", "end_bulk", "restore"}

\* learning_until is where the import found it, or in the backup.
LearnInv ==
  ~touched =>
    /\ at \in Before => learning = found
    /\ at \in Try \cup Finally => backup = found
    /\ at = "idle" /\ outcome \in {"ok", "conflict", "error"} => learning = found

\* An import that writes to sqlite has the indexes suspended until it resumes them, which
\* commits; another has reset the flags that an earlier one may have left behind.
BorrowInv ==
  /\ at \in {"suspend", "begin"} => SqliteWrites
  /\ at = "begin" => suspended
  /\ at \in {"prepare", "commit", "resume"} \cup Try =>
       /\ SqliteWrites => suspended
       /\ ~SqliteWrites => ~suspended /\ ~bulkOpen
  /\ at \in {"resume", "end_bulk", "restore"} => ~bulkOpen
  /\ at \in {"end_bulk", "restore"} => ~suspended /\ (SqliteWrites => Resumed \subseteq indexes /\ ~unsaved)
  /\ at = "restore" => ~duckBulk

\* Nobody else can have opened a transaction before the import begins its next.
AloneInv ==
  ~disturbed => outcome \in {"none", "ok"} /\ (at = "reopen" => ~inTx)

IInv == LearnInv /\ BorrowInv /\ SuccessLeavesAtRest /\ AloneInv

-------------------------------------------------------------------------------
(* IInv is inductive *)

LEMMA InitIInv == Init => IInv
BY DEF Init, IInv, LearnInv, BorrowInv, SuccessLeavesAtRest, AloneInv, Before, Try, Finally,
       SqliteWrites, Detects

\* Other threads touch neither what is borrowed nor the place of the import thread.
LEMMA ElsewhereSteps ==
  ASSUME IInv, OtherWrites \/ OtherCommits \/ StartLearning \/ StopCapture \/ WindowEnds
                \/ UNCHANGED vars
  PROVE  IInv'
<1> USE DEF IInv, LearnInv, BorrowInv, SuccessLeavesAtRest, AloneInv, Before, Try, Finally,
            SqliteWrites, Detects
<1> USE DEF Committed, import, mode, conn, learn, others
<1>1. CASE OtherWrites
  BY <1>1 DEF OtherWrites
<1>2. CASE OtherCommits
  BY <1>2 DEF OtherCommits
<1>3. CASE StartLearning
  BY <1>3 DEF StartLearning
<1>4. CASE StopCapture
  BY <1>4 DEF StopCapture
<1>5. CASE WindowEnds
  BY <1>5 DEF WindowEnds
<1>6. CASE UNCHANGED vars
  BY <1>6 DEF vars
<1> QED
  BY <1>1, <1>2, <1>3, <1>4, <1>5, <1>6

\* The beginning, of which two steps may give up before anything is saved.
LEMMA BeginsSteps ==
  ASSUME IInv, Start \/ ClearData \/ BeginBulk \/ Suspend \/ SuspendRaises
                \/ BeginImmediate \/ Prepare
  PROVE  IInv'
<1> USE DEF IInv, LearnInv, BorrowInv, SuccessLeavesAtRest, AloneInv, Before, Try, Finally,
            SqliteWrites, Detects
<1> USE DEF Goes, GivesUp, Disturb, Committed, import, mode, conn, learn, others
<1>1. CASE Start
  BY <1>1 DEF Start
<1>2. CASE ClearData
  BY <1>2 DEF ClearData
<1>3. CASE BeginBulk
  BY <1>3 DEF BeginBulk
<1>4. CASE Suspend
  BY <1>4 DEF Suspend
<1>5. CASE SuspendRaises
  BY <1>5 DEF SuspendRaises
<1>6. CASE BeginImmediate
  BY <1>6 DEF BeginImmediate
<1>7. CASE Prepare
  BY <1>7 DEF Prepare
<1> QED
  BY <1>1, <1>2, <1>3, <1>4, <1>5, <1>6, <1>7

\* The try: whatever raises goes to the finally.
LEMMA BodySteps ==
  ASSUME IInv, ImportFrames \/ OpenParser \/ ReadRecord \/ EndBatch \/ ParserRaises
                \/ StoreBatch \/ Flush \/ Reopen \/ BodyRaises \/ Drain
  PROVE  IInv'
<1> USE DEF IInv, LearnInv, BorrowInv, SuccessLeavesAtRest, AloneInv, Before, Try, Finally,
            SqliteWrites, Detects
<1> USE DEF Goes, Fails, Disturb, Committed, Writes, import, mode, conn, learn, others
<1>1. CASE ImportFrames
  BY <1>1 DEF ImportFrames
<1>2. CASE OpenParser
  BY <1>2 DEF OpenParser
<1>3. CASE ReadRecord
  BY <1>3 DEF ReadRecord
<1>4. CASE EndBatch
  BY <1>4 DEF EndBatch
<1>5. CASE ParserRaises
  BY <1>5 DEF ParserRaises
<1>6. CASE StoreBatch
  BY <1>6 DEF StoreBatch
<1>7. CASE Flush
  BY <1>7 DEF Flush
<1>8. CASE Reopen
  BY <1>8 DEF Reopen
<1>9. CASE BodyRaises
  BY <1>9 DEF BodyRaises
<1>10. CASE Drain
  BY <1>10 DEF Drain
<1> QED
  BY <1>1, <1>2, <1>3, <1>4, <1>5, <1>6, <1>7, <1>8, <1>9, <1>10

\* The finally, which one error may cut short.
LEMMA EndsSteps ==
  ASSUME IInv, CommitRest \/ Resume \/ ResumeRaises \/ EndBulk \/ Restore
  PROVE  IInv'
<1> USE DEF IInv, LearnInv, BorrowInv, SuccessLeavesAtRest, AloneInv, Before, Try, Finally,
            SqliteWrites, Detects
<1> USE DEF Goes, Disturb, Committed, import, mode, conn, learn, others
<1>1. CASE CommitRest
  BY <1>1 DEF CommitRest
<1>2. CASE Resume
  BY <1>2 DEF Resume
<1>3. CASE ResumeRaises
  BY <1>3 DEF ResumeRaises
<1>4. CASE EndBulk
  BY <1>4 DEF EndBulk
<1>5. CASE Restore
  BY <1>5 DEF Restore
<1> QED
  BY <1>1, <1>2, <1>3, <1>4, <1>5

LEMMA NextIInv == IInv /\ [Next]_vars => IInv'
BY BeginsSteps, BodySteps, EndsSteps, ElsewhereSteps DEF Next, Import, Begins, Body, Ends, Elsewhere

LEMMA SpecIInv == Spec => []IInv
BY InitIInv, NextIInv, PTL DEF Spec

-------------------------------------------------------------------------------
(* What is stored *)

Scanning == {"read", "store", "flush", "reopen", "drain"}
Whole == \A i \in Records : ~EndsBatch(i)

\* seen are the packets of the records before n, in their order.
Through(P, seen, n) == Ascends(seen) /\ Range(seen) = {i \in P : i < n}

\* What is stored and gathered is what comes before the parser, or before a bad record that
\* Scapy has taken for the end of the file.
Reached ==
  \E n \in 1 .. pos : /\ Through(Packets, stored \o batch, n)
                      /\ n = pos \/ (~Whole /\ pos = Len(file.records) + 1)

\* What an import has stored that reports success
Stored ==
  /\ \E n \in 1 .. Len(file.records) + 1 : Through(Packets, stored, n)
  /\ Whole => Range(stored) = Packets

StoredInv ==
  /\ file \in Files /\ stored \in Seq(Nat) /\ batch \in Seq(Nat)
  /\ pos \in Nat \ {0} /\ (at \in Scanning => pos <= Len(file.records) + 1)
  /\ at \in {"bulk", "suspend", "begin", "prepare", "frames", "open"} => stored = <<>>
  /\ at \in {"frames", "open"} => batch = <<>> /\ pos = 1
  /\ at \in Scanning => Reached
  /\ at \in {"flush", "reopen", "drain"} => batch = <<>>
  /\ at = "drain" /\ Whole => ~Left
  /\ outcome = "ok" => at \in Finally \cup {"idle"} /\ Stored

LEMMA Nothing ==
  ASSUME NEW P, P \subseteq Nat \ {0}
  PROVE  Through(P, <<>>, 1)
<1>1. DOMAIN <<>> = {}
  OBVIOUS
<1>2. Ascends(<<>>) /\ Range(<<>>) = {}
  BY <1>1 DEF Ascends, Range
<1>3. \A i \in P : ~(i < 1)
  OBVIOUS
<1> QED
  BY <1>2, <1>3 DEF Through

\* The next record is added if it is a packet.
LEMMA AddPacket ==
  ASSUME NEW P \in SUBSET Nat, NEW seen \in Seq(Nat), NEW n \in P, Through(P, seen, n)
  PROVE  Through(P, Append(seen, n), n + 1)
<1> DEFINE next == Append(seen, n)
<1>1. /\ DOMAIN seen = 1 .. Len(seen) /\ DOMAIN next = 1 .. Len(seen) + 1 /\ Len(seen) \in Nat
      /\ \A i \in 1 .. Len(seen) : next[i] = seen[i] /\ seen[i] \in Nat
      /\ next[Len(seen) + 1] = n
  OBVIOUS
<1>2. \A i \in 1 .. Len(seen) : seen[i] < n
  <2>1. \A i \in 1 .. Len(seen) : seen[i] \in Range(seen)
    BY <1>1 DEF Range
  <2> QED
    BY <2>1 DEF Through
<1> HIDE DEF next
<1>3. Ascends(next)
  <2> SUFFICES ASSUME NEW i \in DOMAIN next, NEW j \in DOMAIN next, i < j
               PROVE  next[i] < next[j]
    BY DEF Ascends
  <2>1. CASE j = Len(seen) + 1
    BY <1>1, <1>2, <2>1
  <2>2. CASE j # Len(seen) + 1
    <3>1. i \in DOMAIN seen /\ j \in DOMAIN seen
      BY <1>1, <2>2
    <3>2. seen[i] < seen[j]
      BY <3>1 DEF Through, Ascends
    <3> QED
      BY <1>1, <3>1, <3>2
  <2> QED
    BY <2>1, <2>2
<1>4. Range(next) = Range(seen) \cup {n}
  BY <1>1 DEF Range
<1>5. Range(next) = {i \in P : i < n + 1}
  <2>1. Range(seen) = {i \in P : i < n}
    BY DEF Through
  <2>2. \A i \in P : i < n + 1 <=> i < n \/ i = n
    OBVIOUS
  <2> QED
    BY <1>4, <2>1, <2>2
<1> QED
  BY <1>3, <1>5 DEF Through, next

LEMMA SkipRecord ==
  ASSUME NEW P \in SUBSET Nat, NEW seen, NEW n \in Nat \ P, Through(P, seen, n)
  PROVE  Through(P, seen, n + 1)
<1>1. \A i \in P : i < n + 1 <=> i < n
  OBVIOUS
<1>2. {i \in P : i < n + 1} = {i \in P : i < n}
  BY <1>1
<1> QED
  BY <1>2 DEF Through

\* Records are numbered from 1 on, and a record with a packet ends no batch.
LEMMA RecordFacts ==
  ASSUME file \in Files
  PROVE  /\ Len(file.records) \in Nat /\ Records = 1 .. Len(file.records)
         /\ Packets \subseteq Records /\ Packets \in SUBSET Nat
         /\ \A i \in Records : i \in Packets <=> IsPacket(i)
         /\ \A i \in Packets : ~EndsBatch(i)
<1>1. file.records \in Seq({"ip", "other", "bad"})
  BY ImportAssumption
<1>2. Len(file.records) \in Nat /\ Records = 1 .. Len(file.records)
  BY <1>1 DEF Records
<1> QED
  BY <1>2 DEF Packets, IsPacket, EndsBatch

\* Statements that leave the file, its reader and what is stored alone
LEMMA SameFile ==
  ASSUME UNCHANGED <<file, parser, pos, batch, stored>>
  PROVE  /\ Packets' = Packets /\ Whole' = Whole /\ Left' = Left
         /\ Reached' = Reached /\ Stored' = Stored
<1>1. Packets' = Packets /\ Whole' = Whole /\ Left' = Left
  BY DEF Packets, Records, Kind, Whole, EndsBatch, Left
<1> QED
  BY <1>1 DEF Reached, Stored

LEMMA InitStored == Init => StoredInv
BY DEF Init, StoredInv, Scanning

LEMMA StartStored == StoredInv /\ Start => StoredInv'
BY DEF Start, StoredInv, Scanning, Finally

LEMMA ClearStored == StoredInv /\ (ClearData \/ Prepare) => StoredInv'
<1> SUFFICES ASSUME StoredInv, ClearData \/ Prepare PROVE StoredInv'
  OBVIOUS
<1>1. outcome # "ok"
  BY DEF ClearData, Prepare, StoredInv, Finally
<1>2. CASE ClearData
  BY <1>1, <1>2 DEF ClearData, StoredInv, Scanning
<1>3. CASE Prepare
  BY <1>1, <1>3 DEF Prepare, StoredInv, Scanning
<1> QED
  BY <1>2, <1>3

LEMMA OpenStored == StoredInv /\ OpenParser => StoredInv'
<1> SUFFICES ASSUME StoredInv, OpenParser PROVE StoredInv'
  OBVIOUS
<1>1. /\ at = "open" /\ at' = "read"
      /\ UNCHANGED <<file, pos, batch, stored, outcome>>
  BY DEF OpenParser
<1>2. file \in Files /\ stored = <<>> /\ batch = <<>> /\ pos = 1 /\ outcome # "ok"
  BY <1>1 DEF StoredInv, Finally
<1>3. Len(file.records) \in Nat /\ Packets \subseteq 1 .. Len(file.records)
  BY <1>2, RecordFacts
<1>4. stored \o batch = <<>> /\ Packets' = Packets
  BY <1>1, <1>2 DEF Packets, Records, Kind
<1>5. Through(Packets, <<>>, 1)
  <2>1. Packets \subseteq Nat \ {0}
    BY <1>3
  <2> QED
    BY <2>1, Nothing
<1>6. Reached'
  BY <1>1, <1>2, <1>4, <1>5 DEF Reached
<1> QED
  BY <1>1, <1>2, <1>3, <1>6 DEF StoredInv, Scanning

\* The batch grows by the record if it is a packet.
LEMMA RecordStored == StoredInv /\ ReadRecord => StoredInv'
<1> SUFFICES ASSUME StoredInv, ReadRecord PROVE StoredInv'
  OBVIOUS
<1>1. /\ at = "read" /\ at' \in {"read", "store"} /\ pos <= Len(file.records)
      /\ batch' = IF IsPacket(pos) THEN Append(batch, pos) ELSE batch
      /\ pos' = pos + 1
      /\ UNCHANGED <<file, parser, stored, outcome>>
  BY DEF ReadRecord, Left
<1>2. /\ file \in Files /\ stored \in Seq(Nat) /\ batch \in Seq(Nat) /\ pos \in Nat \ {0}
      /\ outcome # "ok" /\ Reached
  BY <1>1 DEF StoredInv, Scanning, Finally
<1>3. /\ Len(file.records) \in Nat /\ Records = 1 .. Len(file.records)
      /\ Packets \in SUBSET Nat
      /\ \A i \in Records : i \in Packets <=> IsPacket(i)
  BY <1>2, RecordFacts
<1>4. pos \in Records
  BY <1>1, <1>2, <1>3
<1>5. Through(Packets, stored \o batch, pos)
  <2>1. pos # Len(file.records) + 1
    BY <1>1, <1>2, <1>3
  <2> QED
    BY <1>2, <2>1 DEF Reached
<1>6. batch' \in Seq(Nat)
  BY <1>1, <1>2
<1>7. Through(Packets, stored \o batch', pos + 1)
  <2>1. CASE IsPacket(pos)
    <3>1. stored \o batch' = Append(stored \o batch, pos) /\ stored \o batch \in Seq(Nat)
      BY <1>1, <1>2, <2>1
    <3> QED
      BY <1>3, <1>4, <1>5, <2>1, <3>1, AddPacket
  <2>2. CASE ~IsPacket(pos)
    BY <1>1, <1>2, <1>3, <1>4, <1>5, <2>2, SkipRecord
  <2> QED
    BY <2>1, <2>2
<1>8. Packets' = Packets
  BY <1>1 DEF Packets, Records, Kind
<1>9. Reached'
  BY <1>1, <1>2, <1>7, <1>8 DEF Reached
<1> QED
  BY <1>1, <1>2, <1>3, <1>6, <1>9 DEF StoredInv, Scanning

\* What ends a batch is no packet.  After a bad record nothing is read any more.
LEMMA EndStored == StoredInv /\ EndBatch => StoredInv'
<1> SUFFICES ASSUME StoredInv, EndBatch PROVE StoredInv'
  OBVIOUS
<1>1. /\ at = "read" /\ (Left => EndsBatch(pos))
      /\ pos' = IF MeetsBad THEN Len(file.records) + 1 ELSE IF Left THEN pos + 1 ELSE pos
      /\ at' = IF batch = <<>> THEN "drain" ELSE "store"
      /\ UNCHANGED <<file, parser, batch, stored, outcome>>
  BY DEF EndBatch
<1>2. /\ file \in Files /\ stored \in Seq(Nat) /\ batch \in Seq(Nat) /\ pos \in Nat \ {0}
      /\ outcome # "ok" /\ Reached /\ pos <= Len(file.records) + 1
  BY <1>1 DEF StoredInv, Scanning, Finally
<1>3. /\ Len(file.records) \in Nat /\ Records = 1 .. Len(file.records)
      /\ Packets \in SUBSET Nat
      /\ \A i \in Packets : ~EndsBatch(i)
  BY <1>2, RecordFacts
<1>4. Left => pos \in Records /\ pos \notin Packets /\ ~Whole
  BY <1>1, <1>2, <1>3 DEF Left, Whole
<1>5. Packets' = Packets /\ Whole' = Whole
  BY <1>1 DEF Packets, Records, Kind, Whole, EndsBatch
<1>6. pos' \in Nat \ {0} /\ pos' <= Len(file.records) + 1 /\ pos <= pos'
  BY <1>1, <1>2, <1>3 DEF MeetsBad, Left
<1>7. PICK n \in 1 .. pos : /\ Through(Packets, stored \o batch, n)
                            /\ n = pos \/ (~Whole /\ pos = Len(file.records) + 1)
  BY <1>2 DEF Reached
<1>8. Reached'
  <2>1. CASE n # pos
    <3>1. pos' = pos
      BY <1>1, <1>2, <1>3, <1>7, <2>1 DEF MeetsBad, Left
    <3> QED
      BY <1>1, <1>5, <1>7, <2>1, <3>1 DEF Reached
  <2>2. CASE n = pos /\ MeetsBad
    <3>1. ~Whole /\ pos' = Len(file.records) + 1 /\ n \in 1 .. pos'
      BY <1>1, <1>2, <1>4, <1>6, <1>7, <2>2 DEF MeetsBad
    <3> QED
      BY <1>1, <1>5, <1>7, <3>1 DEF Reached
  <2>3. CASE n = pos /\ Left /\ ~MeetsBad
    <3>1. Through(Packets, stored \o batch, pos + 1) /\ pos' = pos + 1
      BY <1>1, <1>2, <1>3, <1>4, <1>7, <2>3, SkipRecord
    <3>2. pos + 1 \in 1 .. pos'
      BY <1>2, <3>1
    <3> QED
      BY <1>1, <1>5, <3>1, <3>2 DEF Reached
  <2>4. CASE n = pos /\ ~Left
    <3>1. pos' = pos
      BY <1>1, <2>4 DEF MeetsBad
    <3> QED
      BY <1>1, <1>5, <1>7, <2>4, <3>1 DEF Reached
  <2> QED
    BY <2>1, <2>2, <2>3, <2>4
<1>9. Whole => ~Left'
  <2>1. Whole => pos' = pos /\ ~Left
    BY <1>1, <1>4 DEF MeetsBad
  <2> QED
    BY <1>1, <2>1 DEF Left
<1> QED
  BY <1>1, <1>2, <1>5, <1>6, <1>8, <1>9 DEF StoredInv, Scanning

\* The batch moves to the store.
LEMMA StoreStored == StoredInv /\ StoreBatch => StoredInv'
<1> SUFFICES ASSUME StoredInv, StoreBatch PROVE StoredInv'
  OBVIOUS
<1>1. /\ at = "store" /\ at' \in {"read", "flush"}
      /\ stored' = stored \o batch /\ batch' = <<>>
      /\ UNCHANGED <<file, parser, pos, outcome>>
  BY DEF StoreBatch
<1>2. /\ file \in Files /\ stored \in Seq(Nat) /\ batch \in Seq(Nat) /\ outcome # "ok"
      /\ Reached /\ pos <= Len(file.records) + 1 /\ pos \in Nat \ {0}
  BY <1>1 DEF StoredInv, Scanning, Finally
<1>3. stored' \in Seq(Nat) /\ stored' \o batch' = stored \o batch /\ batch' \in Seq(Nat)
  BY <1>1, <1>2
<1>4. Packets' = Packets /\ Whole' = Whole
  BY <1>1 DEF Packets, Records, Kind, Whole, EndsBatch
<1>5. Reached'
  BY <1>1, <1>2, <1>3, <1>4 DEF Reached
<1> QED
  BY <1>1, <1>2, <1>3, <1>5 DEF StoredInv, Scanning

\* At the end of the file everything before it is stored.
LEMMA DrainStored == StoredInv /\ Drain => StoredInv'
<1> SUFFICES ASSUME StoredInv, Drain PROVE StoredInv'
  OBVIOUS
<1>1. /\ at = "drain" /\ at' = "commit" /\ outcome' = "ok"
      /\ UNCHANGED <<file, parser, pos, batch, stored>>
  BY DEF Drain, reading
<1>2. /\ file \in Files /\ stored \in Seq(Nat) /\ batch = <<>> /\ Reached
      /\ pos \in Nat \ {0} /\ pos <= Len(file.records) + 1 /\ (Whole => ~Left)
  BY <1>1 DEF StoredInv, Scanning
<1>3. /\ Len(file.records) \in Nat /\ Packets \subseteq 1 .. Len(file.records)
  BY <1>2, RecordFacts
<1>4. stored \o batch = stored
  BY <1>2
<1>5. PICK n \in 1 .. pos : /\ Through(Packets, stored, n)
                            /\ n = pos \/ (~Whole /\ pos = Len(file.records) + 1)
  BY <1>2, <1>4 DEF Reached
<1>6. Whole => Range(stored) = Packets
  <2>1. Whole => n = Len(file.records) + 1
    BY <1>2, <1>3, <1>5 DEF Left
  <2>2. Whole => \A i \in Packets : i < n
    BY <1>3, <2>1
  <2> QED
    BY <1>5, <2>2 DEF Through
<1>7. n \in 1 .. Len(file.records) + 1
  BY <1>2, <1>3, <1>5
<1>8. Stored
  BY <1>5, <1>6, <1>7 DEF Stored
<1>9. Stored' = Stored
  BY <1>1, SameFile
<1> QED
  BY <1>1, <1>8, <1>9 DEF StoredInv, Scanning, Finally

\* The other steps leave what is stored alone.
LEMMA OtherStored ==
  ASSUME StoredInv, UNCHANGED <<file, parser, pos, batch, stored>>,
         \/ UNCHANGED <<at, outcome>>
         \/ at \in Before /\ at' \in Before \ {"clear"} /\ at # "clear" /\ outcome' = outcome
         \/ at = "frames" /\ at' = "open" /\ outcome' = outcome
         \/ at \in {"flush", "reopen"} /\ at' \in {"read", "reopen"} /\ outcome' = outcome
         \/ at \in Finally /\ at' \in Finally \cup {"idle"} /\ outcome' = outcome
         \/ at' \in {"commit", "idle"} /\ outcome' # "ok"
  PROVE  StoredInv'
<1>1. /\ Packets' = Packets /\ Whole' = Whole /\ Left' = Left
      /\ Reached' = Reached /\ Stored' = Stored
  BY SameFile
<1> QED
  BY <1>1 DEF StoredInv, Scanning, Before, Finally

LEMMA NextStored == StoredInv /\ [Next]_vars => StoredInv'
<1> SUFFICES ASSUME StoredInv, [Next]_vars PROVE StoredInv'
  OBVIOUS
<1> USE DEF reading, import, Goes, Before, Finally
<1>1. CASE Start \/ ClearData \/ Prepare
  BY <1>1, StartStored, ClearStored
<1>2. CASE BeginBulk \/ Suspend \/ BeginImmediate
  BY <1>2, OtherStored DEF BeginBulk, Suspend, BeginImmediate
<1>3. CASE SuspendRaises
  BY <1>3, OtherStored DEF SuspendRaises, GivesUp
<1>4. CASE ImportFrames
  BY <1>4, OtherStored DEF ImportFrames
<1>5. CASE OpenParser \/ ReadRecord \/ EndBatch \/ StoreBatch \/ Drain
  BY <1>5, OpenStored, RecordStored, EndStored, StoreStored, DrainStored
<1>6. CASE Flush
  BY <1>6, OtherStored DEF Flush
<1>7. CASE Reopen \/ ParserRaises \/ BodyRaises
  BY <1>7, OtherStored DEF Reopen, ParserRaises, BodyRaises, Fails
<1>8. CASE CommitRest \/ Resume \/ EndBulk
  BY <1>8, OtherStored DEF CommitRest, Resume, EndBulk
<1>9. CASE ResumeRaises \/ Restore
  BY <1>9, OtherStored DEF ResumeRaises, Restore
<1>10. CASE OtherWrites \/ OtherCommits \/ StartLearning \/ StopCapture \/ WindowEnds
              \/ UNCHANGED vars
  BY <1>10, OtherStored DEF OtherWrites, OtherCommits, StartLearning, StopCapture, WindowEnds, vars
<1> QED
  BY <1>1, <1>2, <1>3, <1>4, <1>5, <1>6, <1>7, <1>8, <1>9, <1>10
  DEF Next, Import, Begins, Body, Ends, Elsewhere

\* Each frame of a file without bad records is stored by the first reader.
Sound == FirstBad = 0
AllFrames == frames = [i \in Records |-> i]
FramesInv ==
  Sound /\ duck =>
    /\ at \in {"bulk", "suspend", "begin", "prepare", "frames"} => frames = <<>>
    /\ at = "frames" => reader = 1
    /\ at \in {"open"} \cup Scanning \/ outcome = "ok" => AllFrames

LEMMA SameSound ==
  ASSUME UNCHANGED file
  PROVE  Sound' = Sound
BY DEF Sound, FirstBad, SelectInSeq

LEMMA FramesStored ==
  ASSUME file \in Files, FramesInv, ImportFrames
  PROVE  FramesInv'
<1>1. /\ at = "frames" /\ at' \in {"frames", "open"} /\ UNCHANGED <<duck, file, outcome>>
  BY DEF ImportFrames
<1>2. Sound' = Sound /\ Records' = Records
  BY <1>1, SameSound DEF Records
<1>3. SUFFICES ASSUME Sound, duck
               PROVE  at' = "open" /\ frames' = [i \in Records |-> i]
  BY <1>1, <1>2 DEF FramesInv, AllFrames, Scanning
<1>4. frames = <<>> /\ reader = 1
  BY <1>1, <1>3 DEF FramesInv
<1>5. Readable = Records
  BY <1>3, RecordFacts DEF Readable, Sound
<1>6. frames \o [i \in Readable |-> i] = [i \in Records |-> i]
  <2>1. Len(file.records) \in Nat /\ Records = 1 .. Len(file.records)
    BY RecordFacts
  <2> DEFINE all == [i \in 1 .. Len(file.records) |-> i]
  <2>2. all \in Seq(Nat)
    BY <2>1
  <2> HIDE DEF all
  <2>3. <<>> \o all = all
    BY <2>2
  <2> QED
    BY <1>4, <1>5, <2>1, <2>3 DEF all
<1>7. frames' = frames \o [i \in Readable |-> i] /\ at' = "open"
  BY <1>3, <1>4 DEF ImportFrames, Sound
<1> QED
  BY <1>6, <1>7

LEMMA OtherFrames ==
  ASSUME FramesInv, UNCHANGED <<duck, file, frames>>, UNCHANGED reader \/ at' # "frames",
         \/ UNCHANGED <<at, outcome>>
         \/ at \in Before /\ at' \in Before \ {"clear"} /\ at # "clear" /\ outcome' = outcome
         \/ at \in {"open"} \cup Scanning /\ at' \in Scanning /\ outcome' = outcome
         \/ at \in Finally /\ at' \in Finally \cup {"idle"} /\ outcome' = outcome
         \/ at = "drain" /\ at' = "commit"
         \/ at' \in {"commit", "idle"} /\ outcome' # "ok"
  PROVE  FramesInv'
<1>1. Sound' = Sound /\ AllFrames' = AllFrames
  BY SameSound DEF AllFrames, Records
<1> QED
  BY <1>1 DEF FramesInv, Scanning, Before, Finally

\* An import that has not drained has not succeeded.
LEMMA NextFrames == StoredInv /\ FramesInv /\ [Next]_vars => FramesInv'
<1> SUFFICES ASSUME StoredInv, FramesInv, [Next]_vars PROVE FramesInv'
  OBVIOUS
<1>0. file \in Files /\ (outcome = "ok" => at \in Finally \cup {"idle"})
  BY DEF StoredInv
<1> USE DEF reading, import, Goes, Before, Scanning, Finally
<1>1. CASE Start
  BY <1>1 DEF Start, FramesInv
<1>2. CASE ClearData
  BY <1>0, <1>2 DEF ClearData, FramesInv
<1>3. CASE BeginBulk \/ Suspend \/ BeginImmediate
  BY <1>3, OtherFrames DEF BeginBulk, Suspend, BeginImmediate
<1>4. CASE Prepare
  <2>1. Sound' = Sound /\ outcome # "ok" /\ outcome' = outcome /\ UNCHANGED <<duck, frames>>
    BY <1>0, <1>4, SameSound DEF Prepare
  <2> QED
    BY <1>4, <2>1 DEF Prepare, FramesInv
<1>5. CASE SuspendRaises
  BY <1>5, OtherFrames DEF SuspendRaises, GivesUp
<1>6. CASE ImportFrames
  BY <1>0, <1>6, FramesStored
<1>7. CASE OpenParser \/ ReadRecord \/ EndBatch \/ StoreBatch \/ Drain
  BY <1>7, OtherFrames DEF OpenParser, ReadRecord, EndBatch, StoreBatch, Drain
<1>8. CASE Flush \/ Reopen \/ ParserRaises \/ BodyRaises
  BY <1>8, OtherFrames DEF Flush, Reopen, ParserRaises, BodyRaises, Fails
<1>9. CASE CommitRest \/ Resume \/ EndBulk
  BY <1>9, OtherFrames DEF CommitRest, Resume, EndBulk
<1>10. CASE ResumeRaises \/ Restore
  BY <1>10, OtherFrames DEF ResumeRaises, Restore
<1>11. CASE OtherWrites \/ OtherCommits \/ StartLearning \/ StopCapture \/ WindowEnds
              \/ UNCHANGED vars
  BY <1>11, OtherFrames DEF OtherWrites, OtherCommits, StartLearning, StopCapture, WindowEnds, vars
<1> QED
  BY <1>1, <1>2, <1>3, <1>4, <1>5, <1>6, <1>7, <1>8, <1>9, <1>10, <1>11
  DEF Next, Import, Begins, Body, Ends, Elsewhere

LEMMA SpecStored == Spec => [](StoredInv /\ FramesInv)
<1>1. Init => FramesInv
  BY DEF Init, FramesInv, Scanning
<1> QED
  BY <1>1, InitStored, NextStored, NextFrames, PTL DEF Spec

-------------------------------------------------------------------------------
(* The theorems *)

\* After an import that reports success, transactions and the progress flag are as before
\* and the indexes are back that its configuration makes at once, for any files and
\* whatever earlier imports left behind. With the secondary indexes put off, as they are
\* unless configured otherwise, that leaves the seven for filters out.
THEOREM SuccessAlwaysAtRest == Spec => []SuccessLeavesAtRest
<1>1. IInv => SuccessLeavesAtRest
  BY DEF IInv
<1> QED
  BY <1>1, SpecIInv, PTL

\* However the body of an import ends, the learning window is the one the import found,
\* unless the operator has set it meanwhile.
THEOREM LearningAlwaysRestored == Spec => []LearningRestored
<1>1. IInv => LearningRestored
  BY DEF IInv, LearnInv, LearningRestored
<1> QED
  BY <1>1, SpecIInv, PTL

\* An import nobody disturbed has not failed, for any file without a fault and any commit
\* interval: only another writer's transaction can make BEGIN IMMEDIATE raise.
THEOREM AloneAlwaysSucceeds == Spec => []AloneSucceeds
<1>1. IInv => AloneSucceeds
  BY DEF IInv, AloneInv, AloneSucceeds
<1> QED
  BY <1>1, SpecIInv, PTL

\* A successful import has stored the packets of its file up to some record, in their order
\* and none twice; all of them, and each frame once, if nothing in the file ends a batch or
\* a reader early; for any file and batch size, and whatever imports before it left behind.
THEOREM AlwaysStoredOnce == Spec => []StoredOnce
<1>1. StoredInv /\ FramesInv => StoredOnce
  <2> SUFFICES ASSUME StoredInv, FramesInv, at = "idle", outcome = "ok"
               PROVE  /\ Ascends(stored)
                      /\ \E n \in 1 .. Len(file.records) + 1 : Range(stored) = {i \in Packets : i < n}
                      /\ (\A i \in Records : ~EndsBatch(i)) => Range(stored) = Packets
                      /\ FirstBad = 0 /\ duck => frames = [i \in Records |-> i]
    BY DEF StoredOnce
  <2>1. Stored
    BY DEF StoredInv
  <2>2. FirstBad = 0 /\ duck => frames = [i \in Records |-> i]
    BY DEF FramesInv, Sound, AllFrames
  <2> QED
    BY <2>1, <2>2 DEF Stored, Through, Whole
<1> QED
  BY <1>1, SpecStored, PTL
===============================================================================
