# NetScope: a TLA+ model of the traffic security desktop program

NetScope is a Windows desktop program: it sniffs the traffic of its host,
aggregates packets into sessions, raises alerts, imports capture files, and
blocks addresses through the Windows firewall. The modules in this directory
model the parts where threads, the two databases, the firewall and restarts
meet, and the algorithms that decide what the operator gets to see. Formatting,
layout and the decoding of headers are left out.

All paths below are relative to the repository (`src/` there is the Python
package).

## 1. The system

### Threads

| Thread | Started by | Runs |
|---|---|---|
| UI (tkinter) | the process | every button and every `after` callback of `desktop_main.py` |
| sniff thread | `CaptureEngine.start` | `_sniff_loop`: WinDivert to `packet_queue` |
| live worker | `AppRuntime.start_capture` | `_worker_loop`: queue to database, aggregator, detector |
| import thread | `DesktopApp.import_offline_pcap` | `import_offline_pcap` |
| query threads | `DesktopApp.load_packets`, one per request | one page query |
| detail, flow and export threads | `_on_packet_select`, `_open_flow_view_for_packet_id`, `do_export` | the rows of a packet, a flow, an export |
| DNS thread | `ListService.__init__` | `_dns_resolve_loop` |

They share ONE sqlite connection (`check_same_thread=False`, no lock, no
rollback anywhere), one DuckDB connection with a bulk transaction, one session
aggregator, one detector and a few flags. Nothing but the packet queue and the
DNS queue is synchronised; a single dict, set or attribute operation is atomic
because of the interpreter lock, a method of several is not.

### Components

| Component | State | Operations | What makes it correct |
|---|---|---|---|
| Firewall and blacklist (`runtime.py`, `whitelist_blacklist/`) | table `blacklist_whitelist`, netsh rules, `blocked_ips` | bootstrap, add, toggle, delete, block from an alert | the three copies agree between operations, whatever call failed and whenever the process died |
| Capture and live worker (`capture_engine.py`, `runtime.py`) | `running` twice, threads, WinDivert handle, `packet_queue` | start, stop, loops of the threads | one thread of each kind, no handle leaks, threads end |
| Alerts and risk summary (`db.py`, `detection/service.py`) | tables `alerts`, `flow_risk_summary`, the open transaction | save, clear, clean up, rebuild, flush | the derived table never says less than its source |
| Host resolver (`whitelist_blacklist/service.py`) | `_dns_cache`, `_dns_pending`, `_dns_queue` | ask, resolve, close | no address is stuck, limits hold, the thread ends |
| Offline import (`offline_imports.py`, `runtime.py`) | write mode, indexes, bulk transaction, `learning_until` | begin, batches, segment commits, end | what is borrowed is given back, the import ends |
| Traffic page (`desktop_main.py`) | token, filter, shared answer fields | load, poll, log in and out, reset, import | rows on the page answer the last request |
| Session aggregator (`aggregation/`) | sessions, dirty set, source windows | ingest, expire, flush | each change of a session reaches the detector once |
| Detection (`detection/`) | learning window, buffer of samples, model, its file, baseline | process a batch, train | a model from one window, the file is the model, verdicts that are monotone and explained |
| Retention (`db.py`, `runtime.py`) | ages of rows | maintenance | old rows go, young rows stay |
| Login (`auth/`, `db.py`, `desktop_main.py`) | users, `must_change` | log in, change password | no page before the forced change |
| Notifications (`notify/`) | de-duplication cache | notify | one notification in 45 s |
| Packet queries and rules (`packet_queries.py`, `packet_rules.py`) | none | SQL pushdown, matcher, paging | both say the same of a packet |
| Packet details and flows (`desktop_main.py`, `runtime.py`, `offline_packet_store.py`) | packet list, detail cache, tokens, both stores | select, open a flow, export | what is shown is of the row it is shown for |
| Reassembly and findings (`ctf/service.py`, `ctf/batch_export.py`) | none | merge, carve, find strings, pair messages | bytes in sequence order, none twice; whole files; own responses |
| Offline adapter and native parser (`offline/adapter.py`, `native/`) | position in the file | read a batch, fall back to Scapy | each packet once, none left out |
| Report, audit, clues, packet inspection | files | formatting | not modelled |
| Scripts, build | none | | not modelled |

### What is hard here

`PROJECT.json` lists the hazards line by line. They fall into six groups:
two stores written one after the other with a failure or a crash between
(firewall and table; alerts and summary); a transaction that belongs to
whoever commits next (one connection, four threads); threads that outlive a
join with a timeout and find the flags of their successors; values saved,
cleared and restored around a long operation (`learning_until`, indexes);
answers of old requests that arrive in the fields of new ones, or that are about
rows whose identifiers now name other packets; and algorithms with many cases
(rules, merging, carving, paging) of which tests show a few.

## 2. The modules

A module keeps the names of the code where TLA+ allows it, has one action per
operation or per step of a thread, and one variable per piece of state. The
`map` in `PROJECT.json` names the lines of each definition. A definition whose
comment begins with "Mutant" is no part of a model: it is the model with one
plausible bug, which a run must notice.

Several modules keep *history variables*, which the code does not have. They
record that something out of the code's hands has happened (`unsure`, `raced`,
`died`, `expired`, `disturbed`, `touched`, `overlapped`, `hurried`, `cut`,
`mixed`, `backwards`, `moved`), or what a property compares the state with (`found`, `visited`, `reported`,
`latest`, `halted`, `started`, `reports`). No guard of an action reads one. A property restricted by such a
variable says what the code promises as long as that has not happened; the run
still explores everything beyond it, and the other properties hold there too.

### BlockList and FirewallSync

`FirewallSync` is `runtime.py` 1446-1770 with `ListService`. `rows` is the table
`blacklist_whitelist`, `rules` the managed netsh rules (two per address),
`blocked` is `blocked_ips`. All list operations run on the UI thread, so one
`job` is enough; `phase` says whether it has still to call netsh or to commit.
A netsh call may fail after one of its two halves; the process may die between
any two steps (`Stop`) and bootstraps again (`Boot`, `Purge`, `Restore`).
`BootBlind` is the bootstrap when `netsh show rule` itself fails. `BlockList`
is what the blacklist promises: an address becomes wanted only while it is
fully blocked and stops being wanted only once it is fully free.

### RiskSummary

`db.py` 215-330 and 480-505, `detection/service.py` 150-225, and their callers.
An operation is a sequence of SQL statements in `prog[thread]`; `Execute` runs
one on `db`, `CommitAll` copies `db` to `disk`, whoever's rows that takes along:
there is one connection. `Restart` drops what is not on disk and runs the
bootstrap of the summary.

### CaptureLifecycle

`capture_engine.py` and `AppRuntime.start_capture`, `stop_capture`,
`_worker_loop`. Sniff threads and workers are numbered; the flags, `thread`,
`divert`, `current` and the queue are shared by all generations. `ui` is the
step the UI thread is in; `Joined` returns at once for a dead thread and gives
up on a live one at any time, which is what a timeout looks like to untimed
steps.

### HostResolver

`ListService._resolve_host`, `_schedule_host_resolve`, `_remember_dns`,
`_dns_resolve_loop` and `close`. One action is one operation that the
interpreter lock makes atomic, or several of which only one touches shared
state. `_remember_dns` takes up to six (`RememberSteps`), in the same words for an
asking thread and for the resolver: `next(iter(...))` is two, and raises when the
dict has changed its size in between (`IteratorBroken`). An asking thread leaves
the call with the error (`AskerRaises`); the resolver, which catches nothing there,
is gone (`ResolverRaises`, the step "crashed"). The `KeyError` that
`_resolve_host` may raise when its key is taken out under it changes nothing of
the state.

### OfflineImport

`offline_imports.py` and the write mode of `runtime.py` with the index and bulk
functions of both stores, reading through `adapter.py` and the iterator of the
native parser. `at` is the statement the import thread is at. A file is a
sequence of records, each a packet ("ip"), another frame ("other") or corrupt
("bad"). `indexes` are the kinds of sqlite indexes that are there: of the ten that
`Suspend` drops, `Resume` makes the three again that order pages, as
`offline_defer_secondary_indexes` says (`DeferIndexes`), or all of them. `ReadRecord` and `EndBatch` are the loop of either reader over the
records from `pos` on, `batch` is what it has gathered, and `stored` and `frames`
are the numbers of the records in the stores. The
other threads are reduced to what an import can notice: a statement on the
shared connection and its commit, and the two writers of `learning_until`.

### RuleVerdicts and LiveDetection

`RuleVerdicts` is `rule_engine.py` and the part of `detection/service.py` that
judges one feature: the twenty-four rules in their order, as a function from a
feature and a baseline to a verdict, then the score and the two places where
loopback traffic is tempered. Texts are numbers of rules; what compares nothing
is a member of `marks`. `LiveDetection` is the state around it: the learning
window, the buffer, the training in its steps and the file. A sample is named by
the window that was last opened before its batch, so that a model can be asked
where its samples come from. `joblib.dump` is three steps: the file is opened and
emptied (`BeginDump`), then the scaler and the forest are written as they are in
memory by then (`PutScaler`, `PutForest`). What another worker is fitting meanwhile,
or writing into the same file, may come out `Torn`. How threads are joined is in `CaptureLifecycle`,
how an import suspends the window in `OfflineImport`; both appear here with what
they do to the window. The parameter `role_violation` of the rules is passed by
nobody and left out.

### SessionAggregator

`session_aggregator.py` with the callers in `runtime.py`. Source and port name a
session. Of the four windows per source, one of each kind is kept (times by
port; a queue of times). The worker uses the wall clock, the import the largest
timestamp of its batch, and its last flush the wall clock again.

### TrafficPage

`DesktopApp.load_packets`, `_poll_packet_query`, `reset_traffic_display`,
`import_offline_pcap`, `_poll_offline_import`, log in with the forced change of
the initial password, and log out. `chains` counts the imports whose poll is
still to come; `reports` says for which import each poll that found one done has
reported. Each request has a token and a thread; `result`, `failed` and `done` are the three fields all
threads share. What rows a query returns is left out: a row set is named by the
token of its request.

### PacketRules and PacketPages

`PacketRules` is the rule of the filter box, twice: `packet_rules.py`, which
evaluates a rule on a row, and `_build_packet_rule_sql`, which compiles the rules
without `||` and `!` to a condition. A rule is given as parsed: sets of terms,
with words for texts; which word is part of another, matches it by `_` and `%`, or
sorts before it, is a parameter (`Within`, `Wild`, `Below`). `SqlTerm` compares what
the database compares: a column of text with the literal as it was typed, a number
or not, by its characters, and `LIKE` with its wildcards. `PacketPages` is one query (`packet_queries.py` with the
SQL of `runtime.py` and `offline_packet_store.py`), and `at` its statement. A
query takes one of three paths: one statement and perhaps a count (`ReadPage`,
`AttachPage`, `Count`), a scan by chunks that filters in Python (`ScanChunk`,
`CollectChunk`, `FinishPackets`), or those for frames (`FinishFrames`). `Insert`,
`Discard` and `Rerank` are what the live worker, an import and the alerts do
between two statements: rows of a batch appear one at a time, because all threads
read the one connection. `TrafficPage` asks these queries without looking into
them.

Three exclusions are part of the properties, because the code does not promise
more: `SpeltAlike` (a compiled rule spelt unlike the rows, on which SQL and Python
differ: a number that is not whole, a wildcard that finds more, letters in another
case, texts in capitals or numbers that are to be ordered against texts),
`Beyond` (a scan for a page beyond the last one shows no rows), and what `moved`
says happened in between. Read as a list of limits, they say: newest first, the
default, a scan of a growing table repeats rows; it loses none.

### StreamMerge, FlowFindings and FlowWorkbench

`StreamMerge` is how the rows of a flow become bytes: what a stored frame
carries (`TransportPayload`), who is the client, and the merge of a direction by
sequence number. `FlowFindings` is what is found in the bytes: strings
(`Runs`, `Joined`), files (`Carve` with one operator per end mark) and HTTP
messages with their pairing (`Pairs`). Bytes are opaque; `Token` says what a byte
looks like and `Decodes` what the decoders of the code accept, which drop the other
strings that match a pattern (`Decoded`, `Joined`), so that a stream of a dozen bytes has requests, signatures and end
marks. `FlowWorkbench` is the state: both stores with their identifiers, the
packet list, the cache of details, the threads of the detail pane, of the flow
window and of an export, each reading in several statements. An offline row has
a generation, `gen`, which the code does not have: it tells rows of one table
from those of the table that replaced it under the same identifiers.

## 3. What the runs check

| Run | Bounds | Shows |
|---|---|---|
| MCFirewallSync | 2 addresses, 3 row ids, symmetric | cache, table and firewall agree between operations; a shared address is never unblocked; refinement of `BlockList` |
| MCRiskSummary | 3 flows, 2 ranks, 2 alerts | the summary is exact when nothing overlaps, and never reports too little |
| MCCaptureLifecycle | 2 starts, queue of 2, faults | one thread of each kind, complete stops, no leaked handle, threads die out |
| MCHostResolver | 2 askers, 3 addresses, queue 2, cache 1 | no address stuck or looked up twice at a time, each queued one resolved, unless the resolver died of a changed dict; `close` ends the thread |
| MCOfflineImport | 2 imports of 4 files of 3 or 4 records, batches of 2, interval 2, 1 window, 2 foreign writes | success leaves nothing borrowed but the indexes that are not made again, the window comes back, packets are stored once and in order, each import ends |
| MCImportLearning | 1 import, 1 window | *violated*: stopping capture ends the learning window |
| MCImportWhole | 1 import, 1 file of 4 records | *violated*: a sound file is stored as a whole |
| MCLiveDetection | 2 starts, 5 batches, 1 import, 2 samples to train, 83 features, 3 baselines | a model from one window, the file is the model, verdicts monotone and explained |
| MCSessionAggregator | 1 source, 2 ports, timeout 2, 3 packets | no change forgotten, no window left over, `port_visits` exact |
| MCTrafficPage | 3 tokens, 2 imports | rows answer the last request, nothing after a logout or before the password is changed, imports reported once, each page comes back |
| MCPacketPages | 2 packets and a frame, 3 rows, pages and chunks of 2, 11 rules | an undisturbed answer is exact, a disturbed one repeats and loses nothing where it can be held to that, SQL and matcher agree |
| MCFlowWorkbench | 3 streams, 3 files, 1 live packet, 2 imports, 2 clicks | what is shown is of its row; streams, files, strings and responses as they were sent |

Why the bounds are enough:

- MCFirewallSync: three rows let two share an address while a third is another
  address or a whitelist row; with two addresses one is worked on while the
  other must stay. The model has no counter, so every sequence of operations of
  any length is explored.
- MCRiskSummary: the flows are both directions of one pair and a host that talks
  to itself (its two summary keys are one). Two alerts are enough for a flow
  with two levels and for two threads that save at once. The constraint stops
  at states that are both `raced` and `died`, of which the properties claim
  nothing.
- MCCaptureLifecycle: two generations are enough for a thread that meets the
  flags of its successor; stops are not bounded. The queue of two fills.
- MCHostResolver: a queue of two holds an address and the marker, and is full
  with two addresses; a cache of one evicts on each second address, so that the
  dict of one thread's iterator changes by another's insertion or pop. Nothing else
  counts, so histories are not bounded.
- MCOfflineImport: a batch that is full and one that is not; with an interval of
  two the second one commits a segment, and what is left is for the end. The
  second import starts from what the first left. The files have a bad record in
  the second batch, another frame in the first one, and another frame first.
  MCImportWhole needs two other frames in a row.
- MCLiveDetection: two starts are two windows and two workers, one of which may
  outlive its join; two samples train, five batches are two trainings and one
  more. The features lie on both sides of the thresholds of the default baseline,
  of a quiet and of a busy one.
- MCSessionAggregator: a file older than the timeout, a packet that waits a tick
  in the queue, expiry after two ticks, and two ports for one source.
- MCTrafficPage: three tokens are an old request, a newer one, and the request of
  an import or a logout. Two imports are enough for a poll that finds the next
  import where its own was.
- MCFlowWorkbench: an import of each kind of file and a second one under the same
  identifiers; two clicks are a selection and another, or a selection and a flow;
  a cache of one entry. The streams have two requests, two responses of which one
  has a body, three kinds of files and strings at both ends, of lengths that decode
  and of one that does not; the files have
  repeated, overlapping, late and shortened segments.
- MCPacketPages: three rows in pages and chunks of two make a second page, a
  second chunk, a page beyond the last and an export that is truncated; the third
  row may come while the first two are read. Page, chunk and limit are equal here
  and 50, 1000 and 100 or more in the code. There is a rule of each kind: compiled
  and not, for texts, numbers, words and negations, one that orders addresses, and one
  of each spelling on which SQL and Python differ: a number that is not whole, a
  number as a bound of addresses, a wildcard. While a finished answer waits nothing else moves, which would
  change nothing of it.

`CHECK_DEADLOCK FALSE` stands where a run may stop: bounds on alerts, packets,
batches, clicks, tokens or imports are reached, or `close` has ended the resolver and everyone
else has nothing to ask. MCFirewallSync, MCCaptureLifecycle and
MCPacketPages never stop and are checked for deadlock.

### Fairness

Only threads that the code keeps running are fair, never the operator:

- `CaptureLifecycle`: weak fairness of the step of a stop under way and of each
  thread. A sniff thread blocked in `recv` goes on because the filter passes all
  IP packets of the host, or because the handle was closed.
- `HostResolver`: the resolver thread, until it ends or dies. `gethostbyaddr`
  returns or raises.
- `OfflineImport`: the import thread.
- `TrafficPage`: each poll (`after` callbacks of the main loop) and each query
  thread, which returns or raises and raises the done flag in a `finally`.

The other modules have no liveness property and no fairness.

### Findings

1. **Stopping capture does not end learning during an import**
   (MCImportLearning). `stop_capture` sets `learning_until = 0` "停止环境预识别
   （学习模式）"; an import under way writes its saved value back
   (`offline_imports.py:68`).
2. **An import of a pcap file may stop early and succeed** (MCImportWhole). The
   README of the repository promises the import of PCAP and PCAPNG files of any
   size. For a classic pcap file the native parser gives the same empty answer at
   the end of the file and for a frame that is not TCP, UDP or ICMP
   (`module.cpp:830`). Such a frame ends a batch; where a batch would begin with
   one, the import is over. Its pcapng reader and Scapy go on to the next frame.

Met while reading, not the subject of a run: `README.md` of the repository names
four import modes, the code knows two; `RiskSummary` can lose a summary row when
two threads race *and* the process dies; the `enabled=0` branch of
`upsert_blacklist_with_firewall` is called by nothing; `len<60.5` means `len<60`
in a rule that is compiled to SQL and `len<60.5` in one that is not, and
`ip.src<5` selects `10.0.0.2` in the former and nothing in the latter. The comment
in `_ensure_indexes` (`db.py:200`) says that the indexes keep a filter of offline
rows by address, port or protocol from scanning the table; an import that writes to
sqlite drops ten indexes and, with `offline_defer_secondary_indexes` as it comes
(`config.py:58`), makes three again (`db.py:231-243`), none of these. The others come
back when the program is started anew; until then `indexes` lacks "filter". The DNS
thread dies when a detection thread changes a full `_dns_cache` at the wrong moment
(`whitelist_blacklist/service.py:128`), and no address is resolved from then on.
Two workers that train at once may write their models over each other
(`model_engine.py:42`). A query
thread of an earlier live request that is still running answers in the fields of
the request a finished import makes (`desktop_main.py:1445`), so that the page
shows live rows although the import has set it to offline rows (2699);
`RowsAnswerTheRequest` excludes overlapping queries for this reason. The rule for
port scans reports the ports visited in five seconds (`rule_engine.py:82`), but
the windows it counts are pruned by the session timeout of 60 s
(`session_aggregator.py:151`). The baseline that learning sets is lost at a
restart, the model learned with it is not. The frames of a corrupt file are
stored twice up to the first bad record, once by each of the two readers.
A live packet from 8.0.0.0/16, 129.0.0.0/16 or 134.221.0.0/16 is read as an
Ethernet frame and shows no payload (`ctf/service.py:343`).

## 4. What is proved

`FirewallSyncProofs` proves, for every set of addresses and row ids, with the
one assumption that `NoJob` is not a job:

| Theorem | States |
|---|---|
| TypeCorrect | `[]TypeOK`: types, and row ids are a key |
| CacheCorrect | `[]CacheMatchesTable` |
| FirewallCorrect | `[]FirewallMatchesTable` |
| SharedAddressCorrect | `SharedAddressStaysBlocked` |
| Refinement | `Spec` implies the specification of `BlockList` |

The properties speak of the idle phase and are not inductive: nothing in them
says what an operation may rely on when it commits. `IInv` adds that.
`JobInv` says that the job is one the page could have begun, and that it has
come to netsh only to block, or to free the last enabled row of its address;
`CacheInv` and `RulesInv` say what cache and firewall look like between netsh
call and commit; `BootInv` says that the bootstrap removes rules only of
addresses nobody enabled and adds them only for enabled ones. The set
`Enabled(rows)` changes by one address per commit: the lemmas `EnabledInsert`
to `WriteEffect` say by which, and every step of every proof goes through them.
`FirewallMatchesTable` has its own invariant on top of `IInv` (`SyncInv`), the
action property and the refinement follow from `IInv` step by step.

The other seven modules of proofs each have an inductive invariant, `IInv`, or
`PagesInv` for the pages, and assume nothing but the named assumptions of the
modules they are about. The proofs about `CaptureLifecycle` (`CaptureInv`) share a
module with those about the page whose buttons start and stop it, which is why its
specification is called `CaptureSpec`; those about `FlowWorkbench` (`ShownInv`,
`WorkbenchSpec`) share one with those about `SessionAggregator`. In both modules the
two components have no variable in common. Bounds
and limits are natural numbers (positive where the code's are), ranks are
positive, an address is not the marker of `close`, the records of a file are of
the three kinds, features and baselines have the fields the rules read with
natural numbers for counts (`VerdictAssumption`), the short window is no
longer than the long one (`AggregatorAssumption`; 5 and 60 seconds in the code),
packets have the columns of the table with their protocol in capitals, frames
have those of theirs, and rules
are finitely many alternatives of the terms the parser knows (`PagesAssumption`);
which words contain, match or precede which is left open. The frames of a file are a sequence with numbers for
times, the bytes of a frame and of a stream are sequences, a TCP frame has a
sequence number, and a stream has no byte twice, because a byte of the model is
one occurrence of a byte (`WorkbenchAssumption`); what stands for no sequence
number is no number (`MergeAssumption`), and the limits of the findings
and the lengths that bytes announce are natural numbers (`FindingsAssumption`). Two
assumptions say what the files and the talks are that a run looks for. A file that was
sent goes from its signature to the first end mark of its type, with the comment of a
zip and the line ends of a pdf, and no file of its type that begins before it
reaches into it (`StreamsAssumption`); the types without an end, of which the code takes
a fixed number of bytes, are not among them. In a talk one side asks and the other
answers each request once, in turn, and no message carries what looks like the first
line of another (`TalksAssumption`). Both describe a file and a message by where they
lie in the bytes (`FileAt`, `LinesAt`, `BodyAt`), and do not mention the search.

| Module | Theorem | States |
|---|---|---|
| RiskSummaryProofs | SummaryExactAlways | `[]SummaryExact` |
| | NeverUnderReportsAlways | `[]NeverUnderReports` |
| HostResolverProofs | NoStuckPendingAlways | `[]NoStuckPending` |
| | NoDoubleLookupAlways | `[]NoDoubleLookup` |
| TrafficPageProofs | RowsAlwaysAnswer | `[]RowsAnswerTheRequest` |
| | NothingDrawn | `NothingDrawnAfterLogout` |
| | ImportsAlwaysReported | `[]ImportsReported` |
| TrafficPageProofs, on CaptureLifecycle | NoHandleLeaksAlways | `[]NoHandleLeaks` |
| | OneOfEachAlways | `[]OneOfEach` |
| | StopIsCompleteAlways | `[]StopIsComplete` |
| SessionAggregatorProofs | NothingForgottenAlways | `[]NothingForgotten` |
| | NoOrphanWindowsAlways | `[]NoOrphanWindows` |
| | PortVisitsExactAlways | `[]PortVisitsExact` |
| LiveDetectionProofs | OneWindowAlways | `[]OneWindow` |
| | FileIsModelAlways | `[]FileIsModel` |
| | VerdictsAlwaysSound | `[]VerdictsSound` |
| OfflineImportProofs | SuccessAlwaysAtRest | `[]SuccessLeavesAtRest` |
| | LearningAlwaysRestored | `[]LearningRestored` |
| | AloneAlwaysSucceeds | `[]AloneSucceeds` |
| | AlwaysStoredOnce | `[]StoredOnce` |
| PacketPagesProofs | SqlAlwaysAgrees | `[]SqlAgreesWithMatcher` |
| | NoRowIsReadTwice | `[]NoRowTwice` |
| | ExportHasEveryRow | `[]ExportIsComplete` |
| | AnswerIsExact | `[]AnswerExact` |
| | OldestFirstStays | `[]OldestFirstIsStable` |
| SessionAggregatorProofs, on FlowWorkbench | RowIsShown | `[]ShowsTheRow` |
| | MergeIsExact | the merge of any segments in turn holds what they held, once and in order |
| | StreamIsExact | `[]StreamExact` |
| | StringsAreFound | `[]StringsFound` |
| | FilesAreFound | `[]FilesFound` |
| | ResponsesAreOwn | `[]OwnResponse` |

- RiskSummary: between two statements the summary is not what the alerts say, and
  the properties, which speak of idle threads, say nothing of it. The invariant
  says what each row owes already. `Due` is the alerts of a row's flow without
  those that a thread has still to add (`Pending`), and nothing while a rebuild
  has wiped the row and has still to count it again (`Owes`). A row never says
  less than its due (`CoversInv`) and, without an overlap or a crash, exactly
  that, unless its alerts are deleted and it is about to be wiped (`Stale`,
  `ExactInv`). `SavingInv` says that the alert of a saving thread is stored as it
  was, if at all; `AloneInv` what one thread alone may rely on; `DiskInv` that
  without an overlap the committed tables, from which a restart begins, cover each
  other too. What a thread may have
  left to do is a finite list of shapes (`Programs`), so that each statement is
  one case; counts are cardinalities, and adding one alert changes one of them.
- HostResolver: that an address is not looked up twice is not inductive, because
  asking, marking and queueing are three steps of a thread without a lock.
  `OnceInv` says of each leg of an address's way (a thread about to mark it, one
  about to queue it, the queue, the resolver) that it is on no other, and that
  it is marked from the second leg on. It holds until two threads pass the check
  at once or `close` empties the set; `NoStuckPending` holds in any case in which the
  resolver has not died of `next()`: nothing but that step takes it away before `close`.
- CaptureLifecycle: the flags say nothing of threads, so the invariant says who
  can still reach each thread that is alive: `CaptureEngine.thread`,
  `AppRuntime.worker` or, as the two are cleared before the join, the join under
  way. `HandleInv` ties a handle to the steps in which its thread holds it.
- TrafficPage: all query threads answer into the same fields. `AnswerInv` says
  whose answer they hold while no two threads have run at once, `RequestInv` and
  `UserInv` that tokens are fresh and that only someone who is in has a poll.
  `ImportsInv` counts: the reports made and the polls to come are as many as the
  imports begun. What a step adds to a sum over all imports is a lemma by
  induction over finite sets, from the well-foundedness of strict inclusion.
- SessionAggregator: sessions, ports and recent packets of a source are cleaned
  up in different places by different cutoffs. `WindowInv` says that nothing kept
  of a source is younger than its entry of `src_last_seen`, so a source that is
  old enough to be forgotten has nothing left; that needs clocks which do not run
  backwards. `ReportInv` says that a table whose marks are about to be cleared is
  reported as a whole. `YoungFact` is about the scan from the head of a deque.
  `VisitsInv` compares the ports kept with those visited: a window holds nothing
  but last visits, and every visit that is within the timeout of the latest clock.
- LiveDetection: only the first sample of the buffer may be of an earlier window
  (`BufferInv`), because the worker that carried it over found the buffer empty
  (`ExtendInv`), and without an expired join there is one worker (`WorkerInv`).
  `FileIsModel` says nothing while a training is under way. `DumpInv` is about the
  steps in between: one worker writes at a time, and the scaler it has written is the
  one in memory, unless another is in a training, at whose end it will write both
  again. `VerdictsSound` is about the
  rules. The fold over them is followed by induction over the set of rules still
  to come (`VerdictEquation`): what it ends with is a rule that applies and that
  no other exceeds. From then on the level of a verdict is a matter of five
  questions (the list, whether a rule applies, whether one of the highest level
  does, the score, the loopback), and more of a count turns each of them one way
  only (`RulesKept`). The rate of packets is no such count: the rule for reverse
  shells asks for a low one.
- OfflineImport: `LearnInv` says where `learning_until` is at each statement,
  `BorrowInv` which flags, indexes and transactions are out, `AloneInv` that
  after its commit nobody but another writer opens a transaction. They follow the
  import thread past every place where it may raise, whatever it reads. `StoredInv`
  follows the records: what is stored and what is in the batch, one after the
  other, are the packets before the position in the file. It ends with the end of
  the file or with a record that ends a batch. `FramesInv` says that the frames
  of a sound file are stored by one reader.
- PacketPages: a rule is compiled to SQL or matched in Python, and the two read a
  number, a protocol and a case differently. `SameTerm` goes through the kinds of
  field (numbers, protocol, other texts), of literal and of operator: what
  `SpeltAlike` excludes are the differences. Texts in small letters are ordered
  alike whatever the order is. A compiled rule has one alternative and negates nothing, so terms are
  all there is (`SameRule`).
  The other four are about the place of a row: the number of rows selected that
  come before it (`Place`). One statement reads the rows of the next places, and
  `Sorted` puts each row at its place, because an order that is total counts
  (`Arranged`). Rows stored later may push a row to a greater place, none to a
  smaller one, as long as none is deleted.
  `BaseInv` is what the rows of a query need: what is stored is a packet or a
  frame, what is answered was asked for. `ApartInv`: what a scan has read lies
  below its offset, so that the next chunk has none of it; this gives
  `NoRowTwice`. `StartInv` compares the table with the one at the beginning, and
  `RankInv` the risk attached with the risk stored. `ExportInv`: a row that was due
  when the export began and lies below the offset is held, or the total exceeds
  the rows. `AnswerExact` needs a second place: where a row comes among those that
  pass the filter, in the order asked for (`RefPlace`). For most orders the two
  grow together; for the order of risk they do not, and the rows collected are
  sorted again. `ScanInv`: the rows of a page are those of the consecutive places
  `RefPlace` that begin where the page does, cut out of the first `total` ones
  taken. `PageInv` and `AnswerInv` follow the pages and the two statements of a
  direct query. With an order by ascending time, rows added behind the others
  change no place (`Steady`), and the same invariant, `PagesInv`, gives
  `OldestFirstIsStable`.
- FlowWorkbench: `ShowsTheRow` compares what is on the screen with rows that may
  be gone. `Known` says of a row the operator was shown what can have become of it:
  a live one is stored or was deleted, and its id is not given again; an offline
  one is stored as long as its table is. `PageInv` says it of the list, the
  selected row and the answer of a page query. `DetailInv` says that the cache, and
  the one reader whose token is the last, answer for rows of the list; every
  action that empties the list raises the token. `FlowInv` follows a tracer through
  its two statements: between them rows are stored, deleted and replaced, so what
  it was asked for may be `Lost`, or in the rows read, or cut off by the limit.
  `ExportInv` says the same of the collected rows, and that they have different ids.
- Streams: `MergeIsExact` is about `_merge_direction_payload` alone. Each segment
  carries the bytes of a stream at its own distance; `MergedInv` says that after
  each turn of the loop the merged bytes are exactly the bytes held so far, in
  order, and that from the beginning of the last segment to the end of what is
  merged none is missing. So what the next segment repeats is its beginning, which
  is cut off, and nothing else. Gaps are allowed. For `StreamIsExact` it remains to
  show that the segments of a direction are those of one sender, whichever side is
  the anchor (`PartOfSender`), that sorting them by number loses none (`InOrder`),
  and that the bytes kept, listed by place (`ElementsAt`), can be one sequence only
  (`HeldOnce`).
- Strings: `RunsFind` follows the pattern over the text backwards, as the recursive
  function of `Runs` is defined. A run behind two bytes that are no letters is
  found from any place before it, as no match can end between them and take the
  byte that the run needs. `Listed` and `Joined` are followed the same way, to show
  that the list of candidates loses nothing before it is full.
- Files: `SliceIsFile` says that what the code slices off at a signature is a file in
  the sense of `FileAt`, and the only one there, or nothing when there is none. `CarveFinds`
  follows the search backwards, as with the runs: from any place in front of a file that
  no earlier one of its type reaches into, the search comes to it, as it goes on behind
  the last byte of what it has cut out. `CarvedIs` and `InPlaceHolds` show that all types are
  searched and that the order by place loses none, so the list has it before it is full.
- Requests and responses: the places of the first lines, in order, can be one sequence
  only (`LinesFound`), and the body cut out between two of them is the one that was sent
  (`BodyFound`). `AskerFound` is about the side the flow is looked at from: one way of
  reading the two directions finds all first lines of the talk, the other none, so the
  count picks the side that asks. A talk without any message has no pairs either way.
  `TalkFound` puts them together and `TalksInShown` adds that both directions are shown
  as they were sent.

Recursion is written as recursive functions, and that such a function exists is
proved for each one by the least counterexample (`MergedExists`, `PiecedExists`,
`RunsExist`, `CarveExists`, `ListingExists`). The order of a finite set is written by counting the
elements that come before (`InCountedOrder`), not by a choice among all orders.

Only model-checked remains liveness, and with it fairness, which the proof system does
not reach: `StoppedDiesOut`, `QueuedIsResolved`, `CloseEndsResolver`, `ImportEnds`,
`PageComesBack`. Every invariant and every action property of a passing run is stated by
a theorem.

## 5. Not modelled

- The decoding of headers and application data (native parser, `build_row` of the
  adapter, `packet_inspection.py`): functions from bytes to columns.
- Texts and files: report, audit, clues, the tables and decoding chains of the
  batch export, Modbus and file assets. They read rows already stored and write a
  file or one row.
- The notifier: one dictionary of times and a call whose outcome nobody reads.
- Retention of the tables other than `alerts`; no run speaks of the age of rows.
- Roles, the upgrade of old password hashes, layout, and the other pages.
- The scores of the isolation forest, which are a choice among three outcomes.
- Within the modelled parts: statistics of a session, the host names themselves,
  SQL errors other than a locked database, the splitting of a rule's text, a literal
  that reaches from one column into the next, and the second connection an external tool could open on the
  sqlite file.

## 6. Plan

What is left, in this order:

1. Retention as further tables of `RiskSummary`, with the ages of rows.
2. The candidate tables and decoding chains of the batch export.
