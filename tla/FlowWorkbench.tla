----------------------------- MODULE FlowWorkbench -----------------------------
(***************************************************************************)
(* The traffic page's way to a single packet, to its flow and to an export  *)
(* of flows.  Packets are stored by the live worker and by imports, which   *)
(* drop what the last one stored and number theirs from the start again;    *)
(* each click starts a thread that reads the stores in several statements   *)
(* and comes back to the UI thread with its answer.                         *)
(***************************************************************************)
EXTENDS FlowFindings

CONSTANTS
  Frames,     (* what the live worker may store                              *)
  Files,      (* capture files: [mode, frames], mode being an import mode    *)
  Preview,    (* payload bytes kept of a frame, live and by import mode; -1  *)
              (* where the headers are lost as well (512 bytes of a live     *)
              (* frame, 2048, 8 or none of an imported one)                  *)
  Limit,      (* rows read of a flow: 3000 in the code                       *)
  CacheMax,   (* packet details held: 2000 in the code                       *)
  MaxLive,    (* bound on the live packets                                   *)
  MaxImports, (* bound on how often the offline table is dropped             *)
  MaxClicks,  (* bound on what the operator asks for                         *)
  Sent,       (* for the properties, what was really sent over TCP:          *)
              (* [from, to, bytes, files], no byte being in two of them      *)
  Talks       (* [ask, answer, pairs]: two of Sent, and which response to    *)
              (* which request they are: <<request, response, body>>         *)

ASSUME WorkbenchAssumption ==
  /\ DOMAIN Preview = {"live"} \union {f.mode : f \in Files}
  /\ \A mode \in DOMAIN Preview : Preview[mode] \in Nat \union {-1}
  /\ Preview["live"] # -1
  /\ \A f \in Files : /\ f.mode # "live"
                      /\ f.frames \in Seq(ToSet(f.frames))
                      /\ \A frame \in ToSet(f.frames) : frame.ts \in Int
  /\ \A frame \in Frames \union UNION {ToSet(f.frames) : f \in Files} :
       /\ frame.proto = "TCP" => frame.seq \in Int
       /\ frame.bytes \in Seq(ToSet(frame.bytes))
  /\ \A s \in Sent : s.bytes \in Seq(ToSet(s.bytes)) /\ IsInjective(s.bytes)
  /\ Limit \in Nat \ {0} /\ CacheMax \in Nat \ {0}
  /\ MaxLive \in Nat /\ MaxImports \in Nat /\ MaxClicks \in Nat

\* A file of that type lies from i to j: it goes from its signature up to the first end
\* mark, a zip to the end of its comment, a pdf to the last of the line ends that follow.
FileAt(p, i, j, type) ==
  /\ Begins(p[i], type)
  /\ \E mark \in i .. j :
       /\ Ends(p[mark], type) /\ \A k \in i .. mark - 1 : ~Ends(p[k], type)
       /\ type \in {"gif", "jpeg", "png"} => j = mark
       /\ type = "zip" => j = mark + Token[p[mark]].size
       /\ type = "pdf" => /\ \A k \in mark + 1 .. j : Is(p[k], "newline")
                          /\ j < Len(p) => ~Is(p[j + 1], "newline")

\* Each file that was sent has an end of its own, and no file of its type that
\* begins before it reaches into it.
ASSUME StreamsAssumption ==
  \A s \in Sent : \A file \in s.files :
    \E type \in {"gif", "jpeg", "pdf", "png", "zip"} :
      \E i \in DOMAIN s.bytes : \E j \in i .. Len(s.bytes) :
        /\ file = SubSeq(s.bytes, i, j) /\ FileAt(s.bytes, i, j, type)
        /\ \A h \in 1 .. i - 1 : \A e \in h .. Len(s.bytes) : FileAt(s.bytes, h, e, type) => e < i

\* These are the places of the first lines of that kind.
LinesAt(p, kind, places) ==
  /\ \A k, l \in DOMAIN places : k < l => places[k] < places[l]
  /\ {i \in DOMAIN p : Is(p[i], kind)} = {places[k] : k \in DOMAIN places}

\* The body of a message in these places: behind the blank line, as long as the
\* first line says, up to the last place if it says nothing
BodyAt(p, first, last, body) ==
  \E blank \in first .. last : \E end \in blank .. last :
    /\ Is(p[blank], "blank") /\ \A i \in first .. blank - 1 : ~Is(p[i], "blank")
    /\ end = IF Token[p[first]].size = 0 THEN last ELSE blank + Token[p[first]].size
    /\ body = SubSeq(p, blank + 1, end)

\* In a talk one side asks and the other answers, each request once, in turn; no
\* message carries what looks like the first line of another.
ASSUME TalksAssumption ==
  \A talk \in Talks :
    LET p == talk.ask.bytes
        q == talk.answer.bytes
        n == Len(talk.pairs)
    IN  /\ talk.ask \in Sent /\ talk.answer \in Sent /\ talk.ask.from # talk.answer.from
        /\ \A i \in DOMAIN p : ~Is(p[i], "response")
        /\ \A i \in DOMAIN q : ~Is(q[i], "request") /\ q[i] \in DOMAIN Token
        /\ talk.pairs \in Seq(ToSet(talk.pairs))
        /\ \E asks \in [1 .. n -> DOMAIN p] : \E answers \in [1 .. n -> DOMAIN q] :
             /\ LinesAt(p, "request", asks) /\ LinesAt(q, "response", answers)
             /\ \A k \in 1 .. n :
                  /\ talk.pairs[k] = <<p[asks[k]], q[answers[k]], talk.pairs[k][3]>>
                  /\ BodyAt(q, answers[k], IF k < n THEN answers[k + 1] - 1 ELSE Len(q),
                            talk.pairs[k][3])

VARIABLES
  live,     (* captured_packets; an id is never given twice (AUTOINCREMENT)  *)
  nextLive, (* the next id                                                   *)
  offline,  (* offline_packets                                               *)
  gen,      (* how often that table was dropped                              *)
  import,   (* where the import is and what it has to store, NoImport        *)
  asked,    (* the page query under way: [at, rows], NoQuery                 *)
  page,     (* the rows of the packet list, by id                            *)
  cache,    (* _packet_detail_cache in _packet_detail_cache_order            *)
  selected, (* the selected row, None                                        *)
  detailToken, (* _packet_detail_query_token                                 *)
  readers,  (* the threads of _on_packet_select                              *)
  pane,     (* the packet detail shown, and the row it is shown for          *)
  flowToken,(* _packet_flow_query_token                                      *)
  tracers,  (* the threads of _open_flow_view_for_packet_id                  *)
  window,   (* the last flow window opened                                   *)
  export,   (* the thread of a batch export                                  *)
  clicks    (* what the operator asked for so far                            *)

stores == <<live, nextLive, offline, gen, import>>
list == <<asked, page, selected>>
details == <<cache, detailToken, readers, pane>>
flows == <<flowToken, tracers, window>>
workbenchVars == <<stores, list, details, flows, export, clicks>>

None == [id |-> 0]
NoImport == [at |-> "idle", mode |-> "none", frames |-> <<>>]
NoQuery == [at |-> "none", rows |-> <<>>]
NoPage == <<>>

WorkbenchInit ==
  /\ live = <<>> /\ nextLive = 1
  /\ offline = <<>> /\ gen = 0 /\ import = NoImport
  /\ asked = NoQuery /\ page = NoPage /\ selected = None
  /\ cache = <<>> /\ detailToken = 0 /\ readers = {} /\ pane = None
  /\ flowToken = 0 /\ tracers = {} /\ window = None
  /\ export = NoQuery
  /\ clicks = 0

\* What the operator asks for, imports apart
Click ==
  /\ clicks < MaxClicks
  /\ clicks' = clicks + 1

-------------------------------------------------------------------------------
(* The stores *)

\* A live id is positive, an offline one is marked as such (OFFLINE_ID_BASE + n).
\* Only the first bytes of a frame are stored.
RowOf(frame, mode, n, when) ==
  LET source == IF mode = "live" THEN "live" ELSE "offline"
  IN  [id |-> IF mode = "live" THEN n ELSE -n, source |-> source,
       gen |-> IF mode = "live" THEN 0 ELSE gen, ts |-> when, proto |-> frame.proto,
       from |-> frame.from, to |-> frame.to, link |-> frame.link,
       head |-> Preview[mode] # -1, seq |-> frame.seq,
       bytes |-> SubSeq(frame.bytes, 1, Min({Max({Preview[mode], 0}), Len(frame.bytes)}))]

\* WinDivert delivers IP packets: no link header, no padding.
Capture(frame) ==
  /\ nextLive <= MaxLive
  /\ live' = Append(live, RowOf(frame, "live", nextLive, nextLive))
  /\ nextLive' = nextLive + 1
  /\ UNCHANGED <<offline, gen, import, list, details, flows, export, clicks>>

\* What load_packets, an import and a reset of the view begin with: the list is
\* emptied and the answer a reader may still bring is no longer wanted.
EmptyList ==
  /\ page' = NoPage
  /\ selected' = None
  /\ pane' = None
  /\ detailToken' = detailToken + 1

\* import_offline_pcap on the UI thread
StartImport(file) ==
  /\ import = NoImport
  /\ gen < MaxImports
  /\ import' = [at |-> "clear", mode |-> file.mode, frames |-> file.frames]
  /\ EmptyList
  /\ asked' = NoQuery
  /\ UNCHANGED <<live, nextLive, offline, gen, cache, readers, flows, export, clicks>>

\* clear_offline_analysis_data drops table and sequence.
ClearOffline ==
  /\ import.at = "clear"
  /\ import' = [import EXCEPT !.at = "store"]
  /\ offline' = <<>>
  /\ gen' = gen + 1
  /\ UNCHANGED <<live, nextLive, list, details, flows, export, clicks>>

\* insert_legacy_batch, a batch of one
StoreOffline ==
  /\ import.at = "store" /\ import.frames # <<>>
  /\ LET frame == Head(import.frames)
     IN  offline' = Append(offline, RowOf(frame, import.mode, Len(offline) + 1, frame.ts))
  /\ import' = [import EXCEPT !.frames = Tail(@)]
  /\ UNCHANGED <<live, nextLive, gen, list, details, flows, export, clicks>>

\* The poll that finds the import done loads the page.
ImportDone ==
  /\ import.at = "store" /\ import.frames = <<>>
  /\ import' = NoImport
  /\ EmptyList
  /\ asked' = [at |-> "asked", rows |-> "offline"]
  /\ UNCHANGED <<live, nextLive, offline, gen, cache, readers, flows, export, clicks>>

\* reset_offline_view
ResetOffline ==
  /\ Click
  /\ import = NoImport
  /\ gen < MaxImports
  /\ offline' = <<>>
  /\ gen' = gen + 1
  /\ EmptyList
  /\ asked' = NoQuery
  /\ UNCHANGED <<live, nextLive, import, cache, readers, flows, export>>

\* reset_realtime_display; the packet list stays as it is
ClearLive ==
  /\ Click
  /\ live # <<>>
  /\ live' = <<>>
  /\ UNCHANGED <<nextLive, offline, gen, import, list, details, flows, export>>

\* query_packet_details of one packet
RowsWithId(id) == {r \in ToSet(live) \union ToSet(offline) : r.id = id}
Detail(id) == IF RowsWithId(id) = {} THEN None ELSE CHOOSE r \in RowsWithId(id) : TRUE

\* query_packets_by_ids and query_packet_details; ids of both kinds never meet
\* in one list, which is of one source.
Details(ids) == {Detail(id) : id \in ids} \ {None}

-------------------------------------------------------------------------------
(* The list and the detail of a packet *)

\* load_packets
LoadPackets(source) ==
  /\ Click
  /\ EmptyList
  /\ asked' = [at |-> "asked", rows |-> source]
  /\ UNCHANGED <<stores, cache, readers, flows, export>>

ReadPage ==
  /\ asked.at = "asked"
  /\ asked' = [at |-> "read", rows |-> IF asked.rows = "live" THEN live ELSE offline]
  /\ UNCHANGED <<stores, page, selected, details, flows, export, clicks>>

\* _apply_packet_query_result
ShowPage ==
  /\ asked.at = "read"
  /\ page' = [id \in {r.id : r \in ToSet(asked.rows)} |->
                CHOOSE r \in ToSet(asked.rows) : r.id = id]
  /\ asked' = NoQuery
  /\ cache' = <<>>
  /\ UNCHANGED <<stores, selected, detailToken, readers, pane, flows, export, clicks>>

\* The cache without the first entry that is of that packet
Uncached(id) ==
  IF \E i \in DOMAIN cache : cache[i].id = id
  THEN RemoveAt(cache, Min({i \in DOMAIN cache : cache[i].id = id}))
  ELSE cache

\* _put_cached_packet_detail: last in the order; the first falls out of a full cache.
Put(d) ==
  LET order == Append(Uncached(d.id), d)
  IN  IF Len(order) > CacheMax THEN Tail(order) ELSE order

\* _on_packet_select: from the cache, where it becomes the last, or by a thread
Select(id) ==
  /\ Click
  /\ id \in DOMAIN page
  /\ selected' = page[id]
  /\ \E hit \in {d \in ToSet(cache) : d.id = id} \union {None} :
       /\ hit = None <=> \A d \in ToSet(cache) : d.id # id
       /\ IF hit # None
          THEN /\ cache' = Append(Uncached(id), hit)
               /\ pane' = [id |-> id, row |-> page[id], detail |-> hit]
               /\ UNCHANGED <<detailToken, readers>>
          ELSE /\ detailToken' = detailToken + 1
               /\ readers' = readers \union
                    {[token |-> detailToken + 1, id |-> id, at |-> "read", detail |-> None]}
               /\ pane' = None
               /\ UNCHANGED cache
  /\ UNCHANGED <<stores, asked, page, flows, export>>

ReadDetail(t) ==
  /\ t.at = "read"
  /\ readers' = (readers \ {t}) \union {[t EXCEPT !.at = "apply", !.detail = Detail(t.id)]}
  /\ UNCHANGED <<stores, list, cache, detailToken, pane, flows, export, clicks>>

\* Mutant of ApplyDetail: it is enough that the selection is still that id.
ApplyDetailById(t) ==
  /\ t.at = "apply"
  /\ readers' = readers \ {t}
  /\ IF selected.id # t.id THEN UNCHANGED <<cache, pane>>
     ELSE IF t.detail = None THEN pane' = None /\ UNCHANGED cache
     ELSE /\ cache' = Put(t.detail)
          /\ pane' = [id |-> t.id, row |-> selected, detail |-> t.detail]
  /\ UNCHANGED <<stores, list, detailToken, flows, export, clicks>>

\* Its token must be the last one, and the row must be selected still.
ApplyDetail(t) ==
  /\ t.at = "apply"
  /\ readers' = readers \ {t}
  /\ IF t.token # detailToken \/ selected.id # t.id THEN UNCHANGED <<cache, pane>>
     ELSE IF t.detail = None THEN pane' = None /\ UNCHANGED cache
     ELSE /\ cache' = Put(t.detail)
          /\ pane' = [id |-> t.id, row |-> selected, detail |-> t.detail]
  /\ UNCHANGED <<stores, list, detailToken, flows, export, clicks>>

-------------------------------------------------------------------------------
(* The flow of a packet *)

\* _open_flow_view_for_packet_id; want is the row the operator means
OpenFlow(id) ==
  /\ Click
  /\ id \in DOMAIN page
  /\ flowToken' = flowToken + 1
  /\ tracers' = tracers \union {[token |-> flowToken + 1, want |-> page[id], at |-> "detail",
                                 detail |-> None, rows |-> <<>>]}
  /\ UNCHANGED <<stores, list, details, window, export>>

TraceDetail(t) ==
  /\ t.at = "detail"
  /\ tracers' = (tracers \ {t}) \union {[t EXCEPT !.at = "rows", !.detail = Detail(t.want.id)]}
  /\ UNCHANGED <<stores, list, details, flowToken, window, export, clicks>>

\* query_flow_packets: both directions of the flow of that id
FlowRows(id) ==
  LET seed == Detail(id)
      found == {r \in ToSet(live) \union ToSet(offline) : seed # None /\ SameFlow(r, seed)}
      ordered == ByTime(found)
  IN  SubSeq(ordered, 1, Min({Limit, Len(ordered)}))

TraceRows(t) ==
  /\ t.at = "rows"
  /\ tracers' = (tracers \ {t}) \union {[t EXCEPT !.at = "apply", !.rows = FlowRows(t.want.id)]}
  /\ UNCHANGED <<stores, list, details, flowToken, window, export, clicks>>

\* The answer to the last request opens a window, unless it has no rows.  The
\* anchor is the sender of the packet, or of the first row if it was not found.
ApplyFlow(t) ==
  /\ t.at = "apply"
  /\ tracers' = tracers \ {t}
  /\ IF t.token # flowToken \/ t.rows = <<>> THEN UNCHANGED window
     ELSE window' = [id |-> t.want.id, want |-> t.want, detail |-> t.detail, rows |-> t.rows,
                     anchor |-> IF t.detail = None THEN t.rows[1].from ELSE t.detail.from]
  /\ UNCHANGED <<stores, list, details, flowToken, export, clicks>>

-------------------------------------------------------------------------------
(* The export of flows *)

\* do_export; the thread asks the page itself what is selected on it.
StartExport ==
  /\ Click
  /\ export.at \in {"none", "done"}
  /\ export' = [at |-> "collect", rows |-> {}]
  /\ UNCHANGED <<stores, list, details, flows>>

\* collect_rows: selected rows are read again, those of a whole page are not.
CollectAgain ==
  /\ export.at = "collect"
  /\ \E ids \in {DOMAIN page, IF selected = None THEN {} ELSE {selected.id}} :
       export' = [at |-> "expand", rows |-> Details(ids)]
  /\ UNCHANGED <<stores, list, details, flows, clicks>>

CollectPage ==
  /\ export.at = "collect"
  /\ export' = [at |-> "expand", rows |-> {page[id] : id \in DOMAIN page}]
  /\ UNCHANGED <<stores, list, details, flows, clicks>>

\* A row as a page has it: without its bytes
Bare(row) == [row EXCEPT !.head = FALSE, !.bytes = <<>>]

\* expand_packet_rows: a packet that is gone stays in the export, without bytes.
Expand ==
  /\ export.at = "expand"
  /\ export' = [at |-> "done",
                rows |-> {[of |-> r, row |-> IF Detail(r.id) = None THEN Bare(r)
                                             ELSE Detail(r.id)] : r \in export.rows}]
  /\ UNCHANGED <<stores, list, details, flows, clicks>>

\* _build_flow_analyses: the rows of each flow
FlowsOf(rows) == {{r \in rows : SameFlow(r, s)} : s \in rows}

\* The flows of a finished export, each with its first sender as the anchor
Exported ==
  IF export.at # "done" THEN {}
  ELSE {LET rows == ByTime(f) IN [rows |-> rows, anchor |-> rows[1].from] :
          f \in FlowsOf({r.row : r \in export.rows})}

-------------------------------------------------------------------------------

WorkbenchNext ==
  \/ \E f \in Frames : Capture(f)
  \/ \E f \in Files : StartImport(f)
  \/ ClearOffline \/ StoreOffline \/ ImportDone \/ ResetOffline \/ ClearLive
  \/ \E s \in {"live", "offline"} : LoadPackets(s)
  \/ ReadPage \/ ShowPage
  \/ \E id \in DOMAIN page : Select(id) \/ OpenFlow(id)
  \/ \E t \in readers : ReadDetail(t) \/ ApplyDetail(t)
  \/ \E t \in tracers : TraceDetail(t) \/ TraceRows(t) \/ ApplyFlow(t)
  \/ StartExport \/ CollectAgain \/ CollectPage \/ Expand

WorkbenchSpec == WorkbenchInit /\ [][WorkbenchNext]_workbenchVars

-------------------------------------------------------------------------------
(* Properties *)

\* What the operator gets to see of flows: the last window, a finished export
Shown == (IF window = None THEN {} ELSE {[rows |-> window.rows, anchor |-> window.anchor]})
           \union Exported

\* The rows of one sender that still carry something
Carried(rows, s) == {r \in ToSet(rows) : r.from = s.from /\ TransportPayload(r) # <<>>}

\* They hold nothing but bytes of s, each at its own distance from one first number:
\* no padding, no other connection of the same endpoints, no number beyond 2^32.
OfOneStream(rows, s) ==
  LET Fits(r, base) == \A i \in DOMAIN r.bytes :
        LET at == r.seq + i - 1 - base
        IN  at \in DOMAIN s.bytes /\ s.bytes[at] = r.bytes[i]
      one == CHOOSE r \in Carried(rows, s) : TRUE
  IN  /\ rows[1].proto = "TCP" /\ {rows[1].from, rows[1].to} = {s.from, s.to}
      /\ Carried(rows, s) # {}
      /\ \E i \in DOMAIN s.bytes : \A r \in Carried(rows, s) : Fits(r, one.seq - i)

KeptOf(rows, s) ==
  ElementsAt(s.bytes, {i \in DOMAIN s.bytes :
                         \E r \in Carried(rows, s) : s.bytes[i] \in ToSet(r.bytes)})

Complete(rows, s) == OfOneStream(rows, s) /\ KeptOf(rows, s) = s.bytes

\* What is shown of a sender is what was stored of it, every byte once and in
\* the order it was sent, whatever was captured twice, late or cut off.
StreamExact ==
  \A f \in Shown : \A s \in {t \in Sent : OfOneStream(f.rows, t)} :
    f.anchor \in {s.from, s.to} =>
      LET analysis == Analysis(f.rows, f.anchor)
      IN  KeptOf(f.rows, s) = IF s.from = f.anchor THEN analysis.client ELSE analysis.server

\* When all of a conversation was stored, each request is shown with the response
\* it got and its body, whichever side the flow is looked at from.
OwnResponse ==
  \A f \in Shown : \A talk \in Talks :
    /\ Complete(f.rows, talk.ask) /\ Complete(f.rows, talk.answer)
    /\ f.anchor \in {talk.ask.from, talk.answer.from}
    => \A pairs \in {Pairs(Analysis(f.rows, f.anchor))} :
         talk.pairs = [k \in DOMAIN pairs |->
                         <<pairs[k].request.line, pairs[k].response.line, pairs[k].response.body>>]

\* Every file of a stream that was stored as a whole is carved out byte for byte,
\* unless the list is full.
FilesFound ==
  \A f \in Shown : \A s \in {t \in Sent : Complete(f.rows, t)} :
    f.anchor \in {s.from, s.to} =>
      \A objects \in {Objects(Analysis(f.rows, f.anchor))} :
        Len(objects) < MaxFound =>
          \A file \in s.files : \E o \in ToSet(objects) :
            o.data = file /\ o.direction = DirectionOf(s, f.anchor)

\* Every string of letters that is long enough and decodes is found in a stream that
\* was stored as a whole, unless the list is full or a single byte parts it from a
\* letter: that byte may already belong to the match before.
StringsFound ==
  \A f \in Shown : \A s \in {t \in Sent : Complete(f.rows, t)} :
    f.anchor \in {s.from, s.to} =>
      LET candidates == Candidates(Analysis(f.rows, f.anchor))
          Letter(i) == i \in DOMAIN s.bytes /\ Is(s.bytes[i], "letter")
      IN  Len(candidates) < MaxFound =>
            \A i \in DOMAIN s.bytes :
              LET j == RunEnd(s.bytes, i)
              IN  (/\ j - i + 1 >= RunLength /\ Decodes(SubSeq(s.bytes, i, j))
                   /\ ~Letter(i - 1) /\ ~Letter(i - 2)) =>
                    \E c \in ToSet(candidates) : /\ c.value = SubSeq(s.bytes, i, j)
                                                 /\ c.direction = DirectionOf(s, f.anchor)

\* An offline row of a table that replaced that of row; what may be shown for row
ReplacedBy(row, r) == r.source = "offline" /\ r.gen > row.gen
Answers(row, r) == r.id = row.id /\ (r = row \/ ReplacedBy(row, r))

\* Nothing is shown for a row that was stored before it: a live packet is shown
\* with its own bytes and in its own flow, seen from its own sender; an offline one
\* too, unless the table was dropped since, and then with what replaced it.
ShowsTheRow ==
  /\ pane # None => Answers(pane.row, pane.detail)
  /\ window # None =>
       \/ ReplacedBy(window.want, window.rows[Len(window.rows)])
       \/ /\ window.want \in ToSet(window.rows) \/ Len(window.rows) = Limit
          /\ window.anchor = window.want.from
  /\ export.at = "done" =>
       \A r \in export.rows : \/ Answers(r.of, r.row)
                              \/ r.row = Bare(r.of) /\ r.of \notin ToSet(live \o offline)
===============================================================================
