------------------------------ MODULE PacketPages ------------------------------
(***************************************************************************)
(* One query of the traffic page: a page of packets, a page of offline     *)
(* frames, or the rows of an export.  It takes several SQL statements, and *)
(* between two of them the live worker or an import adds rows, rows are    *)
(* cleared, and alerts raise the risk of a flow.                           *)
(***************************************************************************)
EXTENDS PacketRules, Sequences, SequencesExt

CONSTANTS
  Contents,    (* packets and frames, by their columns; id and risk come later *)
  Requests,    (* the queries asked for                                        *)
  PageSize,    (* rows of a page, at least 50 in the code                      *)
  ChunkSize,   (* rows of a chunk of a scan, 1000 or the page size in the code *)
  ExportLimit, (* max_rows of an export, at least 100 in the code              *)
  MaxRows      (* bound on the rows ever stored                                *)

Risk == 0 .. 3
Request ==
  [op : {"page", "frames", "export"}, page : Nat, source : {"", "live", "offline"},
   sort : {"ts", "length", "risk"}, desc : BOOLEAN, abnormal : BOOLEAN,
   rule : {r.rule : r \in Requests}]

ASSUME PagesAssumption ==
  /\ PageSize \in Nat \ {0} /\ ChunkSize \in Nat /\ ChunkSize >= PageSize
  /\ ExportLimit \in Nat \ {0} /\ MaxRows \in Nat
  /\ Contents \subseteq Packets \cup Frames
  /\ Requests \subseteq Request
  /\ \A r \in Requests : r.page > 0 /\ IsRule(r.rule)
  (* the frame table has one order and no filter but its rule *)
  /\ \A r \in Requests : r.op = "frames" =>
       r.source = "offline" /\ r.sort = "ts" /\ ~r.desc /\ ~r.abnormal

VARIABLES
  duck,     (* the DuckDB store is in use                                *)
  table,    (* the rows stored: content by id                            *)
  last,     (* the last id given                                         *)
  risk,     (* flow_risk_summary: the rank of each content's flow        *)
  request,  (* the query under way or answered                           *)
  at,       (* its statement                                             *)
  chunk,    (* rows just read                                            *)
  offset,   (* offset of a scan                                          *)
  rows,     (* result: rows                                              *)
  total,    (* result: total                                             *)
  page,     (* result: page                                              *)
  pages,    (* result: total_pages, 0 while it is not known              *)
  started,  (* history: the table when the query began                   *)
  moved     (* history: what happened to the table since                 *)

store == <<duck, table, last, risk>>
result == <<rows, total, page, pages>>
query == <<request, at, chunk, offset, result>>
history == <<started, moved>>
vars == <<store, query, history>>

NoRequest == [op |-> "none"]

Init ==
  /\ duck \in BOOLEAN
  /\ table = << >> /\ last = 0
  /\ risk = [c \in Contents |-> 0]
  /\ request = NoRequest /\ at = "idle"
  /\ chunk = << >> /\ offset = 0
  /\ rows = << >> /\ total = 0 /\ page = 1 /\ pages = 0
  /\ started = << >> /\ moved = {}

-------------------------------------------------------------------------------
(* Rows                                                                     *)

Level == <<"normal", "low", "medium", "high">>
IsFrame(c) == "summary" \in DOMAIN c
\* The store of offline rows gives out ids above those of the sqlite table.
OutsideId(id, c) == IF duck /\ c.source.word = "offline" THEN MaxRows + id ELSE id
\* A row as the matcher sees it; frames have no risk.
Row(id, c, rank) ==
  With(With(c, "id", Number(OutsideId(id, c))), "risk", Text(Level[rank + 1], FALSE))
\* A row as SQL sees it
Stored(id) == With(table[id], "id", Number(id))

\* The condition on the source, _build_packet_filter_sql: with DuckDB the sqlite
\* table is not asked for offline rows.
InDuck(r) == duck /\ r.source = "offline"
Visible(c, r) ==
  /\ IsFrame(c) <=> r.op = "frames"
  /\ IF r.source # "" THEN c.source.word = r.source ELSE duck => c.source.word # "offline"

\* rule_expr is empty or was compiled to SQL; frames know no compiled rules.
PushedDown(r) == r.rule = {} \/ (r.op # "frames" /\ InSql(r.rule))
Direct(r) == PushedDown(r) /\ ~r.abnormal /\ r.sort # "risk"
Match(r, row) == MatchRule(row, r.rule, r.op = "frames")

\* The members of DOMAIN below in an order in which those of below[x] come before x
Arranged(below) ==
  [n \in 1 .. Cardinality(DOMAIN below) |->
     CHOOSE x \in DOMAIN below : Cardinality(below[x]) = n - 1]

\* The same for the elements of a sequence, below by their places
Rearranged(s, below) ==
  LET order == Arranged(below) IN [n \in DOMAIN order |-> s[order[n]]]

\* A row of a result: [id, content, rank], rank 0 until the risk is attached.
Key(x, sort) ==
  CASE sort = "ts" -> x.content.ts.halves
    [] sort = "length" -> x.content.length.halves
    [] sort = "risk" -> x.rank

\* _build_packet_sort_sql: by the key, then by id, both in one direction.  Rows
\* collected in the order of time and then sorted by risk keep it among equals.
Before(x, y, sort) ==
  LET tie == IF sort = "risk" THEN "ts" ELSE sort
  IN  \/ Key(x, sort) < Key(y, sort)
      \/ Key(x, sort) = Key(y, sort) /\ Key(x, tie) < Key(y, tie)
      \/ Key(x, sort) = Key(y, sort) /\ Key(x, tie) = Key(y, tie) /\ x.id < y.id
Comes(x, y, sort, desc) == IF desc THEN Before(y, x, sort) ELSE Before(x, y, sort)
Sorted(S, sort, desc) == Arranged([x \in S |-> {y \in S : Comes(y, x, sort, desc)}])

Plain(id) == [id |-> id, content |-> table[id], rank |-> 0]
Selected(r) ==
  {id \in DOMAIN table : /\ Visible(table[id], r)
                         /\ r.rule # {} /\ PushedDown(r) => SqlRule(Stored(id), r.rule, InDuck(r))}

\* LIMIT ... OFFSET ... in a sequence
Slice(s, limit, skip) == SubSeq(s, skip + 1, IF skip + limit < Len(s) THEN skip + limit ELSE Len(s))

\* _query_packet_rows_chunk; a sort by risk reads in the order of time.
Read(r, limit, skip) ==
  Slice(Sorted({Plain(id) : id \in Selected(r)}, IF r.sort = "risk" THEN "ts" ELSE r.sort, r.desc),
        limit, skip)

\* _attach_packet_risk
WithRisk(s, r) ==
  IF r.op = "frames" THEN s ELSE [n \in DOMAIN s |-> [s[n] EXCEPT !.rank = risk[s[n].content]]]

\* The tests of the scanning loop
Kept(x, r) ==
  /\ PushedDown(r) \/ Match(r, Row(x.id, x.content, x.rank))
  /\ r.abnormal => x.rank > 0
Filtered(s, r) ==
  LET kept == {n \in DOMAIN s : Kept(s[n], r)}
  IN  Rearranged(s, [n \in kept |-> {m \in kept : m < n}])

\* A stable sort by risk
ByRisk(s, desc) ==
  LET before(m, n) == IF desc THEN s[n].rank < s[m].rank ELSE s[m].rank < s[n].rank
  IN  Rearranged(s, [n \in DOMAIN s |->
                       {m \in DOMAIN s : before(m, n) \/ (s[m].rank = s[n].rank /\ m < n)}])

Smaller(m, n) == IF m < n THEN m ELSE n
PagesOf(n) == IF n = 0 THEN 1 ELSE (n + PageSize - 1) \div PageSize

-------------------------------------------------------------------------------
(* The query                                                                *)

Goes(to) == at' = to

\* query_packets_page, query_packets_filtered or query_offline_frames_page begins
Ask(r) ==
  /\ at = "idle"
  /\ r.op = "frames" => duck
  /\ request' = r
  /\ Goes(IF ~Direct(r) THEN "scan" ELSE IF r.op = "frames" THEN "count" ELSE "read")
  /\ chunk' = << >> /\ offset' = 0
  /\ rows' = << >> /\ total' = 0 /\ page' = r.page /\ pages' = 0
  /\ started' = table /\ moved' = {}
  /\ UNCHANGED store

Limit == IF request.op = "export" THEN ExportLimit ELSE PageSize
\* target_start of a page
Skip(pg) == IF request.op = "export" THEN 0 ELSE (pg - 1) * PageSize

\* A page or an export in one statement
ReadPage ==
  /\ at = "read"
  /\ chunk' = Read(request, Limit, Skip(page))
  /\ Goes("attach")
  /\ UNCHANGED <<store, request, offset, result, history>>

\* Mutant of AttachPage: a result of exactly the limit needs no count either.
AttachPageUncounted ==
  /\ at = "attach"
  /\ rows' = WithRisk(chunk, request)
  /\ chunk' = << >>
  /\ IF pages # 0 THEN Goes("done") /\ UNCHANGED <<total, pages>>
     ELSE IF page = 1 /\ Len(rows') <= Limit
     THEN Goes("done") /\ total' = Len(rows') /\ pages' = 1
     ELSE Goes("count") /\ UNCHANGED <<total, pages>>
  /\ UNCHANGED <<store, request, offset, page, history>>

\* The first page that is not full, and an export below its limit, need no count.
AttachPage ==
  /\ at = "attach"
  /\ rows' = WithRisk(chunk, request)
  /\ chunk' = << >>
  /\ IF pages # 0 THEN Goes("done") /\ UNCHANGED <<total, pages>>
     ELSE IF page = 1 /\ Len(rows') < Limit
     THEN Goes("done") /\ total' = Len(rows') /\ pages' = 1
     ELSE Goes("count") /\ UNCHANGED <<total, pages>>
  /\ UNCHANGED <<store, request, offset, page, history>>

\* Mutant of Count: the page is not read again.
CountOnly ==
  /\ at = "count"
  /\ total' = Cardinality(Selected(request))
  /\ pages' = PagesOf(total')
  /\ page' = Smaller(page, pages')
  /\ Goes(IF request.op = "frames" THEN "read" ELSE "done")
  /\ UNCHANGED <<store, request, chunk, offset, rows, history>>

\* A page beyond the last one is read again as the last one; frames are counted
\* before they are read.
Count ==
  /\ at = "count"
  /\ total' = Cardinality(Selected(request))
  /\ pages' = PagesOf(total')
  /\ page' = Smaller(page, pages')
  /\ Goes(IF request.op = "frames" \/ (request.op = "page" /\ page' # request.page)
          THEN "read" ELSE "done")
  /\ UNCHANGED <<store, request, chunk, offset, rows, history>>

\* Mutant of ScanChunk: the last row of a full chunk is read again.
ScanChunkInclusive ==
  /\ at = "scan"
  /\ chunk' = Read(request, ChunkSize, offset)
  /\ offset' = offset + Len(chunk') - (IF Len(chunk') = ChunkSize THEN 1 ELSE 0)
  /\ Goes(IF chunk' = << >> THEN "finish" ELSE "collect")
  /\ UNCHANGED <<store, request, result, history>>

\* The loop of a scan: until a chunk is empty
ScanChunk ==
  /\ at = "scan"
  /\ chunk' = Read(request, ChunkSize, offset)
  /\ offset' = offset + Len(chunk')
  /\ Goes(IF chunk' = << >> THEN "finish" ELSE "collect")
  /\ UNCHANGED <<store, request, result, history>>

\* Mutant of Window: the first row of the page is skipped.
LateWindow(kept, first) ==
  LET from == IF first - total < 0 THEN 1 ELSE first - total + 2
  IN  SubSeq(kept, from, Smaller(Len(kept), first + Limit - total))

\* The rows of a chunk that belong to the page, by their number among the matches
Window(kept, first) ==
  LET from == IF first - total < 0 THEN 1 ELSE first - total + 1
  IN  SubSeq(kept, from, Smaller(Len(kept), first + Limit - total))

CollectChunk ==
  /\ at = "collect"
  /\ LET kept == Filtered(WithRisk(chunk, request), request)
     IN  /\ rows' = rows \o (IF request.sort = "risk" THEN kept ELSE Window(kept, Skip(page)))
         /\ total' = total + Len(kept)
  /\ chunk' = << >>
  /\ Goes("scan")
  /\ UNCHANGED <<store, request, offset, page, pages, history>>

\* A sort by risk sorts what was collected (a stable sort) and cuts the page out;
\* another scan keeps the rows of the page asked for, also when that is beyond
\* the last one.
FinishPackets ==
  /\ at = "finish" /\ request.op # "frames"
  /\ pages' = PagesOf(total)
  /\ page' = Smaller(page, pages')
  /\ IF request.sort = "risk"
     THEN rows' = Slice(ByRisk(rows, request.desc), Limit, Skip(page'))
     ELSE UNCHANGED rows
  /\ Goes("done")
  /\ UNCHANGED <<store, request, chunk, offset, total, history>>

\* Frames are scanned again when the page asked for is beyond the last one.
FinishFrames ==
  /\ at = "finish" /\ request.op = "frames"
  /\ IF pages # 0 THEN Goes("done") /\ UNCHANGED <<rows, total, page, pages, offset>>
     ELSE /\ pages' = PagesOf(total)
          /\ page' = Smaller(page, pages')
          /\ IF page' = page THEN Goes("done") /\ UNCHANGED <<rows, total, offset>>
             ELSE Goes("scan") /\ rows' = << >> /\ total' = 0 /\ offset' = 0
  /\ UNCHANGED <<store, request, chunk, history>>

\* The answer is handed over: _consume_packet_query_result, or the export's file.
Consume ==
  /\ at = "done"
  /\ Goes("idle")
  /\ request' = NoRequest /\ offset' = 0
  /\ rows' = << >> /\ total' = 0 /\ page' = 1 /\ pages' = 0
  /\ started' = << >> /\ moved' = {}
  /\ UNCHANGED <<store, chunk>>

-------------------------------------------------------------------------------
(* What happens meanwhile.  While an answer waits to be handed over nothing    *)
(* does: it would change nothing of the answer.                                *)

Moves(how) ==
  /\ at # "done"
  /\ moved' = IF at = "idle" THEN {} ELSE moved \cup {how}
  /\ UNCHANGED <<query, started>>

\* The live worker or an import stores a packet or a frame; those of an import
\* may be older than rows already stored.
Newest(c) == \A id \in DOMAIN table : table[id].ts.halves <= c.ts.halves
Insert(c) ==
  /\ last < MaxRows
  /\ last' = last + 1
  /\ table' = With(table, last', c)
  /\ Moves(IF Newest(c) THEN "grown" ELSE "backdated")
  /\ UNCHANGED <<duck, risk>>

\* Rows are cleared; what that does to the alerts is Rerank's.
Discard(source) ==
  /\ \E id \in DOMAIN table : table[id].source.word = source
  /\ table' = [id \in {i \in DOMAIN table : table[i].source.word # source} |-> table[id]]
  /\ Moves("shrunk")
  /\ UNCHANGED <<duck, last, risk>>

\* An alert raises the rank of a flow, or its alerts are cleared.
Rerank(c, rank) ==
  /\ ~IsFrame(c) /\ risk[c] # rank
  /\ risk' = [risk EXCEPT ![c] = rank]
  /\ Moves("reranked")
  /\ UNCHANGED <<duck, table, last>>

-------------------------------------------------------------------------------
Query ==
  \/ ReadPage \/ AttachPage \/ Count
  \/ ScanChunk \/ CollectChunk \/ FinishPackets \/ FinishFrames
  \/ Consume
Elsewhere ==
  \/ \E c \in Contents : Insert(c) \/ \E rank \in {0, 3} : Rerank(c, rank)
  \/ \E source \in {"live", "offline"} : Discard(source)

Next == Query \/ Elsewhere \/ \E r \in Requests : Ask(r)

Spec == Init /\ [][Next]_vars

-------------------------------------------------------------------------------
(* Properties *)

Answered == at = "done"

\* What the query is about: the rows the matcher in Python takes, in order.
Wanted(tbl, r) ==
  LET all == {[id |-> id, content |-> tbl[id], rank |-> risk[tbl[id]]] : id \in DOMAIN tbl}
  IN  {x \in all : /\ Visible(x.content, r)
                   /\ Match(r, Row(x.id, x.content, x.rank))
                   /\ r.abnormal => x.rank > 0}
Reference(tbl) == Sorted(Wanted(tbl, request), request.sort, request.desc)
ThePage(tbl) == Slice(Reference(tbl), Limit, Skip(page))

\* The literals of a rule that SQL applies are written as the rows have them (see
\* PacketRules); any other rule is the matcher's.
Alike(tbl) ==
  PushedDown(request) =>
    \A id \in DOMAIN tbl : ~IsFrame(tbl[id]) => SpeltLike(Row(id, tbl[id], 0), request.rule, InDuck(request))

\* A scan that is asked for a page beyond its last one answers no rows at all.
Beyond == ~Direct(request) /\ request.op = "page" /\ request.sort # "risk" /\ request.page > pages

\* The SQL condition a rule is compiled to selects the rows that the matcher in
\* Python would, in sqlite as in DuckDB, unless the rule is spelt in another way
\* than the rows.
SqlAgreesWithMatcher ==
  Answered => \A id \in DOMAIN table :
    ~IsFrame(table[id]) => SameInBoth(Stored(id), request.rule, InDuck(request))

\* When nothing moved during a query, its answer is exact whichever of the three
\* paths it took: the total, the pages, and the rows of the page in order, with
\* their risk; a page beyond the last one is answered with the last one.
AnswerExact ==
  Answered /\ moved = {} /\ Alike(table) /\ ~Beyond =>
    /\ total = Len(Reference(table))
    /\ request.op # "export" => pages = PagesOf(total) /\ page = Smaller(request.page, pages)
    /\ rows = ThePage(table)

OldestFirst == request.sort = "ts" /\ ~request.desc

\* While rows are only added, none older than those stored, a page sorted with the
\* oldest row first holds what it held when the query began, and after that only
\* what it would hold now.
OldestFirstIsStable ==
  Answered /\ moved \subseteq {"grown"} /\ OldestFirst /\ Alike(table) /\ ~Beyond =>
    IsPrefix(ThePage(started), rows) /\ IsPrefix(rows, ThePage(table))

\* No row is in an answer twice, but for a scan of a table that grew before the
\* place the scan had reached.
NoRowTwice ==
  /\ Answered
  /\ \/ Direct(request)
     \/ OldestFirst /\ "backdated" \notin moved
     \/ moved \cap {"grown", "backdated"} = {}
  =>
    IsInjective([n \in DOMAIN rows |-> rows[n].id])

\* An export that does not say it was truncated has every row that was there
\* when it began, also when the table grew under its scan.
ExportIsComplete ==
  Answered /\ request.op = "export" /\ moved \subseteq {"grown", "backdated"} /\ Alike(table) =>
    total > Len(rows) \/ Wanted(started, request) \subseteq ToSet(rows)
===============================================================================
