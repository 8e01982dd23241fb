------------------------------ MODULE StreamMerge ------------------------------
(***************************************************************************)
(* FlowWorkbenchService on the rows of one flow: what a stored frame says   *)
(* it carries, the two directions of a flow, and how their segments become  *)
(* three byte strings.  Bytes are opaque.  A row is                         *)
(*   [id, source, gen, ts, proto, from, to, link, head, seq, bytes]         *)
(* from and to are endpoints (address and port); bytes are those of the     *)
(* frame behind the transport header that the store has kept, padding       *)
(* included, and head is FALSE when not even the headers were kept.         *)
(***************************************************************************)
EXTENDS Integers, SequencesExt

CONSTANTS
  EtherLike, (* endpoints whose IPv4 address begins with the two bytes of an  *)
             (* EtherType: 8.0.0.0/16, 129.0.0.0/16 and 134.221.0.0/16        *)
  NoSeq      (* a segment without a sequence number                          *)

ASSUME MergeAssumption == NoSeq \notin Int

\* A frame without a link header is told from an Ethernet frame by its bytes
\* 12 and 13, which are the first two of the source address of an IPv4 packet.
Readable(row) ==
  /\ row.head
  /\ row.link = "ip" => row.from \notin EtherLike

\* _extract_transport_payload.  What follows the headers, up to the end of
\* what is stored: the total length of the IP header is not consulted.
TransportPayload(row) == IF Readable(row) THEN row.bytes ELSE <<>>

Sequence(row) == IF row.proto = "TCP" THEN row.seq ELSE NoSeq

\* Who sends what the anchor sends is the client, everybody else the server.
DirectionOf(row, anchor) == IF row.from = anchor THEN "C->S" ELSE "S->C"

\* The elements of a sequence at these places, in the order they stand there
ElementsAt(seq, places) ==
  LET before == [p \in places |-> {q \in places : q < p}]
  IN  [n \in 1 .. Cardinality(places) |->
         seq[CHOOSE p \in places : Cardinality(before[p]) = n - 1]]

\* collect_segments: rows without payload make no segment but count in the order
Segments(rows, anchor) ==
  LET Segment(i) == [id |-> rows[i].id, direction |-> DirectionOf(rows[i], anchor),
                     proto |-> rows[i].proto, payload |-> TransportPayload(rows[i]),
                     sequence |-> Sequence(rows[i]), order |-> i]
  IN  ElementsAt([i \in DOMAIN rows |-> Segment(i)],
                 {i \in DOMAIN rows : TransportPayload(rows[i]) # <<>>})

OfDirection(segments, direction) ==
  ElementsAt(segments, {i \in DOMAIN segments : segments[i].direction = direction})

\* Segments without a number come first; equal numbers keep the order of capture.
InSequence(segments) ==
  LET Rank(s) == IF s.sequence = NoSeq THEN -1 ELSE s.sequence
      Sooner(s, t) == Rank(s) < Rank(t) \/ (Rank(s) = Rank(t) /\ s.order < t.order)
      before == [i \in DOMAIN segments |->
                   {j \in DOMAIN segments : Sooner(segments[j], segments[i])}]
  IN  [n \in DOMAIN segments |->
         segments[CHOOSE i \in DOMAIN segments : Cardinality(before[i]) = n - 1]]

\* Mutant of Extend: a segment that begins before the end is appended whole.
ExtendWhole(merged, s) ==
  [bytes |-> merged.bytes \o s.payload,
   end |-> IF s.sequence = NoSeq THEN merged.end ELSE s.sequence + Len(s.payload)]

\* One turn of the loop of _merge_direction_payload: what the merged bytes
\* already reach is cut off, a gap is closed without a mark.
Extend(merged, s) ==
  IF s.sequence = NoSeq
  THEN [merged EXCEPT !.bytes = @ \o s.payload]
  ELSE LET known == IF merged.end = NoSeq \/ s.sequence >= merged.end THEN 0
                    ELSE merged.end - s.sequence
       IN  IF known > 0 /\ known >= Len(s.payload) THEN merged
           ELSE [bytes |-> merged.bytes \o SubSeq(s.payload, known + 1, Len(s.payload)),
                 end |-> s.sequence + Len(s.payload)]

\* What is merged after each segment, and the number behind its last byte
Merged(segments) ==
  LET after[k \in 0 .. Len(segments)] ==
        IF k = 0 THEN [bytes |-> <<>>, end |-> NoSeq] ELSE Extend(after[k - 1], segments[k])
  IN  after

\* Without numbers, payload is put behind payload.
PayloadOf(segments) ==
  Merged([k \in DOMAIN segments |-> [segments[k] EXCEPT !.sequence = NoSeq]])[Len(segments)].bytes

MergeDirection(segments) ==
  IF segments = <<>> THEN <<>>
  ELSE IF Head(segments).proto # "TCP" THEN PayloadOf(segments)
  ELSE Merged(InSequence(segments))[Len(segments)].bytes

MergeInterleaved(segments) == PayloadOf(segments)

\* analyze_flow, as far as the three byte strings and their packets go
Analysis(rows, anchor) ==
  LET segments == Segments(rows, anchor)
      Part(d) == OfDirection(segments, d)
      Ids(part) == [i \in DOMAIN part |-> part[i].id]
  IN  [segments |-> segments,
       client |-> MergeDirection(Part("C->S")), clientIds |-> Ids(Part("C->S")),
       server |-> MergeDirection(Part("S->C")), serverIds |-> Ids(Part("S->C")),
       both |-> MergeInterleaved(segments), ids |-> Ids(segments)]

\* A finite set as a sequence (SetToSeq would try every one of them)
Listing(S) ==
  LET after[k \in 0 .. Cardinality(S)] ==
        IF k = 0 THEN [list |-> <<>>, left |-> S]
        ELSE LET x == CHOOSE x \in after[k - 1].left : TRUE
             IN  [list |-> Append(after[k - 1].list, x), left |-> after[k - 1].left \ {x}]
  IN  after
Listed(S) == Listing(S)[Cardinality(S)].list

\* The id a store has given: an offline one is negative here, OFFLINE_ID_BASE + n there.
Number(row) == IF row.id < 0 THEN -row.id ELSE row.id

\* query_flow_packets reads the rows of a flow by time, then id, up to Limit; no
\* two of them have both in common.
ByTime(rows) ==
  LET before == [r \in rows |->
                   {s \in rows : s.ts < r.ts \/ (s.ts = r.ts /\ Number(s) < Number(r))}]
  IN  [n \in 1 .. Cardinality(rows) |-> CHOOSE r \in rows : Cardinality(before[r]) = n - 1]

SameFlow(row, seed) ==
  /\ row.source = seed.source /\ row.proto = seed.proto
  /\ {row.from, row.to} = {seed.from, seed.to}
===============================================================================
