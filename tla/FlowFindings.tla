----------------------------- MODULE FlowFindings -----------------------------
(***************************************************************************)
(* What FlowWorkbenchService finds in a merged flow: strings that may be    *)
(* encoded, files, and the messages of HTTP, which PacketBatchExportService *)
(* pairs.  Token[b] says what a byte, or the few bytes it stands for, looks *)
(* like: [kind, of, size].                                                  *)
(***************************************************************************)
EXTENDS StreamMerge

CONSTANTS
  Token,     (* what each byte looks like                                    *)
  Decodes(_), (* what b32decode, b64decode or fromhex makes bytes of, rather *)
             (* than raise: the length and the padding decide                *)
  RunLength, (* the letters a string must have: 8, 12 and 16 in the code     *)
  Piece,     (* the letters a segment may have to count as a piece: 8        *)
  Apart,     (* how far apart in the order pieces may be: 3                  *)
  Window,    (* the bytes taken of a file without an end of its own: 262144  *)
  MaxFound   (* findings kept: 120 strings, 80 files                         *)

ASSUME FindingsAssumption ==
  /\ RunLength \in Nat \ {0} /\ Piece \in Nat /\ Apart \in Nat
  /\ Window \in Nat \ {0} /\ MaxFound \in Nat \ {0}
  /\ \A b \in DOMAIN Token : Token[b].size \in Nat

Is(b, kind) == Token[b].kind = kind

\* The first of some places, 0 if there is none
FirstOf(places) == IF places = {} THEN 0 ELSE Min(places)

-------------------------------------------------------------------------------
(* Strings.  One alphabet stands for the three of the code. *)

\* The last letter of the run that begins at i, i - 1 if there is none
RunEnd(p, i) ==
  LET others == {k \in i .. Len(p) : ~Is(p[k], "letter")}
  IN  IF others = {} THEN Len(p) ELSE Min(others) - 1

\* Mutant of Runs: a run needs a byte before it.
RunsInside(p) ==
  LET From[i \in 1 .. Len(p) + 2] ==
        IF i > Len(p) THEN <<>>
        ELSE IF ~Is(p[i], "letter") /\ RunEnd(p, i + 1) - i >= RunLength
        THEN <<SubSeq(p, i + 1, RunEnd(p, i + 1))>> \o From[RunEnd(p, i + 1) + 2]
        ELSE From[i + 1]
  IN  From[1]

\* The pattern takes a byte that is no letter on either side of the run, or the
\* end of the text, and goes on behind the byte it took.
Runs(p) ==
  LET From[i \in 1 .. Len(p) + 2] ==
        IF i > Len(p) THEN <<>>
        ELSE LET first == IF Is(p[i], "letter") THEN i ELSE i + 1
                 end == RunEnd(p, first)
             IN  IF (first = i => i = 1) /\ end - first + 1 >= RunLength
                 THEN <<SubSeq(p, first, end)>> \o From[end + 2]
                 ELSE From[i + 1]
  IN  From[1]

Letters(s) == ElementsAt(s.payload, {i \in DOMAIN s.payload : Is(s.payload[i], "letter")})

\* The string that is being put together is done with.
Closed(m) == IF m.parts = <<>> THEN m.done ELSE Append(m.done, m.parts)

\* A segment of few letters belongs to the string, unless it comes too late.
Piecewise(m, s) ==
  LET letters == Letters(s)
  IN  IF letters = <<>> \/ Len(letters) > Piece
      THEN [parts |-> <<>>, last |-> m.last, done |-> Closed(m)]
      ELSE IF m.parts # <<>> /\ s.order - m.last > Apart
      THEN [parts |-> letters, last |-> s.order, done |-> Closed(m)]
      ELSE [parts |-> m.parts \o letters, last |-> s.order, done |-> m.done]

\* The loop of _extract_fragmented_base32_candidates over the segments of a direction
Pieced(part) ==
  LET after[k \in 0 .. Len(part)] ==
        IF k = 0 THEN [parts |-> <<>>, last |-> 0, done |-> <<>>]
        ELSE Piecewise(after[k - 1], part[k])
  IN  after

\* Pieces of one direction that follow each other closely, joined in the order of
\* capture; _flush_fragmented_base32 drops what is short or does not decode.
Joined(segments, direction) ==
  LET part == OfDirection(segments, direction)
      closed == Closed(Pieced(part)[Len(part)])
      Kept(v) == Len(v) >= RunLength /\ Decodes(v)
  IN  ElementsAt(closed, {i \in DOMAIN closed : Kept(closed[i])})

\* _regex_candidates drops a match that does not decode.
Decoded(p) == {v \in ToSet(Runs(p)) : Decodes(v)}

\* extract_candidates: of equal values the one put together from pieces stays,
\* being held in higher confidence; the rest is cut off.
Candidates(analysis) ==
  LET Of(values, direction, kind) ==
        {[value |-> v, direction |-> direction, kind |-> kind] : v \in values}
      pieces == UNION {Of(ToSet(Joined(analysis.segments, d)), d, "fragmented") :
                         d \in {"C->S", "S->C"}}
      parts == {<<analysis.client, "C->S">>, <<analysis.server, "S->C">>,
                <<analysis.both, "both">>}
      whole == UNION {Of(Decoded(part[1]), part[2], "reassembled") : part \in parts}
      lesser == {c \in whole : [c EXCEPT !.kind = "fragmented"] \notin pieces}
      ranked == Listed(pieces) \o Listed(lesser)
  IN  SubSeq(ranked, 1, Min({MaxFound, Len(ranked)}))

-------------------------------------------------------------------------------
(* Files.  A signature, an end mark and what follows it count as one byte.   *)

\* A type goes by its place in this list.
Types == <<"elf", "gif", "gzip", "jpeg", "pdf", "pe", "png", "zip">>

Begins(b, type) == Is(b, "signature") /\ Token[b].of = type
Ends(b, type) == Is(b, "end") /\ Token[b].of = type

EndMark(p, from, type) == FirstOf({k \in from .. Len(p) : Ends(p[k], type)})

\* _slice_png, _slice_jpeg, _slice_gif
ToEndMark(p, from, type) == EndMark(p, from, type)

\* _slice_zip: the end record names the length of a comment
ToEndOfZip(p, from) ==
  LET mark == EndMark(p, from, "zip")
      end == mark + Token[p[mark]].size
  IN  IF mark # 0 /\ end \in mark .. Len(p) THEN end ELSE 0

\* _slice_pdf: line ends after the end mark belong to the file
ToEndOfPdf(p, from) ==
  LET mark == EndMark(p, from, "pdf")
      other == FirstOf({k \in mark + 1 .. Len(p) : ~Is(p[k], "newline")})
  IN  IF mark = 0 THEN 0 ELSE IF other = 0 THEN Len(p) ELSE other - 1

\* _slice_gzip, _slice_pe, _slice_elf
ToWindow(p, from) == Min({Len(p), from + Window - 1})

\* The last byte of the file that begins at from, 0 if it has no end
SliceEnd(p, from, type) ==
  CASE type = "zip" -> ToEndOfZip(p, from)
    [] type = "pdf" -> ToEndOfPdf(p, from)
    [] type \in {"gzip", "pe", "elf"} -> ToWindow(p, from)
    [] OTHER -> ToEndMark(p, from, type)

\* Mutant of Carve: the next search begins one byte too late.
CarveLate(p, type) ==
  LET From[i \in 1 .. Len(p) + 2] ==
        IF i > Len(p) THEN {}
        ELSE IF ~Begins(p[i], type) THEN From[i + 1]
        ELSE LET end == SliceEnd(p, i, type)
             IN  IF end = 0 THEN From[i + 1] ELSE {<<i, end>>} \union From[end + 2]
  IN  From[1]

\* _scan_carved_objects for one type: where its files begin and end
Carve(p, type) ==
  LET From[i \in 1 .. Len(p) + 2] ==
        IF i > Len(p) THEN {}
        ELSE IF ~Begins(p[i], type) THEN From[i + 1]
        ELSE LET end == SliceEnd(p, i, type)
             IN  IF end = 0 THEN From[i + 1] ELSE {<<i, end>>} \union From[end + 1]
  IN  From[1]

\* What _scan_carved_objects finds of all types
Carved(p, direction) ==
  UNION {{[type |-> k, offset |-> c[1], size |-> c[2] - c[1] + 1,
           direction |-> direction, data |-> SubSeq(p, c[1], c[2])] : c \in Carve(p, Types[k])} :
           k \in DOMAIN Types}

\* By place, then by type
InPlace(objects) ==
  LET Sooner(o, q) == \/ o.offset < q.offset
                      \/ o.offset = q.offset /\ o.type < q.type
      before == [o \in objects |-> {q \in objects : Sooner(q, o)}]
  IN  [n \in 1 .. Cardinality(objects) |->
         CHOOSE o \in objects : Cardinality(before[o]) = n - 1]

\* extract_carved_objects: by direction, place and type
Objects(analysis) ==
  LET ordered == InPlace(Carved(analysis.client, "C->S")) \o InPlace(Carved(analysis.server, "S->C"))
                   \o InPlace(Carved(analysis.both, "both"))
  IN  SubSeq(ordered, 1, Min({MaxFound, Len(ordered)}))

-------------------------------------------------------------------------------
(* HTTP.  A first line carries the Content-Length of its message as size.    *)

NoMessage == [line |-> NoSeq, length |-> 0, body |-> <<>>]

\* Where the first lines of that kind are
FirstLines(p, kind) == ElementsAt([i \in DOMAIN p |-> i], {i \in DOMAIN p : Is(p[i], kind)})

\* _extract_http_messages: a message ends where the next first line begins, in
\* a body too; the body is cut to the length it was announced with.
Messages(p, kind) ==
  LET starts == FirstLines(p, kind)
      Message(k) ==
        LET last == IF k < Len(starts) THEN starts[k + 1] - 1 ELSE Len(p)
            blank == FirstOf({i \in starts[k] .. last : Is(p[i], "blank")})
            rest == IF blank = 0 THEN <<>> ELSE SubSeq(p, blank + 1, last)
            length == Token[p[starts[k]]].size
        IN  [line |-> p[starts[k]], length |-> length,
             body |-> IF length > 0 /\ length <= Len(rest) THEN SubSeq(rest, 1, length)
                      ELSE rest]
  IN  [k \in DOMAIN starts |-> Message(k)]

Requests(p) == Messages(p, "request")

\* The length shown is at least the announced one.
Responses(p) ==
  LET found == Messages(p, "response")
  IN  [k \in DOMAIN found |-> [found[k] EXCEPT !.length = Max({@, Len(found[k].body)})]]

\* Mutant of Resolve: the client is taken to be the one who asks.
ResolveAsNamed(client, server) == <<Requests(client), Responses(server)>>

\* _resolve_http_messages: whoever sent the first packet need not be the one
\* who asks.
Resolve(client, server) ==
  LET Found(asking, answering) == Len(FirstLines(asking, "request"))
                                    + Len(FirstLines(answering, "response"))
  IN  IF Found(server, client) > Found(client, server)
      THEN <<Requests(server), Responses(client)>>
      ELSE <<Requests(client), Responses(server)>>

\* The k-th of each make a pair.
PairsOf(requests, responses) ==
  LET Nth(messages, k) == IF k \in DOMAIN messages THEN messages[k] ELSE NoMessage
  IN  [k \in 1 .. Max({Len(requests), Len(responses)}) |->
         [request |-> Nth(requests, k), response |-> Nth(responses, k)]]

\* extract_http_interaction_rows for one flow
Pairs(analysis) ==
  LET both == Resolve(analysis.client, analysis.server)
  IN  PairsOf(both[1], both[2])
===============================================================================
