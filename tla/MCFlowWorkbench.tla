---------------------------- MODULE MCFlowWorkbench ----------------------------
EXTENDS FlowWorkbench

\* A byte is <<its stream, its place, what it looks like>>.
Is0(kind) == [kind |-> kind, of |-> "none", size |-> 0]
Of(kind, type, size) == [kind |-> kind, of |-> type, size |-> size]

Looks == [req |-> Is0("request"), res |-> Is0("response"), res1 |-> Of("response", "none", 1),
          blank |-> Is0("blank"), text |-> Is0("other"), line |-> Is0("newline"),
          a |-> Is0("letter"),
          png |-> Of("signature", "png", 0), iend |-> Of("end", "png", 0),
          zip |-> Of("signature", "zip", 0), zend |-> Of("end", "zip", 1),
          pdf |-> Of("signature", "pdf", 0), eof |-> Of("end", "pdf", 0)]

Stream(name, kinds) == [i \in DOMAIN kinds |-> <<name, i, kinds[i]>>]

Asked == Stream("ask", <<"req", "blank", "png", "iend", "png", "iend", "req", "blank">>)
Answered == Stream("answer", <<"res1", "blank", "text", "res", "blank", "a", "a", "a", "a">>)
Second == Stream("second", <<"a", "a", "a", "a", "a", "a", "text", "zip", "zend", "line",
                             "pdf", "eof", "line">>)

MCSent ==
  {[from |-> "client", to |-> "web", bytes |-> Asked,
    files |-> {SubSeq(Asked, 3, 4), SubSeq(Asked, 5, 6)}],
   [from |-> "web", to |-> "client", bytes |-> Answered, files |-> {}],
   [from |-> "client", to |-> "web", bytes |-> Second,
    files |-> {SubSeq(Second, 8, 10), SubSeq(Second, 11, 13)}]}

MCTalks ==
  {[ask |-> CHOOSE s \in MCSent : s.bytes = Asked,
    answer |-> CHOOSE s \in MCSent : s.bytes = Answered,
    pairs |-> << <<Asked[1], Answered[1], SubSeq(Answered, 3, 3)>>,
                 <<Asked[7], Answered[4], SubSeq(Answered, 6, 9)>> >>]}

AllBytes == UNION {ToSet(s.bytes) : s \in MCSent}
\* Strings of three or six letters decode, those of four or five do not.
MCDecodes(v) == Len(v) % 3 = 0

MCToken == [b \in AllBytes |-> Looks[b[3]]]

\* What a capture file has of a segment, and what the live worker sees of one
Seg(from, bytes, first, last, base) ==
  [proto |-> "TCP", from |-> from, to |-> IF from = "client" THEN "web" ELSE "client",
   link |-> "ether", seq |-> base + first - 1, bytes |-> SubSeq(bytes, first, last)]
Live(segment) == [segment EXCEPT !.link = "ip"]

c14 == Seg("client", Asked, 1, 4, 10)
c58 == Seg("client", Asked, 5, 8, 10)
w14 == Seg("web", Answered, 1, 4, 0)
w59 == Seg("web", Answered, 5, 9, 0)
d16 == Seg("client", Second, 1, 6, 3)
d48 == Seg("client", Second, 4, 8, 3)
d93 == Seg("client", Second, 9, 13, 3)

MCFrames == {Live(c14), Live([w14 EXCEPT !.from = "eight"])}

\* The second frame of a file has the time of the third.
File(mode, segments) ==
  [mode |-> mode, frames |-> [i \in DOMAIN segments |->
     segments[i] @@ [ts |-> IF i = 3 THEN 2 ELSE i]]]

MCFiles ==
  {File("balanced", <<w59, c58, c14, w14>>), File("balanced", <<d16, d48, d93>>),
   File("extreme", <<c14>>)}

MCPreview == [live |-> 3, balanced |-> 5, extreme |-> -1]
MCEtherLike == {"eight"}
===============================================================================
