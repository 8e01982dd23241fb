----------------------------- MODULE MCPacketPages -----------------------------
(* PacketPages on two packets and a frame, with a rule of each kind.         *)
EXTENDS PacketPages

Words == {<<"chrome", "chrome.exe">>, <<"10.0", "10.0.0.2">>}
Wildcards == {<<"chrome_exe", "chrome.exe">>}
\* The texts of the rows and literals in the order of their characters
Alphabet ==
  <<Text("", FALSE), Text("10.0.0.2", FALSE), Number(5), Text("8.8.8.8", FALSE),
    Text("chrome.exe", TRUE), Text("tcp", TRUE), Text("udp", TRUE),
    Text("chrome.exe", FALSE), Text("live", FALSE), Text("offline", FALSE)>>
TextOrder ==
  {<<Alphabet[p[1]], Alphabet[p[2]]>> : p \in {q \in (1 .. 10) \X (1 .. 10) : q[1] < q[2]}}

Tcp == [ts |-> Number(2), src_ip |-> Text("10.0.0.2", FALSE), dst_ip |-> Text("8.8.8.8", FALSE),
        src_port |-> Number(5000), dst_port |-> Number(80), length |-> Number(60),
        proto |-> Text("tcp", TRUE), process |-> Text("chrome.exe", TRUE),
        source |-> Text("live", FALSE)]
Udp == [ts |-> Number(1), src_ip |-> Text("8.8.8.8", FALSE), dst_ip |-> Text("10.0.0.2", FALSE),
        src_port |-> Number(53), dst_port |-> Number(5000), length |-> Number(60),
        proto |-> Text("udp", TRUE), process |-> Text("chrome.exe", FALSE),
        source |-> Text("offline", FALSE)]
Frame == [ts |-> Number(1), frame_no |-> Number(1), linktype |-> Number(249), wirelen |-> Number(128),
          iface |-> Text("usb", FALSE), frame_type |-> Text("usb", FALSE),
          summary |-> Text("usb", FALSE), source |-> Text("offline", FALSE)]
MCContents == {Tcp, Udp, Frame}

One(term) == [nots |-> 0, term |-> term]
Not(term) == [nots |-> 1, term |-> term]
Is(proto) == [is |-> "proto", literal |-> Text(proto, FALSE)]
Test(field, op, literal) == [is |-> "compare", field |-> field, op |-> op, literal |-> literal]
Has(field, literal) == [is |-> "contains", field |-> field, literal |-> literal]
AWord(literal) == [is |-> "word", literal |-> literal]

\* proto==tcp && port>=80; process contains chrome; len<60.5; !icmp && risk==high;
\* udp || 10.0; ip.src!=8.8.8.8; id<=2; ip.src<5; ip.src>=8.8.8.8;
\* process contains chrome_exe; for frames: linktype==249
TcpRule == {{One(Test("proto", "==", Text("tcp", FALSE))), One(Test("port", ">=", Number(80)))}}
ChromeRule == {{One(Has("process", Text("chrome", FALSE)))}}
HalfRule == {{One(Test("length", "<", [halves |-> 121]))}}
RiskRule == {{Not(Is("icmp")), One(Test("risk", "==", Text("high", FALSE)))}}
OrRule == {{One(Is("udp"))}, {One(AWord(Text("10.0", FALSE)))}}
NotRule == {{One(Test("src_ip", "!=", Text("8.8.8.8", FALSE)))}}
IdRule == {{One(Test("id", "<=", Number(2)))}}
BelowRule == {{One(Test("src_ip", "<", Number(5)))}}
AboveRule == {{One(Test("src_ip", ">=", Text("8.8.8.8", FALSE)))}}
WildRule == {{One(Has("process", Text("chrome_exe", FALSE)))}}
FrameRule == {{One(Test("linktype", "==", Number(249))), One(Has("summary", Text("usb", FALSE)))}}

Asking(op, pg, source, sort, desc, abnormal, rule) ==
  [op |-> op, page |-> pg, source |-> source, sort |-> sort, desc |-> desc,
   abnormal |-> abnormal, rule |-> rule]

SomeRequests ==
  {Asking("page", p, "", "ts", d, FALSE, rule) :
     p \in 1 .. 2, d \in BOOLEAN, rule \in {{}, TcpRule, OrRule}}
  \cup {Asking("page", 1, s, "ts", FALSE, FALSE, rule) :
     s \in {"live", "offline"}, rule \in {ChromeRule, HalfRule, NotRule, IdRule, BelowRule, AboveRule, WildRule}}
  \cup {Asking("page", p, "", "risk", d, FALSE, {}) : p \in 1 .. 2, d \in BOOLEAN}
  \cup {Asking("page", p, "", "length", TRUE, TRUE, TcpRule) : p \in 1 .. 2}
  \cup {Asking("export", 1, "", "ts", d, FALSE, rule) : d \in BOOLEAN, rule \in {{}, RiskRule, OrRule}}
  \cup {Asking("frames", p, "offline", "ts", FALSE, FALSE, rule) :
     p \in 1 .. 2, rule \in {{}, FrameRule}}
===============================================================================
