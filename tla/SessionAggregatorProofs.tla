------------------------ MODULE SessionAggregatorProofs -----------------------
(***************************************************************************)
(* Proofs about SessionAggregator: for any sources, ports, timeouts, files *)
(* and number of packets, no change of a session is forgotten, no window   *)
(* outlives its source, and the ports a source has visited are counted     *)
(* exactly.  Sessions and windows are cleaned up in different places by    *)
(* different cutoffs; the invariant says that nothing of a source is       *)
(* younger than the source itself.                                         *)
(* And about FlowWorkbench, which has no variable in common with it: what  *)
(* is shown for a packet is of that packet, what is shown of a stream is   *)
(* what was stored of it, and the strings, files and responses in it are   *)
(* found, for any frames, files and number of clicks.                      *)
(***************************************************************************)
EXTENDS SessionAggregator, FlowWorkbench, FiniteSetTheorems, SequenceTheorems, WellFoundedInduction,
        TLAPS

TypeInv ==
  /\ thread \in [Thread -> [at : {"rest", "ingest", "flush", "clear"}, clock : Int]]
  /\ wall \in Int
  /\ DOMAIN sessions \subseteq Key
  /\ dirty \subseteq Key
  /\ reported = [k \in Key |-> reported[k]]
  /\ latest \in [ts : Int, clock : Int]

\* A session is reported with all its packets before its mark is cleared.
ReportInv ==
  ~raced =>
    /\ \A k \in DOMAIN sessions \ dirty : reported[k] = sessions[k].packets
    /\ \A t \in Thread : thread[t].at = "clear" =>
         \A k \in DOMAIN sessions : reported[k] = sessions[k].packets

\* Whatever is kept of a source is not younger than its entry of src_last_seen.
SeenInv == \A s \in DOMAIN seen : seen[s] \in Int /\ seen[s] <= latest.ts
SessionInv ==
  \A k \in DOMAIN sessions :
    k[1] \in DOMAIN seen /\ sessions[k].last \in Int /\ sessions[k].last <= seen[k[1]]
PortsInv ==
  \A s \in DOMAIN ports :
    s \in DOMAIN seen /\ \A p \in DOMAIN ports[s] : ports[s][p] \in Int /\ ports[s][p] <= seen[s]
RecentInv ==
  \A s \in DOMAIN recent :
    /\ s \in DOMAIN seen /\ recent[s] \in Seq(Int)
    /\ \A n \in DOMAIN recent[s] : recent[s][n] <= seen[s]

WindowInv == ~backwards => SeenInv /\ SessionInv /\ PortsInv /\ RecentInv

IInv == TypeInv /\ ReportInv /\ WindowInv

-------------------------------------------------------------------------------
(* What pruning leaves *)

LEMMA LeastExists ==
  ASSUME NEW S, S \subseteq Nat, S # {}
  PROVE  \E x \in S : \A y \in S : x <= y
<1> DEFINE R == OpToRel(<, Nat)
<1>1. IsWellFoundedOn(R, Nat)
  BY NatLessThanWellFounded
<1>2. PICK x \in S : \A y \in S : ~(<<y, x>> \in R)
  BY <1>1, WFMin
<1>3. ASSUME NEW y \in S
      PROVE  x <= y
  <2>1. ~(y < x)
    BY <1>2 DEF OpToRel
  <2> QED
    BY <2>1
<1> QED
  BY <1>3

\* A deque that is left holds only what it held, and something young enough.
LEMMA YoungFact ==
  ASSUME NEW q \in Seq(Int), NEW c \in Int
  PROVE  /\ Young(q, c) \in Seq(Int)
         /\ \A n \in DOMAIN Young(q, c) : \E m \in DOMAIN q : Young(q, c)[n] = q[m]
         /\ Young(q, c) # << >> => \E m \in DOMAIN q : q[m] >= c
<1> DEFINE I == {i \in 1 .. Len(q) : q[i] >= c}
<1>1. DOMAIN q = 1 .. Len(q) /\ Len(q) \in Nat /\ \A i \in 1 .. Len(q) : q[i] \in Int
  OBVIOUS
<1>2. CASE I = {}
  <2>1. Young(q, c) = << >>
    BY <1>2 DEF Young, SelectInSeq
  <2> QED
    BY <2>1
<1>3. CASE I # {}
  <2> HIDE DEF I
  <2>0. I \subseteq Nat
    BY DEF I
  <2>1. \E x \in I : \A y \in I : x <= y
    BY <1>3, <2>0, LeastExists
  <2>2. Min(I) \in I
    BY <2>1 DEF Min
  <2>3. PICK n \in 1 .. Len(q) : n = Min(I) /\ q[n] >= c
    BY <2>2 DEF I
  <2>4. Young(q, c) = SubSeq(q, n, Len(q))
    <3>1. SelectInSeq(q, LAMBDA ts : ts >= c) = IF I # {} THEN Min(I) ELSE 0
      BY DEF SelectInSeq, I
    <3>2. SelectInSeq(q, LAMBDA ts : ts >= c) = n /\ n # 0
      BY <1>3, <2>3, <3>1
    <3> QED
      BY <3>2 DEF Young
  <2>5. /\ SubSeq(q, n, Len(q)) \in Seq(Int)
        /\ Len(SubSeq(q, n, Len(q))) = Len(q) - n + 1
        /\ \A i \in 1 .. Len(q) - n + 1 : SubSeq(q, n, Len(q))[i] = q[n + i - 1]
    BY <1>1, SubSeqProperties
  <2>6. ASSUME NEW i \in DOMAIN Young(q, c)
        PROVE  \E m \in DOMAIN q : Young(q, c)[i] = q[m]
    <3>1. i \in 1 .. Len(q) - n + 1
      BY <2>4, <2>5
    <3>2. n + i - 1 \in DOMAIN q /\ Young(q, c)[i] = q[n + i - 1]
      BY <1>1, <2>4, <2>5, <3>1
    <3> QED
      BY <3>2
  <2> QED
    BY <1>1, <2>3, <2>4, <2>5, <2>6
<1> QED
  BY <1>2, <1>3

LEMMA PrunedPortsFact ==
  ASSUME NEW sources, NEW c \in Int, NEW s \in DOMAIN PrunedPorts(sources, c),
         NEW p \in DOMAIN PrunedPorts(sources, c)[s]
  PROVE  p \in DOMAIN ports[s] /\ PrunedPorts(sources, c)[s][p] = ports[s][p]
BY DEF PrunedPorts, Without, Restrict, RestrictValues

LEMMA PrunedPortsLeft ==
  ASSUME NEW sources, NEW c \in Int, NEW s \in DOMAIN PrunedPorts(sources, c)
  PROVE  /\ s \in DOMAIN ports
         /\ s \in sources => \E p \in DOMAIN ports[s] : ports[s][p] >= c
<1> DEFINE young == {p \in DOMAIN ports[s] : ports[s][p] >= c}
<1>1. s \in DOMAIN ports
  BY DEF PrunedPorts, Without, Restrict
<1>2. ASSUME s \in sources
      PROVE  Restrict(ports[s], young) # << >>
  BY <1>1, <1>2 DEF PrunedPorts, Without, Restrict, RestrictValues
<1>3. young = {} => Restrict(ports[s], young) = << >>
  BY DEF Restrict
<1> QED
  BY <1>1, <1>2, <1>3

LEMMA PrunedRecentFact ==
  ASSUME NEW sources, NEW c \in Int, NEW s \in DOMAIN PrunedRecent(sources, c),
         s \in DOMAIN recent => recent[s] \in Seq(Int)
  PROVE  /\ s \in DOMAIN recent
         /\ PrunedRecent(sources, c)[s] \in Seq(Int)
         /\ \A n \in DOMAIN PrunedRecent(sources, c)[s] :
              \E m \in DOMAIN recent[s] : PrunedRecent(sources, c)[s][n] = recent[s][m]
         /\ s \in sources => \E m \in DOMAIN recent[s] : recent[s][m] >= c
<1>1. s \in DOMAIN recent
  BY DEF PrunedRecent, Without, Restrict
<1>2. CASE s \in sources
  <2>1. PrunedRecent(sources, c)[s] = Young(recent[s], c) /\ Young(recent[s], c) # << >>
    BY <1>1, <1>2 DEF PrunedRecent, Without, Restrict
  <2>2. recent[s] \in Seq(Int)
    BY <1>1
  <2>3. /\ Young(recent[s], c) \in Seq(Int)
        /\ \A n \in DOMAIN Young(recent[s], c) :
             \E m \in DOMAIN recent[s] : Young(recent[s], c)[n] = recent[s][m]
        /\ \E m \in DOMAIN recent[s] : recent[s][m] >= c
    BY <2>1, <2>2, YoungFact
  <2> QED
    BY <1>1, <2>1, <2>3
<1>3. CASE s \notin sources
  <2>1. PrunedRecent(sources, c)[s] = recent[s]
    BY <1>1, <1>3 DEF PrunedRecent, Without, Restrict
  <2> QED
    BY <1>1, <1>3, <2>1
<1> QED
  BY <1>2, <1>3

LEMMA PortsKept ==
  ASSUME PortsInv, NEW sources, NEW c \in Int, NEW s \in DOMAIN PrunedPorts(sources, c)
  PROVE  /\ s \in DOMAIN seen
         /\ \A p \in DOMAIN PrunedPorts(sources, c)[s] :
              PrunedPorts(sources, c)[s][p] \in Int /\ PrunedPorts(sources, c)[s][p] <= seen[s]
<1>1. s \in DOMAIN ports
  BY PrunedPortsLeft
<1>2. ASSUME NEW p \in DOMAIN PrunedPorts(sources, c)[s]
      PROVE  p \in DOMAIN ports[s] /\ PrunedPorts(sources, c)[s][p] = ports[s][p]
  BY PrunedPortsFact
<1> QED
  BY <1>1, <1>2 DEF PortsInv

LEMMA RecentKept ==
  ASSUME RecentInv, NEW sources, NEW c \in Int, NEW s \in DOMAIN PrunedRecent(sources, c)
  PROVE  /\ s \in DOMAIN seen /\ PrunedRecent(sources, c)[s] \in Seq(Int)
         /\ \A n \in DOMAIN PrunedRecent(sources, c)[s] : PrunedRecent(sources, c)[s][n] <= seen[s]
<1>1. s \in DOMAIN recent => recent[s] \in Seq(Int)
  BY DEF RecentInv
<1>2. /\ s \in DOMAIN recent /\ PrunedRecent(sources, c)[s] \in Seq(Int)
      /\ \A n \in DOMAIN PrunedRecent(sources, c)[s] :
           \E m \in DOMAIN recent[s] : PrunedRecent(sources, c)[s][n] = recent[s][m]
  BY <1>1, PrunedRecentFact
<1> QED
  BY <1>2 DEF RecentInv

-------------------------------------------------------------------------------
(* IInv is inductive *)

LEMMA Constants == /\ Recent \in Nat /\ Timeout \in Nat /\ Recent <= Timeout
                   /\ Thread = {"worker", "import"}
BY AggregatorAssumption DEF Thread

LEMMA InitIInv == Init => IInv
<1> SUFFICES ASSUME Init PROVE IInv
  OBVIOUS
<1>1. /\ DOMAIN sessions = {} /\ DOMAIN ports = {} /\ DOMAIN recent = {} /\ DOMAIN seen = {}
      /\ dirty = {} /\ wall \in Int /\ latest = [ts |-> 0, clock |-> 0]
      /\ thread = [t \in Thread |-> [at |-> "rest", clock |-> 0]]
      /\ reported = [k \in Key |-> 0]
  BY AggregatorAssumption DEF Init
<1>2. TypeInv
  BY <1>1 DEF TypeInv
<1>3. ReportInv /\ WindowInv
  BY <1>1 DEF ReportInv, WindowInv, SeenInv, SessionInv, PortsInv, RecentInv
<1> QED
  BY <1>2, <1>3 DEF IInv

\* A packet is the youngest of its source, and marks its session.
LEMMA IngestStep ==
  ASSUME IInv, NEW t \in Thread, NEW k \in Key, NEW ts \in Int, NEW clock \in Int,
         Ingest(t, k, ts), Goes(t, "ingest", clock)
  PROVE  IInv'
<1> DEFINE old == At(sessions, k, [packets |-> 0, last |-> ts])
<1>1. /\ sessions' = With(sessions, k, [packets |-> old.packets + 1, last |-> ts])
      /\ dirty' = dirty \cup {k}
      /\ seen' = With(seen, k[1], ts)
      /\ ports' = With(ports, k[1], With(At(ports, k[1], << >>), k[2], ts))
      /\ recent' = With(recent, k[1], Append(At(recent, k[1], << >>), ts))
      /\ latest' = [latest EXCEPT !.ts = Later(@, ts)]
      /\ backwards' = (backwards \/ ts < latest.ts)
      /\ raced' = (raced \/ \E u \in Thread \ {t} : thread[u].at = "clear")
      /\ thread' = [thread EXCEPT ![t] = [at |-> "ingest", clock |-> clock]]
      /\ UNCHANGED <<wall, reported>>
  BY DEF Ingest, Touched, Noted, Counted, Goes
<1>2. /\ DOMAIN sessions' = DOMAIN sessions \cup {k} /\ sessions'[k].last = ts
      /\ \A x \in DOMAIN sessions \ {k} : sessions'[x] = sessions[x]
  BY <1>1 DEF With
<1>3. TypeInv'
  BY <1>1, <1>2 DEF IInv, TypeInv, Later
<1>4. ReportInv'
  <2> SUFFICES ASSUME ~raced'
               PROVE  ReportInv'
    BY DEF ReportInv
  <2>1. ~raced /\ \A u \in Thread \ {t} : thread[u].at # "clear"
    BY <1>1
  <2>2. \A u \in Thread : thread'[u].at # "clear"
    BY <1>1, <2>1 DEF IInv, TypeInv
  <2>3. \A x \in DOMAIN sessions' \ dirty' : reported'[x] = sessions'[x].packets
    BY <1>1, <1>2, <2>1 DEF IInv, ReportInv
  <2> QED
    BY <2>2, <2>3 DEF ReportInv
<1>5. WindowInv'
  <2> SUFFICES ASSUME ~backwards'
               PROVE  SeenInv' /\ SessionInv' /\ PortsInv' /\ RecentInv'
    BY DEF WindowInv
  <2>0. ~backwards /\ ~(ts < latest.ts) /\ latest \in [ts : Int, clock : Int]
    BY <1>1 DEF IInv, TypeInv
  <2>1. ~backwards /\ ts >= latest.ts /\ latest.ts \in Int /\ latest'.ts = ts
    BY <1>1, <2>0 DEF Later
  <2>2. SeenInv /\ SessionInv /\ PortsInv /\ RecentInv
    BY <2>1 DEF IInv, WindowInv
  <2>3. /\ DOMAIN seen' = DOMAIN seen \cup {k[1]} /\ seen'[k[1]] = ts
        /\ \A s \in DOMAIN seen \ {k[1]} : seen'[s] = seen[s]
        /\ \A s \in DOMAIN seen : seen[s] \in Int /\ seen'[s] \in Int /\ seen[s] <= seen'[s]
    BY <1>1, <2>1, <2>2 DEF With, SeenInv
  <2>4. SeenInv'
    BY <2>1, <2>2, <2>3 DEF SeenInv
  <2>5. SessionInv'
    <3> SUFFICES ASSUME NEW x \in DOMAIN sessions'
                 PROVE  /\ x[1] \in DOMAIN seen' /\ sessions'[x].last \in Int
                        /\ sessions'[x].last <= seen'[x[1]]
      BY DEF SessionInv
    <3>1. CASE x = k
      BY <1>2, <2>3, <3>1
    <3>2. CASE x # k
      BY <1>2, <2>2, <2>3, <3>2 DEF SessionInv
    <3> QED
      BY <3>1, <3>2
  <2>6. PortsInv'
    <3>1. /\ DOMAIN ports' = DOMAIN ports \cup {k[1]}
          /\ ports'[k[1]] = With(At(ports, k[1], << >>), k[2], ts)
          /\ \A s \in DOMAIN ports \ {k[1]} : ports'[s] = ports[s]
      BY <1>1 DEF With
    <3>2. ASSUME NEW p \in DOMAIN ports'[k[1]]
          PROVE  ports'[k[1]][p] \in Int /\ ports'[k[1]][p] <= ts
      <4>1. CASE p = k[2]
        BY <3>1, <4>1 DEF With
      <4>2. CASE p # k[2]
        <5>1. p \in DOMAIN At(ports, k[1], << >>) /\ ports'[k[1]][p] = At(ports, k[1], << >>)[p]
          BY <3>1, <3>2, <4>2 DEF With
        <5>2. k[1] \in DOMAIN ports /\ p \in DOMAIN ports[k[1]] /\ ports'[k[1]][p] = ports[k[1]][p]
          BY <5>1 DEF At
        <5> QED
          BY <2>2, <2>3, <5>2 DEF PortsInv
      <4> QED
        BY <4>1, <4>2
    <3>3. ASSUME NEW s \in DOMAIN ports', s # k[1], NEW p \in DOMAIN ports'[s]
          PROVE  s \in DOMAIN seen' /\ ports'[s][p] \in Int /\ ports'[s][p] <= seen'[s]
      BY <2>2, <2>3, <3>1, <3>3 DEF PortsInv
    <3>4. \A s \in DOMAIN ports' : s \in DOMAIN seen'
      BY <2>2, <2>3, <3>1 DEF PortsInv
    <3> QED
      BY <2>3, <3>2, <3>3, <3>4 DEF PortsInv
  <2>7. RecentInv'
    <3>1. /\ DOMAIN recent' = DOMAIN recent \cup {k[1]}
          /\ recent'[k[1]] = Append(At(recent, k[1], << >>), ts)
          /\ \A s \in DOMAIN recent \ {k[1]} : recent'[s] = recent[s]
      BY <1>1 DEF With
    <3>2. /\ At(recent, k[1], << >>) \in Seq(Int)
          /\ \A n \in DOMAIN At(recent, k[1], << >>) : At(recent, k[1], << >>)[n] <= ts
      BY <2>2, <2>3 DEF At, RecentInv
    <3>3. /\ recent'[k[1]] \in Seq(Int)
          /\ \A n \in DOMAIN recent'[k[1]] : recent'[k[1]][n] <= ts
      BY <3>1, <3>2, AppendProperties
    <3>4. ASSUME NEW s \in DOMAIN recent', s # k[1]
          PROVE  /\ s \in DOMAIN seen' /\ recent'[s] \in Seq(Int)
                 /\ \A n \in DOMAIN recent'[s] : recent'[s][n] <= seen'[s]
      <4>1. /\ s \in DOMAIN recent /\ recent'[s] = recent[s] /\ s \in DOMAIN seen
            /\ seen'[s] = seen[s]
        BY <2>2, <2>3, <3>1, <3>4 DEF RecentInv
      <4> QED
        BY <2>2, <2>3, <4>1 DEF RecentInv
    <3> QED
      BY <2>3, <3>3, <3>4 DEF RecentInv
  <2> QED
    BY <2>4, <2>5, <2>6, <2>7
<1> QED
  BY <1>3, <1>4, <1>5 DEF IInv

\* A source goes with its windows and its sessions, as nothing of it is younger.
LEMMA CleanedUpStep ==
  ASSUME IInv, ~backwards, NEW clock \in Int, CleanedUp(clock), latest'.ts = latest.ts
  PROVE  SeenInv' /\ SessionInv' /\ PortsInv' /\ RecentInv'
<1>1. SeenInv /\ SessionInv /\ PortsInv /\ RecentInv
  BY DEF IInv, WindowInv
<1>2. /\ DOMAIN seen' = DOMAIN seen \ Stale(clock)
      /\ \A s \in DOMAIN seen' : seen'[s] = seen[s]
  BY DEF CleanedUp, Without, Restrict
<1>3. \A s \in DOMAIN seen : seen[s] \in Int /\ (s \in Stale(clock) <=> clock - seen[s] > Timeout)
  BY <1>1 DEF SeenInv, Stale
<1>4. SeenInv'
  BY <1>1, <1>2 DEF SeenInv
<1>5. SessionInv'
  <2> SUFFICES ASSUME NEW k \in DOMAIN sessions'
               PROVE  /\ k[1] \in DOMAIN seen' /\ sessions'[k].last \in Int
                      /\ sessions'[k].last <= seen'[k[1]]
    BY DEF SessionInv
  <2>1. k \in DOMAIN sessions /\ sessions'[k] = sessions[k] /\ clock - sessions[k].last <= Timeout
    <3>1. k \in DOMAIN sessions \ Expired(clock) /\ sessions'[k] = sessions[k]
      BY DEF CleanedUp, Without, Restrict
    <3>2. sessions[k].last \in Int
      BY <1>1, <3>1 DEF SessionInv
    <3> QED
      BY <3>1, <3>2, Constants DEF Expired
  <2>2. k[1] \in DOMAIN seen /\ sessions[k].last \in Int /\ sessions[k].last <= seen[k[1]]
    BY <1>1, <2>1 DEF SessionInv
  <2>3. k[1] \notin Stale(clock)
    BY <1>3, <2>1, <2>2, Constants
  <2> QED
    BY <1>2, <2>1, <2>2, <2>3
<1>6. PortsInv'
  <2> DEFINE pruned == PrunedPorts(Stale(clock), clock - Timeout)
  <2> SUFFICES ASSUME NEW s \in DOMAIN pruned
               PROVE  /\ s \in DOMAIN seen'
                      /\ \A p \in DOMAIN pruned[s] : pruned[s][p] \in Int /\ pruned[s][p] <= seen'[s]
    BY DEF PortsInv, CleanedUp
  <2>0. clock - Timeout \in Int
    BY Constants
  <2>1. /\ s \in DOMAIN ports
        /\ s \in Stale(clock) => \E p \in DOMAIN ports[s] : ports[s][p] >= clock - Timeout
    BY <2>0, PrunedPortsLeft
  <2>2. /\ s \in DOMAIN seen
        /\ \A p \in DOMAIN ports[s] : ports[s][p] \in Int /\ ports[s][p] <= seen[s]
    BY <1>1, <2>1 DEF PortsInv
  <2>3. s \notin Stale(clock)
    BY <1>3, <2>1, <2>2, Constants
  <2>4. \A p \in DOMAIN pruned[s] : p \in DOMAIN ports[s] /\ pruned[s][p] = ports[s][p]
    BY <2>0, PrunedPortsFact
  <2> QED
    BY <1>2, <2>2, <2>3, <2>4
<1>7. RecentInv'
  <2> DEFINE pruned == PrunedRecent(Stale(clock), clock - Recent)
  <2> SUFFICES ASSUME NEW s \in DOMAIN pruned
               PROVE  /\ s \in DOMAIN seen' /\ pruned[s] \in Seq(Int)
                      /\ \A n \in DOMAIN pruned[s] : pruned[s][n] <= seen'[s]
    BY DEF RecentInv, CleanedUp
  <2>0. clock - Recent \in Int /\ (s \in DOMAIN recent => recent[s] \in Seq(Int))
    BY <1>1, Constants DEF RecentInv
  <2>1. /\ s \in DOMAIN recent /\ pruned[s] \in Seq(Int)
        /\ \A n \in DOMAIN pruned[s] : \E m \in DOMAIN recent[s] : pruned[s][n] = recent[s][m]
        /\ s \in Stale(clock) => \E m \in DOMAIN recent[s] : recent[s][m] >= clock - Recent
    BY <2>0, PrunedRecentFact
  <2>2. /\ s \in DOMAIN seen /\ \A m \in DOMAIN recent[s] : recent[s][m] <= seen[s]
        /\ \A m \in DOMAIN recent[s] : recent[s][m] \in Int
    BY <1>1, <2>0, <2>1 DEF RecentInv
  <2>3. s \notin Stale(clock)
    BY <1>3, <2>1, <2>2, Constants
  <2> QED
    BY <1>2, <2>1, <2>2, <2>3
<1> QED
  BY <1>4, <1>5, <1>6, <1>7

LEMMA ExpireStep ==
  ASSUME IInv, NEW t \in Thread, NEW clock \in Int, NEW next \in {"flush", "rest"},
         Expire(t, clock, next)
  PROVE  IInv'
<1>1. /\ sessions' = Without(sessions, Expired(clock)) /\ dirty' = dirty \ Expired(clock)
      /\ CleanedUp(clock)
      /\ reported' = [k \in Key |-> IF k \in Expired(clock) THEN 0 ELSE reported[k]]
      /\ latest' = [latest EXCEPT !.clock = Later(@, clock)]
      /\ backwards' = (backwards \/ clock < latest.clock)
      /\ thread' = [thread EXCEPT ![t] = [at |-> next, clock |-> clock]]
      /\ UNCHANGED <<wall, raced>>
  BY DEF Expire, CleanedUp, UsesClock, Goes
<1>2. /\ DOMAIN sessions' = DOMAIN sessions \ Expired(clock)
      /\ \A k \in DOMAIN sessions' : sessions'[k] = sessions[k]
  BY <1>1 DEF Without, Restrict
<1>3. TypeInv'
  BY <1>1, <1>2 DEF IInv, TypeInv, Later
<1>4. ReportInv'
  <2> SUFFICES ASSUME ~raced
               PROVE  ReportInv'
    BY <1>1 DEF ReportInv
  <2>1. \A k \in DOMAIN sessions' : k \in Key /\ reported'[k] = reported[k]
    BY <1>1, <1>2 DEF IInv, TypeInv
  <2>2. \A k \in DOMAIN sessions' \ dirty' : reported'[k] = sessions'[k].packets
    BY <1>1, <1>2, <2>1 DEF IInv, ReportInv
  <2>3. \A u \in Thread : thread'[u].at = "clear" => thread[u].at = "clear"
    BY <1>1 DEF IInv, TypeInv
  <2> QED
    BY <1>2, <2>1, <2>2, <2>3 DEF IInv, ReportInv
<1>5. WindowInv'
  <2> SUFFICES ASSUME ~backwards'
               PROVE  SeenInv' /\ SessionInv' /\ PortsInv' /\ RecentInv'
    BY DEF WindowInv
  <2>1. ~backwards /\ latest'.ts = latest.ts
    BY <1>1 DEF IInv, TypeInv
  <2> QED
    BY <1>1, <2>1, CleanedUpStep
<1> QED
  BY <1>3, <1>4, <1>5 DEF IInv

\* A flush prunes windows, and makes an empty one only for a source with a session.
LEMMA FlushStep ==
  ASSUME IInv, NEW t \in Thread, Flush(t)
  PROVE  IInv'
<1>0. PICK c \in Int : c = thread[t].clock
  BY DEF IInv, TypeInv
<1>1. /\ Flushed(t, c)
      /\ reported' = [k \in Key |-> IF k \in dirty \cap DOMAIN sessions THEN sessions[k].packets
                                     ELSE reported[k]]
      /\ latest' = [latest EXCEPT !.clock = Later(@, c)]
      /\ backwards' = (backwards \/ c < latest.clock)
      /\ thread' = [thread EXCEPT ![t] = [at |-> "clear", clock |-> 0]]
      /\ UNCHANGED <<wall, sessions, dirty, seen, raced>>
  BY <1>0 DEF Flush, UsesClock, Goes
<1>2. TypeInv'
  BY <1>1 DEF IInv, TypeInv, Later
<1>3. ReportInv'
  <2> SUFFICES ASSUME ~raced
               PROVE  ReportInv'
    BY <1>1 DEF ReportInv
  <2>1. \A k \in DOMAIN sessions : reported'[k] = sessions[k].packets
    BY <1>1 DEF IInv, TypeInv, ReportInv
  <2> QED
    BY <1>1, <2>1 DEF ReportInv
<1>4. WindowInv'
  <2> SUFFICES ASSUME ~backwards'
               PROVE  SeenInv' /\ SessionInv' /\ PortsInv' /\ RecentInv'
    BY DEF WindowInv
  <2>0. PICK sources \in SUBSET {k[1] : k \in DOMAIN sessions},
             portsFrom \in Int, recentFrom \in Int :
          /\ ports' = LET left == PrunedPorts(sources, portsFrom)
                      IN  [s \in DOMAIN left \cup sources |-> At(left, s, << >>)]
          /\ recent' = LET young == PrunedRecent(sources, recentFrom)
                       IN  [s \in DOMAIN young \cup sources |-> At(young, s, << >>)]
    <3> DEFINE due == {k[1] : k \in dirty \cap DOMAIN sessions}
    <3>1. /\ due \in SUBSET {k[1] : k \in DOMAIN sessions}
          /\ c - Timeout \in Int /\ c - Recent \in Int
      BY Constants
    <3>2. /\ ports' = LET left == PrunedPorts(due, c - Timeout)
                      IN  [s \in DOMAIN left \cup due |-> At(left, s, << >>)]
          /\ recent' = LET young == PrunedRecent(due, c - Recent)
                       IN  [s \in DOMAIN young \cup due |-> At(young, s, << >>)]
      BY <1>1 DEF Flushed
    <3> HIDE DEF due
    <3> QED
      BY <3>1, <3>2
  <2>1. ~backwards /\ latest'.ts = latest.ts
    BY <1>1 DEF IInv, TypeInv
  <2>2. SeenInv /\ SessionInv /\ PortsInv /\ RecentInv
    BY <2>1 DEF IInv, WindowInv
  <2>3. SeenInv' /\ SessionInv'
    BY <1>1, <2>1, <2>2 DEF SeenInv, SessionInv
  <2>4. sources \subseteq DOMAIN seen
    BY <2>0, <2>2 DEF SessionInv
  <2>5. PortsInv'
    <3> DEFINE left == PrunedPorts(sources, portsFrom)
    <3>1. ports' = [s \in DOMAIN left \cup sources |-> At(left, s, << >>)]
      BY <2>0
    <3>2. ASSUME NEW s \in DOMAIN left
          PROVE  /\ s \in DOMAIN seen
                 /\ \A p \in DOMAIN left[s] : left[s][p] \in Int /\ left[s][p] <= seen[s]
      BY <2>2, PortsKept
    <3> HIDE DEF left
    <3>3. ASSUME NEW s \in DOMAIN ports'
          PROVE  /\ s \in DOMAIN seen
                 /\ \A p \in DOMAIN ports'[s] : ports'[s][p] \in Int /\ ports'[s][p] <= seen[s]
      <4>1. CASE s \in DOMAIN left
        BY <3>1, <3>2, <4>1 DEF At
      <4>2. CASE s \notin DOMAIN left
        <5>1. s \in DOMAIN seen /\ ports'[s] = << >>
          BY <2>4, <3>1, <3>3, <4>2 DEF At
        <5> QED
          BY <5>1
      <4> QED
        BY <4>1, <4>2
    <3> QED
      BY <1>1, <3>3 DEF PortsInv
  <2>6. RecentInv'
    <3> DEFINE left == PrunedRecent(sources, recentFrom)
    <3>1. recent' = [s \in DOMAIN left \cup sources |-> At(left, s, << >>)]
      BY <2>0
    <3>2. ASSUME NEW s \in DOMAIN left
          PROVE  /\ s \in DOMAIN seen /\ left[s] \in Seq(Int)
                 /\ \A n \in DOMAIN left[s] : left[s][n] <= seen[s]
      BY <2>2, RecentKept
    <3> HIDE DEF left
    <3>3. ASSUME NEW s \in DOMAIN recent'
          PROVE  /\ s \in DOMAIN seen /\ recent'[s] \in Seq(Int)
                 /\ \A n \in DOMAIN recent'[s] : recent'[s][n] <= seen[s]
      <4>1. CASE s \in DOMAIN left
        BY <3>1, <3>2, <4>1 DEF At
      <4>2. CASE s \notin DOMAIN left
        <5>1. s \in DOMAIN seen /\ recent'[s] = << >>
          BY <2>4, <3>1, <3>3, <4>2 DEF At
        <5> QED
          BY <5>1
      <4> QED
        BY <4>1, <4>2
    <3> QED
      BY <1>1, <3>3 DEF RecentInv
  <2> QED
    BY <2>3, <2>5, <2>6
<1> QED
  BY <1>2, <1>3, <1>4 DEF IInv

\* The marks of a reported table may go; other steps leave table and marks alone.
LEMMA OtherSteps ==
  ASSUME IInv,
         \/ \E t \in Thread : Clear(t)
         \/ EndImport \/ ImportFails \/ Tick \/ UNCHANGED vars
  PROVE  IInv'
<1>1. UNCHANGED <<sessions, ports, recent, seen, history>>
  BY DEF Clear, EndImport, ImportFails, Tick, table, vars
<1>2. WindowInv'
  BY <1>1 DEF IInv, WindowInv, SeenInv, SessionInv, PortsInv, RecentInv, history
<1>3. TypeInv' /\ ReportInv'
  <2>1. ASSUME NEW t \in Thread, Clear(t)
        PROVE  TypeInv' /\ ReportInv'
    <3>1. /\ thread[t].at = "clear" /\ dirty' = {}
          /\ thread' = [thread EXCEPT ![t] = [at |-> "rest", clock |-> 0]]
          /\ UNCHANGED <<wall, reported, latest, raced>>
      BY <2>1 DEF Clear, Goes, history
    <3>2. TypeInv'
      BY <1>1, <3>1 DEF IInv, TypeInv
    <3>3. ASSUME ~raced
          PROVE  \A k \in DOMAIN sessions : reported[k] = sessions[k].packets
      BY <3>1, <3>3 DEF IInv, ReportInv
    <3>4. ReportInv'
      BY <1>1, <3>1, <3>3 DEF ReportInv
    <3> QED
      BY <3>2, <3>4
  <2>2. CASE EndImport
    BY <1>1, <2>2, Constants DEF EndImport, Goes, IInv, TypeInv, ReportInv, history, table
  <2>3. CASE ImportFails
    BY <1>1, <2>3, Constants DEF ImportFails, Goes, IInv, TypeInv, ReportInv, history, table
  <2>4. CASE Tick
    BY <1>1, <2>4 DEF Tick, IInv, TypeInv, ReportInv, history, table
  <2>5. CASE UNCHANGED vars
    BY <1>1, <2>5 DEF vars, IInv, TypeInv, ReportInv, history, table
  <2> QED
    BY <2>1, <2>2, <2>3, <2>4, <2>5
<1> QED
  BY <1>2, <1>3 DEF IInv

LEMMA NextIInv == IInv /\ [Next]_vars => IInv'
<1> SUFFICES ASSUME IInv, [Next]_vars
             PROVE  IInv'
  OBVIOUS
<1>0. wall \in Int /\ \A t \in Thread : thread[t].clock \in Int
  BY DEF IInv, TypeInv
<1>1. ASSUME NEW k \in Key, IngestLive(k)
      PROVE  IInv'
  <2>1. PICK ts \in {wall - 1, wall} : Ingest("worker", k, ts) /\ Goes("worker", "ingest", 0)
    BY <1>1 DEF IngestLive
  <2>2. ts \in Int
    BY <1>0
  <2> QED
    BY <2>1, <2>2, Constants, IngestStep
<1>2. ASSUME NEW k \in Key, IngestOffline(k)
      PROVE  IInv'
  <2>1. PICK ts \in 0 .. FileEnd :
          /\ Ingest("import", k, ts)
          /\ Goes("import", "ingest",
                  IF thread["import"].at = "rest" THEN ts ELSE Later(thread["import"].clock, ts))
    BY <1>2 DEF IngestOffline
  <2>2. ts \in Int /\ Later(thread["import"].clock, ts) \in Int
    BY <1>0, Constants, AggregatorAssumption DEF Later
  <2>3. (IF thread["import"].at = "rest" THEN ts ELSE Later(thread["import"].clock, ts)) \in Int
    BY <2>2
  <2> QED
    BY <2>1, <2>2, <2>3, Constants, IngestStep
<1>3. CASE ExpireLive
  BY <1>0, <1>3, Constants, ExpireStep DEF ExpireLive
<1>4. CASE ExpireOffline
  <2>1. PICK next \in {"flush", "rest"} : Expire("import", thread["import"].clock, next)
    BY <1>4 DEF ExpireOffline
  <2> QED
    BY <1>0, <2>1, Constants, ExpireStep
<1>5. ASSUME NEW t \in Thread, Flush(t)
      PROVE  IInv'
  BY <1>5, FlushStep
<1> QED
  BY <1>1, <1>2, <1>3, <1>4, <1>5, OtherSteps DEF Next

LEMMA SpecIInv == Spec => []IInv
BY InitIInv, NextIInv, PTL DEF Spec

-------------------------------------------------------------------------------
(* The ports of a source that is still counted *)

\* A visit is never younger than the youngest packet, a window holds nothing
\* but last visits, and it holds every visit a later flush may still count.
TimesInv == \A k \in DOMAIN visited : visited[k] \in Int /\ visited[k] <= latest.ts
ListedInv ==
  \A s \in Src : \A p \in DOMAIN At(ports, s, << >>) :
    <<s, p>> \in DOMAIN visited /\ At(ports, s, << >>)[p] = visited[<<s, p>>]
KeptInv ==
  \A k \in DOMAIN visited :
    visited[k] >= latest.clock - Timeout => k[2] \in DOMAIN At(ports, k[1], << >>)

VisitsInv ==
  /\ DOMAIN visited \subseteq Key /\ DOMAIN sessions \subseteq Key
  /\ latest.ts >= 0
  /\ ~backwards => TimesInv /\ ListedInv /\ KeptInv
  /\ PortVisitsExact

\* Pruning takes what is too old from the windows of the sources, and no more.
LEMMA PrunedWindow ==
  ASSUME NEW sources, NEW c, NEW s, NEW w, NEW v,
         w = At(ports, s, << >>), v = At(PrunedPorts(sources, c), s, << >>)
  PROVE  /\ \A p : p \in DOMAIN v <=> p \in DOMAIN w /\ (s \in sources => w[p] >= c)
         /\ \A p \in DOMAIN v : v[p] = w[p]
<1> DEFINE left == PrunedPorts(sources, c)
           young == {p \in DOMAIN ports[s] : ports[s][p] >= c}
<1>1. CASE s \notin DOMAIN ports
  BY <1>1 DEF At, PrunedPorts, Without, Restrict
<1>2. CASE s \in DOMAIN ports /\ s \notin sources
  BY <1>2 DEF At, PrunedPorts, Without, Restrict
<1>3. CASE s \in DOMAIN ports /\ s \in sources
  <2>1. w = ports[s]
    BY <1>3 DEF At
  <2>2. /\ s \in DOMAIN left <=> Restrict(ports[s], young) # << >>
        /\ s \in DOMAIN left => left[s] = Restrict(ports[s], young)
    BY <1>3 DEF PrunedPorts, Without, Restrict, RestrictValues
  <2>3. /\ DOMAIN Restrict(ports[s], young) = young
        /\ \A p \in young : Restrict(ports[s], young)[p] = ports[s][p]
    BY DEF Restrict
  <2>4. young = {p \in DOMAIN w : s \in sources => w[p] >= c}
    BY <1>3, <2>1
  <2>0. v = At(left, s, << >>)
    OBVIOUS
  <2> HIDE DEF left, young
  <2>5. CASE s \in DOMAIN left
    <3>1. v = Restrict(ports[s], young)
      BY <2>0, <2>2, <2>5 DEF At
    <3>2. DOMAIN v = young /\ \A p \in young : v[p] = ports[s][p]
      BY <2>3, <3>1
    <3> QED BY <2>1, <2>4, <3>2
  <2>6. CASE s \notin DOMAIN left
    <3>1. v = << >> /\ Restrict(ports[s], young) = << >>
      BY <2>0, <2>2, <2>6 DEF At
    <3>2. DOMAIN << >> = {}
      OBVIOUS
    <3>3. DOMAIN v = {} /\ young = {}
      BY <2>3, <3>1, <3>2
    <3> QED BY <2>4, <3>3
  <2> QED BY <2>5, <2>6
<1> QED BY <1>1, <1>2, <1>3

LEMMA InitVisits == Init => VisitsInv
<1> SUFFICES ASSUME Init PROVE VisitsInv
  OBVIOUS
<1>1. /\ visited = << >> /\ sessions = << >> /\ ports = << >> /\ features = {}
      /\ latest = [ts |-> 0, clock |-> 0]
  BY DEF Init
<1>2. DOMAIN visited = {} /\ DOMAIN sessions = {}
  BY <1>1
<1>3. \A s : At(ports, s, << >>) = << >>
  BY <1>1 DEF At
<1>4. ListedInv
  BY <1>3 DEF ListedInv
<1> QED BY <1>1, <1>2, <1>4 DEF VisitsInv, TimesInv, KeptInv, PortVisitsExact

\* A packet is the last visit of its port, and no feature is left to look at.
LEMMA IngestVisits ==
  ASSUME IInv, VisitsInv, NEW t \in Thread, NEW k \in Key, NEW ts \in Int, Ingest(t, k, ts)
  PROVE  VisitsInv'
<1>1. /\ DOMAIN sessions' = DOMAIN sessions \cup {k}
      /\ ports' = With(ports, k[1], With(At(ports, k[1], << >>), k[2], ts))
      /\ visited' = With(visited, k, Later(At(visited, k, 0), ts))
      /\ latest' = [latest EXCEPT !.ts = Later(@, ts)]
      /\ backwards' = (backwards \/ ts < latest.ts)
      /\ features' = {}
  BY DEF Ingest, Touched, Noted, Counted, With
<1>2. /\ latest \in [ts : Int, clock : Int] /\ latest.ts \in Int /\ latest.clock \in Int
      /\ latest'.ts = Later(latest.ts, ts) /\ latest'.clock = latest.clock
  BY <1>1 DEF IInv, TypeInv
<1>3. DOMAIN visited' \subseteq Key /\ DOMAIN sessions' \subseteq Key /\ latest'.ts >= 0
  BY <1>1, <1>2 DEF VisitsInv, With, Later
<1>4. PortVisitsExact'
  BY <1>1 DEF PortVisitsExact
<1>5. ASSUME ~backwards'
      PROVE  TimesInv' /\ ListedInv' /\ KeptInv'
  <2>0. ~backwards /\ ~(ts < latest.ts)
    BY <1>1, <1>5
  <2>1. TimesInv /\ ListedInv /\ KeptInv /\ ts >= latest.ts /\ latest'.ts = ts
    BY <1>2, <2>0 DEF VisitsInv, Later
  <2>2. Later(At(visited, k, 0), ts) = ts
    BY <1>2, <2>1 DEF VisitsInv, TimesInv, At, Later
  <2>3. /\ DOMAIN visited' = DOMAIN visited \cup {k} /\ visited'[k] = ts
        /\ \A x \in DOMAIN visited : x # k => visited'[x] = visited[x]
    BY <1>1, <2>2 DEF With
  <2>4. PICK s0 \in Src, p0 \in Port : k = <<s0, p0>> /\ k[1] = s0 /\ k[2] = p0
    BY DEF Key
  <2>5. /\ \A s : s # s0 => At(ports', s, << >>) = At(ports, s, << >>)
        /\ At(ports', s0, << >>) = With(At(ports, s0, << >>), p0, ts)
    BY <1>1, <2>4 DEF At, With
  <2>6. /\ DOMAIN At(ports', s0, << >>) = DOMAIN At(ports, s0, << >>) \cup {p0}
        /\ At(ports', s0, << >>)[p0] = ts
        /\ \A p \in DOMAIN At(ports, s0, << >>) :
             p # p0 => At(ports', s0, << >>)[p] = At(ports, s0, << >>)[p]
    BY <2>5 DEF With
  <2>7. TimesInv'
    BY <1>2, <2>1, <2>3 DEF TimesInv
  <2>8. ASSUME NEW s \in Src, NEW p \in DOMAIN At(ports', s, << >>)
        PROVE  <<s, p>> \in DOMAIN visited' /\ At(ports', s, << >>)[p] = visited'[<<s, p>>]
    <3>1. CASE s = s0 /\ p = p0
      BY <2>3, <2>4, <2>6, <3>1
    <3>2. CASE ~(s = s0 /\ p = p0)
      <4>1. p \in DOMAIN At(ports, s, << >>) /\ At(ports', s, << >>)[p] = At(ports, s, << >>)[p]
        BY <2>5, <2>6, <2>8, <3>2
      <4>2. <<s, p>> \in DOMAIN visited /\ At(ports, s, << >>)[p] = visited[<<s, p>>]
        BY <2>1, <4>1 DEF ListedInv
      <4>3. <<s, p>> # k
        BY <2>4, <3>2
      <4> QED BY <2>3, <4>1, <4>2, <4>3
    <3> QED BY <3>1, <3>2
  <2>9. ASSUME NEW x \in DOMAIN visited', visited'[x] >= latest'.clock - Timeout
        PROVE  x[2] \in DOMAIN At(ports', x[1], << >>)
    <3>1. CASE x = k
      BY <2>4, <2>6, <3>1
    <3>2. CASE x # k
      <4>1. x[2] \in DOMAIN At(ports, x[1], << >>)
        BY <1>2, <2>1, <2>3, <2>9, <3>2 DEF KeptInv
      <4> QED BY <2>5, <2>6, <4>1
    <3> QED BY <3>1, <3>2
  <2>10. ListedInv'
    BY <2>8 DEF ListedInv
  <2>11. KeptInv'
    BY <2>9 DEF KeptInv
  <2> QED BY <2>7, <2>10, <2>11
<1> QED BY <1>3, <1>4, <1>5 DEF VisitsInv

\* The windows hold the last visits, every one that a flush after from may
\* count, and nothing older for the sources.
Counting(windows, sources, from) ==
  /\ \A s \in Src : \A p \in DOMAIN At(windows, s, << >>) :
       <<s, p>> \in DOMAIN visited /\ At(windows, s, << >>)[p] = visited[<<s, p>>]
  /\ \A k \in DOMAIN visited :
       visited[k] >= from => k[2] \in DOMAIN At(windows, k[1], << >>)
  /\ \A s \in Src \cap sources :
       DOMAIN At(windows, s, << >>) = VisitedSince(s, from)

\* Pruned at a clock that is not behind any earlier one, they do.
LEMMA PrunedVisits ==
  ASSUME IInv, VisitsInv, ~backwards, NEW c \in Int, c >= latest.clock,
         NEW sources, NEW windows, NEW from, from = c - Timeout,
         \A s : At(windows, s, << >>) = At(PrunedPorts(sources, from), s, << >>)
  PROVE  Counting(windows, sources, from)
<1>1. TimesInv /\ ListedInv /\ KeptInv /\ DOMAIN visited \subseteq Key
  BY DEF VisitsInv
<1>2. latest.clock \in Int /\ Timeout \in Int
  BY Constants DEF IInv, TypeInv
<1>3. ASSUME NEW s
      PROVE  /\ \A p : p \in DOMAIN At(windows, s, << >>) <=>
                          /\ p \in DOMAIN At(ports, s, << >>)
                          /\ s \in sources => At(ports, s, << >>)[p] >= from
             /\ \A p \in DOMAIN At(windows, s, << >>) :
                  At(windows, s, << >>)[p] = At(ports, s, << >>)[p]
  <2>1. PICK w, v : w = At(ports, s, << >>) /\ v = At(PrunedPorts(sources, from), s, << >>)
    OBVIOUS
  <2>2. /\ \A p : p \in DOMAIN v <=> p \in DOMAIN w /\ (s \in sources => w[p] >= from)
        /\ \A p \in DOMAIN v : v[p] = w[p]
    BY <2>1, PrunedWindow
  <2>3. At(windows, s, << >>) = v
    BY <2>1
  <2> QED BY <2>1, <2>2, <2>3
<1>4. ASSUME NEW s \in Src, NEW p \in DOMAIN At(windows, s, << >>)
      PROVE  /\ p \in DOMAIN At(ports, s, << >>)
             /\ <<s, p>> \in DOMAIN visited /\ At(windows, s, << >>)[p] = visited[<<s, p>>]
             /\ s \in sources => visited[<<s, p>>] >= from
  <2>1. PICK w, v : w = At(ports, s, << >>) /\ v = At(windows, s, << >>)
    OBVIOUS
  <2>2. p \in DOMAIN w /\ v[p] = w[p] /\ (s \in sources => w[p] >= from)
    BY <1>3, <2>1
  <2>3. <<s, p>> \in DOMAIN visited /\ w[p] = visited[<<s, p>>]
    BY <1>1, <2>1, <2>2 DEF ListedInv
  <2> QED BY <2>1, <2>2, <2>3
<1>5. ASSUME NEW s \in Src, NEW p \in Port, <<s, p>> \in DOMAIN visited,
             visited[<<s, p>>] >= from
      PROVE  p \in DOMAIN At(windows, s, << >>)
  <2>1. visited[<<s, p>>] >= latest.clock - Timeout
    BY <1>1, <1>2, <1>5 DEF TimesInv
  <2>2. p \in DOMAIN At(ports, s, << >>)
    BY <1>1, <1>5, <2>1 DEF KeptInv
  <2>3. At(ports, s, << >>)[p] = visited[<<s, p>>]
    BY <1>1, <2>2 DEF ListedInv
  <2> QED BY <1>3, <1>5, <2>2, <2>3
<1>6. ASSUME NEW k \in DOMAIN visited, visited[k] >= from
      PROVE  k[2] \in DOMAIN At(windows, k[1], << >>)
  <2>1. PICK s \in Src, p \in Port : k = <<s, p>> /\ k[1] = s /\ k[2] = p
    BY <1>1 DEF Key
  <2> QED BY <1>5, <1>6, <2>1
<1>7. ASSUME NEW s \in Src, s \in sources
      PROVE  DOMAIN At(windows, s, << >>) = VisitedSince(s, from)
  <2>1. ASSUME NEW p \in DOMAIN At(windows, s, << >>)
        PROVE  p \in VisitedSince(s, from)
    <3>1. p \in Port
      BY <1>1, <1>4 DEF Key
    <3> QED BY <1>4, <1>7, <3>1 DEF VisitedSince
  <2>2. ASSUME NEW p \in VisitedSince(s, from)
        PROVE  p \in DOMAIN At(windows, s, << >>)
    BY <1>5 DEF VisitedSince
  <2> QED BY <2>1, <2>2
<1> QED BY <1>4, <1>6, <1>7 DEF Counting

LEMMA ExpireVisits ==
  ASSUME IInv, VisitsInv, NEW t \in Thread, NEW clock \in Int, NEW next, Expire(t, clock, next)
  PROVE  VisitsInv'
<1>1. /\ sessions' = Without(sessions, Expired(clock))
      /\ ports' = PrunedPorts(Stale(clock), clock - Timeout)
      /\ latest' = [latest EXCEPT !.clock = Later(@, clock)]
      /\ backwards' = (backwards \/ clock < latest.clock)
      /\ UNCHANGED <<features, visited>>
  BY DEF Expire, CleanedUp, UsesClock
<1>2. /\ latest.clock \in Int /\ latest'.ts = latest.ts
      /\ latest'.clock = Later(latest.clock, clock)
  BY <1>1 DEF IInv, TypeInv
<1>3. DOMAIN visited' \subseteq Key /\ DOMAIN sessions' \subseteq Key /\ latest'.ts >= 0
  BY <1>1, <1>2 DEF VisitsInv, Without, Restrict
<1>4. PortVisitsExact'
  BY <1>1 DEF VisitsInv, PortVisitsExact, VisitedSince
<1>5. ASSUME ~backwards'
      PROVE  TimesInv' /\ ListedInv' /\ KeptInv'
  <2>0. ~backwards /\ ~(clock < latest.clock)
    BY <1>1, <1>5
  <2>1. ~backwards /\ clock >= latest.clock /\ latest'.clock = clock
    BY <1>2, <2>0 DEF Later
  <2>2. PICK windows, sources, from :
          windows = ports' /\ sources = Stale(clock) /\ from = clock - Timeout
    OBVIOUS
  <2>3. \A s : At(windows, s, << >>) = At(PrunedPorts(sources, from), s, << >>)
    BY <1>1, <2>2
  <2>4. Counting(windows, sources, from)
    BY <2>1, <2>2, <2>3, PrunedVisits
  <2>5. TimesInv'
    BY <1>1, <1>2, <2>1 DEF VisitsInv, TimesInv
  <2>6. ListedInv'
    BY <1>1, <2>2, <2>4 DEF Counting, ListedInv
  <2>7. KeptInv'
    BY <1>1, <2>1, <2>2, <2>4 DEF Counting, KeptInv
  <2> QED BY <2>5, <2>6, <2>7
<1> QED BY <1>3, <1>4, <1>5 DEF VisitsInv

\* A flush counts the window it has just pruned.
LEMMA FlushVisits ==
  ASSUME IInv, VisitsInv, NEW t \in Thread, Flush(t)
  PROVE  VisitsInv'
<1>1. PICK c \in Int : c = thread[t].clock
  BY DEF IInv, TypeInv
<1>2. PICK due, sources : due = dirty \cap DOMAIN sessions /\ sources = {k[1] : k \in due}
  OBVIOUS
<1>3. PICK left, from : left = PrunedPorts(sources, from) /\ from = c - Timeout
  OBVIOUS
<1>4. /\ ports' = [s \in DOMAIN left \cup sources |-> At(left, s, << >>)]
      /\ features' = {[key |-> k, by |-> t, clock |-> c, packets |-> sessions[k].packets,
                       port_visits |-> Cardinality(DOMAIN ports'[k[1]])] : k \in due}
      /\ latest' = [latest EXCEPT !.clock = Later(@, c)]
      /\ backwards' = (backwards \/ c < latest.clock)
      /\ UNCHANGED <<sessions, visited>>
  BY <1>1, <1>2, <1>3 DEF Flush, Flushed, UsesClock
<1>5. /\ latest.clock \in Int /\ latest'.ts = latest.ts
      /\ latest'.clock = Later(latest.clock, c)
  BY <1>4 DEF IInv, TypeInv
<1>6. DOMAIN visited' \subseteq Key /\ DOMAIN sessions' \subseteq Key /\ latest'.ts >= 0
  BY <1>4, <1>5 DEF VisitsInv
<1>7. PICK windows : windows = ports'
  OBVIOUS
<1>8. \A s : At(windows, s, << >>) = At(left, s, << >>)
  BY <1>4, <1>7 DEF At
<1>9. ASSUME ~backwards'
      PROVE  TimesInv' /\ ListedInv' /\ KeptInv' /\ Counting(windows, sources, from)
  <2>0. ~backwards /\ ~(c < latest.clock)
    BY <1>4, <1>9
  <2>1. ~backwards /\ c >= latest.clock /\ latest'.clock = c
    BY <1>5, <2>0 DEF Later
  <2>2. Counting(windows, sources, from)
    <3>1. \A s : At(windows, s, << >>) = At(PrunedPorts(sources, from), s, << >>)
      BY <1>3, <1>8
    <3> QED BY <1>3, <2>1, <3>1, PrunedVisits
  <2>3. TimesInv'
    BY <1>4, <1>5, <2>1 DEF VisitsInv, TimesInv
  <2>4. ListedInv'
    BY <1>4, <1>7, <2>2 DEF Counting, ListedInv
  <2>5. KeptInv'
    BY <1>3, <1>4, <1>7, <2>1, <2>2 DEF Counting, KeptInv
  <2> QED BY <2>2, <2>3, <2>4, <2>5
<1>10. PortVisitsExact'
  <2>1. ASSUME ~backwards', NEW f \in features'
        PROVE  f.port_visits = Cardinality(VisitedSince(f.key[1], f.clock - Timeout))
    <3>0. PICK k \in due :
            f = [key |-> k, by |-> t, clock |-> c, packets |-> sessions[k].packets,
                 port_visits |-> Cardinality(DOMAIN ports'[k[1]])]
      BY <1>4, <2>1
    <3>1. f.key = k /\ f.clock = c /\ f.port_visits = Cardinality(DOMAIN windows[k[1]])
      BY <1>7, <3>0
    <3>2. k \in Key /\ k[1] \in Src \cap sources /\ k[1] \in DOMAIN windows
      BY <1>2, <1>4, <1>7 DEF VisitsInv, Key
    <3>3. windows[k[1]] = At(windows, k[1], << >>)
      BY <3>2 DEF At
    <3>4. DOMAIN windows[k[1]] = VisitedSince(k[1], from)
      BY <1>9, <2>1, <3>2, <3>3 DEF Counting
    <3> QED BY <1>3, <3>1, <3>4
  <2>2. visited' = visited
    BY <1>4
  <2> QED BY <2>1, <2>2 DEF PortVisitsExact, VisitedSince
<1> QED BY <1>6, <1>9, <1>10 DEF VisitsInv

\* Other steps leave windows and visits alone, and report nothing.
LEMMA OtherVisits ==
  ASSUME VisitsInv,
         \/ \E t \in Thread : Clear(t)
         \/ EndImport \/ ImportFails \/ Tick \/ UNCHANGED vars
  PROVE  VisitsInv'
<1>1. /\ UNCHANGED <<sessions, ports, visited, latest, backwards>>
      /\ features' = features \/ features' = {}
  BY DEF Clear, EndImport, ImportFails, Tick, table, history, vars
<1>2. PortVisitsExact'
  BY <1>1 DEF VisitsInv, PortVisitsExact, VisitedSince
<1>3. ~backwards => TimesInv' /\ ListedInv' /\ KeptInv'
  BY <1>1 DEF VisitsInv, TimesInv, ListedInv, KeptInv
<1> QED BY <1>1, <1>2, <1>3 DEF VisitsInv

LEMMA NextVisits == IInv /\ VisitsInv /\ [Next]_vars => VisitsInv'
<1> SUFFICES ASSUME IInv, VisitsInv, [Next]_vars
             PROVE  VisitsInv'
  OBVIOUS
<1>1. wall \in Int /\ \A t \in Thread : thread[t].clock \in Int
  BY DEF IInv, TypeInv
<1>2. ASSUME NEW k \in Key, IngestLive(k)
      PROVE  VisitsInv'
  <2>1. PICK ts \in {wall - 1, wall} : Ingest("worker", k, ts)
    BY <1>2 DEF IngestLive
  <2>2. ts \in Int
    BY <1>1
  <2> QED BY <2>1, <2>2, Constants, IngestVisits
<1>3. ASSUME NEW k \in Key, IngestOffline(k)
      PROVE  VisitsInv'
  <2>1. PICK ts \in 0 .. FileEnd : Ingest("import", k, ts)
    BY <1>3 DEF IngestOffline
  <2>2. ts \in Int
    BY AggregatorAssumption
  <2> QED BY <2>1, <2>2, Constants, IngestVisits
<1>4. CASE ExpireLive
  BY <1>1, <1>4, Constants, ExpireVisits DEF ExpireLive
<1>5. CASE ExpireOffline
  <2>1. PICK next : Expire("import", thread["import"].clock, next)
    BY <1>5 DEF ExpireOffline
  <2> QED BY <1>1, <2>1, Constants, ExpireVisits
<1>6. ASSUME NEW t \in Thread, Flush(t)
      PROVE  VisitsInv'
  BY <1>6, FlushVisits
<1> QED BY <1>2, <1>3, <1>4, <1>5, <1>6, OtherVisits DEF Next

-------------------------------------------------------------------------------
(* The theorems *)

\* No packet of a session goes unreported while the session lives, unless a packet came
\* while the other thread was clearing the marks: for any sessions, clocks and files.
THEOREM NothingForgottenAlways == Spec => []NothingForgotten
<1>1. IInv => NothingForgotten
  BY DEF IInv, ReportInv, NothingForgotten
<1> QED
  BY <1>1, SpecIInv, PTL

\* As long as no clock runs backwards, no window stays in memory after its source is
\* forgotten, whatever the two timeouts are.
THEOREM NoOrphanWindowsAlways == Spec => []NoOrphanWindows
<1>1. IInv => NoOrphanWindows
  BY DEF IInv, WindowInv, PortsInv, RecentInv, NoOrphanWindows
<1> QED
  BY <1>1, SpecIInv, PTL

\* As long as no clock runs backwards, a feature counts exactly the ports its source
\* visited within the session timeout, for any sources, ports and number of packets,
\* whatever flush_features and cleanup_expired of the two threads pruned before.
THEOREM PortVisitsExactAlways == Spec => []PortVisitsExact
<1>1. VisitsInv => PortVisitsExact
  BY DEF VisitsInv
<1>2. Spec => []VisitsInv
  BY SpecIInv, InitVisits, NextVisits, PTL DEF Spec
<1> QED
  BY <1>1, <1>2, PTL

-------------------------------------------------------------------------------
(* FlowWorkbench *)

Stored == ToSet(live) \union ToSet(offline)
\* What is stored of a frame
Typed(row) ==
  /\ row = [id |-> row.id, source |-> row.source, gen |-> row.gen, ts |-> row.ts,
            proto |-> row.proto, from |-> row.from, to |-> row.to, link |-> row.link,
            head |-> row.head, seq |-> row.seq, bytes |-> row.bytes]
  /\ row.ts \in Int /\ (row.proto = "TCP" => row.seq \in Int)
  /\ row.bytes \in Seq(ToSet(row.bytes))
\* A row that is or was stored; an offline one of the table there is now is in it still.
Known(row) ==
  /\ Typed(row)
  /\ \/ /\ row.source = "live" /\ row.id \in 1 .. nextLive - 1
        /\ \A r \in Stored : r.id = row.id => r = row
     \/ /\ row.source = "offline" /\ row.id \in Int /\ row.id < 0 /\ row.gen \in 0 .. gen
        /\ row.gen = gen => row \in ToSet(offline)
\* A row that is gone for good
Lost(row) == row \notin Stored /\ (row.source = "offline" => row.gen < gen)
Storable(frame) ==
  /\ frame.proto = "TCP" => frame.seq \in Int
  /\ frame.bytes \in Seq(ToSet(frame.bytes))

\* What the stores hold, and what an import has still to store
RowsInv ==
  /\ nextLive \in Nat \ {0} /\ gen \in Nat
  /\ live \in Seq(ToSet(live)) /\ offline \in Seq(ToSet(offline))
  /\ \A r \in ToSet(live) : r.source = "live" /\ r.id \in 1 .. nextLive - 1 /\ Typed(r)
  /\ \A r \in ToSet(offline) :
       /\ r.source = "offline" /\ r.gen = gen /\ Typed(r)
       /\ r.id \in Int /\ r.id < 0 /\ -r.id <= Len(offline)
  /\ \A r, s \in Stored : r.id = s.id => r = s
  /\ import = [at |-> import.at, mode |-> import.mode, frames |-> import.frames]
  /\ import # NoImport =>
       /\ import.mode \in DOMAIN Preview /\ import.mode # "live"
       /\ import.frames \in Seq(ToSet(import.frames))
       /\ \A frame \in ToSet(import.frames) : frame.ts \in Int /\ Storable(frame)
\* The rows of the packet list, of the query that loads it, and the one selected
PageInv ==
  /\ asked.at # "none" => DOMAIN page = {}
  /\ asked.at = "read" =>
       asked.rows \in Seq(ToSet(asked.rows)) /\ \A r \in ToSet(asked.rows) : Known(r)
  /\ IsFiniteSet(DOMAIN page)
  /\ \A id \in DOMAIN page : page[id].id = id /\ Known(page[id])
  /\ selected = None \/ (selected.id \in DOMAIN page /\ selected = page[selected.id])
\* The cache answers for the list; so does the reader whose answer is still wanted.
DetailInv ==
  /\ detailToken \in Nat /\ cache \in Seq(ToSet(cache))
  /\ \A d \in ToSet(cache) : d.id \in DOMAIN page => Answers(page[d.id], d)
  /\ \A t \in readers :
       /\ t = [token |-> t.token, id |-> t.id, at |-> t.at, detail |-> t.detail]
       /\ t.token \in 1 .. detailToken
       /\ t.token = detailToken =>
            /\ t.id \in DOMAIN page
            /\ t.at = "apply" /\ t.detail # None => Answers(page[t.id], t.detail)
  /\ pane = None \/ Answers(pane.row, pane.detail)
\* What a tracer has read so far is one flow, that of the row it was asked for.
OneFlow(rows) ==
  /\ rows \in Seq(ToSet(rows)) /\ rows # << >>
  /\ \A r \in ToSet(rows) : Typed(r) /\ SameFlow(r, rows[1])
ShowsFlow(want, rows, anchor) ==
  \/ ReplacedBy(want, rows[Len(rows)])
  \/ /\ want \in ToSet(rows) \/ Len(rows) = Limit
     /\ anchor = want.from
FlowInv ==
  /\ \A t \in tracers :
       /\ t = [token |-> t.token, want |-> t.want, at |-> t.at, detail |-> t.detail, rows |-> t.rows]
       /\ Known(t.want)
       /\ t.at = "rows" =>
            IF t.detail = None THEN Lost(t.want) ELSE Answers(t.want, t.detail) /\ Known(t.detail)
       /\ t.at = "apply" =>
            \/ t.rows = <<>>
            \/ /\ OneFlow(t.rows)
               /\ ShowsFlow(t.want, t.rows, IF t.detail = None THEN t.rows[1].from ELSE t.detail.from)
  /\ window = None \/ (OneFlow(window.rows) /\ ShowsFlow(window.want, window.rows, window.anchor))
\* The rows of an export are of different packets.
Sound(row) ==
  /\ Typed(row) /\ row.id \in Int
  /\ (row.source = "live" /\ row.id > 0) \/ (row.source = "offline" /\ row.id < 0)
ExportInv ==
  /\ export.at \in {"expand", "done"} => IsFiniteSet(export.rows)
  /\ export.at = "expand" =>
       /\ \A r \in export.rows : Known(r)
       /\ \A r, s \in export.rows : r.id = s.id => r = s
  /\ export.at = "done" =>
       /\ \A r \in export.rows :
            /\ Answers(r.of, r.row) \/ (r.row = Bare(r.of) /\ Known(r.of) /\ Lost(r.of))
            /\ Sound(r.row)
       /\ \A r, s \in export.rows : r.row.id = s.row.id => r = s
ShownInv == RowsInv /\ PageInv /\ DetailInv /\ FlowInv /\ ExportInv

-------------------------------------------------------------------------------
(* Sequences and their elements *)

\* A sequence is one of its own elements.
LEMMA OwnElements ==
  ASSUME NEW S, NEW s \in Seq(S)
  PROVE  /\ s \in Seq(ToSet(s)) /\ ToSet(s) \subseteq S
         /\ ToSet(s) = {s[i] : i \in 1 .. Len(s)} /\ Len(s) \in Nat
<1>1. Len(s) \in Nat /\ DOMAIN s = 1 .. Len(s) /\ s \in [1 .. Len(s) -> S]
  BY LenProperties
<1>2. ToSet(s) = {s[i] : i \in 1 .. Len(s)}
  BY <1>1 DEF ToSet
<1>3. s \in [1 .. Len(s) -> ToSet(s)]
  BY <1>1, <1>2
<1> QED
  BY <1>1, <1>2, <1>3, SeqDef

\* The empty sequence has none.
LEMMA NoElements == ToSet(<< >>) = {} /\ << >> \in Seq(ToSet(<< >>)) /\ Len(<< >>) = 0
<1>1. << >> \in Seq({}) /\ Len(<< >>) = 0
  BY EmptySeq
<1>2. ToSet(<< >>) = {<< >>[i] : i \in 1 .. Len(<< >>)} /\ << >> \in Seq(ToSet(<< >>))
  BY <1>1, OwnElements
<1>3. 1 .. 0 = {}
  OBVIOUS
<1> QED
  BY <1>1, <1>2, <1>3

\* What an append, a tail and a removal leave of the elements.
LEMMA Appended ==
  ASSUME NEW s, s \in Seq(ToSet(s)), NEW x
  PROVE  /\ Append(s, x) \in Seq(ToSet(Append(s, x)))
         /\ ToSet(Append(s, x)) = ToSet(s) \union {x}
         /\ Len(Append(s, x)) = Len(s) + 1 /\ Len(s) \in Nat
<1> DEFINE S == ToSet(s) \union {x}
           t == Append(s, x)
<1>1. s \in Seq(S) /\ Len(s) \in Nat /\ ToSet(s) = {s[i] : i \in 1 .. Len(s)}
  BY SeqMonotonic, OwnElements
<1>2. /\ t \in Seq(S) /\ Len(t) = Len(s) + 1 /\ t[Len(s) + 1] = x
      /\ \A i \in 1 .. Len(s) : t[i] = s[i]
  <2> HIDE DEF S
  <2>1. x \in S
    BY DEF S
  <2> QED
    BY <1>1, <2>1, AppendProperties
<1>3. t \in Seq(ToSet(t)) /\ ToSet(t) = {t[i] : i \in 1 .. Len(t)} /\ ToSet(t) \subseteq S
  BY <1>2, OwnElements
<1> HIDE DEF t
<1>4. ASSUME NEW y \in S PROVE y \in ToSet(t)
  <2>1. CASE y = x
    BY <1>1, <1>2, <1>3, <2>1
  <2>2. CASE y \in ToSet(s)
    <3>1. PICK i \in 1 .. Len(s) : y = s[i]
      BY <1>1, <2>2
    <3>2. i \in 1 .. Len(t) /\ y = t[i]
      BY <1>1, <1>2, <3>1
    <3> QED
      BY <1>3, <3>2
  <2> QED
    BY <2>1, <2>2
<1> QED
  BY <1>1, <1>2, <1>3, <1>4 DEF t

\* Head and tail of a sequence are of its elements.
LEMMA Shortened ==
  ASSUME NEW s, s \in Seq(ToSet(s)), s # << >>
  PROVE  /\ Head(s) \in ToSet(s) /\ Tail(s) \in Seq(ToSet(Tail(s)))
         /\ ToSet(Tail(s)) \subseteq ToSet(s)
<1>1. Head(s) \in ToSet(s) /\ Tail(s) \in Seq(ToSet(s))
  BY HeadTailProperties
<1> QED
  BY <1>1, OwnElements

\* Removing an element brings no new one.
LEMMA Removed ==
  ASSUME NEW s, s \in Seq(ToSet(s)), NEW i \in 1 .. Len(s)
  PROVE  /\ RemoveAt(s, i) \in Seq(ToSet(RemoveAt(s, i)))
         /\ ToSet(RemoveAt(s, i)) \subseteq ToSet(s)
<1> DEFINE a == SubSeq(s, 1, i - 1)
           b == SubSeq(s, i + 1, Len(s))
<1>1. Len(s) \in Nat /\ \A j \in 1 .. Len(s) : s[j] \in ToSet(s)
  BY OwnElements, ElementOfSeq
<1>2. a \in Seq(ToSet(s))
  <2>1. \A j \in 1 .. i - 1 : s[j] \in ToSet(s)
    BY <1>1
  <2> QED
    BY <1>1, <2>1, SubSeqProperties
<1>3. b \in Seq(ToSet(s))
  <2>1. \A j \in i + 1 .. Len(s) : s[j] \in ToSet(s)
    BY <1>1
  <2> QED
    BY <1>1, <2>1, SubSeqProperties
<1>4. RemoveAt(s, i) = a \o b
  BY DEF RemoveAt
<1> HIDE DEF a, b
<1>5. RemoveAt(s, i) \in Seq(ToSet(s))
  BY <1>2, <1>3, <1>4, ConcatProperties
<1> QED
  BY <1>5, OwnElements

\* Counting how many come before puts a finite set in its order: less is a set of pairs.
IsOrder(less, R) ==
  /\ \A r \in R : <<r, r>> \notin less
  /\ \A r \in R : \A s \in R : r = s \/ <<r, s>> \in less \/ <<s, r>> \in less
  /\ \A r \in R : \A s \in R : \A q \in R :
       <<q, r>> \in less /\ <<r, s>> \in less => <<q, s>> \in less
Enumerates(t, R, less) ==
  /\ Cardinality(R) \in Nat /\ t \in [1 .. Cardinality(R) -> R]
  /\ \A r \in R : \E n \in 1 .. Cardinality(R) : t[n] = r
  /\ \A m, n \in 1 .. Cardinality(R) : m < n => <<t[m], t[n]>> \in less

\* Choosing by that count lists the set: each element once, the lesser one first.
LEMMA InCountedOrder ==
  ASSUME NEW R, IsFiniteSet(R), NEW less, IsOrder(less, R),
         NEW before, \A r \in R : before[r] = {s \in R : <<s, r>> \in less},
         NEW t, t = [n \in 1 .. Cardinality(R) |-> CHOOSE r \in R : Cardinality(before[r]) = n - 1]
  PROVE  Enumerates(t, R, less)
<1> DEFINE N == Cardinality(R)
           count == [r \in R |-> Cardinality(before[r])]
<1> HIDE DEF N
<1>1. t = [n \in 1 .. N |-> CHOOSE r \in R : Cardinality(before[r]) = n - 1]
  BY DEF N
<1>2. /\ \A r \in R : before[r] = {s \in R : <<s, r>> \in less}
      /\ \A r \in R : <<r, r>> \notin less
      /\ \A r \in R : \A s \in R : r = s \/ <<r, s>> \in less \/ <<s, r>> \in less
      /\ \A r \in R : \A s \in R : \A q \in R :
           <<q, r>> \in less /\ <<r, s>> \in less => <<q, s>> \in less
  BY DEF IsOrder
<1>3. \A S, T : IsFiniteSet(S) /\ T \in SUBSET S /\ T # S =>
        /\ IsFiniteSet(T) /\ Cardinality(T) \in Nat /\ Cardinality(S) \in Nat
        /\ Cardinality(T) < Cardinality(S)
  BY FS_Subset, FS_CardinalityType
<1>4. N \in Nat
  BY FS_CardinalityType DEF N
<1>5. ASSUME NEW r \in R PROVE IsFiniteSet(before[r]) /\ Cardinality(before[r]) \in 0 .. N - 1
  <2>1. before[r] = {s \in R : <<s, r>> \in less} /\ <<r, r>> \notin less
    BY <1>2
  <2>2. before[r] \in SUBSET R /\ r \notin before[r]
    BY <2>1
  <2>3. before[r] # R
    BY <2>2
  <2>4. IsFiniteSet(before[r]) /\ Cardinality(before[r]) \in Nat /\ Cardinality(before[r]) < N
    BY <1>3, <2>2, <2>3 DEF N
  <2> QED
    BY <1>4, <2>4
<1>6. ASSUME NEW r \in R, NEW s \in R, <<s, r>> \in less
      PROVE  Cardinality(before[s]) < Cardinality(before[r])
  <2>1. before[s] \in SUBSET before[r] /\ before[s] # before[r]
    BY <1>2, <1>6
  <2> QED
    BY <1>3, <1>5, <2>1
<1>7. count \in [R -> 0 .. N - 1]
  BY <1>5
<1>8. ASSUME NEW r \in R, NEW s \in R, count[r] = count[s] PROVE r = s
  <2>1. Cardinality(before[r]) = Cardinality(before[s]) /\ Cardinality(before[r]) \in Int
    BY <1>5, <1>8
  <2>2. <<r, s>> \notin less
    <3>1. SUFFICES ASSUME <<r, s>> \in less PROVE FALSE
      OBVIOUS
    <3> QED
      BY <1>6, <2>1, <3>1
  <2>3. <<s, r>> \notin less
    <3>1. SUFFICES ASSUME <<s, r>> \in less PROVE FALSE
      OBVIOUS
    <3> QED
      BY <1>6, <2>1, <3>1
  <2> QED
    BY <1>2, <2>2, <2>3
<1>9. count \in Injection(R, 0 .. N - 1)
  BY <1>7, <1>8 DEF Injection, IsInjective
<1>10. IsFiniteSet(0 .. N - 1) /\ Cardinality(0 .. N - 1) = N
  <2>1. 0 \in Int /\ N - 1 \in Int
    BY <1>4
  <2> QED
    BY <1>4, <2>1, FS_Interval
<1>11. count \in Surjection(R, 0 .. N - 1)
  BY <1>9, <1>10, FS_Injection DEF N
<1>12. \A n \in 1 .. N : \E r \in R : Cardinality(before[r]) = n - 1
  <2> TAKE n \in 1 .. N
  <2>1. n - 1 \in 0 .. N - 1
    BY <1>4
  <2>2. PICK r \in R : count[r] = n - 1
    BY <1>11, <2>1 DEF Surjection
  <2> QED
    BY <2>2
<1>13. \A n \in 1 .. N : t[n] \in R /\ Cardinality(before[t[n]]) = n - 1
  BY <1>1, <1>12
<1>14. t \in [1 .. N -> R]
  BY <1>1, <1>13
<1>15. ASSUME NEW r \in R PROVE \E n \in 1 .. N : t[n] = r
  <2>1. PICK n \in 1 .. N : n = Cardinality(before[r]) + 1
    BY <1>4, <1>5
  <2>2. t[n] \in R /\ Cardinality(before[t[n]]) = Cardinality(before[r])
    BY <1>5, <1>13, <2>1
  <2>3. count[t[n]] = count[r]
    BY <2>2
  <2> QED
    BY <1>8, <2>2, <2>3
<1>16. ASSUME NEW m \in 1 .. N, NEW n \in 1 .. N, m < n PROVE <<t[m], t[n]>> \in less
  <2>1. /\ t[m] \in R /\ t[n] \in R
        /\ Cardinality(before[t[m]]) = m - 1 /\ Cardinality(before[t[n]]) = n - 1
    BY <1>13
  <2>2. t[m] # t[n]
    BY <1>16, <2>1
  <2>3. <<t[n], t[m]>> \notin less
    <3>1. SUFFICES ASSUME <<t[n], t[m]>> \in less PROVE FALSE
      OBVIOUS
    <3>2. Cardinality(before[t[n]]) < Cardinality(before[t[m]])
      BY <1>6, <2>1, <3>1
    <3> QED
      BY <1>16, <2>1, <3>2
  <2> QED
    BY <1>2, <2>1, <2>2, <2>3
<1> QED
  BY <1>4, <1>14, <1>15, <1>16 DEF N, Enumerates

\* What is in no order is put in the order of time without losing anything.
LEMMA InTime ==
  ASSUME NEW R, IsFiniteSet(R), \A r \in R : r.ts \in Int /\ Number(r) \in Int,
         \A r \in R : \A s \in R : r.ts = s.ts /\ Number(r) = Number(s) => r = s
  PROVE  /\ ByTime(R) \in Seq(R) /\ Len(ByTime(R)) = Cardinality(R) /\ Cardinality(R) \in Nat
         /\ \A r \in R : \E n \in 1 .. Cardinality(R) : ByTime(R)[n] = r
<1> DEFINE Earlier(s, r) == s.ts < r.ts \/ (s.ts = r.ts /\ Number(s) < Number(r))
           less == {p \in R \X R : Earlier(p[1], p[2])}
           before == [r \in R |-> {s \in R : Earlier(s, r)}]
           t == ByTime(R)
<1>1. /\ t = [n \in 1 .. Cardinality(R) |-> CHOOSE r \in R : Cardinality(before[r]) = n - 1]
      /\ \A r \in R : before[r] = {s \in R : Earlier(s, r)}
  <2>1. t = [n \in 1 .. Cardinality(R) |-> CHOOSE r \in R : Cardinality(before[r]) = n - 1]
    BY DEF ByTime
  <2> QED
    BY <2>1
<1> HIDE DEF before
<1>2. \A r \in R : \A s \in R : <<s, r>> \in less <=> Earlier(s, r)
  OBVIOUS
<1>3. \A r \in R : \A s \in R :
        /\ ~Earlier(r, r)
        /\ r = s \/ Earlier(r, s) \/ Earlier(s, r)
        /\ \A q \in R : Earlier(q, r) /\ Earlier(r, s) => Earlier(q, s)
  OBVIOUS
<1> HIDE DEF less, Earlier, t
<1>4. IsOrder(less, R)
  BY <1>2, <1>3 DEF IsOrder
<1>6. \A r \in R : before[r] = {s \in R : <<s, r>> \in less}
  BY <1>1, <1>2
<1>5. Enumerates(t, R, less)
  BY <1>1, <1>4, <1>6, InCountedOrder, SMTT(30)
<1>7. /\ Cardinality(R) \in Nat /\ t \in [1 .. Cardinality(R) -> R]
      /\ \A r \in R : \E n \in 1 .. Cardinality(R) : t[n] = r
  BY <1>5 DEF Enumerates
<1>8. t \in Seq(R) /\ Len(t) = Cardinality(R)
  <2>1. PICK n \in Nat : n = Cardinality(R)
    BY <1>7
  <2>2. t \in [1 .. n -> R]
    BY <1>7, <2>1
  <2>3. t \in Seq(R) /\ Len(t) = n
    BY <2>2, SeqDef, LenProperties
  <2> QED
    BY <2>1, <2>3
<1> QED
  BY <1>7, <1>8 DEF t

(* Rows and stores *)

\* The lesser of two numbers is their Min,
LEMMA LesserOf ==
  ASSUME NEW a \in Int, NEW b \in Int
  PROVE  Min({a, b}) = IF a <= b THEN a ELSE b
<1> DEFINE m == IF a <= b THEN a ELSE b
<1>1. m \in {a, b} /\ \A y \in {a, b} : m <= y
  OBVIOUS
<1>2. \A x \in {a, b} : (\A y \in {a, b} : x <= y) => x = m
  OBVIOUS
<1>3. Min({a, b}) = CHOOSE x \in {a, b} : \A y \in {a, b} : x <= y
  BY DEF Min
<1> HIDE DEF m
<1> QED
  BY <1>1, <1>2, <1>3

\* the greater one their Max.
LEMMA GreaterOf ==
  ASSUME NEW a \in Int, NEW b \in Int
  PROVE  Max({a, b}) = IF a >= b THEN a ELSE b
<1> DEFINE m == IF a >= b THEN a ELSE b
<1>1. m \in {a, b} /\ \A y \in {a, b} : m >= y
  OBVIOUS
<1>2. \A x \in {a, b} : (\A y \in {a, b} : x >= y) => x = m
  OBVIOUS
<1>3. Max({a, b}) = CHOOSE x \in {a, b} : \A y \in {a, b} : x >= y
  BY DEF Max
<1> HIDE DEF m
<1> QED
  BY <1>1, <1>2, <1>3

\* No more of a frame is kept than there is.
LEMMA KeptLength ==
  ASSUME NEW a \in Int, NEW n \in Nat
  PROVE  \E m \in Int : m = Min({Max({a, 0}), n}) /\ m <= n
<1>1. PICK k \in Int : k = Max({a, 0})
  BY GreaterOf
<1>2. Min({k, n}) = IF k <= n THEN k ELSE n
  BY LesserOf
<1> QED
  BY <1>1, <1>2

\* What is stored of a frame
LEMMA StoredAs ==
  ASSUME WorkbenchAssumption, NEW frame, Storable(frame), NEW mode \in DOMAIN Preview, NEW n,
         NEW when \in Int
  PROVE  LET r == RowOf(frame, mode, n, when)
         IN  /\ r.source = IF mode = "live" THEN "live" ELSE "offline"
             /\ r.id = IF mode = "live" THEN n ELSE -n
             /\ r.gen = IF mode = "live" THEN 0 ELSE gen
             /\ Typed(r)
<1> DEFINE r == RowOf(frame, mode, n, when)
           all == frame.bytes
           part == SubSeq(all, 1, Min({Max({Preview[mode], 0}), Len(all)}))
<1>1. part \in Seq(ToSet(part))
  <2>1. PICK a \in Int : a = Preview[mode]
    BY DEF WorkbenchAssumption
  <2> HIDE DEF all
  <2>2. all \in Seq(ToSet(all)) /\ Len(all) \in Nat
    <3>1. all \in Seq(ToSet(all))
      BY DEF Storable, all
    <3> QED
      BY <3>1, LenProperties
  <2>3. PICK m \in Int : m = Min({Max({a, 0}), Len(all)}) /\ m <= Len(all)
    BY <2>2, KeptLength
  <2>4. part = SubSeq(all, 1, m)
    BY <2>1, <2>3, Zenon
  <2>5. \A i \in 1 .. m : all[i] \in ToSet(all)
    BY <2>2, <2>3, ElementOfSeq
  <2> HIDE DEF part
  <2>6. 1 \in Int
    OBVIOUS
  <2>7. SubSeq(all, 1, m) \in Seq(ToSet(all))
    BY ONLY <2>3, <2>5, <2>6, SubSeqProperties, Zenon
  <2> QED
    BY ONLY <2>4, <2>7, OwnElements, Zenon
<1>2. r = [id |-> IF mode = "live" THEN n ELSE -n,
           source |-> IF mode = "live" THEN "live" ELSE "offline",
           gen |-> IF mode = "live" THEN 0 ELSE gen, ts |-> when, proto |-> frame.proto,
           from |-> frame.from, to |-> frame.to, link |-> frame.link,
           head |-> Preview[mode] # -1, seq |-> frame.seq, bytes |-> part]
  BY Zenon DEF RowOf
<1> HIDE DEF r, part
<1>3. Typed(r)
  BY <1>1, <1>2 DEF Typed, Storable
<1>4. /\ r.source = IF mode = "live" THEN "live" ELSE "offline"
      /\ r.id = IF mode = "live" THEN n ELSE -n
      /\ r.gen = IF mode = "live" THEN 0 ELSE gen
  BY <1>2
<1> QED
  BY <1>3, <1>4 DEF r

\* The ids of the two stores and of None do not meet.
LEMMA Ids ==
  ASSUME RowsInv
  PROVE  /\ \A r \in ToSet(live) : r.id \in Int /\ r.id > 0 /\ r.id < nextLive /\ r.source = "live"
         /\ \A r \in ToSet(offline) :
              r.id \in Int /\ r.id < 0 /\ -r.id <= Len(offline) /\ r.source = "offline"
         /\ Len(offline) \in Nat /\ Len(live) \in Nat /\ nextLive \in Nat \ {0} /\ gen \in Nat
<1>1. Len(live) \in Nat /\ Len(offline) \in Nat /\ nextLive \in Nat
  BY OwnElements DEF RowsInv
<1>2. ASSUME NEW r \in ToSet(offline) PROVE r.id \in Int /\ r.id < 0 /\ -r.id <= Len(offline)
  BY DEF RowsInv
<1>3. ASSUME NEW r \in ToSet(live) PROVE r.id \in Int /\ r.id > 0 /\ r.id < nextLive
  BY <1>1 DEF RowsInv
<1> QED
  BY <1>1, <1>2, <1>3 DEF RowsInv

\* A row of the stores is known.
LEMMA StoredIsKnown ==
  ASSUME RowsInv, NEW r \in Stored
  PROVE  Known(r) /\ ~Lost(r)
BY Ids DEF Stored, Known, Lost, RowsInv

\* A known row is not the row that stands for none.
LEMMA KnownIsSome ==
  ASSUME NEW row, Known(row)
  PROVE  row.id # 0 /\ row # None
BY DEF Known, None

\* A detail is the one row of that id.
LEMMA DetailOf ==
  ASSUME RowsInv, NEW id
  PROVE  \/ Detail(id) = None /\ \A r \in Stored : r.id # id
         \/ /\ Detail(id) \in Stored /\ Detail(id).id = id /\ Detail(id) # None
            /\ \A r \in Stored : r.id = id => r = Detail(id)
<1>1. RowsWithId(id) = {r \in Stored : r.id = id}
  BY DEF RowsWithId, Stored
<1>2. CASE RowsWithId(id) = {}
  BY <1>1, <1>2 DEF Detail
<1>3. CASE RowsWithId(id) # {}
  <2>1. Detail(id) \in RowsWithId(id)
    BY <1>3 DEF Detail
  <2>2. Detail(id) \in Stored /\ Detail(id).id = id
    BY <1>1, <2>1
  <2>3. Detail(id) # None
    BY <2>2, StoredIsKnown, KnownIsSome
  <2> QED
    BY <2>2, <2>3 DEF RowsInv
<1> QED
  BY <1>2, <1>3

\* What is read for a row that was stored is that row or one that replaced it; when nothing
\* is read the row is gone for good.
LEMMA ReadAgain ==
  ASSUME RowsInv, NEW row, Known(row)
  PROVE  IF Detail(row.id) = None THEN Lost(row)
         ELSE Answers(row, Detail(row.id)) /\ Known(Detail(row.id)) /\ Detail(row.id) \in Stored
<1> DEFINE d == Detail(row.id)
<1>1. CASE d = None
  <2>1. \A r \in Stored : r.id # row.id
    BY <1>1, DetailOf
  <2>2. row \notin Stored
    BY <2>1
  <2>3. row.source = "offline" => row.gen < gen
    BY <2>2, Ids DEF Known, Stored
  <2> QED
    BY <1>1, <2>2, <2>3 DEF Lost
<1>2. CASE d # None
  <2>1. d \in Stored /\ d.id = row.id /\ \A r \in Stored : r.id = row.id => r = d
    BY <1>2, DetailOf
  <2>2. Known(d)
    BY <2>1, StoredIsKnown
  <2>3. d = row \/ ReplacedBy(row, d)
    <3>1. CASE row.source = "live" /\ \A r \in Stored : r.id = row.id => r = row
      BY <2>1, <3>1
    <3>2. CASE /\ row.source = "offline" /\ row.id \in Int /\ row.id < 0 /\ row.gen \in 0 .. gen
               /\ row.gen = gen => row \in ToSet(offline)
      <4>1. d \in ToSet(offline) /\ d.gen = gen /\ d.source = "offline"
        BY <2>1, <3>2, Ids DEF Stored, RowsInv
      <4>2. CASE row.gen = gen
        BY <2>1, <3>2, <4>2 DEF Stored
      <4>3. CASE row.gen # gen
        BY <3>2, <4>1, <4>3, Ids DEF ReplacedBy
      <4> QED
        BY <4>2, <4>3
    <3> QED
      BY <3>1, <3>2 DEF Known
  <2> QED
    BY <1>2, <2>1, <2>2, <2>3 DEF Answers
<1> QED
  BY <1>1, <1>2

\* What a step does to the stores
StoresKept == UNCHANGED <<live, nextLive, offline, gen>>
Captured ==
  \E r : /\ live' = Append(live, r) /\ r.source = "live" /\ r.id = nextLive /\ Typed(r)
         /\ nextLive' = nextLive + 1 /\ UNCHANGED <<offline, gen>>
Dropped == offline' = << >> /\ gen' = gen + 1 /\ UNCHANGED <<live, nextLive>>
Imported ==
  \E r : /\ offline' = Append(offline, r) /\ r.source = "offline" /\ r.id = -(Len(offline) + 1)
         /\ r.gen = gen /\ Typed(r) /\ UNCHANGED <<live, nextLive, gen>>
Cleared == live' = << >> /\ UNCHANGED <<nextLive, offline, gen>>

\* What a step of the workbench does to the stores is one of these.
LEMMA StoreSteps ==
  ASSUME WorkbenchAssumption, RowsInv, WorkbenchNext
  PROVE  StoresKept \/ Captured \/ Dropped \/ Imported \/ Cleared
<1>1. ASSUME NEW f \in Frames, Capture(f) PROVE Captured
  <2> DEFINE r == RowOf(f, "live", nextLive, nextLive)
  <2>1. Storable(f) /\ "live" \in DOMAIN Preview /\ nextLive \in Int
    BY Ids DEF WorkbenchAssumption, Storable
  <2>2. r.source = "live" /\ r.id = nextLive /\ Typed(r)
    BY <2>1, StoredAs
  <2> HIDE DEF r
  <2>3. live' = Append(live, r) /\ nextLive' = nextLive + 1 /\ UNCHANGED <<offline, gen>>
    BY <1>1 DEF Capture, r
  <2> QED
    BY <2>2, <2>3 DEF Captured
<1>2. ASSUME StoreOffline PROVE Imported
  <2> DEFINE frame == Head(import.frames)
             r == RowOf(frame, import.mode, Len(offline) + 1, frame.ts)
  <2>1. import.at = "store" /\ import.frames # << >>
    BY <1>2 DEF StoreOffline
  <2>2. import # NoImport
    BY <2>1 DEF NoImport
  <2>3. import.mode \in DOMAIN Preview /\ import.mode # "live" /\ frame.ts \in Int /\ Storable(frame)
    BY <2>1, <2>2, Shortened DEF RowsInv
  <2>4. offline' = Append(offline, r) /\ UNCHANGED <<live, nextLive, gen>>
    BY <1>2 DEF StoreOffline
  <2> HIDE DEF frame
  <2>5. r.source = "offline" /\ r.id = -(Len(offline) + 1) /\ r.gen = gen /\ Typed(r)
    BY <2>3, StoredAs
  <2> HIDE DEF r
  <2> QED
    BY <2>3, <2>4, <2>5 DEF Imported
<1>3. ClearOffline \/ ResetOffline => Dropped
  BY DEF ClearOffline, ResetOffline, Dropped
<1>4. ClearLive => Cleared
  BY DEF ClearLive, Cleared
<1>5. (\E f \in Files : StartImport(f)) \/ ImportDone => StoresKept
  BY DEF StartImport, ImportDone, StoresKept
<1>6. (\E s \in {"live", "offline"} : LoadPackets(s)) \/ ReadPage \/ ShowPage => StoresKept
  BY DEF LoadPackets, ReadPage, ShowPage, StoresKept, stores
<1>7. (\E id \in DOMAIN page : Select(id) \/ OpenFlow(id)) => StoresKept
  BY DEF Select, OpenFlow, StoresKept, stores
<1>8. (\E t \in readers : ReadDetail(t) \/ ApplyDetail(t)) => StoresKept
  BY DEF ReadDetail, ApplyDetail, StoresKept, stores
<1>9. (\E t \in tracers : TraceDetail(t) \/ TraceRows(t) \/ ApplyFlow(t)) => StoresKept
  BY DEF TraceDetail, TraceRows, ApplyFlow, StoresKept, stores
<1>10. StartExport \/ CollectAgain \/ CollectPage \/ Expand => StoresKept
  BY DEF StartExport, CollectAgain, CollectPage, Expand, StoresKept, stores
<1> QED
  BY <1>1, <1>2, <1>3, <1>4, <1>5, <1>6, <1>7, <1>8, <1>9, <1>10 DEF WorkbenchNext

\* A row that was stored stays known, and one that is gone stays gone: no id is given to
\* another row of the same table.
LEMMA KnownStays ==
  ASSUME RowsInv, StoresKept \/ Captured \/ Dropped \/ Imported \/ Cleared, NEW row, Known(row)
  PROVE  Known(row)' /\ (Lost(row) => Lost(row)')
<1>1. CASE StoresKept
  BY <1>1 DEF StoresKept, Known, Lost, Stored
<1>2. CASE Captured
  <2>1. PICK r : /\ live' = Append(live, r) /\ r.source = "live" /\ r.id = nextLive
                 /\ nextLive' = nextLive + 1 /\ UNCHANGED <<offline, gen>>
    BY <1>2 DEF Captured
  <2>2. ToSet(live') = ToSet(live) \union {r}
    BY <2>1, Appended DEF RowsInv
  <2>3. Stored' = Stored \union {r} /\ ToSet(offline)' = ToSet(offline)
    BY <2>1, <2>2 DEF Stored
  <2>4. row.source = "live" => r.id # row.id
    BY <2>1, Ids DEF Known
  <2>5. row # r
    BY <2>1, <2>4
  <2>6. row.source = "live" => row.id \in 1 .. nextLive' - 1
    BY <2>1, Ids DEF Known
  <2>7. Known(row)'
    <3>1. CASE row.source = "live" /\ \A s \in Stored : s.id = row.id => s = row
      BY <2>3, <2>4, <2>6, <3>1 DEF Known
    <3>2. CASE row.source = "offline"
      BY <2>1, <2>3, <3>2 DEF Known
    <3> QED
      BY <3>1, <3>2 DEF Known
  <2> QED
    BY <2>1, <2>3, <2>5, <2>7 DEF Lost
<1>3. CASE Dropped
  <2>1. ToSet(offline') = {} /\ gen' = gen + 1 /\ UNCHANGED <<live, nextLive>>
    BY <1>3, NoElements DEF Dropped
  <2>2. Stored' = ToSet(live) /\ Stored' \subseteq Stored /\ gen \in Nat /\ ToSet(offline)' = {}
    BY <2>1 DEF Stored, RowsInv
  <2>3. row.source = "offline" => row.gen \in 0 .. gen' /\ row.gen < gen' /\ row.gen # gen'
    BY <2>1, <2>2 DEF Known
  <2> QED
    BY <2>1, <2>2, <2>3 DEF Known, Lost
<1>4. CASE Imported
  <2>1. PICK r : /\ offline' = Append(offline, r) /\ r.source = "offline" /\ r.id = -(Len(offline) + 1)
                 /\ r.gen = gen /\ UNCHANGED <<live, nextLive, gen>>
    BY <1>4 DEF Imported
  <2>2. ToSet(offline') = ToSet(offline) \union {r}
    BY <2>1, Appended DEF RowsInv
  <2>3. Stored' = Stored \union {r} /\ ToSet(offline)' = ToSet(offline) \union {r}
    BY <2>1, <2>2 DEF Stored
  <2>4. row.source = "live" => r.id # row.id
    <3>1. r.id \in Int /\ r.id < 0
      BY <2>1, Ids
    <3> QED
      BY <3>1, Ids DEF Known
  <2>5. row.source = "offline" /\ row.gen < gen => row # r
    <3>1. gen \in Nat
      BY Ids
    <3> QED
      BY <2>1, <3>1
  <2>6. row.source = "live" => row # r
    BY <2>1
  <2>7. Known(row)'
    <3>1. CASE row.source = "live" /\ \A s \in Stored : s.id = row.id => s = row
      BY <2>1, <2>3, <2>4, <3>1 DEF Known
    <3>2. CASE row.source = "offline"
      BY <2>1, <2>3, <3>2 DEF Known
    <3> QED
      BY <3>1, <3>2 DEF Known
  <2>8. row.source \in {"live", "offline"}
    BY DEF Known
  <2> QED
    BY <2>1, <2>3, <2>5, <2>6, <2>7, <2>8 DEF Lost
<1>5. CASE Cleared
  <2>1. ToSet(live') = {} /\ UNCHANGED <<nextLive, offline, gen>>
    BY <1>5, NoElements DEF Cleared
  <2>2. Stored' = ToSet(offline) /\ Stored' \subseteq Stored /\ ToSet(offline)' = ToSet(offline)
    BY <2>1 DEF Stored
  <2> QED
    BY <2>1, <2>2 DEF Known, Lost
<1> QED
  BY <1>1, <1>2, <1>3, <1>4, <1>5

\* The part of RowsInv that is about the tables
TablesInv ==
  /\ nextLive \in Nat \ {0} /\ gen \in Nat
  /\ live \in Seq(ToSet(live)) /\ offline \in Seq(ToSet(offline))
  /\ \A r \in ToSet(live) : r.source = "live" /\ r.id \in 1 .. nextLive - 1 /\ Typed(r)
  /\ \A r \in ToSet(offline) :
       /\ r.source = "offline" /\ r.gen = gen /\ Typed(r)
       /\ r.id \in Int /\ r.id < 0 /\ -r.id <= Len(offline)
  /\ \A r, s \in Stored : r.id = s.id => r = s

\* Each of them preserves what the two tables hold.
LEMMA TablesStep ==
  ASSUME RowsInv, StoresKept \/ Captured \/ Dropped \/ Imported \/ Cleared
  PROVE  TablesInv'
<1>1. CASE StoresKept
  BY <1>1 DEF StoresKept, RowsInv, TablesInv, Stored
<1>2. CASE Captured
  <2>1. PICK r : /\ live' = Append(live, r) /\ r.source = "live" /\ r.id = nextLive /\ Typed(r)
                 /\ nextLive' = nextLive + 1 /\ UNCHANGED <<offline, gen>>
    BY <1>2 DEF Captured
  <2>2. ToSet(live') = ToSet(live) \union {r} /\ live' \in Seq(ToSet(live'))
    BY <2>1, Appended DEF RowsInv
  <2>3. Stored' = Stored \union {r}
    BY <2>1, <2>2 DEF Stored
  <2>4. \A s \in Stored : s.id # r.id
    BY <2>1, Ids DEF Stored
  <2>5. \A q, s \in Stored' : q.id = s.id => q = s
    BY <2>3, <2>4 DEF RowsInv
  <2>6. \A s \in ToSet(live') : s.source = "live" /\ s.id \in 1 .. nextLive' - 1 /\ Typed(s)
    BY <2>1, <2>2, Ids DEF RowsInv
  <2>7. nextLive' \in Nat \ {0}
    BY <2>1, Ids
  <2>8. /\ gen' \in Nat /\ offline' \in Seq(ToSet(offline'))
        /\ \A s \in ToSet(offline') :
             /\ s.source = "offline" /\ s.gen = gen' /\ Typed(s)
             /\ s.id \in Int /\ s.id < 0 /\ -s.id <= Len(offline')
    BY <2>1 DEF RowsInv
  <2> QED
    BY <2>2, <2>5, <2>6, <2>7, <2>8 DEF TablesInv
<1>3. CASE Dropped
  <2>1. /\ ToSet(offline') = {} /\ offline' \in Seq(ToSet(offline')) /\ gen' = gen + 1
        /\ UNCHANGED <<live, nextLive>>
    BY <1>3, NoElements DEF Dropped
  <2>2. Stored' \subseteq Stored /\ gen' \in Nat
    BY <2>1 DEF Stored, RowsInv
  <2>3. \A q, s \in Stored' : q.id = s.id => q = s
    BY <2>2 DEF RowsInv
  <2> QED
    BY <2>1, <2>2, <2>3 DEF RowsInv, TablesInv
<1>4. CASE Imported
  <2>1. PICK r : /\ offline' = Append(offline, r) /\ r.source = "offline" /\ r.id = -(Len(offline) + 1)
                 /\ r.gen = gen /\ Typed(r) /\ UNCHANGED <<live, nextLive, gen>>
    BY <1>4 DEF Imported
  <2>2. /\ ToSet(offline') = ToSet(offline) \union {r} /\ offline' \in Seq(ToSet(offline'))
        /\ Len(offline') = Len(offline) + 1 /\ Len(offline) \in Nat
    BY <2>1, Appended DEF RowsInv
  <2>3. Stored' = Stored \union {r}
    BY <2>1, <2>2 DEF Stored
  <2>4. r.id \in Int /\ r.id < 0 /\ -r.id = Len(offline')
    BY <2>1, <2>2
  <2>5. \A s \in Stored : s.id # r.id
    <3>1. \A s \in ToSet(live) : s.id # r.id
      BY <2>4, Ids
    <3>2. \A s \in ToSet(offline) : s.id # r.id
      BY <2>2, <2>4, Ids
    <3> QED
      BY <3>1, <3>2 DEF Stored
  <2>6. \A q, s \in Stored' : q.id = s.id => q = s
    BY <2>3, <2>5 DEF RowsInv
  <2>7. ASSUME NEW s \in ToSet(offline')
        PROVE  /\ s.source = "offline" /\ s.gen = gen' /\ Typed(s)
               /\ s.id \in Int /\ s.id < 0 /\ -s.id <= Len(offline')
    <3>1. CASE s = r
      BY <2>1, <2>2, <2>4, <3>1
    <3>2. CASE s \in ToSet(offline)
      <4>1. s.id \in Int /\ s.id < 0 /\ -s.id <= Len(offline)
        BY <3>2, Ids
      <4>2. -s.id <= Len(offline')
        BY <2>2, <4>1
      <4> QED
        BY <2>1, <3>2, <4>1, <4>2 DEF RowsInv
    <3> QED
      BY <2>2, <3>1, <3>2
  <2>8. nextLive' \in Nat \ {0} /\ gen' \in Nat /\ live' \in Seq(ToSet(live'))
        /\ \A s \in ToSet(live') : s.source = "live" /\ s.id \in 1 .. nextLive' - 1 /\ Typed(s)
    BY <2>1 DEF RowsInv
  <2> QED
    BY <2>2, <2>6, <2>7, <2>8 DEF TablesInv
<1>5. CASE Cleared
  <2>1. /\ ToSet(live') = {} /\ live' \in Seq(ToSet(live')) /\ UNCHANGED <<nextLive, offline, gen>>
    BY <1>5, NoElements DEF Cleared
  <2>2. Stored' \subseteq Stored
    BY <2>1 DEF Stored
  <2>3. \A q, s \in Stored' : q.id = s.id => q = s
    BY <2>2 DEF RowsInv
  <2> QED
    BY <2>1, <2>2, <2>3 DEF RowsInv, TablesInv
<1> QED
  BY <1>1, <1>2, <1>3, <1>4, <1>5

\* What is left to import is what the file had, or less.
LEMMA ImportStep ==
  ASSUME WorkbenchAssumption, RowsInv, WorkbenchNext
  PROVE  /\ import' = [at |-> import'.at, mode |-> import'.mode, frames |-> import'.frames]
         /\ import' # NoImport =>
              /\ import'.mode \in DOMAIN Preview /\ import'.mode # "live" /\ import'.frames \in Seq(ToSet(import'.frames))
              /\ \A frame \in ToSet(import'.frames) : frame.ts \in Int /\ Storable(frame)
<1>1. CASE import' = import
  BY <1>1 DEF RowsInv
<1>2. ASSUME NEW f \in Files, StartImport(f)
      PROVE  /\ import' = [at |-> "clear", mode |-> f.mode, frames |-> f.frames]
             /\ f.mode \in DOMAIN Preview /\ f.mode # "live" /\ f.frames \in Seq(ToSet(f.frames))
             /\ \A frame \in ToSet(f.frames) : frame.ts \in Int /\ Storable(frame)
  BY <1>2 DEF StartImport, WorkbenchAssumption, Storable
<1>3. ASSUME ClearOffline
      PROVE  import # NoImport /\ import' = [at |-> "store", mode |-> import.mode, frames |-> import.frames]
  <2>1. import.at = "clear" /\ import' = [import EXCEPT !.at = "store"]
    BY <1>3 DEF ClearOffline
  <2>2. import # NoImport
    BY <2>1 DEF NoImport
  <2>3. PICK at, mode, frames : import = [at |-> at, mode |-> mode, frames |-> frames]
    BY DEF RowsInv
  <2>4. import' = [at |-> "store", mode |-> mode, frames |-> frames]
    BY <2>1, <2>3
  <2> QED
    BY <2>2, <2>3, <2>4
<1>4. ASSUME StoreOffline
      PROVE  /\ import # NoImport /\ import.frames # << >>
             /\ import' = [at |-> import.at, mode |-> import.mode, frames |-> Tail(import.frames)]
  <2>1. /\ import.at = "store" /\ import.frames # << >>
        /\ import' = [import EXCEPT !.frames = Tail(import.frames)]
    BY <1>4 DEF StoreOffline
  <2>2. import # NoImport
    BY <2>1 DEF NoImport
  <2>3. PICK at, mode, frames : import = [at |-> at, mode |-> mode, frames |-> frames]
    BY DEF RowsInv
  <2>4. import' = [at |-> at, mode |-> mode, frames |-> Tail(frames)]
    BY <2>1, <2>3
  <2> QED
    BY <2>1, <2>2, <2>3, <2>4
<1>5. CASE \E f \in Files : StartImport(f)
  <2>1. PICK f \in Files : StartImport(f)
    BY <1>5
  <2> QED
    BY <1>2, <2>1
<1>6. CASE ClearOffline
  <2>1. import' = [at |-> "store", mode |-> import.mode, frames |-> import.frames]
    BY <1>3, <1>6
  <2>2. import'.mode = import.mode /\ import'.frames = import.frames
    BY <2>1
  <2>3. import' = [at |-> import'.at, mode |-> import'.mode, frames |-> import'.frames]
    BY <2>1
  <2> QED
    BY <1>3, <1>6, <2>2, <2>3 DEF RowsInv
<1>7. CASE StoreOffline
  <2> DEFINE rest == Tail(import.frames)
  <2>1. rest \in Seq(ToSet(rest)) /\ \A frame \in ToSet(rest) : frame.ts \in Int /\ Storable(frame)
    BY <1>4, <1>7, Shortened DEF RowsInv
  <2>2. /\ import' = [at |-> import.at, mode |-> import.mode, frames |-> rest]
        /\ import.mode \in DOMAIN Preview /\ import.mode # "live"
    BY <1>4, <1>7 DEF RowsInv
  <2> HIDE DEF rest
  <2>3. import'.mode = import.mode /\ import'.frames = rest
    BY <2>2
  <2>4. import' = [at |-> import'.at, mode |-> import'.mode, frames |-> import'.frames]
    BY <2>2
  <2> QED
    BY <2>1, <2>2, <2>3, <2>4
<1>8. CASE import' = NoImport
  BY <1>8 DEF NoImport
<1>9. (\E f \in Frames : Capture(f)) \/ ResetOffline \/ ClearLive => import' = import
  BY DEF Capture, ResetOffline, ClearLive
<1>10. ImportDone => import' = NoImport
  BY DEF ImportDone
<1>11. (\E s \in {"live", "offline"} : LoadPackets(s)) \/ ReadPage \/ ShowPage => import' = import
  BY DEF LoadPackets, ReadPage, ShowPage, stores
<1>12. (\E id \in DOMAIN page : Select(id) \/ OpenFlow(id)) => import' = import
  BY DEF Select, OpenFlow, stores
<1>13. (\E t \in readers : ReadDetail(t) \/ ApplyDetail(t)) => import' = import
  BY DEF ReadDetail, ApplyDetail, stores
<1>14. (\E t \in tracers : TraceDetail(t) \/ TraceRows(t) \/ ApplyFlow(t)) => import' = import
  BY DEF TraceDetail, TraceRows, ApplyFlow, stores
<1>15. StartExport \/ CollectAgain \/ CollectPage \/ Expand => import' = import
  BY DEF StartExport, CollectAgain, CollectPage, Expand, stores
<1> QED
  BY <1>1, <1>5, <1>6, <1>7, <1>8, <1>9, <1>10, <1>11, <1>12, <1>13, <1>14, <1>15 DEF WorkbenchNext

\* RowsInv is inductive.
LEMMA RowsStep ==
  ASSUME WorkbenchAssumption, RowsInv, WorkbenchNext
  PROVE  RowsInv'
<1>1. TablesInv'
  BY StoreSteps, TablesStep
<1>2. /\ import' = [at |-> import'.at, mode |-> import'.mode, frames |-> import'.frames]
      /\ import' # NoImport =>
           /\ import'.mode \in DOMAIN Preview /\ import'.mode # "live" /\ import'.frames \in Seq(ToSet(import'.frames))
           /\ \A frame \in ToSet(import'.frames) : frame.ts \in Int /\ Storable(frame)
  BY ImportStep
<1>3. NoImport' = NoImport
  BY DEF NoImport
<1> QED
  BY <1>1, <1>2, <1>3 DEF TablesInv, RowsInv

\* What a function makes of a finite set is finite.
LEMMA ImageFinite ==
  ASSUME NEW S, IsFiniteSet(S), NEW f
  PROVE  IsFiniteSet({f[x] : x \in S})
<1>1. PICK g : g = [x \in S |-> f[x]]
  OBVIOUS
<1>2. g \in Surjection(S, {f[x] : x \in S})
  BY <1>1 DEF Surjection
<1> QED
  BY <1>2, FS_Surjection

\* The elements of a sequence are finitely many.
LEMMA FiniteElements ==
  ASSUME NEW s, s \in Seq(ToSet(s))
  PROVE  IsFiniteSet(ToSet(s))
<1>1. ToSet(s) = {s[i] : i \in 1 .. Len(s)} /\ Len(s) \in Nat
  BY OwnElements
<1>2. IsFiniteSet(1 .. Len(s))
  BY <1>1, FS_Interval
<1> QED
  BY <1>1, <1>2, ImageFinite

\* Whatever the workbench does, a known row stays known and a lost one lost.
LEMMA AllKnownStay ==
  ASSUME WorkbenchAssumption, RowsInv, WorkbenchNext
  PROVE  \A row : Known(row) => Known(row)' /\ (Lost(row) => Lost(row)')
<1>1. StoresKept \/ Captured \/ Dropped \/ Imported \/ Cleared
  BY StoreSteps
<1> TAKE row
<1> QED
  BY <1>1, KnownStays

\* The empty list has no ids.
LEMMA EmptyPage == DOMAIN NoPage = {}
<1>1. NoPage \in Seq({}) /\ Len(NoPage) = 0
  BY EmptySeq DEF NoPage
<1>2. DOMAIN NoPage = 1 .. 0
  BY <1>1, LenProperties
<1> QED
  BY <1>2

\* What the list shows was stored.
LEMMA PageStep ==
  ASSUME WorkbenchAssumption, RowsInv, PageInv, WorkbenchNext
  PROVE  PageInv'
<1>1. \A row : Known(row) => Known(row)'
  BY AllKnownStay
<1>2. CASE UNCHANGED <<asked, page, selected>>
  BY <1>1, <1>2 DEF PageInv, None
<1>3. CASE /\ page' = NoPage /\ selected' = None /\ asked'.at # "read"
  BY <1>3, EmptyPage, FS_EmptySet DEF PageInv, None
<1>4. ASSUME NEW id \in DOMAIN page, Select(id) PROVE PageInv'
  <2>1. selected' = page[id] /\ UNCHANGED <<asked, page>>
    BY <1>4 DEF Select
  <2>2. page[id].id = id
    BY DEF PageInv
  <2> QED
    BY <1>1, <2>1, <2>2 DEF PageInv
<1>5. ASSUME ReadPage PROVE PageInv'
  <2>1. /\ asked.at = "asked" /\ asked'.at = "read" /\ asked'.rows = IF asked.rows = "live" THEN live ELSE offline
        /\ UNCHANGED <<page, selected>>
    BY <1>5 DEF ReadPage
  <2>2. ToSet(asked'.rows) \subseteq Stored /\ asked'.rows \in Seq(ToSet(asked'.rows))
    BY <2>1 DEF Stored, RowsInv
  <2>3. \A r \in ToSet(asked'.rows) : Known(r)'
    BY <1>1, <2>2, StoredIsKnown
  <2>4. DOMAIN page' = {} /\ IsFiniteSet(DOMAIN page') /\ (selected' = None \/ (selected'.id \in DOMAIN page' /\ selected' = page'[selected'.id]))
    BY <2>1 DEF PageInv
  <2> QED
    BY <2>2, <2>3, <2>4 DEF PageInv, None
<1>6. ASSUME ShowPage PROVE PageInv'
  <2> DEFINE rows == asked.rows
             One(id) == CHOOSE r \in ToSet(rows) : r.id = id
  <2>1. /\ asked.at = "read" /\ page' = [id \in {r.id : r \in ToSet(rows)} |-> One(id)]
        /\ asked' = NoQuery /\ UNCHANGED selected
    BY <1>6 DEF ShowPage
  <2>2. selected = None
    BY <2>1 DEF PageInv
  <2>3. ASSUME NEW id \in {r.id : r \in ToSet(rows)} PROVE One(id) \in ToSet(rows) /\ One(id).id = id
    OBVIOUS
  <2> HIDE DEF One
  <2>4. \A id \in DOMAIN page' : page'[id] \in ToSet(rows) /\ page'[id].id = id
    BY <2>1, <2>3
  <2>5. \A r \in ToSet(rows) : Known(r)'
    BY <1>1, <2>1 DEF PageInv
  <2>7. IsFiniteSet(DOMAIN page')
    <3>1. IsFiniteSet(ToSet(rows))
      BY <2>1, FiniteElements DEF PageInv
    <3>2. PICK f : f = [r \in ToSet(rows) |-> r.id]
      OBVIOUS
    <3>3. IsFiniteSet({f[r] : r \in ToSet(rows)})
      BY <3>1, ImageFinite
    <3>4. {f[r] : r \in ToSet(rows)} = {r.id : r \in ToSet(rows)}
      BY <3>2
    <3> QED
      BY <2>1, <3>3, <3>4
  <2> HIDE DEF rows
  <2>6. asked'.at = "none"
    BY <2>1 DEF NoQuery
  <2> QED
    BY <2>1, <2>2, <2>4, <2>5, <2>6, <2>7 DEF PageInv, None
<1>7. (\E f \in Files : StartImport(f)) \/ ResetOffline =>
        page' = NoPage /\ selected' = None /\ asked'.at # "read"
  BY DEF StartImport, ResetOffline, EmptyList, NoQuery
<1>8. (\E s \in {"live", "offline"} : LoadPackets(s)) \/ ImportDone =>
        page' = NoPage /\ selected' = None /\ asked'.at # "read"
  BY DEF LoadPackets, ImportDone, EmptyList
<1>9. (\E f \in Frames : Capture(f)) \/ ClearOffline \/ StoreOffline \/ ClearLive => UNCHANGED list
  BY DEF Capture, ClearOffline, StoreOffline, ClearLive
<1>10. (\E id \in DOMAIN page : OpenFlow(id)) => UNCHANGED list
  BY DEF OpenFlow
<1>11. (\E t \in readers : ReadDetail(t) \/ ApplyDetail(t)) => UNCHANGED list
  BY DEF ReadDetail, ApplyDetail
<1>12. (\E t \in tracers : TraceDetail(t) \/ TraceRows(t) \/ ApplyFlow(t)) => UNCHANGED list
  BY DEF TraceDetail, TraceRows, ApplyFlow
<1>13. StartExport \/ CollectAgain \/ CollectPage \/ Expand => UNCHANGED list
  BY DEF StartExport, CollectAgain, CollectPage, Expand
<1>14. UNCHANGED list => UNCHANGED <<asked, page, selected>>
  BY DEF list
<1> QED
  BY <1>2, <1>3, <1>4, <1>5, <1>6, <1>7, <1>8, <1>9, <1>10, <1>11, <1>12, <1>13, <1>14 DEF WorkbenchNext

\* The cache loses entries and gains the one that is put.
LEMMA CachePut ==
  ASSUME cache \in Seq(ToSet(cache)), NEW d
  PROVE  \A id :
           /\ Uncached(id) \in Seq(ToSet(Uncached(id))) /\ ToSet(Uncached(id)) \subseteq ToSet(cache)
           /\ Append(Uncached(id), d) \in Seq(ToSet(Append(Uncached(id), d)))
           /\ ToSet(Append(Uncached(id), d)) \subseteq ToSet(cache) \union {d}
<1> TAKE id
<1>1. Uncached(id) \in Seq(ToSet(Uncached(id))) /\ ToSet(Uncached(id)) \subseteq ToSet(cache)
  <2>1. CASE \E i \in DOMAIN cache : cache[i].id = id
    <3> DEFINE M == {i \in DOMAIN cache : cache[i].id = id}
               m == Min(M)
    <3>1. DOMAIN cache = 1 .. Len(cache) /\ Len(cache) \in Nat
      BY LenProperties
    <3>2. M # {} /\ M \subseteq Nat
      BY <2>1, <3>1
    <3>3. PICK k \in M : \A x \in M : k <= x
      BY <3>2, LeastExists
    <3>4. m \in M
      BY <3>3 DEF Min
    <3>5. Uncached(id) = RemoveAt(cache, m) /\ m \in 1 .. Len(cache)
      BY <2>1, <3>1, <3>4 DEF Uncached
    <3> HIDE DEF M, m
    <3> QED
      BY <3>5, Removed
  <2>2. CASE ~\E i \in DOMAIN cache : cache[i].id = id
    BY <2>2 DEF Uncached
  <2> QED
    BY <2>1, <2>2
<1> DEFINE u == Uncached(id)
<1> HIDE DEF u
<1>2. u \in Seq(ToSet(u)) /\ ToSet(u) \subseteq ToSet(cache)
  BY <1>1 DEF u
<1>3. Append(u, d) \in Seq(ToSet(Append(u, d))) /\ ToSet(Append(u, d)) = ToSet(u) \union {d}
  BY <1>2, Appended
<1> QED
  BY <1>1, <1>2, <1>3 DEF u

\* A detail put into the cache: nothing else comes in.
LEMMA Putting ==
  ASSUME WorkbenchAssumption, cache \in Seq(ToSet(cache)), NEW d
  PROVE  Put(d) \in Seq(ToSet(Put(d))) /\ ToSet(Put(d)) \subseteq ToSet(cache) \union {d}
<1> DEFINE order == Append(Uncached(d.id), d)
<1>1. order \in Seq(ToSet(order)) /\ ToSet(order) \subseteq ToSet(cache) \union {d}
  BY CachePut
<1>2. Put(d) = IF Len(order) > CacheMax THEN Tail(order) ELSE order
  BY DEF Put
<1> HIDE DEF order
<1>3. CASE Len(order) > CacheMax
  <2>1. order # << >>
    BY <1>3, NoElements DEF WorkbenchAssumption
  <2> QED
    BY <1>1, <1>2, <1>3, <2>1, Shortened
<1>4. CASE ~(Len(order) > CacheMax)
  BY <1>1, <1>2, <1>4
<1> QED
  BY <1>3, <1>4

\* No row is empty of an id.
LEMMA RowOfPage ==
  ASSUME PageInv, NEW id \in DOMAIN page
  PROVE  page[id].id = id /\ Known(page[id]) /\ id # 0 /\ id # None.id
<1>1. page[id].id = id /\ Known(page[id])
  BY DEF PageInv
<1> QED
  BY <1>1, KnownIsSome DEF None

\* Once the list is emptied no answer is wanted any more.
LEMMA ListEmptied ==
  ASSUME DetailInv, EmptyList, UNCHANGED <<cache, readers>>
  PROVE  DetailInv'
<1>1. /\ DOMAIN page' = {} /\ detailToken' = detailToken + 1 /\ pane' = None
      /\ UNCHANGED <<cache, readers>>
  BY EmptyPage DEF EmptyList
<1>2. detailToken \in Nat
  BY DEF DetailInv
<1>3. \A t \in readers : t.token \in 1 .. detailToken' /\ t.token # detailToken'
  BY <1>1, <1>2 DEF DetailInv
<1> QED
  BY <1>1, <1>2, <1>3 DEF DetailInv, None

\* _on_packet_select
LEMMA SelectStep ==
  ASSUME PageInv, DetailInv, NEW id \in DOMAIN page, Select(id)
  PROVE  DetailInv'
<1>1. page[id].id = id /\ Known(page[id]) /\ id # 0
  BY RowOfPage
<1>2. detailToken \in Nat /\ page' = page
  BY DEF DetailInv, Select
<1>3. PICK hit \in {d \in ToSet(cache) : d.id = id} \union {None} :
        /\ hit = None <=> \A d \in ToSet(cache) : d.id # id
        /\ IF hit # None
           THEN /\ cache' = Append(Uncached(id), hit)
                /\ pane' = [id |-> id, row |-> page[id], detail |-> hit]
                /\ UNCHANGED <<detailToken, readers>>
           ELSE /\ detailToken' = detailToken + 1
                /\ readers' = readers \union
                     {[token |-> detailToken + 1, id |-> id, at |-> "read", detail |-> None]}
                /\ pane' = None
                /\ UNCHANGED cache
  BY DEF Select
<1>4. CASE hit # None
  <2>1. /\ hit \in ToSet(cache) /\ hit.id = id
        /\ cache' = Append(Uncached(id), hit)
        /\ pane'.row = page[id] /\ pane'.detail = hit
        /\ UNCHANGED <<detailToken, readers>>
    BY <1>3, <1>4
  <2>2. cache' \in Seq(ToSet(cache')) /\ ToSet(cache') \subseteq ToSet(cache)
    BY <2>1, CachePut DEF DetailInv
  <2>3. Answers(pane'.row, pane'.detail)
    BY <2>1 DEF DetailInv
  <2>4. \A d \in ToSet(cache') : d.id \in DOMAIN page' => Answers(page'[d.id], d)
    BY <1>2, <2>2 DEF DetailInv
  <2>5. \A t \in readers' :
          /\ t = [token |-> t.token, id |-> t.id, at |-> t.at, detail |-> t.detail]
          /\ t.token \in 1 .. detailToken'
          /\ t.token = detailToken' =>
               /\ t.id \in DOMAIN page'
               /\ t.at = "apply" /\ t.detail # None => Answers(page'[t.id], t.detail)
    BY <1>2, <2>1 DEF DetailInv
  <2>6. None' = None /\ \A a, b : Answers(a, b)' <=> Answers(a, b)
    BY DEF None, Answers
  <2> QED
    BY <1>2, <2>1, <2>2, <2>3, <2>4, <2>5 DEF DetailInv, None
<1>5. CASE hit = None
  <2> DEFINE new == [token |-> detailToken + 1, id |-> id, at |-> "read", detail |-> None]
  <2>1. /\ detailToken' = detailToken + 1 /\ readers' = readers \union {new}
        /\ pane' = None /\ UNCHANGED cache
    BY <1>3, <1>5
  <2>2. /\ new = [token |-> new.token, id |-> new.id, at |-> new.at, detail |-> new.detail]
        /\ new.token = detailToken' /\ new.id = id /\ new.at = "read"
    BY <2>1
  <2> HIDE DEF new
  <2>3. new.token \in 1 .. detailToken' /\ \A t \in readers : t.token \in 1 .. detailToken' /\ t.token # detailToken'
    BY <1>2, <2>1, <2>2 DEF DetailInv
  <2> QED
    BY <1>2, <2>1, <2>2, <2>3 DEF DetailInv, None
<1> QED
  BY <1>4, <1>5

\* The read of the thread
LEMMA ReadStep ==
  ASSUME RowsInv, PageInv, DetailInv, NEW t \in readers, ReadDetail(t)
  PROVE  DetailInv'
<1> DEFINE d == Detail(t.id)
<1>1. /\ t.at = "read" /\ UNCHANGED <<page, cache, detailToken, pane>>
      /\ readers' = (readers \ {t}) \union {[t EXCEPT !.at = "apply", !.detail = d]}
  BY DEF ReadDetail, list
<1>2. PICK token, id : t = [token |-> token, id |-> id, at |-> t.at, detail |-> t.detail]
  BY DEF DetailInv
<1>3. t.token = token /\ t.id = id
  BY <1>2
<1> DEFINE s == [token |-> token, id |-> id, at |-> "apply", detail |-> d]
<1> HIDE DEF d
<1>4. readers' = (readers \ {t}) \union {s}
  <2> DEFINE u == [t EXCEPT !.at = "apply"]
  <2>1. PICK at, e : t = [token |-> token, id |-> id, at |-> at, detail |-> e]
    BY <1>2
  <2>2. u = [token |-> token, id |-> id, at |-> "apply", detail |-> e]
    BY <2>1
  <2>3. readers' = (readers \ {t}) \union {[u EXCEPT !.detail = d]}
    BY <1>1, Zenon
  <2> HIDE DEF u
  <2>4. [u EXCEPT !.detail = d] = s
    BY <2>2
  <2> QED
    BY <2>3, <2>4
<1>5. s.token = token /\ s.id = id /\ s.at = "apply" /\ s.detail = d
      /\ s = [token |-> s.token, id |-> s.id, at |-> s.at, detail |-> s.detail]
  OBVIOUS
<1> HIDE DEF s
<1>6. s.token \in 1 .. detailToken
  BY <1>3, <1>5 DEF DetailInv
<1>7. ASSUME s.token = detailToken
      PROVE  s.id \in DOMAIN page /\ (s.detail # None => Answers(page[s.id], s.detail))
  <2>1. id \in DOMAIN page
    BY <1>3, <1>5, <1>7 DEF DetailInv
  <2>2. page[id].id = id /\ Known(page[id])
    BY <2>1, RowOfPage
  <2>3. d # None => Answers(page[id], d)
    BY <1>3, <2>2, ReadAgain DEF d
  <2> QED
    BY <1>5, <2>1, <2>3
<1> QED
  BY <1>1, <1>4, <1>5, <1>6, <1>7 DEF DetailInv, None

\* Its answer
LEMMA ApplyStep ==
  ASSUME WorkbenchAssumption, PageInv, DetailInv, NEW t \in readers, ApplyDetail(t)
  PROVE  DetailInv'
<1>1. /\ t.at = "apply" /\ readers' \subseteq readers /\ UNCHANGED <<page, selected, detailToken>>
  BY DEF ApplyDetail, list
<1>2. CASE t.token # detailToken \/ selected.id # t.id
  <2>1. UNCHANGED <<cache, pane>>
    BY <1>2 DEF ApplyDetail
  <2> QED
    BY <1>1, <2>1 DEF DetailInv, None
<1>3. CASE ~(t.token # detailToken \/ selected.id # t.id) /\ t.detail = None
  <2>1. pane' = None /\ UNCHANGED cache
    BY <1>3 DEF ApplyDetail
  <2> QED
    BY <1>1, <2>1 DEF DetailInv, None
<1>4. CASE ~(t.token # detailToken \/ selected.id # t.id) /\ t.detail # None
  <2>1. cache' = Put(t.detail) /\ pane' = [id |-> t.id, row |-> selected, detail |-> t.detail]
    BY <1>4 DEF ApplyDetail
  <2>2. t.id \in DOMAIN page /\ Answers(page[t.id], t.detail)
    BY <1>1, <1>4 DEF DetailInv
  <2>3. page[t.id].id = t.id /\ t.id # None.id
    BY <2>2, RowOfPage
  <2>4. selected = page[t.id]
    BY <1>4, <2>3 DEF PageInv
  <2>5. t.detail.id = t.id
    BY <2>2, <2>3 DEF Answers
  <2>6. cache' \in Seq(ToSet(cache')) /\ ToSet(cache') \subseteq ToSet(cache) \union {t.detail}
    BY <2>1, Putting DEF DetailInv
  <2>7. \A d \in ToSet(cache') : d.id \in DOMAIN page' => Answers(page'[d.id], d)
    BY <1>1, <2>2, <2>5, <2>6 DEF DetailInv
  <2>8. Answers(pane'.row, pane'.detail)
    BY <2>1, <2>2, <2>4
  <2> QED
    BY <1>1, <2>6, <2>7, <2>8 DEF DetailInv, None
<1> QED
  BY <1>2, <1>3, <1>4

\* _apply_packet_query_result
LEMMA ShowStep ==
  ASSUME PageInv, DetailInv, ShowPage
  PROVE  DetailInv'
<1>1. asked.at = "read" /\ cache' = << >> /\ UNCHANGED <<detailToken, readers, pane>>
  BY DEF ShowPage
<1>2. DOMAIN page = {}
  BY <1>1 DEF PageInv
<1>3. \A t \in readers : t.token # detailToken
  BY <1>2 DEF DetailInv
<1>4. ToSet(cache') = {} /\ cache' \in Seq(ToSet(cache'))
  BY <1>1, NoElements
<1> QED
  BY <1>1, <1>3, <1>4 DEF DetailInv, None

\* DetailInv is inductive.
LEMMA DetailStep ==
  ASSUME WorkbenchAssumption, RowsInv, PageInv, DetailInv, WorkbenchNext
  PROVE  DetailInv'
<1>1. CASE UNCHANGED <<page, cache, detailToken, readers, pane>>
  BY <1>1 DEF DetailInv, None
<1>2. (\E f \in Files : StartImport(f)) \/ ImportDone \/ ResetOffline => DetailInv'
  <2>1. (\E f \in Files : StartImport(f)) \/ ImportDone \/ ResetOffline =>
          EmptyList /\ UNCHANGED <<cache, readers>>
    BY DEF StartImport, ImportDone, ResetOffline
  <2> QED
    BY <2>1, ListEmptied
<1>3. (\E s \in {"live", "offline"} : LoadPackets(s)) => DetailInv'
  <2>1. (\E s \in {"live", "offline"} : LoadPackets(s)) => EmptyList /\ UNCHANGED <<cache, readers>>
    BY DEF LoadPackets
  <2> QED
    BY <2>1, ListEmptied
<1>4. ShowPage => DetailInv'
  BY ShowStep
<1>5. (\E id \in DOMAIN page : Select(id)) => DetailInv'
  BY SelectStep
<1>6. (\E t \in readers : ReadDetail(t) \/ ApplyDetail(t)) => DetailInv'
  BY ReadStep, ApplyStep
<1>7. (\E f \in Frames : Capture(f)) \/ ClearOffline \/ StoreOffline \/ ClearLive =>
        UNCHANGED <<page, cache, detailToken, readers, pane>>
  BY DEF Capture, ClearOffline, StoreOffline, ClearLive, list, details
<1>8. ReadPage \/ (\E id \in DOMAIN page : OpenFlow(id)) =>
        UNCHANGED <<page, cache, detailToken, readers, pane>>
  BY DEF ReadPage, OpenFlow, list, details
<1>9. (\E t \in tracers : TraceDetail(t) \/ TraceRows(t) \/ ApplyFlow(t)) =>
        UNCHANGED <<page, cache, detailToken, readers, pane>>
  BY DEF TraceDetail, TraceRows, ApplyFlow, list, details
<1>10. StartExport \/ CollectAgain \/ CollectPage \/ Expand =>
        UNCHANGED <<page, cache, detailToken, readers, pane>>
  BY DEF StartExport, CollectAgain, CollectPage, Expand, list, details
<1> QED
  BY <1>1, <1>2, <1>3, <1>4, <1>5, <1>6, <1>7, <1>8, <1>9, <1>10 DEF WorkbenchNext

\* The rows that are stored are finitely many, and none of them is None.
LEMMA FinitelyStored ==
  ASSUME RowsInv
  PROVE  IsFiniteSet(Stored)
<1>2. IsFiniteSet(ToSet(live)) /\ IsFiniteSet(ToSet(offline))
  BY FiniteElements DEF RowsInv
<1> QED
  BY <1>2, FS_Union DEF Stored

\* What is read as the flow of a stored packet: rows of its store that include it, unless
\* there are more of them than are read.
LEMMA FlowRead ==
  ASSUME WorkbenchAssumption, RowsInv, NEW id, Detail(id) # None
  PROVE  LET rows == FlowRows(id) IN
         /\ Len(rows) \in Nat \ {0} /\ rows[Len(rows)] \in Stored
         /\ rows[Len(rows)].source = Detail(id).source
         /\ Detail(id) \in ToSet(rows) \/ Len(rows) = Limit
         /\ OneFlow(rows)
<1> DEFINE seed == Detail(id)
           found == {r \in Stored : SameFlow(r, seed)}
           ordered == ByTime(found)
           N == Cardinality(found)
           k == Min({Limit, N})
           rows == FlowRows(id)
<1>1. seed \in Stored /\ seed \in found
  BY DetailOf DEF SameFlow
<1>2. rows = SubSeq(ordered, 1, Min({Limit, Len(ordered)}))
  <2>1. {r \in ToSet(live) \union ToSet(offline) : seed # None /\ SameFlow(r, seed)} = found
    BY DEF Stored
  <2> HIDE DEF found
  <2> QED
    BY <2>1, Zenon DEF FlowRows
<1>3. IsFiniteSet(found) /\ found \subseteq Stored
  BY FinitelyStored, FS_Subset
<1>4. \A r \in found : r.ts \in Int /\ Number(r) \in Int /\ r.source = seed.source
  BY Ids DEF SameFlow, Stored, Number, RowsInv, Typed
<1>5. \A r \in found : \A s \in found : r.ts = s.ts /\ Number(r) = Number(s) => r = s
  <2>1. \A r \in ToSet(live) : Number(r) = r.id
    BY Ids DEF Number
  <2>2. \A r \in ToSet(offline) : Number(r) = -r.id
    BY Ids DEF Number
  <2>3. ASSUME NEW r \in found, NEW s \in found, Number(r) = Number(s) PROVE r.id = s.id
    <3>1. r.source = s.source
      BY <1>4
    <3>2. (r \in ToSet(live) /\ s \in ToSet(live)) \/ (r \in ToSet(offline) /\ s \in ToSet(offline))
      BY <3>1, Ids DEF Stored
    <3>3. r.id \in Int /\ s.id \in Int
      BY <3>2, Ids
    <3> QED
      BY <2>1, <2>2, <2>3, <3>2, <3>3
  <2> QED
    BY <2>3 DEF RowsInv
<1> HIDE DEF found
<1>6. /\ ordered \in Seq(found) /\ Len(ordered) = N /\ N \in Nat
      /\ \A r \in found : \E n \in 1 .. N : ordered[n] = r
  BY <1>3, <1>4, <1>5, InTime
<1> HIDE DEF ordered, N, seed
<1>7. Limit \in Nat \ {0}
  BY DEF WorkbenchAssumption
<1>8. k = IF Limit <= N THEN Limit ELSE N
  BY <1>6, <1>7, LesserOf
<1>9. PICK n \in 1 .. N : ordered[n] = seed
  BY <1>1, <1>6
<1> HIDE DEF k
<1>10. k \in Nat \ {0} /\ k <= N /\ (k = N \/ k = Limit)
  BY <1>6, <1>7, <1>8, <1>9
<1>11. \A i \in 1 .. k : ordered[i] \in found
  BY <1>6, <1>10, ElementOfSeq
<1>12. /\ rows \in Seq(found) /\ Len(rows) = k
       /\ \A i \in 1 .. k : rows[i] = ordered[i]
  <2>1. rows = SubSeq(ordered, 1, k)
    BY <1>2, <1>6, Zenon DEF k
  <2> HIDE DEF rows
  <2>2. /\ SubSeq(ordered, 1, k) \in Seq(found)
        /\ Len(SubSeq(ordered, 1, k)) = IF 1 <= k THEN k - 1 + 1 ELSE 0
        /\ \A i \in 1 .. k - 1 + 1 : SubSeq(ordered, 1, k)[i] = ordered[1 + i - 1]
    BY <1>6, <1>10, <1>11, SubSeqProperties
  <2>3. k - 1 + 1 = k /\ \A i \in 1 .. k : 1 + i - 1 = i
    BY <1>10
  <2>4. \A i \in 1 .. k : SubSeq(ordered, 1, k)[i] = ordered[i]
    BY <2>2, <2>3
  <2> QED
    BY <1>10, <2>1, <2>2, <2>3, <2>4
<1> HIDE DEF rows
<1>13. ToSet(rows) = {rows[i] : i \in 1 .. k}
  BY <1>12, OwnElements
<1>14. rows[k] \in found
  BY <1>10, <1>11, <1>12
<1>15. seed \in ToSet(rows) \/ k = Limit
  BY <1>9, <1>10, <1>12, <1>13
<1>16. /\ Len(rows) \in Nat \ {0} /\ rows[Len(rows)] \in Stored
       /\ rows[Len(rows)].source = seed.source /\ (seed \in ToSet(rows) \/ Len(rows) = Limit)
  BY <1>3, <1>4, <1>10, <1>12, <1>14, <1>15
<1>17. OneFlow(rows)
  <2>1. rows \in Seq(ToSet(rows)) /\ ToSet(rows) \subseteq found /\ rows # << >>
    BY <1>10, <1>12, OwnElements, NoElements
  <2>2. rows[1] \in ToSet(rows)
    BY <1>10, <1>13
  <2>3. \A r \in found : Typed(r) /\ SameFlow(r, seed)
    BY DEF found, Stored, RowsInv
  <2>4. \A r, s : SameFlow(r, seed) /\ SameFlow(s, seed) => SameFlow(r, s)
    BY DEF SameFlow
  <2> QED
    BY <2>1, <2>2, <2>3, <2>4 DEF OneFlow
<1> QED
  BY <1>16, <1>17 DEF rows, seed

\* A packet that is not stored has no flow.
LEMMA NothingRead ==
  ASSUME WorkbenchAssumption, NEW id, Detail(id) = None
  PROVE  FlowRows(id) = << >>
<1> DEFINE found == {r \in ToSet(live) \union ToSet(offline) : Detail(id) # None /\ SameFlow(r, Detail(id))}
           ordered == ByTime(found)
<1>1. FlowRows(id) = SubSeq(ordered, 1, Min({Limit, Len(ordered)}))
  BY DEF FlowRows
<1>2. found = {}
  OBVIOUS
<1>3. IsFiniteSet({}) /\ Cardinality({}) = 0
  BY FS_EmptySet
<1> HIDE DEF found
<1>4. ordered \in Seq({}) /\ Len(ordered) = 0
  <2>1. ByTime({}) \in Seq({}) /\ Len(ByTime({})) = Cardinality({})
    BY <1>3, InTime
  <2> QED
    BY <1>2, <1>3, <2>1
<1> HIDE DEF ordered
<1>5. Limit \in Nat \ {0}
  BY DEF WorkbenchAssumption
<1>6. Min({Limit, Len(ordered)}) = 0
  BY <1>4, <1>5, LesserOf
<1>7. \A i \in 1 .. 0 : ordered[i] \in {}
  OBVIOUS
<1>8. SubSeq(ordered, 1, 0) \in Seq({}) /\ Len(SubSeq(ordered, 1, 0)) = 0
  BY <1>4, <1>7, SubSeqProperties
<1> QED
  BY <1>1, <1>6, <1>8, EmptySeq

\* The flow that is read for a packet is of that packet, or of one that replaced it.
LEMMA FlowOf ==
  ASSUME WorkbenchAssumption, RowsInv, NEW want, Known(want), NEW d,
         IF d = None THEN Lost(want) ELSE Answers(want, d) /\ Known(d)
  PROVE  LET rows == FlowRows(want.id) IN
         \/ rows = << >>
         \/ /\ OneFlow(rows)
            /\ ShowsFlow(want, rows, IF d = None THEN rows[1].from ELSE d.from)
<1> DEFINE seed == Detail(want.id)
           rows == FlowRows(want.id)
<1>1. CASE seed = None
  BY <1>1, NothingRead
<1>2. CASE seed # None
  <2>1. Answers(want, seed) /\ seed \in Stored
    BY <1>2, ReadAgain
  <2>2. /\ Len(rows) \in Nat \ {0} /\ rows[Len(rows)] \in Stored
        /\ rows[Len(rows)].source = seed.source /\ (seed \in ToSet(rows) \/ Len(rows) = Limit)
        /\ OneFlow(rows)
    BY <1>2, FlowRead
  <2> HIDE DEF rows, seed
  <2>3. CASE seed = want
    <3>1. want \in Stored
      BY <2>1, <2>3
    <3>2. d # None /\ Answers(want, d) /\ Known(d)
      BY <3>1 DEF Lost
    <3>3. d = want
      <4>1. SUFFICES ASSUME ReplacedBy(want, d) PROVE FALSE
        BY <3>2 DEF Answers
      <4>2. d.source = "offline" /\ d.id < 0 /\ d.gen \in 0 .. gen /\ d.gen > want.gen /\ d.id = want.id
        BY <3>2, <4>1 DEF ReplacedBy, Known, Answers
      <4>3. want \in ToSet(offline)
        BY <3>1, <3>2, <4>2, Ids DEF Stored
      <4>4. want.gen = gen
        BY <4>3 DEF RowsInv
      <4> QED
        BY <4>2, <4>4, Ids
    <3>4. ShowsFlow(want, rows, d.from)
      BY <2>2, <2>3, <3>3 DEF ShowsFlow
    <3> QED
      BY <2>2, <3>2, <3>4 DEF rows
  <2>4. CASE ReplacedBy(want, seed)
    <3> DEFINE last == rows[Len(rows)]
    <3>1. seed.source = "offline" /\ seed.gen > want.gen
      BY <2>4 DEF ReplacedBy
    <3>2. seed \in ToSet(offline) /\ last \in ToSet(offline) /\ last.source = "offline"
      BY <2>1, <2>2, <3>1, Ids DEF Stored
    <3>3. last.gen = gen /\ seed.gen = gen
      BY <3>2 DEF RowsInv
    <3>4. ReplacedBy(want, last)
      BY <3>1, <3>2, <3>3 DEF ReplacedBy
    <3>5. \A anchor : ShowsFlow(want, rows, anchor)
      BY <3>4 DEF ShowsFlow
    <3> QED
      BY <2>2, <3>5 DEF rows
  <2> QED
    BY <2>1, <2>3, <2>4 DEF Answers
<1> QED
  BY <1>1, <1>2

\* What is known of a thread of _open_flow_view_for_packet_id, and of a window
TracerInv(t) ==
  /\ t = [token |-> t.token, want |-> t.want, at |-> t.at, detail |-> t.detail, rows |-> t.rows]
  /\ Known(t.want)
  /\ t.at = "rows" =>
       IF t.detail = None THEN Lost(t.want) ELSE Answers(t.want, t.detail) /\ Known(t.detail)
  /\ t.at = "apply" =>
       \/ t.rows = <<>>
       \/ /\ OneFlow(t.rows)
          /\ ShowsFlow(t.want, t.rows, IF t.detail = None THEN t.rows[1].from ELSE t.detail.from)
WindowShows ==
  window = None \/ (OneFlow(window.rows) /\ ShowsFlow(window.want, window.rows, window.anchor))

\* FlowInv, tracer by tracer
LEMMA FlowParts == FlowInv <=> WindowShows /\ \A t \in tracers : TracerInv(t)
BY DEF FlowInv, TracerInv, WindowShows

\* No step spoils what a thread has read, or what the row it was asked for has become.
LEMMA TracersKept ==
  ASSUME WorkbenchAssumption, RowsInv, WorkbenchNext, NEW t, TracerInv(t)
  PROVE  TracerInv(t)'
<1>1. \A row : Known(row) => Known(row)' /\ (Lost(row) => Lost(row)')
  BY AllKnownStay
<1>2. None' = None /\ (Known(t.want) /\ Known(t.want)')
  BY <1>1 DEF None, TracerInv
<1>3. t.at = "rows" =>
        IF t.detail = None THEN Lost(t.want)' ELSE Answers(t.want, t.detail) /\ Known(t.detail)'
  BY <1>1 DEF TracerInv
<1>4. t.at = "apply" =>
        \/ t.rows = <<>>
        \/ /\ OneFlow(t.rows)
           /\ ShowsFlow(t.want, t.rows, IF t.detail = None THEN t.rows[1].from ELSE t.detail.from)
  BY DEF TracerInv
<1>5. t = [token |-> t.token, want |-> t.want, at |-> t.at, detail |-> t.detail, rows |-> t.rows]
  BY DEF TracerInv
<1> QED
  BY <1>2, <1>3, <1>4, <1>5 DEF TracerInv

\* FlowInv is inductive.
LEMMA FlowStep ==
  ASSUME WorkbenchAssumption, RowsInv, PageInv, FlowInv, WorkbenchNext
  PROVE  FlowInv'
<1>1. WindowShows /\ \A t \in tracers : TracerInv(t) /\ TracerInv(t)'
  BY FlowParts, TracersKept
<1>2. \A row : Known(row) => Known(row)' /\ (Lost(row) => Lost(row)')
  BY AllKnownStay
<1>3. SUFFICES WindowShows' /\ \A t \in tracers' : TracerInv(t)'
  BY DEF FlowInv, TracerInv, WindowShows
<1>4. CASE UNCHANGED <<tracers, window>>
  BY <1>1, <1>4 DEF WindowShows, None
<1>5. ASSUME NEW id \in DOMAIN page, OpenFlow(id)
      PROVE  WindowShows' /\ \A t \in tracers' : TracerInv(t)'
  <2>1. PICK row : row = page[id] /\ Known(row)'
    BY <1>2, RowOfPage
  <2>2. PICK n : n = [token |-> flowToken + 1, want |-> row, at |-> "detail",
                      detail |-> None, rows |-> << >>]
    OBVIOUS
  <2>3. tracers' = tracers \union {n} /\ window' = window
    BY <1>5, <2>1, <2>2 DEF OpenFlow
  <2>4. /\ n = [token |-> n.token, want |-> n.want, at |-> n.at, detail |-> n.detail, rows |-> n.rows]
        /\ n.want = row /\ n.at = "detail"
    BY <2>2
  <2>5. TracerInv(n)'
    BY <2>1, <2>4 DEF TracerInv
  <2> QED
    BY <1>1, <2>3, <2>5 DEF WindowShows, None
<1>6. ASSUME NEW t \in tracers, TraceDetail(t)
      PROVE  WindowShows' /\ \A s \in tracers' : TracerInv(s)'
  <2> DEFINE d == Detail(t.want.id)
             u == [t EXCEPT !.at = "rows"]
  <2>1. PICK token, want, at, e, rows :
          t = [token |-> token, want |-> want, at |-> at, detail |-> e, rows |-> rows]
    BY <1>1 DEF TracerInv
  <2>2. tracers' = (tracers \ {t}) \union {[u EXCEPT !.detail = d]} /\ window' = window
    BY <1>6, Zenon DEF TraceDetail
  <2>3. u = [token |-> token, want |-> want, at |-> "rows", detail |-> e, rows |-> rows]
    BY <2>1
  <2> HIDE DEF u
  <2>4. t.want = want /\ Known(want) /\ Known(want)'
    BY <1>1, <1>2, <2>1 DEF TracerInv
  <2>5. PICK f : f = d
    OBVIOUS
  <2>6. IF f = None THEN Lost(want)' ELSE Answers(want, f) /\ Known(f)'
    <3>1. IF d = None THEN Lost(want) ELSE Answers(want, d) /\ Known(d)
      BY <2>4, ReadAgain
    <3> HIDE DEF d
    <3>2. IF f = None THEN Lost(want) ELSE Answers(want, f) /\ Known(f)
      BY <2>5, <3>1
    <3> QED
      BY <1>2, <2>4, <3>2
  <2> HIDE DEF d
  <2>7. PICK s : s = [token |-> token, want |-> want, at |-> "rows", detail |-> f, rows |-> rows]
    OBVIOUS
  <2>8. tracers' = (tracers \ {t}) \union {s}
    BY <2>2, <2>3, <2>5, <2>7
  <2>9. /\ s = [token |-> s.token, want |-> s.want, at |-> s.at, detail |-> s.detail, rows |-> s.rows]
        /\ s.want = want /\ s.at = "rows" /\ s.detail = f
    BY <2>7
  <2>10. TracerInv(s)'
    BY <2>4, <2>6, <2>9 DEF TracerInv, None
  <2> QED
    BY <1>1, <2>2, <2>8, <2>10 DEF WindowShows, None
<1>7. ASSUME NEW t \in tracers, TraceRows(t)
      PROVE  WindowShows' /\ \A s \in tracers' : TracerInv(s)'
  <2> DEFINE found == FlowRows(t.want.id)
             u == [t EXCEPT !.at = "apply"]
  <2>1. PICK token, want, at, d, rows :
          t = [token |-> token, want |-> want, at |-> at, detail |-> d, rows |-> rows]
    BY <1>1 DEF TracerInv
  <2>2. tracers' = (tracers \ {t}) \union {[u EXCEPT !.rows = found]} /\ window' = window
    BY <1>7, Zenon DEF TraceRows
  <2>3. u = [token |-> token, want |-> want, at |-> "apply", detail |-> d, rows |-> rows]
    BY <2>1
  <2> HIDE DEF u
  <2>4. t.want = want /\ t.detail = d /\ Known(want) /\ Known(want)'
    BY <1>1, <1>2, <2>1 DEF TracerInv
  <2>5. PICK read : read = found
    OBVIOUS
  <2>6. \/ read = << >>
        \/ OneFlow(read) /\ ShowsFlow(want, read, IF d = None THEN read[1].from ELSE d.from)
    <3>1. t.at = "rows"
      BY <1>7 DEF TraceRows
    <3>2. IF d = None THEN Lost(want) ELSE Answers(want, d) /\ Known(d)
      BY <1>1, <2>4, <3>1 DEF TracerInv
    <3>3. \/ found = << >>
          \/ OneFlow(found) /\ ShowsFlow(want, found, IF d = None THEN found[1].from ELSE d.from)
      BY <2>4, <3>2, FlowOf
    <3> HIDE DEF found
    <3> QED
      BY <2>5, <3>3
  <2> HIDE DEF found
  <2>7. PICK s : s = [token |-> token, want |-> want, at |-> "apply", detail |-> d, rows |-> read]
    OBVIOUS
  <2>8. tracers' = (tracers \ {t}) \union {s}
    BY <2>2, <2>3, <2>5, <2>7
  <2>9. /\ s = [token |-> s.token, want |-> s.want, at |-> s.at, detail |-> s.detail, rows |-> s.rows]
        /\ s.want = want /\ s.at = "apply" /\ s.detail = d /\ s.rows = read
    BY <2>7
  <2>10. TracerInv(s)'
    BY <2>4, <2>6, <2>9 DEF TracerInv, None
  <2> QED
    BY <1>1, <2>2, <2>8, <2>10 DEF WindowShows, None
<1>8. ASSUME NEW t \in tracers, ApplyFlow(t)
      PROVE  WindowShows' /\ \A s \in tracers' : TracerInv(s)'
  <2> DEFINE anchor == IF t.detail = None THEN t.rows[1].from ELSE t.detail.from
  <2>1. /\ t.at = "apply" /\ tracers' \subseteq tracers
        /\ \/ window' = window
           \/ /\ t.rows # << >>
              /\ window' = [id |-> t.want.id, want |-> t.want, detail |-> t.detail, rows |-> t.rows,
                            anchor |-> anchor]
    BY <1>8 DEF ApplyFlow
  <2>2. t.rows = << >> \/ (OneFlow(t.rows) /\ ShowsFlow(t.want, t.rows, anchor))
    BY <1>1, <2>1 DEF TracerInv
  <2> HIDE DEF anchor
  <2>3. WindowShows'
    <3>1. CASE window' = window
      BY <1>1, <3>1 DEF WindowShows, None
    <3>2. CASE window' # window
      <4>1. t.rows # << >> /\ window'.want = t.want /\ window'.rows = t.rows /\ window'.anchor = anchor
        BY <2>1, <3>2
      <4> QED
        BY <2>2, <4>1 DEF WindowShows
    <3> QED
      BY <3>1, <3>2
  <2> QED
    BY <1>1, <2>1, <2>3
<1>9. (\E f \in Frames : Capture(f)) \/ (\E f \in Files : StartImport(f)) => UNCHANGED flows
  BY DEF Capture, StartImport
<1>10. ClearOffline \/ StoreOffline \/ ImportDone \/ ResetOffline \/ ClearLive => UNCHANGED flows
  BY DEF ClearOffline, StoreOffline, ImportDone, ResetOffline, ClearLive
<1>11. (\E s \in {"live", "offline"} : LoadPackets(s)) \/ ReadPage \/ ShowPage => UNCHANGED flows
  BY DEF LoadPackets, ReadPage, ShowPage
<1>12. (\E id \in DOMAIN page : Select(id)) => UNCHANGED flows
  BY DEF Select
<1>13. (\E t \in readers : ReadDetail(t) \/ ApplyDetail(t)) => UNCHANGED flows
  BY DEF ReadDetail, ApplyDetail
<1>14. StartExport \/ CollectAgain \/ CollectPage \/ Expand => UNCHANGED flows
  BY DEF StartExport, CollectAgain, CollectPage, Expand
<1>15. UNCHANGED flows => UNCHANGED <<tracers, window>>
  BY DEF flows
<1> QED
  BY <1>4, <1>5, <1>6, <1>7, <1>8, <1>9, <1>10, <1>11, <1>12, <1>13, <1>14, <1>15 DEF WorkbenchNext

\* A row as a page has it is the row without its bytes.
LEMMA BareRow ==
  ASSUME NEW row, Sound(row)
  PROVE  /\ Sound(Bare(row)) /\ Bare(row).id = row.id /\ Bare(row).bytes = << >>
<1> DEFINE u == [row EXCEPT !.head = FALSE]
<1>1. PICK a, b, c, d, e, f, g, h, i, j, k :
        row = [id |-> a, source |-> b, gen |-> c, ts |-> d, proto |-> e, from |-> f, to |-> g,
               link |-> h, head |-> i, seq |-> j, bytes |-> k]
  BY DEF Sound, Typed
<1>2. u = [id |-> a, source |-> b, gen |-> c, ts |-> d, proto |-> e, from |-> f, to |-> g,
           link |-> h, head |-> FALSE, seq |-> j, bytes |-> k]
  <2>1. \A v : [row EXCEPT !.head = v]
               = [id |-> a, source |-> b, gen |-> c, ts |-> d, proto |-> e, from |-> f, to |-> g,
                  link |-> h, head |-> v, seq |-> j, bytes |-> k]
    BY <1>1
  <2> QED
    BY <2>1, Zenon
<1>3. Bare(row) = [u EXCEPT !.bytes = << >>]
  BY Zenon DEF Bare
<1> HIDE DEF u
<1>4. Bare(row) = [id |-> a, source |-> b, gen |-> c, ts |-> d, proto |-> e, from |-> f, to |-> g,
                   link |-> h, head |-> FALSE, seq |-> j, bytes |-> << >>]
  BY <1>2, <1>3
<1>5. /\ row.id = a /\ row.source = b /\ row.ts = d /\ row.proto = e /\ row.seq = j
  BY <1>1
<1>6. PICK r : r = Bare(row)
  OBVIOUS
<1>7. /\ r.id = a /\ r.source = b /\ r.ts = d /\ r.proto = e /\ r.seq = j /\ r.bytes = << >>
      /\ r = [id |-> r.id, source |-> r.source, gen |-> r.gen, ts |-> r.ts,
              proto |-> r.proto, from |-> r.from, to |-> r.to, link |-> r.link,
              head |-> r.head, seq |-> r.seq, bytes |-> r.bytes]
  BY <1>4, <1>6
<1>8. r.bytes \in Seq(ToSet(r.bytes))
  BY <1>7, NoElements
<1>9. Typed(r)
  BY <1>5, <1>7, <1>8 DEF Sound, Typed
<1>10. r.source = row.source
  BY <1>5, <1>7
<1>11. Sound(r)
  BY <1>5, <1>7, <1>9, <1>10 DEF Sound
<1> QED
  BY <1>5, <1>6, <1>7, <1>11

\* A known row is one an export can hold.
LEMMA KnownIsSound ==
  ASSUME RowsInv, NEW row, Known(row)
  PROVE  Sound(row)
<1>1. nextLive \in Nat \ {0}
  BY Ids
<1> QED
  BY <1>1 DEF Known, Sound

\* ExportInv is inductive.
LEMMA ExportStep ==
  ASSUME WorkbenchAssumption, RowsInv, PageInv, ExportInv, WorkbenchNext
  PROVE  ExportInv'
<1>1. \A row : Known(row) => Known(row)' /\ (Lost(row) => Lost(row)')
  BY AllKnownStay
<1>2. CASE export' = export
  BY <1>1, <1>2 DEF ExportInv
<1>3. ASSUME StartExport PROVE ExportInv'
  <2>1. export'.at = "collect"
    BY <1>3 DEF StartExport
  <2> QED
    BY <2>1 DEF ExportInv
<1>4. ASSUME CollectAgain PROVE ExportInv'
  <2>1. PICK ids \in {DOMAIN page, IF selected = None THEN {} ELSE {selected.id}} :
          export' = [at |-> "expand", rows |-> Details(ids)]
    BY <1>4 DEF CollectAgain
  <2>2. \A r \in Details(ids) : Known(r)' /\ \E id \in ids : r = Detail(id) /\ r.id = id
    <3> TAKE r \in Details(ids)
    <3>1. PICK id \in ids : r = Detail(id) /\ r # None
      BY DEF Details
    <3>2. Detail(id) # None
      BY <3>1
    <3>3. Detail(id) \in Stored /\ Detail(id).id = id
      BY <3>2, DetailOf
    <3>4. Known(r)
      BY <3>1, <3>3, StoredIsKnown
    <3> QED
      BY <1>1, <3>1, <3>3, <3>4
  <2>3. export'.at = "expand" /\ export'.rows = Details(ids)
    BY <2>1
  <2>4. IsFiniteSet(Details(ids))
    <3>1. \A x : IsFiniteSet({x})
      BY FS_Singleton
    <3>2. IsFiniteSet(ids)
      <4>1. CASE ids = DOMAIN page
        BY <4>1 DEF PageInv
      <4>2. CASE ids = {}
        BY <4>2, FS_EmptySet
      <4>3. CASE ids = {selected.id}
        BY <3>1, <4>3
      <4> QED
        BY <4>1, <4>2, <4>3
    <3>3. PICK f : f = [id \in ids |-> Detail(id)]
      OBVIOUS
    <3>4. IsFiniteSet({f[id] : id \in ids})
      BY <3>2, ImageFinite
    <3>5. Details(ids) \in SUBSET {f[id] : id \in ids}
      BY <3>3 DEF Details
    <3> QED
      BY <3>4, <3>5, FS_Subset
  <2>5. \A r, s \in Details(ids) : r.id = s.id => r = s
    BY <2>2
  <2> QED
    BY <2>2, <2>3, <2>4, <2>5 DEF ExportInv
<1>5. ASSUME CollectPage PROVE ExportInv'
  <2>1. export'.at = "expand" /\ export'.rows = {page[id] : id \in DOMAIN page}
    BY <1>5 DEF CollectPage
  <2>2. \A r \in export'.rows : Known(r)'
    BY <1>1, <2>1, RowOfPage
  <2>3. \A r, s \in export'.rows : r.id = s.id => r = s
    BY <2>1, RowOfPage
  <2>4. IsFiniteSet(export'.rows)
    BY <2>1, ImageFinite DEF PageInv
  <2> QED
    BY <2>1, <2>2, <2>3, <2>4 DEF ExportInv
<1>6. ASSUME Expand PROVE ExportInv'
  <2> DEFINE got == [r \in export.rows |-> IF Detail(r.id) = None THEN Bare(r) ELSE Detail(r.id)]
  <2>1. /\ export.at = "expand" /\ export'.at = "done"
        /\ export'.rows = {[of |-> r, row |-> got[r]] : r \in export.rows}
    BY <1>6 DEF Expand
  <2>2. ASSUME NEW r \in export.rows
        PROVE  /\ Answers(r, got[r]) \/ (got[r] = Bare(r) /\ Known(r) /\ Lost(r))
               /\ Sound(got[r]) /\ got[r].id = r.id
    <3>1. Known(r) /\ Sound(r)
      BY <2>1, KnownIsSound DEF ExportInv
    <3>2. IF Detail(r.id) = None THEN Lost(r)
          ELSE Answers(r, Detail(r.id)) /\ Known(Detail(r.id))
      BY <3>1, ReadAgain
    <3>3. CASE Detail(r.id) = None
      <4>1. got[r] = Bare(r)
        BY <3>3
      <4> HIDE DEF got
      <4> QED
        BY <3>1, <3>2, <3>3, <4>1, BareRow
    <3>4. CASE Detail(r.id) # None
      <4>1. got[r] = Detail(r.id)
        BY <3>4
      <4> HIDE DEF got
      <4>2. Answers(r, got[r]) /\ Known(got[r])
        BY <3>2, <3>4, <4>1
      <4> QED
        BY <4>2, KnownIsSound DEF Answers
    <3> QED
      BY <3>3, <3>4
  <2> HIDE DEF got
  <2>3. ASSUME NEW x \in export'.rows
        PROVE  /\ Answers(x.of, x.row) \/ (x.row = Bare(x.of) /\ Known(x.of)' /\ Lost(x.of)')
               /\ Sound(x.row) /\ x.of \in export.rows /\ x.row.id = x.of.id /\ x.row = got[x.of]
               /\ x = [of |-> x.of, row |-> x.row]
    <3>1. PICK r \in export.rows : x = [of |-> r, row |-> got[r]]
      BY <2>1
    <3>2. x.of = r /\ x.row = got[r] /\ x = [of |-> x.of, row |-> x.row]
      BY <3>1
    <3> QED
      BY <1>1, <2>2, <3>2
  <2>4. ASSUME NEW x \in export'.rows, NEW y \in export'.rows, x.row.id = y.row.id
        PROVE  x = y
    <3>1. x.of = y.of
      BY <2>1, <2>3, <2>4 DEF ExportInv
    <3>2. x.row = y.row
      BY <2>3, <3>1
    <3>3. x = [of |-> x.of, row |-> x.row] /\ y = [of |-> y.of, row |-> y.row]
      BY <2>3
    <3> QED
      BY <3>1, <3>2, <3>3, Zenon
  <2>5. IsFiniteSet(export'.rows)
    <3>1. IsFiniteSet(export.rows)
      BY <2>1 DEF ExportInv
    <3>2. PICK f : f = [r \in export.rows |-> [of |-> r, row |-> got[r]]]
      OBVIOUS
    <3>3. IsFiniteSet({f[r] : r \in export.rows})
      BY <3>1, ImageFinite
    <3>4. {f[r] : r \in export.rows} = export'.rows
      BY <2>1, <3>2
    <3> QED
      BY <3>3, <3>4
  <2> QED
    BY <2>1, <2>3, <2>4, <2>5 DEF ExportInv
<1>7. (\E f \in Frames : Capture(f)) \/ (\E f \in Files : StartImport(f)) => export' = export
  BY DEF Capture, StartImport
<1>8. ClearOffline \/ StoreOffline \/ ImportDone \/ ResetOffline \/ ClearLive => export' = export
  BY DEF ClearOffline, StoreOffline, ImportDone, ResetOffline, ClearLive
<1>9. (\E s \in {"live", "offline"} : LoadPackets(s)) \/ ReadPage \/ ShowPage => export' = export
  BY DEF LoadPackets, ReadPage, ShowPage
<1>10. (\E id \in DOMAIN page : Select(id) \/ OpenFlow(id)) => export' = export
  BY DEF Select, OpenFlow
<1>11. (\E t \in readers : ReadDetail(t) \/ ApplyDetail(t)) => export' = export
  BY DEF ReadDetail, ApplyDetail
<1>12. (\E t \in tracers : TraceDetail(t) \/ TraceRows(t) \/ ApplyFlow(t)) => export' = export
  BY DEF TraceDetail, TraceRows, ApplyFlow
<1> QED
  BY <1>2, <1>3, <1>4, <1>5, <1>6, <1>7, <1>8, <1>9, <1>10, <1>11, <1>12 DEF WorkbenchNext

-------------------------------------------------------------------------------

\* The invariant of the workbench holds at the start,
LEMMA ShownInit ==
  ASSUME WorkbenchInit
  PROVE  ShownInv
<1>1. ToSet(<< >>) = {} /\ << >> \in Seq(ToSet(<< >>))
  BY NoElements
<1>2. RowsInv
  <2>1. Stored = {}
    BY <1>1 DEF WorkbenchInit, Stored
  <2>2. import = NoImport /\ NoImport = [at |-> NoImport.at, mode |-> NoImport.mode, frames |-> NoImport.frames]
    BY DEF WorkbenchInit, NoImport
  <2> QED
    BY <1>1, <2>1, <2>2 DEF WorkbenchInit, RowsInv
<1>3. PageInv
  BY EmptyPage, FS_EmptySet DEF WorkbenchInit, PageInv, NoQuery
<1>4. DetailInv
  BY <1>1 DEF WorkbenchInit, DetailInv
<1>5. FlowInv
  BY DEF WorkbenchInit, FlowInv
<1>6. ExportInv
  BY DEF WorkbenchInit, ExportInv, NoQuery
<1> QED
  BY <1>2, <1>3, <1>4, <1>5, <1>6 DEF ShownInv

\* is preserved by every step,
LEMMA ShownStep ==
  ASSUME WorkbenchAssumption, ShownInv, [WorkbenchNext]_workbenchVars
  PROVE  ShownInv'
<1>1. CASE WorkbenchNext
  <2>1. RowsInv'
    BY <1>1, RowsStep DEF ShownInv
  <2>2. PageInv'
    BY <1>1, PageStep DEF ShownInv
  <2>3. DetailInv'
    BY <1>1, DetailStep DEF ShownInv
  <2>4. FlowInv'
    BY <1>1, FlowStep DEF ShownInv
  <2>5. ExportInv'
    BY <1>1, ExportStep DEF ShownInv
  <2> QED
    BY <2>1, <2>2, <2>3, <2>4, <2>5 DEF ShownInv
<1>2. CASE UNCHANGED workbenchVars
  <2>1. UNCHANGED <<live, nextLive, offline, gen, import, asked, page, selected, cache, detailToken,
                    readers, pane, tracers, window, export>>
    BY <1>2 DEF workbenchVars, stores, list, details, flows
  <2>2. RowsInv' /\ \A row : (Known(row)' <=> Known(row)) /\ (Lost(row)' <=> Lost(row))
    BY <2>1 DEF ShownInv, RowsInv, Stored, Known, Lost, NoImport
  <2>3. PageInv'
    BY <2>1, <2>2 DEF ShownInv, PageInv, None
  <2>4. DetailInv'
    BY <2>1 DEF ShownInv, DetailInv, None
  <2>5. FlowInv'
    BY <2>1, <2>2 DEF ShownInv, FlowInv, None
  <2>6. ExportInv'
    BY <2>1, <2>2 DEF ShownInv, ExportInv
  <2> QED
    BY <2>2, <2>3, <2>4, <2>5, <2>6 DEF ShownInv
<1> QED
  BY <1>1, <1>2

\* and implies that what is shown is of the row it is shown for.
LEMMA ShownRows ==
  ASSUME ShownInv
  PROVE  ShowsTheRow
<1>1. pane # None => Answers(pane.row, pane.detail)
  BY DEF ShownInv, DetailInv
<1>2. window # None =>
        \/ ReplacedBy(window.want, window.rows[Len(window.rows)])
        \/ /\ window.want \in ToSet(window.rows) \/ Len(window.rows) = Limit
           /\ window.anchor = window.want.from
  BY DEF ShownInv, FlowInv, ShowsFlow
<1>3. ToSet(live \o offline) = Stored
  <2>1. live \in Seq(Stored) /\ offline \in Seq(Stored)
    BY SeqMonotonic DEF ShownInv, RowsInv, Stored
  <2> DEFINE both == live \o offline
  <2>2. /\ both \in Seq(Stored) /\ Len(both) = Len(live) + Len(offline)
        /\ \A i \in 1 .. Len(live) + Len(offline) :
             both[i] = IF i <= Len(live) THEN live[i] ELSE offline[i - Len(live)]
    BY <2>1, ConcatProperties
  <2> HIDE DEF both
  <2>3. /\ ToSet(both) = {both[i] : i \in 1 .. Len(both)} /\ ToSet(both) \subseteq Stored
        /\ ToSet(live) = {live[i] : i \in 1 .. Len(live)} /\ Len(live) \in Nat
        /\ ToSet(offline) = {offline[i] : i \in 1 .. Len(offline)} /\ Len(offline) \in Nat
    BY <2>1, <2>2, OwnElements
  <2>4. ASSUME NEW r \in Stored PROVE r \in ToSet(both)
    <3>1. CASE r \in ToSet(live)
      <4>1. PICK i \in 1 .. Len(live) : r = live[i]
        BY <2>3, <3>1
      <4>2. i \in 1 .. Len(both) /\ both[i] = r
        BY <2>2, <2>3, <4>1
      <4> QED
        BY <2>3, <4>2
    <3>2. CASE r \in ToSet(offline)
      <4>1. PICK i \in 1 .. Len(offline) : r = offline[i]
        BY <2>3, <3>2
      <4>2. PICK j \in 1 .. Len(live) + Len(offline) : j = Len(live) + i
        BY <2>3
      <4>3. j \in 1 .. Len(both) /\ ~(j <= Len(live)) /\ j - Len(live) = i
        BY <2>2, <2>3, <4>2
      <4>4. both[j] = r
        BY <2>2, <4>1, <4>3
      <4> QED
        BY <2>3, <4>3, <4>4
    <3> QED
      BY <3>1, <3>2 DEF Stored
  <2> QED
    BY <2>3, <2>4 DEF both
<1>4. export.at = "done" =>
        \A r \in export.rows : \/ Answers(r.of, r.row)
                               \/ r.row = Bare(r.of) /\ r.of \notin ToSet(live \o offline)
  BY <1>3 DEF ShownInv, ExportInv, Lost
<1> QED
  BY <1>1, <1>2, <1>4 DEF ShowsTheRow

\* ShowsTheRow: the detail, the flow and the export of a row are of that row, or, when the
\* offline table was dropped since, of what replaced it.
THEOREM RowIsShown == WorkbenchSpec => []ShowsTheRow
<1>1. WorkbenchInit => ShownInv
  BY ShownInit
<1>2. ShownInv /\ [WorkbenchNext]_workbenchVars => ShownInv'
  BY ShownStep, WorkbenchAssumption
<1>3. ShownInv => ShowsTheRow
  BY ShownRows
<1> QED
  BY <1>1, <1>2, <1>3, PTL DEF WorkbenchSpec

-------------------------------------------------------------------------------
(* How the segments of one direction become one byte string *)

\* The places in the stream sent that a segment holds, base being the number before the
\* first byte; it holds nothing else.
PlacesOf(s, base) == s.sequence - base .. s.sequence - base + Len(s.payload) - 1
Carries(s, sent, base) ==
  /\ s.sequence \in Int /\ s.payload \in Seq(ToSet(s.payload))
  /\ \A i \in 1 .. Len(s.payload) : s.payload[i] = sent[s.sequence - base + i - 1]

\* The bytes that stand at these places of the stream, each once, in the order sent
HoldsExactly(bytes, sent, places) ==
  \E at \in [1 .. Len(bytes) -> places] :
    /\ \A p \in places : \E i \in 1 .. Len(bytes) : at[i] = p
    /\ \A i, j \in 1 .. Len(bytes) : i < j => at[i] < at[j]
    /\ \A i \in 1 .. Len(bytes) : bytes[i] = sent[at[i]]

\* Bytes behind all that is held so far are appended.
LEMMA HoldsMore ==
  ASSUME NEW bytes, bytes \in Seq(ToSet(bytes)), NEW sent, NEW places, places \subseteq Int,
         HoldsExactly(bytes, sent, places),
         NEW low \in Int, NEW tail, tail \in Seq(ToSet(tail)),
         \A p \in places : p < low,
         \A i \in 1 .. Len(tail) : tail[i] = sent[low + i - 1]
  PROVE  HoldsExactly(bytes \o tail, sent, places \union (low .. low + Len(tail) - 1))
<1> DEFINE all == bytes \o tail
           B == Len(bytes)
           T == Len(tail)
           more == places \union (low .. low + T - 1)
           S == ToSet(bytes) \union ToSet(tail)
<1>1. B \in Nat /\ T \in Nat
  BY LenProperties
<1>2. /\ all \in Seq(S) /\ Len(all) = B + T
      /\ \A i \in 1 .. B + T : all[i] = IF i <= B THEN bytes[i] ELSE tail[i - B]
  <2>1. bytes \in Seq(S) /\ tail \in Seq(S)
    BY SeqMonotonic
  <2> HIDE DEF S
  <2> QED
    BY <2>1, ConcatProperties
<1>3. PICK at \in [1 .. B -> places] :
        /\ \A p \in places : \E i \in 1 .. B : at[i] = p
        /\ \A i, j \in 1 .. B : i < j => at[i] < at[j]
        /\ \A i \in 1 .. B : bytes[i] = sent[at[i]]
  BY DEF HoldsExactly
<1> DEFINE to == [i \in 1 .. B + T |-> IF i <= B THEN at[i] ELSE low + (i - B) - 1]
<1> HIDE DEF all, B, T
<1>4. \A i \in 1 .. B : i \in 1 .. B + T /\ i <= B /\ to[i] = at[i] /\ at[i] \in places
  BY <1>1, <1>3
<1>5. ASSUME NEW i \in 1 .. B + T, ~(i <= B)
      PROVE  i - B \in 1 .. T /\ to[i] = low + (i - B) - 1 /\ to[i] \in low .. low + T - 1
  BY <1>1, <1>5
<1>6. to \in [1 .. B + T -> more]
  <2>1. \A i \in 1 .. B + T : to[i] \in more
    <3> TAKE i \in 1 .. B + T
    <3>1. CASE i <= B
      <4>1. i \in 1 .. B
        BY <1>1, <3>1
      <4> QED
        BY <1>4, <4>1
    <3>2. CASE ~(i <= B)
      BY <1>5, <3>2
    <3> QED
      BY <3>1, <3>2
  <2> QED
    BY <2>1
<1> HIDE DEF to
<1>7. ASSUME NEW p \in more PROVE \E i \in 1 .. B + T : to[i] = p
  <2>1. CASE p \in places
    BY <1>3, <1>4, <2>1
  <2>2. CASE p \in low .. low + T - 1
    <3>1. PICK k \in 1 .. T : p = low + k - 1
      <4>1. p - low + 1 \in 1 .. T /\ p = low + (p - low + 1) - 1
        BY <1>1, <2>2
      <4> QED
        BY <4>1
    <3>2. PICK i \in 1 .. B + T : i = B + k
      BY <1>1
    <3>3. ~(i <= B) /\ i - B = k
      BY <1>1, <3>2
    <3>4. to[i] = low + k - 1
      BY <1>5, <3>3
    <3> QED
      BY <3>1, <3>4
  <2> QED
    BY <2>1, <2>2
<1>8. ASSUME NEW i \in 1 .. B + T, NEW j \in 1 .. B + T, i < j PROVE to[i] < to[j]
  <2>1. CASE j <= B
    <3>1. i \in 1 .. B /\ j \in 1 .. B
      BY <1>1, <1>8, <2>1
    <3> QED
      BY <1>3, <1>4, <1>8, <3>1
  <2>2. CASE i <= B /\ ~(j <= B)
    <3>1. i \in 1 .. B
      BY <1>1, <2>2
    <3>2. to[i] \in Int /\ to[i] < low
      BY <1>4, <3>1
    <3>3. to[j] \in Int /\ to[j] >= low
      BY <1>1, <1>5, <2>2
    <3> QED
      BY <3>2, <3>3
  <2>3. CASE ~(i <= B)
    <3>1. ~(j <= B)
      BY <1>1, <1>8, <2>3
    <3>2. to[i] = low + (i - B) - 1 /\ to[j] = low + (j - B) - 1
      BY <1>5, <2>3, <3>1
    <3> QED
      BY <1>1, <1>8, <3>2
  <2> QED
    BY <2>1, <2>2, <2>3
<1>9. ASSUME NEW i \in 1 .. B + T PROVE all[i] = sent[to[i]]
  <2>1. CASE i <= B
    <3>1. i \in 1 .. B
      BY <1>1, <2>1
    <3> QED
      BY <1>2, <1>3, <1>4, <2>1, <3>1
  <2>2. CASE ~(i <= B)
    <3>1. PICK k \in 1 .. T : k = i - B
      BY <1>5, <2>2
    <3>2. all[i] = tail[k] /\ to[i] = low + k - 1
      BY <1>2, <1>5, <2>2, <3>1
    <3>3. tail[k] = sent[low + k - 1]
      BY DEF T
    <3> QED
      BY <3>2, <3>3
  <2> QED
    BY <2>1, <2>2
<1>10. Len(all) = B + T
  BY <1>2
<1> HIDE DEF more
<1>11. /\ to \in [1 .. Len(all) -> more]
       /\ \A p \in more : \E i \in 1 .. Len(all) : to[i] = p
       /\ \A i, j \in 1 .. Len(all) : i < j => to[i] < to[j]
       /\ \A i \in 1 .. Len(all) : all[i] = sent[to[i]]
  BY <1>6, <1>7, <1>8, <1>9, <1>10
<1>12. HoldsExactly(all, sent, more)
  BY <1>11, Zenon DEF HoldsExactly
<1> QED
  BY <1>12 DEF all, more, T

\* Where the loop of _merge_direction_payload stands after a segment that begins at place
\* first: what is merged is what was held so far, without a gap from there to the end.
MergedInv(merged, sent, base, places, first) ==
  /\ merged = [bytes |-> merged.bytes, end |-> merged.end]
  /\ merged.bytes \in Seq(ToSet(merged.bytes))
  /\ places \subseteq Int
  /\ HoldsExactly(merged.bytes, sent, places)
  /\ IF merged.end = NoSeq THEN places = {}
     ELSE /\ merged.end \in Int /\ first \in Int
          /\ \A p \in places : p < merged.end - base
          /\ \A p \in Int : first <= p /\ p < merged.end - base => p \in places

\* What is cut off a segment
LEMMA CutOff ==
  ASSUME NEW payload, payload \in Seq(ToSet(payload)), NEW known \in Nat, known <= Len(payload)
  PROVE  LET tail == SubSeq(payload, known + 1, Len(payload))
         IN  /\ tail \in Seq(ToSet(tail)) /\ Len(tail) = Len(payload) - known /\ Len(payload) \in Nat
             /\ \A i \in 1 .. Len(payload) - known : tail[i] = payload[known + i]
<1> DEFINE N == Len(payload)
           tail == SubSeq(payload, known + 1, N)
<1>1. N \in Nat /\ \A i \in 1 .. N : payload[i] \in ToSet(payload)
  BY LenProperties, ElementOfSeq
<1> HIDE DEF N
<1>2. \A i \in known + 1 .. N : payload[i] \in ToSet(payload)
  BY <1>1
<1>3. /\ tail \in Seq(ToSet(payload))
      /\ Len(tail) = IF known + 1 <= N THEN N - (known + 1) + 1 ELSE 0
      /\ \A i \in 1 .. N - (known + 1) + 1 : tail[i] = payload[known + 1 + i - 1]
  BY <1>1, <1>2, SubSeqProperties
<1> HIDE DEF tail
<1>4. known <= N
  BY DEF N
<1>5. Len(tail) = N - known
  BY <1>1, <1>3, <1>4
<1>6. ASSUME NEW i \in 1 .. N - known PROVE tail[i] = payload[known + i]
  <2>1. i \in 1 .. N - (known + 1) + 1 /\ known + 1 + i - 1 = known + i
    BY <1>1
  <2> QED
    BY <1>3, <2>1
<1>7. tail \in Seq(ToSet(tail))
  BY <1>3, OwnElements
<1> QED
  BY <1>1, <1>5, <1>6, <1>7 DEF tail, N

\* One turn of the loop: the segment begins no sooner than the one before.
LEMMA ExtendStep ==
  ASSUME NoSeq \notin Int, NEW sent, NEW base \in Int, NEW merged, NEW places, NEW first,
         MergedInv(merged, sent, base, places, first),
         NEW s, Carries(s, sent, base), s.payload # << >>,
         merged.end # NoSeq => first <= s.sequence - base
  PROVE  \E low : /\ MergedInv(Extend(merged, s), sent, base, places \union PlacesOf(s, base), low)
                  /\ low <= s.sequence - base /\ Extend(merged, s).end # NoSeq
<1> DEFINE a == s.sequence - base
           N == Len(s.payload)
           known == IF merged.end = NoSeq \/ s.sequence >= merged.end THEN 0
                    ELSE merged.end - s.sequence
           tail == SubSeq(s.payload, known + 1, N)
           all == places \union (a .. a + N - 1)
           next == Extend(merged, s)
<1>1. /\ s.sequence \in Int /\ s.payload \in Seq(ToSet(s.payload))
      /\ \A i \in 1 .. N : s.payload[i] = sent[a + i - 1]
  BY DEF Carries
<1>2. N \in Nat \ {0} /\ a \in Int /\ s.sequence = a + base
  <2>1. N \in Nat
    BY <1>1, LenProperties
  <2>2. N # 0
    BY <1>1, EmptySeq
  <2> QED
    BY <1>1, <2>1, <2>2
<1>3. PlacesOf(s, base) = a .. a + N - 1
  BY DEF PlacesOf
<1>4. /\ merged = [bytes |-> merged.bytes, end |-> merged.end]
      /\ merged.bytes \in Seq(ToSet(merged.bytes)) /\ places \subseteq Int
      /\ HoldsExactly(merged.bytes, sent, places)
      /\ merged.end = NoSeq => places = {}
      /\ merged.end # NoSeq =>
           /\ merged.end \in Int /\ first \in Int /\ first <= a
           /\ \A p \in places : p < merged.end - base
           /\ \A p \in Int : first <= p /\ p < merged.end - base => p \in places
  BY DEF MergedInv
<1>5. s.sequence # NoSeq
  BY <1>1
<1>6. next = IF known > 0 /\ known >= N THEN merged
             ELSE [bytes |-> merged.bytes \o tail, end |-> s.sequence + N]
  BY <1>5 DEF Extend
<1> DEFINE e == merged.end - base
<1>7. known \in Nat
  BY <1>2, <1>4
<1>8. CASE known > 0 /\ known >= N
  <2>1. merged.end # NoSeq /\ known = e - a /\ e \in Int
    BY <1>2, <1>4, <1>8
  <2>2. all = places
    <3>1. ASSUME NEW p \in a .. a + N - 1 PROVE p \in places
      <4>1. p \in Int /\ first <= p /\ p < e
        BY <1>2, <1>4, <1>8, <2>1, SMTT(30)
      <4> QED
        BY <1>4, <2>1, <4>1
    <3> QED
      BY <3>1
  <2>3. next = merged
    BY <1>6, <1>8
  <2> HIDE DEF all, next, known, tail
  <2> QED
    BY <1>3, <1>4, <2>1, <2>2, <2>3 DEF all, next
<1>9. CASE ~(known > 0 /\ known >= N)
  <2>1. next = [bytes |-> merged.bytes \o tail, end |-> s.sequence + N]
    BY <1>6, <1>9
  <2>2. known \in Nat /\ known <= N
    BY <1>2, <1>7, <1>9
  <2>3. \A p \in places : p < a + known
    <3>1. CASE merged.end = NoSeq
      BY <1>4, <3>1
    <3>2. CASE merged.end # NoSeq
      <4>1. e \in Int /\ e <= a + known
        BY <1>2, <1>4, <3>2
      <4> HIDE DEF known
      <4> QED
        BY <1>2, <1>4, <2>2, <3>2, <4>1
    <3> QED
      BY <3>1, <3>2
  <2>4. known > 0 => merged.end # NoSeq /\ known = e - a /\ e \in Int
    BY <1>2, <1>4
  <2> HIDE DEF known
  <2>5. /\ tail \in Seq(ToSet(tail)) /\ Len(tail) = N - known
        /\ \A i \in 1 .. N - known : tail[i] = s.payload[known + i]
    BY <1>1, <2>2, CutOff
  <2> HIDE DEF tail
  <2>6. \A i \in 1 .. Len(tail) : tail[i] = sent[(a + known) + i - 1]
    <3> TAKE i \in 1 .. Len(tail)
    <3>1. i \in 1 .. N - known
      BY <2>5
    <3>2. PICK k \in 1 .. N : k = known + i
      BY <1>2, <2>2, <3>1
    <3>3. s.payload[k] = sent[a + k - 1] /\ a + k - 1 = (a + known) + i - 1
      BY <1>1, <1>2, <2>2, <3>1, <3>2
    <3> QED
      BY <2>5, <3>1, <3>2, <3>3
  <2>7. HoldsExactly(merged.bytes \o tail, sent, places \union (a + known .. a + known + Len(tail) - 1))
    <3>1. a + known \in Int
      BY <1>2, <2>2
    <3> QED
      BY <1>4, <2>3, <2>5, <2>6, <3>1, HoldsMore
  <2>8. a + known + Len(tail) - 1 = a + N - 1
    BY <1>2, <2>2, <2>5
  <2>9. \A p \in a .. a + known - 1 : p \in places
    <3> TAKE p \in a .. a + known - 1
    <3>1. known > 0
      BY <1>2, <2>2
    <3>2. p \in Int /\ first <= p /\ p < e
      BY <1>2, <1>4, <2>2, <2>4, <3>1, SMTT(30)
    <3> QED
      BY <1>4, <2>4, <3>1, <3>2
  <2>10. places \union (a + known .. a + N - 1) = all
    <3>1. \A p : p \in a .. a + N - 1 <=> p \in a .. a + known - 1 \/ p \in a + known .. a + N - 1
      BY <1>2, <2>2
    <3> QED
      BY <2>9, <3>1
  <2>11. HoldsExactly(merged.bytes \o tail, sent, all)
    BY <2>7, <2>8, <2>10
  <2>12. merged.bytes \o tail \in Seq(ToSet(merged.bytes \o tail))
    <3>1. merged.bytes \in Seq(ToSet(merged.bytes) \union ToSet(tail)) /\ tail \in Seq(ToSet(merged.bytes) \union ToSet(tail))
      BY <1>4, <2>5, SeqMonotonic
    <3>2. merged.bytes \o tail \in Seq(ToSet(merged.bytes) \union ToSet(tail))
      BY <3>1, ConcatProperties
    <3> QED
      BY <3>2, OwnElements
  <2> DEFINE low == IF known > 0 THEN first ELSE a
  <2>13. low \in Int /\ low <= a
    BY <1>2, <1>4, <2>4
  <2>14. all \subseteq Int
    BY <1>2, <1>4
  <2>15. /\ next.bytes = merged.bytes \o tail /\ next.end = s.sequence + N
         /\ next = [bytes |-> next.bytes, end |-> next.end]
    BY <2>1
  <2> HIDE DEF next
  <2>16. next.end \in Int /\ next.end # NoSeq /\ next.end - base = a + N
    BY <1>2, <2>15
  <2>17. \A p \in all : p < a + N
    <3>1. \A p \in places : p < a + N
      BY <1>2, <1>4, <2>2, <2>3
    <3>2. \A p \in a .. a + N - 1 : p < a + N
      BY <1>2
    <3> QED
      BY <3>1, <3>2
  <2>18. \A p \in Int : low <= p /\ p < a + N => p \in all
    <3> TAKE p \in Int
    <3> HAVE low <= p /\ p < a + N
    <3>1. CASE a <= p
      BY <1>2, <3>1
    <3>2. CASE ~(a <= p)
      <4>1. known > 0 /\ low = first
        BY <1>2, <3>2
      <4>2. first <= p /\ p < e
        BY <1>2, <2>2, <2>4, <3>2, <4>1
      <4> QED
        BY <1>4, <2>4, <4>1, <4>2
    <3> QED
      BY <3>1, <3>2
  <2> HIDE DEF low
  <2>19. MergedInv(next, sent, base, all, low)
    BY <2>11, <2>12, <2>13, <2>14, <2>15, <2>16, <2>17, <2>18 DEF MergedInv
  <2> QED
    BY <1>3, <2>13, <2>16, <2>19 DEF next
<1> QED
  BY <1>8, <1>9

\* The turns of the loop of _merge_direction_payload over the segments of one direction
Merging(merged, segments, n) ==
  /\ merged[0] = [bytes |-> << >>, end |-> NoSeq]
  /\ \A k \in 1 .. n : merged[k] = Extend(merged[k - 1], segments[k])

\* Segments that carry something of one stream, by rising numbers; all that they hold of it
InTurn(segments, n, sent, base) ==
  /\ \A k \in 1 .. n : Carries(segments[k], sent, base) /\ segments[k].payload # << >>
  /\ \A k \in 1 .. n : k > 1 => segments[k - 1].sequence <= segments[k].sequence
AllPlaces(segments, n, base) == UNION {PlacesOf(segments[k], base) : k \in 1 .. n}

\* _merge_direction_payload: however many segments there are, however they overlap or leave
\* gaps, the merged bytes are those that were held, each once and in the order sent.
THEOREM MergeIsExact ==
  ASSUME NoSeq \notin Int, NEW sent, NEW base \in Int, NEW n \in Nat, NEW segments,
         InTurn(segments, n, sent, base),
         NEW merged, Merging(merged, segments, n)
  PROVE  /\ merged[n].bytes \in Seq(ToSet(merged[n].bytes))
         /\ HoldsExactly(merged[n].bytes, sent, AllPlaces(segments, n, base))
<1> DEFINE Upto(k) == UNION {PlacesOf(segments[j], base) : j \in 1 .. k}
           Good(k) == \E low : /\ MergedInv(merged[k], sent, base, Upto(k), low)
                               /\ k = 0 => merged[k].end = NoSeq
                               /\ k > 0 => low <= segments[k].sequence - base
           bad == {k \in 0 .. n : ~Good(k)}
<1>1. Good(0)
  <2>1. merged[0] = [bytes |-> << >>, end |-> NoSeq]
    BY DEF Merging
  <2>2. Upto(0) = {}
    <3>1. 1 .. 0 = {}
      OBVIOUS
    <3> QED
      BY <3>1
  <2>3. HoldsExactly(<< >>, sent, {})
    <3>1. Len(<< >>) = 0 /\ 1 .. 0 = {}
      BY NoElements
    <3>2. PICK f : f = [i \in {} |-> 0]
      OBVIOUS
    <3>3. f \in [{} -> {}]
      BY <3>2
    <3>4. 1 .. Len(<< >>) = {}
      BY <3>1
    <3> QED
      BY <3>3, <3>4 DEF HoldsExactly
  <2>4. merged[0].bytes = << >> /\ merged[0].end = NoSeq
    BY <2>1
  <2> HIDE DEF Upto
  <2>5. MergedInv(merged[0], sent, base, Upto(0), 0)
    BY <2>1, <2>2, <2>3, <2>4, NoElements DEF MergedInv
  <2> QED
    BY <2>4, <2>5
<1>2. ASSUME NEW k \in 1 .. n, Good(k - 1) PROVE Good(k)
  <2>1. PICK first : /\ MergedInv(merged[k - 1], sent, base, Upto(k - 1), first)
                     /\ k - 1 = 0 => merged[k - 1].end = NoSeq
                     /\ k - 1 > 0 => first <= segments[k - 1].sequence - base
    BY <1>2
  <2>2. Upto(k) = Upto(k - 1) \union PlacesOf(segments[k], base)
    <3>1. \A j : j \in 1 .. k <=> j \in 1 .. k - 1 \/ j = k
      OBVIOUS
    <3> QED
      BY <3>1
  <2> HIDE DEF Upto, Good
  <2>3. /\ Carries(segments[k], sent, base) /\ segments[k].payload # << >>
        /\ merged[k] = Extend(merged[k - 1], segments[k])
    BY DEF Merging, InTurn
  <2>4. merged[k - 1].end # NoSeq => first <= segments[k].sequence - base
    <3>1. CASE k = 1
      BY <2>1, <3>1
    <3>2. CASE k > 1
      <4>1. k - 1 \in 1 .. n /\ segments[k - 1].sequence <= segments[k].sequence
        BY <3>2 DEF InTurn
      <4>2. segments[k].sequence \in Int /\ segments[k - 1].sequence \in Int
        BY <4>1 DEF Carries, InTurn
      <4>3. first <= segments[k - 1].sequence - base
        BY <2>1, <3>2
      <4>4. merged[k - 1].end # NoSeq => first \in Int
        BY <2>1 DEF MergedInv
      <4> QED
        BY <4>1, <4>2, <4>3, <4>4
    <3> QED
      BY <3>1, <3>2
  <2>5. PICK low :
          /\ MergedInv(Extend(merged[k - 1], segments[k]), sent, base,
                       Upto(k - 1) \union PlacesOf(segments[k], base), low)
          /\ low <= segments[k].sequence - base
    BY <2>1, <2>3, <2>4, ExtendStep
  <2>6. MergedInv(merged[k], sent, base, Upto(k), low) /\ low <= segments[k].sequence - base
    BY <2>2, <2>3, <2>5
  <2> QED
    BY <2>6 DEF Good
<1> HIDE DEF Good
<1>3. bad = {}
  <2>1. SUFFICES ASSUME bad # {} PROVE FALSE
    OBVIOUS
  <2>2. PICK k \in bad : \A j \in bad : k <= j
    <3>1. bad \subseteq Nat
      OBVIOUS
    <3> HIDE DEF bad
    <3> QED
      BY <2>1, <3>1, LeastExists
  <2>3. k \in 0 .. n /\ ~Good(k) /\ k # 0
    BY <1>1, <2>2
  <2>4. k \in 1 .. n /\ k - 1 \in 0 .. n /\ k - 1 \notin bad
    BY <2>2, <2>3
  <2>5. Good(k - 1)
    BY <2>4
  <2> QED
    BY <1>2, <2>3, <2>4, <2>5
<1>4. Good(n)
  BY <1>3
<1>5. PICK low : MergedInv(merged[n], sent, base, Upto(n), low)
  BY <1>4 DEF Good
<1> QED
  BY <1>5 DEF MergedInv, AllPlaces

\* One entry of that function, from the one before
MergeTurn(g, segments, k) ==
  IF k = 0 THEN [bytes |-> <<>>, end |-> NoSeq] ELSE Extend(g[k - 1], segments[k])

\* The recursive function of Merged exists,
LEMMA MergedExists ==
  ASSUME NEW segments, NEW n \in Nat
  PROVE  \E g : g = [k \in 0 .. n |-> IF k = 0 THEN [bytes |-> <<>>, end |-> NoSeq] ELSE Extend(g[k - 1], segments[k])]
<1> DEFINE Good(m) == \E g : g = [k \in 0 .. m |-> MergeTurn(g, segments, k)]
           bad == {m \in 0 .. n : ~Good(m)}
<1>1. Good(0)
  <2>1. PICK g : g = [k \in 0 .. 0 |-> [bytes |-> <<>>, end |-> NoSeq]]
    OBVIOUS
  <2>2. g = [k \in 0 .. 0 |-> MergeTurn(g, segments, k)]
    <3>1. \A k \in 0 .. 0 : MergeTurn(g, segments, k) = [bytes |-> <<>>, end |-> NoSeq]
      BY DEF MergeTurn
    <3> QED
      BY <2>1, <3>1
  <2> QED
    BY <2>2
<1>2. ASSUME NEW m \in 1 .. n, Good(m - 1) PROVE Good(m)
  <2>1. PICK g : g = [k \in 0 .. m - 1 |-> MergeTurn(g, segments, k)]
    BY <1>2
  <2>2. PICK h : h = [k \in 0 .. m |-> IF k = m THEN Extend(g[m - 1], segments[m]) ELSE g[k]]
    OBVIOUS
  <2>3. ASSUME NEW k \in 0 .. m PROVE h[k] = MergeTurn(h, segments, k)
    <3>1. CASE k = 0
      BY <2>1, <2>2, <3>1 DEF MergeTurn
    <3>2. CASE k \in 1 .. m - 1
      <4>1. k - 1 \in 0 .. m - 1 /\ k - 1 \in 0 .. m /\ k - 1 # m /\ k # m /\ k # 0 /\ k \in 0 .. m - 1
        BY <3>2
      <4>2. h[k] = g[k] /\ h[k - 1] = g[k - 1] /\ g[k] = MergeTurn(g, segments, k)
        BY <2>1, <2>2, <4>1
      <4> QED
        BY <4>1, <4>2 DEF MergeTurn
    <3>3. CASE k = m
      <4>1. k - 1 \in 0 .. m /\ k - 1 # m /\ k # 0
        BY <3>3
      <4>2. h[k] = Extend(g[m - 1], segments[m]) /\ h[k - 1] = g[m - 1]
        BY <2>2, <3>3, <4>1
      <4> QED
        BY <3>3, <4>1, <4>2 DEF MergeTurn
    <3> QED
      BY <3>1, <3>2, <3>3
  <2>4. h = [k \in 0 .. m |-> MergeTurn(h, segments, k)]
    BY <2>2, <2>3
  <2> QED
    BY <2>4
<1>3. bad = {}
  <2>1. SUFFICES ASSUME bad # {} PROVE FALSE
    OBVIOUS
  <2> HIDE DEF Good
  <2>2. PICK k \in bad : \A j \in bad : k <= j
    <3>1. bad \subseteq Nat
      OBVIOUS
    <3> HIDE DEF bad
    <3> QED
      BY <2>1, <3>1, LeastExists
  <2>3. k \in 0 .. n /\ ~Good(k) /\ k # 0
    BY <1>1, <2>2
  <2>4. k \in 1 .. n /\ k - 1 \in 0 .. n /\ k - 1 \notin bad
    BY <2>2, <2>3
  <2>5. Good(k - 1)
    BY <2>4
  <2> QED
    BY <1>2, <2>3, <2>4, <2>5
<1>4. PICK g : g = [k \in 0 .. n |-> MergeTurn(g, segments, k)]
  BY <1>3
<1> QED
  BY <1>4, Zenon DEF MergeTurn

\* and does what its equation says.
LEMMA MergedDef ==
  ASSUME NEW segments, Len(segments) \in Nat
  PROVE  /\ Merged(segments)[0] = [bytes |-> <<>>, end |-> NoSeq]
         /\ \A k \in 1 .. Len(segments) : Merged(segments)[k] = Extend(Merged(segments)[k - 1], segments[k])
<1> DEFINE n == Len(segments)
           after == Merged(segments)
<1>1. \E g : g = [k \in 0 .. n |-> IF k = 0 THEN [bytes |-> <<>>, end |-> NoSeq] ELSE Extend(g[k - 1], segments[k])]
  BY MergedExists
<1>2. after = CHOOSE g : g = [k \in 0 .. n |-> IF k = 0 THEN [bytes |-> <<>>, end |-> NoSeq] ELSE Extend(g[k - 1], segments[k])]
  BY DEF Merged
<1> HIDE DEF after, n
<1>3. after = [k \in 0 .. n |-> IF k = 0 THEN [bytes |-> <<>>, end |-> NoSeq] ELSE Extend(after[k - 1], segments[k])]
  BY <1>1, <1>2
<1>4. n \in Nat
  BY DEF n
<1>5. after[0] = [bytes |-> <<>>, end |-> NoSeq]
  BY <1>3, <1>4
<1>6. ASSUME NEW k \in 1 .. n PROVE after[k] = Extend(after[k - 1], segments[k])
  BY <1>3, <1>4
<1> QED
  BY <1>5, <1>6 DEF after, n

-------------------------------------------------------------------------------
(* What is picked out of a sequence *)

\* The elements at a finite set of places are the elements that stand there, in their order.
LEMMA PickedOut ==
  ASSUME NEW seq, NEW places, IsFiniteSet(places), places \subseteq Int
  PROVE  /\ ElementsAt(seq, places) \in Seq(ToSet(ElementsAt(seq, places)))
         /\ HoldsExactly(ElementsAt(seq, places), seq, places)
<1> DEFINE before == [p \in places |-> {q \in places : q < p}]
           less == {p \in places \X places : p[1] < p[2]}
           N == Cardinality(places)
           at == [n \in 1 .. N |-> CHOOSE p \in places : Cardinality(before[p]) = n - 1]
           found == ElementsAt(seq, places)
<1>0. IsFiniteSet(places)
  OBVIOUS
<1>1. found = [n \in 1 .. N |-> seq[CHOOSE p \in places : Cardinality(before[p]) = n - 1]]
  BY DEF ElementsAt
<1>2. \A p \in places : before[p] = {q \in places : q < p}
  OBVIOUS
<1> HIDE DEF before, found
<1>3. \A p \in places : \A q \in places : <<p, q>> \in less <=> p < q
  OBVIOUS
<1> HIDE DEF less
<1>4. found = [n \in 1 .. N |-> seq[at[n]]]
  BY <1>1
<1>5. IsOrder(less, places)
  BY <1>3 DEF IsOrder
<1>6. \A r \in places : before[r] = {s \in places : <<s, r>> \in less}
  BY <1>2, <1>3
<1>16. at = [n \in 1 .. Cardinality(places) |-> CHOOSE r \in places : Cardinality(before[r]) = n - 1]
  OBVIOUS
<1> HIDE DEF at
<1>7. Enumerates(at, places, less)
  BY ONLY <1>0, <1>5, <1>6, <1>16, InCountedOrder
<1>8. /\ N \in Nat /\ at \in [1 .. N -> places]
      /\ \A p \in places : \E n \in 1 .. N : at[n] = p
      /\ \A m, n \in 1 .. N : m < n => <<at[m], at[n]>> \in less
  BY <1>7 DEF Enumerates
<1> HIDE DEF N
<1>9. \A m, n \in 1 .. N : m < n => at[m] < at[n]
  BY <1>3, <1>8
<1>10. PICK S : S = {seq[at[n]] : n \in 1 .. N}
  OBVIOUS
<1>11. found \in [1 .. N -> S]
  BY <1>4, <1>10
<1>12. found \in Seq(S) /\ Len(found) = N
  BY <1>8, <1>11, SeqDef, LenProperties
<1>13. found \in Seq(ToSet(found))
  BY <1>12, OwnElements
<1>14. \A n \in 1 .. N : found[n] = seq[at[n]]
  BY <1>4
<1>15. HoldsExactly(found, seq, places)
  BY <1>8, <1>9, <1>12, <1>14 DEF HoldsExactly
<1> QED
  BY <1>13, <1>15 DEF found

\* There is but one sequence of the bytes at these places in the order sent.
LEMMA HeldOnce ==
  ASSUME NEW sent, NEW places, places \subseteq Int,
         NEW one, one \in Seq(ToSet(one)), HoldsExactly(one, sent, places),
         NEW two, two \in Seq(ToSet(two)), HoldsExactly(two, sent, places)
  PROVE  one = two
<1> DEFINE N == Len(one)
           M == Len(two)
<1>1. N \in Nat /\ M \in Nat /\ DOMAIN one = 1 .. N /\ DOMAIN two = 1 .. M
  BY LenProperties
<1>2. PICK at \in [1 .. N -> places] :
        /\ \A p \in places : \E i \in 1 .. N : at[i] = p
        /\ \A i, j \in 1 .. N : i < j => at[i] < at[j]
        /\ \A i \in 1 .. N : one[i] = sent[at[i]]
  BY DEF HoldsExactly
<1>3. PICK to \in [1 .. M -> places] :
        /\ \A p \in places : \E i \in 1 .. M : to[i] = p
        /\ \A i, j \in 1 .. M : i < j => to[i] < to[j]
        /\ \A i \in 1 .. M : two[i] = sent[to[i]]
  BY DEF HoldsExactly
<1>12. one = [i \in 1 .. N |-> one[i]] /\ two = [i \in 1 .. M |-> two[i]]
  BY <1>1
<1> HIDE DEF N, M
<1> DEFINE bad == {i \in 1 .. N : i \in 1 .. M /\ at[i] # to[i]}
<1>4. bad = {}
  <2>1. SUFFICES ASSUME bad # {} PROVE FALSE
    OBVIOUS
  <2>2. PICK i \in bad : \A j \in bad : i <= j
    <3>1. bad \subseteq Nat
      OBVIOUS
    <3> HIDE DEF bad
    <3> QED
      BY <2>1, <3>1, LeastExists
  <2>3. i \in 1 .. N /\ i \in 1 .. M /\ at[i] # to[i] /\ at[i] \in Int /\ to[i] \in Int
    BY <1>2, <1>3, <2>2
  <2>4. \A j \in 1 .. N : j < i => j \in 1 .. M /\ at[j] = to[j]
    BY <1>1, <2>2, <2>3
  <2> HIDE DEF bad
  <2>5. PICK j \in 1 .. M : to[j] = at[i]
    BY <1>2, <1>3, <2>3
  <2>6. to[i] < at[i]
    <3>1. ~(j < i)
      <4>1. SUFFICES ASSUME j < i PROVE FALSE
        OBVIOUS
      <4>2. j \in 1 .. N /\ at[j] = to[j] /\ at[j] < at[i]
        BY <1>1, <1>2, <2>3, <2>4, <4>1
      <4> QED
        BY <2>3, <2>5, <4>2
    <3>2. i < j
      BY <1>1, <2>3, <2>5, <3>1
    <3> QED
      BY <1>3, <2>3, <2>5, <3>2
  <2>7. PICK k \in 1 .. N : at[k] = to[i]
    BY <1>2, <1>3, <2>3
  <2>8. at[i] < to[i]
    <3>1. ~(k < i)
      <4>1. SUFFICES ASSUME k < i PROVE FALSE
        OBVIOUS
      <4>2. k \in 1 .. M /\ at[k] = to[k] /\ to[k] < to[i]
        BY <1>1, <1>3, <2>3, <2>4, <4>1
      <4> QED
        BY <2>3, <2>7, <4>2
    <3>2. i < k
      BY <1>1, <2>3, <2>7, <3>1
    <3> QED
      BY <1>2, <2>3, <2>7, <3>2
  <2> QED
    BY <2>3, <2>6, <2>8
<1>5. N = M
  <2>1. ~(N < M)
    <3>1. SUFFICES ASSUME N < M PROVE FALSE
      OBVIOUS
    <3>2. PICK n \in 1 .. M : n = N + 1
      BY <1>1, <3>1
    <3>3. PICK j \in 1 .. N : at[j] = to[n]
      BY <1>2, <1>3
    <3>4. j \in 1 .. M /\ j < n /\ to[j] = at[j]
      BY <1>1, <1>4, <3>1, <3>2, <3>3
    <3>5. to[j] < to[n] /\ to[n] \in Int
      BY <1>3, <3>4
    <3> QED
      BY <3>3, <3>4, <3>5
  <2>2. ~(M < N)
    <3>1. SUFFICES ASSUME M < N PROVE FALSE
      OBVIOUS
    <3>2. PICK n \in 1 .. N : n = M + 1
      BY <1>1, <3>1
    <3>3. PICK j \in 1 .. M : to[j] = at[n]
      BY <1>2, <1>3
    <3>4. j \in 1 .. N /\ j < n /\ to[j] = at[j]
      BY <1>1, <1>4, <3>1, <3>2, <3>3, SMTT(30)
    <3>5. at[j] < at[n] /\ at[n] \in Int
      BY <1>2, <3>4
    <3> QED
      BY <3>3, <3>4, <3>5
  <2> QED
    BY <1>1, <2>1, <2>2
<1>6. \A i \in 1 .. N : one[i] = two[i]
  BY <1>2, <1>3, <1>4, <1>5
<1> QED
  BY <1>5, <1>6, <1>12

-------------------------------------------------------------------------------
(* The segments of one sender *)

\* A segment has these fields.
IsSegment(s) ==
  s = [id |-> s.id, direction |-> s.direction, proto |-> s.proto, payload |-> s.payload,
       sequence |-> s.sequence, order |-> s.order]

\* The segment of a row; segments of these rows: one of each, and no other
SegmentOf(segment, row, i) ==
  /\ segment.payload = row.bytes /\ segment.sequence = row.seq
  /\ segment.order = i /\ segment.proto = "TCP"
PartOf(part, rows, own) ==
  /\ part \in Seq(ToSet(part))
  /\ \A k \in 1 .. Len(part) : \E i \in 1 .. Len(rows) :
       rows[i] \in own /\ SegmentOf(part[k], rows[i], i)
  /\ \A i \in 1 .. Len(rows) : rows[i] \in own =>
       \E k \in 1 .. Len(part) : SegmentOf(part[k], rows[i], i)
  /\ \A j, k \in 1 .. Len(part) : part[j].order = part[k].order => j = k

\* The rows that make a segment; those of one direction
Full(rows) == {r \in ToSet(rows) : TransportPayload(r) # << >>}
OfSide(rows, anchor, d) == {r \in Full(rows) : DirectionOf(r, anchor) = d}

\* The rows of a flow, and what of them is in a segment
LEMMA RowsOfFlow ==
  ASSUME NEW rows, OneFlow(rows), rows[1].proto = "TCP"
  PROVE  /\ Len(rows) \in Nat /\ DOMAIN rows = 1 .. Len(rows)
         /\ \A i \in 1 .. Len(rows) :
              /\ rows[i] \in ToSet(rows) /\ rows[i].proto = "TCP"
              /\ rows[i].seq \in Int /\ rows[i].bytes \in Seq(ToSet(rows[i].bytes))
              /\ Sequence(rows[i]) = rows[i].seq
              /\ TransportPayload(rows[i]) # << >> =>
                   TransportPayload(rows[i]) = rows[i].bytes /\ rows[i] \in Full(rows)
<1>1. rows \in Seq(ToSet(rows)) /\ \A r \in ToSet(rows) : Typed(r) /\ SameFlow(r, rows[1])
  BY DEF OneFlow
<1>2. /\ Len(rows) \in Nat /\ DOMAIN rows = 1 .. Len(rows)
      /\ \A i \in 1 .. Len(rows) : rows[i] \in ToSet(rows)
  BY <1>1, LenProperties, ElementOfSeq
<1>3. ASSUME NEW i \in 1 .. Len(rows)
      PROVE  /\ rows[i] \in ToSet(rows) /\ rows[i].proto = "TCP"
             /\ rows[i].seq \in Int /\ rows[i].bytes \in Seq(ToSet(rows[i].bytes))
             /\ Sequence(rows[i]) = rows[i].seq
             /\ TransportPayload(rows[i]) # << >> =>
                  TransportPayload(rows[i]) = rows[i].bytes /\ rows[i] \in Full(rows)
  <2>1. rows[i] \in ToSet(rows) /\ rows[i].proto = "TCP" /\ Typed(rows[i])
    BY <1>1, <1>2 DEF SameFlow
  <2>2. rows[i].seq \in Int /\ rows[i].bytes \in Seq(ToSet(rows[i].bytes))
    BY <2>1 DEF Typed
  <2>3. Sequence(rows[i]) = rows[i].seq
    BY <2>1 DEF Sequence
  <2>4. TransportPayload(rows[i]) # << >> => TransportPayload(rows[i]) = rows[i].bytes
    BY DEF TransportPayload
  <2> QED
    BY <2>1, <2>2, <2>3, <2>4 DEF Full
<1> QED
  BY <1>2, <1>3

\* Every row that carries something makes one segment, in the order of the rows.
SegmentsAt(segments, rows, anchor, at) ==
  /\ segments \in Seq(ToSet(segments)) /\ at \in [1 .. Len(segments) -> 1 .. Len(rows)]
  /\ \A k \in 1 .. Len(segments) :
       /\ rows[at[k]] \in Full(rows) /\ SegmentOf(segments[k], rows[at[k]], at[k])
       /\ segments[k].direction = DirectionOf(rows[at[k]], anchor) /\ IsSegment(segments[k])
  /\ \A i \in 1 .. Len(rows) : rows[i] \in Full(rows) => \E k \in 1 .. Len(segments) : at[k] = i
  /\ \A j, k \in 1 .. Len(segments) : j < k => at[j] < at[k]

\* The segments of a flow are found that way.
LEMMA AllSegments ==
  ASSUME NEW rows, OneFlow(rows), rows[1].proto = "TCP", NEW anchor
  PROVE  \E at : SegmentsAt(Segments(rows, anchor), rows, anchor, at)
<1> DEFINE n == Len(rows)
           Segment(i) == [id |-> rows[i].id, direction |-> DirectionOf(rows[i], anchor),
                          proto |-> rows[i].proto, payload |-> TransportPayload(rows[i]),
                          sequence |-> Sequence(rows[i]), order |-> i]
           whole == [i \in DOMAIN rows |-> Segment(i)]
           full == {i \in DOMAIN rows : TransportPayload(rows[i]) # << >>}
           segments == Segments(rows, anchor)
<1>1. /\ n \in Nat /\ DOMAIN rows = 1 .. n
      /\ \A i \in 1 .. n :
           /\ rows[i] \in ToSet(rows) /\ rows[i].proto = "TCP" /\ Sequence(rows[i]) = rows[i].seq
           /\ TransportPayload(rows[i]) # << >> =>
                TransportPayload(rows[i]) = rows[i].bytes /\ rows[i] \in Full(rows)
  BY RowsOfFlow
<1>2. segments = ElementsAt(whole, full)
  BY DEF Segments
<1> HIDE DEF n, segments
<1>3. ASSUME NEW i \in 1 .. n
      PROVE  /\ whole[i].direction = DirectionOf(rows[i], anchor) /\ whole[i].proto = "TCP"
             /\ whole[i].payload = TransportPayload(rows[i]) /\ whole[i].sequence = rows[i].seq
             /\ whole[i].order = i /\ IsSegment(whole[i])
  <2>1. whole[i] = Segment(i)
    BY <1>1
  <2>2. /\ Segment(i).direction = DirectionOf(rows[i], anchor) /\ Segment(i).proto = rows[i].proto
        /\ Segment(i).payload = TransportPayload(rows[i]) /\ Segment(i).sequence = Sequence(rows[i])
        /\ Segment(i).order = i
    OBVIOUS
  <2>3. IsSegment(Segment(i))
    BY DEF IsSegment
  <2> HIDE DEF Segment, whole
  <2> QED
    BY <1>1, <2>1, <2>2, <2>3
<1>4. full \subseteq 1 .. n /\ \A i \in 1 .. n : i \in full <=> TransportPayload(rows[i]) # << >>
  BY <1>1
<1> HIDE DEF whole, full
<1>5. IsFiniteSet(full) /\ full \subseteq Int
  <2>1. IsFiniteSet(1 .. n)
    <3>1. 1 \in Int /\ n \in Int
      BY <1>1
    <3> QED
      BY <3>1, FS_Interval
  <2>2. 1 .. n \subseteq Int
    BY <1>1
  <2> QED
    BY <1>4, <2>1, <2>2, FS_Subset
<1>6. segments \in Seq(ToSet(segments)) /\ HoldsExactly(segments, whole, full)
  BY <1>2, <1>5, PickedOut
<1> DEFINE M == Len(segments)
<1>7. PICK at \in [1 .. M -> full] :
         /\ \A i \in full : \E k \in 1 .. M : at[k] = i
         /\ \A j, k \in 1 .. M : j < k => at[j] < at[k]
         /\ \A k \in 1 .. M : segments[k] = whole[at[k]]
  BY <1>6 DEF HoldsExactly
<1> HIDE DEF M
<1>8. ASSUME NEW k \in 1 .. M
      PROVE  /\ at[k] \in 1 .. n
             /\ rows[at[k]] \in Full(rows) /\ SegmentOf(segments[k], rows[at[k]], at[k])
             /\ segments[k].direction = DirectionOf(rows[at[k]], anchor) /\ IsSegment(segments[k])
  <2>1. PICK i \in 1 .. n : i = at[k] /\ i \in full
    BY <1>4, <1>7
  <2>2. TransportPayload(rows[i]) # << >> /\ segments[k] = whole[i]
    BY <1>4, <1>7, <2>1
  <2>3. TransportPayload(rows[i]) = rows[i].bytes /\ rows[i] \in Full(rows)
    BY <1>1, <2>2
  <2>4. /\ SegmentOf(segments[k], rows[i], i) /\ IsSegment(segments[k])
        /\ segments[k].direction = DirectionOf(rows[i], anchor)
    BY <1>3, <2>2, <2>3 DEF SegmentOf
  <2> QED
    BY <2>1, <2>3, <2>4
<1>9. \A i \in 1 .. n : rows[i] \in Full(rows) => \E k \in 1 .. M : at[k] = i
  BY <1>4, <1>7 DEF Full
<1>10. at \in [1 .. M -> 1 .. n]
  BY <1>7, <1>8
<1>11. SegmentsAt(segments, rows, anchor, at)
  BY <1>6, <1>7, <1>8, <1>9, <1>10 DEF SegmentsAt, n, M
<1> QED
  BY <1>11 DEF segments

\* A direction has the segments of the rows that go that way.
LEMMA PartOfDirection ==
  ASSUME NEW rows, OneFlow(rows), rows[1].proto = "TCP", NEW anchor, NEW d
  PROVE  PartOf(OfDirection(Segments(rows, anchor), d), rows, OfSide(rows, anchor, d))
<1> DEFINE n == Len(rows)
           segments == Segments(rows, anchor)
           own == {k \in DOMAIN segments : segments[k].direction = d}
           part == OfDirection(segments, d)
           M == Len(segments)
           K == Len(part)
<1>1. n \in Nat
  BY RowsOfFlow
<1>2. part = ElementsAt(segments, own)
  BY DEF OfDirection
<1>3. \E at : SegmentsAt(segments, rows, anchor, at)
  BY AllSegments
<1> HIDE DEF segments, own, part
<1>4. PICK at : /\ segments \in Seq(ToSet(segments)) /\ at \in [1 .. M -> 1 .. n]
                /\ \A k \in 1 .. M :
                     /\ rows[at[k]] \in Full(rows) /\ SegmentOf(segments[k], rows[at[k]], at[k])
                     /\ segments[k].direction = DirectionOf(rows[at[k]], anchor)
                /\ \A i \in 1 .. n : rows[i] \in Full(rows) => \E k \in 1 .. M : at[k] = i
                /\ \A j, k \in 1 .. M : j < k => at[j] < at[k]
  BY <1>3 DEF SegmentsAt
<1>5. M \in Nat /\ DOMAIN segments = 1 .. M
  BY <1>4, LenProperties
<1> HIDE DEF M, n
<1>6. own \subseteq 1 .. M /\ \A k \in 1 .. M : k \in own <=> segments[k].direction = d
  BY <1>5 DEF own
<1>7. IsFiniteSet(own) /\ own \subseteq Int
  <2>1. IsFiniteSet(1 .. M)
    <3>1. 1 \in Int /\ M \in Int
      BY <1>5
    <3> QED
      BY <3>1, FS_Interval
  <2>2. 1 .. M \subseteq Int
    BY <1>5
  <2> QED
    BY <1>6, <2>1, <2>2, FS_Subset
<1>8. part \in Seq(ToSet(part)) /\ HoldsExactly(part, segments, own)
  BY <1>2, <1>7, PickedOut
<1>9. PICK to \in [1 .. K -> own] :
        /\ \A k \in own : \E m \in 1 .. K : to[m] = k
        /\ \A j, k \in 1 .. K : j < k => to[j] < to[k]
        /\ \A m \in 1 .. K : part[m] = segments[to[m]]
  BY <1>8 DEF HoldsExactly
<1>10. K \in Nat
  BY <1>8, LenProperties
<1> HIDE DEF K
<1>11. ASSUME NEW m \in 1 .. K
       PROVE  /\ to[m] \in 1 .. M /\ at[to[m]] \in 1 .. n
              /\ rows[at[to[m]]] \in OfSide(rows, anchor, d)
              /\ SegmentOf(part[m], rows[at[to[m]]], at[to[m]])
  <2>1. PICK k \in 1 .. M : k = to[m] /\ k \in own
    BY <1>6, <1>9
  <2>2. part[m] = segments[k] /\ segments[k].direction = d
    BY <1>6, <1>9, <2>1
  <2>3. rows[at[k]] \in OfSide(rows, anchor, d) /\ SegmentOf(part[m], rows[at[k]], at[k])
    BY <1>4, <2>2 DEF OfSide
  <2> QED
    BY <1>4, <2>1, <2>3
<1>12. ASSUME NEW i \in 1 .. n, rows[i] \in OfSide(rows, anchor, d)
       PROVE  \E m \in 1 .. K : SegmentOf(part[m], rows[i], i)
  <2>1. rows[i] \in Full(rows) /\ DirectionOf(rows[i], anchor) = d
    BY <1>12 DEF OfSide
  <2>2. PICK k \in 1 .. M : at[k] = i
    BY <1>4, <2>1
  <2>3. segments[k].direction = d /\ SegmentOf(segments[k], rows[i], i)
    BY <1>4, <2>1, <2>2
  <2>4. PICK m \in 1 .. K : to[m] = k
    BY <1>6, <1>9, <2>3
  <2> QED
    BY <1>9, <2>3, <2>4
<1>13. ASSUME NEW j \in 1 .. K, NEW k \in 1 .. K, part[j].order = part[k].order
       PROVE  j = k
  <2>1. \A m \in 1 .. K : part[m].order = at[to[m]]
    BY <1>11 DEF SegmentOf
  <2>2. at[to[j]] = at[to[k]] /\ at[to[j]] \in Int /\ to[j] \in 1 .. M /\ to[k] \in 1 .. M
    BY <1>1, <1>11, <1>13, <2>1
  <2>3. to[j] = to[k]
    <3>1. to[j] \in Int /\ to[k] \in Int
      BY <2>2
    <3>2. ~(to[j] < to[k]) /\ ~(to[k] < to[j])
      BY <1>4, <2>2
    <3> QED
      BY <3>1, <3>2
  <2>4. ~(j < k) /\ ~(k < j)
    BY <1>9, <2>2, <2>3
  <2> QED
    BY <2>4
<1>14. PartOf(part, rows, OfSide(rows, anchor, d))
  BY <1>8, <1>11, <1>12, <1>13 DEF PartOf, n, K
<1> QED
  BY <1>14 DEF part, segments

\* The direction of a sender has its segments, whichever of the two sides is the anchor.
LEMMA PartOfSender ==
  ASSUME NEW rows, OneFlow(rows), rows[1].proto = "TCP",
         NEW s, {rows[1].from, rows[1].to} = {s.from, s.to},
         NEW anchor, anchor \in {s.from, s.to}
  PROVE  PartOf(OfDirection(Segments(rows, anchor), DirectionOf(s, anchor)), rows, Carried(rows, s))
<1>1. ASSUME NEW r \in ToSet(rows)
      PROVE  DirectionOf(r, anchor) = DirectionOf(s, anchor) <=> r.from = s.from
  <2>1. {r.from, r.to} = {s.from, s.to}
    BY DEF OneFlow, SameFlow
  <2>2. r.from \in {s.from, s.to} /\ "C->S" # "S->C"
    BY <2>1
  <2>3. CASE s.from = anchor
    BY <2>2, <2>3 DEF DirectionOf
  <2>4. CASE s.from # anchor
    <3>1. anchor = s.to
      BY <2>4
    <3> QED
      BY <2>2, <2>4, <3>1 DEF DirectionOf
  <2> QED
    BY <2>3, <2>4
<1>2. OfSide(rows, anchor, DirectionOf(s, anchor)) = Carried(rows, s)
  BY <1>1 DEF OfSide, Full, Carried
<1> QED
  BY <1>2, PartOfDirection

\* In the order of their numbers no segment is missing and none is new.
LEMMA InOrder ==
  ASSUME NEW segments, segments \in Seq(ToSet(segments)), NoSeq \notin Int,
         \A k \in 1 .. Len(segments) : segments[k].sequence \in Int /\ segments[k].order \in Int,
         \A j, k \in 1 .. Len(segments) : segments[j].order = segments[k].order => j = k
  PROVE  /\ Len(InSequence(segments)) = Len(segments)
         /\ \A m \in 1 .. Len(segments) : \E k \in 1 .. Len(segments) :
              InSequence(segments)[m] = segments[k]
         /\ \A k \in 1 .. Len(segments) : \E m \in 1 .. Len(segments) :
              InSequence(segments)[m] = segments[k]
         /\ \A l, m \in 1 .. Len(segments) :
              l < m => InSequence(segments)[l].sequence <= InSequence(segments)[m].sequence
<1> DEFINE N == Len(segments)
           P == DOMAIN segments
           Rank(s) == IF s.sequence = NoSeq THEN -1 ELSE s.sequence
           Sooner(s, t) == Rank(s) < Rank(t) \/ (Rank(s) = Rank(t) /\ s.order < t.order)
           before == [i \in P |-> {j \in P : Sooner(segments[j], segments[i])}]
           less == {p \in P \X P : Sooner(segments[p[1]], segments[p[2]])}
           at == [n \in P |-> CHOOSE i \in P : Cardinality(before[i]) = n - 1]
           t == InSequence(segments)
<1>1. t = [n \in P |-> segments[CHOOSE i \in P : Cardinality(before[i]) = n - 1]]
  BY DEF InSequence
<1>2. N \in Nat /\ P = 1 .. N
  BY LenProperties
<1>3. \A i \in P : before[i] = {j \in P : Sooner(segments[j], segments[i])}
  OBVIOUS
<1> HIDE DEF before, t
<1>4. t = [n \in P |-> segments[at[n]]] /\ at = [n \in P |-> CHOOSE i \in P : Cardinality(before[i]) = n - 1]
  BY <1>1
<1> HIDE DEF at
<1>5. \A i \in P : \A j \in P : <<i, j>> \in less <=> Sooner(segments[i], segments[j])
  OBVIOUS
<1> HIDE DEF less, Sooner, P, N
<1>6. \A k \in P : segments[k].sequence \in Int /\ segments[k].order \in Int
  BY <1>2 DEF N
<1>7. \A j \in P : \A k \in P : segments[j].order = segments[k].order => j = k
  BY <1>2 DEF N
<1>8. \A i \in P : Rank(segments[i]) = segments[i].sequence
  BY <1>6
<1> HIDE DEF Rank
<1>9. \A i \in P : \A j \in P :
        <<i, j>> \in less <=>
          \/ segments[i].sequence < segments[j].sequence
          \/ (segments[i].sequence = segments[j].sequence /\ segments[i].order < segments[j].order)
  BY <1>5, <1>8 DEF Sooner
<1>10. IsOrder(less, P)
  <2>1. \A r \in P : <<r, r>> \notin less
    BY <1>6, <1>9
  <2>2. \A r \in P : \A s \in P : r = s \/ <<r, s>> \in less \/ <<s, r>> \in less
    <3> TAKE r \in P
    <3> TAKE s \in P
    <3>1. PICK a \in Int, b \in Int, c \in Int, d \in Int :
            /\ a = segments[r].sequence /\ b = segments[s].sequence
            /\ c = segments[r].order /\ d = segments[s].order
      BY <1>6
    <3>2. /\ <<r, s>> \in less <=> a < b \/ (a = b /\ c < d)
          /\ <<s, r>> \in less <=> b < a \/ (b = a /\ d < c)
      BY <1>9, <3>1
    <3>3. c = d => r = s
      BY <1>7, <3>1
    <3> QED
      BY <3>2, <3>3
  <2>3. ASSUME NEW r \in P, NEW s \in P, NEW q \in P, <<q, r>> \in less, <<r, s>> \in less
        PROVE  <<q, s>> \in less
    <3>1. PICK a \in Int, b \in Int, c \in Int, d \in Int, e \in Int, f \in Int :
            /\ a = segments[r].sequence /\ b = segments[s].sequence /\ c = segments[q].sequence
            /\ d = segments[r].order /\ e = segments[s].order /\ f = segments[q].order
      BY <1>6
    <3>2. /\ <<q, r>> \in less <=> c < a \/ (c = a /\ f < d)
          /\ <<r, s>> \in less <=> a < b \/ (a = b /\ d < e)
          /\ <<q, s>> \in less <=> c < b \/ (c = b /\ f < e)
      BY <1>9, <3>1
    <3> QED
      BY <2>3, <3>2
  <2> QED
    BY <2>1, <2>2, <2>3 DEF IsOrder
<1>11. \A i \in P : before[i] = {j \in P : <<j, i>> \in less}
  BY <1>3, <1>5
<1>12. IsFiniteSet(P) /\ Cardinality(P) = N
  <2>1. 1 \in Int /\ N \in Int
    BY <1>2
  <2>2. IsFiniteSet(1 .. N) /\ Cardinality(1 .. N) = IF 1 > N THEN 0 ELSE N - 1 + 1
    BY <2>1, FS_Interval
  <2> QED
    BY <1>2, <2>2
<1>13. at = [n \in 1 .. Cardinality(P) |-> CHOOSE i \in P : Cardinality(before[i]) = n - 1]
  BY <1>2, <1>4, <1>12
<1>14. Enumerates(at, P, less)
  BY ONLY <1>10, <1>11, <1>12, <1>13, InCountedOrder
<1>15. /\ at \in [1 .. N -> P]
       /\ \A k \in P : \E n \in 1 .. N : at[n] = k
       /\ \A l, m \in 1 .. N : l < m => <<at[l], at[m]>> \in less
  BY <1>12, <1>14 DEF Enumerates
<1>16. \A m \in 1 .. N : t[m] = segments[at[m]] /\ at[m] \in P
  BY <1>2, <1>4, <1>15
<1>17. Len(t) = N
  <2>1. PICK S : S = {segments[at[n]] : n \in 1 .. N}
    OBVIOUS
  <2>2. t \in [1 .. N -> S]
    BY <1>2, <1>4, <2>1
  <2> QED
    BY <1>2, <2>2, SeqDef, LenProperties
<1>18. ASSUME NEW l \in 1 .. N, NEW m \in 1 .. N, l < m PROVE t[l].sequence <= t[m].sequence
  <2>1. at[l] \in P /\ at[m] \in P /\ <<at[l], at[m]>> \in less
    BY <1>15, <1>18
  <2>2. segments[at[l]].sequence <= segments[at[m]].sequence
    BY <1>6, <1>9, <2>1, SMTT(30)
  <2> QED
    BY <1>16, <2>2
<1>19. \A m \in 1 .. N : \E k \in 1 .. N : t[m] = segments[k]
  BY <1>2, <1>16
<1>20. \A k \in 1 .. N : \E m \in 1 .. N : t[m] = segments[k]
  <2> TAKE k \in 1 .. N
  <2>1. PICK m \in 1 .. N : at[m] = k
    BY <1>2, <1>15
  <2>2. t[m] = segments[k]
    BY <1>16, <2>1
  <2> QED
    BY <2>2
<1> QED
  BY <1>17, <1>18, <1>19, <1>20 DEF t, N

-------------------------------------------------------------------------------
(* What is shown of a sender *)

\* Where the rows of a sender fit into what it sent
FitsAt(rows, s, base) ==
  \A r \in Carried(rows, s) : \A i \in DOMAIN r.bytes :
    /\ r.seq + i - 1 - base \in DOMAIN s.bytes
    /\ s.bytes[r.seq + i - 1 - base] = r.bytes[i]

\* The places of the stream that are stored
KeptPlaces(rows, s) ==
  {i \in DOMAIN s.bytes : \E r \in Carried(rows, s) : s.bytes[i] \in ToSet(r.bytes)}

\* A row that carries something is one of the rows, and has a number and bytes.
LEMMA CarriedRow ==
  ASSUME NEW rows, OneFlow(rows), rows[1].proto = "TCP", NEW s, NEW r \in Carried(rows, s)
  PROVE  /\ r.seq \in Int /\ r.bytes \in Seq(ToSet(r.bytes)) /\ r.bytes # << >>
         /\ \E i \in 1 .. Len(rows) : rows[i] = r
<1>1. r \in ToSet(rows) /\ TransportPayload(r) # << >>
  BY DEF Carried
<1>2. rows \in Seq(ToSet(rows)) /\ Typed(r) /\ r.proto = "TCP"
  BY <1>1 DEF OneFlow, SameFlow
<1>3. r.seq \in Int /\ r.bytes \in Seq(ToSet(r.bytes))
  BY <1>2 DEF Typed
<1>4. r.bytes # << >>
  BY <1>1 DEF TransportPayload
<1>5. ToSet(rows) = {rows[i] : i \in 1 .. Len(rows)}
  BY <1>2, OwnElements
<1>6. \E i \in 1 .. Len(rows) : rows[i] = r
  BY <1>1, <1>5
<1> QED
  BY <1>3, <1>4, <1>6

\* Rows of one stream fit into it at one distance.
LEMMA Fitting ==
  ASSUME NEW rows, OneFlow(rows), NEW s, s.bytes \in Seq(ToSet(s.bytes)), OfOneStream(rows, s)
  PROVE  \E base \in Int : FitsAt(rows, s, base)
<1> DEFINE one == CHOOSE r \in Carried(rows, s) : TRUE
<1>1. /\ rows[1].proto = "TCP" /\ Carried(rows, s) # {}
      /\ \E i \in DOMAIN s.bytes : FitsAt(rows, s, one.seq - i)
  BY DEF OfOneStream, FitsAt
<1>2. one \in Carried(rows, s)
  BY <1>1
<1> HIDE DEF one
<1>3. one.seq \in Int
  BY <1>1, <1>2, CarriedRow
<1>4. PICK i \in DOMAIN s.bytes : FitsAt(rows, s, one.seq - i)
  BY <1>1
<1>5. i \in Int
  BY LenProperties
<1>6. one.seq - i \in Int
  BY <1>3, <1>5
<1> QED
  BY <1>4, <1>6

\* Each segment of the sender holds bytes of what it sent, at its own places.
LEMMA SegmentCarries ==
  ASSUME NEW rows, OneFlow(rows), rows[1].proto = "TCP",
         NEW s, NEW base \in Int, FitsAt(rows, s, base),
         NEW r \in Carried(rows, s), NEW i, NEW segment, SegmentOf(segment, r, i)
  PROVE  /\ Carries(segment, s.bytes, base) /\ segment.payload # << >>
         /\ PlacesOf(segment, base) \subseteq DOMAIN s.bytes
         /\ \A p \in PlacesOf(segment, base) : s.bytes[p] \in ToSet(r.bytes)
         /\ \A b \in ToSet(r.bytes) : \E p \in PlacesOf(segment, base) : s.bytes[p] = b
<1> DEFINE N == Len(r.bytes)
<1>1. r.seq \in Int /\ r.bytes \in Seq(ToSet(r.bytes)) /\ r.bytes # << >>
  BY CarriedRow
<1>2. segment.payload = r.bytes /\ segment.sequence = r.seq
  BY DEF SegmentOf
<1>3. N \in Nat /\ DOMAIN r.bytes = 1 .. N /\ ToSet(r.bytes) = {r.bytes[k] : k \in 1 .. N}
  BY <1>1, LenProperties, OwnElements
<1>4. ASSUME NEW k \in 1 .. N
      PROVE  /\ r.seq + k - 1 - base \in DOMAIN s.bytes
             /\ s.bytes[r.seq + k - 1 - base] = r.bytes[k]
  BY <1>3 DEF FitsAt
<1> HIDE DEF N
<1>5. ASSUME NEW k \in 1 .. N
      PROVE  /\ r.seq - base + k - 1 \in DOMAIN s.bytes
             /\ s.bytes[r.seq - base + k - 1] = r.bytes[k]
  <2>1. r.seq - base + k - 1 = r.seq + k - 1 - base
    BY <1>1
  <2> QED
    BY <1>4, <2>1
<1>6. Carries(segment, s.bytes, base)
  <2>1. \A k \in 1 .. N : r.bytes[k] = s.bytes[r.seq - base + k - 1]
    BY <1>5
  <2> QED
    BY <1>1, <1>2, <2>1 DEF Carries, N
<1>7. PlacesOf(segment, base) = r.seq - base .. r.seq - base + N - 1
  BY <1>2 DEF PlacesOf, N
<1>8. ASSUME NEW p \in PlacesOf(segment, base)
      PROVE  p \in DOMAIN s.bytes /\ s.bytes[p] \in ToSet(r.bytes)
  <2>1. PICK k \in 1 .. N : p = r.seq - base + k - 1
    <3>1. PICK q \in Int : q = r.seq - base
      BY <1>1
    <3>2. p \in q .. q + N - 1
      BY <1>7, <3>1
    <3>3. p - q + 1 \in 1 .. N /\ p = q + (p - q + 1) - 1
      BY <1>3, <3>2
    <3> QED
      BY <3>1, <3>3
  <2>2. r.bytes[k] \in ToSet(r.bytes)
    BY <1>3
  <2> QED
    BY <1>5, <2>1, <2>2
<1>9. ASSUME NEW b \in ToSet(r.bytes)
      PROVE  \E p \in PlacesOf(segment, base) : s.bytes[p] = b
  <2>1. PICK k \in 1 .. N : r.bytes[k] = b
    BY <1>3
  <2>2. r.seq - base + k - 1 \in PlacesOf(segment, base)
    BY <1>1, <1>3, <1>7
  <2> QED
    BY <1>5, <2>1, <2>2
<1> QED
  BY <1>1, <1>2, <1>6, <1>8, <1>9

\* The merged bytes of a sender are those of it that are stored.
LEMMA MergedIsKept ==
  ASSUME MergeAssumption, NEW rows, OneFlow(rows), NEW s,
         s.bytes \in Seq(ToSet(s.bytes)), IsInjective(s.bytes), OfOneStream(rows, s),
         NEW part, PartOf(part, rows, Carried(rows, s))
  PROVE  MergeDirection(part) = KeptOf(rows, s)
<1> DEFINE K == Len(part)
           t == InSequence(part)
           merged == Merged(t)
           kept == KeptPlaces(rows, s)
<1>0. NoSeq \notin Int
  BY MergeAssumption
<1>1. rows[1].proto = "TCP" /\ Carried(rows, s) # {}
  BY DEF OfOneStream
<1>2. PICK base \in Int : FitsAt(rows, s, base)
  BY Fitting
<1>3. /\ part \in Seq(ToSet(part))
      /\ \A k \in 1 .. K : \E i \in 1 .. Len(rows) :
           rows[i] \in Carried(rows, s) /\ SegmentOf(part[k], rows[i], i)
      /\ \A i \in 1 .. Len(rows) : rows[i] \in Carried(rows, s) =>
           \E k \in 1 .. K : SegmentOf(part[k], rows[i], i)
      /\ \A j, k \in 1 .. K : part[j].order = part[k].order => j = k
  BY DEF PartOf
<1>4. K \in Nat /\ Len(rows) \in Nat
  <2>1. rows \in Seq(ToSet(rows))
    BY DEF OneFlow
  <2> QED
    BY <1>3, <2>1, LenProperties
<1> DEFINE held == AllPlaces(t, K, base)
<1>5. K # 0 /\ part # << >> /\ Head(part).proto = "TCP"
  <2>1. PICK r : r \in Carried(rows, s)
    BY <1>1
  <2>2. PICK i \in 1 .. Len(rows) : rows[i] = r
    BY <1>1, <2>1, CarriedRow
  <2>3. PICK k \in 1 .. K : SegmentOf(part[k], rows[i], i)
    BY <1>3, <2>1, <2>2
  <2>4. K # 0 /\ 1 \in 1 .. K
    BY <1>4
  <2>5. part # << >>
    BY <1>3, <2>4, NoElements
  <2>6. part[1].proto = "TCP"
    <3>1. \E j \in 1 .. Len(rows) : SegmentOf(part[1], rows[j], j)
      BY <1>3, <2>4
    <3> QED
      BY <3>1 DEF SegmentOf
  <2>7. Head(part) = part[1]
    BY <1>3, <2>5, HeadTailProperties
  <2> QED
    BY <2>4, <2>5, <2>6, <2>7
<1>6. MergeDirection(part) = merged[K].bytes
  BY <1>5 DEF MergeDirection
<1>7. \A k \in 1 .. K : part[k].sequence \in Int /\ part[k].order \in Int
  <2> TAKE k \in 1 .. K
  <2>1. PICK i \in 1 .. Len(rows) : rows[i] \in Carried(rows, s) /\ SegmentOf(part[k], rows[i], i)
    BY <1>3
  <2>2. rows[i].seq \in Int /\ i \in Int
    BY <1>1, <1>4, <2>1, CarriedRow
  <2> QED
    BY <2>1, <2>2 DEF SegmentOf
<1>8. /\ Len(t) = K
      /\ \A m \in 1 .. K : \E k \in 1 .. K : t[m] = part[k]
      /\ \A k \in 1 .. K : \E m \in 1 .. K : t[m] = part[k]
      /\ \A l, m \in 1 .. K : l < m => t[l].sequence <= t[m].sequence
  BY <1>0, <1>3, <1>7, InOrder
<1>9. Merging(merged, t, K)
  <2>1. Len(t) \in Nat
    BY <1>4, <1>8
  <2>2. /\ merged[0] = [bytes |-> << >>, end |-> NoSeq]
        /\ \A k \in 1 .. Len(t) : merged[k] = Extend(merged[k - 1], t[k])
    BY <2>1, MergedDef
  <2> QED
    BY <1>8, <2>2 DEF Merging
<1> HIDE DEF K, t, merged, kept
<1>10. ASSUME NEW m \in 1 .. K
       PROVE  /\ Carries(t[m], s.bytes, base) /\ t[m].payload # << >>
              /\ \A p \in PlacesOf(t[m], base) : p \in kept
  <2>1. PICK k \in 1 .. K : t[m] = part[k]
    BY <1>8
  <2>2. PICK i \in 1 .. Len(rows) : rows[i] \in Carried(rows, s) /\ SegmentOf(part[k], rows[i], i)
    BY <1>3
  <2>3. /\ Carries(t[m], s.bytes, base) /\ t[m].payload # << >>
        /\ PlacesOf(t[m], base) \subseteq DOMAIN s.bytes
        /\ \A p \in PlacesOf(t[m], base) : s.bytes[p] \in ToSet(rows[i].bytes)
    BY <1>1, <1>2, <2>1, <2>2, SegmentCarries
  <2> QED
    BY <2>2, <2>3 DEF kept, KeptPlaces
<1>11. held = kept
  <2>1. ASSUME NEW p \in kept PROVE p \in held
    <3>1. PICK r \in Carried(rows, s) : p \in DOMAIN s.bytes /\ s.bytes[p] \in ToSet(r.bytes)
      BY DEF kept, KeptPlaces
    <3>2. PICK i \in 1 .. Len(rows) : rows[i] = r
      BY <1>1, CarriedRow
    <3>3. PICK k \in 1 .. K : SegmentOf(part[k], rows[i], i)
      BY <1>3, <3>2
    <3>4. PICK m \in 1 .. K : t[m] = part[k]
      BY <1>8
    <3>5. SegmentOf(t[m], r, i)
      BY <3>2, <3>3, <3>4
    <3>6. /\ PlacesOf(t[m], base) \subseteq DOMAIN s.bytes
          /\ \A b \in ToSet(r.bytes) : \E q \in PlacesOf(t[m], base) : s.bytes[q] = b
      BY <1>1, <1>2, <3>5, SegmentCarries, SMTT(30)
    <3>7. PICK q \in PlacesOf(t[m], base) : s.bytes[q] = s.bytes[p]
      BY <3>1, <3>6
    <3>8. q = p
      BY <3>1, <3>6, <3>7 DEF IsInjective
    <3> QED
      BY <3>4, <3>7, <3>8 DEF AllPlaces
  <2>2. ASSUME NEW p \in held PROVE p \in kept
    BY <1>10 DEF AllPlaces
  <2> HIDE DEF held
  <2> QED
    BY <2>1, <2>2
<1>12. merged[K].bytes \in Seq(ToSet(merged[K].bytes)) /\ HoldsExactly(merged[K].bytes, s.bytes, held)
  <2>1. \A m \in 1 .. K : Carries(t[m], s.bytes, base) /\ t[m].payload # << >>
    BY <1>10
  <2>2. \A m \in 1 .. K : m > 1 => t[m - 1].sequence <= t[m].sequence
    <3> TAKE m \in 1 .. K
    <3> HAVE m > 1
    <3>1. PICK l \in 1 .. K : l = m - 1
      BY <1>4
    <3>2. l < m
      BY <3>1
    <3> QED
      BY <1>8, <3>1, <3>2
  <2>3. base \in Int /\ K \in Nat
    BY <1>4 DEF K
  <2>4. InTurn(t, K, s.bytes, base)
    BY <2>1, <2>2 DEF InTurn
  <2> QED
    BY ONLY <1>0, <1>9, <2>3, <2>4, MergeIsExact
<1>13. /\ KeptOf(rows, s) \in Seq(ToSet(KeptOf(rows, s)))
       /\ HoldsExactly(KeptOf(rows, s), s.bytes, kept) /\ kept \subseteq Int
  <2>1. KeptOf(rows, s) = ElementsAt(s.bytes, kept)
    BY DEF KeptOf, kept, KeptPlaces
  <2>2. IsFiniteSet(kept) /\ kept \subseteq Int
    <3>1. kept \subseteq 1 .. Len(s.bytes) /\ Len(s.bytes) \in Nat
      BY LenProperties DEF kept, KeptPlaces
    <3>2. 1 \in Int /\ Len(s.bytes) \in Int
      BY <3>1
    <3>3. IsFiniteSet(1 .. Len(s.bytes)) /\ 1 .. Len(s.bytes) \subseteq Int
      BY <3>1, <3>2, FS_Interval
    <3> QED
      BY <3>1, <3>3, FS_Subset
  <2> QED
    BY <2>1, <2>2, PickedOut
<1> QED
  BY <1>6, <1>11, <1>12, <1>13, HeldOnce DEF K, merged, t

\* An exported flow, put in the order of time, is one flow.
LEMMA ExportedFlow ==
  ASSUME NEW rows, IsFiniteSet(rows), \A r \in rows : Sound(r),
         \A r \in rows : \A s \in rows : r.id = s.id => r = s,
         NEW flow \in FlowsOf(rows)
  PROVE  OneFlow(ByTime(flow))
<1> DEFINE N == Cardinality(flow)
           t == ByTime(flow)
<1>1. PICK seed \in rows : flow = {r \in rows : SameFlow(r, seed)}
  BY DEF FlowsOf
<1>2. seed \in flow
  BY <1>1 DEF SameFlow
<1>3. IsFiniteSet(flow)
  BY <1>1, FS_Subset
<1>4. \A r \in flow : Sound(r) /\ SameFlow(r, seed)
  BY <1>1
<1>5. \A r \in flow : r.ts \in Int /\ Number(r) \in Int
  BY <1>4 DEF Sound, Typed, Number
<1>6. ASSUME NEW r \in flow, NEW s \in flow, Number(r) = Number(s) PROVE r = s
  <2>1. r.source = s.source /\ Sound(r) /\ Sound(s)
    BY <1>4 DEF SameFlow
  <2>2. /\ r.id \in Int /\ s.id \in Int
        /\ (r.id > 0 /\ s.id > 0) \/ (r.id < 0 /\ s.id < 0)
    BY <2>1 DEF Sound
  <2>3. r.id = s.id
    BY <1>6, <2>2 DEF Number
  <2> QED
    BY <1>1, <2>3
<1>7. \A r \in flow : \A s \in flow : r.ts = s.ts /\ Number(r) = Number(s) => r = s
  BY <1>6
<1>8. /\ t \in Seq(flow) /\ Len(t) = N /\ N \in Nat
      /\ \A r \in flow : \E n \in 1 .. N : t[n] = r
  BY ONLY <1>3, <1>5, <1>7, InTime
<1> HIDE DEF t, N
<1>9. t \in Seq(ToSet(t)) /\ ToSet(t) \subseteq flow /\ ToSet(t) = {t[i] : i \in 1 .. Len(t)}
  BY <1>8, OwnElements
<1>10. PICK n \in 1 .. N : t[n] = seed
  BY <1>2, <1>8
<1>11. t # << >> /\ t[1] \in ToSet(t)
  <2>1. 1 \in 1 .. Len(t)
    BY <1>8, <1>10
  <2> QED
    BY <1>8, <1>9, <2>1, NoElements
<1>12. \A r, s : SameFlow(r, seed) /\ SameFlow(s, seed) => SameFlow(r, s)
  BY DEF SameFlow
<1>13. \A r \in ToSet(t) : Typed(r) /\ SameFlow(r, t[1])
  BY <1>4, <1>9, <1>11, <1>12 DEF Sound
<1>14. OneFlow(t)
  BY <1>9, <1>11, <1>13 DEF OneFlow
<1> QED
  BY <1>14 DEF t

\* Everything that is shown is one flow.
LEMMA ShownFlows ==
  ASSUME ShownInv, NEW f \in Shown
  PROVE  OneFlow(f.rows)
<1>1. CASE window # None /\ f = [rows |-> window.rows, anchor |-> window.anchor]
  BY <1>1 DEF ShownInv, FlowInv
<1>2. CASE f \in Exported
  <2> DEFINE rows == {r.row : r \in export.rows}
  <2>1. export.at = "done" /\ \E flow \in FlowsOf(rows) : f.rows = ByTime(flow)
    BY <1>2 DEF Exported
  <2>2. /\ IsFiniteSet(export.rows) /\ \A r \in export.rows : Sound(r.row)
        /\ \A r, s \in export.rows : r.row.id = s.row.id => r = s
    BY <2>1 DEF ShownInv, ExportInv
  <2>3. IsFiniteSet(rows)
    <3>1. PICK g : g = [r \in export.rows |-> r.row]
      OBVIOUS
    <3>2. IsFiniteSet({g[r] : r \in export.rows})
      BY <2>2, ImageFinite
    <3>3. {g[r] : r \in export.rows} = rows
      BY <3>1
    <3> QED
      BY <3>2, <3>3
  <2>4. \A r \in rows : Sound(r)
    BY <2>2
  <2>5. \A r \in rows : \A s \in rows : r.id = s.id => r = s
    BY <2>2
  <2> HIDE DEF rows
  <2>6. \A flow \in FlowsOf(rows) : OneFlow(ByTime(flow))
    BY ONLY <2>3, <2>4, <2>5, ExportedFlow
  <2> QED
    BY <2>1, <2>6
<1> QED
  BY <1>1, <1>2 DEF Shown

\* What was sent: bytes, no two of them the same.
LEMMA SentBytes ==
  ASSUME WorkbenchAssumption, NEW s \in Sent
  PROVE  s.bytes \in Seq(ToSet(s.bytes)) /\ IsInjective(s.bytes)
BY DEF WorkbenchAssumption

\* What is shown of a sender is what is stored of it.
LEMMA ShownExactly ==
  ASSUME WorkbenchAssumption, MergeAssumption, ShownInv
  PROVE  StreamExact
<1> SUFFICES ASSUME NEW f \in Shown, NEW s \in {t \in Sent : OfOneStream(f.rows, t)},
                    f.anchor \in {s.from, s.to}
             PROVE  KeptOf(f.rows, s) = IF s.from = f.anchor THEN Analysis(f.rows, f.anchor).client
                                        ELSE Analysis(f.rows, f.anchor).server
  BY DEF StreamExact
<1> DEFINE rows == f.rows
           segments == Segments(rows, f.anchor)
           part == OfDirection(segments, DirectionOf(s, f.anchor))
<1>1. s \in Sent /\ OfOneStream(rows, s)
  OBVIOUS
<1>2. OneFlow(rows)
  BY ShownFlows
<1>3. s.bytes \in Seq(ToSet(s.bytes)) /\ IsInjective(s.bytes)
  BY <1>1, SentBytes
<1>4. rows[1].proto = "TCP" /\ {rows[1].from, rows[1].to} = {s.from, s.to}
  BY <1>1 DEF OfOneStream
<1>5. PartOf(part, rows, Carried(rows, s))
  BY <1>2, <1>4, PartOfSender
<1>6. MergeDirection(part) = KeptOf(rows, s)
  BY ONLY <1>1, <1>2, <1>3, <1>5, MergeAssumption, MergedIsKept
<1>7. /\ Analysis(rows, f.anchor).client = MergeDirection(OfDirection(segments, "C->S"))
      /\ Analysis(rows, f.anchor).server = MergeDirection(OfDirection(segments, "S->C"))
  BY DEF Analysis
<1>8. part = IF s.from = f.anchor THEN OfDirection(segments, "C->S") ELSE OfDirection(segments, "S->C")
  BY DEF DirectionOf
<1> HIDE DEF segments, part
<1> QED
  BY <1>6, <1>7, <1>8

\* StreamExact: what an open flow window or a finished export shows of a sender is what
\* was stored of it, every byte once and in the order it was sent.
THEOREM StreamIsExact == WorkbenchSpec => []StreamExact
<1>1. WorkbenchInit => ShownInv
  BY ShownInit
<1>2. ShownInv /\ [WorkbenchNext]_workbenchVars => ShownInv'
  BY ShownStep, WorkbenchAssumption
<1>3. ShownInv => StreamExact
  BY ShownExactly, WorkbenchAssumption, MergeAssumption
<1> QED
  BY <1>1, <1>2, <1>3, PTL DEF WorkbenchSpec

-------------------------------------------------------------------------------
(* A finite set as a sequence *)

\* One entry of the function of Listing, from the one before
ListingTurn(g, S, k) ==
  IF k = 0 THEN [list |-> << >>, left |-> S]
  ELSE LET x == CHOOSE x \in g[k - 1].left : TRUE
       IN  [list |-> Append(g[k - 1].list, x), left |-> g[k - 1].left \ {x}]

\* The recursive function of Listing exists,
LEMMA ListingExists ==
  ASSUME NEW S, NEW n \in Nat
  PROVE  \E g : g = [k \in 0 .. n |-> ListingTurn(g, S, k)]
<1> DEFINE Good(m) == \E g : g = [k \in 0 .. m |-> ListingTurn(g, S, k)]
           bad == {m \in 0 .. n : ~Good(m)}
<1>1. Good(0)
  <2>1. PICK g : g = [k \in 0 .. 0 |-> [list |-> << >>, left |-> S]]
    OBVIOUS
  <2>2. g = [k \in 0 .. 0 |-> ListingTurn(g, S, k)]
    <3>1. \A k \in 0 .. 0 : ListingTurn(g, S, k) = [list |-> << >>, left |-> S]
      BY DEF ListingTurn
    <3> QED
      BY <2>1, <3>1
  <2> QED
    BY <2>2
<1>2. ASSUME NEW m \in 1 .. n, Good(m - 1) PROVE Good(m)
  <2>1. PICK g : g = [k \in 0 .. m - 1 |-> ListingTurn(g, S, k)]
    BY <1>2
  <2>2. PICK h : h = [k \in 0 .. m |-> IF k = m THEN ListingTurn(g, S, m) ELSE g[k]]
    OBVIOUS
  <2>3. \A e, f, k : e[k - 1] = f[k - 1] => ListingTurn(e, S, k) = ListingTurn(f, S, k)
    BY DEF ListingTurn
  <2>4. \A e, f : ListingTurn(e, S, 0) = ListingTurn(f, S, 0)
    BY DEF ListingTurn
  <2>5. ASSUME NEW k \in 0 .. m PROVE h[k] = ListingTurn(h, S, k)
    <3>1. CASE k = 0
      BY <2>1, <2>2, <2>4, <3>1
    <3>2. CASE k \in 1 .. m - 1
      <4>1. k - 1 \in 0 .. m - 1 /\ k - 1 \in 0 .. m /\ k - 1 # m /\ k # m /\ k \in 0 .. m - 1
        BY <3>2
      <4>2. h[k] = g[k] /\ h[k - 1] = g[k - 1] /\ g[k] = ListingTurn(g, S, k)
        BY <2>1, <2>2, <4>1
      <4> QED
        BY <2>3, <4>2
    <3>3. CASE k = m
      <4>1. k - 1 \in 0 .. m /\ k - 1 # m
        BY <3>3
      <4>2. h[k] = ListingTurn(g, S, k) /\ h[k - 1] = g[k - 1]
        BY <2>2, <3>3, <4>1
      <4> QED
        BY <2>3, <4>2
    <3> QED
      BY <3>1, <3>2, <3>3
  <2>6. h = [k \in 0 .. m |-> ListingTurn(h, S, k)]
    BY <2>2, <2>5
  <2> QED
    BY <2>6
<1>3. bad = {}
  <2>1. SUFFICES ASSUME bad # {} PROVE FALSE
    OBVIOUS
  <2> HIDE DEF Good
  <2>2. PICK k \in bad : \A j \in bad : k <= j
    <3>1. bad \subseteq Nat
      OBVIOUS
    <3> HIDE DEF bad
    <3> QED
      BY <2>1, <3>1, LeastExists
  <2>3. k \in 0 .. n /\ ~Good(k) /\ k # 0
    BY <1>1, <2>2
  <2>4. k \in 1 .. n /\ k - 1 \in 0 .. n /\ k - 1 \notin bad
    BY <2>2, <2>3
  <2>5. Good(k - 1)
    BY <2>4
  <2> QED
    BY <1>2, <2>3, <2>4, <2>5
<1> QED
  BY <1>3

\* and lists the set.
LEMMA ListedHolds ==
  ASSUME NEW S, IsFiniteSet(S)
  PROVE  Listed(S) \in Seq(ToSet(Listed(S))) /\ ToSet(Listed(S)) = S
<1> DEFINE N == Cardinality(S)
           after == Listing(S)
           Good(k) == /\ after[k].list \in Seq(ToSet(after[k].list))
                      /\ after[k].left \subseteq S /\ Cardinality(after[k].left) = N - k
                      /\ ToSet(after[k].list) = S \ after[k].left
           bad == {k \in 0 .. N : ~Good(k)}
<1>1. N \in Nat
  BY FS_CardinalityType
<1>2. after = CHOOSE g : g = [k \in 0 .. N |-> ListingTurn(g, S, k)]
  BY Zenon DEF Listing, ListingTurn
<1> HIDE DEF after, N
<1>3. \E g : g = [k \in 0 .. N |-> ListingTurn(g, S, k)]
  BY <1>1, ListingExists
<1>4. after = [k \in 0 .. N |-> ListingTurn(after, S, k)]
  BY <1>2, <1>3
<1>5. after[0] = [list |-> << >>, left |-> S]
  BY <1>1, <1>4 DEF ListingTurn
<1>6. ASSUME NEW k \in 1 .. N
      PROVE  LET x == CHOOSE x \in after[k - 1].left : TRUE
             IN  after[k] = [list |-> Append(after[k - 1].list, x), left |-> after[k - 1].left \ {x}]
  <2>1. k \in 0 .. N /\ k # 0
    BY <1>1
  <2> QED
    BY <1>4, <2>1, Zenon DEF ListingTurn
<1>7. Good(0)
  BY <1>1, <1>5, NoElements DEF N
<1>8. ASSUME NEW k \in 1 .. N, Good(k - 1) PROVE Good(k)
  <2>1. PICK m : m = after[k - 1]
    OBVIOUS
  <2>2. PICK x : x = CHOOSE y \in m.left : TRUE
    OBVIOUS
  <2>3. after[k] = [list |-> Append(m.list, x), left |-> m.left \ {x}]
    BY <1>6, <2>1, <2>2
  <2>4. /\ m.list \in Seq(ToSet(m.list)) /\ m.left \subseteq S /\ Cardinality(m.left) = N - (k - 1)
        /\ ToSet(m.list) = S \ m.left
    BY <1>8, <2>1
  <2>5. IsFiniteSet(m.left) /\ m.left # {}
    <3>1. N - (k - 1) # 0
      BY <1>1
    <3> QED
      BY <2>4, <3>1, FS_Subset, FS_EmptySet
  <2>6. x \in m.left
    BY <2>2, <2>5
  <2>7. Cardinality(m.left \ {x}) = N - k
    <3>1. Cardinality(m.left \ {x}) = Cardinality(m.left) - 1
      BY <2>5, <2>6, FS_RemoveElement
    <3> QED
      BY <1>1, <2>4, <3>1
  <2>8. /\ Append(m.list, x) \in Seq(ToSet(Append(m.list, x)))
        /\ ToSet(Append(m.list, x)) = ToSet(m.list) \union {x}
    BY <2>4, Appended
  <2>9. ToSet(Append(m.list, x)) = S \ (m.left \ {x})
    BY <2>4, <2>6, <2>8
  <2>10. after[k].list = Append(m.list, x) /\ after[k].left = m.left \ {x}
    BY <2>3
  <2> QED
    BY <2>4, <2>7, <2>8, <2>9, <2>10
<1> HIDE DEF Good
<1>9. bad = {}
  <2>1. SUFFICES ASSUME bad # {} PROVE FALSE
    OBVIOUS
  <2>2. PICK k \in bad : \A j \in bad : k <= j
    <3>1. bad \subseteq Nat
      BY <1>1
    <3> HIDE DEF bad
    <3> QED
      BY <2>1, <3>1, LeastExists
  <2>3. k \in 0 .. N /\ ~Good(k) /\ k # 0
    BY <1>7, <2>2
  <2>4. k \in 1 .. N /\ k - 1 \in 0 .. N /\ k - 1 \notin bad
    BY <1>1, <2>2, <2>3
  <2>5. Good(k - 1)
    BY <2>4
  <2> QED
    BY <1>8, <2>3, <2>4, <2>5
<1>10. Good(N)
  BY <1>1, <1>9
<1>11. after[N].left = {}
  <2>1. IsFiniteSet(after[N].left) /\ Cardinality(after[N].left) = 0
    <3>1. after[N].left \subseteq S /\ Cardinality(after[N].left) = N - N
      BY <1>10 DEF Good
    <3>2. IsFiniteSet(after[N].left)
      BY <3>1, FS_Subset
    <3> QED
      BY <1>1, <3>1, <3>2
  <2> QED
    BY <2>1, FS_EmptySet
<1>12. Listed(S) = after[N].list
  BY DEF Listed, after, N
<1> QED
  BY <1>10, <1>11, <1>12 DEF Good

\* Concatenation keeps the elements of both.
LEMMA Concatenated ==
  ASSUME NEW s, s \in Seq(ToSet(s)), NEW t, t \in Seq(ToSet(t))
  PROVE  s \o t \in Seq(ToSet(s \o t)) /\ ToSet(s \o t) = ToSet(s) \union ToSet(t)
<1> DEFINE S == ToSet(s) \union ToSet(t)
           N == Len(s)
           M == Len(t)
           all == s \o t
<1>1. s \in Seq(S) /\ t \in Seq(S)
  BY SeqMonotonic
<1>2. /\ N \in Nat /\ M \in Nat
      /\ ToSet(s) = {s[i] : i \in 1 .. N} /\ ToSet(t) = {t[i] : i \in 1 .. M}
  BY OwnElements
<1> HIDE DEF S
<1>3. /\ all \in Seq(S) /\ Len(all) = N + M
      /\ \A i \in 1 .. N + M : all[i] = IF i <= N THEN s[i] ELSE t[i - N]
  BY <1>1, ConcatProperties
<1> HIDE DEF all, N, M
<1>4. all \in Seq(ToSet(all)) /\ ToSet(all) \subseteq S /\ ToSet(all) = {all[i] : i \in 1 .. N + M}
  BY <1>3, OwnElements
<1>5. ASSUME NEW x \in S PROVE x \in ToSet(all)
  <2>1. CASE x \in ToSet(s)
    <3>1. PICK i \in 1 .. N : s[i] = x
      BY <1>2, <2>1
    <3>2. i \in 1 .. N + M /\ all[i] = x
      BY <1>2, <1>3, <3>1
    <3> QED
      BY <1>4, <3>2
  <2>2. CASE x \in ToSet(t)
    <3>1. PICK i \in 1 .. M : t[i] = x
      BY <1>2, <2>2
    <3>2. PICK j \in 1 .. N + M : j = N + i
      BY <1>2
    <3>3. ~(j <= N) /\ j - N = i
      BY <1>2, <3>2
    <3>4. all[j] = x
      BY <1>3, <3>1, <3>3
    <3> QED
      BY <1>4, <3>4
  <2> QED
    BY <2>1, <2>2 DEF S
<1> QED
  BY <1>4, <1>5 DEF all, S

-------------------------------------------------------------------------------
(* Strings put together from pieces *)

\* One entry of the function of Pieced, from the one before
PiecedTurn(g, part, k) ==
  IF k = 0 THEN [parts |-> << >>, last |-> 0, done |-> << >>] ELSE Piecewise(g[k - 1], part[k])

\* The recursive function of Pieced exists,
LEMMA PiecedExists ==
  ASSUME NEW part, NEW n \in Nat
  PROVE  \E g : g = [k \in 0 .. n |-> PiecedTurn(g, part, k)]
<1> DEFINE Good(m) == \E g : g = [k \in 0 .. m |-> PiecedTurn(g, part, k)]
           bad == {m \in 0 .. n : ~Good(m)}
<1>0. /\ \A e, f, k : e[k - 1] = f[k - 1] => PiecedTurn(e, part, k) = PiecedTurn(f, part, k)
      /\ \A e, f : PiecedTurn(e, part, 0) = PiecedTurn(f, part, 0)
  BY DEF PiecedTurn
<1>1. Good(0)
  <2>1. PICK e : e = [k \in {} |-> 0]
    OBVIOUS
  <2>2. PICK g : g = [k \in 0 .. 0 |-> PiecedTurn(e, part, 0)]
    OBVIOUS
  <2>3. g = [k \in 0 .. 0 |-> PiecedTurn(g, part, k)]
    <3>1. \A k \in 0 .. 0 : PiecedTurn(g, part, k) = PiecedTurn(e, part, 0)
      BY <1>0
    <3> QED
      BY <2>2, <3>1
  <2> QED
    BY <2>3
<1>2. ASSUME NEW m \in 1 .. n, Good(m - 1) PROVE Good(m)
  <2>1. PICK g : g = [k \in 0 .. m - 1 |-> PiecedTurn(g, part, k)]
    BY <1>2
  <2>2. PICK h : h = [k \in 0 .. m |-> IF k = m THEN PiecedTurn(g, part, m) ELSE g[k]]
    OBVIOUS
  <2>3. ASSUME NEW k \in 0 .. m PROVE h[k] = PiecedTurn(h, part, k)
    <3>1. CASE k = 0
      BY <1>0, <2>1, <2>2, <3>1
    <3>2. CASE k \in 1 .. m - 1
      <4>1. k - 1 \in 0 .. m - 1 /\ k - 1 \in 0 .. m /\ k - 1 # m /\ k # m /\ k \in 0 .. m - 1
        BY <3>2
      <4>2. h[k] = g[k] /\ h[k - 1] = g[k - 1] /\ g[k] = PiecedTurn(g, part, k)
        BY <2>1, <2>2, <4>1
      <4> QED
        BY <1>0, <4>2
    <3>3. CASE k = m
      <4>1. k - 1 \in 0 .. m /\ k - 1 # m
        BY <3>3
      <4>2. h[k] = PiecedTurn(g, part, k) /\ h[k - 1] = g[k - 1]
        BY <2>2, <3>3, <4>1
      <4> QED
        BY <1>0, <4>2
    <3> QED
      BY <3>1, <3>2, <3>3
  <2>4. h = [k \in 0 .. m |-> PiecedTurn(h, part, k)]
    BY <2>2, <2>3
  <2> QED
    BY <2>4
<1>3. bad = {}
  <2>1. SUFFICES ASSUME bad # {} PROVE FALSE
    OBVIOUS
  <2> HIDE DEF Good
  <2>2. PICK k \in bad : \A j \in bad : k <= j
    <3>1. bad \subseteq Nat
      OBVIOUS
    <3> HIDE DEF bad
    <3> QED
      BY <2>1, <3>1, LeastExists
  <2>3. k \in 0 .. n /\ ~Good(k) /\ k # 0
    BY <1>1, <2>2
  <2>4. k \in 1 .. n /\ k - 1 \in 0 .. n /\ k - 1 \notin bad
    BY <2>2, <2>3
  <2>5. Good(k - 1)
    BY <2>4
  <2> QED
    BY <1>2, <2>3, <2>4, <2>5
<1> QED
  BY <1>3

\* A string that is done with is one more in the sequence of those.
LEMMA ClosedHolds ==
  ASSUME NEW m, m.done \in Seq(ToSet(m.done))
  PROVE  Closed(m) \in Seq(ToSet(Closed(m)))
<1>1. Append(m.done, m.parts) \in Seq(ToSet(Append(m.done, m.parts)))
  BY Appended
<1> QED
  BY <1>1 DEF Closed

\* and puts together finitely many strings.
LEMMA JoinedFinite ==
  ASSUME NEW segments, segments \in Seq(ToSet(segments)), NEW direction
  PROVE  IsFiniteSet(ToSet(Joined(segments, direction)))
<1> DEFINE own == {i \in DOMAIN segments : segments[i].direction = direction}
           part == OfDirection(segments, direction)
           n == Len(part)
           after == Pieced(part)
           Good(k) == after[k].done \in Seq(ToSet(after[k].done))
           bad == {k \in 0 .. n : ~Good(k)}
           closed == Closed(after[n])
           long == {i \in DOMAIN closed : Len(closed[i]) >= RunLength /\ Decodes(closed[i])}
<1>0. \A s : s \in Seq(ToSet(s)) => \A places \in SUBSET (DOMAIN s) : IsFiniteSet(places) /\ places \subseteq Int
  <2> TAKE s
  <2> HAVE s \in Seq(ToSet(s))
  <2> TAKE places \in SUBSET (DOMAIN s)
  <2>1. DOMAIN s = 1 .. Len(s) /\ Len(s) \in Nat
    BY LenProperties
  <2>2. IsFiniteSet(1 .. Len(s)) /\ 1 .. Len(s) \subseteq Int
    <3>1. 1 \in Int /\ Len(s) \in Int
      BY <2>1
    <3> QED
      BY <2>1, <3>1, FS_Interval
  <2> QED
    BY <2>1, <2>2, FS_Subset
<1>1. part \in Seq(ToSet(part))
  <2>1. part = ElementsAt(segments, own)
    BY DEF OfDirection
  <2>2. IsFiniteSet(own) /\ own \subseteq Int
    BY <1>0
  <2> QED
    BY <2>1, <2>2, PickedOut
<1>2. n \in Nat
  BY <1>1, LenProperties
<1>3. after = CHOOSE g : g = [k \in 0 .. n |-> PiecedTurn(g, part, k)]
  BY Zenon DEF Pieced, PiecedTurn
<1> HIDE DEF after, n, part
<1>4. \E g : g = [k \in 0 .. n |-> PiecedTurn(g, part, k)]
  BY <1>2, PiecedExists
<1>5. after = [k \in 0 .. n |-> PiecedTurn(after, part, k)]
  BY <1>3, <1>4
<1>6. Good(0)
  <2>1. after[0] = [parts |-> << >>, last |-> 0, done |-> << >>]
    BY <1>2, <1>5 DEF PiecedTurn
  <2> QED
    BY <2>1, NoElements
<1>7. ASSUME NEW k \in 1 .. n, Good(k - 1) PROVE Good(k)
  <2>1. after[k] = Piecewise(after[k - 1], part[k])
    BY <1>2, <1>5 DEF PiecedTurn
  <2>2. Piecewise(after[k - 1], part[k]).done \in {Closed(after[k - 1]), after[k - 1].done}
    BY DEF Piecewise
  <2>3. Closed(after[k - 1]) \in Seq(ToSet(Closed(after[k - 1])))
    BY <1>7, ClosedHolds
  <2> QED
    BY <1>7, <2>1, <2>2, <2>3
<1> HIDE DEF Good
<1>8. bad = {}
  <2>1. SUFFICES ASSUME bad # {} PROVE FALSE
    OBVIOUS
  <2>2. PICK k \in bad : \A j \in bad : k <= j
    <3>1. bad \subseteq Nat
      BY <1>2
    <3> HIDE DEF bad
    <3> QED
      BY <2>1, <3>1, LeastExists
  <2>3. k \in 0 .. n /\ ~Good(k) /\ k # 0
    BY <1>6, <2>2
  <2>4. k \in 1 .. n /\ k - 1 \in 0 .. n /\ k - 1 \notin bad
    BY <1>2, <2>2, <2>3
  <2>5. Good(k - 1)
    BY <2>4
  <2> QED
    BY <1>7, <2>3, <2>4, <2>5
<1>9. Good(n)
  BY <1>2, <1>8
<1>10. closed \in Seq(ToSet(closed))
  BY <1>9, ClosedHolds DEF Good
<1>11. Joined(segments, direction) = ElementsAt(closed, long)
  BY DEF Joined, closed, after, n, part
<1> HIDE DEF closed
<1>12. IsFiniteSet(long) /\ long \subseteq Int
  BY <1>0, <1>10
<1>13. ElementsAt(closed, long) \in Seq(ToSet(ElementsAt(closed, long)))
  BY <1>12, PickedOut
<1> QED
  BY <1>11, <1>13, FiniteElements

-------------------------------------------------------------------------------
(* Runs of letters *)

\* The run that begins at i ends with a letter, or before i, and no letter follows it.
LEMMA RunEndIs ==
  ASSUME NEW p, Len(p) \in Nat, NEW i \in 1 .. Len(p) + 1
  PROVE  /\ RunEnd(p, i) \in i - 1 .. Len(p)
         /\ \A k \in i .. RunEnd(p, i) : Is(p[k], "letter")
         /\ RunEnd(p, i) < Len(p) => ~Is(p[RunEnd(p, i) + 1], "letter")
<1> DEFINE L == Len(p)
           others == {k \in i .. L : ~Is(p[k], "letter")}
           e == RunEnd(p, i)
<1>1. e = IF others = {} THEN L ELSE Min(others) - 1
  BY DEF RunEnd
<1>2. others \subseteq i .. L /\ L \in Nat /\ i \in 1 .. L + 1
  OBVIOUS
<1>3. \A k \in i .. L : k \notin others => Is(p[k], "letter")
  OBVIOUS
<1>4. \A k \in others : ~Is(p[k], "letter")
  OBVIOUS
<1> HIDE DEF L, others, e
<1>5. CASE others = {}
  <2>1. e = L
    BY <1>1, <1>5
  <2> QED
    BY <1>2, <1>3, <1>5, <2>1 DEF L, e
<1>6. CASE others # {}
  <2>1. others \subseteq Nat
    BY <1>2
  <2>2. PICK m \in others : \A y \in others : m <= y
    BY <1>6, <2>1, LeastExists
  <2>3. Min(others) = m
    <3>1. \A x \in others : (\A y \in others : x <= y) => x = m
      BY <2>1, <2>2
    <3> QED
      BY <2>2, <3>1 DEF Min
  <2>4. e = m - 1 /\ m \in i .. L
    BY <1>1, <1>2, <1>6, <2>2, <2>3
  <2>5. \A k \in i .. m - 1 : Is(p[k], "letter")
    <3> TAKE k \in i .. m - 1
    <3>1. k \in i .. L /\ ~(m <= k)
      BY <1>2, <2>4
    <3> QED
      BY <1>3, <2>2, <3>1
  <2>6. ~Is(p[m], "letter")
    BY <1>4, <2>2
  <2>7. e + 1 = m /\ e \in i - 1 .. L
    BY <1>2, <2>4
  <2> QED
    BY <2>4, <2>5, <2>6, <2>7 DEF L, e
<1> QED
  BY <1>5, <1>6

\* One entry of the function of Runs, from those of greater places
RunsTurn(g, p, i) ==
  IF i > Len(p) THEN << >>
  ELSE LET first == IF Is(p[i], "letter") THEN i ELSE i + 1
           end == RunEnd(p, first)
       IN  IF (first = i => i = 1) /\ end - first + 1 >= RunLength
           THEN <<SubSeq(p, first, end)>> \o g[end + 2]
           ELSE g[i + 1]

\* Such an entry begins with a run of this place or the next,
TakesRun(g, p, i) ==
  \E first \in {i, i + 1} : \E end \in first .. Len(p) :
    /\ end = RunEnd(p, first)
    /\ RunsTurn(g, p, i) = <<SubSeq(p, first, end)>> \o g[end + 2]

\* What it takes from a place inside the sequence: nothing, or the run there.
LEMMA RunsTurnIs ==
  ASSUME FindingsAssumption, NEW p, Len(p) \in Nat, NEW i \in 1 .. Len(p), NEW g
  PROVE  RunsTurn(g, p, i) = g[i + 1] \/ TakesRun(g, p, i)
<1> DEFINE first == IF Is(p[i], "letter") THEN i ELSE i + 1
           end == RunEnd(p, first)
<1>1. RunsTurn(g, p, i) = IF (first = i => i = 1) /\ end - first + 1 >= RunLength
                          THEN <<SubSeq(p, first, end)>> \o g[end + 2]
                          ELSE g[i + 1]
  <2>1. ~(i > Len(p))
    OBVIOUS
  <2> QED
    BY <2>1, Zenon DEF RunsTurn
<1>2. first \in {i, i + 1} /\ first \in 1 .. Len(p) + 1
  OBVIOUS
<1> HIDE DEF first
<1>3. end \in first - 1 .. Len(p)
  BY <1>2, RunEndIs
<1> HIDE DEF end
<1>4. end - first + 1 >= RunLength => end \in first .. Len(p)
  BY <1>2, <1>3 DEF FindingsAssumption
<1>5. RunsTurn(g, p, i) = g[i + 1] \/ RunsTurn(g, p, i) = <<SubSeq(p, first, end)>> \o g[end + 2]
  BY <1>1
<1>6. RunsTurn(g, p, i) # g[i + 1] => end \in first .. Len(p)
  BY <1>1, <1>4
<1> QED
  BY <1>2, <1>5, <1>6 DEF end, TakesRun

\* The recursive function of Runs exists,
LEMMA RunsExist ==
  ASSUME FindingsAssumption, NEW p, Len(p) \in Nat
  PROVE  \E g : g = [i \in 1 .. Len(p) + 2 |-> RunsTurn(g, p, i)]
<1> DEFINE L == Len(p)
           From(m, g) == g = [i \in m .. L + 2 |-> RunsTurn(g, p, i)]
           Good(m) == \E g : From(m, g)
           bad == {k \in 0 .. L + 1 : ~Good(L + 2 - k)}
<1>0. L \in Nat
  OBVIOUS
<1>1. \A g, i : i > L => RunsTurn(g, p, i) = << >>
  BY DEF RunsTurn
<1>2. ASSUME NEW m \in 1 .. L, NEW i \in m .. L, NEW e, NEW f,
             \A j \in i + 1 .. L + 2 : e[j] = f[j]
      PROVE  RunsTurn(e, p, i) = RunsTurn(f, p, i)
  <2> DEFINE first == IF Is(p[i], "letter") THEN i ELSE i + 1
             end == RunEnd(p, first)
  <2>1. i \in 1 .. L /\ ~(i > L)
    BY <1>0
  <2>2. first \in {i, i + 1} /\ first \in 1 .. L + 1
    BY <1>0, <2>1
  <2>3. /\ RunsTurn(e, p, i) = IF (first = i => i = 1) /\ end - first + 1 >= RunLength
                               THEN <<SubSeq(p, first, end)>> \o e[end + 2]
                               ELSE e[i + 1]
        /\ RunsTurn(f, p, i) = IF (first = i => i = 1) /\ end - first + 1 >= RunLength
                               THEN <<SubSeq(p, first, end)>> \o f[end + 2]
                               ELSE f[i + 1]
    BY <2>1, Zenon DEF RunsTurn
  <2> HIDE DEF first
  <2>4. end \in first - 1 .. L
    BY <2>2, RunEndIs
  <2> HIDE DEF end
  <2>5. e[end + 2] = f[end + 2] /\ e[i + 1] = f[i + 1]
    <3>1. end + 2 \in i + 1 .. L + 2 /\ i + 1 \in i + 1 .. L + 2
      BY <1>0, <2>1, <2>2, <2>4
    <3> QED
      BY <1>2, <3>1
  <2> QED
    BY <2>3, <2>5
<1> HIDE DEF L
<1>3. Good(L + 2)
  <2>1. PICK g : g = [i \in L + 2 .. L + 2 |-> << >>]
    OBVIOUS
  <2>2. \A i \in L + 2 .. L + 2 : RunsTurn(g, p, i) = << >>
    <3>1. \A i \in L + 2 .. L + 2 : i > L
      BY <1>0
    <3> QED
      BY <1>1, <3>1
  <2>3. g = [i \in L + 2 .. L + 2 |-> RunsTurn(g, p, i)]
    BY <2>1, <2>2
  <2> QED
    BY <2>3
<1>4. ASSUME NEW m \in 1 .. L + 1, Good(m + 1) PROVE Good(m)
  <2>1. PICK g : g = [i \in m + 1 .. L + 2 |-> RunsTurn(g, p, i)]
    BY <1>4
  <2>2. PICK h : h = [i \in m .. L + 2 |-> IF i = m THEN RunsTurn(g, p, m) ELSE g[i]]
    OBVIOUS
  <2>3. \A i \in m + 1 .. L + 2 : h[i] = g[i]
    BY <1>0, <2>2
  <2>4. ASSUME NEW i \in m .. L + 2 PROVE RunsTurn(h, p, i) = RunsTurn(g, p, i)
    <3>1. CASE i > L
      BY <1>1, <3>1
    <3>2. CASE ~(i > L)
      <4>1. m \in 1 .. L /\ i \in m .. L
        BY <1>0, <3>2
      <4>2. \A j \in i + 1 .. L + 2 : h[j] = g[j]
        BY <1>0, <2>3, <4>1
      <4> QED
        BY <1>2, <4>1, <4>2
    <3> QED
      BY <3>1, <3>2
  <2>5. ASSUME NEW i \in m .. L + 2 PROVE h[i] = RunsTurn(h, p, i)
    <3>1. CASE i = m
      BY <2>2, <2>4, <3>1
    <3>2. CASE i # m
      <4>1. i \in m + 1 .. L + 2
        BY <1>0, <3>2
      <4>2. h[i] = g[i] /\ g[i] = RunsTurn(g, p, i)
        BY <2>1, <2>3, <4>1
      <4> QED
        BY <2>4, <4>2
    <3> QED
      BY <3>1, <3>2
  <2>6. h = [i \in m .. L + 2 |-> RunsTurn(h, p, i)]
    BY <2>2, <2>5
  <2> QED
    BY <2>6
<1>5. bad = {}
  <2>1. SUFFICES ASSUME bad # {} PROVE FALSE
    OBVIOUS
  <2> HIDE DEF Good
  <2>2. PICK k \in bad : \A j \in bad : k <= j
    <3>1. bad \subseteq Nat
      BY <1>0
    <3> HIDE DEF bad
    <3> QED
      BY <2>1, <3>1, LeastExists
  <2>3. k \in 0 .. L + 1 /\ ~Good(L + 2 - k) /\ k # 0
    <3>1. k \in 0 .. L + 1 /\ ~Good(L + 2 - k)
      BY <2>2
    <3>2. L + 2 - 0 = L + 2
      BY <1>0
    <3> QED
      BY <1>3, <3>1, <3>2
  <2>4. k - 1 \in 0 .. L + 1 /\ k - 1 \notin bad
    <3>1. k - 1 \in 0 .. L + 1 /\ ~(k <= k - 1)
      BY <1>0, <2>3
    <3> HIDE DEF bad
    <3> QED
      BY <2>2, <3>1
  <2>5. PICK m \in 1 .. L + 1 : m = L + 2 - k
    BY <1>0, <2>3
  <2>6. L + 2 - (k - 1) = m + 1
    BY <1>0, <2>3, <2>5
  <2>7. Good(m + 1) /\ ~Good(m)
    BY <2>3, <2>4, <2>5, <2>6
  <2> QED
    BY <1>4, <2>7
<1>6. Good(1)
  <2> HIDE DEF Good
  <2>1. L + 1 \in 0 .. L + 1 /\ L + 2 - (L + 1) = 1
    BY <1>0
  <2>2. Good(L + 2 - (L + 1))
    BY <1>5, <2>1
  <2> QED
    BY <2>1, <2>2
<1> QED
  BY <1>6 DEF L

\* A sequence of one element holds that element.
LEMMA Single ==
  ASSUME NEW x
  PROVE  <<x>> \in Seq(ToSet(<<x>>)) /\ ToSet(<<x>>) = {x}
<1>1. <<x>> \in Seq({x}) /\ Len(<<x>>) = 1 /\ <<x>>[1] = x
  OBVIOUS
<1>2. PICK s : s = <<x>>
  OBVIOUS
<1>3. s \in Seq({x}) /\ Len(s) = 1 /\ s[1] = x
  BY <1>1, <1>2
<1>4. s \in Seq(ToSet(s)) /\ ToSet(s) = {s[i] : i \in 1 .. Len(s)}
  BY ONLY <1>3, OwnElements
<1>5. ToSet(s) = {x}
  BY <1>3, <1>4
<1> QED
  BY <1>2, <1>4, <1>5

\* finds finitely many runs, and each one that no byte parts from the run before.
LEMMA RunsFind ==
  ASSUME FindingsAssumption, NEW p, Len(p) \in Nat
  PROVE  /\ Runs(p) \in Seq(ToSet(Runs(p)))
         /\ \A a \in 1 .. Len(p) :
              /\ RunEnd(p, a) - a + 1 >= RunLength
              /\ a > 1 => ~Is(p[a - 1], "letter")
              /\ a > 2 => ~Is(p[a - 2], "letter")
              => SubSeq(p, a, RunEnd(p, a)) \in ToSet(Runs(p))
<1> DEFINE L == Len(p)
           from == CHOOSE g : g = [i \in 1 .. L + 2 |-> RunsTurn(g, p, i)]
<1>1. Runs(p) = from[1]
  BY Zenon DEF Runs, RunsTurn
<1>2. from = [i \in 1 .. L + 2 |-> RunsTurn(from, p, i)]
  BY RunsExist
<1>3. L \in Nat
  OBVIOUS
<1> HIDE DEF from
<1>4. \A i \in {L + 1, L + 2} : from[i] = << >>
  <2> TAKE i \in {L + 1, L + 2}
  <2>1. i \in 1 .. L + 2 /\ i > L
    BY <1>3
  <2> QED
    BY <1>2, <2>1 DEF RunsTurn
<1> DEFINE Good(i) == from[i] \in Seq(ToSet(from[i]))
           bad == {k \in 0 .. L + 1 : ~Good(L + 2 - k)}
<1>5. \A i \in {L + 1, L + 2} : Good(i)
  BY <1>4, NoElements
<1>6. ASSUME NEW i \in 1 .. L, \A j \in i + 1 .. L + 2 : Good(j) PROVE Good(i)
  <2>1. from[i] = RunsTurn(from, p, i)
    BY <1>2, <1>3
  <2>2. CASE RunsTurn(from, p, i) = from[i + 1]
    <3>1. i + 1 \in i + 1 .. L + 2
      BY <1>3
    <3> QED
      BY <1>6, <2>1, <2>2, <3>1
  <2>3. CASE TakesRun(from, p, i)
    <3>1. PICK first \in {i, i + 1} : \E end \in first .. L :
               RunsTurn(from, p, i) = <<SubSeq(p, first, end)>> \o from[end + 2]
      BY <2>3 DEF TakesRun
    <3>2. PICK end \in first .. L : RunsTurn(from, p, i) = <<SubSeq(p, first, end)>> \o from[end + 2]
      BY <3>1
    <3>3. end + 2 \in i + 1 .. L + 2
      BY <1>3, <3>1, <3>2
    <3>4. Good(end + 2)
      BY <1>6, <3>3
    <3> DEFINE x == SubSeq(p, first, end)
               t == from[end + 2]
    <3>5. <<x>> \in Seq(ToSet(<<x>>))
      BY Single
    <3>6. t \in Seq(ToSet(t))
      BY <3>4
    <3>7. from[i] = <<x>> \o t
      BY <2>1, <3>2
    <3> HIDE DEF x, t
    <3>8. <<x>> \o t \in Seq(ToSet(<<x>> \o t))
      BY <3>5, <3>6, Concatenated
    <3> QED
      BY <3>7, <3>8
  <2> QED
    BY <1>3, <2>2, <2>3, RunsTurnIs
<1> HIDE DEF L, Good
<1>7. bad = {}
  <2>1. SUFFICES ASSUME bad # {} PROVE FALSE
    OBVIOUS
  <2>2. PICK k \in bad : \A j \in bad : k <= j
    <3>1. bad \subseteq Nat
      BY <1>3
    <3> HIDE DEF bad
    <3> QED
      BY <2>1, <3>1, LeastExists
  <2>3. k \in 0 .. L + 1 /\ ~Good(L + 2 - k)
    BY <2>2
  <2>4. PICK m \in 1 .. L + 2 : m = L + 2 - k
    BY <1>3, <2>3
  <2>5. ASSUME NEW j \in m + 1 .. L + 2 PROVE Good(j)
    <3>1. PICK n \in 0 .. L + 1 : n = L + 2 - j
      BY <1>3, <2>3, <2>4
    <3>2. ~(k <= n) /\ L + 2 - n = j
      BY <1>3, <2>3, <2>4, <3>1
    <3>3. n \notin bad
      BY <2>2, <3>2
    <3> QED
      BY <3>1, <3>2, <3>3
  <2>6. m \in {L + 1, L + 2} \/ m \in 1 .. L
    BY <1>3, <2>4
  <2> QED
    BY <1>5, <1>6, <2>3, <2>4, <2>5, <2>6
<1>8. \A i \in 1 .. L + 2 : Good(i)
  <2> TAKE i \in 1 .. L + 2
  <2>1. PICK n \in 0 .. L + 1 : n = L + 2 - i
    BY <1>3
  <2>2. L + 2 - n = i
    BY <1>3, <2>1
  <2> QED
    BY <1>7, <2>1, <2>2
<1>9. \A i \in 1 .. L, end \in 1 .. L, first \in Int :
        RunsTurn(from, p, i) = <<SubSeq(p, first, end)>> \o from[end + 2]
        => ToSet(from[i]) = {SubSeq(p, first, end)} \union ToSet(from[end + 2])
  <2> SUFFICES ASSUME NEW i \in 1 .. L, NEW end \in 1 .. L, NEW first \in Int,
                      RunsTurn(from, p, i) = <<SubSeq(p, first, end)>> \o from[end + 2]
               PROVE  ToSet(from[i]) = {SubSeq(p, first, end)} \union ToSet(from[end + 2])
    OBVIOUS
  <2>0. RunsTurn(from, p, i) = <<SubSeq(p, first, end)>> \o from[end + 2]
    OBVIOUS
  <2> DEFINE x == SubSeq(p, first, end)
             t == from[end + 2]
  <2>1. <<x>> \in Seq(ToSet(<<x>>)) /\ ToSet(<<x>>) = {x}
    BY Single
  <2>2. end + 2 \in 1 .. L + 2 /\ i \in 1 .. L + 2
    BY <1>3
  <2>3. t \in Seq(ToSet(t))
    BY <1>8, <2>2 DEF Good
  <2>4. from[i] = <<x>> \o t
    BY <1>2, <2>0, <2>2
  <2> HIDE DEF x, t
  <2>5. ToSet(<<x>> \o t) = ToSet(<<x>>) \union ToSet(t)
    BY <2>1, <2>3, Concatenated
  <2>6. ToSet(from[i]) = {x} \union ToSet(t)
    BY <2>1, <2>4, <2>5
  <2> QED
    BY <2>6 DEF x, t
<1>10. ASSUME NEW a \in 1 .. L, RunEnd(p, a) - a + 1 >= RunLength,
              a > 1 => ~Is(p[a - 1], "letter"),
              a > 2 => ~Is(p[a - 2], "letter")
       PROVE  SubSeq(p, a, RunEnd(p, a)) \in ToSet(from[1])
  <2> DEFINE b == RunEnd(p, a)
             x == SubSeq(p, a, b)
  <2>1. b \in a - 1 .. L /\ \A k \in a .. b : Is(p[k], "letter")
    BY <1>3, RunEndIs DEF L
  <2>2. b \in a .. L /\ b \in 1 .. L /\ b - a + 1 >= RunLength
    BY <1>3, <1>10, <2>1 DEF FindingsAssumption
  <2>3. Is(p[a], "letter")
    BY <2>1, <2>2
  <2> HIDE DEF b
  <2>4. CASE a = 1
    <3>1. RunsTurn(from, p, 1) = <<SubSeq(p, 1, b)>> \o from[b + 2]
      <4>1. ~(1 > Len(p)) /\ Is(p[1], "letter") /\ b - 1 + 1 >= RunLength /\ b = RunEnd(p, 1)
        BY <1>3, <2>2, <2>3, <2>4 DEF L, b
      <4> QED
        BY <4>1, Zenon DEF RunsTurn
    <3>2. 1 \in 1 .. L
      BY <2>4
    <3>3. ToSet(from[1]) = {SubSeq(p, 1, b)} \union ToSet(from[b + 2])
      BY ONLY <1>9, <2>2, <3>1, <3>2, 1 \in Int, Zenon
    <3> QED
      BY <2>4, <3>3 DEF b
  <2>5. CASE a # 1
    <3> DEFINE Miss == {j \in 1 .. a - 1 : x \notin ToSet(from[a - j])}
    <3>1. a \in Nat /\ a > 1 /\ ~Is(p[a - 1], "letter")
      BY <1>3, <1>10, <2>5
    <3>2. ASSUME NEW j \in Miss, \A k \in Miss : j <= k PROVE FALSE
      <4>1. j \in 1 .. a - 1 /\ x \notin ToSet(from[a - j])
        OBVIOUS
      <4>2. PICK i \in 1 .. L : i = a - j /\ i < a
        BY <1>3, <3>1, <4>1
      <4>3. i \in 1 .. L + 2 /\ from[i] = RunsTurn(from, p, i) /\ i \in 1 .. Len(p)
        BY <1>2, <1>3, SMTT(30) DEF L
      <4>4. \A m \in i + 1 .. a - 1 : x \in ToSet(from[m])
        <5> TAKE m \in i + 1 .. a - 1
        <5>1. PICK k \in 1 .. a - 1 : k = a - m
          BY <1>3, <3>1, <4>2
        <5>2. ~(j <= k) /\ a - k = m
          BY <1>3, <3>1, <4>1, <4>2, <5>1
        <5>3. k \notin Miss
          BY <3>2, <5>2
        <5> QED
          BY <5>1, <5>2, <5>3
      <4> HIDE DEF x, Miss
      <4>5. CASE i = a - 1
        <5>1. RunsTurn(from, p, i) = <<SubSeq(p, a, b)>> \o from[b + 2]
          <6>1. /\ ~(i > Len(p)) /\ ~Is(p[i], "letter") /\ i + 1 = a /\ i + 1 # i
                /\ b - a + 1 >= RunLength /\ b = RunEnd(p, a)
            BY <1>3, <2>2, <3>1, <4>2, <4>5 DEF L, b
          <6> QED
            BY <6>1, Zenon DEF RunsTurn
        <5>2. ToSet(from[i]) = {SubSeq(p, a, b)} \union ToSet(from[b + 2])
          BY ONLY <1>9, <2>2, <5>1, i \in 1 .. L, a \in Int, Zenon
        <5>3. x \in ToSet(from[i])
          BY <5>2 DEF x
        <5> QED
          BY <4>1, <4>2, <5>3
      <4>6. CASE i # a - 1
        <5>1. i \in 1 .. a - 2 /\ a > 2 /\ ~Is(p[a - 2], "letter") /\ i + 1 \in i + 1 .. a - 1
          BY <1>3, <1>10, <3>1, <4>2, <4>6
        <5>2. CASE RunsTurn(from, p, i) = from[i + 1]
          BY <4>1, <4>2, <4>3, <4>4, <5>1, <5>2
        <5>3. CASE TakesRun(from, p, i)
          <6>1. PICK first \in {i, i + 1} : \E end \in first .. Len(p) :
                     /\ end = RunEnd(p, first)
                     /\ RunsTurn(from, p, i) = <<SubSeq(p, first, end)>> \o from[end + 2]
            BY <5>3 DEF TakesRun
          <6>2. PICK end \in first .. Len(p) :
                     /\ end = RunEnd(p, first)
                     /\ RunsTurn(from, p, i) = <<SubSeq(p, first, end)>> \o from[end + 2]
            BY <6>1
          <6>3. first \in 1 .. Len(p) + 1 /\ first <= a - 1 /\ first \in Nat
            BY <1>3, <5>1, <6>1
          <6>4. \A k \in first .. end : Is(p[k], "letter")
            BY <6>2, <6>3, RunEndIs
          <6>5. end \in 1 .. L /\ end \in first .. Len(p)
            BY <1>3, <6>2, <6>3 DEF L
          <6>6. a - 1 \notin first .. end /\ a - 2 \notin first .. end
            BY <3>1, <5>1, <6>4
          <6>7. end + 2 \in i + 1 .. a - 1
            BY <1>3, <3>1, <5>1, <6>1, <6>3, <6>5, <6>6
          <6>8. x \in ToSet(from[end + 2])
            BY <4>4, <6>7
          <6>9. ToSet(from[i]) = {SubSeq(p, first, end)} \union ToSet(from[end + 2])
            BY ONLY <1>9, <6>2, <6>3, <6>5, i \in 1 .. L, first \in Int, Zenon
          <6> QED
            BY <4>1, <4>2, <6>8, <6>9
        <5> QED
          BY <4>3, <5>2, <5>3, RunsTurnIs
      <4> QED
        BY <4>5, <4>6
    <3>3. Miss = {}
      <4>1. Miss \subseteq Nat
        BY <3>1
      <4> HIDE DEF Miss
      <4> QED
        BY <3>2, <4>1, LeastExists
    <3>4. a - 1 \in 1 .. a - 1 /\ a - (a - 1) = 1
      BY <3>1
    <3>5. x \in ToSet(from[a - (a - 1)])
      BY <3>3, <3>4
    <3> QED
      BY <3>4, <3>5 DEF b
  <2> QED
    BY <2>4, <2>5
<1>11. 1 \in 1 .. L + 2 /\ from[1] \in Seq(ToSet(from[1]))
  BY <1>3, <1>8 DEF Good
<1> QED
  BY <1>1, <1>10, <1>11 DEF L

\* A part of a sequence is a sequence.
LEMMA PartOfSeq ==
  ASSUME NEW s, s \in Seq(ToSet(s)), NEW m \in Int, NEW n \in Int, m >= 1, n <= Len(s)
  PROVE  SubSeq(s, m, n) \in Seq(ToSet(SubSeq(s, m, n)))
<1>1. Len(s) \in Nat /\ \A i \in 1 .. Len(s) : s[i] \in ToSet(s)
  BY LenProperties, ElementOfSeq
<1> DEFINE t == SubSeq(s, m, n)
<1>2. t \in Seq(ToSet(s))
  <2>1. \A i \in m .. n : s[i] \in ToSet(s)
    BY <1>1
  <2> QED
    BY <2>1, SubSeqProperties
<1> HIDE DEF t
<1>3. t \in Seq(ToSet(t))
  BY ONLY <1>2, OwnElements
<1> QED
  BY <1>3 DEF t

\* Whatever the numbers of the segments, sequences of bytes are merged to one.
LEMMA MergedBytes ==
  ASSUME MergeAssumption, NEW segments, Len(segments) \in Nat,
         \A k \in 1 .. Len(segments) :
           /\ segments[k].payload \in Seq(ToSet(segments[k].payload))
           /\ segments[k].sequence = NoSeq \/ segments[k].sequence \in Int
  PROVE  Merged(segments)[Len(segments)].bytes
           \in Seq(ToSet(Merged(segments)[Len(segments)].bytes))
<1> DEFINE n == Len(segments)
           after == Merged(segments)
           Good(k) == /\ after[k] = [bytes |-> after[k].bytes, end |-> after[k].end]
                      /\ after[k].bytes \in Seq(ToSet(after[k].bytes))
                      /\ after[k].end = NoSeq \/ after[k].end \in Int
           bad == {k \in 0 .. n : ~Good(k)}
<1>1. /\ after[0] = [bytes |-> << >>, end |-> NoSeq]
      /\ \A k \in 1 .. n : after[k] = Extend(after[k - 1], segments[k])
  BY MergedDef
<1>2. n \in Nat
  OBVIOUS
<1> HIDE DEF after, n
<1>3. Good(0)
  BY <1>1, NoElements
<1>4. ASSUME NEW k \in 1 .. n, Good(k - 1) PROVE Good(k)
  <2> DEFINE e == after[k - 1]
             s == segments[k]
             known == IF e.end = NoSeq \/ s.sequence >= e.end THEN 0 ELSE e.end - s.sequence
  <2>1. /\ s.payload \in Seq(ToSet(s.payload))
        /\ s.sequence = NoSeq \/ s.sequence \in Int
    BY DEF n
  <2>2. /\ e = [bytes |-> e.bytes, end |-> e.end] /\ e.bytes \in Seq(ToSet(e.bytes))
        /\ e.end = NoSeq \/ e.end \in Int
    BY <1>4
  <2>3. after[k] = Extend(e, s)
    BY <1>1
  <2> HIDE DEF e, s
  <2>4. Len(s.payload) \in Nat
    BY <2>1, LenProperties
  <2>5. CASE s.sequence = NoSeq
    <3>1. after[k] = [e EXCEPT !.bytes = @ \o s.payload]
      BY <2>3, <2>5 DEF Extend
    <3>2. after[k] = [bytes |-> e.bytes \o s.payload, end |-> e.end]
      BY <2>2, <3>1
    <3>3. e.bytes \o s.payload \in Seq(ToSet(e.bytes \o s.payload))
      <4>1. PICK a, b : a = e.bytes /\ b = s.payload
        OBVIOUS
      <4>2. a \in Seq(ToSet(a)) /\ b \in Seq(ToSet(b))
        BY <2>1, <2>2, <4>1
      <4>3. a \o b \in Seq(ToSet(a \o b))
        BY ONLY <4>2, Concatenated
      <4> QED
        BY <4>1, <4>3
    <3> QED
      BY <2>2, <3>2, <3>3
  <2>6. CASE s.sequence # NoSeq
    <3> DEFINE tail == SubSeq(s.payload, known + 1, Len(s.payload))
    <3>1. s.sequence \in Int /\ known \in Int /\ known >= 0
      BY <2>1, <2>2, <2>6
    <3>2. \/ after[k] = e
          \/ after[k] = [bytes |-> e.bytes \o tail, end |-> s.sequence + Len(s.payload)]
      BY <2>3, <2>6 DEF Extend
    <3> HIDE DEF known
    <3>3. tail \in Seq(ToSet(tail))
      <4>1. PICK a, m, l : a = s.payload /\ m = known + 1 /\ l = Len(s.payload)
        OBVIOUS
      <4>2. a \in Seq(ToSet(a)) /\ m \in Int /\ l \in Int /\ m >= 1 /\ l <= Len(a)
        BY <2>1, <2>4, <3>1, <4>1
      <4>3. SubSeq(a, m, l) \in Seq(ToSet(SubSeq(a, m, l)))
        BY ONLY <4>2, PartOfSeq
      <4> QED
        BY <4>1, <4>3
    <3> HIDE DEF tail
    <3>4. e.bytes \o tail \in Seq(ToSet(e.bytes \o tail))
      <4>1. PICK a, b : a = e.bytes /\ b = tail
        OBVIOUS
      <4>2. a \in Seq(ToSet(a)) /\ b \in Seq(ToSet(b))
        BY <2>2, <3>3, <4>1
      <4>3. a \o b \in Seq(ToSet(a \o b))
        BY ONLY <4>2, Concatenated
      <4> QED
        BY <4>1, <4>3
    <3>5. s.sequence + Len(s.payload) \in Int
      BY <2>4, <3>1
    <3>6. CASE after[k] = e
      BY <2>2, <3>6
    <3>7. CASE after[k] = [bytes |-> e.bytes \o tail, end |-> s.sequence + Len(s.payload)]
      <4>1. after[k].bytes = e.bytes \o tail /\ after[k].end = s.sequence + Len(s.payload)
        BY <3>7
      <4> QED
        BY <3>4, <3>5, <3>7, <4>1
    <3> QED
      BY <3>2, <3>6, <3>7
  <2> QED
    BY <2>5, <2>6
<1>5. bad = {}
  <2>1. SUFFICES ASSUME bad # {} PROVE FALSE
    OBVIOUS
  <2> HIDE DEF Good
  <2>2. PICK k \in bad : \A j \in bad : k <= j
    <3>1. bad \subseteq Nat
      BY <1>2
    <3> HIDE DEF bad
    <3> QED
      BY <2>1, <3>1, LeastExists
  <2>3. k \in 0 .. n /\ ~Good(k) /\ k # 0
    BY <1>3, <2>2
  <2>4. k \in 1 .. n
    BY <1>2, <2>3
  <2>5. k - 1 \in 0 .. n /\ ~(k <= k - 1)
    BY <1>2, <2>4
  <2>6. k - 1 \notin bad
    BY <2>2, <2>5
  <2> QED
    BY <1>4, <2>3, <2>4, <2>5, <2>6
<1>6. Good(n)
  <2>1. n \in 0 .. n
    BY <1>2
  <2> HIDE DEF Good
  <2> QED
    BY <1>5, <2>1
<1> QED
  BY <1>6 DEF after, n

\* What is put behind each other is a sequence,
LEMMA PayloadBytes ==
  ASSUME MergeAssumption, NEW segments, segments \in Seq(ToSet(segments)),
         \A k \in 1 .. Len(segments) :
           /\ segments[k].payload \in Seq(ToSet(segments[k].payload))
           /\ IsSegment(segments[k])
  PROVE  PayloadOf(segments) \in Seq(ToSet(PayloadOf(segments)))
<1> DEFINE plain == [k \in DOMAIN segments |-> [segments[k] EXCEPT !.sequence = NoSeq]]
           n == Len(segments)
<1>1. DOMAIN segments = 1 .. n /\ n \in Nat
  BY LenProperties
<1>2. Len(plain) = n /\ \A k \in 1 .. n : plain[k] = [segments[k] EXCEPT !.sequence = NoSeq]
  BY <1>1
<1>3. PayloadOf(segments) = Merged(plain)[Len(plain)].bytes
  BY <1>2 DEF PayloadOf
<1>4. ASSUME NEW k \in 1 .. n PROVE plain[k].payload = segments[k].payload /\ plain[k].sequence = NoSeq
  BY <1>2 DEF IsSegment
<1> HIDE DEF plain
<1>5. \A k \in 1 .. Len(plain) : /\ plain[k].payload \in Seq(ToSet(plain[k].payload))
                                 /\ plain[k].sequence = NoSeq \/ plain[k].sequence \in Int
  BY <1>2, <1>4
<1>6. Merged(plain)[Len(plain)].bytes \in Seq(ToSet(Merged(plain)[Len(plain)].bytes))
  BY ONLY MergeAssumption, <1>1, <1>2, <1>5, MergedBytes
<1> QED
  BY <1>3, <1>6

\* What a direction is merged to is a sequence,
LEMMA DirectionBytes ==
  ASSUME MergeAssumption, NEW rows, OneFlow(rows), NEW own,
         rows[1].proto = "TCP", NEW part, PartOf(part, rows, own)
  PROVE  MergeDirection(part) \in Seq(ToSet(MergeDirection(part)))
<1> DEFINE K == Len(part)
           t == InSequence(part)
<1>1. /\ part \in Seq(ToSet(part))
      /\ \A k \in 1 .. K : \E i \in 1 .. Len(rows) : SegmentOf(part[k], rows[i], i)
      /\ \A j, k \in 1 .. K : part[j].order = part[k].order => j = k
  BY DEF PartOf
<1>2. K \in Nat
  BY <1>1, LenProperties
<1>3. CASE part = << >>
  BY <1>3, NoElements DEF MergeDirection
<1>4. CASE part # << >>
  <2>1. /\ Len(rows) \in Nat
        /\ \A i \in 1 .. Len(rows) : /\ rows[i].seq \in Int
                                     /\ rows[i].bytes \in Seq(ToSet(rows[i].bytes))
    BY RowsOfFlow
  <2>2. 1 \in 1 .. K
    BY <1>1, <1>2, <1>4, EmptySeq
  <2>3. part[1].proto = "TCP"
    <3>1. \E j \in 1 .. Len(rows) : SegmentOf(part[1], rows[j], j)
      BY <1>1, <2>2
    <3> QED
      BY <3>1 DEF SegmentOf
  <2>4. Head(part).proto = "TCP"
    <3>1. Head(part) = part[1]
      BY <1>1, <1>4, HeadTailProperties
    <3> QED
      BY <2>3, <3>1
  <2>5. MergeDirection(part) = Merged(t)[K].bytes
    BY <1>4, <2>4 DEF MergeDirection
  <2>6. \A k \in 1 .. K : /\ part[k].sequence \in Int /\ part[k].order \in Int
                          /\ part[k].payload \in Seq(ToSet(part[k].payload))
    <3> TAKE k \in 1 .. K
    <3>1. PICK i \in 1 .. Len(rows) : SegmentOf(part[k], rows[i], i)
      BY <1>1
    <3>2. i \in Int
      BY <2>1
    <3> QED
      BY <2>1, <3>1, <3>2 DEF SegmentOf
  <2>7. /\ Len(t) = K
        /\ \A m \in 1 .. K : \E k \in 1 .. K : t[m] = part[k]
    <3>1. NoSeq \notin Int
      BY MergeAssumption
    <3> QED
      BY <1>1, <2>6, <3>1, InOrder
  <2> HIDE DEF t, K
  <2>8. \A k \in 1 .. Len(t) : /\ t[k].payload \in Seq(ToSet(t[k].payload))
                               /\ t[k].sequence = NoSeq \/ t[k].sequence \in Int
    BY <2>6, <2>7
  <2>9. Merged(t)[Len(t)].bytes \in Seq(ToSet(Merged(t)[Len(t)].bytes))
    BY ONLY MergeAssumption, <1>2, <2>7, <2>8, MergedBytes
  <2> QED
    BY <2>5, <2>7, <2>9
<1> QED
  BY <1>3, <1>4

\* and so are the three byte strings that an analysis has.
LEMMA AnalysisBytes ==
  ASSUME MergeAssumption, NEW rows, OneFlow(rows), rows[1].proto = "TCP", NEW anchor
  PROVE  LET a == Analysis(rows, anchor)
         IN  /\ a.segments \in Seq(ToSet(a.segments))
             /\ Len(a.client) \in Nat /\ Len(a.server) \in Nat /\ Len(a.both) \in Nat
<1> DEFINE a == Analysis(rows, anchor)
           segments == Segments(rows, anchor)
           Part(d) == OfDirection(segments, d)
<1>1. /\ a.segments = segments /\ a.both = PayloadOf(segments)
      /\ a.client = MergeDirection(Part("C->S")) /\ a.server = MergeDirection(Part("S->C"))
  BY DEF Analysis, MergeInterleaved
<1>2. ASSUME NEW d PROVE Len(MergeDirection(Part(d))) \in Nat
  <2>1. PartOf(Part(d), rows, OfSide(rows, anchor, d))
    BY PartOfDirection
  <2> HIDE DEF Part
  <2>2. MergeDirection(Part(d)) \in Seq(ToSet(MergeDirection(Part(d))))
    BY <2>1, DirectionBytes
  <2> QED
    BY <2>2, LenProperties
<1>3. PICK at : SegmentsAt(segments, rows, anchor, at)
  BY AllSegments
<1>4. \A i \in 1 .. Len(rows) : rows[i].bytes \in Seq(ToSet(rows[i].bytes))
  BY RowsOfFlow
<1> HIDE DEF a, segments
<1>5. segments \in Seq(ToSet(segments))
  BY <1>3 DEF SegmentsAt
<1>6. \A k \in 1 .. Len(segments) : /\ segments[k].payload \in Seq(ToSet(segments[k].payload))
                                    /\ IsSegment(segments[k])
  <2> TAKE k \in 1 .. Len(segments)
  <2>1. /\ at[k] \in 1 .. Len(rows) /\ IsSegment(segments[k])
        /\ SegmentOf(segments[k], rows[at[k]], at[k])
    BY <1>3 DEF SegmentsAt
  <2> QED
    BY <1>4, <2>1 DEF SegmentOf
<1>7. PayloadOf(segments) \in Seq(ToSet(PayloadOf(segments)))
  BY ONLY MergeAssumption, <1>5, <1>6, PayloadBytes
<1>8. Len(PayloadOf(segments)) \in Nat
  BY <1>7, LenProperties
<1> HIDE DEF Part
<1> QED
  BY <1>1, <1>2, <1>5, <1>8 DEF a

-------------------------------------------------------------------------------
(* The list of candidates *)

\* Values of a direction that are held in some confidence
Marked(values, direction, kind) ==
  {[value |-> v, direction |-> direction, kind |-> kind] : v \in values}
Pieces(analysis) ==
  UNION {Marked(ToSet(Joined(analysis.segments, d)), d, "fragmented") : d \in {"C->S", "S->C"}}
Whole(analysis) ==
  UNION {Marked(Decoded(part[1]), part[2], "reassembled") :
           part \in {<<analysis.client, "C->S">>, <<analysis.server, "S->C">>,
                     <<analysis.both, "both">>}}
Lesser(analysis) ==
  {c \in Whole(analysis) : [c EXCEPT !.kind = "fragmented"] \notin Pieces(analysis)}
Ranked(analysis) == Listed(Pieces(analysis)) \o Listed(Lesser(analysis))

\* Finitely many values stay finitely many.
LEMMA MarkedFinite ==
  ASSUME NEW values, IsFiniteSet(values), NEW direction, NEW kind
  PROVE  IsFiniteSet(Marked(values, direction, kind))
<1>1. PICK g : g = [v \in values |-> [value |-> v, direction |-> direction, kind |-> kind]]
  OBVIOUS
<1>2. IsFiniteSet({g[v] : v \in values})
  BY ImageFinite
<1>3. {g[v] : v \in values} = Marked(values, direction, kind)
  BY <1>1 DEF Marked
<1> QED
  BY <1>2, <1>3

\* What is found is listed without a gap, the pieces first.
LEMMA RankedHolds ==
  ASSUME FindingsAssumption, NEW analysis, analysis.segments \in Seq(ToSet(analysis.segments)),
         Len(analysis.client) \in Nat, Len(analysis.server) \in Nat, Len(analysis.both) \in Nat
  PROVE  /\ Ranked(analysis) \in Seq(ToSet(Ranked(analysis)))
         /\ ToSet(Ranked(analysis)) = Pieces(analysis) \union Lesser(analysis)
<1> DEFINE P == Pieces(analysis)
           W == Whole(analysis)
           Q == Lesser(analysis)
<1>1. IsFiniteSet(P)
  <2>1. ASSUME NEW d PROVE IsFiniteSet(Marked(ToSet(Joined(analysis.segments, d)), d, "fragmented"))
    <3>1. IsFiniteSet(ToSet(Joined(analysis.segments, d)))
      BY JoinedFinite
    <3> QED
      BY <3>1, MarkedFinite
  <2> DEFINE M(d) == Marked(ToSet(Joined(analysis.segments, d)), d, "fragmented")
  <2>2. P = M("C->S") \union M("S->C")
    BY DEF Pieces
  <2>3. IsFiniteSet(M("C->S")) /\ IsFiniteSet(M("S->C"))
    BY <2>1
  <2> HIDE DEF P, M
  <2> QED
    BY <2>2, <2>3, FS_Union
<1>2. IsFiniteSet(W)
  <2> DEFINE M(p, d) == Marked(Decoded(p), d, "reassembled")
  <2>1. ASSUME NEW p, Len(p) \in Nat, NEW d PROVE IsFiniteSet(M(p, d))
    <3>1. Runs(p) \in Seq(ToSet(Runs(p)))
      BY <2>1, RunsFind
    <3>2. IsFiniteSet(ToSet(Runs(p)))
      BY <3>1, FiniteElements
    <3>3. Decoded(p) \subseteq ToSet(Runs(p))
      BY DEF Decoded
    <3>4. IsFiniteSet(Decoded(p))
      BY <3>2, <3>3, FS_Subset
    <3> QED
      BY <3>4, MarkedFinite
  <2>2. W = M(analysis.client, "C->S") \union M(analysis.server, "S->C") \union M(analysis.both, "both")
    BY DEF Whole
  <2>3. /\ IsFiniteSet(M(analysis.client, "C->S")) /\ IsFiniteSet(M(analysis.server, "S->C"))
        /\ IsFiniteSet(M(analysis.both, "both"))
    BY <2>1
  <2> HIDE DEF W, M
  <2> QED
    BY <2>2, <2>3, FS_Union
<1>3. IsFiniteSet(Q)
  <2>1. Q \subseteq W
    BY DEF Lesser
  <2> QED
    BY <1>2, <2>1, FS_Subset
<1>4. Ranked(analysis) = Listed(P) \o Listed(Q)
  BY DEF Ranked
<1> HIDE DEF P, Q, W
<1>5. /\ Listed(P) \in Seq(ToSet(Listed(P))) /\ ToSet(Listed(P)) = P
      /\ Listed(Q) \in Seq(ToSet(Listed(Q))) /\ ToSet(Listed(Q)) = Q
  BY <1>1, <1>3, ListedHolds
<1>6. PICK s, t : s = Listed(P) /\ t = Listed(Q)
  OBVIOUS
<1>7. s \in Seq(ToSet(s)) /\ t \in Seq(ToSet(t))
  BY <1>5, <1>6
<1>8. s \o t \in Seq(ToSet(s \o t)) /\ ToSet(s \o t) = ToSet(s) \union ToSet(t)
  BY ONLY <1>7, Concatenated
<1> QED
  BY <1>4, <1>5, <1>6, <1>8 DEF P, Q

\* A list of candidates names a value that was sent in a direction.
OnTheList(candidates, v, d) == \E c \in ToSet(candidates) : c.value = v /\ c.direction = d

\* While the list is not full, every run of a direction that decodes is on it.
LEMMA RunsAreListed ==
  ASSUME FindingsAssumption, NEW analysis, analysis.segments \in Seq(ToSet(analysis.segments)),
         Len(analysis.client) \in Nat, Len(analysis.server) \in Nat, Len(analysis.both) \in Nat,
         Len(Candidates(analysis)) < MaxFound,
         NEW p, NEW d, \/ p = analysis.client /\ d = "C->S"
                       \/ p = analysis.server /\ d = "S->C",
         NEW v \in ToSet(Runs(p)), Decodes(v)
  PROVE  OnTheList(Candidates(analysis), v, d)
<1> DEFINE ranked == Ranked(analysis)
           n == Len(ranked)
           found == Candidates(analysis)
<1>1. found = SubSeq(ranked, 1, Min({MaxFound, n}))
  BY DEF Candidates, Ranked, Lesser, Pieces, Whole, Marked
<1>2. ranked \in Seq(ToSet(ranked)) /\ ToSet(ranked) = Pieces(analysis) \union Lesser(analysis)
  BY RankedHolds
<1>3. n \in Nat
  BY <1>2, LenProperties
<1> HIDE DEF ranked, n, found
<1>4. found = ranked
  <2>1. MaxFound \in Nat \ {0}
    BY DEF FindingsAssumption
  <2>2. Min({MaxFound, n}) = IF n <= MaxFound THEN n ELSE MaxFound
    BY <1>3, <2>1, LesserOf
  <2>3. CASE n <= MaxFound
    BY <1>1, <1>2, <2>2, <2>3 DEF n
  <2>4. CASE ~(n <= MaxFound)
    <3>1. found = SubSeq(ranked, 1, MaxFound)
      BY <1>1, <2>2, <2>4
    <3>2. Len(found) = MaxFound
      BY <1>2, <1>3, <2>1, <2>4, <3>1, SubSeqProperties DEF n
    <3> QED
      BY <2>1, <3>2 DEF found
  <2> QED
    BY <2>3, <2>4
<1> DEFINE c == [value |-> v, direction |-> d, kind |-> "reassembled"]
           e == [value |-> v, direction |-> d, kind |-> "fragmented"]
<1>5. c \in Whole(analysis)
  BY DEF Whole, Marked, Decoded
<1>6. [c EXCEPT !.kind = "fragmented"] = e
  OBVIOUS
<1>7. c \in Lesser(analysis) \/ e \in Pieces(analysis)
  BY <1>5, <1>6 DEF Lesser
<1>8. c \in ToSet(found) \/ e \in ToSet(found)
  BY <1>2, <1>4, <1>7
<1> QED
  BY <1>8 DEF found, OnTheList

\* The strings of what is shown are found because what is shown is what was sent.
LEMMA FoundInShown ==
  ASSUME WorkbenchAssumption, MergeAssumption, FindingsAssumption, ShownInv
  PROVE  StringsFound
<1> SUFFICES ASSUME NEW f \in Shown, NEW s \in {t \in Sent : Complete(f.rows, t)},
                    f.anchor \in {s.from, s.to},
                    Len(Candidates(Analysis(f.rows, f.anchor))) < MaxFound,
                    NEW i \in DOMAIN s.bytes,
                    RunEnd(s.bytes, i) - i + 1 >= RunLength,
                    Decodes(SubSeq(s.bytes, i, RunEnd(s.bytes, i))),
                    ~(i - 1 \in DOMAIN s.bytes /\ Is(s.bytes[i - 1], "letter")),
                    ~(i - 2 \in DOMAIN s.bytes /\ Is(s.bytes[i - 2], "letter"))
             PROVE  \E c \in ToSet(Candidates(Analysis(f.rows, f.anchor))) :
                      /\ c.value = SubSeq(s.bytes, i, RunEnd(s.bytes, i))
                      /\ c.direction = DirectionOf(s, f.anchor)
  BY Zenon DEF StringsFound
<1> DEFINE a == Analysis(f.rows, f.anchor)
           p == s.bytes
           d == DirectionOf(s, f.anchor)
           v == SubSeq(p, i, RunEnd(p, i))
<1>1. s \in Sent /\ OfOneStream(f.rows, s) /\ KeptOf(f.rows, s) = p
  BY DEF Complete
<1>2. p = IF s.from = f.anchor THEN a.client ELSE a.server
  <2>1. StreamExact
    BY ShownExactly
  <2> QED
    BY <1>1, <2>1 DEF StreamExact
<1>3. d = IF s.from = f.anchor THEN "C->S" ELSE "S->C"
  BY DEF DirectionOf
<1>4. OneFlow(f.rows) /\ f.rows[1].proto = "TCP"
  BY <1>1, ShownFlows DEF OfOneStream
<1>5. /\ a.segments \in Seq(ToSet(a.segments))
      /\ Len(a.client) \in Nat /\ Len(a.server) \in Nat /\ Len(a.both) \in Nat
  BY <1>4, AnalysisBytes
<1>6. p \in Seq(ToSet(p))
  BY <1>1, SentBytes
<1>7. /\ Len(p) \in Nat /\ i \in 1 .. Len(p)
      /\ RunEnd(p, i) - i + 1 >= RunLength
      /\ i > 1 => ~Is(p[i - 1], "letter")
      /\ i > 2 => ~Is(p[i - 2], "letter")
  <2>1. Len(p) \in Nat /\ DOMAIN p = 1 .. Len(p)
    BY <1>6, LenProperties
  <2>2. i > 1 => i - 1 \in DOMAIN p
    BY <2>1
  <2>3. i > 2 => i - 2 \in DOMAIN p
    BY <2>1
  <2> QED
    BY <2>1, <2>2, <2>3
<1>12. Decodes(v)
  OBVIOUS
<1> HIDE DEF a, p, d
<1>8. v \in ToSet(Runs(p))
  BY <1>7, RunsFind
<1> HIDE DEF v
<1>9. (p = a.client /\ d = "C->S") \/ (p = a.server /\ d = "S->C")
  BY <1>2, <1>3
<1>10. Len(Candidates(a)) < MaxFound
  BY DEF a
<1>11. OnTheList(Candidates(a), v, d)
  BY <1>5, <1>8, <1>9, <1>10, <1>12, RunsAreListed
<1> QED
  BY <1>11 DEF OnTheList, a, d, v, p

\* StringsFound: every long enough string of letters that decodes, of a stream that was
\* stored as a whole, is on the list of candidates, while that list is not full and no
\* single byte parts the string from another letter.
THEOREM StringsAreFound == WorkbenchSpec => []StringsFound
<1>1. WorkbenchInit => ShownInv
  BY ShownInit
<1>2. ShownInv /\ [WorkbenchNext]_workbenchVars => ShownInv'
  BY ShownStep, WorkbenchAssumption
<1>3. ShownInv => StringsFound
  BY FoundInShown, WorkbenchAssumption, MergeAssumption, FindingsAssumption
<1> QED
  BY <1>1, <1>2, <1>3, PTL DEF WorkbenchSpec

-------------------------------------------------------------------------------
(* Files *)

\* The first of some places is one of them, and none of them is before it.
LEMMA FirstIs ==
  ASSUME NEW S, S \subseteq Nat, S # {}
  PROVE  FirstOf(S) \in S /\ \A y \in S : FirstOf(S) <= y
<1>1. PICK m \in S : \A y \in S : m <= y
  BY LeastExists
<1>2. Min(S) = m
  <2>1. \A x \in S : (\A y \in S : x <= y) => x = m
    BY <1>1
  <2> QED
    BY <1>1, <2>1 DEF Min
<1> QED
  BY <1>1, <1>2 DEF FirstOf

\* The first place of a kind, when there is a place of the kind before which there is none
LEMMA FirstThere ==
  ASSUME NEW S, S \subseteq Nat, NEW m \in S, \A y \in S : m <= y
  PROVE  FirstOf(S) = m
<1>1. FirstOf(S) \in S /\ \A y \in S : FirstOf(S) <= y
  BY FirstIs
<1>2. FirstOf(S) \in Nat /\ m \in Nat /\ FirstOf(S) <= m /\ m <= FirstOf(S)
  BY <1>1
<1> QED
  BY <1>2

\* The end mark that is found is the first one,
LEMMA EndMarkIs ==
  ASSUME NEW p, Len(p) \in Nat, NEW i \in 1 .. Len(p), NEW type
  PROVE  \/ EndMark(p, i, type) = 0
         \/ /\ EndMark(p, i, type) \in i .. Len(p) /\ Ends(p[EndMark(p, i, type)], type)
            /\ \A k \in i .. EndMark(p, i, type) - 1 : ~Ends(p[k], type)
<1> DEFINE S == {k \in i .. Len(p) : Ends(p[k], type)}
           m == EndMark(p, i, type)
<1>1. m = FirstOf(S)
  BY DEF EndMark
<1>2. S \subseteq Nat
  OBVIOUS
<1>3. CASE S = {}
  BY <1>1, <1>3 DEF FirstOf
<1>4. CASE S # {}
  <2>1. m \in S /\ \A y \in S : m <= y
    <3> HIDE DEF S, m
    <3> QED
      BY <1>1, <1>2, <1>4, FirstIs
  <2> HIDE DEF m
  <2>2. m \in i .. Len(p) /\ Ends(p[m], type)
    BY <2>1
  <2>3. \A k \in i .. m - 1 : k \notin S
    BY <2>1, <2>2
  <2>4. \A k \in i .. m - 1 : k \in i .. Len(p)
    BY <2>2
  <2> QED
    BY <2>2, <2>3, <2>4 DEF m
<1> QED
  BY <1>3, <1>4

\* and the first one is found.
LEMMA EndMarkFound ==
  ASSUME NEW p, Len(p) \in Nat, NEW i \in 1 .. Len(p), NEW type, NEW m \in i .. Len(p),
         Ends(p[m], type), \A k \in i .. m - 1 : ~Ends(p[k], type)
  PROVE  EndMark(p, i, type) = m
<1> DEFINE S == {k \in i .. Len(p) : Ends(p[k], type)}
<1>1. S \subseteq Nat /\ m \in S
  OBVIOUS
<1>2. \A y \in S : m <= y
  <2> TAKE y \in S
  <2>1. y \in i .. Len(p) /\ Ends(p[y], type)
    OBVIOUS
  <2>2. y \notin i .. m - 1
    BY <2>1
  <2> QED
    BY <2>1, <2>2
<1>3. EndMark(p, i, type) = FirstOf(S)
  BY DEF EndMark
<1> HIDE DEF S
<1> QED
  BY <1>1, <1>2, <1>3, FirstThere

\* The last of the line ends that follow a place is the place before the first other byte.
LEMMA LineEnds ==
  ASSUME NEW p, Len(p) \in Nat, NEW m \in 1 .. Len(p), NEW j \in m .. Len(p),
         NEW S, S = {k \in m + 1 .. Len(p) : ~Is(p[k], "newline")}
  PROVE  (/\ \A k \in m + 1 .. j : Is(p[k], "newline")
          /\ j < Len(p) => ~Is(p[j + 1], "newline"))
         <=> j = IF FirstOf(S) = 0 THEN Len(p) ELSE FirstOf(S) - 1
<1>1. S \subseteq Nat /\ \A k \in S : k >= m + 1 /\ k <= Len(p)
  OBVIOUS
<1>2. \A k \in m + 1 .. Len(p) : k \in S <=> ~Is(p[k], "newline")
  OBVIOUS
<1>3. CASE S = {}
  <2>1. FirstOf(S) = 0
    BY <1>3 DEF FirstOf
  <2>2. \A k \in m + 1 .. Len(p) : Is(p[k], "newline")
    BY <1>2, <1>3
  <2>3. j < Len(p) => j + 1 \in m + 1 .. Len(p)
    OBVIOUS
  <2> QED
    BY <2>1, <2>2, <2>3
<1>4. CASE S # {}
  <2>1. PICK f \in S : f = FirstOf(S) /\ \A y \in S : f <= y
    BY <1>1, <1>4, FirstIs
  <2>2. f \in m + 1 .. Len(p) /\ ~Is(p[f], "newline") /\ f # 0
    BY <1>1, <1>2, <2>1
  <2>3. \A k \in m + 1 .. f - 1 : Is(p[k], "newline")
    <3> TAKE k \in m + 1 .. f - 1
    <3>1. k \in m + 1 .. Len(p) /\ ~(f <= k)
      BY <2>2
    <3> QED
      BY <1>2, <2>1, <3>1
  <2>4. ASSUME \A k \in m + 1 .. j : Is(p[k], "newline"), j < Len(p) => ~Is(p[j + 1], "newline")
        PROVE  j = f - 1
    <3>1. f \notin m + 1 .. j
      BY <2>2, <2>4
    <3>2. j < f
      BY <2>2, <3>1
    <3>3. ~Is(p[j + 1], "newline") /\ j + 1 \in m + 1 .. Len(p)
      BY <2>2, <2>4, <3>2
    <3>4. j + 1 \notin m + 1 .. f - 1
      BY <2>3, <3>3
    <3> QED
      BY <2>2, <3>2, <3>3, <3>4
  <2>5. ASSUME j = f - 1
        PROVE  (\A k \in m + 1 .. j : Is(p[k], "newline")) /\ (j < Len(p) => ~Is(p[j + 1], "newline"))
    BY <2>2, <2>3, <2>5
  <2> QED
    BY <2>1, <2>2, <2>4, <2>5
<1> QED
  BY <1>3, <1>4

\* A slice ends inside the bytes, and not before it begins.
LEMMA SliceIs ==
  ASSUME FindingsAssumption, NEW p, Len(p) \in Nat, NEW i \in 1 .. Len(p), NEW type
  PROVE  SliceEnd(p, i, type) = 0 \/ SliceEnd(p, i, type) \in i .. Len(p)
<1>1. ASSUME NEW t PROVE EndMark(p, i, t) = 0 \/ EndMark(p, i, t) \in i .. Len(p)
  BY EndMarkIs
<1>2. ToEndMark(p, i, type) = 0 \/ ToEndMark(p, i, type) \in i .. Len(p)
  BY <1>1 DEF ToEndMark
<1>3. ToEndOfZip(p, i) = 0 \/ ToEndOfZip(p, i) \in i .. Len(p)
  <2> DEFINE m == EndMark(p, i, "zip")
             end == m + Token[p[m]].size
  <2>1. ToEndOfZip(p, i) = IF m # 0 /\ end \in m .. Len(p) THEN end ELSE 0
    BY DEF ToEndOfZip
  <2>2. m = 0 \/ m \in i .. Len(p)
    BY <1>1
  <2> HIDE DEF m, end
  <2>3. m # 0 /\ end \in m .. Len(p) => end \in i .. Len(p)
    BY <2>2
  <2> QED
    BY <2>1, <2>3
<1>4. ToEndOfPdf(p, i) = 0 \/ ToEndOfPdf(p, i) \in i .. Len(p)
  <2> DEFINE m == EndMark(p, i, "pdf")
             S == {k \in m + 1 .. Len(p) : ~Is(p[k], "newline")}
  <2>1. ToEndOfPdf(p, i) = IF m = 0 THEN 0 ELSE IF FirstOf(S) = 0 THEN Len(p) ELSE FirstOf(S) - 1
    BY DEF ToEndOfPdf
  <2>2. m = 0 \/ m \in i .. Len(p)
    BY <1>1
  <2> HIDE DEF m
  <2>3. CASE m = 0 \/ FirstOf(S) = 0
    BY <2>1, <2>3
  <2>4. CASE m \in i .. Len(p) /\ FirstOf(S) # 0
    <3>1. S \subseteq Nat /\ S \subseteq m + 1 .. Len(p)
      BY <2>4
    <3>2. S # {}
      BY <2>4 DEF FirstOf
    <3> HIDE DEF S
    <3>3. FirstOf(S) \in m + 1 .. Len(p)
      BY <3>1, <3>2, FirstIs
    <3>4. FirstOf(S) - 1 \in i .. Len(p)
      BY <2>4, <3>3
    <3> QED
      BY <2>1, <2>4, <3>4
  <2> QED
    BY <2>2, <2>3, <2>4
<1>5. ToWindow(p, i) \in i .. Len(p)
  <2>1. ToWindow(p, i) = IF Len(p) <= i + Window - 1 THEN Len(p) ELSE i + Window - 1
    <3>1. i + Window - 1 \in Int
      BY DEF FindingsAssumption
    <3> QED
      BY <3>1, LesserOf DEF ToWindow
  <2> QED
    BY <2>1 DEF FindingsAssumption
<1>6. SliceEnd(p, i, type) \in {ToEndOfZip(p, i), ToEndOfPdf(p, i), ToWindow(p, i), ToEndMark(p, i, type)}
  BY DEF SliceEnd
<1> QED
  BY <1>2, <1>3, <1>4, <1>5, <1>6

\* A slice of a type that has an end of its own is a file, and a file is sliced off.
LEMMA SliceIsFile ==
  ASSUME NEW p, Len(p) \in Nat, NEW i \in 1 .. Len(p), NEW j \in i .. Len(p),
         NEW type \in {"gif", "jpeg", "pdf", "png", "zip"}
  PROVE  FileAt(p, i, j, type) <=> Begins(p[i], type) /\ SliceEnd(p, i, type) = j
<1> DEFINE m == EndMark(p, i, type)
           AsFile(n) == /\ Ends(p[n], type) /\ \A k \in i .. n - 1 : ~Ends(p[k], type)
                        /\ type \in {"gif", "jpeg", "png"} => j = n
                        /\ type = "zip" => j = n + Token[p[n]].size
                        /\ type = "pdf" => /\ \A k \in n + 1 .. j : Is(p[k], "newline")
                                           /\ j < Len(p) => ~Is(p[j + 1], "newline")
<1>1. FileAt(p, i, j, type) <=> Begins(p[i], type) /\ \E n \in i .. j : AsFile(n)
  BY DEF FileAt
<1>2. m = 0 \/ m \in i .. Len(p)
  BY EndMarkIs
<1>3. \A n \in i .. j : AsFile(n) => m = n
  <2> SUFFICES ASSUME NEW n \in i .. j, AsFile(n) PROVE m = n
    OBVIOUS
  <2>1. n \in i .. Len(p) /\ Ends(p[n], type) /\ \A k \in i .. n - 1 : ~Ends(p[k], type)
    OBVIOUS
  <2> HIDE DEF m
  <2> QED
    BY <2>1, EndMarkFound DEF m
<1>4. m # 0 => Ends(p[m], type) /\ \A k \in i .. m - 1 : ~Ends(p[k], type)
  BY EndMarkIs
<1> DEFINE S == {k \in m + 1 .. Len(p) : ~Is(p[k], "newline")}
<1>5. /\ type \in {"gif", "jpeg", "png"} => SliceEnd(p, i, type) = m
      /\ type = "zip" => SliceEnd(p, i, type) =
           IF m # 0 /\ m + Token[p[m]].size \in m .. Len(p) THEN m + Token[p[m]].size ELSE 0
      /\ type = "pdf" => SliceEnd(p, i, type) =
           IF m = 0 THEN 0 ELSE IF FirstOf(S) = 0 THEN Len(p) ELSE FirstOf(S) - 1
  BY DEF SliceEnd, ToEndMark, ToEndOfZip, ToEndOfPdf
<1>6. m \in i .. j /\ type = "pdf" =>
        (j = SliceEnd(p, i, type) <=>
           /\ \A k \in m + 1 .. j : Is(p[k], "newline")
           /\ j < Len(p) => ~Is(p[j + 1], "newline"))
  <2> SUFFICES ASSUME m \in i .. j, type = "pdf"
               PROVE  j = SliceEnd(p, i, type) <=>
                        /\ \A k \in m + 1 .. j : Is(p[k], "newline")
                        /\ j < Len(p) => ~Is(p[j + 1], "newline")
    OBVIOUS
  <2>1. m \in 1 .. Len(p) /\ j \in m .. Len(p) /\ m # 0
    OBVIOUS
  <2>2. S = {k \in m + 1 .. Len(p) : ~Is(p[k], "newline")}
    OBVIOUS
  <2> HIDE DEF m, S
  <2>3. (/\ \A k \in m + 1 .. j : Is(p[k], "newline")
         /\ j < Len(p) => ~Is(p[j + 1], "newline"))
        <=> j = IF FirstOf(S) = 0 THEN Len(p) ELSE FirstOf(S) - 1
    BY <2>1, <2>2, LineEnds
  <2> QED
    BY <1>5, <2>1, <2>3
<1>7. SliceEnd(p, i, type) = j => m \in i .. j
  <2> SUFFICES ASSUME SliceEnd(p, i, type) = j PROVE m \in i .. j
    OBVIOUS
  <2>1. m # 0
    BY <1>5
  <2>2. CASE type # "pdf"
    <3>1. m \in i .. Len(p)
      BY <1>2, <2>1
    <3> HIDE DEF m
    <3>2. CASE type = "zip"
      <4>1. j \in m .. Len(p)
        BY <1>5, <3>2
      <4> QED
        BY <3>1, <4>1
    <3>3. CASE type \in {"gif", "jpeg", "png"}
      BY <1>5, <3>1, <3>3
    <3> QED
      BY <2>2, <3>2, <3>3
  <2>3. CASE type = "pdf"
    <3>1. m \in i .. Len(p)
      BY <1>2, <2>1
    <3>2. S \subseteq Nat /\ S \subseteq m + 1 .. Len(p)
      BY <3>1
    <3> HIDE DEF m, S
    <3>3. CASE FirstOf(S) = 0
      BY <1>5, <2>1, <2>3, <3>1, <3>3
    <3>4. CASE FirstOf(S) # 0
      <4>1. S # {}
        BY <3>4 DEF FirstOf
      <4>2. FirstOf(S) \in m + 1 .. Len(p)
        BY <3>2, <4>1, FirstIs
      <4>3. j = FirstOf(S) - 1
        BY <1>5, <2>1, <2>3, <3>4
      <4> QED
        BY <3>1, <4>2, <4>3
    <3> QED
      BY <3>3, <3>4
  <2> QED
    BY <2>2, <2>3
<1> HIDE DEF m, S
<1>8. m \in i .. j => (AsFile(m) <=> SliceEnd(p, i, type) = j)
  <2> SUFFICES ASSUME m \in i .. j PROVE AsFile(m) <=> SliceEnd(p, i, type) = j
    OBVIOUS
  <2>1. m # 0 /\ Ends(p[m], type) /\ \A k \in i .. m - 1 : ~Ends(p[k], type) /\ j \in m .. Len(p)
    BY <1>4
  <2>2. CASE type \in {"gif", "jpeg", "png"}
    BY <1>5, <2>1, <2>2
  <2>3. CASE type = "zip"
    BY <1>5, <2>1, <2>3
  <2>4. CASE type = "pdf"
    BY <1>6, <2>1, <2>4
  <2> QED
    BY <2>2, <2>3, <2>4
<1> QED
  <2> HIDE DEF AsFile
  <2> QED
    BY <1>1, <1>3, <1>7, <1>8

\* One entry of the function of Carve, from those of greater places
CarveTurn(g, p, type, i) ==
  IF i > Len(p) THEN {}
  ELSE IF ~Begins(p[i], type) THEN g[i + 1]
  ELSE LET end == SliceEnd(p, i, type)
       IN  IF end = 0 THEN g[i + 1] ELSE {<<i, end>>} \union g[end + 1]

\* A file is cut off at i, up to end.
CutsAt(p, type, i, end) == Begins(p[i], type) /\ SliceEnd(p, i, type) = end
Cuts(p, type, i) == \E end \in i .. Len(p) : CutsAt(p, type, i, end)

\* What it takes from a place inside the bytes: nothing, or the file that begins there.
LEMMA CarveTurnIs ==
  ASSUME FindingsAssumption, NEW p, Len(p) \in Nat, NEW type, NEW i \in 1 .. Len(p), NEW g
  PROVE  /\ \A end \in i .. Len(p) : CutsAt(p, type, i, end) =>
              CarveTurn(g, p, type, i) = {<<i, end>>} \union g[end + 1]
         /\ ~Cuts(p, type, i) => CarveTurn(g, p, type, i) = g[i + 1]
<1>1. CarveTurn(g, p, type, i) =
        IF ~Begins(p[i], type) \/ SliceEnd(p, i, type) = 0 THEN g[i + 1]
        ELSE {<<i, SliceEnd(p, i, type)>>} \union g[SliceEnd(p, i, type) + 1]
  <2>1. ~(i > Len(p))
    OBVIOUS
  <2> QED
    BY <2>1 DEF CarveTurn
<1>2. SliceEnd(p, i, type) = 0 \/ SliceEnd(p, i, type) \in i .. Len(p)
  BY SliceIs
<1>3. 0 \notin i .. Len(p)
  OBVIOUS
<1> QED
  BY <1>1, <1>2, <1>3 DEF CutsAt, Cuts

\* The recursive function of Carve exists,
LEMMA CarveExists ==
  ASSUME FindingsAssumption, NEW p, Len(p) \in Nat, NEW type
  PROVE  \E g : g = [i \in 1 .. Len(p) + 2 |-> CarveTurn(g, p, type, i)]
<1> DEFINE L == Len(p)
           From(m, g) == g = [i \in m .. L + 2 |-> CarveTurn(g, p, type, i)]
           Good(m) == \E g : From(m, g)
           bad == {k \in 0 .. L + 1 : ~Good(L + 2 - k)}
<1>0. L \in Nat
  OBVIOUS
<1>1. \A g, i : i > L => CarveTurn(g, p, type, i) = {}
  BY DEF CarveTurn
<1>turns. \A i \in 1 .. L : \A g :
        /\ \A end \in i .. L : CutsAt(p, type, i, end) =>
             CarveTurn(g, p, type, i) = {<<i, end>>} \union g[end + 1]
        /\ ~Cuts(p, type, i) => CarveTurn(g, p, type, i) = g[i + 1]
  BY CarveTurnIs
<1>2. ASSUME NEW m \in 1 .. L, NEW i \in m .. L, NEW e, NEW f,
             \A j \in i + 1 .. L + 2 : e[j] = f[j]
      PROVE  CarveTurn(e, p, type, i) = CarveTurn(f, p, type, i)
  <2>1. i \in 1 .. L
    BY <1>0
  <2>2. CASE Cuts(p, type, i)
    <3>1. PICK end \in i .. L : CutsAt(p, type, i, end)
      BY <2>2 DEF Cuts
    <3>0. \A g : CarveTurn(g, p, type, i) = {<<i, end>>} \union g[end + 1]
      BY <1>turns, <2>1, <3>1
    <3>2. /\ CarveTurn(e, p, type, i) = {<<i, end>>} \union e[end + 1]
          /\ CarveTurn(f, p, type, i) = {<<i, end>>} \union f[end + 1]
      BY <3>0
    <3>3. end + 1 \in i + 1 .. L + 2
      BY <1>0, <2>1
    <3> QED
      BY <1>2, <3>2, <3>3
  <2>3. CASE ~Cuts(p, type, i)
    <3>0. \A g : CarveTurn(g, p, type, i) = g[i + 1]
      BY <1>turns, <2>1, <2>3
    <3>1. /\ CarveTurn(e, p, type, i) = e[i + 1]
          /\ CarveTurn(f, p, type, i) = f[i + 1]
      BY <3>0
    <3>2. i + 1 \in i + 1 .. L + 2
      BY <1>0, <2>1
    <3> QED
      BY <1>2, <3>1, <3>2
  <2> QED
    BY <2>2, <2>3
<1> HIDE DEF L
<1>3. Good(L + 2)
  <2>1. PICK g : g = [i \in L + 2 .. L + 2 |-> {}]
    OBVIOUS
  <2>2. \A i \in L + 2 .. L + 2 : CarveTurn(g, p, type, i) = {}
    <3>1. \A i \in L + 2 .. L + 2 : i > L
      BY <1>0
    <3> QED
      BY <1>1, <3>1
  <2>3. g = [i \in L + 2 .. L + 2 |-> CarveTurn(g, p, type, i)]
    BY <2>1, <2>2
  <2> QED
    BY <2>3
<1>4. ASSUME NEW m \in 1 .. L + 1, Good(m + 1) PROVE Good(m)
  <2>1. PICK g : g = [i \in m + 1 .. L + 2 |-> CarveTurn(g, p, type, i)]
    BY <1>4
  <2>2. PICK h : h = [i \in m .. L + 2 |-> IF i = m THEN CarveTurn(g, p, type, m) ELSE g[i]]
    OBVIOUS
  <2>3. \A i \in m + 1 .. L + 2 : h[i] = g[i]
    BY <1>0, <2>2
  <2>4. ASSUME NEW i \in m .. L + 2 PROVE CarveTurn(h, p, type, i) = CarveTurn(g, p, type, i)
    <3>1. CASE i > L
      BY <1>1, <3>1
    <3>2. CASE ~(i > L)
      <4>1. m \in 1 .. L /\ i \in m .. L
        BY <1>0, <3>2
      <4>2. \A j \in i + 1 .. L + 2 : h[j] = g[j]
        BY <1>0, <2>3, <4>1
      <4> QED
        BY <1>2, <4>1, <4>2
    <3> QED
      BY <3>1, <3>2
  <2>5. ASSUME NEW i \in m .. L + 2 PROVE h[i] = CarveTurn(h, p, type, i)
    <3>1. CASE i = m
      BY <2>2, <2>4, <3>1
    <3>2. CASE i # m
      <4>1. i \in m + 1 .. L + 2
        BY <1>0, <3>2
      <4>2. h[i] = g[i] /\ g[i] = CarveTurn(g, p, type, i)
        BY <2>1, <2>3, <4>1
      <4> QED
        BY <2>4, <4>2
    <3> QED
      BY <3>1, <3>2
  <2>6. h = [i \in m .. L + 2 |-> CarveTurn(h, p, type, i)]
    BY <2>2, <2>5
  <2> QED
    BY <2>6
<1>5. bad = {}
  <2>1. SUFFICES ASSUME bad # {} PROVE FALSE
    OBVIOUS
  <2> HIDE DEF Good
  <2>2. PICK k \in bad : \A j \in bad : k <= j
    <3>1. bad \subseteq Nat
      BY <1>0
    <3> HIDE DEF bad
    <3> QED
      BY <2>1, <3>1, LeastExists
  <2>3. k \in 0 .. L + 1 /\ ~Good(L + 2 - k) /\ k # 0
    <3>1. k \in 0 .. L + 1 /\ ~Good(L + 2 - k)
      BY <2>2
    <3>2. L + 2 - 0 = L + 2
      BY <1>0
    <3> QED
      BY <1>3, <3>1, <3>2
  <2>4. k - 1 \in 0 .. L + 1 /\ k - 1 \notin bad
    <3>1. k - 1 \in 0 .. L + 1 /\ ~(k <= k - 1)
      BY <1>0, <2>3
    <3> HIDE DEF bad
    <3> QED
      BY <2>2, <3>1
  <2>5. PICK m \in 1 .. L + 1 : m = L + 2 - k
    BY <1>0, <2>3
  <2>6. L + 2 - (k - 1) = m + 1
    BY <1>0, <2>3, <2>5
  <2>7. Good(m + 1) /\ ~Good(m)
    BY <2>3, <2>4, <2>5, <2>6
  <2> QED
    BY <1>4, <2>7
<1>6. Good(1)
  <2> HIDE DEF Good
  <2>1. L + 1 \in 0 .. L + 1 /\ L + 2 - (L + 1) = 1
    BY <1>0
  <2>2. Good(L + 2 - (L + 1))
    BY <1>5, <2>1
  <2> QED
    BY <2>1, <2>2
<1> QED
  BY <1>6 DEF L

\* and finds files only where they can be cut off, and every one that no earlier one covers.
LEMMA CarveFinds ==
  ASSUME FindingsAssumption, NEW p, Len(p) \in Nat, NEW type
  PROVE  /\ \A c \in Carve(p, type) : \E i \in 1 .. Len(p) : c = <<i, SliceEnd(p, i, type)>>
         /\ \A i \in 1 .. Len(p) : \A end \in i .. Len(p) :
              /\ CutsAt(p, type, i, end)
              /\ \A h \in 1 .. i - 1 : \A e \in h .. Len(p) : CutsAt(p, type, h, e) => e < i
              => <<i, end>> \in Carve(p, type)
<1> DEFINE L == Len(p)
           from == CHOOSE g : g = [i \in 1 .. L + 2 |-> CarveTurn(g, p, type, i)]
           All == {<<i, SliceEnd(p, i, type)>> : i \in 1 .. L}
<1>1. Carve(p, type) = from[1]
  BY Zenon DEF Carve, CarveTurn
<1>2. from = [i \in 1 .. L + 2 |-> CarveTurn(from, p, type, i)]
  BY CarveExists
<1>3. L \in Nat
  OBVIOUS
<1> HIDE DEF from
<1>4. \A i \in 1 .. L + 2 : i > L => from[i] = {}
  <2> TAKE i \in 1 .. L + 2
  <2>1. from[i] = CarveTurn(from, p, type, i)
    BY <1>2
  <2> QED
    BY <2>1 DEF CarveTurn
<1>5. ASSUME NEW i \in 1 .. L
      PROVE  /\ \A end \in i .. L : CutsAt(p, type, i, end) =>
                  from[i] = {<<i, end>>} \union from[end + 1]
             /\ ~Cuts(p, type, i) => from[i] = from[i + 1]
  <2>1. from[i] = CarveTurn(from, p, type, i)
    BY <1>2, <1>3
  <2> QED
    BY <2>1, CarveTurnIs
<1> DEFINE Good(i) == from[i] \subseteq All
           bad == {k \in 0 .. L + 1 : ~Good(L + 2 - k)}
<1>6. ASSUME NEW i \in 1 .. L + 2, \A j \in i + 1 .. L + 2 : Good(j) PROVE Good(i)
  <2>1. CASE i > L
    BY <1>4, <2>1
  <2>2. CASE ~(i > L)
    <3>1. i \in 1 .. L /\ i + 1 \in i + 1 .. L + 2
      BY <1>3, <2>2
    <3>2. CASE Cuts(p, type, i)
      <4>1. PICK end \in i .. L : CutsAt(p, type, i, end)
        BY <3>2 DEF Cuts, L
      <4>2. from[i] = {<<i, end>>} \union from[end + 1] /\ end = SliceEnd(p, i, type)
        BY <1>5, <3>1, <4>1 DEF CutsAt
      <4>3. end + 1 \in i + 1 .. L + 2
        BY <1>3, <3>1
      <4>4. from[end + 1] \subseteq All /\ <<i, end>> \in All
        BY <1>6, <3>1, <4>2, <4>3
      <4> QED
        BY <4>2, <4>4
    <3>3. CASE ~Cuts(p, type, i)
      <4>1. from[i] = from[i + 1]
        BY <1>5, <3>1, <3>3
      <4> QED
        BY <1>6, <3>1, <4>1
    <3> QED
      BY <3>2, <3>3
  <2> QED
    BY <2>1, <2>2
<1> HIDE DEF Good, L
<1>7. Good(1)
  <2>1. bad = {}
    <3>1. SUFFICES ASSUME bad # {} PROVE FALSE
      OBVIOUS
    <3>2. PICK k \in bad : \A j \in bad : k <= j
      <4>1. bad \subseteq Nat
        BY <1>3
      <4> HIDE DEF bad
      <4> QED
        BY <3>1, <4>1, LeastExists
    <3>3. k \in 0 .. L + 1 /\ ~Good(L + 2 - k)
      BY <3>2
    <3>4. PICK m \in 1 .. L + 2 : m = L + 2 - k
      BY <1>3, <3>3
    <3>5. ASSUME NEW j \in m + 1 .. L + 2 PROVE Good(j)
      <4>1. PICK n \in 0 .. L + 1 : n = L + 2 - j
        BY <1>3, <3>3, <3>4
      <4>2. ~(k <= n) /\ L + 2 - n = j
        BY <1>3, <3>3, <3>4, <4>1
      <4>3. n \notin bad
        BY <3>2, <4>2
      <4> QED
        BY <4>1, <4>2, <4>3
    <3> QED
      BY <1>6, <3>3, <3>4, <3>5
  <2>2. L + 1 \in 0 .. L + 1 /\ L + 2 - (L + 1) = 1
    BY <1>3
  <2> QED
    BY <2>1, <2>2
<1>8. ASSUME NEW a \in 1 .. L, NEW end \in a .. L, CutsAt(p, type, a, end),
             \A h \in 1 .. a - 1 : \A e \in h .. L : CutsAt(p, type, h, e) => e < a
      PROVE  <<a, end>> \in from[1]
  <2> DEFINE x == <<a, end>>
             Miss == {j \in 0 .. a - 1 : x \notin from[a - j]}
  <2>0. a \in Nat /\ a >= 1 /\ a <= L
    BY <1>3
  <2>1. x \in from[a]
    BY <1>5, <1>8
  <2>2. ASSUME NEW j \in Miss, \A k \in Miss : j <= k PROVE FALSE
    <3> HIDE DEF x
    <3>1. j \in 0 .. a - 1 /\ x \notin from[a - j]
      OBVIOUS
    <3>2. j # 0
      <4>1. a - 0 = a
        BY <2>0
      <4> QED
        BY <2>1, <3>1, <4>1
    <3>3. PICK i \in 1 .. L : i = a - j /\ i < a
      BY <1>3, <2>0, <3>1, <3>2
    <3>4. \A m \in i + 1 .. a : x \in from[m]
      <4> TAKE m \in i + 1 .. a
      <4>1. PICK k \in 0 .. a - 1 : k = a - m
        BY <1>3, <2>0, <3>3
      <4>2. ~(j <= k) /\ a - k = m
        BY <1>3, <2>0, <3>1, <3>3, <4>1
      <4>3. k \notin Miss
        BY <2>2, <4>2
      <4> QED
        BY <4>1, <4>2, <4>3
    <3> HIDE DEF Miss
    <3>5. CASE Cuts(p, type, i)
      <4>1. PICK e \in i .. L : CutsAt(p, type, i, e)
        BY <3>5 DEF Cuts, L
      <4>2. from[i] = {<<i, e>>} \union from[e + 1]
        BY <1>5, <4>1
      <4>3. i \in 1 .. a - 1
        BY <2>0, <3>3
      <4>4. e < a
        BY <1>8, <4>1, <4>3
      <4>5. e + 1 \in i + 1 .. a
        BY <1>3, <2>0, <4>4
      <4> QED
        BY <3>1, <3>3, <3>4, <4>2, <4>5
    <3>6. CASE ~Cuts(p, type, i)
      <4>1. from[i] = from[i + 1]
        BY <1>5, <3>6
      <4>2. i + 1 \in i + 1 .. a
        BY <2>0, <3>3
      <4> QED
        BY <3>1, <3>3, <3>4, <4>1, <4>2
    <3> QED
      BY <3>5, <3>6
  <2>3. Miss = {}
    <3>1. Miss \subseteq Nat
      BY <2>0
    <3> HIDE DEF Miss
    <3> QED
      BY <2>2, <3>1, LeastExists
  <2>4. a - 1 \in 0 .. a - 1 /\ a - (a - 1) = 1
    BY <2>0
  <2>5. x \in from[a - (a - 1)]
    BY <2>3, <2>4
  <2> QED
    BY <2>4, <2>5
<1>9. \A c \in from[1] : \E i \in 1 .. L : c = <<i, SliceEnd(p, i, type)>>
  BY <1>7 DEF Good
<1> QED
  BY <1>1, <1>8, <1>9 DEF L

\* The file that is cut off at a place, as it is listed
Cutting(p, direction, k, i) ==
  [type |-> k, offset |-> i, size |-> SliceEnd(p, i, Types[k]) - i + 1,
   direction |-> direction, data |-> SubSeq(p, i, SliceEnd(p, i, Types[k]))]

\* Finitely many files are found, no two of one type in one place.
LEMMA CarvedIs ==
  ASSUME FindingsAssumption, NEW p, Len(p) \in Nat, NEW direction
  PROVE  /\ IsFiniteSet(Carved(p, direction))
         /\ \A o \in Carved(p, direction) : o.offset \in Int /\ o.type \in Int
         /\ \A o, q \in Carved(p, direction) : o.offset = q.offset /\ o.type = q.type => o = q
         /\ \A k \in DOMAIN Types : \A c \in Carve(p, Types[k]) :
              \E o \in Carved(p, direction) : o.data = SubSeq(p, c[1], c[2]) /\ o.direction = direction
<1> DEFINE L == Len(p)
           S == Carved(p, direction)
           Of(k, c) == [type |-> k, offset |-> c[1], size |-> c[2] - c[1] + 1,
                        direction |-> direction, data |-> SubSeq(p, c[1], c[2])]
           pairs == (1 .. 8) \X (1 .. L)
           cutting == [n \in pairs |-> Cutting(p, direction, n[1], n[2])]
<1>0. DOMAIN Types = 1 .. 8 /\ L \in Nat
  BY DEF Types
<1>1. S = UNION {{Of(k, c) : c \in Carve(p, Types[k])} : k \in 1 .. 8}
  BY <1>0 DEF Carved
<1>2. \A k \in 1 .. 8 : \A c \in Carve(p, Types[k]) :
        \E i \in 1 .. L : c = <<i, SliceEnd(p, i, Types[k])>>
  BY CarveFinds
<1> HIDE DEF S, L
<1>3. ASSUME NEW o \in S PROVE \E k \in 1 .. 8 : \E i \in 1 .. L : o = Cutting(p, direction, k, i)
  <2>1. PICK k \in 1 .. 8 : o \in {Of(k, c) : c \in Carve(p, Types[k])}
    BY <1>1
  <2>2. PICK c \in Carve(p, Types[k]) : o = Of(k, c)
    BY <2>1
  <2>3. PICK i \in 1 .. L : c = <<i, SliceEnd(p, i, Types[k])>>
    BY <1>2
  <2>4. c[1] = i /\ c[2] = SliceEnd(p, i, Types[k])
    BY <2>3
  <2>5. o = Cutting(p, direction, k, i)
    BY <2>2, <2>4 DEF Cutting
  <2> QED
    BY <2>5
<1>4. IsFiniteSet(S)
  <2>1. IsFiniteSet(1 .. 8) /\ IsFiniteSet(1 .. L)
    <3>1. \A m, n \in Int : IsFiniteSet(m .. n)
      BY FS_Interval
    <3>2. 1 \in Int /\ 8 \in Int /\ L \in Int
      BY <1>0
    <3> QED
      BY ONLY <3>1, <3>2
  <2>2. IsFiniteSet(pairs)
    BY <2>1, FS_Product
  <2>3. IsFiniteSet({cutting[n] : n \in pairs})
    <3> HIDE DEF pairs, cutting
    <3>1. DOMAIN cutting = pairs
      BY DEF cutting
    <3> QED
      BY <2>2, ImageFinite
  <2>4. S \subseteq {cutting[n] : n \in pairs}
    <3> SUFFICES ASSUME NEW o \in S PROVE o \in {cutting[n] : n \in pairs}
      OBVIOUS
    <3>1. PICK k \in 1 .. 8, i \in 1 .. L : o = Cutting(p, direction, k, i)
      BY <1>3
    <3>2. <<k, i>> \in pairs /\ cutting[<<k, i>>] = Cutting(p, direction, k, i)
      OBVIOUS
    <3> HIDE DEF cutting, pairs
    <3> QED
      BY <3>1, <3>2
  <2> HIDE DEF cutting, pairs
  <2> QED
    BY <2>3, <2>4, FS_Subset
<1>5. \A k \in 1 .. 8, i \in 1 .. L :
        /\ Cutting(p, direction, k, i).offset = i /\ Cutting(p, direction, k, i).type = k
        /\ i \in Int /\ k \in Int
  BY <1>0 DEF Cutting
<1>6. \A o \in S : o.offset \in Int /\ o.type \in Int
  BY <1>3, <1>5
<1>7. ASSUME NEW o \in S, NEW q \in S, o.offset = q.offset, o.type = q.type PROVE o = q
  <2>1. PICK k \in 1 .. 8, i \in 1 .. L : o = Cutting(p, direction, k, i)
    BY <1>3
  <2>2. PICK l \in 1 .. 8, j \in 1 .. L : q = Cutting(p, direction, l, j)
    BY <1>3
  <2>3. o.offset = i /\ o.type = k
    BY <1>5, <2>1
  <2>4. q.offset = j /\ q.type = l
    BY <1>5, <2>2
  <2>5. i = j /\ k = l
    BY ONLY <1>7, <2>3, <2>4
  <2> QED
    BY <2>1, <2>2, <2>5
<1>8. ASSUME NEW k \in 1 .. 8, NEW c \in Carve(p, Types[k])
      PROVE  \E o \in S : o.data = SubSeq(p, c[1], c[2]) /\ o.direction = direction
  <2>1. Of(k, c) \in {Of(k, e) : e \in Carve(p, Types[k])}
    OBVIOUS
  <2>2. Of(k, c).data = SubSeq(p, c[1], c[2]) /\ Of(k, c).direction = direction
    OBVIOUS
  <2> HIDE DEF Of
  <2>3. Of(k, c) \in S
    BY <1>1, <2>1
  <2> QED
    BY <2>2, <2>3
<1> QED
  BY <1>0, <1>4, <1>6, <1>7, <1>8 DEF S

\* Putting them in place loses none.
LEMMA InPlaceHolds ==
  ASSUME NEW R, IsFiniteSet(R), \A o \in R : o.offset \in Int /\ o.type \in Int,
         \A o, q \in R : o.offset = q.offset /\ o.type = q.type => o = q
  PROVE  InPlace(R) \in Seq(ToSet(InPlace(R))) /\ ToSet(InPlace(R)) = R
<1> DEFINE Sooner(o, q) == \/ o.offset < q.offset
                           \/ o.offset = q.offset /\ o.type < q.type
           less == {p \in R \X R : Sooner(p[1], p[2])}
           before == [r \in R |-> {s \in R : Sooner(s, r)}]
           t == InPlace(R)
<1>1. /\ t = [n \in 1 .. Cardinality(R) |-> CHOOSE r \in R : Cardinality(before[r]) = n - 1]
      /\ \A r \in R : before[r] = {s \in R : Sooner(s, r)}
  <2>1. t = [n \in 1 .. Cardinality(R) |-> CHOOSE r \in R : Cardinality(before[r]) = n - 1]
    BY DEF InPlace
  <2> QED
    BY <2>1
<1> HIDE DEF before
<1>2. \A r \in R : \A s \in R : <<s, r>> \in less <=> Sooner(s, r)
  OBVIOUS
<1>3. \A r \in R : \A s \in R :
        /\ ~Sooner(r, r)
        /\ r = s \/ Sooner(r, s) \/ Sooner(s, r)
        /\ \A q \in R : Sooner(q, r) /\ Sooner(r, s) => Sooner(q, s)
  OBVIOUS
<1> HIDE DEF less, Sooner, t
<1>4. IsOrder(less, R)
  BY <1>2, <1>3 DEF IsOrder
<1>5. \A r \in R : before[r] = {s \in R : <<s, r>> \in less}
  BY <1>1, <1>2
<1>6. Enumerates(t, R, less)
  BY ONLY IsFiniteSet(R), <1>1, <1>4, <1>5, InCountedOrder
<1>7. /\ Cardinality(R) \in Nat /\ t \in [1 .. Cardinality(R) -> R]
      /\ \A r \in R : \E n \in 1 .. Cardinality(R) : t[n] = r
  BY <1>6 DEF Enumerates
<1>8. t \in Seq(R) /\ Len(t) = Cardinality(R)
  <2>1. PICK n \in Nat : n = Cardinality(R)
    BY <1>7
  <2>2. t \in [1 .. n -> R]
    BY <1>7, <2>1
  <2>3. t \in Seq(R) /\ Len(t) = n
    BY <2>2, SeqDef, LenProperties
  <2> QED
    BY <2>1, <2>3
<1>9. t \in Seq(ToSet(t)) /\ ToSet(t) \subseteq R /\ ToSet(t) = {t[n] : n \in 1 .. Len(t)}
  BY <1>8, OwnElements
<1>10. \A r \in R : r \in ToSet(t)
  BY <1>7, <1>8, <1>9
<1> QED
  BY <1>9, <1>10 DEF t

\* A list of objects has these bytes of a direction.
AmongObjects(objects, data, d) == \E o \in ToSet(objects) : o.data = data /\ o.direction = d

\* While the list is not full, every file that is carved out of a direction is on it.
LEMMA ObjectsAreListed ==
  ASSUME FindingsAssumption, NEW analysis,
         Len(analysis.client) \in Nat, Len(analysis.server) \in Nat, Len(analysis.both) \in Nat,
         Len(Objects(analysis)) < MaxFound,
         NEW p, NEW d, \/ p = analysis.client /\ d = "C->S"
                       \/ p = analysis.server /\ d = "S->C",
         NEW k \in DOMAIN Types, NEW i, NEW j, <<i, j>> \in Carve(p, Types[k])
  PROVE  AmongObjects(Objects(analysis), SubSeq(p, i, j), d)
<1> DEFINE a == InPlace(Carved(analysis.client, "C->S"))
           b == InPlace(Carved(analysis.server, "S->C"))
           c == InPlace(Carved(analysis.both, "both"))
           ordered == (a \o b) \o c
           n == Len(ordered)
           found == Objects(analysis)
<1>1. found = SubSeq(ordered, 1, Min({MaxFound, n}))
  BY DEF Objects
<1>2. ASSUME NEW q, Len(q) \in Nat, NEW e
      PROVE  /\ InPlace(Carved(q, e)) \in Seq(ToSet(InPlace(Carved(q, e))))
             /\ ToSet(InPlace(Carved(q, e))) = Carved(q, e)
  <2>1. PICK R : R = Carved(q, e)
    OBVIOUS
  <2>2. /\ IsFiniteSet(R) /\ \A o \in R : o.offset \in Int /\ o.type \in Int
        /\ \A o, r \in R : o.offset = r.offset /\ o.type = r.type => o = r
    BY <1>2, <2>1, CarvedIs
  <2>3. InPlace(R) \in Seq(ToSet(InPlace(R))) /\ ToSet(InPlace(R)) = R
    BY ONLY <2>2, InPlaceHolds
  <2> QED
    BY <2>1, <2>3
<1>3. /\ a \in Seq(ToSet(a)) /\ ToSet(a) = Carved(analysis.client, "C->S")
      /\ b \in Seq(ToSet(b)) /\ ToSet(b) = Carved(analysis.server, "S->C")
      /\ c \in Seq(ToSet(c))
  BY <1>2
<1> HIDE DEF a, b, c
<1>4. a \o b \in Seq(ToSet(a \o b)) /\ ToSet(a \o b) = ToSet(a) \union ToSet(b)
  BY <1>3, Concatenated
<1>5. /\ ordered \in Seq(ToSet(ordered))
      /\ ToSet(ordered) = ToSet(a \o b) \union ToSet(c)
  <2>1. PICK x : x = a \o b
    OBVIOUS
  <2>2. x \in Seq(ToSet(x)) /\ c \in Seq(ToSet(c))
    BY <1>3, <1>4, <2>1
  <2>3. x \o c \in Seq(ToSet(x \o c)) /\ ToSet(x \o c) = ToSet(x) \union ToSet(c)
    BY ONLY <2>2, Concatenated
  <2> QED
    BY <2>1, <2>3
<1>6. n \in Nat
  BY <1>5, LenProperties
<1> HIDE DEF ordered, n, found
<1>7. found = ordered
  <2>1. MaxFound \in Nat \ {0}
    BY DEF FindingsAssumption
  <2>2. Min({MaxFound, n}) = IF MaxFound <= n THEN MaxFound ELSE n
    BY <1>6, <2>1, LesserOf
  <2>3. CASE ~(MaxFound <= n)
    BY <1>1, <1>5, <2>2, <2>3 DEF n
  <2>4. CASE MaxFound <= n
    <3>1. found = SubSeq(ordered, 1, MaxFound)
      BY <1>1, <2>2, <2>4
    <3>2. Len(found) = MaxFound
      BY <1>5, <1>6, <2>1, <2>4, <3>1, SubSeqProperties DEF n
    <3> QED
      BY <2>1, <3>2 DEF found
  <2> QED
    BY <2>3, <2>4
<1>8. Carved(p, d) \subseteq ToSet(found)
  BY <1>3, <1>4, <1>5, <1>7
<1>9. Len(p) \in Nat
  OBVIOUS
<1>10. \E o \in Carved(p, d) : o.data = SubSeq(p, <<i, j>>[1], <<i, j>>[2]) /\ o.direction = d
  <2>1. \A e \in Carve(p, Types[k]) :
          \E o \in Carved(p, d) : o.data = SubSeq(p, e[1], e[2]) /\ o.direction = d
    <3>1. \A l \in DOMAIN Types : \A e \in Carve(p, Types[l]) :
            \E o \in Carved(p, d) : o.data = SubSeq(p, e[1], e[2]) /\ o.direction = d
      BY ONLY FindingsAssumption, <1>9, CarvedIs
    <3> QED
      BY <3>1
  <2> QED
    BY <2>1
<1>11. <<i, j>>[1] = i /\ <<i, j>>[2] = j
  OBVIOUS
<1>12. PICK o \in Carved(p, d) : o.data = SubSeq(p, i, j) /\ o.direction = d
  BY <1>10, <1>11
<1>13. o \in ToSet(found)
  BY <1>8
<1> QED
  BY <1>12, <1>13 DEF AmongObjects, found

\* Every file that was sent is carved out of the bytes it was sent in.
LEMMA SentFiles ==
  ASSUME WorkbenchAssumption, StreamsAssumption, FindingsAssumption,
         NEW s \in Sent, NEW file \in s.files
  PROVE  \E k \in DOMAIN Types : \E i, j \in Int :
           file = SubSeq(s.bytes, i, j) /\ <<i, j>> \in Carve(s.bytes, Types[k])
<1> DEFINE p == s.bytes
<1>1. Len(p) \in Nat /\ DOMAIN p = 1 .. Len(p)
  <2>1. p \in Seq(ToSet(p))
    BY SentBytes
  <2> QED
    BY <2>1, LenProperties
<1> DEFINE Lies(type, i, j) ==
             /\ file = SubSeq(p, i, j) /\ FileAt(p, i, j, type)
             /\ \A h \in 1 .. i - 1 : \A e \in h .. Len(p) : FileAt(p, h, e, type) => e < i
<1>2. \E type \in {"gif", "jpeg", "pdf", "png", "zip"} : \E i \in DOMAIN p : \E j \in i .. Len(p) :
        Lies(type, i, j)
  BY DEF StreamsAssumption
<1> HIDE DEF Lies
<1>3. PICK type \in {"gif", "jpeg", "pdf", "png", "zip"}, i \in DOMAIN p :
        \E j \in i .. Len(p) : Lies(type, i, j)
  BY <1>2
<1>4. PICK j \in i .. Len(p) : Lies(type, i, j)
  BY <1>3
<1>5. /\ file = SubSeq(p, i, j) /\ FileAt(p, i, j, type)
      /\ \A h \in 1 .. i - 1 : \A e \in h .. Len(p) : FileAt(p, h, e, type) => e < i
  BY <1>4 DEF Lies
<1> HIDE DEF p
<1>6. i \in 1 .. Len(p) /\ i \in Int /\ j \in Int
  BY <1>1
<1>7. CutsAt(p, type, i, j)
  BY <1>1, <1>5, <1>6, SliceIsFile DEF CutsAt
<1>8. \A h \in 1 .. i - 1 : \A e \in h .. Len(p) : CutsAt(p, type, h, e) => e < i
  <2> TAKE h \in 1 .. i - 1
  <2> TAKE e \in h .. Len(p)
  <2>1. h \in 1 .. Len(p)
    BY <1>1, <1>6
  <2>2. FileAt(p, h, e, type) <=> Begins(p[h], type) /\ SliceEnd(p, h, type) = e
    BY ONLY <1>1, <2>1, type \in {"gif", "jpeg", "pdf", "png", "zip"}, e \in h .. Len(p), SliceIsFile
  <2> QED
    BY <1>5, <2>2 DEF CutsAt
<1>9. <<i, j>> \in Carve(p, type)
  BY <1>1, <1>6, <1>7, <1>8, CarveFinds
<1>10. \E k \in DOMAIN Types : Types[k] = type
  <2>1. /\ Types[2] = "gif" /\ Types[4] = "jpeg" /\ Types[5] = "pdf" /\ Types[7] = "png"
        /\ Types[8] = "zip" /\ DOMAIN Types = 1 .. 8
    BY DEF Types
  <2>2. 2 \in 1 .. 8 /\ 4 \in 1 .. 8 /\ 5 \in 1 .. 8 /\ 7 \in 1 .. 8 /\ 8 \in 1 .. 8
    OBVIOUS
  <2> QED
    BY <2>1, <2>2
<1> QED
  BY <1>5, <1>6, <1>9, <1>10 DEF p

\* What is shown of a sender whose stream was stored as a whole is that stream.
LEMMA ShownWhole ==
  ASSUME WorkbenchAssumption, MergeAssumption, ShownInv,
         NEW f \in Shown, NEW s \in Sent, Complete(f.rows, s), f.anchor \in {s.from, s.to},
         NEW a, a = Analysis(f.rows, f.anchor)
  PROVE  /\ s.bytes = IF s.from = f.anchor THEN a.client ELSE a.server
         /\ Len(a.client) \in Nat /\ Len(a.server) \in Nat /\ Len(a.both) \in Nat
<1>1. OfOneStream(f.rows, s) /\ KeptOf(f.rows, s) = s.bytes
  BY DEF Complete
<1>2. StreamExact
  BY ShownExactly
<1>3. s.bytes = IF s.from = f.anchor THEN a.client ELSE a.server
  BY <1>1, <1>2 DEF StreamExact
<1>4. OneFlow(f.rows) /\ f.rows[1].proto = "TCP"
  BY <1>1, ShownFlows DEF OfOneStream
<1>5. Len(a.client) \in Nat /\ Len(a.server) \in Nat /\ Len(a.both) \in Nat
  BY <1>4, AnalysisBytes
<1> QED
  BY <1>3, <1>5

\* The files of what is shown are found because what is shown is what was sent.
LEMMA FilesInShown ==
  ASSUME WorkbenchAssumption, StreamsAssumption, MergeAssumption, FindingsAssumption, ShownInv
  PROVE  FilesFound
<1> SUFFICES ASSUME NEW f \in Shown, NEW s \in {t \in Sent : Complete(f.rows, t)},
                    f.anchor \in {s.from, s.to},
                    NEW objects \in {Objects(Analysis(f.rows, f.anchor))},
                    Len(objects) < MaxFound, NEW file \in s.files
             PROVE  \E o \in ToSet(objects) : o.data = file /\ o.direction = DirectionOf(s, f.anchor)
  BY DEF FilesFound
<1>1. PICK a : a = Analysis(f.rows, f.anchor)
  OBVIOUS
<1>2. objects = Objects(a) /\ s \in Sent /\ Complete(f.rows, s)
  BY <1>1
<1>3. /\ s.bytes = IF s.from = f.anchor THEN a.client ELSE a.server
      /\ Len(a.client) \in Nat /\ Len(a.server) \in Nat /\ Len(a.both) \in Nat
  BY <1>1, <1>2, ShownWhole
<1>4. DirectionOf(s, f.anchor) = IF s.from = f.anchor THEN "C->S" ELSE "S->C"
  BY DEF DirectionOf
<1>5. PICK k \in DOMAIN Types, i \in Int, j \in Int :
        file = SubSeq(s.bytes, i, j) /\ <<i, j>> \in Carve(s.bytes, Types[k])
  BY <1>2, SentFiles
<1>6. PICK p, d : p = s.bytes /\ d = DirectionOf(s, f.anchor)
  OBVIOUS
<1>7. (p = a.client /\ d = "C->S") \/ (p = a.server /\ d = "S->C")
  BY <1>3, <1>4, <1>6
<1>8. <<i, j>> \in Carve(p, Types[k]) /\ file = SubSeq(p, i, j) /\ Len(Objects(a)) < MaxFound
  BY <1>2, <1>5, <1>6
<1>9. AmongObjects(Objects(a), SubSeq(p, i, j), d)
  BY ONLY FindingsAssumption, <1>3, <1>7, <1>8, k \in DOMAIN Types, ObjectsAreListed
<1> QED
  BY <1>2, <1>6, <1>8, <1>9 DEF AmongObjects

\* FilesFound: every file of a stream that was stored as a whole is on the list of
\* objects byte for byte, while that list is not full.
THEOREM FilesAreFound == WorkbenchSpec => []FilesFound
<1>1. WorkbenchInit => ShownInv
  BY ShownInit
<1>2. ShownInv /\ [WorkbenchNext]_workbenchVars => ShownInv'
  BY ShownStep, WorkbenchAssumption
<1>3. ShownInv => FilesFound
  BY FilesInShown, WorkbenchAssumption, StreamsAssumption, MergeAssumption, FindingsAssumption
<1> QED
  BY <1>1, <1>2, <1>3, PTL DEF WorkbenchSpec

-------------------------------------------------------------------------------
(* Requests and responses *)

\* The first lines of a kind are found where they are.
LEMMA LinesFound ==
  ASSUME NEW p, Len(p) \in Nat, DOMAIN p = 1 .. Len(p), NEW kind, NEW n \in Nat,
         NEW places \in [1 .. n -> 1 .. Len(p)], LinesAt(p, kind, places)
  PROVE  FirstLines(p, kind) = places
<1> DEFINE S == {i \in 1 .. Len(p) : Is(p[i], kind)}
           ident == [i \in 1 .. Len(p) |-> i]
           found == ElementsAt(ident, S)
<1>1. FirstLines(p, kind) = found
  BY DEF FirstLines
<1>2. /\ \A k, l \in 1 .. n : k < l => places[k] < places[l]
      /\ S = {places[k] : k \in 1 .. n}
  BY DEF LinesAt
<1>3. IsFiniteSet(S) /\ S \subseteq Int
  <2>1. IsFiniteSet(1 .. Len(p))
    <3>1. \A m, l \in Int : IsFiniteSet(m .. l)
      BY FS_Interval
    <3> QED
      BY <3>1
  <2>2. S \subseteq 1 .. Len(p)
    OBVIOUS
  <2> HIDE DEF S
  <2>3. IsFiniteSet(S)
    BY ONLY <2>1, <2>2, FS_Subset
  <2>4. S \subseteq Int
    BY <2>2
  <2> QED
    BY <2>3, <2>4
<1>4. \A k \in 1 .. n : ident[places[k]] = places[k]
  OBVIOUS
<1> HIDE DEF S, ident
<1>5. found \in Seq(ToSet(found)) /\ HoldsExactly(found, ident, S)
  BY <1>3, PickedOut
<1>6. places \in Seq(ToSet(places)) /\ Len(places) = n
  <2>1. places \in Seq(1 .. Len(p)) /\ Len(places) = n
    BY SeqDef, LenProperties
  <2> QED
    BY <2>1, OwnElements
<1>7. HoldsExactly(places, ident, S)
  <2>1. places \in [1 .. Len(places) -> S]
    BY <1>2, <1>6
  <2>2. \A x \in S : \E k \in 1 .. Len(places) : places[k] = x
    BY <1>2, <1>6
  <2>3. \A k \in 1 .. Len(places) : places[k] = ident[places[k]]
    BY <1>4, <1>6
  <2>4. \A k, l \in 1 .. Len(places) : k < l => places[k] < places[l]
    BY <1>2, <1>6
  <2> QED
    BY <2>1, <2>2, <2>3, <2>4 DEF HoldsExactly
<1> HIDE DEF found
<1>8. found = places
  BY ONLY <1>3, <1>5, <1>6, <1>7, HeldOnce
<1> QED
  BY <1>1, <1>8

\* There are none where there are none.
LEMMA NoLines ==
  ASSUME NEW p, Len(p) \in Nat, DOMAIN p = 1 .. Len(p), NEW kind,
         \A i \in 1 .. Len(p) : ~Is(p[i], kind)
  PROVE  FirstLines(p, kind) = << >> /\ Len(FirstLines(p, kind)) = 0
<1>1. PICK none : none = [k \in 1 .. 0 |-> 1]
  OBVIOUS
<1>2. none \in [1 .. 0 -> 1 .. Len(p)] /\ LinesAt(p, kind, none)
  <2>1. {i \in DOMAIN p : Is(p[i], kind)} = {}
    OBVIOUS
  <2>2. 1 .. 0 = {} /\ DOMAIN none = {}
    BY <1>1
  <2> QED
    BY <1>1, <2>1, <2>2 DEF LinesAt
<1>3. FirstLines(p, kind) = none
  <2>1. 0 \in Nat
    OBVIOUS
  <2> QED
    BY <1>2, <2>1, LinesFound
<1>4. none = << >>
  BY <1>1
<1> QED
  BY <1>3, <1>4

\* A part of a part is a part.
LEMMA PartOfPart ==
  ASSUME NEW p, p \in Seq(ToSet(p)), NEW m \in Nat \ {0}, NEW n \in Nat, n <= Len(p),
         NEW l \in Nat, l <= n - m + 1
  PROVE  /\ Len(SubSeq(p, m, n)) >= l
         /\ SubSeq(SubSeq(p, m, n), 1, l) = SubSeq(p, m, m + l - 1)
<1>1. Len(p) \in Nat /\ \A i \in 1 .. Len(p) : p[i] \in ToSet(p)
  BY LenProperties, ElementOfSeq
<1> DEFINE r == SubSeq(p, m, n)
           s == SubSeq(p, m, m + l - 1)
           L == n - m + 1
<1>2. m \in Int /\ n \in Int /\ l \in Int /\ m + l - 1 \in Int /\ m + l - 1 <= n /\ L \in Int /\ 0 <= L
  OBVIOUS
<1>3. r \in Seq(ToSet(p)) /\ Len(r) = L /\ \A k \in 1 .. L : r[k] = p[m + k - 1]
  <2>1. \A i \in m .. n : p[i] \in ToSet(p)
    BY <1>1
  <2> QED
    BY <1>2, <2>1, SubSeqProperties
<1>4. s \in Seq(ToSet(p)) /\ Len(s) = l /\ \A k \in 1 .. l : s[k] = p[m + k - 1]
  <2>1. \A i \in m .. m + l - 1 : p[i] \in ToSet(p)
    BY <1>1
  <2> QED
    BY <1>2, <2>1, SubSeqProperties
<1> HIDE DEF r, s, L
<1>5. l <= L
  BY DEF L
<1> DEFINE t == SubSeq(r, 1, l)
<1>6. t \in Seq(ToSet(p)) /\ Len(t) = l /\ \A k \in 1 .. l : t[k] = r[k]
  <2>1. \A i \in 1 .. l : r[i] \in ToSet(p)
    BY <1>2, <1>3, <1>5, ElementOfSeq
  <2> QED
    BY <1>2, <2>1, SubSeqProperties
<1> HIDE DEF t
<1>7. \A k \in 1 .. l : t[k] = s[k]
  <2> TAKE k \in 1 .. l
  <2>1. k \in 1 .. L
    BY <1>2, <1>5
  <2>2. r[k] = p[m + k - 1]
    BY <1>3, <2>1
  <2>3. t[k] = r[k] /\ s[k] = p[m + k - 1]
    BY <1>4, <1>6
  <2> QED
    BY <2>2, <2>3
<1>8. t = s
  BY <1>4, <1>6, <1>7, SeqEqual
<1> QED
  BY <1>2, <1>3, <1>5, <1>8 DEF r, s, t

\* The message that begins at a first line and ends at last
MessageAt(p, first, last) ==
  LET blank == FirstOf({i \in first .. last : Is(p[i], "blank")})
      rest == IF blank = 0 THEN << >> ELSE SubSeq(p, blank + 1, last)
      length == Token[p[first]].size
  IN  [line |-> p[first], length |-> length,
       body |-> IF length > 0 /\ length <= Len(rest) THEN SubSeq(rest, 1, length) ELSE rest]

\* The last place of the k-th message
LastOf(starts, p, k) == IF k < Len(starts) THEN starts[k + 1] - 1 ELSE Len(p)

\* Messages are cut where the next one begins.
LEMMA MessagesAre ==
  ASSUME NEW p, NEW kind, NEW starts, starts = FirstLines(p, kind)
  PROVE  Messages(p, kind) = [k \in DOMAIN starts |-> MessageAt(p, starts[k], LastOf(starts, p, k))]
BY DEF Messages, MessageAt, LastOf

\* A message has the line and the body that were sent.
LEMMA BodyFound ==
  ASSUME NEW p, p \in Seq(ToSet(p)), NEW first \in 1 .. Len(p), NEW last \in 1 .. Len(p),
         Token[p[first]].size \in Nat, NEW body, BodyAt(p, first, last, body)
  PROVE  MessageAt(p, first, last).line = p[first] /\ MessageAt(p, first, last).body = body
<1> DEFINE S == {i \in first .. last : Is(p[i], "blank")}
           length == Token[p[first]].size
           rest == IF FirstOf(S) = 0 THEN << >> ELSE SubSeq(p, FirstOf(S) + 1, last)
           message == MessageAt(p, first, last)
<1>1. /\ message.line = p[first]
      /\ message.body = IF length > 0 /\ length <= Len(rest) THEN SubSeq(rest, 1, length) ELSE rest
  BY DEF MessageAt
<1>2. Len(p) \in Nat /\ length \in Nat
  BY LenProperties
<1>3. PICK blank \in first .. last : \E end \in blank .. last :
        /\ Is(p[blank], "blank") /\ \A i \in first .. blank - 1 : ~Is(p[i], "blank")
        /\ end = IF length = 0 THEN last ELSE blank + length
        /\ body = SubSeq(p, blank + 1, end)
  BY DEF BodyAt
<1>4. /\ Is(p[blank], "blank") /\ \A i \in first .. blank - 1 : ~Is(p[i], "blank")
      /\ (IF length = 0 THEN last ELSE blank + length) \in blank .. last
      /\ body = SubSeq(p, blank + 1, IF length = 0 THEN last ELSE blank + length)
  BY <1>3
<1>5. blank \in Nat /\ blank \in 1 .. Len(p) /\ last \in Nat /\ last <= Len(p)
  BY <1>2
<1>6. FirstOf(S) = blank
  <2>1. S \subseteq Nat /\ blank \in S
    BY <1>4
  <2>2. \A y \in S : blank <= y
    <3> TAKE y \in S
    <3>1. y \in first .. last /\ y \notin first .. blank - 1
      BY <1>4
    <3> QED
      BY <1>5, <3>1
  <2> HIDE DEF S
  <2> QED
    BY <2>1, <2>2, FirstThere
<1> HIDE DEF S
<1>7. rest = SubSeq(p, blank + 1, last)
  <2>1. FirstOf(S) = blank /\ FirstOf(S) # 0
    BY <1>5, <1>6
  <2> QED
    BY ONLY <2>1
<1> HIDE DEF length, message, rest
<1>8. CASE length = 0
  BY <1>1, <1>2, <1>4, <1>7, <1>8 DEF message
<1>9. CASE length # 0
  <2>1. length > 0 /\ blank + length <= last /\ body = SubSeq(p, blank + 1, blank + length)
    <3>1. blank + length \in blank .. last /\ body = SubSeq(p, blank + 1, blank + length)
      BY <1>4, <1>9
    <3> QED
      BY <1>2, <1>5, <1>9, <3>1
  <2>2. PICK m \in Nat \ {0} : m = blank + 1
    BY <1>5
  <2>3. length <= last - m + 1 /\ m + length - 1 = blank + length
    BY <1>2, <1>5, <2>1, <2>2
  <2>4. Len(SubSeq(p, m, last)) >= length /\ SubSeq(SubSeq(p, m, last), 1, length) = SubSeq(p, m, m + length - 1)
    BY ONLY p \in Seq(ToSet(p)), <1>2, <1>5, <2>3, PartOfPart
  <2>5. Len(SubSeq(p, m, last)) \in Nat
    <3>1. \A i \in m .. last : p[i] \in ToSet(p)
      <4>1. \A i \in 1 .. Len(p) : p[i] \in ToSet(p)
        BY ElementOfSeq
      <4> QED
        BY <1>2, <1>5, <4>1
    <3>2. SubSeq(p, m, last) \in Seq(ToSet(p))
      BY <1>5, <3>1, SubSeqProperties
    <3> QED
      BY <3>2, LenProperties
  <2>6. length <= Len(rest) /\ SubSeq(rest, 1, length) = SubSeq(p, blank + 1, blank + length)
    BY <1>2, <1>7, <2>2, <2>3, <2>4, <2>5
  <2> QED
    BY <1>1, <2>1, <2>6 DEF message
<1> QED
  BY <1>1, <1>8, <1>9 DEF message

\* Whichever side is the client, the side that asks is found.
LEMMA AskerFound ==
  ASSUME NEW p, p \in Seq(ToSet(p)), NEW q, q \in Seq(ToSet(q)),
         \A i \in 1 .. Len(p) : ~Is(p[i], "response"),
         \A i \in 1 .. Len(q) : ~Is(q[i], "request"),
         NEW n \in Nat, Len(FirstLines(p, "request")) = n, Len(FirstLines(q, "response")) = n,
         n = 0 => FirstLines(p, "request") = << >> /\ FirstLines(q, "response") = << >>
  PROVE  /\ Resolve(p, q) = <<Requests(p), Responses(q)>>
         /\ Resolve(q, p) = <<Requests(p), Responses(q)>>
<1>1. /\ Len(p) \in Nat /\ DOMAIN p = 1 .. Len(p)
      /\ Len(q) \in Nat /\ DOMAIN q = 1 .. Len(q)
  BY LenProperties
<1>2. FirstLines(p, "response") = << >> /\ Len(FirstLines(p, "response")) = 0
  BY <1>1, NoLines
<1>3. FirstLines(q, "request") = << >> /\ Len(FirstLines(q, "request")) = 0
  BY <1>1, NoLines
<1>4. /\ Resolve(p, q) = IF 0 + 0 > n + n THEN <<Requests(q), Responses(p)>>
                         ELSE <<Requests(p), Responses(q)>>
      /\ Resolve(q, p) = IF n + n > 0 + 0 THEN <<Requests(p), Responses(q)>>
                         ELSE <<Requests(q), Responses(p)>>
  BY <1>2, <1>3 DEF Resolve
<1>5. CASE n > 0
  BY <1>4, <1>5
<1>6. CASE n = 0
  <2>1. FirstLines(p, "request") = << >> /\ FirstLines(q, "response") = << >>
    BY <1>6
  <2>2. \A x, kind : FirstLines(x, kind) = << >> => Messages(x, kind) = << >>
    <3> TAKE x, kind
    <3> HAVE FirstLines(x, kind) = << >>
    <3>1. PICK starts : starts = FirstLines(x, kind)
      OBVIOUS
    <3>2. Messages(x, kind) = [k \in DOMAIN starts |-> MessageAt(x, starts[k], LastOf(starts, x, k))]
      BY <3>1, MessagesAre
    <3>3. DOMAIN starts = {}
      BY <3>1
    <3> QED
      BY <3>2, <3>3
  <2>3. Requests(p) = << >> /\ Requests(q) = << >>
    BY <1>3, <2>1, <2>2 DEF Requests
  <2>4. Responses(p) = Responses(q)
    <3>1. Messages(p, "response") = << >> /\ Messages(q, "response") = << >>
      BY <1>2, <2>1, <2>2
    <3> QED
      BY <3>1 DEF Responses
  <2> QED
    BY <1>4, <1>6, <2>3, <2>4
<1> QED
  BY <1>5, <1>6

\* The responses have the lines and bodies of the messages, in their order.
LEMMA ResponsesAre ==
  ASSUME NEW q, NEW answers, answers = FirstLines(q, "response"), NEW n \in Nat,
         DOMAIN answers = 1 .. n
  PROVE  /\ Len(Responses(q)) = n /\ DOMAIN Responses(q) = 1 .. n
         /\ \A k \in 1 .. n :
              LET m == MessageAt(q, answers[k], LastOf(answers, q, k))
              IN  Responses(q)[k].line = m.line /\ Responses(q)[k].body = m.body
<1> DEFINE found == Messages(q, "response")
           m(k) == MessageAt(q, answers[k], LastOf(answers, q, k))
<1>1. found = [k \in 1 .. n |-> m(k)]
  BY MessagesAre
<1>2. Responses(q) = [k \in DOMAIN found |-> [found[k] EXCEPT !.length = Max({@, Len(found[k].body)})]]
  BY DEF Responses
<1>3. \A k \in 1 .. n : m(k) = [line |-> m(k).line, length |-> m(k).length, body |-> m(k).body]
  BY DEF MessageAt
<1> HIDE DEF found, m
<1>4. DOMAIN found = 1 .. n /\ \A k \in 1 .. n : found[k] = m(k)
  BY <1>1
<1>5. \A k \in 1 .. n : Responses(q)[k] = [m(k) EXCEPT !.length = Max({@, Len(m(k).body)})]
  BY <1>2, <1>4
<1>6. \A k \in 1 .. n : Responses(q)[k].line = m(k).line /\ Responses(q)[k].body = m(k).body
  <2> TAKE k \in 1 .. n
  <2>1. PICK x : x = m(k)
    OBVIOUS
  <2>2. x = [line |-> x.line, length |-> x.length, body |-> x.body]
    BY <1>3, <2>1
  <2>3. [x EXCEPT !.length = Max({@, Len(x.body)})].line = x.line
    BY <2>2
  <2>4. [x EXCEPT !.length = Max({@, Len(x.body)})].body = x.body
    BY <2>2
  <2> QED
    BY <1>5, <2>1, <2>3, <2>4
<1>7. Len(Responses(q)) = n /\ DOMAIN Responses(q) = 1 .. n
  BY <1>2, <1>4
<1> QED
  BY <1>6, <1>7 DEF m

\* The requests have the lines of the messages.
LEMMA RequestsAre ==
  ASSUME NEW p, NEW asks, asks = FirstLines(p, "request"), NEW n \in Nat, DOMAIN asks = 1 .. n
  PROVE  /\ Len(Requests(p)) = n /\ DOMAIN Requests(p) = 1 .. n
         /\ \A k \in 1 .. n : Requests(p)[k].line = p[asks[k]]
<1>1. Requests(p) = [k \in 1 .. n |-> MessageAt(p, asks[k], LastOf(asks, p, k))]
  BY MessagesAre DEF Requests
<1>2. \A k \in 1 .. n : MessageAt(p, asks[k], LastOf(asks, p, k)).line = p[asks[k]]
  BY DEF MessageAt
<1> QED
  BY <1>1, <1>2

\* As many requests as responses make that many pairs.
LEMMA PairsAre ==
  ASSUME NEW n \in Nat, NEW requests, DOMAIN requests = 1 .. n, Len(requests) = n,
         NEW responses, DOMAIN responses = 1 .. n, Len(responses) = n
  PROVE  PairsOf(requests, responses) =
           [k \in 1 .. n |-> [request |-> requests[k], response |-> responses[k]]]
<1>1. Max({n, n}) = n
  BY GreaterOf
<1> QED
  BY <1>1 DEF PairsOf

\* What a talk is known by
Talking(talk, asks, answers) ==
  LET p == talk.ask.bytes
      q == talk.answer.bytes
      n == Len(talk.pairs)
  IN  /\ LinesAt(p, "request", asks) /\ LinesAt(q, "response", answers)
      /\ \A k \in 1 .. n :
           /\ talk.pairs[k] = <<p[asks[k]], q[answers[k]], talk.pairs[k][3]>>
           /\ BodyAt(q, answers[k], IF k < n THEN answers[k + 1] - 1 ELSE Len(q), talk.pairs[k][3])

\* These are its requests and responses.
PairsOfTalk(talk, pairs) ==
  talk.pairs = [k \in DOMAIN pairs |->
                  <<pairs[k].request.line, pairs[k].response.line, pairs[k].response.body>>]

\* From the two streams of a talk, whichever is the client's, its pairs are found.
LEMMA TalkFound ==
  ASSUME WorkbenchAssumption, TalksAssumption, FindingsAssumption, NEW talk \in Talks,
         NEW analysis,
         \/ analysis.client = talk.ask.bytes /\ analysis.server = talk.answer.bytes
         \/ analysis.client = talk.answer.bytes /\ analysis.server = talk.ask.bytes
  PROVE  PairsOfTalk(talk, Pairs(analysis))
<1> DEFINE p == talk.ask.bytes
           q == talk.answer.bytes
           n == Len(talk.pairs)
<1>1. /\ talk.ask \in Sent /\ talk.answer \in Sent
      /\ \A i \in DOMAIN p : ~Is(p[i], "response")
      /\ \A i \in DOMAIN q : ~Is(q[i], "request") /\ q[i] \in DOMAIN Token
      /\ talk.pairs \in Seq(ToSet(talk.pairs))
  BY DEF TalksAssumption
<1>2. \E asks \in [1 .. n -> DOMAIN p] : \E answers \in [1 .. n -> DOMAIN q] :
        Talking(talk, asks, answers)
  BY DEF TalksAssumption, Talking
<1>3. PICK asks \in [1 .. n -> DOMAIN p], answers \in [1 .. n -> DOMAIN q] : Talking(talk, asks, answers)
  BY <1>2
<1>4. /\ LinesAt(p, "request", asks) /\ LinesAt(q, "response", answers)
      /\ \A k \in 1 .. n :
           /\ talk.pairs[k] = <<p[asks[k]], q[answers[k]], talk.pairs[k][3]>>
           /\ BodyAt(q, answers[k], IF k < n THEN answers[k + 1] - 1 ELSE Len(q), talk.pairs[k][3])
  BY <1>3 DEF Talking
<1>5. p \in Seq(ToSet(p)) /\ q \in Seq(ToSet(q))
  BY <1>1, SentBytes
<1>6. /\ n \in Nat /\ talk.pairs = [k \in 1 .. n |-> talk.pairs[k]]
  BY <1>1, LenProperties
<1>7. Pairs(analysis) = PairsOf(Resolve(analysis.client, analysis.server)[1],
                                Resolve(analysis.client, analysis.server)[2])
  BY DEF Pairs
<1>8. PICK x, y : x = p /\ y = q
  OBVIOUS
<1>9. /\ x \in Seq(ToSet(x)) /\ y \in Seq(ToSet(y))
      /\ Len(x) \in Nat /\ DOMAIN x = 1 .. Len(x) /\ Len(y) \in Nat /\ DOMAIN y = 1 .. Len(y)
  BY <1>5, <1>8, LenProperties
<1>10. PICK N \in Nat : N = n
  BY <1>6
<1>11. /\ asks \in [1 .. N -> 1 .. Len(x)] /\ answers \in [1 .. N -> 1 .. Len(y)]
       /\ LinesAt(x, "request", asks) /\ LinesAt(y, "response", answers)
  BY <1>3, <1>4, <1>8, <1>9, <1>10
<1>12. /\ \A i \in 1 .. Len(x) : ~Is(x[i], "response")
       /\ \A i \in 1 .. Len(y) : ~Is(y[i], "request") /\ y[i] \in DOMAIN Token
  BY <1>1, <1>8, <1>9
<1>13. /\ talk.pairs = [k \in 1 .. N |-> talk.pairs[k]]
       /\ \A k \in 1 .. N :
           /\ talk.pairs[k] = <<x[asks[k]], y[answers[k]], talk.pairs[k][3]>>
           /\ BodyAt(y, answers[k], IF k < N THEN answers[k + 1] - 1 ELSE Len(y), talk.pairs[k][3])
  BY <1>4, <1>6, <1>8, <1>10
<1>14. PICK both : both = Resolve(analysis.client, analysis.server)
  OBVIOUS
<1>15. both = Resolve(x, y) \/ both = Resolve(y, x)
  BY <1>8, <1>14
<1>16. Pairs(analysis) = PairsOf(both[1], both[2])
  BY <1>7, <1>14
<1> HIDE DEF p, q, n
<1>17. asks = FirstLines(x, "request") /\ answers = FirstLines(y, "response")
  <2>1. FirstLines(x, "request") = asks
    BY ONLY <1>9, <1>11, N \in Nat, LinesFound
  <2>2. FirstLines(y, "response") = answers
    BY ONLY <1>9, <1>11, N \in Nat, LinesFound
  <2> QED
    BY <2>1, <2>2
<1>18. Len(asks) = N /\ Len(answers) = N /\ DOMAIN asks = 1 .. N /\ DOMAIN answers = 1 .. N
  BY <1>11
<1>19. both = <<Requests(x), Responses(y)>>
  <2>1. N = 0 => asks = << >> /\ answers = << >>
    BY <1>18
  <2>2. /\ Resolve(x, y) = <<Requests(x), Responses(y)>>
        /\ Resolve(y, x) = <<Requests(x), Responses(y)>>
    BY ONLY <1>9, <1>12, <1>17, <1>18, <2>1, N \in Nat, AskerFound
  <2> QED
    BY <1>15, <2>2
<1>20. /\ Len(Requests(x)) = N /\ DOMAIN Requests(x) = 1 .. N
       /\ \A k \in 1 .. N : Requests(x)[k].line = x[asks[k]]
  BY ONLY <1>17, <1>18, N \in Nat, RequestsAre
<1>21. /\ Len(Responses(y)) = N /\ DOMAIN Responses(y) = 1 .. N
       /\ \A k \in 1 .. N :
              LET m == MessageAt(y, answers[k], LastOf(answers, y, k))
              IN  Responses(y)[k].line = m.line /\ Responses(y)[k].body = m.body
  BY ONLY <1>17, <1>18, N \in Nat, ResponsesAre
<1>22. \A k \in 1 .. N : /\ Responses(y)[k].line = y[answers[k]]
                         /\ Responses(y)[k].body = talk.pairs[k][3]
  <2> TAKE k \in 1 .. N
  <2>1. PICK last : last = LastOf(answers, y, k)
    OBVIOUS
  <2>2. last = IF k < N THEN answers[k + 1] - 1 ELSE Len(y)
    BY <1>18, <2>1 DEF LastOf
  <2>3. BodyAt(y, answers[k], last, talk.pairs[k][3]) /\ answers[k] \in 1 .. Len(y)
    BY <1>11, <1>13, <2>2
  <2>4. last \in 1 .. Len(y)
    <3>1. \E blank \in answers[k] .. last : TRUE
      BY <2>3 DEF BodyAt
    <3>2. CASE k < N
      <4>1. k + 1 \in 1 .. N
        BY <3>2
      <4>2. answers[k + 1] \in 1 .. Len(y)
        BY <1>11, <4>1
      <4> QED
        BY <1>9, <2>2, <2>3, <3>1, <3>2, <4>2
    <3>3. CASE ~(k < N)
      BY <1>9, <2>2, <2>3, <3>1, <3>3
    <3> QED
      BY <3>2, <3>3
  <2>5. Token[y[answers[k]]].size \in Nat
    BY <1>12, <2>3 DEF FindingsAssumption
  <2>6. PICK first : first = answers[k]
    OBVIOUS
  <2>7. /\ MessageAt(y, first, last).line = y[first]
        /\ MessageAt(y, first, last).body = talk.pairs[k][3]
    <3>1. /\ first \in 1 .. Len(y) /\ Token[y[first]].size \in Nat
          /\ BodyAt(y, first, last, talk.pairs[k][3])
      BY <2>3, <2>5, <2>6
    <3> QED
      BY ONLY <1>9, <2>4, <3>1, BodyFound
  <2> QED
    BY <1>21, <2>1, <2>6, <2>7
<1>23. Pairs(analysis) = [k \in 1 .. N |-> [request |-> Requests(x)[k], response |-> Responses(y)[k]]]
  <2>1. PairsOf(Requests(x), Responses(y)) =
          [k \in 1 .. N |-> [request |-> Requests(x)[k], response |-> Responses(y)[k]]]
    BY ONLY <1>20, <1>21, N \in Nat, PairsAre
  <2> QED
    BY <1>16, <1>19, <2>1
<1>24. PICK pairs : pairs = Pairs(analysis)
  OBVIOUS
<1>25. /\ DOMAIN pairs = 1 .. N
       /\ \A k \in 1 .. N : pairs[k].request = Requests(x)[k] /\ pairs[k].response = Responses(y)[k]
  BY <1>23, <1>24
<1>26. \A k \in 1 .. N : talk.pairs[k] = <<pairs[k].request.line, pairs[k].response.line, pairs[k].response.body>>
  <2> TAKE k \in 1 .. N
  <2>1. /\ pairs[k].request.line = x[asks[k]] /\ pairs[k].response.line = y[answers[k]]
        /\ pairs[k].response.body = talk.pairs[k][3]
    BY <1>20, <1>22, <1>25
  <2>2. talk.pairs[k] = <<x[asks[k]], y[answers[k]], talk.pairs[k][3]>>
    BY <1>13
  <2> QED
    BY ONLY <2>1, <2>2
<1>27. talk.pairs = [k \in DOMAIN pairs |->
                       <<pairs[k].request.line, pairs[k].response.line, pairs[k].response.body>>]
  BY <1>13, <1>25, <1>26
<1> QED
  BY <1>24, <1>27 DEF PairsOfTalk

\* The pairs of what is shown are those of the talk because what is shown is what was sent.
LEMMA TalksInShown ==
  ASSUME WorkbenchAssumption, TalksAssumption, MergeAssumption, FindingsAssumption, ShownInv
  PROVE  OwnResponse
<1> SUFFICES ASSUME NEW f \in Shown, NEW talk \in Talks,
                    Complete(f.rows, talk.ask), Complete(f.rows, talk.answer),
                    f.anchor \in {talk.ask.from, talk.answer.from},
                    NEW pairs \in {Pairs(Analysis(f.rows, f.anchor))}
             PROVE  talk.pairs = [k \in DOMAIN pairs |->
                       <<pairs[k].request.line, pairs[k].response.line, pairs[k].response.body>>]
  BY DEF OwnResponse
<1>1. PICK a : a = Analysis(f.rows, f.anchor)
  OBVIOUS
<1>2. talk.ask \in Sent /\ talk.answer \in Sent /\ talk.ask.from # talk.answer.from
  BY DEF TalksAssumption
<1>3. /\ {f.rows[1].from, f.rows[1].to} = {talk.ask.from, talk.ask.to}
      /\ {f.rows[1].from, f.rows[1].to} = {talk.answer.from, talk.answer.to}
  BY DEF Complete, OfOneStream
<1>4. f.anchor \in {talk.ask.from, talk.ask.to} /\ f.anchor \in {talk.answer.from, talk.answer.to}
  BY <1>3
<1>5. talk.ask.bytes = IF talk.ask.from = f.anchor THEN a.client ELSE a.server
  BY <1>1, <1>2, <1>4, ShownWhole
<1>6. talk.answer.bytes = IF talk.answer.from = f.anchor THEN a.client ELSE a.server
  BY <1>1, <1>2, <1>4, ShownWhole
<1>7. \/ a.client = talk.ask.bytes /\ a.server = talk.answer.bytes
      \/ a.client = talk.answer.bytes /\ a.server = talk.ask.bytes
  BY <1>2, <1>5, <1>6
<1>8. PairsOfTalk(talk, Pairs(a))
  BY <1>7, TalkFound
<1>9. pairs = Pairs(a)
  BY <1>1
<1> QED
  BY <1>8, <1>9 DEF PairsOfTalk

\* OwnResponse: when both directions of a talk were stored as a whole, each request is
\* shown with the response it got and its body, whichever side the flow is looked at from.
THEOREM ResponsesAreOwn == WorkbenchSpec => []OwnResponse
<1>1. WorkbenchInit => ShownInv
  BY ShownInit
<1>2. ShownInv /\ [WorkbenchNext]_workbenchVars => ShownInv'
  BY ShownStep, WorkbenchAssumption
<1>3. ShownInv => OwnResponse
  BY TalksInShown, WorkbenchAssumption, TalksAssumption, MergeAssumption, FindingsAssumption
<1> QED
  BY <1>1, <1>2, <1>3, PTL DEF WorkbenchSpec
===============================================================================
