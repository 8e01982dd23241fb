--------------------------- MODULE SessionAggregator ---------------------------
(***************************************************************************)
(* The one SessionAggregator of the program, fed by two threads: the live  *)
(* worker, whose clock is the wall clock, and the import thread, whose     *)
(* clock is the largest timestamp of the batch it has just read.  Both     *)
(* ingest a batch packet by packet, expire old sessions, and report the    *)
(* sessions that changed to the detector.  Nothing is locked and nothing   *)
(* is reset between two imports.                                           *)
(***************************************************************************)
EXTENDS Integers, Sequences, FiniteSets, Functions, SequencesExt

CONSTANTS
  Src,        (* source addresses                                           *)
  Port,       (* destination ports; source and port name a session here     *)
  Timeout,    (* session_timeout_seconds, 60 in the code                    *)
  Recent,     (* recent_window_seconds, 5 in the code                       *)
  Interval,   (* batches of an import between two flushes                   *)
  FileEnd,    (* bound on the timestamps of a capture file                  *)
  WallStart,  (* the wall clock when the program starts                     *)
  WallEnd,    (* bound on the wall clock                                    *)
  MaxPackets  (* bound on the packets ingested                              *)

Thread == {"worker", "import"}
Key == Src \X Port

ASSUME AggregatorAssumption ==
  /\ Recent \in Nat /\ Timeout \in Nat /\ Recent <= Timeout
  /\ Interval \in Nat \ {0} /\ MaxPackets \in Nat
  /\ FileEnd \in Nat /\ WallStart \in Nat /\ WallEnd \in Nat

VARIABLES
  wall,      (* time.time()                                                 *)
  sessions,  (* sessions: packets and last_ts of each                       *)
  dirty,     (* dirty_sessions                                              *)
  ports,     (* src_port_windows: per source, when each port was visited    *)
  recent,    (* recent_sessions: per source, its packets' times             *)
  seen,      (* src_last_seen                                               *)
  features,  (* what the last flush reported                                *)
  thread,    (* per thread, its step and the now_ts it uses                 *)
  counter,   (* _offline_detection_batch_counter                            *)
  ingested,  (* history: packets so far                                     *)
  visited,   (* history: when each port was last visited, never pruned      *)
  reported,  (* history: packets of a session when it was last reported     *)
  latest,    (* history: the largest timestamp and the largest now_ts used  *)
  backwards, (* history: a timestamp or a now_ts went back                  *)
  raced      (* history: a packet came between the two ends of a flush      *)

table == <<sessions, dirty, ports, recent, seen>>
history == <<ingested, visited, reported, latest, backwards, raced>>
vars == <<wall, table, features, thread, counter, history>>

Time == 0 .. WallEnd
Later(a, b) == IF a > b THEN a ELSE b

With(f, x, y) == [z \in DOMAIN f \cup {x} |-> IF z = x THEN y ELSE f[z]]
Without(f, S) == Restrict(f, DOMAIN f \ S)
At(f, x, default) == IF x \in DOMAIN f THEN f[x] ELSE default

Init ==
  /\ wall = WallStart
  /\ sessions = << >> /\ dirty = {}
  /\ ports = << >> /\ recent = << >> /\ seen = << >>
  /\ features = {}
  /\ thread = [t \in Thread |-> [at |-> "rest", clock |-> 0]]
  /\ counter = 0
  /\ ingested = 0
  /\ visited = << >>
  /\ reported = [k \in Key |-> 0]
  /\ latest = [ts |-> 0, clock |-> 0]
  /\ backwards = FALSE
  /\ raced = FALSE

Goes(t, to, clock) == thread' = [thread EXCEPT ![t] = [at |-> to, clock |-> clock]]

UsesClock(clock) ==
  /\ latest' = [latest EXCEPT !.clock = Later(@, clock)]
  /\ backwards' = (backwards \/ clock < latest.clock)

-------------------------------------------------------------------------------
(* ingest_batch, one packet                                                 *)

\* Mutant of Touched: only a new session is marked dirty.
TouchedWhenNew(k, ts) ==
  LET old == At(sessions, k, [packets |-> 0, last |-> ts])
  IN  /\ sessions' = With(sessions, k, [packets |-> old.packets + 1, last |-> ts])
      /\ dirty' = IF old.packets = 0 THEN dirty \cup {k} ELSE dirty

Touched(k, ts) ==
  LET old == At(sessions, k, [packets |-> 0, last |-> ts])
  IN  /\ sessions' = With(sessions, k, [packets |-> old.packets + 1, last |-> ts])
      /\ dirty' = dirty \cup {k}

\* src_last_seen, src_port_windows and recent_sessions; internal_targets and
\* sensitive_port_hits are a second window of each kind.
Noted(k, ts) ==
  /\ seen' = With(seen, k[1], ts)
  /\ ports' = With(ports, k[1], With(At(ports, k[1], << >>), k[2], ts))
  /\ recent' = With(recent, k[1], Append(At(recent, k[1], << >>), ts))

Counted(t, k, ts) ==
  /\ ingested' = ingested + 1
  /\ visited' = With(visited, k, Later(At(visited, k, 0), ts))
  /\ latest' = [latest EXCEPT !.ts = Later(@, ts)]
  /\ backwards' = (backwards \/ ts < latest.ts)
  /\ raced' = (raced \/ \E u \in Thread \ {t} : thread[u].at = "clear")
  /\ UNCHANGED reported

Ingest(t, k, ts) ==
  /\ thread[t].at \in {"rest", "ingest"}
  /\ ingested < MaxPackets
  /\ Touched(k, ts)
  /\ Noted(k, ts)
  /\ Counted(t, k, ts)
  /\ features' = {}
  /\ UNCHANGED <<wall, counter>>

\* A live packet has waited in the queue for a while.
IngestLive(k) ==
  \E ts \in {wall - 1, wall} :
    /\ Ingest("worker", k, ts)
    /\ Goes("worker", "ingest", 0)

\* now_ts of a batch of a file is the largest timestamp in it.
IngestOffline(k) ==
  \E ts \in 0 .. FileEnd :
    /\ Ingest("import", k, ts)
    /\ Goes("import", "ingest",
            IF thread["import"].at = "rest" THEN ts ELSE Later(thread["import"].clock, ts))

-------------------------------------------------------------------------------
(* cleanup_expired and _prune_src_windows                                   *)

\* The windows of sources lose what is older than the cutoff, and a window that
\* has nothing left goes.
PrunedPorts(sources, cutoff) ==
  LET kept == [s \in DOMAIN ports |->
                 IF s \in sources THEN RestrictValues(ports[s], LAMBDA ts : ts >= cutoff)
                                  ELSE ports[s]]
  IN  Without(kept, {s \in sources \cap DOMAIN ports : kept[s] = << >>})

\* A deque loses its head while that is too old.
Young(q, cutoff) ==
  LET n == SelectInSeq(q, LAMBDA ts : ts >= cutoff)
  IN  IF n = 0 THEN << >> ELSE SubSeq(q, n, Len(q))

PrunedRecent(sources, cutoff) ==
  LET kept == [s \in DOMAIN recent |-> IF s \in sources THEN Young(recent[s], cutoff)
                                                       ELSE recent[s]]
  IN  Without(kept, {s \in sources \cap DOMAIN recent : kept[s] = << >>})

Expired(clock) == {k \in DOMAIN sessions : clock - sessions[k].last > Timeout}
Stale(clock) == {s \in DOMAIN seen : clock - seen[s] > Timeout}

\* Mutant of CleanedUp: the windows of a source that is forgotten are left.
CleanedUpSeenOnly(clock) ==
  /\ sessions' = Without(sessions, Expired(clock))
  /\ dirty' = dirty \ Expired(clock)
  /\ seen' = Without(seen, Stale(clock))
  /\ UNCHANGED <<ports, recent>>

CleanedUp(clock) ==
  /\ sessions' = Without(sessions, Expired(clock))
  /\ dirty' = dirty \ Expired(clock)
  /\ ports' = PrunedPorts(Stale(clock), clock - Timeout)
  /\ recent' = PrunedRecent(Stale(clock), clock - Recent)
  /\ seen' = Without(seen, Stale(clock))

Expire(t, clock, next) ==
  /\ thread[t].at = "ingest"
  /\ CleanedUp(clock)
  /\ reported' = [k \in Key |-> IF k \in Expired(clock) THEN 0 ELSE reported[k]]
  /\ UsesClock(clock)
  /\ Goes(t, next, clock)
  /\ UNCHANGED <<wall, features, ingested, visited, raced>>

ExpireLive == Expire("worker", wall, "flush") /\ UNCHANGED counter

\* A batch of a file is flushed only every Interval batches.
ExpireOffline ==
  /\ counter' = (counter + 1) % Interval
  /\ Expire("import", thread["import"].clock, IF counter' = 0 THEN "flush" ELSE "rest")

-------------------------------------------------------------------------------
(* flush_features: the loop over the dirty sessions, then dirty.clear()     *)

\* Mutant of Flushed: the windows are not pruned before they are counted.
FlushedUnpruned(t, clock) ==
  LET due == dirty \cap DOMAIN sessions
  IN  /\ features' = {[key |-> k, by |-> t, clock |-> clock, packets |-> sessions[k].packets,
                       port_visits |-> Cardinality(DOMAIN At(ports, k[1], << >>))] : k \in due}
      /\ UNCHANGED <<ports, recent>>

\* Reading a pruned window makes an empty one again (defaultdict).
Flushed(t, clock) ==
  LET due == dirty \cap DOMAIN sessions
      sources == {k[1] : k \in due}
      left == PrunedPorts(sources, clock - Timeout)
      young == PrunedRecent(sources, clock - Recent)
  IN  /\ ports' = [s \in DOMAIN left \cup sources |-> At(left, s, << >>)]
      /\ recent' = [s \in DOMAIN young \cup sources |-> At(young, s, << >>)]
      /\ features' = {[key |-> k, by |-> t, clock |-> clock, packets |-> sessions[k].packets,
                       port_visits |-> Cardinality(DOMAIN ports'[k[1]])] : k \in due}

Flush(t) ==
  /\ thread[t].at = "flush"
  /\ Flushed(t, thread[t].clock)
  /\ reported' = [k \in Key |-> IF k \in dirty \cap DOMAIN sessions THEN sessions[k].packets
                                 ELSE reported[k]]
  /\ UsesClock(thread[t].clock)
  /\ Goes(t, "clear", 0)
  /\ UNCHANGED <<wall, sessions, dirty, seen, counter, ingested, visited, raced>>

Clear(t) ==
  /\ thread[t].at = "clear"
  /\ dirty' = {}
  /\ Goes(t, "rest", 0)
  /\ UNCHANGED <<wall, sessions, ports, recent, seen, features, counter, history>>

-------------------------------------------------------------------------------
(* The ends of an import                                                    *)

\* _flush_remaining_offline_features takes the wall clock.
EndImport ==
  /\ thread["import"].at = "rest"
  /\ Goes("import", "flush", wall)
  /\ counter' = 0
  /\ features' = {}
  /\ UNCHANGED <<wall, table, history>>

\* An error leaves the sessions of the file in the aggregator.
ImportFails ==
  /\ thread["import"].at \in {"ingest", "flush"}
  /\ Goes("import", "rest", 0)
  /\ counter' = 0
  /\ UNCHANGED <<wall, table, features, history>>

Tick ==
  /\ wall < WallEnd
  /\ wall' = wall + 1
  /\ UNCHANGED <<table, features, thread, counter, history>>

-------------------------------------------------------------------------------
Next ==
  \/ \E k \in Key : IngestLive(k) \/ IngestOffline(k)
  \/ ExpireLive \/ ExpireOffline
  \/ \E t \in Thread : Flush(t) \/ Clear(t)
  \/ EndImport \/ ImportFails
  \/ Tick

Spec == Init /\ [][Next]_vars

-------------------------------------------------------------------------------
(* Properties *)

\* A session that is not marked dirty has been reported to the detector with all
\* its packets, unless a packet came while the other thread was clearing the
\* marks: no change of a session is forgotten as long as the session lives.
NothingForgotten ==
  ~raced => \A k \in DOMAIN sessions \ dirty : reported[k] = sessions[k].packets

\* As long as time does not run backwards, every window belongs to a source that
\* is still in src_last_seen, the only place cleanup_expired looks: no window
\* stays in memory for ever.
NoOrphanWindows == ~backwards => DOMAIN ports \cup DOMAIN recent \subseteq DOMAIN seen

\* Ports a source has visited since then.
VisitedSince(s, ts) == {p \in Port : <<s, p>> \in DOMAIN visited /\ visited[<<s, p>>] >= ts}

\* As long as time does not run backwards, a feature counts exactly the ports
\* its source visited within the session timeout before now_ts, whatever the
\* pruning and the cleaning up did in between.
PortVisitsExact ==
  ~backwards => \A f \in features :
    f.port_visits = Cardinality(VisitedSince(f.key[1], f.clock - Timeout))

===============================================================================
