----------------------------- MODULE HostResolver -----------------------------
(***************************************************************************)
(* The asynchronous reverse-DNS cache of ListService.  Detection threads   *)
(* ask for the host of an address and never wait: a miss queues the        *)
(* address for the resolver thread and answers "".  _dns_cache,            *)
(* _dns_pending and _dns_queue are shared with no lock; one dict or set    *)
(* operation is atomic, a method of several is not.                        *)
(***************************************************************************)
EXTENDS Integers, Sequences, SequencesExt

CONSTANTS
  Asker,      (* threads that call classify_target: a live worker, or two when *)
              (* an old one outlives its join                                 *)
  Ip,         (* addresses asked for                                          *)
  Public,     (* those _should_resolve_ip accepts                             *)
  QueueLimit, (* 2048 in the code                                             *)
  CacheLimit, (* 4096 in the code                                             *)
  Stop        (* the "__stop__" marker                                        *)

ASSUME ResolverAssumption ==
  /\ Public \subseteq Ip /\ Stop \notin Ip
  /\ QueueLimit \in Nat \ {0} /\ CacheLimit \in Nat \ {0}

VARIABLES
  cache,   (* keys of _dns_cache, oldest first                   *)
  pending, (* _dns_pending                                       *)
  queue,   (* _dns_queue                                         *)
  stopped, (* _dns_stop_event and how far close() is             *)
  asker,   (* per asking thread, its step and address            *)
  resolver,(* the same of the resolver thread                    *)
  raced    (* history: two threads have asked for one address    *)
           (* before either marked it pending                    *)

vars == <<cache, pending, queue, stopped, asker, resolver, raced>>

Free == [at |-> "free"]
At(step, ip) == [at |-> step, ip |-> ip]

Cached(ip) == ip \in ToSet(cache)

Init ==
  /\ cache = <<>>
  /\ pending = {}
  /\ queue = <<>>
  /\ stopped = "no"
  /\ asker = [t \in Asker |-> Free]
  /\ resolver = [at |-> "top"]
  /\ raced = FALSE

-------------------------------------------------------------------------------
(* _remember_dns, on the thread whose state is s, one dict operation at a    *)
(* time: other threads insert and pop in between.                           *)

RememberSteps == {"look", "pop", "measure", "iterate", "next", "evict"}

\* An address that is there is taken out to come back as the youngest; for a new one
\* a full dict gives up the key its iterator answers first.
Remembered(s) ==
  CASE s.at = "look"    -> At(IF Cached(s.ip) THEN "pop" ELSE "measure", s.ip)
    [] s.at = "measure" -> At(IF Len(cache) >= CacheLimit THEN "iterate" ELSE "insert", s.ip)
    [] s.at = "iterate" -> [at |-> "next", ip |-> s.ip, size |-> Len(cache)]
    [] s.at = "next"    -> IF cache = <<>> THEN At("insert", s.ip)
                           ELSE [at |-> "evict", ip |-> s.ip, victim |-> Head(cache)]
    [] OTHER            -> At("insert", s.ip)

Without(ip) == SelectSeq(cache, LAMBDA x : x # ip)

CacheAfter(s) ==
  CASE s.at = "pop"   -> Without(s.ip)
    [] s.at = "evict" -> Without(s.victim)
    [] OTHER          -> cache

CacheAfterInsert(ip) == IF Cached(ip) THEN cache ELSE Append(cache, ip)

\* next() raises RuntimeError when the dict has changed its size since iter().
IteratorBroken(s) == s.at = "next" /\ Len(cache) # s.size

-------------------------------------------------------------------------------
(* An asking thread: _resolve_host and _schedule_host_resolve               *)

Becomes(t, state) == asker' = [asker EXCEPT ![t] = state]

\* A miss for an address that needs no lookup is remembered as "".
AskPrivate(t, ip) ==
  /\ asker[t] = Free
  /\ ip \notin Public
  /\ ~Cached(ip)
  /\ Becomes(t, At("look", ip))
  /\ UNCHANGED <<cache, pending, queue, stopped, resolver, raced>>

\* Mutant of AskPublic: _dns_pending is not looked at.
AskRegardless(t, ip) ==
  /\ asker[t] = Free
  /\ ip \in Public
  /\ ~Cached(ip)
  /\ Becomes(t, At("add", ip))
  /\ raced' = (raced \/ \E u \in Asker : asker[u] = At("add", ip))
  /\ UNCHANGED <<cache, pending, queue, stopped, resolver>>

\* A miss for a public address that nobody has asked for yet.
AskPublic(t, ip) ==
  /\ asker[t] = Free
  /\ ip \in Public
  /\ ~Cached(ip)
  /\ ip \notin pending
  /\ Becomes(t, At("add", ip))
  /\ raced' = (raced \/ \E u \in Asker : asker[u] = At("add", ip))
  /\ UNCHANGED <<cache, pending, queue, stopped, resolver>>

AddPending(t) ==
  /\ asker[t].at = "add"
  /\ pending' = pending \cup {asker[t].ip}
  /\ Becomes(t, At("put", asker[t].ip))
  /\ UNCHANGED <<cache, queue, stopped, resolver, raced>>

\* Mutant of PutQueue: what the full queue turns down stays pending.
PutOrForget(t) ==
  /\ asker[t].at = "put"
  /\ queue' = IF Len(queue) < QueueLimit THEN Append(queue, asker[t].ip) ELSE queue
  /\ Becomes(t, Free)
  /\ UNCHANGED <<cache, pending, stopped, resolver, raced>>

\* put_nowait; a full queue takes the address out of _dns_pending again.
PutQueue(t) ==
  /\ asker[t].at = "put"
  /\ IF Len(queue) < QueueLimit
     THEN queue' = Append(queue, asker[t].ip) /\ UNCHANGED pending
     ELSE pending' = pending \ {asker[t].ip} /\ UNCHANGED queue
  /\ Becomes(t, Free)
  /\ UNCHANGED <<cache, stopped, resolver, raced>>

AskerRemembers(t) ==
  /\ asker[t].at \in RememberSteps /\ ~IteratorBroken(asker[t])
  /\ cache' = CacheAfter(asker[t])
  /\ Becomes(t, Remembered(asker[t]))
  /\ UNCHANGED <<pending, queue, stopped, resolver, raced>>

\* The error leaves classify_target; what becomes of the asker's packets is not
\* modelled, the thread or the next of its kind may ask again.
AskerRaises(t) ==
  /\ IteratorBroken(asker[t])
  /\ Becomes(t, Free)
  /\ UNCHANGED <<cache, pending, queue, stopped, resolver, raced>>

AskerInserts(t) ==
  /\ asker[t].at = "insert"
  /\ cache' = CacheAfterInsert(asker[t].ip)
  /\ Becomes(t, Free)
  /\ UNCHANGED <<pending, queue, stopped, resolver, raced>>

-------------------------------------------------------------------------------
(* The resolver thread: _dns_resolve_loop                                   *)

\* Mutant of CheckStop: only the marker ends the loop.
WaitForMarker ==
  /\ resolver.at = "top"
  /\ resolver' = [at |-> "wait"]
  /\ UNCHANGED <<cache, pending, queue, stopped, asker, raced>>

CheckStop ==
  /\ resolver.at = "top"
  /\ resolver' = [at |-> IF stopped = "no" THEN "wait" ELSE "dead"]
  /\ UNCHANGED <<cache, pending, queue, stopped, asker, raced>>

GetTimesOut ==
  /\ resolver.at = "wait"
  /\ queue = <<>>
  /\ resolver' = [at |-> "top"]
  /\ UNCHANGED <<cache, pending, queue, stopped, asker, raced>>

Get ==
  /\ resolver.at = "wait"
  /\ queue # <<>>
  /\ queue' = Tail(queue)
  /\ resolver' = IF Head(queue) = Stop THEN [at |-> "dead"] ELSE At("lookup", Head(queue))
  /\ UNCHANGED <<cache, pending, stopped, asker, raced>>

\* Mutant of Lookup: an error of the lookup ends the thread.
LookupUncaught ==
  /\ resolver.at = "lookup"
  /\ resolver' \in {At("look", resolver.ip), [at |-> "dead"]}
  /\ UNCHANGED <<cache, pending, queue, stopped, asker, raced>>

\* gethostbyaddr returns or raises; both end in a host to remember.
Lookup ==
  /\ resolver.at = "lookup"
  /\ resolver' = At("look", resolver.ip)
  /\ UNCHANGED <<cache, pending, queue, stopped, asker, raced>>

Remember ==
  /\ resolver.at \in RememberSteps /\ ~IteratorBroken(resolver)
  /\ cache' = CacheAfter(resolver)
  /\ resolver' = Remembered(resolver)
  /\ UNCHANGED <<pending, queue, stopped, asker, raced>>

\* Nothing catches the error: _remember_dns is outside the try, the thread ends.
ResolverRaises ==
  /\ IteratorBroken(resolver)
  /\ resolver' = [at |-> "crashed"]
  /\ UNCHANGED <<cache, pending, queue, stopped, asker, raced>>

ResolverInserts ==
  /\ resolver.at = "insert"
  /\ cache' = CacheAfterInsert(resolver.ip)
  /\ resolver' = At("discard", resolver.ip)
  /\ UNCHANGED <<pending, queue, stopped, asker, raced>>

Discard ==
  /\ resolver.at = "discard"
  /\ pending' = pending \ {resolver.ip}
  /\ resolver' = [at |-> "top"]
  /\ UNCHANGED <<cache, queue, stopped, asker, raced>>

-------------------------------------------------------------------------------
(* close(), on the UI thread                                                *)

BeginClose ==
  /\ stopped = "no"
  /\ stopped' = "joining"
  /\ queue' = IF Len(queue) < QueueLimit THEN Append(queue, Stop) ELSE queue
  /\ UNCHANGED <<cache, pending, asker, resolver, raced>>

\* The resolver died or join(timeout=1.0) expired.
EndClose ==
  /\ stopped = "joining"
  /\ stopped' = "yes"
  /\ pending' = {}
  /\ UNCHANGED <<cache, queue, asker, resolver, raced>>

-------------------------------------------------------------------------------
Ask(t) == \E ip \in Ip : AskPrivate(t, ip) \/ AskPublic(t, ip)
GoOn(t) ==
  \/ AddPending(t) \/ PutQueue(t)
  \/ AskerRemembers(t) \/ AskerRaises(t) \/ AskerInserts(t)
Resolve ==
  \/ CheckStop \/ GetTimesOut \/ Get \/ Lookup
  \/ Remember \/ ResolverRaises \/ ResolverInserts \/ Discard
Close == BeginClose \/ EndClose

Next == Resolve \/ Close \/ \E t \in Asker : Ask(t) \/ GoOn(t)

\* The resolver thread goes on until it ends; a lookup always returns.
Spec == Init /\ [][Next]_vars /\ WF_vars(Resolve)

-------------------------------------------------------------------------------
(* Properties *)

InFlight(ip) ==
  resolver.at \in RememberSteps \cup {"lookup", "insert", "discard"} /\ resolver.ip = ip
Queued(ip) == ip \in ToSet(queue)
Scheduling(ip) == \E t \in Asker : asker[t] = At("put", ip)

\* No address is stuck: what is marked pending, and so is refused a second place in
\* the queue, is on its way to the resolver or in its hands, and before close() the
\* resolver is there to take it. One end excepted: an asker that changes the dict
\* between the resolver's iter() and next() ends the resolver with its address marked.
NoStuckPending ==
  stopped = "no" /\ resolver.at # "crashed" =>
    /\ resolver.at # "dead"
    /\ \A ip \in pending : Queued(ip) \/ InFlight(ip) \/ Scheduling(ip)

\* Unless two threads asked at once, and until close() empties _dns_pending, an
\* address is looked up once at a time: it is never twice in the queue, nor in
\* the queue while the resolver works on it.
NoDoubleLookup ==
  ~raced /\ stopped # "yes" => \A ip \in Public :
    Cardinality({n \in DOMAIN queue : queue[n] = ip})
      + (IF InFlight(ip) /\ resolver.at # "discard" THEN 1 ELSE 0) <= 1

\* A queued address reaches the cache unless the service is closed first or the
\* resolver has died of a dict that changed under its iterator.
QueuedIsResolved ==
  \A ip \in Public : Queued(ip) ~> (Cached(ip) \/ stopped # "no" \/ resolver.at = "crashed")

\* close() ends the resolver thread even when the queue is too full for the
\* marker; one that has ended before stays so.
CloseEndsResolver == (stopped # "no") ~> (resolver.at \in {"dead", "crashed"})
===============================================================================
