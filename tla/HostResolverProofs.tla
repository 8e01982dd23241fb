-------------------------- MODULE HostResolverProofs --------------------------
(***************************************************************************)
(* Proofs about HostResolver: for any threads, any addresses and any       *)
(* limits, no address is stuck while the resolver lives and none is looked *)
(* up twice at a time.                                                     *)
(* Nothing is locked, so the invariant has to say for an address on each   *)
(* leg of its way (an asker about to mark it, one about to queue it, the   *)
(* queue, the resolver) that it is on no other.                            *)
(***************************************************************************)
EXTENDS HostResolver, FiniteSetTheorems, SequenceTheorems, TLAPS

Legs == {"add", "put"}
OnItsWay(ip) == Queued(ip) \/ InFlight(ip) \/ Scheduling(ip)

\* An asker that schedules an address holds a public one.
AskerInv ==
  /\ DOMAIN asker = Asker
  /\ \A t \in Asker : asker[t].at \in Legs =>
       asker[t] = At(asker[t].at, asker[t].ip) /\ asker[t].ip \in Public

\* The marker comes with close() only.
QueueInv ==
  /\ queue \in Seq(Public \cup {Stop})
  /\ stopped = "no" => Stop \notin ToSet(queue)

\* What two threads asked for at once, or close() took out of _dns_pending, may be
\* on its way twice; nothing else.
OnceInv ==
  ~raced /\ stopped # "yes" =>
    /\ \A t, u \in Asker : asker[t].at \in Legs /\ asker[u] = asker[t] => t = u
    /\ \A t \in Asker : asker[t].at = "add" => asker[t].ip \notin pending
    /\ \A ip \in Public : OnItsWay(ip) => ip \in pending
    /\ \A m, n \in DOMAIN queue : queue[m] = queue[n] => m = n
    /\ \A ip \in Public : Queued(ip) => ~InFlight(ip) /\ ~Scheduling(ip)
    /\ \A ip \in Public : InFlight(ip) => ~Scheduling(ip)

IInv == AskerInv /\ QueueInv /\ NoStuckPending /\ OnceInv

-------------------------------------------------------------------------------
(* What the queue operations do to a queue in which nothing is twice *)

LEMMA AppendAdds ==
  ASSUME NEW S, NEW s \in Seq(S), NEW e \in S
  PROVE  /\ Append(s, e) \in Seq(S)
         /\ \A x : x \in ToSet(Append(s, e)) <=> x \in ToSet(s) \/ x = e
         /\ (\A m, n \in DOMAIN s : s[m] = s[n] => m = n) /\ e \notin ToSet(s) =>
              \A m, n \in DOMAIN Append(s, e) : Append(s, e)[m] = Append(s, e)[n] => m = n
<1>1. /\ Append(s, e) \in Seq(S)
      /\ Len(Append(s, e)) = Len(s) + 1
      /\ \A i \in 1 .. Len(s) : Append(s, e)[i] = s[i]
      /\ Append(s, e)[Len(s) + 1] = e
  BY AppendProperties
<1>2. /\ DOMAIN s = 1 .. Len(s) /\ Len(s) \in Nat
      /\ DOMAIN Append(s, e) = 1 .. Len(s) + 1
  BY <1>1
<1>3. ASSUME NEW x
      PROVE  x \in ToSet(Append(s, e)) <=> x \in ToSet(s) \/ x = e
  BY <1>1, <1>2 DEF ToSet
<1>4. ASSUME \A m, n \in DOMAIN s : s[m] = s[n] => m = n, e \notin ToSet(s),
             NEW m \in DOMAIN Append(s, e), NEW n \in DOMAIN Append(s, e),
             Append(s, e)[m] = Append(s, e)[n]
      PROVE  m = n
  BY <1>1, <1>2, <1>4 DEF ToSet
<1> QED
  BY <1>1, <1>3, <1>4

LEMMA TailRemoves ==
  ASSUME NEW S, NEW s \in Seq(S), s # <<>>
  PROVE  /\ Tail(s) \in Seq(S) /\ Head(s) \in S
         /\ \A x : x \in ToSet(s) <=> x \in ToSet(Tail(s)) \/ x = Head(s)
         /\ (\A m, n \in DOMAIN s : s[m] = s[n] => m = n) =>
              /\ \A m, n \in DOMAIN Tail(s) : Tail(s)[m] = Tail(s)[n] => m = n
              /\ Head(s) \notin ToSet(Tail(s))
<1>1. /\ Head(s) \in S /\ Tail(s) \in Seq(S)
      /\ Len(Tail(s)) = Len(s) - 1
      /\ \A i \in 1 .. Len(Tail(s)) : Tail(s)[i] = s[i + 1]
  BY HeadTailProperties
<1>2. /\ DOMAIN s = 1 .. Len(s) /\ Len(s) \in Nat \ {0}
      /\ DOMAIN Tail(s) = 1 .. Len(s) - 1
      /\ Head(s) = s[1]
  BY <1>1
<1>3. ASSUME NEW x
      PROVE  x \in ToSet(s) <=> x \in ToSet(Tail(s)) \/ x = Head(s)
  <2>1. ASSUME x \in ToSet(s), x # Head(s)
        PROVE  x \in ToSet(Tail(s))
    <3>1. PICK i \in 1 .. Len(s) : s[i] = x
      BY <1>2, <2>1 DEF ToSet
    <3>2. i - 1 \in 1 .. Len(s) - 1 /\ Tail(s)[i - 1] = x
      BY <1>1, <1>2, <2>1, <3>1
    <3> QED
      BY <1>2, <3>2 DEF ToSet
  <2>2. x \in ToSet(Tail(s)) \/ x = Head(s) => x \in ToSet(s)
    BY <1>1, <1>2 DEF ToSet
  <2> QED
    BY <2>1, <2>2
<1>4. ASSUME \A m, n \in DOMAIN s : s[m] = s[n] => m = n
      PROVE  /\ \A m, n \in DOMAIN Tail(s) : Tail(s)[m] = Tail(s)[n] => m = n
             /\ Head(s) \notin ToSet(Tail(s))
  <2>1. ASSUME NEW m \in DOMAIN Tail(s)
        PROVE  m + 1 \in DOMAIN s /\ Tail(s)[m] = s[m + 1] /\ m + 1 # 1
    BY <1>1, <1>2
  <2> QED
    BY <1>2, <1>4, <2>1 DEF ToSet
<1> QED
  BY <1>1, <1>3, <1>4

-------------------------------------------------------------------------------
(* IInv is inductive *)

LEMMA InitIInv == Init => IInv
BY DEF Init, IInv, AskerInv, QueueInv, NoStuckPending, OnceInv, OnItsWay, Legs, Free, At,
       Queued, InFlight, RememberSteps, Scheduling, ToSet

\* Askers and the resolver at a step that has nothing to do with what is queued or
\* marked leave the invariant alone.
LEMMA QuietSteps ==
  ASSUME IInv,
         UNCHANGED <<pending, queue, stopped, raced>>,
         DOMAIN asker' = Asker,
         \A t \in Asker : asker'[t] = asker[t]
                            \/ (asker[t].at \notin Legs /\ asker'[t].at \notin Legs),
         \A ip : InFlight(ip)' <=> InFlight(ip),
         resolver.at = "crashed" => resolver'.at = "crashed",
         resolver'.at = "dead" => resolver.at = "dead" \/ stopped # "no"
  PROVE  IInv'
<1>1. \A ip : Scheduling(ip)' <=> Scheduling(ip)
  BY DEF Scheduling, At, Legs
<1>2. \A ip : Queued(ip)' <=> Queued(ip)
  BY DEF Queued
<1>3. AskerInv'
  BY DEF IInv, AskerInv
<1>4. QueueInv'
  BY DEF IInv, QueueInv
<1>5. NoStuckPending'
  BY <1>1, <1>2 DEF IInv, NoStuckPending
<1>6. OnceInv'
  <2>1. \A ip : OnItsWay(ip)' <=> OnItsWay(ip)
    BY <1>1, <1>2 DEF OnItsWay
  <2>2. \A t \in Asker : asker'[t].at \in Legs => asker'[t] = asker[t]
    OBVIOUS
  <2>3. "add" \in Legs
    BY DEF Legs
  <2>4. ASSUME ~raced, stopped # "yes"
        PROVE  /\ \A t, u \in Asker : asker'[t].at \in Legs /\ asker'[u] = asker'[t] => t = u
               /\ \A t \in Asker : asker'[t].at = "add" => asker'[t].ip \notin pending
    BY <2>2, <2>3, <2>4 DEF IInv, OnceInv
  <2>5. ASSUME ~raced, stopped # "yes"
        PROVE  /\ \A ip \in Public : OnItsWay(ip)' => ip \in pending
               /\ \A m, n \in DOMAIN queue : queue[m] = queue[n] => m = n
               /\ \A ip \in Public : Queued(ip)' => ~InFlight(ip)' /\ ~Scheduling(ip)'
               /\ \A ip \in Public : InFlight(ip)' => ~Scheduling(ip)'
    BY <1>1, <1>2, <2>1, <2>5 DEF IInv, OnceInv
  <2> QED
    BY <2>4, <2>5 DEF OnceInv
<1> QED
  BY <1>3, <1>4, <1>5, <1>6 DEF IInv

\* A step of _remember_dns keeps the address and goes to another one.
LEMMA RememberedKeeps ==
  ASSUME NEW s, s.at \in RememberSteps
  PROVE  /\ Remembered(s).at \in RememberSteps \cup {"insert"}
         /\ Remembered(s).ip = s.ip
<1>1. CASE s.at \in {"look", "measure"}
  BY <1>1 DEF Remembered, RememberSteps, At
<1>2. CASE s.at \in {"iterate", "next"}
  BY <1>2 DEF Remembered, RememberSteps, At
<1>3. CASE s.at \in {"pop", "evict"}
  BY <1>3 DEF Remembered, RememberSteps, At
<1> QED
  BY <1>1, <1>2, <1>3 DEF RememberSteps

\* The steps of an asker that leave pending and queue alone
LEMMA QuietAsker ==
  ASSUME IInv, NEW t \in Asker,
         \/ \E ip \in Ip : AskPrivate(t, ip)
         \/ AskerRemembers(t) \/ AskerRaises(t) \/ AskerInserts(t)
  PROVE  IInv'
<1>1. DOMAIN asker = Asker
  BY DEF IInv, AskerInv
<1>2. /\ asker[t].at \notin Legs /\ asker'[t].at \notin Legs
      /\ DOMAIN asker' = Asker
      /\ \A u \in Asker \ {t} : asker'[u] = asker[u]
  <2>1. CASE \E ip \in Ip : AskPrivate(t, ip)
    <3>1. PICK ip \in Ip : AskPrivate(t, ip)
      BY <2>1
    <3>2. asker[t] = Free /\ asker' = [asker EXCEPT ![t] = At("look", ip)]
      BY <3>1 DEF AskPrivate, Becomes
    <3> QED
      BY <1>1, <3>2 DEF Free, At, Legs
  <2>2. CASE AskerRemembers(t)
    <3>1. asker[t].at \in RememberSteps /\ asker' = [asker EXCEPT ![t] = Remembered(asker[t])]
      BY <2>2 DEF AskerRemembers, Becomes
    <3>2. Remembered(asker[t]).at \in RememberSteps \cup {"insert"}
      BY <3>1, RememberedKeeps
    <3> QED
      BY <1>1, <3>1, <3>2 DEF Legs, RememberSteps
  <2>3. CASE AskerRaises(t)
    <3>1. asker[t].at = "next" /\ asker' = [asker EXCEPT ![t] = Free]
      BY <2>3 DEF AskerRaises, IteratorBroken, Becomes
    <3> QED
      BY <1>1, <3>1 DEF Free, Legs
  <2>4. CASE AskerInserts(t)
    <3>1. asker[t].at = "insert" /\ asker' = [asker EXCEPT ![t] = Free]
      BY <2>4 DEF AskerInserts, Becomes
    <3> QED
      BY <1>1, <3>1 DEF Free, Legs
  <2> QED
    BY <2>1, <2>2, <2>3, <2>4
<1>3. UNCHANGED <<pending, queue, stopped, raced, resolver>>
  BY DEF AskPrivate, AskerRemembers, AskerRaises, AskerInserts
<1>4. \A ip : InFlight(ip)' <=> InFlight(ip)
  BY <1>3 DEF InFlight
<1> QED
  BY <1>2, <1>3, <1>4, QuietSteps

\* The steps of the resolver on which it keeps its address, or has none
LEMMA QuietResolver ==
  ASSUME IInv,
         \/ CheckStop \/ GetTimesOut \/ Lookup
         \/ Remember \/ ResolverInserts
  PROVE  IInv'
<1> USE DEF RememberSteps
<1>1. UNCHANGED <<pending, queue, stopped, raced, asker>>
  BY DEF CheckStop, GetTimesOut, Lookup, Remember, ResolverInserts
<1>2. /\ \A ip : InFlight(ip)' <=> InFlight(ip)
      /\ resolver.at # "crashed"
      /\ resolver'.at = "dead" => stopped # "no"
  <2>1. CASE CheckStop
    BY <2>1 DEF CheckStop, InFlight
  <2>2. CASE GetTimesOut
    BY <2>2 DEF GetTimesOut, InFlight
  <2>3. CASE Lookup
    BY <2>3 DEF Lookup, InFlight, At
  <2>4. CASE Remember
    <3>1. resolver.at \in RememberSteps /\ resolver' = Remembered(resolver)
      BY <2>4 DEF Remember
    <3>2. /\ resolver'.at \in RememberSteps \cup {"insert"}
          /\ resolver'.ip = resolver.ip
      BY <3>1, RememberedKeeps
    <3> QED
      BY <3>1, <3>2 DEF InFlight
  <2>5. CASE ResolverInserts
    BY <2>5 DEF ResolverInserts, InFlight, At
  <2> QED
    BY <2>1, <2>2, <2>3, <2>4, <2>5
<1>3. DOMAIN asker' = Asker
  BY <1>1 DEF IInv, AskerInv
<1> QED
  BY <1>1, <1>2, <1>3, QuietSteps

\* The resolver dies of the changed dict: its address is on no leg any more.
LEMMA ResolverRaisesStep ==
  ASSUME IInv, ResolverRaises
  PROVE  IInv'
<1>1. /\ resolver' = [at |-> "crashed"]
      /\ UNCHANGED <<pending, queue, stopped, asker, raced>>
  BY DEF ResolverRaises
<1>2. \A x : (Queued(x)' <=> Queued(x)) /\ (Scheduling(x)' <=> Scheduling(x)) /\ ~InFlight(x)'
  BY <1>1 DEF Queued, Scheduling, InFlight, RememberSteps
<1>3. AskerInv' /\ QueueInv' /\ NoStuckPending'
  BY <1>1 DEF IInv, AskerInv, QueueInv, NoStuckPending
<1>4. OnceInv'
  <2> SUFFICES ASSUME ~raced, stopped # "yes"
               PROVE  OnceInv'
    BY <1>1 DEF OnceInv
  <2>1. \A x \in Public : OnItsWay(x)' => x \in pending'
    BY <1>1, <1>2 DEF IInv, OnceInv, OnItsWay
  <2>2. /\ \A x \in Public : Queued(x)' => ~InFlight(x)' /\ ~Scheduling(x)'
        /\ \A x \in Public : InFlight(x)' => ~Scheduling(x)'
    BY <1>2 DEF IInv, OnceInv
  <2>3. /\ \A t, u \in Asker : asker'[t].at \in Legs /\ asker'[u] = asker'[t] => t = u
        /\ \A t \in Asker : asker'[t].at = "add" => asker'[t].ip \notin pending'
        /\ \A m, n \in DOMAIN queue' : queue'[m] = queue'[n] => m = n
    BY <1>1 DEF IInv, OnceInv
  <2> QED
    BY <2>1, <2>2, <2>3 DEF OnceInv
<1> QED
  BY <1>3, <1>4 DEF IInv

\* A new address begins its way on no other leg, unless another asker was as early.
LEMMA AskPublicStep ==
  ASSUME IInv, NEW t \in Asker, NEW ip \in Ip, AskPublic(t, ip)
  PROVE  IInv'
<1> USE DEF Legs, Free, At
<1>1. /\ asker[t] = Free /\ ip \in Public /\ ip \notin pending
      /\ asker' = [asker EXCEPT ![t] = At("add", ip)]
      /\ raced' = (raced \/ \E u \in Asker : asker[u] = At("add", ip))
      /\ UNCHANGED <<pending, queue, stopped, resolver>>
  BY DEF AskPublic, Becomes
<1>2. /\ DOMAIN asker' = Asker /\ asker'[t] = At("add", ip)
      /\ \A u \in Asker \ {t} : asker'[u] = asker[u]
  BY <1>1 DEF IInv, AskerInv
<1>3. AskerInv'
  BY <1>1, <1>2 DEF IInv, AskerInv
<1>4. \A x : Scheduling(x)' <=> Scheduling(x)
  BY <1>1, <1>2 DEF Scheduling
<1>5. \A x : (Queued(x)' <=> Queued(x)) /\ (InFlight(x)' <=> InFlight(x))
  BY <1>1 DEF Queued, InFlight
<1>6. QueueInv' /\ NoStuckPending'
  BY <1>1, <1>4, <1>5 DEF IInv, QueueInv, NoStuckPending
<1>7. OnceInv'
  <2> SUFFICES ASSUME ~raced', stopped # "yes"
               PROVE  OnceInv'
    BY <1>1 DEF OnceInv
  <2>1. ~raced /\ \A u \in Asker : asker[u] # At("add", ip)
    BY <1>1
  <2>2. ASSUME NEW u \in Asker, NEW v \in Asker,
               asker'[u].at \in Legs, asker'[v] = asker'[u]
        PROVE  u = v
    <3>1. CASE u = t \/ v = t
      BY <1>2, <2>1, <2>2, <3>1
    <3>2. CASE u # t /\ v # t
      BY <1>2, <2>1, <2>2, <3>2 DEF IInv, OnceInv
    <3> QED
      BY <3>1, <3>2
  <2>3. ASSUME NEW u \in Asker, asker'[u].at = "add"
        PROVE  asker'[u].ip \notin pending'
    <3>1. CASE u = t
      BY <1>1, <1>2, <3>1
    <3>2. CASE u # t
      BY <1>1, <1>2, <2>1, <2>3, <3>2 DEF IInv, OnceInv
    <3> QED
      BY <3>1, <3>2
  <2>4. \A x : OnItsWay(x)' <=> OnItsWay(x)
    BY <1>4, <1>5 DEF OnItsWay
  <2>5. /\ \A x \in Public : OnItsWay(x)' => x \in pending'
        /\ \A m, n \in DOMAIN queue' : queue'[m] = queue'[n] => m = n
        /\ \A x \in Public : Queued(x)' => ~InFlight(x)' /\ ~Scheduling(x)'
        /\ \A x \in Public : InFlight(x)' => ~Scheduling(x)'
    BY <1>1, <1>4, <1>5, <2>1, <2>4 DEF IInv, OnceInv
  <2> QED
    BY <2>2, <2>3, <2>5 DEF OnceInv
<1> QED
  BY <1>3, <1>6, <1>7 DEF IInv

\* The address is marked and still to be queued.
LEMMA AddPendingStep ==
  ASSUME IInv, NEW t \in Asker, AddPending(t)
  PROVE  IInv'
<1> USE DEF Legs, At
<1> DEFINE ip == asker[t].ip
<1>1. /\ asker[t] = At("add", ip) /\ ip \in Public
      /\ pending' = pending \cup {ip}
      /\ asker' = [asker EXCEPT ![t] = At("put", ip)]
      /\ UNCHANGED <<queue, stopped, resolver, raced>>
  BY DEF AddPending, Becomes, IInv, AskerInv
<1>2. /\ DOMAIN asker' = Asker /\ asker'[t] = At("put", ip)
      /\ \A u \in Asker \ {t} : asker'[u] = asker[u]
  BY <1>1 DEF IInv, AskerInv
<1>3. AskerInv'
  BY <1>1, <1>2 DEF IInv, AskerInv
<1>4. \A x : Scheduling(x)' <=> Scheduling(x) \/ x = ip
  BY <1>1, <1>2 DEF Scheduling
<1>5. \A x : (Queued(x)' <=> Queued(x)) /\ (InFlight(x)' <=> InFlight(x))
  BY <1>1 DEF Queued, InFlight
<1>6. QueueInv' /\ NoStuckPending'
  BY <1>1, <1>4, <1>5 DEF IInv, QueueInv, NoStuckPending
<1>7. OnceInv'
  <2> SUFFICES ASSUME ~raced, stopped # "yes"
               PROVE  OnceInv'
    BY <1>1 DEF OnceInv
  <2>1. ip \notin pending /\ ~OnItsWay(ip)
    BY <1>1 DEF IInv, OnceInv
  <2>2. \A u \in Asker : asker[u] = asker[t] => u = t
    BY <1>1 DEF IInv, OnceInv
  <2>3. \A u \in Asker : asker[u] # At("put", ip)
    BY <2>1 DEF OnItsWay, Scheduling
  <2>4. \A u, v \in Asker : asker'[u].at \in Legs /\ asker'[v] = asker'[u] => u = v
    BY <1>1, <1>2, <2>3 DEF IInv, OnceInv
  <2>5. \A u \in Asker : asker'[u].at = "add" => asker'[u].ip \notin pending'
    BY <1>1, <1>2, <2>2 DEF IInv, AskerInv, OnceInv
  <2>6. \A x \in Public : OnItsWay(x)' => x \in pending'
    BY <1>1, <1>4, <1>5 DEF IInv, OnceInv, OnItsWay
  <2>7. /\ \A x \in Public : Queued(x)' => ~InFlight(x)' /\ ~Scheduling(x)'
        /\ \A x \in Public : InFlight(x)' => ~Scheduling(x)'
    BY <1>4, <1>5, <2>1 DEF IInv, OnceInv, OnItsWay
  <2> QED
    BY <1>1, <2>4, <2>5, <2>6, <2>7 DEF IInv, OnceInv
<1> QED
  BY <1>3, <1>6, <1>7 DEF IInv

\* The address goes to the queue, or is turned down and no longer marked.
LEMMA PutQueueStep ==
  ASSUME IInv, NEW t \in Asker, PutQueue(t)
  PROVE  IInv'
<1> USE DEF Legs, Free, At
<1>0. PICK ip \in Public : asker[t] = At("put", ip)
  BY DEF PutQueue, IInv, AskerInv
<1>1. /\ asker[t] = At("put", ip) /\ ip \in Public
      /\ asker' = [asker EXCEPT ![t] = Free]
      /\ UNCHANGED <<stopped, resolver, raced>>
  BY <1>0 DEF PutQueue, Becomes
<1>2. /\ DOMAIN asker' = Asker /\ asker'[t] = Free
      /\ \A u \in Asker \ {t} : asker'[u] = asker[u]
  BY <1>1 DEF IInv, AskerInv
<1>3. AskerInv'
  BY <1>1, <1>2 DEF IInv, AskerInv
<1>4. /\ \A x : Scheduling(x)' => Scheduling(x)
      /\ \A x : x # ip /\ Scheduling(x) => Scheduling(x)'
      /\ Scheduling(ip)
  BY <1>1, <1>2 DEF Scheduling
<1>5. \A x : InFlight(x)' <=> InFlight(x)
  BY <1>1 DEF InFlight
<1>6. ASSUME ~raced, stopped # "yes"
      PROVE  /\ \A u, v \in Asker : asker'[u].at \in Legs /\ asker'[v] = asker'[u] => u = v
             /\ \A u \in Asker : asker'[u].at = "add" => asker'[u].ip \notin pending
             /\ ip \in pending /\ ~Queued(ip) /\ ~InFlight(ip) /\ ~Scheduling(ip)'
  <2>1. \A u, v \in Asker : asker'[u].at \in Legs /\ asker'[v] = asker'[u] => u = v
    BY <1>2, <1>6 DEF IInv, OnceInv
  <2>2. \A u \in Asker : asker'[u].at = "add" => asker'[u].ip \notin pending
    BY <1>2, <1>6 DEF IInv, OnceInv
  <2>3. ip \in pending /\ ~Queued(ip) /\ ~InFlight(ip)
    BY <1>1, <1>4, <1>6 DEF IInv, OnceInv, OnItsWay
  <2>4. ~Scheduling(ip)'
    BY <1>1, <1>2, <1>6 DEF IInv, OnceInv, Scheduling
  <2> QED
    BY <2>1, <2>2, <2>3, <2>4
<1>7. CASE Len(queue) < QueueLimit
  <2>1. queue' = Append(queue, ip) /\ pending' = pending
    BY <1>1, <1>7 DEF PutQueue
  <2>2. /\ queue' \in Seq(Public \cup {Stop})
        /\ \A x : x \in ToSet(queue') <=> x \in ToSet(queue) \/ x = ip
        /\ (\A m, n \in DOMAIN queue : queue[m] = queue[n] => m = n) /\ ip \notin ToSet(queue) =>
             \A m, n \in DOMAIN queue' : queue'[m] = queue'[n] => m = n
    BY <1>1, <2>1, AppendAdds DEF IInv, QueueInv
  <2>3. \A x : Queued(x)' <=> Queued(x) \/ x = ip
    BY <2>2 DEF Queued
  <2>4. QueueInv'
    BY <1>1, <2>2, ResolverAssumption DEF IInv, QueueInv
  <2>5. NoStuckPending'
    BY <1>1, <1>4, <1>5, <2>1, <2>3 DEF IInv, NoStuckPending
  <2>6. OnceInv'
    <3> SUFFICES ASSUME ~raced, stopped # "yes"
                 PROVE  OnceInv'
      BY <1>1 DEF OnceInv
    <3>1. \A m, n \in DOMAIN queue' : queue'[m] = queue'[n] => m = n
      BY <1>6, <2>2 DEF IInv, OnceInv, Queued
    <3>2. \A x \in Public : OnItsWay(x)' => x \in pending'
      BY <1>4, <1>5, <1>6, <2>1, <2>3 DEF IInv, OnceInv, OnItsWay
    <3>3. /\ \A x \in Public : Queued(x)' => ~InFlight(x)' /\ ~Scheduling(x)'
          /\ \A x \in Public : InFlight(x)' => ~Scheduling(x)'
      BY <1>4, <1>5, <1>6, <2>3 DEF IInv, OnceInv
    <3> QED
      BY <1>6, <2>1, <3>1, <3>2, <3>3 DEF OnceInv
  <2> QED
    BY <1>3, <2>4, <2>5, <2>6 DEF IInv
<1>8. CASE ~(Len(queue) < QueueLimit)
  <2>1. pending' = pending \ {ip} /\ queue' = queue
    BY <1>1, <1>8 DEF PutQueue
  <2>2. \A x : Queued(x)' <=> Queued(x)
    BY <2>1 DEF Queued
  <2>3. QueueInv' /\ NoStuckPending'
    BY <1>1, <1>4, <1>5, <2>1, <2>2 DEF IInv, QueueInv, NoStuckPending
  <2>4. OnceInv'
    <3> SUFFICES ASSUME ~raced, stopped # "yes"
                 PROVE  OnceInv'
      BY <1>1 DEF OnceInv
    <3>1. \A x \in Public : OnItsWay(x)' => x \in pending'
      BY <1>4, <1>5, <1>6, <2>1, <2>2 DEF IInv, OnceInv, OnItsWay
    <3>2. /\ \A x \in Public : Queued(x)' => ~InFlight(x)' /\ ~Scheduling(x)'
          /\ \A x \in Public : InFlight(x)' => ~Scheduling(x)'
      BY <1>4, <1>5, <2>2 DEF IInv, OnceInv
    <3>3. \A m, n \in DOMAIN queue' : queue'[m] = queue'[n] => m = n
      BY <2>1 DEF IInv, OnceInv
    <3> QED
      BY <1>6, <2>1, <3>1, <3>2, <3>3 DEF OnceInv
  <2> QED
    BY <1>3, <2>3, <2>4 DEF IInv
<1> QED
  BY <1>7, <1>8

\* The resolver takes what is first in the queue, and only from there.
LEMMA GetStep ==
  ASSUME IInv, Get
  PROVE  IInv'
<1>0. PICK h : h = Head(queue)
  OBVIOUS
<1>1. /\ resolver.at = "wait" /\ queue # <<>> /\ queue' = Tail(queue)
      /\ resolver' = IF h = Stop THEN [at |-> "dead"] ELSE At("lookup", h)
      /\ UNCHANGED <<pending, stopped, asker, raced>>
  BY <1>0 DEF Get
<1>2. /\ queue' \in Seq(Public \cup {Stop}) /\ h \in Public \cup {Stop}
      /\ \A x : x \in ToSet(queue) <=> x \in ToSet(queue') \/ x = h
      /\ (\A m, n \in DOMAIN queue : queue[m] = queue[n] => m = n) =>
           /\ \A m, n \in DOMAIN queue' : queue'[m] = queue'[n] => m = n
           /\ h \notin ToSet(queue')
  BY <1>0, <1>1, TailRemoves DEF IInv, QueueInv
<1>3. AskerInv' /\ QueueInv'
  BY <1>1, <1>2 DEF IInv, AskerInv, QueueInv
<1>4. \A x : Queued(x) <=> Queued(x)' \/ x = h
  BY <1>2 DEF Queued
<1>5. \A x : Scheduling(x)' <=> Scheduling(x)
  BY <1>1 DEF Scheduling
<1>6. \A x : ~InFlight(x)
  BY <1>1 DEF InFlight, RememberSteps
<1>7. \A x \in Public : InFlight(x)' <=> x = h
  <2>1. CASE h = Stop
    BY <1>1, <2>1, ResolverAssumption DEF InFlight, RememberSteps
  <2>2. CASE h # Stop
    BY <1>1, <2>2 DEF InFlight, RememberSteps, At
  <2> QED
    BY <2>1, <2>2
<1>8. h # Stop => \A x : InFlight(x)' <=> x = h
  BY <1>1 DEF InFlight, RememberSteps, At
<1>9. NoStuckPending'
  <2>1. stopped = "no" => h # Stop
    BY <1>2 DEF IInv, QueueInv
  <2>2. h # Stop => resolver'.at = "lookup"
    BY <1>1 DEF At
  <2> QED
    BY <1>1, <1>4, <1>5, <1>6, <1>8, <2>1, <2>2 DEF IInv, NoStuckPending
<1>10. OnceInv'
  <2> SUFFICES ASSUME ~raced, stopped # "yes"
               PROVE  OnceInv'
    BY <1>1 DEF OnceInv
  <2>1. /\ \A m, n \in DOMAIN queue' : queue'[m] = queue'[n] => m = n
        /\ ~Queued(h)'
    BY <1>2 DEF IInv, OnceInv, Queued
  <2>2. \A x \in Public : OnItsWay(x)' => x \in pending'
    BY <1>1, <1>4, <1>5, <1>7 DEF IInv, OnceInv, OnItsWay
  <2>3. /\ \A x \in Public : Queued(x)' => ~InFlight(x)' /\ ~Scheduling(x)'
        /\ \A x \in Public : InFlight(x)' => ~Scheduling(x)'
    BY <1>4, <1>5, <1>7, <2>1 DEF IInv, OnceInv
  <2>4. /\ \A t, u \in Asker : asker'[t].at \in Legs /\ asker'[u] = asker'[t] => t = u
        /\ \A t \in Asker : asker'[t].at = "add" => asker'[t].ip \notin pending'
    BY <1>1 DEF IInv, OnceInv
  <2> QED
    BY <2>1, <2>2, <2>3, <2>4 DEF OnceInv
<1> QED
  BY <1>3, <1>9, <1>10 DEF IInv

\* The resolver is done with an address that is nowhere else on its way.
LEMMA DiscardStep ==
  ASSUME IInv, Discard
  PROVE  IInv'
<1>1. /\ resolver.at = "discard" /\ resolver' = [at |-> "top"]
      /\ pending' = pending \ {resolver.ip}
      /\ UNCHANGED <<queue, stopped, asker, raced>>
  BY DEF Discard
<1>2. \A x : (Queued(x)' <=> Queued(x)) /\ (Scheduling(x)' <=> Scheduling(x))
  BY <1>1 DEF Queued, Scheduling
<1>3. \A x : (InFlight(x) <=> x = resolver.ip) /\ ~InFlight(x)'
  BY <1>1 DEF InFlight, RememberSteps
<1>4. AskerInv' /\ QueueInv'
  BY <1>1 DEF IInv, AskerInv, QueueInv
<1>5. NoStuckPending'
  BY <1>1, <1>2, <1>3 DEF IInv, NoStuckPending
<1>6. OnceInv'
  <2> SUFFICES ASSUME ~raced, stopped # "yes"
               PROVE  OnceInv'
    BY <1>1 DEF OnceInv
  <2>1. \A x \in Public : OnItsWay(x)' => x \in pending'
    BY <1>1, <1>2, <1>3 DEF IInv, OnceInv, OnItsWay
  <2>2. /\ \A x \in Public : Queued(x)' => ~InFlight(x)' /\ ~Scheduling(x)'
        /\ \A x \in Public : InFlight(x)' => ~Scheduling(x)'
    BY <1>2, <1>3 DEF IInv, OnceInv
  <2>3. /\ \A t, u \in Asker : asker'[t].at \in Legs /\ asker'[u] = asker'[t] => t = u
        /\ \A t \in Asker : asker'[t].at = "add" => asker'[t].ip \notin pending'
        /\ \A m, n \in DOMAIN queue' : queue'[m] = queue'[n] => m = n
    BY <1>1 DEF IInv, OnceInv
  <2> QED
    BY <2>1, <2>2, <2>3 DEF OnceInv
<1> QED
  BY <1>4, <1>5, <1>6 DEF IInv

\* close() adds the one marker.
LEMMA BeginCloseStep ==
  ASSUME IInv, BeginClose
  PROVE  IInv'
<1>1. /\ stopped = "no" /\ stopped' = "joining"
      /\ queue' = IF Len(queue) < QueueLimit THEN Append(queue, Stop) ELSE queue
      /\ UNCHANGED <<pending, asker, resolver, raced>>
  BY DEF BeginClose
<1>2. /\ queue' \in Seq(Public \cup {Stop})
      /\ \A x : x # Stop => (x \in ToSet(queue') <=> x \in ToSet(queue))
      /\ (\A m, n \in DOMAIN queue : queue[m] = queue[n] => m = n) =>
           \A m, n \in DOMAIN queue' : queue'[m] = queue'[n] => m = n
  <2>1. CASE Len(queue) < QueueLimit
    <3>1. queue' = Append(queue, Stop) /\ Stop \notin ToSet(queue)
      BY <1>1, <2>1 DEF IInv, QueueInv
    <3>2. queue \in Seq(Public \cup {Stop}) /\ Stop \in Public \cup {Stop}
      BY DEF IInv, QueueInv
    <3> QED
      BY <3>1, <3>2, AppendAdds
  <2>2. CASE ~(Len(queue) < QueueLimit)
    BY <1>1, <2>2 DEF IInv, QueueInv
  <2> QED
    BY <2>1, <2>2
<1>3. AskerInv' /\ QueueInv' /\ NoStuckPending'
  BY <1>1, <1>2 DEF IInv, AskerInv, QueueInv, NoStuckPending
<1>4. \A x \in Public : Queued(x)' <=> Queued(x)
  BY <1>2, ResolverAssumption DEF Queued
<1>5. \A x : (InFlight(x)' <=> InFlight(x)) /\ (Scheduling(x)' <=> Scheduling(x))
  BY <1>1 DEF InFlight, Scheduling
<1>6. OnceInv'
  <2> SUFFICES ASSUME ~raced
               PROVE  OnceInv'
    BY <1>1 DEF OnceInv
  <2>1. /\ \A t, u \in Asker : asker'[t].at \in Legs /\ asker'[u] = asker'[t] => t = u
        /\ \A t \in Asker : asker'[t].at = "add" => asker'[t].ip \notin pending'
        /\ \A m, n \in DOMAIN queue' : queue'[m] = queue'[n] => m = n
    BY <1>1, <1>2 DEF IInv, OnceInv
  <2>2. /\ \A x \in Public : OnItsWay(x)' => x \in pending'
        /\ \A x \in Public : Queued(x)' => ~InFlight(x)' /\ ~Scheduling(x)'
        /\ \A x \in Public : InFlight(x)' => ~Scheduling(x)'
    BY <1>1, <1>4, <1>5 DEF IInv, OnceInv, OnItsWay
  <2> QED
    BY <2>1, <2>2 DEF OnceInv
<1> QED
  BY <1>3, <1>6 DEF IInv

LEMMA NextIInv == IInv /\ [Next]_vars => IInv'
<1> SUFFICES ASSUME IInv, [Next]_vars
             PROVE  IInv'
  OBVIOUS
<1>1. CASE Resolve
  BY <1>1, QuietResolver, ResolverRaisesStep, GetStep, DiscardStep DEF Resolve
<1>2. CASE BeginClose
  BY <1>2, BeginCloseStep
<1>3. CASE EndClose
  <2>1. UNCHANGED <<queue, asker>> /\ stopped' = "yes"
    BY <1>3 DEF EndClose
  <2> QED
    BY <2>1 DEF IInv, AskerInv, QueueInv, NoStuckPending, OnceInv
<1>4. ASSUME NEW t \in Asker, Ask(t) \/ GoOn(t)
      PROVE  IInv'
  BY <1>4, QuietAsker, AskPublicStep, AddPendingStep, PutQueueStep DEF Ask, GoOn
<1>5. CASE UNCHANGED vars
  <2>1. UNCHANGED <<pending, queue, stopped, raced, asker, resolver>>
    BY <1>5 DEF vars
  <2>2. DOMAIN asker' = Asker
    BY <2>1 DEF IInv, AskerInv
  <2>3. \A ip : InFlight(ip)' <=> InFlight(ip)
    BY <2>1 DEF InFlight
  <2> QED
    BY <2>1, <2>2, <2>3, QuietSteps
<1> QED
  BY <1>1, <1>2, <1>3, <1>4, <1>5 DEF Next, Close

-------------------------------------------------------------------------------
(* The theorems *)

\* Until close(), and unless the resolver has died of a _dns_cache that changed its size
\* between iter() and next(), the resolver lives and every address in _dns_pending is
\* about to be queued, queued or with it, for any number of threads and even where two of
\* them ask at once: the full queue, which turns an address down, and the end of a lookup
\* both unmark it.
THEOREM NoStuckPendingAlways == Spec => []NoStuckPending
<1>1. IInv => NoStuckPending
  BY DEF IInv
<1> QED
  BY <1>1, InitIInv, NextIInv, PTL DEF Spec

\* Until two threads ask for an address at once or close() empties _dns_pending, no
\* address is in the queue twice, nor in the queue while it is looked up.
THEOREM NoDoubleLookupAlways == Spec => []NoDoubleLookup
<1>1. IInv => NoDoubleLookup
  <2> SUFFICES ASSUME IInv, ~raced, stopped # "yes", NEW ip \in Public
               PROVE  Cardinality({n \in DOMAIN queue : queue[n] = ip})
                        + (IF InFlight(ip) /\ resolver.at # "discard" THEN 1 ELSE 0) <= 1
    BY DEF NoDoubleLookup
  <2> DEFINE places == {n \in DOMAIN queue : queue[n] = ip}
  <2>1. CASE Queued(ip)
    <3>1. PICK n \in DOMAIN queue : queue[n] = ip
      BY <2>1 DEF Queued, ToSet
    <3>2. places = {n}
      BY <3>1 DEF IInv, OnceInv
    <3>3. Cardinality(places) = 1
      BY <3>2, FS_Singleton
    <3>4. ~InFlight(ip)
      BY <2>1 DEF IInv, OnceInv
    <3> QED
      BY <3>3, <3>4
  <2>2. CASE ~Queued(ip)
    <3>1. places = {}
      BY <2>2 DEF Queued, ToSet
    <3>2. Cardinality(places) = 0
      BY <3>1, FS_EmptySet
    <3> QED
      BY <3>2
  <2> QED
    BY <2>1, <2>2
<1> QED
  BY <1>1, InitIInv, NextIInv, PTL DEF Spec
===============================================================================
