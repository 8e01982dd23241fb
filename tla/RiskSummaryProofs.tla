--------------------------- MODULE RiskSummaryProofs ---------------------------
(***************************************************************************)
(* Proofs about RiskSummary: for any flows, ranks and number of alerts,    *)
(* and for any interleaving of the statements of the three threads on      *)
(* their one connection, the summary is what the alerts say as long as no  *)
(* two operations overlap, and never less once they may overlap or the     *)
(* process may die.  Between two statements a row is not yet what the      *)
(* alerts say: the invariant says what it owes already, by what every      *)
(* thread has still to do (Due), and relates the committed tables too.     *)
(***************************************************************************)
EXTENDS RiskSummary, FiniteSetTheorems, SequenceTheorems, WellFoundedInduction, TLAPS

-------------------------------------------------------------------------------
(* Statements and programs *)

Dir == {"forward", "reverse"}
Alert == [id : 0 .. MaxAlerts, flow : Flows, rank : Ranks, expired : BOOLEAN,
          source : Source]

Insert(a) == [sql |-> "insert_alert", alert |-> a, begins |-> TRUE]
Upsert(a, dir) == [sql |-> "upsert", alert |-> a, dir |-> dir, begins |-> dir = "forward"]
Wipe(scope) == [sql |-> "wipe", scope |-> scope, begins |-> TRUE]
Regroup(scope, dir) == [sql |-> "regroup", scope |-> scope, dir |-> dir, begins |-> TRUE]
Delete(s) == [sql |-> "delete_source", source |-> s, begins |-> TRUE]
Expire == [sql |-> "delete_expired", begins |-> TRUE]

\* What may be left of an operation: that of SaveAlert, of Rebuild, and of the
\* two operations that delete alerts and then rebuild the summary in a scope.
Saving(a) ==
  {<<Insert(a), Upsert(a, "forward"), Upsert(a, "reverse"), Commit>>,
   <<Insert(a), Upsert(a, "forward"), Upsert(a, "reverse")>>,
   <<Upsert(a, "forward"), Upsert(a, "reverse"), Commit>>,
   <<Upsert(a, "forward"), Upsert(a, "reverse")>>,
   <<Upsert(a, "reverse"), Commit>>,
   <<Upsert(a, "reverse")>>}
Rebuilding(sc) ==
  {<<Commit, Wipe(sc), Regroup(sc, "forward"), Regroup(sc, "reverse"), Commit>>,
   <<Wipe(sc), Regroup(sc, "forward"), Regroup(sc, "reverse"), Commit>>,
   <<Regroup(sc, "forward"), Regroup(sc, "reverse"), Commit>>,
   <<Regroup(sc, "reverse"), Commit>>}
Deleting(st, sc) ==
  <<st, Commit, Wipe(sc), Regroup(sc, "forward"), Regroup(sc, "reverse"), Commit>>

SavingPrograms == UNION {Saving(a) : a \in Alert}
RebuildingPrograms == UNION {Rebuilding(sc) : sc \in SUBSET Source}
ClearingPrograms == {Deleting(Delete(s), {s}) : s \in Source}
Programs == {<<>>, <<Commit>>, Deleting(Expire, Source)}
            \cup SavingPrograms \cup RebuildingPrograms \cup ClearingPrograms

\* What a program has still to do.
Each(p) == {p[i] : i \in 1 .. Len(p)}
Inserts(p) == {a \in Alert : Insert(a) \in Each(p)}
Upserts(p, d) == {a \in Alert : Upsert(a, d) \in Each(p)}
Wipes(p) == {s \in Source : \E sc \in SUBSET Source : s \in sc /\ Wipe(sc) \in Each(p)}
Regroups(p, d) ==
  {s \in Source : \E sc \in SUBSET Source : s \in sc /\ Regroup(sc, d) \in Each(p)}
Deletes(p) == Expire \in Each(p) \/ \E s \in Source : Delete(s) \in Each(p)

-------------------------------------------------------------------------------
(* The inductive invariant *)

\* An alert with this id has still to be added to the summary in direction d.
PendingIn(p, id, d) == \E a \in Upserts(p, d) : a.id = id
Pending(pr, id, d) == \E t \in Thread : PendingIn(pr[t], id, d)

\* A rebuild has wiped the row of k and has still to count direction d again.
OwesIn(p, k, d) == k[2] \in Regroups(p, d) /\ k[2] \notin Wipes(p)
Owes(pr, k, d) == \E t \in Thread : OwesIn(pr[t], k, d)

\* Alerts were deleted and the row of k has still to be wiped.
StaleIn(p, k) == k[2] \in Wipes(p) /\ ~Deletes(p)
Stale(pr, k) == \E t \in Thread : StaleIn(pr[t], k)

Hits(alerts, k, d) == {a \in alerts : KeyOf(a, d) = k}

\* The alerts that the row of k already owes its rank and count to, when pr is
\* what the threads have left to do.
Due(pr, alerts, k, d) ==
  IF Owes(pr, k, d) THEN {} ELSE {a \in Hits(alerts, k, d) : ~Pending(pr, a.id, d)}

Row == [rank : Nat, count : Nat]
Tables(t) ==
  /\ t \in [alerts : SUBSET Alert, summary : [Key -> Row]]
  /\ IsFiniteSet(t.alerts)
  /\ \A a \in t.alerts : a.id < saved
  /\ \A a, b \in t.alerts : a.id = b.id => a = b

TypeInv ==
  /\ Tables(db) /\ Tables(disk)
  /\ open \in BOOLEAN /\ raced \in BOOLEAN /\ died \in BOOLEAN
  /\ saved \in 0 .. MaxAlerts
  /\ prog \in [Thread -> Programs]

SameAlert(a, b) == a.flow = b.flow /\ a.rank = b.rank /\ a.source = b.source

\* The alert of a saving thread: it is in the table as it was, if at all, and
\* no other thread saves it.
Work(p) == Inserts(p) \cup Upserts(p, "forward") \cup Upserts(p, "reverse")
SavingInv ==
  \A t \in Thread : \A a \in Work(prog[t]) :
    /\ a.id < saved
    /\ \A b \in db.alerts : b.id = a.id => SameAlert(a, b)
    /\ a \in Inserts(prog[t]) => \A b \in db.alerts : b.id # a.id
    /\ \A u \in Thread : \A b \in Work(prog[u]) : a.id = b.id => u = t

\* Without an overlap one thread works at a time and its alert is not deleted.
AloneInv ==
  ~raced =>
    /\ \A t, u \in Thread : Idle(t) \/ Idle(u) \/ t = u
    /\ \A t \in Thread : \A a \in Work(prog[t]) :
          a \in Inserts(prog[t]) \/ \E b \in db.alerts : b.id = a.id

Covers(row, S, T) ==
  /\ row.count >= Cardinality(S) + Cardinality(T)
  /\ \A a \in S \cup T : row.rank >= a.rank

Exactly(row, S, T) ==
  /\ row.count = Cardinality(S) + Cardinality(T)
  /\ row.rank = 0 \/ \E a \in S \cup T : row.rank = a.rank

CoversInv ==
  ~(raced /\ died) =>
    \A k \in Key : Covers(db.summary[k], Due(prog, db.alerts, k, "forward"),
                                         Due(prog, db.alerts, k, "reverse"))

DiskInv ==
  ~raced =>
    \A k \in Key :
      Covers(disk.summary[k], Hits(disk.alerts, k, "forward"),
                              Hits(disk.alerts, k, "reverse"))

ExactInv ==
  ~raced /\ ~died =>
    \A k \in Key :
      Stale(prog, k) \/ Exactly(db.summary[k], Due(prog, db.alerts, k, "forward"),
                                              Due(prog, db.alerts, k, "reverse"))

-------------------------------------------------------------------------------
(* Programs, statement by statement *)

\* What p has still to do, in one formula: whom it inserts and adds to the
\* summary, the sources it wipes and counts again, whether it deletes.
Plan(p, ins, upF, upR, wip, regF, regR, del) ==
  /\ Inserts(p) = ins
  /\ Upserts(p, "forward") = upF
  /\ Upserts(p, "reverse") = upR
  /\ Wipes(p) = wip
  /\ Regroups(p, "forward") = regF
  /\ Regroups(p, "reverse") = regR
  /\ Deletes(p) = del

\* What each statement is, and whether it begins a transaction.
LEMMA Statements ==
  /\ \A a : Insert(a).sql = "insert_alert" /\ Insert(a).alert = a /\ Insert(a).begins
  /\ \A a, d : /\ Upsert(a, d).sql = "upsert" /\ Upsert(a, d).alert = a
               /\ Upsert(a, d).dir = d
               /\ Upsert(a, d).begins = (d = "forward")
  /\ \A x : Wipe(x).sql = "wipe" /\ Wipe(x).scope = x /\ Wipe(x).begins
  /\ \A x, d : /\ Regroup(x, d).sql = "regroup" /\ Regroup(x, d).scope = x
               /\ Regroup(x, d).dir = d /\ Regroup(x, d).begins
  /\ \A x : Delete(x).sql = "delete_source" /\ Delete(x).source = x /\ Delete(x).begins
  /\ Expire.sql = "delete_expired" /\ Expire.begins
  /\ Commit.sql = "commit"
BY DEF Insert, Upsert, Wipe, Regroup, Delete, Expire, Commit

\* The statements of a program of a given length.
LEMMA EachOf ==
  /\ Each(<<>>) = {}
  /\ \A a : Each(<<a>>) = {a}
  /\ \A a, b : Each(<<a, b>>) = {a, b}
  /\ \A a, b, c : Each(<<a, b, c>>) = {a, b, c}
  /\ \A a, b, c, d : Each(<<a, b, c, d>>) = {a, b, c, d}
  /\ \A a, b, c, d, e : Each(<<a, b, c, d, e>>) = {a, b, c, d, e}
  /\ \A a, b, c, d, e, f : Each(<<a, b, c, d, e, f>>) = {a, b, c, d, e, f}
BY DEF Each

\* A statement has one kind and one form.
LEMMA Distinct ==
  /\ \A a, b : Insert(a) = Insert(b) <=> a = b
  /\ \A a, b, d, e : Upsert(a, d) = Upsert(b, e) <=> a = b /\ d = e
  /\ \A x, y : Wipe(x) = Wipe(y) <=> x = y
  /\ \A x, y, d, e : Regroup(x, d) = Regroup(y, e) <=> x = y /\ d = e
  /\ \A x, y : Delete(x) = Delete(y) <=> x = y
  /\ \A a, b, d : Insert(a) # Upsert(b, d)
  /\ \A a, x : Insert(a) # Wipe(x) /\ Insert(a) # Delete(x)
  /\ \A a, x, d : Insert(a) # Regroup(x, d)
  /\ \A a, d, x : Upsert(a, d) # Wipe(x) /\ Upsert(a, d) # Delete(x)
  /\ \A a, d, x, e : Upsert(a, d) # Regroup(x, e)
  /\ \A x, y, d : Wipe(x) # Regroup(y, d)
  /\ \A x, y : Wipe(x) # Delete(y)
  /\ \A x, y, d : Regroup(x, d) # Delete(y)
  /\ \A a : Insert(a) # Expire /\ Insert(a) # Commit
  /\ \A a, d : Upsert(a, d) # Expire /\ Upsert(a, d) # Commit
  /\ \A x : Wipe(x) # Expire /\ Wipe(x) # Commit
  /\ \A x, d : Regroup(x, d) # Expire /\ Regroup(x, d) # Commit
  /\ \A x : Delete(x) # Expire /\ Delete(x) # Commit
  /\ Expire # Commit
BY DEF Insert, Upsert, Wipe, Regroup, Delete, Expire, Commit

\* A program that only commits has nothing to do.
LEMMA PlanOfCommit ==
  ASSUME NEW p, \A x \in Each(p) : x = Commit
  PROVE  Plan(p, {}, {}, {}, {}, {}, {}, FALSE)
<1>1. \A x : Insert(x) \in Each(p) <=> FALSE
  BY Distinct
<1>2. \A x, d : Upsert(x, d) \in Each(p) <=> FALSE
  BY Distinct
<1>3. \A x : Wipe(x) \in Each(p) <=> FALSE
  BY Distinct
<1>4. \A x, d : Regroup(x, d) \in Each(p) <=> FALSE
  BY Distinct
<1>5. Deletes(p) = FALSE
  BY Distinct DEF Deletes
<1>6. Inserts(p) = {} /\ Upserts(p, "forward") = {} /\ Upserts(p, "reverse") = {}
  BY <1>1, <1>2 DEF Inserts, Upserts
<1>7. Wipes(p) = {} /\ Regroups(p, "forward") = {} /\ Regroups(p, "reverse") = {}
  BY <1>3, <1>4 DEF Wipes, Regroups
<1> QED BY <1>5, <1>6, <1>7 DEF Plan

\* SaveAlert before its first statement,
LEMMA PlanOfInsert ==
  ASSUME NEW a \in Alert, NEW p,
         Each(p) \cup {Commit} = {Insert(a), Upsert(a, "forward"), Upsert(a, "reverse"), Commit}
  PROVE  Plan(p, {a}, {a}, {a}, {}, {}, {}, FALSE)
<1>1. \A x : Insert(x) \in Each(p) <=> x = a
  BY Distinct
<1>2. \A x, d : Upsert(x, d) \in Each(p) <=> x = a /\ d \in {"forward", "reverse"}
  BY Distinct
<1>3. \A x : Wipe(x) \in Each(p) <=> FALSE
  BY Distinct
<1>4. \A x, d : Regroup(x, d) \in Each(p) <=> FALSE
  BY Distinct
<1>5. Deletes(p) = FALSE
  BY Distinct DEF Deletes
<1>6. Inserts(p) = {a} /\ Upserts(p, "forward") = {a} /\ Upserts(p, "reverse") = {a}
  BY <1>1, <1>2 DEF Inserts, Upserts
<1>7. Wipes(p) = {} /\ Regroups(p, "forward") = {} /\ Regroups(p, "reverse") = {}
  BY <1>3, <1>4 DEF Wipes, Regroups
<1> QED BY <1>5, <1>6, <1>7 DEF Plan

\* before its first row of the summary,
LEMMA PlanOfUpserts ==
  ASSUME NEW a \in Alert, NEW p,
         Each(p) \cup {Commit} = {Upsert(a, "forward"), Upsert(a, "reverse"), Commit}
  PROVE  Plan(p, {}, {a}, {a}, {}, {}, {}, FALSE)
<1>1. \A x : Insert(x) \in Each(p) <=> FALSE
  BY Distinct
<1>2. \A x, d : Upsert(x, d) \in Each(p) <=> x = a /\ d \in {"forward", "reverse"}
  BY Distinct
<1>3. \A x : Wipe(x) \in Each(p) <=> FALSE
  BY Distinct
<1>4. \A x, d : Regroup(x, d) \in Each(p) <=> FALSE
  BY Distinct
<1>5. Deletes(p) = FALSE
  BY Distinct DEF Deletes
<1>6. Inserts(p) = {} /\ Upserts(p, "forward") = {a} /\ Upserts(p, "reverse") = {a}
  BY <1>1, <1>2 DEF Inserts, Upserts
<1>7. Wipes(p) = {} /\ Regroups(p, "forward") = {} /\ Regroups(p, "reverse") = {}
  BY <1>3, <1>4 DEF Wipes, Regroups
<1> QED BY <1>5, <1>6, <1>7 DEF Plan

\* and before its second.
LEMMA PlanOfUpsert ==
  ASSUME NEW a \in Alert, NEW p,
         Each(p) \cup {Commit} = {Upsert(a, "reverse"), Commit}
  PROVE  Plan(p, {}, {}, {a}, {}, {}, {}, FALSE)
<1>1. \A x : Insert(x) \in Each(p) <=> FALSE
  BY Distinct
<1>2. \A x, d : Upsert(x, d) \in Each(p) <=> x = a /\ d = "reverse"
  BY Distinct
<1>3. \A x : Wipe(x) \in Each(p) <=> FALSE
  BY Distinct
<1>4. \A x, d : Regroup(x, d) \in Each(p) <=> FALSE
  BY Distinct
<1>5. Deletes(p) = FALSE
  BY Distinct DEF Deletes
<1>6. Inserts(p) = {} /\ Upserts(p, "forward") = {} /\ Upserts(p, "reverse") = {a}
  BY <1>1, <1>2 DEF Inserts, Upserts
<1>7. Wipes(p) = {} /\ Regroups(p, "forward") = {} /\ Regroups(p, "reverse") = {}
  BY <1>3, <1>4 DEF Wipes, Regroups
<1> QED BY <1>5, <1>6, <1>7 DEF Plan

\* ClearSource and Cleanup before their DELETE,
LEMMA PlanOfDelete ==
  ASSUME NEW sc \in SUBSET Source, NEW p, NEW st,
         st = Expire \/ \E s \in Source : st = Delete(s),
         Each(p) = {st, Commit, Wipe(sc), Regroup(sc, "forward"), Regroup(sc, "reverse")}
  PROVE  Plan(p, {}, {}, {}, sc, sc, sc, TRUE)
<1>1. \A x : Insert(x) \in Each(p) <=> FALSE
  BY Distinct
<1>2. \A x, d : Upsert(x, d) \in Each(p) <=> FALSE
  BY Distinct
<1>3. \A x : Wipe(x) \in Each(p) <=> x = sc
  BY Distinct
<1>4. \A x, d : Regroup(x, d) \in Each(p) <=> x = sc /\ d \in {"forward", "reverse"}
  BY Distinct
<1>5. Deletes(p) = TRUE
  BY Distinct DEF Deletes
<1>6. Inserts(p) = {} /\ Upserts(p, "forward") = {} /\ Upserts(p, "reverse") = {}
  BY <1>1, <1>2 DEF Inserts, Upserts
<1>7. Wipes(p) = sc /\ Regroups(p, "forward") = sc /\ Regroups(p, "reverse") = sc
  BY <1>3, <1>4 DEF Wipes, Regroups
<1> QED BY <1>5, <1>6, <1>7 DEF Plan

\* before the rebuild wipes its rows,
LEMMA PlanOfRebuild ==
  ASSUME NEW sc \in SUBSET Source, NEW p,
         Each(p) = {Commit, Wipe(sc), Regroup(sc, "forward"), Regroup(sc, "reverse")}
  PROVE  Plan(p, {}, {}, {}, sc, sc, sc, FALSE)
<1>1. \A x : Insert(x) \in Each(p) <=> FALSE
  BY Distinct
<1>2. \A x, d : Upsert(x, d) \in Each(p) <=> FALSE
  BY Distinct
<1>3. \A x : Wipe(x) \in Each(p) <=> x = sc
  BY Distinct
<1>4. \A x, d : Regroup(x, d) \in Each(p) <=> x = sc /\ d \in {"forward", "reverse"}
  BY Distinct
<1>5. Deletes(p) = FALSE
  BY Distinct DEF Deletes
<1>6. Inserts(p) = {} /\ Upserts(p, "forward") = {} /\ Upserts(p, "reverse") = {}
  BY <1>1, <1>2 DEF Inserts, Upserts
<1>7. Wipes(p) = sc /\ Regroups(p, "forward") = sc /\ Regroups(p, "reverse") = sc
  BY <1>3, <1>4 DEF Wipes, Regroups
<1> QED BY <1>5, <1>6, <1>7 DEF Plan

\* before it counts the first direction,
LEMMA PlanOfRegroups ==
  ASSUME NEW sc \in SUBSET Source, NEW p,
         Each(p) = {Regroup(sc, "forward"), Regroup(sc, "reverse"), Commit}
  PROVE  Plan(p, {}, {}, {}, {}, sc, sc, FALSE)
<1>1. \A x : Insert(x) \in Each(p) <=> FALSE
  BY Distinct
<1>2. \A x, d : Upsert(x, d) \in Each(p) <=> FALSE
  BY Distinct
<1>3. \A x : Wipe(x) \in Each(p) <=> FALSE
  BY Distinct
<1>4. \A x, d : Regroup(x, d) \in Each(p) <=> x = sc /\ d \in {"forward", "reverse"}
  BY Distinct
<1>5. Deletes(p) = FALSE
  BY Distinct DEF Deletes
<1>6. Inserts(p) = {} /\ Upserts(p, "forward") = {} /\ Upserts(p, "reverse") = {}
  BY <1>1, <1>2 DEF Inserts, Upserts
<1>7. Wipes(p) = {} /\ Regroups(p, "forward") = sc /\ Regroups(p, "reverse") = sc
  BY <1>3, <1>4 DEF Wipes, Regroups
<1> QED BY <1>5, <1>6, <1>7 DEF Plan

\* and before it counts the second.
LEMMA PlanOfRegroup ==
  ASSUME NEW sc \in SUBSET Source, NEW p,
         Each(p) = {Regroup(sc, "reverse"), Commit}
  PROVE  Plan(p, {}, {}, {}, {}, {}, sc, FALSE)
<1>1. \A x : Insert(x) \in Each(p) <=> FALSE
  BY Distinct
<1>2. \A x, d : Upsert(x, d) \in Each(p) <=> FALSE
  BY Distinct
<1>3. \A x : Wipe(x) \in Each(p) <=> FALSE
  BY Distinct
<1>4. \A x, d : Regroup(x, d) \in Each(p) <=> x = sc /\ d = "reverse"
  BY Distinct
<1>5. Deletes(p) = FALSE
  BY Distinct DEF Deletes
<1>6. Inserts(p) = {} /\ Upserts(p, "forward") = {} /\ Upserts(p, "reverse") = {}
  BY <1>1, <1>2 DEF Inserts, Upserts
<1>7. Wipes(p) = {} /\ Regroups(p, "forward") = {} /\ Regroups(p, "reverse") = sc
  BY <1>3, <1>4 DEF Wipes, Regroups
<1> QED BY <1>5, <1>6, <1>7 DEF Plan

Idling(p) == Plan(p, {}, {}, {}, {}, {}, {}, FALSE)

\* A program before each kind of statement: what is to do before and after it.
AtInsert(p, a) ==
  /\ a \in Alert /\ Head(p) = Insert(a)
  /\ Plan(p, {a}, {a}, {a}, {}, {}, {}, FALSE)
  /\ Plan(Tail(p), {}, {a}, {a}, {}, {}, {}, FALSE)
AtForward(p, a) ==
  /\ a \in Alert /\ Head(p) = Upsert(a, "forward")
  /\ Plan(p, {}, {a}, {a}, {}, {}, {}, FALSE)
  /\ Plan(Tail(p), {}, {}, {a}, {}, {}, {}, FALSE)
AtReverse(p, a) ==
  /\ a \in Alert /\ Head(p) = Upsert(a, "reverse")
  /\ Plan(p, {}, {}, {a}, {}, {}, {}, FALSE)
  /\ Idling(Tail(p))
AtDelete(p, st, sc) ==
  /\ Head(p) = st
  /\ \/ st = Expire /\ sc = Source
     \/ \E s \in Source : st = Delete(s) /\ sc = {s}
  /\ Plan(p, {}, {}, {}, sc, sc, sc, TRUE)
  /\ Plan(Tail(p), {}, {}, {}, sc, sc, sc, FALSE)
AtCommit(p) ==
  /\ Head(p) = Commit
  /\ \/ Idling(p) /\ Idling(Tail(p)) /\ Tail(p) = <<>>
     \/ \E sc \in SUBSET Source : /\ Plan(p, {}, {}, {}, sc, sc, sc, FALSE)
                                  /\ Plan(Tail(p), {}, {}, {}, sc, sc, sc, FALSE)
AtWipe(p, sc) ==
  /\ sc \in SUBSET Source /\ Head(p) = Wipe(sc)
  /\ Plan(p, {}, {}, {}, sc, sc, sc, FALSE)
  /\ Plan(Tail(p), {}, {}, {}, {}, sc, sc, FALSE)
AtRegroup(p, sc) ==
  /\ sc \in SUBSET Source /\ Head(p) = Regroup(sc, "forward")
  /\ Plan(p, {}, {}, {}, {}, sc, sc, FALSE)
  /\ Plan(Tail(p), {}, {}, {}, {}, {}, sc, FALSE)
AtLastRegroup(p, sc) ==
  /\ sc \in SUBSET Source /\ Head(p) = Regroup(sc, "reverse")
  /\ Plan(p, {}, {}, {}, {}, {}, sc, FALSE)
  /\ Idling(Tail(p))

\* The first statement of a program and those after it.
LEMMA HeadTail ==
  /\ \A a : Head(<<a>>) = a /\ Tail(<<a>>) = <<>> /\ <<a>> # <<>>
  /\ \A a, b : Head(<<a, b>>) = a /\ Tail(<<a, b>>) = <<b>> /\ <<a, b>> # <<>>
  /\ \A a, b, c : /\ Head(<<a, b, c>>) = a /\ Tail(<<a, b, c>>) = <<b, c>>
                  /\ <<a, b, c>> # <<>>
  /\ \A a, b, c, d : /\ Head(<<a, b, c, d>>) = a /\ Tail(<<a, b, c, d>>) = <<b, c, d>>
                     /\ <<a, b, c, d>> # <<>>
  /\ \A a, b, c, d, e : /\ Head(<<a, b, c, d, e>>) = a
                        /\ Tail(<<a, b, c, d, e>>) = <<b, c, d, e>>
                        /\ <<a, b, c, d, e>> # <<>>
  /\ \A a, b, c, d, e, f : /\ Head(<<a, b, c, d, e, f>>) = a
                           /\ Tail(<<a, b, c, d, e, f>>) = <<b, c, d, e, f>>
                           /\ <<a, b, c, d, e, f>> # <<>>
OBVIOUS

\* What is left of an operation, by the operation.
LEMMA ProgramKinds ==
  /\ <<>> \in Programs /\ <<Commit>> \in Programs
  /\ \A a \in Alert : Saving(a) \subseteq Programs
  /\ \A sc \in SUBSET Source : Rebuilding(sc) \subseteq Programs
  /\ \A s \in Source : Deleting(Delete(s), {s}) \in Programs
  /\ Deleting(Expire, Source) \in Programs
  /\ \A p \in Programs :
       \/ p = <<>> \/ p = <<Commit>>
       \/ \E a \in Alert : p \in Saving(a)
       \/ \E sc \in SUBSET Source : p \in Rebuilding(sc)
       \/ \E s \in Source : p = Deleting(Delete(s), {s})
       \/ p = Deleting(Expire, Source)
<1>1. \A p : p \in Programs <=>
             \/ p = <<>> \/ p = <<Commit>> \/ p = Deleting(Expire, Source)
             \/ p \in SavingPrograms \/ p \in RebuildingPrograms \/ p \in ClearingPrograms
  BY DEF Programs
<1>2. \A p : p \in SavingPrograms <=> \E a \in Alert : p \in Saving(a)
  BY DEF SavingPrograms
<1>3. \A p : p \in RebuildingPrograms <=> \E sc \in SUBSET Source : p \in Rebuilding(sc)
  BY DEF RebuildingPrograms
<1>4. \A p : p \in ClearingPrograms <=> \E s \in Source : p = Deleting(Delete(s), {s})
  BY DEF ClearingPrograms
<1> QED BY <1>1, <1>2, <1>3, <1>4

\* An idle thread, and one that only commits, have nothing to do.
LEMMA EmptyProgram == Idling(<<>>) /\ Idling(<<Commit>>)
<1>1. Each(<<>>) = {} /\ Each(<<Commit>>) = {Commit}
  BY EachOf
<1>2. \A x \in Each(<<>>) : x = Commit
  BY <1>1
<1>3. \A x \in Each(<<Commit>>) : x = Commit
  BY <1>1
<1>4. Plan(<<>>, {}, {}, {}, {}, {}, {}, FALSE)
  BY <1>2, PlanOfCommit
<1>5. Plan(<<Commit>>, {}, {}, {}, {}, {}, {}, FALSE)
  BY <1>3, PlanOfCommit
<1> QED BY <1>4, <1>5 DEF Idling

\* A saving thread runs its statements in this order.
LEMMA SavingPlans ==
  ASSUME NEW a \in Alert, NEW i, NEW f, NEW r,
         i = Insert(a), f = Upsert(a, "forward"), r = Upsert(a, "reverse")
  PROVE  /\ Plan(<<i, f, r, Commit>>, {a}, {a}, {a}, {}, {}, {}, FALSE)
         /\ Plan(<<i, f, r>>, {a}, {a}, {a}, {}, {}, {}, FALSE)
         /\ Plan(<<f, r, Commit>>, {}, {a}, {a}, {}, {}, {}, FALSE)
         /\ Plan(<<f, r>>, {}, {a}, {a}, {}, {}, {}, FALSE)
         /\ Plan(<<r, Commit>>, {}, {}, {a}, {}, {}, {}, FALSE)
         /\ Plan(<<r>>, {}, {}, {a}, {}, {}, {}, FALSE)
<1>1. /\ Each(<<i, f, r, Commit>>) \cup {Commit} = {i, f, r, Commit}
      /\ Each(<<i, f, r>>) \cup {Commit} = {i, f, r, Commit}
      /\ Each(<<f, r, Commit>>) \cup {Commit} = {f, r, Commit}
      /\ Each(<<f, r>>) \cup {Commit} = {f, r, Commit}
      /\ Each(<<r, Commit>>) \cup {Commit} = {r, Commit}
      /\ Each(<<r>>) \cup {Commit} = {r, Commit}
  BY EachOf
<1>2. Plan(<<i, f, r, Commit>>, {a}, {a}, {a}, {}, {}, {}, FALSE)
  BY <1>1, PlanOfInsert
<1>3. Plan(<<i, f, r>>, {a}, {a}, {a}, {}, {}, {}, FALSE)
  BY <1>1, PlanOfInsert
<1>4. Plan(<<f, r, Commit>>, {}, {a}, {a}, {}, {}, {}, FALSE)
  BY <1>1, PlanOfUpserts
<1>5. Plan(<<f, r>>, {}, {a}, {a}, {}, {}, {}, FALSE)
  BY <1>1, PlanOfUpserts
<1>6. Plan(<<r, Commit>>, {}, {}, {a}, {}, {}, {}, FALSE)
  BY <1>1, PlanOfUpsert
<1>7. Plan(<<r>>, {}, {}, {a}, {}, {}, {}, FALSE)
  BY <1>1, PlanOfUpsert
<1> QED BY <1>2, <1>3, <1>4, <1>5, <1>6, <1>7

\* Likewise for what is left of SaveAlert, statement by statement.
LEMMA SavingSteps ==
  ASSUME NEW a \in Alert, NEW p \in Saving(a)
  PROVE  /\ p # <<>> /\ Tail(p) \in Saving(a) \cup {<<>>, <<Commit>>}
         /\ AtInsert(p, a) \/ AtForward(p, a) \/ AtReverse(p, a)
<1> DEFINE i == Insert(a)
           f == Upsert(a, "forward")
           r == Upsert(a, "reverse")
           s4 == <<i, f, r, Commit>>
           s3 == <<i, f, r>>
           t4 == <<f, r, Commit>>
           t3 == <<f, r>>
           u4 == <<r, Commit>>
           u3 == <<r>>
<1>1. /\ Plan(s4, {a}, {a}, {a}, {}, {}, {}, FALSE) /\ Plan(s3, {a}, {a}, {a}, {}, {}, {}, FALSE)
      /\ Plan(t4, {}, {a}, {a}, {}, {}, {}, FALSE) /\ Plan(t3, {}, {a}, {a}, {}, {}, {}, FALSE)
      /\ Plan(u4, {}, {}, {a}, {}, {}, {}, FALSE) /\ Plan(u3, {}, {}, {a}, {}, {}, {}, FALSE)
  BY SavingPlans
<1>2. Saving(a) = {s4, s3, t4, t3, u4, u3}
  BY DEF Saving
<1>3. /\ s4 # <<>> /\ Head(s4) = i /\ Tail(s4) = t4
      /\ s3 # <<>> /\ Head(s3) = i /\ Tail(s3) = t3
  BY HeadTail
<1>4. /\ t4 # <<>> /\ Head(t4) = f /\ Tail(t4) = u4
      /\ t3 # <<>> /\ Head(t3) = f /\ Tail(t3) = u3
  BY HeadTail
<1>5. /\ u4 # <<>> /\ Head(u4) = r /\ Tail(u4) = <<Commit>>
      /\ u3 # <<>> /\ Head(u3) = r /\ Tail(u3) = <<>>
  BY HeadTail
<1> HIDE DEF s4, s3, t4, t3, u4, u3, i, f, r
<1>6. AtInsert(s4, a) /\ AtInsert(s3, a)
  BY <1>1, <1>3 DEF AtInsert, i
<1>7. AtForward(t4, a) /\ AtForward(t3, a)
  BY <1>1, <1>4 DEF AtForward, f
<1>8. AtReverse(u4, a) /\ AtReverse(u3, a)
  BY <1>1, <1>5, EmptyProgram DEF AtReverse, r
<1> QED BY <1>2, <1>3, <1>4, <1>5, <1>6, <1>7, <1>8

\* A rebuilding thread commits, wipes and then counts both directions again.
LEMMA RebuildingSteps ==
  ASSUME NEW sc \in SUBSET Source, NEW p \in Rebuilding(sc)
  PROVE  /\ p # <<>> /\ Tail(p) \in Rebuilding(sc) \cup {<<>>, <<Commit>>}
         /\ AtCommit(p) \/ AtWipe(p, sc) \/ AtRegroup(p, sc) \/ AtLastRegroup(p, sc)
<1> DEFINE w == Wipe(sc)
           f == Regroup(sc, "forward")
           r == Regroup(sc, "reverse")
           p5 == <<Commit, w, f, r, Commit>>
           p4 == <<w, f, r, Commit>>
           p3 == <<f, r, Commit>>
           p2 == <<r, Commit>>
<1>1. \A q : q \in {p5, p4} => Plan(q, {}, {}, {}, sc, sc, sc, FALSE)
  <2>1. Each(p5) = {Commit, w, f, r} /\ Each(p4) = {Commit, w, f, r}
    BY EachOf
  <2> QED BY <2>1, PlanOfRebuild
<1>2. Plan(p3, {}, {}, {}, {}, sc, sc, FALSE)
  <2>1. Each(p3) = {f, r, Commit}
    BY EachOf
  <2> QED BY <2>1, PlanOfRegroups
<1>3. Plan(p2, {}, {}, {}, {}, {}, sc, FALSE)
  BY PlanOfRegroup, EachOf
<1>4. Rebuilding(sc) = {p5, p4, p3, p2}
  BY DEF Rebuilding
<1>5. /\ p5 # <<>> /\ Head(p5) = Commit /\ Tail(p5) = p4
      /\ p4 # <<>> /\ Head(p4) = w /\ Tail(p4) = p3
      /\ p3 # <<>> /\ Head(p3) = f /\ Tail(p3) = p2
      /\ p2 # <<>> /\ Head(p2) = r /\ Tail(p2) = <<Commit>>
  BY HeadTail
<1> HIDE DEF p5, p4, p3, p2, w, f, r
<1>6. p # <<>> /\ Tail(p) \in Rebuilding(sc) \cup {<<>>, <<Commit>>}
  BY <1>4, <1>5
<1>7. AtCommit(p5)
  BY <1>1, <1>5 DEF AtCommit
<1>8. AtWipe(p4, sc)
  BY <1>1, <1>2, <1>5 DEF AtWipe, w
<1>9. AtRegroup(p3, sc)
  BY <1>2, <1>3, <1>5 DEF AtRegroup, f
<1>10. AtLastRegroup(p2, sc)
  BY <1>3, <1>5, EmptyProgram DEF AtLastRegroup, r
<1> QED BY <1>4, <1>6, <1>7, <1>8, <1>9, <1>10

\* A thread that deletes alerts rebuilds the summary of their sources next.
LEMMA DeletingSteps ==
  ASSUME NEW sc \in SUBSET Source, NEW st,
         \/ st = Expire /\ sc = Source
         \/ \E s \in Source : st = Delete(s) /\ sc = {s}
  PROVE  /\ Deleting(st, sc) # <<>> /\ Tail(Deleting(st, sc)) \in Rebuilding(sc)
         /\ AtDelete(Deleting(st, sc), st, sc)
<1> DEFINE w == Wipe(sc)
           f == Regroup(sc, "forward")
           r == Regroup(sc, "reverse")
           p5 == <<Commit, w, f, r, Commit>>
           p6 == <<st, Commit, w, f, r, Commit>>
<1>1. Plan(p5, {}, {}, {}, sc, sc, sc, FALSE)
  <2>1. Each(p5) = {Commit, w, f, r}
    BY EachOf
  <2> QED BY <2>1, PlanOfRebuild
<1>2. Plan(p6, {}, {}, {}, sc, sc, sc, TRUE)
  <2>1. Each(p6) = {st, Commit, w, f, r}
    BY EachOf
  <2> QED BY <2>1, PlanOfDelete
<1>3. p6 # <<>> /\ Head(p6) = st /\ Tail(p6) = p5 /\ p6 = Deleting(st, sc)
  BY HeadTail DEF Deleting
<1>4. p5 \in Rebuilding(sc)
  BY DEF Rebuilding
<1> HIDE DEF p5, p6
<1> QED BY <1>1, <1>2, <1>3, <1>4 DEF AtDelete

\* Whatever is left of an operation starts with one of the eight statements.
LEMMA Steps ==
  ASSUME NEW p \in Programs, p # <<>>
  PROVE  /\ Tail(p) \in Programs
         /\ \/ \E a : AtInsert(p, a) \/ AtForward(p, a) \/ AtReverse(p, a)
            \/ \E st, sc : AtDelete(p, st, sc)
            \/ AtCommit(p)
            \/ \E sc : AtWipe(p, sc) \/ AtRegroup(p, sc) \/ AtLastRegroup(p, sc)
<1>1. CASE p = <<Commit>>
  <2>1. Tail(p) = <<>> /\ Head(p) = Commit
    BY <1>1, HeadTail
  <2> QED BY <1>1, <2>1, EmptyProgram, ProgramKinds DEF AtCommit
<1>2. CASE \E a \in Alert : p \in Saving(a)
  BY <1>2, SavingSteps, ProgramKinds
<1>3. CASE \E sc \in SUBSET Source : p \in Rebuilding(sc)
  <2>1. PICK sc \in SUBSET Source : p \in Rebuilding(sc)
    BY <1>3
  <2>2. /\ Tail(p) \in Rebuilding(sc) \cup {<<>>, <<Commit>>}
        /\ AtCommit(p) \/ AtWipe(p, sc) \/ AtRegroup(p, sc) \/ AtLastRegroup(p, sc)
    BY <2>1, RebuildingSteps
  <2>3. Tail(p) \in Programs
    BY <2>2, ProgramKinds
  <2> QED BY <2>2, <2>3
<1>4. CASE p = Deleting(Expire, Source)
  <2>1. Tail(p) \in Rebuilding(Source) /\ AtDelete(p, Expire, Source)
    BY <1>4, DeletingSteps
  <2>2. Tail(p) \in Programs
    BY <2>1, ProgramKinds
  <2> QED BY <2>1, <2>2
<1>5. CASE \E s \in Source : p = Deleting(Delete(s), {s})
  <2>1. PICK s \in Source : p = Deleting(Delete(s), {s})
    BY <1>5
  <2>2. Tail(p) \in Rebuilding({s}) /\ AtDelete(p, Delete(s), {s})
    BY <2>1, DeletingSteps
  <2>3. Tail(p) \in Programs
    <3>1. {s} \in SUBSET Source
      OBVIOUS
    <3> QED BY <2>2, <3>1, ProgramKinds
  <2> QED BY <2>2, <2>3
<1> QED BY <1>1, <1>2, <1>3, <1>4, <1>5, ProgramKinds

\* A sequence with the elements of s and then of t is s \o t.
LEMMA ConcatenationIs ==
  ASSUME NEW T, NEW s \in Seq(T), NEW t \in Seq(T), NEW u \in Seq(T),
         Len(u) = Len(s) + Len(t),
         \A i \in 1 .. Len(s) : u[i] = s[i],
         \A i \in 1 .. Len(t) : u[Len(s) + i] = t[i]
  PROVE  s \o t = u
<1>1. /\ s \o t \in Seq(T) /\ Len(s \o t) = Len(s) + Len(t)
      /\ \A i \in 1 .. Len(s) + Len(t) :
           (s \o t)[i] = IF i <= Len(s) THEN s[i] ELSE t[i - Len(s)]
  BY ConcatProperties
<1>2. ASSUME NEW i \in 1 .. Len(s) + Len(t)
      PROVE  (s \o t)[i] = u[i]
  <2>1. Len(s) \in Nat /\ Len(t) \in Nat
    OBVIOUS
  <2>2. CASE i <= Len(s)
    BY <1>1, <2>1, <2>2
  <2>3. CASE i > Len(s)
    <3>1. i - Len(s) \in 1 .. Len(t) /\ i = Len(s) + (i - Len(s))
      BY <2>1, <2>3
    <3>2. u[i] = t[i - Len(s)]
      BY <3>1
    <3> QED BY <1>1, <2>1, <2>3, <3>2
  <2> QED BY <2>1, <2>2, <2>3
<1> DEFINE v == s \o t
<1>3. v \in Seq(T) /\ Len(v) = Len(u) /\ \A i \in 1 .. Len(u) : v[i] = u[i]
  BY <1>1, <1>2
<1> HIDE DEF v
<1>4. v = u
  BY <1>3
<1> QED BY <1>4 DEF v

\* The three shapes of \o that the operations use.
LEMMA Concatenation ==
  /\ \A a, b, c : <<a, b, c>> \o <<>> = <<a, b, c>>
  /\ \A a, b, c, d : <<a, b, c>> \o <<d>> = <<a, b, c, d>>
  /\ \A a, b, c, d, e, f : <<a, b>> \o <<c, d, e, f>> = <<a, b, c, d, e, f>>
<1>1. ASSUME NEW a, NEW b, NEW c
      PROVE  <<a, b, c>> \o <<>> = <<a, b, c>>
  OBVIOUS
<1>2. ASSUME NEW a, NEW b, NEW c, NEW d
      PROVE  <<a, b, c>> \o <<d>> = <<a, b, c, d>>
  <2> DEFINE T == {a, b, c, d}
             s == <<a, b, c>>
             t == <<d>>
             u == <<a, b, c, d>>
  <2>1. s \in Seq(T) /\ t \in Seq(T) /\ u \in Seq(T)
    OBVIOUS
  <2>2. Len(s) = 3 /\ Len(t) = 1 /\ Len(u) = 4
    OBVIOUS
  <2>3. u[1] = s[1] /\ u[2] = s[2] /\ u[3] = s[3] /\ u[4] = t[1]
    OBVIOUS
  <2> HIDE DEF s, t, u, T
  <2>4. \A i \in 1 .. Len(s) : u[i] = s[i]
    BY <2>2, <2>3
  <2>5. \A i \in 1 .. Len(t) : u[Len(s) + i] = t[i]
    BY <2>2, <2>3
  <2>6. Len(u) = Len(s) + Len(t)
    BY <2>2
  <2>7. s \o t = u
    BY <2>1, <2>4, <2>5, <2>6, ConcatenationIs, Zenon
  <2> QED BY <2>7 DEF s, t, u
<1>3. ASSUME NEW a, NEW b, NEW c, NEW d, NEW e, NEW f
      PROVE  <<a, b>> \o <<c, d, e, f>> = <<a, b, c, d, e, f>>
  <2> DEFINE T == {a, b, c, d, e, f}
             s == <<a, b>>
             t == <<c, d, e, f>>
             u == <<a, b, c, d, e, f>>
  <2>1. s \in Seq(T) /\ t \in Seq(T) /\ u \in Seq(T)
    OBVIOUS
  <2>2. Len(s) = 2 /\ Len(t) = 4 /\ Len(u) = 6
    OBVIOUS
  <2>3. /\ u[1] = s[1] /\ u[2] = s[2]
        /\ u[3] = t[1] /\ u[4] = t[2] /\ u[5] = t[3] /\ u[6] = t[4]
    OBVIOUS
  <2> HIDE DEF s, t, u, T
  <2>4. \A i \in 1 .. Len(s) : u[i] = s[i]
    <3>1. \A i \in 1 .. 2 : i = 1 \/ i = 2
      OBVIOUS
    <3> QED BY <2>2, <2>3, <3>1
  <2>5. \A i \in 1 .. Len(t) : u[Len(s) + i] = t[i]
    <3>1. \A i \in 1 .. 4 : i = 1 \/ i = 2 \/ i = 3 \/ i = 4
      OBVIOUS
    <3> QED BY <2>2, <2>3, <3>1
  <2>6. Len(u) = Len(s) + Len(t)
    BY <2>2
  <2>7. s \o t = u
    BY <2>1, <2>4, <2>5, <2>6, ConcatenationIs, Zenon
  <2> QED BY <2>7 DEF s, t, u
<1> QED BY <1>1, <1>2, <1>3

\* Every operation is one of these programs.
LEMMA Operations ==
  /\ \A a \in Alert, c \in BOOLEAN :
       SaveAlert(a, c) \in Programs /\ Plan(SaveAlert(a, c), {a}, {a}, {a}, {}, {}, {}, FALSE)
  /\ <<Commit>> \in Programs /\ Idling(<<Commit>>)
  /\ \A s \in Source :
       /\ ClearSource(s) \in Programs
       /\ Plan(ClearSource(s), {}, {}, {}, {s}, {s}, {s}, TRUE)
  /\ Cleanup \in Programs /\ Plan(Cleanup, {}, {}, {}, Source, Source, Source, TRUE)
<1>1. ASSUME NEW a \in Alert, NEW c \in BOOLEAN
      PROVE  SaveAlert(a, c) \in Programs /\ Plan(SaveAlert(a, c), {a}, {a}, {a}, {}, {}, {}, FALSE)
  <2> DEFINE i == Insert(a)
             f == Upsert(a, "forward")
             r == Upsert(a, "reverse")
  <2>1. SaveAlert(a, c) = <<i, f, r>> \o (IF c THEN <<Commit>> ELSE <<>>)
    BY DEF SaveAlert, Insert, Upsert
  <2>2. /\ <<i, f, r>> \o <<Commit>> = <<i, f, r, Commit>>
        /\ <<i, f, r>> \o <<>> = <<i, f, r>>
    BY Concatenation
  <2>3. SaveAlert(a, c) \in {<<i, f, r, Commit>>, <<i, f, r>>}
    BY <2>1, <2>2
  <2>4. SaveAlert(a, c) \in Saving(a)
    BY <2>3 DEF Saving
  <2>5. Plan(SaveAlert(a, c), {a}, {a}, {a}, {}, {}, {}, FALSE)
    BY <2>3, SavingPlans
  <2> QED BY <2>4, <2>5, ProgramKinds
<1>2. ASSUME NEW st, NEW sc
      PROVE  <<st, Commit>> \o Rebuild(sc) = Deleting(st, sc)
  <2> DEFINE w == Wipe(sc)
             f == Regroup(sc, "forward")
             r == Regroup(sc, "reverse")
  <2>1. Rebuild(sc) = <<w, f, r, Commit>>
    BY DEF Rebuild, Wipe, Regroup
  <2>2. <<st, Commit>> \o <<w, f, r, Commit>> = <<st, Commit, w, f, r, Commit>>
    BY Concatenation
  <2> QED BY <2>1, <2>2 DEF Deleting
<1>3. ASSUME NEW s \in Source
      PROVE  /\ ClearSource(s) \in Programs
             /\ Plan(ClearSource(s), {}, {}, {}, {s}, {s}, {s}, TRUE)
  <2>1. ClearSource(s) = Deleting(Delete(s), {s})
    BY <1>2 DEF ClearSource, Delete
  <2>2. {s} \in SUBSET Source
    OBVIOUS
  <2>3. AtDelete(Deleting(Delete(s), {s}), Delete(s), {s})
    BY <2>2, DeletingSteps
  <2> QED BY <2>1, <2>3, ProgramKinds DEF AtDelete
<1>4. Cleanup \in Programs /\ Plan(Cleanup, {}, {}, {}, Source, Source, Source, TRUE)
  <2>1. Cleanup = Deleting(Expire, Source)
    BY <1>2 DEF Cleanup, Expire
  <2>2. AtDelete(Deleting(Expire, Source), Expire, Source)
    BY DeletingSteps
  <2> QED BY <2>1, <2>2, ProgramKinds DEF AtDelete
<1> QED BY <1>1, <1>3, <1>4, EmptyProgram, ProgramKinds

-------------------------------------------------------------------------------
(* Rows of the summary and the sets of alerts they stand for *)

\* The row of a GROUP BY over the alerts in S.
IsGroup(row, S) ==
  /\ row \in Row
  /\ row.count = Cardinality(S)
  /\ \A a \in S : row.rank >= a.rank
  /\ row.rank = 0 \/ \E a \in S : row.rank = a.rank

\* A row merged into another one.
Added(r, g) == [rank |-> Larger(r.rank, g.rank), count |-> r.count + g.count]

\* The fields of an alert.
LEMMA AlertTypes ==
  ASSUME NEW a \in Alert
  PROVE  /\ a.id \in Nat /\ a.flow \in Flows /\ a.rank \in Nat /\ a.rank > 0
         /\ a.expired \in BOOLEAN /\ a.source \in Source
<1>1. /\ a.id \in 0 .. MaxAlerts /\ a.flow \in Flows /\ a.rank \in Ranks
      /\ a.expired \in BOOLEAN /\ a.source \in Source
  BY DEF Alert
<1>2. a.id \in Nat
  BY <1>1, RiskAssumption
<1>3. a.rank \in Nat /\ a.rank > 0
  <2>1. a.rank \in Nat \ {0}
    BY <1>1, RiskAssumption
  <2> QED BY <2>1
<1> QED BY <1>1, <1>2, <1>3

\* The row of an alert has the alert's source, and depends on its flow and source only.
LEMMA KeyTypes ==
  /\ \A k \in Key : k[2] \in Source
  /\ \A a, d : KeyOf(a, d)[2] = a.source
  /\ \A a \in Alert, d \in Dir : KeyOf(a, d) \in Key
  /\ \A a, b, d : SameAlert(a, b) => KeyOf(a, d) = KeyOf(b, d)
<1>1. \A k \in Key : k[2] \in Source
  BY DEF Key
<1>2. \A a, d : KeyOf(a, d)[2] = a.source
  BY DEF KeyOf
<1>3. ASSUME NEW a \in Alert, NEW d \in Dir
      PROVE  KeyOf(a, d) \in Key
  <2>1. a.flow \in Flows /\ a.source \in Source
    BY AlertTypes
  <2>2. a.flow \in AllFlows /\ Reverse(a.flow) \in AllFlows
    BY <2>1 DEF AllFlows
  <2> QED BY <2>1, <2>2 DEF KeyOf, Key
<1>4. \A a, b, d : SameAlert(a, b) => KeyOf(a, d) = KeyOf(b, d)
  BY DEF SameAlert, KeyOf
<1> QED BY <1>1, <1>2, <1>3, <1>4

\* A set of numbers that is not empty has a least one.
LEMMA LeastNumber ==
  ASSUME NEW N \in SUBSET Nat, N # {}
  PROVE  \E n \in N : \A m \in N : n <= m
<1> DEFINE R == OpToRel(<, Nat)
<1>1. PICK n \in N : \A m \in N : ~(<<m, n>> \in R)
  BY NatLessThanWellFounded, WFMin
<1>2. \A m \in N : ~(m < n)
  BY <1>1 DEF OpToRel
<1> QED BY <1>2

\* A finite set of alerts has one of the largest rank: else take a smallest
\* set without one, and an alert out of it.
LEMMA LargestExists ==
  ASSUME NEW S \in SUBSET Alert, IsFiniteSet(S), S # {}
  PROVE  \E a \in S : \A b \in S : b.rank <= a.rank
<1> DEFINE Bad(T) == T # {} /\ ~ \E a \in T : \A b \in T : b.rank <= a.rank
           N == {Cardinality(T) : T \in {U \in SUBSET S : Bad(U)}}
<1> SUFFICES ASSUME Bad(S) PROVE FALSE
  OBVIOUS
<1>1. N \subseteq Nat
  BY FS_Subset, FS_CardinalityType
<1>2. N # {}
  OBVIOUS
<1>3. PICK n \in N : \A m \in N : n <= m
  <2> HIDE DEF N
  <2> QED BY <1>1, <1>2, LeastNumber
<1>4. PICK T \in SUBSET S : Bad(T) /\ Cardinality(T) = n
  BY <1>3
<1>5. PICK x \in T : TRUE
  BY <1>4
<1>6. IsFiniteSet(T) /\ IsFiniteSet(T \ {x}) /\ Cardinality(T \ {x}) = n - 1 /\ n \in Nat
  <2>1. IsFiniteSet(T)
    BY FS_Subset
  <2> QED BY <2>1, <1>1, <1>4, <1>5, FS_RemoveElement
<1>7. ~Bad(T \ {x})
  <2>1. T \ {x} \in SUBSET S
    OBVIOUS
  <2>2. Bad(T \ {x}) => n - 1 \in N
    BY <2>1, <1>6
  <2>3. n - 1 \notin N
    <3> HIDE DEF N
    <3> QED BY <1>3, <1>6
  <2> QED BY <2>2, <2>3
<1>8. \A a \in T : a.rank \in Nat
  BY AlertTypes
<1>9. CASE T \ {x} = {}
  <2>1. \A b \in T : b.rank <= x.rank
    BY <1>9, <1>8, <1>5
  <2> QED BY <2>1, <1>5, <1>4
<1>10. CASE \E y \in T \ {x} : \A b \in T \ {x} : b.rank <= y.rank
  <2>1. PICK y \in T \ {x} : \A b \in T \ {x} : b.rank <= y.rank
    BY <1>10
  <2>2. CASE x.rank <= y.rank
    <3>1. \A b \in T : b.rank <= y.rank
      BY <2>1, <2>2
    <3> QED BY <3>1, <2>1, <1>4
  <2>3. CASE ~(x.rank <= y.rank)
    <3>1. \A b \in T : b.rank <= x.rank
      BY <2>1, <2>3, <1>8, <1>5
    <3> QED BY <3>1, <1>5, <1>4
  <2> QED BY <2>2, <2>3
<1> QED BY <1>7, <1>9, <1>10

\* The alerts that a statement over the sources in sc counts in the row of k.
Counted(alerts, sc, k, d) == IF k[2] \in sc THEN Hits(alerts, k, d) ELSE {}

\* SELECT ... GROUP BY gives every row the largest rank and the number of its alerts.
LEMMA GroupOf ==
  ASSUME NEW alerts \in SUBSET Alert, IsFiniteSet(alerts),
         NEW sc \in SUBSET Source, NEW d, NEW k \in Key
  PROVE  IsGroup(Group(alerts, sc, d)[k], Counted(alerts, sc, k, d))
<1> DEFINE hits == {a \in alerts : a.source \in sc /\ KeyOf(a, d) = k}
           row == [rank |-> IF hits = {} THEN 0
                            ELSE CHOOSE m \in {a.rank : a \in hits} : \A a \in hits : a.rank <= m,
                   count |-> Cardinality(hits)]
<1>1. Group(alerts, sc, d)[k] = row
  BY DEF Group
<1>2. hits = Counted(alerts, sc, k, d)
  BY KeyTypes DEF Hits, Counted
<1>3. hits \in SUBSET Alert /\ IsFiniteSet(hits) /\ Cardinality(hits) \in Nat
  <2>1. hits \in SUBSET alerts
    OBVIOUS
  <2> QED BY <2>1, FS_Subset, FS_CardinalityType
<1>4. row.count = Cardinality(hits) /\ DOMAIN row = {"rank", "count"}
  OBVIOUS
<1>5. CASE hits = {}
  <2>1. row.rank = 0 /\ row = [rank |-> 0, count |-> Cardinality(hits)]
    BY <1>5
  <2>2. row \in Row
    <3> DEFINE n == Cardinality(hits)
    <3>1. n \in Nat /\ row = [rank |-> 0, count |-> n]
      BY <1>3, <2>1
    <3> HIDE DEF n, row
    <3> QED BY <3>1 DEF Row
  <2> HIDE DEF hits, row
  <2> QED BY <1>1, <1>2, <1>4, <1>5, <2>1, <2>2 DEF IsGroup
<1>6. CASE hits # {}
  <2>1. PICK x \in hits : \A b \in hits : b.rank <= x.rank
    <3> HIDE DEF hits
    <3> QED BY <1>3, <1>6, LargestExists
  <2>2. row.rank = CHOOSE m \in {a.rank : a \in hits} : \A a \in hits : a.rank <= m
    BY <1>6
  <2> HIDE DEF hits
  <2>3. row.rank \in {a.rank : a \in hits} /\ \A a \in hits : a.rank <= row.rank
    BY <2>1, <2>2
  <2>4. \A a \in hits : a.rank \in Nat
    BY <1>3, AlertTypes
  <2>5. row.rank \in Nat
    BY <2>3, <2>4
  <2>6. row \in Row
    BY <1>3, <2>5 DEF Row
  <2> HIDE DEF row
  <2>7. IsGroup(row, hits)
    BY <1>4, <2>3, <2>4, <2>5, <2>6 DEF IsGroup
  <2> QED BY <1>1, <1>2, <2>7
<1> QED BY <1>5, <1>6

\* ON CONFLICT ... DO UPDATE adds every new row to the old one.
LEMMA MergeOf ==
  ASSUME NEW s \in [Key -> Row], NEW g, \A k \in Key : g[k] \in Row
  PROVE  /\ Merge(s, g) \in [Key -> Row]
         /\ \A k \in Key : Merge(s, g)[k] = Added(s[k], g[k])
<1>1. \A k \in Key : Merge(s, g)[k] = Added(s[k], g[k])
  BY DEF Merge, Added
<1>2. ASSUME NEW k \in Key PROVE Added(s[k], g[k]) \in Row
  <2>1. s[k] \in Row /\ g[k] \in Row
    OBVIOUS
  <2> QED BY <2>1 DEF Row, Added, Larger
<1>3. Merge(s, g) = [k \in Key |-> Added(s[k], g[k])]
  BY DEF Merge, Added
<1> QED BY <1>1, <1>2, <1>3

-------------------------------------------------------------------------------
(* What a merged row covers *)

\* A sum of two rows has the counts of both and the rank of one.
LEMMA AddedRow ==
  ASSUME NEW r \in Row, NEW g \in Row
  PROVE  /\ Added(r, g) \in Row
         /\ Added(r, g).count = r.count + g.count
         /\ Added(r, g).rank >= r.rank /\ Added(r, g).rank >= g.rank
         /\ Added(r, g).rank = r.rank \/ Added(r, g).rank = g.rank
BY DEF Row, Added, Larger

\* Which direction is counted first does not matter.
LEMMA Swapped ==
  ASSUME NEW row, NEW S, NEW T, IsFiniteSet(S), IsFiniteSet(T)
  PROVE  /\ Covers(row, S, T) <=> Covers(row, T, S)
         /\ Exactly(row, S, T) <=> Exactly(row, T, S)
<1>1. Cardinality(S) \in Nat /\ Cardinality(T) \in Nat
  BY FS_CardinalityType
<1>2. Cardinality(S) + Cardinality(T) = Cardinality(T) + Cardinality(S)
  BY <1>1
<1> QED BY <1>2 DEF Covers, Exactly

\* One set grows by at most what is added, the other stays.
LEMMA AddedCovers ==
  ASSUME NEW r \in Row, NEW g \in Row, NEW S, NEW T, NEW U,
         NEW X, IsFiniteSet(S), IsFiniteSet(T), IsFiniteSet(X),
         S \cup T \cup X \subseteq Alert,
         U \in SUBSET (S \cup X), g.count >= Cardinality(X),
         \A a \in X : g.rank >= a.rank,
         Covers(r, S, T)
  PROVE  Covers(Added(r, g), U, T)
<1>1. IsFiniteSet(S \cup X) /\ Cardinality(S \cup X) <= Cardinality(S) + Cardinality(X)
  <2>1. Cardinality(S \cap X) \in Nat /\ Cardinality(S) \in Nat /\ Cardinality(X) \in Nat
    BY FS_Intersection, FS_CardinalityType
  <2>2. /\ IsFiniteSet(S \cup X)
        /\ Cardinality(S \cup X) = Cardinality(S) + Cardinality(X) - Cardinality(S \cap X)
    BY FS_Union
  <2> QED BY <2>1, <2>2
<1>2. IsFiniteSet(U) /\ Cardinality(U) <= Cardinality(S) + Cardinality(X)
  <2>1. IsFiniteSet(U) /\ Cardinality(U) <= Cardinality(S \cup X)
    BY <1>1, FS_Subset
  <2>2. /\ Cardinality(U) \in Nat /\ Cardinality(S \cup X) \in Nat
        /\ Cardinality(S) \in Nat /\ Cardinality(X) \in Nat
    BY <1>1, <2>1, FS_CardinalityType
  <2> QED BY <1>1, <2>1, <2>2
<1>3. /\ Cardinality(S) \in Nat /\ Cardinality(T) \in Nat /\ Cardinality(X) \in Nat
      /\ Cardinality(U) \in Nat
  BY <1>2, FS_CardinalityType
<1>4. r.count \in Nat /\ g.count \in Nat /\ r.rank \in Nat /\ g.rank \in Nat
  BY DEF Row
<1>5. r.count >= Cardinality(S) + Cardinality(T) /\ \A a \in S \cup T : r.rank >= a.rank
  BY DEF Covers
<1>6. Added(r, g).count >= Cardinality(U) + Cardinality(T)
  BY <1>2, <1>3, <1>4, <1>5, AddedRow
<1>7. ASSUME NEW a \in U \cup T PROVE Added(r, g).rank >= a.rank
  <2>1. a.rank \in Nat
    BY AlertTypes
  <2>2. Added(r, g).rank \in Nat
    BY AddedRow DEF Row
  <2>3. CASE a \in X
    BY <2>1, <2>2, <2>3, <1>4, AddedRow
  <2>4. CASE a \in S \cup T
    BY <2>1, <2>2, <2>4, <1>4, <1>5, AddedRow
  <2> QED BY <2>3, <2>4
<1> QED BY <1>6, <1>7 DEF Covers

\* One set grows by exactly what is added.
LEMMA AddedExactly ==
  ASSUME NEW r \in Row, NEW g \in Row, NEW S, NEW T, NEW U,
         NEW X, IsFiniteSet(S), IsFiniteSet(T), IsFiniteSet(X),
         S \cap X = {}, U = S \cup X, g.count = Cardinality(X),
         g.rank = 0 \/ \E a \in X : g.rank = a.rank,
         Exactly(r, S, T)
  PROVE  Exactly(Added(r, g), U, T)
<1>1. Cardinality(S \cup X) = Cardinality(S) + Cardinality(X)
  <2>1. Cardinality(S \cap X) = 0 /\ Cardinality(S) \in Nat /\ Cardinality(X) \in Nat
    BY FS_EmptySet, FS_CardinalityType
  <2>2. Cardinality(S \cup X) = Cardinality(S) + Cardinality(X) - Cardinality(S \cap X)
    BY FS_Union
  <2> QED BY <2>1, <2>2
<1>2. Cardinality(S) \in Nat /\ Cardinality(T) \in Nat /\ Cardinality(X) \in Nat
  BY FS_CardinalityType
<1>3. r.count \in Nat /\ g.count \in Nat /\ r.rank \in Nat /\ g.rank \in Nat
  BY DEF Row
<1>4. r.count = Cardinality(S) + Cardinality(T)
  BY DEF Exactly
<1>5. Added(r, g).count = Cardinality(U) + Cardinality(T)
  BY <1>1, <1>2, <1>3, <1>4, AddedRow
<1>6. Added(r, g).rank = 0 \/ \E a \in U \cup T : Added(r, g).rank = a.rank
  <2>1. r.rank = 0 \/ \E a \in S \cup T : r.rank = a.rank
    BY DEF Exactly
  <2>2. Added(r, g).rank = r.rank \/ Added(r, g).rank = g.rank
    BY AddedRow
  <2>3. CASE Added(r, g).rank = r.rank
    BY <2>1, <2>3
  <2>4. CASE Added(r, g).rank = g.rank
    BY <2>4
  <2> QED BY <2>2, <2>3, <2>4
<1> QED BY <1>5, <1>6 DEF Exactly

-------------------------------------------------------------------------------
(* What a statement does to the tables *)

AnyTables == [alerts : SUBSET Alert, summary : [Key -> Row]]

\* The effect of each statement on the two tables: INSERT INTO alerts,
LEMMA InsertEffect ==
  ASSUME NEW t \in AnyTables, NEW a \in Alert
  PROVE  /\ Effect(t, Insert(a)) \in AnyTables
         /\ Effect(t, Insert(a)).alerts = t.alerts \cup {a}
         /\ Effect(t, Insert(a)).summary = t.summary
<1>1. Effect(t, Insert(a)) = [t EXCEPT !.alerts = @ \cup {a}]
  BY DEF Effect, Insert
<1> QED BY <1>1 DEF AnyTables

\* The one row of an alert that is added to the summary in direction d.
One(a) == [rank |-> a.rank, count |-> 1]

\* INSERT INTO flow_risk_summary ... ON CONFLICT for one alert,
LEMMA UpsertEffect ==
  ASSUME NEW t \in AnyTables, NEW a \in Alert, NEW d \in Dir
  PROVE  /\ Effect(t, Upsert(a, d)) \in AnyTables
         /\ Effect(t, Upsert(a, d)).alerts = t.alerts
         /\ One(a) \in Row
         /\ \A k \in Key :
              Effect(t, Upsert(a, d)).summary[k] =
                IF KeyOf(a, d) = k THEN Added(t.summary[k], One(a)) ELSE t.summary[k]
<1> DEFINE g == Group({a}, Source, d)
<1>1. Effect(t, Upsert(a, d)) = [t EXCEPT !.summary = Merge(@, g)]
  BY DEF Effect, Upsert
<1>2. IsFiniteSet({a}) /\ Cardinality({a}) = 1 /\ {a} \in SUBSET Alert
  BY FS_Singleton
<1>3. \A k \in Key : IsGroup(g[k], Hits({a}, k, d))
  BY <1>2, GroupOf, KeyTypes DEF Counted
<1>4. One(a) \in Row
  BY AlertTypes DEF One, Row
<1>5. ASSUME NEW k \in Key, KeyOf(a, d) = k PROVE g[k] = One(a)
  <2>1. Hits({a}, k, d) = {a}
    BY <1>5 DEF Hits
  <2>2. /\ g[k] \in Row /\ g[k].count = 1 /\ g[k].rank >= a.rank
        /\ g[k].rank = 0 \/ g[k].rank = a.rank
    BY <1>2, <1>3, <2>1 DEF IsGroup
  <2>3. g[k].rank = a.rank
    BY <2>2, AlertTypes
  <2> HIDE DEF g
  <2> QED BY <2>2, <2>3 DEF Row, One
<1>6. ASSUME NEW k \in Key, KeyOf(a, d) # k, NEW r \in Row PROVE Added(r, g[k]) = r
  <2>1. Hits({a}, k, d) = {}
    BY <1>6 DEF Hits
  <2>2. g[k] \in Row /\ g[k].count = 0 /\ g[k].rank = 0
    BY <1>3, <2>1, FS_EmptySet DEF IsGroup
  <2> HIDE DEF g
  <2>3. r.rank \in Nat /\ r.count \in Nat
    BY DEF Row
  <2>4. Added(r, g[k]) \in Row /\ Added(r, g[k]).rank = r.rank /\ Added(r, g[k]).count = r.count
    BY <2>2, <2>3, AddedRow DEF Added, Larger
  <2> QED BY <2>4 DEF Row
<1>7. t.summary \in [Key -> Row] /\ t.alerts \in SUBSET Alert
  BY DEF AnyTables
<1>8. \A k \in Key : g[k] \in Row
  BY <1>3 DEF IsGroup
<1> HIDE DEF g
<1>9. /\ Merge(t.summary, g) \in [Key -> Row]
      /\ \A k \in Key : Merge(t.summary, g)[k] = Added(t.summary[k], g[k])
  BY <1>7, <1>8, MergeOf
<1>10. /\ Effect(t, Upsert(a, d)) \in AnyTables
       /\ Effect(t, Upsert(a, d)).alerts = t.alerts
       /\ Effect(t, Upsert(a, d)).summary = Merge(t.summary, g)
  BY <1>1, <1>7, <1>9 DEF AnyTables
<1>11. \A k \in Key : t.summary[k] \in Row
  BY <1>7
<1> QED BY <1>4, <1>5, <1>6, <1>9, <1>10, <1>11

\* DELETE FROM alerts, of a source or of what has expired,
LEMMA DeleteEffect ==
  ASSUME NEW t \in AnyTables, NEW st, NEW sc,
         \/ st = Expire /\ sc = Source
         \/ \E s \in Source : st = Delete(s) /\ sc = {s}
  PROVE  /\ Effect(t, st) \in AnyTables
         /\ Effect(t, st).alerts \subseteq t.alerts
         /\ \A a \in t.alerts : a \in Effect(t, st).alerts \/ a.source \in sc
         /\ Effect(t, st).summary = t.summary
<1>1. CASE st = Expire /\ sc = Source
  <2>1. Effect(t, st) = [t EXCEPT !.alerts = {a \in @ : ~a.expired}]
    BY <1>1 DEF Effect, Expire
  <2>2. \A a \in t.alerts : a.source \in Source
    BY AlertTypes DEF AnyTables
  <2> QED BY <1>1, <2>1, <2>2 DEF AnyTables
<1>2. CASE \E s \in Source : st = Delete(s) /\ sc = {s}
  <2>1. PICK s \in Source : st = Delete(s) /\ sc = {s}
    BY <1>2
  <2>2. Effect(t, st) = [t EXCEPT !.alerts = {a \in @ : a.source # s}]
    BY <2>1 DEF Effect, Delete
  <2> QED BY <2>1, <2>2 DEF AnyTables
<1> QED BY <1>1, <1>2

\* DELETE FROM flow_risk_summary,
LEMMA WipeEffect ==
  ASSUME NEW t \in AnyTables, NEW sc \in SUBSET Source
  PROVE  /\ Effect(t, Wipe(sc)) \in AnyTables
         /\ Effect(t, Wipe(sc)).alerts = t.alerts
         /\ \A k \in Key : Effect(t, Wipe(sc)).summary[k] =
                             IF k[2] \in sc THEN Nothing ELSE t.summary[k]
<1> DEFINE s == [k \in Key |-> IF k[2] \in sc THEN Nothing ELSE t.summary[k]]
<1>1. Effect(t, Wipe(sc)) = [t EXCEPT !.summary = s]
  BY DEF Effect, Wipe
<1>2. Nothing \in Row
  BY DEF Nothing, Row
<1>3. t.alerts \in SUBSET Alert /\ \A k \in Key : t.summary[k] \in Row
  BY DEF AnyTables
<1>4. s \in [Key -> Row] /\ \A k \in Key : s[k] = IF k[2] \in sc THEN Nothing ELSE t.summary[k]
  BY <1>2, <1>3
<1> HIDE DEF s
<1> QED BY <1>1, <1>3, <1>4 DEF AnyTables

\* and INSERT INTO flow_risk_summary ... SELECT ... GROUP BY.
LEMMA RegroupEffect ==
  ASSUME NEW t \in AnyTables, IsFiniteSet(t.alerts), NEW sc \in SUBSET Source, NEW d
  PROVE  /\ Effect(t, Regroup(sc, d)) \in AnyTables
         /\ Effect(t, Regroup(sc, d)).alerts = t.alerts
         /\ \A k \in Key : \E g \in Row :
              /\ IsGroup(g, Counted(t.alerts, sc, k, d))
              /\ Effect(t, Regroup(sc, d)).summary[k] = Added(t.summary[k], g)
         /\ \A k \in Key : k[2] \notin sc =>
              Effect(t, Regroup(sc, d)).summary[k] = t.summary[k]
<1> DEFINE g == Group(t.alerts, sc, d)
<1>1. Effect(t, Regroup(sc, d)) = [t EXCEPT !.summary = Merge(@, g)]
  BY DEF Effect, Regroup
<1>2. t.alerts \in SUBSET Alert /\ t.summary \in [Key -> Row]
  BY DEF AnyTables
<1>3. \A k \in Key : IsGroup(g[k], Counted(t.alerts, sc, k, d))
  BY <1>2, GroupOf
<1>4. \A k \in Key : g[k] \in Row
  BY <1>3 DEF IsGroup
<1> HIDE DEF g
<1>5. /\ Merge(t.summary, g) \in [Key -> Row]
      /\ \A k \in Key : Merge(t.summary, g)[k] = Added(t.summary[k], g[k])
  BY <1>2, <1>4, MergeOf
<1>6. /\ Effect(t, Regroup(sc, d)) \in AnyTables
      /\ Effect(t, Regroup(sc, d)).alerts = t.alerts
      /\ Effect(t, Regroup(sc, d)).summary = Merge(t.summary, g)
  BY <1>1, <1>2, <1>5 DEF AnyTables
<1>7. ASSUME NEW k \in Key, k[2] \notin sc PROVE Added(t.summary[k], g[k]) = t.summary[k]
  <2>1. g[k].count = 0 /\ g[k].rank = 0
    BY <1>3, <1>7, FS_EmptySet DEF IsGroup, Counted
  <2> DEFINE r == t.summary[k]
  <2>2. r \in Row
    BY <1>2
  <2> HIDE DEF r
  <2>3. r.rank \in Nat /\ r.count \in Nat
    BY <2>2 DEF Row
  <2>4. Added(r, g[k]) \in Row /\ Added(r, g[k]).rank = r.rank /\ Added(r, g[k]).count = r.count
    BY <1>4, <2>1, <2>2, <2>3, AddedRow DEF Added, Larger
  <2>5. Added(r, g[k]) = r
    BY <2>2, <2>4 DEF Row
  <2> QED BY <2>5 DEF r
<1> QED BY <1>3, <1>4, <1>5, <1>6, <1>7

\* The whole summary computed from the alerts.
LEMMA DerivedRows ==
  ASSUME NEW alerts \in SUBSET Alert, IsFiniteSet(alerts)
  PROVE  /\ Derived(alerts) \in [Key -> Row]
         /\ \A k \in Key :
              /\ Covers(Derived(alerts)[k], Hits(alerts, k, "forward"), Hits(alerts, k, "reverse"))
              /\ Exactly(Derived(alerts)[k], Hits(alerts, k, "forward"), Hits(alerts, k, "reverse"))
<1> DEFINE f == Group(alerts, Source, "forward")
           r == Group(alerts, Source, "reverse")
<1>1. \A k \in Key : /\ IsGroup(f[k], Hits(alerts, k, "forward"))
                     /\ IsGroup(r[k], Hits(alerts, k, "reverse"))
  BY GroupOf, KeyTypes DEF Counted
<1>2. \A k \in Key : f[k] \in Row /\ r[k] \in Row
  BY <1>1 DEF IsGroup
<1>3. f \in [Key -> Row]
  <2>1. f = [k \in Key |-> f[k]]
    BY DEF Group
  <2> HIDE DEF f
  <2> QED BY <1>2, <2>1
<1>4. Derived(alerts) = Merge(f, r)
  BY DEF Derived
<1> HIDE DEF f, r
<1>5. /\ Derived(alerts) \in [Key -> Row]
      /\ \A k \in Key : Derived(alerts)[k] = Added(f[k], r[k])
  BY <1>2, <1>3, <1>4, MergeOf
<1>6. ASSUME NEW k \in Key
      PROVE  /\ Covers(Added(f[k], r[k]), Hits(alerts, k, "forward"), Hits(alerts, k, "reverse"))
             /\ Exactly(Added(f[k], r[k]), Hits(alerts, k, "forward"), Hits(alerts, k, "reverse"))
  <2> DEFINE S == Hits(alerts, k, "forward")
             T == Hits(alerts, k, "reverse")
  <2>1. S \in SUBSET alerts /\ T \in SUBSET alerts /\ IsFiniteSet(S) /\ IsFiniteSet(T)
    <3>1. S \in SUBSET alerts /\ T \in SUBSET alerts
      BY DEF Hits
    <3> QED BY <3>1, FS_Subset
  <2>2. IsGroup(f[k], S) /\ IsGroup(r[k], T)
    BY <1>1
  <2> DEFINE x == f[k]
             y == r[k]
  <2>3. x \in Row /\ y \in Row /\ IsGroup(x, S) /\ IsGroup(y, T)
    BY <1>2, <2>2
  <2> HIDE DEF x, y, S, T
  <2>4. /\ x.count \in Nat /\ y.count \in Nat /\ x.rank \in Nat /\ y.rank \in Nat
        /\ Cardinality(S) \in Nat /\ Cardinality(T) \in Nat
    BY <2>1, <2>3, FS_CardinalityType DEF Row
  <2>5. Covers(Added(x, y), S, T)
    <3>1. Added(x, y).count >= Cardinality(S) + Cardinality(T)
      BY <2>3, <2>4, AddedRow DEF IsGroup
    <3>2. ASSUME NEW a \in S \cup T PROVE Added(x, y).rank >= a.rank
      <4>1. a.rank \in Nat /\ Added(x, y).rank \in Nat
        BY <2>1, <2>3, AlertTypes, AddedRow DEF Row
      <4>2. x.rank >= a.rank \/ y.rank >= a.rank
        BY <2>3 DEF IsGroup
      <4>3. Added(x, y).rank >= x.rank /\ Added(x, y).rank >= y.rank
        BY <2>3, AddedRow
      <4> QED BY <2>4, <4>1, <4>2, <4>3
    <3> QED BY <3>1, <3>2 DEF Covers
  <2>6. Exactly(Added(x, y), S, T)
    <3>1. Added(x, y).count = Cardinality(S) + Cardinality(T)
      BY <2>3, <2>4, AddedRow DEF IsGroup
    <3>2. Added(x, y).rank = x.rank \/ Added(x, y).rank = y.rank
      BY <2>3, AddedRow
    <3>3. /\ x.rank = 0 \/ \E a \in S : x.rank = a.rank
          /\ y.rank = 0 \/ \E a \in T : y.rank = a.rank
      BY <2>3 DEF IsGroup
    <3>4. Added(x, y).rank = 0 \/ \E a \in S \cup T : Added(x, y).rank = a.rank
      BY <3>2, <3>3
    <3> QED BY <3>1, <3>4 DEF Exactly
  <2> QED BY <2>5, <2>6 DEF x, y, S, T
<1> QED BY <1>5, <1>6

\* A row that covers all alerts of its key is no smaller than the derived row,
\* and one that also counts exactly them is the derived row.
LEMMA RowAgainstDerived ==
  ASSUME NEW alerts \in SUBSET Alert, IsFiniteSet(alerts), NEW k \in Key, NEW row \in Row,
         Covers(row, Hits(alerts, k, "forward"), Hits(alerts, k, "reverse"))
  PROVE  /\ row.rank >= Derived(alerts)[k].rank
         /\ row.count >= Derived(alerts)[k].count
         /\ Exactly(row, Hits(alerts, k, "forward"), Hits(alerts, k, "reverse")) =>
              row = Derived(alerts)[k]
<1> DEFINE S == Hits(alerts, k, "forward")
           T == Hits(alerts, k, "reverse")
           due == Derived(alerts)[k]
<1>1. due \in Row /\ Covers(due, S, T) /\ Exactly(due, S, T)
  BY DerivedRows
<1>2. S \cup T \subseteq Alert
  BY DEF Hits
<1>3. Covers(row, S, T)
  OBVIOUS
<1> HIDE DEF due, S, T
<1>4. due.rank \in Nat /\ row.rank \in Nat /\ due.count \in Nat /\ row.count \in Nat
  BY <1>1 DEF Row
<1>5. due.count = Cardinality(S) + Cardinality(T) /\ row.count >= Cardinality(S) + Cardinality(T)
  BY <1>1, <1>3 DEF Covers, Exactly
<1>6. row.rank >= due.rank
  BY <1>1, <1>3, <1>4 DEF Covers, Exactly
<1>7. ASSUME Exactly(row, S, T) PROVE row = due
  <2>1. row.count = due.count
    BY <1>5, <1>7 DEF Exactly
  <2>2. due.rank >= row.rank
    BY <1>1, <1>4, <1>7 DEF Covers, Exactly
  <2>3. row.rank = due.rank
    BY <1>4, <1>6, <2>2
  <2> QED BY <1>1, <2>1, <2>3 DEF Row
<1>8. row.count >= due.count
  BY <1>5
<1> QED BY <1>6, <1>7, <1>8 DEF due, S, T

\* The same in either direction: E is D with at most X added in direction d.
LEMMA OneWayCovers ==
  ASSUME NEW r \in Row, NEW g \in Row, NEW d \in Dir, NEW D, NEW E, NEW X,
         \A e \in Dir : D[e] \in SUBSET Alert /\ IsFiniteSet(D[e]),
         X \in SUBSET Alert, IsFiniteSet(X),
         E[d] \in SUBSET (D[d] \cup X), \A e \in Dir : e # d => E[e] = D[e],
         g.count >= Cardinality(X), \A a \in X : g.rank >= a.rank,
         Covers(r, D["forward"], D["reverse"])
  PROVE  Covers(Added(r, g), E["forward"], E["reverse"])
<1>1. /\ IsFiniteSet(D["forward"]) /\ IsFiniteSet(D["reverse"])
      /\ D["forward"] \cup D["reverse"] \cup X \subseteq Alert
  BY DEF Dir
<1>2. CASE d = "forward"
  <2>1. E["forward"] \in SUBSET (D["forward"] \cup X) /\ E["reverse"] = D["reverse"]
    BY <1>2 DEF Dir
  <2> QED BY <1>1, <2>1, AddedCovers
<1>3. CASE d = "reverse"
  <2>1. E["reverse"] \in SUBSET (D["reverse"] \cup X) /\ E["forward"] = D["forward"]
    BY <1>3 DEF Dir
  <2>2. Covers(r, D["reverse"], D["forward"])
    BY <1>1, Swapped
  <2>3. Covers(Added(r, g), E["reverse"], E["forward"])
    BY <1>1, <2>1, <2>2, AddedCovers
  <2>4. IsFiniteSet(E["reverse"]) /\ IsFiniteSet(E["forward"])
    <3>1. IsFiniteSet(D["reverse"] \cup X)
      BY <1>1, FS_Union
    <3> QED BY <1>1, <2>1, <3>1, FS_Subset
  <2> QED BY <2>3, <2>4, Swapped
<1> QED BY <1>2, <1>3 DEF Dir

\* Likewise for a row that is exact.
LEMMA OneWayExactly ==
  ASSUME NEW r \in Row, NEW g \in Row, NEW d \in Dir, NEW D, NEW E, NEW X,
         \A e \in Dir : D[e] \in SUBSET Alert /\ IsFiniteSet(D[e]),
         X \in SUBSET Alert, IsFiniteSet(X),
         E[d] = D[d] \cup X, D[d] \cap X = {}, \A e \in Dir : e # d => E[e] = D[e],
         g.count = Cardinality(X), g.rank = 0 \/ \E a \in X : g.rank = a.rank,
         Exactly(r, D["forward"], D["reverse"])
  PROVE  Exactly(Added(r, g), E["forward"], E["reverse"])
<1>1. IsFiniteSet(D["forward"]) /\ IsFiniteSet(D["reverse"])
  BY DEF Dir
<1>2. CASE d = "forward"
  <2>1. /\ E["forward"] = D["forward"] \cup X /\ D["forward"] \cap X = {}
        /\ E["reverse"] = D["reverse"]
    BY <1>2 DEF Dir
  <2> QED BY <1>1, <2>1, AddedExactly
<1>3. CASE d = "reverse"
  <2>1. /\ E["reverse"] = D["reverse"] \cup X /\ D["reverse"] \cap X = {}
        /\ E["forward"] = D["forward"]
    BY <1>3 DEF Dir
  <2>2. Exactly(r, D["reverse"], D["forward"])
    BY <1>1, Swapped
  <2>3. Exactly(Added(r, g), E["reverse"], E["forward"])
    BY <1>1, <2>1, <2>2, AddedExactly
  <2>4. IsFiniteSet(E["reverse"]) /\ IsFiniteSet(E["forward"])
    <3>1. IsFiniteSet(D["reverse"] \cup X)
      BY <1>1, FS_Union
    <3> QED BY <1>1, <2>1, <3>1
  <2> QED BY <2>3, <2>4, Swapped
<1> QED BY <1>2, <1>3 DEF Dir

\* Fewer alerts are covered too.
LEMMA FewerCovers ==
  ASSUME NEW r \in Row, NEW S, NEW T, IsFiniteSet(S), IsFiniteSet(T),
         NEW U \in SUBSET S, NEW V \in SUBSET T, Covers(r, S, T)
  PROVE  Covers(r, U, V)
<1>1. /\ IsFiniteSet(U) /\ Cardinality(U) <= Cardinality(S)
      /\ IsFiniteSet(V) /\ Cardinality(V) <= Cardinality(T)
  BY FS_Subset
<1>2. /\ Cardinality(U) \in Nat /\ Cardinality(S) \in Nat
      /\ Cardinality(V) \in Nat /\ Cardinality(T) \in Nat /\ r.count \in Nat
  BY <1>1, FS_CardinalityType DEF Row
<1>3. r.count >= Cardinality(S) + Cardinality(T) /\ \A a \in S \cup T : r.rank >= a.rank
  BY DEF Covers
<1>4. r.count >= Cardinality(U) + Cardinality(V)
  BY <1>1, <1>2, <1>3
<1> QED BY <1>3, <1>4 DEF Covers

-------------------------------------------------------------------------------
(* One thread moves on, the others stay *)

OthersPending(pr, t, id, d) == \E u \in Thread \ {t} : PendingIn(pr[u], id, d)
OthersOwe(pr, t, k, d) == \E u \in Thread \ {t} : OwesIn(pr[u], k, d)
OthersStale(pr, t, k) == \E u \in Thread \ {t} : StaleIn(pr[u], k)

\* Work that is left is left to t or to another thread,
LEMMA OwnAndOthers ==
  ASSUME NEW pr, NEW t \in Thread
  PROVE  /\ \A id, d :
              Pending(pr, id, d) <=> PendingIn(pr[t], id, d) \/ OthersPending(pr, t, id, d)
         /\ \A k, d : Owes(pr, k, d) <=> OwesIn(pr[t], k, d) \/ OthersOwe(pr, t, k, d)
         /\ \A k : Stale(pr, k) <=> StaleIn(pr[t], k) \/ OthersStale(pr, t, k)
BY DEF Pending, Owes, Stale, OthersPending, OthersOwe, OthersStale

\* also after t has moved on.
LEMMA OwnAndOthersNext ==
  ASSUME NEW pr \in [Thread -> Programs], NEW t \in Thread, NEW q, NEW pr2,
         pr2 = [pr EXCEPT ![t] = q]
  PROVE  /\ \A id, d :
              Pending(pr2, id, d) <=> PendingIn(q, id, d) \/ OthersPending(pr, t, id, d)
         /\ \A k, d : Owes(pr2, k, d) <=> OwesIn(q, k, d) \/ OthersOwe(pr, t, k, d)
         /\ \A k : Stale(pr2, k) <=> StaleIn(q, k) \/ OthersStale(pr, t, k)
<1>1. pr2[t] = q /\ \A u \in Thread \ {t} : pr2[u] = pr[u]
  OBVIOUS
<1> QED BY <1>1 DEF Pending, Owes, Stale, OthersPending, OthersOwe, OthersStale

\* As long as no two operations overlap, the others have nothing to do.
LEMMA OthersIdle ==
  ASSUME AloneInv, ~raced, NEW t \in Thread, ~Idle(t)
  PROVE  /\ \A u \in Thread \ {t} : Idle(u)
         /\ \A id : \A d \in Dir : ~OthersPending(prog, t, id, d)
         /\ \A k : \A d \in Dir : ~OthersOwe(prog, t, k, d)
         /\ \A k : ~OthersStale(prog, t, k)
<1>1. \A u \in Thread \ {t} : prog[u] = <<>>
  BY DEF AloneInv, Idle
<1>2. /\ \A id : \A d \in Dir : ~PendingIn(<<>>, id, d)
      /\ \A k : \A d \in Dir : ~OwesIn(<<>>, k, d)
      /\ \A k : ~StaleIn(<<>>, k)
  BY EmptyProgram DEF Idling, Plan, PendingIn, OwesIn, StaleIn, Dir
<1> QED BY <1>1, <1>2 DEF OthersPending, OthersOwe, OthersStale, Idle

\* The types of two well-formed tables.
LEMMA TablesTypes ==
  ASSUME NEW t, Tables(t)
  PROVE  /\ t \in AnyTables /\ t.alerts \in SUBSET Alert /\ IsFiniteSet(t.alerts)
         /\ \A k \in Key : t.summary[k] \in Row
BY DEF Tables, AnyTables

\* The alerts a row owes are finitely many of the table's.
LEMMA DueTypes ==
  ASSUME NEW alerts \in SUBSET Alert, IsFiniteSet(alerts), NEW pr, NEW k, NEW d
  PROVE  /\ Due(pr, alerts, k, d) \in SUBSET alerts /\ Due(pr, alerts, k, d) \in SUBSET Alert
         /\ IsFiniteSet(Due(pr, alerts, k, d))
<1>1. Due(pr, alerts, k, d) \in SUBSET alerts
  BY DEF Due, Hits
<1> QED BY <1>1, FS_Subset

-------------------------------------------------------------------------------
(* The summary, statement by statement *)

SummaryInv == CoversInv /\ ExactInv

\* Thread t has executed or skipped statements and has q left to do.
Moves(t, q) ==
  /\ t \in Thread /\ ~Idle(t)
  /\ prog' = [prog EXCEPT ![t] = q]
  /\ UNCHANGED <<raced, died>>

\* Steps that leave the rows and what they have to count alone.
LEMMA SameSummary ==
  ASSUME SummaryInv, db'.summary = db.summary,
         \A k \in Key, d \in Dir : Due(prog', db'.alerts, k, d) = Due(prog, db.alerts, k, d),
         \A k \in Key : Stale(prog, k) => Stale(prog', k),
         raced => raced', died' = died
  PROVE  SummaryInv'
<1>1. \A k \in Key :
        /\ Due(prog', db'.alerts, k, "forward") = Due(prog, db.alerts, k, "forward")
        /\ Due(prog', db'.alerts, k, "reverse") = Due(prog, db.alerts, k, "reverse")
  BY DEF Dir
<1>2. CoversInv'
  BY <1>1 DEF SummaryInv, CoversInv
<1>3. ExactInv'
  BY <1>1 DEF SummaryInv, ExactInv
<1> QED BY <1>2, <1>3 DEF SummaryInv

\* Whatever is pending, owed or stale is so by t's own statements or by others'.
LEMMA Shift ==
  ASSUME TypeInv, NEW t, NEW q, Moves(t, q)
  PROVE  /\ \A id, d : /\ Pending(prog, id, d) <=>
                            PendingIn(prog[t], id, d) \/ OthersPending(prog, t, id, d)
                       /\ Pending(prog', id, d) <=>
                            PendingIn(q, id, d) \/ OthersPending(prog, t, id, d)
         /\ \A k, d : /\ Owes(prog, k, d) <=> OwesIn(prog[t], k, d) \/ OthersOwe(prog, t, k, d)
                      /\ Owes(prog', k, d) <=> OwesIn(q, k, d) \/ OthersOwe(prog, t, k, d)
         /\ \A k : /\ Stale(prog, k) <=> StaleIn(prog[t], k) \/ OthersStale(prog, t, k)
                   /\ Stale(prog', k) <=> StaleIn(q, k) \/ OthersStale(prog, t, k)
<1>1. prog \in [Thread -> Programs] /\ t \in Thread /\ prog' = [prog EXCEPT ![t] = q]
  BY DEF TypeInv, Moves
<1>2. /\ \A id, d : Pending(prog', id, d) <=> PendingIn(q, id, d) \/ OthersPending(prog, t, id, d)
      /\ \A k, d : Owes(prog', k, d) <=> OwesIn(q, k, d) \/ OthersOwe(prog, t, k, d)
      /\ \A k : Stale(prog', k) <=> StaleIn(q, k) \/ OthersStale(prog, t, k)
  BY <1>1, OwnAndOthersNext
<1>3. /\ \A id, d :
           Pending(prog, id, d) <=> PendingIn(prog[t], id, d) \/ OthersPending(prog, t, id, d)
      /\ \A k, d : Owes(prog, k, d) <=> OwesIn(prog[t], k, d) \/ OthersOwe(prog, t, k, d)
      /\ \A k : Stale(prog, k) <=> StaleIn(prog[t], k) \/ OthersStale(prog, t, k)
  BY <1>1, OwnAndOthers
<1> QED BY <1>2, <1>3

\* t has nothing to save, wipe or count, neither before nor after.
LEMMA SummaryInsert ==
  ASSUME TypeInv, SummaryInv, NEW t, NEW a, AtInsert(prog[t], a),
         Moves(t, Tail(prog[t])), db' = Effect(db, Insert(a))
  PROVE  SummaryInv'
<1>1. a \in Alert /\ db'.alerts = db.alerts \cup {a} /\ db'.summary = db.summary
  BY InsertEffect, TablesTypes DEF AtInsert, TypeInv
<1>2. PICK p, q : p = prog[t] /\ q = Tail(prog[t])
  OBVIOUS
<1>3. /\ \A id : \A d \in Dir : PendingIn(p, id, d) <=> a.id = id
      /\ \A id : \A d \in Dir : PendingIn(q, id, d) <=> a.id = id
      /\ \A k : \A d \in Dir : ~OwesIn(p, k, d) /\ ~OwesIn(q, k, d)
      /\ \A k : ~StaleIn(p, k) /\ ~StaleIn(q, k)
  BY <1>2 DEF AtInsert, Dir, Plan, PendingIn, OwesIn, StaleIn
<1>4. ASSUME NEW k \in Key, NEW d \in Dir
      PROVE  Due(prog', db'.alerts, k, d) = Due(prog, db.alerts, k, d)
  <2>1. Owes(prog', k, d) <=> Owes(prog, k, d)
    BY <1>2, <1>3, Shift
  <2>2. \A id : Pending(prog', id, d) <=> Pending(prog, id, d)
    BY <1>2, <1>3, Shift
  <2>3. Pending(prog, a.id, d)
    BY <1>2, <1>3, Shift
  <2> QED BY <1>1, <2>1, <2>2, <2>3 DEF Due, Hits
<1>5. \A k \in Key : Stale(prog, k) => Stale(prog', k)
  BY <1>2, <1>3, Shift
<1> QED BY <1>1, <1>4, <1>5, SameSummary DEF Moves

\* t adds its alert in direction d: it is no longer pending there.
LEMMA SummaryUpsert ==
  ASSUME TypeInv, SavingInv, AloneInv, SummaryInv, NEW t, NEW a, NEW d0 \in Dir,
         \/ d0 = "forward" /\ AtForward(prog[t], a)
         \/ d0 = "reverse" /\ AtReverse(prog[t], a),
         Moves(t, Tail(prog[t])), db' = Effect(db, Upsert(a, d0))
  PROVE  SummaryInv'
<1>1. /\ a \in Alert /\ db'.alerts = db.alerts /\ One(a) \in Row
      /\ \A k \in Key : db'.summary[k] = IF KeyOf(a, d0) = k THEN Added(db.summary[k], One(a))
                                         ELSE db.summary[k]
  BY UpsertEffect, TablesTypes DEF AtForward, AtReverse, TypeInv
<1>2. PICK p, q : p = prog[t] /\ q = Tail(prog[t])
  OBVIOUS
<1>3. /\ \A id : PendingIn(p, id, d0) <=> a.id = id
      /\ \A id : ~PendingIn(q, id, d0)
      /\ \A id : \A d \in Dir : d # d0 => (PendingIn(p, id, d) <=> PendingIn(q, id, d))
      /\ \A k : \A d \in Dir : ~OwesIn(p, k, d) /\ ~OwesIn(q, k, d)
      /\ \A k : ~StaleIn(p, k) /\ ~StaleIn(q, k)
  BY <1>2 DEF AtForward, AtReverse, Idling, Dir, Plan, PendingIn, OwesIn, StaleIn
<1>4. a \in Work(prog[t]) /\ a \notin Inserts(prog[t]) /\ t \in Thread
  BY DEF AtForward, AtReverse, Plan, Work, Moves
<1>5. ~OthersPending(prog, t, a.id, d0)
  <2>1. \A u \in Thread : \A b \in Upserts(prog[u], d0) : b \in Work(prog[u])
    BY DEF Work, Dir
  <2>2. \A u \in Thread : \A b \in Work(prog[u]) : a.id = b.id => u = t
    BY <1>4 DEF SavingInv
  <2> QED BY <2>1, <2>2 DEF OthersPending, PendingIn
<1>6. \A k : \A d \in Dir : Owes(prog', k, d) <=> Owes(prog, k, d)
  BY <1>2, <1>3, Shift
<1>7. /\ \A id : Pending(prog', id, d0) <=> OthersPending(prog, t, id, d0)
      /\ \A id : Pending(prog, id, d0) <=> a.id = id \/ OthersPending(prog, t, id, d0)
      /\ \A id : \A d \in Dir : d # d0 => (Pending(prog', id, d) <=> Pending(prog, id, d))
  BY <1>2, <1>3, Shift
<1>8. \A b \in db.alerts : b.id = a.id => SameAlert(a, b)
  BY <1>4 DEF SavingInv
<1>9. ASSUME NEW k \in Key, NEW d \in Dir, d # d0 \/ KeyOf(a, d0) # k
      PROVE  Due(prog', db.alerts, k, d) = Due(prog, db.alerts, k, d)
  <2>1. CASE d # d0
    BY <1>6, <1>7, <2>1 DEF Due
  <2>2. CASE d = d0
    <3>1. \A b \in Hits(db.alerts, k, d0) : b.id # a.id
      BY <1>8, <1>9, <2>2, KeyTypes DEF Hits
    <3> QED BY <1>6, <1>7, <2>2, <3>1 DEF Due
  <2> QED BY <2>1, <2>2
<1>10. ASSUME NEW k \in Key, KeyOf(a, d0) # k
       PROVE  /\ db'.summary[k] = db.summary[k]
              /\ \A d \in Dir : Due(prog', db'.alerts, k, d) = Due(prog, db.alerts, k, d)
  BY <1>1, <1>9, <1>10
<1> DEFINE X == {b \in db.alerts : b.id = a.id}
<1>11. /\ X \in SUBSET Alert /\ IsFiniteSet(X) /\ Cardinality(X) <= 1
       /\ \A b \in X : b.rank = a.rank
       /\ X # {} => Cardinality(X) = 1
  <2>1. X = {} \/ \E b : X = {b}
    <3>1. \A b, c \in X : b = c
      BY DEF TypeInv, Tables
    <3>2. ASSUME NEW b \in X PROVE X = {b}
      BY <3>1, <3>2
    <3> QED BY <3>2
  <2>2. X \in SUBSET Alert
    BY TablesTypes DEF TypeInv
  <2>3. \A b \in X : b.rank = a.rank
    BY <1>8 DEF SameAlert
  <2> HIDE DEF X
  <2>4. CASE X = {}
    <3>1. IsFiniteSet(X) /\ Cardinality(X) = 0
      BY <2>4, FS_EmptySet
    <3> QED BY <2>2, <2>3, <2>4, <3>1
  <2>5. CASE \E b : X = {b}
    <3>1. IsFiniteSet(X) /\ Cardinality(X) = 1
      BY <2>5, FS_Singleton
    <3> QED BY <2>2, <2>3, <3>1
  <2> QED BY <2>1, <2>4, <2>5
<1>12. ASSUME NEW k \in Key, KeyOf(a, d0) = k
       PROVE  /\ Due(prog', db.alerts, k, d0) \in SUBSET (Due(prog, db.alerts, k, d0) \cup X)
              /\ Due(prog, db.alerts, k, d0) \cap X = {}
              /\ ~Owes(prog, k, d0) =>
                   Due(prog', db.alerts, k, d0) = Due(prog, db.alerts, k, d0) \cup X
  <2>1. X \subseteq Hits(db.alerts, k, d0)
    BY <1>8, <1>12, KeyTypes DEF Hits
  <2>2. \A b \in X : ~Pending(prog', b.id, d0) /\ Pending(prog, b.id, d0)
    BY <1>5, <1>7
  <2>3. \A b \in Hits(db.alerts, k, d0) :
          ~Pending(prog', b.id, d0) <=> ~Pending(prog, b.id, d0) \/ b \in X
    BY <1>5, <1>7 DEF Hits
  <2> HIDE DEF X
  <2> QED BY <1>6, <2>1, <2>2, <2>3 DEF Due
<1> HIDE DEF X
<1>13. ASSUME NEW k \in Key
       PROVE  \A d \in Dir : /\ Due(prog, db.alerts, k, d) \in SUBSET Alert
                             /\ IsFiniteSet(Due(prog, db.alerts, k, d))
  BY DueTypes, TablesTypes DEF TypeInv
<1>14. One(a).count = 1 /\ One(a).rank = a.rank /\ a.rank \in Nat
  BY <1>1, AlertTypes DEF One
<1>15. UNCHANGED <<raced, died>>
  BY DEF Moves
<1>16. CoversInv'
  <2>1. ASSUME NEW k \in Key, ~(raced /\ died)
        PROVE  Covers(db'.summary[k], Due(prog', db'.alerts, k, "forward"),
                                      Due(prog', db'.alerts, k, "reverse"))
    <3>1. Covers(db.summary[k], Due(prog, db.alerts, k, "forward"),
                                Due(prog, db.alerts, k, "reverse"))
      BY <2>1 DEF SummaryInv, CoversInv
    <3>2. CASE KeyOf(a, d0) # k
      BY <1>10, <3>1, <3>2 DEF Dir
    <3>3. CASE KeyOf(a, d0) = k
      <4>1. PICK D, E : /\ D = [d \in Dir |-> Due(prog, db.alerts, k, d)]
                        /\ E = [d \in Dir |-> Due(prog', db.alerts, k, d)]
        OBVIOUS
      <4>2. /\ \A e \in Dir : D[e] \in SUBSET Alert /\ IsFiniteSet(D[e])
            /\ E[d0] \in SUBSET (D[d0] \cup X) /\ \A e \in Dir : e # d0 => E[e] = D[e]
        BY <1>9, <1>12, <1>13, <3>3, <4>1
      <4>3. PICK r, g : r = db.summary[k] /\ g = One(a)
        OBVIOUS
      <4>4. /\ r \in Row /\ g \in Row /\ g.count >= Cardinality(X)
            /\ \A b \in X : g.rank >= b.rank
        BY <1>1, <1>11, <1>14, <4>3, TablesTypes DEF TypeInv
      <4>5. Covers(r, D["forward"], D["reverse"])
        BY <3>1, <4>1, <4>3 DEF Dir
      <4>6. Covers(Added(r, g), E["forward"], E["reverse"])
        BY <1>11, <4>2, <4>4, <4>5, OneWayCovers
      <4>7. db'.summary[k] = Added(r, g)
        BY <1>1, <3>3, <4>3
      <4> QED BY <1>1, <4>1, <4>6, <4>7 DEF Dir
    <3> QED BY <3>2, <3>3
  <2> QED BY <1>15, <2>1 DEF CoversInv
<1>17. ExactInv'
  <2>1. ASSUME NEW k \in Key, ~raced, ~died, ~Stale(prog', k)
        PROVE  Exactly(db'.summary[k], Due(prog', db'.alerts, k, "forward"),
                                       Due(prog', db'.alerts, k, "reverse"))
    <3>1. ~Stale(prog, k)
      BY <1>2, <1>3, <2>1, Shift
    <3>2. Exactly(db.summary[k], Due(prog, db.alerts, k, "forward"),
                                 Due(prog, db.alerts, k, "reverse"))
      BY <2>1, <3>1 DEF SummaryInv, ExactInv
    <3>3. CASE KeyOf(a, d0) # k
      BY <1>10, <3>2, <3>3 DEF Dir
    <3>4. CASE KeyOf(a, d0) = k
      <4>1. PICK D, E : /\ D = [d \in Dir |-> Due(prog, db.alerts, k, d)]
                        /\ E = [d \in Dir |-> Due(prog', db.alerts, k, d)]
        OBVIOUS
      <4>2. ~Owes(prog, k, d0)
        BY <1>2, <1>3, <2>1, OthersIdle, Shift DEF Moves
      <4>3. /\ \A e \in Dir : D[e] \in SUBSET Alert /\ IsFiniteSet(D[e])
            /\ E[d0] = D[d0] \cup X /\ D[d0] \cap X = {}
            /\ \A e \in Dir : e # d0 => E[e] = D[e]
        BY <1>9, <1>12, <1>13, <3>4, <4>1, <4>2
      <4>4. PICK r, g : r = db.summary[k] /\ g = One(a)
        OBVIOUS
      <4>5. \E b \in db.alerts : b.id = a.id
        BY <1>4, <2>1 DEF AloneInv
      <4>6. PICK b \in X : b.rank = a.rank
        BY <1>11, <4>5 DEF X
      <4>7. /\ r \in Row /\ g \in Row /\ g.count = Cardinality(X)
            /\ g.rank = 0 \/ \E c \in X : g.rank = c.rank
        BY <1>1, <1>11, <1>14, <4>4, <4>6, TablesTypes DEF TypeInv
      <4>8. Exactly(r, D["forward"], D["reverse"])
        BY <3>2, <4>1, <4>4 DEF Dir
      <4>9. Exactly(Added(r, g), E["forward"], E["reverse"])
        BY <1>11, <4>3, <4>7, <4>8, OneWayExactly
      <4>10. db'.summary[k] = Added(r, g)
        BY <1>1, <3>4, <4>4
      <4> QED BY <1>1, <4>1, <4>9, <4>10 DEF Dir
    <3> QED BY <3>3, <3>4
  <2> QED BY <1>15, <2>1 DEF ExactInv
<1> QED BY <1>16, <1>17 DEF SummaryInv

\* Deleted alerts are owed no more; if some were, the rebuild has still to wipe.
LEMMA SummaryDelete ==
  ASSUME TypeInv, AloneInv, SummaryInv, NEW t, NEW st, NEW sc, AtDelete(prog[t], st, sc),
         NEW q, Moves(t, q), db' = Effect(db, st),
         \/ q = <<Commit>> /\ db'.alerts = db.alerts
         \/ q = Tail(prog[t])
  PROVE  SummaryInv'
<1>1. /\ db'.alerts \subseteq db.alerts /\ db'.summary = db.summary
      /\ \A a \in db.alerts : a \in db'.alerts \/ a.source \in sc
  BY DeleteEffect, TablesTypes DEF AtDelete, TypeInv
<1>2. PICK p : p = prog[t]
  OBVIOUS
<1>3. /\ Plan(p, {}, {}, {}, sc, sc, sc, TRUE)
      /\ \/ db'.alerts = db.alerts /\ Plan(q, {}, {}, {}, {}, {}, {}, FALSE)
         \/ Plan(q, {}, {}, {}, sc, sc, sc, FALSE)
  BY <1>2, EmptyProgram DEF AtDelete, Idling
<1>4. /\ \A id : \A d \in Dir : ~PendingIn(p, id, d) /\ ~PendingIn(q, id, d)
      /\ \A k : \A d \in Dir : ~OwesIn(p, k, d) /\ ~OwesIn(q, k, d)
      /\ \A k : ~StaleIn(p, k)
      /\ \A k : k[2] \in sc /\ db'.alerts # db.alerts => StaleIn(q, k)
  BY <1>3 DEF Dir, Plan, PendingIn, OwesIn, StaleIn
<1>5. /\ \A id : \A d \in Dir : Pending(prog', id, d) <=> Pending(prog, id, d)
      /\ \A k : \A d \in Dir : Owes(prog', k, d) <=> Owes(prog, k, d)
      /\ \A k : Stale(prog, k) => Stale(prog', k)
      /\ \A k : k[2] \in sc /\ db'.alerts # db.alerts => Stale(prog', k)
  BY <1>2, <1>4, Shift
<1>6. \A k \in Key : \A d \in Dir :
        /\ Due(prog', db'.alerts, k, d) \in SUBSET Due(prog, db.alerts, k, d)
        /\ Stale(prog', k) \/ Due(prog', db'.alerts, k, d) = Due(prog, db.alerts, k, d)
  <2> SUFFICES ASSUME NEW k \in Key, NEW d \in Dir
               PROVE  /\ Due(prog', db'.alerts, k, d) \in SUBSET Due(prog, db.alerts, k, d)
                      /\ \/ Stale(prog', k)
                         \/ Due(prog', db'.alerts, k, d) = Due(prog, db.alerts, k, d)
    OBVIOUS
  <2>1. Hits(db'.alerts, k, d) \subseteq Hits(db.alerts, k, d)
    BY <1>1 DEF Hits
  <2>2. Stale(prog', k) \/ Hits(db'.alerts, k, d) = Hits(db.alerts, k, d)
    BY <1>1, <1>5, KeyTypes DEF Hits
  <2> QED BY <1>5, <2>1, <2>2 DEF Due
<1>7. \A k : \A d \in Dir : /\ IsFiniteSet(Due(prog, db.alerts, k, d))
                            /\ Due(prog, db.alerts, k, d) \in SUBSET Alert
  BY DueTypes, TablesTypes DEF TypeInv
<1>8. UNCHANGED <<raced, died>>
  BY DEF Moves
<1>9. CoversInv'
  <2>1. ASSUME NEW k \in Key, ~(raced /\ died)
        PROVE  Covers(db.summary[k], Due(prog', db'.alerts, k, "forward"),
                                     Due(prog', db'.alerts, k, "reverse"))
    <3>1. Covers(db.summary[k], Due(prog, db.alerts, k, "forward"),
                                Due(prog, db.alerts, k, "reverse"))
      BY <2>1 DEF SummaryInv, CoversInv
    <3>2. db.summary[k] \in Row
      BY TablesTypes DEF TypeInv
    <3> QED BY <1>6, <1>7, <3>1, <3>2, FewerCovers DEF Dir
  <2> QED BY <1>1, <1>8, <2>1 DEF CoversInv
<1>10. ExactInv'
  BY <1>1, <1>5, <1>6, <1>8 DEF SummaryInv, ExactInv, Dir
<1> QED BY <1>9, <1>10 DEF SummaryInv

\* A commit changes no row.
LEMMA SummaryCommit ==
  ASSUME TypeInv, SummaryInv, NEW t, AtCommit(prog[t]), Moves(t, Tail(prog[t])), db' = db
  PROVE  SummaryInv'
<1>1. PICK p, q : p = prog[t] /\ q = Tail(prog[t])
  OBVIOUS
<1>2. PICK sc : Plan(p, {}, {}, {}, sc, sc, sc, FALSE) /\ Plan(q, {}, {}, {}, sc, sc, sc, FALSE)
  BY <1>1 DEF AtCommit, Idling
<1>3. /\ \A id : \A d \in Dir : ~PendingIn(p, id, d) /\ ~PendingIn(q, id, d)
      /\ \A k : \A d \in Dir : ~OwesIn(p, k, d) /\ ~OwesIn(q, k, d)
      /\ \A k : StaleIn(p, k) <=> StaleIn(q, k)
  BY <1>2 DEF Dir, Plan, PendingIn, OwesIn, StaleIn
<1>4. /\ \A id : \A d \in Dir : Pending(prog', id, d) <=> Pending(prog, id, d)
      /\ \A k : \A d \in Dir : Owes(prog', k, d) <=> Owes(prog, k, d)
      /\ \A k : Stale(prog, k) => Stale(prog', k)
  BY <1>1, <1>3, Shift
<1>5. \A k \in Key, d \in Dir : Due(prog', db'.alerts, k, d) = Due(prog, db.alerts, k, d)
  BY <1>4 DEF Due
<1> QED BY <1>4, <1>5, SameSummary DEF Moves

\* The wiped rows owe both directions, so they cover all that is due: nothing.
LEMMA SummaryWipe ==
  ASSUME TypeInv, SummaryInv, NEW t, NEW sc, AtWipe(prog[t], sc),
         Moves(t, Tail(prog[t])), db' = Effect(db, Wipe(sc))
  PROVE  SummaryInv'
<1>1. /\ db'.alerts = db.alerts
      /\ \A k \in Key : db'.summary[k] = IF k[2] \in sc THEN Nothing ELSE db.summary[k]
  BY WipeEffect, TablesTypes DEF AtWipe, TypeInv
<1>2. PICK p, q : p = prog[t] /\ q = Tail(prog[t])
  OBVIOUS
<1>3. /\ \A id : \A d \in Dir : ~PendingIn(p, id, d) /\ ~PendingIn(q, id, d)
      /\ \A k : \A d \in Dir : ~OwesIn(p, k, d) /\ (OwesIn(q, k, d) <=> k[2] \in sc)
      /\ \A k : (StaleIn(p, k) <=> k[2] \in sc) /\ ~StaleIn(q, k)
  BY <1>2 DEF AtWipe, Dir, Plan, PendingIn, OwesIn, StaleIn
<1>4. /\ \A id : \A d \in Dir : Pending(prog', id, d) <=> Pending(prog, id, d)
      /\ \A k : \A d \in Dir : Owes(prog', k, d) <=> Owes(prog, k, d) \/ k[2] \in sc
      /\ \A k : k[2] \notin sc => (Stale(prog', k) <=> Stale(prog, k))
  BY <1>2, <1>3, Shift
<1>5. ASSUME NEW k \in Key, k[2] \notin sc
      PROVE  /\ db'.summary[k] = db.summary[k]
             /\ \A d \in Dir : Due(prog', db'.alerts, k, d) = Due(prog, db.alerts, k, d)
  BY <1>1, <1>4, <1>5 DEF Due
<1>6. ASSUME NEW k \in Key, k[2] \in sc
      PROVE  /\ db'.summary[k] = Nothing
             /\ Due(prog', db'.alerts, k, "forward") = {}
             /\ Due(prog', db'.alerts, k, "reverse") = {}
  BY <1>1, <1>4, <1>6 DEF Due, Dir
<1>7. Covers(Nothing, {}, {}) /\ Exactly(Nothing, {}, {})
  BY FS_EmptySet DEF Covers, Exactly, Nothing
<1>8. UNCHANGED <<raced, died>>
  BY DEF Moves
<1>9. CoversInv'
  <2>1. ASSUME NEW k \in Key, ~(raced /\ died)
        PROVE  Covers(db'.summary[k], Due(prog', db'.alerts, k, "forward"),
                                      Due(prog', db'.alerts, k, "reverse"))
    <3>1. CASE k[2] \in sc
      BY <1>6, <1>7, <3>1
    <3>2. CASE k[2] \notin sc
      BY <1>5, <2>1, <3>2 DEF SummaryInv, CoversInv, Dir
    <3> QED BY <3>1, <3>2
  <2> QED BY <1>8, <2>1 DEF CoversInv
<1>10. ExactInv'
  <2>1. ASSUME NEW k \in Key, ~raced, ~died, ~Stale(prog', k)
        PROVE  Exactly(db'.summary[k], Due(prog', db'.alerts, k, "forward"),
                                       Due(prog', db'.alerts, k, "reverse"))
    <3>1. CASE k[2] \in sc
      BY <1>6, <1>7, <3>1
    <3>2. CASE k[2] \notin sc
      BY <1>4, <1>5, <2>1, <3>2 DEF SummaryInv, ExactInv, Dir
    <3> QED BY <3>1, <3>2
  <2> QED BY <1>8, <2>1 DEF ExactInv
<1> QED BY <1>9, <1>10 DEF SummaryInv

\* A direction that was owed is counted again from the table itself.
LEMMA SummaryRegroup ==
  ASSUME TypeInv, AloneInv, SummaryInv, NEW t, NEW sc, NEW d0 \in Dir,
         \/ d0 = "forward" /\ AtRegroup(prog[t], sc)
         \/ d0 = "reverse" /\ AtLastRegroup(prog[t], sc),
         Moves(t, Tail(prog[t])), db' = Effect(db, Regroup(sc, d0))
  PROVE  SummaryInv'
<1>1. /\ db'.alerts = db.alerts
      /\ \A k \in Key : \E g \in Row :
           /\ IsGroup(g, Counted(db.alerts, sc, k, d0))
           /\ db'.summary[k] = Added(db.summary[k], g)
      /\ \A k \in Key : k[2] \notin sc => db'.summary[k] = db.summary[k]
  <2>1. db \in AnyTables /\ IsFiniteSet(db.alerts)
    BY TablesTypes DEF TypeInv
  <2>2. sc \in SUBSET Source
    BY DEF AtRegroup, AtLastRegroup
  <2>3. PICK new : new = Effect(db, Regroup(sc, d0))
    OBVIOUS
  <2>4. new.alerts = db.alerts
    BY <2>1, <2>2, <2>3, RegroupEffect
  <2>5. \A k \in Key : \E g \in Row :
           /\ IsGroup(g, Counted(db.alerts, sc, k, d0))
           /\ new.summary[k] = Added(db.summary[k], g)
    BY <2>1, <2>2, <2>3, RegroupEffect
  <2>6. \A k \in Key : k[2] \notin sc => new.summary[k] = db.summary[k]
    BY <2>1, <2>2, <2>3, RegroupEffect
  <2>7. db' = new
    BY <2>3
  <2> QED BY <2>4, <2>5, <2>6, <2>7
<1>2. PICK p, q : p = prog[t] /\ q = Tail(prog[t])
  OBVIOUS
<1>3. /\ \A id : \A d \in Dir : ~PendingIn(p, id, d) /\ ~PendingIn(q, id, d)
      /\ \A k : (OwesIn(p, k, d0) <=> k[2] \in sc) /\ ~OwesIn(q, k, d0)
      /\ \A k : \A d \in Dir : d # d0 => (OwesIn(q, k, d) <=> OwesIn(p, k, d))
      /\ \A k : ~StaleIn(p, k) /\ ~StaleIn(q, k)
  BY <1>2 DEF AtRegroup, AtLastRegroup, Idling, Dir, Plan, PendingIn, OwesIn, StaleIn
<1>4. /\ \A id : \A d \in Dir : Pending(prog', id, d) <=> Pending(prog, id, d)
      /\ \A k : Owes(prog, k, d0) <=> Owes(prog', k, d0) \/ k[2] \in sc
      /\ \A k : \A d \in Dir : d # d0 => (Owes(prog', k, d) <=> Owes(prog, k, d))
      /\ \A k : Stale(prog', k) <=> Stale(prog, k)
  BY <1>2, <1>3, Shift
<1>5. ASSUME NEW k \in Key, NEW d \in Dir, d # d0 \/ k[2] \notin sc
      PROVE  Due(prog', db.alerts, k, d) = Due(prog, db.alerts, k, d)
  BY <1>4, <1>5 DEF Due
<1>6. ASSUME NEW k \in Key, k[2] \in sc
      PROVE  /\ Due(prog, db.alerts, k, d0) = {}
             /\ Due(prog', db.alerts, k, d0) \in SUBSET Hits(db.alerts, k, d0)
             /\ ~raced => Due(prog', db.alerts, k, d0) = Hits(db.alerts, k, d0)
  <2>1. Owes(prog, k, d0)
    BY <1>4, <1>6
  <2>2. ~raced => ~Owes(prog', k, d0) /\ \A id : ~Pending(prog', id, d0)
    BY <1>2, <1>3, OthersIdle, Shift DEF Moves
  <2> QED BY <2>1, <2>2 DEF Due
<1>7. \A k, d : /\ IsFiniteSet(Hits(db.alerts, k, d))
                /\ Hits(db.alerts, k, d) \in SUBSET Alert
  <2>1. \A k, d : Hits(db.alerts, k, d) \in SUBSET db.alerts
    BY DEF Hits
  <2>2. db.alerts \in SUBSET Alert /\ IsFiniteSet(db.alerts)
    BY TablesTypes DEF TypeInv
  <2> QED BY <2>1, <2>2, FS_Subset
<1>8. \A k : \A d \in Dir : /\ IsFiniteSet(Due(prog, db.alerts, k, d))
                            /\ Due(prog, db.alerts, k, d) \in SUBSET Alert
  BY DueTypes, TablesTypes DEF TypeInv
<1>9. UNCHANGED <<raced, died>>
  BY DEF Moves
<1>10. CoversInv'
  <2>1. ASSUME NEW k \in Key, ~(raced /\ died)
        PROVE  Covers(db'.summary[k], Due(prog', db'.alerts, k, "forward"),
                                      Due(prog', db'.alerts, k, "reverse"))
    <3>1. Covers(db.summary[k], Due(prog, db.alerts, k, "forward"),
                                Due(prog, db.alerts, k, "reverse"))
      BY <2>1 DEF SummaryInv, CoversInv
    <3>2. CASE k[2] \notin sc
      BY <1>1, <1>5, <3>1, <3>2 DEF Dir
    <3>3. CASE k[2] \in sc
      <4>1. PICK D, E : /\ D = [d \in Dir |-> Due(prog, db.alerts, k, d)]
                        /\ E = [d \in Dir |-> Due(prog', db.alerts, k, d)]
        OBVIOUS
      <4>2. PICK X : X = Hits(db.alerts, k, d0)
        OBVIOUS
      <4>3. PICK g \in Row : IsGroup(g, X) /\ db'.summary[k] = Added(db.summary[k], g)
        BY <1>1, <3>3, <4>2 DEF Counted
      <4>4. /\ \A e \in Dir : D[e] \in SUBSET Alert /\ IsFiniteSet(D[e])
            /\ E[d0] \in SUBSET (D[d0] \cup X) /\ \A e \in Dir : e # d0 => E[e] = D[e]
            /\ IsFiniteSet(X) /\ X \in SUBSET Alert
        BY <1>5, <1>6, <1>7, <1>8, <3>3, <4>1, <4>2
      <4>5. PICK r : r = db.summary[k]
        OBVIOUS
      <4>6. r \in Row /\ g.count >= Cardinality(X) /\ \A b \in X : g.rank >= b.rank
        <5>1. Cardinality(X) \in Nat
          BY <4>4, FS_CardinalityType
        <5> QED BY <4>3, <4>5, <5>1, TablesTypes DEF TypeInv, IsGroup
      <4>7. Covers(r, D["forward"], D["reverse"])
        BY <3>1, <4>1, <4>5 DEF Dir
      <4>8. Covers(Added(r, g), E["forward"], E["reverse"])
        BY <4>4, <4>6, <4>7, OneWayCovers
      <4> QED BY <1>1, <4>1, <4>3, <4>5, <4>8 DEF Dir
    <3> QED BY <3>2, <3>3
  <2> QED BY <1>9, <2>1 DEF CoversInv
<1>11. ExactInv'
  <2>1. ASSUME NEW k \in Key, ~raced, ~died, ~Stale(prog', k)
        PROVE  Exactly(db'.summary[k], Due(prog', db'.alerts, k, "forward"),
                                       Due(prog', db'.alerts, k, "reverse"))
    <3>1. Exactly(db.summary[k], Due(prog, db.alerts, k, "forward"),
                                 Due(prog, db.alerts, k, "reverse"))
      BY <1>4, <2>1 DEF SummaryInv, ExactInv
    <3>2. CASE k[2] \notin sc
      BY <1>1, <1>5, <3>1, <3>2 DEF Dir
    <3>3. CASE k[2] \in sc
      <4>1. PICK D, E : /\ D = [d \in Dir |-> Due(prog, db.alerts, k, d)]
                        /\ E = [d \in Dir |-> Due(prog', db.alerts, k, d)]
        OBVIOUS
      <4>2. PICK X : X = Hits(db.alerts, k, d0)
        OBVIOUS
      <4>3. PICK g \in Row : IsGroup(g, X) /\ db'.summary[k] = Added(db.summary[k], g)
        BY <1>1, <3>3, <4>2 DEF Counted
      <4>4. /\ \A e \in Dir : D[e] \in SUBSET Alert /\ IsFiniteSet(D[e])
            /\ E[d0] = D[d0] \cup X /\ D[d0] \cap X = {}
            /\ \A e \in Dir : e # d0 => E[e] = D[e]
            /\ IsFiniteSet(X) /\ X \in SUBSET Alert
        BY <1>5, <1>6, <1>7, <1>8, <2>1, <3>3, <4>1, <4>2
      <4>5. PICK r : r = db.summary[k]
        OBVIOUS
      <4>6. /\ r \in Row /\ g.count = Cardinality(X)
            /\ g.rank = 0 \/ \E b \in X : g.rank = b.rank
        BY <4>3, <4>5, TablesTypes DEF TypeInv, IsGroup
      <4>7. Exactly(r, D["forward"], D["reverse"])
        BY <3>1, <4>1, <4>5 DEF Dir
      <4>8. Exactly(Added(r, g), E["forward"], E["reverse"])
        BY <4>4, <4>6, <4>7, OneWayExactly
      <4> QED BY <1>1, <4>1, <4>3, <4>5, <4>8 DEF Dir
    <3> QED BY <3>2, <3>3
  <2> QED BY <1>9, <2>1 DEF ExactInv
<1> QED BY <1>10, <1>11 DEF SummaryInv

\* A thread that starts an operation: its alert is not stored, and what it will
\* wipe it has not wiped.
LEMMA SummaryStart ==
  ASSUME TypeInv, SummaryInv, NEW t \in Thread, NEW q, Start(t, q),
         \/ \E a \in Alert : /\ Plan(q, {a}, {a}, {a}, {}, {}, {}, FALSE)
                             /\ \A b \in db.alerts : b.id # a.id
         \/ \E sc : Plan(q, {}, {}, {}, sc, sc, sc, TRUE)
         \/ Idling(q)
  PROVE  SummaryInv'
<1>1. /\ prog \in [Thread -> Programs] /\ prog' = [prog EXCEPT ![t] = q]
      /\ db'.alerts = db.alerts /\ db'.summary = db.summary
  BY DEF TypeInv, Start
<1>2. /\ \A id : \A d \in Dir : ~PendingIn(prog[t], id, d)
      /\ \A k : \A d \in Dir : ~OwesIn(prog[t], k, d)
      /\ \A k : ~StaleIn(prog[t], k)
  <2>1. Idling(prog[t])
    BY EmptyProgram DEF Start, Idle
  <2> QED BY <2>1 DEF Idling, Plan, PendingIn, OwesIn, StaleIn, Dir
<1>3. /\ \A b \in db.alerts : \A d \in Dir : ~PendingIn(q, b.id, d)
      /\ \A k : \A d \in Dir : ~OwesIn(q, k, d)
  <2>1. CASE \E a \in Alert : /\ Plan(q, {a}, {a}, {a}, {}, {}, {}, FALSE)
                              /\ \A b \in db.alerts : b.id # a.id
    BY <2>1 DEF Plan, PendingIn, OwesIn, Dir
  <2>2. CASE Idling(q) \/ \E sc : Plan(q, {}, {}, {}, sc, sc, sc, TRUE)
    BY <2>2 DEF Idling, Plan, PendingIn, OwesIn, Dir
  <2> QED BY <2>1, <2>2
<1>4. /\ \A id, d :
           Pending(prog, id, d) <=> PendingIn(prog[t], id, d) \/ OthersPending(prog, t, id, d)
      /\ \A k, d : Owes(prog, k, d) <=> OwesIn(prog[t], k, d) \/ OthersOwe(prog, t, k, d)
      /\ \A k : Stale(prog, k) <=> StaleIn(prog[t], k) \/ OthersStale(prog, t, k)
  BY OwnAndOthers
<1>5. /\ \A id, d : Pending(prog', id, d) <=> PendingIn(q, id, d) \/ OthersPending(prog, t, id, d)
      /\ \A k, d : Owes(prog', k, d) <=> OwesIn(q, k, d) \/ OthersOwe(prog, t, k, d)
      /\ \A k : Stale(prog', k) <=> StaleIn(q, k) \/ OthersStale(prog, t, k)
  BY <1>1, OwnAndOthersNext
<1>6. ASSUME NEW k \in Key, NEW d \in Dir
      PROVE  Due(prog', db'.alerts, k, d) = Due(prog, db.alerts, k, d)
  <2>1. Owes(prog', k, d) <=> Owes(prog, k, d)
    BY <1>2, <1>3, <1>4, <1>5
  <2>2. \A b \in db.alerts : Pending(prog', b.id, d) <=> Pending(prog, b.id, d)
    BY <1>2, <1>3, <1>4, <1>5
  <2> QED BY <1>1, <2>1, <2>2 DEF Due, Hits
<1>7. \A k \in Key : Stale(prog, k) => Stale(prog', k)
  BY <1>2, <1>4, <1>5
<1>8. (raced => raced') /\ died' = died
  BY DEF Start
<1> QED BY <1>1, <1>6, <1>7, <1>8, SameSummary

\* The alerts of S after the retention period has passed for them.
Older(S) == {[a EXCEPT !.expired = TRUE] : a \in S}

\* The alerts of a table once their retention period has passed.
LEMMA OlderFacts ==
  ASSUME NEW S \in SUBSET Alert, IsFiniteSet(S), \A a, b \in S : a.id = b.id => a = b
  PROVE  /\ Older(S) \in SUBSET Alert /\ IsFiniteSet(Older(S))
         /\ Cardinality(Older(S)) = Cardinality(S)
         /\ \A x \in Older(S) : \E a \in S : x.id = a.id /\ SameAlert(x, a)
         /\ \A a \in S : \E x \in Older(S) : x.id = a.id /\ SameAlert(x, a)
         /\ \A x, y \in Older(S) : x.id = y.id => x = y
<1> DEFINE old(a) == [a EXCEPT !.expired = TRUE]
           f == [a \in S |-> old(a)]
<1>1. \A a \in S : /\ old(a) \in Alert /\ old(a).id = a.id /\ old(a).flow = a.flow
                   /\ old(a).rank = a.rank /\ old(a).source = a.source
  BY DEF Alert
<1>2. Older(S) = {old(a) : a \in S}
  BY DEF Older
<1> HIDE DEF old
<1>3. Older(S) \in SUBSET Alert
  BY <1>1, <1>2
<1>4. f \in Bijection(S, Older(S))
  <2>1. f \in [S -> Older(S)]
    BY <1>2
  <2>2. \A a, b \in S : f[a] = f[b] => a = b
    BY <1>1
  <2>3. \A x \in Older(S) : \E a \in S : f[a] = x
    BY <1>2
  <2> QED BY <2>1, <2>2, <2>3 DEF Bijection, Injection, Surjection, IsInjective
<1>5. IsFiniteSet(Older(S)) /\ Cardinality(Older(S)) = Cardinality(S)
  <2>1. ExistsBijection(S, Older(S))
    BY <1>4 DEF ExistsBijection
  <2> QED BY <2>1, FS_Bijection
<1>6. /\ \A x \in Older(S) : \E a \in S : x.id = a.id /\ SameAlert(x, a)
      /\ \A a \in S : \E x \in Older(S) : x.id = a.id /\ SameAlert(x, a)
  BY <1>1, <1>2 DEF SameAlert
<1>7. \A x, y \in Older(S) : x.id = y.id => x = y
  BY <1>1, <1>2
<1> QED BY <1>3, <1>5, <1>6, <1>7

\* A row covers the older alerts as it covered the alerts.
LEMMA OlderRows ==
  ASSUME NEW row, NEW S \in SUBSET Alert, NEW T \in SUBSET Alert,
         IsFiniteSet(S), \A a, b \in S : a.id = b.id => a = b,
         IsFiniteSet(T), \A a, b \in T : a.id = b.id => a = b
  PROVE  /\ Covers(row, S, T) => Covers(row, Older(S), Older(T))
         /\ Exactly(row, S, T) => Exactly(row, Older(S), Older(T))
<1>1. Cardinality(Older(S)) = Cardinality(S) /\ Cardinality(Older(T)) = Cardinality(T)
  BY OlderFacts
<1>2. \A x \in Older(S) \cup Older(T) : \E a \in S \cup T : x.rank = a.rank
  BY OlderFacts DEF SameAlert
<1>3. \A a \in S \cup T : \E x \in Older(S) \cup Older(T) : x.rank = a.rank
  BY OlderFacts DEF SameAlert
<1>4. Covers(row, S, T) => Covers(row, Older(S), Older(T))
  BY <1>1, <1>2 DEF Covers
<1>5. Exactly(row, S, T) => Exactly(row, Older(S), Older(T))
  BY <1>1, <1>3 DEF Exactly
<1> QED BY <1>4, <1>5

\* The rows of the older alerts are those of the alerts.
LEMMA OlderHits ==
  ASSUME NEW alerts, NEW k, NEW d, NEW pr
  PROVE  /\ Hits(Older(alerts), k, d) = Older(Hits(alerts, k, d))
         /\ Due(pr, Older(alerts), k, d) = Older(Due(pr, alerts, k, d))
<1> DEFINE old(a) == [a EXCEPT !.expired = TRUE]
<1>1. \A S : Older(S) = {old(a) : a \in S}
  BY DEF Older
<1>2. \A a : KeyOf(old(a), d) = KeyOf(a, d) /\ old(a).id = a.id
  BY DEF KeyOf
<1> HIDE DEF old
<1>3. Hits(Older(alerts), k, d) = Older(Hits(alerts, k, d))
  BY <1>1, <1>2 DEF Hits
<1>4. CASE Owes(pr, k, d)
  BY <1>1, <1>3, <1>4 DEF Due
<1>5. CASE ~Owes(pr, k, d)
  <2>1. {x \in Older(Hits(alerts, k, d)) : ~Pending(pr, x.id, d)}
          = Older({a \in Hits(alerts, k, d) : ~Pending(pr, a.id, d)})
    BY <1>1, <1>2
  <2> QED BY <1>3, <1>5, <2>1 DEF Due
<1> QED BY <1>3, <1>4, <1>5

\* The tables keep their type and their summary.
LEMMA TablesOlder ==
  ASSUME NEW t, NEW u, Tables(t), u = [t EXCEPT !.alerts = {[a EXCEPT !.expired = TRUE] : a \in @}]
  PROVE  Tables(u) /\ u.alerts = Older(t.alerts) /\ u.summary = t.summary
<1>1. u = [t EXCEPT !.alerts = Older(t.alerts)]
  BY DEF Older
<1>2. /\ t \in [alerts : SUBSET Alert, summary : [Key -> Row]] /\ IsFiniteSet(t.alerts)
      /\ \A a \in t.alerts : a.id < saved
      /\ \A a, b \in t.alerts : a.id = b.id => a = b
  BY DEF Tables
<1>3. u.alerts = Older(t.alerts) /\ u.summary = t.summary
  BY <1>1, <1>2
<1>4. /\ Older(t.alerts) \in SUBSET Alert /\ IsFiniteSet(Older(t.alerts))
      /\ \A x \in Older(t.alerts) : \E a \in t.alerts : x.id = a.id
      /\ \A x, y \in Older(t.alerts) : x.id = y.id => x = y
  BY <1>2, OlderFacts
<1>5. u \in [alerts : SUBSET Alert, summary : [Key -> Row]]
  BY <1>1, <1>2, <1>4
<1>6. \A x \in u.alerts : x.id < saved
  BY <1>2, <1>3, <1>4
<1>7. IsFiniteSet(u.alerts)
  BY <1>3, <1>4
<1>8. \A x, y \in u.alerts : x.id = y.id => x = y
  BY <1>3, <1>4
<1> QED BY <1>3, <1>5, <1>6, <1>7, <1>8 DEF Tables

\* The retention period passes: every row stands for the same alerts, older.
LEMMA SummaryTimePasses ==
  ASSUME TypeInv, SummaryInv, DiskInv, TimePasses
  PROVE  SummaryInv' /\ DiskInv'
<1>1. /\ db'.alerts = Older(db.alerts) /\ db'.summary = db.summary
      /\ disk'.alerts = Older(disk.alerts) /\ disk'.summary = disk.summary
      /\ UNCHANGED <<prog, raced, died>>
  BY TablesOlder DEF TimePasses, TypeInv, history
<1>2. /\ db.alerts \in SUBSET Alert /\ IsFiniteSet(db.alerts)
      /\ \A a, b \in db.alerts : a.id = b.id => a = b
      /\ disk.alerts \in SUBSET Alert /\ IsFiniteSet(disk.alerts)
      /\ \A a, b \in disk.alerts : a.id = b.id => a = b
  BY DEF TypeInv, Tables
<1>3. ASSUME NEW row, NEW k
      PROVE  /\ Covers(row, Due(prog, db.alerts, k, "forward"), Due(prog, db.alerts, k, "reverse"))
                  => Covers(row, Due(prog', db'.alerts, k, "forward"),
                                 Due(prog', db'.alerts, k, "reverse"))
             /\ Exactly(row, Due(prog, db.alerts, k, "forward"), Due(prog, db.alerts, k, "reverse"))
                  => Exactly(row, Due(prog', db'.alerts, k, "forward"),
                                  Due(prog', db'.alerts, k, "reverse"))
  <2> DEFINE S == Due(prog, db.alerts, k, "forward")
             T == Due(prog, db.alerts, k, "reverse")
  <2>1. /\ Due(prog', db'.alerts, k, "forward") = Older(S)
        /\ Due(prog', db'.alerts, k, "reverse") = Older(T)
    BY <1>1, OlderHits
  <2>2. /\ S \in SUBSET Alert /\ IsFiniteSet(S) /\ S \in SUBSET db.alerts
        /\ T \in SUBSET Alert /\ IsFiniteSet(T) /\ T \in SUBSET db.alerts
    BY <1>2, DueTypes
  <2> HIDE DEF S, T
  <2>3. /\ \A a, b \in S : a.id = b.id => a = b
        /\ \A a, b \in T : a.id = b.id => a = b
    BY <1>2, <2>2
  <2>4. /\ Covers(row, S, T) => Covers(row, Older(S), Older(T))
        /\ Exactly(row, S, T) => Exactly(row, Older(S), Older(T))
    BY <2>2, <2>3, OlderRows
  <2> QED BY <2>1, <2>4 DEF S, T
<1>4. ASSUME NEW row, NEW k
      PROVE  Covers(row, Hits(disk.alerts, k, "forward"), Hits(disk.alerts, k, "reverse"))
               => Covers(row, Hits(disk'.alerts, k, "forward"), Hits(disk'.alerts, k, "reverse"))
  <2> DEFINE S == Hits(disk.alerts, k, "forward")
             T == Hits(disk.alerts, k, "reverse")
  <2>1. /\ Hits(Older(disk.alerts), k, "forward") = Older(S)
        /\ Hits(Older(disk.alerts), k, "reverse") = Older(T)
    BY OlderHits
  <2>2. S \in SUBSET disk.alerts /\ T \in SUBSET disk.alerts
    BY DEF Hits
  <2> HIDE DEF S, T
  <2>3. S \in SUBSET Alert /\ IsFiniteSet(S) /\ T \in SUBSET Alert /\ IsFiniteSet(T)
    BY <1>2, <2>2, FS_Subset
  <2>4. /\ \A a, b \in S : a.id = b.id => a = b
        /\ \A a, b \in T : a.id = b.id => a = b
    BY <1>2, <2>2
  <2>5. Covers(row, S, T) => Covers(row, Older(S), Older(T))
    BY <2>3, <2>4, OlderRows
  <2> QED BY <1>1, <2>1, <2>5 DEF S, T
<1>5. SummaryInv'
  BY <1>1, <1>3 DEF SummaryInv, CoversInv, ExactInv
<1>6. DiskInv'
  BY <1>1, <1>4 DEF DiskInv
<1> QED BY <1>5, <1>6

-------------------------------------------------------------------------------
(* Types, alerts being saved, and the committed tables *)

IInv == TypeInv /\ SavingInv /\ AloneInv /\ SummaryInv /\ DiskInv

\* What Execute(t) does, by the statement it executes; q is left to do.
Executed(t, q) ==
  /\ Moves(t, q) /\ saved' = saved
  /\ \/ /\ q = Tail(prog[t])
        /\ \/ \E a : AtInsert(prog[t], a) /\ db' = Effect(db, Insert(a))
           \/ \E a : AtForward(prog[t], a) /\ db' = Effect(db, Upsert(a, "forward"))
           \/ \E a : AtReverse(prog[t], a) /\ db' = Effect(db, Upsert(a, "reverse"))
           \/ \E sc : AtWipe(prog[t], sc) /\ db' = Effect(db, Wipe(sc))
           \/ \E sc : AtRegroup(prog[t], sc) /\ db' = Effect(db, Regroup(sc, "forward"))
           \/ \E sc : AtLastRegroup(prog[t], sc) /\ db' = Effect(db, Regroup(sc, "reverse"))
     \/ /\ q = Tail(prog[t]) \/ (q = <<Commit>> /\ db'.alerts = db.alerts)
        /\ \E st, sc : AtDelete(prog[t], st, sc) /\ db' = Effect(db, st)
  /\ \/ disk' = disk
     \/ disk' = db' /\ \E a : AtReverse(prog[t], a)

\* Whatever a thread executes is one of the seven statements.
LEMMA ExecuteCases ==
  ASSUME TypeInv, NEW t \in Thread, Execute(t)
  PROVE  \E q \in Programs : Executed(t, q)
<1>1. PICK p, st : p = prog[t] /\ st = Head(p) /\ p \in Programs /\ p # <<>> /\ st # Commit
  <2>1. prog[t] # <<>> /\ Head(prog[t]) # Commit
    BY DEF Execute, Idle
  <2>2. prog[t] \in Programs
    BY DEF TypeInv
  <2> QED BY <2>1, <2>2
<1>2. PICK q : q = IF st.sql \in {"delete_source", "delete_expired"} /\ db'.alerts = db.alerts
                   THEN <<Commit>> ELSE Tail(p)
  OBVIOUS
<1>3. /\ db' = Effect(db, st) /\ prog' = [prog EXCEPT ![t] = q] /\ ~Idle(t)
      /\ UNCHANGED <<saved, raced, died>>
  BY <1>1, <1>2 DEF Execute, history
<1>4. disk' = disk \/ (disk' = db' /\ ~st.begins)
  BY <1>1 DEF Execute
<1>5. /\ Tail(p) \in Programs
      /\ \/ \E a : AtInsert(p, a) \/ AtForward(p, a) \/ AtReverse(p, a)
         \/ \E x, sc : AtDelete(p, x, sc)
         \/ AtCommit(p)
         \/ \E sc : AtWipe(p, sc) \/ AtRegroup(p, sc) \/ AtLastRegroup(p, sc)
  BY <1>1, Steps
<1>6. Moves(t, q) /\ q \in Programs
  BY <1>2, <1>3, <1>5, ProgramKinds DEF Moves
<1>7. CASE \E a : AtInsert(p, a)
  <2>1. PICK a : AtInsert(p, a)
    BY <1>7
  <2>2. st = Insert(a)
    BY <1>1, <2>1 DEF AtInsert
  <2>3. st.sql = "insert_alert"
    BY <2>2 DEF Insert
  <2>4. disk' = disk
    BY <1>4, <2>2 DEF Insert
  <2> QED BY <1>1, <1>2, <1>3, <1>6, <2>1, <2>2, <2>3, <2>4 DEF Executed
<1>8. CASE \E a : AtForward(p, a)
  <2>1. PICK a : AtForward(p, a)
    BY <1>8
  <2>2. st = Upsert(a, "forward")
    BY <1>1, <2>1 DEF AtForward
  <2>3. st.sql = "upsert"
    BY <2>2 DEF Upsert
  <2>4. disk' = disk
    BY <1>4, <2>2 DEF Upsert
  <2> QED BY <1>1, <1>2, <1>3, <1>6, <2>1, <2>2, <2>3, <2>4 DEF Executed
<1>9. CASE \E a : AtReverse(p, a)
  <2>1. PICK a : AtReverse(p, a)
    BY <1>9
  <2>2. st = Upsert(a, "reverse")
    BY <1>1, <2>1 DEF AtReverse
  <2>3. st.sql = "upsert"
    BY <2>2 DEF Upsert
  <2> QED BY <1>1, <1>2, <1>3, <1>4, <1>6, <2>1, <2>2, <2>3 DEF Executed
<1>10. CASE \E x, sc : AtDelete(p, x, sc)
  <2>1. PICK x, sc : AtDelete(p, x, sc)
    BY <1>10
  <2>2. st = x
    BY <1>1, <2>1 DEF AtDelete
  <2>3. disk' = disk
    <3>1. st.begins
      BY <2>1, <2>2, Statements DEF AtDelete
    <3> QED BY <1>4, <3>1
  <2>4. q = Tail(p) \/ (q = <<Commit>> /\ db'.alerts = db.alerts)
    BY <1>2
  <2>5. \E y, z : AtDelete(prog[t], y, z) /\ db' = Effect(db, y)
    BY <1>1, <1>3, <2>1, <2>2
  <2>6. q = Tail(prog[t]) \/ (q = <<Commit>> /\ db'.alerts = db.alerts)
    BY <1>1, <2>4
  <2> QED BY <1>3, <1>6, <2>3, <2>5, <2>6 DEF Executed
<1>11. CASE \E sc : AtWipe(p, sc)
  <2>1. PICK sc : AtWipe(p, sc)
    BY <1>11
  <2>2. st = Wipe(sc)
    BY <1>1, <2>1 DEF AtWipe
  <2>3. st.sql = "wipe"
    BY <2>2 DEF Wipe
  <2>4. disk' = disk
    BY <1>4, <2>2 DEF Wipe
  <2> QED BY <1>1, <1>2, <1>3, <1>6, <2>1, <2>2, <2>3, <2>4 DEF Executed
<1>12. CASE \E sc : AtRegroup(p, sc)
  <2>1. PICK sc : AtRegroup(p, sc)
    BY <1>12
  <2>2. st = Regroup(sc, "forward")
    BY <1>1, <2>1 DEF AtRegroup
  <2>3. st.sql = "regroup"
    BY <2>2 DEF Regroup
  <2>4. disk' = disk
    BY <1>4, <2>2 DEF Regroup
  <2> QED BY <1>1, <1>2, <1>3, <1>6, <2>1, <2>2, <2>3, <2>4 DEF Executed
<1>13. CASE \E sc : AtLastRegroup(p, sc)
  <2>1. PICK sc : AtLastRegroup(p, sc)
    BY <1>13
  <2>2. st = Regroup(sc, "reverse")
    BY <1>1, <2>1 DEF AtLastRegroup
  <2>3. st.sql = "regroup"
    BY <2>2 DEF Regroup
  <2>4. disk' = disk
    BY <1>4, <2>2 DEF Regroup
  <2> QED BY <1>1, <1>2, <1>3, <1>6, <2>1, <2>2, <2>3, <2>4 DEF Executed
<1>14. ~AtCommit(p)
  BY <1>1 DEF AtCommit
<1> QED BY <1>5, <1>7, <1>8, <1>9, <1>10, <1>11, <1>12, <1>13, <1>14

\* The tables keep their type: an alert that is inserted has an id of its own.
LEMMA ExecuteTypes ==
  ASSUME TypeInv, SavingInv, NEW t \in Thread, Execute(t)
  PROVE  TypeInv'
<1>1. /\ db \in AnyTables /\ IsFiniteSet(db.alerts)
      /\ \A a \in db.alerts : a.id < saved
      /\ \A a, b \in db.alerts : a.id = b.id => a = b
  BY DEF TypeInv, Tables, AnyTables
<1>2. PICK q \in Programs : Executed(t, q)
  BY ExecuteCases
<1>3. db' \in AnyTables
      /\ (\/ db'.alerts \subseteq db.alerts
          \/ \E a \in Inserts(prog[t]) : db'.alerts = db.alerts \cup {a})
  <2>1. CASE \E a : AtInsert(prog[t], a) /\ db' = Effect(db, Insert(a))
    BY <1>1, <2>1, InsertEffect DEF AtInsert, Plan
  <2>2. CASE \E a : AtForward(prog[t], a) /\ db' = Effect(db, Upsert(a, "forward"))
    BY <1>1, <2>2, UpsertEffect DEF AtForward, Dir
  <2>3. CASE \E a : AtReverse(prog[t], a) /\ db' = Effect(db, Upsert(a, "reverse"))
    BY <1>1, <2>3, UpsertEffect DEF AtReverse, Dir
  <2>4. CASE \E sc : AtWipe(prog[t], sc) /\ db' = Effect(db, Wipe(sc))
    BY <1>1, <2>4, WipeEffect DEF AtWipe
  <2>5. CASE \E sc : AtRegroup(prog[t], sc) /\ db' = Effect(db, Regroup(sc, "forward"))
    BY <1>1, <2>5, RegroupEffect DEF AtRegroup
  <2>6. CASE \E sc : AtLastRegroup(prog[t], sc) /\ db' = Effect(db, Regroup(sc, "reverse"))
    BY <1>1, <2>6, RegroupEffect DEF AtLastRegroup
  <2>7. CASE \E st, sc : AtDelete(prog[t], st, sc) /\ db' = Effect(db, st)
    BY <1>1, <2>7, DeleteEffect DEF AtDelete
  <2> QED BY <1>2, <2>1, <2>2, <2>3, <2>4, <2>5, <2>6, <2>7 DEF Executed
<1>4. /\ IsFiniteSet(db'.alerts) /\ \A a \in db'.alerts : a.id < saved
      /\ \A a, b \in db'.alerts : a.id = b.id => a = b
  <2>1. CASE db'.alerts \subseteq db.alerts
    BY <1>1, <2>1, FS_Subset
  <2>2. CASE \E a \in Inserts(prog[t]) : db'.alerts = db.alerts \cup {a}
    <3>1. PICK a \in Inserts(prog[t]) : db'.alerts = db.alerts \cup {a}
      BY <2>2
    <3>2. a.id < saved /\ \A b \in db.alerts : b.id # a.id
      BY <3>1 DEF SavingInv, Work
    <3>3. IsFiniteSet(db'.alerts)
      BY <1>1, <3>1, FS_AddElement
    <3>4. \A b \in db'.alerts : b = a \/ b \in db.alerts
      BY <3>1
    <3> QED BY <1>1, <3>2, <3>3, <3>4
  <2> QED BY <1>3, <2>1, <2>2
<1>5. Tables(db)' /\ Tables(disk)'
  <2>1. Tables(db)'
    BY <1>2, <1>3, <1>4 DEF Tables, AnyTables, Executed
  <2>2. Tables(disk) /\ saved' = saved
    BY <1>2 DEF TypeInv, Executed
  <2>3. CASE disk' = disk
    <3>1. PICK x : x = disk
      OBVIOUS
    <3>2. /\ x \in [alerts : SUBSET Alert, summary : [Key -> Row]] /\ IsFiniteSet(x.alerts)
          /\ \A a \in x.alerts : a.id < saved
          /\ \A a, b \in x.alerts : a.id = b.id => a = b
      BY <2>2, <3>1 DEF Tables
    <3>3. disk' = x
      BY <2>3, <3>1
    <3>4. disk' \in [alerts : SUBSET Alert, summary : [Key -> Row]] /\ IsFiniteSet(disk'.alerts)
      BY <3>2, <3>3
    <3>5. \A a \in disk'.alerts : a.id < saved'
      BY <2>2, <3>2, <3>3
    <3>6. \A a, b \in disk'.alerts : a.id = b.id => a = b
      BY <3>2, <3>3
    <3> QED BY <2>1, <3>4, <3>5, <3>6 DEF Tables
  <2>4. CASE disk' = db'
    <3>1. disk'.alerts = db'.alerts /\ disk'.summary = db'.summary
      BY <2>4
    <3> QED BY <2>1, <2>4, <3>1 DEF Tables
  <2> QED BY <1>2, <2>1, <2>3, <2>4 DEF Executed
<1>6. prog' \in [Thread -> Programs]
  BY <1>2 DEF Executed, Moves, TypeInv
<1>7. raced' \in BOOLEAN /\ died' \in BOOLEAN /\ saved' \in 0 .. MaxAlerts
  BY <1>2 DEF Executed, Moves, TypeInv
<1>8. open' \in BOOLEAN
  BY DEF Execute, TypeInv
<1> QED BY <1>5, <1>6, <1>7, <1>8 DEF TypeInv

\* A statement leaves t no alert it did not have, and none to insert; an alert
\* that t has still to add to the summary is in the table or was left there.
LEMMA ExecuteWork ==
  ASSUME TypeInv, NEW t \in Thread, NEW q, Executed(t, q)
  PROVE  /\ Work(q) \subseteq Work(prog[t]) /\ Inserts(q) = {}
         /\ \A b \in db'.alerts : b \in db.alerts \/ Work(prog[t]) = {b}
         /\ \A a \in Work(q) :
              \/ a \in db'.alerts
              \/ a \in Work(prog[t]) /\ a \notin Inserts(prog[t]) /\ db'.alerts = db.alerts
<1>1. db \in AnyTables /\ IsFiniteSet(db.alerts)
  BY TablesTypes DEF TypeInv
<1>2. PICK p : p = prog[t]
  OBVIOUS
<1>3. CASE q = Tail(p) /\ \E a : AtInsert(p, a) /\ db' = Effect(db, Insert(a))
  <2>1. PICK a : AtInsert(p, a) /\ db' = Effect(db, Insert(a))
    BY <1>3
  <2>2. db'.alerts = db.alerts \cup {a}
    BY <1>1, <2>1, InsertEffect DEF AtInsert
  <2>3. Work(p) = {a} /\ Work(q) = {a} /\ Inserts(q) = {}
    BY <1>3, <2>1 DEF AtInsert, Plan, Work
  <2> QED BY <1>2, <2>2, <2>3
<1>4. CASE q = Tail(p) /\ \E a : AtForward(p, a) /\ db' = Effect(db, Upsert(a, "forward"))
  <2>1. PICK a : AtForward(p, a) /\ db' = Effect(db, Upsert(a, "forward"))
    BY <1>4
  <2>2. db'.alerts = db.alerts
    BY <1>1, <2>1, UpsertEffect DEF AtForward, Dir
  <2>3. Work(p) = {a} /\ Inserts(p) = {} /\ Work(q) = {a} /\ Inserts(q) = {}
    BY <1>4, <2>1 DEF AtForward, Plan, Work
  <2> QED BY <1>2, <2>2, <2>3
<1>5. CASE q = Tail(p) /\ \E a : AtReverse(p, a) /\ db' = Effect(db, Upsert(a, "reverse"))
  <2>1. PICK a : AtReverse(p, a) /\ db' = Effect(db, Upsert(a, "reverse"))
    BY <1>5
  <2>2. db'.alerts = db.alerts
    BY <1>1, <2>1, UpsertEffect DEF AtReverse, Dir
  <2>3. Work(q) = {} /\ Inserts(q) = {}
    BY <1>5, <2>1 DEF AtReverse, Idling, Plan, Work
  <2> QED BY <2>2, <2>3
<1>6. CASE db'.alerts \subseteq db.alerts /\ Work(q) = {} /\ Inserts(q) = {}
  BY <1>6
<1>7. CASE q = Tail(p) /\ \E sc : AtWipe(p, sc) /\ db' = Effect(db, Wipe(sc))
  <2>1. PICK sc : AtWipe(p, sc) /\ db' = Effect(db, Wipe(sc))
    BY <1>7
  <2>2. db'.alerts = db.alerts
    BY <1>1, <2>1, WipeEffect DEF AtWipe
  <2>3. Work(q) = {} /\ Inserts(q) = {}
    BY <1>7, <2>1 DEF AtWipe, Plan, Work
  <2> QED BY <1>6, <2>2, <2>3
<1>8. CASE q = Tail(p) /\ \E sc : AtRegroup(p, sc) /\ db' = Effect(db, Regroup(sc, "forward"))
  <2>1. PICK sc : AtRegroup(p, sc) /\ db' = Effect(db, Regroup(sc, "forward"))
    BY <1>8
  <2>2. db'.alerts = db.alerts
    BY <1>1, <2>1, RegroupEffect DEF AtRegroup
  <2>3. Work(q) = {} /\ Inserts(q) = {}
    BY <1>8, <2>1 DEF AtRegroup, Plan, Work
  <2> QED BY <1>6, <2>2, <2>3
<1>9. CASE q = Tail(p) /\ \E sc : AtLastRegroup(p, sc) /\ db' = Effect(db, Regroup(sc, "reverse"))
  <2>1. PICK sc : AtLastRegroup(p, sc) /\ db' = Effect(db, Regroup(sc, "reverse"))
    BY <1>9
  <2>2. db'.alerts = db.alerts
    BY <1>1, <2>1, RegroupEffect DEF AtLastRegroup
  <2>3. Work(q) = {} /\ Inserts(q) = {}
    BY <1>9, <2>1 DEF AtLastRegroup, Idling, Plan, Work
  <2> QED BY <1>6, <2>2, <2>3
<1>10. CASE /\ q = Tail(p) \/ q = <<Commit>>
            /\ \E st, sc : AtDelete(p, st, sc) /\ db' = Effect(db, st)
  <2>1. PICK st, sc : AtDelete(p, st, sc) /\ db' = Effect(db, st)
    BY <1>10
  <2>2. db'.alerts \subseteq db.alerts
    BY <1>1, <2>1, DeleteEffect DEF AtDelete
  <2>3. Work(q) = {} /\ Inserts(q) = {}
    BY <1>10, <2>1, EmptyProgram DEF AtDelete, Idling, Plan, Work
  <2> QED BY <1>6, <2>2, <2>3
<1> QED BY <1>2, <1>3, <1>4, <1>5, <1>7, <1>8, <1>9, <1>10 DEF Executed

\* The alerts being saved, after a step of t that starts no operation.
LEMMA SavingStep ==
  ASSUME TypeInv, SavingInv, NEW t, NEW q, Moves(t, q), saved' = saved,
         Work(q) \subseteq Work(prog[t]), Inserts(q) \subseteq Inserts(prog[t]),
         \A b \in db'.alerts : b \in db.alerts \/ (Work(prog[t]) = {b} /\ Inserts(q) = {})
  PROVE  SavingInv'
<1>1. t \in Thread /\ \A u \in Thread : prog'[u] = IF u = t THEN q ELSE prog[u]
  BY DEF Moves, TypeInv
<1>2. \A u \in Thread : /\ Work(prog'[u]) \subseteq Work(prog[u])
                        /\ Inserts(prog'[u]) \subseteq Inserts(prog[u])
  BY <1>1
<1>3. ASSUME NEW u \in Thread, NEW a \in Work(prog'[u])
      PROVE  /\ a.id < saved'
             /\ \A b \in db'.alerts : b.id = a.id => SameAlert(a, b)
             /\ a \in Inserts(prog'[u]) => \A b \in db'.alerts : b.id # a.id
             /\ \A v \in Thread : \A b \in Work(prog'[v]) : a.id = b.id => v = u
  <2>1. /\ a.id < saved
        /\ \A b \in db.alerts : b.id = a.id => SameAlert(a, b)
        /\ a \in Inserts(prog[u]) => \A b \in db.alerts : b.id # a.id
        /\ \A v \in Thread : \A b \in Work(prog[v]) : a.id = b.id => v = u
    BY <1>2 DEF SavingInv
  <2>2. ASSUME NEW b \in db'.alerts, b.id = a.id
        PROVE  SameAlert(a, b) /\ a \notin Inserts(prog'[u])
    <3>1. CASE b \in db.alerts
      BY <1>2, <2>1, <2>2, <3>1
    <3>2. CASE Work(prog[t]) = {b} /\ Inserts(q) = {}
      <4>1. u = t
        BY <1>1, <2>1, <2>2, <3>2
      <4>2. a = b
        BY <1>2, <3>2, <4>1
      <4> QED BY <1>1, <3>2, <4>1, <4>2 DEF SameAlert
    <3> QED BY <3>1, <3>2
  <2> QED BY <1>2, <2>1, <2>2
<1> QED BY <1>3 DEF SavingInv

\* A thread that works alone still does.
LEMMA AloneStep ==
  ASSUME TypeInv, AloneInv, NEW t, NEW q, Moves(t, q),
         raced \/ \A a \in Work(q) : a \in Inserts(q) \/ \E b \in db'.alerts : b.id = a.id
  PROVE  AloneInv'
<1>1. t \in Thread /\ \A u \in Thread : prog'[u] = IF u = t THEN q ELSE prog[u]
  BY DEF Moves, TypeInv
<1>2. raced' = raced /\ ~Idle(t)
  BY DEF Moves
<1>3. Work(<<>>) = {}
  BY EmptyProgram DEF Idling, Plan, Work
<1>4. ASSUME ~raced
      PROVE  /\ \A u \in Thread : u # t => prog'[u] = <<>>
             /\ \A a \in Work(q) : a \in Inserts(q) \/ \E b \in db'.alerts : b.id = a.id
  BY <1>1, <1>2, <1>4, OthersIdle DEF Idle
<1>5. ASSUME ~raced
      PROVE  \A u \in Thread : \A a \in Work(prog'[u]) :
               a \in Inserts(prog'[u]) \/ \E b \in db'.alerts : b.id = a.id
  BY <1>1, <1>3, <1>4, <1>5
<1>6. ASSUME ~raced
      PROVE  \A u, v \in Thread : prog'[u] = <<>> \/ prog'[v] = <<>> \/ u = v
  BY <1>4, <1>6
<1> QED BY <1>2, <1>5, <1>6 DEF AloneInv, Idle

\* What is committed while nothing is left to count covers the alerts with it.
LEMMA CommittedRows ==
  ASSUME TypeInv, AloneInv, SummaryInv', NEW t, NEW q, Moves(t, q),
         \A id : \A d \in Dir : ~PendingIn(q, id, d),
         \A k : \A d \in Dir : ~OwesIn(q, k, d),
         disk'.alerts = db'.alerts, disk'.summary = db'.summary
  PROVE  DiskInv'
<1>1. raced' = raced
  BY DEF Moves
<1>2. ASSUME ~raced, NEW k \in Key
      PROVE  Covers(disk'.summary[k], Hits(disk'.alerts, k, "forward"),
                                      Hits(disk'.alerts, k, "reverse"))
  <2>1. /\ \A id : \A d \in Dir : ~Pending(prog', id, d)
        /\ \A d \in Dir : ~Owes(prog', k, d)
    BY <1>2, OthersIdle, Shift DEF Moves
  <2>2. \A d \in Dir : Due(prog', db'.alerts, k, d) = Hits(db'.alerts, k, d)
    BY <2>1 DEF Due, Hits
  <2>3. Covers(db'.summary[k], Due(prog', db'.alerts, k, "forward"),
                               Due(prog', db'.alerts, k, "reverse"))
    BY <1>1, <1>2 DEF SummaryInv, CoversInv
  <2> QED BY <2>2, <2>3 DEF Dir
<1> QED BY <1>1, <1>2 DEF DiskInv

\* Nothing is committed.
LEMMA DiskUnchanged ==
  ASSUME DiskInv, disk' = disk, raced => raced'
  PROVE  DiskInv'
<1>1. disk'.alerts = disk.alerts /\ disk'.summary = disk.summary
  OBVIOUS
<1> QED BY <1>1 DEF DiskInv

\* A statement of any thread, whatever the others have left to do.
LEMMA ExecuteInv ==
  ASSUME IInv, NEW t \in Thread, Execute(t)
  PROVE  IInv'
<1>1. TypeInv /\ SavingInv /\ AloneInv /\ SummaryInv /\ DiskInv
  BY DEF IInv
<1>2. PICK q \in Programs : Executed(t, q)
  BY <1>1, ExecuteCases
<1>3. Moves(t, q) /\ saved' = saved
  BY <1>2 DEF Executed
<1>4. TypeInv'
  BY <1>1, ExecuteTypes
<1>5. SavingInv'
  <2>1. /\ Work(q) \subseteq Work(prog[t]) /\ Inserts(q) = {}
        /\ \A b \in db'.alerts : b \in db.alerts \/ Work(prog[t]) = {b}
    BY <1>1, <1>2, ExecuteWork
  <2> QED BY <1>1, <1>3, <2>1, SavingStep
<1>6. AloneInv'
  <2>1. \A a \in Work(q) :
          \/ a \in db'.alerts
          \/ a \in Work(prog[t]) /\ a \notin Inserts(prog[t]) /\ db'.alerts = db.alerts
    BY <1>1, <1>2, ExecuteWork
  <2>2. raced \/ \A a \in Work(prog[t]) :
          a \in Inserts(prog[t]) \/ \E b \in db.alerts : b.id = a.id
    BY <1>1 DEF AloneInv
  <2>3. raced \/ \A a \in Work(q) : \E b \in db'.alerts : b.id = a.id
    BY <2>1, <2>2
  <2> QED BY <1>1, <1>3, <2>3, AloneStep
<1>7. SummaryInv'
  <2>1. CASE q = Tail(prog[t]) /\ \E a : AtInsert(prog[t], a) /\ db' = Effect(db, Insert(a))
    BY <1>1, <1>3, <2>1, SummaryInsert
  <2>2. CASE /\ q = Tail(prog[t])
             /\ \E a : AtForward(prog[t], a) /\ db' = Effect(db, Upsert(a, "forward"))
    <3>1. PICK a : AtForward(prog[t], a) /\ db' = Effect(db, Upsert(a, "forward"))
      BY <2>2
    <3>2. "forward" \in Dir /\ Moves(t, Tail(prog[t]))
      BY <1>3, <2>2 DEF Dir
    <3> QED BY <1>1, <3>1, <3>2, SummaryUpsert
  <2>3. CASE /\ q = Tail(prog[t])
             /\ \E a : AtReverse(prog[t], a) /\ db' = Effect(db, Upsert(a, "reverse"))
    <3>1. PICK a : AtReverse(prog[t], a) /\ db' = Effect(db, Upsert(a, "reverse"))
      BY <2>3
    <3>2. "reverse" \in Dir /\ Moves(t, Tail(prog[t]))
      BY <1>3, <2>3 DEF Dir
    <3> QED BY <1>1, <3>1, <3>2, SummaryUpsert
  <2>4. CASE q = Tail(prog[t]) /\ \E sc : AtWipe(prog[t], sc) /\ db' = Effect(db, Wipe(sc))
    BY <1>1, <1>3, <2>4, SummaryWipe
  <2>5. CASE /\ q = Tail(prog[t])
             /\ \E sc : AtRegroup(prog[t], sc) /\ db' = Effect(db, Regroup(sc, "forward"))
    <3>1. PICK sc : AtRegroup(prog[t], sc) /\ db' = Effect(db, Regroup(sc, "forward"))
      BY <2>5
    <3>2. "forward" \in Dir /\ Moves(t, Tail(prog[t]))
      BY <1>3, <2>5 DEF Dir
    <3> QED BY <1>1, <3>1, <3>2, SummaryRegroup
  <2>6. CASE /\ q = Tail(prog[t])
             /\ \E sc : AtLastRegroup(prog[t], sc) /\ db' = Effect(db, Regroup(sc, "reverse"))
    <3>1. PICK sc : AtLastRegroup(prog[t], sc) /\ db' = Effect(db, Regroup(sc, "reverse"))
      BY <2>6
    <3>2. "reverse" \in Dir /\ Moves(t, Tail(prog[t]))
      BY <1>3, <2>6 DEF Dir
    <3> QED BY <1>1, <3>1, <3>2, SummaryRegroup
  <2>7. CASE /\ q = Tail(prog[t]) \/ (q = <<Commit>> /\ db'.alerts = db.alerts)
             /\ \E st, sc : AtDelete(prog[t], st, sc) /\ db' = Effect(db, st)
    <3>1. PICK st, sc : AtDelete(prog[t], st, sc) /\ db' = Effect(db, st)
      BY <2>7
    <3> QED BY <1>1, <1>3, <2>7, <3>1, SummaryDelete
  <2> QED BY <1>2, <2>1, <2>2, <2>3, <2>4, <2>5, <2>6, <2>7 DEF Executed
<1>8. DiskInv'
  <2>1. CASE disk' = disk
    BY <1>1, <1>3, <2>1, DiskUnchanged DEF Moves
  <2>2. CASE disk' = db' /\ \E a : AtReverse(prog[t], a)
    <3>1. PICK a : AtReverse(prog[t], a)
      BY <2>2
    <3>2. Idling(q)
      <4>1. Head(prog[t]) # Commit /\ Deletes(prog[t]) = FALSE
        BY <3>1, Distinct DEF AtReverse, Plan
      <4>2. q = Tail(prog[t]) \/ q = <<Commit>>
        BY <1>2 DEF Executed
      <4> QED BY <3>1, <4>2, EmptyProgram DEF AtReverse
    <3>3. /\ \A id : \A d \in Dir : ~PendingIn(q, id, d)
          /\ \A k : \A d \in Dir : ~OwesIn(q, k, d)
      BY <3>2 DEF Idling, Plan, Dir, PendingIn, OwesIn
    <3>4. disk'.alerts = db'.alerts /\ disk'.summary = db'.summary
      BY <2>2
    <3> QED BY <1>1, <1>3, <1>7, <3>3, <3>4, CommittedRows
  <2> QED BY <1>2, <2>1, <2>2 DEF Executed
<1> QED BY <1>4, <1>5, <1>6, <1>7, <1>8 DEF IInv

\* A commit by any thread commits what all of them have written.
LEMMA CommitInv ==
  ASSUME IInv, NEW t \in Thread, CommitAll(t)
  PROVE  IInv'
<1>1. TypeInv /\ SavingInv /\ AloneInv /\ SummaryInv /\ DiskInv
  BY DEF IInv
<1>2. PICK p, q : p = prog[t] /\ q = Tail(p)
  OBVIOUS
<1>3. /\ prog' = [prog EXCEPT ![t] = q] /\ disk' = db /\ db' = db /\ open' = FALSE
      /\ UNCHANGED <<saved, raced, died>> /\ ~Idle(t) /\ Head(p) = Commit
  BY <1>2 DEF CommitAll, history
<1>4. Moves(t, q)
  BY <1>3 DEF Moves
<1>5. p \in Programs /\ p # <<>>
  BY <1>2, <1>3 DEF TypeInv, IInv, Idle
<1>6. q \in Programs /\ AtCommit(p)
  <2>1. /\ Tail(p) \in Programs
        /\ \/ \E a : AtInsert(p, a) \/ AtForward(p, a) \/ AtReverse(p, a)
           \/ \E st, sc : AtDelete(p, st, sc)
           \/ AtCommit(p)
           \/ \E sc : AtWipe(p, sc) \/ AtRegroup(p, sc) \/ AtLastRegroup(p, sc)
    BY <1>5, Steps
  <2>2. \A a : ~AtInsert(p, a) /\ ~AtForward(p, a) /\ ~AtReverse(p, a)
    BY <1>3, Distinct DEF AtInsert, AtForward, AtReverse
  <2>3. \A st, sc : ~AtDelete(p, st, sc)
    BY <1>3, Distinct DEF AtDelete
  <2>4. \A sc : ~AtWipe(p, sc) /\ ~AtRegroup(p, sc) /\ ~AtLastRegroup(p, sc)
    BY <1>3, Distinct DEF AtWipe, AtRegroup, AtLastRegroup
  <2> QED BY <1>2, <2>1, <2>2, <2>3, <2>4
<1>7. PICK sc : Plan(p, {}, {}, {}, sc, sc, sc, FALSE) /\ Plan(q, {}, {}, {}, sc, sc, sc, FALSE)
  BY <1>2, <1>6 DEF AtCommit, Idling
<1>8. PICK x : x = db
  OBVIOUS
<1>9. TypeInv'
  <2>1. /\ x \in [alerts : SUBSET Alert, summary : [Key -> Row]] /\ IsFiniteSet(x.alerts)
        /\ \A a \in x.alerts : a.id < saved
        /\ \A a, b \in x.alerts : a.id = b.id => a = b
    BY <1>1, <1>8 DEF TypeInv, Tables
  <2>2. db' = x /\ disk' = x /\ saved' = saved
    BY <1>3, <1>8
  <2>3. Tables(db)'
    BY <2>1, <2>2 DEF Tables
  <2>4. Tables(disk)'
    BY <2>1, <2>2 DEF Tables
  <2>5. prog' \in [Thread -> Programs]
    BY <1>1, <1>3, <1>6 DEF TypeInv
  <2>6. /\ open' \in BOOLEAN /\ raced' \in BOOLEAN /\ died' \in BOOLEAN
        /\ saved' \in 0 .. MaxAlerts
    BY <1>1, <1>3 DEF TypeInv
  <2> QED BY <2>3, <2>4, <2>5, <2>6 DEF TypeInv
<1>10. Work(q) = {} /\ Inserts(q) = {} /\ db'.alerts = db.alerts
  BY <1>3, <1>7 DEF Plan, Work
<1>11. SavingInv'
  <2>1. saved' = saved /\ Work(q) \subseteq Work(prog[t]) /\ Inserts(q) \subseteq Inserts(prog[t])
    BY <1>3, <1>10
  <2>2. \A b \in db'.alerts : b \in db.alerts \/ (Work(prog[t]) = {b} /\ Inserts(q) = {})
    BY <1>10
  <2> QED BY <1>1, <1>4, <2>1, <2>2, SavingStep
<1>12. AloneInv'
  BY <1>1, <1>4, <1>10, AloneStep
<1>13. SummaryInv'
  BY <1>1, <1>2, <1>3, <1>4, <1>6, SummaryCommit
<1>14. DiskInv'
  <2>1. /\ \A id : \A d \in Dir : ~PendingIn(q, id, d)
        /\ \A k : \A d \in Dir : ~OwesIn(q, k, d)
    BY <1>7 DEF Plan, Dir, PendingIn, OwesIn
  <2>2. disk'.alerts = db'.alerts /\ disk'.summary = db'.summary
    BY <1>3
  <2> QED BY <1>1, <1>4, <1>13, <2>1, <2>2, CommittedRows
<1> QED BY <1>9, <1>11, <1>12, <1>13, <1>14 DEF IInv

\* The tables keep their type while more ids are given out.
LEMMA SavedGrows ==
  ASSUME TypeInv, db' = db, disk' = disk, saved' \in saved .. MaxAlerts
  PROVE  Tables(db)' /\ Tables(disk)'
<1>1. PICK x, y, n, m : x = db /\ y = disk /\ n = saved /\ m = saved'
  OBVIOUS
<1>2. /\ x \in [alerts : SUBSET Alert, summary : [Key -> Row]] /\ IsFiniteSet(x.alerts)
      /\ y \in [alerts : SUBSET Alert, summary : [Key -> Row]] /\ IsFiniteSet(y.alerts)
      /\ \A a \in x.alerts : a.id < n
      /\ \A a \in y.alerts : a.id < n
      /\ \A a, b \in x.alerts : a.id = b.id => a = b
      /\ \A a, b \in y.alerts : a.id = b.id => a = b
  BY <1>1 DEF TypeInv, Tables
<1>3. n \in Nat /\ m \in Nat /\ n <= m
  BY <1>1, RiskAssumption DEF TypeInv
<1>4. /\ \A a \in x.alerts : a.id < m
      /\ \A a \in y.alerts : a.id < m
  <2>1. \A a \in Alert : a.id \in Nat
    BY AlertTypes
  <2>2. x.alerts \in SUBSET Alert /\ y.alerts \in SUBSET Alert
    BY <1>2
  <2> QED BY <1>2, <1>3, <2>1, <2>2
<1>5. db' = x /\ disk' = y /\ saved' = m
  BY <1>1
<1>6. Tables(db)'
  BY <1>2, <1>4, <1>5 DEF Tables
<1>7. Tables(disk)'
  BY <1>2, <1>4, <1>5 DEF Tables
<1> QED BY <1>6, <1>7

\* A thread starts an operation: it saves an alert with a new id, or it deletes
\* and rebuilds, or it only commits.
LEMMA StartInv ==
  ASSUME IInv, NEW t \in Thread, NEW q \in Programs, Start(t, q), saved' \in saved .. MaxAlerts,
         \/ \E a \in Alert : /\ Plan(q, {a}, {a}, {a}, {}, {}, {}, FALSE)
                             /\ a.id = saved /\ saved' = saved + 1
         \/ \E sc : Plan(q, {}, {}, {}, sc, sc, sc, TRUE)
         \/ Idling(q)
  PROVE  IInv'
<1>1. TypeInv /\ SavingInv /\ AloneInv /\ SummaryInv /\ DiskInv
  BY DEF IInv
<1>2. /\ prog[t] = <<>> /\ \A u \in Thread : prog'[u] = IF u = t THEN q ELSE prog[u]
      /\ raced' = (raced \/ \E u \in Thread : ~Idle(u))
      /\ db' = db /\ disk' = disk /\ open' = open /\ died' = died
  BY <1>1 DEF Start, Idle, TypeInv
<1>3. saved \in Nat /\ saved' \in Nat /\ saved <= saved'
  BY <1>1, RiskAssumption DEF TypeInv
<1>4. /\ \A b \in db.alerts : b.id < saved /\ b.id \in Nat
      /\ \A u \in Thread : \A b \in Work(prog[u]) : b.id < saved /\ b.id \in Nat
  <2>1. db.alerts \in SUBSET Alert /\ \A b \in db.alerts : b.id < saved
    BY <1>1, TablesTypes DEF TypeInv, Tables
  <2>2. \A u \in Thread : \A b \in Work(prog[u]) : b.id < saved /\ b \in Alert
    BY <1>1 DEF SavingInv, Work, Inserts, Upserts
  <2> QED BY <2>1, <2>2, AlertTypes
<1>5. TypeInv'
  <2>1. Tables(db)' /\ Tables(disk)'
    BY <1>1, <1>2, SavedGrows
  <2>2. prog' \in [Thread -> Programs]
    BY <1>1 DEF Start, TypeInv
  <2>3. open' \in BOOLEAN /\ raced' \in BOOLEAN /\ died' \in BOOLEAN
    BY <1>1, <1>2 DEF TypeInv
  <2>4. saved' \in 0 .. MaxAlerts
    BY <1>1, <1>3 DEF TypeInv
  <2> QED BY <2>1, <2>2, <2>3, <2>4 DEF TypeInv
<1>6. \/ \E a \in Alert : /\ Inserts(q) = {a} /\ Work(q) = {a}
                          /\ a.id = saved /\ saved' = saved + 1
      \/ Work(q) = {}
  BY DEF Plan, Idling, Work
<1>7. SavingInv'
  <2>1. CASE Work(q) = {}
    <3>1. \A u \in Thread : /\ Work(prog'[u]) \subseteq Work(prog[u])
                            /\ prog'[u] = prog[u] \/ Work(prog'[u]) = {}
      BY <1>2, <2>1
    <3>2. ASSUME NEW u \in Thread, NEW a \in Work(prog'[u])
          PROVE  /\ a.id < saved'
                 /\ \A b \in db'.alerts : b.id = a.id => SameAlert(a, b)
                 /\ a \in Inserts(prog'[u]) => \A b \in db'.alerts : b.id # a.id
                 /\ \A v \in Thread : \A b \in Work(prog'[v]) : a.id = b.id => v = u
      <4>1. prog'[u] = prog[u] /\ a \in Work(prog[u])
        BY <3>1
      <4>2. a.id < saved'
        BY <1>3, <1>4, <4>1
      <4>3. db'.alerts = db.alerts
        BY <1>2
      <4> QED BY <1>1, <3>1, <4>1, <4>2, <4>3 DEF SavingInv
    <3> QED BY <3>2 DEF SavingInv
  <2>2. CASE \E a \in Alert : /\ Inserts(q) = {a} /\ Work(q) = {a}
                              /\ a.id = saved /\ saved' = saved + 1
    <3>1. PICK c \in Alert : /\ Inserts(q) = {c} /\ Work(q) = {c}
                             /\ c.id = saved /\ saved' = saved + 1
      BY <2>2
    <3>2. ASSUME NEW u \in Thread, NEW a \in Work(prog'[u])
          PROVE  /\ a.id < saved'
                 /\ \A b \in db'.alerts : b.id = a.id => SameAlert(a, b)
                 /\ a \in Inserts(prog'[u]) => \A b \in db'.alerts : b.id # a.id
                 /\ \A v \in Thread : \A b \in Work(prog'[v]) : a.id = b.id => v = u
      <4>1. db'.alerts = db.alerts
        BY <1>2
      <4>2. CASE u = t
        <5>1. a = c
          BY <1>2, <3>1, <4>2
        <5>2. \A b \in db.alerts : b.id # a.id
          BY <1>3, <1>4, <3>1, <5>1
        <5>3. \A v \in Thread : \A b \in Work(prog'[v]) : a.id = b.id => v = u
          BY <1>2, <1>3, <1>4, <3>1, <4>2, <5>1
        <5>4. a.id < saved'
          BY <1>3, <3>1, <5>1
        <5> QED BY <4>1, <5>2, <5>3, <5>4
      <4>3. CASE u # t
        <5>1. prog'[u] = prog[u] /\ a \in Work(prog[u])
          BY <1>2, <4>3
        <5>2. a.id < saved' /\ a.id # saved
          BY <1>3, <1>4, <5>1
        <5>3. /\ \A b \in db.alerts : b.id = a.id => SameAlert(a, b)
              /\ a \in Inserts(prog[u]) => \A b \in db.alerts : b.id # a.id
              /\ \A v \in Thread : \A b \in Work(prog[v]) : a.id = b.id => v = u
          BY <1>1, <5>1 DEF SavingInv
        <5>4. \A v \in Thread : \A b \in Work(prog'[v]) : a.id = b.id => v = u
          BY <1>2, <3>1, <5>2, <5>3
        <5> QED BY <4>1, <5>1, <5>2, <5>3, <5>4
      <4> QED BY <4>2, <4>3
    <3> QED BY <3>2 DEF SavingInv
  <2> QED BY <1>6, <2>1, <2>2
<1>8. AloneInv'
  <2>1. ASSUME ~raced'
        PROVE  \A u \in Thread : u # t => prog'[u] = <<>>
    BY <1>2, <2>1 DEF Idle
  <2>2. Work(<<>>) = {}
    BY EmptyProgram DEF Idling, Plan, Work
  <2>3. ASSUME ~raced'
        PROVE  \A u \in Thread : \A a \in Work(prog'[u]) : a \in Inserts(prog'[u])
    BY <1>2, <1>6, <2>1, <2>2, <2>3
  <2>4. ASSUME ~raced'
        PROVE  \A u, v \in Thread : prog'[u] = <<>> \/ prog'[v] = <<>> \/ u = v
    BY <2>1, <2>4
  <2> QED BY <2>3, <2>4 DEF AloneInv, Idle
<1>9. SummaryInv'
  <2>1. ASSUME NEW a \in Alert, a.id = saved
        PROVE  \A b \in db.alerts : b.id # a.id
    BY <1>3, <1>4, <2>1
  <2>2. \/ \E a \in Alert : /\ Plan(q, {a}, {a}, {a}, {}, {}, {}, FALSE)
                            /\ \A b \in db.alerts : b.id # a.id
        \/ \E sc : Plan(q, {}, {}, {}, sc, sc, sc, TRUE)
        \/ Idling(q)
    BY <2>1
  <2> QED BY <1>1, <2>2, SummaryStart
<1>10. DiskInv'
  BY <1>1, <1>2, DiskUnchanged
<1> QED BY <1>5, <1>7, <1>8, <1>9, <1>10 DEF IInv

\* The worker or the import starts to save an alert.
LEMMA SaveInv ==
  ASSUME IInv, NEW t \in {"worker", "import"}, NEW f \in Flows, NEW r \in Ranks, Save(t, f, r)
  PROVE  IInv'
<1> DEFINE a == [id |-> saved, flow |-> f, rank |-> r, expired |-> FALSE,
                 source |-> IF t = "worker" THEN "live" ELSE "offline"]
           c == t = "worker"
<1>1. saved \in 0 .. MaxAlerts /\ saved < MaxAlerts /\ saved' = saved + 1 /\ MaxAlerts \in Nat
  BY RiskAssumption DEF IInv, TypeInv, Save
<1>2. a \in Alert /\ a.id = saved
  BY <1>1 DEF Alert, Source
<1>3. Start(t, SaveAlert(a, c)) /\ t \in Thread /\ c \in BOOLEAN
  BY DEF Save, Thread
<1>4. saved' \in saved .. MaxAlerts
  BY <1>1
<1> HIDE DEF a, c
<1>5. SaveAlert(a, c) \in Programs /\ Plan(SaveAlert(a, c), {a}, {a}, {a}, {}, {}, {}, FALSE)
  BY <1>2, <1>3, Operations
<1>6. PICK q \in Programs : q = SaveAlert(a, c)
  BY <1>5
<1>7. \E b \in Alert : /\ Plan(q, {b}, {b}, {b}, {}, {}, {}, FALSE)
                       /\ b.id = saved /\ saved' = saved + 1
  BY <1>1, <1>2, <1>5, <1>6
<1> QED BY <1>3, <1>4, <1>6, <1>7, StartInv

\* A flush, the reset of a source or the cleanup of expired alerts starts.
LEMMA OtherStartsInv ==
  ASSUME IInv,
         \/ Flush \/ Retire
         \/ \E t \in {"ui", "import"}, s \in Source : Clear(t, s)
  PROVE  IInv'
<1>1. saved' = saved
  BY DEF Flush, Retire, Clear
<1>2. saved' \in saved .. MaxAlerts
  BY <1>1, RiskAssumption DEF IInv, TypeInv
<1>3. CASE Flush
  <2>1. "import" \in Thread /\ Start("import", <<Commit>>)
    BY <1>3 DEF Thread, Flush
  <2> QED BY <1>2, <2>1, Operations, StartInv
<1>4. CASE Retire
  <2>1. "worker" \in Thread /\ Start("worker", Cleanup)
    BY <1>4 DEF Thread, Retire
  <2>2. Cleanup \in Programs /\ Plan(Cleanup, {}, {}, {}, Source, Source, Source, TRUE)
    BY Operations
  <2> QED BY <1>2, <2>1, <2>2, StartInv
<1>5. CASE \E t \in {"ui", "import"}, s \in Source : Clear(t, s)
  <2>1. \E t \in Thread : \E s \in Source : Start(t, ClearSource(s))
    BY <1>5 DEF Thread, Clear
  <2>2. PICK t \in Thread : \E s \in Source : Start(t, ClearSource(s))
    BY <2>1
  <2>3. PICK s \in Source : Start(t, ClearSource(s))
    BY <2>2
  <2>4. /\ ClearSource(s) \in Programs
        /\ Plan(ClearSource(s), {}, {}, {}, {s}, {s}, {s}, TRUE)
    BY Operations
  <2> QED BY <1>2, <2>3, <2>4, StartInv
<1> QED BY <1>3, <1>4, <1>5

\* The retention period passes for everything stored.
LEMMA TimePassesInv ==
  ASSUME IInv, TimePasses
  PROVE  IInv'
<1>1. TypeInv /\ SavingInv /\ AloneInv /\ SummaryInv /\ DiskInv
  BY DEF IInv
<1>2. SummaryInv' /\ DiskInv'
  BY <1>1, SummaryTimePasses
<1>3. /\ db' = [db EXCEPT !.alerts = {[a EXCEPT !.expired = TRUE] : a \in @}]
      /\ disk' = [disk EXCEPT !.alerts = {[a EXCEPT !.expired = TRUE] : a \in @}]
      /\ UNCHANGED <<open, prog, saved, raced, died>>
  BY DEF TimePasses, history
<1>4. PICK x, y : x = db' /\ y = disk'
  OBVIOUS
<1>5. Tables(x) /\ Tables(y) /\ x.alerts = Older(db.alerts)
  BY <1>1, <1>3, <1>4, TablesOlder DEF TypeInv
<1>6. TypeInv'
  <2>1. Tables(db)'
    BY <1>3, <1>4, <1>5 DEF Tables
  <2>2. Tables(disk)'
    BY <1>3, <1>4, <1>5 DEF Tables
  <2> QED BY <1>1, <1>3, <2>1, <2>2 DEF TypeInv
<1>7. /\ \A b \in db'.alerts : \E c \in db.alerts : b.id = c.id /\ SameAlert(b, c)
      /\ \A c \in db.alerts : \E b \in db'.alerts : b.id = c.id /\ SameAlert(b, c)
  BY <1>1, <1>4, <1>5, OlderFacts DEF TypeInv, Tables
<1>8. SavingInv'
  <2>1. ASSUME NEW t \in Thread, NEW a \in Work(prog[t])
        PROVE  /\ a.id < saved'
               /\ \A b \in db'.alerts : b.id = a.id => SameAlert(a, b)
               /\ a \in Inserts(prog[t]) => \A b \in db'.alerts : b.id # a.id
               /\ \A u \in Thread : \A b \in Work(prog[u]) : a.id = b.id => u = t
    <3>1. /\ a.id < saved
          /\ \A b \in db.alerts : b.id = a.id => SameAlert(a, b)
          /\ a \in Inserts(prog[t]) => \A b \in db.alerts : b.id # a.id
          /\ \A u \in Thread : \A b \in Work(prog[u]) : a.id = b.id => u = t
      BY <1>1 DEF SavingInv
    <3>2. \A b \in db'.alerts : b.id = a.id => SameAlert(a, b)
      BY <1>7, <3>1 DEF SameAlert
    <3>3. a \in Inserts(prog[t]) => \A b \in db'.alerts : b.id # a.id
      BY <1>7, <3>1
    <3> QED BY <1>3, <3>1, <3>2, <3>3
  <2> QED BY <1>3, <2>1 DEF SavingInv
<1>9. AloneInv'
  <2>1. ASSUME ~raced
        PROVE  /\ \A t, u \in Thread : prog[t] = <<>> \/ prog[u] = <<>> \/ t = u
               /\ \A t \in Thread : \A a \in Work(prog[t]) :
                     a \in Inserts(prog[t]) \/ \E b \in db.alerts : b.id = a.id
    BY <1>1, <2>1 DEF AloneInv, Idle
  <2>2. ASSUME ~raced
        PROVE  \A t \in Thread : \A a \in Work(prog[t]) :
                 a \in Inserts(prog[t]) \/ \E b \in db'.alerts : b.id = a.id
    BY <1>7, <2>1, <2>2
  <2>3. prog' = prog /\ raced' = raced
    BY <1>3
  <2> QED BY <2>1, <2>2, <2>3 DEF AloneInv, Idle
<1> QED BY <1>2, <1>6, <1>8, <1>9 DEF IInv

\* The process starts again with the committed tables and, if no summary row
\* was committed, with the summary rebuilt from them.
LEMMA RestartInv ==
  ASSUME IInv, Restart
  PROVE  IInv'
<1>1. TypeInv /\ DiskInv
  BY DEF IInv
<1>2. PICK x : x = disk
  OBVIOUS
<1>3. /\ x \in AnyTables /\ x.alerts \in SUBSET Alert /\ IsFiniteSet(x.alerts)
      /\ \A a \in x.alerts : a.id < saved
      /\ \A a, b \in x.alerts : a.id = b.id => a = b
  BY <1>1, <1>2 DEF TypeInv, Tables, AnyTables
<1>4. PICK y : y = IF x.summary = NoRows THEN [x EXCEPT !.summary = Derived(x.alerts)] ELSE x
  OBVIOUS
<1>5. /\ db' = y /\ disk' = y /\ open' = FALSE /\ died' = TRUE /\ UNCHANGED <<saved, raced>>
      /\ prog' = [t \in Thread |-> <<>>]
  BY <1>2, <1>4 DEF Restart
<1>6. /\ y.alerts = x.alerts /\ y \in AnyTables
      /\ y.summary = Derived(x.alerts) \/ y.summary = x.summary
  BY <1>3, <1>4, DerivedRows DEF AnyTables
<1>7. TypeInv'
  <2>1. Tables(db)'
    BY <1>3, <1>5, <1>6 DEF Tables, AnyTables
  <2>2. Tables(disk)'
    BY <1>3, <1>5, <1>6 DEF Tables, AnyTables
  <2>3. prog' \in [Thread -> Programs]
    BY <1>5, ProgramKinds
  <2>4. /\ open' \in BOOLEAN /\ raced' \in BOOLEAN /\ died' \in BOOLEAN
        /\ saved' \in 0 .. MaxAlerts
    BY <1>1, <1>5 DEF TypeInv
  <2> QED BY <2>1, <2>2, <2>3, <2>4 DEF TypeInv
<1>8. /\ \A t \in Thread : prog'[t] = <<>>
      /\ Work(<<>>) = {}
  BY <1>5, EmptyProgram DEF Idling, Plan, Work
<1>9. SavingInv'
  BY <1>8 DEF SavingInv
<1>10. AloneInv'
  BY <1>8 DEF AloneInv, Idle
<1>11. ASSUME ~raced, NEW k \in Key
       PROVE  Covers(y.summary[k], Hits(y.alerts, k, "forward"), Hits(y.alerts, k, "reverse"))
  <2>1. CASE y.summary = Derived(x.alerts)
    BY <1>3, <1>6, <2>1, DerivedRows
  <2>2. CASE y.summary = x.summary
    BY <1>1, <1>2, <1>6, <1>11, <2>2 DEF DiskInv
  <2> QED BY <1>6, <2>1, <2>2
<1>12. DiskInv'
  BY <1>5, <1>11 DEF DiskInv
<1>13. SummaryInv'
  <2>1. /\ \A id : \A d \in Dir : ~Pending(prog', id, d)
        /\ \A k : \A d \in Dir : ~Owes(prog', k, d)
    BY <1>8, EmptyProgram DEF Idling, Plan, Dir, Pending, PendingIn, Owes, OwesIn
  <2>2. \A k : \A d \in Dir : Due(prog', db'.alerts, k, d) = Hits(db'.alerts, k, d)
    BY <2>1 DEF Due, Hits
  <2>3. CoversInv'
    BY <1>5, <1>11, <2>2 DEF CoversInv, Dir
  <2>4. ExactInv'
    BY <1>5 DEF ExactInv
  <2> QED BY <2>3, <2>4 DEF SummaryInv
<1> QED BY <1>7, <1>9, <1>10, <1>12, <1>13 DEF IInv

-------------------------------------------------------------------------------
(* The theorems *)

\* The empty database satisfies the invariant.
LEMMA InitIInv ==
  ASSUME Init
  PROVE  IInv
<1>1. /\ db.alerts = {} /\ db.summary = NoRows /\ disk.alerts = {} /\ disk.summary = NoRows
      /\ open = FALSE /\ raced = FALSE /\ died = FALSE /\ saved = 0
      /\ db = [alerts |-> {}, summary |-> NoRows] /\ disk = db
      /\ prog = [t \in Thread |-> <<>>] /\ \A t \in Thread : prog[t] = <<>>
  BY DEF Init
<1>2. NoRows \in [Key -> Row] /\ \A k \in Key : NoRows[k].rank = 0 /\ NoRows[k].count = 0
  BY DEF NoRows, Nothing, Row
<1>3. IsFiniteSet({}) /\ Cardinality({}) = 0
  BY FS_EmptySet
<1>4. Tables(db) /\ Tables(disk)
  BY <1>1, <1>2, <1>3 DEF Tables
<1>5. TypeInv
  <2>1. prog \in [Thread -> Programs]
    BY <1>1, ProgramKinds
  <2>2. saved \in 0 .. MaxAlerts
    BY <1>1, RiskAssumption
  <2> QED BY <1>1, <1>4, <2>1, <2>2 DEF TypeInv
<1>6. Work(<<>>) = {}
  BY EmptyProgram DEF Idling, Plan, Work
<1>7. SavingInv
  BY <1>1, <1>6 DEF SavingInv
<1>8. AloneInv
  BY <1>1, <1>6 DEF AloneInv, Idle
<1>9. \A k, d : Hits({}, k, d) = {} /\ Due(prog, {}, k, d) = {}
  BY DEF Hits, Due
<1>10. \A k \in Key : Covers(NoRows[k], {}, {}) /\ Exactly(NoRows[k], {}, {})
  BY <1>2, <1>3 DEF Covers, Exactly
<1>11. CoversInv /\ ExactInv /\ DiskInv
  BY <1>1, <1>9, <1>10 DEF CoversInv, ExactInv, DiskInv
<1> QED BY <1>5, <1>7, <1>8, <1>11 DEF IInv, SummaryInv

\* Every step keeps the invariant.
LEMMA NextIInv ==
  ASSUME IInv, [Next]_vars
  PROVE  IInv'
<1>1. CASE \E t \in {"worker", "import"}, f \in Flows, r \in Ranks : Save(t, f, r)
  BY <1>1, SaveInv
<1>2. CASE Flush \/ Retire \/ \E t \in {"ui", "import"}, s \in Source : Clear(t, s)
  BY <1>2, OtherStartsInv
<1>3. CASE \E t \in Thread : Execute(t)
  BY <1>3, ExecuteInv
<1>4. CASE \E t \in Thread : CommitAll(t)
  BY <1>4, CommitInv
<1>5. CASE TimePasses
  BY <1>5, TimePassesInv
<1>6. CASE Restart
  BY <1>6, RestartInv
<1>7. CASE UNCHANGED vars
  <2>1. /\ db' = db /\ disk' = disk /\ open' = open /\ prog' = prog /\ saved' = saved
        /\ raced' = raced /\ died' = died
    BY <1>7 DEF vars, history
  <2>2. TypeInv'
    BY <2>1 DEF IInv, TypeInv, Tables
  <2>3. SavingInv'
    BY <2>1 DEF IInv, SavingInv
  <2>4. AloneInv'
    BY <2>1 DEF IInv, AloneInv, Idle
  <2>5. CoversInv' /\ ExactInv'
    BY <2>1 DEF IInv, SummaryInv, CoversInv, ExactInv
  <2>6. DiskInv'
    BY <2>1 DEF IInv, DiskInv
  <2> QED BY <2>2, <2>3, <2>4, <2>5, <2>6 DEF IInv, SummaryInv
<1> QED BY <1>1, <1>2, <1>3, <1>4, <1>5, <1>6, <1>7 DEF Next

\* When every thread is idle no row owes anything.
LEMMA QuietRows ==
  ASSUME IInv, Quiet, NEW k \in Key
  PROVE  /\ ~Stale(prog, k)
         /\ \A d \in Dir : Due(prog, db.alerts, k, d) = Hits(db.alerts, k, d)
<1>1. \A t \in Thread : Idling(prog[t])
  BY EmptyProgram DEF Quiet, Idle
<1>2. /\ \A id : \A d \in Dir : ~Pending(prog, id, d)
      /\ \A d \in Dir : ~Owes(prog, k, d)
      /\ ~Stale(prog, k)
  BY <1>1 DEF Idling, Plan, Dir, Pending, PendingIn, Owes, OwesIn, Stale, StaleIn
<1> QED BY <1>2 DEF Due, Hits

\* The invariant rules out an under-reported flow,
LEMMA IInvCovers ==
  ASSUME IInv
  PROVE  NeverUnderReports
<1>1. ASSUME Quiet, ~(raced /\ died), NEW k \in Key
      PROVE  /\ db.summary[k].rank >= Derived(db.alerts)[k].rank
             /\ db.summary[k].count >= Derived(db.alerts)[k].count
  <2>1. /\ db.alerts \in SUBSET Alert /\ IsFiniteSet(db.alerts)
        /\ db.summary[k] \in Row
    BY TablesTypes DEF IInv, TypeInv
  <2>2. Covers(db.summary[k], Hits(db.alerts, k, "forward"), Hits(db.alerts, k, "reverse"))
    BY <1>1, QuietRows DEF IInv, SummaryInv, CoversInv, Dir
  <2> QED BY <2>1, <2>2, RowAgainstDerived
<1> QED BY <1>1 DEF NeverUnderReports

\* and, without an overlap or a restart, any difference.
LEMMA IInvExact ==
  ASSUME IInv
  PROVE  SummaryExact
<1>1. ASSUME Quiet, ~raced, ~died
      PROVE  db.summary = Derived(db.alerts)
  <2>1. /\ db.alerts \in SUBSET Alert /\ IsFiniteSet(db.alerts)
        /\ db.summary \in [Key -> Row] /\ \A k \in Key : db.summary[k] \in Row
    BY TablesTypes DEF IInv, TypeInv, AnyTables
  <2>2. ASSUME NEW k \in Key
        PROVE  db.summary[k] = Derived(db.alerts)[k]
    <3>1. Covers(db.summary[k], Hits(db.alerts, k, "forward"), Hits(db.alerts, k, "reverse"))
      BY <1>1, QuietRows DEF IInv, SummaryInv, CoversInv, Dir
    <3>2. Exactly(db.summary[k], Hits(db.alerts, k, "forward"), Hits(db.alerts, k, "reverse"))
      BY <1>1, QuietRows DEF IInv, SummaryInv, ExactInv, Dir
    <3> QED BY <2>1, <3>1, <3>2, RowAgainstDerived
  <2>3. Derived(db.alerts) \in [Key -> Row]
    BY <2>1, DerivedRows
  <2> QED BY <2>1, <2>2, <2>3
<1> QED BY <1>1 DEF SummaryExact

\* The tables, the alerts being saved and what every row of the summary owes,
\* in every reachable state, whatever operations overlap or die.
THEOREM IInvAlways == Spec => []IInv
BY InitIInv, NextIInv, PTL DEF Spec

\* DetectionService._save_alert_rows, Database.rebuild_flow_risk_summary and
\* the operations built from them: as long as no two have overlapped and the
\* process has not died, flow_risk_summary is what the alerts say.
THEOREM SummaryExactAlways == Spec => []SummaryExact
BY IInvAlways, IInvExact, PTL

\* The same operations, overlapping in any way on the shared connection or cut
\* short by the process dying: once idle, no flow is shown with a lower risk or
\* fewer alerts than are stored for it.
THEOREM NeverUnderReportsAlways == Spec => []NeverUnderReports
BY IInvAlways, IInvCovers, PTL
===============================================================================
