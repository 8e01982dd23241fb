------------------------------ MODULE RiskSummary ------------------------------
(***************************************************************************)
(* Table alerts and the table flow_risk_summary derived from it, which the *)
(* packet page reads to order flows by risk.  Three threads write them     *)
(* through ONE sqlite connection with no lock: the live worker, the import *)
(* thread and the UI thread.  A thread runs its operation statement by     *)
(* statement; between two of them any other thread may run one of its own, *)
(* and a commit by any of them commits what all of them have written.      *)
(***************************************************************************)
EXTENDS Integers, FiniteSets, Sequences

CONSTANTS
  Flows,      (* the <<source, destination>> pairs that raise alerts        *)
  Ranks,      (* level_rank of an alert, positive numbers                   *)
  MaxAlerts   (* bound on the alerts saved in a run                         *)

Source == {"live", "offline"}
Thread == {"worker", "import", "ui"}

ASSUME RiskAssumption ==
  /\ Ranks \subseteq Nat \ {0}
  /\ MaxAlerts \in Nat

VARIABLES
  db,    (* the tables as every thread of the process sees them *)
  disk,  (* the tables as of the last commit                    *)
  open,  (* the connection has a transaction open               *)
  prog,  (* per thread, the statements of its operation left    *)
  saved, (* how many alerts were saved so far                   *)
  raced, (* history: two operations have overlapped             *)
  died   (* history: the process has died and restarted         *)

history == <<raced, died>>
vars == <<db, disk, open, prog, saved, history>>

-------------------------------------------------------------------------------
(* The tables.  A summary row is [rank, count]; the row of an absent key is *)
(* Nothing.  rank stands for both columns merged by maximum.                *)

Reverse(flow) == <<flow[2], flow[1]>>
AllFlows == Flows \cup {Reverse(f) : f \in Flows}
Key == AllFlows \X Source
Nothing == [rank |-> 0, count |-> 0]
NoRows == [k \in Key |-> Nothing]

Larger(m, n) == IF m > n THEN m ELSE n

\* ON CONFLICT ... DO UPDATE, row by row.
Merge(s, t) ==
  [k \in Key |-> [rank |-> Larger(s[k].rank, t[k].rank),
                  count |-> s[k].count + t[k].count]]

KeyOf(alert, dir) ==
  <<IF dir = "forward" THEN alert.flow ELSE Reverse(alert.flow), alert.source>>

\* SELECT ... FROM alerts WHERE source IN scope GROUP BY the flow in one direction
Group(alerts, scope, dir) ==
  [k \in Key |->
    LET hits == {a \in alerts : a.source \in scope /\ KeyOf(a, dir) = k}
    IN  [rank |-> IF hits = {} THEN 0
                  ELSE CHOOSE m \in {a.rank : a \in hits} : \A a \in hits : a.rank <= m,
         count |-> Cardinality(hits)]]

Derived(alerts) ==
  Merge(Group(alerts, Source, "forward"), Group(alerts, Source, "reverse"))

\* The effect of one SQL statement on the tables.
Effect(t, st) ==
  CASE st.sql = "insert_alert" -> [t EXCEPT !.alerts = @ \cup {st.alert}]
    [] st.sql = "upsert" -> [t EXCEPT !.summary = Merge(@, Group({st.alert}, Source, st.dir))]
    [] st.sql = "delete_source" ->
         [t EXCEPT !.alerts = {a \in @ : a.source # st.source}]
    [] st.sql = "delete_expired" -> [t EXCEPT !.alerts = {a \in @ : ~a.expired}]
    [] st.sql = "wipe" ->
         [t EXCEPT !.summary = [k \in Key |-> IF k[2] \in st.scope THEN Nothing ELSE @[k]]]
    [] st.sql = "regroup" ->
         [t EXCEPT !.summary = Merge(@, Group(t.alerts, st.scope, st.dir))]

-------------------------------------------------------------------------------
(* The statements of each operation.  A statement that is not the first row *)
(* of an executemany starts no transaction of its own.                      *)

Commit == [sql |-> "commit"]

\* Mutant of SaveAlert: the summary rows are written before the alert.
SaveAlertLast(alert, commit) ==
  <<[sql |-> "upsert", alert |-> alert, dir |-> "forward", begins |-> TRUE],
    [sql |-> "upsert", alert |-> alert, dir |-> "reverse", begins |-> FALSE],
    [sql |-> "insert_alert", alert |-> alert, begins |-> TRUE]>>
  \o (IF commit THEN <<Commit>> ELSE <<>>)

\* DetectionService._save_alert_rows and Database.upsert_flow_risk_summary
SaveAlert(alert, commit) ==
  <<[sql |-> "insert_alert", alert |-> alert, begins |-> TRUE],
    [sql |-> "upsert", alert |-> alert, dir |-> "forward", begins |-> TRUE],
    [sql |-> "upsert", alert |-> alert, dir |-> "reverse", begins |-> FALSE]>>
  \o (IF commit THEN <<Commit>> ELSE <<>>)

\* Database.rebuild_flow_risk_summary
Rebuild(scope) ==
  <<[sql |-> "wipe", scope |-> scope, begins |-> TRUE],
    [sql |-> "regroup", scope |-> scope, dir |-> "forward", begins |-> TRUE],
    [sql |-> "regroup", scope |-> scope, dir |-> "reverse", begins |-> TRUE],
    Commit>>

\* AppRuntime.clear_alerts_by_source; the rebuild runs only if rows were deleted.
ClearSource(source) ==
  <<[sql |-> "delete_source", source |-> source, begins |-> TRUE], Commit>>
  \o Rebuild({source})

\* Mutant of Cleanup: the summary keeps what the expired alerts put there.
CleanupAlertsOnly == <<[sql |-> "delete_expired", begins |-> TRUE], Commit>>

\* Database.cleanup_old_logs, likewise
Cleanup ==
  <<[sql |-> "delete_expired", begins |-> TRUE], Commit>> \o Rebuild(Source)

-------------------------------------------------------------------------------
Init ==
  /\ db = [alerts |-> {}, summary |-> NoRows]
  /\ disk = db
  /\ open = FALSE
  /\ prog = [t \in Thread |-> <<>>]
  /\ saved = 0
  /\ raced = FALSE
  /\ died = FALSE

Idle(t) == prog[t] = <<>>

Start(t, statements) ==
  /\ Idle(t)
  /\ prog' = [prog EXCEPT ![t] = statements]
  /\ raced' = (raced \/ \E u \in Thread : ~Idle(u))
  /\ UNCHANGED <<db, disk, open, died>>

\* The worker commits with each batch; the import leaves that to its flush.
Save(t, flow, rank) ==
  /\ saved < MaxAlerts
  /\ saved' = saved + 1
  /\ LET alert == [id |-> saved, flow |-> flow, rank |-> rank, expired |-> FALSE,
                   source |-> IF t = "worker" THEN "live" ELSE "offline"]
     IN  Start(t, SaveAlert(alert, t = "worker"))

Flush == Start("import", <<Commit>>) /\ UNCHANGED saved

\* "Reset" on the realtime and on the traffic page; the start of an import.
Clear(t, source) ==
  /\ t = "ui" \/ (t = "import" /\ source = "offline")
  /\ Start(t, ClearSource(source))
  /\ UNCHANGED saved

\* _cleanup_old_logs_if_due, every 300 s of the worker
Retire == Start("worker", Cleanup) /\ UNCHANGED saved

\* A thread runs the next statement of its operation.  With no transaction
\* open it first begins one, except inside an executemany, where sqlite then
\* commits the row at once.
Execute(t) ==
  /\ ~Idle(t)
  /\ Head(prog[t]) # Commit
  /\ LET st == Head(prog[t])
         deletes == st.sql \in {"delete_source", "delete_expired"}
         rest == Tail(prog[t])
     IN  /\ db' = Effect(db, st)
         /\ open' = (open \/ st.begins)
         /\ disk' = IF open' THEN disk ELSE db'
         /\ prog' = [prog EXCEPT ![t] =
                       IF deletes /\ db'.alerts = db.alerts THEN <<Commit>> ELSE rest]
  /\ UNCHANGED <<saved, history>>

CommitAll(t) ==
  /\ ~Idle(t)
  /\ Head(prog[t]) = Commit
  /\ disk' = db
  /\ open' = FALSE
  /\ prog' = [prog EXCEPT ![t] = Tail(@)]
  /\ UNCHANGED <<db, saved, history>>

\* The retention period passes for everything stored so far.
TimePasses ==
  LET Aged(t) == [t EXCEPT !.alerts = {[a EXCEPT !.expired = TRUE] : a \in @}]
  IN  /\ \E a \in db.alerts : ~a.expired
      /\ db' = Aged(db)
      /\ disk' = Aged(disk)
      /\ UNCHANGED <<open, prog, saved, history>>

\* What is not committed is lost; Database._bootstrap_flow_risk_summary then
\* rebuilds a summary that has no row at all.
Restart ==
  /\ db' = IF disk.summary = NoRows THEN [disk EXCEPT !.summary = Derived(disk.alerts)]
                                    ELSE disk
  /\ disk' = db'
  /\ open' = FALSE
  /\ prog' = [t \in Thread |-> <<>>]
  /\ died' = TRUE
  /\ UNCHANGED <<saved, raced>>

Next ==
  \/ \E t \in {"worker", "import"}, f \in Flows, r \in Ranks : Save(t, f, r)
  \/ Flush \/ Retire
  \/ \E t \in {"ui", "import"}, s \in Source : Clear(t, s)
  \/ \E t \in Thread : Execute(t) \/ CommitAll(t)
  \/ TimePasses
  \/ Restart

Spec == Init /\ [][Next]_vars

-------------------------------------------------------------------------------
(* Properties *)

Quiet == \A t \in Thread : Idle(t)

\* As long as no two operations have overlapped and the process has not died,
\* the summary is exactly what the alerts say, in both directions of every flow.
SummaryExact == Quiet /\ ~raced /\ ~died => db.summary = Derived(db.alerts)

\* Operations may overlap, or the process may die between two statements: once
\* the threads are idle no flow is shown with a lower risk, or fewer alerts,
\* than the alerts stored for it.  (Both together can lose a summary row: the
\* commit of one thread saves another's alert, and the crash its upsert.)
NeverUnderReports ==
  Quiet /\ ~(raced /\ died) =>
    LET due == Derived(db.alerts)
    IN  \A k \in Key : /\ db.summary[k].rank >= due[k].rank
                       /\ db.summary[k].count >= due[k].count
===============================================================================
