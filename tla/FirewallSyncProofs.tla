-------------------------- MODULE FirewallSyncProofs --------------------------
(***************************************************************************)
(* Proofs about FirewallSync, for any addresses and any row ids.           *)
(* The invariants of that module speak of the idle phase only; IInv says   *)
(* what holds in the others.                                               *)
(***************************************************************************)
EXTENDS FirewallSync, TLAPS

\* The job removes the last enabled row of its address.
LastEnabled(j) == ~Blocks(j) /\ j.row.on /\ ~OtherEnabled(j.row)

\* What Begin stored: a fresh enabled black row, or a black row of the table.
JobInv ==
  phase \in {"firewall", "write"} =>
    /\ job \in Job
    /\ job.row.type = "black"
    /\ job.op = "insert" => job.row.on /\ Unused(job.row.id)
    /\ job.op # "insert" => job.row \in rows
    /\ phase = "firewall" => Blocks(job) \/ LastEnabled(job)

CacheInv ==
  /\ phase \in {"idle", "firewall"} => blocked = Enabled(rows)
  /\ phase = "write" =>
       /\ Blocks(job) => blocked = Enabled(rows) \cup {job.row.ip}
       /\ LastEnabled(job) => blocked = Enabled(rows) \ {job.row.ip}
       /\ ~Blocks(job) /\ ~LastEnabled(job) => blocked = Enabled(rows)

\* What the netsh call of the job left behind.
RulesInv ==
  phase = "write" =>
    /\ Blocks(job) => RulesOf(job.row.ip) \subseteq rules
    /\ LastEnabled(job) => RulesOf(job.row.ip) \cap rules = {}

\* The bootstrap removes rules of disabled addresses and adds rules of enabled ones.
BootInv ==
  /\ phase = "purge" => todo \cap Enabled(rows) = {}
  /\ phase = "restore" => todo \subseteq Enabled(rows)

IInv == TypeOK /\ JobInv /\ CacheInv /\ RulesInv /\ BootInv

-------------------------------------------------------------------------------
\* Membership in Enabled, so that the proofs below need not expand it.
LEMMA EnabledMember ==
  ASSUME NEW tbl, NEW ip
  PROVE  ip \in Enabled(tbl) <=> \E r \in tbl : EnabledBlack(r) /\ r.ip = ip
BY DEF Enabled

\* Inserting a row enables its address exactly when the row blocks it.
LEMMA EnabledInsert ==
  ASSUME NEW tbl, NEW r
  PROVE  /\ EnabledBlack(r) => Enabled(tbl \cup {r}) = Enabled(tbl) \cup {r.ip}
         /\ ~EnabledBlack(r) => Enabled(tbl \cup {r}) = Enabled(tbl)
<1>1. \A ip : ip \in Enabled(tbl \cup {r})
                <=> ip \in Enabled(tbl) \/ (EnabledBlack(r) /\ ip = r.ip)
  BY EnabledMember
<1> QED
  BY <1>1

\* Deleting a row disables its address exactly when it was the last enabled
\* row of that address.
LEMMA EnabledDelete ==
  ASSUME NEW tbl, NEW r \in tbl,
         NEW last,
         last <=> /\ EnabledBlack(r)
                  /\ \A s \in tbl : EnabledBlack(s) /\ s.ip = r.ip => s = r
  PROVE  /\ last => Enabled(tbl \ {r}) = Enabled(tbl) \ {r.ip}
         /\ ~last => Enabled(tbl \ {r}) = Enabled(tbl)
<1>1. ASSUME last
      PROVE  \A ip : ip \in Enabled(tbl \ {r}) <=> ip \in Enabled(tbl) /\ ip # r.ip
  BY <1>1, EnabledMember
<1>2. ASSUME ~last
      PROVE  \A ip : ip \in Enabled(tbl \ {r}) <=> ip \in Enabled(tbl)
  <2>1. SUFFICES ASSUME NEW ip \in Enabled(tbl)
                 PROVE  ip \in Enabled(tbl \ {r})
    BY EnabledMember
  <2>2. PICK s \in tbl : EnabledBlack(s) /\ s.ip = ip
    BY EnabledMember
  <2>3. CASE s # r
    BY <2>2, <2>3, EnabledMember
  <2>4. CASE s = r
    BY <1>2, <2>2, <2>4, EnabledMember
  <2> QED
    BY <2>3, <2>4
<1> QED
  BY <1>1, <1>2

\* Whitelist rows never change the set of enabled addresses.
LEMMA WhiteInsert ==
  ASSUME NEW ip, NEW id
  PROVE  Enabled(rows \cup {[id |-> id, ip |-> ip, type |-> "white", on |-> TRUE]})
           = Enabled(rows)
<1> DEFINE new == [id |-> id, ip |-> ip, type |-> "white", on |-> TRUE]
<1>1. ~EnabledBlack(new)
  BY DEF EnabledBlack
<1> HIDE DEF new
<1>2. Enabled(rows \cup {new}) = Enabled(rows)
  BY <1>1, EnabledInsert
<1> QED
  BY <1>2 DEF new

\* Toggling or deleting a whitelist row does not change it either.
LEMMA WhiteChange ==
  ASSUME NEW r \in rows, rows \subseteq Row, r.type = "white"
  PROVE  /\ Enabled(rows \ {r}) = Enabled(rows)
         /\ Enabled((rows \ {r}) \cup {Flipped(r)}) = Enabled(rows)
<1>1. ~EnabledBlack(r)
  BY DEF EnabledBlack
<1>2. ~EnabledBlack(Flipped(r))
  BY DEF EnabledBlack, Flipped, Row
<1>3. \A ip : ip \in Enabled(rows \ {r}) <=> ip \in Enabled(rows)
  BY <1>1, EnabledMember
<1> QED
  BY <1>2, <1>3, EnabledInsert

\* A commit changes the set of enabled addresses by the address of its job.
LEMMA WriteEffect ==
  ASSUME TypeOK, JobInv, phase = "write"
  PROVE  /\ Blocks(job) => Enabled(Written(job)) = Enabled(rows) \cup {job.row.ip}
         /\ LastEnabled(job) => Enabled(Written(job)) = Enabled(rows) \ {job.row.ip}
         /\ ~Blocks(job) /\ ~LastEnabled(job) => Enabled(Written(job)) = Enabled(rows)
<1> DEFINE r == job.row
<1> job \in Job /\ r \in Row /\ r.type = "black" /\ r.on \in BOOLEAN
  BY DEF JobInv, Job, Row
<1>1. CASE job.op = "insert"
  <2>1. EnabledBlack(r) /\ Blocks(job)
    BY <1>1 DEF JobInv, EnabledBlack, Blocks
  <2>2. Written(job) = rows \cup {r}
    BY <1>1 DEF Written
  <2> QED
    BY <2>1, <2>2, EnabledInsert DEF LastEnabled
<1>2. CASE job.op # "insert"
  <2> r \in rows
    BY <1>2 DEF JobInv
  <2>1. \A s \in rows : s # r <=> s.id # r.id
    BY DEF TypeOK
  <2>2. /\ r.on /\ ~OtherEnabled(r) => Enabled(rows \ {r}) = Enabled(rows) \ {r.ip}
        /\ ~(r.on /\ ~OtherEnabled(r)) => Enabled(rows \ {r}) = Enabled(rows)
    <3> DEFINE last == r.on /\ ~OtherEnabled(r)
    <3>1. last <=> /\ EnabledBlack(r)
                   /\ \A s \in rows : EnabledBlack(s) /\ s.ip = r.ip => s = r
      BY <2>1 DEF OtherEnabled, EnabledBlack
    <3> HIDE DEF last
    <3> QED
      BY <3>1, EnabledDelete DEF last
  <2>3. CASE job.op = "delete"
    BY <2>2, <2>3 DEF Written, Blocks, LastEnabled
  <2>4. CASE job.op = "update"
    <3>1. /\ Flipped(r).type = "black"
          /\ Flipped(r).ip = r.ip
          /\ Flipped(r).on = ~r.on
      BY DEF Row, Flipped
    <3>2. Written(job) = (rows \ {r}) \cup {Flipped(r)}
      BY <2>4 DEF Written
    <3>3. CASE r.on
      <4> ~EnabledBlack(Flipped(r))
        BY <3>1, <3>3 DEF EnabledBlack
      <4>1. Enabled(Written(job)) = Enabled(rows \ {r})
        BY <3>2, EnabledInsert
      <4> QED
        BY <4>1, <2>2, <2>4, <3>3 DEF Blocks, LastEnabled
    <3>4. CASE ~r.on
      <4> EnabledBlack(Flipped(r))
        BY <3>1, <3>4 DEF EnabledBlack
      <4>1. Enabled(Written(job)) = Enabled(rows \ {r}) \cup {r.ip}
        BY <3>1, <3>2, EnabledInsert
      <4> QED
        BY <4>1, <2>2, <2>4, <3>4 DEF Blocks, LastEnabled
    <3> QED
      BY <3>3, <3>4
  <2> QED
    BY <1>2, <2>3, <2>4 DEF Job
<1> QED
  BY <1>1, <1>2
-------------------------------------------------------------------------------
\* The empty table and firewall of the first start satisfy the invariant.
LEMMA InitIInv == Init => IInv
BY DEF Init, IInv, TypeOK, JobInv, CacheInv, RulesInv, BootInv, Phase

\* Types are preserved by every step; a step that writes a row needs JobInv to
\* know the row is new, or replaces one that is there.
LEMMA TypeStep ==
  ASSUME TypeOK, JobInv, [Next]_vars
  PROVE  TypeOK'
<1> USE DEF TypeOK, Phase, Side, RulesOf
<1>1. CASE BootBlind \/ Boot
  BY <1>1 DEF BootBlind, Boot, Enabled, RuleIps, Row
<1>2. CASE EndPurge \/ EndRestore
  BY <1>2 DEF EndPurge, EndRestore, Enabled, Row
<1>3. ASSUME NEW ip \in Ip, Purge(ip) \/ Restore(ip)
      PROVE  TypeOK'
  BY <1>3 DEF Purge, Restore, EnsureOk, EnsureFails, RemoveOk, RemoveFails
<1>4. ASSUME NEW ip \in Ip, NEW id \in ItemId, AddBlack(ip, id) \/ AddWhite(ip, id)
      PROVE  TypeOK'
  <2> DEFINE new(type) == [id |-> id, ip |-> ip, type |-> type, on |-> TRUE]
  <2>1. new("black") \in Row /\ new("white") \in Row /\ \A t : new(t).id = id
    BY DEF Row
  <2> HIDE DEF new
  <2>2. CASE AddBlack(ip, id)
    <3>1. job' = [op |-> "insert", row |-> new("black")]
      BY <2>2 DEF AddBlack, Begin, new
    <3>2. job' \in Job
      BY <3>1, <2>1 DEF Job
    <3> QED
      BY <2>2, <3>2 DEF AddBlack, Begin
  <2>3. CASE AddWhite(ip, id)
    <3>1. rows' = rows \cup {new("white")} /\ Unused(id)
      BY <2>3 DEF AddWhite, new
    <3> QED
      BY <2>1, <2>3, <3>1 DEF AddWhite, Unused
  <2> QED
    BY <1>4, <2>2, <2>3
<1>5. ASSUME NEW r \in rows, ToggleBlack(r) \/ DeleteBlack(r)
      PROVE  TypeOK'
  BY <1>5 DEF ToggleBlack, DeleteBlack, Begin, Job
<1>6. ASSUME NEW r \in rows, ToggleWhite(r)
      PROVE  TypeOK'
  <2>1. Flipped(r) \in Row /\ Flipped(r).id = r.id
    BY DEF Flipped, Row
  <2> QED
    BY <1>6, <2>1 DEF ToggleWhite
<1>7. ASSUME NEW r \in rows, DeleteWhite(r)
      PROVE  TypeOK'
  BY <1>7 DEF DeleteWhite
<1>8. CASE FirewallOk
  BY <1>8 DEF FirewallOk, JobInv, Job, Row, EnsureOk, RemoveOk
<1>9. CASE FirewallFails
  BY <1>9 DEF FirewallFails, JobInv, Job, Row, EnsureFails, RemoveFails
<1>10. CASE Write
  <2>1. job \in Job /\ job.row \in Row
    BY <1>10 DEF Write, JobInv, Job
  <2>2. rows' \subseteq Row /\ \A r, s \in rows' : r.id = s.id => r = s
    <3>1. CASE job.op = "insert"
      BY <1>10, <2>1, <3>1 DEF Write, Written, JobInv, Unused
    <3>2. CASE job.op = "update"
      <4>1. Flipped(job.row) \in Row /\ Flipped(job.row).id = job.row.id
        BY <2>1 DEF Flipped, Row
      <4> QED
        BY <1>10, <2>1, <3>2, <4>1 DEF Write, Written, JobInv
    <3>3. CASE job.op = "delete"
      BY <1>10, <2>1, <3>3 DEF Write, Written, JobInv
    <3> QED
      BY <2>1, <3>1, <3>2, <3>3 DEF Job
  <2>3. blocked' \subseteq Ip
    BY <1>10, <2>1 DEF Write, Row
  <2> QED
    BY <1>10, <2>2, <2>3 DEF Write
<1>11. CASE Stop
  BY <1>11 DEF Stop
<1>12. CASE UNCHANGED vars
  BY <1>12 DEF vars
<1> QED
  BY <1>1, <1>2, <1>3, <1>4, <1>5, <1>6, <1>7, <1>8, <1>9, <1>10, <1>11, <1>12 DEF Next

\* Only Begin, the netsh outcomes, Write and the bootstrap touch the other parts.
LEMMA BeginStep ==
  ASSUME IInv, NEW op \in {"insert", "update", "delete"}, NEW r \in Row,
         NEW next \in {"firewall", "write"},
         phase = "idle", Begin(op, r, next),
         r.type = "black",
         op = "insert" => r.on /\ Unused(r.id),
         op # "insert" => r \in rows,
         next = "firewall" => \/ op = "insert" \/ (op = "update" /\ ~r.on)
                              \/ r.on /\ ~OtherEnabled(r),
         next = "write" => /\ op \in {"update", "delete"}
                           /\ ~r.on \/ OtherEnabled(r)
                           /\ op = "update" => r.on
  PROVE  JobInv' /\ CacheInv' /\ RulesInv' /\ BootInv'
<1> DEFINE j == [op |-> op, row |-> r]
<1>1. /\ job' = j
      /\ phase' = next
      /\ UNCHANGED <<rows, rules, blocked, todo, unsure>>
  BY DEF Begin
<1>2. j \in Job /\ j.op = op /\ j.row = r
  BY DEF Job
<1> HIDE DEF j
<1>3. Unused(r.id)' = Unused(r.id) /\ OtherEnabled(r)' = OtherEnabled(r)
  BY <1>1 DEF Unused, OtherEnabled
<1>4. /\ Blocks(j) <=> op = "insert" \/ (op = "update" /\ ~r.on)
      /\ LastEnabled(j)' <=> ~Blocks(j) /\ r.on /\ ~OtherEnabled(r)
  BY <1>1, <1>2, <1>3 DEF Blocks, LastEnabled, OtherEnabled
<1>5. blocked = Enabled(rows)
  BY DEF IInv, CacheInv
<1>6. JobInv'
  BY <1>1, <1>2, <1>3, <1>4 DEF JobInv, Unused, LastEnabled
<1>7. CacheInv'
  BY <1>1, <1>4, <1>5 DEF CacheInv, LastEnabled
<1>8. RulesInv' /\ BootInv'
  BY <1>1, <1>4 DEF RulesInv, BootInv, LastEnabled
<1> QED
  BY <1>6, <1>7, <1>8

\* A netsh call that succeeds leads from the firewall phase to the write phase
\* with cache and rules one row ahead of the table.
LEMMA FirewallOkStep ==
  ASSUME IInv, FirewallOk
  PROVE  JobInv' /\ CacheInv' /\ RulesInv' /\ BootInv'
<1>1. /\ phase = "firewall" /\ phase' = "write"
      /\ UNCHANGED <<rows, job>>
      /\ Blocks(job) => EnsureOk(job.row.ip) /\ blocked' = blocked \cup {job.row.ip}
      /\ ~Blocks(job) => RemoveOk(job.row.ip) /\ blocked' = blocked \ {job.row.ip}
  BY DEF FirewallOk
<1>2. LastEnabled(job)' = LastEnabled(job) /\ Blocks(job)' = Blocks(job)
  BY <1>1 DEF LastEnabled, Blocks, OtherEnabled
<1>3. (Blocks(job) \/ LastEnabled(job)) /\ (LastEnabled(job) => ~Blocks(job))
  BY <1>1 DEF IInv, JobInv, LastEnabled
<1>4. JobInv'
  BY <1>1 DEF IInv, JobInv, Unused
<1>5. CacheInv'
  BY <1>1, <1>2, <1>3 DEF IInv, CacheInv
<1>6. RulesInv'
  BY <1>1, <1>2, <1>3 DEF RulesInv, EnsureOk, RemoveOk
<1> QED
  BY <1>1, <1>4, <1>5, <1>6 DEF BootInv

\* The commit brings the table level with cache and rules again.
LEMMA WriteStep ==
  ASSUME IInv, Write
  PROVE  JobInv' /\ CacheInv' /\ RulesInv' /\ BootInv'
<1>1. /\ phase = "write" /\ phase' = "idle"
      /\ rows' = Written(job)
      /\ blocked' = blocked \cup ({job.row.ip} \cap Enabled(rows'))
  BY DEF Write
<1>2. blocked' = Enabled(rows')
  BY <1>1, WriteEffect DEF IInv, CacheInv, LastEnabled
<1> QED
  BY <1>1, <1>2 DEF JobInv, CacheInv, RulesInv, BootInv

\* Every step preserves the invariant, action by action.
LEMMA IInvStep == IInv /\ [Next]_vars => IInv'
<1> SUFFICES ASSUME IInv, [Next]_vars
             PROVE  IInv'
  OBVIOUS
<1> USE DEF IInv
<1>t. TypeOK'
  BY TypeStep
<1>1. CASE BootBlind \/ Boot
  BY <1>t, <1>1 DEF BootBlind, Boot, JobInv, CacheInv, RulesInv, BootInv
<1>2. CASE EndPurge \/ EndRestore
  BY <1>t, <1>2 DEF EndPurge, EndRestore, JobInv, CacheInv, RulesInv, BootInv
<1>3. ASSUME NEW ip \in Ip, Purge(ip) \/ Restore(ip)
      PROVE  IInv'
  BY <1>t, <1>3 DEF Purge, Restore, JobInv, CacheInv, RulesInv, BootInv
<1>4. ASSUME NEW ip \in Ip, NEW id \in ItemId, AddBlack(ip, id)
      PROVE  IInv'
  <2> DEFINE new == [id |-> id, ip |-> ip, type |-> "black", on |-> TRUE]
  <2>1. new \in Row /\ new.id = id /\ new.type = "black" /\ new.on
    BY DEF Row
  <2>2. phase = "idle" /\ Unused(id) /\ Begin("insert", new, "firewall")
    BY <1>4 DEF AddBlack
  <2> HIDE DEF new
  <2> QED
    BY <1>t, <2>1, <2>2, BeginStep
<1>5. ASSUME NEW r \in rows, ToggleBlack(r)
      PROVE  IInv'
  <2>1. r \in Row /\ r.on \in BOOLEAN
    BY DEF TypeOK, Row
  <2>2. CASE r.on /\ OtherEnabled(r)
    <3>1. phase = "idle" /\ r.type = "black" /\ Begin("update", r, "write")
      BY <1>5, <2>2 DEF ToggleBlack
    <3> QED
      BY <1>t, <2>1, <2>2, <3>1, BeginStep
  <2>3. CASE ~(r.on /\ OtherEnabled(r))
    <3>1. phase = "idle" /\ r.type = "black" /\ Begin("update", r, "firewall")
      BY <1>5, <2>3 DEF ToggleBlack
    <3> QED
      BY <1>t, <2>1, <2>3, <3>1, BeginStep
  <2> QED
    BY <2>2, <2>3
<1>6. ASSUME NEW r \in rows, DeleteBlack(r)
      PROVE  IInv'
  <2>1. r \in Row /\ r.on \in BOOLEAN
    BY DEF TypeOK, Row
  <2>2. CASE r.on /\ ~OtherEnabled(r)
    <3>1. phase = "idle" /\ r.type = "black" /\ Begin("delete", r, "firewall")
      BY <1>6, <2>2 DEF DeleteBlack
    <3> QED
      BY <1>t, <2>1, <2>2, <3>1, BeginStep
  <2>3. CASE ~(r.on /\ ~OtherEnabled(r))
    <3>1. phase = "idle" /\ r.type = "black" /\ Begin("delete", r, "write")
      BY <1>6, <2>3 DEF DeleteBlack
    <3> QED
      BY <1>t, <2>1, <2>3, <3>1, BeginStep
  <2> QED
    BY <2>2, <2>3
<1>7. ASSUME NEW ip \in Ip, NEW id \in ItemId, AddWhite(ip, id)
      PROVE  IInv'
  BY <1>t, <1>7, WhiteInsert DEF AddWhite, JobInv, CacheInv, RulesInv, BootInv
<1>8. ASSUME NEW r \in rows, ToggleWhite(r) \/ DeleteWhite(r)
      PROVE  IInv'
  <2>1. Enabled(rows') = Enabled(rows)
    <3>1. /\ rows \subseteq Row /\ r.type = "white"
          /\ rows' = rows \ {r} \/ rows' = (rows \ {r}) \cup {Flipped(r)}
      BY <1>8 DEF ToggleWhite, DeleteWhite, TypeOK
    <3>2. /\ Enabled(rows \ {r}) = Enabled(rows)
          /\ Enabled((rows \ {r}) \cup {Flipped(r)}) = Enabled(rows)
      BY <3>1, WhiteChange
    <3> QED
      BY <3>1, <3>2
  <2> QED
    BY <1>t, <1>8, <2>1 DEF ToggleWhite, DeleteWhite, JobInv, CacheInv, RulesInv, BootInv
<1>9. CASE FirewallOk
  BY <1>t, <1>9, FirewallOkStep
<1>10. CASE FirewallFails
  BY <1>t, <1>10 DEF FirewallFails, JobInv, CacheInv, RulesInv, BootInv
<1>11. CASE Write
  BY <1>t, <1>11, WriteStep
<1>12. CASE Stop
  BY <1>t, <1>12 DEF Stop, JobInv, CacheInv, RulesInv, BootInv
<1>13. CASE UNCHANGED vars
  BY <1>t, <1>13 DEF vars, JobInv, CacheInv, RulesInv, BootInv, Blocks,
     LastEnabled, OtherEnabled, Unused
<1> QED
  BY <1>1, <1>2, <1>3, <1>4, <1>5, <1>6, <1>7, <1>8, <1>9, <1>10, <1>11,
     <1>12, <1>13 DEF Next

\* So it holds in every reachable state.
LEMMA Inductive == Spec => []IInv
<1>1. IInv /\ [Next]_vars => IInv'
  BY IInvStep
<1> QED
  BY InitIInv, <1>1, PTL DEF Spec

\* The state always has its types, and the row ids stay a key of the table.
THEOREM TypeCorrect == Spec => []TypeOK
<1>1. IInv => TypeOK
  BY DEF IInv
<1> QED
  BY <1>1, Inductive, PTL

\* Between operations blocked_ips is the set of addresses the table blocks,
\* for any number of addresses and duplicates of rows.
THEOREM CacheCorrect == Spec => []CacheMatchesTable
<1>1. IInv => CacheMatchesTable
  BY DEF IInv, CacheInv, CacheMatchesTable
<1> QED
  BY <1>1, Inductive, PTL

-------------------------------------------------------------------------------
(* Synchronisation.  SyncInv follows the promise of FirewallMatchesTable   *)
(* through the phases: the job's own address is settled by its commit, and *)
(* the bootstrap settles the disabled addresses before the enabled ones.   *)

Managed(ip) == rules \cap RulesOf(ip)
InSync(ip) == Managed(ip) = IF ip \in Enabled(rows) THEN RulesOf(ip) ELSE {}

SyncInv ==
  \A ip \in Ip \ unsure :
    /\ phase \in {"idle", "firewall"} => InSync(ip)
    /\ phase = "write" =>
         \/ InSync(ip)
         \/ ip = job.row.ip /\ (Blocks(job) \/ LastEnabled(job))
    /\ phase \in {"purge", "restore"} /\ ip \notin Enabled(rows) =>
         Managed(ip) = {} \/ (phase = "purge" /\ ip \in todo)
    /\ phase = "restore" /\ ip \in Enabled(rows) =>
         Managed(ip) = RulesOf(ip) \/ ip \in todo

\* Every step keeps firewall and table in step, given the invariant.
LEMMA SyncStep == IInv /\ SyncInv /\ [Next]_vars => SyncInv'
<1> SUFFICES ASSUME IInv, SyncInv, [Next]_vars, NEW ip \in Ip, ip \notin unsure'
             PROVE  /\ (phase \in {"idle", "firewall"})' => InSync(ip)'
                    /\ (phase = "write")' =>
                         \/ InSync(ip)'
                         \/ ip = job'.row.ip /\ (Blocks(job') \/ LastEnabled(job)')
                    /\ (phase \in {"purge", "restore"})' /\ ip \notin Enabled(rows') =>
                         Managed(ip)' = {} \/ (phase' = "purge" /\ ip \in todo')
                    /\ phase' = "restore" /\ ip \in Enabled(rows') =>
                         Managed(ip)' = RulesOf(ip) \/ ip \in todo'
  BY DEF SyncInv, RulesOf
<1> USE DEF InSync
<1>0. /\ rules' = rules => Managed(ip)' = Managed(ip)
      /\ Managed(ip) \subseteq RulesOf(ip)
  BY DEF Managed
<1>1. CASE BootBlind
  BY <1>1 DEF BootBlind
<1>2. CASE Boot
  <2>1. ip \notin RuleIps => Managed(ip) = {}
    BY DEF RuleIps, Managed, RulesOf
  <2> QED
    BY <1>0, <1>2, <2>1 DEF Boot
<1>3. CASE EndPurge
  BY <1>0, <1>3 DEF EndPurge, SyncInv
<1>4. CASE EndRestore
  BY <1>0, <1>4 DEF EndRestore, SyncInv
<1>5. ASSUME NEW a \in Ip,
             EnsureOk(a) \/ EnsureFails(a) \/ RemoveOk(a) \/ RemoveFails(a),
             a # ip
      PROVE  Managed(ip)' = Managed(ip) /\ ip \notin unsure
  BY <1>5 DEF Managed, RulesOf, EnsureOk, EnsureFails, RemoveOk, RemoveFails
<1>6. /\ EnsureFails(ip) \/ RemoveFails(ip) => FALSE
      /\ EnsureOk(ip) => Managed(ip)' = RulesOf(ip)
      /\ RemoveOk(ip) => Managed(ip)' = {}
  BY DEF EnsureFails, RemoveFails, EnsureOk, RemoveOk, Managed
<1>7. ASSUME NEW a \in Ip, Purge(a)
      PROVE  /\ phase = "purge" /\ phase' = "purge" /\ rows' = rows
             /\ ip \notin Enabled(rows) => Managed(ip)' = {} \/ ip \in todo'
  BY <1>5, <1>6, <1>7 DEF Purge, SyncInv
<1>8. ASSUME NEW a \in Ip, Restore(a)
      PROVE  /\ phase = "restore" /\ phase' = "restore" /\ rows' = rows
             /\ ip \notin Enabled(rows) => Managed(ip)' = {}
             /\ ip \in Enabled(rows) => Managed(ip)' = RulesOf(ip) \/ ip \in todo'
  <2>1. CASE a = ip
    BY <1>6, <1>8, <2>1 DEF Restore, SyncInv, IInv, BootInv
  <2>2. CASE a # ip
    BY <1>5, <1>8, <2>2 DEF Restore, SyncInv
  <2> QED
    BY <2>1, <2>2
<1>10. CASE phase = "idle" /\ UNCHANGED <<rules, unsure>> /\ Enabled(rows') = Enabled(rows)
            /\ phase' \in {"idle", "firewall", "write"}
  BY <1>0, <1>10 DEF SyncInv
<1>11. ASSUME NEW a \in Ip, NEW id \in ItemId, AddBlack(a, id)
       PROVE  phase = "idle" /\ phase' = "firewall" /\ UNCHANGED <<rules, unsure, rows>>
  BY <1>11 DEF AddBlack, Begin
<1>12. ASSUME NEW r \in rows, ToggleBlack(r) \/ DeleteBlack(r)
       PROVE  /\ phase = "idle" /\ phase' \in {"firewall", "write"}
              /\ UNCHANGED <<rules, unsure, rows>>
  BY <1>12 DEF ToggleBlack, DeleteBlack, Begin
<1>13. ASSUME NEW a \in Ip, NEW id \in ItemId, AddWhite(a, id)
       PROVE  /\ phase = "idle" /\ phase' = "idle" /\ UNCHANGED <<rules, unsure>>
              /\ Enabled(rows') = Enabled(rows)
  BY <1>13, WhiteInsert DEF AddWhite
<1>14. ASSUME NEW r \in rows, ToggleWhite(r) \/ DeleteWhite(r)
       PROVE  /\ phase = "idle" /\ phase' = "idle" /\ UNCHANGED <<rules, unsure>>
              /\ Enabled(rows') = Enabled(rows)
  <2>1. /\ rows \subseteq Row /\ r.type = "white"
        /\ phase = "idle" /\ phase' = "idle" /\ UNCHANGED <<rules, unsure>>
        /\ rows' = rows \ {r} \/ rows' = (rows \ {r}) \cup {Flipped(r)}
    BY <1>14 DEF ToggleWhite, DeleteWhite, IInv, TypeOK
  <2>2. /\ Enabled(rows \ {r}) = Enabled(rows)
        /\ Enabled((rows \ {r}) \cup {Flipped(r)}) = Enabled(rows)
    BY <2>1, WhiteChange
  <2> QED
    BY <2>1, <2>2
<1>15. CASE FirewallOk
  <2>1. job.row.ip \in Ip
    BY <1>15 DEF FirewallOk, IInv, JobInv, Job, Row
  <2>2. CASE ip = job.row.ip
    BY <1>15, <2>2 DEF FirewallOk, IInv, JobInv, LastEnabled, OtherEnabled
  <2>3. CASE ip # job.row.ip
    BY <1>5, <1>15, <2>1, <2>3 DEF FirewallOk, SyncInv
  <2> QED
    BY <2>2, <2>3
<1>16. CASE FirewallFails
  <2>1. job.row.ip \in Ip
    BY <1>16 DEF FirewallFails, IInv, JobInv, Job, Row
  <2>2. ip # job.row.ip
    BY <1>6, <1>16 DEF FirewallFails
  <2> QED
    BY <1>5, <1>16, <2>1, <2>2 DEF FirewallFails, SyncInv
<1>17. CASE Write
  <2>1. /\ phase = "write" /\ phase' = "idle" /\ rows' = Written(job)
        /\ Managed(ip)' = Managed(ip) /\ ip \notin unsure
    BY <1>0, <1>17 DEF Write
  <2>2. CASE Blocks(job)
    BY <2>1, <2>2, WriteEffect DEF IInv, SyncInv, RulesInv, Managed, LastEnabled
  <2>3. CASE LastEnabled(job)
    BY <2>1, <2>3, WriteEffect DEF IInv, SyncInv, RulesInv, Managed, LastEnabled
  <2>4. CASE ~Blocks(job) /\ ~LastEnabled(job)
    BY <2>1, <2>4, WriteEffect DEF IInv, SyncInv
  <2> QED
    BY <2>2, <2>3, <2>4
<1>18. CASE Stop
  BY <1>18 DEF Stop
<1>19. CASE UNCHANGED vars
  BY <1>0, <1>19 DEF vars, SyncInv, LastEnabled, OtherEnabled
<1> QED
  BY <1>1, <1>2, <1>3, <1>4, <1>7, <1>8, <1>10, <1>11, <1>12, <1>13, <1>14,
     <1>15, <1>16, <1>17, <1>18, <1>19 DEF Next

\* Two-way synchronisation of table and firewall, for any number of addresses,
\* rows, failed netsh calls and restarts.
THEOREM FirewallCorrect == Spec => []FirewallMatchesTable
<1>1. Init => SyncInv
  BY DEF Init, SyncInv
<1>2. IInv /\ SyncInv /\ [Next]_vars => SyncInv'
  BY SyncStep
<1>3. SyncInv => FirewallMatchesTable
  BY DEF SyncInv, InSync, Managed, FirewallMatchesTable
<1> QED
  BY <1>1, <1>2, <1>3, Inductive, PTL DEF Spec

-------------------------------------------------------------------------------
(* The two properties of steps. *)

\* No step takes a rule from an address another enabled row blocks.
THEOREM SharedAddressCorrect == Spec => SharedAddressStaysBlocked
<1> DEFINE A == \A ip \in Ip :
                  (RulesOf(ip) \cap rules) \ rules' # {} =>
                    \A r \in rows : EnabledBlack(r) /\ r.ip = ip =>
                                      job # NoJob /\ r = job.row
<1>1. ASSUME IInv, [Next]_vars
      PROVE  [A]_vars
  <2> SUFFICES ASSUME NEW ip \in Ip, (RulesOf(ip) \cap rules) \ rules' # {},
                      NEW r \in rows, EnabledBlack(r), r.ip = ip
               PROVE  job # NoJob /\ r = job.row
    OBVIOUS
  <2>1. ip \in Enabled(rows)
    BY EnabledMember
  <2>2. ASSUME NEW a, RemoveOk(a) \/ RemoveFails(a)
        PROVE  a = ip
    BY <2>2 DEF RemoveOk, RemoveFails, RulesOf
  <2>3. ASSUME NEW a, EnsureOk(a) \/ EnsureFails(a)
        PROVE  FALSE
    BY <2>3 DEF EnsureOk, EnsureFails
  <2>4. ASSUME NEW a \in Ip, Purge(a)
        PROVE  FALSE
    BY <1>1, <2>1, <2>2, <2>4 DEF Purge, IInv, BootInv
  <2>5. CASE FirewallOk \/ FirewallFails
    <3>1. ~Blocks(job) /\ ip = job.row.ip /\ phase = "firewall"
      BY <2>2, <2>3, <2>5 DEF FirewallOk, FirewallFails
    <3>2. ~OtherEnabled(job.row) /\ job.row \in rows /\ job # NoJob
      BY <1>1, <3>1, NoJobAssumption DEF IInv, JobInv, LastEnabled, Blocks, Job
    <3>3. r.id = job.row.id
      BY <3>1, <3>2 DEF OtherEnabled
    <3> QED
      BY <1>1, <3>2, <3>3 DEF IInv, TypeOK
  <2>6. rules' # rules
    OBVIOUS
  <2> QED
    BY <1>1, <2>3, <2>4, <2>5, <2>6 DEF Next, vars, BootBlind, Boot, EndPurge,
       EndRestore, Restore, AddBlack, ToggleBlack, DeleteBlack, Begin, AddWhite,
       ToggleWhite, DeleteWhite, Write, Stop
<1> QED
  BY <1>1, Inductive, PTL DEF Spec, SharedAddressStaysBlocked

\* A netsh helper changes the rules of one address only, as BlockList allows.
LEMMA NetshRefines ==
  ASSUME NEW a \in Ip, rules \subseteq Ip \X Side, rows' = rows,
         EnsureOk(a) \/ EnsureFails(a) \/ RemoveOk(a) \/ RemoveFails(a)
  PROVE  BL!ChangeRules(a)
<1> DEFINE kept == rules' \cap RulesOf(a)
<1>1. rules' \subseteq Ip \X Side /\ \A x \in Ip \X Side : x \notin RulesOf(a) => (x \in rules' <=> x \in rules)
  BY DEF EnsureOk, EnsureFails, RemoveOk, RemoveFails, RulesOf, Side
<1>2. rules' = (rules \ RulesOf(a)) \cup kept
  BY <1>1
<1>3. Enabled(rows') = Enabled(rows)
  OBVIOUS
<1> QED
  BY <1>2, <1>3 DEF BL!ChangeRules, BL!RulesOf, BL!Side, RulesOf, Side

\* Every step is a step of BlockList or changes neither table nor rules.
LEMMA RefineStep == IInv /\ [Next]_vars => [BL!Next]_<<Enabled(rows), rules>>
<1> SUFFICES ASSUME IInv, [Next]_vars
             PROVE  BL!Next \/ UNCHANGED <<Enabled(rows), rules>>
  OBVIOUS
<1>r. rules \subseteq Ip \X Side
  BY DEF IInv, TypeOK
<1>1. ASSUME NEW a \in Ip, Purge(a) \/ Restore(a)
      PROVE  BL!Next
  BY <1>r, <1>1, NetshRefines DEF Purge, Restore, BL!Next
<1>2. CASE FirewallOk \/ FirewallFails
  <2>1. job.row.ip \in Ip
    BY <1>2 DEF FirewallOk, FirewallFails, IInv, JobInv, Job, Row
  <2> QED
    BY <1>r, <1>2, <2>1, NetshRefines DEF FirewallOk, FirewallFails, BL!Next
<1>3. CASE Write
  <2>1. /\ phase = "write" /\ rows' = Written(job) /\ rules' = rules
        /\ job.row.ip \in Ip
    BY <1>3 DEF Write, IInv, JobInv, Job, Row
  <2>2. CASE Blocks(job)
    <3>1. Enabled(rows') = Enabled(rows) \cup {job.row.ip}
      BY <2>1, <2>2, WriteEffect DEF IInv
    <3>2. BL!RulesOf(job.row.ip) \subseteq rules
      BY <2>1, <2>2 DEF IInv, RulesInv, BL!RulesOf, BL!Side, RulesOf, Side
    <3>3. BL!Want(job.row.ip)
      BY <2>1, <3>1, <3>2 DEF BL!Want
    <3> QED
      BY <2>1, <3>3 DEF BL!Next
  <2>3. CASE LastEnabled(job)
    <3>1. Enabled(rows') = Enabled(rows) \ {job.row.ip}
      BY <2>1, <2>3, WriteEffect DEF IInv
    <3>2. BL!RulesOf(job.row.ip) \cap rules = {}
      BY <2>1, <2>3 DEF IInv, RulesInv, BL!RulesOf, BL!Side, RulesOf, Side
    <3>3. BL!Unwant(job.row.ip)
      BY <2>1, <3>1, <3>2 DEF BL!Unwant
    <3> QED
      BY <2>1, <3>3 DEF BL!Next
  <2>4. CASE ~Blocks(job) /\ ~LastEnabled(job)
    BY <2>1, <2>4, WriteEffect DEF IInv
  <2> QED
    BY <2>2, <2>3, <2>4
<1>4. ASSUME NEW a \in Ip, NEW id \in ItemId, AddWhite(a, id)
      PROVE  UNCHANGED <<Enabled(rows), rules>>
  BY <1>4, WhiteInsert DEF AddWhite
<1>5. ASSUME NEW r \in rows, ToggleWhite(r) \/ DeleteWhite(r)
      PROVE  UNCHANGED <<Enabled(rows), rules>>
  <2>1. /\ rows \subseteq Row /\ r.type = "white" /\ rules' = rules
        /\ rows' = rows \ {r} \/ rows' = (rows \ {r}) \cup {Flipped(r)}
    BY <1>5 DEF ToggleWhite, DeleteWhite, IInv, TypeOK
  <2>2. /\ Enabled(rows \ {r}) = Enabled(rows)
        /\ Enabled((rows \ {r}) \cup {Flipped(r)}) = Enabled(rows)
    BY <2>1, WhiteChange
  <2> QED
    BY <2>1, <2>2
<1>6. CASE UNCHANGED <<rows, rules>>
  BY <1>6
<1> QED
  BY <1>1, <1>2, <1>3, <1>4, <1>5, <1>6 DEF Next, vars, BootBlind, Boot, EndPurge,
     EndRestore, AddBlack, ToggleBlack, DeleteBlack, Begin, Stop

\* The firewall leads the table in both directions: every step of FirewallSync
\* is a step of BlockList or changes neither table nor rules.
THEOREM Refinement == Spec => ImplementsBlockList
<1>1. Init => BL!Init
  BY EnabledMember DEF Init, BL!Init
<1>2. IInv /\ [Next]_vars => [BL!Next]_<<Enabled(rows), rules>>
  BY RefineStep
<1> QED
  BY <1>1, <1>2, Inductive, PTL DEF Spec, BL!Spec, ImplementsBlockList
===============================================================================
