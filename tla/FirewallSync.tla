----------------------------- MODULE FirewallSync -----------------------------
(***************************************************************************)
(* The blacklist and the Windows firewall, as AppRuntime keeps them in     *)
(* step.  Three copies of one fact exist: the table blacklist_whitelist    *)
(* (survives a restart), the netsh rules (survive a restart) and the set   *)
(* blocked_ips (does not).  Every operation runs on the UI thread, so two  *)
(* operations never interleave, but each one is a netsh call followed by   *)
(* a commit: the call may fail, and the process may die between the two.   *)
(***************************************************************************)
EXTENDS Integers, FiniteSets

CONSTANTS
  Ip,     (* the addresses _is_valid_ipv4 accepts; others never get here  *)
  ItemId, (* row ids of blacklist_whitelist                               *)
  NoJob   (* value of job while no operation is under way                 *)

Side == {"OUT", "IN"}
RulesOf(ip) == {ip} \X Side
Row == [id : ItemId, ip : Ip, type : {"black", "white"}, on : BOOLEAN]
Job == [op : {"insert", "update", "delete"}, row : Row]

ASSUME NoJobAssumption == NoJob \notin Job

VARIABLES
  rows,    (* the table                                                   *)
  rules,   (* managed firewall rules, as <<address, side>>                *)
  blocked, (* blocked_ips                                                 *)
  phase,   (* where the UI thread is                                      *)
  job,     (* the operation under way                                     *)
  todo,    (* addresses the bootstrap loop under way has still to visit   *)
  unsure   (* history: addresses whose last netsh call did not succeed    *)

vars == <<rows, rules, blocked, phase, job, todo, unsure>>

Phase == {"down", "purge", "restore", "idle", "firewall", "write"}

EnabledBlack(r) == r.type = "black" /\ r.on
\* _load_enabled_blacklist_ips
Enabled(tbl) == {r.ip : r \in {s \in tbl : EnabledBlack(s)}}
\* Mutants of the next definition: disabled rows count; no row counts.
OtherListed(r) == \E s \in rows : s.type = "black" /\ s.ip = r.ip /\ s.id # r.id
NoOther(r) == FALSE
\* _has_enabled_blacklist_entry(ip, exclude_item_id)
OtherEnabled(r) == \E s \in rows : EnabledBlack(s) /\ s.ip = r.ip /\ s.id # r.id
\* _load_managed_firewall_blocked_ips
RuleIps == {rule[1] : rule \in rules}

Init ==
  /\ rows = {}
  /\ rules = {}
  /\ blocked = {}
  /\ phase = "down"
  /\ job = NoJob
  /\ todo = {}
  /\ unsure = {}

-------------------------------------------------------------------------------
(* The two netsh helpers: the rules they leave and whether they succeed.   *)

\* _ensure_firewall_block_rules: OUT first, then IN; the first failure returns.
EnsureOk(ip) ==
  /\ rules' = rules \cup RulesOf(ip)
  /\ unsure' = unsure \ {ip}

EnsureFails(ip) ==
  /\ \E added \in {{}, {<<ip, "OUT">>}} : rules' = rules \cup added
  /\ unsure' = unsure \cup {ip}

\* _remove_firewall_block_rules: both deletions run; "no such rule" is success.
RemoveOk(ip) ==
  /\ rules' = rules \ RulesOf(ip)
  /\ unsure' = unsure \ {ip}

RemoveFails(ip) ==
  /\ \E removed \in {{}, {<<ip, "OUT">>}, {<<ip, "IN">>}} : rules' = rules \ removed
  /\ unsure' = unsure \cup {ip}

-------------------------------------------------------------------------------
(* Start: _bootstrap_firewall_blacklist_sync, called by AppRuntime.__init__ *)

\* "netsh ... show rule" fails: the code takes the firewall to be empty.
BootBlind ==
  /\ phase = "down"
  /\ phase' = "purge"
  /\ todo' = {}
  /\ unsure' = unsure \cup (Ip \ Enabled(rows))
  /\ UNCHANGED <<rows, rules, blocked, job>>

\* Mutant of Boot: the rules nobody asked for any more stay.
BootWithoutPurge ==
  /\ phase = "down"
  /\ phase' = "purge"
  /\ todo' = {}
  /\ unsure' = {}
  /\ UNCHANGED <<rows, rules, blocked, job>>

Boot ==
  /\ phase = "down"
  /\ phase' = "purge"
  /\ todo' = RuleIps \ Enabled(rows)
  /\ unsure' = {}
  /\ UNCHANGED <<rows, rules, blocked, job>>

\* The results of the calls are ignored in both loops.
Purge(ip) ==
  /\ phase = "purge"
  /\ ip \in todo
  /\ RemoveOk(ip) \/ RemoveFails(ip)
  /\ todo' = todo \ {ip}
  /\ UNCHANGED <<rows, blocked, phase, job>>

EndPurge ==
  /\ phase = "purge"
  /\ todo = {}
  /\ phase' = "restore"
  /\ todo' = Enabled(rows)
  /\ UNCHANGED <<rows, rules, blocked, job, unsure>>

Restore(ip) ==
  /\ phase = "restore"
  /\ ip \in todo
  /\ EnsureOk(ip) \/ EnsureFails(ip)
  /\ todo' = todo \ {ip}
  /\ UNCHANGED <<rows, blocked, phase, job>>

EndRestore ==
  /\ phase = "restore"
  /\ todo = {}
  /\ phase' = "idle"
  /\ blocked' = Enabled(rows)
  /\ UNCHANGED <<rows, rules, job, todo, unsure>>

-------------------------------------------------------------------------------
(* The operations of the list page and of the alert page.                  *)

Begin(op, row, next) ==
  /\ job' = [op |-> op, row |-> row]
  /\ phase' = next
  /\ UNCHANGED <<rows, rules, blocked, todo, unsure>>

\* Mutant of Unused: row ids are not a key.
AnyId(id) == id \in ItemId
Unused(id) == \A r \in rows : r.id # id

\* upsert_blacklist_with_firewall(enabled=1) and block_ip_with_firewall: both
\* always insert a new row, also for an address that has one.
AddBlack(ip, id) ==
  /\ phase = "idle"
  /\ Unused(id)
  /\ Begin("insert", [id |-> id, ip |-> ip, type |-> "black", on |-> TRUE], "firewall")

\* update_list_item_with_firewall, as toggle_selected_list calls it
ToggleBlack(r) ==
  /\ phase = "idle"
  /\ r.type = "black"
  /\ Begin("update", r, IF r.on /\ OtherEnabled(r) THEN "write" ELSE "firewall")

\* Mutant of DeleteBlack: the row goes and its firewall rules stay.
DeleteRowOnly(r) ==
  /\ phase = "idle"
  /\ r.type = "black"
  /\ Begin("delete", r, "write")

\* delete_list_item_with_firewall
DeleteBlack(r) ==
  /\ phase = "idle"
  /\ r.type = "black"
  /\ Begin("delete", r, IF r.on /\ ~OtherEnabled(r) THEN "firewall" ELSE "write")

Blocks(j) == j.op = "insert" \/ (j.op = "update" /\ ~j.row.on)

FirewallOk ==
  /\ phase = "firewall"
  /\ phase' = "write"
  /\ \/ /\ Blocks(job)
        /\ EnsureOk(job.row.ip)
        /\ blocked' = blocked \cup {job.row.ip}
     \/ /\ ~Blocks(job)
        /\ RemoveOk(job.row.ip)
        /\ blocked' = blocked \ {job.row.ip}
  /\ UNCHANGED <<rows, job, todo>>

\* The operation returns (False, msg) and leaves table and cache alone.
FirewallFails ==
  /\ phase = "firewall"
  /\ phase' = "idle"
  /\ job' = NoJob
  /\ \/ Blocks(job) /\ EnsureFails(job.row.ip)
     \/ ~Blocks(job) /\ RemoveFails(job.row.ip)
  /\ UNCHANGED <<rows, blocked, todo>>

Flipped(r) == [r EXCEPT !.on = ~r.on]

Written(j) ==
  CASE j.op = "insert" -> rows \cup {j.row}
    [] j.op = "update" -> (rows \ {j.row}) \cup {Flipped(j.row)}
    [] j.op = "delete" -> rows \ {j.row}

\* ListService.upsert, update_item or delete, then the re-check of the cache
Write ==
  /\ phase = "write"
  /\ phase' = "idle"
  /\ job' = NoJob
  /\ rows' = Written(job)
  /\ blocked' = blocked \cup ({job.row.ip} \cap Enabled(rows'))
  /\ UNCHANGED <<rules, todo, unsure>>

\* Whitelist entries go straight to ListService.
AddWhite(ip, id) ==
  /\ phase = "idle"
  /\ Unused(id)
  /\ rows' = rows \cup {[id |-> id, ip |-> ip, type |-> "white", on |-> TRUE]}
  /\ UNCHANGED <<rules, blocked, phase, job, todo, unsure>>

ToggleWhite(r) ==
  /\ phase = "idle"
  /\ r.type = "white"
  /\ rows' = (rows \ {r}) \cup {Flipped(r)}
  /\ UNCHANGED <<rules, blocked, phase, job, todo, unsure>>

DeleteWhite(r) ==
  /\ phase = "idle"
  /\ r.type = "white"
  /\ rows' = rows \ {r}
  /\ UNCHANGED <<rules, blocked, phase, job, todo, unsure>>

\* The process ends: the window is closed, or it dies at any point.
Stop ==
  /\ phase # "down"
  /\ phase' = "down"
  /\ blocked' = {}
  /\ job' = NoJob
  /\ todo' = {}
  /\ UNCHANGED <<rows, rules, unsure>>

-------------------------------------------------------------------------------
Next ==
  \/ BootBlind \/ Boot \/ EndPurge \/ EndRestore
  \/ \E ip \in Ip : Purge(ip) \/ Restore(ip)
  \/ \E ip \in Ip, id \in ItemId : AddBlack(ip, id) \/ AddWhite(ip, id)
  \/ \E r \in rows : \/ ToggleBlack(r) \/ DeleteBlack(r)
                     \/ ToggleWhite(r) \/ DeleteWhite(r)
  \/ FirewallOk \/ FirewallFails \/ Write
  \/ Stop

Spec == Init /\ [][Next]_vars

-------------------------------------------------------------------------------
(* Properties *)

\* The types of the state, and row ids are a key of the table.
TypeOK ==
  /\ rows \subseteq Row
  /\ \A r, s \in rows : r.id = s.id => r = s
  /\ rules \subseteq Ip \X Side
  /\ blocked \subseteq Ip
  /\ phase \in Phase
  /\ job \in Job \cup {NoJob}
  /\ todo \subseteq Ip
  /\ unsure \subseteq Ip

\* Between operations blocked_ips, which the dashboard counts, is exactly the
\* set of addresses with an enabled blacklist row, whatever duplicates the
\* table holds and whichever operations failed halfway.
CacheMatchesTable == phase = "idle" => blocked = Enabled(rows)

\* Two-way synchronisation: between operations an address whose last netsh
\* call succeeded has both rules when the blacklist has an enabled row for it
\* and none otherwise; so a restart repairs what a crash between the netsh
\* call and the commit left behind.
FirewallMatchesTable ==
  phase = "idle" =>
    \A ip \in Ip \ unsure :
      rules \cap RulesOf(ip) = IF ip \in Enabled(rows) THEN RulesOf(ip) ELSE {}

\* No operation takes a rule away from an address that some other enabled row
\* than the one it works on still blocks.
SharedAddressStaysBlocked ==
  [][\A ip \in Ip :
       (RulesOf(ip) \cap rules) \ rules' # {} =>
         \A r \in rows : EnabledBlack(r) /\ r.ip = ip => job # NoJob /\ r = job.row]_vars

\* The firewall leads the table in both directions (see BlockList).
BL == INSTANCE BlockList WITH wanted <- Enabled(rows)
ImplementsBlockList == BL!Spec
===============================================================================
