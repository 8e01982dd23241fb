------------------------------ MODULE TrafficPage ------------------------------
(***************************************************************************)
(* The traffic page of the desktop program.  The UI thread asks for a page *)
(* of packets by starting a query thread and polls for the answer.  Each   *)
(* request has a token and a poll for an old token is dropped, but the     *)
(* three fields the query threads answer in (_packet_query_result, _error, *)
(* _done) are one per window: a slow thread of an earlier request answers  *)
(* in them too.                                                            *)
(***************************************************************************)
EXTENDS Integers, FiniteSets, Functions, FiniteSetsExt

CONSTANTS
  MaxToken,   (* bound on _packet_load_token                                 *)
  MaxImports  (* bound on the imports started                                *)

ASSUME PageAssumption == MaxToken \in Nat \ {0} /\ MaxImports \in Nat

VARIABLES
  auth,      (* is_authenticated                                            *)
  must,      (* users.must_change of the operator's account                 *)
  dialog,    (* the dialog that asks for a new password is open             *)
  token,     (* _packet_load_token                                          *)
  source,    (* packet_filter_source_var                                    *)
  asked,     (* per token, the source its request asked for                 *)
  by,        (* who made the last request                                   *)
  query,     (* per token, where its query thread is                        *)
  result,    (* whose rows _packet_query_result holds, 0: the empty page    *)
  failed,    (* _packet_query_error is set                                  *)
  done,      (* _packet_query_done                                          *)
  polls,     (* tokens with a poll callback still to run                    *)
  shown,     (* whose rows are in the view, 0: none                         *)
  status,    (* what the status line says                                   *)
  importing, (* the import thread is alive                                  *)
  imported,  (* _offline_import_done, and whether it failed                 *)
  chains,    (* chains of _poll_offline_import callbacks                    *)
  imports,   (* imports started                                             *)
  reports,   (* per import, how often its end was reported                  *)
  hurried,   (* history: an import was started before the last was reported *)
  overlapped (* history: a page was asked for while a query thread ran      *)

view == <<source, by, shown, status>>
answer == <<result, failed, done>>
user == <<auth, must, dialog>>
offline == <<importing, imported, chains, imports, reports, hurried>>
vars == <<user, token, asked, query, polls, view, answer, offline, overlapped>>

Token == 1 .. MaxToken
Source == {"live", "offline"}
Running == {t \in Token : query[t] \in {"running", "answered"}}

Requests == {t \in Token : query[t] # "none"}

Init ==
  /\ auth = FALSE /\ must \in BOOLEAN /\ dialog = FALSE
  /\ token = 0
  /\ source = "live" /\ by = "nobody" /\ shown = 0 /\ status = "idle"
  /\ asked = [t \in Token |-> "none"]
  /\ query = [t \in Token |-> "none"]
  /\ result = 0 /\ failed = FALSE /\ done = FALSE
  /\ polls = {}
  /\ importing = FALSE /\ imported = "no" /\ chains = 0 /\ imports = 0
  /\ reports = [n \in 1 .. MaxImports |-> 0] /\ hurried = FALSE
  /\ overlapped = FALSE

\* _packet_load_token += 1
NewToken == token < MaxToken /\ token' = token + 1

-------------------------------------------------------------------------------
(* The UI thread *)

\* load_packets: a new token, an empty view, fresh answer fields, a thread and
\* a poll
Load(who) ==
  /\ overlapped' = (overlapped \/ Running # {})
  /\ NewToken
  /\ asked' = [asked EXCEPT ![token'] = source']
  /\ query' = [query EXCEPT ![token'] = "running"]
  /\ polls' = polls \cup {token'}
  /\ result' = 0 /\ failed' = FALSE /\ done' = FALSE
  /\ by' = who
  /\ shown' = 0
  /\ status' = "pending"
  /\ UNCHANGED user

\* The page is opened, turned, sorted or filtered
AskPage ==
  /\ auth
  /\ source' \in Source
  /\ Load("user")
  /\ UNCHANGED offline

\* Mutant of Poll: the token is not compared.
PollAny(t) ==
  /\ t \in polls
  /\ done
  /\ polls' = polls \ {t}
  /\ IF failed
     THEN status' = "failed" /\ UNCHANGED <<shown, result>>
     ELSE status' = "shown" /\ shown' = result /\ result' = 0
  /\ UNCHANGED <<user, token, asked, query, source, by, failed, done, offline, overlapped>>

\* _poll_packet_query comes back every 80 ms until it is done or too old.
Poll(t) ==
  /\ t \in polls
  /\ t = token => done
  /\ polls' = polls \ {t}
  /\ IF t # token THEN UNCHANGED <<shown, status, result>>
     ELSE IF failed THEN status' = "failed" /\ UNCHANGED <<shown, result>>
     ELSE status' = "shown" /\ shown' = result /\ result' = 0
  /\ UNCHANGED <<user, token, asked, query, source, by, failed, done, offline, overlapped>>

\* Who still has the initial password must change it first; the dialog waits in an
\* event loop of its own, in which the callbacks go on.
Login ==
  /\ ~auth /\ ~dialog
  /\ IF must THEN dialog' = TRUE /\ UNCHANGED auth ELSE auth' = TRUE /\ UNCHANGED dialog
  /\ UNCHANGED <<must, token, asked, query, polls, view, answer, offline, overlapped>>

\* AuthService.change_password, for a dialog filled in correctly
ChangePassword ==
  /\ dialog
  /\ dialog' = FALSE /\ must' = FALSE /\ auth' = TRUE
  /\ UNCHANGED <<token, asked, query, polls, view, answer, offline, overlapped>>

GiveUp ==
  /\ dialog
  /\ dialog' = FALSE
  /\ UNCHANGED <<auth, must, token, asked, query, polls, view, answer, offline, overlapped>>

\* Mutant of Logout: the requests under way stay valid.
LogoutSilently ==
  /\ auth
  /\ auth' = FALSE
  /\ UNCHANGED <<must, dialog, token, asked, query, polls, view, answer, offline, overlapped>>

Logout ==
  /\ auth
  /\ NewToken
  /\ auth' = FALSE
  /\ UNCHANGED <<must, dialog, asked, query, polls, view, answer, offline, overlapped>>

\* reset_traffic_display
Reset ==
  /\ auth
  /\ NewToken
  /\ source' = "offline" /\ shown' = 0 /\ status' = "idle"
  /\ UNCHANGED <<user, asked, query, polls, by, answer, offline, overlapped>>

\* Mutant of StartImport: the done flag of the last import stays up.
StartImportAsIs ==
  /\ auth /\ ~importing
  /\ imports < MaxImports
  /\ NewToken
  /\ source' = "offline" /\ shown' = 0 /\ status' = "importing"
  /\ importing' = TRUE
  /\ hurried' = (hurried \/ chains > 0)
  /\ chains' = chains + 1
  /\ imports' = imports + 1
  /\ UNCHANGED <<user, asked, query, polls, by, answer, imported, reports, overlapped>>

\* import_offline_pcap: one import thread at a time; a chain of polls each
StartImport ==
  /\ auth /\ ~importing
  /\ imports < MaxImports
  /\ NewToken
  /\ source' = "offline" /\ shown' = 0 /\ status' = "importing"
  /\ importing' = TRUE /\ imported' = "no"
  /\ hurried' = (hurried \/ chains > 0)
  /\ chains' = chains + 1
  /\ imports' = imports + 1
  /\ UNCHANGED <<user, asked, query, polls, by, answer, reports, overlapped>>

\* _poll_offline_import, when the import is done: it reports the last one, and
\* load_packets does nothing for a user who has logged out meanwhile.
PollImport ==
  /\ chains > 0
  /\ imported # "no"
  /\ chains' = chains - 1
  /\ reports' = [reports EXCEPT ![imports] = @ + 1]
  /\ UNCHANGED <<source, importing, imported, imports, hurried>>
  /\ \/ imported = "ok" /\ auth /\ Load("import")
     \/ /\ imported = "ok" => ~auth
        /\ status' = imported
        /\ UNCHANGED <<user, token, asked, query, polls, by, shown, answer, overlapped>>

-------------------------------------------------------------------------------
(* The other threads *)

Answer(t) ==
  /\ query[t] = "running"
  /\ query' = [query EXCEPT ![t] = "answered"]
  /\ \/ result' = t /\ UNCHANGED failed
     \/ failed' = TRUE /\ UNCHANGED result
  /\ UNCHANGED <<user, token, asked, polls, view, done, offline, overlapped>>

\* Mutant of Finish: no answer, no done.
FinishUnlessFailed(t) ==
  /\ query[t] = "answered"
  /\ query' = [query EXCEPT ![t] = "over"]
  /\ done' = (done \/ ~failed)
  /\ UNCHANGED <<user, token, asked, polls, view, result, failed, offline, overlapped>>

Finish(t) ==
  /\ query[t] = "answered"
  /\ query' = [query EXCEPT ![t] = "over"]
  /\ done' = TRUE
  /\ UNCHANGED <<user, token, asked, polls, view, result, failed, offline, overlapped>>

EndImport ==
  /\ importing
  /\ importing' = FALSE
  /\ imported' \in {"ok", "failed"}
  /\ UNCHANGED <<user, token, asked, query, polls, view, answer, chains, imports, reports, hurried,
                 overlapped>>

-------------------------------------------------------------------------------
Operator == AskPage \/ Login \/ ChangePassword \/ GiveUp \/ Logout \/ Reset \/ StartImport
Callback == PollImport \/ \E t \in Token : Poll(t)
Query(t) == Answer(t) \/ Finish(t)

Next == Operator \/ Callback \/ EndImport \/ \E t \in Token : Query(t)

\* Callbacks and query threads go on; a query always returns or raises.
Spec ==
  /\ Init /\ [][Next]_vars
  /\ \A t \in Token : WF_vars(Poll(t)) /\ WF_vars(Query(t))

-------------------------------------------------------------------------------
(* Properties *)

\* Nothing is drawn for a user who is no longer logged in, or who has yet to change
\* the initial password: a page asked for before the logout never appears after it.
NothingDrawnAfterLogout == [][shown' # shown /\ shown' # 0 => auth /\ ~must]_vars

\* As long as no page was asked for while a query thread ran, the rows in the
\* view are those of the last request, however logouts, resets, imports and late
\* polls fall between them.
RowsAnswerTheRequest ==
  ~overlapped /\ status = "shown" => shown \in Requests /\ \A t \in Requests : t <= shown

\* The last request is always answered, with rows or with an error.
PageComesBack == \A t \in Token : (t \in polls /\ t = token) ~> (t \notin polls)

\* However imports and logouts follow each other, an import is reported only when it
\* is over and no report is lost or made twice, unless the next import was started
\* before it was reported: then that one is reported for both.
ImportsReported ==
  LET made == SumFunction(reports)
  IN  /\ importing => reports[imports] = 0
      /\ made + chains = imports
      /\ ~hurried => \A n \in 1 .. imports : reports[n] <= 1
===============================================================================
