--------------------------- MODULE CaptureLifecycle ---------------------------
(***************************************************************************)
(* Live capture: CaptureEngine and the worker of AppRuntime.  The UI       *)
(* thread starts and stops two kinds of threads through two shared flags   *)
(* (capture.running, runtime.running) and joins them with a timeout.  The  *)
(* flags belong to no thread in particular: a thread that outlives the     *)
(* join finds the flag of its successor.                                   *)
(***************************************************************************)
EXTENDS Integers, FiniteSets

CONSTANTS
  MaxStarts,  (* bound on the sniff threads and on the workers created       *)
  QueueSize,  (* packet_queue maxsize (10000 in the code)                    *)
  Faults      (* TRUE: WinDivert may be missing or refuse to open, and the   *)
              (* processing of a batch may raise                             *)

ASSUME CaptureAssumption ==
  /\ MaxStarts \in Nat \ {0} /\ QueueSize \in Nat \ {0}
  /\ Faults \in BOOLEAN

VARIABLES
  capturing,  (* CaptureEngine.running                                       *)
  monitoring, (* AppRuntime.running                                          *)
  sniffer,    (* per sniff thread, where it is                               *)
  handle,     (* per sniff thread, its WinDivert handle                      *)
  thread,     (* CaptureEngine.thread, 0 is None                             *)
  divert,     (* CaptureEngine._divert, by its sniff thread; 0 is None       *)
  worker,     (* per worker thread, where it is                              *)
  current,    (* AppRuntime.worker, 0 is None                                *)
  queue,      (* packets in packet_queue                                     *)
  ui,         (* what the UI thread is doing and the thread it joins         *)
  expired     (* history: a join has given up on a live thread               *)

captureVars == <<capturing, monitoring, sniffer, handle, thread, divert, worker,
          current, queue, ui, expired>>
engine == <<capturing, sniffer, handle, thread, divert>>

Id == 1 .. MaxStarts
AtRest == [at |-> "idle", op |-> "none", joins |-> 0]

Alive(state) == state \notin {"unborn", "dead"}
LiveSniffers == {i \in Id : Alive(sniffer[i])}
LiveWorkers == {i \in Id : Alive(worker[i])}
Unborn == {i \in Id : sniffer[i] = "unborn"}

CaptureInit ==
  /\ capturing = FALSE
  /\ monitoring = FALSE
  /\ sniffer = [i \in Id |-> "unborn"]
  /\ handle = [i \in Id |-> "none"]
  /\ thread = 0
  /\ divert = 0
  /\ worker = [i \in Id |-> "unborn"]
  /\ current = 0
  /\ queue = 0
  /\ ui = AtRest
  /\ expired = FALSE

\* _safe_close_divert: only an open handle is closed
Closed(i) == [handle EXCEPT ![i] = IF @ = "open" THEN "closed" ELSE @]

-------------------------------------------------------------------------------
(* The UI thread *)

\* CaptureEngine.stop lowers the flag, takes the thread and the handle and
\* closes the handle; start begins with it too.
BeginStop(op) ==
  /\ ui.at = "idle"
  /\ capturing' = FALSE
  /\ ui' = [at |-> "detach", op |-> op, joins |-> 0]
  /\ UNCHANGED <<monitoring, sniffer, handle, thread, divert, worker, current, queue, expired>>

Detach ==
  /\ ui.at = "detach"
  /\ thread' = 0
  /\ divert' = 0
  /\ handle' = IF divert = 0 THEN handle ELSE Closed(divert)
  /\ ui' = [ui EXCEPT !.at = "join_sniffer", !.joins = thread]
  /\ UNCHANGED <<capturing, monitoring, sniffer, worker, current, queue, expired>>

Start == Unborn # {} /\ BeginStop("start")
Stop == BeginStop("stop")

\* join(timeout) returns when the thread is dead, or gives up on it.
Joined(state) == expired' = (expired \/ (ui.joins # 0 /\ Alive(state[ui.joins])))

\* Mutant of FinishStart: each start creates a worker.
FinishStartAnew ==
  /\ ui.at = "join_sniffer" /\ ui.op = "start"
  /\ Joined(sniffer)
  /\ \E i \in Unborn :
       /\ sniffer' = [sniffer EXCEPT ![i] = "born"]
       /\ thread' = i
       /\ worker' = [worker EXCEPT ![i] = "loop"]
       /\ current' = i
  /\ capturing' = TRUE
  /\ monitoring' = TRUE
  /\ ui' = AtRest
  /\ UNCHANGED <<handle, divert, queue>>

\* CaptureEngine.start after its stop, then AppRuntime.start_capture; a worker has
\* the number of the sniff thread it was created with.
FinishStart ==
  /\ ui.at = "join_sniffer" /\ ui.op = "start"
  /\ Joined(sniffer)
  /\ \E i \in Unborn :
       /\ sniffer' = [sniffer EXCEPT ![i] = "born"]
       /\ thread' = i
       /\ IF monitoring THEN UNCHANGED <<worker, current>>
          ELSE worker' = [worker EXCEPT ![i] = "loop"] /\ current' = i
  /\ capturing' = TRUE
  /\ monitoring' = TRUE
  /\ ui' = AtRest
  /\ UNCHANGED <<handle, divert, queue>>

\* Mutant of HaltWorker: the worker is not joined.
HaltWithoutJoin ==
  /\ ui.at = "join_sniffer" /\ ui.op = "stop"
  /\ Joined(sniffer)
  /\ monitoring' = FALSE
  /\ current' = 0
  /\ ui' = AtRest
  /\ UNCHANGED <<engine, worker, queue>>

\* AppRuntime.stop_capture after CaptureEngine.stop
HaltWorker ==
  /\ ui.at = "join_sniffer" /\ ui.op = "stop"
  /\ Joined(sniffer)
  /\ monitoring' = FALSE
  /\ current' = 0
  /\ ui' = [at |-> "join_worker", op |-> "stop", joins |-> current]
  /\ UNCHANGED <<engine, worker, queue>>

FinishStop ==
  /\ ui.at = "join_worker"
  /\ Joined(worker)
  /\ ui' = AtRest
  /\ UNCHANGED <<engine, monitoring, worker, current, queue>>

-------------------------------------------------------------------------------
(* A sniff thread: CaptureEngine._sniff_loop *)

Goes(i, to) == sniffer' = [sniffer EXCEPT ![i] = to]

NoPydivert(i) ==
  /\ sniffer[i] = "born" /\ Faults
  /\ Goes(i, "dead")
  /\ capturing' = FALSE
  /\ UNCHANGED <<monitoring, handle, thread, divert, worker, current, queue, ui, expired>>

\* divert.open() raises: the finally runs and the thread dies of the exception,
\* capture.running stays as it is.
OpenRaises(i) ==
  /\ sniffer[i] = "born" /\ Faults
  /\ Goes(i, "ending")
  /\ UNCHANGED <<capturing, monitoring, handle, thread, divert, worker, current, queue, ui, expired>>

Open(i) ==
  /\ sniffer[i] = "born"
  /\ Goes(i, "opened")
  /\ handle' = [handle EXCEPT ![i] = "open"]
  /\ UNCHANGED <<capturing, monitoring, thread, divert, worker, current, queue, ui, expired>>

Publish(i) ==
  /\ sniffer[i] = "opened"
  /\ Goes(i, "loop")
  /\ divert' = i
  /\ UNCHANGED <<capturing, monitoring, handle, thread, worker, current, queue, ui, expired>>

CheckRunning(i) ==
  /\ sniffer[i] = "loop"
  /\ Goes(i, IF capturing THEN "recv" ELSE "ending")
  /\ UNCHANGED <<capturing, monitoring, handle, thread, divert, worker, current, queue, ui, expired>>

\* recv() returns a packet of the host; the queue drops it when full, and
\* _normalize may turn it down.
Receive(i) ==
  /\ sniffer[i] = "recv" /\ handle[i] = "open"
  /\ Goes(i, "loop")
  /\ queue' \in {queue, IF queue < QueueSize THEN queue + 1 ELSE queue}
  /\ UNCHANGED <<capturing, monitoring, handle, thread, divert, worker, current, ui, expired>>

\* recv() on a closed handle raises: leave if stopped, else sleep and go round.
ReceiveRaises(i) ==
  /\ sniffer[i] = "recv" /\ handle[i] # "open"
  /\ Goes(i, IF capturing THEN "loop" ELSE "ending")
  /\ UNCHANGED <<capturing, monitoring, handle, thread, divert, worker, current, queue, ui, expired>>

\* Mutant of End: the finally does not close the handle.
EndWithoutClose(i) ==
  /\ sniffer[i] = "ending"
  /\ Goes(i, "dead")
  /\ divert' = IF divert = i THEN 0 ELSE divert
  /\ UNCHANGED <<capturing, monitoring, handle, thread, worker, current, queue, ui, expired>>

End(i) ==
  /\ sniffer[i] = "ending"
  /\ Goes(i, "dead")
  /\ handle' = Closed(i)
  /\ divert' = IF divert = i THEN 0 ELSE divert
  /\ UNCHANGED <<capturing, monitoring, thread, worker, current, queue, ui, expired>>

-------------------------------------------------------------------------------
(* A worker thread: AppRuntime._worker_loop *)

CheckMonitoring(i) ==
  /\ worker[i] = "loop" /\ monitoring
  /\ worker' = [worker EXCEPT ![i] = "get"]
  /\ UNCHANGED <<engine, monitoring, current, queue, ui, expired>>

\* The batch ends at the first 0.2 s without a packet, so any part may come.
Take(i) ==
  /\ worker[i] = "get"
  /\ \E n \in 0 .. queue :
       /\ queue' = queue - n
       /\ worker' = [worker EXCEPT ![i] = IF n = 0 THEN "loop" ELSE "busy"]
  /\ UNCHANGED <<engine, monitoring, current, ui, expired>>

Processed(i) ==
  /\ worker[i] = "busy"
  /\ worker' = [worker EXCEPT ![i] = "loop"]
  /\ UNCHANGED <<engine, monitoring, current, queue, ui, expired>>

\* _worker_loop catches nothing: the thread dies, runtime.running stays TRUE.
BatchRaises(i) ==
  /\ worker[i] = "busy" /\ Faults
  /\ worker' = [worker EXCEPT ![i] = "dead"]
  /\ UNCHANGED <<engine, monitoring, current, queue, ui, expired>>

\* Mutant of Leave: the worker drains the queue before it leaves.
LeaveDrained(i) ==
  /\ worker[i] = "loop" /\ ~monitoring /\ queue = 0
  /\ worker' = [worker EXCEPT ![i] = "dead"]
  /\ UNCHANGED <<engine, monitoring, current, queue, ui, expired>>

Leave(i) ==
  /\ worker[i] = "loop" /\ ~monitoring
  /\ worker' = [worker EXCEPT ![i] = "dead"]
  /\ UNCHANGED <<engine, monitoring, current, queue, ui, expired>>

-------------------------------------------------------------------------------
UIStep == Detach \/ FinishStart \/ HaltWorker \/ FinishStop
Sniff(i) ==
  \/ NoPydivert(i) \/ OpenRaises(i) \/ Open(i) \/ Publish(i)
  \/ CheckRunning(i) \/ Receive(i) \/ ReceiveRaises(i) \/ End(i)
Work(i) == CheckMonitoring(i) \/ Take(i) \/ Processed(i) \/ BatchRaises(i) \/ Leave(i)

CaptureNext ==
  \/ Start \/ Stop \/ UIStep
  \/ \E i \in Id : Sniff(i) \/ Work(i)

\* Every thread goes on; Receive is fair because the filter passes all IP
\* traffic of a host that has some.  Start and Stop are the operator's choice.
CaptureSpec ==
  /\ CaptureInit /\ [][CaptureNext]_captureVars
  /\ WF_captureVars(UIStep)
  /\ \A i \in Id : WF_captureVars(Sniff(i)) /\ WF_captureVars(Work(i))

-------------------------------------------------------------------------------
(* Properties *)

\* No WinDivert handle leaks, whatever fails and whichever join expires: an open
\* handle belongs to a live thread, and so does the handle stop() would close.
NoHandleLeaks ==
  /\ \A i \in Id : handle[i] = "open" => Alive(sniffer[i])
  /\ divert # 0 => sniffer[divert] \in {"loop", "recv", "ending"}

\* As long as no join has expired, at most one sniff thread and one worker
\* exist, however the operator presses start and stop and whatever fails.
OneOfEach ==
  ~expired => Cardinality(LiveSniffers) <= 1 /\ Cardinality(LiveWorkers) <= 1

\* As long as no join has expired, a completed stop leaves no thread and no open
\* handle.
StopIsComplete ==
  ~expired /\ ui = AtRest /\ ~monitoring =>
    /\ LiveSniffers = {} /\ LiveWorkers = {}
    /\ \A i \in Id : handle[i] # "open"

\* Even when joins expire, threads die out once capture stays stopped.
StoppedDiesOut ==
  (<>[](ui = AtRest /\ ~capturing /\ ~monitoring)) =>
    <>[](LiveSniffers = {} /\ LiveWorkers = {} /\ \A i \in Id : handle[i] # "open")
==============================================================================
