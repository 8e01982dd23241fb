----------------------------- MODULE LiveDetection -----------------------------
(***************************************************************************)
(* DetectionService.process on the live workers, with the learning window  *)
(* the start button opens and the stop button closes, the samples gathered *)
(* in it, and the training the first batch after it pays for.  Nothing     *)
(* of it is locked: the UI thread and an import set learning_until, and a  *)
(* worker that outlives its join trains beside its successor.  How threads *)
(* are joined is the subject of CaptureLifecycle; here a join may expire.  *)
(* A sample is the number of the last window opened before its batch.      *)
(***************************************************************************)
EXTENDS RuleVerdicts

CONSTANTS
  MaxStarts,  (* bound on the presses of the start button                    *)
  MaxBatches, (* bound on the batches the workers take                       *)
  MaxImports, (* bound on the imports                                        *)
  MinSamples  (* MIN_MODEL_TRAIN_SAMPLES (256 in the code)                   *)

ASSUME DetectionAssumption ==
  MaxStarts \in Nat /\ MaxBatches \in Nat /\ MaxImports \in Nat /\ MinSamples \in Nat \ {0}

VARIABLES
  running,  (* AppRuntime.running                                            *)
  worker,   (* per worker, where it is                                       *)
  current,  (* AppRuntime.worker; 0: none                                    *)
  ui,       (* what the pressed button has still to do                       *)
  expired,  (* history: a join has given up on a live worker                 *)
  held,     (* per worker, the samples it has in its hands                   *)
  until,    (* learning_until, as the number of its window; 0: no window     *)
  over,     (* the last window that ended by itself                          *)
  windows,  (* windows opened so far                                         *)
  backup,   (* learning_until_backup of the import; -1: there is none        *)
  imports,  (* imports begun                                                 *)
  buffer,   (* learning_features                                             *)
  scaler,   (* the samples the scaler was fitted to                          *)
  forest,   (* the samples the isolation forest was fitted to                *)
  baseline, (* the means and deviations the rules go by                      *)
  file,     (* the scaler and the forest on disk, in this order              *)
  cut,      (* history: an error has ended a training halfway                *)
  mixed,    (* history: a worker has opened the file while another wrote it  *)
  batches   (* batches taken so far                                          *)

threads == <<running, worker, current, ui, expired>>
window == <<until, over, windows, backup, imports>>
model == <<scaler, forest, baseline, file, cut, mixed>>
vars == <<threads, held, window, buffer, model, batches>>

Id == 1 .. MaxStarts
InLearning == until > over

\* What is left of a scaler, a forest or a part of the file that was not finished
Torn == << >>

Init ==
  /\ running = FALSE /\ worker = [i \in Id |-> "unborn"] /\ current = 0
  /\ ui = "rest" /\ expired = FALSE
  /\ held = [i \in Id |-> << >>]
  /\ until = 0 /\ over = 0 /\ windows = 0 /\ backup = -1 /\ imports = 0
  /\ buffer = << >>
  /\ scaler = << >> /\ forest = << >> /\ baseline = DefaultBaseline
  /\ file = << << >>, << >> >> /\ cut = FALSE /\ mixed = FALSE
  /\ batches = 0

-------------------------------------------------------------------------------
(* The UI thread *)

\* runtime.start_capture; a running worker goes on.
StartCapture ==
  /\ ui = "rest" /\ windows < MaxStarts
  /\ running' = TRUE
  /\ IF running THEN UNCHANGED <<worker, current>>
     ELSE \E i \in Id :
            /\ worker[i] = "unborn"
            /\ worker' = [worker EXCEPT ![i] = "rest"]
            /\ current' = i
  /\ ui' = "learn"
  /\ UNCHANGED <<expired, held, window, buffer, model, batches>>

\* Mutant of StartLearning: the samples of the last window stay.
KeepLearning ==
  /\ ui = "learn"
  /\ windows' = windows + 1
  /\ until' = windows'
  /\ ui' = "rest"
  /\ UNCHANGED <<running, worker, current, expired, held, over, backup, imports, buffer, model,
                 batches>>

\* runtime.start_learning, which the button calls next; its two statements are one
\* step: what comes between them is cleared with the rest.
StartLearning ==
  /\ ui = "learn"
  /\ windows' = windows + 1
  /\ until' = windows'
  /\ buffer' = << >>
  /\ ui' = "rest"
  /\ UNCHANGED <<running, worker, current, expired, held, over, backup, imports, model, batches>>

StopCapture ==
  /\ ui = "rest"
  /\ running' = FALSE
  /\ ui' = "join"
  /\ UNCHANGED <<worker, current, expired, held, window, buffer, model, batches>>

\* The join has succeeded, or expires; then the window is closed.
EndStop ==
  /\ ui = "join"
  /\ expired' = (expired \/ (current # 0 /\ worker[current] # "dead"))
  /\ current' = 0
  /\ until' = 0
  /\ ui' = "rest"
  /\ UNCHANGED <<running, worker, held, over, windows, backup, imports, buffer, model, batches>>

WindowEnds ==
  /\ InLearning
  /\ over' = until
  /\ UNCHANGED <<threads, held, until, windows, backup, imports, buffer, model, batches>>

-------------------------------------------------------------------------------
(* An import, which suspends the window; see OfflineImport *)

BeginImport ==
  /\ backup = -1 /\ imports < MaxImports
  /\ imports' = imports + 1
  /\ backup' = until
  /\ until' = IF InLearning THEN 0 ELSE until
  /\ UNCHANGED <<threads, held, over, windows, buffer, model, batches>>

EndImport ==
  /\ backup # -1
  /\ until' = backup
  /\ backup' = -1
  /\ UNCHANGED <<threads, held, over, windows, imports, buffer, model, batches>>

-------------------------------------------------------------------------------
(* A worker *)

Goes(i, from, to) == worker[i] = from /\ worker' = [worker EXCEPT ![i] = to]
Holds(i, samples) == held' = [held EXCEPT ![i] = samples]
OwnStep == UNCHANGED <<running, current, ui, expired, window>>

Take(i) ==
  /\ running /\ batches < MaxBatches
  /\ Goes(i, "rest", "check")
  /\ batches' = batches + 1
  /\ UNCHANGED <<held, buffer, model>> /\ OwnStep

Leave(i) ==
  /\ ~running
  /\ Goes(i, "rest", "dead")
  /\ UNCHANGED <<held, buffer, model, batches>> /\ OwnStep

\* The head of _consume_learning_window and of _train_learning_buffer_if_needed
Check(i) ==
  /\ IF InLearning THEN Goes(i, "check", "extend") /\ Holds(i, <<windows>>)
     ELSE IF Len(buffer) < MinSamples THEN Goes(i, "check", "judge") /\ UNCHANGED held
     ELSE Goes(i, "check", "scaler") /\ Holds(i, buffer)
  /\ UNCHANGED <<buffer, model, batches>> /\ OwnStep

\* In a window nothing is judged.
Extend(i) ==
  /\ Goes(i, "extend", "rest")
  /\ buffer' = buffer \o held[i]
  /\ Holds(i, << >>)
  /\ UNCHANGED <<model, batches>> /\ OwnStep

\* ModelEngine.train: the scaler and the forest are fitted in place.
FitScaler(i) ==
  /\ Goes(i, "scaler", "forest")
  /\ scaler' = held[i]
  /\ UNCHANGED <<held, buffer, forest, baseline, file, cut, mixed, batches>> /\ OwnStep

FitForest(i) ==
  /\ Goes(i, "forest", "dump")
  /\ forest' = held[i]
  /\ UNCHANGED <<held, buffer, scaler, baseline, file, cut, mixed, batches>> /\ OwnStep

\* joblib.dump opens the file in use, which empties it, and streams the scaler into it
\* and then the forest, each as it is in memory by then.
Dumping == {"put scaler", "put forest"}
Other(i, states) == \E j \in Id \ {i} : worker[j] \in states

BeginDump(i) ==
  /\ Goes(i, "dump", "put scaler")
  /\ file' = <<Torn, Torn>>
  /\ mixed' = (mixed \/ Other(i, Dumping))
  /\ UNCHANGED <<held, buffer, scaler, forest, baseline, cut, batches>> /\ OwnStep

\* What another worker is fitting, or is writing at a place of its own in the same file,
\* may come out unusable.
Written(i, part, fitting) ==
  {part} \cup (IF Other(i, {fitting} \cup Dumping) THEN {Torn} ELSE {})

PutScaler(i) ==
  /\ Goes(i, "put scaler", "put forest")
  /\ \E part \in Written(i, scaler, "scaler") : file' = <<part, file[2]>>
  /\ UNCHANGED <<held, buffer, scaler, forest, baseline, cut, mixed, batches>> /\ OwnStep

\* Mutant of PutForest: what this worker has fitted is saved.
PutForestOwn(i) ==
  /\ Goes(i, "put forest", "baseline")
  /\ file' = <<file[1], held[i]>>
  /\ UNCHANGED <<held, buffer, scaler, forest, baseline, cut, mixed, batches>> /\ OwnStep

PutForest(i) ==
  /\ Goes(i, "put forest", "baseline")
  /\ \E part \in Written(i, forest, "forest") : file' = <<file[1], part>>
  /\ UNCHANGED <<held, buffer, scaler, forest, baseline, cut, mixed, batches>> /\ OwnStep

\* update_baseline, and the end of _train_learning_buffer_if_needed
EndTraining(i) ==
  /\ Goes(i, "baseline", "judge")
  /\ baseline' \in Baselines
  /\ buffer' = << >>
  /\ Holds(i, << >>)
  /\ UNCHANGED <<scaler, forest, file, cut, mixed, batches>> /\ OwnStep

\* The features are judged (RuleVerdicts), and what is high is notified.
Judge(i) ==
  /\ Goes(i, "judge", "rest")
  /\ UNCHANGED <<held, buffer, model, batches>> /\ OwnStep

\* In ModelEngine.train
Training == {"scaler", "forest", "dump"} \cup Dumping

\* Nothing catches an error: the worker dies, and running stays as it is. What it was
\* fitting may be reset, and the forest is there before its threshold is.
Raises(i) ==
  /\ worker[i] \notin {"unborn", "rest", "dead"}
  /\ Goes(i, worker[i], "dead")
  /\ Holds(i, << >>)
  /\ cut' = (cut \/ worker[i] \in Training)
  /\ scaler' \in {scaler} \cup (IF worker[i] = "scaler" THEN {Torn} ELSE {})
  /\ forest' \in {forest} \cup (IF worker[i] = "forest" THEN {Torn, held[i]} ELSE {})
  /\ UNCHANGED <<buffer, baseline, file, mixed, batches>> /\ OwnStep

-------------------------------------------------------------------------------
Button == StartCapture \/ StartLearning \/ StopCapture \/ EndStop
Work(i) ==
  \/ Take(i) \/ Leave(i) \/ Check(i) \/ Extend(i) \/ FitScaler(i) \/ FitForest(i)
  \/ BeginDump(i) \/ PutScaler(i) \/ PutForest(i) \/ EndTraining(i) \/ Judge(i) \/ Raises(i)

Next == Button \/ WindowEnds \/ BeginImport \/ EndImport \/ \E i \in Id : Work(i)

Spec == Init /\ [][Next]_vars

-------------------------------------------------------------------------------
(* Properties *)

\* A model is trained on one learning window: however capture was stopped and
\* started and imports suspended the window, at most the one batch that was under
\* way when the window opened comes from before it, as long as no join has expired.
OneWindow ==
  ~expired => Cardinality({n \in DOMAIN forest : forest[n] # Last(forest)}) <= 1

\* What the next start of the program loads is what this one scores with, even after
\* one worker has fitted its model while another wrote the file, unless an error has cut
\* a training off or two workers have written the file at once.
FileIsModel ==
  ~cut /\ ~mixed /\ (\A i \in Id : worker[i] \notin Training) => file = <<scaler, forest>>

\* Whatever was learned, the verdicts are sound: more of what is counted never makes
\* an alert less, and the alert names a rule that applies, of the highest level.
SoundUnder == [b \in Baselines \cup {DefaultBaseline} |-> Monotone(b) /\ Explained(b)]
VerdictsSound == SoundUnder[baseline]
===============================================================================
