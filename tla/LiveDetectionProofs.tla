-------------------------- MODULE LiveDetectionProofs -------------------------
(***************************************************************************)
(* Proofs about LiveDetection: for any number of starts, batches and       *)
(* imports, a model is of one learning window, the file is the model, and  *)
(* the verdicts on any features under any baseline are sound.  Only the    *)
(* first sample of the buffer may be of an earlier window: it was in the   *)
(* hands of the one worker when the buffer was cleared, and that worker    *)
(* appends it before it takes another batch.                               *)
(***************************************************************************)
EXTENDS LiveDetection, FiniteSetTheorems, SequenceTheorems, TLAPS

WorkerState == {"unborn", "rest", "check", "extend", "scaler", "forest", "dump", "put scaler",
                "put forest", "baseline", "judge", "dead"}

TypeInv ==
  /\ worker \in [Id -> WorkerState]
  /\ held \in [Id -> Seq(Nat)]
  /\ buffer \in Seq(Nat) /\ forest \in Seq(Nat)
  /\ windows \in Nat
  /\ running \in BOOLEAN /\ expired \in BOOLEAN

Alive(i) == worker[i] \notin {"unborn", "dead"}

\* Unless a join has expired, the only worker alive is the one a stop would join.
WorkerInv ==
  /\ ui = "rest" /\ ~running => current = 0
  /\ ui = "learn" => running
  /\ ~expired => \A i \in Id : Alive(i) => i = current

\* All samples but the first are of one window.
Same(q) == \A m, n \in DOMAIN q \ {1} : q[m] = q[n]

BufferInv == \A n \in DOMAIN buffer \ {1} : buffer[n] = windows

\* The sample of an earlier window finds the buffer empty.
ExtendInv ==
  \A i \in Id : worker[i] = "extend" =>
    \E w \in Nat : held[i] = <<w>> /\ (w # windows => buffer = << >>)

TrainInv == \A i \in Id : worker[i] \in {"scaler", "forest"} => Same(held[i])

SampleInv == ~expired => Same(forest) /\ BufferInv /\ ExtendInv /\ TrainInv

\* One worker writes the file; the scaler it has put there is the one in memory unless
\* another worker, which will write the file after it, has gone on to train.
DumpInv ==
  ~cut /\ ~mixed =>
    \A i \in Id :
      /\ worker[i] \in Dumping => \A j \in Id \ {i} : worker[j] \notin Dumping
      /\ worker[i] = "put forest" /\ (\A j \in Id \ {i} : worker[j] \notin Training) =>
           file[1] = scaler

FileInv == FileIsModel /\ DumpInv

IInv == TypeInv /\ WorkerInv /\ SampleInv /\ FileInv

-------------------------------------------------------------------------------
(* IInv is inductive *)

\* Neither the file nor the model changes, and no worker enters, leaves or goes on with
\* a training.
LEMMA FileKept ==
  ASSUME FileInv, UNCHANGED model,
         \A i \in Id : worker'[i] = worker[i]
                          \/ (worker[i] \notin Training /\ worker'[i] \notin Training \ {"scaler"})
  PROVE  FileInv'
<1>1. UNCHANGED <<scaler, forest, file, cut, mixed>>
  BY DEF model
<1>2. \A i \in Id : worker[i] \in Training => worker'[i] = worker[i]
  OBVIOUS
<1>3. \A i \in Id : worker'[i] \in Dumping => worker'[i] = worker[i]
  BY DEF Training, Dumping
<1>4. "put forest" \in Dumping
  BY DEF Dumping
<1>5. FileIsModel'
  BY <1>1, <1>2 DEF FileInv, FileIsModel
<1>6. DumpInv'
  BY <1>1, <1>2, <1>3, <1>4 DEF FileInv, DumpInv
<1> QED
  BY <1>5, <1>6 DEF FileInv

LEMMA InitIInv == Init => IInv
<1> SUFFICES ASSUME Init
             PROVE  IInv
  OBVIOUS
<1>1. TypeInv
  <2>1. << >> \in Seq(Nat) /\ worker \in [Id -> WorkerState]
    BY DEF Init, WorkerState
  <2> QED
    BY <2>1 DEF Init, TypeInv
<1>2. WorkerInv /\ FileInv
  BY DEF Init, WorkerInv, Alive, FileInv, FileIsModel, DumpInv, Dumping, Training
<1>3. SampleInv
  BY DEF Init, SampleInv, Same, BufferInv, ExtendInv, TrainInv
<1> QED
  BY <1>1, <1>2, <1>3 DEF IInv

\* What opens, closes or suspends the window touches no sample.
LEMMA WindowStep ==
  ASSUME IInv, WindowEnds \/ BeginImport \/ EndImport \/ UNCHANGED vars
  PROVE  IInv'
<1>1. UNCHANGED <<threads, held, windows, buffer, model>>
  BY DEF WindowEnds, BeginImport, EndImport, vars, window
<1>2. TypeInv' /\ WorkerInv'
  BY <1>1 DEF IInv, TypeInv, WorkerInv, Alive, threads, model
<1>3. SampleInv'
  BY <1>1 DEF IInv, SampleInv, Same, BufferInv, ExtendInv, TrainInv, threads, model
<1>4. FileInv'
  BY <1>1, FileKept DEF IInv, threads
<1> QED
  BY <1>2, <1>3, <1>4 DEF IInv

\* A start finds no worker alive, if it makes one and no join has expired.
LEMMA StartCaptureStep ==
  ASSUME IInv, StartCapture
  PROVE  IInv'
<1>1. /\ ui = "rest" /\ ui' = "learn" /\ running'
      /\ UNCHANGED <<expired, held, windows, buffer, model>>
  BY DEF StartCapture, window
<1>2. CASE running
  <2>1. UNCHANGED <<worker, current, running>>
    BY <1>1, <1>2 DEF StartCapture, IInv, TypeInv
  <2>2. TypeInv' /\ WorkerInv'
    BY <1>1, <2>1 DEF IInv, TypeInv, WorkerInv, Alive, model
  <2>3. SampleInv'
    BY <1>1, <2>1 DEF IInv, SampleInv, Same, BufferInv, ExtendInv, TrainInv, model
  <2>4. FileInv'
    BY <1>1, <2>1, FileKept DEF IInv
  <2> QED
    BY <2>2, <2>3, <2>4 DEF IInv
<1>3. CASE ~running
  <2>1. PICK new \in Id : /\ worker[new] = "unborn" /\ current' = new
                          /\ worker' = [worker EXCEPT ![new] = "rest"]
    BY <1>3 DEF StartCapture
  <2>2. /\ worker'[new] = "rest" /\ running' = TRUE
        /\ \A i \in Id \ {new} : worker'[i] = worker[i]
    BY <1>1, <2>1 DEF IInv, TypeInv, StartCapture
  <2>3. TypeInv'
    BY <1>1, <2>1, <2>2 DEF IInv, TypeInv, WorkerState, model
  <2>4. WorkerInv'
    <3>1. ~expired => \A i \in Id : ~Alive(i)
      BY <1>1, <1>3, DetectionAssumption DEF IInv, WorkerInv, Id
    <3> QED
      BY <1>1, <2>1, <2>2, <3>1 DEF WorkerInv, Alive
  <2>5. SampleInv'
    BY <1>1, <2>2 DEF IInv, SampleInv, Same, BufferInv, ExtendInv, TrainInv, model
  <2>6. FileInv'
    BY <1>1, <2>1, <2>2, FileKept DEF IInv, Training, Dumping
  <2> QED
    BY <2>3, <2>4, <2>5, <2>6 DEF IInv
<1> QED
  BY <1>2, <1>3 DEF IInv, TypeInv

\* The buffer is cleared, so a sample a worker still holds comes first.
LEMMA StartLearningStep ==
  ASSUME IInv, StartLearning
  PROVE  IInv'
<1>1. /\ ui = "learn" /\ ui' = "rest" /\ windows' = windows + 1 /\ buffer' = << >>
      /\ UNCHANGED <<running, worker, current, expired, held, model>>
  BY DEF StartLearning
<1>2. TypeInv' /\ WorkerInv'
  BY <1>1 DEF IInv, TypeInv, WorkerInv, Alive, model
<1>4. FileInv'
  BY <1>1, FileKept DEF IInv
<1>3. SampleInv'
  BY <1>1 DEF IInv, SampleInv, Same, BufferInv, ExtendInv, TrainInv, model
<1> QED
  BY <1>2, <1>3, <1>4 DEF IInv

LEMMA StopStep ==
  ASSUME IInv, StopCapture \/ EndStop
  PROVE  IInv'
<1>1. UNCHANGED <<worker, held, windows, buffer, model>>
  BY DEF StopCapture, EndStop, window
<1>2. expired => expired'
  BY DEF StopCapture, EndStop
<1>3. TypeInv' /\ FileInv'
  BY <1>1, FileKept DEF StopCapture, EndStop, IInv, TypeInv, model
<1>4. SampleInv'
  BY <1>1, <1>2 DEF IInv, SampleInv, Same, BufferInv, ExtendInv, TrainInv, model
<1>5. WorkerInv'
  BY <1>1 DEF StopCapture, EndStop, IInv, TypeInv, WorkerInv, Alive, Id
<1> QED
  BY <1>3, <1>4, <1>5 DEF IInv

\* A step of a worker that stays the same kind of alive, or dies.
LEMMA WorkerKept ==
  ASSUME IInv, NEW i \in Id, OwnStep, Alive(i), NEW to \in WorkerState,
         worker' = [worker EXCEPT ![i] = to]
  PROVE  /\ WorkerInv'
         /\ worker' \in [Id -> WorkerState] /\ windows' \in Nat
         /\ running' \in BOOLEAN /\ expired' \in BOOLEAN
         /\ UNCHANGED <<expired, windows>>
         /\ worker'[i] = to /\ \A j \in Id \ {i} : worker'[j] = worker[j]
         /\ ~expired => \A j \in Id \ {i} : worker[j] \in {"unborn", "dead"}
BY DEF IInv, TypeInv, WorkerInv, Alive, OwnStep, window

\* Steps that touch neither samples nor the model, of a worker that holds none after.
LEMMA QuietWork ==
  ASSUME IInv, NEW i \in Id, Take(i) \/ Leave(i) \/ Judge(i)
  PROVE  IInv'
<1>1. PICK to \in {"rest", "check", "dead"} :
        /\ worker' = [worker EXCEPT ![i] = to] /\ OwnStep
        /\ Alive(i) /\ worker[i] \notin Training
        /\ UNCHANGED <<held, buffer, model>>
  <2>1. worker[i] \in {"rest", "judge"} => Alive(i) /\ worker[i] \notin Training
    BY DEF Alive, Training, Dumping
  <2>2. CASE Take(i)
    BY <2>1, <2>2 DEF Take, Goes
  <2>3. CASE Leave(i)
    BY <2>1, <2>3 DEF Leave, Goes
  <2>4. CASE Judge(i)
    BY <2>1, <2>4 DEF Judge, Goes
  <2> QED
    BY <2>2, <2>3, <2>4
<1>2. /\ WorkerInv'
      /\ worker' \in [Id -> WorkerState] /\ windows' \in Nat
      /\ running' \in BOOLEAN /\ expired' \in BOOLEAN
      /\ UNCHANGED <<expired, windows>>
      /\ worker'[i] = to /\ \A j \in Id \ {i} : worker'[j] = worker[j]
  BY <1>1, WorkerKept DEF WorkerState
<1>3. TypeInv'
  BY <1>1, <1>2 DEF IInv, TypeInv, model
<1>4. SampleInv'
  BY <1>1, <1>2 DEF IInv, SampleInv, Same, BufferInv, ExtendInv, TrainInv, model
<1>5. FileInv'
  BY <1>1, <1>2, FileKept DEF IInv, Training, Dumping
<1> QED
  BY <1>2, <1>3, <1>4, <1>5 DEF IInv

\* A batch is sampled as of the last window; a training takes what is buffered.
LEMMA CheckStep ==
  ASSUME IInv, NEW i \in Id, Check(i)
  PROVE  IInv'
<1>0. windows \in Nat /\ held \in [Id -> Seq(Nat)] /\ buffer \in Seq(Nat)
  BY DEF IInv, TypeInv
<1>1. PICK to \in {"extend", "judge", "scaler"} :
        /\ worker' = [worker EXCEPT ![i] = to] /\ OwnStep
        /\ worker[i] = "check"
        /\ \/ to = "extend" /\ held' = [held EXCEPT ![i] = <<windows>>]
           \/ to = "judge" /\ held' = held
           \/ to = "scaler" /\ held' = [held EXCEPT ![i] = buffer]
        /\ UNCHANGED <<buffer, model>>
  BY DEF Check, Goes, Holds
<1>2. /\ WorkerInv'
      /\ worker' \in [Id -> WorkerState] /\ windows' \in Nat
      /\ running' \in BOOLEAN /\ expired' \in BOOLEAN
      /\ UNCHANGED <<expired, windows>>
      /\ worker'[i] = to /\ \A j \in Id \ {i} : worker'[j] = worker[j]
  BY <1>1, WorkerKept DEF Alive, WorkerState
<1>3. /\ held' \in [Id -> Seq(Nat)]
      /\ to = "extend" => held'[i] = <<windows>>
      /\ to = "scaler" => held'[i] = buffer
      /\ \A j \in Id \ {i} : held'[j] = held[j]
  <2>1. PICK samples \in Seq(Nat) :
          /\ held' = [held EXCEPT ![i] = samples]
          /\ to = "extend" => samples = <<windows>>
          /\ to = "scaler" => samples = buffer
    <3>1. held = [held EXCEPT ![i] = held[i]] /\ held[i] \in Seq(Nat) /\ <<windows>> \in Seq(Nat)
      BY <1>0
    <3> QED
      BY <1>0, <1>1, <3>1
  <2> QED
    BY <1>0, <2>1
<1>4. TypeInv'
  BY <1>1, <1>2, <1>3 DEF IInv, TypeInv, model
<1>5. SampleInv'
  <2> SUFFICES ASSUME ~expired
               PROVE  SampleInv'
    BY <1>2 DEF SampleInv
  <2>1. Same(forest)' /\ BufferInv'
    BY <1>1, <1>2 DEF IInv, SampleInv, Same, BufferInv, model
  <2>2. ExtendInv'
    BY <1>0, <1>1, <1>2, <1>3 DEF IInv, SampleInv, ExtendInv
  <2>3. TrainInv'
    BY <1>1, <1>2, <1>3 DEF IInv, SampleInv, Same, BufferInv, TrainInv
  <2> QED
    BY <2>1, <2>2, <2>3 DEF SampleInv
<1>6. FileInv'
  BY <1>1, <1>2, FileKept DEF IInv, Training, Dumping
<1> QED
  BY <1>2, <1>4, <1>5, <1>6 DEF IInv

LEMMA ExtendStep ==
  ASSUME IInv, NEW i \in Id, Extend(i)
  PROVE  IInv'
<1>0. windows \in Nat /\ held \in [Id -> Seq(Nat)] /\ buffer \in Seq(Nat) /\ held[i] \in Seq(Nat)
  BY DEF IInv, TypeInv
<1>1. /\ worker' = [worker EXCEPT ![i] = "rest"] /\ worker[i] = "extend" /\ OwnStep
      /\ buffer' = buffer \o held[i] /\ held' = [held EXCEPT ![i] = << >>]
      /\ UNCHANGED model
  BY DEF Extend, Goes, Holds
<1>2. /\ WorkerInv'
      /\ worker' \in [Id -> WorkerState] /\ windows' \in Nat
      /\ running' \in BOOLEAN /\ expired' \in BOOLEAN
      /\ UNCHANGED <<expired, windows>>
      /\ worker'[i] = "rest" /\ \A j \in Id \ {i} : worker'[j] = worker[j]
      /\ ~expired => \A j \in Id \ {i} : worker[j] \in {"unborn", "dead"}
  BY <1>1, WorkerKept DEF Alive, WorkerState
<1>3. buffer' \in Seq(Nat) /\ held' \in [Id -> Seq(Nat)]
  BY <1>0, <1>1
<1>4. TypeInv'
  BY <1>1, <1>2, <1>3 DEF IInv, TypeInv, model
<1>5. SampleInv'
  <2> SUFFICES ASSUME ~expired
               PROVE  SampleInv'
    BY <1>2 DEF SampleInv
  <2>1. PICK w \in Nat : held[i] = <<w>> /\ (w # windows => buffer = << >>)
    BY <1>1 DEF IInv, SampleInv, ExtendInv
  <2>2. /\ Len(buffer') = Len(buffer) + 1 /\ buffer'[Len(buffer) + 1] = w
        /\ \A n \in 1 .. Len(buffer) : buffer'[n] = buffer[n]
    BY <1>0, <1>1, <2>1
  <2>3. BufferInv'
    <3>1. BufferInv
      BY DEF IInv, SampleInv
    <3>2. ASSUME NEW n \in 1 .. Len(buffer) + 1, n # 1
          PROVE  buffer'[n] = windows
      <4>1. CASE n \in 1 .. Len(buffer)
        BY <1>0, <2>2, <3>1, <3>2, <4>1 DEF BufferInv
      <4>2. CASE n = Len(buffer) + 1
        BY <1>0, <2>1, <2>2, <3>2, <4>2
      <4> QED
        BY <1>0, <4>1, <4>2
    <3> QED
      BY <1>0, <1>2, <1>3, <2>2, <3>2 DEF BufferInv
  <2>4. Same(forest)' /\ ExtendInv' /\ TrainInv'
    BY <1>1, <1>2 DEF IInv, SampleInv, Same, ExtendInv, TrainInv, model
  <2> QED
    BY <2>3, <2>4 DEF SampleInv
<1>6. FileInv'
  BY <1>1, <1>2, FileKept DEF IInv, Training, Dumping
<1> QED
  BY <1>2, <1>4, <1>5, <1>6 DEF IInv

\* Within a training the forest is either left alone or fitted to what the worker held
\* when it began.
LEMMA FittedSame ==
  ASSUME IInv, NEW i \in Id, NEW to \in {"forest", "dump", "baseline"} \cup Dumping,
         worker'[i] = to, \A j \in Id \ {i} : worker'[j] = worker[j],
         to = "forest" => worker[i] = "scaler",
         forest' = forest \/ (forest' = held[i] /\ worker[i] = "forest"),
         UNCHANGED <<expired, windows, held, buffer>>
  PROVE  SampleInv'
<1> SUFFICES ASSUME ~expired
             PROVE  SampleInv'
  BY DEF SampleInv
<1>1. Same(forest)'
  BY DEF IInv, SampleInv, TrainInv, Same
<1>2. BufferInv' /\ ExtendInv'
  BY DEF IInv, SampleInv, BufferInv, ExtendInv, Dumping
<1>3. TrainInv'
  <2>1. TrainInv
    BY DEF IInv, SampleInv
  <2>2. \A j \in Id : worker'[j] \in {"scaler", "forest"} => worker[j] \in {"scaler", "forest"}
    BY DEF Dumping
  <2> QED
    BY <2>1, <2>2 DEF TrainInv, Same
<1> QED
  BY <1>1, <1>2, <1>3 DEF SampleInv

\* The steps of a training that fit the model: they take what the worker holds.
LEMMA FitStep ==
  ASSUME IInv, NEW i \in Id, FitScaler(i) \/ FitForest(i)
  PROVE  IInv'
<1>1. PICK to \in {"forest", "dump"} :
        /\ worker' = [worker EXCEPT ![i] = to] /\ OwnStep
        /\ worker[i] \in {"scaler", "forest"}
        /\ to = "forest" => worker[i] = "scaler"
        /\ forest' = forest \/ (forest' = held[i] /\ worker[i] = "forest")
        /\ UNCHANGED <<held, buffer, file, cut, mixed>>
  <2>1. CASE FitScaler(i)
    BY <2>1 DEF FitScaler, Goes
  <2>2. CASE FitForest(i)
    BY <2>2 DEF FitForest, Goes
  <2> QED
    BY <2>1, <2>2
<1>2. /\ WorkerInv'
      /\ worker' \in [Id -> WorkerState] /\ windows' \in Nat
      /\ running' \in BOOLEAN /\ expired' \in BOOLEAN
      /\ UNCHANGED <<expired, windows>>
      /\ worker'[i] = to /\ \A j \in Id \ {i} : worker'[j] = worker[j]
  BY <1>1, WorkerKept DEF Alive, WorkerState
<1>3. TypeInv'
  BY <1>1, <1>2 DEF IInv, TypeInv
<1>4. SampleInv'
  BY <1>1, <1>2, FittedSame
<1>5. FileInv'
  BY <1>1, <1>2 DEF IInv, FileInv, FileIsModel, DumpInv, Training, Dumping
<1> QED
  BY <1>2, <1>3, <1>4, <1>5 DEF IInv

\* The steps that write the file: it differs from the model no longer than they take.
LEMMA DumpStep ==
  ASSUME IInv, NEW i \in Id, BeginDump(i) \/ PutScaler(i) \/ PutForest(i)
  PROVE  IInv'
<1>1. PICK to \in Dumping \cup {"baseline"} :
        /\ worker' = [worker EXCEPT ![i] = to] /\ OwnStep
        /\ worker[i] \in {"dump"} \cup Dumping
        /\ UNCHANGED <<held, buffer, scaler, forest, cut>>
  <2>1. CASE BeginDump(i)
    BY <2>1 DEF BeginDump, Goes, Dumping
  <2>2. CASE PutScaler(i)
    BY <2>2 DEF PutScaler, Goes, Dumping
  <2>3. CASE PutForest(i)
    BY <2>3 DEF PutForest, Goes, Dumping
  <2> QED
    BY <2>1, <2>2, <2>3
<1>2. /\ WorkerInv'
      /\ worker' \in [Id -> WorkerState] /\ windows' \in Nat
      /\ running' \in BOOLEAN /\ expired' \in BOOLEAN
      /\ UNCHANGED <<expired, windows>>
      /\ worker'[i] = to /\ \A j \in Id \ {i} : worker'[j] = worker[j]
  BY <1>1, WorkerKept DEF Alive, WorkerState, Dumping
<1>3. TypeInv'
  BY <1>1, <1>2 DEF IInv, TypeInv
<1>4. SampleInv'
  BY <1>1, <1>2, FittedSame DEF Dumping
<1>5. FileInv'
  <2> SUFFICES ASSUME ~cut', ~mixed'
               PROVE  FileInv'
    BY DEF FileInv, FileIsModel, DumpInv
  <2>1. ~cut /\ DumpInv
    BY <1>1 DEF IInv, FileInv
  <2>2. CASE BeginDump(i)
    <3>1. ~mixed /\ to = "put scaler" /\ \A j \in Id \ {i} : worker[j] \notin Dumping
      BY <1>1, <1>2, <2>2 DEF BeginDump, Other, Goes, IInv, TypeInv
    <3> QED
      BY <1>2, <2>1, <3>1 DEF FileInv, FileIsModel, DumpInv, Training, Dumping
  <2>3. CASE PutScaler(i)
    <3>1. /\ ~mixed /\ to = "put forest" /\ worker[i] = "put scaler"
          /\ \A j \in Id \ {i} : worker[j] \notin Dumping
      BY <1>1, <1>2, <2>1, <2>3 DEF PutScaler, Goes, IInv, TypeInv, DumpInv, Dumping
    <3>2. (\A j \in Id \ {i} : worker[j] \notin Training) => file'[1] = scaler'
      <4>1. ASSUME \A j \in Id \ {i} : worker[j] \notin Training
            PROVE  ~Other(i, {"scaler"} \cup Dumping)
        BY <4>1 DEF Other, Training
      <4>2. ~Other(i, {"scaler"} \cup Dumping) => Written(i, scaler, "scaler") = {scaler}
        BY DEF Written
      <4>3. PICK part \in Written(i, scaler, "scaler") : file' = <<part, file[2]>>
        BY <2>3 DEF PutScaler
      <4> QED
        BY <1>1, <4>1, <4>2, <4>3
    <3> QED
      BY <1>2, <3>1, <3>2 DEF FileInv, FileIsModel, DumpInv, Training, Dumping
  <2>4. CASE PutForest(i)
    <3>1. /\ ~mixed /\ to = "baseline" /\ worker[i] = "put forest"
          /\ \A j \in Id \ {i} : worker[j] \notin Dumping
      BY <1>1, <1>2, <2>1, <2>4 DEF PutForest, Goes, IInv, TypeInv, DumpInv, Dumping
    <3>2. (\A j \in Id \ {i} : worker[j] \notin Training) => file' = <<scaler', forest'>>
      BY <1>1, <2>1, <2>4, <3>1 DEF PutForest, Written, Other, Training, Dumping, DumpInv
    <3>3. FileIsModel'
      BY <1>2, <3>2 DEF FileIsModel
    <3>4. DumpInv'
      BY <1>2, <3>1 DEF DumpInv, Dumping
    <3> QED
      BY <3>3, <3>4 DEF FileInv
  <2> QED
    BY <2>2, <2>3, <2>4
<1> QED
  BY <1>2, <1>3, <1>4, <1>5 DEF IInv

LEMMA EndTrainingStep ==
  ASSUME IInv, NEW i \in Id, EndTraining(i)
  PROVE  IInv'
<1>1. /\ worker' = [worker EXCEPT ![i] = "judge"] /\ worker[i] = "baseline" /\ OwnStep
      /\ buffer' = << >> /\ held' = [held EXCEPT ![i] = << >>]
      /\ UNCHANGED <<scaler, forest, file, cut, mixed>>
  BY DEF EndTraining, Goes, Holds
<1>2. /\ WorkerInv'
      /\ worker' \in [Id -> WorkerState] /\ windows' \in Nat
      /\ running' \in BOOLEAN /\ expired' \in BOOLEAN
      /\ UNCHANGED <<expired, windows>>
      /\ worker'[i] = "judge" /\ \A j \in Id \ {i} : worker'[j] = worker[j]
  BY <1>1, WorkerKept DEF Alive, WorkerState
<1>3. /\ held' \in [Id -> Seq(Nat)]
      /\ \A j \in Id \ {i} : held'[j] = held[j]
  BY <1>1 DEF IInv, TypeInv
<1>4. TypeInv'
  BY <1>1, <1>2, <1>3 DEF IInv, TypeInv
<1>5. SampleInv'
  BY <1>1, <1>2, <1>3 DEF IInv, SampleInv, Same, BufferInv, ExtendInv, TrainInv
<1>6. FileInv'
  BY <1>1, <1>2 DEF IInv, FileInv, FileIsModel, DumpInv, Training, Dumping
<1> QED
  BY <1>2, <1>4, <1>5, <1>6 DEF IInv

LEMMA RaisesStep ==
  ASSUME IInv, NEW i \in Id, Raises(i)
  PROVE  IInv'
<1>1. /\ worker' = [worker EXCEPT ![i] = "dead"] /\ Alive(i) /\ OwnStep
      /\ held' = [held EXCEPT ![i] = << >>]
      /\ UNCHANGED <<buffer, file, mixed>>
      /\ cut' = (cut \/ worker[i] \in Training)
      /\ worker[i] # "scaler" => scaler' = scaler
      /\ forest' = forest \/ (worker[i] = "forest" /\ forest' \in {Torn, held[i]})
  BY DEF Raises, Goes, Holds, Alive
<1>2. /\ WorkerInv'
      /\ worker' \in [Id -> WorkerState] /\ windows' \in Nat
      /\ running' \in BOOLEAN /\ expired' \in BOOLEAN
      /\ UNCHANGED <<expired, windows>>
      /\ worker'[i] = "dead" /\ \A j \in Id \ {i} : worker'[j] = worker[j]
  BY <1>1, WorkerKept DEF WorkerState
<1>3. /\ held' \in [Id -> Seq(Nat)]
      /\ \A j \in Id \ {i} : held'[j] = held[j]
  BY <1>1 DEF IInv, TypeInv
<1>4. TypeInv'
  <2>1. forest' \in Seq(Nat)
    <3>1. Torn \in Seq(Nat)
      BY DEF Torn
    <3>2. forest \in Seq(Nat) /\ held[i] \in Seq(Nat)
      BY DEF IInv, TypeInv
    <3> QED
      BY <1>1, <3>1, <3>2
  <2> QED
    BY <1>1, <1>2, <1>3, <2>1 DEF IInv, TypeInv
<1>5. SampleInv'
  <2> SUFFICES ASSUME ~expired
               PROVE  SampleInv'
    BY <1>2 DEF SampleInv
  <2>1. Same(forest) /\ Same(Torn) /\ (worker[i] = "forest" => Same(held[i]))
    BY DEF IInv, SampleInv, TrainInv, Same, Torn
  <2>2. Same(forest)'
    BY <1>1, <2>1 DEF Same
  <2>3. BufferInv' /\ ExtendInv' /\ TrainInv'
    BY <1>1, <1>2, <1>3 DEF IInv, SampleInv, Same, BufferInv, ExtendInv, TrainInv
  <2> QED
    BY <2>2, <2>3 DEF SampleInv
<1>6. FileInv'
  BY <1>1, <1>2 DEF IInv, FileInv, FileIsModel, DumpInv, Training, Dumping
<1> QED
  BY <1>2, <1>4, <1>5, <1>6 DEF IInv

LEMMA NextIInv == IInv /\ [Next]_vars => IInv'
<1> SUFFICES ASSUME IInv, [Next]_vars
             PROVE  IInv'
  OBVIOUS
<1>1. CASE Button
  BY <1>1, StartCaptureStep, StartLearningStep, StopStep DEF Button
<1>2. CASE WindowEnds \/ BeginImport \/ EndImport \/ UNCHANGED vars
  BY <1>2, WindowStep
<1>3. ASSUME NEW i \in Id, Work(i)
      PROVE  IInv'
  BY <1>3, QuietWork, CheckStep, ExtendStep, FitStep, DumpStep, EndTrainingStep, RaisesStep DEF Work
<1> QED
  BY <1>1, <1>2, <1>3 DEF Next

LEMMA SpecIInv == Spec => []IInv
BY InitIInv, NextIInv, PTL DEF Spec

-------------------------------------------------------------------------------
(* The verdicts: what the fold over the rules computes.  Its equation is proved by *)
(* induction over the sets of rules. *)

RuleNos == 1 .. 24
Level(n) == IF n \in {7, 8, 11, 20, 21, 22, 23, 24} THEN "medium" ELSE "high"
Applies(f, b) == {n \in RuleNos : Rules(f, b)[n][2]}

\* A set of rules with all its parts has what passes from the parts of a set to the set.
LEMMA SubsetInduction ==
  ASSUME NEW S, IsFiniteSet(S), NEW T, {} \in T,
         \A s \in SUBSET S : s # {} /\ (\A x \in s : s \ {x} \in T) => s \in T
  PROVE  SUBSET S \subseteq T
<1> DEFINE R == StrictSubsetOrdering(S)
           Bad == {s \in SUBSET S : s \notin T}
<1>1. IsWellFoundedOn(R, FiniteSubsetsOf(S))
  BY FS_StrictSubsetOrderingWellFounded
<1>2. Bad \subseteq FiniteSubsetsOf(S)
  BY FS_Subset DEF FiniteSubsetsOf
<1>3. SUFFICES ASSUME Bad # {} PROVE FALSE
  OBVIOUS
<1>4. \A y, s : y \in SUBSET S /\ s \in SUBSET S /\ y \subseteq s /\ y # s => <<y, s>> \in R
  BY DEF StrictSubsetOrdering
<1>5. \E s \in Bad : \A y \in Bad : ~ (<<y, s>> \in R)
  <2> HIDE DEF Bad, R
  <2> QED
    BY <1>1, <1>2, <1>3, WFMin, Zenon
<1>6. PICK s \in Bad : \A y \in Bad : ~ (<<y, s>> \in R)
  BY <1>5
<1>7. ASSUME NEW x \in s PROVE s \ {x} \in T
  <2>1. s \ {x} \in SUBSET S /\ s \ {x} \subseteq s /\ s \ {x} # s
    BY <1>6
  <2>2. <<s \ {x}, s>> \in R
    <3> HIDE DEF R
    <3> QED
      BY <2>1, <1>4, <1>6
  <2> QED
    BY <2>1, <2>2, <1>6
<1> QED
  BY <1>6, <1>7

LEMMA SomeMax ==
  ASSUME NEW S \in SUBSET Nat, IsFiniteSet(S), NEW s \in SUBSET S, s # {}
  PROVE  Max(s) \in s
<1> DEFINE T == {t \in SUBSET S : t # {} => \E m \in t : \A x \in t : m >= x}
<1>1. {} \in T
  OBVIOUS
<1>2. ASSUME NEW t \in SUBSET S, t # {}, \A x \in t : t \ {x} \in T
      PROVE  t \in T
  <2>1. PICK x \in t : TRUE
    BY <1>2
  <2>2. CASE t \ {x} = {}
    <3>1. x \in Nat /\ \A y \in t : y = x
      BY <2>2
    <3> QED
      BY <2>1, <3>1
  <2>3. CASE t \ {x} # {}
    <3>1. PICK m \in t \ {x} : \A y \in t \ {x} : m >= y
      BY <1>2, <2>1, <2>3
    <3>2. x \in Nat /\ m \in Nat
      OBVIOUS
    <3>3. CASE m >= x
      BY <3>1, <3>2, <3>3
    <3>4. CASE ~(m >= x)
      <4>1. \A y \in t : y \in Nat /\ x >= y
        BY <3>1, <3>2, <3>4
      <4> QED
        BY <4>1
    <3> QED
      BY <3>3, <3>4
  <2> QED
    BY <2>2, <2>3
<1>3. SUBSET S \subseteq T
  <2> HIDE DEF T
  <2> QED
    BY <1>1, <1>2, SubsetInduction
<1>4. \E m \in s : \A x \in s : m >= x
  BY <1>3
<1> QED
  BY <1>4 DEF Max

\* What FoldLeft computes for the sets of rules
Start0 == [matched |-> FALSE, level |-> "low", sub |-> 0]
Step(f, b, u, n) == IF Rules(f, b)[n][2] THEN Apply(u, n, Rules(f, b)[n][1]) ELSE u
Nth(f, b, x) == [n \in DOMAIN Rules(f, b) |-> n][x]
Solves(g, f, b, S) ==
  g = [s \in SUBSET S |-> IF s = {} THEN Start0
                          ELSE Step(f, b, g[s \ {Max(s)}], Nth(f, b, Max(s)))]
Folds(f, b, S) == CHOOSE g : Solves(g, f, b, S)
Verdict(f, b, S) == Folds(f, b, S)[S]

LEMMA OneSolution ==
  ASSUME NEW f, NEW b, NEW S \in SUBSET Nat, IsFiniteSet(S), NEW g, NEW h,
         Solves(g, f, b, S), Solves(h, f, b, S)
  PROVE  g = h
<1> DEFINE T == {s \in SUBSET S : g[s] = h[s]}
<1>1. {} \in T
  BY DEF Solves
<1>2. ASSUME NEW s \in SUBSET S, s # {}, \A x \in s : s \ {x} \in T
      PROVE  s \in T
  <2>1. Max(s) \in s
    BY <1>2, SomeMax
  <2>2. g[s \ {Max(s)}] = h[s \ {Max(s)}]
    BY <1>2, <2>1
  <2> QED
    BY <1>2, <2>2 DEF Solves
<1>3. SUBSET S \subseteq T
  <2> HIDE DEF T
  <2> QED
    BY <1>1, <1>2, SubsetInduction
<1>4. \A s \in SUBSET S : g[s] = h[s]
  BY <1>3
<1> QED
  BY <1>4 DEF Solves

LEMMA SolvesParts ==
  ASSUME NEW f, NEW b, NEW S, NEW g, Solves(g, f, b, S), NEW t \in SUBSET S
  PROVE  Solves([u \in SUBSET t |-> g[u]], f, b, t)
<1> DEFINE h == [u \in SUBSET t |-> g[u]]
<1>1. ASSUME NEW u \in SUBSET t, u # {}
      PROVE  h[u] = Step(f, b, h[u \ {Max(u)}], Nth(f, b, Max(u)))
  <2>1. u \in SUBSET S /\ u \ {Max(u)} \in SUBSET t
    OBVIOUS
  <2> QED
    BY <1>1, <2>1 DEF Solves
<1>2. h[{}] = Start0
  BY DEF Solves
<1> HIDE DEF h
<1>3. h = [u \in SUBSET t |-> h[u]]
  BY DEF h
<1>4. Solves(h, f, b, t)
  BY <1>1, <1>2, <1>3 DEF Solves
<1> QED
  BY <1>4 DEF h

\* Where there is a solution, the verdicts over the parts are those of the equation.
LEMMA VerdictOfPart ==
  ASSUME NEW f, NEW b, NEW S \in SUBSET Nat, IsFiniteSet(S), NEW g, Solves(g, f, b, S),
         NEW t \in SUBSET S
  PROVE  Verdict(f, b, t) = g[t]
<1> DEFINE h == [u \in SUBSET t |-> g[u]]
<1>1. Solves(h, f, b, t)
  BY SolvesParts
<1>2. Solves(Folds(f, b, t), f, b, t)
  <2> HIDE DEF h
  <2> QED
    BY <1>1 DEF Folds
<1>3. IsFiniteSet(t) /\ t \in SUBSET Nat
  BY FS_Subset
<1>4. Folds(f, b, t) = h
  <2> HIDE DEF h
  <2> QED
    BY <1>1, <1>2, <1>3, OneSolution
<1> QED
  BY <1>4 DEF Verdict

LEMMA FoldsDefined ==
  ASSUME NEW f, NEW b, NEW S \in SUBSET Nat, IsFiniteSet(S)
  PROVE  \E g : Solves(g, f, b, S)
<1> DEFINE T == {s \in SUBSET S : \E g : Solves(g, f, b, s)}
<1>1. {} \in T
  <2>1. Solves([s \in SUBSET {} |-> Start0], f, b, {})
    BY DEF Solves
  <2> QED
    BY <2>1
<1>2. ASSUME NEW s \in SUBSET S, s # {}, \A x \in s : s \ {x} \in T
      PROVE  s \in T
  <2> DEFINE c == Max(s)
             h == [u \in SUBSET s |->
                    IF u = s THEN Step(f, b, Verdict(f, b, s \ {c}), Nth(f, b, c))
                    ELSE Verdict(f, b, u)]
  <2>1. c \in s
    BY <1>2, SomeMax
  <2>2. ASSUME NEW u \in SUBSET s, u # s
        PROVE  u # {} => h[u] = Step(f, b, h[u \ {Max(u)}], Nth(f, b, Max(u)))
    <3>1. PICK x \in s : u \subseteq s \ {x}
      BY <2>2
    <3>2. PICK g : Solves(g, f, b, s \ {x})
      BY <1>2
    <3>3. IsFiniteSet(s \ {x}) /\ s \ {x} \in SUBSET Nat
      BY FS_Subset
    <3>4. \A v \in SUBSET u : Verdict(f, b, v) = g[v]
      <4>1. \A v \in SUBSET (s \ {x}) : Verdict(f, b, v) = g[v]
        BY <3>2, <3>3, VerdictOfPart
      <4> QED
        BY <3>1, <4>1
    <3>5. u \ {Max(u)} \in SUBSET u /\ u \ {Max(u)} # s /\ u \in SUBSET (s \ {x})
      BY <2>2, <3>1
    <3>6. u # {} => g[u] = Step(f, b, g[u \ {Max(u)}], Nth(f, b, Max(u)))
      BY <3>2, <3>5 DEF Solves
    <3> QED
      BY <3>4, <3>5, <3>6
  <2>3. h[s] = Step(f, b, h[s \ {c}], Nth(f, b, c))
    BY <2>1
  <2>4. h[{}] = Start0
    <3>1. PICK g : Solves(g, f, b, s \ {c})
      BY <1>2, <2>1
    <3>2. IsFiniteSet(s \ {c}) /\ s \ {c} \in SUBSET Nat
      BY FS_Subset
    <3>3. Verdict(f, b, {}) = g[{}]
      BY <3>1, <3>2, VerdictOfPart
    <3> QED
      BY <1>2, <3>1, <3>3 DEF Solves
  <2>5. h = [u \in SUBSET s |-> h[u]]
    OBVIOUS
  <2>6. \A u \in SUBSET s : u # {} => h[u] = Step(f, b, h[u \ {Max(u)}], Nth(f, b, Max(u)))
    <3> HIDE DEF h
    <3> QED
      BY <2>2, <2>3
  <2> HIDE DEF h
  <2>7. Solves(h, f, b, s)
    BY <2>4, <2>5, <2>6 DEF Solves
  <2> QED
    BY <2>7
<1>3. SUBSET S \subseteq T
  <2> HIDE DEF T
  <2> QED
    BY <1>1, <1>2, SubsetInduction
<1> QED
  BY <1>3

\* The equation of the verdict: none yet, or the last rule on top of those before it.
LEMMA VerdictEquation ==
  ASSUME NEW f, NEW b, NEW S \in SUBSET Nat, IsFiniteSet(S)
  PROVE  /\ Verdict(f, b, {}) = Start0
         /\ \A s \in SUBSET S : s # {} =>
              Verdict(f, b, s) = Step(f, b, Verdict(f, b, s \ {Max(s)}), Nth(f, b, Max(s)))
<1>1. PICK g : Solves(g, f, b, S)
  BY FoldsDefined
<1>2. \A s \in SUBSET S : Verdict(f, b, s) = g[s]
  BY <1>1, VerdictOfPart
<1>3. g[{}] = Start0
  BY <1>1 DEF Solves
<1>4. ASSUME NEW s \in SUBSET S, s # {}
      PROVE  g[s] = Step(f, b, g[s \ {Max(s)}], Nth(f, b, Max(s)))
  BY <1>1, <1>4 DEF Solves
<1> QED
  BY <1>2, <1>3, <1>4

\* The rules are numbered, and the level of each is fixed.
LEMMA RuleLevels ==
  ASSUME NEW f, NEW b
  PROVE  DOMAIN Rules(f, b) = RuleNos /\ \A n \in RuleNos : Rules(f, b)[n][1] = Level(n)
BY DEF Rules, RuleNos, Level

\* What a verdict says over a set of rules of which those of A apply
Judges(v, A) ==
  /\ v \in [matched : BOOLEAN, level : {"low", "medium", "high"}, sub : 0 .. 24]
  /\ A = {} => v = Start0
  /\ A # {} => /\ v.matched /\ v.sub \in A /\ v.level = Level(v.sub)
               /\ \A n \in A : Rank[Level(n)] <= Rank[v.level]

LEMMA StepJudges ==
  ASSUME NEW f, NEW b, NEW A \in SUBSET RuleNos, NEW n \in RuleNos, NEW v, Judges(v, A)
  PROVE  Judges(Step(f, b, v, n), IF n \in Applies(f, b) THEN A \cup {n} ELSE A)
<1>1. CASE n \notin Applies(f, b)
  BY <1>1 DEF Step, Applies
<1>2. CASE n \in Applies(f, b)
  <2>1. Step(f, b, v, n) = Apply(v, n, Level(n))
    BY <1>2, RuleLevels DEF Step, Applies
  <2>2. n \in 0 .. 24 /\ Level(n) \in {"medium", "high"}
    BY DEF RuleNos, Level
  <2>3. PICK l : l = Level(n)
    OBVIOUS
  <2>4. v \in [matched : BOOLEAN, level : {"low", "medium", "high"}, sub : 0 .. 24]
    BY DEF Judges
  <2>5. \A m \in A : Level(m) \in {"medium", "high"}
    BY DEF Level
  <2>6. CASE Rank[l] >= Rank[v.level]
    <3>1. Apply(v, n, l) = [matched |-> TRUE, level |-> l, sub |-> n]
      BY <2>6 DEF Apply
    <3>2. \A m \in A : Rank[Level(m)] <= Rank[l]
      <4>1. A # {} => \A m \in A : Rank[Level(m)] <= Rank[v.level]
        BY DEF Judges
      <4> QED
        BY <2>2, <2>3, <2>4, <2>5, <2>6, <4>1 DEF Rank
    <3>3. Rank[l] <= Rank[l]
      BY <2>2, <2>3 DEF Rank
    <3> HIDE DEF Rank
    <3>4. Judges([matched |-> TRUE, level |-> l, sub |-> n], A \cup {n})
      BY <2>2, <2>3, <3>2, <3>3 DEF Judges
    <3> QED
      BY <1>2, <2>1, <2>3, <3>1, <3>4
  <2>7. CASE ~(Rank[l] >= Rank[v.level])
    <3>1. Apply(v, n, l) = [v EXCEPT !.matched = TRUE]
      BY <2>7 DEF Apply
    <3>2. v.level # "low" /\ Rank[l] <= Rank[v.level]
      BY <2>2, <2>3, <2>4, <2>7 DEF Rank
    <3>3. A # {}
      BY <3>2 DEF Judges, Start0
    <3>4. /\ v.matched /\ v.sub \in A /\ v.level = Level(v.sub)
          /\ \A m \in A : Rank[Level(m)] <= Rank[v.level]
      BY <3>3 DEF Judges
    <3>5. Judges([v EXCEPT !.matched = TRUE], A \cup {n})
      BY <2>3, <2>4, <3>2, <3>4 DEF Judges
    <3> QED
      BY <1>2, <2>1, <2>3, <3>1, <3>5
  <2> QED
    BY <2>6, <2>7
<1> QED
  BY <1>1, <1>2

\* The verdict over all rules names one that applies, of the highest level.
LEMMA VerdictJudges ==
  ASSUME NEW f, NEW b
  PROVE  Judges(Verdict(f, b, RuleNos), Applies(f, b))
<1>1. IsFiniteSet(RuleNos) /\ RuleNos \in SUBSET Nat
  <2>1. \A m, n \in Int : IsFiniteSet(m .. n)
    BY FS_Interval
  <2>2. 1 .. 24 \in SUBSET Nat
    OBVIOUS
  <2>3. 1 \in Int /\ 24 \in Int
    OBVIOUS
  <2>4. IsFiniteSet(1 .. 24)
    BY <2>1, <2>3
  <2> QED
    BY <2>2, <2>4 DEF RuleNos
<1>2. /\ Verdict(f, b, {}) = Start0
      /\ \A s \in SUBSET RuleNos : s # {} =>
           Verdict(f, b, s) = Step(f, b, Verdict(f, b, s \ {Max(s)}), Nth(f, b, Max(s)))
  BY <1>1, VerdictEquation
<1> DEFINE T == {s \in SUBSET RuleNos : Judges(Verdict(f, b, s), s \cap Applies(f, b))}
<1>3. {} \in T
  <2>1. Judges(Start0, {}) /\ {} \cap Applies(f, b) = {}
    BY DEF Judges, Start0
  <2> QED
    BY <1>2, <2>1
<1>4. ASSUME NEW s \in SUBSET RuleNos, s # {}, \A x \in s : s \ {x} \in T
      PROVE  s \in T
  <2>1. Max(s) \in s
    BY <1>1, <1>4, SomeMax
  <2>2. PICK m \in s : m = Max(s)
    BY <2>1
  <2>3. Nth(f, b, m) = m
    BY RuleLevels DEF Nth
  <2> DEFINE A == (s \ {m}) \cap Applies(f, b)
  <2>4. Judges(Verdict(f, b, s \ {m}), A)
    BY <1>4
  <2>5. Judges(Step(f, b, Verdict(f, b, s \ {m}), m), IF m \in Applies(f, b) THEN A \cup {m} ELSE A)
    <3>1. A \in SUBSET RuleNos
      OBVIOUS
    <3> HIDE DEF A
    <3> QED
      BY <2>4, <3>1, StepJudges
  <2>6. s \cap Applies(f, b) = IF m \in Applies(f, b) THEN A \cup {m} ELSE A
    OBVIOUS
  <2>7. Verdict(f, b, s) = Step(f, b, Verdict(f, b, s \ {m}), m)
    BY <1>2, <1>4, <2>2, <2>3
  <2> QED
    BY <2>5, <2>6, <2>7
<1>5. SUBSET RuleNos \subseteq T
  <2> HIDE DEF T
  <2> QED
    BY <1>1, <1>3, <1>4, SubsetInduction
<1>6. RuleNos \cap Applies(f, b) = Applies(f, b)
  BY DEF Applies
<1> QED
  BY <1>5, <1>6

LEMMA DetectIs ==
  ASSUME NEW f, NEW b
  PROVE  LET v == Verdict(f, b, RuleNos)
             loopback == "loopback" \in f.marks
         IN  Detect(f, b) =
               IF loopback /\ v.level = "high" THEN [v EXCEPT !.level = "medium", !.sub = -1]
               ELSE IF loopback /\ v.sub = PortScan THEN [v EXCEPT !.sub = -1]
               ELSE v
<1>1. DOMAIN [n \in DOMAIN Rules(f, b) |-> n] = RuleNos
  BY RuleLevels
<1> DEFINE Tempered(v) ==
             LET loopback == "loopback" \in f.marks
             IN  IF loopback /\ v.level = "high" THEN [v EXCEPT !.level = "medium", !.sub = -1]
                 ELSE IF loopback /\ v.sub = PortScan THEN [v EXCEPT !.sub = -1]
                 ELSE v
<1>2. Detect(f, b) = Tempered(Verdict(f, b, DOMAIN [n \in DOMAIN Rules(f, b) |-> n]))
  BY DEF Detect, FoldLeft, MapThenFoldSet, Verdict, Folds, Solves, Step, Start0, Nth
<1> QED
  BY <1>1, <1>2

\* What Detect says: the verdict, which loopback brings down to medium.
LEMMA DetectFacts ==
  ASSUME NEW f, NEW b
  PROVE  LET d == Detect(f, b)
             A == Applies(f, b)
             lo == "loopback" \in f.marks
         IN  /\ A = {} => d = Start0
             /\ A # {} => d.matched
             /\ A # {} /\ ~lo => /\ d.sub \in A /\ d.level = Level(d.sub)
                                 /\ \A n \in A : Rank[Level(n)] <= Rank[d.level]
             /\ A # {} /\ lo => /\ d.level = "medium"
                                /\ \/ d.sub = -1
                                   \/ d.sub \in A /\ \A n \in A : Level(n) = "medium"
<1>1. PICK v : v = Verdict(f, b, RuleNos)
  OBVIOUS
<1>2. PICK A : A = Applies(f, b)
  OBVIOUS
<1>3. Judges(v, A)
  BY <1>1, <1>2, VerdictJudges
<1> DEFINE lo == "loopback" \in f.marks
<1>5. PICK d : d = Detect(f, b)
  OBVIOUS
<1>6. d = IF lo /\ v.level = "high" THEN [v EXCEPT !.level = "medium", !.sub = -1]
          ELSE IF lo /\ v.sub = PortScan THEN [v EXCEPT !.sub = -1]
          ELSE v
  BY <1>1, <1>5, DetectIs
<1>7. v \in [matched : BOOLEAN, level : {"low", "medium", "high"}, sub : 0 .. 24]
  BY <1>3 DEF Judges
<1>8. A = {} => d = Start0
  <2>1. A = {} => v = Start0
    BY <1>3 DEF Judges
  <2>2. Start0.level = "low" /\ Start0.sub = 0 /\ PortScan = 10
    BY DEF Start0, PortScan
  <2> QED
    BY <1>6, <2>1, <2>2
<1> HIDE DEF lo
<1>9. ASSUME A # {}
      PROVE  /\ d.matched
             /\ ~lo => /\ d.sub \in A /\ d.level = Level(d.sub)
                       /\ \A n \in A : Rank[Level(n)] <= Rank[d.level]
             /\ lo => /\ d.level = "medium"
                      /\ d.sub = -1 \/ (d.sub \in A /\ \A n \in A : Level(n) = "medium")
  <2>1. /\ v.matched /\ v.sub \in A /\ v.level = Level(v.sub)
        /\ \A n \in A : Rank[Level(n)] <= Rank[v.level]
    BY <1>3, <1>9 DEF Judges
  <2>2. \A n : Level(n) \in {"medium", "high"}
    BY DEF Level
  <2>3. v.level # "high" => v.level = "medium" /\ \A n \in A : Level(n) = "medium"
    <3>1. v.level \in {"medium", "high"}
      BY <2>1, <2>2
    <3>2. Rank["high"] = 3 /\ Rank["medium"] = 2 /\ ~(3 <= 2)
      BY DEF Rank
    <3> QED
      BY <2>1, <2>2, <3>1, <3>2
  <2>4. CASE ~lo
    BY <1>6, <2>1, <2>4
  <2>5. CASE lo /\ v.level = "high"
    BY <1>6, <1>7, <2>1, <2>5
  <2>6. CASE lo /\ v.level # "high"
    BY <1>6, <1>7, <2>1, <2>3, <2>6
  <2> QED
    BY <2>4, <2>5, <2>6
<1> QED
  BY <1>2, <1>5, <1>8, <1>9 DEF lo

\* What the score makes of it
LEMMA EvaluatedFacts ==
  ASSUME NEW f, NEW b, NEW s \in Scores
  PROVE  LET d == Detect(f, b)
             e == Evaluated(f, b, s)
             A == Applies(f, b)
             lo == "loopback" \in f.marks
         IN  /\ A = {} /\ s # "anomalous" => e = NoAlert
             /\ A = {} /\ s = "anomalous" =>
                  e = IF lo THEN [level |-> "medium", sub |-> -1] ELSE [level |-> "high", sub |-> 0]
             /\ A # {} /\ lo => e.level = "medium" /\ e.sub \in {-1, d.sub}
             /\ A # {} /\ ~lo =>
                  e = [level |-> IF s = "anomalous" THEN "high" ELSE Level(d.sub), sub |-> d.sub]
<1>1. PICK A : A = Applies(f, b)
  OBVIOUS
<1> DEFINE lo == "loopback" \in f.marks
<1>3. PICK d : d = Detect(f, b)
  OBVIOUS
<1>4. /\ A = {} => d = Start0
      /\ A # {} => d.matched
      /\ A # {} /\ ~lo => d.sub \in A /\ d.level = Level(d.sub)
      /\ A # {} /\ lo => d.level = "medium"
  BY <1>1, <1>3, DetectFacts
<1>5. PICK raised : raised = IF s = "anomalous" THEN "high"
                             ELSE IF s = "odd" /\ d.level # "high" THEN "medium" ELSE d.level
  OBVIOUS
<1>6. PICK sub : sub = IF d.matched THEN d.sub ELSE 0
  OBVIOUS
<1>7. Evaluated(f, b, s) =
        IF ~d.matched /\ s # "anomalous" THEN NoAlert
        ELSE IF lo /\ raised = "high" THEN [level |-> "medium", sub |-> -1]
        ELSE [level |-> raised, sub |-> sub]
  BY <1>3, <1>5, <1>6 DEF Evaluated
<1> HIDE DEF lo
<1>8. \A n : Level(n) \in {"medium", "high"}
  BY DEF Level
<1>9. CASE A = {}
  <2>1. d.matched = FALSE /\ sub = 0
    BY <1>4, <1>6, <1>9 DEF Start0
  <2> QED
    BY <1>1, <1>3, <1>5, <1>7, <1>9, <2>1 DEF lo
<1>10. CASE A # {} /\ lo
  <2>1. d.level = "medium" /\ sub = d.sub /\ d.matched
    BY <1>4, <1>6, <1>10
  <2>2. raised = IF s = "anomalous" THEN "high" ELSE "medium"
    BY <1>5, <2>1
  <2>3. Evaluated(f, b, s) = IF s = "anomalous" THEN [level |-> "medium", sub |-> -1]
                             ELSE [level |-> "medium", sub |-> d.sub]
    BY <1>7, <1>10, <2>1, <2>2
  <2> QED
    BY <1>1, <1>3, <1>10, <2>3 DEF lo
<1>11. CASE A # {} /\ ~lo
  <2>1. d.level = Level(d.sub) /\ sub = d.sub /\ d.matched
    BY <1>4, <1>6, <1>11
  <2>2. raised = IF s = "anomalous" THEN "high" ELSE Level(d.sub)
    BY <1>5, <1>8, <2>1
  <2>3. Evaluated(f, b, s) = [level |-> raised, sub |-> d.sub]
    BY <1>7, <1>11, <2>1
  <2> QED
    BY <1>1, <1>3, <1>11, <2>2, <2>3 DEF lo
<1> QED
  BY <1>9, <1>10, <1>11

\* How serious an alert is depends on the list, on whether a rule applies, on whether one of
\* high level does, on the score and on loopback alone.
Severity(f, some, high, s) ==
  IF f.list = "white" THEN 0
  ELSE IF f.list = "tracker" THEN 2
  ELSE IF f.list = "black" THEN 3
  ELSE IF ~some /\ s # "anomalous" THEN 0
  ELSE IF "loopback" \in f.marks THEN 2
  ELSE IF high \/ s = "anomalous" THEN 3 ELSE 2

Lists == {"none", "white", "tracker", "black"}

\* Only an address of no list is judged by the rules.
LEMMA JudgedFacts ==
  ASSUME NEW f, NEW b, NEW s, f.list \in Lists
  PROVE  Judged(f, b, s) = IF f.list = "white" THEN NoAlert
                           ELSE IF f.list = "tracker" THEN [level |-> "medium", sub |-> -2]
                           ELSE IF f.list = "black" THEN [level |-> "high", sub |-> -3]
                           ELSE Evaluated(f, b, s)
BY DEF Judged, Lists

\* The level of an alert, from what decides it: a rule that applies, one of high level
\* among them, the score, the lists and loopback.
Rises(f, b) == Applies(f, b) # {}
RisesHigh(f, b) == \E n \in Applies(f, b) : Level(n) = "high"

LEMMA RankIsSeverity ==
  ASSUME NEW f, NEW b, NEW s \in Scores, f.list \in Lists
  PROVE  AlertRank(Judged(f, b, s)) = Severity(f, Rises(f, b), RisesHigh(f, b), s)
<1>1. PICK A : A = Applies(f, b)
  OBVIOUS
<1>2. PICK d : d = Detect(f, b)
  OBVIOUS
<1>3. PICK e : e = Evaluated(f, b, s)
  OBVIOUS
<1> DEFINE lo == "loopback" \in f.marks
<1>4. /\ A = {} /\ s # "anomalous" => e = NoAlert
      /\ A = {} /\ s = "anomalous" =>
           e = IF lo THEN [level |-> "medium", sub |-> -1] ELSE [level |-> "high", sub |-> 0]
      /\ A # {} /\ lo => e.level = "medium"
      /\ A # {} /\ ~lo =>
           e = [level |-> IF s = "anomalous" THEN "high" ELSE Level(d.sub), sub |-> d.sub]
  BY <1>1, <1>2, <1>3, EvaluatedFacts
<1>5. A # {} /\ ~lo => d.sub \in A /\ \A n \in A : Rank[Level(n)] <= Rank[Level(d.sub)]
  BY <1>1, <1>2, DetectFacts
<1> HIDE DEF lo
<1>6. Rank["low"] = 1 /\ Rank["medium"] = 2 /\ Rank["high"] = 3
  BY DEF Rank
<1>7. \A n : Level(n) \in {"medium", "high"}
  BY DEF Level
<1>8. f.list = "none" => Judged(f, b, s) = e
  BY <1>3, JudgedFacts
<1>9. CASE f.list # "none"
  <2>1. PICK a : a = Judged(f, b, s)
    OBVIOUS
  <2>2. f.list = "white" \/ f.list = "tracker" \/ f.list = "black"
    BY <1>9 DEF Lists
  <2>3. a.level = IF f.list = "white" THEN "none" ELSE IF f.list = "tracker" THEN "medium" ELSE "high"
    BY <2>1, <2>2, JudgedFacts DEF NoAlert
  <2>4. AlertRank(a) = IF f.list = "white" THEN 0 ELSE IF f.list = "tracker" THEN 2 ELSE 3
    BY <1>6, <2>3 DEF AlertRank
  <2> QED
    BY <2>1, <2>2, <2>4 DEF Severity
<1>10. CASE f.list = "none" /\ A = {}
  BY <1>1, <1>4, <1>6, <1>8, <1>10 DEF AlertRank, NoAlert, Severity, Rises, RisesHigh, lo
<1>11. CASE f.list = "none" /\ A # {} /\ lo
  BY <1>1, <1>4, <1>6, <1>8, <1>11 DEF AlertRank, Severity, Rises, lo
<1>12. CASE f.list = "none" /\ A # {} /\ ~lo
  <2>1. PICK l : l = Level(d.sub)
    OBVIOUS
  <2>2. l = "high" <=> \E n \in A : Level(n) = "high"
    BY <1>5, <1>6, <1>7, <1>12, <2>1
  <2>3. e.level = IF s = "anomalous" THEN "high" ELSE l
    BY <1>4, <1>12, <2>1
  <2>4. AlertRank(e) = IF s = "anomalous" \/ l = "high" THEN 3 ELSE 2
    BY <1>6, <1>7, <2>1, <2>3 DEF AlertRank
  <2> QED
    BY <1>1, <1>8, <1>12, <2>2, <2>4 DEF Severity, Rises, RisesHigh, lo
<1> QED
  BY <1>9, <1>10, <1>11, <1>12

\* No level is lost when rules only come to apply and the score only rises.
LEMMA SeverityRises ==
  ASSUME NEW f, NEW g, f.list = g.list, f.marks = g.marks,
         NEW some \in BOOLEAN, NEW high \in BOOLEAN, NEW some2 \in BOOLEAN, NEW high2 \in BOOLEAN,
         some => some2, high => high2, NEW s \in Scores, NEW t \in Scores,
         ScoreRank[s] <= ScoreRank[t]
  PROVE  Severity(f, some, high, s) <= Severity(g, some2, high2, t)
<1>1. s = "anomalous" => t = "anomalous"
  BY DEF Scores, ScoreRank
<1>2. some \/ s = "anomalous" => some2 \/ t = "anomalous"
  BY <1>1
<1>3. high \/ s = "anomalous" => high2 \/ t = "anomalous"
  BY <1>1
<1> QED
  BY <1>2, <1>3 DEF Severity

\* The thresholds are numbers, and of what is counted the rules ask only for more.
LEMMA Thresholds ==
  ASSUME NEW b \in [rate : Nat, rateDev : Nat, freq : Nat, freqDev : Nat]
  PROVE  /\ ConnTh(b) \in Int /\ BruteTh(b) \in Int /\ ScanTh(b) \in Int
         /\ LargeTh(b) \in Int
<1>1. ASSUME NEW x \in Int, NEW y \in Int
      PROVE  Max({x, y}) \in Int
  <2>1. \E m \in {x, y} : \A z \in {x, y} : m >= z
    BY <1>1
  <2>2. Max({x, y}) \in {x, y}
    BY <2>1 DEF Max
  <2> QED
    BY <1>1, <2>2
<1>2. ConnTh(b) \in Int
  <2>1. PICK m : m = Max({5, b.freqDev})
    OBVIOUS
  <2>2. m \in Int
    BY <1>1, <2>1
  <2> QED
    BY <2>1, <2>2 DEF ConnTh
<1>3. b.rate * 4000 \in Int
  OBVIOUS
<1> QED
  BY <1>1, <1>2, <1>3 DEF BruteTh, ScanTh, LargeTh

\* m is f to the rules, but for what exceeds more of their thresholds.
AsMuch(f, m, b) ==
  /\ m.proto = f.proto /\ m.port = f.port /\ m.marks = f.marks /\ m.rate = f.rate
  /\ f.freq > ConnTh(b) => m.freq > ConnTh(b)
  /\ f.freq > BruteTh(b) => m.freq > BruteTh(b)
  /\ f.freq > ScanTh(b) => m.freq > ScanTh(b)
  /\ f.bytes > LargeTh(b) => m.bytes > LargeTh(b)
  /\ 2 * f.bytes > LargeTh(b) => 2 * m.bytes > LargeTh(b)
  /\ f.targets > 10 => m.targets > 10
  /\ f.visits >= 30 => m.visits >= 30
  /\ f.duration > 60 => m.duration > 60
  /\ f.duration > 120 => m.duration > 120
  /\ f.duration > 600 => m.duration > 600
  /\ f.size > 100 => m.size > 100
  /\ f.hits >= 5 => m.hits >= 5

Keeps(f, m, b, n) == Rules(f, b)[n][2] => Rules(m, b)[n][2]

LEMMA RulesKept ==
  ASSUME NEW f, NEW m, NEW b, AsMuch(f, m, b)
  PROVE  \A n \in RuleNos : Keeps(f, m, b, n)
<1>1. Keeps(f, m, b, 1) /\ Keeps(f, m, b, 2) /\ Keeps(f, m, b, 3)
  BY DEF Rules, AsMuch, Keeps
<1>4. Keeps(f, m, b, 4)
  <2>1. \A g : Rules(g, b)[4][2] = (g.port = 22 /\ g.freq > BruteTh(b))
    BY DEF Rules
  <2> QED
    BY <2>1, Zenon DEF AsMuch, Keeps
<1>5. Keeps(f, m, b, 5)
  <2>1. PICK p : p = 3389
    OBVIOUS
  <2>2. \A g : Rules(g, b)[5][2] = (g.port = p /\ g.freq > BruteTh(b))
    BY <2>1 DEF Rules
  <2> QED
    BY <2>2, Zenon DEF AsMuch, Keeps
<1>6. Keeps(f, m, b, 6)
  <2>1. \A g : Rules(g, b)[6][2] = (g.port \in Databases /\ g.freq > BruteTh(b))
    BY DEF Rules
  <2> QED
    BY <2>1, Zenon DEF AsMuch, Keeps
<1>7. Keeps(f, m, b, 7)
  <2>1. \A g : Rules(g, b)[7][2] = (g.port = 21 /\ g.freq > BruteTh(b))
    BY DEF Rules
  <2> QED
    BY <2>1, Zenon DEF AsMuch, Keeps
<1>8. Keeps(f, m, b, 8)
  <2>1. \A g : Rules(g, b)[8][2] = (g.port \in Web /\ g.freq > BruteTh(b) /\ "refused" \in g.marks)
    BY DEF Rules
  <2> QED
    BY <2>1, Zenon DEF AsMuch, Keeps
<1>9. Keeps(f, m, b, 9)
  <2>1. \A g : Rules(g, b)[9][2] = (g.targets > 10 /\ g.freq > ScanTh(b))
    BY DEF Rules
  <2> QED
    BY <2>1, Zenon DEF AsMuch, Keeps
<1>10. Keeps(f, m, b, 10)
  <2>1. \A g : Rules(g, b)[10][2] = (g.visits >= 30)
    BY DEF Rules
  <2> QED
    BY <2>1, Zenon DEF AsMuch, Keeps
<1>11. Keeps(f, m, b, 11)
  <2>1. \A g : Rules(g, b)[11][2] = (g.port \in Common /\ g.freq > ScanTh(b))
    BY DEF Rules
  <2> QED
    BY <2>1, Zenon DEF AsMuch, Keeps
<1>12. Keeps(f, m, b, 12)
  BY DEF Rules, AsMuch, Keeps
<1>13. Keeps(f, m, b, 13)
  <2>1. \A g : Rules(g, b)[13][2] = (g.duration > 120 /\ "periodic" \in g.marks)
    BY DEF Rules
  <2> QED
    BY <2>1, Zenon DEF AsMuch, Keeps
<1>14. Keeps(f, m, b, 14)
  <2>1. \A g : Rules(g, b)[14][2] = ((g.port = 53 \/ "dns" \in g.marks) /\ g.size > 100 /\ g.freq > ScanTh(b))
    BY DEF Rules
  <2> QED
    BY <2>1, Zenon DEF AsMuch, Keeps
<1>15. Keeps(f, m, b, 15)
  <2>1. \A g : Rules(g, b)[15][2] = (g.proto = "ICMP" /\ g.size > 100 /\ g.freq > ScanTh(b))
    BY DEF Rules
  <2> QED
    BY <2>1, Zenon DEF AsMuch, Keeps
<1>16. Keeps(f, m, b, 16)
  <2>1. \A g : Rules(g, b)[16][2] = ("private" \in g.marks /\ g.port \in Remote /\ g.freq > ScanTh(b))
    BY DEF Rules
  <2> QED
    BY <2>1, Zenon DEF AsMuch, Keeps
<1>17. Keeps(f, m, b, 17)
  <2>1. \A g : Rules(g, b)[17][2] = (g.bytes > LargeTh(b) /\ g.duration > 60)
    BY DEF Rules
  <2> QED
    BY <2>1, Zenon DEF AsMuch, Keeps
<1>18. Keeps(f, m, b, 18)
  <2>1. \A g : Rules(g, b)[18][2] = ("sensitive" \in g.marks /\ "outbound" \in g.marks /\ 2 * g.bytes > LargeTh(b))
    BY DEF Rules
  <2> QED
    BY <2>1, Zenon DEF AsMuch, Keeps
<1>19. Keeps(f, m, b, 19) /\ Keeps(f, m, b, 20) /\ Keeps(f, m, b, 21)
  BY DEF Rules, AsMuch, Keeps
<1>22. Keeps(f, m, b, 22)
  <2>1. \A g : Rules(g, b)[22][2] = (g.duration > 600)
    BY DEF Rules
  <2> QED
    BY <2>1, Zenon DEF AsMuch, Keeps
<1>23. Keeps(f, m, b, 23)
  <2>1. \A g : Rules(g, b)[23][2] = ("no gap" \in g.marks /\ g.freq > ConnTh(b))
    BY DEF Rules
  <2> QED
    BY <2>1, Zenon DEF AsMuch, Keeps
<1>24. Keeps(f, m, b, 24)
  <2>1. \A g : Rules(g, b)[24][2] = ("well known" \in g.marks /\ g.hits >= 5 /\ g.freq > ScanTh(b))
    BY DEF Rules
  <2> QED
    BY <2>1, Zenon DEF AsMuch, Keeps
<1> QED
  BY <1>1, <1>4, <1>5, <1>6, <1>7, <1>8, <1>9, <1>10, <1>11, <1>12, <1>13,
     <1>14, <1>15, <1>16, <1>17, <1>18, <1>19, <1>22, <1>23, <1>24
  DEF RuleNos

LEMMA AppliesMore ==
  ASSUME NEW f \in Features, NEW by \in Growths,
         NEW b \in [rate : Nat, rateDev : Nat, freq : Nat, freqDev : Nat]
  PROVE  /\ More(f, by).list = f.list /\ More(f, by).marks = f.marks
         /\ Applies(f, b) \subseteq Applies(More(f, by), b)
<1>1. PICK m : m = More(f, by)
  OBVIOUS
<1>2. f \in [proto : {"TCP", "UDP", "ICMP"}, port : Nat, marks : SUBSET Marks,
             list : {"none", "white", "tracker", "black"}, rate : Nat, freq : Nat,
             targets : Nat, visits : Nat, duration : Nat, bytes : Nat, size : Nat, hits : Nat]
  BY VerdictAssumption
<1>3. DOMAIN by \subseteq Counts /\ \A x \in DOMAIN by : by[x] \in Nat
  BY VerdictAssumption
<1>4. m = [x \in DOMAIN f |-> IF x \in DOMAIN by THEN f[x] + by[x] ELSE f[x]]
  BY <1>1 DEF More
<1>5. /\ m.proto = f.proto /\ m.port = f.port /\ m.marks = f.marks /\ m.list = f.list
      /\ m.rate = f.rate
  BY <1>2, <1>3, <1>4 DEF Counts
<1>6. \A x \in Counts : x \in DOMAIN f /\ f[x] \in Nat
  BY <1>2 DEF Counts
<1>7. \A x \in Counts : m[x] \in Nat /\ m[x] >= f[x]
  BY <1>3, <1>4, <1>6
<1>8. /\ f.freq \in Nat /\ m.freq \in Nat /\ m.freq >= f.freq
      /\ f.targets \in Nat /\ m.targets \in Nat /\ m.targets >= f.targets
      /\ f.visits \in Nat /\ m.visits \in Nat /\ m.visits >= f.visits
      /\ f.duration \in Nat /\ m.duration \in Nat /\ m.duration >= f.duration
      /\ f.bytes \in Nat /\ m.bytes \in Nat /\ m.bytes >= f.bytes
      /\ f.size \in Nat /\ m.size \in Nat /\ m.size >= f.size
      /\ f.hits \in Nat /\ m.hits \in Nat /\ m.hits >= f.hits
  BY <1>6, <1>7 DEF Counts
<1>9. AsMuch(f, m, b)
  <2>1. ConnTh(b) \in Int /\ BruteTh(b) \in Int /\ ScanTh(b) \in Int /\ LargeTh(b) \in Int
    BY Thresholds
  <2> QED
    BY <1>5, <1>8, <2>1 DEF AsMuch
<1>10. \A n \in RuleNos : Keeps(f, m, b, n)
  BY <1>9, RulesKept
<1> QED
  BY <1>1, <1>5, <1>10 DEF Applies, Keeps

LEMMA AlwaysMonotone ==
  ASSUME NEW b \in [rate : Nat, rateDev : Nat, freq : Nat, freqDev : Nat]
  PROVE  Monotone(b)
<1> SUFFICES ASSUME NEW f \in Features, NEW s \in Scores
             PROVE  /\ \A by \in Growths : AlertRank(Judged(f, b, s))
                                           <= AlertRank(Judged(More(f, by), b, s))
                    /\ \A t \in Scores : ScoreRank[s] <= ScoreRank[t] =>
                         AlertRank(Judged(f, b, s)) <= AlertRank(Judged(f, b, t))
  BY DEF Monotone
<1>1. f.list \in Lists
  BY VerdictAssumption DEF Lists
<1>2. Rises(f, b) \in BOOLEAN /\ RisesHigh(f, b) \in BOOLEAN
  BY DEF Rises, RisesHigh
<1>3. AlertRank(Judged(f, b, s)) = Severity(f, Rises(f, b), RisesHigh(f, b), s)
  BY <1>1, RankIsSeverity
<1>4. ASSUME NEW by \in Growths
      PROVE  AlertRank(Judged(f, b, s)) <= AlertRank(Judged(More(f, by), b, s))
  <2>1. PICK m : m = More(f, by)
    OBVIOUS
  <2>2. m.list = f.list /\ m.marks = f.marks /\ Applies(f, b) \subseteq Applies(m, b)
    BY <2>1, AppliesMore
  <2>3. /\ Rises(m, b) \in BOOLEAN /\ RisesHigh(m, b) \in BOOLEAN
        /\ Rises(f, b) => Rises(m, b)
        /\ RisesHigh(f, b) => RisesHigh(m, b)
    BY <2>2 DEF Rises, RisesHigh
  <2>4. AlertRank(Judged(m, b, s)) = Severity(m, Rises(m, b), RisesHigh(m, b), s)
    BY <1>1, <2>2, RankIsSeverity
  <2>5. ScoreRank[s] <= ScoreRank[s]
    BY DEF Scores, ScoreRank
  <2>6. Severity(f, Rises(f, b), RisesHigh(f, b), s) <= Severity(m, Rises(m, b), RisesHigh(m, b), s)
    BY <1>2, <2>2, <2>3, <2>5, SeverityRises
  <2> QED
    BY <1>3, <2>1, <2>4, <2>6
<1>5. ASSUME NEW t \in Scores, ScoreRank[s] <= ScoreRank[t]
      PROVE  AlertRank(Judged(f, b, s)) <= AlertRank(Judged(f, b, t))
  <2>1. AlertRank(Judged(f, b, t)) = Severity(f, Rises(f, b), RisesHigh(f, b), t)
    BY <1>1, RankIsSeverity
  <2>2. Severity(f, Rises(f, b), RisesHigh(f, b), s) <= Severity(f, Rises(f, b), RisesHigh(f, b), t)
    BY <1>2, <1>5, SeverityRises
  <2> QED
    BY <1>3, <2>1, <2>2
<1> QED
  BY <1>4, <1>5

LEMMA AlwaysExplained ==
  ASSUME NEW b
  PROVE  Explained(b)
<1> SUFFICES ASSUME NEW f \in Features, NEW s \in Scores, Judged(f, b, s).sub > 0
             PROVE  LET a == Judged(f, b, s)
                        rules == Rules(f, b)
                        level(n) == Rank[rules[n][1]]
                    IN  /\ rules[a.sub][2]
                        /\ \A n \in DOMAIN rules : rules[n][2] => level(n) <= level(a.sub)
                        /\ Rank[a.level] # level(a.sub) =>
                             s # "calm" /\ Rank[a.level] > level(a.sub)
  BY DEF Explained
<1>1. PICK A : A = Applies(f, b)
  OBVIOUS
<1>2. PICK d : d = Detect(f, b)
  OBVIOUS
<1>3. PICK a : a = Judged(f, b, s)
  OBVIOUS
<1> DEFINE lo == "loopback" \in f.marks
<1>4. a = Evaluated(f, b, s)
  <2>1. f.list \in Lists
    BY VerdictAssumption DEF Lists
  <2> QED
    BY <1>3, <2>1, JudgedFacts DEF NoAlert
<1>5. /\ A = {} /\ s # "anomalous" => a = NoAlert
      /\ A = {} /\ s = "anomalous" =>
           a = IF lo THEN [level |-> "medium", sub |-> -1] ELSE [level |-> "high", sub |-> 0]
      /\ A # {} /\ lo => a.level = "medium" /\ a.sub \in {-1, d.sub}
      /\ A # {} /\ ~lo =>
           a = [level |-> IF s = "anomalous" THEN "high" ELSE Level(d.sub), sub |-> d.sub]
  BY <1>1, <1>2, <1>4, EvaluatedFacts
<1>6. /\ A # {} /\ ~lo => /\ d.sub \in A
                          /\ \A n \in A : Rank[Level(n)] <= Rank[Level(d.sub)]
      /\ A # {} /\ lo => d.sub = -1 \/ (d.sub \in A /\ \A n \in A : Level(n) = "medium")
  BY <1>1, <1>2, DetectFacts
<1> HIDE DEF lo
<1>7. Rank["medium"] = 2 /\ Rank["high"] = 3
  BY DEF Rank
<1>8. \A n : Level(n) \in {"medium", "high"}
  BY DEF Level
<1>9. a.sub > 0 /\ A # {}
  BY <1>3, <1>5 DEF NoAlert
<1>10. /\ a.sub \in A
       /\ \A n \in A : Rank[Level(n)] <= Rank[Level(a.sub)]
       /\ Rank[a.level] # Rank[Level(a.sub)] =>
            s # "calm" /\ Rank[a.level] > Rank[Level(a.sub)]
  <2>1. CASE lo
    <3>1. a.level = "medium" /\ a.sub \in A /\ \A n \in A : Level(n) = "medium"
      BY <1>5, <1>6, <1>9, <2>1
    <3> QED
      BY <1>7, <3>1
  <2>2. CASE ~lo
    <3>1. a.sub = d.sub /\ a.level = IF s = "anomalous" THEN "high" ELSE Level(d.sub)
      BY <1>5, <1>9, <2>2
    <3> QED
      BY <1>6, <1>7, <1>8, <1>9, <2>2, <3>1
  <2> QED
    BY <2>1, <2>2
<1>11. A \subseteq RuleNos /\ DOMAIN Rules(f, b) = RuleNos
       /\ \A n \in RuleNos : Rules(f, b)[n][1] = Level(n)
  BY <1>1, RuleLevels DEF Applies
<1>12. \A n \in RuleNos : Rules(f, b)[n][2] => n \in A
  BY <1>1 DEF Applies
<1>13. Rules(f, b)[a.sub][2]
  BY <1>1, <1>10 DEF Applies
<1> QED
  BY <1>3, <1>10, <1>11, <1>12, <1>13

-------------------------------------------------------------------------------
(* Learning leaves only baselines of the kinds the verdicts are sound under. *)

BaselineInv == baseline \in Baselines \cup {DefaultBaseline}

LEMMA SpecBaselineInv == Spec => []BaselineInv
<1>1. Init => BaselineInv
  BY DEF Init, BaselineInv
<1>2. BaselineInv /\ [Next]_vars => BaselineInv'
  <2> SUFFICES ASSUME BaselineInv, [Next]_vars
               PROVE  BaselineInv'
    OBVIOUS
  <2>1. ASSUME Button \/ WindowEnds \/ BeginImport \/ EndImport \/ UNCHANGED vars
        PROVE  UNCHANGED baseline
    BY <2>1 DEF Button, StartCapture, StartLearning, StopCapture, EndStop, WindowEnds,
                BeginImport, EndImport, vars, model
  <2>2. ASSUME NEW i \in Id, Work(i)
        PROVE  baseline' = baseline \/ baseline' \in Baselines
    BY <2>2 DEF Work, Take, Leave, Check, Extend, FitScaler, FitForest, BeginDump,
                PutScaler, PutForest, EndTraining, Judge, Raises, model
  <2> QED
    BY <2>1, <2>2 DEF Next, BaselineInv
<1> QED
  BY <1>1, <1>2, PTL DEF Spec

-------------------------------------------------------------------------------
(* The theorems *)

\* Unless a join has expired, all samples of a model but one are of one learning window,
\* for any number of starts, batches and imports.
THEOREM OneWindowAlways == Spec => []OneWindow
<1>1. ASSUME IInv, ~expired
      PROVE  Cardinality({n \in DOMAIN forest : forest[n] # Last(forest)}) <= 1
  <2> DEFINE others == {n \in DOMAIN forest : forest[n] # Last(forest)}
  <2>1. forest \in Seq(Nat) /\ Same(forest)
    BY <1>1 DEF IInv, TypeInv, SampleInv
  <2>2. others \subseteq {1}
    BY <2>1 DEF Same, Last
  <2>3. IsFiniteSet({1}) /\ Cardinality({1}) = 1
    BY FS_Singleton
  <2>4. Cardinality(others) <= Cardinality({1})
    BY <2>2, <2>3, FS_Subset
  <2> QED
    BY <2>3, <2>4
<1>2. IInv => OneWindow
  BY <1>1 DEF OneWindow
<1> QED
  BY <1>2, SpecIInv, PTL

\* What the next start of the program loads is what this one scores with, however many
\* workers train while one of them writes the file, unless an error has cut a training
\* off or two have written the file at once.
THEOREM FileIsModelAlways == Spec => []FileIsModel
<1>1. IInv => FileIsModel
  BY DEF IInv, FileInv
<1> QED
  BY <1>1, SpecIInv, PTL

\* Whatever was learned, and for any features, more of what is counted or a higher score
\* never makes an alert less, and an alert names a rule that applies, of the highest
\* level that does.
THEOREM VerdictsAlwaysSound == Spec => []VerdictsSound
<1>1. DefaultBaseline \in [rate : Nat, rateDev : Nat, freq : Nat, freqDev : Nat]
  BY DEF DefaultBaseline
<1>2. ASSUME NEW b \in Baselines \cup {DefaultBaseline}
      PROVE  Monotone(b) /\ Explained(b)
  <2>1. b \in [rate : Nat, rateDev : Nat, freq : Nat, freqDev : Nat]
    BY <1>1, VerdictAssumption
  <2> QED
    BY <2>1, AlwaysMonotone, AlwaysExplained
<1>3. BaselineInv => VerdictsSound
  BY <1>2 DEF BaselineInv, VerdictsSound, SoundUnder
<1> QED
  BY <1>3, SpecBaselineInv, PTL
===============================================================================
