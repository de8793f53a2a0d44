---------------------------- MODULE ThreatModel ----------------------------
(***************************************************************************)
(* ThreatDetector of internal/ml/detector.go with its ONNX session         *)
(* (detector_onnx_methods.go), and the shadow log of the calibration       *)
(* manager (calibration.go).                                               *)
(*                                                                         *)
(* Detect holds td.mu only for reading, so that requests infer at once;    *)
(* they all use the session's one input and one output tensor.  A text's   *)
(* score by the model is known by its text.                                *)
(***************************************************************************)
EXTENDS Integers, Sequences, SequencesExt, FiniteSets

CONSTANTS
  Callers,    \* Requests being detected; the text of each is its own.
  MaxLoads,   \* Bound: how often a model is loaded.
  MaxFailures \* Bound: flushes that fail half-way.

None == "none"
Mixed == "mixed"  \* A tensor that is half one text, half another.

ASSUME CallersAssumption == {None, Mixed} \cap Callers = {}
ASSUME MaxLoadsAssumption == {MaxLoads, MaxFailures} \subseteq Nat

VARIABLES
  loaded,       \* The model is loaded.
  loads,        \* How often it has been.
  inputTensor,  \* The text in the input tensor.
  outputTensor, \* The text whose score is in the output tensor.
  call,         \* call[c]: where Detect is, and the text the score it has is of.
  shared,       \* Callers that used the tensors at the same time as another.
  shadowLog,    \* Predictions not yet written, oldest first.
  shadowFile,   \* shadow_predictions.jsonl: a prediction for each line begun.
  torn,         \* The lines of it whose end was not written: the line that
                \* follows is glued to the half that was.
  failures      \* How many flushes wrote something and failed.

modelVars == <<loaded, loads, inputTensor, outputTensor, call, shared, shadowLog, shadowFile,
               torn, failures>>

Scores == Callers \union {None, Mixed, "heuristic"}

ModelTypeOK ==
  /\ loaded \in BOOLEAN
  /\ loads \in 0..MaxLoads
  /\ inputTensor \in Callers \union {None, Mixed}
  /\ outputTensor \in Callers \union {None, Mixed}
  /\ call \in [Callers -> [pc : {"idle", "copy", "run", "read", "log", "done"}, score : Scores]]
  /\ shared \subseteq Callers
  /\ shadowLog \in Seq(Callers)
  /\ shadowFile \in Seq(Callers)
  /\ torn \subseteq DOMAIN shadowFile
  /\ failures \in 0..MaxFailures

ModelInit ==
  /\ loaded = FALSE
  /\ loads = 0
  /\ inputTensor = None
  /\ outputTensor = None
  /\ call = [c \in Callers |-> [pc |-> "idle", score |-> None]]
  /\ shared = {}
  /\ shadowLog = <<>>
  /\ shadowFile = <<>>
  /\ torn = {}
  /\ failures = 0

-----------------------------------------------------------------------------
(* The model *)

Readers == {c \in Callers : call[c].pc \notin {"idle", "done"}}
Inferring == {c \in Callers : call[c].pc \in {"copy", "run", "read"}}

(* LoadModel and Close hold the lock for writing.  The new tensors are zero. *)
LoadModel ==
  /\ Readers = {}
  /\ loads < MaxLoads
  /\ loads' = loads + 1
  /\ loaded' = TRUE
  /\ inputTensor' = None
  /\ outputTensor' = None
  /\ UNCHANGED <<call, shared, shadowLog, shadowFile, torn, failures>>

CloseModel ==
  /\ Readers = {}
  /\ loaded
  /\ loaded' = FALSE
  /\ inputTensor' = None
  /\ outputTensor' = None
  /\ UNCHANGED <<loads, call, shared, shadowLog, shadowFile, torn, failures>>

-----------------------------------------------------------------------------
(* Detect, in shadow mode as the proxy configures it *)

Set(c, pc, score) == call' = [call EXCEPT ![c] = [pc |-> pc, score |-> score]]

(* Without a model the score is the heuristic one. *)
DetectHeuristic(c) ==
  /\ call[c].pc = "idle"
  /\ ~loaded
  /\ Set(c, "log", "heuristic")
  /\ UNCHANGED <<loaded, loads, inputTensor, outputTensor, shared, shadowLog, shadowFile,
                 torn, failures>>

(* The text begins to be copied into the input tensor. *)
BeginCopy(c) ==
  /\ call[c].pc = "idle"
  /\ loaded
  /\ Set(c, "copy", None)
  /\ inputTensor' = Mixed
  /\ shared' = IF Inferring = {} THEN shared ELSE shared \union Inferring \union {c}
  /\ UNCHANGED <<loaded, loads, outputTensor, shadowLog, shadowFile, torn, failures>>

(* It has been, and prevails unless another one is being copied. *)
EndCopy(c) ==
  /\ call[c].pc = "copy"
  /\ Set(c, "run", None)
  /\ inputTensor' \in {c} \union (IF \E d \in Callers \ {c} : call[d].pc = "copy"
                                  THEN {Mixed} ELSE {})
  /\ UNCHANGED <<loaded, loads, outputTensor, shared, shadowLog, shadowFile, torn, failures>>

(* What a step of Detect does once the text is in the tensor. *)
AfterCopy == "run"
AfterRun == "read"

(* session.Run, of what the input tensor holds by now. *)
RunsSession(c) ==
  /\ call[c].pc = AfterCopy
  /\ Set(c, AfterRun, None)
  /\ outputTensor' = inputTensor
  /\ UNCHANGED <<loaded, loads, inputTensor, shared, shadowLog, shadowFile, torn, failures>>

(* Faulty variant: a failed run is taken for one that succeeded. *)
RunsOrNot(c) ==
  /\ call[c].pc = AfterCopy
  /\ Set(c, AfterRun, None)
  /\ outputTensor' \in {inputTensor, outputTensor}
  /\ UNCHANGED <<loaded, loads, inputTensor, shared, shadowLog, shadowFile, torn, failures>>

RunSession(c) == RunsSession(c)

(* The run fails, or panics: the heuristic score. *)
RunFails(c) ==
  /\ call[c].pc = AfterCopy
  /\ Set(c, "log", "heuristic")
  /\ UNCHANGED <<loaded, loads, inputTensor, outputTensor, shared, shadowLog, shadowFile,
                 torn, failures>>

ReadOutput(c) ==
  /\ call[c].pc = AfterRun
  /\ Set(c, "log", outputTensor)
  /\ UNCHANGED <<loaded, loads, inputTensor, outputTensor, shared, shadowLog, shadowFile,
                 torn, failures>>

LogShadowPrediction(c) ==
  /\ call[c].pc = "log"
  /\ Set(c, "done", call[c].score)
  /\ shadowLog' = Append(shadowLog, c)
  /\ UNCHANGED <<loaded, loads, inputTensor, outputTensor, shared, shadowFile, torn, failures>>

-----------------------------------------------------------------------------
(* FlushShadowLog holds the calibration manager's lock for all of it. *)

FlushAll ==
  /\ shadowLog # <<>>
  /\ shadowFile' = shadowFile \o shadowLog
  /\ shadowLog' = <<>>
  /\ UNCHANGED <<loaded, loads, inputTensor, outputTensor, call, shared, torn, failures>>

(* What is left in the buffer when writing it has failed. *)
KeptBuffer(n) == shadowLog

(* Faulty variant: the buffer is cleared in any case. *)
ClearedBuffer(n) == <<>>

AfterFailure(n) == KeptBuffer(n)

(* The disk is full, or a score cannot be encoded: n predictions were written,
   and perhaps a part of the next.  It may happen again to the same buffer. *)
FlushFails ==
  /\ shadowLog # <<>>
  /\ \E n \in 0..Len(shadowLog) - 1, half \in {0, 1} :
       /\ shadowFile' = shadowFile \o SubSeq(shadowLog, 1, n + half)
       /\ torn' = torn \union {i \in DOMAIN shadowFile' : half = 1 /\ i = Len(shadowFile')}
       /\ shadowLog' = AfterFailure(n)
       /\ failures' = failures + (IF n + half > 0 THEN 1 ELSE 0)
       /\ failures' <= MaxFailures
  /\ UNCHANGED <<loaded, loads, inputTensor, outputTensor, call, shared>>

ModelNext ==
  \/ LoadModel \/ CloseModel \/ FlushAll \/ FlushFails
  \/ \E c \in Callers :
       \/ DetectHeuristic(c) \/ BeginCopy(c) \/ EndCopy(c) \/ RunSession(c)
       \/ RunFails(c) \/ ReadOutput(c) \/ LogShadowPrediction(c)

ModelSpec == ModelInit /\ [][ModelNext]_modelVars

-----------------------------------------------------------------------------
(* Properties *)

(* detector.go:83 "Detect analyzes text for threats and returns a ThreatScore":
   of that text.  The code shares the tensors between requests, so that a
   request may get the score of another one's text, or of a mixture. *)
ScoreOfText ==
  \A c \in Callers : call[c].pc = "done" => call[c].score \in {c, "heuristic"}

(* A request that infers alone gets the score of its own text, whatever an
   earlier one left in the tensors, through failed runs, closing and loading. *)
LoneScore ==
  \A c \in Callers \ shared : call[c].pc = "done" => call[c].score \in {c, "heuristic"}

Occurrences(seq, c) == Cardinality({i \in DOMAIN seq : seq[i] = c})

InBuffer(c) == c \in ToSet(shadowLog)
ReadableLine(i) == i \notin torn /\ i - 1 \notin torn
GluedLine(i)    == i \notin torn /\ i - 1 \in torn

(* calibration.go:102 and :123: through flushes that fail half-way any number of
   times, a prediction is in the buffer or readable in the file, or its whole line
   is glued to what a short write left: such a write costs the one prediction
   after it and no other.  A flush that failed after writing something writes its
   first ones once more, and nothing else is written twice. *)
ShadowLogKept ==
  \A c \in Callers : call[c].pc = "done" =>
    /\ \/ InBuffer(c)
       \/ \E i \in DOMAIN shadowFile : shadowFile[i] = c /\ (ReadableLine(i) \/ GluedLine(i))
    /\ Occurrences(shadowLog, c) + Occurrences(shadowFile, c) \in 1..1 + failures
=============================================================================
