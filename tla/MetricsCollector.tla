-------------------------- MODULE MetricsCollector --------------------------
(***************************************************************************)
(* internal/metrics/anonymized.go: the queue of anonymized metrics, sent   *)
(* in batches when it is full, when its timer expires, and on Flush.       *)
(*                                                                         *)
(* Collector.mu is held through every operation, so each is one step; the  *)
(* timer's callback and the upload of a batch are goroutines of their own. *)
(* What a metric says (hashed domain, hour, category) is left out.         *)
(***************************************************************************)
EXTENDS Naturals, FiniteSets

CONSTANTS
  Metrics,   \* Metrics that may be recorded, each once.
  BatchSize  \* How many fill a batch.

ASSUME MetricsAssumption == IsFiniteSet(Metrics)
ASSUME BatchAssumption == BatchSize \in Nat \ {0}

VARIABLES
  enabled,   \* c.enabled
  recorded,  \* History: the metrics accepted by RecordDetection.
  queue,     \* c.queue
  uploads,   \* The batches of the running sendToEndpoint goroutines.
  sent,      \* Metrics that the endpoint received.
  dropped,   \* Metrics whose upload failed: there is no retry.
  armed,     \* c.batchTimer is running.
  due,       \* It expired, and its callback waits for c.mu.
  flushing,  \* A Flush is between sendBatch and cancel.
  cancelled  \* c.ctx is cancelled.

collectorVars == <<enabled, recorded, queue, uploads, sent, dropped, armed, due,
                   flushing, cancelled>>

CollectorTypeOK ==
  /\ recorded \subseteq Metrics
  /\ queue \subseteq Metrics
  /\ uploads \subseteq SUBSET Metrics
  /\ sent \subseteq Metrics
  /\ dropped \subseteq Metrics
  /\ enabled \in BOOLEAN
  /\ armed \in BOOLEAN
  /\ due \in BOOLEAN
  /\ flushing \in BOOLEAN
  /\ cancelled \in BOOLEAN

CollectorInit ==
  /\ enabled = TRUE
  /\ recorded = {}
  /\ queue = {}
  /\ uploads = {}
  /\ sent = {}
  /\ dropped = {}
  /\ armed = TRUE
  /\ due = FALSE
  /\ flushing = FALSE
  /\ cancelled = FALSE

(* Faulty variants: the queue is not emptied; the timer is not reset. *)
SendKeepsQueue(pending) ==
  /\ queue' = pending
  /\ IF pending = {} THEN UNCHANGED <<uploads, armed>>
                     ELSE uploads' = uploads \union {pending} /\ armed' = TRUE

SendNoReset(pending) ==
  /\ queue' = {}
  /\ armed' = FALSE
  /\ uploads' = IF pending = {} THEN uploads ELSE uploads \union {pending}

(* sendBatchLocked.  It returns before it resets the timer when there is
   nothing to send. *)
SendBatchLocked(pending) ==
  /\ queue' = {}
  /\ IF pending = {} THEN UNCHANGED <<uploads, armed>>
                     ELSE uploads' = uploads \union {pending} /\ armed' = TRUE

(* Faulty variant: the size is looked at before the metric is queued. *)
RecordLate(m) ==
  /\ m \notin recorded
  /\ enabled
  /\ recorded' = recorded \union {m}
  /\ IF Cardinality(queue) > BatchSize
     THEN SendBatchLocked(queue \union {m})
     ELSE queue' = queue \union {m} /\ UNCHANGED <<uploads, armed>>
  /\ UNCHANGED <<enabled, sent, dropped, due, flushing, cancelled>>

(* RecordDetection and RecordFalsePositive: nothing happens when disabled. *)
Record(m) ==
  /\ m \notin recorded
  /\ enabled
  /\ recorded' = recorded \union {m}
  /\ IF Cardinality(queue \union {m}) >= BatchSize
     THEN SendBatchLocked(queue \union {m})
     ELSE queue' = queue \union {m} /\ UNCHANGED <<uploads, armed>>
  /\ UNCHANGED <<enabled, sent, dropped, due, flushing, cancelled>>

SetEnabled ==
  /\ enabled' \in BOOLEAN
  /\ UNCHANGED <<recorded, queue, uploads, sent, dropped, armed, due, flushing,
                 cancelled>>

(* BatchTimeout passes, and the runtime starts the callback. *)
Expire ==
  /\ armed
  /\ ~due
  /\ armed' = FALSE
  /\ due' = TRUE
  /\ UNCHANGED <<enabled, recorded, queue, uploads, sent, dropped, flushing, cancelled>>

(* Faulty variant: a batch that is not full waits for the next one. *)
SendOnTimerIfFull ==
  /\ due
  /\ due' = FALSE
  /\ IF Cardinality(queue) >= BatchSize
     THEN SendBatchLocked(queue)
     ELSE UNCHANGED <<queue, uploads, armed>>
  /\ UNCHANGED <<enabled, recorded, sent, dropped, flushing, cancelled>>

(* sendBatch, called by the timer. *)
SendOnTimer ==
  /\ due
  /\ due' = FALSE
  /\ SendBatchLocked(queue)
  /\ UNCHANGED <<enabled, recorded, sent, dropped, flushing, cancelled>>

(* sendToEndpoint: one attempt, which the cancelled context ends. *)
Upload(batch) ==
  /\ batch \in uploads
  /\ ~cancelled
  /\ uploads' = uploads \ {batch}
  /\ sent' = sent \union batch
  /\ UNCHANGED <<enabled, recorded, queue, dropped, armed, due, flushing, cancelled>>

UploadFails(batch) ==
  /\ batch \in uploads
  /\ uploads' = uploads \ {batch}
  /\ dropped' = dropped \union batch
  /\ UNCHANGED <<enabled, recorded, queue, sent, armed, due, flushing, cancelled>>

(* Flush, and Close, which only calls it: sendBatch, then cancel, which may
   overtake the goroutine that uploads the last batch. *)
FlushSend ==
  /\ ~flushing
  /\ flushing' = TRUE
  /\ SendBatchLocked(queue)
  /\ UNCHANGED <<enabled, recorded, sent, dropped, due, cancelled>>

FlushCancel ==
  /\ flushing
  /\ flushing' = FALSE
  /\ cancelled' = TRUE
  /\ UNCHANGED <<enabled, recorded, queue, uploads, sent, dropped, armed, due>>

(* What the collector does by itself. *)
Background ==
  \/ Expire
  \/ SendOnTimer
  \/ \E batch \in uploads : Upload(batch) \/ UploadFails(batch)

CollectorNext ==
  \/ \E m \in Metrics : Record(m)
  \/ SetEnabled
  \/ Background
  \/ FlushSend
  \/ FlushCancel

CollectorSpec == CollectorInit /\ [][CollectorNext]_collectorVars

(* Time passes, and the timer's callback gets the lock. *)
CollectorFairSpec ==
  CollectorSpec /\ WF_collectorVars(Expire) /\ WF_collectorVars(SendOnTimer)

-----------------------------------------------------------------------------
(* Properties *)

(* No metric is lost inside the collector and none is sent twice: each one
   recorded is waiting, or in one batch, or received, or dropped, and only
   one of these, whatever the order of full batches, timer and flushes. *)
SentOnce ==
  /\ recorded = queue \union (UNION uploads) \union sent \union dropped
  /\ sent \intersect dropped = {}
  /\ queue \intersect (sent \union dropped \union (UNION uploads)) = {}
  /\ (UNION uploads) \intersect (sent \union dropped) = {}
  /\ \A a, b \in uploads : a # b => a \intersect b = {}

(* A full batch never waits, and no upload exceeds a batch. *)
BatchesBounded ==
  /\ Cardinality(queue) < BatchSize
  /\ \A batch \in uploads : Cardinality(batch) \in 1..BatchSize

(* "BatchTimeout is the maximum time to wait before sending a partial batch"
   (anonymized.go:44): a queued metric does not wait for ever. *)
PartialBatchesSent == \A m \in Metrics : m \in queue ~> m \notin queue
=============================================================================
