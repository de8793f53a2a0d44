-------------------------- MODULE LifecycleProofs ---------------------------
(*************************************************************************)
(* Proofs about MetricsCollector and Lifecycle.                          *)
(*************************************************************************)
EXTENDS Lifecycle, FiniteSetTheorems, TLAPS

-----------------------------------------------------------------------------
(*************************************************************************)
(* MetricsCollector, for any set of metrics and any size of a batch:     *)
(* every metric is accounted for once, and no batch grows beyond its     *)
(* size.                                                                 *)
(*************************************************************************)

LEMMA SendKeepsTypes ==
  ASSUME CollectorTypeOK, NEW pending, pending \subseteq Metrics,
         SendBatchLocked(pending)
  PROVE  queue' \subseteq Metrics /\ uploads' \subseteq SUBSET Metrics /\ armed' \in BOOLEAN
<1>1. CASE pending = {}
  BY <1>1 DEF SendBatchLocked, CollectorTypeOK
<1>2. CASE pending # {}
  <2>1. queue' = {} /\ uploads' = uploads \union {pending} /\ armed' = TRUE
    BY <1>2 DEF SendBatchLocked
  <2> QED
    BY <2>1 DEF CollectorTypeOK
<1> QED
  BY <1>1, <1>2

(* The variables of the collector hold what their comments say. *)
THEOREM CollectorTypeCorrect == CollectorSpec => []CollectorTypeOK
<1>1. CollectorInit => CollectorTypeOK
  BY DEF CollectorInit, CollectorTypeOK
<1>2. CollectorTypeOK /\ [CollectorNext]_collectorVars => CollectorTypeOK'
  <2> SUFFICES ASSUME CollectorTypeOK, [CollectorNext]_collectorVars
               PROVE  CollectorTypeOK'
    OBVIOUS
  <2> USE DEF CollectorTypeOK
  <2>1. ASSUME NEW m \in Metrics, Record(m) PROVE CollectorTypeOK'
    <3>1. queue \union {m} \subseteq Metrics /\ recorded' \subseteq Metrics
      BY <2>1 DEF Record
    <3>2. /\ queue' \subseteq Metrics
          /\ uploads' \subseteq SUBSET Metrics
          /\ armed' \in BOOLEAN
      BY <2>1, <3>1, SendKeepsTypes DEF Record
    <3> QED
      BY <2>1, <3>1, <3>2 DEF Record
  <2>2. CASE SetEnabled
    BY <2>2 DEF SetEnabled
  <2>3. CASE Expire
    BY <2>3 DEF Expire
  <2>4. CASE SendOnTimer
    BY <2>4, SendKeepsTypes DEF SendOnTimer
  <2>5. ASSUME NEW batch \in uploads, Upload(batch) \/ UploadFails(batch)
        PROVE  CollectorTypeOK'
    BY <2>5 DEF Upload, UploadFails
  <2>6. CASE FlushSend
    BY <2>6, SendKeepsTypes DEF FlushSend
  <2>7. CASE FlushCancel
    BY <2>7 DEF FlushCancel
  <2>8. CASE UNCHANGED collectorVars
    BY <2>8 DEF collectorVars
  <2> QED
    BY <2>1, <2>2, <2>3, <2>4, <2>5, <2>6, <2>7, <2>8 DEF CollectorNext, Background
<1> QED
  BY <1>1, <1>2, PTL DEF CollectorSpec

(* SentOnce, with the batches split into their union and their disjointness. *)
Account(r, q, u, s, d) ==
  /\ r = q \union u \union s \union d
  /\ s \intersect d = {}
  /\ q \intersect (s \union d \union u) = {}
  /\ u \intersect (s \union d) = {}

Uploading == UNION uploads
Accounted == Account(recorded, queue, Uploading, sent, dropped)
Disjoint  == \A a, b \in uploads : a # b => a \intersect b = {}

LEMMA SentOnceSplit == SentOnce <=> Accounted /\ Disjoint
  BY DEF SentOnce, Accounted, Account, Uploading, Disjoint

(* Three moves keep an account: a new metric joins the queue, the queue
   becomes a batch, a batch ends. *)
LEMMA JoinKeeps ==
  ASSUME NEW r, NEW q, NEW u, NEW s, NEW d, NEW m, m \notin r, Account(r, q, u, s, d)
  PROVE  Account(r \union {m}, q \union {m}, u, s, d)
  BY DEF Account

LEMMA BatchKeeps ==
  ASSUME NEW r, NEW q, NEW u, NEW s, NEW d, Account(r, q, u, s, d)
  PROVE  Account(r, {}, u \union q, s, d)
  BY DEF Account

LEMMA EndKeeps ==
  ASSUME NEW r, NEW q, NEW u, NEW s, NEW d, NEW b, u \intersect b = {},
         Account(r, q, u \union b, s, d)
  PROVE  Account(r, q, u, s \union b, d) /\ Account(r, q, u, s, d \union b)
<1>1. Account(r, q, u, s \union b, d)
  BY DEF Account
<1>2. Account(r, q, u, s, d \union b)
  BY DEF Account
<1> QED
  BY <1>1, <1>2

(* Sending metrics that are accounted for as queued keeps the account. *)
LEMMA SendKeepsAccount ==
  ASSUME NEW pending, Account(recorded', pending, Uploading, sent, dropped), Disjoint,
         sent' = sent, dropped' = dropped, SendBatchLocked(pending)
  PROVE  SentOnce'
<1>1. queue' = {}
  BY DEF SendBatchLocked
<1>2. CASE pending = {}
  <2>1. uploads' = uploads
    BY <1>2 DEF SendBatchLocked
  <2>2. Accounted' /\ Disjoint'
    BY <1>1, <1>2, <2>1 DEF Accounted, Uploading, Disjoint
  <2> QED
    BY <2>2, SentOnceSplit, PTL
<1>3. CASE pending # {}
  <2>1. uploads' = uploads \union {pending}
    BY <1>3 DEF SendBatchLocked
  <2>2. Uploading' = Uploading \union pending
    BY <2>1 DEF Uploading
  <2>3. Accounted'
    BY <1>1, <2>2, BatchKeeps DEF Accounted
  <2>4. \A a \in uploads : a \subseteq Uploading
    BY DEF Uploading
  <2>5. Uploading \intersect pending = {}
    BY DEF Account
  <2>6. \A a \in uploads : a \intersect pending = {}
    BY <2>4, <2>5
  <2>7. Disjoint'
    BY <2>1, <2>6 DEF Disjoint
  <2> QED
    BY <2>3, <2>7, SentOnceSplit, PTL
<1> QED
  BY <1>2, <1>3

(* A batch that ends leaves the others as they are. *)
LEMMA EndKeepsAccount ==
  ASSUME SentOnce, NEW batch \in uploads, Upload(batch) \/ UploadFails(batch)
  PROVE  SentOnce'
<1>1. /\ queue' = queue
      /\ recorded' = recorded
      /\ uploads' = uploads \ {batch}
      /\ \/ sent' = sent \union batch /\ dropped' = dropped
         \/ sent' = sent /\ dropped' = dropped \union batch
  BY DEF Upload, UploadFails
<1>2. Accounted /\ Disjoint
  BY SentOnceSplit
<1>3. Uploading = Uploading' \union batch
  BY <1>1 DEF Uploading
<1>4. Uploading' \intersect batch = {}
  <2>1. \A b \in uploads' : b \intersect batch = {}
    BY <1>1, <1>2 DEF Disjoint
  <2> QED
    BY <2>1 DEF Uploading
<1>5. Accounted'
  <2>1. Account(recorded, queue, Uploading' \union batch, sent, dropped)
    BY <1>2, <1>3 DEF Accounted
  <2>2. /\ Account(recorded, queue, Uploading', sent \union batch, dropped)
        /\ Account(recorded, queue, Uploading', sent, dropped \union batch)
    BY <1>4, <2>1, EndKeeps
  <2> QED
    BY <1>1, <2>2 DEF Accounted
<1>6. Disjoint'
  BY <1>1, <1>2 DEF Disjoint
<1> QED
  BY <1>5, <1>6, SentOnceSplit, PTL

(* No metric is lost inside the collector, and none is sent twice: SentOnce
   is inductive. *)
THEOREM MetricsSentOnce == CollectorSpec => []SentOnce
<1>1. CollectorInit => SentOnce
  BY DEF CollectorInit, SentOnce
<1>2. SentOnce /\ [CollectorNext]_collectorVars => SentOnce'
  <2> SUFFICES ASSUME SentOnce, [CollectorNext]_collectorVars PROVE SentOnce'
    OBVIOUS
  <2>1. Account(recorded, queue, Uploading, sent, dropped) /\ Disjoint
    BY SentOnceSplit DEF Accounted
  <2>2. ASSUME NEW m \in Metrics, Record(m) PROVE SentOnce'
    <3> DEFINE pending == queue \union {m}
    <3>1. /\ m \notin recorded
          /\ recorded' = recorded \union {m}
          /\ sent' = sent
          /\ dropped' = dropped
      BY <2>2 DEF Record
    <3>2. Account(recorded', pending, Uploading, sent, dropped)
      BY <2>1, <3>1, JoinKeeps
    <3>3. CASE SendBatchLocked(pending)
      <4> HIDE DEF pending
      <4> QED
        BY <2>1, <3>1, <3>2, <3>3, SendKeepsAccount
    <3>4. CASE queue' = pending /\ UNCHANGED <<uploads, armed>>
      <4>1. Accounted' /\ Disjoint'
        BY <2>1, <3>1, <3>2, <3>4 DEF Accounted, Uploading, Disjoint
      <4> QED
        BY <4>1, SentOnceSplit, PTL
    <3> QED
      BY <2>2, <3>3, <3>4 DEF Record
  <2>3. CASE SetEnabled
    BY <2>3 DEF SetEnabled, SentOnce
  <2>4. CASE Expire
    BY <2>4 DEF Expire, SentOnce
  <2>5. CASE SendOnTimer
    BY <2>1, <2>5, SendKeepsAccount DEF SendOnTimer
  <2>6. ASSUME NEW batch \in uploads, Upload(batch) \/ UploadFails(batch)
        PROVE  SentOnce'
    BY <2>6, EndKeepsAccount
  <2>7. CASE FlushSend
    BY <2>1, <2>7, SendKeepsAccount DEF FlushSend
  <2>8. CASE FlushCancel
    BY <2>8 DEF FlushCancel, SentOnce
  <2>9. CASE UNCHANGED collectorVars
    BY <2>9 DEF collectorVars, SentOnce
  <2> QED
    BY <2>2, <2>3, <2>4, <2>5, <2>6, <2>7, <2>8, <2>9 DEF CollectorNext, Background
<1> QED
  BY <1>1, <1>2, PTL DEF CollectorSpec

(* A batch is sent as it is, or not at all if it is empty. *)
LEMMA SendKeepsBound ==
  ASSUME BatchesBounded, NEW pending, IsFiniteSet(pending),
         Cardinality(pending) <= BatchSize, SendBatchLocked(pending)
  PROVE  BatchesBounded'
<1>1. Cardinality(queue') = 0
  BY FS_EmptySet DEF SendBatchLocked
<1>2. pending # {} => Cardinality(pending) \in 1..BatchSize
  BY FS_EmptySet, FS_CardinalityType, BatchAssumption
<1>3. \A batch \in uploads' : batch \in uploads \/ (batch = pending /\ pending # {})
  BY DEF SendBatchLocked
<1> QED
  BY <1>1, <1>2, <1>3, BatchAssumption DEF BatchesBounded

(* No full batch waits in the queue, and no upload is larger than one. *)
THEOREM BatchesStayBounded == CollectorSpec => []BatchesBounded
<1>1. CollectorInit => BatchesBounded
  BY FS_EmptySet, BatchAssumption DEF CollectorInit, BatchesBounded
<1>2. CollectorTypeOK /\ BatchesBounded /\ [CollectorNext]_collectorVars => BatchesBounded'
  <2> SUFFICES ASSUME CollectorTypeOK, BatchesBounded, [CollectorNext]_collectorVars
               PROVE  BatchesBounded'
    OBVIOUS
  <2>1. IsFiniteSet(queue) /\ Cardinality(queue) \in Nat
    BY FS_Subset, FS_CardinalityType, MetricsAssumption DEF CollectorTypeOK
  <2>2. Cardinality(queue) <= BatchSize
    BY <2>1, BatchAssumption DEF BatchesBounded
  <2>3. ASSUME NEW m \in Metrics, Record(m) PROVE BatchesBounded'
    <3> DEFINE pending == queue \union {m}
    <3>1. /\ IsFiniteSet(pending)
          /\ Cardinality(pending) \in Nat
          /\ Cardinality(pending) <= Cardinality(queue) + 1
      <4>1. IsFiniteSet(pending)
        BY <2>1, FS_AddElement
      <4>2. Cardinality(pending) = IF m \in queue THEN Cardinality(queue)
                                                   ELSE Cardinality(queue) + 1
        BY <2>1, FS_AddElement
      <4> QED
        BY <2>1, <4>1, <4>2
    <3>2. Cardinality(pending) <= BatchSize
      BY <2>1, <3>1, BatchAssumption DEF BatchesBounded
    <3>3. CASE Cardinality(pending) >= BatchSize
      BY <2>3, <3>1, <3>2, <3>3, SendKeepsBound DEF Record
    <3>4. CASE ~(Cardinality(pending) >= BatchSize)
      BY <2>3, <3>1, <3>4, BatchAssumption DEF Record, BatchesBounded
    <3> QED
      BY <3>3, <3>4
  <2>4. CASE SetEnabled
    BY <2>4 DEF SetEnabled, BatchesBounded
  <2>5. CASE Expire
    BY <2>5 DEF Expire, BatchesBounded
  <2>6. CASE SendOnTimer
    BY <2>1, <2>2, <2>6, SendKeepsBound DEF SendOnTimer
  <2>7. ASSUME NEW batch \in uploads, Upload(batch) \/ UploadFails(batch)
        PROVE  BatchesBounded'
    BY <2>7 DEF Upload, UploadFails, BatchesBounded
  <2>8. CASE FlushSend
    BY <2>1, <2>2, <2>8, SendKeepsBound DEF FlushSend
  <2>9. CASE FlushCancel
    BY <2>9 DEF FlushCancel, BatchesBounded
  <2>10. CASE UNCHANGED collectorVars
    BY <2>10 DEF collectorVars, BatchesBounded
  <2> QED
    BY <2>3, <2>4, <2>5, <2>6, <2>7, <2>8, <2>9, <2>10 DEF CollectorNext, Background
<1> QED
  BY <1>1, <1>2, CollectorTypeCorrect, PTL DEF CollectorSpec

-----------------------------------------------------------------------------
(*************************************************************************)
(* Lifecycle: the running process uses the collector as the collector's  *)
(* own specification says, so what is proved of that holds in the        *)
(* process, shutdown included; and audit entries are lost in a           *)
(* foreground shutdown only.                                             *)
(*************************************************************************)

USE DEF Requests, Drainers

(* Every step of the process that touches the collector is one of its
   operations. *)
LEMMA StepsCollect == [Next]_vars => [CollectorNext]_collectorVars
<1> SUFFICES ASSUME [Next]_vars PROVE [CollectorNext]_collectorVars
  OBVIOUS
<1>1. CASE StartUp
  BY <1>1 DEF StartUp, MakeServer, Listen, Serve, ServeReturns
<1>2. CASE ShutDown
  <2>1. CASE Cancel
    BY <2>1 DEF Cancel
  <2>2. CASE CloseAudit
    BY <2>2 DEF CloseAudit
  <2>3. CASE FlushMetrics
    BY <2>3 DEF FlushMetrics, CollectorNext
  <2>4. CASE AwaitContext
    BY <2>4 DEF AwaitContext
  <2>5. ASSUME NEW d \in Drainers, StopServer(d) \/ EndShutdown(d) \/ ForceShutdown(d)
        PROVE  UNCHANGED collectorVars
    BY <2>5 DEF StopServer, EndShutdown, ForceShutdown
  <2> QED
    BY <1>2, <2>1, <2>2, <2>3, <2>4, <2>5 DEF ShutDown
<1>3. CASE Exit
  BY <1>3 DEF Exit, ExitForeground, ExitDaemon, End
<1>4. CASE Signal
  BY <1>4 DEF Signal
<1>5. CASE Quit
  BY <1>5 DEF Quit
<1>6. CASE Collect
  BY <1>6 DEF Collect, CollectorNext
<1>7. ASSUME NEW r \in Requests, Handle(r) PROVE [CollectorNext]_collectorVars
  <2>1. CASE CountMetric(r)
    BY <2>1 DEF CountMetric, CollectorNext
  <2>2. CASE ~CountMetric(r)
    BY <1>7, <2>2 DEF Handle, Accept, Hijack, Scan, LogEntry, Answer
  <2> QED
    BY <2>1, <2>2
<1>8. CASE UNCHANGED vars
  BY <1>8 DEF vars
<1> QED
  BY <1>1, <1>2, <1>3, <1>4, <1>5, <1>6, <1>7, <1>8 DEF Next

THEOREM UsesCollector == Spec => CollectorSpec
<1>1. Init => CollectorInit
  BY DEF Init
<1> QED
  BY <1>1, StepsCollect, PTL DEF Spec, CollectorSpec

(* Metrics are accounted for once while requests, the timer, the two flushes
   of Shutdown and the end of the process interleave. *)
THEOREM ProcessSentOnce == Spec => []SentOnce
  BY UsesCollector, MetricsSentOnce, PTL

(* And no full batch is ever left waiting. *)
THEOREM ProcessBatchesBounded == Spec => []BatchesBounded
  BY UsesCollector, BatchesStayBounded, PTL

(* The variables of the process hold what their comments say. *)
THEOREM LifecycleTypeCorrect == Spec => []TypeOK
<1>1. Init => TypeOK
  <2> SUFFICES ASSUME Init PROVE TypeOK
    OBVIOUS
  <2>1. CollectorTypeOK
    BY DEF Init, CollectorInit, CollectorTypeOK
  <2>2. pc \in [Drainers -> {"none", "wait"}]
    BY DEF Init, Drainers
  <2>3. req \in [Requests -> {"idle"}]
    BY DEF Init
  <2> QED
    BY <2>1, <2>2, <2>3, StylesAssumption DEF Init, TypeOK
<1>2. TypeOK /\ CollectorTypeOK' /\ [Next]_vars => TypeOK'
  <2> SUFFICES ASSUME TypeOK, CollectorTypeOK', [Next]_vars PROVE TypeOK'
    OBVIOUS
  <2> USE DEF TypeOK, Goto, Step, stopVars, workVars
  <2>1. CASE MakeServer \/ Listen \/ Serve \/ ServeReturns
    BY <2>1 DEF MakeServer, Listen, Serve, ServeReturns
  <2>2. CASE Cancel \/ CloseAudit \/ FlushMetrics \/ AwaitContext
    BY <2>2 DEF Cancel, CloseAudit, FlushMetrics, AwaitContext
  <2>3. ASSUME NEW d \in Drainers, StopServer(d) \/ EndShutdown(d) \/ ForceShutdown(d)
        PROVE  TypeOK'
    BY <2>3 DEF StopServer, EndShutdown, ForceShutdown
  <2>4. CASE ExitForeground \/ ExitDaemon
    BY <2>4 DEF ExitForeground, ExitDaemon, End
  <2>5. CASE Signal \/ Quit \/ Collect
    BY <2>5 DEF Signal, Quit, Collect
  <2>6. ASSUME NEW r \in Requests, Handle(r) PROVE TypeOK'
    <3>1. CASE Accept(r) \/ Hijack(r) \/ Scan(r)
      BY <3>1 DEF Accept, Hijack, Scan
    <3>2. CASE LogEntry(r) \/ CountMetric(r) \/ Answer(r)
      BY <3>2 DEF LogEntry, CountMetric, Answer
    <3> QED
      BY <2>6, <3>1, <3>2 DEF Handle
  <2>7. CASE UNCHANGED vars
    BY <2>7 DEF vars
  <2> QED
    BY <2>1, <2>2, <2>3, <2>4, <2>5, <2>6, <2>7 DEF Next, StartUp, ShutDown, Exit
<1> QED
  BY <1>1, <1>2, UsesCollector, CollectorTypeCorrect, PTL DEF Spec

(* Why entries are lost in a foreground shutdown only: the audit log is
   closed by Shutdown, and Shutdown runs only there, after the signal. *)
ClosingSteps == {"audit", "flush1", "cancel1", "flush2", "cancel2", "stop", "drain"}

ClosedByShutdown ==
  /\ pc["signal"] \in ClosingSteps \/ auditClosed => signalled /\ style = "foreground"
  /\ lost # {} => auditClosed

THEOREM LossOnlyInShutdown == Spec => []EntriesLostOnlyInShutdown
<1>1. Init => ClosedByShutdown
  BY DEF Init, ClosedByShutdown, ClosingSteps
<1>2. TypeOK /\ ClosedByShutdown /\ [Next]_vars => ClosedByShutdown'
  <2> SUFFICES ASSUME TypeOK, ClosedByShutdown, [Next]_vars PROVE ClosedByShutdown'
    OBVIOUS
  <2> USE DEF TypeOK, ClosedByShutdown, ClosingSteps, Goto, Step, stopVars, workVars
  <2>1. CASE MakeServer \/ Listen \/ Serve \/ ServeReturns
    BY <2>1 DEF MakeServer, Listen, Serve, ServeReturns
  <2>2. CASE Cancel \/ CloseAudit \/ FlushMetrics \/ AwaitContext
    BY <2>2 DEF Cancel, CloseAudit, FlushMetrics, AwaitContext
  <2>3. ASSUME NEW d \in Drainers, StopServer(d) \/ EndShutdown(d) \/ ForceShutdown(d)
        PROVE  ClosedByShutdown'
    BY <2>3 DEF StopServer, EndShutdown, ForceShutdown
  <2>4. CASE ExitForeground \/ ExitDaemon
    BY <2>4 DEF ExitForeground, ExitDaemon, End
  <2>5. CASE Signal \/ Quit \/ Collect
    BY <2>5 DEF Signal, Quit, Collect
  <2>6. ASSUME NEW r \in Requests, Handle(r) PROVE ClosedByShutdown'
    BY <2>6 DEF Handle, Accept, Hijack, Scan, LogEntry, CountMetric, Answer
  <2>7. CASE UNCHANGED vars
    BY <2>7 DEF vars
  <2> QED
    BY <2>1, <2>2, <2>3, <2>4, <2>5, <2>6, <2>7 DEF Next, StartUp, ShutDown, Exit
<1>3. ClosedByShutdown => EntriesLostOnlyInShutdown
  BY DEF ClosedByShutdown, EntriesLostOnlyInShutdown
<1> QED
  BY <1>1, <1>2, <1>3, LifecycleTypeCorrect, PTL DEF Spec

(* The batch timer is never lost with metrics in the queue, whoever took the
   lock last: a request, its own callback, or a flush of Shutdown. *)
THEOREM TimerStopsIdle == Spec => TimerDiesIdle
<1>1. [CollectorNext]_collectorVars =>
        ((armed \/ due) /\ ~(armed' \/ due') => queue = {})
  <2> USE DEF SendBatchLocked
  <2>1. ASSUME NEW m \in Metrics, Record(m)
        PROVE  (armed \/ due) /\ ~(armed' \/ due') => queue = {}
    BY <2>1 DEF Record
  <2>2. CASE SetEnabled \/ Expire
    BY <2>2 DEF SetEnabled, Expire
  <2>3. CASE SendOnTimer
    BY <2>3 DEF SendOnTimer
  <2>4. ASSUME NEW batch \in uploads, Upload(batch) \/ UploadFails(batch)
        PROVE  (armed \/ due) /\ ~(armed' \/ due') => queue = {}
    BY <2>4 DEF Upload, UploadFails
  <2>5. CASE FlushSend \/ FlushCancel
    BY <2>5 DEF FlushSend, FlushCancel
  <2>6. CASE UNCHANGED collectorVars
    BY <2>6 DEF collectorVars
  <2> QED
    BY <2>1, <2>2, <2>3, <2>4, <2>5, <2>6 DEF CollectorNext, Background
<1>2. [Next]_vars => [(armed \/ due) /\ ~(armed' \/ due') => queue = {}]_vars
  BY <1>1, StepsCollect
<1> QED
  BY <1>2, PTL DEF Spec, TimerDiesIdle

=============================================================================
