--------------------------- MODULE LanguageServer ---------------------------
(***************************************************************************)
(* Server and Handler of internal/lsp: the language server of an editor.   *)
(* One goroutine reads messages; each didOpen and didChange stores the     *)
(* text, sets the document's debounce timer and starts a goroutine, which  *)
(* detects at once (didOpen) or sets the timer once more (didChange).      *)
(* Documents are independent: there is one here.  Its text is the number   *)
(* of the version that brought it.                                         *)
(***************************************************************************)
EXTENDS Integers, Sequences, Bags

CONSTANT MaxVersion \* Bound: how often the document changes.

ASSUME MaxVersionAssumption == MaxVersion \in Nat

VARIABLES
  document,  \* The text that is stored, 0 before the first.
  message,   \* The message being dispatched: its version, and the steps left.
  timer,     \* The version of the debounce timer, 0 when it is not running.
  work,      \* The goroutines: a bag of what each does next.
  published, \* What the editor got: which version, and of which text.
  open       \* The editor is connected.

serverVars == <<document, message, timer, work, published, open>>

Versions == 1..MaxVersion
Jobs == [does : {"schedule", "read"}, version : Versions, text : {0}]
        \union [does : {"detect"}, version : Versions, text : Versions]
Nothing == [version |-> 0, job |-> "none", left |-> <<>>]

ServerTypeOK ==
  /\ document \in 0..MaxVersion
  /\ message.version \in 0..MaxVersion
  /\ timer \in 0..MaxVersion
  /\ IsABag(work) /\ BagToSet(work) \subseteq Jobs
  /\ published \subseteq [version : Versions, text : Versions]
  /\ open \in BOOLEAN

ServerInit ==
  /\ document = 0
  /\ message = Nothing
  /\ timer = 0
  /\ work = EmptyBag
  /\ published = {}
  /\ open = TRUE

Go(job) == work (+) SetToBag({job})
Becomes(job, next) == (work (-) SetToBag({job})) (+) SetToBag(next)
Job(does, v, text) == [does |-> does, version |-> v, text |-> text]

-----------------------------------------------------------------------------
(* Reading and dispatching *)

(* The order in which a didOpen or didChange is handled. *)
HandlerSteps == <<"store", "schedule", "go">>

(* Faulty variant: the text is stored last. *)
StoreLastSteps == <<"schedule", "go", "store">>

DispatchSteps == HandlerSteps

(* readMessage: the editor numbers its versions. *)
Receive(job) ==
  /\ open
  /\ message = Nothing
  /\ document < MaxVersion
  /\ message' = [version |-> document + 1, job |-> job, left |-> DispatchSteps]
  /\ UNCHANGED <<document, timer, work, published, open>>

(* After the last step, the next message is read. *)
Advance ==
  message' = IF Len(message.left) = 1 THEN Nothing ELSE [message EXCEPT !.left = Tail(@)]

At(step) == open /\ message.left # <<>> /\ Head(message.left) = step

StoreText ==
  /\ At("store")
  /\ document' = message.version
  /\ Advance
  /\ UNCHANGED <<timer, work, published, open>>

(* scheduleDetect stops the timer that runs, of whatever version. *)
ScheduleDetect ==
  /\ At("schedule")
  /\ timer' = message.version
  /\ Advance
  /\ UNCHANGED <<document, work, published, open>>

StartGoroutine ==
  /\ At("go")
  /\ work' = Go(Job(message.job, message.version, 0))
  /\ Advance
  /\ UNCHANGED <<document, timer, published, open>>

(* End of file, or a message that cannot be read, ends Run and the process with
   all its goroutines; shutdown and exit end neither. *)
Disconnect ==
  /\ open
  /\ open' = FALSE
  /\ timer' = 0
  /\ work' = EmptyBag
  /\ message' = Nothing
  /\ UNCHANGED <<document, published>>

-----------------------------------------------------------------------------
(* Goroutines *)

TimerFires ==
  /\ timer # 0
  /\ timer' = 0
  /\ work' = Go(Job("read", timer, 0))
  /\ UNCHANGED <<document, message, published, open>>

(* publishDiagnosticsDebounced: the goroutine may come so late that it stops
   the timer of a newer version, and sets one of its own. *)
Reschedule(job) ==
  /\ job.does = "schedule"
  /\ timer' = job.version
  /\ work' = work (-) SetToBag({job})
  /\ UNCHANGED <<document, message, published, open>>

(* detectAndPublish reads the text that is stored by then. *)
TextRead(version) == document

(* Faulty variant: the text is that of the version. *)
TextOfVersion(version) == version

TextToDetect(version) == TextRead(version)

ReadText(job) ==
  /\ job.does = "read"
  /\ work' = Becomes(job, {Job("detect", job.version, TextToDetect(job.version))})
  /\ UNCHANGED <<document, message, timer, published, open>>

(* The diagnostics of a text, under the version their goroutine was started for. *)
Diagnostics(job) == [version |-> job.version, text |-> job.text]

(* The proxy answers, or fails to, which publishes an empty list. *)
Publish(job) ==
  /\ job.does = "detect"
  /\ published' = published \union {Diagnostics(job)}
  /\ work' = work (-) SetToBag({job})
  /\ UNCHANGED <<document, message, timer, open>>

ServerNext ==
  \/ \E job \in {"read", "schedule"} : Receive(job)
  \/ StoreText \/ ScheduleDetect \/ StartGoroutine
  \/ Disconnect
  \/ TimerFires
  \/ \E job \in BagToSet(work) : Reschedule(job) \/ ReadText(job) \/ Publish(job)

ServerSpec == ServerInit /\ [][ServerNext]_serverVars

-----------------------------------------------------------------------------
(* Properties *)

(* Once the server has nothing left to do, the text the editor has was detected
   and answered for, in spite of timers stopped by goroutines of older versions;
   the answer may bear the number of such a version, and those of older texts
   may have come after it (server.go:211).  But no answer is of a text older than
   the version it bears, which the editor would show as current. *)
NewestPublished ==
  /\ \A p \in published : p.version <= p.text
  /\ open /\ message = Nothing /\ timer = 0 /\ work = EmptyBag /\ document # 0
       => \E p \in published : p.text = document
=============================================================================
