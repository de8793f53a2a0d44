------------------------------ MODULE Journal ------------------------------
(***************************************************************************)
(* What an audit log promises, with no files and no rotation: an entry is  *)
(* stored in one step, between the call of Log and its return, and stays.  *)
(* Module AuditLog implements it; modules EncryptedLog and AuditSearch, in *)
(* which rotation is one step, rely on that.                               *)
(***************************************************************************)

CONSTANT Calls   \* Calls of Log, each with an entry of its own.

VARIABLES
  lossless,  \* What the calls were told is stored can be relied on.
  steady,    \* An open log accepts entries.
  shut,      \* It has been closed.
  state,     \* state[c]: "idle", "called" or "done".
  result,    \* result[c]: what call c returned.
  stored     \* The calls whose entries are in the log.

jvars == <<lossless, steady, shut, state, result, stored>>

Acknowledged == {c \in Calls : result[c] = "ok"}

JInit ==
  /\ lossless \in BOOLEAN
  /\ steady \in BOOLEAN
  /\ shut = FALSE
  /\ state = [c \in Calls |-> "idle"]
  /\ result = [c \in Calls |-> "none"]
  /\ stored = {}

Call(c) ==
  /\ state[c] = "idle"
  /\ state' = [state EXCEPT ![c] = "called"]
  /\ UNCHANGED <<lossless, steady, shut, result, stored>>

Store(c) ==
  /\ state[c] = "called"
  /\ c \notin stored
  /\ stored' = stored \union {c}
  /\ UNCHANGED <<lossless, steady, shut, state, result>>

Answer(c, how) ==
  /\ state[c] = "called"
  /\ state' = [state EXCEPT ![c] = "done"]
  /\ result' = [result EXCEPT ![c] = how]
  /\ UNCHANGED <<lossless, steady, shut, stored>>

Acknowledge(c) == c \in stored /\ Answer(c, "ok")

(* The entry of a call that failed is not in the log, then or later. *)
Refuse(c) ==
  /\ c \notin stored
  /\ steady => shut
  /\ Answer(c, "error")

Shut ==
  /\ shut' = TRUE
  /\ UNCHANGED <<lossless, steady, state, result, stored>>

(* The process or the machine fails.  An entry may be lost with it that nobody
   was told is stored. *)
Crash ==
  /\ state' = [c \in Calls |-> IF state[c] = "idle" THEN "idle" ELSE "done"]
  /\ result' = [c \in Calls |-> IF state[c] = "called" THEN "killed" ELSE result[c]]
  /\ stored' \subseteq stored
  /\ lossless => stored \intersect Acknowledged \subseteq stored'
  /\ UNCHANGED <<lossless, steady, shut>>

Lose ==
  /\ ~lossless
  /\ stored' \subseteq stored
  /\ UNCHANGED <<lossless, steady, shut, state, result>>

JNext ==
  \/ \E c \in Calls : Call(c) \/ Store(c) \/ Acknowledge(c) \/ Refuse(c)
  \/ Shut \/ Crash \/ Lose

JSpec == JInit /\ [][JNext]_jvars
=============================================================================
