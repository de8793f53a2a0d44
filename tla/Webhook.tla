------------------------------ MODULE Webhook ------------------------------
(***************************************************************************)
(* Manager of internal/webhook/webhook.go.  Send takes the slice of hooks  *)
(* under the lock and walks it after unlocking: the slice still shares its *)
(* array with the manager, in which AddWebhook appends while there is      *)
(* room, and RemoveWebhook moves the later hooks down, one by one.         *)
(***************************************************************************)
EXTENDS Integers, Sequences, FiniteSets, SequencesExt, Functions

CONSTANTS
  Hooks,        \* Webhooks; each is configured at most once.
  EnabledHooks, \* Those that are enabled.
  Senders,      \* Goroutines that call Send.
  MaxRemovals   \* Bound: how many hooks are removed.

Torn == "torn"  \* A hook that is read while it is being overwritten.
Empty == "empty"

ASSUME HooksAssumption ==
  /\ IsFiniteSet(Hooks) /\ EnabledHooks \subseteq Hooks /\ MaxRemovals \in Nat
  /\ {Torn, Empty} \cap Hooks = {}

VARIABLES
  arrays,    \* The arrays allocated so far; their lengths are the capacities.
  webhooks,  \* config.Webhooks: which array, and how much of it.
  removing,  \* The index RemoveWebhook writes next, 0 when none holds the lock.
  removed,   \* The hooks that have been removed.
  send       \* send[s]: the call of sender s.

webhookVars == <<arrays, webhooks, removing, removed, send>>

Capacity == Cardinality(Hooks)
Slice == [array : 1..Len(arrays), len : 0..Capacity]
Idle == [pc |-> "idle", slice |-> [array |-> 1, len |-> 0], at |-> 1,
         tries |-> [h \in Hooks |-> 0], began |-> <<>>, before |-> {}]
Elements(slice) == SubSeq(arrays[slice.array], 1, slice.len)

WebhookTypeOK ==
  /\ arrays \in Seq(Seq(Hooks \union {Empty}))
  /\ webhooks \in Slice
  /\ removing \in 0..Capacity
  /\ removed \subseteq Hooks /\ Cardinality(removed) <= MaxRemovals
  /\ \A s \in Senders :
       /\ send[s].pc \in {"idle", "sending", "returned"}
       /\ send[s].slice \in Slice
       /\ send[s].at \in 1..Capacity + 1

(* NewManager, of any list of the hooks. *)
WebhookInit ==
  /\ \E n \in 0..Capacity : \E list \in [1..n -> Hooks] :
       /\ IsInjective(list)
       /\ arrays = <<list>>
       /\ webhooks = [array |-> 1, len |-> n]
  /\ removing = 0
  /\ removed = {}
  /\ send = [s \in Senders |-> Idle]

-----------------------------------------------------------------------------
(* A hook that has not been configured yet. *)
Unused(h) == h \notin removed /\ \A a \in DOMAIN arrays : h \notin ToSet(arrays[a])

(* append: in place while there is room, otherwise into a larger array, of
   whatever size the runtime chooses. *)
AddWebhook(h) ==
  /\ removing = 0
  /\ Unused(h)
  /\ LET slice == webhooks
         old == arrays[slice.array]
     IN \/ /\ slice.len < Len(old)
           /\ arrays' = [arrays EXCEPT ![slice.array][slice.len + 1] = h]
           /\ webhooks' = [slice EXCEPT !.len = @ + 1]
        \/ /\ slice.len = Len(old)
           /\ \E room \in slice.len + 1..Capacity :
                arrays' = Append(arrays, [i \in 1..room |->
                            IF i <= slice.len THEN old[i]
                            ELSE IF i = slice.len + 1 THEN h ELSE Empty])
           /\ webhooks' = [array |-> Len(arrays) + 1, len |-> slice.len + 1]
  /\ UNCHANGED <<removing, removed, send>>

(* RemoveWebhook finds the hook, then moves those behind it. *)
RemoveWebhook(h) ==
  /\ removing = 0
  /\ Cardinality(removed) < MaxRemovals
  /\ \E i \in 1..webhooks.len :
       /\ arrays[webhooks.array][i] = h
       /\ removing' = i
  /\ removed' = removed \union {h}
  /\ UNCHANGED <<arrays, webhooks, send>>

MoveDown ==
  /\ removing # 0
  /\ removing < webhooks.len
  /\ arrays' = [arrays EXCEPT ![webhooks.array][removing] = arrays[webhooks.array][removing + 1]]
  /\ removing' = removing + 1
  /\ UNCHANGED <<webhooks, removed, send>>

RemoveEnds ==
  /\ removing # 0
  /\ removing = webhooks.len
  /\ webhooks' = [webhooks EXCEPT !.len = @ - 1]
  /\ removing' = 0
  /\ UNCHANGED <<arrays, removed, send>>

-----------------------------------------------------------------------------
SendBegins(s) ==
  /\ send[s].pc = "idle"
  /\ removing = 0
  /\ send' = [send EXCEPT ![s] =
       [Idle EXCEPT !.pc = "sending", !.slice = webhooks,
             !.began = Elements(webhooks), !.before = removed]]
  /\ UNCHANGED <<arrays, webhooks, removing, removed>>

(* What the sender may read at its index. *)
Reads(c) ==
  {arrays[c.slice.array][c.at]} \union
  (IF removing = c.at /\ webhooks.array = c.slice.array /\ removing < webhooks.len
   THEN {Torn} ELSE {})

(* The hook is called if it is enabled.  When that fails (the URL is refused, no
   connection, no 2xx), the walk goes on, and Send returns the last error. *)
Attempt(c, h, fails) ==
  IF h \in EnabledHooks
  THEN [c EXCEPT !.at = @ + 1, !.tries[h] = @ + 1]
  ELSE [c EXCEPT !.at = @ + 1]

(* Faulty variant: the first failure ends the walk. *)
AttemptOrGiveUp(c, h, fails) ==
  IF h \in EnabledHooks
  THEN [c EXCEPT !.at = IF fails THEN c.slice.len + 1 ELSE @ + 1, !.tries[h] = @ + 1]
  ELSE [c EXCEPT !.at = @ + 1]

sendToWebhook(c, h, fails) == Attempt(c, h, fails)

SendNext(s) ==
  /\ send[s].pc = "sending"
  /\ send[s].at <= send[s].slice.len
  /\ \E h \in Reads(send[s]), fails \in BOOLEAN :
       send' = [send EXCEPT ![s] = sendToWebhook(send[s], h, fails)]
  /\ UNCHANGED <<arrays, webhooks, removing, removed>>

SendReturns(s) ==
  /\ send[s].pc = "sending"
  /\ send[s].at > send[s].slice.len
  /\ send' = [send EXCEPT ![s].pc = "returned"]
  /\ UNCHANGED <<arrays, webhooks, removing, removed>>

WebhookNext ==
  \/ \E h \in Hooks : AddWebhook(h) \/ RemoveWebhook(h)
  \/ MoveDown \/ RemoveEnds
  \/ \E s \in Senders : SendBegins(s) \/ SendNext(s) \/ SendReturns(s)

WebhookSpec == WebhookInit /\ [][WebhookNext]_webhookVars

-----------------------------------------------------------------------------
(* Properties *)

(* Where a hook was when call c began: behind all others if it has come later. *)
Place(c, h) ==
  IF h \in ToSet(c.began) THEN CHOOSE i \in DOMAIN c.began : c.began[i] = h
  ELSE Len(c.began) + 1

(* The hooks removed during the call that were not behind h. *)
InFront(c, h) == {g \in removed \ c.before : g # h /\ Place(c, g) <= Place(c, h)}

(* webhook.go:89 "sends an event to all enabled webhooks": once each, whatever
   fails, is appended in place, or moves to another array meanwhile.  Only the
   removal of a hook in front of it disturbs a hook that stays: it may move to
   where the call has been, be overwritten while it is read, or be met again, once
   for each removal.  (No number of removals bounds that of the hooks missed: the
   call and one removal may overtake each other time and again.) *)
SendReachesAll ==
  \A s \in Senders : send[s].pc = "returned" =>
    LET c == send[s]
    IN \A h \in EnabledHooks :
         /\ c.tries[h] <= 1 + Cardinality(InFront(c, h))
         /\ h \in ToSet(c.began) \ removed /\ InFront(c, h) = {} => c.tries[h] = 1
=============================================================================
