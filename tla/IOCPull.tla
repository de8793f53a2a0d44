------------------------------ MODULE IOCPull ------------------------------
(***************************************************************************)
(* IOCPuller and IOCCache of pkg/iocpull/pull.go: the list of indicators   *)
(* of compromise that is pulled from the platform when it is newer than    *)
(* the one in the cache.                                                   *)
(*                                                                         *)
(* A list is known by the moment at which the platform published it.  Only *)
(* the cache has a lock: lastUpdated, which dates it, is read before the   *)
(* request and written after the cache is, and any goroutine may call      *)
(* Pull beside the loop.                                                   *)
(***************************************************************************)
EXTENDS Integers

CONSTANTS
  Pullers,   \* Goroutines that pull; LoopPuller is the one of StartPullLoop.
  LoopPuller,
  MaxTime    \* Bound of the clock.

ASSUME PullersAssumption == LoopPuller \in Pullers
ASSUME MaxTimeAssumption == MaxTime \in Nat \ {0}

Moments == 0..MaxTime   \* 0: never.

VARIABLES
  clock,
  publishedList,   \* When the platform published the list that it has now.
  iocs,        \* The list in the cache.
  lastUpdated, \* Its date, as far as the puller knows.
  pull,        \* pull[c]: the call of Pull by c.
  loopOn,      \* The loop's context is not cancelled.
  crossed,     \* Two pulls have been under way at once.
  undated      \* The platform has answered without updated_at.

pullVars == <<clock, publishedList, iocs, lastUpdated, pull, loopOn, crossed, undated>>

NoPull == [at |-> "idle"]
Sent == [at : {"sent"}, since : Moments]
NotModified == [at : {"304"}, list : Moments]
Received == [at : {"200", "stored"}, list : Moments, date : Moments]
Failed == [at |-> "failed"]

PullTypeOK ==
  /\ clock \in Moments /\ publishedList \in Moments
  /\ iocs \in Moments /\ lastUpdated \in Moments
  /\ pull \in [Pullers -> Sent \union NotModified \union Received \union {NoPull, Failed}]
  /\ loopOn \in BOOLEAN /\ crossed \in BOOLEAN /\ undated \in BOOLEAN

PullInit ==
  /\ clock = 1
  /\ publishedList = 0
  /\ iocs = 0
  /\ lastUpdated = 0
  /\ pull = [c \in Pullers |-> NoPull]
  /\ loopOn = TRUE
  /\ crossed = FALSE
  /\ undated = FALSE

PullerBecomes(c, p) == pull' = [pull EXCEPT ![c] = p]

-----------------------------------------------------------------------------
(* Pull.  The loop calls it at once, and then at every tick. *)
SendPull(c) ==
  /\ pull[c] = NoPull
  /\ c = LoopPuller => loopOn
  /\ PullerBecomes(c, [at |-> "sent", since |-> lastUpdated])
  /\ crossed' = (crossed \/ \E d \in Pullers : pull[d] # NoPull)
  /\ UNCHANGED <<clock, publishedList, iocs, lastUpdated, loopOn, undated>>

(* The platform has nothing newer than the date it was sent... *)
AnswerNotModified(c) ==
  /\ pull[c].at = "sent"
  /\ pull[c].since # 0
  /\ publishedList <= pull[c].since
  /\ PullerBecomes(c, [at |-> "304", list |-> publishedList])
  /\ UNCHANGED <<clock, publishedList, iocs, lastUpdated, loopOn, crossed, undated>>

(* ... or answers with its list, and with the date if it gives one... *)
AnswerList(c) ==
  /\ pull[c].at = "sent"
  /\ pull[c].since < publishedList
  /\ \E date \in {0, publishedList} :
       /\ PullerBecomes(c, [at |-> "200", list |-> publishedList, date |-> date])
       /\ undated' = (undated \/ date = 0)
  /\ UNCHANGED <<clock, publishedList, iocs, lastUpdated, loopOn, crossed>>

(* ... or there is an error, a timeout, or a body that cannot be parsed. *)
PullFails(c) ==
  /\ pull[c].at \in {"sent", "200"}
  /\ PullerBecomes(c, Failed)
  /\ UNCHANGED <<clock, publishedList, iocs, lastUpdated, loopOn, crossed, undated>>

StoreList(c) ==
  /\ pull[c].at = "200"
  /\ iocs' = pull[c].list
  /\ PullerBecomes(c, [pull[c] EXCEPT !.at = "stored"])
  /\ UNCHANGED <<clock, publishedList, lastUpdated, loopOn, crossed, undated>>

(* Faulty variant: the list is dated with the time of its arrival. *)
DateArrival(c) ==
  /\ pull[c].at = "stored"
  /\ lastUpdated' = clock
  /\ PullerBecomes(c, NoPull)
  /\ UNCHANGED <<clock, publishedList, iocs, loopOn, crossed, undated>>

(* A list that came without a date gets that of its arrival. *)
DateList(c) ==
  /\ pull[c].at = "stored"
  /\ lastUpdated' = IF pull[c].date # 0 THEN pull[c].date ELSE clock
  /\ PullerBecomes(c, NoPull)
  /\ UNCHANGED <<clock, publishedList, iocs, loopOn, crossed, undated>>

(* Faulty variant: a failed pull forgets the date, so that all is sent again. *)
ReturnForgetful(c) ==
  /\ pull[c].at \in {"304", "failed"}
  /\ iocs' = IF pull[c].at = "failed" THEN 0 ELSE iocs
  /\ PullerBecomes(c, NoPull)
  /\ UNCHANGED <<clock, publishedList, lastUpdated, loopOn, crossed, undated>>

(* The caller gets the cache's list, or the error, which the loop logs. *)
ReturnUnchanged(c) ==
  /\ pull[c].at \in {"304", "failed"}
  /\ PullerBecomes(c, NoPull)
  /\ UNCHANGED <<clock, publishedList, iocs, lastUpdated, loopOn, crossed, undated>>

CancelLoop ==
  /\ loopOn
  /\ loopOn' = FALSE
  /\ UNCHANGED <<clock, publishedList, iocs, lastUpdated, pull, crossed, undated>>

(* The clock, which puller and platform share, and the platform. *)
ClockTick ==
  /\ clock < MaxTime
  /\ clock' = clock + 1
  /\ UNCHANGED <<publishedList, iocs, lastUpdated, pull, loopOn, crossed, undated>>

PublishList ==
  /\ publishedList < clock
  /\ publishedList' = clock
  /\ UNCHANGED <<clock, iocs, lastUpdated, pull, loopOn, crossed, undated>>

Pull(c) ==
  \/ SendPull(c) \/ StoreList(c) \/ DateList(c) \/ ReturnUnchanged(c)
Platform(c) == AnswerNotModified(c) \/ AnswerList(c) \/ PullFails(c)

PullNext ==
  \/ \E c \in Pullers : Pull(c) \/ Platform(c)
  \/ CancelLoop \/ ClockTick \/ PublishList

PullSpec == PullInit /\ [][PullNext]_pullVars

-----------------------------------------------------------------------------
(* Properties *)

(* pull.go:163: on 304 "the cache is served".  It is the list that the platform
   had when it answered, whatever pulls failed before and whenever lists were
   published, as long as the platform dates its lists and pulls do not cross.
   (An undated list is dated with its arrival, and what was published while it
   was on its way is never pulled; crossing pulls date one list with the other's
   moment.) *)
UnchangedIsCurrent ==
  ~crossed /\ ~undated =>
    \A c \in Pullers : pull[c].at = "304" => iocs = pull[c].list

(* As long as pulls do not cross, a list is never replaced by an older one, and
   what is stored is never forgotten. *)
NeverOlder == [][~crossed => iocs <= iocs']_pullVars
=============================================================================
