--------------------------- MODULE PlatformProofs ---------------------------
(*************************************************************************)
(* Proofs about what is exchanged with other systems: IOCPull,           *)
(* LensCorrelation and Webhook.                                          *)
(*************************************************************************)
EXTENDS IOCPull, LensCorrelation, Webhook, SelectionProofs, FiniteSetTheorems

-----------------------------------------------------------------------------
(*************************************************************************)
(* IOCPull, for any goroutines that pull and any length of time.  The    *)
(* invariant follows one pull from the date it sends to the date it      *)
(* stores: until then the cache's list is no newer than its date, which  *)
(* is what makes an answer worth storing, and "not modified" true.       *)
(*************************************************************************)

Ordered == iocs <= publishedList /\ publishedList <= clock

OnePulls ==
  ~crossed => \A c, d \in Pullers : pull[c] # NoPull /\ pull[d] # NoPull => c = d

(* What an answer with a list says, whether pulls cross or not. *)
AnswersMatch ==
  \A c \in Pullers : pull[c].at \in {"200", "stored"} =>
    /\ pull[c].list # 0 /\ pull[c].list <= publishedList
    /\ pull[c].date \in {0, pull[c].list}
    /\ ~undated => pull[c].date = pull[c].list

(* What a pull that crosses none knows of the cache. *)
SentDate == \A c \in Pullers : pull[c].at = "sent" => pull[c].since = lastUpdated
AnswerNewer == \A c \in Pullers : pull[c].at = "200" => iocs <= pull[c].list
StoredList == \A c \in Pullers : pull[c].at = "stored" => iocs = pull[c].list
CacheDated ==
  (\A c \in Pullers : pull[c].at # "stored") =>
    /\ iocs <= lastUpdated
    /\ ~undated => iocs = lastUpdated

PullInv ==
  /\ PullTypeOK
  /\ Ordered /\ OnePulls /\ AnswersMatch
  /\ ~crossed => SentDate /\ AnswerNewer /\ StoredList /\ CacheDated
  /\ UnchangedIsCurrent

Calls == Sent \union NotModified \union Received \union {NoPull, Failed}

LEMMA PullStarts == PullInit => PullInv
<1> SUFFICES ASSUME PullInit PROVE PullInv
  OBVIOUS
<1>1. 0 \in Moments /\ 1 \in Moments
  BY MaxTimeAssumption DEF Moments
<1>2. \A c \in Pullers : pull[c] = NoPull /\ pull[c].at = "idle"
  BY DEF PullInit, NoPull
<1>3. PullTypeOK
  BY <1>1 DEF PullInit, PullTypeOK
<1> QED
  BY <1>2, <1>3 DEF PullInit, PullInv, Ordered, OnePulls, AnswersMatch, SentDate, AnswerNewer,
                    StoredList, CacheDated, UnchangedIsCurrent

(* What is known of a call by the point at which it is. *)
LEMMA CallTyped ==
  ASSUME PullTypeOK, NEW c \in Pullers
  PROVE  /\ pull[c] \in Calls
         /\ pull[c].at = "sent" => pull[c] \in Sent
         /\ pull[c].at = "304" => pull[c] \in NotModified
         /\ pull[c].at \in {"200", "stored"} => pull[c] \in Received
         /\ pull[c] = NoPull <=> pull[c].at = "idle"
  BY DEF PullTypeOK, Calls, Sent, NotModified, Received, NoPull, Failed

(* A step of one call touches no other. *)
LEMMA CallMoves ==
  ASSUME PullTypeOK, NEW c \in Pullers, NEW p \in Calls, PullerBecomes(c, p)
  PROVE  /\ pull' \in [Pullers -> Calls]
         /\ pull'[c] = p
         /\ \A d \in Pullers \ {c} : pull'[d] = pull[d]
  BY DEF PullTypeOK, PullerBecomes, Calls

(* Beside a call that crosses none there is no other. *)
LEMMA OthersIdle ==
  ASSUME PullTypeOK, OnePulls, ~crossed, NEW c \in Pullers, pull[c] # NoPull
  PROVE  \A d \in Pullers \ {c} : pull[d] = NoPull /\ pull[d].at = "idle"
  BY CallTyped DEF OnePulls

LEMMA PullKeeps == PullInv /\ [PullNext]_pullVars => PullInv'
<1> SUFFICES ASSUME PullInv, [PullNext]_pullVars PROVE PullInv'
  OBVIOUS
<1> USE DEF PullInv
<1>0. /\ clock \in Nat /\ publishedList \in Nat /\ iocs \in Nat /\ lastUpdated \in Nat
      /\ \A m \in Moments : m \in Nat
  BY MaxTimeAssumption DEF PullTypeOK, Moments
<1>1. ASSUME NEW c \in Pullers, SendPull(c) PROVE PullInv'
  <2> DEFINE p == [at |-> "sent", since |-> lastUpdated]
  <2>1. p \in Calls
    BY DEF Calls, Sent, PullTypeOK
  <2>2. /\ pull' \in [Pullers -> Calls] /\ pull'[c] = p
        /\ \A d \in Pullers \ {c} : pull'[d] = pull[d]
    BY <1>1, <2>1, CallMoves DEF SendPull
  <2>3. PullTypeOK'
    BY <1>1, <2>2 DEF SendPull, PullTypeOK, Calls
  <2>4. AnswersMatch' /\ Ordered'
    BY <1>1, <2>2 DEF SendPull, AnswersMatch, Ordered
  <2>5. ~crossed' => ~crossed /\ \A d \in Pullers : pull[d] = NoPull /\ pull[d].at = "idle"
    BY <1>1, CallTyped DEF SendPull
  <2>6. OnePulls'
    BY <2>2, <2>5 DEF OnePulls
  <2>7. ~crossed' => SentDate' /\ AnswerNewer' /\ StoredList' /\ CacheDated'
    BY <1>1, <2>2, <2>5 DEF SendPull, SentDate, AnswerNewer, StoredList, CacheDated
  <2>8. UnchangedIsCurrent'
    BY <2>2, <2>5 DEF UnchangedIsCurrent
  <2> QED
    BY <2>3, <2>4, <2>6, <2>7, <2>8
<1>2. ASSUME NEW c \in Pullers, AnswerNotModified(c) PROVE PullInv'
  <2> DEFINE p == [at |-> "304", list |-> publishedList]
  <2>1. p \in Calls /\ pull[c] # NoPull /\ pull[c] \in Sent
    BY <1>2, CallTyped DEF AnswerNotModified, Calls, NotModified, PullTypeOK, NoPull
  <2>2. /\ pull' \in [Pullers -> Calls] /\ pull'[c] = p
        /\ \A d \in Pullers \ {c} : pull'[d] = pull[d]
    BY <1>2, <2>1, CallMoves DEF AnswerNotModified
  <2>3. PullTypeOK'
    BY <1>2, <2>2 DEF AnswerNotModified, PullTypeOK, Calls
  <2>4. AnswersMatch' /\ Ordered'
    BY <1>2, <2>2 DEF AnswerNotModified, AnswersMatch, Ordered
  <2>5. ~crossed' => ~crossed /\ \A d \in Pullers \ {c} : pull'[d] = NoPull /\ pull[d].at = "idle"
    BY <1>2, <2>1, <2>2, OthersIdle DEF AnswerNotModified
  <2>6. OnePulls'
    BY <2>2, <2>5 DEF OnePulls
  <2>7. ~crossed => CacheDated /\ (\A d \in Pullers : pull[d].at # "stored")
                    /\ pull[c].since = lastUpdated
    BY <1>2, <2>5 DEF AnswerNotModified, SentDate
  <2>8. ~crossed' => SentDate' /\ AnswerNewer' /\ StoredList' /\ CacheDated'
    BY <1>2, <2>2, <2>5, <2>7 DEF AnswerNotModified, SentDate, AnswerNewer, StoredList,
                                  CacheDated, NoPull
  <2>9. UnchangedIsCurrent'
    <3>1. ~crossed /\ ~undated => iocs = publishedList
      BY <1>0, <1>2, <2>7 DEF AnswerNotModified, CacheDated, Ordered
    <3> QED
      BY <1>2, <2>2, <2>5, <3>1 DEF AnswerNotModified, UnchangedIsCurrent, NoPull
  <2> QED
    BY <2>3, <2>4, <2>6, <2>8, <2>9
<1>3. ASSUME NEW c \in Pullers, AnswerList(c) PROVE PullInv'
  <2>1. PICK date \in {0, publishedList} :
          /\ PullerBecomes(c, [at |-> "200", list |-> publishedList, date |-> date])
          /\ undated' = (undated \/ date = 0)
    BY <1>3 DEF AnswerList
  <2> DEFINE p == [at |-> "200", list |-> publishedList, date |-> date]
  <2>2. p \in Calls /\ pull[c] # NoPull /\ pull[c] \in Sent /\ pull[c].since \in Nat
    <3>1. date \in Moments
      BY <2>1, MaxTimeAssumption DEF PullTypeOK, Moments
    <3>2. pull[c] # NoPull /\ pull[c] \in Sent
      BY <1>3, CallTyped DEF AnswerList, NoPull
    <3> QED
      BY <1>0, <3>1, <3>2 DEF Calls, Received, Sent, PullTypeOK
  <2>3. /\ pull' \in [Pullers -> Calls] /\ pull'[c] = p
        /\ \A d \in Pullers \ {c} : pull'[d] = pull[d]
    BY <2>1, <2>2, CallMoves
  <2>4. PullTypeOK'
    BY <1>3, <2>1, <2>3 DEF AnswerList, PullTypeOK, Calls
  <2>5. /\ p.list # 0 /\ p.list <= publishedList
        /\ p.date \in {0, p.list}
        /\ ~undated' => p.date = p.list
    <3>1. pull[c].since < publishedList /\ publishedList # 0
      BY <1>0, <1>3, <2>2 DEF AnswerList
    <3>2. p.list = publishedList /\ p.date = date
      OBVIOUS
    <3>3. date # 0 => date = publishedList
      BY <2>1
    <3>4. publishedList <= publishedList
      BY <1>0
    <3> HIDE DEF p
    <3> QED
      BY <2>1, <3>1, <3>2, <3>3, <3>4
  <2>6. AnswersMatch' /\ Ordered'
    <3>1. UNCHANGED <<clock, publishedList, iocs>> /\ (undated => undated')
      BY <1>3, <2>1 DEF AnswerList
    <3> SUFFICES ASSUME NEW d \in Pullers, pull'[d].at \in {"200", "stored"}
                 PROVE  /\ pull'[d].list # 0 /\ pull'[d].list <= publishedList
                        /\ pull'[d].date \in {0, pull'[d].list}
                        /\ ~undated' => pull'[d].date = pull'[d].list
      BY <3>1 DEF AnswersMatch, Ordered
    <3> HIDE DEF p
    <3>2. CASE d = c
      BY <2>3, <2>5, <3>2
    <3>3. CASE d # c
      BY <2>3, <3>1, <3>3 DEF AnswersMatch
    <3> QED
      BY <3>2, <3>3
  <2>7. ~crossed' => ~crossed /\ \A d \in Pullers \ {c} : pull'[d] = NoPull /\ pull[d].at = "idle"
    BY <1>3, <2>2, <2>3, OthersIdle DEF AnswerList
  <2>8. OnePulls'
    BY <2>3, <2>7 DEF OnePulls
  <2>9. ~crossed => CacheDated /\ (\A d \in Pullers : pull[d].at # "stored")
                    /\ pull[c].since = lastUpdated
    BY <1>3, <2>7 DEF AnswerList, SentDate
  <2>10. ~crossed => iocs <= lastUpdated /\ lastUpdated < publishedList
    BY <1>3, <2>9 DEF AnswerList, CacheDated
  <2>11. ~crossed => iocs <= publishedList
    BY <1>0, <2>10
  <2>12. ~crossed' => SentDate' /\ AnswerNewer' /\ StoredList' /\ CacheDated'
    <3> SUFFICES ASSUME ~crossed' PROVE SentDate' /\ AnswerNewer' /\ StoredList' /\ CacheDated'
      OBVIOUS
    <3>1. /\ pull'[c].at = "200" /\ pull'[c].list = publishedList
          /\ \A d \in Pullers \ {c} : pull'[d].at = "idle"
      BY <2>3, <2>7 DEF NoPull
    <3>2. UNCHANGED <<iocs, lastUpdated>> /\ undated' = (undated \/ date = 0)
      BY <1>3, <2>1 DEF AnswerList
    <3>3. SentDate' /\ StoredList'
      BY <3>1 DEF SentDate, StoredList
    <3>4. AnswerNewer'
      BY <2>7, <2>11, <3>1, <3>2 DEF AnswerNewer
    <3>5. CacheDated'
      BY <2>7, <2>9, <3>2 DEF CacheDated
    <3> QED
      BY <3>3, <3>4, <3>5
  <2>13. UnchangedIsCurrent'
    BY <1>3, <2>3, <2>7 DEF AnswerList, UnchangedIsCurrent, NoPull
  <2> QED
    BY <2>4, <2>6, <2>8, <2>12, <2>13
<1>4. ASSUME NEW c \in Pullers, PullFails(c) PROVE PullInv'
  <2>1. Failed \in Calls /\ pull[c] # NoPull
    BY <1>4, CallTyped DEF PullFails, Calls, NoPull
  <2>2. /\ pull' \in [Pullers -> Calls] /\ pull'[c] = Failed
        /\ \A d \in Pullers \ {c} : pull'[d] = pull[d]
    BY <1>4, <2>1, CallMoves DEF PullFails
  <2>3. PullTypeOK'
    BY <1>4, <2>2 DEF PullFails, PullTypeOK, Calls
  <2>4. AnswersMatch' /\ Ordered'
    BY <1>4, <2>2 DEF PullFails, AnswersMatch, Ordered, Failed
  <2>5. ~crossed' => ~crossed /\ \A d \in Pullers \ {c} : pull'[d] = NoPull /\ pull[d].at = "idle"
    BY <1>4, <2>1, <2>2, OthersIdle DEF PullFails
  <2>6. OnePulls'
    BY <2>2, <2>5 DEF OnePulls
  <2>7. ~crossed => CacheDated /\ \A d \in Pullers : pull[d].at # "stored"
    BY <1>4, <2>5 DEF PullFails
  <2>8. ~crossed' => SentDate' /\ AnswerNewer' /\ StoredList' /\ CacheDated'
    BY <1>4, <2>2, <2>5, <2>7 DEF PullFails, SentDate, AnswerNewer, StoredList, CacheDated,
                                  NoPull, Failed
  <2>9. UnchangedIsCurrent'
    BY <2>2, <2>5 DEF UnchangedIsCurrent, NoPull, Failed
  <2> QED
    BY <2>3, <2>4, <2>6, <2>8, <2>9
<1>5. ASSUME NEW c \in Pullers, StoreList(c) PROVE PullInv'
  <2> DEFINE p == [pull[c] EXCEPT !.at = "stored"]
  <2>1. pull[c] \in Received /\ pull[c] # NoPull
    BY <1>5, CallTyped DEF StoreList, NoPull
  <2>2. /\ p \in Received /\ p.at = "stored" /\ p.list = pull[c].list /\ p.date = pull[c].date
        /\ p.list \in Moments
    BY <2>1 DEF Received
  <2>3. /\ pull' \in [Pullers -> Calls] /\ pull'[c] = p
        /\ \A d \in Pullers \ {c} : pull'[d] = pull[d]
    BY <1>5, <2>2, CallMoves DEF StoreList, Calls
  <2>4. PullTypeOK'
    BY <1>5, <2>2, <2>3 DEF StoreList, PullTypeOK, Calls
  <2>5. AnswersMatch'
    BY <1>5, <2>2, <2>3 DEF StoreList, AnswersMatch
  <2>6. Ordered'
    <3>1. pull[c].list <= publishedList /\ Ordered
      BY <1>5 DEF StoreList, AnswersMatch
    <3>2. iocs' = pull[c].list /\ clock' = clock /\ publishedList' = publishedList
      BY <1>5 DEF StoreList
    <3> QED
      BY <3>1, <3>2 DEF Ordered
  <2>7. ~crossed' => ~crossed /\ \A d \in Pullers \ {c} : pull'[d] = NoPull /\ pull[d].at = "idle"
    BY <1>5, <2>1, <2>3, OthersIdle DEF StoreList
  <2>8. OnePulls'
    BY <2>3, <2>7 DEF OnePulls
  <2>9. ~crossed' => SentDate' /\ AnswerNewer' /\ StoredList' /\ CacheDated'
    BY <1>5, <2>2, <2>3, <2>7 DEF StoreList, SentDate, AnswerNewer, StoredList, CacheDated, NoPull
  <2>10. UnchangedIsCurrent'
    BY <2>2, <2>3, <2>7 DEF UnchangedIsCurrent, NoPull
  <2> QED
    BY <2>4, <2>5, <2>6, <2>8, <2>9, <2>10
<1>6. ASSUME NEW c \in Pullers, DateList(c) PROVE PullInv'
  <2>1. pull[c] \in Received /\ pull[c] # NoPull
    BY <1>6, CallTyped DEF DateList, NoPull
  <2>2. pull[c].date \in Moments /\ pull[c].list \in Moments /\ NoPull \in Calls
    BY <2>1 DEF Received, Calls
  <2>3. /\ pull' \in [Pullers -> Calls] /\ pull'[c] = NoPull
        /\ \A d \in Pullers \ {c} : pull'[d] = pull[d]
    BY <1>6, <2>2, CallMoves DEF DateList
  <2>4. PullTypeOK'
    BY <1>6, <2>2, <2>3 DEF DateList, PullTypeOK, Calls
  <2>5. AnswersMatch' /\ Ordered'
    BY <1>6, <2>3 DEF DateList, AnswersMatch, Ordered, NoPull
  <2>6. ~crossed' => ~crossed /\ \A d \in Pullers : pull'[d] = NoPull
    BY <1>6, <2>1, <2>3, OthersIdle DEF DateList
  <2>7. OnePulls'
    BY <2>6 DEF OnePulls
  <2>8. ~crossed => iocs = pull[c].list
    BY <1>6 DEF DateList, StoredList
  <2>9. ~crossed' => CacheDated'
    <3> SUFFICES ASSUME ~crossed' PROVE CacheDated'
      OBVIOUS
    <3>1. /\ iocs = pull[c].list /\ iocs' = iocs /\ undated' = undated
          /\ pull[c].list # 0 /\ pull[c].date \in {0, pull[c].list}
          /\ ~undated => pull[c].date = pull[c].list
      BY <1>6, <2>6, <2>8 DEF DateList, AnswersMatch
    <3>2. CASE pull[c].date # 0
      BY <1>0, <1>6, <3>1, <3>2 DEF DateList, CacheDated
    <3>3. CASE pull[c].date = 0
      <4>1. undated /\ lastUpdated' = clock
        BY <1>6, <3>1, <3>3 DEF DateList
      <4>2. iocs <= clock
        BY <1>0 DEF Ordered
      <4> QED
        BY <3>1, <4>1, <4>2 DEF CacheDated
    <3> QED
      BY <3>2, <3>3
  <2>10. ~crossed' => SentDate' /\ AnswerNewer' /\ StoredList'
    BY <2>6 DEF SentDate, AnswerNewer, StoredList, NoPull
  <2>11. UnchangedIsCurrent'
    BY <2>6 DEF UnchangedIsCurrent, NoPull
  <2> QED
    BY <2>4, <2>5, <2>7, <2>9, <2>10, <2>11
<1>7. ASSUME NEW c \in Pullers, ReturnUnchanged(c) PROVE PullInv'
  <2>1. NoPull \in Calls /\ pull[c] # NoPull
    BY <1>7, CallTyped DEF ReturnUnchanged, Calls, NoPull
  <2>2. /\ pull' \in [Pullers -> Calls] /\ pull'[c] = NoPull
        /\ \A d \in Pullers \ {c} : pull'[d] = pull[d]
    BY <1>7, <2>1, CallMoves DEF ReturnUnchanged
  <2>3. PullTypeOK'
    BY <1>7, <2>2 DEF ReturnUnchanged, PullTypeOK, Calls
  <2>4. AnswersMatch' /\ Ordered'
    BY <1>7, <2>2 DEF ReturnUnchanged, AnswersMatch, Ordered, NoPull
  <2>5. ~crossed' => ~crossed /\ \A d \in Pullers \ {c} : pull'[d] = NoPull /\ pull[d].at = "idle"
    BY <1>7, <2>1, <2>2, OthersIdle DEF ReturnUnchanged
  <2>6. OnePulls'
    BY <2>2, <2>5 DEF OnePulls
  <2>7. ~crossed => CacheDated /\ \A d \in Pullers : pull[d].at # "stored"
    BY <1>7, <2>5 DEF ReturnUnchanged
  <2>8. ~crossed' => SentDate' /\ AnswerNewer' /\ StoredList' /\ CacheDated'
    BY <1>7, <2>2, <2>5, <2>7 DEF ReturnUnchanged, SentDate, AnswerNewer, StoredList,
                                  CacheDated, NoPull
  <2>9. UnchangedIsCurrent'
    BY <2>2, <2>5 DEF UnchangedIsCurrent, NoPull
  <2> QED
    BY <2>3, <2>4, <2>6, <2>8, <2>9
<1>8. CASE ClockTick \/ PublishList
  <2>1. /\ UNCHANGED <<iocs, lastUpdated, pull, loopOn, crossed, undated>>
        /\ clock' \in Moments /\ publishedList' \in Moments
    BY <1>0, <1>8, MaxTimeAssumption DEF ClockTick, PublishList, PullTypeOK, Moments
  <2>2. publishedList <= publishedList' /\ publishedList' <= clock'
    BY <1>0, <1>8 DEF ClockTick, PublishList, Ordered
  <2>3. PullTypeOK'
    BY <2>1 DEF PullTypeOK
  <2>4. Ordered'
    BY <1>0, <2>1, <2>2, MaxTimeAssumption DEF Ordered, Moments
  <2>5. AnswersMatch'
    <3> SUFFICES ASSUME NEW c \in Pullers, pull[c].at \in {"200", "stored"}
                 PROVE  /\ pull[c].list # 0 /\ pull[c].list <= publishedList'
                        /\ pull[c].date \in {0, pull[c].list}
                        /\ ~undated => pull[c].date = pull[c].list
      BY <2>1 DEF AnswersMatch
    <3>1. pull[c].list \in Nat
      BY <1>0, CallTyped DEF Received
    <3>2. publishedList' \in Nat
      BY <1>0, <2>1, MaxTimeAssumption DEF Moments
    <3> QED
      BY <1>0, <2>2, <3>1, <3>2 DEF AnswersMatch
  <2> QED
    BY <2>1, <2>3, <2>4, <2>5
       DEF OnePulls, SentDate, AnswerNewer, StoredList, CacheDated, UnchangedIsCurrent
<1>9. CASE CancelLoop \/ UNCHANGED pullVars
  <2>1. UNCHANGED <<clock, publishedList, iocs, lastUpdated, pull, crossed, undated>>
        /\ loopOn' \in BOOLEAN
    BY <1>9 DEF CancelLoop, pullVars, PullTypeOK
  <2> QED
    BY <2>1 DEF PullTypeOK, Ordered, OnePulls, AnswersMatch, SentDate, AnswerNewer, StoredList,
                CacheDated, UnchangedIsCurrent
<1> QED
  BY <1>1, <1>2, <1>3, <1>4, <1>5, <1>6, <1>7, <1>8, <1>9 DEF PullNext, Pull, Platform

LEMMA PullInvHolds == PullSpec => []PullInv
  BY PullStarts, PullKeeps, PTL DEF PullSpec

(* Whatever pulls failed before, and whenever lists were published: when the
   platform says that there is nothing newer, the cache holds its list, as long
   as it dates its lists and pulls do not cross. *)
THEOREM UnchangedAlwaysCurrent == PullSpec => []UnchangedIsCurrent
<1>1. PullInv => UnchangedIsCurrent
  BY DEF PullInv
<1> QED
  BY <1>1, PullInvHolds, PTL

(* As long as pulls do not cross, no step takes the cache back to an older list,
   dated or not. *)
THEOREM CacheNeverOlder == PullSpec => NeverOlder
<1>1. PullInv /\ [PullNext]_pullVars => (~crossed => iocs <= iocs')
  <2> SUFFICES ASSUME PullInv, [PullNext]_pullVars, ~crossed PROVE iocs <= iocs'
    OBVIOUS
  <2>1. CASE iocs' = iocs
    BY <2>1, MaxTimeAssumption DEF PullInv, PullTypeOK, Moments
  <2>2. ASSUME NEW c \in Pullers, StoreList(c) PROVE iocs <= iocs'
    BY <2>2 DEF StoreList, PullInv, AnswerNewer
  <2> QED
    BY <2>1, <2>2 DEF PullNext, Pull, Platform, SendPull, DateList, ReturnUnchanged,
       AnswerNotModified, AnswerList, PullFails, CancelLoop, ClockTick, PublishList, pullVars
<1> QED
  BY <1>1, PullInvHolds, PTL DEF PullSpec, NeverOlder

-----------------------------------------------------------------------------
(*************************************************************************)
(* LensCorrelation, for any windows and limits. Both lists are cut at    *)
(* the same length, but one is pruned as well: what is in the window is  *)
(* found at least as near to the end of it.                              *)
(*************************************************************************)

InWindow(d) == d.time > now - windowDuration

(* Counted from the end, a detection that is still in the window is found at the
   latest where the record of recent ones has it: so that what pushes it out of
   the one pushes it out of the other. *)
FoundFromEnd ==
  \A i \in 1..Len(recent) : InWindow(recent[i]) =>
    \E j \in 1..Len(rampartDetections) :
      /\ rampartDetections[j] = recent[i]
      /\ Len(rampartDetections) - j <= Len(recent) - i

(* What escalates or blocks has correlated, and what correlates has been counted. *)
StatsOrdered ==
  /\ receiverStats.correlated <= receiverStats.total
  /\ receiverStats.escalated <= receiverStats.correlated
  /\ receiverStats.blocked <= receiverStats.correlated

LensInv == LensTypeOK /\ FoundFromEnd /\ StatsOrdered

LEMMA NewestFromEnd ==
  ASSUME NEW S, NEW seq \in Seq(S)
  PROVE  /\ Newest(seq) \in Seq(S)
         /\ Len(Newest(seq)) = IF Len(seq) <= maxSignals THEN Len(seq) ELSE maxSignals
         /\ \A i \in 1..Len(Newest(seq)) :
              Newest(seq)[i] = seq[i + (Len(seq) - Len(Newest(seq)))]
<1>0. maxSignals \in Nat /\ maxSignals >= 1 /\ Len(seq) \in Nat
  BY SignalsAssumption, LenProperties
<1>1. CASE Len(seq) <= maxSignals
  BY <1>0, <1>1 DEF Newest
<1>2. CASE Len(seq) > maxSignals
  <2> DEFINE m == Len(seq) - maxSignals + 1
             n == Len(seq)
             t == SubSeq(seq, m, n)
  <2>1. m \in Int /\ n \in Int /\ m <= n /\ n - m + 1 = maxSignals /\ \A i \in m..n : seq[i] \in S
    BY <1>0, <1>2, ElementOfSeq
  <2>2. Newest(seq) = t
    BY <1>0, <1>2 DEF Newest
  <2>3. /\ t \in Seq(S) /\ Len(t) = IF m <= n THEN n - m + 1 ELSE 0
        /\ \A i \in 1..(n - m + 1) : t[i] = seq[m + i - 1]
    BY <2>1, SubSeqProperties
  <2> HIDE DEF t
  <2>4. Len(t) = maxSignals /\ \A i \in 1..Len(t) : t[i] = seq[i + (Len(seq) - Len(t))]
    <3>1. Len(t) = maxSignals
      BY <2>1, <2>3
    <3>2. ASSUME NEW i \in 1..Len(t) PROVE t[i] = seq[i + (Len(seq) - Len(t))]
      <4>1. m + i - 1 = i + (Len(seq) - Len(t)) /\ i \in 1..(n - m + 1)
        BY <1>0, <2>1, <3>1
      <4> QED
        BY <2>3, <4>1
    <3> QED
      BY <3>1, <3>2
  <2> QED
    BY <1>0, <1>2, <2>2, <2>3, <2>4
<1> QED
  BY <1>0, <1>1, <1>2

LEMMA LensStarts == LensInit => LensInv
<1> SUFFICES ASSUME LensInit PROVE LensInv
  OBVIOUS
<1>1. now \in 0..MaxClock /\ lensSignals \in 0..maxSignals
  BY WindowAssumption, SignalsAssumption DEF LensInit
<1>2. rampartDetections = <<>> /\ recent = <<>> /\ <<>> \in Seq(Detection) /\ Len(<<>>) = 0 /\ 0 <= maxSignals
  BY EmptySeq, SignalsAssumption DEF LensInit
<1>3. receiverStats \in [{"total", "correlated", "escalated", "blocked"} -> 0..MaxSignals] /\ StatsOrdered
  BY SignalsAssumption DEF LensInit, StatsOrdered
<1> QED
  BY <1>1, <1>2, <1>3 DEF LensInv, LensTypeOK, FoundFromEnd

LEMMA LensKeeps == LensInv /\ [LensNext]_lensVars => LensInv'
<1> SUFFICES ASSUME LensInv, [LensNext]_lensVars PROVE LensInv'
  OBVIOUS
<1>0. /\ LensTypeOK /\ FoundFromEnd /\ StatsOrdered
      /\ maxSignals \in Nat /\ maxSignals >= 1 /\ MaxSignals \in Nat
      /\ now \in Int /\ windowDuration \in Int /\ MaxClock \in Nat
  BY WindowAssumption, SignalsAssumption DEF LensInv, LensTypeOK
<1>a. /\ recent \in Seq(Detection) /\ rampartDetections \in Seq(Detection)
      /\ Len(recent) \in Nat /\ Len(rampartDetections) \in Nat
      /\ Len(recent) <= maxSignals /\ Len(rampartDetections) <= maxSignals
  BY <1>0, LenProperties DEF LensTypeOK
<1>1. ASSUME NEW s \in Signal, ProcessSignal(s) PROVE LensInv'
  <2>1. lensSignals' \in 0..maxSignals
    <3>1. Min({lensSignals + 1, maxSignals}) \in 0..maxSignals
      <4> DEFINE T == {lensSignals + 1, maxSignals}
      <4>1. \E x \in T : \A y \in T : x <= y
        BY <1>0 DEF LensTypeOK
      <4>2. Min(T) \in T /\ \A y \in T : Min(T) <= y
        BY <4>1 DEF Min
      <4> QED
        BY <1>0, <4>2 DEF LensTypeOK
    <3> QED
      BY <1>1, <3>1 DEF ProcessSignal
  <2>2. /\ receiverStats.total \in 0..MaxSignals /\ receiverStats.correlated \in 0..MaxSignals
        /\ receiverStats.escalated \in 0..MaxSignals /\ receiverStats.blocked \in 0..MaxSignals
        /\ receiverStats.total < MaxSignals
    BY <1>0, <1>1 DEF LensTypeOK, ProcessSignal
  <2>3. /\ Escalated(s) => Matching(s) # {}
        /\ RecommendBlock(s) => Matching(s) # {}
    BY DEF Escalated, RecommendBlock
  <2>4. receiverStats' =
         [total      |-> receiverStats.total + 1,
          correlated |-> Plus(receiverStats.correlated, Matching(s) # {}),
          escalated  |-> Plus(receiverStats.escalated, Escalated(s)),
          blocked    |-> Plus(receiverStats.blocked, RecommendBlock(s))]
    BY <1>1 DEF ProcessSignal
  <2>5. /\ receiverStats'.total = receiverStats.total + 1
        /\ receiverStats'.correlated = receiverStats.correlated + (IF Matching(s) # {} THEN 1 ELSE 0)
        /\ receiverStats'.escalated = receiverStats.escalated + (IF Escalated(s) THEN 1 ELSE 0)
        /\ receiverStats'.blocked = receiverStats.blocked + (IF RecommendBlock(s) THEN 1 ELSE 0)
    BY <2>2, <2>4 DEF Plus
  <2>6. StatsOrdered'
    BY <1>0, <2>2, <2>3, <2>5 DEF StatsOrdered
  <2>7. /\ receiverStats'.total \in 0..MaxSignals /\ receiverStats'.correlated \in 0..MaxSignals
        /\ receiverStats'.escalated \in 0..MaxSignals /\ receiverStats'.blocked \in 0..MaxSignals
    BY <1>0, <2>2, <2>5, <2>6 DEF StatsOrdered
  <2>8. receiverStats' \in [{"total", "correlated", "escalated", "blocked"} -> 0..MaxSignals]
    BY <2>4, <2>7
  <2> QED
    BY <1>0, <1>1, <2>1, <2>6, <2>8 DEF ProcessSignal, LensInv, LensTypeOK, FoundFromEnd, InWindow
<1>2. ASSUME NEW d \in Detection, RecordRampartDetection(d) PROVE LensInv'
  <2> DEFINE r == Append(recent, d)
             q == Append(rampartDetections, d)
  <2>1. /\ r \in Seq(Detection) /\ Len(r) = Len(recent) + 1
        /\ \A i \in 1..Len(recent) : r[i] = recent[i]
        /\ r[Len(recent) + 1] = d
    BY <1>a, AppendProperties
  <2>2. /\ q \in Seq(Detection) /\ Len(q) = Len(rampartDetections) + 1
        /\ \A i \in 1..Len(rampartDetections) : q[i] = rampartDetections[i]
        /\ q[Len(rampartDetections) + 1] = d
    BY <1>a, AppendProperties
  <2>3. recent' = Newest(r) /\ rampartDetections' = Newest(q) /\ now' = now
    BY <1>2 DEF RecordRampartDetection, Kept
  <2> HIDE DEF r, q
  <2>4. /\ recent' \in Seq(Detection) /\ Len(recent') = IF Len(r) <= maxSignals THEN Len(r) ELSE maxSignals
        /\ \A i \in 1..Len(recent') : recent'[i] = r[i + (Len(r) - Len(recent'))]
    BY <2>1, <2>3, NewestFromEnd
  <2>5. /\ rampartDetections' \in Seq(Detection)
        /\ Len(rampartDetections') = IF Len(q) <= maxSignals THEN Len(q) ELSE maxSignals
        /\ \A i \in 1..Len(rampartDetections') :
             rampartDetections'[i] = q[i + (Len(q) - Len(rampartDetections'))]
    BY <2>2, <2>3, NewestFromEnd
  <2>6. LensTypeOK'
    BY <1>0, <1>a, <1>2, <2>1, <2>2, <2>4, <2>5 DEF RecordRampartDetection, LensTypeOK
  <2>7. ASSUME NEW i \in 1..Len(r), InWindow(r[i])
        PROVE  \E j \in 1..Len(q) : q[j] = r[i] /\ Len(q) - j <= Len(r) - i
    <3>1. CASE i = Len(recent) + 1
      <4>1. Len(q) \in 1..Len(q) /\ q[Len(q)] = r[i] /\ Len(q) - Len(q) <= Len(r) - i
        BY <1>a, <2>1, <2>2, <3>1
      <4> QED
        BY <4>1
    <3>2. CASE i \in 1..Len(recent)
      <4>1. InWindow(recent[i])
        BY <2>1, <2>7, <3>2
      <4>2. PICK j \in 1..Len(rampartDetections) :
              rampartDetections[j] = recent[i] /\ Len(rampartDetections) - j <= Len(recent) - i
        BY <1>0, <3>2, <4>1 DEF FoundFromEnd
      <4>3. j \in 1..Len(q) /\ q[j] = r[i] /\ Len(q) - j <= Len(r) - i
        BY <1>a, <2>1, <2>2, <3>2, <4>2
      <4> QED
        BY <4>3
    <3> QED
      BY <1>a, <2>1, <3>1, <3>2
  <2>8. FoundFromEnd'
    <3> SUFFICES ASSUME NEW i \in 1..Len(recent'), InWindow(recent'[i])
                 PROVE  \E j \in 1..Len(rampartDetections') :
                          /\ rampartDetections'[j] = recent'[i]
                          /\ Len(rampartDetections') - j <= Len(recent') - i
      BY <2>3 DEF FoundFromEnd, InWindow
    <3> DEFINE k == i + (Len(r) - Len(recent'))
    <3>0. Len(r) \in Nat /\ Len(q) \in Nat /\ Len(recent') \in Nat /\ Len(rampartDetections') \in Nat
      BY <1>0, <1>a, <2>1, <2>2, <2>4, <2>5
    <3>1. k \in 1..Len(r) /\ recent'[i] = r[k] /\ Len(r) - k = Len(recent') - i
      <4>1. Len(recent') <= Len(r) /\ i \in Nat /\ i >= 1 /\ i <= Len(recent')
        BY <1>0, <2>4, <3>0
      <4>2. k \in 1..Len(r) /\ Len(r) - k = Len(recent') - i
        BY <3>0, <4>1
      <4>3. recent'[i] = r[k]
        BY <2>4
      <4> QED
        BY <4>2, <4>3
    <3> HIDE DEF k
    <3>2. PICK j \in 1..Len(q) : q[j] = r[k] /\ Len(q) - j <= Len(r) - k
      BY <2>7, <3>1
    <3> DEFINE m == j - (Len(q) - Len(rampartDetections'))
    <3>3. Len(recent') - i < maxSignals
      BY <1>0, <2>4, <3>0
    <3>4. m \in 1..Len(rampartDetections') /\ m + (Len(q) - Len(rampartDetections')) = j
      BY <1>0, <2>5, <3>0, <3>1, <3>2, <3>3
    <3>5. rampartDetections'[m] = recent'[i] /\ Len(rampartDetections') - m <= Len(recent') - i
      <4>1. rampartDetections'[m] = q[j]
        BY <2>5, <3>4
      <4>2. Len(rampartDetections') - m = Len(q) - j
        BY <3>0, <3>2, <3>4
      <4> QED
        BY <3>1, <3>2, <4>1, <4>2
    <3> QED
      BY <3>4, <3>5
  <2> QED
    BY <1>0, <1>2, <2>6, <2>8 DEF RecordRampartDetection, LensInv, StatsOrdered
<1>3. CASE PruneExpired
  <2> DEFINE fresh == {d \in Detection : d.time > now - windowDuration}
             q == rampartDetections
             t == Select(q, fresh)
  <2>1. /\ t \in Seq(Detection) /\ Len(t) <= Len(q)
        /\ rampartDetections' = t /\ recent' = recent /\ now' = now
    BY <1>a, <1>3, SelectType DEF PruneExpired
  <2>2. LensTypeOK'
    BY <1>0, <1>a, <1>3, <2>1, LenProperties DEF PruneExpired, LensTypeOK
  <2>3. ASSUME NEW i \in 1..Len(recent), InWindow(recent[i])
        PROVE  \E m \in 1..Len(t) : t[m] = recent[i] /\ Len(t) - m <= Len(recent) - i
    <3>1. PICK j \in 1..Len(q) : q[j] = recent[i] /\ Len(q) - j <= Len(recent) - i
      BY <1>0, <2>3 DEF FoundFromEnd
    <3>2. q[j] \in fresh
      BY <1>a, <2>3, <3>1, ElementOfSeq DEF InWindow
    <3> HIDE DEF fresh
    <3>3. PICK m \in 1..Len(t) : t[m] = q[j] /\ Len(t) - m <= Len(q) - j
      BY <1>a, <3>2, SelectFromEnd
    <3>4. Len(t) \in Nat
      BY <2>1, LenProperties
    <3> HIDE DEF t
    <3> QED
      BY <1>a, <3>1, <3>3, <3>4
  <2> HIDE DEF t
  <2> QED
    BY <1>0, <1>3, <2>1, <2>2, <2>3 DEF PruneExpired, LensInv, FoundFromEnd, InWindow, StatsOrdered
<1>4. CASE TimePasses
  <2>1. LensTypeOK'
    BY <1>0, <1>4 DEF TimePasses, LensTypeOK
  <2>2. \A d \in Detection : InWindow(d)' => InWindow(d)
    BY <1>0, <1>4, WindowAssumption DEF TimePasses, InWindow, Detection
  <2>3. \A i \in 1..Len(recent) : recent[i] \in Detection
    BY <1>a, ElementOfSeq
  <2>4. UNCHANGED <<rampartDetections, recent, receiverStats>>
    BY <1>4 DEF TimePasses
  <2>5. FoundFromEnd'
    <3> SUFFICES ASSUME NEW i \in 1..Len(recent), InWindow(recent[i])'
                 PROVE  \E j \in 1..Len(rampartDetections) :
                          /\ rampartDetections[j] = recent[i]
                          /\ Len(rampartDetections) - j <= Len(recent) - i
      BY <2>4 DEF FoundFromEnd, InWindow
    <3>1. InWindow(recent[i])
      BY <2>2, <2>3, <2>4 DEF InWindow
    <3> QED
      BY <1>0, <3>1 DEF FoundFromEnd
  <2> QED
    BY <1>0, <2>1, <2>4, <2>5 DEF LensInv, StatsOrdered
<1>5. CASE UNCHANGED lensVars
  BY <1>0, <1>5 DEF lensVars, LensInv, LensTypeOK, FoundFromEnd, InWindow, StatsOrdered
<1> QED
  BY <1>1, <1>2, <1>3, <1>4, <1>5 DEF LensNext

LEMMA LensInvHolds == LensSpec => []LensInv
  BY LensStarts, LensKeeps, PTL DEF LensSpec

(* In whatever order detections come, expire and are pruned by number and by age,
   those of the last maxSignals that are within the window can be correlated. *)
THEOREM RecentStaysKept == LensSpec => []RecentKept
<1>1. LensInv => RecentKept
  <2> SUFFICES ASSUME LensInv, NEW d \in ToSet(recent), InWindow(d) PROVE d \in ToSet(rampartDetections)
    BY DEF RecentKept, InWindow
  <2>1. recent \in Seq(Detection) /\ rampartDetections \in Seq(Detection)
    BY DEF LensInv, LensTypeOK
  <2>2. PICK i \in 1..Len(recent) : d = recent[i]
    BY <2>1, LenProperties DEF ToSet
  <2>3. PICK j \in 1..Len(rampartDetections) : rampartDetections[j] = d
    BY <2>2 DEF LensInv, FoundFromEnd
  <2> QED
    BY <2>1, <2>3, LenProperties DEF ToSet
<1> QED
  BY <1>1, LensInvHolds, PTL

-----------------------------------------------------------------------------
(*************************************************************************)
(* Webhook, for any hooks and senders. A call walks an array in which    *)
(* hooks only move towards its start, by one place for each removal in   *)
(* front of them: each is met, if at all, between the place it had and   *)
(* that place less those removals. A removal that is under way has       *)
(* counted for all behind it, but not moved them yet.                    *)
(*************************************************************************)

Array == arrays[webhooks.array]
Walked(c) == arrays[c.slice.array]
Shares(c) == c.slice.array = webhooks.array

(* Where the hooks are: a removal has copied from the place it writes next. *)
Live == 1..webhooks.len \ {removing}

(* Where a call may meet hooks, now or after they have been moved down. *)
Extent(c) == 1..c.slice.len \union (IF Shares(c) THEN Live ELSE {})

HooksAhead(c, h) == Cardinality(InFront(c, h))

SendCall == [pc : {"idle", "sending", "returned"}, slice : [array : Nat, len : Nat], at : Nat,
         tries : [Hooks -> Nat], began : Seq(Hooks), before : SUBSET Hooks]

Shape ==
  /\ arrays \in Seq(Seq(Hooks \union {Empty}))
  /\ webhooks \in [array : 1..Len(arrays), len : Nat] /\ webhooks.len <= Len(Array)
  /\ removing \in 0..webhooks.len
  /\ removed \subseteq Hooks
  /\ send \in [Senders -> SendCall]

LiveOnce ==
  \A p \in Live : /\ Array[p] \in Hooks \ removed
                  /\ \A q \in Live : p # q => Array[p] # Array[q]

Hole ==
  removing # 0 => \/ Array[removing] \in removed
                  \/ removing > 1 /\ Array[removing - 1] = Array[removing]

CallShape(c) ==
  /\ c.slice.array \in 1..Len(arrays) /\ c.slice.len \in 0..Len(Walked(c))
  /\ c.began \in [1..c.slice.len -> Hooks] /\ IsInjective(c.began)
  /\ c.before \subseteq removed
  /\ c.at \in 1..c.slice.len + 1 /\ c.tries \in [Hooks -> Nat]
  /\ c.pc = "returned" => c.at > c.slice.len

StillLive(c) == \A h \in ToSet(c.began) \ removed : \E q \in Live : Array[q] = h

OrderKept(c) ==
  Shares(c) => \A p, q \in Live : p < q => Place(c, Array[p]) <= Place(c, Array[q])

NearPlace(c) ==
  \A i \in Extent(c) : Walked(c)[i] \in Hooks =>
    /\ Place(c, Walked(c)[i]) - HooksAhead(c, Walked(c)[i]) <= i
    /\ Walked(c)[i] \in ToSet(c.began) => i <= Place(c, Walked(c)[i])

NotMoved(c) ==
  Shares(c) /\ removing # 0 =>
    \A q \in Live : q > removing => Place(c, Array[q]) - HooksAhead(c, Array[q]) < q

LongEnough(c) ==
  Shares(c) => /\ webhooks.len + Cardinality(removed \ c.before) >= c.slice.len
               /\ removing # 0 => webhooks.len + Cardinality(removed \ c.before) > c.slice.len

Reached(c) ==
  \A h \in ToSet(c.began) \ removed : InFront(c, h) = {} =>
    /\ Walked(c)[Place(c, h)] = h
    /\ h \in EnabledHooks /\ c.at > Place(c, h) => c.tries[h] >= 1

Bounded(c) ==
  \A h \in Hooks :
    /\ c.tries[h] <= 1 + HooksAhead(c, h)
    /\ c.tries[h] > 0 => c.tries[h] <= c.at - Place(c, h) + HooksAhead(c, h)

CallInv(c) ==
  /\ CallShape(c) /\ StillLive(c) /\ OrderKept(c) /\ NearPlace(c) /\ NotMoved(c)
  /\ LongEnough(c) /\ Reached(c) /\ Bounded(c)

WebhookInv ==
  /\ Shape /\ LiveOnce /\ Hole
  /\ \A s \in Senders : send[s].pc # "idle" => CallInv(send[s])

-----------------------------------------------------------------------------
LEMMA PlaceIs ==
  ASSUME NEW c, NEW n \in Nat, c.began \in [1..n -> Hooks], IsInjective(c.began)
  PROVE  /\ \A h : Place(c, h) \in 1..n + 1
         /\ \A h \in ToSet(c.began) : Place(c, h) <= n /\ c.began[Place(c, h)] = h
         /\ \A h : h \notin ToSet(c.began) => Place(c, h) = n + 1
         /\ \A i \in 1..n : Place(c, c.began[i]) = i /\ c.began[i] \in ToSet(c.began)
<1>1. Len(c.began) = n /\ DOMAIN c.began = 1..n
  OBVIOUS
<1>2. ASSUME NEW h \in ToSet(c.began)
      PROVE  Place(c, h) \in 1..n /\ c.began[Place(c, h)] = h
  <2>1. \E i \in 1..n : c.began[i] = h
    BY <1>1 DEF ToSet
  <2> QED
    BY <1>1, <2>1 DEF Place
<1>3. ASSUME NEW h, h \notin ToSet(c.began) PROVE Place(c, h) = n + 1
  BY <1>1, <1>3 DEF Place
<1>4. ASSUME NEW i \in 1..n PROVE c.began[i] \in ToSet(c.began) /\ Place(c, c.began[i]) = i
  <2>1. c.began[i] \in ToSet(c.began)
    BY <1>1 DEF ToSet
  <2> QED
    BY <1>1, <1>2, <2>1 DEF IsInjective
<1> QED
  BY <1>2, <1>3, <1>4

(* Those in front are finitely many, and their number never falls. *)
LEMMA AheadIs ==
  ASSUME Shape, NEW c, NEW h
  PROVE  /\ IsFiniteSet(InFront(c, h)) /\ HooksAhead(c, h) \in Nat
         /\ HooksAhead(c, h) = 0 <=> InFront(c, h) = {}
         /\ IsFiniteSet(removed \ c.before) /\ Cardinality(removed \ c.before) \in Nat
<1>1. InFront(c, h) \subseteq Hooks /\ removed \ c.before \subseteq Hooks
  BY DEF Shape, InFront
<1>2. IsFiniteSet(InFront(c, h)) /\ IsFiniteSet(removed \ c.before)
  BY <1>1, HooksAssumption, FS_Subset
<1> QED
  BY <1>2, FS_CardinalityType, FS_EmptySet DEF HooksAhead

(* A place of the manager's array is written. *)
LEMMA Overwritten ==
  ASSUME Shape, NEW i \in 1..Len(Array), NEW x \in Hooks \union {Empty},
         arrays' = [arrays EXCEPT ![webhooks.array][i] = x]
  PROVE  /\ arrays' \in Seq(Seq(Hooks \union {Empty})) /\ Len(arrays') = Len(arrays)
         /\ \A a \in 1..Len(arrays) :
              /\ Len(arrays'[a]) = Len(arrays[a])
              /\ \A k \in 1..Len(arrays[a]) :
                   arrays'[a][k] = IF a = webhooks.array /\ k = i THEN x ELSE arrays[a][k]
<1>1. webhooks.array \in 1..Len(arrays) /\ arrays \in Seq(Seq(Hooks \union {Empty}))
  BY DEF Shape
<1>2. Array \in Seq(Hooks \union {Empty})
  BY <1>1 DEF Array
<1> DEFINE longer == [Array EXCEPT ![i] = x]
<1>3. /\ longer \in Seq(Hooks \union {Empty}) /\ Len(longer) = Len(Array)
      /\ \A k \in 1..Len(Array) : longer[k] = IF k = i THEN x ELSE Array[k]
  BY <1>2
<1>4. arrays' = [arrays EXCEPT ![webhooks.array] = longer]
  BY DEF Array
<1> HIDE DEF longer
<1>5. arrays' \in Seq(Seq(Hooks \union {Empty})) /\ Len(arrays') = Len(arrays)
  BY <1>1, <1>3, <1>4
<1>6. \A a \in 1..Len(arrays) : arrays'[a] = IF a = webhooks.array THEN longer ELSE arrays[a]
  BY <1>1, <1>4
<1> QED
  BY <1>3, <1>5, <1>6 DEF Array

LEMMA WebhookStarts == WebhookInit => WebhookInv
<1> SUFFICES ASSUME WebhookInit PROVE WebhookInv
  OBVIOUS
<1>1. PICK n \in 0..Capacity : \E list \in [1..n -> Hooks] :
         IsInjective(list) /\ arrays = <<list>> /\ webhooks = [array |-> 1, len |-> n]
  BY DEF WebhookInit
<1>2. PICK list \in [1..n -> Hooks] :
         IsInjective(list) /\ arrays = <<list>> /\ webhooks = [array |-> 1, len |-> n]
  BY <1>1
<1>3. n \in Nat
  BY <1>1, HooksAssumption, FS_CardinalityType DEF Capacity
<1>4. list \in Seq(Hooks \union {Empty}) /\ Len(list) = n
  BY <1>3
<1>5. Idle \in SendCall /\ Idle.pc = "idle"
  BY DEF Idle, SendCall
<1>6. Shape
  BY <1>2, <1>3, <1>4, <1>5 DEF WebhookInit, Shape, Array
<1>7. LiveOnce
  BY <1>2, <1>3 DEF WebhookInit, LiveOnce, Live, Array, IsInjective
<1> QED
  BY <1>5, <1>6, <1>7 DEF WebhookInit, WebhookInv, Hole

(* What holds of a record holds of the call that is that record after a step. *)
LEMMA CallThen ==
  ASSUME NEW s, NEW d, send'[s] = d, CallInv(d)'
  PROVE  CallInv(send[s])'
<1>a. \A h : /\ Place(send[s], h)' = Place(d, h)
            /\ InFront(send[s], h)' = InFront(d, h)' /\ HooksAhead(send[s], h)' = HooksAhead(d, h)'
  BY DEF InFront, HooksAhead
<1>b. Walked(send[s])' = Walked(d)' /\ Shares(send[s])' = Shares(d)' /\ Extent(send[s])' = Extent(d)'
  BY DEF Walked, Shares, Extent
<1>1. CallShape(send[s])'
  BY DEF CallInv, CallShape, Walked
<1>2. StillLive(send[s])'
  BY DEF CallInv, StillLive
<1>3. OrderKept(send[s])'
  BY <1>b DEF CallInv, OrderKept
<1>4. NearPlace(send[s])'
  BY <1>a, <1>b DEF CallInv, NearPlace
<1>5. NotMoved(send[s])'
  BY <1>a, <1>b DEF CallInv, NotMoved
<1>6. LongEnough(send[s])'
  BY DEF CallInv, LongEnough, Shares
<1>7. Reached(send[s])'
  BY <1>a, <1>b DEF CallInv, Reached
<1>8. Bounded(send[s])'
  BY <1>a, <1>b DEF CallInv, Bounded
<1> QED
  BY <1>1, <1>2, <1>3, <1>4, <1>5, <1>6, <1>7, <1>8 DEF CallInv

(* A step that leaves the manager keeps what holds of it and of a record. *)
LEMMA ManagerUnchanged ==
  ASSUME UNCHANGED <<arrays, webhooks, removing, removed>>
  PROVE  /\ LiveOnce => LiveOnce'
         /\ Hole => Hole'
         /\ \A c : CallInv(c) => CallInv(c)'
<1>1. /\ arrays' = arrays /\ webhooks' = webhooks /\ removing' = removing /\ removed' = removed
      /\ Array' = Array /\ Live' = Live
  BY DEF Array, Live
<1>2. ASSUME NEW c PROVE /\ Walked(c)' = Walked(c) /\ Shares(c)' = Shares(c) /\ Extent(c)' = Extent(c)
                         /\ \A h : InFront(c, h)' = InFront(c, h) /\ HooksAhead(c, h)' = HooksAhead(c, h)
  BY <1>1 DEF Walked, Shares, Extent, Live, InFront, HooksAhead, Place
<1>3. ASSUME NEW c, CallInv(c) PROVE CallInv(c)'
  <2>1. CallShape(c)' /\ StillLive(c)'
    BY <1>1, <1>2, <1>3 DEF CallInv, CallShape, StillLive
  <2>2. OrderKept(c)' /\ NearPlace(c)'
    BY <1>1, <1>2, <1>3 DEF CallInv, OrderKept, NearPlace
  <2>3. NotMoved(c)' /\ LongEnough(c)'
    BY <1>1, <1>2, <1>3 DEF CallInv, NotMoved, LongEnough
  <2>4. Reached(c)' /\ Bounded(c)'
    BY <1>1, <1>2, <1>3 DEF CallInv, Reached, Bounded
  <2> QED
    BY <2>1, <2>2, <2>3, <2>4 DEF CallInv
<1> QED
  BY <1>1, <1>3 DEF LiveOnce, Hole

(* A step of one call, of which the manager knows nothing. *)
LEMMA OneCallMoves ==
  ASSUME WebhookInv, NEW s \in Senders, NEW d, CallInv(d), send' \in [Senders -> SendCall],
         send'[s] = d, \A t \in Senders : t # s => send'[t] = send[t],
         UNCHANGED <<arrays, webhooks, removing, removed>>
  PROVE  WebhookInv'
<1>1. ASSUME NEW t \in Senders, send'[t].pc # "idle" PROVE CallInv(send[t])'
  <2>1. CASE t = s
    BY <2>1, ManagerUnchanged, CallThen
  <2>2. CASE t # s
    <3>1. PICK e : e = send[t]
      OBVIOUS
    <3>2. send'[t] = e /\ CallInv(e)
      BY <1>1, <2>2, <3>1 DEF WebhookInv
    <3> QED
      BY <3>2, ManagerUnchanged, CallThen
  <2> QED
    BY <2>1, <2>2
<1>2. Shape'
  BY DEF WebhookInv, Shape, Array
<1> QED
  BY <1>1, <1>2, ManagerUnchanged DEF WebhookInv

LEMMA SendBeginsKeeps ==
  ASSUME WebhookInv, NEW s \in Senders, SendBegins(s) PROVE WebhookInv'
<1> DEFINE c == [Idle EXCEPT !.pc = "sending", !.slice = webhooks,
                             !.began = Elements(webhooks), !.before = removed]
<1>1. Shape /\ LiveOnce /\ Hole /\ \A t \in Senders : send[t].pc # "idle" => CallInv(send[t])
  BY DEF WebhookInv
<1>2. send' = [send EXCEPT ![s] = c] /\ UNCHANGED <<arrays, webhooks, removing, removed>>
      /\ removing = 0
  BY DEF SendBegins
<1>3. Array \in Seq(Hooks \union {Empty}) /\ webhooks.len \in 0..Len(Array)
  BY <1>1 DEF Shape, Array
<1>4. Live = 1..webhooks.len
  BY <1>2 DEF Live
<1>5. Elements(webhooks) = [i \in 1..webhooks.len |-> Array[i]]
  BY <1>3 DEF Elements, Array
<1>6. Elements(webhooks) \in [1..webhooks.len -> Hooks] /\ IsInjective(Elements(webhooks))
  BY <1>1, <1>3, <1>4, <1>5 DEF LiveOnce, IsInjective
<1>7. Elements(webhooks) \in Seq(Hooks)
  BY <1>3, <1>6
<1>8. /\ c.pc = "sending" /\ c.slice = webhooks /\ c.at = 1 /\ c.tries = [h \in Hooks |-> 0]
      /\ c.began = Elements(webhooks) /\ c.before = removed
  BY DEF Idle
<1>a. c \in SendCall
  <2>1. webhooks \in [array : Nat, len : Nat] /\ removed \in SUBSET Hooks
    BY <1>1 DEF Shape
  <2> QED
    BY <1>7, <2>1 DEF Idle, SendCall
<1> HIDE DEF c
<1>9. CallInv(c)
  <2> DEFINE n == webhooks.len
  <2>1. n \in Nat /\ n <= Len(Array) /\ c.slice.len = n /\ Shares(c) /\ Walked(c) = Array
    BY <1>3, <1>8 DEF Shares, Walked, Array
  <2>2. c.began \in [1..n -> Hooks] /\ IsInjective(c.began) /\ \A i \in 1..n : c.began[i] = Array[i]
    BY <1>5, <1>6, <1>8
  <2>3. /\ \A h : Place(c, h) \in 1..n + 1
        /\ \A h \in ToSet(c.began) : Place(c, h) <= n /\ c.began[Place(c, h)] = h
        /\ \A i \in 1..n : Place(c, c.began[i]) = i /\ c.began[i] \in ToSet(c.began)
    BY <2>1, <2>2, PlaceIs
  <2>4. \A h : InFront(c, h) = {} /\ HooksAhead(c, h) = 0
    BY <1>8, FS_EmptySet DEF InFront, HooksAhead
  <2>5. removed \ c.before = {} /\ Cardinality(removed \ c.before) = 0
    BY <1>8, FS_EmptySet
  <2>6. Extent(c) = 1..n /\ Live = 1..n
    BY <1>4, <2>1 DEF Extent
  <2> HIDE DEF n
  <2>7. CallShape(c)
    BY <1>1, <1>8, <1>a, <2>1, <2>2 DEF CallShape, Shape, Walked, SendCall
  <2>8. StillLive(c) /\ OrderKept(c) /\ NearPlace(c)
    BY <2>1, <2>2, <2>3, <2>4, <2>6 DEF StillLive, OrderKept, NearPlace
  <2>9. NotMoved(c) /\ LongEnough(c)
    BY <1>2, <2>1, <2>5 DEF NotMoved, LongEnough, n
  <2>10. Reached(c) /\ Bounded(c)
    BY <1>8, <2>1, <2>2, <2>3, <2>4 DEF Reached, Bounded
  <2> QED
    BY <2>7, <2>8, <2>9, <2>10 DEF CallInv
<1>10. PICK d : d = c
  OBVIOUS
<1>11. CallInv(d)
  BY <1>9, <1>10
<1>12. /\ send' \in [Senders -> SendCall] /\ send'[s] = d
       /\ \A t \in Senders : t # s => send'[t] = send[t]
  BY <1>1, <1>2, <1>a, <1>10 DEF Shape
<1> QED
  BY <1>1, <1>2, <1>11, <1>12, OneCallMoves

(* The place a removal writes next is not that of a hook no removal has disturbed. *)
LEMMA NotInHole ==
  ASSUME Shape, Hole, NEW c, CallInv(c), Shares(c), NEW h \in ToSet(c.began) \ removed,
         InFront(c, h) = {}
  PROVE  removing # Place(c, h)
<1> SUFFICES ASSUME removing = Place(c, h) PROVE FALSE
  OBVIOUS
<1>1. Place(c, h) \in 1..c.slice.len + 1 /\ h \in Hooks /\ c.slice.len \in Nat
  <2>1. c.slice.len \in Nat /\ c.began \in [1..c.slice.len -> Hooks] /\ IsInjective(c.began)
    BY DEF CallInv, CallShape
  <2>2. h \in Hooks
    BY <2>1 DEF ToSet
  <2> QED
    BY <2>1, <2>2, PlaceIs
<1>2. Walked(c) = Array /\ Walked(c)[Place(c, h)] = h
  BY DEF CallInv, Reached, Shares, Walked, Array
<1>3. removing \in Int /\ removing > 1 /\ Array[removing - 1] = h
  BY <1>1, <1>2 DEF Hole
<1>4. removing - 1 \in Live /\ removing - 1 \in Extent(c)
  BY <1>1, <1>3 DEF Shape, Live, Extent
<1>5. HooksAhead(c, h) = 0
  BY AheadIs
<1> QED
  BY <1>1, <1>2, <1>3, <1>4, <1>5 DEF CallInv, NearPlace

(* A call that only advances keeps all that does not depend on how far it is. *)
LEMMA CallAdvances ==
  ASSUME NEW c, NEW d, CallInv(c), d.slice = c.slice, d.began = c.began, d.before = c.before
  PROVE  /\ \A h : Place(d, h) = Place(c, h) /\ InFront(d, h) = InFront(c, h) /\ HooksAhead(d, h) = HooksAhead(c, h)
         /\ Walked(d) = Walked(c)
         /\ d \in SendCall /\ d.at \in 1..c.slice.len + 1
              /\ (d.pc = "returned" => d.at > c.slice.len) /\ Reached(d) /\ Bounded(d) => CallInv(d)
<1>1. \A h : Place(d, h) = Place(c, h)
  BY DEF Place
<1>2. \A h : InFront(d, h) = InFront(c, h)
  BY <1>1 DEF InFront
<1>3. /\ \A h : HooksAhead(d, h) = HooksAhead(c, h)
      /\ Walked(d) = Walked(c) /\ Shares(d) = Shares(c) /\ Extent(d) = Extent(c)
  BY <1>2 DEF HooksAhead, Walked, Shares, Extent
<1>4. ASSUME d \in SendCall, d.at \in 1..c.slice.len + 1,
             d.pc = "returned" => d.at > c.slice.len, Reached(d), Bounded(d) PROVE CallInv(d)
  <2>1. CallShape(d) /\ StillLive(d)
    BY <1>3, <1>4 DEF CallInv, CallShape, StillLive, SendCall
  <2>2. OrderKept(d) /\ NearPlace(d)
    BY <1>1, <1>3 DEF CallInv, OrderKept, NearPlace
  <2>3. NotMoved(d) /\ LongEnough(d)
    BY <1>1, <1>3 DEF CallInv, NotMoved, LongEnough
  <2> QED
    BY <1>4, <2>1, <2>2, <2>3 DEF CallInv
<1> QED
  BY <1>1, <1>2, <1>3, <1>4

LEMMA SendReturnsKeeps ==
  ASSUME WebhookInv, NEW s \in Senders, SendReturns(s) PROVE WebhookInv'
<1>1. PICK c : c = send[s]
  OBVIOUS
<1>2. PICK d : d = [c EXCEPT !.pc = "returned"]
  OBVIOUS
<1>3. c \in SendCall /\ CallInv(c)
  BY <1>1 DEF SendReturns, WebhookInv, Shape
<1>4. /\ d \in SendCall /\ d.slice = c.slice /\ d.began = c.began /\ d.before = c.before
      /\ d.at = c.at /\ d.tries = c.tries
  BY <1>2, <1>3 DEF SendCall
<1>a. d.at \in 1..c.slice.len + 1 /\ d.at > c.slice.len
  BY <1>1, <1>3, <1>4 DEF CallInv, CallShape, SendReturns
<1>b. \A h : /\ Place(d, h) = Place(c, h) /\ InFront(d, h) = InFront(c, h)
            /\ HooksAhead(d, h) = HooksAhead(c, h) /\ Walked(d) = Walked(c)
  BY <1>3, <1>4, CallAdvances
<1>c. Reached(d) /\ Bounded(d)
  BY <1>3, <1>4, <1>b DEF CallInv, Reached, Bounded
<1>5. CallInv(d)
  BY <1>3, <1>4, <1>a, <1>c, CallAdvances
<1>6. /\ send' = [send EXCEPT ![s] = d] /\ UNCHANGED <<arrays, webhooks, removing, removed>>
      /\ send \in [Senders -> SendCall]
  BY <1>1, <1>2 DEF SendReturns, WebhookInv, Shape
<1>7. send' \in [Senders -> SendCall] /\ send'[s] = d /\ \A t \in Senders : t # s => send'[t] = send[t]
  BY <1>4, <1>6
<1> QED
  BY <1>5, <1>6, <1>7, OneCallMoves

LEMMA SendNextKeeps ==
  ASSUME WebhookInv, NEW s \in Senders, SendNext(s) PROVE WebhookInv'
<1>1. PICK c : c = send[s]
  OBVIOUS
<1>2. PICK h \in Reads(c), fails \in BOOLEAN :
         send' = [send EXCEPT ![s] = sendToWebhook(c, h, fails)]
  BY <1>1 DEF SendNext
<1>3. PICK d : d = sendToWebhook(c, h, fails)
  OBVIOUS
<1>4. c \in SendCall /\ c.pc = "sending" /\ CallInv(c) /\ c.at <= c.slice.len /\ Shape /\ Hole
  BY <1>1 DEF SendNext, WebhookInv, Shape
<1>5. EnabledHooks \subseteq Hooks /\ Torn \notin Hooks
  BY HooksAssumption
<1>6. /\ d \in SendCall /\ d.slice = c.slice /\ d.began = c.began /\ d.before = c.before
      /\ d.at = c.at + 1 /\ d.pc = "sending"
      /\ d.tries = IF h \in EnabledHooks THEN [c.tries EXCEPT ![h] = @ + 1] ELSE c.tries
  <2>1. /\ c = [pc |-> c.pc, slice |-> c.slice, at |-> c.at, tries |-> c.tries,
              began |-> c.began, before |-> c.before]
        /\ c.pc \in {"idle", "sending", "returned"} /\ c.slice \in [array : Nat, len : Nat]
        /\ c.at \in Nat /\ c.tries \in [Hooks -> Nat]
        /\ c.began \in Seq(Hooks) /\ c.before \in SUBSET Hooks
    BY <1>4 DEF SendCall
  <2>a. (IF h \in EnabledHooks THEN [c.tries EXCEPT ![h] = @ + 1] ELSE c.tries) \in [Hooks -> Nat]
    <3>1. CASE h \in EnabledHooks
      BY <1>5, <2>1, <3>1
    <3>2. CASE h \notin EnabledHooks
      BY <2>1, <3>2
    <3> QED
      BY <3>1, <3>2
  <2>2. PICK tries \in [Hooks -> Nat] :
          tries = IF h \in EnabledHooks THEN [c.tries EXCEPT ![h] = @ + 1] ELSE c.tries
    BY <2>a
  <2>3. d = [pc |-> c.pc, slice |-> c.slice, at |-> c.at + 1, tries |-> tries,
             began |-> c.began, before |-> c.before]
    <3>1. CASE h \in EnabledHooks
      BY <1>3, <2>1, <2>2, <3>1 DEF sendToWebhook, Attempt
    <3>2. CASE h \notin EnabledHooks
      BY <1>3, <2>1, <2>2, <3>2 DEF sendToWebhook, Attempt
    <3> QED
      BY <3>1, <3>2
  <2> QED
    BY <1>4, <2>1, <2>2, <2>3 DEF SendCall
<1>7. \A x \in Hooks : d.tries[x] = IF x = h /\ h \in EnabledHooks THEN c.tries[x] + 1 ELSE c.tries[x]
  BY <1>4, <1>5, <1>6 DEF SendCall
<1>8. c.at \in 1..c.slice.len /\ c.slice.len \in Nat /\ c.tries \in [Hooks -> Nat]
  BY <1>4 DEF CallInv, CallShape, SendCall
<1>9. /\ \A x : Place(c, x) \in 1..c.slice.len + 1
      /\ \A x : x \notin ToSet(c.began) => Place(c, x) = c.slice.len + 1
  BY <1>4, <1>8, PlaceIs DEF CallInv, CallShape
<1>10. \A x : HooksAhead(c, x) \in Nat /\ (InFront(c, x) = {} => HooksAhead(c, x) = 0)
  BY <1>4, AheadIs
<1>11. Bounded(d)
  <2> SUFFICES ASSUME NEW x \in Hooks
               PROVE  /\ d.tries[x] <= 1 + HooksAhead(c, x)
                      /\ d.tries[x] > 0 => d.tries[x] <= d.at - Place(c, x) + HooksAhead(c, x)
    BY <1>4, <1>6, CallAdvances DEF Bounded
  <2>1. /\ c.tries[x] <= 1 + HooksAhead(c, x) /\ c.tries[x] \in Nat
        /\ c.tries[x] > 0 => c.tries[x] <= c.at - Place(c, x) + HooksAhead(c, x)
    BY <1>4, <1>8 DEF CallInv, Bounded
  <2>2. CASE x = h /\ h \in EnabledHooks
    <3>1. h = Walked(c)[c.at]
      BY <1>2, <1>5, <2>2 DEF Reads, Walked
    <3>2. Place(c, h) - HooksAhead(c, h) <= c.at /\ c.at <= Place(c, h)
      BY <1>4, <1>8, <1>9, <2>2, <3>1 DEF CallInv, NearPlace, Extent
    <3> QED
      BY <1>6, <1>7, <1>8, <1>9, <1>10, <2>1, <2>2, <3>2
  <2>3. CASE ~(x = h /\ h \in EnabledHooks)
    BY <1>6, <1>7, <1>8, <1>9, <1>10, <2>1, <2>3
  <2> QED
    BY <2>2, <2>3
<1>12. Reached(d)
  <2> SUFFICES ASSUME NEW x \in ToSet(c.began) \ removed, InFront(c, x) = {}
               PROVE  /\ Walked(c)[Place(c, x)] = x
                      /\ x \in EnabledHooks /\ d.at > Place(c, x) => d.tries[x] >= 1
    BY <1>4, <1>6, CallAdvances DEF Reached
  <2>1. /\ Walked(c)[Place(c, x)] = x
        /\ x \in EnabledHooks /\ c.at > Place(c, x) => c.tries[x] >= 1
    BY <1>4 DEF CallInv, Reached
  <2>2. ASSUME x \in EnabledHooks, d.at > Place(c, x), c.at <= Place(c, x) PROVE x = h
    <3>1. c.at = Place(c, x)
      BY <1>6, <1>8, <1>9, <2>2
    <3>2. ~(removing = c.at /\ webhooks.array = c.slice.array)
      BY <1>4, <3>1, NotInHole DEF Shares
    <3> QED
      BY <1>2, <2>1, <3>1, <3>2 DEF Reads, Walked
  <2> QED
    BY <1>5, <1>7, <1>8, <1>9, <2>1, <2>2
<1>13. CallInv(d)
  BY <1>4, <1>6, <1>8, <1>11, <1>12, CallAdvances
<1>14. UNCHANGED <<arrays, webhooks, removing, removed>> /\ send \in [Senders -> SendCall]
  BY DEF SendNext, WebhookInv, Shape
<1>15. send' \in [Senders -> SendCall] /\ send'[s] = d /\ \A t \in Senders : t # s => send'[t] = send[t]
  BY <1>2, <1>3, <1>6, <1>14
<1> QED
  BY <1>13, <1>14, <1>15, OneCallMoves

(* What a step of the manager must keep of every call. *)
LEMMA ManagerMoves ==
  ASSUME WebhookInv, Shape', LiveOnce', Hole', UNCHANGED send,
         \A c : CallInv(c) => CallInv(c)'
  PROVE  WebhookInv'
<1>1. ASSUME NEW t \in Senders, send'[t].pc # "idle" PROVE CallInv(send[t])'
  <2>1. PICK e : e = send[t]
    OBVIOUS
  <2>2. send'[t] = e /\ CallInv(e)
    BY <1>1, <2>1 DEF WebhookInv
  <2> QED
    BY <2>2, CallThen
<1> QED
  BY <1>1 DEF WebhookInv

(* What does not depend on the arrays. *)
LEMMA SameRemoved ==
  ASSUME UNCHANGED removed, NEW c
  PROVE  \A x : InFront(c, x)' = InFront(c, x) /\ HooksAhead(c, x)' = HooksAhead(c, x)
BY DEF InFront, HooksAhead, Place

LEMMA RemoveEndsKeeps ==
  ASSUME WebhookInv, RemoveEnds PROVE WebhookInv'
<1>1. Shape /\ LiveOnce /\ Hole
  BY DEF WebhookInv
<1>2. /\ removing # 0 /\ removing = webhooks.len /\ removing' = 0
      /\ webhooks' = [webhooks EXCEPT !.len = @ - 1]
      /\ arrays' = arrays /\ removed' = removed /\ send' = send
  BY DEF RemoveEnds
<1>3. /\ webhooks.len \in Nat \ {0} /\ webhooks'.len = webhooks.len - 1
      /\ webhooks'.array = webhooks.array /\ webhooks'.len \in Nat
      /\ webhooks' \in [array : 1..Len(arrays), len : Nat]
  <2>1. webhooks \in [array : 1..Len(arrays), len : Nat] /\ webhooks.len \in Nat \ {0}
    BY <1>1, <1>2 DEF Shape
  <2> QED
    BY <1>2, <2>1
<1>4. Array' = Array /\ Live' = Live
  BY <1>2, <1>3 DEF Array, Live
<1>5. Shape'
  BY <1>1, <1>2, <1>3, <1>4 DEF Shape
<1>6. LiveOnce' /\ Hole'
  BY <1>1, <1>2, <1>4 DEF LiveOnce, Hole
<1>7. ASSUME NEW c, CallInv(c) PROVE CallInv(c)'
  <2>1. \A x : InFront(c, x)' = InFront(c, x) /\ HooksAhead(c, x)' = HooksAhead(c, x)
    BY <1>2, SameRemoved
  <2>2. Walked(c)' = Walked(c) /\ Shares(c)' = Shares(c) /\ Extent(c)' = Extent(c)
    BY <1>2, <1>3, <1>4 DEF Walked, Shares, Extent
  <2>3. CallShape(c)' /\ StillLive(c)'
    BY <1>2, <1>4, <1>7, <2>2 DEF CallInv, CallShape, StillLive
  <2>4. OrderKept(c)' /\ NearPlace(c)'
    BY <1>4, <1>7, <2>1, <2>2 DEF CallInv, OrderKept, NearPlace
  <2>5. NotMoved(c)' /\ LongEnough(c)'
    <3>a. c.slice.len \in Nat
      BY <1>7 DEF CallInv, CallShape
    <3>1. Cardinality(removed \ c.before) \in Nat
      BY <1>1, AheadIs, Zenon
    <3>2. Cardinality(removed \ c.before)' = Cardinality(removed \ c.before)
      BY <1>2
    <3>3. Shares(c) => webhooks.len + Cardinality(removed \ c.before) > c.slice.len
      BY <1>2, <1>7 DEF CallInv, LongEnough
    <3>4. LongEnough(c)'
      <4> SUFFICES ASSUME Shares(c)
                   PROVE  webhooks'.len + Cardinality(removed \ c.before) >= c.slice.len
        BY <1>2, <2>2, <3>2 DEF LongEnough
      <4> QED
        BY <1>3, <3>a, <3>1, <3>3
    <3> QED
      BY <1>2, <3>4 DEF NotMoved
  <2>6. Reached(c)' /\ Bounded(c)'
    BY <1>2, <1>7, <2>1, <2>2 DEF CallInv, Reached, Bounded
  <2> QED
    BY <2>3, <2>4, <2>5, <2>6 DEF CallInv
<1> QED
  BY <1>2, <1>5, <1>6, <1>7, ManagerMoves

LEMMA RemoveWebhookKeeps ==
  ASSUME WebhookInv, NEW g \in Hooks, RemoveWebhook(g) PROVE WebhookInv'
<1>1. Shape /\ LiveOnce
  BY DEF WebhookInv
<1>2. PICK i \in 1..webhooks.len : Array[i] = g /\ removing' = i
  BY DEF RemoveWebhook, Array
<1>3. /\ removing = 0 /\ removed' = removed \union {g}
      /\ arrays' = arrays /\ webhooks' = webhooks /\ send' = send
  BY DEF RemoveWebhook
<1>4. /\ Array' = Array /\ Live = 1..webhooks.len /\ Live' = Live \ {i}
      /\ webhooks.len \in Nat /\ i \in Live
  BY <1>1, <1>2, <1>3 DEF Array, Live, Shape
<1>5. g \notin removed /\ \A p \in Live' : Array[p] # g
  BY <1>1, <1>2, <1>4 DEF LiveOnce
<1>6. Shape'
  BY <1>1, <1>2, <1>3, <1>4 DEF Shape
<1>7. LiveOnce' /\ Hole'
  BY <1>1, <1>2, <1>3, <1>4, <1>5 DEF LiveOnce, Hole
<1>8. ASSUME NEW c, CallInv(c) PROVE CallInv(c)'
  <2>1. g \notin c.before /\ c.slice.len \in Nat
    BY <1>5, <1>8 DEF CallInv, CallShape
  <2>2. Walked(c)' = Walked(c) /\ Shares(c)' = Shares(c) /\ Extent(c)' \subseteq Extent(c)
    BY <1>3, <1>4 DEF Walked, Shares, Extent
  <2>3. /\ IsFiniteSet(removed \ c.before) /\ Cardinality(removed \ c.before) \in Nat
        /\ \A x : IsFiniteSet(InFront(c, x)) /\ HooksAhead(c, x) \in Nat
    BY <1>1, AheadIs
  <2>4. \A x : InFront(c, x)' = IF g # x /\ Place(c, g) <= Place(c, x)
                               THEN InFront(c, x) \union {g} ELSE InFront(c, x)
    BY <1>3, <2>1 DEF InFront
  <2>5. \A x : HooksAhead(c, x)' = IF g # x /\ Place(c, g) <= Place(c, x)
                             THEN HooksAhead(c, x) + 1 ELSE HooksAhead(c, x)
    <3> SUFFICES ASSUME NEW x
                 PROVE  HooksAhead(c, x)' = IF g # x /\ Place(c, g) <= Place(c, x)
                                       THEN HooksAhead(c, x) + 1 ELSE HooksAhead(c, x)
      OBVIOUS
    <3>1. g \notin InFront(c, x) /\ HooksAhead(c, x)' = Cardinality(InFront(c, x)')
      BY <1>5 DEF InFront, HooksAhead
    <3> QED
      BY <2>3, <2>4, <3>1, FS_AddElement DEF HooksAhead
  <2>6. Cardinality(removed \ c.before)' = Cardinality(removed \ c.before) + 1
    <3>1. (removed \ c.before)' = (removed \ c.before) \union {g}
      BY <1>3, <2>1
    <3> QED
      BY <1>5, <2>3, <3>1, FS_AddElement
  <2>7. CallShape(c)' /\ StillLive(c)'
    BY <1>2, <1>3, <1>4, <1>8, <2>2 DEF CallInv, CallShape, StillLive
  <2>8. OrderKept(c)'
    BY <1>4, <1>8, <2>2 DEF CallInv, OrderKept
  <2>9. \A x : Place(c, x) \in 1..c.slice.len + 1
    BY <1>8, <2>1, PlaceIs DEF CallInv, CallShape
  <2>10. Extent(c) \subseteq Int
    BY <1>4, <2>1 DEF Extent
  <2>11. NearPlace(c)'
    BY <1>8, <2>1, <2>2, <2>3, <2>5, <2>9, <2>10 DEF CallInv, NearPlace
  <2>12. NotMoved(c)'
    <3> SUFFICES ASSUME Shares(c), NEW q \in Live, q > i, q # i
                 PROVE  Place(c, Array[q]) - HooksAhead(c, Array[q])' < q
      BY <1>2, <1>4, <2>2 DEF NotMoved
    <3>1. g # Array[q] /\ Place(c, g) <= Place(c, Array[q])
      BY <1>2, <1>4, <1>5, <1>8 DEF CallInv, OrderKept
    <3>2. Array[q] \in Hooks /\ Walked(c) = Array /\ q \in Extent(c)
      BY <1>1 DEF LiveOnce, Shares, Walked, Array, Extent
    <3>3. Place(c, Array[q]) - HooksAhead(c, Array[q]) <= q
      BY <1>8, <3>2 DEF CallInv, NearPlace
    <3> QED
      BY <1>4, <2>1, <2>3, <2>5, <2>9, <3>1, <3>3
  <2>13. LongEnough(c)'
    BY <1>3, <1>4, <1>8, <2>1, <2>2, <2>3, <2>6 DEF CallInv, LongEnough
  <2>14. Reached(c)'
    BY <1>3, <1>8, <2>2, <2>4 DEF CallInv, Reached
  <2>15. Bounded(c)'
    <3> SUFFICES ASSUME NEW x \in Hooks
                 PROVE  /\ c.tries[x] <= 1 + HooksAhead(c, x)'
                        /\ c.tries[x] > 0 => c.tries[x] <= c.at - Place(c, x) + HooksAhead(c, x)'
      BY DEF Bounded
    <3>1. /\ c.tries[x] \in Nat /\ c.at \in Nat
          /\ c.tries[x] <= 1 + HooksAhead(c, x)
          /\ c.tries[x] > 0 => c.tries[x] <= c.at - Place(c, x) + HooksAhead(c, x)
      BY <1>8, <2>1 DEF CallInv, CallShape, Bounded
    <3>2. /\ HooksAhead(c, x) \in Nat /\ Place(c, x) \in Nat
          /\ HooksAhead(c, x)' = HooksAhead(c, x) \/ HooksAhead(c, x)' = HooksAhead(c, x) + 1
      BY <2>1, <2>3, <2>5, <2>9
    <3> QED
      BY <3>1, <3>2
  <2> QED
    BY <2>7, <2>8, <2>11, <2>12, <2>13, <2>14, <2>15 DEF CallInv
<1> QED
  BY <1>3, <1>6, <1>7, <1>8, ManagerMoves

LEMMA MoveDownKeeps ==
  ASSUME WebhookInv, MoveDown PROVE WebhookInv'
<1> DEFINE r == removing
<1>1. Shape /\ LiveOnce /\ Hole
  BY DEF WebhookInv
<1>2. /\ r # 0 /\ r < webhooks.len /\ removing' = r + 1
      /\ arrays' = [arrays EXCEPT ![webhooks.array][r] = Array[r + 1]]
      /\ webhooks' = webhooks /\ removed' = removed /\ send' = send
  BY DEF MoveDown, Array
<1>3. /\ r \in 1..webhooks.len /\ r + 1 \in 1..webhooks.len /\ r + 1 \in Live
      /\ webhooks.len \in Nat /\ webhooks.len <= Len(Array) /\ webhooks.array \in 1..Len(arrays)
      /\ Live' = (Live \union {r}) \ {r + 1}
  BY <1>1, <1>2 DEF Shape, Live
<1>4. Array[r + 1] \in Hooks
  BY <1>1, <1>3 DEF LiveOnce
<1>5. Array \in Seq(Hooks \union {Empty}) /\ r \in 1..Len(Array)
  BY <1>1, <1>3 DEF Shape, Array
<1>6. /\ arrays' \in Seq(Seq(Hooks \union {Empty})) /\ Len(arrays') = Len(arrays)
      /\ \A a \in 1..Len(arrays) :
           /\ Len(arrays'[a]) = Len(arrays[a])
           /\ \A k \in 1..Len(arrays[a]) :
                arrays'[a][k] = IF a = webhooks.array /\ k = r THEN Array[r + 1] ELSE arrays[a][k]
  <2>1. Array[r + 1] \in Hooks \union {Empty}
    BY <1>4
  <2> QED
    BY <1>1, <1>2, <1>5, <2>1, Overwritten
<1>7. /\ Array' = arrays'[webhooks.array] /\ Len(Array') = Len(Array)
      /\ \A k \in 1..webhooks.len : Array'[k] = IF k = r THEN Array[r + 1] ELSE Array[k]
  BY <1>2, <1>3, <1>5, <1>6 DEF Array
<1> HIDE DEF r
<1>8. Shape'
  BY <1>1, <1>2, <1>3, <1>6, <1>7 DEF Shape
<1>9. Live \subseteq 1..webhooks.len /\ r \notin Live
  BY DEF Live, r
<1>10. LiveOnce'
  <2> SUFFICES ASSUME NEW p \in Live'
               PROVE  /\ Array'[p] \in Hooks \ removed
                      /\ \A q \in Live' : p # q => Array'[p] # Array'[q]
    BY <1>2 DEF LiveOnce
  <2> DEFINE from(k) == IF k = r THEN r + 1 ELSE k
  <2>1. \A k \in Live' : from(k) \in Live /\ Array'[k] = Array[from(k)]
    BY <1>3, <1>7, <1>9
  <2>2. \A k \in Live' : p # k => from(p) # from(k)
    BY <1>3
  <2> HIDE DEF from
  <2> QED
    BY <1>1, <2>1, <2>2 DEF LiveOnce
<1>11. Hole'
  BY <1>2, <1>3, <1>7 DEF Hole
<1>12. ASSUME NEW c, CallInv(c) PROVE CallInv(c)'
  <2>1. /\ \A x : InFront(c, x)' = InFront(c, x) /\ HooksAhead(c, x)' = HooksAhead(c, x)
        /\ \A x : HooksAhead(c, x) \in Nat /\ (InFront(c, x) = {} => HooksAhead(c, x) = 0)
    BY <1>1, <1>2, SameRemoved, AheadIs
  <2>2. /\ c.slice.array \in 1..Len(arrays) /\ c.slice.len \in Nat
        /\ c.slice.len \in 0..Len(Walked(c))
    BY <1>12 DEF CallInv, CallShape
  <2>3. \A x : Place(c, x) \in 1..c.slice.len + 1
    BY <1>12, <2>2, PlaceIs DEF CallInv, CallShape
  <2>4. /\ Shares(c)' = Shares(c)
        /\ Extent(c)' \subseteq Extent(c) \union {r} /\ (r \in Extent(c)' => r \in Extent(c) \/ Shares(c))
        /\ Extent(c) \subseteq Nat
    BY <1>2, <1>3, <1>9, <2>2 DEF Shares, Extent
  <2>5. /\ Len(Walked(c)') = Len(Walked(c))
        /\ \A k \in 1..Len(Walked(c)) :
             Walked(c)'[k] = IF Shares(c) /\ k = r THEN Array[r + 1] ELSE Walked(c)[k]
        /\ Shares(c) => Walked(c) = Array
    BY <1>6, <2>2 DEF Walked, Shares, Array
  <2>6. \A k \in Extent(c) : k \in 1..Len(Walked(c))
    BY <1>3, <1>5, <1>9, <2>2, <2>5 DEF Extent
  <2>7. CallShape(c)'
    BY <1>2, <1>6, <1>12, <2>2, <2>5 DEF CallInv, CallShape
  <2>8. StillLive(c)'
    <3> SUFFICES ASSUME NEW h \in ToSet(c.began) \ removed PROVE \E q \in Live' : Array'[q] = h
      BY <1>2 DEF StillLive
    <3>1. PICK q \in Live : Array[q] = h
      BY <1>12 DEF CallInv, StillLive
    <3>2. CASE q = r + 1
      BY <1>3, <1>7, <3>1, <3>2
    <3>3. CASE q # r + 1
      BY <1>3, <1>7, <1>9, <3>1, <3>3
    <3> QED
      BY <3>2, <3>3
  <2>9. OrderKept(c)'
    <3> SUFFICES ASSUME Shares(c), NEW p \in Live', NEW q \in Live', p < q
                 PROVE  Place(c, Array'[p]) <= Place(c, Array'[q])
      BY <2>4 DEF OrderKept
    <3> DEFINE from(k) == IF k = r THEN r + 1 ELSE k
    <3>1. \A k \in Live' : from(k) \in Live /\ Array'[k] = Array[from(k)]
      BY <1>3, <1>7, <1>9
    <3>2. from(p) < from(q)
      BY <1>3, <1>9
    <3> HIDE DEF from
    <3> QED
      BY <1>12, <3>1, <3>2 DEF CallInv, OrderKept
  <2>10. NearPlace(c)'
    <3> SUFFICES ASSUME NEW i \in Extent(c)', Walked(c)'[i] \in Hooks
                 PROVE  /\ Place(c, Walked(c)'[i]) - HooksAhead(c, Walked(c)'[i]) <= i
                        /\ Walked(c)'[i] \in ToSet(c.began) => i <= Place(c, Walked(c)'[i])
      BY <2>1 DEF NearPlace
    <3>1. CASE Shares(c) /\ i = r
      <4>1. Walked(c)'[i] = Array[r + 1] /\ r + 1 \in Extent(c) /\ Walked(c)[r + 1] = Array[r + 1]
        BY <1>3, <1>5, <2>5, <3>1 DEF Extent
      <4>2. Place(c, Array[r + 1]) - HooksAhead(c, Array[r + 1]) < r + 1
        BY <1>2, <1>3, <1>12, <3>1 DEF CallInv, NotMoved, r
      <4>3. Array[r + 1] \in ToSet(c.began) => r + 1 <= Place(c, Array[r + 1])
        BY <1>4, <1>12, <4>1 DEF CallInv, NearPlace
      <4> QED
        BY <1>3, <2>1, <2>2, <2>3, <3>1, <4>1, <4>2, <4>3
    <3>2. CASE ~(Shares(c) /\ i = r)
      <4>1. i \in Extent(c) /\ Walked(c)'[i] = Walked(c)[i]
        BY <2>4, <2>5, <2>6, <3>2
      <4> QED
        BY <1>12, <4>1 DEF CallInv, NearPlace
    <3> QED
      BY <3>1, <3>2
  <2>11. NotMoved(c)'
    <3> SUFFICES ASSUME Shares(c), NEW q \in Live', q > r + 1
                 PROVE  Place(c, Array'[q]) - HooksAhead(c, Array'[q]) < q
      BY <1>2, <2>1, <2>4 DEF NotMoved
    <3>a. r \in Nat /\ q # r
      BY <1>3
    <3>b. q \in Live
      BY <1>3, <3>a
    <3>c. q \in 1..webhooks.len
      BY <1>9, <3>b
    <3>1. q \in Live /\ q > r /\ Array'[q] = Array[q]
      BY <1>7, <3>a, <3>b, <3>c
    <3>2. NotMoved(c) /\ removing # 0 /\ q > removing
      BY <1>2, <1>12, <3>1 DEF CallInv, r
    <3>3. Place(c, Array[q]) - HooksAhead(c, Array[q]) < q
      BY <3>1, <3>2 DEF NotMoved
    <3> QED
      BY <3>1, <3>3
  <2>12. LongEnough(c)'
    <3>1. Cardinality(removed \ c.before)' = Cardinality(removed \ c.before)
      BY <1>2
    <3> QED
      BY <1>2, <1>12, <2>4, <3>1 DEF CallInv, LongEnough, r
  <2>13. Reached(c)'
    <3> SUFFICES ASSUME NEW h \in ToSet(c.began) \ removed, InFront(c, h) = {}
                 PROVE  /\ Walked(c)'[Place(c, h)] = h
                        /\ h \in EnabledHooks /\ c.at > Place(c, h) => c.tries[h] >= 1
      BY <1>2, <2>1 DEF Reached
    <3>1. /\ Walked(c)[Place(c, h)] = h
          /\ h \in EnabledHooks /\ c.at > Place(c, h) => c.tries[h] >= 1
      BY <1>12 DEF CallInv, Reached
    <3>2. ~(Shares(c) /\ Place(c, h) = r)
      BY <1>1, <1>12, NotInHole DEF r
    <3>3. Place(c, h) \in 1..Len(Walked(c))
      <4>1. Place(c, h) <= c.slice.len
        BY <1>12, <2>2, PlaceIs DEF CallInv, CallShape
      <4> QED
        BY <2>2, <2>3, <4>1
    <3> QED
      BY <2>5, <3>1, <3>2, <3>3
  <2>14. Bounded(c)'
    BY <1>12, <2>1 DEF CallInv, Bounded
  <2> QED
    BY <2>7, <2>8, <2>9, <2>10, <2>11, <2>12, <2>13, <2>14 DEF CallInv
<1> QED
  BY <1>2, <1>8, <1>10, <1>11, <1>12, ManagerMoves

(* A new hook has no place among those the call began with. *)
LEMMA NewHook ==
  ASSUME WebhookInv, NEW h \in Hooks, removing = 0, Unused(h), NEW c, CallInv(c)
  PROVE  /\ h \notin removed /\ h \notin ToSet(c.began)
         /\ Place(c, h) = c.slice.len + 1
         /\ HooksAhead(c, h) = Cardinality(removed \ c.before)
         /\ \A a \in 1..Len(arrays) : \A k \in 1..Len(arrays[a]) : arrays[a][k] # h
<1>1. Shape
  BY DEF WebhookInv
<1>2. arrays \in Seq(Seq(Hooks \union {Empty}))
  BY <1>1 DEF Shape
<1>3. ASSUME NEW a \in 1..Len(arrays), NEW k \in 1..Len(arrays[a]) PROVE arrays[a][k] # h
  <2>1. arrays[a] \in Seq(Hooks \union {Empty}) /\ a \in DOMAIN arrays
    BY <1>2
  <2>2. arrays[a][k] \in ToSet(arrays[a])
    BY <2>1 DEF ToSet
  <2> QED
    BY <2>1, <2>2 DEF Unused
<1>4. h \notin removed
  BY DEF Unused
<1>5. h \notin ToSet(c.began)
  <2> SUFFICES ASSUME h \in ToSet(c.began) PROVE FALSE
    OBVIOUS
  <2>1. PICK q \in Live : Array[q] = h
    BY <1>4 DEF CallInv, StillLive
  <2>2. webhooks.array \in 1..Len(arrays) /\ q \in 1..Len(arrays[webhooks.array])
    BY <1>1 DEF Shape, Live, Array
  <2> QED
    BY <1>3, <2>1, <2>2 DEF Array
<1>6. /\ c.slice.len \in Nat /\ Place(c, h) = c.slice.len + 1
      /\ \A x : Place(c, x) \in 1..c.slice.len + 1
  <2>1. c.slice.len \in Nat /\ c.began \in [1..c.slice.len -> Hooks] /\ IsInjective(c.began)
    BY DEF CallInv, CallShape
  <2> QED
    BY <1>5, <2>1, PlaceIs
<1>7. InFront(c, h) = removed \ c.before
  BY <1>4, <1>6 DEF InFront
<1> QED
  BY <1>3, <1>4, <1>5, <1>6, <1>7 DEF HooksAhead

LEMMA AddInPlaceKeeps ==
  ASSUME WebhookInv, NEW h \in Hooks, removing = 0, Unused(h),
         webhooks.len < Len(Array),
         arrays' = [arrays EXCEPT ![webhooks.array][webhooks.len + 1] = h],
         webhooks' = [webhooks EXCEPT !.len = @ + 1],
         UNCHANGED <<removing, removed, send>>
  PROVE  WebhookInv'
<1> DEFINE n == webhooks.len
<1>1. Shape /\ LiveOnce /\ Hole /\ removing' = 0 /\ removed' = removed /\ send' = send
  BY DEF WebhookInv
<1>2. /\ webhooks \in [array : 1..Len(arrays), len : Nat] /\ n \in Nat /\ webhooks.array \in 1..Len(arrays)
      /\ arrays \in Seq(Seq(Hooks \union {Empty}))
  BY <1>1 DEF Shape
<1>3. Array \in Seq(Hooks \union {Empty}) /\ n + 1 \in 1..Len(Array)
  BY <1>2 DEF Array
<1>4. /\ webhooks'.array = webhooks.array /\ webhooks'.len = n + 1
      /\ webhooks' \in [array : 1..Len(arrays), len : Nat]
  BY <1>2
<1>5. /\ arrays' \in Seq(Seq(Hooks \union {Empty})) /\ Len(arrays') = Len(arrays)
      /\ \A a \in 1..Len(arrays) :
           /\ Len(arrays'[a]) = Len(arrays[a])
           /\ \A k \in 1..Len(arrays[a]) :
                arrays'[a][k] = IF a = webhooks.array /\ k = n + 1 THEN h ELSE arrays[a][k]
  <2>1. h \in Hooks \union {Empty}
    OBVIOUS
  <2> QED
    BY <1>1, <1>3, <2>1, Overwritten
<1>6. /\ Array' = arrays'[webhooks.array] /\ Len(Array') = Len(Array)
      /\ \A k \in 1..n : Array'[k] = Array[k]
      /\ Array'[n + 1] = h
  BY <1>2, <1>3, <1>4, <1>5 DEF Array
<1>7. Live = 1..n /\ Live' = 1..n + 1 /\ Live' = Live \union {n + 1}
  BY <1>1, <1>2, <1>4 DEF Live
<1> HIDE DEF n
<1>8. Shape'
  BY <1>1, <1>3, <1>4, <1>5, <1>6 DEF Shape
<1>9. h \notin removed /\ \A p \in Live : Array[p] # h
  <2>1. \A p \in Live : p \in DOMAIN Array
    BY <1>2, <1>3, <1>7
  <2>2. webhooks.array \in DOMAIN arrays
    BY <1>2
  <2> QED
    BY <2>1, <2>2 DEF Unused, ToSet, Array
<1>10. LiveOnce'
  <2>1. \A p \in Live : Array'[p] = Array[p] /\ p # n + 1
    BY <1>2, <1>6, <1>7
  <2>2. h \in Hooks \ removed' /\ Array'[n + 1] = h
    BY <1>1, <1>6, <1>9
  <2> QED
    BY <1>1, <1>7, <1>9, <2>1, <2>2 DEF LiveOnce
<1>11. Hole'
  BY <1>1 DEF Hole
<1>12. ASSUME NEW c, CallInv(c) PROVE CallInv(c)'
  <2>1. /\ \A x : InFront(c, x)' = InFront(c, x) /\ HooksAhead(c, x)' = HooksAhead(c, x)
        /\ \A x : HooksAhead(c, x) \in Nat /\ (InFront(c, x) = {} => HooksAhead(c, x) = 0)
    BY <1>1, SameRemoved, AheadIs
  <2>2. /\ c.slice.array \in 1..Len(arrays) /\ c.slice.len \in Nat
        /\ c.slice.len \in 0..Len(Walked(c))
    BY <1>12 DEF CallInv, CallShape
  <2>3. /\ \A x : Place(c, x) \in 1..c.slice.len + 1
        /\ \A x \in ToSet(c.began) : Place(c, x) <= c.slice.len
    BY <1>12, <2>2, PlaceIs DEF CallInv, CallShape
  <2>4. /\ h \notin ToSet(c.began) /\ Place(c, h) = c.slice.len + 1
        /\ HooksAhead(c, h) = Cardinality(removed \ c.before)
    BY <1>12, NewHook
  <2>5. /\ Shares(c)' = Shares(c)
        /\ Extent(c)' \subseteq Extent(c) \union {n + 1} /\ (n + 1 \in Extent(c)' => n + 1 \in Extent(c) \/ Shares(c))
        /\ Live \subseteq Extent(c) \/ ~Shares(c)
    BY <1>4, <1>7 DEF Shares, Extent
  <2>6. /\ Len(Walked(c)') = Len(Walked(c))
        /\ \A k \in 1..Len(Walked(c)) :
             Walked(c)'[k] = IF Shares(c) /\ k = n + 1 THEN h ELSE Walked(c)[k]
        /\ Shares(c) => Walked(c) = Array
    BY <1>5, <2>2 DEF Walked, Shares, Array
  <2>7. \A k \in Extent(c) : k \in 1..Len(Walked(c))
    BY <1>2, <1>3, <1>7, <2>2, <2>6 DEF Extent
  <2>8. CallShape(c)'
    BY <1>1, <1>5, <1>12, <2>2, <2>6 DEF CallInv, CallShape
  <2>9. StillLive(c)'
    BY <1>1, <1>6, <1>7, <1>12 DEF CallInv, StillLive
  <2>10. OrderKept(c)'
    <3> SUFFICES ASSUME Shares(c), NEW p \in Live', NEW q \in Live', p < q
                 PROVE  Place(c, Array'[p]) <= Place(c, Array'[q])
      BY <2>5 DEF OrderKept
    <3>1. CASE q = n + 1
      BY <1>6, <2>2, <2>3, <2>4, <3>1
    <3>2. CASE q # n + 1
      <4>1. p \in Live /\ q \in Live /\ Array'[p] = Array[p] /\ Array'[q] = Array[q]
        BY <1>2, <1>6, <1>7, <3>2
      <4> QED
        BY <1>12, <4>1 DEF CallInv, OrderKept
    <3> QED
      BY <3>1, <3>2
  <2>11. NearPlace(c)'
    <3> SUFFICES ASSUME NEW i \in Extent(c)', Walked(c)'[i] \in Hooks
                 PROVE  /\ Place(c, Walked(c)'[i]) - HooksAhead(c, Walked(c)'[i]) <= i
                        /\ Walked(c)'[i] \in ToSet(c.began) => i <= Place(c, Walked(c)'[i])
      BY <2>1 DEF NearPlace
    <3>1. CASE Shares(c) /\ i = n + 1
      <4>1. Walked(c)'[i] = h
        BY <1>3, <2>6, <3>1
      <4>2. n + Cardinality(removed \ c.before) >= c.slice.len
        BY <1>12, <3>1 DEF CallInv, LongEnough, n
      <4>3. Place(c, h) - HooksAhead(c, h) <= i
        <5>1. HooksAhead(c, h) = Cardinality(removed \ c.before) /\ HooksAhead(c, h) \in Nat
          BY <2>1, <2>4
        <5>2. Place(c, h) = c.slice.len + 1 /\ c.slice.len \in Nat /\ i = n + 1 /\ n \in Nat
          BY <1>2, <2>2, <2>4, <3>1
        <5> QED
          BY <4>2, <5>1, <5>2
      <4> QED
        BY <2>4, <4>1, <4>3
    <3>2. CASE ~(Shares(c) /\ i = n + 1)
      <4>1. i \in Extent(c) /\ Walked(c)'[i] = Walked(c)[i]
        BY <2>5, <2>6, <2>7, <3>2
      <4> QED
        BY <1>12, <4>1 DEF CallInv, NearPlace
    <3> QED
      BY <3>1, <3>2
  <2>12. NotMoved(c)'
    BY <1>1 DEF NotMoved
  <2>13. LongEnough(c)'
    <3>1. Cardinality(removed \ c.before)' = Cardinality(removed \ c.before)
      BY <1>1
    <3>2. Shares(c) => n + Cardinality(removed \ c.before) >= c.slice.len
      BY <1>12 DEF CallInv, LongEnough, n
    <3>3. Cardinality(removed \ c.before) \in Nat
      BY <2>1, <2>4
    <3> SUFFICES ASSUME Shares(c)
                 PROVE  webhooks'.len + Cardinality(removed \ c.before) >= c.slice.len
      BY <1>1, <2>5, <3>1 DEF LongEnough
    <3>4. n \in Nat /\ webhooks'.len = n + 1 /\ c.slice.len \in Nat
      BY <1>2, <1>4, <2>2
    <3>5. n + Cardinality(removed \ c.before) >= c.slice.len
      BY <3>2
    <3> QED
      BY <3>3, <3>4, <3>5
  <2>14. Reached(c)'
    <3> SUFFICES ASSUME NEW x \in ToSet(c.began) \ removed, InFront(c, x) = {}
                 PROVE  /\ Walked(c)'[Place(c, x)] = x
                        /\ x \in EnabledHooks /\ c.at > Place(c, x) => c.tries[x] >= 1
      BY <1>1, <2>1 DEF Reached
    <3>1. /\ Walked(c)[Place(c, x)] = x
          /\ x \in EnabledHooks /\ c.at > Place(c, x) => c.tries[x] >= 1
      BY <1>12 DEF CallInv, Reached
    <3>2. ASSUME Shares(c) PROVE Place(c, x) # n + 1
      <4>1. PICK q \in Live : Array[q] = x
        BY <1>12 DEF CallInv, StillLive
      <4>2. q \in Extent(c) /\ Walked(c)[q] = x /\ x \in Hooks
        BY <1>1, <2>5, <2>6, <3>2, <4>1 DEF LiveOnce
      <4>3. Place(c, x) - 0 <= q /\ q <= Place(c, x)
        BY <1>12, <2>1, <4>2 DEF CallInv, NearPlace
      <4> QED
        BY <1>2, <1>7, <2>2, <2>3, <4>3
    <3>3. Place(c, x) \in 1..Len(Walked(c))
      BY <2>2, <2>3
    <3> QED
      BY <2>6, <3>1, <3>2, <3>3
  <2>15. Bounded(c)'
    BY <1>12, <2>1 DEF CallInv, Bounded
  <2> QED
    BY <2>8, <2>9, <2>10, <2>11, <2>12, <2>13, <2>14, <2>15 DEF CallInv
<1> QED
  BY <1>1, <1>8, <1>10, <1>11, <1>12, ManagerMoves

LEMMA AddElsewhereKeeps ==
  ASSUME WebhookInv, NEW h \in Hooks, removing = 0, Unused(h),
         webhooks.len = Len(Array), NEW room \in webhooks.len + 1..Capacity,
         arrays' = Append(arrays, [i \in 1..room |->
                     IF i <= webhooks.len THEN Array[i]
                     ELSE IF i = webhooks.len + 1 THEN h ELSE Empty]),
         webhooks' = [array |-> Len(arrays) + 1, len |-> webhooks.len + 1],
         UNCHANGED <<removing, removed, send>>
  PROVE  WebhookInv'
<1> DEFINE n == webhooks.len
           new == [i \in 1..room |-> IF i <= n THEN Array[i] ELSE IF i = n + 1 THEN h ELSE Empty]
<1>1. Shape /\ LiveOnce /\ Hole /\ removing' = 0 /\ removed' = removed /\ send' = send
  BY DEF WebhookInv
<1>2. /\ n \in Nat /\ webhooks.array \in 1..Len(arrays) /\ arrays \in Seq(Seq(Hooks \union {Empty}))
      /\ Len(arrays) \in Nat
  BY <1>1 DEF Shape
<1>3. room \in Nat /\ room >= n + 1
  BY <1>2, HooksAssumption, FS_CardinalityType DEF Capacity
<1>4. Array \in Seq(Hooks \union {Empty})
  BY <1>2 DEF Array
<1>5. /\ new \in Seq(Hooks \union {Empty}) /\ Len(new) = room
      /\ \A k \in 1..n : new[k] = Array[k]
      /\ new[n + 1] = h
  <2>1. \A k \in 1..n : Array[k] \in Hooks \union {Empty}
    BY <1>2, <1>4
  <2>2. new \in [1..room -> Hooks \union {Empty}]
    BY <1>2, <1>3, <2>1
  <2> QED
    BY <1>2, <1>3, <2>2
<1>6. arrays' = Append(arrays, new) /\ webhooks' = [array |-> Len(arrays) + 1, len |-> n + 1]
  OBVIOUS
<1> HIDE DEF new
<1>7. /\ arrays' \in Seq(Seq(Hooks \union {Empty})) /\ Len(arrays') = Len(arrays) + 1
      /\ \A a \in 1..Len(arrays) : arrays'[a] = arrays[a]
      /\ arrays'[Len(arrays) + 1] = new
  BY <1>2, <1>5, <1>6
<1>8. Array' = new
  BY <1>6, <1>7 DEF Array
<1>9. /\ Live = 1..n /\ Live' = 1..n + 1 /\ Live' = Live \union {n + 1}
      /\ \A p \in Live : Array'[p] = Array[p] /\ p # n + 1
      /\ Array'[n + 1] = h
  BY <1>1, <1>2, <1>5, <1>6, <1>8 DEF Live
<1> HIDE DEF n
<1>10. Shape'
  BY <1>1, <1>2, <1>3, <1>5, <1>6, <1>7, <1>8 DEF Shape
<1>11. h \notin removed /\ \A p \in Live : Array[p] # h
  <2>1. \A p \in Live : p \in DOMAIN Array
    BY <1>2, <1>4, <1>9 DEF n
  <2>2. webhooks.array \in DOMAIN arrays
    BY <1>2
  <2> QED
    BY <2>1, <2>2 DEF Unused, ToSet, Array
<1>12. LiveOnce'
  BY <1>1, <1>9, <1>11 DEF LiveOnce
<1>13. Hole'
  BY <1>1 DEF Hole
<1>14. ASSUME NEW c, CallInv(c) PROVE CallInv(c)'
  <2>1. /\ \A x : InFront(c, x)' = InFront(c, x) /\ HooksAhead(c, x)' = HooksAhead(c, x)
    BY <1>1, SameRemoved
  <2>2. c.slice.array \in 1..Len(arrays)
    BY <1>14 DEF CallInv, CallShape
  <2>3. /\ ~Shares(c)' /\ Walked(c)' = Walked(c)
        /\ Extent(c)' \subseteq Extent(c)
    BY <1>2, <1>6, <1>7, <2>2 DEF Shares, Walked, Extent
  <2>4. CallShape(c)'
    <3>1. CallShape(c)
      BY <1>14 DEF CallInv
    <3>2. c.slice.array \in 1..Len(arrays')
      BY <1>2, <1>7, <2>2
    <3>3. c.before \subseteq removed'
      BY <1>1, <3>1 DEF CallShape
    <3> QED
      BY <2>3, <3>1, <3>2, <3>3 DEF CallShape
  <2>5. StillLive(c)'
    BY <1>1, <1>9, <1>14 DEF CallInv, StillLive
  <2>6. OrderKept(c)' /\ NotMoved(c)' /\ LongEnough(c)'
    BY <2>3 DEF OrderKept, NotMoved, LongEnough
  <2>7. NearPlace(c)' /\ Reached(c)' /\ Bounded(c)'
    BY <1>1, <1>14, <2>1, <2>3 DEF CallInv, NearPlace, Reached, Bounded
  <2> QED
    BY <2>4, <2>5, <2>6, <2>7 DEF CallInv
<1> QED
  BY <1>1, <1>10, <1>12, <1>13, <1>14, ManagerMoves

LEMMA WebhookKeeps == WebhookInv /\ [WebhookNext]_webhookVars => WebhookInv'
<1> SUFFICES ASSUME WebhookInv, [WebhookNext]_webhookVars PROVE WebhookInv'
  OBVIOUS
<1>1. ASSUME NEW h \in Hooks, AddWebhook(h) PROVE WebhookInv'
  <2>1. removing = 0 /\ Unused(h) /\ UNCHANGED <<removing, removed, send>>
    BY <1>1 DEF AddWebhook
  <2>2. CASE /\ webhooks.len < Len(Array)
             /\ arrays' = [arrays EXCEPT ![webhooks.array][webhooks.len + 1] = h]
             /\ webhooks' = [webhooks EXCEPT !.len = @ + 1]
    BY <2>1, <2>2, AddInPlaceKeeps
  <2>3. CASE /\ webhooks.len = Len(Array)
             /\ \E room \in webhooks.len + 1..Capacity :
                  arrays' = Append(arrays, [i \in 1..room |->
                              IF i <= webhooks.len THEN Array[i]
                              ELSE IF i = webhooks.len + 1 THEN h ELSE Empty])
             /\ webhooks' = [array |-> Len(arrays) + 1, len |-> webhooks.len + 1]
    BY <2>1, <2>3, AddElsewhereKeeps
  <2> QED
    BY <1>1, <2>2, <2>3 DEF AddWebhook, Array
<1>2. CASE UNCHANGED webhookVars
  <2>1. UNCHANGED <<arrays, webhooks, removing, removed>> /\ send' = send
    BY <1>2 DEF webhookVars
  <2>2. Shape'
    BY <2>1 DEF WebhookInv, Shape, Array
  <2> QED
    BY <2>1, <2>2, ManagerUnchanged, ManagerMoves DEF WebhookInv
<1> QED
  BY <1>1, <1>2, RemoveWebhookKeeps, MoveDownKeeps, RemoveEndsKeeps, SendBeginsKeeps, SendNextKeeps,
     SendReturnsKeeps DEF WebhookNext

(* For any hooks, senders and arrays, and whatever is added and removed while they
   walk: a call reaches each enabled hook that stays exactly once, unless a hook
   in front of it has been removed, and meets none oftener than those removals
   move it (webhook.go, Send, AddWebhook and RemoveWebhook). *)
THEOREM SendReachesThem == WebhookSpec => []SendReachesAll
<1>1. WebhookInv => SendReachesAll
  <2> SUFFICES ASSUME WebhookInv, NEW s \in Senders, send[s].pc = "returned", NEW h \in EnabledHooks
               PROVE  /\ send[s].tries[h] <= 1 + Cardinality(InFront(send[s], h))
                      /\ h \in ToSet(send[s].began) \ removed /\ InFront(send[s], h) = {}
                           => send[s].tries[h] = 1
    BY DEF SendReachesAll
  <2> DEFINE c == send[s]
  <2>1. CallInv(c) /\ Shape /\ h \in Hooks
    BY HooksAssumption DEF WebhookInv
  <2>2. c.slice.len \in Nat /\ c.at > c.slice.len /\ c.at \in Nat /\ c.tries[h] \in Nat
    BY <2>1 DEF CallInv, CallShape
  <2>3. c.tries[h] <= 1 + HooksAhead(c, h)
    BY <2>1 DEF CallInv, Bounded
  <2>4. ASSUME h \in ToSet(c.began) \ removed, InFront(c, h) = {} PROVE c.tries[h] = 1
    <3>1. Place(c, h) \in Nat /\ Place(c, h) <= c.slice.len
      <4>1. c.began \in [1..c.slice.len -> Hooks] /\ IsInjective(c.began)
        BY <2>1 DEF CallInv, CallShape
      <4> HIDE DEF c
      <4>2. /\ \A x : Place(c, x) \in 1..c.slice.len + 1
            /\ \A x \in ToSet(c.began) : Place(c, x) <= c.slice.len
        BY <2>2, <4>1, PlaceIs
      <4> QED
        BY <2>2, <2>4, <4>2
    <3>2. c.tries[h] >= 1
      BY <2>1, <2>2, <2>4, <3>1 DEF CallInv, Reached
    <3>3. HooksAhead(c, h) = 0
      BY <2>1, <2>4, AheadIs
    <3> QED
      BY <2>2, <2>3, <3>2, <3>3
  <2> QED
    BY <2>3, <2>4 DEF HooksAhead
<1> QED
  BY <1>1, WebhookStarts, WebhookKeeps, PTL DEF WebhookSpec
=============================================================================
