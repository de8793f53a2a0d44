-------------------------- MODULE ComponentsProofs --------------------------
(***************************************************************************)
(* Proofs about the composition of the components that share no state:     *)
(* what it does to each of them, that component does on its own, so that   *)
(* the theorems about the components hold in the composition too.          *)
(***************************************************************************)
EXTENDS MCComponents, FilesProofs, PlatformProofs, DetectionProofs

-----------------------------------------------------------------------------
LEMMA BeginsEveryComponent ==
  ASSUME ComponentsInit
  PROVE  /\ CertFilesInit /\ ManagerInit /\ PullInit /\ LensInit
         /\ WebhookInit /\ HookFileInit /\ ServerInit /\ EncInit
         /\ SearchInit /\ PIDInit /\ ModelInit /\ CacheInit
         /\ DriftInit /\ GuardInit /\ RedactionInit /\ NormalizeInit
         /\ DetectorInit
BY DEF ComponentsInit

(* In a step of the composition each component takes a step of its own, or none. *)
LEMMA StepsOfComponents ==
  ASSUME [ComponentsNext]_allVars
  PROVE  /\ [CertFilesNext]_certFileVars /\ [ManagerNext]_managerVars /\ [PullNext]_pullVars
         /\ [LensNext]_lensVars /\ [WebhookNext]_webhookVars /\ [HookFileNext]_hookFileVars
         /\ [ServerNext]_serverVars /\ [EncNext]_encVars /\ [SearchNext]_searchVars
         /\ [PIDNext]_pidVars /\ [ModelNext]_modelVars /\ [CacheNext]_cacheVars
         /\ [DriftNext]_driftVars /\ [GuardNext]_guardVars /\ [RedactionNext]_redactionVars
         /\ [NormalizeNext]_normalizeVars /\ [DetectorNext]_detectorVars
BY DEF ComponentsNext, Others, allVars

(* The components share no variable, so that a behaviour of their composition is, for each
   of them, a behaviour of that component: the one that runs takes its steps, and the
   others stutter. *)
THEOREM RunsEveryComponent ==
  ComponentsSpec =>
    /\ CertFilesSpec /\ ManagerSpec /\ PullSpec /\ LensSpec
    /\ WebhookSpec /\ HookFileSpec /\ ServerSpec /\ EncSpec
    /\ SearchSpec /\ PIDSpec /\ ModelSpec /\ CacheSpec
    /\ DriftSpec /\ GuardSpec /\ RedactionSpec /\ NormalizeSpec
    /\ DetectorSpec
BY BeginsEveryComponent, StepsOfComponents, PTL
   DEF ComponentsSpec, CertFilesSpec, ManagerSpec, PullSpec, LensSpec, WebhookSpec,
       HookFileSpec, ServerSpec, EncSpec, SearchSpec, PIDSpec, ModelSpec,
       CacheSpec, DriftSpec, GuardSpec, RedactionSpec, NormalizeSpec, DetectorSpec

-----------------------------------------------------------------------------
(*************************************************************************)
(* The types.  Nine of the components have their type invariant in the   *)
(* invariant their theorems rest on; what follows is that of the others. *)
(*************************************************************************)

(* HookFile *)

LEMMA HookFileTypes == HookFileSpec => []HookFileTypeOK
<1>1. HookFileInit => HookFileTypeOK
  BY HookFileStarts DEF HookFileInv, CommandsTyped, FileTyped, HookFileInit, HookFileTypeOK
<1>2. HookFileInv /\ HookFileTypeOK /\ [HookFileNext]_hookFileVars => HookFileTypeOK'
  <2> SUFFICES ASSUME HookFileInv, HookFileTypeOK, [HookFileNext]_hookFileVars
               PROVE  HookFileTypeOK'
    OBVIOUS
  <2>1. CommandsTyped' /\ FileTyped'
    BY HookFileKeeps DEF HookFileInv
  <2>2. /\ readable' \in BOOLEAN /\ intended' \in Contents
        /\ overlapped' \in BOOLEAN /\ killed' \in BOOLEAN
    <3>1. ASSUME NEW c \in Commands, Saves(c)
          PROVE  /\ readable' \in BOOLEAN /\ intended' \in Contents
                 /\ overlapped' \in BOOLEAN /\ killed' \in BOOLEAN
      <4>1. command[c].op \in Ops /\ command[c].hook \in HookIDs /\ intended \in Contents
        BY DEF HookFileTypeOK
      <4>2. EditConfig(intended, command[c].op, command[c].hook) \in Contents
        BY <4>1 DEF EditConfig, Ops, Contents, States
      <4> QED
        BY <3>1, <4>2 DEF Saves, HookFileTypeOK
    <3>2. ASSUME NEW c \in Commands, NEW op \in Ops, NEW h \in HookIDs, LoadConfig(c, op, h)
          PROVE  /\ readable' \in BOOLEAN /\ intended' \in Contents
                 /\ overlapped' \in BOOLEAN /\ killed' \in BOOLEAN
      BY <3>2 DEF LoadConfig, HookFileTypeOK
    <3>3. ASSUME NEW c \in Commands, LoadFails(c) \/ Empties(c) \/ Killed(c)
          PROVE  /\ readable' \in BOOLEAN /\ intended' \in Contents
                 /\ overlapped' \in BOOLEAN /\ killed' \in BOOLEAN
      BY <3>3 DEF LoadFails, Empties, Killed, HookFileTypeOK
    <3>4. CASE UNCHANGED hookFileVars
      BY <3>4 DEF hookFileVars, HookFileTypeOK
    <3> QED
      BY <3>1, <3>2, <3>3, <3>4 DEF HookFileNext
  <2> QED
    BY <2>1, <2>2 DEF CommandsTyped, FileTyped, HookFileTypeOK
<1> QED
  BY <1>1, <1>2, HookFileStarts, HookFileKeeps, PTL DEF HookFileSpec

-----------------------------------------------------------------------------
(* DaemonPID: of the daemons one at most has the port. *)

OnePort == port = {} \/ \E d \in Daemons : port = {d}

LEMMA PIDTypes == PIDSpec => []PIDTypeOK
<1> DEFINE Typed == /\ pidFile \in PIDs \union {Missing, Partial}
                    /\ others \subseteq PIDs
                    /\ OnePort
                    /\ raced \in BOOLEAN
<1>1. PIDInit => Typed
  BY DEF PIDInit, OnePort
<1>2. PIDInv /\ Typed /\ [PIDNext]_pidVars => Typed'
  <2> SUFFICES ASSUME PIDInv, Typed, [PIDNext]_pidVars PROVE Typed'
    OBVIOUS
  <2>1. \A d \in Daemons : daemon[d].pc = "open" => daemon[d].pid \in PIDs
    BY DEF PIDInv, HavePIDs, Alive, Claiming
  <2>2. ASSUME NEW d \in Daemons,
               Launch(d) \/ NotRunning(d) \/ AlreadyRunning(d) \/ OpenPID(d)
        PROVE  Typed'
    BY <2>2 DEF Launch, NotRunning, AlreadyRunning, Refuse, RefuseAndLeave, OpenPID, OnePort
  <2>3. ASSUME NEW d \in Daemons, WritePID(d) PROVE Typed'
    BY <2>1, <2>3 DEF WritePID, OnePort
  <2>4. ASSUME NEW d \in Daemons,
               WritePIDFails(d) \/ NewProxy(d) \/ RemovePID(d) \/ Ends(d)
        PROVE  Typed'
    BY <2>4 DEF WritePIDFails, NewProxy, RemovePID, Ends, OnePort
  <2>5. ASSUME NEW p \in PIDs, OtherStarts(p) \/ OtherEnds(p) PROVE Typed'
    BY <2>5 DEF OtherStarts, OtherEnds, OnePort
  <2>6. CASE UNCHANGED pidVars
    BY <2>6 DEF pidVars, OnePort
  <2> QED
    BY <2>2, <2>3, <2>4, <2>5, <2>6 DEF PIDNext
<1>3. PIDInv /\ Typed => PIDTypeOK
  <2> SUFFICES ASSUME PIDInv, Typed PROVE PIDTypeOK
    OBVIOUS
  <2>1. CASE port = {}
    BY <2>1, FS_EmptySet DEF PIDInv, DaemonsTyped, PIDTypeOK, Alive, Claiming
  <2>2. ASSUME NEW d \in Daemons, port = {d} PROVE PIDTypeOK
    <3>1. Cardinality({d}) = 1
      BY FS_Singleton
    <3>2. port \subseteq Daemons /\ Cardinality(port) <= 1
      BY <2>2, <3>1
    <3> QED
      BY <3>2 DEF PIDInv, DaemonsTyped, PIDTypeOK, Alive, Claiming
  <2> QED
    BY <2>1, <2>2 DEF OnePort
<1> HIDE DEF Typed
<1> QED
  BY <1>1, <1>2, <1>3, PIDStarts, PIDKeeps, PTL DEF PIDSpec

-----------------------------------------------------------------------------
(* AuditSearch: a page that is followed by another ends inside the file, so that the
   offset never passes the lines there have been. *)

LEMMA FoundFewer ==
  ASSUME NEW lines \in Seq(LogLine)
  PROVE  /\ Len(Found(lines)) \in Nat /\ Len(Found(lines)) <= Len(lines)
         /\ Len(QueryMatches(lines)) \in Nat /\ Len(QueryMatches(lines)) <= Len(lines)
<1> DEFINE first == Before(lines, {"long"})
<1>1. PICK n \in 0..Len(lines) : first = SubSeq(lines, 1, n)
  BY BeforeIsPrefix
<1>2. Len(lines) \in Nat
  BY LenProperties
<1>3. first \in Seq(LogLine) /\ Len(first) = n
  BY <1>1, <1>2, SubSeqProperties
<1> HIDE DEF first
<1>4. QueryMatches(first) \in Seq(LogLine) /\ Len(QueryMatches(first)) <= Len(first)
  BY <1>3, SelectType DEF QueryMatches
<1>5. QueryMatches(lines) \in Seq(LogLine) /\ Len(QueryMatches(lines)) <= Len(lines)
  BY SelectType DEF QueryMatches
<1>6. Found(lines) = QueryMatches(first)
  BY DEF Found, first
<1> QED
  BY <1>1, <1>2, <1>3, <1>4, <1>5, <1>6, LenProperties

SearchBounds ==
  /\ Len(log) <= appended
  /\ offset <= MaxEntries
  /\ rotated \in BOOLEAN
  /\ matches \in 0..MaxEntries

LEMMA SearchTypes == SearchSpec => []SearchTypeOK
<1>1. SearchInit => SearchBounds
  <2> SUFFICES ASSUME SearchInit PROVE SearchBounds
    OBVIOUS
  <2>1. Len(log) = 0 /\ appended = 0 /\ offset = 0 /\ rotated \in BOOLEAN /\ matches = 0
    BY DEF SearchInit
  <2>2. MaxEntries \in Nat
    BY LimitAssumption
  <2> QED
    BY <2>1, <2>2 DEF SearchBounds
<1>2. SearchInv /\ SearchBounds /\ [SearchNext]_searchVars => SearchBounds'
  <2> SUFFICES ASSUME SearchInv, SearchBounds, [SearchNext]_searchVars PROVE SearchBounds'
    OBVIOUS
  <2>0. /\ log \in Seq(LogLine) /\ Len(log) \in Nat /\ appended \in 0..MaxEntries /\ offset \in Nat
        /\ MaxEntries \in Nat /\ Limit \in Nat /\ Len(log) <= appended /\ offset <= MaxEntries
        /\ rotated \in BOOLEAN /\ matches \in 0..MaxEntries
    BY LenProperties, LimitAssumption DEF SearchInv, SearchSequences, SearchBounds
  <2>1. ASSUME NEW kind \in LineKinds, AppendLine(kind) PROVE SearchBounds'
    <3> DEFINE line == [id |-> appended + 1, kind |-> kind]
    <3>1. line \in LogLine /\ log' = Append(log, line)
      BY <2>0, <2>1 DEF AppendLine, LogLine
    <3> HIDE DEF line
    <3>2. Len(log') = Len(log) + 1
      BY <2>0, <3>1, AppendProperties
    <3> QED
      BY <2>0, <2>1, <3>2 DEF AppendLine, SearchBounds
  <2>2. CASE RotateLog
    <3>1. Len(log') = 0 /\ UNCHANGED <<appended, offset, matches>> /\ rotated' \in BOOLEAN
      BY <2>2 DEF RotateLog
    <3> QED
      BY <2>0, <3>1 DEF SearchBounds
  <2>3. CASE RunSearch
    <3>1. /\ UNCHANGED <<log, appended, rotated>> /\ matches' = Len(QueryMatches(log))
          /\ \/ Len(Found(log)) > offset + Limit /\ offset' = offset + Limit
             \/ offset' = offset
      BY <2>3 DEF RunSearch, HasMore, Advanced, NextOffset
    <3> QED
      BY <2>0, <3>1, FoundFewer DEF SearchBounds
  <2>4. CASE SearchFails
    BY <2>0, <2>4 DEF SearchFails, SearchBounds
  <2>5. CASE UNCHANGED searchVars
    BY <2>0, <2>5 DEF searchVars, SearchBounds
  <2> QED
    BY <2>1, <2>2, <2>3, <2>4, <2>5 DEF SearchNext
<1>3. SearchInv /\ SearchBounds => SearchTypeOK
  BY LimitAssumption DEF SearchInv, SearchSequences, SearchBounds, SearchTypeOK
<1> QED
  BY <1>1, <1>2, <1>3, SearchStarts, SearchKeeps, PTL DEF SearchSpec

-----------------------------------------------------------------------------
(* ScoreCache: the uses that are still to come belong to calls under way, and no call
   begins when there have been MaxUses. *)

IdleWorkers == {w \in Workers : worker[w].pc = "idle"}

CacheBounds ==
  /\ items \in [Keys -> 0..MaxVariants]
  /\ variantSets \in 1..MaxVariants
  /\ worker \in [Workers -> [pc : {"idle", "miss", "put"}, key : Keys, score : 0..MaxVariants]]
  /\ uses \in Seq(Keys) /\ Len(uses) <= MaxUses + Cardinality(IdleWorkers)

LEMMA IdleFinite ==
  /\ IsFiniteSet(IdleWorkers) /\ Cardinality(IdleWorkers) \in Nat
  /\ Cardinality(IdleWorkers) <= Cardinality(Workers) /\ Cardinality(Workers) \in Nat
<1>1. IdleWorkers \subseteq Workers
  BY DEF IdleWorkers
<1> QED
  BY <1>1, FS_Subset, FS_CardinalityType, CapacityAssumption

LEMMA OneUseMore ==
  ASSUME uses \in Seq(Keys), NEW k \in Keys
  PROVE  <<k>> \o uses \in Seq(Keys) /\ Len(<<k>> \o uses) = Len(uses) + 1 /\ Len(uses) \in Nat
<1>1. <<k>> \in Seq(Keys) /\ Len(<<k>>) = 1
  OBVIOUS
<1> QED
  BY <1>1, ConcatProperties, LenProperties

LEMMA CacheTypes == CacheSpec => []CacheTypeOK
<1>0. /\ MaxVariants \in Nat \ {0} /\ MaxUses \in Nat
      /\ NoCall.key \in Keys /\ NoCall.pc = "idle" /\ NoCall.score = 0
      /\ NoCall \in [pc : {"idle", "miss", "put"}, key : Keys, score : 0..MaxVariants]
  BY CapacityAssumption DEF NoCall
<1>1. CacheInit => CacheBounds
  <2> SUFFICES ASSUME CacheInit PROVE CacheBounds
    OBVIOUS
  <2>1. uses \in Seq(Keys) /\ Len(uses) = 0
    BY DEF CacheInit
  <2> QED
    BY <1>0, <2>1, IdleFinite DEF CacheInit, CacheBounds
<1>2. CacheInv /\ CacheBounds /\ [CacheNext]_cacheVars => CacheBounds'
  <2> SUFFICES ASSUME CacheBounds, [CacheNext]_cacheVars PROVE CacheBounds'
    OBVIOUS
  <2>0. /\ items \in [Keys -> 0..MaxVariants] /\ variantSets \in 1..MaxVariants
        /\ worker \in [Workers -> [pc : {"idle", "miss", "put"}, key : Keys, score : 0..MaxVariants]]
        /\ uses \in Seq(Keys) /\ Len(uses) \in Nat
        /\ Len(uses) <= MaxUses + Cardinality(IdleWorkers)
    BY LenProperties DEF CacheBounds
  <2>1. ASSUME NEW w \in Workers, NEW k \in Keys, Hit(w, k) PROVE CacheBounds'
    <3>1. IdleWorkers' = IdleWorkers
      BY <2>1 DEF Hit, IdleWorkers
    <3> QED
      BY <1>0, <2>0, <2>1, <3>1, OneUseMore, IdleFinite DEF Hit, CacheBounds
  <2>2. ASSUME NEW w \in Workers, NEW k \in Keys, Miss(w, k) PROVE CacheBounds'
    <3>1. IdleWorkers' \subseteq IdleWorkers
      BY <2>0, <2>2 DEF Miss, IdleWorkers
    <3>2. Cardinality(IdleWorkers') \in Nat
      BY <3>1, IdleFinite, FS_Subset, FS_CardinalityType
    <3> QED
      BY <1>0, <2>0, <2>2, <3>2 DEF Miss, CacheBounds
  <2>3. ASSUME NEW w \in Workers, Compute(w) PROVE CacheBounds'
    <3>1. IdleWorkers' = IdleWorkers
      BY <2>0, <2>3 DEF Compute, IdleWorkers
    <3>2. UNCHANGED <<items, variantSets, uses>>
      BY <2>3 DEF Compute
    <3>3. worker' \in [Workers -> [pc : {"idle", "miss", "put"}, key : Keys, score : 0..MaxVariants]]
      <4> DEFINE c == [worker[w] EXCEPT !.pc = "put", !.score = variantSets]
      <4>1. worker' = [worker EXCEPT ![w] = c]
        BY <2>0, <2>3 DEF Compute
      <4>2. variantSets \in 0..MaxVariants
        BY <1>0, <2>0
      <4>3. worker[w] \in [pc : {"idle", "miss", "put"}, key : Keys, score : 0..MaxVariants]
        BY <2>0
      <4>4. c \in [pc : {"idle", "miss", "put"}, key : Keys, score : 0..MaxVariants]
        BY <4>2, <4>3
      <4> HIDE DEF c
      <4> QED
        BY <2>0, <4>1, <4>4
    <3> QED
      BY <2>0, <3>1, <3>2, <3>3 DEF CacheBounds
  <2>4. ASSUME NEW w \in Workers, Put(w) PROVE CacheBounds'
    <3>1. /\ worker' = [worker EXCEPT ![w] = NoCall] /\ worker[w].pc = "put"
          /\ uses' = <<worker[w].key>> \o uses /\ variantSets' = variantSets
          /\ items' \in [Keys -> 0..MaxVariants]
      BY <1>0, <2>0, <2>4 DEF Put
    <3>2. IdleWorkers' = IdleWorkers \union {w} /\ w \notin IdleWorkers
      BY <1>0, <2>0, <3>1 DEF IdleWorkers
    <3>3. Cardinality(IdleWorkers') = Cardinality(IdleWorkers) + 1
      BY <3>2, IdleFinite, FS_AddElement
    <3>4. uses' \in Seq(Keys) /\ Len(uses') = Len(uses) + 1
      BY <2>0, <3>1, OneUseMore
    <3> QED
      BY <1>0, <2>0, <3>1, <3>3, <3>4, IdleFinite DEF CacheBounds
  <2>5. CASE ResetCache
    <3>1. IdleWorkers' = IdleWorkers /\ uses' \in Seq(Keys) /\ Len(uses') = 0
      BY <2>5 DEF ResetCache, IdleWorkers
    <3> QED
      BY <1>0, <2>0, <2>5, <3>1, IdleFinite DEF ResetCache, CacheBounds
  <2>6. CASE PrecomputeVariants \/ UNCHANGED cacheVars
    <3>1. IdleWorkers' = IdleWorkers
      BY <2>6 DEF PrecomputeVariants, cacheVars, IdleWorkers
    <3> QED
      BY <1>0, <2>0, <2>6, <3>1 DEF PrecomputeVariants, cacheVars, CacheBounds
  <2> QED
    BY <2>1, <2>2, <2>3, <2>4, <2>5, <2>6 DEF CacheNext
<1>3. CacheInv /\ CacheBounds => CacheTypeOK
  BY <1>0, IdleFinite, LenProperties DEF CacheInv, MostRecent, CacheBounds, CacheTypeOK
<1> QED
  BY <1>1, <1>2, <1>3, CacheStarts, CacheKeeps, PTL DEF CacheSpec

-----------------------------------------------------------------------------
(* ResponseGuard *)

LEMMA GuardTypes == GuardSpec => []GuardTypeOK
<1> DEFINE Threats == Findings \union {"token_limit", "toxicity", "hallucination"}
           Typed == /\ enabled \in BOOLEAN /\ strictMode \in BOOLEAN
                    /\ scanResult \in [allowed : BOOLEAN, reason : Reasons, threats : SUBSET Threats]
<1>1. NoResult \in [allowed : BOOLEAN, reason : Reasons, threats : SUBSET Threats]
  BY DEF NoResult, Reasons
<1>2. GuardInit => Typed
  BY <1>1 DEF GuardInit
<1>3. Typed /\ [GuardNext]_guardVars => Typed'
  <2> SUFFICES ASSUME Typed, [GuardNext]_guardVars PROVE Typed'
    OBVIOUS
  <2>1. ASSUME NEW c \in Clients \union {NoClient}, NEW tokens \in TokenCounts,
               NEW found \in {{}, {"pii"}}, NEW toxic \in BOOLEAN, NEW hallucinated \in BOOLEAN,
               ScanWithContext(c, tokens, found, toxic, hallucinated)
        PROVE  Typed'
    <3> DEFINE refusal == IF c = NoClient THEN "" ELSE AllowToken(c, Scanned(tokens))
               verdict == Verdict(found, refusal, toxic, hallucinated)
    <3>1. scanResult' = verdict /\ enabled' = enabled /\ strictMode' = strictMode
      BY <2>1, Zenon DEF ScanWithContext
    <3>2. refusal \in {"", "token rate", "request rate", "too large"}
      BY DEF AllowToken, Refusal, Refused
    <3> HIDE DEF refusal
    <3>3. verdict.threats \subseteq Threats
      BY DEF Verdict, Findings
    <3>4. verdict.allowed \in BOOLEAN
      BY DEF Verdict
    <3>5. verdict.reason \in Reasons
      BY <3>2 DEF Verdict, Reasons
    <3>6. verdict = [threats |-> verdict.threats, allowed |-> verdict.allowed,
                     reason |-> verdict.reason]
      BY DEF Verdict
    <3> HIDE DEF verdict
    <3>7. verdict \in [allowed : BOOLEAN, reason : Reasons, threats : SUBSET Threats]
      BY <3>3, <3>4, <3>5, <3>6
    <3> QED
      BY <3>1, <3>7
  <2>2. ASSUME NEW c \in Clients, LimiterReset(c) PROVE Typed'
    BY <2>2 DEF LimiterReset
  <2>3. CASE ScanDisabled
    BY <1>1, <2>3 DEF ScanDisabled
  <2>4. CASE SwitchGuard \/ UpdateConfig \/ MinutesPass
    BY <2>4 DEF SwitchGuard, UpdateConfig, MinutesPass
  <2>5. CASE UNCHANGED guardVars
    BY <2>5 DEF guardVars
  <2> QED
    BY <2>1, <2>2, <2>3, <2>4, <2>5 DEF GuardNext
<1>4. GuardInv /\ Typed => GuardTypeOK
  BY DEF GuardInv, GuardTypeOK
<1> HIDE DEF Typed
<1> QED
  BY <1>2, <1>3, <1>4, GuardStarts, GuardKeeps, PTL DEF GuardSpec

-----------------------------------------------------------------------------
(* Detector *)

LEMMA DetectorTypes == DetectorSpec => []DetectorTypeOK
<1> DEFINE Typed == summary \in [total : Nat, blocked : BOOLEAN, returned : BOOLEAN]
<1>1. DetectorInit => Typed
  BY DEF DetectorInit, NoSummary
<1>2. DetectorInv /\ Typed /\ [DetectorNext]_detectorVars => Typed'
  <2> SUFFICES ASSUME DetectorInv, Typed, [DetectorNext]_detectorVars PROVE Typed'
    OBVIOUS
  <2>1. CASE ReturnSummary
    <3>1. Len(results) \in Nat /\ detection.blocked \in BOOLEAN
      BY LenProperties DEF DetectorInv, OnceEach
    <3> QED
      BY <2>1, <3>1 DEF ReturnSummary
  <2>2. CASE ScanGuard \/ RunModel \/ ScanVariant \/ UNCHANGED detectorVars
    BY <2>2 DEF ScanGuard, RunModel, ScanVariant, detectorVars
  <2> QED
    BY <2>1, <2>2 DEF DetectorNext
<1>3. DetectorInv /\ Typed => DetectorTypeOK
  BY DEF DetectorInv, OnceEach, DetectorTypeOK
<1> HIDE DEF Typed
<1> QED
  BY <1>1, <1>2, <1>3, DetectorStarts, DetectorKeeps, PTL DEF DetectorSpec

-----------------------------------------------------------------------------
(* Normalize: every disguise counts its steps, and a text that can be undone consists
   of the characters that the passes know. *)

LEMMA NormalizeTypes == NormalizeSpec => []NormalizeTypeOK
<1> DEFINE Typed == /\ disguise \in [kind : Kinds, steps : 0..MaxDisguises]
                    /\ variants \in Seq(Seq(Chars))
<1>1. NormalizeInit => Typed
  BY NormalizeAssumption DEF NormalizeInit, Kinds
<1>2. DisguiseInv /\ Typed /\ [NormalizeNext]_normalizeVars => Typed'
  <2> SUFFICES ASSUME DisguiseInv, Typed, [NormalizeNext]_normalizeVars PROVE Typed'
    OBVIOUS
  <2>1. ASSUME NEW kinds, NEW kind \in Kinds, Disguise(kinds, kind) PROVE Typed'
    BY <2>1, NormalizeAssumption DEF Disguise
  <2>2. Hidden \in Kinds
    BY DEF Hidden, Kinds
  <2>3. {"rot13", "keyboard walk", "word", "backslash", "text"} \subseteq Kinds
    BY DEF Kinds
  <2>4. CASE Rotate \/ Walk \/ RotateWord \/ InsertBackslash \/ Substitute
    BY <2>1, <2>3, <2>4 DEF Rotate, Walk, RotateWord, InsertBackslash, Substitute
  <2>5. CASE InsertInvisible \/ InsertSeparator \/ WidenSpace
    BY <2>1, <2>2, <2>5 DEF InsertInvisible, InsertSeparator, WidenSpace
  <2>6. CASE Derive
    <3>1. disguised \in Seq(Chars) /\ disguised # <<>>
      BY DEF DisguiseInv
    <3>2. variants' \in Seq(Seq(Chars))
      BY <2>6, <3>1, VariantsAre DEF Derive, AreVariants
    <3> QED
      BY <2>6, <3>2 DEF Derive
  <2>7. CASE UNCHANGED normalizeVars
    BY <2>7 DEF normalizeVars
  <2> QED
    BY <2>4, <2>5, <2>6, <2>7 DEF NormalizeNext
<1>3. DisguiseInv /\ Typed => NormalizeTypeOK
  <2>1. Characters = Chars
    BY DEF Characters, Chars, Blank, Slash
  <2> QED
    BY <2>1 DEF DisguiseInv, NormalizeTypeOK
<1> HIDE DEF Typed
<1> QED
  BY <1>1, <1>2, <1>3, DisguiseInvHolds, PTL DEF NormalizeSpec

-----------------------------------------------------------------------------
(* Webhook: no array has more places than there are hooks, and an idle sender has
   begun no walk. *)

WebhookBounds ==
  /\ \A a \in 1..Len(arrays) : Len(arrays[a]) <= Capacity
  /\ Cardinality(removed) <= MaxRemovals
  /\ \A s \in Senders : send[s].pc = "idle" => send[s] = Idle

LEMMA CapacityType == Capacity \in Nat
BY HooksAssumption, FS_CardinalityType DEF Capacity

LEMMA WebhookInBounds == WebhookInv /\ WebhookBounds => WebhookTypeOK
<1> SUFFICES ASSUME WebhookInv, WebhookBounds PROVE WebhookTypeOK
  OBVIOUS
<1>1. /\ arrays \in Seq(Seq(Hooks \union {Empty})) /\ Len(arrays) \in Nat
      /\ \A a \in 1..Len(arrays) : Len(arrays[a]) \in Nat /\ Len(arrays[a]) <= Capacity
  BY LenProperties, ElementOfSeq DEF WebhookInv, Shape, WebhookBounds
<1>2. webhooks \in Slice
  <2>1. webhooks \in [array : 1..Len(arrays), len : Nat] /\ webhooks.len <= Len(arrays[webhooks.array])
    BY DEF WebhookInv, Shape, Array
  <2>2. webhooks.array \in 1..Len(arrays) /\ webhooks.len \in 0..Capacity
    BY <1>1, <2>1, CapacityType
  <2> QED
    BY <2>1, <2>2 DEF Slice
<1>3. removing \in 0..Capacity
  BY <1>2, CapacityType DEF WebhookInv, Shape, Slice
<1>4. ASSUME NEW s \in Senders
      PROVE  /\ send[s].pc \in {"idle", "sending", "returned"}
             /\ send[s].slice \in Slice
             /\ send[s].at \in 1..Capacity + 1
  <2> DEFINE c == send[s]
  <2>1. c \in SendCall
    BY DEF WebhookInv, Shape
  <2>2. CASE c.pc = "idle"
    <3>1. c = Idle
      BY <2>2 DEF WebhookBounds
    <3>2. 1 \in 1..Len(arrays)
      BY <1>1, <1>2 DEF Slice
    <3> QED
      BY <3>1, <3>2, CapacityType DEF Idle, Slice
  <2>3. CASE c.pc # "idle"
    <3>1. /\ c.slice.array \in 1..Len(arrays) /\ c.slice.len \in 0..Len(arrays[c.slice.array])
          /\ c.at \in 1..c.slice.len + 1
      BY <2>3 DEF WebhookInv, CallInv, CallShape, Walked
    <3>a. Len(arrays[c.slice.array]) \in Nat /\ Len(arrays[c.slice.array]) <= Capacity
      BY <1>1, <3>1
    <3>2. c.slice.len \in 0..Capacity /\ c.at \in 1..Capacity + 1
      <4> HIDE DEF c
      <4> QED
        BY <3>1, <3>a, CapacityType
    <3> HIDE DEF c
    <3>3. c.slice = [array |-> c.slice.array, len |-> c.slice.len]
      BY <2>1 DEF SendCall
    <3>4. c.slice \in Slice
      BY <3>1, <3>2, <3>3 DEF Slice
    <3> QED
      BY <2>1, <3>2, <3>4 DEF SendCall, c
  <2> QED
    BY <2>2, <2>3
<1> QED
  BY <1>1, <1>2, <1>3, <1>4 DEF WebhookInv, Shape, WebhookBounds, WebhookTypeOK

LEMMA WebhookBoundsKept ==
  WebhookInv /\ WebhookBounds /\ [WebhookNext]_webhookVars => WebhookBounds'
<1> SUFFICES ASSUME WebhookInv, WebhookBounds, [WebhookNext]_webhookVars PROVE WebhookBounds'
  OBVIOUS
<1>1. /\ arrays \in Seq(Seq(Hooks \union {Empty})) /\ Len(arrays) \in Nat
      /\ \A a \in 1..Len(arrays) : /\ arrays[a] \in Seq(Hooks \union {Empty})
                                   /\ Len(arrays[a]) \in Nat /\ Len(arrays[a]) <= Capacity
      /\ webhooks.array \in 1..Len(arrays) /\ webhooks.len \in Nat
      /\ removed \subseteq Hooks /\ send \in [Senders -> SendCall]
  BY LenProperties, ElementOfSeq DEF WebhookInv, Shape, WebhookBounds
<1>2. ASSUME NEW a \in 1..Len(arrays), NEW i \in 1..Len(arrays[a]), NEW x,
             arrays' = [arrays EXCEPT ![a][i] = x]
      PROVE  /\ Len(arrays') = Len(arrays)
             /\ \A b \in 1..Len(arrays') : Len(arrays'[b]) <= Capacity
  <2>1. /\ arrays' = [arrays EXCEPT ![a] = [arrays[a] EXCEPT ![i] = x]]
        /\ Len([arrays[a] EXCEPT ![i] = x]) = Len(arrays[a])
    BY <1>1, <1>2
  <2>2. /\ Len(arrays') = Len(arrays) /\ DOMAIN arrays = 1..Len(arrays)
        /\ \A b \in 1..Len(arrays) : b # a => arrays'[b] = arrays[b]
        /\ arrays'[a] = [arrays[a] EXCEPT ![i] = x]
    <3>1. DOMAIN arrays = 1..Len(arrays)
      BY <1>1
    <3>2. Len([arrays EXCEPT ![a] = [arrays[a] EXCEPT ![i] = x]]) = Len(arrays)
      BY <1>1
    <3> QED
      BY <2>1, <3>1, <3>2
  <2> QED
    BY <1>1, <2>1, <2>2
<1>3. ASSUME NEW h \in Hooks, AddWebhook(h) PROVE WebhookBounds'
  <2> DEFINE old == arrays[webhooks.array]
             larger(room) == [i \in 1..room |-> IF i <= webhooks.len THEN old[i]
                                                ELSE IF i = webhooks.len + 1 THEN h ELSE Empty]
  <2>1. UNCHANGED <<removing, removed, send>>
    BY <1>3 DEF AddWebhook
  <2>2. CASE /\ webhooks.len < Len(old)
             /\ arrays' = [arrays EXCEPT ![webhooks.array][webhooks.len + 1] = h]
    <3>1. webhooks.len + 1 \in 1..Len(old)
      BY <1>1, <2>2
    <3> QED
      BY <1>1, <1>2, <2>1, <2>2, <3>1 DEF WebhookBounds
  <2>3. ASSUME NEW room \in webhooks.len + 1..Capacity, arrays' = Append(arrays, larger(room))
        PROVE  WebhookBounds'
    <3>1. Len(larger(room)) = room /\ room <= Capacity
      BY <1>1, CapacityType
    <3> HIDE DEF larger
    <3>2. /\ Len(arrays') = Len(arrays) + 1 /\ arrays'[Len(arrays) + 1] = larger(room)
          /\ \A a \in 1..Len(arrays) : arrays'[a] = arrays[a]
      BY <1>1, <2>3
    <3>3. ASSUME NEW a \in 1..Len(arrays') PROVE Len(arrays'[a]) <= Capacity
      <4>1. a \in 1..Len(arrays) \/ a = Len(arrays) + 1
        BY <1>1, <3>2
      <4> QED
        BY <1>1, <3>1, <3>2, <4>1
    <3> QED
      BY <2>1, <3>3 DEF WebhookBounds
  <2> QED
    BY <1>3, <2>2, <2>3 DEF AddWebhook
<1>4. ASSUME NEW h \in Hooks, RemoveWebhook(h) PROVE WebhookBounds'
  <2>1. /\ removed' = removed \union {h} /\ Cardinality(removed) < MaxRemovals
        /\ UNCHANGED <<arrays, webhooks, send>>
    BY <1>4 DEF RemoveWebhook
  <2>2. IsFiniteSet(removed) /\ Cardinality(removed) \in Nat /\ MaxRemovals \in Nat
    BY <1>1, HooksAssumption, FS_Subset, FS_CardinalityType
  <2>3. Cardinality(removed') <= Cardinality(removed) + 1 /\ Cardinality(removed') \in Nat
    <3>1. CASE h \in removed
      <4>1. removed' = removed
        BY <2>1, <3>1
      <4> QED
        BY <2>2, <4>1
    <3>2. CASE h \notin removed
      BY <2>1, <2>2, <3>2, FS_AddElement
    <3> QED
      BY <3>1, <3>2
  <2>4. Cardinality(removed') <= MaxRemovals
    BY <2>1, <2>2, <2>3
  <2> QED
    BY <2>1, <2>4 DEF WebhookBounds
<1>5. CASE MoveDown
  <2>1. /\ removing # 0 /\ removing < webhooks.len
        /\ arrays' = [arrays EXCEPT ![webhooks.array][removing] = arrays[webhooks.array][removing + 1]]
        /\ UNCHANGED <<webhooks, removed, send>>
    BY <1>5 DEF MoveDown
  <2>2. removing \in 1..Len(arrays[webhooks.array])
    BY <1>1, <2>1 DEF WebhookInv, Shape, Array
  <2> QED
    BY <1>1, <1>2, <2>1, <2>2 DEF WebhookBounds
<1>6. CASE RemoveEnds
  BY <1>6 DEF RemoveEnds, WebhookBounds
<1>7. ASSUME NEW s \in Senders, NEW d, d.pc # "idle", send' = [send EXCEPT ![s] = d],
             UNCHANGED <<arrays, webhooks, removing, removed>>
      PROVE  WebhookBounds'
  <2>1. send'[s] = d /\ \A t \in Senders : t # s => send'[t] = send[t]
    BY <1>1, <1>7
  <2> QED
    BY <1>7, <2>1 DEF WebhookBounds
<1>8. ASSUME NEW s \in Senders, SendBegins(s) PROVE WebhookBounds'
  <2> DEFINE d == [Idle EXCEPT !.pc = "sending", !.slice = webhooks,
                               !.began = Elements(webhooks), !.before = removed]
  <2>1. d.pc = "sending"
    BY DEF Idle
  <2>2. send' = [send EXCEPT ![s] = d]
    BY <1>8 DEF SendBegins
  <2> HIDE DEF d
  <2> QED
    BY <1>7, <1>8, <2>1, <2>2 DEF SendBegins
<1>9. ASSUME NEW s \in Senders, SendNext(s) PROVE WebhookBounds'
  <2>1. PICK h \in Reads(send[s]), fails \in BOOLEAN :
          send' = [send EXCEPT ![s] = sendToWebhook(send[s], h, fails)]
    BY <1>9 DEF SendNext
  <2>2. send[s] \in SendCall /\ send[s].pc = "sending"
    BY <1>1, <1>9 DEF SendNext
  <2>3. sendToWebhook(send[s], h, fails).pc = "sending"
    BY <2>2 DEF sendToWebhook, Attempt, SendCall
  <2> QED
    BY <1>7, <1>9, <2>1, <2>3 DEF SendNext
<1>10. ASSUME NEW s \in Senders, SendReturns(s) PROVE WebhookBounds'
  <2>1. [send[s] EXCEPT !.pc = "returned"].pc = "returned"
    BY <1>1 DEF SendCall
  <2>2. send' = [send EXCEPT ![s] = [send[s] EXCEPT !.pc = "returned"]]
    BY <1>10 DEF SendReturns
  <2> QED
    BY <1>7, <1>10, <2>1, <2>2 DEF SendReturns
<1>11. CASE UNCHANGED webhookVars
  BY <1>11 DEF webhookVars, WebhookBounds
<1> QED
  BY <1>3, <1>4, <1>5, <1>6, <1>8, <1>9, <1>10, <1>11 DEF WebhookNext

LEMMA WebhookTypes == WebhookSpec => []WebhookTypeOK
<1>1. WebhookInit => WebhookBounds
  <2> SUFFICES ASSUME WebhookInit PROVE WebhookBounds
    OBVIOUS
  <2>1. PICK n \in 0..Capacity : \E list \in [1..n -> Hooks] : arrays = <<list>>
    BY DEF WebhookInit
  <2>2. PICK list \in [1..n -> Hooks] : arrays = <<list>>
    BY <2>1
  <2>3. \A a \in 1..Len(arrays) : Len(arrays[a]) <= Capacity
    <3>1. Len(list) = n /\ n <= Capacity
      BY CapacityType
    <3>2. \A a \in 1..Len(arrays) : arrays[a] = list
      BY <2>2
    <3> QED
      BY <3>1, <3>2
  <2>4. Cardinality(removed) <= MaxRemovals
    BY FS_EmptySet, HooksAssumption DEF WebhookInit
  <2>5. \A s \in Senders : send[s] = Idle
    BY DEF WebhookInit
  <2> QED
    BY <2>3, <2>4, <2>5 DEF WebhookBounds
<1> QED
  BY <1>1, WebhookStarts, WebhookKeeps, WebhookBoundsKept, WebhookInBounds, PTL DEF WebhookSpec

-----------------------------------------------------------------------------
(* The composition *)

LEMMA RunningStays == ComponentsSpec => [](running \in Components)
<1>1. ComponentsInit => running \in Components
  BY DEF ComponentsInit
<1>2. running \in Components /\ [ComponentsNext]_allVars => (running \in Components)'
  BY DEF ComponentsNext, Others, allVars
<1> QED
  BY <1>1, <1>2, PTL DEF ComponentsSpec

(* The components whose type invariant is part of an invariant proved elsewhere. *)
LEMMA OtherTypes ==
  /\ CertFilesSpec => []CertFilesTypeOK
  /\ ManagerSpec => []ManagerTypeOK
  /\ PullSpec => []PullTypeOK
  /\ LensSpec => []LensTypeOK
  /\ ServerSpec => []ServerTypeOK
  /\ EncSpec => []EncTypeOK
  /\ ModelSpec => []ModelTypeOK
  /\ DriftSpec => []DriftTypeOK
  /\ RedactionSpec => []RedactionTypeOK
<1>1. CertFilesInv => CertFilesTypeOK
  BY DEF CertFilesInv
<1>2. ManagerInv => ManagerTypeOK
  BY DEF ManagerInv
<1>3. PullInv => PullTypeOK
  BY DEF PullInv
<1>4. LensInv => LensTypeOK
  BY DEF LensInv
<1>5. ServerInv => ServerTypeOK
  BY DEF ServerInv
<1>6. EncInv => EncTypeOK
  BY DEF EncInv
<1>7. DriftInv => DriftTypeOK
  BY DEF DriftInv
<1>8. RedactionInv => RedactionTypeOK
  BY DEF RedactionInv
<1>9. CertFilesSpec => []CertFilesTypeOK
  BY <1>1, CertFilesInvHolds, PTL
<1>10. ManagerSpec => []ManagerTypeOK
  BY <1>2, ManagerInvHolds, PTL
<1>11. PullSpec => []PullTypeOK
  BY <1>3, PullInvHolds, PTL
<1>12. LensSpec => []LensTypeOK
  BY <1>4, LensInvHolds, PTL
<1>13. ServerSpec => []ServerTypeOK
  BY <1>5, ServerStarts, ServerKeeps, PTL DEF ServerSpec
<1>14. EncSpec => []EncTypeOK
  BY <1>6, EncStarts, EncKeeps, PTL DEF EncSpec
<1>15. ModelSpec => []ModelTypeOK
  BY ModelStarts, ModelTypes, PTL DEF ModelSpec
<1>16. DriftSpec => []DriftTypeOK
  BY <1>7, DriftInvHolds, PTL
<1>17. RedactionSpec => []RedactionTypeOK
  BY <1>8, RedactionInvHolds, PTL
<1> QED
  BY <1>9, <1>10, <1>11, <1>12, <1>13, <1>14, <1>15, <1>16, <1>17

(* For every value of the constants, every component's variables keep their types and
   their bounds: among them the files of the hooks, the slices of a webhook's
   subscribers, the pooled buffers and the counters of the ScoreCache, and the offsets
   at which a search of the log reads (ComponentsTypeOK). *)
THEOREM ComponentsTypesHold == ComponentsSpec => []ComponentsTypeOK
BY RunsEveryComponent, RunningStays, OtherTypes, WebhookTypes, HookFileTypes,
   SearchTypes, PIDTypes, CacheTypes, GuardTypes, NormalizeTypes, DetectorTypes, PTL
   DEF ComponentsTypeOK

(* What the run of the composition checks holds for every value of the constants: the
   properties of its components, each by the theorem about that component, and that a
   pull never replaces the IOC list by an older one. *)
THEOREM ComponentsSafe ==
  ComponentsSpec =>
    /\ [](/\ LoneStartCanSign /\ CertCacheSound /\ EditsKept
          /\ FileNamesDaemon /\ PagesComplete /\ AckedDecrypts)
    /\ [](UnchangedIsCurrent /\ RecentKept /\ SendReachesAll)
    /\ [](/\ EachFindingOnce /\ LoneScore /\ ShadowLogKept /\ RecentlyUsedCached
          /\ WithinRate /\ NewestPublished /\ SameDataNoDrift /\ RedactedExactly
          /\ PhraseRecovered)
    /\ NeverOlder
BY RunsEveryComponent, LoneStartSigns, CacheStaysSound, EditsAlwaysKept,
   FileAlwaysNamesDaemon, PagesAlwaysComplete, AckedAlwaysDecrypts,
   UnchangedAlwaysCurrent, RecentStaysKept, SendReachesThem, FindingsReportedOnce,
   LoneScoreHolds, ShadowLogStaysKept, CacheKeepsRecent, RateIsKept,
   NewestGetsPublished, SameDataIsNoDrift, RedactsExactly,
   PhraseAlwaysRecovered, CacheNeverOlder, PTL

=============================================================================
