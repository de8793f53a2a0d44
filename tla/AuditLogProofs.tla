--------------------------- MODULE AuditLogProofs ---------------------------
(***************************************************************************)
(* Proofs about module AuditLog, for any number of calls, any size limit   *)
(* and any number of crashes; each theorem names the faults it allows.     *)
(***************************************************************************)
EXTENDS AuditLog, SequenceTheorems, TLAPS

-----------------------------------------------------------------------------
(* Facts about lines. *)

LEMMA FlushedType ==
  ASSUME NEW s \in Seq(Line)
  PROVE  /\ Flushed(s) \in Seq(Line)
         /\ Copied(s) \in Seq(Line)
         /\ DOMAIN Flushed(s) = DOMAIN s
         /\ DOMAIN Copied(s) = DOMAIN s
<1>1. \A i \in DOMAIN s : s[i] \in Line
  OBVIOUS
<1>2. \A l \in Line, b \in BOOLEAN : [l EXCEPT !.safe = b] \in Line
  BY DEF Line
<1>3. DOMAIN s = 1..Len(s) /\ Len(s) \in Nat
  BY LenProperties
<1>4. /\ Flushed(s) \in [1..Len(s) -> Line]
      /\ Copied(s) \in [1..Len(s) -> Line]
  BY <1>1, <1>2, <1>3 DEF Flushed, Copied
<1>5. /\ Flushed(s) \in Seq(Line)
      /\ Copied(s) \in Seq(Line)
  BY <1>3, <1>4, SeqDef
<1> QED
  BY <1>3, <1>4, <1>5

LEMMA EmptyFile == <<>> \in Seq(Line)
OBVIOUS

LEMMA PrefixType ==
  ASSUME NEW s \in Seq(Line), NEW n \in 0..Len(s)
  PROVE  /\ SubSeq(s, 1, n) \in Seq(Line)
         /\ DOMAIN SubSeq(s, 1, n) = 1..n
         /\ \A i \in 1..n : SubSeq(s, 1, n)[i] = s[i]
OBVIOUS

LEMMA SurvivesType ==
  ASSUME NEW s \in Seq(Line), NEW t \in Survives(s)
  PROVE  /\ t \in Seq(Line)
         /\ \A i \in DOMAIN s : s[i].safe => i \in DOMAIN t /\ t[i] = s[i]
<1>1. PICK n \in 0..Len(s) : /\ t = SubSeq(s, 1, n)
                             /\ \A i \in DOMAIN s : s[i].safe => i <= n
  BY DEF Survives
<1>2. \A i \in DOMAIN s : i \in Nat /\ i >= 1
  OBVIOUS
<1> QED
  BY <1>1, <1>2, PrefixType

LEMMA SurvivesEmpty == \A t \in Survives(<<>>) : t = <<>>
<1> SUFFICES ASSUME NEW n \in 0..Len(<<>>) PROVE SubSeq(<<>>, 1, n) = <<>>
  BY DEF Survives
<1>1. n = 0
  OBVIOUS
<1> QED
  BY <1>1

LEMMA SizeType ==
  ASSUME TypeOK
  PROVE  /\ Size \in Nat
         /\ \A s \in Seq(Line) : EndOf(s) \in Nat
         /\ \A c \in Calls : LineSize[c] \in Nat /\ LineSize[c] >= 1 /\ LineSize[c] <= LongestLine
         /\ MaxSize \in Nat /\ LongestLine \in Nat
<1>1. \A s \in Seq(Line) : s # <<>> => s[Len(s)] \in Line
  BY LenProperties, EmptySeq
<1>2. \A s \in Seq(Line) : EndOf(s) \in Nat
  BY <1>1 DEF EndOf, Line
<1> QED
  BY <1>2, SizeAssumption DEF Size, TypeOK

LEMMA BackedType ==
  ASSUME TypeOK, NEW lines \in Seq(Line)
  PROVE  Backed(clock, lines) \subseteq Backup
<1> DEFINE new == [name |-> clock, lines |-> lines]
<1>1. new \in Backup
  BY DEF TypeOK, Backup
<1> QED
  BY <1>1 DEF Backed, TypeOK

(* Type correctness: no step of Log, and no failure, crash or restart, leaves
   the logger's state outside its types. *)
THEOREM LogTypeCorrect == Spec => []TypeOK
<1>1. Init => TypeOK
  <2> SUFFICES ASSUME Init PROVE TypeOK
    OBVIOUS
  <2>1. current \in Seq(Line) /\ backups \subseteq Backup
    BY EmptyFile DEF Init
  <2>2. crashes \in 0..MaxCrashes /\ clock \in Nat
    BY CrashesAssumption DEF Init
  <2>3. /\ pc \in [Calls -> Labels]
        /\ result \in [Calls -> {"none", "ok", "error", "killed"}]
        /\ stamp \in [Calls -> Nat]
        /\ handle \in {"open", "closed", "down"}
        /\ torn \in Nat
        /\ shut \in BOOLEAN
    BY DEF Init, Labels
  <2>4. faults \in SUBSET AnyFault
    BY FaultsAssumption DEF Init
  <2> QED
    BY <2>1, <2>2, <2>3, <2>4 DEF TypeOK
<1>2. TypeOK /\ [Next]_vars => TypeOK'
  <2> SUFFICES ASSUME TypeOK, [Next]_vars PROVE TypeOK'
    OBVIOUS
  <2> USE DEF Goto, Return, files, Labels
  <2>1. ASSUME NEW c \in Calls,
               \/ Begin(c) \/ Lock(c) \/ RenameFails(c) \/ Reopen(c)
               \/ Stamp(c) \/ WriteFails(c)
        PROVE  TypeOK'
    <3>1. CASE Begin(c) \/ Lock(c) \/ RenameFails(c) \/ Reopen(c)
      BY <3>1 DEF TypeOK, Begin, Lock, RenameFails, Reopen
    <3>2. CASE Stamp(c)
      BY <3>2 DEF TypeOK, Stamp
    <3>3. CASE WriteFails(c)
      BY <3>3 DEF TypeOK, WriteFails
    <3> QED
      BY <2>1, <3>1, <3>2, <3>3
  <2>2. ASSUME NEW c \in Calls, Rename(c) PROVE TypeOK'
    <3>1. backups' \subseteq Backup
      BY <2>2, BackedType DEF Rename, TypeOK
    <3> QED
      BY <2>2, <3>1, EmptyFile DEF TypeOK, Rename
  <2>3. ASSUME NEW c \in Calls, Copy(c) \/ CopyFails(c) PROVE TypeOK'
    <3>1. \A n \in 0..Len(current) : SubSeq(current, 1, n) \in Seq(Line)
      BY PrefixType DEF TypeOK
    <3>2. /\ Copied(current) \in Seq(Line)
          /\ \A n \in 0..Len(current) : Copied(SubSeq(current, 1, n)) \in Seq(Line)
      BY <3>1, FlushedType DEF TypeOK
    <3>3. backups' \subseteq Backup
      BY <2>3, <3>2, BackedType DEF Copy, CopyFails, TypeOK
    <3> QED
      BY <2>3, <3>3 DEF TypeOK, Copy, CopyFails
  <2>4. ASSUME NEW c \in Calls, Truncate(c) PROVE TypeOK'
    <3>0. current \in Seq(Line) /\ torn \in Nat /\ 0 \in Nat
      BY DEF TypeOK
    <3>1. current' \in Seq(Line) /\ torn' \in Nat
      BY <2>4, <3>0, EmptyFile, Zenon DEF Truncate
    <3>2. /\ faults' \in SUBSET AnyFault
          /\ pc' \in [Calls -> Labels]
          /\ UNCHANGED <<result, stamp, handle, backups, clock, crashes, shut>>
      BY <2>4 DEF TypeOK, Truncate
    <3> HIDE DEF Labels
    <3> QED
      BY <3>1, <3>2, Zenon DEF TypeOK
  <2>5. ASSUME NEW c \in Calls, Write(c) PROVE TypeOK'
    <3> DEFINE line == [call |-> c, at |-> stamp[c], whole |-> torn = 0, safe |-> FALSE,
                       end |-> Size + LineSize[c]]
    <3>0. Size \in Nat /\ LineSize[c] \in Nat
      BY SizeType
    <3>1. line \in Line
      BY <3>0 DEF Line, TypeOK
    <3> HIDE DEF line
    <3>2. Append(current, line) \in Seq(Line)
      BY <3>1 DEF TypeOK
    <3>3. Appended(c) = Append(current, line)
      BY DEF Appended, line
    <3>4. /\ UNCHANGED <<faults, stamp, handle, backups, clock, crashes, shut>>
          /\ pc' \in [Calls -> Labels]
          /\ result' \in [Calls -> {"none", "ok", "error", "killed"}]
      BY <2>5 DEF TypeOK, Write
    <3>5. current \in Seq(Line) /\ torn \in Nat /\ 0 \in Nat
      BY DEF TypeOK
    <3>6. current' \in Seq(Line) /\ torn' \in Nat
      BY <2>5, <3>2, <3>3, <3>5, Zenon DEF Write
    <3> HIDE DEF Labels
    <3> QED
      BY <3>4, <3>6, Zenon DEF TypeOK
  <2>6. ASSUME NEW c \in Calls, Sync(c) PROVE TypeOK'
    BY <2>6, FlushedType DEF TypeOK, Sync
  <2>7. CASE Close \/ Restart
    BY <2>7 DEF TypeOK, Close, Restart
  <2>8. CASE Kill \/ PowerLoss
    <3>1. /\ handle' = "down"
          /\ crashes' \in 0..MaxCrashes
          /\ pc' \in [Calls -> Labels]
          /\ result' \in [Calls -> {"none", "ok", "error", "killed"}]
          /\ UNCHANGED <<faults, stamp, clock, shut>>
      BY <2>8, CrashesAssumption DEF Kill, PowerLoss, Dies, TypeOK
    <3>2. current' \in Seq(Line)
      BY <2>8, SurvivesType DEF Kill, PowerLoss, TypeOK
    <3>4. \A n \in Int : 0..n \subseteq Nat
      OBVIOUS
    <3>5. \A n \in 0..Len(current) :
            SubSeq(current, 1, n) # current => n + 1 \in DOMAIN current
      BY DEF TypeOK
    <3>6. \A i \in DOMAIN current : current[i].end \in Nat
      <4>1. \A i \in DOMAIN current : current[i] \in Line
        BY DEF TypeOK
      <4> QED
        BY <4>1 DEF Line
    <3>7. ASSUME PowerLoss PROVE Remains(current') \subseteq Nat
      <4>1. PICK n \in 0..Len(current) : current' = SubSeq(current, 1, n)
        BY <3>7 DEF PowerLoss, Survives
      <4>2. current' # current => current[Len(current') + 1].end \in Nat
        BY <3>5, <3>6, <4>1, PrefixType DEF TypeOK
      <4>3. torn \in Int /\ EndOf(current') \in Nat
        BY <3>2, SizeType DEF TypeOK
      <4> QED
        BY <3>4, <4>2, <4>3 DEF Remains
    <3>8. torn' \in Nat
      BY <2>8, <3>7 DEF Kill, PowerLoss, TypeOK
    <3>3. backups' \subseteq Backup
      <4>1. CASE Kill
        BY <4>1 DEF Kill, TypeOK
      <4>2. CASE PowerLoss
        <5>1. PICK left : /\ \A b \in backups : left[b] \in Survives(b.lines)
                          /\ backups' = {[b EXCEPT !.lines = left[b]] : b \in backups}
          BY <4>2 DEF PowerLoss
        <5>2. \A b \in backups : left[b] \in Seq(Line)
          BY <5>1, SurvivesType DEF TypeOK, Backup
        <5>3. \A b \in backups : [b EXCEPT !.lines = left[b]] \in Backup
          BY <5>2 DEF TypeOK, Backup
        <5> QED
          BY <5>1, <5>3
      <4> QED
        BY <2>8, <4>1, <4>2
    <3> QED
      BY <3>1, <3>2, <3>3, <3>8 DEF TypeOK
  <2>9. CASE UNCHANGED vars
    BY <2>9 DEF vars, TypeOK
  <2> QED
    BY <2>1, <2>2, <2>3, <2>4, <2>5, <2>6, <2>7, <2>8, <2>9
       DEF Next, Log, Rotate
<1> QED
  BY <1>1, <1>2, PTL DEF Spec
-----------------------------------------------------------------------------
(* The mutex: of two calls inside Log, one is the other. *)
Exclusive == \A c, d \in Calls : Inside(c) /\ Inside(d) => c = d

LEMMA MutexHolds == Spec => []Exclusive
<1>1. Init => Exclusive
  BY DEF Init, Exclusive, Inside
<1>2. TypeOK /\ Exclusive /\ [Next]_vars => Exclusive'
  <2> SUFFICES ASSUME TypeOK, Exclusive, [Next]_vars PROVE Exclusive'
    OBVIOUS
  <2> USE DEF TypeOK, Exclusive, Inside, Goto, Return
  <2>1. ASSUME NEW c \in Calls, Begin(c) \/ Log(c) PROVE Exclusive'
    BY <2>1 DEF Begin, Log, Lock, Rotate, Rename, RenameFails, Copy, CopyFails,
       Truncate, Reopen, Stamp, Write, WriteFails, Sync
  <2>2. CASE Close \/ Restart \/ UNCHANGED vars
    BY <2>2 DEF Close, Restart, vars
  <2>3. CASE Kill \/ PowerLoss
    BY <2>3 DEF Kill, PowerLoss, Dies
  <2> QED
    BY <2>1, <2>2, <2>3 DEF Next
<1> QED
  BY <1>1, <1>2, LogTypeCorrect, PTL DEF Spec

-----------------------------------------------------------------------------
Entry(line, c) == line.call = c /\ (Clean => line.whole)
Good(line, c)  == Entry(line, c) /\ ("power" \in faults => line.safe)
GoodIn(file, c) == \E i \in DOMAIN file : Good(file[i], c)
Saved(c) == GoodIn(current, c) \/ \E b \in backups : GoodIn(b.lines, c)

(* The inductive invariant.  A rotation cannot lose anything by replacing a
   backup of its own second: that backup is of the same file, from an attempt
   that went wrong, or the file is empty and will not be rotated. *)
Blank == current = <<>> /\ torn = 0

NamesOK ==
  \A b \in backups :
    /\ b.name <= clock
    /\ b.name = clock =>
         \/ Blank
         \/ "power" \notin faults /\ \A c \in Calls : GoodIn(b.lines, c) => GoodIn(current, c)

StepOK(c) ==
  /\ pc[c] \in {"rename", "copy"} => ~Blank
  /\ pc[c] \in {"copy", "truncate"} => "rename" \in faults
  /\ pc[c] = "truncate" =>
       \A d \in Calls : GoodIn(current, d) => \E b \in backups : GoodIn(b.lines, d)
  /\ pc[c] \in {"write", "sync"} => \A b \in backups : b.name < clock
  /\ pc[c] = "sync" => \E i \in DOMAIN current : Entry(current[i], c)
  /\ result[c] = "ok" => Saved(c)

KeptInv ==
  /\ Clean => torn = 0
  /\ NamesOK
  /\ \A c \in Calls : StepOK(c)

LEMMA KeptInit == Init => KeptInv
BY DEF Init, KeptInv, NamesOK, StepOK

(* What copying, flushing and appending do to the entries of a file. *)
LEMMA CopiedKeeps ==
  ASSUME NEW s \in Seq(Line), NEW c \in Calls, "power" \notin faults
  PROVE  GoodIn(Copied(s), c) <=> GoodIn(s, c)
<1>1. \A i \in DOMAIN s : s[i] \in Line
  OBVIOUS
<1>2. \A i \in DOMAIN s : Good(Copied(s)[i], c) <=> Good(s[i], c)
  BY <1>1 DEF Copied, Good, Entry, Line
<1> QED
  BY <1>2, FlushedType DEF GoodIn

LEMMA FlushedKeeps ==
  ASSUME NEW s \in Seq(Line), NEW c \in Calls
  PROVE  (\E i \in DOMAIN s : Entry(s[i], c)) <=> GoodIn(Flushed(s), c)
<1>1. \A i \in DOMAIN s : s[i] \in Line
  OBVIOUS
<1>2. \A i \in DOMAIN s : Good(Flushed(s)[i], c) <=> Entry(s[i], c)
  BY <1>1 DEF Flushed, Good, Entry, Line
<1> QED
  BY <1>2, FlushedType DEF GoodIn

LEMMA PrefixKeeps ==
  ASSUME NEW s \in Seq(Line), NEW n \in 0..Len(s), NEW c \in Calls,
         GoodIn(SubSeq(s, 1, n), c)
  PROVE  GoodIn(s, c)
<1>1. \A i \in 1..n : i \in DOMAIN s
  OBVIOUS
<1> QED
  BY <1>1, PrefixType DEF GoodIn

LEMMA SurvivesKeeps ==
  ASSUME NEW s \in Seq(Line), NEW t \in Survives(s), NEW c \in Calls,
         GoodIn(s, c), "power" \in faults
  PROVE  GoodIn(t, c)
BY SurvivesType DEF GoodIn, Good

LEMMA AppendKeeps ==
  ASSUME NEW s \in Seq(Line), NEW l \in Line
  PROVE  /\ \A i \in DOMAIN s : i \in DOMAIN Append(s, l) /\ Append(s, l)[i] = s[i]
         /\ Len(s) + 1 \in DOMAIN Append(s, l)
         /\ Append(s, l)[Len(s) + 1] = l
OBVIOUS

(* Steps that leave the files and the clock alone. *)
LEMMA IdleStepsKeep ==
  ASSUME Sound, TypeOK, Exclusive, KeptInv,
         \/ \E c \in Calls : Begin(c) \/ Lock(c) \/ RenameFails(c) \/ Reopen(c) \/ WriteFails(c)
         \/ Close \/ Restart \/ Kill \/ UNCHANGED vars
  PROVE  KeptInv'
<1>1. /\ UNCHANGED <<current, backups, clock, faults>>
      /\ Clean => UNCHANGED torn
      /\ torn' = torn \/ \E c \in Calls : pc[c] = "write"
  BY DEF Begin, Lock, RenameFails, Reopen, WriteFails, Close, Restart, Kill,
     Dies, vars, files, Clean
<1>7. Blank' => Blank
  <2>1. \A c \in Calls : \A written \in 0..(LineSize[c] - 1) : torn + written = 0 => torn = 0
    BY SizeType DEF TypeOK
  <2>2. torn' = torn \/ \E c \in Calls : \E written \in 0..(LineSize[c] - 1) :
                          torn' = torn + written
    BY DEF Begin, Lock, RenameFails, Reopen, WriteFails, Close, Restart, Kill,
       Dies, vars, files
  <2> QED
    BY <1>1, <2>1, <2>2 DEF Blank
<1>2. NamesOK' /\ (Clean => torn = 0)'
  <2>1. CASE torn' = torn
    BY <1>1, <2>1 DEF KeptInv, NamesOK, Blank, GoodIn, Good, Entry, Clean
  <2>2. CASE \E c \in Calls : pc[c] = "write"
    <3>1. \A b \in backups : b.name < clock /\ b.name \in Nat
      BY <2>2 DEF KeptInv, StepOK, TypeOK, Backup
    <3> QED
      BY <1>1, <3>1 DEF KeptInv, NamesOK, TypeOK, Clean
  <2> QED
    BY <1>1, <2>1, <2>2
<1>3. \A d \in Calls : Saved(d)' = Saved(d)
  BY <1>1 DEF Saved, GoodIn, Good, Entry, Clean
<1>4. ASSUME NEW d \in Calls,
             \/ pc'[d] = pc[d]
             \/ pc'[d] \in {"lock", "reopen", "stamp", "done"}
             \/ pc'[d] = "rename" /\ ~Blank
             \/ pc'[d] = "copy" /\ "rename" \in faults /\ pc[d] = "rename",
             result'[d] = result[d] \/ result'[d] # "ok"
      PROVE  StepOK(d)'
  BY <1>1, <1>3, <1>4, <1>7 DEF KeptInv, StepOK, GoodIn, Good, Entry, Clean
<1>5. ASSUME NEW c \in Calls,
             Begin(c) \/ Lock(c) \/ RenameFails(c) \/ Reopen(c) \/ WriteFails(c),
             NEW d \in Calls
      PROVE  StepOK(d)'
  <2> USE DEF TypeOK, Goto, Return
  <2>1. CASE Begin(c) \/ RenameFails(c) \/ Reopen(c) \/ WriteFails(c)
    BY <1>4, <2>1 DEF Begin, RenameFails, Reopen, WriteFails
  <2>2. CASE Lock(c)
    <3>1. Size > MaxSize => ~Blank
      BY SizeAssumption DEF Blank, Size, EndOf
    <3> QED
      BY <1>4, <2>2, <3>1 DEF Lock
  <2> QED
    BY <1>5, <2>1, <2>2
<1>6. ASSUME Close \/ Restart \/ Kill \/ UNCHANGED vars, NEW d \in Calls
      PROVE  StepOK(d)'
  BY <1>4, <1>6 DEF TypeOK, Close, Restart, Kill, Dies, vars
<1> QED
  BY <1>2, <1>5, <1>6 DEF KeptInv, Clean

LEMMA StampKeeps ==
  ASSUME Sound, TypeOK, Exclusive, KeptInv, NEW c \in Calls, Stamp(c)
  PROVE  KeptInv'
<1>1. /\ UNCHANGED <<current, backups, torn, result, faults>>
      /\ clock' = clock + 1
      /\ pc' = [pc EXCEPT ![c] = "write"]
  BY DEF Stamp, Sound, files, Goto
<1>2. \A b \in backups : b.name \in Nat /\ b.name <= clock
  BY DEF TypeOK, Backup, KeptInv, NamesOK
<1>3. \A b \in backups' : b.name < clock'
  BY <1>1, <1>2 DEF TypeOK
<1>4. NamesOK'
  BY <1>3, <1>1, <1>2 DEF NamesOK, TypeOK
<1>5. \A d \in Calls : StepOK(d)'
  <2> SUFFICES ASSUME NEW d \in Calls PROVE StepOK(d)'
    OBVIOUS
  <2>1. StepOK(d) /\ (Saved(d)' <=> Saved(d))
    BY <1>1 DEF KeptInv, Saved, GoodIn, Good, Entry, Clean
  <2>2. CASE d = c
    BY <1>1, <1>3, <2>1, <2>2 DEF TypeOK, StepOK
  <2>3. CASE d # c
    BY <1>1, <1>3, <2>1, <2>3 DEF TypeOK, StepOK, Blank, GoodIn, Good, Entry, Clean
  <2> QED
    BY <2>2, <2>3
<1> QED
  BY <1>1, <1>4, <1>5 DEF KeptInv, Clean

(* Inside Log only one call moves: the others are not at any step. *)
LEMMA OthersOutside ==
  ASSUME TypeOK, Exclusive, NEW c \in Calls, Inside(c), NEW d \in Calls, d # c
  PROVE  pc[d] \in {"idle", "lock", "done"}
BY DEF Exclusive, Inside

(* A backup of the current second has no entry the current file lacks. *)
LEMMA BackedKeeps ==
  ASSUME TypeOK, KeptInv, ~Blank, NEW lines \in Seq(Line),
         NEW d \in Calls, NEW b \in backups, GoodIn(b.lines, d)
  PROVE  GoodIn(current, d) \/ b \in Backed(clock, lines)
BY DEF KeptInv, NamesOK, Backed

LEMMA RenameKeeps ==
  ASSUME Sound, TypeOK, Exclusive, KeptInv, NEW c \in Calls, Rename(c)
  PROVE  KeptInv'
<1> DEFINE new == [name |-> clock, lines |-> current]
<1>1. /\ current' = <<>> /\ torn' = 0
      /\ backups' = Backed(clock, current)
      /\ UNCHANGED <<clock, result, faults>>
      /\ pc' = [pc EXCEPT ![c] = "reopen"]
      /\ ~Blank
  BY DEF Rename, KeptInv, StepOK, Goto
<1>2. new \in backups' /\ new.lines = current /\ new.name = clock
  BY <1>1 DEF Backed
<1>3. NamesOK'
  <2>1. \A b \in backups' : b \in backups \/ b = new
    BY <1>1 DEF Backed
  <2> QED
    BY <1>1, <1>2, <2>1 DEF KeptInv, NamesOK, Blank, TypeOK
<1>4. \A d \in Calls : Saved(d) => Saved(d)'
  <2> SUFFICES ASSUME NEW d \in Calls, Saved(d)
               PROVE  \E b \in backups' : GoodIn(b.lines, d)
    BY <1>1 DEF Saved, GoodIn, Good, Entry, Clean
  <2>1. CASE GoodIn(current, d)
    BY <1>2, <2>1
  <2>2. CASE \E b \in backups : GoodIn(b.lines, d)
    BY <1>1, <1>2, <2>2, BackedKeeps DEF TypeOK
  <2> QED
    BY <2>1, <2>2 DEF Saved
<1>5. \A d \in Calls : StepOK(d)'
  <2> SUFFICES ASSUME NEW d \in Calls PROVE StepOK(d)'
    OBVIOUS
  <2>1. d # c => pc[d] \in {"idle", "lock", "done"}
    BY OthersOutside DEF Rename, Inside
  <2> QED
    BY <1>1, <1>4, <2>1 DEF TypeOK, KeptInv, StepOK
<1> QED
  BY <1>1, <1>3, <1>5 DEF KeptInv, Clean

(* A backup made by copying has no entry that the log, still there, lacks. *)
LEMMA CopyKeeps ==
  ASSUME Sound, TypeOK, Exclusive, KeptInv, NEW c \in Calls, Copy(c) \/ CopyFails(c)
  PROVE  KeptInv'
<1>1. /\ UNCHANGED <<current, torn, clock, result, faults>>
      /\ pc' = [pc EXCEPT ![c] = IF Copy(c) THEN "truncate" ELSE "stamp"]
      /\ ~Blank
      /\ "rename" \in faults /\ "power" \notin faults
      /\ pc[c] = "copy"
  BY DEF Copy, CopyFails, KeptInv, StepOK, Goto, Sound
<1> DEFINE Made(lines) ==
      /\ backups' = Backed(clock, lines)
      /\ Copy(c) => lines = Copied(current)
      /\ \A d \in Calls : GoodIn(lines, d) => GoodIn(current, d)
<1>2. \/ ~Copy(c) /\ UNCHANGED backups
      \/ \E lines \in Seq(Line) : Made(lines)
  <2>1. CASE Copy(c)
    BY <1>1, <2>1, CopiedKeeps, FlushedType DEF Copy, TypeOK
  <2>2. ASSUME NEW n \in 0..Len(current), backups' = Backed(clock, Copied(SubSeq(current, 1, n))),
               ~Copy(c)
        PROVE  Made(Copied(SubSeq(current, 1, n)))
    <3>1. SubSeq(current, 1, n) \in Seq(Line)
      BY PrefixType DEF TypeOK
    <3>2. \A d \in Calls : GoodIn(Copied(SubSeq(current, 1, n)), d) => GoodIn(current, d)
      BY <1>1, <3>1, CopiedKeeps, PrefixKeeps DEF TypeOK
    <3> QED
      BY <2>2, <3>2
  <2>3. \A n \in 0..Len(current) : Copied(SubSeq(current, 1, n)) \in Seq(Line)
    BY PrefixType, FlushedType DEF TypeOK
  <2> QED
    BY <2>1, <2>2, <2>3 DEF CopyFails
<1>3. NamesOK'
  <2>1. CASE UNCHANGED backups
    BY <1>1, <2>1 DEF KeptInv, NamesOK, GoodIn, Good, Entry, Clean
  <2>2. ASSUME NEW lines \in Seq(Line), backups' = Backed(clock, lines),
               \A d \in Calls : GoodIn(lines, d) => GoodIn(current, d)
        PROVE  NamesOK'
    <3> DEFINE new == [name |-> clock, lines |-> lines]
    <3>1. \A b \in backups' : b = new \/ (b \in backups /\ b.name # clock)
      BY <2>2 DEF Backed
    <3>2. \A b \in backups' : /\ b.name <= clock
                              /\ b.name = clock => b.lines = lines
      BY <3>1 DEF KeptInv, NamesOK, TypeOK
    <3> QED
      BY <1>1, <2>2, <3>2 DEF NamesOK, GoodIn, Good, Entry, Clean
  <2> QED
    BY <1>2, <2>1, <2>2
<1>4. \A d \in Calls : Saved(d) => Saved(d)'
  <2> SUFFICES ASSUME NEW d \in Calls, Saved(d) PROVE Saved(d)'
    OBVIOUS
  <2>1. GoodIn(current, d) => GoodIn(current, d)'
    BY <1>1 DEF GoodIn, Good, Entry, Clean
  <2>2. ASSUME NEW b \in backups, GoodIn(b.lines, d) PROVE GoodIn(current, d) \/ b \in backups'
    BY <1>1, <1>2, <2>2, BackedKeeps
  <2>3. \A b \in backups' : GoodIn(b.lines, d) => Saved(d)'
    BY <1>1 DEF Saved, GoodIn, Good, Entry, Clean
  <2> QED
    BY <2>1, <2>2, <2>3 DEF Saved
<1>5. Copy(c) => \A d \in Calls : GoodIn(current, d)' => (\E b \in backups : GoodIn(b.lines, d))'
  <2> SUFFICES ASSUME Copy(c), NEW d \in Calls, GoodIn(current, d)'
               PROVE  (\E b \in backups : GoodIn(b.lines, d))'
    OBVIOUS
  <2> DEFINE new == [name |-> clock, lines |-> Copied(current)]
  <2>1. new \in backups' /\ new.lines = Copied(current)
    BY DEF Copy, Backed
  <2>2. GoodIn(current, d)
    BY <1>1 DEF GoodIn, Good, Entry, Clean
  <2>3. GoodIn(new.lines, d)
    BY <1>1, <2>1, <2>2, CopiedKeeps DEF TypeOK
  <2> QED
    BY <1>1, <2>1, <2>3 DEF GoodIn, Good, Entry, Clean
<1>6. \A d \in Calls : StepOK(d)'
  <2> SUFFICES ASSUME NEW d \in Calls PROVE StepOK(d)'
    OBVIOUS
  <2>1. d # c => pc[d] \in {"idle", "lock", "done"}
    BY <1>1, OthersOutside DEF Inside
  <2>2. result'[d] = "ok" => Saved(d)'
    BY <1>1, <1>4 DEF KeptInv, StepOK
  <2> QED
    BY <1>1, <1>5, <2>1, <2>2 DEF TypeOK, StepOK
<1> QED
  BY <1>1, <1>3, <1>6 DEF KeptInv, Clean

LEMMA TruncateKeeps ==
  ASSUME Sound, TypeOK, Exclusive, KeptInv, NEW c \in Calls, Truncate(c)
  PROVE  KeptInv'
<1>1. /\ UNCHANGED <<backups, clock, result, faults>>
      /\ UNCHANGED <<current, torn>> \/ (current' = <<>> /\ torn' = 0)
      /\ pc' = [pc EXCEPT ![c] = "reopen"]
      /\ pc[c] = "truncate"
  BY DEF Truncate, Goto
<1>2. NamesOK'
  BY <1>1 DEF KeptInv, NamesOK, Blank, GoodIn, Good, Entry, Clean
<1>3. \A d \in Calls : Saved(d) => Saved(d)'
  <2> SUFFICES ASSUME NEW d \in Calls, Saved(d)
               PROVE  Saved(d)'
    OBVIOUS
  <2>1. CASE UNCHANGED current
    BY <1>1, <2>1 DEF Saved, GoodIn, Good, Entry, Clean
  <2>2. \E b \in backups : GoodIn(b.lines, d)
    BY <1>1 DEF KeptInv, StepOK, Saved
  <2> QED
    BY <1>1, <2>2 DEF Saved, GoodIn, Good, Entry, Clean
<1>4. \A d \in Calls : StepOK(d)'
  <2> SUFFICES ASSUME NEW d \in Calls PROVE StepOK(d)'
    OBVIOUS
  <2>1. d # c => pc[d] \in {"idle", "lock", "done"}
    BY <1>1, OthersOutside DEF Inside
  <2> QED
    BY <1>1, <1>3, <2>1 DEF TypeOK, KeptInv, StepOK
<1> QED
  BY <1>1, <1>2, <1>4 DEF KeptInv, Clean

LEMMA WriteKeeps ==
  ASSUME Sound, TypeOK, Exclusive, KeptInv, NEW c \in Calls, Write(c)
  PROVE  KeptInv'
<1> DEFINE line == [call |-> c, at |-> stamp[c], whole |-> torn = 0, safe |-> FALSE,
                       end |-> Size + LineSize[c]]
<1>0. pc[c] = "write"
  BY DEF Write
<1>1. /\ UNCHANGED <<backups, clock, faults>>
      /\ result' = result \/ result' = [result EXCEPT ![c] = "error"]
      /\ \/ current' = Append(current, line) /\ torn' = 0 /\ pc' = [pc EXCEPT ![c] = "sync"]
         \/ UNCHANGED <<current, torn>> /\ pc' = [pc EXCEPT ![c] = "done"]
  BY DEF Write, Appended, Goto, Return
<1>2. line \in Line /\ current \in Seq(Line)
  BY SizeType DEF Line, TypeOK
<1>3. \A b \in backups : b.name < clock /\ b.name \in Nat
  BY <1>0 DEF KeptInv, StepOK, TypeOK, Backup
<1>4. NamesOK'
  BY <1>1, <1>3 DEF KeptInv, NamesOK, TypeOK
<1>5. \A d \in Calls : Saved(d) => Saved(d)'
  BY <1>1, <1>2, AppendKeeps DEF Saved, GoodIn, Good, Entry, Clean
<1>6. pc'[c] = "sync" => (\E i \in DOMAIN current : Entry(current[i], c))'
  <2> SUFFICES ASSUME pc'[c] = "sync"
               PROVE  \E i \in DOMAIN current' : Entry(current'[i], c)
    BY <1>1 DEF Entry, Clean
  <2>1. current' = Append(current, line)
    BY <1>0, <1>1 DEF TypeOK
  <2>2. Entry(line, c)
    BY DEF Entry, KeptInv
  <2> QED
    BY <1>2, <2>1, <2>2, AppendKeeps
<1>7. \A d \in Calls : StepOK(d)'
  <2> SUFFICES ASSUME NEW d \in Calls PROVE StepOK(d)'
    OBVIOUS
  <2>1. d # c => pc[d] \in {"idle", "lock", "done"}
    BY <1>0, OthersOutside DEF Inside
  <2>2. CASE d = c
    BY <1>0, <1>1, <1>3, <1>5, <1>6, <2>2 DEF TypeOK, KeptInv, StepOK
  <2>3. CASE d # c
    BY <1>0, <1>1, <1>5, <2>1, <2>3 DEF TypeOK, KeptInv, StepOK
  <2> QED
    BY <2>2, <2>3
<1> QED
  BY <1>1, <1>4, <1>7 DEF KeptInv, Clean

LEMMA SyncKeeps ==
  ASSUME Sound, TypeOK, Exclusive, KeptInv, NEW c \in Calls, Sync(c)
  PROVE  KeptInv'
<1>0. pc[c] = "sync" /\ \E i \in DOMAIN current : Entry(current[i], c)
  BY DEF Sync, KeptInv, StepOK
<1>1. /\ UNCHANGED <<backups, clock, torn, faults>>
      /\ current' = Flushed(current) \/ ("power" \notin faults /\ current' = current)
      /\ pc' = [pc EXCEPT ![c] = "done"]
      /\ result' = [result EXCEPT ![c] = "ok"]
  BY DEF Sync, Return, Goto, Sound
<1>2. \A d \in Calls : GoodIn(current, d) => \E i \in DOMAIN current : Entry(current[i], d)
  BY DEF GoodIn, Good
<1>3. \A d \in Calls :
        (\E i \in DOMAIN current : Entry(current[i], d)) => GoodIn(current', d)
  <2> SUFFICES ASSUME NEW d \in Calls, \E i \in DOMAIN current : Entry(current[i], d)
               PROVE  GoodIn(current', d)
    OBVIOUS
  <2>1. CASE current' = Flushed(current)
    BY <2>1, FlushedKeeps DEF TypeOK
  <2>2. CASE "power" \notin faults /\ current' = current
    BY <2>2 DEF GoodIn, Good
  <2> QED
    BY <1>1, <2>1, <2>2
<1>4. \A d \in Calls : GoodIn(current', d) => Saved(d)'
  BY <1>1 DEF Saved, GoodIn, Good, Entry, Clean
<1>5. \A d \in Calls : Saved(d) => Saved(d)'
  BY <1>1, <1>2, <1>3, <1>4 DEF Saved, GoodIn, Good, Entry, Clean
<1>6. \A b \in backups : b.name < clock /\ b.name \in Nat
  BY <1>0 DEF KeptInv, StepOK, TypeOK, Backup
<1>7. NamesOK'
  BY <1>1, <1>6 DEF NamesOK, TypeOK
<1>8. \A d \in Calls : StepOK(d)'
  <2> SUFFICES ASSUME NEW d \in Calls PROVE StepOK(d)'
    OBVIOUS
  <2>1. d # c => pc[d] \in {"idle", "lock", "done"}
    BY <1>0, OthersOutside DEF Inside
  <2> QED
    BY <1>0, <1>1, <1>3, <1>4, <1>5, <2>1 DEF TypeOK, KeptInv, StepOK
<1> QED
  BY <1>1, <1>7, <1>8 DEF KeptInv, Clean

LEMMA PowerLossKeeps ==
  ASSUME Sound, TypeOK, Exclusive, KeptInv, PowerLoss
  PROVE  KeptInv'
<1>1. PICK left : /\ \A b \in backups : left[b] \in Survives(b.lines)
                  /\ backups' = {[b EXCEPT !.lines = left[b]] : b \in backups}
  BY DEF PowerLoss
<1>2. /\ "power" \in faults /\ ~Clean
      /\ current' \in Survives(current)
      /\ UNCHANGED <<clock, faults>>
      /\ \A d \in Calls : pc'[d] \in {"idle", "done"}
      /\ \A d \in Calls : result'[d] = "ok" => result[d] = "ok"
  BY DEF PowerLoss, Dies, Clean, TypeOK
<1>3. \A b \in backups : b.lines \in Seq(Line)
  BY DEF TypeOK, Backup
<1>4. NamesOK'
  <2>1. Blank => Blank'
    BY <1>2, SurvivesEmpty DEF Blank, PowerLoss, Remains
  <2>2. ASSUME NEW b \in backups'
        PROVE  b.name <= clock /\ (b.name = clock => Blank')
    <3>1. PICK old \in backups : b = [old EXCEPT !.lines = left[old]]
      BY <1>1
    <3>2. b.name = old.name
      BY <3>1 DEF TypeOK, Backup
    <3> QED
      BY <1>2, <2>1, <3>2 DEF KeptInv, NamesOK
  <2> QED
    BY <1>2, <2>2 DEF NamesOK
<1>5. \A d \in Calls : Saved(d) => Saved(d)'
  <2> SUFFICES ASSUME NEW d \in Calls, Saved(d) PROVE Saved(d)'
    OBVIOUS
  <2>1. GoodIn(current, d) => GoodIn(current', d)
    BY <1>2, SurvivesKeeps DEF TypeOK
  <2>2. ASSUME NEW b \in backups, GoodIn(b.lines, d)
        PROVE  \E n \in backups' : GoodIn(n.lines, d)
    <3> DEFINE n == [b EXCEPT !.lines = left[b]]
    <3>1. n \in backups' /\ n.lines = left[b]
      BY <1>1 DEF TypeOK, Backup
    <3>2. GoodIn(left[b], d)
      BY <1>1, <1>2, <1>3, <2>2, SurvivesKeeps
    <3> QED
      BY <3>1, <3>2
  <2> QED
    BY <1>2, <2>1, <2>2 DEF Saved, GoodIn, Good, Entry, Clean
<1>6. \A d \in Calls : StepOK(d)'
  BY <1>2, <1>5 DEF KeptInv, StepOK
<1> QED
  BY <1>2, <1>4, <1>6 DEF KeptInv, Clean

(* What may go wrong is settled at the start. *)
LEMMA FaultsFixed == [Next]_vars => faults' = faults
BY DEF Next, vars, Begin, Log, Lock, Rotate, Rename, RenameFails, Copy,
   CopyFails, Truncate, Reopen, Stamp, Write, WriteFails, Sync, Close, Kill,
   PowerLoss, Dies, Restart

LEMMA KeptInvariant == Spec => [](Sound => KeptInv)
<1>1. Sound /\ TypeOK /\ Exclusive /\ KeptInv /\ [Next]_vars => KeptInv'
  BY IdleStepsKeep, StampKeeps, RenameKeeps, CopyKeeps, TruncateKeeps,
     WriteKeeps, SyncKeeps, PowerLossKeeps DEF Next, Log, Rotate
<1>2. [Next]_vars => (Sound <=> Sound')
  BY FaultsFixed DEF Sound
<1> QED
  BY <1>1, <1>2, KeptInit, LogTypeCorrect, MutexHolds, PTL DEF Spec

(* An entry that Log reported as written stays in the log or in a backup,
   whatever goes wrong in rotations, in writes and with the process, if
   rotations are a second apart and, where power may fail too, renaming and
   flushing do not; where no write stops half-way, it has its own line. *)
THEOREM EntriesKept == Spec => []AckedKept
<1>1. (Sound => KeptInv) => AckedKept
  <2> SUFFICES ASSUME KeptInv, NEW c \in Calls, result[c] = "ok"
               PROVE  \E f \in Files : Holds(f, c) /\ (Clean => HoldsWhole(f, c))
    BY DEF AckedKept
  <2>1. Saved(c)
    BY DEF KeptInv, StepOK
  <2>2. \A f : GoodIn(f, c) => Holds(f, c) /\ (Clean => HoldsWhole(f, c))
    BY DEF GoodIn, Good, Entry, Holds, HoldsWhole
  <2> QED
    BY <2>1, <2>2 DEF Saved, Files
<1> QED
  BY <1>1, KeptInvariant, PTL

-----------------------------------------------------------------------------
(* The file of a logger that nobody closed is closed only while a call is
   rotating it. *)
OpenInv ==
  /\ handle = "closed" /\ ~shut => \E c \in Calls : pc[c] \in {"copy", "truncate", "reopen"}
  /\ handle = "down" => \A c \in Calls : pc[c] \in {"idle", "done"}
  /\ \A c \in Calls : result[c] = "error" => shut

LEMMA OpenInvariant == Spec => [](Reliable => OpenInv)
<1>1. Init => OpenInv
  BY DEF Init, OpenInv
<1>2. Reliable /\ TypeOK /\ Exclusive /\ OpenInv /\ [Next]_vars => OpenInv'
  <2> SUFFICES ASSUME Reliable, TypeOK, Exclusive, OpenInv, [Next]_vars
               PROVE  OpenInv'
    OBVIOUS
  <2> USE DEF TypeOK, OpenInv, Goto, Return, files
  <2>1. ASSUME NEW c \in Calls, Begin(c) PROVE OpenInv'
    BY <2>1 DEF Begin
  <2>2. ASSUME NEW c \in Calls, Lock(c) PROVE OpenInv'
    BY <2>2 DEF Lock, Inside
  <2>3. ASSUME NEW c \in Calls, Rotate(c) PROVE OpenInv'
    BY <2>3 DEF Rotate, Rename, RenameFails, Copy, CopyFails, Truncate, Reopen,
       Reliable
  <2>4. ASSUME NEW c \in Calls, Stamp(c) \/ Write(c) \/ WriteFails(c) \/ Sync(c)
        PROVE  OpenInv'
    <3>1. \A d \in Calls : d # c => pc[d] \in {"idle", "lock", "done"}
      BY <2>4, OthersOutside DEF Stamp, Write, WriteFails, Sync, Inside
    <3>2. handle = "closed" => shut
      BY <2>4, <3>1 DEF Stamp, Write, WriteFails, Sync
    <3> QED
      BY <2>4, <3>1, <3>2 DEF Stamp, Write, WriteFails, Sync, Reliable
  <2>5. CASE Close \/ Restart \/ UNCHANGED vars
    BY <2>5 DEF Close, Restart, vars
  <2>6. CASE Kill \/ PowerLoss
    BY <2>6 DEF Kill, PowerLoss, Dies
  <2> QED
    BY <2>1, <2>2, <2>3, <2>4, <2>5, <2>6 DEF Next, Log
<1>3. [Next]_vars => (Reliable <=> Reliable')
  BY FaultsFixed DEF Reliable
<1> QED
  BY <1>1, <1>2, <1>3, LogTypeCorrect, MutexHolds, PTL DEF Spec

(* A rotation that can copy what it cannot rename costs no entry: Log fails
   only once the logger has been closed. *)
THEOREM RotationsTolerated == Spec => []RotationTolerated
<1>1. (Reliable => OpenInv) => RotationTolerated
  BY DEF OpenInv, RotationTolerated
<1> QED
  BY <1>1, OpenInvariant, PTL

-----------------------------------------------------------------------------
(* The size of the file, where no rotation leaves its lines in place. *)
Rotating == faults \intersect {"truncate", "copy"} = {}

Rising(file) == \A i, j \in DOMAIN file : i <= j => file[i].end <= file[j].end

SizeInv ==
  /\ Size <= MaxSize + LongestLine
  /\ Rising(current)
  /\ \A c \in Calls : pc[c] = "reopen" => Size = 0
  /\ handle = "open" => \A c \in Calls : pc[c] \in {"stamp", "write"} => Size <= MaxSize
  /\ handle = "down" => \A c \in Calls : pc[c] \in {"idle", "done"}

LEMMA EndOfWhole ==
  ASSUME NEW s \in Seq(Line)
  PROVE  EndOf(s) = IF Len(s) = 0 THEN 0 ELSE s[Len(s)].end
BY EmptySeq, LenProperties DEF EndOf

(* What a power loss leaves of a file has no more bytes than the file had. *)
LEMMA RemainsFit ==
  ASSUME TypeOK, Rising(current), PowerLoss
  PROVE  Size' <= Size /\ Rising(current')
<1>1. PICK n \in 0..Len(current) : current' = SubSeq(current, 1, n)
  BY DEF PowerLoss, Survives
<1>2. current \in Seq(Line) /\ torn \in Nat /\ DOMAIN current = 1..Len(current) /\ Len(current) \in Nat
  BY LenProperties DEF TypeOK
<1>3. \A i \in 1..n : i \in DOMAIN current
  BY <1>2
<1>4. Rising(current')
  BY <1>1, <1>2, <1>3, PrefixType DEF Rising
<1>5. EndOf(current') \in Nat /\ EndOf(current) \in Nat
  BY <1>1, <1>2, SizeType, PrefixType
<1>6. CASE current' = current
  <2>1. torn' \in 0..torn
    BY <1>6 DEF PowerLoss, Remains
  <2> QED
    BY <1>2, <1>4, <1>5, <1>6, <2>1 DEF Size
<1>7. CASE current' # current
  <2>1. n # Len(current)
    <3>1. SubSeq(current, 1, Len(current)) = current
      BY <1>2
    <3> QED
      BY <1>1, <1>7, <3>1
  <2>2. n + 1 \in DOMAIN current /\ Len(current') = n
    <3>1. Len(SubSeq(current, 1, n)) = n
      BY <1>2
    <3>2. n + 1 \in 1..Len(current)
      <4>1. \A m \in Nat : \A k \in 0..m : k # m => k + 1 \in 1..m
        OBVIOUS
      <4>2. n \in 0..Len(current) /\ Len(current) \in Nat
        BY <1>1, <1>2, Zenon
      <4> QED
        BY <2>1, <4>1, <4>2, Zenon
    <3>3. n + 1 \in DOMAIN current
      BY <1>2, <3>2
    <3>4. Len(current') = n
      BY <1>1, <3>1
    <3> QED
      BY <3>3, <3>4
  <2>3. torn' \in 0..(current[n + 1].end - EndOf(current') - 1)
    BY <1>7, <2>2 DEF PowerLoss, Remains
  <2>4. current[n + 1].end \in Nat
    <3>1. current[n + 1] \in Line
      BY <1>2, <2>2
    <3> QED
      BY <3>1 DEF Line
  <2>5. current[n + 1].end <= current[Len(current)].end /\ Len(current) # 0
    BY <1>2, <2>2 DEF Rising
  <2>6. EndOf(current) = current[Len(current)].end
    BY <1>2, <2>5, EndOfWhole
  <2> QED
    BY <1>2, <1>4, <1>5, <2>3, <2>4, <2>5, <2>6 DEF Size
<1> QED
  BY <1>6, <1>7

(* A line ends its own bytes after whatever the file had before it. *)
LEMMA WriteFits ==
  ASSUME TypeOK, Rising(current), NEW c \in Calls,
         current' = Appended(c), torn' = 0
  PROVE  Size' = Size + LineSize[c] /\ Rising(current')
<1> DEFINE line == [call |-> c, at |-> stamp[c], whole |-> torn = 0, safe |-> FALSE,
                    end |-> Size + LineSize[c]]
<1>1. /\ Size \in Nat /\ LineSize[c] \in Nat /\ current \in Seq(Line) /\ torn \in Nat
      /\ EndOf(current) \in Nat
  BY SizeType DEF TypeOK
<1>2. line \in Line /\ line.end = Size + LineSize[c]
  BY <1>1 DEF Line, TypeOK
<1>3. current' = Append(current, line)
  BY DEF Appended
<1> HIDE DEF line
<1>4. /\ Len(current') = Len(current) + 1 /\ Len(current) \in Nat
      /\ \A i \in 1..Len(current) : current'[i] = current[i]
      /\ current'[Len(current) + 1] = line
      /\ DOMAIN current' = 1..(Len(current) + 1) /\ DOMAIN current = 1..Len(current)
      /\ current' \in Seq(Line)
  BY <1>1, <1>2, <1>3, AppendProperties, LenProperties
<1>5. EndOf(current') = Size + LineSize[c]
  BY <1>2, <1>4, EndOfWhole
<1>6. \A i \in DOMAIN current : current[i].end <= line.end
  <2> SUFFICES ASSUME NEW i \in DOMAIN current PROVE current[i].end <= line.end
    OBVIOUS
  <2>1. /\ i \in 1..Len(current) /\ Len(current) # 0
        /\ current[i] \in Line /\ current[Len(current)] \in Line
    BY <1>1, <1>4
  <2>2. current[i].end <= current[Len(current)].end
    BY <1>4, <2>1 DEF Rising
  <2>3. EndOf(current) = current[Len(current)].end
    BY <1>1, <2>1, EndOfWhole
  <2>4. current[i].end \in Nat
    BY <2>1 DEF Line
  <2> QED
    BY <1>1, <1>2, <2>2, <2>3, <2>4 DEF Size
<1>7. line.end \in Nat
  BY <1>1, <1>2
<1>8. Rising(current')
  <2> SUFFICES ASSUME NEW i \in 1..(Len(current) + 1), NEW j \in 1..(Len(current) + 1), i <= j
               PROVE  current'[i].end <= current'[j].end
    BY <1>4 DEF Rising
  <2>1. CASE j = Len(current) + 1 /\ i = j
    BY <1>4, <1>7, <2>1
  <2>2. CASE j = Len(current) + 1 /\ i # j
    BY <1>4, <1>6, <2>2
  <2>3. CASE j # Len(current) + 1
    BY <1>4, <2>3 DEF Rising
  <2> QED
    BY <2>1, <2>2, <2>3
<1> QED
  BY <1>1, <1>5, <1>8 DEF Size

LEMMA FlushFits ==
  ASSUME NEW s \in Seq(Line), Rising(s)
  PROVE  EndOf(Flushed(s)) = EndOf(s) /\ Rising(Flushed(s))
<1>1. /\ Flushed(s) \in Seq(Line) /\ DOMAIN Flushed(s) = DOMAIN s /\ Len(Flushed(s)) = Len(s)
      /\ DOMAIN s = 1..Len(s) /\ Len(s) \in Nat
  BY FlushedType, LenProperties
<1>2. \A i \in DOMAIN s : Flushed(s)[i].end = s[i].end
  <2>1. \A i \in DOMAIN s : s[i] \in Line
    OBVIOUS
  <2> QED
    BY <2>1 DEF Flushed, Line
<1>3. Rising(Flushed(s))
  BY <1>1, <1>2 DEF Rising
<1>4. EndOf(Flushed(s)) = EndOf(s)
  BY <1>1, <1>2, EndOfWhole
<1> QED
  BY <1>3, <1>4

(* For entries of any sizes and any limit, the file is longer than its limit by the
   bytes of one line at most, with the unfinished lines that failed writes and lost
   power leave in it, as long as rotation can copy what it cannot rename, and
   truncate (auditlog.go, Log and rotate). *)
THEOREM SizeStaysBounded == Spec => []SizeBounded
<1>1. Init => SizeInv
  <2> SUFFICES ASSUME Init PROVE SizeInv
    OBVIOUS
  <2>1. current = <<>> /\ Size = 0
    BY DEF Init, Size, EndOf
  <2> QED
    BY <2>1, SizeAssumption DEF Init, SizeInv, Rising
<1>2. Rotating /\ TypeOK /\ Exclusive /\ SizeInv /\ [Next]_vars => SizeInv'
  <2> SUFFICES ASSUME Rotating, TypeOK, Exclusive, SizeInv, [Next]_vars
               PROVE  SizeInv'
    OBVIOUS
  <2>0. Size \in Nat /\ MaxSize \in Nat /\ LongestLine \in Nat
    BY SizeType
  <2>1. ASSUME NEW c \in Calls,
               Begin(c) \/ Lock(c) \/ RenameFails(c) \/ Copy(c) \/ Reopen(c) \/ Stamp(c)
        PROVE  SizeInv'
    <3>0. UNCHANGED <<current, torn>>
      BY <2>1 DEF Begin, Lock, RenameFails, Copy, Reopen, Stamp, files
    <3>1. UNCHANGED current /\ Size' = Size
      BY <3>0 DEF Size
    <3>2. CASE Begin(c)
      BY <3>1, <3>2 DEF Begin, Goto, files, SizeInv, TypeOK
    <3>6. CASE Lock(c)
      <4>1. handle # "down" /\ handle' = handle
        BY <3>6 DEF Lock, SizeInv, files
      <4>2. handle = "open" /\ Size > MaxSize => pc'[c] = "rename"
        BY <3>6 DEF Lock, Goto, TypeOK
      <4>3. \A d \in Calls : pc'[d] # "reopen" /\ (pc'[d] \in {"stamp", "write"} => d = c)
        BY <3>6 DEF Lock, Goto, Inside, TypeOK
      <4>4. ~(Size > MaxSize) => Size <= MaxSize
        BY <2>0
      <4> QED
        BY <3>1, <4>1, <4>2, <4>3, <4>4 DEF SizeInv
    <3>3. CASE RenameFails(c) \/ Copy(c)
      BY <3>1, <3>3 DEF RenameFails, Copy, Goto, SizeInv, Inside, TypeOK
    <3>4. CASE Reopen(c)
      <4>1. Size = 0 /\ 0 <= MaxSize /\ handle # "down"
        BY <3>4, <2>0 DEF Reopen, SizeInv, Inside
      <4> QED
        BY <3>1, <3>4, <4>1 DEF Reopen, Goto, SizeInv, Inside, TypeOK
    <3>5. CASE Stamp(c)
      BY <3>1, <3>5 DEF Stamp, Goto, files, SizeInv, Inside, TypeOK
    <3> QED
      BY <2>1, <3>2, <3>3, <3>4, <3>5, <3>6
  <2>2. ASSUME NEW c \in Calls, Rename(c) \/ Truncate(c) PROVE SizeInv'
    <3>1. current' = <<>> /\ torn' = 0
      BY <2>2 DEF Rename, Truncate, Rotating
    <3>2. Size' = 0 /\ 0 <= MaxSize /\ 0 <= MaxSize + LongestLine
      BY <3>1, <2>0 DEF Size, EndOf
    <3>3. handle # "down"
      BY <2>2 DEF Rename, Truncate, SizeInv, Inside
    <3>4. Rising(current')
      BY <3>1 DEF Rising
    <3> QED
      BY <2>2, <3>2, <3>3, <3>4 DEF Rename, Truncate, SizeInv, Inside
  <2>3. ASSUME NEW c \in Calls, CopyFails(c) PROVE SizeInv'
    BY <2>3 DEF CopyFails, Rotating
  <2>4. ASSUME NEW c \in Calls, Write(c) \/ WriteFails(c) PROVE SizeInv'
    <3>1. \A d \in Calls : d # c => ~Inside(d)
      BY <2>4, OthersOutside DEF Write, WriteFails, Inside
    <3>2. /\ \A d \in Calls : pc'[d] \notin {"reopen", "stamp", "write"}
          /\ handle' = handle /\ handle # "down"
      BY <2>4, <3>1 DEF Write, WriteFails, Return, Goto, SizeInv, Inside, TypeOK
    <3>3. \/ handle = "open" /\ current' = Appended(c) /\ torn' = 0
          \/ /\ handle = "open" /\ UNCHANGED current
             /\ \E written \in 0..(LineSize[c] - 1) : torn' = torn + written
          \/ UNCHANGED <<current, torn>>
      BY <2>4 DEF Write, WriteFails
    <3>4. handle = "open" => Size <= MaxSize
      BY <2>4 DEF Write, WriteFails, SizeInv
    <3>5. LineSize[c] \in Nat /\ LineSize[c] <= LongestLine
      BY SizeType
    <3>6. CASE handle = "open" /\ current' = Appended(c) /\ torn' = 0
      <4>1. Size' = Size + LineSize[c] /\ Rising(current')
        BY <3>6, WriteFits DEF SizeInv
      <4>2. Size' <= MaxSize + LongestLine
        BY <2>0, <3>4, <3>5, <3>6, <4>1
      <4> QED
        BY <3>2, <4>1, <4>2 DEF SizeInv
    <3>7. CASE /\ handle = "open" /\ UNCHANGED current
               /\ \E written \in 0..(LineSize[c] - 1) : torn' = torn + written
      <4>1. PICK written \in 0..(LineSize[c] - 1) : torn' = torn + written
        BY <3>7
      <4>2. EndOf(current) \in Nat /\ torn \in Nat
        BY SizeType DEF TypeOK
      <4>3. Size' = Size + written
        BY <3>5, <3>7, <4>1, <4>2 DEF Size
      <4>4. Size' <= MaxSize + LongestLine
        BY <2>0, <3>4, <3>5, <3>7, <4>3
      <4> QED
        BY <3>2, <3>7, <4>4 DEF SizeInv
    <3>8. CASE UNCHANGED <<current, torn>>
      BY <3>2, <3>8 DEF Size, SizeInv
    <3> QED
      BY <3>3, <3>6, <3>7, <3>8
  <2>5. ASSUME NEW c \in Calls, Sync(c) PROVE SizeInv'
    <3>1. EndOf(current') = EndOf(current) /\ Rising(current')
      BY <2>5, FlushFits DEF Sync, SizeInv, TypeOK
    <3>2. Size' = Size
      BY <2>5, <3>1 DEF Sync, Size
    <3> QED
      BY <2>5, <3>1, <3>2 DEF Sync, Return, Goto, SizeInv, Inside, TypeOK
  <2>6. CASE Close \/ Restart
    BY <2>6 DEF Close, Restart, Size, SizeInv, Inside
  <2>7. CASE Kill \/ PowerLoss
    <3>1. Size' <= Size /\ Rising(current') /\ Size' \in Int
      <4>1. CASE Kill
        BY <2>0, <4>1 DEF Kill, Size, SizeInv
      <4>2. CASE PowerLoss
        <5>1. current' \in Seq(Line) /\ torn' \in Int
          <6>1. current' \in Seq(Line)
            BY <4>2, SurvivesType DEF PowerLoss, TypeOK
          <6>2. torn' \in Int
            BY <4>2 DEF PowerLoss, Remains
          <6> QED
            BY <6>1, <6>2
        <5>2. Size' \in Int
          BY <5>1, SizeType DEF Size
        <5> QED
          BY <4>2, <5>2, RemainsFit DEF SizeInv
      <4> QED
        BY <2>7, <4>1, <4>2
    <3>3. Size' <= MaxSize + LongestLine
      BY <2>0, <3>1 DEF SizeInv
    <3>4. handle' = "down" /\ \A c \in Calls : pc'[c] \in {"idle", "done"}
      BY <2>7 DEF Kill, PowerLoss, Dies
    <3> QED
      BY <3>1, <3>3, <3>4 DEF SizeInv, Inside
  <2>8. CASE UNCHANGED vars
    BY <2>8 DEF vars, Size, SizeInv, Inside
  <2> QED
    BY <2>1, <2>2, <2>3, <2>4, <2>5, <2>6, <2>7, <2>8 DEF Next, Log, Rotate
<1>3. [Next]_vars => (Rotating <=> Rotating')
  BY FaultsFixed DEF Rotating
<1>4. (Rotating => SizeInv) => SizeBounded
  BY DEF Rotating, SizeInv, SizeBounded
<1> QED
  BY <1>1, <1>2, <1>3, <1>4, LogTypeCorrect, MutexHolds, PTL DEF Spec

-----------------------------------------------------------------------------
(* Time stamps: no line is from the future, and the call that is about to write
   has a stamp that no line of the file is later than. *)
Sorted(f) == \A i, j \in DOMAIN f : i < j => f[i].at <= f[j].at
Before(f, t) == \A i \in DOMAIN f : f[i].at <= t

ChronoInv ==
  /\ Sorted(current) /\ Before(current, clock)
  /\ \A c \in Calls : pc[c] = "write" => Before(current, stamp[c]) /\ stamp[c] <= clock
  /\ \A b \in backups : Sorted(b.lines) /\ Before(b.lines, b.name)

LEMMA PrefixSorted ==
  ASSUME NEW s \in Seq(Line), Sorted(s), NEW t \in Nat, Before(s, t), NEW n \in 0..Len(s)
  PROVE  Sorted(SubSeq(s, 1, n)) /\ Before(SubSeq(s, 1, n), t)
<1>1. \A i \in 1..n : i \in DOMAIN s
  OBVIOUS
<1> QED
  BY <1>1, PrefixType DEF Sorted, Before

LEMMA SurvivesSorted ==
  ASSUME NEW s \in Seq(Line), Sorted(s), NEW t \in Nat, Before(s, t), NEW r \in Survives(s)
  PROVE  Sorted(r) /\ Before(r, t)
BY PrefixSorted DEF Survives

LEMMA FlushedSorted ==
  ASSUME NEW s \in Seq(Line), Sorted(s), NEW t \in Nat, Before(s, t)
  PROVE  /\ Sorted(Flushed(s)) /\ Before(Flushed(s), t)
         /\ Sorted(Copied(s)) /\ Before(Copied(s), t)
<1>1. \A i \in DOMAIN s : s[i] \in Line
  OBVIOUS
<1>2. \A i \in DOMAIN s : Flushed(s)[i].at = s[i].at /\ Copied(s)[i].at = s[i].at
  BY <1>1 DEF Flushed, Copied, Line
<1> QED
  BY <1>2, FlushedType DEF Sorted, Before

LEMMA BackedSorted ==
  ASSUME ChronoInv, NEW lines, Sorted(lines), Before(lines, clock),
         NEW b \in Backed(clock, lines)
  PROVE  Sorted(b.lines) /\ Before(b.lines, b.name)
BY DEF ChronoInv, Backed

(* The lines of every file are in the order of their time stamps, and a backup
   has none later than its name, whatever fails, in any second. *)
THEOREM TimesStayOrdered == Spec => []Chronological
<1>1. Init => ChronoInv
  BY DEF Init, ChronoInv, Sorted, Before
<1>2. TypeOK /\ Exclusive /\ ChronoInv /\ [Next]_vars => ChronoInv'
  <2> SUFFICES ASSUME TypeOK, Exclusive, ChronoInv, [Next]_vars PROVE ChronoInv'
    OBVIOUS
  <2>0. /\ clock \in Nat /\ current \in Seq(Line)
        /\ \A i \in DOMAIN current : current[i].at \in Nat
    <3>1. clock \in Nat /\ current \in Seq(Line)
      BY DEF TypeOK
    <3>2. \A i \in DOMAIN current : current[i] \in Line
      BY <3>1
    <3> QED
      BY <3>1, <3>2 DEF Line
  <2>1. ASSUME NEW c \in Calls, Begin(c) \/ Lock(c) \/ RenameFails(c) \/ Reopen(c) \/ WriteFails(c)
        PROVE  ChronoInv'
    <3>1. /\ UNCHANGED <<current, backups, clock, stamp>>
          /\ \A d \in Calls : pc'[d] = "write" => pc[d] = "write"
      <4>1. CASE Begin(c) \/ Lock(c)
        BY <4>1 DEF Begin, Lock, Goto, files, TypeOK
      <4>2. CASE RenameFails(c) \/ Reopen(c)
        BY <4>2 DEF RenameFails, Reopen, Goto, TypeOK
      <4>3. CASE WriteFails(c)
        BY <4>3 DEF WriteFails, Return, Goto, TypeOK
      <4> QED
        BY <2>1, <4>1, <4>2, <4>3
    <3> QED
      BY <3>1 DEF ChronoInv
  <2>2. ASSUME NEW c \in Calls, Rename(c) \/ Copy(c) \/ CopyFails(c) \/ Truncate(c)
        PROVE  ChronoInv'
    <3>1. /\ UNCHANGED <<clock, stamp>>
          /\ current' = current \/ current' = <<>>
          /\ \A d \in Calls : pc'[d] = "write" => pc[d] = "write"
      BY <2>2 DEF Rename, Copy, CopyFails, Truncate, Goto, TypeOK
    <3>2. \A t : Sorted(<<>>) /\ Before(<<>>, t)
      BY DEF Sorted, Before
    <3>3. \A n \in 0..Len(current) : /\ SubSeq(current, 1, n) \in Seq(Line)
                                     /\ Sorted(SubSeq(current, 1, n))
                                     /\ Before(SubSeq(current, 1, n), clock)
      BY <2>0, PrefixType, PrefixSorted DEF ChronoInv
    <3>4. /\ Sorted(Copied(current)) /\ Before(Copied(current), clock)
          /\ \A n \in 0..Len(current) : /\ Sorted(Copied(SubSeq(current, 1, n)))
                                        /\ Before(Copied(SubSeq(current, 1, n)), clock)
      BY <2>0, <3>3, FlushedSorted DEF ChronoInv
    <3>5. \A b \in backups' : Sorted(b.lines) /\ Before(b.lines, b.name)
      <4>1. CASE Rename(c)
        BY <4>1, BackedSorted DEF Rename, ChronoInv
      <4>2. CASE Copy(c)
        BY <4>2, <3>4, BackedSorted DEF Copy, ChronoInv
      <4>3. CASE CopyFails(c)
        BY <4>3, <3>4, BackedSorted DEF CopyFails, ChronoInv
      <4>4. CASE Truncate(c)
        BY <4>4 DEF Truncate, ChronoInv
      <4> QED
        BY <2>2, <4>1, <4>2, <4>3, <4>4
    <3>6. /\ Sorted(current') /\ Before(current', clock)
          /\ \A t : Before(current, t) => Before(current', t)
      BY <3>1, <3>2 DEF ChronoInv
    <3> QED
      BY <3>1, <3>5, <3>6 DEF ChronoInv
  <2>3. ASSUME NEW c \in Calls, Stamp(c) PROVE ChronoInv'
    <3>1. /\ UNCHANGED <<current, backups>> /\ clock' \in {clock, clock + 1}
          /\ stamp'[c] = clock /\ \A d \in Calls : d # c => stamp'[d] = stamp[d]
      BY <2>3 DEF Stamp, files, TypeOK
    <3>2. \A d \in Calls : pc'[d] = "write" => d = c
      BY <2>3, OthersOutside DEF Stamp, Goto, Inside, TypeOK
    <3>3. clock <= clock' /\ Before(current, clock) /\ Before(current, clock')
      BY <2>0, <3>1 DEF ChronoInv, Before
    <3> QED
      BY <3>1, <3>2, <3>3 DEF ChronoInv
  <2>4. ASSUME NEW c \in Calls, Write(c) PROVE ChronoInv'
    <3>1. \A d \in Calls : pc'[d] # "write"
      BY <2>4, OthersOutside DEF Write, Goto, Return, Inside, TypeOK
    <3>2. CASE current' = current
      BY <2>4, <3>1, <3>2 DEF Write, ChronoInv
    <3>3. CASE current' = Appended(c)
      <4>1. /\ Before(current, stamp[c]) /\ stamp[c] <= clock /\ stamp[c] \in Nat
        BY <2>4 DEF Write, ChronoInv, TypeOK
      <4>2. /\ DOMAIN current' = 1..Len(current) + 1 /\ Len(current) \in Nat
            /\ \A i \in DOMAIN current : current'[i] = current[i]
            /\ DOMAIN current = 1..Len(current)
            /\ current'[Len(current) + 1].at = stamp[c]
        BY <2>0, <3>3 DEF Appended
      <4>3. \A i \in DOMAIN current' : i \in DOMAIN current \/ i = Len(current) + 1
        BY <4>2
      <4>4. Before(current', stamp[c])
        BY <4>1, <4>2, <4>3 DEF Before
      <4>5. Before(current', clock)
        BY <4>1, <4>2, <4>3 DEF Before, ChronoInv
      <4>6. Sorted(current')
        <5> SUFFICES ASSUME NEW i \in DOMAIN current', NEW j \in DOMAIN current', i < j
                     PROVE  current'[i].at <= current'[j].at
          BY DEF Sorted
        <5>1. i \in DOMAIN current
          BY <4>2
        <5>2. CASE j \in DOMAIN current
          BY <4>2, <5>1, <5>2 DEF ChronoInv, Sorted
        <5>3. CASE j = Len(current) + 1
          BY <4>2, <4>4, <5>3 DEF Before
        <5> QED
          BY <4>3, <5>2, <5>3
      <4> QED
        BY <2>4, <3>1, <4>5, <4>6 DEF Write, ChronoInv
    <3> QED
      BY <2>4, <3>2, <3>3 DEF Write
  <2>5. ASSUME NEW c \in Calls, Sync(c) PROVE ChronoInv'
    <3>1. /\ UNCHANGED <<clock, backups>>
          /\ \A d \in Calls : pc'[d] # "write"
      BY <2>5, OthersOutside DEF Sync, Goto, Return, Inside, TypeOK
    <3>2. Sorted(current') /\ Before(current', clock)
      BY <2>0, <2>5, FlushedSorted DEF Sync, ChronoInv
    <3> QED
      BY <3>1, <3>2 DEF ChronoInv
  <2>6. CASE Close \/ Restart \/ UNCHANGED vars
    BY <2>6 DEF Close, Restart, vars, ChronoInv
  <2>7. CASE Kill \/ PowerLoss
    <3>1. /\ UNCHANGED <<clock, stamp>>
          /\ \A d \in Calls : pc'[d] # "write"
      BY <2>7 DEF Kill, PowerLoss, Dies
    <3>2. CASE Kill
      BY <3>1, <3>2 DEF Kill, ChronoInv
    <3>3. CASE PowerLoss
      <4>1. Sorted(current') /\ Before(current', clock)
        BY <2>0, <3>3, SurvivesSorted DEF PowerLoss, ChronoInv
      <4>2. PICK left \in [backups -> UNION {Survives(b.lines) : b \in backups}] :
              /\ \A b \in backups : left[b] \in Survives(b.lines)
              /\ backups' = {[b EXCEPT !.lines = left[b]] : b \in backups}
        BY <3>3 DEF PowerLoss
      <4>3. \A b \in backups : Sorted(left[b]) /\ Before(left[b], b.name)
        <5> SUFFICES ASSUME NEW b \in backups PROVE Sorted(left[b]) /\ Before(left[b], b.name)
          OBVIOUS
        <5>1. b.lines \in Seq(Line) /\ b.name \in Nat /\ left[b] \in Survives(b.lines)
          BY <4>2 DEF TypeOK, Backup
        <5> QED
          BY <5>1, SurvivesSorted DEF ChronoInv
      <4>4. \A b \in backups' : Sorted(b.lines) /\ Before(b.lines, b.name)
        <5> SUFFICES ASSUME NEW n \in backups' PROVE Sorted(n.lines) /\ Before(n.lines, n.name)
          OBVIOUS
        <5>1. PICK b \in backups : n = [b EXCEPT !.lines = left[b]]
          BY <4>2
        <5>2. n.lines = left[b] /\ n.name = b.name
          BY <5>1 DEF TypeOK, Backup
        <5> QED
          BY <4>3, <5>2
      <4> QED
        BY <3>1, <4>1, <4>4 DEF ChronoInv
    <3> QED
      BY <2>7, <3>2, <3>3
  <2> QED
    BY <2>1, <2>2, <2>3, <2>4, <2>5, <2>6, <2>7 DEF Next, Log, Rotate
<1>3. ChronoInv => Chronological
  BY DEF ChronoInv, Chronological, Files, Sorted, Before
<1> QED
  BY <1>1, <1>2, <1>3, LogTypeCorrect, MutexHolds, PTL DEF Spec

-----------------------------------------------------------------------------
(* The refinement of Journal: what a reader of all the files finds.  First
   what the operations on files do to the calls that have a line in one. *)
CallsIn(file) == {c \in Calls : Holds(file, c)}

LEMMA StoredIs ==
  ASSUME NEW c
  PROVE  c \in Stored <=> \/ c \in CallsIn(current)
                         \/ \E b \in backups : c \in CallsIn(b.lines)
BY DEF Stored, Files, CallsIn

LEMMA EmptyCalls == CallsIn(<<>>) = {}
BY DEF CallsIn, Holds

LEMMA FlushedCalls ==
  ASSUME NEW s \in Seq(Line)
  PROVE  CallsIn(Flushed(s)) = CallsIn(s) /\ CallsIn(Copied(s)) = CallsIn(s)
<1>1. \A i \in DOMAIN s : s[i] \in Line
  OBVIOUS
<1>2. \A i \in DOMAIN s : Flushed(s)[i].call = s[i].call /\ Copied(s)[i].call = s[i].call
  BY <1>1 DEF Flushed, Copied, Line
<1> QED
  BY <1>2, FlushedType DEF CallsIn, Holds

LEMMA PrefixCalls ==
  ASSUME NEW s \in Seq(Line), NEW n \in 0..Len(s)
  PROVE  CallsIn(SubSeq(s, 1, n)) \subseteq CallsIn(s)
<1>1. \A i \in 1..n : i \in DOMAIN s
  OBVIOUS
<1> QED
  BY <1>1, PrefixType DEF CallsIn, Holds

LEMMA SurvivesCalls ==
  ASSUME NEW s \in Seq(Line), NEW t \in Survives(s)
  PROVE  CallsIn(t) \subseteq CallsIn(s)
BY PrefixCalls DEF Survives

LEMMA AppendCalls ==
  ASSUME NEW s \in Seq(Line), NEW l \in Line
  PROVE  CallsIn(Append(s, l)) = CallsIn(s) \union {l.call}
<1>1. l.call \in Calls
  BY DEF Line
<1>2. \A i \in DOMAIN Append(s, l) :
        \/ i \in DOMAIN s /\ Append(s, l)[i] = s[i]
        \/ Append(s, l)[i] = l
  OBVIOUS
<1> QED
  BY <1>1, <1>2, AppendKeeps DEF CallsIn, Holds

(* As long as no line is left unfinished, every entry has a line of its own. *)
AllWhole(file) == \A i \in DOMAIN file : file[i].whole

WholeInv ==
  Clean => /\ torn = 0
           /\ AllWhole(current)
           /\ \A b \in backups : AllWhole(b.lines)

LEMMA WholeFiles ==
  ASSUME NEW s \in Seq(Line), AllWhole(s)
  PROVE  /\ AllWhole(Flushed(s)) /\ AllWhole(Copied(s))
         /\ \A n \in 0..Len(s) : AllWhole(Copied(SubSeq(s, 1, n)))
         /\ \A l \in Line : l.whole => AllWhole(Append(s, l))
<1>1. ASSUME NEW t \in Seq(Line), AllWhole(t)
      PROVE  AllWhole(Flushed(t)) /\ AllWhole(Copied(t))
  <2>1. \A i \in DOMAIN t : t[i] \in Line
    OBVIOUS
  <2> QED
    BY <1>1, <2>1, FlushedType DEF AllWhole, Flushed, Copied, Line
<1>2. \A n \in 0..Len(s) : AllWhole(SubSeq(s, 1, n))
  <2>1. \A n \in 0..Len(s) : \A i \in 1..n : i \in DOMAIN s
    OBVIOUS
  <2> QED
    BY <2>1, PrefixType DEF AllWhole
<1>3. \A l \in Line : l.whole => AllWhole(Append(s, l))
  BY DEF AllWhole
<1> QED
  BY <1>1, <1>2, <1>3, PrefixType

LEMMA WholeInvariant == Spec => []WholeInv
<1>1. Init => WholeInv
  BY DEF Init, WholeInv, AllWhole
<1>2. TypeOK /\ WholeInv /\ [Next]_vars => WholeInv'
  <2> SUFFICES ASSUME TypeOK, WholeInv, [Next]_vars, Clean PROVE WholeInv'
    BY FaultsFixed DEF WholeInv, Clean
  <2>0. /\ torn = 0 /\ AllWhole(current) /\ \A b \in backups : AllWhole(b.lines)
        /\ current \in Seq(Line)
    BY DEF WholeInv, TypeOK
  <2>1. ASSUME NEW c \in Calls,
               \/ Begin(c) \/ Lock(c) \/ RenameFails(c) \/ Reopen(c) \/ Stamp(c)
        PROVE  WholeInv'
    BY <2>0, <2>1 DEF Begin, Lock, RenameFails, Reopen, Stamp, files, WholeInv
  <2>2. ASSUME NEW lines, AllWhole(lines), backups' = Backed(clock, lines)
        PROVE  \A b \in backups' : AllWhole(b.lines)
    BY <2>0, <2>2 DEF Backed
  <2>3. ASSUME NEW c \in Calls, Rename(c) PROVE WholeInv'
    BY <2>0, <2>2, <2>3 DEF Rename, WholeInv, AllWhole
  <2>4. ASSUME NEW c \in Calls, Copy(c) \/ CopyFails(c) PROVE WholeInv'
    <3>1. UNCHANGED <<current, torn>>
      BY <2>4 DEF Copy, CopyFails
    <3>2. \/ UNCHANGED backups
          \/ backups' = Backed(clock, Copied(current))
          \/ \E n \in 0..Len(current) : backups' = Backed(clock, Copied(SubSeq(current, 1, n)))
      BY <2>4 DEF Copy, CopyFails
    <3>3. \A b \in backups' : AllWhole(b.lines)
      BY <2>0, <2>2, <3>2, WholeFiles
    <3> QED
      BY <2>0, <3>1, <3>3 DEF WholeInv
  <2>5. ASSUME NEW c \in Calls, Truncate(c) PROVE WholeInv'
    BY <2>0, <2>5 DEF Truncate, WholeInv, AllWhole
  <2>6. ASSUME NEW c \in Calls, Write(c) PROVE WholeInv'
    <3> DEFINE line == [call |-> c, at |-> stamp[c], whole |-> torn = 0, safe |-> FALSE,
                       end |-> Size + LineSize[c]]
    <3>0. Size \in Nat /\ LineSize[c] \in Nat
      BY SizeType
    <3>1. line \in Line /\ line.whole
      <4>1. line \in Line
        BY <3>0 DEF Line, TypeOK
      <4>2. line.whole
        BY <2>0
      <4> QED
        BY <4>1, <4>2
    <3>2. AllWhole(Append(current, line))
      BY <2>0, <3>1, WholeFiles
    <3> QED
      BY <2>0, <2>6, <3>2 DEF Write, Appended, WholeInv
  <2>7. ASSUME NEW c \in Calls, WriteFails(c) PROVE FALSE
    BY <2>7 DEF WriteFails, Clean
  <2>8. ASSUME NEW c \in Calls, Sync(c) PROVE WholeInv'
    BY <2>0, <2>8, WholeFiles DEF Sync, WholeInv
  <2>9. CASE Close \/ Kill \/ Restart \/ UNCHANGED vars
    BY <2>0, <2>9 DEF Close, Kill, Restart, vars, WholeInv
  <2>10. CASE PowerLoss
    BY <2>10 DEF PowerLoss, Clean
  <2> QED
    BY <2>1, <2>3, <2>4, <2>5, <2>6, <2>7, <2>8, <2>9, <2>10 DEF Next, Log, Rotate
<1> QED
  BY <1>1, <1>2, LogTypeCorrect, PTL DEF Spec

(* What each step does to what is stored.  No step but a write adds to it. *)
LEMMA StoredSame ==
  ASSUME UNCHANGED <<current, backups>>
  PROVE  Stored' = Stored
BY DEF Stored, Files, Holds

LEMMA BackedStored ==
  ASSUME NEW lines, backups' = Backed(clock, lines), current' = current,
         CallsIn(lines) \subseteq CallsIn(current)
  PROVE  Stored' \subseteq Stored
<1> SUFFICES ASSUME NEW c, c \in Stored' PROVE c \in Stored
  OBVIOUS
<1>1. c \in CallsIn(current) \/ \E b \in backups' : c \in CallsIn(b.lines)
  BY DEF Stored, Files, CallsIn, Holds
<1>2. \A b \in backups' : b \in backups \/ b.lines = lines
  BY DEF Backed
<1> QED
  BY <1>1, <1>2, StoredIs

LEMMA RotationShrinks ==
  ASSUME TypeOK, NEW c \in Calls, Rotate(c)
  PROVE  Stored' \subseteq Stored
<1>0. current \in Seq(Line)
  BY DEF TypeOK
<1>1. CASE RenameFails(c) \/ Reopen(c)
  BY <1>1, StoredSame DEF RenameFails, Reopen
<1>2. CASE Rename(c)
  <2> SUFFICES ASSUME NEW d, d \in Stored' PROVE d \in Stored
    OBVIOUS
  <2>1. \/ d \in CallsIn(<<>>)
        \/ \E b \in backups' : d \in CallsIn(b.lines)
    BY <1>2 DEF Rename, Stored, Files, CallsIn, Holds
  <2>2. \A b \in backups' : b \in backups \/ b.lines = current
    BY <1>2 DEF Rename, Backed
  <2> QED
    BY <2>1, <2>2, EmptyCalls, StoredIs
<1>3. CASE Copy(c) \/ CopyFails(c)
  <2>1. current' = current
    BY <1>3 DEF Copy, CopyFails
  <2>2. \/ UNCHANGED backups
        \/ backups' = Backed(clock, Copied(current))
        \/ \E n \in 0..Len(current) : backups' = Backed(clock, Copied(SubSeq(current, 1, n)))
    BY <1>3 DEF Copy, CopyFails
  <2>3. \A n \in 0..Len(current) :
          CallsIn(Copied(SubSeq(current, 1, n))) \subseteq CallsIn(current)
    BY <1>0, PrefixType, PrefixCalls, FlushedCalls
  <2> QED
    BY <1>0, <2>1, <2>2, <2>3, StoredSame, BackedStored, FlushedCalls
<1>4. CASE Truncate(c)
  <2>1. backups' = backups /\ (current' = <<>> \/ current' = current)
    BY <1>4 DEF Truncate
  <2> SUFFICES ASSUME NEW d, d \in Stored' PROVE d \in Stored
    OBVIOUS
  <2>2. d \in CallsIn(current') \/ \E b \in backups : d \in CallsIn(b.lines)
    BY <2>1 DEF Stored, Files, CallsIn, Holds
  <2> QED
    BY <2>1, <2>2, EmptyCalls, StoredIs
<1> QED
  BY <1>1, <1>2, <1>3, <1>4 DEF Rotate

(* Under Sound a line's own entry is all that matters of it, except where power
   may fail, and there nothing is copied. *)
LEMMA EntriesOf ==
  ASSUME Sound, "power" \notin faults, NEW s, Clean => AllWhole(s), NEW c \in Calls
  PROVE  GoodIn(s, c) <=> c \in CallsIn(s)
BY DEF GoodIn, Good, Entry, CallsIn, Holds, AllWhole

LEMMA RotationHides ==
  ASSUME Sound, TypeOK, KeptInv, WholeInv, NEW c \in Calls, Rotate(c)
  PROVE  Stored' = Stored
<1>0. current \in Seq(Line)
  BY DEF TypeOK
<1>1. ASSUME NEW b \in backups, b.name = clock, ~Blank
      PROVE  CallsIn(b.lines) \subseteq CallsIn(current)
  <2>1. /\ "power" \notin faults
        /\ \A d \in Calls : GoodIn(b.lines, d) => GoodIn(current, d)
    BY <1>1 DEF KeptInv, NamesOK
  <2>2. Clean => AllWhole(current) /\ AllWhole(b.lines)
    BY DEF WholeInv
  <2>3. CallsIn(b.lines) \subseteq Calls
    BY DEF CallsIn
  <2> QED
    BY <2>1, <2>2, <2>3, EntriesOf
<1>2. CASE RenameFails(c) \/ Reopen(c)
  BY <1>2, StoredSame DEF RenameFails, Reopen
<1>3. ASSUME NEW lines, ~Blank, backups' = Backed(clock, lines),
             CallsIn(lines) = CallsIn(current) \/ current' = current,
             NEW d \in Stored
      PROVE  d \in Stored'
  <2>1. ASSUME NEW b \in backups', d \in CallsIn(b.lines) PROVE d \in Stored'
    BY <2>1 DEF Stored, Files, CallsIn, Holds
  <2>2. [name |-> clock, lines |-> lines] \in backups'
    BY <1>3 DEF Backed
  <2>3. CASE d \in CallsIn(current)
    <3>1. CASE CallsIn(lines) = CallsIn(current)
      BY <2>1, <2>2, <2>3, <3>1
    <3>2. CASE current' = current
      BY <2>3, <3>2 DEF Stored, Files, CallsIn, Holds
    <3> QED
      BY <1>3, <3>1, <3>2
  <2>4. ASSUME NEW b \in backups, d \in CallsIn(b.lines) PROVE d \in Stored'
    <3>1. CASE b.name = clock
      BY <1>1, <1>3, <2>3, <2>4, <3>1
    <3>2. CASE b.name # clock
      BY <1>3, <2>1, <2>4, <3>2 DEF Backed
    <3> QED
      BY <3>1, <3>2
  <2> QED
    BY <2>3, <2>4, StoredIs
<1>4. CASE Rename(c)
  <2>1. ~Blank /\ backups' = Backed(clock, current)
    BY <1>4 DEF Rename, KeptInv, StepOK
  <2> QED
    BY <1>3, <1>4, <2>1, RotationShrinks
<1>5. CASE Copy(c) \/ CopyFails(c)
  <2>1. ~Blank /\ current' = current
    BY <1>5 DEF Copy, CopyFails, KeptInv, StepOK
  <2>2. UNCHANGED backups \/ \E lines : backups' = Backed(clock, lines)
    BY <1>5 DEF Copy, CopyFails
  <2> QED
    BY <1>3, <2>1, <2>2, StoredSame, RotationShrinks
<1>6. CASE Truncate(c)
  <2>1. /\ "power" \notin faults /\ pc[c] = "truncate"
        /\ backups' = backups /\ (current' = <<>> \/ current' = current)
    BY <1>6 DEF Truncate, KeptInv, StepOK, Sound
  <2>2. ASSUME NEW d \in CallsIn(current)
        PROVE  \E b \in backups : d \in CallsIn(b.lines)
    <3>1. d \in Calls /\ GoodIn(current, d)
      BY <2>1, <2>2, EntriesOf DEF CallsIn, WholeInv
    <3>2. PICK b \in backups : GoodIn(b.lines, d)
      BY <2>1, <3>1 DEF KeptInv, StepOK
    <3> QED
      BY <2>1, <3>1, <3>2, EntriesOf DEF WholeInv
  <2>3. ASSUME NEW b \in backups, NEW d \in CallsIn(b.lines) PROVE d \in Stored'
    BY <2>1 DEF Stored, Files, CallsIn, Holds
  <2> QED
    BY <2>2, <2>3, StoredIs, RotationShrinks
<1> QED
  BY <1>2, <1>4, <1>5, <1>6 DEF Rotate

LEMMA PowerLossShrinks ==
  ASSUME TypeOK, PowerLoss
  PROVE  Stored' \subseteq Stored
<1>0. current \in Seq(Line) /\ \A b \in backups : b.lines \in Seq(Line)
  BY DEF TypeOK, Backup
<1>1. PICK left \in [backups -> UNION {Survives(b.lines) : b \in backups}] :
        /\ \A b \in backups : left[b] \in Survives(b.lines)
        /\ backups' = {[b EXCEPT !.lines = left[b]] : b \in backups}
  BY DEF PowerLoss
<1>2. CallsIn(current') \subseteq CallsIn(current)
  BY <1>0, SurvivesCalls DEF PowerLoss
<1>3. \A b \in backups : CallsIn(left[b]) \subseteq CallsIn(b.lines)
  BY <1>0, <1>1, SurvivesCalls
<1>4. \A n \in backups' : \E b \in backups : n.lines = left[b]
  BY <1>1 DEF TypeOK, Backup
<1> SUFFICES ASSUME NEW c, c \in Stored' PROVE c \in Stored
  OBVIOUS
<1>5. c \in CallsIn(current') \/ \E n \in backups' : c \in CallsIn(n.lines)
  BY DEF Stored, Files, CallsIn, Holds
<1> QED
  BY <1>2, <1>3, <1>4, <1>5, StoredIs

LEMMA WriteStores ==
  ASSUME TypeOK, NEW c \in Calls, Write(c)
  PROVE  /\ handle = "open" => /\ Stored' = Stored \union {c}
                              /\ CallsIn(current') = CallsIn(current) \union {c}
         /\ handle # "open" => Stored' = Stored
<1>1. CASE handle = "open"
  <2> DEFINE line == [call |-> c, at |-> stamp[c], whole |-> torn = 0, safe |-> FALSE,
                       end |-> Size + LineSize[c]]
  <2>1. line \in Line /\ line.call = c
    BY SizeType DEF TypeOK, Line
  <2>2. current' = Append(current, line) /\ backups' = backups
    BY <1>1 DEF Write, Appended
  <2>3. CallsIn(current') = CallsIn(current) \union {c}
    BY <2>1, <2>2, AppendCalls DEF TypeOK
  <2>4. \A d : d \in Stored' <=> \/ d \in CallsIn(current')
                                 \/ \E b \in backups : d \in CallsIn(b.lines)
    BY <2>2 DEF Stored, Files, CallsIn, Holds
  <2>5. Stored' = Stored \union {c}
    BY <2>3, <2>4, StoredIs
  <2> QED
    BY <1>1, <2>3, <2>5
<1>2. CASE handle # "open"
  BY <1>2, StoredSame DEF Write
<1> QED
  BY <1>1, <1>2

LEMMA SyncHides ==
  ASSUME TypeOK, NEW c \in Calls, Sync(c)
  PROVE  Stored' = Stored /\ CallsIn(current') = CallsIn(current)
<1>1. /\ backups' = backups
      /\ CallsIn(current') = CallsIn(current)
  BY FlushedCalls DEF Sync, TypeOK
<1>2. \A d : d \in Stored' <=> \/ d \in CallsIn(current')
                               \/ \E b \in backups : d \in CallsIn(b.lines)
  BY <1>1 DEF Stored, Files, CallsIn, Holds
<1> QED
  BY <1>1, <1>2, StoredIs

(* A call has a result only when it is done, and its entry is stored neither
   before the write nor after it has failed. *)
FreshInv ==
  \A c \in Calls :
    /\ pc[c] # "done" => result[c] = "none"
    /\ pc[c] \notin {"sync", "done"} => c \notin Stored
    /\ pc[c] = "sync" => c \in CallsIn(current)
    /\ result[c] = "error" => c \notin Stored

LEMMA FreshInvariant == Spec => []FreshInv
<1>1. Init => FreshInv
  BY EmptyCalls, StoredIs DEF Init, FreshInv
<1>2. TypeOK /\ Exclusive /\ FreshInv /\ [Next]_vars => FreshInv'
  <2> SUFFICES ASSUME TypeOK, Exclusive, FreshInv, [Next]_vars PROVE FreshInv'
    OBVIOUS
  <2> USE DEF TypeOK, Goto, Return
  <2>1. ASSUME NEW c \in Calls, Begin(c) \/ Lock(c) \/ Stamp(c) PROVE FreshInv'
    <3>1. Stored' = Stored /\ current' = current
      BY <2>1, StoredSame DEF Begin, Lock, Stamp, files
    <3> QED
      BY <2>1, <3>1 DEF Begin, Lock, Stamp, FreshInv, CallsIn, Holds
  <2>2. ASSUME NEW c \in Calls, Rotate(c) PROVE FreshInv'
    <3>1. Stored' \subseteq Stored
      BY <2>2, RotationShrinks
    <3>2. Inside(c) /\ pc[c] # "sync"
      BY <2>2 DEF Rotate, Rename, RenameFails, Copy, CopyFails, Truncate, Reopen, Inside
    <3>3. \A d \in Calls : pc[d] # "sync"
      BY <3>2, OthersOutside
    <3>4. /\ result' = result
          /\ \E label \in {"reopen", "copy", "truncate", "stamp"} : pc' = [pc EXCEPT ![c] = label]
      BY <2>2 DEF Rotate, Rename, RenameFails, Copy, CopyFails, Truncate, Reopen
    <3>5. pc[c] # "done"
      BY <3>2 DEF Inside
    <3> QED
      BY <3>1, <3>2, <3>3, <3>4, <3>5 DEF FreshInv
  <2>3. ASSUME NEW c \in Calls, Write(c) PROVE FreshInv'
    <3>1. \A d \in Calls : d # c => pc[d] \in {"idle", "lock", "done"}
      BY <2>3, OthersOutside DEF Write, Inside
    <3>2. \/ /\ Stored' = Stored \union {c} /\ c \in CallsIn(current)'
             /\ pc' = [pc EXCEPT ![c] = "sync"] /\ result' = result
          \/ /\ Stored' = Stored
             /\ pc' = [pc EXCEPT ![c] = "done"] /\ result' = [result EXCEPT ![c] = "error"]
      <4>1. CallsIn(current)' = CallsIn(current')
        BY DEF CallsIn, Holds
      <4>2. CASE handle = "open"
        <5>1. pc' = [pc EXCEPT ![c] = "sync"] /\ result' = result
          BY <2>3, <4>2 DEF Write
        <5> QED
          BY <2>3, <4>1, <4>2, <5>1, WriteStores
      <4>3. CASE handle # "open"
        <5>1. pc' = [pc EXCEPT ![c] = "done"] /\ result' = [result EXCEPT ![c] = "error"]
          BY <2>3, <4>3 DEF Write
        <5> QED
          BY <2>3, <4>3, <5>1, WriteStores
      <4> QED
        BY <4>2, <4>3
    <3>3. pc[c] = "write"
      BY <2>3 DEF Write
    <3> QED
      BY <3>1, <3>2, <3>3 DEF FreshInv
  <2>4. ASSUME NEW c \in Calls, WriteFails(c) PROVE FreshInv'
    <3>1. Stored' = Stored /\ current' = current
      BY <2>4, StoredSame DEF WriteFails
    <3> QED
      BY <2>4, <3>1 DEF WriteFails, FreshInv, CallsIn, Holds
  <2>5. ASSUME NEW c \in Calls, Sync(c) PROVE FreshInv'
    <3>1. \A d \in Calls : d # c => pc[d] \in {"idle", "lock", "done"}
      BY <2>5, OthersOutside DEF Sync, Inside
    <3>2. Stored' = Stored
      BY <2>5, SyncHides
    <3> QED
      BY <2>5, <3>1, <3>2 DEF Sync, FreshInv
  <2>6. CASE Close \/ Restart \/ UNCHANGED vars
    <3>1. Stored' = Stored /\ UNCHANGED <<current, pc, result>>
      BY <2>6, StoredSame DEF Close, Restart, vars
    <3> QED
      BY <3>1 DEF FreshInv, CallsIn, Holds
  <2>7. CASE Kill \/ PowerLoss
    <3>1. Stored' \subseteq Stored
      BY <2>7, StoredSame, PowerLossShrinks DEF Kill
    <3>2. Dies
      BY <2>7 DEF Kill, PowerLoss
    <3> QED
      BY <3>1, <3>2 DEF Dies, FreshInv
  <2> QED
    BY <2>1, <2>2, <2>3, <2>4, <2>5, <2>6, <2>7 DEF Next, Log
<1> QED
  BY <1>1, <1>2, LogTypeCorrect, MutexHolds, PTL DEF Spec

(* The initial states are those of an empty journal, and every step of a call,
   of a rotation or of a failure is a step of the journal or hidden from it. *)
states == [c \in Calls |-> StateOf(c)]

LEMMA InitJournal == Init => J!JInit
<1> SUFFICES ASSUME Init PROVE J!JInit
  OBVIOUS
<1>1. states = [c \in Calls |-> "idle"]
  BY DEF Init, states, StateOf
<1>2. Stored = {}
  BY EmptyCalls, StoredIs DEF Init
<1>3. Sound \in BOOLEAN /\ Reliable \in BOOLEAN
  BY DEF Sound, Reliable
<1> QED
  BY <1>1, <1>2, <1>3 DEF Init, J!JInit, states

LEMMA SamePromise ==
  ASSUME [Next]_vars
  PROVE  /\ Sound' = Sound /\ Reliable' = Reliable
         /\ Clean' = Clean
BY FaultsFixed DEF Sound, Reliable, Clean

(* A step of one call changes what the journal knows of that call only. *)
LEMMA StateAtOne ==
  ASSUME TypeOK, NEW c \in Calls, Begin(c) \/ Log(c)
  PROVE  states' = [states EXCEPT ![c] = StateOf(c)']
<1>1. \E label : pc' = [pc EXCEPT ![c] = label]
  BY DEF Begin, Log, Lock, Rotate, Rename, RenameFails, Copy, CopyFails, Truncate,
     Reopen, Stamp, Write, WriteFails, Sync, Goto, Return
<1>2. \A d \in Calls \ {c} : StateOf(d)' = StateOf(d)
  BY <1>1 DEF TypeOK, StateOf
<1> QED
  BY <1>2 DEF states

LEMMA CallImplements ==
  ASSUME TypeOK, Exclusive, FreshInv, WholeInv, Sound => KeptInv, Reliable => OpenInv,
         [Next]_vars, NEW c \in Calls, Begin(c) \/ Log(c)
  PROVE  [J!JNext]_(J!jvars)
<1>0. /\ Sound' = Sound /\ Reliable' = Reliable /\ shut' = shut
      /\ states' = [states EXCEPT ![c] = StateOf(c)']
      /\ states \in [Calls -> {"idle", "called", "done"}] /\ states[c] = StateOf(c)
  <2>1. shut' = shut
    BY DEF Begin, Log, Lock, Rotate, Rename, RenameFails, Copy, CopyFails, Truncate,
       Reopen, Stamp, Write, WriteFails, Sync
  <2> QED
    BY <2>1, SamePromise, StateAtOne DEF states, StateOf
<1> USE DEF TypeOK, Goto, Return
<1>1. CASE Begin(c)
  <2>1. /\ Stored' = Stored /\ result' = result
        /\ StateOf(c) = "idle" /\ StateOf(c)' = "called"
    BY <1>1, StoredSame DEF Begin, files, StateOf
  <2>2. J!Call(c)
    BY <1>0, <2>1 DEF J!Call, states
  <2> QED
    BY <2>2 DEF J!JNext
<1>2. ASSUME Stored' = Stored, result' = result, StateOf(c)' = "called", StateOf(c) = "called"
      PROVE  UNCHANGED J!jvars
  <2>1. states' = states
    BY <1>0, <1>2
  <2> QED
    BY <1>0, <1>2, <2>1 DEF J!jvars, states
<1>3. CASE Lock(c) \/ Stamp(c)
  <2>1. /\ Stored' = Stored /\ result' = result
        /\ StateOf(c) = "called" /\ StateOf(c)' = "called"
    BY <1>3, StoredSame DEF Lock, Stamp, files, StateOf
  <2> QED
    BY <1>2, <2>1
<1>4. CASE Rotate(c)
  <2>1. /\ result' = result
        /\ StateOf(c) = "called" /\ StateOf(c)' = "called"
    BY <1>4 DEF Rotate, Rename, RenameFails, Copy, CopyFails, Truncate, Reopen, StateOf
  <2>2. CASE Sound
    BY <1>2, <1>4, <2>1, <2>2, RotationHides
  <2>3. CASE ~Sound
    <3>1. states' = states
      BY <1>0, <2>1
    <3>2. J!Lose
      BY <1>0, <1>4, <2>1, <2>3, <3>1, RotationShrinks DEF J!Lose, states
    <3> QED
      BY <3>2 DEF J!JNext
  <2> QED
    BY <2>2, <2>3
<1>5. CASE Write(c) /\ handle = "open"
  <2>1. /\ Stored' = Stored \union {c} /\ result' = result /\ c \notin Stored
        /\ StateOf(c) = "called" /\ StateOf(c)' = "called"
    BY <1>5, WriteStores DEF Write, StateOf, FreshInv
  <2>2. states' = states
    BY <1>0, <2>1
  <2>3. J!Store(c)
    BY <1>0, <2>1, <2>2 DEF J!Store, states
  <2> QED
    BY <2>3 DEF J!JNext
<1>6. CASE (Write(c) /\ handle # "open") \/ WriteFails(c)
  <2>1. /\ Stored' = Stored /\ result' = [result EXCEPT ![c] = "error"]
        /\ StateOf(c) = "called" /\ StateOf(c)' = "done" /\ pc[c] = "write"
    BY <1>6, WriteStores, StoredSame DEF Write, WriteFails, StateOf
  <2>2. c \notin Stored
    BY <2>1 DEF FreshInv
  <2>3. Reliable => shut
    <3> SUFFICES ASSUME Reliable PROVE shut
      OBVIOUS
    <3>1. Write(c) /\ handle # "open"
      BY <1>6 DEF WriteFails, Reliable
    <3>2. \A d \in Calls : pc[d] \notin {"copy", "truncate", "reopen"}
      BY <2>1, OthersOutside DEF Inside
    <3>3. handle # "down"
      BY <2>1 DEF OpenInv
    <3> QED
      BY <3>1, <3>2, <3>3 DEF OpenInv
  <2>4. J!Refuse(c)
    BY <1>0, <2>1, <2>2, <2>3 DEF J!Refuse, J!Answer, states
  <2> QED
    BY <2>4 DEF J!JNext
<1>7. CASE Sync(c)
  <2>1. /\ Stored' = Stored /\ result' = [result EXCEPT ![c] = "ok"]
        /\ StateOf(c) = "called" /\ StateOf(c)' = "done" /\ pc[c] = "sync"
    BY <1>7, SyncHides DEF Sync, StateOf
  <2>2. c \in Stored
    BY <2>1, StoredIs DEF FreshInv
  <2>3. J!Acknowledge(c)
    BY <1>0, <2>1, <2>2 DEF J!Acknowledge, J!Answer, states
  <2> QED
    BY <2>3 DEF J!JNext
<1> QED
  BY <1>1, <1>3, <1>4, <1>5, <1>6, <1>7 DEF Log

LEMMA FailureImplements ==
  ASSUME TypeOK, FreshInv, Sound => KeptInv', [Next]_vars, Kill \/ PowerLoss
  PROVE  J!Crash
<1>1. Dies
  BY DEF Kill, PowerLoss
<1>2. Stored' \subseteq Stored
  BY StoredSame, PowerLossShrinks DEF Kill
<1>3. states' = [c \in Calls |-> IF states[c] = "idle" THEN "idle" ELSE "done"]
  BY <1>1 DEF Dies, states, StateOf, TypeOK
<1>4. result' = [c \in Calls |-> IF states[c] = "called" THEN "killed" ELSE result[c]]
  BY <1>1 DEF Dies, states, StateOf, TypeOK
<1>5. ASSUME Sound, NEW c \in Stored, result[c] = "ok" PROVE c \in Stored'
  <2>1. c \in Calls
    BY DEF Stored
  <2>2. result'[c] = "ok"
    BY <1>1, <1>5, <2>1 DEF Dies, FreshInv, TypeOK
  <2>3. GoodIn(current, c)' \/ \E b \in backups' : GoodIn(b.lines, c)'
    BY <1>5, <2>1, <2>2 DEF KeptInv, StepOK, Saved
  <2> QED
    BY <2>1, <2>3 DEF GoodIn, Good, Entry, Stored, Files, Holds
<1>6. shut' = shut
  BY <1>1 DEF Dies
<1> QED
  BY <1>2, <1>3, <1>4, <1>5, <1>6, SamePromise DEF J!Crash, J!Acknowledged, states

(* What a rotation does, step by step and with every failure that Sound allows,
   cannot be told from the outside: the log with its files implements a journal
   that stores each entry in one step and has no rotation. *)
THEOREM IsJournal == Spec => ImplementsJournal
<1>1. /\ TypeOK /\ Exclusive /\ FreshInv /\ WholeInv
      /\ (Sound => KeptInv) /\ (Sound => KeptInv)' /\ (Reliable => OpenInv)
      /\ [Next]_vars
      => [J!JNext]_(J!jvars)
  <2> SUFFICES ASSUME TypeOK, Exclusive, FreshInv, WholeInv, Sound => KeptInv,
                      (Sound => KeptInv)', Reliable => OpenInv, [Next]_vars
               PROVE  [J!JNext]_(J!jvars)
    OBVIOUS
  <2>1. ASSUME NEW c \in Calls, Begin(c) \/ Log(c) PROVE [J!JNext]_(J!jvars)
    BY <2>1, CallImplements
  <2>2. CASE Close
    <3>1. states' = states /\ Stored' = Stored /\ result' = result /\ shut' = TRUE
      BY <2>2, StoredSame DEF Close, states, StateOf
    <3>2. J!Shut
      BY <3>1, SamePromise DEF J!Shut, states
    <3> QED
      BY <3>2 DEF J!JNext
  <2>3. CASE Kill \/ PowerLoss
    <3>1. J!Crash
      BY <2>3, FailureImplements, SamePromise
    <3> QED
      BY <3>1 DEF J!JNext
  <2>4. CASE Restart \/ UNCHANGED vars
    <3>1. states' = states /\ Stored' = Stored /\ result' = result /\ shut' = shut
      BY <2>4, StoredSame DEF Restart, vars, states, StateOf
    <3> QED
      BY <3>1, SamePromise DEF J!jvars, states
  <2> QED
    BY <2>1, <2>2, <2>3, <2>4 DEF Next
<1> QED
  BY <1>1, InitJournal, LogTypeCorrect, MutexHolds, FreshInvariant, WholeInvariant,
     KeptInvariant, OpenInvariant, PTL DEF Spec, ImplementsJournal, J!JSpec
=============================================================================
