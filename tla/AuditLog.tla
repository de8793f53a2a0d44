------------------------------ MODULE AuditLog ------------------------------
(***************************************************************************)
(* internal/auditlog/auditlog.go: the JSONL audit log that every detection *)
(* is written to, and its rotation by size, with file operations that may  *)
(* fail, a process that may be killed and a machine that may lose power    *)
(* between any two of them.                                                *)
(*                                                                         *)
(* Logger.mu is held through the whole of Log, so the steps of one call    *)
(* interleave only with the clock, with failures and with new callers; a   *)
(* call is Inside from taking the lock to returning.                       *)
(***************************************************************************)
EXTENDS Naturals, Sequences

CONSTANTS
  Calls,      \* Calls of Log, each with an entry of its own, as they come.
  LineSize,   \* LineSize[c]: the bytes of the line of call c.
  LongestLine,
  MaxSize,    \* maxSize: a file of more bytes is rotated.
  FaultSets,  \* What may go wrong together, see AnyFault.
  MaxCrashes  \* Bound: how often the process dies.

(* File operations that may fail, a machine that may lose power, and a file
   that may fill up within one second. *)
AnyFault == {"rename", "copy", "truncate", "reopen", "write", "sync", "power",
             "fast"}

ASSUME CallsAssumption == Calls \subseteq Nat
ASSUME SizeAssumption ==
  /\ MaxSize \in Nat /\ LongestLine \in Nat
  /\ LineSize \in [Calls -> 1..LongestLine]
ASSUME FaultsAssumption == FaultSets \subseteq SUBSET AnyFault
ASSUME CrashesAssumption == MaxCrashes \in Nat

VARIABLES
  faults,   \* What may go wrong here.
  pc,       \* pc[c]: what call c does next.
  result,   \* result[c]: what it returned.
  stamp,    \* stamp[c]: the Timestamp of its entry, in seconds.
  handle,   \* l.file and l.writer: open on the log, closed, or no process.
  current,  \* The lines of the file at l.path; an absent file has none.
  torn,     \* It ends in so many bytes of an unfinished line.
  backups,  \* The rotated files, named by the second of their rotation.
  clock,    \* nowFunc, in seconds.
  crashes,  \* How often the process died.
  shut      \* History: Close has been called.

files == <<handle, current, torn, backups>>
vars == <<faults, pc, result, stamp, handle, current, torn, backups, clock, crashes,
          shut>>

(* A line is whole if nothing precedes its entry, safe if it is on the disk; it
   ends so many bytes from the beginning of its file. *)
Line   == [call : Calls, at : Nat, whole : BOOLEAN, safe : BOOLEAN, end : Nat]
Backup == [name : Nat, lines : Seq(Line)]
Labels == {"idle", "lock", "rename", "copy", "truncate", "reopen", "stamp",
           "write", "sync", "done"}

TypeOK ==
  /\ faults \in SUBSET AnyFault
  /\ pc \in [Calls -> Labels]
  /\ result \in [Calls -> {"none", "ok", "error", "killed"}]
  /\ stamp \in [Calls -> Nat]
  /\ handle \in {"open", "closed", "down"}
  /\ current \in Seq(Line)
  /\ torn \in Nat
  /\ backups \subseteq Backup
  /\ clock \in Nat
  /\ crashes \in 0..MaxCrashes
  /\ shut \in BOOLEAN

Inside(c) == pc[c] \notin {"idle", "lock", "done"}

Goto(c, label) == pc' = [pc EXCEPT ![c] = label]

(* Faulty variant: a return that no caller knows. *)
ReturnUnknown(c, how) ==
  /\ Goto(c, "done")
  /\ result' = [result EXCEPT ![c] = IF how = "error" THEN "panic" ELSE how]

Return(c, how) ==
  /\ Goto(c, "done")
  /\ result' = [result EXCEPT ![c] = how]

(* Creating a file of that name replaces one that is there. *)
Backed(name, lines) ==
  {b \in backups : b.name # name} \union {[name |-> name, lines |-> lines]}

Flushed(lines) == [i \in DOMAIN lines |-> [lines[i] EXCEPT !.safe = TRUE]]
Copied(lines)  == [i \in DOMAIN lines |-> [lines[i] EXCEPT !.safe = FALSE]]

(* What a power loss may leave of a file: all that was flushed, and perhaps
   some of the rest. *)
Survives(lines) ==
  {SubSeq(lines, 1, n) :
     n \in {m \in 0..Len(lines) : \A i \in DOMAIN lines : lines[i].safe => i <= m}}

EndOf(lines) == IF lines = <<>> THEN 0 ELSE lines[Len(lines)].end
Size == EndOf(current) + torn

(* NewWithPath on an empty directory. *)
Init ==
  /\ faults \in FaultSets
  /\ pc = [c \in Calls |-> "idle"]
  /\ result = [c \in Calls |-> "none"]
  /\ stamp = [c \in Calls |-> 0]
  /\ handle = "open"
  /\ current = <<>>
  /\ torn = 0
  /\ backups = {}
  /\ clock = 0
  /\ crashes = 0
  /\ shut = FALSE

-----------------------------------------------------------------------------
(* Log *)

Begin(c) ==
  /\ pc[c] = "idle"
  /\ \A d \in Calls : d < c => pc[d] # "idle"
  /\ handle # "down"
  /\ Goto(c, "lock")
  /\ UNCHANGED <<faults, result, stamp, files, clock, crashes, shut>>

(* Faulty variants: no mutex; a size that is never too large. *)
LockNothing(c) ==
  /\ pc[c] = "lock"
  /\ Goto(c, IF handle = "open" /\ Size > MaxSize THEN "rename" ELSE "stamp")
  /\ UNCHANGED <<faults, result, stamp, files, clock, crashes, shut>>

LockNeverRotate(c) ==
  /\ pc[c] = "lock"
  /\ \A d \in Calls : ~Inside(d)
  /\ Goto(c, "stamp")
  /\ UNCHANGED <<faults, result, stamp, files, clock, crashes, shut>>

(* Takes the mutex and looks at the size; Stat fails on a closed file. *)
Lock(c) ==
  /\ pc[c] = "lock"
  /\ \A d \in Calls : ~Inside(d)
  /\ Goto(c, IF handle = "open" /\ Size > MaxSize THEN "rename" ELSE "stamp")
  /\ UNCHANGED <<faults, result, stamp, files, clock, crashes, shut>>

(* rotate: close the file, then rename it. *)
Rename(c) ==
  /\ pc[c] = "rename"
  /\ handle' = "closed"
  /\ backups' = Backed(clock, current)
  /\ current' = <<>>
  /\ torn' = 0
  /\ Goto(c, "reopen")
  /\ UNCHANGED <<faults, result, stamp, clock, crashes, shut>>

RenameFails(c) ==
  /\ pc[c] = "rename"
  /\ "rename" \in faults
  /\ handle' = "closed"
  /\ Goto(c, "copy")
  /\ UNCHANGED <<faults, result, stamp, current, torn, backups, clock, crashes, shut>>

(* copyFile creates the backup, or truncates the one of that name, and never
   flushes it. *)
Copy(c) ==
  /\ pc[c] = "copy"
  /\ backups' = Backed(clock, Copied(current))
  /\ Goto(c, "truncate")
  /\ UNCHANGED <<faults, result, stamp, handle, current, torn, clock, crashes, shut>>

(* It fails before it creates the file, or half-way: rotate returns its error,
   which Log drops, and the closed file stays in l.file and l.writer. *)
CopyFails(c) ==
  /\ pc[c] = "copy"
  /\ "copy" \in faults
  /\ \/ UNCHANGED backups
     \/ \E n \in 0..Len(current) :
          backups' = Backed(clock, Copied(SubSeq(current, 1, n)))
  /\ Goto(c, "stamp")
  /\ UNCHANGED <<faults, result, stamp, handle, current, torn, clock, crashes, shut>>

Truncate(c) ==
  /\ pc[c] = "truncate"
  /\ \/ current' = <<>> /\ torn' = 0
     \/ "truncate" \in faults /\ UNCHANGED <<current, torn>>
  /\ Goto(c, "reopen")
  /\ UNCHANGED <<faults, result, stamp, handle, backups, clock, crashes, shut>>

(* Faulty variant: l.writer is not set to the new file. *)
ReopenKeepWriter(c) ==
  /\ pc[c] = "reopen"
  /\ Goto(c, "stamp")
  /\ UNCHANGED <<faults, result, stamp, files, clock, crashes, shut>>

Reopen(c) ==
  /\ pc[c] = "reopen"
  /\ \/ handle' = "open"
     \/ "reopen" \in faults /\ UNCHANGED handle
  /\ Goto(c, "stamp")
  /\ UNCHANGED <<faults, result, stamp, current, torn, backups, clock, crashes, shut>>

(* e.Timestamp = l.nowFunc(), and time goes on. *)
Stamp(c) ==
  /\ pc[c] = "stamp"
  /\ stamp' = [stamp EXCEPT ![c] = clock]
  /\ clock' \in IF "fast" \in faults THEN {clock, clock + 1} ELSE {clock + 1}
  /\ Goto(c, "write")
  /\ UNCHANGED <<faults, result, files, crashes, shut>>

(* An entry written behind a torn line becomes part of it. *)
Appended(c) ==
  Append(current, [call |-> c, at |-> stamp[c], whole |-> torn = 0, safe |-> FALSE,
                   end |-> Size + LineSize[c]])

(* Faulty variants: success is reported before the flush; a call waits for
   the file to be opened again. *)
WriteUnflushed(c) ==
  /\ pc[c] = "write"
  /\ IF handle = "open"
     THEN current' = Appended(c) /\ torn' = 0 /\ Return(c, "ok")
     ELSE Return(c, "error") /\ UNCHANGED <<current, torn>>
  /\ UNCHANGED <<faults, stamp, handle, backups, clock, crashes, shut>>

WriteWaits(c) ==
  /\ pc[c] = "write"
  /\ handle = "open"
  /\ current' = Appended(c)
  /\ torn' = 0
  /\ Goto(c, "sync")
  /\ UNCHANGED <<faults, result, stamp, handle, backups, clock, crashes, shut>>

(* A write to a closed file fails. *)
Write(c) ==
  /\ pc[c] = "write"
  /\ IF handle = "open"
     THEN current' = Appended(c) /\ torn' = 0 /\ Goto(c, "sync") /\ UNCHANGED result
     ELSE Return(c, "error") /\ UNCHANGED <<current, torn>>
  /\ UNCHANGED <<faults, stamp, handle, backups, clock, crashes, shut>>

(* A full disk: nothing or a part of the line is written. *)
WriteFails(c) ==
  /\ pc[c] = "write"
  /\ handle = "open"
  /\ "write" \in faults
  /\ \E written \in 0..(LineSize[c] - 1) : torn' = torn + written
  /\ Return(c, "error")
  /\ UNCHANGED <<faults, stamp, handle, current, backups, clock, crashes, shut>>

(* An error of Sync is dropped. *)
Sync(c) ==
  /\ pc[c] = "sync"
  /\ \/ current' = Flushed(current)
     \/ "sync" \in faults /\ UNCHANGED current
  /\ Return(c, "ok")
  /\ UNCHANGED <<faults, stamp, handle, torn, backups, clock, crashes, shut>>

-----------------------------------------------------------------------------
(* Close, the end of the process and its restart. *)

(* Close takes the mutex; l.file and l.writer keep the closed file. *)
Close ==
  /\ handle # "down"
  /\ \A d \in Calls : ~Inside(d)
  /\ handle' = "closed"
  /\ shut' = TRUE
  /\ UNCHANGED <<faults, pc, result, stamp, current, torn, backups, clock, crashes>>

Dies ==
  /\ handle # "down"
  /\ crashes < MaxCrashes
  /\ crashes' = crashes + 1
  /\ handle' = "down"
  /\ pc' = [c \in Calls |-> IF pc[c] = "idle" THEN "idle" ELSE "done"]
  /\ result' = [c \in Calls |-> IF pc[c] \in {"idle", "done"} THEN result[c]
                                                               ELSE "killed"]
  /\ UNCHANGED <<faults, stamp, clock, shut>>

(* What was written survives the process. *)
Kill == Dies /\ UNCHANGED <<current, torn, backups>>

(* The bytes of an unfinished line that a power loss may leave behind lines. *)
Remains(lines) ==
  IF lines = current THEN 0..torn
  ELSE 0..(current[Len(lines) + 1].end - EndOf(lines) - 1)

(* What was flushed survives the machine, and perhaps the beginning of the
   line that was not. *)
PowerLoss ==
  /\ "power" \in faults
  /\ Dies
  /\ current' \in Survives(current)
  /\ torn' \in Remains(current')
  /\ \E left \in [backups -> UNION {Survives(b.lines) : b \in backups}] :
       /\ \A b \in backups : left[b] \in Survives(b.lines)
       /\ backups' = {[b EXCEPT !.lines = left[b]] : b \in backups}

(* NewWithPath opens the file for appending, whatever is in it. *)
Restart ==
  /\ handle = "down"
  /\ handle' = "open"
  /\ UNCHANGED <<faults, pc, result, stamp, current, torn, backups, clock, crashes, shut>>

Rotate(c) ==
  \/ Rename(c) \/ RenameFails(c) \/ Copy(c) \/ CopyFails(c) \/ Truncate(c)
  \/ Reopen(c)

Log(c) ==
  \/ Lock(c) \/ Rotate(c) \/ Stamp(c) \/ Write(c) \/ WriteFails(c) \/ Sync(c)

Next ==
  \/ \E c \in Calls : Begin(c) \/ Log(c)
  \/ Close \/ Kill \/ PowerLoss \/ Restart

Spec == Init /\ [][Next]_vars

(* The goroutine of every call is scheduled, and the mutex is given away. *)
FairSpec == Spec /\ \A c \in Calls : WF_vars(Log(c))

-----------------------------------------------------------------------------
(* Properties *)

Files == {current} \union {b.lines : b \in backups}

Holds(file, c) == \E i \in DOMAIN file : file[i].call = c
HoldsWhole(file, c) == \E i \in DOMAIN file : file[i].call = c /\ file[i].whole

(* What keeping an acknowledged entry rests on: rotations are a second apart
   and, where the machine may lose power, neither renaming nor flushing fails. *)
Sound == /\ "fast" \notin faults
         /\ "power" \in faults => "rename" \notin faults /\ "sync" \notin faults

(* No line is left unfinished.  No rotation ends without an open file. *)
Clean    == "write" \notin faults /\ "power" \notin faults
Reliable == "copy" \notin faults /\ "reopen" \notin faults /\ "write" \notin faults

(* An entry that Log reported as written is in the log or in a backup,
   whatever failures, rotations, crashes and restarts came since; and, with
   no line left unfinished, it is there on a line of its own, which Search
   can parse. *)
AckedKept ==
  \A c \in Calls :
    Sound /\ result[c] = "ok" =>
      \E f \in Files : Holds(f, c) /\ (Clean => HoldsWhole(f, c))

(* A failed rename costs no entry: as long as copies, opening and writes
   succeed, Log fails only once the logger has been closed. *)
RotationTolerated ==
  \A c \in Calls : Reliable /\ result[c] = "error" => shut

(* The time stamps of each file are in the order of its lines, and none is
   later than the rotation the file is named after. *)
Chronological ==
  /\ \A f \in Files : \A i, j \in DOMAIN f : i < j => f[i].at <= f[j].at
  /\ \A b \in backups : \A i \in DOMAIN b.lines : b.lines[i].at <= b.name

(* As long as rotations get through, the file exceeds its limit by the bytes of
   one line at most, with all that failed writes and lost power left in it. *)
SizeBounded ==
  faults \intersect {"truncate", "copy"} = {} => Size <= MaxSize + LongestLine

(* A call of Log returns, or dies with the process: detections never hang in
   the audit log. *)
Returns == \A c \in Calls : pc[c] = "lock" ~> pc[c] = "done"

(* The log behind the files.  Reading the log and its backups finds the entries
   of Log's calls: a call stores its entry when it writes the line, and a
   rotation, step by step, changes nothing that a reader finds.  An entry whose
   call failed never turns up; one whose call succeeded stays, as long as the
   faults are those of Sound, and as long as they are those of Reliable a call
   fails only once the log has been closed. *)
Stored == {c \in Calls : \E f \in Files : Holds(f, c)}
StateOf(c) ==
  CASE pc[c] = "idle" -> "idle"
    [] pc[c] = "done" -> "done"
    [] OTHER -> "called"

J == INSTANCE Journal WITH
  lossless <- Sound,
  steady   <- Reliable,
  state    <- [c \in Calls |-> StateOf(c)],
  stored   <- Stored

ImplementsJournal == J!JSpec

(* "Persists every detection event to a local JSONL file" (auditlog.go:6): the
   entries that Log reported as written can be read, without conditions. *)
PersistsEveryEvent ==
  \A c \in Calls : result[c] = "ok" => \E f \in Files : HoldsWhole(f, c)

(* "Log rotation failed, but don't block the detection.  Just continue writing
   to the current file" (auditlog.go:133): as long as writes succeed, Log
   fails only once the logger has been closed. *)
ContinuesWriting ==
  \A c \in Calls : "write" \notin faults /\ result[c] = "error" => shut
=============================================================================
