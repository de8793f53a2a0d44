---------------------------- MODULE EncryptedLog ----------------------------
(***************************************************************************)
(* EncryptedLogger and Decryptor of internal/auditlog/encryption.go, with  *)
(* the decrypt-audit command.  Log holds el.mu from its check of the size  *)
(* to its write; Close holds only the mutex of the Logger underneath.      *)
(* Rotation, Logger.rotate, is one step here, as nobody else holds el.mu:  *)
(* its outcomes are those of the steps in module AuditLog, and a backup is *)
(* named by the second.  A process that ends within a rotation is one that *)
(* ends after a rotation that has left the file closed.                    *)
(* A key is a passphrase with a salt, which is new in each process and is  *)
(* written into every line.  The end of a line may be missing, when the    *)
(* process dies or the disk is full: the next line is then glued to it.    *)
(***************************************************************************)
EXTENDS Integers, Sequences, SequencesExt

CONSTANTS
  Passphrases,
  MaxLines,    \* How many lines are over maxSize.
  MaxLogged,   \* Bound: calls of Log.
  MaxProcesses, \* Bound: processes, one after the other.
  MaxSeconds   \* Bound: seconds on the clock.

ASSUME PassphrasesAssumption == Passphrases # {}
ASSUME LogBoundsAssumption ==
  {MaxLines, MaxLogged, MaxProcesses} \subseteq Nat /\ MaxSeconds \in Nat \ {0}

VARIABLES
  encFile,    \* Lines of audit.log.enc.
  second,     \* The clock, which runs on.
  backups,    \* backups[s]: audit.log.enc.<s>, empty when there is none.
  logger,     \* The EncryptedLogger: its passphrase, and whether its file is open.
  salt,       \* The number of the process, 0 before the first.
  logged,     \* How many calls of Log there were.
  sealed,     \* The call that holds el.mu: its entry, 0 when there is none.
  acked,      \* Entries whose call returned no error.
  movedAt,    \* Observed: when audit.log.enc was last emptied by a rotation,
              \* 0 before the first.
  crowded     \* Observed: a rotation began within the second of movedAt.

encVars ==
  <<encFile, second, backups, logger, salt, logged, sealed, acked, movedAt, crowded>>

Entries == 1..MaxLogged
EncLine == [entry : Entries, pass : Passphrases, salt : 1..MaxProcesses, whole : BOOLEAN]
Seconds == 1..MaxSeconds
NoLogger == [pass |-> CHOOSE p \in Passphrases : TRUE, state |-> "none"]

EncTypeOK ==
  /\ encFile \in Seq(EncLine)
  /\ second \in Seconds
  /\ backups \in [Seconds -> Seq(EncLine)]
  /\ logger \in [pass : Passphrases, state : {"none", "open", "closed"}]
  /\ salt \in 0..MaxProcesses
  /\ logged \in 0..MaxLogged
  /\ sealed \in 0..MaxLogged
  /\ acked \subseteq Entries
  /\ movedAt \in 0..second
  /\ crowded \in BOOLEAN

EncInit ==
  /\ encFile = <<>>
  /\ second = 1
  /\ backups = [s \in Seconds |-> <<>>]
  /\ logger = NoLogger
  /\ salt = 0
  /\ logged = 0
  /\ sealed = 0
  /\ acked = {}
  /\ movedAt = 0
  /\ crowded = FALSE

-----------------------------------------------------------------------------
(* The logger *)

SecondPasses ==
  /\ second < MaxSeconds
  /\ second' = second + 1
  /\ UNCHANGED <<encFile, backups, logger, salt, logged, sealed, acked, movedAt, crowded>>

(* An empty passphrase is refused; the file is opened for appending. *)
NewEncryptedLogger(p) ==
  /\ logger.state = "none"
  /\ salt < MaxProcesses
  /\ salt' = salt + 1
  /\ logger' = [pass |-> p, state |-> "open"]
  /\ UNCHANGED <<encFile, second, backups, logged, sealed, acked, movedAt, crowded>>

(* The first n lines of the file, the end of the last of them missing or not. *)
CutOff(line) == [line EXCEPT !.whole = FALSE]
Copied(n, cut) == [i \in 1..n |-> IF cut /\ i = n THEN CutOff(encFile[i]) ELSE encFile[i]]

Reopened(state) == logger' = [logger EXCEPT !.state = state]

(* rotate renames, or copies and truncates, and opens the file again; each of
   these may fail.  The backup replaces one of the same name.  A file that is
   not opened again stays closed, for Stat then fails. *)
Moved ==
  /\ encFile' = <<>>
  /\ backups' = [backups EXCEPT ![second] = encFile]
  /\ movedAt' = second
  /\ \E state \in {"open", "closed"} : Reopened(state)

NotTruncated ==
  /\ backups' = [backups EXCEPT ![second] = encFile]
  /\ \E state \in {"open", "closed"} : Reopened(state)
  /\ UNCHANGED <<encFile, movedAt>>

CopyFails ==
  /\ \/ backups' = backups
     \/ \E n \in 0..Len(encFile), cut \in BOOLEAN :
          backups' = [backups EXCEPT ![second] = Copied(n, cut)]
  /\ Reopened("closed")
  /\ UNCHANGED <<encFile, movedAt>>

RotateFile ==
  /\ Moved \/ NotTruncated \/ CopyFails
  /\ crowded' = (crowded \/ movedAt = second)

(* Log up to its write: rotation, then the entry is encrypted. *)
SealEntry ==
  /\ logger.state # "none"
  /\ sealed = 0
  /\ logged < MaxLogged
  /\ logged' = logged + 1
  /\ sealed' = logged + 1
  /\ IF logger.state = "open" /\ Len(encFile) > MaxLines
     THEN RotateFile
     ELSE UNCHANGED <<encFile, backups, logger, movedAt, crowded>>
  /\ UNCHANGED <<second, salt, acked>>

Line(whole) == [entry |-> sealed, pass |-> logger.pass, salt |-> salt, whole |-> whole]

WriteLine ==
  /\ sealed # 0
  /\ logger.state = "open"
  /\ encFile' = Append(encFile, Line(TRUE))
  /\ acked' = acked \union {sealed}
  /\ sealed' = 0
  /\ UNCHANGED <<second, backups, logger, salt, logged, movedAt, crowded>>

(* A write that ends early, or finds the file closed, is an error of Log. *)
WriteLineFails ==
  /\ sealed # 0
  /\ \/ encFile' = encFile
     \/ logger.state = "open" /\ encFile' = Append(encFile, Line(FALSE))
  /\ sealed' = 0
  /\ UNCHANGED <<second, backups, logger, salt, logged, acked, movedAt, crowded>>

CloseLogger ==
  /\ logger.state = "open"
  /\ logger' = [logger EXCEPT !.state = "closed"]
  /\ UNCHANGED <<encFile, second, backups, salt, logged, sealed, acked, movedAt, crowded>>

(* The process ends, perhaps within a write. *)
ProcessEnds ==
  /\ logger.state # "none"
  /\ logger' = NoLogger
  /\ sealed' = 0
  /\ \/ encFile' = encFile
     \/ sealed # 0 /\ logger.state = "open" /\ encFile' = Append(encFile, Line(FALSE))
  /\ UNCHANGED <<second, backups, salt, logged, acked, movedAt, crowded>>

EncNext ==
  \/ \E p \in Passphrases : NewEncryptedLogger(p)
  \/ SecondPasses \/ SealEntry \/ WriteLine \/ WriteLineFails \/ CloseLogger \/ ProcessEnds

EncSpec == EncInit /\ [][EncNext]_encVars

-----------------------------------------------------------------------------
(* The decryptor *)

(* The key is derived from the salt of each line. *)
EntryKey(file, i, p) == <<p, file[i].salt>>

(* Faulty variant: it is derived once, from the salt of the first line. *)
KeyOfFirst(file, i, p) == <<p, file[1].salt>>

DeriveKey(file, i, p) == EntryKey(file, i, p)

(* A line whose end is missing, with the one that is glued to it, does not
   parse; one that was sealed with another key does not open. *)
Broken(file, i) == ~file[i].whole \/ (i > 1 /\ ~file[i - 1].whole)
decryptEntry(file, i, p) ==
  ~Broken(file, i) /\ DeriveKey(file, i, p) = <<file[i].pass, file[i].salt>>

(* DecryptFile stops at the first line that fails: what it wrote stays. *)
DecryptFile(file, p) ==
  {file[i].entry : i \in {j \in DOMAIN file : \A k \in 1..j : decryptEntry(file, k, p)}}

-----------------------------------------------------------------------------
(* Properties *)

(* The files of all processes. *)
LogFiles == {backups[s] : s \in Seconds} \union {encFile}

(* As long as no rotation began in a second in which one had emptied the file
   (two backups of one second have one name: PersistsEveryEvent of AuditLog
   shows that loss), an entry that Log acknowledged can be decrypted from a file
   it is in, after restarts, rotations that fail half-way and a Close between its
   sealing and its writing.  It is excused when a broken line or one with another
   passphrase stands before it: encryption.go:258 gives up the rest of the file. *)
AckedDecrypts ==
  ~crowded => \A e \in acked : \E file \in LogFiles : \E i \in DOMAIN file :
    /\ file[i].entry = e
    /\ \/ e \in DecryptFile(file, file[i].pass)
       \/ \E j \in 1..i : Broken(file, j) \/ file[j].pass # file[i].pass
=============================================================================
