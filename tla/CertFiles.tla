----------------------------- MODULE CertFiles -----------------------------
(***************************************************************************)
(* The four certificate files of rampart: EnsureCerts of                   *)
(* internal/certinit/certinit.go, Save and LoadCAFromFiles of              *)
(* internal/certificate/certificate.go, and their use by New of            *)
(* pkg/proxy/proxy.go.  Several processes may start on one directory       *)
(* (nothing locks it), and each may end between any two steps.             *)
(*                                                                         *)
(* A key pair is a number: ca.crt holding n was signed by, and matches,    *)
(* ca.key holding n.  A CA and the server pair signed by it are generated  *)
(* together and have the same number.                                      *)
(***************************************************************************)
EXTENDS Integers, Sequences, SequencesExt

CONSTANTS
  Starters,  \* The processes that use the directory.
  MaxPairs,  \* Bound: how many pairs are generated.
  Removable  \* Files the user may remove.

MissingFile == 0     \* There is no such file.
TornFile == -1       \* It is empty or cut off, and cannot be parsed.
Pairs == 1..MaxPairs
FileContents == Pairs \union {MissingFile, TornFile}

(* Faulty variant: the server's files first. *)
ServerFirst == <<"server.crt", "server.key", "ca.crt", "ca.key">>

(* The files in the order in which EnsureCerts writes them: the CA, then the
   server, each certificate before its key. *)
SaveOrder == <<"ca.crt", "ca.key", "server.crt", "server.key">>

ParseOrder == <<"server.crt", "ca.crt", "server.key", "ca.key">>
CertFileNames == ToSet(SaveOrder)

ASSUME StartersAssumption == Starters # {}
ASSUME MaxPairsAssumption == MaxPairs \in Nat
ASSUME RemovableAssumption == Removable \subseteq CertFileNames

VARIABLES
  disk,      \* disk[f]: the content of file f.
  age,       \* age[n]: 1 when the server certificate has expired (after a
             \* year), 2 when the CA has as well (after ten).
  lastPair,  \* The newest pair.
  start,     \* start[p]: where process p is in New.
  at,        \* at[p]: which of the four files it reads or writes.
  making,    \* making[p]: the pair it has generated and is saving.
  ca,        \* ca[p]: the certificate and the key its manager signs with.
  startsOverlapped,\* Some process has made new files while another was running.
  filesRemoved     \* Files the user has removed.

certFileVars == <<disk, age, lastPair, start, at, making, ca, startsOverlapped, filesRemoved>>

NoCA == [crt |-> MissingFile, key |-> MissingFile]

CertFilesTypeOK ==
  /\ disk \in [CertFileNames -> FileContents]
  /\ age \in [Pairs -> 0..2]
  /\ lastPair \in 0..MaxPairs
  /\ start \in [Starters -> {"down", "stat", "parse", "generate", "truncate", "fill",
                             "loadCert", "loadKey", "up"}]
  /\ at \in [Starters -> 1..4]
  /\ making \in [Starters -> 0..MaxPairs]
  /\ ca \in [Starters -> [crt : 0..MaxPairs, key : 0..MaxPairs]]
  /\ startsOverlapped \in BOOLEAN
  /\ filesRemoved \subseteq CertFileNames

CertFilesInit ==
  /\ disk = [f \in CertFileNames |-> MissingFile]
  /\ age = [n \in Pairs |-> 0]
  /\ lastPair = 0
  /\ start = [p \in Starters |-> "down"]
  /\ at = [p \in Starters |-> 1]
  /\ making = [p \in Starters |-> 0]
  /\ ca = [p \in Starters |-> NoCA]
  /\ startsOverlapped = FALSE
  /\ filesRemoved = {}

-----------------------------------------------------------------------------
(* EnsureCerts *)

LaunchStarter(p) ==
  /\ start[p] = "down"
  /\ start' = [start EXCEPT ![p] = "stat"]
  /\ startsOverlapped' = (startsOverlapped \/ \E q \in Starters : start[q] \in {"truncate", "fill"})
  /\ UNCHANGED <<disk, age, lastPair, at, making, ca, filesRemoved>>

(* checkExistingCerts: with a file missing, everything is generated anew. *)
StatFiles(p) ==
  /\ start[p] = "stat"
  /\ start' = [start EXCEPT ![p] =
       IF \E f \in CertFileNames : disk[f] = MissingFile THEN "generate" ELSE "parse"]
  /\ at' = [at EXCEPT ![p] = 1]
  /\ UNCHANGED <<disk, age, lastPair, making, ca, startsOverlapped, filesRemoved>>

(* A file that parses, and is not a certificate past its date. *)
Acceptable(f) ==
  /\ disk[f] \in Pairs
  /\ f = "server.crt" => age[disk[f]] = 0
  /\ f = "ca.crt" => age[disk[f]] < 2

(* The files are read one by one; that certificates and keys belong together
   is not looked at. *)
ParseFile(p) ==
  /\ start[p] = "parse"
  /\ IF ~Acceptable(ParseOrder[at[p]])
     THEN start' = [start EXCEPT ![p] = "generate"] /\ UNCHANGED at
     ELSE IF at[p] < 4
     THEN at' = [at EXCEPT ![p] = @ + 1] /\ UNCHANGED start
     ELSE start' = [start EXCEPT ![p] = "loadCert"] /\ UNCHANGED at
  /\ UNCHANGED <<disk, age, lastPair, making, ca, startsOverlapped, filesRemoved>>

(* A manager of its own makes the CA, and the server's certificate with it. *)
GeneratePair(p) ==
  /\ start[p] = "generate"
  /\ lastPair < MaxPairs
  /\ lastPair' = lastPair + 1
  /\ making' = [making EXCEPT ![p] = lastPair']
  /\ start' = [start EXCEPT ![p] = "truncate"]
  /\ at' = [at EXCEPT ![p] = 1]
  /\ startsOverlapped' = (startsOverlapped \/ \E q \in Starters \ {p} : start[q] # "down")
  /\ UNCHANGED <<disk, age, ca, filesRemoved>>

(* Save, for the CA and then for the server: os.WriteFile empties the file and
   then fills it. *)
Truncate(p) ==
  /\ start[p] = "truncate"
  /\ disk' = [disk EXCEPT ![SaveOrder[at[p]]] = TornFile]
  /\ start' = [start EXCEPT ![p] = "fill"]
  /\ UNCHANGED <<age, lastPair, at, making, ca, startsOverlapped, filesRemoved>>

Fill(p) ==
  /\ start[p] = "fill"
  /\ disk' = [disk EXCEPT ![SaveOrder[at[p]]] = making[p]]
  /\ IF at[p] < 4
     THEN start' = [start EXCEPT ![p] = "truncate"] /\ at' = [at EXCEPT ![p] = @ + 1]
     ELSE start' = [start EXCEPT ![p] = "loadCert"] /\ UNCHANGED at
  /\ UNCHANGED <<age, lastPair, making, ca, startsOverlapped, filesRemoved>>

-----------------------------------------------------------------------------
(* LoadCAFromFiles, the CA in memory where it fails, and the end *)

LoadCert(p) ==
  /\ start[p] = "loadCert"
  /\ disk["ca.crt"] \in Pairs
  /\ ca' = [ca EXCEPT ![p].crt = disk["ca.crt"]]
  /\ start' = [start EXCEPT ![p] = "loadKey"]
  /\ UNCHANGED <<disk, age, lastPair, at, making, startsOverlapped, filesRemoved>>

LoadKey(p) ==
  /\ start[p] = "loadKey"
  /\ disk["ca.key"] \in Pairs
  /\ ca' = [ca EXCEPT ![p].key = disk["ca.key"]]
  /\ start' = [start EXCEPT ![p] = "up"]
  /\ UNCHANGED <<disk, age, lastPair, at, making, startsOverlapped, filesRemoved>>

(* Either file cannot be read or parsed: New goes on with a CA that only this
   process knows. *)
GenerateInMemory(p) ==
  /\ \/ start[p] = "loadCert" /\ disk["ca.crt"] \notin Pairs
     \/ start[p] = "loadKey" /\ disk["ca.key"] \notin Pairs
  /\ lastPair < MaxPairs
  /\ lastPair' = lastPair + 1
  /\ ca' = [ca EXCEPT ![p] = [crt |-> lastPair', key |-> lastPair']]
  /\ start' = [start EXCEPT ![p] = "up"]
  /\ UNCHANGED <<disk, age, at, making, startsOverlapped, filesRemoved>>

(* The process ends: stopped, killed, or because a file could not be written. *)
Stop(p) ==
  /\ start[p] # "down"
  /\ start' = [start EXCEPT ![p] = "down"]
  /\ at' = [at EXCEPT ![p] = 1]
  /\ making' = [making EXCEPT ![p] = 0]
  /\ ca' = [ca EXCEPT ![p] = NoCA]
  /\ UNCHANGED <<disk, age, lastPair, startsOverlapped, filesRemoved>>

(* Time passes: what was made earlier expires earlier. *)
Expire(n) ==
  /\ n <= lastPair
  /\ age[n] < 2
  /\ \A m \in 1..(n - 1) : age[m] > age[n]
  /\ age' = [age EXCEPT ![n] = @ + 1]
  /\ UNCHANGED <<disk, lastPair, start, at, making, ca, startsOverlapped, filesRemoved>>

(* The user removes a file, to have it made anew. *)
RemoveFile(f) ==
  /\ f \in Removable
  /\ disk[f] # MissingFile
  /\ disk' = [disk EXCEPT ![f] = MissingFile]
  /\ filesRemoved' = filesRemoved \union {f}
  /\ UNCHANGED <<age, lastPair, start, at, making, ca, startsOverlapped>>

Begin(p) == LaunchStarter(p) \/ StatFiles(p) \/ ParseFile(p) \/ GeneratePair(p)
SaveFiles(p) == Truncate(p) \/ Fill(p)
LoadCA(p) == LoadCert(p) \/ LoadKey(p) \/ GenerateInMemory(p)

CertFilesNext ==
  \/ \E p \in Starters : Begin(p) \/ SaveFiles(p) \/ LoadCA(p) \/ Stop(p)
  \/ \E n \in Pairs : Expire(n)
  \/ \E f \in CertFileNames : RemoveFile(f)

CertFilesSpec == CertFilesInit /\ [][CertFilesNext]_certFileVars

-----------------------------------------------------------------------------
(* Properties *)

(* A proxy that is up signs with a certificate and a key that belong together,
   and they are the ones on the disk, which the user trusts: whatever
   generations were cut off by a crash at any write, and whatever expired.  It
   takes a second process that runs while files are made, or a user who
   removes ca.crt, to break this; EnsureCerts does not see it afterwards, as it
   compares no certificate with its key. *)
LoneStartCanSign ==
  ~startsOverlapped /\ "ca.crt" \notin filesRemoved =>
    \A p \in Starters : start[p] = "up" =>
      /\ ca[p].crt = ca[p].key
      /\ "ca.key" \notin filesRemoved => ca[p].crt = disk["ca.crt"]
=============================================================================
