---------------------------- MODULE FilesProofs -----------------------------
(*************************************************************************)
(* Proofs about the components that keep state in files: CertFiles,      *)
(* CertManager, HookFile, DaemonPID, and the two ways in which an audit  *)
(* log is read back, page by page (AuditSearch) and decrypted            *)
(* (EncryptedLog).                                                       *)
(*************************************************************************)
EXTENDS
  CertFiles, CertManager, HookFile, DaemonPID, AuditSearch, EncryptedLog,
  SelectionProofs, FiniteSetTheorems, TLAPS

-----------------------------------------------------------------------------
(*************************************************************************)
(* CertFiles, for any number of starters. That a lone start can sign is  *)
(* not inductive: a start that finds the files must find a pair, and     *)
(* those it writes must fit each other, through every crash of those     *)
(* before it and in whatever order the files were removed.               *)
(*************************************************************************)

(* Only these start with certificates that nobody else writes or has removed. *)
Lone == ~startsOverlapped /\ "ca.crt" \notin filesRemoved

SavesFiles(p) == start[p] \in {"truncate", "fill"}

(* A certificate of an older pair expires earlier. *)
AgesOrdered == \A m, n \in Pairs : m <= n => age[m] >= age[n]

(* No file and no process has a pair that has not been generated. *)
PairsGenerated ==
  /\ \A f \in CertFileNames : disk[f] <= lastPair
  /\ \A p \in Starters : making[p] <= lastPair

(* Who saves files runs alone, and nothing on the disk is newer. *)
WriterAlone ==
  \A p \in Starters : SavesFiles(p) =>
    /\ \A q \in Starters \ {p} : start[q] = "down"
    /\ making[p] \in Pairs
    /\ \A f \in CertFileNames : disk[f] <= making[p]

ServerNotNewer ==
  disk["ca.crt"] \in Pairs => disk["server.crt"] <= disk["ca.crt"]

KeyUnfit == disk["server.key"] \notin Pairs
ServerUnfit == ~Acceptable("server.crt") \/ KeyUnfit

(* A key of another CA than the certificate's is found together with a server
   pair that makes the next start generate everything anew. *)
NoKey == disk["ca.key"] \notin Pairs
KeyFits == NoKey \/ disk["ca.key"] = disk["ca.crt"]
FitsOrRemade == KeyFits \/ ServerUnfit

KeySaved(n) ==
  \/ disk["ca.key"] = n
  \/ disk["ca.key"] = MissingFile /\ "ca.key" \in filesRemoved

(* What a process has established about ca.crt and ca.key when it is at a step:
   reading the files, about to replace them, half-way, loading, and up. *)
Established(p) ==
  /\ start[p] = "parse" /\ at[p] >= 2 => KeyFits \/ KeyUnfit
  /\ start[p] = "parse" /\ at[p] >= 3 => disk["ca.crt"] \in Pairs
  /\ start[p] = "parse" /\ at[p] >= 4 => KeyFits
  /\ start[p] = "generate" => NoKey \/ ServerUnfit
  /\ SavesFiles(p) /\ at[p] = 1 => NoKey \/ ServerUnfit
  /\ SavesFiles(p) /\ at[p] >= 2 => disk["ca.crt"] = making[p]
  /\ start[p] = "truncate" /\ at[p] = 2 => NoKey \/ ServerUnfit
  /\ start[p] = "fill" /\ at[p] = 2 => NoKey
  /\ SavesFiles(p) /\ at[p] >= 3 => KeySaved(making[p])
  /\ start[p] \in {"loadCert", "loadKey"} =>
       disk["ca.crt"] \in Pairs /\ KeySaved(disk["ca.crt"])
  /\ start[p] = "loadKey" => ca[p].crt = disk["ca.crt"]
  /\ start[p] = "up" =>
       /\ ca[p].crt = ca[p].key
       /\ "ca.key" \notin filesRemoved => ca[p].crt = disk["ca.crt"]

LoneInv ==
  /\ WriterAlone
  /\ ServerNotNewer
  /\ FitsOrRemade
  /\ \A p \in Starters : Established(p)

CertFilesInv ==
  /\ CertFilesTypeOK
  /\ AgesOrdered
  /\ PairsGenerated
  /\ Lone => LoneInv

-----------------------------------------------------------------------------
LEMMA FourFiles ==
  /\ CertFileNames = {"ca.crt", "ca.key", "server.crt", "server.key"}
  /\ SaveOrder[1] = "ca.crt" /\ SaveOrder[2] = "ca.key"
  /\ SaveOrder[3] = "server.crt" /\ SaveOrder[4] = "server.key"
  /\ ParseOrder[1] = "server.crt" /\ ParseOrder[2] = "ca.crt"
  /\ ParseOrder[3] = "server.key" /\ ParseOrder[4] = "ca.key"
<1>1. /\ SaveOrder[1] = "ca.crt" /\ SaveOrder[2] = "ca.key"
      /\ SaveOrder[3] = "server.crt" /\ SaveOrder[4] = "server.key"
      /\ DOMAIN SaveOrder = 1..4
  BY DEF SaveOrder
<1>2. CertFileNames = {SaveOrder[i] : i \in 1..4}
  BY <1>1 DEF CertFileNames, ToSet
<1>3. CertFileNames = {"ca.crt", "ca.key", "server.crt", "server.key"}
  BY <1>1, <1>2
<1> QED
  BY <1>1, <1>3 DEF ParseOrder

LEMMA CertFilesStarts == CertFilesInit => CertFilesInv
<1> SUFFICES ASSUME CertFilesInit PROVE CertFilesInv
  OBVIOUS
<1> USE DEF CertFilesInit
<1>1. CertFilesTypeOK
  <2>1. /\ 0 \in 0..MaxPairs /\ MissingFile \in FileContents /\ NoCA \in [crt : 0..MaxPairs, key : 0..MaxPairs]
        /\ 0 \in 0..2 /\ 1 \in 1..4
    BY MaxPairsAssumption DEF NoCA, FileContents, MissingFile
  <2> QED
    BY <2>1 DEF CertFilesTypeOK
<1>2. AgesOrdered /\ PairsGenerated
  BY MaxPairsAssumption DEF AgesOrdered, PairsGenerated, MissingFile, Pairs
<1>3. LoneInv
  BY FourFiles, MaxPairsAssumption
  DEF LoneInv, WriterAlone, SavesFiles, ServerNotNewer, FitsOrRemade, KeyFits, NoKey, Established,
      MissingFile, Pairs
<1> QED
  BY <1>1, <1>2, <1>3 DEF CertFilesInv

(* What holds whoever else writes. *)
CommonInv == CertFilesTypeOK /\ AgesOrdered /\ PairsGenerated

LEMMA ContentsAreNumbers ==
  /\ MissingFile \in FileContents /\ TornFile \in FileContents
  /\ \A n \in Pairs : n \in FileContents /\ n \in 0..MaxPairs /\ n \in Nat /\ n >= 1
  /\ \A n \in FileContents : n \in Int /\ (n \in Pairs <=> n >= 1)
  /\ \A n \in 0..MaxPairs : n \in Nat /\ (n \in Pairs <=> n # 0)
  /\ MissingFile = 0 /\ TornFile = -1
  BY MaxPairsAssumption DEF FileContents, MissingFile, TornFile, Pairs

LEMMA CommonKeeps == CommonInv /\ [CertFilesNext]_certFileVars => CommonInv'
<1> SUFFICES ASSUME CommonInv, [CertFilesNext]_certFileVars PROVE CommonInv'
  OBVIOUS
<1> USE DEF CommonInv
<1>0. /\ MaxPairs \in Nat /\ lastPair \in Int
      /\ \A f \in CertFileNames : disk[f] \in Int
      /\ \A p \in Starters : making[p] \in Int
  BY MaxPairsAssumption, ContentsAreNumbers DEF CertFilesTypeOK
<1>1. ASSUME NEW p \in Starters, LaunchStarter(p) PROVE CommonInv'
  <2>1. CertFilesTypeOK'
    BY <1>0, <1>1, ContentsAreNumbers DEF LaunchStarter, CertFilesTypeOK
  <2>2. AgesOrdered'
    BY <1>0, <1>1 DEF LaunchStarter, CertFilesTypeOK, AgesOrdered, Pairs
  <2>3. PairsGenerated'
    BY <1>0, <1>1, ContentsAreNumbers DEF LaunchStarter, CertFilesTypeOK, PairsGenerated
  <2> QED
    BY <2>1, <2>2, <2>3
<1>2. ASSUME NEW p \in Starters, StatFiles(p) PROVE CommonInv'
  <2>1. CertFilesTypeOK'
    BY <1>0, <1>2, ContentsAreNumbers DEF StatFiles, CertFilesTypeOK
  <2>2. AgesOrdered'
    BY <1>0, <1>2 DEF StatFiles, CertFilesTypeOK, AgesOrdered, Pairs
  <2>3. PairsGenerated'
    BY <1>0, <1>2, ContentsAreNumbers DEF StatFiles, CertFilesTypeOK, PairsGenerated
  <2> QED
    BY <2>1, <2>2, <2>3
<1>3. ASSUME NEW p \in Starters, ParseFile(p) PROVE CommonInv'
  <2>1. CertFilesTypeOK'
    BY <1>0, <1>3, ContentsAreNumbers DEF ParseFile, CertFilesTypeOK
  <2>2. AgesOrdered'
    BY <1>0, <1>3 DEF ParseFile, CertFilesTypeOK, AgesOrdered, Pairs
  <2>3. PairsGenerated'
    BY <1>0, <1>3, ContentsAreNumbers DEF ParseFile, CertFilesTypeOK, PairsGenerated
  <2> QED
    BY <2>1, <2>2, <2>3
<1>4. ASSUME NEW p \in Starters, GeneratePair(p) PROVE CommonInv'
  <2>1. CertFilesTypeOK'
    BY <1>0, <1>4, ContentsAreNumbers DEF GeneratePair, CertFilesTypeOK
  <2>2. AgesOrdered'
    BY <1>0, <1>4 DEF GeneratePair, CertFilesTypeOK, AgesOrdered, Pairs
  <2>3. PairsGenerated'
    <3>1. /\ \A f \in CertFileNames : disk'[f] = disk[f]
          /\ \A q \in Starters : making'[q] = making[q] \/ making'[q] = lastPair'
          /\ lastPair' = lastPair + 1
      BY <1>4 DEF GeneratePair, CertFilesTypeOK
    <3> QED
      <4>1. \A f \in CertFileNames : disk'[f] <= lastPair'
        BY <1>0, <3>1 DEF PairsGenerated
      <4>2. \A q \in Starters : making'[q] <= lastPair'
        BY <1>0, <3>1 DEF PairsGenerated
      <4> QED
        BY <4>1, <4>2 DEF PairsGenerated
  <2> QED
    BY <2>1, <2>2, <2>3
<1>5. ASSUME NEW p \in Starters, Truncate(p) PROVE CommonInv'
  <2>1. CertFilesTypeOK'
    BY <1>0, <1>5, ContentsAreNumbers, FourFiles DEF Truncate, CertFilesTypeOK
  <2>2. AgesOrdered'
    BY <1>0, <1>5 DEF Truncate, CertFilesTypeOK, AgesOrdered, Pairs
  <2>3. PairsGenerated'
    BY <1>0, <1>5, ContentsAreNumbers, FourFiles DEF Truncate, CertFilesTypeOK, PairsGenerated
  <2> QED
    BY <2>1, <2>2, <2>3
<1>6. ASSUME NEW p \in Starters, Fill(p) PROVE CommonInv'
  <2>1. CertFilesTypeOK'
    BY <1>0, <1>6, ContentsAreNumbers, FourFiles DEF Fill, CertFilesTypeOK
  <2>2. AgesOrdered'
    BY <1>0, <1>6 DEF Fill, CertFilesTypeOK, AgesOrdered, Pairs
  <2>3. PairsGenerated'
    BY <1>0, <1>6, ContentsAreNumbers, FourFiles DEF Fill, CertFilesTypeOK, PairsGenerated
  <2> QED
    BY <2>1, <2>2, <2>3
<1>7. ASSUME NEW p \in Starters, LoadCert(p) PROVE CommonInv'
  <2>1. CertFilesTypeOK'
    BY <1>0, <1>7, ContentsAreNumbers DEF LoadCert, CertFilesTypeOK
  <2>2. AgesOrdered'
    BY <1>0, <1>7 DEF LoadCert, CertFilesTypeOK, AgesOrdered, Pairs
  <2>3. PairsGenerated'
    BY <1>0, <1>7, ContentsAreNumbers DEF LoadCert, CertFilesTypeOK, PairsGenerated
  <2> QED
    BY <2>1, <2>2, <2>3
<1>8. ASSUME NEW p \in Starters, LoadKey(p) PROVE CommonInv'
  <2>1. CertFilesTypeOK'
    BY <1>0, <1>8, ContentsAreNumbers DEF LoadKey, CertFilesTypeOK
  <2>2. AgesOrdered'
    BY <1>0, <1>8 DEF LoadKey, CertFilesTypeOK, AgesOrdered, Pairs
  <2>3. PairsGenerated'
    BY <1>0, <1>8, ContentsAreNumbers DEF LoadKey, CertFilesTypeOK, PairsGenerated
  <2> QED
    BY <2>1, <2>2, <2>3
<1>9. ASSUME NEW p \in Starters, GenerateInMemory(p) PROVE CommonInv'
  <2>1. CertFilesTypeOK'
    BY <1>0, <1>9, ContentsAreNumbers DEF GenerateInMemory, CertFilesTypeOK
  <2>2. AgesOrdered'
    BY <1>0, <1>9 DEF GenerateInMemory, CertFilesTypeOK, AgesOrdered, Pairs
  <2>3. PairsGenerated'
    <3>1. /\ \A f \in CertFileNames : disk'[f] = disk[f]
          /\ \A q \in Starters : making'[q] = making[q] \/ making'[q] = lastPair'
          /\ lastPair' = lastPair + 1
      BY <1>9 DEF GenerateInMemory, CertFilesTypeOK
    <3> QED
      <4>1. \A f \in CertFileNames : disk'[f] <= lastPair'
        BY <1>0, <3>1 DEF PairsGenerated
      <4>2. \A q \in Starters : making'[q] <= lastPair'
        BY <1>0, <3>1 DEF PairsGenerated
      <4> QED
        BY <4>1, <4>2 DEF PairsGenerated
  <2> QED
    BY <2>1, <2>2, <2>3
<1>10. ASSUME NEW p \in Starters, Stop(p) PROVE CommonInv'
  <2>1. CertFilesTypeOK'
    BY <1>0, <1>10, ContentsAreNumbers DEF Stop, NoCA, CertFilesTypeOK
  <2>2. AgesOrdered'
    BY <1>0, <1>10 DEF Stop, NoCA, CertFilesTypeOK, AgesOrdered, Pairs
  <2>3. PairsGenerated'
    BY <1>0, <1>10, ContentsAreNumbers DEF Stop, NoCA, CertFilesTypeOK, PairsGenerated
  <2> QED
    BY <2>1, <2>2, <2>3
<1>11. ASSUME NEW n \in Pairs, Expire(n) PROVE CommonInv'
  <2>1. CertFilesTypeOK'
    BY <1>0, <1>11, ContentsAreNumbers DEF Expire, CertFilesTypeOK
  <2>2. AgesOrdered'
    <3> SUFFICES ASSUME NEW k \in Pairs, NEW m \in Pairs, k <= m
                 PROVE  age'[k] >= age'[m]
      BY DEF AgesOrdered
    <3>1. age[k] >= age[m] /\ age \in [Pairs -> 0..2]
      BY DEF AgesOrdered, CertFilesTypeOK
    <3>2. age' = [age EXCEPT ![n] = @ + 1] /\ \A i \in 1..(n - 1) : age[i] > age[n]
      BY <1>11 DEF Expire
    <3>3. k \in Int /\ m \in Int /\ n \in Int /\ k >= 1
      BY <1>0 DEF Pairs
    <3>4. CASE m = n /\ k # n
      <4>1. age[k] > age[n]
        BY <3>2, <3>3, <3>4
      <4> QED
        BY <3>1, <3>2, <3>4, <4>1
    <3>5. CASE m # n \/ k = n
      BY <3>1, <3>2, <3>5
    <3> QED
      BY <3>4, <3>5
  <2>3. PairsGenerated'
    BY <1>0, <1>11, ContentsAreNumbers DEF Expire, CertFilesTypeOK, PairsGenerated
  <2> QED
    BY <2>1, <2>2, <2>3
<1>12. ASSUME NEW f \in CertFileNames, RemoveFile(f) PROVE CommonInv'
  <2>1. CertFilesTypeOK'
    BY <1>0, <1>12, ContentsAreNumbers DEF RemoveFile, CertFilesTypeOK
  <2>2. AgesOrdered'
    BY <1>0, <1>12 DEF RemoveFile, CertFilesTypeOK, AgesOrdered, Pairs
  <2>3. PairsGenerated'
    BY <1>0, <1>12, ContentsAreNumbers DEF RemoveFile, CertFilesTypeOK, PairsGenerated
  <2> QED
    BY <2>1, <2>2, <2>3
<1>13. CASE UNCHANGED certFileVars
  BY <1>13 DEF certFileVars, CertFilesTypeOK, AgesOrdered, PairsGenerated
<1> QED
  BY <1>1, <1>2, <1>3, <1>4, <1>5, <1>6, <1>7, <1>8, <1>9, <1>10, <1>11, <1>12, <1>13
     DEF CertFilesNext, Begin, SaveFiles, LoadCA

LEMMA LoneKeeps == CommonInv /\ CommonInv' /\ LoneInv /\ Lone' /\ [CertFilesNext]_certFileVars => LoneInv'
<1> SUFFICES ASSUME CommonInv, CommonInv', LoneInv, Lone', [CertFilesNext]_certFileVars PROVE LoneInv'
  OBVIOUS
<1> USE DEF CommonInv
<1>0. CertFilesTypeOK /\ CertFilesTypeOK' /\ MaxPairs \in Nat
  BY MaxPairsAssumption
<1>1. ASSUME NEW p \in Starters, LaunchStarter(p) PROVE LoneInv'
  <2>1. WriterAlone'
    BY <1>0, <1>1, ContentsAreNumbers
       DEF LaunchStarter, CertFilesTypeOK, Lone, LoneInv, WriterAlone, SavesFiles
  <2>2. ServerNotNewer'
    BY <1>0, <1>1, ContentsAreNumbers, FourFiles
       DEF LaunchStarter, CertFilesTypeOK, Lone, LoneInv, WriterAlone, SavesFiles,
           ServerNotNewer, Established
  <2>3. FitsOrRemade'
    BY <1>0, <1>1, ContentsAreNumbers, FourFiles
       DEF LaunchStarter, CertFilesTypeOK, Lone, LoneInv, FitsOrRemade, KeyFits, NoKey,
           ServerUnfit, KeyUnfit, Acceptable, Established, SavesFiles, KeySaved
  <2>4. \A q \in Starters : Established(q)'
    BY <1>0, <1>1, ContentsAreNumbers, FourFiles
       DEF LaunchStarter, CertFilesTypeOK, Lone, LoneInv, FitsOrRemade, KeyFits, NoKey,
           ServerUnfit, KeyUnfit, Acceptable, Established, SavesFiles, KeySaved, WriterAlone,
           ServerNotNewer
  <2> QED
    BY <2>1, <2>2, <2>3, <2>4 DEF LoneInv
<1>2. ASSUME NEW p \in Starters, StatFiles(p) PROVE LoneInv'
  <2>1. WriterAlone'
    BY <1>0, <1>2, ContentsAreNumbers
       DEF StatFiles, CertFilesTypeOK, Lone, LoneInv, WriterAlone, SavesFiles
  <2>2. ServerNotNewer'
    BY <1>0, <1>2, ContentsAreNumbers, FourFiles
       DEF StatFiles, CertFilesTypeOK, Lone, LoneInv, WriterAlone, SavesFiles, ServerNotNewer,
           Established
  <2>3. FitsOrRemade'
    BY <1>0, <1>2, ContentsAreNumbers, FourFiles
       DEF StatFiles, CertFilesTypeOK, Lone, LoneInv, FitsOrRemade, KeyFits, NoKey, ServerUnfit,
           KeyUnfit, Acceptable, Established, SavesFiles, KeySaved
  <2>4. \A q \in Starters : Established(q)'
    BY <1>0, <1>2, ContentsAreNumbers, FourFiles
       DEF StatFiles, CertFilesTypeOK, Lone, LoneInv, FitsOrRemade, KeyFits, NoKey, ServerUnfit,
           KeyUnfit, Acceptable, Established, SavesFiles, KeySaved, WriterAlone, ServerNotNewer
  <2> QED
    BY <2>1, <2>2, <2>3, <2>4 DEF LoneInv
<1>3. ASSUME NEW p \in Starters, ParseFile(p) PROVE LoneInv'
  <2>1. WriterAlone'
    BY <1>0, <1>3, ContentsAreNumbers
       DEF ParseFile, CertFilesTypeOK, Lone, LoneInv, WriterAlone, SavesFiles
  <2>2. ServerNotNewer'
    BY <1>0, <1>3, ContentsAreNumbers, FourFiles
       DEF ParseFile, CertFilesTypeOK, Lone, LoneInv, WriterAlone, SavesFiles, ServerNotNewer,
           Established
  <2>3. FitsOrRemade'
    BY <1>0, <1>3, ContentsAreNumbers, FourFiles
       DEF ParseFile, CertFilesTypeOK, Lone, LoneInv, FitsOrRemade, KeyFits, NoKey, ServerUnfit,
           KeyUnfit, Acceptable, Established, SavesFiles, KeySaved
  <2>4. \A q \in Starters : Established(q)'
    <3> TAKE q \in Starters
    <3>1. CASE q # p
      BY <1>0, <1>3, <3>1
         DEF ParseFile, CertFilesTypeOK, Lone, LoneInv, FitsOrRemade, KeyFits, NoKey,
             ServerUnfit, KeyUnfit, Acceptable, Established, SavesFiles, KeySaved
    <3>2. CASE q = p /\ Acceptable(ParseOrder[at[p]])
      <4>1. CASE at[p] = 1
        BY <1>0, <1>3, <3>2, <4>1, ContentsAreNumbers, FourFiles
           DEF ParseFile, CertFilesTypeOK, Lone, LoneInv, FitsOrRemade, KeyFits, NoKey,
               ServerUnfit, KeyUnfit, Acceptable, Established, SavesFiles, KeySaved
      <4>2. CASE at[p] = 2
        BY <1>0, <1>3, <3>2, <4>2, ContentsAreNumbers, FourFiles
           DEF ParseFile, CertFilesTypeOK, Lone, LoneInv, FitsOrRemade, KeyFits, NoKey,
               ServerUnfit, KeyUnfit, Acceptable, Established, SavesFiles, KeySaved
      <4>3. CASE at[p] = 3
        BY <1>0, <1>3, <3>2, <4>3, ContentsAreNumbers, FourFiles
           DEF ParseFile, CertFilesTypeOK, Lone, LoneInv, FitsOrRemade, KeyFits, NoKey,
               ServerUnfit, KeyUnfit, Acceptable, Established, SavesFiles, KeySaved
      <4>4. CASE at[p] = 4
        BY <1>0, <1>3, <3>2, <4>4, ContentsAreNumbers, FourFiles
           DEF ParseFile, CertFilesTypeOK, Lone, LoneInv, FitsOrRemade, KeyFits, NoKey,
               ServerUnfit, KeyUnfit, Acceptable, Established, SavesFiles, KeySaved
      <4> QED
        BY <1>0, <4>1, <4>2, <4>3, <4>4 DEF CertFilesTypeOK
    <3>3. CASE q = p /\ ~Acceptable(ParseOrder[at[p]])
      <4>1. NoKey \/ ServerUnfit
        <5>1. CASE at[p] = 1
          BY <3>3, <5>1, FourFiles DEF ServerUnfit
        <5>2. CASE at[p] = 2
          <6>1. disk["ca.crt"] \notin Pairs \/ age[disk["ca.crt"]] = 2
            BY <1>0, <3>3, <5>2, FourFiles DEF Acceptable, CertFilesTypeOK
          <6>2. CASE disk["ca.crt"] \in Pairs /\ disk["server.crt"] \in Pairs
            <7>1. age[disk["server.crt"]] >= age[disk["ca.crt"]]
              BY <6>2 DEF LoneInv, ServerNotNewer, AgesOrdered
            <7> QED
              BY <1>0, <6>1, <6>2, <7>1, FourFiles DEF ServerUnfit, Acceptable, CertFilesTypeOK
          <6>3. CASE disk["server.crt"] \notin Pairs
            BY <6>3 DEF ServerUnfit, Acceptable
          <6>4. CASE disk["ca.crt"] \notin Pairs
            BY <6>4 DEF LoneInv, FitsOrRemade, KeyFits, NoKey
          <6> QED
            BY <6>2, <6>3, <6>4
        <5>3. CASE at[p] = 3
          BY <3>3, <5>3, FourFiles DEF ServerUnfit, KeyUnfit, Acceptable
        <5>4. CASE at[p] = 4
          BY <3>3, <5>4, FourFiles DEF NoKey, Acceptable
        <5> QED
          BY <1>0, <5>1, <5>2, <5>3, <5>4 DEF CertFilesTypeOK
      <4> QED
        BY <1>0, <1>3, <3>3, <4>1
           DEF ParseFile, CertFilesTypeOK, Established, NoKey, ServerUnfit, KeyUnfit,
               Acceptable, SavesFiles
    <3> QED
      BY <3>1, <3>2, <3>3
  <2> QED
    BY <2>1, <2>2, <2>3, <2>4 DEF LoneInv
<1>4. ASSUME NEW p \in Starters, GeneratePair(p) PROVE LoneInv'
  <2>1. WriterAlone'
    <3>1. \A q \in Starters \ {p} : start[q] = "down" /\ start'[q] = start[q]
      BY <1>0, <1>4 DEF GeneratePair, CertFilesTypeOK, Lone
    <3>2. lastPair \in Int /\ \A f \in CertFileNames : disk[f] \in Int
      BY <1>0, ContentsAreNumbers DEF CertFilesTypeOK
    <3>3. /\ making'[p] = lastPair + 1 /\ disk' = disk /\ lastPair + 1 \in Pairs
      BY <1>0, <1>4 DEF GeneratePair, CertFilesTypeOK, Pairs
    <3>4. \A f \in CertFileNames : disk[f] <= lastPair + 1
      BY <3>2 DEF PairsGenerated
    <3> QED
      BY <1>0, <3>1, <3>3, <3>4 DEF WriterAlone, SavesFiles
  <2>2. ServerNotNewer'
    BY <1>0, <1>4, ContentsAreNumbers, FourFiles
       DEF GeneratePair, CertFilesTypeOK, Lone, LoneInv, WriterAlone, SavesFiles,
           ServerNotNewer, Established
  <2>3. FitsOrRemade'
    BY <1>0, <1>4, ContentsAreNumbers, FourFiles
       DEF GeneratePair, CertFilesTypeOK, Lone, LoneInv, FitsOrRemade, KeyFits, NoKey,
           ServerUnfit, KeyUnfit, Acceptable, Established, SavesFiles, KeySaved
  <2>4. \A q \in Starters : Established(q)'
    BY <1>0, <1>4, ContentsAreNumbers, FourFiles
       DEF GeneratePair, CertFilesTypeOK, Lone, LoneInv, FitsOrRemade, KeyFits, NoKey,
           ServerUnfit, KeyUnfit, Acceptable, Established, SavesFiles, KeySaved, WriterAlone,
           ServerNotNewer
  <2> QED
    BY <2>1, <2>2, <2>3, <2>4 DEF LoneInv
<1>5. ASSUME NEW p \in Starters, Truncate(p) PROVE LoneInv'
  <2>1. WriterAlone'
    BY <1>0, <1>5, ContentsAreNumbers, FourFiles
       DEF Truncate, CertFilesTypeOK, Lone, LoneInv, WriterAlone, SavesFiles
  <2>2. ServerNotNewer'
    BY <1>0, <1>5, ContentsAreNumbers, FourFiles
       DEF Truncate, CertFilesTypeOK, Lone, LoneInv, WriterAlone, SavesFiles, ServerNotNewer,
           Established
  <2>3. FitsOrRemade'
    BY <1>0, <1>5, ContentsAreNumbers, FourFiles
       DEF Truncate, CertFilesTypeOK, Lone, LoneInv, FitsOrRemade, KeyFits, NoKey, ServerUnfit,
           KeyUnfit, Acceptable, Established, SavesFiles, KeySaved
  <2>4. \A q \in Starters : Established(q)'
    BY <1>0, <1>5, ContentsAreNumbers, FourFiles
       DEF Truncate, CertFilesTypeOK, Lone, LoneInv, FitsOrRemade, KeyFits, NoKey, ServerUnfit,
           KeyUnfit, Acceptable, Established, SavesFiles, KeySaved, WriterAlone, ServerNotNewer
  <2> QED
    BY <2>1, <2>2, <2>3, <2>4 DEF LoneInv
<1>6. ASSUME NEW p \in Starters, Fill(p) PROVE LoneInv'
  <2>1. WriterAlone'
    BY <1>0, <1>6, ContentsAreNumbers, FourFiles
       DEF Fill, CertFilesTypeOK, Lone, LoneInv, WriterAlone, SavesFiles
  <2>2. ServerNotNewer'
    BY <1>0, <1>6, ContentsAreNumbers, FourFiles
       DEF Fill, CertFilesTypeOK, Lone, LoneInv, WriterAlone, SavesFiles, ServerNotNewer,
           Established
  <2>3. FitsOrRemade'
    BY <1>0, <1>6, ContentsAreNumbers, FourFiles
       DEF Fill, CertFilesTypeOK, Lone, LoneInv, FitsOrRemade, KeyFits, NoKey, ServerUnfit,
           KeyUnfit, Acceptable, Established, SavesFiles, KeySaved
  <2>4. \A q \in Starters : Established(q)'
    BY <1>0, <1>6, ContentsAreNumbers, FourFiles
       DEF Fill, CertFilesTypeOK, Lone, LoneInv, FitsOrRemade, KeyFits, NoKey, ServerUnfit,
           KeyUnfit, Acceptable, Established, SavesFiles, KeySaved, WriterAlone, ServerNotNewer
  <2> QED
    BY <2>1, <2>2, <2>3, <2>4 DEF LoneInv
<1>7. ASSUME NEW p \in Starters, LoadCert(p) PROVE LoneInv'
  <2>1. WriterAlone'
    BY <1>0, <1>7, ContentsAreNumbers
       DEF LoadCert, CertFilesTypeOK, Lone, LoneInv, WriterAlone, SavesFiles
  <2>2. ServerNotNewer'
    BY <1>0, <1>7, ContentsAreNumbers, FourFiles
       DEF LoadCert, CertFilesTypeOK, Lone, LoneInv, WriterAlone, SavesFiles, ServerNotNewer,
           Established
  <2>3. FitsOrRemade'
    BY <1>0, <1>7, ContentsAreNumbers, FourFiles
       DEF LoadCert, CertFilesTypeOK, Lone, LoneInv, FitsOrRemade, KeyFits, NoKey, ServerUnfit,
           KeyUnfit, Acceptable, Established, SavesFiles, KeySaved
  <2>4. \A q \in Starters : Established(q)'
    BY <1>0, <1>7, ContentsAreNumbers, FourFiles
       DEF LoadCert, CertFilesTypeOK, Lone, LoneInv, FitsOrRemade, KeyFits, NoKey, ServerUnfit,
           KeyUnfit, Acceptable, Established, SavesFiles, KeySaved, WriterAlone, ServerNotNewer
  <2> QED
    BY <2>1, <2>2, <2>3, <2>4 DEF LoneInv
<1>8. ASSUME NEW p \in Starters, LoadKey(p) PROVE LoneInv'
  <2>1. WriterAlone'
    BY <1>0, <1>8, ContentsAreNumbers
       DEF LoadKey, CertFilesTypeOK, Lone, LoneInv, WriterAlone, SavesFiles
  <2>2. ServerNotNewer'
    BY <1>0, <1>8, ContentsAreNumbers, FourFiles
       DEF LoadKey, CertFilesTypeOK, Lone, LoneInv, WriterAlone, SavesFiles, ServerNotNewer,
           Established
  <2>3. FitsOrRemade'
    BY <1>0, <1>8, ContentsAreNumbers, FourFiles
       DEF LoadKey, CertFilesTypeOK, Lone, LoneInv, FitsOrRemade, KeyFits, NoKey, ServerUnfit,
           KeyUnfit, Acceptable, Established, SavesFiles, KeySaved
  <2>4. \A q \in Starters : Established(q)'
    BY <1>0, <1>8, ContentsAreNumbers, FourFiles
       DEF LoadKey, CertFilesTypeOK, Lone, LoneInv, FitsOrRemade, KeyFits, NoKey, ServerUnfit,
           KeyUnfit, Acceptable, Established, SavesFiles, KeySaved, WriterAlone, ServerNotNewer
  <2> QED
    BY <2>1, <2>2, <2>3, <2>4 DEF LoneInv
<1>9. ASSUME NEW p \in Starters, GenerateInMemory(p) PROVE LoneInv'
  <2>1. WriterAlone'
    BY <1>0, <1>9, ContentsAreNumbers
       DEF GenerateInMemory, CertFilesTypeOK, Lone, LoneInv, WriterAlone, SavesFiles
  <2>2. ServerNotNewer'
    BY <1>0, <1>9, ContentsAreNumbers, FourFiles
       DEF GenerateInMemory, CertFilesTypeOK, Lone, LoneInv, WriterAlone, SavesFiles,
           ServerNotNewer, Established
  <2>3. FitsOrRemade'
    BY <1>0, <1>9, ContentsAreNumbers, FourFiles
       DEF GenerateInMemory, CertFilesTypeOK, Lone, LoneInv, FitsOrRemade, KeyFits, NoKey,
           ServerUnfit, KeyUnfit, Acceptable, Established, SavesFiles, KeySaved
  <2>4. \A q \in Starters : Established(q)'
    BY <1>0, <1>9, ContentsAreNumbers, FourFiles
       DEF GenerateInMemory, CertFilesTypeOK, Lone, LoneInv, FitsOrRemade, KeyFits, NoKey,
           ServerUnfit, KeyUnfit, Acceptable, Established, SavesFiles, KeySaved, WriterAlone,
           ServerNotNewer
  <2> QED
    BY <2>1, <2>2, <2>3, <2>4 DEF LoneInv
<1>10. ASSUME NEW p \in Starters, Stop(p) PROVE LoneInv'
  <2>1. WriterAlone'
    BY <1>0, <1>10, ContentsAreNumbers
       DEF Stop, NoCA, CertFilesTypeOK, Lone, LoneInv, WriterAlone, SavesFiles
  <2>2. ServerNotNewer'
    BY <1>0, <1>10, ContentsAreNumbers, FourFiles
       DEF Stop, NoCA, CertFilesTypeOK, Lone, LoneInv, WriterAlone, SavesFiles, ServerNotNewer,
           Established
  <2>3. FitsOrRemade'
    BY <1>0, <1>10, ContentsAreNumbers, FourFiles
       DEF Stop, NoCA, CertFilesTypeOK, Lone, LoneInv, FitsOrRemade, KeyFits, NoKey,
           ServerUnfit, KeyUnfit, Acceptable, Established, SavesFiles, KeySaved
  <2>4. \A q \in Starters : Established(q)'
    BY <1>0, <1>10, ContentsAreNumbers, FourFiles
       DEF Stop, NoCA, CertFilesTypeOK, Lone, LoneInv, FitsOrRemade, KeyFits, NoKey,
           ServerUnfit, KeyUnfit, Acceptable, Established, SavesFiles, KeySaved, WriterAlone,
           ServerNotNewer
  <2> QED
    BY <2>1, <2>2, <2>3, <2>4 DEF LoneInv
<1>11. ASSUME NEW n \in Pairs, Expire(n) PROVE LoneInv'
  <2>1. WriterAlone'
    BY <1>0, <1>11, ContentsAreNumbers
       DEF Expire, CertFilesTypeOK, Lone, LoneInv, WriterAlone, SavesFiles
  <2>2. ServerNotNewer'
    BY <1>0, <1>11, ContentsAreNumbers, FourFiles
       DEF Expire, CertFilesTypeOK, Lone, LoneInv, WriterAlone, SavesFiles, ServerNotNewer,
           Established
  <2>3. FitsOrRemade'
    BY <1>0, <1>11, ContentsAreNumbers, FourFiles
       DEF Expire, CertFilesTypeOK, Lone, LoneInv, FitsOrRemade, KeyFits, NoKey, ServerUnfit,
           KeyUnfit, Acceptable, Established, SavesFiles, KeySaved
  <2>4. \A q \in Starters : Established(q)'
    BY <1>0, <1>11, ContentsAreNumbers, FourFiles
       DEF Expire, CertFilesTypeOK, Lone, LoneInv, FitsOrRemade, KeyFits, NoKey, ServerUnfit,
           KeyUnfit, Acceptable, Established, SavesFiles, KeySaved, WriterAlone, ServerNotNewer
  <2> QED
    BY <2>1, <2>2, <2>3, <2>4 DEF LoneInv
<1>12. ASSUME NEW f \in CertFileNames, RemoveFile(f) PROVE LoneInv'
  <2>1. WriterAlone'
    BY <1>0, <1>12, ContentsAreNumbers
       DEF RemoveFile, CertFilesTypeOK, Lone, LoneInv, WriterAlone, SavesFiles
  <2>2. ServerNotNewer'
    BY <1>0, <1>12, ContentsAreNumbers, FourFiles
       DEF RemoveFile, CertFilesTypeOK, Lone, LoneInv, WriterAlone, SavesFiles, ServerNotNewer,
           Established
  <2>3. FitsOrRemade'
    BY <1>0, <1>12, ContentsAreNumbers, FourFiles
       DEF RemoveFile, CertFilesTypeOK, Lone, LoneInv, FitsOrRemade, KeyFits, NoKey,
           ServerUnfit, KeyUnfit, Acceptable, Established, SavesFiles, KeySaved
  <2>4. \A q \in Starters : Established(q)'
    BY <1>0, <1>12, ContentsAreNumbers, FourFiles
       DEF RemoveFile, CertFilesTypeOK, Lone, LoneInv, FitsOrRemade, KeyFits, NoKey,
           ServerUnfit, KeyUnfit, Acceptable, Established, SavesFiles, KeySaved, WriterAlone,
           ServerNotNewer
  <2> QED
    BY <2>1, <2>2, <2>3, <2>4 DEF LoneInv
<1>13. CASE UNCHANGED certFileVars
  BY <1>13
     DEF certFileVars, LoneInv, WriterAlone, SavesFiles, ServerNotNewer, FitsOrRemade, KeyFits,
         NoKey, ServerUnfit, KeyUnfit, Acceptable, KeySaved, Established
<1> QED
  BY <1>1, <1>2, <1>3, <1>4, <1>5, <1>6, <1>7, <1>8, <1>9, <1>10, <1>11, <1>12, <1>13
     DEF CertFilesNext, Begin, SaveFiles, LoadCA

LEMMA CertFilesInvHolds == CertFilesSpec => []CertFilesInv
<1>1. CertFilesInv /\ [CertFilesNext]_certFileVars => CertFilesInv'
  <2> SUFFICES ASSUME CertFilesInv, [CertFilesNext]_certFileVars PROVE CertFilesInv'
    OBVIOUS
  <2>1. CommonInv /\ CommonInv'
    BY CommonKeeps DEF CertFilesInv, CommonInv
  <2>2. Lone' => Lone
    BY DEF CertFilesNext, Begin, SaveFiles, LoadCA, LaunchStarter, StatFiles, ParseFile,
       GeneratePair,
           Truncate, Fill, LoadCert, LoadKey, GenerateInMemory, Stop, Expire, RemoveFile,
           certFileVars, Lone
  <2>3. Lone' => LoneInv'
    BY <2>1, <2>2, LoneKeeps DEF CertFilesInv
  <2> QED
    BY <2>1, <2>3 DEF CertFilesInv, CommonInv
<1> QED
  BY <1>1, CertFilesStarts, PTL DEF CertFilesSpec

(* Whatever a crash cuts off and whatever expires, a proxy that starts without
   another one making files signs with a certificate and a key that belong
   together, those on the disk. *)
THEOREM LoneStartSigns == CertFilesSpec => []LoneStartCanSign
<1>1. CertFilesInv => LoneStartCanSign
  BY DEF CertFilesInv, Lone, LoneInv, Established, LoneStartCanSign
<1> QED
  BY <1>1, CertFilesInvHolds, PTL

-----------------------------------------------------------------------------
(*************************************************************************)
(* CertManager, for any hosts, any limit of the cache and any number of  *)
(* CAs.  Bounded by itself is not inductive: what stays bounded is the   *)
(* number of hosts in the cache, which leaves room for the CA.           *)
(*************************************************************************)

CachedHosts(cache) == Cached(cache) \ {CAName}

HostsBounded == injected = {} => Cardinality(CachedHosts(certCache)) <= maxCertCacheSize

ManagerInv == ManagerTypeOK /\ HostsBounded /\ SignedByCurrentCA

LEMMA CachedFinite ==
  ASSUME NEW cache
  PROVE  /\ IsFiniteSet(CacheKeys)
         /\ IsFiniteSet(Cached(cache))
         /\ IsFiniteSet(CachedHosts(cache))
<1>1. IsFiniteSet(CacheKeys)
  BY HostsAssumption, FS_Singleton, FS_Union DEF CacheKeys
<1>2. Cached(cache) \subseteq CacheKeys /\ CachedHosts(cache) \subseteq CacheKeys
  BY DEF Cached, CachedHosts
<1> QED
  BY <1>1, <1>2, FS_Subset

(* Signing a certificate for h, with or without an eviction, keeps the number of
   hosts within the limit. *)
LEMMA EvictionBounds ==
  ASSUME NEW old \in [CacheKeys -> 0..MaxCAs], NEW h \in Hosts, NEW n \in 1..MaxCAs,
         Cardinality(CachedHosts(old)) <= maxCertCacheSize,
         old[h] = 0,
         NEW new, new \in Evictions([old EXCEPT ![h] = n], h)
  PROVE  Cardinality(CachedHosts(new)) <= maxCertCacheSize
<1> DEFINE mid == [old EXCEPT ![h] = n]
<1>1. h \in CacheKeys /\ h # CAName
  BY HostsAssumption DEF CacheKeys
<1>2. CachedHosts(mid) = CachedHosts(old) \union {h} /\ h \notin CachedHosts(old)
  BY <1>1, MaxCAsAssumption DEF CachedHosts, Cached
<1>3. /\ Cardinality(CachedHosts(mid)) = Cardinality(CachedHosts(old)) + 1
      /\ Cardinality(CachedHosts(old)) \in Nat
      /\ Cardinality(CachedHosts(mid)) \in Nat
  BY <1>2, CachedFinite, FS_AddElement, FS_CardinalityType
<1>4. maxCertCacheSize \in Nat /\ maxCertCacheSize >= 1
  BY CacheSizeAssumption
<1>5. CASE Cardinality(Cached(mid)) > maxCertCacheSize /\ Evictable(mid, h) # {}
  <2>1. PICK k \in Evictable(mid, h) : new = [mid EXCEPT ![k] = 0]
    BY <1>5 DEF Evictions
  <2>2. k \in CachedHosts(mid) /\ k \in CacheKeys
    BY <2>1 DEF Evictable, CachedHosts, Cached
  <2>3. CachedHosts(new) = CachedHosts(mid) \ {k}
    BY <2>1, <2>2, <1>1, MaxCAsAssumption DEF CachedHosts, Cached
  <2>4. Cardinality(CachedHosts(new)) = Cardinality(CachedHosts(mid)) - 1
    BY <2>2, <2>3, CachedFinite, FS_RemoveElement
  <2> QED
    BY <2>4, <1>3, <1>4
<1>6. CASE ~(Cardinality(Cached(mid)) > maxCertCacheSize) /\ new = mid
  <2>1. CachedHosts(mid) \subseteq Cached(mid)
    BY DEF CachedHosts
  <2>2. /\ Cardinality(CachedHosts(mid)) <= Cardinality(Cached(mid))
        /\ Cardinality(Cached(mid)) \in Nat
    BY <2>1, CachedFinite, FS_Subset, FS_CardinalityType
  <2> QED
    BY <2>2, <1>3, <1>4, <1>6
<1>7. CASE Evictable(mid, h) = {} /\ new = mid
  <2>1. CachedHosts(mid) = {h}
    BY <1>2, <1>7 DEF Evictable, CachedHosts
  <2>2. Cardinality(CachedHosts(mid)) = 1
    BY <2>1, FS_Singleton
  <2> QED
    BY <2>2, <1>4, <1>7
<1> QED
  BY <1>5, <1>6, <1>7 DEF Evictions

(* Every entry after signing for h is as it was, gone, or the new one. *)
SignedOnly(old, new, h, n) ==
  /\ new \in [CacheKeys -> 0..MaxCAs]
  /\ \A k \in CacheKeys \ {h} : new[k] \in {0, old[k]}
  /\ new[h] = n

LEMMA EvictionKeeps ==
  ASSUME NEW old \in [CacheKeys -> 0..MaxCAs], NEW h \in Hosts, NEW n \in 1..MaxCAs,
         NEW new, new \in Evictions([old EXCEPT ![h] = n], h)
  PROVE  SignedOnly(old, new, h, n)
<1> DEFINE mid == [old EXCEPT ![h] = n]
<1>1. /\ mid \in [CacheKeys -> 0..MaxCAs]
      /\ \A k \in CacheKeys \ {h} : mid[k] = old[k]
      /\ mid[h] = n /\ h \in CacheKeys
  BY MaxCAsAssumption DEF CacheKeys
<1>2. CASE new = mid
  BY <1>1, <1>2 DEF SignedOnly
<1>3. ASSUME NEW k \in Evictable(mid, h), new = [mid EXCEPT ![k] = 0]
      PROVE  SignedOnly(old, new, h, n)
  <2>1. k # h /\ k \in CacheKeys
    BY <1>3 DEF Evictable, Cached
  <2> QED
    BY <1>1, <1>3, <2>1, MaxCAsAssumption DEF SignedOnly
<1> QED
  BY <1>2, <1>3 DEF Evictions

LEMMA ManagerStarts == ManagerInit => ManagerInv
<1> SUFFICES ASSUME ManagerInit PROVE ManagerInv
  OBVIOUS
<1>0. 0 \in 0..MaxCAs
  BY MaxCAsAssumption
<1>1. ManagerTypeOK
  BY <1>0 DEF ManagerInit, ManagerTypeOK
<1>2. CachedHosts(certCache) = {}
  BY DEF ManagerInit, CachedHosts, Cached
<1>3. HostsBounded
  BY <1>2, FS_EmptySet, CacheSizeAssumption DEF HostsBounded
<1>4. SignedByCurrentCA
  BY DEF ManagerInit, SignedByCurrentCA, CacheKeys
<1> QED
  BY <1>1, <1>3, <1>4 DEF ManagerInv

LEMMA ManagerKeeps == ManagerInv /\ [ManagerNext]_managerVars => ManagerInv'
<1> SUFFICES ASSUME ManagerInv, [ManagerNext]_managerVars PROVE ManagerInv'
  OBVIOUS
<1> USE DEF ManagerInv
<1>1. CASE ReplaceCA
  <2>1. ManagerTypeOK'
    BY <1>1, MaxCAsAssumption DEF ReplaceCA, ManagerTypeOK, Cached, CacheKeys
  <2>2. CachedHosts(certCache') = CachedHosts(certCache)
    BY <1>1 DEF ReplaceCA, ManagerTypeOK, CachedHosts, Cached, CacheKeys
  <2>3. HostsBounded'
    BY <1>1, <2>2 DEF ReplaceCA, HostsBounded
  <2>4. SignedByCurrentCA'
    BY <1>1, HostsAssumption DEF ReplaceCA, ManagerTypeOK, SignedByCurrentCA, Cached, CacheKeys
  <2> QED
    BY <2>1, <2>3, <2>4
<1>2. CASE ClearCache
  <2>1. ManagerTypeOK'
    BY <1>2, MaxCAsAssumption DEF ClearCache, ManagerTypeOK
  <2>2. CachedHosts(certCache') = {}
    BY <1>2 DEF ClearCache, CachedHosts, Cached
  <2>3. HostsBounded'
    BY <2>2, FS_EmptySet, CacheSizeAssumption DEF HostsBounded
  <2>4. SignedByCurrentCA'
    BY <1>2 DEF ClearCache, SignedByCurrentCA, CacheKeys
  <2> QED
    BY <2>1, <2>3, <2>4
<1>3. ASSUME NEW h \in Hosts, SignWithoutCA(h) PROVE ManagerInv'
  BY <1>3 DEF SignWithoutCA, ManagerTypeOK, HostsBounded, SignedByCurrentCA, CachedHosts, Cached
<1>4. ASSUME NEW h \in Hosts, SignNew(h) PROVE ManagerInv'
  <2>1. /\ certCache \in [CacheKeys -> 0..MaxCAs]
        /\ issuer \in 1..MaxCAs
        /\ certCache' \in Evictions([certCache EXCEPT ![h] = issuer], h)
        /\ certCache[h] = 0
    BY <1>4, MaxCAsAssumption DEF SignNew, ManagerTypeOK
  <2>2. SignedOnly(certCache, certCache', h, issuer)
    BY <2>1, EvictionKeeps
  <2>3. ManagerTypeOK'
    BY <1>4, <2>2 DEF SignedOnly, SignNew, ManagerTypeOK
  <2>4. HostsBounded'
    BY <1>4, <2>1, EvictionBounds DEF SignNew, HostsBounded
  <2>5. SignedByCurrentCA'
    <3> SUFFICES ASSUME NEW k \in Hosts, k \notin injected', k \notin stale'
                 PROVE  certCache'[k] \in {0, issuer'}
      BY DEF SignedByCurrentCA
    <3>1. k \in CacheKeys /\ issuer' = issuer /\ injected' = injected
      BY <1>4 DEF SignNew, CacheKeys
    <3>2. CASE k = h
      BY <2>2, <3>1, <3>2 DEF SignedOnly
    <3>3. CASE k \in stale
      BY <1>4, <3>1, <3>3 DEF SignNew, Cached
    <3>4. CASE k # h /\ k \notin stale
      BY <2>2, <3>1, <3>4 DEF SignedOnly, SignedByCurrentCA
    <3> QED
      BY <3>2, <3>3, <3>4
  <2> QED
    BY <2>3, <2>4, <2>5
<1>5. ASSUME NEW h \in Hosts, CacheCertificate(h) PROVE ManagerInv'
  <2>1. PICK n \in 1..lastCA : certCache' = [certCache EXCEPT ![h] = n]
    BY <1>5 DEF CacheCertificate
  <2>2. ManagerTypeOK'
    <3>1. n \in 0..MaxCAs
      BY <2>1, MaxCAsAssumption DEF ManagerTypeOK
    <3>2. certCache' \in [CacheKeys -> 0..MaxCAs]
      BY <2>1, <3>1 DEF ManagerTypeOK
    <3> QED
      BY <1>5, <3>2 DEF CacheCertificate, ManagerTypeOK
  <2>3. HostsBounded'
    BY <1>5 DEF CacheCertificate, HostsBounded
  <2>4. SignedByCurrentCA'
    BY <1>5, <2>1 DEF CacheCertificate, ManagerTypeOK, SignedByCurrentCA, CacheKeys
  <2> QED
    BY <2>2, <2>3, <2>4
<1>6. CASE UNCHANGED managerVars
  BY <1>6 DEF managerVars, ManagerTypeOK, HostsBounded, SignedByCurrentCA, CachedHosts, Cached
<1> QED
  BY <1>1, <1>2, <1>3, <1>4, <1>5, <1>6 DEF ManagerNext

LEMMA ManagerInvHolds == ManagerSpec => []ManagerInv
  BY ManagerStarts, ManagerKeeps, PTL DEF ManagerSpec

(* With no entry from elsewhere, the cache never holds more than one entry above
   its limit; and a host's certificate is by the present CA, unless it is older
   than that CA or from elsewhere. *)
THEOREM CacheStaysSound == ManagerSpec => []CertCacheSound
<1>1. ManagerInv => CertCacheSound
  <2> SUFFICES ASSUME ManagerInv PROVE CertCacheBounded
    BY DEF ManagerInv, CertCacheSound
  <2> SUFFICES ASSUME injected = {}
               PROVE  Cardinality(Cached(certCache)) <= maxCertCacheSize + 1
    BY DEF CertCacheBounded
  <2>1. /\ Cardinality(CachedHosts(certCache)) <= maxCertCacheSize
        /\ Cardinality(CachedHosts(certCache)) \in Nat
        /\ maxCertCacheSize \in Nat
    BY CachedFinite, FS_CardinalityType, CacheSizeAssumption DEF ManagerInv, HostsBounded
  <2>2. CASE CAName \in Cached(certCache)
    <3>1. Cardinality(CachedHosts(certCache)) = Cardinality(Cached(certCache)) - 1
      BY <2>2, CachedFinite, FS_RemoveElement DEF CachedHosts
    <3>2. Cardinality(Cached(certCache)) \in Nat
      BY CachedFinite, FS_CardinalityType
    <3> QED
      BY <2>1, <3>1, <3>2
  <2>3. CASE CAName \notin Cached(certCache)
    <3>1. CachedHosts(certCache) = Cached(certCache)
      BY <2>3 DEF CachedHosts
    <3> QED
      BY <2>1, <3>1
  <2> QED
    BY <2>2, <2>3
<1> QED
  BY <1>1, ManagerInvHolds, PTL

-----------------------------------------------------------------------------
(*************************************************************************)
(* HookFile, for any number of commands and any hooks.  The property is  *)
(* not inductive: a command that runs alone must carry what the file     *)
(* said when it started, edited, which is what is intended.              *)
(*************************************************************************)

CommandsTyped ==
  command \in [Commands -> [pc : {"start", "loaded", "writing", "late", "done",
                                  "failed", "killed"},
                            op : Ops, hook : HookIDs, cfg : Contents]]

FileTyped == file \in Contents

FileIntended == ~overlapped => file = intended

(* Until two overlap one command at most runs, and has its edit of the file. *)
RunsAlone ==
  ~overlapped => \A c \in Commands : Running(c) =>
    /\ command[c].cfg = EditConfig(intended, command[c].op, command[c].hook)
    /\ \A d \in Commands : Running(d) => d = c

LateOverlapped == \A c \in Commands : command[c].pc = "late" => overlapped

ReadableOrWritten == readable \/ killed \/ overlapped \/ \E c \in Commands : Writing(c)

HookFileInv ==
  /\ CommandsTyped /\ FileTyped
  /\ FileIntended /\ RunsAlone /\ LateOverlapped /\ ReadableOrWritten

LEMMA HookFileStarts == HookFileInit => HookFileInv
<1> SUFFICES ASSUME HookFileInit PROVE HookFileInv
  OBVIOUS
<1>1. (CHOOSE h \in HookIDs : TRUE) \in HookIDs
  BY HookIDsAssumption
<1>2. [h \in HookIDs |-> Absent] \in Contents
  BY DEF Contents, States
<1>3. CommandsTyped
  BY <1>1, <1>2 DEF HookFileInit, CommandsTyped, Fresh, Ops
<1>4. \A c \in Commands : command[c].pc = "start"
  BY DEF HookFileInit, Fresh
<1> QED
  BY <1>3, <1>4 DEF HookFileInit, HookFileInv, FileTyped, FileIntended, RunsAlone, LateOverlapped,
                    ReadableOrWritten, Running, Writing

LEMMA EditTyped ==
  ASSUME NEW cfg \in Contents, NEW op \in Ops, NEW h \in HookIDs
  PROVE  EditConfig(cfg, op, h) \in Contents
  BY DEF EditConfig, Contents, States, Ops, Absent

LEMMA HookFileKeeps == HookFileInv /\ [HookFileNext]_hookFileVars => HookFileInv'
<1> SUFFICES ASSUME HookFileInv, [HookFileNext]_hookFileVars PROVE HookFileInv'
  OBVIOUS
<1> USE DEF HookFileInv, FileTyped
<1>1. ASSUME NEW c \in Commands, NEW op \in Ops, NEW h \in HookIDs, LoadConfig(c, op, h)
      PROVE HookFileInv'
  <2> DEFINE new == EditConfig(file, op, h)
  <2>1. /\ command' = [command EXCEPT ![c] =
               [pc |-> "loaded", op |-> op, hook |-> h, cfg |-> new]]
        /\ command[c].pc = "start" /\ readable
        /\ overlapped' = (overlapped \/ \E d \in Commands : Running(d))
        /\ UNCHANGED <<file, readable, intended, killed>>
    BY <1>1 DEF LoadConfig, Edited
  <2>2. new \in Contents
    BY EditTyped
  <2> HIDE DEF new
  <2>3. CommandsTyped'
    BY <2>1, <2>2 DEF CommandsTyped
  <2>4. /\ command'[c].cfg = new /\ command'[c].op = op /\ command'[c].hook = h
        /\ \A d \in Commands \ {c} : command'[d] = command[d]
        /\ command'[c].pc = "loaded"
    BY <2>1 DEF CommandsTyped
  <2>5. RunsAlone'
    <3> SUFFICES ASSUME ~overlapped', NEW d \in Commands, Running(d)'
                 PROVE  /\ command'[d].cfg =
                             EditConfig(intended', command'[d].op, command'[d].hook)
                        /\ \A e \in Commands : Running(e)' => e = d
      BY DEF RunsAlone
    <3>1. \A e \in Commands : ~Running(e)
      BY <2>1
    <3>2. \A e \in Commands : Running(e)' => e = c
      BY <2>4, <3>1 DEF Running, Writing
    <3>3. d = c /\ file = intended /\ intended' = intended
      BY <2>1, <3>2 DEF FileIntended
    <3> QED
      BY <2>4, <3>2, <3>3 DEF new
  <2>6. FileIntended' /\ LateOverlapped' /\ ReadableOrWritten'
    BY <2>1, <2>4 DEF FileIntended, LateOverlapped, ReadableOrWritten
  <2> QED
    BY <2>1, <2>3, <2>5, <2>6
<1>2. ASSUME NEW c \in Commands, LoadFails(c) PROVE HookFileInv'
  <2>1. /\ \A d \in Commands : /\ command'[d].cfg = command[d].cfg
                               /\ command'[d].op = command[d].op
                               /\ command'[d].hook = command[d].hook
        /\ \A d \in Commands \ {c} : command'[d].pc = command[d].pc
        /\ command'[c].pc = "failed" /\ command[c].pc = "start"
    BY <1>2 DEF LoadFails, CommandsTyped
  <2>2. CommandsTyped'
    BY <1>2 DEF LoadFails, CommandsTyped
  <2>3. \A d \in Commands : (Running(d)' <=> Running(d)) /\ (Writing(d)' <=> Writing(d))
    BY <2>1 DEF Running, Writing
  <2>4. RunsAlone'
    BY <1>2, <2>1, <2>3 DEF LoadFails, RunsAlone
  <2>5. FileIntended' /\ LateOverlapped' /\ ReadableOrWritten'
    BY <1>2, <2>1, <2>3 DEF LoadFails, FileIntended, LateOverlapped, ReadableOrWritten
  <2> QED
    BY <1>2, <2>2, <2>4, <2>5 DEF LoadFails
<1>3. ASSUME NEW c \in Commands, Empties(c) PROVE HookFileInv'
  <2>1. /\ \A d \in Commands : /\ command'[d].cfg = command[d].cfg
                               /\ command'[d].op = command[d].op
                               /\ command'[d].hook = command[d].hook
        /\ \A d \in Commands \ {c} : command'[d].pc = command[d].pc
        /\ command'[c].pc = "writing" /\ command[c].pc = "loaded"
    BY <1>3 DEF Empties, CommandsTyped
  <2>2. CommandsTyped'
    BY <1>3 DEF Empties, CommandsTyped
  <2>3. \A d \in Commands : Running(d)' <=> Running(d)
    BY <2>1 DEF Running, Writing
  <2>4. RunsAlone'
    BY <1>3, <2>1, <2>3 DEF Empties, RunsAlone
  <2>5. FileIntended' /\ LateOverlapped' /\ ReadableOrWritten'
    BY <1>3, <2>1 DEF Empties, FileIntended, LateOverlapped, ReadableOrWritten, Writing
  <2> QED
    BY <1>3, <2>2, <2>4, <2>5 DEF Empties
<1>4. ASSUME NEW c \in Commands, Saves(c) PROVE HookFileInv'
  <2>1. /\ file' = command[c].cfg /\ file' \in Contents
        /\ intended' = EditConfig(intended, command[c].op, command[c].hook)
        /\ Writing(c) /\ UNCHANGED <<overlapped, killed>>
    BY <1>4 DEF Saves, CommandsTyped
  <2>2. CommandsTyped'
    BY <1>4 DEF Saves, CommandsTyped
  <2>3. /\ command'[c].pc = "done"
        /\ \A d \in Commands \ {c} :
             command'[d].pc = IF command[d].pc = "writing" THEN "late" ELSE command[d].pc
    BY <1>4 DEF Saves, CommandsTyped
  <2>4. ~overlapped => \A d \in Commands : Running(d) => d = c
    BY <2>1 DEF RunsAlone, Running
  <2>5. ~overlapped => \A d \in Commands : ~Running(d)'
    BY <2>3, <2>4 DEF Running, Writing
  <2>6. RunsAlone'
    BY <2>1, <2>5 DEF RunsAlone
  <2>7. FileIntended'
    BY <2>1 DEF FileIntended, RunsAlone, Running
  <2>8. LateOverlapped'
    BY <2>1, <2>5 DEF LateOverlapped, Running, Writing
  <2>9. ReadableOrWritten'
    <3>1. command[c].pc = "late" => overlapped'
      BY <2>1 DEF LateOverlapped
    <3>2. command[c].pc # "late" => readable'
      BY <1>4 DEF Saves
    <3> QED
      BY <3>1, <3>2 DEF ReadableOrWritten
  <2> QED
    BY <2>1, <2>2, <2>6, <2>7, <2>8, <2>9
<1>5. ASSUME NEW c \in Commands, Killed(c) PROVE HookFileInv'
  <2>1. /\ \A d \in Commands : /\ command'[d].cfg = command[d].cfg
                               /\ command'[d].op = command[d].op
                               /\ command'[d].hook = command[d].hook
        /\ \A d \in Commands \ {c} : command'[d].pc = command[d].pc
        /\ command'[c].pc = "killed"
    BY <1>5 DEF Killed, CommandsTyped
  <2>2. CommandsTyped'
    BY <1>5 DEF Killed, CommandsTyped
  <2>3. \A d \in Commands : Running(d)' => Running(d)
    BY <2>1 DEF Running, Writing
  <2>4. RunsAlone'
    BY <1>5, <2>1, <2>3 DEF Killed, RunsAlone
  <2>5. ReadableOrWritten'
    BY <1>5, <2>1 DEF Killed, ReadableOrWritten, Writing
  <2>6. FileIntended' /\ LateOverlapped'
    BY <1>5, <2>1 DEF Killed, FileIntended, LateOverlapped
  <2> QED
    BY <1>5, <2>2, <2>4, <2>5, <2>6 DEF Killed
<1>6. CASE UNCHANGED hookFileVars
  BY <1>6 DEF hookFileVars, CommandsTyped, FileIntended, RunsAlone, LateOverlapped,
              ReadableOrWritten, Running, Writing
<1> QED
  BY <1>1, <1>2, <1>3, <1>4, <1>5, <1>6 DEF HookFileNext

(* Whoever runs which commands, and is killed where: until two overlap the file
   holds every edit that was saved, and can be read unless a command was killed
   while it wrote. *)
THEOREM EditsAlwaysKept == HookFileSpec => []EditsKept
<1>1. HookFileInv => EditsKept
  BY DEF HookFileInv, FileIntended, ReadableOrWritten, EditsKept
<1> QED
  BY <1>1, HookFileStarts, HookFileKeeps, PTL DEF HookFileSpec

-----------------------------------------------------------------------------
(*************************************************************************)
(* DaemonPID, for any daemons and any PIDs, the system giving out each   *)
(* again and again.  The property is not inductive: a daemon that is     *)
(* about to write the file must be the only one already, and that none   *)
(* can have passed the check beside one that runs needs its PID to be    *)
(* one.                                                                  *)
(*************************************************************************)

Claiming == {"checked", "open", "proxy", "tray"}
Alive == Claiming \union {"check", "ending"}

DaemonsTyped ==
  daemon \in [Daemons -> [pc : Alive \union {"new", "gone"}, pid : PIDs \union {Missing}]]

HavePIDs == \A d \in Daemons : daemon[d].pc \in Alive => daemon[d].pid \in PIDs

OneClaims ==
  ~raced => \A d, e \in Daemons :
    daemon[d].pc \in Claiming /\ daemon[e].pc \in Claiming => d = e

FileNames ==
  ~raced => \A d \in Daemons : daemon[d].pc \in {"proxy", "tray"} => pidFile = daemon[d].pid

PIDInv == DaemonsTyped /\ HavePIDs /\ OneClaims /\ FileNames

LEMMA PIDStarts == PIDInit => PIDInv
  BY DEF PIDInit, Unstarted, PIDInv, DaemonsTyped, HavePIDs, OneClaims, FileNames,
         Alive, Claiming

(* A daemon that runs is found. *)
LEMMA RunningIsFound ==
  ASSUME PIDInv, ~raced, NEW e \in Daemons, daemon[e].pc \in {"proxy", "tray"}
  PROVE  IsRunning
<1>1. pidFile = daemon[e].pid /\ daemon[e].pid \in PIDs
  BY DEF PIDInv, FileNames, HavePIDs, Alive, Claiming
<1>2. daemon[e].pid # Missing
  BY <1>1, PIDsAssumption
<1> QED
  BY <1>1, <1>2 DEF IsRunning, Used

(* The steps of one daemon that change no daemon but it, which keeps its PID. *)
LEMMA StepKeepsTypes ==
  ASSUME PIDInv, NEW d \in Daemons, NEW pc \in Alive, daemon[d].pc \in Alive, StepTo(d, pc)
  PROVE  DaemonsTyped' /\ HavePIDs'
  BY DEF PIDInv, StepTo, DaemonsTyped, HavePIDs, Alive, Claiming

LEMMA GoneKeepsTypes ==
  ASSUME PIDInv, NEW d \in Daemons, daemon' = [daemon EXCEPT ![d] = Gone]
  PROVE  DaemonsTyped' /\ HavePIDs'
  BY DEF PIDInv, Gone, DaemonsTyped, HavePIDs, Alive, Claiming

LEMMA PIDKeeps == PIDInv /\ [PIDNext]_pidVars => PIDInv'
<1> SUFFICES ASSUME PIDInv, [PIDNext]_pidVars PROVE PIDInv'
  OBVIOUS
<1>1. ASSUME NEW d \in Daemons, Launch(d) PROVE PIDInv'
  <2>1. PICK p \in PIDs : daemon' = [daemon EXCEPT ![d] = [pc |-> "check", pid |-> p]]
    BY <1>1 DEF Launch
  <2>2. DaemonsTyped' /\ HavePIDs'
    BY <2>1 DEF PIDInv, DaemonsTyped, HavePIDs, Alive, Claiming
  <2>3. OneClaims' /\ FileNames'
    BY <1>1, <2>1 DEF Launch, PIDInv, DaemonsTyped, OneClaims, FileNames, Claiming
  <2> QED
    BY <2>2, <2>3 DEF PIDInv
<1>2. ASSUME NEW d \in Daemons, NotRunning(d) PROVE PIDInv'
  <2>1. DaemonsTyped' /\ HavePIDs'
    BY <1>2, StepKeepsTypes DEF NotRunning, Alive, Claiming
  <2>2. OneClaims'
    <3> SUFFICES ASSUME ~raced' PROVE \A e \in Daemons : daemon[e].pc \notin Claiming
      BY <1>2 DEF NotRunning, StepTo, OneClaims, PIDInv, DaemonsTyped
    <3>1. ~raced /\ ~IsRunning
      BY <1>2 DEF NotRunning
    <3>2. \A e \in Daemons : daemon[e].pc \notin {"proxy", "tray"}
      BY <3>1, RunningIsFound
    <3>3. \A e \in Daemons : daemon[e].pc \notin {"checked", "open"}
      BY <1>2 DEF NotRunning
    <3> QED
      BY <3>2, <3>3 DEF Claiming
  <2>3. FileNames'
    BY <1>2 DEF NotRunning, StepTo, FileNames, PIDInv, DaemonsTyped
  <2> QED
    BY <2>1, <2>2, <2>3 DEF PIDInv
<1>3. ASSUME NEW d \in Daemons, AlreadyRunning(d) PROVE PIDInv'
  <2>1. daemon' = [daemon EXCEPT ![d] = Gone] /\ UNCHANGED <<pidFile, raced>>
    BY <1>3 DEF AlreadyRunning, Refuse, RefuseAndLeave
  <2>2. OneClaims' /\ FileNames'
    BY <2>1 DEF Gone, PIDInv, DaemonsTyped, OneClaims, FileNames, Claiming
  <2> QED
    BY <2>1, <2>2, GoneKeepsTypes DEF PIDInv
<1>4. ASSUME NEW d \in Daemons, OpenPID(d) PROVE PIDInv'
  <2>1. DaemonsTyped' /\ HavePIDs'
    BY <1>4, StepKeepsTypes DEF OpenPID, Alive, Claiming
  <2>2. OneClaims'
    BY <1>4 DEF OpenPID, StepTo, OneClaims, PIDInv, DaemonsTyped, Claiming
  <2>3. FileNames'
    BY <1>4 DEF OpenPID, StepTo, OneClaims, FileNames, PIDInv, DaemonsTyped, Claiming
  <2> QED
    BY <2>1, <2>2, <2>3 DEF PIDInv
<1>5. ASSUME NEW d \in Daemons, WritePID(d) PROVE PIDInv'
  <2>1. DaemonsTyped' /\ HavePIDs'
    BY <1>5, StepKeepsTypes DEF WritePID, Alive, Claiming
  <2>2. OneClaims'
    BY <1>5 DEF WritePID, StepTo, OneClaims, PIDInv, DaemonsTyped, Claiming
  <2>3. FileNames'
    BY <1>5 DEF WritePID, StepTo, OneClaims, FileNames, PIDInv, DaemonsTyped, Claiming
  <2> QED
    BY <2>1, <2>2, <2>3 DEF PIDInv
<1>6. ASSUME NEW d \in Daemons, WritePIDFails(d) PROVE PIDInv'
  <2>1. daemon' = [daemon EXCEPT ![d] = Gone] /\ UNCHANGED <<pidFile, raced>>
    BY <1>6 DEF WritePIDFails
  <2>2. OneClaims' /\ FileNames'
    BY <2>1 DEF Gone, PIDInv, DaemonsTyped, OneClaims, FileNames, Claiming
  <2> QED
    BY <2>1, <2>2, GoneKeepsTypes DEF PIDInv
<1>7. ASSUME NEW d \in Daemons, NewProxy(d) PROVE PIDInv'
  <2>1. CASE StepTo(d, "ending") /\ pidFile' = Missing
    <3>1. DaemonsTyped' /\ HavePIDs'
      BY <1>7, <2>1, StepKeepsTypes DEF NewProxy, Alive, Claiming
    <3>2. OneClaims' /\ FileNames'
      BY <1>7, <2>1 DEF NewProxy, StepTo, OneClaims, FileNames, PIDInv, DaemonsTyped, Claiming
    <3> QED
      BY <3>1, <3>2 DEF PIDInv
  <2>2. CASE StepTo(d, "tray") /\ pidFile' = pidFile
    <3>1. DaemonsTyped' /\ HavePIDs'
      BY <1>7, <2>2, StepKeepsTypes DEF NewProxy, Alive, Claiming
    <3>2. OneClaims' /\ FileNames'
      BY <1>7, <2>2 DEF NewProxy, StepTo, OneClaims, FileNames, PIDInv, DaemonsTyped, Claiming
    <3> QED
      BY <3>1, <3>2 DEF PIDInv
  <2> QED
    BY <1>7, <2>1, <2>2 DEF NewProxy
<1>8. ASSUME NEW d \in Daemons, RemovePID(d) PROVE PIDInv'
  <2>1. DaemonsTyped' /\ HavePIDs'
    BY <1>8, StepKeepsTypes DEF RemovePID, Alive, Claiming
  <2>2. OneClaims' /\ FileNames'
    BY <1>8 DEF RemovePID, StepTo, OneClaims, FileNames, PIDInv, DaemonsTyped, Claiming
  <2> QED
    BY <2>1, <2>2 DEF PIDInv
<1>9. ASSUME NEW d \in Daemons, Ends(d) PROVE PIDInv'
  <2>1. daemon' = [daemon EXCEPT ![d] = Gone] /\ UNCHANGED <<pidFile, raced>>
    BY <1>9 DEF Ends
  <2>2. OneClaims' /\ FileNames'
    BY <2>1 DEF Gone, PIDInv, DaemonsTyped, OneClaims, FileNames, Claiming
  <2> QED
    BY <2>1, <2>2, GoneKeepsTypes DEF PIDInv
<1>10. CASE \/ \E p \in PIDs : OtherStarts(p) \/ OtherEnds(p)
            \/ UNCHANGED pidVars
  <2>1. UNCHANGED <<pidFile, daemon, raced>>
    BY <1>10 DEF OtherStarts, OtherEnds, pidVars
  <2> QED
    BY <2>1 DEF PIDInv, DaemonsTyped, HavePIDs, OneClaims, FileNames
<1> QED
  BY <1>1, <1>2, <1>3, <1>4, <1>5, <1>6, <1>7, <1>8, <1>9, <1>10 DEF PIDNext

(* Whatever ends, is killed or takes over a PID: unless two daemons looked for
   each other at once, one that has started is named by the file, and no other
   one has started or is about to. *)
THEOREM FileAlwaysNamesDaemon == PIDSpec => []FileNamesDaemon
<1>1. PIDInv => FileNamesDaemon
  BY DEF PIDInv, OneClaims, FileNames, FileNamesDaemon, Claiming
<1> QED
  BY <1>1, PIDStarts, PIDKeeps, PTL DEF PIDSpec

-----------------------------------------------------------------------------
(* AuditSearch *)

SearchSequences ==
  /\ log \in Seq(LogLine)
  /\ appended \in 0..MaxEntries
  /\ pages \in Seq(1..MaxEntries)
  /\ offset \in Nat

(* As long as the offset counts in the file that the first page was read from, it
   is the number of entries shown, and these are the first matches. *)
PagesSoFar ==
  ~rotated /\ search # "error" =>
    /\ Len(pages) <= Len(QueryMatches(log))
    /\ \A i \in 1..Len(pages) : pages[i] = QueryMatches(log)[i].id
    /\ search = "more" => offset = Len(pages)
    /\ search = "end" => Len(pages) = matches

SearchInv == SearchSequences /\ search \in {"more", "end", "error"} /\ PagesSoFar

LEMMA MatchesType ==
  ASSUME NEW lines \in Seq(LogLine)
  PROVE  /\ QueryMatches(lines) \in Seq(LogLine)
         /\ Len(QueryMatches(lines)) \in Nat
         /\ \A i \in 1..Len(QueryMatches(lines)) : QueryMatches(lines)[i].id \in 1..MaxEntries
<1>1. QueryMatches(lines) \in Seq(LogLine)
  BY SelectType DEF QueryMatches
<1>2. \A i \in 1..Len(QueryMatches(lines)) : QueryMatches(lines)[i] \in LogLine
  BY <1>1, ElementOfSeq
<1> QED
  BY <1>1, <1>2, LenProperties DEF LogLine

(* What the scan sees is the whole file, or a part from its beginning. *)
LEMMA BeforeIsPrefix ==
  ASSUME NEW lines \in Seq(LogLine), NEW kinds
  PROVE  \E n \in 0..Len(lines) : Before(lines, kinds) = SubSeq(lines, 1, n)
<1> DEFINE stops == {i \in DOMAIN lines : lines[i].kind \in kinds}
<1>1. DOMAIN lines = 1..Len(lines) /\ Len(lines) \in Nat
  BY LenProperties
<1>2. CASE stops = {}
  <2>1. Before(lines, kinds) = SubSeq(lines, 1, Len(lines))
    BY <1>2 DEF Before
  <2>2. Len(lines) \in 0..Len(lines)
    BY <1>1
  <2> QED
    BY <2>1, <2>2
<1>3. CASE stops # {}
  <2> DEFINE first == CHOOSE i \in stops : \A j \in stops : i <= j
  <2>1. stops \subseteq Nat
    BY <1>1
  <2>2. first \in stops
    <3> HIDE DEF stops
    <3> QED
      BY <1>3, <2>1, Least
  <2>3. Before(lines, kinds) = SubSeq(lines, 1, first - 1)
    BY <1>3 DEF Before
  <2> HIDE DEF first
  <2> QED
    BY <1>1, <2>2, <2>3
<1> QED
  BY <1>2, <1>3

(* The matches that the scan finds are the first matches of the file. *)
LEMMA FoundFirst ==
  ASSUME NEW lines \in Seq(LogLine)
  PROVE  /\ Found(lines) \in Seq(LogLine)
         /\ Len(Found(lines)) \in Nat
         /\ Len(Found(lines)) <= Len(QueryMatches(lines))
         /\ \A i \in 1..Len(Found(lines)) : Found(lines)[i] = QueryMatches(lines)[i]
<1>1. PICK n \in 0..Len(lines) : Before(lines, {"long"}) = SubSeq(lines, 1, n)
  BY BeforeIsPrefix
<1>2. SubSeq(lines, 1, n) \in Seq(LogLine)
  <2>1. n \in Int /\ \A i \in 1..n : lines[i] \in LogLine
    BY LenProperties, ElementOfSeq
  <2> QED
    BY <2>1, SubSeqProperties
<1>3. Found(lines) = QueryMatches(SubSeq(lines, 1, n))
  BY <1>1 DEF Found
<1>4. /\ Len(QueryMatches(SubSeq(lines, 1, n))) <= Len(QueryMatches(lines))
      /\ \A i \in 1..Len(QueryMatches(SubSeq(lines, 1, n))) :
           QueryMatches(SubSeq(lines, 1, n))[i] = QueryMatches(lines)[i]
  BY SelectPrefix DEF QueryMatches
<1> QED
  BY <1>2, <1>3, <1>4, MatchesType

(* The identities of a page's entries, as RunSearch hands them out. *)
PageIds(lines, from) == [i \in DOMAIN Page(lines, from) |-> Page(lines, from)[i].id]

LEMMA PageOfMatches ==
  ASSUME NEW lines \in Seq(LogLine), NEW from \in Nat
  PROVE  /\ PageIds(lines, from) \in Seq(1..MaxEntries)
         /\ \A i \in 1..Len(PageIds(lines, from)) :
              /\ from + i \in 1..Len(QueryMatches(lines))
              /\ PageIds(lines, from)[i] = QueryMatches(lines)[from + i].id
         /\ HasMore(lines, from) => Len(PageIds(lines, from)) = Limit
         /\ ~Fails(lines, from) /\ ~HasMore(lines, from) /\ from <= Len(QueryMatches(lines)) =>
              from + Len(PageIds(lines, from)) = Len(QueryMatches(lines))
<1> DEFINE found == Found(lines)
           all == QueryMatches(lines)
           to == Min({from + Limit, Len(found)})
           page == Page(lines, from)
           ids == [i \in DOMAIN page |-> page[i].id]
<1>0. Limit \in Nat /\ Limit >= 1
  BY LimitAssumption
<1>1. /\ found \in Seq(LogLine) /\ Len(found) \in Nat /\ Len(found) <= Len(all)
      /\ \A i \in 1..Len(found) : found[i] = all[i]
      /\ Len(all) \in Nat
      /\ \A i \in 1..Len(all) : all[i].id \in 1..MaxEntries
  BY FoundFirst, MatchesType
<1>2. to = IF from + Limit <= Len(found) THEN from + Limit ELSE Len(found)
  <2> DEFINE T == {from + Limit, Len(found)}
  <2>1. \E x \in T : \A y \in T : x <= y
    BY <1>0, <1>1
  <2>2. Min(T) \in T /\ \A y \in T : Min(T) <= y
    BY <2>1 DEF Min
  <2> QED
    BY <1>0, <1>1, <2>2
<1>3. HasMore(lines, from) <=> Len(found) > from + Limit
  BY DEF HasMore
<1>4. ~Fails(lines, from) /\ ~HasMore(lines, from) => found = all
  BY DEF Fails, Found
<1>5. page = SubSeq(found, from + 1, to)
  BY DEF Page
<1>6. PageIds(lines, from) = ids
  BY DEF PageIds
<1> HIDE DEF found, all, to, page, ids
<1>7. to \in Nat /\ to <= Len(found)
  BY <1>0, <1>1, <1>2
<1>8. /\ page \in Seq(LogLine) /\ Len(page) = (IF from <= to THEN to - from ELSE 0) /\ Len(page) \in Nat
      /\ \A i \in 1..Len(page) : page[i] = found[from + i]
  <2>1. /\ from + 1 \in Int /\ to \in Int
        /\ \A i \in (from + 1)..to : found[i] \in LogLine
    BY <1>1, <1>7, ElementOfSeq
  <2>2. /\ page \in Seq(LogLine)
        /\ Len(page) = IF from + 1 <= to THEN to - (from + 1) + 1 ELSE 0
        /\ \A i \in 1..(to - (from + 1) + 1) : page[i] = found[from + 1 + i - 1]
    BY <1>5, <2>1, SubSeqProperties
  <2>3. Len(page) = (IF from <= to THEN to - from ELSE 0) /\ Len(page) \in Nat
    BY <1>7, <2>2
  <2>4. ASSUME NEW i \in 1..Len(page) PROVE page[i] = found[from + i]
    <3>1. i \in 1..(to - (from + 1) + 1) /\ from + 1 + i - 1 = from + i
      BY <1>7, <2>3
    <3> QED
      BY <2>2, <3>1
  <2> QED
    BY <2>2, <2>3, <2>4
<1>9. /\ ids \in Seq(1..MaxEntries) /\ Len(ids) = Len(page)
      /\ \A i \in 1..Len(ids) : from + i \in 1..Len(all) /\ ids[i] = all[from + i].id
  <2>1. DOMAIN page = 1..Len(page)
    BY <1>8, LenProperties
  <2>2. ids = [i \in 1..Len(page) |-> page[i].id]
    BY <2>1 DEF ids
  <2>3. ASSUME NEW i \in 1..Len(page)
        PROVE  from + i \in 1..Len(all) /\ ids[i] = all[from + i].id /\ ids[i] \in 1..MaxEntries
    <3>1. from + i \in 1..Len(found) /\ from + i \in 1..Len(all)
      BY <1>1, <1>7, <1>8
    <3> QED
      BY <1>1, <1>8, <2>2, <3>1
  <2>4. ids \in [1..Len(page) -> 1..MaxEntries]
    BY <2>2, <2>3
  <2>5. Len(ids) = Len(page) /\ ids \in Seq(1..MaxEntries)
    BY <1>8, <2>4, FunctionIsSeq
  <2> QED
    BY <2>3, <2>5
<1>10. HasMore(lines, from) => Len(ids) = Limit
  BY <1>0, <1>1, <1>2, <1>3, <1>8, <1>9
<1>11. ~Fails(lines, from) /\ ~HasMore(lines, from) /\ from <= Len(all) => from + Len(ids) = Len(all)
  BY <1>0, <1>1, <1>2, <1>3, <1>4, <1>8, <1>9
<1> QED
  BY <1>6, <1>9, <1>10, <1>11 DEF all

(* A page continues what the earlier pages have shown. *)
LEMMA PageExtends ==
  ASSUME NEW lines \in Seq(LogLine), NEW shown \in Seq(1..MaxEntries),
         Len(shown) <= Len(QueryMatches(lines)),
         \A i \in 1..Len(shown) : shown[i] = QueryMatches(lines)[i].id,
         ~Fails(lines, Len(shown))
  PROVE  LET after == shown \o PageIds(lines, Len(shown))
         IN /\ Len(after) <= Len(QueryMatches(lines))
            /\ \A i \in 1..Len(after) : after[i] = QueryMatches(lines)[i].id
            /\ HasMore(lines, Len(shown)) => Len(after) = Len(shown) + Limit
            /\ ~HasMore(lines, Len(shown)) => Len(after) = Len(QueryMatches(lines))
<1> DEFINE from == Len(shown)
           all == QueryMatches(lines)
           ids == PageIds(lines, from)
           after == shown \o ids
<1>1. from \in Nat /\ Len(all) \in Nat /\ from <= Len(all)
  BY MatchesType, LenProperties
<1>2. /\ ids \in Seq(1..MaxEntries)
      /\ \A i \in 1..Len(ids) : from + i \in 1..Len(all) /\ ids[i] = all[from + i].id
      /\ HasMore(lines, from) => Len(ids) = Limit
      /\ ~HasMore(lines, from) => from + Len(ids) = Len(all)
  BY <1>1, PageOfMatches
<1>3. /\ Len(ids) \in Nat
      /\ Len(after) = from + Len(ids)
      /\ \A i \in 1..(from + Len(ids)) : after[i] = IF i <= from THEN shown[i] ELSE ids[i - from]
  BY <1>2, ConcatProperties, LenProperties
<1>4. \A i \in 1..from : shown[i] = all[i].id
  OBVIOUS
<1> HIDE DEF from, all, ids, after
<1>5. Len(after) <= Len(all)
  <2>1. CASE Len(ids) = 0
    BY <1>1, <1>3, <2>1
  <2>2. CASE Len(ids) > 0
    <3>1. Len(ids) \in 1..Len(ids)
      BY <1>3, <2>2
    <3>2. from + Len(ids) \in 1..Len(all)
      BY <1>2, <3>1
    <3> QED
      BY <1>1, <1>3, <3>2
  <2> QED
    BY <1>3, <2>1, <2>2
<1>6. ASSUME NEW i \in 1..Len(after) PROVE after[i] = all[i].id
  <2>1. CASE i <= from
    BY <1>1, <1>3, <1>4, <2>1
  <2>2. CASE i > from
    <3>1. i - from \in 1..Len(ids) /\ from + (i - from) = i
      BY <1>1, <1>3, <2>2
    <3>2. after[i] = ids[i - from]
      BY <1>1, <1>3, <2>2
    <3> QED
      BY <1>2, <3>1, <3>2
  <2> QED
    BY <1>1, <1>3, <2>1, <2>2
<1>7. /\ HasMore(lines, from) => Len(after) = from + Limit
      /\ ~HasMore(lines, from) => Len(after) = Len(all)
  BY <1>2, <1>3
<1> QED
  BY <1>5, <1>6, <1>7 DEF from, all, ids, after

LEMMA SearchStarts == SearchInit => SearchInv
<1> SUFFICES ASSUME SearchInit PROVE SearchInv
  OBVIOUS
<1>1. /\ <<>> \in Seq(LogLine) /\ <<>> \in Seq(1..MaxEntries) /\ Len(<<>>) = 0
      /\ 0 \in 0..MaxEntries
  BY EmptySeq, LimitAssumption
<1>2. Len(QueryMatches(<<>>)) \in Nat
  BY <1>1, MatchesType
<1> QED
  BY <1>1, <1>2 DEF SearchInit, SearchInv, SearchSequences, PagesSoFar

LEMMA SearchKeeps == SearchInv /\ [SearchNext]_searchVars => SearchInv'
<1> SUFFICES ASSUME SearchInv, [SearchNext]_searchVars PROVE SearchInv'
  OBVIOUS
<1>0. /\ log \in Seq(LogLine) /\ pages \in Seq(1..MaxEntries) /\ offset \in Nat
      /\ appended \in 0..MaxEntries /\ search \in {"more", "end", "error"} /\ PagesSoFar
      /\ Len(pages) \in Nat /\ MaxEntries \in Nat /\ Limit \in Nat
  BY LenProperties, LimitAssumption DEF SearchInv, SearchSequences
<1>1. ASSUME NEW kind \in LineKinds, AppendLine(kind) PROVE SearchInv'
  <2> DEFINE line == [id |-> appended + 1, kind |-> kind]
             before == QueryMatches(log)
             after == QueryMatches(log')
  <2>1. line \in LogLine /\ log' = Append(log, line)
    BY <1>0, <1>1 DEF AppendLine, LogLine
  <2> HIDE DEF line
  <2>2. log' \in Seq(LogLine)
    BY <1>0, <2>1, AppendProperties
  <2>3. before \in Seq(LogLine) /\ Len(before) \in Nat
    BY <1>0, MatchesType
  <2>4. after = before \/ after = Append(before, line)
    BY <1>0, <2>1, SelectAppend DEF QueryMatches
  <2>5. /\ Len(Append(before, line)) = Len(before) + 1
        /\ \A i \in 1..Len(before) : Append(before, line)[i] = before[i]
    BY <2>1, <2>3, AppendProperties
  <2>6. Len(before) <= Len(after) /\ \A i \in 1..Len(before) : after[i] = before[i]
    BY <2>3, <2>4, <2>5
  <2>7. Len(after) \in Nat
    BY <2>2, MatchesType
  <2>8. appended' \in 0..MaxEntries
    BY <1>0, <1>1 DEF AppendLine
  <2>9. UNCHANGED <<offset, pages, search, rotated, matches>>
    BY <1>1 DEF AppendLine
  <2> HIDE DEF before, after
  <2>10. PagesSoFar'
    BY <1>0, <2>3, <2>6, <2>7, <2>9 DEF PagesSoFar, before, after
  <2> QED
    BY <1>0, <2>2, <2>8, <2>9, <2>10 DEF SearchInv, SearchSequences
<1>2. CASE RotateLog
  <2>1. /\ log' = <<>> /\ <<>> \in Seq(LogLine) /\ Len(QueryMatches(<<>>)) \in Nat
        /\ UNCHANGED <<appended, offset, pages, search, matches>>
        /\ rotated' <=> (rotated \/ pages # <<>>)
    BY <1>2, EmptySeq, MatchesType DEF RotateLog
  <2>2. pages = <<>> => Len(pages) = 0
    OBVIOUS
  <2>3. PagesSoFar'
    BY <1>0, <2>1, <2>2 DEF PagesSoFar
  <2> QED
    BY <1>0, <2>1, <2>3 DEF SearchInv, SearchSequences
<1>3. CASE RunSearch
  <2>1. /\ search = "more" /\ ~Fails(log, offset)
        /\ pages' = pages \o PageIds(log, offset)
        /\ HasMore(log, offset) => offset' = offset + Limit /\ search' = search
        /\ ~HasMore(log, offset) => search' = "end" /\ offset' = offset
        /\ matches' = Len(QueryMatches(log))
        /\ UNCHANGED <<log, appended, rotated>>
    BY <1>3 DEF RunSearch, Advanced, NextOffset, PageIds
  <2>2. PageIds(log, offset) \in Seq(1..MaxEntries)
    BY <1>0, PageOfMatches
  <2>3. pages' \in Seq(1..MaxEntries)
    BY <1>0, <2>1, <2>2, ConcatProperties
  <2>4. SearchSequences'
    BY <1>0, <2>1, <2>3 DEF SearchSequences
  <2>5. ASSUME ~rotated PROVE PagesSoFar'
    <3>1. /\ Len(pages) <= Len(QueryMatches(log)) /\ offset = Len(pages)
          /\ \A i \in 1..Len(pages) : pages[i] = QueryMatches(log)[i].id
      BY <1>0, <2>1, <2>5 DEF PagesSoFar
    <3>2. /\ Len(pages') <= Len(QueryMatches(log))
          /\ \A i \in 1..Len(pages') : pages'[i] = QueryMatches(log)[i].id
          /\ HasMore(log, offset) => Len(pages') = offset + Limit
          /\ ~HasMore(log, offset) => Len(pages') = Len(QueryMatches(log))
      BY <1>0, <2>1, <3>1, PageExtends
    <3>3. log' = log /\ QueryMatches(log') = QueryMatches(log)
      BY <2>1
    <3>4. CASE HasMore(log, offset)
      BY <2>1, <3>2, <3>3, <3>4 DEF PagesSoFar
    <3>5. CASE ~HasMore(log, offset)
      BY <2>1, <3>2, <3>3, <3>5 DEF PagesSoFar
    <3> QED
      BY <3>4, <3>5
  <2>6. PagesSoFar'
    BY <2>1, <2>5 DEF PagesSoFar
  <2> QED
    BY <1>0, <2>1, <2>4, <2>6 DEF SearchInv
<1>4. CASE SearchFails
  BY <1>0, <1>4 DEF SearchFails, SearchInv, SearchSequences, PagesSoFar
<1>5. CASE UNCHANGED searchVars
  BY <1>0, <1>5 DEF searchVars, SearchInv, SearchSequences, PagesSoFar
<1> QED
  BY <1>1, <1>2, <1>3, <1>4, <1>5 DEF SearchNext

(* However the log grows between the pages, as long as it is not rotated they hold
   its matches from the first on, each once, and in the end all there were. *)
THEOREM PagesAlwaysComplete == SearchSpec => []PagesComplete
<1>1. SearchInv => PagesComplete
  <2> SUFFICES ASSUME SearchInv PROVE PagesComplete
    OBVIOUS
  <2>1. DOMAIN pages = 1..Len(pages)
    BY LenProperties DEF SearchInv, SearchSequences
  <2> QED
    BY <2>1 DEF SearchInv, PagesSoFar, PagesComplete
<1> QED
  BY <1>1, SearchStarts, SearchKeeps, PTL DEF SearchSpec

-----------------------------------------------------------------------------
(* EncryptedLog *)

InFile(entries, e) == \E i \in DOMAIN entries : entries[i].entry = e

(* A process has its own salt, and what is sealed is sealed by it.  There is no
   backup of a second to come.  While no rotation was crowded, the backup of this
   second holds what the file was when it was emptied, or nothing that the file
   does not hold as well; and what Log has acknowledged is in some file. *)
EncInv ==
  /\ EncTypeOK
  /\ logger.state # "none" => salt # 0
  /\ sealed # 0 => logger.state # "none"
  /\ \A s \in Seconds : s > second => backups[s] = <<>>
  /\ ~crowded =>
       /\ movedAt = second \/ \A e : InFile(backups[second], e) => InFile(encFile, e)
       /\ \A e \in acked : \E entries \in LogFiles : InFile(entries, e)

LEMMA InLonger ==
  ASSUME NEW entries \in Seq(EncLine), NEW line \in EncLine
  PROVE  /\ \A e : InFile(entries, e) => InFile(Append(entries, line), e)
         /\ InFile(Append(entries, line), line.entry)
<1>1. /\ DOMAIN entries = 1..Len(entries) /\ Len(entries) \in Nat
      /\ DOMAIN Append(entries, line) = 1..(Len(entries) + 1)
      /\ \A i \in 1..Len(entries) : Append(entries, line)[i] = entries[i]
      /\ Append(entries, line)[Len(entries) + 1] = line
  BY AppendProperties, LenProperties
<1> QED
  BY <1>1 DEF InFile

(* A copy, whole or cut short, holds lines of the file only. *)
LEMMA CopyOfFile ==
  ASSUME encFile \in Seq(EncLine), NEW n \in 0..Len(encFile), NEW cut \in BOOLEAN
  PROVE  /\ Copied(n, cut) \in Seq(EncLine)
         /\ \A e : InFile(Copied(n, cut), e) => InFile(encFile, e)
<1>1. DOMAIN encFile = 1..Len(encFile) /\ Len(encFile) \in Nat
  BY LenProperties
<1>2. \A i \in 1..n : encFile[i] \in EncLine
  BY <1>1, ElementOfSeq
<1>3. \A line \in EncLine : CutOff(line) \in EncLine /\ CutOff(line).entry = line.entry
  BY DEF EncLine, CutOff
<1>4. Copied(n, cut) \in [1..n -> EncLine]
  BY <1>2, <1>3 DEF Copied
<1>5. n \in Nat /\ DOMAIN Copied(n, cut) = 1..n
  BY <1>1 DEF Copied
<1>6. \A i \in 1..n : Copied(n, cut)[i].entry = encFile[i].entry
  BY <1>2, <1>3 DEF Copied
<1> QED
  BY <1>1, <1>4, <1>5, <1>6, SeqDef DEF InFile

LEMMA EncStarts == EncInit => EncInv
<1> SUFFICES ASSUME EncInit PROVE EncInv
  OBVIOUS
<1>1. NoLogger \in [pass : Passphrases, state : {"none", "open", "closed"}] /\ NoLogger.state = "none"
  BY PassphrasesAssumption DEF NoLogger
<1>2. 0 \in 0..MaxProcesses /\ 0 \in 0..MaxLogged /\ 1 \in Seconds
  BY LogBoundsAssumption DEF Seconds
<1>3. backups \in [Seconds -> Seq(EncLine)] /\ \A s \in Seconds : backups[s] = <<>>
  BY EmptySeq DEF EncInit
<1>4. \A e : ~InFile(<<>>, e)
  BY DEF InFile
<1>5. /\ encFile = <<>> /\ second = 1 /\ logger = NoLogger /\ salt = 0 /\ logged = 0
      /\ sealed = 0 /\ acked = {} /\ movedAt = 0 /\ crowded = FALSE
  BY DEF EncInit
<1>6. EncTypeOK
  <2>1. encFile \in Seq(EncLine) /\ movedAt \in 0..second /\ acked \subseteq Entries
    BY <1>5, EmptySeq
  <2> QED
    BY <1>1, <1>2, <1>3, <1>5, <2>1 DEF EncTypeOK
<1> QED
  BY <1>1, <1>2, <1>3, <1>4, <1>5, <1>6 DEF EncInv

(* A rotation loses nothing that no earlier one of its second had moved. *)
LEMMA RotationKeeps ==
  ASSUME EncInv, RotateFile, UNCHANGED <<second, salt, acked>>
  PROVE  /\ encFile' \in Seq(EncLine) /\ backups' \in [Seconds -> Seq(EncLine)]
         /\ \E state \in {"open", "closed"} : Reopened(state)
         /\ movedAt' \in 0..second /\ crowded' \in BOOLEAN
         /\ \A s \in Seconds : s > second => backups'[s] = <<>>
         /\ ~crowded' =>
              /\ movedAt' = second \/ \A e : InFile(backups'[second], e) => InFile(encFile', e)
              /\ \A e \in acked : \E entries \in LogFiles' : InFile(entries, e)
<1>0. /\ encFile \in Seq(EncLine) /\ backups \in [Seconds -> Seq(EncLine)]
      /\ second \in Seconds /\ second \in Nat /\ Seconds \subseteq Nat
      /\ movedAt \in 0..second /\ crowded \in BOOLEAN
      /\ \A s \in Seconds : s > second => backups[s] = <<>>
  BY LogBoundsAssumption DEF EncInv, EncTypeOK, Seconds
<1>1. crowded' = (crowded \/ movedAt = second) /\ crowded' \in BOOLEAN
  BY <1>0 DEF RotateFile
<1>2. ASSUME ~crowded'
      PROVE  /\ movedAt # second
             /\ \A e : InFile(backups[second], e) => InFile(encFile, e)
             /\ \A e \in acked : \E entries \in LogFiles : InFile(entries, e)
  BY <1>1, <1>2 DEF EncInv
<1>3. ASSUME NEW copy \in Seq(EncLine), backups' = [backups EXCEPT ![second] = copy]
      PROVE  /\ backups' \in [Seconds -> Seq(EncLine)]
             /\ backups'[second] = copy /\ copy \in LogFiles'
             /\ \A s \in Seconds : s # second => backups'[s] = backups[s] /\ backups[s] \in LogFiles'
             /\ \A s \in Seconds : s > second => backups'[s] = <<>>
  <2>1. backups' \in [Seconds -> Seq(EncLine)] /\ backups'[second] = copy
    BY <1>0, <1>3
  <2>2. \A s \in Seconds : s # second => backups'[s] = backups[s]
    BY <1>0, <1>3
  <2>3. \A s \in Seconds : backups'[s] \in LogFiles'
    BY DEF LogFiles
  <2>4. \A s \in Seconds : s > second => s # second
    BY <1>0
  <2> QED
    BY <1>0, <2>1, <2>2, <2>3, <2>4
<1>4. ASSUME ~crowded', NEW copy \in Seq(EncLine), backups' = [backups EXCEPT ![second] = copy],
             \A e : InFile(encFile, e) => \E entries \in LogFiles' : InFile(entries, e)
      PROVE  \A e \in acked : \E entries \in LogFiles' : InFile(entries, e)
  <2>1. \A s \in Seconds : s # second => backups[s] \in LogFiles'
    BY <1>3, <1>4
  <2> QED
    BY <1>0, <1>2, <1>4, <2>1 DEF LogFiles
<1>5. CASE Moved
  <2>1. /\ encFile' = <<>> /\ backups' = [backups EXCEPT ![second] = encFile]
        /\ movedAt' = second /\ \E state \in {"open", "closed"} : Reopened(state)
    BY <1>5 DEF Moved
  <2>2. encFile \in LogFiles'
    BY <1>0, <1>3, <2>1
  <2>3. ~crowded' => \A e \in acked : \E entries \in LogFiles' : InFile(entries, e)
    BY <1>0, <1>4, <2>1, <2>2
  <2> QED
    BY <1>0, <1>1, <1>3, <2>1, <2>3, EmptySeq
<1>6. ASSUME NEW copy \in Seq(EncLine), backups' = [backups EXCEPT ![second] = copy],
             \A e : InFile(copy, e) => InFile(encFile, e), UNCHANGED <<encFile, movedAt>>
      PROVE  /\ backups' \in [Seconds -> Seq(EncLine)]
             /\ \A s \in Seconds : s > second => backups'[s] = <<>>
             /\ \A e : InFile(backups'[second], e) => InFile(encFile', e)
             /\ ~crowded' => \A e \in acked : \E entries \in LogFiles' : InFile(entries, e)
  <2>1. encFile' \in LogFiles' /\ encFile' = encFile
    BY <1>6 DEF LogFiles
  <2>2. ~crowded' => \A e \in acked : \E entries \in LogFiles' : InFile(entries, e)
    BY <1>4, <1>6, <2>1
  <2> QED
    BY <1>3, <1>6, <2>1, <2>2
<1>7. CASE NotTruncated
  <2>1. /\ backups' = [backups EXCEPT ![second] = encFile] /\ UNCHANGED <<encFile, movedAt>>
        /\ \E state \in {"open", "closed"} : Reopened(state)
    BY <1>7 DEF NotTruncated
  <2> QED
    BY <1>0, <1>1, <1>6, <2>1
<1>8. CASE CopyFails
  <2>1. Reopened("closed") /\ UNCHANGED <<encFile, movedAt>>
    BY <1>8 DEF CopyFails
  <2>2. CASE backups' = backups
    BY <1>0, <1>1, <1>2, <2>1, <2>2 DEF LogFiles
  <2>3. ASSUME NEW n \in 0..Len(encFile), NEW cut \in BOOLEAN,
               backups' = [backups EXCEPT ![second] = Copied(n, cut)]
        PROVE  /\ backups' \in [Seconds -> Seq(EncLine)]
               /\ \A s \in Seconds : s > second => backups'[s] = <<>>
               /\ \A e : InFile(backups'[second], e) => InFile(encFile', e)
               /\ ~crowded' => \A e \in acked : \E entries \in LogFiles' : InFile(entries, e)
    <3>1. /\ Copied(n, cut) \in Seq(EncLine)
          /\ \A e : InFile(Copied(n, cut), e) => InFile(encFile, e)
      BY <1>0, CopyOfFile
    <3> QED
      BY <1>6, <2>1, <2>3, <3>1
  <2> QED
    BY <1>0, <1>1, <1>8, <2>1, <2>2, <2>3 DEF CopyFails
<1> QED
  BY <1>5, <1>7, <1>8 DEF RotateFile

LEMMA EncKeeps == EncInv /\ [EncNext]_encVars => EncInv'
<1> SUFFICES ASSUME EncInv, [EncNext]_encVars PROVE EncInv'
  OBVIOUS
<1>0. /\ EncTypeOK /\ MaxLogged \in Nat /\ MaxProcesses \in Nat /\ MaxSeconds \in Nat
      /\ encFile \in Seq(EncLine) /\ backups \in [Seconds -> Seq(EncLine)]
      /\ second \in Seconds /\ movedAt \in 0..second /\ crowded \in BOOLEAN
      /\ \A s \in Seconds : s > second => backups[s] = <<>>
      /\ ~crowded =>
           /\ movedAt = second \/ \A e : InFile(backups[second], e) => InFile(encFile, e)
           /\ \A e \in acked : \E entries \in LogFiles : InFile(entries, e)
      /\ logger.state # "none" => salt # 0
      /\ sealed # 0 => logger.state # "none"
  BY LogBoundsAssumption DEF EncInv, EncTypeOK
<1>a. NoLogger \in [pass : Passphrases, state : {"none", "open", "closed"}] /\ NoLogger.state = "none"
  BY PassphrasesAssumption DEF NoLogger
<1>b. ASSUME NEW whole \in BOOLEAN, sealed # 0 PROVE Line(whole) \in EncLine
  BY <1>0, <1>b DEF EncTypeOK, EncLine, Line, Entries
<1>c. ASSUME NEW line \in EncLine, encFile' = Append(encFile, line),
             UNCHANGED <<second, backups, movedAt, crowded>>
      PROVE  /\ encFile' \in Seq(EncLine)
             /\ \A e : InFile(encFile, e) => InFile(encFile', e)
             /\ \A e : (\E entries \in LogFiles : InFile(entries, e)) =>
                      \E entries \in LogFiles' : InFile(entries, e)
             /\ \E entries \in LogFiles' : InFile(entries, line.entry)
  <2>1. encFile' \in Seq(EncLine)
    BY <1>0, <1>c, AppendProperties
  <2>2. encFile' \in LogFiles' /\ \A entries \in LogFiles : entries # encFile => entries \in LogFiles'
    BY <1>c DEF LogFiles
  <2>3. /\ \A e : InFile(encFile, e) => InFile(encFile', e)
        /\ InFile(encFile', line.entry)
    BY <1>0, <1>c, InLonger
  <2> QED
    BY <2>1, <2>2, <2>3
<1>d. CASE SecondPasses
  <2>1. /\ second < MaxSeconds /\ second' = second + 1
        /\ UNCHANGED <<encFile, backups, logger, salt, logged, sealed, acked, movedAt, crowded>>
    BY <1>d DEF SecondPasses
  <2>2. /\ second' \in Seconds /\ second' > second /\ movedAt' \in 0..second'
        /\ \A s \in Seconds : s > second' => s > second
    BY <1>0, <2>1 DEF Seconds
  <2>3. \A e : ~InFile(backups'[second'], e)
    BY <1>0, <2>1, <2>2 DEF InFile
  <2>4. LogFiles' = LogFiles
    BY <2>1 DEF LogFiles
  <2> QED
    BY <1>0, <2>1, <2>2, <2>3, <2>4 DEF EncInv, EncTypeOK
<1>1. ASSUME NEW p \in Passphrases, NewEncryptedLogger(p) PROVE EncInv'
  BY <1>0, <1>1 DEF NewEncryptedLogger, EncInv, EncTypeOK, LogFiles
<1>2. CASE SealEntry
  <2>0. /\ logged' \in 0..MaxLogged /\ sealed' \in 0..MaxLogged /\ logger.state # "none"
        /\ UNCHANGED <<second, salt, acked>>
    BY <1>0, <1>2 DEF SealEntry, EncTypeOK
  <2>1. CASE RotateFile
    <3>1. /\ encFile' \in Seq(EncLine) /\ backups' \in [Seconds -> Seq(EncLine)]
          /\ \E state \in {"open", "closed"} : Reopened(state)
          /\ movedAt' \in 0..second /\ crowded' \in BOOLEAN
          /\ \A s \in Seconds : s > second => backups'[s] = <<>>
          /\ ~crowded' =>
               /\ movedAt' = second \/ \A e : InFile(backups'[second], e) => InFile(encFile', e)
               /\ \A e \in acked : \E entries \in LogFiles' : InFile(entries, e)
      BY <2>0, <2>1, RotationKeeps
    <3>2. /\ logger' \in [pass : Passphrases, state : {"none", "open", "closed"}]
          /\ logger'.state # "none"
      BY <1>0, <3>1 DEF Reopened, EncTypeOK
    <3> QED
      BY <1>0, <2>0, <3>1, <3>2 DEF EncInv, EncTypeOK
  <2>2. CASE UNCHANGED <<encFile, backups, logger, movedAt, crowded>>
    BY <1>0, <2>0, <2>2 DEF EncInv, EncTypeOK, LogFiles
  <2> QED
    BY <1>2, <2>1, <2>2 DEF SealEntry
<1>3. CASE WriteLine
  <2>1. Line(TRUE) \in EncLine /\ Line(TRUE).entry = sealed /\ sealed \in Entries
    <3>1. sealed # 0 /\ sealed \in 0..MaxLogged
      BY <1>0, <1>3 DEF WriteLine, EncTypeOK
    <3>2. Line(TRUE) \in EncLine
      BY <1>b, <3>1
    <3> QED
      BY <1>0, <3>1, <3>2 DEF Line, Entries
  <2>2. /\ encFile' = Append(encFile, Line(TRUE)) /\ acked' = acked \union {sealed} /\ sealed' = 0
        /\ UNCHANGED <<second, backups, logger, salt, logged, movedAt, crowded>>
    BY <1>3 DEF WriteLine
  <2>3. /\ encFile' \in Seq(EncLine)
        /\ \A e : InFile(encFile, e) => InFile(encFile', e)
        /\ ~crowded => \A e \in acked' : \E entries \in LogFiles' : InFile(entries, e)
    BY <1>0, <1>c, <2>1, <2>2
  <2>4. acked' \subseteq Entries /\ 0 \in 0..MaxLogged
    BY <1>0, <2>1, <2>2 DEF EncTypeOK
  <2> QED
    BY <1>0, <2>2, <2>3, <2>4 DEF EncInv, EncTypeOK
<1>4. ASSUME \/ encFile' = encFile
             \/ sealed # 0 /\ encFile' = Append(encFile, Line(FALSE)),
             UNCHANGED <<second, backups, acked, movedAt, crowded>>
      PROVE  /\ encFile' \in Seq(EncLine)
             /\ \A e : InFile(encFile, e) => InFile(encFile', e)
             /\ ~crowded' => \A e \in acked' : \E entries \in LogFiles' : InFile(entries, e)
  <2>1. CASE encFile' = encFile
    BY <1>0, <1>4, <2>1 DEF LogFiles
  <2>2. CASE sealed # 0 /\ encFile' = Append(encFile, Line(FALSE))
    BY <1>0, <1>4, <1>b, <1>c, <2>2
  <2> QED
    BY <1>4, <2>1, <2>2
<1>5. CASE WriteLineFails
  <2>1. /\ encFile' = encFile \/ (sealed # 0 /\ encFile' = Append(encFile, Line(FALSE)))
        /\ UNCHANGED <<second, backups, logger, salt, logged, acked, movedAt, crowded>> /\ sealed' = 0
    BY <1>5 DEF WriteLineFails
  <2>2. /\ encFile' \in Seq(EncLine)
        /\ \A e : InFile(encFile, e) => InFile(encFile', e)
        /\ ~crowded' => \A e \in acked' : \E entries \in LogFiles' : InFile(entries, e)
    BY <1>4, <2>1
  <2> QED
    BY <1>0, <2>1, <2>2 DEF EncInv, EncTypeOK
<1>6. CASE CloseLogger
  BY <1>0, <1>6 DEF CloseLogger, EncInv, EncTypeOK, LogFiles
<1>7. CASE ProcessEnds
  <2>1. /\ encFile' = encFile \/ (sealed # 0 /\ encFile' = Append(encFile, Line(FALSE)))
        /\ UNCHANGED <<second, backups, salt, logged, acked, movedAt, crowded>>
        /\ sealed' = 0 /\ logger' = NoLogger
    BY <1>7 DEF ProcessEnds
  <2>2. /\ encFile' \in Seq(EncLine)
        /\ \A e : InFile(encFile, e) => InFile(encFile', e)
        /\ ~crowded' => \A e \in acked' : \E entries \in LogFiles' : InFile(entries, e)
    BY <1>4, <2>1
  <2> QED
    BY <1>0, <1>a, <2>1, <2>2 DEF EncInv, EncTypeOK
<1>8. CASE UNCHANGED encVars
  BY <1>0, <1>8 DEF encVars, EncInv, EncTypeOK, LogFiles
<1> QED
  BY <1>1, <1>2, <1>3, <1>5, <1>6, <1>7, <1>8, <1>d DEF EncNext

(* While no rotation began in a second in which one had emptied the file, an
   acknowledged entry is decrypted from a file it is in unless a broken line, or
   one with another passphrase, stands before it there: for any number of
   processes, and of rotations and writes that fail half-way. *)
THEOREM AckedAlwaysDecrypts == EncSpec => []AckedDecrypts
<1>1. EncInv => AckedDecrypts
  <2> SUFFICES ASSUME EncInv, ~crowded, NEW e \in acked
               PROVE  \E entries \in LogFiles : \E i \in DOMAIN entries :
                        /\ entries[i].entry = e
                        /\ \/ e \in DecryptFile(entries, entries[i].pass)
                           \/ \E j \in 1..i : Broken(entries, j) \/ entries[j].pass # entries[i].pass
    BY DEF AckedDecrypts
  <2>1. PICK entries \in LogFiles : InFile(entries, e)
    BY DEF EncInv
  <2>2. PICK i \in DOMAIN entries : entries[i].entry = e
    BY <2>1 DEF InFile
  <2>3. ASSUME \A j \in 1..i : ~Broken(entries, j) /\ entries[j].pass = entries[i].pass
        PROVE  e \in DecryptFile(entries, entries[i].pass)
    <3>1. \A k \in 1..i : decryptEntry(entries, k, entries[i].pass)
      BY <2>3 DEF decryptEntry, DeriveKey, EntryKey
    <3> QED
      BY <2>2, <3>1 DEF DecryptFile
  <2> QED
    BY <2>2, <2>3
<1> QED
  BY <1>1, EncStarts, EncKeeps, PTL DEF EncSpec
=============================================================================
