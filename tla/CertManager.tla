---------------------------- MODULE CertManager ----------------------------
(***************************************************************************)
(* Manager of internal/certificate/certificate.go: the certificates that a *)
(* proxy signs for the hosts it intercepts, their cache, and its lock.     *)
(*                                                                         *)
(* Every method holds m.mu for all it does, so a call is one step,         *)
(* whichever goroutine makes it.  The exception is a method that calls     *)
(* another one while it holds the lock, which is not reentrant: it never   *)
(* ends.  A certificate is the number of the CA that signed it; 0 is none. *)
(***************************************************************************)
EXTENDS Integers, FiniteSets

CONSTANTS
  Hosts,            \* Hosts that are intercepted.
  maxCertCacheSize, \* 1000 in the code.
  MaxCAs            \* Bound: how many CAs are generated or loaded.

CAName == "self-signed-ca"
CacheKeys == Hosts \union {CAName}

ASSUME HostsAssumption == IsFiniteSet(Hosts) /\ CAName \notin Hosts
ASSUME CacheSizeAssumption == maxCertCacheSize \in Nat \ {0}
ASSUME MaxCAsAssumption == MaxCAs \in Nat

VARIABLES
  certCache,  \* certCache[k]: the certificate cached under k.
  issuer,     \* caCertificate with caPrivateKey.
  lastCA,     \* The newest CA.
  locked,     \* m.mu is held by a call that waits for m.mu.
  injected,   \* Hosts given to CacheCertificate since the cache was cleared.
  stale       \* Hosts that were cached when the CA was replaced.

managerVars == <<certCache, issuer, lastCA, locked, injected, stale>>

ManagerTypeOK ==
  /\ certCache \in [CacheKeys -> 0..MaxCAs]
  /\ issuer \in 0..MaxCAs
  /\ lastCA \in 0..MaxCAs
  /\ locked \in BOOLEAN
  /\ injected \subseteq Hosts
  /\ stale \subseteq Hosts

Cached(cache) == {k \in CacheKeys : cache[k] # 0}

ManagerInit ==
  /\ certCache = [k \in CacheKeys |-> 0]
  /\ issuer = 0
  /\ lastCA = 0
  /\ locked = FALSE
  /\ injected = {}
  /\ stale = {}

-----------------------------------------------------------------------------
(* GenerateSelfSigned, and LoadCAFromFiles once it has read the files: nothing
   is evicted for the CA's entry, and what the old CA signed stays. *)
ReplaceCA ==
  /\ ~locked
  /\ lastCA < MaxCAs
  /\ lastCA' = lastCA + 1
  /\ issuer' = lastCA + 1
  /\ certCache' = [certCache EXCEPT ![CAName] = lastCA + 1]
  /\ stale' = Cached(certCache) \ {CAName}
  /\ UNCHANGED <<locked, injected>>

(* GenerateProxyCertificate with no CA calls GenerateSelfSigned, and waits for
   the lock that it holds. *)
SignWithoutCA(h) ==
  /\ ~locked
  /\ issuer = 0
  /\ locked' = TRUE
  /\ UNCHANGED <<certCache, issuer, lastCA, injected, stale>>

(* Entries that may go: neither the CA's nor the new one. *)
Evictable(cache, h) == Cached(cache) \ {CAName, h}

(* The cache with the new entry, and without one other if there are too many. *)
Evictions(cache, h) ==
  IF Cardinality(Cached(cache)) > maxCertCacheSize /\ Evictable(cache, h) # {}
  THEN {[cache EXCEPT ![k] = 0] : k \in Evictable(cache, h)}
  ELSE {cache}

(* Faulty variant: the signing key is that of the first CA. *)
SignWithFirstCA(h) ==
  /\ ~locked
  /\ issuer # 0
  /\ certCache[h] = 0
  /\ certCache' \in Evictions([certCache EXCEPT ![h] = 1], h)
  /\ stale' = stale \intersect Cached(certCache')
  /\ UNCHANGED <<issuer, lastCA, locked, injected>>

(* With a CA, a certificate is signed and cached, unless there is one. *)
SignNew(h) ==
  /\ ~locked
  /\ issuer # 0
  /\ certCache[h] = 0
  /\ certCache' \in Evictions([certCache EXCEPT ![h] = issuer], h)
  /\ stale' = stale \intersect Cached(certCache')
  /\ UNCHANGED <<issuer, lastCA, locked, injected>>

(* CacheCertificate, of any certificate signed so far: no look at the limit. *)
CacheCertificate(h) ==
  /\ ~locked
  /\ \E ca \in 1..lastCA : certCache' = [certCache EXCEPT ![h] = ca]
  /\ injected' = injected \union {h}
  /\ UNCHANGED <<issuer, lastCA, locked, stale>>

(* The CA's entry goes too, the CA itself stays. *)
ClearCache ==
  /\ ~locked
  /\ certCache' = [k \in CacheKeys |-> 0]
  /\ injected' = {}
  /\ stale' = {}
  /\ UNCHANGED <<issuer, lastCA, locked>>

ManagerNext ==
  \/ ReplaceCA
  \/ ClearCache
  \/ \E h \in Hosts : SignWithoutCA(h) \/ SignNew(h) \/ CacheCertificate(h)

ManagerSpec == ManagerInit /\ [][ManagerNext]_managerVars

-----------------------------------------------------------------------------
(* Properties *)

(* certificate.go:30 and :197: the cache stays bounded although only
   GenerateProxyCertificate evicts, and never the CA.  One entry more than the
   limit is the CA's, when it is generated over a full cache that had been
   cleared.  (CacheCertificate, which the proxy does not use, knows no limit.) *)
CertCacheBounded ==
  injected = {} => Cardinality(Cached(certCache)) <= maxCertCacheSize + 1

(* A host's certificate is signed by the CA that the proxy has, which is the one
   that clients may trust, unless it was cached before the CA was replaced, or
   handed to CacheCertificate: GenerateProxyCertificate returns such an entry
   for as long as it stays. *)
SignedByCurrentCA ==
  \A h \in Hosts \ (injected \union stale) : certCache[h] \in {0, issuer}

(* Both. *)
CertCacheSound == CertCacheBounded /\ SignedByCurrentCA
=============================================================================
