---------------------------- MODULE MCComponents ----------------------------
(***************************************************************************)
(* The components that share no state with each other, checked in one run: *)
(* in a behaviour one of them runs, and the others stay as they began.     *)
(***************************************************************************)
EXTENDS
  CertFiles, CertManager, IOCPull, LensCorrelation, Webhook, HookFile,
  LanguageServer, EncryptedLog, AuditSearch, DaemonPID, ThreatModel,
  ScoreCache, DriftMonitor, ResponseGuard, Redaction, Normalize, Detector

VARIABLE running   \* The component that does.

Components ==
  {"CertFiles", "CertManager", "IOCPull", "LensCorrelation", "Webhook",
   "HookFile", "LanguageServer", "EncryptedLog", "AuditSearch", "DaemonPID",
   "ThreatModel", "ScoreCache", "DriftMonitor", "ResponseGuard",
   "Redaction", "Normalize", "Detector"}

ComponentsInit ==
  /\ running \in Components
  /\ CertFilesInit
  /\ ManagerInit
  /\ PullInit
  /\ LensInit
  /\ WebhookInit
  /\ running # "Webhook" => webhooks.len = 0
  /\ HookFileInit
  /\ running # "HookFile" => Range(file) = {Absent}
  /\ ServerInit
  /\ EncInit
  /\ SearchInit
  /\ PIDInit
  /\ ModelInit
  /\ CacheInit
  /\ DriftInit
  /\ GuardInit
  /\ running # "ResponseGuard" => ~strictMode
  /\ RedactionInit
  /\ NormalizeInit
  /\ running # "Normalize" => phrase = <<"a">>
  /\ DetectorInit
  /\ running # "Detector" => ~detection.model /\ Range(detection.inVariant) = {{}}

Others(component) ==
  /\ IF component = "CertFiles" THEN TRUE ELSE UNCHANGED certFileVars
  /\ IF component = "CertManager" THEN TRUE ELSE UNCHANGED managerVars
  /\ IF component = "IOCPull" THEN TRUE ELSE UNCHANGED pullVars
  /\ IF component = "LensCorrelation" THEN TRUE ELSE UNCHANGED lensVars
  /\ IF component = "Webhook" THEN TRUE ELSE UNCHANGED webhookVars
  /\ IF component = "HookFile" THEN TRUE ELSE UNCHANGED hookFileVars
  /\ IF component = "LanguageServer" THEN TRUE ELSE UNCHANGED serverVars
  /\ IF component = "EncryptedLog" THEN TRUE ELSE UNCHANGED encVars
  /\ IF component = "AuditSearch" THEN TRUE ELSE UNCHANGED searchVars
  /\ IF component = "DaemonPID" THEN TRUE ELSE UNCHANGED pidVars
  /\ IF component = "ThreatModel" THEN TRUE ELSE UNCHANGED modelVars
  /\ IF component = "ScoreCache" THEN TRUE ELSE UNCHANGED cacheVars
  /\ IF component = "DriftMonitor" THEN TRUE ELSE UNCHANGED driftVars
  /\ IF component = "ResponseGuard" THEN TRUE ELSE UNCHANGED guardVars
  /\ IF component = "Redaction" THEN TRUE ELSE UNCHANGED redactionVars
  /\ IF component = "Normalize" THEN TRUE ELSE UNCHANGED normalizeVars
  /\ IF component = "Detector" THEN TRUE ELSE UNCHANGED detectorVars
  /\ UNCHANGED running

ComponentsNext ==
  \/ running = "CertFiles" /\ CertFilesNext /\ Others("CertFiles")
  \/ running = "CertManager" /\ ManagerNext /\ Others("CertManager")
  \/ running = "IOCPull" /\ PullNext /\ Others("IOCPull")
  \/ running = "LensCorrelation" /\ LensNext /\ Others("LensCorrelation")
  \/ running = "Webhook" /\ WebhookNext /\ Others("Webhook")
  \/ running = "HookFile" /\ HookFileNext /\ Others("HookFile")
  \/ running = "LanguageServer" /\ ServerNext /\ Others("LanguageServer")
  \/ running = "EncryptedLog" /\ EncNext /\ Others("EncryptedLog")
  \/ running = "AuditSearch" /\ SearchNext /\ Others("AuditSearch")
  \/ running = "DaemonPID" /\ PIDNext /\ Others("DaemonPID")
  \/ running = "ThreatModel" /\ ModelNext /\ Others("ThreatModel")
  \/ running = "ScoreCache" /\ CacheNext /\ Others("ScoreCache")
  \/ running = "DriftMonitor" /\ DriftNext /\ Others("DriftMonitor")
  \/ running = "ResponseGuard" /\ GuardNext /\ Others("ResponseGuard")
  \/ running = "Redaction" /\ RedactionNext /\ Others("Redaction")
  \/ running = "Normalize" /\ NormalizeNext /\ Others("Normalize")
  \/ running = "Detector" /\ DetectorNext /\ Others("Detector")

allVars ==
  <<running, certFileVars, managerVars, pullVars, lensVars, webhookVars,
    hookFileVars, serverVars, encVars, searchVars, pidVars, modelVars,
    cacheVars, driftVars, guardVars, redactionVars, normalizeVars,
    detectorVars>>

ComponentsSpec == ComponentsInit /\ [][ComponentsNext]_allVars

(* Every component keeps to its types. *)
ComponentsTypeOK ==
  /\ running \in Components
  /\ CertFilesTypeOK
  /\ ManagerTypeOK
  /\ PullTypeOK
  /\ LensTypeOK
  /\ WebhookTypeOK
  /\ HookFileTypeOK
  /\ ServerTypeOK
  /\ EncTypeOK
  /\ SearchTypeOK
  /\ PIDTypeOK
  /\ ModelTypeOK
  /\ CacheTypeOK
  /\ DriftTypeOK
  /\ GuardTypeOK
  /\ RedactionTypeOK
  /\ NormalizeTypeOK
  /\ DetectorTypeOK
=============================================================================
