SPECIFICATION Spec
CONSTANTS
  api = api
  inside = inside
  c1 = c1
  c2 = c2
  mild = mild
  severe = severe
  NoPayload = NoPayload
  Conns = {c1, c2}
  Payloads <- MCPayloads
  Categories <- MCCategories
  Findings <- MCFindings
  Hosts <- MCHosts
  Domains <- MCDomains
  Chain <- MCChain
  Configs <- MCConfigs
  InternalHosts = {inside}
  GuardBlocked = {mild}
  MaxReloads = 1
CHECK_DEADLOCK FALSE
INVARIANT BlockResponseHonoured
