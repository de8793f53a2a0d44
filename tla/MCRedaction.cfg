SPECIFICATION RedactionSpec
CONSTANTS
  TextLength = 3
  Letters = {"x", "y"}
  Categories = {"a", "b"}
  MaskLengths = {1, 3}
  MaxMatches = 2
CHECK_DEADLOCK FALSE
INVARIANT MasksAllSecrets
