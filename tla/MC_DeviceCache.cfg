SPECIFICATION Spec
CONSTANTS
  Host = {h1, h2}
  File = {f1, f2}
  Version = {v1, v2}
  Unknown = Unknown
  MaxTokens = 3
PROPERTIES NoStaleCacheLoaded
CHECK_DEADLOCK FALSE
