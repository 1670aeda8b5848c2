CONSTANTS
  textOnly = textOnly
  everything = everything
  text = text
  toolUse = toolUse
  Stores = {textOnly, everything}
  Failing = {everything}
  Kinds = {text, toolUse}
  Exclude <- MCExclude
  SaveFailuresBeforeBackoff = 2
  BackoffProbeInterval = 2
  MaxMessages = 3
  MaxQueued = 1
SPECIFICATION Spec
INVARIANT NoMessageLost
