SPECIFICATION FairSpec
CONSTANTS
  A = a
  B = b
  Hook = hook
  Reply = reply
  Command = command
  Garbled = garbled
  Providers = {a, b}
  Hooks = {hook}
  Configs <- MCConfigs
  NoConfig = noConfig
  MaxWrites = 2
  Budgets <- MCBudgets
  EditsAtStart = FALSE
  Events = {reply, command, garbled}
  AppOf <- MCAppOf
  Replies = {reply}
  Malformed = {garbled}
  MaxParts = 3
  MaxFrames = 2
  Pings = TRUE
  NoApp = noApp
INVARIANTS AckedIsHandled HooksInPlace
PROPERTIES ValidConfigIsUsed AppsTakeTurns QuietLinkIsLeft
CHECK_DEADLOCK FALSE
