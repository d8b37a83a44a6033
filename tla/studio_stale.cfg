SPECIFICATION Spec
CONSTANTS
  Module = {1, 2, 3, 4}
  Entry = {1}
  Composer = {2}
  Text = {1, 2}
  Label = {1, 2}
  MinModules = 2
  MaxModules = 3
  Micro = Micro
  Null = Null
  Drafts <- MCDrafts
  Handmade <- MCHandmade
  Profile = 2
  HISTORY_MAX = 1
  Outcome = {"review", "failed"}
  Overlap = FALSE
  MaxRequests = 2
PROPERTY StaleUntilConfirmed
