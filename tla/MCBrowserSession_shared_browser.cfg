SPECIFICATION FairSpec
CONSTANTS
  t1 = t1
  t2 = t2
  b1 = b1
  b2 = b2
  Browsers = {b1, b2}
  Tabs = {t1, t2}
  Slots <- MCSlots
  BrowserOf <- OneBrowser
  MaxTokens = 2
  Faults = {"lost", "logout", "lapse"}
  MaxReloads = 1
PROPERTY DeadSessionsEnd
PROPERTY TabsFollowStore
CHECK_DEADLOCK FALSE
