SPECIFICATION Spec
CONSTANTS
  t1 = t1
  t2 = t2
  b1 = b1
  b2 = b2
  Browsers = {b1, b2}
  Tabs = {t1, t2}
  Slots <- MCSlots
  BrowserOf <- TwoBrowsers
  MaxTokens = 3
  Faults = {"lost", "logout", "lapse"}
  MaxReloads = 1
INVARIANT TypeOK
INVARIANT ReuseOnlyOfEnded
INVARIANT OneLivePerLogin
INVARIANT TabAgreesWithStore
CHECK_DEADLOCK FALSE
