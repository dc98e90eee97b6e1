SPECIFICATION Spec
CONSTANTS
  t1 = t1
  t2 = t2
  b1 = b1
  b2 = b2
  Browsers = {b1, b2}
  Tabs = {t1, t2}
  Slots <- MCSlots
  BrowserOf <- TwoBrowsers
  MaxTokens = 4
  Faults = {"logout"}
  MaxReloads = 0
PROPERTY LogoutIsLocal
CHECK_DEADLOCK FALSE
