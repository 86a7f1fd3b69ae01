CONSTANTS
  StallAfter = 4
  MaxHeight = 1
  Refreshers = {ticker, scrape}
  None = None
SPECIFICATION ReadinessSpec
SYMMETRY Sym
INVARIANTS StallAlarmed AlarmSilenced
PROPERTIES AlarmEarned ReadyIsEarned
