SPECIFICATION FSpec
CONSTANTS
  d1 = d1
  c1 = c1
  c2 = c2
  c3 = c3
  Devices <- OneDevice
  Commands <- ThreeCommands
  Reports <- SmallReports
  MaxTime = 3
  Timeout = 1
  Skew = 1
  CommandLife = 1
PROPERTY RetirementIsIrreversible
