SPECIFICATION FairSpec
CONSTANTS
  KEEP_ALIVE = 5
  MaxSent = 2
  MaxWire = 2
INVARIANT TypeOK
INVARIANT SettingsFollow
INVARIANT PingsWhenIdle
PROPERTY GetsServed
PROPERTY SettingsArrive
