SPECIFICATION FairSpec
CONSTANT MaxAlerts = 4
INVARIANTS TypeOK OverlapOnlyAfterRace StuckOnlyAfterDrop
PROPERTIES ShownInOrder ImplementsSerialDisplay EveryAlertShown
