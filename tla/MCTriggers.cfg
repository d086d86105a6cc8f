SPECIFICATION FairSpec
CONSTANTS
    Specs <- MCSpecs
    Days <- MCDays
    Ticks = {1, 30, 60, 86400}
    MaxTicks = 3
    MaxStops = 2
    ScanSeconds = 150
INVARIANTS TriggerInv
PROPERTIES FiresOnce TriggersServe
