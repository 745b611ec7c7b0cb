SPECIFICATION MCSpec
CONSTANTS
  Task = {"t1", "t2", "isr"}
  Isr = "isr"
  MaxIrqs = 2
  Sub = {0, 1, 2}
  Board = {"me1000", "me0600_dio", "me0600_di", "me0600_relay", "me0600_irq", "me0900_di", "me0900_do",
           "me4600", "me4600i", "me4600_ctr", "me4600_irq", "me6000", "me8100", "me8100b", "me8200_dio",
           "me8200", "me8200_ex", "me8200_do", "me1400", "me1400ab", "me1400cd"}
  Inputs <- MCInputs
  Models <- MCModels
  MaxPlugs = 3
  Channel = {0, 1}
  Caller = {"t1", "t2"}
  Calls1600 <- MCCalls1600
  Sample = {2}
INVARIANTS RegistersAgree WritesReachOutputs QueriesTellTheTruth
           NobodyLeftWaiting EnabledIffStarted ValuesAreWhole HeldBackAndWatched
           NothingDangles KnownLeaks
