SPECIFICATION FairSpec
CONSTANTS
  t1 = t1
  t2 = t2
  main = main
  none = none
  Threads = {t1, t2}
  Owner = main
  NoThread = none
  MAX_SESSION = 3
  OWNER_OFFERS = 1
INVARIANTS TypeOK OneAdvertiser RebootAtMostOnce
PROPERTIES KeepsOffering StopReturns SessionsAdvance
