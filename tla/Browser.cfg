SPECIFICATION Spec
CONSTANTS
  MaxConns = 2
  Mail = {"m1", "m2"}
  Draft = {"d1"}
  Deletable = {"d1"}
  Faults = {"break", "reload", "reject", "hang", "abort"}
INVARIANTS TypeOK OwnActions AckedIsStored NothingTwice GoodEndIsSeen
PROPERTIES ExchangeEnds
CHECK_DEADLOCK FALSE
