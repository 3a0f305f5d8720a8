SPECIFICATION FairSpec
CONSTANTS
  Revotes = {c1, c2}
  MaxSignals = 2
INVARIANTS TypeOK NoSectionBroken RevotesAnswered DiesAlone
PROPERTIES SignalStops DeadServerEndsAPI
CHECK_DEADLOCK FALSE
