\* Two driver calls one after the other, each of any kind; in each, at most one
\* value is out of the ordinary or not read at all.
SPECIFICATION PollSpec
CONSTANTS
  MaxCalls = 2
  MaxUnusual = 1
INVARIANTS
  PollTypeOK
  ReportIsOneCall
  PairIsOneCall
  ValidMeansUsable
CHECK_DEADLOCK FALSE
