CONSTANTS
  Names <- MCNames
  Present <- MCPresent
  Unwritable <- MCUnwritable
  Unreadable <- MCUnreadable
  Pictures <- MCPictures
  Leftovers <- MCLeftovers
  CutAt <- MCCutAt
  CommandLines <- MCCommandLines
  Digits <- MCDigits
  Value <- MCValue
  Hundredths <- MCHundredths
  RoundedUp <- MCRoundedUp
  RoundedDown <- MCRoundedDown
  Word = 256
  MaxRuns = 2
SPECIFICATION Spec
INVARIANTS
  TypeOK
  ReadsBack
  FailureLosesOutputOnly
  FilteredAsAsked
CHECK_DEADLOCK FALSE
