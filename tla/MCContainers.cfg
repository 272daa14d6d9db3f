CONSTANTS
  Values = {a, b}
  NULL = NULL
  Strings <- ShortStrings
  Keys <- KeysAndErrors
  Sizes = {0, 1, 2}
  Default = 3
  MapDefault = 3
  UIntMod = 16
  MaxStored = 6
SPECIFICATION FairSpec
CHECK_DEADLOCK FALSE
INVARIANTS TypeOK Terminated HoldsWhatWasStored ChainsInOrder SafeAsUsed
PROPERTY JoinReturns
