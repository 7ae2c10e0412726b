SPECIFICATION FairSpec
CONSTANTS
  Task = {t1, t2}
  Option <- MCOption
  Wanted <- MCWanted
  Preferred <- MCPreferred
  Listable <- MCListable
  MaxListed = 2
  Chain <- MCChain
  LookupErrors <- MCLookupErrors
INVARIANTS
  AnswerIsTheQuerys
  FirstListedWins
  StrikesTrade
PROPERTY
  LookupsEnd
CHECK_DEADLOCK FALSE
