SPECIFICATION MCSpec
CONSTANTS
  Null = Null
  Member = Member
  Other = Other
  Keys = {1, 2, 3, 4}
  Values = {Member, Other}
  Hash <- TestHash
  InitialBuckets = 2
  Entries = {1, 2, 3, 4}
  MapKeys = {1, 2, 3, 4, 5}
  SetKeys = {1, 2, 3, 4, 5, 6, 7, 8, 9}
INVARIANTS AnswersAreRight LengthAndLoad SearchFinds TreeIsBalanced
PROPERTIES ImplementsDictionary TreeImplementsDictionary EveryCallReturns
