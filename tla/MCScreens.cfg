SPECIFICATION Spec
CONSTANTS
  JsonKeys <- MCJson
  MediaKeys <- MCMedia
  OwnKeys <- MCOwn
  Sizes <- MCSizes
  Budget = 2
  PinnedBonus = 10
  Scores <- MCScores
  MaxSeq = 2
  MaxCrashes = 1
  MaxReads = 1
  OldMessages = 2
  MaxMessages = 4
  PageSize = 1
  MaxPresses = 3
  Rows = 3
  Limit = 1
  MaxTurns = 4
  MaxRequests = 2
  MaxText = 5
  ClipAt = 3
  MaxAsked = 2
  MaxVersion = 1
  Amounts <- MCAmounts
  Slides <- MCSlides
  Limits <- MCLimits
  MaxStories = 2
  MaxSends = 2
  Names <- MCNames
  ShortNames <- MCShort
  FirstName = "dave"
  MaxEdits = 2
  MaxOutside = 1
  Visitors <- MCVisitors
  Purse = 2
  BaseFee = 1
  MaxBids = 2
  MaxSnapshots = 1
  AskPrices <- MCAskPrices
  MaxEvents = 3
INVARIANTS
  BytesAccounted
  
  
  
  
  
  MentionsSound
  LookupSound
  BetAsShown
  StorySound
  
  BidsSound
  
PROPERTIES
  PinnedLast
CHECK_DEADLOCK FALSE
