\* One placeholder with its rows; a typing indicator and a reaction; three
\* deliveries of two messages; three updates; three channels;
\* texts of six characters; two media messages over three files; a burst of
\* two and two thirds of a token per tick; ticks of 15 seconds for the token.
SPECIFICATION FairSpec
CONSTANTS
  ProgressRows = {p1}
  FinalRow = f1
  FailNotice = n1
  Updates = {}
  Finishes = {sf}
  NoEdit = NoEdit
  Slots = {sl1, sl2}
  NoSlot = NoSlot
  MaxAttempts = 2
  Starters = {}
  Reactors = {r1}
  Preparers = {q1}
  d1 = d1
  d2 = d2
  d3 = d3
  m1 = m1
  m2 = m2
  s1 = s1
  Deliveries = {d1, d2, d3}
  Message <- MessageOf
  Identified = {m1, m2}
  Subscribers = {s1}
  Wants <- WantsOf
  NoDelivery = NoDelivery
  Capacity = 1
  MaxUpdates = 3
  MaxRestarts = 1
  Last = 3
  Sessions = {2, 3}
  Late = {3}
  MaxLength = 6
  Limits = {0, 1, 4}
  f2 = f2
  f3 = f3
  f4 = f4
  mm1 = mm1
  mm2 = mm2
  Uploads = {f2, f3, f4}
  MediaMessages = {mm1, mm2}
  Parts <- PartsIn
  Named = {f3}
  NoMessage = NoMessage
  MediaRetries = 1
  MaxCrashes = 1
  Unit = 3
  Gain = 2
  ConfiguredBurst = 2
  Instants = {0, 1, 2, 3, 4, 5, 6, 7}
  w1 = w1
  w2 = w2
  Workers = {w1}
  Refreshers = {w2}
  ExpiresIn = 8
  Margin = 4
  Timeout = 1
  MaxCalls = 3
  MaxTime = 13
INVARIANTS
  PartsTypeOK
  FinalShown
  EndedOnce
  LinesInOrder
  DropsInsteadOfWaiting
  
  
  UpdatesHandled
PROPERTIES
  VerdictStays
  PartsEnd
\* ChannelCore rests when nothing arrives and nobody calls.
CHECK_DEADLOCK FALSE
