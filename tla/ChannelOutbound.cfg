\* Two texts with one key, a split text and a media message, a queue of one.
SPECIFICATION FairSpec
CONSTANTS
  c1 = c1
  c2 = c2
  c3 = c3
  m1 = m1
  k1 = k1
  Calls = {c1, c2, c3, m1}
  NoCall = NoCall
  Key <- KeyOf
  NoKey = NoKey
  Media = {m1}
  Chunks <- ChunksOf
  QueueSize = 1
  MaxRetries = 1
INVARIANTS
  TypeOK
  OneQueuedPerKey
  NoTrace
  
  HandledIsSettled
PROPERTIES
  DeliversAsPromised
  Drained
\* ChannelCore rests when every call has returned and every queue is empty.
CHECK_DEADLOCK FALSE
