SPECIFICATION FairSpec
CONSTANTS
  m1 = m1
  m2 = m2
  m3 = m3
  e1 = e1
  NoEvent = NoEvent
  Messages = {m1, m2, m3}
  Targets = {"group"}
  TargetOf <- ToGroups
  Events = {e1}
  AnswersTo <- OneEvent
  WithKeyboard = {m1, m3}
  ActiveFallback = {m1}
  CanRefreshToken = TRUE
  MaxAttempts = 3
  MinInterval = 1
  Backoff = 2
  MaxDelay = 3
  RateLimitDelay = 3
  MaxReplies = 1
  Window = 4
INVARIANTS AtMostOneCopy HonestResult
PROPERTY Settles
