SPECIFICATION FairDeliverySpec
CONSTANTS
  Nil = Nil  NoToken = NoToken  NoCandidate = NoCandidate
  a1 = a1  g1 = g1  u1 = u1  u2 = u2
  Handlers = {h1, h2}
  RowIDs = {i1, i2, i3}
  Users = {u1}
  Purchases = {a1, g1}
  MaxTime = 1
  AppleAPIConfigured = TRUE
  Lives <- RetryLives
  EventIDs <- EventsOfLives
  AppleNotifications <- AppleNotificationsOfLives
  AppleReceipts = {}
  AppleAnswers <- AppleAnswersOfLives
  GoogleNotifications <- GoogleNotificationsOfLives
  GoogleAnswers <- GoogleAnswersOfLives
  GoogleTokens = {g1}
INVARIANTS
  SettledIsRecorded
PROPERTIES
  EventuallyRecorded
  RequestsEnd
CHECK_DEADLOCK TRUE
