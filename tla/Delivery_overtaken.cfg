SPECIFICATION DeliverySpec
CONSTANTS
  Nil = Nil  NoToken = NoToken  NoCandidate = NoCandidate
  a1 = a1  g1 = g1  u1 = u1  u2 = u2
  Handlers = {h1, h2}
  RowIDs = {i1, i2, i3}
  Users = {u1}
  Purchases = {a1, g1}
  MaxTime = 1
  AppleAPIConfigured = TRUE
  Lives <- OvertakenLives
  EventIDs <- EventsOfLives
  AppleNotifications <- AppleNotificationsOfLives
  AppleReceipts <- Receipts
  AppleAnswers <- AppleAnswersOfLives
  GoogleNotifications <- GoogleNotificationsOfLives
  GoogleAnswers <- GoogleAnswersOfLives
  GoogleTokens = {g1}
SYMMETRY Symmetry
INVARIANTS
  RevocationLasts
CHECK_DEADLOCK TRUE
