SPECIFICATION MarketSpec
CONSTANTS
  Nil = Nil  NoToken = NoToken  NoCandidate = NoCandidate
  a1 = a1  g1 = g1  u1 = u1  u2 = u2
  e1 = e1  e2 = e2  e3 = e3  e4 = e4  e5 = e5  e6 = e6
  Handlers = {h1, h2}
  RowIDs = {i1, i2, i3}
  Users = {u1, u2}
  Purchases = {a1, g1}
  EventIDs = {e1, e2, e3, e4, e5, e6}
  MaxTime = 1
  AppleAPIConfigured = TRUE
  ProAllowlist = {}
  AppleNotifications <- AppleSetAndNoise
  AppleReceipts <- Receipts
  AppleAnswers <- AppleAnswerSet
  GoogleNotifications <- GoogleSetAndNoise
  GoogleAnswers <- GoogleAnswerSet
  GoogleTokens = {g1}
SYMMETRY Symmetry
INVARIANTS
  OneRowPerPurchase
  EventHeldOnce
  RepositoryInvariant
  GoogleRowsExpire
  AppleCancellationsDated
PROPERTIES
  AppliedWithItsEvent
  OwnerNeverChanges
  UpdateNeverRevives
  RecordedOnlyByCommit
CHECK_DEADLOCK TRUE
