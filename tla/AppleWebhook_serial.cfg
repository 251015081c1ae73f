SPECIFICATION SerialAppleWebhookSpec
CONSTANTS
  Nil = Nil
  a1 = a1  a2 = a2  u1 = u1  u2 = u2
  e1 = e1  e2 = e2  e3 = e3  e4 = e4  e5 = e5  e6 = e6  e7 = e7  e8 = e8
  Handlers = {h1, h2}
  RowIDs = {i1, i2, i3, i4}
  Users = {u1, u2}
  Purchases = {a1, a2}
  EventIDs = {e1, e2, e3, e4, e5, e6, e7, e8}
  MaxTime = 2
  AppleNotifications <- TwoLives
SYMMETRY Symmetry
PROPERTIES
  ImplementsLedger
  RevokedIsTerminal
  LastEventAtNeverRegresses
  OnlyRevocationShortens
  OnlyLegalTransitions
CHECK_DEADLOCK TRUE
