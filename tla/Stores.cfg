SPECIFICATION Spec
CONSTANTS
  NoToken = NoToken  NoCandidate = NoCandidate  Undecided = Undecided
  a1 = a1  a2 = a2
  Certificates <- SampleCertificates
  AppleAuthorities = {"Apple Root CA - G3", "Apple Root CA - G2", "Apple Root CA", "WWDR"}
  NotificationKeys = {"notifier"}
  Notifications <- SampleNotifications
  Responses <- SampleResponses
INVARIANTS
  FailsClosed
  ReconcileIsSelection
CHECK_DEADLOCK FALSE
