SPECIFICATION ServerSpec
CONSTANT Requests = {r1, r2}
INVARIANTS
  GoogleWebhookDisabled
CHECK_DEADLOCK FALSE
