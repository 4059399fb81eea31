\* The HAL takes a session away while an operation of it is with the microstack.
SPECIFICATION Spec
CONSTANTS
  Session = {1}
  EpOf <- TwoEndpoints
  AclOf <- OneAcl
  SvcOf <- OneService
  NumInst = 2
  EpSlots = 1
  SvcSlots = 1
  SessSlots = 1
  Buffers <- FirstOperates
  OneAtATime = TRUE
  OpsFirst = FALSE
INVARIANT SpanPtrValid
CHECK_DEADLOCK FALSE
