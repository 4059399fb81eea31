\* Two microapps with three sessions on one connection that may be lost.
SPECIFICATION Spec
CONSTANTS
  Session = {1, 2, 3}
  EpOf <- TwoEndpoints
  AclOf <- OneAcl
  SvcOf <- OneService
  NumInst = 4
  EpSlots = 2
  SvcSlots = 1
  SessSlots = 2
  Buffers <- FirstOperates
  OneAtATime = TRUE
  OpsFirst = TRUE
INVARIANTS SessionHeldOnce StackAgrees PartiesAgree ContextIsLive NoOneLeftWaiting
CHECK_DEADLOCK FALSE
