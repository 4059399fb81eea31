\* A socket of either protocol, requests of up to three segments of which LE CoC
\* takes two and RFCOMM one, a user who need not wait, and an RFCOMM link that
\* may go.
SPECIFICATION FairSpec
CONSTANTS
  Protos = {"RFCOMM", "LECOC"}
  Window = 2
  MaxReq = 3
  Sizes = {1, 2, 3}
  Mtu = 2
  MaxCredits = 2
  LossyLinks = {"RFCOMM"}
INVARIANTS SegmentsConserved ConfirmedOnce
PROPERTIES RequestsConfirmed
CHECK_DEADLOCK FALSE
