\* A peer that may break the rules of the channel, SDUs that may take more
\* frames than it has credits for at first.
SPECIFICATION FairSpec
CONSTANTS
  InitCredits = 1
  MoreCredits = 1
  AppCredit = 1
  MaxSdu = 3
  Sizes = {1, 2}
INVARIANTS CreditOrIndication InOrder CreditsConserved HonestPeerTrusted
PROPERTIES SduReceived
CHECK_DEADLOCK FALSE
