SPECIFICATION Spec
CONSTANTS
  lan = lan
  wan = wan
  Own = 2
  Settle = 1
  QueryGap = 2
  Life = 5
  AnswerWindow = 1
  MaxAnswers = 1
  None = None
  Networks = {lan, wan}
  Hosts <- MCHosts
  Late <- MCLate
  MaxChanges = 1
INVARIANT PeerFresh
PROPERTY OfferUsed
