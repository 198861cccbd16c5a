SPECIFICATION Spec
CONSTANTS
  lan = lan
  wan = wan
  Own = 2
  Settle = 1
  QueryGap = 2
  Life = 5
  AnswerWindow = 1
  MaxAnswers = 1
  None = None
  Networks = {lan}
  Hosts <- MCBoards
  Late <- MCNone
  MaxChanges = 0
PROPERTY PicosMeet
