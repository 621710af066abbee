SPECIFICATION Spec
CONSTANTS
  Shares = {s1, s2}
  Older = {s2}
  Workers = {w1, w2}
  BatchLimit = 1
  MaxAttempts = 2
  MaxRetries = 2
  MaxFaults = 1
  Nobody = Nobody
INVARIANTS
  TypeOK
  AppliedWasMailed
  MailsAreAttempts
  AnswersReachTheProject
  ProjectShowsTheAnswer
