\* One call of bootstrap_session against a busy, failing or ready relay.
CONSTANTS
  Budget = 7
  RequestTimeout = 3
  AnswerTime = 1
  MaxRetryAfter = 3
  ErrorWait = 2
  Jitter = 1
SPECIFICATION FairSpec
INVARIANTS TypeOK OverrunBounded PatientEnough SessionsBounded
PROPERTY Ends
CHECK_DEADLOCK FALSE
