CONSTANTS
  Mail = {m1}
  Process = {p1, p2}
  max_retries = 3
  MaxDeaths = 2
SPECIFICATION MailFairSpec
INVARIANTS ExtraMailsExplained GivenUpAfterRetries
PROPERTY SentInTheEnd
\* When every mail is dealt with nothing is left to do.
CHECK_DEADLOCK FALSE
