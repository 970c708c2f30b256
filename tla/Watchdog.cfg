\* The schedule against a link and a user that do anything at any time.
SPECIFICATION FairSpec
CONSTANTS
  MaxBackoffTicks = 4
  MaxAttempts = 7
PROPERTIES BackoffBetweenDials NeverGivesUp
\* Hold here too: TypeOK WaitAddsUp.
