CONSTANTS
  Uris = {main}
  Sessions <- MCSessions
  PipeRoom = 2
  VersionWidth = 1
  TokenData <- MCTokenData
SPECIFICATION FairSpec
INVARIANTS TypeOK BufferFollows OneAnswerEach AnswersDescribeTheText TokensReplay
PROPERTIES RequestsAreAnswered
\* The server waits for a client that may say nothing more.
CHECK_DEADLOCK FALSE
