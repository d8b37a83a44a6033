SPECIFICATION MCSpec
CONSTANTS
  src = src
  new = new
  root = root
  sub = sub
  File = {src, new}
  Doc = {root, sub}
  Chain <- MCChain
  Missing = {new}
  ReadScope = {src}
  WriteScope = {src, new}
  Batches <- MCBatches
  Formats = {"openai", "other"}
  DETAIL_TURNS = 1
  READ_ONLY_LIMIT = 2
  REPEAT_LIMIT = 2
  STATUS_RETRIES = 1
  CONNECTION_RETRIES = 1
  JSON_RETRIES = 1
  Steady = TRUE
  MaxEdits = 1
INVARIANTS DoneMeansWritten ResumeKeepsWork NoStaleReads WritesAreInformed
PROPERTY StallEnds
