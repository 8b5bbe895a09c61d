SPECIFICATION Spec
CONSTANTS
  Messages <- SomeMessages
  MaxMessages = 3
  Sync <- SyncName
INVARIANTS TypeOK AnswersInOrder ParsingConsumes
CHECK_DEADLOCK FALSE
