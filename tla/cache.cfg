SPECIFICATION Spec
CONSTANTS
  MaxMediaSequence = 2
  MaxFragments = 2
  Ttl = 2
  MaxPackets = 2
  RequestsPerPacket = 1
  DedupWindow = 2
  Requests <- CacheRequests
INVARIANTS
  TypeOK
  QueuesAgree
  QueuesInOrder
PROPERTIES
  AnswersFresh
  AnswersSpaced
  KeepsRecentPackets
