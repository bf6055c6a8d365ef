\* Each part may come to rest.
SPECIFICATION DocumentsSpec
CONSTANTS
  k1 = k1
  k2 = k2
  Dialects <- mcDialects
  ItemKeys <- mcKeys
  MaxEvents = 4
  MaxDocuments = 2
  MaxDepth = 3
  MaxTokens = 5
  AttributeLists <- PeerAttributes
  CharTexts <- PeerTexts
  DataBodies <- PeerData
  CommentBodies <- PeerComments
  Instructions <- PeerInstructions
SYMMETRY mcSymmetry
INVARIANTS
  NothingReceivedIsLost
  DocumentIsTheMessage
  DocumentsComeApart
  DocumentSurvives
CHECK_DEADLOCK FALSE
