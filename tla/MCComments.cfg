\* A comment that begins with "->".
SPECIFICATION StreamSpec
CONSTANTS
  MaxDocuments = 1
  MaxDepth = 1
  MaxTokens = 3
  AttributeLists <- PeerAttributes
  CharTexts <- PeerTexts
  DataBodies <- PeerData
  CommentBodies <- CutComments
  Instructions <- PeerInstructions
INVARIANT DocumentsComeApart
