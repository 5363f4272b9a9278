SPECIFICATION Spec
CONSTANTS
  Kinds = {"text", "method", "value", "sdp", "frame", "options"}
  Alphabet <- Symbols
  Bound <- Length
  Menu <- AFewOptions
  Tag = "tag"
  MethodSize = 4
INVARIANTS
  GetTagReadsTheHeader
  MethodIsTheLeadingToken
  PeernameIsTheUser
  EventIsAnnounced
  HeaderIsBehindTheStack
  
