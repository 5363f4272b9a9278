SPECIFICATION Spec
CONSTANTS
  Kinds = {"sdp"}
  Alphabet <- Symbols
  Bound <- Length
  Menu <- AFewOptions
  Tag = "tag"
  MethodSize = 4
INVARIANTS
  TelephoneEventIsFound
