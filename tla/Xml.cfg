SPECIFICATION XmlSpec
CONSTANTS
  Docs <- MCDocs
  Olds <- MCOlds
  Searched <- MCSearched
  Queries <- MCQueries
CHECK_DEADLOCK FALSE
INVARIANTS InBounds Faithful CutNeverLies CountsInOrder
PROPERTIES Advances SearchGoesForward
