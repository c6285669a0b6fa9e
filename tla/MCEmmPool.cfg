SPECIFICATION Spec
CONSTANTS
  TotalPages = 3
  SystemPages = 1
  HandleTableSize = 3
  NullPage = 5
  Names = {"a"}
INVARIANTS EachPageOnce SearchFindsSlot
PROPERTIES PagesStayWithOwner
