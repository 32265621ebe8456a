SPECIFICATION Spec
CONSTANTS
  Requests = {r1}
  Products <- MCProducts
  Keys = {"color", "size", "size:eu", "price"}
  Values <- MCValues
  AttributeLists <- MCAttributeLists
  Queries <- MCQueries
  Sanitized <- MCSanitized
  MaxEdits = 1
PROPERTY CountsAreFacets
CHECK_DEADLOCK FALSE
