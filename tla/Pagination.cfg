SPECIFICATION PaginationSpec
CONSTANTS
  Rows <- MCRows
  Size = 2
  MaxChanges = 3
INVARIANTS NoneSkippedNoneTwice EndMeansComplete
PROPERTIES PagesAdjoin WalkEnds
\* A walk that has come to its end stops.
CHECK_DEADLOCK FALSE
