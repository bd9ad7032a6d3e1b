CONSTANTS
  Size = 2
  Words <- MCWords
SPECIFICATION Spec
INVARIANT TraversalsListTheTree
PROPERTIES DeletionIsExact AddedWords
CHECK_DEADLOCK FALSE
