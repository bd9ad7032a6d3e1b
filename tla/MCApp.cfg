CONSTANTS
  Labels <- MCLabels
  FdCount = 3
  MaxReads = 1
  MaxOthers = 1
  MaxResumes = 2
  MaxObjects = 3
  MaxPosts = 2
  Data <- MCData
  MaxItems = 4
  SpanCount = 3
  Spacing = 11
  Items = {"1", "2", "3"}
  MaxClicks = 3
SPECIFICATION DemosFairSpec
INVARIANTS NavigationIsRight RecyclerIsRight BindingIsRight
PROPERTIES DescriptorsAreSafe PoolsAreTame EverythingSettles
CHECK_DEADLOCK FALSE
