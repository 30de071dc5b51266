CONSTANTS
  Segments <- SomeSegments
  MaxTasks = 2
  MaxLists = 2
  MaxVideos = 1
  MaxCopies = 2
  SavedParts <- SomeParts
  RemadeParts <- OtherParts
SPECIFICATION FairSpec
INVARIANTS TypeOK ActiveIsShown ShownVideoIsItsOwn SaveMarksAreTrue
PROPERTIES PageSettles
