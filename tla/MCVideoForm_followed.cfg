CONSTANTS
  Segments <- SomeSegments
  MaxTasks = 2
  MaxLists = 2
  MaxVideos = 0
  MaxCopies = 0
  SavedParts = {}
  RemadeParts = {}
SPECIFICATION FairSpec
PROPERTY ShownTaskIsFollowed
