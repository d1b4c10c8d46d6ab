SPECIFICATION Spec
CONSTANTS
  u1 = u1
  r1 = r1
  r2 = r2
  f1 = f1
  f2 = f2
  f3 = f3
  f4 = f4
  x1 = x1
  d1 = d1
  c1 = c1
  c2 = c2
  s1 = s1
  g1 = g1
  g2 = g2
  m1 = m1
  m2 = m2
  m3 = m3
  m4 = m4
  p1 = p1
  p2 = p2
  o1 = o1
  o2 = o2
  k1 = k1
  None = None
  Users <- OneUser
  Slots <- TwoSlots
  Folders <- FourFolders
  FiledDocs <- OneFiled
  Docs <- OneDoc
  MaxCount = 2
  ChapterIds <- TwoChapters
  MaxOrder = 1
  MaxViews = 1
  StoryIds <- OneStory
  Genres <- TwoGenres
  CommentIds <- FourComments
  Marks = {"pinned"}
  ReportIds <- TwoReports
  FileIds <- TwoFiles
  Paths = {"p"}
  CachedIds <- OneCached
  MaxWrites = 4
INVARIANT ContentTypeOK
INVARIANT DepthTrue
INVARIANT TreeComplete
INVARIANT FixedStands
INVARIANT HistoryTells
INVARIANT VersionLinks
INVARIANT PublishedIsDated
INVARIANT ChapterFixedStands
INVARIANT DeletedStays
INVARIANT ReplyDepth
INVARIANT NestingBound
INVARIANT ResolvedStands
INVARIANT SecondReportEarned
INVARIANT ReferenceFound
INVARIANT ObjectOwned
INVARIANT PathsApart
INVARIANT ReadsAreCurrent
INVARIANT EntryInStep
PROPERTY OnlyLateLost
PROPERTY RefusedOnlyByRace
PROPERTY GenresTakeHold
SYMMETRY Symmetry
CHECK_DEADLOCK FALSE
