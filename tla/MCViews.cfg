CONSTANTS
  film = film series = series drama = drama comedy = comedy crime = crime ann = ann kr = kr
  Users = {1, 2, 3}
  Viewers = {1}
  Chosen = {"COMPLETED"}
  Titles = {film, series}
  Shapes <- MCShapes
  Kind <- MCKind
  Runtime <- MCRuntime
  EpisodeRuntime <- MCEpisodes
  Genres <- MCGenres
  Directors <- MCDirectors
  Countries <- MCCountries
  Distance <- MCDistance
  Top = 1
  TopStats = 2
  Week = 1
  Thirty = 2
  MonthDays = 2
  YearDays = 3
  TrendMonths = 2
  MaxDay = 3
  MaxActs = 3
  None = None
  f1 = f1 f2 = f2 p = p
  Rows = {1, 2, 3}
  MaxKey = 3
  Twice = {2}
  People <- MCPeople
  Limit = 2
  MaxWrites = 2
  Clients = {c1}
  Films = {1, 2, 3, 4}
  First = {1, 2, 3}
  GenresOf <- MCGenresOf
  DirectorsOf <- MCDirectorsOf
  ActorsOf <- MCActorsOf
  RuntimeOf <- MCRuntimeOf
  Scores = {2, 5, 9}
  Asks <- MCAsks
  PoolLimit = 3
  ListLimit = 1
  Friends = {f1, f2}
  MaxChanges = 2
  w1 = w1 w2 = w2 name = name
  Works = {w1, w2}
  NameOf <- MCNameOf
  Released <- MCReleased
  Like <- MCLike
  Past = {1}
  Scopes = {"all", "ratings"}
  Foreign <- MCForeign
  Pdfs <- MCPdfs
  MaxEdits = 2
  MaxImports = 1
SPECIFICATION MCSpec
CHECK_DEADLOCK FALSE
INVARIANTS PageConsistent BoardsAgree Mirrored ListsComplete FinishedLeftOut TasteMonotone
PROPERTIES HistoryMoves PlannedNotWatched
