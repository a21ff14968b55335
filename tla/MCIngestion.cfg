CONSTANTS
  Titles = {t1, t2, t3}
  x1 = x1
  x2 = x2
  y1 = y1
  tmdb = tmdb
  kobis = kobis
  blocked = blocked
  film = film
  theFilm = theFilm
  films = films
  hangul = hangul
  dots = dots
  Exts = {x1, x2, y1}
  Provider <- MCProvider
  Prohibited = {blocked}
  Registered = {kobis}
  Names = {film, theFilm, films, hangul, dots}
  Key <- MCKey
  Blank = {dots}
  Common = {dots}
  Translit = {{film, hangul}, {theFilm, hangul}}
  Alike = {{film, films}, {theFilm, films}}
  Files <- MCFiles
  Requests = {r1, r2}
  None = None
SPECIFICATION Spec
SYMMETRY Symmetry
INVARIANTS NoTwin RemakeApart
PROPERTIES MappingKept
