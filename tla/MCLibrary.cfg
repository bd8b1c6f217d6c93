SPECIFICATION Spec
CONSTANTS
  a = a
  b = b
  iso2 = iso2
  slugA = slugA
  short = short
  long = long
  None = None
  Isos = {a, b, iso2}
  Slug <- MCSlug
  Images = {short, long}
  Length <- MCLength
  Inodes = {i1, i2, i3, i4, i5, i6}
  Uploads = {u1, u2}
  Adds = {q1, q2}
  Mixes <- MCMixes
  Orders = {0}
  Users = {"tidy", "free"}
INVARIANT SoloUploadIsWhole
INVARIANT TidyMenuBoots
INVARIANT SluggedAddSticks
PROPERTY DefaultStays
SYMMETRY Handlers
CHECK_DEADLOCK FALSE
