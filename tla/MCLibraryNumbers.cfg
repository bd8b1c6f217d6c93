SPECIFICATION Spec
CONSTANTS
  a = a
  b = b
  iso2 = iso2
  slugA = slugA
  short = short
  long = long
  None = None
  Isos = {a, b}
  Slug <- MCNoSlug
  Images = {short, long}
  Length <- MCLength
  Inodes = {i1, i2, i3, i4}
  Uploads = {u1}
  Adds = {q1}
  Mixes <- MCFewFiles
  Orders = {0}
  Users = {"tidy"}
INVARIANT QuickAddSticks
CHECK_DEADLOCK FALSE
