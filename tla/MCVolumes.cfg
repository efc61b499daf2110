SPECIFICATION Spec
CONSTANTS
  g = g
  h = h
  p = p
  q = q
  z = z
  t = t
  u = u
  y = y
  A = A
  B = B
  Needles = {g, h}
  Parts <- MCParts
  Stores = {A, B}
  Keepers = {B}
  Txs = {t, u}
  Home <- MCHome
  Readers = {y}
  Where <- MCWhere
  Fickle = {p}
  VolumeSize = 2
  Retries = 3
  VolumesMax = 3
  JobsMax = 1
  PutsMax = 2
  FallsMax = 1
  Prompt = TRUE
  Swift = TRUE
  Lasting = TRUE
INVARIANTS
  RowsPointToBytes
  OneWriter
  AnswersHold
PROPERTIES
  KeepsItsPromise
CHECK_DEADLOCK FALSE
SYMMETRY MCSymmetry
CONSTRAINT AtOnce
