SPECIFICATION Spec
CONSTANTS
  t1 = t1
  t2 = t2
  None = None
  Bare = Bare
  Off = Off
  Threads <- MCThreads
  Others = {"lab", "farm", "line"}
  Configs <- MCConfigs
  Far = {"pc"}
  Keys = {"k", "l"}
  Values = {"a", "b"}
  Packaged <- MCPackaged
  AppKeys = {"l"}
  Folders = {"f", "g"}
  Ids = {1}
  Plans <- MCPlans
SYMMETRY MCSymmetry
INVARIANTS
  SeesItsFiles
  MachinesApart
  MadeOfWhatIsKept
PROPERTIES
  JobsAtHome
  ChoicesLast
CHECK_DEADLOCK FALSE
