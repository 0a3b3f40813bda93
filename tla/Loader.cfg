SPECIFICATION Spec
CONSTANTS
  Files <- MCFiles
  Table <- MCTable
  MaxImage = 10
  Wrap = 32
  Zero = Zero
  Junk = Junk
  Mz = Mz
  Code = Code
  NoFile = NoFile
INVARIANTS ImageAsDescribed SectionsInside ImportsAsRecorded MetadataSurvives VariablesOfNoFunction
CHECK_DEADLOCK FALSE
