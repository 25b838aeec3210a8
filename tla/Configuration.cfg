\* Files of every kind, profiles opened one after the other.
CONSTANTS
  True = True  False = False  None = None
  Var = Var  Name = Name
  ProfileName = Name
  Variables = {Var}
  NamePrefixes <- MCNamePrefixes
  Manuals <- MCManuals
  Hostname = "host"
  RootPath <- MCRootPath
  HomeDir <- MCHomeDir
  ExtraArgs <- MCExtraArgs
  Worlds <- MCWorlds
  MaxLoads = 2
SPECIFICATION ConfigSpec
INVARIANTS ProfileAsWritten RetentionSelectsBackup CopyGoesOneWay OnlyKnownFlags
CHECK_DEADLOCK FALSE
