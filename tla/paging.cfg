CONSTANTS
  PagesInTable = 4
  PoolStart = 4
  PoolEnd = 12
  UserStart = 12
  UserEnd = 16
  StackPages = {1, 2}
  Values = {1, 2}
  MaxClones = 2
SPECIFICATION Spec
INVARIANTS TypeOK KernelMapped UserPagesPrivate FoldersInPool PoolsSuffice
PROPERTIES ImplementsAddressSpace
