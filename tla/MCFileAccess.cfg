SPECIFICATION FilesSpec
CONSTANTS
  User = {u1}
  r1 = r1
  r2 = r2
  p1 = p1
  p2 = p2
  g1 = g1
  g2 = g2
  user = user
  myFiles = myFiles
  read = read
  Role = {r1, r2}
  Permission = {p1, p2}
  Grant = {g1, g2}
  Name = {user, myFiles}
  Action = {read, create}
  Caller = {c1, c2}
  File = {f1}
  DefaultName = user
  MyFiles = myFiles
  Create = create
  SeedRoles <- MCSeedRoles
  SeedPermissions <- MCSeedPermissions
  SeedGrants <- MCSeedGrants
  MaxRequests = 4
  None = None
SYMMETRY FileAccessSymmetry
CHECK_DEADLOCK FALSE
INVARIANTS
  GrantsStayInCatalogue
  LoneReplaceIsExact
  ListedFileIsStored
PROPERTIES
  DecisionsAreExact
