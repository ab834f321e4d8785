SPECIFICATION Spec
CONSTANTS
  Files = {a, b, c}
  Root = a
  RoleIds = {reviewer}
  ProfileIds = {p, q}
  None = None
  NoValue = NoValue
  Sentinel = Sentinel
  key = key
  note = note
  hunter2 = hunter2
  plain = plain
  token = token
  Documents <- MCDocuments
  Profiles <- MCProfiles
  FewProfiles <- MCFewProfiles
  Registrations <- MCRegistrations
  FewRegistrations <- MCFewRegistrations
  FewFragments = {"good"}
  EnvironmentNames = {token}
  EnvironmentValues = {v1}
  MaxCalls = 2
  MaxChanges = 1
SYMMETRY FileSymmetry
INVARIANTS
  LoadedIsATree
  BindingIsExact
  ValidatedRolesBind
  SecretsStayPrivate
  RunGetsItsSecrets
CHECK_DEADLOCK FALSE
