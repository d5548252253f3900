SPECIFICATION Spec
CONSTANTS
  Projects = {cip, other}
  DefaultProject = cip
  Clients = {c1, c2}
  Columns = {source_version}
  Versions = {v0, v1}
  DefaultVersion = v0
  MaxHistory = 3
INVARIANT ActiveNotArchived
