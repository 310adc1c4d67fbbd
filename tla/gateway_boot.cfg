SPECIFICATION Spec
CONSTANTS
  g1 = g1
  g2 = g2
  users_t = users_t
  memories_t = memories_t
  runs_t = runs_t
  kind = kind
  demo = demo
  ann = ann
  hashing = hashing
  remote = remote
  Servers = {g1, g2}
  Tables = {users_t, memories_t, runs_t}
  Added = {kind}
  TableOf <- OfTable
  Safe = {kind}
  Attempts = 2
  Emails = {demo, ann}
  TenantOf <- Workspace
  Settings = {"owner", "nobody"}
  DemoEmail = demo
  Texts <- Uploads
  Spaces = {hashing, remote}
  Unlabelled = none
  MaxDocs = 1
  MaxStops = 1
SYMMETRY Alike
INVARIANTS SchemaReady OwnersMayAct SpacesNeverMix TextIsIndexed
CHECK_DEADLOCK FALSE
