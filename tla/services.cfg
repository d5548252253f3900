SPECIFICATION ServicesSpec
CONSTANTS
  Senders = {c1, c2}
  Databases = {dbA, dbB}
  Payloads <- MCPayloads
  MaxSent = 3
  Uploads = {"u1", "u2"}
  Offered <- MCOffered
  Requirements = {{}, {"name", "property"}}
  Services = {s1, s2}
  Documents = {"sop"}
  Versions = {"1", "2"}
  Texts = {"a"}
  MaxCalls = 3
  Callers = {t1, t2}
  Keys = {"a", "b", "c"}
  Limit = 2
  Window = 2
  MaxKeys = 2
  MaxTime = 2
  Requests = {r1, r2}
  MaxRetries = 1
  MaxBundles = 2
  RoutedProjects = {"cip", "eq", "other"}
  Routable = {"q1", "q2", "q3", "q4"}
  Similarity <- MCSimilarity
  Mentioned <- MCMentioned
  Aliases <- MCAliases
  DefaultWords <- MCDefaults
  Rank <- MCRank
  Threshold = 800
  Margin = 400
SYMMETRY AnySender
INVARIANTS
  ServicesTypeOK
  CompletedHolds AttachedIsApproved
  LoadedAsApproved
  OneCurrentVersion IndexIsManifest
  WindowRespected
  RouteIsClearLead
  NoBundleLeaks AnsweredIsAudited
CHECK_DEADLOCK FALSE
