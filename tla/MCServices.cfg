CONSTANTS
  None = None
  g1 = g1
  Generations = {g1}
  Relays = {r1, r2}
  MaxEvents = 3
  BatchLimit = 2
  Invalid <- FirstInvalid
  Conditions = {d1, d2}
  MaxTurns = 2
  MaxTasks = 2
  MaxArtifacts = 2
  Accesses = {o1, o2}
  MaxPolicyChanges = 2
  Items = {i1}
  Candidates = {k1}
  Callers = {x1}
  Messages = {m1}
  Names = {n1}
  Texts = {t1, t2}
  MaxVersion = 3
  Requests = {q1, q2, q3}
  Conversations = {c1, c2}
  Keys = {k1, k2}
  Bodies = {b1}
  UserLimit = 1
  MaxAnswers = 2
  Clients = {x1, x2}
  MaxChanges = 2
  MaxLinks = 2
  Sessions = {x1, x2, x3}
  Tables = {t1, t2}
  Datasource = d
  Columns = {c1, c2}
  MaxRows = 2
  Room = 4
  MaxSize = 3
  Budgets = {5, 8, 10}
  MaxMessages = 5
  Limit = 4
  MaxColumns = 2
  Users = {u1, u2}
  Local = local
  Shared = shared
  Uploads = {t1}
  Preset = preset
  Connections = {k1, k2, k3}
  Agent = {k1, k2}
  Queries = {s1, s2}
  MaxCalls = 4
  Migrations = {m1}
  Askers = {q1, q2}
SPECIFICATION AllSpec
INVARIANTS
  StreamInOrder
  NothingLost
  EvidenceIsSound
  MemoryIsKept
  AnswersInOrder
  OldSecretsAreDead
  TablesCatalogued
  
  RequestIsWhole
  ShownWithinPolicy
  PoolIsClean
  MigrationIsSafe
CHECK_DEADLOCK FALSE
