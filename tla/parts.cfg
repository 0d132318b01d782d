SPECIFICATION PartsSpec
CONSTANTS
  Subjects = {"pool", "index", "graph", "bakeoff", "cache", "remote", "symbols", "comments", "chunks", "answers", "hybrid", "memory", "commands", "graph search", "smoke", "plan"}
  Matrices <- DistinctKeys
INVARIANTS PoolServes IndexedIsFound EmbedderServes CodeIsRead GraphIgnoresOrder ChunksAreComplete AnswersAgree CommandsAnswer BakeoffIsFair
CHECK_DEADLOCK FALSE
