SPECIFICATION MCSpec
CONSTANTS
  p1 = p1
  p2 = p2
  ServerIds <- ServerNumbers
  MaxPages = 2
  MaxCalls = 3
  MaxChatter = 2
  Asks = {1, 2}
  Lists = {"none", "some"}
  Empty = "none"
  MaxAsides = 2
  MaxTable = 2
  MaxJobs = 3
  MaxStops = 1
  Task = {1, 2}
  Plans <- PlansGiven
  NoStep = "no step"
  MaxRounds = 1
  MaxGitFaults = 1
  Process <- Processes
  GoalStatus = {"active", "complete"}
  MAX_PROGRESS_ENTRIES = 1
  MaxGoals = 2
  MaxEntries = 2
  Builder <- Processes
  Path = {"a", "b"}
  Texts = {"code", "blank"}
  MaxEdits = 1
  MaxBuilds = 2
  Modes = {"auto", "read-only"}
  MaxTyped = 3
  MaxShots = 1
  MaxCommands = 2
  Runner <- Processes
  MaxRuns = 2
  Tracked = {"a", "b"}
  Contents = {1, 2}
  MaxWrites = 3
  MaxToolCalls = 2
  Sources = {"a", "b"}
  MaxAsked = 2
  MaxUser = 2
  MaxResponses = 3
  MaxDeltas = 1
  MaxTurns = 1
  Provider = {"a", "b"}
  Key = {1, 2}
  InEnvironment = {}
  MaxChanges = 3
  FileIds = {1, 2}
  MaxSecond = 1
  MaxLines = 4
  MaxTears = 1
SYMMETRY Symmetry
INVARIANTS AnswersMatched ProcessesAccounted NothingLost TerminalSound EditsSound
  ContextExact LaunchFinds
CHECK_DEADLOCK FALSE
