CONSTANTS
  job = job
  cli = cli
  NoRun = NoRun
  Old = Old
  Run = {job, cli}
  MaxAttempts = 2
SPECIFICATION DaySpec
INVARIANTS TypeOK FixedWhole TradesOwnRun OldPlanOnlyWithoutCandidates ReviewFindsTraded
PROPERTIES PipelineEnds
CHECK_DEADLOCK FALSE
