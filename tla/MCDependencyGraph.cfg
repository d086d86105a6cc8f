CONSTANTS
  Names = {1, 2, 3}
  Kinds = {"requires", "wants", "before"}
  Graphs <- MCGraphs
SPECIFICATION FairSpec
INVARIANTS PlannerInv AnswerIsRight
PROPERTIES PlanningEnds
