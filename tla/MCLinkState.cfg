SPECIFICATION Spec
CONSTANTS
  Plans <- MCPlans
INVARIANTS ViewsSettle RowsFollowViews ServiceAgrees
CHECK_DEADLOCK FALSE
