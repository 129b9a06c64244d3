CONSTANTS
  Replies <- MCReplies
  MaxReplies = 3
SPECIFICATION DashboardSpec
INVARIANT ShowsOneReply
PROPERTY ShowsLatest
CHECK_DEADLOCK FALSE
