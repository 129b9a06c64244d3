CONSTANTS
  AlarmIds <- MCAlarmIds
  MaxLookups = 2
  MaxReplies = 2
SPECIFICATION NtpSpec
INVARIANT AlarmOwned
INVARIANT RequestGuarded
PROPERTY AsksForever
