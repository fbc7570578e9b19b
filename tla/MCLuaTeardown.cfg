CONSTANTS
  LuaBrowsers = {x1, x2}
  MaxUserdata = 3
  MaxSubs = 1
SPECIFICATION LuaSpec
INVARIANT SubscriptionsAreRemovable
CHECK_DEADLOCK FALSE
