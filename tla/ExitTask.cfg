CONSTANTS
  N = 4
  Value = {v1, v2}
  Zero = v1
  Me = v2
SPECIFICATION SpecQueue
INVARIANT ExitFindsItself
