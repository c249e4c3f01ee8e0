CONSTANTS
  NumTerminals = 2
  Calls = {"RTC_read", "RTC_write", "terminal_read", "terminal_write", "execute", "getargs", "other"}
  Exponents = {1}
SPECIFICATION Spec
INVARIANT OwnResult
CHECK_DEADLOCK FALSE
