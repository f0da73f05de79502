SPECIFICATION FairSpec
CONSTANTS
  start = start
  post = post
  put = put
  search = search
  None = None
  Threads = {start, post, put, search}
  Wants <- Requests
CHECK_DEADLOCK FALSE
INVARIANTS
  OneOfEach
PROPERTIES
  EveryGetterReturns
