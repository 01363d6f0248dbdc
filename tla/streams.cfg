SPECIFICATION Spec
CONSTANTS
  Std = {9}
  Dyn = {1, 2}
  Fds = {1, 2, 3}
  Outcomes = {TRUE, FALSE}
  NewBuffers = {"heap", "user"}
  Reopened = FALSE
VIEW Relevant
INVARIANTS ListSound NothingLeaks FlushedInOrder
CHECK_DEADLOCK FALSE
