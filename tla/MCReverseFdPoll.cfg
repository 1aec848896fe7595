SPECIFICATION Spec
CONSTANTS
  Threads = {t1, t2}
  Pseudos = {p1, p2}
  None = None
  Failures <- NoFailures
  MaxQueue = 3
INVARIANT PollersAreTold
SYMMETRY MCSymmetry
