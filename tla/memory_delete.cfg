SPECIFICATION Spec
CONSTANTS
  o1 = o1
  o2 = o2
  u1 = u1
  u2 = u2
  u3 = u3
  n1 = n1
  n2 = n2
  n3 = n3
  t1 = t1
  t2 = t2
  None = None
  Threads = {t1}
  MaxRows = 3
  Calls <- DeleteCalls
PROPERTY DeletesTheOneNamed
