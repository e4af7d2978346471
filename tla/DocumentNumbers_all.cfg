SPECIFICATION NumberSpec
CONSTANTS
  t1 = t1
  t2 = t2
  q1 = q1
  q2 = q2
  q3 = q3
  q4 = q4
  Tenants <- TwoTenants
  Creates <- FourRequests
  Series = {"SO", "SALES", "PAY"}
  Overlapping = {"SO"}
SYMMETRY Symmetry
INVARIANT NumberTypeOK
PROPERTIES FreshWhenCounted Incremented
CHECK_DEADLOCK FALSE
