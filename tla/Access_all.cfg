SPECIFICATION Spec
CONSTANTS
  p1 = p1
  p2 = p2
  admin = admin
  r1 = r1
  root = root
  u1 = u1
  host = host
  t1 = t1
  q1 = q1
  q2 = q2
  q3 = q3
  Platform = Platform
  Absent = Absent
  Removed = Removed
  Permissions <- TwoPermissions
  Roles <- TwoRoles
  Users <- TwoUsers
  Tenants <- TwoTenants
  PlatformSeeds <- FirstPermission
  TenantSeeds <- NoPermission
  AdminRole = admin
  AdminUser = root
  Host = host
  Requests <- ThreeRequests
SYMMETRY RequestSymmetry
INVARIANTS TypeOK PlatformRightsFromPlatform RolesFitUsers
PROPERTIES SetsOnlyItsDifference
CHECK_DEADLOCK FALSE
