SPECIFICATION ProxySpec
CONSTANTS
  Key = {k1, k2, k3}
  k3 = k3
  Client = {c1}
  Instance = {i1, i2, i3, local}
  Owner = {u1, u2}
  Local = local
  KeyOf <- MCKeyOf
  OwnerOf <- MCOwnerOf
  Caller = {t1}
  Routers = {"sync", "static"}
  MaxAdds = 1
  MaxChanges = 3
  NotifySize = 1
  Faults = {"dial", "close"}
  None = None
  Nil = Nil
  i3 = i3
  k1 = k1
  k2 = k2
  u1 = u1
  u2 = u2
INVARIANT ProxyTypeOK
INVARIANT BoundToOwnCluster
INVARIANT SessionsFollowClients
 
 
 
 
CHECK_DEADLOCK FALSE
