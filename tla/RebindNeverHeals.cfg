\* The address of relays changes once, and nothing fails.
SPECIFICATION FairSpec
CONSTANTS
  any = any lo = lo gw = gw
  Relays = {r1, r2}
  Hosts = {any, lo, gw}
  Wildcard = any
  Loopback = lo
  Tokens = {t1, t2, t3}
  Nobody = Nobody
  MayFail = {"rebind"}
  MaxFaults = 1
  r1 = r1 r2 = r2 r3 = r3 t1 = t1 t2 = t2 t3 = t3 t4 = t4
PROPERTY RebindHeals
CHECK_DEADLOCK FALSE
