\* Two relays and two failures of any kind.
SPECIFICATION FairSpec
CONSTANTS
  any = any lo = lo gw = gw
  Relays = {r1, r2}
  Hosts = {any, lo, gw}
  Wildcard = any
  Loopback = lo
  Tokens = {t1, t2, t3}
  Nobody = Nobody
  MayFail = {"write", "launch", "late", "slow", "die", "crash", "rebind", "foreign"}
  MaxFaults = 2
  r1 = r1 r2 = r2 r3 = r3 t1 = t1 t2 = t2 t3 = t3 t4 = t4
PROPERTIES EnsureHeals TokenAgrees KeptIsAsked
CHECK_DEADLOCK FALSE
INVARIANT TypeOK
