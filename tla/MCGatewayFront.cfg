SPECIFICATION FairSpec
CONSTANTS
  c1 = c1  c2 = c2  c3 = c3
  Clients = {c1, c2, c3}
  Fleets <- SmallFleets
  Starts <- EndsOfMonth
  Day = 8
  MAX_CLOCK_SKEW = 1
  access_key = "AKID"
  secret_key = "secret"
  Skews <- SmallSkews
  ttl = 2
  MaxTransit = 1
  MaxWall = 2
  MaxHangups = 1
PROPERTIES AuthExact OneProbe ReadyFresh PollersSeeReady
CHECK_DEADLOCK FALSE
