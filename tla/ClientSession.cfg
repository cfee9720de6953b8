SPECIFICATION ClientFairSpec
CONSTANTS
  s1 = s1
  s2 = s2
  s3 = s3
  Sessions = {s1, s2, s3}
  Uses <- MCUses
  HostKeys <- MCHostKeys
  Pins <- MCPins
  Wanted <- MCWanted
  Chains <- MCChains
  MaxSets = 3
  MaxConnects <- MCMaxConnects
INVARIANT KnownHostsInForce
PROPERTIES VerifiedIsKnown AuthEarned 
CHECK_DEADLOCK FALSE
