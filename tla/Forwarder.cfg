SPECIFICATION FairSpec
CONSTANTS
  Kinds = {"local", "remote"}
  Manners = {"patient", "restarting", "hasty"}
  Calls = {"try_start", "try_run_until_stopped"}
  Listeners = {l1, l2}
  NoListener = NoListener
  Clients = {k1, k2}
  NoClient = NoClient
INVARIANTS ListenerValid OneConnection NothingLeft
PROPERTY StopEnds
