SPECIFICATION Spec
CONSTANTS
  Kinds = {"local"}
  Manners = {"hasty"}
  Calls = {"try_start", "try_run_until_stopped"}
  Listeners = {l1, l2}
  NoListener = NoListener
  Clients = {k1, k2}
  NoClient = NoClient
INVARIANT OneConnectionEver
