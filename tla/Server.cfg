SPECIFICATION ClosingClientSpec
CONSTANTS
  Channels = {c1, c2, c3}
  SftpChannels = {c1, c2}
  Poller = Poller
  NoThread = NoThread
INVARIANTS WorkerSafe OneReader NothingLeft
PROPERTIES StopCompletes WorkerGetsMutex
