SPECIFICATION FairSpec
CONSTANTS
  client = client
  core = core
  panicker = panicker
  app = app
  none = none
  nofd = nofd
  f1 = f1
  f2 = f2
  Fds = {f1, f2}
  NoFd <- nofd
  Client <- client
  LogThread <- core
  Panicker <- panicker
  App <- app
  Senders = {core, panicker, app}
  NoOne <- none
  MaxAddrs = 2
  MaxQueue = 2
  MaxLogged = 3
  Messages <- MCMessages
INVARIANTS
  OwnSocket
  PacketOwned
  TextIntact
  GapsAreLosses
PROPERTIES
  LockGranted
