SPECIFICATION MCSpec
CONSTANTS
  a = a
  b = b
  p = p
  Peers = {p, q}
  Accounts = {a}
  Names = {a, p}
  Anonymous = Nobody
  Slots = {1, 2}
  MaxCalls = 1
  MaxPackets = 2
  MaxSessions = 2
  Senders = {a, p}
  MaxActive = 2
  MaxShown = 4
  MaxQueued = 1
  Conversations = {a, b}
  MessagesOf <- MCMessagesOf
  Joined <- MCJoined
  Closed = Nobody
  FirstPage = 1
  Page = 1
  Window = 2
  MaxOpens = 2
  Profiles = {p, q}
  Users = {u}
  Values = {v}
  Empty = Nobody
  SessionKinds = {}
  DisplayKinds = {"displayName"}
  ListKinds = {"friends"}
  AudioMessages = {a, b}
  NoMessage = Nobody
  MaxBuffers = 2
INVARIANTS PartTypeOK FriendsSeeCurrentStatus IdleIsWatched CacheIsStored NoAnsweredRequest UnreadBounded RowsInOrder MarksAgree RecordingIsWhole PlaysWhatIsShown
PROPERTY ReadsWhatWasWritten
CHECK_DEADLOCK FALSE
