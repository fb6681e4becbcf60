CONSTANTS
  reply1 = reply1
  reply2 = reply2
  chat = chat
  cli = cli
  repl = repl
  serve = serve
  None = None
  MaxDrafts = 3
  Programs = {serve}
  Mails = {reply1}
  Handlers = {chat}
  MaxFollowups = 1
SPECIFICATION FairSpec
PROPERTIES
  InboxDrains
  SilenceIsFollowedUp
CHECK_DEADLOCK FALSE
