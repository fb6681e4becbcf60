CONSTANTS
  reply1 = reply1
  reply2 = reply2
  chat = chat
  cli = cli
  repl = repl
  serve = serve
  None = None
  MaxDrafts = 3
  Programs = {repl, serve}
  Mails = {reply1}
  Handlers = {chat}
  MaxFollowups = 1
SPECIFICATION Spec
SYMMETRY Symmetry
INVARIANTS
  TypeOK
  OnePendingFollowup
  OneDraftPerMail
CHECK_DEADLOCK FALSE
