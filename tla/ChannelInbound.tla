---------------------------- MODULE ChannelInbound ----------------------------
(***************************************************************************)
(* A chat channel's way in and back (channels/telegram, slack, discord,    *)
(* whatsapp): an event from the vendor's library passes the filters, waits *)
(* for one of the slots that bound the handlers, and is handed to the      *)
(* bridge, which waits for a slot of its own for the turn before it        *)
(* returns the first one.  The turn talks through a reply function that    *)
(* posts to the chat or holds the text back.                               *)
(*                                                                         *)
(* The turn is AgentLoop's, here the pieces of text it says and how it     *)
(* ends; a post is ReliableSender's or the library's, here done or         *)
(* refused.  The timers of StreamingBuffer post at any time, and the goal  *)
(* of a command /auto speaks after its turn is over.                       *)
(***************************************************************************)
EXTENDS Integers, FiniteSets

CONSTANTS
  Inbox,       \* events of the vendor's library
  Slots,       \* capacity of sem, 50 in the code
  SlackLimit,  \* pieces of text that exceed the 500 bytes Slack holds back
  MaxText      \* bound: pieces of text of a turn

ASSUME ChannelAssumption ==
  /\ Slots \in Nat \ {0} /\ SlackLimit \in Nat \ {0} /\ MaxText \in Nat

VARIABLES
  channel,   \* which channel it is
  dmMode,    \* "open", "allowlist" or "disabled"
  inbound,   \* per event where it is
  outer,     \* events whose first goroutine holds a slot
  held,      \* per event the pieces of text held back
  stopped,   \* Stop was called
  said,      \* history: pieces of text the turn handed to the reply function
  posted,    \* history: pieces of text in the chat
  refused,   \* history: events with a refused post
  open,      \* history: events whose turn ended without the empty chunk of OnDone
  told       \* history: those of them whose goal told its result

channelVars ==
  <<channel, dmMode, inbound, outer, held, stopped, said, posted, refused, open, told>>

Channels == {"telegram", "slack", "discord", "whatsapp"}

ChannelInit ==
  /\ channel \in Channels
  /\ dmMode \in {"open", "allowlist", "disabled"}
  /\ inbound = [m \in Inbox |-> "new"]
  /\ outer = {}
  /\ held = [m \in Inbox |-> 0] /\ said = held /\ posted = held
  /\ stopped = FALSE
  /\ refused = {} /\ open = {} /\ told = {}

-----------------------------------------------------------------------------
(* Filters.  An event is from somebody on the list or not, a press of a button *)
(* or a message, and for the bot (a direct message, a mention, a reply to it)  *)
(* or not.  Whether groups require a mention is open.                          *)

Listed(known) == dmMode = "open" \/ (dmMode = "allowlist" /\ known)

\* A message must have a text, and call the bot where a mention is required; a button
\* is not asked for it.
TelegramMessage(forBot, required) == forBot \/ ~required

TelegramCallback(known) == Listed(known)

\* Messages of bots are left out, and buttons other than those under a mail.
SlackAccepts(known, own) == ~own /\ Listed(known)

\* !join and !leave are commands of the channel itself.
DiscordMessage(known, own, forBot, required, command) ==
  ~own /\ (forBot \/ ~required) /\ Listed(known) /\ ~command

\* Only the buttons that approve or reject, and only when the press can be acknowledged.
DiscordButton(known, acknowledged) == Listed(known) /\ acknowledged

\* Media that cannot be read leave a message without parts.
WhatsAppAccepts(known, own, parts) == ~own /\ Listed(known) /\ parts

\* Telegram and Slack have one loop, which takes nothing while it waits for a slot; the
\* library of Discord calls a goroutine per event, that of WhatsApp a handler.
LoopFree ==
  channel \in {"telegram", "slack"} => \A m \in Inbox : inbound[m] # "accepted"

\* The event that passes waits for a slot; WhatsApp has none and starts its turn.
ReceiveEvent(m) ==
  /\ inbound[m] = "new" /\ ~stopped /\ LoopFree
  /\ \E known, own, forBot, required, ok \in BOOLEAN :
       LET accepted ==
             CASE channel = "telegram" -> /\ TelegramCallback(known)
                                          /\ ok \/ TelegramMessage(forBot, required)
               [] channel = "slack" -> SlackAccepts(known, own)
               [] channel = "discord" -> \/ DiscordMessage(known, own, forBot, required, ~ok)
                                         \/ DiscordButton(known, ok)
               [] OTHER -> WhatsAppAccepts(known, own, ok)
       IN inbound' = [inbound EXCEPT ![m] = IF ~accepted THEN "ignored"
                                            ELSE IF channel = "whatsapp" THEN "running"
                                            ELSE "accepted"]
  /\ UNCHANGED <<channel, dmMode, outer, held, stopped, said, posted, refused, open, told>>

-----------------------------------------------------------------------------
Running == {m \in Inbox : inbound[m] = "running"}

\* Slots in use: a first goroutine's, and a turn's.
Used == Cardinality(outer) + (IF channel = "whatsapp" THEN 0 ELSE Cardinality(Running))

TakeSlot(m) ==
  /\ inbound[m] = "accepted" /\ Used < Slots
  /\ inbound' = [inbound EXCEPT ![m] = "bridged"]
  /\ outer' = outer \cup {m}
  /\ UNCHANGED <<channel, dmMode, held, stopped, said, posted, refused, open, told>>

\* The bridge (the typing notice, the reply function) needs a second slot for the turn.
TakeSecondSlot(m) ==
  /\ inbound[m] = "bridged" /\ Used < Slots
  /\ inbound' = [inbound EXCEPT ![m] = "running"]
  /\ UNCHANGED <<channel, dmMode, outer, held, stopped, said, posted, refused, open, told>>

BridgeReturns(m) ==
  /\ m \in outer /\ inbound[m] # "bridged"
  /\ outer' = outer \ {m}
  /\ UNCHANGED <<channel, dmMode, inbound, held, stopped, said, posted, refused, open, told>>

-----------------------------------------------------------------------------
(* The reply function, and the ends of a turn.                             *)

\* Text n held back is posted.  A refused text stays with Slack, which posts it in one
\* piece; the buffer of the others has dropped it, and the pieces it was cut into may have
\* been posted in part.
Post(m, n) ==
  \/ /\ held' = [held EXCEPT ![m] = 0]
     /\ posted' = [posted EXCEPT ![m] = @ + n]
     /\ UNCHANGED refused
  \/ /\ n > 0 /\ refused' = refused \cup {m}
     /\ \/ channel = "slack" /\ held' = [held EXCEPT ![m] = n] /\ UNCHANGED posted
        \/ /\ channel # "slack" /\ held' = [held EXCEPT ![m] = 0]
           /\ \E k \in 0..(n - 1) : posted' = [posted EXCEPT ![m] = @ + k]

HoldBack(m, n) ==
  held' = [held EXCEPT ![m] = n] /\ UNCHANGED <<posted, refused>>

\* Slack posts when the text is long or the chunk empty.
SlackReply(m, n, empty) ==
  IF n > 0 /\ (empty \/ n >= SlackLimit) THEN Post(m, n) ELSE HoldBack(m, n)

\* The others give the chunk to a StreamingBuffer, which may post at any sentence.
BufferedReply(m, n) == Post(m, n) \/ HoldBack(m, n)

ReplyText(m, n, empty) ==
  IF channel = "slack" THEN SlackReply(m, n, empty) ELSE BufferedReply(m, n)

\* OnToken, or the text of a command, of an approval, of an error, of the bootstrap.
Say(m) ==
  /\ inbound[m] = "running" /\ said[m] < MaxText
  /\ said' = [said EXCEPT ![m] = @ + 1]
  /\ ReplyText(m, held[m] + 1, FALSE)
  /\ UNCHANGED <<channel, dmMode, inbound, outer, stopped, open, told>>

\* Done has no hand in it: the timer outlives the turn.
BufferTimer(m) ==
  /\ channel # "slack" /\ held[m] > 0
  /\ Post(m, held[m])
  /\ UNCHANGED <<channel, dmMode, inbound, outer, stopped, said, open, told>>

\* Done posts what the buffer still holds; Slack has no such end.
PostRest(m) ==
  IF channel = "slack" THEN UNCHANGED <<held, posted, refused>> ELSE Post(m, held[m])

\* OnDone's empty chunk: the StreamingBuffers of Telegram and Discord do not get it.
OnDone(m) ==
  /\ inbound[m] = "running"
  /\ inbound' = [inbound EXCEPT ![m] = "done"]
  /\ IF channel = "slack" THEN SlackReply(m, held[m], TRUE) ELSE PostRest(m)
  /\ UNCHANGED <<channel, dmMode, outer, stopped, said, open, told>>

\* A command, an approval of a mail, the identity bootstrap and OnError say their text
\* and send no empty chunk.
EndWithout(m) ==
  /\ inbound[m] = "running"
  /\ inbound' = [inbound EXCEPT ![m] = "done"]
  /\ open' = open \cup {m}
  /\ PostRest(m)
  /\ UNCHANGED <<channel, dmMode, outer, stopped, said, told>>

\* /auto: the command's turn is over, its goal runs on and tells its result, through
\* Slack's function like any chunk that is not empty.
TellResult(m) ==
  /\ m \in open \ told /\ said[m] < MaxText
  /\ told' = told \cup {m}
  /\ said' = [said EXCEPT ![m] = @ + 1]
  /\ ReplyText(m, held[m] + 1, FALSE)
  /\ UNCHANGED <<channel, dmMode, inbound, outer, stopped, open>>

\* The loop ends, or the session is closed; a loop that waits for a slot does not hear it.
Stop ==
  /\ ~stopped /\ stopped' = TRUE
  /\ UNCHANGED <<channel, dmMode, inbound, outer, held, said, posted, refused, open, told>>

ChannelNext ==
  \/ Stop
  \/ \E m \in Inbox : \/ ReceiveEvent(m) \/ TakeSlot(m) \/ TakeSecondSlot(m) \/ BridgeReturns(m)
                      \/ Say(m) \/ BufferTimer(m) \/ OnDone(m) \/ EndWithout(m)
                      \/ TellResult(m)

\* A turn ends, a goroutine goes on, and a slot that is free goes to one of those that
\* wait: with finitely many events each gets one, whoever is first.  A buffer with text in
\* it has a timer.
ChannelFairness ==
  /\ \A m \in Inbox : WF_channelVars(OnDone(m) \/ EndWithout(m)) /\ WF_channelVars(BridgeReturns(m))
                     /\ WF_channelVars(BufferTimer(m))
  /\ WF_channelVars(\E m \in Inbox : TakeSlot(m) \/ TakeSecondSlot(m))

-----------------------------------------------------------------------------
ChannelTypeOK ==
  /\ channel \in Channels /\ dmMode \in {"open", "allowlist", "disabled"}
  /\ inbound \in [Inbox -> {"new", "ignored", "accepted", "bridged", "running", "done"}]
  /\ outer \subseteq Inbox /\ Used <= (IF channel = "whatsapp" THEN 0 ELSE Slots)
  /\ {held, said, posted} \subseteq [Inbox -> 0..MaxText]
  /\ stopped \in BOOLEAN /\ refused \subseteq Inbox
  /\ open \subseteq Inbox /\ told \subseteq open

\* Every slot is held by a bridge that waits for its second one.
Clogged == Cardinality({m \in outer : inbound[m] = "bridged"}) = Slots

\* All of the turn's text is in the chat but what a post refused, and what Slack still
\* holds when nobody sent the empty chunk: the text of a command, and a goal's result.
Answered(m) ==
  /\ inbound[m] = "done"
  /\ posted[m] = said[m] \/ m \in refused \/ (channel = "slack" /\ m \in open)

\* Every event that passed the filters is answered in full, unless as many others came at
\* once as there are slots: then no turn of the channel ever starts again.
EventsAnswered == Clogged \/ \A m \in Inbox : inbound[m] \in {"new", "ignored"} \/ Answered(m)
=============================================================================
