------------------------------ MODULE Conversation ------------------------------
(***************************************************************************)
(* One conversation: the chats that start and continue it                  *)
(* (src/agent/channels/catalog.ts, POST /catalog/chat; the market-open     *)
(* turn of src/connector/lib/market-open-turn.ts is one of them), the      *)
(* record that is its wake address (src/catalog/registry.ts,               *)
(* recordConversation), the turns that subscribe and arm                   *)
(* (src/agent/tools/subscribe_event.ts, turn.completed) and the wakes that *)
(* compare the session they reached with the record.  eve keeps the        *)
(* session of the continuation token; a reload orphans it, and the next    *)
(* send() starts another.  Sessions are numbered; 0 is no session.         *)
(***************************************************************************)
EXTENDS Naturals

CONSTANTS Chats,       \* chat requests in flight at once
          MaxTurns,    \* MAX_TURNS_PER_DAY
          MaxReloads, MaxChatFaults, MaxQueue \* bounds

ConversationAssumption ==
  /\ MaxTurns \in Nat \ {0} /\ MaxQueue \in Nat \ {0}
  /\ MaxReloads \in Nat /\ MaxChatFaults \in Nat

Sessions == 1..(MaxReloads + 1)
Status == {"none", "pending", "armed", "delivering", "fired"}

VARIABLES
  atOnce,         \* whether chat requests overlap
  anytime,        \* whether eve also reloads while a subscription is under way
  liveSession, latest,  \* the session of the continuation token; the last one created
  conv,           \* the session of the conversation's record
  index,          \* the sessions whose reverse-index entry exists
  chat,           \* each request's place in the handler
  queue,          \* the turns a session has still to take
  convSub,        \* the subscription
  wake,           \* the wake route: idle, or the session it expects
  woken,          \* how often the subscription's wake has been sent
  turns, opened,  \* the day's counter; whether market-open-turn has been called
  reloads, chatFaults

eve == <<liveSession, latest, queue>>
address == <<conv, index>>
delivery == <<convSub, wake, woken>>
daily == <<turns, opened>>
bounds == <<reloads, chatFaults>>
manners == <<atOnce, anytime>>
convVars == <<manners, eve, address, chat, delivery, daily, bounds>>

NoRequest == [at |-> "idle", session |-> 0, existing |-> 0]
NoWake == [at |-> "idle", expected |-> 0]

ConversationTypeOK ==
  /\ atOnce \in BOOLEAN /\ anytime \in BOOLEAN
  /\ liveSession \in Sessions \cup {0} /\ latest \in Sessions \cup {0}
  /\ conv \in Sessions \cup {0} /\ index \subseteq Sessions
  /\ chat \in [Chats -> [at: {"idle", "send", "get", "del", "conv", "index"},
                         session: Sessions \cup {0}, existing: Sessions \cup {0}]]
  /\ queue \in [Sessions -> Nat]
  /\ convSub \in Status
  /\ wake \in [at: {"idle", "send", "sent"}, expected: Sessions \cup {0}]
  /\ woken \in 0..2 /\ turns \in 0..MaxTurns /\ opened \in BOOLEAN
  /\ reloads \in 0..MaxReloads /\ chatFaults \in 0..MaxChatFaults

ConversationInit ==
  /\ atOnce \in BOOLEAN /\ anytime \in BOOLEAN
  /\ liveSession = 0 /\ latest = 0 /\ queue = [s \in Sessions |-> 0]
  /\ conv = 0 /\ index = {} /\ chat = [c \in Chats |-> NoRequest]
  /\ convSub = "none" /\ wake = NoWake /\ woken = 0
  /\ turns = 0 /\ opened = FALSE /\ reloads = 0 /\ chatFaults = 0

-----------------------------------------------------------------------------
(* send(): to the token's session, or to a new one. *)
TokenSession == IF liveSession = 0 THEN latest + 1 ELSE liveSession

Sends ==
  /\ liveSession' = TokenSession
  /\ latest' = (IF liveSession = 0 THEN latest + 1 ELSE latest)
  /\ queue' = [queue EXCEPT ![TokenSession] = @ + 1]

HasRoom == \A s \in Sessions : queue[s] < MaxQueue

WithinCap == turns < MaxTurns

Counts == WithinCap /\ turns' = turns + 1

-----------------------------------------------------------------------------
(* POST /catalog/chat *)

Quiet == \A c \in Chats : chat[c].at = "idle"

Starts(c) ==
  /\ chat[c].at = "idle" /\ (atOnce \/ Quiet) /\ HasRoom /\ Counts
  /\ chat' = [chat EXCEPT ![c].at = "send"]

Chat(c) == Starts(c) /\ UNCHANGED <<manners, eve, address, delivery, opened, bounds>>

(* The cron calls at 13:30 UTC.  By then a delivery that is retried every
   15 seconds has gone through some 3000 rounds, more than the cap allows. *)
AtMarketOpen == ~ opened /\ (convSub = "delivering" => ~ WithinCap)

MarketOpen(c) ==
  /\ AtMarketOpen /\ Starts(c)
  /\ opened' = TRUE
  /\ UNCHANGED <<manners, eve, address, delivery, bounds>>

(* 429: the turn of the day is lost. *)
MarketOpenRefused ==
  /\ AtMarketOpen /\ ~ WithinCap
  /\ opened' = TRUE
  /\ UNCHANGED <<manners, eve, address, chat, delivery, turns, bounds>>

SendChat(c) ==
  /\ chat[c].at = "send" /\ Sends
  /\ chat' = [chat EXCEPT ![c] = [at |-> "get", session |-> TokenSession, existing |-> 0]]
  /\ UNCHANGED <<manners, address, delivery, daily, bounds>>

-----------------------------------------------------------------------------
(* recordConversation *)

(* Mutant: the old session's entry is deleted last. *)
Writes_DropLast == [get |-> "conv", conv |-> "index", index |-> "del", del |-> "idle"]

(* What follows each command. *)
Writes == [get |-> "del", del |-> "conv", conv |-> "index", index |-> "idle"]

(* Mutant: the old session's entry is kept. *)
Needed_NoDrop(step, session, existing) == step # "del"

Needed(step, session, existing) == step = "del" => existing \notin {0, session}

(* Where a request is after one of its commands. *)
After(step, session, existing) ==
  LET next == IF Needed(Writes[step], session, existing) THEN Writes[step]
                                                         ELSE Writes[Writes[step]]
  IN IF next = "idle" THEN NoRequest ELSE [at |-> next, session |-> session, existing |-> existing]

GetExisting(c) ==
  /\ chat[c].at = "get"
  /\ chat' = [chat EXCEPT ![c] = After("get", chat[c].session, conv)]
  /\ UNCHANGED <<manners, eve, address, delivery, daily, bounds>>

(* Mutant: a record that exists keeps its session. *)
RecordedSession_First(c) == IF chat[c].existing # 0 THEN chat[c].existing ELSE chat[c].session

RecordedSession(c) == chat[c].session

DoesWrite(c, step) ==
  /\ chat[c].at = step
  /\ chat' = [chat EXCEPT ![c] = After(step, chat[c].session, chat[c].existing)]
  /\ conv' = IF step = "conv" THEN RecordedSession(c) ELSE conv
  /\ index' = CASE step = "del" -> index \ {chat[c].existing}
                [] step = "index" -> index \cup {chat[c].session}
                [] OTHER -> index
  /\ UNCHANGED <<manners, eve, delivery, daily, bounds>>

(* send() or a Redis command throws, or the process ends. *)
ChatFails(c) ==
  /\ chat[c].at # "idle" /\ chatFaults < MaxChatFaults
  /\ chatFaults' = chatFaults + 1 /\ chat' = [chat EXCEPT ![c] = NoRequest]
  /\ UNCHANGED <<manners, eve, address, delivery, daily, reloads>>

-----------------------------------------------------------------------------
(* The turns of a session *)

(* The tool finds the conversation by the session it runs in. *)
Subscribe(s) ==
  /\ queue[s] > 0 /\ convSub \in {"none", "fired"} /\ wake = NoWake
  /\ s \in index /\ conv # 0
  /\ convSub' = "pending" /\ woken' = 0
  /\ UNCHANGED <<manners, eve, address, chat, wake, daily, bounds>>

(* turn.completed: armPendingForConversation. *)
TurnCompletes(s) ==
  /\ queue[s] > 0
  /\ queue' = [queue EXCEPT ![s] = @ - 1]
  /\ convSub' = IF convSub = "pending" THEN "armed" ELSE convSub
  /\ UNCHANGED <<manners, liveSession, latest, address, chat, wake, woken, daily, bounds>>

TurnFails(s) ==
  /\ queue[s] > 0 /\ chatFaults < MaxChatFaults
  /\ queue' = [queue EXCEPT ![s] = @ - 1] /\ chatFaults' = chatFaults + 1
  /\ UNCHANGED <<manners, liveSession, latest, address, chat, delivery, daily, reloads>>

-----------------------------------------------------------------------------
(* Deliveries, one at a time; the recovery sweep repeats them. *)

Fires ==
  /\ convSub = "armed" /\ convSub' = "delivering"
  /\ UNCHANGED <<manners, eve, address, chat, wake, woken, daily, bounds>>

(* POST /catalog/wake up to the claim; a 429 is retried. *)
Wake ==
  /\ convSub = "delivering" /\ wake.at = "idle" /\ conv # 0 /\ HasRoom /\ Counts
  /\ wake' = [at |-> "send", expected |-> conv]
  /\ UNCHANGED <<manners, eve, address, chat, convSub, woken, opened, bounds>>

(* Another session than the record's: 500, and the claim is cleared. *)
SendWake ==
  /\ wake.at = "send" /\ Sends
  /\ woken' = IF woken < 2 THEN woken + 1 ELSE woken
  /\ wake' = IF TokenSession = wake.expected THEN [wake EXCEPT !.at = "sent"] ELSE NoWake
  /\ UNCHANGED <<manners, address, chat, convSub, daily, bounds>>

WakeFails ==
  /\ wake.at = "send" /\ chatFaults < MaxChatFaults
  /\ chatFaults' = chatFaults + 1 /\ wake' = NoWake
  /\ UNCHANGED <<manners, eve, address, chat, convSub, woken, daily, reloads>>

SettleWake ==
  /\ wake.at = "sent"
  /\ convSub' = "fired" /\ wake' = NoWake
  /\ UNCHANGED <<manners, eve, address, chat, woken, daily, bounds>>

-----------------------------------------------------------------------------
(* A reload of the eve process orphans the session and its turns. *)
Reload ==
  /\ reloads < MaxReloads /\ liveSession # 0
  /\ anytime \/ convSub \in {"none", "fired"}
  /\ reloads' = reloads + 1 /\ liveSession' = 0
  /\ queue' = [s \in Sessions |-> 0]
  /\ UNCHANGED <<manners, latest, address, chat, delivery, daily, chatFaults>>

(* The days are market weekdays: the others have no turn of their own. *)
DayEnds ==
  /\ opened /\ turns' = 0 /\ opened' = FALSE
  /\ UNCHANGED <<manners, eve, address, chat, delivery, bounds>>

ConversationNext ==
  \/ \E c \in Chats :
       \/ Chat(c) \/ MarketOpen(c) \/ SendChat(c) \/ GetExisting(c) \/ ChatFails(c)
       \/ \E step \in {"del", "conv", "index"} : DoesWrite(c, step)
  \/ \E s \in Sessions : Subscribe(s) \/ TurnCompletes(s) \/ TurnFails(s)
  \/ MarketOpenRefused \/ Fires \/ Wake \/ SendWake \/ WakeFails \/ SettleWake
  \/ Reload \/ DayEnds

ConversationSpec == ConversationInit /\ [][ConversationNext]_convVars

(* The processes make progress, days pass, the sweep repeats a delivery, and
   the market-open turn is not kept from its place under the cap for ever by
   chats alone. *)
ConversationFairness ==
  /\ \A c \in Chats :
       /\ SF_convVars(MarketOpen(c)) /\ WF_convVars(SendChat(c)) /\ WF_convVars(GetExisting(c))
       /\ \A step \in {"del", "conv", "index"} : WF_convVars(DoesWrite(c, step))
  /\ \A s \in Sessions : WF_convVars(TurnCompletes(s))
  /\ WF_convVars(Fires) /\ SF_convVars(Wake) /\ WF_convVars(SendWake) /\ WF_convVars(SettleWake)
  /\ WF_convVars(MarketOpenRefused) /\ WF_convVars(DayEnds)

ConversationFairSpec == ConversationSpec /\ ConversationFairness

-----------------------------------------------------------------------------
(* Properties *)

NothingFailed == chatFaults = 0

(* Whatever two chats do at once, the session of the record finds its
   conversation (src/catalog/registry.ts:266-281). *)
RecordIsIndexed == NothingFailed /\ Quiet /\ conv # 0 => conv \in index

(* With one chat at a time no other session does
   (src/catalog/registry.ts:267-270). *)
OnlyTheRecordIsIndexed == NothingFailed /\ ~ atOnce /\ Quiet => index = {conv} \ {0}

(* With one chat at a time and the session kept from the subscription on, the
   agent is woken once for it (src/catalog/wake.ts:80-85). *)
WokenOnce == NothingFailed /\ ~ atOnce /\ ~ anytime => woken <= 1

(* The record comes to name the session that chats and wakes reach
   (src/catalog/registry.ts:257-261). *)
RecordHeals == ~ anytime => <>[](liveSession # 0 /\ conv = liveSession)

(* A wake that has begun is settled in the end, over the cap or not
   (src/agent/channels/catalog.ts:93-98). *)
WakeSettles == ~ anytime /\ convSub = "armed" ~> convSub = "fired"

-----------------------------------------------------------------------------
(* The inductive invariant behind them *)

(* Whoever takes an entry away goes on to write the record and its own. *)
IndexFollows ==
  NothingFailed =>
    \/ conv = 0 \/ conv \in index
    \/ \E c \in Chats :
         chat[c].at = "conv" \/ (chat[c].at = "index" /\ chat[c].session = conv)

(* Requests know sessions that exist, and no later one is on the record when *)
(* there is one request at a time.                                           *)
SessionsInOrder ==
  /\ liveSession \in {0, latest} /\ conv <= latest /\ latest <= reloads + 1
  /\ liveSession = 0 => latest <= reloads
  /\ \A s \in Sessions : queue[s] # 0 => s = liveSession
  /\ \A c \in Chats :
       /\ chat[c].session <= latest
       /\ chat[c].at \notin {"idle", "send"} => chat[c].session # 0

(* One request: what it finds and leaves in the index, command by command. *)
OneByOne ==
  NothingFailed /\ ~ atOnce =>
    /\ \A c, d \in Chats : chat[c].at # "idle" /\ chat[d].at # "idle" => c = d
    /\ Quiet => index = {conv} \ {0}
    /\ \A c \in Chats :
         LET session == chat[c].session
         IN CASE chat[c].at \in {"send", "get"} -> index = {conv} \ {0}
              [] chat[c].at = "del" -> /\ index = {conv} /\ conv = chat[c].existing
                                      /\ conv \notin {0, session}
              [] chat[c].at = "conv" -> index = {conv} \cap {session}
              [] chat[c].at = "index" -> conv = session /\ index \subseteq {session}
              [] OTHER -> TRUE
    /\ \A c \in Chats : chat[c].at \notin {"idle", "send"} => conv <= chat[c].session

(* The session of a subscription stays live and recorded until its wake. *)
SessionIsKept ==
  NothingFailed /\ ~ atOnce /\ ~ anytime =>
    /\ convSub \in {"pending", "armed", "delivering"} => liveSession = conv /\ conv # 0
    /\ convSub \in {"pending", "armed"} => woken = 0 /\ wake = NoWake
    /\ convSub = "delivering" =>
         CASE wake.at = "idle" -> woken = 0
           [] wake.at = "send" -> woken = 0 /\ wake.expected = conv
           [] OTHER -> woken = 1
    /\ convSub \in {"none", "fired"} => wake = NoWake /\ woken <= 1

ConversationInv ==
  /\ ConversationTypeOK /\ IndexFollows /\ SessionsInOrder /\ OneByOne /\ SessionIsKept

================================================================================
