--------------------------- MODULE EveProcess_proofs ---------------------------
(***************************************************************************)
(* The safety of the eve process for any subscriptions, filings, trades,   *)
(* orders, chat requests and days: the conversation and the turn cap, and, *)
(* with the invariants of the four watchers, what they promise together.   *)
(***************************************************************************)
EXTENDS MCEveProcess, EveProviders_proofs, FiniteSetTheorems

-----------------------------------------------------------------------------
(* The conversation *)

(* The places of a request. *)
Steps == {"idle", "send", "get", "del", "conv", "index"}

(* The types, in four groups: the requests ... *)
RequestsOK ==
  chat \in [Chats -> [at: Steps, session: Sessions \cup {0}, existing: Sessions \cup {0}]]

(* ... the sessions ... *)
SessionsOK ==
  /\ liveSession \in Sessions \cup {0} /\ latest \in Sessions \cup {0}
  /\ conv \in Sessions \cup {0} /\ index \subseteq Sessions /\ queue \in [Sessions -> Nat]

(* ... the wake ... *)
DeliveryOK ==
  /\ convSub \in Status /\ woken \in 0..2
  /\ wake \in [at: {"idle", "send", "sent"}, expected: Sessions \cup {0}]

(* ... and the counters. *)
CountersOK ==
  /\ turns \in 0..MaxTurns
  /\ reloads \in 0..MaxReloads /\ chatFaults \in 0..MaxChatFaults

(* Together they are the type of the conversation. *)
LEMMA ConversationTypeParts ==
  ConversationTypeOK <=>
    /\ RequestsOK /\ SessionsOK /\ DeliveryOK /\ CountersOK
    /\ atOnce \in BOOLEAN /\ anytime \in BOOLEAN /\ opened \in BOOLEAN
  BY DEF ConversationTypeOK, RequestsOK, SessionsOK, DeliveryOK, CountersOK, Steps

(* What follows each command of recordConversation. *)
LEMMA AfterIs ==
  ASSUME NEW session, NEW existing
  PROVE  /\ After("get", session, existing) =
              [at |-> IF existing \in {0, session} THEN "conv" ELSE "del",
               session |-> session, existing |-> existing]
         /\ After("del", session, existing) =
              [at |-> "conv", session |-> session, existing |-> existing]
         /\ After("conv", session, existing) =
              [at |-> "index", session |-> session, existing |-> existing]
         /\ After("index", session, existing) = NoRequest
  BY DEF After, Writes, Needed

(* The session that send() reaches. *)
LEMMA TokenIsASession ==
  ASSUME ConversationAssumption, ConversationInv
  PROVE  /\ TokenSession \in Sessions /\ TokenSession # 0 /\ TokenSession \in Nat
         /\ liveSession # 0 => TokenSession = liveSession
         /\ liveSession \in Nat /\ latest \in Nat /\ conv \in Nat /\ reloads \in Nat
         /\ latest <= TokenSession /\ latest + 1 >= TokenSession
         /\ TokenSession <= reloads + 1
         /\ Sends => latest' = TokenSession /\ liveSession' = TokenSession
  BY DEF ConversationAssumption, ConversationInv, ConversationTypeOK, SessionsInOrder,
    TokenSession, Sessions, Sends

(* Every step keeps the types of the requests. *)
LEMMA RequestsStep ==
  ASSUME ConversationAssumption, ConversationInv, [ConversationNext]_convVars
  PROVE  RequestsOK'
  <1>0. RequestsOK /\ SessionsOK /\ TokenSession \in Sessions
    BY ConversationTypeParts, TokenIsASession DEF ConversationInv
  <1> USE DEF RequestsOK, NoRequest, Steps
  <1>1. ASSUME NEW c \in Chats, Chat(c) PROVE RequestsOK'
    BY <1>0, <1>1 DEF Chat, Starts, Counts, WithinCap, Quiet, eve, address, delivery, daily,
      bounds, manners
  <1>2. ASSUME NEW c \in Chats, MarketOpen(c) PROVE RequestsOK'
    BY <1>0, <1>2 DEF MarketOpen, Starts, Counts, WithinCap, Quiet, eve, address, delivery,
      daily, bounds, manners
  <1>3. ASSUME NEW c \in Chats, SendChat(c) PROVE RequestsOK'
    BY <1>0, <1>3 DEF SendChat, Sends, eve, address, delivery, daily, bounds, manners
  <1>4. ASSUME NEW c \in Chats, GetExisting(c) PROVE RequestsOK'
    <2>1. \A step \in {"get", "del", "conv", "index"} :
            \A x, y \in Sessions \cup {0} :
              After(step, x, y) \in
                  [at: Steps, session: Sessions \cup {0}, existing: Sessions \cup {0}]
      BY AfterIs DEF NoRequest, Steps
    <2>2. chat[c].session \in Sessions \cup {0} /\ chat[c].existing \in Sessions \cup {0}
      BY <1>0
    <2> QED
      BY <1>0, <1>4, <2>1, <2>2 DEF GetExisting, DoesWrite, SessionsOK
  <1>5. ASSUME NEW c \in Chats, ChatFails(c) PROVE RequestsOK'
    BY <1>0, <1>5 DEF ChatFails, eve, address, delivery, daily, bounds, manners
  <1>6. ASSUME NEW c \in Chats, NEW step \in {"del", "conv", "index"}, DoesWrite(c, step)
        PROVE  RequestsOK'
    <2>1. \A to \in {"get", "del", "conv", "index"} :
            \A x, y \in Sessions \cup {0} :
              After(to, x, y) \in
                  [at: Steps, session: Sessions \cup {0}, existing: Sessions \cup {0}]
      BY AfterIs DEF NoRequest, Steps
    <2>2. chat[c].session \in Sessions \cup {0} /\ chat[c].existing \in Sessions \cup {0}
      BY <1>0
    <2> QED
      BY <1>0, <1>6, <2>1, <2>2 DEF GetExisting, DoesWrite, SessionsOK
  <1>7. ASSUME NEW s \in Sessions, Subscribe(s) PROVE RequestsOK'
    BY <1>0, <1>7 DEF Subscribe, eve, address, delivery, daily, bounds, manners
  <1>8. ASSUME NEW s \in Sessions, TurnCompletes(s) PROVE RequestsOK'
    BY <1>0, <1>8 DEF TurnCompletes, eve, address, delivery, daily, bounds, manners
  <1>9. ASSUME NEW s \in Sessions, TurnFails(s) PROVE RequestsOK'
    BY <1>0, <1>9 DEF TurnFails, eve, address, delivery, daily, bounds, manners
  <1>10. CASE MarketOpenRefused
    BY <1>0, <1>10 DEF MarketOpenRefused, eve, address, delivery, daily, bounds, manners
  <1>11. CASE Fires
    BY <1>0, <1>11 DEF Fires, eve, address, delivery, daily, bounds, manners
  <1>12. CASE Wake
    BY <1>0, <1>12 DEF Wake, Counts, WithinCap, eve, address, delivery, daily, bounds, manners
  <1>13. CASE SendWake
    BY <1>0, <1>13 DEF SendWake, Sends, eve, address, delivery, daily, bounds, manners
  <1>14. CASE WakeFails
    BY <1>0, <1>14 DEF WakeFails, eve, address, delivery, daily, bounds, manners
  <1>15. CASE SettleWake
    BY <1>0, <1>15 DEF SettleWake, eve, address, delivery, daily, bounds, manners
  <1>16. CASE Reload
    BY <1>0, <1>16 DEF Reload, eve, address, delivery, daily, bounds, manners
  <1>17. CASE DayEnds
    BY <1>0, <1>17 DEF DayEnds, eve, address, delivery, daily, bounds, manners
  <1>18. CASE UNCHANGED convVars
    BY <1>0, <1>18 DEF convVars, eve, address, delivery, daily, bounds, manners
  <1> QED
    BY <1>1, <1>2, <1>3, <1>4, <1>5, <1>6, <1>7, <1>8, <1>9, <1>10, <1>11, <1>12, <1>13, <1>14,
       <1>15, <1>16, <1>17, <1>18
    DEF ConversationNext

(* Every step keeps the types of the sessions. *)
LEMMA SessionsStep ==
  ASSUME ConversationAssumption, ConversationInv, [ConversationNext]_convVars
  PROVE  SessionsOK'
  <1>0. RequestsOK /\ SessionsOK /\ SessionsInOrder
    BY ConversationTypeParts DEF ConversationInv, ConversationAssumption
  <1>p. /\ TokenSession \in Sessions /\ 0 \in Sessions \cup {0}
        /\ (Sends => latest' = TokenSession /\ liveSession' = TokenSession)
        /\ \A c \in Chats : /\ chat[c].session \in Sessions \cup {0}
                            /\ chat[c].at \notin {"idle", "send"} => chat[c].session \in Sessions
    BY <1>0, TokenIsASession DEF RequestsOK, SessionsInOrder
  <1> USE DEF SessionsOK
  <1>1. ASSUME NEW c \in Chats, Chat(c) PROVE SessionsOK'
    BY <1>0, <1>p, <1>1 DEF Chat, Starts, Counts, WithinCap, Quiet, eve, address, delivery,
      daily, bounds, manners
  <1>2. ASSUME NEW c \in Chats, MarketOpen(c) PROVE SessionsOK'
    BY <1>0, <1>p, <1>2 DEF MarketOpen, Starts, Counts, WithinCap, Quiet, eve, address, delivery,
      daily, bounds, manners
  <1>3. ASSUME NEW c \in Chats, SendChat(c) PROVE SessionsOK'
    BY <1>0, <1>p, <1>3 DEF SendChat, Sends, eve, address, delivery, daily, bounds, manners
  <1>4. ASSUME NEW c \in Chats, GetExisting(c) PROVE SessionsOK'
    BY <1>0, <1>p, <1>4 DEF GetExisting, eve, address, delivery, daily, bounds, manners
  <1>5. ASSUME NEW c \in Chats, ChatFails(c) PROVE SessionsOK'
    BY <1>0, <1>p, <1>5 DEF ChatFails, eve, address, delivery, daily, bounds, manners
  <1>6. ASSUME NEW c \in Chats, NEW step \in {"del", "conv", "index"}, DoesWrite(c, step)
        PROVE  SessionsOK'
    <2>1. UNCHANGED <<liveSession, latest, queue>>
      BY <1>6 DEF DoesWrite, eve
    <2>c. chat[c].at = step
      BY <1>6 DEF DoesWrite
    <2>d. step \notin {"idle", "send"}
      OBVIOUS
    <2>e. chat[c].session \in Sessions
      BY <1>p, <2>c, <2>d
    <2>a. /\ chat[c].session \in Sessions \cup {0} /\ conv \in Sessions \cup {0}
          /\ step = "index" => chat[c].session \in Sessions
      BY <1>0, <2>e
    <2>b. conv' = IF step = "conv" THEN chat[c].session ELSE conv
      BY <1>6 DEF DoesWrite, RecordedSession
    <2>2. conv' \in Sessions \cup {0}
      BY <2>a, <2>b
    <2>3. CASE step = "del"
      BY <1>0, <1>6, <2>1, <2>2, <2>3 DEF DoesWrite
    <2>4. CASE step = "conv"
      BY <1>0, <1>6, <2>1, <2>2, <2>4 DEF DoesWrite
    <2>5. CASE step = "index"
      BY <1>0, <2>a, <1>6, <2>1, <2>2, <2>5 DEF DoesWrite
    <2> QED
      BY <2>3, <2>4, <2>5
  <1>7. ASSUME NEW s \in Sessions, Subscribe(s) PROVE SessionsOK'
    BY <1>0, <1>p, <1>7 DEF Subscribe, eve, address, delivery, daily, bounds, manners
  <1>8. ASSUME NEW s \in Sessions, TurnCompletes(s) PROVE SessionsOK'
    BY <1>0, <1>p, <1>8 DEF TurnCompletes, eve, address, delivery, daily, bounds, manners
  <1>9. ASSUME NEW s \in Sessions, TurnFails(s) PROVE SessionsOK'
    BY <1>0, <1>p, <1>9 DEF TurnFails, eve, address, delivery, daily, bounds, manners
  <1>10. CASE MarketOpenRefused
    BY <1>0, <1>p, <1>10 DEF MarketOpenRefused, eve, address, delivery, daily, bounds, manners
  <1>11. CASE Fires
    BY <1>0, <1>p, <1>11 DEF Fires, eve, address, delivery, daily, bounds, manners
  <1>12. CASE Wake
    BY <1>0, <1>p, <1>12 DEF Wake, Counts, WithinCap, eve, address, delivery, daily, bounds,
      manners
  <1>13. CASE SendWake
    BY <1>0, <1>p, <1>13 DEF SendWake, Sends, eve, address, delivery, daily, bounds, manners
  <1>14. CASE WakeFails
    BY <1>0, <1>p, <1>14 DEF WakeFails, eve, address, delivery, daily, bounds, manners
  <1>15. CASE SettleWake
    BY <1>0, <1>p, <1>15 DEF SettleWake, eve, address, delivery, daily, bounds, manners
  <1>16. CASE Reload
    BY <1>0, <1>p, <1>16 DEF Reload, eve, address, delivery, daily, bounds, manners
  <1>17. CASE DayEnds
    BY <1>0, <1>p, <1>17 DEF DayEnds, eve, address, delivery, daily, bounds, manners
  <1>18. CASE UNCHANGED convVars
    BY <1>0, <1>p, <1>18 DEF convVars, eve, address, delivery, daily, bounds, manners
  <1> QED
    BY <1>1, <1>2, <1>3, <1>4, <1>5, <1>6, <1>7, <1>8, <1>9, <1>10, <1>11, <1>12, <1>13, <1>14,
       <1>15, <1>16, <1>17, <1>18
    DEF ConversationNext

(* Every step keeps the types of the wake. *)
LEMMA DeliveryStep ==
  ASSUME ConversationAssumption, ConversationInv, [ConversationNext]_convVars
  PROVE  DeliveryOK'
  <1>0. DeliveryOK /\ SessionsOK
    BY ConversationTypeParts DEF ConversationInv, ConversationAssumption
  <1> USE DEF DeliveryOK, NoWake, Status, SessionsOK
  <1>1. ASSUME NEW c \in Chats, Chat(c) PROVE DeliveryOK'
    BY <1>0, <1>1 DEF Chat, Starts, Counts, WithinCap, Quiet, eve, address, delivery, daily,
      bounds, manners
  <1>2. ASSUME NEW c \in Chats, MarketOpen(c) PROVE DeliveryOK'
    BY <1>0, <1>2 DEF MarketOpen, Starts, Counts, WithinCap, Quiet, eve, address, delivery,
      daily, bounds, manners
  <1>3. ASSUME NEW c \in Chats, SendChat(c) PROVE DeliveryOK'
    BY <1>0, <1>3 DEF SendChat, Sends, eve, address, delivery, daily, bounds, manners
  <1>4. ASSUME NEW c \in Chats, GetExisting(c) PROVE DeliveryOK'
    BY <1>0, <1>4 DEF GetExisting, eve, address, delivery, daily, bounds, manners
  <1>5. ASSUME NEW c \in Chats, ChatFails(c) PROVE DeliveryOK'
    BY <1>0, <1>5 DEF ChatFails, eve, address, delivery, daily, bounds, manners
  <1>6. ASSUME NEW c \in Chats, NEW step \in {"del", "conv", "index"}, DoesWrite(c, step)
        PROVE  DeliveryOK'
    BY <1>0, <1>6 DEF DoesWrite, RecordedSession, eve, address, delivery, daily, bounds, manners
  <1>7. ASSUME NEW s \in Sessions, Subscribe(s) PROVE DeliveryOK'
    BY <1>0, <1>7 DEF Subscribe, eve, address, delivery, daily, bounds, manners
  <1>8. ASSUME NEW s \in Sessions, TurnCompletes(s) PROVE DeliveryOK'
    BY <1>0, <1>8 DEF TurnCompletes, eve, address, delivery, daily, bounds, manners
  <1>9. ASSUME NEW s \in Sessions, TurnFails(s) PROVE DeliveryOK'
    BY <1>0, <1>9 DEF TurnFails, eve, address, delivery, daily, bounds, manners
  <1>10. CASE MarketOpenRefused
    BY <1>0, <1>10 DEF MarketOpenRefused, eve, address, delivery, daily, bounds, manners
  <1>11. CASE Fires
    BY <1>0, <1>11 DEF Fires, eve, address, delivery, daily, bounds, manners
  <1>12. CASE Wake
    BY <1>0, <1>12 DEF Wake, Counts, WithinCap, eve, address, delivery, daily, bounds, manners
  <1>13. CASE SendWake
    BY <1>0, <1>13 DEF SendWake, Sends, eve, address, delivery, daily, bounds, manners
  <1>14. CASE WakeFails
    BY <1>0, <1>14 DEF WakeFails, eve, address, delivery, daily, bounds, manners
  <1>15. CASE SettleWake
    BY <1>0, <1>15 DEF SettleWake, eve, address, delivery, daily, bounds, manners
  <1>16. CASE Reload
    BY <1>0, <1>16 DEF Reload, eve, address, delivery, daily, bounds, manners
  <1>17. CASE DayEnds
    BY <1>0, <1>17 DEF DayEnds, eve, address, delivery, daily, bounds, manners
  <1>18. CASE UNCHANGED convVars
    BY <1>0, <1>18 DEF convVars, eve, address, delivery, daily, bounds, manners
  <1> QED
    BY <1>1, <1>2, <1>3, <1>4, <1>5, <1>6, <1>7, <1>8, <1>9, <1>10, <1>11, <1>12, <1>13, <1>14,
       <1>15, <1>16, <1>17, <1>18
    DEF ConversationNext

(* Every step keeps within the counters. *)
LEMMA CountersStep ==
  ASSUME ConversationAssumption, ConversationInv, [ConversationNext]_convVars
  PROVE  CountersOK'
  <1>0. /\ CountersOK /\ MaxTurns \in Nat /\ MaxReloads \in Nat
        /\ MaxChatFaults \in Nat
    BY ConversationTypeParts DEF ConversationInv, ConversationAssumption
  <1> USE DEF CountersOK
  <1>1. ASSUME NEW c \in Chats, Chat(c) PROVE CountersOK'
    BY <1>0, <1>1 DEF Chat, Starts, Counts, WithinCap, Quiet, eve, address, delivery, daily,
      bounds, manners
  <1>2. ASSUME NEW c \in Chats, MarketOpen(c) PROVE CountersOK'
    BY <1>0, <1>2 DEF MarketOpen, Starts, Counts, WithinCap, Quiet, eve, address, delivery,
      daily, bounds, manners
  <1>3. ASSUME NEW c \in Chats, SendChat(c) PROVE CountersOK'
    BY <1>0, <1>3 DEF SendChat, Sends, eve, address, delivery, daily, bounds, manners
  <1>4. ASSUME NEW c \in Chats, GetExisting(c) PROVE CountersOK'
    BY <1>0, <1>4 DEF GetExisting, eve, address, delivery, daily, bounds, manners
  <1>5. ASSUME NEW c \in Chats, ChatFails(c) PROVE CountersOK'
    BY <1>0, <1>5 DEF ChatFails, eve, address, delivery, daily, bounds, manners
  <1>6. ASSUME NEW c \in Chats, NEW step \in {"del", "conv", "index"}, DoesWrite(c, step)
        PROVE  CountersOK'
    BY <1>0, <1>6 DEF DoesWrite, RecordedSession, eve, address, delivery, daily, bounds, manners
  <1>7. ASSUME NEW s \in Sessions, Subscribe(s) PROVE CountersOK'
    BY <1>0, <1>7 DEF Subscribe, eve, address, delivery, daily, bounds, manners
  <1>8. ASSUME NEW s \in Sessions, TurnCompletes(s) PROVE CountersOK'
    BY <1>0, <1>8 DEF TurnCompletes, eve, address, delivery, daily, bounds, manners
  <1>9. ASSUME NEW s \in Sessions, TurnFails(s) PROVE CountersOK'
    BY <1>0, <1>9 DEF TurnFails, eve, address, delivery, daily, bounds, manners
  <1>10. CASE MarketOpenRefused
    BY <1>0, <1>10 DEF MarketOpenRefused, eve, address, delivery, daily, bounds, manners
  <1>11. CASE Fires
    BY <1>0, <1>11 DEF Fires, eve, address, delivery, daily, bounds, manners
  <1>12. CASE Wake
    BY <1>0, <1>12 DEF Wake, Counts, WithinCap, eve, address, delivery, daily, bounds, manners
  <1>13. CASE SendWake
    BY <1>0, <1>13 DEF SendWake, Sends, eve, address, delivery, daily, bounds, manners
  <1>14. CASE WakeFails
    BY <1>0, <1>14 DEF WakeFails, eve, address, delivery, daily, bounds, manners
  <1>15. CASE SettleWake
    BY <1>0, <1>15 DEF SettleWake, eve, address, delivery, daily, bounds, manners
  <1>16. CASE Reload
    BY <1>0, <1>16 DEF Reload, eve, address, delivery, daily, bounds, manners
  <1>17. CASE DayEnds
    BY <1>0, <1>17 DEF DayEnds, eve, address, delivery, daily, bounds, manners
  <1>18. CASE UNCHANGED convVars
    BY <1>0, <1>18 DEF convVars, eve, address, delivery, daily, bounds, manners
  <1> QED
    BY <1>1, <1>2, <1>3, <1>4, <1>5, <1>6, <1>7, <1>8, <1>9, <1>10, <1>11, <1>12, <1>13, <1>14,
       <1>15, <1>16, <1>17, <1>18
    DEF ConversationNext

(* Every step keeps the truth values. *)
LEMMA MannersStep ==
  ASSUME ConversationAssumption, ConversationInv, [ConversationNext]_convVars
  PROVE  /\ atOnce' \in BOOLEAN /\ anytime' \in BOOLEAN /\ opened' \in BOOLEAN
  <1>0. /\ atOnce \in BOOLEAN /\ anytime \in BOOLEAN /\ opened \in BOOLEAN
    BY ConversationTypeParts DEF ConversationInv, ConversationAssumption
  <1> USE DEF NoWake
  <1>1. ASSUME NEW c \in Chats, Chat(c)
        PROVE  /\ atOnce' \in BOOLEAN /\ anytime' \in BOOLEAN /\ opened' \in BOOLEAN
    BY <1>0, <1>1 DEF Chat, Starts, Counts, WithinCap, Quiet, eve, address, delivery, daily,
      bounds, manners
  <1>2. ASSUME NEW c \in Chats, MarketOpen(c)
        PROVE  /\ atOnce' \in BOOLEAN /\ anytime' \in BOOLEAN /\ opened' \in BOOLEAN
    BY <1>0, <1>2 DEF MarketOpen, Starts, Counts, WithinCap, Quiet, eve, address, delivery,
      daily, bounds, manners
  <1>3. ASSUME NEW c \in Chats, SendChat(c)
        PROVE  /\ atOnce' \in BOOLEAN /\ anytime' \in BOOLEAN /\ opened' \in BOOLEAN
    BY <1>0, <1>3 DEF SendChat, Sends, eve, address, delivery, daily, bounds, manners
  <1>4. ASSUME NEW c \in Chats, GetExisting(c)
        PROVE  /\ atOnce' \in BOOLEAN /\ anytime' \in BOOLEAN /\ opened' \in BOOLEAN
    BY <1>0, <1>4 DEF GetExisting, eve, address, delivery, daily, bounds, manners
  <1>5. ASSUME NEW c \in Chats, ChatFails(c)
        PROVE  /\ atOnce' \in BOOLEAN /\ anytime' \in BOOLEAN /\ opened' \in BOOLEAN
    BY <1>0, <1>5 DEF ChatFails, eve, address, delivery, daily, bounds, manners
  <1>6. ASSUME NEW c \in Chats, NEW step \in {"del", "conv", "index"}, DoesWrite(c, step)
        PROVE  /\ atOnce' \in BOOLEAN /\ anytime' \in BOOLEAN /\ opened' \in BOOLEAN
    BY <1>0, <1>6 DEF DoesWrite, RecordedSession, eve, address, delivery, daily, bounds, manners
  <1>7. ASSUME NEW s \in Sessions, Subscribe(s)
        PROVE  /\ atOnce' \in BOOLEAN /\ anytime' \in BOOLEAN /\ opened' \in BOOLEAN
    BY <1>0, <1>7 DEF Subscribe, eve, address, delivery, daily, bounds, manners
  <1>8. ASSUME NEW s \in Sessions, TurnCompletes(s)
        PROVE  /\ atOnce' \in BOOLEAN /\ anytime' \in BOOLEAN /\ opened' \in BOOLEAN
    BY <1>0, <1>8 DEF TurnCompletes, eve, address, delivery, daily, bounds, manners
  <1>9. ASSUME NEW s \in Sessions, TurnFails(s)
        PROVE  /\ atOnce' \in BOOLEAN /\ anytime' \in BOOLEAN /\ opened' \in BOOLEAN
    BY <1>0, <1>9 DEF TurnFails, eve, address, delivery, daily, bounds, manners
  <1>10. CASE MarketOpenRefused
    BY <1>0, <1>10 DEF MarketOpenRefused, eve, address, delivery, daily, bounds, manners
  <1>11. CASE Fires
    BY <1>0, <1>11 DEF Fires, eve, address, delivery, daily, bounds, manners
  <1>12. CASE Wake
    BY <1>0, <1>12 DEF Wake, Counts, WithinCap, eve, address, delivery, daily, bounds, manners
  <1>13. CASE SendWake
    BY <1>0, <1>13 DEF SendWake, Sends, eve, address, delivery, daily, bounds, manners
  <1>14. CASE WakeFails
    BY <1>0, <1>14 DEF WakeFails, eve, address, delivery, daily, bounds, manners
  <1>15. CASE SettleWake
    BY <1>0, <1>15 DEF SettleWake, eve, address, delivery, daily, bounds, manners
  <1>16. CASE Reload
    BY <1>0, <1>16 DEF Reload, eve, address, delivery, daily, bounds, manners
  <1>17. CASE DayEnds
    BY <1>0, <1>17 DEF DayEnds, eve, address, delivery, daily, bounds, manners
  <1>18. CASE UNCHANGED convVars
    BY <1>0, <1>18 DEF convVars, eve, address, delivery, daily, bounds, manners
  <1> QED
    BY <1>1, <1>2, <1>3, <1>4, <1>5, <1>6, <1>7, <1>8, <1>9, <1>10, <1>11, <1>12, <1>13, <1>14,
       <1>15, <1>16, <1>17, <1>18
    DEF ConversationNext

(* What the commands of a request do to the requests, the record and the
   index. *)
LEMMA RequestMoves ==
  ASSUME ConversationTypeOK, NEW c \in Chats
  PROVE  /\ Starts(c) => /\ chat[c].at = "idle" /\ chat'[c].at = "send"
                         /\ chat'[c].session = chat[c].session
                         /\ \A d \in Chats \ {c} : chat'[d] = chat[d]
         /\ SendChat(c) => /\ chat[c].at = "send" /\ chat'[c].at = "get"
                           /\ chat'[c].session = TokenSession
                           /\ \A d \in Chats \ {c} : chat'[d] = chat[d]
         /\ ChatFails(c) => chat'[c] = NoRequest /\ \A d \in Chats \ {c} : chat'[d] = chat[d]
         /\ GetExisting(c) => /\ chat[c].at = "get" /\ chat'[c].session = chat[c].session
                              /\ chat'[c].existing = conv
                              /\ chat'[c].at = IF conv \in {0, chat[c].session}
                                                 THEN "conv" ELSE "del"
                              /\ \A d \in Chats \ {c} : chat'[d] = chat[d]
         /\ DoesWrite(c, "del") => /\ chat[c].at = "del" /\ chat'[c].at = "conv"
                                   /\ chat'[c].session = chat[c].session
                                   /\ conv' = conv /\ index' = index \ {chat[c].existing}
                                   /\ \A d \in Chats \ {c} : chat'[d] = chat[d]
         /\ DoesWrite(c, "conv") => /\ chat[c].at = "conv" /\ chat'[c].at = "index"
                                    /\ chat'[c].session = chat[c].session
                                    /\ conv' = chat[c].session /\ index' = index
                                    /\ \A d \in Chats \ {c} : chat'[d] = chat[d]
         /\ DoesWrite(c, "index") => /\ chat[c].at = "index" /\ chat'[c] = NoRequest
                                     /\ conv' = conv /\ index' = index \cup {chat[c].session}
                                     /\ \A d \in Chats \ {c} : chat'[d] = chat[d]
  <1>0. /\ DOMAIN chat = Chats /\ DOMAIN chat[c] = {"at", "session", "existing"}
    BY DEF ConversationTypeOK
  <1>1. ASSUME NEW r, chat' = [chat EXCEPT ![c] = r]
        PROVE  chat'[c] = r /\ \A d \in Chats \ {c} : chat'[d] = chat[d]
    BY <1>0, <1>1
  <1>2. ASSUME Starts(c)
        PROVE  /\ chat[c].at = "idle" /\ chat'[c].at = "send"
               /\ chat'[c].session = chat[c].session
               /\ \A d \in Chats \ {c} : chat'[d] = chat[d]
    BY <1>0, <1>2 DEF Starts
  <1>3. ASSUME SendChat(c)
        PROVE  /\ chat[c].at = "send" /\ chat'[c].at = "get"
               /\ chat'[c].session = TokenSession
               /\ \A d \in Chats \ {c} : chat'[d] = chat[d]
    BY <1>1, <1>3 DEF SendChat
  <1>4. ASSUME ChatFails(c)
        PROVE  chat'[c] = NoRequest /\ \A d \in Chats \ {c} : chat'[d] = chat[d]
    BY <1>1, <1>4 DEF ChatFails
  <1>5. ASSUME GetExisting(c)
        PROVE  /\ chat[c].at = "get" /\ chat'[c].session = chat[c].session
               /\ chat'[c].existing = conv
               /\ chat'[c].at = IF conv \in {0, chat[c].session} THEN "conv" ELSE "del"
               /\ \A d \in Chats \ {c} : chat'[d] = chat[d]
    <2>1. chat' = [chat EXCEPT ![c] = After("get", chat[c].session, conv)] /\ chat[c].at = "get"
      BY <1>5 DEF GetExisting
    <2>2. After("get", chat[c].session, conv) =
            [at |-> IF conv \in {0, chat[c].session} THEN "conv" ELSE "del",
             session |-> chat[c].session, existing |-> conv]
      BY AfterIs
    <2>3. /\ chat'[c] = After("get", chat[c].session, conv)
          /\ \A d \in Chats \ {c} : chat'[d] = chat[d]
      BY <1>1, <2>1
    <2> QED
      BY <2>1, <2>2, <2>3
  <1>6. ASSUME DoesWrite(c, "del")
        PROVE  /\ chat[c].at = "del" /\ chat'[c].at = "conv"
               /\ chat'[c].session = chat[c].session
               /\ conv' = conv /\ index' = index \ {chat[c].existing}
               /\ \A d \in Chats \ {c} : chat'[d] = chat[d]
    <2>1. /\ chat' = [chat EXCEPT ![c] = After("del", chat[c].session, chat[c].existing)]
          /\ chat[c].at = "del" /\ conv' = conv /\ index' = index \ {chat[c].existing}
      BY <1>6 DEF DoesWrite
    <2>2. After("del", chat[c].session, chat[c].existing) =
            [at |-> "conv", session |-> chat[c].session, existing |-> chat[c].existing]
      BY AfterIs
    <2>3. /\ chat'[c] = After("del", chat[c].session, chat[c].existing)
          /\ \A d \in Chats \ {c} : chat'[d] = chat[d]
      BY <1>1, <2>1
    <2> QED
      BY <2>1, <2>2, <2>3
  <1>7. ASSUME DoesWrite(c, "conv")
        PROVE  /\ chat[c].at = "conv" /\ chat'[c].at = "index"
               /\ chat'[c].session = chat[c].session
               /\ conv' = chat[c].session /\ index' = index
               /\ \A d \in Chats \ {c} : chat'[d] = chat[d]
    <2>1. /\ chat' = [chat EXCEPT ![c] = After("conv", chat[c].session, chat[c].existing)]
          /\ chat[c].at = "conv" /\ conv' = chat[c].session /\ index' = index
      BY <1>7 DEF DoesWrite, RecordedSession
    <2>2. After("conv", chat[c].session, chat[c].existing) =
            [at |-> "index", session |-> chat[c].session, existing |-> chat[c].existing]
      BY AfterIs
    <2>3. /\ chat'[c] = After("conv", chat[c].session, chat[c].existing)
          /\ \A d \in Chats \ {c} : chat'[d] = chat[d]
      BY <1>1, <2>1
    <2> QED
      BY <2>1, <2>2, <2>3
  <1>8. ASSUME DoesWrite(c, "index")
        PROVE  /\ chat[c].at = "index" /\ chat'[c] = NoRequest
               /\ conv' = conv /\ index' = index \cup {chat[c].session}
               /\ \A d \in Chats \ {c} : chat'[d] = chat[d]
    <2>1. /\ chat' = [chat EXCEPT ![c] = After("index", chat[c].session, chat[c].existing)]
          /\ chat[c].at = "index" /\ conv' = conv /\ index' = index \cup {chat[c].session}
      BY <1>8 DEF DoesWrite
    <2>2. After("index", chat[c].session, chat[c].existing) = NoRequest
      BY AfterIs
    <2>3. /\ chat'[c] = After("index", chat[c].session, chat[c].existing)
          /\ \A d \in Chats \ {c} : chat'[d] = chat[d]
      BY <1>1, <2>1
    <2> QED
      BY <2>1, <2>2, <2>3
  <1> QED
    BY <1>2, <1>3, <1>4, <1>5, <1>6, <1>7, <1>8

(* Nothing else changes the record or the index. *)
LEMMA RecordStays ==
  ASSUME [ConversationNext]_convVars
  PROVE  \/ UNCHANGED <<conv, index, chat>>
         \/ \E c \in Chats : /\ \/ Starts(c) \/ SendChat(c) \/ GetExisting(c) \/ ChatFails(c)
                             /\ UNCHANGED <<conv, index>>
         \/ \E c \in Chats : \/ DoesWrite(c, "del") \/ DoesWrite(c, "conv") \/ DoesWrite(c, "index")
  BY DEF ConversationNext, convVars, address, delivery, eve, daily, bounds, Chat, MarketOpen,
    SendChat, GetExisting, ChatFails, Subscribe, TurnCompletes, TurnFails, MarketOpenRefused,
    Fires, Wake, SendWake, WakeFails, SettleWake, Reload, DayEnds

(* While nothing has failed, no command has. *)
LEMMA FaultsStay ==
  ASSUME ConversationAssumption, ConversationInv, [ConversationNext]_convVars, NothingFailed'
  PROVE  /\ NothingFailed /\ UNCHANGED manners
         /\ \A c \in Chats : ~ ChatFails(c)
         /\ \A s \in Sessions : ~ TurnFails(s)
         /\ ~ WakeFails
  <1>1. chatFaults \in Nat
    BY DEF ConversationAssumption, ConversationInv, ConversationTypeOK
  <1>2. UNCHANGED manners
    BY DEF ConversationNext, convVars, Chat, MarketOpen, SendChat, GetExisting, ChatFails,
      DoesWrite, Subscribe, TurnCompletes, TurnFails, MarketOpenRefused, Fires, Wake, SendWake,
      WakeFails, SettleWake, Reload, DayEnds
  <1>3. chatFaults' = chatFaults \/ chatFaults' = chatFaults + 1
    BY DEF ConversationNext, convVars, delivery, eve, daily, bounds, Chat, MarketOpen, SendChat,
      GetExisting, ChatFails, DoesWrite, Subscribe, TurnCompletes, TurnFails, MarketOpenRefused,
      Fires, Wake, SendWake, WakeFails, SettleWake, Reload, DayEnds
  <1>4. chatFaults' = 0 /\ chatFaults = 0
    BY <1>1, <1>3 DEF NothingFailed
  <1> QED
    BY <1>1, <1>2, <1>4 DEF NothingFailed, ChatFails, TurnFails, WakeFails

(* Whoever takes an entry away goes on to write the record and its own. *)
LEMMA IndexStep ==
  ASSUME ConversationAssumption, ConversationInv, [ConversationNext]_convVars
  PROVE  IndexFollows'
  <1> DEFINE Pending(c) == chat[c].at = "conv" \/ (chat[c].at = "index" /\ chat[c].session = conv)
  <1> SUFFICES ASSUME NothingFailed'
               PROVE  conv' = 0 \/ conv' \in index' \/ \E c \in Chats : Pending(c)'
    BY DEF IndexFollows
  <1>0. /\ ConversationTypeOK
        /\ conv = 0 \/ conv \in index \/ \E c \in Chats : Pending(c)
    BY FaultsStay DEF ConversationInv, IndexFollows
  <1>1. CASE UNCHANGED <<conv, index, chat>>
    BY <1>0, <1>1
  <1>2. ASSUME NEW c \in Chats, Starts(c) \/ SendChat(c) \/ GetExisting(c) \/ ChatFails(c),
               UNCHANGED <<conv, index>>
        PROVE  conv' = 0 \/ conv' \in index' \/ \E d \in Chats : Pending(d)'
    <2>1. ~ Pending(c) /\ \A d \in Chats \ {c} : chat'[d] = chat[d]
      BY <1>0, <1>2, FaultsStay, RequestMoves
    <2> QED
      BY <1>0, <1>2, <2>1
  <1>3. ASSUME NEW c \in Chats, DoesWrite(c, "del") \/ DoesWrite(c, "conv")
        PROVE  Pending(c)'
    BY <1>0, <1>3, RequestMoves
  <1>4. ASSUME NEW c \in Chats, DoesWrite(c, "index")
        PROVE  conv' = 0 \/ conv' \in index' \/ \E d \in Chats : Pending(d)'
    <2>1. /\ chat[c].at = "index" /\ conv' = conv /\ index' = index \cup {chat[c].session}
          /\ \A d \in Chats \ {c} : chat'[d] = chat[d]
      BY <1>0, <1>4, RequestMoves
    <2> QED
      BY <1>0, <2>1
  <1> QED
    BY <1>1, <1>2, <1>3, <1>4, RecordStays

(* Sessions begin in the order of their numbers. *)
LEMMA SessionsInOrderStep ==
  ASSUME ConversationAssumption, ConversationInv, [ConversationNext]_convVars
  PROVE  SessionsInOrder'
  <1> DEFINE Known(c) == /\ chat[c].session <= latest
                         /\ chat[c].at \notin {"idle", "send"} => chat[c].session # 0
             Live == /\ liveSession \in {0, latest} /\ latest <= reloads + 1
                     /\ liveSession = 0 => latest <= reloads
                     /\ \A s \in Sessions : queue[s] # 0 => s = liveSession
  <1>0. /\ ConversationTypeOK /\ Live /\ conv <= latest /\ \A c \in Chats : Known(c)
        /\ latest \in Nat /\ conv \in Nat /\ reloads \in Nat
        /\ \A c \in Chats : chat[c].session \in Nat
        /\ \A s \in Sessions : s # 0 /\ queue[s] \in Nat
    BY TokenIsASession DEF ConversationInv, SessionsInOrder, ConversationTypeOK, Sessions
  <1>1. ASSUME Sends, UNCHANGED reloads PROVE Live' /\ latest' \in Nat /\ latest <= latest'
    <2>1. /\ liveSession' = TokenSession /\ latest' = TokenSession /\ TokenSession <= reloads + 1
          /\ TokenSession # 0 /\ TokenSession \in Nat /\ latest <= TokenSession
          /\ liveSession # 0 => TokenSession = liveSession
      BY <1>1, TokenIsASession
    <2>2. \A s \in Sessions : queue'[s] # 0 => s = TokenSession
      BY <1>0, <1>1, <2>1 DEF Sends, ConversationTypeOK
    <2> QED
      BY <1>1, <2>1, <2>2
  <1>2. ASSUME NEW s \in Sessions, queue' = [queue EXCEPT ![s] = @ - 1], queue[s] > 0,
               UNCHANGED <<liveSession, latest, reloads>>
        PROVE  Live' /\ latest' \in Nat /\ latest <= latest'
    BY <1>0, <1>2 DEF ConversationTypeOK
  <1>3. ASSUME Reload PROVE Live' /\ latest' \in Nat /\ latest <= latest'
    BY <1>0, <1>3 DEF Reload
  <1>4. ASSUME UNCHANGED <<liveSession, latest, queue, reloads>>
        PROVE  Live' /\ latest' \in Nat /\ latest <= latest'
    BY <1>0, <1>4
  <1>5. Live' /\ latest' \in Nat /\ latest <= latest'
    <2>1. \/ Sends /\ UNCHANGED reloads
          \/ Reload \/ UNCHANGED <<liveSession, latest, queue, reloads>>
          \/ \E s \in Sessions : /\ queue' = [queue EXCEPT ![s] = @ - 1] /\ queue[s] > 0
                                 /\ UNCHANGED <<liveSession, latest, reloads>>
      BY DEF ConversationNext, convVars, delivery, eve, daily, bounds, Chat, MarketOpen, SendChat,
        GetExisting, ChatFails, DoesWrite, Subscribe, TurnCompletes, TurnFails, MarketOpenRefused,
        Fires, Wake, SendWake, WakeFails, SettleWake, DayEnds
    <2> QED
      BY <1>1, <1>2, <1>3, <1>4, <2>1
  <1>6. conv' <= latest' /\ \A d \in Chats : Known(d)'
    <2>1. CASE UNCHANGED <<conv, index, chat>>
      BY <1>0, <1>5, <2>1
    <2>2. ASSUME NEW c \in Chats, Starts(c) \/ SendChat(c) \/ GetExisting(c) \/ ChatFails(c),
                 UNCHANGED conv
          PROVE  conv' <= latest' /\ \A d \in Chats : Known(d)'
      <3>1. \A d \in Chats \ {c} : chat'[d] = chat[d]
        BY <1>0, <2>2, RequestMoves
      <3>2. CASE SendChat(c)
        <4>1. chat'[c].session = TokenSession /\ latest' = TokenSession /\ TokenSession # 0
              /\ TokenSession \in Nat
          BY <1>0, <3>2, TokenIsASession, RequestMoves DEF SendChat
        <4> QED
          BY <1>0, <1>5, <2>2, <3>1, <4>1
      <3>3. CASE Starts(c)
        BY <1>0, <1>5, <2>2, <3>1, <3>3, RequestMoves
      <3>4. CASE GetExisting(c)
        BY <1>0, <1>5, <2>2, <3>1, <3>4, RequestMoves
      <3>5. CASE ChatFails(c)
        BY <1>0, <1>5, <2>2, <3>1, <3>5, RequestMoves DEF NoRequest
      <3> QED
        BY <2>2, <3>2, <3>3, <3>4, <3>5
    <2>3. ASSUME NEW c \in Chats, DoesWrite(c, "del") \/ DoesWrite(c, "conv") \/ DoesWrite(c,
                 "index")
          PROVE  conv' <= latest' /\ \A d \in Chats : Known(d)'
      <3>1. \A d \in Chats \ {c} : chat'[d] = chat[d]
        BY <1>0, <2>3, RequestMoves
      <3>2. conv' \in {conv, chat[c].session}
        BY <1>0, <2>3, RequestMoves
      <3>3. \/ chat'[c].session = chat[c].session /\ chat[c].at \notin {"idle", "send"}
            \/ chat'[c].session = 0 /\ chat'[c].at = "idle"
        BY <1>0, <2>3, RequestMoves DEF NoRequest
      <3> QED
        BY <1>0, <1>5, <3>1, <3>2, <3>3
    <2> QED
      BY <2>1, <2>2, <2>3, RecordStays
  <1> QED
    BY <1>5, <1>6 DEF SessionsInOrder

(* With one request at a time the index is what its commands leave. *)
LEMMA OneByOneStep ==
  ASSUME ConversationAssumption, ConversationInv, [ConversationNext]_convVars
  PROVE  OneByOne'
  <1> DEFINE Busy(c) == chat[c].at # "idle"
             Found(c) ==
               LET session == chat[c].session
               IN CASE chat[c].at \in {"send", "get"} -> index = {conv} \ {0}
                    [] chat[c].at = "del" -> /\ index = {conv} /\ conv = chat[c].existing
                                            /\ conv \notin {0, session}
                    [] chat[c].at = "conv" -> index = {conv} \cap {session}
                    [] chat[c].at = "index" -> conv = session /\ index \subseteq {session}
                    [] OTHER -> TRUE
             Later(c) == chat[c].at \notin {"idle", "send"} => conv <= chat[c].session
             Alone == \A c, d \in Chats : Busy(c) /\ Busy(d) => c = d
             AtRest == Quiet => index = {conv} \ {0}
  <1> SUFFICES ASSUME NothingFailed', ~ atOnce'
               PROVE  Alone' /\ AtRest' /\ \A c \in Chats : Found(c)' /\ Later(c)'
    BY DEF OneByOne
  <1>a. /\ ConversationTypeOK /\ SessionsInOrder /\ NothingFailed /\ ~ atOnce
        /\ \A c \in Chats : ~ ChatFails(c)
    BY FaultsStay DEF ConversationInv, manners
  <1>b. Alone /\ AtRest /\ \A c \in Chats : Found(c) /\ Later(c)
    BY <1>a DEF ConversationInv, OneByOne
  <1>c. /\ conv \in Nat /\ latest \in Nat /\ conv <= latest
        /\ \A c \in Chats : /\ chat[c].session \in Nat
                            /\ chat[c].at \notin {"idle", "send"} => chat[c].session # 0
    BY <1>a, TokenIsASession DEF ConversationTypeOK, SessionsInOrder, Sessions
  <1>1. CASE UNCHANGED <<conv, index, chat>>
    BY <1>b, <1>1 DEF Quiet
  <1>2. ASSUME NEW c \in Chats, \A d \in Chats \ {c} : chat'[d] = chat[d] /\ ~ Busy(d),
               Found(c)', Later(c)', ~ Busy(c)' => index' = {conv'} \ {0}
        PROVE  Alone' /\ AtRest' /\ \A d \in Chats : Found(d)' /\ Later(d)'
    <2>1. \A d \in Chats \ {c} : chat'[d].at = "idle"
      BY <1>2
    <2>2. \A d \in Chats \ {c} : Found(d)' /\ Later(d)'
      BY <2>1
    <2>3. Alone'
      BY <2>1
    <2>4. AtRest'
      BY <1>2 DEF Quiet
    <2> QED
      BY <1>2, <2>2, <2>3, <2>4
  <1>3. ASSUME NEW c \in Chats, Starts(c), UNCHANGED <<conv, index>>
        PROVE  Alone' /\ AtRest' /\ \A d \in Chats : Found(d)' /\ Later(d)'
    <2>1. /\ chat'[c].at = "send" /\ \A d \in Chats \ {c} : chat'[d] = chat[d]
      BY <1>3, <1>a, RequestMoves
    <2>2. Quiet
      BY <1>3, <1>a DEF Starts
    <2>3. index' = {conv'} \ {0} /\ \A d \in Chats \ {c} : ~ Busy(d)
      BY <1>3, <1>b, <2>2 DEF Quiet
    <2> QED
      BY <1>2, <2>1, <2>3
  <1>4. ASSUME NEW c \in Chats, Busy(c) PROVE \A d \in Chats \ {c} : ~ Busy(d)
    BY <1>4, <1>b
  <1>5. ASSUME NEW c \in Chats, SendChat(c), UNCHANGED <<conv, index>>
        PROVE  Alone' /\ AtRest' /\ \A d \in Chats : Found(d)' /\ Later(d)'
    <2>1. /\ chat[c].at = "send" /\ chat'[c].at = "get" /\ chat'[c].session = TokenSession
          /\ \A d \in Chats \ {c} : chat'[d] = chat[d]
      BY <1>5, <1>a, RequestMoves
    <2>2. Found(c)'
      BY <1>5, <1>b, <2>1
    <2>3. Later(c)'
      BY <1>5, <1>c, <2>1, TokenIsASession
    <2> QED
      BY <1>2, <1>4, <2>1, <2>2, <2>3
  <1>6. ASSUME NEW c \in Chats, GetExisting(c), UNCHANGED <<conv, index>>
        PROVE  Alone' /\ AtRest' /\ \A d \in Chats : Found(d)' /\ Later(d)'
    <2>1. /\ chat[c].at = "get" /\ chat'[c].session = chat[c].session
          /\ chat'[c].existing = conv
          /\ chat'[c].at = IF conv \in {0, chat[c].session} THEN "conv" ELSE "del"
          /\ \A d \in Chats \ {c} : chat'[d] = chat[d]
      BY <1>6, <1>a, RequestMoves
    <2>2. index = {conv} \ {0} /\ chat[c].session # 0 /\ conv <= chat[c].session
      BY <1>b, <1>c, <2>1
    <2>3. Found(c)'
      <3>1. CASE conv \in {0, chat[c].session}
        BY <1>6, <2>1, <2>2, <3>1
      <3>2. CASE conv \notin {0, chat[c].session}
        BY <1>6, <2>1, <2>2, <3>2
      <3> QED
        BY <3>1, <3>2
    <2>4. Later(c)' /\ Busy(c)'
      BY <1>6, <2>1, <2>2
    <2> QED
      BY <1>2, <1>4, <2>1, <2>3, <2>4
  <1>7. ASSUME NEW c \in Chats, DoesWrite(c, "del")
        PROVE  Alone' /\ AtRest' /\ \A d \in Chats : Found(d)' /\ Later(d)'
    <2>1. /\ chat[c].at = "del" /\ chat'[c].at = "conv"
          /\ chat'[c].session = chat[c].session
          /\ conv' = conv /\ index' = index \ {chat[c].existing}
          /\ \A d \in Chats \ {c} : chat'[d] = chat[d]
      BY <1>7, <1>a, RequestMoves
    <2>2. /\ index = {conv} /\ conv = chat[c].existing /\ conv # chat[c].session
          /\ conv <= chat[c].session
      BY <1>b, <2>1
    <2>3. Found(c)'
      BY <2>1, <2>2
    <2> QED
      BY <1>2, <1>4, <2>1, <2>2, <2>3
  <1>8. ASSUME NEW c \in Chats, DoesWrite(c, "conv")
        PROVE  Alone' /\ AtRest' /\ \A d \in Chats : Found(d)' /\ Later(d)'
    <2>1. /\ chat[c].at = "conv" /\ chat'[c].at = "index"
          /\ chat'[c].session = chat[c].session
          /\ conv' = chat[c].session /\ index' = index
          /\ \A d \in Chats \ {c} : chat'[d] = chat[d]
      BY <1>8, <1>a, RequestMoves
    <2>2. index \subseteq {chat[c].session} /\ chat[c].session \in Nat
      BY <1>b, <1>c, <2>1
    <2>3. Found(c)' /\ Later(c)'
      BY <2>1, <2>2
    <2> QED
      BY <1>2, <1>4, <2>1, <2>3
  <1>9. ASSUME NEW c \in Chats, DoesWrite(c, "index")
        PROVE  Alone' /\ AtRest' /\ \A d \in Chats : Found(d)' /\ Later(d)'
    <2>1. /\ chat[c].at = "index" /\ chat'[c].at = "idle"
          /\ conv' = conv /\ index' = index \cup {chat[c].session}
          /\ \A d \in Chats \ {c} : chat'[d] = chat[d]
      BY <1>9, <1>a, RequestMoves DEF NoRequest
    <2>2. conv = chat[c].session /\ index \subseteq {chat[c].session} /\ chat[c].session # 0
      BY <1>b, <1>c, <2>1
    <2>3. index' = {conv'} \ {0}
      BY <2>1, <2>2
    <2> QED
      BY <1>2, <1>4, <2>1, <2>3
  <1> HIDE DEF Found, Later, Alone, AtRest
  <1> QED
    BY <1>1, <1>3, <1>5, <1>6, <1>7, <1>8, <1>9, <1>a, RecordStays

(* With one request at a time no other session than that of the record is
   indexed. *)
LEMMA IndexedIsRecorded ==
  ASSUME ConversationInv, NothingFailed, ~ atOnce, NEW s \in index
  PROVE  s = conv
  <1>1. OneByOne /\ RequestsOK
    BY ConversationTypeParts DEF ConversationInv
  <1>2. CASE Quiet
    BY <1>1, <1>2 DEF OneByOne
  <1>3. ASSUME NEW c \in Chats, chat[c].at # "idle" PROVE s = conv
    <2>1. chat[c].at \in {"send", "get", "del", "conv", "index"}
      BY <1>1, <1>3 DEF RequestsOK, Steps
    <2> QED
      BY <1>1, <2>1 DEF OneByOne
  <1> QED
    BY <1>2, <1>3 DEF Quiet

(* The session of a subscription stays live and recorded until its wake. *)
LEMMA KeptStep ==
  ASSUME ConversationAssumption, ConversationInv, [ConversationNext]_convVars
  PROVE  SessionIsKept'
  <1> DEFINE Recorded ==
         convSub \in {"pending", "armed", "delivering"} => liveSession = conv /\ conv # 0
             Once ==
               /\ convSub \in {"pending", "armed"} => woken = 0 /\ wake = NoWake
               /\ convSub = "delivering" =>
                    CASE wake.at = "idle" -> woken = 0
                      [] wake.at = "send" -> woken = 0 /\ wake.expected = conv
                      [] OTHER -> woken = 1
               /\ convSub \in {"none", "fired"} => wake = NoWake /\ woken <= 1
  <1> SUFFICES ASSUME NothingFailed', ~ atOnce', ~ anytime' PROVE Recorded' /\ Once'
    BY DEF SessionIsKept
  <1>a. /\ ConversationTypeOK /\ NothingFailed /\ ~ atOnce /\ ~ anytime
        /\ ~ WakeFails /\ \A s \in Sessions : ~ TurnFails(s)
    BY FaultsStay DEF ConversationInv, manners
  <1>b. Recorded /\ Once
    BY <1>a DEF ConversationInv, SessionIsKept
  <1>c. /\ convSub \in Status /\ wake.at \in {"idle", "send", "sent"} /\ woken \in Nat
    BY <1>a DEF ConversationTypeOK
  <1>1. CASE UNCHANGED <<liveSession, conv, delivery>>
    BY <1>b, <1>1 DEF delivery
  <1>2. ASSUME NEW c \in Chats, SendChat(c) PROVE Recorded' /\ Once'
    <2>1. UNCHANGED <<conv, delivery>> /\ liveSession' = TokenSession
      BY <1>2 DEF SendChat, address, Sends
    <2> QED
      BY <1>b, <2>1, TokenIsASession DEF delivery
  <1>3. ASSUME NEW c \in Chats, DoesWrite(c, "conv") PROVE Recorded' /\ Once'
    <2>1. /\ conv' = chat[c].session /\ UNCHANGED <<liveSession, delivery>>
          /\ chat[c].at = "conv"
      BY <1>3, <1>a, RequestMoves DEF DoesWrite, eve
    <2>2. CASE convSub \in {"pending", "armed", "delivering"}
      <3>1. liveSession = conv /\ conv # 0 /\ liveSession \in {0, latest}
        BY <1>b, <2>2 DEF ConversationInv, SessionsInOrder
      <3>2. conv <= chat[c].session /\ chat[c].session <= latest
        BY <1>a, <2>1 DEF ConversationInv, OneByOne, SessionsInOrder
      <3>3. conv \in Nat /\ latest \in Nat /\ chat[c].session \in Nat
        BY <1>a, TokenIsASession DEF ConversationTypeOK, Sessions
      <3>4. conv' = conv
        BY <2>1, <3>1, <3>2, <3>3
      <3> QED
        BY <1>b, <2>1, <3>4 DEF delivery
    <2>3. CASE convSub \notin {"pending", "armed", "delivering"}
      BY <1>b, <2>1, <2>3 DEF delivery
    <2> QED
      BY <2>2, <2>3
  <1>4. ASSUME NEW s \in Sessions, Subscribe(s) PROVE Recorded' /\ Once'
    <2>1. s = conv
      BY <1>4, <1>a, IndexedIsRecorded DEF Subscribe
    <2>2. s = liveSession
      BY <1>4, <1>a DEF Subscribe, ConversationInv, SessionsInOrder, ConversationTypeOK
    <2> QED
      BY <1>4, <1>b, <2>1, <2>2 DEF Subscribe, eve, address
  <1>5. ASSUME NEW s \in Sessions, TurnCompletes(s) PROVE Recorded' /\ Once'
    BY <1>5, <1>b DEF TurnCompletes, address
  <1>6. CASE Fires
    BY <1>6, <1>b DEF Fires, eve, address, NoWake
  <1>7. CASE Wake
    BY <1>7, <1>b DEF Wake, eve, address
  <1>8. CASE SendWake
    <2>1. convSub = "delivering"
      BY <1>8, <1>b, <1>c DEF SendWake, NoWake, Status
    <2>2. /\ woken = 0 /\ wake.expected = conv /\ liveSession = conv /\ conv # 0
      BY <1>8, <1>b, <2>1 DEF SendWake
    <2>3. /\ TokenSession = conv /\ liveSession' = conv /\ UNCHANGED <<conv, convSub>>
          /\ woken' = 1 /\ wake' = [wake EXCEPT !.at = "sent"]
      BY <1>8, <2>2, TokenIsASession DEF SendWake, Sends, address
    <2>4. wake'.at = "sent"
      BY <1>a, <2>3 DEF ConversationTypeOK
    <2> QED
      BY <2>1, <2>2, <2>3, <2>4
  <1>9. CASE SettleWake
    <2>1. convSub = "delivering"
      BY <1>9, <1>b, <1>c DEF SettleWake, NoWake, Status
    <2> QED
      BY <1>9, <1>b, <2>1 DEF SettleWake, eve, address
  <1>10. CASE Reload
    <2>1. convSub \in {"none", "fired"} /\ UNCHANGED delivery
      BY <1>10, <1>a DEF Reload
    <2> QED
      BY <1>b, <2>1 DEF delivery
  <1>11. \/ UNCHANGED <<liveSession, conv, delivery>>
         \/ \E c \in Chats : SendChat(c) \/ DoesWrite(c, "conv")
         \/ \E s \in Sessions : Subscribe(s) \/ TurnCompletes(s) \/ TurnFails(s)
         \/ Fires \/ Wake \/ SendWake \/ WakeFails \/ SettleWake \/ Reload
    BY DEF ConversationNext, convVars, eve, address, Chat, MarketOpen, GetExisting, ChatFails,
      DoesWrite, MarketOpenRefused, DayEnds
  <1> HIDE DEF Recorded, Once
  <1> QED
    BY <1>1, <1>2, <1>3, <1>4, <1>5, <1>6, <1>7, <1>8, <1>9, <1>10, <1>11, <1>a

(* The conversation begins in the invariant and every step keeps it. *)
LEMMA ConversationStart ==
  ASSUME ConversationAssumption, ConversationInit
  PROVE  ConversationInv
  <1>1. RequestsOK
    <2>1. NoRequest \in [at: Steps, session: Sessions \cup {0}, existing: Sessions \cup {0}]
      BY DEF NoRequest, Steps
    <2> QED
      BY <2>1 DEF ConversationInit, RequestsOK
  <1>2. SessionsOK /\ DeliveryOK /\ CountersOK
    BY DEF ConversationAssumption, ConversationInit, SessionsOK, DeliveryOK, CountersOK, Status,
      NoWake
  <1>3. atOnce \in BOOLEAN /\ anytime \in BOOLEAN /\ opened \in BOOLEAN
    BY DEF ConversationInit
  <1>4. \A c \in Chats : chat[c].at = "idle" /\ chat[c].session = 0
    BY DEF ConversationInit, NoRequest
  <1>5. SessionsInOrder
    BY <1>4 DEF ConversationInit, SessionsInOrder
  <1>6. OneByOne
    BY <1>4 DEF ConversationInit, OneByOne
  <1>7. IndexFollows /\ SessionIsKept
    BY DEF ConversationInit, IndexFollows, SessionIsKept
  <1> QED
    BY <1>1, <1>2, <1>3, <1>5, <1>6, <1>7, ConversationTypeParts DEF ConversationInv

(* Every step of the conversation keeps its invariant. *)
LEMMA ConversationStep ==
  ASSUME ConversationAssumption, ConversationInv, [ConversationNext]_convVars
  PROVE  ConversationInv'
  <1>1. RequestsOK' /\ SessionsOK' /\ DeliveryOK' /\ CountersOK'
    BY RequestsStep, SessionsStep, DeliveryStep, CountersStep
  <1>2. ConversationTypeOK'
    BY <1>1, MannersStep
    DEF ConversationTypeOK, RequestsOK, SessionsOK, DeliveryOK, CountersOK, Steps
  <1> QED
    BY <1>2, IndexStep, SessionsInOrderStep, OneByOneStep, KeptStep DEF ConversationInv

(* What it says of the record, the index and the wakes. *)
LEMMA ConversationIsFound ==
  ASSUME ConversationInv
  PROVE  RecordIsIndexed /\ OnlyTheRecordIsIndexed /\ WokenOnce
  <1>1. RecordIsIndexed
    BY DEF ConversationInv, IndexFollows, RecordIsIndexed, Quiet
  <1>2. OnlyTheRecordIsIndexed
    BY DEF ConversationInv, OneByOne, OnlyTheRecordIsIndexed
  <1>3. WokenOnce
    <2>1. convSub \in Status /\ woken \in Nat /\ wake.at \in {"idle", "send", "sent"}
      BY DEF ConversationInv, ConversationTypeOK
    <2>2. /\ NothingFailed /\ ~ atOnce /\ ~ anytime =>
               /\ convSub \in {"pending", "armed"} => woken = 0
               /\ convSub = "delivering" => woken \in {0, 1}
               /\ convSub \in {"none", "fired"} => woken <= 1
      BY <2>1 DEF ConversationInv, SessionIsKept
    <2> QED
      BY <2>1, <2>2 DEF WokenOnce, Status
  <1> QED
    BY <1>1, <1>2, <1>3

-----------------------------------------------------------------------------
(* The turn cap *)

USE LimitAssumption, BoundsAssumption

-----------------------------------------------------------------------------
(* The holders of tickets are finitely many, one more or one fewer when a   *)
(* request gets a ticket or leaves.                                         *)

(* A part of a finite set is no larger than the set. *)
LEMMA SubsetSmaller ==
  ASSUME NEW S, NEW T, IsFiniteSet(S), T \subseteq S
  PROVE  IsFiniteSet(T) /\ Cardinality(T) \in Nat /\ Cardinality(T) <= Cardinality(S)
  BY FS_Subset, FS_CardinalityType

(* One element makes a finite set larger by at most one. *)
LEMMA OneMore ==
  ASSUME NEW S, NEW x, IsFiniteSet(S)
  PROVE  IsFiniteSet(S \cup {x}) /\ Cardinality(S \cup {x}) <= Cardinality(S) + 1
  <1>1. /\ IsFiniteSet(S \cup {x})
        /\ Cardinality(S \cup {x}) = IF x \in S THEN Cardinality(S) ELSE Cardinality(S) + 1
    BY FS_AddElement
  <1>2. Cardinality(S) \in Nat
    BY FS_CardinalityType
  <1> QED
    BY <1>1, <1>2

(* One element fewer makes a finite set smaller by one. *)
LEMMA OneLess ==
  ASSUME NEW S, NEW x \in S, IsFiniteSet(S)
  PROVE  IsFiniteSet(S \ {x}) /\ Cardinality(S \ {x}) = Cardinality(S) - 1
  <1>1. /\ IsFiniteSet(S \ {x})
        /\ Cardinality(S \ {x}) = IF x \in S THEN Cardinality(S) - 1 ELSE Cardinality(S)
    BY FS_RemoveElement
  <1> QED
    BY <1>1

(* The holders of the tickets of a day can be counted. *)
LEMMA HoldersFinite ==
  ASSUME NEW d
  PROVE  IsFiniteSet(Holders(d)) /\ Cardinality(Holders(d)) \in Nat
  <1>1. Holders(d) \subseteq Request
    BY DEF Holders
  <1> QED
    BY <1>1, RequestAssumption, SubsetSmaller

(* When nobody gets a ticket of the day, its holders are no more. *)
LEMMA NoMoreHolders ==
  ASSUME NEW d, Holders(d)' \subseteq Holders(d)
  PROVE  Cardinality(Holders(d)') \in Nat /\ Cardinality(Holders(d)') <= Cardinality(Holders(d))
  BY HoldersFinite, SubsetSmaller

(* When one request gets a ticket, its holders are at most one more. *)
LEMMA OneMoreHolder ==
  ASSUME NEW d, NEW r, Holders(d)' \subseteq Holders(d) \cup {r}
  PROVE  /\ Cardinality(Holders(d)') \in Nat
         /\ Cardinality(Holders(d)') <= Cardinality(Holders(d)) + 1
  <1> DEFINE more == Holders(d) \cup {r}
  <1>1. IsFiniteSet(Holders(d)) /\ Cardinality(Holders(d)) \in Nat
    BY HoldersFinite
  <1>2. IsFiniteSet(more) /\ Cardinality(more) <= Cardinality(Holders(d)) + 1
    BY <1>1, OneMore
  <1>3. Cardinality(Holders(d)') \in Nat /\ Cardinality(Holders(d)') <= Cardinality(more)
    BY <1>2, SubsetSmaller
  <1>4. Cardinality(more) \in Nat
    BY <1>2, FS_CardinalityType
  <1> QED
    BY <1>1, <1>2, <1>3, <1>4

(* When a holder leaves or starts its turn, its holders are one fewer. *)
LEMMA OneHolderLess ==
  ASSUME NEW d, NEW r \in Holders(d), Holders(d)' \subseteq Holders(d) \ {r}
  PROVE  /\ Cardinality(Holders(d)') \in Nat
         /\ Cardinality(Holders(d)') <= Cardinality(Holders(d)) - 1
  <1>1. IsFiniteSet(Holders(d) \ {r}) /\ Cardinality(Holders(d) \ {r}) = Cardinality(Holders(d)) - 1
    BY HoldersFinite, OneLess
  <1> QED
    BY <1>1, SubsetSmaller

-----------------------------------------------------------------------------
(* Each conjunct of the invariant, step by step.                            *)

(* A request that goes on is at a step of the handler. *)
LEMMA GotoTypes ==
  ASSUME CapTypeOK, NEW r \in Request,
         NEW label \in {"idle", "incr", "expire", "decide", "open", "send"}, RequestGoto(r, label)
  PROVE  pc' \in [Request -> {"idle", "incr", "expire", "decide", "open", "send"}]
  BY DEF CapTypeOK, RequestGoto

(* So is one that leaves, and it has no ticket any more. *)
LEMMA LeaveTypes ==
  ASSUME CapTypeOK, NEW r \in Request, Leave(r)
  PROVE  /\ pc' \in [Request -> {"idle", "incr", "expire", "decide", "open", "send"}]
         /\ ticket' \in [Request -> Nat]
  <1>1. ticket' = [ticket EXCEPT ![r] = 0] /\ RequestGoto(r, "idle")
    BY DEF Leave
  <1> QED
    BY <1>1, GotoTypes DEF CapTypeOK

(* Every step of the cap keeps the types. *)
LEMMA CapTypeStep == CapTypeOK /\ [CapNext]_capVars => CapTypeOK'
  <1> SUFFICES ASSUME CapTypeOK, [CapNext]_capVars PROVE CapTypeOK'
    OBVIOUS
  <1>1. ASSUME NEW r \in Request, Arrive(r) \/ StoreFails(r)
        PROVE  CapTypeOK'
    BY <1>1, GotoTypes DEF CapTypeOK, Arrive, StoreFails
  <1>2. ASSUME NEW r \in Request, Incr(r)
        PROVE  CapTypeOK'
    BY <1>2, GotoTypes DEF CapTypeOK, Incr
  <1>3. ASSUME NEW r \in Request, Expire(r)
        PROVE  CapTypeOK'
    BY <1>3, GotoTypes DEF CapTypeOK, Expire
  <1>4. ASSUME NEW r \in Request, Decide(r)
        PROVE  CapTypeOK'
    <2>1. (RequestGoto(r, "send") /\ ticket' = ticket) \/ Leave(r)
      BY <1>4 DEF Decide
    <2>2. /\ pc' \in [Request -> {"idle", "incr", "expire", "decide", "open", "send"}]
          /\ ticket' \in [Request -> Nat]
      BY <2>1, GotoTypes, LeaveTypes DEF CapTypeOK
    <2> QED
      BY <1>4, <2>2 DEF CapTypeOK, Decide
  <1>5. ASSUME NEW r \in Request, StartTurn(r)
        PROVE  CapTypeOK'
    BY <1>5, LeaveTypes DEF CapTypeOK, StartTurn
  <1>6. ASSUME NEW r \in Request, NoTurn(r) \/ Crash(r)
        PROVE  CapTypeOK'
    BY <1>6, LeaveTypes DEF CapTypeOK, NoTurn, Crash
  <1>7. CASE Midnight
    BY <1>7 DEF CapTypeOK, Midnight, Day
  <1>8. ASSUME NEW d \in Day, KeyExpires(d)
        PROVE  CapTypeOK'
    BY <1>8 DEF CapTypeOK, KeyExpires
  <1>9. CASE UNCHANGED capVars
    BY <1>9 DEF CapTypeOK, capVars
  <1> QED
    BY <1>1, <1>2, <1>3, <1>4, <1>5, <1>6, <1>7, <1>8, <1>9 DEF CapNext

(* Only the ticket and the place of the request that steps change, and an   *)
(* allowed request is one whose ticket is within the limit.                 *)
LEMMA TicketsStep == CapTypeOK /\ TicketsInOrder /\ [CapNext]_capVars => TicketsInOrder'
  <1> SUFFICES ASSUME CapTypeOK, TicketsInOrder, [CapNext]_capVars PROVE TicketsInOrder'
    OBVIOUS
  <1> USE DEF CapTypeOK, TicketsInOrder, RequestGoto
  <1>1. ASSUME NEW r \in Request, Arrive(r)
        PROVE  TicketsInOrder'
    BY <1>1 DEF Arrive
  <1>2. ASSUME NEW r \in Request, Incr(r)
        PROVE  TicketsInOrder'
    <2>1. count[day[r]] + 1 > 0 /\ count[day[r]] \in Nat
      OBVIOUS
    <2> QED
      BY <1>2, <2>1 DEF Incr
  <1>3. ASSUME NEW r \in Request, Expire(r)
        PROVE  TicketsInOrder'
    BY <1>3 DEF Expire
  <1>4. ASSUME NEW r \in Request, Decide(r)
        PROVE  TicketsInOrder'
    <2>1. ticket[r] \in Nat /\ ticket[r] > 0
      BY <1>4 DEF Decide
    <2>2. CASE isWithinTurnCap(ticket[r])
      BY <1>4, <2>1, <2>2 DEF Decide, isWithinTurnCap
    <2>3. CASE ~ isWithinTurnCap(ticket[r])
      BY <1>4, <2>3 DEF Decide, Leave
    <2> QED
      BY <2>2, <2>3
  <1>5. ASSUME NEW r \in Request, StoreFails(r)
        PROVE  TicketsInOrder'
    BY <1>5 DEF StoreFails
  <1>6. ASSUME NEW r \in Request, StartTurn(r) \/ NoTurn(r) \/ Crash(r)
        PROVE  TicketsInOrder'
    BY <1>6 DEF StartTurn, NoTurn, Crash, Leave
  <1>7. CASE Midnight
    BY <1>7 DEF Midnight
  <1>8. ASSUME NEW d \in Day, KeyExpires(d)
        PROVE  TicketsInOrder'
    BY <1>8 DEF KeyExpires
  <1>9. CASE UNCHANGED capVars
    BY <1>9 DEF capVars
  <1> QED
    BY <1>1, <1>2, <1>3, <1>4, <1>5, <1>6, <1>7, <1>8, <1>9 DEF CapNext

(* Every step keeps the time to live of a key that has it. *)
LEMMA KeyStep ==
  CapTypeOK /\ TicketsInOrder /\ KeySelfExpires /\ [CapNext]_capVars => KeySelfExpires'
  <1> SUFFICES ASSUME CapTypeOK, TicketsInOrder, KeySelfExpires, [CapNext]_capVars
               PROVE  KeySelfExpires'
    OBVIOUS
  <1> USE DEF CapTypeOK, TicketsInOrder, KeySelfExpires
  <1>1. ASSUME NEW r \in Request, Expire(r) \/ Decide(r)
        PROVE  KeySelfExpires'
    BY <1>1 DEF Expire, Decide
  <1>2. ASSUME NEW d \in Day, KeyExpires(d)
        PROVE  KeySelfExpires'
    BY <1>2 DEF KeyExpires
  <1>3. CASE UNCHANGED <<ttl, answered>>
    BY <1>3
  <1> QED
    BY <1>1, <1>2, <1>3
    DEF CapNext, Arrive, Incr, StoreFails, StartTurn, NoTurn, Crash, Midnight, capVars

(* What a step that starts no turn and hands out no ticket leaves covered.  *)
LEMMA CoverKept ==
  ASSUME NEW d \in Day, CapTypeOK, CapTypeOK', CoverAt(d),
         Holders(d)' \subseteq Holders(d), UNCHANGED <<count, started>>,
         d < today => d < today' /\ (Counting(d)' => Counting(d))
  PROVE  CoverAt(d)'
  <1>1. /\ Cardinality(Holders(d)) \in Nat /\ Cardinality(Holders(d)') \in Nat
        /\ Cardinality(Holders(d)') <= Cardinality(Holders(d))
    BY HoldersFinite, NoMoreHolders
  <1>2. started[d] \in Nat /\ count[d] \in Nat
    BY DEF CapTypeOK
  <1> QED
    BY <1>1, <1>2 DEF CoverAt

(* Every step keeps the turns and tickets of a day covered. *)
LEMMA CoverStep ==
  CapTypeOK /\ TicketsInOrder /\ TicketsCover /\ [CapNext]_capVars => TicketsCover'
  <1> SUFFICES ASSUME CapTypeOK, TicketsInOrder, TicketsCover, [CapNext]_capVars, NEW d \in Day
               PROVE  CoverAt(d)'
    BY DEF TicketsCover, Day
  <1>t. CapTypeOK'
    BY CapTypeStep
  <1>c. CoverAt(d)
    BY DEF TicketsCover
  <1>h. /\ Cardinality(Holders(d)) \in Nat
        /\ started[d] \in Nat /\ count[d] \in Nat /\ today \in Nat /\ d \in Nat
    BY HoldersFinite DEF CapTypeOK, Day
  <1>1. ASSUME NEW r \in Request, Arrive(r)
        PROVE  CoverAt(d)'
    <2>1. Holders(d)' \subseteq Holders(d)
      BY <1>1 DEF Arrive, Holders, TicketsInOrder, CapTypeOK
    <2>2. d < today => d < today' /\ (Counting(d)' => Counting(d))
      BY <1>1, <1>h DEF Arrive, RequestGoto, Counting, CapTypeOK
    <2> QED
      BY <1>1, <1>t, <1>c, <2>1, <2>2, CoverKept DEF Arrive
  <1>2. ASSUME NEW r \in Request,
               Expire(r) \/ Decide(r) \/ StoreFails(r) \/ NoTurn(r) \/ Crash(r)
        PROVE  CoverAt(d)'
    <2>1. Holders(d)' \subseteq Holders(d)
      BY <1>2 DEF Expire, Decide, StoreFails, NoTurn, Crash, Leave, Holders, CapTypeOK
    <2>2. d < today => d < today' /\ (Counting(d)' => Counting(d))
      BY <1>2 DEF Expire, Decide, StoreFails, NoTurn, Crash, RequestGoto, Leave, Counting, CapTypeOK
    <2> QED
      BY <1>2, <1>t, <1>c, <2>1, <2>2, CoverKept
      DEF Expire, Decide, StoreFails, NoTurn, Crash
  <1>3. ASSUME NEW r \in Request, Incr(r)
        PROVE  CoverAt(d)'
    <2>1. CASE day[r] = d
      <3>1. Counting(d) /\ ticket[r] = 0
        BY <1>3, <2>1 DEF Incr, Counting, TicketsInOrder
      <3>2. started[d] + Cardinality(Holders(d)) <= count[d]
        BY <1>c, <3>1 DEF CoverAt
      <3>3. /\ count'[d] = count[d] + 1 /\ started' = started
            /\ ticket' = [ticket EXCEPT ![r] = count[d] + 1] /\ day' = day
        BY <1>3, <2>1, <1>t DEF Incr, CapTypeOK
      <3>4. CASE count[d] + 1 <= Limit
        <4>1. Holders(d)' \subseteq Holders(d) \cup {r}
          BY <3>3 DEF Holders, CapTypeOK
        <4>2. /\ Cardinality(Holders(d)') \in Nat
              /\ Cardinality(Holders(d)') <= Cardinality(Holders(d)) + 1
          BY <4>1, OneMoreHolder
        <4> QED
          BY <1>h, <3>2, <3>3, <3>4, <4>2 DEF CoverAt
      <3>5. CASE ~ count[d] + 1 <= Limit
        <4>1. Holders(d)' \subseteq Holders(d)
          BY <3>3, <3>5, <1>h DEF Holders, CapTypeOK
        <4>2. /\ Cardinality(Holders(d)') \in Nat
              /\ Cardinality(Holders(d)') <= Cardinality(Holders(d))
          BY <4>1, NoMoreHolders
        <4> QED
          BY <1>h, <1>c, <3>2, <3>3, <4>2 DEF CoverAt
      <3> QED
        BY <3>4, <3>5
    <2>2. CASE day[r] # d
      <3>1. Holders(d)' \subseteq Holders(d)
        BY <1>3, <2>2 DEF Incr, Holders, CapTypeOK
      <3>2. Cardinality(Holders(d)') \in Nat /\ Cardinality(Holders(d)') <= Cardinality(Holders(d))
        BY <3>1, NoMoreHolders
      <3>3. count'[d] = count[d] /\ started' = started /\ today' = today
        BY <1>3, <2>2 DEF Incr, CapTypeOK
      <3>4. Counting(d)' => Counting(d)
        BY <1>3, <2>2 DEF Incr, RequestGoto, Counting, CapTypeOK
      <3> QED
        BY <1>h, <1>c, <3>2, <3>3, <3>4 DEF CoverAt
    <2> QED
      BY <2>1, <2>2
  <1>4. ASSUME NEW r \in Request, StartTurn(r)
        PROVE  CoverAt(d)'
    <2>0. /\ Counting(d)' => Counting(d)
          /\ count' = count /\ today' = today
      BY <1>4 DEF StartTurn, RequestGoto, Leave, Counting, CapTypeOK
    <2>1. CASE pc[r] = "send" /\ day[r] = d
      <3>1. r \in Holders(d)
        BY <2>1 DEF Holders, TicketsInOrder
      <3>2. Holders(d)' \subseteq Holders(d) \ {r}
        BY <1>4 DEF StartTurn, Leave, Holders, CapTypeOK
      <3>3. /\ Cardinality(Holders(d)') \in Nat
            /\ Cardinality(Holders(d)') <= Cardinality(Holders(d)) - 1
        BY <3>1, <3>2, OneHolderLess
      <3>4. started'[d] = started[d] + 1
        BY <1>4, <2>1 DEF StartTurn, CapTypeOK
      <3> QED
        BY <1>h, <1>c, <2>0, <3>3, <3>4 DEF CoverAt
    <2>2. CASE ~ (pc[r] = "send" /\ day[r] = d)
      <3>1. Holders(d)' \subseteq Holders(d)
        BY <1>4 DEF StartTurn, Leave, Holders, CapTypeOK
      <3>2. Cardinality(Holders(d)') \in Nat /\ Cardinality(Holders(d)') <= Cardinality(Holders(d))
        BY <3>1, NoMoreHolders
      <3>3. started'[d] = started[d]
        BY <1>4, <2>2 DEF StartTurn, CapTypeOK
      <3> QED
        BY <1>h, <1>c, <2>0, <3>2, <3>3 DEF CoverAt
    <2> QED
      BY <2>1, <2>2
  <1>5. CASE Midnight
    <2>1. Holders(d)' \subseteq Holders(d)
      BY <1>5 DEF Midnight, Holders
    <2>2. d < today => d < today' /\ (Counting(d)' => Counting(d))
      BY <1>5, <1>h DEF Midnight, Counting
    <2> QED
      BY <1>5, <1>t, <1>c, <2>1, <2>2, CoverKept DEF Midnight
  <1>6. ASSUME NEW e \in Day, KeyExpires(e)
        PROVE  CoverAt(d)'
    <2>0. /\ started' = started /\ today' = today
          /\ Holders(d)' = Holders(d) /\ (Counting(d)' <=> Counting(d))
      BY <1>6 DEF KeyExpires, Holders, Counting
    <2>1. CASE e = d
      <3>1. d < today /\ ~ Counting(d)
        BY <1>6, <2>1 DEF KeyExpires, Counting
      <3> QED
        BY <1>c, <2>0, <3>1 DEF CoverAt
    <2>2. CASE e # d
      <3>1. count'[d] = count[d]
        BY <1>6, <2>2 DEF KeyExpires, CapTypeOK
      <3> QED
        BY <1>c, <2>0, <3>1 DEF CoverAt
    <2> QED
      BY <2>1, <2>2
  <1>7. CASE UNCHANGED capVars
    BY <1>7, <1>c DEF capVars, CoverAt, Holders, Counting
  <1> QED
    BY <1>1, <1>2, <1>3, <1>4, <1>5, <1>6, <1>7 DEF CapNext

(* The cap starts with no turn and no ticket. *)
LEMMA CapStart == CapInit => CapInv
  <1> SUFFICES ASSUME CapInit PROVE CapInv
    OBVIOUS
  <1>1. CapTypeOK /\ TicketsInOrder /\ KeySelfExpires
    BY DEF CapInit, CapTypeOK, TicketsInOrder, KeySelfExpires, Day
  <1>2. ASSUME NEW d \in Day PROVE CoverAt(d)
    <2>1. Holders(d) = {}
      BY DEF CapInit, Holders
    <2>2. Cardinality(Holders(d)) = 0
      BY <2>1, FS_EmptySet
    <2> QED
      BY <2>2 DEF CapInit, CoverAt
  <1> QED
    BY <1>1, <1>2 DEF CapInv, TicketsCover

(* Every step of the cap keeps its invariant. *)
LEMMA CapStep == CapInv /\ [CapNext]_capVars => CapInv'
  BY CapTypeStep, TicketsStep, CoverStep, KeyStep DEF CapInv

(* The invariant holds of every reachable state of the cap. *)
LEMMA CapInvariance == CapSpec => []CapInv
  BY CapStart, CapStep, PTL DEF CapSpec

(* "a turn that would exceed it must never reach send()" (turn-cap.ts): the *)
(* turns started on the tickets of a day are within the limit.              *)
THEOREM CapIsKept == CapSpec => []CapHolds
  <1>1. CapInv => CapHolds
    <2> SUFFICES ASSUME CapInv, NEW d \in Day PROVE started[d] <= Limit
      BY DEF CapHolds
    <2>1. started[d] + Cardinality(Holders(d)) <= Limit
      BY DEF CapInv, TicketsCover, CoverAt
    <2>2. Cardinality(Holders(d)) \in Nat /\ started[d] \in Nat
      BY HoldersFinite DEF CapInv, CapTypeOK
    <2> QED
      BY <2>1, <2>2
  <1> QED
    BY CapInvariance, <1>1, PTL

(* The counter key is "self-repairing" (turn-cap.ts): it has a time to live *)
(* once a check of its day ran to its end.                                  *)
THEOREM KeyIsKept == CapSpec => []KeySelfExpires
  <1>1. CapInv => KeySelfExpires
    BY DEF CapInv
  <1> QED
    BY CapInvariance, <1>1, PTL

-----------------------------------------------------------------------------
(* The process *)

(* The invariant of each component, whichever steps. *)
EveInv ==
  /\ TimersInv /\ WatcherInv /\ PriceInv /\ OrderInv /\ CapInv /\ ConversationInv

(* A step of the process is a step of one component, and of each of the     *)
(* others a stutter.                                                        *)
LEMMA StepOfOne ==
  ASSUME [Next]_vars
  PROVE  /\ [TimersNext]_timersVars /\ [WatcherNext]_watcherVars /\ [PriceNext]_priceVars
         /\ [OrderNext]_orderVars /\ [CapNext]_capVars /\ [ConversationNext]_convVars
  <1>1. CASE UNCHANGED vars
    BY <1>1 DEF vars
  <1>2. CASE Next
    <2>1. CASE TimersNext /\ Rest("clock")
      BY <2>1 DEF Rest
    <2>2. CASE WatcherNext /\ Rest("edgar")
      BY <2>2 DEF Rest
    <2>3. CASE PriceNext /\ Rest("prices")
      BY <2>3 DEF Rest
    <2>4. CASE OrderNext /\ Rest("orders")
      BY <2>4 DEF Rest
    <2>5. CASE CapNext /\ Rest("cap")
      BY <2>5 DEF Rest
    <2>6. CASE ConversationNext /\ Rest("conversation")
      BY <2>6 DEF Rest
    <2> QED
      BY <1>2, <2>1, <2>2, <2>3, <2>4, <2>5, <2>6 DEF Next
  <1> QED
    BY <1>1, <1>2

(* The process starts in the invariant. *)
LEMMA EveStarts ==
  ASSUME Init
  PROVE  EveInv
  BY EveAssumption, TimersStart, WatcherStart, PriceStart, OrderStart, CapStart, ConversationStart
  DEF EveAssumption, Init, EveInv

(* Every step of the process keeps the invariant. *)
LEMMA EveSteps ==
  ASSUME EveInv, [Next]_vars
  PROVE  EveInv'
  BY EveAssumption, StepOfOne, TimersStep, WatcherStep, PriceStep, OrderStep, CapStep,
    ConversationStep
  DEF EveAssumption, EveInv

(* Every state of the process keeps the invariants of its components.       *)
THEOREM EveIsSound == Spec => []EveInv
  BY EveStarts, EveSteps, PTL DEF Spec

(* The components share nothing: whatever the process does is a behaviour   *)
(* of each of them.                                                         *)
THEOREM EveIsApart ==
  Spec => /\ TimersSpec /\ WatcherSpec /\ PriceSpec /\ OrderSpec /\ CapSpec /\ ConversationSpec
  <1>1. Init => /\ TimersInit /\ WatcherInit /\ PriceInit /\ OrderInit /\ CapInit
                /\ ConversationInit
    BY DEF Init
  <1> QED
    BY <1>1, StepOfOne, PTL
    DEF Spec, TimersSpec, WatcherSpec, PriceSpec, OrderSpec, CapSpec, ConversationSpec

(* Every variable keeps its type, bounds included.                          *)
THEOREM EveTypes == Spec => []Types
  <1>1. EveInv => Types
    BY DEF EveInv, TimersInv, WatcherInv, PriceInv, OrderInv, CapInv, ConversationInv, Types
  <1> QED
    BY EveIsSound, <1>1, PTL

(* The clock's timers and records are those of the subscriptions that still *)
(* need them, whichever of an attempt, an expiry, a sweep and a delivery    *)
(* elsewhere comes first (src/catalog/providers/clock.ts:46-54, 98-150).    *)
THEOREM TimersKeepToTheirRecords == Spec => []TimersMatchRecords
  <1>1. EveInv => TimersMatchRecords
    BY EveAssumption, TimersAreTheRecords DEF EveAssumption, EveInv, TimersMatchRecords
  <1> QED
    BY EveIsSound, <1>1, PTL

(* A timer that ends before the target waited a whole chunk, however far    *)
(* the target (src/catalog/providers/clock.ts:68-96).                       *)
THEOREM ChunksAreWhole == Spec => ChunksAreLong
  <1>1. EveInv /\ [Next]_vars =>
          [\A t \in pending' \ pending :
             t.kind = "chunk" => t.at = clockNow + MaxTimeout \/ Target <= t.at]_timersVars
    BY EveAssumption, StepOfOne, ChunkStep DEF EveAssumption, EveInv
  <1> QED
    BY EveIsSound, <1>1, PTL DEF Spec, ChunksAreLong

(* Each watcher keeps up exactly the watches that somebody has claimed,     *)
(* however arms, disarms, drops and failures interleave                     *)
(* (src/catalog/providers/edgar.ts:84-160, alpaca.ts:179-188, 245-246), as  *)
(* long as a stream of trade updates that has worked is not rejected later. *)
THEOREM WatchesAreClaimed ==
  ASSUME ~ Reauth
  PROVE  Spec => []WatchesMatchClaims
  <1>1. EveInv => WatchesMatchClaims
    BY ClaimsAreLive DEF EveInv, WatcherInv, PriceInv, OrderInv, WatchesMatchClaims
  <1> QED
    BY EveIsSound, <1>1, PTL

(* A price wake tells of a crossing between prices the stream or the API    *)
(* gave after the arming, in their order unless the answer is ahead of the  *)
(* stream or behind it, and an order wake of an order that has ended; while *)
(* the connection holds and the seed keeps its order no crossing is missed  *)
(* (src/catalog/providers/alpaca.ts:108-143, 166-170, 234-243, 353-356).    *)
THEOREM WakesTellTheTruth == Spec => []WakesAreTrue
  <1>1. EveInv => WakesAreTrue
    BY EveAssumption, PriceMissesNothing
    DEF EveAssumption, EveInv, PriceInv, OrderInv, WakesAreTrue
  <1> QED
    BY EveIsSound, <1>1, PTL

(* Whatever chats, turns, wakes and reloads do at once, the recorded session *)
(* finds its conversation, and one that is kept is woken once               *)
(* (src/catalog/registry.ts:257-281, src/catalog/wake.ts:80-85).            *)
THEOREM ConversationIsKept == Spec => []ConversationIsReached
  <1>1. EveInv => ConversationIsReached
    BY ConversationIsFound DEF EveInv, ConversationIsReached
  <1> QED
    BY EveIsSound, <1>1, PTL
================================================================================
