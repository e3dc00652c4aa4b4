---------------------------- MODULE LegacyDraft ----------------------------
(***************************************************************************)
(* One legacy draft session: the SessionStore (server/session.ts), the     *)
(* draft-event handlers and websocket of server/app.ts, and the browser    *)
(* tabs of the Player that follow it (web features/draft: store.ts,        *)
(* manual-entry.ts, bootstrap-session.ts).                                 *)
(*                                                                         *)
(* A tab posts its events over HTTP, each numbered one past the board it   *)
(* shows; requests may overtake one another or be lost. The engine answers *)
(* the websocket in order, but computes suggestions across an await, so    *)
(* what it says of them may be late. The fixed-script simulator and other  *)
(* capturers post numbered events of their own, and may repeat them.       *)
(*                                                                         *)
(*   draft, intent  the entry of the store; a missing entry reads as idle  *)
(*   life           how often the entry was lost (restart or eviction);    *)
(*                  carried by boards and suggestions for the properties   *)
(*   tabs           connected; view: the board shown; tips: [seq, life]    *)
(*                  the suggestions shown; intent, and owed: it is on its  *)
(*                  way to the engine; boot: how far its bootstrap got     *)
(*   channel        messages under way to each tab, in order               *)
(*   requests       events under way to the engine                         *)
(*   work           suggestions being computed, for one tab or for all     *)
(*   posted         events posted by the tabs so far                       *)
(***************************************************************************)
EXTENDS LegacyReducer, Sequences

CONSTANTS
  Tabs,
  Intents,         \* archetypes the Player may choose
  Corrections,     \* payloads a tab may post
  ScriptEvents,    \* events of the simulator or another capturer
  MaxPosts,        \* bound: events posted by the tabs
  MaxChannel,      \* bound: messages under way to a tab
  MaxWork,         \* bound: suggestions being computed
  MaxLives         \* bound: entries lost

ASSUME LegacyAssumption ==
  /\ Corrections \subseteq Payloads /\ ScriptEvents \subseteq Events
  /\ \A p \in Corrections : p.type # "session_started"
  /\ {MaxPosts, MaxChannel, MaxWork, MaxLives} \subseteq Nat
  /\ "everyone" \notin Tabs

VARIABLES draft, intent, life, tabs, channel, requests, work, posted

server == <<draft, intent, life>>
vars == <<draft, intent, life, tabs, channel, requests, work, posted>>

NoIntent == "none"
Everyone == "everyone"

Board(d) ==
  [phase |-> d.phase, localSide |-> d.localSide, banned |-> d.banned, picks |-> d.picks,
   lastSeq |-> d.lastSeq]
Boards == {"draft_state", "snapshot"}
BoardMessage(type, d, l) == [type |-> type, board |-> Board(d), life |-> l]
SuggestionsMessage(w) == [type |-> "suggestions", seq |-> w.seq, life |-> w.life]

NoView == [board |-> Board(IdleDraft), life |-> 0]
NoTips == [seq |-> 0, life |-> 0]

Connected == {t \in Tabs : tabs[t].connected}
RoomFor(more) == Cardinality(more) <= MaxWork
Room == \A t \in Connected : Len(channel[t]) < MaxChannel

(* A message to all who subscribe.                                         *)
Publish(message) ==
  channel' = [t \in Tabs |-> IF t \in Connected THEN Append(channel[t], message) ELSE channel[t]]

----------------------------------------------------------------------------
(* Events (handleDraftEvent, pushSessionUpdate)                            *)

(* Mutant: only an event with a new number is pushed.                      *)
PushedWhenNewer(before, e) == Accepts(before, e) /\ e.seq > before.lastSeq

(* An accepted event is pushed, a rejected one only answered.              *)
Pushed(before, e) == Accepts(before, e)

(* The board at once, its suggestions when they are computed.              *)
HandleDraftEvent(e) ==
  /\ Room
  /\ draft' = ApplyDraftEvent(draft, e)
  /\ IF Pushed(draft, e)
     THEN /\ Publish(BoardMessage("draft_state", draft', life))
          /\ work' = work \cup {[to |-> Everyone, seq |-> draft'.lastSeq, life |-> life]}
          /\ RoomFor(work')
     ELSE UNCHANGED <<channel, work>>
  /\ UNCHANGED <<intent, life>>

(* The answer of a bootstrap's first event lets the tab post the second,   *)
(* whatever the answer was.                                                *)
Handle(r) ==
  /\ r \in requests
  /\ HandleDraftEvent(r.event)
  /\ requests' = requests \ {r}
  /\ tabs' = IF r.event.payload.type = "session_started"
             THEN [tabs EXCEPT ![r.tab].boot = "answered"] ELSE tabs
  /\ UNCHANGED posted

Ingest(e) == HandleDraftEvent(e) /\ UNCHANGED <<tabs, requests, posted>>

(* The suggestions arrive where they were computed for.                    *)
Suggest(w) ==
  /\ w \in work /\ Room
  /\ work' = work \ {w}
  /\ IF w.to = Everyone THEN Publish(SuggestionsMessage(w))
     ELSE channel' = [channel EXCEPT ![w.to] = Append(@, SuggestionsMessage(w))]
  /\ UNCHANGED <<server, tabs, requests, posted>>

(* The pipeline fails: logged, or answered with an error.                  *)
SuggestFails(w) ==
  /\ w \in work
  /\ work' = work \ {w}
  /\ UNCHANGED <<server, tabs, channel, requests, posted>>

----------------------------------------------------------------------------
(* The websocket                                                           *)

(* Mutant: the board is left to the next push.                             *)
GreetingLater(d, l) == <<>>

(* The answer to a hello: the board before anything is awaited.            *)
Greeting(d, l) == <<BoardMessage("snapshot", d, l)>>

(* A tab connects and says hello; an intent it holds is sent after it.     *)
Connect(t) ==
  /\ ~tabs[t].connected
  /\ tabs' = [tabs EXCEPT ![t].connected = TRUE, ![t].owed = tabs[t].intent # NoIntent]
  /\ channel' = [channel EXCEPT ![t] = Greeting(draft, life)]
  /\ work' = work \cup {[to |-> t, seq |-> draft.lastSeq, life |-> life]}
  /\ RoomFor(work')
  /\ UNCHANGED <<server, requests, posted>>

(* What was on its way either way is gone; what is shown stays.            *)
Cut(t) == [tabs[t] EXCEPT !.connected = FALSE, !.owed = FALSE]

Disconnect(t) ==
  /\ tabs[t].connected
  /\ tabs' = [tabs EXCEPT ![t] = Cut(t)]
  /\ channel' = [channel EXCEPT ![t] = <<>>]
  /\ work' = {w \in work : w.to # t}
  /\ UNCHANGED <<server, requests, posted>>

ChooseIntent(t, i) ==
  /\ tabs[t].intent # i
  /\ tabs' = [tabs EXCEPT ![t].intent = i, ![t].owed = tabs[t].connected]
  /\ UNCHANGED <<server, channel, requests, work, posted>>

(* set_intent: the same intent is not computed again.                      *)
IntentArrives(t) ==
  /\ tabs[t].owed
  /\ tabs' = [tabs EXCEPT ![t].owed = FALSE]
  /\ intent' = tabs[t].intent
  /\ work' = IF intent' = intent THEN work
             ELSE work \cup {[to |-> Everyone, seq |-> draft.lastSeq, life |-> life]}
  /\ RoomFor(work')
  /\ UNCHANGED <<draft, life, channel, requests, posted>>

----------------------------------------------------------------------------
(* The tab (store.ts)                                                      *)

(* Mutant: a board without a new number is not shown.                      *)
ShowOnlyNewer(view, m) ==
  IF m.type = "draft_state" /\ m.life = view.life /\ m.board.lastSeq <= view.board.lastSeq
  THEN view ELSE [board |-> m.board, life |-> m.life]

(* The last board to arrive is shown, whatever its number.                 *)
Show(view, m) == [board |-> m.board, life |-> m.life]

(* applyServerMessage *)
Receive(t) ==
  /\ channel[t] # <<>>
  /\ LET m == Head(channel[t]) IN
     tabs' = IF m.type \in Boards
             THEN [tabs EXCEPT ![t].view = Show(@, m)]
             ELSE [tabs EXCEPT ![t].tips = [seq |-> m.seq, life |-> m.life]]
  /\ channel' = [channel EXCEPT ![t] = Tail(@)]
  /\ UNCHANGED <<server, requests, work, posted>>

(* postManualEvent: numbered one past the number given, sure.              *)
Post(t, lastSeq, payload) ==
  /\ posted < MaxPosts
  /\ posted' = posted + 1
  /\ requests' = requests \cup
       {[ tab |-> t, life |-> tabs[t].view.life, seen |-> tabs[t].view.board,
          event |-> [eventId |-> posted', seq |-> lastSeq + 1, sure |-> TRUE,
                     payload |-> payload] ]}

(* A click on a hero of an active board. The manual panel stays open over  *)
(* an idle one too (DraftView.tsx:444); a click there is numbered 1, which *)
(* an idle draft refuses (wrong_phase) and a started one finds stale, so   *)
(* that post, which changes nothing, is left out.                          *)
Submit(t, payload) ==
  /\ tabs[t].view.board.phase = "active"
  /\ Post(t, tabs[t].view.board.lastSeq, payload)
  /\ UNCHANGED <<server, tabs, channel, work>>

(* bootstrapManualSession, on a draft shown as idle: the start, and when   *)
(* it is answered the side.                                                *)
Bootstrap(t) ==
  /\ tabs[t].view.board.phase = "idle" /\ tabs[t].boot = "none"
  /\ Post(t, 0, [type |-> "session_started"])
  /\ tabs' = [tabs EXCEPT ![t].boot = "posted"]
  /\ UNCHANGED <<server, channel, work>>

BootstrapSide(t) ==
  /\ tabs[t].boot = "answered"
  /\ Post(t, 1, [type |-> "local_side_identified", side |-> "radiant"])
  /\ tabs' = [tabs EXCEPT ![t].boot = "none"]
  /\ UNCHANGED <<server, channel, work>>

(* A request is lost, or its answer is: a bootstrap ends there.            *)
RequestLost(r) ==
  /\ r \in requests
  /\ requests' = requests \ {r}
  /\ tabs' = IF r.event.payload.type = "session_started"
             THEN [tabs EXCEPT ![r.tab].boot = "none"] ELSE tabs
  /\ UNCHANGED <<server, channel, work, posted>>

AnswerLost(t) ==
  /\ tabs[t].boot = "answered"
  /\ tabs' = [tabs EXCEPT ![t].boot = "none"]
  /\ UNCHANGED <<server, channel, requests, work, posted>>

----------------------------------------------------------------------------
(* The entry is lost                                                       *)

(* evictStale: untouched for SESSION_TTL_MS, long after any suggestion was *)
(* computed. The sockets stay subscribed.                                  *)
Evict ==
  /\ life < MaxLives /\ draft # IdleDraft /\ work = {} /\ requests = {}
  /\ draft' = IdleDraft /\ intent' = NoIntent /\ life' = life + 1
  /\ UNCHANGED <<tabs, channel, requests, work, posted>>

(* Every socket closes, every request fails.                               *)
EngineRestarts ==
  /\ life < MaxLives
  /\ draft' = IdleDraft /\ intent' = NoIntent /\ life' = life + 1
  /\ tabs' = [t \in Tabs |-> [Cut(t) EXCEPT !.boot = "none"]]
  /\ channel' = [t \in Tabs |-> <<>>]
  /\ requests' = {} /\ work' = {}
  /\ UNCHANGED posted

----------------------------------------------------------------------------
Init ==
  /\ draft = IdleDraft /\ intent = NoIntent /\ life = 0
  /\ tabs = [t \in Tabs |-> [ connected |-> FALSE, view |-> NoView, tips |-> NoTips,
                              intent |-> NoIntent, owed |-> FALSE, boot |-> "none" ]]
  /\ channel = [t \in Tabs |-> <<>>]
  /\ requests = {} /\ work = {} /\ posted = 0

Next ==
  \/ \E r \in requests : Handle(r)
  \/ \E e \in ScriptEvents : Ingest(e)
  \/ \E w \in work : Suggest(w)
  \/ \E w \in work : SuggestFails(w)
  \/ \E t \in Tabs : Connect(t)
  \/ \E t \in Tabs : Disconnect(t)
  \/ \E t \in Tabs, i \in Intents : ChooseIntent(t, i)
  \/ \E t \in Tabs : IntentArrives(t)
  \/ \E t \in Tabs : Receive(t)
  \/ \E t \in Tabs, payload \in Corrections : Submit(t, payload)
  \/ \E t \in Tabs : Bootstrap(t)
  \/ \E t \in Tabs : BootstrapSide(t)
  \/ \E r \in requests : RequestLost(r)
  \/ \E t \in Tabs : AnswerLost(t)
  \/ Evict
  \/ EngineRestarts

(* A browser processes the messages that reach it. Nothing is assumed of   *)
(* the pipeline, the network or the Player.                                *)
Spec == Init /\ [][Next]_vars /\ \A t \in Tabs : WF_vars(Receive(t))

----------------------------------------------------------------------------
(* Properties                                                              *)

BoardSet ==
  [ phase : {"idle", "active", "complete", "aborted"}, localSide : Sides \cup {"unknown"},
    banned : SUBSET Heroes, picks : [Sides -> SUBSET Heroes], lastSeq : Nat ]
Messages ==
  [type : Boards, board : BoardSet, life : 0..life]
    \cup [type : {"suggestions"}, seq : Nat, life : 0..life]
TabSet ==
  [ connected : BOOLEAN, view : [board : BoardSet, life : 0..life],
    tips : [seq : Nat, life : 0..life], intent : Intents \cup {NoIntent}, owed : BOOLEAN,
    boot : {"none", "posted", "answered"} ]

LegacyTypeOK ==
  /\ draft \in Drafts /\ DraftSound(draft)
  /\ intent \in Intents \cup {NoIntent} /\ life \in 0..MaxLives /\ posted \in 0..MaxPosts
  /\ tabs \in [Tabs -> TabSet]
  /\ channel \in [Tabs -> Seq(Messages)]
  /\ requests \subseteq [tab : Tabs, life : 0..life, seen : BoardSet, event : Events]
  /\ work \subseteq [to : Tabs \cup {Everyone}, seq : Nat, life : {life}]
  /\ \A t \in Tabs : ~tabs[t].connected => channel[t] = <<>> /\ ~tabs[t].owed

(* The boards of a tab, in order: the one it shows, at place 0, and those  *)
(* under way to it, at their place in its channel.                         *)
Places(messages) == {0} \cup {i \in DOMAIN messages : messages[i].type \in Boards}
BoardAt(tab, messages, i) ==
  IF i = 0 THEN tab.view ELSE [board |-> messages[i].board, life |-> messages[i].life]

(* The board a tab will have shown when everything under way to it has     *)
(* arrived is the board of the store, whoever changed it and however the   *)
(* connection came about, unless the entry was evicted since.              *)
LastFollows(tab, messages, d, l) ==
  \A i \in Places(messages) :
    (\A j \in Places(messages) : j <= i) /\ BoardAt(tab, messages, i).life = l
      => BoardAt(tab, messages, i).board = Board(d)
BoardFollowsStore == \A t \in Connected : LastFollows(tabs[t], channel[t], draft, life)

(* A tab is never shown suggestions about a board later than the one it    *)
(* shows, however long they took and whoever asked for them.               *)
Reaches(b, l, seq) == b.life = l /\ b.board.lastSeq >= seq
TipsReached(tab, l) ==
  tab.tips.life = l /\ tab.tips.seq > 0 => Reaches(tab.view, l, tab.tips.seq)
SuggestionsNeverAhead == \A t \in Tabs : TipsReached(tabs[t], life)

(* Blind writes, and the two ways left to make one. An event of a tab that *)
(* takes effect while the draft holds a hero its sender did not see on its *)
(* board, on that side, either is a correction, which reducer.ts:212 never *)
(* finds stale, or was written on a board of an entry lost since. The      *)
(* second is real: a rebuilt draft counts from 1 again, the event carries  *)
(* no trace of which draft it was written on (manual-entry.ts:54), and a   *)
(* tab left on a long board posts a number the short one accepts. Within   *)
(* the life of an entry the number alone must tell: of two tabs that       *)
(* answer one board, one is told to look again.                            *)
Covers(b, d) == d.banned \subseteq b.banned /\ \A s \in Sides : d.picks[s] \subseteq b.picks[s]
BlindOnlyAfterLoss ==
  [][ \A r \in requests :
        Handle(r) /\ Accepts(draft, r.event) /\ ~Covers(r.seen, draft)
        => r.event.payload.type = "pick_reverted" \/ r.life < life ]_vars

(* A tab that stays connected ends up showing the board of the store, if   *)
(* it shows one of the entry the store has: no order of requests, pushes   *)
(* and greetings leaves an old one on screen. A board of an evicted entry  *)
(* is excepted: it stays until the next draft says something.              *)
BoardCatchesUp ==
  \A t \in Tabs :
    []<>(tabs[t].connected /\ tabs[t].view.life = life => tabs[t].view.board = Board(draft))
=============================================================================
