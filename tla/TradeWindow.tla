---------------------------- MODULE TradeWindow ----------------------------
(***************************************************************************)
(* One player's side of trading: client_plugin/mmo-trade.js against what   *)
(* server/api/ws/handlers_trade.go and game/trade/service.go tell him. The *)
(* exchange itself is Trade's; here a commit succeeds or fails.            *)
(*                                                                         *)
(* The server ends a trade at once; the client's window follows the        *)
(* messages, and exists only while Scene_Map runs.                         *)
(***************************************************************************)
EXTENDS Integers, Sequences

CONSTANTS
  NoTrade,        \* no session
  MaxGold,        \* an offer is 0..MaxGold
  MaxTrades,      \* bound on the sessions
  QueueMax        \* bound on the messages under way, each way

VARIABLES
  trade,          \* active[me]: the two offers and confirmations
  stray,          \* an older session still has its entry with another partner
  trades,
  toTrade, fromTrade,
  onMap,          \* Scene_Map runs: $MMO._tradeWindow exists
  shown,          \* _tradeWindow.visible
  myGold, theirGold, myConfirmed, theirConfirmed,   \* what the window shows
  goldEditing,
  asked,          \* _tradeRequestDialog
  commitFailed    \* history: the last session ended in a failed commit

tradeVars == <<trade, stray, trades, toTrade, fromTrade, onMap, shown, myGold, theirGold,
               myConfirmed, theirConfirmed, goldEditing, asked, commitFailed>>

table == <<trade, stray, trades, commitFailed>>
offers == <<myGold, theirGold, myConfirmed, theirConfirmed>>
window == <<onMap, shown, offers, goldEditing, asked>>

Golds == 0..MaxGold
NewTrade == [mine |-> 0, theirs |-> 0, me |-> FALSE, them |-> FALSE]

Init ==
  /\ trade = NoTrade /\ stray = FALSE /\ trades = 0
  /\ toTrade = <<>> /\ fromTrade = <<>>
  /\ onMap = TRUE /\ shown = FALSE
  /\ myGold = 0 /\ theirGold = 0 /\ myConfirmed = FALSE /\ theirConfirmed = FALSE
  /\ goldEditing = FALSE /\ asked = FALSE
  /\ commitFailed = FALSE

-----------------------------------------------------------------------------
(* The server. *)

Room == Len(fromTrade) < QueueMax
Tell(m) == Room /\ fromTrade' = Append(fromTrade, m)

\* broadcastState, the half this player gets.
State(t) == [t |-> "update", theirs |-> t.theirs, me |-> t.me, them |-> t.them]

Requested(t) == toTrade # <<>> /\ Head(toTrade).t = t /\ toTrade' = Tail(toTrade)
NoRequest == UNCHANGED toTrade

\* RequestTrade by another player; only a pair of which neither trades.
RequestTrade ==
  /\ trade = NoTrade /\ ~asked /\ trades < MaxTrades
  /\ \A i \in DOMAIN fromTrade : fromTrade[i].t # "request"
  /\ Tell([t |-> "request"])
  /\ NoRequest
  /\ UNCHANGED <<table, window>>

\* AcceptTrade, by this player or by one he asked: a trade in progress is replaced.
AcceptTrade ==
  /\ \/ Requested("accept") \/ NoRequest
  /\ trades < MaxTrades
  /\ trades' = trades + 1
  /\ trade' = NewTrade
  /\ stray' = (stray \/ trade # NoTrade)
  /\ commitFailed' = FALSE
  /\ Tell([t |-> "accepted"])
  /\ UNCHANGED window

\* HandleAccept when the player who asked has gone offline.
RefuseAccept ==
  /\ Requested("accept")
  /\ UNCHANGED <<table, fromTrade, window>>

\* UpdateOffer: the offer's owner has to confirm again.
UpdateOffer ==
  /\ IF trade = NoTrade
     THEN Requested("update") /\ UNCHANGED <<trade, fromTrade>>
     ELSE /\ \/ Requested("update")
                /\ trade' = [trade EXCEPT !.mine = Head(toTrade).gold, !.me = FALSE]
             \/ NoRequest
                /\ \E g \in Golds : trade' = [trade EXCEPT !.theirs = g, !.them = FALSE]
          /\ Tell(State(trade'))
  /\ UNCHANGED <<stray, trades, commitFailed, window>>

\* Commit ends the session whatever comes of it.
Commit ==
  /\ trade' = NoTrade
  /\ commitFailed' \in BOOLEAN
  /\ Tell([t |-> IF commitFailed' THEN "failed" ELSE "done"])

\* Confirm: the second confirmation commits.
Confirmed(t) ==
  IF t.me /\ t.them THEN Commit
  ELSE trade' = t /\ Tell(State(t)) /\ UNCHANGED commitFailed

Confirm ==
  /\ IF trade = NoTrade
     THEN Requested("confirm") /\ UNCHANGED <<trade, fromTrade, commitFailed>>
     ELSE \/ Requested("confirm") /\ Confirmed([trade EXCEPT !.me = TRUE])
          \/ NoRequest /\ Confirmed([trade EXCEPT !.them = TRUE])
  /\ UNCHANGED <<stray, trades, window>>

\* Mutant: only the other side is told.
Cancel_Silent ==
  /\ IF trade = NoTrade
     THEN Requested("cancel") /\ UNCHANGED <<trade, fromTrade, stray>>
     ELSE /\ Requested("cancel") /\ UNCHANGED fromTrade
          /\ trade' = NoTrade
          /\ UNCHANGED stray
  /\ UNCHANGED <<trades, commitFailed, window>>

\* Cancel, by either side, or by the partner of a session this player has left for
\* another (by a commit of that session too): the entry goes whichever session it is of.
Cancel ==
  /\ IF trade = NoTrade
     THEN Requested("cancel") /\ UNCHANGED <<trade, fromTrade, stray>>
     ELSE /\ \/ Requested("cancel") /\ UNCHANGED stray
             \/ NoRequest /\ stray' \in {stray, FALSE}
          /\ trade' = NoTrade
          /\ Tell([t |-> "cancel"])
  /\ UNCHANGED <<trades, commitFailed, window>>

\* The old partner changes his offer: this player is told of it all the same.
StrayUpdate ==
  /\ stray
  /\ \E g \in Golds : Tell([t |-> "update", theirs |-> g, me |-> FALSE, them |-> FALSE])
  /\ NoRequest
  /\ UNCHANGED <<table, window>>

-----------------------------------------------------------------------------
(* The client: messages. *)

Told(t) ==
  /\ fromTrade # <<>> /\ Head(fromTrade).t = t
  /\ fromTrade' = Tail(fromTrade)
  /\ UNCHANGED <<table, toTrade>>

\* showTradeRequestDialog.
OnRequest ==
  /\ Told("request")
  /\ asked' = TRUE
  /\ UNCHANGED <<onMap, shown, offers, goldEditing>>

\* trade_accepted: open, if there is a window.
OnAccepted ==
  /\ Told("accepted")
  /\ IF onMap
     THEN /\ shown' = TRUE /\ goldEditing' = FALSE
          /\ myGold' = 0 /\ theirGold' = 0 /\ myConfirmed' = FALSE /\ theirConfirmed' = FALSE
     ELSE UNCHANGED <<shown, offers, goldEditing>>
  /\ UNCHANGED <<onMap, asked>>

\* trade_update, negotiating or confirming: updateTheirOffer, updateConfirmStatus.
OnUpdate ==
  /\ Told("update")
  /\ IF shown
     THEN /\ theirGold' = Head(fromTrade).theirs
          /\ myConfirmed' = Head(fromTrade).me
          /\ theirConfirmed' = Head(fromTrade).them
     ELSE UNCHANGED <<theirGold, myConfirmed, theirConfirmed>>
  /\ UNCHANGED <<onMap, shown, myGold, goldEditing, asked>>

\* trade_update done, trade_cancel.
OnEnd ==
  /\ Told("done") \/ Told("cancel")
  /\ shown' = FALSE /\ goldEditing' = FALSE
  /\ UNCHANGED <<onMap, offers, asked>>

\* trade_update of any other phase.
OnFailed ==
  /\ Told("failed")
  /\ UNCHANGED window

-----------------------------------------------------------------------------
(* The client: the player. *)

Ask(m) == Len(toTrade) < QueueMax /\ toTrade' = Append(toTrade, m)

\* respond: a refusal, or fifteen seconds, tells nobody.
Respond ==
  /\ asked
  /\ asked' = FALSE
  /\ Ask([t |-> "accept"]) \/ UNCHANGED toTrade
  /\ UNCHANGED <<table, fromTrade, onMap, shown, offers, goldEditing>>

\* A click on the gold.
EditGold ==
  /\ shown /\ ~goldEditing
  /\ goldEditing' = TRUE
  /\ UNCHANGED <<table, toTrade, fromTrade, onMap, shown, offers, asked>>

\* Enter or Escape: _sendOffer.
SendOffer ==
  /\ shown /\ goldEditing
  /\ goldEditing' = FALSE
  /\ myGold' \in Golds
  /\ Ask([t |-> "update", gold |-> myGold'])
  /\ UNCHANGED <<table, fromTrade, onMap, shown, theirGold, myConfirmed, theirConfirmed, asked>>

\* The two buttons; the window waits for the server's word.
Press ==
  /\ shown
  /\ Ask([t |-> "confirm"]) \/ Ask([t |-> "cancel"])
  /\ UNCHANGED <<table, fromTrade, window>>

\* Scene_Map.terminate.
Terminate ==
  /\ onMap
  /\ onMap' = FALSE /\ shown' = FALSE /\ goldEditing' = FALSE /\ asked' = FALSE
  /\ IF shown THEN Ask([t |-> "cancel"]) ELSE UNCHANGED toTrade
  /\ UNCHANGED <<table, fromTrade, offers>>

\* Scene_Map.createAllWindows.
CreateWindow ==
  /\ ~onMap
  /\ onMap' = TRUE
  /\ shown' = FALSE /\ goldEditing' = FALSE
  /\ myGold' = 0 /\ theirGold' = 0 /\ myConfirmed' = FALSE /\ theirConfirmed' = FALSE
  /\ UNCHANGED <<table, toTrade, fromTrade, asked>>

\* _disconnected, and the server's Cancel for the session that closed.
Disconnect ==
  /\ toTrade' = <<>> /\ fromTrade' = <<>>
  /\ trade' = NoTrade
  /\ shown' = FALSE /\ goldEditing' = FALSE /\ asked' = FALSE
  /\ UNCHANGED <<stray, trades, commitFailed, onMap, offers>>

-----------------------------------------------------------------------------

Server ==
  \/ RequestTrade \/ AcceptTrade \/ RefuseAccept \/ UpdateOffer \/ Confirm \/ Cancel \/ StrayUpdate

Messages == OnRequest \/ OnAccepted \/ OnUpdate \/ OnEnd \/ OnFailed

Player == Respond \/ EditGold \/ SendOffer \/ Press \/ Terminate \/ CreateWindow \/ Disconnect

Next == Server \/ Messages \/ Player

Spec == Init /\ [][Next]_tradeVars

-----------------------------------------------------------------------------
(* Properties. *)

TypeOK ==
  /\ trade \in {NoTrade} \cup [mine : Golds, theirs : Golds, me : BOOLEAN, them : BOOLEAN]
  /\ trade # NoTrade => ~(trade.me /\ trade.them)
  /\ myGold \in Golds /\ theirGold \in Golds
  /\ goldEditing => shown
  /\ shown => onMap

Quiet == toTrade = <<>> /\ fromTrade = <<>>

\* With every message delivered, an open window shows the session's other offer and
\* both confirmations, unless the partner of an older session may still write into it.
ShowsTerms ==
  Quiet /\ shown /\ trade # NoTrade /\ ~stray =>
    /\ theirGold = trade.theirs
    /\ myConfirmed = trade.me /\ theirConfirmed = trade.them

\* With every message delivered, a window is open only while the trade is; a failed
\* commit aside.
ClosedWhenOver == Quiet /\ shown /\ ~commitFailed => trade # NoTrade

\* The same, a failed commit included: both players are told of the end of a trade
\* (game/trade/service.go:162, "Notify both players").
AlwaysClosed == Quiet /\ shown => trade # NoTrade

\* A trade goes on only as long as this player has a window to end it with
\* (mmo-trade.js:21: a change of scene cancels the trade and tells the server).
WindowForTrade == Quiet /\ trade # NoTrade => shown
=============================================================================
