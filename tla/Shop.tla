-------------------------------- MODULE Shop --------------------------------
(***************************************************************************)
(* Buying and selling: Scene_Shop as client_plugin/mmo-npc.js overrides it *)
(* and the shop handlers of server/api/ws/handlers_skill.go.               *)
(*                                                                         *)
(* The client applies a purchase or a sale at once and sends it; the       *)
(* server checks it in a transaction. A success is answered by             *)
(* shop_buy_result or shop_sell_result, a refusal by an error message. An  *)
(* event opens a shop without waiting for the one before to be closed.     *)
(***************************************************************************)
EXTENDS Integers, Sequences

CONSTANTS
  NoDeal,         \* nothing pending
  Items,          \* what stacks
  Equips,         \* weapons and armours: a row each
  StartGold,
  MaxDeals,       \* bound on purchases and sales
  MaxShops        \* bound on the shops opened

VARIABLES
  gold, bag,      \* the character's gold and what he owns, in the database
  shopGoods,      \* the session's ShopGoods: a shop is open
  shops, deals,
  toShop, fromShop,
  partyGold, partyBag,              \* $gameParty
  scenes,         \* how many Scene_Shop are on the stack
  pendingBuy, pendingSell,          \* _pendingShopBuy, _pendingShopSell
  refused         \* history: a deal was refused

shopVars == <<gold, bag, shopGoods, shops, deals, toShop, fromShop, partyGold, partyBag,
              scenes, pendingBuy, pendingSell, refused>>

Goods == Items \cup Equips
Price == 2
Half == Price \div 2
Qty == 1..2

Init ==
  /\ gold = StartGold /\ bag = [g \in Goods |-> 0]
  /\ shopGoods = FALSE /\ shops = 0 /\ deals = 0
  /\ toShop = <<>> /\ fromShop = <<>>
  /\ partyGold = gold /\ partyBag = bag
  /\ scenes = 0
  /\ pendingBuy = NoDeal /\ pendingSell = NoDeal
  /\ refused = FALSE

-----------------------------------------------------------------------------
(* The server. *)

\* sendShopProcessing: the goods are the session's, whatever shop was open.
SendShopProcessing ==
  /\ shops < MaxShops
  /\ shops' = shops + 1
  /\ shopGoods' = TRUE
  /\ fromShop' = Append(fromShop, [t |-> "shop"])
  /\ UNCHANGED <<gold, bag, deals, toShop, partyGold, partyBag, scenes, pendingBuy,
                 pendingSell, refused>>

Request(t) == toShop # <<>> /\ Head(toShop).t = t /\ toShop' = Tail(toShop)

Deal(ok, t) ==
  /\ fromShop' = Append(fromShop, [t |-> IF ok THEN t ELSE "error"])
  /\ refused' = (refused \/ ~ok)

\* HandleShopBuy: an open shop and the gold; a stack grows, a piece of equipment
\* gets a row of its own.
HandleShopBuy ==
  /\ Request("buy")
  /\ LET m == Head(toShop)
         ok == shopGoods /\ gold >= Price * m.n
     IN
       /\ gold' = IF ok THEN gold - Price * m.n ELSE gold
       /\ bag' = IF ok THEN [bag EXCEPT ![m.g] = @ + m.n] ELSE bag
       /\ Deal(ok, "bought")
  /\ UNCHANGED <<shopGoods, shops, deals, partyGold, partyBag, scenes, pendingBuy, pendingSell>>

\* HandleShopSell looks at one row of the inventory: the stack, or one single
\* piece of equipment. No shop need be open.
HandleShopSell ==
  /\ Request("sell")
  /\ LET m == Head(toShop)
         row == IF m.g \in Items \/ bag[m.g] = 0 THEN bag[m.g] ELSE 1
         ok == row >= m.n
     IN
       /\ gold' = IF ok THEN gold + Half * m.n ELSE gold
       /\ bag' = IF ok THEN [bag EXCEPT ![m.g] = @ - m.n] ELSE bag
       /\ Deal(ok, "sold")
  /\ UNCHANGED <<shopGoods, shops, deals, partyGold, partyBag, scenes, pendingBuy, pendingSell>>

\* HandleShopClose: whichever shop is open by now.
HandleShopClose ==
  /\ Request("close")
  /\ shopGoods' = FALSE
  /\ UNCHANGED <<gold, bag, shops, deals, fromShop, partyGold, partyBag, scenes, pendingBuy,
                 pendingSell, refused>>

-----------------------------------------------------------------------------
(* The client. *)

Answered(t) ==
  /\ fromShop # <<>> /\ Head(fromShop).t = t
  /\ fromShop' = Tail(fromShop)
  /\ UNCHANGED <<gold, bag, shopGoods, shops, deals, toShop, refused>>

\* npc_effect 302: a Scene_Shop on top of the scenes.
OpenShop ==
  /\ Answered("shop")
  /\ scenes' = scenes + 1
  /\ UNCHANGED <<partyGold, partyBag, pendingBuy, pendingSell>>

\* doBuy: what it costs is taken at once.
DoBuy ==
  /\ scenes > 0 /\ deals < MaxDeals
  /\ \E g \in Goods, n \in Qty :
       /\ partyGold >= Price * n
       /\ pendingBuy' = [g |-> g, n |-> n]
       /\ toShop' = Append(toShop, [t |-> "buy", g |-> g, n |-> n])
       /\ partyGold' = partyGold - Price * n
       /\ partyBag' = [partyBag EXCEPT ![g] = @ + n]
  /\ deals' = deals + 1
  /\ UNCHANGED <<gold, bag, shopGoods, shops, fromShop, scenes, pendingSell, refused>>

DoSell ==
  /\ scenes > 0 /\ deals < MaxDeals
  /\ \E g \in Goods, n \in Qty :
       /\ partyBag[g] >= n
       /\ pendingSell' = [g |-> g, n |-> n]
       /\ toShop' = Append(toShop, [t |-> "sell", g |-> g, n |-> n])
       /\ partyGold' = partyGold + Half * n
       /\ partyBag' = [partyBag EXCEPT ![g] = @ - n]
  /\ deals' = deals + 1
  /\ UNCHANGED <<gold, bag, shopGoods, shops, fromShop, scenes, pendingBuy, refused>>

\* shop_buy_result: only a success is ever sent; a refusal would be rolled back.
OnBuyResult ==
  /\ Answered("bought")
  /\ pendingBuy' = NoDeal
  /\ UNCHANGED <<partyGold, partyBag, scenes, pendingSell>>

OnSellResult ==
  /\ Answered("sold")
  /\ pendingSell' = NoDeal
  /\ UNCHANGED <<partyGold, partyBag, scenes, pendingBuy>>

\* error is written to the console.
OnError ==
  /\ Answered("error")
  /\ UNCHANGED <<partyGold, partyBag, scenes, pendingBuy, pendingSell>>

\* Scene_Shop.terminate; the scene below comes back.
Terminate ==
  /\ scenes > 0
  /\ scenes' = scenes - 1
  /\ toShop' = Append(toShop, [t |-> "close"])
  /\ pendingBuy' = NoDeal /\ pendingSell' = NoDeal
  /\ UNCHANGED <<gold, bag, shopGoods, shops, deals, fromShop, partyGold, partyBag, refused>>

-----------------------------------------------------------------------------

Next ==
  \/ SendShopProcessing \/ HandleShopBuy \/ HandleShopSell \/ HandleShopClose
  \/ OpenShop \/ DoBuy \/ DoSell \/ OnBuyResult \/ OnSellResult \/ OnError \/ Terminate

Spec == Init /\ [][Next]_shopVars

-----------------------------------------------------------------------------
(* Properties. *)

TypeOK ==
  /\ gold \in Nat /\ partyGold \in Nat
  /\ bag \in [Goods -> Nat] /\ partyBag \in [Goods -> Nat]
  /\ shopGoods \in BOOLEAN /\ scenes \in 0..MaxShops
  /\ \A d \in {pendingBuy, pendingSell} \ {NoDeal} : d.g \in Goods /\ d.n \in Qty

\* Once the server has dealt with everything sent, the client's party has the gold
\* and the goods of the database (mmo-npc.js:1560, 1598: kept in agreement, and
\* rolled back when the server rejects a deal).
Agrees == toShop = <<>> => partyGold = gold /\ partyBag = bag

\* As long as no deal has been refused.
AgreesUnrefused == ~refused => Agrees
=============================================================================
