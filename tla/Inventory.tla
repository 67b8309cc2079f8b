----------------------------- MODULE Inventory -----------------------------
(***************************************************************************)
(* The bag and the shortcut bar: client_plugin/mmo-inventory.js,           *)
(* client_plugin/mmo-skill-bar.js and the skill window of                  *)
(* client_plugin/mmo-game-window.js, with the server's side of use_item,   *)
(* equip_item, unequip_item and pickup_item.                               *)
(*                                                                         *)
(* The client's list of items is what GET .../inventory answered last,     *)
(* changed by the inventory_update messages that follow. The answer and    *)
(* the messages travel on different connections. Trades, shops and the     *)
(* commands of events change the rows and send no inventory_update. The    *)
(* menu of an item and a drag name the item by its place in the list.      *)
(***************************************************************************)
EXTENDS Integers, Sequences, SequencesExt

CONSTANTS
  Nothing,        \* an empty slot, no place in the list
  Slots,          \* the slots of the shortcut bar, F1, F2, ...
  MaxRows,        \* bound on the rows ever created
  MaxGets,        \* bound on the requests for the list under way
  MaxScenes,      \* bound on the scenes started
  MaxChanges,     \* bound on the changes of rows that the bag has not asked for
  QueueMax        \* bound on the messages under way, each way

VARIABLES
  rows,           \* the inventories table: the character's rows
  lastId,         \* the id of the newest row
  changes,        \* the changes of rows that the bag has not asked for, counted
  toBag, fromBag, \* the WebSocket, either way
  gets,           \* requests for the list: not read yet, or the rows read
  itemList,       \* $MMO._inventory.items
  bagOpen,        \* the window is visible
  menuIdx, dragIdx,   \* _contextMenu.itemIdx, _dragItemIdx
  dragging,       \* _dragActive
  uiDrag,         \* $MMO._uiDrag
  skillBar,       \* $MMO._skillBar
  savedBar,       \* localStorage: the bar as skill ids
  sceneNo,
  fresh           \* history: no change overlapped the last fetch of the list, and
                  \* none has been made since of which no inventory_update tells

bagVars == <<rows, lastId, changes, toBag, fromBag, gets, itemList, bagOpen, menuIdx, dragIdx, dragging,
             uiDrag, skillBar, savedBar, sceneNo, fresh>>

serverSide == <<rows, lastId, changes>>
windowSide == <<bagOpen, menuIdx, dragIdx, dragging, uiDrag>>
barSide == <<skillBar, savedBar, sceneNo>>

Kinds == {"item", "sword"}
Skill == [kind |-> "skill", id |-> 0]
NotRead == [read |-> FALSE, rows |-> <<>>]

\* The cells of the grid that hold something: one for each item of the list.
Cells == DOMAIN itemList

\* The skills the skill window lists: none before the first map_init.
ListedSkills == IF savedBar = Nothing THEN {} ELSE {Skill}

Has(list, id) == \E i \in DOMAIN list : list[i].id = id
At(list, id) == CHOOSE i \in DOMAIN list : list[i].id = id

\* How many of a kind: every unit of every row, counted.
Units(list, k) ==
  UNION {{i} \X (1..list[i].qty) : i \in {j \in DOMAIN list : list[j].kind = k}}
Total(list, k) == Cardinality(Units(list, k))

\* One less of the row at i; the last one takes the row away.
Less(list, i) ==
  IF list[i].qty <= 1 THEN RemoveAt(list, i) ELSE [list EXCEPT ![i].qty = @ - 1]

Init ==
  /\ rows = <<[id |-> 1, kind |-> "item", qty |-> 1, equipped |-> FALSE]>>
  /\ lastId = 1 /\ changes = 0
  /\ toBag = <<>> /\ fromBag = <<>> /\ gets = <<>>
  /\ itemList = <<>>
  /\ bagOpen = FALSE /\ menuIdx = Nothing /\ dragIdx = Nothing
  /\ dragging = FALSE /\ uiDrag = Nothing
  /\ skillBar = [s \in Slots |-> Nothing] /\ savedBar = Nothing
  /\ sceneNo = 0
  /\ fresh = FALSE

-----------------------------------------------------------------------------
(* The server. *)

Requested(t) ==
  /\ Len(fromBag) < QueueMax
  /\ toBag # <<>> /\ Head(toBag).t = t
  /\ toBag' = Tail(toBag)

\* An update of the list under way.
Updates == {i \in DOMAIN fromBag : fromBag[i].t \in {"add", "remove"}}

Counted == changes < MaxChanges /\ changes' = changes + 1

\* HandlePickup makes a row of its own of whatever was picked up.
HandlePickup(kind) ==
  /\ Counted /\ lastId < MaxRows /\ Len(fromBag) < QueueMax
  /\ lastId' = lastId + 1
  /\ LET row == [id |-> lastId', kind |-> kind, qty |-> 1, equipped |-> FALSE]
     IN /\ rows' = Append(rows, row)
        /\ fromBag' = Append(fromBag, [t |-> "add", row |-> row])
  /\ UNCHANGED <<toBag, gets, itemList, windowSide, barSide, fresh>>

\* What changes the rows and tells the bag nothing: the commit of a trade moves rows to
\* the character or away; Change Items, Weapons and Armors, a purchase and a sale make a
\* row, add to a stack or take from one, also the last of it. (They send trade_update,
\* npc_effect and the result of the shop.)
ChangeRows ==
  /\ Counted
  /\ \/ /\ lastId < MaxRows /\ lastId' = lastId + 1
        /\ \E kind \in Kinds :
             rows' = Append(rows, [id |-> lastId', kind |-> kind, qty |-> 1, equipped |-> FALSE])
     \/ /\ \E i \in DOMAIN rows :
             \/ rows' \in {Less(rows, i), RemoveAt(rows, i)}
             \/ rows[i].kind = "item" /\ rows' = [rows EXCEPT ![i].qty = @ + 1]
        /\ UNCHANGED lastId
  /\ fresh' = FALSE
  /\ UNCHANGED <<toBag, fromBag, gets, itemList, windowSide, barSide>>

\* HandleUseItem: a row of that id, and a consumable; otherwise an error the client logs.
HandleUseItem ==
  /\ Requested("use")
  /\ LET id == Head(toBag).id
     IN IF Has(rows, id) /\ rows[At(rows, id)].kind = "item"
        THEN /\ rows' = Less(rows, At(rows, id))
             /\ fromBag' = Append(fromBag, [t |-> "remove", id |-> id])
        ELSE UNCHANGED <<rows, fromBag>>
  /\ UNCHANGED <<lastId, changes, gets, itemList, windowSide, barSide, fresh>>

\* Equip takes off what is in the slot; a refusal tells the client nothing to reload.
HandleEquipItem ==
  /\ Requested("equip")
  /\ LET id == Head(toBag).id
     IN IF Has(rows, id) /\ rows[At(rows, id)].kind = "sword" /\ ~rows[At(rows, id)].equipped
        THEN /\ rows' = [i \in DOMAIN rows |-> [rows[i] EXCEPT !.equipped = rows[i].id = id]]
             /\ fromBag' = Append(fromBag, [t |-> "equip_result"])
        ELSE UNCHANGED <<rows, fromBag>>
  /\ UNCHANGED <<lastId, changes, gets, itemList, windowSide, barSide, fresh>>

HandleUnequipItem ==
  /\ Requested("unequip")
  /\ LET id == Head(toBag).id
     IN IF Has(rows, id) /\ rows[At(rows, id)].equipped
        THEN /\ rows' = [rows EXCEPT ![At(rows, id)].equipped = FALSE]
             /\ fromBag' = Append(fromBag, [t |-> "equip_result"])
        ELSE UNCHANGED <<rows, fromBag>>
  /\ UNCHANGED <<lastId, changes, gets, itemList, windowSide, barSide, fresh>>

\* HandleEnterMap sends the skills with map_init.
EnterMap ==
  /\ sceneNo < MaxScenes /\ Len(fromBag) < QueueMax
  /\ sceneNo' = sceneNo + 1
  /\ fromBag' = Append(fromBag, [t |-> "map_init"])
  /\ UNCHANGED <<serverSide, toBag, gets, itemList, windowSide, skillBar, savedBar, fresh>>

\* InventoryHandler.List: the rows as they are when the request is served.
ListRows ==
  /\ \E i \in DOMAIN gets : ~gets[i].read /\ gets' = [gets EXCEPT ![i] = [read |-> TRUE, rows |-> rows]]
  /\ UNCHANGED <<serverSide, toBag, fromBag, itemList, windowSide, barSide, fresh>>

-----------------------------------------------------------------------------
(* The client: the list. *)

\* Answers come in any order; a failed request leaves the list.
OnInventory ==
  /\ \E i \in DOMAIN gets :
       /\ gets' = RemoveAt(gets, i)
       /\ \/ /\ gets[i].read
             /\ itemList' = gets[i].rows
             /\ fresh' = (gets[i].rows = rows /\ Updates = {})
          \/ UNCHANGED <<itemList, fresh>>
  /\ UNCHANGED <<serverSide, toBag, fromBag, windowSide, barSide>>

\* _loadInventory.
Load == Len(gets) < MaxGets /\ gets' = Append(gets, NotRead)

\* Mutant: an item used up takes its whole row away.
Removed_Row(list, id) == IF Has(list, id) THEN RemoveAt(list, At(list, id)) ELSE list

\* inventory_update, remove.
Removed(list, id) == IF Has(list, id) THEN Less(list, At(list, id)) ELSE list

\* inventory_update, add: a consumable joins the first stack of its kind.
Added(list, row) ==
  LET i == SelectInSeq(list, LAMBDA r : r.kind = row.kind /\ ~r.equipped)
  IN IF i # 0 /\ row.kind = "item"
     THEN [list EXCEPT ![i].qty = @ + row.qty]
     ELSE Append(list, row)

Told(t) == fromBag # <<>> /\ Head(fromBag).t = t /\ fromBag' = Tail(fromBag)

OnInventoryUpdate ==
  /\ \/ Told("add") /\ itemList' = Added(itemList, Head(fromBag).row)
     \/ Told("remove") /\ itemList' = Removed(itemList, Head(fromBag).id)
  /\ UNCHANGED <<serverSide, toBag, gets, windowSide, barSide, fresh>>

OnEquipResult ==
  /\ Told("equip_result")
  /\ Load
  /\ UNCHANGED <<serverSide, toBag, itemList, windowSide, barSide, fresh>>

-----------------------------------------------------------------------------
(* The client: the window. *)

\* toggle and onOpen.
OpenBag ==
  /\ ~bagOpen
  /\ bagOpen' = TRUE
  /\ Load
  /\ menuIdx' = Nothing /\ dragIdx' = Nothing /\ dragging' = FALSE
  /\ UNCHANGED <<serverSide, toBag, fromBag, itemList, uiDrag, barSide, fresh>>

\* close; a drag is left as it is.
CloseBag ==
  /\ bagOpen
  /\ bagOpen' = FALSE
  /\ menuIdx' = Nothing
  /\ UNCHANGED <<serverSide, toBag, fromBag, gets, itemList, dragIdx, dragging, uiDrag, barSide, fresh>>

\* What the menu of a row offers, besides cancelling.
Offer(row) ==
  IF row.kind = "item" THEN "use" ELSE IF row.equipped THEN "unequip" ELSE "equip"

\* A click on an item: its menu, and for a consumable a drag that may follow.
Click ==
  /\ bagOpen /\ ~dragging /\ dragIdx = Nothing /\ menuIdx = Nothing
  /\ \E i \in Cells :
       /\ menuIdx' = [at |-> i, offer |-> Offer(itemList[i])]
       /\ dragIdx' = IF itemList[i].kind = "item" THEN i ELSE Nothing
  /\ UNCHANGED <<serverSide, toBag, fromBag, gets, itemList, bagOpen, dragging, uiDrag, barSide, fresh>>

\* The button held: more than six pixels away it is a drag; let go it was a click.
Move ==
  /\ bagOpen /\ dragIdx # Nothing /\ ~dragging
  /\ \/ dragging' = TRUE /\ menuIdx' = Nothing /\ UNCHANGED dragIdx
     \/ dragIdx' = Nothing /\ UNCHANGED <<dragging, menuIdx>>
  /\ UNCHANGED <<serverSide, toBag, fromBag, gets, itemList, bagOpen, uiDrag, barSide, fresh>>

\* Each frame of a drag takes whatever is at that place now.
Drag ==
  /\ bagOpen /\ dragging
  /\ dragIdx \in Cells
  /\ uiDrag' = [kind |-> "item", id |-> itemList[dragIdx].id]
  /\ UNCHANGED <<serverSide, toBag, fromBag, gets, itemList, bagOpen, menuIdx, dragIdx, dragging,
                 barSide, fresh>>

\* _handleContextAction: the request names whatever is at that place now.
Choose ==
  /\ bagOpen /\ menuIdx # Nothing /\ dragIdx = Nothing
  /\ Len(toBag) < QueueMax
  /\ menuIdx' = Nothing
  /\ \/ /\ menuIdx.at \in Cells
        /\ toBag' = Append(toBag, [t |-> menuIdx.offer, id |-> itemList[menuIdx.at].id])
     \/ UNCHANGED toBag
  /\ UNCHANGED <<serverSide, fromBag, gets, itemList, bagOpen, dragIdx, dragging, uiDrag, barSide, fresh>>

\* A new Scene_Map makes its own window; a drag's icon stays with $MMO.
StartScene ==
  /\ bagOpen \/ dragIdx # Nothing \/ menuIdx # Nothing
  /\ bagOpen' = FALSE /\ menuIdx' = Nothing /\ dragIdx' = Nothing /\ dragging' = FALSE
  /\ UNCHANGED <<serverSide, toBag, fromBag, gets, itemList, uiDrag, barSide, fresh>>

-----------------------------------------------------------------------------
(* The client: the shortcut bar. *)

\* _saveSkillBar: the ids of the skills; an item has none.
Saved(bar) == [s \in Slots |-> IF bar[s] = Skill THEN Skill ELSE Nothing]

AssignToBar(s, entry) ==
  /\ skillBar' = [skillBar EXCEPT ![s] = entry]
  /\ savedBar' = Saved(skillBar')

\* Mutant: the place dragged is forgotten, the drag is not.
Drop_Dragging ==
  /\ bagOpen /\ dragging
  /\ \/ uiDrag # Nothing /\ \E s \in Slots : AssignToBar(s, uiDrag)
     \/ UNCHANGED <<skillBar, savedBar>>
  /\ dragIdx' = Nothing /\ uiDrag' = Nothing
  /\ UNCHANGED <<serverSide, toBag, fromBag, gets, itemList, bagOpen, menuIdx, dragging, sceneNo, fresh>>

\* _handleDrop, over a slot of the bar or elsewhere.
Drop ==
  /\ bagOpen /\ dragging
  /\ \/ uiDrag # Nothing /\ \E s \in Slots : AssignToBar(s, uiDrag)
     \/ UNCHANGED <<skillBar, savedBar>>
  /\ dragging' = FALSE /\ dragIdx' = Nothing /\ uiDrag' = Nothing
  /\ UNCHANGED <<serverSide, toBag, fromBag, gets, itemList, bagOpen, menuIdx, sceneNo, fresh>>

\* The same from the skill window, whose list is its own.
DropSkill ==
  /\ \E s \in Slots, skill \in ListedSkills : AssignToBar(s, skill)
  /\ uiDrag' = Nothing
  /\ UNCHANGED <<serverSide, toBag, fromBag, gets, itemList, bagOpen, menuIdx, dragIdx, dragging,
                 sceneNo, fresh>>

\* map_init: the saved layout, or the first time the skills in order.
OnMapInit ==
  /\ Told("map_init")
  /\ IF savedBar # Nothing
     THEN skillBar' = savedBar
     ELSE \E s \in Slots : skillBar' = [[x \in Slots |-> Nothing] EXCEPT ![s] = Skill]
  /\ savedBar' = Saved(skillBar')
  /\ UNCHANGED <<serverSide, toBag, gets, itemList, windowSide, sceneNo, fresh>>

\* A function key over an item; a skill is sent too, if the MP is enough and it has
\* cooled down, and changes nothing here.
PressF ==
  /\ Len(toBag) < QueueMax
  /\ \E s \in Slots :
       /\ skillBar[s] \notin {Skill, Nothing}
       /\ toBag' = Append(toBag, [t |-> "use", id |-> skillBar[s].id])
  /\ UNCHANGED <<serverSide, fromBag, gets, itemList, windowSide, barSide, fresh>>

-----------------------------------------------------------------------------

Server ==
  \/ \E kind \in Kinds : HandlePickup(kind)
  \/ ChangeRows \/ HandleUseItem \/ HandleEquipItem \/ HandleUnequipItem
  \/ EnterMap \/ ListRows

Window == OpenBag \/ CloseBag \/ Click \/ Move \/ Drag \/ Choose \/ StartScene

Bar == Drop \/ DropSkill \/ OnMapInit \/ PressF

Next == Server \/ OnInventory \/ OnInventoryUpdate \/ OnEquipResult \/ Window \/ Bar

Spec == Init /\ [][Next]_bagVars

-----------------------------------------------------------------------------
(* Properties. *)

Row == [id : 1..MaxRows, kind : Kinds, qty : Nat \ {0}, equipped : BOOLEAN]

TypeOK ==
  /\ changes \in 0..MaxChanges
  /\ Range(rows) \subseteq Row /\ Range(itemList) \subseteq Row
  /\ \A i, j \in DOMAIN rows : rows[i].id = rows[j].id => i = j
  /\ dragging => dragIdx # Nothing
  /\ \A s \in Slots : skillBar[s] # Nothing => skillBar[s].kind \in {"skill", "item"}
  /\ savedBar # Nothing => \A s \in Slots : savedBar[s] \in {Skill, Nothing}

\* When no change overlapped the last fetch of the list, none was made since without a
\* word to the bag, and every update has arrived, the window counts as many of each kind
\* as the database holds, whatever rows they are in: the next fetch after a trade, a shop
\* or an event makes it true again.
CountsAgree == fresh /\ Updates = {} => \A k \in Kinds : Total(itemList, k) = Total(rows, k)

\* Then, too, every row shown is one the server can use or equip.
ShownUsable == fresh /\ Updates = {} => \A i \in DOMAIN itemList : Has(rows, itemList[i].id)

\* What is stored is the bar's skills: a map_init restores them, in the slots the
\* player gave them.
SkillsKept == savedBar # Nothing => savedBar = Saved(skillBar)

\* A map_init leaves the bar as the player laid it out, items as well
\* (mmo-skill-bar.js:287, 298: the layout is persisted, of skills or items).
ShortcutsKept == [][savedBar # Nothing /\ Told("map_init") => skillBar' = skillBar]_bagVars
=============================================================================
