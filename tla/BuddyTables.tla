----------------------------- MODULE BuddyTables -----------------------------
(***************************************************************************)
(* The tables of the game that six players with three buddies each outgrow *)
(* (buddy_fix.cpp): the shared entity table and the pool of player data    *)
(* from which a replaced buddy takes its PlayerGameData.                   *)
(***************************************************************************)
EXTENDS Integers

BuddySlots     == 0..2      \* kBuddySlotCount
EntityRoom     == 60        \* kVanillaBuddyEntitySlotCapacity
ExpandedRoom   == 120       \* kExpandedBuddyEntitySlotCapacity
NpcRoom        == 40        \* kNpcPlayerGameDataPoolCapacity
FixedOwners    == 1..6      \* kNpcPlayerGameDataFixedOwnerCount
ExpandedNpc    == NpcRoom + 18

\* HookCreateEntityForOwner: the place of an owner's buddy in the entity table
EntitySlot(owner, i) == (owner + 2) * 10 + i

\* EnsureBuddyEntitySlotCapacity
GrownRoom(room) == IF room = 0 \/ room >= ExpandedRoom THEN room ELSE ExpandedRoom

\* mutant: one entry for all buddies of an owner
PerOwner(owner, i) == NpcRoom + (owner - 1) * 3

\* FixedPlayerGameDataSlotForActiveCreate, behind the entries of the game's own
FixedSlot(owner, i) == NpcRoom + (owner - 1) * 3 + i
==============================================================================
