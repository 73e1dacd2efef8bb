----------------------------- MODULE BuddyProofs -----------------------------
(***************************************************************************)
(* Proofs about BuddyRuntime: the types of its state, three invariants and *)
(* two properties of its updates; and the tables of BuddyTables.  Every    *)
(* hook transforms a world, the record of all members, by a few kinds of   *)
(* write; a lemma for each kind, and one for each operator built from      *)
(* them, says what it leaves alone.                                        *)
(***************************************************************************)
EXTENDS BuddyRuntime, WellFoundedInduction, TLAPS

-----------------------------------------------------------------------------
(* The tables. *)

\* The fixed entries lie behind the game's own pool, inside the expanded one, and
\* no two buddies of the six owners share one (FixedPlayerGameDataSlotForActiveCreate).
THEOREM FixedSlotsDistinct ==
    ASSUME NEW o \in FixedOwners, NEW i \in BuddySlots,
           NEW p \in FixedOwners, NEW j \in BuddySlots
    PROVE  /\ FixedSlot(o, i) \in NpcRoom..(ExpandedNpc - 1)
           /\ FixedSlot(o, i) = FixedSlot(p, j) => o = p /\ i = j
BY DEF FixedSlot, FixedOwners, BuddySlots, NpcRoom, ExpandedNpc

\* A grown entity table has a place for every buddy of every tracked owner, each
\* its own; the vanilla table has none for an owner above 3, which is why
\* EnsureBuddyEntitySlotCapacity runs before each creation.
THEOREM EntitySlotsFit ==
    ASSUME NEW o \in 0..7, NEW i \in BuddySlots, NEW p \in 0..7, NEW j \in BuddySlots,
           NEW n \in Nat, n > 0
    PROVE  /\ EntitySlot(o, i) < GrownRoom(n)
           /\ EntitySlot(o, i) < EntityRoom <=> o <= 3
           /\ EntitySlot(o, i) = EntitySlot(p, j) => o = p /\ i = j
BY DEF EntitySlot, GrownRoom, ExpandedRoom, EntityRoom, BuddySlots

-----------------------------------------------------------------------------
(* The types of the members. *)

Zeros   == [active : BOOLEAN, watch : BOOLEAN, released : BOOLEAN, healed : BOOLEAN,
            ent : 0..MaxEntity, stable : Nat, ran : Nat, hp : Int]
Recalls == [active : BOOLEAN, watch : BOOLEAN, ent : 0..MaxEntity, stable : Nat, hp : Int]
Stucks  == [watch : BOOLEAN, ent : 0..MaxEntity, age : Nat]
Repairs == [watch : BOOLEAN, ent : 0..MaxEntity, st : Stages, pend : BOOLEAN,
            age : Nat, tried : Nat]
Jobs    == {j \in [active : BOOLEAN, slot : BuddySlots, ent : 0..MaxEntity, due : Nat] :
               j.active => j.slot \in Slots}
Wards   == {"none", "due", "on"}
Records == [state : States \cup {None}, known : BOOLEAN, seen : BOOLEAN,
            defer : Slots \cup {None}, custom : [Slots -> 0..MaxEntity],
            ward : [Slots -> Wards], zero : [Slots -> Zeros], recall : [Slots -> Recalls],
            stuck : [Slots -> Stucks], repair : [Slots -> Repairs], job : Jobs]
\* only a slot at rest waits for a deploy
SlotSet == {sl \in [ent : 0..MaxEntity, st : Stages, pend : BOOLEAN, flags : SUBSET Flags] :
               sl.pend => sl.st = "active"}
Gates   == {"closed", "vetoed", "open"}
Pools   == [mgr : Nat, table : {"first", "other", "grown"}, recs : SUBSET Nat]
Worlds  == [slot : [States -> [Slots -> SlotSet]], life : [Entities -> -2..MaxHp],
            out : SUBSET Entities, ctx : [Contexts -> Records], last : States \cup {None},
            home : [States -> Homes], lost : SUBSET States, gate : [States -> Gates],
            cmds : [Places -> Commands \cup {NoCommand}], room : Nat, pool : Pools,
            pgd : [Entities -> Nat \X Nat], trouble : Nat]

\* What no hook but a creation changes: which entity is in which slot, which are
\* made, and what the contexts record of the states and their custom buddies.
Kept(w) == {v \in Worlds :
    /\ v.home = w.home /\ v.lost = w.lost /\ v.room = w.room /\ v.pool = w.pool
    /\ v.pgd = w.pgd
    /\ \A s \in States, i \in Slots : v.slot[s][i].ent = w.slot[s][i].ent
    /\ \A e \in Entities : v.life[e] = Unmade <=> w.life[e] = Unmade
    /\ \A c \in Contexts : /\ v.ctx[c].state = w.ctx[c].state
                           /\ v.ctx[c].custom = w.ctx[c].custom}

LEMMA KeptSelf == ASSUME NEW w \in Worlds PROVE w \in Kept(w)
BY DEF Kept

LEMMA KeptStep ==
    ASSUME NEW w \in Worlds, NEW v \in Kept(w), NEW u \in Kept(v)
    PROVE  u \in Kept(w)
BY DEF Kept

LEMMA KeptWorld == ASSUME NEW w, NEW v \in Kept(w) PROVE v \in Worlds
BY DEF Kept

-----------------------------------------------------------------------------
(* The kinds of write. *)

LEMMA SlotWrite ==
    ASSUME NEW w \in Worlds, NEW s \in States, NEW i \in Slots, NEW x \in SlotSet,
           x.ent = w.slot[s][i].ent
    PROVE  [w EXCEPT !.slot[s][i] = x] \in Kept(w)
<1> DEFINE v == [w EXCEPT !.slot[s][i] = x]
<1>1. v \in Worlds
  BY DEF Worlds
<1>q. QED
  BY <1>1 DEF Worlds, Kept

LEMMA RowWrite ==
    ASSUME NEW w \in Worlds, NEW s \in States, NEW f \in [Slots -> SlotSet],
           \A i \in Slots : f[i].ent = w.slot[s][i].ent, NEW o \in SUBSET Entities
    PROVE  [w EXCEPT !.slot[s] = f, !.out = o] \in Kept(w)
<1> DEFINE v == [w EXCEPT !.slot[s] = f, !.out = o]
<1>1. v \in Worlds
  BY DEF Worlds
<1>q. QED
  BY <1>1 DEF Worlds, Kept

LEMMA RecordWrite ==
    ASSUME NEW w \in Worlds, NEW c \in Contexts, NEW k \in Records,
           k.state = w.ctx[c].state, k.custom = w.ctx[c].custom
    PROVE  [w EXCEPT !.ctx[c] = k] \in Kept(w)
<1> DEFINE v == [w EXCEPT !.ctx[c] = k]
<1>1. v \in Worlds
  BY DEF Worlds
<1>q. QED
  BY <1>1 DEF Worlds, Kept

\* A write to a member of a slot's record in a context.
LEMMA MemberWrite ==
    ASSUME NEW w \in Worlds, NEW c \in Contexts, NEW i \in Slots
    PROVE  /\ \A z \in Zeros : [w EXCEPT !.ctx[c].zero[i] = z] \in Kept(w)
           /\ \A r \in Recalls : [w EXCEPT !.ctx[c].recall[i] = r] \in Kept(w)
           /\ \A k \in Stucks : [w EXCEPT !.ctx[c].stuck[i] = k] \in Kept(w)
           /\ \A r \in Repairs : [w EXCEPT !.ctx[c].repair[i] = r] \in Kept(w)
           /\ \A d \in Wards : [w EXCEPT !.ctx[c].ward[i] = d] \in Kept(w)
<1> DEFINE k == w.ctx[c]
<1>0. k \in Records
  BY DEF Worlds
<1>1. ASSUME NEW z \in Zeros PROVE [w EXCEPT !.ctx[c].zero[i] = z] \in Kept(w)
  <2>1. [k EXCEPT !.zero[i] = z] \in Records
    BY <1>0 DEF Records
  <2>2. /\ [k EXCEPT !.zero[i] = z].state = k.state
        /\ [k EXCEPT !.zero[i] = z].custom = k.custom
    BY <1>0 DEF Records
  <2>3. [w EXCEPT !.ctx[c].zero[i] = z] = [w EXCEPT !.ctx[c] = [k EXCEPT !.zero[i] = z]]
    OBVIOUS
  <2>q. QED
    BY <2>1, <2>2, <2>3, RecordWrite
<1>2. ASSUME NEW z \in Recalls PROVE [w EXCEPT !.ctx[c].recall[i] = z] \in Kept(w)
  <2>1. [k EXCEPT !.recall[i] = z] \in Records
    BY <1>0 DEF Records
  <2>2. /\ [k EXCEPT !.recall[i] = z].state = k.state
        /\ [k EXCEPT !.recall[i] = z].custom = k.custom
    BY <1>0 DEF Records
  <2>3. [w EXCEPT !.ctx[c].recall[i] = z] = [w EXCEPT !.ctx[c] = [k EXCEPT !.recall[i] = z]]
    OBVIOUS
  <2>q. QED
    BY <2>1, <2>2, <2>3, RecordWrite
<1>3. ASSUME NEW z \in Stucks PROVE [w EXCEPT !.ctx[c].stuck[i] = z] \in Kept(w)
  <2>1. [k EXCEPT !.stuck[i] = z] \in Records
    BY <1>0 DEF Records
  <2>2. /\ [k EXCEPT !.stuck[i] = z].state = k.state
        /\ [k EXCEPT !.stuck[i] = z].custom = k.custom
    BY <1>0 DEF Records
  <2>3. [w EXCEPT !.ctx[c].stuck[i] = z] = [w EXCEPT !.ctx[c] = [k EXCEPT !.stuck[i] = z]]
    OBVIOUS
  <2>q. QED
    BY <2>1, <2>2, <2>3, RecordWrite
<1>4. ASSUME NEW z \in Repairs PROVE [w EXCEPT !.ctx[c].repair[i] = z] \in Kept(w)
  <2>1. [k EXCEPT !.repair[i] = z] \in Records
    BY <1>0 DEF Records
  <2>2. /\ [k EXCEPT !.repair[i] = z].state = k.state
        /\ [k EXCEPT !.repair[i] = z].custom = k.custom
    BY <1>0 DEF Records
  <2>3. [w EXCEPT !.ctx[c].repair[i] = z] = [w EXCEPT !.ctx[c] = [k EXCEPT !.repair[i] = z]]
    OBVIOUS
  <2>q. QED
    BY <2>1, <2>2, <2>3, RecordWrite
<1>5. ASSUME NEW z \in Wards PROVE [w EXCEPT !.ctx[c].ward[i] = z] \in Kept(w)
  <2>1. [k EXCEPT !.ward[i] = z] \in Records
    BY <1>0 DEF Records
  <2>2. /\ [k EXCEPT !.ward[i] = z].state = k.state
        /\ [k EXCEPT !.ward[i] = z].custom = k.custom
    BY <1>0 DEF Records
  <2>3. [w EXCEPT !.ctx[c].ward[i] = z] = [w EXCEPT !.ctx[c] = [k EXCEPT !.ward[i] = z]]
    OBVIOUS
  <2>q. QED
    BY <2>1, <2>2, <2>3, RecordWrite
<1>q. QED
  BY <1>1, <1>2, <1>3, <1>4, <1>5

\* A write to a context's own members.
LEMMA OwnWrite ==
    ASSUME NEW w \in Worlds, NEW c \in Contexts
    PROVE  /\ \A j \in Jobs : [w EXCEPT !.ctx[c].job = j] \in Kept(w)
           /\ \A d \in Slots \cup {None} : [w EXCEPT !.ctx[c].defer = d] \in Kept(w)
           /\ [w EXCEPT !.ctx[c].seen = TRUE] \in Kept(w)
           /\ [w EXCEPT !.ctx[c].known = TRUE] \in Kept(w)
<1> DEFINE k == w.ctx[c]
<1>0. k \in Records
  BY DEF Worlds
<1>1. ASSUME NEW z \in Jobs PROVE [w EXCEPT !.ctx[c].job = z] \in Kept(w)
  <2>1. [k EXCEPT !.job = z] \in Records
    BY <1>0 DEF Records
  <2>2. /\ [k EXCEPT !.job = z].state = k.state
        /\ [k EXCEPT !.job = z].custom = k.custom
    BY <1>0 DEF Records
  <2>3. [w EXCEPT !.ctx[c].job = z] = [w EXCEPT !.ctx[c] = [k EXCEPT !.job = z]]
    OBVIOUS
  <2>q. QED
    BY <2>1, <2>2, <2>3, RecordWrite
<1>2. ASSUME NEW z \in Slots \cup {None} PROVE [w EXCEPT !.ctx[c].defer = z] \in Kept(w)
  <2>1. [k EXCEPT !.defer = z] \in Records
    BY <1>0 DEF Records
  <2>2. /\ [k EXCEPT !.defer = z].state = k.state
        /\ [k EXCEPT !.defer = z].custom = k.custom
    BY <1>0 DEF Records
  <2>3. [w EXCEPT !.ctx[c].defer = z] = [w EXCEPT !.ctx[c] = [k EXCEPT !.defer = z]]
    OBVIOUS
  <2>q. QED
    BY <2>1, <2>2, <2>3, RecordWrite
<1>3. [w EXCEPT !.ctx[c].seen = TRUE] \in Kept(w)
  <2>1. [k EXCEPT !.seen = TRUE] \in Records
    BY <1>0 DEF Records
  <2>2. /\ [k EXCEPT !.seen = TRUE].state = k.state
        /\ [k EXCEPT !.seen = TRUE].custom = k.custom
    BY <1>0 DEF Records
  <2>3. [w EXCEPT !.ctx[c].seen = TRUE] = [w EXCEPT !.ctx[c] = [k EXCEPT !.seen = TRUE]]
    OBVIOUS
  <2>q. QED
    BY <2>1, <2>2, <2>3, RecordWrite
<1>4. [w EXCEPT !.ctx[c].known = TRUE] \in Kept(w)
  <2>1. [k EXCEPT !.known = TRUE] \in Records
    BY <1>0 DEF Records
  <2>2. /\ [k EXCEPT !.known = TRUE].state = k.state
        /\ [k EXCEPT !.known = TRUE].custom = k.custom
    BY <1>0 DEF Records
  <2>3. [w EXCEPT !.ctx[c].known = TRUE] = [w EXCEPT !.ctx[c] = [k EXCEPT !.known = TRUE]]
    OBVIOUS
  <2>q. QED
    BY <2>1, <2>2, <2>3, RecordWrite
<1>q. QED
  BY <1>1, <1>2, <1>3, <1>4

\* A write to a member of the world itself.
LEMMA FieldWrite ==
    ASSUME NEW w \in Worlds
    PROVE  /\ \A o \in SUBSET Entities : [w EXCEPT !.out = o] \in Kept(w)
           /\ \A s \in States, g \in Gates : [w EXCEPT !.gate[s] = g] \in Kept(w)
           /\ \A q \in [Places -> Commands \cup {NoCommand}] : [w EXCEPT !.cmds = q] \in Kept(w)
           /\ \A n \in Nat : [w EXCEPT !.trouble = n] \in Kept(w)
           /\ \A s \in States : [w EXCEPT !.last = s] \in Kept(w)
<1>1. ASSUME NEW o \in SUBSET Entities PROVE [w EXCEPT !.out = o] \in Kept(w)
  BY DEF Worlds, Kept
<1>2. ASSUME NEW s \in States, NEW g \in Gates PROVE [w EXCEPT !.gate[s] = g] \in Kept(w)
  BY DEF Worlds, Kept
<1>3. ASSUME NEW q \in [Places -> Commands \cup {NoCommand}]
      PROVE  [w EXCEPT !.cmds = q] \in Kept(w)
  BY DEF Worlds, Kept
<1>4. ASSUME NEW n \in Nat PROVE [w EXCEPT !.trouble = n] \in Kept(w)
  BY DEF Worlds, Kept
<1>5. ASSUME NEW s \in States PROVE [w EXCEPT !.last = s] \in Kept(w)
  BY DEF Worlds, Kept
<1>q. QED
  BY <1>1, <1>2, <1>3, <1>4, <1>5

\* A change of health, of a buddy that is made and stays so.
LEMMA LifeWrite ==
    ASSUME NEW w \in Worlds, NEW e \in Entities, NEW n \in -2..MaxHp, n # Unmade,
           w.life[e] # Unmade
    PROVE  [w EXCEPT !.life[e] = n] \in Kept(w)
<1> DEFINE v == [w EXCEPT !.life[e] = n]
<1>1. v \in Worlds
  BY DEF Worlds
<1>q. QED
  BY <1>1 DEF Worlds, Kept

-----------------------------------------------------------------------------
(* Contexts, slots and the game's own functions. *)

\* A set of naturals that is not empty has a least member, and Min is it.
LEMMA MinFacts ==
    ASSUME NEW S \in SUBSET Nat, S # {}
    PROVE  Min(S) \in S /\ \A j \in S : Min(S) <= j
<1>1. \E i \in S : \A j \in S : ~ (<<j, i>> \in OpToRel(<, Nat))
  BY NatLessThanWellFounded, WFMin
<1>2. PICK i \in S : \A j \in S : ~ (<<j, i>> \in OpToRel(<, Nat))
  BY <1>1
<1>3. \A j \in S : ~ (j < i)
  <2>1. SUFFICES ASSUME NEW j \in S, j < i
                 PROVE  <<j, i>> \in OpToRel(<, Nat)
    BY <1>2
  <2>q. QED
    BY <2>1 DEF OpToRel
<1>4. \A j \in S : i <= j
  BY <1>3
<1>q. QED
  BY <1>4 DEF Min

LEMMA FoundFacts ==
    ASSUME NEW w \in Worlds, NEW s \in States, Holding(w, s) # {}
    PROVE  Found(w, s) \in Contexts /\ w.ctx[Found(w, s)].state = s
<1>1. Holding(w, s) \in SUBSET Nat
  BY DEF Holding, Contexts
<1>2. Found(w, s) \in Holding(w, s)
  BY <1>1, MinFacts DEF Found
<1>q. QED
  BY <1>2 DEF Holding

LEMMA RaisedKept == ASSUME NEW w \in Worlds PROVE Raised(w) \subseteq Kept(w)
<1>1. w.trouble + 1 \in Nat
  BY DEF Worlds
<1>2. [w EXCEPT !.trouble = w.trouble + 1] \in Kept(w)
  BY <1>1, FieldWrite
<1>q. QED
  BY <1>2 DEF Raised

LEMMA ControlKept ==
    ASSUME NEW w \in Worlds, NEW s \in States, NEW i \in Slots, NEW st \in Stages,
           NEW flags \in SUBSET Flags
    PROVE  Control(w, s, i, st, flags) \in Kept(w)
<1> DEFINE sl == w.slot[s][i]
           x == [sl EXCEPT !.st = st, !.pend = FALSE, !.flags = flags]
<1>1. sl \in SlotSet
  BY DEF Worlds
<1>2. x \in SlotSet /\ x.ent = sl.ent
  BY <1>1 DEF SlotSet
<1>3. [w EXCEPT !.slot[s][i] = x] \in Kept(w)
  BY <1>2, SlotWrite
<1>q. QED
  BY <1>3 DEF Control

LEMMA ShapesKept ==
    ASSUME NEW w \in Worlds, NEW s \in States, NEW i \in Slots
    PROVE  /\ ResetSlot(w, s, i) \in Kept(w)
           /\ ShapeForUnsummon(w, s, i) \in Kept(w)
           /\ ShapeForResummon(w, s, i) \in Kept(w)
<1>1. {"unsummon", "deployed"} \in SUBSET Flags /\ {"continue"} \in SUBSET Flags
      /\ {} \in SUBSET Flags
  BY DEF Flags
<1>2. "active" \in Stages /\ "transition" \in Stages
  BY DEF Stages
<1>q. QED
  BY <1>1, <1>2, ControlKept DEF ResetSlot, ShapeForUnsummon, ShapeForResummon

\* A write to the flags of a slot.
LEMMA FlagsWrite ==
    ASSUME NEW w \in Worlds, NEW s \in States, NEW i \in Slots, NEW flags \in SUBSET Flags
    PROVE  [w EXCEPT !.slot[s][i].flags = flags] \in Kept(w)
<1> DEFINE sl == w.slot[s][i]
           x == [sl EXCEPT !.flags = flags]
<1>1. sl \in SlotSet
  BY DEF Worlds
<1>2. x \in SlotSet /\ x.ent = sl.ent
  BY <1>1 DEF SlotSet
<1>3. [w EXCEPT !.slot[s][i] = x] \in Kept(w)
  BY <1>2, SlotWrite
<1>4. [w EXCEPT !.slot[s][i].flags = flags] = [w EXCEPT !.slot[s][i] = x]
  OBVIOUS
<1>q. QED
  BY <1>3, <1>4

LEMMA SetGateKept ==
    ASSUME NEW w \in Worlds, NEW s \in States, NEW i \in Slots, NEW snap \in SlotSet
    PROVE  /\ SetGate(w, s, i, snap, TRUE) \in Kept(w)
           /\ SetGate(w, s, i, snap, FALSE) \in Kept(w)
<1>1. snap.flags \cup {"gate"} \in SUBSET Flags /\ snap.flags \ {"gate"} \in SUBSET Flags
  BY DEF SlotSet, Flags
<1>q. QED
  BY <1>1, FlagsWrite DEF SetGate

LEMMA StopsKept ==
    ASSUME NEW w \in Worlds, NEW c \in Contexts, NEW i \in Slots
    PROVE  /\ StopRecall(w, c, i) \in Kept(w)
           /\ StopStuck(w, c, i) \in Kept(w)
           /\ StopRepair(w, c, i) \in Kept(w)
<1>1. 0 \in 0..MaxEntity
  BY BoundsAssumption
<1>2. NoRecall \in Recalls /\ NoStuck \in Stucks /\ NoRepair \in Repairs
  BY <1>1 DEF NoRecall, NoStuck, NoRepair, Recalls, Stucks, Repairs, Stages
<1>q. QED
  BY <1>2, MemberWrite DEF StopRecall, StopStuck, StopRepair

LEMMA StopZeroKept ==
    ASSUME NEW w \in Worlds, NEW c \in Contexts, NEW i \in Slots, NEW snap \in SlotSet
    PROVE  StopZero(w, c, i, snap) \in Kept(w)
<1> DEFINE v == [w EXCEPT !.ctx[c].zero[i] = NoZero]
           u == SetGate(v, w.last, i, snap, FALSE)
<1>1. NoZero \in Zeros
  BY BoundsAssumption DEF NoZero, Zeros
<1>2. w.last # None => w.last \in States
  BY DEF Worlds
<1>3. v \in Kept(w)
  BY <1>1, MemberWrite
<1>4. v \in Worlds
  BY <1>3, KeptWorld
<1>5. StopZero(w, c, i, snap) =
        IF ~w.ctx[c].zero[i].active /\ ~w.ctx[c].zero[i].watch THEN w
        ELSE IF w.ctx[c].zero[i].active /\ ~w.ctx[c].zero[i].released /\ w.last # None
             THEN u ELSE v
  BY DEF StopZero
<1> HIDE DEF v
<1>6. w.last # None => u \in Kept(v)
  BY <1>2, <1>4, SetGateKept
<1> HIDE DEF u
<1>7. w.last # None => u \in Kept(w)
  BY <1>3, <1>6, KeptStep
<1>q. QED
  BY <1>3, <1>5, <1>7, KeptSelf

LEMMA UnsummonKept ==
    ASSUME NEW w \in Worlds, NEW e
    PROVE  NativeUnsummon(w, e) \in Kept(w)
<1>1. w.out \ {e} \in SUBSET Entities
  BY DEF Worlds
<1>q. QED
  BY <1>1, FieldWrite DEF NativeUnsummon

LEMMA ActivateKept ==
    ASSUME NEW w \in Worlds, NEW s \in States
    PROVE  Activate(w, s) \subseteq Kept(w)
<1>1. \A g \in {"closed", "vetoed", "open"} : [w EXCEPT !.gate[s] = g] \in Kept(w)
  BY FieldWrite DEF Gates
<1>q. QED
  BY <1>1, KeptSelf DEF Activate

\* What the game does to one slot leaves its entity there; it does nothing to an empty one.
Moved(sl) == {x \in SlotSet : x.ent = sl.ent /\ (x # sl => sl.ent # 0)}

LEMMA StepsMove ==
    ASSUME NEW w, NEW sl \in SlotSet
    PROVE  /\ Taken(sl) \subseteq Moved(sl) /\ Placed(sl) \subseteq Moved(sl)
           /\ Leaving(sl) \subseteq Moved(sl) /\ Left(w, sl) \subseteq Moved(sl)
           /\ sl \in Moved(sl)
<1>1. Taken(sl) \subseteq Moved(sl)
  BY DEF Taken, Moved, SlotSet, Stages
<1>2. Placed(sl) \subseteq Moved(sl)
  BY DEF Placed, Moved, SlotSet, Stages, Flags
<1>3. Leaving(sl) \subseteq Moved(sl)
  BY DEF Leaving, Moved, SlotSet, Stages
<1>4. Left(w, sl) \subseteq Moved(sl)
  BY DEF Left, Moved, SlotSet, Stages, Flags
<1>q. QED
  BY <1>1, <1>2, <1>3, <1>4 DEF Moved

LEMMA WardedKept ==
    ASSUME NEW w \in Worlds, NEW c \in Contexts, NEW slots \in SUBSET Slots, NEW as \in Wards
    PROVE  Warded(w, c, slots, as) \in Kept(w)
<1> DEFINE Ward(v, i) == IF i \in slots /\ v.ctx[c].ward[i] # "none"
                         THEN [v EXCEPT !.ctx[c].ward[i] = as] ELSE v
<1>1. ASSUME NEW v \in Kept(w), NEW i \in 0..2 PROVE Ward(v, i) \in Kept(w)
  <2>1. v \in Worlds
    BY KeptWorld
  <2>2. CASE i \in slots /\ v.ctx[c].ward[i] # "none"
    <3>1. [v EXCEPT !.ctx[c].ward[i] = as] \in Kept(v)
      BY <2>1, <2>2, MemberWrite
    <3>q. QED
      BY <2>2, <3>1, KeptStep
  <2>q. QED
    BY <2>2
<1>2. Warded(w, c, slots, as) = Ward(Ward(Ward(w, 0), 1), 2)
  BY DEF Warded
<1> HIDE DEF Ward
<1>3. Ward(w, 0) \in Kept(w)
  BY <1>1, KeptSelf
<1>4. Ward(Ward(w, 0), 1) \in Kept(w)
  BY <1>1, <1>3
<1>q. QED
  BY <1>1, <1>2, <1>4

LEMMA OnPlacedKept ==
    ASSUME NEW w \in Worlds, NEW s \in States, NEW slots \in SUBSET Slots
    PROVE  OnPlaced(w, s, slots) \subseteq Kept(w)
<1>1. CASE slots = {} \/ Holding(w, s) = {}
  BY <1>1, KeptSelf DEF OnPlaced
<1>2. CASE slots # {} /\ Holding(w, s) # {}
  <2> DEFINE c == Found(w, s)
             chara == {i \in slots : IsCustom(w, c, i, w.slot[s][i])}
  <2>1. c \in Contexts
    BY <1>2, FoundFacts
  <2>2. chara \in SUBSET Slots
    OBVIOUS
  <2>3. "on" \in Wards /\ "due" \in Wards
    BY DEF Wards
  <2>4. OnPlaced(w, s, slots) = {Warded(w, c, chara, "on")}
                                \cup {Warded(v, c, chara, "due") : v \in Raised(w)}
    BY <1>2 DEF OnPlaced
  <2> HIDE DEF c, chara
  <2>5. Warded(w, c, chara, "on") \in Kept(w)
    BY <2>1, <2>2, <2>3, WardedKept
  <2>6. ASSUME NEW v \in Raised(w) PROVE Warded(v, c, chara, "due") \in Kept(w)
    <3>1. v \in Kept(w)
      BY RaisedKept
    <3>2. v \in Worlds
      BY <3>1, KeptWorld
    <3>3. Warded(v, c, chara, "due") \in Kept(v)
      BY <2>1, <2>2, <2>3, <3>2, WardedKept
    <3>q. QED
      BY <3>1, <3>3, KeptStep
  <2>q. QED
    BY <2>4, <2>5, <2>6
<1>q. QED
  BY <1>1, <1>2

\* A step of the game on the slots of a state.
LEMMA RowMoves ==
    ASSUME NEW w \in Worlds, NEW s \in States, NEW f \in [Slots -> SlotSet],
           \A i \in Slots : f[i] \in Moved(w.slot[s][i]),
           NEW up \in SUBSET {i \in Slots : f[i] # w.slot[s][i]}, NEW down
    PROVE  OnPlaced([w EXCEPT !.slot[s] = f,
                              !.out = (@ \cup {f[i].ent : i \in up}) \ down], s, up)
           \subseteq Kept(w)
<1> DEFINE o == (w.out \cup {f[i].ent : i \in up}) \ down
           u == [w EXCEPT !.slot[s] = f, !.out = o]
<1>1. \A i \in Slots : f[i].ent = w.slot[s][i].ent
  BY DEF Moved
<1>2. \A i \in up : f[i].ent \in Entities
  BY BoundsAssumption DEF Moved, Entities, SlotSet
<1>3. o \in SUBSET Entities
  BY <1>2 DEF Worlds
<1> HIDE DEF o
<1>4. u \in Kept(w)
  BY <1>1, <1>3, RowWrite
<1>5. u \in Worlds
  BY <1>4, KeptWorld
<1> HIDE DEF u
<1>6. OnPlaced(u, s, up) \subseteq Kept(u)
  BY <1>5, OnPlacedKept
<1>7. OnPlaced(u, s, up) \subseteq Kept(w)
  BY <1>4, <1>6, KeptStep
<1>q. QED
  BY <1>7 DEF u, o

LEMMA AdvanceKept ==
    ASSUME NEW w \in Worlds, NEW s \in States, NEW moves,
           \A i \in Slots : moves[i] \subseteq Moved(w.slot[s][i])
    PROVE  Advance(w, s, moves) \subseteq Kept(w)
<1>1. ASSUME NEW v \in Advance(w, s, moves) PROVE v \in Kept(w)
  <2> DEFINE Up(f) == {i \in Slots : f[i] # w.slot[s][i] /\ f[i].st = "transition"}
             Down(f) == {i \in Slots : /\ f[i] # w.slot[s][i] /\ f[i].st = "active"
                                       /\ "gate" \in f[i].flags}
  <2>1. PICK f \in [Slots -> UNION {moves[i] \cup {w.slot[s][i]} : i \in Slots}] :
           /\ \A i \in Slots : f[i] \in moves[i] \cup {w.slot[s][i]}
           /\ v \in OnPlaced([w EXCEPT !.slot[s] = f,
                 !.out = (@ \cup {f[i].ent : i \in Up(f)}) \ {f[i].ent : i \in Down(f)}],
                             s, Up(f))
    BY <1>1 DEF Advance
  <2>2. \A i \in Slots : w.slot[s][i] \in SlotSet
    BY DEF Worlds
  <2>3. \A i \in Slots : f[i] \in Moved(w.slot[s][i])
    BY <2>1, <2>2 DEF Moved
  <2>4. f \in [Slots -> SlotSet]
    BY <2>1, <2>3 DEF Moved
  <2>5. Up(f) \in SUBSET {i \in Slots : f[i] # w.slot[s][i]}
    OBVIOUS
  <2>q. QED
    BY <2>1, <2>3, <2>4, <2>5, RowMoves
<1>q. QED
  BY <1>1

LEMMA NativesKept ==
    ASSUME NEW w \in Worlds, NEW s \in States
    PROVE  /\ BuddyUpdate(w, s) \subseteq Kept(w) /\ DeathRecovery(w, s) \subseteq Kept(w)
           /\ NativeUpdate(w, s) \subseteq Kept(w)
<1> DEFINE Moves(sl) == Taken(sl) \cup Placed(sl) \cup Leaving(sl) \cup Left(w, sl)
           taken == [i \in Slots |-> Taken(w.slot[s][i])]
           placed == [i \in Slots |-> Placed(w.slot[s][i])]
           moves == [i \in Slots |-> Moves(w.slot[s][i])]
<1>1. \A i \in Slots : Moves(w.slot[s][i]) \subseteq Moved(w.slot[s][i])
  <2>1. \A i \in Slots : w.slot[s][i] \in SlotSet
    BY DEF Worlds
  <2>q. QED
    BY <2>1, StepsMove
<1>2. /\ BuddyUpdate(w, s) = Advance(w, s, taken) \cup Raised(w)
      /\ DeathRecovery(w, s) = Advance(w, s, placed) \cup Raised(w)
      /\ NativeUpdate(w, s) = (IF MayUpdate(w, s) THEN Advance(w, s, moves) ELSE {w})
                              \cup Raised(w)
  BY DEF BuddyUpdate, DeathRecovery, NativeUpdate
<1>3. \A i \in Slots : /\ taken[i] \subseteq Moved(w.slot[s][i])
                       /\ placed[i] \subseteq Moved(w.slot[s][i])
                       /\ moves[i] \subseteq Moved(w.slot[s][i])
  BY <1>1
<1> HIDE DEF taken, placed, moves
<1>4. /\ Advance(w, s, taken) \subseteq Kept(w) /\ Advance(w, s, placed) \subseteq Kept(w)
      /\ Advance(w, s, moves) \subseteq Kept(w)
  BY <1>3, AdvanceKept
<1>q. QED
  BY <1>2, <1>4, RaisedKept, KeptSelf

-----------------------------------------------------------------------------
(* One step of the upkeep of a slot. *)

Results(w) == [w : Kept(w), done : BOOLEAN]

LEMMA ResultsOf ==
    ASSUME NEW w, NEW v \in Kept(w)
    PROVE  Done(v) \in Results(w) /\ Pass(v) \in Results(w)
BY DEF Results, Done, Pass

LEMMA ResultsStep ==
    ASSUME NEW w \in Worlds, NEW v \in Kept(w), NEW r \in Results(v)
    PROVE  r \in Results(w)
<1>1. r.w \in Kept(w)
  BY KeptStep DEF Results
<1>q. QED
  BY <1>1 DEF Results

LEMMA PostRecallKept ==
    ASSUME NEW w \in Worlds, NEW s \in States, NEW c \in Contexts, NEW i \in Slots,
           NEW snap \in SlotSet
    PROVE  PostRecall(w, s, c, i, snap) \subseteq Results(w)
<1>1. Pass(w) \in Results(w)
  BY KeptSelf, ResultsOf
<1>2. Done(ResetSlot(NativeUnsummon(w, snap.ent), s, i)) \in Results(w)
  <2> DEFINE v == NativeUnsummon(w, snap.ent)
  <2>1. v \in Kept(w)
    BY UnsummonKept
  <2> HIDE DEF v
  <2>2. ResetSlot(v, s, i) \in Kept(v)
    BY <2>1, KeptWorld, ShapesKept
  <2>3. ResetSlot(v, s, i) \in Kept(w)
    BY <2>1, <2>2, KeptStep
  <2>q. QED
    BY <2>3, ResultsOf DEF v
<1>3. ASSUME NEW v \in Raised(w) PROVE Pass(ResetSlot(v, s, i)) \in Results(w)
  <2>1. v \in Kept(w)
    BY RaisedKept
  <2>2. ResetSlot(v, s, i) \in Kept(v)
    BY <2>1, KeptWorld, ShapesKept
  <2>3. ResetSlot(v, s, i) \in Kept(w)
    BY <2>1, <2>2, KeptStep
  <2>q. QED
    BY <2>3, ResultsOf
<1>q. QED
  BY <1>1, <1>2, <1>3 DEF PostRecall

LEMMA RepairKept ==
    ASSUME NEW w \in Worlds, NEW s \in States, NEW c \in Contexts, NEW i \in Slots,
           NEW snap \in SlotSet
    PROVE  Repair(w, s, c, i, snap) \subseteq Results(w)
<1> DEFINE r == w.ctx[c].repair[i]
           same == r.watch /\ r.ent = snap.ent /\ r.st = snap.st /\ r.pend = snap.pend
           begun == [w EXCEPT !.ctx[c].repair[i] =
                       [watch |-> TRUE, ent |-> snap.ent, st |-> snap.st,
                        pend |-> snap.pend, age |-> 0, tried |-> 0]]
           tried == [w EXCEPT !.ctx[c].repair[i].tried = 1]
           ready == IF snap.st = "active" THEN Activate(tried, s) ELSE {tried}
           after == UNION {UNION {DeathRecovery(u, s) : u \in BuddyUpdate(v, s)} : v \in ready}
           held == Control(w, s, i, "transition", snap.flags)
<1>1. begun \in Kept(w)
  <2>1. [watch |-> TRUE, ent |-> snap.ent, st |-> snap.st, pend |-> snap.pend,
         age |-> 0, tried |-> 0] \in Repairs
    BY DEF SlotSet, Repairs
  <2>q. QED
    BY <2>1, MemberWrite
<1>2. tried \in Kept(w)
  <2>0. r \in Repairs
    BY DEF Worlds, Records
  <2>1. [r EXCEPT !.tried = 1] \in Repairs
    BY <2>0 DEF Repairs
  <2>2. [w EXCEPT !.ctx[c].repair[i] = [r EXCEPT !.tried = 1]] \in Kept(w)
    BY <2>1, MemberWrite
  <2>3. tried = [w EXCEPT !.ctx[c].repair[i] = [r EXCEPT !.tried = 1]]
    OBVIOUS
  <2>q. QED
    BY <2>2, <2>3
<1>3. ready \subseteq Kept(w)
  <2> HIDE DEF tried
  <2>1. Activate(tried, s) \subseteq Kept(tried)
    BY <1>2, KeptWorld, ActivateKept
  <2>q. QED
    BY <1>2, <2>1, KeptStep
<1>4. after \subseteq Kept(w)
  <2> HIDE DEF ready
  <2>1. SUFFICES ASSUME NEW v \in ready, NEW u \in BuddyUpdate(v, s),
                        NEW x \in DeathRecovery(u, s)
                 PROVE  x \in Kept(w)
    OBVIOUS
  <2>2. v \in Kept(w)
    BY <1>3
  <2>3. u \in Kept(v)
    BY <2>2, KeptWorld, NativesKept
  <2>4. u \in Kept(w)
    BY <2>2, <2>3, KeptStep
  <2>5. x \in Kept(u)
    BY <2>4, KeptWorld, NativesKept
  <2>q. QED
    BY <2>4, <2>5, KeptStep
<1>5. StopRepair(w, c, i) \in Kept(w)
  BY StopsKept
<1>6. StopRepair(held, c, i) \in Kept(w)
  <2>1. held \in Kept(w)
    BY ControlKept DEF SlotSet, Stages
  <2> HIDE DEF held
  <2>2. StopRepair(held, c, i) \in Kept(held)
    BY <2>1, KeptWorld, StopsKept
  <2>q. QED
    BY <2>1, <2>2, KeptStep
<1>7. ASSUME NEW v \in after PROVE Done(StopRepair(v, c, i)) \in Results(w)
  <2>1. v \in Kept(w)
    BY <1>4
  <2>2. StopRepair(v, c, i) \in Kept(v)
    BY <2>1, KeptWorld, StopsKept
  <2>3. StopRepair(v, c, i) \in Kept(w)
    BY <2>1, <2>2, KeptStep
  <2>q. QED
    BY <2>3, ResultsOf
<1>8. \A v \in after : Pass(v) \in Results(w)
  BY <1>4, ResultsOf
<1>9. /\ Pass(begun) \in Results(w) /\ Pass(w) \in Results(w)
      /\ Pass(StopRepair(w, c, i)) \in Results(w)
      /\ Done(StopRepair(held, c, i)) \in Results(w)
  BY <1>1, <1>5, <1>6, KeptSelf, ResultsOf
<1>10. Repair(w, s, c, i, snap) =
         CASE ~(IsCustom(w, c, i, snap) /\ Stalled(snap)) -> {Pass(StopRepair(w, c, i))}
           [] IsCustom(w, c, i, snap) /\ Stalled(snap) /\ ~same -> {Pass(begun)}
           [] same /\ Stalled(snap) /\ IsCustom(w, c, i, snap) /\
                (r.age < RepairTicks \/ (snap.st # "transition" /\ r.tried \in 1..RepairTicks)) ->
              {Pass(w)}
           [] OTHER ->
              IF snap.st = "transition" THEN {Done(StopRepair(held, c, i))}
              ELSE {IF v.slot[s][i] # snap THEN Done(StopRepair(v, c, i)) ELSE Pass(v) :
                      v \in after}
  BY DEF Repair
<1> HIDE DEF r, same, begun, tried, ready, after, held
<1>11. {IF v.slot[s][i] # snap THEN Done(StopRepair(v, c, i)) ELSE Pass(v) : v \in after}
         \subseteq Results(w)
  BY <1>7, <1>8
<1>q. QED
  BY <1>9, <1>10, <1>11

LEMMA StuckKept ==
    ASSUME NEW w \in Worlds, NEW s \in States, NEW c \in Contexts, NEW i \in Slots,
           NEW snap \in SlotSet
    PROVE  Stuck(w, s, c, i, snap) \subseteq Results(w)
<1> DEFINE k == w.ctx[c].stuck[i]
           cand == snap.st = "removing" /\ ~snap.pend /\ Readable(w, c, i, snap)
           begun == [w EXCEPT !.ctx[c].stuck[i] =
                       [watch |-> TRUE, ent |-> snap.ent, age |-> 0]]
           free == Rate(Hp(w, snap)) >= Half
           calm == StopRecall(w, c, i)
           stopped == StopZero(calm, c, i, snap)
           flags == IF free THEN {} ELSE {"gate"}
           active == Control(stopped, s, i, "active", flags)
           freed == StopStuck(active, c, i)
           again == PostRecall(freed, s, c, i, freed.slot[s][i])
<1>1. begun \in Kept(w)
  <2>1. [watch |-> TRUE, ent |-> snap.ent, age |-> 0] \in Stucks
    BY DEF SlotSet, Stucks
  <2>q. QED
    BY <2>1, MemberWrite
<1>2. calm \in Kept(w)
  BY StopsKept
<1>3. stopped \in Kept(w)
  <2> HIDE DEF calm
  <2>1. stopped \in Kept(calm)
    BY <1>2, KeptWorld, StopZeroKept
  <2>q. QED
    BY <1>2, <2>1, KeptStep
<1>4. active \in Kept(w)
  <2>0. flags \in SUBSET Flags
    BY DEF Flags
  <2> HIDE DEF stopped, flags
  <2>1. active \in Kept(stopped)
    BY <1>3, <2>0, KeptWorld, ControlKept DEF Stages
  <2>q. QED
    BY <1>3, <2>1, KeptStep
<1>5. freed \in Kept(w)
  <2> HIDE DEF active
  <2>1. freed \in Kept(active)
    BY <1>4, KeptWorld, StopsKept
  <2>q. QED
    BY <1>4, <2>1, KeptStep
<1>6. ASSUME NEW r \in again PROVE Done(r.w) \in Results(w)
  <2> HIDE DEF freed
  <2>1. freed \in Worlds
    BY <1>5, KeptWorld
  <2>2. freed.slot[s][i] \in SlotSet
    BY <2>1 DEF Worlds
  <2>3. r \in Results(freed)
    BY <2>1, <2>2, PostRecallKept
  <2>4. r.w \in Kept(w)
    BY <1>5, <2>3, KeptStep DEF Results
  <2>q. QED
    BY <2>4, ResultsOf
<1>7. /\ Pass(StopStuck(w, c, i)) \in Results(w) /\ Pass(begun) \in Results(w)
      /\ Pass(w) \in Results(w) /\ Done(freed) \in Results(w)
  BY <1>1, <1>5, StopsKept, KeptSelf, ResultsOf
<1>8. Stuck(w, s, c, i, snap) =
        CASE ~cand -> {Pass(StopStuck(w, c, i))}
          [] cand /\ ~(k.watch /\ k.ent = snap.ent) -> {Pass(begun)}
          [] cand /\ k.watch /\ k.ent = snap.ent /\ k.age < StableTicks -> {Pass(w)}
          [] OTHER -> IF Percent(w, snap) > 0 THEN {Done(r.w) : r \in again} ELSE {Done(freed)}
  BY DEF Stuck
<1> HIDE DEF k, cand, begun, free, calm, stopped, flags, active, freed, again
<1>q. QED
  BY <1>6, <1>7, <1>8

\* A mark of the zero-health fallback in a slot's record.
LEMMA MarkWrite ==
    ASSUME NEW w \in Worlds, NEW c \in Contexts, NEW i \in Slots
    PROVE  /\ [w EXCEPT !.ctx[c].zero[i].healed = TRUE] \in Kept(w)
           /\ [w EXCEPT !.ctx[c].zero[i].released = TRUE] \in Kept(w)
<1> DEFINE z == w.ctx[c].zero[i]
<1>1. z \in Zeros
  BY DEF Worlds, Records
<1>2. [z EXCEPT !.healed = TRUE] \in Zeros /\ [z EXCEPT !.released = TRUE] \in Zeros
  BY <1>1 DEF Zeros
<1>3. /\ [w EXCEPT !.ctx[c].zero[i] = [z EXCEPT !.healed = TRUE]] \in Kept(w)
      /\ [w EXCEPT !.ctx[c].zero[i] = [z EXCEPT !.released = TRUE]] \in Kept(w)
  BY <1>2, MemberWrite
<1>4. /\ [w EXCEPT !.ctx[c].zero[i].healed = TRUE]
           = [w EXCEPT !.ctx[c].zero[i] = [z EXCEPT !.healed = TRUE]]
      /\ [w EXCEPT !.ctx[c].zero[i].released = TRUE]
           = [w EXCEPT !.ctx[c].zero[i] = [z EXCEPT !.released = TRUE]]
  OBVIOUS
<1>q. QED
  BY <1>3, <1>4

LEMMA HealedKept ==
    ASSUME NEW w \in Worlds, NEW e \in Entities, w.life[e] \in 0..(MaxHp - 1)
    PROVE  Healed(w, e) \in Kept(w)
<1>1. w.life[e] + 1 \in -2..MaxHp /\ w.life[e] + 1 # Unmade /\ w.life[e] # Unmade
  BY BoundsAssumption DEF Unmade
<1>2. [w EXCEPT !.life[e] = w.life[e] + 1] \in Kept(w)
  BY <1>1, LifeWrite
<1>q. QED
  BY <1>2 DEF Healed

LEMMA ZeroHealKept ==
    ASSUME NEW w \in Worlds, NEW s \in States, NEW c \in Contexts, NEW i \in Slots,
           NEW snap \in SlotSet, snap.ent \in Entities, w.life[snap.ent] \in 0..(MaxHp - 1)
    PROVE  ZeroHeal(w, s, c, i, snap) \subseteq Results(w)
<1> DEFINE h == Healed(w, snap.ent)
           v == [h EXCEPT !.ctx[c].zero[i].healed = TRUE]
           z == v.ctx[c].zero[i]
           g == SetGate(v, s, i, v.slot[s][i], FALSE)
           o == [g EXCEPT !.ctx[c].zero[i].released = TRUE]
           u == IF ~z.released /\ Rate(Hp(v, snap)) >= Half THEN o ELSE v
           e == IF Hp(u, snap) >= MaxHp THEN StopZero(u, c, i, u.slot[s][i]) ELSE u
<1>1. h \in Kept(w)
  BY HealedKept
<1>2. v \in Kept(w)
  <2> HIDE DEF h
  <2>1. v \in Kept(h)
    BY <1>1, KeptWorld, MarkWrite
  <2>q. QED
    BY <1>1, <2>1, KeptStep
<1>3. g \in Kept(w)
  <2> HIDE DEF v
  <2>1. v \in Worlds
    BY <1>2, KeptWorld
  <2>2. v.slot[s][i] \in SlotSet
    BY <2>1 DEF Worlds
  <2>3. g \in Kept(v)
    BY <2>1, <2>2, SetGateKept
  <2> HIDE DEF g
  <2>q. QED
    BY <1>2, <2>3, KeptStep
<1>4. o \in Kept(w)
  <2> HIDE DEF g
  <2>1. o \in Kept(g)
    BY <1>3, KeptWorld, MarkWrite
  <2>q. QED
    BY <1>3, <2>1, KeptStep
<1>5. u \in Kept(w)
  <2> HIDE DEF v, o, z
  <2>q. QED
    BY <1>2, <1>4
<1>6. e \in Kept(w)
  <2> HIDE DEF u
  <2>1. u \in Worlds
    BY <1>5, KeptWorld
  <2>2. u.slot[s][i] \in SlotSet
    BY <2>1 DEF Worlds
  <2>3. StopZero(u, c, i, u.slot[s][i]) \in Kept(u)
    BY <2>1, <2>2, StopZeroKept
  <2>q. QED
    BY <1>5, <2>3, KeptStep
<1>7. ASSUME NEW x \in Raised(w) PROVE Done(StopZero(x, c, i, snap)) \in Results(w)
  <2>1. x \in Kept(w)
    BY RaisedKept
  <2>2. StopZero(x, c, i, snap) \in Kept(x)
    BY <2>1, KeptWorld, StopZeroKept
  <2>3. StopZero(x, c, i, snap) \in Kept(w)
    BY <2>1, <2>2, KeptStep
  <2>q. QED
    BY <2>3, ResultsOf
<1>8. ZeroHeal(w, s, c, i, snap) =
        {Done(e)} \cup {Done(StopZero(x, c, i, snap)) : x \in Raised(w)}
  BY DEF ZeroHeal
<1> HIDE DEF h, v, z, g, o, u, e
<1>q. QED
  BY <1>6, <1>7, <1>8, ResultsOf

\* Both regenerations heal only a buddy below full health.
LEMMA CandidateFacts ==
    ASSUME NEW w \in Worlds, NEW c \in Contexts, NEW i \in Slots, NEW snap \in SlotSet
    PROVE  /\ ZeroCandidate(w, c, i, snap) =>
                 snap.ent \in Entities /\ w.life[snap.ent] \in 0..(MaxHp - 1)
           /\ RecallCandidate(w, c, i, snap) =>
                 snap.ent \in Entities /\ w.life[snap.ent] \in 0..(MaxHp - 1)
<1>1. snap.ent \in 0..MaxEntity
  BY DEF SlotSet
<1>2. snap.ent # 0 => snap.ent \in Entities /\ w.life[snap.ent] \in Int
  BY <1>1, BoundsAssumption DEF Entities, Worlds
<1>3. Readable(w, c, i, snap) => snap.ent # 0 /\ Hp(w, snap) >= 0
                                 /\ Hp(w, snap) = w.life[snap.ent]
  BY DEF Readable, IsCustom, Hp
<1>4. ASSUME ZeroCandidate(w, c, i, snap)
      PROVE  snap.ent \in Entities /\ w.life[snap.ent] \in 0..(MaxHp - 1)
  <2>1. Readable(w, c, i, snap) /\ Hp(w, snap) < MaxHp
    BY <1>4 DEF ZeroCandidate
  <2>q. QED
    BY <1>2, <1>3, <2>1, BoundsAssumption
<1>5. ASSUME RecallCandidate(w, c, i, snap)
      PROVE  snap.ent \in Entities /\ w.life[snap.ent] \in 0..(MaxHp - 1)
  <2>1. Readable(w, c, i, snap) /\ Hp(w, snap) < MaxHp
    BY <1>5, BoundsAssumption DEF RecallCandidate
  <2>q. QED
    BY <1>2, <1>3, <2>1, BoundsAssumption
<1>q. QED
  BY <1>4, <1>5

LEMMA HpInt ==
    ASSUME NEW w \in Worlds, NEW snap \in SlotSet
    PROVE  Hp(w, snap) \in Int
<1>1. snap.ent \in 0..MaxEntity
  BY DEF SlotSet
<1>2. snap.ent # 0 => snap.ent \in Entities
  BY <1>1, BoundsAssumption DEF Entities
<1>3. \A e \in Entities : w.life[e] \in Int
  BY BoundsAssumption DEF Worlds
<1>q. QED
  BY <1>2, <1>3 DEF Hp, Gone

\* What the regenerations record of a buddy.
LEMMA MonitorsTyped ==
    ASSUME NEW snap \in SlotSet
    PROVE  /\ [NoZero EXCEPT !.active = TRUE, !.ent = snap.ent] \in Zeros
           /\ [NoRecall EXCEPT !.active = TRUE, !.ent = snap.ent] \in Recalls
           /\ \A hp \in Int :
                 /\ [NoZero EXCEPT !.watch = TRUE, !.ent = snap.ent, !.hp = hp] \in Zeros
                 /\ [NoRecall EXCEPT !.watch = TRUE, !.ent = snap.ent, !.hp = hp] \in Recalls
<1>1. snap.ent \in 0..MaxEntity
  BY DEF SlotSet
<1>2. NoZero \in Zeros /\ NoRecall \in Recalls
  BY BoundsAssumption DEF NoZero, Zeros, NoRecall, Recalls
<1>3. /\ [NoZero EXCEPT !.active = TRUE, !.ent = snap.ent] \in Zeros
      /\ \A hp \in Int : [NoZero EXCEPT !.watch = TRUE, !.ent = snap.ent, !.hp = hp] \in Zeros
  BY <1>1, <1>2 DEF Zeros
<1>q. QED
  BY <1>1, <1>2, <1>3 DEF Recalls

LEMMA ZeroStartKept ==
    ASSUME NEW w \in Worlds, NEW s \in States, NEW c \in Contexts, NEW i \in Slots,
           NEW snap \in SlotSet
    PROVE  /\ ZeroStart(w, s, c, i, snap) \in Kept(w)
           /\ ZeroStart(w, s, c, i, snap).life = w.life
<1> DEFINE z == [NoZero EXCEPT !.active = TRUE, !.ent = snap.ent]
           v == [w EXCEPT !.ctx[c].zero[i] = z]
           u == SetGate(v, s, i, snap, TRUE)
<1>1. z \in Zeros
  BY MonitorsTyped
<1> HIDE DEF z
<1>2. v \in Kept(w)
  BY <1>1, MemberWrite
<1>3. v \in Worlds
  BY <1>2, KeptWorld
<1>4. v.life = w.life
  BY DEF Worlds
<1> HIDE DEF v
<1>5. u \in Kept(v)
  BY <1>3, SetGateKept
<1>6. u.life = v.life
  BY <1>3 DEF SetGate, Worlds
<1> HIDE DEF u
<1>7. u \in Kept(w)
  BY <1>2, <1>5, KeptStep
<1>8. ZeroStart(w, s, c, i, snap) = u
  BY DEF ZeroStart, u, v, z
<1>q. QED
  BY <1>4, <1>6, <1>7, <1>8

LEMMA ZeroKept ==
    ASSUME NEW w \in Worlds, NEW s \in States, NEW c \in Contexts, NEW i \in Slots,
           NEW snap \in SlotSet
    PROVE  Zero(w, s, c, i, snap) \subseteq Results(w)
<1> DEFINE z == w.ctx[c].zero[i]
           cand == ZeroCandidate(w, c, i, snap)
           over == ZeroOver(w, c, i, snap)
           over1 == StopZero(w, c, i, snap)
           begun == ZeroWatch(w, c, i, snap)
           v == ZeroStart(w, s, c, i, snap)
<1>1. over1 \in Kept(w)
  BY StopZeroKept
<1>2. begun \in Kept(w)
  BY HpInt, MonitorsTyped, MemberWrite DEF ZeroWatch
<1>3. cand => ZeroHeal(w, s, c, i, snap) \subseteq Results(w)
  BY CandidateFacts, ZeroHealKept
<1>4. cand => ZeroHeal(v, s, c, i, snap) \subseteq Results(w)
  <2>1. v \in Kept(w) /\ v.life = w.life
    BY ZeroStartKept
  <2> HIDE DEF v
  <2>2. cand => ZeroHeal(v, s, c, i, snap) \subseteq Results(v)
    BY <2>1, KeptWorld, CandidateFacts, ZeroHealKept
  <2>q. QED
    BY <2>1, <2>2, ResultsStep
<1>5. /\ Pass(over1) \in Results(w) /\ Done(over1) \in Results(w) /\ Pass(w) \in Results(w)
      /\ Pass(begun) \in Results(w)
  BY <1>1, <1>2, KeptSelf, ResultsOf
<1>6. Zero(w, s, c, i, snap) =
        CASE ~cand -> {Pass(over1)}
          [] cand /\ over -> {Done(over1)}
          [] cand /\ z.active /\ ~over -> ZeroHeal(w, s, c, i, snap)
          [] OTHER ->
             IF ~z.watch \/ z.hp # Hp(w, snap) THEN {Pass(begun)}
             ELSE IF z.stable < StableTicks THEN {Pass(w)}
             ELSE ZeroHeal(v, s, c, i, snap)
  BY DEF Zero
<1> HIDE DEF z, cand, over, over1, begun, v
<1>q. QED
  BY <1>3, <1>4, <1>5, <1>6

LEMMA RecallKept ==
    ASSUME NEW w \in Worlds, NEW s \in States, NEW c \in Contexts, NEW i \in Slots,
           NEW snap \in SlotSet
    PROVE  Recall(w, c, i, snap) \subseteq Kept(w)
<1> DEFINE r == w.ctx[c].recall[i]
           cand == RecallCandidate(w, c, i, snap)
           begun == [w EXCEPT !.ctx[c].recall[i] =
                       [NoRecall EXCEPT !.watch = TRUE, !.ent = snap.ent, !.hp = Hp(w, snap)]]
           h == Healed(w, snap.ent)
           run == [h EXCEPT !.ctx[c].recall[i] =
                     [NoRecall EXCEPT !.active = TRUE, !.ent = snap.ent]]
<1>1. begun \in Kept(w)
  BY HpInt, MonitorsTyped, MemberWrite
<1>2. cand => h \in Kept(w)
  BY CandidateFacts, HealedKept
<1>3. cand => StopRecall(h, c, i) \in Kept(w) /\ run \in Kept(w)
  <2>1. [NoRecall EXCEPT !.active = TRUE, !.ent = snap.ent] \in Recalls
    BY MonitorsTyped
  <2> HIDE DEF h
  <2>2. cand => StopRecall(h, c, i) \in Kept(h) /\ run \in Kept(h)
    BY <1>2, <2>1, KeptWorld, StopsKept, MemberWrite
  <2> HIDE DEF run
  <2>q. QED
    BY <1>2, <2>2, KeptStep
<1>4. ASSUME NEW x \in Raised(w) PROVE StopRecall(x, c, i) \in Kept(w)
  <2>1. x \in Kept(w)
    BY RaisedKept
  <2>2. StopRecall(x, c, i) \in Kept(x)
    BY <2>1, KeptWorld, StopsKept
  <2>q. QED
    BY <2>1, <2>2, KeptStep
<1>5. RecallHeal(w, c, i, snap) =
        {IF Hp(h, snap) >= MaxHp THEN StopRecall(h, c, i) ELSE run}
        \cup {StopRecall(x, c, i) : x \in Raised(w)}
  BY DEF RecallHeal
<1>6. Recall(w, c, i, snap) =
        CASE ~cand -> {StopRecall(w, c, i)}
          [] cand /\ ~r.active /\ (~r.watch \/ r.hp # Hp(w, snap)) -> {begun}
          [] cand /\ ~r.active /\ r.watch /\ r.hp = Hp(w, snap) /\ r.stable < StableTicks -> {w}
          [] OTHER -> RecallHeal(w, c, i, snap)
  BY DEF Recall
<1> HIDE DEF r, cand, begun, h, run
<1>7. cand => RecallHeal(w, c, i, snap) \subseteq Kept(w)
  BY <1>3, <1>4, <1>5
<1>q. QED
  BY <1>1, <1>6, <1>7, StopsKept, KeptSelf

LEMMA EnsuredKept ==
    ASSUME NEW w \in Worlds, NEW c \in Contexts, NEW i \in Slots, NEW snap
    PROVE  Ensured(w, c, i, snap) \subseteq Kept(w)
<1>1. Warded(w, c, {i}, "on") \in Kept(w)
  BY WardedKept DEF Wards
<1>q. QED
  BY <1>1, RaisedKept, KeptSelf DEF Ensured

\* The loop body of HookBuddyModuleUpdate, for one slot.
LEMMA UpkeepKept ==
    ASSUME NEW w \in Worlds, NEW s \in States, NEW c \in Contexts, NEW i \in Slots, NEW before
    PROVE  Upkeep(w, s, c, i, before) \subseteq Kept(w)
<1> DEFINE snap == w.slot[s][i]
           first == UNION {IF before[i].st = "removing" THEN PostRecall(v, s, c, i, snap)
                           ELSE {Pass(v)} : v \in Ensured(w, c, i, snap)}
           s2 == Handled(first) \cup UNION {Repair(v, s, c, i, snap) : v \in Open(first)}
           s3 == Handled(s2) \cup UNION {Stuck(v, s, c, i, snap) : v \in Open(s2)}
           Fourth(v) == IF Side(v, s) = "local" THEN Zero(v, s, c, i, snap) ELSE {Pass(v)}
           s4 == Handled(s3) \cup UNION {Fourth(v) : v \in Open(s3)}
           Fifth(v) == IF Side(v, s) = "local" THEN Recall(v, c, i, snap) ELSE {v}
<1>0. snap \in SlotSet
  BY DEF Worlds
<1>1. first \subseteq Results(w)
  <2>1. SUFFICES ASSUME NEW v \in Ensured(w, c, i, snap),
                        NEW r \in PostRecall(v, s, c, i, snap) \cup {Pass(v)}
                 PROVE  r \in Results(w)
    OBVIOUS
  <2>2. v \in Kept(w)
    BY EnsuredKept
  <2>3. PostRecall(v, s, c, i, snap) \subseteq Results(v)
    BY <1>0, <2>2, KeptWorld, PostRecallKept
  <2>q. QED
    BY <2>1, <2>2, <2>3, ResultsOf, ResultsStep
<1>2. ASSUME NEW v \in Kept(w)
      PROVE  /\ Repair(v, s, c, i, snap) \subseteq Results(w)
             /\ Stuck(v, s, c, i, snap) \subseteq Results(w)
             /\ Fourth(v) \subseteq Results(w) /\ Fifth(v) \subseteq Kept(w)
  <2>1. v \in Worlds
    BY KeptWorld
  <2> HIDE DEF snap
  <2>2. /\ Repair(v, s, c, i, snap) \subseteq Results(v)
        /\ Stuck(v, s, c, i, snap) \subseteq Results(v)
        /\ Zero(v, s, c, i, snap) \subseteq Results(v)
    BY <1>0, <2>1, RepairKept, StuckKept, ZeroKept
  <2>3. /\ Repair(v, s, c, i, snap) \subseteq Results(w)
        /\ Stuck(v, s, c, i, snap) \subseteq Results(w)
        /\ Zero(v, s, c, i, snap) \subseteq Results(w)
    BY <2>2, ResultsStep
  <2>4. Pass(v) \in Results(w)
    BY ResultsOf
  <2>5. Recall(v, c, i, snap) \subseteq Kept(v)
    BY <1>0, <2>1, RecallKept
  <2>6. Recall(v, c, i, snap) \subseteq Kept(w)
    BY <2>5, KeptStep
  <2>q. QED
    BY <2>3, <2>4, <2>6
<1>3. Upkeep(w, s, c, i, before)
        = {r.w : r \in Handled(s4)} \cup UNION {Fifth(v) : v \in Open(s4)}
  BY DEF Upkeep
<1> HIDE DEF first, Fourth, Fifth, snap
<1>4. ASSUME NEW rs \in SUBSET Results(w)
      PROVE  Handled(rs) \subseteq Results(w) /\ Open(rs) \subseteq Kept(w)
  BY DEF Results, Handled, Open
<1>5. s2 \subseteq Results(w)
  BY <1>1, <1>2, <1>4
<1> HIDE DEF s2
<1>6. s3 \subseteq Results(w)
  BY <1>2, <1>4, <1>5
<1> HIDE DEF s3
<1>7. s4 \subseteq Results(w)
  BY <1>2, <1>4, <1>6
<1> HIDE DEF s4
<1>8. \A r \in Results(w) : r.w \in Kept(w)
  BY DEF Results
<1>q. QED
  BY <1>2, <1>3, <1>4, <1>7, <1>8

-----------------------------------------------------------------------------
(* Forced transitions, the delayed cleanup, the fallback and the commands. *)

LEMMA ForceUnsummonKept ==
    ASSUME NEW w \in Worlds, NEW s \in States, NEW c \in Contexts, NEW i \in Slots
    PROVE  /\ ForceUnsummon(w, s, c, i, TRUE) \subseteq Results(w)
           /\ ForceUnsummon(w, s, c, i, FALSE) \subseteq Results(w)
<1> DEFINE sl == w.slot[s][i]
           shaped == IF sl.st = "removed"
                        \/ (sl.st = "active" /\ sl.pend /\ "unsummon" \in sl.flags)
                        \/ (sl.st = "transition" /\ "summon" \in sl.flags)
                     THEN ShapeForUnsummon(w, s, i) ELSE w
           gone == NativeUnsummon(shaped, sl.ent)
           hidden == StopRecall(gone, c, i)
           again == ShapeForResummon(hidden, s, i)
           back == ResetSlot(hidden, s, i)
<1>1. shaped \in Kept(w)
  BY ShapesKept, KeptSelf
<1>2. gone \in Kept(w)
  <2> HIDE DEF shaped
  <2>1. gone \in Kept(shaped)
    BY <1>1, KeptWorld, UnsummonKept
  <2>q. QED
    BY <1>1, <2>1, KeptStep
<1>3. hidden \in Kept(w)
  <2> HIDE DEF gone
  <2>1. hidden \in Kept(gone)
    BY <1>2, KeptWorld, StopsKept
  <2>q. QED
    BY <1>2, <2>1, KeptStep
<1>4. again \in Kept(w) /\ back \in Kept(w)
  <2> HIDE DEF hidden
  <2>1. again \in Kept(hidden) /\ back \in Kept(hidden)
    BY <1>3, KeptWorld, ShapesKept
  <2> HIDE DEF again, back
  <2>q. QED
    BY <1>3, <2>1, KeptStep
<1>5. ASSUME NEW v \in Raised(shaped) PROVE Pass(v) \in Results(w)
  <2> HIDE DEF shaped
  <2>1. v \in Kept(shaped)
    BY <1>1, KeptWorld, RaisedKept
  <2>2. v \in Kept(w)
    BY <1>1, <2>1, KeptStep
  <2>q. QED
    BY <2>2, ResultsOf
<1>6. ASSUME NEW v \in BuddyUpdate(again, s) PROVE Done(v) \in Results(w)
  <2> HIDE DEF again
  <2>1. v \in Kept(again)
    BY <1>4, KeptWorld, NativesKept
  <2>2. v \in Kept(w)
    BY <1>4, <2>1, KeptStep
  <2>q. QED
    BY <2>2, ResultsOf
<1>7. Done(back) \in Results(w) /\ Pass(w) \in Results(w)
  <2> HIDE DEF back
  <2>q. QED
    BY <1>4, KeptSelf, ResultsOf
<1>8. ForceUnsummon(w, s, c, i, TRUE) =
        IF ~IsCustom(w, c, i, sl) \/ ~Forced(sl, "summon") THEN {Pass(w)}
        ELSE {Pass(v) : v \in Raised(shaped)} \cup {Done(v) : v \in BuddyUpdate(again, s)}
  BY DEF ForceUnsummon
<1>9. ForceUnsummon(w, s, c, i, FALSE) =
        IF ~IsCustom(w, c, i, sl) \/ ~Forced(sl, "unsummon") THEN {Pass(w)}
        ELSE {Pass(v) : v \in Raised(shaped)} \cup {Done(back)}
  BY DEF ForceUnsummon
<1> HIDE DEF sl, shaped, gone, hidden, again, back
<1>10. ForceUnsummon(w, s, c, i, TRUE) \subseteq Results(w)
  BY <1>5, <1>6, <1>7, <1>8
<1>11. ForceUnsummon(w, s, c, i, FALSE) \subseteq Results(w)
  BY <1>5, <1>7, <1>9
<1>q. QED
  BY <1>10, <1>11

LEMMA FreshResummonKept ==
    ASSUME NEW w \in Worlds, NEW s \in States, NEW c \in Contexts, NEW i \in Slots
    PROVE  FreshResummon(w, s, c, i) \subseteq Kept(w)
<1> DEFINE sl == w.slot[s][i]
           shaped == ShapeForUnsummon(w, s, i)
           gone == NativeUnsummon(shaped, sl.ent)
           hidden == StopRecall(gone, c, i)
           back == ResetSlot(hidden, s, i)
<1>1. shaped \in Kept(w)
  BY ShapesKept
<1>2. gone \in Kept(w)
  <2> HIDE DEF shaped
  <2>1. gone \in Kept(shaped)
    BY <1>1, KeptWorld, UnsummonKept
  <2>q. QED
    BY <1>1, <2>1, KeptStep
<1>3. hidden \in Kept(w)
  <2> HIDE DEF gone
  <2>1. hidden \in Kept(gone)
    BY <1>2, KeptWorld, StopsKept
  <2>q. QED
    BY <1>2, <2>1, KeptStep
<1>4. back \in Kept(w)
  <2> HIDE DEF hidden
  <2>1. back \in Kept(hidden)
    BY <1>3, KeptWorld, ShapesKept
  <2>q. QED
    BY <1>3, <2>1, KeptStep
<1>5. Raised(shaped) \subseteq Kept(w)
  <2> HIDE DEF shaped
  <2>1. Raised(shaped) \subseteq Kept(shaped)
    BY <1>1, KeptWorld, RaisedKept
  <2>q. QED
    BY <1>1, <2>1, KeptStep
<1>6. FreshResummon(w, s, c, i) =
        IF ~IsCustom(w, c, i, sl) \/ sl.st # "transition" \/ sl.pend \/ "summon" \in sl.flags
        THEN {w} ELSE Raised(shaped) \cup {back}
  BY DEF FreshResummon
<1> HIDE DEF sl, shaped, gone, hidden, back
<1>q. QED
  BY <1>4, <1>5, <1>6, KeptSelf

LEMMA ScheduleKept ==
    ASSUME NEW w \in Worlds, NEW s \in States, NEW c \in Contexts, NEW i \in Slots
    PROVE  Schedule(w, s, c, i) \in Kept(w)
<1>1. w.slot[s][i].ent \in 0..MaxEntity
  BY DEF Worlds, SlotSet
<1>2. [active |-> TRUE, slot |-> i, ent |-> w.slot[s][i].ent, due |-> CleanupTicks] \in Jobs
  BY <1>1, SlotsAssumption, TimersAssumption DEF Jobs
<1>q. QED
  BY <1>2, OwnWrite DEF Schedule

LEMMA DeferKept ==
    ASSUME NEW w \in Worlds, NEW s \in States, NEW c \in Contexts, NEW i \in Slots
    PROVE  Defer(w, s, c, i) \subseteq Results(w)
<1> DEFINE calm == StopRecall(w, c, i)
           shaped == ShapeForResummon(calm, s, i)
<1>1. calm \in Kept(w)
  BY StopsKept
<1>2. shaped \in Kept(w)
  <2> HIDE DEF calm
  <2>1. shaped \in Kept(calm)
    BY <1>1, KeptWorld, ShapesKept
  <2>q. QED
    BY <1>1, <2>1, KeptStep
<1>3. ASSUME NEW v \in BuddyUpdate(shaped, s) PROVE Done(v) \in Results(w)
  <2> HIDE DEF shaped
  <2>1. v \in Kept(shaped)
    BY <1>2, KeptWorld, NativesKept
  <2>2. v \in Kept(w)
    BY <1>2, <2>1, KeptStep
  <2>q. QED
    BY <2>2, ResultsOf
<1>4. Pass(w) \in Results(w)
  BY KeptSelf, ResultsOf
<1>5. Defer(w, s, c, i) \subseteq {Done(v) : v \in BuddyUpdate(shaped, s)} \cup {Pass(w)}
  BY DEF Defer
<1> HIDE DEF calm, shaped
<1>q. QED
  BY <1>3, <1>4, <1>5

LEMMA CleanedKept ==
    ASSUME NEW w \in Worlds, NEW s \in States, NEW c \in Contexts, NEW i \in Slots, NEW keep
    PROVE  Cleaned(w, s, c, i, keep) \subseteq Kept(w)
<1> DEFINE sl == w.slot[s][i]
           gone == NativeUnsummon(w, sl.ent)
           calm == StopRecall(gone, c, i)
           hidden == StopZero(calm, c, i, sl)
           back == ResetSlot(hidden, s, i)
<1>0. sl \in SlotSet
  BY DEF Worlds
<1>1. gone \in Kept(w)
  BY UnsummonKept
<1>2. calm \in Kept(w)
  <2> HIDE DEF gone
  <2>1. calm \in Kept(gone)
    BY <1>1, KeptWorld, StopsKept
  <2>q. QED
    BY <1>1, <2>1, KeptStep
<1>3. hidden \in Kept(w)
  <2> HIDE DEF calm, sl
  <2>1. hidden \in Kept(calm)
    BY <1>0, <1>2, KeptWorld, StopZeroKept
  <2>q. QED
    BY <1>2, <2>1, KeptStep
<1>4. back \in Kept(w)
  <2> HIDE DEF hidden
  <2>1. back \in Kept(hidden)
    BY <1>3, KeptWorld, ShapesKept
  <2>q. QED
    BY <1>3, <2>1, KeptStep
<1>5. Cleaned(w, s, c, i, keep) \subseteq {w} \cup {back} \cup Raised(w)
  BY DEF Cleaned
<1> HIDE DEF sl, gone, calm, hidden, back
<1>q. QED
  BY <1>4, <1>5, KeptSelf, RaisedKept

LEMMA CleanupKept ==
    ASSUME NEW w \in Worlds, NEW s \in States, NEW c \in Contexts
    PROVE  Cleanup(w, s, c) \subseteq Kept(w)
<1> DEFINE job == w.ctx[c].job
           sl == w.slot[s][job.slot]
           keep == IF sl.ent # 0 THEN sl.ent ELSE job.ent
           v == [w EXCEPT !.ctx[c].job = NoJob]
           Step(ws, i) == IF i \in Slots THEN UNION {Cleaned(u, s, c, i, keep) : u \in ws}
                          ELSE ws
           a1 == Step({v}, 0)
           a2 == Step(a1, 1)
           a3 == Step(a2, 2)
<1>1. v \in Kept(w)
  <2>1. NoJob \in Jobs
    BY BoundsAssumption DEF NoJob, Jobs, BuddySlots
  <2>q. QED
    BY <2>1, OwnWrite
<1>2. Cleanup(w, s, c) \subseteq {w} \cup {v} \cup a3
  BY DEF Cleanup
<1> HIDE DEF v, keep
<1>3. ASSUME NEW ws \in SUBSET Kept(w), NEW i \in 0..2 PROVE Step(ws, i) \subseteq Kept(w)
  <2>1. ASSUME NEW u \in ws, i \in Slots PROVE Cleaned(u, s, c, i, keep) \subseteq Kept(w)
    <3>1. u \in Kept(w)
      OBVIOUS
    <3>2. Cleaned(u, s, c, i, keep) \subseteq Kept(u)
      BY <2>1, <3>1, KeptWorld, CleanedKept
    <3>q. QED
      BY <3>1, <3>2, KeptStep
  <2>q. QED
    BY <2>1
<1> HIDE DEF Step
<1>4. a1 \subseteq Kept(w)
  BY <1>1, <1>3
<1> HIDE DEF a1
<1>5. a2 \subseteq Kept(w)
  BY <1>3, <1>4
<1> HIDE DEF a2
<1>6. a3 \subseteq Kept(w)
  BY <1>3, <1>5
<1>q. QED
  BY <1>1, <1>2, <1>6, KeptSelf

LEMMA ByHandKept ==
    ASSUME NEW w \in Worlds, NEW s \in States, NEW cand \in SUBSET Slots,
           NEW st \in Stages, NEW flags \in SUBSET Flags
    PROVE  ByHand(w, s, cand, st, flags) \in Kept(w)
<1> DEFINE Move(v, i) == IF i \in cand THEN Control(v, s, i, st, flags) ELSE v
           m1 == Move(w, 0)
           m2 == Move(m1, 1)
           m3 == Move(m2, 2)
<1>1. ASSUME NEW v \in Kept(w), NEW i \in 0..2 PROVE Move(v, i) \in Kept(w)
  <2>1. CASE i \in cand
    <3>1. Control(v, s, i, st, flags) \in Kept(v)
      BY <2>1, KeptWorld, ControlKept
    <3>q. QED
      BY <2>1, <3>1, KeptStep
  <2>q. QED
    BY <2>1
<1>2. ByHand(w, s, cand, st, flags) = m3
  BY DEF ByHand
<1> HIDE DEF Move
<1>3. m1 \in Kept(w)
  BY <1>1, KeptSelf
<1> HIDE DEF m1
<1>4. m2 \in Kept(w)
  BY <1>1, <1>3
<1> HIDE DEF m2
<1>5. m3 \in Kept(w)
  BY <1>1, <1>4
<1>q. QED
  BY <1>2, <1>5

LEMMA RemoteFallbackKept ==
    ASSUME NEW w \in Worlds, NEW s \in States, NEW c \in Contexts
    PROVE  RemoteFallback(w, s, c) \subseteq Results(w)
<1> DEFINE cand == {i \in Slots : RemoteCandidate(w, s, c, i)}
           first == {i \in cand : w.slot[s][i].pend}
           taken == IF Mode = "original" THEN BuddyUpdate(w, s)
                    ELSE {ByHand(w, s, first, "deploying", {})}
           Hand(v) == ByHand(v, s, cand, "transition", {"deployed"})
           ents(v) == {v.slot[s][i].ent : i \in cand}
           placed(v) == IF Mode = "manual" THEN {[Hand(v) EXCEPT !.out = @ \cup ents(v)]}
                        ELSE DeathRecovery(v, s)
           after == UNION {placed(v) : v \in taken}
           moved(v) == v.trouble = w.trouble /\ v.slot[s] # w.slot[s]
<1>0. cand \in SUBSET Slots /\ first \in SUBSET Slots
  OBVIOUS
<1>1. /\ "deploying" \in Stages /\ "transition" \in Stages
      /\ {} \in SUBSET Flags /\ {"deployed"} \in SUBSET Flags
  BY DEF Stages, Flags
<1>2. taken \subseteq Kept(w)
  <2>1. ByHand(w, s, first, "deploying", {}) \in Kept(w)
    <3> HIDE DEF first, cand
    <3>q. QED
      BY <1>0, <1>1, ByHandKept
  <2>q. QED
    BY <2>1, NativesKept
<1>3. ASSUME NEW i \in cand PROVE i \in Slots /\ w.slot[s][i].ent \in Entities
  <2>1. w.slot[s][i].ent # 0
    BY DEF RemoteCandidate, IsCustom
  <2>2. w.slot[s][i].ent \in 0..MaxEntity
    BY DEF Worlds, SlotSet
  <2>q. QED
    BY <2>1, <2>2, BoundsAssumption DEF Entities
<1> HIDE DEF cand
<1>4. ASSUME NEW v \in Kept(w) PROVE placed(v) \subseteq Kept(w)
  <2>1. v \in Worlds
    BY KeptWorld
  <2>2. Hand(v) \in Kept(v)
    BY <1>0, <1>1, <2>1, ByHandKept
  <2>3. Hand(v) \in Kept(w)
    BY <2>2, KeptStep
  <2>4. ents(v) \in SUBSET Entities
    BY <1>3 DEF Kept
  <2> DEFINE h == Hand(v)
             o == h.out \cup ents(v)
  <2> HIDE DEF Hand, h, ents
  <2>5. h \in Worlds /\ h \in Kept(w)
    BY <2>3, KeptWorld DEF h
  <2>6. o \in SUBSET Entities
    BY <2>4, <2>5 DEF Worlds
  <2>7. [h EXCEPT !.out = o] \in Kept(h)
    BY <2>5, <2>6, FieldWrite
  <2>8. [h EXCEPT !.out = o] \in Kept(w)
    BY <2>5, <2>7, KeptStep
  <2>9. [Hand(v) EXCEPT !.out = @ \cup ents(v)] = [h EXCEPT !.out = o]
    BY DEF h
  <2>10. DeathRecovery(v, s) \subseteq Kept(w)
    BY <2>1, NativesKept, KeptStep
  <2>q. QED
    BY <2>8, <2>9, <2>10
<1>5. RemoteFallback(w, s, c) =
        IF cand = {} THEN {Pass(w)} ELSE {[w |-> v, done |-> moved(v)] : v \in after}
  BY DEF RemoteFallback, cand
<1> HIDE DEF taken, placed
<1>6. after \subseteq Kept(w)
  BY <1>2, <1>4
<1> HIDE DEF after
<1>7. ASSUME NEW v \in after PROVE [w |-> v, done |-> moved(v)] \in Results(w)
  BY <1>6 DEF Results
<1>8. Pass(w) \in Results(w)
  BY KeptSelf, ResultsOf
<1>q. QED
  BY <1>5, <1>7, <1>8

LEMMA ExpiredKept ==
    ASSUME NEW w \in Worlds
    PROVE  Expired(w) \subseteq Kept(w)
<1>1. w.cmds \in [Places -> Commands \cup {NoCommand}]
  BY DEF Worlds
<1>2. {w.cmds[p] : p \in Places} \cup {NoCommand} \subseteq Commands \cup {NoCommand}
  BY <1>1
<1>3. ASSUME NEW q \in [Places -> {w.cmds[p] : p \in Places} \cup {NoCommand}]
      PROVE  [w EXCEPT !.cmds = q] \in Kept(w)
  <2>1. q \in [Places -> Commands \cup {NoCommand}]
    BY <1>2
  <2>q. QED
    BY <2>1, FieldWrite
<1>q. QED
  BY <1>3 DEF Expired

LEMMA CommandedKept ==
    ASSUME NEW w \in Worlds, NEW s \in States, NEW c \in Contexts, NEW cmd \in Commands
    PROVE  Commanded(w, s, c, cmd) \subseteq Kept(w)
<1> DEFINE i == cmd.slot
           shaped == ShapeForUnsummon(w, s, i)
           End(r) == IF r.done THEN StopRepair(StopStuck(r.w, c, i), c, i) ELSE r.w
<1>0. i \in Slots
  BY DEF Commands
<1>1. shaped \in Kept(w)
  BY <1>0, ShapesKept
<1>2. Commanded(w, s, c, cmd) \subseteq
        {w} \cup {End(r) : r \in ForceUnsummon(shaped, s, c, i, FALSE)}
  BY DEF Commanded
<1> HIDE DEF shaped, i
<1>3. ASSUME NEW r \in ForceUnsummon(shaped, s, c, i, FALSE) PROVE End(r) \in Kept(w)
  <2>1. r \in Results(shaped)
    BY <1>0, <1>1, KeptWorld, ForceUnsummonKept
  <2>2. r.w \in Kept(w)
    BY <1>1, <2>1, ResultsStep DEF Results
  <2> DEFINE x == StopStuck(r.w, c, i)
  <2>3. x \in Kept(r.w)
    BY <1>0, <2>2, KeptWorld, StopsKept
  <2>4. x \in Kept(w)
    BY <2>2, <2>3, KeptStep
  <2> HIDE DEF x
  <2>5. StopRepair(x, c, i) \in Kept(x)
    BY <1>0, <2>4, KeptWorld, StopsKept
  <2>6. StopRepair(x, c, i) \in Kept(w)
    BY <2>4, <2>5, KeptStep
  <2>q. QED
    BY <2>2, <2>6 DEF x
<1> HIDE DEF End
<1>q. QED
  BY <1>2, <1>3, KeptSelf

LEMMA ClaimedKept ==
    ASSUME NEW w \in Worlds, NEW s \in States, NEW c \in Contexts
    PROVE  Claimed(w, s, c) \subseteq Kept(w)
<1> DEFINE mine == {p \in Places : w.cmds[p].state = s}
           p == Min(mine)
           v == [w EXCEPT !.cmds[p] = NoCommand]
<1>1. CASE mine = {}
  BY <1>1, KeptSelf DEF Claimed
<1>2. CASE mine # {}
  <2>1. mine \in SUBSET Nat
    BY BoundsAssumption DEF Places
  <2>2. p \in mine
    BY <1>2, <2>1, MinFacts
  <2>3. Claimed(w, s, c) = Commanded(v, s, c, w.cmds[p])
    BY <1>2 DEF Claimed
  <2> HIDE DEF p
  <2>4. w.cmds \in [Places -> Commands \cup {NoCommand}]
    BY DEF Worlds
  <2>5. w.cmds[p] \in Commands
    <3>1. NoCommand.state # s
      BY StatesAssumption DEF NoCommand, None
    <3>q. QED
      BY <2>2, <2>4, <3>1
  <2>6. v \in Kept(w)
    <3> DEFINE q == [w.cmds EXCEPT ![p] = NoCommand]
    <3>1. q \in [Places -> Commands \cup {NoCommand}]
      BY <2>4
    <3>2. v = [w EXCEPT !.cmds = q]
      OBVIOUS
    <3> HIDE DEF q
    <3>q. QED
      BY <3>1, <3>2, FieldWrite
  <2> HIDE DEF v
  <2>7. Commanded(v, s, c, w.cmds[p]) \subseteq Kept(v)
    BY <2>5, <2>6, KeptWorld, CommandedKept
  <2>q. QED
    BY <2>3, <2>6, <2>7, KeptStep
<1>q. QED
  BY <1>1, <1>2

LEMMA RecallCommandsKept ==
    ASSUME NEW w \in Worlds, NEW s \in States, NEW c \in Contexts
    PROVE  RecallCommands(w, s, c) \subseteq Kept(w)
<1> DEFINE Next1(ws) == UNION {Claimed(v, s, c) : v \in ws}
           n1 == Next1(Expired(w))
           n2 == Next1(n1)
           n3 == Next1(n2)
<1>1. ASSUME NEW ws \in SUBSET Kept(w) PROVE Next1(ws) \subseteq Kept(w)
  <2>1. ASSUME NEW v \in ws PROVE Claimed(v, s, c) \subseteq Kept(w)
    <3>1. v \in Kept(w) /\ v \in Worlds
      BY KeptWorld
    <3>2. Claimed(v, s, c) \subseteq Kept(v)
      BY <3>1, ClaimedKept
    <3>q. QED
      BY <3>1, <3>2, KeptStep
  <2>q. QED
    BY <2>1
<1>2. RecallCommands(w, s, c) \subseteq {w} \cup n3
  BY DEF RecallCommands
<1> HIDE DEF Next1
<1>3. n1 \subseteq Kept(w)
  BY <1>1, ExpiredKept
<1> HIDE DEF n1
<1>4. n2 \subseteq Kept(w)
  BY <1>1, <1>3
<1> HIDE DEF n2
<1>5. n3 \subseteq Kept(w)
  BY <1>1, <1>4
<1>q. QED
  BY <1>2, <1>5, KeptSelf

-----------------------------------------------------------------------------
(* What the hooks are made of. *)

LEMMA NativeAsksKept ==
    ASSUME NEW w \in Worlds, NEW s \in States, NEW i \in Slots
    PROVE  /\ NativeChange(w, s, i) \subseteq Kept(w)
           /\ NativeRequest(w, s, i) \subseteq Kept(w)
<1> DEFINE sl == w.slot[s][i]
<1>0. sl \in SlotSet
  BY DEF Worlds
<1>1. ASSUME sl.st = "active" PROVE [w EXCEPT !.slot[s][i].pend = TRUE] \in Kept(w)
  <2> DEFINE x == [sl EXCEPT !.pend = TRUE]
  <2>1. x \in SlotSet /\ x.ent = sl.ent
    BY <1>0, <1>1 DEF SlotSet
  <2>2. [w EXCEPT !.slot[s][i].pend = TRUE] = [w EXCEPT !.slot[s][i] = x]
    OBVIOUS
  <2>q. QED
    BY <2>1, <2>2, SlotWrite
<1>2. sl.flags \cup {"summon"} \in SUBSET Flags /\ sl.flags \cup {"unsummon"} \in SUBSET Flags
  BY <1>0 DEF SlotSet, Flags
<1>3. /\ [w EXCEPT !.slot[s][i].flags = @ \cup {"summon"}] \in Kept(w)
      /\ [w EXCEPT !.slot[s][i].flags = @ \cup {"unsummon"}] \in Kept(w)
  <2>1. /\ [w EXCEPT !.slot[s][i].flags = sl.flags \cup {"summon"}] \in Kept(w)
        /\ [w EXCEPT !.slot[s][i].flags = sl.flags \cup {"unsummon"}] \in Kept(w)
    BY <1>2, FlagsWrite
  <2>q. QED
    BY <2>1
<1>4. NativeChange(w, s, i) \subseteq Kept(w)
  BY <1>1, <1>3, KeptSelf DEF NativeChange
<1>q. QED
  BY <1>3, <1>4, KeptSelf DEF NativeRequest

LEMMA KickKept ==
    ASSUME NEW w \in Worlds, NEW s \in States, NEW c \in Contexts, NEW i \in Slots
    PROVE  Kick(w, s, c, i) \subseteq Kept(w)
<1> DEFINE ready == IF /\ w.slot[s][i].st = "active" /\ w.slot[s][i].pend
                       /\ IsCustom(w, c, i, w.slot[s][i])
                    THEN Activate(w, s) ELSE {w}
<1>1. ready \subseteq Kept(w)
  BY ActivateKept, KeptSelf
<1>2. Kick(w, s, c, i) \subseteq {w} \cup UNION {NativeUpdate(v, s) : v \in ready}
  BY DEF Kick
<1> HIDE DEF ready
<1>3. ASSUME NEW v \in ready PROVE NativeUpdate(v, s) \subseteq Kept(w)
  BY <1>1, KeptWorld, NativesKept, KeptStep
<1>q. QED
  BY <1>2, <1>3, KeptSelf

LEMMA AfterFallbackKept ==
    ASSUME NEW w \in Worlds, NEW s \in States, NEW c \in Contexts, NEW i \in Slots
    PROVE  AfterFallback(w, s, c, i) \subseteq Kept(w)
<1> DEFINE Last(q) == IF q.done THEN {q.w} ELSE FreshResummon(q.w, s, c, i)
           Rest(r) == IF r.done THEN {r.w}
                      ELSE UNION {Last(q) : q \in ForceUnsummon(r.w, s, c, i, TRUE)}
<1>1. ASSUME NEW q \in Results(w) PROVE Last(q) \subseteq Kept(w)
  <2>1. q.w \in Kept(w) /\ q.w \in Worlds
    BY KeptWorld DEF Results
  <2>2. FreshResummon(q.w, s, c, i) \subseteq Kept(q.w)
    BY <2>1, FreshResummonKept
  <2>q. QED
    BY <2>1, <2>2, KeptStep
<1> HIDE DEF Last
<1>2. ASSUME NEW r \in Results(w) PROVE Rest(r) \subseteq Kept(w)
  <2>1. r.w \in Kept(w) /\ r.w \in Worlds
    BY KeptWorld DEF Results
  <2>2. ForceUnsummon(r.w, s, c, i, TRUE) \subseteq Results(r.w)
    BY <2>1, ForceUnsummonKept
  <2>3. ForceUnsummon(r.w, s, c, i, TRUE) \subseteq Results(w)
    BY <2>1, <2>2, ResultsStep
  <2>q. QED
    BY <1>1, <2>1, <2>3
<1>3. AfterFallback(w, s, c, i) = UNION {Rest(r) : r \in Defer(w, s, c, i)}
  BY DEF AfterFallback, Last
<1> HIDE DEF Rest
<1>q. QED
  BY <1>2, <1>3, DeferKept

LEMMA BlockedKept ==
    ASSUME NEW w \in Worlds, NEW s \in States, NEW c \in Contexts, NEW i \in Slots
    PROVE  Blocked(w, s, c, i) \in Results(w)
<1> DEFINE sl == w.slot[s][i]
           g == SetGate(w, s, i, sl, FALSE)
           free == [g EXCEPT !.ctx[c].zero[i].released = TRUE]
<1>0. sl \in SlotSet
  BY DEF Worlds
<1>1. g \in Kept(w)
  BY <1>0, SetGateKept
<1>2. Pass(w) \in Results(w) /\ Done(w) \in Results(w)
  BY KeptSelf, ResultsOf
<1>3. Pass(StopZero(w, c, i, sl)) \in Results(w)
  <2>1. StopZero(w, c, i, sl) \in Kept(w)
    BY <1>0, StopZeroKept
  <2>q. QED
    BY <2>1, ResultsOf
<1>4. Blocked(w, s, c, i) \in {Pass(w), Done(w), Pass(StopZero(w, c, i, sl)), Pass(free)}
  BY DEF Blocked
<1> HIDE DEF g
<1>5. free \in Kept(w)
  <2>0. g \in Worlds
    BY <1>1, KeptWorld
  <2>1. free \in Kept(g)
    BY <2>0, MarkWrite
  <2>q. QED
    BY <1>1, <2>1, KeptStep
<1>6. Pass(free) \in Results(w)
  <2> HIDE DEF free
  <2>q. QED
    BY <1>5, ResultsOf
<1>q. QED
  BY <1>2, <1>3, <1>4, <1>6

-----------------------------------------------------------------------------
(* The clock and the update. *)

\* A record whose timers have moved on records the same state and buddies.
Alike(k) == {j \in Records :
    /\ j.state = k.state /\ j.custom = k.custom /\ j.seen = k.seen
    /\ j.job.active = k.job.active /\ j.job.slot = k.job.slot}

LEMMA UptoNat == ASSUME NEW n \in Nat, NEW m \in Nat PROVE Upto(n, m) \in Nat
BY DEF Upto

LEMMA AgedMarks ==
    /\ \A z \in Zeros : AgedZero(z) \in Zeros
    /\ \A r \in Recalls : AgedRecall(r) \in Recalls
    /\ \A t \in Stucks : AgedStuck(t) \in Stucks
    /\ \A p \in Repairs : AgedRepair(p) \in Repairs
<1>0. StableTicks \in Nat /\ RepairTicks \in Nat /\ RepairTicks + 1 \in Nat /\ MaxActive \in Nat
  BY TimersAssumption
<1>1. ASSUME NEW z \in Zeros PROVE AgedZero(z) \in Zeros
  <2> DEFINE n1 == IF z.watch THEN Upto(z.stable, StableTicks) ELSE z.stable
             n2 == IF z.active THEN Upto(z.ran, MaxActive) ELSE z.ran
  <2>1. n1 \in Nat /\ n2 \in Nat
    BY <1>0, UptoNat DEF Zeros
  <2>2. AgedZero(z) = [z EXCEPT !.stable = n1, !.ran = n2]
    BY DEF AgedZero
  <2> HIDE DEF n1, n2
  <2>q. QED
    BY <2>1, <2>2 DEF Zeros
<1>2. ASSUME NEW r \in Recalls PROVE AgedRecall(r) \in Recalls
  <2> DEFINE n == IF r.watch THEN Upto(r.stable, StableTicks) ELSE r.stable
  <2>1. n \in Nat
    BY <1>0, UptoNat DEF Recalls
  <2>2. AgedRecall(r) = [r EXCEPT !.stable = n]
    BY DEF AgedRecall
  <2> HIDE DEF n
  <2>q. QED
    BY <2>1, <2>2 DEF Recalls
<1>3. ASSUME NEW t \in Stucks PROVE AgedStuck(t) \in Stucks
  <2> DEFINE n == IF t.watch THEN Upto(t.age, StableTicks) ELSE t.age
  <2>1. n \in Nat
    BY <1>0, UptoNat DEF Stucks
  <2>2. AgedStuck(t) = [t EXCEPT !.age = n]
    BY DEF AgedStuck
  <2> HIDE DEF n
  <2>q. QED
    BY <2>1, <2>2 DEF Stucks
<1>4. ASSUME NEW p \in Repairs PROVE AgedRepair(p) \in Repairs
  <2> DEFINE n1 == IF p.watch THEN Upto(p.age, RepairTicks) ELSE p.age
             n2 == IF p.tried > 0 THEN Upto(p.tried, RepairTicks + 1) ELSE p.tried
  <2>1. n1 \in Nat /\ n2 \in Nat
    BY <1>0, UptoNat DEF Repairs
  <2>2. AgedRepair(p) = [p EXCEPT !.age = n1, !.tried = n2]
    BY DEF AgedRepair
  <2> HIDE DEF n1, n2
  <2>q. QED
    BY <2>1, <2>2 DEF Repairs
<1>q. QED
  BY <1>1, <1>2, <1>3, <1>4

LEMMA AgedSlotAlike ==
    ASSUME NEW k \in Records, NEW i \in 0..2
    PROVE  AgedSlot(k, i) \in Alike(k)
<1>1. CASE i \notin Slots
  BY <1>1 DEF AgedSlot, Alike
<1>2. CASE i \in Slots
  <2> DEFINE z == AgedZero(k.zero[i])
             r == AgedRecall(k.recall[i])
             t == AgedStuck(k.stuck[i])
             p == AgedRepair(k.repair[i])
  <2>1. AgedSlot(k, i) = [k EXCEPT !.zero[i] = z, !.recall[i] = r, !.stuck[i] = t,
                                   !.repair[i] = p]
    BY <1>2 DEF AgedSlot
  <2>2. z \in Zeros /\ r \in Recalls /\ t \in Stucks /\ p \in Repairs
    BY <1>2, AgedMarks DEF Records
  <2> HIDE DEF z, r, t, p
  <2>3. [k EXCEPT !.zero[i] = z, !.recall[i] = r, !.stuck[i] = t, !.repair[i] = p]
        \in Alike(k)
    BY <1>2, <2>2 DEF Alike, Records
  <2>q. QED
    BY <2>1, <2>3
<1>q. QED
  BY <1>1, <1>2

LEMMA AgedAlike == ASSUME NEW k \in Records PROVE Aged(k) \in Alike(k)
<1> DEFINE k1 == AgedSlot(k, 0)
           k2 == AgedSlot(k1, 1)
           k3 == AgedSlot(k2, 2)
           due == IF k3.job.due > 0 THEN k3.job.due - 1 ELSE k3.job.due
           k4 == [k3 EXCEPT !.job.due = due]
<1>0. 0 \in 0..2 /\ 1 \in 0..2 /\ 2 \in 0..2
  OBVIOUS
<1>1. k1 \in Alike(k)
  BY <1>0, AgedSlotAlike
<1>2. Aged(k) \in {k, k4}
  BY DEF Aged
<1> HIDE DEF k1
<1>3. k2 \in Alike(k1) /\ k2 \in Alike(k)
  BY <1>0, <1>1, AgedSlotAlike DEF Alike
<1> HIDE DEF k2
<1>4. k3 \in Alike(k)
  BY <1>0, <1>3, AgedSlotAlike DEF Alike
<1> HIDE DEF k3
<1>5. k3.job \in Jobs
  BY <1>4 DEF Alike, Records
<1>6. due \in Nat
  BY <1>5 DEF Jobs
<1> HIDE DEF due
<1> DEFINE j == [k3.job EXCEPT !.due = due]
<1>7. j \in Jobs /\ j.active = k3.job.active /\ j.slot = k3.job.slot
  BY <1>5, <1>6 DEF Jobs
<1>8. k4 = [k3 EXCEPT !.job = j]
  OBVIOUS
<1> HIDE DEF j
<1>9. [k3 EXCEPT !.job = j] \in Alike(k)
  BY <1>4, <1>7 DEF Alike, Records
<1>10. k \in Alike(k)
  BY DEF Alike
<1> HIDE DEF k4
<1>q. QED
  BY <1>2, <1>8, <1>9, <1>10

LEMMA TickContexts ==
    ASSUME NEW w \in Worlds
    PROVE  Tick(w) = [w EXCEPT !.ctx = [c \in Contexts |-> Aged(w.ctx[c])]]
<1> DEFINE x == [c \in Contexts |-> Aged(w.ctx[c])]
<1>1. w.ctx \in [Contexts -> Records]
  BY DEF Worlds
<1>2. [w.ctx EXCEPT ![0] = Aged(@), ![1] = Aged(@), ![2] = Aged(@), ![3] = Aged(@),
                    ![4] = Aged(@), ![5] = Aged(@), ![6] = Aged(@), ![7] = Aged(@)] = x
  BY <1>1 DEF Contexts
<1>3. Tick(w) = [w EXCEPT !.ctx = [w.ctx EXCEPT ![0] = Aged(@), ![1] = Aged(@), ![2] = Aged(@),
              ![3] = Aged(@), ![4] = Aged(@), ![5] = Aged(@), ![6] = Aged(@), ![7] = Aged(@)]]
  BY DEF Tick
<1>q. QED
  BY <1>2, <1>3

\* The clock touches nothing but the timers.
LEMMA TickKept ==
    ASSUME NEW w \in Worlds
    PROVE  /\ Tick(w) \in Kept(w)
           /\ Tick(w).slot = w.slot /\ Tick(w).life = w.life /\ Tick(w).out = w.out
           /\ Tick(w).last = w.last /\ Tick(w).trouble = w.trouble
           /\ \A c \in Contexts : Tick(w).ctx[c] \in Alike(w.ctx[c])
<1> DEFINE x == [c \in Contexts |-> Aged(w.ctx[c])]
           v == [w EXCEPT !.ctx = x]
<1>1. \A c \in Contexts : Aged(w.ctx[c]) \in Alike(w.ctx[c])
  BY AgedAlike DEF Worlds
<1>2. x \in [Contexts -> Records]
  BY <1>1 DEF Alike
<1>3. \A c \in Contexts : x[c] \in Alike(w.ctx[c])
  BY <1>1
<1>4. Tick(w) = v
  BY TickContexts
<1> HIDE DEF x
<1>5. v \in Worlds
  BY <1>2 DEF Worlds
<1>6. v \in Kept(w)
  BY <1>3, <1>5 DEF Kept, Worlds, Alike
<1>7. /\ v.slot = w.slot /\ v.life = w.life /\ v.out = w.out /\ v.last = w.last
      /\ v.trouble = w.trouble /\ v.ctx = x
  BY DEF Worlds
<1>q. QED
  BY <1>3, <1>4, <1>6, <1>7

-----------------------------------------------------------------------------
(* The invariant of the specification: a sound world. *)

\* The context a state's creation opens: that of its owner, or the fallback.
Place(s) == IF TrackedOwner(Owner(s)) THEN Owner(s) ELSE 0

\* What is stored and recorded has been made; what is not made has the game's own data.
Made(w) ==
    /\ \A c \in Contexts, i \in Slots :
          w.ctx[c].custom[i] # 0 => w.life[w.ctx[c].custom[i]] # Unmade
    /\ \A s \in States, i \in Slots :
          w.slot[s][i].ent # 0 => w.life[w.slot[s][i].ent] # Unmade
    /\ \A e \in Entities : w.life[e] = Unmade => w.pgd[e] = NativePgd

\* A buddy is in one slot, and recorded as custom in one place.
Once(w) ==
    /\ \A s \in States, i \in Slots, t \in States, j \in Slots :
          w.slot[s][i].ent # 0 /\ w.slot[s][i].ent = w.slot[t][j].ent => s = t /\ i = j
    /\ \A c \in Contexts, i \in Slots, d \in Contexts, j \in Slots :
          w.ctx[c].custom[i] # 0 /\ w.ctx[c].custom[i] = w.ctx[d].custom[j] => c = d /\ i = j

\* A buddy has the game's own player data or the fixed entry of its owner and slot.
OwnEntry(w) ==
    \A s \in States, i \in Slots :
        LET e == w.slot[s][i].ent IN
        e # 0 => \/ w.pgd[e] = NativePgd
                 \/ Owner(s) \in FixedOwners /\ w.pgd[e][2] = FixedSlot(Owner(s), i)

\* Where creation comes first, no state is held outside its own place.
InPlace(w) ==
    CreateFirst => \A c \in Contexts : w.ctx[c].state # None => c = Place(w.ctx[c].state)

Sound == {w \in Worlds : Made(w) /\ Once(w) /\ OwnEntry(w) /\ InPlace(w)}

LEMMA SoundWorld == ASSUME NEW w \in Sound PROVE w \in Worlds
BY DEF Sound

\* Every buddy stored or recorded is one of the entities.
LEMMA StoredEntity ==
    ASSUME NEW w \in Worlds
    PROVE  /\ \A s \in States, i \in Slots :
                 w.slot[s][i].ent # 0 => w.slot[s][i].ent \in Entities
           /\ \A c \in Contexts, i \in Slots :
                 w.ctx[c].custom[i] # 0 => w.ctx[c].custom[i] \in Entities
<1>1. \A s \in States, i \in Slots : w.slot[s][i].ent # 0 => w.slot[s][i].ent \in Entities
  BY BoundsAssumption DEF Worlds, SlotSet, Entities
<1>2. \A c \in Contexts, i \in Slots :
         w.ctx[c].custom[i] # 0 => w.ctx[c].custom[i] \in Entities
  BY BoundsAssumption DEF Worlds, Records, Entities
<1>q. QED
  BY <1>1, <1>2

LEMMA KeptSound == ASSUME NEW w \in Sound, NEW v \in Kept(w) PROVE v \in Sound
<1>1. w \in Worlds /\ v \in Worlds
  BY KeptWorld, SoundWorld
<1>2. \A s \in States, i \in Slots : v.slot[s][i].ent = w.slot[s][i].ent
  BY DEF Kept
<1>3. \A c \in Contexts : v.ctx[c].state = w.ctx[c].state /\ v.ctx[c].custom = w.ctx[c].custom
  BY DEF Kept
<1>4. v.pgd = w.pgd /\ \A e \in Entities : v.life[e] = Unmade <=> w.life[e] = Unmade
  BY DEF Kept
<1>5. \A s \in States, i \in Slots : w.slot[s][i].ent # 0 => w.slot[s][i].ent \in Entities
  BY <1>1, StoredEntity
<1>6. \A c \in Contexts, i \in Slots :
         w.ctx[c].custom[i] # 0 => w.ctx[c].custom[i] \in Entities
  BY <1>1, StoredEntity
<1>7. Made(w) /\ Once(w) /\ OwnEntry(w) /\ InPlace(w)
  BY DEF Sound
<1>8. Made(v)
  BY <1>2, <1>3, <1>4, <1>5, <1>6, <1>7 DEF Made
<1>9. Once(v)
  BY <1>2, <1>3, <1>7 DEF Once
<1>10. OwnEntry(v)
  BY <1>2, <1>4, <1>7 DEF OwnEntry
<1>11. InPlace(v)
  BY <1>3, <1>7 DEF InPlace
<1>q. QED
  BY <1>1, <1>8, <1>9, <1>10, <1>11 DEF Sound

\* A context that records no buddy it did not record, of a state in its place.
LEMMA RecordSound ==
    ASSUME NEW w \in Sound, NEW c \in Contexts, NEW k \in Records,
           \A i \in Slots : k.custom[i] # 0 => k.custom[i] = w.ctx[c].custom[i],
           CreateFirst => (k.state = None \/ c = Place(k.state))
    PROVE  [w EXCEPT !.ctx[c] = k] \in Sound
<1> DEFINE v == [w EXCEPT !.ctx[c] = k]
<1>1. w \in Worlds
  BY SoundWorld
<1>2. v \in Worlds
  BY <1>1 DEF Worlds
<1>3. v.slot = w.slot /\ v.life = w.life /\ v.pgd = w.pgd
  BY <1>1 DEF Worlds
<1>4. \A d \in Contexts : v.ctx[d] = IF d = c THEN k ELSE w.ctx[d]
  BY <1>1 DEF Worlds
<1>5. \A d \in Contexts, i \in Slots :
         v.ctx[d].custom[i] # 0 => v.ctx[d].custom[i] = w.ctx[d].custom[i]
  BY <1>4
<1>6. \A d \in Contexts : v.ctx[d].state = IF d = c THEN k.state ELSE w.ctx[d].state
  BY <1>4
<1>7. Made(w) /\ Once(w) /\ OwnEntry(w) /\ InPlace(w)
  BY DEF Sound
<1> HIDE DEF v
<1>8. Made(v)
  BY <1>3, <1>5, <1>7 DEF Made
<1>9. Once(v)
  BY <1>3, <1>5, <1>7 DEF Once
<1>10. OwnEntry(v)
  BY <1>3, <1>7 DEF OwnEntry
<1>11. InPlace(v)
  BY <1>6, <1>7 DEF InPlace
<1>12. v \in Sound
  BY <1>2, <1>8, <1>9, <1>10, <1>11 DEF Sound
<1>q. QED
  BY <1>12 DEF v

LEMMA FreshSound ==
    ASSUME NEW w \in Sound, NEW c \in Contexts, NEW s \in States, CreateFirst => c = Place(s)
    PROVE  /\ [w EXCEPT !.ctx[c] = FreshContext(s, FALSE)] \in Sound
           /\ [w EXCEPT !.ctx[c] = FreshContext(s, TRUE)] \in Sound
<1>1. NoContext \in Records /\ \A i \in Slots : NoContext.custom[i] = 0
  <2>1. 0 \in 0..MaxEntity
    BY BoundsAssumption
  <2>2. NoZero \in Zeros /\ NoRecall \in Recalls /\ NoStuck \in Stucks /\ NoRepair \in Repairs
    BY <2>1 DEF NoZero, NoRecall, NoStuck, NoRepair, Zeros, Recalls, Stucks, Repairs, Stages
  <2>3. NoJob \in Jobs
    BY <2>1 DEF NoJob, Jobs, BuddySlots
  <2>4. "none" \in Wards
    BY DEF Wards
  <2>q. QED
    BY <2>1, <2>2, <2>3, <2>4 DEF NoContext, Records
<1>2. /\ FreshContext(s, FALSE) \in Records /\ FreshContext(s, TRUE) \in Records
      /\ FreshContext(s, FALSE).state = s /\ FreshContext(s, TRUE).state = s
      /\ FreshContext(s, FALSE).custom = NoContext.custom
      /\ FreshContext(s, TRUE).custom = NoContext.custom
  BY <1>1 DEF FreshContext, Records
<1>q. QED
  BY <1>1, <1>2, RecordSound

LEMMA ScopedSound ==
    ASSUME NEW w \in Sound, NEW s \in States, CreateFirst => (Holding(w, s) # {} \/ Place(s) = 0)
    PROVE  /\ Scoped(w, s) \in Sound
           /\ Holding(Scoped(w, s), s) # {}
           /\ \A m \in {"slot", "life", "out", "pgd", "room", "pool"} : Scoped(w, s)[m] = w[m]
<1> DEFINE v == [w EXCEPT !.ctx[0] = FreshContext(s, FALSE)]
<1>1. CASE Holding(w, s) # {}
  BY <1>1 DEF Scoped
<1>2. CASE Holding(w, s) = {}
  <2>1. Scoped(w, s) = v
    BY <1>2 DEF Scoped
  <2>2. 0 \in Contexts
    BY DEF Contexts
  <2>3. v \in Sound
    BY <1>2, <2>2, FreshSound
  <2>4. v.ctx[0].state = s
    BY <2>2, SoundWorld DEF Worlds, FreshContext, NoContext
  <2>5. 0 \in Holding(v, s)
    BY <2>2, <2>4 DEF Holding
  <2>6. \A m \in {"slot", "life", "out", "pgd", "room", "pool"} : v[m] = w[m]
    BY SoundWorld DEF Worlds
  <2> HIDE DEF v
  <2>q. QED
    BY <2>1, <2>3, <2>5, <2>6
<1>q. QED
  BY <1>1, <1>2

LEMMA AtSound == ASSUME NEW w \in Sound, NEW s \in States PROVE At(w, s) \in Kept(w)
BY SoundWorld, FieldWrite DEF At

\* What a hook sees first: its state has a context, which is noted as seen.
LEMMA EnteredSound ==
    ASSUME NEW w \in Sound, NEW s \in States, CreateFirst => Holding(w, s) # {}
    PROVE  LET v == Scoped(At(w, s), s)
               c == Found(v, s)
           IN c \in Contexts /\ Seen(v, c) \in Sound
<1> DEFINE a == At(w, s)
           v == Scoped(a, s)
           c == Found(v, s)
<1>1. a \in Kept(w) /\ a \in Sound
  BY AtSound, KeptSound
<1>2. a.ctx = w.ctx
  BY SoundWorld DEF At, Worlds
<1> HIDE DEF a
<1>3. Holding(a, s) = Holding(w, s)
  BY <1>2 DEF Holding
<1>4. v \in Sound /\ Holding(v, s) # {}
  BY <1>1, <1>3, ScopedSound
<1> HIDE DEF v
<1>5. c \in Contexts
  BY <1>4, SoundWorld, FoundFacts
<1> HIDE DEF c
<1>6. Seen(v, c) \in Kept(v)
  BY <1>4, <1>5, SoundWorld, OwnWrite DEF Seen
<1>q. QED
  BY <1>4, <1>5, <1>6, KeptSound DEF a, v, c

\* Sets of worlds reached by writes that keep a world.
LEMMA FallbackStep ==
    ASSUME NEW w \in Worlds, NEW s \in States, NEW c \in Contexts, NEW ws \in SUBSET Kept(w)
    PROVE  UNION {RemoteFallback(y, s, c) : y \in ws} \subseteq Results(w)
<1>1. ASSUME NEW y \in ws PROVE RemoteFallback(y, s, c) \subseteq Results(w)
  <2>1. y \in Kept(w) /\ y \in Worlds
    BY KeptWorld
  <2>2. RemoteFallback(y, s, c) \subseteq Results(y)
    BY <2>1, RemoteFallbackKept
  <2>q. QED
    BY <2>1, <2>2, ResultsStep
<1>q. QED
  BY <1>1

LEMMA KickStep ==
    ASSUME NEW w \in Worlds, NEW s \in States, NEW c \in Contexts, NEW i \in Slots,
           NEW ws \in SUBSET Kept(w)
    PROVE  UNION {Kick(x, s, c, i) : x \in ws} \subseteq Kept(w)
<1>1. ASSUME NEW x \in ws PROVE Kick(x, s, c, i) \subseteq Kept(w)
  BY KeptWorld, KickKept, KeptStep
<1>q. QED
  BY <1>1

LEMMA ChangeSound ==
    ASSUME NEW w \in Sound, NEW s \in States, NEW i \in Slots, CreateFirst => Holding(w, s) # {}
    PROVE  ChangeHook(w, s, i) \subseteq Sound
<1> DEFINE v == Scoped(At(w, s), s)
           c == Found(v, s)
           u == Seen(v, c)
           asked == NativeChange(u, s, i)
           kicked == UNION {Kick(x, s, c, i) : x \in asked}
           driven == UNION {RemoteFallback(y, s, c) : y \in kicked}
           End(r) == IF r.done THEN {r.w} ELSE AfterFallback(r.w, s, c, i)
<1>1. c \in Contexts /\ u \in Sound /\ u \in Worlds
  BY EnteredSound, SoundWorld
<1>2. ChangeHook(w, s, i) \subseteq
        asked \cup Raised(u) \cup UNION {End(r) : r \in driven}
  BY DEF ChangeHook
<1> HIDE DEF c, u
<1>3. asked \subseteq Kept(u)
  BY <1>1, NativeAsksKept
<1> HIDE DEF asked
<1>4. kicked \subseteq Kept(u)
  BY <1>1, <1>3, KickStep
<1> HIDE DEF kicked
<1>5. driven \subseteq Results(u)
  BY <1>1, <1>4, FallbackStep
<1> HIDE DEF driven
<1>6. ASSUME NEW r \in driven PROVE End(r) \subseteq Kept(u)
  <2>1. r.w \in Kept(u) /\ r.w \in Worlds
    BY <1>1, <1>5, KeptWorld DEF Results
  <2>2. AfterFallback(r.w, s, c, i) \subseteq Kept(r.w)
    BY <1>1, <2>1, AfterFallbackKept
  <2>q. QED
    BY <1>1, <2>1, <2>2, KeptStep
<1> HIDE DEF End
<1>7. Raised(u) \subseteq Kept(u)
  BY <1>1, RaisedKept
<1>8. ChangeHook(w, s, i) \subseteq Kept(u)
  BY <1>2, <1>3, <1>6, <1>7
<1>q. QED
  BY <1>1, <1>8, KeptSound

LEMMA RequestSound ==
    ASSUME NEW w \in Sound, NEW s \in States, NEW i \in Slots, CreateFirst => Holding(w, s) # {}
    PROVE  RequestHook(w, s, i) \subseteq Sound
<1> DEFINE v == Scoped(At(w, s), s)
           c == Found(v, s)
           u == Seen(v, c)
           asked == NativeRequest(u, s, i)
           kicked == UNION {Kick(x, s, c, i) : x \in asked}
           driven == UNION {RemoteFallback(y, s, c) : y \in kicked}
           to(x) == SwitchTarget(u, x, s, c, i)
           End(x) == IF to(x) # {} THEN {StopRecall(Schedule(x, s, c, Min(to(x))), c, i)}
                     ELSE {r.w : r \in ForceUnsummon(x, s, c, i, FALSE)}
<1>1. c \in Contexts /\ u \in Sound /\ u \in Worlds
  BY EnteredSound, SoundWorld
<1>2. RequestHook(w, s, i) \subseteq
        asked \cup Raised(u) \cup UNION {End(r.w) : r \in driven}
  BY DEF RequestHook
<1> HIDE DEF c, u
<1>3. asked \subseteq Kept(u)
  BY <1>1, NativeAsksKept
<1> HIDE DEF asked
<1>4. kicked \subseteq Kept(u)
  BY <1>1, <1>3, KickStep
<1> HIDE DEF kicked
<1>5. driven \subseteq Results(u)
  BY <1>1, <1>4, FallbackStep
<1> HIDE DEF driven
<1>6. ASSUME NEW x \in Kept(u) PROVE End(x) \subseteq Kept(u)
  <2>1. x \in Worlds
    BY KeptWorld
  <2>2. CASE to(x) # {}
    <3> DEFINE j == Min(to(x))
               y == Schedule(x, s, c, j)
    <3>1. to(x) \in SUBSET Slots
      BY DEF SwitchTarget
    <3>2. to(x) \in SUBSET Nat
      <4>1. Slots \subseteq Nat
        BY SlotsAssumption DEF BuddySlots
      <4> HIDE DEF to
      <4>q. QED
        BY <3>1, <4>1
    <3>3. j \in Slots
      BY <2>2, <3>1, <3>2, MinFacts
    <3> HIDE DEF j
    <3>4. y \in Kept(x)
      BY <1>1, <2>1, <3>3, ScheduleKept
    <3>5. y \in Kept(u)
      BY <1>1, <3>4, KeptStep
    <3> HIDE DEF y
    <3>6. StopRecall(y, c, i) \in Kept(y)
      BY <1>1, <3>5, KeptWorld, StopsKept
    <3>7. StopRecall(y, c, i) \in Kept(u)
      BY <1>1, <3>5, <3>6, KeptStep
    <3>q. QED
      BY <2>2, <3>7 DEF y, j
  <2>3. CASE to(x) = {}
    <3>1. ForceUnsummon(x, s, c, i, FALSE) \subseteq Results(x)
      BY <1>1, <2>1, ForceUnsummonKept
    <3>2. ASSUME NEW r \in ForceUnsummon(x, s, c, i, FALSE) PROVE r.w \in Kept(u)
      BY <1>1, <3>1, KeptStep DEF Results
    <3>q. QED
      BY <2>3, <3>2
  <2>q. QED
    BY <2>2, <2>3
<1> HIDE DEF End
<1>7. ASSUME NEW r \in driven PROVE End(r.w) \subseteq Kept(u)
  <2>1. r.w \in Kept(u)
    BY <1>5 DEF Results
  <2>q. QED
    BY <1>6, <2>1
<1>8. Raised(u) \subseteq Kept(u)
  BY <1>1, RaisedKept
<1>9. RequestHook(w, s, i) \subseteq Kept(u)
  BY <1>2, <1>3, <1>7, <1>8
<1>q. QED
  BY <1>1, <1>9, KeptSound

LEMMA TryUseSound ==
    ASSUME NEW w \in Sound, NEW s \in States, NEW i \in Slots, CreateFirst => Holding(w, s) # {}
    PROVE  TryUse(w, s, i) \subseteq Sound
<1> DEFINE v == Scoped(At(w, s), s)
           c == Found(v, s)
           u == Seen(v, c)
           b == Blocked(u, s, c, i)
           there == Deployed(b.w, s, c, i)
           sched == ~there /\ HasCustom(b.w, c)
           sc == Schedule(b.w, s, c, i)
           x0 == IF sched THEN [sc EXCEPT !.ctx[c].defer = i] ELSE b.w
           calm(x) == [x EXCEPT !.ctx[c].defer = None]
           freed(x) == StopRecall(calm(x), c, i)
           Used(x) == IF ~there /\ (sched \/ HasCustom(freed(x), c))
                      THEN Schedule(freed(x), s, c, i) ELSE freed(x)
           Refused(x) == IF sched THEN [calm(x) EXCEPT !.ctx[c].job = NoJob] ELSE calm(x)
<1>1. c \in Contexts /\ u \in Sound /\ u \in Worlds
  BY EnteredSound, SoundWorld
<1>2. CreateFirst => Holding(u, s) # {}
  <2> DEFINE a == At(w, s)
  <2>1. a \in Kept(w) /\ a \in Sound /\ a.ctx = w.ctx
    BY AtSound, KeptSound, SoundWorld DEF At, Worlds
  <2>2. Holding(a, s) = Holding(w, s)
    BY <2>1 DEF Holding
  <2> HIDE DEF a
  <2>3. v \in Sound /\ Holding(v, s) # {}
    BY <2>1, <2>2, ScopedSound DEF a
  <2> HIDE DEF v, c
  <2>4. u \in Kept(v)
    BY <1>1, <2>3, SoundWorld, OwnWrite DEF Seen
  <2>q. QED
    BY <2>3, <2>4 DEF Kept, Holding
<1>3. TryUse(w, s, i) \subseteq
        {b.w} \cup {Refused(x) : x \in {x0} \cup Raised(x0)}
              \cup {Used(x) : x \in ChangeHook(x0, s, i)}
  BY DEF TryUse
<1> HIDE DEF c, u
<1>4. b \in Results(u)
  BY <1>1, BlockedKept
<1>5. b.w \in Kept(u) /\ b.w \in Worlds
  BY <1>4, KeptWorld DEF Results
<1> HIDE DEF b
<1>6. x0 \in Kept(u)
  <2>1. sc \in Kept(b.w)
    BY <1>1, <1>5, ScheduleKept
  <2>2. sc \in Kept(u)
    BY <1>1, <1>5, <2>1, KeptStep
  <2> HIDE DEF sc
  <2>3. [sc EXCEPT !.ctx[c].defer = i] \in Kept(sc)
    BY <1>1, <2>2, KeptWorld, OwnWrite
  <2>4. [sc EXCEPT !.ctx[c].defer = i] \in Kept(u)
    BY <1>1, <2>2, <2>3, KeptStep
  <2>q. QED
    BY <1>5, <2>4
<1> HIDE DEF there, sched, x0
<1>7. ASSUME NEW x \in Worlds PROVE Refused(x) \in Kept(x) /\ Used(x) \in Kept(x)
  <2> DEFINE y == calm(x)
             z == freed(x)
  <2>1. y \in Kept(x)
    BY <1>1, OwnWrite
  <2>2. z \in Kept(x)
    <3> HIDE DEF y
    <3>1. StopRecall(y, c, i) \in Kept(y)
      BY <1>1, <2>1, KeptWorld, StopsKept
    <3>2. StopRecall(y, c, i) \in Kept(x)
      BY <2>1, <3>1, KeptStep
    <3>q. QED
      BY <3>2 DEF y
  <2>3. NoJob \in Jobs
    BY BoundsAssumption DEF NoJob, Jobs, BuddySlots
  <2> HIDE DEF calm, freed
  <2>4. [y EXCEPT !.ctx[c].job = NoJob] \in Kept(y)
    BY <1>1, <2>1, <2>3, KeptWorld, OwnWrite
  <2>5. [y EXCEPT !.ctx[c].job = NoJob] \in Kept(x)
    BY <2>1, <2>4, KeptStep
  <2>6. Schedule(z, s, c, i) \in Kept(z)
    BY <1>1, <2>2, KeptWorld, ScheduleKept
  <2>7. Schedule(z, s, c, i) \in Kept(x)
    BY <2>2, <2>6, KeptStep
  <2>q. QED
    BY <2>1, <2>2, <2>5, <2>7
<1> HIDE DEF Refused, Used
<1>8. x0 \in Sound /\ b.w \in Sound /\ x0 \in Worlds
  BY <1>1, <1>5, <1>6, KeptSound, KeptWorld
<1>9. ChangeHook(x0, s, i) \subseteq Sound
  <2>1. Holding(x0, s) = Holding(u, s)
    BY <1>6 DEF Kept, Holding
  <2>q. QED
    BY <1>2, <1>8, <2>1, ChangeSound
<1>10. ASSUME NEW x \in ChangeHook(x0, s, i) PROVE Used(x) \in Sound
  <2>1. x \in Sound /\ x \in Worlds
    BY <1>9, SoundWorld
  <2>q. QED
    BY <1>7, <2>1, KeptSound
<1>11. ASSUME NEW x \in {x0} \cup Raised(x0) PROVE Refused(x) \in Sound
  <2>1. x \in Kept(x0)
    BY <1>8, KeptSelf, RaisedKept
  <2>2. x \in Sound /\ x \in Worlds
    BY <1>8, <2>1, KeptSound, KeptWorld
  <2>q. QED
    BY <1>7, <2>2, KeptSound
<1>q. QED
  BY <1>3, <1>8, <1>10, <1>11

LEMMA ModuleUpdateKept ==
    ASSUME NEW w \in Worlds, NEW s \in States
    PROVE  ModuleUpdate(w, s) \subseteq Kept(w)
<1> DEFINE a == At(w, s)
           v == Tick(a)
           c == Found(v, s)
           ready == IF \E i \in Slots : /\ v.slot[s][i].st = "active" /\ v.slot[s][i].pend
                                        /\ IsCustom(v, c, i, v.slot[s][i])
                    THEN Activate(v, s) ELSE {v}
           before == v.slot[s]
           native == UNION {NativeUpdate(x, s) : x \in ready}
           results == UNION {RemoteFallback(x, s, c) : x \in native}
           driven == {r.w : r \in results}
           ordered == UNION {RecallCommands(x, s, c) : x \in driven}
           Step(ws, i) == IF i \in Slots THEN UNION {Upkeep(x, s, c, i, before) : x \in ws}
                          ELSE ws
           k1 == Step(ordered, 0)
           k2 == Step(k1, 1)
           kept == Step(k2, 2)
           clean == UNION {Cleanup(x, s, c) : x \in kept}
<1>1. a \in Kept(w)
  BY FieldWrite DEF At
<1>2. v \in Kept(w)
  <2> HIDE DEF a
  <2>1. v \in Kept(a)
    BY <1>1, KeptWorld, TickKept
  <2>q. QED
    BY <1>1, <2>1, KeptStep
<1>3. ModuleUpdate(w, s) = IF ~HasWork(v, s) THEN NativeUpdate(v, s) ELSE clean
  BY DEF ModuleUpdate
<1> HIDE DEF v
<1>4. CASE ~HasWork(v, s)
  <2>1. NativeUpdate(v, s) \subseteq Kept(v)
    BY <1>2, KeptWorld, NativesKept
  <2>q. QED
    BY <1>2, <1>3, <1>4, <2>1, KeptStep
<1>5. CASE HasWork(v, s)
  <2>1. c \in Contexts /\ v \in Worlds
    BY <1>2, <1>5, KeptWorld, FoundFacts DEF HasWork
  <2> HIDE DEF c
  <2>2. ready \subseteq Kept(v)
    BY <2>1, ActivateKept, KeptSelf
  <2> HIDE DEF ready
  <2>3. native \subseteq Kept(v)
    <3>1. ASSUME NEW x \in ready PROVE NativeUpdate(x, s) \subseteq Kept(v)
      BY <2>1, <2>2, KeptWorld, NativesKept, KeptStep
    <3>q. QED
      BY <3>1
  <2> HIDE DEF native
  <2>4. results \subseteq Results(v)
    BY <2>1, <2>3, FallbackStep
  <2> HIDE DEF results
  <2>5. driven \subseteq Kept(v)
    BY <2>4 DEF Results
  <2> HIDE DEF driven
  <2>6. ordered \subseteq Kept(v)
    <3>1. ASSUME NEW x \in driven PROVE RecallCommands(x, s, c) \subseteq Kept(v)
      BY <2>1, <2>5, KeptWorld, RecallCommandsKept, KeptStep
    <3>q. QED
      BY <3>1
  <2> HIDE DEF ordered, before
  <2>7. ASSUME NEW ws \in SUBSET Kept(v), NEW i \in 0..2 PROVE Step(ws, i) \subseteq Kept(v)
    <3>1. ASSUME NEW x \in ws, i \in Slots PROVE Upkeep(x, s, c, i, before) \subseteq Kept(v)
      <4>1. x \in Kept(v)
        OBVIOUS
      <4>q. QED
        BY <2>1, <3>1, <4>1, KeptWorld, UpkeepKept, KeptStep
    <3>q. QED
      BY <3>1
  <2> HIDE DEF Step
  <2>8. k1 \subseteq Kept(v)
    BY <2>6, <2>7
  <2> HIDE DEF k1
  <2>11. k2 \subseteq Kept(v)
    BY <2>7, <2>8
  <2> HIDE DEF k2
  <2>9. kept \subseteq Kept(v)
    BY <2>7, <2>11
  <2> HIDE DEF kept
  <2>10. clean \subseteq Kept(v)
    <3>1. ASSUME NEW x \in kept PROVE Cleanup(x, s, c) \subseteq Kept(v)
      BY <2>1, <2>9, KeptWorld, CleanupKept, KeptStep
    <3>q. QED
      BY <3>1
  <2>q. QED
    BY <1>2, <1>3, <1>5, <2>10, KeptStep
<1>q. QED
  BY <1>4, <1>5

-----------------------------------------------------------------------------
(* The creation of a buddy. *)

LEMMA SameSound ==
    ASSUME NEW w \in Sound, NEW v \in Worlds,
           v.ctx = w.ctx, v.slot = w.slot, v.life = w.life, v.pgd = w.pgd
    PROVE  v \in Sound
BY DEF Sound, Made, Once, OwnEntry, InPlace

LEMMA OwnerScopedSound ==
    ASSUME NEW w \in Sound, NEW s \in States
    PROVE  LET v == OwnerScoped(w, s) IN
           /\ v \in Sound
           /\ OwnerFound(v, s) \in Contexts /\ v.ctx[OwnerFound(v, s)].state = s
           /\ CreateFirst => OwnerFound(v, s) = Place(s)
           /\ \A m \in {"slot", "life", "out", "pgd", "room", "pool"} : v[m] = w[m]
<1> DEFINE o == Owner(s)
           v == OwnerScoped(w, s)
<1>0. w \in Worlds
  BY SoundWorld
<1>1. CASE ~TrackedOwner(o)
  <2>1. Place(s) = 0
    BY <1>1 DEF Place
  <2>2. v = Scoped(w, s) /\ OwnerFound(v, s) = Found(v, s)
    BY <1>1 DEF OwnerScoped, OwnerFound
  <2>3. /\ v \in Sound /\ Holding(v, s) # {}
        /\ \A m \in {"slot", "life", "out", "pgd", "room", "pool"} : v[m] = w[m]
    BY <2>1, <2>2, ScopedSound
  <2> HIDE DEF v
  <2>4. v \in Worlds
    BY <2>3, SoundWorld
  <2>5. Found(v, s) \in Contexts /\ v.ctx[Found(v, s)].state = s
    BY <2>3, <2>4, FoundFacts
  <2>6. s # None
    BY StatesAssumption DEF None
  <2>7. CreateFirst => Found(v, s) = Place(s)
    BY <2>3, <2>5, <2>6 DEF Sound, InPlace
  <2>q. QED
    BY <2>2, <2>3, <2>5, <2>7 DEF v
<1>2. CASE TrackedOwner(o)
  <2>1. o \in Contexts
    BY <1>2, StatesAssumption DEF TrackedOwner, Owner, Contexts
  <2>2. Place(s) = o
    BY <1>2 DEF Place
  <2>2a. \A u : OwnerFound(u, s) = o
    BY <1>2 DEF OwnerFound
  <2> HIDE DEF o
  <2>3. v = IF w.ctx[o].state = s THEN [w EXCEPT !.ctx[o].known = TRUE]
            ELSE [w EXCEPT !.ctx[o] = FreshContext(s, TRUE)]
    BY <1>2 DEF OwnerScoped, o
  <2>4. CASE w.ctx[o].state = s
    <3>1. v = [w EXCEPT !.ctx[o].known = TRUE]
      BY <2>3, <2>4
    <3>2. v \in Kept(w)
      BY <1>0, <2>1, <3>1, OwnWrite
    <3>3. v.ctx[o].state = s
      BY <2>1, <2>4, <3>2 DEF Kept
    <3>4. \A m \in {"slot", "life", "out", "pgd", "room", "pool"} : v[m] = w[m]
      BY <1>0, <3>1 DEF Worlds
    <3> HIDE DEF v
    <3>q. QED
      BY <2>1, <2>2, <2>2a, <3>2, <3>3, <3>4, KeptSound DEF v
  <2>5. CASE w.ctx[o].state # s
    <3>1. v = [w EXCEPT !.ctx[o] = FreshContext(s, TRUE)]
      BY <2>3, <2>5
    <3>2. v \in Sound
      <4>1. [w EXCEPT !.ctx[o] = FreshContext(s, TRUE)] \in Sound
        BY <2>1, <2>2, FreshSound
      <4> HIDE DEF v
      <4>q. QED
        BY <3>1, <4>1
    <3>3. v.ctx[o].state = s
      BY <1>0, <2>1, <3>1 DEF Worlds, FreshContext, NoContext
    <3>4. \A m \in {"slot", "life", "out", "pgd", "room", "pool"} : v[m] = w[m]
      BY <1>0, <3>1 DEF Worlds
    <3> HIDE DEF v
    <3>q. QED
      BY <2>1, <2>2, <2>2a, <3>2, <3>3, <3>4 DEF v
  <2>q. QED
    BY <2>4, <2>5
<1>q. QED
  BY <1>1, <1>2

\* The record of a slot is cleared before its buddy is made.
LEMMA ClearedSound ==
    ASSUME NEW w \in Sound, NEW c \in Contexts, NEW i \in Slots
    PROVE  LET v == [w EXCEPT !.ctx[c] = [@ EXCEPT !.custom[i] = 0, !.ward[i] = "none"]] IN
           /\ v \in Sound
           /\ v.slot = w.slot /\ v.life = w.life /\ v.pgd = w.pgd /\ v.ctx[c].state = w.ctx[c].state
<1> DEFINE k == w.ctx[c]
           n == [k EXCEPT !.custom[i] = 0, !.ward[i] = "none"]
           v == [w EXCEPT !.ctx[c] = [@ EXCEPT !.custom[i] = 0, !.ward[i] = "none"]]
<1>0. w \in Worlds /\ k \in Records
  BY SoundWorld DEF Worlds
<1>1. v = [w EXCEPT !.ctx[c] = n]
  OBVIOUS
<1>2. 0 \in 0..MaxEntity /\ "none" \in Wards
  BY BoundsAssumption DEF Wards
<1>3. n \in Records /\ n.state = k.state
  BY <1>0, <1>2 DEF Records
<1>4. \A j \in Slots : n.custom[j] # 0 => n.custom[j] = k.custom[j]
  BY <1>0 DEF Records
<1>5. CreateFirst => (k.state = None \/ c = Place(k.state))
  BY DEF Sound, InPlace
<1> HIDE DEF n, v
<1>6. v \in Sound
  BY <1>1, <1>3, <1>4, <1>5, RecordSound
<1>7. v.slot = w.slot /\ v.life = w.life /\ v.pgd = w.pgd /\ v.ctx[c].state = w.ctx[c].state
  BY <1>0, <1>1, <1>3 DEF Worlds
<1>q. QED
  BY <1>6, <1>7 DEF v

\* The writes of a creation: the context's record, the buddy's health, and the slot.
Born(w, s, i, c, e, n, x) ==
    [w EXCEPT !.ctx[c] = n, !.life[e] = MaxHp, !.slot[s][i] = x]

\* A new buddy in an empty slot: one nobody stored or recorded before.
LEMMA MadeSound ==
    ASSUME NEW w \in Sound, NEW s \in States, NEW i \in Slots, NEW c \in Contexts,
           NEW e \in Entities, w.life[e] = Unmade, w.slot[s][i].ent = 0,
           NEW n \in Records, n.state = w.ctx[c].state, n.custom[i] \in {0, e},
           \A j \in Slots \ {i} : n.custom[j] = w.ctx[c].custom[j],
           NEW x \in SlotSet, x.ent = e
    PROVE  /\ Born(w, s, i, c, e, n, x) \in Sound
           /\ Born(w, s, i, c, e, n, x).slot[s][i].ent = e
<1> DEFINE v == [w EXCEPT !.ctx[c] = n, !.life[e] = MaxHp, !.slot[s][i] = x]
<1>0. w \in Worlds
  BY SoundWorld
<1>2. e # 0 /\ e \in 0..MaxEntity /\ 0 \in 0..MaxEntity
  BY BoundsAssumption DEF Entities
<1>6. MaxHp \in -2..MaxHp /\ MaxHp # Unmade
  BY BoundsAssumption DEF Unmade
<1>7. v \in Worlds
  BY <1>0, <1>6 DEF Worlds
<1>8. /\ v.slot[s][i].ent = e
      /\ \A t \in States, j \in Slots : v.slot[t][j].ent = w.slot[t][j].ent \/ (t = s /\ j = i)
  BY <1>0 DEF Worlds
<1>9. \A f \in Entities : v.life[f] = IF f = e THEN MaxHp ELSE w.life[f]
  BY <1>0 DEF Worlds
<1>10. v.pgd = w.pgd
  BY <1>0 DEF Worlds
<1>11. /\ v.ctx[c].custom[i] \in {0, e}
       /\ \A d \in Contexts, j \in Slots :
             v.ctx[d].custom[j] = w.ctx[d].custom[j] \/ (d = c /\ j = i)
  BY <1>0 DEF Worlds
<1>12. \A d \in Contexts : v.ctx[d].state = w.ctx[d].state
  BY <1>0 DEF Worlds
<1> HIDE DEF v
<1>13. Made(w) /\ Once(w) /\ OwnEntry(w) /\ InPlace(w)
  BY DEF Sound
<1>14. \A t \in States, j \in Slots :
          /\ w.slot[t][j].ent # e
          /\ w.slot[t][j].ent # 0 => w.slot[t][j].ent \in Entities
  <2>1. \A t \in States, j \in Slots :
           w.slot[t][j].ent # 0 => w.slot[t][j].ent \in Entities
    BY <1>0, StoredEntity
  <2>q. QED
    BY <1>2, <1>13, <2>1 DEF Made
<1>15. \A d \in Contexts, j \in Slots :
          /\ w.ctx[d].custom[j] # e
          /\ w.ctx[d].custom[j] # 0 => w.ctx[d].custom[j] \in Entities
  <2>1. \A d \in Contexts, j \in Slots :
           w.ctx[d].custom[j] # 0 => w.ctx[d].custom[j] \in Entities
    BY <1>0, StoredEntity
  <2>q. QED
    BY <1>2, <1>13, <2>1 DEF Made
<1>16. Made(v)
  <2>1. \A d \in Contexts, j \in Slots :
           v.ctx[d].custom[j] # 0 => v.life[v.ctx[d].custom[j]] # Unmade
    BY <1>6, <1>9, <1>11, <1>13, <1>15 DEF Made
  <2>2. \A t \in States, j \in Slots :
           v.slot[t][j].ent # 0 => v.life[v.slot[t][j].ent] # Unmade
    BY <1>6, <1>8, <1>9, <1>13, <1>14 DEF Made
  <2>3. \A f \in Entities : v.life[f] = Unmade => v.pgd[f] = NativePgd
    BY <1>6, <1>9, <1>10, <1>13 DEF Made
  <2>q. QED
    BY <2>1, <2>2, <2>3 DEF Made
<1>17. Once(v)
  <2>1. \A t \in States, j \in Slots : v.slot[t][j].ent = e <=> t = s /\ j = i
    BY <1>8, <1>14
  <2>2. \A d \in Contexts, j \in Slots : v.ctx[d].custom[j] = e => d = c /\ j = i
    BY <1>11, <1>15
  <2>3. \A t \in States, j \in Slots, p \in States, q \in Slots :
           v.slot[t][j].ent # 0 /\ v.slot[t][j].ent = v.slot[p][q].ent => t = p /\ j = q
    BY <1>8, <1>13, <2>1 DEF Once
  <2>4. \A d \in Contexts, j \in Slots, p \in Contexts, q \in Slots :
           v.ctx[d].custom[j] # 0 /\ v.ctx[d].custom[j] = v.ctx[p].custom[q] => d = p /\ j = q
    BY <1>11, <1>13, <2>2 DEF Once
  <2>q. QED
    BY <2>3, <2>4 DEF Once
<1>18. OwnEntry(v)
  BY <1>8, <1>10, <1>13 DEF OwnEntry, Made
<1>19. InPlace(v)
  BY <1>12, <1>13 DEF InPlace
<1>20. v \in Sound
  BY <1>7, <1>16, <1>17, <1>18, <1>19 DEF Sound
<1>q. QED
  BY <1>8, <1>20 DEF v, Born

LEMMA GrownPoolTyped == ASSUME NEW p \in Pools PROVE GrownPool(p) \in Pools
<1> DEFINE rest == IF p.mgr \in p.recs THEN p.recs \ {p.mgr} ELSE p.recs
           more == rest \cup {p.mgr}
<1>1. rest \in SUBSET Nat /\ more \in SUBSET Nat
  BY DEF Pools
<1>2. GrownPool(p) \in {p, [p EXCEPT !.table = "grown"], [p EXCEPT !.recs = rest],
                        [p EXCEPT !.table = "grown", !.recs = more]}
  BY DEF GrownPool, Pools
<1> HIDE DEF rest, more
<1>3. [p EXCEPT !.table = "grown"] \in Pools
  BY DEF Pools
<1>4. [p EXCEPT !.recs = rest] \in Pools
  BY <1>1 DEF Pools
<1>5. [p EXCEPT !.table = "grown", !.recs = more] \in Pools
  BY <1>1 DEF Pools
<1>q. QED
  BY <1>2, <1>3, <1>4, <1>5

\* The player data of a buddy becomes the fixed entry of its owner and slot.
LEMMA EntrySound ==
    ASSUME NEW w \in Sound, NEW s \in States, NEW i \in Slots, NEW m \in Nat,
           w.slot[s][i].ent \in Entities, Owner(s) \in FixedOwners
    PROVE  [w EXCEPT !.pgd[w.slot[s][i].ent] = <<m, FixedSlot(Owner(s), i)>>] \in Sound
<1> DEFINE e == w.slot[s][i].ent
           n == FixedSlot(Owner(s), i)
           v == [w EXCEPT !.pgd[e] = <<m, n>>]
<1>0. w \in Worlds /\ e # 0
  BY SoundWorld, BoundsAssumption DEF Entities
<1>1. n \in Nat
  BY SlotsAssumption DEF FixedSlot, FixedOwners, BuddySlots, NpcRoom
<1>2. Made(w) /\ Once(w) /\ OwnEntry(w) /\ InPlace(w)
  BY DEF Sound
<1>3. w.life[e] # Unmade
  BY <1>0, <1>2 DEF Made
<1>4. \A t \in States, j \in Slots : w.slot[t][j].ent = e => t = s /\ j = i
  BY <1>0, <1>2 DEF Once
<1> HIDE DEF n
<1>5. v \in Worlds
  BY <1>0, <1>1 DEF Worlds
<1>6. v.slot = w.slot /\ v.life = w.life /\ v.ctx = w.ctx
  BY <1>0 DEF Worlds
<1>7. \A f \in Entities : v.pgd[f] = IF f = e THEN <<m, n>> ELSE w.pgd[f]
  BY <1>0 DEF Worlds
<1>8. \A t \in States, j \in Slots : w.slot[t][j].ent # 0 => w.slot[t][j].ent \in Entities
  BY <1>0, StoredEntity
<1> HIDE DEF v
<1>9. Made(v)
  BY <1>2, <1>3, <1>6, <1>7 DEF Made
<1>10. Once(v) /\ InPlace(v)
  BY <1>2, <1>6 DEF Once, InPlace
<1>11. OwnEntry(v)
  <2>1. SUFFICES ASSUME NEW t \in States, NEW j \in Slots, w.slot[t][j].ent # 0
                 PROVE  \/ v.pgd[w.slot[t][j].ent] = NativePgd
                        \/ /\ Owner(t) \in FixedOwners
                           /\ v.pgd[w.slot[t][j].ent][2] = FixedSlot(Owner(t), j)
    BY <1>6 DEF OwnEntry
  <2>2. CASE w.slot[t][j].ent = e
    <3>1. t = s /\ j = i
      BY <1>4, <2>2
    <3>2. v.pgd[w.slot[t][j].ent] = <<m, n>>
      BY <1>7, <1>8, <2>1, <2>2
    <3>3. v.pgd[w.slot[t][j].ent][2] = n
      BY <3>2
    <3>q. QED
      BY <3>1, <3>3 DEF n
  <2>3. CASE w.slot[t][j].ent # e
    <3>1. v.pgd[w.slot[t][j].ent] = w.pgd[w.slot[t][j].ent]
      BY <1>7, <1>8, <2>1, <2>3
    <3>q. QED
      BY <1>2, <2>1, <3>1 DEF OwnEntry
  <2>q. QED
    BY <2>2, <2>3
<1>12. v \in Sound
  BY <1>5, <1>9, <1>10, <1>11 DEF Sound
<1>q. QED
  BY <1>12 DEF v, n

LEMMA AllocatedSound ==
    ASSUME NEW w \in Sound, NEW s \in States, NEW i \in Slots, NEW kind,
           NEW e \in Entities, w.slot[s][i].ent = e
    PROVE  Allocated(w, s, i, kind, e) \subseteq Sound
<1> DEFINE p == GrownPool(w.pool)
           v == [w EXCEPT !.pool = p]
           n == [v EXCEPT !.pgd[e] = <<v.pool.mgr, FixedSlot(Owner(s), i)>>]
<1>0. w \in Worlds
  BY SoundWorld
<1>1. p \in Pools
  BY <1>0, GrownPoolTyped DEF Worlds
<1>2. Allocated(w, s, i, kind, e) \subseteq
        IF kind # "chara" \/ Owner(s) \notin FixedOwners THEN {w} ELSE {n, v} \cup Raised(w)
  BY DEF Allocated
<1> HIDE DEF p
<1>3. v \in Worlds
  BY <1>0, <1>1 DEF Worlds
<1>4. v.ctx = w.ctx /\ v.slot = w.slot /\ v.life = w.life /\ v.pgd = w.pgd
  BY <1>0 DEF Worlds
<1>5. v \in Sound
  BY <1>3, <1>4, SameSound
<1>6. v.slot[s][i].ent = e /\ v.pool.mgr \in Nat
  BY <1>3, <1>4 DEF Worlds, Pools
<1> HIDE DEF v
<1>7. Owner(s) \in FixedOwners => n \in Sound
  BY <1>5, <1>6, EntrySound
<1>8. Raised(w) \subseteq Sound
  BY <1>0, RaisedKept, KeptSound
<1>q. QED
  BY <1>2, <1>5, <1>7, <1>8

LEMMA CreateSound ==
    ASSUME NEW w \in Sound, NEW s \in States, NEW i \in Slots, NEW kind,
           w.slot[s][i].ent = 0, \E e \in Entities : w.life[e] = Unmade
    PROVE  Create(w, s, i, kind) \subseteq Sound
<1> DEFINE a == [w EXCEPT !.room = GrownRoom(@)]
           grown == At(a, s)
           v == OwnerScoped(grown, s)
           c == OwnerFound(v, s)
           u0 == Seen(v, c)
           u1 == StopRecall(u0, c, i)
           u == StopZero(u1, c, i, v.slot[s][i])
           cleared == [u EXCEPT !.ctx[c] = [@ EXCEPT !.custom[i] = 0, !.ward[i] = "none"]]
           e == NextEntity(w)
           cu == IF kind = "vanilla" THEN 0 ELSE e
           wd == IF kind = "chara" THEN "due" ELSE "none"
           k == cleared.ctx[c]
           n == [k EXCEPT !.custom[i] = cu, !.ward[i] = wd]
           x == [EmptySlot EXCEPT !.ent = e]
           made == [cleared EXCEPT !.ctx[c] = n, !.life[e] = MaxHp, !.slot[s][i] = x]
<1>0. w \in Worlds
  BY SoundWorld
<1>1. e \in Entities /\ w.life[e] = Unmade
  <2> DEFINE S == {f \in Entities : w.life[f] = Unmade}
  <2>1. S \in SUBSET Nat /\ S # {}
    BY DEF Entities
  <2>2. Min(S) \in S
    <3> HIDE DEF S
    <3>q. QED
      BY <2>1, MinFacts
  <2>q. QED
    BY <2>2 DEF NextEntity
<1>2. Create(w, s, i, kind) \subseteq {cleared} \cup Allocated(made, s, i, kind, e)
  BY DEF Create
<1>3. cu \in {0, e} /\ wd \in Wards
  BY DEF Wards
<1> HIDE DEF e, cu, wd
<1>4. a \in Sound /\ a.slot = w.slot /\ a.life = w.life
  <2> DEFINE r == GrownRoom(w.room)
  <2>1. r \in Nat
    BY <1>0 DEF Worlds, GrownRoom, ExpandedRoom
  <2>2. a = [w EXCEPT !.room = r]
    OBVIOUS
  <2> HIDE DEF r, a
  <2>3. a \in Worlds
    BY <1>0, <2>1, <2>2 DEF Worlds
  <2>4. a.ctx = w.ctx /\ a.slot = w.slot /\ a.life = w.life /\ a.pgd = w.pgd
    BY <1>0, <2>2 DEF Worlds
  <2>q. QED
    BY <2>3, <2>4, SameSound
<1> HIDE DEF a
<1>5. grown \in Kept(a) /\ grown \in Sound /\ grown.slot = a.slot /\ grown.life = a.life
  BY <1>4, AtSound, KeptSound, SoundWorld DEF At, Worlds
<1> HIDE DEF grown
<1>6. /\ v \in Sound /\ c \in Contexts /\ v.slot = w.slot /\ v.life = w.life
  <2>1. /\ v \in Sound /\ c \in Contexts
        /\ \A m \in {"slot", "life", "out", "pgd", "room", "pool"} : v[m] = grown[m]
    BY <1>5, OwnerScopedSound
  <2> HIDE DEF v, c
  <2>2. v["slot"] = grown["slot"] /\ v["life"] = grown["life"]
    BY <2>1
  <2>q. QED
    BY <1>4, <1>5, <2>1, <2>2
<1> HIDE DEF v, c
<1>7. v \in Worlds /\ v.slot[s][i] \in SlotSet
  BY <1>6, SoundWorld DEF Worlds
<1>8. u0 \in Kept(v)
  BY <1>6, <1>7, OwnWrite DEF Seen
<1> HIDE DEF u0
<1>9. u1 \in Kept(v)
  <2>1. u1 \in Kept(u0)
    BY <1>6, <1>8, KeptWorld, StopsKept
  <2>q. QED
    BY <1>7, <1>8, <2>1, KeptStep
<1> HIDE DEF u1
<1>10. u \in Kept(v)
  <2>1. u \in Kept(u1)
    BY <1>6, <1>7, <1>9, KeptWorld, StopZeroKept
  <2>q. QED
    BY <1>7, <1>9, <2>1, KeptStep
<1>11. u \in Sound /\ u.slot[s][i].ent = 0 /\ u.life[e] = Unmade
  <2> HIDE DEF u
  <2>1. u.slot[s][i].ent = v.slot[s][i].ent /\ (u.life[e] = Unmade <=> v.life[e] = Unmade)
    BY <1>1, <1>10 DEF Kept
  <2>q. QED
    BY <1>1, <1>6, <1>10, <2>1, KeptSound
<1> HIDE DEF u
<1>12. cleared \in Sound /\ cleared.slot = u.slot /\ cleared.life = u.life
  BY <1>6, <1>11, ClearedSound
<1> HIDE DEF cleared
<1>13. made \in Sound /\ made.slot[s][i].ent = e
  <2>1. cleared.life[e] = Unmade /\ cleared.slot[s][i].ent = 0
    BY <1>11, <1>12
  <2>2. k \in Records /\ e # 0 /\ e \in 0..MaxEntity /\ 0 \in 0..MaxEntity
    BY <1>1, <1>6, <1>12, SoundWorld, BoundsAssumption DEF Worlds, Entities
  <2>3. /\ n \in Records /\ n.state = k.state /\ n.custom[i] \in {0, e}
        /\ \A j \in Slots \ {i} : n.custom[j] = k.custom[j]
    BY <1>3, <2>2 DEF Records
  <2>4. x \in SlotSet /\ x.ent = e
    BY <2>2 DEF EmptySlot, SlotSet, Stages
  <2>5. made = Born(cleared, s, i, c, e, n, x)
    BY DEF Born
  <2> HIDE DEF n, x, made
  <2>q. QED
    BY <1>1, <1>6, <1>12, <2>1, <2>3, <2>4, <2>5, MadeSound
<1> HIDE DEF made
<1>14. Allocated(made, s, i, kind, e) \subseteq Sound
  BY <1>1, <1>13, AllocatedSound
<1>q. QED
  BY <1>2, <1>12, <1>14

-----------------------------------------------------------------------------
(* The steps of the specification. *)

\* The members of the state, in one record, are a world.
LEMMA BecomesWorld == ASSUME NEW w \in Worlds, Becomes(w) PROVE World' = w
BY DEF Becomes, World, Worlds

LEMMA InitSound == ASSUME Init PROVE World \in Sound
<1>1. NoContext \in Records /\ NoContext.state = None
      /\ \A i \in Slots : NoContext.custom[i] = 0
  <2>1. 0 \in 0..MaxEntity
    BY BoundsAssumption
  <2>2. NoZero \in Zeros /\ NoRecall \in Recalls /\ NoStuck \in Stucks /\ NoRepair \in Repairs
    BY <2>1 DEF NoZero, NoRecall, NoStuck, NoRepair, Zeros, Recalls, Stucks, Repairs, Stages
  <2>3. NoJob \in Jobs
    BY <2>1 DEF NoJob, Jobs, BuddySlots
  <2>4. "none" \in Wards
    BY DEF Wards
  <2>q. QED
    BY <2>1, <2>2, <2>3, <2>4 DEF NoContext, Records
<1>2. EmptySlot \in SlotSet /\ EmptySlot.ent = 0
  BY BoundsAssumption DEF EmptySlot, SlotSet, Stages
<1>3. Unmade \in -2..MaxHp /\ EntityRoom \in Nat /\ NativePgd \in Nat \X Nat
  BY BoundsAssumption DEF Unmade, EntityRoom, NativePgd
<1>4. [mgr |-> 1, table |-> "first", recs |-> {}] \in Pools
  BY DEF Pools
<1>5. slot \in [States -> [Slots -> SlotSet]] /\ life \in [Entities -> -2..MaxHp]
      /\ out \in SUBSET Entities /\ ctx \in [Contexts -> Records] /\ last \in States \cup {None}
  BY <1>1, <1>2, <1>3 DEF Init
<1>6. home \in [States -> Homes] /\ lost \in SUBSET States /\ gate \in [States -> Gates]
  BY DEF Init, Gates
<1>7. cmds \in [Places -> Commands \cup {NoCommand}] /\ room \in Nat /\ pool \in Pools
      /\ pgd \in [Entities -> Nat \X Nat] /\ trouble \in Nat
  BY <1>3, <1>4 DEF Init
<1>8. World \in Worlds
  BY <1>5, <1>6, <1>7 DEF World, Worlds
<1>9. /\ World.slot = slot /\ World.life = life /\ World.ctx = ctx /\ World.pgd = pgd
  BY DEF World
<1> HIDE DEF World
<1>10. /\ \A s \in States, i \in Slots : World.slot[s][i].ent = 0
       /\ \A c \in Contexts : World.ctx[c] = NoContext
       /\ \A e \in Entities : World.pgd[e] = NativePgd
  BY <1>2, <1>9 DEF Init
<1>11. Made(World) /\ Once(World) /\ OwnEntry(World) /\ InPlace(World)
  BY <1>1, <1>10 DEF Made, Once, OwnEntry, InPlace
<1>q. QED
  BY <1>8, <1>11 DEF Sound

LEMMA HitSound ==
    ASSUME World \in Sound, NEW e \in Entities, Hit(e)
    PROVE  World' \in Sound
<1>0. World \in Worlds /\ World.life = life
  BY SoundWorld DEF World
<1>1. PICK hp \in 0..(life[e] - 1) : Becomes([World EXCEPT !.life[e] = hp])
  BY DEF Hit
<1>2. life[e] \in -2..MaxHp /\ life[e] > 0
  BY <1>0 DEF Worlds, Hit
<1>3. hp \in -2..MaxHp /\ hp # Unmade /\ life[e] # Unmade
  BY <1>2, BoundsAssumption DEF Unmade
<1>4. [World EXCEPT !.life[e] = hp] \in Kept(World)
  BY <1>0, <1>3, LifeWrite
<1>5. World' = [World EXCEPT !.life[e] = hp]
  BY <1>1, <1>4, KeptWorld, BecomesWorld
<1>q. QED
  BY <1>4, <1>5, KeptSound

\* A world with one slot emptied, its buddy gone.
Emptied(w, s, i, e) ==
    [w EXCEPT !.trouble = @ + 1, !.slot[s][i] = EmptySlot, !.life[e] = Gone, !.out = @ \ {e}]

LEMMA EmptiedSound ==
    ASSUME NEW w \in Sound, NEW s \in States, NEW i \in Slots, NEW e \in Entities,
           w.slot[s][i].ent = e
    PROVE  Emptied(w, s, i, e) \in Sound
<1> DEFINE n == w.trouble + 1
           o == w.out \ {e}
           v == [w EXCEPT !.trouble = n, !.slot[s][i] = EmptySlot, !.life[e] = Gone, !.out = o]
<1>0. w \in Worlds
  BY SoundWorld
<1>1. Emptied(w, s, i, e) = v
  BY DEF Emptied
<1>2. EmptySlot \in SlotSet /\ EmptySlot.ent = 0
  BY BoundsAssumption DEF EmptySlot, SlotSet, Stages
<1>3. n \in Nat /\ o \in SUBSET Entities
  BY <1>0 DEF Worlds
<1>4. Gone \in -2..MaxHp /\ Gone # Unmade
  BY BoundsAssumption DEF Gone, Unmade
<1> HIDE DEF n, o
<1>5. v \in Worlds
  BY <1>0, <1>2, <1>3, <1>4 DEF Worlds
<1>6. \A t \in States, j \in Slots :
         v.slot[t][j].ent # 0 => v.slot[t][j].ent = w.slot[t][j].ent
  BY <1>0, <1>2 DEF Worlds
<1>7. v.ctx = w.ctx /\ v.pgd = w.pgd
  BY <1>0 DEF Worlds
<1>8. \A f \in Entities : v.life[f] = IF f = e THEN Gone ELSE w.life[f]
  BY <1>0 DEF Worlds
<1> HIDE DEF v
<1>9. \A f \in Entities : v.life[f] = Unmade => w.life[f] = Unmade
  BY <1>4, <1>8
<1>10. Made(w) /\ Once(w) /\ OwnEntry(w) /\ InPlace(w)
  BY DEF Sound
<1>11. Made(v)
  <2>1. \A c \in Contexts, j \in Slots :
           v.ctx[c].custom[j] # 0 => v.life[v.ctx[c].custom[j]] # Unmade
    BY <1>0, <1>7, <1>9, <1>10, StoredEntity DEF Made
  <2>2. \A t \in States, j \in Slots :
           v.slot[t][j].ent # 0 => v.life[v.slot[t][j].ent] # Unmade
    BY <1>0, <1>6, <1>9, <1>10, StoredEntity DEF Made
  <2>q. QED
    BY <1>7, <1>9, <1>10, <2>1, <2>2 DEF Made
<1>12. Once(v) /\ OwnEntry(v) /\ InPlace(v)
  BY <1>6, <1>7, <1>10 DEF Once, OwnEntry, InPlace
<1>13. v \in Sound
  BY <1>5, <1>11, <1>12 DEF Sound
<1>q. QED
  BY <1>1, <1>13

LEMMA DespawnSound ==
    ASSUME World \in Sound, NEW s \in States, NEW i \in Slots, Despawn(s, i)
    PROVE  World' \in Sound
<1> DEFINE e == slot[s][i].ent
           v == Emptied(World, s, i, e)
<1>0. World \in Worlds /\ World.slot = slot
  BY SoundWorld DEF World
<1>1. e \in Entities /\ World.slot[s][i].ent = e
  BY <1>0, StoredEntity DEF Despawn
<1>2. Becomes(v)
  BY DEF Despawn, Emptied
<1> HIDE DEF e
<1>3. v \in Sound
  BY <1>1, EmptiedSound
<1> HIDE DEF v
<1>4. World' = v
  BY <1>2, <1>3, SoundWorld, BecomesWorld
<1>q. QED
  BY <1>3, <1>4

LEMMA OwnerMovesSound ==
    ASSUME World \in Sound, NEW s \in States, OwnerMoves(s)
    PROVE  World' \in Sound
<1> DEFINE n == World.trouble + 1
           l == IF s \in World.lost THEN World.lost \ {s} ELSE World.lost \cup {s}
           v == [World EXCEPT !.trouble = n, !.lost = l, !.gate[s] = "closed"]
<1>0. World \in Worlds
  BY SoundWorld
<1>1. Becomes(v)
  BY DEF OwnerMoves
<1>2. n \in Nat /\ l \in SUBSET States /\ "closed" \in Gates
  BY <1>0 DEF Worlds, Gates
<1> HIDE DEF n, l
<1>3. v \in Worlds
  BY <1>0, <1>2 DEF Worlds
<1>4. v.ctx = World.ctx /\ v.slot = World.slot /\ v.life = World.life /\ v.pgd = World.pgd
  BY <1>0 DEF Worlds
<1> HIDE DEF v
<1>5. v \in Sound
  BY <1>3, <1>4, SameSound
<1>6. World' = v
  BY <1>1, <1>3, BecomesWorld
<1>q. QED
  BY <1>5, <1>6

LEMMA RecallArrivesSound ==
    ASSUME World \in Sound, NEW s \in States, NEW i \in Slots, NEW e \in Entities,
           RecallArrives(s, i, e)
    PROVE  World' \in Sound
<1> DEFINE cmd == [state |-> s, slot |-> i, ent |-> e]
           w == [World EXCEPT !.trouble = World.trouble + 1]
           Free(v) == {p \in Places : v.cmds[p] = NoCommand}
<1>0. World \in Worlds /\ w \in Kept(World)
  <2>1. World \in Worlds
    BY SoundWorld
  <2>2. World.trouble + 1 \in Nat
    BY <2>1 DEF Worlds
  <2>q. QED
    BY <2>1, <2>2, FieldWrite
<1>1. PICK v \in Expired(w) :
         \/ Becomes(v)
         \/ \E p \in IF Free(v) = {} THEN Places ELSE {Min(Free(v))} :
               Becomes([v EXCEPT !.cmds[p] = cmd])
  BY DEF RecallArrives
<1> HIDE DEF w
<1>2. v \in Kept(World)
  <2>1. v \in Kept(w)
    BY <1>0, KeptWorld, ExpiredKept
  <2>q. QED
    BY <1>0, <2>1, KeptStep
<1>3. CASE Becomes(v)
  <2>1. World' = v
    BY <1>2, <1>3, KeptWorld, BecomesWorld
  <2>q. QED
    BY <1>2, <2>1, KeptSound
<1>4. ASSUME NEW p \in IF Free(v) = {} THEN Places ELSE {Min(Free(v))},
             Becomes([v EXCEPT !.cmds[p] = cmd])
      PROVE  World' \in Sound
  <2>1. p \in Places
    <3>1. Free(v) \in SUBSET Nat /\ Free(v) \subseteq Places
      BY BoundsAssumption DEF Places
    <3> HIDE DEF Free
    <3>q. QED
      BY <1>4, <3>1, MinFacts
  <2>2. cmd \in Commands
    BY DEF Commands
  <2> DEFINE q == [v.cmds EXCEPT ![p] = cmd]
             u == [v EXCEPT !.cmds = q]
  <2>3. v \in Worlds
    BY <1>2, KeptWorld
  <2> HIDE DEF cmd
  <2>4. q \in [Places -> Commands \cup {NoCommand}]
    BY <2>1, <2>2, <2>3 DEF Worlds
  <2>5. Becomes(u)
    BY <1>4 DEF cmd
  <2> HIDE DEF q
  <2>6. u \in Kept(v)
    BY <2>3, <2>4, FieldWrite
  <2>7. u \in Kept(World)
    BY <1>0, <1>2, <2>6, KeptStep
  <2> HIDE DEF u
  <2>8. World' = u
    BY <2>5, <2>7, KeptWorld, BecomesWorld
  <2>q. QED
    BY <2>7, <2>8, KeptSound
<1>q. QED
  BY <1>1, <1>3, <1>4

LEMMA PoolRenewsSound ==
    ASSUME World \in Sound, NEW mgr, NEW table \in {"first", "other"}, PoolRenews(mgr, table)
    PROVE  World' \in Sound
<1> DEFINE n == World.trouble + 1
           p == [World.pool EXCEPT !.mgr = mgr, !.table = table]
           v == [World EXCEPT !.trouble = n, !.pool = p]
<1>0. World \in Worlds /\ World.pool = pool
  BY SoundWorld DEF World
<1>1. Becomes(v)
  <2>1. Becomes([World EXCEPT !.trouble = n, !.pool.mgr = mgr, !.pool.table = table])
    BY DEF PoolRenews
  <2>2. v = [World EXCEPT !.trouble = n, !.pool.mgr = mgr, !.pool.table = table]
    OBVIOUS
  <2>q. QED
    BY <2>1, <2>2
<1>2. n \in Nat
  BY <1>0 DEF Worlds
<1>3. p \in Pools
  <2>1. pool \in Pools
    BY <1>0 DEF Worlds
  <2>2. mgr \in Nat
    BY <2>1 DEF PoolRenews, Pools
  <2>q. QED
    BY <1>0, <2>1, <2>2 DEF Pools
<1> HIDE DEF n, p
<1>4. v \in Worlds
  BY <1>0, <1>2, <1>3 DEF Worlds
<1>5. v.ctx = World.ctx /\ v.slot = World.slot /\ v.life = World.life /\ v.pgd = World.pgd
  BY <1>0 DEF Worlds
<1> HIDE DEF v
<1>6. v \in Sound
  BY <1>4, <1>5, SameSound
<1>7. World' = v
  BY <1>1, <1>4, BecomesWorld
<1>q. QED
  BY <1>6, <1>7

\* A hook leads to one of the worlds its transformation allows.
LEMMA HookSound ==
    ASSUME NEW ws \in SUBSET Sound, \E w \in ws : Becomes(w)
    PROVE  World' \in Sound
<1>1. PICK w \in ws : Becomes(w)
  OBVIOUS
<1>2. World' = w
  BY <1>1, SoundWorld, BecomesWorld
<1>q. QED
  BY <1>2

LEMMA NextSound == ASSUME World \in Sound, [Next]_vars PROVE World' \in Sound
<1>0. World \in Worlds
  BY SoundWorld
<1>1. ASSUME NEW s \in States, Update(s) PROVE World' \in Sound
  <2>1. ModuleUpdate(World, s) \subseteq Sound
    BY <1>0, ModuleUpdateKept, KeptSound
  <2>q. QED
    BY <1>1, <2>1, HookSound DEF Update
<1>2. ASSUME NEW s \in States, NEW i \in Slots, NEW kind, CreateBuddy(s, i, kind)
      PROVE  World' \in Sound
  <2>1. /\ World.slot[s][i].ent = 0 /\ \E e \in Entities : World.life[e] = Unmade
        /\ \E w \in Create(World, s, i, kind) : Becomes(w)
    BY <1>2 DEF CreateBuddy, World
  <2>2. Create(World, s, i, kind) \subseteq Sound
    BY <2>1, CreateSound
  <2>q. QED
    BY <2>1, <2>2, HookSound
<1>3. ASSUME NEW s \in States, NEW i \in Slots, TryUseBuddy(s, i) PROVE World' \in Sound
  <2>1. TryUse(World, s, i) \subseteq Sound
    BY <1>3, TryUseSound DEF TryUseBuddy, Known
  <2>q. QED
    BY <1>3, <2>1, HookSound DEF TryUseBuddy
<1>4. ASSUME NEW s \in States, NEW i \in Slots, ChangeBuddyState(s, i) PROVE World' \in Sound
  <2>1. ChangeHook(World, s, i) \subseteq Sound
    BY <1>4, ChangeSound DEF ChangeBuddyState, Known
  <2>q. QED
    BY <1>4, <2>1, HookSound DEF ChangeBuddyState
<1>5. ASSUME NEW s \in States, NEW i \in Slots, RequestUnsummon(s, i) PROVE World' \in Sound
  <2>1. RequestHook(World, s, i) \subseteq Sound
    BY <1>5, RequestSound DEF RequestUnsummon, Known
  <2>q. QED
    BY <1>5, <2>1, HookSound DEF RequestUnsummon
<1>6. CASE UNCHANGED vars
  <2>1. World' = World
    BY <1>6 DEF vars, World
  <2>q. QED
    BY <2>1
<1>q. QED
  BY <1>1, <1>2, <1>3, <1>4, <1>5, <1>6, DespawnSound, OwnerMovesSound, RecallArrivesSound,
     PoolRenewsSound, HitSound DEF Next

IInv == World \in Sound

\* In every reachable state the members make up a sound world: what is stored and
\* recorded has been made, each buddy is in one slot and recorded in one place, and
\* has its own player data (all hooks of buddy_fix.cpp).
THEOREM WorldSound == Spec => []IInv
<1>1. Init => IInv
  BY InitSound DEF IInv
<1>2. IInv /\ [Next]_vars => IInv'
  BY NextSound DEF IInv
<1>q. QED
  BY <1>1, <1>2, PTL DEF Spec

-----------------------------------------------------------------------------
(* What the runs check. *)

\* The members of the state are in the ranges the code's structures give them.
THEOREM Typed == Spec => []TypeOK
<1>1. IInv => TypeOK
  <2>1. SUFFICES ASSUME World \in Worlds PROVE TypeOK
    BY SoundWorld DEF IInv
  <2>2. /\ slot \in [States -> [Slots -> SlotSet]] /\ life \in [Entities -> -2..MaxHp]
        /\ out \in SUBSET Entities /\ ctx \in [Contexts -> Records]
        /\ last \in States \cup {None} /\ cmds \in [Places -> Commands \cup {NoCommand}]
    BY <2>1 DEF World, Worlds
  <2>3. \A c \in Contexts : ctx[c].state \in States \cup {None}
    BY <2>2 DEF Records
  <2>q. QED
    BY <2>2, <2>3 DEF TypeOK, SlotSet
<1>q. QED
  BY <1>1, WorldSound, PTL

\* Where a state's first hook is a creation, the hooks of the game find the record
\* of the state's owner (GetBuddyStateRuntime and GetBuddyStateRuntimeForOwner).
THEOREM RecordsAreFound == CreateFirst => (Spec => []RecordsFound)
<1>1. ASSUME IInv, CreateFirst PROVE RecordsFound
  <2>1. SUFFICES ASSUME NEW s \in States, NEW i \in Slots, Holding(World, s) # {},
                        IsCustom(World, OwnerFound(World, s), i, slot[s][i])
                 PROVE  IsCustom(World, Found(World, s), i, slot[s][i])
    BY DEF RecordsFound
  <2>2. World \in Worlds /\ InPlace(World)
    BY <1>1 DEF IInv, Sound
  <2>3. Found(World, s) \in Contexts /\ World.ctx[Found(World, s)].state = s
    BY <2>1, <2>2, FoundFacts
  <2>4. s # None
    BY StatesAssumption DEF None
  <2>5. Found(World, s) = Place(s)
    BY <1>1, <2>2, <2>3, <2>4 DEF InPlace
  <2>6. OwnerFound(World, s) = Found(World, s)
    BY <2>5 DEF OwnerFound, Place
  <2>q. QED
    BY <2>1, <2>6
<1>2. CASE CreateFirst
  <2>1. IInv => RecordsFound
    BY <1>1, <1>2
  <2>2. Spec => []RecordsFound
    BY <2>1, WorldSound, PTL
  <2>q. QED
    BY <2>2
<1>q. QED
  BY <1>2

\* A replaced character is driven by the machine that runs its owner; while that owner
\* is not found, the game decides (HookPlayerInsControllerEligibility).
THEOREM ControllersFit == Spec => []ControllerFits
<1>1. ASSUME IInv PROVE ControllerFits
  <2> DEFINE c(s) == OwnerFound(World, s)
  <2>1. SUFFICES ASSUME NEW s \in States, NEW i \in Slots, Holding(World, s) # {},
                        ctx[c(s)].state = s, ctx[c(s)].ward[i] # "none",
                        IsCustom(World, c(s), i, slot[s][i])
                 PROVE  Controller(World, slot[s][i].ent) =
                           IF s \in lost THEN "native" ELSE home[s]
    BY DEF ControllerFits
  <2> DEFINE e == slot[s][i].ent
             d == c(s)
  <2>2. World \in Worlds /\ Once(World)
    BY <1>1 DEF IInv, Sound
  <2>3. World.ctx = ctx /\ World.home = home /\ World.lost = lost
    BY DEF World
  <2>4. d \in Contexts
    <3>1. CASE TrackedOwner(Owner(s))
      BY <3>1, StatesAssumption DEF OwnerFound, TrackedOwner, Owner, Contexts
    <3>2. CASE ~TrackedOwner(Owner(s))
      BY <2>1, <2>2, <3>2, FoundFacts DEF OwnerFound
    <3>q. QED
      BY <3>1, <3>2
  <2>5. e # 0 /\ ctx[d].custom[i] = e /\ ctx[d].ward[i] # "none" /\ ctx[d].state = s
    BY <2>1, <2>3 DEF IsCustom
  <2> HIDE DEF e, d, c
  <2>6. Tracked(World, e) = {d}
    <3>1. d \in Tracked(World, e)
      BY <2>3, <2>4, <2>5 DEF Tracked
    <3>2. ASSUME NEW b \in Tracked(World, e) PROVE b = d
      BY <2>2, <2>3, <2>4, <2>5 DEF Tracked, Once
    <3>q. QED
      BY <3>1, <3>2
  <2>7. Min({d}) = d
    <3>1. {d} \in SUBSET Nat /\ {d} # {}
      BY <2>4 DEF Contexts
    <3>q. QED
      BY <3>1, MinFacts
  <2>8. Controller(World, e) = ByAuthority(World, s)
    BY <2>3, <2>5, <2>6, <2>7 DEF Controller
  <2>9. home[s] \in {"local", "remote"}
    BY <2>2, <2>3, ChoicesAssumption DEF Worlds
  <2>10. ByAuthority(World, s) = IF s \in lost THEN "native" ELSE home[s]
    BY <2>3, <2>9 DEF ByAuthority, Side
  <2>q. QED
    BY <2>8, <2>10 DEF e
<1>q. QED
  BY <1>1, WorldSound, PTL

\* No two states have the same owner: the game keeps one per Revenant.
OneStateEach == \A s \in States, t \in States : Owner(s) = Owner(t) => s = t

\* The fixed entries of the player data pool are never shared, with one state for
\* each owner (FixedPlayerGameDataSlotForActiveCreate, HookPlayerGameDataAlloc).
THEOREM EntriesOwned == OneStateEach => (Spec => []PgdOwned)
<1>1. ASSUME IInv, OneStateEach PROVE PgdOwned
  <2>1. SUFFICES ASSUME NEW s \in States, NEW i \in Slots, NEW t \in States, NEW j \in Slots,
                        slot[s][i].ent # 0, slot[t][j].ent # 0,
                        slot[s][i].ent # slot[t][j].ent,
                        pgd[slot[s][i].ent] = pgd[slot[t][j].ent],
                        pgd[slot[s][i].ent] # NativePgd
                 PROVE  FALSE
    BY DEF PgdOwned
  <2>2. OwnEntry(World)
    BY <1>1 DEF IInv, Sound
  <2>3. World.slot = slot /\ World.pgd = pgd
    BY DEF World
  <2>4. /\ Owner(s) \in FixedOwners /\ Owner(t) \in FixedOwners
        /\ FixedSlot(Owner(s), i) = FixedSlot(Owner(t), j)
    BY <2>1, <2>2, <2>3 DEF OwnEntry
  <2>5. i \in BuddySlots /\ j \in BuddySlots
    BY SlotsAssumption
  <2>6. Owner(s) = Owner(t) /\ i = j
    BY <2>4, <2>5, FixedSlotsDistinct
  <2>7. s = t
    BY <1>1, <2>6 DEF OneStateEach
  <2>q. QED
    BY <2>1, <2>6, <2>7
<1>2. CASE OneStateEach
  <2>1. IInv => PgdOwned
    BY <1>1, <1>2
  <2>2. Spec => []PgdOwned
    BY <2>1, WorldSound, PTL
  <2>q. QED
    BY <2>2
<1>q. QED
  BY <1>2

-----------------------------------------------------------------------------
(* What an update may do to a slot at rest, for RecallHides and CleanupLeavesOne. *)

\* A world between the steps of an update of s.
Live(s) == {w \in Sound : w.last = s}

\* A slot at rest is leaving or back in its place; the buddy of one that is down does not
\* stand in the world, and that of a hidden one not once it is back.
Quiet(w, s, i) ==
    i \in Slots /\ w.slot[s][i].st \in {"active", "removing"} /\ ~w.slot[s][i].pend
Down(w, s, i) == Quiet(w, s, i) /\ w.slot[s][i].ent \notin w.out
Hidden(w, s, i) ==
    /\ Quiet(w, s, i)
    /\ w.slot[s][i].st = "active" => w.slot[s][i].ent \notin w.out

\* A step of the update of s touches no other state and no cleanup job.  Unless a native
\* call has raised, nobody loses health.
Within(w, s) == {v \in Kept(w) :
    /\ v.last = w.last
    /\ \A t \in States : t # s => v.slot[t] = w.slot[t]
    /\ \A c \in Contexts : v.ctx[c].job = w.ctx[c].job
    /\ w.trouble <= v.trouble
    /\ v.trouble = w.trouble => \A e \in Entities : w.life[e] <= v.life[e]}

\* Unless a native call has raised, slot i stays at rest.
Steady(w, s, i) == {v \in Within(w, s) :
    v.trouble = w.trouble => (Quiet(w, s, i) => Quiet(v, s, i))}

\* After the game's own update, it also stays down and hidden.
Calm(w, s, i) == {v \in Steady(w, s, i) :
    v.trouble = w.trouble => /\ Down(w, s, i) => Down(v, s, i)
                             /\ Hidden(w, s, i) => Hidden(v, s, i)}

LEMMA LiveWorld == ASSUME NEW s, NEW w \in Live(s) PROVE w \in Sound /\ w \in Worlds /\ w.last = s
BY SoundWorld DEF Live

LEMMA CalmKept ==
    ASSUME NEW s, NEW i, NEW w, NEW v \in Calm(w, s, i)
    PROVE  v \in Kept(w) /\ v \in Within(w, s)
BY DEF Calm, Steady, Within

LEMMA CalmLive ==
    ASSUME NEW s, NEW i, NEW w \in Live(s), NEW v \in Calm(w, s, i)
    PROVE  v \in Live(s) /\ v \in Worlds
<1>1. v \in Kept(w) /\ v.last = w.last
  BY DEF Calm, Steady, Within
<1>2. v \in Sound
  BY <1>1, LiveWorld, KeptSound
<1>q. QED
  BY <1>1, <1>2, SoundWorld DEF Live

LEMMA CalmSelf == ASSUME NEW s, NEW i, NEW w \in Live(s) PROVE w \in Calm(w, s, i)
<1>1. w \in Worlds
  BY LiveWorld
<1>2. w.trouble \in Nat /\ \A e \in Entities : w.life[e] \in Int
  BY <1>1 DEF Worlds
<1>q. QED
  BY <1>1, <1>2, KeptSelf DEF Calm, Steady, Within

LEMMA WithinStep ==
    ASSUME NEW s, NEW w \in Live(s), NEW v \in Within(w, s), NEW u \in Within(v, s)
    PROVE  /\ u \in Within(w, s) /\ v \in Live(s)
           /\ u.trouble = w.trouble => v.trouble = w.trouble /\ u.trouble = v.trouble
<1>1. w \in Sound /\ w \in Worlds
  BY LiveWorld
<1>2. v \in Worlds /\ u \in Worlds /\ v \in Sound
  BY <1>1, KeptWorld, KeptSound DEF Within
<1>3. u \in Kept(w)
  BY <1>1, KeptStep DEF Within
<1>4. w.trouble \in Nat /\ v.trouble \in Nat /\ u.trouble \in Nat
  BY <1>1, <1>2 DEF Worlds
<1>5. \A e \in Entities : w.life[e] \in Int /\ v.life[e] \in Int /\ u.life[e] \in Int
  BY <1>1, <1>2 DEF Worlds
<1>6. w.trouble <= v.trouble /\ v.trouble <= u.trouble
  BY DEF Within
<1>7. u.trouble = w.trouble => v.trouble = w.trouble /\ u.trouble = v.trouble
  BY <1>4, <1>6
<1>8. u.trouble = w.trouble => \A e \in Entities : w.life[e] <= u.life[e]
  <2>1. u.trouble = w.trouble =>
           \A e \in Entities : w.life[e] <= v.life[e] /\ v.life[e] <= u.life[e]
    BY <1>7 DEF Within
  <2>q. QED
    BY <1>5, <2>1
<1>9. w.trouble <= u.trouble
  BY <1>4, <1>6
<1>10. v.last = s
  BY LiveWorld DEF Within
<1>q. QED
  BY <1>2, <1>3, <1>7, <1>8, <1>9, <1>10 DEF Within, Live

LEMMA SteadyStep ==
    ASSUME NEW s, NEW i, NEW w \in Live(s), NEW v \in Steady(w, s, i),
           NEW u \in Steady(v, s, i)
    PROVE  u \in Steady(w, s, i)
BY WithinStep DEF Steady

LEMMA CalmStep ==
    ASSUME NEW s, NEW i, NEW w \in Live(s), NEW v \in Calm(w, s, i), NEW u \in Calm(v, s, i)
    PROVE  u \in Calm(w, s, i)
<1>1. v \in Steady(w, s, i) /\ u \in Steady(v, s, i)
  BY DEF Calm
<1>2. u \in Steady(w, s, i)
  BY <1>1, SteadyStep
<1>3. u.trouble = w.trouble => v.trouble = w.trouble /\ u.trouble = v.trouble
  BY <1>1, WithinStep DEF Steady
<1>q. QED
  BY <1>2, <1>3 DEF Calm

\* A write that leaves the slots alone.
LEMMA CalmWrite ==
    ASSUME NEW s, NEW i, NEW w \in Live(s), NEW v \in Kept(w),
           v.slot = w.slot, v.last = w.last, v.out \subseteq w.out, w.trouble <= v.trouble,
           \A e \in Entities : w.life[e] <= v.life[e],
           \A c \in Contexts : v.ctx[c].job = w.ctx[c].job
    PROVE  v \in Calm(w, s, i)
BY DEF Calm, Steady, Within, Quiet, Down, Hidden

\* A write to a slot: another one, or one that leaves its stage.
LEMMA CalmSlotWrite ==
    ASSUME NEW s \in States, NEW i, NEW w \in Live(s), NEW j \in Slots,
           NEW x \in SlotSet, x.ent = w.slot[s][j].ent,
           j # i \/ (x.st = w.slot[s][j].st /\ x.pend = w.slot[s][j].pend)
    PROVE  [w EXCEPT !.slot[s][j] = x] \in Calm(w, s, i)
<1> DEFINE v == [w EXCEPT !.slot[s][j] = x]
<1>1. w \in Worlds /\ w.trouble \in Nat /\ \A e \in Entities : w.life[e] \in Int
  BY LiveWorld DEF Worlds
<1>2. v \in Kept(w)
  BY <1>1, SlotWrite
<1>3. /\ v.last = w.last /\ v.out = w.out /\ v.trouble = w.trouble /\ v.life = w.life
      /\ v.ctx = w.ctx
  BY <1>1 DEF Worlds
<1>4. \A t \in States : t # s => v.slot[t] = w.slot[t]
  BY <1>1 DEF Worlds
<1>5. i \in Slots =>
         /\ v.slot[s][i].ent = w.slot[s][i].ent /\ v.slot[s][i].st = w.slot[s][i].st
         /\ v.slot[s][i].pend = w.slot[s][i].pend
  BY <1>1 DEF Worlds
<1> HIDE DEF v
<1>6. /\ Quiet(w, s, i) => Quiet(v, s, i)
      /\ Down(w, s, i) => Down(v, s, i)
      /\ Hidden(w, s, i) => Hidden(v, s, i)
  BY <1>3, <1>5 DEF Quiet, Down, Hidden
<1>7. v \in Calm(w, s, i)
  BY <1>1, <1>2, <1>3, <1>4, <1>6 DEF Calm, Steady, Within
<1>q. QED
  BY <1>7 DEF v

LEMMA RateGrows ==
    ASSUME NEW m \in Int, NEW n \in Int, m <= n, Rate(m) > 0
    PROVE  Rate(n) > 0
BY BoundsAssumption DEF Rate

LEMMA RecordCalm ==
    ASSUME NEW s \in States, NEW w \in Worlds, w \in Live(s), NEW ob, NEW c \in Contexts,
           NEW k \in Records, k.state = w.ctx[c].state, k.custom = w.ctx[c].custom,
           k.job = w.ctx[c].job
    PROVE  [w EXCEPT !.ctx[c] = k] \in Calm(w, s, ob)
<1> DEFINE v == [w EXCEPT !.ctx[c] = k]
<1>1. v \in Kept(w)
  BY RecordWrite
<1>2. v.slot = w.slot /\ v.last = w.last /\ v.out = w.out /\ v.trouble = w.trouble /\ v.life = w.life
  BY DEF Worlds
<1>3. \A d \in Contexts : v.ctx[d].job = w.ctx[d].job
  BY DEF Worlds
<1>4. w.trouble \in Nat /\ \A e \in Entities : w.life[e] \in Int
  BY DEF Worlds
<1> HIDE DEF v
<1>5. v \in Calm(w, s, ob)
  BY <1>1, <1>2, <1>3, <1>4, CalmWrite
<1>q. QED
  BY <1>5 DEF v

LEMMA MemberCalm ==
    ASSUME NEW s \in States, NEW w \in Worlds, w \in Live(s), NEW ob, NEW c \in Contexts,
           NEW i \in Slots
    PROVE  /\ \A z \in Zeros : [w EXCEPT !.ctx[c].zero[i] = z] \in Calm(w, s, ob)
           /\ \A r \in Recalls : [w EXCEPT !.ctx[c].recall[i] = r] \in Calm(w, s, ob)
           /\ \A k \in Stucks : [w EXCEPT !.ctx[c].stuck[i] = k] \in Calm(w, s, ob)
           /\ \A r \in Repairs : [w EXCEPT !.ctx[c].repair[i] = r] \in Calm(w, s, ob)
           /\ \A d \in Wards : [w EXCEPT !.ctx[c].ward[i] = d] \in Calm(w, s, ob)
<1> DEFINE k == w.ctx[c]
<1>0. k \in Records
  BY DEF Worlds
<1>1. ASSUME NEW z \in Zeros PROVE [w EXCEPT !.ctx[c].zero[i] = z] \in Calm(w, s, ob)
  <2>1. [k EXCEPT !.zero[i] = z] \in Records
    BY <1>0 DEF Records
  <2>2. /\ [k EXCEPT !.zero[i] = z].state = k.state
        /\ [k EXCEPT !.zero[i] = z].custom = k.custom
        /\ [k EXCEPT !.zero[i] = z].job = k.job
    BY <1>0 DEF Records
  <2>3. [w EXCEPT !.ctx[c].zero[i] = z] = [w EXCEPT !.ctx[c] = [k EXCEPT !.zero[i] = z]]
    OBVIOUS
  <2>q. QED
    BY <2>1, <2>2, <2>3, RecordCalm
<1>2. ASSUME NEW z \in Recalls PROVE [w EXCEPT !.ctx[c].recall[i] = z] \in Calm(w, s, ob)
  <2>1. [k EXCEPT !.recall[i] = z] \in Records
    BY <1>0 DEF Records
  <2>2. /\ [k EXCEPT !.recall[i] = z].state = k.state
        /\ [k EXCEPT !.recall[i] = z].custom = k.custom
        /\ [k EXCEPT !.recall[i] = z].job = k.job
    BY <1>0 DEF Records
  <2>3. [w EXCEPT !.ctx[c].recall[i] = z] = [w EXCEPT !.ctx[c] = [k EXCEPT !.recall[i] = z]]
    OBVIOUS
  <2>q. QED
    BY <2>1, <2>2, <2>3, RecordCalm
<1>3. ASSUME NEW z \in Stucks PROVE [w EXCEPT !.ctx[c].stuck[i] = z] \in Calm(w, s, ob)
  <2>1. [k EXCEPT !.stuck[i] = z] \in Records
    BY <1>0 DEF Records
  <2>2. /\ [k EXCEPT !.stuck[i] = z].state = k.state
        /\ [k EXCEPT !.stuck[i] = z].custom = k.custom
        /\ [k EXCEPT !.stuck[i] = z].job = k.job
    BY <1>0 DEF Records
  <2>3. [w EXCEPT !.ctx[c].stuck[i] = z] = [w EXCEPT !.ctx[c] = [k EXCEPT !.stuck[i] = z]]
    OBVIOUS
  <2>q. QED
    BY <2>1, <2>2, <2>3, RecordCalm
<1>4. ASSUME NEW z \in Repairs PROVE [w EXCEPT !.ctx[c].repair[i] = z] \in Calm(w, s, ob)
  <2>1. [k EXCEPT !.repair[i] = z] \in Records
    BY <1>0 DEF Records
  <2>2. /\ [k EXCEPT !.repair[i] = z].state = k.state
        /\ [k EXCEPT !.repair[i] = z].custom = k.custom
        /\ [k EXCEPT !.repair[i] = z].job = k.job
    BY <1>0 DEF Records
  <2>3. [w EXCEPT !.ctx[c].repair[i] = z] = [w EXCEPT !.ctx[c] = [k EXCEPT !.repair[i] = z]]
    OBVIOUS
  <2>q. QED
    BY <2>1, <2>2, <2>3, RecordCalm
<1>5. ASSUME NEW z \in Wards PROVE [w EXCEPT !.ctx[c].ward[i] = z] \in Calm(w, s, ob)
  <2>1. [k EXCEPT !.ward[i] = z] \in Records
    BY <1>0 DEF Records
  <2>2. /\ [k EXCEPT !.ward[i] = z].state = k.state
        /\ [k EXCEPT !.ward[i] = z].custom = k.custom
        /\ [k EXCEPT !.ward[i] = z].job = k.job
    BY <1>0 DEF Records
  <2>3. [w EXCEPT !.ctx[c].ward[i] = z] = [w EXCEPT !.ctx[c] = [k EXCEPT !.ward[i] = z]]
    OBVIOUS
  <2>q. QED
    BY <2>1, <2>2, <2>3, RecordCalm
<1>q. QED
  BY <1>1, <1>2, <1>3, <1>4, <1>5

LEMMA FieldCalm ==
    ASSUME NEW s \in States, NEW w \in Worlds, w \in Live(s), NEW ob
    PROVE  /\ \A x \in SUBSET w.out : [w EXCEPT !.out = x] \in Calm(w, s, ob)
           /\ \A g \in Gates : [w EXCEPT !.gate[s] = g] \in Calm(w, s, ob)
           /\ \A q \in [Places -> Commands \cup {NoCommand}] :
                 [w EXCEPT !.cmds = q] \in Calm(w, s, ob)
<1>0. w.trouble \in Nat /\ \A e \in Entities : w.life[e] \in Int
  BY DEF Worlds
<1>1. ASSUME NEW x \in SUBSET w.out PROVE [w EXCEPT !.out = x] \in Calm(w, s, ob)
  <2> DEFINE v == [w EXCEPT !.out = x]
  <2>1. v \in Kept(w)
    BY FieldWrite DEF Worlds
  <2>2. /\ v.slot = w.slot /\ v.last = w.last /\ v.trouble = w.trouble /\ v.life = w.life
        /\ v.ctx = w.ctx /\ v.out = x
    BY DEF Worlds
  <2> HIDE DEF v
  <2>3. v \in Calm(w, s, ob)
    BY <1>0, <2>1, <2>2, CalmWrite
  <2>q. QED
    BY <2>3 DEF v
<1>2. ASSUME NEW g \in Gates PROVE [w EXCEPT !.gate[s] = g] \in Calm(w, s, ob)
  <2> DEFINE v == [w EXCEPT !.gate[s] = g]
  <2>1. v \in Kept(w)
    BY FieldWrite
  <2>2. /\ v.slot = w.slot /\ v.last = w.last /\ v.trouble = w.trouble /\ v.life = w.life
        /\ v.ctx = w.ctx /\ v.out = w.out
    BY DEF Worlds
  <2> HIDE DEF v
  <2>3. v \in Calm(w, s, ob)
    BY <1>0, <2>1, <2>2, CalmWrite
  <2>q. QED
    BY <2>3 DEF v
<1>3. ASSUME NEW q \in [Places -> Commands \cup {NoCommand}]
      PROVE  [w EXCEPT !.cmds = q] \in Calm(w, s, ob)
  <2> DEFINE v == [w EXCEPT !.cmds = q]
  <2>1. v \in Kept(w)
    BY FieldWrite
  <2>2. /\ v.slot = w.slot /\ v.last = w.last /\ v.trouble = w.trouble /\ v.life = w.life
        /\ v.ctx = w.ctx /\ v.out = w.out
    BY DEF Worlds
  <2> HIDE DEF v
  <2>3. v \in Calm(w, s, ob)
    BY <1>0, <2>1, <2>2, CalmWrite
  <2>q. QED
    BY <2>3 DEF v
<1>q. QED
  BY <1>1, <1>2, <1>3

LEMMA RaisedCalm ==
    ASSUME NEW s \in States, NEW w \in Worlds, w \in Live(s), NEW ob
    PROVE  /\ Raised(w) \subseteq Calm(w, s, ob)
           /\ \A v \in Raised(w) : v.trouble > w.trouble
<1> DEFINE v == [w EXCEPT !.trouble = @ + 1]
<1>0. w.trouble \in Nat /\ \A e \in Entities : w.life[e] \in Int
  BY DEF Worlds
<1>1. Raised(w) \subseteq {v}
  BY DEF Raised
<1>2. Raised(w) \subseteq Kept(w)
  BY RaisedKept
<1>3. /\ v.slot = w.slot /\ v.last = w.last /\ v.trouble = w.trouble + 1 /\ v.life = w.life
      /\ v.ctx = w.ctx /\ v.out = w.out
  BY DEF Worlds
<1> HIDE DEF v
<1>4. v \in Kept(w) => v \in Calm(w, s, ob)
  BY <1>0, <1>3, CalmWrite
<1>q. QED
  BY <1>0, <1>1, <1>2, <1>3, <1>4

LEMMA LifeCalm ==
    ASSUME NEW s \in States, NEW w \in Worlds, w \in Live(s), NEW ob,
           NEW e \in Entities, NEW n \in -2..MaxHp, n # Unmade, w.life[e] # Unmade,
           w.life[e] <= n
    PROVE  [w EXCEPT !.life[e] = n] \in Calm(w, s, ob)
<1> DEFINE v == [w EXCEPT !.life[e] = n]
<1>0. w.trouble \in Nat /\ \A f \in Entities : w.life[f] \in Int
  BY DEF Worlds
<1>1. v \in Kept(w)
  BY LifeWrite
<1>2. /\ v.slot = w.slot /\ v.last = w.last /\ v.trouble = w.trouble
      /\ v.ctx = w.ctx /\ v.out = w.out
  BY DEF Worlds
<1>3. \A f \in Entities : w.life[f] <= v.life[f]
  BY <1>0 DEF Worlds
<1> HIDE DEF v
<1>4. v \in Calm(w, s, ob)
  BY <1>0, <1>1, <1>2, <1>3, CalmWrite
<1>q. QED
  BY <1>4 DEF v

LEMMA ControlCalm ==
    ASSUME NEW s \in States, NEW w \in Worlds, w \in Live(s), NEW ob, NEW i \in Slots,
           NEW st \in Stages,
           NEW flags \in SUBSET Flags,
           i # ob
    PROVE  Control(w, s, i, st, flags) \in Calm(w, s, ob)
<1> DEFINE sl == w.slot[s][i]
           x == [sl EXCEPT !.st = st, !.pend = FALSE, !.flags = flags]
<1>1. sl \in SlotSet
  BY DEF Worlds
<1>2. x \in SlotSet /\ x.ent = sl.ent
  BY <1>1 DEF SlotSet
<1>3. [w EXCEPT !.slot[s][i] = x] \in Calm(w, s, ob)
  BY <1>2, CalmSlotWrite
<1>q. QED
  BY <1>3 DEF Control

LEMMA ShapesCalm ==
    ASSUME NEW s \in States, NEW w \in Worlds, w \in Live(s), NEW ob, NEW i \in Slots,
           i # ob
    PROVE  /\ ResetSlot(w, s, i) \in Calm(w, s, ob)
           /\ ShapeForUnsummon(w, s, i) \in Calm(w, s, ob)
           /\ ShapeForResummon(w, s, i) \in Calm(w, s, ob)
<1>1. {"unsummon", "deployed"} \in SUBSET Flags /\ {"continue"} \in SUBSET Flags
      /\ {} \in SUBSET Flags
  BY DEF Flags
<1>2. "active" \in Stages /\ "transition" \in Stages
  BY DEF Stages
<1>q. QED
  BY <1>1, <1>2, ControlCalm DEF ResetSlot, ShapeForUnsummon, ShapeForResummon

LEMMA FlagsCalm ==
    ASSUME NEW s \in States, NEW w \in Worlds, w \in Live(s), NEW ob, NEW i \in Slots,
           NEW flags \in SUBSET Flags
    PROVE  [w EXCEPT !.slot[s][i].flags = flags] \in Calm(w, s, ob)
<1> DEFINE sl == w.slot[s][i]
           x == [sl EXCEPT !.flags = flags]
<1>1. sl \in SlotSet
  BY DEF Worlds
<1>2. x \in SlotSet /\ x.ent = sl.ent /\ x.st = sl.st /\ x.pend = sl.pend
  BY <1>1 DEF SlotSet
<1>3. [w EXCEPT !.slot[s][i] = x] \in Calm(w, s, ob)
  BY <1>2, CalmSlotWrite
<1>4. [w EXCEPT !.slot[s][i].flags = flags] = [w EXCEPT !.slot[s][i] = x]
  OBVIOUS
<1>q. QED
  BY <1>3, <1>4

LEMMA SetGateCalm ==
    ASSUME NEW s \in States, NEW w \in Worlds, w \in Live(s), NEW ob, NEW i \in Slots,
           NEW snap \in SlotSet
    PROVE  /\ SetGate(w, s, i, snap, TRUE) \in Calm(w, s, ob)
           /\ SetGate(w, s, i, snap, FALSE) \in Calm(w, s, ob)
<1>1. snap.flags \cup {"gate"} \in SUBSET Flags /\ snap.flags \ {"gate"} \in SUBSET Flags
  BY DEF SlotSet, Flags
<1>q. QED
  BY <1>1, FlagsCalm DEF SetGate

LEMMA StopsCalm ==
    ASSUME NEW s \in States, NEW w \in Worlds, w \in Live(s), NEW ob, NEW c \in Contexts,
           NEW i \in Slots
    PROVE  /\ StopRecall(w, c, i) \in Calm(w, s, ob)
           /\ StopStuck(w, c, i) \in Calm(w, s, ob)
           /\ StopRepair(w, c, i) \in Calm(w, s, ob)
<1>1. 0 \in 0..MaxEntity
  BY BoundsAssumption
<1>2. NoRecall \in Recalls /\ NoStuck \in Stucks /\ NoRepair \in Repairs
  BY <1>1 DEF NoRecall, NoStuck, NoRepair, Recalls, Stucks, Repairs, Stages
<1>q. QED
  BY <1>2, MemberCalm DEF StopRecall, StopStuck, StopRepair

LEMMA StopZeroCalm ==
    ASSUME NEW s \in States, NEW w \in Worlds, w \in Live(s), NEW ob, NEW c \in Contexts,
           NEW i \in Slots, NEW snap \in SlotSet
    PROVE  StopZero(w, c, i, snap) \in Calm(w, s, ob)
<1> DEFINE v == [w EXCEPT !.ctx[c].zero[i] = NoZero]
           u == SetGate(v, w.last, i, snap, FALSE)
<1>1. NoZero \in Zeros
  BY BoundsAssumption DEF NoZero, Zeros
<1>2. w.last # None => w.last \in States
  BY DEF Worlds
<1>3. v \in Calm(w, s, ob)
  BY <1>1, MemberCalm
<1>4. v \in Worlds /\ v \in Live(s)
  BY <1>3, CalmLive
<1>5. StopZero(w, c, i, snap) =
        IF ~w.ctx[c].zero[i].active /\ ~w.ctx[c].zero[i].watch THEN w
        ELSE IF w.ctx[c].zero[i].active /\ ~w.ctx[c].zero[i].released /\ w.last # None
             THEN u ELSE v
  BY DEF StopZero
<1> HIDE DEF v
<1>6. w.last # None => u \in Calm(v, s, ob)
  BY <1>2, <1>4, LiveWorld, SetGateCalm
<1> HIDE DEF u
<1>7. w.last # None => u \in Calm(w, s, ob)
  BY <1>3, <1>6, CalmStep
<1>q. QED
  BY <1>3, <1>5, <1>7, CalmSelf

LEMMA UnsummonCalm ==
    ASSUME NEW s \in States, NEW w \in Worlds, w \in Live(s), NEW ob, NEW e
    PROVE  NativeUnsummon(w, e) \in Calm(w, s, ob)
<1>1. w.out \ {e} \in SUBSET Entities
  BY DEF Worlds
<1>q. QED
  BY <1>1, FieldCalm DEF NativeUnsummon

LEMMA ActivateCalm ==
    ASSUME NEW s \in States, NEW w \in Worlds, w \in Live(s), NEW ob
    PROVE  Activate(w, s) \subseteq Calm(w, s, ob)
<1>1. \A g \in {"closed", "vetoed", "open"} : [w EXCEPT !.gate[s] = g] \in Calm(w, s, ob)
  BY FieldCalm DEF Gates
<1>q. QED
  BY <1>1, CalmSelf DEF Activate

LEMMA WardedCalm ==
    ASSUME NEW s \in States, NEW w \in Worlds, w \in Live(s), NEW ob, NEW c \in Contexts,
           NEW slots \in SUBSET Slots, NEW as \in Wards
    PROVE  Warded(w, c, slots, as) \in Calm(w, s, ob)
<1> DEFINE Ward(v, i) == IF i \in slots /\ v.ctx[c].ward[i] # "none"
                         THEN [v EXCEPT !.ctx[c].ward[i] = as] ELSE v
<1>1. ASSUME NEW v \in Calm(w, s, ob), NEW i \in 0..2 PROVE Ward(v, i) \in Calm(w, s, ob)
  <2>1. v \in Worlds /\ v \in Live(s)
    BY CalmLive
  <2>2. CASE i \in slots /\ v.ctx[c].ward[i] # "none"
    <3>1. [v EXCEPT !.ctx[c].ward[i] = as] \in Calm(v, s, ob)
      BY <2>1, <2>2, MemberCalm
    <3>q. QED
      BY <2>2, <3>1, CalmStep
  <2>q. QED
    BY <2>2
<1>2. Warded(w, c, slots, as) = Ward(Ward(Ward(w, 0), 1), 2)
  BY DEF Warded
<1> HIDE DEF Ward
<1>3. Ward(w, 0) \in Calm(w, s, ob)
  BY <1>1, CalmSelf
<1>4. Ward(Ward(w, 0), 1) \in Calm(w, s, ob)
  BY <1>1, <1>3
<1>q. QED
  BY <1>1, <1>2, <1>4

LEMMA OnPlacedCalm ==
    ASSUME NEW s \in States, NEW w \in Worlds, w \in Live(s), NEW ob,
           NEW slots \in SUBSET Slots
    PROVE  OnPlaced(w, s, slots) \subseteq Calm(w, s, ob)
<1>1. CASE slots = {} \/ Holding(w, s) = {}
  BY <1>1, CalmSelf DEF OnPlaced
<1>2. CASE slots # {} /\ Holding(w, s) # {}
  <2> DEFINE c == Found(w, s)
             chara == {i \in slots : IsCustom(w, c, i, w.slot[s][i])}
  <2>1. c \in Contexts
    BY <1>2, FoundFacts
  <2>2. chara \in SUBSET Slots
    OBVIOUS
  <2>3. "on" \in Wards /\ "due" \in Wards
    BY DEF Wards
  <2>4. OnPlaced(w, s, slots) = {Warded(w, c, chara, "on")}
                                \cup {Warded(v, c, chara, "due") : v \in Raised(w)}
    BY <1>2 DEF OnPlaced
  <2> HIDE DEF c, chara
  <2>5. Warded(w, c, chara, "on") \in Calm(w, s, ob)
    BY <2>1, <2>2, <2>3, WardedCalm
  <2>6. ASSUME NEW v \in Raised(w) PROVE Warded(v, c, chara, "due") \in Calm(w, s, ob)
    <3>1. v \in Calm(w, s, ob)
      BY RaisedCalm
    <3>2. v \in Worlds /\ v \in Live(s)
      BY <3>1, CalmLive
    <3>3. Warded(v, c, chara, "due") \in Calm(v, s, ob)
      BY <2>1, <2>2, <2>3, <3>2, WardedCalm
    <3>q. QED
      BY <3>1, <3>3, CalmStep
  <2>q. QED
    BY <2>4, <2>5, <2>6
<1>q. QED
  BY <1>1, <1>2

\* A step of the game on the slots of the state, as far as a slot at rest is concerned.
LEMMA RowSteady ==
    ASSUME NEW s \in States, NEW w \in Worlds, w \in Live(s), NEW ob,
           NEW f \in [Slots -> SlotSet], \A i \in Slots : f[i] \in Moved(w.slot[s][i]),
           NEW up \in SUBSET {i \in Slots : f[i] # w.slot[s][i]}, NEW down,
           Quiet(w, s, ob) => f[ob].st \in {"active", "removing"} /\ ~f[ob].pend
    PROVE  /\ OnPlaced([w EXCEPT !.slot[s] = f,
                                 !.out = (@ \cup {f[i].ent : i \in up}) \ down], s, up)
              \subseteq Steady(w, s, ob)
           /\ (Quiet(w, s, ob) => f[ob] = w.slot[s][ob]) =>
              OnPlaced([w EXCEPT !.slot[s] = f,
                                 !.out = (@ \cup {f[i].ent : i \in up}) \ down], s, up)
              \subseteq Calm(w, s, ob)
<1> DEFINE x == (w.out \cup {f[i].ent : i \in up}) \ down
           u == [w EXCEPT !.slot[s] = f, !.out = x]
           still == Quiet(w, s, ob) => f[ob] = w.slot[s][ob]
<1>1. \A i \in Slots : f[i].ent = w.slot[s][i].ent
  BY DEF Moved
<1>2. \A i \in up : f[i].ent \in Entities
  BY BoundsAssumption DEF Moved, Entities, SlotSet
<1>3. x \in SUBSET Entities
  BY <1>2 DEF Worlds
<1>4. ASSUME still, Quiet(w, s, ob), w.slot[s][ob].ent \notin w.out
      PROVE  w.slot[s][ob].ent \notin x
  <2>1. SUFFICES ASSUME NEW i \in up, f[i].ent = w.slot[s][ob].ent PROVE FALSE
    BY <1>4
  <2>2. i \in Slots /\ i # ob /\ w.slot[s][i].ent # 0
    BY <1>4, <2>1 DEF Moved
  <2>3. w.slot[s][i].ent = w.slot[s][ob].ent
    BY <1>1, <2>1, <2>2
  <2>4. ob \in Slots
    BY <1>4 DEF Quiet
  <2>q. QED
    BY <2>2, <2>3, <2>4, LiveWorld DEF Sound, Once
<1> HIDE DEF x
<1>5. u \in Kept(w)
  BY <1>1, <1>3, RowWrite
<1>6. /\ u.last = w.last /\ u.trouble = w.trouble /\ u.life = w.life /\ u.ctx = w.ctx
      /\ u.out = x /\ u.slot[s] = f
      /\ \A t \in States : t # s => u.slot[t] = w.slot[t]
  BY DEF Worlds
<1>7. w.trouble \in Nat /\ \A e \in Entities : w.life[e] \in Int
  BY DEF Worlds
<1> HIDE DEF u
<1>8. Quiet(w, s, ob) => Quiet(u, s, ob)
  BY <1>6 DEF Quiet
<1>9. u \in Steady(w, s, ob)
  BY <1>5, <1>6, <1>7, <1>8 DEF Steady, Within
<1>10. ASSUME still PROVE u \in Calm(w, s, ob)
  <2>1. Down(w, s, ob) => Down(u, s, ob)
    BY <1>4, <1>6, <1>8, <1>10 DEF Down
  <2>2. Hidden(w, s, ob) => Hidden(u, s, ob)
    BY <1>4, <1>6, <1>8, <1>10 DEF Hidden
  <2>q. QED
    BY <1>9, <2>1, <2>2 DEF Calm
<1>11. u \in Live(s) /\ u \in Worlds
  <2>1. u \in Sound
    BY <1>5, LiveWorld, KeptSound
  <2>q. QED
    BY <1>6, <2>1, LiveWorld, SoundWorld DEF Live
<1>12. OnPlaced(u, s, up) \subseteq Calm(u, s, ob)
  BY <1>11, OnPlacedCalm
<1>13. OnPlaced(u, s, up) \subseteq Steady(w, s, ob)
  BY <1>9, <1>12, SteadyStep DEF Calm
<1>14. still => OnPlaced(u, s, up) \subseteq Calm(w, s, ob)
  BY <1>10, <1>12, CalmStep
<1>15. u = [w EXCEPT !.slot[s] = f, !.out = (@ \cup {f[i].ent : i \in up}) \ down]
  BY DEF u, x
<1>q. QED
  BY <1>13, <1>14, <1>15

LEMMA AdvanceSteady ==
    ASSUME NEW s \in States, NEW w \in Worlds, w \in Live(s), NEW ob, NEW moves,
           \A i \in Slots : moves[i] \subseteq Moved(w.slot[s][i]),
           Quiet(w, s, ob) =>
              \A x \in moves[ob] : x.st \in {"active", "removing"} /\ ~x.pend
    PROVE  /\ Advance(w, s, moves) \subseteq Steady(w, s, ob)
           /\ (Quiet(w, s, ob) => moves[ob] = {}) => Advance(w, s, moves) \subseteq Calm(w, s, ob)
<1>1. ASSUME NEW v \in Advance(w, s, moves)
      PROVE  /\ v \in Steady(w, s, ob)
             /\ (Quiet(w, s, ob) => moves[ob] = {}) => v \in Calm(w, s, ob)
  <2> DEFINE Up(f) == {i \in Slots : f[i] # w.slot[s][i] /\ f[i].st = "transition"}
             Buried(f) == {i \in Slots : /\ f[i] # w.slot[s][i] /\ f[i].st = "active"
                                         /\ "gate" \in f[i].flags}
  <2>1. PICK f \in [Slots -> UNION {moves[i] \cup {w.slot[s][i]} : i \in Slots}] :
           /\ \A i \in Slots : f[i] \in moves[i] \cup {w.slot[s][i]}
           /\ v \in OnPlaced([w EXCEPT !.slot[s] = f,
                 !.out = (@ \cup {f[i].ent : i \in Up(f)}) \ {f[i].ent : i \in Buried(f)}],
                             s, Up(f))
    BY <1>1 DEF Advance
  <2>2. \A i \in Slots : w.slot[s][i] \in SlotSet
    BY DEF Worlds
  <2>3. \A i \in Slots : f[i] \in Moved(w.slot[s][i])
    BY <2>1, <2>2 DEF Moved
  <2>4. f \in [Slots -> SlotSet]
    BY <2>1, <2>3 DEF Moved
  <2>5. Up(f) \in SUBSET {i \in Slots : f[i] # w.slot[s][i]}
    OBVIOUS
  <2>6. Quiet(w, s, ob) => f[ob].st \in {"active", "removing"} /\ ~f[ob].pend
    BY <2>1 DEF Quiet
  <2>7. (Quiet(w, s, ob) => moves[ob] = {}) => (Quiet(w, s, ob) => f[ob] = w.slot[s][ob])
    BY <2>1 DEF Quiet
  <2> HIDE DEF Up, Buried
  <2>8. v \in Steady(w, s, ob)
    BY <2>1, <2>3, <2>4, <2>5, <2>6, RowSteady
  <2>9. (Quiet(w, s, ob) => moves[ob] = {}) => v \in Calm(w, s, ob)
    BY <2>1, <2>3, <2>4, <2>5, <2>6, <2>7, RowSteady
  <2>q. QED
    BY <2>8, <2>9
<1>q. QED
  BY <1>1

\* A slot at rest is not placed; the game's own update may bring it back.
LEMMA NativesCalm ==
    ASSUME NEW s \in States, NEW w \in Worlds, w \in Live(s), NEW ob
    PROVE  /\ BuddyUpdate(w, s) \subseteq Calm(w, s, ob)
           /\ DeathRecovery(w, s) \subseteq Calm(w, s, ob)
           /\ NativeUpdate(w, s) \subseteq Steady(w, s, ob)
<1> DEFINE Moves(sl) == Taken(sl) \cup Placed(sl) \cup Leaving(sl) \cup Left(w, sl)
           taken == [i \in Slots |-> Taken(w.slot[s][i])]
           placed == [i \in Slots |-> Placed(w.slot[s][i])]
           moves == [i \in Slots |-> Moves(w.slot[s][i])]
<1>0. \A i \in Slots : w.slot[s][i] \in SlotSet
  BY DEF Worlds
<1>1. \A i \in Slots : Moves(w.slot[s][i]) \subseteq Moved(w.slot[s][i])
  BY <1>0, StepsMove
<1>2. /\ BuddyUpdate(w, s) = Advance(w, s, taken) \cup Raised(w)
      /\ DeathRecovery(w, s) = Advance(w, s, placed) \cup Raised(w)
      /\ NativeUpdate(w, s) = (IF MayUpdate(w, s) THEN Advance(w, s, moves) ELSE {w})
                              \cup Raised(w)
  BY DEF BuddyUpdate, DeathRecovery, NativeUpdate
<1>3. \A i \in Slots : /\ taken[i] \subseteq Moved(w.slot[s][i])
                       /\ placed[i] \subseteq Moved(w.slot[s][i])
                       /\ moves[i] \subseteq Moved(w.slot[s][i])
  BY <1>1
<1>4. Quiet(w, s, ob) => taken[ob] = {} /\ placed[ob] = {}
  BY DEF Quiet, Taken, Placed
<1>5. Quiet(w, s, ob) => \A x \in moves[ob] : x.st \in {"active", "removing"} /\ ~x.pend
  <2> DEFINE sl == w.slot[s][ob]
  <2>1. ASSUME Quiet(w, s, ob)
        PROVE  /\ Taken(sl) = {} /\ Placed(sl) = {} /\ Leaving(sl) = {}
               /\ \A x \in Left(w, sl) : x.st \in {"active", "removing"} /\ ~x.pend
    BY <1>0, <2>1 DEF Quiet, Taken, Placed, Leaving, Left, SlotSet
  <2>q. QED
    BY <2>1 DEF Quiet
<1> HIDE DEF taken, placed, moves
<1>6. Advance(w, s, taken) \subseteq Calm(w, s, ob)
  BY <1>3, <1>4, AdvanceSteady
<1>7. Advance(w, s, placed) \subseteq Calm(w, s, ob)
  BY <1>3, <1>4, AdvanceSteady
<1>8. Advance(w, s, moves) \subseteq Steady(w, s, ob)
  BY <1>3, <1>5, AdvanceSteady
<1>9. w \in Calm(w, s, ob) /\ Raised(w) \subseteq Calm(w, s, ob)
  BY CalmSelf, RaisedCalm
<1>q. QED
  BY <1>2, <1>6, <1>7, <1>8, <1>9 DEF Calm

-----------------------------------------------------------------------------
(* The upkeep of a slot is calm for another one. *)

Outcomes(w, s, i) == [w : Calm(w, s, i), done : BOOLEAN]

LEMMA OutcomesOf ==
    ASSUME NEW s, NEW i, NEW w, NEW v \in Calm(w, s, i)
    PROVE  Done(v) \in Outcomes(w, s, i) /\ Pass(v) \in Outcomes(w, s, i)
BY DEF Outcomes, Done, Pass

LEMMA OutcomesStep ==
    ASSUME NEW s, NEW i, NEW w \in Live(s), NEW v \in Calm(w, s, i),
           NEW r \in Outcomes(v, s, i)
    PROVE  r \in Outcomes(w, s, i)
<1>1. r.w \in Calm(w, s, i)
  BY CalmStep DEF Outcomes
<1>q. QED
  BY <1>1 DEF Outcomes

LEMMA PostRecallCalm ==
    ASSUME NEW s \in States, NEW w \in Worlds, w \in Live(s), NEW ob, NEW c \in Contexts,
           NEW i \in Slots,
           NEW snap \in SlotSet,
           i # ob
    PROVE  PostRecall(w, s, c, i, snap) \subseteq Outcomes(w, s, ob)
<1>1. Pass(w) \in Outcomes(w, s, ob)
  BY CalmSelf, OutcomesOf
<1>2. Done(ResetSlot(NativeUnsummon(w, snap.ent), s, i)) \in Outcomes(w, s, ob)
  <2> DEFINE v == NativeUnsummon(w, snap.ent)
  <2>1. v \in Calm(w, s, ob)
    BY UnsummonCalm
  <2> HIDE DEF v
  <2>2. ResetSlot(v, s, i) \in Calm(v, s, ob)
    BY <2>1, CalmLive, ShapesCalm
  <2>3. ResetSlot(v, s, i) \in Calm(w, s, ob)
    BY <2>1, <2>2, CalmStep
  <2>q. QED
    BY <2>3, OutcomesOf DEF v
<1>3. ASSUME NEW v \in Raised(w) PROVE Pass(ResetSlot(v, s, i)) \in Outcomes(w, s, ob)
  <2>1. v \in Calm(w, s, ob)
    BY RaisedCalm
  <2>2. ResetSlot(v, s, i) \in Calm(v, s, ob)
    BY <2>1, CalmLive, ShapesCalm
  <2>3. ResetSlot(v, s, i) \in Calm(w, s, ob)
    BY <2>1, <2>2, CalmStep
  <2>q. QED
    BY <2>3, OutcomesOf
<1>q. QED
  BY <1>1, <1>2, <1>3 DEF PostRecall

LEMMA RepairCalm ==
    ASSUME NEW s \in States, NEW w \in Worlds, w \in Live(s), NEW ob, NEW c \in Contexts,
           NEW i \in Slots,
           NEW snap \in SlotSet,
           i # ob
    PROVE  Repair(w, s, c, i, snap) \subseteq Outcomes(w, s, ob)
<1> DEFINE r == w.ctx[c].repair[i]
           same == r.watch /\ r.ent = snap.ent /\ r.st = snap.st /\ r.pend = snap.pend
           begun == [w EXCEPT !.ctx[c].repair[i] =
                       [watch |-> TRUE, ent |-> snap.ent, st |-> snap.st,
                        pend |-> snap.pend, age |-> 0, tried |-> 0]]
           tried == [w EXCEPT !.ctx[c].repair[i].tried = 1]
           ready == IF snap.st = "active" THEN Activate(tried, s) ELSE {tried}
           after == UNION {UNION {DeathRecovery(u, s) : u \in BuddyUpdate(v, s)} : v \in ready}
           held == Control(w, s, i, "transition", snap.flags)
<1>1. begun \in Calm(w, s, ob)
  <2>1. [watch |-> TRUE, ent |-> snap.ent, st |-> snap.st, pend |-> snap.pend,
         age |-> 0, tried |-> 0] \in Repairs
    BY DEF SlotSet, Repairs
  <2>q. QED
    BY <2>1, MemberCalm
<1>2. tried \in Calm(w, s, ob)
  <2>0. r \in Repairs
    BY DEF Worlds, Records
  <2>1. [r EXCEPT !.tried = 1] \in Repairs
    BY <2>0 DEF Repairs
  <2>2. [w EXCEPT !.ctx[c].repair[i] = [r EXCEPT !.tried = 1]] \in Calm(w, s, ob)
    BY <2>1, MemberCalm
  <2>3. tried = [w EXCEPT !.ctx[c].repair[i] = [r EXCEPT !.tried = 1]]
    OBVIOUS
  <2>q. QED
    BY <2>2, <2>3
<1>3. ready \subseteq Calm(w, s, ob)
  <2> HIDE DEF tried
  <2>1. Activate(tried, s) \subseteq Calm(tried, s, ob)
    BY <1>2, CalmLive, ActivateCalm
  <2>q. QED
    BY <1>2, <2>1, CalmStep
<1>4. after \subseteq Calm(w, s, ob)
  <2> HIDE DEF ready
  <2>1. SUFFICES ASSUME NEW v \in ready, NEW u \in BuddyUpdate(v, s),
                        NEW x \in DeathRecovery(u, s)
                 PROVE  x \in Calm(w, s, ob)
    OBVIOUS
  <2>2. v \in Calm(w, s, ob)
    BY <1>3
  <2>3. u \in Calm(v, s, ob)
    BY <2>2, CalmLive, NativesCalm
  <2>4. u \in Calm(w, s, ob)
    BY <2>2, <2>3, CalmStep
  <2>5. x \in Calm(u, s, ob)
    BY <2>4, CalmLive, NativesCalm
  <2>q. QED
    BY <2>4, <2>5, CalmStep
<1>5. StopRepair(w, c, i) \in Calm(w, s, ob)
  BY StopsCalm
<1>6. StopRepair(held, c, i) \in Calm(w, s, ob)
  <2>1. held \in Calm(w, s, ob)
    BY ControlCalm DEF SlotSet, Stages
  <2> HIDE DEF held
  <2>2. StopRepair(held, c, i) \in Calm(held, s, ob)
    BY <2>1, CalmLive, StopsCalm
  <2>q. QED
    BY <2>1, <2>2, CalmStep
<1>7. ASSUME NEW v \in after PROVE Done(StopRepair(v, c, i)) \in Outcomes(w, s, ob)
  <2>1. v \in Calm(w, s, ob)
    BY <1>4
  <2>2. StopRepair(v, c, i) \in Calm(v, s, ob)
    BY <2>1, CalmLive, StopsCalm
  <2>3. StopRepair(v, c, i) \in Calm(w, s, ob)
    BY <2>1, <2>2, CalmStep
  <2>q. QED
    BY <2>3, OutcomesOf
<1>8. \A v \in after : Pass(v) \in Outcomes(w, s, ob)
  BY <1>4, OutcomesOf
<1>9. /\ Pass(begun) \in Outcomes(w, s, ob) /\ Pass(w) \in Outcomes(w, s, ob)
      /\ Pass(StopRepair(w, c, i)) \in Outcomes(w, s, ob)
      /\ Done(StopRepair(held, c, i)) \in Outcomes(w, s, ob)
  BY <1>1, <1>5, <1>6, CalmSelf, OutcomesOf
<1>10. Repair(w, s, c, i, snap) =
         CASE ~(IsCustom(w, c, i, snap) /\ Stalled(snap)) -> {Pass(StopRepair(w, c, i))}
           [] IsCustom(w, c, i, snap) /\ Stalled(snap) /\ ~same -> {Pass(begun)}
           [] same /\ Stalled(snap) /\ IsCustom(w, c, i, snap) /\
                (r.age < RepairTicks \/ (snap.st # "transition" /\ r.tried \in 1..RepairTicks)) ->
              {Pass(w)}
           [] OTHER ->
              IF snap.st = "transition" THEN {Done(StopRepair(held, c, i))}
              ELSE {IF v.slot[s][i] # snap THEN Done(StopRepair(v, c, i)) ELSE Pass(v) :
                      v \in after}
  BY DEF Repair
<1> HIDE DEF r, same, begun, tried, ready, after, held
<1>11. {IF v.slot[s][i] # snap THEN Done(StopRepair(v, c, i)) ELSE Pass(v) : v \in after}
         \subseteq Outcomes(w, s, ob)
  BY <1>7, <1>8
<1>q. QED
  BY <1>9, <1>10, <1>11

LEMMA StuckCalm ==
    ASSUME NEW s \in States, NEW w \in Worlds, w \in Live(s), NEW ob, NEW c \in Contexts,
           NEW i \in Slots,
           NEW snap \in SlotSet,
           i # ob
    PROVE  Stuck(w, s, c, i, snap) \subseteq Outcomes(w, s, ob)
<1> DEFINE k == w.ctx[c].stuck[i]
           cand == snap.st = "removing" /\ ~snap.pend /\ Readable(w, c, i, snap)
           begun == [w EXCEPT !.ctx[c].stuck[i] =
                       [watch |-> TRUE, ent |-> snap.ent, age |-> 0]]
           free == Rate(Hp(w, snap)) >= Half
           calm == StopRecall(w, c, i)
           stopped == StopZero(calm, c, i, snap)
           flags == IF free THEN {} ELSE {"gate"}
           active == Control(stopped, s, i, "active", flags)
           freed == StopStuck(active, c, i)
           again == PostRecall(freed, s, c, i, freed.slot[s][i])
<1>1. begun \in Calm(w, s, ob)
  <2>1. [watch |-> TRUE, ent |-> snap.ent, age |-> 0] \in Stucks
    BY DEF SlotSet, Stucks
  <2>q. QED
    BY <2>1, MemberCalm
<1>2. calm \in Calm(w, s, ob)
  BY StopsCalm
<1>3. stopped \in Calm(w, s, ob)
  <2> HIDE DEF calm
  <2>1. stopped \in Calm(calm, s, ob)
    BY <1>2, CalmLive, StopZeroCalm
  <2>q. QED
    BY <1>2, <2>1, CalmStep
<1>4. active \in Calm(w, s, ob)
  <2>0. flags \in SUBSET Flags
    BY DEF Flags
  <2> HIDE DEF stopped, flags
  <2>1. active \in Calm(stopped, s, ob)
    BY <1>3, <2>0, CalmLive, ControlCalm DEF Stages
  <2>q. QED
    BY <1>3, <2>1, CalmStep
<1>5. freed \in Calm(w, s, ob)
  <2> HIDE DEF active
  <2>1. freed \in Calm(active, s, ob)
    BY <1>4, CalmLive, StopsCalm
  <2>q. QED
    BY <1>4, <2>1, CalmStep
<1>6. ASSUME NEW r \in again PROVE Done(r.w) \in Outcomes(w, s, ob)
  <2> HIDE DEF freed
  <2>1. freed \in Worlds /\ freed \in Live(s)
    BY <1>5, CalmLive
  <2>2. freed.slot[s][i] \in SlotSet
    BY <2>1 DEF Worlds
  <2>3. r \in Outcomes(freed, s, ob)
    BY <2>1, <2>2, PostRecallCalm
  <2>4. r.w \in Calm(w, s, ob)
    BY <1>5, <2>3, CalmStep DEF Outcomes
  <2>q. QED
    BY <2>4, OutcomesOf
<1>7. /\ Pass(StopStuck(w, c, i)) \in Outcomes(w, s, ob) /\ Pass(begun) \in Outcomes(w, s, ob)
      /\ Pass(w) \in Outcomes(w, s, ob) /\ Done(freed) \in Outcomes(w, s, ob)
  BY <1>1, <1>5, StopsCalm, CalmSelf, OutcomesOf
<1>8. Stuck(w, s, c, i, snap) =
        CASE ~cand -> {Pass(StopStuck(w, c, i))}
          [] cand /\ ~(k.watch /\ k.ent = snap.ent) -> {Pass(begun)}
          [] cand /\ k.watch /\ k.ent = snap.ent /\ k.age < StableTicks -> {Pass(w)}
          [] OTHER -> IF Percent(w, snap) > 0 THEN {Done(r.w) : r \in again} ELSE {Done(freed)}
  BY DEF Stuck
<1> HIDE DEF k, cand, begun, free, calm, stopped, flags, active, freed, again
<1>q. QED
  BY <1>6, <1>7, <1>8

LEMMA MarkCalm ==
    ASSUME NEW s \in States, NEW w \in Worlds, w \in Live(s), NEW ob, NEW c \in Contexts,
           NEW i \in Slots
    PROVE  /\ [w EXCEPT !.ctx[c].zero[i].healed = TRUE] \in Calm(w, s, ob)
           /\ [w EXCEPT !.ctx[c].zero[i].released = TRUE] \in Calm(w, s, ob)
<1> DEFINE z == w.ctx[c].zero[i]
<1>1. z \in Zeros
  BY DEF Worlds, Records
<1>2. [z EXCEPT !.healed = TRUE] \in Zeros /\ [z EXCEPT !.released = TRUE] \in Zeros
  BY <1>1 DEF Zeros
<1>3. /\ [w EXCEPT !.ctx[c].zero[i] = [z EXCEPT !.healed = TRUE]] \in Calm(w, s, ob)
      /\ [w EXCEPT !.ctx[c].zero[i] = [z EXCEPT !.released = TRUE]] \in Calm(w, s, ob)
  BY <1>2, MemberCalm
<1>4. /\ [w EXCEPT !.ctx[c].zero[i].healed = TRUE]
           = [w EXCEPT !.ctx[c].zero[i] = [z EXCEPT !.healed = TRUE]]
      /\ [w EXCEPT !.ctx[c].zero[i].released = TRUE]
           = [w EXCEPT !.ctx[c].zero[i] = [z EXCEPT !.released = TRUE]]
  OBVIOUS
<1>q. QED
  BY <1>3, <1>4

LEMMA HealedCalm ==
    ASSUME NEW s \in States, NEW w \in Worlds, w \in Live(s), NEW ob, NEW e \in Entities,
           w.life[e] \in 0..(MaxHp - 1)
    PROVE  Healed(w, e) \in Calm(w, s, ob)
<1>1. w.life[e] + 1 \in -2..MaxHp /\ w.life[e] + 1 # Unmade /\ w.life[e] # Unmade
      /\ w.life[e] <= w.life[e] + 1
  BY BoundsAssumption DEF Unmade
<1>2. [w EXCEPT !.life[e] = w.life[e] + 1] \in Calm(w, s, ob)
  BY <1>1, LifeCalm
<1>q. QED
  BY <1>2 DEF Healed

LEMMA ZeroHealCalm ==
    ASSUME NEW s \in States, NEW w \in Worlds, w \in Live(s), NEW ob, NEW c \in Contexts,
           NEW i \in Slots,
           NEW snap \in SlotSet, snap.ent \in Entities, w.life[snap.ent] \in 0..(MaxHp - 1)
    PROVE  ZeroHeal(w, s, c, i, snap) \subseteq Outcomes(w, s, ob)
<1> DEFINE h == Healed(w, snap.ent)
           v == [h EXCEPT !.ctx[c].zero[i].healed = TRUE]
           z == v.ctx[c].zero[i]
           g == SetGate(v, s, i, v.slot[s][i], FALSE)
           o == [g EXCEPT !.ctx[c].zero[i].released = TRUE]
           u == IF ~z.released /\ Rate(Hp(v, snap)) >= Half THEN o ELSE v
           e == IF Hp(u, snap) >= MaxHp THEN StopZero(u, c, i, u.slot[s][i]) ELSE u
<1>1. h \in Calm(w, s, ob)
  BY HealedCalm
<1>2. v \in Calm(w, s, ob)
  <2> HIDE DEF h
  <2>1. v \in Calm(h, s, ob)
    BY <1>1, CalmLive, MarkCalm
  <2>q. QED
    BY <1>1, <2>1, CalmStep
<1>3. g \in Calm(w, s, ob)
  <2> HIDE DEF v
  <2>1. v \in Worlds /\ v \in Live(s)
    BY <1>2, CalmLive
  <2>2. v.slot[s][i] \in SlotSet
    BY <2>1 DEF Worlds
  <2>3. g \in Calm(v, s, ob)
    BY <2>1, <2>2, SetGateCalm
  <2> HIDE DEF g
  <2>q. QED
    BY <1>2, <2>3, CalmStep
<1>4. o \in Calm(w, s, ob)
  <2> HIDE DEF g
  <2>1. o \in Calm(g, s, ob)
    BY <1>3, CalmLive, MarkCalm
  <2>q. QED
    BY <1>3, <2>1, CalmStep
<1>5. u \in Calm(w, s, ob)
  <2> HIDE DEF v, o, z
  <2>q. QED
    BY <1>2, <1>4
<1>6. e \in Calm(w, s, ob)
  <2> HIDE DEF u
  <2>1. u \in Worlds /\ u \in Live(s)
    BY <1>5, CalmLive
  <2>2. u.slot[s][i] \in SlotSet
    BY <2>1 DEF Worlds
  <2>3. StopZero(u, c, i, u.slot[s][i]) \in Calm(u, s, ob)
    BY <2>1, <2>2, StopZeroCalm
  <2>q. QED
    BY <1>5, <2>3, CalmStep
<1>7. ASSUME NEW x \in Raised(w) PROVE Done(StopZero(x, c, i, snap)) \in Outcomes(w, s, ob)
  <2>1. x \in Calm(w, s, ob)
    BY RaisedCalm
  <2>2. StopZero(x, c, i, snap) \in Calm(x, s, ob)
    BY <2>1, CalmLive, StopZeroCalm
  <2>3. StopZero(x, c, i, snap) \in Calm(w, s, ob)
    BY <2>1, <2>2, CalmStep
  <2>q. QED
    BY <2>3, OutcomesOf
<1>8. ZeroHeal(w, s, c, i, snap) =
        {Done(e)} \cup {Done(StopZero(x, c, i, snap)) : x \in Raised(w)}
  BY DEF ZeroHeal
<1> HIDE DEF h, v, z, g, o, u, e
<1>q. QED
  BY <1>6, <1>7, <1>8, OutcomesOf

LEMMA ZeroStartCalm ==
    ASSUME NEW s \in States, NEW w \in Worlds, w \in Live(s), NEW ob, NEW c \in Contexts,
           NEW i \in Slots,
           NEW snap \in SlotSet
    PROVE  /\ ZeroStart(w, s, c, i, snap) \in Calm(w, s, ob)
           /\ ZeroStart(w, s, c, i, snap).life = w.life
<1> DEFINE z == [NoZero EXCEPT !.active = TRUE, !.ent = snap.ent]
           v == [w EXCEPT !.ctx[c].zero[i] = z]
           u == SetGate(v, s, i, snap, TRUE)
<1>1. z \in Zeros
  BY MonitorsTyped
<1> HIDE DEF z
<1>2. v \in Calm(w, s, ob)
  BY <1>1, MemberCalm
<1>3. v \in Worlds /\ v \in Live(s)
  BY <1>2, CalmLive
<1>4. v.life = w.life
  BY DEF Worlds
<1> HIDE DEF v
<1>5. u \in Calm(v, s, ob)
  BY <1>3, SetGateCalm
<1>6. u.life = v.life
  BY <1>3 DEF SetGate, Worlds
<1> HIDE DEF u
<1>7. u \in Calm(w, s, ob)
  BY <1>2, <1>5, CalmStep
<1>8. ZeroStart(w, s, c, i, snap) = u
  BY DEF ZeroStart, u, v, z
<1>q. QED
  BY <1>4, <1>6, <1>7, <1>8

LEMMA ZeroCalm ==
    ASSUME NEW s \in States, NEW w \in Worlds, w \in Live(s), NEW ob, NEW c \in Contexts,
           NEW i \in Slots,
           NEW snap \in SlotSet
    PROVE  Zero(w, s, c, i, snap) \subseteq Outcomes(w, s, ob)
<1> DEFINE z == w.ctx[c].zero[i]
           cand == ZeroCandidate(w, c, i, snap)
           over == ZeroOver(w, c, i, snap)
           over1 == StopZero(w, c, i, snap)
           begun == ZeroWatch(w, c, i, snap)
           v == ZeroStart(w, s, c, i, snap)
<1>1. over1 \in Calm(w, s, ob)
  BY StopZeroCalm
<1>2. begun \in Calm(w, s, ob)
  BY HpInt, MonitorsTyped, MemberCalm DEF ZeroWatch
<1>3. cand => ZeroHeal(w, s, c, i, snap) \subseteq Outcomes(w, s, ob)
  BY CandidateFacts, ZeroHealCalm
<1>4. cand => ZeroHeal(v, s, c, i, snap) \subseteq Outcomes(w, s, ob)
  <2>1. v \in Calm(w, s, ob) /\ v.life = w.life
    BY ZeroStartCalm
  <2> HIDE DEF v
  <2>2. cand => ZeroHeal(v, s, c, i, snap) \subseteq Outcomes(v, s, ob)
    BY <2>1, CalmLive, CandidateFacts, ZeroHealCalm
  <2>q. QED
    BY <2>1, <2>2, OutcomesStep
<1>5. /\ Pass(over1) \in Outcomes(w, s, ob) /\ Done(over1) \in Outcomes(w, s, ob) /\ Pass(w) \in Outcomes(w, s, ob)
      /\ Pass(begun) \in Outcomes(w, s, ob)
  BY <1>1, <1>2, CalmSelf, OutcomesOf
<1>6. Zero(w, s, c, i, snap) =
        CASE ~cand -> {Pass(over1)}
          [] cand /\ over -> {Done(over1)}
          [] cand /\ z.active /\ ~over -> ZeroHeal(w, s, c, i, snap)
          [] OTHER ->
             IF ~z.watch \/ z.hp # Hp(w, snap) THEN {Pass(begun)}
             ELSE IF z.stable < StableTicks THEN {Pass(w)}
             ELSE ZeroHeal(v, s, c, i, snap)
  BY DEF Zero
<1> HIDE DEF z, cand, over, over1, begun, v
<1>q. QED
  BY <1>3, <1>4, <1>5, <1>6

LEMMA RecallCalm ==
    ASSUME NEW s \in States, NEW w \in Worlds, w \in Live(s), NEW ob, NEW c \in Contexts,
           NEW i \in Slots,
           NEW snap \in SlotSet
    PROVE  Recall(w, c, i, snap) \subseteq Calm(w, s, ob)
<1> DEFINE r == w.ctx[c].recall[i]
           cand == RecallCandidate(w, c, i, snap)
           begun == [w EXCEPT !.ctx[c].recall[i] =
                       [NoRecall EXCEPT !.watch = TRUE, !.ent = snap.ent, !.hp = Hp(w, snap)]]
           h == Healed(w, snap.ent)
           run == [h EXCEPT !.ctx[c].recall[i] =
                     [NoRecall EXCEPT !.active = TRUE, !.ent = snap.ent]]
<1>1. begun \in Calm(w, s, ob)
  BY HpInt, MonitorsTyped, MemberCalm
<1>2. cand => h \in Calm(w, s, ob)
  BY CandidateFacts, HealedCalm
<1>3. cand => StopRecall(h, c, i) \in Calm(w, s, ob) /\ run \in Calm(w, s, ob)
  <2>1. [NoRecall EXCEPT !.active = TRUE, !.ent = snap.ent] \in Recalls
    BY MonitorsTyped
  <2> HIDE DEF h
  <2>2. cand => StopRecall(h, c, i) \in Calm(h, s, ob) /\ run \in Calm(h, s, ob)
    BY <1>2, <2>1, CalmLive, StopsCalm, MemberCalm
  <2> HIDE DEF run
  <2>q. QED
    BY <1>2, <2>2, CalmStep
<1>4. ASSUME NEW x \in Raised(w) PROVE StopRecall(x, c, i) \in Calm(w, s, ob)
  <2>1. x \in Calm(w, s, ob)
    BY RaisedCalm
  <2>2. StopRecall(x, c, i) \in Calm(x, s, ob)
    BY <2>1, CalmLive, StopsCalm
  <2>q. QED
    BY <2>1, <2>2, CalmStep
<1>5. RecallHeal(w, c, i, snap) =
        {IF Hp(h, snap) >= MaxHp THEN StopRecall(h, c, i) ELSE run}
        \cup {StopRecall(x, c, i) : x \in Raised(w)}
  BY DEF RecallHeal
<1>6. Recall(w, c, i, snap) =
        CASE ~cand -> {StopRecall(w, c, i)}
          [] cand /\ ~r.active /\ (~r.watch \/ r.hp # Hp(w, snap)) -> {begun}
          [] cand /\ ~r.active /\ r.watch /\ r.hp = Hp(w, snap) /\ r.stable < StableTicks -> {w}
          [] OTHER -> RecallHeal(w, c, i, snap)
  BY DEF Recall
<1> HIDE DEF r, cand, begun, h, run
<1>7. cand => RecallHeal(w, c, i, snap) \subseteq Calm(w, s, ob)
  BY <1>3, <1>4, <1>5
<1>q. QED
  BY <1>1, <1>6, <1>7, StopsCalm, CalmSelf

LEMMA EnsuredCalm ==
    ASSUME NEW s \in States, NEW w \in Worlds, w \in Live(s), NEW ob, NEW c \in Contexts,
           NEW i \in Slots, NEW snap
    PROVE  Ensured(w, c, i, snap) \subseteq Calm(w, s, ob)
<1>1. Warded(w, c, {i}, "on") \in Calm(w, s, ob)
  BY WardedCalm DEF Wards
<1>q. QED
  BY <1>1, RaisedCalm, CalmSelf DEF Ensured

LEMMA UpkeepCalm ==
    ASSUME NEW s \in States, NEW w \in Worlds, w \in Live(s), NEW ob, NEW c \in Contexts,
           NEW i \in Slots, NEW before,
           i # ob
    PROVE  Upkeep(w, s, c, i, before) \subseteq Calm(w, s, ob)
<1> DEFINE snap == w.slot[s][i]
           first == UNION {IF before[i].st = "removing" THEN PostRecall(v, s, c, i, snap)
                           ELSE {Pass(v)} : v \in Ensured(w, c, i, snap)}
           s2 == Handled(first) \cup UNION {Repair(v, s, c, i, snap) : v \in Open(first)}
           s3 == Handled(s2) \cup UNION {Stuck(v, s, c, i, snap) : v \in Open(s2)}
           Fourth(v) == IF Side(v, s) = "local" THEN Zero(v, s, c, i, snap) ELSE {Pass(v)}
           s4 == Handled(s3) \cup UNION {Fourth(v) : v \in Open(s3)}
           Fifth(v) == IF Side(v, s) = "local" THEN Recall(v, c, i, snap) ELSE {v}
<1>0. snap \in SlotSet
  BY DEF Worlds
<1>1. first \subseteq Outcomes(w, s, ob)
  <2>1. SUFFICES ASSUME NEW v \in Ensured(w, c, i, snap),
                        NEW r \in PostRecall(v, s, c, i, snap) \cup {Pass(v)}
                 PROVE  r \in Outcomes(w, s, ob)
    OBVIOUS
  <2>2. v \in Calm(w, s, ob)
    BY EnsuredCalm
  <2>3. PostRecall(v, s, c, i, snap) \subseteq Outcomes(v, s, ob)
    BY <1>0, <2>2, CalmLive, PostRecallCalm
  <2>q. QED
    BY <2>1, <2>2, <2>3, OutcomesOf, OutcomesStep
<1>2. ASSUME NEW v \in Calm(w, s, ob)
      PROVE  /\ Repair(v, s, c, i, snap) \subseteq Outcomes(w, s, ob)
             /\ Stuck(v, s, c, i, snap) \subseteq Outcomes(w, s, ob)
             /\ Fourth(v) \subseteq Outcomes(w, s, ob) /\ Fifth(v) \subseteq Calm(w, s, ob)
  <2>1. v \in Worlds /\ v \in Live(s)
    BY CalmLive
  <2> HIDE DEF snap
  <2>2. /\ Repair(v, s, c, i, snap) \subseteq Outcomes(v, s, ob)
        /\ Stuck(v, s, c, i, snap) \subseteq Outcomes(v, s, ob)
        /\ Zero(v, s, c, i, snap) \subseteq Outcomes(v, s, ob)
    BY <1>0, <2>1, RepairCalm, StuckCalm, ZeroCalm
  <2>3. /\ Repair(v, s, c, i, snap) \subseteq Outcomes(w, s, ob)
        /\ Stuck(v, s, c, i, snap) \subseteq Outcomes(w, s, ob)
        /\ Zero(v, s, c, i, snap) \subseteq Outcomes(w, s, ob)
    BY <2>2, OutcomesStep
  <2>4. Pass(v) \in Outcomes(w, s, ob)
    BY OutcomesOf
  <2>5. Recall(v, c, i, snap) \subseteq Calm(v, s, ob)
    BY <1>0, <2>1, RecallCalm
  <2>6. Recall(v, c, i, snap) \subseteq Calm(w, s, ob)
    BY <2>5, CalmStep
  <2>q. QED
    BY <2>3, <2>4, <2>6
<1>3. Upkeep(w, s, c, i, before)
        = {r.w : r \in Handled(s4)} \cup UNION {Fifth(v) : v \in Open(s4)}
  BY DEF Upkeep
<1> HIDE DEF first, Fourth, Fifth, snap
<1>4. ASSUME NEW rs \in SUBSET Outcomes(w, s, ob)
      PROVE  Handled(rs) \subseteq Outcomes(w, s, ob) /\ Open(rs) \subseteq Calm(w, s, ob)
  BY DEF Outcomes, Handled, Open
<1>5. s2 \subseteq Outcomes(w, s, ob)
  BY <1>1, <1>2, <1>4
<1> HIDE DEF s2
<1>6. s3 \subseteq Outcomes(w, s, ob)
  BY <1>2, <1>4, <1>5
<1> HIDE DEF s3
<1>7. s4 \subseteq Outcomes(w, s, ob)
  BY <1>2, <1>4, <1>6
<1> HIDE DEF s4
<1>8. \A r \in Outcomes(w, s, ob) : r.w \in Calm(w, s, ob)
  BY DEF Outcomes
<1>q. QED
  BY <1>2, <1>3, <1>4, <1>7, <1>8

-----------------------------------------------------------------------------
(* The fallback, the commands and the cleanup, for any slot. *)

\* A slot that leaves the world is at rest and down.
LEMMA DownCalm ==
    ASSUME NEW s, NEW i, NEW w, NEW v \in Within(w, s),
           v.trouble = w.trouble => Down(v, s, i)
    PROVE  v \in Calm(w, s, i)
BY DEF Calm, Steady, Down, Hidden

\* A slot that is not at rest is not asked to stay so.
LEMMA LooseCalm ==
    ASSUME NEW s, NEW i, NEW w, NEW v \in Within(w, s), ~Quiet(w, s, i)
    PROVE  v \in Calm(w, s, i)
BY DEF Calm, Steady, Down, Hidden

LEMMA WithinSelf == ASSUME NEW s, NEW w \in Live(s) PROVE w \in Within(w, s)
<1>1. w \in Worlds
  BY LiveWorld
<1>2. w.trouble \in Nat /\ \A e \in Entities : w.life[e] \in Int
  BY <1>1 DEF Worlds
<1>q. QED
  BY <1>1, <1>2, KeptSelf DEF Within

LEMMA WithinLive ==
    ASSUME NEW s, NEW w \in Live(s), NEW v \in Within(w, s)
    PROVE  v \in Live(s) /\ v \in Worlds
BY LiveWorld, KeptWorld, KeptSound DEF Within, Live

LEMMA ControlWithin ==
    ASSUME NEW s \in States, NEW w \in Live(s), NEW i \in Slots, NEW st \in Stages,
           NEW flags \in SUBSET Flags
    PROVE  /\ Control(w, s, i, st, flags) \in Within(w, s)
           /\ Control(w, s, i, st, flags).out = w.out
           /\ Control(w, s, i, st, flags).trouble = w.trouble
           /\ Control(w, s, i, st, flags).life = w.life
           /\ Control(w, s, i, st, flags).slot[s][i].st = st
           /\ ~Control(w, s, i, st, flags).slot[s][i].pend
           /\ Control(w, s, i, st, flags).slot[s][i].flags = flags
           /\ Control(w, s, i, st, flags).slot[s][i].ent = w.slot[s][i].ent
           /\ \A j \in Slots \ {i} :
                 Control(w, s, i, st, flags).slot[s][j] = w.slot[s][j]
           /\ Control(w, s, i, st, flags).ctx = w.ctx
<1> DEFINE v == Control(w, s, i, st, flags)
           x == [w.slot[s][i] EXCEPT !.st = st, !.pend = FALSE, !.flags = flags]
<1>1. w \in Worlds
  BY LiveWorld
<1>2. w.slot[s][i] \in SlotSet
  BY <1>1 DEF Worlds
<1>3. x.st = st /\ ~x.pend /\ x.flags = flags /\ x.ent = w.slot[s][i].ent
  BY <1>2 DEF SlotSet
<1>4. v = [w EXCEPT !.slot[s][i] = x]
  BY DEF Control
<1>5. v \in Kept(w)
  BY <1>1, ControlKept
<1> HIDE DEF x, v
<1>6. /\ v.last = w.last /\ v.out = w.out /\ v.trouble = w.trouble /\ v.life = w.life
      /\ v.ctx = w.ctx /\ v.slot[s][i] = x
      /\ \A j \in Slots \ {i} : v.slot[s][j] = w.slot[s][j]
      /\ \A t \in States : t # s => v.slot[t] = w.slot[t]
  BY <1>1, <1>4 DEF Worlds
<1>7. w.trouble \in Nat /\ \A e \in Entities : w.life[e] \in Int
  BY <1>1 DEF Worlds
<1>8. v \in Within(w, s)
  BY <1>5, <1>6, <1>7 DEF Within
<1>q. QED
  BY <1>3, <1>6, <1>8 DEF v

\* Once its buddy is out of the world, a slot that is put back is down.
LEMMA ResetDown ==
    ASSUME NEW s \in States, NEW w \in Live(s), NEW i \in Slots
    PROVE  /\ ResetSlot(w, s, i) \in Within(w, s)
           /\ ResetSlot(w, s, i).trouble = w.trouble
           /\ w.slot[s][i].ent \notin w.out => Down(ResetSlot(w, s, i), s, i)
<1>1. "active" \in Stages /\ {} \in SUBSET Flags
  BY DEF Stages, Flags
<1> DEFINE v == Control(w, s, i, "active", {})
<1>2. /\ v \in Within(w, s) /\ v.trouble = w.trouble /\ v.out = w.out
      /\ v.slot[s][i].st = "active" /\ ~v.slot[s][i].pend
      /\ v.slot[s][i].ent = w.slot[s][i].ent
  BY <1>1, ControlWithin
<1> HIDE DEF v
<1>3. w.slot[s][i].ent \notin w.out => Down(v, s, i)
  BY <1>2 DEF Down, Quiet
<1>q. QED
  BY <1>2, <1>3 DEF ResetSlot, v

LEMMA ByHandWithin ==
    ASSUME NEW s \in States, NEW w \in Live(s), NEW cand \in SUBSET Slots,
           NEW st \in Stages, NEW flags \in SUBSET Flags
    PROVE  /\ ByHand(w, s, cand, st, flags) \in Within(w, s)
           /\ ByHand(w, s, cand, st, flags).out = w.out
           /\ ByHand(w, s, cand, st, flags).life = w.life
           /\ ByHand(w, s, cand, st, flags).trouble = w.trouble
           /\ ByHand(w, s, cand, st, flags).ctx = w.ctx
           /\ \A j \in Slots \ cand : ByHand(w, s, cand, st, flags).slot[s][j] = w.slot[s][j]
<1> DEFINE Move(v, i) == IF i \in cand THEN Control(v, s, i, st, flags) ELSE v
           Fine == {v \in Within(w, s) :
                      /\ v.out = w.out /\ v.life = w.life /\ v.trouble = w.trouble /\ v.ctx = w.ctx
                      /\ \A j \in Slots \ cand : v.slot[s][j] = w.slot[s][j]}
           m1 == Move(w, 0)
           m2 == Move(m1, 1)
           m3 == Move(m2, 2)
<1>1. ASSUME NEW v \in Fine, NEW i \in 0..2 PROVE Move(v, i) \in Fine
  <2>1. CASE i \in cand
    <3>1. v \in Within(w, s) /\ v \in Live(s)
      BY WithinLive
    <3> DEFINE u == Control(v, s, i, st, flags)
    <3>2. /\ u \in Within(v, s) /\ u.out = v.out /\ u.life = v.life
          /\ u.trouble = v.trouble /\ u.ctx = v.ctx
          /\ \A j \in Slots \ {i} : u.slot[s][j] = v.slot[s][j]
      BY <2>1, <3>1, ControlWithin
    <3> HIDE DEF u
    <3>3. u \in Within(w, s)
      BY <3>1, <3>2, WithinStep
    <3>4. u \in Fine
      BY <2>1, <3>2, <3>3
    <3>q. QED
      BY <2>1, <3>4 DEF u
  <2>q. QED
    BY <2>1
<1>2. ByHand(w, s, cand, st, flags) = m3
  BY DEF ByHand
<1>3. w \in Fine
  BY WithinSelf
<1> HIDE DEF Move, Fine
<1>4. m1 \in Fine
  BY <1>1, <1>3
<1> HIDE DEF m1
<1>5. m2 \in Fine
  BY <1>1, <1>4
<1> HIDE DEF m2
<1>6. m3 \in Fine
  BY <1>1, <1>5
<1> HIDE DEF m3
<1>q. QED
  BY <1>2, <1>6 DEF Fine

\* The fallback of a remote owner moves only slots that wait for a deploy.
LEMMA RemoteFallbackCalm ==
    ASSUME NEW s \in States, NEW w \in Worlds, w \in Live(s), NEW ob,
           NEW c \in Contexts
    PROVE  RemoteFallback(w, s, c) \subseteq Outcomes(w, s, ob)
<1> DEFINE cand == {i \in Slots : RemoteCandidate(w, s, c, i)}
           first == {i \in cand : w.slot[s][i].pend}
           taken == IF Mode = "original" THEN BuddyUpdate(w, s)
                    ELSE {ByHand(w, s, first, "deploying", {})}
           Hand(v) == ByHand(v, s, cand, "transition", {"deployed"})
           ents(v) == {v.slot[s][i].ent : i \in cand}
           placed(v) == IF Mode = "manual" THEN {[Hand(v) EXCEPT !.out = @ \cup ents(v)]}
                        ELSE DeathRecovery(v, s)
           after == UNION {placed(v) : v \in taken}
           moved(v) == v.trouble = w.trouble /\ v.slot[s] # w.slot[s]
<1>0. cand \in SUBSET Slots /\ first \in SUBSET Slots /\ first \subseteq cand
  OBVIOUS
<1>1. /\ "deploying" \in Stages /\ "transition" \in Stages
      /\ {} \in SUBSET Flags /\ {"deployed"} \in SUBSET Flags
  BY DEF Stages, Flags
<1>2. \A i \in cand : i \in Slots /\ ~Quiet(w, s, i) /\ w.slot[s][i].ent # 0
  BY DEF RemoteCandidate, IsCustom, Quiet
<1>3. \A i \in cand : w.slot[s][i].ent \in Entities
  <2>1. \A i \in Slots : w.slot[s][i].ent \in 0..MaxEntity
    BY DEF Worlds, SlotSet
  <2>q. QED
    BY <1>2, <2>1, BoundsAssumption DEF Entities
<1>4. \A i \in cand : Quiet(w, s, ob) => w.slot[s][i].ent # w.slot[s][ob].ent
  <2>1. SUFFICES ASSUME NEW i \in cand, Quiet(w, s, ob),
                        w.slot[s][i].ent = w.slot[s][ob].ent
                 PROVE  FALSE
    OBVIOUS
  <2>2. i \in Slots /\ i # ob /\ w.slot[s][i].ent # 0
    BY <1>2, <2>1
  <2>3. ob \in Slots
    BY <2>1 DEF Quiet
  <2>q. QED
    BY <2>1, <2>2, <2>3, LiveWorld DEF Sound, Once
<1> HIDE DEF cand
<1>5. ASSUME NEW v \in Live(s), v \in Calm(w, s, ob), NEW some \in SUBSET cand,
             NEW st \in Stages, NEW flags \in SUBSET Flags
      PROVE  ByHand(v, s, some, st, flags) \in Calm(w, s, ob)
  <2> DEFINE u == ByHand(v, s, some, st, flags)
  <2>1. /\ u \in Within(v, s) /\ u.out = v.out /\ u.trouble = v.trouble
        /\ \A j \in Slots \ some : u.slot[s][j] = v.slot[s][j]
    BY <1>0, <1>5, ByHandWithin
  <2> HIDE DEF u
  <2>2. v \in Within(w, s)
    BY <1>5, CalmKept
  <2>3. u \in Within(w, s)
    BY <2>1, <2>2, WithinStep
  <2>4. CASE Quiet(w, s, ob)
    <3>1. ob \notin some
      BY <1>2, <2>4
    <3>2. u.slot[s][ob] = v.slot[s][ob]
      BY <2>1, <2>4, <3>1 DEF Quiet
    <3>3. /\ Quiet(v, s, ob) => Quiet(u, s, ob)
          /\ Down(v, s, ob) => Down(u, s, ob)
          /\ Hidden(v, s, ob) => Hidden(u, s, ob)
      BY <2>1, <3>2 DEF Quiet, Down, Hidden
    <3>4. u \in Calm(v, s, ob)
      BY <2>1, <3>3 DEF Calm, Steady
    <3>q. QED
      BY <1>5, <3>4, CalmStep DEF u
  <2>5. CASE ~Quiet(w, s, ob)
    BY <2>3, <2>5, LooseCalm DEF u
  <2>q. QED
    BY <2>4, <2>5
<1>6. taken \subseteq Calm(w, s, ob)
  <2>1. ByHand(w, s, first, "deploying", {}) \in Calm(w, s, ob)
    <3> HIDE DEF first
    <3>q. QED
      BY <1>0, <1>1, <1>5, CalmSelf
  <2>q. QED
    BY <2>1, NativesCalm
<1>7. ASSUME NEW v \in Calm(w, s, ob) PROVE placed(v) \subseteq Calm(w, s, ob)
  <2>1. v \in Worlds /\ v \in Live(s) /\ v \in Kept(w)
    BY CalmLive, CalmKept
  <2> DEFINE h == Hand(v)
             o == h.out \cup ents(v)
             u == [h EXCEPT !.out = o]
  <2>2. h \in Calm(w, s, ob)
    BY <1>1, <1>5, <2>1
  <2>3. \A i \in Slots : v.slot[s][i].ent = w.slot[s][i].ent
    BY <2>1 DEF Kept
  <2>4. ents(v) \in SUBSET Entities
    BY <1>0, <1>3, <2>3
  <2>5. Quiet(w, s, ob) => w.slot[s][ob].ent \notin ents(v)
    BY <1>0, <1>4, <2>3
  <2> HIDE DEF Hand, h, ents
  <2>6. h \in Worlds /\ h \in Live(s) /\ h \in Within(w, s)
    BY <2>2, CalmLive, CalmKept
  <2>7. o \in SUBSET Entities
    BY <2>4, <2>6 DEF Worlds
  <2>8. u \in Kept(h)
    BY <2>6, <2>7, FieldWrite
  <2>9. /\ u.last = h.last /\ u.trouble = h.trouble /\ u.life = h.life /\ u.ctx = h.ctx
        /\ u.out = o /\ u.slot = h.slot
    BY <2>6 DEF Worlds
  <2>10. h.trouble \in Nat /\ \A e \in Entities : h.life[e] \in Int
    BY <2>6 DEF Worlds
  <2>11. Quiet(w, s, ob) => h.slot[s][ob].ent = w.slot[s][ob].ent
    BY <2>6 DEF Within, Kept, Quiet
  <2> HIDE DEF u
  <2>12. u \in Within(h, s)
    BY <2>8, <2>9, <2>10 DEF Within
  <2>13. u \in Within(w, s)
    BY <2>6, <2>12, WithinStep
  <2>14. ASSUME Quiet(w, s, ob) PROVE u \in Calm(w, s, ob)
    <3>1. /\ Quiet(h, s, ob) => Quiet(u, s, ob)
          /\ Down(h, s, ob) => Down(u, s, ob)
          /\ Hidden(h, s, ob) => Hidden(u, s, ob)
      BY <2>5, <2>9, <2>11, <2>14 DEF Quiet, Down, Hidden
    <3>2. u \in Calm(h, s, ob)
      BY <2>12, <3>1 DEF Calm, Steady
    <3>q. QED
      BY <2>2, <3>2, CalmStep
  <2>15. ASSUME ~Quiet(w, s, ob) PROVE u \in Calm(w, s, ob)
    BY <2>13, <2>15, LooseCalm
  <2>16. u \in Calm(w, s, ob)
    BY <2>14, <2>15
  <2>17. [Hand(v) EXCEPT !.out = @ \cup ents(v)] = u
    BY DEF h, u
  <2>18. DeathRecovery(v, s) \subseteq Calm(v, s, ob)
    BY <2>1, NativesCalm
  <2>19. DeathRecovery(v, s) \subseteq Calm(w, s, ob)
    BY <2>18, CalmStep
  <2>q. QED
    BY <2>16, <2>17, <2>19
<1>8. RemoteFallback(w, s, c) =
        IF cand = {} THEN {Pass(w)} ELSE {[w |-> v, done |-> moved(v)] : v \in after}
  BY DEF RemoteFallback, cand
<1> HIDE DEF taken, placed
<1>9. after \subseteq Calm(w, s, ob)
  BY <1>6, <1>7
<1> HIDE DEF after
<1>10. ASSUME NEW v \in after PROVE [w |-> v, done |-> moved(v)] \in Outcomes(w, s, ob)
  BY <1>9 DEF Outcomes
<1>11. Pass(w) \in Outcomes(w, s, ob)
  BY CalmSelf, OutcomesOf
<1>q. QED
  BY <1>8, <1>10, <1>11

LEMMA ExpiredCalm ==
    ASSUME NEW s \in States, NEW w \in Worlds, w \in Live(s), NEW ob
    PROVE  Expired(w) \subseteq Calm(w, s, ob)
<1>1. w.cmds \in [Places -> Commands \cup {NoCommand}]
  BY DEF Worlds
<1>2. {w.cmds[p] : p \in Places} \cup {NoCommand} \subseteq Commands \cup {NoCommand}
  BY <1>1
<1>3. ASSUME NEW q \in [Places -> {w.cmds[p] : p \in Places} \cup {NoCommand}]
      PROVE  [w EXCEPT !.cmds = q] \in Calm(w, s, ob)
  <2>1. q \in [Places -> Commands \cup {NoCommand}]
    BY <1>2
  <2>q. QED
    BY <2>1, FieldCalm
<1>q. QED
  BY <1>3 DEF Expired

LEMMA ForceUnsummonCalm ==
    ASSUME NEW s \in States, NEW w \in Worlds, w \in Live(s), NEW ob, NEW c \in Contexts,
           NEW i \in Slots,
           i # ob
    PROVE  /\ ForceUnsummon(w, s, c, i, TRUE) \subseteq Outcomes(w, s, ob)
           /\ ForceUnsummon(w, s, c, i, FALSE) \subseteq Outcomes(w, s, ob)
<1> DEFINE sl == w.slot[s][i]
           shaped == IF sl.st = "removed"
                        \/ (sl.st = "active" /\ sl.pend /\ "unsummon" \in sl.flags)
                        \/ (sl.st = "transition" /\ "summon" \in sl.flags)
                     THEN ShapeForUnsummon(w, s, i) ELSE w
           gone == NativeUnsummon(shaped, sl.ent)
           hidden == StopRecall(gone, c, i)
           again == ShapeForResummon(hidden, s, i)
           back == ResetSlot(hidden, s, i)
<1>1. shaped \in Calm(w, s, ob)
  BY ShapesCalm, CalmSelf
<1>2. gone \in Calm(w, s, ob)
  <2> HIDE DEF shaped
  <2>1. gone \in Calm(shaped, s, ob)
    BY <1>1, CalmLive, UnsummonCalm
  <2>q. QED
    BY <1>1, <2>1, CalmStep
<1>3. hidden \in Calm(w, s, ob)
  <2> HIDE DEF gone
  <2>1. hidden \in Calm(gone, s, ob)
    BY <1>2, CalmLive, StopsCalm
  <2>q. QED
    BY <1>2, <2>1, CalmStep
<1>4. again \in Calm(w, s, ob) /\ back \in Calm(w, s, ob)
  <2> HIDE DEF hidden
  <2>1. again \in Calm(hidden, s, ob) /\ back \in Calm(hidden, s, ob)
    BY <1>3, CalmLive, ShapesCalm
  <2> HIDE DEF again, back
  <2>q. QED
    BY <1>3, <2>1, CalmStep
<1>5. ASSUME NEW v \in Raised(shaped) PROVE Pass(v) \in Outcomes(w, s, ob)
  <2> HIDE DEF shaped
  <2>1. v \in Calm(shaped, s, ob)
    BY <1>1, CalmLive, RaisedCalm
  <2>2. v \in Calm(w, s, ob)
    BY <1>1, <2>1, CalmStep
  <2>q. QED
    BY <2>2, OutcomesOf
<1>6. ASSUME NEW v \in BuddyUpdate(again, s) PROVE Done(v) \in Outcomes(w, s, ob)
  <2> HIDE DEF again
  <2>1. v \in Calm(again, s, ob)
    BY <1>4, CalmLive, NativesCalm
  <2>2. v \in Calm(w, s, ob)
    BY <1>4, <2>1, CalmStep
  <2>q. QED
    BY <2>2, OutcomesOf
<1>7. Done(back) \in Outcomes(w, s, ob) /\ Pass(w) \in Outcomes(w, s, ob)
  <2> HIDE DEF back
  <2>q. QED
    BY <1>4, CalmSelf, OutcomesOf
<1>8. ForceUnsummon(w, s, c, i, TRUE) =
        IF ~IsCustom(w, c, i, sl) \/ ~Forced(sl, "summon") THEN {Pass(w)}
        ELSE {Pass(v) : v \in Raised(shaped)} \cup {Done(v) : v \in BuddyUpdate(again, s)}
  BY DEF ForceUnsummon
<1>9. ForceUnsummon(w, s, c, i, FALSE) =
        IF ~IsCustom(w, c, i, sl) \/ ~Forced(sl, "unsummon") THEN {Pass(w)}
        ELSE {Pass(v) : v \in Raised(shaped)} \cup {Done(back)}
  BY DEF ForceUnsummon
<1> HIDE DEF sl, shaped, gone, hidden, again, back
<1>10. ForceUnsummon(w, s, c, i, TRUE) \subseteq Outcomes(w, s, ob)
  BY <1>5, <1>6, <1>7, <1>8
<1>11. ForceUnsummon(w, s, c, i, FALSE) \subseteq Outcomes(w, s, ob)
  BY <1>5, <1>7, <1>9
<1>q. QED
  BY <1>10, <1>11

\* What the writes of the DLL around a removal leave alone.
LEMMA StopsLeave ==
    ASSUME NEW w \in Worlds, NEW c \in Contexts, NEW i \in Slots, NEW snap
    PROVE  /\ StopRecall(w, c, i).out = w.out /\ StopRecall(w, c, i).slot = w.slot
           /\ StopStuck(w, c, i).out = w.out /\ StopStuck(w, c, i).slot = w.slot
           /\ StopRepair(w, c, i).out = w.out /\ StopRepair(w, c, i).slot = w.slot
           /\ StopZero(w, c, i, snap).out = w.out
<1>1. StopZero(w, c, i, snap).out = w.out
  <2> DEFINE v == [w EXCEPT !.ctx[c].zero[i] = NoZero]
  <2>1. v.out = w.out /\ SetGate(v, w.last, i, snap, FALSE).out = w.out
    BY DEF Worlds, SetGate
  <2> HIDE DEF v
  <2>2. StopZero(w, c, i, snap) \in {w, v, SetGate(v, w.last, i, snap, FALSE)}
    BY DEF StopZero, v
  <2>q. QED
    BY <2>1, <2>2
<1>q. QED
  BY <1>1 DEF StopRecall, StopStuck, StopRepair, Worlds

LEMMA CommandedOwn ==
    ASSUME NEW s \in States, NEW w \in Live(s), NEW c \in Contexts, NEW cmd \in Commands
    PROVE  Commanded(w, s, c, cmd) \subseteq Calm(w, s, cmd.slot)
<1> DEFINE i == cmd.slot
           shaped == ShapeForUnsummon(w, s, i)
           sl == shaped.slot[s][i]
           gone == NativeUnsummon(shaped, sl.ent)
           hidden == StopRecall(gone, c, i)
           back == ResetSlot(hidden, s, i)
           End(r) == IF r.done THEN StopRepair(StopStuck(r.w, c, i), c, i) ELSE r.w
<1>0. i \in Slots /\ w \in Worlds
  BY LiveWorld DEF Commands
<1>1. Commanded(w, s, c, cmd) =
        IF Side(w, s) = "local" \/ w.slot[s][i].ent # cmd.ent
             \/ ~IsCustom(w, c, i, w.slot[s][i])
        THEN {w} ELSE {End(r) : r \in ForceUnsummon(shaped, s, c, i, FALSE)}
  BY DEF Commanded
<1> HIDE DEF i, End
<1>2. /\ shaped \in Within(w, s) /\ shaped.trouble = w.trouble
      /\ sl.st = "transition" /\ sl.flags = {"unsummon", "deployed"}
      /\ sl.ent = w.slot[s][i].ent /\ shaped.ctx = w.ctx
  <2>1. "transition" \in Stages /\ {"unsummon", "deployed"} \in SUBSET Flags
    BY DEF Stages, Flags
  <2>q. QED
    BY <1>0, <2>1, ControlWithin DEF ShapeForUnsummon
<1> HIDE DEF shaped
<1>3. shaped \in Live(s) /\ shaped \in Worlds
  BY <1>2, WithinLive
<1>4. ASSUME IsCustom(w, c, i, w.slot[s][i])
      PROVE  ForceUnsummon(shaped, s, c, i, FALSE) =
                {Pass(v) : v \in Raised(shaped)} \cup {Done(back)}
  <2>1. ~(\/ sl.st = "removed" \/ (sl.st = "active" /\ sl.pend /\ "unsummon" \in sl.flags)
          \/ (sl.st = "transition" /\ "summon" \in sl.flags))
    BY <1>2
  <2>2. Forced(sl, "unsummon") /\ IsCustom(shaped, c, i, sl)
    BY <1>2, <1>4 DEF Forced, IsCustom
  <2>3. ForceUnsummon(shaped, s, c, i, FALSE) =
           IF ~IsCustom(shaped, c, i, sl) \/ ~Forced(sl, "unsummon") THEN {Pass(shaped)}
           ELSE {Pass(v) : v \in Raised(shaped)} \cup {Done(back)}
    BY <2>1 DEF ForceUnsummon
  <2>q. QED
    BY <2>2, <2>3
<1>5. ASSUME NEW v \in Raised(shaped) PROVE End(Pass(v)) \in Calm(w, s, i)
  <2>1. v \in Calm(shaped, s, i) /\ v.trouble > shaped.trouble
    BY <1>0, <1>3, <1>5, RaisedCalm
  <2>2. v \in Within(w, s)
    BY <1>2, <2>1, CalmKept, WithinStep
  <2>3. v.trouble # w.trouble
    BY <1>0, <1>2, <2>1 DEF Worlds
  <2>4. v \in Calm(w, s, i)
    BY <2>2, <2>3, DownCalm
  <2>q. QED
    BY <2>4 DEF End, Pass
<1>6. hidden \in Within(w, s) /\ hidden.slot[s][i].ent \notin hidden.out
  <2>1. gone \in Calm(shaped, s, i) /\ gone.out = shaped.out \ {sl.ent}
        /\ gone.slot = shaped.slot
    BY <1>0, <1>3, UnsummonCalm DEF NativeUnsummon, Worlds
  <2> HIDE DEF gone
  <2>2. gone \in Live(s) /\ gone \in Worlds
    BY <1>3, <2>1, CalmLive
  <2>3. hidden \in Calm(gone, s, i) /\ hidden.out = gone.out /\ hidden.slot = gone.slot
    BY <1>0, <2>2, StopsCalm, StopsLeave
  <2> HIDE DEF hidden
  <2>4. gone \in Within(w, s)
    BY <1>2, <2>1, CalmKept, WithinStep
  <2>5. hidden \in Within(w, s)
    BY <2>3, <2>4, CalmKept, WithinStep
  <2>q. QED
    BY <2>1, <2>3, <2>5
<1> HIDE DEF hidden
<1>7. back \in Within(w, s) /\ Down(back, s, i)
  <2>1. hidden \in Live(s)
    BY <1>6, WithinLive
  <2>2. back \in Within(hidden, s) /\ Down(back, s, i)
    BY <1>0, <1>6, <2>1, ResetDown
  <2>q. QED
    BY <1>6, <2>2, WithinStep
<1> HIDE DEF back
<1>8. End(Done(back)) \in Calm(w, s, i)
  <2> DEFINE x == StopStuck(back, c, i)
  <2>1. back \in Calm(w, s, i)
    BY <1>7, DownCalm
  <2>2. back \in Live(s) /\ back \in Worlds
    BY <2>1, CalmLive
  <2>3. x \in Calm(back, s, i)
    BY <1>0, <2>2, StopsCalm
  <2>4. x \in Live(s) /\ x \in Worlds
    BY <2>2, <2>3, CalmLive
  <2>5. x \in Calm(w, s, i)
    BY <2>1, <2>3, CalmStep
  <2> HIDE DEF x
  <2>6. StopRepair(x, c, i) \in Calm(x, s, i)
    BY <1>0, <2>4, StopsCalm
  <2>7. StopRepair(x, c, i) \in Calm(w, s, i)
    BY <2>5, <2>6, CalmStep
  <2>8. End(Done(back)) = StopRepair(x, c, i)
    BY DEF End, Done, x
  <2>q. QED
    BY <2>7, <2>8
<1>9. w \in Calm(w, s, i)
  BY CalmSelf
<1>q. QED
  BY <1>1, <1>4, <1>5, <1>8, <1>9 DEF i

LEMMA CommandedCalm ==
    ASSUME NEW s \in States, NEW w \in Worlds, w \in Live(s), NEW ob, NEW c \in Contexts,
           NEW cmd \in Commands,
           cmd.slot # ob
    PROVE  Commanded(w, s, c, cmd) \subseteq Calm(w, s, ob)
<1> DEFINE i == cmd.slot
           shaped == ShapeForUnsummon(w, s, i)
           End(r) == IF r.done THEN StopRepair(StopStuck(r.w, c, i), c, i) ELSE r.w
<1>0. i \in Slots /\ i # ob
  BY DEF Commands
<1>1. shaped \in Calm(w, s, ob)
  BY <1>0, ShapesCalm
<1>2. Commanded(w, s, c, cmd) \subseteq
        {w} \cup {End(r) : r \in ForceUnsummon(shaped, s, c, i, FALSE)}
  BY DEF Commanded
<1> HIDE DEF shaped, i
<1>3. ASSUME NEW r \in ForceUnsummon(shaped, s, c, i, FALSE) PROVE End(r) \in Calm(w, s, ob)
  <2>1. r \in Outcomes(shaped, s, ob)
    BY <1>0, <1>1, CalmLive, ForceUnsummonCalm
  <2>2. r.w \in Calm(w, s, ob)
    BY <1>1, <2>1, OutcomesStep DEF Outcomes
  <2> DEFINE x == StopStuck(r.w, c, i)
  <2>3. x \in Calm(r.w, s, ob)
    BY <1>0, <2>2, CalmLive, StopsCalm
  <2>4. x \in Calm(w, s, ob)
    BY <2>2, <2>3, CalmStep
  <2> HIDE DEF x
  <2>5. StopRepair(x, c, i) \in Calm(x, s, ob)
    BY <1>0, <2>4, CalmLive, StopsCalm
  <2>6. StopRepair(x, c, i) \in Calm(w, s, ob)
    BY <2>4, <2>5, CalmStep
  <2>q. QED
    BY <2>2, <2>6 DEF x
<1> HIDE DEF End
<1>q. QED
  BY <1>2, <1>3, CalmSelf

LEMMA CommandedAll ==
    ASSUME NEW s \in States, NEW w \in Worlds, w \in Live(s), NEW ob,
           NEW c \in Contexts, NEW cmd \in Commands
    PROVE  Commanded(w, s, c, cmd) \subseteq Calm(w, s, ob)
BY CommandedOwn, CommandedCalm

LEMMA ClaimedCalm ==
    ASSUME NEW s \in States, NEW w \in Worlds, w \in Live(s), NEW ob, NEW c \in Contexts
    PROVE  Claimed(w, s, c) \subseteq Calm(w, s, ob)
<1> DEFINE mine == {p \in Places : w.cmds[p].state = s}
           p == Min(mine)
           v == [w EXCEPT !.cmds[p] = NoCommand]
<1>1. CASE mine = {}
  BY <1>1, CalmSelf DEF Claimed
<1>2. CASE mine # {}
  <2>1. mine \in SUBSET Nat
    BY BoundsAssumption DEF Places
  <2>2. p \in mine
    BY <1>2, <2>1, MinFacts
  <2>3. Claimed(w, s, c) = Commanded(v, s, c, w.cmds[p])
    BY <1>2 DEF Claimed
  <2> HIDE DEF p
  <2>4. w.cmds \in [Places -> Commands \cup {NoCommand}]
    BY DEF Worlds
  <2>5. w.cmds[p] \in Commands
    <3>1. NoCommand.state # s
      BY StatesAssumption DEF NoCommand, None
    <3>q. QED
      BY <2>2, <2>4, <3>1
  <2>6. v \in Calm(w, s, ob)
    <3> DEFINE q == [w.cmds EXCEPT ![p] = NoCommand]
    <3>1. q \in [Places -> Commands \cup {NoCommand}]
      BY <2>4
    <3>2. v = [w EXCEPT !.cmds = q]
      OBVIOUS
    <3> HIDE DEF q
    <3>q. QED
      BY <3>1, <3>2, FieldCalm
  <2> HIDE DEF v
  <2>7. Commanded(v, s, c, w.cmds[p]) \subseteq Calm(v, s, ob)
    BY <2>5, <2>6, CalmLive, CommandedAll
  <2>q. QED
    BY <2>3, <2>6, <2>7, CalmStep
<1>q. QED
  BY <1>1, <1>2

LEMMA RecallCommandsCalm ==
    ASSUME NEW s \in States, NEW w \in Worlds, w \in Live(s), NEW ob, NEW c \in Contexts
    PROVE  RecallCommands(w, s, c) \subseteq Calm(w, s, ob)
<1> DEFINE Next1(ws) == UNION {Claimed(v, s, c) : v \in ws}
           n1 == Next1(Expired(w))
           n2 == Next1(n1)
           n3 == Next1(n2)
<1>1. ASSUME NEW ws \in SUBSET Calm(w, s, ob) PROVE Next1(ws) \subseteq Calm(w, s, ob)
  <2>1. ASSUME NEW v \in ws PROVE Claimed(v, s, c) \subseteq Calm(w, s, ob)
    <3>1. v \in Calm(w, s, ob) /\ v \in Worlds /\ v \in Live(s)
      BY CalmLive
    <3>2. Claimed(v, s, c) \subseteq Calm(v, s, ob)
      BY <3>1, ClaimedCalm
    <3>q. QED
      BY <3>1, <3>2, CalmStep
  <2>q. QED
    BY <2>1
<1>2. RecallCommands(w, s, c) \subseteq {w} \cup n3
  BY DEF RecallCommands
<1> HIDE DEF Next1
<1>3. n1 \subseteq Calm(w, s, ob)
  BY <1>1, ExpiredCalm
<1> HIDE DEF n1
<1>4. n2 \subseteq Calm(w, s, ob)
  BY <1>1, <1>3
<1> HIDE DEF n2
<1>5. n3 \subseteq Calm(w, s, ob)
  BY <1>1, <1>4
<1>q. QED
  BY <1>2, <1>5, CalmSelf

-----------------------------------------------------------------------------
(* The upkeep of a slot the game takes back. *)

\* Unless a native call has raised, slot i is hidden.
Hiding(w, s, i) == {v \in Within(w, s) : v.trouble = w.trouble => Hidden(v, s, i)}

LEMMA HidingStep ==
    ASSUME NEW s, NEW i, NEW w \in Live(s), NEW v \in Hiding(w, s, i),
           NEW u \in Calm(v, s, i)
    PROVE  u \in Hiding(w, s, i)
<1>1. v \in Within(w, s) /\ u \in Within(v, s)
  BY CalmKept DEF Hiding
<1>2. u \in Within(w, s) /\ (u.trouble = w.trouble => v.trouble = w.trouble /\ u.trouble = v.trouble)
  BY <1>1, WithinStep
<1>q. QED
  BY <1>2 DEF Hiding, Calm

\* Health does not fall below one in a hundred while no native call has raised.
LEMMA PercentGrows ==
    ASSUME NEW s, NEW w \in Live(s), NEW v \in Within(w, s), v.trouble = w.trouble,
           NEW x, NEW y, y.ent = x.ent, x.ent \in 0..MaxEntity, Percent(w, x) > 0
    PROVE  Percent(v, y) > 0
<1>1. CASE x.ent = 0
  BY <1>1 DEF Percent, Hp
<1>2. CASE x.ent # 0
  <2>1. x.ent \in Entities
    BY <1>2, BoundsAssumption DEF Entities
  <2>2. w.life[x.ent] \in Int /\ v.life[x.ent] \in Int
    BY <2>1, LiveWorld, WithinLive DEF Worlds
  <2>3. w.life[x.ent] <= v.life[x.ent]
    BY <2>1 DEF Within
  <2>q. QED
    BY <1>2, <2>2, <2>3, RateGrows DEF Percent, Hp
<1>q. QED
  BY <1>1, <1>2

\* StartPostRecallPulse takes a living custom buddy that is back out of the world.
LEMMA PulseHides ==
    ASSUME NEW s \in States, NEW w \in Live(s), NEW u \in Within(w, s), NEW c \in Contexts,
           NEW i \in Slots, u.slot[s][i].st = "active", ~u.slot[s][i].pend,
           IsCustom(u, c, i, u.slot[s][i]),
           u.trouble = w.trouble => Percent(u, u.slot[s][i]) > 0,
           NEW r \in PostRecall(u, s, c, i, u.slot[s][i])
    PROVE  r.w \in Hiding(w, s, i)
<1> DEFINE sl == u.slot[s][i]
           gone == NativeUnsummon(u, sl.ent)
<1>0. u \in Live(s) /\ u \in Worlds
  BY WithinLive
<1>1. CASE Percent(u, sl) <= 0
  <2>1. r = Pass(u)
    BY <1>1 DEF PostRecall
  <2>2. u.trouble # w.trouble
    <3>1. Hp(u, sl) \in Int
      <4>1. sl.ent \in 0..MaxEntity
        BY <1>0 DEF Worlds, SlotSet
      <4>q. QED
        BY <1>0, <4>1, BoundsAssumption DEF Hp, Worlds, Entities, Gone
    <3>2. Percent(u, sl) \in Int
      BY <3>1, BoundsAssumption DEF Percent, Rate
    <3>q. QED
      BY <1>1, <3>2
  <2>q. QED
    BY <2>1, <2>2 DEF Hiding, Pass
<1>2. CASE r = Done(ResetSlot(gone, s, i))
  <2>1. gone \in Calm(u, s, i) /\ gone.out = u.out \ {sl.ent} /\ gone.slot = u.slot
    BY <1>0, UnsummonCalm DEF NativeUnsummon, Worlds
  <2> HIDE DEF gone
  <2>2. gone \in Within(u, s) /\ gone \in Live(s)
    BY <1>0, <2>1, CalmKept, CalmLive
  <2> DEFINE x == ResetSlot(gone, s, i)
  <2>3. x \in Within(gone, s) /\ Down(x, s, i)
    BY <2>1, <2>2, ResetDown
  <2> HIDE DEF x
  <2>4. x \in Within(u, s)
    BY <1>0, <2>2, <2>3, WithinStep
  <2>5. x \in Within(w, s)
    BY <2>4, WithinStep
  <2>6. r.w = x
    BY <1>2 DEF Done, x
  <2>q. QED
    BY <2>3, <2>5, <2>6 DEF Hiding, Down, Hidden
<1>3. CASE \E v \in Raised(u) : r = Pass(ResetSlot(v, s, i))
  <2>1. PICK v \in Raised(u) : r = Pass(ResetSlot(v, s, i))
    BY <1>3
  <2>2. v \in Within(u, s) /\ v \in Live(s) /\ v.trouble > u.trouble
    BY <1>0, RaisedCalm, CalmKept, CalmLive
  <2> DEFINE x == ResetSlot(v, s, i)
  <2>3. x \in Within(v, s) /\ x.trouble = v.trouble
    BY <2>2, ResetDown
  <2>4. r.w = x
    BY <2>1 DEF Pass
  <2> HIDE DEF x
  <2>5. x \in Within(u, s)
    BY <1>0, <2>2, <2>3, WithinStep
  <2>6. x \in Within(w, s)
    BY <2>5, WithinStep
  <2>7. u.trouble \in Nat /\ w.trouble \in Nat /\ v.trouble \in Nat /\ w.trouble <= u.trouble
    BY <1>0, <2>2, LiveWorld DEF Worlds, Within
  <2>8. x.trouble # w.trouble
    BY <2>2, <2>3, <2>7
  <2>q. QED
    BY <2>4, <2>6, <2>8 DEF Hiding
<1>4. ASSUME ~(Percent(u, sl) <= 0)
      PROVE  r \in {Done(ResetSlot(gone, s, i))}
                   \cup {Pass(ResetSlot(v, s, i)) : v \in Raised(u)}
  BY <1>4 DEF PostRecall
<1>q. QED
  BY <1>1, <1>2, <1>3, <1>4

\* The step that frees a slot stuck in its removal recalls the buddy again.
LEMMA StuckHides ==
    ASSUME NEW s \in States, NEW w \in Live(s), NEW c \in Contexts, NEW i \in Slots,
           NEW v \in Hiding(w, s, i), NEW snap, snap = w.slot[s][i],
           snap.st \in {"active", "removing"}, ~snap.pend,
           IsCustom(w, c, i, snap), Percent(w, snap) > 0,
           NEW r \in Stuck(v, s, c, i, snap)
    PROVE  r.w \in Hiding(w, s, i)
<1> DEFINE k == v.ctx[c].stuck[i]
           begun == [v EXCEPT !.ctx[c].stuck[i] = [watch |-> TRUE, ent |-> snap.ent, age |-> 0]]
           flags == IF Rate(Hp(v, snap)) >= Half THEN {} ELSE {"gate"}
           calm == StopRecall(v, c, i)
           stopped == StopZero(calm, c, i, snap)
           loose == Control(stopped, s, i, "active", flags)
           freed == StopStuck(loose, c, i)
<1>0. v \in Within(w, s) /\ v \in Live(s) /\ v \in Worlds /\ w \in Worlds
  BY LiveWorld, WithinLive DEF Hiding
<1>1. snap \in SlotSet
  BY <1>0 DEF Worlds
<1>2. begun \in Calm(v, s, i) /\ StopStuck(v, c, i) \in Calm(v, s, i) /\ v \in Calm(v, s, i)
  <2>1. [watch |-> TRUE, ent |-> snap.ent, age |-> 0] \in Stucks
    BY <1>1 DEF Stucks, SlotSet
  <2>2. begun \in Calm(v, s, i)
    BY <1>0, <2>1, MemberCalm
  <2>q. QED
    BY <1>0, <2>2, StopsCalm, CalmSelf
<1>3. \A x \in {begun, StopStuck(v, c, i), v} : x \in Hiding(w, s, i)
  BY <1>2, HidingStep
<1>4. \/ r \in {Pass(StopStuck(v, c, i)), Pass(begun), Pass(v)}
      \/ Percent(v, snap) > 0 /\ \E q \in PostRecall(freed, s, c, i, freed.slot[s][i]) : r = Done(q.w)
      \/ ~(Percent(v, snap) > 0) /\ r = Done(freed)
  BY DEF Stuck
<1> HIDE DEF begun, flags, k
<1>5. flags \in SUBSET Flags /\ "active" \in Stages
  BY DEF flags, Flags, Stages
<1>6. stopped \in Within(v, s) /\ stopped \in Live(s)
  <2>1. calm \in Calm(v, s, i) /\ calm \in Live(s) /\ calm \in Worlds
    BY <1>0, StopsCalm, CalmLive
  <2> HIDE DEF calm
  <2>2. stopped \in Calm(calm, s, i)
    BY <1>1, <2>1, StopZeroCalm
  <2>3. stopped \in Calm(v, s, i)
    BY <1>0, <2>1, <2>2, CalmStep
  <2>q. QED
    BY <1>0, <2>3, CalmLive, CalmKept
<1> HIDE DEF stopped
<1>7. loose \in Within(v, s) /\ loose \in Live(s) /\ loose \in Worlds
      /\ loose.slot[s][i].st = "active" /\ ~loose.slot[s][i].pend
  <2>1. loose \in Within(stopped, s) /\ loose.slot[s][i].st = "active" /\ ~loose.slot[s][i].pend
    BY <1>5, <1>6, ControlWithin
  <2> HIDE DEF loose
  <2>q. QED
    BY <1>0, <1>6, <2>1, WithinStep, WithinLive
<1> HIDE DEF loose
<1>8. freed \in Within(v, s) /\ freed.slot[s][i].st = "active" /\ ~freed.slot[s][i].pend
  <2>1. freed \in Calm(loose, s, i) /\ freed.slot = loose.slot
    BY <1>7, StopsCalm, StopsLeave
  <2> HIDE DEF freed
  <2>q. QED
    BY <1>0, <1>7, <2>1, CalmKept, WithinStep
<1> HIDE DEF freed
<1>9. freed \in Within(w, s) /\ (freed.trouble = w.trouble => v.trouble = w.trouble)
  BY <1>0, <1>8, WithinStep
<1>10. freed.slot[s][i].ent = snap.ent /\ snap.ent \in 0..MaxEntity
  BY <1>1, <1>9 DEF Within, Kept, SlotSet
<1>11. IsCustom(freed, c, i, freed.slot[s][i])
  BY <1>9, <1>10 DEF Within, Kept, IsCustom
<1>12. freed.trouble = w.trouble => Percent(freed, freed.slot[s][i]) > 0
  BY <1>9, <1>10, PercentGrows
<1>13. \A q \in PostRecall(freed, s, c, i, freed.slot[s][i]) : q.w \in Hiding(w, s, i)
  BY <1>8, <1>9, <1>11, <1>12, PulseHides
<1>14. ~(Percent(v, snap) > 0) => freed.trouble # w.trouble
  BY <1>0, <1>9, <1>10, PercentGrows
<1>15. ~(Percent(v, snap) > 0) => freed \in Hiding(w, s, i)
  BY <1>9, <1>14 DEF Hiding
<1>q. QED
  BY <1>3, <1>4, <1>13, <1>15 DEF Done, Pass

\* The upkeep of a slot that was leaving when the update began: its living custom
\* buddy is out of the world once the slot is back.
LEMMA UpkeepHides ==
    ASSUME NEW s \in States, NEW w \in Live(s), NEW c \in Contexts, NEW i \in Slots,
           NEW before, before[i].st = "removing", Quiet(w, s, i),
           IsCustom(w, c, i, w.slot[s][i]), Percent(w, w.slot[s][i]) > 0
    PROVE  Upkeep(w, s, c, i, before) \subseteq Hiding(w, s, i)
<1> DEFINE snap == w.slot[s][i]
           G == Hiding(w, s, i)
           R == [w : G, done : BOOLEAN]
           first == UNION {IF before[i].st = "removing" THEN PostRecall(v, s, c, i, snap)
                           ELSE {Pass(v)} : v \in Ensured(w, c, i, snap)}
           s2 == Handled(first) \cup UNION {Repair(v, s, c, i, snap) : v \in Open(first)}
           s3 == Handled(s2) \cup UNION {Stuck(v, s, c, i, snap) : v \in Open(s2)}
           Fourth(v) == IF Side(v, s) = "local" THEN Zero(v, s, c, i, snap) ELSE {Pass(v)}
           s4 == Handled(s3) \cup UNION {Fourth(v) : v \in Open(s3)}
           Fifth(v) == IF Side(v, s) = "local" THEN Recall(v, c, i, snap) ELSE {v}
<1>0. w \in Worlds /\ snap \in SlotSet
  BY LiveWorld DEF Worlds
<1>1. snap.st \in {"active", "removing"} /\ ~snap.pend
  BY DEF Quiet
<1>2. Upkeep(w, s, c, i, before)
        = {r.w : r \in Handled(s4)} \cup UNION {Fifth(v) : v \in Open(s4)}
  BY DEF Upkeep
<1>3. first = PostRecall(w, s, c, i, snap)
  <2>1. Ensured(w, c, i, snap) = {w}
    BY <1>1 DEF Ensured
  <2>q. QED
    BY <2>1
<1>4. first \subseteq R
  <2>1. ASSUME NEW r \in PostRecall(w, s, c, i, snap) PROVE r \in R
    <3>1. r \in Results(w)
      BY <1>0, PostRecallKept
    <3>2. CASE snap.st = "active"
      <4>1. r.w \in G
        BY <1>1, <2>1, <3>2, WithinSelf, PulseHides
      <4>q. QED
        BY <3>1, <4>1 DEF Results
    <3>3. CASE snap.st = "removing"
      <4>1. r = Pass(w)
        BY <2>1, <3>3 DEF PostRecall
      <4>2. w \in G
        BY <3>3, WithinSelf DEF Hiding, Hidden
      <4>q. QED
        BY <4>1, <4>2 DEF Pass
    <3>q. QED
      BY <1>1, <3>2, <3>3
  <2>q. QED
    BY <1>3, <2>1
<1> HIDE DEF first
<1>5. ASSUME NEW v \in G
      PROVE  /\ Repair(v, s, c, i, snap) \subseteq R
             /\ Stuck(v, s, c, i, snap) \subseteq R
             /\ Fourth(v) \subseteq R /\ Fifth(v) \subseteq G
  <2>1. v \in Live(s) /\ v \in Worlds
    BY WithinLive DEF Hiding
  <2>2. Repair(v, s, c, i, snap) \subseteq R
    <3>1. Repair(v, s, c, i, snap) = {Pass(StopRepair(v, c, i))}
      BY <1>1 DEF Repair, Stalled
    <3>2. StopRepair(v, c, i) \in G
      BY <2>1, StopsCalm, HidingStep
    <3>q. QED
      BY <3>1, <3>2 DEF Pass
  <2>3. ASSUME NEW r \in Stuck(v, s, c, i, snap) PROVE r \in R
    <3>1. r.w \in G
      BY <1>1, StuckHides
    <3>2. r \in Results(v)
      BY <1>0, <2>1, StuckKept
    <3>q. QED
      BY <3>1, <3>2 DEF Results
  <2>4. Zero(v, s, c, i, snap) \subseteq Outcomes(v, s, i)
        /\ Recall(v, c, i, snap) \subseteq Calm(v, s, i)
    BY <1>0, <2>1, ZeroCalm, RecallCalm
  <2>5. Zero(v, s, c, i, snap) \subseteq R
    BY <2>4, HidingStep DEF Outcomes
  <2>6. Recall(v, c, i, snap) \subseteq G
    BY <2>4, HidingStep
  <2>7. Pass(v) \in R
    BY DEF Pass
  <2>q. QED
    BY <2>2, <2>3, <2>5, <2>6, <2>7
<1> HIDE DEF Fourth, Fifth, snap, G
<1>6. ASSUME NEW rs \in SUBSET R
      PROVE  Handled(rs) \subseteq R /\ Open(rs) \subseteq G
  BY DEF Handled, Open
<1>7. s2 \subseteq R
  BY <1>4, <1>5, <1>6
<1> HIDE DEF s2
<1>8. s3 \subseteq R
  BY <1>5, <1>6, <1>7
<1> HIDE DEF s3
<1>9. s4 \subseteq R
  BY <1>5, <1>6, <1>8
<1> HIDE DEF s4
<1>10. \A r \in R : r.w \in G
  OBVIOUS
<1>11. {r.w : r \in Handled(s4)} \cup UNION {Fifth(v) : v \in Open(s4)} \subseteq G
  BY <1>5, <1>6, <1>9, <1>10
<1>q. QED
  BY <1>2, <1>11 DEF G

-----------------------------------------------------------------------------
(* The delayed cleanup. *)

LEMMA CleanedCalm ==
    ASSUME NEW s \in States, NEW w \in Worlds, w \in Live(s), NEW ob, NEW c \in Contexts,
           NEW i \in Slots, NEW keep,
           i # ob
    PROVE  Cleaned(w, s, c, i, keep) \subseteq Calm(w, s, ob)
<1> DEFINE sl == w.slot[s][i]
           gone == NativeUnsummon(w, sl.ent)
           calm == StopRecall(gone, c, i)
           hidden == StopZero(calm, c, i, sl)
           back == ResetSlot(hidden, s, i)
<1>0. sl \in SlotSet
  BY DEF Worlds
<1>1. gone \in Calm(w, s, ob)
  BY UnsummonCalm
<1>2. calm \in Calm(w, s, ob)
  <2> HIDE DEF gone
  <2>1. calm \in Calm(gone, s, ob)
    BY <1>1, CalmLive, StopsCalm
  <2>q. QED
    BY <1>1, <2>1, CalmStep
<1>3. hidden \in Calm(w, s, ob)
  <2> HIDE DEF calm, sl
  <2>1. hidden \in Calm(calm, s, ob)
    BY <1>0, <1>2, CalmLive, StopZeroCalm
  <2>q. QED
    BY <1>2, <2>1, CalmStep
<1>4. back \in Calm(w, s, ob)
  <2> HIDE DEF hidden
  <2>1. back \in Calm(hidden, s, ob)
    BY <1>3, CalmLive, ShapesCalm
  <2>q. QED
    BY <1>3, <2>1, CalmStep
<1>5. Cleaned(w, s, c, i, keep) \subseteq {w} \cup {back} \cup Raised(w)
  BY DEF Cleaned
<1> HIDE DEF sl, gone, calm, hidden, back
<1>q. QED
  BY <1>4, <1>5, CalmSelf, RaisedCalm

\* A buddy that is taken out leaves its slot down.
LEMMA CleanedOwn ==
    ASSUME NEW s \in States, NEW w \in Live(s), NEW c \in Contexts, NEW i \in Slots,
           NEW keep,
           NEW v \in Cleaned(w, s, c, i, keep)
    PROVE  /\ v \in Within(w, s)
           /\ \/ v = w
              \/ Down(v, s, i) /\ v.slot[s][i].ent = w.slot[s][i].ent
              \/ v.trouble # w.trouble
<1> DEFINE sl == w.slot[s][i]
           gone == NativeUnsummon(w, sl.ent)
           calm == StopRecall(gone, c, i)
           hidden == StopZero(calm, c, i, sl)
           back == ResetSlot(hidden, s, i)
<1>0. w \in Worlds /\ sl \in SlotSet
  BY LiveWorld DEF Worlds
<1>1. gone \in Calm(w, s, i) /\ gone.out = w.out \ {sl.ent}
  BY <1>0, UnsummonCalm DEF NativeUnsummon, Worlds
<1>2. v \in {w, back} \cup Raised(w)
  BY DEF Cleaned
<1> HIDE DEF gone, sl
<1>3. gone \in Live(s) /\ gone \in Worlds
  BY <1>1, CalmLive
<1>4. calm \in Calm(gone, s, i) /\ calm.out = gone.out
  BY <1>3, StopsCalm, StopsLeave
<1> HIDE DEF calm
<1>5. calm \in Live(s) /\ calm \in Worlds /\ calm \in Calm(w, s, i)
  BY <1>1, <1>3, <1>4, CalmLive, CalmStep
<1>6. hidden \in Calm(calm, s, i) /\ hidden.out = calm.out
  BY <1>0, <1>5, StopZeroCalm, StopsLeave
<1> HIDE DEF hidden
<1>7. hidden \in Live(s) /\ hidden \in Calm(w, s, i)
  BY <1>5, <1>6, CalmLive, CalmStep
<1>8. hidden \in Within(w, s) /\ hidden.slot[s][i].ent = sl.ent
  BY <1>7, CalmKept DEF Kept, sl
<1>9. back \in Within(hidden, s) /\ Down(back, s, i)
  BY <1>1, <1>4, <1>6, <1>7, <1>8, ResetDown
<1> HIDE DEF back
<1>10. back \in Within(w, s)
  BY <1>8, <1>9, WithinStep
<1>11. back.slot[s][i].ent = w.slot[s][i].ent
  BY <1>10 DEF Within, Kept
<1>12. ASSUME v \in Raised(w) PROVE v \in Within(w, s) /\ v.trouble # w.trouble
  <2>1. v \in Calm(w, s, i) /\ v.trouble > w.trouble
    BY <1>0, <1>12, RaisedCalm
  <2>2. w.trouble \in Nat
    BY <1>0 DEF Worlds
  <2>q. QED
    BY <2>1, <2>2, CalmKept
<1>q. QED
  BY <1>2, <1>9, <1>10, <1>11, <1>12, WithinSelf

LEMMA CleanedAll ==
    ASSUME NEW s \in States, NEW w \in Live(s), NEW ob, NEW c \in Contexts,
           NEW i \in Slots, NEW keep
    PROVE  Cleaned(w, s, c, i, keep) \subseteq Calm(w, s, ob)
<1>1. ASSUME i = ob, NEW v \in Cleaned(w, s, c, i, keep) PROVE v \in Calm(w, s, ob)
  <2>1. v \in Within(w, s) /\ (v = w \/ Down(v, s, i) \/ v.trouble # w.trouble)
    BY CleanedOwn
  <2>q. QED
    BY <1>1, <2>1, DownCalm, CalmSelf
<1>q. QED
  BY <1>1, LiveWorld, CleanedCalm

\* The cleanup of one slot leaves another one, and everybody's health, as it was.
Beside(w, s, c, i) == {v \in Within(w, s) :
    /\ v.life = w.life /\ v.out \subseteq w.out
    /\ v.slot[s][i] = w.slot[s][i] /\ v.ctx[c].zero[i] = w.ctx[c].zero[i]}

LEMMA CleanedBeside ==
    ASSUME NEW s \in States, NEW w \in Live(s), NEW i \in Slots, NEW c \in Contexts,
           NEW j \in Slots, j # i, NEW keep
    PROVE  Cleaned(w, s, c, j, keep) \subseteq Beside(w, s, c, i)
<1> DEFINE sl == w.slot[s][j]
           gone == NativeUnsummon(w, sl.ent)
           calm == StopRecall(gone, c, j)
           hidden == StopZero(calm, c, j, sl)
           back == ResetSlot(hidden, s, j)
           Same(v) == /\ v.life = w.life /\ v.out \subseteq w.out
                      /\ v.slot[s][i] = w.slot[s][i] /\ v.ctx[c].zero[i] = w.ctx[c].zero[i]
<1>0. w \in Worlds /\ sl \in SlotSet /\ w.last = s
  BY LiveWorld DEF Worlds
<1>1. Cleaned(w, s, c, j, keep) \subseteq {w, back} \cup Raised(w)
  BY DEF Cleaned
<1>2. \A v \in Cleaned(w, s, c, j, keep) : v \in Within(w, s)
  BY CleanedOwn
<1>3. Same(w) /\ \A v \in Raised(w) : Same(v)
  BY <1>0 DEF Raised, Worlds
<1>4. gone \in Calm(w, s, i) /\ Same(gone)
  BY <1>0, UnsummonCalm DEF NativeUnsummon, Worlds
<1> HIDE DEF gone, sl
<1>5. gone \in Live(s) /\ gone \in Worlds
  BY <1>4, CalmLive
<1>6. calm \in Calm(gone, s, i) /\ Same(calm)
  <2>1. gone.ctx[c] \in Records
    BY <1>5 DEF Worlds
  <2>q. QED
    BY <1>4, <1>5, <2>1, StopsCalm DEF StopRecall, Worlds, Records
<1> HIDE DEF calm
<1>7. calm \in Live(s) /\ calm \in Worlds /\ calm.last = s
  BY <1>5, <1>6, CalmLive, LiveWorld
<1>8. hidden \in Calm(calm, s, i) /\ Same(hidden)
  <2> DEFINE v == [calm EXCEPT !.ctx[c].zero[j] = NoZero]
             u == SetGate(v, s, j, sl, FALSE)
  <2>1. calm.ctx[c] \in Records
    BY <1>7 DEF Worlds
  <2>2. v.life = calm.life /\ v.out = calm.out /\ v.slot = calm.slot
        /\ v.ctx[c].zero[i] = calm.ctx[c].zero[i]
    BY <1>7, <2>1 DEF Worlds, Records
  <2>3. v \in Calm(calm, s, i)
    <3>1. NoZero \in Zeros
      BY BoundsAssumption DEF NoZero, Zeros
    <3>q. QED
      BY <1>7, <3>1, MemberCalm
  <2> HIDE DEF v
  <2>4. v \in Worlds
    BY <1>7, <2>3, CalmLive
  <2>5. u.life = v.life /\ u.out = v.out /\ u.slot[s][i] = v.slot[s][i] /\ u.ctx = v.ctx
    BY <2>4 DEF SetGate, Worlds
  <2>6. Same(v) /\ Same(u)
    BY <1>6, <2>2, <2>5
  <2>7. hidden \in {calm, v, u}
    BY <1>7 DEF StopZero, v
  <2>8. hidden \in Calm(calm, s, i)
    BY <1>0, <1>7, StopZeroCalm
  <2>q. QED
    BY <1>6, <2>6, <2>7, <2>8
<1> HIDE DEF hidden
<1>9. hidden \in Live(s)
  BY <1>7, <1>8, CalmLive
<1>10. Same(back)
  <2>1. "active" \in Stages /\ {} \in SUBSET Flags
    BY DEF Stages, Flags
  <2> DEFINE b == Control(hidden, s, j, "active", {})
  <2>2. /\ b.life = hidden.life /\ b.out = hidden.out /\ b.ctx = hidden.ctx
        /\ \A k \in Slots \ {j} : b.slot[s][k] = hidden.slot[s][k]
    BY <1>9, <2>1, ControlWithin
  <2> HIDE DEF b
  <2>3. Same(b)
    BY <1>8, <2>2
  <2>q. QED
    BY <2>3 DEF b, ResetSlot
<1> HIDE DEF back
<1>11. \A v \in Cleaned(w, s, c, j, keep) : Same(v)
  BY <1>1, <1>3, <1>10
<1>q. QED
  BY <1>2, <1>11 DEF Beside

\* The world in which the cleanup begins: the job is gone.
LEMMA JobGone ==
    ASSUME NEW s \in States, NEW w \in Live(s), NEW c \in Contexts
    PROVE  LET v == [w EXCEPT !.ctx[c].job = NoJob] IN
           /\ v \in Live(s) /\ v \in Kept(w) /\ v.slot = w.slot /\ v.out = w.out
           /\ v.trouble = w.trouble /\ v.life = w.life
<1> DEFINE v == [w EXCEPT !.ctx[c].job = NoJob]
<1>0. w \in Worlds /\ w \in Sound /\ w.last = s
  BY LiveWorld
<1>1. NoJob \in Jobs
  BY BoundsAssumption DEF NoJob, Jobs, BuddySlots
<1>2. v \in Kept(w)
  BY <1>0, <1>1, OwnWrite
<1>3. /\ v.slot = w.slot /\ v.out = w.out /\ v.trouble = w.trouble /\ v.life = w.life
      /\ v.last = w.last
  BY <1>0 DEF Worlds
<1> HIDE DEF v
<1>4. v \in Live(s)
  BY <1>0, <1>2, <1>3, KeptSound DEF Live
<1>q. QED
  BY <1>2, <1>3, <1>4 DEF v

LEMMA CleanupCalm ==
    ASSUME NEW s \in States, NEW w \in Live(s), NEW c \in Contexts, NEW ob,
           NEW y \in Cleanup(w, s, c), y # w
    PROVE  y \in Calm([w EXCEPT !.ctx[c].job = NoJob], s, ob)
<1> DEFINE job == w.ctx[c].job
           sl == w.slot[s][job.slot]
           keep == IF sl.ent # 0 THEN sl.ent ELSE job.ent
           v == [w EXCEPT !.ctx[c].job = NoJob]
           Step(ws, k) == IF k \in Slots THEN UNION {Cleaned(u, s, c, k, keep) : u \in ws}
                          ELSE ws
           a1 == Step({v}, 0)
           a2 == Step(a1, 1)
           a3 == Step(a2, 2)
<1>1. y \in {v} \cup a3
  BY DEF Cleanup
<1>2. v \in Live(s)
  BY JobGone
<1> HIDE DEF v, keep
<1>3. ASSUME NEW ws \in SUBSET Calm(v, s, ob), NEW k \in 0..2
      PROVE  Step(ws, k) \subseteq Calm(v, s, ob)
  <2>1. ASSUME NEW u \in ws, k \in Slots PROVE Cleaned(u, s, c, k, keep) \subseteq Calm(v, s, ob)
    <3>1. u \in Calm(v, s, ob) /\ u \in Live(s)
      BY <1>2, CalmLive
    <3>2. Cleaned(u, s, c, k, keep) \subseteq Calm(u, s, ob)
      BY <2>1, <3>1, CleanedAll
    <3>q. QED
      BY <1>2, <3>1, <3>2, CalmStep
  <2>q. QED
    BY <2>1
<1> HIDE DEF Step
<1>4. v \in Calm(v, s, ob)
  BY <1>2, CalmSelf
<1>5. a1 \subseteq Calm(v, s, ob)
  BY <1>3, <1>4
<1> HIDE DEF a1
<1>6. a2 \subseteq Calm(v, s, ob)
  BY <1>3, <1>5
<1> HIDE DEF a2
<1>7. a3 \subseteq Calm(v, s, ob)
  BY <1>3, <1>6
<1>q. QED
  BY <1>1, <1>4, <1>7 DEF v

LEMMA CleanupHides ==
    ASSUME NEW s \in States, NEW w \in Live(s), NEW c \in Contexts, NEW i \in Slots,
           NEW y \in Cleanup(w, s, c)
    PROVE  /\ w.trouble <= y.trouble
           /\ y.trouble = w.trouble /\ Hidden(w, s, i) => Hidden(y, s, i)
<1> DEFINE v == [w EXCEPT !.ctx[c].job = NoJob]
<1>1. v \in Live(s) /\ v.slot = w.slot /\ v.out = w.out /\ v.trouble = w.trouble
  BY JobGone
<1>2. y # w => y \in Calm(v, s, i)
  BY CleanupCalm
<1> HIDE DEF v
<1>3. Hidden(w, s, i) => Hidden(v, s, i)
  BY <1>1 DEF Hidden, Quiet
<1>4. CASE y = w
  BY <1>4, LiveWorld DEF Worlds
<1>5. CASE y # w
  BY <1>1, <1>2, <1>3, <1>5 DEF Calm, Steady, Within
<1>q. QED
  BY <1>4, <1>5

LEMMA CleanupOthers ==
    ASSUME NEW s \in States, NEW w \in Live(s), NEW c \in Contexts,
           NEW y \in Cleanup(w, s, c)
    PROVE  /\ \A t \in States : t # s => y.slot[t] = w.slot[t]
           /\ \A d \in Contexts : d # c => y.ctx[d].job = w.ctx[d].job
<1> DEFINE v == [w EXCEPT !.ctx[c].job = NoJob]
<1>1. v.slot = w.slot /\ \A d \in Contexts : d # c => v.ctx[d] = w.ctx[d]
  BY LiveWorld DEF Worlds
<1>2. y # w => y \in Within(v, s)
  BY CleanupCalm, CalmKept
<1> HIDE DEF v
<1>3. CASE y # w
  BY <1>1, <1>2, <1>3 DEF Within
<1>q. QED
  BY <1>3

\* The slot of a buddy that may stand beside the kept one: it cannot be found healthy
\* in the world unless it is recovering.
Spared(w, s, c, i) ==
    LET e == w.slot[s][i].ent IN
    Rate(w.life[e]) > 0 /\ e \in w.out =>
        "gate" \in w.slot[s][i].flags \/ w.ctx[c].zero[i].active

LEMMA CleanedSpares ==
    ASSUME NEW s \in States, NEW w \in Live(s), NEW c \in Contexts, NEW i \in Slots,
           NEW keep,
           w.slot[s][i].ent # keep, IsCustom(w, c, i, w.slot[s][i]),
           NEW v \in Cleaned(w, s, c, i, keep), v.trouble = w.trouble
    PROVE  Spared(v, s, c, i)
<1>1. CASE v # w
  BY <1>1, CleanedOwn DEF Spared, Down
<1>2. CASE v = w
  <2> DEFINE sl == w.slot[s][i]
  <2>0. w \in Worlds
    BY LiveWorld
  <2>1. sl.ent # 0 /\ sl.ent \in Entities
    BY <2>0, StoredEntity DEF IsCustom
  <2>2. Percent(w, sl) = Rate(w.life[sl.ent])
    BY <2>1 DEF Percent, Hp
  <2>3. w.life[sl.ent] \in Int
    BY <2>0, <2>1 DEF Worlds
  <2>4. \A h \in Int : Rate(h) \in Int
    BY BoundsAssumption DEF Rate
  <2>5. CASE "gate" \in sl.flags \/ w.ctx[c].zero[i].active \/ Percent(w, sl) <= 0
    BY <1>2, <2>2, <2>3, <2>4, <2>5 DEF Spared
  <2>6. CASE ~("gate" \in sl.flags \/ w.ctx[c].zero[i].active \/ Percent(w, sl) <= 0)
    <3> DEFINE hidden == StopZero(StopRecall(NativeUnsummon(w, sl.ent), c, i), c, i, sl)
    <3>1. v \in {ResetSlot(hidden, s, i)} \cup Raised(w)
      BY <2>6 DEF Cleaned
    <3>2. ASSUME v \in Raised(w) PROVE FALSE
      <4>1. v.trouble > w.trouble /\ w.trouble \in Nat
        BY <2>0, <3>2, RaisedCalm DEF Worlds
      <4>q. QED
        BY <4>1
    <3>3. v.out = w.out \ {sl.ent}
      <4> DEFINE gone == NativeUnsummon(w, sl.ent)
                 calm == StopRecall(gone, c, i)
      <4>1. gone \in Calm(w, s, i) /\ gone.out = w.out \ {sl.ent}
        BY <2>0, UnsummonCalm DEF NativeUnsummon, Worlds
      <4> HIDE DEF gone
      <4>2. gone \in Live(s) /\ gone \in Worlds
        BY <4>1, CalmLive
      <4>3. calm \in Calm(gone, s, i) /\ calm.out = gone.out
        BY <4>2, StopsCalm, StopsLeave
      <4> HIDE DEF calm
      <4>4. calm \in Live(s) /\ calm \in Worlds
        BY <4>2, <4>3, CalmLive
      <4>5. sl \in SlotSet
        BY <2>0 DEF Worlds
      <4> HIDE DEF sl
      <4>6. hidden = StopZero(calm, c, i, sl)
        BY DEF calm, gone
      <4>7. hidden \in Calm(calm, s, i) /\ hidden.out = calm.out
        BY <4>4, <4>5, <4>6, StopZeroCalm, StopsLeave
      <4> HIDE DEF hidden
      <4>8. hidden \in Live(s)
        BY <4>4, <4>7, CalmLive
      <4>9. "active" \in Stages /\ {} \in SUBSET Flags
        BY DEF Stages, Flags
      <4>10. Control(hidden, s, i, "active", {}).out = hidden.out
        BY <4>8, <4>9, ControlWithin
      <4>q. QED
        BY <3>1, <3>2, <4>1, <4>3, <4>7, <4>10 DEF ResetSlot
    <3>q. QED
      BY <1>2, <3>3 DEF Spared
  <2>q. QED
    BY <2>5, <2>6
<1>q. QED
  BY <1>1, <1>2

LEMMA BesideSpares ==
    ASSUME NEW s, NEW w \in Live(s), NEW c, NEW i,
           NEW v \in Beside(w, s, c, i), Spared(w, s, c, i)
    PROVE  Spared(v, s, c, i)
BY DEF Beside, Spared

\* Once the job is done, every other custom buddy of the state is spared or gone.
LEMMA CleanupSpares ==
    ASSUME NEW s \in States, NEW w \in Live(s), NEW c \in Contexts,
           NEW y \in Cleanup(w, s, c),
           w.ctx[c].job.active, ~y.ctx[c].job.active, y.trouble = w.trouble,
           w.slot[s][w.ctx[c].job.slot].ent # 0,
           NEW i \in Slots \ {w.ctx[c].job.slot}, IsCustom(w, c, i, w.slot[s][i])
    PROVE  Spared(y, s, c, i)
<1> DEFINE job == w.ctx[c].job
           sl == w.slot[s][job.slot]
           keep == IF sl.ent # 0 THEN sl.ent ELSE job.ent
           v == [w EXCEPT !.ctx[c].job = NoJob]
           Step(ws, k) == IF k \in Slots THEN UNION {Cleaned(u, s, c, k, keep) : u \in ws}
                          ELSE ws
           a1 == Step({v}, 0)
           a2 == Step(a1, 1)
           a3 == Step(a2, 2)
           A == Within(v, s)
           P == {u \in A : u.trouble = v.trouble => Spared(u, s, c, i)}
<1>0. w \in Worlds /\ Once(w) /\ job \in Jobs
  BY LiveWorld DEF Sound, Worlds, Records
<1>1. keep = sl.ent /\ keep # 0
  OBVIOUS
<1>2. w.slot[s][i].ent # keep
  <2>1. job.slot \in Slots
    BY <1>0 DEF Jobs
  <2>q. QED
    BY <1>0, <1>1, <2>1 DEF Once
<1>3. y \in a3
  BY <1>1 DEF Cleanup
<1>4. v \in Live(s) /\ v \in Kept(w) /\ v.trouble = w.trouble
  BY JobGone
<1> HIDE DEF v, keep, job
<1>5. v \in A
  BY <1>4, WithinSelf
<1>6. ASSUME NEW u \in A
      PROVE  /\ u \in Live(s) /\ u.slot[s][i].ent # keep
             /\ IsCustom(u, c, i, u.slot[s][i])
  <2>1. u \in Live(s)
    BY <1>4, WithinLive
  <2>2. u \in Kept(w)
    BY <1>0, <1>4, KeptStep DEF Within
  <2>q. QED
    BY <1>2, <2>1, <2>2 DEF Kept, IsCustom
<1>7. ASSUME NEW ws \in SUBSET A, NEW k \in 0..2 PROVE Step(ws, k) \subseteq A
  <2>1. ASSUME NEW u \in ws, k \in Slots PROVE Cleaned(u, s, c, k, keep) \subseteq A
    <3>1. u \in A /\ u \in Live(s)
      BY <1>6
    <3>2. Cleaned(u, s, c, k, keep) \subseteq Within(u, s)
      BY <2>1, <3>1, CleanedOwn
    <3>q. QED
      BY <1>4, <3>1, <3>2, WithinStep
  <2>q. QED
    BY <2>1
<1>8. ASSUME NEW ws \in SUBSET A PROVE Step(ws, i) \subseteq P
  <2>1. SUFFICES ASSUME NEW u \in ws, NEW x \in Cleaned(u, s, c, i, keep) PROVE x \in P
    OBVIOUS
  <2>2. u \in A /\ u \in Live(s)
    BY <1>6
  <2>3. x \in Within(u, s)
    BY <2>2, CleanedOwn
  <2>4. x \in A /\ (x.trouble = v.trouble => x.trouble = u.trouble)
    BY <1>4, <2>2, <2>3, WithinStep
  <2>5. x.trouble = u.trouble => Spared(x, s, c, i)
    BY <1>6, <2>2, CleanedSpares
  <2>q. QED
    BY <2>4, <2>5
<1>9. ASSUME NEW ws \in SUBSET P, NEW k \in 0..2, k # i PROVE Step(ws, k) \subseteq P
  <2>1. ASSUME NEW u \in ws, k \in Slots PROVE Cleaned(u, s, c, k, keep) \subseteq P
    <3>1. u \in P /\ u \in Live(s)
      BY <1>6
    <3>2. SUFFICES ASSUME NEW x \in Cleaned(u, s, c, k, keep) PROVE x \in P
      OBVIOUS
    <3>3. x \in Beside(u, s, c, i) /\ x \in Within(u, s)
      BY <1>9, <2>1, <3>1, CleanedBeside DEF Beside
    <3>4. x \in A /\ (x.trouble = v.trouble => u.trouble = v.trouble)
      BY <1>4, <3>1, <3>3, WithinStep
    <3>5. Spared(u, s, c, i) => Spared(x, s, c, i)
      BY <3>1, <3>3, BesideSpares
    <3>q. QED
      BY <3>1, <3>4, <3>5
  <2>q. QED
    BY <2>1
<1> HIDE DEF Step
<1>10. P \subseteq A
  OBVIOUS
<1> HIDE DEF A, P
<1>11. ASSUME NEW ws \in SUBSET P, NEW k \in 0..2 PROVE Step(ws, k) \subseteq P
  <2>1. ws \in SUBSET A
    BY <1>10
  <2>q. QED
    BY <1>8, <1>9, <2>1
<1>12. i \in 0..2
  BY SlotsAssumption DEF BuddySlots
<1>13. CASE i = 0
  <2>1. a1 \subseteq P
    BY <1>5, <1>8, <1>13
  <2> HIDE DEF a1
  <2>2. a2 \subseteq P
    BY <1>11, <2>1
  <2> HIDE DEF a2
  <2>3. a3 \subseteq P
    BY <1>11, <2>2
  <2>q. QED
    BY <1>3, <1>4, <2>3 DEF P
<1>14. CASE i = 1
  <2>1. a1 \subseteq A
    BY <1>5, <1>7
  <2> HIDE DEF a1
  <2>2. a2 \subseteq P
    BY <1>8, <1>14, <2>1
  <2> HIDE DEF a2
  <2>3. a3 \subseteq P
    BY <1>11, <2>2
  <2>q. QED
    BY <1>3, <1>4, <2>3 DEF P
<1>15. CASE i = 2
  <2>1. a1 \subseteq A
    BY <1>5, <1>7
  <2> HIDE DEF a1
  <2>2. a2 \subseteq A
    BY <1>7, <2>1
  <2> HIDE DEF a2
  <2>3. a3 \subseteq P
    BY <1>8, <1>15, <2>2
  <2>q. QED
    BY <1>3, <1>4, <2>3 DEF P
<1>q. QED
  BY <1>12, <1>13, <1>14, <1>15

-----------------------------------------------------------------------------
(* The update of a state, from its clock to its cleanup. *)

LEMMA UpdateBegins ==
    ASSUME NEW w \in Sound, NEW s \in States
    PROVE  LET v == Tick(At(w, s)) IN
           /\ v \in Live(s) /\ v \in Kept(w) /\ v.slot = w.slot /\ v.out = w.out
           /\ v.trouble = w.trouble /\ v.life = w.life
           /\ \A c \in Contexts : v.ctx[c] \in Alike(w.ctx[c])
           /\ Holding(v, s) = Holding(w, s) /\ Found(v, s) = Found(w, s)
<1> DEFINE a == At(w, s)
           v == Tick(a)
<1>0. w \in Worlds
  BY SoundWorld
<1>1. a \in Kept(w)
  BY AtSound
<1>2. /\ a.slot = w.slot /\ a.out = w.out /\ a.trouble = w.trouble /\ a.life = w.life
      /\ a.ctx = w.ctx /\ a.last = s
  BY <1>0 DEF At, Worlds
<1> HIDE DEF a
<1>3. a \in Worlds
  BY <1>1, KeptWorld
<1>4. /\ v \in Kept(a) /\ v.slot = a.slot /\ v.out = a.out /\ v.trouble = a.trouble
      /\ v.life = a.life /\ v.last = a.last /\ \A c \in Contexts : v.ctx[c] \in Alike(a.ctx[c])
  BY <1>3, TickKept
<1> HIDE DEF v
<1>5. v \in Kept(w)
  BY <1>0, <1>1, <1>4, KeptStep
<1>6. v \in Live(s)
  BY <1>2, <1>4, <1>5, KeptSound DEF Live
<1>7. Holding(v, s) = Holding(w, s)
  BY <1>5 DEF Kept, Holding
<1>8. Found(v, s) = Found(w, s)
  BY <1>7 DEF Found
<1>q. QED
  BY <1>2, <1>4, <1>5, <1>6, <1>7, <1>8 DEF v, a

\* The worlds between the game's own update and the loop over the slots, and after a
\* turn of that loop.
Ordered(v, s, c) ==
    LET ready == IF \E i \in Slots : /\ v.slot[s][i].st = "active" /\ v.slot[s][i].pend
                                     /\ IsCustom(v, c, i, v.slot[s][i])
                 THEN Activate(v, s) ELSE {v}
        native == UNION {NativeUpdate(x, s) : x \in ready}
        driven == {r.w : r \in UNION {RemoteFallback(x, s, c) : x \in native}}
    IN UNION {RecallCommands(x, s, c) : x \in driven}
Turned(ws, s, c, i, before) ==
    IF i \in Slots THEN UNION {Upkeep(x, s, c, i, before) : x \in ws} ELSE ws

LEMMA UpdateParts ==
    ASSUME NEW w, NEW s
    PROVE  LET v == Tick(At(w, s))
               c == Found(v, s)
               t1 == Turned(Ordered(v, s, c), s, c, 0, v.slot[s])
               t2 == Turned(t1, s, c, 1, v.slot[s])
               t3 == Turned(t2, s, c, 2, v.slot[s])
           IN ModuleUpdate(w, s) = IF ~HasWork(v, s) THEN NativeUpdate(v, s)
                                   ELSE UNION {Cleanup(x, s, c) : x \in t3}
BY DEF ModuleUpdate, Ordered, Turned

LEMMA OrderedSteady ==
    ASSUME NEW s \in States, NEW v \in Live(s), NEW c \in Contexts, NEW ob
    PROVE  Ordered(v, s, c) \subseteq Steady(v, s, ob)
<1> DEFINE ready == IF \E i \in Slots : /\ v.slot[s][i].st = "active" /\ v.slot[s][i].pend
                                        /\ IsCustom(v, c, i, v.slot[s][i])
                    THEN Activate(v, s) ELSE {v}
           native == UNION {NativeUpdate(x, s) : x \in ready}
           results == UNION {RemoteFallback(x, s, c) : x \in native}
           driven == {r.w : r \in results}
           ordered == UNION {RecallCommands(x, s, c) : x \in driven}
           S == Steady(v, s, ob)
<1>1. Ordered(v, s, c) = ordered
  BY DEF Ordered
<1>2. ready \subseteq S
  BY LiveWorld, ActivateCalm, CalmSelf DEF Calm
<1>3. \A x \in S : x \in Live(s) /\ x \in Worlds
  BY WithinLive DEF Steady
<1> HIDE DEF ready
<1>4. native \subseteq S
  <2>1. ASSUME NEW x \in ready PROVE NativeUpdate(x, s) \subseteq S
    <3>1. x \in S /\ x \in Live(s) /\ x \in Worlds
      BY <1>2, <1>3
    <3>2. NativeUpdate(x, s) \subseteq Steady(x, s, ob)
      BY <3>1, NativesCalm
    <3>q. QED
      BY <3>1, <3>2, SteadyStep
  <2>q. QED
    BY <2>1
<1> HIDE DEF native
<1>5. driven \subseteq S
  <2>1. ASSUME NEW x \in native, NEW r \in RemoteFallback(x, s, c) PROVE r.w \in S
    <3>1. x \in S /\ x \in Live(s) /\ x \in Worlds
      BY <1>3, <1>4
    <3>2. r \in Outcomes(x, s, ob)
      BY <3>1, RemoteFallbackCalm
    <3>3. r.w \in Steady(x, s, ob)
      BY <3>2 DEF Outcomes, Calm
    <3>q. QED
      BY <3>1, <3>3, SteadyStep
  <2>q. QED
    BY <2>1
<1> HIDE DEF driven
<1>6. ordered \subseteq S
  <2>1. ASSUME NEW x \in driven PROVE RecallCommands(x, s, c) \subseteq S
    <3>1. x \in S /\ x \in Live(s) /\ x \in Worlds
      BY <1>3, <1>5
    <3>2. RecallCommands(x, s, c) \subseteq Steady(x, s, ob)
      BY <3>1, RecallCommandsCalm DEF Calm
    <3>q. QED
      BY <3>1, <3>2, SteadyStep
  <2>q. QED
    BY <2>1
<1>q. QED
  BY <1>1, <1>6

LEMMA UpkeepWithin ==
    ASSUME NEW s \in States, NEW w \in Live(s), NEW c \in Contexts, NEW i \in Slots,
           NEW before
    PROVE  Upkeep(w, s, c, i, before) \subseteq Within(w, s)
<1>1. i # 3
  BY SlotsAssumption DEF BuddySlots
<1>2. Upkeep(w, s, c, i, before) \subseteq Calm(w, s, 3)
  BY <1>1, LiveWorld, UpkeepCalm
<1>q. QED
  BY <1>2, CalmKept

LEMMA TurnedWithin ==
    ASSUME NEW s \in States, NEW v \in Live(s), NEW c \in Contexts, NEW i,
           NEW ws \in SUBSET Within(v, s), NEW before
    PROVE  Turned(ws, s, c, i, before) \subseteq Within(v, s)
<1>1. ASSUME NEW x \in ws, i \in Slots PROVE Upkeep(x, s, c, i, before) \subseteq Within(v, s)
  <2>1. x \in Within(v, s) /\ x \in Live(s)
    BY WithinLive
  <2>2. Upkeep(x, s, c, i, before) \subseteq Within(x, s)
    BY <1>1, <2>1, UpkeepWithin
  <2>q. QED
    BY <2>1, <2>2, WithinStep
<1>q. QED
  BY <1>1 DEF Turned

\* Before the turn of its own slot a buddy at rest stays at rest; that turn hides it,
\* and the others leave it hidden.
LEMMA TurnedHides ==
    ASSUME NEW s \in States, NEW v \in Live(s), NEW c \in Contexts, NEW i \in Slots,
           NEW k, NEW before, before[i].st = "removing",
           IsCustom(v, c, i, v.slot[s][i]), Percent(v, v.slot[s][i]) > 0, Quiet(v, s, i)
    PROVE  /\ \A ws \in SUBSET Steady(v, s, i) :
                 IF k = i THEN Turned(ws, s, c, k, before) \subseteq Hiding(v, s, i)
                          ELSE Turned(ws, s, c, k, before) \subseteq Steady(v, s, i)
           /\ \A ws \in SUBSET Hiding(v, s, i) :
                 k # i => Turned(ws, s, c, k, before) \subseteq Hiding(v, s, i)
<1>1. ASSUME NEW x \in Within(v, s), NEW j \in Slots, j # i
      PROVE  Upkeep(x, s, c, j, before) \subseteq Calm(x, s, i)
  BY <1>1, WithinLive, UpkeepCalm
<1>2. ASSUME NEW x \in Steady(v, s, i)
      PROVE  Upkeep(x, s, c, i, before) \subseteq Hiding(v, s, i)
  <2>1. x \in Within(v, s) /\ x \in Live(s)
    BY WithinLive DEF Steady
  <2>2. ASSUME NEW y \in Upkeep(x, s, c, i, before) PROVE y \in Hiding(v, s, i)
    <3>1. y \in Within(x, s)
      BY <2>1, UpkeepWithin
    <3>2. y \in Within(v, s) /\ (y.trouble = v.trouble => x.trouble = v.trouble /\ y.trouble = x.trouble)
      BY <2>1, <3>1, WithinStep
    <3>3. ASSUME y.trouble = v.trouble PROVE Hidden(y, s, i)
      <4>1. x.trouble = v.trouble /\ y.trouble = x.trouble
        BY <3>2, <3>3
      <4>2. Quiet(x, s, i)
        BY <4>1 DEF Steady
      <4>3. x.slot[s][i].ent = v.slot[s][i].ent /\ x.ctx[c].custom = v.ctx[c].custom
        BY <2>1 DEF Within, Kept
      <4>4. IsCustom(x, c, i, x.slot[s][i])
        BY <4>3 DEF IsCustom
      <4>5. v.slot[s][i].ent \in 0..MaxEntity
        BY LiveWorld DEF Worlds, SlotSet
      <4>6. Percent(x, x.slot[s][i]) > 0
        BY <2>1, <4>1, <4>3, <4>5, PercentGrows
      <4>7. y \in Hiding(x, s, i)
        BY <2>1, <2>2, <4>2, <4>4, <4>6, UpkeepHides
      <4>q. QED
        BY <4>1, <4>7 DEF Hiding
    <3>q. QED
      BY <3>2, <3>3 DEF Hiding
  <2>q. QED
    BY <2>2
<1>3. ASSUME NEW ws \in SUBSET Steady(v, s, i)
      PROVE  IF k = i THEN Turned(ws, s, c, k, before) \subseteq Hiding(v, s, i)
                      ELSE Turned(ws, s, c, k, before) \subseteq Steady(v, s, i)
  <2>1. CASE k = i
    <3>1. \A x \in ws : Upkeep(x, s, c, i, before) \subseteq Hiding(v, s, i)
      BY <1>2
    <3>q. QED
      BY <2>1, <3>1 DEF Turned
  <2>2. CASE k # i
    <3>1. ASSUME NEW x \in ws, k \in Slots PROVE Upkeep(x, s, c, k, before) \subseteq Steady(v, s, i)
      <4>1. x \in Steady(v, s, i) /\ x \in Within(v, s)
        BY DEF Steady
      <4>2. Upkeep(x, s, c, k, before) \subseteq Steady(x, s, i)
        BY <1>1, <2>2, <3>1, <4>1 DEF Calm
      <4>q. QED
        BY <4>1, <4>2, SteadyStep
    <3>q. QED
      BY <2>2, <3>1 DEF Turned
  <2>q. QED
    BY <2>1, <2>2
<1>4. ASSUME NEW ws \in SUBSET Hiding(v, s, i), k # i
      PROVE  Turned(ws, s, c, k, before) \subseteq Hiding(v, s, i)
  <2>1. ASSUME NEW x \in ws, k \in Slots PROVE Upkeep(x, s, c, k, before) \subseteq Hiding(v, s, i)
    <3>1. x \in Hiding(v, s, i) /\ x \in Within(v, s)
      BY DEF Hiding
    <3>2. Upkeep(x, s, c, k, before) \subseteq Calm(x, s, i)
      BY <1>1, <1>4, <2>1, <3>1
    <3>q. QED
      BY <3>1, <3>2, HidingStep
  <2>q. QED
    BY <2>1 DEF Turned
<1>q. QED
  BY <1>3, <1>4

LEMMA UpdateHides ==
    ASSUME NEW w \in Sound, NEW s \in States, NEW i \in Slots, NEW y \in ModuleUpdate(w, s),
           y.trouble = w.trouble, Holding(w, s) # {}, w.ctx[Found(w, s)].seen,
           w.slot[s][i].st = "removing", y.slot[s][i].st = "active",
           IsCustom(w, Found(w, s), i, w.slot[s][i]), Percent(w, w.slot[s][i]) > 0
    PROVE  w.slot[s][i].ent \notin y.out
<1> DEFINE v == Tick(At(w, s))
           c == Found(v, s)
           before == v.slot[s]
           t0 == Ordered(v, s, c)
           t1 == Turned(t0, s, c, 0, before)
           t2 == Turned(t1, s, c, 1, before)
           t3 == Turned(t2, s, c, 2, before)
<1>1. /\ v \in Live(s) /\ v \in Kept(w) /\ v.slot = w.slot /\ v.out = w.out
      /\ v.trouble = w.trouble /\ v.life = w.life
      /\ \A d \in Contexts : v.ctx[d] \in Alike(w.ctx[d])
      /\ Holding(v, s) = Holding(w, s) /\ c = Found(w, s)
  BY UpdateBegins
<1>2. ModuleUpdate(w, s) = IF ~HasWork(v, s) THEN NativeUpdate(v, s)
                           ELSE UNION {Cleanup(x, s, c) : x \in t3}
  BY UpdateParts
<1> HIDE DEF v
<1>3. v \in Worlds /\ w \in Worlds
  BY <1>1, LiveWorld, SoundWorld
<1>4. c \in Contexts
  BY <1>1, <1>3, FoundFacts
<1>c. c = Found(v, s)
  OBVIOUS
<1> HIDE DEF c
<1>5. v.ctx[c].seen /\ v.ctx[c].custom = w.ctx[c].custom
  BY <1>1, <1>4 DEF Alike
<1>6. IsCustom(v, c, i, v.slot[s][i]) /\ Percent(v, v.slot[s][i]) > 0
  BY <1>1, <1>5 DEF IsCustom, Percent, Hp
<1>7. HasWork(v, s)
  BY <1>1, <1>5, <1>6, <1>c DEF HasWork, IsCustom
<1>8. Quiet(v, s, i) /\ before[i].st = "removing"
  <2>1. v.slot[s][i] \in SlotSet
    BY <1>3 DEF Worlds
  <2>q. QED
    BY <1>1, <2>1 DEF Quiet, SlotSet
<1>9. i \in 0..2
  BY SlotsAssumption DEF BuddySlots
<1>10. t0 \subseteq Steady(v, s, i)
  BY <1>1, <1>4, OrderedSteady
<1> HIDE DEF t0, before
<1>11. ASSUME NEW k, NEW ws
       PROVE  /\ ws \subseteq Steady(v, s, i) /\ k = i =>
                    Turned(ws, s, c, k, before) \subseteq Hiding(v, s, i)
              /\ ws \subseteq Steady(v, s, i) /\ k # i =>
                    Turned(ws, s, c, k, before) \subseteq Steady(v, s, i)
              /\ ws \subseteq Hiding(v, s, i) /\ k # i =>
                    Turned(ws, s, c, k, before) \subseteq Hiding(v, s, i)
  BY <1>1, <1>4, <1>6, <1>8, TurnedHides
<1>12. IF i = 0 THEN t1 \subseteq Hiding(v, s, i) ELSE t1 \subseteq Steady(v, s, i)
  BY <1>10, <1>11
<1> HIDE DEF t1
<1>13. IF i < 2 THEN t2 \subseteq Hiding(v, s, i) ELSE t2 \subseteq Steady(v, s, i)
  BY <1>9, <1>11, <1>12
<1> HIDE DEF t2
<1>14. t3 \subseteq Hiding(v, s, i)
  BY <1>9, <1>11, <1>13
<1> HIDE DEF t3
<1>15. PICK x \in t3 : y \in Cleanup(x, s, c)
  BY <1>2, <1>7
<1>16. x \in Hiding(v, s, i) /\ x \in Within(v, s)
  BY <1>14 DEF Hiding
<1>17. x \in Live(s) /\ x \in Worlds
  BY <1>1, <1>16, WithinLive
<1>18. x.trouble <= y.trouble /\ (y.trouble = x.trouble /\ Hidden(x, s, i) => Hidden(y, s, i))
  BY <1>4, <1>15, <1>17, CleanupHides
<1>19. y \in Kept(w)
  BY <1>3, ModuleUpdateKept
<1>20. x.trouble = v.trouble /\ y.trouble = x.trouble
  <2>1. w.trouble \in Nat /\ x.trouble \in Nat
    BY <1>3, <1>17 DEF Worlds
  <2>2. v.trouble <= x.trouble
    BY <1>16 DEF Within
  <2>q. QED
    BY <1>1, <1>18, <2>1, <2>2
<1>21. Hidden(y, s, i)
  BY <1>16, <1>18, <1>20 DEF Hiding
<1>22. y.slot[s][i].ent = w.slot[s][i].ent
  BY <1>19 DEF Kept
<1>q. QED
  BY <1>21, <1>22 DEF Hidden

LEMMA UpdateSpares ==
    ASSUME NEW w \in Sound, NEW s \in States, NEW y \in ModuleUpdate(w, s),
           y.trouble = w.trouble, NEW c \in Contexts, c = Found(w, s), w.ctx[c].state = s,
           w.ctx[c].job.active, ~y.ctx[c].job.active,
           w.slot[s][w.ctx[c].job.slot].ent # 0,
           NEW i \in Slots \ {w.ctx[c].job.slot}, IsCustom(w, c, i, w.slot[s][i])
    PROVE  Spared(y, s, c, i)
<1> DEFINE v == Tick(At(w, s))
           before == v.slot[s]
           t0 == Ordered(v, s, c)
           t1 == Turned(t0, s, c, 0, before)
           t2 == Turned(t1, s, c, 1, before)
           t3 == Turned(t2, s, c, 2, before)
<1>1. /\ v \in Live(s) /\ v \in Kept(w) /\ v.trouble = w.trouble
      /\ \A d \in Contexts : v.ctx[d] \in Alike(w.ctx[d])
      /\ c = Found(v, s)
  BY UpdateBegins
<1>2. ModuleUpdate(w, s) = IF ~HasWork(v, s) THEN NativeUpdate(v, s)
                           ELSE UNION {Cleanup(x, s, c) : x \in t3}
  BY <1>1, UpdateParts
<1> HIDE DEF v, before
<1>3. v \in Worlds /\ w \in Worlds
  BY <1>1, LiveWorld, SoundWorld
<1>4. v.ctx[c].job.active /\ v.ctx[c].job.slot = w.ctx[c].job.slot
  BY <1>1 DEF Alike
<1>5. HasWork(v, s)
  <2>1. CASE y \in NativeUpdate(v, s)
    <3>1. y \in Steady(v, s, i)
      BY <1>1, <1>3, <2>1, NativesCalm
    <3>2. y.ctx[c].job = v.ctx[c].job
      BY <3>1 DEF Steady, Within
    <3>q. QED
      BY <1>4, <3>2
  <2>q. QED
    BY <1>2, <2>1
<1>6. t0 \subseteq Within(v, s)
  BY <1>1, OrderedSteady DEF Steady
<1> HIDE DEF t0
<1>7. t1 \subseteq Within(v, s)
  BY <1>1, <1>6, TurnedWithin
<1> HIDE DEF t1
<1>8. t2 \subseteq Within(v, s)
  BY <1>1, <1>7, TurnedWithin
<1> HIDE DEF t2
<1>9. t3 \subseteq Within(v, s)
  BY <1>1, <1>8, TurnedWithin
<1> HIDE DEF t3
<1>10. PICK x \in t3 : y \in Cleanup(x, s, c)
  BY <1>2, <1>5
<1>11. x \in Within(v, s) /\ x \in Live(s) /\ x \in Worlds
  BY <1>1, <1>9, WithinLive
<1>12. x.ctx[c].job.active /\ x.ctx[c].job.slot = w.ctx[c].job.slot
  BY <1>4, <1>11 DEF Within
<1>13. x \in Kept(w)
  BY <1>1, <1>3, <1>11, KeptStep DEF Within
<1>14. w.ctx[c].job.slot \in Slots
  BY <1>3 DEF Worlds, Records, Jobs
<1>15. x.slot[s][w.ctx[c].job.slot].ent # 0 /\ IsCustom(x, c, i, x.slot[s][i])
  BY <1>13, <1>14 DEF Kept, IsCustom
<1>16. y.trouble = x.trouble
  <2>1. x.trouble <= y.trouble
    BY <1>10, <1>11, CleanupHides
  <2>2. v.trouble <= x.trouble /\ x.trouble \in Nat /\ w.trouble \in Nat
    BY <1>3, <1>11 DEF Within, Worlds
  <2>q. QED
    BY <1>1, <2>1, <2>2
<1>q. QED
  BY <1>10, <1>11, <1>12, <1>15, <1>16, CleanupSpares

\* The update of a state leaves the slots and the cleanup jobs of the others alone.
LEMMA UpdateOthers ==
    ASSUME NEW w \in Sound, NEW s \in States, NEW y \in ModuleUpdate(w, s)
    PROVE  /\ \A t \in States : t # s => y.slot[t] = w.slot[t]
           /\ \A d \in Contexts : w.ctx[d].state # s =>
                 (y.ctx[d].job.active <=> w.ctx[d].job.active)
<1> DEFINE v == Tick(At(w, s))
           c == Found(v, s)
           before == v.slot[s]
           t0 == Ordered(v, s, c)
           t1 == Turned(t0, s, c, 0, before)
           t2 == Turned(t1, s, c, 1, before)
           t3 == Turned(t2, s, c, 2, before)
<1>1. /\ v \in Live(s) /\ v \in Kept(w) /\ v.slot = w.slot
      /\ \A d \in Contexts : v.ctx[d] \in Alike(w.ctx[d])
      /\ Holding(v, s) = Holding(w, s)
  BY UpdateBegins
<1>2. ModuleUpdate(w, s) = IF ~HasWork(v, s) THEN NativeUpdate(v, s)
                           ELSE UNION {Cleanup(x, s, c) : x \in t3}
  BY UpdateParts
<1> HIDE DEF v, before
<1>3. v \in Worlds /\ w \in Worlds
  BY <1>1, LiveWorld, SoundWorld
<1>4. /\ \A t \in States : t # s => v.slot[t] = w.slot[t]
      /\ \A d \in Contexts : v.ctx[d].job.active <=> w.ctx[d].job.active
  BY <1>1 DEF Alike
<1>5. ASSUME NEW x \in Within(v, s)
      PROVE  /\ \A t \in States : t # s => x.slot[t] = w.slot[t]
             /\ \A d \in Contexts : x.ctx[d].job.active <=> w.ctx[d].job.active
  BY <1>4 DEF Within
<1>6. CASE ~HasWork(v, s)
  <2>1. y \in Within(v, s)
    BY <1>1, <1>2, <1>3, <1>6, NativesCalm DEF Steady
  <2>q. QED
    BY <1>5, <2>1
<1>7. CASE HasWork(v, s)
  <2>1. c \in Contexts /\ v.ctx[c].state = s
    BY <1>3, <1>7, FoundFacts DEF HasWork
  <2>2. w.ctx[c].state = s
    BY <1>1, <2>1 DEF Alike
  <2> HIDE DEF c
  <2>3. t0 \subseteq Within(v, s)
    BY <1>1, <2>1, OrderedSteady DEF Steady
  <2> HIDE DEF t0
  <2>4. t1 \subseteq Within(v, s)
    BY <1>1, <2>1, <2>3, TurnedWithin
  <2> HIDE DEF t1
  <2>5. t2 \subseteq Within(v, s)
    BY <1>1, <2>1, <2>4, TurnedWithin
  <2> HIDE DEF t2
  <2>6. t3 \subseteq Within(v, s)
    BY <1>1, <2>1, <2>5, TurnedWithin
  <2> HIDE DEF t3
  <2>7. PICK x \in t3 : y \in Cleanup(x, s, c)
    BY <1>2, <1>7
  <2>8. x \in Within(v, s) /\ x \in Live(s)
    BY <1>1, <2>6, WithinLive
  <2>9. /\ \A t \in States : t # s => y.slot[t] = x.slot[t]
        /\ \A d \in Contexts : d # c => y.ctx[d].job = x.ctx[d].job
    BY <2>1, <2>7, <2>8, CleanupOthers
  <2>q. QED
    BY <1>5, <2>2, <2>8, <2>9
<1>q. QED
  BY <1>6, <1>7

-----------------------------------------------------------------------------
(* What the updates do. *)

\* The inputs are counted, so a step that counts neither an input nor a trouble is
\* an update that took no fallback of the game.
Counted == events \in [{"create", "use", "ask", "hit"} -> Nat]

LEMMA InitCounted == ASSUME Init PROVE Counted
BY DEF Init, Limit, Counted

LEMMA InputCounts ==
    ASSUME Counted, NEW kind \in {"create", "use", "ask", "hit"}, Input(kind)
    PROVE  Counted' /\ events' # events
<1>1. events[kind] \in Nat
  BY DEF Counted
<1>q. QED
  BY <1>1 DEF Input, Counted

LEMMA NextCounted == ASSUME Counted, [Next]_vars PROVE Counted'
<1>1. CASE UNCHANGED events
  BY <1>1 DEF Counted
<1>2. ASSUME NEW s \in States, NEW i \in Slots, NEW kind, CreateBuddy(s, i, kind) PROVE Counted'
  BY <1>2, InputCounts DEF CreateBuddy
<1>3. ASSUME NEW s \in States, NEW i \in Slots, TryUseBuddy(s, i) PROVE Counted'
  BY <1>3, InputCounts DEF TryUseBuddy
<1>4. ASSUME NEW s \in States, NEW i \in Slots,
             ChangeBuddyState(s, i) \/ RequestUnsummon(s, i)
      PROVE  Counted'
  BY <1>4, InputCounts DEF ChangeBuddyState, RequestUnsummon
<1>5. ASSUME NEW e \in Entities, Hit(e) PROVE Counted'
  BY <1>5, InputCounts DEF Hit
<1>q. QED
  BY <1>1, <1>2, <1>3, <1>4, <1>5 DEF Next, Update, OwnerMoves, Despawn, RecallArrives,
     PoolRenews, Rare, vars

LEMMA RareCounts ==
    ASSUME IInv
    PROVE  /\ \A s \in States : OwnerMoves(s) => trouble' # trouble
           /\ \A s \in States, i \in Slots : Despawn(s, i) => trouble' # trouble
           /\ \A s \in States, i \in Slots, e \in Entities :
                 RecallArrives(s, i, e) => trouble' # trouble
           /\ \A mgr, table : PoolRenews(mgr, table) => trouble' # trouble
<1> DEFINE n == trouble + 1
<1>1. ASSUME NEW s \in States, OwnerMoves(s) PROVE trouble' = n
  BY <1>1 DEF OwnerMoves, Becomes, World
<1>2. ASSUME NEW s \in States, NEW i \in Slots, Despawn(s, i) PROVE trouble' = n
  BY <1>2 DEF Despawn, Becomes, World
<1>3. ASSUME NEW s \in States, NEW i \in Slots, NEW e \in Entities, RecallArrives(s, i, e)
      PROVE  trouble' = n
  <2> DEFINE cmd == [state |-> s, slot |-> i, ent |-> e]
             w == [World EXCEPT !.trouble = @ + 1]
  <2>1. PICK v \in Expired(w) : Becomes(v) \/ \E p : Becomes([v EXCEPT !.cmds[p] = cmd])
    BY <1>3 DEF RecallArrives
  <2> HIDE DEF w, cmd
  <2>2. PICK q : v = [w EXCEPT !.cmds = q]
    BY DEF Expired
  <2>3. v.trouble = n
    BY <2>2 DEF w, World
  <2>4. \A p : [v EXCEPT !.cmds[p] = cmd].trouble = n
    BY <2>2 DEF w, World
  <2>q. QED
    BY <2>1, <2>3, <2>4 DEF Becomes
<1>4. ASSUME NEW mgr, NEW table, PoolRenews(mgr, table) PROVE trouble' = n
  BY <1>4 DEF PoolRenews, Becomes, World
<1>5. trouble \in Nat
  <2>1. World.trouble = trouble
    BY DEF World
  <2>q. QED
    BY <2>1, SoundWorld DEF IInv, Worlds
<1>6. n # trouble
  BY <1>5
<1> HIDE DEF n
<1>q. QED
  BY <1>1, <1>2, <1>3, <1>4, <1>6

LEMMA QuietStep ==
    ASSUME IInv, Counted, [Next]_vars, events' = events, trouble' = trouble
    PROVE  \/ UNCHANGED vars
           \/ \E t \in States : \E y \in ModuleUpdate(World, t) :
                 World' = y /\ y.trouble = World.trouble
<1>1. ASSUME NEW t \in States, Update(t)
      PROVE  \E y \in ModuleUpdate(World, t) : World' = y /\ y.trouble = World.trouble
  <2>1. PICK y \in ModuleUpdate(World, t) : Becomes(y)
    BY <1>1 DEF Update
  <2>2. y \in Worlds
    BY SoundWorld, ModuleUpdateKept, KeptWorld DEF IInv
  <2>3. World' = y
    BY <2>1, <2>2, BecomesWorld
  <2>4. y.trouble = World.trouble
    BY <2>1 DEF Becomes, World
  <2>q. QED
    BY <2>3, <2>4
<1>2. ASSUME NEW t \in States, NEW i \in Slots, NEW kind
      PROVE  ~CreateBuddy(t, i, kind) /\ ~TryUseBuddy(t, i)
  BY InputCounts DEF CreateBuddy, TryUseBuddy
<1>3. ASSUME NEW t \in States, NEW i \in Slots
      PROVE  ~ChangeBuddyState(t, i) /\ ~RequestUnsummon(t, i)
  BY InputCounts DEF ChangeBuddyState, RequestUnsummon
<1>4. ASSUME NEW e \in Entities PROVE ~Hit(e)
  BY InputCounts DEF Hit
<1>q. QED
  BY <1>1, <1>2, <1>3, <1>4, RareCounts DEF Next

\* A buddy taken back in its update while one in a hundred of its health is left is
\* out of the world when the update ends: whatever worlds the update passes through,
\* the slot stays quiet until its turn, its turn clears it away, and nothing after
\* that puts the buddy back (HookBuddyModuleUpdate).
THEOREM RecallsHide == Spec => RecallHides
<1>1. ASSUME IInv, Counted, [Next]_vars
      PROVE  [\A s \in States, i \in Slots :
          LET c == Found(World, s) IN
          /\ events' = events /\ trouble' = trouble
          /\ slot[s][i].st = "removing" /\ slot'[s][i].st = "active"
          /\ Holding(World, s) # {} /\ ctx[c].seen /\ IsCustom(World, c, i, slot[s][i])
          /\ Percent(World, slot[s][i]) > 0
          => slot[s][i].ent \notin out']_vars
  <2> SUFFICES ASSUME NEW s \in States, NEW i \in Slots,
                      events' = events, trouble' = trouble,
                      slot[s][i].st = "removing", slot'[s][i].st = "active",
                      Holding(World, s) # {}, ctx[Found(World, s)].seen,
                      IsCustom(World, Found(World, s), i, slot[s][i]),
                      Percent(World, slot[s][i]) > 0
               PROVE  slot[s][i].ent \notin out'
    OBVIOUS
  <2>1. ~UNCHANGED vars
    BY DEF vars
  <2>2. PICK t \in States : \E y \in ModuleUpdate(World, t) :
                               World' = y /\ y.trouble = World.trouble
    BY <1>1, <2>1, QuietStep
  <2>3. PICK y \in ModuleUpdate(World, t) : World' = y /\ y.trouble = World.trouble
    BY <2>2
  <2>4. World.slot = slot /\ World.ctx = ctx /\ y.slot = slot' /\ y.out = out'
    BY <2>3 DEF World
  <2>5. World \in Sound
    BY <1>1 DEF IInv
  <2> HIDE DEF World
  <2>6. t = s
    BY <2>4, <2>5, UpdateOthers
  <2>q. QED
    BY <2>3, <2>4, <2>5, <2>6, UpdateHides
<1>2. Init => IInv /\ Counted
  BY InitSound, InitCounted DEF IInv
<1>3. IInv /\ Counted /\ [Next]_vars => IInv' /\ Counted'
  BY NextSound, NextCounted DEF IInv
<1>q. QED
  BY <1>1, <1>2, <1>3, PTL DEF Spec, RecallHides

\* When the update of a state ends its cleanup job, no other healthy custom buddy of
\* the state is left standing beside the one the job keeps, unless it is recovering
\* (ApplyDeferredCustomSwitchCleanup).
THEOREM CleanupsLeaveOne == Spec => CleanupLeavesOne
<1>1. ASSUME IInv, Counted, [Next]_vars
      PROVE  [\A s \in States, c \in Contexts :
          LET job == ctx[c].job
              mine == ctx[c].state = s /\ c = Found(World, s)
              keep == slot'[s][job.slot].ent
          IN /\ events' = events /\ trouble' = trouble
             /\ job.active /\ ~ctx'[c].job.active /\ mine /\ keep # 0
             => \A i \in Slots \ {job.slot} :
                   /\ slot[s][i].ent # 0 /\ ctx[c].custom[i] = slot[s][i].ent
                   /\ Rate(life'[slot[s][i].ent]) > 0 /\ slot'[s][i].ent \in out'
                   => "gate" \in slot'[s][i].flags \/ ctx'[c].zero[i].active]_vars
  <2> SUFFICES ASSUME NEW s \in States, NEW c \in Contexts,
                      events' = events, trouble' = trouble,
                      ctx[c].job.active, ~ctx'[c].job.active,
                      ctx[c].state = s, c = Found(World, s),
                      slot'[s][ctx[c].job.slot].ent # 0,
                      NEW i \in Slots \ {ctx[c].job.slot},
                      slot[s][i].ent # 0, ctx[c].custom[i] = slot[s][i].ent,
                      Rate(life'[slot[s][i].ent]) > 0, slot'[s][i].ent \in out'
               PROVE  "gate" \in slot'[s][i].flags \/ ctx'[c].zero[i].active
    OBVIOUS
  <2>1. ~UNCHANGED vars
    BY DEF vars
  <2>2. PICK t \in States : \E y \in ModuleUpdate(World, t) :
                               World' = y /\ y.trouble = World.trouble
    BY <1>1, <2>1, QuietStep
  <2>3. PICK y \in ModuleUpdate(World, t) : World' = y /\ y.trouble = World.trouble
    BY <2>2
  <2>4. /\ World.slot = slot /\ World.ctx = ctx
        /\ y.slot = slot' /\ y.out = out' /\ y.life = life' /\ y.ctx = ctx'
    BY <2>3 DEF World
  <2>5. World \in Sound /\ World \in Worlds
    BY <1>1, SoundWorld DEF IInv
  <2> HIDE DEF World
  <2>6. t = s
    BY <2>4, <2>5, UpdateOthers
  <2>7. /\ World.ctx[c].state = s /\ World.ctx[c].job.active /\ ~y.ctx[c].job.active
        /\ IsCustom(World, c, i, World.slot[s][i])
    BY <2>4 DEF IsCustom
  <2>8. y \in Kept(World) /\ World.ctx[c].job.slot \in Slots
    <3>1. World.ctx[c].job.slot \in Slots
      BY <2>5, <2>7 DEF Worlds, Records, Jobs
    <3>q. QED
      BY <2>3, <2>5, <3>1, ModuleUpdateKept
  <2>9. /\ y.slot[s][i].ent = World.slot[s][i].ent
        /\ World.slot[s][World.ctx[c].job.slot].ent # 0
    BY <2>4, <2>8 DEF Kept
  <2>10. Spared(y, s, c, i)
    BY <2>3, <2>4, <2>5, <2>6, <2>7, <2>9, UpdateSpares
  <2>q. QED
    BY <2>4, <2>9, <2>10 DEF Spared
<1>2. Init => IInv /\ Counted
  BY InitSound, InitCounted DEF IInv
<1>3. IInv /\ Counted /\ [Next]_vars => IInv' /\ Counted'
  BY NextSound, NextCounted DEF IInv
<1>q. QED
  BY <1>1, <1>2, <1>3, PTL DEF Spec, CleanupLeavesOne
=============================================================================
