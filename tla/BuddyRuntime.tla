---------------------------- MODULE BuddyRuntime ----------------------------
(***************************************************************************)
(* The upkeep of replaced Revenant buddies (buddy_fix.cpp).                *)
(*                                                                         *)
(* The game keeps one state object per Revenant, with a few buddy slots.   *)
(* Its own update does not fully manage a buddy whose entity a mod has     *)
(* replaced (a custom buddy).  The DLL hooks the entry points of that      *)
(* state machine, records the custom buddies it saw created and, once per  *)
(* update, repairs what the game left undone: stalled deploys, stuck       *)
(* removals, health that does not come back, and the buddy that stays out  *)
(* after another took its place.                                           *)
(*                                                                         *)
(* All hooks run on the game's thread, so each is one step.  What the game *)
(* does inside its own functions is external: a native function may do     *)
(* what it does for a buddy of its own, or nothing.  One step of the clock *)
(* stands for kZeroHpFallbackRegenIntervalTicks updates.                   *)
(***************************************************************************)
EXTENDS Integers, FiniteSets, FiniteSetsExt, BuddyTables

CONSTANTS
    States,       \* the game's buddy state objects: numbers, see Owner
    Slots,        \* buddy slots in use, a subset of 0..2
    MaxEntity,    \* bound: buddies ever created
    MaxHp,        \* full health; a regeneration step gives one point
    StableTicks,  \* kBuddyRegenStableTicks
    RepairTicks,  \* kPendingDeployRepairTicks
    CleanupTicks, \* kDelayedSwitchCleanupTicks
    MaxActive,    \* kZeroHpFallbackMaxActiveTicks
    CommandRoom,  \* kPendingBuddyRecallCommandCount
    Mode,         \* remote_owner_gate_fallback_mode: "original", "mixed" or "manual"
    Homes,        \* where a state's owner may play: "local", "remote"
    Kinds,        \* what is created: "vanilla", "npc" (other NpcParam), "chara" (CharaInit)
    PoolRoom,     \* g_player_game_data_table_expansions
    CreateFirst,  \* a state's first buddy is created before its other hooks run
    MaxCreate, MaxUse, MaxAsk, MaxHit,  \* bounds: inputs of each kind
    MaxTrouble    \* bound: native calls that raise, and rare inputs

ASSUME StatesAssumption  == States \subseteq Nat
ASSUME SlotsAssumption   == Slots \subseteq BuddySlots
ASSUME TimersAssumption  == {StableTicks, RepairTicks, CleanupTicks, MaxActive} \subseteq Nat
ASSUME BoundsAssumption  ==
    /\ {MaxEntity, CommandRoom, PoolRoom, MaxTrouble} \subseteq Nat /\ MaxHp \in Nat \ {0}
    /\ {MaxCreate, MaxUse, MaxAsk, MaxHit} \subseteq Nat
ASSUME ChoicesAssumption ==
    /\ Mode \in {"original", "mixed", "manual"} /\ Homes \subseteq {"local", "remote"}
    /\ Kinds \subseteq {"vanilla", "npc", "chara"} /\ CreateFirst \in BOOLEAN

VARIABLES
    slot,    \* state -> slot -> what the game stores there
    life,    \* entity -> health, or Unmade, or Gone when it is no longer found
    out,     \* the entities that stand in the world
    ctx,     \* g_buddy_state_contexts
    last,    \* g_last_buddy_state
    home,    \* state -> whose machine runs its owner
    lost,    \* the states whose owner's character cannot be found
    gate,    \* state -> the game's gate for remote owners: "closed", "vetoed", "open"
    cmds,    \* g_pending_buddy_recall_commands: place -> command, or NoCommand
    room,    \* capacity of the shared entity table
    pool,    \* the player data pool of the game and the expansions recorded for it
    pgd,     \* entity -> the player data it was made with
    trouble, \* native calls that have raised, and rare inputs so far
    events,  \* kind of input -> how many so far
    idle     \* the last step was an update that left everything as it was

vars == <<slot, life, out, ctx, last, home, lost, gate, cmds, room, pool, pgd, trouble, events, idle>>

None     == -1

\* the local player number of a state's owner, 1..7
Owner(s) == s % 10

Unmade   == -1
Gone     == -2
Entities == 1..MaxEntity
Contexts == 0..7                  \* kTrackedBuddyStateCount; 0 is the fallback
Flags    == {"unsummon", "summon", "continue", "gate", "deployed"}
Stages   == {"active", "deploying", "transition", "removing", "removed"}

Places   == 0..(CommandRoom - 1)  \* of g_pending_buddy_recall_commands

EmptySlot == [ent |-> 0, st |-> "active", pend |-> FALSE, flags |-> {}]
Commands  == [state : States, slot : Slots, ent : Entities]
NoCommand == [state |-> None, slot |-> 0, ent |-> 0]

\* the state's members in one record, which the hooks below transform
World == [slot |-> slot, life |-> life, out |-> out, ctx |-> ctx, last |-> last,
          home |-> home, lost |-> lost, gate |-> gate, cmds |-> cmds, room |-> room,
          pool |-> pool, pgd |-> pgd, trouble |-> trouble]
Becomes(w) ==
    /\ slot' = w.slot /\ life' = w.life /\ out' = w.out /\ ctx' = w.ctx
    /\ last' = w.last /\ home' = w.home /\ lost' = w.lost /\ gate' = w.gate
    /\ cmds' = w.cmds /\ room' = w.room /\ pool' = w.pool /\ pgd' = w.pgd
    /\ trouble' = w.trouble

\* mutant: an owner who is not found counts as local
LostIsLocal(w, s) == IF s \in w.lost THEN "local" ELSE w.home[s]

\* IsLocalBuddyAuthority; an owner who is not found is not a known authority
Side(w, s) == IF s \in w.lost THEN "unknown" ELSE w.home[s]

\* a native call: its normal outcomes, and the exception the hook swallows
Raised(w) == IF w.trouble < MaxTrouble THEN {[w EXCEPT !.trouble = @ + 1]} ELSE {}

---------------------------------------------------------------------------
(* Runtime contexts. *)

NoZero   == [active |-> FALSE, watch |-> FALSE, released |-> FALSE, healed |-> FALSE,
             ent |-> 0, stable |-> 0, ran |-> 0, hp |-> 0]
NoRecall == [active |-> FALSE, watch |-> FALSE, ent |-> 0, stable |-> 0, hp |-> 0]
NoStuck  == [watch |-> FALSE, ent |-> 0, age |-> 0]
NoRepair == [watch |-> FALSE, ent |-> 0, st |-> "active", pend |-> FALSE,
             age |-> 0, tried |-> 0]
NoJob    == [active |-> FALSE, slot |-> 0, ent |-> 0, due |-> 0]

\* ResetBuddyStateRuntimeContext
NoContext ==
    [state |-> None, known |-> FALSE, seen |-> FALSE, defer |-> None,
     custom |-> [i \in Slots |-> 0], ward |-> [i \in Slots |-> "none"],
     zero |-> [i \in Slots |-> NoZero], recall |-> [i \in Slots |-> NoRecall],
     stuck |-> [i \in Slots |-> NoStuck], repair |-> [i \in Slots |-> NoRepair],
     job |-> NoJob]
FreshContext(s, known) == [NoContext EXCEPT !.state = s, !.known = known]

Holding(w, s) == {c \in Contexts : w.ctx[c].state = s}

\* GetBuddyStateRuntime: the first context that holds the state; the fallback
\* takes a state nobody holds
Found(w, s) == Min(Holding(w, s))
Scoped(w, s) ==
    IF Holding(w, s) # {} THEN w ELSE [w EXCEPT !.ctx[0] = FreshContext(s, FALSE)]

TrackedOwner(o) == o > 0 /\ o < 8      \* IsTrackedBuddyOwnerSlot

\* mutant: the fallback context is opened first and keeps the state
ScopedTwice(w, s) ==
    LET v == Scoped(w, s) IN
    IF v.ctx[Owner(s)].state = s THEN v ELSE [v EXCEPT !.ctx[Owner(s)] = FreshContext(s, TRUE)]

\* GetBuddyStateRuntimeForOwner
OwnerScoped(w, s) ==
    LET o == Owner(s) IN
    IF ~TrackedOwner(o) THEN Scoped(w, s)
    ELSE IF w.ctx[o].state = s THEN [w EXCEPT !.ctx[o].known = TRUE]
    ELSE [w EXCEPT !.ctx[o] = FreshContext(s, TRUE)]
OwnerFound(w, s) == IF TrackedOwner(Owner(s)) THEN Owner(s) ELSE Found(w, s)

Seen(w, c) == [w EXCEPT !.ctx[c].seen = TRUE]

IsCustom(w, c, i, sl) == sl.ent # 0 /\ w.ctx[c].custom[i] = sl.ent

HasCustom(w, c) == \E i \in Slots : w.ctx[c].custom[i] # 0

\* HasActiveBuddyMaintenanceWork
HasWork(w, s) ==
    /\ Holding(w, s) # {}
    /\ LET c == w.ctx[Found(w, s)] IN
       /\ c.seen
       /\ \/ c.job.active \/ c.defer # None
          \/ \E i \in Slots : \/ c.custom[i] # 0
                              \/ c.zero[i].active \/ c.zero[i].watch
                              \/ c.recall[i].active \/ c.recall[i].watch
                              \/ c.stuck[i].watch \/ c.repair[i].watch

\* ++g_module_update_tick, seen by the timers that count from it
Upto(n, cap) == IF n < cap THEN n + 1 ELSE cap
AgedZero(z)   == [z EXCEPT !.stable = IF z.watch THEN Upto(@, StableTicks) ELSE @,
                           !.ran = IF z.active THEN Upto(@, MaxActive) ELSE @]
AgedRecall(r) == [r EXCEPT !.stable = IF r.watch THEN Upto(@, StableTicks) ELSE @]
AgedStuck(t)  == [t EXCEPT !.age = IF t.watch THEN Upto(@, StableTicks) ELSE @]
AgedRepair(p) == [p EXCEPT !.age = IF p.watch THEN Upto(@, RepairTicks) ELSE @,
                           !.tried = IF @ > 0 THEN Upto(@, RepairTicks + 1) ELSE @]
AgedSlot(c, i) ==
    IF i \notin Slots THEN c
    ELSE [c EXCEPT !.zero[i] = AgedZero(@), !.recall[i] = AgedRecall(@),
                   !.stuck[i] = AgedStuck(@), !.repair[i] = AgedRepair(@)]
Aged(c) ==
    IF c.state = None THEN c
    ELSE [AgedSlot(AgedSlot(AgedSlot(c, 0), 1), 2) EXCEPT
            !.job.due = IF @ > 0 THEN @ - 1 ELSE @]
Tick(w) ==
    [w EXCEPT !.ctx[0] = Aged(@), !.ctx[1] = Aged(@), !.ctx[2] = Aged(@), !.ctx[3] = Aged(@),
              !.ctx[4] = Aged(@), !.ctx[5] = Aged(@), !.ctx[6] = Aged(@), !.ctx[7] = Aged(@)]

---------------------------------------------------------------------------
(* Slots: the writes of the DLL, and health. *)

Control(w, s, i, st, flags) ==
    [w EXCEPT !.slot[s][i] = [@ EXCEPT !.st = st, !.pend = FALSE, !.flags = flags]]

\* NormalizeBuddyPersistentFlags drops all the flags modelled here
ResetSlot(w, s, i)          == Control(w, s, i, "active", {})
ShapeForUnsummon(w, s, i)   == Control(w, s, i, "transition", {"unsummon", "deployed"})
ShapeForResummon(w, s, i)   == Control(w, s, i, "active", {"continue"})

\* SetZeroHpFallbackRecoveryGate writes the flags of a snapshot back
SetGate(w, s, i, snap, on) ==
    [w EXCEPT !.slot[s][i].flags = IF on THEN snap.flags \cup {"gate"} ELSE snap.flags \ {"gate"}]

Hp(w, sl)   == IF sl.ent = 0 THEN Gone ELSE w.life[sl.ent]
Rate(hp)    == (hp * 100) \div MaxHp
\* SafeGetBuddyHpRate: below one in a hundred it is 0 although the buddy lives
Percent(w, sl) == Rate(Hp(w, sl))
Half        == 50                 \* kZeroHpFallbackReleaseHpRate

\* TryReadCustomBuddyContext
Readable(w, c, i, sl) == IsCustom(w, c, i, sl) /\ Hp(w, sl) >= 0

StopZero(w, c, i, snap) ==
    LET z == w.ctx[c].zero[i]
        v == [w EXCEPT !.ctx[c].zero[i] = NoZero]
    IN IF ~z.active /\ ~z.watch THEN w
       ELSE IF z.active /\ ~z.released /\ w.last # None THEN SetGate(v, w.last, i, snap, FALSE)
       ELSE v

StopRecall(w, c, i) == [w EXCEPT !.ctx[c].recall[i] = NoRecall]
StopStuck(w, c, i)  == [w EXCEPT !.ctx[c].stuck[i] = NoStuck]
StopRepair(w, c, i) == [w EXCEPT !.ctx[c].repair[i] = NoRepair]

---------------------------------------------------------------------------
(* The game's own functions.  For a custom buddy they may stop at any point. *)

\* FUN_1403895e0 takes a requested deploy; FUN_1403897c0 places the buddy
Taken(sl)  == IF sl.ent # 0 /\ sl.st = "active" /\ sl.pend
              THEN {[sl EXCEPT !.st = "deploying", !.pend = FALSE]} ELSE {}
Placed(sl) == IF sl.ent # 0 /\ sl.st = "deploying" /\ ~sl.pend
              THEN {[sl EXCEPT !.st = "transition", !.flags = @ \cup {"deployed"}]} ELSE {}
\* a buddy out in the world that is asked to leave, is too far away or has died
Leaving(sl) == IF sl.ent # 0 /\ sl.st = "transition" /\ "deployed" \in sl.flags
               THEN {[sl EXCEPT !.st = "removing", !.flags = {}]} ELSE {}
\* the removal of a dead buddy sets its recovery gate
Left(w, sl) == IF sl.ent # 0 /\ sl.st = "removing"
               THEN {[sl EXCEPT !.st = "active",
                                !.flags = IF Hp(w, sl) = 0 THEN {"gate"} ELSE {}]} ELSE {}

\* ApplyCustomCharaBuddyPreventNearDeath: the effect a replaced character needs;
\* HookApplySpEffect renews it for the slots of s that the game has just placed
Warded(w, c, slots, as) ==
    LET Ward(v, i) == IF i \in slots /\ v.ctx[c].ward[i] # "none"
                      THEN [v EXCEPT !.ctx[c].ward[i] = as] ELSE v
    IN Ward(Ward(Ward(w, 0), 1), 2)
OnPlaced(w, s, slots) ==
    IF slots = {} \/ Holding(w, s) = {} THEN {w}
    ELSE LET c == Found(w, s)
             chara == {i \in slots : IsCustom(w, c, i, w.slot[s][i])}
         IN {Warded(w, c, chara, "on")} \cup {Warded(v, c, chara, "due") : v \in Raised(w)}

\* every slot moves on to one of its moves or stays; a placed buddy stands in the
\* world, a dead one is gone from it once it has left
Advance(w, s, moves) ==
    LET choices == {f \in [Slots -> UNION {moves[i] \cup {w.slot[s][i]} : i \in Slots}] :
                      \A i \in Slots : f[i] \in moves[i] \cup {w.slot[s][i]}}
        placed(f) == {i \in Slots : f[i] # w.slot[s][i] /\ f[i].st = "transition"}
        buried(f) == {i \in Slots : /\ f[i] # w.slot[s][i] /\ f[i].st = "active"
                                    /\ "gate" \in f[i].flags}
        ents(f, slots) == {f[i].ent : i \in slots}
    IN UNION {OnPlaced([w EXCEPT !.slot[s] = f,
                                 !.out = (@ \cup ents(f, placed(f))) \ ents(f, buried(f))],
                       s, placed(f)) : f \in choices}

BuddyUpdate(w, s) ==
    Advance(w, s, [i \in Slots |-> Taken(w.slot[s][i])]) \cup Raised(w)
DeathRecovery(w, s) ==
    Advance(w, s, [i \in Slots |-> Placed(w.slot[s][i])]) \cup Raised(w)

\* the update of the whole state runs only for a local owner or an open gate
MayUpdate(w, s) == Side(w, s) = "local" \/ w.gate[s] = "open"
NativeUpdate(w, s) ==
    LET Moves(sl) == Taken(sl) \cup Placed(sl) \cup Leaving(sl) \cup Left(w, sl) IN
    (IF MayUpdate(w, s) THEN Advance(w, s, [i \in Slots |-> Moves(w.slot[s][i])]) ELSE {w})
    \cup Raised(w)

\* FUN_140386a20 takes the entity out of the world
NativeUnsummon(w, e) == [w EXCEPT !.out = @ \ {e}]

\* WorldOwnerGroupSetEntityActive may let a remote owner pass the gate
Activate(w, s) ==
    IF Side(w, s) = "remote" /\ w.gate[s] = "closed"
    THEN {[w EXCEPT !.gate[s] = g] : g \in {"closed", "vetoed", "open"}} ELSE {w}

---------------------------------------------------------------------------
(* One step of the upkeep of a slot: the worlds it may lead to, each with    *)
(* whether the step handled the slot.                                        *)

Done(w)   == [w |-> w, done |-> TRUE]
Pass(w)   == [w |-> w, done |-> FALSE]

\* mutant: the slot is restored, the entity never taken out
SlotOnly(w, s, c, i, snap) ==
    IF snap.st # "active" \/ snap.pend \/ Percent(w, snap) <= 0 \/ ~IsCustom(w, c, i, snap)
    THEN {Pass(w)} ELSE {Done(ResetSlot(w, s, i))}

\* StartPostRecallPulse: the game recalled the buddy but left it standing
PostRecall(w, s, c, i, snap) ==
    IF snap.st # "active" \/ snap.pend \/ Percent(w, snap) <= 0 \/ ~IsCustom(w, c, i, snap)
    THEN {Pass(w)}
    ELSE {Done(ResetSlot(NativeUnsummon(w, snap.ent), s, i))}
         \cup {Pass(ResetSlot(v, s, i)) : v \in Raised(w)}

\* UpdatePendingDeployRepair
Stalled(snap) ==
    \/ snap.st = "active" /\ snap.pend
    \/ snap.st = "deploying" /\ ~snap.pend
    \/ snap.st = "transition" /\ snap.pend
Repair(w, s, c, i, snap) ==
    LET r == w.ctx[c].repair[i]
        same == r.watch /\ r.ent = snap.ent /\ r.st = snap.st /\ r.pend = snap.pend
        begun == [w EXCEPT !.ctx[c].repair[i] =
                    [watch |-> TRUE, ent |-> snap.ent, st |-> snap.st, pend |-> snap.pend,
                     age |-> 0, tried |-> 0]]
        tried == [w EXCEPT !.ctx[c].repair[i].tried = 1]
        ready == IF snap.st = "active" THEN Activate(tried, s) ELSE {tried}
        after == UNION {UNION {DeathRecovery(u, s) : u \in BuddyUpdate(v, s)} : v \in ready}
    IN CASE ~(IsCustom(w, c, i, snap) /\ Stalled(snap)) -> {Pass(StopRepair(w, c, i))}
         [] IsCustom(w, c, i, snap) /\ Stalled(snap) /\ ~same -> {Pass(begun)}
         [] same /\ Stalled(snap) /\ IsCustom(w, c, i, snap) /\
              (r.age < RepairTicks \/ (snap.st # "transition" /\ r.tried \in 1..RepairTicks)) ->
            {Pass(w)}
         [] OTHER ->
            IF snap.st = "transition"
            THEN {Done(StopRepair(Control(w, s, i, "transition", snap.flags), c, i))}
            ELSE {IF v.slot[s][i] # snap THEN Done(StopRepair(v, c, i)) ELSE Pass(v) : v \in after}

\* UpdateStuckRecoveryState; the last element of the loop body that follows it
\* starts the recall a second time
Stuck(w, s, c, i, snap) ==
    LET k == w.ctx[c].stuck[i]
        cand == snap.st = "removing" /\ ~snap.pend /\ Readable(w, c, i, snap)
        begun == [w EXCEPT !.ctx[c].stuck[i] = [watch |-> TRUE, ent |-> snap.ent, age |-> 0]]
        free == Rate(Hp(w, snap)) >= Half
        stopped == StopZero(StopRecall(w, c, i), c, i, snap)
        freed == StopStuck(Control(stopped, s, i, "active", IF free THEN {} ELSE {"gate"}), c, i)
    IN CASE ~cand -> {Pass(StopStuck(w, c, i))}
         [] cand /\ ~(k.watch /\ k.ent = snap.ent) -> {Pass(begun)}
         [] cand /\ k.watch /\ k.ent = snap.ent /\ k.age < StableTicks -> {Pass(w)}
         [] OTHER ->
            IF Percent(w, snap) > 0
            THEN {Done(r.w) : r \in PostRecall(freed, s, c, i, freed.slot[s][i])}
            ELSE {Done(freed)}

\* what both regenerations write: one point of health, or an exception
Healed(w, e) == [w EXCEPT !.life[e] = @ + 1]

\* UpdateZeroHpFallbackRegen
Recalled(snap) == snap.st = "active" /\ ~snap.pend /\ "deployed" \notin snap.flags
\* mutant: a slot whose recovery gate the game set is left to the game
GateNotStalled(w, c, i, snap) ==
    LET z == w.ctx[c].zero[i] IN
    /\ Readable(w, c, i, snap) /\ ((z.active \/ z.watch) => z.ent = snap.ent)
    /\ Hp(w, snap) < MaxHp
    /\ z.active \/ (Recalled(snap) /\ Hp(w, snap) = 0 /\ "gate" \notin snap.flags)
ZeroCandidate(w, c, i, snap) ==
    LET z == w.ctx[c].zero[i] IN
    /\ Readable(w, c, i, snap)
    /\ (z.active \/ z.watch) => z.ent = snap.ent
    /\ z.active \/ Recalled(snap)
    /\ Hp(w, snap) < MaxHp
    /\ z.active \/ Hp(w, snap) = 0 \/ "gate" \in snap.flags
ZeroOver(w, c, i, snap) ==
    LET z == w.ctx[c].zero[i] IN
    z.active /\ ((z.healed /\ Hp(w, snap) = 0) \/ z.ran >= MaxActive)
ZeroWatch(w, c, i, snap) ==
    [w EXCEPT !.ctx[c].zero[i] =
        [NoZero EXCEPT !.watch = TRUE, !.ent = snap.ent, !.hp = Hp(w, snap)]]
ZeroStart(w, s, c, i, snap) ==
    LET v == [w EXCEPT !.ctx[c].zero[i] = [NoZero EXCEPT !.active = TRUE, !.ent = snap.ent]]
    IN SetGate(v, s, i, snap, TRUE)
ZeroHeal(w, s, c, i, snap) ==
    LET v == [Healed(w, snap.ent) EXCEPT !.ctx[c].zero[i].healed = TRUE]
        z == v.ctx[c].zero[i]
        u == IF ~z.released /\ Rate(Hp(v, snap)) >= Half
             THEN [SetGate(v, s, i, v.slot[s][i], FALSE) EXCEPT !.ctx[c].zero[i].released = TRUE]
             ELSE v
    IN {Done(IF Hp(u, snap) >= MaxHp THEN StopZero(u, c, i, u.slot[s][i]) ELSE u)}
       \cup {Done(StopZero(x, c, i, snap)) : x \in Raised(w)}
Zero(w, s, c, i, snap) ==
    LET z == w.ctx[c].zero[i] IN
    CASE ~ZeroCandidate(w, c, i, snap) -> {Pass(StopZero(w, c, i, snap))}
      [] ZeroCandidate(w, c, i, snap) /\ ZeroOver(w, c, i, snap) -> {Done(StopZero(w, c, i, snap))}
      [] ZeroCandidate(w, c, i, snap) /\ z.active /\ ~ZeroOver(w, c, i, snap) ->
         ZeroHeal(w, s, c, i, snap)
      [] OTHER ->
         IF ~z.watch \/ z.hp # Hp(w, snap) THEN {Pass(ZeroWatch(w, c, i, snap))}
         ELSE IF z.stable < StableTicks THEN {Pass(w)}
         ELSE ZeroHeal(ZeroStart(w, s, c, i, snap), s, c, i, snap)

\* mutant: a full buddy is healed too
FullHealed(w, c, i, snap) ==
    /\ Readable(w, c, i, snap) /\ ~w.ctx[c].zero[i].active
    /\ Recalled(snap) /\ "gate" \notin snap.flags /\ Hp(w, snap) > 0

\* UpdateRecallRegen and StartRecallRegen
RecallCandidate(w, c, i, snap) ==
    LET r == w.ctx[c].recall[i] IN
    /\ Readable(w, c, i, snap) /\ ~w.ctx[c].zero[i].active
    /\ Recalled(snap) /\ "gate" \notin snap.flags
    /\ (r.active \/ r.watch) => r.ent = snap.ent
    /\ Hp(w, snap) \in 1..(MaxHp - 1)
RecallHeal(w, c, i, snap) ==
    LET v == Healed(w, snap.ent) IN
    {IF Hp(v, snap) >= MaxHp THEN StopRecall(v, c, i)
     ELSE [v EXCEPT !.ctx[c].recall[i] = [NoRecall EXCEPT !.active = TRUE, !.ent = snap.ent]]}
    \cup {StopRecall(x, c, i) : x \in Raised(w)}
Recall(w, c, i, snap) ==
    LET r == w.ctx[c].recall[i] IN
    CASE ~RecallCandidate(w, c, i, snap) -> {StopRecall(w, c, i)}
      [] RecallCandidate(w, c, i, snap) /\ ~r.active /\ (~r.watch \/ r.hp # Hp(w, snap)) ->
         {[w EXCEPT !.ctx[c].recall[i] =
              [NoRecall EXCEPT !.watch = TRUE, !.ent = snap.ent, !.hp = Hp(w, snap)]]}
      [] RecallCandidate(w, c, i, snap) /\ ~r.active /\ r.watch /\ r.hp = Hp(w, snap)
           /\ r.stable < StableTicks -> {w}
      [] OTHER -> RecallHeal(w, c, i, snap)

\* EnsureCustomCharaBuddyPreventNearDeath
Ensured(w, c, i, snap) ==
    IF /\ w.ctx[c].ward[i] = "due" /\ Readable(w, c, i, snap)
       /\ snap.st = "transition" /\ ~snap.pend
    THEN {Warded(w, c, {i}, "on")} \cup Raised(w) ELSE {w}

\* The steps for one slot, in the order of HookBuddyModuleUpdate's loop.  All
\* read the snapshot taken at its head.
Handled(results) == {r \in results : r.done}
Open(results) == {r.w : r \in {q \in results : ~q.done}}
Upkeep(w, s, c, i, before) ==
    LET snap == w.slot[s][i]
        first == UNION {IF before[i].st = "removing" THEN PostRecall(v, s, c, i, snap) ELSE {Pass(v)} :
                          v \in Ensured(w, c, i, snap)}
        second == Handled(first) \cup UNION {Repair(v, s, c, i, snap) : v \in Open(first)}
        third == Handled(second) \cup UNION {Stuck(v, s, c, i, snap) : v \in Open(second)}
        Fourth(v) == IF Side(v, s) = "local" THEN Zero(v, s, c, i, snap) ELSE {Pass(v)}
        fourth == Handled(third) \cup UNION {Fourth(v) : v \in Open(third)}
        Fifth(v) == IF Side(v, s) = "local" THEN Recall(v, c, i, snap) ELSE {v}
    IN {r.w : r \in Handled(fourth)} \cup UNION {Fifth(v) : v \in Open(fourth)}

---------------------------------------------------------------------------
(* Forced transitions, recall commands, the delayed cleanup. *)

Forced(sl, ask) ==
    \/ sl.st \in {"removing", "removed"}
    \/ sl.st = "active" /\ sl.pend /\ "unsummon" \in sl.flags
    \/ sl.st = "transition" /\ ask \in sl.flags

\* ForceUnsummonActiveSlot
ForceUnsummon(w, s, c, i, resummon) ==
    LET sl == w.slot[s][i]
        shaped == IF sl.st = "removed" \/ (sl.st = "active" /\ sl.pend /\ "unsummon" \in sl.flags)
                     \/ (sl.st = "transition" /\ "summon" \in sl.flags)
                  THEN ShapeForUnsummon(w, s, i) ELSE w
        hidden == StopRecall(NativeUnsummon(shaped, sl.ent), c, i)
    IN IF ~IsCustom(w, c, i, sl) \/ ~Forced(sl, IF resummon THEN "summon" ELSE "unsummon")
       THEN {Pass(w)}
       ELSE {Pass(v) : v \in Raised(shaped)}
            \cup (IF resummon THEN {Done(v) : v \in BuddyUpdate(ShapeForResummon(hidden, s, i), s)}
                  ELSE {Done(ResetSlot(hidden, s, i))})

\* ForceFreshResummonFromStableActiveSlot
FreshResummon(w, s, c, i) ==
    LET sl == w.slot[s][i]
        shaped == ShapeForUnsummon(w, s, i)
    IN IF ~IsCustom(w, c, i, sl) \/ sl.st # "transition" \/ sl.pend \/ "summon" \in sl.flags
       THEN {w}
       ELSE Raised(shaped)
            \cup {ResetSlot(StopRecall(NativeUnsummon(shaped, sl.ent), c, i), s, i)}

\* ScheduleDelayedSwitchCleanup, DeferForcedResummonForDelayedCleanup
Schedule(w, s, c, i) ==
    [w EXCEPT !.ctx[c].job = [active |-> TRUE, slot |-> i, ent |-> w.slot[s][i].ent,
                              due |-> CleanupTicks]]
Defer(w, s, c, i) ==
    LET sl == w.slot[s][i] IN
    IF w.ctx[c].job.active /\ w.ctx[c].defer = i /\ IsCustom(w, c, i, sl) /\ Forced(sl, "summon")
    THEN {Done(v) : v \in BuddyUpdate(ShapeForResummon(StopRecall(w, c, i), s, i), s)}
    ELSE {Pass(w)}

\* mutant: a buddy the game already took back is passed over
StandingOnly(w, s, c, i, keep) ==
    LET sl == w.slot[s][i]
    IN IF ~IsCustom(w, c, i, sl) \/ sl.ent = keep \/ sl.st = "active" \/ Percent(w, sl) <= 0
       THEN {w} ELSE {ResetSlot(NativeUnsummon(w, sl.ent), s, i)}

\* ProcessDelayedSwitchCleanup: every other custom buddy that is not recovering
Cleaned(w, s, c, i, keep) ==
    LET sl == w.slot[s][i]
        hidden == StopZero(StopRecall(NativeUnsummon(w, sl.ent), c, i), c, i, sl)
    IN IF \/ ~IsCustom(w, c, i, sl) \/ sl.ent = keep
          \/ "gate" \in sl.flags \/ w.ctx[c].zero[i].active \/ Percent(w, sl) <= 0
       THEN {w}
       ELSE {ResetSlot(hidden, s, i)} \cup Raised(w)
Cleanup(w, s, c) ==
    LET job == w.ctx[c].job
        sl == w.slot[s][job.slot]
        keep == IF sl.ent # 0 THEN sl.ent ELSE job.ent
        v == [w EXCEPT !.ctx[c].job = NoJob]
        Step(ws, i) == IF i \in Slots THEN UNION {Cleaned(u, s, c, i, keep) : u \in ws} ELSE ws
    IN IF ~job.active \/ job.due > 0 THEN {w}
       ELSE IF keep = 0 THEN {v} ELSE Step(Step(Step({v}, 0), 1), 2)

\* RunRemoteOwnerGateFallbackUpdate: a remote owner whose gate is vetoed
RemoteCandidate(w, s, c, i) ==
    LET sl == w.slot[s][i] IN
    /\ Side(w, s) = "remote" /\ w.gate[s] = "vetoed" /\ IsCustom(w, c, i, sl)
    /\ (sl.st = "active" /\ sl.pend) \/ (sl.st = "deploying" /\ ~sl.pend)
ByHand(w, s, cand, st, flags) ==
    LET Move(v, i) == IF i \in cand THEN Control(v, s, i, st, flags) ELSE v
    IN Move(Move(Move(w, 0), 1), 2)
RemoteFallback(w, s, c) ==
    LET cand == {i \in Slots : RemoteCandidate(w, s, c, i)}
        taken == IF Mode = "original" THEN BuddyUpdate(w, s)
                 ELSE {ByHand(w, s, {i \in cand : w.slot[s][i].pend}, "deploying", {})}
        placed(v) == IF Mode = "manual" THEN {[ByHand(v, s, cand, "transition", {"deployed"})
                                                EXCEPT !.out = @ \cup {v.slot[s][i].ent : i \in cand}]}
                     ELSE DeathRecovery(v, s)
        after == UNION {placed(v) : v \in taken}
        moved(v) == v.trouble = w.trouble /\ v.slot[s] # w.slot[s]
    IN IF cand = {} THEN {Pass(w)}
       ELSE {[w |-> v, done |-> moved(v)] : v \in after}

\* Commands that have waited too long are dropped whenever the table is walked.
\* Their age is left open
Expired(w) ==
    LET left == {q \in [Places -> {w.cmds[p] : p \in Places} \cup {NoCommand}] :
                    \A p \in Places : q[p] \in {w.cmds[p], NoCommand}}
    IN {[w EXCEPT !.cmds = q] : q \in left}

\* ProcessPendingRemoteBuddyRecallCommands: it claims at most one command per buddy
\* slot, by their place in the table
Commanded(w, s, c, cmd) ==
    LET sl == w.slot[s][cmd.slot] IN
    IF Side(w, s) = "local" \/ sl.ent # cmd.ent \/ ~IsCustom(w, c, cmd.slot, sl) THEN {w}
    ELSE {IF r.done THEN StopRepair(StopStuck(r.w, c, cmd.slot), c, cmd.slot) ELSE r.w :
            r \in ForceUnsummon(ShapeForUnsummon(w, s, cmd.slot), s, c, cmd.slot, FALSE)}
Claimed(w, s, c) ==
    LET mine == {p \in Places : w.cmds[p].state = s}
        p == Min(mine)
    IN IF mine = {} THEN {w} ELSE Commanded([w EXCEPT !.cmds[p] = NoCommand], s, c, w.cmds[p])
RecallCommands(w, s, c) ==
    LET Next1(ws) == UNION {Claimed(v, s, c) : v \in ws}
    IN IF Side(w, s) = "unknown" THEN {w} ELSE Next1(Next1(Next1(Expired(w))))

---------------------------------------------------------------------------
(* The hooks. *)

At(w, s) == [w EXCEPT !.last = s]

\* EnsurePlayerGameDataPoolCapacity: the pools it may leave
GrownPool(p) ==
    LET mine == p.mgr \in p.recs
        rest == IF mine THEN p.recs \ {p.mgr} ELSE p.recs
    IN CASE p.table = "grown" -> p
         [] p.table = "first" /\ mine -> [p EXCEPT !.table = "grown"]
         [] p.table # "grown" /\ ~(p.table = "first" /\ mine) ->
            IF Cardinality(rest) >= PoolRoom THEN [p EXCEPT !.recs = rest]
            ELSE [p EXCEPT !.table = "grown", !.recs = rest \cup {p.mgr}]

\* HookPlayerGameDataAlloc while a buddy is created: a fixed entry, or the game's own
NativePgd == <<0, 0>>
Allocated(w, s, i, kind, e) ==
    IF kind # "chara" \/ Owner(s) \notin FixedOwners THEN {w}
    ELSE LET v == [w EXCEPT !.pool = GrownPool(w.pool)] IN
         {IF v.pool.table = "grown"
          THEN [v EXCEPT !.pgd[e] = <<v.pool.mgr, FixedSlot(Owner(s), i)>>] ELSE v}
         \cup Raised(w)

\* HookCreateBuddy, HookCreateEntityForOwner: the entity table grows first; the
\* record of the slot is that of the buddy just made, or none
NextEntity(w) == Min({e \in Entities : w.life[e] = Unmade})
Create(w, s, i, kind) ==
    LET grown == At([w EXCEPT !.room = GrownRoom(@)], s)
        v == OwnerScoped(grown, s)
        c == OwnerFound(v, s)
        u == StopZero(StopRecall(Seen(v, c), c, i), c, i, v.slot[s][i])
        cleared == [u EXCEPT !.ctx[c] = [@ EXCEPT !.custom[i] = 0, !.ward[i] = "none"]]
        e == NextEntity(w)
        made == [cleared EXCEPT !.ctx[c] = [@ EXCEPT !.custom[i] = IF kind = "vanilla" THEN 0 ELSE e,
                                                     !.ward[i] = IF kind = "chara" THEN "due" ELSE "none"],
                                !.life[e] = MaxHp, !.slot[s][i] = [EmptySlot EXCEPT !.ent = e]]
    IN {cleared}
       \cup (IF EntitySlot(Owner(s), i) < v.room THEN Allocated(made, s, i, kind, e) ELSE {})

\* FindTrackedCustomCharaBuddyForController
Tracked(w, e) ==
    {c \in Contexts : \E i \in Slots : w.ctx[c].ward[i] # "none" /\ w.ctx[c].custom[i] = e}
\* ResolvePlayerInsControllerAuthority: without a known owner the game decides
ByAuthority(w, s) == IF Side(w, s) = "unknown" THEN "native" ELSE Side(w, s)
\* HookPlayerInsControllerEligibility: whose controller a replaced character gets
Controller(w, e) ==
    IF Tracked(w, e) = {} THEN "native" ELSE ByAuthority(w, w.ctx[Min(Tracked(w, e))].state)

\* ChangeBuddyState and RequestUnsummon of the game
NativeChange(w, s, i) ==
    LET sl == w.slot[s][i] IN
    IF sl.ent = 0 THEN {w}
    ELSE CASE sl.st = "active" /\ "gate" \notin sl.flags -> {[w EXCEPT !.slot[s][i].pend = TRUE]}
           [] sl.st = "transition" -> {[w EXCEPT !.slot[s][i].flags = @ \cup {"summon"}]}
           [] OTHER -> {w}
NativeRequest(w, s, i) ==
    LET sl == w.slot[s][i] IN
    IF sl.ent # 0 /\ (sl.st = "transition" \/ sl.pend)
    THEN {[w EXCEPT !.slot[s][i].flags = @ \cup {"unsummon"}]} ELSE {w}

\* RunOriginalBuddyModuleUpdate
Kick(w, s, c, i) ==
    LET sl == w.slot[s][i]
        ready == IF sl.st = "active" /\ sl.pend /\ IsCustom(w, c, i, sl) THEN Activate(w, s) ELSE {w}
    IN IF sl.pend \/ sl.flags \cap {"summon", "unsummon"} # {}
       THEN UNION {NativeUpdate(v, s) : v \in ready} ELSE {w}

\* HookChangeBuddyState
AfterFallback(w, s, c, i) ==
    UNION {IF r.done THEN {r.w}
           ELSE UNION {IF q.done THEN {q.w} ELSE FreshResummon(q.w, s, c, i) :
                          q \in ForceUnsummon(r.w, s, c, i, TRUE)} :
             r \in Defer(w, s, c, i)}
ChangeHook(w, s, i) ==
    LET v == Scoped(At(w, s), s)
        c == Found(v, s)
        u == Seen(v, c)
    IN IF ~HasWork(u, s) THEN NativeChange(u, s, i) \cup Raised(u)
       ELSE Raised(u)
            \cup UNION {IF r.done THEN {r.w} ELSE AfterFallback(r.w, s, c, i) :
                    r \in UNION {RemoteFallback(y, s, c) :
                       y \in UNION {Kick(x, s, c, i) : x \in NativeChange(u, s, i)}}}

\* HookRequestUnsummon.  A slot other than i that a switch has set moving
SwitchTarget(w, v, s, c, i) ==
    {j \in Slots \ {i} :
        /\ IsCustom(v, c, j, v.slot[s][j]) /\ v.slot[s][j] # w.slot[s][j]
        /\ \/ v.slot[s][j].pend \/ v.slot[s][j].st \in {"deploying", "transition"}
           \/ "deployed" \in v.slot[s][j].flags}
RequestHook(w, s, i) ==
    LET v == Scoped(At(w, s), s)
        c == Found(v, s)
        u == Seen(v, c)
        End(x) == LET to == SwitchTarget(u, x, s, c, i) IN
                  IF to # {} THEN {StopRecall(Schedule(x, s, c, Min(to)), c, i)}
                  ELSE {r.w : r \in ForceUnsummon(x, s, c, i, FALSE)}
    IN IF ~HasWork(u, s) THEN NativeRequest(u, s, i) \cup Raised(u)
       ELSE Raised(u)
            \cup UNION {End(r.w) : r \in UNION {RemoteFallback(y, s, c) :
                       y \in UNION {Kick(x, s, c, i) : x \in NativeRequest(u, s, i)}}}

\* IsZeroHpFallbackSummonBlocked
Blocked(w, s, c, i) ==
    LET z == w.ctx[c].zero[i]
        sl == w.slot[s][i]
    IN IF w.ctx[c].custom[i] = 0 \/ ~z.active \/ z.released THEN Pass(w)
       ELSE IF sl.ent # z.ent THEN Pass(StopZero(w, c, i, sl))
       ELSE IF Hp(w, sl) < 0 \/ Rate(Hp(w, sl)) < Half THEN Done(w)
       ELSE Pass([SetGate(w, s, i, sl, FALSE) EXCEPT !.ctx[c].zero[i].released = TRUE])

\* HookTryUseBuddy: the game refuses, or goes on to change the state
Deployed(w, s, c, i) ==
    LET sl == w.slot[s][i] IN
    IsCustom(w, c, i, sl) /\ "gate" \notin sl.flags /\ "deployed" \in sl.flags /\ Percent(w, sl) > 0
TryUse(w, s, i) ==
    LET v == Scoped(At(w, s), s)
        c == Found(v, s)
        b == Blocked(Seen(v, c), s, c, i)
        there == Deployed(b.w, s, c, i)
        sched == ~there /\ HasCustom(b.w, c)
        u == IF sched THEN [Schedule(b.w, s, c, i) EXCEPT !.ctx[c].defer = i] ELSE b.w
        Used(x) == LET y == StopRecall([x EXCEPT !.ctx[c].defer = None], c, i) IN
                   IF ~there /\ (sched \/ HasCustom(y, c)) THEN Schedule(y, s, c, i) ELSE y
        Refused(x) == LET y == [x EXCEPT !.ctx[c].defer = None] IN
                      IF sched THEN [y EXCEPT !.ctx[c].job = NoJob] ELSE y
    IN IF b.done THEN {b.w}
       ELSE {Refused(x) : x \in {u} \cup Raised(u)} \cup {Used(x) : x \in ChangeHook(u, s, i)}

\* HookBuddyModuleUpdate
ModuleUpdate(w, s) ==
    LET v == Tick(At(w, s))
        c == Found(v, s)
        pending == \E i \in Slots : LET sl == v.slot[s][i] IN
                      sl.st = "active" /\ sl.pend /\ IsCustom(v, c, i, sl)
        before == v.slot[s]
        native == UNION {NativeUpdate(x, s) : x \in IF pending THEN Activate(v, s) ELSE {v}}
        driven == {r.w : r \in UNION {RemoteFallback(x, s, c) : x \in native}}
        ordered == UNION {RecallCommands(x, s, c) : x \in driven}
        Step(ws, i) == IF i \in Slots THEN UNION {Upkeep(x, s, c, i, before) : x \in ws} ELSE ws
        kept == Step(Step(Step(ordered, 0), 1), 2)
    IN IF ~HasWork(v, s) THEN NativeUpdate(v, s) ELSE UNION {Cleanup(x, s, c) : x \in kept}

---------------------------------------------------------------------------
(* The specification. *)

Limit == [create |-> MaxCreate, use |-> MaxUse, ask |-> MaxAsk, hit |-> MaxHit]
Input(kind) ==
    events[kind] < Limit[kind] /\ events' = [events EXCEPT ![kind] = @ + 1] /\ idle' = FALSE
Rare == trouble < MaxTrouble /\ UNCHANGED events /\ idle' = FALSE

Update(s) ==
    /\ \E w \in ModuleUpdate(World, s) : Becomes(w) /\ idle' = (w = World)
    /\ UNCHANGED events

CreateBuddy(s, i, kind) ==
    /\ Input("create") /\ slot[s][i].ent = 0 /\ \E e \in Entities : life[e] = Unmade
    /\ \E w \in Create(World, s, i, kind) : Becomes(w)

Known(s) == CreateFirst => Holding(World, s) # {}
TryUseBuddy(s, i) ==
    /\ Input("use") /\ Known(s)
    /\ \E w \in TryUse(World, s, i) : Becomes(w)
ChangeBuddyState(s, i) ==
    /\ Input("ask") /\ Known(s)
    /\ \E w \in ChangeHook(World, s, i) : Becomes(w)
RequestUnsummon(s, i) ==
    /\ Input("ask") /\ Known(s)
    /\ \E w \in RequestHook(World, s, i) : Becomes(w)

\* a standing buddy is hit; one that has left the world is not
Hit(e) ==
    /\ Input("hit") /\ e \in out /\ life[e] > 0
    /\ \E hp \in 0..(life[e] - 1) : Becomes([World EXCEPT !.life[e] = hp])

\* the game drops a buddy and empties its slot
Despawn(s, i) ==
    LET e == slot[s][i].ent IN
    /\ Rare /\ e # 0
    /\ Becomes([World EXCEPT !.trouble = @ + 1, !.slot[s][i] = EmptySlot, !.life[e] = Gone, !.out = @ \ {e}])

\* the owner's character is lost or found again, and the gate of a remote one closes
OwnerMoves(s) ==
    /\ Rare
    /\ Becomes([World EXCEPT !.trouble = @ + 1, !.lost = IF s \in @ THEN @ \ {s} ELSE @ \cup {s},
                             !.gate[s] = "closed"])

\* EnqueueBuddyRecallPacket: the same packet again, or the first free place, or that
\* of the oldest command, which may be any of them
RecallArrives(s, i, e) ==
    LET cmd == [state |-> s, slot |-> i, ent |-> e] IN
    /\ Rare /\ life[e] # Unmade
    /\ \E v \in Expired([World EXCEPT !.trouble = @ + 1]) :
          LET free == {p \in Places : v.cmds[p] = NoCommand} IN
          \/ (\E p \in Places : v.cmds[p] = cmd) /\ Becomes(v)
          \/ \E p \in IF free = {} THEN Places ELSE {Min(free)} :
                Becomes([v EXCEPT !.cmds[p] = cmd])

\* the game puts another table, or another manager, under its player data
PoolRenews(mgr, table) ==
    /\ Rare /\ mgr \in {pool.mgr, pool.mgr + 1} /\ (mgr > pool.mgr => table = "first")
    /\ table # pool.table
    /\ Becomes([World EXCEPT !.trouble = @ + 1, !.pool.mgr = mgr, !.pool.table = table])

Init ==
    /\ slot = [s \in States |-> [i \in Slots |-> EmptySlot]]
    /\ life = [e \in Entities |-> Unmade] /\ out = {}
    /\ ctx = [c \in Contexts |-> NoContext] /\ last = None
    /\ home \in [States -> Homes] /\ lost = {} /\ gate = [s \in States |-> "closed"]
    /\ cmds = [p \in Places |-> NoCommand] /\ room = EntityRoom
    /\ pool = [mgr |-> 1, table |-> "first", recs |-> {}]
    /\ pgd = [e \in Entities |-> NativePgd] /\ trouble = 0
    /\ events = [kind \in DOMAIN Limit |-> 0] /\ idle = FALSE

Next ==
    \/ \E s \in States : Update(s) \/ OwnerMoves(s)
    \/ \E s \in States, i \in Slots :
          \/ \E kind \in Kinds : CreateBuddy(s, i, kind)
          \/ TryUseBuddy(s, i) \/ ChangeBuddyState(s, i) \/ RequestUnsummon(s, i)
          \/ Despawn(s, i)
          \/ \E e \in Entities : RecallArrives(s, i, e)
    \/ \E e \in Entities : Hit(e)
    \/ \E mgr \in 1..(MaxTrouble + 1), table \in {"first", "other"} : PoolRenews(mgr, table)

Spec == Init /\ [][Next]_vars

\* the game updates its states again and again, once a frame
FairSpec ==
    Spec /\ \A s \in States : []<>(idle /\ last = s) \/ []<><<events' = events /\ last' = s>>_vars

---------------------------------------------------------------------------
(* Properties. *)

\* The state is what the structures of core.hpp can hold.
TypeOK ==
    /\ slot \in [States -> [Slots -> [ent : 0..MaxEntity, st : Stages, pend : BOOLEAN,
                                      flags : SUBSET Flags]]]
    /\ life \in [Entities -> -2..MaxHp] /\ out \subseteq Entities
    /\ last \in States \cup {None} /\ cmds \in [Places -> Commands \cup {NoCommand}]
    /\ \A c \in Contexts : ctx[c].state \in States \cup {None}

\* The hooks of the game find the record CreateBuddy made: a buddy it recorded as
\* custom is custom for the update of its state too (GetBuddyStateRuntime looks
\* for the state, GetBuddyStateRuntimeForOwner for the owner).
RecordsFound ==
    \A s \in States, i \in Slots :
        LET c == OwnerFound(World, s) IN
        Holding(World, s) # {} /\ ctx[c].state = s /\ IsCustom(World, c, i, slot[s][i]) =>
            IsCustom(World, Found(World, s), i, slot[s][i])

\* A replaced character is driven by the machine that runs its owner, whichever
\* contexts its records went through; while that owner is not found, the game decides.
ControllerFits ==
    \A s \in States, i \in Slots :
        LET c == OwnerFound(World, s) IN
        (/\ Holding(World, s) # {} /\ ctx[c].state = s
         /\ ctx[c].ward[i] # "none" /\ IsCustom(World, c, i, slot[s][i]))
        => Controller(World, slot[s][i].ent) = IF s \in lost THEN "native" ELSE home[s]

\* No two buddies share a fixed entry of the player data pool.
PgdOwned ==
    \A e, f \in {slot[s][i].ent : s \in States, i \in Slots} \ {0} :
        e # f /\ pgd[e] = pgd[f] => pgd[e] = NativePgd

\* A buddy the game takes back in its update while it still has one in a hundred of
\* its health does not stay standing: by the end of that update it is out of the world.
RecallHides ==
    [][\A s \in States, i \in Slots :
          LET c == Found(World, s) IN
          /\ events' = events /\ trouble' = trouble
          /\ slot[s][i].st = "removing" /\ slot'[s][i].st = "active"
          /\ Holding(World, s) # {} /\ ctx[c].seen /\ IsCustom(World, c, i, slot[s][i])
          /\ Percent(World, slot[s][i]) > 0
          => slot[s][i].ent \notin out']_vars

\* The cleanup a switch scheduled leaves one buddy out: when the job is gone,
\* no other healthy custom buddy of the state stands, and the one it keeps does.
CleanupLeavesOne ==
    [][\A s \in States, c \in Contexts :
          LET job == ctx[c].job
              mine == ctx[c].state = s /\ c = Found(World, s)
              keep == slot'[s][job.slot].ent
          IN /\ events' = events /\ trouble' = trouble
             /\ job.active /\ ~ctx'[c].job.active /\ mine /\ keep # 0
             => \A i \in Slots \ {job.slot} :
                   /\ slot[s][i].ent # 0 /\ ctx[c].custom[i] = slot[s][i].ent
                   /\ Rate(life'[slot[s][i].ent]) > 0 /\ slot'[s][i].ent \in out'
                   => "gate" \in slot'[s][i].flags \/ ctx'[c].zero[i].active]_vars

Dead(s, i) ==
    /\ slot[s][i].ent # 0 /\ Holding(World, s) # {}
    /\ IsCustom(World, Found(World, s), i, slot[s][i])
    /\ slot[s][i].st = "active" /\ "gate" \in slot[s][i].flags
\* A custom buddy that died and was taken back does not stay locked: as long as
\* this machine runs its owner, the fallback brings it back over half health
\* and opens the recovery gate of its slot.
DeadRecovers ==
    []<>(\A s \in States, i \in Slots : Dead(s, i) => Side(World, s) # "local")
==============================================================================
