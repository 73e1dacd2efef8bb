---------------------------- MODULE CodePatching ----------------------------
(***************************************************************************)
(* How the DLL puts its detours into the running game and takes them out.  *)
(*                                                                         *)
(* Three threads write code: the worker of DLL_PROCESS_ATTACH              *)
(* (core.cpp:1621), the thread that waits for nrsc.dll                     *)
(* (network_tools.cpp:2602) and the thread that polls for the game's       *)
(* player data manager (buddy_fix.cpp:2396).  Each works through groups of *)
(* sites; a group is installed as a whole, or each site on its own.  The   *)
(* game executes the code meanwhile.  At process exit Windows ends the     *)
(* threads wherever they are and DLL_PROCESS_DETACH restores the code.     *)
(*                                                                         *)
(* A site is an element of g_hooks, named by its slot, or a CodePatch with *)
(* a global of its own, numbered from 201.                                 *)
(***************************************************************************)
EXTENDS Naturals, Sequences, SequencesExt

CONSTANTS
    Options,      \* the options of the INI file that are on
    Fragile,      \* sites where VirtualAlloc or VirtualProtect may fail
    Suspect,      \* sites another module may have patched before us
    MaxFault,     \* bound: failing system calls and sites patched by others
    MaxPoll       \* bound: attempts of the expansion thread (120 in the code)

\* The expansion thread makes at least one attempt.
ASSUME PollAssumption == MaxPoll \in Nat \ {0}

VARIABLES
    code,     \* site -> the bytes there: "native", "foreign" or "ours"
    saved,    \* site -> InlineHook/CodePatch::original, "none" in a free slot
    orig,     \* site -> what its detour calls on: "null", "native", "live", "freed"
    ready,    \* the ready flags that are set
    bridge,   \* g_nrsc_bridge_install_state
    table,    \* the remote player table: "none", "vanilla" or "expanded"
    run,      \* thread -> what it is doing
    polls,    \* attempts of the expansion thread
    faults,   \* system calls that have failed and sites patched by others
    exit      \* 0, or the next step of DLL_PROCESS_DETACH

vars == <<code, saved, orig, ready, bridge, table, run, polls, faults, exit>>

---------------------------------------------------------------------------
(* The sites of each group, in the order they are installed. *)

Broadcast   == <<64, 74>>
StatusRead  == <<67>>
EventResult == <<115, 116>>
PlayerStatus == <<68, 69, 72>>
Retention   == <<119>>
Functional  == <<107, 112, 109, 96, 89, 88, 87, 85, 84, 63, 18, 83, 82, 75, 73>>
Event1d     == <<104, 106>>
Metadata    == <<157, 166, 145, 146, 147, 148>>
Diagnostics == <<134, 135, 136, 137, 138, 139, 140, 141, 142, 143, 144>>
Handoff     == <<121, 122>>
Dialogs     == <<65, 81>>
Bridge      == <<56, 57, 58, 114, 86, 90>>
Friend      == <<117, 118, 120, 113>>

\* vtable slots of the title menu; 210 is the online mode selector
Selector    == 210
\* Mutant: the activation edge goes in first.
SelectorFirst == <<Selector, 201, 202, 203, 204, 205, 206, 207, 208, 209, 124>>
Provider    == <<201, 202, 203, 204, 205, 206, 207, 208, 209, 124, Selector>>
PostConfirm == <<211, 212, 213, 214, 215, 216, 217, 218, 111, 123, 125>>

ReadyRange  == <<230>>
Markers     == <<221, 222, 223, 224, 225>>
Limits      == <<231, 232, 233, 234, 235, 236, 237, 238, 239, 240, 241>>

Authority   == 250
Controller  == <<Authority, 19>>
BuddyUse    == <<0, 1, 2, 3, 4>>

Option(o, sites) == IF o \in Options THEN sites ELSE <<>>
BuddyAndReward ==
    <<14, 5>> \o Option("markers", <<7>>) \o Option("discard", <<10, 11>>)
    \o <<42, 43>> \o Option("acquire", <<44>>) \o Option("compaction", <<53>>)
    \o Option("nrsc", <<46>>)

Order == [broadcast |-> Broadcast, statusRead |-> StatusRead,
          eventResult |-> EventResult, playerStatus |-> PlayerStatus,
          retention |-> Retention, functional |-> Functional,
          event1d |-> Event1d, metadata |-> Metadata,
          diagnostics |-> Diagnostics, handoff |-> Handoff, dialogs |-> Dialogs,
          bridge |-> Bridge, friend |-> Friend, provider |-> Provider,
          postConfirm |-> PostConfirm, readyRange |-> ReadyRange,
          markers |-> Markers, limits |-> Limits, controller |-> Controller,
          buddyUse |-> BuddyUse, buddyAndReward |-> BuddyAndReward]

Groups     == DOMAIN Order
SitesOf(g) == ToSet(Order[g])
Sites      == UNION {SitesOf(g) : g \in Groups}
Patches    == {s \in Sites : s > 200}

\* No two groups share a slot: an occupied slot refuses its second owner.
ASSUME SlotsDistinct ==
    /\ \A g \in Groups : IsInjective(Order[g])
    /\ \A g, h \in Groups : g # h => SitesOf(g) \cap SitesOf(h) = {}

\* Calls retargeted to a relay: verified and written in one go, like a patch.
CallHooks  == {166, 145, 146, 147, 148, 139, 140, 141, 142, 143, 144}
\* Detours without an `original' parameter continue in native code.
Plain      == {72, 81, 119} \cup CallHooks
\* The worker resolves these natives before it hooks any of them.
Resolved   == {0, 3, 7, 10, 11, 14, 19, 42, 43, 44, 46, 53}
\* InstallCodePatch accepts other bytes than the game's at these sites.
Overwrites == {221, 222, 223, 224, 232}

TitlePatches(g) == SitesOf(g) \cap Patches

---------------------------------------------------------------------------
(* How each group is installed. *)

\* A group that is undone when one of its sites fails.
Whole == {"statusRead", "eventResult", "retention", "functional", "event1d",
          "metadata", "diagnostics", "handoff", "bridge", "friend",
          "provider", "postConfirm", "controller"}

\* The bridge, like the groups of independent sites, goes on after a failure.
GoesOn(g) == g = "bridge" \/ g \notin Whole

\* Mutant: the loop leaves the first site it installed.
LeavesFirst(g) == Front(Reverse(Order[g]))

\* The order in which a failed group is taken out again.  The selector is the
\* edge that activates the title graph and goes first.
ProviderUndo    == <<Selector, 202, 201, 203, 204, 205, 206, 209, 208, 207, 124>>
PostConfirmUndo == <<125, 123, 111, 218, 217, 216, 215, 214, 213, 212, 211>>
MetadataUndo    == <<145, 146, 147, 148, 166, 157>>
DiagnosticsUndo == <<139, 140, 141, 142, 143, 144, 134, 135, 136, 137, 138>>
ControllerUndo  == <<19, Authority>>

Undo(g) ==
    CASE g = "provider"    -> ProviderUndo
      [] g = "postConfirm" -> PostConfirmUndo
      [] g = "metadata"    -> MetadataUndo
      [] g = "diagnostics" -> DiagnosticsUndo
      [] g = "controller"  -> ControllerUndo
      [] OTHER             -> Reverse(Order[g])

\* Undoing nulls the group's pointers to the originals, the functional one's excepted.
Nulled(g) == IF g = "functional" THEN {} ELSE SitesOf(g) \ (Plain \cup {Authority})

\* The slot is free and the bytes are the expected prologue.
VerifyEntry(s) == saved[s] = "none" /\ code[s] = "native"

\* Sites verified before any of the group is written: the inline hooks.
ProviderVerified == {124}
FriendVerified   == SitesOf("friend")
BridgeVerified   == SitesOf("bridge")

Verified(g) ==
    CASE g = "provider"    -> ProviderVerified
      [] g = "postConfirm" -> SitesOf(g) \ Patches
      [] g = "friend"      -> FriendVerified
      [] g = "bridge"      -> BridgeVerified
      [] g \in Whole \ {"controller"} -> SitesOf(g)
      [] OTHER -> {}

\* What a group needs before it installs its first site.
FunctionalNeeds  == "nrsc" \in Options /\ orig[67] # "null"
HandoffNeeds     == "functional" \in ready /\ orig[112] # "null"
PostConfirmNeeds ==
    /\ {"handoff", "provider"} \subseteq ready
    /\ \A s \in TitlePatches("postConfirm") : saved[s] = "none"
FriendNeeds ==
    /\ bridge = 2
    /\ \A s \in {87, 90} : saved[s] # "none" /\ orig[s] # "null"
    /\ "handoff" \in ready

Needs(g) ==
    CASE g \in {"retention", "metadata", "diagnostics", "provider", "bridge"} ->
            "nrsc" \in Options
      [] g = "functional"  -> FunctionalNeeds
      [] g = "event1d"     -> "functional" \in ready
      [] g = "handoff"     -> HandoffNeeds
      [] g = "dialogs"     -> "ui" \in Options
      [] g = "postConfirm" -> PostConfirmNeeds
      [] g = "friend"      -> FriendNeeds
      [] g = "markers"     -> "markers" \in Options
      [] OTHER             -> TRUE

Passes(g) == Needs(g) /\ \A s \in Verified(g) : VerifyEntry(s)

\* The originals of vtable slots are the native functions, set beforehand.
PointedAtNatives(g) ==
    [s \in Sites |-> IF g \in {"provider", "postConfirm"} /\ s \in TitlePatches(g)
                    THEN "native" ELSE orig[s]]

\* The flags an installed group raises; "provider" stands for its result.
Flags(g) ==
    CASE g = "functional" -> {"functional", "lease"}
      [] g = "friend"     -> {"armed", "route"}
      [] g \in {"event1d", "retention", "handoff", "metadata", "provider"} -> {g}
      [] OTHER            -> {}

---------------------------------------------------------------------------
(* The three threads.  "spawn" and "capacity" are steps of a thread's      *)
(* program that are not groups.                                            *)

Threads == {"worker", "nrsc", "expander"}

Startup ==
    <<"broadcast", "statusRead", "eventResult", "playerStatus", "retention",
      "functional", "event1d", "metadata", "diagnostics", "handoff", "dialogs",
      "provider", "postConfirm", "spawn", "readyRange", "markers", "capacity",
      "buddyUse", "controller", "buddyAndReward">>

Program(p) == [todo |-> p, phase |-> "next", at |-> 0, half |-> FALSE,
               failed |-> FALSE, undo |-> <<>>]

Group(t)    == Head(run[t].todo)
Site(t)     == Order[Group(t)][run[t].at]
In(t, ph)   == exit = 0 /\ run[t].todo # <<>> /\ run[t].phase = ph
AtSite(t)   == In(t, "install") /\ run[t].at <= Len(Order[Group(t)])
Proceed(t)  == [run EXCEPT ![t] = Program(Tail(@.todo))]

Init ==
    /\ code = [s \in Sites |-> "native"]
    /\ saved = [s \in Sites |-> "none"]
    /\ orig = [s \in Sites |->
          IF s \in Plain \cup Resolved \cup
                    (Patches \ (TitlePatches("provider") \cup TitlePatches("postConfirm")))
          THEN "native" ELSE "null"]
    /\ ready = {} /\ bridge = 0 /\ table = "none"
    /\ run = [t \in Threads |-> Program(IF t = "worker" THEN Startup ELSE <<>>)]
    /\ polls = 0 /\ faults = 0 /\ exit = 0

\* A thread turns to the next group.
Begin(t) ==
    /\ In(t, "next") /\ Group(t) \in Groups
    /\ Group(t) = "bridge" => bridge = 0
    /\ LET g == Group(t) IN
       IF Passes(g)
       THEN /\ run' = [run EXCEPT ![t].phase = "install", ![t].at = 1]
            /\ bridge' = IF g = "bridge" THEN 1 ELSE bridge
            /\ orig' = PointedAtNatives(g)
       ELSE /\ bridge' = IF g = "bridge" THEN 3 ELSE bridge
            /\ run' = IF g = "bridge" THEN [run EXCEPT ![t] = Program(<<>>)] ELSE Proceed(t)
            /\ UNCHANGED orig
    /\ UNCHANGED <<code, saved, ready, table, polls, faults, exit>>

\* The thread has tried one site: the next one, or none after a failure.
Tried(t, ok) ==
    run' = [run EXCEPT ![t].half = FALSE, ![t].failed = @ \/ ~ok,
                       ![t].at = IF ok \/ GoesOn(Group(t)) THEN @ + 1
                                 ELSE Len(Order[Group(t)]) + 1]

SystemCallFails(s) == s \in Fragile /\ faults < MaxFault /\ faults' = faults + 1
SystemCallWorks    == UNCHANGED faults
NullOriginal(s)    == orig' = IF s \in Plain THEN orig ELSE [orig EXCEPT ![s] = "null"]

\* InstallInlineHook up to `*original = trampoline': the slot is taken, the
\* bytes are copied and the detour can call on, before any jump reaches it.
Prepare(t) ==
    /\ AtSite(t) /\ Site(t) \notin Patches \cup CallHooks /\ ~run[t].half
    /\ LET s == Site(t) IN
       \/ /\ SystemCallWorks
          /\ saved' = [saved EXCEPT ![s] = code[s]]
          /\ orig' = IF s \in Plain THEN orig ELSE [orig EXCEPT ![s] = "live"]
          /\ run' = [run EXCEPT ![t].half = TRUE]
       \/ /\ s \notin Plain /\ SystemCallFails(s)
          /\ NullOriginal(s) /\ Tried(t, FALSE) /\ UNCHANGED saved
    /\ UNCHANGED <<code, ready, bridge, table, polls, exit>>

\* The rest of InstallInlineHook: the jump is written, or the slot is reset.
WriteJump(t) ==
    /\ AtSite(t) /\ run[t].half
    /\ LET s == Site(t) IN
       \/ /\ SystemCallWorks
          /\ code' = [code EXCEPT ![s] = "ours"]
          /\ Tried(t, TRUE) /\ UNCHANGED <<saved, orig>>
       \/ /\ SystemCallFails(s)
          /\ saved' = [saved EXCEPT ![s] = "none"]
          /\ NullOriginal(s) /\ Tried(t, FALSE) /\ UNCHANGED code
    /\ UNCHANGED <<ready, bridge, table, polls, exit>>

\* InstallCodePatch, WriteCodeByte and InstallBhrcNameCall: bytes that are ours
\* already count as installed, strange ones are refused except at some sites.
Patch(t) ==
    /\ AtSite(t) /\ Site(t) \in Patches \cup CallHooks
    /\ LET s == Site(t) IN
       \/ /\ code[s] = "ours" /\ SystemCallWorks
          /\ saved' = [saved EXCEPT ![s] = "native"]
          /\ Tried(t, TRUE) /\ UNCHANGED code
       \/ /\ code[s] = "native" \/ (code[s] = "foreign" /\ s \in Overwrites)
          /\ SystemCallWorks
          /\ saved' = [saved EXCEPT ![s] = code[s]]
          /\ code' = [code EXCEPT ![s] = "ours"]
          /\ Tried(t, TRUE)
       \/ /\ \/ code[s] = "foreign" /\ s \notin Overwrites /\ SystemCallWorks
             \/ code[s] # "ours" /\ SystemCallFails(s)
          /\ Tried(t, FALSE) /\ UNCHANGED <<code, saved>>
    /\ UNCHANGED <<orig, ready, bridge, table, polls, exit>>

\* Mutant: the poll counts its attempts from zero to the bound.
OneAttemptMore(t) ==
    /\ polls' = polls + 1
    /\ run' = [run EXCEPT ![t] = Program(<<>>),
                         !["expander"] = Program(IF polls <= MaxPoll THEN <<"capacity">> ELSE <<>>)]

\* EnsureRemotePlayerGameDataCapacity returned FALSE: the worker leaves it to
\* the expansion thread, which polls on until its attempts are used up.
Retry(t) ==
    IF t = "worker"
    THEN /\ run' = [run EXCEPT !["worker"] = Program(Tail(@.todo)),
                               !["expander"] = Program(<<"capacity">>)]
         /\ UNCHANGED polls
    ELSE /\ polls' = polls + 1
         /\ run' = [run EXCEPT ![t] = Program(IF polls + 1 < MaxPoll THEN <<"capacity">> ELSE <<>>)]

\* Mutant: the slot is cleared although the bytes could not be written.
ClearedOnly(S) ==
    /\ saved' = [s \in Sites |-> IF s \in S THEN "none" ELSE saved[s]]
    /\ UNCHANGED code

\* RemoveInlineHook or RemoveCodePatch of a set of sites: the bytes go back,
\* the trampoline is freed and the slot is empty.
Removed(S) ==
    /\ code' = [s \in Sites |-> IF s \in S /\ saved[s] # "none" THEN saved[s] ELSE code[s]]
    /\ saved' = [s \in Sites |-> IF s \in S THEN "none" ELSE saved[s]]

Freed(S) == [s \in Sites |-> IF s \in S /\ orig[s] = "live" THEN "freed" ELSE orig[s]]

\* All sites were tried: the group's flags go up, or it is to be undone.
Conclude(t) ==
    /\ In(t, "install") /\ ~AtSite(t)
    /\ LET g == Group(t) IN
       IF g \in Whole /\ run[t].failed
       THEN /\ run' = [run EXCEPT ![t].phase = "undo", ![t].undo = Undo(g)]
            /\ UNCHANGED <<ready, bridge, polls>>
       ELSE /\ ready' = ready \cup Flags(g)
            /\ bridge' = IF g = "bridge" THEN 2 ELSE bridge
            /\ IF g = "limits" /\ run[t].failed THEN Retry(t)
               ELSE run' = Proceed(t) /\ UNCHANGED polls
    /\ UNCHANGED <<code, saved, orig, table, faults, exit>>

\* One site of a failed group is restored.
RemoveSite(t) ==
    /\ In(t, "undo") /\ run[t].undo # <<>>
    /\ Removed({Head(run[t].undo)})
    /\ orig' = Freed({Head(run[t].undo)})
    /\ run' = [run EXCEPT ![t].undo = Tail(@)]
    /\ UNCHANGED <<ready, bridge, table, polls, faults, exit>>

\* The failed group is out: its pointers are nulled, and without the bridge
\* its thread ends.
Undone(t) ==
    /\ In(t, "undo") /\ run[t].undo = <<>>
    /\ orig' = [s \in Sites |-> IF s \in Nulled(Group(t)) THEN "null" ELSE orig[s]]
    /\ bridge' = IF Group(t) = "bridge" THEN 3 ELSE bridge
    /\ run' = IF Group(t) = "bridge" THEN [run EXCEPT ![t] = Program(<<>>)] ELSE Proceed(t)
    /\ UNCHANGED <<code, saved, ready, table, polls, faults, exit>>

\* The worker starts the thread that waits for nrsc.dll.
Spawn ==
    /\ In("worker", "next") /\ Group("worker") = "spawn"
    /\ run' = [run EXCEPT !["worker"] = Program(Tail(@.todo)),
                         !["nrsc"] = IF "nrsc" \in Options
                                     THEN Program(<<"bridge", "friend">>) ELSE @]
    /\ UNCHANGED <<code, saved, orig, ready, bridge, table, polls, faults, exit>>

\* nrsc.dll did not appear within 100 attempts.
GiveUp ==
    /\ In("nrsc", "next") /\ Group("nrsc") = "bridge"
    /\ bridge' = IF bridge = 0 THEN 3 ELSE bridge
    /\ run' = [run EXCEPT !["nrsc"] = Program(<<>>)]
    /\ UNCHANGED <<code, saved, orig, ready, table, polls, faults, exit>>

\* EnsureRemotePlayerGameDataCapacity: the limits are raised only once the
\* manager's table has been replaced by the larger one.
EnsureCapacity(t) ==
    /\ In(t, "next") /\ Group(t) = "capacity"
    /\ IF "markers" \notin Options
       THEN run' = Proceed(t) /\ UNCHANGED <<table, polls>>
       ELSE \/ /\ table # "none" /\ table' = "expanded"
               /\ run' = [run EXCEPT ![t] = Program(<<"limits">> \o Tail(@.todo))]
               /\ UNCHANGED polls
            \/ /\ table # "expanded" /\ Retry(t) /\ UNCHANGED table
    /\ UNCHANGED <<code, saved, orig, ready, bridge, faults, exit>>

\* The game creates its player data manager.
CreateManager ==
    /\ exit = 0 /\ table = "none" /\ table' = "vanilla"
    /\ UNCHANGED <<code, saved, orig, ready, bridge, run, polls, faults, exit>>

\* Another module patches a site before we do.
PatchedByOther(s) ==
    /\ exit = 0 /\ faults < MaxFault /\ code[s] = "native" /\ saved[s] = "none"
    /\ code' = [code EXCEPT ![s] = "foreign"] /\ faults' = faults + 1
    /\ UNCHANGED <<saved, orig, ready, bridge, table, run, polls, exit>>

---------------------------------------------------------------------------
(* DLL_PROCESS_DETACH.  At process exit the other threads are gone. *)

\* Mutant: the detach list misses the patches of the player data limits.
ForgetsPatches == <<TitlePatches("postConfirm"), {Selector}, TitlePatches("provider"),
                    Sites \ Patches>>

\* What is restored, in order: sites whose order among themselves does not
\* matter together; the rest of g_hooks comes last.
DetachOrder == <<{19, Authority} \cup TitlePatches("postConfirm"), {Selector},
                 Patches \ {Selector, Authority}, Sites \ Patches>>

\* Mutant: the detach leaves the route flag up.
KeepsRoute ==
    /\ exit = 0 /\ exit' = 1 /\ ready' = ready \ {"functional", "retention", "handoff"}
    /\ UNCHANGED <<code, saved, orig, bridge, table, run, polls, faults>>

\* The flags the detours of live threads test go down first.
BeginDetach ==
    /\ exit = 0 /\ exit' = 1
    /\ ready' = ready \ {"functional", "retention", "handoff", "route"}
    /\ UNCHANGED <<code, saved, orig, bridge, table, run, polls, faults>>

Detach ==
    /\ exit \in 1..Len(DetachOrder) /\ exit' = exit + 1
    /\ Removed(DetachOrder[exit])
    /\ orig' = [Freed(DetachOrder[exit]) EXCEPT ![19] = IF exit = 1 THEN "native" ELSE @]
    /\ UNCHANGED <<ready, bridge, table, run, polls, faults>>

ThreadStep(t) == Begin(t) \/ Prepare(t) \/ WriteJump(t) \/ Patch(t) \/ Conclude(t)
                 \/ RemoveSite(t) \/ Undone(t) \/ EnsureCapacity(t)

Next ==
    \/ \E t \in Threads : ThreadStep(t)
    \/ Spawn \/ GiveUp \/ CreateManager
    \/ \E s \in Suspect : PatchedByOther(s)
    \/ BeginDetach \/ Detach

Spec == Init /\ [][Next]_vars

---------------------------------------------------------------------------
(* Properties. *)

\* Types of the variables.
TypeOK ==
    /\ code \in [Sites -> {"native", "foreign", "ours"}]
    /\ saved \in [Sites -> {"none", "native", "foreign"}]
    /\ orig \in [Sites -> {"null", "native", "live", "freed"}]
    /\ bridge \in 0..3 /\ polls \in 0..MaxPoll
    /\ exit \in 0..Len(DetachOrder) + 1

\* The game can enter a detour at any moment: while the jump is in the code, the
\* detour can call on, whatever has failed or is being undone (core.cpp:1251,
\* 1507).
DetourLive == \A s \in Sites : code[s] = "ours" => orig[s] \in {"native", "live"}

Busy(g) == \E t \in Threads : /\ run[t].todo # <<>> /\ Group(t) = g
                              /\ run[t].phase # "next"

\* No subset of a group that belongs together stays live once its installer has
\* returned (network_tools.cpp:2572, reconnect_fix.cpp:25159).
NoPartialGroup ==
    exit = 0 => \A g \in Whole :
        \/ Busy(g)
        \/ \A s \in SitesOf(g) : code[s] = "ours"
        \/ \A s \in SitesOf(g) : code[s] # "ours"

\* While the old-member route is open, every detour it runs through is live,
\* those of the worker and those of the nrsc thread, until the process exits
\* (reconnect_fix.cpp:26062, core.cpp:1986).
RouteMeansWhole ==
    "route" \in ready =>
        \A g \in {"functional", "handoff", "bridge", "friend"} :
            \A s \in SitesOf(g) : code[s] = "ours"

\* The selector opens the title graph: it is live only between the moment the
\* rest of the graph is and the moment the rest is taken out
\* (reconnect_fix.cpp:25522).
SelectorLast ==
    code[Selector] = "ours" => \A s \in SitesOf("provider") : code[s] = "ours"

\* After the detach no jump into the unloaded DLL remains (core.cpp:2010-2049).
DetachRestores == exit > Len(DetachOrder) => \A s \in Sites : code[s] # "ours"
=============================================================================
