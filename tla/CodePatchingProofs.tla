------------------------- MODULE CodePatchingProofs -------------------------
(***************************************************************************)
(* What holds of the patched code at every step, whichever options are on, *)
(* system calls fail and sites are patched by others.                      *)
(*                                                                         *)
(* The inductive invariant follows each group of sites through a thread's  *)
(* program: nothing of it is ours before its turn, what has been tried is  *)
(* ours while nothing has failed, and what is still ours while it is being *)
(* undone is still to be removed.                                          *)
(***************************************************************************)
EXTENDS CodePatching, TLAPS

---------------------------------------------------------------------------
(* The parts of the inductive invariant. *)

Steps == Groups \cup {"spawn", "capacity"}

\* The steps each thread's program is made of.
Claims(t) ==
    CASE t = "worker" -> Steps \ {"bridge", "friend"}
      [] t = "nrsc"   -> {"bridge", "friend"}
      [] OTHER        -> {"capacity", "limits"}

\* Raising the limits is the second half of the capacity step.
Kind(x) == IF x = "limits" THEN "capacity" ELSE x

RunType ==
    run \in [Threads -> [todo : Seq(Steps), phase : {"next", "install", "undo"},
                         at : Nat, half : BOOLEAN, failed : BOOLEAN,
                         undo : Seq(Sites)]]

ValueType ==
    /\ code \in [Sites -> {"native", "foreign", "ours"}]
    /\ saved \in [Sites -> {"none", "native", "foreign"}]
    /\ orig \in [Sites -> {"null", "native", "live", "freed"}]
    /\ bridge \in 0..3 /\ polls \in 0..MaxPoll
    /\ exit \in 0..Len(DetachOrder) + 1

\* No step occurs twice in a program.
ProgramOK(t) ==
    /\ \A i \in 1..Len(run[t].todo) : run[t].todo[i] \in Claims(t)
    /\ \A i, j \in 1..Len(run[t].todo) :
           Kind(run[t].todo[i]) = Kind(run[t].todo[j]) => i = j
    /\ run[t].phase # "next" => run[t].todo # <<>> /\ Group(t) \in Groups
    /\ run[t].phase = "next" => ~run[t].failed

Pending(t, x) == \E i \in 1..Len(run[t].todo) : run[t].todo[i] = x

\* The worker has turned to the capacity before the expansion thread exists.
PollsOK ==
    /\ Pending("worker", "capacity") \/ Pending("worker", "limits")
           => run["expander"].todo = <<>> /\ polls = 0
    /\ run["expander"].todo # <<>> => polls < MaxPoll

AllOurs(g)  == \A s \in SitesOf(g) : code[s] = "ours"
NoneOurs(g) == \A s \in SitesOf(g) : code[s] # "ours"

\* Nothing of a group is ours before its turn.
FreshOK(t) ==
    \A i \in 1..Len(run[t].todo) :
        /\ i > 1 \/ run[t].phase = "next"
        /\ run[t].todo[i] \in Groups \ {"limits"}
        => NoneOurs(run[t].todo[i])

\* Before the thread that waits for nrsc.dll exists, so are its groups.
SpawnOK ==
    Pending("worker", "spawn") =>
        /\ NoneOurs("bridge") /\ NoneOurs("friend")
        /\ bridge = 0 /\ run["nrsc"].todo = <<>> /\ "route" \notin ready

Whole1 == Whole \ {"bridge"}

\* Between Prepare and WriteJump the slot is taken and the detour can call on.
HalfOK(t) ==
    run[t].half =>
        /\ AtSite(t) /\ Site(t) \notin Patches \cup CallHooks
        /\ saved[Site(t)] # "none" /\ orig[Site(t)] \in {"native", "live"}

\* A group being installed: nothing from here on is ours yet, everything
\* before is while nothing has failed, and a failure ends the installation.
InstallOK(t) ==
    run[t].phase = "install" =>
        LET g == Group(t)  sites == Order[Group(t)] IN
        /\ run[t].at \in 1..Len(sites) + 1
        /\ g # "limits" => \A i \in run[t].at..Len(sites) : code[sites[i]] # "ours"
        /\ g \in Whole /\ ~run[t].failed =>
               \A i \in 1..run[t].at - 1 : code[sites[i]] = "ours"
        /\ g \in Whole1 /\ run[t].failed => run[t].at = Len(sites) + 1
        /\ g = "provider" /\ run[t].failed => code[Selector] # "ours"
        /\ g = "handoff" => "functional" \in ready
        /\ g = "friend" => bridge = 2 /\ "handoff" \in ready

\* A group being undone: what is still ours is still to be removed.
UndoOK(t) ==
    run[t].phase = "undo" =>
        LET g == Group(t) IN
        /\ g \in Whole
        /\ ToSet(run[t].undo) \subseteq SitesOf(g)
        /\ \A s \in SitesOf(g) : code[s] = "ours" => s \in ToSet(run[t].undo)
        /\ g = "provider" => code[Selector] # "ours"

\* While the title groups are being installed their originals are set.
TitleOK(t) ==
    run[t].phase = "install" /\ Group(t) \in {"provider", "postConfirm"} =>
        \A s \in TitlePatches(Group(t)) : orig[s] = "native"

TitleSites == TitlePatches("provider") \cup TitlePatches("postConfirm")

\* Every detour can be taken out again and can call on.
SiteOK ==
    /\ \A s \in Sites : code[s] = "ours" =>
           saved[s] # "none" /\ orig[s] \in {"native", "live"}
    /\ \A s \in Plain \cup (Patches \ TitleSites) : s \in Sites => orig[s] = "native"

\* A group whose flag is up is whole and is never installed again.
ReadyOK ==
    /\ \A g \in {"functional", "handoff"} :
           g \in ready => AllOurs(g) /\ ~Pending("worker", g)
    /\ "handoff" \in ready => "functional" \in ready
    /\ bridge = 2 => AllOurs("bridge") /\ ~Pending("nrsc", "bridge")
    /\ "route" \in ready => /\ "handoff" \in ready /\ bridge = 2
                            /\ AllOurs("friend") /\ ~Pending("nrsc", "friend")

ThreadOK(t) == ProgramOK(t) /\ FreshOK(t) /\ HalfOK(t) /\ InstallOK(t)
               /\ UndoOK(t) /\ TitleOK(t)

\* While the threads run.
RunningOK ==
    /\ \A t \in Threads : ThreadOK(t)
    /\ PollsOK /\ SpawnOK /\ ReadyOK
    /\ NoPartialGroup

\* While the process exits.
ExitOK ==
    /\ exit # 0 => "route" \notin ready
    /\ \A k \in 1..Len(DetachOrder) :
           exit > k => \A s \in DetachOrder[k] : s \in Sites => code[s] # "ours"

IInv == /\ ValueType /\ RunType /\ SiteOK /\ SelectorLast /\ ExitOK
        /\ exit = 0 => RunningOK

---------------------------------------------------------------------------
(* The groups and their sites. *)

LEMMA GroupsListed ==
    Groups = {"broadcast", "statusRead", "eventResult", "playerStatus",
              "retention", "functional", "event1d", "metadata", "diagnostics",
              "handoff", "dialogs", "bridge", "friend", "provider",
              "postConfirm", "readyRange", "markers", "limits", "controller",
              "buddyUse", "buddyAndReward"}
BY DEF Groups, Order

LEMMA OptionIsSeq ==
    ASSUME NEW o, NEW s \in Seq(Nat)
    PROVE  Option(o, s) \in Seq(Nat)
BY DEF Option

LEMMA RewardIsSeq == BuddyAndReward \in Seq(Nat)
<1>1. <<14, 5>> \in Seq(Nat) /\ <<42, 43>> \in Seq(Nat)
    OBVIOUS
<1>4. /\ <<7>> \in Seq(Nat) /\ <<10, 11>> \in Seq(Nat) /\ <<44>> \in Seq(Nat)
      /\ <<53>> \in Seq(Nat) /\ <<46>> \in Seq(Nat)
    OBVIOUS
<1>2. /\ Option("markers", <<7>>) \in Seq(Nat)
      /\ Option("discard", <<10, 11>>) \in Seq(Nat)
      /\ Option("acquire", <<44>>) \in Seq(Nat)
      /\ Option("compaction", <<53>>) \in Seq(Nat)
      /\ Option("nrsc", <<46>>) \in Seq(Nat)
    BY <1>4, OptionIsSeq
<1>3. ASSUME NEW s \in Seq(Nat), NEW r \in Seq(Nat) PROVE s \o r \in Seq(Nat)
    OBVIOUS
<1>. QED
    BY <1>1, <1>2, <1>3 DEF BuddyAndReward

LEMMA OrderIsSeq ==
    ASSUME NEW g \in Groups
    PROVE  Order[g] \in Seq(Nat)
<1>1. Order["broadcast"] \in Seq(Nat)
    BY DEF Order, Broadcast
<1>2. Order["statusRead"] \in Seq(Nat)
    BY DEF Order, StatusRead
<1>3. Order["eventResult"] \in Seq(Nat)
    BY DEF Order, EventResult
<1>4. Order["playerStatus"] \in Seq(Nat)
    BY DEF Order, PlayerStatus
<1>5. Order["retention"] \in Seq(Nat)
    BY DEF Order, Retention
<1>6. Order["functional"] \in Seq(Nat)
    BY DEF Order, Functional
<1>7. Order["event1d"] \in Seq(Nat)
    BY DEF Order, Event1d
<1>8. Order["metadata"] \in Seq(Nat)
    BY DEF Order, Metadata
<1>9. Order["diagnostics"] \in Seq(Nat)
    BY DEF Order, Diagnostics
<1>10. Order["handoff"] \in Seq(Nat)
    BY DEF Order, Handoff
<1>11. Order["dialogs"] \in Seq(Nat)
    BY DEF Order, Dialogs
<1>12. Order["bridge"] \in Seq(Nat)
    BY DEF Order, Bridge
<1>13. Order["friend"] \in Seq(Nat)
    BY DEF Order, Friend
<1>14. Order["provider"] \in Seq(Nat)
    BY DEF Order, Provider, Selector
<1>15. Order["postConfirm"] \in Seq(Nat)
    BY DEF Order, PostConfirm
<1>16. Order["readyRange"] \in Seq(Nat)
    BY DEF Order, ReadyRange
<1>17. Order["markers"] \in Seq(Nat)
    BY DEF Order, Markers
<1>18. Order["limits"] \in Seq(Nat)
    BY DEF Order, Limits
<1>19. Order["controller"] \in Seq(Nat)
    BY DEF Order, Controller, Authority
<1>20. Order["buddyUse"] \in Seq(Nat)
    BY DEF Order, BuddyUse
<1>21. Order["buddyAndReward"] \in Seq(Nat)
    BY RewardIsSeq DEF Order
<1>. QED
    BY <1>1, <1>2, <1>3, <1>4, <1>5, <1>6, <1>7, <1>8, <1>9, <1>10, <1>11,
       <1>12, <1>13, <1>14, <1>15, <1>16, <1>17, <1>18, <1>19, <1>20, <1>21, GroupsListed

LEMMA GroupFacts ==
    /\ Whole \subseteq Groups /\ "limits" \in Groups \ Whole
    /\ "spawn" \notin Groups /\ "capacity" \notin Groups
    /\ {"functional", "handoff", "bridge", "friend", "provider", "postConfirm"}
           \subseteq Whole
BY GroupsListed DEF Whole

LEMMA SiteOfGroup ==
    ASSUME NEW g \in Groups
    PROVE  /\ Len(Order[g]) \in Nat
           /\ \A i \in 1..Len(Order[g]) : Order[g][i] \in SitesOf(g)
           /\ \A s \in SitesOf(g) : \E i \in 1..Len(Order[g]) : Order[g][i] = s
           /\ SitesOf(g) \subseteq Sites
BY OrderIsSeq DEF SitesOf, ToSet, Sites

LEMMA GroupsApart ==
    ASSUME NEW g \in Groups, NEW h \in Groups, NEW s \in SitesOf(g), s \in SitesOf(h)
    PROVE  g = h
BY SlotsDistinct

LEMMA OnceInGroup ==
    ASSUME NEW g \in Groups,
           NEW i \in 1..Len(Order[g]), NEW j \in 1..Len(Order[g]),
           Order[g][i] = Order[g][j]
    PROVE  i = j
BY SlotsDistinct, OrderIsSeq DEF IsInjective

LEMMA SelectorIsLast ==
    /\ Len(Order["provider"]) = 11
    /\ Order["provider"][11] = Selector
    /\ Selector \in SitesOf("provider")
<1>1. Len(Order["provider"]) = 11 /\ Order["provider"][11] = Selector
    BY DEF Order, Provider
<1>. QED
    BY <1>1, SiteOfGroup, GroupFacts

LEMMA LimitsArePatches == SitesOf("limits") \subseteq Patches
<1>1. SitesOf("limits") = {231, 232, 233, 234, 235, 236, 237, 238, 239, 240, 241}
    BY DEF SitesOf, Order, Limits, ToSet
<1>2. \A s \in SitesOf("limits") : s > 200
    BY <1>1
<1>. QED
    BY <1>2, SiteOfGroup, GroupFacts DEF Patches

\* The sites of the groups that are undone.
LEMMA WholeSites ==
    /\ SitesOf("statusRead") = {67}
    /\ SitesOf("eventResult") = {115, 116}
    /\ SitesOf("retention") = {119}
    /\ SitesOf("functional") = {107, 112, 109, 96, 89, 88, 87, 85, 84,
           63, 18, 83, 82, 75, 73}
    /\ SitesOf("event1d") = {104, 106}
    /\ SitesOf("metadata") = {157, 166, 145, 146, 147, 148}
    /\ SitesOf("diagnostics") = {134, 135, 136, 137, 138, 139, 140, 141,
           142, 143, 144}
    /\ SitesOf("handoff") = {121, 122}
    /\ SitesOf("bridge") = {56, 57, 58, 114, 86, 90}
    /\ SitesOf("friend") = {117, 118, 120, 113}
    /\ SitesOf("provider") = {201, 202, 203, 204, 205, 206, 207, 208,
           209, 124, 210}
    /\ SitesOf("postConfirm") = {211, 212, 213, 214, 215, 216, 217, 218,
           111, 123, 125}
    /\ SitesOf("controller") = {250, 19}
<1>1. SitesOf("statusRead") = {67}
    BY DEF SitesOf, ToSet, Order, StatusRead
<1>2. SitesOf("eventResult") = {115, 116}
    BY DEF SitesOf, ToSet, Order, EventResult
<1>3. SitesOf("retention") = {119}
    BY DEF SitesOf, ToSet, Order, Retention
<1>4. SitesOf("functional") = {107, 112, 109, 96, 89, 88, 87, 85, 84, 63,
      18, 83, 82, 75, 73}
    BY DEF SitesOf, ToSet, Order, Functional
<1>5. SitesOf("event1d") = {104, 106}
    BY DEF SitesOf, ToSet, Order, Event1d
<1>6. SitesOf("metadata") = {157, 166, 145, 146, 147, 148}
    BY DEF SitesOf, ToSet, Order, Metadata
<1>7. SitesOf("diagnostics") = {134, 135, 136, 137, 138, 139, 140, 141, 142,
      143, 144}
    BY DEF SitesOf, ToSet, Order, Diagnostics
<1>8. SitesOf("handoff") = {121, 122}
    BY DEF SitesOf, ToSet, Order, Handoff
<1>9. SitesOf("bridge") = {56, 57, 58, 114, 86, 90}
    BY DEF SitesOf, ToSet, Order, Bridge
<1>10. SitesOf("friend") = {117, 118, 120, 113}
    BY DEF SitesOf, ToSet, Order, Friend
<1>11. SitesOf("provider") = {201, 202, 203, 204, 205, 206, 207, 208, 209,
      124, 210}
    BY DEF SitesOf, ToSet, Order, Provider, Selector
<1>12. SitesOf("postConfirm") = {211, 212, 213, 214, 215, 216, 217, 218,
      111, 123, 125}
    BY DEF SitesOf, ToSet, Order, PostConfirm
<1>13. SitesOf("controller") = {250, 19}
    BY DEF SitesOf, ToSet, Order, Controller, Authority
<1>. QED
    BY <1>1, <1>2, <1>3, <1>4, <1>5, <1>6, <1>7, <1>8, <1>9,
       <1>10, <1>11, <1>12, <1>13

LEMMA PatchesOfWhole ==
    ASSUME NEW g \in Whole, NEW s \in SitesOf(g), s \in Patches
    PROVE  s = Authority \/ (g \in {"provider", "postConfirm"} /\ s \in TitlePatches(g))
<1>1. s > 200
    BY DEF Patches
<1>2. CASE g \in {"provider", "postConfirm"}
    BY <1>2 DEF TitlePatches
<1>3. CASE g \in {"statusRead", "eventResult", "retention", "event1d", "metadata"}
    BY <1>1, <1>3, WholeSites
<1>4. CASE g \in {"functional", "diagnostics", "handoff", "bridge", "friend"}
    BY <1>1, <1>4, WholeSites
<1>5. CASE g = "controller"
    BY <1>1, <1>5, WholeSites DEF Authority
<1>. QED
    BY <1>2, <1>3, <1>4, <1>5 DEF Whole

LEMMA ReverseElements ==
    ASSUME NEW S, NEW s \in Seq(S)
    PROVE  Reverse(s) \in Seq(S) /\ ToSet(Reverse(s)) = ToSet(s)
<1>1. Reverse(s) \in Seq(S) /\ Len(Reverse(s)) = Len(s)
      /\ \A i \in 1..Len(s) : Reverse(s)[i] = s[Len(s) - i + 1]
    BY DEF Reverse
<1>2. ASSUME NEW i \in 1..Len(s)
      PROVE  Len(s) - i + 1 \in 1..Len(s) /\ s[i] = Reverse(s)[Len(s) - i + 1]
    <2>1. PICK j : j = Len(s) - i + 1
        OBVIOUS
    <2>2. j \in 1..Len(s) /\ Len(s) - j + 1 = i
        BY <2>1
    <2>3. Reverse(s)[j] = s[Len(s) - j + 1]
        BY <1>1, <2>2
    <2>. QED
        BY <2>1, <2>2, <2>3
<1>3. DOMAIN s = 1..Len(s) /\ DOMAIN Reverse(s) = 1..Len(s)
    BY DEF Reverse
<1>4. PICK r : r = Reverse(s)
    OBVIOUS
<1>5. ASSUME NEW x \in ToSet(r) PROVE x \in ToSet(s)
    <2>1. PICK i \in 1..Len(s) : x = r[i]
        BY <1>3, <1>4 DEF ToSet
    <2>2. x = s[Len(s) - i + 1] /\ Len(s) - i + 1 \in 1..Len(s)
        BY <1>1, <1>4, <2>1
    <2>. QED
        BY <1>3, <2>2 DEF ToSet
<1>6. ASSUME NEW x \in ToSet(s) PROVE x \in ToSet(r)
    <2>1. PICK i \in 1..Len(s) : x = s[i]
        BY <1>3 DEF ToSet
    <2>2. x = r[Len(s) - i + 1] /\ Len(s) - i + 1 \in 1..Len(s)
        BY <1>2, <1>4, <2>1
    <2>. QED
        BY <1>3, <1>4, <2>2 DEF ToSet
<1>. QED
    BY <1>1, <1>4, <1>5, <1>6

LEMMA SeqOver ==
    ASSUME NEW S, NEW T, NEW s \in Seq(S), \A i \in 1..Len(s) : s[i] \in T
    PROVE  s \in Seq(T)
OBVIOUS

\* Undoing a group goes through all of its sites and no others.
LEMMA UndoCovers ==
    ASSUME NEW g \in Whole
    PROVE  Undo(g) \in Seq(Sites) /\ ToSet(Undo(g)) = SitesOf(g)
<1>1. Order[g] \in Seq(SitesOf(g)) /\ SitesOf(g) \subseteq Sites
    BY GroupFacts, OrderIsSeq, SiteOfGroup, SeqOver
<1>2. CASE g = "provider"
    <2>1. ToSet(ProviderUndo) = SitesOf("provider") /\ ProviderUndo \in Seq(Nat)
        BY WholeSites DEF ProviderUndo, ToSet, Selector
    <2>. QED
        BY <1>1, <1>2, <2>1 DEF Undo, ToSet
<1>3. CASE g = "postConfirm"
    <2>1. ToSet(PostConfirmUndo) = SitesOf("postConfirm") /\ PostConfirmUndo \in Seq(Nat)
        BY WholeSites DEF PostConfirmUndo, ToSet
    <2>. QED
        BY <1>1, <1>3, <2>1 DEF Undo, ToSet
<1>4. CASE g = "metadata"
    <2>1. ToSet(MetadataUndo) = SitesOf("metadata") /\ MetadataUndo \in Seq(Nat)
        BY WholeSites DEF MetadataUndo, ToSet
    <2>. QED
        BY <1>1, <1>4, <2>1 DEF Undo, ToSet
<1>5. CASE g = "diagnostics"
    <2>1. ToSet(DiagnosticsUndo) = SitesOf("diagnostics") /\ DiagnosticsUndo \in Seq(Nat)
        BY WholeSites DEF DiagnosticsUndo, ToSet
    <2>. QED
        BY <1>1, <1>5, <2>1 DEF Undo, ToSet
<1>6. CASE g = "controller"
    <2>1. ToSet(ControllerUndo) = SitesOf("controller") /\ ControllerUndo \in Seq(Nat)
        BY WholeSites DEF ControllerUndo, ToSet, Authority
    <2>. QED
        BY <1>1, <1>6, <2>1 DEF Undo, ToSet
<1>7. CASE g \notin {"provider", "postConfirm", "metadata", "diagnostics", "controller"}
    <2>1. Undo(g) = Reverse(Order[g])
        BY <1>7 DEF Undo
    <2>2. Reverse(Order[g]) \in Seq(SitesOf(g)) /\ ToSet(Reverse(Order[g])) = ToSet(Order[g])
        BY <1>1, ReverseElements
    <2>. QED
        BY <1>1, <2>1, <2>2 DEF SitesOf
<1>. QED
    BY <1>2, <1>3, <1>4, <1>5, <1>6, <1>7

---------------------------------------------------------------------------
(* A step of a thread on its group, and what it leaves as it is. *)

ThreadState ==
    [todo : Seq(Steps), phase : {"next", "install", "undo"}, at : Nat,
     half : BOOLEAN, failed : BOOLEAN, undo : Seq(Sites)]

\* Only the sites of g change.
Only(g) == \A s \in Sites \ SitesOf(g) :
               code'[s] = code[s] /\ saved'[s] = saved[s] /\ orig'[s] = orig[s]

\* Thread t turns to state new, and touches the sites of its group g at most.
WorksOn(t, g, new) ==
    /\ exit = 0 /\ exit' = 0
    /\ run[t].todo # <<>> /\ g = Group(t) /\ g \in Groups
    /\ new \in ThreadState /\ run' = [run EXCEPT ![t] = new]
    /\ \/ new.todo = run[t].todo /\ new.phase # "next"
       \/ new.todo = Tail(run[t].todo)
       \/ new.todo = <<>>
    /\ Only(g)

\* What other threads' groups have been told stays so.
KeepsFlags(t) ==
    /\ ready \subseteq ready'
    /\ "route" \in ready' => "route" \in ready \/ t = "nrsc"
    /\ bridge = 2 => bridge' = 2
    /\ bridge' = bridge \/ t = "nrsc"

LEMMA TailOf ==
    ASSUME NEW S, NEW s \in Seq(S), s # <<>>
    PROVE  /\ Len(s) \in Nat \ {0} /\ Head(s) = s[1] /\ Head(s) \in S
           /\ Tail(s) \in Seq(S) /\ Len(Tail(s)) = Len(s) - 1
           /\ \A i \in 1..Len(Tail(s)) : Tail(s)[i] = s[i + 1] /\ i + 1 \in 1..Len(s)
OBVIOUS

\* A shorter program is still a program: its steps are steps of the old one.
LEMMA Shorter ==
    ASSUME NEW S, NEW s \in Seq(S), s # <<>>, NEW p \in Seq(S),
           p = s \/ p = Tail(s) \/ p = <<>>
    PROVE  \E d \in {0, 1} : \A i \in 1..Len(p) : /\ i + d \in 1..Len(s)
                                                  /\ p[i] = s[i + d]
                                                  /\ p # s => d = 1
<1>1. CASE p = s
    <2>1. \A i \in 1..Len(p) : i + 0 \in 1..Len(s) /\ p[i] = s[i + 0]
        BY <1>1
    <2>. QED
        BY <1>1, <2>1
<1>2. CASE p = Tail(s)
    BY <1>2, TailOf
<1>3. CASE p = <<>>
    BY <1>3
<1>. QED
    BY <1>1, <1>2, <1>3

LEMMA ClaimsApart ==
    ASSUME NEW t \in Threads, NEW u \in Threads, t # u,
           NEW g \in Claims(t), g \in Claims(u), g \in Groups
    PROVE  g = "limits"
BY GroupFacts DEF Threads, Claims, Steps

LEMMA RunAfter ==
    ASSUME RunType, NEW t \in Threads, NEW g, NEW new, WorksOn(t, g, new)
    PROVE  /\ run'[t] = new /\ RunType'
           /\ \A u \in Threads : u # t => run'[u] = run[u]
BY DEF RunType, WorksOn, ThreadState

LEMMA ProgramStays ==
    ASSUME RunType, NEW t \in Threads, NEW g, NEW new, ProgramOK(t),
           WorksOn(t, g, new), new.phase # "next" => new.todo = run[t].todo,
           new.phase = "next" => ~new.failed
    PROVE  ProgramOK(t)'
<1>1. run'[t] = new /\ run[t].todo \in Seq(Steps) /\ new.todo \in Seq(Steps)
    BY RunAfter DEF RunType, WorksOn, ThreadState
<1>2. PICK s : s = run[t].todo
    OBVIOUS
<1>3. PICK p : p = new.todo
    OBVIOUS
<1>0. s # <<>> /\ s \in Seq(Steps) /\ p \in Seq(Steps) /\ (p = s \/ p = Tail(s) \/ p = <<>>)
    BY <1>1, <1>2, <1>3 DEF WorksOn
<1>4. PICK d \in {0, 1} : \A i \in 1..Len(p) : /\ i + d \in 1..Len(s)
                                               /\ p[i] = s[i + d]
                                               /\ p # s => d = 1
    BY <1>0, Shorter
<1>5. ASSUME NEW i \in 1..Len(p) PROVE p[i] \in Claims(t)
    BY <1>2, <1>4 DEF ProgramOK
<1>6. ASSUME NEW i \in 1..Len(p), NEW j \in 1..Len(p), Kind(p[i]) = Kind(p[j])
      PROVE  i = j
    <2>1. Kind(s[i + d]) = Kind(s[j + d]) /\ i + d \in 1..Len(s) /\ j + d \in 1..Len(s)
        BY <1>4, <1>6
    <2>2. i + d = j + d
        BY <1>2, <2>1 DEF ProgramOK
    <2>. QED
        BY <1>1, <1>3, <2>2
<1>7. new.phase # "next" => p # <<>> /\ Head(p) \in Groups
    BY <1>2, <1>3 DEF WorksOn, Group
<1>. QED
    BY <1>1, <1>3, <1>5, <1>6, <1>7 DEF ProgramOK, Group

\* Another group of the same thread, later in its program.
LEMMA LaterGroup ==
    ASSUME RunType, NEW t \in Threads, ProgramOK(t), run[t].todo # <<>>,
           NEW i \in 1..Len(run[t].todo), i > 1
    PROVE  run[t].todo[i] # Group(t)
<1>1. run[t].todo \in Seq(Steps) /\ Group(t) = run[t].todo[1] /\ 1 \in 1..Len(run[t].todo)
    BY TailOf DEF RunType, Group
<1>. QED
    BY <1>1 DEF ProgramOK

LEMMA GroupUntouched ==
    ASSUME NEW g \in Groups, NEW h \in Groups, h # g, Only(g)
    PROVE  \A s \in SitesOf(h) : /\ s \in Sites /\ s \notin SitesOf(g)
                                 /\ code'[s] = code[s] /\ saved'[s] = saved[s]
                                 /\ orig'[s] = orig[s]
BY SiteOfGroup, GroupsApart DEF Only

LEMMA FreshStays ==
    ASSUME RunType, NEW t \in Threads, NEW g, NEW new, ProgramOK(t), FreshOK(t),
           WorksOn(t, g, new)
    PROVE  FreshOK(t)'
<1>1. run'[t] = new /\ run[t].todo \in Seq(Steps) /\ new.todo \in Seq(Steps)
    BY RunAfter DEF RunType, WorksOn, ThreadState
<1>2. PICK s : s = run[t].todo
    OBVIOUS
<1>3. PICK p : p = new.todo
    OBVIOUS
<1>0. s # <<>> /\ s \in Seq(Steps) /\ p \in Seq(Steps) /\ (p = s \/ p = Tail(s) \/ p = <<>>)
    BY <1>1, <1>2, <1>3 DEF WorksOn
<1>4. PICK d \in {0, 1} : \A i \in 1..Len(p) : /\ i + d \in 1..Len(s)
                                               /\ p[i] = s[i + d]
                                               /\ p # s => d = 1
    BY <1>0, Shorter
<1>5. ASSUME NEW i \in 1..Len(p), p[i] \in Groups \ {"limits"},
             i > 1 \/ new.phase = "next"
      PROVE  \A x \in SitesOf(p[i]) : code'[x] # "ours"
    <2>1. PICK h : h = p[i]
        OBVIOUS
    <2>2. PICK k : k = i + d
        OBVIOUS
    <2>3. k \in 1..Len(s) /\ s[k] = h
        BY <1>4, <2>1, <2>2
    <2>4. k > 1
        <3>1. CASE d = 1
            BY <1>1, <1>3, <2>2, <3>1
        <3>2. CASE p = s
            <4>1. Tail(s) # s /\ s # <<>>
                BY <1>0, TailOf
            <4>2. new.phase # "next"
                BY <1>2, <1>3, <3>2, <4>1 DEF WorksOn
            <4>. QED
                BY <1>1, <1>3, <1>5, <2>2, <4>2
        <3>. QED
            BY <1>4, <1>5, <3>1, <3>2
    <2>5. h # g /\ h \in Groups /\ g \in Groups /\ Only(g)
        BY <1>2, <1>5, <2>1, <2>3, <2>4, LaterGroup DEF WorksOn
    <2>6. NoneOurs(h)
        BY <1>2, <1>5, <2>1, <2>3, <2>4 DEF FreshOK
    <2>. QED
        BY <2>1, <2>5, <2>6, GroupUntouched DEF NoneOurs
<1>. QED
    BY <1>1, <1>3, <1>5 DEF FreshOK, NoneOurs

\* The group another thread is at is not this one, but for the limits.
LEMMA OtherGroup ==
    ASSUME RunType, NEW t \in Threads, NEW u \in Threads, u # t,
           ProgramOK(t), ProgramOK(u), run[t].todo # <<>>, Group(t) \in Groups,
           NEW i \in 1..Len(run[u].todo), run[u].todo[i] \in Groups \ {"limits"}
    PROVE  run[u].todo[i] # Group(t)
<1>1. Group(t) \in Claims(t)
    BY TailOf DEF RunType, Group, ProgramOK
<1>2. run[u].todo[i] \in Claims(u)
    BY DEF ProgramOK
<1>. QED
    BY <1>1, <1>2, ClaimsApart

LEMMA OtherStays ==
    ASSUME RunType, NEW t \in Threads, NEW u \in Threads, u # t,
           ProgramOK(t), ThreadOK(u), NEW g, NEW new, WorksOn(t, g, new),
           KeepsFlags(t)
    PROVE  ThreadOK(u)'
<1>1. run'[u] = run[u] /\ exit = 0 /\ exit' = 0 /\ g \in Groups /\ g = Group(t)
      /\ run[t].todo # <<>> /\ Only(g) /\ ProgramOK(u)
    BY RunAfter DEF WorksOn, ThreadOK
<1>2. PICK h : h = Group(u)
    OBVIOUS
<1>3. ASSUME run[u].phase # "next"
      PROVE  /\ h \in Groups /\ run[u].todo # <<>>
             /\ h # "limits" => h # g
    <2>1. h \in Groups /\ run[u].todo # <<>>
        BY <1>1, <1>2, <1>3 DEF ProgramOK
    <2>2. run[u].todo[1] = h /\ 1 \in 1..Len(run[u].todo)
        BY <1>2, <2>1, TailOf DEF RunType, Group
    <2>. QED
        BY <1>1, <2>1, <2>2, OtherGroup
<1>4. ASSUME run[u].phase # "next", h # "limits"
      PROVE  \A s \in SitesOf(h) : /\ s \in Sites /\ s \notin SitesOf(g)
                                   /\ code'[s] = code[s] /\ saved'[s] = saved[s]
                                   /\ orig'[s] = orig[s]
    BY <1>1, <1>3, <1>4, GroupUntouched
<1>5. ProgramOK(u)'
    BY <1>1 DEF ProgramOK, Group
<1>6. FreshOK(u)'
    <2>1. ASSUME NEW i \in 1..Len(run[u].todo), run[u].todo[i] \in Groups \ {"limits"},
                 NoneOurs(run[u].todo[i])
          PROVE  \A s \in SitesOf(run[u].todo[i]) : code'[s] # "ours"
        BY <1>1, <2>1, OtherGroup, GroupUntouched DEF NoneOurs
    <2>. QED
        BY <1>1, <2>1 DEF FreshOK, NoneOurs, ThreadOK
<1>7. HalfOK(u)'
    <2>1. SUFFICES ASSUME run[u].half PROVE HalfOK(u)'
        BY <1>1 DEF HalfOK
    <2>2. /\ AtSite(u) /\ Site(u) \notin Patches \cup CallHooks
          /\ saved[Site(u)] # "none" /\ orig[Site(u)] \in {"native", "live"}
        BY <2>1 DEF HalfOK, ThreadOK
    <2>3. run[u].phase = "install" /\ run[u].at <= Len(Order[h]) /\ Site(u) = Order[h][run[u].at]
        BY <1>2, <2>2 DEF AtSite, In, Site
    <2>4. run[u].at \in 1..Len(Order[h]) + 1
        BY <1>2, <2>3 DEF ThreadOK, InstallOK
    <2>5. Site(u) \in SitesOf(h)
        BY <1>3, <2>3, <2>4, SiteOfGroup
    <2>6. h # "limits"
        BY <2>2, <2>5, LimitsArePatches
    <2>7. saved'[Site(u)] = saved[Site(u)] /\ orig'[Site(u)] = orig[Site(u)]
        BY <1>4, <2>3, <2>5, <2>6
    <2>8. Group(u)' = h /\ Site(u)' = Site(u) /\ AtSite(u)'
        BY <1>1, <1>2, <2>2 DEF AtSite, In, Site, Group
    <2>. QED
        BY <2>2, <2>7, <2>8 DEF HalfOK
<1>8. InstallOK(u)'
    <2>1. SUFFICES ASSUME run[u].phase = "install" PROVE InstallOK(u)'
        BY <1>1 DEF InstallOK
    <2>2. Group(u)' = h
        BY <1>1, <1>2 DEF Group
    <2>3. h \in Groups /\ run[u].at \in 1..Len(Order[h]) + 1
        BY <1>2, <1>3, <2>1 DEF ThreadOK, InstallOK
    <2>4. CASE h = "limits"
        BY <1>1, <2>2, <2>3, <2>4, GroupFacts DEF InstallOK, Whole1
    <2>5. CASE h # "limits"
        <3>1. \A i \in 1..Len(Order[h]) : code'[Order[h][i]] = code[Order[h][i]]
            BY <1>4, <2>1, <2>3, <2>5, SiteOfGroup
        <3>2. h = "provider" => code'[Selector] = code[Selector]
            BY <1>4, <2>1, <2>5, SelectorIsLast
        <3>3. /\ \A i \in run[u].at..Len(Order[h]) : code[Order[h][i]] # "ours"
              /\ h \in Whole /\ ~run[u].failed =>
                     \A i \in 1..run[u].at - 1 : code[Order[h][i]] = "ours"
              /\ h \in Whole1 /\ run[u].failed => run[u].at = Len(Order[h]) + 1
              /\ h = "provider" /\ run[u].failed => code[Selector] # "ours"
              /\ h = "handoff" => "functional" \in ready
              /\ h = "friend" => bridge = 2 /\ "handoff" \in ready
            BY <1>2, <2>1, <2>5 DEF ThreadOK, InstallOK
        <3>4. Len(Order[h]) \in Nat
            BY <2>3, SiteOfGroup
        <3>5. \A i \in run[u].at..Len(Order[h]) : code'[Order[h][i]] # "ours"
            BY <2>3, <3>1, <3>3, <3>4
        <3>6. h \in Whole /\ ~run[u].failed =>
                  \A i \in 1..run[u].at - 1 : code'[Order[h][i]] = "ours"
            BY <2>3, <3>1, <3>3, <3>4
        <3>7. /\ h = "handoff" => "functional" \in ready'
              /\ h = "friend" => bridge' = 2 /\ "handoff" \in ready'
            BY <3>3 DEF KeepsFlags
        <3>. QED
            BY <1>1, <2>2, <2>3, <3>2, <3>3, <3>5, <3>6, <3>7 DEF InstallOK
    <2>. QED
        BY <2>4, <2>5
<1>9. UndoOK(u)'
    <2>1. SUFFICES ASSUME run[u].phase = "undo" PROVE UndoOK(u)'
        BY <1>1 DEF UndoOK
    <2>2. Group(u)' = h
        BY <1>1, <1>2 DEF Group
    <2>3. /\ h \in Whole
          /\ ToSet(run[u].undo) \subseteq SitesOf(h)
          /\ \A s \in SitesOf(h) : code[s] = "ours" => s \in ToSet(run[u].undo)
          /\ h = "provider" => code[Selector] # "ours"
        BY <1>2, <2>1 DEF ThreadOK, UndoOK
    <2>4. \A s \in SitesOf(h) : code'[s] = code[s]
        BY <1>4, <2>1, <2>3, GroupFacts
    <2>. QED
        BY <1>1, <2>2, <2>3, <2>4, SelectorIsLast DEF UndoOK
<1>10. TitleOK(u)'
    <2>1. SUFFICES ASSUME run[u].phase = "install", h \in {"provider", "postConfirm"}
          PROVE  TitleOK(u)'
        BY <1>1, <1>2 DEF TitleOK, Group
    <2>2. \A s \in TitlePatches(h) : orig[s] = "native" /\ s \in SitesOf(h)
        BY <1>2, <2>1 DEF ThreadOK, TitleOK, TitlePatches
    <2>3. h # "limits"
        BY <2>1
    <2>. QED
        BY <1>1, <1>2, <1>4, <2>1, <2>2, <2>3 DEF TitleOK, Group
<1>. QED
    BY <1>5, <1>6, <1>7, <1>8, <1>9, <1>10 DEF ThreadOK

LEMMA PendingStays ==
    ASSUME RunType, NEW t \in Threads, NEW g, NEW new, WorksOn(t, g, new),
           NEW u \in Threads, NEW x, Pending(u, x)'
    PROVE  Pending(u, x)
<1>1. CASE u # t
    <2>1. run'[u] = run[u]
        BY <1>1, RunAfter
    <2>. QED
        BY <2>1 DEF Pending
<1>2. CASE u = t
    <2>1. run'[t] = new /\ run[t].todo \in Seq(Steps) /\ new.todo \in Seq(Steps)
        BY RunAfter DEF RunType, WorksOn, ThreadState
    <2>2. PICK s : s = run[t].todo
        OBVIOUS
    <2>3. PICK p : p = new.todo
        OBVIOUS
    <2>4. s # <<>> /\ s \in Seq(Steps) /\ p \in Seq(Steps)
          /\ (p = s \/ p = Tail(s) \/ p = <<>>)
        BY <2>1, <2>2, <2>3 DEF WorksOn
    <2>5. PICK d \in {0, 1} : \A i \in 1..Len(p) : /\ i + d \in 1..Len(s)
                                                   /\ p[i] = s[i + d]
                                                   /\ p # s => d = 1
        BY <2>4, Shorter
    <2>6. PICK i \in 1..Len(p) : p[i] = x
        BY <1>2, <2>1, <2>3 DEF Pending
    <2>. QED
        BY <1>2, <2>2, <2>5, <2>6 DEF Pending
<1>. QED
    BY <1>1, <1>2

\* What a thread works on is in its program and no longer ready.
LEMMA AtWork ==
    ASSUME RunType, NEW t \in Threads, ProgramOK(t), run[t].todo # <<>>
    PROVE  Pending(t, Group(t)) /\ Group(t) \in Claims(t)
<1>1. run[t].todo[1] = Group(t) /\ 1 \in 1..Len(run[t].todo)
    BY TailOf DEF RunType, Group
<1>. QED
    BY <1>1 DEF Pending, ProgramOK

LEMMA PollsStay ==
    ASSUME RunType, NEW t \in Threads, NEW g, NEW new, WorksOn(t, g, new),
           PollsOK, polls' = polls
    PROVE  PollsOK'
<1>1. run["expander"].todo = <<>> => run'["expander"].todo = <<>>
    <2>1. SUFFICES ASSUME run["expander"].todo = <<>>
                   PROVE  run'["expander"].todo = <<>>
        OBVIOUS
    <2>2. t # "expander"
        BY <2>1 DEF WorksOn
    <2>. QED
        BY <2>1, <2>2, RunAfter DEF Threads
<1>2. Pending("worker", "capacity")' \/ Pending("worker", "limits")'
          => Pending("worker", "capacity") \/ Pending("worker", "limits")
    BY PendingStays DEF Threads
<1>. QED
    BY <1>1, <1>2 DEF PollsOK

LEMMA SpawnStays ==
    ASSUME RunType, NEW t \in Threads, NEW g, NEW new, ProgramOK(t),
           WorksOn(t, g, new), KeepsFlags(t), SpawnOK
    PROVE  SpawnOK'
<1>1. SUFFICES ASSUME Pending("worker", "spawn")' PROVE SpawnOK'
    BY DEF SpawnOK
<1>2. Pending("worker", "spawn")
    BY <1>1, PendingStays DEF Threads
<1>3. /\ NoneOurs("bridge") /\ NoneOurs("friend")
      /\ bridge = 0 /\ run["nrsc"].todo = <<>> /\ "route" \notin ready
    BY <1>2 DEF SpawnOK
<1>4. t # "nrsc" /\ run'["nrsc"] = run["nrsc"]
    BY <1>3, RunAfter DEF WorksOn, Threads
<1>5. g \in Claims(t) /\ g \in Groups /\ Only(g)
    BY AtWork DEF WorksOn
<1>6. g # "bridge" /\ g # "friend"
    BY <1>4, <1>5 DEF Claims, Threads
<1>7. /\ \A s \in SitesOf("bridge") : code'[s] = code[s]
      /\ \A s \in SitesOf("friend") : code'[s] = code[s]
    BY <1>5, <1>6, GroupUntouched, GroupFacts
<1>8. bridge' = 0 /\ "route" \notin ready'
    BY <1>3, <1>4 DEF KeepsFlags
<1>. QED
    BY <1>3, <1>4, <1>7, <1>8 DEF SpawnOK, NoneOurs

\* A finished group stays whole: no thread works on it again.
LEMMA FinishedStays ==
    ASSUME RunType, NEW t \in Threads, NEW g, NEW new, ProgramOK(t),
           WorksOn(t, g, new), NEW u \in Threads, NEW x \in Groups \ {"limits"},
           x \in Claims(u), AllOurs(x), ~Pending(u, x)
    PROVE  AllOurs(x)' /\ ~Pending(u, x)'
<1>1. g \in Claims(t) /\ g \in Groups /\ Only(g) /\ Pending(t, g)
    BY AtWork DEF WorksOn
<1>2. x # g
    <2>1. SUFFICES ASSUME x = g PROVE FALSE
        OBVIOUS
    <2>2. t = u
        BY <1>1, <2>1, ClaimsApart
    <2>. QED
        BY <1>1, <2>1, <2>2
<1>3. \A s \in SitesOf(x) : code'[s] = code[s]
    BY <1>1, <1>2, GroupUntouched
<1>4. ~Pending(u, x)'
    BY PendingStays
<1>. QED
    BY <1>3, <1>4 DEF AllOurs

LEMMA FlagClaims ==
    /\ "worker" \in Threads /\ "nrsc" \in Threads
    /\ \A x \in {"functional", "handoff"} :
           x \in Claims("worker") /\ x \in Groups \ {"limits"}
    /\ \A x \in {"bridge", "friend"} :
           x \in Claims("nrsc") /\ x \in Groups \ {"limits"}
BY GroupsListed DEF Claims, Threads, Steps

LEMMA ReadyStays ==
    ASSUME RunType, NEW t \in Threads, NEW g, NEW new, ProgramOK(t),
           WorksOn(t, g, new), ReadyOK, ready' = ready, bridge' = 2 => bridge = 2,
           bridge = 2 => bridge' = 2
    PROVE  ReadyOK'
<1>1. \A x \in {"functional", "handoff"} :
          x \in ready => AllOurs(x)' /\ ~Pending("worker", x)'
    BY FinishedStays, FlagClaims DEF ReadyOK
<1>2. bridge = 2 => AllOurs("bridge")' /\ ~Pending("nrsc", "bridge")'
    BY FinishedStays, FlagClaims DEF ReadyOK
<1>3. "route" \in ready => /\ "handoff" \in ready /\ bridge = 2
                           /\ AllOurs("friend")' /\ ~Pending("nrsc", "friend")'
    BY FinishedStays, FlagClaims DEF ReadyOK
<1>4. "handoff" \in ready => "functional" \in ready
    BY DEF ReadyOK
<1>. QED
    BY <1>1, <1>2, <1>3, <1>4 DEF ReadyOK

\* The other groups that are undone stay whole, untouched or at work.
WholeOrNot(h) == Busy(h) \/ AllOurs(h) \/ NoneOurs(h)

LEMMA OthersWhole ==
    ASSUME RunType, NEW t \in Threads, NEW g, NEW new, WorksOn(t, g, new),
           NEW h \in Whole, h # g, WholeOrNot(h)
    PROVE  WholeOrNot(h)'
<1>1. g = Group(t) /\ g \in Groups /\ Only(g)
    BY DEF WorksOn
<1>2. \A s \in SitesOf(h) : code'[s] = code[s]
    BY <1>1, GroupUntouched, GroupFacts
<1>3. Busy(h) => Busy(h)'
    <2>1. ASSUME NEW u \in Threads, run[u].todo # <<>>, Group(u) = h, run[u].phase # "next"
          PROVE  Busy(h)'
        <3>1. run'[u] = run[u]
            BY <1>1, <2>1, RunAfter
        <3>. QED
            BY <2>1, <3>1 DEF Busy, Group
    <2>. QED
        BY <2>1 DEF Busy
<1>. QED
    BY <1>2, <1>3 DEF WholeOrNot, AllOurs, NoneOurs

LEMMA OtherSites ==
    ASSUME SiteOK, NEW g, Only(g), NEW s \in Sites \ SitesOf(g)
    PROVE  /\ code'[s] = "ours" =>
                  saved'[s] # "none" /\ orig'[s] \in {"native", "live"}
           /\ s \in Plain \cup (Patches \ TitleSites) => orig'[s] = "native"
BY DEF SiteOK, Only

LEMMA SelectorStays ==
    ASSUME SelectorLast, NEW g \in Groups, g # "provider", Only(g)
    PROVE  SelectorLast'
BY GroupUntouched, GroupFacts, SelectorIsLast DEF SelectorLast

---------------------------------------------------------------------------
(* A step keeps the invariant once it keeps what concerns its own group. *)

Going == IInv /\ exit = 0

LEMMA GoingParts ==
    ASSUME Going
    PROVE  /\ ValueType /\ RunType /\ SiteOK /\ SelectorLast /\ exit = 0
           /\ \A t \in Threads : ThreadOK(t) /\ ProgramOK(t)
           /\ PollsOK /\ SpawnOK /\ ReadyOK
           /\ \A h \in Whole : WholeOrNot(h)
BY DEF Going, IInv, RunningOK, ThreadOK, NoPartialGroup, WholeOrNot, AllOurs, NoneOurs

LEMMA StillGoing ==
    ASSUME ValueType', RunType', SiteOK', SelectorLast', exit' = 0,
           \A t \in Threads : ThreadOK(t)', PollsOK', SpawnOK', ReadyOK',
           \A h \in Whole : WholeOrNot(h)'
    PROVE  IInv'
<1>1. NoPartialGroup'
    BY DEF NoPartialGroup, WholeOrNot, AllOurs, NoneOurs
<1>2. ExitOK'
    BY DEF ExitOK
<1>. QED
    BY <1>1, <1>2 DEF IInv, RunningOK

LEMMA OwnGroupDecides ==
    ASSUME Going, NEW t \in Threads, NEW g, NEW new,
           WorksOn(t, g, new), KeepsFlags(t), polls' = polls, ValueType',
           new.phase # "next" => new.todo = run[t].todo,
           new.phase = "next" => ~new.failed,
           HalfOK(t)', InstallOK(t)', UndoOK(t)', TitleOK(t)',
           \A s \in SitesOf(g) :
               /\ code'[s] = "ours" =>
                      saved'[s] # "none" /\ orig'[s] \in {"native", "live"}
               /\ s \in Plain \cup (Patches \ TitleSites) => orig'[s] = "native",
           SelectorLast', ReadyOK', g \in Whole => WholeOrNot(g)'
    PROVE  IInv'
<1>1. /\ ValueType /\ RunType /\ SiteOK /\ SelectorLast /\ exit = 0
      /\ \A u \in Threads : ThreadOK(u) /\ ProgramOK(u)
      /\ PollsOK /\ SpawnOK /\ ReadyOK
      /\ \A h \in Whole : WholeOrNot(h)
    BY GoingParts
<1>2. RunType' /\ exit' = 0 /\ g \in Groups /\ Only(g)
    BY <1>1, RunAfter DEF WorksOn
<1>3. ProgramOK(t)'
    BY <1>1, ProgramStays
<1>4. FreshOK(t)'
    BY <1>1, FreshStays DEF ThreadOK
<1>5. ThreadOK(t)'
    BY <1>3, <1>4 DEF ThreadOK
<1>6. \A u \in Threads : u # t => ThreadOK(u)'
    BY <1>1, OtherStays
<1>7. PollsOK' /\ SpawnOK'
    BY <1>1, PollsStay, SpawnStays
<1>8. \A h \in Whole : h # g => WholeOrNot(h)'
    BY <1>1, OthersWhole
<1>9. SiteOK'
    <2>1. ASSUME NEW s \in Sites
          PROVE  /\ code'[s] = "ours" =>
                        saved'[s] # "none" /\ orig'[s] \in {"native", "live"}
                 /\ s \in Plain \cup (Patches \ TitleSites) => orig'[s] = "native"
        BY <1>1, <1>2, <2>1, OtherSites
    <2>. QED
        BY <2>1 DEF SiteOK
<1>. QED
    BY <1>2, <1>5, <1>6, <1>7, <1>8, <1>9, StillGoing

\* Between two groups a thread owes nothing.
LEMMA IdleOwes ==
    ASSUME RunType, NEW t \in Threads, NEW g, NEW new, WorksOn(t, g, new),
           new.phase = "next", ~new.half
    PROVE  HalfOK(t)' /\ InstallOK(t)' /\ UndoOK(t)' /\ TitleOK(t)'
BY RunAfter DEF HalfOK, InstallOK, UndoOK, TitleOK

---------------------------------------------------------------------------
(* The steps of a thread, one by one. *)

LEMMA GroupAtWork ==
    ASSUME Going, NEW t \in Threads, run[t].todo # <<>>
    PROVE  /\ Group(t) = run[t].todo[1] /\ 1 \in 1..Len(run[t].todo)
           /\ run[t] \in ThreadState
           /\ Tail(run[t].todo) \in Seq(Steps)
           /\ run[t].phase # "next" => Group(t) \in Groups
<1>1. RunType /\ ProgramOK(t)
    BY GoingParts
<1>2. run[t] \in ThreadState
    BY <1>1 DEF RunType, ThreadState
<1>3. run[t].todo \in Seq(Steps)
    BY <1>2 DEF ThreadState
<1>4. Group(t) = run[t].todo[1] /\ 1 \in 1..Len(run[t].todo) /\ Tail(run[t].todo) \in Seq(Steps)
    BY <1>3, TailOf DEF Group
<1>. QED
    BY <1>1, <1>2, <1>4 DEF ProgramOK

LEMMA ProgramType ==
    ASSUME NEW p \in Seq(Steps)
    PROVE  /\ Program(p) \in ThreadState
           /\ Program(p).todo = p /\ Program(p).phase = "next"
           /\ Program(p).half = FALSE /\ Program(p).failed = FALSE
BY DEF Program, ThreadState

\* A group that is not begun: it is fresh, and nothing has changed.
LEMMA BeginSkips ==
    ASSUME Going, NEW t \in Threads, Begin(t), ~Passes(Group(t))
    PROVE  IInv'
<1>1. /\ ValueType /\ RunType /\ SiteOK /\ SelectorLast /\ exit = 0 /\ ReadyOK
      /\ ThreadOK(t) /\ ProgramOK(t)
    BY GoingParts
<1>2. PICK g : g = Group(t)
    OBVIOUS
<1>3. /\ In(t, "next") /\ g \in Groups /\ (g = "bridge" => bridge = 0)
      /\ bridge' = IF g = "bridge" THEN 3 ELSE bridge
      /\ UNCHANGED <<code, saved, orig, ready, table, polls, faults, exit>>
      /\ run' = IF g = "bridge" THEN [run EXCEPT ![t] = Program(<<>>)] ELSE Proceed(t)
    BY <1>2 DEF Begin
<1>4. run[t].todo # <<>> /\ run[t].phase = "next"
    BY <1>3 DEF In
<1>5. PICK p : p = IF g = "bridge" THEN <<>> ELSE Tail(run[t].todo)
    OBVIOUS
<1>6. p \in Seq(Steps)
    BY <1>4, <1>5, GroupAtWork
<1>7. PICK new : new = Program(p)
    OBVIOUS
<1>8. run' = [run EXCEPT ![t] = new]
    BY <1>3, <1>5, <1>7 DEF Proceed
<1>9. /\ new \in ThreadState /\ new.todo = p /\ new.phase = "next"
      /\ ~new.half /\ ~new.failed
    BY <1>6, <1>7, ProgramType
<1>10. WorksOn(t, g, new)
    BY <1>1, <1>2, <1>3, <1>4, <1>5, <1>8, <1>9 DEF WorksOn, Only
<1>11. g = "bridge" => t = "nrsc"
    <2>1. g \in Claims(t)
        BY <1>1, <1>2, <1>4, AtWork
    <2>. QED
        BY <2>1 DEF Claims, Threads
<1>12. KeepsFlags(t) /\ bridge' \in 0..3 /\ (bridge' = 2 <=> bridge = 2)
    BY <1>1, <1>3, <1>11 DEF KeepsFlags, ValueType
<1>13. ValueType'
    BY <1>1, <1>3, <1>12 DEF ValueType
<1>14. HalfOK(t)' /\ InstallOK(t)' /\ UndoOK(t)' /\ TitleOK(t)'
    BY <1>1, <1>9, <1>10, IdleOwes
<1>15. \A s \in SitesOf(g) :
           /\ code'[s] = "ours" =>
                  saved'[s] # "none" /\ orig'[s] \in {"native", "live"}
           /\ s \in Plain \cup (Patches \ TitleSites) => orig'[s] = "native"
    BY <1>1, <1>3, SiteOfGroup DEF SiteOK
<1>16. SelectorLast' /\ ReadyOK'
    BY <1>1, <1>3, <1>10, <1>12, ReadyStays DEF SelectorLast
<1>17. g \in Whole => WholeOrNot(g)'
    <2>1. g \in Groups \ {"limits"} => NoneOurs(g)
        BY <1>1, <1>2, <1>4, GroupAtWork DEF ThreadOK, FreshOK
    <2>. QED
        BY <1>3, <2>1, GroupFacts DEF WholeOrNot, NoneOurs
<1>18. polls' = polls
    BY <1>3
<1>. QED
    BY <1>9, <1>10, <1>12, <1>13, <1>14, <1>15, <1>16, <1>17, <1>18, OwnGroupDecides

\* A group that is begun has been fresh, and what it needs is there.
LEMMA BeginKeeps ==
    ASSUME Going, NEW t \in Threads, Begin(t), Passes(Group(t))
    PROVE  IInv'
<1>1. /\ ValueType /\ RunType /\ SiteOK /\ SelectorLast /\ exit = 0 /\ ReadyOK
      /\ ThreadOK(t) /\ ProgramOK(t)
    BY GoingParts
<1>2. PICK g : g = Group(t)
    OBVIOUS
<1>3. /\ In(t, "next") /\ g \in Groups /\ (g = "bridge" => bridge = 0)
      /\ bridge' = IF g = "bridge" THEN 1 ELSE bridge
      /\ orig' = PointedAtNatives(g)
      /\ UNCHANGED <<code, saved, ready, table, polls, faults, exit>>
      /\ run' = [run EXCEPT ![t].phase = "install", ![t].at = 1]
      /\ Needs(g)
    BY <1>2 DEF Begin, Passes
<1>4. run[t].todo # <<>> /\ run[t].phase = "next"
    BY <1>3 DEF In
<1>5. run[t] \in ThreadState
    BY <1>4, GroupAtWork
<1>6. PICK new : new = [run[t] EXCEPT !.phase = "install", !.at = 1]
    OBVIOUS
<1>7. /\ new \in ThreadState /\ new.todo = run[t].todo /\ new.phase = "install"
      /\ new.at = 1 /\ new.half = run[t].half /\ new.failed = run[t].failed
    BY <1>5, <1>6 DEF ThreadState
<1>8. run' = [run EXCEPT ![t] = new]
    BY <1>1, <1>3, <1>6 DEF RunType
<1>9. \A s \in Sites : orig'[s] = IF g \in {"provider", "postConfirm"} /\ s \in TitlePatches(g)
                                  THEN "native" ELSE orig[s]
    BY <1>3 DEF PointedAtNatives
<1>10. Only(g)
    BY <1>3, <1>9 DEF Only, TitlePatches
<1>11. WorksOn(t, g, new)
    BY <1>1, <1>2, <1>3, <1>4, <1>7, <1>8, <1>10 DEF WorksOn
<1>12. g = "bridge" => t = "nrsc"
    <2>1. g \in Claims(t)
        BY <1>1, <1>2, <1>4, AtWork
    <2>. QED
        BY <2>1 DEF Claims, Threads
<1>13. KeepsFlags(t) /\ bridge' \in 0..3 /\ (bridge' = 2 <=> bridge = 2)
    BY <1>1, <1>3, <1>12 DEF KeepsFlags, ValueType
<1>14. orig' \in [Sites -> {"null", "native", "live", "freed"}]
    BY <1>1, <1>3 DEF PointedAtNatives, ValueType
<1>15. ValueType'
    BY <1>1, <1>3, <1>13, <1>14 DEF ValueType
<1>16. run'[t] = new
    BY <1>1, <1>11, RunAfter
<1>17. Group(t)' = g
    BY <1>2, <1>7, <1>16 DEF Group
<1>18. ~new.half /\ ~new.failed
    BY <1>1, <1>4, <1>7 DEF ThreadOK, ProgramOK, HalfOK, AtSite, In
<1>19. g # "limits" => NoneOurs(g)
    BY <1>1, <1>2, <1>3, <1>4, GroupAtWork DEF ThreadOK, FreshOK
<1>20. InstallOK(t)'
    <2>1. g # "limits" => \A i \in 1..Len(Order[g]) : code'[Order[g][i]] # "ours"
        BY <1>3, <1>19, SiteOfGroup DEF NoneOurs
    <2>2. /\ g = "handoff" => "functional" \in ready'
          /\ g = "friend" => bridge' = 2 /\ "handoff" \in ready'
        BY <1>3 DEF Needs, HandoffNeeds, FriendNeeds
    <2>3. Len(Order[g]) \in Nat
        BY <1>3, SiteOfGroup
    <2>. QED
        BY <1>7, <1>16, <1>17, <1>18, <2>1, <2>2, <2>3 DEF InstallOK
<1>21. HalfOK(t)' /\ UndoOK(t)'
    BY <1>7, <1>16, <1>18 DEF HalfOK, UndoOK
<1>22. TitleOK(t)'
    BY <1>3, <1>9, <1>17, SiteOfGroup DEF TitleOK, TitlePatches
<1>23. \A s \in SitesOf(g) :
           /\ code'[s] = "ours" =>
                  saved'[s] # "none" /\ orig'[s] \in {"native", "live"}
           /\ s \in Plain \cup (Patches \ TitleSites) => orig'[s] = "native"
    BY <1>1, <1>3, <1>9, SiteOfGroup DEF SiteOK
<1>24. SelectorLast' /\ ReadyOK'
    BY <1>1, <1>3, <1>11, <1>13, ReadyStays DEF SelectorLast
<1>25. WholeOrNot(g)'
    BY <1>4, <1>7, <1>16, <1>17 DEF WholeOrNot, Busy
<1>26. polls' = polls /\ new.phase # "next"
    BY <1>3, <1>7
<1>. QED
    BY <1>7, <1>11, <1>13, <1>15, <1>20, <1>21, <1>22, <1>23, <1>24, <1>25, <1>26,
       OwnGroupDecides

LEMMA AtSiteFacts ==
    ASSUME Going, NEW t \in Threads, AtSite(t)
    PROVE  /\ Group(t) \in Groups /\ run[t].todo # <<>> /\ run[t].phase = "install"
           /\ run[t] \in ThreadState
           /\ Len(Order[Group(t)]) \in Nat
           /\ run[t].at \in 1..Len(Order[Group(t)])
           /\ Site(t) = Order[Group(t)][run[t].at]
           /\ Site(t) \in SitesOf(Group(t)) /\ Site(t) \in Sites
           /\ Group(t) # "limits" => code[Site(t)] # "ours"
<1>1. run[t].todo # <<>> /\ run[t].phase = "install" /\ run[t].at <= Len(Order[Group(t)])
    BY DEF AtSite, In
<1>2. run[t] \in ThreadState /\ Group(t) \in Groups
    BY <1>1, GroupAtWork
<1>3. /\ run[t].at \in 1..Len(Order[Group(t)]) + 1
      /\ Group(t) # "limits" =>
             \A i \in run[t].at..Len(Order[Group(t)]) : code[Order[Group(t)][i]] # "ours"
    BY <1>1, GoingParts DEF ThreadOK, InstallOK
<1>4. Len(Order[Group(t)]) \in Nat
    BY <1>2, SiteOfGroup
<1>5. run[t].at \in 1..Len(Order[Group(t)])
    BY <1>1, <1>3, <1>4
<1>6. run[t].at \in run[t].at..Len(Order[Group(t)])
    BY <1>4, <1>5
<1>. QED
    BY <1>1, <1>2, <1>3, <1>4, <1>5, <1>6, SiteOfGroup DEF Site

\* One site has been tried: it is ours, or the installation has failed.
LEMMA SiteStep ==
    ASSUME Going, NEW t \in Threads, AtSite(t), NEW g, g = Group(t), NEW s, s = Site(t),
           NEW new \in ThreadState, run' = [run EXCEPT ![t] = new],
           new.todo = run[t].todo, new.phase = "install", ~new.half,
           code'[s] = "ours" => new.failed = run[t].failed /\ new.at = run[t].at + 1,
           code'[s] # "ours" =>
               new.failed /\ new.at = IF GoesOn(g) THEN run[t].at + 1 ELSE Len(Order[g]) + 1,
           \A x \in Sites \ {s} : /\ code'[x] = code[x] /\ saved'[x] = saved[x]
                                  /\ orig'[x] = orig[x],
           s \in Patches => orig'[s] = orig[s],
           code'[s] = "ours" => saved'[s] # "none" /\ orig'[s] \in {"native", "live"},
           s \in Plain \cup (Patches \ TitleSites) => orig'[s] = "native",
           ValueType', UNCHANGED <<ready, bridge, polls, exit>>
    PROVE  IInv'
<1>1. /\ ValueType /\ RunType /\ SiteOK /\ SelectorLast /\ exit = 0 /\ ReadyOK
      /\ ThreadOK(t) /\ ProgramOK(t)
    BY GoingParts
<1>2. /\ g \in Groups /\ run[t].todo # <<>> /\ run[t].phase = "install"
      /\ Len(Order[g]) \in Nat /\ run[t].at \in 1..Len(Order[g])
      /\ s = Order[g][run[t].at] /\ s \in SitesOf(g) /\ s \in Sites
      /\ run[t] \in ThreadState
    BY AtSiteFacts
<1>3. Only(g)
    BY <1>2 DEF Only
<1>4. WorksOn(t, g, new)
    BY <1>1, <1>2, <1>3 DEF WorksOn
<1>5. run'[t] = new
    BY <1>1, <1>4, RunAfter
<1>6. Group(t)' = g
    BY <1>5 DEF Group
<1>7. \A i \in 1..Len(Order[g]) : i # run[t].at =>
          Order[g][i] # s /\ code'[Order[g][i]] = code[Order[g][i]]
    BY <1>2, OnceInGroup, SiteOfGroup
<1>8. /\ g # "limits" => \A i \in run[t].at..Len(Order[g]) : code[Order[g][i]] # "ours"
      /\ g \in Whole /\ ~run[t].failed =>
             \A i \in 1..run[t].at - 1 : code[Order[g][i]] = "ours"
      /\ g \in Whole1 /\ run[t].failed => run[t].at = Len(Order[g]) + 1
      /\ g = "handoff" => "functional" \in ready
      /\ g = "friend" => bridge = 2 /\ "handoff" \in ready
    BY <1>1, <1>2 DEF ThreadOK, InstallOK
<1>9. g \in Whole1 => ~run[t].failed /\ ~GoesOn(g)
    BY <1>2, <1>8 DEF Whole1, GoesOn
<1>10. new.at \in 1..Len(Order[g]) + 1 /\ new.at > run[t].at
    BY <1>2
<1>11. g # "limits" => \A i \in new.at..Len(Order[g]) : code'[Order[g][i]] # "ours"
    <2>1. ASSUME g # "limits", NEW i \in new.at..Len(Order[g])
          PROVE  code'[Order[g][i]] # "ours"
        <3>1. i \in 1..Len(Order[g]) /\ i # run[t].at /\ i \in run[t].at..Len(Order[g])
            BY <1>2, <1>10
        <3>. QED
            BY <1>7, <1>8, <2>1, <3>1
    <2>. QED
        BY <2>1
<1>12. g \in Whole /\ ~new.failed => \A i \in 1..new.at - 1 : code'[Order[g][i]] = "ours"
    <2>1. ASSUME g \in Whole, ~new.failed, NEW i \in 1..new.at - 1
          PROVE  code'[Order[g][i]] = "ours"
        <3>1. code'[s] = "ours" /\ ~run[t].failed /\ new.at = run[t].at + 1
            BY <2>1
        <3>2. CASE i = run[t].at
            BY <1>2, <3>1, <3>2
        <3>3. CASE i # run[t].at
            <4>1. i \in 1..run[t].at - 1 /\ i \in 1..Len(Order[g])
                BY <1>2, <3>1, <3>3
            <4>. QED
                BY <1>7, <1>8, <2>1, <3>1, <3>3, <4>1
        <3>. QED
            BY <3>2, <3>3
    <2>. QED
        BY <2>1
<1>13. g \in Whole1 /\ new.failed => new.at = Len(Order[g]) + 1
    BY <1>9
<1>14. g = "provider" => \/ Selector = s /\ run[t].at = 11
                         \/ code[Selector] # "ours" /\ code'[Selector] = code[Selector]
    <2>1. SUFFICES ASSUME g = "provider", Selector # s
                   PROVE  code[Selector] # "ours" /\ code'[Selector] = code[Selector]
        BY <1>2, OnceInGroup, SelectorIsLast
    <2>2. 11 \in run[t].at..Len(Order[g]) /\ 11 \in 1..Len(Order[g]) /\ Order[g][11] = Selector
        BY <1>2, <2>1, SelectorIsLast
    <2>3. code[Selector] # "ours" /\ run[t].at # 11
        BY <1>2, <1>8, <2>1, <2>2
    <2>. QED
        BY <1>7, <2>2, <2>3
<1>15. g = "provider" /\ new.failed => code'[Selector] # "ours"
    <2>1. g = "provider" => g \in Whole1
        BY DEF Whole1, Whole
    <2>. QED
        BY <1>9, <1>14, <2>1
<1>16. InstallOK(t)'
    BY <1>5, <1>6, <1>8, <1>10, <1>11, <1>12, <1>13, <1>15 DEF InstallOK
<1>17. HalfOK(t)' /\ UndoOK(t)'
    BY <1>5 DEF HalfOK, UndoOK
<1>18. TitleOK(t)'
    <2>1. SUFFICES ASSUME g \in {"provider", "postConfirm"}, NEW x \in TitlePatches(g)
                   PROVE  orig'[x] = "native"
        BY <1>6 DEF TitleOK
    <2>2. orig[x] = "native" /\ x \in Patches /\ x \in Sites
        BY <1>1, <1>2, <2>1 DEF ThreadOK, TitleOK, TitlePatches, Patches
    <2>. QED
        BY <2>2
<1>19. \A x \in SitesOf(g) :
           /\ code'[x] = "ours" =>
                  saved'[x] # "none" /\ orig'[x] \in {"native", "live"}
           /\ x \in Plain \cup (Patches \ TitleSites) => orig'[x] = "native"
    <2>1. ASSUME NEW x \in SitesOf(g), x # s
          PROVE  /\ x \in Sites /\ code'[x] = code[x] /\ saved'[x] = saved[x]
                 /\ orig'[x] = orig[x]
        BY <1>2, <2>1, SiteOfGroup
    <2>. QED
        BY <1>1, <2>1 DEF SiteOK
<1>20. SelectorLast'
    <2>1. CASE g # "provider"
        BY <1>1, <1>2, <1>3, <2>1, SelectorStays
    <2>2. CASE g = "provider" /\ code'[Selector] = "ours"
        <3>1. Selector = s /\ run[t].at = 11 /\ ~run[t].failed /\ g \in Whole
            BY <1>9, <1>14, <2>2 DEF Whole1, Whole
        <3>2. ASSUME NEW x \in SitesOf(g) PROVE code'[x] = "ours"
            <4>1. PICK i \in 1..Len(Order[g]) : Order[g][i] = x
                BY <1>2, SiteOfGroup
            <4>2. i \in 1..run[t].at - 1 \/ i = run[t].at
                BY <2>2, <3>1, <4>1, SelectorIsLast
            <4>. QED
                BY <1>2, <1>7, <1>8, <2>2, <3>1, <4>1, <4>2
        <3>. QED
            BY <2>2, <3>2 DEF SelectorLast
    <2>3. CASE code'[Selector] # "ours"
        BY <2>3 DEF SelectorLast
    <2>. QED
        BY <2>1, <2>2, <2>3
<1>21. KeepsFlags(t) /\ ReadyOK'
    BY <1>1, <1>4, ReadyStays DEF KeepsFlags
<1>22. WholeOrNot(g)'
    BY <1>2, <1>5, <1>6 DEF WholeOrNot, Busy
<1>. QED
    BY <1>4, <1>16, <1>17, <1>18, <1>19, <1>20, <1>21, <1>22, OwnGroupDecides

\* What Tried makes of a thread's state.
LEMMA TriedWell ==
    ASSUME Going, NEW t \in Threads, AtSite(t), Tried(t, TRUE)
    PROVE  \E new \in ThreadState :
               /\ run' = [run EXCEPT ![t] = new]
               /\ new.todo = run[t].todo /\ new.phase = "install" /\ ~new.half
               /\ new.failed = run[t].failed /\ new.at = run[t].at + 1
<1>1. RunType /\ run[t] \in ThreadState /\ run[t].phase = "install"
    BY GoingParts, AtSiteFacts
<1>2. run' = [run EXCEPT ![t].half = FALSE, ![t].failed = run[t].failed,
                         ![t].at = run[t].at + 1]
    BY <1>1 DEF Tried, RunType, ThreadState
<1>3. PICK new : new = [run[t] EXCEPT !.half = FALSE, !.at = run[t].at + 1]
    OBVIOUS
<1>4. /\ new \in ThreadState
      /\ new.todo = run[t].todo /\ new.phase = "install" /\ ~new.half
      /\ new.failed = run[t].failed /\ new.at = run[t].at + 1
    <2>1. PICK r : r = run[t]
        OBVIOUS
    <2>2. /\ r.todo \in Seq(Steps) /\ r.phase = "install" /\ r.at \in Nat
          /\ r.failed \in BOOLEAN /\ r.undo \in Seq(Sites) /\ r \in ThreadState
        BY <1>1, <2>1 DEF ThreadState
    <2>3. new = [todo |-> r.todo, phase |-> r.phase, at |-> r.at + 1,
                 half |-> FALSE, failed |-> r.failed, undo |-> r.undo]
        BY <1>3, <2>1, <2>2 DEF ThreadState
    <2>4. new \in ThreadState
        BY <2>2, <2>3 DEF ThreadState
    <2>. QED
        BY <2>1, <2>2, <2>3, <2>4
<1>5. run' = [run EXCEPT ![t] = new]
    BY <1>1, <1>2, <1>3 DEF RunType, ThreadState
<1>. QED
    BY <1>4, <1>5

LEMMA TriedBadly ==
    ASSUME Going, NEW t \in Threads, AtSite(t), Tried(t, FALSE)
    PROVE  \E new \in ThreadState :
               /\ run' = [run EXCEPT ![t] = new]
               /\ new.todo = run[t].todo /\ new.phase = "install" /\ ~new.half
               /\ new.failed
               /\ new.at = IF GoesOn(Group(t)) THEN run[t].at + 1
                           ELSE Len(Order[Group(t)]) + 1
<1>1. RunType /\ run[t] \in ThreadState /\ run[t].phase = "install"
      /\ Len(Order[Group(t)]) \in Nat
    BY GoingParts, AtSiteFacts
<1>2. PICK n : n = IF GoesOn(Group(t)) THEN run[t].at + 1 ELSE Len(Order[Group(t)]) + 1
    OBVIOUS
<1>3. n \in Nat
    BY <1>1, <1>2 DEF ThreadState
<1>4. run' = [run EXCEPT ![t].half = FALSE, ![t].failed = TRUE, ![t].at = n]
    BY <1>1, <1>2 DEF Tried, RunType, ThreadState
<1>5. PICK new : new = [run[t] EXCEPT !.half = FALSE, !.failed = TRUE, !.at = n]
    OBVIOUS
<1>6. /\ new \in ThreadState
      /\ new.todo = run[t].todo /\ new.phase = "install" /\ ~new.half
      /\ new.failed /\ new.at = n
    BY <1>1, <1>3, <1>5 DEF ThreadState
<1>7. run' = [run EXCEPT ![t] = new]
    BY <1>1, <1>4, <1>5 DEF RunType, ThreadState
<1>. QED
    BY <1>2, <1>6, <1>7

LEMMA PrepareKeeps ==
    ASSUME Going, NEW t \in Threads, Prepare(t)
    PROVE  IInv'
<1>1. /\ ValueType /\ RunType /\ SiteOK /\ SelectorLast /\ exit = 0 /\ ReadyOK
      /\ ThreadOK(t) /\ ProgramOK(t)
    BY GoingParts
<1>2. PICK g, s : g = Group(t) /\ s = Site(t)
    OBVIOUS
<1>3. /\ AtSite(t) /\ s \notin Patches \cup CallHooks /\ ~run[t].half
      /\ UNCHANGED <<code, ready, bridge, table, polls, exit>>
    BY <1>2 DEF Prepare
<1>4. /\ g \in Groups /\ run[t].todo # <<>> /\ run[t].phase = "install"
      /\ s \in SitesOf(g) /\ s \in Sites /\ run[t] \in ThreadState
      /\ g # "limits" => code[s] # "ours"
    BY <1>2, <1>3, AtSiteFacts
<1>5. g # "limits"
    BY <1>3, <1>4, LimitsArePatches
<1>6. code[s] \in {"native", "foreign"}
    BY <1>1, <1>4, <1>5 DEF ValueType
<1>7. CASE /\ saved' = [saved EXCEPT ![s] = code[s]]
           /\ orig' = IF s \in Plain THEN orig ELSE [orig EXCEPT ![s] = "live"]
           /\ run' = [run EXCEPT ![t].half = TRUE]
    <2>1. PICK r : r = run[t]
        OBVIOUS
    <2>2. PICK new : new = [r EXCEPT !.half = TRUE]
        OBVIOUS
    <2>3. /\ new \in ThreadState /\ new.todo = r.todo /\ new.phase = "install"
          /\ new.half /\ new.at = r.at /\ new.undo = r.undo
        BY <1>4, <2>1, <2>2 DEF ThreadState
    <2>4. new.failed = r.failed
        BY <1>4, <2>1, <2>2 DEF ThreadState
    <2>5. run' = [run EXCEPT ![t] = new]
        BY <1>1, <1>7, <2>1, <2>2 DEF RunType
    <2>6. \A x \in Sites \ {s} : saved'[x] = saved[x] /\ orig'[x] = orig[x]
        BY <1>1, <1>7 DEF ValueType
    <2>7. saved'[s] = code[s] /\ orig'[s] = IF s \in Plain THEN orig[s] ELSE "live"
        BY <1>1, <1>4, <1>7 DEF ValueType
    <2>8. Only(g)
        BY <1>3, <1>4, <2>6 DEF Only
    <2>9. WorksOn(t, g, new)
        BY <1>1, <1>2, <1>3, <1>4, <2>1, <2>3, <2>5, <2>8 DEF WorksOn
    <2>10. run'[t] = new /\ Group(t)' = g
        BY <1>1, <1>2, <2>1, <2>3, <2>9, RunAfter DEF Group
    <2>11. ValueType'
        <3>1. saved' \in [Sites -> {"none", "native", "foreign"}]
            BY <1>1, <1>6, <1>7 DEF ValueType
        <3>2. orig' \in [Sites -> {"null", "native", "live", "freed"}]
            BY <1>1, <1>7 DEF ValueType
        <3>. QED
            BY <1>1, <1>3, <3>1, <3>2 DEF ValueType
    <2>12. orig'[s] \in {"native", "live"} /\ (s \in Plain => orig'[s] = "native")
        BY <1>1, <1>4, <2>7 DEF SiteOK
    <2>13. HalfOK(t)'
        <3>1. AtSite(t)' /\ Site(t)' = s
            BY <1>2, <1>3, <2>1, <2>3, <2>10 DEF AtSite, In, Site
        <3>. QED
            BY <1>3, <1>6, <2>7, <2>12, <3>1 DEF HalfOK
    <2>14. InstallOK(t)'
        BY <1>1, <1>2, <1>3, <1>4, <2>1, <2>3, <2>4, <2>10 DEF ThreadOK, InstallOK
    <2>15. UndoOK(t)'
        BY <2>3, <2>10 DEF UndoOK
    <2>16. TitleOK(t)'
        <3>1. SUFFICES ASSUME g \in {"provider", "postConfirm"}, NEW x \in TitlePatches(g)
                       PROVE  orig'[x] = "native"
            BY <2>10 DEF TitleOK
        <3>2. orig[x] = "native" /\ x \in Patches /\ x \in Sites
            BY <1>1, <1>2, <1>4, <3>1 DEF ThreadOK, TitleOK, TitlePatches, Patches
        <3>. QED
            BY <1>3, <2>6, <3>2
    <2>17. \A x \in SitesOf(g) :
               /\ code'[x] = "ours" =>
                      saved'[x] # "none" /\ orig'[x] \in {"native", "live"}
               /\ x \in Plain \cup (Patches \ TitleSites) => orig'[x] = "native"
        <3>1. ASSUME NEW x \in SitesOf(g), x # s
              PROVE  /\ x \in Sites /\ code'[x] = code[x] /\ saved'[x] = saved[x]
                     /\ orig'[x] = orig[x]
            BY <1>3, <1>4, <2>6, <3>1, SiteOfGroup
        <3>. QED
            BY <1>1, <1>3, <1>6, <2>7, <2>12, <3>1 DEF SiteOK
    <2>18. SelectorLast' /\ KeepsFlags(t) /\ ReadyOK' /\ polls' = polls
        BY <1>1, <1>3, <2>9, ReadyStays DEF KeepsFlags, SelectorLast
    <2>19. WholeOrNot(g)'
        BY <1>4, <2>1, <2>3, <2>10 DEF WholeOrNot, Busy
    <2>. QED
        BY <2>1, <2>3, <2>9, <2>11, <2>13, <2>14, <2>15, <2>16, <2>17, <2>18, <2>19,
           OwnGroupDecides
<1>8. CASE /\ s \notin Plain /\ NullOriginal(s) /\ Tried(t, FALSE) /\ UNCHANGED saved
    <2>1. PICK new \in ThreadState :
               /\ run' = [run EXCEPT ![t] = new]
               /\ new.todo = run[t].todo /\ new.phase = "install" /\ ~new.half
               /\ new.failed
               /\ new.at = IF GoesOn(g) THEN run[t].at + 1 ELSE Len(Order[g]) + 1
        BY <1>2, <1>3, <1>8, TriedBadly
    <2>2. orig' = [orig EXCEPT ![s] = "null"]
        BY <1>8 DEF NullOriginal
    <2>3. \A x \in Sites \ {s} : code'[x] = code[x] /\ saved'[x] = saved[x] /\ orig'[x] = orig[x]
        BY <1>1, <1>3, <1>8, <2>2 DEF ValueType
    <2>4. code'[s] # "ours"
        BY <1>3, <1>6
    <2>5. ValueType'
        <3>1. orig' \in [Sites -> {"null", "native", "live", "freed"}]
            BY <1>1, <2>2 DEF ValueType
        <3>. QED
            BY <1>1, <1>3, <1>8, <3>1 DEF ValueType
    <2>. QED
        BY <1>2, <1>3, <1>8, <2>1, <2>3, <2>4, <2>5, SiteStep
<1>. QED
    BY <1>2, <1>7, <1>8 DEF Prepare

LEMMA WriteJumpKeeps ==
    ASSUME Going, NEW t \in Threads, WriteJump(t)
    PROVE  IInv'
<1>1. /\ ValueType /\ RunType /\ SiteOK /\ exit = 0 /\ ThreadOK(t)
    BY GoingParts
<1>2. PICK g, s : g = Group(t) /\ s = Site(t)
    OBVIOUS
<1>3. /\ AtSite(t) /\ run[t].half
      /\ UNCHANGED <<ready, bridge, table, polls, exit>>
    BY <1>2 DEF WriteJump
<1>4. /\ g \in Groups /\ s \in SitesOf(g) /\ s \in Sites
      /\ g # "limits" => code[s] # "ours"
    BY <1>2, <1>3, AtSiteFacts
<1>5. /\ s \notin Patches \cup CallHooks /\ saved[s] # "none"
      /\ orig[s] \in {"native", "live"}
    BY <1>1, <1>2, <1>3 DEF ThreadOK, HalfOK
<1>6. code[s] # "ours"
    BY <1>4, <1>5, LimitsArePatches
<1>7. CASE code' = [code EXCEPT ![s] = "ours"] /\ Tried(t, TRUE) /\ UNCHANGED <<saved, orig>>
    <2>1. PICK new \in ThreadState :
               /\ run' = [run EXCEPT ![t] = new]
               /\ new.todo = run[t].todo /\ new.phase = "install" /\ ~new.half
               /\ new.failed = run[t].failed /\ new.at = run[t].at + 1
        BY <1>3, <1>7, TriedWell
    <2>2. code'[s] = "ours" /\ \A x \in Sites \ {s} : code'[x] = code[x]
        BY <1>1, <1>4, <1>7 DEF ValueType
    <2>3. ValueType'
        <3>1. code' \in [Sites -> {"native", "foreign", "ours"}]
            BY <1>1, <1>7 DEF ValueType
        <3>. QED
            BY <1>1, <1>3, <1>7, <3>1 DEF ValueType
    <2>4. s \in Plain \cup (Patches \ TitleSites) => orig'[s] = "native"
        BY <1>1, <1>4, <1>7 DEF SiteOK
    <2>. QED
        BY <1>2, <1>3, <1>5, <1>7, <2>1, <2>2, <2>3, <2>4, SiteStep, ZenonT(60)
<1>8. CASE /\ saved' = [saved EXCEPT ![s] = "none"]
           /\ NullOriginal(s) /\ Tried(t, FALSE) /\ UNCHANGED code
    <2>1. PICK new \in ThreadState :
               /\ run' = [run EXCEPT ![t] = new]
               /\ new.todo = run[t].todo /\ new.phase = "install" /\ ~new.half
               /\ new.failed
               /\ new.at = IF GoesOn(g) THEN run[t].at + 1 ELSE Len(Order[g]) + 1
        BY <1>2, <1>3, <1>8, TriedBadly
    <2>2. orig' = IF s \in Plain THEN orig ELSE [orig EXCEPT ![s] = "null"]
        BY <1>8 DEF NullOriginal
    <2>3. \A x \in Sites \ {s} : code'[x] = code[x] /\ saved'[x] = saved[x] /\ orig'[x] = orig[x]
        BY <1>1, <1>8, <2>2 DEF ValueType
    <2>4. code'[s] # "ours"
        BY <1>6, <1>8
    <2>5. ValueType'
        <3>1. orig' \in [Sites -> {"null", "native", "live", "freed"}]
            BY <1>1, <2>2 DEF ValueType
        <3>2. saved' \in [Sites -> {"none", "native", "foreign"}]
            BY <1>1, <1>8 DEF ValueType
        <3>. QED
            BY <1>1, <1>3, <1>8, <3>1, <3>2 DEF ValueType
    <2>6. s \in Plain \cup (Patches \ TitleSites) => orig'[s] = "native"
        BY <1>1, <1>4, <1>5, <2>2 DEF SiteOK
    <2>. QED
        BY <1>2, <1>3, <1>5, <2>1, <2>3, <2>4, <2>5, <2>6, SiteStep, ZenonT(60)
<1>. QED
    BY <1>2, <1>7, <1>8 DEF WriteJump

\* The original of a site that is written in one go is set beforehand.
LEMMA PatchedOriginal ==
    ASSUME Going, NEW t \in Threads, AtSite(t), Site(t) \in Patches \cup CallHooks
    PROVE  orig[Site(t)] = "native"
<1>1. SiteOK /\ ThreadOK(t)
    BY GoingParts
<1>2. PICK g, s : g = Group(t) /\ s = Site(t)
    OBVIOUS
<1>3. g \in Groups /\ run[t].phase = "install" /\ s \in SitesOf(g) /\ s \in Sites
    BY <1>2, AtSiteFacts
<1>4. CASE s \in CallHooks
    BY <1>1, <1>2, <1>3, <1>4 DEF SiteOK, Plain
<1>5. CASE s \in Patches \ TitleSites
    BY <1>1, <1>2, <1>3, <1>5 DEF SiteOK
<1>6. CASE s \in TitleSites
    <2>1. PICK h \in {"provider", "postConfirm"} : s \in SitesOf(h) /\ s \in TitlePatches(h)
        BY <1>6 DEF TitleSites, TitlePatches
    <2>2. g = h
        BY <1>3, <2>1, GroupsApart, GroupFacts
    <2>. QED
        BY <1>1, <1>2, <1>3, <2>1, <2>2 DEF ThreadOK, TitleOK
<1>. QED
    BY <1>2, <1>4, <1>5, <1>6

LEMMA PatchKeeps ==
    ASSUME Going, NEW t \in Threads, Patch(t)
    PROVE  IInv'
<1>1. ValueType /\ RunType /\ SiteOK /\ exit = 0
    BY GoingParts
<1>2. PICK g, s : g = Group(t) /\ s = Site(t)
    OBVIOUS
<1>3. /\ AtSite(t) /\ s \in Patches \cup CallHooks
      /\ UNCHANGED <<orig, ready, bridge, table, polls, exit>>
    BY <1>2 DEF Patch
<1>4. s \in Sites /\ orig[s] = "native"
    BY <1>2, <1>3, AtSiteFacts, PatchedOriginal
<1>5. CASE /\ code[s] = "ours" /\ saved' = [saved EXCEPT ![s] = "native"]
           /\ Tried(t, TRUE) /\ UNCHANGED code
    <2>1. PICK new \in ThreadState :
               /\ run' = [run EXCEPT ![t] = new]
               /\ new.todo = run[t].todo /\ new.phase = "install" /\ ~new.half
               /\ new.failed = run[t].failed /\ new.at = run[t].at + 1
        BY <1>3, <1>5, TriedWell
    <2>2. saved'[s] = "native" /\ \A x \in Sites \ {s} : saved'[x] = saved[x]
        BY <1>1, <1>4, <1>5 DEF ValueType
    <2>3. ValueType'
        <3>1. saved' \in [Sites -> {"none", "native", "foreign"}]
            BY <1>1, <1>5 DEF ValueType
        <3>. QED
            BY <1>1, <1>3, <1>5, <3>1 DEF ValueType
    <2>. QED
        BY <1>2, <1>3, <1>4, <1>5, <2>1, <2>2, <2>3, SiteStep
<1>6. CASE /\ code[s] = "native" \/ code[s] = "foreign"
           /\ saved' = [saved EXCEPT ![s] = code[s]]
           /\ code' = [code EXCEPT ![s] = "ours"]
           /\ Tried(t, TRUE)
    <2>1. PICK new \in ThreadState :
               /\ run' = [run EXCEPT ![t] = new]
               /\ new.todo = run[t].todo /\ new.phase = "install" /\ ~new.half
               /\ new.failed = run[t].failed /\ new.at = run[t].at + 1
        BY <1>3, <1>6, TriedWell
    <2>2. /\ saved'[s] \in {"native", "foreign"} /\ code'[s] = "ours"
          /\ \A x \in Sites \ {s} : saved'[x] = saved[x] /\ code'[x] = code[x]
        BY <1>1, <1>4, <1>6 DEF ValueType
    <2>3. ValueType'
        <3>1. saved' \in [Sites -> {"none", "native", "foreign"}]
            BY <1>1, <1>6 DEF ValueType
        <3>2. code' \in [Sites -> {"native", "foreign", "ours"}]
            BY <1>1, <1>6 DEF ValueType
        <3>. QED
            BY <1>1, <1>3, <3>1, <3>2 DEF ValueType
    <2>. QED
        BY <1>2, <1>3, <1>4, <2>1, <2>2, <2>3, SiteStep
<1>7. CASE code[s] # "ours" /\ Tried(t, FALSE) /\ UNCHANGED <<code, saved>>
    <2>1. PICK new \in ThreadState :
               /\ run' = [run EXCEPT ![t] = new]
               /\ new.todo = run[t].todo /\ new.phase = "install" /\ ~new.half
               /\ new.failed
               /\ new.at = IF GoesOn(g) THEN run[t].at + 1 ELSE Len(Order[g]) + 1
        BY <1>2, <1>3, <1>7, TriedBadly
    <2>2. ValueType'
        BY <1>1, <1>3, <1>7 DEF ValueType
    <2>. QED
        BY <1>2, <1>3, <1>4, <1>7, <2>1, <2>2, SiteStep
<1>8. \/ /\ code[s] = "ours" /\ saved' = [saved EXCEPT ![s] = "native"]
         /\ Tried(t, TRUE) /\ UNCHANGED code
      \/ /\ code[s] = "native" \/ code[s] = "foreign"
         /\ saved' = [saved EXCEPT ![s] = code[s]]
         /\ code' = [code EXCEPT ![s] = "ours"]
         /\ Tried(t, TRUE)
      \/ code[s] # "ours" /\ Tried(t, FALSE) /\ UNCHANGED <<code, saved>>
    BY <1>2 DEF Patch
<1>. QED
    BY <1>5, <1>6, <1>7, <1>8

LEMMA ConcludedFacts ==
    ASSUME Going, NEW t \in Threads, In(t, "install"), ~AtSite(t)
    PROVE  /\ run[t].todo # <<>> /\ run[t].phase = "install" /\ ~run[t].half
           /\ Group(t) \in Groups
           /\ Group(t) \in Whole /\ ~run[t].failed => AllOurs(Group(t))
<1>1. ThreadOK(t) /\ exit = 0
    BY GoingParts
<1>2. PICK g : g = Group(t)
    OBVIOUS
<1>3. run[t].todo # <<>> /\ run[t].phase = "install"
    BY DEF In
<1>4. g \in Groups /\ run[t].at \in Nat
    BY <1>2, <1>3, GroupAtWork DEF ThreadState
<1>5. ~run[t].half
    BY <1>1 DEF ThreadOK, HalfOK
<1>6. /\ run[t].at \in 1..Len(Order[g]) + 1
      /\ g \in Whole /\ ~run[t].failed =>
             \A i \in 1..run[t].at - 1 : code[Order[g][i]] = "ours"
    BY <1>1, <1>2, <1>3 DEF ThreadOK, InstallOK
<1>7. run[t].at = Len(Order[g]) + 1 /\ Len(Order[g]) \in Nat
    BY <1>2, <1>4, <1>6, SiteOfGroup DEF AtSite
<1>8. g \in Whole /\ ~run[t].failed => \A i \in 1..Len(Order[g]) : code[Order[g][i]] = "ours"
    BY <1>6, <1>7
<1>. QED
    BY <1>2, <1>3, <1>4, <1>5, <1>8, SiteOfGroup DEF AllOurs

\* A failed group turns to its undoing with every site still to be removed.
LEMMA ConcludeFails ==
    ASSUME Going, NEW t \in Threads, Conclude(t), Group(t) \in Whole, run[t].failed
    PROVE  IInv'
<1>1. /\ ValueType /\ RunType /\ SiteOK /\ SelectorLast /\ exit = 0 /\ ReadyOK
      /\ ThreadOK(t) /\ ProgramOK(t)
    BY GoingParts
<1>2. PICK g : g = Group(t)
    OBVIOUS
<1>3. /\ In(t, "install") /\ ~AtSite(t)
      /\ run' = [run EXCEPT ![t].phase = "undo", ![t].undo = Undo(g)]
      /\ UNCHANGED <<code, saved, orig, ready, bridge, table, polls, faults, exit>>
    BY <1>2 DEF Conclude
<1>4. /\ run[t].todo # <<>> /\ run[t].phase = "install" /\ ~run[t].half
      /\ g \in Groups /\ g \in Whole
    BY <1>2, <1>3, ConcludedFacts
<1>5. PICK u : u = Undo(g)
    OBVIOUS
<1>6. u \in Seq(Sites) /\ ToSet(u) = SitesOf(g)
    BY <1>4, <1>5, UndoCovers
<1>7. PICK r : r = run[t]
    OBVIOUS
<1>8. r \in ThreadState
    BY <1>4, <1>7, GroupAtWork
<1>9. PICK new : new = [r EXCEPT !.phase = "undo", !.undo = u]
    OBVIOUS
<1>10. /\ new \in ThreadState /\ new.todo = r.todo /\ new.phase = "undo"
       /\ new.undo = u
    BY <1>6, <1>8, <1>9 DEF ThreadState
<1>11. ~new.half
    BY <1>4, <1>7, <1>8, <1>9 DEF ThreadState
<1>12. run' = [run EXCEPT ![t] = new]
    BY <1>1, <1>3, <1>5, <1>7, <1>9 DEF RunType
<1>13. WorksOn(t, g, new)
    BY <1>1, <1>2, <1>3, <1>4, <1>7, <1>10, <1>12 DEF WorksOn, Only
<1>14. run'[t] = new /\ Group(t)' = g
    BY <1>1, <1>2, <1>7, <1>10, <1>13, RunAfter DEF Group
<1>15. ValueType'
    BY <1>1, <1>3 DEF ValueType
<1>16. HalfOK(t)' /\ InstallOK(t)' /\ TitleOK(t)'
    BY <1>10, <1>11, <1>14 DEF HalfOK, InstallOK, TitleOK
<1>17. UndoOK(t)'
    <2>1. g = "provider" => code[Selector] # "ours"
        BY <1>1, <1>2, <1>4 DEF ThreadOK, InstallOK
    <2>. QED
        BY <1>3, <1>4, <1>6, <1>10, <1>14, <2>1 DEF UndoOK
<1>18. \A s \in SitesOf(g) :
           /\ code'[s] = "ours" =>
                  saved'[s] # "none" /\ orig'[s] \in {"native", "live"}
           /\ s \in Plain \cup (Patches \ TitleSites) => orig'[s] = "native"
    BY <1>1, <1>3, <1>4, SiteOfGroup DEF SiteOK
<1>19. SelectorLast' /\ KeepsFlags(t) /\ ReadyOK' /\ polls' = polls
    BY <1>1, <1>3, <1>13, ReadyStays DEF KeepsFlags, SelectorLast
<1>20. WholeOrNot(g)'
    BY <1>4, <1>7, <1>10, <1>14 DEF WholeOrNot, Busy
<1>. QED
    BY <1>7, <1>10, <1>13, <1>15, <1>16, <1>17, <1>18, <1>19, <1>20, OwnGroupDecides

\* The flags an installed group raises.
LEMMA RaisedFlags ==
    ASSUME NEW g \in Groups
    PROVE  /\ \A x \in {"functional", "handoff"} : x \in Flags(g) => x = g
           /\ "route" \in Flags(g) => g = "friend"
BY GroupsListed DEF Flags

LEMMA ConcludeSucceeds ==
    ASSUME Going, NEW t \in Threads, Conclude(t), ~(Group(t) \in Whole /\ run[t].failed),
           ~(Group(t) = "limits" /\ run[t].failed)
    PROVE  IInv'
<1>1. /\ ValueType /\ RunType /\ SiteOK /\ SelectorLast /\ exit = 0 /\ ReadyOK
      /\ ThreadOK(t) /\ ProgramOK(t)
    BY GoingParts
<1>2. PICK g : g = Group(t)
    OBVIOUS
<1>3. /\ In(t, "install") /\ ~AtSite(t)
      /\ run' = Proceed(t)
      /\ ready' = ready \cup Flags(g)
      /\ bridge' = IF g = "bridge" THEN 2 ELSE bridge
      /\ UNCHANGED <<code, saved, orig, table, polls, faults, exit>>
    BY <1>2 DEF Conclude
<1>4. /\ run[t].todo # <<>> /\ run[t].phase = "install"
      /\ g \in Groups /\ (g \in Whole => AllOurs(g))
    BY <1>2, <1>3, ConcludedFacts
<1>5. PICK p : p = Tail(run[t].todo)
    OBVIOUS
<1>6. p \in Seq(Steps)
    BY <1>4, <1>5, GroupAtWork
<1>7. PICK new : new = Program(p)
    OBVIOUS
<1>8. run' = [run EXCEPT ![t] = new]
    BY <1>3, <1>5, <1>7 DEF Proceed
<1>9. /\ new \in ThreadState /\ new.todo = p /\ new.phase = "next"
      /\ ~new.half /\ ~new.failed
    BY <1>6, <1>7, ProgramType
<1>10. WorksOn(t, g, new)
    BY <1>1, <1>2, <1>3, <1>4, <1>5, <1>8, <1>9 DEF WorksOn, Only
<1>11. g \in {"bridge", "friend"} => t = "nrsc"
    <2>1. g \in Claims(t)
        BY <1>1, <1>2, <1>4, AtWork
    <2>. QED
        BY <2>1 DEF Claims, Threads
<1>12. g \in {"functional", "handoff"} => t = "worker"
    <2>1. g \in Claims(t)
        BY <1>1, <1>2, <1>4, AtWork
    <2>. QED
        BY <2>1 DEF Claims, Threads
<1>13. KeepsFlags(t) /\ bridge' \in 0..3
    BY <1>1, <1>3, <1>4, <1>11, RaisedFlags DEF KeepsFlags, ValueType
<1>14. ValueType'
    BY <1>1, <1>3, <1>13 DEF ValueType
<1>15. HalfOK(t)' /\ InstallOK(t)' /\ UndoOK(t)' /\ TitleOK(t)'
    BY <1>1, <1>9, <1>10, IdleOwes
<1>16. \A s \in SitesOf(g) :
           /\ code'[s] = "ours" =>
                  saved'[s] # "none" /\ orig'[s] \in {"native", "live"}
           /\ s \in Plain \cup (Patches \ TitleSites) => orig'[s] = "native"
    BY <1>1, <1>3, <1>4, SiteOfGroup DEF SiteOK
<1>17. SelectorLast'
    BY <1>1, <1>3 DEF SelectorLast
<1>18. g \in Whole => AllOurs(g)'
    BY <1>3, <1>4 DEF AllOurs
<1>19. ~Pending(t, g)'
    <2>1. run'[t] = new /\ run[t].todo \in Seq(Steps)
        BY <1>1, <1>10, RunAfter DEF RunType
    <2>2. ASSUME NEW i \in 1..Len(p) PROVE p[i] # g
        <3>1. i + 1 \in 1..Len(run[t].todo) /\ p[i] = run[t].todo[i + 1] /\ i + 1 > 1
            BY <1>4, <1>5, <2>1, TailOf
        <3>. QED
            BY <1>1, <1>2, <1>4, <3>1, LaterGroup
    <2>. QED
        BY <1>9, <2>1, <2>2 DEF Pending
<1>20. ASSUME NEW x \in {"functional", "handoff"}, x \in ready'
       PROVE  AllOurs(x)' /\ ~Pending("worker", x)'
    <2>1. CASE x = g
        BY <1>12, <1>18, <1>19, <2>1, GroupFacts
    <2>2. CASE x # g
        <3>1. x \in ready
            BY <1>3, <1>4, <1>20, <2>2, RaisedFlags
        <3>. QED
            BY <1>1, <1>10, <3>1, FinishedStays, FlagClaims DEF ReadyOK
    <2>. QED
        BY <2>1, <2>2
<1>21. "handoff" \in ready' => "functional" \in ready'
    <2>1. CASE g = "handoff"
        BY <1>1, <1>2, <1>3, <1>4, <2>1 DEF ThreadOK, InstallOK
    <2>2. CASE g # "handoff"
        BY <1>1, <1>3, <1>4, <2>2, RaisedFlags DEF ReadyOK
    <2>. QED
        BY <2>1, <2>2
<1>22. bridge' = 2 => AllOurs("bridge")' /\ ~Pending("nrsc", "bridge")'
    <2>1. CASE g = "bridge"
        BY <1>11, <1>18, <1>19, <2>1, GroupFacts
    <2>2. CASE g # "bridge"
        BY <1>1, <1>3, <1>10, <2>2, FinishedStays, FlagClaims DEF ReadyOK
    <2>. QED
        BY <2>1, <2>2
<1>23. "route" \in ready' => /\ "handoff" \in ready' /\ bridge' = 2
                             /\ AllOurs("friend")' /\ ~Pending("nrsc", "friend")'
    <2>1. CASE g = "friend"
        <3>1. bridge = 2 /\ "handoff" \in ready
            BY <1>1, <1>2, <1>4, <2>1 DEF ThreadOK, InstallOK
        <3>. QED
            BY <1>3, <1>11, <1>18, <1>19, <2>1, <3>1, GroupFacts
    <2>2. CASE g # "friend"
        <3>1. SUFFICES ASSUME "route" \in ready
                       PROVE  /\ "handoff" \in ready' /\ bridge' = 2
                              /\ AllOurs("friend")' /\ ~Pending("nrsc", "friend")'
            BY <1>3, <1>4, <2>2, RaisedFlags
        <3>2. "handoff" \in ready /\ bridge = 2 /\ AllOurs("friend") /\ ~Pending("nrsc", "friend")
            BY <1>1, <3>1 DEF ReadyOK
        <3>. QED
            BY <1>1, <1>3, <1>10, <3>2, FinishedStays, FlagClaims
    <2>. QED
        BY <2>1, <2>2
<1>24. ReadyOK'
    BY <1>20, <1>21, <1>22, <1>23 DEF ReadyOK
<1>25. g \in Whole => WholeOrNot(g)'
    BY <1>18 DEF WholeOrNot
<1>26. polls' = polls
    BY <1>3
<1>. QED
    BY <1>9, <1>10, <1>13, <1>14, <1>15, <1>16, <1>17, <1>24, <1>25, <1>26, OwnGroupDecides

LEMMA ElementsOfTail ==
    ASSUME NEW S, NEW s \in Seq(S), s # <<>>
    PROVE  /\ Head(s) \in ToSet(s) /\ ToSet(Tail(s)) \subseteq ToSet(s)
           /\ \A x \in ToSet(s) : x # Head(s) => x \in ToSet(Tail(s))
<1>1. DOMAIN s = 1..Len(s) /\ DOMAIN Tail(s) = 1..Len(Tail(s))
    BY TailOf
<1>2. Head(s) \in ToSet(s) /\ ToSet(Tail(s)) \subseteq ToSet(s)
    BY <1>1, TailOf DEF ToSet
<1>3. ASSUME NEW i \in 1..Len(s), s[i] # Head(s)
      PROVE  s[i] \in ToSet(Tail(s))
    <2>1. PICK j : j = i - 1
        OBVIOUS
    <2>2. j \in 1..Len(Tail(s)) /\ j + 1 = i
        BY <1>3, <2>1, TailOf
    <2>3. Tail(s)[j] = s[i]
        BY <2>2, TailOf
    <2>. QED
        BY <1>1, <2>2, <2>3 DEF ToSet
<1>. QED
    BY <1>1, <1>2, <1>3 DEF ToSet

LEMMA RemoveSiteKeeps ==
    ASSUME Going, NEW t \in Threads, RemoveSite(t)
    PROVE  IInv'
<1>1. /\ ValueType /\ RunType /\ SiteOK /\ SelectorLast /\ exit = 0 /\ ReadyOK
      /\ ThreadOK(t) /\ ProgramOK(t)
    BY GoingParts
<1>2. PICK g, r : g = Group(t) /\ r = run[t]
    OBVIOUS
<1>3. PICK u : u = r.undo
    OBVIOUS
<1>4. PICK x : x = Head(u)
    OBVIOUS
<1>5. /\ In(t, "undo") /\ u # <<>>
      /\ Removed({x}) /\ orig' = Freed({x})
      /\ run' = [run EXCEPT ![t].undo = Tail(u)]
      /\ UNCHANGED <<ready, bridge, table, polls, faults, exit>>
    BY <1>1, <1>2, <1>3, <1>4 DEF RemoveSite, RunType
<1>6. r.todo # <<>> /\ r.phase = "undo" /\ r \in ThreadState /\ g \in Groups
    BY <1>2, <1>5, GroupAtWork DEF In
<1>7. /\ g \in Whole /\ ToSet(u) \subseteq SitesOf(g)
      /\ \A s \in SitesOf(g) : code[s] = "ours" => s \in ToSet(u)
      /\ g = "provider" => code[Selector] # "ours"
    BY <1>1, <1>2, <1>3, <1>6 DEF ThreadOK, UndoOK
<1>8. u \in Seq(Sites) /\ Tail(u) \in Seq(Sites)
    BY <1>3, <1>5, <1>6, TailOf DEF ThreadState
<1>9. /\ x \in SitesOf(g) /\ x \in Sites /\ ToSet(Tail(u)) \subseteq SitesOf(g)
      /\ \A s \in ToSet(u) : s # x => s \in ToSet(Tail(u))
    BY <1>4, <1>5, <1>6, <1>7, <1>8, ElementsOfTail, SiteOfGroup
<1>10. \A s \in Sites \ {x} : code'[s] = code[s] /\ saved'[s] = saved[s] /\ orig'[s] = orig[s]
    BY <1>5 DEF Removed, Freed
<1>11. code'[x] # "ours" /\ (orig[x] = "native" => orig'[x] = "native")
    BY <1>1, <1>5, <1>9 DEF Removed, Freed, SiteOK, ValueType
<1>12. PICK new : new = [r EXCEPT !.undo = Tail(u)]
    OBVIOUS
<1>13. /\ new \in ThreadState /\ new.todo = r.todo /\ new.phase = "undo"
       /\ new.undo = Tail(u)
    BY <1>6, <1>8, <1>12 DEF ThreadState
<1>14. ~new.half
    <2>1. ~r.half
        BY <1>1, <1>2, <1>6 DEF ThreadOK, HalfOK, AtSite, In
    <2>. QED
        BY <1>6, <1>12, <2>1 DEF ThreadState
<1>15. run' = [run EXCEPT ![t] = new]
    BY <1>1, <1>2, <1>5, <1>12 DEF RunType
<1>16. WorksOn(t, g, new)
    BY <1>1, <1>2, <1>5, <1>6, <1>9, <1>10, <1>13, <1>15 DEF WorksOn, Only
<1>17. run'[t] = new /\ Group(t)' = g
    BY <1>1, <1>2, <1>13, <1>16, RunAfter DEF Group
<1>18. ValueType'
    <2>1. code' \in [Sites -> {"native", "foreign", "ours"}]
        BY <1>1, <1>5 DEF ValueType, Removed
    <2>2. saved' \in [Sites -> {"none", "native", "foreign"}]
        BY <1>1, <1>5 DEF ValueType, Removed
    <2>3. orig' \in [Sites -> {"null", "native", "live", "freed"}]
        BY <1>1, <1>5 DEF ValueType, Freed
    <2>. QED
        BY <1>1, <1>5, <2>1, <2>2, <2>3 DEF ValueType
<1>19. HalfOK(t)' /\ InstallOK(t)' /\ TitleOK(t)'
    BY <1>13, <1>14, <1>17 DEF HalfOK, InstallOK, TitleOK
<1>20. UndoOK(t)'
    <2>1. ASSUME NEW s \in SitesOf(g), code'[s] = "ours" PROVE s \in ToSet(Tail(u))
        <3>1. s # x /\ s \in Sites
            BY <1>6, <1>11, <2>1, SiteOfGroup
        <3>. QED
            BY <1>7, <1>9, <1>10, <2>1, <3>1
    <2>2. g = "provider" => code'[Selector] # "ours"
        BY <1>6, <1>7, <1>10, <1>11, SelectorIsLast, SiteOfGroup
    <2>. QED
        BY <1>7, <1>9, <1>13, <1>17, <2>1, <2>2 DEF UndoOK
<1>21. \A s \in SitesOf(g) :
           /\ code'[s] = "ours" =>
                  saved'[s] # "none" /\ orig'[s] \in {"native", "live"}
           /\ s \in Plain \cup (Patches \ TitleSites) => orig'[s] = "native"
    <2>1. ASSUME NEW s \in SitesOf(g)
          PROVE  /\ code'[s] = "ours" =>
                        saved'[s] # "none" /\ orig'[s] \in {"native", "live"}
                 /\ s \in Plain \cup (Patches \ TitleSites) => orig'[s] = "native"
        <3>1. s \in Sites
            BY <1>6, SiteOfGroup
        <3>2. CASE s = x
            BY <1>1, <1>11, <3>1, <3>2 DEF SiteOK
        <3>3. CASE s # x
            BY <1>1, <1>10, <3>1, <3>3 DEF SiteOK
        <3>. QED
            BY <3>2, <3>3
    <2>. QED
        BY <2>1
<1>22. SelectorLast'
    <2>1. CASE g = "provider"
        <3>1. code'[Selector] # "ours"
            BY <1>6, <1>7, <1>10, <1>11, <2>1, SelectorIsLast, SiteOfGroup
        <3>. QED
            BY <3>1 DEF SelectorLast
    <2>2. CASE g # "provider"
        BY <1>1, <1>6, <1>16, <2>2, SelectorStays DEF WorksOn
    <2>. QED
        BY <2>1, <2>2
<1>23. KeepsFlags(t) /\ ReadyOK' /\ polls' = polls
    BY <1>1, <1>5, <1>16, ReadyStays DEF KeepsFlags
<1>24. WholeOrNot(g)'
    BY <1>6, <1>13, <1>17 DEF WholeOrNot, Busy
<1>. QED
    BY <1>2, <1>13, <1>16, <1>18, <1>19, <1>20, <1>21, <1>22, <1>23, <1>24, OwnGroupDecides

LEMMA UndoneKeeps ==
    ASSUME Going, NEW t \in Threads, Undone(t)
    PROVE  IInv'
<1>1. /\ ValueType /\ RunType /\ SiteOK /\ SelectorLast /\ exit = 0 /\ ReadyOK
      /\ ThreadOK(t) /\ ProgramOK(t)
    BY GoingParts
<1>2. PICK g : g = Group(t)
    OBVIOUS
<1>3. /\ In(t, "undo") /\ run[t].undo = <<>>
      /\ orig' = [s \in Sites |-> IF s \in Nulled(g) THEN "null" ELSE orig[s]]
      /\ bridge' = IF g = "bridge" THEN 3 ELSE bridge
      /\ run' = IF g = "bridge" THEN [run EXCEPT ![t] = Program(<<>>)] ELSE Proceed(t)
      /\ UNCHANGED <<code, saved, ready, table, polls, faults, exit>>
    BY <1>2 DEF Undone
<1>4. run[t].todo # <<>> /\ run[t].phase = "undo" /\ g \in Groups
    BY <1>2, <1>3, GroupAtWork DEF In
<1>5. g \in Whole /\ NoneOurs(g)
    <2>1. /\ g \in Whole
          /\ \A s \in SitesOf(g) : code[s] = "ours" => s \in ToSet(run[t].undo)
        BY <1>1, <1>2, <1>4 DEF ThreadOK, UndoOK
    <2>2. ToSet(run[t].undo) = {}
        BY <1>3 DEF ToSet
    <2>. QED
        BY <2>1, <2>2 DEF NoneOurs
<1>6. PICK p : p = IF g = "bridge" THEN <<>> ELSE Tail(run[t].todo)
    OBVIOUS
<1>7. p \in Seq(Steps)
    BY <1>4, <1>6, GroupAtWork
<1>8. PICK new : new = Program(p)
    OBVIOUS
<1>9. run' = [run EXCEPT ![t] = new]
    BY <1>3, <1>6, <1>8 DEF Proceed
<1>10. /\ new \in ThreadState /\ new.todo = p /\ new.phase = "next"
       /\ ~new.half /\ ~new.failed
    BY <1>7, <1>8, ProgramType
<1>11. Nulled(g) \subseteq SitesOf(g)
    BY DEF Nulled
<1>12. Only(g)
    BY <1>3, <1>11 DEF Only
<1>13. WorksOn(t, g, new)
    BY <1>1, <1>2, <1>3, <1>4, <1>6, <1>9, <1>10, <1>12 DEF WorksOn
<1>14. g = "bridge" => t = "nrsc" /\ bridge # 2
    <2>1. g \in Claims(t) /\ Pending(t, g)
        BY <1>1, <1>2, <1>4, AtWork
    <2>. QED
        BY <1>1, <2>1 DEF Claims, Threads, ReadyOK
<1>15. KeepsFlags(t) /\ bridge' \in 0..3 /\ (bridge' = 2 <=> bridge = 2)
    BY <1>1, <1>3, <1>14 DEF KeepsFlags, ValueType
<1>16. ValueType'
    <2>1. orig' \in [Sites -> {"null", "native", "live", "freed"}]
        BY <1>1, <1>3 DEF ValueType
    <2>. QED
        BY <1>1, <1>3, <1>15, <2>1 DEF ValueType
<1>17. HalfOK(t)' /\ InstallOK(t)' /\ UndoOK(t)' /\ TitleOK(t)'
    BY <1>1, <1>10, <1>13, IdleOwes
<1>18. \A s \in SitesOf(g) :
           /\ code'[s] = "ours" =>
                  saved'[s] # "none" /\ orig'[s] \in {"native", "live"}
           /\ s \in Plain \cup (Patches \ TitleSites) => orig'[s] = "native"
    <2>1. ASSUME NEW s \in SitesOf(g), s \in Plain \cup (Patches \ TitleSites)
          PROVE  orig'[s] = "native"
        <3>1. s \in Sites /\ orig[s] = "native"
            BY <1>1, <1>4, <2>1, SiteOfGroup DEF SiteOK
        <3>2. s \notin Nulled(g)
            BY <1>5, <2>1, PatchesOfWhole DEF Nulled, TitleSites
        <3>. QED
            BY <1>3, <3>1, <3>2
    <2>. QED
        BY <1>3, <1>5, <2>1 DEF NoneOurs
<1>19. SelectorLast' /\ ReadyOK'
    BY <1>1, <1>3, <1>13, <1>15, ReadyStays DEF SelectorLast
<1>20. WholeOrNot(g)'
    BY <1>3, <1>5 DEF WholeOrNot, NoneOurs
<1>21. polls' = polls
    BY <1>3
<1>. QED
    BY <1>10, <1>13, <1>15, <1>16, <1>17, <1>18, <1>19, <1>20, <1>21, OwnGroupDecides

---------------------------------------------------------------------------
(* The steps that hand over programs and leave the code as it is. *)

LEMMA GiveUpKeeps ==
    ASSUME Going, GiveUp
    PROVE  IInv'
<1>1. /\ ValueType /\ RunType /\ SiteOK /\ SelectorLast /\ exit = 0 /\ ReadyOK
      /\ "nrsc" \in Threads /\ ThreadOK("nrsc") /\ ProgramOK("nrsc")
    BY GoingParts DEF Threads
<1>2. PICK t, g : t = "nrsc" /\ g = "bridge"
    OBVIOUS
<1>3. /\ In(t, "next") /\ g = Group(t) /\ g \in Groups /\ g \in Whole /\ g # "limits"
      /\ bridge' = IF bridge = 0 THEN 3 ELSE bridge
      /\ run' = [run EXCEPT ![t] = Program(<<>>)]
      /\ UNCHANGED <<code, saved, orig, ready, table, polls, faults, exit>>
    BY <1>2, GroupFacts DEF GiveUp
<1>4. run[t].todo # <<>> /\ run[t].phase = "next"
    BY <1>3 DEF In
<1>5. PICK new : new = Program(<<>>)
    OBVIOUS
<1>6. /\ new \in ThreadState /\ new.todo = <<>> /\ new.phase = "next"
      /\ ~new.half /\ ~new.failed
    <2>1. <<>> \in Seq(Steps)
        OBVIOUS
    <2>. QED
        BY <1>5, <2>1, ProgramType
<1>7. WorksOn(t, g, new)
    BY <1>1, <1>3, <1>4, <1>5, <1>6 DEF WorksOn, Only
<1>8. KeepsFlags(t) /\ bridge' \in 0..3 /\ (bridge' = 2 <=> bridge = 2) /\ polls' = polls
    BY <1>1, <1>2, <1>3 DEF KeepsFlags, ValueType
<1>9. ValueType'
    BY <1>1, <1>3, <1>8 DEF ValueType
<1>10. HalfOK(t)' /\ InstallOK(t)' /\ UndoOK(t)' /\ TitleOK(t)'
    BY <1>1, <1>2, <1>6, <1>7, IdleOwes
<1>11. \A s \in SitesOf(g) :
           /\ code'[s] = "ours" =>
                  saved'[s] # "none" /\ orig'[s] \in {"native", "live"}
           /\ s \in Plain \cup (Patches \ TitleSites) => orig'[s] = "native"
    BY <1>1, <1>3, SiteOfGroup DEF SiteOK
<1>12. SelectorLast' /\ ReadyOK'
    BY <1>1, <1>2, <1>3, <1>7, <1>8, ReadyStays DEF SelectorLast
<1>13. WholeOrNot(g)'
    <2>1. NoneOurs(g)
        BY <1>1, <1>2, <1>3, <1>4, GroupAtWork DEF ThreadOK, FreshOK
    <2>. QED
        BY <1>3, <2>1 DEF WholeOrNot, NoneOurs
<1>. QED
    BY <1>1, <1>2, <1>6, <1>7, <1>8, <1>9, <1>10, <1>11, <1>12, <1>13, OwnGroupDecides

\* Thread t has its old state, or is given a program while it is at no group
\* that is undone.
Given(t) ==
    \/ run'[t] = run[t]
    \/ /\ ProgramOK(t)' /\ FreshOK(t)'
       /\ run'[t].phase = "next" /\ ~run'[t].half
       /\ run[t].phase # "next" => Group(t) \notin Whole

LEMMA QuietKeeps ==
    ASSUME Going, UNCHANGED <<code, saved, orig, ready, bridge, exit>>,
           ValueType', RunType', \A t \in Threads : Given(t), PollsOK', SpawnOK',
           \A x \in {"functional", "handoff"} : Pending("worker", x)' => Pending("worker", x),
           \A x \in {"bridge", "friend"} :
               Pending("nrsc", x)' =>
                   Pending("nrsc", x) \/ (bridge # 2 /\ "route" \notin ready)
    PROVE  IInv'
<1>1. /\ ValueType /\ RunType /\ SiteOK /\ SelectorLast /\ exit = 0 /\ ReadyOK
      /\ \A t \in Threads : ThreadOK(t) /\ ProgramOK(t)
      /\ \A h \in Whole : WholeOrNot(h)
    BY GoingParts
<1>2. SiteOK' /\ SelectorLast' /\ exit' = 0
    BY <1>1 DEF SiteOK, SelectorLast
<1>3. ASSUME NEW t \in Threads PROVE ThreadOK(t)'
    <2>1. CASE run'[t] = run[t]
        <3>1. ProgramOK(t)' /\ FreshOK(t)'
            BY <1>1, <2>1 DEF ThreadOK, ProgramOK, FreshOK, Group, NoneOurs
        <3>2. HalfOK(t)' /\ TitleOK(t)'
            BY <1>1, <2>1 DEF ThreadOK, HalfOK, TitleOK, Group, AtSite, In, Site
        <3>3. InstallOK(t)' /\ UndoOK(t)'
            BY <1>1, <2>1 DEF ThreadOK, InstallOK, UndoOK, Group
        <3>. QED
            BY <3>1, <3>2, <3>3 DEF ThreadOK
    <2>2. CASE ProgramOK(t)' /\ FreshOK(t)' /\ run'[t].phase = "next" /\ ~run'[t].half
        BY <2>2 DEF ThreadOK, HalfOK, InstallOK, UndoOK, TitleOK
    <2>. QED
        BY <2>1, <2>2 DEF Given
<1>4. ASSUME NEW h \in Whole PROVE WholeOrNot(h)'
    <2>1. ASSUME NEW t \in Threads, run[t].todo # <<>>, Group(t) = h, run[t].phase # "next"
          PROVE  Busy(h)'
        <3>1. run'[t] = run[t]
            BY <1>4, <2>1 DEF Given
        <3>. QED
            BY <2>1, <3>1 DEF Busy, Group
    <2>. QED
        BY <1>1, <2>1 DEF WholeOrNot, Busy, AllOurs, NoneOurs
<1>5. ReadyOK'
    BY <1>1 DEF ReadyOK, AllOurs
<1>. QED
    BY <1>2, <1>3, <1>4, <1>5, StillGoing

\* Dropping the first step of a program.
LEMMA TailProgram ==
    ASSUME Going, NEW t \in Threads, run[t].todo # <<>>,
           run'[t] = Program(Tail(run[t].todo)), UNCHANGED code
    PROVE  /\ ProgramOK(t)' /\ FreshOK(t)'
           /\ run'[t].phase = "next" /\ ~run'[t].half
           /\ \A x : Pending(t, x)' => Pending(t, x) /\ Kind(x) # Kind(Group(t))
<1>1. RunType /\ ProgramOK(t) /\ FreshOK(t)
    BY GoingParts DEF ThreadOK
<1>2. PICK s, p : s = run[t].todo /\ p = Tail(s)
    OBVIOUS
<1>3. s \in Seq(Steps) /\ p \in Seq(Steps) /\ s # <<>> /\ Group(t) = s[1]
      /\ 1 \in 1..Len(s)
    BY <1>1, <1>2, TailOf DEF RunType, Group
<1>4. /\ run'[t].todo = p /\ run'[t].phase = "next" /\ ~run'[t].half
      /\ ~run'[t].failed
    BY <1>2, <1>3, ProgramType
<1>5. \A i \in 1..Len(p) : p[i] = s[i + 1] /\ i + 1 \in 1..Len(s) /\ i + 1 > 1
    BY <1>2, <1>3, TailOf
<1>6. \A i \in 1..Len(p) : p[i] \in Claims(t)
    BY <1>1, <1>2, <1>5 DEF ProgramOK
<1>7. ASSUME NEW i \in 1..Len(p), NEW j \in 1..Len(p), Kind(p[i]) = Kind(p[j])
      PROVE  i = j
    <2>1. i + 1 = j + 1
        BY <1>1, <1>2, <1>5, <1>7 DEF ProgramOK
    <2>. QED
        BY <1>3, <2>1
<1>8. ProgramOK(t)'
    BY <1>4, <1>6, <1>7 DEF ProgramOK
<1>9. FreshOK(t)'
    BY <1>1, <1>2, <1>4, <1>5, ZenonT(60) DEF FreshOK, NoneOurs
<1>10. ASSUME NEW x, Pending(t, x)' PROVE Pending(t, x) /\ Kind(x) # Kind(Group(t))
    <2>1. PICK i \in 1..Len(p) : p[i] = x
        BY <1>4, <1>10 DEF Pending
    <2>2. i + 1 \in 1..Len(s) /\ s[i + 1] = x /\ i + 1 # 1
        BY <1>3, <1>5, <2>1
    <2>. QED
        BY <1>1, <1>2, <1>3, <2>2 DEF Pending, ProgramOK
<1>. QED
    BY <1>4, <1>8, <1>9, <1>10

\* The capacity step goes on with the limits.
LEMMA LimitsProgram ==
    ASSUME Going, NEW t \in Threads, run[t].todo # <<>>, Group(t) = "capacity",
           run'[t] = Program(<<"limits">> \o Tail(run[t].todo)), UNCHANGED code
    PROVE  /\ ProgramOK(t)' /\ FreshOK(t)'
           /\ run'[t] \in ThreadState
           /\ run'[t].phase = "next" /\ ~run'[t].half /\ run'[t].todo # <<>>
           /\ \A x : Pending(t, x)' => Pending(t, x) \/ x = "limits"
<1>1. RunType /\ ProgramOK(t) /\ FreshOK(t)
    BY GoingParts DEF ThreadOK
<1>2. PICK s, p : s = run[t].todo /\ p = <<"limits">> \o Tail(s)
    OBVIOUS
<1>3. s \in Seq(Steps) /\ Tail(s) \in Seq(Steps) /\ s # <<>> /\ s[1] = "capacity"
      /\ 1 \in 1..Len(s) /\ Len(s) \in Nat
    BY <1>1, <1>2, TailOf DEF RunType, Group
<1>4. "limits" \in Steps
    BY GroupFacts DEF Steps
<1>5. p \in Seq(Steps) /\ Len(p) = Len(s) /\ p # <<>>
    BY <1>2, <1>3, <1>4, TailOf
<1>6. p[1] = "limits" /\ \A i \in 1..Len(p) : i # 1 => p[i] = s[i]
    BY <1>2, <1>3, <1>4, <1>5, TailOf
<1>7. /\ run'[t] \in ThreadState /\ run'[t].todo = p /\ run'[t].phase = "next"
      /\ ~run'[t].half /\ ~run'[t].failed
    BY <1>2, <1>5, ProgramType
<1>8. "limits" \in Claims(t)
    <2>1. "capacity" \in Claims(t)
        BY <1>1, <1>2, <1>3 DEF ProgramOK
    <2>. QED
        BY <1>4, <2>1 DEF Claims
<1>9. \A i \in 1..Len(p) : p[i] \in Claims(t) /\ Kind(p[i]) = Kind(s[i])
    BY <1>1, <1>2, <1>3, <1>5, <1>6, <1>8 DEF ProgramOK, Kind
<1>10. ProgramOK(t)'
    BY <1>1, <1>2, <1>5, <1>7, <1>9 DEF ProgramOK
<1>11. FreshOK(t)'
    <2>1. ASSUME NEW i \in 1..Len(p), p[i] \in Groups \ {"limits"} PROVE NoneOurs(p[i])
        <3>1. i # 1 /\ i > 1
            BY <1>5, <1>6, <2>1
        <3>. QED
            BY <1>1, <1>2, <1>5, <1>6, <2>1, <3>1 DEF FreshOK
    <2>. QED
        BY <1>7, <2>1 DEF FreshOK, NoneOurs
<1>12. ASSUME NEW x, Pending(t, x)' PROVE Pending(t, x) \/ x = "limits"
    <2>1. PICK i \in 1..Len(p) : p[i] = x
        BY <1>7, <1>12 DEF Pending
    <2>. QED
        BY <1>2, <1>5, <1>6, <2>1 DEF Pending
<1>. QED
    BY <1>5, <1>7, <1>10, <1>11, <1>12

\* A program of nothing but the capacity step, or of nothing.
LEMMA CapacityProgram ==
    ASSUME NEW p, p = <<"capacity">> \/ p = <<>>,
           run'["expander"] = Program(p)
    PROVE  /\ ProgramOK("expander")' /\ FreshOK("expander")'
           /\ run'["expander"] \in ThreadState /\ run'["expander"].todo = p
           /\ run'["expander"].phase = "next" /\ ~run'["expander"].half
<1>0. Len(p) \in {0, 1} /\ p \in Seq({"capacity"})
    <2>1. CASE p = <<>>
        BY <2>1
    <2>2. CASE p = <<"capacity">>
        BY <2>2
    <2>. QED
        BY <2>1, <2>2
<1>1. p \in Seq(Steps)
    BY <1>0, SeqOver DEF Steps
<1>2. /\ run'["expander"] \in ThreadState /\ run'["expander"].todo = p
      /\ run'["expander"].phase = "next" /\ ~run'["expander"].half
      /\ ~run'["expander"].failed
    BY <1>1, ProgramType
<1>3. \A i \in 1..Len(p) : p[i] = "capacity" /\ i = 1
    <2>1. ASSUME NEW i \in 1..Len(p) PROVE p[i] = "capacity"
        BY <1>0
    <2>2. ASSUME NEW i \in 1..Len(p) PROVE i = 1
        <3>1. PICK n : n = Len(p)
            OBVIOUS
        <3>2. n \in {0, 1} /\ i \in 1..n
            BY <1>0, <3>1
        <3>. QED
            BY <3>2, SMT
    <2>. QED
        BY <2>1, <2>2
<1>4. ProgramOK("expander")'
    BY <1>2, <1>3 DEF ProgramOK, Claims
<1>5. FreshOK("expander")'
    BY <1>2, <1>3, GroupFacts DEF FreshOK
<1>. QED
    BY <1>2, <1>4, <1>5

LEMMA SpawnStepKeeps ==
    ASSUME Going, Spawn
    PROVE  IInv'
<1>1. /\ ValueType /\ RunType /\ exit = 0 /\ PollsOK /\ SpawnOK
    BY GoingParts
<1>2. /\ In("worker", "next") /\ Group("worker") = "spawn"
      /\ run' = [run EXCEPT !["worker"] = Program(Tail(run["worker"].todo)),
                            !["nrsc"] = IF "nrsc" \in Options
                                        THEN Program(<<"bridge", "friend">>) ELSE run["nrsc"]]
      /\ UNCHANGED <<code, saved, orig, ready, bridge, table, polls, faults, exit>>
    BY <1>1 DEF Spawn, RunType, Threads
<1>3. PICK w : w = "worker"
    OBVIOUS
<1>4. /\ run[w].todo # <<>> /\ run[w].phase = "next" /\ w \in Threads
      /\ run'[w] = Program(Tail(run[w].todo))
    BY <1>1, <1>2, <1>3 DEF In, RunType, Threads
<1>5. /\ ProgramOK(w)' /\ FreshOK(w)' /\ run'[w].phase = "next" /\ ~run'[w].half
      /\ \A x : Pending(w, x)' => Pending(w, x) /\ Kind(x) # Kind(Group(w))
    BY <1>2, <1>4, TailProgram
<1>6. Pending("worker", "spawn")
    BY <1>2, <1>3, <1>4, GroupAtWork DEF Pending
<1>7. /\ NoneOurs("bridge") /\ NoneOurs("friend")
      /\ bridge = 0 /\ run["nrsc"].todo = <<>> /\ "route" \notin ready
    BY <1>1, <1>6 DEF SpawnOK
<1>8. Given("nrsc") /\ run'["nrsc"] \in ThreadState
    <2>1. CASE "nrsc" \in Options
        <3>1. PICK p : p = <<"bridge", "friend">>
            OBVIOUS
        <3>2. p \in Seq(Steps) /\ Len(p) = 2 /\ p[1] = "bridge" /\ p[2] = "friend"
            BY <3>1, GroupFacts DEF Steps
        <3>3. run'["nrsc"] = Program(p)
            BY <1>1, <1>2, <2>1, <3>1 DEF RunType, Threads
        <3>4. /\ run'["nrsc"] \in ThreadState
              /\ run'["nrsc"].todo = p /\ run'["nrsc"].phase = "next"
              /\ ~run'["nrsc"].half /\ ~run'["nrsc"].failed
            BY <3>2, <3>3, ProgramType
        <3>5. ProgramOK("nrsc")'
            <4>1. \A i \in 1..Len(p) : p[i] \in Claims("nrsc")
                BY <3>2 DEF Claims
            <4>2. \A i, j \in 1..Len(p) : Kind(p[i]) = Kind(p[j]) => i = j
                BY <3>2 DEF Kind
            <4>. QED
                BY <3>4, <4>1, <4>2 DEF ProgramOK
        <3>6. FreshOK("nrsc")'
            BY <1>2, <1>7, <3>2, <3>4 DEF FreshOK, NoneOurs
        <3>7. run["nrsc"].phase = "next"
            BY <1>7, GoingParts DEF ProgramOK, Threads
        <3>. QED
            BY <3>4, <3>5, <3>6, <3>7 DEF Given
    <2>2. CASE "nrsc" \notin Options
        BY <1>1, <1>2, <2>2 DEF Given, RunType, ThreadState, Threads
    <2>. QED
        BY <2>1, <2>2
<1>9. run'["expander"] = run["expander"] /\ Given("expander")
    BY <1>1, <1>2 DEF Given, RunType, Threads
<1>10. Given("worker")
    BY <1>3, <1>4, <1>5 DEF Given
<1>11. \A t \in Threads : Given(t)
    BY <1>8, <1>9, <1>10 DEF Threads
<1>12. RunType'
    <2>1. run'[w] \in ThreadState
        BY <1>4, GroupAtWork, ProgramType
    <2>. QED
        BY <1>1, <1>2, <1>3, <1>8, <2>1 DEF RunType, ThreadState, Threads
<1>13. ValueType'
    BY <1>1, <1>2 DEF ValueType
<1>14. PollsOK'
    BY <1>1, <1>2, <1>3, <1>5, <1>9 DEF PollsOK
<1>15. SpawnOK'
    BY <1>2, <1>3, <1>5 DEF SpawnOK
<1>16. \A x \in {"functional", "handoff"} : Pending("worker", x)' => Pending("worker", x)
    BY <1>3, <1>5
<1>17. bridge # 2 /\ "route" \notin ready
    BY <1>7
<1>. QED
    BY <1>2, <1>11, <1>12, <1>13, <1>14, <1>15, <1>16, <1>17, QuietKeeps

\* Giving up on the table for now.
LEMMA RetryKeeps ==
    ASSUME Going, NEW t \in Threads, run[t].todo # <<>>,
           Group(t) \in {"capacity", "limits"}, Retry(t),
           UNCHANGED <<code, saved, orig, ready, bridge, exit>>
    PROVE  IInv'
<1>1. /\ ValueType /\ RunType /\ exit = 0 /\ PollsOK /\ SpawnOK /\ ProgramOK(t)
    BY GoingParts
<1>2. Group(t) \in Claims(t) /\ Pending(t, Group(t)) /\ Group(t) \notin Whole
    BY <1>1, AtWork, GroupFacts
<1>3. t \in {"worker", "expander"}
    BY <1>2 DEF Threads, Claims
<1>4. PICK w, e : w = "worker" /\ e = "expander"
    OBVIOUS
<1>5. CASE t = "worker"
    <2>1. /\ run' = [run EXCEPT !["worker"] = Program(Tail(run["worker"].todo)),
                                !["expander"] = Program(<<"capacity">>)]
          /\ polls' = polls
        BY <1>1, <1>5 DEF Retry, RunType, Threads
    <2>2. /\ run'[w] = Program(Tail(run[w].todo)) /\ run'[e] = Program(<<"capacity">>)
          /\ run'["nrsc"] = run["nrsc"] /\ w \in Threads /\ run[w].todo # <<>>
        BY <1>1, <1>4, <1>5, <2>1 DEF RunType, Threads
    <2>3. /\ ProgramOK(w)' /\ FreshOK(w)' /\ run'[w].phase = "next" /\ ~run'[w].half
          /\ \A x : Pending(w, x)' => Pending(w, x) /\ Kind(x) # Kind(Group(w))
        BY <2>2, TailProgram
    <2>4. /\ ProgramOK(e)' /\ FreshOK(e)' /\ run'[e] \in ThreadState
          /\ run'[e].phase = "next" /\ ~run'[e].half
        BY <1>4, <2>2, CapacityProgram
    <2>5. run["expander"].todo = <<>> /\ polls = 0
        BY <1>1, <1>2, <1>5 DEF PollsOK
    <2>6. run["expander"].phase = "next"
        BY <2>5, GoingParts DEF ProgramOK, Threads
    <2>7. \A u \in Threads : Given(u)
        BY <1>2, <1>4, <1>5, <2>2, <2>3, <2>4, <2>6 DEF Given, Threads
    <2>8. run'[w] \in ThreadState
        BY <2>2, GroupAtWork, ProgramType
    <2>9. RunType'
        BY <1>1, <1>4, <2>1, <2>4, <2>8 DEF RunType, ThreadState, Threads
    <2>10. ValueType'
        BY <1>1, <2>1 DEF ValueType
    <2>11. PollsOK'
        <3>1. ~Pending("worker", "capacity")' /\ ~Pending("worker", "limits")'
            BY <1>4, <1>5, <2>3 DEF Kind
        <3>2. polls' < MaxPoll
            BY <2>1, <2>5, PollAssumption
        <3>. QED
            BY <3>1, <3>2 DEF PollsOK
    <2>12. SpawnOK'
        BY <1>1, <1>4, <2>2, <2>3 DEF SpawnOK, NoneOurs
    <2>13. \A x \in {"functional", "handoff"} : Pending("worker", x)' => Pending("worker", x)
        BY <1>4, <2>3
    <2>14. \A x \in {"bridge", "friend"} : Pending("nrsc", x)' => Pending("nrsc", x)
        BY <2>2 DEF Pending
    <2>. QED
        BY <2>7, <2>9, <2>10, <2>11, <2>12, <2>13, <2>14, QuietKeeps
<1>6. CASE t = "expander"
    <2>1. PICK p : p = IF polls + 1 < MaxPoll THEN <<"capacity">> ELSE <<>>
        OBVIOUS
    <2>2. polls' = polls + 1 /\ run' = [run EXCEPT !["expander"] = Program(p)]
        BY <1>6, <2>1 DEF Retry
    <2>3. /\ run'[e] = Program(p) /\ run'["nrsc"] = run["nrsc"]
          /\ run'["worker"] = run["worker"]
        BY <1>1, <1>4, <2>2 DEF RunType, Threads
    <2>4. p = <<"capacity">> \/ p = <<>>
        BY <2>1
    <2>5. /\ ProgramOK(e)' /\ FreshOK(e)' /\ run'[e] \in ThreadState
          /\ run'[e].phase = "next" /\ ~run'[e].half /\ run'[e].todo = p
        BY <1>4, <2>3, <2>4, CapacityProgram
    <2>6. /\ polls < MaxPoll /\ polls \in Nat
          /\ ~Pending("worker", "capacity") /\ ~Pending("worker", "limits")
        BY <1>1, <1>6 DEF PollsOK, ValueType
    <2>7. \A u \in Threads : Given(u)
        BY <1>2, <1>4, <1>6, <2>3, <2>5 DEF Given, Threads
    <2>8. RunType'
        BY <1>1, <1>4, <2>2, <2>5 DEF RunType, ThreadState, Threads
    <2>9. ValueType'
        BY <1>1, <2>2, <2>6, PollAssumption DEF ValueType
    <2>10. PollsOK'
        <3>1. ~Pending("worker", "capacity")' /\ ~Pending("worker", "limits")'
            BY <2>3, <2>6 DEF Pending
        <3>2. p # <<>> => polls' < MaxPoll
            BY <2>1, <2>2
        <3>. QED
            BY <1>4, <2>5, <3>1, <3>2 DEF PollsOK
    <2>11. SpawnOK'
        BY <1>1, <2>3 DEF SpawnOK, NoneOurs, Pending
    <2>12. /\ \A x \in {"functional", "handoff"} : Pending("worker", x)' => Pending("worker", x)
           /\ \A x \in {"bridge", "friend"} : Pending("nrsc", x)' => Pending("nrsc", x)
        BY <2>3 DEF Pending
    <2>. QED
        BY <2>7, <2>8, <2>9, <2>10, <2>11, <2>12, QuietKeeps
<1>. QED
    BY <1>3, <1>5, <1>6

LEMMA EnsureCapacityKeeps ==
    ASSUME Going, NEW t \in Threads, EnsureCapacity(t)
    PROVE  IInv'
<1>1. /\ ValueType /\ RunType /\ exit = 0 /\ PollsOK /\ SpawnOK /\ ProgramOK(t)
    BY GoingParts
<1>2. /\ In(t, "next") /\ Group(t) = "capacity"
      /\ UNCHANGED <<code, saved, orig, ready, bridge, faults, exit>>
    BY DEF EnsureCapacity
<1>3. run[t].todo # <<>> /\ run[t].phase = "next"
    BY <1>2 DEF In
<1>4. CASE run' = Proceed(t) /\ UNCHANGED polls
    <2>1. PICK new : new = Program(Tail(run[t].todo))
        OBVIOUS
    <2>2. run' = [run EXCEPT ![t] = new]
        BY <1>1, <1>4, <2>1 DEF Proceed, RunType
    <2>3. new \in ThreadState
        BY <1>3, <2>1, GroupAtWork, ProgramType
    <2>4. run'[t] = Program(Tail(run[t].todo)) /\ RunType'
        BY <1>1, <2>1, <2>2, <2>3 DEF RunType, ThreadState
    <2>5. /\ ProgramOK(t)' /\ FreshOK(t)' /\ run'[t].phase = "next" /\ ~run'[t].half
          /\ \A x : Pending(t, x)' => Pending(t, x) /\ Kind(x) # Kind(Group(t))
        BY <1>2, <1>3, <2>4, TailProgram
    <2>6. \A u \in Threads : u # t => run'[u] = run[u]
        BY <1>1, <2>2 DEF RunType
    <2>7. \A u \in Threads : \A x : Pending(u, x)' => Pending(u, x)
        BY <2>5, <2>6 DEF Pending
    <2>8. \A u \in Threads : Given(u)
        BY <1>3, <2>5, <2>6 DEF Given
    <2>9. ValueType'
        BY <1>1, <1>2, <1>4 DEF ValueType
    <2>10. PollsOK'
        <3>1. run'["expander"].todo # <<>> => run["expander"].todo # <<>>
            <4>1. CASE t = "expander"
                BY <1>3, <4>1
            <4>2. CASE t # "expander"
                BY <2>6, <4>2 DEF Threads
            <4>. QED
                BY <4>1, <4>2
        <3>2. Pending("worker", "capacity")' \/ Pending("worker", "limits")'
                  => Pending("worker", "capacity") \/ Pending("worker", "limits")
            BY <2>7 DEF Threads
        <3>. QED
            BY <1>1, <1>4, <3>1, <3>2 DEF PollsOK
    <2>11. SpawnOK'
        <3>1. SUFFICES ASSUME Pending("worker", "spawn")' PROVE SpawnOK'
            BY DEF SpawnOK
        <3>2. /\ NoneOurs("bridge") /\ NoneOurs("friend")
              /\ bridge = 0 /\ run["nrsc"].todo = <<>> /\ "route" \notin ready
            BY <1>1, <2>7, <3>1 DEF SpawnOK, Threads
        <3>3. run'["nrsc"] = run["nrsc"]
            BY <1>3, <2>6, <3>2 DEF Threads
        <3>. QED
            BY <1>2, <3>2, <3>3 DEF SpawnOK, NoneOurs
    <2>12. /\ \A x \in {"functional", "handoff"} : Pending("worker", x)' => Pending("worker", x)
           /\ \A x \in {"bridge", "friend"} : Pending("nrsc", x)' => Pending("nrsc", x)
        BY <2>7 DEF Threads
    <2>. QED
        BY <1>2, <2>4, <2>8, <2>9, <2>10, <2>11, <2>12, QuietKeeps
<1>5. CASE /\ run' = [run EXCEPT ![t] = Program(<<"limits">> \o Tail(run[t].todo))]
           /\ UNCHANGED polls
    <2>1. run'[t] = Program(<<"limits">> \o Tail(run[t].todo))
        BY <1>1, <1>5 DEF RunType
    <2>2. /\ ProgramOK(t)' /\ FreshOK(t)' /\ run'[t] \in ThreadState
          /\ run'[t].phase = "next" /\ ~run'[t].half
          /\ \A x : Pending(t, x)' => Pending(t, x) \/ x = "limits"
        BY <1>2, <1>3, <2>1, LimitsProgram
    <2>3. \A u \in Threads : u # t => run'[u] = run[u]
        BY <1>1, <1>5 DEF RunType
    <2>4. RunType'
        BY <1>1, <1>5, <2>1, <2>2 DEF RunType, ThreadState
    <2>5. \A u \in Threads : \A x : x # "limits" => (Pending(u, x)' => Pending(u, x))
        BY <2>2, <2>3 DEF Pending
    <2>6. \A u \in Threads : Given(u)
        BY <1>3, <2>2, <2>3 DEF Given
    <2>7. ValueType'
        BY <1>1, <1>2, <1>5 DEF ValueType
    <2>8. Pending(t, "capacity") /\ "capacity" \in Claims(t)
        BY <1>1, <1>2, <1>3, AtWork
    <2>9. PollsOK'
        <3>1. run'["expander"].todo # <<>> => run["expander"].todo # <<>>
            <4>1. CASE t = "expander"
                BY <1>3, <4>1
            <4>2. CASE t # "expander"
                BY <2>3, <4>2 DEF Threads
            <4>. QED
                BY <4>1, <4>2
        <3>2. Pending("worker", "capacity")' \/ Pending("worker", "limits")'
                  => Pending("worker", "capacity") \/ Pending("worker", "limits")
            <4>1. CASE t = "worker"
                BY <2>8, <4>1
            <4>2. CASE t # "worker"
                BY <2>3, <4>2 DEF Threads, Pending
            <4>. QED
                BY <4>1, <4>2
        <3>. QED
            BY <1>1, <1>5, <3>1, <3>2 DEF PollsOK
    <2>10. t # "nrsc"
        BY <2>8 DEF Claims
    <2>11. SpawnOK'
        <3>1. SUFFICES ASSUME Pending("worker", "spawn")' PROVE SpawnOK'
            BY DEF SpawnOK
        <3>2. /\ NoneOurs("bridge") /\ NoneOurs("friend")
              /\ bridge = 0 /\ run["nrsc"].todo = <<>> /\ "route" \notin ready
            BY <1>1, <2>5, <3>1 DEF SpawnOK, Threads
        <3>3. run'["nrsc"] = run["nrsc"]
            BY <2>3, <2>10 DEF Threads
        <3>. QED
            BY <1>2, <3>2, <3>3 DEF SpawnOK, NoneOurs
    <2>12. /\ \A x \in {"functional", "handoff"} : Pending("worker", x)' => Pending("worker", x)
           /\ \A x \in {"bridge", "friend"} : Pending("nrsc", x)' => Pending("nrsc", x)
        BY <2>5 DEF Threads
    <2>. QED
        BY <1>2, <2>4, <2>6, <2>7, <2>9, <2>11, <2>12, QuietKeeps
<1>6. CASE Retry(t)
    BY <1>2, <1>3, <1>6, RetryKeeps
<1>. QED
    BY <1>1, <1>4, <1>5, <1>6 DEF EnsureCapacity, RunType

LEMMA ConcludeKeeps ==
    ASSUME Going, NEW t \in Threads, Conclude(t)
    PROVE  IInv'
<1>1. CASE Group(t) \in Whole /\ run[t].failed
    BY <1>1, ConcludeFails
<1>2. CASE Group(t) = "limits" /\ run[t].failed
    <2>1. run[t].todo # <<>> /\ "limits" \notin Whole
        BY GroupFacts DEF Conclude, In
    <2>2. ready' = ready \cup Flags("limits") /\ bridge' = bridge /\ Retry(t)
          /\ UNCHANGED <<code, saved, orig, exit>>
        BY <1>2, <2>1 DEF Conclude
    <2>3. Flags("limits") = {}
        BY DEF Flags
    <2>. QED
        BY <1>2, <2>1, <2>2, <2>3, RetryKeeps
<1>3. CASE ~(Group(t) \in Whole /\ run[t].failed) /\ ~(Group(t) = "limits" /\ run[t].failed)
    BY <1>3, ConcludeSucceeds
<1>. QED
    BY <1>1, <1>2, <1>3

LEMMA CreateManagerKeeps ==
    ASSUME Going, CreateManager
    PROVE  IInv'
<1>1. ValueType /\ RunType /\ PollsOK /\ SpawnOK
    BY GoingParts
<1>2. UNCHANGED <<code, saved, orig, ready, bridge, run, polls, faults, exit>>
    BY DEF CreateManager
<1>3. ValueType' /\ RunType' /\ PollsOK' /\ SpawnOK'
    BY <1>1, <1>2 DEF ValueType, RunType, PollsOK, SpawnOK, Pending, NoneOurs
<1>4. \A t \in Threads : Given(t)
    BY <1>2 DEF Given
<1>5. /\ \A x \in {"functional", "handoff"} : Pending("worker", x)' => Pending("worker", x)
      /\ \A x \in {"bridge", "friend"} : Pending("nrsc", x)' => Pending("nrsc", x)
    BY <1>2 DEF Pending
<1>. QED
    BY <1>2, <1>3, <1>4, <1>5, QuietKeeps

\* Bytes of others are not ours, and what is ours is no longer native.
LEMMA PatchedByOtherKeeps ==
    ASSUME Going, NEW s, PatchedByOther(s)
    PROVE  IInv'
<1>1. /\ ValueType /\ RunType /\ SiteOK /\ SelectorLast /\ exit = 0
      /\ \A t \in Threads : ThreadOK(t)
      /\ PollsOK /\ SpawnOK /\ ReadyOK
      /\ \A h \in Whole : WholeOrNot(h)
    BY GoingParts
<1>2. /\ code[s] = "native" /\ code' = [code EXCEPT ![s] = "foreign"]
      /\ UNCHANGED <<saved, orig, ready, bridge, table, run, polls, exit>>
    BY DEF PatchedByOther
<1>3. \A x \in Sites : code'[x] = "ours" <=> code[x] = "ours"
    BY <1>1, <1>2 DEF ValueType
<1>4. ValueType' /\ RunType'
    BY <1>1, <1>2 DEF ValueType, RunType
<1>5. SiteOK' /\ SelectorLast'
    BY <1>1, <1>2, <1>3, SelectorIsLast, SiteOfGroup, GroupFacts DEF SiteOK, SelectorLast
<1>6. \A h \in Groups : (NoneOurs(h) => NoneOurs(h)') /\ (AllOurs(h) => AllOurs(h)')
    BY <1>3, SiteOfGroup DEF NoneOurs, AllOurs
<1>7. ASSUME NEW t \in Threads PROVE ThreadOK(t)'
    <2>1. PICK g : g = Group(t)
        OBVIOUS
    <2>2. run[t].phase # "next" => g \in Groups
        BY <1>1, <2>1 DEF ThreadOK, ProgramOK
    <2>3. \A h \in Groups : \A i \in 1..Len(Order[h]) :
              code'[Order[h][i]] = "ours" <=> code[Order[h][i]] = "ours"
        BY <1>3, SiteOfGroup
    <2>4. code'[Selector] = "ours" <=> code[Selector] = "ours"
        BY <1>3, SelectorIsLast, SiteOfGroup, GroupFacts
    <2>5. ProgramOK(t)' /\ HalfOK(t)' /\ TitleOK(t)'
        BY <1>1, <1>2 DEF ThreadOK, ProgramOK, HalfOK, TitleOK, Group, AtSite, In, Site
    <2>6. FreshOK(t)'
        BY <1>1, <1>2, <1>6 DEF ThreadOK, FreshOK
    <2>7. InstallOK(t)'
        <3>1. SUFFICES ASSUME run[t].phase = "install" PROVE InstallOK(t)'
            BY <1>2 DEF InstallOK
        <3>2. /\ run[t].at \in 1..Len(Order[g]) + 1
              /\ g # "limits" => \A i \in run[t].at..Len(Order[g]) : code[Order[g][i]] # "ours"
              /\ g \in Whole /\ ~run[t].failed =>
                     \A i \in 1..run[t].at - 1 : code[Order[g][i]] = "ours"
              /\ g \in Whole1 /\ run[t].failed => run[t].at = Len(Order[g]) + 1
              /\ g = "provider" /\ run[t].failed => code[Selector] # "ours"
              /\ g = "handoff" => "functional" \in ready
              /\ g = "friend" => bridge = 2 /\ "handoff" \in ready
            BY <1>1, <2>1, <3>1 DEF ThreadOK, InstallOK
        <3>3. g \in Groups /\ Len(Order[g]) \in Nat
            BY <2>2, <3>1, SiteOfGroup
        <3>4. g # "limits" => \A i \in run[t].at..Len(Order[g]) : code'[Order[g][i]] # "ours"
            BY <2>3, <3>2, <3>3
        <3>5. g \in Whole /\ ~run[t].failed =>
                  \A i \in 1..run[t].at - 1 : code'[Order[g][i]] = "ours"
            BY <2>3, <3>2, <3>3
        <3>6. Group(t)' = g
            BY <1>2, <2>1 DEF Group
        <3>. QED
            BY <1>2, <2>4, <3>2, <3>4, <3>5, <3>6 DEF InstallOK
    <2>8. UndoOK(t)'
        <3>1. SUFFICES ASSUME run[t].phase = "undo" PROVE UndoOK(t)'
            BY <1>2 DEF UndoOK
        <3>2. \A x \in SitesOf(g) : code'[x] = "ours" <=> code[x] = "ours"
            BY <1>3, <2>2, <3>1, SiteOfGroup
        <3>3. Group(t)' = g
            BY <1>2, <2>1 DEF Group
        <3>. QED
            BY <1>1, <1>2, <2>1, <2>4, <3>1, <3>2, <3>3 DEF ThreadOK, UndoOK
    <2>. QED
        BY <2>5, <2>6, <2>7, <2>8 DEF ThreadOK
<1>8. PollsOK' /\ SpawnOK' /\ ReadyOK'
    BY <1>1, <1>2, <1>6, GroupFacts DEF PollsOK, SpawnOK, ReadyOK, Pending
<1>9. ASSUME NEW h \in Whole PROVE WholeOrNot(h)'
    <2>1. Busy(h) => Busy(h)'
        BY <1>2 DEF Busy, Group
    <2>. QED
        BY <1>1, <1>6, <2>1, GroupFacts DEF WholeOrNot
<1>10. exit' = 0
    BY <1>1, <1>2
<1>. QED
    BY <1>4, <1>5, <1>7, <1>8, <1>9, <1>10, StillGoing

---------------------------------------------------------------------------
(* The detach. *)

LEMMA DetachSteps ==
    /\ Len(DetachOrder) = 4
    /\ DetachOrder[1] = {19, Authority} \cup TitlePatches("postConfirm")
    /\ DetachOrder[2] = {Selector}
    /\ DetachOrder[3] = Patches \ {Selector, Authority}
    /\ DetachOrder[4] = Sites \ Patches
BY DEF DetachOrder

LEMMA BeginDetachKeeps ==
    ASSUME Going, BeginDetach
    PROVE  IInv'
<1>1. /\ ValueType /\ RunType /\ SiteOK /\ SelectorLast /\ exit = 0
    BY GoingParts
<1>2. /\ exit' = 1 /\ "route" \notin ready'
      /\ UNCHANGED <<code, saved, orig, bridge, table, run, polls, faults>>
    BY DEF BeginDetach
<1>3. ValueType'
    BY <1>1, <1>2, DetachSteps DEF ValueType
<1>4. RunType' /\ SiteOK' /\ SelectorLast'
    BY <1>1, <1>2 DEF RunType, SiteOK, SelectorLast
<1>5. ExitOK'
    BY <1>2 DEF ExitOK
<1>. QED
    BY <1>2, <1>3, <1>4, <1>5 DEF IInv

LEMMA DetachKeeps ==
    ASSUME IInv, Detach
    PROVE  IInv'
<1>1. /\ ValueType /\ RunType /\ SiteOK /\ SelectorLast /\ ExitOK
    BY DEF IInv
<1>2. PICK e \in 1..4 : e = exit
    BY DetachSteps DEF Detach
<1>3. PICK S : S = DetachOrder[e]
    OBVIOUS
<1>4. /\ exit' = e + 1 /\ Removed(S)
      /\ orig' = [Freed(S) EXCEPT ![19] = IF exit = 1 THEN "native" ELSE @]
      /\ UNCHANGED <<ready, bridge, table, run, polls, faults>>
    BY <1>2, <1>3 DEF Detach
<1>5. \A s \in Sites : code'[s] = "ours" =>
          s \notin S /\ code[s] = "ours" /\ saved'[s] = saved[s] /\ saved[s] # "none"
    BY <1>1, <1>4 DEF Removed, SiteOK, ValueType
<1>6. \A s \in Sites : s \in S => code'[s] # "ours"
    BY <1>5
<1>7. \A s \in Sites : orig[s] \in {"native", "live"} /\ s \notin S =>
          orig'[s] \in {"native", "live"}
    BY <1>4 DEF Freed
<1>8. \A s \in Sites : orig[s] = "native" => orig'[s] = "native"
    BY <1>4 DEF Freed
<1>9. ValueType'
    <2>1. code' \in [Sites -> {"native", "foreign", "ours"}]
        BY <1>1, <1>4 DEF ValueType, Removed
    <2>2. saved' \in [Sites -> {"none", "native", "foreign"}]
        BY <1>1, <1>4 DEF ValueType, Removed
    <2>3. orig' \in [Sites -> {"null", "native", "live", "freed"}]
        BY <1>1, <1>4 DEF ValueType, Freed
    <2>4. exit' \in 0..5
        BY <1>2, <1>4
    <2>. QED
        BY <1>1, <1>4, <2>1, <2>2, <2>3, <2>4, DetachSteps DEF ValueType
<1>10. RunType'
    BY <1>1, <1>4 DEF RunType
<1>11. SiteOK'
    BY <1>1, <1>5, <1>7, <1>8 DEF SiteOK
<1>12. SelectorLast'
    <2>1. SUFFICES ASSUME code'[Selector] = "ours", NEW s \in SitesOf("provider")
                   PROVE  code'[s] = "ours"
        BY DEF SelectorLast
    <2>2. /\ Selector \in Sites /\ s \in Sites
        BY SelectorIsLast, SiteOfGroup, GroupFacts
    <2>3. code[Selector] = "ours" /\ Selector \notin S /\ code[s] = "ours"
        BY <1>1, <1>5, <2>1, <2>2 DEF SelectorLast
    <2>4. e = 1
        <3>1. CASE e = 2
            BY <1>3, <2>3, <3>1, DetachSteps
        <3>2. CASE e > 2
            BY <1>1, <1>2, <2>2, <2>3, <3>2, DetachSteps DEF ExitOK
        <3>. QED
            BY <3>1, <3>2
    <2>5. s \notin {19, Authority}
        BY WholeSites DEF Authority
    <2>6. s \notin TitlePatches("postConfirm")
        BY GroupsApart, GroupFacts DEF TitlePatches
    <2>7. s \notin S
        BY <1>3, <2>4, <2>5, <2>6, DetachSteps
    <2>. QED
        BY <1>4, <2>2, <2>3, <2>7 DEF Removed
<1>13. ExitOK'
    <2>1. "route" \notin ready'
        BY <1>1, <1>2, <1>4 DEF ExitOK
    <2>2. ASSUME NEW k \in 1..4, e + 1 > k, NEW s \in DetachOrder[k], s \in Sites
          PROVE  code'[s] # "ours"
        <3>1. CASE k = e
            BY <1>3, <1>6, <2>2, <3>1
        <3>2. CASE k < e
            <4>1. code[s] # "ours"
                BY <1>1, <1>2, <2>2, <3>2, DetachSteps DEF ExitOK
            <4>. QED
                BY <1>5, <2>2, <4>1
        <3>. QED
            BY <2>2, <3>1, <3>2
    <2>. QED
        BY <1>4, <2>1, <2>2, DetachSteps DEF ExitOK
<1>14. exit' # 0
    BY <1>2, <1>4
<1>. QED
    BY <1>9, <1>10, <1>11, <1>12, <1>13, <1>14 DEF IInv

---------------------------------------------------------------------------
(* The invariant holds. *)

LEMMA StartupOnce ==
    /\ Startup \in Seq(Steps) /\ Len(Startup) = 20
    /\ \A i \in 1..20 : Startup[i] \notin {"bridge", "friend", "limits"}
    /\ \A i, j \in 1..20 : Startup[i] = Startup[j] => i = j
<1>1. Startup \in Seq(Steps) /\ Len(Startup) = 20
    BY GroupsListed DEF Startup, Steps
<1>2. \A i \in 1..20 : Startup[i] \notin {"bridge", "friend", "limits"}
    BY DEF Startup
<1>3. \A i, j \in 1..20 : Startup[i] = Startup[j] => i = j
    BY DEF Startup
<1>. QED
    BY <1>1, <1>2, <1>3

LEMMA InitEstablishes == Init => IInv
<1>1. SUFFICES ASSUME Init PROVE IInv
    OBVIOUS
<1>2. /\ \A s \in Sites : code[s] = "native" /\ saved[s] = "none"
      /\ code = [s \in Sites |-> "native"] /\ saved = [s \in Sites |-> "none"]
      /\ ready = {} /\ bridge = 0 /\ polls = 0 /\ exit = 0
      /\ run = [t \in Threads |-> Program(IF t = "worker" THEN Startup ELSE <<>>)]
    BY <1>1 DEF Init
<1>3. orig \in [Sites -> {"native", "null"}]
      /\ \A s \in Sites : s \in Plain \cup (Patches \ TitleSites) => orig[s] = "native"
    BY <1>1 DEF Init, TitleSites
<1>4. ValueType
    <2>1. orig \in [Sites -> {"null", "native", "live", "freed"}]
        BY <1>3
    <2>. QED
        BY <1>2, <2>1, PollAssumption, DetachSteps DEF ValueType
<1>5. /\ run["worker"] = Program(Startup) /\ run["nrsc"] = Program(<<>>)
      /\ run["expander"] = Program(<<>>)
    BY <1>2 DEF Threads
<1>6. <<>> \in Seq(Steps)
    OBVIOUS
<1>7. ASSUME NEW t \in Threads
      PROVE  /\ run[t] \in ThreadState
             /\ run[t].todo = IF t = "worker" THEN Startup ELSE <<>>
             /\ run[t].phase = "next" /\ ~run[t].half /\ ~run[t].failed
    <2>1. PICK p : p = IF t = "worker" THEN Startup ELSE <<>>
        OBVIOUS
    <2>2. run[t] = Program(p) /\ p \in Seq(Steps)
        BY <1>2, <1>6, <2>1, StartupOnce
    <2>. QED
        BY <2>1, <2>2, ProgramType
<1>8. RunType
    BY <1>2, <1>7 DEF RunType, ThreadState
<1>9. SiteOK /\ SelectorLast /\ ExitOK
    BY <1>2, <1>3, SelectorIsLast, SiteOfGroup, GroupFacts DEF SiteOK, SelectorLast, ExitOK
<1>10. \A g \in Groups : NoneOurs(g)
    BY <1>2, SiteOfGroup DEF NoneOurs
<1>11. ASSUME NEW t \in Threads PROVE ThreadOK(t)
    <2>1. ProgramOK(t)
        <3>1. CASE t = "worker"
            <4>1. \A i \in 1..Len(Startup) : Startup[i] \in Claims("worker")
                <5>1. \A i \in 1..Len(Startup) : Startup[i] \in Steps
                    <6>1. ASSUME NEW S, NEW q \in Seq(S), NEW i \in 1..Len(q)
                          PROVE  q[i] \in S
                        OBVIOUS
                    <6>. QED
                        BY <6>1, StartupOnce
                <5>. QED
                    BY <5>1, StartupOnce DEF Claims
            <4>2. \A i, j \in 1..Len(Startup) : Kind(Startup[i]) = Kind(Startup[j]) => i = j
                BY StartupOnce DEF Kind
            <4>. QED
                BY <1>7, <3>1, <4>1, <4>2 DEF ProgramOK
        <3>2. CASE t # "worker"
            BY <1>7, <3>2 DEF ProgramOK
        <3>. QED
            BY <3>1, <3>2
    <2>2. FreshOK(t)
        BY <1>10 DEF FreshOK
    <2>3. HalfOK(t) /\ InstallOK(t) /\ UndoOK(t) /\ TitleOK(t)
        BY <1>7 DEF HalfOK, InstallOK, UndoOK, TitleOK
    <2>. QED
        BY <2>1, <2>2, <2>3 DEF ThreadOK
<1>12. PollsOK
    BY <1>2, <1>7 DEF PollsOK, Threads
<1>13. SpawnOK
    BY <1>2, <1>7, <1>10, GroupFacts DEF SpawnOK, Threads
<1>14. ReadyOK
    BY <1>2 DEF ReadyOK
<1>15. NoPartialGroup
    BY <1>10, GroupFacts DEF NoPartialGroup, NoneOurs
<1>. QED
    BY <1>4, <1>8, <1>9, <1>11, <1>12, <1>13, <1>14, <1>15 DEF IInv, RunningOK

LEMMA StepKeeps ==
    ASSUME IInv, [Next]_vars
    PROVE  IInv'
<1>1. CASE UNCHANGED vars
    <2>1. ValueType' /\ RunType' /\ SiteOK' /\ SelectorLast' /\ ExitOK'
        BY <1>1 DEF IInv, vars, ValueType, RunType, SiteOK, SelectorLast, ExitOK
    <2>2. ASSUME exit = 0 PROVE IInv'
        <3>1. Going /\ ValueType /\ RunType /\ PollsOK /\ SpawnOK
            BY <2>2, GoingParts DEF Going
        <3>2. PollsOK' /\ SpawnOK'
            BY <1>1, <3>1 DEF vars, PollsOK, SpawnOK, Pending, NoneOurs
        <3>3. \A t \in Threads : Given(t)
            BY <1>1 DEF vars, Given
        <3>4. /\ \A x \in {"functional", "handoff"} : Pending("worker", x)' => Pending("worker", x)
              /\ \A x \in {"bridge", "friend"} : Pending("nrsc", x)' => Pending("nrsc", x)
            BY <1>1 DEF vars, Pending
        <3>. QED
            BY <1>1, <2>1, <3>1, <3>2, <3>3, <3>4, QuietKeeps DEF vars
    <2>3. ASSUME exit # 0 PROVE IInv'
        <3>1. exit' # 0
            BY <1>1, <2>3 DEF vars
        <3>. QED
            BY <2>1, <3>1 DEF IInv
    <2>. QED
        BY <2>2, <2>3
<1>2. ASSUME NEW t \in Threads, ThreadStep(t) PROVE IInv'
    <2>1. Going
        BY <1>2 DEF Going, ThreadStep, Begin, Prepare, WriteJump, Patch, Conclude,
                    RemoveSite, Undone, EnsureCapacity, AtSite, In
    <2>2. CASE Begin(t)
        BY <2>1, <2>2, BeginSkips, BeginKeeps
    <2>3. CASE Prepare(t)
        BY <2>1, <2>3, PrepareKeeps
    <2>4. CASE WriteJump(t)
        BY <2>1, <2>4, WriteJumpKeeps
    <2>5. CASE Patch(t)
        BY <2>1, <2>5, PatchKeeps
    <2>6. CASE Conclude(t)
        BY <2>1, <2>6, ConcludeKeeps
    <2>7. CASE RemoveSite(t)
        BY <2>1, <2>7, RemoveSiteKeeps
    <2>8. CASE Undone(t)
        BY <2>1, <2>8, UndoneKeeps
    <2>9. CASE EnsureCapacity(t)
        BY <2>1, <2>9, EnsureCapacityKeeps
    <2>. QED
        BY <1>2, <2>2, <2>3, <2>4, <2>5, <2>6, <2>7, <2>8, <2>9 DEF ThreadStep
<1>3. CASE Spawn
    BY <1>3, SpawnStepKeeps DEF Going, Spawn, In
<1>4. CASE GiveUp
    BY <1>4, GiveUpKeeps DEF Going, GiveUp, In
<1>5. CASE CreateManager
    BY <1>5, CreateManagerKeeps DEF Going, CreateManager
<1>6. ASSUME NEW s \in Suspect, PatchedByOther(s) PROVE IInv'
    BY <1>6, PatchedByOtherKeeps DEF Going, PatchedByOther
<1>7. CASE BeginDetach
    BY <1>7, BeginDetachKeeps DEF Going, BeginDetach
<1>8. CASE Detach
    BY <1>8, DetachKeeps
<1>. QED
    BY <1>1, <1>2, <1>3, <1>4, <1>5, <1>6, <1>7, <1>8 DEF Next

LEMMA Invariance == Spec => []IInv
BY InitEstablishes, StepKeeps, PTL DEF Spec

---------------------------------------------------------------------------
(* What follows of it. *)

\* The variables have their types, and the expansion thread makes no more
\* attempts than it may.
THEOREM PatchingTypeCorrect == Spec => []TypeOK
<1>1. IInv => TypeOK
    BY DEF IInv, ValueType, TypeOK
<1>. QED
    BY <1>1, Invariance, PTL

\* Whatever fails and is undone, on whichever thread, code that jumps into a
\* detour finds one that can call on (InstallInlineHook, RemoveInlineHook).
THEOREM DetoursStayLive == Spec => []DetourLive
<1>1. IInv => DetourLive
    BY DEF IInv, SiteOK, DetourLive
<1>. QED
    BY <1>1, Invariance, PTL

\* A group that belongs together is all in or all out whenever no installer is
\* at work on it (the installers' failure paths).
THEOREM GroupsStayWhole == Spec => []NoPartialGroup
<1>1. IInv => NoPartialGroup
    BY DEF IInv, RunningOK, NoPartialGroup
<1>. QED
    BY <1>1, Invariance, PTL

\* The old-member route is open only while all detours of the four groups it
\* runs through are in the code, though two threads install them
\* (IsBhrcOldMemberRouteReady).
THEOREM RouteStaysWhole == Spec => []RouteMeansWhole
<1>1. IInv => RouteMeansWhole
    <2>1. SUFFICES ASSUME IInv, "route" \in ready
                   PROVE  \A g \in {"functional", "handoff", "bridge", "friend"} : AllOurs(g)
        BY DEF RouteMeansWhole, AllOurs
    <2>2. ReadyOK
        BY <2>1 DEF IInv, ExitOK, RunningOK
    <2>. QED
        BY <2>1, <2>2 DEF ReadyOK
<1>. QED
    BY <1>1, Invariance, PTL

\* The edge into the title graph is live only while the whole graph is, through
\* installation, failure and detach (InstallBhrcNativeTitleReconnectProviderVtablePatches).
THEOREM SelectorStaysLast == Spec => []SelectorLast
<1>1. IInv => SelectorLast
    BY DEF IInv
<1>. QED
    BY <1>1, Invariance, PTL

\* The detach leaves no site with our bytes, whatever the threads were doing
\* when the process began to exit (DLL_PROCESS_DETACH).
THEOREM DetachRestoresCode == Spec => []DetachRestores
<1>1. IInv => DetachRestores
    <2>1. SUFFICES ASSUME IInv, exit > 4, NEW s \in Sites
                   PROVE  code[s] # "ours"
        BY DetachSteps DEF DetachRestores
    <2>2. PICK k \in 1..4 : s \in DetachOrder[k]
        BY DetachSteps
    <2>3. exit > k
        BY <2>1 DEF IInv, ValueType
    <2>. QED
        BY <2>1, <2>2, <2>3, DetachSteps DEF IInv, ExitOK
<1>. QED
    BY <1>1, Invariance, PTL
=============================================================================
