--------------------------- MODULE OldMemberProofs ---------------------------
(***************************************************************************)
(* Proofs about OldMember, for every number of owners, expeditions and     *)
(* authority commits, every number of nonces drawn, and every set of       *)
(* upsets.  The inductive invariant says                                   *)
(*   - what every thread's copies are (TypeInv, SoundInv): an observer     *)
(*     that is not settled as ordinary names a nonce and an expedition,    *)
(*     and so does every handoff that is not idle;                         *)
(*   - where the main thread stands with the handoff (FlowInv): between    *)
(*     two of its sections no other thread ends the handoff it works on,   *)
(*     others only give it another active nonce;                           *)
(*   - whose the latch and the native join are (OwnerInv);                 *)
(*   - what guards the entry (ScanInv, EntryInv): the fence alone, from    *)
(*     the scan's first section until the entry is released.               *)
(***************************************************************************)
EXTENDS OldMember, TLAPS

-----------------------------------------------------------------------------
\* The records that each thread and each global may hold when n nonces are drawn.

ProbesUpTo(n) ==
    [stage : {"Idle", "Pending"} \cup Terminal \cup Granted, nonce : 0 .. n,
     kind : {"none", "observer", "active"}, owner : {0} \cup Owners,
     exp : {0} \cup Exps, auth : {0} \cup Auths, running : BOOLEAN,
     ready : BOOLEAN, aged : BOOLEAN, kept : BOOLEAN, asked : BOOLEAN]

HandoffsUpTo(n) ==
    [stage : {"Idle", "Awaiting", "Waiting", "Submitted", "FailClosing", "Failed"},
     obs : 0 .. n, act : 0 .. n, owner : {0} \cup Owners,
     exp : {0} \cup Exps, auth : {0} \cup Auths, cancel : BOOLEAN, latch : BOOLEAN]

FencesUpTo(n) ==
    [kind : {"None", "Pending", "Authorized", "FailClosed"},
     nonce : 0 .. n, owner : {0} \cup Owners, exp : {0} \cup Exps]

Places == {"game", "top", "copy", "begin", "open", "promote", "snap", "bind",
           "process", "fail", "await", "check", "latch", "adapter", "owner",
           "verify", "submit", "start", "kept", "unfence"}

MainsUpTo(n) ==
    [pc : Places, pass : {"post", "pre"}, p : ProbesUpTo(n), h : HandoffsUpTo(n),
     ok : BOOLEAN, kind : {"none", "ui", "other"}]

ScansUpTo(n) ==
    [pc : {"idle", "commit", "publish", "retire", "forget", "arm", "exit"},
     owner : {0} \cup Owners, pre : {0} \cup Owners, h : HandoffsUpTo(n),
     armed : BOOLEAN]

EntriesUpTo(n) ==
    [phase : {"none", "arming", "armed", "taken"}, owner : {0} \cup Owners,
     done : 0 .. n, by : 0 .. n]

WorldType ==
    /\ live \in {0} \cup Owners /\ up \subseteq Owners /\ losing \in {0} \cup Owners
    /\ desc \in {0} \cup Exps /\ tried \in 0 .. drawn /\ latch \in 0 .. drawn
    /\ native \in {"idle", "match", "join", "stopping"}
    /\ world \in BOOLEAN /\ drawn \in Nonces

ProbeType == probe \in ProbesUpTo(drawn)
FenceType == fence \in FencesUpTo(drawn)
HandoffType == handoff \in HandoffsUpTo(drawn)
MainType == main \in MainsUpTo(drawn)
ScanType == scan \in ScansUpTo(drawn)
EntryType == entry \in EntriesUpTo(drawn)

TypeInv ==
    /\ WorldType /\ ProbeType /\ FenceType /\ HandoffType
    /\ MainType /\ ScanType /\ EntryType

-----------------------------------------------------------------------------
\* A probe that serves a session names a nonce and, unless the lobby turned out
\* to be an ordinary one, an expedition; only an active one is handed off.
ProbeSound ==
    /\ probe.kind # "none" => probe.nonce # 0
    /\ probe.kind # "none" /\ probe.stage # "Ordinary" => probe.exp # 0
    /\ probe.stage = "HandedOff" => probe.kind = "active" /\ probe.ready

\* So does a handoff; one that is idle is empty.
HandoffSound ==
    /\ handoff.stage = "Idle" => handoff = NoHandoff
    /\ handoff.stage # "Idle" => handoff.obs # 0 /\ handoff.exp # 0

SoundInv == ProbeSound /\ HandoffSound

Working == handoff.stage \notin {"Idle", "Failed"}

\* The main thread begins a handoff.
BeginFlow ==
    /\ main.pc = "open" => handoff.stage = "Idle"
    /\ main.pc \in {"open", "promote", "snap", "bind"} =>
          main.p.kind = "observer" /\ main.p.nonce # 0 /\ main.p.exp # 0
    /\ main.pc \in {"promote", "snap", "bind"} =>
          handoff.stage = "Awaiting" /\ handoff.obs = main.p.nonce

\* It carries one on: no other thread moves it to another stage.
Held(stage) == handoff.stage = stage /\ handoff.obs = main.h.obs

StageFlow ==
    /\ main.pc = "await" => Held("Awaiting")
    /\ main.pc = "fail" => Held("FailClosing")
    /\ main.pc \in {"check", "latch", "adapter", "owner", "verify", "submit"} =>
          Held("Waiting")

\* What it has already done to the game.
WorkFlow ==
    /\ main.pc \in {"adapter", "owner", "verify", "submit"} => latch = main.h.obs
    /\ (main.pc \in {"owner", "verify"} /\ main.ok) \/ main.pc = "submit" =>
          entry.by = main.h.obs
    /\ main.pc = "fail" /\ latch # 0 => latch = entry.done \/ main.h.latch
    /\ main.pc = "fail" /\ main.ok => native = "idle"

FlowInv == BeginFlow /\ StageFlow /\ WorkFlow

-----------------------------------------------------------------------------
\* A set latch belongs to a handoff that will take it back, or that is done.
LatchOwned ==
    latch # 0 => \/ entry.done = latch
                 \/ Working /\ handoff.obs = latch /\ handoff.latch

\* So does a native join; one that was submitted set both.
JoinOwned ==
    native = "join" => entry.done = entry.by \/ (Working /\ handoff.obs = entry.by)

SubmittedOwned ==
    handoff.stage = "Submitted" => latch = handoff.obs /\ entry.by = handoff.obs

OwnerInv == LatchOwned /\ JoinOwned /\ SubmittedOwned

-----------------------------------------------------------------------------
\* While NRSC scans, the lobby stays; an entry of before is given up first.
ScanInv ==
    /\ scan.pc \in {"publish", "retire", "forget", "arm"} => scan.owner = live
    /\ scan.pc = "commit" /\ scan.pre # 0 => entry.phase # "armed"

\* The fence guards the entry: with no nonce while the scan arms, so that no
\* attempt can clear it, and later only for as long as the lobby stays and the
\* probe that is asked is one of its owner.
EntryInv ==
    /\ entry.phase \in {"arming", "armed"} =>
          fence.kind # "None" /\ fence.owner = entry.owner
    /\ entry.phase = "arming" => fence.nonce = 0
    /\ entry.phase = "armed" =>
          live = entry.owner /\ (probe.asked => probe.owner = entry.owner)

IInv == TypeInv /\ SoundInv /\ FlowInv /\ OwnerInv /\ ScanInv /\ EntryInv

-----------------------------------------------------------------------------
\* Lemmas about the records.

LEMMA ConstantFacts ==
    /\ MaxOwner \in Nat \ {0} /\ MaxExp \in Nat \ {0}
    /\ MaxAuth \in Nat \ {0} /\ MaxNonce \in Nat \ {0}
    /\ 0 \notin Owners /\ 0 \notin Exps /\ 0 \notin Auths
    /\ SavedExp \in Exps
BY BoundsAssumption DEF Owners, Exps, Auths, SavedExp

\* More nonces are drawn: what held before still does.
LEMMA RecordsGrow ==
    ASSUME NEW n \in Nat, NEW m \in Nat, n <= m
    PROVE  /\ ProbesUpTo(n) \subseteq ProbesUpTo(m)
           /\ HandoffsUpTo(n) \subseteq HandoffsUpTo(m)
           /\ FencesUpTo(n) \subseteq FencesUpTo(m)
           /\ MainsUpTo(n) \subseteq MainsUpTo(m)
           /\ ScansUpTo(n) \subseteq ScansUpTo(m)
           /\ EntriesUpTo(n) \subseteq EntriesUpTo(m)
<1>1. 0 .. n \subseteq 0 .. m
  OBVIOUS
<1>2. ProbesUpTo(n) \subseteq ProbesUpTo(m)
  BY <1>1 DEF ProbesUpTo
<1>3. HandoffsUpTo(n) \subseteq HandoffsUpTo(m)
  BY <1>1 DEF HandoffsUpTo
<1>4. FencesUpTo(n) \subseteq FencesUpTo(m) /\ EntriesUpTo(n) \subseteq EntriesUpTo(m)
  BY <1>1 DEF FencesUpTo, EntriesUpTo
<1>5. MainsUpTo(n) \subseteq MainsUpTo(m)
  BY <1>2, <1>3 DEF MainsUpTo
<1>6. ScansUpTo(n) \subseteq ScansUpTo(m)
  BY <1>3 DEF ScansUpTo
<1>q. QED
  BY <1>2, <1>3, <1>4, <1>5, <1>6

LEMMA EmptyRecords ==
    ASSUME NEW n \in Nat
    PROVE  /\ NoProbe \in ProbesUpTo(n) /\ NoFence \in FencesUpTo(n)
           /\ NoHandoff \in HandoffsUpTo(n) /\ Resting \in MainsUpTo(n)
           /\ NoScan \in ScansUpTo(n) /\ NoEntry \in EntriesUpTo(n)
<1>1. NoProbe \in ProbesUpTo(n) /\ NoHandoff \in HandoffsUpTo(n)
  BY DEF NoProbe, NoHandoff, ProbesUpTo, HandoffsUpTo
<1>2. Resting \in MainsUpTo(n) /\ NoScan \in ScansUpTo(n)
  BY <1>1 DEF Resting, NoScan, MainsUpTo, ScansUpTo, Places
<1>3. NoFence \in FencesUpTo(n) /\ NoEntry \in EntriesUpTo(n)
  BY DEF NoFence, NoEntry, FencesUpTo, EntriesUpTo
<1>q. QED
  BY <1>1, <1>2, <1>3

LEMMA InitKeeps == Init => IInv
<1> SUFFICES ASSUME Init PROVE IInv
  OBVIOUS
<1>1. drawn = 0 /\ 0 \in Nat /\ 0 \in Nonces
  BY ConstantFacts DEF Init, Nonces
<1>2. TypeInv
  <2>1. WorldType
    <3>1. 0 \in 0 .. drawn
      BY <1>1
    <3>q. QED
      BY <1>1, <3>1 DEF Init, WorldType
  <2>2. probe \in ProbesUpTo(drawn) /\ fence \in FencesUpTo(drawn) /\ handoff \in HandoffsUpTo(drawn)
    BY <1>1, EmptyRecords DEF Init
  <2>3. main \in MainsUpTo(drawn) /\ scan \in ScansUpTo(drawn) /\ entry \in EntriesUpTo(drawn)
    BY <1>1, EmptyRecords DEF Init
  <2>q. QED
    BY <2>1, <2>2, <2>3 DEF TypeInv, ProbeType, FenceType, HandoffType, MainType, ScanType, EntryType
<1>3. SoundInv
  BY DEF Init, SoundInv, ProbeSound, HandoffSound, NoProbe, NoHandoff
<1>4. FlowInv
  BY DEF Init, FlowInv, BeginFlow, StageFlow, WorkFlow, Resting
<1>5. OwnerInv
  BY DEF Init, OwnerInv, LatchOwned, JoinOwned, SubmittedOwned, NoHandoff
<1>6. ScanInv /\ EntryInv
  BY DEF Init, ScanInv, EntryInv, NoScan, NoEntry
<1>q. QED
  BY <1>2, <1>3, <1>4, <1>5, <1>6 DEF IInv

-----------------------------------------------------------------------------
\* What a step leaves alone.

\* The handoff but for its active nonce, what it did to the game, and the thread
\* that works on it.
LEMMA FlowFrame ==
    ASSUME IInv, handoff'.stage = handoff.stage, handoff'.obs = handoff.obs,
           handoff'.latch = handoff.latch,
           main' = main, native' = native, latch' = latch,
           entry'.done = entry.done, entry'.by = entry.by
    PROVE  FlowInv' /\ OwnerInv'
BY DEF IInv, FlowInv, BeginFlow, StageFlow, WorkFlow, Held, OwnerInv, LatchOwned,
   JoinOwned, SubmittedOwned, Working

\* The entry, its fence and its lobby.
LEMMA EntryFrame ==
    ASSUME IInv, fence' = fence, entry' = entry, live' = live, scan' = scan,
           probe'.asked => probe.asked /\ probe'.owner = probe.owner
    PROVE  ScanInv' /\ EntryInv'
BY DEF IInv, ScanInv, EntryInv

\* The records that other nonces do not touch.
LEMMA TypeFrame ==
    ASSUME IInv, drawn' \in Nonces, drawn <= drawn'
    PROVE  /\ drawn \in Nat /\ drawn' \in Nat
           /\ UNCHANGED <<live, up, desc, tried, native, world, latch>>
              /\ losing' \in {0} \cup Owners => WorldType'
           /\ probe' = probe => ProbeType'
           /\ fence' = fence => FenceType'
           /\ handoff' = handoff => HandoffType'
           /\ main' = main => MainType'
           /\ scan' = scan => ScanType'
           /\ entry' = entry => EntryType'
<1>1. drawn \in Nat /\ drawn' \in Nat
  BY ConstantFacts DEF IInv, TypeInv, WorldType, Nonces
<1>2. /\ ProbesUpTo(drawn) \subseteq ProbesUpTo(drawn')
      /\ HandoffsUpTo(drawn) \subseteq HandoffsUpTo(drawn')
      /\ FencesUpTo(drawn) \subseteq FencesUpTo(drawn')
      /\ MainsUpTo(drawn) \subseteq MainsUpTo(drawn')
      /\ ScansUpTo(drawn) \subseteq ScansUpTo(drawn')
      /\ EntriesUpTo(drawn) \subseteq EntriesUpTo(drawn')
  BY <1>1, RecordsGrow
<1>3. UNCHANGED <<live, up, desc, tried, native, world, latch>>
              /\ losing' \in {0} \cup Owners => WorldType'
  BY <1>1 DEF IInv, TypeInv, WorldType
<1>q. QED
  BY <1>1, <1>2, <1>3 DEF IInv, TypeInv, ProbeType, FenceType, HandoffType, MainType,
     ScanType, EntryType

\* A step that draws no nonce.
LEMMA SameTypes ==
    ASSUME IInv, drawn' = drawn
    PROVE  /\ drawn \in Nat /\ drawn \in Nonces
           /\ UNCHANGED <<live, up, losing, desc, tried, native, world, latch>> => WorldType'
           /\ probe' = probe => ProbeType'
           /\ fence' = fence => FenceType'
           /\ handoff' = handoff => HandoffType'
           /\ main' = main => MainType'
           /\ scan' = scan => ScanType'
           /\ entry' = entry => EntryType'
<1>1. drawn \in Nat /\ drawn \in Nonces
  BY ConstantFacts DEF IInv, TypeInv, WorldType, Nonces
<1>2. losing \in {0} \cup Owners
  BY DEF IInv, TypeInv, WorldType
<1>q. QED
  BY <1>1, <1>2, TypeFrame

-----------------------------------------------------------------------------
\* The control thread.

LEMMA AskKeeps ==
    ASSUME IInv, Ask
    PROVE  IInv'
<1> USE DEF IInv
<1>1. TypeInv'
  BY DEF Ask, TypeInv, WorldType, ProbeType, FenceType, HandoffType, MainType,
     ScanType, EntryType, ProbesUpTo
<1>2. SoundInv'
  BY DEF Ask, SoundInv, ProbeSound, HandoffSound, TypeInv, ProbeType, ProbesUpTo
<1>3. FlowInv' /\ OwnerInv'
  BY FlowFrame DEF Ask
<1>4. ScanInv' /\ EntryInv'
  BY DEF Ask, ScanInv, EntryInv, Reachable, TypeInv, ProbeType, ProbesUpTo
<1>q. QED
  BY <1>1, <1>2, <1>3, <1>4

LEMMA RespondKeeps ==
    ASSUME IInv, Respond
    PROVE  IInv'
<1> USE DEF IInv
<1>1. PICK a \in Answers :
         /\ Acceptable(a)
         /\ probe' = [probe EXCEPT !.stage = StageOf(a), !.exp = a.exp,
                           !.auth = a.auth, !.running = a.running,
                           !.aged = FALSE,
                           !.asked = StageOf(a) = "Pending"]
  BY DEF Respond
<1>2. /\ fence' = Applied(fence, probe, probe')
      /\ entry' = Classified(entry)
      /\ probe.stage = "Pending" /\ probe.asked
      /\ UNCHANGED <<live, up, losing, handoff, desc, tried, native, world, latch, main, scan, drawn>>
  BY DEF Respond
<1>3. /\ StageOf(a) \in {"Pending", "Authorized", "Ordinary", "Rejected"}
      /\ a.exp \in {0} \cup Exps /\ a.auth \in {0} \cup Auths /\ a.running \in BOOLEAN
      /\ a.exp = 0 => StageOf(a) = "Ordinary"
  BY ConstantFacts DEF Answers, StageOf
<1>4. probe \in ProbesUpTo(drawn) /\ fence \in FencesUpTo(drawn) /\ entry \in EntriesUpTo(drawn)
  BY DEF TypeInv, ProbeType, FenceType, EntryType
<1>5. /\ probe' \in ProbesUpTo(drawn)
      /\ probe'.kind = probe.kind /\ probe'.nonce = probe.nonce /\ probe'.owner = probe.owner
      /\ probe'.stage = StageOf(a) /\ probe'.exp = a.exp
  <2>1. PICK asked \in BOOLEAN : asked = (StageOf(a) = "Pending")
    OBVIOUS
  <2>q. QED
    BY <1>1, <1>3, <1>4, <2>1, ZenonT(60) DEF ProbesUpTo, Terminal, Granted
<1>6. fence' \in FencesUpTo(drawn)
  <2>1. CASE probe'.stage = "Ordinary"
    <3>1. fence' = ClearExact(fence, probe)
      BY <1>2, <2>1 DEF Applied
    <3>2. drawn \in Nat
      BY DEF TypeInv, WorldType, Nonces
    <3>q. QED
      BY <1>4, <3>1, <3>2, EmptyRecords DEF ClearExact
  <2>2. CASE probe'.stage # "Ordinary"
    <3>1. PICK kind \in {"Pending", "Authorized", "FailClosed"} :
             kind = CASE probe'.stage = "Authorized" -> "Authorized"
                      [] probe'.stage = "Rejected" -> "FailClosed"
                      [] OTHER -> "Pending"
      OBVIOUS
    <3>2. PICK e \in {0} \cup Exps : e = IF probe'.exp # 0 THEN probe'.exp ELSE probe.exp
      BY <1>4, <1>5 DEF ProbesUpTo
    <3>3. fence' = IF e = 0 THEN fence ELSE Fence(kind, probe'.nonce, probe'.owner, e)
      BY <1>2, <2>2, <3>1, <3>2 DEF Applied
    <3>q. QED
      BY <1>4, <1>5, <3>1, <3>2, <3>3 DEF Fence, FencesUpTo, ProbesUpTo
  <2>q. QED
    BY <2>1, <2>2
<1>7. entry' \in EntriesUpTo(drawn) /\ entry'.done = entry.done /\ entry'.by = entry.by
  BY <1>2, <1>4 DEF Classified, Released, EntriesUpTo
<1>8. TypeInv'
  BY <1>2, <1>5, <1>6, <1>7 DEF TypeInv, WorldType, ProbeType, FenceType, HandoffType, MainType,
     ScanType, EntryType
<1>9. SoundInv'
  BY <1>2, <1>3, <1>5 DEF SoundInv, ProbeSound, HandoffSound
<1>10. FlowInv' /\ OwnerInv'
  BY <1>2, <1>7, FlowFrame
<1>11. ScanInv' /\ EntryInv'
  <2>1. CASE entry.phase = "arming" /\ fence' # fence
    BY <1>2, <1>4, <2>1 DEF ScanInv, EntryInv, Classified, EntriesUpTo
  <2>2. CASE ~(entry.phase = "arming" /\ fence' # fence)
    <3>1. entry' = IF probe'.stage = "Ordinary" THEN Released(entry, probe) ELSE entry
      BY <1>2, <2>2 DEF Classified
    <3>2. CASE probe'.stage = "Ordinary"
      <4>1. fence' = ClearExact(fence, probe) /\ entry' = Released(entry, probe)
        BY <1>2, <3>1, <3>2 DEF Applied
      <4>q. QED
        BY <1>2, <1>4, <1>5, <4>1 DEF ScanInv, EntryInv, ClearExact, Released, Exact, SameTuple, EntriesUpTo
    <3>3. CASE probe'.stage # "Ordinary"
      BY <1>2, <1>3, <1>4, <1>5, <2>2, <3>1, <3>3 DEF ScanInv, EntryInv, Applied, Fence
    <3>q. QED
      BY <3>2, <3>3
  <2>q. QED
    BY <2>1, <2>2
<1>q. QED
  BY <1>8, <1>9, <1>10, <1>11

LEMMA TimeOutKeeps ==
    ASSUME IInv, TimeOut
    PROVE  IInv'
<1>1. ProbeType' /\ SoundInv'
  BY DEF IInv, TimeOut, SoundInv, ProbeSound, HandoffSound, TypeInv, ProbeType,
     ProbesUpTo, Terminal
<1>2. TypeInv'
  BY <1>1, SameTypes DEF TimeOut, TypeInv
<1>3. FlowInv' /\ OwnerInv'
  BY FlowFrame DEF TimeOut
<1>4. probe'.asked => probe.asked /\ probe'.owner = probe.owner
  BY DEF IInv, TimeOut, TypeInv, ProbeType, ProbesUpTo
<1>5. ScanInv' /\ EntryInv'
  BY <1>4, EntryFrame DEF TimeOut
<1>q. QED
  BY <1>1, <1>2, <1>3, <1>5 DEF IInv

LEMMA AgeKeeps ==
    ASSUME IInv, Age
    PROVE  IInv'
<1>1. ProbeType' /\ SoundInv'
  BY DEF IInv, Age, SoundInv, ProbeSound, HandoffSound, TypeInv, ProbeType, ProbesUpTo
<1>2. TypeInv'
  BY <1>1, SameTypes DEF Age, TypeInv
<1>3. FlowInv' /\ OwnerInv'
  BY FlowFrame DEF Age
<1>4. probe'.asked => probe.asked /\ probe'.owner = probe.owner
  BY DEF IInv, Age, TypeInv, ProbeType, ProbesUpTo
<1>5. ScanInv' /\ EntryInv'
  BY <1>4, EntryFrame DEF Age
<1>q. QED
  BY <1>1, <1>2, <1>3, <1>5 DEF IInv

\* A new nonce is rebound in the fence of the old one only, and never in the
\* fence of a scan that is still arming; a handoff gets another active nonce.
LEMMA RebindFacts ==
    ASSUME NEW n \in Nat, NEW f \in FencesUpTo(n), NEW h \in HandoffsUpTo(n),
           NEW before \in ProbesUpTo(n), NEW after \in ProbesUpTo(n)
    PROVE  /\ RebindFence(f, before, after) \in FencesUpTo(n)
           /\ RebindFence(f, before, after).kind = f.kind
           /\ RebindFence(f, before, after).owner = f.owner
           /\ f.nonce = 0 => RebindFence(f, before, after).nonce = 0
           /\ RebindHandoff(h, before, after) \in HandoffsUpTo(n)
           /\ RebindHandoff(h, before, after).stage = h.stage
           /\ RebindHandoff(h, before, after).obs = h.obs
           /\ RebindHandoff(h, before, after).exp = h.exp
           /\ RebindHandoff(h, before, after).latch = h.latch
           /\ h.stage = "Idle" => RebindHandoff(h, before, after) = h
<1>1. after.nonce \in 0 .. n
  BY DEF ProbesUpTo
<1>2. PICK new : new = [f EXCEPT !.nonce = after.nonce]
  OBVIOUS
<1>3. new \in FencesUpTo(n) /\ new.kind = f.kind /\ new.owner = f.owner
  BY <1>1, <1>2 DEF FencesUpTo
<1>4. RebindFence(f, before, after) = new \/ RebindFence(f, before, after) = f
  BY <1>2 DEF RebindFence
<1>5. f.nonce = 0 => RebindFence(f, before, after) = f
  BY DEF RebindFence
<1>6. PICK now : now = [h EXCEPT !.act = after.nonce]
  OBVIOUS
<1>7. /\ now \in HandoffsUpTo(n)
      /\ now.stage = h.stage /\ now.obs = h.obs /\ now.exp = h.exp /\ now.latch = h.latch
  BY <1>1, <1>6 DEF HandoffsUpTo
<1>8. /\ RebindHandoff(h, before, after) = now \/ RebindHandoff(h, before, after) = h
      /\ h.stage = "Idle" => RebindHandoff(h, before, after) = h
  BY <1>6 DEF RebindHandoff
<1>q. QED
  BY <1>3, <1>4, <1>5, <1>7, <1>8

LEMMA RotateFacts ==
    ASSUME IInv, Rotate
    PROVE  /\ drawn' \in Nonces /\ drawn <= drawn'
           /\ ProbeType' /\ FenceType' /\ HandoffType'
           /\ HandoffSound'
           /\ probe.stage \notin Terminal => ProbeSound'
           /\ fence'.kind = fence.kind /\ fence'.owner = fence.owner
           /\ fence.nonce = 0 => fence'.nonce = 0
           /\ handoff'.stage = handoff.stage /\ handoff'.obs = handoff.obs
           /\ handoff'.latch = handoff.latch
           /\ ~probe'.asked
<1>1. /\ drawn \in Nat /\ drawn' \in Nat /\ drawn' = drawn + 1 /\ drawn' \in Nonces
      /\ drawn \in 0 .. drawn' /\ drawn' \in 0 .. drawn' /\ drawn <= drawn'
  BY ConstantFacts DEF IInv, TypeInv, WorldType, Rotate, Nonces
<1>2. /\ probe \in ProbesUpTo(drawn') /\ fence \in FencesUpTo(drawn')
      /\ handoff \in HandoffsUpTo(drawn')
  BY <1>1, RecordsGrow DEF IInv, TypeInv, ProbeType, FenceType, HandoffType
<1>3. probe' = [probe EXCEPT !.stage = "Pending", !.nonce = drawn', !.auth = 0,
                        !.running = FALSE, !.aged = FALSE, !.kept = FALSE,
                        !.asked = FALSE]
  BY <1>1 DEF Rotate, Rotated
<1>4. /\ probe' \in ProbesUpTo(drawn') /\ ~probe'.asked
      /\ probe'.kind = probe.kind /\ probe'.exp = probe.exp
      /\ probe'.nonce = drawn' /\ probe'.stage = "Pending"
  BY <1>1, <1>2, <1>3 DEF ProbesUpTo
<1>5. /\ fence' = RebindFence(fence, probe, probe')
      /\ handoff' = RebindHandoff(handoff, probe, probe')
  BY DEF Rotate
<1>6. PICK old, new, f, h : old = probe /\ new = probe' /\ f = fence /\ h = handoff
  OBVIOUS
<1>7. PICK n : n = drawn'
  OBVIOUS
<1>8. /\ n \in Nat /\ f \in FencesUpTo(n) /\ h \in HandoffsUpTo(n)
      /\ old \in ProbesUpTo(n) /\ new \in ProbesUpTo(n)
  BY <1>1, <1>2, <1>4, <1>6, <1>7
<1>9. /\ fence' \in FencesUpTo(drawn') /\ handoff' \in HandoffsUpTo(drawn')
      /\ fence'.kind = fence.kind /\ fence'.owner = fence.owner
      /\ fence.nonce = 0 => fence'.nonce = 0
      /\ handoff'.stage = handoff.stage /\ handoff'.obs = handoff.obs
      /\ handoff'.exp = handoff.exp /\ handoff'.latch = handoff.latch
      /\ handoff.stage = "Idle" => handoff' = handoff
  BY <1>5, <1>6, <1>7, <1>8, RebindFacts
<1>10. HandoffSound'
  BY <1>9 DEF IInv, SoundInv, HandoffSound
<1>11. probe.stage \notin Terminal => ProbeSound'
  BY <1>1, <1>4 DEF IInv, SoundInv, ProbeSound, Terminal
<1>q. QED
  BY <1>1, <1>4, <1>9, <1>10, <1>11 DEF ProbeType, FenceType, HandoffType

\* Whatever else a rotation comes with leaves the other threads alone.
LEMMA RotateKeeps ==
    ASSUME IInv, Rotate, probe.stage \notin Terminal, losing' \in {0} \cup Owners,
           UNCHANGED <<live, up, desc, tried, native, world, latch, main, scan, entry>>
    PROVE  IInv'
<1>1. TypeInv'
  <2>1. WorldType'
    BY RotateFacts, TypeFrame
  <2>q. QED
    BY <2>1, RotateFacts, TypeFrame DEF TypeInv
<1>2. SoundInv'
  BY RotateFacts DEF SoundInv
<1>3. FlowInv' /\ OwnerInv'
  BY RotateFacts, FlowFrame
<1>4. ScanInv' /\ EntryInv'
  BY RotateFacts DEF IInv, ScanInv, EntryInv
<1>q. QED
  BY <1>1, <1>2, <1>3, <1>4 DEF IInv

LEMMA RearmKeeps ==
    ASSUME IInv, Rearm
    PROVE  IInv'
<1>1. probe.stage \notin Terminal /\ losing' \in {0} \cup Owners
  BY DEF Rearm, Granted, Terminal, IInv, TypeInv, WorldType
<1>q. QED
  BY <1>1, RotateKeeps DEF Rearm

\* The world is in: the fence of this very attempt ends, and a submitted handoff
\* is done.  An entry that the fence guards is one of this owner, so it ends too.
LEMMA CompleteKeeps ==
    ASSUME IInv, Complete
    PROVE  IInv'
<1>1. /\ probe \in ProbesUpTo(drawn) /\ fence \in FencesUpTo(drawn)
      /\ entry \in EntriesUpTo(drawn) /\ handoff \in HandoffsUpTo(drawn)
      /\ drawn \in Nat /\ drawn' = drawn
  BY ConstantFacts DEF IInv, TypeInv, WorldType, ProbeType, FenceType, HandoffType,
     EntryType, Nonces, Complete
<1>2. /\ probe' \in ProbesUpTo(drawn) /\ probe'.kind = probe.kind
      /\ probe'.nonce = probe.nonce /\ probe'.exp = probe.exp /\ probe'.stage = "Completed"
      /\ probe'.asked = probe.asked /\ probe'.owner = probe.owner
  BY <1>1 DEF Complete, ProbesUpTo, Terminal
<1>3. fence' \in FencesUpTo(drawn) /\ fence' = ClearExact(fence, probe)
  BY <1>1, EmptyRecords DEF Complete, ClearExact
<1>4. /\ handoff' \in HandoffsUpTo(drawn)
      /\ handoff' = IF SubmittedBy(handoff, probe) THEN NoHandoff ELSE handoff
  BY <1>1, EmptyRecords DEF Complete, Retired
<1>5. /\ entry' \in EntriesUpTo(drawn) /\ entry'.by = entry.by
      /\ entry'.done = IF SubmittedBy(handoff, probe) THEN handoff.obs ELSE entry.done
      /\ Exact(fence, probe) /\ entry.owner = probe.owner => entry'.phase = "none"
      /\ entry'.phase = "none" \/ (entry'.phase = entry.phase /\ entry'.owner = entry.owner)
  <2>1. PICK rel : rel = Released(entry, probe)
    OBVIOUS
  <2>2. /\ rel \in EntriesUpTo(drawn) /\ rel.by = entry.by /\ rel.done = entry.done
        /\ Exact(fence, probe) /\ entry.owner = probe.owner => rel.phase = "none"
        /\ rel.phase = "none" \/ (rel.phase = entry.phase /\ rel.owner = entry.owner)
    BY <1>1, <2>1 DEF Released, EntriesUpTo
  <2>3. PICK done \in 0 .. drawn :
           done = IF SubmittedBy(handoff, probe) THEN handoff.obs ELSE rel.done
    BY <1>1, <2>2 DEF EntriesUpTo, HandoffsUpTo
  <2>4. entry' = [rel EXCEPT !.done = done]
    BY <2>1, <2>2, <2>3 DEF Complete, Finished, EntriesUpTo
  <2>q. QED
    BY <2>2, <2>3, <2>4 DEF EntriesUpTo
<1>6. TypeInv'
  BY <1>1, <1>2, <1>3, <1>4, <1>5, SameTypes DEF TypeInv, ProbeType, FenceType,
     HandoffType, EntryType, Complete
<1>7. SoundInv'
  <2>1. ProbeSound'
    BY <1>2 DEF IInv, SoundInv, ProbeSound, Complete
  <2>2. HandoffSound'
    <3>1. NoHandoff.stage = "Idle"
      BY DEF NoHandoff
    <3>q. QED
      BY <1>4, <3>1 DEF IInv, SoundInv, HandoffSound
  <2>q. QED
    BY <2>1, <2>2 DEF SoundInv
<1>8. FlowInv' /\ OwnerInv'
  <2>1. CASE SubmittedBy(handoff, probe)
    <3>1. handoff.stage = "Submitted" /\ handoff' = NoHandoff /\ entry'.done = handoff.obs
      BY <1>4, <1>5, <2>1 DEF SubmittedBy
    <3>2. latch = handoff.obs /\ entry.by = handoff.obs
      BY <3>1 DEF IInv, OwnerInv, SubmittedOwned
    <3>3. FlowInv'
      BY <3>1 DEF IInv, Complete, FlowInv, BeginFlow, StageFlow, WorkFlow, Held
    <3>q. QED
      BY <1>5, <3>1, <3>2, <3>3 DEF Complete, OwnerInv, LatchOwned, JoinOwned,
         SubmittedOwned, NoHandoff
  <2>2. CASE ~SubmittedBy(handoff, probe)
    BY <1>4, <1>5, <2>2, FlowFrame DEF Complete
  <2>q. QED
    BY <2>1, <2>2
<1>9. ScanInv' /\ EntryInv'
  <2>1. entry.phase \in {"arming", "armed"} =>
           (Exact(fence, probe) => entry.owner = probe.owner)
    BY DEF IInv, EntryInv, Exact, SameTuple
  <2>2. ~Exact(fence, probe) => fence' = fence
    BY <1>3 DEF ClearExact
  <2>3. live' = live /\ scan' = scan
    BY DEF Complete
  <2>q. QED
    BY <1>2, <1>5, <2>1, <2>2, <2>3 DEF IInv, ScanInv, EntryInv
<1>q. QED
  BY <1>6, <1>7, <1>8, <1>9 DEF IInv

-----------------------------------------------------------------------------
\* Peers and lobbies.

LEMMA LosePeerKeeps ==
    ASSUME IInv, NEW o \in Owners, LosePeer(o)
    PROVE  IInv'
<1>1. TypeInv'
  <2>1. WorldType'
    BY DEF IInv, TypeInv, WorldType, LosePeer
  <2>q. QED
    BY <2>1, SameTypes DEF TypeInv, LosePeer
<1>2. SoundInv'
  BY DEF IInv, SoundInv, ProbeSound, HandoffSound, LosePeer
<1>3. FlowInv' /\ OwnerInv'
  BY FlowFrame DEF LosePeer
<1>4. ScanInv' /\ EntryInv'
  BY EntryFrame DEF LosePeer
<1>q. QED
  BY <1>1, <1>2, <1>3, <1>4 DEF IInv

LEMMA RegisterPeerKeeps ==
    ASSUME IInv, NEW o \in Owners, RegisterPeer(o)
    PROVE  IInv'
<1>1. TypeInv'
  <2>1. WorldType'
    BY DEF IInv, TypeInv, WorldType, RegisterPeer
  <2>q. QED
    BY <2>1, SameTypes DEF TypeInv, RegisterPeer
<1>2. SoundInv'
  BY DEF IInv, SoundInv, ProbeSound, HandoffSound, RegisterPeer
<1>3. FlowInv' /\ OwnerInv'
  BY FlowFrame DEF RegisterPeer
<1>4. ScanInv' /\ EntryInv'
  BY EntryFrame DEF RegisterPeer
<1>q. QED
  BY <1>1, <1>2, <1>3, <1>4 DEF IInv

LEMMA LoseProbeKeeps ==
    ASSUME IInv, LoseProbe
    PROVE  IInv'
<1>1. losing' \in {0} \cup Owners
  BY DEF LoseProbe
<1>2. CASE probe.owner = losing /\ probe.stage \in Terminal /\ probe' = NoProbe
           /\ UNCHANGED <<fence, handoff, drawn>>
  <2>1. TypeInv'
    BY <1>1, <1>2, SameTypes, TypeFrame, EmptyRecords DEF LoseProbe, TypeInv, ProbeType
  <2>2. SoundInv'
    BY <1>2 DEF IInv, SoundInv, ProbeSound, HandoffSound, NoProbe
  <2>3. FlowInv' /\ OwnerInv'
    BY <1>2, FlowFrame DEF LoseProbe
  <2>4. ScanInv' /\ EntryInv'
    BY <1>2, EntryFrame DEF LoseProbe, NoProbe
  <2>q. QED
    BY <2>1, <2>2, <2>3, <2>4 DEF IInv
<1>3. CASE probe.owner = losing /\ probe.stage \notin Terminal /\ Rotate
  BY <1>1, <1>3, RotateKeeps DEF LoseProbe
<1>4. CASE probe.owner # losing /\ UNCHANGED <<probe, fence, handoff, drawn>>
  <2>1. TypeInv'
    BY <1>1, <1>4, SameTypes, TypeFrame DEF LoseProbe, TypeInv
  <2>2. SoundInv'
    BY <1>4 DEF IInv, SoundInv, ProbeSound, HandoffSound
  <2>3. FlowInv' /\ OwnerInv'
    BY <1>4, FlowFrame DEF LoseProbe
  <2>4. ScanInv' /\ EntryInv'
    BY <1>4, EntryFrame DEF LoseProbe
  <2>q. QED
    BY <2>1, <2>2, <2>3, <2>4 DEF IInv
<1>q. QED
  BY <1>2, <1>3, <1>4 DEF LoseProbe

\* The lobby is left, or it has another owner: a guarded entry of that owner ends.
LEMMA LeftFacts ==
    ASSUME IInv, NEW o
    PROVE  /\ Left(entry, o) \in EntriesUpTo(drawn)
           /\ Left(entry, o).done = entry.done /\ Left(entry, o).by = entry.by
           /\ (Left(entry, o) = entry /\ entry.owner = o) \/ Left(entry, o).phase = "none"
BY DEF IInv, TypeInv, EntryType, EntriesUpTo, Left

LEMMA MoveKeeps ==
    ASSUME IInv, NEW o \in {0} \cup Owners, Move(o)
    PROVE  IInv'
<1>1. /\ entry' \in EntriesUpTo(drawn) /\ entry'.done = entry.done /\ entry'.by = entry.by
      /\ (entry' = entry /\ entry.owner = o) \/ entry'.phase = "none"
  BY LeftFacts DEF Move
<1>2. TypeInv'
  <2>1. WorldType'
    BY DEF IInv, TypeInv, WorldType, Move
  <2>q. QED
    BY <1>1, <2>1, SameTypes DEF TypeInv, Move, EntryType
<1>3. SoundInv'
  BY DEF IInv, SoundInv, ProbeSound, HandoffSound, Move
<1>4. FlowInv' /\ OwnerInv'
  BY <1>1, FlowFrame DEF Move
<1>5. ScanInv' /\ EntryInv'
  BY <1>1 DEF IInv, ScanInv, EntryInv, Move
<1>q. QED
  BY <1>2, <1>3, <1>4, <1>5 DEF IInv

-----------------------------------------------------------------------------
\* The NRSC thread.

LEMMA ScanEnterKeeps ==
    ASSUME IInv, NEW pre \in {0} \cup Owners, ScanEnter(pre)
    PROVE  IInv'
<1>1. drawn' = drawn /\ drawn \in Nat
  BY SameTypes DEF ScanEnter
<1>2. scan' \in ScansUpTo(drawn) /\ scan'.pc = "commit" /\ scan'.pre = pre
  BY <1>1, EmptyRecords DEF ScanEnter, NoScan, ScansUpTo
<1>3. fence' \in FencesUpTo(drawn)
  BY <1>1, ConstantFacts DEF ScanEnter, Fence, FencesUpTo, IInv, TypeInv, FenceType
<1>4. pre # 0 => fence'.kind = "Pending" /\ fence'.owner = pre /\ fence'.nonce = 0
  BY DEF ScanEnter, Fence
<1>5. /\ entry' \in EntriesUpTo(drawn) /\ entry'.done = entry.done /\ entry'.by = entry.by
      /\ pre # 0 => entry'.phase = "arming" /\ entry'.owner = pre
  BY DEF ScanEnter, Arming, EntriesUpTo, IInv, TypeInv, EntryType
<1>6. TypeInv'
  BY <1>1, <1>2, <1>3, <1>5, SameTypes DEF ScanEnter, TypeInv, ScanType, FenceType, EntryType
<1>7. SoundInv'
  BY DEF IInv, SoundInv, ProbeSound, HandoffSound, ScanEnter
<1>8. FlowInv' /\ OwnerInv'
  BY <1>5, FlowFrame DEF ScanEnter
<1>9. ScanInv' /\ EntryInv'
  <2>1. CASE pre = 0
    BY <1>2, <2>1 DEF IInv, ScanInv, EntryInv, ScanEnter
  <2>2. CASE pre # 0
    BY <1>2, <1>4, <1>5, <2>2 DEF ScanInv, EntryInv
  <2>q. QED
    BY <2>1, <2>2
<1>q. QED
  BY <1>6, <1>7, <1>8, <1>9 DEF IInv

\* A withdrawn fence was that of the entry, or of no entry it guards.
LEMMA WithdrawFacts ==
    ASSUME IInv, NEW o, Withdraw(o)
    PROVE  /\ fence' \in FencesUpTo(drawn) /\ entry' \in EntriesUpTo(drawn)
           /\ entry'.done = entry.done /\ entry'.by = entry.by
           /\ \/ entry'.phase = "none"
              \/ entry' = entry /\ fence' = fence
              \/ entry' = entry /\ entry.phase \notin {"arming", "armed"}
              \/ entry' = entry /\ o = 0
<1>1. /\ fence \in FencesUpTo(drawn) /\ entry \in EntriesUpTo(drawn) /\ drawn \in Nat
  BY ConstantFacts DEF IInv, TypeInv, WorldType, FenceType, EntryType, Nonces
<1>2. fence' \in FencesUpTo(drawn)
  BY <1>1, EmptyRecords DEF Withdraw, ClearForTransport
<1>3. /\ entry' \in EntriesUpTo(drawn) /\ entry'.done = entry.done /\ entry'.by = entry.by
      /\ entry.owner = o /\ o # 0 => entry'.phase = "none"
      /\ ~(entry.owner = o /\ o # 0) => entry' = entry
  BY <1>1 DEF Withdraw, EntriesUpTo
<1>4. fence.owner # o => fence' = fence
  BY DEF Withdraw, ClearForTransport
<1>5. entry.phase \in {"arming", "armed"} => fence.owner = entry.owner
  BY DEF IInv, EntryInv
<1>q. QED
  BY <1>2, <1>3, <1>4, <1>5

\* The scan withdraws what it published, or leaves it.
LEMMA ScanEndKeeps ==
    ASSUME IInv,
           \/ \E o \in Owners : Withdraw(o)
           \/ UNCHANGED <<fence, entry>>,
           scan' \in ScansUpTo(drawn), scan'.pc \in {"idle", "exit"},
           UNCHANGED <<live, up, losing, probe, handoff, desc, tried, native, world,
                       latch, main, drawn>>
    PROVE  IInv'
<1>1. /\ fence' \in FencesUpTo(drawn) /\ entry' \in EntriesUpTo(drawn)
      /\ entry'.done = entry.done /\ entry'.by = entry.by
      /\ \/ entry'.phase \notin {"arming", "armed"}
         \/ entry' = entry /\ fence' = fence
  <2>1. CASE \E o \in Owners : Withdraw(o)
    <3>1. PICK o \in Owners : Withdraw(o)
      BY <2>1
    <3>2. o # 0
      BY <3>1, ConstantFacts
    <3>q. QED
      BY <3>1, <3>2, WithdrawFacts
  <2>2. CASE UNCHANGED <<fence, entry>>
    BY <2>2 DEF IInv, TypeInv, FenceType, EntryType
  <2>q. QED
    BY <2>1, <2>2
<1>2. TypeInv'
  BY <1>1, SameTypes DEF TypeInv, FenceType, EntryType, ScanType
<1>3. SoundInv'
  BY DEF IInv, SoundInv, ProbeSound, HandoffSound
<1>4. FlowInv' /\ OwnerInv'
  BY <1>1, FlowFrame
<1>5. ScanInv' /\ EntryInv'
  BY <1>1 DEF IInv, ScanInv, EntryInv
<1>q. QED
  BY <1>2, <1>3, <1>4, <1>5 DEF IInv

LEMMA ScanFaultKeeps ==
    ASSUME IInv, ScanFault
    PROVE  IInv'
<1>1. scan' \in ScansUpTo(drawn) /\ scan'.pc = "idle"
  BY SameTypes, EmptyRecords DEF ScanFault, NoScan
<1>2. scan.pre \in {0} \cup Owners
  BY DEF IInv, TypeInv, ScanType, ScansUpTo
<1>q. QED
  BY <1>1, <1>2, ScanEndKeeps DEF ScanFault

LEMMA ScanRefuseKeeps ==
    ASSUME IInv, ScanRefuse
    PROVE  IInv'
<1>1. scan' \in ScansUpTo(drawn) /\ scan'.pc = "exit"
  BY DEF ScanRefuse, IInv, TypeInv, ScanType, ScansUpTo
<1>2. scan.owner \in up => scan.owner \in Owners
  BY DEF IInv, TypeInv, WorldType
<1>q. QED
  BY <1>1, <1>2, ScanEndKeeps DEF ScanRefuse

LEMMA ScanExitKeeps ==
    ASSUME IInv, ScanExit
    PROVE  IInv'
<1>1. scan' \in ScansUpTo(drawn) /\ scan'.pc = "idle"
  BY SameTypes, EmptyRecords DEF ScanExit, NoScan
<1>2. scan.pre \in {0} \cup Owners
  BY DEF IInv, TypeInv, ScanType, ScansUpTo
<1>q. QED
  BY <1>1, <1>2, ScanEndKeeps DEF ScanExit

\* NRSC takes the lobby: an entry that is armed for another owner ends with it.
LEMMA ScanCommitKeeps ==
    ASSUME IInv, NEW o \in {live} \cup Owners, ScanCommit(o)
    PROVE  IInv'
<1>1. o \in {0} \cup Owners /\ scan \in ScansUpTo(drawn) /\ drawn' = drawn
  BY DEF IInv, TypeInv, WorldType, ScanType, ScanCommit
<1>2. /\ scan' \in ScansUpTo(drawn) /\ scan'.owner = o /\ scan'.pc # "commit"
  BY <1>1 DEF ScanCommit, ScansUpTo
<1>3. /\ entry' \in EntriesUpTo(drawn) /\ entry'.done = entry.done /\ entry'.by = entry.by
      /\ entry'.phase = "armed" => entry' = entry /\ entry.owner = o
      /\ entry'.phase = "arming" => entry' = entry
  <2>1. CASE scan.pre = 0
    BY <2>1, LeftFacts DEF ScanCommit
  <2>2. CASE scan.pre # 0
    BY <2>2 DEF ScanCommit, IInv, TypeInv, EntryType, ScanInv
  <2>q. QED
    BY <2>1, <2>2
<1>4. TypeInv'
  <2>1. WorldType'
    BY <1>1 DEF IInv, TypeInv, WorldType, ScanCommit
  <2>q. QED
    BY <1>1, <1>2, <1>3, <2>1, SameTypes DEF TypeInv, ScanType, EntryType, ScanCommit
<1>5. SoundInv'
  BY DEF IInv, SoundInv, ProbeSound, HandoffSound, ScanCommit
<1>6. FlowInv' /\ OwnerInv'
  BY <1>3, FlowFrame DEF ScanCommit
<1>7. ScanInv' /\ EntryInv'
  BY <1>2, <1>3 DEF IInv, ScanInv, EntryInv, ScanCommit
<1>q. QED
  BY <1>4, <1>5, <1>6, <1>7 DEF IInv

LEMMA ScanPublishKeeps ==
    ASSUME IInv, ScanPublish
    PROVE  IInv'
<1>1. /\ scan \in ScansUpTo(drawn) /\ drawn' = drawn /\ drawn \in Nat
      /\ scan.owner \in Owners /\ handoff \in HandoffsUpTo(drawn)
      /\ entry \in EntriesUpTo(drawn)
  BY SameTypes DEF IInv, TypeInv, WorldType, ScanType, HandoffType, EntryType, ScanPublish
<1>2. scan' \in ScansUpTo(drawn) /\ scan'.owner = scan.owner /\ scan'.pc \in {"retire", "arm"}
  BY <1>1 DEF ScanPublish, ScansUpTo
<1>3. /\ fence' \in FencesUpTo(drawn) /\ fence'.kind = "Pending"
      /\ fence'.owner = scan.owner /\ fence'.nonce = 0
  BY <1>1, ConstantFacts DEF ScanPublish, Fence, FencesUpTo
<1>4. /\ entry' \in EntriesUpTo(drawn) /\ entry'.done = entry.done /\ entry'.by = entry.by
      /\ entry'.phase = "arming" /\ entry'.owner = scan.owner
  BY <1>1 DEF ScanPublish, Arming, EntriesUpTo
<1>5. TypeInv'
  BY <1>1, <1>2, <1>3, <1>4, SameTypes DEF TypeInv, ScanType, FenceType, EntryType, ScanPublish
<1>6. SoundInv'
  BY DEF IInv, SoundInv, ProbeSound, HandoffSound, ScanPublish
<1>7. FlowInv' /\ OwnerInv'
  BY <1>4, FlowFrame DEF ScanPublish
<1>8. ScanInv' /\ EntryInv'
  BY <1>2, <1>3, <1>4 DEF IInv, ScanInv, EntryInv, ScanPublish
<1>q. QED
  BY <1>5, <1>6, <1>7, <1>8 DEF IInv

\* Only a handoff that has failed is retired: its latch and join are settled.
LEMMA ScanRetireHandoffKeeps ==
    ASSUME IInv, ScanRetireHandoff
    PROVE  IInv'
<1>1. drawn' = drawn /\ drawn \in Nat /\ scan \in ScansUpTo(drawn)
  BY SameTypes DEF IInv, TypeInv, ScanType, ScanRetireHandoff
<1>2. scan' \in ScansUpTo(drawn) /\ scan'.owner = scan.owner /\ scan'.pc \in {"forget", "arm"}
  BY <1>1 DEF ScanRetireHandoff, ScansUpTo
<1>3. \/ handoff' = handoff
      \/ handoff.stage = "Failed" /\ handoff' = NoHandoff
  BY DEF ScanRetireHandoff, StillFailed, Retired
<1>4. TypeInv'
  BY <1>1, <1>2, <1>3, SameTypes, EmptyRecords DEF TypeInv, ScanType, HandoffType, ScanRetireHandoff
<1>5. SoundInv'
  <2>1. ProbeSound' /\ NoHandoff.stage = "Idle"
    BY DEF IInv, SoundInv, ProbeSound, ScanRetireHandoff, NoHandoff
  <2>q. QED
    BY <1>3, <2>1 DEF IInv, SoundInv, HandoffSound
<1>6. FlowInv' /\ OwnerInv'
  <2>1. CASE handoff' = handoff
    BY <2>1, FlowFrame DEF ScanRetireHandoff
  <2>2. CASE handoff.stage = "Failed" /\ handoff' = NoHandoff
    BY <2>2 DEF IInv, FlowInv, BeginFlow, StageFlow, WorkFlow, Held, OwnerInv, LatchOwned,
       JoinOwned, SubmittedOwned, Working, NoHandoff, ScanRetireHandoff
  <2>q. QED
    BY <1>3, <2>1, <2>2
<1>7. ScanInv' /\ EntryInv'
  BY <1>2 DEF IInv, ScanInv, EntryInv, ScanRetireHandoff
<1>q. QED
  BY <1>4, <1>5, <1>6, <1>7 DEF IInv

LEMMA ScanForgetProbeKeeps ==
    ASSUME IInv, ScanForgetProbe
    PROVE  IInv'
<1>1. drawn' = drawn /\ drawn \in Nat /\ scan \in ScansUpTo(drawn)
  BY SameTypes DEF IInv, TypeInv, ScanType, ScanForgetProbe
<1>2. scan' \in ScansUpTo(drawn) /\ scan'.owner = scan.owner /\ scan'.pc = "arm"
  BY <1>1 DEF ScanForgetProbe, ScansUpTo
<1>3. probe' = NoProbe \/ probe' = probe
  BY DEF ScanForgetProbe
<1>4. TypeInv'
  BY <1>1, <1>2, <1>3, SameTypes, EmptyRecords DEF TypeInv, ScanType, ProbeType, ScanForgetProbe
<1>5. SoundInv'
  BY <1>3 DEF IInv, SoundInv, ProbeSound, HandoffSound, ScanForgetProbe, NoProbe
<1>6. FlowInv' /\ OwnerInv'
  BY FlowFrame DEF ScanForgetProbe
<1>7. ScanInv' /\ EntryInv'
  BY <1>2, <1>3 DEF IInv, ScanInv, EntryInv, ScanForgetProbe, NoProbe
<1>q. QED
  BY <1>4, <1>5, <1>6, <1>7 DEF IInv

\* What a new probe is, whoever arms it.
LEMMA ArmedFacts ==
    ASSUME NEW kind \in {"observer", "active"}, NEW o \in {0} \cup Owners,
           NEW e \in {0} \cup Exps, IInv, drawn < MaxNonce, drawn' = drawn + 1
    PROVE  /\ drawn' \in Nonces /\ drawn' \in Nat /\ drawn' \in 0 .. drawn' /\ drawn <= drawn'
           /\ drawn' # 0
           /\ Armed(kind, o, e) \in ProbesUpTo(drawn')
           /\ Armed(kind, o, e).kind = kind /\ Armed(kind, o, e).nonce = drawn'
           /\ Armed(kind, o, e).owner = o /\ Armed(kind, o, e).exp = e
           /\ Armed(kind, o, e).stage = "Pending"
<1>1. /\ drawn' \in Nonces /\ drawn' \in Nat /\ drawn' \in 0 .. drawn' /\ drawn <= drawn'
      /\ drawn' # 0
  BY ConstantFacts DEF IInv, TypeInv, WorldType, Nonces
<1>2. Armed(kind, o, e) = [NoProbe EXCEPT !.stage = "Pending", !.kind = kind,
                              !.nonce = drawn', !.owner = o, !.exp = e]
  BY DEF Armed
<1>3. NoProbe \in ProbesUpTo(drawn')
  BY <1>1, EmptyRecords
<1>4. Armed(kind, o, e) \in ProbesUpTo(drawn')
  BY <1>1, <1>2, <1>3 DEF ProbesUpTo
<1>5. /\ Armed(kind, o, e).kind = kind /\ Armed(kind, o, e).nonce = drawn'
      /\ Armed(kind, o, e).owner = o /\ Armed(kind, o, e).exp = e
      /\ Armed(kind, o, e).stage = "Pending"
  BY <1>2, <1>3 DEF ProbesUpTo
<1>q. QED
  BY <1>1, <1>4, <1>5

LEMMA ScanArmKeeps ==
    ASSUME IInv, ScanArm
    PROVE  IInv'
<1>1. /\ scan \in ScansUpTo(drawn) /\ scan.owner \in {0} \cup Owners
      /\ entry \in EntriesUpTo(drawn) /\ scan.owner = live
      /\ drawn < MaxNonce /\ drawn' = drawn + 1
  BY DEF IInv, TypeInv, ScanType, EntryType, ScansUpTo, ScanInv, ScanArm
<1>2. /\ drawn' \in Nonces /\ drawn' \in Nat /\ drawn' \in 0 .. drawn' /\ drawn <= drawn'
      /\ drawn' # 0
      /\ probe' \in ProbesUpTo(drawn') /\ probe'.kind = "observer" /\ probe'.nonce = drawn'
      /\ probe'.owner = scan.owner /\ probe'.exp = SavedExp
      /\ probe'.stage = "Pending" /\ probe'.asked = FALSE
  <2>1. probe' = Armed("observer", scan.owner, SavedExp)
    BY DEF ScanArm
  <2>2. PICK kind \in {"observer", "active"}, o \in {0} \cup Owners, e \in {0} \cup Exps :
           kind = "observer" /\ o = scan.owner /\ e = SavedExp
    BY <1>1, ConstantFacts
  <2>3. probe' = Armed(kind, o, e)
    BY <2>1, <2>2
  <2>4. probe'.asked = FALSE
    BY <2>1 DEF Armed, NoProbe
  <2>5. /\ drawn' \in Nonces /\ drawn' \in Nat /\ drawn' \in 0 .. drawn' /\ drawn <= drawn'
        /\ drawn' # 0
        /\ probe' \in ProbesUpTo(drawn') /\ probe'.kind = kind /\ probe'.nonce = drawn'
        /\ probe'.owner = o /\ probe'.exp = e /\ probe'.stage = "Pending"
    BY <1>1, <2>3, ArmedFacts
  <2>q. QED
    BY <2>2, <2>4, <2>5
<1>3. /\ scan \in ScansUpTo(drawn') /\ entry \in EntriesUpTo(drawn')
      /\ NoHandoff \in HandoffsUpTo(drawn')
  BY <1>1, <1>2, TypeFrame, RecordsGrow, EmptyRecords
<1>4. scan' \in ScansUpTo(drawn') /\ scan'.pc = "exit"
  BY <1>3 DEF ScanArm, ScansUpTo
<1>5. /\ fence' \in FencesUpTo(drawn') /\ fence'.kind = "Pending"
      /\ fence'.owner = scan.owner
  BY <1>1, <1>2, ConstantFacts DEF ScanArm, Fence, FencesUpTo
<1>6. /\ entry' \in EntriesUpTo(drawn') /\ entry'.done = entry.done /\ entry'.by = entry.by
      /\ entry'.phase = "armed" /\ entry'.owner = scan.owner
  BY <1>1, <1>3 DEF ScanArm, EntriesUpTo
<1>7. TypeInv'
  <2>1. losing' \in {0} \cup Owners
    BY DEF IInv, TypeInv, WorldType, ScanArm
  <2>q. QED
    BY <1>2, <1>4, <1>5, <1>6, <2>1, TypeFrame DEF TypeInv, ProbeType, ScanType, FenceType,
       EntryType, ScanArm
<1>8. SoundInv'
  BY <1>2, ConstantFacts DEF IInv, SoundInv, ProbeSound, HandoffSound, ScanArm
<1>9. FlowInv' /\ OwnerInv'
  BY <1>6, FlowFrame DEF ScanArm
<1>10. ScanInv' /\ EntryInv'
  BY <1>1, <1>2, <1>4, <1>5, <1>6 DEF ScanInv, EntryInv, ScanArm
<1>q. QED
  BY <1>7, <1>8, <1>9, <1>10 DEF IInv

LEMMA FinalizeKeeps ==
    ASSUME IInv, Finalize
    PROVE  IInv'
<1>1. TypeInv'
  <2>1. WorldType'
    BY DEF IInv, TypeInv, WorldType, Finalize
  <2>q. QED
    BY <2>1, SameTypes DEF TypeInv, Finalize
<1>2. SoundInv'
  BY DEF IInv, SoundInv, ProbeSound, HandoffSound, Finalize
<1>3. FlowInv' /\ OwnerInv'
  BY DEF IInv, FlowInv, BeginFlow, StageFlow, WorkFlow, Held, OwnerInv, LatchOwned,
     JoinOwned, SubmittedOwned, Working, Finalize
<1>4. ScanInv' /\ EntryInv'
  BY EntryFrame DEF Finalize
<1>q. QED
  BY <1>1, <1>2, <1>3, <1>4 DEF IInv

-----------------------------------------------------------------------------
\* What a step of the main thread owes: the places between two passes owe nothing.

Quiet == {"game", "top", "copy", "begin", "process", "start", "kept", "unfence"}

LEMMA QuietFlow == main'.pc \in Quiet => FlowInv'
BY DEF Quiet, FlowInv, BeginFlow, StageFlow, WorkFlow

LEMMA GoFacts ==
    ASSUME IInv, NEW pc \in Places, Go(pc)
    PROVE  main' \in MainsUpTo(drawn) /\ main'.pc = pc
<1>1. Resting \in MainsUpTo(drawn) /\ Resting.pc = "game" /\ main \in MainsUpTo(drawn)
  <2>1. drawn \in Nat
    BY ConstantFacts DEF IInv, TypeInv, WorldType, Nonces
  <2>2. Resting.pc = "game"
    BY DEF Resting
  <2>q. QED
    BY <2>1, <2>2, EmptyRecords DEF IInv, TypeInv, MainType
<1>2. CASE pc = "game"
  BY <1>1, <1>2 DEF Go
<1>3. CASE pc # "game"
  <2>1. main' = [Resting EXCEPT !.pc = pc, !.pass = main.pass]
    BY <1>3 DEF Go
  <2>q. QED
    BY <1>1, <2>1 DEF MainsUpTo
<1>q. QED
  BY <1>2, <1>3

LEMMA DoneFacts ==
    ASSUME IInv, Done
    PROVE  main' \in MainsUpTo(drawn) /\ main'.pc = "top"
<1>1. Resting \in MainsUpTo(drawn)
  BY EmptyRecords, ConstantFacts DEF IInv, TypeInv, WorldType, Nonces
<1>2. main' = [Resting EXCEPT !.pc = "top", !.pass = "pre"]
  BY DEF Done
<1>q. QED
  BY <1>1, <1>2 DEF MainsUpTo, Places

LEMMA QueuedFacts ==
    ASSUME IInv, NEW obs, handoff.stage \notin {"Idle", "Failed"},
           handoff' = Queued(handoff, obs)
    PROVE  /\ handoff' \in HandoffsUpTo(drawn)
           /\ handoff' = handoff \/ handoff'.stage = "FailClosing"
           /\ handoff'.obs = handoff.obs /\ handoff'.exp = handoff.exp
           /\ handoff'.latch = handoff.latch
           /\ handoff.obs = obs => handoff'.stage = "FailClosing"
BY DEF IInv, TypeInv, HandoffType, Queued, HandoffsUpTo

\* A handoff that goes on, or fails closed, keeps what it did to the game.
LEMMA OwnerRestaged ==
    ASSUME IInv, Working, Working', handoff'.stage # "Submitted",
           handoff'.obs = handoff.obs, handoff'.latch = handoff.latch,
           UNCHANGED <<latch, native, entry>>
    PROVE  OwnerInv'
BY DEF IInv, OwnerInv, LatchOwned, JoinOwned, SubmittedOwned, Working

\* A step that only moves the main thread.
LEMMA MainMoves ==
    ASSUME IInv, main' \in MainsUpTo(drawn), FlowInv',
           desc' \in {0} \cup Exps, tried' \in 0 .. drawn,
           UNCHANGED <<live, up, losing, probe, fence, handoff, native, world,
                       latch, scan, drawn, entry>>
    PROVE  IInv'
<1>1. TypeInv'
  <2>1. WorldType'
    BY DEF IInv, TypeInv, WorldType
  <2>q. QED
    BY <2>1, SameTypes DEF TypeInv, MainType
<1>2. SoundInv'
  BY DEF IInv, SoundInv, ProbeSound, HandoffSound
<1>3. OwnerInv'
  BY DEF IInv, OwnerInv, LatchOwned, JoinOwned, SubmittedOwned, Working
<1>4. ScanInv' /\ EntryInv'
  BY EntryFrame
<1>q. QED
  BY <1>1, <1>2, <1>3, <1>4 DEF IInv

\* A step of the main thread on the handoff and the game.
LEMMA MainActs ==
    ASSUME IInv, main' \in MainsUpTo(drawn), handoff' \in HandoffsUpTo(drawn),
           latch' \in 0 .. drawn, native' \in {"idle", "match", "join", "stopping"},
           entry' \in EntriesUpTo(drawn),
           entry'.phase = entry.phase, entry'.owner = entry.owner,
           HandoffSound', FlowInv', OwnerInv',
           UNCHANGED <<live, up, losing, probe, fence, desc, tried, world, scan, drawn>>
    PROVE  IInv'
<1>1. TypeInv'
  <2>1. WorldType'
    BY DEF IInv, TypeInv, WorldType
  <2>q. QED
    BY <2>1, SameTypes DEF TypeInv, MainType, HandoffType, EntryType
<1>2. SoundInv'
  BY DEF IInv, SoundInv, ProbeSound
<1>3. ScanInv' /\ EntryInv'
  BY DEF IInv, ScanInv, EntryInv
<1>q. QED
  BY <1>1, <1>2, <1>3 DEF IInv

\* One that changes the stage of a handoff at work and goes on to the next pass.
LEMMA MainRestages ==
    ASSUME IInv, main' \in MainsUpTo(drawn), main'.pc \in Quiet,
           handoff' \in HandoffsUpTo(drawn), Working, Working',
           handoff'.stage # "Submitted" \/ handoff' = handoff,
           handoff'.obs = handoff.obs, handoff'.exp = handoff.exp,
           handoff'.latch = handoff.latch,
           UNCHANGED <<live, up, losing, probe, fence, desc, tried, native, world,
                       latch, scan, drawn, entry>>
    PROVE  IInv'
<1>1. FlowInv'
  BY QuietFlow
<1>2. OwnerInv'
  BY OwnerRestaged DEF IInv, OwnerInv, LatchOwned, JoinOwned, SubmittedOwned, Working
<1>3. HandoffSound'
  BY DEF IInv, SoundInv, HandoffSound, Working
<1>4. /\ latch' \in 0 .. drawn /\ native' \in {"idle", "match", "join", "stopping"}
      /\ entry' \in EntriesUpTo(drawn)
  BY DEF IInv, TypeInv, WorldType, EntryType
<1>q. QED
  BY <1>1, <1>2, <1>3, <1>4, MainActs

-----------------------------------------------------------------------------
\* The descriptor and the beginning of a handoff.

LEMMA RestoreLookKeeps ==
    ASSUME IInv, RestoreLook
    PROVE  IInv'
<1>1. /\ main \in MainsUpTo(drawn) /\ probe \in ProbesUpTo(drawn)
      /\ desc \in {0} \cup Exps /\ tried \in 0 .. drawn
  BY DEF IInv, TypeInv, WorldType, MainType, ProbeType
<1>2. tried' \in 0 .. drawn
  BY <1>1 DEF RestoreLook, ProbesUpTo
<1>3. main' \in MainsUpTo(drawn) /\ main'.pc \in Quiet
  <2>1. CASE Restorable
    <3>1. main' = [main EXCEPT !.pc = "copy", !.p = probe]
      BY <2>1 DEF RestoreLook
    <3>q. QED
      BY <1>1, <3>1 DEF MainsUpTo, Places, Quiet
  <2>2. CASE ~Restorable
    <3>1. Go("begin") /\ "begin" \in Places
      BY <2>2 DEF RestoreLook, Places
    <3>q. QED
      BY <3>1, GoFacts DEF Quiet
  <2>q. QED
    BY <2>1, <2>2
<1>4. FlowInv'
  BY <1>3, QuietFlow
<1>q. QED
  BY <1>1, <1>2, <1>3, <1>4, MainMoves DEF RestoreLook

LEMMA RestoreCopyKeeps ==
    ASSUME IInv, RestoreCopy
    PROVE  IInv'
<1>1. desc \in {0} \cup Exps /\ tried \in 0 .. drawn /\ main.p.exp \in {0} \cup Exps
  BY DEF IInv, TypeInv, WorldType, MainType, MainsUpTo, ProbesUpTo
<1>2. desc' \in {0} \cup Exps /\ tried' \in 0 .. drawn
  BY <1>1 DEF RestoreCopy
<1>3. main' \in MainsUpTo(drawn) /\ main'.pc \in Quiet
  BY GoFacts DEF RestoreCopy, Places, Quiet
<1>4. FlowInv'
  BY <1>3, QuietFlow
<1>q. QED
  BY <1>2, <1>3, <1>4, MainMoves DEF RestoreCopy

LEMMA AfterBeginFacts ==
    ASSUME IInv, Go(AfterBegin)
    PROVE  main' \in MainsUpTo(drawn) /\ main'.pc \in Quiet
<1>1. PICK pc : pc = AfterBegin
  OBVIOUS
<1>2. pc \in Places /\ pc \in Quiet
  BY <1>1 DEF AfterBegin, Places, Quiet
<1>q. QED
  BY <1>1, <1>2, GoFacts

LEMMA BeginOverKeeps ==
    ASSUME IInv, BeginOver
    PROVE  IInv'
<1>1. main' \in MainsUpTo(drawn) /\ main'.pc \in Quiet
  BY AfterBeginFacts DEF BeginOver
<1>2. handoff.stage # "Idle" /\ handoff \in HandoffsUpTo(drawn)
  BY DEF BeginOver, IInv, TypeInv, HandoffType
<1>3. FlowInv'
  BY <1>1, QuietFlow
<1>4. CASE handoff' = handoff
  BY <1>1, <1>3, <1>4, MainMoves DEF BeginOver, IInv, TypeInv, WorldType
<1>5. CASE handoff.stage = "Failed" /\ handoff' = NoHandoff
  <2>1. handoff' \in HandoffsUpTo(drawn) /\ NoHandoff.stage = "Idle"
    BY <1>5, SameTypes, EmptyRecords DEF BeginOver, NoHandoff
  <2>2. HandoffSound'
    BY <1>5, <2>1 DEF HandoffSound
  <2>3. OwnerInv'
    BY <1>5, <2>1 DEF IInv, OwnerInv, LatchOwned, JoinOwned, SubmittedOwned, Working, BeginOver
  <2>4. /\ latch' \in 0 .. drawn /\ native' \in {"idle", "match", "join", "stopping"}
        /\ entry' \in EntriesUpTo(drawn)
    BY DEF IInv, TypeInv, WorldType, EntryType, BeginOver
  <2>q. QED
    BY <1>1, <1>3, <2>1, <2>2, <2>3, <2>4, MainActs DEF BeginOver
<1>6. CASE handoff.stage # "Failed" /\ handoff' = Queued(handoff, handoff.obs)
  <2>1. /\ handoff' \in HandoffsUpTo(drawn) /\ handoff'.stage = "FailClosing"
        /\ handoff'.obs = handoff.obs /\ handoff'.exp = handoff.exp
        /\ handoff'.latch = handoff.latch
    BY <1>2, <1>6, QueuedFacts
  <2>q. QED
    BY <1>1, <1>2, <1>6, <2>1, MainRestages DEF BeginOver, Working
<1>q. QED
  BY <1>4, <1>5, <1>6 DEF BeginOver, Retired

LEMMA BeginLookKeeps ==
    ASSUME IInv, BeginLook
    PROVE  IInv'
<1>1. /\ main \in MainsUpTo(drawn) /\ probe \in ProbesUpTo(drawn)
      /\ desc \in {0} \cup Exps /\ tried \in 0 .. drawn
  BY DEF IInv, TypeInv, WorldType, MainType, ProbeType
<1>2. CASE probe.kind = "observer" /\ probe.stage # "Ordinary"
  <2>1. main' = [main EXCEPT !.pc = "open", !.p = probe]
    BY <1>2 DEF BeginLook
  <2>2. main' \in MainsUpTo(drawn) /\ main'.pc = "open" /\ main'.p = probe
    BY <1>1, <2>1 DEF MainsUpTo, Places
  <2>3. probe.nonce # 0 /\ probe.exp # 0
    BY <1>2 DEF IInv, SoundInv, ProbeSound
  <2>4. FlowInv'
    BY <1>2, <2>2, <2>3 DEF FlowInv, BeginFlow, StageFlow, WorkFlow, BeginLook
  <2>q. QED
    BY <1>1, <2>2, <2>4, MainMoves DEF BeginLook
<1>3. CASE ~(probe.kind = "observer" /\ probe.stage # "Ordinary")
  <2>1. main' \in MainsUpTo(drawn) /\ main'.pc \in Quiet
    BY <1>3, AfterBeginFacts DEF BeginLook
  <2>2. FlowInv'
    BY <2>1, QuietFlow
  <2>q. QED
    BY <1>1, <2>1, <2>2, MainMoves DEF BeginLook
<1>q. QED
  BY <1>2, <1>3

\* A handoff opens over an idle one, for the observer that was copied.
LEMMA BeginOpenKeeps ==
    ASSUME IInv, BeginOpen
    PROVE  IInv'
<1>1. /\ main \in MainsUpTo(drawn) /\ main.p \in ProbesUpTo(drawn)
      /\ main.p.kind = "observer" /\ main.p.nonce # 0 /\ main.p.exp # 0
      /\ handoff.stage = "Idle"
      /\ desc \in {0} \cup Exps /\ tried \in 0 .. drawn /\ drawn \in Nat
  <2>1. main.pc = "open" /\ drawn' = drawn
    BY DEF BeginOpen, At
  <2>2. main \in MainsUpTo(drawn) /\ desc \in {0} \cup Exps /\ tried \in 0 .. drawn
    BY DEF IInv, TypeInv, WorldType, MainType
  <2>3. main.p \in ProbesUpTo(drawn)
    BY <2>2 DEF MainsUpTo
  <2>q. QED
    BY <2>1, <2>2, <2>3, SameTypes DEF IInv, FlowInv, BeginFlow
<1>2. /\ latch' \in 0 .. drawn /\ native' \in {"idle", "match", "join", "stopping"}
      /\ entry' \in EntriesUpTo(drawn)
      /\ UNCHANGED <<live, up, losing, probe, fence, desc, tried, native, world,
                   latch, scan, drawn, entry>>
  BY DEF IInv, TypeInv, WorldType, EntryType, BeginOpen
<1>3. ASSUME NEW stage \in {"Awaiting", "FailClosing"}, handoff' = HandoffOf(main.p, stage)
      PROVE  /\ handoff' \in HandoffsUpTo(drawn) /\ handoff'.stage = stage
             /\ handoff'.obs = main.p.nonce /\ HandoffSound' /\ OwnerInv'
  <2>1. handoff' = [NoHandoff EXCEPT !.stage = stage, !.obs = main.p.nonce,
                      !.owner = main.p.owner, !.exp = main.p.exp, !.auth = main.p.auth]
    BY <1>3 DEF HandoffOf
  <2>2. NoHandoff \in HandoffsUpTo(drawn)
    BY <1>1, EmptyRecords
  <2>3. /\ handoff' \in HandoffsUpTo(drawn) /\ handoff'.stage = stage
        /\ handoff'.obs = main.p.nonce /\ handoff'.exp = main.p.exp
    BY <1>1, <2>1, <2>2 DEF HandoffsUpTo, ProbesUpTo
  <2>4. HandoffSound'
    BY <1>1, <2>3 DEF HandoffSound
  <2>5. OwnerInv'
    BY <1>1, <1>2, <2>3 DEF IInv, OwnerInv, LatchOwned, JoinOwned, SubmittedOwned, Working
  <2>q. QED
    BY <2>3, <2>4, <2>5
<1>4. CASE handoff' = HandoffOf(main.p, "Awaiting") /\ main' = [main EXCEPT !.pc = "promote"]
  <2>1. main' \in MainsUpTo(drawn) /\ main'.pc = "promote" /\ main'.p = main.p
    BY <1>1, <1>4 DEF MainsUpTo, Places
  <2>2. FlowInv'
    BY <1>1, <1>3, <1>4, <2>1 DEF FlowInv, BeginFlow, StageFlow, WorkFlow
  <2>q. QED
    BY <1>2, <1>3, <1>4, <2>1, <2>2, MainActs
<1>5. CASE handoff' = HandoffOf(main.p, "FailClosing") /\ Go(AfterBegin)
  <2>1. main' \in MainsUpTo(drawn) /\ main'.pc \in Quiet
    BY <1>5, AfterBeginFacts
  <2>2. FlowInv'
    BY <2>1, QuietFlow
  <2>q. QED
    BY <1>2, <1>3, <1>5, <2>1, <2>2, MainActs
<1>6. CASE handoff' = handoff /\ Go(AfterBegin)
  <2>1. main' \in MainsUpTo(drawn) /\ main'.pc \in Quiet
    BY <1>6, AfterBeginFacts
  <2>2. FlowInv'
    BY <2>1, QuietFlow
  <2>q. QED
    BY <1>1, <1>2, <1>6, <2>1, <2>2, MainMoves
<1>q. QED
  BY <1>4, <1>5, <1>6 DEF BeginOpen

\* The active probe: it may replace any probe, and the entry is asked anew.
LEMMA PromoteKeeps ==
    ASSUME IInv, Promote
    PROVE  IInv'
<1>1. /\ main \in MainsUpTo(drawn) /\ main.p \in ProbesUpTo(drawn)
      /\ main.p.owner \in {0} \cup Owners /\ main.p.exp \in {0} \cup Exps
      /\ main.p.kind = "observer" /\ main.p.nonce # 0 /\ main.p.exp # 0
      /\ handoff.stage = "Awaiting" /\ handoff.obs = main.p.nonce
      /\ drawn < MaxNonce /\ drawn' = drawn + 1
  <2>1. main.pc = "promote" /\ drawn < MaxNonce /\ drawn' = drawn + 1
    BY DEF Promote, At
  <2>2. main \in MainsUpTo(drawn)
    BY DEF IInv, TypeInv, MainType
  <2>3. main.p \in ProbesUpTo(drawn)
    BY <2>2 DEF MainsUpTo
  <2>4. main.p.owner \in {0} \cup Owners /\ main.p.exp \in {0} \cup Exps
    BY <2>3 DEF ProbesUpTo
  <2>q. QED
    BY <2>1, <2>2, <2>3, <2>4 DEF IInv, FlowInv, BeginFlow
<1>2. PICK kind \in {"observer", "active"}, o \in {0} \cup Owners, e \in {0} \cup Exps :
         kind = "active" /\ o = main.p.owner /\ e = main.p.exp
  BY <1>1
<1>3. probe' = Armed(kind, o, e)
  BY <1>2 DEF Promote
<1>4. /\ drawn' \in Nonces /\ drawn' \in Nat /\ drawn' \in 0 .. drawn' /\ drawn <= drawn'
      /\ drawn' # 0
      /\ probe' \in ProbesUpTo(drawn') /\ probe'.kind = kind /\ probe'.nonce = drawn'
      /\ probe'.owner = o /\ probe'.exp = e /\ probe'.stage = "Pending"
  BY <1>1, <1>3, ArmedFacts
<1>5. probe'.asked = FALSE
  BY <1>3 DEF Armed, NoProbe
<1>6. /\ main \in MainsUpTo(drawn') /\ probe \in ProbesUpTo(drawn')
      /\ fence \in FencesUpTo(drawn') /\ handoff \in HandoffsUpTo(drawn')
  BY <1>4, TypeFrame, RecordsGrow DEF IInv, TypeInv, MainType, ProbeType, FenceType, HandoffType
<1>7. main' \in MainsUpTo(drawn') /\ main'.pc = "snap" /\ main'.p = main.p
  BY <1>6 DEF Promote, MainsUpTo, Places
<1>8. PICK old, new, f, h, n :
         old = probe /\ new = probe' /\ f = fence /\ h = handoff /\ n = drawn'
  OBVIOUS
<1>9. /\ n \in Nat /\ f \in FencesUpTo(n) /\ h \in HandoffsUpTo(n)
      /\ old \in ProbesUpTo(n) /\ new \in ProbesUpTo(n)
  BY <1>4, <1>6, <1>8
<1>10. fence' = RebindFence(f, old, new) /\ handoff' = RebindHandoff(h, old, new)
  BY <1>8 DEF Promote
<1>11. /\ fence' \in FencesUpTo(drawn') /\ handoff' \in HandoffsUpTo(drawn')
       /\ fence'.kind = fence.kind /\ fence'.owner = fence.owner
       /\ fence.nonce = 0 => fence'.nonce = 0
       /\ handoff'.stage = handoff.stage /\ handoff'.obs = handoff.obs
       /\ handoff'.exp = handoff.exp /\ handoff'.latch = handoff.latch
  BY <1>8, <1>9, <1>10, RebindFacts
<1>12. TypeInv'
  <2>1. losing' \in {0} \cup Owners
    BY DEF IInv, TypeInv, WorldType, Promote
  <2>q. QED
    BY <1>4, <1>7, <1>11, <2>1, TypeFrame DEF TypeInv, ProbeType, FenceType, HandoffType,
       MainType, Promote
<1>13. SoundInv'
  BY <1>1, <1>2, <1>4, <1>11 DEF IInv, SoundInv, ProbeSound, HandoffSound
<1>14. FlowInv'
  BY <1>1, <1>7, <1>11 DEF FlowInv, BeginFlow, StageFlow, WorkFlow
<1>15. OwnerInv'
  BY <1>11 DEF Promote, IInv, OwnerInv, LatchOwned, JoinOwned, SubmittedOwned, Working
<1>16. ScanInv' /\ EntryInv'
  BY <1>5, <1>11 DEF Promote, IInv, ScanInv, EntryInv
<1>q. QED
  BY <1>12, <1>13, <1>14, <1>15, <1>16 DEF IInv

LEMMA BeginSnapKeeps ==
    ASSUME IInv, BeginSnap
    PROVE  IInv'
<1>1. /\ main \in MainsUpTo(drawn) /\ main.pc = "snap"
      /\ probe \in ProbesUpTo(drawn) /\ drawn \in Nat
      /\ desc \in {0} \cup Exps /\ tried \in 0 .. drawn
  BY SameTypes DEF IInv, TypeInv, WorldType, MainType, ProbeType, BeginSnap, At
<1>2. PICK act \in 0 .. drawn :
         act = IF probe.kind = "active" /\ SameTuple(probe, main.p) THEN probe.nonce ELSE 0
  BY <1>1 DEF ProbesUpTo
<1>3. main' = [main EXCEPT !.pc = "bind", !.h.act = act]
  BY <1>2 DEF BeginSnap
<1>4. main.h \in HandoffsUpTo(drawn)
  BY <1>1 DEF MainsUpTo
<1>5. PICK new : new = [main.h EXCEPT !.act = act]
  OBVIOUS
<1>6. new \in HandoffsUpTo(drawn)
  BY <1>2, <1>4, <1>5 DEF HandoffsUpTo
<1>7. main' = [main EXCEPT !.pc = "bind", !.h = new]
  BY <1>1, <1>3, <1>5 DEF MainsUpTo
<1>8. main' \in MainsUpTo(drawn) /\ main'.pc = "bind" /\ main'.p = main.p
  BY <1>1, <1>6, <1>7 DEF MainsUpTo, Places
<1>9. FlowInv'
  BY <1>1, <1>8 DEF IInv, FlowInv, BeginFlow, StageFlow, WorkFlow, BeginSnap
<1>q. QED
  BY <1>1, <1>8, <1>9, MainMoves DEF BeginSnap

LEMMA BeginBindKeeps ==
    ASSUME IInv, BeginBind
    PROVE  IInv'
<1>1. main' \in MainsUpTo(drawn) /\ main'.pc \in Quiet
  BY AfterBeginFacts DEF BeginBind
<1>2. /\ main \in MainsUpTo(drawn) /\ handoff \in HandoffsUpTo(drawn)
      /\ handoff.stage = "Awaiting" /\ handoff.obs = main.p.nonce
  BY DEF IInv, TypeInv, MainType, HandoffType, FlowInv, BeginFlow, BeginBind, At
<1>3. main.h.act \in 0 .. drawn
  BY <1>2 DEF MainsUpTo, HandoffsUpTo
<1>4. PICK stage \in {"Awaiting", "FailClosing"} :
         stage = IF main.h.act = 0 THEN "FailClosing" ELSE handoff.stage
  BY <1>2
<1>5. handoff' = [handoff EXCEPT !.act = main.h.act, !.stage = stage]
  BY <1>2, <1>4 DEF BeginBind, HandoffsUpTo
<1>6. /\ handoff' \in HandoffsUpTo(drawn) /\ handoff'.stage = stage
      /\ handoff'.obs = handoff.obs /\ handoff'.exp = handoff.exp
      /\ handoff'.latch = handoff.latch
  BY <1>2, <1>3, <1>4, <1>5 DEF HandoffsUpTo
<1>q. QED
  BY <1>1, <1>2, <1>4, <1>6, MainRestages DEF BeginBind, Working

-----------------------------------------------------------------------------
\* The handoff is processed, at the end of the second pass.

\* What the main thread holds when it is in the middle of a handoff.
LEMMA MainFacts ==
    ASSUME IInv
    PROVE  /\ main \in MainsUpTo(drawn) /\ main.h \in HandoffsUpTo(drawn)
           /\ main.h.obs \in 0 .. drawn /\ main.h.cancel \in BOOLEAN
           /\ main.h.latch \in BOOLEAN /\ main.ok \in BOOLEAN
           /\ handoff \in HandoffsUpTo(drawn) /\ handoff.obs \in 0 .. drawn
           /\ probe \in ProbesUpTo(drawn) /\ entry \in EntriesUpTo(drawn)
           /\ desc \in {0} \cup Exps /\ tried \in 0 .. drawn /\ latch \in 0 .. drawn
           /\ native \in {"idle", "match", "join", "stopping"}
<1>1. /\ main \in MainsUpTo(drawn) /\ handoff \in HandoffsUpTo(drawn)
      /\ probe \in ProbesUpTo(drawn) /\ entry \in EntriesUpTo(drawn)
      /\ desc \in {0} \cup Exps /\ tried \in 0 .. drawn /\ latch \in 0 .. drawn
      /\ native \in {"idle", "match", "join", "stopping"}
  BY DEF IInv, TypeInv, WorldType, MainType, HandoffType, ProbeType, EntryType
<1>2. main.h \in HandoffsUpTo(drawn) /\ main.ok \in BOOLEAN
  BY <1>1 DEF MainsUpTo
<1>q. QED
  BY <1>1, <1>2 DEF HandoffsUpTo

\* A pass that only looks.
LEMMA LookOnly ==
    ASSUME IInv, Done,
           UNCHANGED <<live, up, losing, probe, fence, handoff, desc, tried, native,
                       world, latch, scan, drawn, entry>>
    PROVE  IInv'
<1>1. main' \in MainsUpTo(drawn) /\ main'.pc \in Quiet
  BY DoneFacts DEF Quiet
<1>2. FlowInv'
  BY <1>1, QuietFlow
<1>q. QED
  BY <1>1, <1>2, MainFacts, MainMoves

\* A pass, or the clock in it, that fails a handoff at work closed.
LEMMA FailClosedKeeps ==
    ASSUME IInv, Working, FailClosed, Done \/ (main' = main /\ main.pc = "process"),
           UNCHANGED <<live, up, losing, probe, fence, desc, tried, native, world,
                       latch, scan, drawn, entry>>
    PROVE  IInv'
<1>1. main' \in MainsUpTo(drawn) /\ main'.pc \in Quiet
  BY DoneFacts, MainFacts DEF Quiet
<1>2. /\ handoff' \in HandoffsUpTo(drawn) /\ handoff'.stage = "FailClosing"
      /\ handoff'.obs = handoff.obs /\ handoff'.exp = handoff.exp
      /\ handoff'.latch = handoff.latch
  BY QueuedFacts DEF FailClosed, Working
<1>q. QED
  BY <1>1, <1>2, MainRestages DEF Working

LEMMA ProcessNothingKeeps ==
    ASSUME IInv, ProcessNothing
    PROVE  IInv'
BY LookOnly DEF ProcessNothing

LEMMA ProcessSubmittedKeeps ==
    ASSUME IInv, ProcessSubmitted
    PROVE  IInv'
<1>1. handoff.stage = "Submitted" /\ Working
  BY DEF ProcessSubmitted, AtProcess, Working
<1>2. CASE FailClosed /\ UNCHANGED entry
  BY <1>1, <1>2, FailClosedKeeps DEF ProcessSubmitted
<1>3. CASE UNCHANGED <<handoff, entry>>
  BY <1>3, LookOnly DEF ProcessSubmitted
<1>4. CASE handoff' = Retired(handoff) /\ entry' = [entry EXCEPT !.done = handoff.obs]
  <2>1. handoff' = NoHandoff /\ NoHandoff \in HandoffsUpTo(drawn) /\ NoHandoff.stage = "Idle"
    BY <1>4, SameTypes, EmptyRecords DEF ProcessSubmitted, Retired, NoHandoff
  <2>2. /\ entry' \in EntriesUpTo(drawn) /\ entry'.done = handoff.obs
        /\ entry'.by = entry.by /\ entry'.phase = entry.phase /\ entry'.owner = entry.owner
    BY <1>4, MainFacts DEF EntriesUpTo
  <2>3. main' \in MainsUpTo(drawn) /\ main'.pc \in Quiet
    BY DoneFacts DEF Quiet, ProcessSubmitted
  <2>4. FlowInv'
    BY <2>3, QuietFlow
  <2>5. latch = handoff.obs /\ entry.by = handoff.obs
    BY <1>1 DEF IInv, OwnerInv, SubmittedOwned
  <2>6. OwnerInv'
    BY <2>1, <2>2, <2>5 DEF OwnerInv, LatchOwned, JoinOwned, SubmittedOwned, ProcessSubmitted
  <2>7. HandoffSound'
    BY <2>1 DEF HandoffSound
  <2>q. QED
    BY <2>1, <2>2, <2>3, <2>4, <2>6, <2>7, MainFacts, MainActs DEF ProcessSubmitted
<1>q. QED
  BY <1>2, <1>3, <1>4 DEF ProcessSubmitted

LEMMA OverdueKeeps ==
    ASSUME IInv, Overdue
    PROVE  IInv'
<1>1. Working /\ main' = main /\ main.pc = "process"
  BY DEF Overdue, AtProcess, At, Working
<1>q. QED
  BY <1>1, FailClosedKeeps DEF Overdue

\* The native cancel and the latch: what FailCommit will write is noted.
LEMMA FailCancelKeeps ==
    ASSUME IInv, FailCancel
    PROVE  IInv'
<1>1. PICK works, clears \in Perhaps(TRUE) :
         /\ native' = IF ~handoff.cancel /\ works THEN Cancelled ELSE native
         /\ latch' = IF handoff.latch /\ clears THEN 0 ELSE latch
         /\ main' = [main EXCEPT !.pc = "fail", !.ok = native' = "idle",
                        !.h = [handoff EXCEPT !.cancel = handoff.cancel \/ works,
                                              !.latch = @ /\ ~clears]]
  BY ZenonT(60) DEF FailCancel
<1>2. /\ handoff.stage = "FailClosing" /\ Working
      /\ UNCHANGED <<live, up, losing, probe, fence, handoff, desc, tried, world, scan, drawn, entry>>
  BY DEF FailCancel, AtProcess, Working
<1>3. PICK cancel \in BOOLEAN : cancel = (handoff.cancel \/ works)
  OBVIOUS
<1>4. PICK kept \in BOOLEAN : kept = (handoff.latch /\ ~clears)
  OBVIOUS
<1>5. PICK idle \in BOOLEAN : idle = (native' = "idle")
  OBVIOUS
<1>6. PICK new : new = [handoff EXCEPT !.cancel = cancel, !.latch = kept]
  OBVIOUS
<1>7. new \in HandoffsUpTo(drawn) /\ new.obs = handoff.obs /\ new.latch = kept
  BY <1>6, MainFacts DEF HandoffsUpTo
<1>8. new = [handoff EXCEPT !.cancel = handoff.cancel \/ works, !.latch = @ /\ ~clears]
  BY <1>3, <1>4, <1>6, MainFacts DEF HandoffsUpTo
<1>9. main' = [main EXCEPT !.pc = "fail", !.ok = idle, !.h = new]
  BY <1>1, <1>5, <1>8, MainFacts DEF MainsUpTo
<1>10. /\ main' \in MainsUpTo(drawn) /\ main'.pc = "fail" /\ main'.h = new
       /\ main'.ok = idle
  BY <1>7, <1>9, MainFacts DEF MainsUpTo, Places
<1>11. /\ native' \in {"idle", "match", "join", "stopping"}
       /\ native' = "join" => native = "join"
  BY <1>1, MainFacts DEF Cancelled
<1>12. /\ latch' = 0 \/ latch' = latch
       /\ handoff.latch /\ ~kept => latch' = 0
  BY <1>1, <1>4
<1>13. 0 \in 0 .. drawn
  BY <1>2, SameTypes
<1>14. latch' # 0 => latch' = latch /\ (entry.done = latch \/ kept)
  BY <1>2, <1>4, <1>12 DEF IInv, OwnerInv, LatchOwned
<1>15. FlowInv'
  <2>1. BeginFlow'
    BY <1>10 DEF BeginFlow
  <2>2. StageFlow'
    BY <1>2, <1>7, <1>10 DEF StageFlow, Held
  <2>3. WorkFlow'
    BY <1>2, <1>5, <1>7, <1>10, <1>14 DEF WorkFlow
  <2>q. QED
    BY <2>1, <2>2, <2>3 DEF FlowInv
<1>16. OwnerInv'
  BY <1>2, <1>11, <1>12 DEF IInv, OwnerInv, LatchOwned, JoinOwned, SubmittedOwned, Working
<1>17. HandoffSound'
  BY <1>2 DEF IInv, SoundInv, HandoffSound
<1>q. QED
  BY <1>2, <1>10, <1>11, <1>12, <1>13, <1>15, <1>16, <1>17, MainFacts, MainActs

\* It ends only when the native owner is idle and the latch is no longer its own.
LEMMA FailCommitKeeps ==
    ASSUME IInv, FailCommit
    PROVE  IInv'
<1>1. /\ Held("FailClosing") /\ Working
      /\ latch # 0 => latch = entry.done \/ main.h.latch
      /\ main.ok => native = "idle"
  BY DEF FailCommit, At, IInv, FlowInv, StageFlow, WorkFlow, Held, Working
<1>2. main' \in MainsUpTo(drawn) /\ main'.pc \in Quiet
  BY DoneFacts DEF FailCommit, Quiet
<1>3. FlowInv'
  BY <1>2, QuietFlow
<1>4. CASE handoff' = handoff
  BY <1>2, <1>3, <1>4, MainFacts, MainMoves DEF FailCommit
<1>5. CASE handoff' # handoff
  <2>1. PICK stage \in {"FailClosing", "Failed"} :
           stage = IF Over(main.h, main.ok) THEN "Failed" ELSE handoff.stage
    BY <1>1 DEF Held
  <2>2. handoff' = [handoff EXCEPT !.cancel = main.h.cancel, !.latch = main.h.latch,
                                   !.stage = stage]
    BY <1>5, <2>1, MainFacts DEF FailCommit, HandoffsUpTo
  <2>3. /\ handoff' \in HandoffsUpTo(drawn) /\ handoff'.stage = stage
        /\ handoff'.obs = handoff.obs /\ handoff'.exp = handoff.exp
        /\ handoff'.latch = main.h.latch
    BY <2>1, <2>2, MainFacts DEF HandoffsUpTo
  <2>4. HandoffSound'
    BY <1>1, <2>1, <2>3 DEF IInv, SoundInv, HandoffSound, Working
  <2>5. stage = "Failed" => ~main.h.latch /\ native = "idle"
    BY <1>1, <2>1 DEF Over, Held
  <2>6. LatchOwned'
    <3>1. latch # 0 => entry.done = latch \/ (handoff.obs = latch /\ main.h.latch)
      BY <1>1 DEF IInv, OwnerInv, LatchOwned
    <3>q. QED
      BY <2>1, <2>3, <2>5, <3>1 DEF LatchOwned, Working, FailCommit
  <2>7. JoinOwned' /\ SubmittedOwned'
    BY <1>1, <2>1, <2>3, <2>5 DEF IInv, OwnerInv, JoinOwned, SubmittedOwned, Working, FailCommit
  <2>q. QED
    BY <1>2, <1>3, <2>3, <2>4, <2>6, <2>7, MainFacts, MainActs DEF OwnerInv, FailCommit
<1>q. QED
  BY <1>4, <1>5

LEMMA AwaitRefusedKeeps ==
    ASSUME IInv, AwaitRefused
    PROVE  IInv'
<1>1. Working
  BY DEF AwaitRefused, AtProcess, Working
<1>q. QED
  BY <1>1, FailClosedKeeps DEF AwaitRefused

LEMMA AwaitMoreKeeps ==
    ASSUME IInv, AwaitMore
    PROVE  IInv'
BY LookOnly DEF AwaitMore

LEMMA AwaitCancelKeeps ==
    ASSUME IInv, AwaitCancel
    PROVE  IInv'
<1>1. /\ handoff.stage = "Awaiting"
      /\ main' = [main EXCEPT !.pc = "await", !.h = handoff]
      /\ native' = Cancelled
      /\ UNCHANGED <<live, up, losing, probe, fence, handoff, desc, tried, world,
                     latch, scan, drawn, entry>>
  BY DEF AwaitCancel, AtProcess
<1>2. main' \in MainsUpTo(drawn) /\ main'.pc = "await" /\ main'.h = handoff
  BY <1>1, MainFacts DEF MainsUpTo, Places
<1>3. native' \in {"idle", "match", "join", "stopping"} /\ native' # "join"
  BY <1>1, MainFacts DEF Cancelled
<1>4. FlowInv'
  BY <1>1, <1>2 DEF FlowInv, BeginFlow, StageFlow, WorkFlow, Held
<1>5. OwnerInv'
  BY <1>1, <1>3 DEF IInv, OwnerInv, LatchOwned, JoinOwned, SubmittedOwned, Working
<1>6. HandoffSound'
  BY <1>1 DEF IInv, SoundInv, HandoffSound
<1>q. QED
  BY <1>1, <1>2, <1>3, <1>4, <1>5, <1>6, MainFacts, MainActs

LEMMA AwaitCommitKeeps ==
    ASSUME IInv, AwaitCommit
    PROVE  IInv'
<1>1. handoff.stage = "Awaiting" /\ Working
  BY DEF AwaitCommit, At, IInv, FlowInv, StageFlow, Held, Working
<1>2. main' \in MainsUpTo(drawn) /\ main'.pc \in Quiet
  BY DoneFacts DEF AwaitCommit, Quiet
<1>3. /\ handoff' \in HandoffsUpTo(drawn) /\ handoff'.stage \in {"Awaiting", "Waiting"}
      /\ handoff'.obs = handoff.obs /\ handoff'.exp = handoff.exp
      /\ handoff'.latch = handoff.latch
  BY <1>1, MainFacts DEF AwaitCommit, HandoffsUpTo
<1>q. QED
  BY <1>1, <1>2, <1>3, MainRestages DEF AwaitCommit, Working

LEMMA WaitRefusedKeeps ==
    ASSUME IInv, WaitRefused
    PROVE  IInv'
<1>1. Working
  BY DEF WaitRefused, AtProcess, Working
<1>q. QED
  BY <1>1, FailClosedKeeps DEF WaitRefused

LEMMA WaitBusyKeeps ==
    ASSUME IInv, WaitBusy
    PROVE  IInv'
BY LookOnly DEF WaitBusy

LEMMA WaitIdleKeeps ==
    ASSUME IInv, WaitIdle
    PROVE  IInv'
<1>1. /\ handoff.stage = "Waiting" /\ main' = [main EXCEPT !.pc = "check", !.h = handoff]
  BY DEF WaitIdle, AtProcess
<1>2. main' \in MainsUpTo(drawn) /\ main'.pc = "check" /\ main'.h = handoff
  BY <1>1, MainFacts DEF MainsUpTo, Places
<1>3. FlowInv'
  BY <1>1, <1>2 DEF FlowInv, BeginFlow, StageFlow, WorkFlow, Held, WaitIdle
<1>q. QED
  BY <1>2, <1>3, MainFacts, MainMoves DEF WaitIdle

\* From the last look on, the waiting handoff stays the one the thread works on.
LEMMA FinalCheckKeeps ==
    ASSUME IInv, FinalCheck
    PROVE  IInv'
<1>1. Held("Waiting") /\ Working /\ handoff.obs = main.h.obs
  BY DEF FinalCheck, At, IInv, FlowInv, StageFlow, Held, Working
<1>2. CASE handoff' = handoff /\ main' = [main EXCEPT !.pc = "latch"]
  <2>1. main' \in MainsUpTo(drawn) /\ main'.pc = "latch" /\ main'.h = main.h
    BY <1>2, MainFacts DEF MainsUpTo, Places
  <2>2. FlowInv'
    BY <1>1, <1>2, <2>1 DEF FlowInv, BeginFlow, StageFlow, WorkFlow, Held
  <2>q. QED
    BY <1>2, <2>1, <2>2, MainFacts, MainMoves DEF FinalCheck
<1>3. CASE handoff' = Queued(handoff, main.h.obs) /\ Done
  BY <1>1, <1>3, FailClosedKeeps DEF FinalCheck, FailClosed
<1>q. QED
  BY <1>2, <1>3 DEF FinalCheck

LEMMA SetLatchKeeps ==
    ASSUME IInv, SetLatch
    PROVE  IInv'
<1>1. Held("Waiting") /\ Working /\ handoff.obs = main.h.obs /\ handoff.stage = "Waiting"
  BY DEF SetLatch, At, IInv, FlowInv, StageFlow, Held, Working
<1>2. CASE /\ latch' = main.h.obs /\ handoff' = [handoff EXCEPT !.latch = TRUE]
           /\ main' = [main EXCEPT !.pc = "adapter"]
  <2>1. main' \in MainsUpTo(drawn) /\ main'.pc = "adapter" /\ main'.h = main.h
    BY <1>2, MainFacts DEF MainsUpTo, Places
  <2>2. /\ handoff' \in HandoffsUpTo(drawn) /\ handoff'.stage = "Waiting"
        /\ handoff'.obs = handoff.obs /\ handoff'.exp = handoff.exp
        /\ handoff'.latch
    BY <1>1, <1>2, MainFacts DEF HandoffsUpTo
  <2>3. FlowInv'
    BY <1>1, <1>2, <2>1, <2>2 DEF FlowInv, BeginFlow, StageFlow, WorkFlow, Held
  <2>4. OwnerInv'
    BY <1>1, <1>2, <2>2 DEF IInv, OwnerInv, LatchOwned, JoinOwned, SubmittedOwned, Working, SetLatch
  <2>5. HandoffSound'
    BY <1>1, <2>2 DEF IInv, SoundInv, HandoffSound
  <2>q. QED
    BY <1>2, <2>1, <2>2, <2>3, <2>4, <2>5, MainFacts, MainActs DEF SetLatch
<1>3. CASE handoff' = Queued(handoff, main.h.obs) /\ Done /\ UNCHANGED latch
  BY <1>1, <1>3, FailClosedKeeps DEF SetLatch, FailClosed
<1>q. QED
  BY <1>1, <1>2, <1>3 DEF SetLatch

\* A join that the adapter starts is this handoff's.
LEMMA AdapterKeeps ==
    ASSUME IInv, Adapter
    PROVE  IInv'
<1>1. Held("Waiting") /\ Working /\ handoff.obs = main.h.obs /\ latch = main.h.obs
  BY DEF Adapter, At, IInv, FlowInv, StageFlow, WorkFlow, Held, Working
<1>2. PICK joins \in BOOLEAN :
         /\ native' = IF joins /\ native = "idle" THEN "join" ELSE native
         /\ entry' = [entry EXCEPT !.by = IF native' # native THEN main.h.obs ELSE @]
         /\ \E proven \in Perhaps(native' # native /\ GateCurrent(main.h)) :
               main' = [main EXCEPT !.pc = "owner", !.ok = proven]
  BY DEF Adapter
<1>3. PICK proven \in Perhaps(native' # native /\ GateCurrent(main.h)) :
         main' = [main EXCEPT !.pc = "owner", !.ok = proven]
  BY <1>2
<1>4. proven \in BOOLEAN /\ (proven => native' # native)
  BY <1>3 DEF Perhaps
<1>5. main' \in MainsUpTo(drawn) /\ main'.pc = "owner" /\ main'.h = main.h /\ main'.ok = proven
  BY <1>3, <1>4, MainFacts DEF MainsUpTo, Places
<1>6. PICK by \in 0 .. drawn : by = IF native' # native THEN main.h.obs ELSE entry.by
  BY MainFacts DEF EntriesUpTo
<1>7. entry' = [entry EXCEPT !.by = by]
  BY <1>2, <1>6, MainFacts DEF EntriesUpTo
<1>8. /\ entry' \in EntriesUpTo(drawn) /\ entry'.by = by /\ entry'.done = entry.done
      /\ entry'.phase = entry.phase /\ entry'.owner = entry.owner
  BY <1>7, MainFacts DEF EntriesUpTo
<1>9. native' \in {"idle", "match", "join", "stopping"}
  BY <1>2, MainFacts
<1>10. UNCHANGED <<live, up, losing, probe, fence, handoff, desc, tried, world,
                   latch, scan, drawn>>
  BY DEF Adapter
<1>11. FlowInv'
  <2>1. BeginFlow' /\ StageFlow'
    BY <1>1, <1>5, <1>10 DEF BeginFlow, StageFlow, Held
  <2>2. WorkFlow'
    BY <1>1, <1>4, <1>5, <1>6, <1>8, <1>10 DEF WorkFlow
  <2>q. QED
    BY <2>1, <2>2 DEF FlowInv
<1>12. OwnerInv'
  <2>1. LatchOwned' /\ SubmittedOwned'
    BY <1>1, <1>8, <1>10 DEF IInv, OwnerInv, LatchOwned, SubmittedOwned, Working, Held
  <2>2. JoinOwned'
    BY <1>1, <1>6, <1>8, <1>10 DEF IInv, OwnerInv, JoinOwned, Working
  <2>q. QED
    BY <2>1, <2>2 DEF OwnerInv
<1>13. HandoffSound'
  BY <1>10 DEF IInv, SoundInv, HandoffSound
<1>q. QED
  BY <1>5, <1>8, <1>9, <1>10, <1>11, <1>12, <1>13, MainFacts, MainActs

\* Only an active probe that is still authorized is handed off.
LEMMA OwnerCommitKeeps ==
    ASSUME IInv, OwnerCommit
    PROVE  IInv'
<1>1. /\ Held("Waiting") /\ handoff.obs = main.h.obs /\ latch = main.h.obs
      /\ main.ok => entry.by = main.h.obs
  BY DEF OwnerCommit, At, IInv, FlowInv, StageFlow, WorkFlow, Held
<1>2. PICK commits \in BOOLEAN :
         commits = (main.ok /\ Authority(main.h) /\ probe.nonce = main.h.act)
  OBVIOUS
<1>3. /\ probe' = IF commits THEN [probe EXCEPT !.stage = "HandedOff", !.ready = TRUE,
                                                 !.aged = FALSE]
                   ELSE probe
      /\ main' = [main EXCEPT !.pc = "verify", !.ok = commits]
      /\ UNCHANGED <<live, up, losing, fence, handoff, desc, tried, native, world,
                   latch, scan, drawn, entry>>
  BY <1>2 DEF OwnerCommit
<1>4. main' \in MainsUpTo(drawn) /\ main'.pc = "verify" /\ main'.h = main.h /\ main'.ok = commits
  BY <1>3, MainFacts DEF MainsUpTo, Places
<1>5. commits => main.ok /\ probe.kind = "active" /\ probe.stage = "Authorized"
  BY <1>2 DEF Authority, Valid
<1>6. /\ probe' \in ProbesUpTo(drawn) /\ probe'.kind = probe.kind
      /\ probe'.nonce = probe.nonce /\ probe'.exp = probe.exp
      /\ probe'.owner = probe.owner /\ probe'.asked = probe.asked
      /\ probe' = probe \/ (probe'.stage = "HandedOff" /\ probe'.ready)
  BY <1>3, MainFacts DEF ProbesUpTo, Granted
<1>7. TypeInv'
  <2>1. WorldType'
    BY <1>3 DEF IInv, TypeInv, WorldType
  <2>q. QED
    BY <1>3, <1>4, <1>6, <2>1, SameTypes DEF TypeInv, ProbeType, MainType
<1>8. SoundInv'
  <2>1. HandoffSound'
    BY <1>3 DEF IInv, SoundInv, HandoffSound
  <2>2. ProbeSound'
    BY <1>3, <1>5, <1>6 DEF IInv, SoundInv, ProbeSound
  <2>q. QED
    BY <2>1, <2>2 DEF SoundInv
<1>9. FlowInv'
  <2>1. BeginFlow' /\ StageFlow'
    BY <1>1, <1>3, <1>4 DEF BeginFlow, StageFlow, Held
  <2>2. WorkFlow'
    BY <1>1, <1>3, <1>4, <1>5 DEF WorkFlow
  <2>q. QED
    BY <2>1, <2>2 DEF FlowInv
<1>10. OwnerInv'
  BY <1>3 DEF IInv, OwnerInv, LatchOwned, JoinOwned, SubmittedOwned, Working
<1>11. ScanInv' /\ EntryInv'
  BY <1>3, <1>6, EntryFrame
<1>q. QED
  BY <1>7, <1>8, <1>9, <1>10, <1>11 DEF IInv

\* A latch that is taken back, or could not be, stays noted in the handoff.
LEMMA VerifyKeeps ==
    ASSUME IInv, Verify
    PROVE  IInv'
<1>1. /\ handoff.stage = "Waiting" /\ Working /\ handoff.obs = main.h.obs /\ latch = main.h.obs
      /\ main.ok => entry.by = main.h.obs
  BY DEF Verify, At, IInv, FlowInv, StageFlow, WorkFlow, Held, Working
<1>2. CASE main.ok /\ main' = [main EXCEPT !.pc = "submit"] /\ UNCHANGED <<handoff, latch>>
  <2>1. main' \in MainsUpTo(drawn) /\ main'.pc = "submit" /\ main'.h = main.h
    BY <1>2, MainFacts DEF MainsUpTo, Places
  <2>2. FlowInv'
    BY <1>1, <1>2, <2>1 DEF FlowInv, BeginFlow, StageFlow, WorkFlow, Held, Verify
  <2>q. QED
    BY <1>2, <2>1, <2>2, MainFacts, MainMoves DEF Verify
<1>3. ASSUME NEW works \in BOOLEAN, Done,
             latch' = IF works THEN 0 ELSE latch, handoff' = RolledBack(handoff, works)
      PROVE  IInv'
  <2>1. PICK kept \in BOOLEAN : kept = ~works
    OBVIOUS
  <2>2. handoff' = [handoff EXCEPT !.latch = kept, !.cancel = FALSE, !.stage = "FailClosing"]
    BY <1>1, <1>3, <2>1 DEF RolledBack
  <2>3. /\ handoff' \in HandoffsUpTo(drawn) /\ handoff'.stage = "FailClosing"
        /\ handoff'.obs = handoff.obs /\ handoff'.exp = handoff.exp
        /\ handoff'.latch = kept
    BY <2>2, MainFacts DEF HandoffsUpTo
  <2>4. main' \in MainsUpTo(drawn) /\ main'.pc \in Quiet
    BY <1>3, DoneFacts DEF Quiet
  <2>5. FlowInv'
    BY <2>4, QuietFlow
  <2>6. OwnerInv'
    <3>1. latch' # 0 => kept /\ latch' = handoff.obs
      BY <1>1, <1>3, <2>1
    <3>2. LatchOwned' /\ SubmittedOwned'
      BY <2>3, <3>1 DEF LatchOwned, SubmittedOwned, Working
    <3>3. JoinOwned'
      BY <1>1, <2>3 DEF IInv, OwnerInv, JoinOwned, Working, Verify
    <3>q. QED
      BY <3>2, <3>3 DEF OwnerInv
  <2>7. HandoffSound'
    BY <1>1, <2>3 DEF IInv, SoundInv, HandoffSound
  <2>8. latch' \in 0 .. drawn
    BY <1>3, MainFacts, SameTypes DEF Verify
  <2>q. QED
    BY <2>3, <2>4, <2>5, <2>6, <2>7, <2>8, MainFacts, MainActs DEF Verify
<1>4. Perhaps(TRUE) \subseteq BOOLEAN
  BY DEF Perhaps
<1>q. QED
  BY <1>2, <1>3, <1>4 DEF Verify

LEMMA SubmitKeeps ==
    ASSUME IInv, Submit
    PROVE  IInv'
<1>1. /\ handoff.stage = "Waiting" /\ Working /\ handoff.obs = main.h.obs
      /\ latch = main.h.obs /\ entry.by = main.h.obs
  BY DEF Submit, At, IInv, FlowInv, StageFlow, WorkFlow, Held, Working
<1>2. /\ handoff' \in HandoffsUpTo(drawn) /\ handoff'.stage \in {"Waiting", "Submitted"}
      /\ handoff'.obs = handoff.obs /\ handoff'.exp = handoff.exp
      /\ handoff'.latch = handoff.latch
  BY <1>1, MainFacts DEF Submit, HandoffsUpTo
<1>3. main' \in MainsUpTo(drawn) /\ main'.pc \in Quiet
  BY DoneFacts DEF Quiet, Submit
<1>4. FlowInv'
  BY <1>3, QuietFlow
<1>5. OwnerInv'
  BY <1>1, <1>2 DEF IInv, OwnerInv, LatchOwned, JoinOwned, SubmittedOwned, Working, Submit
<1>6. HandoffSound'
  BY <1>1, <1>2 DEF IInv, SoundInv, HandoffSound
<1>q. QED
  BY <1>2, <1>3, <1>4, <1>5, <1>6, MainFacts, MainActs DEF Submit

-----------------------------------------------------------------------------
\* The start hooks and the teardown.

LEMMA StartLookKeeps ==
    ASSUME IInv, NEW kind \in {"ui", "other"}, StartLook(kind)
    PROVE  IInv'
<1>1. main' \in MainsUpTo(drawn) /\ main'.pc \in Quiet
  BY MainFacts DEF StartLook, MainsUpTo, Places, Quiet
<1>2. FlowInv'
  BY <1>1, QuietFlow
<1>q. QED
  BY <1>1, <1>2, MainFacts, MainMoves DEF StartLook, Elsewhere

LEMMA StartDoneKeeps ==
    ASSUME IInv, NEW n \in {"idle", "match", "join", "stopping"}, StartDone(n),
           n = "join" => native = "join"
    PROVE  IInv'
<1>1. main' = Resting /\ Resting.pc = "game" /\ native' = n
  BY DEF StartDone, Resting
<1>2. main' \in MainsUpTo(drawn) /\ main'.pc \in Quiet
  BY <1>1, SameTypes, EmptyRecords DEF StartDone, Elsewhere, Quiet
<1>3. FlowInv'
  BY <1>2, QuietFlow
<1>4. OwnerInv'
  BY <1>1 DEF IInv, OwnerInv, LatchOwned, JoinOwned, SubmittedOwned, Working, StartDone, Elsewhere
<1>5. HandoffSound'
  BY DEF IInv, SoundInv, HandoffSound, StartDone
<1>q. QED
  BY <1>1, <1>2, <1>3, <1>4, <1>5, MainFacts, MainActs DEF StartDone, Elsewhere

LEMMA StartUiKeeps ==
    ASSUME IInv, StartUi
    PROVE  IInv'
<1>1. PICK n \in Restarts : \E m \in Starts(n) : StartDone(m)
  BY DEF StartUi
<1>2. PICK m \in Starts(n) : StartDone(m)
  BY <1>1
<1>3. m \in {"idle", "match", "join", "stopping"} /\ (m = "join" => native = "join")
  BY <1>1, <1>2, MainFacts DEF Restarts, Starts
<1>q. QED
  BY <1>2, <1>3, StartDoneKeeps

LEMMA StartOtherKeeps ==
    ASSUME IInv, StartOther
    PROVE  IInv'
<1>1. PICK n \in Starts(native) : StartDone(n)
  BY DEF StartOther
<1>2. n \in {"idle", "match", "join", "stopping"} /\ (n = "join" => native = "join")
  BY <1>1, MainFacts DEF Starts
<1>q. QED
  BY <1>1, <1>2, StartDoneKeeps

LEMMA KeepProbeKeeps ==
    ASSUME IInv, KeepProbe
    PROVE  IInv'
<1>1. /\ probe' \in ProbesUpTo(drawn) /\ probe'.kind = probe.kind
      /\ probe'.nonce = probe.nonce /\ probe'.exp = probe.exp /\ probe'.ready = probe.ready
      /\ probe'.owner = probe.owner /\ probe'.asked = probe.asked
      /\ probe'.stage = probe.stage
  BY MainFacts DEF KeepProbe, ProbesUpTo
<1>2. main' \in MainsUpTo(drawn) /\ main'.pc \in Quiet
  <2>1. main' = [main EXCEPT !.pc = "kept", !.p = probe']
    BY DEF KeepProbe
  <2>q. QED
    BY <1>1, <2>1, MainFacts DEF MainsUpTo, Places, Quiet
<1>3. TypeInv'
  <2>1. WorldType'
    BY DEF IInv, TypeInv, WorldType, KeepProbe, Elsewhere
  <2>q. QED
    BY <1>1, <1>2, <2>1, SameTypes DEF KeepProbe, Elsewhere, TypeInv, ProbeType, MainType
<1>4. SoundInv'
  BY <1>1 DEF IInv, SoundInv, ProbeSound, HandoffSound, KeepProbe
<1>5. FlowInv'
  BY <1>2, QuietFlow
<1>6. OwnerInv'
  BY DEF IInv, OwnerInv, LatchOwned, JoinOwned, SubmittedOwned, Working, KeepProbe, Elsewhere
<1>7. ScanInv' /\ EntryInv'
  BY <1>1, EntryFrame DEF KeepProbe, Elsewhere
<1>q. QED
  BY <1>3, <1>4, <1>5, <1>6, <1>7 DEF IInv

LEMMA KeepHandoffKeeps ==
    ASSUME IInv, KeepHandoff
    PROVE  IInv'
<1>1. main' = [main EXCEPT !.pc = "unfence"]
  BY DEF KeepHandoff
<1>2. main' \in MainsUpTo(drawn) /\ main'.pc \in Quiet
  BY <1>1, MainFacts DEF MainsUpTo, Places, Quiet
<1>3. FlowInv'
  BY <1>2, QuietFlow
<1>4. CASE handoff' = handoff /\ entry' = entry
  BY <1>2, <1>3, <1>4, MainFacts, MainMoves DEF KeepHandoff, Elsewhere
<1>5. CASE /\ handoff.stage = "Submitted" /\ handoff' = Retired(handoff)
           /\ entry' = [entry EXCEPT !.done = handoff.obs]
  <2>1. handoff' = NoHandoff /\ NoHandoff \in HandoffsUpTo(drawn) /\ NoHandoff.stage = "Idle"
    BY <1>5, SameTypes, EmptyRecords DEF KeepHandoff, Elsewhere, Retired, NoHandoff
  <2>2. /\ entry' \in EntriesUpTo(drawn) /\ entry'.done = handoff.obs
        /\ entry'.by = entry.by /\ entry'.phase = entry.phase /\ entry'.owner = entry.owner
    BY <1>5, MainFacts DEF EntriesUpTo
  <2>3. latch = handoff.obs /\ entry.by = handoff.obs
    BY <1>5 DEF IInv, OwnerInv, SubmittedOwned
  <2>4. OwnerInv'
    BY <2>1, <2>2, <2>3 DEF OwnerInv, LatchOwned, JoinOwned, SubmittedOwned, KeepHandoff, Elsewhere
  <2>5. HandoffSound'
    BY <2>1 DEF HandoffSound
  <2>q. QED
    BY <1>2, <1>3, <2>1, <2>2, <2>4, <2>5, MainFacts, MainActs DEF KeepHandoff, Elsewhere
<1>q. QED
  BY <1>4, <1>5 DEF KeepHandoff

LEMMA KeepFenceKeeps ==
    ASSUME IInv, KeepFence
    PROVE  IInv'
<1>1. PICK p : p = main.p
  OBVIOUS
<1>2. fence' = ClearExact(fence, p) /\ entry' = Released(entry, p) /\ main' = Resting
  BY <1>1 DEF KeepFence
<1>3. /\ fence \in FencesUpTo(drawn) /\ entry \in EntriesUpTo(drawn)
      /\ drawn' = drawn /\ drawn \in Nat
  BY SameTypes DEF IInv, TypeInv, FenceType, EntryType, KeepFence, Elsewhere
<1>4. fence' \in FencesUpTo(drawn)
  BY <1>2, <1>3, EmptyRecords DEF ClearExact
<1>5. /\ entry' \in EntriesUpTo(drawn) /\ entry'.done = entry.done /\ entry'.by = entry.by
      /\ Exact(fence, p) /\ entry.owner = p.owner => entry'.phase = "none"
      /\ entry'.phase = "none" \/ entry' = entry
  BY <1>2, <1>3 DEF Released, EntriesUpTo
<1>6. Resting \in MainsUpTo(drawn) /\ Resting.pc = "game"
  BY <1>3, EmptyRecords DEF Resting
<1>7. TypeInv'
  <2>1. WorldType'
    BY DEF IInv, TypeInv, WorldType, KeepFence, Elsewhere
  <2>q. QED
    BY <1>2, <1>3, <1>4, <1>5, <1>6, <2>1, SameTypes DEF TypeInv, FenceType, EntryType,
       MainType, KeepFence, Elsewhere
<1>8. SoundInv'
  BY DEF IInv, SoundInv, ProbeSound, HandoffSound, KeepFence
<1>9. FlowInv'
  BY <1>2, <1>6, QuietFlow DEF Quiet
<1>10. OwnerInv'
  BY <1>5 DEF IInv, OwnerInv, LatchOwned, JoinOwned, SubmittedOwned, Working, KeepFence, Elsewhere
<1>11. ScanInv' /\ EntryInv'
  <2>1. entry.phase \in {"arming", "armed"} =>
           (Exact(fence, p) => entry.owner = p.owner)
    BY DEF IInv, EntryInv, Exact, SameTuple
  <2>2. ~Exact(fence, p) => fence' = fence
    BY <1>2 DEF ClearExact
  <2>3. live' = live /\ scan' = scan /\ probe' = probe
    BY DEF KeepFence, Elsewhere
  <2>q. QED
    BY <1>5, <2>1, <2>2, <2>3 DEF IInv, ScanInv, EntryInv
<1>q. QED
  BY <1>7, <1>8, <1>9, <1>10, <1>11 DEF IInv

-----------------------------------------------------------------------------
\* The native task and its world.

LEMMA NativeKeeps ==
    ASSUME IInv, NEW n \in {"idle", "match", "join", "stopping"}, NEW w \in BOOLEAN,
           Native(n, w), n = native \/ n = "idle"
    PROVE  IInv'
<1>1. TypeInv'
  <2>1. WorldType'
    BY DEF IInv, TypeInv, WorldType, Native
  <2>q. QED
    BY <2>1, SameTypes DEF TypeInv, Native
<1>2. SoundInv'
  BY DEF IInv, SoundInv, ProbeSound, HandoffSound, Native
<1>3. FlowInv'
  BY DEF IInv, FlowInv, BeginFlow, StageFlow, WorkFlow, Held, Native
<1>4. OwnerInv'
  BY DEF IInv, OwnerInv, LatchOwned, JoinOwned, SubmittedOwned, Working, Native
<1>5. ScanInv' /\ EntryInv'
  BY EntryFrame DEF Native
<1>q. QED
  BY <1>1, <1>2, <1>3, <1>4, <1>5 DEF IInv

LEMMA WorldKeeps ==
    ASSUME IInv, World
    PROVE  IInv'
<1>1. native \in {"idle", "match", "join", "stopping"} /\ world \in BOOLEAN
  BY DEF IInv, TypeInv, WorldType
<1>2. CASE Stopped
  BY <1>1, <1>2, NativeKeeps DEF Stopped
<1>3. CASE JoinEnds
  BY <1>1, <1>3, NativeKeeps DEF JoinEnds
<1>4. CASE MatchEnds
  BY <1>1, <1>4, NativeKeeps DEF MatchEnds
<1>5. CASE LeaveWorld
  BY <1>1, <1>5, NativeKeeps DEF LeaveWorld
<1>q. QED
  BY <1>2, <1>3, <1>4, <1>5 DEF World

-----------------------------------------------------------------------------
\* Every step keeps the invariant.

LEMMA NetworkKeeps ==
    ASSUME IInv, Network
    PROVE  IInv'
BY AskKeeps, TimeOutKeeps, RespondKeeps, AgeKeeps, RearmKeeps, CompleteKeeps,
   LoseProbeKeeps, LosePeerKeeps, RegisterPeerKeeps, MoveKeeps DEF Network

LEMMA ScanKeeps ==
    ASSUME IInv, Scan
    PROVE  IInv'
BY ScanEnterKeeps, ScanCommitKeeps, ScanFaultKeeps, ScanPublishKeeps, ScanRefuseKeeps,
   ScanRetireHandoffKeeps, ScanForgetProbeKeeps, ScanArmKeeps, ScanExitKeeps,
   FinalizeKeeps DEF Scan

LEMMA MainKeeps ==
    ASSUME IInv, Main
    PROVE  IInv'
<1>1. CASE RestoreLook \/ RestoreCopy \/ BeginOver \/ BeginLook \/ BeginOpen
           \/ Promote \/ BeginSnap \/ BeginBind
  BY <1>1, RestoreLookKeeps, RestoreCopyKeeps, BeginOverKeeps, BeginLookKeeps,
     BeginOpenKeeps, PromoteKeeps, BeginSnapKeeps, BeginBindKeeps
<1>2. CASE ProcessNothing \/ ProcessSubmitted \/ Overdue \/ FailCancel \/ FailCommit
           \/ AwaitRefused \/ AwaitMore \/ AwaitCancel \/ AwaitCommit
  BY <1>2, ProcessNothingKeeps, ProcessSubmittedKeeps, OverdueKeeps, FailCancelKeeps,
     FailCommitKeeps, AwaitRefusedKeeps, AwaitMoreKeeps, AwaitCancelKeeps, AwaitCommitKeeps
<1>3. CASE WaitRefused \/ WaitBusy \/ WaitIdle \/ FinalCheck \/ SetLatch
           \/ Adapter \/ OwnerCommit \/ Verify \/ Submit
  BY <1>3, WaitRefusedKeeps, WaitBusyKeeps, WaitIdleKeeps, FinalCheckKeeps, SetLatchKeeps,
     AdapterKeeps, OwnerCommitKeeps, VerifyKeeps, SubmitKeeps
<1>4. CASE (\E kind \in {"ui", "other"} : StartLook(kind)) \/ StartUi \/ StartOther
           \/ KeepProbe \/ KeepHandoff \/ KeepFence
  BY <1>4, StartLookKeeps, StartUiKeeps, StartOtherKeeps, KeepProbeKeeps,
     KeepHandoffKeeps, KeepFenceKeeps
<1>q. QED
  BY <1>1, <1>2, <1>3, <1>4 DEF Main

LEMMA StutterKeeps ==
    ASSUME IInv, UNCHANGED vars
    PROVE  IInv'
<1>1. main' \in MainsUpTo(drawn) /\ desc' \in {0} \cup Exps /\ tried' \in 0 .. drawn
  BY MainFacts DEF vars
<1>2. FlowInv'
  BY FlowFrame DEF vars
<1>q. QED
  BY <1>1, <1>2, MainMoves DEF vars

\* The inductive invariant holds in every state the member reaches.
THEOREM MemberInvariant == Spec => []IInv
<1>1. Init => IInv
  BY InitKeeps
<1>2. IInv /\ [Next]_vars => IInv'
  BY NetworkKeeps, ScanKeeps, MainKeeps, WorldKeeps, StutterKeeps DEF Next
<1>q. QED
  BY <1>1, <1>2, PTL DEF Spec

-----------------------------------------------------------------------------
\* The properties.

\* Every record of the returning member stays in its set, no nonce is beyond those
\* drawn, only an active probe is handed off, and an idle handoff is empty.
THEOREM MemberTypeCorrect == Spec => []TypeOK
<1>1. IInv => TypeOK
  BY DEF IInv, TypeInv, WorldType, ProbeType, FenceType, HandoffType, SoundInv,
     ProbeSound, HandoffSound, TypeOK, ProbeRecords, HandoffRecords, ProbesUpTo,
     HandoffsUpTo, FencesUpTo
<1>q. QED
  BY <1>1, MemberInvariant, PTL

\* From the scan's fence until the release the firewall holds in the guarded lobby
\* (HookNrscLobbyScan, BhrcOldMemberMatchingFirewallActive): the fence alone does it,
\* whatever becomes of the probe, the handoff and the peers.
THEOREM MemberStaysOut == Spec => []ClosedUntilReleased
<1>1. IInv => ClosedUntilReleased
  BY DEF IInv, EntryInv, ClosedUntilReleased, Firewall, FenceCurrent
<1>q. QED
  BY <1>1, MemberInvariant, PTL

\* A set latch and a native join always have a handoff that answers for them, or
\* one that was finished in good order (ProcessBhrcAuthorizedOldMemberHandoff and
\* its fail-closed side).
THEOREM NothingIsOrphaned == Spec => []NoOrphanOwner
<1>1. IInv => NoOrphanOwner
  <2>1. IInv => (Working => Owning(handoff))
    BY DEF IInv, SoundInv, HandoffSound, Working, Owning
  <2>q. QED
    BY <2>1 DEF IInv, OwnerInv, LatchOwned, JoinOwned, NoOrphanOwner
<1>q. QED
  BY <1>1, MemberInvariant, PTL
=============================================================================
